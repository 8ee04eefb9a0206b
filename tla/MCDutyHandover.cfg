CONSTANTS
    Maintainers = {m1, m2, m3}
    None = None
    MaxMaintainers = 3
    SliceLength = 100
    PauseLength = 10
    Lag = 4
    Latency = 6
    Period = 600
SPECIFICATION Spec
INVARIANT NoRaceAtHandover
PROPERTY RotationRefined
