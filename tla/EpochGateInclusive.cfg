CONSTANTS
    SlotsPerEpoch = 200
    EndOfEpochThreshold = 95
    StakeTime = "OnlyNearEpochEnd"
SPECIFICATION Spec
INVARIANT StakeGateInclusiveAtThreshold
