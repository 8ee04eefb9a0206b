CONSTANTS
    Maintainers = {m1, m2, m3}
    None = None
    MaxMaintainers = 3
    SliceLength = 100
    PauseLength = 10
    MaxSlot = 700
SPECIFICATION Spec
CONSTRAINT SlotBound
INVARIANT NextDutySlotAgreesWithCurrentDuty
