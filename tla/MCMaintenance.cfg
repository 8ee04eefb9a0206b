CONSTANTS
    NumValidators = 2
    MinStake = 2
    MinWithdraw = 0
    StakeRent = 1
    ReserveRent = 1
    MaxUnstakeAccounts = 2
    MaxCommission = 5
    Commissions = {5, 9}
    UnbalanceNum = 1
    UnbalanceDen = 10
    MaintainerInList = TRUE
    DepositAmounts = {4}
    SurplusAmounts = {1}
    ClosableValidators = {1, 2}
    SlotsPerEpoch = 2
    EndOfEpochThreshold = 50
    StakeTime = "Anytime"
    EnvBudget = 2
    SeedSpace = 2
    BlockProductionRates = {0, 10}
    MinBlockProductionRate = 5
    MaxRate = 10
    Closed = Closed
    None = None
SPECIFICATION Spec
PROPERTY FreshInstructionAccepted
