\* A wallet with two operations, one outage and one restart.
CONSTANTS
    Wallets = {w1}
    Assets = {a}
    MAX_NUM_PENDING_DEPOSIT = 1
    InitialBalance = 1
    MaxOps = 2
    MaxOthers = 1
    MaxQueries = 1
    MaxOutages = 1
    MaxRestarts = 1
    MaxTries = 2
SPECIFICATION FairSpec
INVARIANT StreamsFollowLedger
PROPERTIES OperationsReturn DepositsArrive
CHECK_DEADLOCK FALSE
