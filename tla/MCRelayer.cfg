\* Two requests for one transaction, and the loop.
CONSTANTS
    Requests = {r1, r2}
    Loop = loop
    Txns = {t1}
    None = None
    max_retries = 1
    extra_gas = 2
    block_gas_limit = 3
    MAX_NUM_PENDING_DEPOSIT = 2
    NRoots = 2
    MaxPool = 2
    MaxDeposits = 2
    MaxFaults = 1
SPECIFICATION FairSpec
INVARIANTS AnswersTruthful SteadyNonces GasSuffices
PROPERTIES DepositsCredited RequestsAnswered
CHECK_DEADLOCK FALSE
