\* A restart after an asset was sponsored while a deposit waited.
CONSTANTS
    MAX_NUM_PENDING_DEPOSIT = 2
    num_confirmations = 1
    max_blocks_to_query = 0
    EventLists <- MCEventLists
    MaxBlocks = 3
    MaxRestarts = 1
    MaxEvents = 4
    Assets = {"wrapped", "wrapped too"}
    NotesLists <- RelayerLists
    LateFaucet = FALSE
SPECIFICATION Spec
INVARIANT AllPendingWraps
CHECK_DEADLOCK FALSE
