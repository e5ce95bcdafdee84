\* Blocks of two notes, memos whose signature is not valid.
CONSTANTS
    MAX_NUM_PENDING_DEPOSIT = 2
    num_confirmations = 1
    max_blocks_to_query = 1
    EventLists <- MCEventLists
    MaxBlocks = 3
    MaxRestarts = 0
    MaxEvents = 4
    Assets = {"wrapped"}
    NotesLists <- TwoNoteLists
    LateFaucet = FALSE
SPECIFICATION Spec
INVARIANT MemosMatchOutputs
CHECK_DEADLOCK FALSE
