\* The process is restarted; no asset is sponsored while a deposit waits
\* (the reorganisations: MCEqsPair!R).
CONSTANTS
    MAX_NUM_PENDING_DEPOSIT = 2
    num_confirmations = 1
    max_blocks_to_query = 0
    EventLists <- MCEventLists
    MaxBlocks = 3
    MaxRestarts = 2
    MaxEvents = 4
    Assets = {"wrapped"}
    NotesLists <- SignedLists
    LateFaucet = FALSE
SPECIFICATION PairSpec
INVARIANTS ReplicaMatches BlockTransactionsFound ServedEventsStable
PROPERTY CatchesUpAfterCrashes
CHECK_DEADLOCK FALSE
