\* Two keys, two workers, two grants; a store that works (the failing one:
\* MCFaucet!E); a record of eleven, to be broken up for grants of two.
CONSTANTS
    Keys = {k1, k2}
    DefaultKey = default
    Workers = {w1, w2}
    None = None
    NoKey = NoKey
    num_grants = 2
    max_len = 2
    StoreMayFail = FALSE
    MaxRequests = 1
    MaxRestarts = 1
    MaxLog = 3
    Balance = 11
    grant_size = 2
    num_records = 4
    MaxGrants = 2
    MaxRejected = 1
SPECIFICATION MCSpec
INVARIANTS  KeysHeldOnce LoadMatchesReplay
PROPERTIES AcceptedAreServed BreakerComesToRest
CHECK_DEADLOCK FALSE
