CONSTANTS
 Wallets = {w1}
 Assets = {a}
 MAX_NUM_PENDING_DEPOSIT = 1
 InitialBalance = 1
 MaxOps = 2
 MaxOthers = 2
 MaxQueries = 1
 MaxOutages = 1
 MaxRestarts = 1
 MaxTries = 2
SPECIFICATION Spec
INVARIANT WrapGuaranteed
CHECK_DEADLOCK FALSE
