\* A record of thirteen, to be broken up into at least four for grants of two.
CONSTANTS
    Balance = 13
    grant_size = 2
    num_records = 4
    MaxGrants = 3
    MaxRejected = 1
SPECIFICATION RecordsSpec
INVARIANT OpensWithEnoughRecords
CHECK_DEADLOCK FALSE
