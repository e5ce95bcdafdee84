\* Small instances of the sequential parts.
CONSTANTS
    NRoots = 3
    RootValues = {r1, r2, r3, r4, r5}
    ZeroRoot = zero
    MaxAdds = 7
    Height = 3
    MaxElements = 5
    NoteIds = {i1, i2}
    MaxNotes = 4
    P = 251
    MaxU256 = 256
    RevealMapLen = 6
    GateWidth = 2
    Amounts = {0, 9, 10, 255}
    Api <- MCApi
    Reads <- MCReads
    Required <- MCRequired
    MaxLen = 5
    Width = 3
    t1 = t1
    s1 = s1
    t2 = t2
    v1 = v1
    LibrarySpecs <- MCLibrarySpecs
    SigningKeys = {k1, k2}
    TrustedKey = k1
    Unset = unset
    MaxCommands = 3
    Erc20Codes = {t1}
    Sponsors = {s1}
    CAPE_NUM_ROOTS = 1
    KeySizes <- MCKeySizes
    InitialGrants <- MCGrants
    InitialOps <- MCOps
    Ids = {1, 2}
    MaxCalls = 2
    Users = {alice, bob}
    Default = default
    BookRequests = {q1, q2, q3}
    Paths = {p1, p2}
    Mnemonics = {m1, m2}
    Passwords = {x1, x2}
    MaxRequests = 4
    MaxFaults = 1
    Holders = {h1, h2}
    Domestic = {d1}
    FeeAsset = fees
    WrappedAsset = wrapped
    NoHolder = nobody
    InitialFees = 3
    Minted = 2
    WrappedAmount = 3
    MaxAccounts = 2
    MaxTxns = 3
    MaxRandomTxns = 4
    MaxRejected = 1
    MaxErrors = 1
SPECIFICATION MCSpec
INVARIANTS
    KeepsLatestRoots
    UpdatesBuildTree
    CodecKeepsNotes
    ConversionsKeepValues
    RequestsReachHandlers WindowAsDocumented
    LedgersAgree TokensBackRecords RootsOutliveTransactions
    KeysServedBySignature AcknowledgedKeysStay
    OneWalletPerKeystore MintInfoStaysPrivate
    BalancesAddUp AccountsShowLedger BookCoversTransfers
    LibrariesMatchChain
PROPERTIES ImplementsRootWindow
CHECK_DEADLOCK FALSE
