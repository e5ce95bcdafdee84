\* Two blocks of up to two notes of every type (the callbacks: MCCAPE!R).
CONSTANTS
    alice = alice
    tok = tok
    evil = evil
    NRoots = 2
    RootValues <- MCRootValues
    ZeroRoot = 0
    Erc20Addresses = {tok}
    ZeroAddress = zeroAddress
    Sponsors = {alice}
    Policies = {"neutral", "freezable", "wide"}
    WidePolicies = {"wide"}
    InternalCodes = {"d"}
    AssetDefinitions <- NotesAssets
    Users = {alice}
    deployer = alice
    CapeAddress = cape
    ReentrantTokens = {}
    Amounts = {1, 2}
    FaucetAmount = 2
    MAX_NUM_PENDING_DEPOSIT = 1
    TreeCapacity = 9
    VkIds <- MCVkIds
    InitialBalance = 2
    ZeroCommitment = zeroCommitment
    OutputLists <- NotesOutputs
    MaxInputs = 2
    MaxNotes = 2
    MaxSpare = 1
    MaxHeight = 2
SPECIFICATION MCSpec
INVARIANTS Solvency EventsReplayState WrappedRecordsBacked NoDoubleSpend
PROPERTY ImplementsCapeLog
CHECK_DEADLOCK FALSE
