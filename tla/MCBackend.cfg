CONSTANTS
    ann = ann
    ben = ben
    weth = weth
    usdc = usdc
    Wallets = {ann, ben}
    Spellings = {lower, mixed}
    Requests = {q1, q2}
    NoRow = norow
    NonceLife = 0
    SessionLife = 1
    MaxNonces = 2
    MaxAuthTime = 1
    MaxAuthFaults = 1
    Polls = {p1, p2}
    BatchBlocks = 1
    Retention = 1
    MaxHead = 3
    MaxIndexFaults = 1
    MaxStarts = 2
    Proposals = {prop1, prop2}
    Active = {prop1}
    Voters = {ann, ben}
    Weights = {1, 2}
    RecentVotes = 1
    MaxVotes = 4
    MaxVoteTime = 1
    VotingEnds = 0
    MaxCrashes = 2
    Lendable = {weth}
    DataReads = {r1, r2}
    CacheLife = 1
    ReadyLife = 1
    ReadLimit = 1
    MaxDataTime = 4
    CreateCalls = {c1, c2}
    Owners = {ann}
    MaxCatalogFaults = 1
    AiTokens = {weth, usdc}
    NoToken = notoken
    ModelPlans <- MCModelPlans
    MaxRequests = 2
    SimTokens = {weth, usdc}
    PricesOf <- MCPricesOf
    StaticPriceUsd <- MCStaticPriceUsd
    Plans <- MCPlans
    NoAsset = noasset
    AmountsIn <- MCAmountsIn
    Slippages <- MCSlippages
    Unit = 100
    Fee = 1
    DefaultRatio = 70
    PriceLife = 1
    MaxSimTime = 2
    MaxRuns = 2
    EnvTokens = {"WETH"}
    VerifyCases <- MCVerifyCases
    FaucetSymbols <- MCFaucetSymbols
SPECIFICATION MCSpec
INVARIANTS
    LoginsAreGenuine
    CheckpointSkipsNothing
    StoredEventsAreFound
    RecentVotersCountOnce
    RegisteredMigrationsExist
    AnswersAreRecent
    ListedVersionsExist
    PlansStartWithTheUsersToken
    RoundTripsNeverGain
    DeploymentIsWhole
PROPERTIES
    EventsSettle
CHECK_DEADLOCK FALSE
