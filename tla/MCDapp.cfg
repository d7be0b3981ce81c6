CONSTANTS
    MaxErrors = 0
    MaxConcurrent = 2
    MaxTimers = 2
    PublicOnce <- MCPublicOnce
    PublicPolled <- MCPublicPolled
    PublicLast <- MCPublicLast
    AuthedPolled <- MCAuthedPolled
    AuthedOnce <- MCAuthedOnce
    Batches <- MCBatches
    f1 = f1
    Flows = {f1, f2}
    r1 = r1
    r2 = r2
    r3 = r3
    r4 = r4
    key1 = key1
    key2 = key2
    NoKey = nokey
    Calls = {r1, r2, r3, r4}
    Guarded = {r1, r2, r3}
    KeyOf <- MCKeyOf
    CacheSize = 1
    Clicks = {c1, c2}
    Targets <- MCTargets
    MaxDrips = 2
    eth = eth
    Tokens <- MCTokens
    Readings <- MCReadings
    Natives = {3, 4}
    Unread = unread
    Scale = 1000
    Nothing = nothing
    TypeOf <- MCTypeOf
    Ids = {"n1", "n2", "n3"}
    DraftIds = {"d1", "d2"}
    Templates <- MCTemplates
    AiPlans <- MCAiPlans
    MaxHistory = 2
    Looks = {0, 1}
    Canvases <- MCCanvases
    Funded = {"supply", "vault", "n1"}
    Deploys = {"x1", "x2"}
    Accounts = {a1, a2}
    NoAccount = noaccount
    Logins = {l1}
    Connectors = {"injected"}
    ConnectorIds = {"injected", "unknown"}
    MaxLogouts = 2
    PermitLife = 2
    PermitSeconds = 4
    RenewAt = 2
    TweakSeconds = 3
    MaxGrants = 2
    DialogFlows = {g1, g2}
    Positions = {"p1", "p2"}
    Proposals = {"q1", "q2"}
    CanvasNodes = {"n1", "n2"}
    MaxIdleNodes = 1
    ZoomMin = 1
    ZoomMax = 3
    ZoomReset = 2
    ZoomFollow = 3
    Runs = {u1, u2}
    EdgeKeys = {"e1", "e2"}
    MaxMarks = 2
    MaxDepth = 2
    Community = 1
SPECIFICATION MCSpec
INVARIANTS
    PollingFollowsTheSession
    SignedOutShowsNothing
    DoneWasExecuted
    PortfolioIsLastRead
    DeployToastIsHonest
    SessionFollowsAccount
    DialogWaitsForAFlow
    SimulationEnds
PROPERTIES
    ConnectGivesWay
    RequestsSettle
    UndoLosesNothing
CHECK_DEADLOCK FALSE
