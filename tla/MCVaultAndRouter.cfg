CONSTANTS
    alice = alice
    bob = bob
    dai0 = dai0
    usdc0 = usdc0
    name0 = name0
    Tokens = {dai0, usdc0}
    Accounts = {alice, bob}
    Owner = bob
    Creators = {alice}
    Vault = vault
    Addresses = {vault, proxy}
    NoAddress = none
    Names = {name0}
    Modulus = 8
    ROTATION_DELAY = 1
    MaxStrategies = 2
    MaxPositions <- MCMaxPositions
    Amounts = {1, 2}
    InitialTokens <- MCTokens
    MaxTime = 2
    MaxEncrypted <- MCMaxEncrypted
    Traded = {dai0, usdc0}
    Users = {alice, bob}
    Router = router
    Uniswap = uniswap
    FirstExecutor = proxy
    MIN_DEADLINE_OFFSET = 1
    MAX_DEADLINE_OFFSET = 1
    SwapAmounts = {1, 2}
    InitialHoldings <- MCHoldings
    MaxRouterTime = 3
    MaxIntents <- MCMaxIntents
    Callers = {alice, bob}
    StrategyIds = {name0}
    Pipelines <- MCPipelines
    MaxPerformed = 4
SPECIFICATION MCSpec
INVARIANTS
    DepositsAreHeld
    ListsMatchPositions
    TvlCoversPositions
    EscrowIsKept
    PipelinesRunInOrder
PROPERTIES
    IntentsSettleOnTheirTerms
    RotationWaitsItsDelay
