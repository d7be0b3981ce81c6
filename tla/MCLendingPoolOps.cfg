CONSTANTS
    alice = alice
    bob = bob
    weth0 = weth0
    usdc0 = usdc0
    Tokens = {weth0, usdc0}
    WETH = weth0
    Users = {alice}
    Composer = composer
    Pool = pool
    Modulus = 3
    BPS_DEN = 4
    LIQUIDATION_BONUS_BPS = 1
    LIQUIDATION_CLOSE_FACTOR_BPS = 2
    FLASH_FEE_BPS = 2
    REVEAL_COOLDOWN = 1
    Amounts = {1, 2}
    LtvRatios <- MCLtvRatios
    Prices = {1}
    LtvBps = {4}
    Suppliers <- OpsSuppliers
    Borrowers <- OpsBorrowers
    OwnerCalls = {"pause", "oracle", "weth", "composer"}
    Transfers <- OpsTransfers
    Configured = FALSE
    InitialTokens <- OpsTokens
    InitialEth <- OpsEth
    MaxTime = 2
    MaxLent = 2
    MaxAmount = 2
SPECIFICATION Spec
INVARIANTS
    PoolSolvent
PROPERTIES
    PausedPoolOnlyPaysExits
