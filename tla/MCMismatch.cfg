CONSTANTS
    alice = alice
    bob = bob
    weth0 = weth0
    usdc0 = usdc0
    Tokens = {weth0, usdc0}
    WETH = weth0
    Users = {alice, bob}
    Composer = composer
    Pool = pool
    Modulus = 3
    BPS_DEN = 4
    LIQUIDATION_BONUS_BPS = 1
    LIQUIDATION_CLOSE_FACTOR_BPS = 2
    FLASH_FEE_BPS = 2
    REVEAL_COOLDOWN = 1
    Amounts = {1, 2}
    LtvRatios <- MCLtvRatios
    Prices = {1}
    LtvBps = {4}
    Suppliers <- MarketSuppliers
    Borrowers <- MarketBorrowers
    OwnerCalls = {}
    Transfers = {}
    Configured = TRUE
    InitialTokens <- RichMarketTokens
    InitialEth <- MarketEth
    MaxTime = 1
    MaxLent = 2
    MaxAmount = 2
SPECIFICATION Spec
PROPERTIES
    MismatchMovesNoTokens
