CONSTANTS
    alice = alice
    bob = bob
    weth0 = weth0
    usdc0 = usdc0
    Tokens = {weth0, usdc0}
    Users = {alice, bob}
    MaxAmount = 2
    MaxQuantity <- MCMaxQuantity
    Modulus = 8
    MaxClaim = 17
SPECIFICATION MCSpec
INVARIANTS
    FullBookingKeepsSolvency
    MathIsSound
PROPERTIES
    PayoutsKeepCover
    PositionsArePaidFor
