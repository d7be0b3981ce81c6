---------------------------- MODULE MCLendingPool ----------------------------
(***************************************************************************)
(* Instances of LendingPool for TLC.  The 10000 basis points are scaled to *)
(* 4: a fee of 2, a bonus of 1 and a close factor of 2 keep the rounding   *)
(* and the half-debt limit of the contract on amounts of 1 and 2.          *)
(***************************************************************************)
EXTENDS LendingPool

CONSTANTS alice, bob, weth0, usdc0

MCLtvRatios == {<<1, 1>>, <<1, 2>>}

Holding(t0, h0, n, t, h) == IF t = t0 /\ h = h0 THEN n ELSE 0

\* The market: alice brings collateral and borrows, bob lends and liquidates.
MarketSuppliers == {<<weth0, alice>>, <<usdc0, bob>>}
MarketBorrowers == {<<usdc0, alice>>}
MarketTokens ==
    [t \in Tokens |-> [h \in Accounts |->
        Holding(weth0, alice, 1, t, h) + Holding(usdc0, bob, 2, t, h)]]
\* Enough to borrow 2 against 2, and 1 left to liquidate with.
RichMarketTokens ==
    [t \in Tokens |-> [h \in Accounts |->
        Holding(weth0, alice, 2, t, h) + Holding(usdc0, bob, 3, t, h)]]
FullLtv == {<<1, 1>>}
MarketEth == [u \in Users |-> 0]

\* Operations: alice alone, with ether, every owner function, plain transfers.
OpsSuppliers == {<<weth0, alice>>}
OpsBorrowers == {<<weth0, alice>>}
OpsTransfers == {<<alice, Composer>>, <<Composer, alice>>, <<alice, Pool>>}
OpsTokens == [t \in Tokens |-> [h \in Accounts |-> Holding(weth0, alice, 1, t, h)]]
OpsEth == [u \in Users |-> IF u = alice THEN 1 ELSE 0]
=============================================================================
