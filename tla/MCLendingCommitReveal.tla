------------------------ MODULE MCLendingCommitReveal ------------------------
(***************************************************************************)
(* An instance of LendingCommitReveal for TLC: alice and bob meet only     *)
(* through the two-step calls and may execute each other's commits.  The   *)
(* history variable counts the movements of the reserve by these calls.    *)
(***************************************************************************)
EXTENDS LendingCommitReveal, FiniteSets, TLC

CONSTANTS alice, bob, weth0, usdc0

VARIABLE movements

Pairs == {<<weth0, alice>>, <<usdc0, bob>>}
BorrowPairs == {<<usdc0, alice>>}
MCLtvRatios == {<<1, 2>>}
MCUsdc == (alice :> 1) @@ (bob :> 2)
MCTokens == [t \in Tokens |-> [h \in Accounts |->
                IF t = usdc0 /\ h \in Users THEN MCUsdc[h] ELSE 0]]
MCEth == [u \in Users |-> IF u = alice THEN 2 ELSE 0]

MCInit == CRInit /\ movements = 0
MCNext ==
    \/ Next /\ UNCHANGED <<commitVars, movements>>
    \/ /\ TwoStepNext
       /\ movements' = IF liquidReserve' = liquidReserve THEN movements
                                                         ELSE movements + 1
MCSpec == MCInit /\ [][MCNext]_<<allVars, movements>>

-----------------------------------------------------------------------------
\* The ids that were ever given to a commit.
Issued == UNION { {u} \X (0 .. nonces[u] - 1) : u \in Users }

\* A commit moves the reserve once: the movements so far and the commits still
\* waiting add up to the commits ever made.  A proof cannot be replayed, and no
\* execution of a two-step call gets by without spending a commit.
EveryCommitPaysOnce ==
    movements + Cardinality(DOMAIN commits) = Cardinality(Issued)
=============================================================================
