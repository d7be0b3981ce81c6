------------------------- MODULE MCVaultAndRouter -------------------------
(***************************************************************************)
(* The contracts around the pool for TLC: StrategyVault with its registry, *)
(* SwapRouter and StrategyExecutor.  A behaviour moves one of them.  The   *)
(* vault's deployment is set up by its owner in any order, for two         *)
(* populations as in MCLendingLedger.  The router has two users who sell   *)
(* to one another's token and two executors, one of them the               *)
(* ExecutorContract; a history variable keeps when each executor was last  *)
(* proposed.                                                               *)
(***************************************************************************)
EXTENDS StrategyVault, SwapRouter, StrategyExecutor

CONSTANTS alice, bob, dai0, usdc0, name0,
          MaxEncrypted  \* bound on encrypted numbers, by population

\* As 2^128 is beyond every amount, what a client may still add fits.
ASSUME EncryptedFits ==
    /\ MaxEncrypted[TRUE] \in Nat
    /\ \A amount \in Amounts : MaxEncrypted[TRUE] + amount < Modulus

VARIABLES
    part,           \* the contract that moves
    fullyBooked, scenario,
    proposedAt

\* Bound: the owner's calls explored together.  Either strategies come, are
\* replaced and switched, or the registry is paused and changes its vault; and
\* either a user has several intents, or the executor changes.
Explored ==
    CASE scenario = "catalog"  ->
            /\ rotation' = rotation /\ registryPaused' = registryPaused
            /\ fullyBooked \/ strategyCount' <= 1
      [] scenario = "rotation" ->
            /\ strategyCount' <= 1 /\ userPositionNonce'[alice] <= 1
            /\ strategyCount' = strategyCount => strategies' = strategies

MCTokens == [t \in Tokens |-> [u \in Accounts |->
                IF t = usdc0 THEN IF u = alice THEN 2 ELSE 0
                             ELSE IF u = alice THEN 0 ELSE 1]]
MCMaxEncrypted == [full \in BOOLEAN |-> IF full THEN 3 ELSE 1]
MCMaxPositions == [u \in Accounts |-> IF u = alice THEN 2 ELSE 0]

MCHoldings == [t \in Traded |-> [h \in Holders |->
                 IF t = usdc0 THEN IF h = alice THEN 2 ELSE 0
                              ELSE IF h \in {bob, FirstExecutor, Uniswap}
                                   THEN 1 ELSE 0]]
MCMaxIntents == [u \in Users |-> IF u = alice THEN 2 ELSE 1]

MCPipelines == { <<"SHIELD_SUPPLY", "BORROW_LTV", "SWAP_INTENT">>,
                 <<"DEPOSIT_VAULT", "ADD_COLLATERAL">>,
                 <<"WITHDRAW_VAULT", "UNKNOWN">> }

MCInit ==
    /\ part \in {"vault", "router", "executor"}
    /\ Init /\ RouterInit /\ ExecInit /\ proposedAt = [a \in Addresses |-> 0]
    /\ fullyBooked \in BOOLEAN /\ scenario \in {"catalog", "rotation"}
    /\ part # "vault" => fullyBooked
    /\ part = "executor" => scenario = "catalog"

\* What is the vault's alone, and what is the router's.
vaultOnly == <<vaultVars, catalog, vaultAddress, registryPaused, encryptedTvls>>
routerOnly == <<routerVars, proposedAt>>

VaultMoves ==
    /\ part = "vault"
    /\ \/ fullyBooked /\ FullyBookedNext
       \/ ~fullyBooked /\ Next
    /\ \A s \in Slots : encryptedTvls'[s].v <= MaxEncrypted[fullyBooked]
    /\ \A u \in Accounts, id \in PositionIds :
          collateral'[u][id].v <= MaxEncrypted[fullyBooked]
    /\ Explored
    /\ UNCHANGED <<routerOnly, execVars>>

RouterMoves ==
    /\ part = "router"
    /\ RouterNext
    /\ CASE scenario = "catalog"  -> UNCHANGED rotation
         [] scenario = "rotation" -> \A u \in Users : nonces'[u] <= 1
    /\ proposedAt' = IF pendingRole' # NoAddress /\ rotation' # rotation
                     THEN [proposedAt EXCEPT ![pendingRole'] = now]
                     ELSE proposedAt
    /\ UNCHANGED <<vaultOnly, execVars>>

\* Bound: the actions performed under all checkpoints together.
ExecutorMoves ==
    /\ part = "executor"
    /\ ExecNext
    /\ MapThenSumSet(LAMBDA k : Len(performed'[k]), Keys) <= MaxPerformed + 1
    /\ UNCHANGED <<vars, allRouterVars, proposedAt>>

MCNext ==
    /\ VaultMoves \/ RouterMoves \/ ExecutorMoves
    /\ UNCHANGED <<part, fullyBooked, scenario>>

mcVars == <<vars, allRouterVars, execVars, proposedAt, part, fullyBooked, scenario>>

MCSpec == MCInit /\ [][MCNext]_mcVars

-----------------------------------------------------------------------------
Of(s) == { id \in Open : position[id].strategyId = s }
Collateral(id) == collateral[position[id].beneficiary][id].v

\* The units of encrypted collateral in a strategy's open positions.
Booked(s) == UNION { {id} \X (1 .. Collateral(id)) : id \in Of(s) }

\* With clients that book in full, the encrypted total of a strategy covers the
\* encrypted collateral of its open positions, and that their deposits: neither
\* a mismatched close, nor a paused withdrawal by anyone, nor a strategy that is
\* switched off or replaced in between loses any of it.
TvlCoversPositions ==
    fullyBooked =>
        /\ \A id \in Open : Collateral(id) >= position[id].deposited
        /\ \A s \in 1 .. MaxStrategies :
              encryptedTvls[s].v >= Cardinality(Booked(s))

\* The executor changes only to an address that has itself been waiting for the
\* whole delay, counted from the last time it was proposed; other proposals in
\* between neither shorten the wait nor hand it on.
RotationWaitsItsDelay ==
    [][executor' # executor =>
          now >= proposedAt[executor'] + ROTATION_DELAY]_mcVars
=============================================================================
