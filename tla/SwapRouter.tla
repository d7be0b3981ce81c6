----------------------------- MODULE SwapRouter -----------------------------
(***************************************************************************)
(* SwapRouter.sol: a swap intent escrows what its user wants to sell until *)
(* the executor fills it, before its deadline, or the user takes it back.  *)
(* Swaps through Uniswap pass through the router within one call.  The     *)
(* executor is an account or the ExecutorContract, which only forwards     *)
(* what its owner asks for.                                                *)
(***************************************************************************)
EXTENDS TimelockedRotation, FiniteSetsExt

CONSTANTS
    Traded, Users, Router, Uniswap, FirstExecutor,
    MIN_DEADLINE_OFFSET, MAX_DEADLINE_OFFSET,
    SwapAmounts,        \* amounts explored
    InitialHoldings,    \* ERC-20 balance of each holder
    MaxRouterTime,      \* bound on the clock
    MaxIntents          \* bound: intents ever submitted, by user

Holders == Users \cup Addresses \cup {Uniswap, Router}

ASSUME RouterAssumption ==
    /\ FirstExecutor \in Addresses
    /\ Router \notin Users \cup Addresses \cup {Uniswap}
    /\ 0 < MIN_DEADLINE_OFFSET /\ MIN_DEADLINE_OFFSET <= MAX_DEADLINE_OFFSET
    /\ MIN_DEADLINE_OFFSET \in Nat /\ MAX_DEADLINE_OFFSET \in Nat
    /\ SwapAmounts \subseteq Nat \ {0}
    /\ InitialHoldings \in [Traded -> [Holders -> Nat]]
    /\ \A t \in Traded : InitialHoldings[t][Router] = 0
    /\ MaxRouterTime \in Nat /\ MaxIntents \in [Users -> Nat]

VARIABLES
    intents,            \* open intents by id
    nonces,
    executor,
    paused,
    holdings            \* external: ERC-20 balances

routerVars    == <<intents, nonces, executor, paused, holdings>>
allRouterVars == <<routerVars, rotation, now>>

\* keccak256(chain, router, user, nonce).
IntentIds == Users \X Nat

RouterInit ==
    /\ RotationInit
    /\ intents = <<>>
    /\ nonces = [u \in Users |-> 0]
    /\ executor = FirstExecutor
    /\ paused = FALSE
    /\ holdings = InitialHoldings
    /\ now = 1

-----------------------------------------------------------------------------
Move(b, t, from, to, amount) ==
    LET sent == [b EXCEPT ![t][from] = @ - amount]
    IN  [sent EXCEPT ![t][to] = @ + amount]

\* Mutant: the intent is left in the book.
KeepIntent(id) == UNCHANGED intents

\* delete intents[intentId]
DeleteIntent(id) == intents' = [i \in DOMAIN intents \ {id} |-> intents[i]]

SubmitSwapIntent(by, tokenIn, tokenOut, amountIn, minAmountOut, offset) ==
    /\ ~paused
    /\ tokenIn # tokenOut
    /\ amountIn # 0
    /\ offset \in MIN_DEADLINE_OFFSET .. MAX_DEADLINE_OFFSET
    /\ nonces[by] < MaxIntents[by]                              \* bound
    /\ nonces' = [nonces EXCEPT ![by] = @ + 1]
    /\ LET id == <<by, nonces[by]>>
       IN  intents' = [i \in DOMAIN intents \cup {id} |->
               IF i = id
               THEN [tokenIn |-> tokenIn, tokenOut |-> tokenOut,
                     amountIn |-> amountIn, minAmountOut |-> minAmountOut,
                     user |-> by, deadline |-> now + offset]
               ELSE intents[i]]
    /\ holdings[tokenIn][by] >= amountIn
    /\ holdings' = Move(holdings, tokenIn, by, Router, amountIn)
    /\ UNCHANGED <<executor, paused, rotation, now>>

\* All that cancelIntent and its transfer ask for.  Pausing does not stop it.
Refundable(by, id) ==
    /\ id \in DOMAIN intents
    /\ intents[id].user = by
    /\ holdings[intents[id].tokenIn][Router] >= intents[id].amountIn

CancelIntent(by, id) ==
    /\ Refundable(by, id)
    /\ DeleteIntent(id)
    /\ LET i == intents[id]
       IN  holdings' = Move(holdings, i.tokenIn, Router, by, i.amountIn)
    /\ UNCHANGED <<nonces, executor, paused, rotation, now>>

\* Mutant: the minimum is the user's wish, not a condition.
AcceptsAny(i, outputAmount) == now <= i.deadline /\ outputAmount # 0

\* What the router asks of a fill.
AcceptsFill(i, outputAmount) ==
    /\ now <= i.deadline
    /\ outputAmount # 0
    /\ outputAmount >= i.minAmountOut

ExecuteIntent(by, id, outputAmount) ==
    /\ ~paused
    /\ by = executor
    /\ id \in DOMAIN intents
    /\ LET i    == intents[id]
           paid == Move(holdings, i.tokenOut, by, i.user, outputAmount)
       IN  /\ AcceptsFill(i, outputAmount)
           /\ holdings[i.tokenOut][by] >= outputAmount
           /\ paid[i.tokenIn][Router] >= i.amountIn
           /\ holdings' = Move(paid, i.tokenIn, Router, by, i.amountIn)
    /\ DeleteIntent(id)
    /\ UNCHANGED <<nonces, executor, paused, rotation, now>>

\* swapViaUniswapV3Single and swapViaUniswapV3MultiHop: the tokens come in, are
\* approved and taken by Uniswap, which pays the caller.
SwapViaUniswapV3(by, tokenIn, tokenOut, amountIn, amountOutMinimum, amountOut) ==
    /\ ~paused
    /\ amountIn # 0
    /\ holdings[tokenIn][by] >= amountIn
    /\ amountOut >= amountOutMinimum
    /\ LET pulled == Move(holdings, tokenIn, by, Router, amountIn)
           sold   == Move(pulled, tokenIn, Router, Uniswap, amountIn)
       IN  /\ sold[tokenOut][Uniswap] >= amountOut
           /\ holdings' = Move(sold, tokenOut, Uniswap, by, amountOut)
    /\ UNCHANGED <<intents, nonces, executor, paused, rotation, now>>

\* ExecutorContract.withdrawTokens, or a transfer between an executor's wallets.
ExecutorTransfer(from, to, t, amount) ==
    /\ holdings[t][from] >= amount
    /\ holdings' = Move(holdings, t, from, to, amount)
    /\ UNCHANGED <<intents, nonces, executor, paused, rotation, now>>

-----------------------------------------------------------------------------
ProposeExecutor(newExecutor) ==
    /\ ~paused
    /\ ProposeRole(newExecutor)
    /\ UNCHANGED <<routerVars, now>>

AcceptExecutor ==
    /\ ~paused
    /\ AcceptRole
    /\ executor' = pendingRole
    /\ UNCHANGED <<intents, nonces, paused, holdings, now>>

PauseRouter(on) ==
    /\ paused # on
    /\ paused' = on
    /\ UNCHANGED <<intents, nonces, executor, holdings, rotation, now>>

RouterTick ==
    /\ now < MaxRouterTime                                            \* bound
    /\ now' = now + 1
    /\ UNCHANGED <<routerVars, rotation>>

RouterNext ==
    \/ \E by \in Users, in, out \in Traded, amount \in SwapAmounts, min \in SwapAmounts :
          \/ \E offset \in MIN_DEADLINE_OFFSET .. MAX_DEADLINE_OFFSET :
                SubmitSwapIntent(by, in, out, amount, min, offset)
          \/ \E received \in SwapAmounts :
                in # out /\ SwapViaUniswapV3(by, in, out, amount, min, received)
    \/ \E id \in DOMAIN intents :
          \/ \E by \in Users : CancelIntent(by, id)
          \/ \E by \in Addresses, amount \in SwapAmounts : ExecuteIntent(by, id, amount)
    \/ \E from, to \in Addresses, t \in Traded, amount \in SwapAmounts :
          from # to /\ ExecutorTransfer(from, to, t, amount)
    \/ \E a \in Addresses : ProposeExecutor(a)
    \/ AcceptExecutor \/ RouterTick
    \/ \E on \in BOOLEAN : PauseRouter(on)

RouterSpec == RouterInit /\ [][RouterNext]_allRouterVars

-----------------------------------------------------------------------------
Intent == [tokenIn : Traded, tokenOut : Traded, amountIn : Nat,
           minAmountOut : Nat, user : Users, deadline : Nat]

RouterTypeOK ==
    /\ RotationTypeOK
    /\ DOMAIN intents \subseteq IntentIds
    /\ \A id \in DOMAIN intents : intents[id] \in Intent
    /\ nonces \in [Users -> Nat]
    /\ executor \in Addresses
    /\ paused \in BOOLEAN
    /\ holdings \in [Traded -> [Holders -> Nat]]
    /\ now \in Nat

\* The units of a token that the open intents sell.
Escrow(t) ==
    UNION { {id} \X (1 .. intents[id].amountIn) :
               id \in { i \in DOMAIN intents : intents[i].tokenIn = t } }

\* What the router holds of a token is what the open intents sell of it: swaps
\* through Uniswap leave nothing behind and no intent pays twice, whatever the
\* order of fills, cancellations and changes of the executor.  And the user of an
\* intent can take it back at any moment until it is filled: after its deadline,
\* with no executor willing, and while paused.
EscrowIsKept ==
    /\ \A t \in Traded : holdings[t][Router] = Cardinality(Escrow(t))
    /\ \A id \in DOMAIN intents : Refundable(intents[id].user, id)

\* An intent leaves the book in one of two ways: its user has the escrow back, or
\* the user has at least the minimum, in time, and the executor of that moment
\* the escrow.  Its terms do not change before.
IntentsSettleOnTheirTerms ==
    [][\A id \in DOMAIN intents :
          LET i      == intents[id]
              gain(t, h) == holdings'[t][h] - holdings[t][h]
          IN  IF id \in DOMAIN intents'
              THEN intents'[id] = i
              ELSE /\ gain(i.tokenIn, Router) = - i.amountIn
                   /\ \/ /\ gain(i.tokenIn, i.user) = i.amountIn
                         /\ gain(i.tokenOut, i.user) = 0
                      \/ /\ now <= i.deadline
                         /\ gain(i.tokenOut, i.user) >= i.minAmountOut
                         /\ gain(i.tokenIn, executor) = i.amountIn]_allRouterVars
=============================================================================
