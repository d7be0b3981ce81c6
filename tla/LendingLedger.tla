---------------------------- MODULE LendingLedger ----------------------------
(***************************************************************************)
(* What the lending pool promises, seen as bookkeeping: for each token the *)
(* cash the pool holds, the reserve it counts as its own (liquidReserve)   *)
(* and the plaintext debt outstanding (totalPlainBorrow); for each user    *)
(* the number under the encrypted supply and debt handles.  The calls that *)
(* reach the pool, their inputs, time, pausing, roles and proofs are all   *)
(* hidden; LendingPool and LendingCommitReveal implement this module.      *)
(*                                                                         *)
(* The encrypted side of a transfer may follow the plaintext side only in  *)
(* part: "credited", "debited", "recorded" and "cancelled" are what the    *)
(* homomorphic update really did, at most the amount transferred.          *)
(***************************************************************************)
EXTENDS Integers

CONSTANTS
    Tokens, Users,
    MaxAmount           \* bound: the largest amount of one transfer

ASSUME LedgerAssumption == MaxAmount \in Nat

VARIABLES cash, reserve, lent, supply, debt

vars == <<cash, reserve, lent, supply, debt>>

Amount == 0 .. MaxAmount

Init ==
    /\ cash = [t \in Tokens |-> 0]
    /\ reserve = [t \in Tokens |-> 0]
    /\ lent = [t \in Tokens |-> 0]
    /\ supply = [t \in Tokens |-> [u \in Users |-> 0]]
    /\ debt = [t \in Tokens |-> [u \in Users |-> 0]]

-----------------------------------------------------------------------------
\* Tokens that reach the pool outside its functions: a plain ERC-20 transfer.
Donate(t, amount) ==
    /\ cash' = [cash EXCEPT ![t] = @ + amount]
    /\ UNCHANGED <<reserve, lent, supply, debt>>

\* Every form of shield, and depositFor.
Deposit(t, u, amount, credited) ==
    /\ credited <= amount
    /\ cash' = [cash EXCEPT ![t] = @ + amount]
    /\ reserve' = [reserve EXCEPT ![t] = @ + amount]
    /\ supply' = [supply EXCEPT ![t][u] = @ + credited]
    /\ UNCHANGED <<lent, debt>>

\* Mutant: a withdrawal may take the liquidity that covers the loans.
WithdrawUncovered(t, u, amount, debited) ==
    /\ debited <= supply[t][u]
    /\ reserve[t] >= amount
    /\ cash' = [cash EXCEPT ![t] = @ - amount]
    /\ reserve' = [reserve EXCEPT ![t] = @ - amount]
    /\ supply' = [supply EXCEPT ![t][u] = @ - debited]
    /\ UNCHANGED <<lent, debt>>

\* Every form of unshield and withdraw: what stays covers the plaintext debt.
Withdraw(t, u, amount, debited) ==
    /\ debited <= amount
    /\ debited <= supply[t][u]
    /\ reserve[t] - amount >= lent[t]
    /\ cash' = [cash EXCEPT ![t] = @ - amount]
    /\ reserve' = [reserve EXCEPT ![t] = @ - amount]
    /\ supply' = [supply EXCEPT ![t][u] = @ - debited]
    /\ UNCHANGED <<lent, debt>>

\* Every form of borrow.
Lend(t, u, amount, recorded) ==
    /\ recorded <= amount
    /\ reserve[t] >= amount
    /\ cash' = [cash EXCEPT ![t] = @ - amount]
    /\ reserve' = [reserve EXCEPT ![t] = @ - amount]
    /\ lent' = [lent EXCEPT ![t] = @ + amount]
    /\ debt' = [debt EXCEPT ![t][u] = @ + recorded]
    /\ UNCHANGED supply

\* Mutant: a repayment is booked and never collected.
RepayUncollected(t, u, amount, cancelled) ==
    /\ cancelled <= debt[t][u]
    /\ lent[t] >= amount
    /\ lent' = [lent EXCEPT ![t] = @ - amount]
    /\ debt' = [debt EXCEPT ![t][u] = @ - cancelled]
    /\ UNCHANGED <<cash, reserve, supply>>

\* Every form of repay.
Repay(t, u, amount, cancelled) ==
    /\ cancelled <= amount
    /\ cancelled <= debt[t][u]
    /\ lent[t] >= amount
    /\ cash' = [cash EXCEPT ![t] = @ + amount]
    /\ reserve' = [reserve EXCEPT ![t] = @ + amount]
    /\ lent' = [lent EXCEPT ![t] = @ - amount]
    /\ debt' = [debt EXCEPT ![t][u] = @ - cancelled]
    /\ UNCHANGED supply

\* Mutant: the fee is booked and never collected.
FlashFeeUncollected(t, fee) ==
    /\ reserve' = [reserve EXCEPT ![t] = @ + fee]
    /\ UNCHANGED <<cash, lent, supply, debt>>

\* A repaid flash loan leaves its fee.
FlashFee(t, fee) ==
    /\ cash' = [cash EXCEPT ![t] = @ + fee]
    /\ reserve' = [reserve EXCEPT ![t] = @ + fee]
    /\ UNCHANGED <<lent, supply, debt>>

\* A liquidation repays a part of u's debt in d and takes collateral in c,
\* both booked in full on the encrypted side.
Liquidate(u, c, d, cover, seized) ==
    /\ c # d
    /\ cover <= debt[d][u] /\ cover <= lent[d]
    /\ seized <= supply[c][u] /\ seized <= reserve[c]
    /\ cover = 0 => seized = 0
    /\ cash' = [cash EXCEPT ![d] = @ + cover, ![c] = @ - seized]
    /\ reserve' = [reserve EXCEPT ![d] = @ + cover, ![c] = @ - seized]
    /\ lent' = [lent EXCEPT ![d] = @ - cover]
    /\ supply' = [supply EXCEPT ![c][u] = @ - seized]
    /\ debt' = [debt EXCEPT ![d][u] = @ - cover]

\* Mutant: the exit pays the supply out and keeps it on the books.
EmergencyExitKeepsSupply(t, u) ==
    /\ supply[t][u] > 0
    /\ reserve[t] - supply[t][u] >= lent[t]
    /\ cash' = [cash EXCEPT ![t] = @ - supply[t][u]]
    /\ reserve' = [reserve EXCEPT ![t] = @ - supply[t][u]]
    /\ debt' = [debt EXCEPT ![t][u] = 0]
    /\ UNCHANGED <<lent, supply>>

\* The exit of a paused pool pays out the whole supply of a token and forgets
\* the caller's debt in it; the plaintext total keeps that debt.
EmergencyExit(t, u) ==
    /\ supply[t][u] > 0
    /\ reserve[t] - supply[t][u] >= lent[t]
    /\ cash' = [cash EXCEPT ![t] = @ - supply[t][u]]
    /\ reserve' = [reserve EXCEPT ![t] = @ - supply[t][u]]
    /\ supply' = [supply EXCEPT ![t][u] = 0]
    /\ debt' = [debt EXCEPT ![t][u] = 0]
    /\ UNCHANGED lent

Next ==
    \/ \E t \in Tokens, amount \in Amount :
          \/ Donate(t, amount)
          \/ FlashFee(t, amount)
          \/ \E u \in Users, booked \in 0 .. amount :
                \/ Deposit(t, u, amount, booked)
                \/ Withdraw(t, u, amount, booked)
                \/ Lend(t, u, amount, booked)
                \/ Repay(t, u, amount, booked)
    \/ \E u \in Users, c, d \in Tokens, cover, seized \in Amount :
          Liquidate(u, c, d, cover, seized)
    \/ \E t \in Tokens, u \in Users : EmergencyExit(t, u)

Spec == Init /\ [][Next]_vars

\* The movements of clients that encrypt what they claim and claim no more than
\* their position allows: the encrypted side books the whole amount.
FullyBookedNext ==
    \/ \E t \in Tokens, amount \in Amount :
          \/ Donate(t, amount)
          \/ FlashFee(t, amount)
          \/ \E u \in Users :
                \/ Deposit(t, u, amount, amount)
                \/ Withdraw(t, u, amount, amount)
                \/ Lend(t, u, amount, amount)
                \/ Repay(t, u, amount, amount)
    \/ \E u \in Users, c, d \in Tokens, cover, seized \in Amount :
          Liquidate(u, c, d, cover, seized)
    \/ \E t \in Tokens, u \in Users : EmergencyExit(t, u)

-----------------------------------------------------------------------------
TypeOK ==
    /\ cash \in [Tokens -> Nat]
    /\ reserve \in [Tokens -> Nat]
    /\ lent \in [Tokens -> Nat]
    /\ supply \in [Tokens -> [Users -> Nat]]
    /\ debt \in [Tokens -> [Users -> Nat]]

\* The reserve the pool counts is really in its hands, in every token, whatever
\* mixture of calls, donations and flash loans led here: liquidReserve is the
\* only thing the contract checks before it pays out.
ReserveBacked == \A t \in Tokens : reserve[t] <= cash[t]

\* Debt is created out of the reserve and returns to it: plaintext debt never
\* appears or disappears without the reserve moving by as much the other way.
\* A liquidation touches two tokens and must keep this for both.
LoansMoveReserve ==
    [][\A t \in Tokens :
          lent'[t] # lent[t] => reserve'[t] + lent'[t] = reserve[t] + lent[t]]_vars

\* Liquidity that leaves for good (neither lent nor seized against a repaid
\* debt) leaves a reserve that covers the plaintext debt of that token.
PayoutsKeepCover ==
    [][\A t \in Tokens :
          reserve'[t] + lent'[t] < reserve[t] + lent[t]
             => \/ reserve'[t] >= lent'[t]
                \/ \E d \in Tokens \ {t} : lent'[d] < lent[d]]_vars

\* Encrypted positions are paid for: a user's supply grows only by tokens the
\* pool took in, and a debt shrinks only by tokens the pool took in, or
\* together with the whole supply at the emergency exit.
PositionsArePaidFor ==
    [][\A t \in Tokens, u \in Users :
          /\ supply'[t][u] - supply[t][u] > 0
                => cash'[t] - cash[t] >= supply'[t][u] - supply[t][u]
          /\ debt'[t][u] - debt[t][u] < 0
                => \/ cash'[t] - cash[t] >= debt[t][u] - debt'[t][u]
                   \/ /\ supply[t][u] > 0 /\ supply'[t][u] = 0
                      /\ cash'[t] - cash[t] = -supply[t][u]]_vars
=============================================================================
