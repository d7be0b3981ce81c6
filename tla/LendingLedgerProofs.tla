------------------------- MODULE LendingLedgerProofs -------------------------
(***************************************************************************)
(* What LendingLedger promises, for every set of tokens and users and      *)
(* every bound on an amount.  One lemma per group of movements; the first  *)
(* theorem's invariant is inductive as it stands.                          *)
(***************************************************************************)
EXTENDS LendingLedger, TLAPS

LedgerInv == TypeOK /\ ReserveBacked

\* The ledger starts empty, well typed and backed.
LEMMA LedgerInit == Init => LedgerInv
BY DEF Init, LedgerInv, TypeOK, ReserveBacked

LEMMA AmountsAreNat == Amount \subseteq Nat
BY LedgerAssumption DEF Amount

\* Every movement keeps the quantities natural numbers and the reserve backed.
LEMMA LedgerStep == LedgerInv /\ [Next]_vars => LedgerInv'
<1>1. SUFFICES ASSUME LedgerInv, [Next]_vars PROVE LedgerInv'
  OBVIOUS
<1> USE DEF LedgerInv, TypeOK, ReserveBacked
<1>2. ASSUME NEW t \in Tokens, NEW amount \in Nat, Donate(t, amount)
      PROVE  LedgerInv'
  BY <1>1, <1>2 DEF Donate
<1>3. ASSUME NEW t \in Tokens, NEW amount \in Nat, FlashFee(t, amount)
      PROVE  LedgerInv'
  BY <1>1, <1>3 DEF FlashFee
<1>4. ASSUME NEW t \in Tokens, NEW u \in Users,
             NEW amount \in Nat, NEW booked \in Nat,
             \/ Deposit(t, u, amount, booked)
             \/ Withdraw(t, u, amount, booked)
             \/ Lend(t, u, amount, booked)
             \/ Repay(t, u, amount, booked)
      PROVE  LedgerInv'
  <2>1. CASE Deposit(t, u, amount, booked)
    BY <1>1, <2>1 DEF Deposit
  <2>2. CASE Withdraw(t, u, amount, booked)
    <3>1. /\ cash[t] - amount \in Nat /\ reserve[t] - amount \in Nat
          /\ supply[t][u] - booked \in Nat
      BY <1>1, <2>2 DEF Withdraw
    <3> QED BY <1>1, <2>2, <3>1 DEF Withdraw
  <2>3. CASE Lend(t, u, amount, booked)
    <3>1. cash[t] - amount \in Nat /\ reserve[t] - amount \in Nat
      BY <1>1, <2>3 DEF Lend
    <3> QED BY <1>1, <2>3, <3>1 DEF Lend
  <2>4. CASE Repay(t, u, amount, booked)
    <3>1. lent[t] - amount \in Nat /\ debt[t][u] - booked \in Nat
      BY <1>1, <2>4 DEF Repay
    <3> QED BY <1>1, <2>4, <3>1 DEF Repay
  <2> QED BY <1>4, <2>1, <2>2, <2>3, <2>4
<1>5. ASSUME NEW u \in Users, NEW c \in Tokens, NEW d \in Tokens,
             NEW cover \in Nat, NEW seized \in Nat,
             Liquidate(u, c, d, cover, seized)
      PROVE  LedgerInv'
  <2>1. /\ lent[d] - cover \in Nat /\ debt[d][u] - cover \in Nat
        /\ supply[c][u] - seized \in Nat
        /\ reserve[c] - seized \in Nat /\ cash[c] - seized \in Nat
    BY <1>1, <1>5 DEF Liquidate
  <2>2. /\ cash' \in [Tokens -> Nat] /\ reserve' \in [Tokens -> Nat]
        /\ lent' \in [Tokens -> Nat]
    <3>1. /\ c # d
          /\ cash[d] + cover \in Nat /\ reserve[d] + cover \in Nat
      BY <1>1, <1>5 DEF Liquidate
    <3>2. cash' \in [Tokens -> Nat]
      BY <1>1, <1>5, <2>1, <3>1 DEF Liquidate
    <3>3. reserve' \in [Tokens -> Nat]
      BY <1>1, <1>5, <2>1, <3>1 DEF Liquidate
    <3>4. lent' \in [Tokens -> Nat]
      BY <1>1, <1>5, <2>1 DEF Liquidate
    <3> QED BY <3>2, <3>3, <3>4
  <2>3. /\ supply' \in [Tokens -> [Users -> Nat]]
        /\ debt' \in [Tokens -> [Users -> Nat]]
    BY <1>1, <1>5, <2>1 DEF Liquidate
  <2>4. ASSUME NEW t \in Tokens PROVE reserve'[t] <= cash'[t]
    <3>1. c # d
      BY <1>5 DEF Liquidate
    <3>2. CASE t = c
      BY <1>1, <1>5, <3>1, <3>2 DEF Liquidate
    <3>3. CASE t = d
      BY <1>1, <1>5, <3>1, <3>3 DEF Liquidate
    <3>4. CASE t # c /\ t # d
      BY <1>1, <1>5, <3>4 DEF Liquidate
    <3> QED BY <3>2, <3>3, <3>4
  <2> QED BY <2>2, <2>3, <2>4
<1>6. ASSUME NEW t \in Tokens, NEW u \in Users, EmergencyExit(t, u)
      PROVE  LedgerInv'
  <2>1. cash[t] - supply[t][u] \in Nat /\ reserve[t] - supply[t][u] \in Nat
    BY <1>1, <1>6 DEF EmergencyExit
  <2> QED BY <1>1, <1>6, <2>1 DEF EmergencyExit
<1>7. CASE UNCHANGED vars
  BY <1>1, <1>7 DEF vars
<1> QED
  <2>1. CASE Next
    BY AmountsAreNat, <1>2, <1>3, <1>4, <1>5, <1>6, <2>1 DEF Next
  <2> QED BY <1>1, <1>7, <2>1

\* The quantities of the ledger are natural numbers: no movement overdraws the
\* cash, the reserve, a position or the plaintext debt.
THEOREM LedgerTypeCorrect == Spec => []TypeOK
<1>1. LedgerInv => TypeOK
  BY DEF LedgerInv
<1> QED BY LedgerInit, LedgerStep, <1>1, PTL DEF Spec

\* The reserve the contract pays out of is in its hands, after every mixture of
\* calls, donations and flash loans.
THEOREM LedgerReserveBacked == Spec => []ReserveBacked
<1>1. LedgerInv => ReserveBacked
  BY DEF LedgerInv
<1> QED BY LedgerInit, LedgerStep, <1>1, PTL DEF Spec

-----------------------------------------------------------------------------
(* Action properties: each is shown of one step of the invariant's states. *)

\* The movements of Next, with quantities known to be natural numbers.
LEMMA LedgerMovements ==
    ASSUME Next
    PROVE  \/ \E t \in Tokens, amount \in Nat :
                 Donate(t, amount) \/ FlashFee(t, amount)
           \/ \E t \in Tokens, u \in Users, amount, booked \in Nat :
                 \/ Deposit(t, u, amount, booked)
                 \/ Withdraw(t, u, amount, booked)
                 \/ Lend(t, u, amount, booked)
                 \/ Repay(t, u, amount, booked)
           \/ \E u \in Users, c, d \in Tokens, cover, seized \in Nat :
                 Liquidate(u, c, d, cover, seized)
           \/ \E t \in Tokens, u \in Users : EmergencyExit(t, u)
BY AmountsAreNat DEF Next

\* One token's plaintext debt moves with its reserve in one step.
LEMMA LoanStep ==
    ASSUME LedgerInv, [Next]_vars, NEW t \in Tokens, lent'[t] # lent[t]
    PROVE  reserve'[t] + lent'[t] = reserve[t] + lent[t]
<1> USE DEF LedgerInv, TypeOK
<1>1. Next
  BY DEF vars
<1>2. CASE \E x \in Tokens, amount \in Nat :
              Donate(x, amount) \/ FlashFee(x, amount)
  BY <1>2 DEF Donate, FlashFee
<1>3. CASE \E x \in Tokens, u \in Users, amount, booked \in Nat :
              Deposit(x, u, amount, booked) \/ Withdraw(x, u, amount, booked)
  BY <1>3 DEF Deposit, Withdraw
<1>4. CASE \E x \in Tokens, u \in Users, amount, booked \in Nat :
              Lend(x, u, amount, booked) \/ Repay(x, u, amount, booked)
  <2>1. PICK x \in Tokens, u \in Users, amount \in Nat, booked \in Nat :
            Lend(x, u, amount, booked) \/ Repay(x, u, amount, booked)
    BY <1>4
  <2>2. x = t
    BY <2>1 DEF Lend, Repay
  <2> QED BY <2>1, <2>2 DEF Lend, Repay
<1>5. CASE \E u \in Users, c, d \in Tokens, cover, seized \in Nat :
              Liquidate(u, c, d, cover, seized)
  <2>1. PICK u \in Users, c \in Tokens, d \in Tokens,
             cover \in Nat, seized \in Nat : Liquidate(u, c, d, cover, seized)
    BY <1>5
  <2>2. t = d /\ c # d
    BY <2>1 DEF Liquidate
  <2> QED BY <2>1, <2>2 DEF Liquidate
<1>6. CASE \E x \in Tokens, u \in Users : EmergencyExit(x, u)
  BY <1>6 DEF EmergencyExit
<1> QED BY <1>1, <1>2, <1>3, <1>4, <1>5, <1>6, LedgerMovements

\* Debt is created out of the reserve and returns to it, in both tokens of a
\* liquidation too.
THEOREM LedgerLoansMoveReserve == Spec => LoansMoveReserve
<1>1. LedgerInv /\ [Next]_vars =>
        [\A t \in Tokens :
            lent'[t] # lent[t] => reserve'[t] + lent'[t] = reserve[t] + lent[t]]_vars
  BY LoanStep
<1> QED BY LedgerInit, LedgerStep, <1>1, PTL DEF Spec, LoansMoveReserve

\* Only a payout, a liquidation or an exit takes liquidity away for good.
LEMMA PayoutStep ==
    ASSUME LedgerInv, [Next]_vars, NEW t \in Tokens,
           reserve'[t] + lent'[t] < reserve[t] + lent[t]
    PROVE  \/ reserve'[t] >= lent'[t]
           \/ \E d \in Tokens \ {t} : lent'[d] < lent[d]
<1> USE DEF LedgerInv, TypeOK
<1>1. Next
  BY DEF vars
<1>2. CASE \E x \in Tokens, amount \in Nat :
              Donate(x, amount) \/ FlashFee(x, amount)
  <2>1. PICK x \in Tokens, amount \in Nat : Donate(x, amount) \/ FlashFee(x, amount)
    BY <1>2
  <2>2. reserve'[t] + lent'[t] >= reserve[t] + lent[t]
    <3>1. CASE Donate(x, amount)
      BY <3>1 DEF Donate
    <3>2. CASE FlashFee(x, amount)
      BY <3>2 DEF FlashFee
    <3> QED BY <2>1, <3>1, <3>2
  <2>3. reserve'[t] + lent'[t] \in Int /\ reserve[t] + lent[t] \in Int
    <3>1. CASE Donate(x, amount)
      BY <3>1 DEF Donate
    <3>2. CASE FlashFee(x, amount)
      BY <3>2 DEF FlashFee
    <3> QED BY <2>1, <3>1, <3>2
  <2> QED BY <2>2, <2>3
<1>3. CASE \E x \in Tokens, u \in Users, amount, booked \in Nat :
              \/ Deposit(x, u, amount, booked)
              \/ Lend(x, u, amount, booked)
              \/ Repay(x, u, amount, booked)
  <2>1. PICK x \in Tokens, u \in Users, amount \in Nat, booked \in Nat :
            \/ Deposit(x, u, amount, booked)
            \/ Lend(x, u, amount, booked)
            \/ Repay(x, u, amount, booked)
    BY <1>3
  <2>2. reserve'[t] + lent'[t] >= reserve[t] + lent[t]
    <3>1. CASE Deposit(x, u, amount, booked)
      BY <3>1 DEF Deposit
    <3>2. CASE Lend(x, u, amount, booked)
      BY <3>2 DEF Lend
    <3>3. CASE Repay(x, u, amount, booked)
      BY <3>3 DEF Repay
    <3> QED BY <2>1, <3>1, <3>2, <3>3
  <2>3. reserve'[t] + lent'[t] \in Int
    BY LedgerStep DEF ReserveBacked
  <2> QED BY <2>2, <2>3
<1>4. CASE \E x \in Tokens, u \in Users, amount, booked \in Nat :
              Withdraw(x, u, amount, booked)
  BY <1>4 DEF Withdraw
<1>5. CASE \E u \in Users, c, d \in Tokens, cover, seized \in Nat :
              Liquidate(u, c, d, cover, seized)
  <2>1. PICK u \in Users, c \in Tokens, d \in Tokens,
             cover \in Nat, seized \in Nat : Liquidate(u, c, d, cover, seized)
    BY <1>5
  <2>2. c # d /\ (cover = 0 => seized = 0)
    BY <2>1 DEF Liquidate
  <2>3. t = c /\ seized > 0
    BY <2>1, <2>2 DEF Liquidate
  <2>4. lent'[d] < lent[d]
    BY <2>1, <2>2, <2>3 DEF Liquidate
  <2> QED BY <2>2, <2>3, <2>4
<1>6. CASE \E x \in Tokens, u \in Users : EmergencyExit(x, u)
  BY <1>6 DEF EmergencyExit
<1> QED BY <1>1, <1>2, <1>3, <1>4, <1>5, <1>6, LedgerMovements

\* Liquidity that leaves for good leaves the plaintext debt of its token covered,
\* unless it is collateral seized against a repaid debt in another token.
THEOREM LedgerPayoutsKeepCover == Spec => PayoutsKeepCover
<1>1. LedgerInv /\ [Next]_vars =>
        [\A t \in Tokens :
            reserve'[t] + lent'[t] < reserve[t] + lent[t]
               => \/ reserve'[t] >= lent'[t]
                  \/ \E d \in Tokens \ {t} : lent'[d] < lent[d]]_vars
  BY PayoutStep
<1> QED BY LedgerInit, LedgerStep, <1>1, PTL DEF Spec, PayoutsKeepCover

\* A position gets better only against tokens that came in, or in the exit.
LEMMA PaidStep ==
    ASSUME LedgerInv, [Next]_vars, NEW t \in Tokens, NEW u \in Users
    PROVE  /\ supply'[t][u] - supply[t][u] > 0
                 => cash'[t] - cash[t] >= supply'[t][u] - supply[t][u]
           /\ debt'[t][u] - debt[t][u] < 0
                 => \/ cash'[t] - cash[t] >= debt[t][u] - debt'[t][u]
                    \/ /\ supply[t][u] > 0 /\ supply'[t][u] = 0
                       /\ cash'[t] - cash[t] = -supply[t][u]
<1> USE DEF LedgerInv, TypeOK
<1>1. CASE UNCHANGED vars
  BY <1>1 DEF vars
<1>2. CASE \E x \in Tokens, amount \in Nat :
              Donate(x, amount) \/ FlashFee(x, amount)
  BY <1>2 DEF Donate, FlashFee
<1>3. CASE \E x \in Tokens, w \in Users, amount, booked \in Nat :
              Deposit(x, w, amount, booked) \/ Withdraw(x, w, amount, booked)
  <2>1. PICK x \in Tokens, w \in Users, amount \in Nat, booked \in Nat :
            Deposit(x, w, amount, booked) \/ Withdraw(x, w, amount, booked)
    BY <1>3
  <2>2. CASE x = t /\ w = u
    BY <2>1, <2>2 DEF Deposit, Withdraw
  <2>3. CASE ~(x = t /\ w = u)
    <3>1. supply'[t][u] = supply[t][u] /\ debt'[t][u] = debt[t][u]
      BY <2>1, <2>3 DEF Deposit, Withdraw
    <3> QED BY <3>1
  <2> QED BY <2>2, <2>3
<1>4. CASE \E x \in Tokens, w \in Users, amount, booked \in Nat :
              Lend(x, w, amount, booked) \/ Repay(x, w, amount, booked)
  <2>1. PICK x \in Tokens, w \in Users, amount \in Nat, booked \in Nat :
            Lend(x, w, amount, booked) \/ Repay(x, w, amount, booked)
    BY <1>4
  <2>2. CASE x = t /\ w = u
    BY <2>1, <2>2 DEF Lend, Repay
  <2>3. CASE ~(x = t /\ w = u)
    <3>1. supply'[t][u] = supply[t][u] /\ debt'[t][u] = debt[t][u]
      BY <2>1, <2>3 DEF Lend, Repay
    <3> QED BY <3>1
  <2> QED BY <2>2, <2>3
<1>5. CASE \E w \in Users, c, d \in Tokens, cover, seized \in Nat :
              Liquidate(w, c, d, cover, seized)
  <2>1. PICK w \in Users, c \in Tokens, d \in Tokens,
             cover \in Nat, seized \in Nat : Liquidate(w, c, d, cover, seized)
    BY <1>5
  <2>2. c # d
    BY <2>1 DEF Liquidate
  <2>3. supply'[t][u] = IF t = c /\ u = w THEN supply[c][w] - seized
                                          ELSE supply[t][u]
    BY <2>1 DEF Liquidate
  <2>4. debt'[t][u] = IF t = d /\ u = w THEN debt[d][w] - cover ELSE debt[t][u]
    BY <2>1 DEF Liquidate
  <2>5. t = d => cash'[t] = cash[t] + cover
    BY <2>1, <2>2 DEF Liquidate
  <2> QED BY <2>3, <2>4, <2>5
<1>6. CASE \E x \in Tokens, w \in Users : EmergencyExit(x, w)
  <2>1. PICK x \in Tokens, w \in Users : EmergencyExit(x, w)
    BY <1>6
  <2>2. CASE x = t /\ w = u
    BY <2>1, <2>2 DEF EmergencyExit
  <2>3. CASE ~(x = t /\ w = u)
    <3>1. supply'[t][u] = supply[t][u] /\ debt'[t][u] = debt[t][u]
      BY <2>1, <2>3 DEF EmergencyExit
    <3> QED BY <3>1
  <2> QED BY <2>2, <2>3
<1> QED BY <1>1, <1>2, <1>3, <1>4, <1>5, <1>6, LedgerMovements

\* A supply grows, and a debt shrinks, only by tokens the pool took in, or in the
\* emergency exit that pays out the whole supply.
THEOREM LedgerPositionsArePaidFor == Spec => PositionsArePaidFor
<1>1. LedgerInv /\ [Next]_vars =>
        [\A t \in Tokens, u \in Users :
            /\ supply'[t][u] - supply[t][u] > 0
                  => cash'[t] - cash[t] >= supply'[t][u] - supply[t][u]
            /\ debt'[t][u] - debt[t][u] < 0
                  => \/ cash'[t] - cash[t] >= debt[t][u] - debt'[t][u]
                     \/ /\ supply[t][u] > 0 /\ supply'[t][u] = 0
                        /\ cash'[t] - cash[t] = -supply[t][u]]_vars
  BY PaidStep
<1> QED BY LedgerInit, LedgerStep, <1>1, PTL DEF Spec, PositionsArePaidFor
=============================================================================
