-------------------------- MODULE LendingPoolProofs --------------------------
(***************************************************************************)
(* Theorems about LendingPool for every set of tokens and users, every     *)
(* price, fee and bound, and then about LendingCommitReveal, the whole     *)
(* LendingPool.sol, for every deadline too.  First the type of each half   *)
(* of the pool's state, block by block and then call by call; in the       *)
(* second part the two-step calls are added, and what a commit id stands   *)
(* for.                                                                    *)
(***************************************************************************)
EXTENDS MCLendingCommitReveal, FHESafeMath128Proofs, FiniteSetTheorems

(* LendingLedger over the state of the pool. *)

Cash == [t \in Tokens |-> bal[t][Pool]]
SupplyNumber == [t \in Tokens |-> [u \in Users |-> supplyBalances[t][u].v]]
DebtNumber   == [t \in Tokens |-> [u \in Users |-> borrowBalances[t][u].v]]

L == INSTANCE LendingLedgerProofs WITH
        cash <- Cash, reserve <- liquidReserve, lent <- totalPlainBorrow,
        supply <- SupplyNumber, debt <- DebtNumber

EncryptedOK ==
    /\ supplyBalances \in [Tokens -> [Users -> Handle]]
    /\ borrowBalances \in [Tokens -> [Users -> Handle]]
    /\ revealed \subseteq {"supply", "borrow"} \X Tokens \X Users

BooksOK ==
    /\ totalPlainBorrow \in [Tokens -> Nat]
    /\ liquidReserve \in [Tokens -> Nat]

WalletsOK ==
    /\ bal \in [Tokens -> [Holders -> Nat]]
    /\ eth \in [Users -> Nat]

FrameOK ==
    /\ lastRevealTime \in [Users -> [Tokens -> Nat]]
    /\ paused \in BOOLEAN /\ oracle \in BOOLEAN
    /\ weth \in BOOLEAN /\ isComposer \in BOOLEAN
    /\ now \in Nat

LEMMA TypeParts == TypeOK <=> EncryptedOK /\ BooksOK /\ WalletsOK /\ FrameOK
BY DEF TypeOK, EncryptedOK, BooksOK, WalletsOK, FrameOK

LEMMA TypePartsNext ==
    EncryptedOK' /\ BooksOK' /\ WalletsOK' /\ FrameOK' => TypeOK'
BY DEF TypeOK, EncryptedOK, BooksOK, WalletsOK, FrameOK

LEMMA AmountFacts ==
    /\ Amounts \subseteq Nat /\ Plain \subseteq Nat
    /\ WETH \in Tokens /\ Users \subseteq Accounts /\ Composer \in Accounts
    /\ Accounts \subseteq Holders /\ Pool \in Holders /\ Pool \notin Accounts
BY PoolAssumption, ModulusAssumption DEF Plain, Accounts, Holders

-----------------------------------------------------------------------------
(* The building blocks.                                                    *)

\* Storing a handle and forgetting that the old one was public.
LEMMA StoreTypes ==
    ASSUME EncryptedOK, NEW t \in Tokens, NEW u \in Users, NEW x \in Handle
    PROVE  /\ StoreSupply(t, u, x) /\ UNCHANGED borrowBalances => EncryptedOK'
           /\ StoreDebt(t, u, x) /\ UNCHANGED supplyBalances => EncryptedOK'
<1>1. ASSUME StoreSupply(t, u, x), UNCHANGED borrowBalances PROVE EncryptedOK'
  <2>1. supplyBalances' \in [Tokens -> [Users -> Handle]]
    BY <1>1 DEF EncryptedOK, StoreSupply
  <2>2. revealed' \subseteq revealed
    BY <1>1 DEF StoreSupply
  <2> QED BY <1>1, <2>1, <2>2 DEF EncryptedOK
<1>2. ASSUME StoreDebt(t, u, x), UNCHANGED supplyBalances PROVE EncryptedOK'
  <2>1. borrowBalances' \in [Tokens -> [Users -> Handle]]
    BY <1>2 DEF EncryptedOK, StoreDebt
  <2>2. revealed' \subseteq revealed
    BY <1>2 DEF StoreDebt
  <2> QED BY <1>2, <2>1, <2>2 DEF EncryptedOK
<1> QED BY <1>1, <1>2

LEMMA PositionsAreHandles ==
    ASSUME EncryptedOK, NEW t \in Tokens, NEW u \in Users
    PROVE  /\ supplyBalances[t][u] \in Handle /\ borrowBalances[t][u] \in Handle
           /\ Supply(t, u) \in Handle /\ Debt(t, u) \in Handle
           /\ Supply(t, u).v = supplyBalances[t][u].v
           /\ Debt(t, u).v = borrowBalances[t][u].v
<1>1. supplyBalances[t][u] \in Handle /\ borrowBalances[t][u] \in Handle
  BY DEF EncryptedOK
<1>2. ASSUME NEW x \in Handle
      PROVE  EnsureInitialized(x) \in Handle /\ EnsureInitialized(x).v = x.v
  BY HandleFacts DEF EnsureInitialized, Zero
<1> QED BY <1>1, <1>2 DEF Supply, Debt

\* The encrypted half of a deposit, a withdrawal, a loan and a repayment.
LEMMA EncryptedTypes ==
    ASSUME EncryptedOK, NEW t \in Tokens, NEW u \in Users, NEW x \in Handle
    PROVE  /\ CreditSupply(t, u, x) => EncryptedOK'
           /\ DebitSupply(t, u, x) => EncryptedOK'
           /\ RecordDebt(t, u, x) => EncryptedOK'
           /\ CancelDebt(t, u, x) => EncryptedOK'
BY PositionsAreHandles, SafeUpdatesBounded, StoreTypes
   DEF CreditSupply, DebitSupply, RecordDebt, CancelDebt

\* The plaintext half.
LEMMA BooksTypes ==
    ASSUME BooksOK, NEW t \in Tokens, NEW n \in Nat
    PROVE  /\ AddReserve(t, n) => BooksOK'
           /\ ReleaseReserve(t, n) => BooksOK'
           /\ LendReserve(t, n) => BooksOK'
           /\ RepayReserve(t, n) => BooksOK'
<1> USE DEF BooksOK
<1>1. AddReserve(t, n) => BooksOK'
  BY DEF AddReserve
<1>2. ASSUME ReleaseReserve(t, n) PROVE BooksOK'
  <2>1. liquidReserve[t] - n \in Nat
    BY <1>2 DEF ReleaseReserve
  <2> QED BY <1>2, <2>1 DEF ReleaseReserve
<1>3. ASSUME LendReserve(t, n) PROVE BooksOK'
  <2>1. liquidReserve[t] - n \in Nat
    BY <1>3 DEF LendReserve
  <2> QED BY <1>3, <2>1 DEF LendReserve
<1>4. ASSUME RepayReserve(t, n) PROVE BooksOK'
  <2>1. totalPlainBorrow[t] - n \in Nat
    BY <1>4 DEF RepayReserve
  <2> QED BY <1>4, <2>1 DEF RepayReserve
<1> QED BY <1>1, <1>2, <1>3, <1>4

\* The tokens and the ether that move.
LEMMA WalletsTypes ==
    ASSUME WalletsOK, NEW t \in Tokens, NEW h \in Accounts, NEW u \in Users,
           NEW n \in Nat
    PROVE  /\ PullFrom(t, h, n) => WalletsOK'
           /\ PayTo(t, h, n) => WalletsOK'
           /\ WrapFrom(u, n) => WalletsOK'
           /\ UnwrapTo(u, n) => WalletsOK'
<1> USE AmountFacts DEF WalletsOK
<1>1. ASSUME PullFrom(t, h, n) PROVE WalletsOK'
  <2>1. bal[t][h] - n \in Nat /\ bal[t][Pool] + n \in Nat
    BY <1>1 DEF PullFrom
  <2> QED BY <1>1, <2>1 DEF PullFrom
<1>2. ASSUME PayTo(t, h, n) PROVE WalletsOK'
  <2>1. bal[t][Pool] - n \in Nat /\ bal[t][h] + n \in Nat
    BY <1>2 DEF PayTo
  <2> QED BY <1>2, <2>1 DEF PayTo
<1>3. ASSUME WrapFrom(u, n) PROVE WalletsOK'
  <2>1. eth[u] - n \in Nat /\ bal[WETH][Pool] + n \in Nat
    BY <1>3 DEF WrapFrom
  <2> QED BY <1>3, <2>1 DEF WrapFrom
<1>4. ASSUME UnwrapTo(u, n) PROVE WalletsOK'
  <2>1. bal[WETH][Pool] - n \in Nat /\ eth[u] + n \in Nat
    BY <1>4 DEF UnwrapTo
  <2> QED BY <1>4, <2>1 DEF UnwrapTo
<1> QED BY <1>1, <1>2, <1>3, <1>4

LEMMA LiveKeepsFrame == FrameOK /\ Live => FrameOK'
BY DEF FrameOK, Live, config

-----------------------------------------------------------------------------
(* The blocks as the ledger sees them.                                     *)

LEMMA NumbersAreNat ==
    ASSUME TypeOK
    PROVE  /\ Cash \in [Tokens -> Nat]
           /\ liquidReserve \in [Tokens -> Nat]
           /\ totalPlainBorrow \in [Tokens -> Nat]
           /\ SupplyNumber \in [Tokens -> [Users -> Nat]]
           /\ DebtNumber \in [Tokens -> [Users -> Nat]]
<1>1. Cash \in [Tokens -> Nat]
  BY AmountFacts DEF TypeOK, Cash
<1>2. \A t \in Tokens, u \in Users :
         supplyBalances[t][u].v \in Nat /\ borrowBalances[t][u].v \in Nat
  BY HandleFacts DEF TypeOK
<1> QED BY <1>1, <1>2 DEF TypeOK, SupplyNumber, DebtNumber

LEMMA CashMoves ==
    ASSUME WalletsOK, NEW t \in Tokens, NEW h \in Accounts, NEW u \in Users,
           NEW n \in Nat
    PROVE  /\ PullFrom(t, h, n) => Cash' = [Cash EXCEPT ![t] = @ + n]
           /\ PayTo(t, h, n) => Cash' = [Cash EXCEPT ![t] = @ - n]
           /\ WrapFrom(u, n) => Cash' = [Cash EXCEPT ![WETH] = @ + n]
           /\ UnwrapTo(u, n) => Cash' = [Cash EXCEPT ![WETH] = @ - n]
<1> USE AmountFacts DEF WalletsOK, Cash
<1>1. ASSUME PullFrom(t, h, n) PROVE Cash' = [Cash EXCEPT ![t] = @ + n]
  BY <1>1 DEF PullFrom
<1>2. ASSUME PayTo(t, h, n) PROVE Cash' = [Cash EXCEPT ![t] = @ - n]
  BY <1>2 DEF PayTo
<1>3. ASSUME WrapFrom(u, n) PROVE Cash' = [Cash EXCEPT ![WETH] = @ + n]
  BY <1>3 DEF WrapFrom
<1>4. ASSUME UnwrapTo(u, n) PROVE Cash' = [Cash EXCEPT ![WETH] = @ - n]
  BY <1>4 DEF UnwrapTo
<1> QED BY <1>1, <1>2, <1>3, <1>4

\* Storing a handle changes one number.
LEMMA SupplyStored ==
    ASSUME EncryptedOK, NEW t \in Tokens, NEW u \in Users, NEW y \in Handle,
           supplyBalances' = [supplyBalances EXCEPT ![t][u] = y]
    PROVE  SupplyNumber' = [SupplyNumber EXCEPT ![t][u] = y.v]
BY DEF EncryptedOK, SupplyNumber

LEMMA DebtStored ==
    ASSUME EncryptedOK, NEW t \in Tokens, NEW u \in Users, NEW y \in Handle,
           borrowBalances' = [borrowBalances EXCEPT ![t][u] = y]
    PROVE  DebtNumber' = [DebtNumber EXCEPT ![t][u] = y.v]
BY DEF EncryptedOK, DebtNumber

LEMMA NumbersUnchanged ==
    /\ UNCHANGED supplyBalances => UNCHANGED SupplyNumber
    /\ UNCHANGED borrowBalances => UNCHANGED DebtNumber
BY DEF SupplyNumber, DebtNumber

LEMMA PositionMoves ==
    ASSUME EncryptedOK, NEW t \in Tokens, NEW u \in Users, NEW x \in Handle
    PROVE  /\ CreditSupply(t, u, x) =>
                 /\ \E k \in 0 .. x.v :
                       SupplyNumber' = [SupplyNumber EXCEPT ![t][u] = @ + k]
                 /\ UNCHANGED DebtNumber
           /\ DebitSupply(t, u, x) =>
                 /\ \E k \in 0 .. x.v :
                       /\ k <= SupplyNumber[t][u]
                       /\ SupplyNumber' = [SupplyNumber EXCEPT ![t][u] = @ - k]
                 /\ UNCHANGED DebtNumber
           /\ RecordDebt(t, u, x) =>
                 /\ \E k \in 0 .. x.v :
                       DebtNumber' = [DebtNumber EXCEPT ![t][u] = @ + k]
                 /\ UNCHANGED SupplyNumber
           /\ CancelDebt(t, u, x) =>
                 /\ \E k \in 0 .. x.v :
                       /\ k <= DebtNumber[t][u]
                       /\ DebtNumber' = [DebtNumber EXCEPT ![t][u] = @ - k]
                 /\ UNCHANGED SupplyNumber
<1> DEFINE s == supplyBalances[t][u]
           d == borrowBalances[t][u]
<1>1. /\ s \in Handle /\ d \in Handle /\ x.v \in Nat
      /\ s.v \in Nat /\ d.v \in Nat
      /\ SupplyNumber[t][u] = s.v /\ DebtNumber[t][u] = d.v
  BY PositionsAreHandles, HandleFacts DEF SupplyNumber, DebtNumber
<1>2. ASSUME NEW y \in Handle
      PROVE  /\ \E k \in 0 .. x.v : SafeIncrease(y, x).v = y.v + k
             /\ \E k \in 0 .. x.v : k <= y.v /\ SafeDecrease(y, x).v = y.v - k
  <2>1. y.v \in Nat
    BY HandleFacts
  <2>2. /\ SafeIncrease(y, x).v \in y.v .. y.v + x.v
        /\ SafeDecrease(y, x).v \in Nat /\ SafeDecrease(y, x).v <= y.v
        /\ y.v - SafeDecrease(y, x).v <= x.v
    BY SafeUpdatesBounded
  <2>3. \E k \in 0 .. x.v : SafeIncrease(y, x).v = y.v + k
    <3>1. SafeIncrease(y, x).v - y.v \in 0 .. x.v
      BY <1>1, <2>1, <2>2
    <3>2. SafeIncrease(y, x).v = y.v + (SafeIncrease(y, x).v - y.v)
      BY <1>1, <2>1, <2>2
    <3> QED BY <3>1, <3>2
  <2>4. \E k \in 0 .. x.v : k <= y.v /\ SafeDecrease(y, x).v = y.v - k
    <3>1. y.v - SafeDecrease(y, x).v \in 0 .. x.v
      BY <1>1, <2>1, <2>2
    <3>2. /\ y.v - SafeDecrease(y, x).v <= y.v
          /\ SafeDecrease(y, x).v = y.v - (y.v - SafeDecrease(y, x).v)
      BY <1>1, <2>1, <2>2
    <3> QED BY <3>1, <3>2
  <2> QED BY <2>3, <2>4
<1>3. ASSUME CreditSupply(t, u, x)
      PROVE  /\ \E k \in 0 .. x.v :
                   SupplyNumber' = [SupplyNumber EXCEPT ![t][u] = @ + k]
             /\ UNCHANGED DebtNumber
  <2>1. /\ supplyBalances' = [supplyBalances EXCEPT ![t][u] = SafeIncrease(s, x)]
        /\ UNCHANGED borrowBalances
    BY <1>3 DEF CreditSupply, StoreSupply
  <2>2. SupplyNumber' = [SupplyNumber EXCEPT ![t][u] = SafeIncrease(s, x).v]
    BY <1>1, <2>1, SafeUpdatesBounded, SupplyStored
  <2>3. PICK k \in 0 .. x.v : SafeIncrease(s, x).v = s.v + k
    BY <1>1, <1>2
  <2> QED BY <1>1, <2>1, <2>2, <2>3, NumbersUnchanged
<1>4. ASSUME DebitSupply(t, u, x)
      PROVE  /\ \E k \in 0 .. x.v :
                   /\ k <= SupplyNumber[t][u]
                   /\ SupplyNumber' = [SupplyNumber EXCEPT ![t][u] = @ - k]
             /\ UNCHANGED DebtNumber
  <2>1. /\ supplyBalances' = [supplyBalances EXCEPT ![t][u] = SafeDecrease(s, x)]
        /\ UNCHANGED borrowBalances
    BY <1>4 DEF DebitSupply, StoreSupply
  <2>2. SupplyNumber' = [SupplyNumber EXCEPT ![t][u] = SafeDecrease(s, x).v]
    BY <1>1, <2>1, SafeUpdatesBounded, SupplyStored
  <2>3. PICK k \in 0 .. x.v : k <= s.v /\ SafeDecrease(s, x).v = s.v - k
    BY <1>1, <1>2
  <2> QED BY <1>1, <2>1, <2>2, <2>3, NumbersUnchanged
<1>5. ASSUME RecordDebt(t, u, x)
      PROVE  /\ \E k \in 0 .. x.v :
                   DebtNumber' = [DebtNumber EXCEPT ![t][u] = @ + k]
             /\ UNCHANGED SupplyNumber
  <2>1. /\ borrowBalances' = [borrowBalances EXCEPT ![t][u] = SafeIncrease(d, x)]
        /\ UNCHANGED supplyBalances
    BY <1>5 DEF RecordDebt, StoreDebt
  <2>2. DebtNumber' = [DebtNumber EXCEPT ![t][u] = SafeIncrease(d, x).v]
    BY <1>1, <2>1, SafeUpdatesBounded, DebtStored
  <2>3. PICK k \in 0 .. x.v : SafeIncrease(d, x).v = d.v + k
    BY <1>1, <1>2
  <2> QED BY <1>1, <2>1, <2>2, <2>3, NumbersUnchanged
<1>6. ASSUME CancelDebt(t, u, x)
      PROVE  /\ \E k \in 0 .. x.v :
                   /\ k <= DebtNumber[t][u]
                   /\ DebtNumber' = [DebtNumber EXCEPT ![t][u] = @ - k]
             /\ UNCHANGED SupplyNumber
  <2>1. /\ borrowBalances' = [borrowBalances EXCEPT ![t][u] = SafeDecrease(d, x)]
        /\ UNCHANGED supplyBalances
    BY <1>6 DEF CancelDebt, StoreDebt
  <2>2. DebtNumber' = [DebtNumber EXCEPT ![t][u] = SafeDecrease(d, x).v]
    BY <1>1, <2>1, SafeUpdatesBounded, DebtStored
  <2>3. PICK k \in 0 .. x.v : k <= d.v /\ SafeDecrease(d, x).v = d.v - k
    BY <1>1, <1>2
  <2> QED BY <1>1, <2>1, <2>2, <2>3, NumbersUnchanged
<1> QED BY <1>3, <1>4, <1>5, <1>6

\* A deposit of n, of which k is booked on the encrypted side.
LEMMA DepositMovement ==
    ASSUME TypeOK, NEW t \in Tokens, NEW u \in Users, NEW n \in L!Amount,
           NEW x \in Handle, x.v <= n,
           AddReserve(t, n), CreditSupply(t, u, x), Cash' = [Cash EXCEPT ![t] = @ + n]
    PROVE  L!Next
<1>1. n \in Nat /\ x.v \in Nat /\ 0 .. x.v \subseteq 0 .. n
  BY HandleFacts, PoolAssumption DEF L!Amount
<1>2. PICK k \in 0 .. x.v :
        /\ SupplyNumber' = [SupplyNumber EXCEPT ![t][u] = @ + k]
        /\ UNCHANGED DebtNumber
  BY TypeParts, PositionMoves
<1>3. L!Deposit(t, u, n, k)
  BY <1>1, <1>2 DEF AddReserve, L!Deposit
<1> QED BY <1>1, <1>3 DEF L!Next

\* A payout of n, of which k is debited.
LEMMA WithdrawMovement ==
    ASSUME TypeOK, NEW t \in Tokens, NEW u \in Users, NEW n \in L!Amount,
           NEW x \in Handle, x.v <= n,
           ReleaseReserve(t, n), DebitSupply(t, u, x), Cash' = [Cash EXCEPT ![t] = @ - n]
    PROVE  L!Next
<1>1. n \in Nat /\ x.v \in Nat /\ 0 .. x.v \subseteq 0 .. n
  BY HandleFacts, PoolAssumption DEF L!Amount
<1>2. PICK k \in 0 .. x.v :
        /\ k <= SupplyNumber[t][u]
        /\ SupplyNumber' = [SupplyNumber EXCEPT ![t][u] = @ - k]
        /\ UNCHANGED DebtNumber
  BY TypeParts, PositionMoves
<1>3. L!Withdraw(t, u, n, k)
  BY <1>1, <1>2 DEF ReleaseReserve, L!Withdraw
<1> QED BY <1>1, <1>3 DEF L!Next

\* A loan of n, of which k is recorded.
LEMMA LendMovement ==
    ASSUME TypeOK, NEW t \in Tokens, NEW u \in Users, NEW n \in L!Amount,
           NEW x \in Handle, x.v <= n,
           LendReserve(t, n), RecordDebt(t, u, x), Cash' = [Cash EXCEPT ![t] = @ - n]
    PROVE  L!Next
<1>1. n \in Nat /\ x.v \in Nat /\ 0 .. x.v \subseteq 0 .. n
  BY HandleFacts, PoolAssumption DEF L!Amount
<1>2. PICK k \in 0 .. x.v :
        /\ DebtNumber' = [DebtNumber EXCEPT ![t][u] = @ + k]
        /\ UNCHANGED SupplyNumber
  BY TypeParts, PositionMoves
<1>3. L!Lend(t, u, n, k)
  BY <1>1, <1>2 DEF LendReserve, L!Lend
<1> QED BY <1>1, <1>3 DEF L!Next

\* A repayment of n, of which k is cancelled.
LEMMA RepayMovement ==
    ASSUME TypeOK, NEW t \in Tokens, NEW u \in Users, NEW n \in L!Amount,
           NEW x \in Handle, x.v <= n,
           RepayReserve(t, n), CancelDebt(t, u, x), Cash' = [Cash EXCEPT ![t] = @ + n]
    PROVE  L!Next
<1>1. n \in Nat /\ x.v \in Nat /\ 0 .. x.v \subseteq 0 .. n
  BY HandleFacts, PoolAssumption DEF L!Amount
<1>2. PICK k \in 0 .. x.v :
        /\ k <= DebtNumber[t][u]
        /\ DebtNumber' = [DebtNumber EXCEPT ![t][u] = @ - k]
        /\ UNCHANGED SupplyNumber
  BY TypeParts, PositionMoves
<1>3. L!Repay(t, u, n, k)
  BY <1>1, <1>2 DEF RepayReserve, L!Repay
<1> QED BY <1>1, <1>3 DEF L!Next

-----------------------------------------------------------------------------
(* The calls: each keeps the types and is a movement of the ledger, or     *)
(* leaves the ledger alone.                                                *)

LedgerView ==
    <<Cash, liquidReserve, totalPlainBorrow, SupplyNumber, DebtNumber>>

Refines == TypeOK' /\ (L!Next \/ UNCHANGED LedgerView)

LEMMA InputFacts ==
    ASSUME NEW amount \in Amounts, NEW enc \in EncInputs(amount)
    PROVE  /\ amount \in Nat /\ amount \in L!Amount
           /\ VerifyEquality(enc, amount) \in Handle
           /\ VerifyEquality(enc, amount).kind = "ct"
           /\ VerifyEquality(enc, amount).v <= amount
<1>1. amount \in Nat /\ amount \in L!Amount
  BY PoolAssumption DEF L!Amount
<1>2. enc \in Handle
  BY <1>1, ModInPlain, HandleFacts DEF EncInputs
<1> QED BY <1>1, <1>2, VerifyEqualityBounded

\* The wallets and the pool's cash, by direction.
LEMMA PullsCash ==
    ASSUME TypeOK, NEW t \in Tokens, NEW h \in Accounts, NEW n \in Nat,
           PullFrom(t, h, n)
    PROVE  WalletsOK' /\ Cash' = [Cash EXCEPT ![t] = @ + n]
<1>1. WalletsOK
  BY TypeParts
<1>2. WalletsOK'
  BY <1>1, AmountFacts DEF PullFrom, WalletsOK
<1>3. Cash' = [Cash EXCEPT ![t] = @ + n]
  BY <1>1, AmountFacts DEF PullFrom, WalletsOK, Cash
<1> QED BY <1>2, <1>3

LEMMA PaysCash ==
    ASSUME TypeOK, NEW t \in Tokens, NEW h \in Accounts, NEW n \in Nat,
           PayTo(t, h, n)
    PROVE  WalletsOK' /\ Cash' = [Cash EXCEPT ![t] = @ - n]
<1>1. WalletsOK
  BY TypeParts
<1>2. WalletsOK'
  BY <1>1, AmountFacts DEF PayTo, WalletsOK
<1>3. Cash' = [Cash EXCEPT ![t] = @ - n]
  BY <1>1, AmountFacts DEF PayTo, WalletsOK, Cash
<1> QED BY <1>2, <1>3

LEMMA WrapsCash ==
    ASSUME TypeOK, NEW u \in Users, NEW n \in Nat,
           WrapFrom(u, n)
    PROVE  WalletsOK' /\ Cash' = [Cash EXCEPT ![WETH] = @ + n]
<1>1. WalletsOK
  BY TypeParts
<1>2. WalletsOK'
  BY <1>1, AmountFacts DEF WrapFrom, WalletsOK
<1>3. Cash' = [Cash EXCEPT ![WETH] = @ + n]
  BY <1>1, AmountFacts DEF WrapFrom, WalletsOK, Cash
<1> QED BY <1>2, <1>3

LEMMA UnwrapsCash ==
    ASSUME TypeOK, NEW u \in Users, NEW n \in Nat,
           UnwrapTo(u, n)
    PROVE  WalletsOK' /\ Cash' = [Cash EXCEPT ![WETH] = @ - n]
<1>1. WalletsOK
  BY TypeParts
<1>2. WalletsOK'
  BY <1>1, AmountFacts DEF UnwrapTo, WalletsOK
<1>3. Cash' = [Cash EXCEPT ![WETH] = @ - n]
  BY <1>1, AmountFacts DEF UnwrapTo, WalletsOK, Cash
<1> QED BY <1>2, <1>3

\* The four kinds of calls, whatever moves their cash.
LEMMA DepositCall ==
    ASSUME TypeOK, NEW t \in Tokens, NEW u \in Users, NEW n \in L!Amount,
           NEW x \in Handle, x.v <= n, Live, WalletsOK',
           AddReserve(t, n), CreditSupply(t, u, x),
           Cash' = [Cash EXCEPT ![t] = @ + n]
    PROVE  Refines
<1>1. n \in Nat
  BY PoolAssumption DEF L!Amount
<1>2. EncryptedOK' /\ BooksOK' /\ FrameOK'
  BY <1>1, TypeParts, EncryptedTypes, BooksTypes, LiveKeepsFrame
<1>3. TypeOK'
  BY <1>2, TypePartsNext
<1> QED BY <1>3, DepositMovement DEF Refines

LEMMA WithdrawCall ==
    ASSUME TypeOK, NEW t \in Tokens, NEW u \in Users, NEW n \in L!Amount,
           NEW x \in Handle, x.v <= n, Live, WalletsOK',
           ReleaseReserve(t, n), DebitSupply(t, u, x),
           Cash' = [Cash EXCEPT ![t] = @ - n]
    PROVE  Refines
<1>1. n \in Nat
  BY PoolAssumption DEF L!Amount
<1>2. EncryptedOK' /\ BooksOK' /\ FrameOK'
  BY <1>1, TypeParts, EncryptedTypes, BooksTypes, LiveKeepsFrame
<1>3. TypeOK'
  BY <1>2, TypePartsNext
<1> QED BY <1>3, WithdrawMovement DEF Refines

LEMMA LendCall ==
    ASSUME TypeOK, NEW t \in Tokens, NEW u \in Users, NEW n \in L!Amount,
           NEW x \in Handle, x.v <= n, Live, WalletsOK',
           LendReserve(t, n), RecordDebt(t, u, x),
           Cash' = [Cash EXCEPT ![t] = @ - n]
    PROVE  Refines
<1>1. n \in Nat
  BY PoolAssumption DEF L!Amount
<1>2. EncryptedOK' /\ BooksOK' /\ FrameOK'
  BY <1>1, TypeParts, EncryptedTypes, BooksTypes, LiveKeepsFrame
<1>3. TypeOK'
  BY <1>2, TypePartsNext
<1> QED BY <1>3, LendMovement DEF Refines

LEMMA RepayCall ==
    ASSUME TypeOK, NEW t \in Tokens, NEW u \in Users, NEW n \in L!Amount,
           NEW x \in Handle, x.v <= n, Live, WalletsOK',
           RepayReserve(t, n), CancelDebt(t, u, x),
           Cash' = [Cash EXCEPT ![t] = @ + n]
    PROVE  Refines
<1>1. n \in Nat
  BY PoolAssumption DEF L!Amount
<1>2. EncryptedOK' /\ BooksOK' /\ FrameOK'
  BY <1>1, TypeParts, EncryptedTypes, BooksTypes, LiveKeepsFrame
<1>3. TypeOK'
  BY <1>2, TypePartsNext
<1> QED BY <1>3, RepayMovement DEF Refines

\* The calls with a plaintext and an encrypted amount.
LEMMA ShieldRefines ==
    ASSUME TypeOK, NEW u \in Users, NEW t \in Tokens, NEW amount \in Amounts,
           NEW enc \in EncInputs(amount), Shield(u, t, amount, enc)
    PROVE  Refines
<1> DEFINE x == VerifyEquality(enc, amount)
<1>1. /\ Live /\ PullFrom(t, u, amount) /\ AddReserve(t, amount)
      /\ CreditSupply(t, u, x)
  BY DEF Shield
<1>2. /\ amount \in Nat /\ amount \in L!Amount
      /\ x \in Handle /\ x.v <= amount
      /\ u \in Accounts
  BY InputFacts, AmountFacts
<1> HIDE DEF x
<1>3. WalletsOK' /\ Cash' = [Cash EXCEPT ![t] = @ + amount]
  BY <1>1, <1>2, PullsCash
<1> QED BY <1>1, <1>2, <1>3, DepositCall

LEMMA RepayDebtRefines ==
    ASSUME TypeOK, NEW u \in Users, NEW t \in Tokens, NEW amount \in Amounts,
           NEW enc \in EncInputs(amount), RepayDebt(u, t, amount, enc)
    PROVE  Refines
<1> DEFINE x == VerifyEquality(enc, amount)
<1>1. /\ Live /\ PullFrom(t, u, amount) /\ RepayReserve(t, amount)
      /\ CancelDebt(t, u, x)
  BY DEF RepayDebt
<1>2. /\ amount \in Nat /\ amount \in L!Amount
      /\ x \in Handle /\ x.v <= amount
      /\ u \in Accounts
  BY InputFacts, AmountFacts
<1> HIDE DEF x
<1>3. WalletsOK' /\ Cash' = [Cash EXCEPT ![t] = @ + amount]
  BY <1>1, <1>2, PullsCash
<1> QED BY <1>1, <1>2, <1>3, RepayCall

LEMMA PartialUnshieldRefines ==
    ASSUME TypeOK, NEW u \in Users, NEW t \in Tokens, NEW amount \in Amounts,
           NEW enc \in EncInputs(amount), PartialUnshield(u, t, amount, enc)
    PROVE  Refines
<1> DEFINE x == VerifyEquality(enc, amount)
<1>1. /\ Live /\ PayTo(t, u, amount) /\ ReleaseReserve(t, amount)
      /\ DebitSupply(t, u, x)
  BY DEF PartialUnshield, WithdrawCore
<1>2. /\ amount \in Nat /\ amount \in L!Amount
      /\ x \in Handle /\ x.v <= amount
      /\ u \in Accounts
  BY InputFacts, AmountFacts
<1> HIDE DEF x
<1>3. WalletsOK' /\ Cash' = [Cash EXCEPT ![t] = @ - amount]
  BY <1>1, <1>2, PaysCash
<1> QED BY <1>1, <1>2, <1>3, WithdrawCall

LEMMA ShieldEthRefines ==
    ASSUME TypeOK, NEW u \in Users, NEW amount \in Amounts,
           NEW enc \in EncInputs(amount), ShieldEth(u, amount, enc)
    PROVE  Refines
<1> DEFINE x == VerifyEquality(enc, amount)
<1>1. /\ Live /\ WrapFrom(u, amount) /\ AddReserve(WETH, amount)
      /\ CreditSupply(WETH, u, x)
  BY DEF ShieldEth
<1>2. /\ amount \in Nat /\ amount \in L!Amount
      /\ x \in Handle /\ x.v <= amount
      /\ WETH \in Tokens
  BY InputFacts, AmountFacts
<1> HIDE DEF x
<1>3. WalletsOK' /\ Cash' = [Cash EXCEPT ![WETH] = @ + amount]
  BY <1>1, <1>2, WrapsCash
<1> QED BY <1>1, <1>2, <1>3, DepositCall

LEMMA PartialUnshieldEthRefines ==
    ASSUME TypeOK, NEW u \in Users, NEW amount \in Amounts,
           NEW enc \in EncInputs(amount), PartialUnshieldEth(u, amount, enc)
    PROVE  Refines
<1> DEFINE x == VerifyEquality(enc, amount)
<1>1. /\ Live /\ UnwrapTo(u, amount) /\ ReleaseReserve(WETH, amount)
      /\ DebitSupply(WETH, u, x)
  BY DEF PartialUnshieldEth, WithdrawCore
<1>2. /\ amount \in Nat /\ amount \in L!Amount
      /\ x \in Handle /\ x.v <= amount
      /\ WETH \in Tokens
  BY InputFacts, AmountFacts
<1> HIDE DEF x
<1>3. WalletsOK' /\ Cash' = [Cash EXCEPT ![WETH] = @ - amount]
  BY <1>1, <1>2, UnwrapsCash
<1> QED BY <1>1, <1>2, <1>3, WithdrawCall

LEMMA DepositForRefines ==
    ASSUME TypeOK, NEW u \in Users, NEW t \in Tokens, NEW amount \in Amounts,
           NEW enc \in EncInputs(amount), DepositFor(t, amount, enc, u)
    PROVE  Refines
<1> DEFINE x == VerifyEquality(enc, amount)
<1>1. /\ Live /\ PullFrom(t, Composer, amount) /\ AddReserve(t, amount)
      /\ CreditSupply(t, u, x)
  BY DEF DepositFor
<1>2. /\ amount \in Nat /\ amount \in L!Amount
      /\ x \in Handle /\ x.v <= amount
      /\ Composer \in Accounts
  BY InputFacts, AmountFacts
<1> HIDE DEF x
<1>3. WalletsOK' /\ Cash' = [Cash EXCEPT ![t] = @ + amount]
  BY <1>1, <1>2, PullsCash
<1> QED BY <1>1, <1>2, <1>3, DepositCall

LEMMA BorrowForRefines ==
    ASSUME TypeOK, NEW u \in Users, NEW t \in Tokens, NEW amount \in Amounts,
           NEW enc \in EncInputs(amount), BorrowFor(t, amount, enc, u)
    PROVE  Refines
<1> DEFINE x == VerifyEquality(enc, amount)
<1>1. /\ Live /\ PayTo(t, Composer, amount) /\ LendReserve(t, amount)
      /\ RecordDebt(t, u, x)
  BY DEF BorrowFor
<1>2. /\ amount \in Nat /\ amount \in L!Amount
      /\ x \in Handle /\ x.v <= amount
      /\ Composer \in Accounts
  BY InputFacts, AmountFacts
<1> HIDE DEF x
<1>3. WalletsOK' /\ Cash' = [Cash EXCEPT ![t] = @ - amount]
  BY <1>1, <1>2, PaysCash
<1> QED BY <1>1, <1>2, <1>3, LendCall

LEMMA RepayForRefines ==
    ASSUME TypeOK, NEW u \in Users, NEW t \in Tokens, NEW amount \in Amounts,
           NEW enc \in EncInputs(amount), RepayFor(t, amount, enc, u)
    PROVE  Refines
<1> DEFINE x == VerifyEquality(enc, amount)
<1>1. /\ Live /\ PullFrom(t, Composer, amount) /\ RepayReserve(t, amount)
      /\ CancelDebt(t, u, x)
  BY DEF RepayFor
<1>2. /\ amount \in Nat /\ amount \in L!Amount
      /\ x \in Handle /\ x.v <= amount
      /\ Composer \in Accounts
  BY InputFacts, AmountFacts
<1> HIDE DEF x
<1>3. WalletsOK' /\ Cash' = [Cash EXCEPT ![t] = @ + amount]
  BY <1>1, <1>2, PullsCash
<1> QED BY <1>1, <1>2, <1>3, RepayCall

\* A borrow whose recorded debt is what the encrypted comparison lets through.
\* The select returns a new handle, so the call always takes the paying branch.
LEMMA BorrowAgainstRefines ==
    ASSUME TypeOK, NEW u \in Users, NEW c \in Tokens, NEW t \in Tokens,
           NEW amount \in L!Amount, NEW x \in Handle, x.v <= amount,
           NEW num \in Nat, NEW den \in Nat,
           Live, BorrowAgainst(u, c, t, amount, x, num, den)
    PROVE  Refines
<1> DEFINE sum == FheAdd(Debt(t, u), x)
           within == FheMul(sum, AsEuint128(den)).v
                        <= FheMul(Supply(c, u), AsEuint128(num)).v
           actual == Select(within, x, Zero)
<1>1. /\ Live
      /\ StoreDebt(t, u, SafeIncrease(Debt(t, u), actual))
      /\ UNCHANGED supplyBalances
      /\ IF actual # Zero
         THEN LendReserve(t, amount) /\ PayTo(t, u, amount)
         ELSE UNCHANGED <<totalPlainBorrow, liquidReserve, wallets>>
  BY DEF BorrowAgainst
<1>2. amount \in Nat /\ u \in Accounts
  BY AmountFacts, PoolAssumption DEF L!Amount
<1>3. /\ actual \in Handle /\ actual.kind = "ct" /\ actual.v <= amount
      /\ actual.v \in Nat
  <2>1. within \in BOOLEAN
    OBVIOUS
  <2> HIDE DEF within
  <2>2. /\ actual \in Handle /\ actual.kind = "ct"
        /\ actual.v = IF within THEN x.v ELSE Zero.v
    BY <1>2, <2>1, SelectIsHandle, HandleFacts
  <2>3. Zero.v = 0
    BY DEF Zero
  <2> QED BY <1>2, <2>2, <2>3, HandleFacts
<1> HIDE DEF actual
<1>4. actual # Zero
  BY <1>3 DEF Zero
<1>5. LendReserve(t, amount) /\ PayTo(t, u, amount)
  BY <1>1, <1>4
<1>6. WalletsOK' /\ Cash' = [Cash EXCEPT ![t] = @ - amount]
  BY <1>2, <1>5, PaysCash
<1>7. EncryptedOK /\ BooksOK /\ FrameOK
  BY TypeParts
<1> DEFINE y == SafeIncrease(Debt(t, u), actual)
<1>8. /\ y \in Handle /\ y.v \in Debt(t, u).v .. Debt(t, u).v + actual.v
      /\ Debt(t, u).v \in Nat /\ DebtNumber[t][u] = Debt(t, u).v
  <2>1. /\ Debt(t, u) \in Handle
        /\ Debt(t, u).v = borrowBalances[t][u].v
    BY <1>7, PositionsAreHandles
  <2>2. DebtNumber[t][u] = borrowBalances[t][u].v
    BY DEF DebtNumber
  <2> QED BY <1>3, <2>1, <2>2, SafeUpdatesBounded, HandleFacts
<1>9. /\ borrowBalances' = [borrowBalances EXCEPT ![t][u] = y]
      /\ StoreDebt(t, u, y) /\ UNCHANGED supplyBalances
  BY <1>1 DEF StoreDebt
<1> HIDE DEF y
<1>10. TypeOK'
  BY <1>1, <1>2, <1>5, <1>6, <1>7, <1>8, <1>9, StoreTypes, BooksTypes,
     LiveKeepsFrame, TypePartsNext
<1>11. L!Next
  <2> DEFINE k == y.v - DebtNumber[t][u]
  <2>1. k \in 0 .. amount /\ y.v = DebtNumber[t][u] + k
    BY <1>2, <1>3, <1>8
  <2>2. DebtNumber' = [DebtNumber EXCEPT ![t][u] = @ + k]
    BY <1>7, <1>8, <1>9, <2>1, DebtStored
  <2> HIDE DEF k
  <2>3. L!Lend(t, u, amount, k)
    BY <1>5, <1>6, <1>9, <2>1, <2>2, NumbersUnchanged DEF LendReserve, L!Lend
  <2> QED BY <1>2, <2>1, <2>3 DEF L!Next
<1> QED BY <1>10, <1>11 DEF Refines

LEMMA BorrowWithLtvCheckRefines ==
    ASSUME TypeOK, NEW u \in Users, NEW c \in Tokens, NEW t \in Tokens,
           NEW amount \in Amounts, NEW enc \in EncInputs(amount),
           NEW num \in Nat, NEW den \in Nat,
           BorrowWithLtvCheck(u, c, t, amount, enc, num, den)
    PROVE  Refines
BY InputFacts, BorrowAgainstRefines DEF BorrowWithLtvCheck

LEMMA BorrowWithOracleRefines ==
    ASSUME TypeOK, NEW u \in Users, NEW t \in Tokens, NEW amount \in Amounts,
           NEW enc \in EncInputs(amount), NEW given, NEW ltv, NEW pc, NEW pd,
           BorrowWithOracle(u, t, given, amount, enc, ltv, pc, pd)
    PROVE  Refines
<1> DEFINE x == VerifyEquality(enc, amount)
<1>1. /\ Live /\ PayTo(t, u, amount) /\ LendReserve(t, amount)
      /\ RecordDebt(t, u, x)
  BY DEF BorrowWithOracle
<1>2. /\ amount \in Nat /\ amount \in L!Amount
      /\ x \in Handle /\ x.v <= amount
      /\ u \in Accounts
  BY InputFacts, AmountFacts
<1> HIDE DEF x
<1>3. WalletsOK' /\ Cash' = [Cash EXCEPT ![t] = @ - amount]
  BY <1>1, <1>2, PaysCash
<1> QED BY <1>1, <1>2, <1>3, LendCall

\* The exits that spend a proof: the whole number under the handle is paid.
LEMMA ProofFacts ==
    ASSUME TypeOK, NEW u \in Users, NEW t \in Tokens, NEW proof \in Plain,
           VerifyDecryptResult("supply", t, u, Supply(t, u), proof)
    PROVE  /\ proof \in Nat /\ proof \in L!Amount
           /\ proof = SupplyNumber[t][u]
           /\ Zero \in Handle /\ Zero.v = 0 /\ u \in Accounts
<1>1. Supply(t, u).v = supplyBalances[t][u].v
  BY TypeParts, PositionsAreHandles
<1>2. proof = SupplyNumber[t][u]
  BY <1>1 DEF VerifyDecryptResult, SupplyNumber
<1>3. proof \in Nat /\ proof \in L!Amount
  BY PoolAssumption, ModulusAssumption DEF Plain, L!Amount
<1> QED BY <1>2, <1>3, HandleFacts, AmountFacts DEF Zero

LEMMA UnshieldWithProofRefines ==
    ASSUME TypeOK, NEW u \in Users, NEW t \in Tokens, NEW proof \in Plain,
           UnshieldWithProof(u, t, proof)
    PROVE  Refines
<1>1. /\ Live /\ ReleaseReserve(t, proof) /\ StoreSupply(t, u, Zero)
      /\ UNCHANGED borrowBalances /\ PayTo(t, u, proof)
  BY DEF UnshieldWithProof
<1>2. /\ proof \in Nat /\ proof \in L!Amount /\ proof = SupplyNumber[t][u]
      /\ Zero \in Handle /\ Zero.v = 0 /\ u \in Accounts
  BY ProofFacts DEF UnshieldWithProof
<1>3. WalletsOK' /\ Cash' = [Cash EXCEPT ![t] = @ - proof]
  BY <1>1, <1>2, PaysCash
<1>4. EncryptedOK /\ BooksOK /\ FrameOK
  BY TypeParts
<1>5. TypeOK'
  BY <1>1, <1>2, <1>3, <1>4, StoreTypes, BooksTypes, LiveKeepsFrame,
     TypePartsNext
<1>6. SupplyNumber' = [SupplyNumber EXCEPT ![t][u] = Zero.v]
  BY <1>1, <1>2, <1>4, SupplyStored DEF StoreSupply
<1>7. SupplyNumber' = [SupplyNumber EXCEPT ![t][u] = @ - proof]
  <2>1. SupplyNumber[t][u] - proof = Zero.v
    BY <1>2
  <2> QED BY <1>6, <2>1, Zenon
<1>8. L!Withdraw(t, u, proof, proof)
  BY <1>1, <1>2, <1>3, <1>7, NumbersUnchanged DEF ReleaseReserve, L!Withdraw
<1>9. proof \in 0 .. proof
  BY <1>2
<1> QED BY <1>2, <1>5, <1>8, <1>9 DEF L!Next, Refines

LEMMA WithdrawPausedRefines ==
    ASSUME TypeOK, NEW u \in Users, NEW t \in Tokens, NEW proof \in Plain,
           WithdrawPausedWithProof(u, t, proof)
    PROVE  Refines
<1>1. /\ ReleaseReserve(t, proof) /\ PayTo(t, u, proof) /\ proof # 0
      /\ supplyBalances' = [supplyBalances EXCEPT ![t][u] = Zero]
      /\ borrowBalances' = [borrowBalances EXCEPT ![t][u] = Zero]
      /\ revealed' = revealed \ {<<"supply", t, u>>, <<"borrow", t, u>>}
      /\ UNCHANGED <<lastRevealTime, config, now>>
  BY DEF WithdrawPausedWithProof
<1>2. /\ proof \in Nat /\ proof \in L!Amount /\ proof = SupplyNumber[t][u]
      /\ Zero \in Handle /\ Zero.v = 0 /\ u \in Accounts
  BY ProofFacts DEF WithdrawPausedWithProof
<1>3. WalletsOK' /\ Cash' = [Cash EXCEPT ![t] = @ - proof]
  BY <1>1, <1>2, PaysCash
<1>4. EncryptedOK /\ BooksOK /\ FrameOK
  BY TypeParts
<1>5. EncryptedOK'
  BY <1>1, <1>2, <1>4 DEF EncryptedOK
<1>6. FrameOK'
  BY <1>1, <1>4 DEF FrameOK, config
<1>7. TypeOK'
  BY <1>1, <1>2, <1>3, <1>4, <1>5, <1>6, BooksTypes, TypePartsNext
<1>8. /\ SupplyNumber' = [SupplyNumber EXCEPT ![t][u] = 0]
      /\ DebtNumber' = [DebtNumber EXCEPT ![t][u] = 0]
  <2>1. SupplyNumber' = [SupplyNumber EXCEPT ![t][u] = Zero.v]
    BY <1>1, <1>2, <1>4, SupplyStored
  <2>2. DebtNumber' = [DebtNumber EXCEPT ![t][u] = Zero.v]
    BY <1>1, <1>2, <1>4, DebtStored
  <2> QED BY <1>2, <2>1, <2>2
<1>9. L!EmergencyExit(t, u)
  BY <1>1, <1>2, <1>3, <1>8 DEF ReleaseReserve, L!EmergencyExit
<1> QED BY <1>7, <1>9 DEF L!Next, Refines

-----------------------------------------------------------------------------
(* Liquidation and the flash loan: integer divisions round down.           *)

LEMMA QuotientFacts ==
    ASSUME NEW n \in Nat, NEW m \in Nat, m > 0
    PROVE  n \div m \in Nat /\ (n = 0 => n \div m = 0)
<1>1. n \div m \in Nat
  OBVIOUS
<1>2. n = 0 => n \div m = 0
  OBVIOUS
<1> QED BY <1>1, <1>2

LEMMA QuotientBound ==
    ASSUME NEW n \in Nat, NEW m \in Nat, NEW q \in Nat, m > 0, n <= q * m
    PROVE  n \div m <= q
OBVIOUS

LEMMA ShareFacts ==
    ASSUME NEW n \in Nat, NEW part \in 0 .. BPS_DEN
    PROVE  (n * part) \div BPS_DEN \in 0 .. n
<1>1. BPS_DEN \in Nat /\ BPS_DEN > 0 /\ part \in Nat /\ part <= BPS_DEN
  BY PoolAssumption
<1>2. n * part \in Nat /\ n * part <= n * BPS_DEN
  BY <1>1
<1> DEFINE m == n * part
<1>3. m \in Nat /\ m <= n * BPS_DEN
  BY <1>2
<1> HIDE DEF m
<1>4. m \div BPS_DEN \in Nat /\ m \div BPS_DEN <= n
  BY <1>1, <1>3, QuotientFacts, QuotientBound
<1> QED BY <1>4 DEF m

LEMMA CoverFacts ==
    ASSUME NEW owed \in Nat, NEW toCover \in Nat
    PROVE  LiquidationCover(owed, toCover) \in 0 .. owed
<1> DEFINE most == (owed * LIQUIDATION_CLOSE_FACTOR_BPS) \div BPS_DEN
<1>1. most \in 0 .. owed
  BY ShareFacts, PoolAssumption
<1> HIDE DEF most
<1>2. LiquidationCover(owed, toCover) = IF toCover > most THEN most ELSE toCover
  BY DEF LiquidationCover, most
<1> QED BY <1>1, <1>2

LEMMA SeizedFacts ==
    ASSUME NEW cover \in Nat, NEW pc \in Nat \ {0}, NEW pd \in Nat \ {0},
           NEW owned \in Nat
    PROVE  /\ SeizedCollateral(cover, pc, pd, owned) \in 0 .. owned
           /\ cover = 0 => SeizedCollateral(cover, pc, pd, owned) = 0
<1> DEFINE n == cover * pc * (BPS_DEN + LIQUIDATION_BONUS_BPS)
           m == pd * BPS_DEN
<1>1. n \in Nat /\ m \in Nat /\ m > 0 /\ (cover = 0 => n = 0)
  <2>1. /\ BPS_DEN \in Nat /\ BPS_DEN > 0 /\ pd > 0
        /\ BPS_DEN + LIQUIDATION_BONUS_BPS \in Nat
    BY PoolAssumption
  <2>2. m \in Nat /\ m > 0
    BY <2>1
  <2>3. cover * pc \in Nat /\ (cover = 0 => cover * pc = 0)
    OBVIOUS
  <2>4. n \in Nat /\ (cover = 0 => n = 0)
    BY <2>1, <2>3
  <2> QED BY <2>2, <2>4
<1> HIDE DEF n, m
<1>2. n \div m \in Nat /\ (cover = 0 => n \div m = 0)
  BY <1>1, QuotientFacts
<1>3. SeizedCollateral(cover, pc, pd, owned) =
          IF n \div m > owned THEN owned ELSE n \div m
  BY DEF SeizedCollateral, n, m
<1> QED BY <1>2, <1>3

\* A position that holds n loses exactly n or less of it.
LEMMA ExactDecrease ==
    ASSUME NEW x \in Handle, NEW n \in 0 .. x.v
    PROVE  /\ SafeDecrease(x, AsEuint128(n)) \in Handle
           /\ SafeDecrease(x, AsEuint128(n)).v = x.v - n
<1>1. n \in Nat /\ n \in Plain
  <2>1. x.v \in 0 .. Modulus - 1
    BY HandleFacts DEF Plain
  <2> QED BY <2>1, ModulusAssumption DEF Plain
<1>2. AsEuint128(n) \in Handle /\ AsEuint128(n).v = n
  BY <1>1, AsEuint128IsHandle, ModInside
<1> QED BY <1>1, <1>2, TryDecreaseExact, HandleFacts DEF SafeDecrease

LEMMA LiquidateRefines ==
    ASSUME TypeOK, NEW by \in Users, NEW u \in Users, NEW c \in Tokens,
           NEW d \in Tokens, NEW toCover \in Amounts, NEW ltv,
           NEW pc \in Prices, NEW pd \in Prices,
           LiquidateWithProof(by, u, c, d, toCover, ltv, pc, pd)
    PROVE  Refines
<1> DEFINE owed   == Debt(d, u)
           owned  == Supply(c, u)
           cover  == LiquidationCover(owed.v, toCover)
           seized == SeizedCollateral(cover, pc, pd, owned.v)
           newDebt   == SafeDecrease(owed, AsEuint128(cover))
           newSupply == SafeDecrease(owned, AsEuint128(seized))
<1>1. /\ Live /\ c # d
      /\ totalPlainBorrow[d] >= cover /\ liquidReserve[c] >= seized
      /\ bal[d][by] >= cover /\ bal[c][Pool] >= seized
      /\ totalPlainBorrow' = [totalPlainBorrow EXCEPT ![d] = @ - cover]
      /\ liquidReserve' = [liquidReserve EXCEPT ![d] = @ + cover,
                                                ![c] = @ - seized]
      /\ borrowBalances' = [borrowBalances EXCEPT ![d][u] = newDebt]
      /\ supplyBalances' = [supplyBalances EXCEPT ![c][u] = newSupply]
      /\ revealed' = revealed \ {<<"borrow", d, u>>, <<"supply", c, u>>}
      /\ bal' = [bal EXCEPT ![d][by] = @ - cover,  ![d][Pool] = @ + cover,
                            ![c][Pool] = @ - seized, ![c][by] = @ + seized]
      /\ UNCHANGED eth
  BY DEF LiquidateWithProof
<1>2. EncryptedOK /\ BooksOK /\ WalletsOK /\ FrameOK
  BY TypeParts
<1>3. /\ owed \in Handle /\ owned \in Handle
      /\ owed.v \in Plain /\ owned.v \in Plain
      /\ owed.v \in Nat /\ owned.v \in Nat
      /\ DebtNumber[d][u] = owed.v /\ SupplyNumber[c][u] = owned.v
  BY <1>2, PositionsAreHandles, HandleFacts DEF DebtNumber, SupplyNumber
<1>4. /\ cover \in 0 .. owed.v /\ seized \in 0 .. owned.v
      /\ cover = 0 => seized = 0
  <2>1. /\ toCover \in Nat /\ pc \in Nat \ {0} /\ pd \in Nat \ {0}
    BY PoolAssumption
  <2> HIDE DEF owed, owned, cover, seized
  <2>2. owed.v \in Nat /\ owned.v \in Nat
    BY <1>3
  <2>3. LiquidationCover(owed.v, toCover) \in 0 .. owed.v
    BY <2>1, <2>2, CoverFacts, Zenon
  <2>4. cover \in 0 .. owed.v
    BY <2>3, Zenon DEF cover
  <2>5. cover \in Nat
    BY <2>2, <2>4
  <2>6. /\ SeizedCollateral(cover, pc, pd, owned.v) \in 0 .. owned.v
        /\ cover = 0 => SeizedCollateral(cover, pc, pd, owned.v) = 0
    BY <2>1, <2>2, <2>5, SeizedFacts, Zenon
  <2> QED BY <2>4, <2>6, Zenon DEF seized
<1>5. /\ newDebt \in Handle /\ newDebt.v = owed.v - cover
      /\ newSupply \in Handle /\ newSupply.v = owned.v - seized
  BY <1>3, <1>4, ExactDecrease
<1>6. cover \in Nat /\ seized \in Nat /\ cover \in L!Amount /\ seized \in L!Amount
  BY <1>3, <1>4, PoolAssumption, ModulusAssumption DEF Plain, L!Amount
<1> HIDE DEF owed, owned, cover, seized, newDebt, newSupply
<1>7. EncryptedOK'
  BY <1>1, <1>2, <1>5 DEF EncryptedOK
<1>8. BooksOK'
  <2>1. /\ totalPlainBorrow[d] - cover \in Nat
        /\ liquidReserve[d] + cover \in Nat /\ liquidReserve[c] - seized \in Nat
    BY <1>1, <1>2, <1>6 DEF BooksOK
  <2>2. totalPlainBorrow' \in [Tokens -> Nat]
    BY <1>1, <1>2, <2>1 DEF BooksOK
  <2>3. liquidReserve' \in [Tokens -> Nat]
    BY <1>1, <1>2, <2>1 DEF BooksOK
  <2> QED BY <2>2, <2>3 DEF BooksOK
<1>9. /\ WalletsOK'
      /\ Cash' = [Cash EXCEPT ![d] = @ + cover, ![c] = @ - seized]
  <2>1. /\ by \in Holders /\ Pool \in Holders /\ by # Pool
        /\ bal[d] \in [Holders -> Nat] /\ bal[c] \in [Holders -> Nat]
    BY <1>2, AmountFacts DEF WalletsOK
  <2> DEFINE inD == [bal[d] EXCEPT ![by] = @ - cover, ![Pool] = @ + cover]
             inC == [bal[c] EXCEPT ![Pool] = @ - seized, ![by] = @ + seized]
  <2>2. bal' = [bal EXCEPT ![d] = inD, ![c] = inC]
    BY <1>1, <1>2, <2>1 DEF WalletsOK
  <2>3. /\ inD \in [Holders -> Nat] /\ inC \in [Holders -> Nat]
        /\ inD[Pool] = bal[d][Pool] + cover /\ inC[Pool] = bal[c][Pool] - seized
    <3>1. /\ bal[d][by] - cover \in Nat /\ bal[d][Pool] + cover \in Nat
          /\ bal[c][Pool] - seized \in Nat /\ bal[c][by] + seized \in Nat
      BY <1>1, <1>6, <2>1
    <3> QED BY <2>1, <3>1
  <2> HIDE DEF inD, inC
  <2>4. WalletsOK'
    <3>1. bal' \in [Tokens -> [Holders -> Nat]]
      BY <1>2, <2>2, <2>3 DEF WalletsOK
    <3> QED BY <1>1, <1>2, <3>1 DEF WalletsOK
  <2>5. Cash' = [Cash EXCEPT ![d] = @ + cover, ![c] = @ - seized]
    BY <1>1, <1>2, <2>2, <2>3 DEF WalletsOK, Cash
  <2> QED BY <2>4, <2>5
<1>10. TypeOK'
  BY <1>1, <1>2, <1>7, <1>8, <1>9, LiveKeepsFrame, TypePartsNext
<1>11. /\ DebtNumber' = [DebtNumber EXCEPT ![d][u] = @ - cover]
       /\ SupplyNumber' = [SupplyNumber EXCEPT ![c][u] = @ - seized]
  <2>1. DebtNumber' = [DebtNumber EXCEPT ![d][u] = newDebt.v]
    BY <1>1, <1>2, <1>5, DebtStored
  <2>2. SupplyNumber' = [SupplyNumber EXCEPT ![c][u] = newSupply.v]
    BY <1>1, <1>2, <1>5, SupplyStored
  <2> QED BY <1>3, <1>5, <2>1, <2>2
<1>12. L!Liquidate(u, c, d, cover, seized)
  BY <1>1, <1>3, <1>4, <1>9, <1>11 DEF L!Liquidate
<1> QED BY <1>6, <1>10, <1>12 DEF L!Next, Refines

LEMMA FlashLoanRefines ==
    ASSUME TypeOK, NEW r \in Users, NEW t \in Tokens, NEW amount \in Amounts,
           FlashLoan(r, t, amount)
    PROVE  Refines
<1> DEFINE fee == FlashFee(amount)
<1>1. /\ Live /\ PullFrom(t, r, fee) /\ AddReserve(t, fee)
      /\ UNCHANGED <<supplyBalances, borrowBalances, revealed>>
  BY DEF FlashLoan
<1>2. /\ amount \in Nat /\ fee \in 0 .. amount
  BY AmountFacts, ShareFacts, PoolAssumption DEF FlashFee
<1>3. fee \in Nat /\ fee \in L!Amount /\ r \in Accounts
  BY <1>2, AmountFacts, PoolAssumption DEF L!Amount
<1> HIDE DEF fee
<1>4. WalletsOK' /\ Cash' = [Cash EXCEPT ![t] = @ + fee]
  BY <1>1, <1>3, PullsCash
<1>5. EncryptedOK /\ BooksOK /\ FrameOK
  BY TypeParts
<1>6. EncryptedOK'
  BY <1>1, <1>5 DEF EncryptedOK
<1>7. TypeOK'
  BY <1>1, <1>3, <1>4, <1>5, <1>6, BooksTypes, LiveKeepsFrame, TypePartsNext
<1>8. L!FlashFee(t, fee)
  BY <1>1, <1>4, NumbersUnchanged DEF AddReserve, L!FlashFee
<1> QED BY <1>3, <1>7, <1>8 DEF L!Next, Refines

-----------------------------------------------------------------------------
(* The calls that leave the ledger alone, and transfers outside the pool.  *)

LEMMA QuietRefines ==
    ASSUME TypeOK, UNCHANGED <<ledger, wallets>>,
           revealed' \subseteq {"supply", "borrow"} \X Tokens \X Users, FrameOK'
    PROVE  Refines
<1>1. EncryptedOK' /\ BooksOK' /\ WalletsOK'
  BY DEF TypeOK, EncryptedOK, BooksOK, WalletsOK, ledger, wallets
<1>2. UNCHANGED LedgerView
  <2>1. UNCHANGED Cash
    BY DEF Cash, wallets
  <2>2. UNCHANGED <<supplyBalances, borrowBalances>>
    BY DEF ledger
  <2>3. UNCHANGED SupplyNumber /\ UNCHANGED DebtNumber
    BY <2>2, NumbersUnchanged
  <2> QED BY <2>1, <2>3 DEF LedgerView, ledger
<1> QED BY <1>1, <1>2, TypePartsNext DEF Refines

LEMMA RevealRefines ==
    ASSUME TypeOK, NEW u \in Users, NEW t \in Tokens,
           \/ RequestBalanceReveal(u, t)
           \/ RequestBorrowReveal(u, t)
           \/ RequestUnshield(u, t)
    PROVE  Refines
<1>1. PICK kind \in {"supply", "borrow"}, x \in {Supply(t, u), Debt(t, u)} :
         Publish(kind, t, u, x)
  BY DEF RequestBalanceReveal, RequestBorrowReveal, RequestUnshield
<1>2. lastRevealTime' \in [Users -> [Tokens -> Nat]]
  <2>1. CASE Cooled(t, u)
    BY <2>1 DEF TypeOK, Cooled
  <2>2. CASE UNCHANGED lastRevealTime
    BY <2>2 DEF TypeOK
  <2> QED BY <2>1, <2>2
          DEF RequestBalanceReveal, RequestBorrowReveal, RequestUnshield
<1>3. revealed' \subseteq revealed \cup {<<kind, t, u>>}
  BY <1>1 DEF Publish
<1>4. revealed' \subseteq {"supply", "borrow"} \X Tokens \X Users
  BY <1>3 DEF TypeOK
<1>5. FrameOK' /\ UNCHANGED <<ledger, wallets>>
  BY <1>1, <1>2 DEF Publish, TypeOK, FrameOK, config
<1> QED BY <1>4, <1>5, QuietRefines

LEMMA OwnerRefines ==
    ASSUME TypeOK, Owner
    PROVE  Refines
<1>1. PICK flag \in BOOLEAN : SetPaused(flag) \/ SetOracle(flag)
                               \/ SetWeth(flag) \/ SetComposer(flag)
  BY DEF Owner
<1>2. UNCHANGED <<ledger, reveals, wallets, now>>
  BY <1>1 DEF SetPaused, SetOracle, SetWeth, SetComposer
<1>3. /\ paused' \in BOOLEAN /\ oracle' \in BOOLEAN
      /\ weth' \in BOOLEAN /\ isComposer' \in BOOLEAN
  BY <1>1 DEF SetPaused, SetOracle, SetWeth, SetComposer, TypeOK
<1> QED BY <1>2, <1>3, QuietRefines DEF TypeOK, FrameOK, reveals

LEMMA TransferRefines ==
    ASSUME TypeOK, NEW t \in Tokens, NEW from \in Accounts, NEW to \in Holders,
           NEW amount \in Amounts, Transfer(t, from, to, amount)
    PROVE  Refines
<1>1. amount \in Nat /\ amount \in L!Amount
  BY PoolAssumption DEF L!Amount
<1>2. /\ from # to /\ bal[t][from] >= amount
      /\ bal' = [bal EXCEPT ![t][from] = @ - amount, ![t][to] = @ + amount]
      /\ UNCHANGED <<ledger, reveals, config, eth, now>>
  BY DEF Transfer
<1>3. WalletsOK'
  BY <1>1, <1>2, AmountFacts DEF TypeOK, WalletsOK
<1>4. TypeOK'
  BY <1>2, <1>3 DEF TypeOK, WalletsOK, ledger, reveals, config
<1>5. UNCHANGED <<liquidReserve, totalPlainBorrow, SupplyNumber, DebtNumber>>
  BY <1>2, NumbersUnchanged DEF ledger
<1>6. CASE to = Pool
  <2>1. Cash' = [Cash EXCEPT ![t] = @ + amount]
    BY <1>1, <1>2, <1>6, AmountFacts DEF TypeOK, Cash
  <2>2. L!Donate(t, amount)
    BY <1>5, <2>1 DEF L!Donate
  <2> QED BY <1>1, <1>4, <2>2 DEF L!Next, Refines
<1>7. CASE to # Pool
  <2>1. UNCHANGED Cash
    BY <1>1, <1>2, <1>7, AmountFacts DEF TypeOK, Cash
  <2> QED BY <1>4, <1>5, <2>1 DEF LedgerView, Refines
<1> QED BY <1>6, <1>7

LEMMA EnvironmentRefines ==
    ASSUME TypeOK, Environment
    PROVE  Refines
<1>1. CASE Tick
  <2>1. now' \in Nat
    BY <1>1 DEF Tick, TypeOK
  <2> QED BY <1>1, <2>1, QuietRefines DEF Tick, TypeOK, FrameOK, reveals, config
<1>2. CASE \E t \in Tokens, way \in Transfers, amount \in Amounts :
              Transfer(t, way[1], way[2], amount)
  BY <1>2, TransferRefines, PoolAssumption
<1> QED BY <1>1, <1>2 DEF Environment

-----------------------------------------------------------------------------
(* Every step of the pool.                                                 *)

LEMMA SupplyCallsRefine ==
    ASSUME TypeOK, NEW t \in Tokens, NEW u \in Users, SupplyCalls(t, u)
    PROVE  Refines
<1>1. ASSUME NEW amount \in Amounts, NEW enc \in EncInputs(amount),
             \/ Shield(u, t, amount, enc)
             \/ PartialUnshield(u, t, amount, enc)
             \/ ShieldEth(u, amount, enc)
             \/ PartialUnshieldEth(u, amount, enc)
             \/ DepositFor(t, amount, enc, u)
      PROVE  Refines
  BY <1>1, ShieldRefines, PartialUnshieldRefines, ShieldEthRefines,
     PartialUnshieldEthRefines, DepositForRefines
<1>2. ASSUME NEW proof \in Plain,
             \/ UnshieldWithProof(u, t, proof)
             \/ WithdrawPausedWithProof(u, t, proof)
      PROVE  Refines
  BY <1>2, UnshieldWithProofRefines, WithdrawPausedRefines
<1> QED BY <1>1, <1>2, RevealRefines DEF SupplyCalls

LEMMA BorrowCallsRefine ==
    ASSUME TypeOK, NEW t \in Tokens, NEW u \in Users, BorrowCalls(t, u)
    PROVE  Refines
<1>1. ASSUME NEW amount \in Amounts, NEW enc \in EncInputs(amount),
             \/ RepayDebt(u, t, amount, enc)
             \/ BorrowFor(t, amount, enc, u)
             \/ RepayFor(t, amount, enc, u)
      PROVE  Refines
  BY <1>1, RepayDebtRefines, BorrowForRefines, RepayForRefines
<1>2. ASSUME NEW amount \in Amounts, NEW enc \in EncInputs(amount),
             NEW c \in Tokens, NEW ratio \in LtvRatios,
             BorrowWithLtvCheck(u, c, t, amount, enc, ratio[1], ratio[2])
      PROVE  Refines
  <2>1. ratio[1] \in Nat /\ ratio[2] \in Nat
    BY PoolAssumption
  <2> QED BY <1>2, <2>1, BorrowWithLtvCheckRefines
<1>3. ASSUME NEW amount \in Amounts, NEW enc \in EncInputs(amount),
             NEW given \in Amounts, NEW ltv \in LtvBps,
             NEW pc \in Prices, NEW pd \in Prices,
             BorrowWithOracle(u, t, given, amount, enc, ltv, pc, pd)
      PROVE  Refines
  BY <1>3, BorrowWithOracleRefines
<1>4. ASSUME NEW by \in Users, NEW c \in Tokens, NEW toCover \in Amounts,
             NEW ltv \in LtvBps, NEW pc \in Prices, NEW pd \in Prices,
             LiquidateWithProof(by, u, c, t, toCover, ltv, pc, pd)
      PROVE  Refines
  BY <1>4, LiquidateRefines
<1> QED BY <1>1, <1>2, <1>3, <1>4, RevealRefines DEF BorrowCalls

LEMMA PoolInit == Init => TypeOK /\ L!Init
<1>1. SUFFICES ASSUME Init PROVE TypeOK /\ L!Init
  OBVIOUS
<1>2. EncryptedOK /\ BooksOK /\ FrameOK
  BY <1>1, HandleFacts, PoolAssumption DEF Init, EncryptedOK, BooksOK, FrameOK
<1>3. WalletsOK
  BY <1>1, PoolAssumption DEF Init, WalletsOK, Holders
<1>4. TypeOK
  BY <1>2, <1>3, TypeParts
<1>5. L!Init
  <2>1. Cash = [t \in Tokens |-> 0]
    BY <1>1, AmountFacts DEF Init, Cash
  <2>2. SupplyNumber = [t \in Tokens |-> [u \in Users |-> 0]]
    BY <1>1 DEF Init, SupplyNumber, NoHandle
  <2>3. DebtNumber = [t \in Tokens |-> [u \in Users |-> 0]]
    BY <1>1 DEF Init, DebtNumber, NoHandle
  <2> QED BY <1>1, <2>1, <2>2, <2>3 DEF Init, L!Init
<1> QED BY <1>4, <1>5

LEMMA PoolStep == TypeOK /\ [Next]_vars => Refines
<1>1. SUFFICES ASSUME TypeOK, [Next]_vars PROVE Refines
  OBVIOUS
<1>2. CASE \E p \in Suppliers : SupplyCalls(p[1], p[2])
  BY <1>1, <1>2, SupplyCallsRefine, PoolAssumption
<1>3. CASE \E p \in Borrowers : BorrowCalls(p[1], p[2])
  BY <1>1, <1>3, BorrowCallsRefine, PoolAssumption
<1>4. CASE \E t \in Tokens, r \in Users, amount \in Amounts :
              FlashLoan(r, t, amount)
  BY <1>1, <1>4, FlashLoanRefines
<1>5. CASE Owner
  BY <1>1, <1>5, OwnerRefines
<1>6. CASE Environment
  BY <1>1, <1>6, EnvironmentRefines
<1>7. CASE UNCHANGED vars
  BY <1>1, <1>7, QuietRefines
     DEF vars, TypeOK, FrameOK, reveals, config
<1> QED BY <1>1, <1>2, <1>3, <1>4, <1>5, <1>6, <1>7 DEF Next

-----------------------------------------------------------------------------
(* The theorems.                                                           *)

LEMMA RefinesIsAStep == Refines => TypeOK' /\ [L!Next]_(L!vars)
BY DEF Refines, LedgerView, L!vars

\* No call, with any input and in any order, leaves the types: in particular no
\* subtraction on totalPlainBorrow, liquidReserve or a balance goes below zero.
THEOREM PoolTypeCorrect == Spec => []TypeOK
<1>1. TypeOK /\ [Next]_vars => TypeOK'
  BY PoolStep, RefinesIsAStep
<1> QED BY PoolInit, <1>1, PTL DEF Spec

\* The two instances of LendingLedger write the same mapping.
LEMMA SameLedger ==
    /\ L!Init => Ledger!Init
    /\ L!Next => Ledger!Next
    /\ L!vars = Ledger!vars
<1> USE DEF Cash, SupplyNumber, DebtNumber
<1>1. L!Init => Ledger!Init
  BY DEF L!Init, Ledger!Init
<1>2. L!vars = Ledger!vars
  BY DEF L!vars, Ledger!vars
<1>3. L!Next => Ledger!Next
  BY DEF L!Next, Ledger!Next, L!Amount, Ledger!Amount,
         L!Donate, Ledger!Donate, L!FlashFee, Ledger!FlashFee,
         L!Deposit, Ledger!Deposit, L!Withdraw, Ledger!Withdraw,
         L!Lend, Ledger!Lend, L!Repay, Ledger!Repay,
         L!Liquidate, Ledger!Liquidate, L!EmergencyExit, Ledger!EmergencyExit
<1> QED BY <1>1, <1>2, <1>3

\* The pool implements the ledger: every call is one of its movements or none,
\* whatever the caller encrypts, prices and factors being arbitrary.
THEOREM PoolImplementsLedger == Spec => ImplementsLedger
<1>1. TypeOK /\ [Next]_vars => [Ledger!Next]_(Ledger!vars)
  <2>1. SUFFICES ASSUME TypeOK, [Next]_vars
                 PROVE  Ledger!Next \/ UNCHANGED Ledger!vars
    OBVIOUS
  <2>2. L!Next \/ UNCHANGED L!vars
    BY <2>1, PoolStep, RefinesIsAStep
  <2>3. CASE L!Next
    BY <2>3, SameLedger
  <2>4. CASE UNCHANGED L!vars
    BY <2>4 DEF L!vars, Ledger!vars, Cash, SupplyNumber, DebtNumber
  <2> QED BY <2>2, <2>3, <2>4
<1>2. Init => Ledger!Init
  BY PoolInit, SameLedger
<1> QED BY <1>1, <1>2, PoolTypeCorrect, PTL DEF Spec, ImplementsLedger, Ledger!Spec

\* The tokens counted in liquidReserve are in the contract's hands: the ledger's
\* invariant, carried along the refinement.
THEOREM PoolReservesBacked == Spec => []PoolSolvent
<1>1. L!LedgerAssumption
  BY PoolAssumption DEF L!LedgerAssumption
<1>2. L!Init => L!LedgerInv
  BY <1>1, L!LedgerInit
<1>3. L!LedgerInv /\ [L!Next]_(L!vars) => L!LedgerInv'
  BY <1>1, L!LedgerStep
<1>4. TypeOK /\ L!LedgerInv /\ [Next]_vars => L!LedgerInv'
  BY <1>3, PoolStep, RefinesIsAStep
<1>5. L!LedgerInv => PoolSolvent
  BY DEF L!LedgerInv, L!ReserveBacked, PoolSolvent, Cash
<1> QED BY PoolInit, PoolTypeCorrect, <1>2, <1>4, <1>5, PTL DEF Spec

-----------------------------------------------------------------------------
(* The paused pool.                                                        *)

\* What an exit does to the caller's position and to the wallets.
LEMMA ExitPays ==
    ASSUME TypeOK, NEW t \in Tokens, NEW u \in Users, NEW proof \in Plain,
           WithdrawPausedWithProof(u, t, proof)
    PROVE  /\ supplyBalances[t][u].v > 0
           /\ supplyBalances' = [supplyBalances EXCEPT ![t][u] = Zero]
           /\ liquidReserve' =
                [liquidReserve EXCEPT ![t] = @ - supplyBalances[t][u].v]
           /\ bal'[t][u] = bal[t][u] + supplyBalances[t][u].v
           /\ totalPlainBorrow' = totalPlainBorrow
<1>1. proof \in Nat /\ proof = supplyBalances[t][u].v /\ u \in Accounts
  BY ProofFacts DEF WithdrawPausedWithProof, SupplyNumber
<1>2. /\ proof # 0 /\ ReleaseReserve(t, proof) /\ PayTo(t, u, proof)
      /\ supplyBalances' = [supplyBalances EXCEPT ![t][u] = Zero]
  BY DEF WithdrawPausedWithProof
<1>3. bal'[t][u] = bal[t][u] + proof
  BY <1>1, <1>2, AmountFacts DEF TypeOK, PayTo
<1> QED BY <1>1, <1>2, <1>3 DEF ReleaseReserve

\* Every other call that touches the books is behind whenNotPaused.
LEMMA PausedStep ==
    ASSUME Next, paused, ledger' # ledger
    PROVE  \E t \in Tokens, u \in Users, proof \in Plain :
              WithdrawPausedWithProof(u, t, proof)
<1>1. ASSUME NEW t \in Tokens, NEW u \in Users, SupplyCalls(t, u)
      PROVE  \E proof \in Plain : WithdrawPausedWithProof(u, t, proof)
  BY <1>1 DEF SupplyCalls, Shield, PartialUnshield, ShieldEth,
     PartialUnshieldEth, DepositFor, UnshieldWithProof, Live,
     RequestBalanceReveal, RequestUnshield, Publish
<1>2. ASSUME NEW t \in Tokens, NEW u \in Users, BorrowCalls(t, u)
      PROVE  FALSE
  BY <1>2 DEF BorrowCalls, RepayDebt, BorrowFor, RepayFor, BorrowWithLtvCheck,
     BorrowWithOracle, LiquidateWithProof, Live, RequestBorrowReveal, Publish
<1>3. \A t \in Tokens, r \in Users, amount \in Amounts : ~FlashLoan(r, t, amount)
  BY DEF FlashLoan, Live
<1>4. ~Owner
  BY DEF Owner, SetPaused, SetOracle, SetWeth, SetComposer
<1>5. ~Environment
  BY DEF Environment, Tick, Transfer
<1> QED BY <1>1, <1>2, <1>3, <1>4, <1>5, PoolAssumption DEF Next

\* While the pool is paused only an emergency exit touches the books, and it pays
\* its caller exactly the supply it erases.
THEOREM PausedPoolPaysExits == Spec => PausedPoolOnlyPaysExits
<1>1. TypeOK /\ [Next]_vars =>
        [paused /\ ledger' # ledger =>
            \E t \in Tokens, u \in Users :
                LET paid == supplyBalances[t][u].v
                IN  /\ paid > 0
                    /\ supplyBalances' = [supplyBalances EXCEPT ![t][u] = Zero]
                    /\ liquidReserve' = [liquidReserve EXCEPT ![t] = @ - paid]
                    /\ bal'[t][u] = bal[t][u] + paid
                    /\ totalPlainBorrow' = totalPlainBorrow]_vars
  BY PausedStep, ExitPays DEF vars
<1> QED BY PoolInit, PoolTypeCorrect, <1>1, PTL DEF Spec, PausedPoolOnlyPaysExits

-----------------------------------------------------------------------------
(* Seizures.                                                               *)

\* A position that keeps its supply, or whose owner is paid.
NotSeized(t, u) ==
    \/ supplyBalances'[t][u].v >= supplyBalances[t][u].v
    \/ bal'[t][u] > bal[t][u]
    \/ eth'[u] > eth[u]

PublicDebtor(t, u) ==
    /\ <<"supply", t, u>> \in revealed
    /\ \E d \in Tokens \ {t} : <<"borrow", d, u>> \in revealed

\* The call of a user that changes that user's supply pays the user.
LEMMA PayeeNotSeized ==
    ASSUME TypeOK, NEW t0 \in Tokens, NEW u0 \in Users, NEW y, NEW n \in Nat \ {0},
           supplyBalances' = [supplyBalances EXCEPT ![t0][u0] = y],
           PayTo(t0, u0, n) \/ UnwrapTo(u0, n),
           NEW t \in Tokens, NEW u \in Users
    PROVE  NotSeized(t, u)
<1>1. /\ u0 \in Holders /\ Pool \in Holders /\ u0 # Pool
      /\ supplyBalances[t][u].v \in Nat
      /\ bal[t0][u0] \in Nat /\ eth[u0] \in Nat
  BY AmountFacts, HandleFacts DEF TypeOK
<1>2. CASE t = t0 /\ u = u0
  <2>1. CASE PayTo(t0, u0, n)
    <3>1. bal'[t0][u0] = bal[t0][u0] + n
      BY <1>1, <2>1 DEF PayTo, TypeOK
    <3> QED BY <1>1, <1>2, <3>1 DEF NotSeized
  <2>2. CASE UnwrapTo(u0, n)
    <3>1. eth'[u0] = eth[u0] + n
      BY <2>2 DEF UnwrapTo, TypeOK
    <3> QED BY <1>1, <1>2, <3>1 DEF NotSeized
  <2> QED BY <2>1, <2>2
<1>3. CASE ~(t = t0 /\ u = u0)
  <2>1. supplyBalances'[t][u] = supplyBalances[t][u]
    BY <1>3 DEF TypeOK
  <2> QED BY <1>1, <2>1 DEF NotSeized
<1> QED BY <1>2, <1>3

LEMMA CreditNotSeized ==
    ASSUME TypeOK, NEW t0 \in Tokens, NEW u0 \in Users, NEW x \in Handle,
           \/ UNCHANGED supplyBalances
           \/ supplyBalances' = [supplyBalances EXCEPT ![t0][u0] = SafeIncrease(@, x)],
           NEW t \in Tokens, NEW u \in Users
    PROVE  NotSeized(t, u)
<1>1. supplyBalances[t][u].v \in Nat /\ supplyBalances[t0][u0] \in Handle
  BY HandleFacts DEF TypeOK
<1>2. SafeIncrease(supplyBalances[t0][u0], x).v >= supplyBalances[t0][u0].v
  BY <1>1, SafeUpdatesBounded, HandleFacts
<1>3. \/ supplyBalances'[t][u] = supplyBalances[t][u]
      \/ /\ t = t0 /\ u = u0
         /\ supplyBalances'[t][u] = SafeIncrease(supplyBalances[t0][u0], x)
  BY DEF TypeOK
<1> QED BY <1>1, <1>2, <1>3 DEF NotSeized

LEMMA InputIsPositive ==
    ASSUME NEW amount \in Amounts
    PROVE  amount \in Nat \ {0}
BY PoolAssumption

LEMMA SupplyCallsSeizeNothing ==
    ASSUME TypeOK, NEW t0 \in Tokens, NEW u0 \in Users, SupplyCalls(t0, u0),
           NEW t \in Tokens, NEW u \in Users
    PROVE  NotSeized(t, u)
<1>1. ASSUME NEW amount \in Amounts, NEW enc \in EncInputs(amount),
             Shield(u0, t0, amount, enc) \/ DepositFor(t0, amount, enc, u0)
      PROVE  NotSeized(t, u)
  BY <1>1, InputFacts, CreditNotSeized
     DEF Shield, DepositFor, CreditSupply, StoreSupply
<1>2. ASSUME NEW amount \in Amounts, NEW enc \in EncInputs(amount),
             ShieldEth(u0, amount, enc)
      PROVE  NotSeized(t, u)
  BY <1>2, InputFacts, CreditNotSeized, AmountFacts
     DEF ShieldEth, CreditSupply, StoreSupply
<1>3. ASSUME NEW amount \in Amounts, NEW enc \in EncInputs(amount),
             PartialUnshield(u0, t0, amount, enc)
      PROVE  NotSeized(t, u)
  BY <1>3, InputIsPositive, PayeeNotSeized
     DEF PartialUnshield, WithdrawCore, DebitSupply, StoreSupply
<1>4. ASSUME NEW amount \in Amounts, NEW enc \in EncInputs(amount),
             PartialUnshieldEth(u0, amount, enc)
      PROVE  NotSeized(t, u)
  BY <1>4, InputIsPositive, PayeeNotSeized, AmountFacts
     DEF PartialUnshieldEth, WithdrawCore, DebitSupply, StoreSupply
<1>5. ASSUME RequestBalanceReveal(u0, t0) \/ RequestUnshield(u0, t0)
      PROVE  NotSeized(t, u)
  BY <1>5, CreditNotSeized, HandleFacts
     DEF RequestBalanceReveal, RequestUnshield, Publish, ledger
<1>6. ASSUME NEW proof \in Plain,
             \/ UnshieldWithProof(u0, t0, proof)
             \/ WithdrawPausedWithProof(u0, t0, proof)
      PROVE  NotSeized(t, u)
  <2>1. proof \in Nat \ {0}
    BY <1>6, AmountFacts DEF UnshieldWithProof, WithdrawPausedWithProof
  <2> QED BY <1>6, <2>1, PayeeNotSeized
          DEF UnshieldWithProof, WithdrawPausedWithProof, StoreSupply
<1> QED BY <1>1, <1>2, <1>3, <1>4, <1>5, <1>6 DEF SupplyCalls

\* A liquidation verifies both handles, and takes nothing for a debt of 0.
LEMMA LiquidationNeedsReveal ==
    ASSUME TypeOK, NEW by \in Users, NEW u0 \in Users, NEW c \in Tokens,
           NEW d \in Tokens, NEW toCover \in Amounts, NEW ltv,
           NEW pc \in Prices, NEW pd \in Prices,
           LiquidateWithProof(by, u0, c, d, toCover, ltv, pc, pd),
           NEW t \in Tokens, NEW u \in Users
    PROVE  NotSeized(t, u) \/ PublicDebtor(t, u)
<1> DEFINE owed   == Debt(d, u0)
           owned  == Supply(c, u0)
           cover  == LiquidationCover(owed.v, toCover)
           seized == SeizedCollateral(cover, pc, pd, owned.v)
<1>1. /\ c # d
      /\ VerifyDecryptResult("borrow", d, u0, owed, owed.v)
      /\ VerifyDecryptResult("supply", c, u0, owned, owned.v)
      /\ supplyBalances' = [supplyBalances EXCEPT
                               ![c][u0] = SafeDecrease(owned, AsEuint128(seized))]
  BY DEF LiquidateWithProof
<1>2. /\ owed \in Handle /\ owned \in Handle
      /\ owned.v = supplyBalances[c][u0].v
      /\ owed.v \in Nat /\ owned.v \in Nat
      /\ supplyBalances[t][u].v \in Nat
  BY TypeParts, PositionsAreHandles, HandleFacts
<1>3. /\ cover \in 0 .. owed.v /\ seized \in 0 .. owned.v
      /\ cover = 0 => seized = 0
  <2>1. toCover \in Nat /\ pc \in Nat \ {0} /\ pd \in Nat \ {0}
    BY PoolAssumption
  <2> HIDE DEF owed, owned
  <2>2. cover \in 0 .. owed.v
    BY <1>2, <2>1, CoverFacts
  <2> HIDE DEF cover
  <2>3. cover \in Nat
    BY <1>2, <2>2
  <2> QED BY <1>2, <2>1, <2>2, <2>3, SeizedFacts
<1>4. SafeDecrease(owned, AsEuint128(seized)).v = owned.v - seized
  BY <1>2, <1>3, ExactDecrease
<1>5. CASE seized = 0 \/ ~(t = c /\ u = u0)
  <2> HIDE DEF owed, owned, cover, seized
  <2>1. supplyBalances'[t][u].v = supplyBalances[t][u].v
    BY <1>1, <1>2, <1>4, <1>5 DEF TypeOK
  <2> QED BY <1>2, <2>1 DEF NotSeized
<1>6. CASE seized # 0 /\ t = c /\ u = u0
  <2>1. owed.v # 0 /\ owned.v # 0
    BY <1>2, <1>3, <1>6
  <2>2. \A x \in Handle : x.v # 0 => x.kind # "zero"
    BY DEF Handle
  <2>3. /\ <<"borrow", d, u0>> \in revealed /\ <<"supply", c, u0>> \in revealed
    BY <1>1, <1>2, <2>1, <2>2 DEF VerifyDecryptResult
  <2> QED BY <1>1, <1>6, <2>3 DEF PublicDebtor
<1> QED BY <1>5, <1>6

LEMMA BorrowCallsNeedReveal ==
    ASSUME TypeOK, NEW t0 \in Tokens, NEW u0 \in Users, BorrowCalls(t0, u0),
           NEW t \in Tokens, NEW u \in Users
    PROVE  NotSeized(t, u) \/ PublicDebtor(t, u)
<1>1. \/ UNCHANGED supplyBalances
      \/ \E by \in Users, c \in Tokens, toCover \in Amounts,
            ltv \in LtvBps, pc, pd \in Prices :
            LiquidateWithProof(by, u0, c, t0, toCover, ltv, pc, pd)
  BY DEF BorrowCalls, RepayDebt, BorrowFor, RepayFor, BorrowWithLtvCheck,
     BorrowAgainst, BorrowWithOracle, RequestBorrowReveal, Publish, ledger,
     CancelDebt, RecordDebt
<1>2. CASE UNCHANGED supplyBalances
  BY <1>2, CreditNotSeized, HandleFacts
<1>3. CASE ~UNCHANGED supplyBalances
  BY <1>1, <1>3, LiquidationNeedsReveal
<1> QED BY <1>2, <1>3

LEMMA SeizureStep ==
    ASSUME TypeOK, [Next]_vars, NEW t \in Tokens, NEW u \in Users
    PROVE  NotSeized(t, u) \/ PublicDebtor(t, u)
<1>1. CASE \E p \in Suppliers : SupplyCalls(p[1], p[2])
  BY <1>1, SupplyCallsSeizeNothing, PoolAssumption
<1>2. CASE \E p \in Borrowers : BorrowCalls(p[1], p[2])
  BY <1>2, BorrowCallsNeedReveal, PoolAssumption
<1>3. CASE UNCHANGED supplyBalances
  BY <1>3, CreditNotSeized, HandleFacts
<1>4. ASSUME (\E x \in Tokens, r \in Users, amount \in Amounts :
                  FlashLoan(r, x, amount))
             \/ Owner \/ Environment \/ UNCHANGED vars
      PROVE  UNCHANGED supplyBalances
  BY <1>4 DEF FlashLoan, Owner, SetPaused, SetOracle, SetWeth, SetComposer,
     Environment, Tick, Transfer, ledger, vars
<1> QED BY <1>1, <1>2, <1>3, <1>4 DEF Next

LEMMA SeizureFromStep ==
    ASSUME TypeOK, TypeOK', NEW t \in Tokens, NEW u \in Users,
           NotSeized(t, u) \/ PublicDebtor(t, u),
           supplyBalances'[t][u].v < supplyBalances[t][u].v,
           bal'[t][u] <= bal[t][u], eth'[u] <= eth[u]
    PROVE  PublicDebtor(t, u)
<1>1. /\ supplyBalances[t][u].v \in Nat /\ supplyBalances'[t][u].v \in Nat
      /\ bal[t][u] \in Nat /\ bal'[t][u] \in Nat
      /\ eth[u] \in Nat /\ eth'[u] \in Nat
  BY AmountFacts, HandleFacts DEF TypeOK
<1> QED BY <1>1 DEF NotSeized

\* A supply that shrinks while nothing reaches its owner was made public by the
\* owner, and so was a debt of the same owner in another token.
THEOREM PoolSeizureNeedsReveal == Spec => SeizureNeedsReveal
<1>1. TypeOK /\ TypeOK' /\ [Next]_vars =>
        [\A t \in Tokens, u \in Users :
            /\ supplyBalances'[t][u].v < supplyBalances[t][u].v
            /\ bal'[t][u] <= bal[t][u] /\ eth'[u] <= eth[u]
            => /\ <<"supply", t, u>> \in revealed
               /\ \E d \in Tokens \ {t} : <<"borrow", d, u>> \in revealed]_vars
  BY SeizureStep, SeizureFromStep DEF PublicDebtor
<1> QED BY PoolInit, PoolTypeCorrect, <1>1, PTL DEF Spec, SeizureNeedsReveal

-----------------------------------------------------------------------------
(* Commit ids and the two maps they index.                                 *)

LEMMA WithFacts ==
    ASSUME NEW f, NEW i, NEW x
    PROVE  /\ DOMAIN With(f, i, x) = DOMAIN f \cup {i}
           /\ With(f, i, x)[i] = x
           /\ \A j \in DOMAIN f \ {i} : With(f, i, x)[j] = f[j]
BY DEF With

\* A property of all entries is kept by an update and by a removal.
LEMMA WithKeeps ==
    ASSUME NEW f, NEW i, NEW x, NEW S, x \in S,
           \A j \in DOMAIN f : f[j] \in S
    PROVE  \A j \in DOMAIN f \cup {i} : With(f, i, x)[j] \in S
BY DEF With

LEMMA WithoutFacts ==
    ASSUME NEW f, NEW i
    PROVE  /\ DOMAIN Without(f, i) = DOMAIN f \ {i}
           /\ \A j \in DOMAIN f \ {i} : Without(f, i)[j] = f[j]
BY DEF Without

CommitsOK ==
    /\ DOMAIN commits \subseteq CommitIds
    /\ \A id \in DOMAIN commits :
          commits[id] \in [amount : Plain, timestamp : Nat]
    /\ DOMAIN borrowParams \subseteq CommitIds
    /\ \A id \in DOMAIN borrowParams : borrowParams[id] \in LoanTerms
    /\ nonces \in [Users -> Nat]

LEMMA CRTypeParts ==
    /\ CRTypeOK <=> TypeOK /\ CommitsOK
    /\ CRTypeOK' <=> TypeOK' /\ CommitsOK'
BY DEF CRTypeOK, CommitsOK

\* Ids are handed out in order: a live commit, and loan terms, carry an id the
\* nonce has passed.
IdsAreIssued ==
    \A id \in DOMAIN commits \cup DOMAIN borrowParams : id[2] < nonces[id[1]]

CRInv == CRTypeOK /\ IdsAreIssued

-----------------------------------------------------------------------------
(* First steps.                                                            *)

\* A commit takes an id nobody had and leaves the pool alone.
LEMMA CommitFacts ==
    ASSUME CRInv, NEW u \in Users, NEW amount \in Plain, Commit(u, amount)
    PROVE  LET id == <<u, nonces[u]>>
           IN  /\ id \in CommitIds
               /\ id \notin DOMAIN commits /\ id \notin DOMAIN borrowParams
               /\ DOMAIN commits' = DOMAIN commits \cup {id}
               /\ \A j \in DOMAIN commits' :
                     commits'[j] \in [amount : Plain, timestamp : Nat]
               /\ nonces' = [nonces EXCEPT ![u] = @ + 1]
<1> DEFINE id == <<u, nonces[u]>>
           x  == [amount |-> amount, timestamp |-> now]
<1>1. nonces[u] \in Nat /\ now \in Nat
  BY DEF CRInv, CRTypeOK, TypeOK
<1>2. id \in CommitIds /\ id[1] = u /\ id[2] = nonces[u]
  BY <1>1 DEF CommitIds
<1>3. ~(id[2] < nonces[id[1]])
  BY <1>1, <1>2
<1>4. id \notin DOMAIN commits /\ id \notin DOMAIN borrowParams
  BY <1>3 DEF CRInv, IdsAreIssued
<1>5. commits' = With(commits, id, x) /\ nonces' = [nonces EXCEPT ![u] = @ + 1]
  BY DEF Commit
<1>6. x \in [amount : Plain, timestamp : Nat]
  BY <1>1
<1> HIDE DEF id, x
<1>7. DOMAIN commits' = DOMAIN commits \cup {id}
  BY <1>5, WithFacts
<1>8. \A j \in DOMAIN commits' :
         commits'[j] \in [amount : Plain, timestamp : Nat]
  <2> DEFINE S == [amount : Plain, timestamp : Nat]
  <2>1. \A j \in DOMAIN commits : commits[j] \in S
    BY DEF CRInv, CRTypeOK
  <2>2. x \in S
    BY <1>6
  <2> HIDE DEF S
  <2>3. \A j \in DOMAIN commits \cup {id} : With(commits, id, x)[j] \in S
    BY <2>1, <2>2, WithKeeps
  <2> QED BY <1>5, <1>7, <2>3 DEF S
<1> QED BY <1>2, <1>4, <1>5, <1>7, <1>8 DEF id

LEMMA NoncesGrow ==
    ASSUME CRInv, NEW u \in Users, nonces' = [nonces EXCEPT ![u] = @ + 1]
    PROVE  /\ nonces' \in [Users -> Nat]
           /\ \A id \in CommitIds :
                 id[2] < nonces[id[1]] \/ id = <<u, nonces[u]>>
                    => id[2] < nonces'[id[1]]
BY DEF CRInv, CRTypeOK, CommitIds

LEMMA IssuedAfterCommit ==
    ASSUME CRInv, NEW u \in Users, NEW amount \in Plain, Commit(u, amount)
    PROVE  \A id \in DOMAIN commits \cup DOMAIN borrowParams \cup {<<u, nonces[u]>>} :
               id[2] < nonces'[id[1]]
<1>1. DOMAIN commits \subseteq CommitIds /\ DOMAIN borrowParams \subseteq CommitIds
  BY DEF CRInv, CRTypeOK
<1>2. \A id \in DOMAIN commits \cup DOMAIN borrowParams : id[2] < nonces[id[1]]
  BY DEF CRInv, IdsAreIssued
<1>3. <<u, nonces[u]>> \in CommitIds /\ nonces' = [nonces EXCEPT ![u] = @ + 1]
  BY CommitFacts
<1>4. \A id \in CommitIds :
         id[2] < nonces[id[1]] \/ id = <<u, nonces[u]>> => id[2] < nonces'[id[1]]
  BY <1>3, NoncesGrow
<1> QED BY <1>1, <1>2, <1>3, <1>4

LEMMA CommitKeepsInv ==
    ASSUME CRInv, NEW u \in Users, NEW amount \in Plain, Commit(u, amount),
           UNCHANGED vars, UNCHANGED borrowParams
    PROVE  CRInv'
<1>1. TypeOK'
  BY DEF CRInv, CRTypeOK, TypeOK, vars, ledger, reveals, config, wallets
<1>2. CommitsOK'
  BY CommitFacts, NoncesGrow DEF CRInv, CRTypeOK, CommitsOK
<1>3. IdsAreIssued'
  BY CommitFacts, IssuedAfterCommit DEF IdsAreIssued
<1> QED BY <1>1, <1>2, <1>3, CRTypeParts DEF CRInv

LEMMA CommitBorrowKeepsInv ==
    ASSUME CRInv, NEW u \in Users, NEW c \in Tokens, NEW t \in Tokens,
           NEW amount \in Plain, NEW num \in Nat, NEW den \in Nat,
           CommitBorrow(u, c, t, amount, num, den)
    PROVE  CRInv'
<1> DEFINE id == <<u, nonces[u]>>
           terms == [collateralToken |-> c, borrowToken |-> t,
                     ltvNum |-> num, ltvDen |-> den]
<1>1. /\ Commit(u, amount) /\ UNCHANGED vars
      /\ borrowParams' = With(borrowParams, id, terms)
  BY DEF CommitBorrow
<1>2. terms \in LoanTerms
  BY DEF LoanTerms
<1>3. id \in CommitIds
  BY <1>1, CommitFacts
<1>4. /\ DOMAIN borrowParams' = DOMAIN borrowParams \cup {id}
      /\ \A j \in DOMAIN borrowParams' : borrowParams'[j] \in LoanTerms
  <2>1. \A j \in DOMAIN borrowParams : borrowParams[j] \in LoanTerms
    BY DEF CRInv, CRTypeOK
  <2> HIDE DEF id, terms
  <2>2. DOMAIN borrowParams' = DOMAIN borrowParams \cup {id}
    BY <1>1, WithFacts
  <2>3. \A j \in DOMAIN borrowParams \cup {id} :
           With(borrowParams, id, terms)[j] \in LoanTerms
    BY <1>2, <2>1, WithKeeps
  <2> QED BY <1>1, <2>2, <2>3
<1>5. TypeOK'
  BY <1>1 DEF CRInv, CRTypeOK, TypeOK, vars, ledger, reveals, config, wallets
<1>6. CommitsOK'
  BY <1>1, <1>3, <1>4, CommitFacts, NoncesGrow DEF CRInv, CRTypeOK, CommitsOK
<1>7. IdsAreIssued'
  BY <1>1, <1>4, CommitFacts, IssuedAfterCommit DEF IdsAreIssued
<1> QED BY <1>5, <1>6, <1>7, CRTypeParts DEF CRInv

-----------------------------------------------------------------------------
(* Second steps.                                                           *)

LEMMA RevealFacts ==
    ASSUME CRInv, NEW id, Reveal(id)
    PROVE  /\ id \in DOMAIN commits
           /\ commits[id].amount \in Plain \ {0}
           /\ commits[id].amount \in L!Amount /\ commits[id].amount \in Nat \ {0}
           /\ Ct(commits[id].amount) \in Handle
           /\ Ct(commits[id].amount).v = commits[id].amount
           /\ now <= commits[id].timestamp + COMMIT_DEADLINE
           /\ DOMAIN commits' = DOMAIN commits \ {id}
           /\ \A j \in DOMAIN commits' : commits'[j] = commits[j]
           /\ UNCHANGED nonces
<1>1. /\ id \in DOMAIN commits
      /\ now <= commits[id].timestamp + COMMIT_DEADLINE
      /\ commits[id].amount # 0
      /\ commits' = Without(commits, id)
      /\ UNCHANGED nonces
  BY DEF Reveal
<1>2. commits[id].amount \in Plain
  BY <1>1 DEF CRInv, CRTypeOK
<1>3. commits[id].amount \in L!Amount /\ commits[id].amount \in Nat
  BY <1>2, PoolAssumption, ModulusAssumption DEF Plain, L!Amount
<1>4. /\ DOMAIN commits' = DOMAIN commits \ {id}
      /\ \A j \in DOMAIN commits' : commits'[j] = commits[j]
  BY <1>1, WithoutFacts
<1> QED BY <1>1, <1>2, <1>3, <1>4, HandleFacts

\* An execution gives no id back, whether or not it clears loan terms.
LEMMA RevealKeepsInv ==
    ASSUME CRInv, NEW id, Reveal(id), TypeOK',
           \/ UNCHANGED borrowParams
           \/ borrowParams' = Without(borrowParams, id)
    PROVE  CRInv'
<1>1. /\ DOMAIN commits' \subseteq DOMAIN commits /\ UNCHANGED nonces
      /\ \A j \in DOMAIN commits' : commits'[j] = commits[j]
  BY RevealFacts
<1>2. /\ DOMAIN borrowParams' \subseteq DOMAIN borrowParams
      /\ \A j \in DOMAIN borrowParams' : borrowParams'[j] = borrowParams[j]
  <2>1. CASE borrowParams' = Without(borrowParams, id)
    BY <2>1, WithoutFacts
  <2> QED BY <2>1
<1>3. CommitsOK'
  BY <1>1, <1>2 DEF CRInv, CRTypeOK, CommitsOK
<1>4. IdsAreIssued'
  BY <1>1, <1>2 DEF CRInv, IdsAreIssued
<1> QED BY <1>3, <1>4, CRTypeParts DEF CRInv

\* The reserve and the cash of one token move by n, together; no other token
\* moves.
Moved(t, n) ==
    /\ \/ liquidReserve'[t] = liquidReserve[t] + n
       \/ liquidReserve'[t] = liquidReserve[t] - n
    /\ bal'[t][Pool] - bal[t][Pool] = liquidReserve'[t] - liquidReserve[t]
    /\ \A o \in Tokens \ {t} : bal'[o] = bal[o]

LEMMA MovedIn ==
    ASSUME TypeOK, NEW t \in Tokens, NEW u \in Users, NEW n \in Nat,
           PullFrom(t, u, n) \/ (t = WETH /\ WrapFrom(u, n)),
           AddReserve(t, n) \/ RepayReserve(t, n)
    PROVE  WalletsOK' /\ Cash' = [Cash EXCEPT ![t] = @ + n] /\ Moved(t, n)
<1>1. u \in Accounts /\ u # Pool /\ u \in Holders /\ Pool \in Holders
  BY AmountFacts
<1>2. WalletsOK' /\ Cash' = [Cash EXCEPT ![t] = @ + n]
  BY <1>1, PullsCash, WrapsCash
<1>3. liquidReserve'[t] = liquidReserve[t] + n /\ liquidReserve[t] \in Nat
  BY DEF AddReserve, RepayReserve, TypeOK
<1>4. bal'[t][Pool] = bal[t][Pool] + n /\ bal[t][Pool] \in Nat
  BY <1>1 DEF PullFrom, WrapFrom, TypeOK
<1>5. \A o \in Tokens \ {t} : bal'[o] = bal[o]
  BY DEF PullFrom, WrapFrom, TypeOK
<1> QED BY <1>2, <1>3, <1>4, <1>5 DEF Moved

LEMMA MovedOut ==
    ASSUME TypeOK, NEW t \in Tokens, NEW u \in Users, NEW n \in Nat,
           PayTo(t, u, n) \/ (t = WETH /\ UnwrapTo(u, n)),
           ReleaseReserve(t, n) \/ LendReserve(t, n)
    PROVE  WalletsOK' /\ Cash' = [Cash EXCEPT ![t] = @ - n] /\ Moved(t, n)
<1>1. u \in Accounts /\ u # Pool /\ u \in Holders /\ Pool \in Holders
  BY AmountFacts
<1>2. WalletsOK' /\ Cash' = [Cash EXCEPT ![t] = @ - n]
  BY <1>1, PaysCash, UnwrapsCash
<1>3. liquidReserve'[t] = liquidReserve[t] - n /\ liquidReserve[t] \in Nat
  BY DEF ReleaseReserve, LendReserve, TypeOK
<1>4. bal'[t][Pool] = bal[t][Pool] - n /\ bal[t][Pool] \in Nat
  BY <1>1 DEF PayTo, UnwrapTo, TypeOK
<1>5. \A o \in Tokens \ {t} : bal'[o] = bal[o]
  BY DEF PayTo, UnwrapTo, TypeOK
<1> QED BY <1>2, <1>3, <1>4, <1>5 DEF Moved

\* A committed deposit is a deposit of the ledger, also when its public handle
\* becomes the position.
LEMMA CommittedDepositCall ==
    ASSUME TypeOK, NEW t \in Tokens, NEW u \in Users, NEW n \in L!Amount,
           NEW x \in Handle, x.v <= n, Live, WalletsOK',
           AddReserve(t, n), CreditCommitted(t, u, x),
           Cash' = [Cash EXCEPT ![t] = @ + n]
    PROVE  Refines
<1> DEFINE s == supplyBalances[t][u]
           y == SafeIncrease(s, x)
<1>1. EncryptedOK /\ BooksOK /\ FrameOK /\ n \in Nat
  BY TypeParts, PoolAssumption DEF L!Amount
<1>2. /\ s \in Handle /\ s.v \in Nat /\ x.v \in Nat
      /\ SupplyNumber[t][u] = s.v
  BY <1>1, PositionsAreHandles, HandleFacts DEF SupplyNumber
<1>3. y \in Handle /\ y.v \in s.v .. s.v + x.v
  BY <1>2, SafeUpdatesBounded
<1>4. /\ supplyBalances' = [supplyBalances EXCEPT ![t][u] = y]
      /\ revealed' \subseteq revealed \cup {<<"supply", t, u>>}
      /\ UNCHANGED borrowBalances
  BY DEF CreditCommitted
<1> HIDE DEF y
<1>5. EncryptedOK'
  BY <1>1, <1>3, <1>4 DEF EncryptedOK
<1>6. TypeOK'
  BY <1>1, <1>5, BooksTypes, LiveKeepsFrame, TypePartsNext
<1> DEFINE k == y.v - s.v
<1>7. k \in 0 .. n /\ k <= n /\ y.v = s.v + k
  BY <1>1, <1>2, <1>3
<1>8. SupplyNumber' = [SupplyNumber EXCEPT ![t][u] = @ + k]
  BY <1>1, <1>2, <1>3, <1>4, <1>7, SupplyStored
<1> HIDE DEF k
<1>9. L!Deposit(t, u, n, k)
  BY <1>4, <1>7, <1>8, NumbersUnchanged DEF AddReserve, L!Deposit
<1> QED BY <1>6, <1>7, <1>9 DEF L!Next, Refines

\* What one execution does: it keeps the invariant, is a movement of the ledger,
\* spends its commit, and moves one token by the committed number.
Executed(id) ==
    /\ CRInv' /\ Refines /\ Live /\ Reveal(id)
    /\ \A t \in Tokens, u \in Users : NotSeized(t, u)
    /\ \E t \in Tokens : Moved(t, commits[id].amount)

LEMMA ExecuteShieldMoves ==
    ASSUME CRInv, NEW u \in Users, NEW t \in Tokens, NEW id,
           ExecuteShield(u, t, id) \/ (t = WETH /\ ExecuteShieldEth(u, id))
    PROVE  Executed(id)
<1> DEFINE n == commits[id].amount
           x == Ct(n)
<1>1. /\ Live /\ Reveal(id) /\ AddReserve(t, n) /\ CreditCommitted(t, u, x)
      /\ PullFrom(t, u, n) \/ (t = WETH /\ WrapFrom(u, n))
      /\ UNCHANGED borrowParams
  BY DEF ExecuteShield, ExecuteShieldEth
<1>2. n \in Nat /\ n \in L!Amount /\ x \in Handle /\ x.v <= n
  <2>1. n \in Nat /\ n \in L!Amount /\ x \in Handle /\ x.v = n
    BY <1>1, RevealFacts
  <2> QED BY <2>1
<1>3. TypeOK
  BY DEF CRInv, CRTypeOK
<1> HIDE DEF n, x
<1>4. WalletsOK' /\ Cash' = [Cash EXCEPT ![t] = @ + n] /\ Moved(t, n)
  BY <1>1, <1>2, <1>3, MovedIn
<1>5. Refines
  BY <1>1, <1>2, <1>3, <1>4, CommittedDepositCall
<1>6. \A o \in Tokens, w \in Users : NotSeized(o, w)
  BY <1>1, <1>2, <1>3, CreditNotSeized DEF CreditCommitted
<1> QED BY <1>1, <1>4, <1>5, <1>6, RevealKeepsInv DEF Executed, Refines, n

LEMMA ExecuteRepayMoves ==
    ASSUME CRInv, NEW u \in Users, NEW t \in Tokens, NEW id,
           ExecuteRepay(u, t, id)
    PROVE  Executed(id)
<1> DEFINE n == commits[id].amount
           x == Ct(n)
<1>1. /\ Live /\ Reveal(id) /\ RepayReserve(t, n) /\ CancelDebt(t, u, x)
      /\ UNCHANGED borrowParams
      /\ PullFrom(t, u, n) \/ (t = WETH /\ WrapFrom(u, n))
      /\ AddReserve(t, n) \/ RepayReserve(t, n)
  BY DEF ExecuteRepay
<1>2. n \in Nat /\ n \in L!Amount /\ x \in Handle /\ x.v <= n
  <2>1. n \in Nat /\ n \in L!Amount /\ x \in Handle /\ x.v = n
    BY <1>1, RevealFacts
  <2> QED BY <2>1
<1>3. TypeOK
  BY DEF CRInv, CRTypeOK
<1> HIDE DEF n, x
<1>4. WalletsOK' /\ Cash' = [Cash EXCEPT ![t] = @ + n] /\ Moved(t, n)
  BY <1>1, <1>2, <1>3, MovedIn
<1>5. Refines
  BY <1>1, <1>2, <1>3, <1>4, RepayCall
<1>6. \A o \in Tokens, w \in Users : NotSeized(o, w)
  BY <1>1, <1>2, <1>3, CreditNotSeized DEF CancelDebt
<1> QED BY <1>1, <1>4, <1>5, <1>6, RevealKeepsInv DEF Executed, Refines, n

LEMMA ExecuteWithdrawMoves ==
    ASSUME CRInv, NEW u \in Users, NEW t \in Tokens, NEW id,
           ExecuteWithdraw(u, t, id) \/ (t = WETH /\ ExecuteWithdrawEth(u, id))
    PROVE  Executed(id)
<1> DEFINE n == commits[id].amount
           x == Ct(n)
<1>1. /\ Live /\ Reveal(id) /\ ReleaseReserve(t, n) /\ DebitSupply(t, u, x)
      /\ PayTo(t, u, n) \/ (t = WETH /\ UnwrapTo(u, n))
      /\ UNCHANGED borrowParams
  BY DEF ExecuteWithdraw, ExecuteWithdrawEth
<1>2. n \in Nat /\ n \in L!Amount /\ x \in Handle /\ x.v <= n
  <2>1. n \in Nat /\ n \in L!Amount /\ x \in Handle /\ x.v = n
    BY <1>1, RevealFacts
  <2> QED BY <2>1
<1>3. TypeOK
  BY DEF CRInv, CRTypeOK
<1> HIDE DEF n, x
<1>4. WalletsOK' /\ Cash' = [Cash EXCEPT ![t] = @ - n] /\ Moved(t, n)
  BY <1>1, <1>2, <1>3, MovedOut
<1>5. Refines
  BY <1>1, <1>2, <1>3, <1>4, WithdrawCall
<1>6. \A o \in Tokens, w \in Users : NotSeized(o, w)
  <2>1. n \in Nat \ {0}
    BY <1>1, RevealFacts DEF n
  <2> QED BY <1>1, <1>3, <2>1, PayeeNotSeized DEF DebitSupply, StoreSupply
<1> QED BY <1>1, <1>4, <1>5, <1>6, RevealKeepsInv DEF Executed, Refines, n

\* The handle a borrow records is the result of a select, never the handle of an
\* empty position, so an execution that does not revert pays.
LEMMA BorrowPays ==
    ASSUME NEW u, NEW c, NEW t, NEW n, NEW x, NEW num, NEW den,
           BorrowAgainst(u, c, t, n, x, num, den)
    PROVE  LendReserve(t, n) /\ PayTo(t, u, n)
<1>1. \A cond, y, z : Select(cond, y, z) # Zero
  BY DEF Select, Ct, Zero
<1> QED BY <1>1 DEF BorrowAgainst

LEMMA ExecuteBorrowMoves ==
    ASSUME CRInv, NEW u \in Users, NEW id, ExecuteBorrow(u, id)
    PROVE  Executed(id)
<1> DEFINE n == commits[id].amount
           x == Ct(n)
           p == borrowParams[id]
           t == p.borrowToken
<1>1. /\ Live /\ Reveal(id) /\ id \in DOMAIN borrowParams
      /\ borrowParams' = Without(borrowParams, id)
      /\ BorrowAgainst(u, p.collateralToken, t, n, x, p.ltvNum, p.ltvDen)
  BY DEF ExecuteBorrow
<1>2. n \in Nat /\ n \in L!Amount /\ x \in Handle /\ x.v <= n
  <2>1. n \in Nat /\ n \in L!Amount /\ x \in Handle /\ x.v = n
    BY <1>1, RevealFacts
  <2> QED BY <2>1
<1>3. /\ p.collateralToken \in Tokens /\ t \in Tokens
      /\ p.ltvNum \in Nat /\ p.ltvDen \in Nat
  <2>1. p \in LoanTerms
    BY <1>1 DEF CRInv, CRTypeOK
  <2> HIDE DEF p
  <2> QED BY <2>1 DEF LoanTerms
<1>4. TypeOK
  BY DEF CRInv, CRTypeOK
<1> HIDE DEF n, x, t, p
<1>5. LendReserve(t, n) /\ PayTo(t, u, n)
  BY <1>1, BorrowPays
<1>6. Moved(t, n)
  BY <1>2, <1>3, <1>4, <1>5, MovedOut
<1>7. Refines
  BY <1>1, <1>2, <1>3, <1>4, BorrowAgainstRefines
<1>8. \A o \in Tokens, w \in Users : NotSeized(o, w)
  BY <1>1, <1>2, <1>3, <1>4, CreditNotSeized DEF BorrowAgainst
<1> QED BY <1>1, <1>3, <1>6, <1>7, <1>8, RevealKeepsInv DEF Executed, Refines, n

-----------------------------------------------------------------------------
(* Every step of the contract.                                             *)

\* The first steps, by the id they add.
Committed(u) ==
    /\ CRInv' /\ UNCHANGED vars
    /\ DOMAIN commits' = DOMAIN commits \cup {<<u, nonces[u]>>}
    /\ <<u, nonces[u]>> \notin DOMAIN commits \cup DOMAIN borrowParams
    /\ nonces' = [nonces EXCEPT ![u] = @ + 1]

LEMMA CommitStep ==
    /\ CRInv /\ (\E u \in Users, amount \in Plain :
                    CommitAmount(u, amount) \/ CommitEth(u, amount))
          => \E u \in Users : Committed(u)
    /\ CRInv /\ (\E p \in CommitBorrowers, c \in Tokens, amount \in Plain,
                    r \in LtvRatios :
                    CommitBorrow(p[2], c, p[1], amount, r[1], r[2]))
          => \E u \in Users : Committed(u)
<1>1. ASSUME CRInv, NEW u \in Users, NEW amount \in Plain,
             CommitAmount(u, amount) \/ CommitEth(u, amount)
      PROVE  Committed(u)
  <2>1. Commit(u, amount) /\ UNCHANGED vars /\ UNCHANGED borrowParams
    BY <1>1 DEF CommitAmount, CommitEth
  <2>2. CRInv'
    BY <1>1, <2>1, CommitKeepsInv
  <2> QED BY <1>1, <2>1, <2>2, CommitFacts DEF Committed
<1>2. ASSUME CRInv, NEW u \in Users, NEW t \in Tokens, NEW c \in Tokens,
             NEW amount \in Plain, NEW num \in Nat, NEW den \in Nat,
             CommitBorrow(u, c, t, amount, num, den)
      PROVE  Committed(u)
  <2>1. Commit(u, amount) /\ UNCHANGED vars
    BY <1>2 DEF CommitBorrow
  <2>2. CRInv'
    BY <1>2, CommitBorrowKeepsInv
  <2> QED BY <1>2, <2>1, <2>2, CommitFacts DEF Committed
<1>3. /\ \A p \in CommitBorrowers : p[1] \in Tokens /\ p[2] \in Users
      /\ \A r \in LtvRatios : r[1] \in Nat /\ r[2] \in Nat
  BY CommitAssumption, PoolAssumption
<1> QED BY <1>1, <1>2, <1>3

LEMMA TwoStepFacts ==
    ASSUME CRInv, TwoStepNext
    PROVE  \/ \E u \in Users : Committed(u)
           \/ \E id \in DOMAIN commits : Executed(id)
<1>1. ASSUME NEW id \in DOMAIN commits, NEW p \in CommitSuppliers,
             \/ ExecuteShield(p[2], p[1], id)
             \/ ExecuteWithdraw(p[2], p[1], id)
             \/ p[1] = WETH /\ ExecuteShieldEth(p[2], id)
             \/ p[1] = WETH /\ ExecuteWithdrawEth(p[2], id)
      PROVE  Executed(id)
  <2>1. p[1] \in Tokens /\ p[2] \in Users
    BY CommitAssumption
  <2> QED BY <1>1, <2>1, ExecuteShieldMoves, ExecuteWithdrawMoves
<1>2. ASSUME NEW id \in DOMAIN commits, NEW p \in CommitBorrowers,
             ExecuteRepay(p[2], p[1], id)
      PROVE  Executed(id)
  <2>1. p[1] \in Tokens /\ p[2] \in Users
    BY CommitAssumption
  <2> QED BY <1>2, <2>1, ExecuteRepayMoves
<1>3. ASSUME NEW id \in DOMAIN commits, NEW u \in Users, ExecuteBorrow(u, id)
      PROVE  Executed(id)
  BY <1>3, ExecuteBorrowMoves
<1> QED BY <1>1, <1>2, <1>3, CommitStep DEF TwoStepNext

LEMMA CRInit0 == CRInit => CRInv /\ L!Init
<1>1. SUFFICES ASSUME CRInit PROVE CRInv /\ L!Init
  OBVIOUS
<1>2. TypeOK /\ L!Init
  BY <1>1, PoolInit DEF CRInit
<1>3. DOMAIN commits = {} /\ DOMAIN borrowParams = {}
  BY <1>1 DEF CRInit
<1>4. CommitsOK /\ IdsAreIssued
  BY <1>1, <1>3 DEF CRInit, CommitsOK, IdsAreIssued
<1> QED BY <1>2, <1>4, CRTypeParts DEF CRInv

\* What any step does to the books and to the commits.
LEMMA CRStep ==
    ASSUME CRInv, [CRNext]_allVars
    PROVE  /\ CRInv' /\ Refines
           /\ \/ UNCHANGED commitVars
              \/ \E u \in Users : Committed(u)
              \/ \E id \in DOMAIN commits : Executed(id)
<1>1. CASE [Next]_vars /\ UNCHANGED commitVars
  <2>1. Refines
    BY <1>1, PoolStep DEF CRInv, CRTypeOK
  <2>2. CommitsOK' /\ IdsAreIssued'
    BY <1>1 DEF CRInv, CRTypeOK, CommitsOK, IdsAreIssued, commitVars
  <2> QED BY <1>1, <2>1, <2>2, CRTypeParts DEF CRInv, Refines
<1>2. CASE \E u \in Users : Committed(u)
  <2>1. TypeOK /\ UNCHANGED vars
    BY <1>2 DEF Committed, CRInv, CRTypeOK
  <2>2. Refines
    BY <2>1, PoolStep
  <2> QED BY <1>2, <2>2 DEF Committed
<1>3. CASE \E id \in DOMAIN commits : Executed(id)
  BY <1>3 DEF Executed
<1> QED BY <1>1, <1>2, <1>3, TwoStepFacts DEF CRNext, allVars

-----------------------------------------------------------------------------
(* The theorems.                                                           *)

\* Every reachable state of the whole contract is well typed, and every id in
\* use has been issued.
THEOREM CommitRevealTypeCorrect == CRSpec => []CRInv
<1>1. CRInv /\ [CRNext]_allVars => CRInv'
  BY CRStep
<1> QED BY CRInit0, <1>1, PTL DEF CRSpec

\* The whole contract implements the ledger: also the two-step calls are its
\* movements, and a commit is none.
THEOREM CommitRevealImplementsLedger == CRSpec => ImplementsLedger
<1>1. CRInv /\ [CRNext]_allVars => [Ledger!Next]_(Ledger!vars)
  <2>1. SUFFICES ASSUME CRInv, [CRNext]_allVars
                 PROVE  Ledger!Next \/ UNCHANGED Ledger!vars
    OBVIOUS
  <2>2. L!Next \/ UNCHANGED L!vars
    BY <2>1, CRStep, RefinesIsAStep
  <2>3. CASE L!Next
    BY <2>3, SameLedger
  <2>4. CASE UNCHANGED L!vars
    BY <2>4 DEF L!vars, Ledger!vars, Cash, SupplyNumber, DebtNumber
  <2> QED BY <2>2, <2>3, <2>4
<1>2. CRInit => Ledger!Init
  BY CRInit0, SameLedger
<1> QED BY <1>1, <1>2, CommitRevealTypeCorrect, PTL
        DEF CRSpec, ImplementsLedger, Ledger!Spec

\* The tokens counted in liquidReserve stay in the contract's hands.
THEOREM CommitRevealReservesBacked == CRSpec => []PoolSolvent
<1>1. L!LedgerAssumption
  BY PoolAssumption DEF L!LedgerAssumption
<1>2. L!Init => L!LedgerInv
  BY <1>1, L!LedgerInit
<1>3. L!LedgerInv /\ [L!Next]_(L!vars) => L!LedgerInv'
  BY <1>1, L!LedgerStep
<1>4. CRInv /\ L!LedgerInv /\ [CRNext]_allVars => L!LedgerInv'
  BY <1>3, CRStep, RefinesIsAStep
<1>5. L!LedgerInv => PoolSolvent
  BY DEF L!LedgerInv, L!ReserveBacked, PoolSolvent, Cash
<1> QED BY CRInit0, CommitRevealTypeCorrect, <1>2, <1>4, <1>5, PTL DEF CRSpec

\* A new commit never finds loan terms under its id.
THEOREM TermsStayStale == CRSpec => StaleTermsNeverReturn
<1>1. CRInv /\ [CRNext]_allVars =>
        [\A id \in DOMAIN commits' \ DOMAIN commits :
            id \notin DOMAIN borrowParams]_allVars
  <2>1. SUFFICES ASSUME CRInv, [CRNext]_allVars,
                        NEW id \in DOMAIN commits' \ DOMAIN commits
                 PROVE  id \notin DOMAIN borrowParams
    OBVIOUS
  <2>2. PICK u \in Users : Committed(u)
    BY <2>1, CRStep, RevealFacts DEF commitVars, Executed
  <2> QED BY <2>1, <2>2 DEF Committed
<1> QED BY CRInit0, CommitRevealTypeCorrect, <1>1, PTL
        DEF CRSpec, StaleTermsNeverReturn

\* A commit that is spent moves its number in one token, within its deadline.
THEOREM CommitmentsMoveOnce == CRSpec => SpendingMovesTheCommitment
<1>1. CRInv /\ [CRNext]_allVars =>
        [\A id \in DOMAIN commits :
            id \notin DOMAIN commits' =>
               /\ now <= commits[id].timestamp + COMMIT_DEADLINE
               /\ \E t \in Tokens :
                     /\ \/ liquidReserve'[t] = liquidReserve[t] + commits[id].amount
                        \/ liquidReserve'[t] = liquidReserve[t] - commits[id].amount
                     /\ bal'[t][Pool] - bal[t][Pool]
                            = liquidReserve'[t] - liquidReserve[t]
                     /\ \A o \in Tokens \ {t} : bal'[o] = bal[o]]_allVars
  <2>1. SUFFICES ASSUME CRInv, [CRNext]_allVars,
                        NEW id \in DOMAIN commits, id \notin DOMAIN commits'
                 PROVE  /\ now <= commits[id].timestamp + COMMIT_DEADLINE
                        /\ \E t \in Tokens : Moved(t, commits[id].amount)
    BY DEF Moved
  <2>2. PICK j \in DOMAIN commits : Executed(j)
    BY <2>1, CRStep DEF commitVars, Committed
  <2>3. id = j
    BY <2>1, <2>2, RevealFacts DEF Executed
  <2> QED BY <2>1, <2>2, <2>3, RevealFacts DEF Executed
<1> QED BY CRInit0, CommitRevealTypeCorrect, <1>1, PTL
        DEF CRSpec, SpendingMovesTheCommitment

\* The two-step calls stop with the others while the pool is paused.
THEOREM CommitRevealPausedPaysExits == CRSpec => PausedPoolOnlyPaysExits
<1>1. CRInv /\ [CRNext]_allVars =>
        [paused /\ ledger' # ledger =>
            \E t \in Tokens, u \in Users :
                LET paid == supplyBalances[t][u].v
                IN  /\ paid > 0
                    /\ supplyBalances' = [supplyBalances EXCEPT ![t][u] = Zero]
                    /\ liquidReserve' = [liquidReserve EXCEPT ![t] = @ - paid]
                    /\ bal'[t][u] = bal[t][u] + paid
                    /\ totalPlainBorrow' = totalPlainBorrow]_vars
  <2>1. SUFFICES ASSUME CRInv, [CRNext]_allVars, paused, ledger' # ledger
                 PROVE  \E t \in Tokens, u \in Users, proof \in Plain :
                            WithdrawPausedWithProof(u, t, proof)
    BY ExitPays DEF CRInv, CRTypeOK
  <2>2. Next
    <3>1. \A u \in Users : ~Committed(u)
      BY <2>1 DEF Committed, vars
    <3>2. \A id \in DOMAIN commits : ~Executed(id)
      BY <2>1 DEF Executed, Live
    <3> QED BY <2>1, <3>1, <3>2, TwoStepFacts DEF CRNext, allVars, vars
  <2> QED BY <2>1, <2>2, PausedStep
<1> QED BY CRInit0, CommitRevealTypeCorrect, <1>1, PTL
        DEF CRSpec, PausedPoolOnlyPaysExits

\* Neither do the two-step calls take a supply whose owner did not publish it.
THEOREM CommitRevealSeizureNeedsReveal == CRSpec => SeizureNeedsReveal
<1>1. CRInv /\ CRInv' /\ [CRNext]_allVars =>
        [\A t \in Tokens, u \in Users :
            /\ supplyBalances'[t][u].v < supplyBalances[t][u].v
            /\ bal'[t][u] <= bal[t][u] /\ eth'[u] <= eth[u]
            => /\ <<"supply", t, u>> \in revealed
               /\ \E d \in Tokens \ {t} : <<"borrow", d, u>> \in revealed]_vars
  <2>1. SUFFICES ASSUME CRInv, CRInv', [CRNext]_allVars,
                        NEW t \in Tokens, NEW u \in Users
                 PROVE  NotSeized(t, u) \/ PublicDebtor(t, u)
    BY SeizureFromStep DEF CRInv, CRTypeOK, PublicDebtor
  <2>2. CASE [Next]_vars
    BY <2>1, <2>2, SeizureStep DEF CRInv, CRTypeOK
  <2>3. CASE \E w \in Users : Committed(w)
    BY <2>1, <2>3, SeizureStep DEF CRInv, CRTypeOK, Committed
  <2>4. CASE \E id \in DOMAIN commits : Executed(id)
    BY <2>4 DEF Executed
  <2> QED BY <2>1, <2>2, <2>3, <2>4, TwoStepFacts DEF CRNext, allVars
<1> QED BY CRInit0, CommitRevealTypeCorrect, <1>1, PTL
        DEF CRSpec, SeizureNeedsReveal

-----------------------------------------------------------------------------
(* Every commit pays once: counting commits and movements.                 *)

CountInv ==
    /\ CRInv
    /\ IsFiniteSet(DOMAIN commits) /\ IsFiniteSet(Issued)
    /\ movements \in Nat
    /\ EveryCommitPaysOnce

LEMMA CommitCounts ==
    ASSUME CountInv, NEW u \in Users, Committed(u), UNCHANGED movements
    PROVE  CountInv'
<1> DEFINE id == <<u, nonces[u]>>
<1>1. nonces \in [Users -> Nat] /\ nonces' \in [Users -> Nat]
  BY NoncesGrow DEF CountInv, CRInv, CRTypeOK, Committed
<1>2. Issued' = Issued \cup {id} /\ id \notin Issued
  BY <1>1 DEF Committed, Issued
<1>3. DOMAIN commits' = DOMAIN commits \cup {id} /\ id \notin DOMAIN commits
  BY DEF Committed
<1>4. /\ IsFiniteSet(DOMAIN commits) /\ IsFiniteSet(Issued)
      /\ movements + Cardinality(DOMAIN commits) = Cardinality(Issued)
      /\ movements \in Nat
  BY DEF CountInv, EveryCommitPaysOnce
<1> HIDE DEF id
<1>5. /\ IsFiniteSet(DOMAIN commits')
      /\ Cardinality(DOMAIN commits') = Cardinality(DOMAIN commits) + 1
  BY <1>3, <1>4, FS_AddElement
<1>6. IsFiniteSet(Issued') /\ Cardinality(Issued') = Cardinality(Issued) + 1
  BY <1>2, <1>4, FS_AddElement
<1>7. Cardinality(DOMAIN commits) \in Nat /\ Cardinality(Issued) \in Nat
  BY <1>4, FS_CardinalityType
<1> QED BY <1>4, <1>5, <1>6, <1>7 DEF CountInv, EveryCommitPaysOnce, Committed

LEMMA ExecutionCounts ==
    ASSUME CountInv, NEW id \in DOMAIN commits, Executed(id),
           movements' = IF liquidReserve' = liquidReserve THEN movements
                                                          ELSE movements + 1
    PROVE  CountInv'
<1>1. /\ DOMAIN commits' = DOMAIN commits \ {id} /\ UNCHANGED nonces
      /\ commits[id].amount \in Nat \ {0}
  BY RevealFacts DEF CountInv, Executed
<1>2. movements' = movements + 1
  <2>1. PICK t \in Tokens : Moved(t, commits[id].amount)
    BY DEF Executed
  <2>2. liquidReserve[t] \in Nat
    BY DEF CountInv, CRInv, CRTypeOK, TypeOK
  <2>3. liquidReserve'[t] # liquidReserve[t]
    BY <1>1, <2>1, <2>2 DEF Moved
  <2> QED BY <2>3
<1>3. /\ IsFiniteSet(DOMAIN commits) /\ IsFiniteSet(Issued)
      /\ movements + Cardinality(DOMAIN commits) = Cardinality(Issued)
      /\ movements \in Nat
  BY DEF CountInv, EveryCommitPaysOnce
<1>4. /\ IsFiniteSet(DOMAIN commits')
      /\ Cardinality(DOMAIN commits') = Cardinality(DOMAIN commits) - 1
  BY <1>1, <1>3, FS_RemoveElement
<1>5. Issued' = Issued
  BY <1>1 DEF Issued
<1>6. Cardinality(DOMAIN commits) \in Nat /\ Cardinality(Issued) \in Nat
  BY <1>3, FS_CardinalityType
<1> QED BY <1>2, <1>3, <1>4, <1>5, <1>6 DEF CountInv, EveryCommitPaysOnce, Executed

\* A decryption proof cannot be replayed, nor a movement had without a commit:
\* movements and waiting commits add up to the ids issued, for any number of
\* users, commits and executions.
THEOREM CommitsPayOnce == MCSpec => []EveryCommitPaysOnce
<1>1. MCInit => CountInv
  <2>1. SUFFICES ASSUME MCInit PROVE CountInv
    OBVIOUS
  <2>2. CRInv
    BY <2>1, CRInit0 DEF MCInit
  <2>3. DOMAIN commits = {} /\ nonces = [u \in Users |-> 0] /\ movements = 0
    BY <2>1 DEF MCInit, CRInit
  <2>4. Issued = {}
    BY <2>3 DEF Issued
  <2> QED BY <2>2, <2>3, <2>4, FS_EmptySet DEF CountInv, EveryCommitPaysOnce
<1>2. CountInv /\ [MCNext]_<<allVars, movements>> => CountInv'
  <2>1. SUFFICES ASSUME CountInv, [MCNext]_<<allVars, movements>>
                 PROVE  CountInv'
    OBVIOUS
  <2>2. CASE [CRNext]_allVars /\ UNCHANGED <<commitVars, movements>>
    <3>1. CRInv'
      BY <2>1, <2>2, CRStep DEF CountInv
    <3>2. UNCHANGED Issued /\ UNCHANGED DOMAIN commits
      BY <2>2 DEF Issued, commitVars
    <3> QED BY <2>1, <2>2, <3>1, <3>2 DEF CountInv, EveryCommitPaysOnce
  <2>3. ASSUME TwoStepNext,
               movements' = IF liquidReserve' = liquidReserve THEN movements
                                                              ELSE movements + 1
        PROVE  CountInv'
    <3>1. CASE \E u \in Users : Committed(u)
      <4>1. UNCHANGED movements
        BY <2>3, <3>1 DEF Committed, vars, ledger
      <4> QED BY <2>1, <3>1, <4>1, CommitCounts
    <3>2. CASE \E id \in DOMAIN commits : Executed(id)
      BY <2>1, <2>3, <3>2, ExecutionCounts
    <3> QED BY <2>1, <2>3, <3>1, <3>2, TwoStepFacts DEF CountInv
  <2> QED BY <2>1, <2>2, <2>3 DEF MCNext, CRNext, allVars, commitVars
<1>3. CountInv => EveryCommitPaysOnce
  BY DEF CountInv
<1> QED BY <1>1, <1>2, <1>3, PTL DEF MCSpec
=============================================================================
