----------------------- MODULE MCLendingLedgerProofs -----------------------
(***************************************************************************)
(* The invariants of MCLendingLedger for every set of tokens and users,    *)
(* every bound, every width of the encrypted numbers and every claim: the  *)
(* solvency of a pool whose clients book in full, by counting units, and   *)
(* the arithmetic, whose inputs never change.                              *)
(***************************************************************************)
EXTENDS MCLendingLedger, LendingLedgerProofs, FHESafeMath128Proofs,
        FiniteSetTheorems

-----------------------------------------------------------------------------
(* Sums over the users, as numbers of units.                               *)

\* The n units above the first m of user u.
Column(u, m, n) == {u} \X (m + 1 .. m + n)

LEMMA UnitsAbove ==
    ASSUME NEW u, NEW m \in Nat, NEW n \in Nat
    PROVE  /\ IsFiniteSet(Column(u, m, n))
           /\ Cardinality(Column(u, m, n)) = n
<1> DEFINE B == Column(u, m, n)
           g == [k \in 1 .. n |-> <<u, m + k>>]
<1>1. IsFiniteSet(1 .. n) /\ Cardinality(1 .. n) = n
  BY FS_Interval
<1>2. g \in Bijection(1 .. n, B)
  <2>1. g \in [1 .. n -> B]
    BY DEF Column
  <2>2. \A i, j \in 1 .. n : g[i] = g[j] => i = j
    OBVIOUS
  <2>3. \A x \in B : \E k \in 1 .. n : g[k] = x
    <3>1. TAKE x \in B
    <3>2. x[2] - m \in 1 .. n /\ x = <<u, m + (x[2] - m)>>
      BY DEF Column
    <3>3. g[x[2] - m] = x
      BY <3>2
    <3> QED BY <3>2, <3>3
  <2> HIDE DEF g, B
  <2> QED BY <2>1, <2>2, <2>3 DEF Bijection, Injection, Surjection, IsInjective
<1> QED BY <1>1, <1>2, FS_Bijection DEF ExistsBijection

LEMMA TotalGrows ==
    ASSUME NEW f \in [Users -> Nat], NEW u \in Users, NEW n \in Nat,
           IsFiniteSet(Units(f))
    PROVE  /\ IsFiniteSet(Units([f EXCEPT ![u] = @ + n]))
           /\ Total([f EXCEPT ![u] = @ + n]) = Total(f) + n
<1> DEFINE g == [f EXCEPT ![u] = @ + n]
           B == Column(u, f[u], n)
<1>1. IsFiniteSet(B) /\ Cardinality(B) = n
  <2>1. f[u] \in Nat
    OBVIOUS
  <2> QED BY <2>1, UnitsAbove
<1>2. Units(g) = Units(f) \cup B
  BY DEF Units, Column
<1>3. Units(f) \cap B = {}
  BY DEF Units, Column
<1> HIDE DEF B, g
<1>4. /\ IsFiniteSet(Units(g))
      /\ Cardinality(Units(g)) = Cardinality(Units(f)) + Cardinality(B) - 0
  BY <1>1, <1>2, <1>3, FS_Union, FS_EmptySet
<1> QED BY <1>1, <1>4, FS_CardinalityType DEF Total, g

LEMMA TotalShrinks ==
    ASSUME NEW f \in [Users -> Nat], NEW u \in Users, NEW n \in 0 .. f[u],
           IsFiniteSet(Units(f))
    PROVE  /\ IsFiniteSet(Units([f EXCEPT ![u] = @ - n]))
           /\ Total([f EXCEPT ![u] = @ - n]) = Total(f) - n
<1> DEFINE g == [f EXCEPT ![u] = @ - n]
<1>1. g \in [Users -> Nat] /\ f = [g EXCEPT ![u] = @ + n] /\ n \in Nat
  <2>1. f[u] \in Nat /\ n \in Nat /\ f[u] - n \in Nat /\ (f[u] - n) + n = f[u]
    OBVIOUS
  <2>2. g \in [Users -> Nat] /\ g[u] = f[u] - n
    BY <2>1
  <2>3. f = [g EXCEPT ![u] = @ + n]
    BY <2>1, <2>2
  <2> QED BY <2>1, <2>2, <2>3
<1>2. Units(g) \subseteq Units(f)
  BY DEF Units
<1>3. IsFiniteSet(Units(g))
  BY <1>2, FS_Subset
<1> HIDE DEF g
<1>4. Total(f) = Total(g) + n
  BY <1>1, <1>3, TotalGrows
<1>5. Total(g) \in Nat
  BY <1>3, FS_CardinalityType DEF Total
<1> QED BY <1>1, <1>3, <1>4, <1>5 DEF g

-----------------------------------------------------------------------------
(* Solvency of a fully booked pool.                                        *)

\* One token whose positions are finite sums covered by its reserve and loans.
Covered(s, d, r, l) ==
    /\ IsFiniteSet(Units(s)) /\ IsFiniteSet(Units(d))
    /\ Total(s) <= r + l /\ Total(d) <= l

AllCovered ==
    \A t \in Tokens : Covered(supply[t], debt[t], reserve[t], lent[t])

SolvencyInv == LedgerInv /\ (fullyBooked => AllCovered)

LEMMA UnitsOfNothing ==
    ASSUME NEW f \in [Users -> {0}]
    PROVE  IsFiniteSet(Units(f)) /\ Total(f) = 0
<1>1. Units(f) = {}
  BY DEF Units
<1> QED BY <1>1, FS_EmptySet DEF Total

\* More booked than taken in, or less paid out than booked, is excluded: these
\* are the four ways in which a token's numbers move.
LEMMA CoveredMoves ==
    ASSUME NEW s \in [Users -> Nat], NEW d \in [Users -> Nat],
           NEW r \in Nat, NEW l \in Nat, Covered(s, d, r, l),
           NEW u \in Users, NEW n \in Nat
    PROVE  /\ Covered(s, d, r + n, l)
           /\ Covered([s EXCEPT ![u] = @ + n], d, r + n, l)
           /\ n <= s[u] => Covered([s EXCEPT ![u] = @ - n], d, r - n, l)
           /\ n <= r => Covered(s, [d EXCEPT ![u] = @ + n], r - n, l + n)
           /\ n <= d[u] => Covered(s, [d EXCEPT ![u] = @ - n], r + n, l - n)
           /\ n <= d[u] => Covered(s, [d EXCEPT ![u] = @ - n], r, l)
<1>1. Total(s) \in Nat /\ Total(d) \in Nat
  BY FS_CardinalityType DEF Covered, Total
<1>2. /\ IsFiniteSet(Units([s EXCEPT ![u] = @ + n]))
      /\ Total([s EXCEPT ![u] = @ + n]) = Total(s) + n
      /\ IsFiniteSet(Units([d EXCEPT ![u] = @ + n]))
      /\ Total([d EXCEPT ![u] = @ + n]) = Total(d) + n
  BY TotalGrows DEF Covered
<1>3. ASSUME n <= s[u]
      PROVE  /\ IsFiniteSet(Units([s EXCEPT ![u] = @ - n]))
             /\ Total([s EXCEPT ![u] = @ - n]) = Total(s) - n
  <2>1. n \in 0 .. s[u]
    BY <1>3
  <2> QED BY <2>1, TotalShrinks DEF Covered
<1>4. ASSUME n <= d[u]
      PROVE  /\ IsFiniteSet(Units([d EXCEPT ![u] = @ - n]))
             /\ Total([d EXCEPT ![u] = @ - n]) = Total(d) - n
  <2>1. n \in 0 .. d[u]
    BY <1>4
  <2> QED BY <2>1, TotalShrinks DEF Covered
<1> QED BY <1>1, <1>2, <1>3, <1>4 DEF Covered

LEMMA CoveredExit ==
    ASSUME NEW s \in [Users -> Nat], NEW d \in [Users -> Nat],
           NEW r \in Nat, NEW l \in Nat, Covered(s, d, r, l),
           NEW u \in Users, s[u] <= r
    PROVE  Covered([s EXCEPT ![u] = 0], [d EXCEPT ![u] = 0], r - s[u], l)
<1>1. PICK m \in Nat, n \in Nat : m = s[u] /\ n = d[u]
  OBVIOUS
<1>2. Covered([s EXCEPT ![u] = @ - m], d, r - m, l)
  <2>1. m \in Nat /\ m <= s[u]
    BY <1>1
  <2> QED BY <2>1, CoveredMoves
<1>3. PICK z \in [Users -> Nat] : z = [s EXCEPT ![u] = 0]
  OBVIOUS
<1>4. z = [s EXCEPT ![u] = @ - m] /\ r - m \in Nat
  <2>1. s[u] - m = 0 /\ r - m \in Nat
    BY <1>1
  <2> QED BY <1>3, <2>1
<1>5. Covered(z, [d EXCEPT ![u] = @ - n], r - m, l)
  <2>1. PICK q \in Nat : q = r - m
    BY <1>4
  <2>2. Covered(z, d, q, l) /\ z \in [Users -> Nat] /\ n \in Nat /\ n <= d[u]
    <3>1. Covered(z, d, q, l)
      BY <1>2, <1>4, <2>1
    <3>2. z \in [Users -> Nat]
      BY <1>3
    <3> QED BY <1>1, <3>1, <3>2
  <2>3. Covered(z, [d EXCEPT ![u] = @ - n], q, l)
    BY <2>1, <2>2, CoveredMoves
  <2> QED BY <2>1, <2>3
<1>6. [d EXCEPT ![u] = @ - n] = [d EXCEPT ![u] = 0]
  <2>1. d[u] - n = 0
    BY <1>1
  <2> QED BY <2>1
<1> QED BY <1>1, <1>3, <1>5, <1>6

\* One movement of one token, the others unchanged.
LEMMA MovementKeepsCover ==
    ASSUME LedgerInv, AllCovered, NEW t \in Tokens,
           /\ \A x \in Tokens \ {t} :
                 /\ supply'[x] = supply[x] /\ debt'[x] = debt[x]
                 /\ reserve'[x] = reserve[x] /\ lent'[x] = lent[x]
           /\ Covered(supply'[t], debt'[t], reserve'[t], lent'[t])
    PROVE  AllCovered'
BY DEF AllCovered

LEMMA SolvencyStep ==
    ASSUME LedgerInv, AllCovered, FullyBookedNext
    PROVE  AllCovered'
<1> USE DEF LedgerInv, TypeOK
<1>1. ASSUME NEW t \in Tokens, NEW amount \in Nat,
             Donate(t, amount) \/ FlashFee(t, amount)
      PROVE  AllCovered'
  <2>1. CASE Donate(t, amount)
    BY <2>1 DEF Donate, AllCovered
  <2>2. CASE FlashFee(t, amount)
    <3>1. Covered(supply[t], debt[t], reserve[t] + amount, lent[t])
      <4>1. /\ reserve[t] \in Nat /\ lent[t] \in Nat
            /\ Covered(supply[t], debt[t], reserve[t], lent[t])
        BY DEF AllCovered
      <4>2. Total(supply[t]) \in Nat
        BY <4>1, FS_CardinalityType DEF Covered, Total
      <4> QED BY <4>1, <4>2 DEF Covered
    <3>2. /\ supply' = supply /\ debt' = debt /\ lent' = lent
          /\ reserve' = [reserve EXCEPT ![t] = @ + amount]
      BY <2>2 DEF FlashFee
    <3> QED BY <3>1, <3>2 DEF AllCovered
  <2> QED BY <1>1, <2>1, <2>2
<1>2. ASSUME NEW t \in Tokens, NEW u \in Users, NEW amount \in Nat,
             \/ Deposit(t, u, amount, amount)
             \/ Withdraw(t, u, amount, amount)
             \/ Lend(t, u, amount, amount)
             \/ Repay(t, u, amount, amount)
      PROVE  AllCovered'
  <2> DEFINE s == supply[t]
             d == debt[t]
  <2>1. /\ s \in [Users -> Nat] /\ d \in [Users -> Nat]
        /\ reserve[t] \in Nat /\ lent[t] \in Nat
        /\ Covered(s, d, reserve[t], lent[t])
    BY DEF AllCovered
  <2>2. CASE Deposit(t, u, amount, amount)
    <3>1. Covered([s EXCEPT ![u] = @ + amount], d, reserve[t] + amount, lent[t])
      BY <2>1, CoveredMoves
    <3>2. /\ supply' = [supply EXCEPT ![t][u] = @ + amount]
          /\ reserve' = [reserve EXCEPT ![t] = @ + amount]
          /\ debt' = debt /\ lent' = lent
      BY <2>2 DEF Deposit
    <3> QED BY <3>1, <3>2, MovementKeepsCover
  <2>3. CASE Withdraw(t, u, amount, amount)
    <3>1. amount <= s[u]
      BY <2>3 DEF Withdraw
    <3>2. Covered([s EXCEPT ![u] = @ - amount], d, reserve[t] - amount, lent[t])
      BY <2>1, <3>1, CoveredMoves
    <3>3. /\ supply' = [supply EXCEPT ![t][u] = @ - amount]
          /\ reserve' = [reserve EXCEPT ![t] = @ - amount]
          /\ debt' = debt /\ lent' = lent
      BY <2>3 DEF Withdraw
    <3> QED BY <3>2, <3>3, MovementKeepsCover
  <2>4. CASE Lend(t, u, amount, amount)
    <3>1. amount <= reserve[t]
      BY <2>4 DEF Lend
    <3>2. Covered(s, [d EXCEPT ![u] = @ + amount],
                  reserve[t] - amount, lent[t] + amount)
      BY <2>1, <3>1, CoveredMoves
    <3>3. /\ debt' = [debt EXCEPT ![t][u] = @ + amount]
          /\ reserve' = [reserve EXCEPT ![t] = @ - amount]
          /\ lent' = [lent EXCEPT ![t] = @ + amount]
          /\ supply' = supply
      BY <2>4 DEF Lend
    <3> QED BY <3>2, <3>3, MovementKeepsCover
  <2>5. CASE Repay(t, u, amount, amount)
    <3>1. amount <= d[u]
      BY <2>5 DEF Repay
    <3>2. Covered(s, [d EXCEPT ![u] = @ - amount],
                  reserve[t] + amount, lent[t] - amount)
      BY <2>1, <3>1, CoveredMoves
    <3>3. /\ debt' = [debt EXCEPT ![t][u] = @ - amount]
          /\ reserve' = [reserve EXCEPT ![t] = @ + amount]
          /\ lent' = [lent EXCEPT ![t] = @ - amount]
          /\ supply' = supply
      BY <2>5 DEF Repay
    <3> QED BY <3>2, <3>3, MovementKeepsCover
  <2> QED BY <1>2, <2>2, <2>3, <2>4, <2>5
<1>3. ASSUME NEW u \in Users, NEW c \in Tokens, NEW d \in Tokens,
             NEW cover \in Nat, NEW seized \in Nat,
             Liquidate(u, c, d, cover, seized)
      PROVE  AllCovered'
  <2>1. /\ c # d /\ cover <= debt[d][u] /\ seized <= supply[c][u]
        /\ reserve' = [reserve EXCEPT ![d] = @ + cover, ![c] = @ - seized]
        /\ lent' = [lent EXCEPT ![d] = @ - cover]
        /\ supply' = [supply EXCEPT ![c][u] = @ - seized]
        /\ debt' = [debt EXCEPT ![d][u] = @ - cover]
    BY <1>3 DEF Liquidate
  <2>2. /\ supply[c] \in [Users -> Nat] /\ debt[c] \in [Users -> Nat]
        /\ reserve[c] \in Nat /\ lent[c] \in Nat
        /\ supply[d] \in [Users -> Nat] /\ debt[d] \in [Users -> Nat]
        /\ reserve[d] \in Nat /\ lent[d] \in Nat
        /\ Covered(supply[c], debt[c], reserve[c], lent[c])
        /\ Covered(supply[d], debt[d], reserve[d], lent[d])
    BY DEF AllCovered
  <2>3. Covered(supply'[c], debt'[c], reserve'[c], lent'[c])
    <3>1. Covered([supply[c] EXCEPT ![u] = @ - seized], debt[c],
                  reserve[c] - seized, lent[c])
      BY <2>1, <2>2, CoveredMoves
    <3>2. /\ supply'[c] = [supply[c] EXCEPT ![u] = @ - seized]
          /\ debt'[c] = debt[c] /\ lent'[c] = lent[c]
          /\ reserve'[c] = reserve[c] - seized
      BY <2>1
    <3> QED BY <3>1, <3>2
  <2>4. Covered(supply'[d], debt'[d], reserve'[d], lent'[d])
    <3>1. Covered(supply[d], [debt[d] EXCEPT ![u] = @ - cover],
                  reserve[d] + cover, lent[d] - cover)
      BY <2>1, <2>2, CoveredMoves
    <3>2. /\ debt'[d] = [debt[d] EXCEPT ![u] = @ - cover]
          /\ supply'[d] = supply[d] /\ lent'[d] = lent[d] - cover
          /\ reserve'[d] = reserve[d] + cover
      BY <2>1
    <3> QED BY <3>1, <3>2
  <2>5. ASSUME NEW x \in Tokens, x # c, x # d
        PROVE  /\ supply'[x] = supply[x] /\ debt'[x] = debt[x]
               /\ reserve'[x] = reserve[x] /\ lent'[x] = lent[x]
    BY <2>1, <2>5
  <2> QED BY <2>3, <2>4, <2>5 DEF AllCovered
<1>4. ASSUME NEW t \in Tokens, NEW u \in Users, EmergencyExit(t, u)
      PROVE  AllCovered'
  <2>1. /\ supply[t] \in [Users -> Nat] /\ debt[t] \in [Users -> Nat]
        /\ reserve[t] \in Nat /\ lent[t] \in Nat
        /\ Covered(supply[t], debt[t], reserve[t], lent[t])
    BY DEF AllCovered
  <2>2. /\ supply[t][u] <= reserve[t]
        /\ supply' = [supply EXCEPT ![t][u] = 0]
        /\ debt' = [debt EXCEPT ![t][u] = 0]
        /\ reserve' = [reserve EXCEPT ![t] = @ - supply[t][u]]
        /\ lent' = lent
    BY <2>1, <1>4 DEF EmergencyExit
  <2>3. Covered([supply[t] EXCEPT ![u] = 0], [debt[t] EXCEPT ![u] = 0],
                reserve[t] - supply[t][u], lent[t])
    BY <2>1, <2>2, CoveredExit
  <2> QED BY <2>2, <2>3, MovementKeepsCover
<1> QED BY AmountsAreNat, <1>1, <1>2, <1>3, <1>4 DEF FullyBookedNext

LEMMA FullyBookedIsNext == FullyBookedNext => Next
<1>1. \A amount \in Amount : amount \in 0 .. amount
  BY AmountsAreNat
<1> QED BY <1>1 DEF FullyBookedNext, Next

\* With clients that book in full, no token owes its suppliers more than its
\* reserve and its loans, and no debt outlives the plaintext total, whatever
\* the number of users.
THEOREM FullyBookedStaysSolvent == MCSpec => []FullBookingKeepsSolvency
<1>1. MCInit => SolvencyInv
  <2>1. SUFFICES ASSUME MCInit, NEW t \in Tokens
                 PROVE  Covered(supply[t], debt[t], reserve[t], lent[t])
    BY LedgerInit DEF MCInit, SolvencyInv, AllCovered
  <2>2. /\ supply[t] \in [Users -> {0}] /\ debt[t] \in [Users -> {0}]
        /\ reserve[t] = 0 /\ lent[t] = 0
    BY <2>1 DEF MCInit, Init
  <2> QED BY <2>2, UnitsOfNothing DEF Covered
<1>2. SolvencyInv /\ [MCNext]_<<vars, mathVars, part, fullyBooked>> => SolvencyInv'
  <2>1. SUFFICES ASSUME SolvencyInv,
                        [MCNext]_<<vars, mathVars, part, fullyBooked>>
                 PROVE  SolvencyInv'
    OBVIOUS
  <2>2. /\ fullyBooked' = fullyBooked
        /\ \/ fullyBooked /\ FullyBookedNext
           \/ ~fullyBooked /\ Next
           \/ UNCHANGED vars
    BY <2>1 DEF MCNext, LedgerMoves
  <2>3. LedgerInv'
    BY <2>1, <2>2, FullyBookedIsNext, LedgerStep DEF SolvencyInv
  <2>4. fullyBooked => AllCovered'
    <3>1. CASE fullyBooked /\ FullyBookedNext
      BY <2>1, <3>1, SolvencyStep DEF SolvencyInv
    <3>2. CASE UNCHANGED vars
      BY <2>1, <3>2 DEF SolvencyInv, AllCovered, vars
    <3> QED BY <2>2, <3>1, <3>2
  <2> QED BY <2>2, <2>3, <2>4 DEF SolvencyInv
<1>3. SolvencyInv => FullBookingKeepsSolvency
  BY DEF SolvencyInv, AllCovered, Covered, FullBookingKeepsSolvency
<1> QED BY <1>1, <1>2, <1>3, PTL DEF MCSpec

-----------------------------------------------------------------------------
(* The arithmetic.                                                         *)

Inputs == a \in Handle /\ b \in Handle /\ claim \in Nat

LEMMA InputsInvariant == MCSpec => []Inputs
<1>1. MCInit => Inputs
  BY ClaimAssumption DEF MCInit, Inputs
<1>2. Inputs /\ [MCNext]_<<vars, mathVars, part, fullyBooked>> => Inputs'
  BY DEF Inputs, MCNext, mathVars
<1> QED BY <1>1, <1>2, PTL DEF MCSpec

LEMMA ReferenceFields ==
    ASSUME NEW exact, NEW fallback
    PROVE  /\ Reference(exact, fallback).ok <=> exact \in Plain
           /\ Reference(exact, fallback).v =
                  IF exact \in Plain THEN exact ELSE fallback
BY DEF Reference

\* tryIncrease and tryDecrease agree with integer arithmetic on all handles.
THEOREM UpdatesExact == MCSpec => []UpdatesAreExactOrVoid
<1>1. Inputs => UpdatesAreExactOrVoid
  <2>1. SUFFICES ASSUME Inputs PROVE UpdatesAreExactOrVoid
    OBVIOUS
  <2>2. a \in Handle /\ b \in Handle /\ a.v \in Plain /\ b.v \in Plain
    BY <2>1, HandleFacts DEF Inputs
  <2>3. Agrees(TryIncrease(a, b), Reference(a.v + b.v, a.v))
    <3>1. a.v + b.v \in Plain <=> a.v + b.v < Modulus
      BY <2>2, ModulusAssumption DEF Plain
    <3> QED BY <2>2, <3>1, ReferenceFields, TryIncreaseExact DEF Agrees
  <2>4. Agrees(TryDecrease(a, b), Reference(a.v - b.v, a.v))
    <3>1. a.v - b.v \in Plain <=> a.v >= b.v
      BY <2>2, ModulusAssumption DEF Plain
    <3> QED BY <2>2, <3>1, ReferenceFields, TryDecreaseExact DEF Agrees
  <2> QED BY <2>3, <2>4 DEF UpdatesAreExactOrVoid
<1> QED BY InputsInvariant, <1>1, PTL

\* tryAdd and trySub agree with integer arithmetic on all handles.
THEOREM ArithmeticExact == MCSpec => []ArithmeticIsExactOrZero
<1>1. Inputs => ArithmeticIsExactOrZero
  <2>1. SUFFICES ASSUME Inputs PROVE ArithmeticIsExactOrZero
    OBVIOUS
  <2>2. a \in Handle /\ b \in Handle /\ a.v \in Plain /\ b.v \in Plain
    BY <2>1, HandleFacts DEF Inputs
  <2>3. Agrees(TryAdd(a, b), Reference(a.v + b.v, 0))
    <3>1. a.v + b.v \in Plain <=> a.v + b.v < Modulus
      BY <2>2, ModulusAssumption DEF Plain
    <3> QED BY <2>2, <3>1, ReferenceFields, TryAddExact DEF Agrees
  <2>4. Agrees(TrySub(a, b), Reference(a.v - b.v, 0))
    <3>1. a.v - b.v \in Plain <=> a.v >= b.v
      BY <2>2, ModulusAssumption DEF Plain
    <3> QED BY <2>2, <3>1, ReferenceFields, TrySubExact DEF Agrees
  <2> QED BY <2>3, <2>4 DEF ArithmeticIsExactOrZero
<1> QED BY InputsInvariant, <1>1, PTL

\* Dropping the success bit cannot mint balance over a credit and a debit.
THEOREM RoundTripSafe == MCSpec => []RoundTripNeverMints
<1>1. Inputs => RoundTripNeverMints
  <2>1. SUFFICES ASSUME Inputs PROVE RoundTripNeverMints
    OBVIOUS
  <2> DEFINE up   == SafeIncrease(a, b)
             down == SafeDecrease(up, b)
  <2>2. a \in Handle /\ b \in Handle /\ a.v \in Plain /\ b.v \in Plain
    BY <2>1, HandleFacts DEF Inputs
  <2>3. /\ up \in Handle
        /\ up.v = IF a.v + b.v < Modulus THEN a.v + b.v ELSE a.v
    BY <2>2, TryIncreaseExact DEF SafeIncrease
  <2> HIDE DEF up
  <2>4. down.v = IF up.v >= b.v THEN up.v - b.v ELSE up.v
    BY <2>2, <2>3, TryDecreaseExact DEF SafeDecrease
  <2>5. TryIncrease(a, b).success => a.v + b.v < Modulus
    BY <2>2, TryIncreaseExact
  <2>6. (a.v + b.v < Modulus => down.v = a.v) /\ down.v <= a.v
    BY <2>2, <2>3, <2>4, ModulusAssumption DEF Plain
  <2> QED BY <2>5, <2>6 DEF RoundTripNeverMints, up
<1> QED BY InputsInvariant, <1>1, PTL

\* _verifyEquality never hands on more than was claimed in plaintext.
THEOREM VerifiedBounded == MCSpec => []VerifiedNeverExceedsClaim
<1>1. Inputs => VerifiedNeverExceedsClaim
  BY VerifyEqualityBounded DEF Inputs, VerifiedNeverExceedsClaim
<1> QED BY InputsInvariant, <1>1, PTL

\* All of it at once, which is what the run with the ledger checks.
THEOREM MathSound == MCSpec => []MathIsSound
<1>1. /\ UpdatesAreExactOrVoid /\ ArithmeticIsExactOrZero
      /\ RoundTripNeverMints /\ VerifiedNeverExceedsClaim
      => MathIsSound
  BY DEF MathIsSound
<1> QED BY UpdatesExact, ArithmeticExact, RoundTripSafe, VerifiedBounded, <1>1, PTL
=============================================================================
