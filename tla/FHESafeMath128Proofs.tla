------------------------ MODULE FHESafeMath128Proofs ------------------------
(***************************************************************************)
(* The checked arithmetic for every modulus: what one homomorphic update   *)
(* does to the number under a handle.                                      *)
(***************************************************************************)
EXTENDS FHESafeMath128, TLAPS

-----------------------------------------------------------------------------
(* Reduction modulo the width, on the three ranges the operations reach.   *)

LEMMA ModInside == ASSUME NEW n \in Plain PROVE n % Modulus = n
BY ModulusAssumption DEF Plain

LEMMA ModAbove ==
    ASSUME NEW n \in Modulus .. 2 * Modulus - 1 PROVE n % Modulus = n - Modulus
BY ModulusAssumption

LEMMA ModBelow ==
    ASSUME NEW n \in -Modulus .. -1 PROVE n % Modulus = n + Modulus
BY ModulusAssumption

LEMMA ModInPlain == ASSUME NEW n \in Int PROVE n % Modulus \in Plain
BY ModulusAssumption DEF Plain

\* A claim wider than the modulus is only ever reduced.
LEMMA ModNeverGrows == ASSUME NEW n \in Nat PROVE n % Modulus <= n
<1>1. CASE n < Modulus
  BY <1>1, ModulusAssumption
<1>2. CASE n >= Modulus
  BY <1>2, ModulusAssumption, ModInPlain DEF Plain
<1> QED BY <1>1, <1>2, ModulusAssumption

-----------------------------------------------------------------------------
(* Handles.                                                                *)

LEMMA HandleFacts ==
    /\ NoHandle \in Handle /\ Zero \in Handle
    /\ \A n \in Plain : Ct(n) \in Handle /\ Ct(n).v = n /\ Ct(n).kind = "ct"
    /\ \A x \in Handle : /\ x.v \in Plain /\ x.v \in Nat
                         /\ ~IsInitialized(x) => x.v = 0
BY ModulusAssumption DEF Handle, NoHandle, Zero, Ct, Plain, IsInitialized

\* The four homomorphic operations return handles, and this is their number.
LEMMA FheOperations ==
    ASSUME NEW x \in Handle, NEW y \in Handle
    PROVE  /\ FheAdd(x, y) \in Handle
           /\ FheAdd(x, y).v = IF x.v + y.v < Modulus THEN x.v + y.v
                                                      ELSE x.v + y.v - Modulus
           /\ FheSub(x, y) \in Handle
           /\ FheSub(x, y).v = IF x.v >= y.v THEN x.v - y.v
                                             ELSE x.v - y.v + Modulus
           /\ FheMul(x, y) \in Handle
<1> USE ModulusAssumption
<1>1. x.v \in Plain /\ y.v \in Plain
  BY HandleFacts
<1>2. (x.v + y.v) % Modulus = IF x.v + y.v < Modulus THEN x.v + y.v
                                                     ELSE x.v + y.v - Modulus
  <2>1. CASE x.v + y.v < Modulus
    BY <1>1, <2>1, ModInside DEF Plain
  <2>2. CASE x.v + y.v >= Modulus
    BY <1>1, <2>2, ModAbove DEF Plain
  <2> QED BY <1>1, <2>1, <2>2 DEF Plain
<1>3. (x.v - y.v) % Modulus = IF x.v >= y.v THEN x.v - y.v
                                            ELSE x.v - y.v + Modulus
  <2>1. CASE x.v >= y.v
    BY <1>1, <2>1, ModInside DEF Plain
  <2>2. CASE x.v < y.v
    BY <1>1, <2>2, ModBelow DEF Plain
  <2> QED BY <1>1, <2>1, <2>2 DEF Plain
<1>4. /\ (x.v + y.v) % Modulus \in Plain /\ (x.v - y.v) % Modulus \in Plain
      /\ (x.v * y.v) % Modulus \in Plain
  BY <1>1, ModInPlain DEF Plain
<1> QED BY <1>2, <1>3, <1>4, HandleFacts DEF FheAdd, FheSub, FheMul

LEMMA SelectIsHandle ==
    ASSUME NEW cond \in BOOLEAN, NEW x \in Handle, NEW y \in Handle
    PROVE  /\ Select(cond, x, y) \in Handle
           /\ Select(cond, x, y).kind = "ct"
           /\ Select(cond, x, y).v = IF cond THEN x.v ELSE y.v
BY HandleFacts DEF Select

LEMMA AsEuint128IsHandle ==
    ASSUME NEW n \in Nat
    PROVE  AsEuint128(n) \in Handle /\ AsEuint128(n).v = n % Modulus
BY ModInPlain, HandleFacts DEF AsEuint128

-----------------------------------------------------------------------------
(* The checked updates.                                                    *)

\* tryIncrease adds exactly or, when the sum leaves 128 bits, keeps the old
\* number and says so.
LEMMA TryIncreaseExact ==
    ASSUME NEW x \in Handle, NEW y \in Handle
    PROVE  /\ TryIncrease(x, y).updated \in Handle
           /\ TryIncrease(x, y).success <=> x.v + y.v < Modulus
           /\ TryIncrease(x, y).updated.v =
                  IF x.v + y.v < Modulus THEN x.v + y.v ELSE x.v
<1> USE ModulusAssumption
<1>0. x.v \in Plain /\ y.v \in Plain
  BY HandleFacts
<1>1. CASE ~IsInitialized(x)
  BY <1>0, <1>1, HandleFacts DEF TryIncrease, Outcome, Plain
<1>2. CASE IsInitialized(x) /\ ~IsInitialized(y)
  BY <1>0, <1>2, HandleFacts DEF TryIncrease, Outcome, Plain
<1>3. CASE IsInitialized(x) /\ IsInitialized(y)
  <2> DEFINE sum == FheAdd(x, y)
  <2>1. /\ sum \in Handle
        /\ sum.v = IF x.v + y.v < Modulus THEN x.v + y.v
                                          ELSE x.v + y.v - Modulus
    BY FheOperations
  <2>2. /\ TryIncrease(x, y).success = (sum.v >= x.v)
        /\ TryIncrease(x, y).updated = Ct(IF sum.v >= x.v THEN sum.v ELSE x.v)
    BY <1>3 DEF TryIncrease, Outcome, Select
  <2> HIDE DEF sum
  <2>3. (sum.v >= x.v) <=> x.v + y.v < Modulus
    BY <1>0, <2>1 DEF Plain
  <2>4. (IF sum.v >= x.v THEN sum.v ELSE x.v) \in Plain
    BY <1>0, <2>1, HandleFacts
  <2> QED BY <2>1, <2>2, <2>3, <2>4, HandleFacts
<1> QED BY <1>1, <1>2, <1>3

\* tryDecrease subtracts exactly or, when too little is there, keeps the old
\* number and says so.
LEMMA TryDecreaseExact ==
    ASSUME NEW x \in Handle, NEW y \in Handle
    PROVE  /\ TryDecrease(x, y).updated \in Handle
           /\ TryDecrease(x, y).success <=> x.v >= y.v
           /\ TryDecrease(x, y).updated.v = IF x.v >= y.v THEN x.v - y.v ELSE x.v
<1> USE ModulusAssumption
<1>0. x.v \in Plain /\ y.v \in Plain
  BY HandleFacts
<1>1. CASE ~IsInitialized(x) /\ ~IsInitialized(y)
  BY <1>0, <1>1, HandleFacts DEF TryDecrease, Outcome, Plain
<1>2. CASE ~IsInitialized(x) /\ IsInitialized(y)
  <2>1. /\ TryDecrease(x, y).success <=> y.v = 0
        /\ TryDecrease(x, y).updated = AsEuint128(0)
    BY <1>2 DEF TryDecrease, Outcome
  <2>2. AsEuint128(0) \in Handle /\ AsEuint128(0).v = 0 /\ x.v = 0
    BY <1>2, AsEuint128IsHandle, ModInside, HandleFacts DEF Plain
  <2>3. TryDecrease(x, y).success <=> x.v >= y.v
    BY <1>0, <2>1, <2>2 DEF Plain
  <2>4. TryDecrease(x, y).updated.v = IF x.v >= y.v THEN x.v - y.v ELSE x.v
    BY <1>0, <2>1, <2>2 DEF Plain
  <2> QED BY <2>1, <2>2, <2>3, <2>4
<1>3. CASE IsInitialized(x)
  <2> DEFINE difference == FheSub(x, y)
  <2>1. /\ difference \in Handle
        /\ difference.v = IF x.v >= y.v THEN x.v - y.v ELSE x.v - y.v + Modulus
    BY FheOperations
  <2>2. /\ TryDecrease(x, y).success = (x.v >= y.v)
        /\ TryDecrease(x, y).updated =
              Ct(IF x.v >= y.v THEN difference.v ELSE x.v)
    BY <1>3 DEF TryDecrease, Outcome, Select
  <2> HIDE DEF difference
  <2>3. (IF x.v >= y.v THEN difference.v ELSE x.v) \in Plain
    BY <1>0, <2>1, HandleFacts
  <2> QED BY <2>1, <2>2, <2>3, HandleFacts
<1> QED BY <1>1, <1>2, <1>3

\* tryAdd and trySub compute exactly or, on a wrap-around, return 0 and say so.
LEMMA TryAddExact ==
    ASSUME NEW x \in Handle, NEW y \in Handle
    PROVE  /\ TryAdd(x, y).success <=> x.v + y.v < Modulus
           /\ TryAdd(x, y).updated.v = IF x.v + y.v < Modulus THEN x.v + y.v ELSE 0
<1> USE ModulusAssumption
<1>0. x.v \in Plain /\ y.v \in Plain
  BY HandleFacts
<1>1. CASE ~IsInitialized(x)
  BY <1>0, <1>1, HandleFacts DEF TryAdd, Outcome, Plain
<1>2. CASE IsInitialized(x) /\ ~IsInitialized(y)
  BY <1>0, <1>2, HandleFacts DEF TryAdd, Outcome, Plain
<1>3. CASE IsInitialized(x) /\ IsInitialized(y)
  <2> DEFINE sum == FheAdd(x, y)
  <2>1. /\ sum \in Handle
        /\ sum.v = IF x.v + y.v < Modulus THEN x.v + y.v
                                          ELSE x.v + y.v - Modulus
    BY FheOperations
  <2>2. AsEuint128(0).v = 0
    BY AsEuint128IsHandle, ModInside DEF Plain
  <2>3. /\ TryAdd(x, y).success = (sum.v >= x.v)
        /\ TryAdd(x, y).updated = Ct(IF sum.v >= x.v THEN sum.v ELSE AsEuint128(0).v)
    BY <1>3 DEF TryAdd, Outcome, Select
  <2> HIDE DEF sum
  <2>4. (sum.v >= x.v) <=> x.v + y.v < Modulus
    BY <1>0, <2>1 DEF Plain
  <2>5. (IF sum.v >= x.v THEN sum.v ELSE 0) \in Plain
    BY <1>0, <2>1, HandleFacts DEF Plain
  <2> QED BY <2>1, <2>2, <2>3, <2>4, <2>5, HandleFacts
<1> QED BY <1>1, <1>2, <1>3

LEMMA TrySubExact ==
    ASSUME NEW x \in Handle, NEW y \in Handle
    PROVE  /\ TrySub(x, y).success <=> x.v >= y.v
           /\ TrySub(x, y).updated.v = IF x.v >= y.v THEN x.v - y.v ELSE 0
<1> USE ModulusAssumption
<1>0. x.v \in Plain /\ y.v \in Plain
  BY HandleFacts
<1>1. CASE ~IsInitialized(y)
  BY <1>0, <1>1, HandleFacts DEF TrySub, Outcome, Plain
<1>2. CASE IsInitialized(y)
  <2> DEFINE difference == FheSub(x, y)
  <2>1. /\ difference \in Handle
        /\ difference.v = IF x.v >= y.v THEN x.v - y.v ELSE x.v - y.v + Modulus
    BY FheOperations
  <2>2. AsEuint128(0).v = 0
    BY AsEuint128IsHandle, ModInside DEF Plain
  <2>3. /\ TrySub(x, y).success = (difference.v <= x.v)
        /\ TrySub(x, y).updated =
              Ct(IF difference.v <= x.v THEN difference.v ELSE AsEuint128(0).v)
    BY <1>2 DEF TrySub, Outcome, Select
  <2> HIDE DEF difference
  <2>4. (difference.v <= x.v) <=> x.v >= y.v
    BY <1>0, <2>1 DEF Plain
  <2>5. (IF difference.v <= x.v THEN difference.v ELSE 0) \in Plain
    BY <1>0, <2>1, HandleFacts DEF Plain
  <2> QED BY <2>1, <2>2, <2>3, <2>4, <2>5, HandleFacts
<1> QED BY <1>1, <1>2

\* What the contracts rely on when they drop the success bit: a credit adds at
\* most the amount, a debit takes at most the amount and at most the balance.
LEMMA SafeUpdatesBounded ==
    ASSUME NEW x \in Handle, NEW y \in Handle
    PROVE  /\ SafeIncrease(x, y) \in Handle
           /\ SafeIncrease(x, y).v \in x.v .. x.v + y.v
           /\ SafeDecrease(x, y) \in Handle
           /\ SafeDecrease(x, y).v \in Nat
           /\ SafeDecrease(x, y).v <= x.v
           /\ x.v - SafeDecrease(x, y).v <= y.v
<1>1. x.v \in Nat /\ y.v \in Nat
  BY HandleFacts
<1>2. SafeIncrease(x, y) \in Handle /\ SafeIncrease(x, y).v \in {x.v, x.v + y.v}
  BY TryIncreaseExact DEF SafeIncrease
<1>3. /\ SafeDecrease(x, y) \in Handle
      /\ \/ SafeDecrease(x, y).v = x.v
         \/ x.v >= y.v /\ SafeDecrease(x, y).v = x.v - y.v
  BY TryDecreaseExact DEF SafeDecrease
<1> QED BY <1>1, <1>2, <1>3

\* _verifyEquality returns a new handle with the claim's low bits or 0.
LEMMA VerifyEqualityBounded ==
    ASSUME NEW x \in Handle, NEW n \in Nat
    PROVE  /\ VerifyEquality(x, n) \in Handle
           /\ VerifyEquality(x, n).kind = "ct"
           /\ VerifyEquality(x, n).v \in {0, n % Modulus}
           /\ VerifyEquality(x, n).v <= n
<1> DEFINE match == x.v = AsEuint128(n).v
<1>1. /\ VerifyEquality(x, n) \in Handle
      /\ VerifyEquality(x, n).kind = "ct"
      /\ VerifyEquality(x, n).v = IF match THEN x.v ELSE 0
  <2>1. VerifyEquality(x, n) = Select(match, x, Zero)
    BY DEF VerifyEquality
  <2>2. Zero \in Handle /\ Zero.v = 0 /\ match \in BOOLEAN
    BY HandleFacts DEF Zero
  <2> HIDE DEF match
  <2> QED BY <2>1, <2>2, SelectIsHandle
<1>2. VerifyEquality(x, n).v \in {0, n % Modulus}
  BY <1>1, AsEuint128IsHandle
<1> QED BY <1>1, <1>2, ModNeverGrows
=============================================================================
