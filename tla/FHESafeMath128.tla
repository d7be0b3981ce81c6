--------------------------- MODULE FHESafeMath128 ---------------------------
(***************************************************************************)
(* Encrypted unsigned integers as the contracts see them, and the checked  *)
(* arithmetic of libraries/FHESafeMath128.sol on them.                     *)
(*                                                                         *)
(* A euint128 is a handle: bytes32(0) when the slot was never written, the *)
(* immutable handle _ZERO of FheForgeBase, or the result of an FHE         *)
(* operation.  Every operation of the coprocessor returns a fresh handle,  *)
(* so the result of a select is never the handle _ZERO even when the       *)
(* number under it is 0.  The kind of handle is therefore kept beside the  *)
(* number.  Keys, proofs of knowledge and ciphertext bytes are left out.   *)
(***************************************************************************)
EXTENDS Integers

CONSTANT Modulus        \* 2^128, scaled down by the model configurations

ASSUME ModulusAssumption == Modulus \in Nat /\ Modulus > 1

-----------------------------------------------------------------------------

Plain == 0 .. Modulus - 1

Handle == { x \in [kind : {"none", "zero", "ct"}, v : Plain] :
                x.kind # "ct" => x.v = 0 }

NoHandle == [kind |-> "none", v |-> 0]
Zero     == [kind |-> "zero", v |-> 0]
Ct(n)    == [kind |-> "ct", v |-> n]

\* FHE.isInitialized, and FheForgeBase._ensureInitialized.
IsInitialized(x) == x.kind # "none"
EnsureInitialized(x) == IF IsInitialized(x) THEN x ELSE Zero

\* The coprocessor's operations used by the contracts: euint128 arithmetic
\* wraps, and every result is a new handle.
FheAdd(a, b) == Ct((a.v + b.v) % Modulus)
FheSub(a, b) == Ct((a.v - b.v) % Modulus)
FheMul(a, b) == Ct((a.v * b.v) % Modulus)
AsEuint128(n) == Ct(n % Modulus)
Select(cond, a, b) == Ct(IF cond THEN a.v ELSE b.v)

-----------------------------------------------------------------------------

Outcome(success, updated) == [success |-> success, updated |-> updated]

\* Overflow is detected by the wrapped sum being smaller than the old value,
\* in which case the old value stays.
TryIncrease(oldValue, delta) ==
    CASE ~IsInitialized(oldValue) -> Outcome(TRUE, delta)
      [] IsInitialized(oldValue) /\ ~IsInitialized(delta) ->
            Outcome(TRUE, oldValue)
      [] IsInitialized(oldValue) /\ IsInitialized(delta) ->
            LET newValue == FheAdd(oldValue, delta)
                success  == newValue.v >= oldValue.v
            IN  Outcome(success, Select(success, newValue, oldValue))

\* Mutant: an exact debit of the whole balance is refused.
TryDecreaseStrict(oldValue, delta) ==
    LET success == oldValue.v > delta.v
    IN  Outcome(success, Select(success, FheSub(oldValue, delta), oldValue))

TryDecrease(oldValue, delta) ==
    CASE ~IsInitialized(oldValue) /\ ~IsInitialized(delta) ->
            Outcome(TRUE, oldValue)
      [] ~IsInitialized(oldValue) /\ IsInitialized(delta) ->
            Outcome(delta.v = 0, AsEuint128(0))
      [] IsInitialized(oldValue) ->
            LET success == oldValue.v >= delta.v
            IN  Outcome(success,
                        Select(success, FheSub(oldValue, delta), oldValue))

\* tryAdd and trySub return 0 instead of the old value on failure.
TryAdd(a, b) ==
    CASE ~IsInitialized(a) -> Outcome(TRUE, b)
      [] IsInitialized(a) /\ ~IsInitialized(b) -> Outcome(TRUE, a)
      [] IsInitialized(a) /\ IsInitialized(b) ->
            LET sum     == FheAdd(a, b)
                success == sum.v >= a.v
            IN  Outcome(success, Select(success, sum, AsEuint128(0)))

TrySub(a, b) ==
    IF ~IsInitialized(b)
    THEN Outcome(TRUE, a)
    ELSE LET difference == FheSub(a, b)
             success    == difference.v <= a.v
         IN  Outcome(success, Select(success, difference, AsEuint128(0)))

\* FheACL.safeIncrease / safeDecrease: the caller gets only the new balance;
\* the success bit is dropped.
SafeIncrease(stored, delta) == TryIncrease(stored, delta).updated
SafeDecrease(stored, delta) == TryDecrease(stored, delta).updated

\* FheForgeBase._verifyEquality: the encrypted input if it equals the claimed
\* plaintext (which is itself reduced to 128 bits), an encrypted 0 otherwise.
VerifyEquality(incoming, claimed) ==
    Select(incoming.v = AsEuint128(claimed).v, incoming, Zero)
=============================================================================
