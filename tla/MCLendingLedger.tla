--------------------------- MODULE MCLendingLedger ---------------------------
(***************************************************************************)
(* The pool's bookkeeping and its arithmetic for TLC.  LendingLedger with  *)
(* every quantity of a token kept within MaxQuantity, in two populations   *)
(* chosen at the start, clients that book every movement in full and       *)
(* arbitrary ones; and, on the side, FHESafeMath128 on every pair of       *)
(* handles, compared with unbounded integer arithmetic.                    *)
(***************************************************************************)
EXTENDS LendingLedger, FHESafeMath128, FiniteSets

CONSTANTS
    alice, bob, weth0, usdc0,
    MaxQuantity,    \* bound: cash, debt and total position, by token
    MaxClaim        \* largest plaintext claimed to _verifyEquality

ASSUME ClaimAssumption == MaxClaim \in Nat

VARIABLES
    part,           \* what is explored: the ledger or the arithmetic
    fullyBooked,
    a, b, claim     \* the inputs of the arithmetic, which never change

mathVars == <<a, b, claim>>

MCMaxQuantity == [t \in Tokens |-> IF t = weth0 THEN 2 ELSE 1]

\* A quantity held by users, unit by unit, and the sum over the users.
Units(f) == UNION { {u} \X (1 .. f[u]) : u \in Users }
Total(f) == Cardinality(Units(f))

Bounded ==
    \A t \in Tokens :
        /\ cash[t] <= MaxQuantity[t] /\ lent[t] <= MaxQuantity[t]
        /\ Total(supply[t]) <= MaxQuantity[t] /\ Total(debt[t]) <= MaxQuantity[t]

MCInit ==
    /\ part \in {"ledger", "arithmetic"}
    /\ Init /\ fullyBooked \in BOOLEAN
    /\ a \in Handle /\ b \in Handle /\ claim \in 0 .. MaxClaim
    /\ part = "ledger" => a = Zero /\ b = Zero /\ claim = 0
    /\ part = "arithmetic" => fullyBooked

LedgerMoves ==
    /\ part = "ledger"
    /\ \/ fullyBooked /\ FullyBookedNext
       \/ ~fullyBooked /\ Next
    /\ Bounded'

MCNext ==
    /\ \/ LedgerMoves
       \/ part = "arithmetic" /\ UNCHANGED vars
    /\ UNCHANGED <<part, fullyBooked, mathVars>>

MCSpec == MCInit /\ [][MCNext]_<<vars, mathVars, part, fullyBooked>>

-----------------------------------------------------------------------------
\* With clients that book in full, what the suppliers of a token are owed is
\* never more than its reserve and its outstanding loans, and no borrower owes
\* debt that the plaintext total has forgotten, over every mixture of calls,
\* liquidations and emergency exits.  (The fees of flash loans and debts
\* dropped by an emergency exit make both inequalities strict.)
FullBookingKeepsSolvency ==
    fullyBooked =>
        \A t \in Tokens : /\ Total(supply[t]) <= reserve[t] + lent[t]
                          /\ Total(debt[t]) <= lent[t]

-----------------------------------------------------------------------------
\* What integer arithmetic says a checked update returns.
Reference(exact, fallback) ==
    [ok |-> exact \in Plain, v |-> IF exact \in Plain THEN exact ELSE fallback]

Agrees(outcome, ref) ==
    (outcome.success <=> ref.ok) /\ outcome.updated.v = ref.v

\* tryIncrease and tryDecrease detect wrap-around exactly, and a failed update
\* leaves the old balance.
UpdatesAreExactOrVoid ==
    /\ Agrees(TryIncrease(a, b), Reference(a.v + b.v, a.v))
    /\ Agrees(TryDecrease(a, b), Reference(a.v - b.v, a.v))

\* tryAdd and trySub detect wrap-around exactly, and fail to an encrypted 0.
ArithmeticIsExactOrZero ==
    /\ Agrees(TryAdd(a, b), Reference(a.v + b.v, 0))
    /\ Agrees(TrySub(a, b), Reference(a.v - b.v, 0))

\* A credit followed by a debit of the same amount restores the balance
\* exactly when the credit took effect, and never raises it otherwise: the
\* dropped success bit cannot mint balance over a round trip.
RoundTripNeverMints ==
    LET up   == SafeIncrease(a, b)
        down == SafeDecrease(up, b)
    IN  /\ TryIncrease(a, b).success => down.v = a.v
        /\ down.v <= a.v

\* _verifyEquality never returns more than was claimed, also for a claim wider
\* than 128 bits, and the value it returns is the claim's low 128 bits or 0.
VerifiedNeverExceedsClaim ==
    LET verified == VerifyEquality(a, claim)
    IN  /\ verified.v <= claim
        /\ verified.v \in {0, claim % Modulus}

\* The encrypted arithmetic as its callers rely on it: wrap-around never passes
\* for success, a lost success bit mints nothing, and a verified claim is never
\* exceeded (FHESafeMath128.sol:14 to 46, FheACL.sol:40, FheForgeBase.sol:162).
MathIsSound ==
    /\ UpdatesAreExactOrVoid /\ ArithmeticIsExactOrZero
    /\ RoundTripNeverMints /\ VerifiedNeverExceedsClaim
=============================================================================
