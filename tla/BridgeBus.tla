----------------------------- MODULE BridgeBus -----------------------------
(***************************************************************************)
(* The dApp's event bus and state store (forge-bridge-integration,         *)
(* bridge-bus.js).  Public data is always accepted; authenticated data is  *)
(* dropped while the started bus is not authenticated.  What a key holds   *)
(* is abstracted to whether it holds anything.                             *)
(***************************************************************************)
EXTENDS Naturals, FiniteSets, Sequences, SequencesExt

CONSTANTS MaxErrors     \* _maxErrors

VARIABLES
    authEnabled,    \* the bus is started once, before any script can use it
    filled,         \* the keys of the public and the authed domain with data
    wallet,         \* the wallet domain: connected, and the chain last told
    unlocked,       \* the permit domain
    errorCount      \* meta.errors, by its length

busVars == <<authEnabled, filled, wallet, unlocked, errorCount>>

PublicKeys == {"ticker", "markets", "activities", "readiness"}
AuthedKeys == {"positions", "strategies", "proposals", "community", "templates",
               "nodeTypes", "walletBalance"}

BusTypeOK ==
    /\ authEnabled \in BOOLEAN
    /\ filled \in SUBSET (PublicKeys \cup AuthedKeys)
    /\ wallet \in [connected : BOOLEAN, chain : {"right", "wrong", "none"}]
    /\ unlocked \in BOOLEAN
    /\ errorCount \in 0 .. MaxErrors

BusInit ==
    /\ authEnabled = FALSE /\ filled = {} /\ unlocked = FALSE
    /\ wallet = [connected |-> FALSE, chain |-> "none"]
    /\ errorCount = 0

-----------------------------------------------------------------------------
\* Mutant: authenticated data is stored whether or not the bus accepts it.
ApplyAlways(keys, key, enabled) == keys \cup {key}

\* _applyUpdate, on the data domains.
Apply(keys, key, enabled) ==
    IF key \in AuthedKeys /\ ~enabled THEN keys ELSE keys \cup {key}

\* _recordError: only the latest MaxErrors are kept.
RecordError(count) == IF count < MaxErrors THEN count + 1 ELSE count

\* set, for one data event, an error, and the two whole domains.
SetData(key) == filled' = Apply(filled, key, authEnabled)
SetError == errorCount' = RecordError(errorCount)
SetWallet(connected, chain) == wallet' = [connected |-> connected, chain |-> chain]

\* dispatchBatch: its updates in order.  Each is let in or not by itself, and the
\* latest of the errors are kept.
DispatchBatch(updates) ==
    LET data   == {e \in ToSet(updates) : e # "error"}
        errors == {i \in DOMAIN updates : updates[i] = "error"}
        count  == errorCount + Cardinality(errors)
    IN  /\ filled' = filled \cup UNION {Apply(filled, e, authEnabled) : e \in data}
        /\ errorCount' = IF count < MaxErrors THEN count ELSE MaxErrors
        /\ UNCHANGED <<authEnabled, wallet, unlocked>>

\* enableAuthenticated; listeners of the data already stored hear it again.
Enable == authEnabled' = TRUE

\* disableAuthenticated
Disable == authEnabled' = FALSE /\ filled' = filled \ AuthedKeys

-----------------------------------------------------------------------------
\* Nothing that belongs to a signed-in account is in the store while nobody is
\* signed in, whatever answers arrive late, whoever starts or ends a session
\* and however often (bridge-bus.js:267 and 248).
SignedOutShowsNothing == ~authEnabled => filled \cap AuthedKeys = {}
=============================================================================
