-------------------------- MODULE StrategyRegistry --------------------------
(***************************************************************************)
(* StrategyRegistry.sol: strategies by number, their activity, their       *)
(* encrypted total value locked, and the vault that may move it.  Names,   *)
(* hashes and figures of a strategy are one token of identity; messages to *)
(* other domains are events and left out, their receipt is an action.      *)
(***************************************************************************)
EXTENDS TimelockedRotation, FHESafeMath128

CONSTANTS
    Accounts, Owner,        \* callers, and the one that owns the contracts
    Names,
    MaxStrategies           \* bound: strategies ever registered

ASSUME RegistryAssumption == Owner \in Accounts /\ MaxStrategies \in Nat

VARIABLES
    strategies,         \* by number: creator and whether it is active
    strategyCount,
    idByContentHash,    \* number of a strategy by its content
    encryptedTvls,
    vaultAddress,
    registryPaused

tvls     == encryptedTvls
catalog  == <<strategies, strategyCount, idByContentHash>>
registry == <<catalog, vaultAddress, registryPaused, rotation>>

Slots == 0 .. MaxStrategies

\* A local strategy is found by its creator and name, one of another domain by
\* its name alone: the two hashes never collide.
Contents == (Accounts \X Names) \cup Names

RegistryInit ==
    /\ RotationInit
    /\ strategies = [s \in Slots |-> [creator |-> NoAddress, active |-> FALSE]]
    /\ strategyCount = 0
    /\ idByContentHash = [c \in Contents |-> 0]
    /\ encryptedTvls = [s \in Slots |-> NoHandle]
    /\ vaultAddress = NoAddress
    /\ registryPaused = FALSE

-----------------------------------------------------------------------------
\* _registerStrategy
RegisterStrategy(by, name) ==
    /\ ~registryPaused
    /\ idByContentHash[<<by, name>>] = 0
    /\ strategyCount < MaxStrategies                            \* bound
    /\ LET id == strategyCount + 1
       IN  /\ strategyCount' = id
           /\ idByContentHash' = [idByContentHash EXCEPT ![<<by, name>>] = id]
           /\ strategies' = [strategies EXCEPT
                                ![id] = [creator |-> by, active |-> TRUE]]
           /\ encryptedTvls' = [encryptedTvls EXCEPT ![id] = Zero]
    /\ UNCHANGED <<vaultAddress, registryPaused, rotation>>

\* The number is taken before the count goes up: the strategy lands in the slot
\* of the one registered last, whose total stays, and the new slot is empty.
ReceiveCrossChainStrategy(creator, name) ==
    /\ idByContentHash[name] = 0
    /\ strategyCount < MaxStrategies                            \* bound
    /\ idByContentHash' = [idByContentHash EXCEPT ![name] = strategyCount]
    /\ strategies' = [strategies EXCEPT
                         ![strategyCount] = [creator |-> creator, active |-> TRUE]]
    /\ strategyCount' = strategyCount + 1
    /\ UNCHANGED <<encryptedTvls, vaultAddress, registryPaused, rotation>>

SetActive(by, id, active) ==
    /\ ~registryPaused
    /\ id \in 1 .. strategyCount
    /\ by = strategies[id].creator \/ by = Owner
    /\ strategies' = [strategies EXCEPT ![id].active = active]
    /\ UNCHANGED <<strategyCount, idByContentHash, encryptedTvls,
                   vaultAddress, registryPaused, rotation>>

\* Calls of the owner; acceptVault is open to everybody.
SetVault(v) ==
    /\ v # NoAddress
    /\ vaultAddress = NoAddress
    /\ vaultAddress' = v
    /\ UNCHANGED <<catalog, encryptedTvls, registryPaused, rotation>>

ProposeVault(v) ==
    /\ ProposeRole(v)
    /\ UNCHANGED <<catalog, encryptedTvls, vaultAddress, registryPaused>>

AcceptVault ==
    /\ AcceptRole
    /\ vaultAddress' = pendingRole
    /\ UNCHANGED <<catalog, encryptedTvls, registryPaused>>

PauseRegistry(on) ==
    /\ registryPaused # on
    /\ registryPaused' = on
    /\ UNCHANGED <<catalog, encryptedTvls, vaultAddress, rotation>>

-----------------------------------------------------------------------------
(* Calls of the vault.  They are refused to any other sender, for an       *)
(* inactive strategy, in both directions, and for an amount the registry   *)
(* has not been granted access to; pausing does not stop them.             *)

Accepts(sender, id, granted) ==
    /\ sender = vaultAddress
    /\ id \in 1 .. strategyCount
    /\ strategies[id].active
    /\ granted

IncrementTvl(sender, id, amount, granted) ==
    /\ Accepts(sender, id, granted)
    /\ encryptedTvls' = [encryptedTvls EXCEPT
                            ![id] = SafeIncrease(EnsureInitialized(@), amount)]

DecrementTvl(sender, id, amount, granted) ==
    /\ Accepts(sender, id, granted)
    /\ encryptedTvls' = [encryptedTvls EXCEPT
                            ![id] = SafeDecrease(EnsureInitialized(@), amount)]

RegistryTypeOK ==
    /\ RotationTypeOK
    /\ strategies \in [Slots -> [creator : Accounts \cup {NoAddress},
                                 active : BOOLEAN]]
    /\ strategyCount \in Slots
    /\ idByContentHash \in [Contents -> Slots]
    /\ encryptedTvls \in [Slots -> Handle]
    /\ vaultAddress \in Addresses \cup {NoAddress}
    /\ registryPaused \in BOOLEAN
=============================================================================
