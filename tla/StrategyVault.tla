---------------------------- MODULE StrategyVault ----------------------------
(***************************************************************************)
(* StrategyVault.sol together with the registry it calls.  The vault holds *)
(* the collateral of positions, keeps for each the plaintext deposit and   *)
(* an encrypted collateral, and reports what goes in and out to the        *)
(* registry; a refusal of the registry reverts the whole call.  A position *)
(* has an owner, who opened and may close it, and a beneficiary, under     *)
(* whom the encrypted half is stored.  The encrypted inputs reach the      *)
(* vault as handles the caller has verified itself, or not.                *)
(***************************************************************************)
EXTENDS StrategyRegistry, SequencesExt

CONSTANTS
    Tokens, Vault,
    Amounts, Creators,  \* plaintext amounts and creators explored
    InitialTokens,      \* ERC-20 balance of each account
    MaxTime,            \* bound on the clock
    MaxPositions        \* bound: positions ever opened, by beneficiary

ASSUME VaultAssumption ==
    /\ Vault \in Addresses /\ Vault \notin Accounts
    /\ Amounts \subseteq Nat \ {0} /\ Creators \subseteq Accounts
    /\ InitialTokens \in [Tokens -> [Accounts -> Nat]]
    /\ MaxTime \in Nat /\ MaxPositions \in [Accounts -> Nat]

VARIABLES
    position,           \* by id, the mappings that are not encrypted
    collateral,         \* by account and id: positions[user][id].collateral
    userPositionIds, userPositionNonce,
    vaultPaused,
    bal                 \* external: ERC-20 balances

books     == <<position, collateral, userPositionIds, userPositionNonce>>
vaultVars == <<books, vaultPaused, bal>>
vars      == <<vaultVars, registry, encryptedTvls, now>>

\* keccak256(user, nonce).
PositionIds == UNION { {u} \X (0 .. MaxPositions[u] - 1) : u \in Accounts }

\* The mappings of an id that was never used.
Unused == [deposited |-> 0, token |-> NoAddress, strategyId |-> 0,
           openedAt |-> 0, exists |-> FALSE,
           owner |-> NoAddress, beneficiary |-> NoAddress]

\* The part of them that a full close or a paused withdrawal deletes; owner and
\* beneficiary stay.
Cleared(p) == [p EXCEPT !.deposited = 0, !.token = NoAddress, !.strategyId = 0,
                        !.openedAt = 0, !.exists = FALSE]

Init ==
    /\ RegistryInit
    /\ position = [id \in PositionIds |-> Unused]
    /\ collateral = [u \in Accounts |-> [id \in PositionIds |-> NoHandle]]
    /\ userPositionIds = [u \in Accounts |-> <<>>]
    /\ userPositionNonce = [u \in Accounts |-> 0]
    /\ vaultPaused = FALSE
    /\ bal = [t \in Tokens |-> [h \in Accounts \cup {Vault} |->
                  IF h = Vault THEN 0 ELSE InitialTokens[t][h]]]
    /\ now = 1

-----------------------------------------------------------------------------
PullFrom(t, from, amount) ==
    /\ bal[t][from] >= amount
    /\ bal' = [bal EXCEPT ![t][from] = @ - amount, ![t][Vault] = @ + amount]

PayTo(t, to, amount) ==
    /\ bal[t][Vault] >= amount
    /\ bal' = [bal EXCEPT ![t][Vault] = @ - amount, ![t][to] = @ + amount]

\* whenNotPaused
Live == ~vaultPaused

\* Mutant: the last id is popped without having been swapped in.
DropLast(ids, id) == IF id \in ToSet(ids) THEN Front(ids) ELSE ids

\* _deletePosition: swap with the last id and pop.  An id that is not in the
\* list leaves it alone.
DropId(ids, id) ==
    IF id \in ToSet(ids)
    THEN Front(ReplaceAt(ids, SelectInSeq(ids, LAMBDA x : x = id), Last(ids)))
    ELSE ids

\* Mutant: what is added to a position never reaches its total.
ReportNothing(strategyId, amount, granted) == UNCHANGED encryptedTvls

\* A position without a strategy is not reported.
ReportIn(strategyId, amount, granted) ==
    IF strategyId = 0 THEN UNCHANGED encryptedTvls
                      ELSE IncrementTvl(Vault, strategyId, amount, granted)

ReportOut(strategyId, amount) ==
    IF strategyId = 0 THEN UNCHANGED encryptedTvls
                      ELSE DecrementTvl(Vault, strategyId, amount, TRUE)

-----------------------------------------------------------------------------
OpenPosition(by, t, amount, encAmount, strategyId, user) ==
    /\ Live
    /\ amount # 0
    /\ userPositionNonce[user] < MaxPositions[user]             \* bound
    /\ LET id == <<user, userPositionNonce[user]>>
       IN  /\ position' = [position EXCEPT ![id] =
                  [deposited |-> amount, token |-> t, strategyId |-> strategyId,
                   openedAt |-> now, exists |-> TRUE,
                   owner |-> by, beneficiary |-> user]]
           /\ collateral' = [collateral EXCEPT ![user][id] = encAmount]
           /\ userPositionIds' = [userPositionIds EXCEPT ![user] = Append(@, id)]
    /\ userPositionNonce' = [userPositionNonce EXCEPT ![user] = @ + 1]
    /\ PullFrom(t, by, amount)
    /\ ReportIn(strategyId, encAmount, TRUE)
    /\ UNCHANGED <<registry, vaultPaused, now>>

WithinDeposit(p, amount) == amount # 0 /\ amount <= p.deposited

\* Mutant: only a full close lowers the deposit.
RemainderForgotten(p, amount) == IF amount = p.deposited THEN Cleared(p) ELSE p

\* What is left of a position once part or all of its deposit is paid out.
Remainder(p, amount) ==
    IF amount = p.deposited THEN Cleared(p)
                            ELSE [p EXCEPT !.deposited = @ - amount]

\* Anybody may add, on behalf of anybody.  The vault grants the registry access
\* to the new collateral, not to the amount it reports: that the caller must have
\* done, and the composer does not.
AddCollateral(by, id, t, amount, encAmount, granted, user) ==
    /\ Live
    /\ position[id].exists
    /\ amount # 0
    /\ position[id].token = t
    /\ position' = [position EXCEPT ![id].deposited = @ + amount]
    /\ PullFrom(t, by, amount)
    /\ collateral' = [collateral EXCEPT ![user][id] = SafeIncrease(@, encAmount)]
    /\ ReportIn(position[id].strategyId, encAmount, granted)
    /\ UNCHANGED <<userPositionIds, userPositionNonce, registry, vaultPaused, now>>

ClosePosition(by, id, amount, encAmount) ==
    LET p         == position[id]
        verified  == VerifyEquality(encAmount, amount)
        fullClose == amount = p.deposited
    IN  /\ Live
        /\ p.exists
        /\ WithinDeposit(p, amount)
        /\ p.openedAt < now                                 \* SameBlockClose
        /\ p.owner = by
        /\ position' = [position EXCEPT ![id] = Remainder(p, amount)]
        /\ userPositionIds' =
               IF fullClose
               THEN [userPositionIds EXCEPT ![p.beneficiary] = DropId(@, id)]
               ELSE userPositionIds
        /\ collateral' = [collateral EXCEPT ![p.beneficiary][id] =
               IF fullClose THEN NoHandle ELSE SafeDecrease(@, verified)]
        /\ ReportOut(p.strategyId, verified)
        /\ PayTo(p.token, p.owner, amount)
        /\ UNCHANGED <<userPositionNonce, registry, vaultPaused, now>>

\* The whole deposit goes to the caller, whose own encrypted half is erased and
\* reported; the id stays in the beneficiary's list.
WithdrawPaused(by, id) ==
    LET p == position[id]
    IN  /\ vaultPaused
        /\ p.exists
        /\ p.deposited # 0
        /\ ReportOut(p.strategyId, EnsureInitialized(collateral[by][id]))
        /\ position' = [position EXCEPT ![id] = Cleared(p)]
        /\ collateral' = [collateral EXCEPT ![by][id] = NoHandle]
        /\ PayTo(p.token, by, p.deposited)
        /\ UNCHANGED <<userPositionIds, userPositionNonce, registry,
                       vaultPaused, now>>

PauseVault(on) ==
    /\ vaultPaused # on
    /\ vaultPaused' = on
    /\ UNCHANGED <<books, bal, registry, encryptedTvls, now>>

Tick ==
    /\ now < MaxTime                                            \* bound
    /\ now' = now + 1
    /\ UNCHANGED <<vaultVars, registry, encryptedTvls>>

-----------------------------------------------------------------------------
Deposits(by, user, amount, encAmount) ==
    \E t \in Tokens :
        \/ \E s \in 0 .. strategyCount :
               OpenPosition(by, t, amount, encAmount, s, user)
        \/ \E id \in PositionIds, granted \in BOOLEAN :
               AddCollateral(by, id, t, amount, encAmount, granted, user)

\* A client that has verified its encrypted amount and adds to a position of
\* the user it names.
DepositsInFull(by, user, amount) ==
    \E t \in Tokens :
        \/ \E s \in 0 .. strategyCount :
               OpenPosition(by, t, amount, Ct(amount), s, user)
        \/ \E id \in PositionIds, granted \in BOOLEAN :
              /\ position[id].beneficiary = user
              /\ AddCollateral(by, id, t, amount, Ct(amount), granted, user)

Returns ==
    \E by \in Accounts, id \in PositionIds :
        \/ \E amount \in Amounts : \E e \in {0, amount} :
               ClosePosition(by, id, amount, Ct(e))
        \/ WithdrawPaused(by, id)

RegistryCalls ==
    /\ \/ \E by \in Creators, name \in Names :
             \/ RegisterStrategy(by, name)
             \/ ReceiveCrossChainStrategy(by, name)
       \/ \E by \in Accounts, s \in Slots, on \in BOOLEAN : SetActive(by, s, on)
       \/ \E v \in Addresses : SetVault(v) \/ ProposeVault(v)
       \/ AcceptVault
       \/ \E on \in BOOLEAN : PauseRegistry(on)
    /\ UNCHANGED <<vaultVars, now>>

Others ==
    \/ Returns \/ RegistryCalls \/ Tick
    \/ \E on \in BOOLEAN : PauseVault(on)

Next ==
    \/ \E by, user \in Accounts, amount \in Amounts : \E e \in {0, amount} :
          Deposits(by, user, amount, Ct(e))
    \/ Others

FullyBookedNext ==
    \/ \E by, user \in Accounts, amount \in Amounts :
          DepositsInFull(by, user, amount)
    \/ Others

Spec == Init /\ [][Next]_vars

-----------------------------------------------------------------------------
TypeOK ==
    /\ RegistryTypeOK
    /\ position \in [PositionIds ->
          [deposited : Nat, token : Tokens \cup {NoAddress}, strategyId : Slots,
           openedAt : Nat, exists : BOOLEAN,
           owner : Accounts \cup {NoAddress},
           beneficiary : Accounts \cup {NoAddress}]]
    /\ collateral \in [Accounts -> [PositionIds -> Handle]]
    /\ userPositionIds \in [Accounts -> Seq(PositionIds)]
    /\ userPositionNonce \in [Accounts -> Nat]
    /\ vaultPaused \in BOOLEAN
    /\ bal \in [Tokens -> [Accounts \cup {Vault} -> Nat]]
    /\ now \in Nat

Open == { id \in PositionIds : position[id].exists }

\* The units of a token deposited in open positions.
Deposited(t) ==
    UNION { {id} \X (1 .. position[id].deposited) :
               id \in { i \in Open : position[i].token = t } }

\* Every token the vault holds belongs to an open position and every deposit
\* is there, through top-ups by others, partial closes and paused withdrawals.
DepositsAreHeld == \A t \in Tokens : bal[t][Vault] = Cardinality(Deposited(t))

\* getUserPositions lists every open position of a user once, whatever the swaps
\* have done to the order, and nothing else but ids emptied by a paused
\* withdrawal, which are never open again.
ListsMatchPositions ==
    \A u \in Accounts :
        /\ IsInjective(userPositionIds[u])
        /\ { id \in Open : position[id].beneficiary = u }
               \subseteq ToSet(userPositionIds[u])
        /\ \A id \in ToSet(userPositionIds[u]) :
               /\ position[id].beneficiary = u
               /\ id \notin Open => position[id] = Cleared(position[id])
=============================================================================
