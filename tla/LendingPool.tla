----------------------------- MODULE LendingPool -----------------------------
(***************************************************************************)
(* LendingPool.sol without its commit-reveal half (LendingCommitReveal     *)
(* adds that).  One action per external function; an action is one         *)
(* transaction that succeeds, a transaction that reverts changes nothing.  *)
(* nonReentrant makes the calls atomic: a flash loan's borrower can do     *)
(* nothing guarded in its callback, so the loan is one step.               *)
(*                                                                         *)
(* Prices and factors are whatever the oracle answers at that moment, so   *)
(* they are inputs of the calls that read them.  A decryption proof is the *)
(* number under the current handle, and the threshold network signs it     *)
(* only after the contract made that handle public.                        *)
(***************************************************************************)
EXTENDS FHESafeMath128

CONSTANTS
    Tokens, WETH,           \* ERC-20 contracts; weth is WETH when it is set
    Users, Composer, Pool,  \* accounts: callers, the composer, this contract
    BPS_DEN, LIQUIDATION_BONUS_BPS, LIQUIDATION_CLOSE_FACTOR_BPS,
    FLASH_FEE_BPS, REVEAL_COOLDOWN,
    \* the inputs enumerated
    Amounts,                \* plaintext amounts
    LtvRatios,              \* pairs <<ltvNum, ltvDen>>
    Prices, LtvBps,         \* oracle answers
    Suppliers, Borrowers,   \* pairs <<token, user>> whose calls are explored
    OwnerCalls,             \* owner functions explored
    Transfers,              \* pairs <<from, to>> of plain ERC-20 transfers
    \* the deployed instance and the bounds
    Configured,             \* have setOracle, setWeth, setComposer been called
    InitialTokens,          \* ERC-20 balance of each account
    InitialEth,             \* ether of each user
    MaxTime, MaxLent,       \* bounds on the clock and on totalPlainBorrow
    MaxAmount               \* bound: the largest amount that can be moved

Accounts == Users \cup {Composer}
Holders  == Accounts \cup {Pool}

ASSUME PoolAssumption ==
    /\ WETH \in Tokens
    /\ Composer \notin Users /\ Pool \notin Accounts
    /\ BPS_DEN \in Nat \ {0}
    /\ LIQUIDATION_BONUS_BPS \in Nat
    /\ LIQUIDATION_CLOSE_FACTOR_BPS \in 0 .. BPS_DEN
    /\ FLASH_FEE_BPS \in 0 .. BPS_DEN
    /\ REVEAL_COOLDOWN \in Nat
    /\ Amounts \subseteq 1 .. MaxAmount /\ Modulus - 1 <= MaxAmount
    /\ Prices \subseteq Nat \ {0} /\ LtvBps \subseteq 0 .. BPS_DEN
    /\ LtvRatios \subseteq Nat \X Nat
    /\ Suppliers \subseteq Tokens \X Users /\ Borrowers \subseteq Tokens \X Users
    /\ OwnerCalls \subseteq {"pause", "oracle", "weth", "composer"}
    /\ Transfers \subseteq Accounts \X Holders
    /\ Configured \in BOOLEAN
    /\ InitialTokens \in [Tokens -> [Accounts -> Nat]]
    /\ InitialEth \in [Users -> Nat]
    /\ MaxTime \in Nat /\ MaxLent \in Nat /\ MaxAmount \in Nat

VARIABLES
    supplyBalances, borrowBalances,     \* encrypted, by token and user
    totalPlainBorrow, liquidReserve,    \* plaintext, by token
    revealed,               \* <<kind, token, user>> whose handle is public
    lastRevealTime,         \* by user and token
    paused, oracle, weth, isComposer,   \* which of them are set
    bal, eth,               \* external: ERC-20 balances, ether of the users
    now                     \* block.timestamp

ledger  == <<supplyBalances, borrowBalances, totalPlainBorrow, liquidReserve>>
reveals == <<revealed, lastRevealTime>>
config  == <<paused, oracle, weth, isComposer>>
wallets == <<bal, eth>>
vars    == <<ledger, reveals, config, wallets, now>>

Init ==
    /\ supplyBalances = [t \in Tokens |-> [u \in Users |-> NoHandle]]
    /\ borrowBalances = [t \in Tokens |-> [u \in Users |-> NoHandle]]
    /\ totalPlainBorrow = [t \in Tokens |-> 0]
    /\ liquidReserve = [t \in Tokens |-> 0]
    /\ revealed = {}
    /\ lastRevealTime = [u \in Users |-> [t \in Tokens |-> 0]]
    /\ paused = FALSE
    /\ oracle = Configured /\ weth = Configured /\ isComposer = Configured
    /\ bal = [t \in Tokens |-> [h \in Holders |->
                  IF h = Pool THEN 0 ELSE InitialTokens[t][h]]]
    /\ eth = InitialEth
    /\ now = REVEAL_COOLDOWN        \* block.timestamp is far above one hour

-----------------------------------------------------------------------------
(* Building blocks: one per paragraph the functions of the contract share. *)

Supply(t, u) == EnsureInitialized(supplyBalances[t][u])
Debt(t, u)   == EnsureInitialized(borrowBalances[t][u])

\* A new handle is stored: nobody has made it public yet.
StoreSupply(t, u, x) ==
    /\ supplyBalances' = [supplyBalances EXCEPT ![t][u] = x]
    /\ revealed' = revealed \ {<<"supply", t, u>>}

StoreDebt(t, u, x) ==
    /\ borrowBalances' = [borrowBalances EXCEPT ![t][u] = x]
    /\ revealed' = revealed \ {<<"borrow", t, u>>}

\* Mutant: a proof is taken for a handle nobody made public.
VerifyAnyResult(kind, t, u, x, proof) == proof = x.v

\* FHE.verifyDecryptResult on the handle stored now; _ZERO is shared by every
\* empty position, so anyone may have made it public.
VerifyDecryptResult(kind, t, u, x, proof) ==
    /\ proof = x.v
    /\ x.kind = "zero" \/ <<kind, t, u>> \in revealed

\* ERC-20 movements in and out of the pool.
PullFrom(t, from, amount) ==
    /\ bal[t][from] >= amount
    /\ bal' = [bal EXCEPT ![t][from] = @ - amount, ![t][Pool] = @ + amount]
    /\ UNCHANGED eth

PayTo(t, to, amount) ==
    /\ bal[t][Pool] >= amount
    /\ bal' = [bal EXCEPT ![t][Pool] = @ - amount, ![t][to] = @ + amount]
    /\ UNCHANGED eth

\* Mutant: the ether is taken and never turned into WETH.
WrapNothing(u, amount) ==
    /\ eth[u] >= amount
    /\ eth' = [eth EXCEPT ![u] = @ - amount]
    /\ UNCHANGED bal

\* weth.deposit{value} and weth.withdraw followed by the call with value.
WrapFrom(u, amount) ==
    /\ eth[u] >= amount
    /\ eth' = [eth EXCEPT ![u] = @ - amount]
    /\ bal' = [bal EXCEPT ![WETH][Pool] = @ + amount]

UnwrapTo(u, amount) ==
    /\ bal[WETH][Pool] >= amount
    /\ bal' = [bal EXCEPT ![WETH][Pool] = @ - amount]
    /\ eth' = [eth EXCEPT ![u] = @ + amount]

\* The reserve grows by a deposit, by a repayment of plaintext debt, shrinks by
\* a payout that must leave the debt covered, or by a loan.
AddReserve(t, amount) ==
    /\ liquidReserve' = [liquidReserve EXCEPT ![t] = @ + amount]
    /\ UNCHANGED totalPlainBorrow

\* Mutant: the payout may take the liquidity that covers the debt.
ReleaseUncovered(t, amount) ==
    /\ liquidReserve[t] >= amount
    /\ liquidReserve' = [liquidReserve EXCEPT ![t] = @ - amount]
    /\ UNCHANGED totalPlainBorrow

ReleaseReserve(t, amount) ==
    /\ liquidReserve[t] >= amount
    /\ liquidReserve[t] - amount >= totalPlainBorrow[t]
    /\ liquidReserve' = [liquidReserve EXCEPT ![t] = @ - amount]
    /\ UNCHANGED totalPlainBorrow

LendReserve(t, amount) ==
    /\ liquidReserve[t] >= amount
    /\ totalPlainBorrow[t] + amount <= MaxLent              \* bound
    /\ totalPlainBorrow' = [totalPlainBorrow EXCEPT ![t] = @ + amount]
    /\ liquidReserve' = [liquidReserve EXCEPT ![t] = @ - amount]

RepayReserve(t, amount) ==
    /\ totalPlainBorrow[t] >= amount            \* checked subtraction
    /\ totalPlainBorrow' = [totalPlainBorrow EXCEPT ![t] = @ - amount]
    /\ liquidReserve' = [liquidReserve EXCEPT ![t] = @ + amount]

\* The encrypted halves of the four movements.
CreditSupply(t, u, verified) ==
    /\ StoreSupply(t, u, SafeIncrease(supplyBalances[t][u], verified))
    /\ UNCHANGED borrowBalances

DebitSupply(t, u, verified) ==
    /\ StoreSupply(t, u, SafeDecrease(supplyBalances[t][u], verified))
    /\ UNCHANGED borrowBalances

RecordDebt(t, u, verified) ==
    /\ StoreDebt(t, u, SafeIncrease(borrowBalances[t][u], verified))
    /\ UNCHANGED supplyBalances

CancelDebt(t, u, verified) ==
    /\ StoreDebt(t, u, SafeDecrease(borrowBalances[t][u], verified))
    /\ UNCHANGED supplyBalances

\* Mutant: the modifier whenNotPaused is missing.
LiveUnlessNothing == UNCHANGED <<lastRevealTime, config, now>>

\* whenNotPaused, and what every call behind it leaves alone.
Live == ~paused /\ UNCHANGED <<lastRevealTime, config, now>>

\* borrowWithLtvCheck and executeBorrow after the amount is known.  The handle
\* of a select is compared with the handle _ZERO.
BorrowAgainst(u, collateralToken, borrowToken, amount, verified, num, den) ==
    LET newBorrow == FheAdd(Debt(borrowToken, u), verified)
        lhs       == FheMul(newBorrow, AsEuint128(den))
        rhs       == FheMul(Supply(collateralToken, u), AsEuint128(num))
        actual    == Select(lhs.v <= rhs.v, verified, Zero)
    IN  /\ StoreDebt(borrowToken, u,
                     SafeIncrease(Debt(borrowToken, u), actual))
        /\ UNCHANGED supplyBalances
        /\ IF actual # Zero
           THEN LendReserve(borrowToken, amount) /\ PayTo(borrowToken, u, amount)
           ELSE UNCHANGED <<totalPlainBorrow, liquidReserve, wallets>>

ValidLtv(num, den) == den # 0 /\ num # 0 /\ num <= den

-----------------------------------------------------------------------------
(* Calls by users, with the plaintext amount beside the encrypted one.     *)

Shield(u, t, amount, enc) ==
    LET verified == VerifyEquality(enc, amount)
    IN  /\ Live
        /\ verified # Zero
        /\ PullFrom(t, u, amount)
        /\ AddReserve(t, amount)
        /\ CreditSupply(t, u, verified)

BorrowWithLtvCheck(u, collateralToken, borrowToken, amount, enc, num, den) ==
    LET verified == VerifyEquality(enc, amount)
    IN  /\ Live
        /\ ValidLtv(num, den)
        /\ verified # Zero
        /\ BorrowAgainst(u, collateralToken, borrowToken, amount, verified,
                         num, den)

RepayDebt(u, t, amount, enc) ==
    LET verified == VerifyEquality(enc, amount)
    IN  /\ Live
        /\ verified # Zero
        /\ PullFrom(t, u, amount)
        /\ RepayReserve(t, amount)
        /\ CancelDebt(t, u, verified)

\* _withdrawCore
WithdrawCore(u, t, amount, enc) ==
    LET verified == VerifyEquality(enc, amount)
    IN  /\ verified # Zero
        /\ ReleaseReserve(t, amount)
        /\ DebitSupply(t, u, verified)

PartialUnshield(u, t, amount, enc) ==
    Live /\ WithdrawCore(u, t, amount, enc) /\ PayTo(t, u, amount)

ShieldEth(u, amount, enc) ==
    LET verified == VerifyEquality(enc, amount)
    IN  /\ Live
        /\ weth
        /\ AddReserve(WETH, amount)
        /\ verified # Zero
        /\ CreditSupply(WETH, u, verified)
        /\ WrapFrom(u, amount)

PartialUnshieldEth(u, amount, enc) ==
    Live /\ weth /\ WithdrawCore(u, WETH, amount, enc) /\ UnwrapTo(u, amount)

-----------------------------------------------------------------------------
(* Reveals and the exits that spend a decryption proof.                    *)

\* FHE.allowPublic on a position's handle; for an empty position it is _ZERO.
Publish(kind, t, u, x) ==
    /\ revealed' = IF x.kind = "ct" THEN revealed \cup {<<kind, t, u>>}
                                    ELSE revealed
    /\ UNCHANGED <<ledger, config, wallets, now>>

Cooled(t, u) ==
    /\ now >= lastRevealTime[u][t] + REVEAL_COOLDOWN
    /\ lastRevealTime' = [lastRevealTime EXCEPT ![u][t] = now]

RequestBalanceReveal(u, t) ==
    Cooled(t, u) /\ Publish("supply", t, u, Supply(t, u))

RequestBorrowReveal(u, t) ==
    Cooled(t, u) /\ Publish("borrow", t, u, Debt(t, u))

RequestUnshield(u, t) ==
    Publish("supply", t, u, Supply(t, u)) /\ UNCHANGED lastRevealTime

UnshieldWithProof(u, t, proof) ==
    /\ Live
    /\ VerifyDecryptResult("supply", t, u, Supply(t, u), proof)
    /\ proof # 0
    /\ ReleaseReserve(t, proof)
    /\ StoreSupply(t, u, Zero)
    /\ UNCHANGED borrowBalances
    /\ PayTo(t, u, proof)

WithdrawPausedWithProof(u, t, proof) ==
    /\ paused
    /\ VerifyDecryptResult("supply", t, u, Supply(t, u), proof)
    /\ proof # 0
    /\ ReleaseReserve(t, proof)
    /\ supplyBalances' = [supplyBalances EXCEPT ![t][u] = Zero]
    /\ borrowBalances' = [borrowBalances EXCEPT ![t][u] = Zero]
    /\ revealed' = revealed \ {<<"supply", t, u>>, <<"borrow", t, u>>}
    /\ PayTo(t, u, proof)
    /\ UNCHANGED <<lastRevealTime, config, now>>

-----------------------------------------------------------------------------
(* Oracle-gated calls.  "usd" prices one unit of a token.                  *)

OracleHealthy(ltv, collUsd, collateral, debtUsd, borrowed) ==
    ltv # 0 /\ collateral * collUsd * ltv >= borrowed * debtUsd * BPS_DEN

\* The collateral amount is the caller's word.
BorrowWithOracle(u, borrowToken, collateral, amount, enc, ltv, collUsd, debtUsd) ==
    LET verified == VerifyEquality(enc, amount)
    IN  /\ Live
        /\ oracle
        /\ OracleHealthy(ltv, collUsd, collateral, debtUsd, amount)
        /\ verified # Zero
        /\ LendReserve(borrowToken, amount)
        /\ RecordDebt(borrowToken, u, verified)
        /\ PayTo(borrowToken, u, amount)

LiquidationCover(userDebt, debtToCover) ==
    LET maxLiquidation ==
            (userDebt * LIQUIDATION_CLOSE_FACTOR_BPS) \div BPS_DEN
    IN  IF debtToCover > maxLiquidation THEN maxLiquidation ELSE debtToCover

SeizedCollateral(cover, collUsd, debtUsd, userCollateral) ==
    LET seized == (cover * collUsd * (BPS_DEN + LIQUIDATION_BONUS_BPS))
                      \div (debtUsd * BPS_DEN)
    IN  IF seized > userCollateral THEN userCollateral ELSE seized

LiquidateWithProof(by, u, c, d, debtToCover, ltv, collUsd, debtUsd) ==
    LET debt       == Debt(d, u)
        collateral == Supply(c, u)
        cover      == LiquidationCover(debt.v, debtToCover)
        seized     == SeizedCollateral(cover, collUsd, debtUsd, collateral.v)
    IN  /\ Live
        /\ oracle
        /\ c # d /\ u # by
        /\ VerifyDecryptResult("borrow", d, u, debt, debt.v)
        /\ VerifyDecryptResult("supply", c, u, collateral, collateral.v)
        /\ OracleHealthy(ltv, collUsd, collateral.v, debtUsd, debt.v - cover)
        /\ totalPlainBorrow[d] >= cover         \* checked subtractions
        /\ liquidReserve[c] >= seized
        /\ bal[d][by] >= cover /\ bal[c][Pool] >= seized
        /\ totalPlainBorrow' = [totalPlainBorrow EXCEPT ![d] = @ - cover]
        /\ liquidReserve' = [liquidReserve EXCEPT ![d] = @ + cover,
                                                  ![c] = @ - seized]
        /\ borrowBalances' = [borrowBalances EXCEPT ![d][u] =
                                  SafeDecrease(debt, AsEuint128(cover))]
        /\ supplyBalances' = [supplyBalances EXCEPT ![c][u] =
                                  SafeDecrease(collateral, AsEuint128(seized))]
        /\ revealed' = revealed \ {<<"borrow", d, u>>, <<"supply", c, u>>}
        /\ bal' = [bal EXCEPT ![d][by] = @ - cover,  ![d][Pool] = @ + cover,
                              ![c][Pool] = @ - seized, ![c][by] = @ + seized]
        /\ UNCHANGED eth

\* The fee of flashFee and flashLoan, and isLiquidatable of a position.
FlashFee(amount) == (amount * FLASH_FEE_BPS) \div BPS_DEN

IsLiquidatable(ltv, collUsd, collateral, debtUsd, borrowed) ==
    /\ collateral # 0 /\ borrowed # 0 /\ ltv # 0
    /\ collateral * collUsd * ltv < borrowed * debtUsd * BPS_DEN

\* The loan goes out and comes back with the fee within the call; the borrower
\* needs only the fee of its own.
FlashLoan(receiver, t, amount) ==
    /\ Live
    /\ liquidReserve[t] >= amount
    /\ bal[t][Pool] >= amount
    /\ PullFrom(t, receiver, FlashFee(amount))
    /\ AddReserve(t, FlashFee(amount))
    /\ UNCHANGED <<supplyBalances, borrowBalances, revealed>>

-----------------------------------------------------------------------------
(* Calls by the composer (FheForgeComposer, StrategyExecutor), which hands *)
(* over the result of its own _verifyEquality on the same inputs.          *)

DepositFor(t, amount, enc, u) ==
    /\ Live /\ isComposer
    /\ AddReserve(t, amount)
    /\ PullFrom(t, Composer, amount)
    /\ CreditSupply(t, u, VerifyEquality(enc, amount))

BorrowFor(t, amount, enc, u) ==
    /\ Live /\ isComposer
    /\ LendReserve(t, amount)
    /\ RecordDebt(t, u, VerifyEquality(enc, amount))
    /\ PayTo(t, Composer, amount)

RepayFor(t, amount, enc, u) ==
    /\ Live /\ isComposer
    /\ RepayReserve(t, amount)
    /\ PullFrom(t, Composer, amount)
    /\ CancelDebt(t, u, VerifyEquality(enc, amount))

-----------------------------------------------------------------------------
(* Calls by the owner, and the environment.                                *)

SetPaused(flag) ==
    /\ paused = ~flag
    /\ paused' = flag
    /\ UNCHANGED <<ledger, reveals, oracle, weth, isComposer, wallets, now>>

SetOracle(flag) ==
    /\ oracle' = flag
    /\ UNCHANGED <<ledger, reveals, paused, weth, isComposer, wallets, now>>

SetWeth(flag) ==
    /\ weth' = flag
    /\ UNCHANGED <<ledger, reveals, paused, oracle, isComposer, wallets, now>>

SetComposer(flag) ==
    /\ isComposer' = flag
    /\ UNCHANGED <<ledger, reveals, paused, oracle, weth, wallets, now>>

\* ERC-20 transfers that do not pass through the pool's functions.
Transfer(t, from, to, amount) ==
    /\ from # to
    /\ bal[t][from] >= amount
    /\ bal' = [bal EXCEPT ![t][from] = @ - amount, ![t][to] = @ + amount]
    /\ UNCHANGED <<ledger, reveals, config, eth, now>>

Tick ==
    /\ now < MaxTime                                        \* bound
    /\ now' = now + 1
    /\ UNCHANGED <<ledger, reveals, config, wallets>>

-----------------------------------------------------------------------------
\* Encrypted inputs: the claimed amount and one other number.
EncInputs(amount) == {Ct(amount % Modulus), Ct((amount + 1) % Modulus)}

SupplyCalls(t, u) ==
    \/ \E amount \in Amounts : \E enc \in EncInputs(amount) :
          \/ Shield(u, t, amount, enc)
          \/ PartialUnshield(u, t, amount, enc)
          \/ t = WETH /\ ShieldEth(u, amount, enc)
          \/ t = WETH /\ PartialUnshieldEth(u, amount, enc)
          \/ DepositFor(t, amount, enc, u)
    \/ RequestBalanceReveal(u, t)
    \/ RequestUnshield(u, t)
    \/ \E proof \in Plain : \/ UnshieldWithProof(u, t, proof)
                            \/ WithdrawPausedWithProof(u, t, proof)

BorrowCalls(t, u) ==
    \/ \E amount \in Amounts : \E enc \in EncInputs(amount) :
          \/ RepayDebt(u, t, amount, enc)
          \/ BorrowFor(t, amount, enc, u)
          \/ RepayFor(t, amount, enc, u)
          \/ \E c \in Tokens, ratio \in LtvRatios :
                BorrowWithLtvCheck(u, c, t, amount, enc, ratio[1], ratio[2])
          \/ \E collateral \in Amounts, ltv \in LtvBps, pc, pd \in Prices :
                BorrowWithOracle(u, t, collateral, amount, enc, ltv, pc, pd)
    \/ RequestBorrowReveal(u, t)
    \/ \E by \in Users, c \in Tokens, toCover \in Amounts,
          ltv \in LtvBps, pc, pd \in Prices :
          LiquidateWithProof(by, u, c, t, toCover, ltv, pc, pd)

Owner ==
    \E flag \in BOOLEAN :
        \/ "pause" \in OwnerCalls /\ SetPaused(flag)
        \/ "oracle" \in OwnerCalls /\ SetOracle(flag)
        \/ "weth" \in OwnerCalls /\ SetWeth(flag)
        \/ "composer" \in OwnerCalls /\ SetComposer(flag)

Environment ==
    \/ Tick
    \/ \E t \in Tokens, way \in Transfers, amount \in Amounts :
          Transfer(t, way[1], way[2], amount)

Next ==
    \/ \E p \in Suppliers : SupplyCalls(p[1], p[2])
    \/ \E p \in Borrowers : BorrowCalls(p[1], p[2])
    \/ \E t \in Tokens, r \in Users, amount \in Amounts : FlashLoan(r, t, amount)
    \/ Owner
    \/ Environment

Spec == Init /\ [][Next]_vars

-----------------------------------------------------------------------------
TypeOK ==
    /\ supplyBalances \in [Tokens -> [Users -> Handle]]
    /\ borrowBalances \in [Tokens -> [Users -> Handle]]
    /\ totalPlainBorrow \in [Tokens -> Nat]
    /\ liquidReserve \in [Tokens -> Nat]
    /\ revealed \subseteq {"supply", "borrow"} \X Tokens \X Users
    /\ lastRevealTime \in [Users -> [Tokens -> Nat]]
    /\ paused \in BOOLEAN /\ oracle \in BOOLEAN
    /\ weth \in BOOLEAN /\ isComposer \in BOOLEAN
    /\ bal \in [Tokens -> [Holders -> Nat]]
    /\ eth \in [Users -> Nat]
    /\ now \in Nat

-----------------------------------------------------------------------------
\* The bookkeeping LendingLedger promises, read off this state.
Ledger ==
    INSTANCE LendingLedger WITH
        cash    <- [t \in Tokens |-> bal[t][Pool]],
        reserve <- liquidReserve,
        lent    <- totalPlainBorrow,
        supply  <- [t \in Tokens |-> [u \in Users |-> supplyBalances[t][u].v]],
        debt    <- [t \in Tokens |-> [u \in Users |-> borrowBalances[t][u].v]]

\* Every call of the contract is one of the ledger's movements or none, whatever
\* the caller encrypts, and so keeps everything LendingLedger shows.
ImplementsLedger == Ledger!Spec

\* The tokens counted in liquidReserve are in the contract's hands.
PoolSolvent == \A t \in Tokens : liquidReserve[t] <= bal[t][Pool]

\* While the pool is paused the books change only by one user's emergency exit,
\* which pays that user exactly the supply it erases: no other entry point
\* forgot its whenNotPaused.
PausedPoolOnlyPaysExits ==
    [][paused /\ ledger' # ledger =>
          \E t \in Tokens, u \in Users :
              LET paid == supplyBalances[t][u].v
              IN  /\ paid > 0
                  /\ supplyBalances' = [supplyBalances EXCEPT ![t][u] = Zero]
                  /\ liquidReserve' = [liquidReserve EXCEPT ![t] = @ - paid]
                  /\ bal'[t][u] = bal[t][u] + paid
                  /\ totalPlainBorrow' = totalPlainBorrow]_vars

\* Nobody takes a user's supply without that user having published it: a supply
\* that shrinks while its owner receives nothing was public, and so was a debt
\* of the same user.
SeizureNeedsReveal ==
    [][\A t \in Tokens, u \in Users :
          /\ supplyBalances'[t][u].v < supplyBalances[t][u].v
          /\ bal'[t][u] <= bal[t][u] /\ eth'[u] <= eth[u]
          => /\ <<"supply", t, u>> \in revealed
             /\ \E d \in Tokens \ {t} : <<"borrow", d, u>> \in revealed]_vars

-----------------------------------------------------------------------------
(* What the documentation says of single calls.                            *)

\* docs/CHANGELOG.md: _verifyEquality gates the transfer of tokens, an encrypted
\* amount other than the plaintext one reverts.  A withdrawal with such an input
\* moves no tokens.
MismatchMovesNoTokens ==
    [][\A u \in Users, t \in Tokens, amount \in Amounts :
          \A enc \in EncInputs(amount) :
              enc.v # amount % Modulus /\ PartialUnshield(u, t, amount, enc)
                  => bal' = bal]_vars

\* forge-bridge's liquidateWithProof: the call liquidates an undercollateralized
\* position.  A liquidation that moves tokens meets a position isLiquidatable
\* answers true for.
LiquidatesOnlyUnhealthy ==
    [][\A by, u \in Users, c, d \in Tokens, toCover \in Amounts,
          ltv \in LtvBps, pc, pd \in Prices :
          LiquidateWithProof(by, u, c, d, toCover, ltv, pc, pd) /\ bal' # bal
              => IsLiquidatable(ltv, pc, Supply(c, u).v, pd, Debt(d, u).v)]_vars

\* scripts/deploy-faucet-tokens.ts: a liquidation bonus of 5%.  The collateral
\* seized is worth at most the debt repaid and the bonus on it.
SeizureWithinBonus ==
    [][\A by, u \in Users, c, d \in Tokens, toCover \in Amounts,
          ltv \in LtvBps, pc, pd \in Prices :
          LiquidateWithProof(by, u, c, d, toCover, ltv, pc, pd)
              => (liquidReserve[c] - liquidReserve'[c]) * pc * BPS_DEN
                    <= (liquidReserve'[d] - liquidReserve[d]) * pd
                           * (BPS_DEN + LIQUIDATION_BONUS_BPS)]_vars
=============================================================================
