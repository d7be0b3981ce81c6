--------------------------- MODULE PositionReader ---------------------------
(***************************************************************************)
(* The portfolio of the signed-in account (data-fetcher-v2.js, _fetch-     *)
(* Positions and _fetchWalletBalance; transformers.js): encrypted balances *)
(* are read for every lendable token, decrypted when the permit allows it, *)
(* summed, and written beside the wallet's own balance by two requests     *)
(* that answer in any order.  The balance functions of the pool answer     *)
(* with the balance of their caller, and the caller of a multicall is the  *)
(* Multicall3 contract: a reading is the plaintext of one of ITS balances, *)
(* whose handle always exists, or Unread.  A plaintext is divided by       *)
(* Scale, 10 ^ 18, whatever the token: the map of decimals is made of the  *)
(* answer of the API as it came, which is no list of markets.              *)
(***************************************************************************)
EXTENDS BridgeBus, ContractClient, DisplayValues

CONSTANTS
    Tokens,         \* lendable tokens, in the registry's order
    Readings,       \* the readings of a balance
    Scale,          \* how many of the smallest unit make 1: 10 ^ 18
    Natives,        \* the wallet's own balances
    Unread,         \* the reading of a call that failed
    Nothing         \* null

ASSUME ReadingAssumption ==
    /\ Tokens \in Seq(ToSet(Tokens))
    /\ Readings \ {Unread} \subseteq Nat
    /\ Scale \in Nat \ {0}

VARIABLES
    walletBalance,  \* authed.walletBalance: the wallet's balance and the portfolio's
    lastRead        \* <<>>, or the supplies and the debts of the last answer, summed

portfolioVars == <<walletBalance, lastRead>>

NoBalance == [native |-> Nothing, net |-> Nothing, ltv |-> Nothing, gauge |-> Nothing]

PortfolioInit == walletBalance = NoBalance /\ lastRead = <<>>

-----------------------------------------------------------------------------
\* getAllBalances: two calls per token, read back in pairs.
MulticallAnswers(supply, borrow) ==
    LET calls   == PairedCalls(Tokens, "getSupplyBalance", "getBorrowBalance")
        says(c) == IF c.fn = "getSupplyBalance" THEN supply[c.of] ELSE borrow[c.of]
        results == MulticallRead([i \in DOMAIN calls |->
                       [status |-> IF says(calls[i]) = Unread THEN "failure" ELSE "success",
                        result |-> says(calls[i])]])
    IN  [i \in DOMAIN results |-> IF results[i].success THEN results[i].result ELSE Unread]

Handles(answers, j) == <<answers[2 * j - 1], answers[2 * j]>>

HasHandle(reading) == reading # Unread

\* The elements of s at the places in K, in their order.
Kept(s, K) ==
    LET kept[i \in 0 .. Len(s)] == IF i = 0 THEN <<>>
                                   ELSE IF i \in K THEN Append(kept[i - 1], s[i])
                                   ELSE kept[i - 1]
    IN  kept[Len(s)]

\* The handles found, in the tokens' order: the side is 1 or 2.
Held(answers, side) ==
    LET read == [j \in DOMAIN Tokens |-> Handles(answers, j)[side]]
    IN  Kept(read, { j \in DOMAIN Tokens : HasHandle(read[j]) })

\* A zero is shown only while it cannot be told from another amount.
WithoutZeros(held, unlocked1) ==
    IF unlocked1 THEN Kept(held, { j \in DOMAIN held : held[j] # 0 }) ELSE held

Payload(status, items, vault) == [status |-> status, items |-> items, vault |-> vault]

\* _emptyPositionsPayload
EmptyPayload(status) == Payload(status, <<>>, <<>>)

\* The vault's positions, with a collateral each; one that is not decrypted
\* stays in the list without it.
VaultPositions(collaterals, unlocked1) ==
    [i \in DOMAIN collaterals |->
        IF unlocked1 /\ HasHandle(collaterals[i]) THEN collaterals[i] ELSE Nothing]

Sided(held, side) == [i \in DOMAIN held |-> [side |-> side, amount |-> held[i]]]

\* _fetchPositions' fetch.  The bridge b: account, helpers, tokens, unlocked.
FetchPositions(b, supply, borrow, collaterals) ==
    IF ~b.account THEN EmptyPayload("locked")
    ELSE IF ~b.helpers THEN EmptyPayload("unavailable")
    ELSE IF ~b.tokens THEN EmptyPayload("empty")
    ELSE LET answers  == MulticallAnswers(supply, borrow)
             supplies == WithoutZeros(Held(answers, 1), b.unlocked)
             borrows  == WithoutZeros(Held(answers, 2), b.unlocked)
             vault    == VaultPositions(collaterals, b.unlocked)
         IN  IF supplies = <<>> /\ borrows = <<>> /\ vault = <<>>
             THEN EmptyPayload("empty")
             ELSE Payload(IF b.unlocked THEN "ok" ELSE "locked",
                          Sided(supplies, "supply") \o Sided(borrows, "borrow"), vault)

\* The transform: what stays encrypted is not shown.
Transform(payload) ==
    IF payload.status = "ok" THEN payload ELSE [payload EXCEPT !.items = <<>>]

\* The sums of the first 0, 1, .. Len(v) numbers of v.
Sums(v) ==
    LET sum[i \in 0 .. Len(v)] == IF i = 0 THEN 0 ELSE sum[i - 1] + v[i]
    IN  sum

SumAll(v) == Sums(v)[Len(v)]

\* _totals: what is not borrowed is supplied.
Total(items, borrowed) ==
    SumAll([i \in DOMAIN items |->
              IF (items[i].side = "borrow") = borrowed THEN items[i].amount ELSE 0])

\* calculateNetValue, in hundredths: two digits are left, half away from zero.
NetValue(items) ==
    LET net == Total(items, FALSE) - Total(items, TRUE)
    IN  IF net < 0 THEN -Rounded(100 * (-net), Scale) ELSE Rounded(100 * net, Scale)

\* calculateLTV: the ratio, in hundredths of a percent, and the gauge.
LTV(items) ==
    IF Total(items, FALSE) = 0 THEN 0
    ELSE Rounded(10000 * Total(items, TRUE), Total(items, FALSE))

Gauge(items) ==
    IF Total(items, FALSE) = 0 THEN 0
    ELSE Lesser(Rounded(100 * Total(items, TRUE), Total(items, FALSE)), 100)

-----------------------------------------------------------------------------
Bridges == [account : BOOLEAN, helpers : BOOLEAN, tokens : BOOLEAN, unlocked : BOOLEAN]

\* All that the bridge lets the account read, of either kind.
Known(which) ==
    [j \in DOMAIN Tokens |-> IF HasHandle(which[Tokens[j]]) THEN which[Tokens[j]] ELSE 0]

CanRead(b) == b.account /\ b.helpers /\ b.tokens /\ b.unlocked

SumOfRead(b, which) == IF CanRead(b) THEN SumAll(Known(which)) ELSE 0

\* The positions are answered; then the wallet's balance is rewritten.
PositionsAnswer(b, supply, borrow, collaterals) ==
    LET shown == Transform(FetchPositions(b, supply, borrow, collaterals)).items
    IN  /\ authEnabled
        /\ walletBalance' = [walletBalance EXCEPT !.net = NetValue(shown), !.ltv = LTV(shown),
                                                  !.gauge = Gauge(shown)]
        /\ filled' = Apply(Apply(filled, "positions", authEnabled), "walletBalance", authEnabled)
        /\ lastRead' = <<SumOfRead(b, supply), SumOfRead(b, borrow)>>
        /\ UNCHANGED <<authEnabled, wallet, unlocked, errorCount>>

\* A handle that does not decrypt leaves null in the list, and filtering it
\* throws: the whole answer is an error, and the old one stays.
DecryptFails ==
    /\ errorCount' = RecordError(RecordError(errorCount))
    /\ UNCHANGED <<portfolioVars, authEnabled, filled, wallet, unlocked>>

\* Mutant: the balance forgets the portfolio.
BalanceForgets(native) == [NoBalance EXCEPT !.native = native]
BalanceKeeps(native) == [walletBalance EXCEPT !.native = native]

\* _fetchWalletBalance's transform keeps the other half.
WalletBalanceAnswers(native) ==
    /\ authEnabled
    /\ walletBalance' = BalanceKeeps(native)
    /\ filled' = Apply(filled, "walletBalance", authEnabled)
    /\ UNCHANGED <<lastRead, authEnabled, wallet, unlocked, errorCount>>

SignIn == Enable /\ UNCHANGED <<portfolioVars, filled, wallet, unlocked, errorCount>>

SignOut ==
    /\ Disable
    /\ walletBalance' = NoBalance /\ lastRead' = <<>>
    /\ UNCHANGED <<wallet, unlocked, errorCount>>

PortfolioNext ==
    \/ \E b \in Bridges, supply, borrow \in [ToSet(Tokens) -> Readings],
          collaterals \in {<<>>, <<1>>, <<Unread, 0>>} :
             PositionsAnswer(b, supply, borrow, collaterals)
    \/ \E n \in Natives : WalletBalanceAnswers(n)
    \/ DecryptFails \/ SignIn \/ SignOut

-----------------------------------------------------------------------------
\* n is a / b to the nearest whole number.
Near(n, a, b) == 2 * a - b <= 2 * (n * b) /\ 2 * (n * b) <= 2 * a + b

\* What is shown of a reading: its net value and its gauge.
ShowsSums(net, gauge, supplied, borrowed) ==
    /\ net \in Int /\ Near(net, 100 * (supplied - borrowed), Scale)
    /\ gauge \in Nat
    /\ supplied = 0 => gauge = 0
    /\ supplied > 0 => IF borrowed > supplied THEN gauge = 100
                       ELSE Near(gauge, 100 * borrowed, supplied)

\* The portfolio's numbers come from one reading, the last that was answered, and
\* the wallet's balance, which shares their slot, never brings back others or
\* takes them away: the net value is what that reading supplied less what it
\* borrowed, over every token whose balance was read and at 10 ^ 18 for each, to
\* the nearest hundredth, and the gauge is the debt in percent of the supply, full
\* from there on where the debt is greater, and empty where nothing is supplied,
\* whatever is owed.  Whose balances they are is not said here: the caller's, who
\* is not the account (data-fetcher-v2.js:740, 806, 967, 990 and 1090,
\* transformers.js:59 and 264).
PortfolioIsLastRead ==
    IF lastRead = <<>> THEN walletBalance.net = Nothing /\ walletBalance.gauge = Nothing
    ELSE ShowsSums(walletBalance.net, walletBalance.gauge, lastRead[1], lastRead[2])
=============================================================================
