---------------------------- MODULE DisplayValues ----------------------------
(***************************************************************************)
(* What the screens make of the values the bus holds: the transformers of  *)
(* the integration package, the status helpers, and the pure functions of  *)
(* the screens and of their components.  A field of an answer is <<>> when *)
(* it is null or empty and <<v>> otherwise; numbers are in hundredths, so  *)
(* that One is the number 1; formatting is left out.                       *)
(***************************************************************************)
EXTENDS Integers, FiniteSets, SequencesExt

One == 100
Lesser(a, b) == IF a < b THEN a ELSE b
Greater(a, b) == IF a > b THEN a ELSE b

\* The first of the fields that is there.  A default that is named last is looked
\* up like a field, and not found.
Pick(raw, keys) ==
    LET there == SelectSeq(keys, LAMBDA k : k \in DOMAIN raw /\ raw[k] # <<>>)
    IN  IF there = <<>> THEN <<>> ELSE raw[Head(there)]

PickOr(raw, keys, default) ==
    LET v == Pick(raw, keys) IN IF v = <<>> THEN default ELSE v[1]

-----------------------------------------------------------------------------
(* transformers.js *)

\* n / d to the nearest whole number.
Rounded(n, d) == (2 * n + d) \div (2 * d)

\* A number up to 1 is a share, a greater one is a percentage already.
FormatApy(v) == IF v = <<>> THEN <<>> ELSE <<IF v[1] <= One THEN v[1] * 100 ELSE v[1]>>
FormatPercentValue(v) ==
    IF v = <<>> THEN 0
    ELSE Rounded(IF v[1] \in 1 .. One THEN v[1] * 100 ELSE v[1], One) * One

TransformMarket(m) ==
    [ asset     |-> Pick(m, <<"asset", "symbol", "UNKNOWN">>),
      supplyApy |-> FormatApy(Pick(m, <<"supplyAPY", "supplyRate", "supplyApy">>)),
      borrowApy |-> FormatApy(Pick(m, <<"borrowAPY", "borrowRate", "borrowApy">>)),
      util      |-> FormatPercentValue(Pick(m, <<"util", "utilization">>)),
      liq       |-> FormatPercentValue(Pick(m, <<"liq", "liquidationThreshold">>)),
      tvl       |-> Pick(m, <<"tvl", "totalSupplyUsd", "totalSupply">>) ]

\* The first market of the asset, whatever it knows.  The rates of an answer are
\* numbers or null.
LookupApy(markets, asset, side) ==
    LET of == SelectSeq(markets, LAMBDA m : Pick(m, <<"asset", "symbol">>) = <<asset>>)
    IN  IF of = <<>> THEN <<>>
        ELSE FormatApy(Pick(Head(of), IF side = "supply"
                                      THEN <<"supplyAPY", "supplyRate", "supplyApy">>
                                      ELSE <<"borrowAPY", "borrowRate", "borrowApy">>))

MapPosition(item, side, markets) ==
    [ side |-> side, asset |-> PickOr(item, <<"asset">>, "UNKNOWN"),
      amount |-> PickOr(item, <<"amountUsd", "amount">>, 0),
      apy |-> LookupApy(markets, PickOr(item, <<"asset">>, ""), side) ]

TransformPositions(supplies, borrows, markets) ==
    [i \in DOMAIN supplies |-> MapPosition(supplies[i], "supply", markets)]
        \o [i \in DOMAIN borrows |-> MapPosition(borrows[i], "borrow", markets)]

SumOf(items, sides) ==
    FoldLeft(LAMBDA sum, item : IF item.side \in sides THEN sum + item.amount ELSE sum, 0, items)

\* Whatever is not a borrow counts as a supply.
Totals(items) == [ supply |-> SumOf(items, {p.side : p \in ToSet(items)} \ {"borrow"}),
                   borrow |-> SumOf(items, {"borrow"}) ]

CalculateNetValue(items) == Totals(items).supply - Totals(items).borrow

\* Debt without a supply shows no debt at all.
CalculateLTV(items) ==
    LET t == Totals(items)
    IN  IF t.supply = 0 THEN 0 ELSE Lesser(Rounded(t.borrow * 100, t.supply), 100)

\* One unit, rounded down; what is still to come is "0s".
RelativeTime(seconds) ==
    LET of(n, unit) == [n |-> n, unit |-> unit] IN
    CASE seconds < 0                 -> of(0, "s")
      [] seconds \in 0 .. 59         -> of(seconds, "s")
      [] seconds \in 60 .. 3599      -> of(seconds \div 60, "m")
      [] seconds \in 3600 .. 86399   -> of(seconds \div 3600, "h")
      [] seconds >= 86400            -> of(seconds \div 86400, "d")

\* A proposal that has a deadline shows how long ago it was.
TimeLeft(deadline, now) == IF deadline = <<>> THEN <<>> ELSE <<RelativeTime(now - deadline[1])>>

\* transformNodeTypes: the modules of a known action under their own id, the last
\* of an id only; then each action in turn that none has any more, under its name.
NodeActions == <<"supply", "borrow", "swap", "repeat", "settle">>
Under(types, id, action) ==
    [i \in DOMAIN types \cup {id} |-> IF i = id THEN action ELSE types[i]]
TransformNodeTypes(modules) ==
    LET given == FoldLeft(LAMBDA types, m : Under(types, m.id, m.action), <<>>,
                          SelectSeq(modules, LAMBDA m : m.action \in ToSet(NodeActions)))
    IN  FoldLeft(LAMBDA types, a : IF \E id \in DOMAIN types : types[id] = a THEN types
                                   ELSE Under(types, a, a), given, NodeActions)

-----------------------------------------------------------------------------
(* status-badge.js, bridge-helpers.js, dashboard.jsx, governance.jsx, landing.jsx *)

\* STATUS_TONES by the tone; "atRisk" is asked for in small letters.
Tones == [ accent  |-> {"active", "live", "running", "open"},
           success |-> {"executed", "confirmed", "success", "done", "healthy", "encrypted"},
           warning |-> {"pending", "queued", "warning", "atRisk"},
           danger  |-> {"defeated", "failed", "error", "danger", "reverted", "liquidation"},
           muted   |-> {"default", "unknown"} ]
SmallLetters(status) == IF status = "atRisk" THEN "atrisk" ELSE status
StatusTone(status) ==
    LET of == {tone \in DOMAIN Tones : SmallLetters(status) \in Tones[tone]}
    IN  IF of = {} THEN "muted" ELSE CHOOSE tone \in of : TRUE

\* The first kind of words a message has decides.
ClassifyBridgeStatus(words, fallback) ==
    CASE "registry" \in words                            -> "registry unavailable"
      [] "registry" \notin words /\ "rpc" \in words      -> "RPC unavailable"
      [] words \cap {"registry", "rpc"} = {} /\ "backend" \in words -> "backend unavailable"
      [] words = {}                                      -> fallback

\* What is said of a source: its readiness if that is known, and otherwise the last
\* error that concerns it, the registry or the RPC.  <<>> is nothing to say.
BridgeStatus(key, entry, errors, fallback) ==
    LET about == SelectSeq(errors, LAMBDA e : e.source = key
                                              \/ {key, "registry", "rpc"} \cap e.words # {})
        words(e) == e.words \cap {"registry", "rpc", "backend"}
    IN  IF entry # <<>>
        THEN IF entry[1].ready THEN <<>> ELSE <<ClassifyBridgeStatus(entry[1].words, fallback)>>
        ELSE IF about = <<>> THEN <<fallback>>
        ELSE <<ClassifyBridgeStatus(words(Last(about)), fallback)>>

\* A list of the dashboard: its items, or what is said instead of them.
ListShows(key, value, entry, errors) ==
    IF value # <<>> /\ value[1] # <<>> THEN "items"
    ELSE IF value # <<>> THEN "none available"
    ELSE LET said == BridgeStatus(key, entry, errors, "loading")
         IN  IF said = <<>> THEN "nothing" ELSE said[1]

\* The groups of the proposals, and the group of the others when there are some.
GroupNames == <<"active", "queued", "executed", "defeated">>
ProposalGroups(proposals) ==
    LET others == SelectSeq(proposals, LAMBDA p : p.status \notin ToSet(GroupNames))
        group(name) == SelectSeq(proposals, LAMBDA p : p.status = name)
    IN  [i \in DOMAIN GroupNames |-> group(GroupNames[i])]
            \o (IF others = <<>> THEN <<>> ELSE <<others>>)

\* The proposal that was selected, or the first.
SelectedProposal(proposals, id) ==
    LET i == SelectInSeq(proposals, LAMBDA p : p.id = id)
    IN  IF proposals = <<>> THEN <<>> ELSE <<proposals[IF i = 0 THEN 1 ELSE i]>>

QuorumPercent(total, quorum) == IF quorum = 0 THEN 0 ELSE Lesser(100, (total * 100) \div quorum)

\* The dashboard's list: the kind of list comes first and the item's own kind is
\* spread over it.
DashboardItems(positions, strategies, activities) ==
    LET of(items, kind) == [i \in DOMAIN items |->
            [id |-> items[i].id, list |-> kind,
             kind |-> IF items[i].kind = <<>> THEN kind ELSE items[i].kind[1]]]
    IN  of(positions, "position") \o of(strategies, "strategy") \o of(activities, "activity")

\* The first item of an id is selected, whichever was clicked.
SelectedItem(items, id) ==
    LET i == SelectInSeq(items, LAMBDA x : x.id = id) IN IF i = 0 THEN <<>> ELSE <<items[i]>>
DetailOf(item) == IF item.kind \in {"position", "strategy", "activity"} THEN item.kind ELSE "none"

\* The card of the front page: an amount, or why there is none.
DemoCardRow(items, side, isReal, said) ==
    LET sum == SumOf(items, {side})
    IN  IF sum > 0 THEN <<sum>> ELSE IF ~isReal THEN <<"wallet required">> ELSE said

-----------------------------------------------------------------------------
(* lending.jsx, token-utils.js, components.jsx, tweaks-panel.jsx *)

\* An encrypted amount that could not be read counts for nothing.
PositionSummary(positions, ltv) ==
    LET items == IF positions = <<>> THEN <<>> ELSE positions[1].items
        sum(side) == SumOf(items, {side})
        status == IF positions = <<>> THEN "loading" ELSE positions[1].status
        label(side) == IF sum(side) > 0 THEN "amount"
                       ELSE IF status = "empty" THEN "no position" ELSE status
    IN  [ supplied |-> label("supply"), borrowed |-> label("borrow"),
          gauge |-> IF ltv = <<>> THEN 0 ELSE ltv[1] ]

\* The market that is open: the chosen one while it is listed.
OpenMarket(markets, chosen) ==
    LET i == SelectInSeq(markets, LAMBDA m : m = chosen)
    IN  IF markets = <<>> THEN <<>> ELSE <<markets[IF i = 0 THEN 1 ELSE i]>>

\* By the names a symbol contains, and by the symbol.
DecimalForAsset(parts) ==
    IF parts \cap {"USDC", "USDT"} # {} THEN 6 ELSE IF parts \cap {"WBTC", "PPGS"} # {} THEN 8 ELSE 18
TokenDecimalMap ==
    [ ETH |-> 18, WETH |-> 18, BTC |-> 8, WBTC |-> 8, USDC |-> 6, USDT |-> 6, DAI |-> 18,
      PPGS |-> 8, MATIC |-> 18, SOL |-> 18, LINK |-> 18 ]

\* The gauge; its danger begins five points before the liquidation.
LtvGauge(ltv, liqAt) ==
    [ fill |-> Lesser(100, ltv),
      tone |-> IF ltv >= liqAt - 5 THEN "danger" ELSE IF 10 * ltv > 7 * liqAt THEN "accent" ELSE "ink" ]

\* The segment under the pointer, and a number that is scrubbed, which is clamped
\* after it was rounded to the step.
SegAt(x, width, n) == Greater(0, Lesser(n - 1, (x * n) \div width))
ClampTo(n, low, high) == IF n < low THEN low ELSE IF n > high THEN high ELSE n
Scrub(start, dx, step, low, high) ==
    ClampTo(((2 * (start + dx * step) + step) \div (2 * step)) * step, low, high)

\* The panel's distance from the edge; a window too small for it keeps the margin.
ClampToViewport(x, size, window, pad) == Lesser(Greater(pad, window - size - pad), Greater(pad, x))
=============================================================================
