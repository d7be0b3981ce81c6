------------------------- MODULE StrategySimulation -------------------------
(***************************************************************************)
(* The strategy simulator of the back end (defi_strategies/application)    *)
(* with the price service under it (shared/infrastructure/                 *)
(* fhenix-strategy.service.ts).                                            *)
(*                                                                         *)
(* A simulation walks the steps of a plan and carries one amount, whatever *)
(* its token.  Swaps and borrows await two prices; each comes from a cache *)
(* of one minute, else from the oracle, else - when the oracle fails, for  *)
(* a stale price too - from a static rate of the environment.  The two     *)
(* prices of one rate may so come from different sources and times.        *)
(*                                                                         *)
(* The amount, the slippage and the part that a borrow yields come with    *)
(* the request and are checked by nothing: the controller imports the      *)
(* class of its body as a type only.  Parts are counted in fractions of a  *)
(* Unit; the amount is kept as an exact fraction.                          *)
(***************************************************************************)
EXTENDS Integers, Sequences

CONSTANTS
    SimTokens,
    NoAsset,            \* of a step without a token
    PricesOf(_),        \* prices the oracle may report for a token
    StaticPriceUsd(_),  \* the environment's rate: 0 for an unknown token
    Plans,              \* the workflows, sequences of legs
    AmountsIn, Slippages,
    Unit,              \* of which the parts are counted
    Fee,                \* of a swap: 0.3 of 100
    DefaultRatio,       \* of a borrow: 0.7 of 1
    PriceLife,          \* one minute
    MaxSimTime          \* bound

\* A ratio of 0 is one that the step does not name.
PlanLegs == [type : STRING, from : SimTokens \cup {NoAsset}, to : SimTokens \cup {NoAsset},
             ratio : Int]

ASSUME SimulationAssumption ==
    /\ Plans \subseteq Seq(PlanLegs)
    /\ \A t \in SimTokens : PricesOf(t) \subseteq Nat /\ StaticPriceUsd(t) \in Nat
    /\ Unit \in Nat \ {0} /\ Fee \in 0 .. Unit /\ DefaultRatio \in 1 .. Unit
    /\ NoAsset \notin SimTokens /\ AmountsIn \subseteq Int /\ Slippages \subseteq Int
    /\ PriceLife \in Nat /\ MaxSimTime \in Nat

VARIABLES
    simTime,
    oracle,         \* the on-chain prices
    priceCache,     \* token -> price and time of the read
    sim,            \* the simulation under way
    mixed           \* history: a price changed source or value during it

simVars == <<simTime, oracle, priceCache, sim, mixed>>

NotCached == [price |-> 0, at |-> 0, cached |-> FALSE]
NoSim == [plan |-> <<>>, at |-> 0, amount |-> 0, slippage |-> 0, num |-> 0, den |-> 1,
          seen |-> {}]

SimTypeOK ==
    /\ simTime \in 0 .. MaxSimTime
    /\ \A t \in SimTokens : oracle[t] \in PricesOf(t)
    /\ DOMAIN priceCache = SimTokens
    /\ sim = NoSim \/ (sim.plan \in Plans /\ sim.at \in 1 .. Len(sim.plan) + 1)
    /\ mixed \in BOOLEAN

SimInit ==
    /\ simTime = 0
    /\ oracle \in { f \in [SimTokens -> UNION {PricesOf(t) : t \in SimTokens}] :
                       \A t \in SimTokens : f[t] \in PricesOf(t) }
    /\ priceCache = [t \in SimTokens |-> NotCached]
    /\ sim = NoSim /\ mixed = FALSE

-----------------------------------------------------------------------------
Fresh(t) == priceCache[t].cached /\ simTime < priceCache[t].at + PriceLife

\* What getAssetPriceUsd may return for a token, and whether it asked the oracle.
Readings(t) ==
    IF Fresh(t) THEN {[price |-> priceCache[t].price, asked |-> FALSE]}
    ELSE { [price |-> oracle[t], asked |-> TRUE],
           [price |-> StaticPriceUsd(t), asked |-> FALSE] }

Cached(t, reading) ==
    IF reading.asked THEN [price |-> reading.price, at |-> simTime, cached |-> TRUE]
    ELSE priceCache[t]

Simulate(plan, amount, slippage) ==
    /\ sim = NoSim \/ sim.at > Len(sim.plan)
    /\ sim' = [plan |-> plan, at |-> 1, amount |-> amount, slippage |-> slippage,
               num |-> amount, den |-> 1, seen |-> {}]
    /\ mixed' = FALSE
    /\ UNCHANGED <<simTime, oracle, priceCache>>

Current == sim.plan[sim.at]

\* A price seen for a token that differs from one seen before.
Contradicts(t, price) == \E s \in sim.seen : s[1] = t /\ s[2] # price

\* The part that is kept, at the rate priceIn / priceOut; a rate on a zero price
\* is an error and the simulation answers nothing.
Convert(kept, in, out) ==
    IF out.price = 0
    THEN sim' = NoSim /\ UNCHANGED mixed
    ELSE /\ sim' = [sim EXCEPT
               !.at = @ + 1,
               !.num = @ * kept * in.price,
               !.den = @ * Unit * out.price,
               !.seen = @ \cup {<<Current.from, in.price>>, <<Current.to, out.price>>}]
         /\ mixed' = (mixed \/ Contradicts(Current.from, in.price)
                            \/ Contradicts(Current.to, out.price))

TradesNow(type) == sim # NoSim /\ sim.at <= Len(sim.plan) /\ Current.type = type

\* SwapSimulator; a borrow is the same conversion of a part of the amount.
Trade(type, kept) ==
    /\ TradesNow(type)
    /\ Current.from # Current.to /\ NoAsset \notin {Current.from, Current.to}
    /\ \E in \in Readings(Current.from), out \in Readings(Current.to) :
          /\ Convert(kept, in, out)
          /\ priceCache' = [priceCache EXCEPT
                ![Current.from] = Cached(Current.from, in),
                ![Current.to] = Cached(Current.to, out)]
    /\ UNCHANGED <<simTime, oracle>>

\* A token is worth itself: no price is read.
TradeForItself(type, kept) ==
    /\ TradesNow(type) /\ Current.from = Current.to
    /\ sim' = [sim EXCEPT !.at = @ + 1, !.num = @ * kept, !.den = @ * Unit]
    /\ UNCHANGED <<simTime, oracle, priceCache, mixed>>

\* A token that is not named is an error; the read of the other one is under way.
TradeUnnamed(type) ==
    /\ TradesNow(type)
    /\ Current.from # Current.to /\ NoAsset \in {Current.from, Current.to}
    /\ \E t \in {Current.from, Current.to} \ {NoAsset} : \E reading \in Readings(t) :
          priceCache' = [priceCache EXCEPT ![t] = Cached(t, reading)]
    /\ sim' = NoSim
    /\ UNCHANGED <<simTime, oracle, mixed>>

SwapKeeps == Unit - Fee - sim.slippage
Ratio(leg) == IF leg.ratio = 0 THEN DefaultRatio ELSE leg.ratio

\* Mutant: the fee and the slippage are added.
SimulateSwapAdding ==
    Trade("SWAP", Unit + Fee + sim.slippage) \/ TradeForItself("SWAP", SwapKeeps)
    \/ TradeUnnamed("SWAP")

SimulateSwap ==
    Trade("SWAP", SwapKeeps) \/ TradeForItself("SWAP", SwapKeeps) \/ TradeUnnamed("SWAP")

SimulateBorrow ==
    \/ Trade("BORROW", Ratio(Current)) \/ TradeForItself("BORROW", Ratio(Current))
    \/ TradeUnnamed("BORROW")

\* SupplySimulator keeps the amount; a step of an unknown type is passed over.
SimulateOther ==
    /\ sim # NoSim /\ sim.at <= Len(sim.plan)
    /\ Current.type \notin {"SWAP", "BORROW"}
    /\ sim' = [sim EXCEPT !.at = @ + 1]
    /\ UNCHANGED <<simTime, oracle, priceCache, mixed>>

OracleUpdates(t, price) ==
    /\ price \in PricesOf(t) \ {oracle[t]}
    /\ oracle' = [oracle EXCEPT ![t] = price]
    /\ UNCHANGED <<simTime, priceCache, sim, mixed>>

SimTick ==
    /\ simTime < MaxSimTime
    /\ simTime' = simTime + 1
    /\ UNCHANGED <<oracle, priceCache, sim, mixed>>

SimNext ==
    \/ \E plan \in Plans, amount \in AmountsIn, slippage \in Slippages :
          Simulate(plan, amount, slippage)
    \/ SimulateSwap \/ SimulateBorrow \/ SimulateOther
    \/ \E t \in SimTokens : \E price \in PricesOf(t) : OracleUpdates(t, price)
    \/ SimTick

-----------------------------------------------------------------------------
TradesOf(plan) == { i \in DOMAIN plan : plan[i].type \in {"SWAP", "BORROW"} }

\* A plan whose trades follow on one another, and one that comes back.
Chained(plan) ==
    \A i, j \in TradesOf(plan) :
        i < j /\ (\A k \in TradesOf(plan) : k <= i \/ j <= k) => plan[i].to = plan[j].from
Returns(plan) ==
    \E i, j \in TradesOf(plan) :
        /\ \A k \in TradesOf(plan) : i <= k /\ k <= j
        /\ plan[i].from = plan[j].to

\* A request that asks for no more than there is.
Careful(s) ==
    /\ s.amount >= 0 /\ s.slippage \in 0 .. Unit - Fee
    /\ \A i \in TradesOf(s.plan) : s.plan[i].type = "BORROW" => Ratio(s.plan[i]) \in 0 .. Unit

(***************************************************************************)
(* A simulated round trip, of plans with any ratios and any slippage, ends *)
(* with more of a token than it began with ((inputAmount - fee - slippage) *)
(* * exchangeRate, swap-simulator.ts:37) only if the request itself asks   *)
(* for it - a ratio above one, a slippage or an amount below zero, a       *)
(* slippage of more than all - or a price that the walk relied on changed  *)
(* on the way: in value, or from the oracle to the static rate.            *)
(***************************************************************************)
RoundTripsNeverGain ==
    /\ sim # NoSim /\ sim.at = Len(sim.plan) + 1
    /\ Chained(sim.plan) /\ Returns(sim.plan) /\ ~mixed
    /\ Careful(sim)
    => sim.num <= sim.amount * sim.den
=============================================================================
