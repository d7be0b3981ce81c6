--------------------------- MODULE MarketsService ---------------------------
(***************************************************************************)
(* Cached reads of the chain in the back end: markets, prices and registry *)
(* status (backend/apps/src/markets), protocol statistics on top of them   *)
(* (stats), and the readiness probe (app.controller.ts).                   *)
(*                                                                         *)
(* Each kind of answer is cached until a deadline.  A request that finds   *)
(* no valid entry reads the chain itself - nothing joins requests that are *)
(* already under way - and stores what it got when its awaits are over, so *)
(* a slow read may overwrite a newer one.  Every await races a timer that  *)
(* resolves to a fallback, which bounds a read by ReadLimit.               *)
(*                                                                         *)
(* Numbers are abstracted to whether they are known: a market is the set   *)
(* of the fields that could be read.                                       *)
(***************************************************************************)
EXTENDS Naturals, FiniteSets

CONSTANTS
    Lendable,       \* the tokens of the registry that are enabled and lendable
    DataReads,      \* reads under way together
    CacheLife,      \* five minutes; the same for the statistics
    ReadyLife,      \* half a minute
    ReadLimit,      \* three timeouts of ten seconds in a row
    MaxDataTime     \* bound

ASSUME MarketsAssumption ==
    {CacheLife, ReadyLife, ReadLimit, MaxDataTime} \subseteq Nat

VARIABLES
    dataTime,
    reachable,      \* the node answers
    cache,          \* kind -> the stored answer
    read            \* the reads under way

marketVars == <<dataTime, reachable, cache, read>>

Kinds == {"markets", "prices", "status", "stats", "ready"}
Life(kind) == IF kind = "ready" THEN ReadyLife ELSE CacheLife
Fields == {"reserve", "borrowed", "price", "threshold"}

NoAnswer == [ok |-> FALSE, items |-> {}, tvl |-> FALSE, asOf |-> 0, expires |-> 0]
NoRead == [step |-> "idle", kind |-> "ready", since |-> 0, tokens |-> {}]

\* The fields a client sees of a market, given what could be read of it.
BuildMarket(token, known) ==
    LET supplied == {"reserve", "borrowed", "price"} \subseteq known
        shown == [totalSupplied |-> supplied,
                  totalBorrowed |-> {"borrowed", "price"} \subseteq known,
                  tvl           |-> {"reserve", "price"} \subseteq known,
                  utilization   |-> {"reserve", "borrowed"} \subseteq known,
                  oraclePrice   |-> "price" \in known,
                  threshold     |-> "threshold" \in known]
    IN  [token |-> token, tvl |-> shown.tvl,
         live |-> \A field \in DOMAIN shown : shown[field]]

BuildPrice(token, known) ==
    [token |-> token, tvl |-> FALSE, live |-> "price" \in known]

Items == [token : Lendable, tvl : BOOLEAN, live : BOOLEAN]

MarketsTypeOK ==
    /\ dataTime \in 0 .. MaxDataTime /\ reachable \in BOOLEAN
    /\ \A kind \in Kinds :
          /\ cache[kind].items \subseteq Items
          /\ cache[kind].asOf \in 0 .. dataTime
    /\ \A r \in DataReads :
          /\ read[r].step \in {"idle", "registry", "fields"}
          /\ read[r].kind \in Kinds /\ read[r].tokens \subseteq Lendable

MarketsInit ==
    /\ dataTime = 1 /\ reachable \in BOOLEAN
    /\ cache = [kind \in Kinds |-> NoAnswer]
    /\ read = [r \in DataReads |-> NoRead]

Valid(kind) == dataTime < cache[kind].expires

-----------------------------------------------------------------------------
\* A client, or the refresh timer of onModuleInit, asks and the cache is over.
\* The statistics answer from a valid cache of markets, or read it themselves.
Ask(r, kind) ==
    /\ read[r] = NoRead
    /\ ~Valid(kind)
    /\ kind = "stats" => ~Valid("markets")
    /\ read' = [read EXCEPT ![r] = [step |-> "registry", kind |-> kind,
                                    since |-> dataTime, tokens |-> {}]]
    /\ UNCHANGED <<dataTime, reachable, cache>>

\* Mutant: the statistics live as long as the caches below them together.
StoreLonger(kind, ok, items, asOf, from) ==
    [ok |-> ok, items |-> items, asOf |-> asOf,
     tvl |-> kind = "stats" /\ items # {} /\ \A i \in items : i.tvl,
     expires |-> from + 2 * Life(kind)]

Store(kind, ok, items, asOf, from) ==
    [ok |-> ok, items |-> items, asOf |-> asOf,
     tvl |-> kind = "stats" /\ items # {} /\ \A i \in items : i.tvl,
     expires |-> from + Life(kind)]

\* Statistics over a list of markets; the row counts are read beside it.
Statistics(items, asOf) == Store("stats", TRUE, items, asOf, dataTime)

StatsFromCache ==
    /\ ~Valid("stats") /\ Valid("markets")
    /\ cache' = [cache EXCEPT !["stats"] =
          Statistics(cache["markets"].items, cache["markets"].asOf)]
    /\ UNCHANGED <<dataTime, reachable, read>>

\* withTimeout(getAllMarkets(), 5000, []): the read goes on for its own cache.
StatsTimeOut(r) ==
    /\ read[r].kind = "stats" /\ read[r].step # "idle"
    /\ cache' = [cache EXCEPT !["stats"] = Statistics({}, dataTime)]
    /\ read' = [read EXCEPT ![r].kind = "markets"]
    /\ UNCHANGED <<dataTime, reachable>>

\* readLendableTokens: an error, or a list from which any token may have
\* dropped out by its timeout - the whole list when the first call times out.
RegistryReads ==
    { [ok |-> FALSE, tokens |-> {}] } \cup
    { [ok |-> TRUE, tokens |-> ts] :
          ts \in IF reachable THEN SUBSET Lendable ELSE {{}} }

Ends(r) == read' = [read EXCEPT ![r] = NoRead]

\* An unreachable registry is answered with [] and not remembered - except by
\* the statistics, whose answer is stored whatever it was made of.
RegistryAnswers(r) ==
    /\ read[r].step = "registry" /\ read[r].kind \in {"markets", "prices", "stats"}
    /\ \E answer \in RegistryReads :
          IF answer.ok
          THEN /\ read' = [read EXCEPT ![r].step = "fields",
                                       ![r].tokens = answer.tokens]
               /\ UNCHANGED cache
          ELSE /\ Ends(r)
               /\ cache' = IF read[r].kind = "stats"
                           THEN [cache EXCEPT !["stats"] = Statistics({}, dataTime)]
                           ELSE cache
    /\ UNCHANGED <<dataTime, reachable>>

StatusAnswers(r) ==
    /\ read[r].step = "registry" /\ read[r].kind = "status"
    /\ \E answer \in RegistryReads :
          cache' = [cache EXCEPT !["status"] =
             Store("status", answer.ok,
                   {BuildPrice(t, {}) : t \in answer.tokens},
                   read[r].since, dataTime)]
    /\ Ends(r)
    /\ UNCHANGED <<dataTime, reachable>>

\* The probe's deadline counts from before the await.
ReadinessAnswers(r) ==
    /\ read[r].step = "registry" /\ read[r].kind = "ready"
    /\ \E ok \in {reachable, FALSE} :
          cache' = [cache EXCEPT !["ready"] =
             Store("ready", ok, {}, read[r].since, read[r].since)]
    /\ Ends(r)
    /\ UNCHANGED <<dataTime, reachable>>

\* Each field of each token arrives or is null.
FieldsAnswer(r) ==
    /\ read[r].step = "fields"
    /\ \E known \in [read[r].tokens -> IF reachable THEN SUBSET Fields ELSE {{}}] :
          LET markets == { BuildMarket(t, known[t]) : t \in read[r].tokens }
              prices == { BuildPrice(t, known[t]) : t \in read[r].tokens }
              stored(kind, items) == Store(kind, TRUE, items, read[r].since, dataTime)
          IN  cache' = CASE read[r].kind = "prices" ->
                              [cache EXCEPT !["prices"] = stored("prices", prices)]
                         [] read[r].kind = "markets" ->
                              [cache EXCEPT !["markets"] = stored("markets", markets)]
                         [] read[r].kind = "stats" ->
                              [cache EXCEPT
                                  !["markets"] = stored("markets", markets),
                                  !["stats"] = Statistics(markets, read[r].since)]
    /\ Ends(r)
    /\ UNCHANGED <<dataTime, reachable>>

NodeChanges ==
    /\ reachable' = ~reachable
    /\ UNCHANGED <<dataTime, cache, read>>

DataTick ==
    /\ dataTime < MaxDataTime
    /\ \A r \in DataReads :
          read[r].step # "idle" => dataTime - read[r].since < ReadLimit
    /\ dataTime' = dataTime + 1
    /\ UNCHANGED <<reachable, cache, read>>

MarketsNext ==
    \/ \E r \in DataReads, kind \in Kinds : Ask(r, kind)
    \/ \E r \in DataReads :
          \/ StatsTimeOut(r)
          \/ RegistryAnswers(r) \/ StatusAnswers(r) \/ ReadinessAnswers(r)
          \/ FieldsAnswer(r)
    \/ StatsFromCache \/ NodeChanges \/ DataTick

-----------------------------------------------------------------------------
(***************************************************************************)
(* What is served is no older than its caches allow (markets.service.ts:85 *)
(* "cacheTtlMs", stats.service.ts:70): a market list dates from less than  *)
(* one life and one read ago, statistics - a cache over a cache - from     *)
(* less than two lives and a read, however the reads overlap.              *)
(***************************************************************************)
AnswersAreRecent ==
    \A kind \in Kinds : Valid(kind) =>
        dataTime < cache[kind].asOf + ReadLimit + Life(kind)
            + IF kind = "stats" THEN CacheLife ELSE 0
=============================================================================
