---------------------------- MODULE DataFetcher ----------------------------
(***************************************************************************)
(* DataFetcherV2 (forge-bridge-integration, data-fetcher-v2.js): which     *)
(* source is asked when, and what reaches the bus.  A source is asked by   *)
(* a timer, by a start or by a finished transaction; at most MaxConcurrent *)
(* requests are in flight, and one that finds no slot is dropped.  The     *)
(* answers come in any order, or fail.                                     *)
(***************************************************************************)
EXTENDS BridgeBus

CONSTANTS
    MaxConcurrent,
    PublicOnce,         \* sources a start asks once, in the code's order
    PublicPolled, PublicLast,
    AuthedPolled, AuthedOnce,
    Batches,            \* batches of updates
    MaxTimers           \* bound: live timers of one source

ASSUME FetcherAssumption == MaxConcurrent \in Nat /\ MaxTimers \in Nat

VARIABLES
    publicStarted, authStarted, demoStarted,
    hidden, hiddenPaused,
    watching,           \* the visibility and unload handlers are registered
    timers,             \* intervals: group, source, and one of its serials
    flights             \* requests in flight: their source and their timer

fetchVars == <<publicStarted, authStarted, demoStarted, hidden, hiddenPaused,
               watching, timers, flights>>

Sources == PublicKeys \cup AuthedKeys
Groups == {"public", "authed"}
Serials == 1 .. MaxTimers
NoTimer == 0            \* the request is no timer's

FetcherTypeOK ==
    /\ publicStarted \in BOOLEAN /\ authStarted \in BOOLEAN /\ demoStarted \in BOOLEAN
    /\ hidden \in BOOLEAN /\ hiddenPaused \in BOOLEAN /\ watching \in BOOLEAN
    /\ timers \subseteq [group : Groups, source : Sources, serial : Serials]
    /\ flights \subseteq [source : Sources, timer : Serials \cup {NoTimer},
                      nth : 1 .. MaxConcurrent + 1]

FetcherInit ==
    /\ publicStarted = FALSE /\ authStarted = FALSE /\ demoStarted = FALSE
    /\ hidden = FALSE /\ hiddenPaused = FALSE /\ watching = TRUE
    /\ timers = {} /\ flights = {}

-----------------------------------------------------------------------------
Least(ns) == CHOOSE n \in ns : \A m \in ns : n <= m

\* A source is asked by a timer, or by nobody's.
Ask(source, timer) == [source |-> source, timer |-> timer]
Asks(sources) == [i \in DOMAIN sources |-> Ask(sources[i], NoTimer)]

Flight(fs, ask) ==
    LET others == {f.nth : f \in {g \in fs : g.source = ask.source /\ g.timer = ask.timer}}
    IN  [source |-> ask.source, timer |-> ask.timer,
         nth |-> Least((1 .. MaxConcurrent + 1) \ others)]

\* _isFetchingReadiness
Wanted(fs, ask) == ask.source = "readiness" => \A f \in fs : f.source # ask.source

\* _fetchAndTransform's guards, for sources asked one after the other, none of
\* them twice: each takes a slot while there is one.
Begin(fs, asks) ==
    LET wanted == SelectSeq(asks, LAMBDA ask : Wanted(fs, ask))
        taken  == DOMAIN wanted \cap 1 .. MaxConcurrent - Cardinality(fs)
    IN  IF demoStarted THEN fs ELSE fs \cup {Flight(fs, wanted[i]) : i \in taken}

\* _startInterval for each source: its first request, then its timer.
Free(s) ==
    Serials \ ({t.serial : t \in {u \in timers : u.source = s}}
               \cup {f.timer : f \in {g \in flights : g.source = s}})

HasSerial(sources) == \A s \in ToSet(sources) : Free(s) # {}        \* bound

TimerAsks(sources) == [i \in DOMAIN sources |-> Ask(sources[i], Least(Free(sources[i])))]

TimersOf(group, sources) ==
    {[group |-> group, source |-> s, serial |-> Least(Free(s))] : s \in ToSet(sources)}

\* Mutant: the timers of the other group are cleared.
ClearOther(ts, group) == {t \in ts : t.group = group}

\* _clearIntervalGroup
Clear(ts, group) == {t \in ts : t.group # group}

-----------------------------------------------------------------------------
\* startPublicPolling, when ForgeProvider mounts.
StartPublicPolling ==
    /\ ~publicStarted /\ HasSerial(PublicPolled)
    /\ publicStarted' = TRUE
    /\ IF demoStarted THEN UNCHANGED <<timers, flights>>
       ELSE /\ timers' = timers \cup TimersOf("public", PublicPolled)
            /\ flights' = Begin(Begin(Begin(flights, Asks(PublicOnce)), TimerAsks(PublicPolled)),
                                Asks(PublicLast))
    /\ UNCHANGED <<authStarted, demoStarted, hidden, hiddenPaused, watching,
                   busVars>>

\* startAuthenticatedPolling; a second call does nothing.
StartAuthenticated ==
    IF authStarted THEN UNCHANGED <<authStarted, timers, flights>>
    ELSE /\ authStarted' = TRUE
         /\ timers' = timers \cup TimersOf("authed", AuthedPolled)
         /\ flights' = Begin(Begin(flights, TimerAsks(AuthedPolled)), Asks(AuthedOnce))

\* stopAuthenticatedPolling, but for the bus.
StopAuthenticated ==
    /\ authStarted' = FALSE
    /\ timers' = Clear(timers, "authed")

\* stopAll with stopPublicPolling, when the page may be left.
StopAll ==
    /\ watching
    /\ publicStarted' = FALSE /\ authStarted' = FALSE /\ hiddenPaused' = FALSE /\ watching' = FALSE
    /\ timers' = Clear(Clear(timers, "public"), "authed")
    /\ Disable
    /\ UNCHANGED <<demoStarted, hidden, flights, wallet, unlocked, errorCount>>

\* fetchPositions, fetchStrategies, fetchProposals, fetchNodeTypes
NavigationSources ==
    {"positions", "strategies", "proposals", "nodeTypes"}
        \cap ToSet(AuthedPolled \o AuthedOnce)

FetchOnNavigation(s) ==
    /\ authStarted
    /\ flights' = Begin(flights, <<Ask(s, NoTimer)>>)
    /\ UNCHANGED <<publicStarted, authStarted, demoStarted, hidden, hiddenPaused,
                   watching, timers, busVars>>

Refreshed == SelectSeq(<<"positions", "walletBalance", "activities">>,
                       LAMBDA s : s \in ToSet(AuthedPolled))

\* refreshAfterTransaction, from transaction:confirmed: the polled sources.
RefreshAfterTransaction ==
    /\ flights' = Begin(flights, Asks(PublicPolled \o (IF authStarted THEN Refreshed ELSE <<>>)))
    /\ UNCHANGED <<publicStarted, authStarted, demoStarted, hidden, hiddenPaused,
                   watching, timers, busVars>>

\* startDemoMode fills every key, and enables the bus without a session.
StartDemoMode ==
    /\ ~demoStarted
    /\ demoStarted' = TRUE
    /\ timers' = IF publicStarted THEN Clear(timers, "public") ELSE timers
    /\ Enable
    /\ filled' = filled \cup AuthedKeys \cup {"ticker", "markets", "activities"}
    /\ UNCHANGED <<publicStarted, authStarted, hidden, hiddenPaused, watching,
                   flights, wallet, unlocked, errorCount>>

-----------------------------------------------------------------------------
\* safeFetch: a timer asks unless its last request still runs.
TimerFires(t) ==
    /\ t \in timers
    /\ \A f \in flights : f.source = t.source => f.timer # t.serial
    /\ flights' = Begin(flights, <<Ask(t.source, t.serial)>>)
    /\ UNCHANGED <<publicStarted, authStarted, demoStarted, hidden, hiddenPaused,
                   watching, timers, busVars>>

\* A request answers.  Positions also rewrite the wallet balance.
Answer(f) ==
    /\ f \in flights
    /\ flights' = flights \ {f}
    /\ IF f.source = "positions"
       THEN filled' = Apply(Apply(filled, "positions", authEnabled),
                            "walletBalance", authEnabled)
       ELSE SetData(f.source)
    /\ UNCHANGED <<publicStarted, authStarted, demoStarted, hidden, hiddenPaused,
                   watching, timers, authEnabled, wallet, unlocked, errorCount>>

\* A request fails, _onError: readiness is asked again before the slot is free.
Fail(f) ==
    /\ f \in flights
    /\ flights' = (IF publicStarted /\ f.source # "readiness"
                   THEN Begin(flights, <<Ask("readiness", NoTimer)>>) ELSE flights) \ {f}
    /\ SetError
    /\ UNCHANGED <<publicStarted, authStarted, demoStarted, hidden, hiddenPaused,
                   watching, timers, authEnabled, filled, wallet, unlocked>>

\* The visibility handler.
Hide ==
    /\ ~hidden /\ hidden' = TRUE
    /\ IF watching /\ (publicStarted \/ authStarted)
       THEN /\ hiddenPaused' = TRUE
            /\ timers' = Clear(Clear(timers, "public"), "authed")
       ELSE UNCHANGED <<hiddenPaused, timers>>
    /\ UNCHANGED <<publicStarted, authStarted, demoStarted, watching, flights,
                   busVars>>

Show ==
    /\ hidden /\ hidden' = FALSE
    /\ IF watching /\ hiddenPaused
       THEN LET pub == IF publicStarted THEN PublicPolled ELSE <<>>
                aut == IF authStarted THEN AuthedPolled ELSE <<>>
            IN  /\ HasSerial(pub \o aut)
                /\ hiddenPaused' = FALSE
                /\ timers' = timers \cup TimersOf("public", pub) \cup TimersOf("authed", aut)
                /\ flights' = Begin(flights, TimerAsks(pub \o aut))
       ELSE UNCHANGED <<hiddenPaused, timers, flights>>
    /\ UNCHANGED <<publicStarted, authStarted, demoStarted, watching, busVars>>

FetcherNext ==
    \/ StartPublicPolling \/ StopAll \/ RefreshAfterTransaction \/ StartDemoMode
    \/ Hide \/ Show
    \/ \E s \in NavigationSources : FetchOnNavigation(s)
    \/ \E t \in timers : TimerFires(t)
    \/ \E f \in flights : Answer(f) \/ Fail(f)
    \/ \E b \in Batches : DispatchBatch(b) /\ UNCHANGED fetchVars

-----------------------------------------------------------------------------
\* Polling belongs to a session: the authenticated timers run only while they
\* are started, they are started only while the bus accepts what they bring,
\* and no more requests run than the backend is promised, in every order of
\* starts, stops, hiding and showing the tab, and leaving the page
\* (data-fetcher-v2.js:111, 221, 301 and 470).
PollingFollowsTheSession ==
    /\ authStarted => authEnabled
    /\ \A t \in timers : IF t.group = "public" THEN publicStarted ELSE authStarted
    /\ Cardinality(flights) <= MaxConcurrent

\* "On-nav data sources: fetch immediately once" (data-fetcher-v2.js:247).
OneOffSourcesAreAsked ==
    [][ ~authStarted /\ authStarted' =>
            ToSet(AuthedOnce) \subseteq {f.source : f \in flights'} ]_fetchVars
=============================================================================
