----------------------------- MODULE ApiClient -----------------------------
(***************************************************************************)
(* The API adapter (forge-bridge, api.js): a cache of GETs that serves     *)
(* stale answers while it asks again, and the interceptor that renews the  *)
(* session once for all the requests that were refused for want of one.    *)
(***************************************************************************)
EXTENDS Naturals, Sequences, SequencesExt, FiniteSets

CONSTANTS
    Calls,          \* the calls made; each is made once
    KeyOf(_),       \* the cache key of a call, or NoKey
    NoKey,
    Guarded,        \* the calls the back end answers only for a session
    CacheSize       \* max of lruSet

ASSUME ApiAssumption == CacheSize \in Nat \ {0}

VARIABLES
    call,           \* each call: waiting for what, or how it ended
    answered,       \* the calls whose caller already has its (stale) answer
    marked,         \* _retry
    failedQueue, isRefreshing,
    cache,          \* the entries, least recently used first
    signedIn,       \* the cookie is a session's
    authErrors      \* error:auth was emitted

apiVars == <<call, answered, marked, failedQueue, isRefreshing, cache, signedIn,
             authErrors>>

Waiting == {"sent", "queued", "renewing"}
Ends == {"success", "recoverable", "error"}
Keys == {KeyOf(c) : c \in Calls} \ {NoKey}

ApiTypeOK ==
    /\ call \in [Calls -> {"idle"} \cup Waiting \cup Ends]
    /\ answered \subseteq Calls /\ marked \subseteq Calls
    /\ failedQueue \in Seq(Calls) /\ {isRefreshing, signedIn, authErrors} \subseteq BOOLEAN
    /\ cache \in Seq([key : Keys, fresh : BOOLEAN]) /\ Len(cache) <= CacheSize

ApiInit ==
    /\ call = [c \in Calls |-> "idle"] /\ answered = {} /\ marked = {}
    /\ failedQueue = <<>> /\ isRefreshing = FALSE /\ cache = <<>>
    /\ signedIn \in BOOLEAN /\ authErrors = FALSE

-----------------------------------------------------------------------------
Entries(key) == SelectSeq(cache, LAMBDA e : e.key = key)
Others(key) == SelectSeq(cache, LAMBDA e : e.key # key)

\* lruGet moves the entry to the end, expired or not.
LruGet(key) == Others(key) \o Entries(key)

\* lruSet: a new key makes room; an old one keeps its place.
LruSet(key) ==
    LET entry == [key |-> key, fresh |-> TRUE]
    IN  IF Entries(key) # <<>>
        THEN [i \in DOMAIN cache |-> IF cache[i].key = key THEN entry ELSE cache[i]]
        ELSE Append(IF Len(cache) >= CacheSize THEN Tail(cache) ELSE cache, entry)

Hit(c) == KeyOf(c) # NoKey /\ Entries(KeyOf(c)) # <<>>

\* A domain method: cachedGet for a key, request without one.
MakeCall(c) ==
    /\ call[c] = "idle"
    /\ cache' = IF Hit(c) THEN LruGet(KeyOf(c)) ELSE cache
    /\ IF Hit(c) /\ Entries(KeyOf(c))[1].fresh
       THEN call' = [call EXCEPT ![c] = "success"]
       ELSE call' = [call EXCEPT ![c] = "sent"]
    /\ answered' = IF Hit(c) THEN answered \cup {c} ELSE answered
    /\ UNCHANGED <<marked, failedQueue, isRefreshing, signedIn, authErrors>>

\* fetchAndCache and request, on success.
Succeeds(c) ==
    /\ call[c] = "sent" /\ (c \in Guarded => signedIn)
    /\ call' = [call EXCEPT ![c] = "success"]
    /\ answered' = answered \cup {c}
    /\ cache' = IF KeyOf(c) = NoKey THEN cache ELSE LruSet(KeyOf(c))
    /\ UNCHANGED <<marked, failedQueue, isRefreshing, signedIn, authErrors>>

\* normalizeError: a status below 500 is recoverable; no answer is not.
Fails(c) ==
    /\ call[c] = "sent"
    /\ \E end \in {"recoverable", "error"} : call' = [call EXCEPT ![c] = end]
    /\ answered' = answered \cup {c}
    /\ UNCHANGED <<marked, failedQueue, isRefreshing, cache, signedIn, authErrors>>

\* The interceptor, on a 401.
Refused(c) ==
    /\ call[c] = "sent" /\ c \in Guarded /\ ~signedIn
    /\ \/ /\ c \in marked
          /\ call' = [call EXCEPT ![c] = "recoverable"]
          /\ answered' = answered \cup {c}
          /\ UNCHANGED <<marked, failedQueue, isRefreshing>>
       \/ /\ c \notin marked /\ isRefreshing
          /\ failedQueue' = Append(failedQueue, c)
          /\ call' = [call EXCEPT ![c] = "queued"]
          /\ UNCHANGED <<answered, marked, isRefreshing>>
       \/ /\ c \notin marked /\ ~isRefreshing
          /\ marked' = marked \cup {c}
          /\ isRefreshing' = TRUE
          /\ call' = [call EXCEPT ![c] = "renewing"]
          /\ UNCHANGED <<answered, failedQueue>>
    /\ UNCHANGED <<cache, signedIn, authErrors>>

\* Mutant: the queue is forgotten, not told.
ProcessQueueDrops(c, end) ==
    /\ failedQueue' = <<>> /\ isRefreshing' = FALSE
    /\ call' = [call EXCEPT ![c] = end]

\* processQueue, and the call that renewed.
ProcessQueue(c, end) ==
    /\ failedQueue' = <<>> /\ isRefreshing' = FALSE
    /\ call' = [d \in Calls |-> IF d = c \/ d \in ToSet(failedQueue) THEN end
                                ELSE call[d]]

\* refreshJwt logs in again: the call and the queue are sent again, the queue
\* unmarked.
Renews(c) ==
    /\ call[c] = "renewing"
    /\ signedIn' = TRUE
    /\ ProcessQueue(c, "sent")
    /\ UNCHANGED <<answered, marked, cache, authErrors>>

\* ... or fails: no account, a signature refused, a login refused.
RenewalFails(c) ==
    /\ call[c] = "renewing"
    /\ ProcessQueue(c, "error")
    /\ answered' = answered \cup {c} \cup ToSet(failedQueue)
    /\ authErrors' = TRUE
    /\ UNCHANGED <<marked, cache, signedIn>>

\* An entry passes its endpoint's time to live (resolveTtl).
EntryExpires ==
    /\ \E i \in DOMAIN cache :
          cache[i].fresh /\ cache' = [cache EXCEPT ![i].fresh = FALSE]
    /\ UNCHANGED <<call, answered, marked, failedQueue, isRefreshing, signedIn,
                   authErrors>>

SessionExpires ==
    /\ signedIn /\ signedIn' = FALSE
    /\ UNCHANGED <<call, answered, marked, failedQueue, isRefreshing, cache, authErrors>>

ServerAnswers(c) == Succeeds(c) \/ Fails(c) \/ Refused(c)
Renewal(c) == Renews(c) \/ RenewalFails(c)

ApiNext ==
    \/ \E c \in Calls : MakeCall(c) \/ ServerAnswers(c) \/ Renewal(c)
    \/ EntryExpires \/ SessionExpires

ApiFairness == \A c \in Calls : WF_apiVars(ServerAnswers(c)) /\ WF_apiVars(Renewal(c))

-----------------------------------------------------------------------------
\* Every call that was made ends, however often the session expires under it:
\* a call queued behind another's renewal is sent again or told of its failure
\* (api.js:132 and 143).
RequestsSettle == \A c \in Calls : call[c] \in Waiting ~> call[c] \in Ends
=============================================================================
