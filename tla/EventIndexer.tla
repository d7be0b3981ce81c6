---------------------------- MODULE EventIndexer ----------------------------
(***************************************************************************)
(* The on-chain event indexer (backend/apps/src/event-indexer).            *)
(*                                                                         *)
(* A timer starts a poll every fifteen seconds whether or not the last one *)
(* has returned.  A poll awaits the node twice and the database twice; the *)
(* checkpoint lives in memory (last) and in the database (saved), and only *)
(* the second one survives a restart.  Errors of the insert and of the     *)
(* checkpoint's upsert are logged and swallowed.                           *)
(*                                                                         *)
(* The chain is its head and the set of blocks that hold events of the     *)
(* configured contracts; the two getLogs calls of a poll read a fixed      *)
(* range of final blocks and are one step.                                 *)
(*                                                                         *)
(* The activities the back end shows (apps/src/activities) are reads of    *)
(* the table the indexer fills: the full list, and one event by its id.    *)
(* The list is ordered by a timestamp that all rows of one poll share, so  *)
(* it is modelled as a set, and its pages are not.                         *)
(***************************************************************************)
EXTENDS Naturals, FiniteSetsExt

CONSTANTS
    Polls,          \* poll calls that may be under way together
    BatchBlocks,    \* 1000 blocks per poll
    Retention,      \* 128 blocks
    MaxHead, MaxIndexFaults, MaxStarts      \* bounds

ASSUME IndexerAssumption ==
    /\ BatchBlocks \in Nat \ {0} /\ Retention \in Nat
    /\ MaxHead \in Nat \ {0} /\ MaxIndexFaults \in Nat /\ MaxStarts \in Nat

VARIABLES
    head, logged,       \* the chain: its height, the blocks with events
    saved,              \* event_indexer_state.last_block
    rows,               \* on_chain_events: number of rows per block
    phase,              \* of the process
    last,               \* lastProcessedBlock
    poll,               \* the poll calls
    indexFaults, starts,
    unpromised,         \* history: blocks the service has given up, and logs
    repolled            \* history: polls overlapped, or the service started below
                        \* what it had stored

indexVars == <<head, logged, saved, rows, phase, last, poll, indexFaults,
               starts, unpromised, repolled>>

Blocks == 1 .. MaxHead
Idle == [step |-> "idle", from |-> 0, to |-> 0]
PollSteps == {"idle", "head", "logs", "insert", "save"}

IndexTypeOK ==
    /\ head \in 0 .. MaxHead /\ last \in 0 .. MaxHead /\ saved \in 0 .. MaxHead
    /\ logged \in SUBSET Blocks /\ unpromised \in SUBSET Blocks
    /\ rows \in [Blocks -> 0 .. 2]
    /\ phase \in {"down", "base", "gap", "running", "stopping"}
    /\ poll \in [Polls -> [step : PollSteps, from : 0 .. MaxHead + 1,
                           to : 0 .. MaxHead]]

IndexInit ==
    /\ head = 1 /\ logged = {} /\ saved = 0
    /\ rows = [b \in Blocks |-> 0]
    /\ phase = "down" /\ last = 0
    /\ poll = [p \in Polls |-> Idle]
    /\ indexFaults = 0 /\ starts = 0
    /\ unpromised = {} /\ repolled = FALSE

IndexFault == indexFaults < MaxIndexFaults /\ indexFaults' = indexFaults + 1
PollTo(p, step) == poll' = [poll EXCEPT ![p].step = step]
PollEnds(p) == poll' = [poll EXCEPT ![p] = Idle]

-----------------------------------------------------------------------------
Mine(hasEvents) ==
    /\ head < MaxHead
    /\ head' = head + 1
    /\ logged' = IF hasEvents THEN logged \cup {head'} ELSE logged
    /\ UNCHANGED <<saved, rows, phase, last, poll, indexFaults, starts,
                   unpromised, repolled>>

\* onModuleInit reads the checkpoint; an error leaves it at zero.
Start ==
    /\ phase = "down" /\ starts < MaxStarts
    /\ starts' = starts + 1
    /\ \/ last' = saved /\ UNCHANGED indexFaults
       \/ IndexFault /\ last' = 0
    /\ repolled' = (repolled \/ (last' # 0 /\ \E b \in Blocks : rows[b] > 0 /\ b > last'))
    /\ phase' = IF last' = 0 THEN "base" ELSE "gap"
    /\ UNCHANGED <<head, logged, saved, rows, poll, unpromised>>

\* Without a checkpoint the service starts at the head: older blocks stay out.
StartAtHead ==
    /\ phase = "base"
    /\ \/ /\ last' = head /\ phase' = "gap"
          /\ unpromised' = unpromised \cup (1 .. head)
          /\ UNCHANGED indexFaults
       \/ IndexFault /\ phase' = "down" /\ UNCHANGED <<last, unpromised>>
    /\ UNCHANGED <<head, logged, saved, rows, poll, starts, repolled>>

\* A gap beyond the node's retention is clamped, and the clamp is saved.
StartPolling ==
    /\ phase = "gap"
    /\ \/ /\ phase' = "running"
          /\ \/ /\ head > last + Retention
                /\ last' = head - Retention
                /\ unpromised' = unpromised \cup (last + 1 .. last')
                /\ \/ saved' = last' /\ UNCHANGED indexFaults
                   \/ IndexFault /\ UNCHANGED saved
             \/ /\ head <= last + Retention
                /\ UNCHANGED <<last, saved, unpromised, indexFaults>>
       \/ IndexFault /\ phase' = "down" /\ UNCHANGED <<last, saved, unpromised>>
    /\ UNCHANGED <<head, logged, rows, poll, starts, repolled>>

\* onModuleDestroy stops the timer; a poll under way goes on.
Stop ==
    /\ phase = "running"
    /\ phase' = "stopping"
    /\ UNCHANGED <<head, logged, saved, rows, last, poll, indexFaults, starts,
                   unpromised, repolled>>

\* The process exits or crashes, at any time.
Exit ==
    /\ phase # "down"
    /\ phase' = "down"
    /\ poll' = [p \in Polls |-> Idle]
    /\ UNCHANGED <<head, logged, saved, rows, last, indexFaults, starts,
                   unpromised, repolled>>

-----------------------------------------------------------------------------
Tick(p) ==
    /\ phase = "running"
    /\ poll[p].step = "idle"
    /\ PollTo(p, "head")
    /\ repolled' = (repolled \/ \E q \in Polls : poll[q].step # "idle")
    /\ UNCHANGED <<head, logged, saved, rows, phase, last, indexFaults, starts,
                   unpromised>>

FirstBlock == last + 1
\* Mutant: the batch is counted from zero.
LastBlockShort == Min({head, FirstBlock + BatchBlocks - 2})

LastBlock == Min({head, FirstBlock + BatchBlocks - 1})

ReadHead(p) ==
    /\ poll[p].step = "head"
    /\ \/ /\ FirstBlock <= head
          /\ poll' = [poll EXCEPT ![p] =
                [step |-> "logs", from |-> FirstBlock, to |-> LastBlock]]
          /\ UNCHANGED indexFaults
       \/ FirstBlock > head /\ PollEnds(p) /\ UNCHANGED indexFaults
       \/ IndexFault /\ PollEnds(p)
    /\ UNCHANGED <<head, logged, saved, rows, phase, last, starts, unpromised,
                   repolled>>

Found(p) == { b \in logged : poll[p].from <= b /\ b <= poll[p].to }

\* Mutant: the checkpoint in memory moves before the events are stored.
ReadLogsAhead(p) ==
    /\ poll[p].step = "logs"
    /\ \/ /\ PollTo(p, IF Found(p) # {} THEN "insert" ELSE "save")
          /\ last' = poll[p].to /\ UNCHANGED indexFaults
       \/ IndexFault /\ PollEnds(p) /\ UNCHANGED last
    /\ UNCHANGED <<head, logged, saved, rows, phase, starts, unpromised, repolled>>

\* With no events the checkpoint moves at once, with events after the insert.
ReadLogs(p) ==
    /\ poll[p].step = "logs"
    /\ \/ /\ Found(p) # {} /\ PollTo(p, "insert")
          /\ UNCHANGED <<last, indexFaults>>
       \/ /\ Found(p) = {} /\ PollTo(p, "save")
          /\ last' = poll[p].to /\ UNCHANGED indexFaults
       \/ IndexFault /\ PollEnds(p) /\ UNCHANGED last
    /\ UNCHANGED <<head, logged, saved, rows, phase, starts, unpromised, repolled>>

PersistEvents(p) ==
    /\ poll[p].step = "insert"
    /\ \/ /\ rows' = [b \in Blocks |->
                IF b \in Found(p) THEN Min({2, rows[b] + 1}) ELSE rows[b]]
          /\ UNCHANGED <<unpromised, indexFaults>>
       \/ /\ IndexFault
          /\ unpromised' = unpromised \cup Found(p)
          /\ UNCHANGED rows
    /\ last' = poll[p].to
    /\ PollTo(p, "save")
    /\ UNCHANGED <<head, logged, saved, phase, starts, repolled>>

SaveCheckpoint(p) ==
    /\ poll[p].step = "save"
    /\ \/ saved' = poll[p].to /\ UNCHANGED indexFaults
       \/ IndexFault /\ UNCHANGED saved
    /\ PollEnds(p)
    /\ UNCHANGED <<head, logged, rows, phase, last, starts, unpromised, repolled>>

PollStep(p) == ReadHead(p) \/ ReadLogs(p) \/ PersistEvents(p) \/ SaveCheckpoint(p)

IndexNext ==
    \/ \E hasEvents \in BOOLEAN : Mine(hasEvents)
    \/ Start \/ StartAtHead \/ StartPolling \/ Stop \/ Exit
    \/ \E p \in Polls : Tick(p) \/ PollStep(p)

\* The interval timer fires while the service runs, and awaited calls return.
IndexFairness ==
    /\ WF_indexVars(\E p \in Polls : Tick(p))
    /\ \A p \in Polls : WF_indexVars(PollStep(p))

-----------------------------------------------------------------------------
\* The rows of the table: block, and which of its copies.
Table == { row \in Blocks \X (1 .. 2) : row[2] <= rows[row[1]] }

\* mapEventToEntity, and the id by which the event is opened.
Entity(row) == [id |-> row[1], status |-> "SUCCESS"]

FindAll == { Entity(row) : row \in Table }

\* Mutant: the log index in the id is counted from one.
FindByIdNext(id) ==
    LET found == { row \in Table : row[1] = id + 1 }
    IN  IF Cardinality(found) = 1 THEN {Entity(row) : row \in found} ELSE {}

\* .single() is an error, answered as null, unless exactly one row matches.
FindById(id) ==
    LET found == { row \in Table : row[1] = id }
    IN  IF Cardinality(found) = 1 THEN {Entity(row) : row \in found} ELSE {}

-----------------------------------------------------------------------------
Settled(b) == rows[b] > 0 \/ b \in unpromised

(***************************************************************************)
(* "Last block we processed - persisted in Supabase for restarts",         *)
(* event-indexer.service.ts:45: whatever polls overlap, fail or are cut    *)
(* off by a crash, no checkpoint - in memory or saved - has passed an      *)
(* event that is neither stored nor given up with a logged error.          *)
(***************************************************************************)
CheckpointSkipsNothing ==
    \A b \in logged : b <= saved \/ (phase # "down" /\ b <= last) => Settled(b)

(***************************************************************************)
(* Each event of the full list can be opened by its id (findById,          *)
(* activity.repository.impl.ts:73), over failed inserts and restarts, as   *)
(* long as no poll has run beside another one and no start has found a     *)
(* checkpoint below what was stored: then a batch may be stored twice, and *)
(* .single() finds neither copy of an event.                               *)
(***************************************************************************)
StoredEventsAreFound == repolled \/ \A e \in FindAll : FindById(e.id) = {e}

(***************************************************************************)
(* While the service stays up, every event gets into the table or is given *)
(* up (pollEvents, event-indexer.service.ts:148).                          *)
(***************************************************************************)
EventsSettle ==
    <>[](phase = "running") => \A b \in Blocks : (b \in logged) ~> Settled(b)
=============================================================================
