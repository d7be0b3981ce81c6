-------------------------- MODULE BuilderWorkspace --------------------------
(***************************************************************************)
(* The strategies screen: the drafts (ui/screens/market.jsx) and the       *)
(* editor of the one that is open (builder-workspace.jsx).  Where a node   *)
(* stands and how it is configured is its graph's "look".  The editor      *)
(* stays mounted while another draft is opened, and its keyboard handler   *)
(* keeps writing to the draft it was mounted with.                         *)
(***************************************************************************)
EXTENDS StrategyGraph

CONSTANTS
    Ids,            \* node ids; a fresh one was never used before
    DraftIds,
    Templates,      \* as the types of their nodes and the links between them
    AiPlans,        \* the types of the steps of an answer
    MaxHistory,     \* 50
    Looks           \* bound: the arrangements of a graph

ASSUME BuilderAssumption == MaxHistory \in Nat /\ MaxHistory >= 2

VARIABLES
    drafts,         \* the drafts by id, kept in localStorage
    shelf,          \* their ids, the newest first
    open,           \* selectedId
    keysWrite,      \* the draft the keyboard handler's closure writes to
    history,        \* the editor's past, future and last snapshot
    selected, selectedEdge, multiSelected, clipboard, pending,
    deleteWrites,   \* the draft deleteSelected writes to, until the selection changes
    asked           \* the draft an AI answer is awaited for

selectionVars == <<selected, selectedEdge, multiSelected, deleteWrites>>

builderVars == <<drafts, shelf, open, keysWrite, history, selectionVars, clipboard, pending,
                 asked>>

Nobody == "none"
NoDraft == [nodes |-> <<>>, edges |-> <<>>, look |-> 0]
NoHistory == [past |-> <<>>, future |-> <<>>, last |-> <<>>]

BuilderTypeOK ==
    /\ ToSet(shelf) \subseteq DraftIds /\ open \in ToSet(shelf) \cup {Nobody}
    /\ keysWrite \in DraftIds \cup {Nobody} /\ (open = Nobody <=> keysWrite = Nobody)
    /\ \A d \in DraftIds : /\ ToSet(drafts[d].nodes) \subseteq Ids
                           /\ d \notin ToSet(shelf) => drafts[d] = NoDraft
    /\ Len(history.past) <= MaxHistory
    /\ selected \in Ids \cup {Nobody} /\ selectedEdge \in Nat /\ multiSelected \subseteq Ids
    /\ deleteWrites \in DraftIds \cup {Nobody} /\ pending \in Ids \cup {Nobody} /\ asked \in DraftIds \cup {Nobody}
    /\ ToSet(clipboard) \subseteq Ids

BuilderInit ==
    /\ drafts = [d \in DraftIds |-> NoDraft] /\ shelf = <<>>
    /\ open = Nobody /\ keysWrite = Nobody /\ history = NoHistory
    /\ selected = Nobody /\ selectedEdge = 0 /\ multiSelected = {} /\ deleteWrites = Nobody
    /\ clipboard = <<>> /\ pending = Nobody /\ asked = Nobody

-----------------------------------------------------------------------------
\* Fresh ids for nodes of the given types, in order.
Graphs == {drafts[d] : d \in DraftIds} \cup ToSet(history.past) \cup ToSet(history.future)

Used ==
    UNION ({ToSet(g.nodes) : g \in Graphs} \cup {ToSet(clipboard), multiSelected, {selected, pending}}
           \cup {{e[1], e[2]} : e \in UNION {ToSet(g.edges) : g \in Graphs}})

FreshFor(types) ==
    FoldLeft(LAMBDA ids, t :
                LET free == {n \in Ids \ (Used \cup ToSet(ids)) : TypeOf(n) = t}
                IN  IF free = {} THEN ids ELSE Append(ids, CHOOSE n \in free : TRUE),
             <<>>, types)

HasFresh(types) == Len(FreshFor(types)) = Len(types)        \* bound

\* A canvas of these types, with these links between their places.
Canvas(types, links) ==
    LET ids == FreshFor(types)
    IN  [nodes |-> ids, look |-> 0,
         edges |-> [i \in DOMAIN links |-> <<ids[links[i][1]], ids[links[i][2]]>>]]

\* pushHistory, from the effect that follows every change of what is shown.
PushHistory(h, g) ==
    IF h.last = g THEN h
    ELSE [past   |-> IF Len(h.past) < MaxHistory THEN Append(h.past, g)
                     ELSE Append(Tail(h.past), g),
          future |-> <<>>, last |-> g]

\* setNodes and setEdges of a draft; the effect sees only the open one.
Edit(d, g) ==
    /\ drafts' = IF d \in ToSet(shelf) THEN [drafts EXCEPT ![d] = g] ELSE drafts
    /\ history' = IF d = open THEN PushHistory(history, g) ELSE history

Shown == drafts[open]
Written == drafts[keysWrite]
AddedTo(g, n) == [g EXCEPT !.nodes = Append(@, n)]

\* deleteSelected is a callback of the selection: it is made anew, for the
\* draft that is open, only when the selection is set to something else.
SelectFor(d, n, edge, ns) ==
    /\ selected' = n /\ selectedEdge' = edge /\ multiSelected' = ns
    /\ deleteWrites' = IF <<n, edge, ns>> = <<selected, selectedEdge, multiSelected>>
                       THEN deleteWrites ELSE d

Select(n, edge, ns) == SelectFor(open, n, edge, ns)

SelectOne(n) == Select(n, selectedEdge, multiSelected)

\* Selection follows the workflow that is opened.
SelectIn(d, g) ==
    SelectFor(d, IF selected \in ToSet(g.nodes) THEN selected
                 ELSE IF g.nodes = <<>> THEN Nobody ELSE g.nodes[1],
              selectedEdge, multiSelected)

\* The editor's state when it mounts on a draft, or when there is none.
Mount(d, ds) ==
    /\ open' = d /\ keysWrite' = d /\ deleteWrites' = d
    /\ history' = IF d = Nobody THEN NoHistory ELSE PushHistory(NoHistory, ds[d])
    /\ selected' = IF d = Nobody THEN Nobody
                   ELSE IF ds[d].nodes = <<>> THEN Nobody ELSE ds[d].nodes[1]
    /\ selectedEdge' = 0 /\ multiSelected' = {} /\ clipboard' = <<>> /\ pending' = Nobody

\* The screen shows this draft: the editor is kept if it was there.
ShowDraft(d, ds) ==
    IF Nobody \in {open, d} THEN Mount(d, ds)
    ELSE /\ open' = d /\ history' = PushHistory(history, ds[d]) /\ SelectIn(d, ds[d])
         /\ UNCHANGED <<keysWrite, clipboard, pending>>

-----------------------------------------------------------------------------
\* createDraft and forkCommunity: a template with fresh ids.
CreateDraft(t) ==
    \E d \in DraftIds \ (ToSet(shelf) \cup {keysWrite, deleteWrites, asked}) :
        /\ HasFresh(t.types)
        /\ drafts' = [drafts EXCEPT ![d] = Canvas(t.types, t.links)]
        /\ shelf' = <<d>> \o shelf
        /\ ShowDraft(d, drafts')
        /\ UNCHANGED asked

OpenDraft(d) ==
    /\ d \in ToSet(shelf) \ {open} /\ ShowDraft(d, drafts)
    /\ UNCHANGED <<drafts, shelf, asked>>

DeleteDraft(d) ==
    /\ d \in ToSet(shelf)
    /\ drafts' = [drafts EXCEPT ![d] = NoDraft]
    /\ \E i \in DOMAIN shelf : shelf[i] = d /\ shelf' = RemoveAt(shelf, i)
    /\ IF d = open THEN ShowDraft(IF shelf' = <<>> THEN Nobody ELSE shelf'[1], drafts')
       ELSE UNCHANGED <<open, keysWrite, history, selectionVars, clipboard, pending>>
    /\ UNCHANGED asked

\* Another route, or a reload: what the editor holds is gone, the drafts are
\* read again, and the first of them is opened.
Remount ==
    /\ open # Nobody /\ Mount(shelf[1], drafts) /\ asked' = Nobody
    /\ UNCHANGED <<drafts, shelf>>

-----------------------------------------------------------------------------
\* onCanvasDrop, and Enter in the palette.
AddNode(t) ==
    /\ open # Nobody /\ HasFresh(<<t>>)
    /\ LET n == FreshFor(<<t>>)[1] IN Edit(open, AddedTo(Shown, n)) /\ SelectOne(n)
    /\ UNCHANGED <<shelf, open, keysWrite, clipboard, pending, asked>>

\* The keys 1 to 5.
QuickAdd(t) ==
    /\ open # Nobody /\ HasFresh(<<t>>)
    /\ LET n == FreshFor(<<t>>)[1] IN Edit(keysWrite, AddedTo(Written, n)) /\ SelectOne(n)
    /\ UNCHANGED <<shelf, open, keysWrite, clipboard, pending, asked>>

\* SuggestionPill
AcceptSuggestion(n) ==
    /\ open # Nobody /\ n \in DeadEnds(Shown.nodes, Shown.edges)
    /\ HasFresh(<<NextSuggestionFor(TypeOf(n))>>)
    /\ LET m == FreshFor(<<NextSuggestionFor(TypeOf(n))>>)[1]
       IN  /\ Edit(open, [AddedTo(Shown, m) EXCEPT !.edges = Append(@, <<n, m>>)])
           /\ SelectOne(m)
    /\ UNCHANGED <<shelf, open, keysWrite, clipboard, pending, asked>>

\* onPortClick; the node the link starts from may be gone by now.
ClickPort(n, kind) ==
    /\ open # Nobody /\ n \in ToSet(Shown.nodes)
    /\ IF kind = "out" THEN pending' = n /\ UNCHANGED <<drafts, history>>
       ELSE /\ pending \notin {Nobody, n} /\ pending' = Nobody
            /\ Edit(open, IF <<pending, n>> \in ToSet(Shown.edges) THEN Shown
                          ELSE [Shown EXCEPT !.edges = Append(@, <<pending, n>>)])
    /\ UNCHANGED <<shelf, open, keysWrite, selectionVars, clipboard, asked>>

\* EdgePopover's delete; an edge stays selected when the list it counts in
\* changes.
DeleteEdge ==
    /\ open # Nobody /\ selectedEdge \in DOMAIN Shown.edges
    /\ Edit(open, [Shown EXCEPT !.edges = RemoveAt(@, selectedEdge)])
    /\ Select(selected, 0, multiSelected)
    /\ UNCHANGED <<shelf, open, keysWrite, clipboard, pending, asked>>

Without(g, ns) ==
    [g EXCEPT !.nodes = SelectSeq(@, LAMBDA n : n \notin ns),
              !.edges = SelectSeq(@, LAMBDA e : ns \cap {e[1], e[2]} = {})]

\* deleteSelected, by its button or by the key.
DeleteSelected ==
    /\ open # Nobody /\ (selected # Nobody \/ selectedEdge # 0)
    /\ LET g == drafts[deleteWrites]
       IN  IF selectedEdge # 0
           THEN /\ Edit(deleteWrites, IF selectedEdge \in DOMAIN g.edges
                                      THEN [g EXCEPT !.edges = RemoveAt(@, selectedEdge)] ELSE g)
                /\ Select(selected, 0, multiSelected)
           ELSE /\ Edit(deleteWrites,
                        Without(g, IF multiSelected = {} THEN {selected} ELSE multiSelected))
                /\ Select(Nobody, 0, {})
    /\ UNCHANGED <<shelf, open, keysWrite, clipboard, pending, asked>>

\* A click on a node, with the command key or without it.
SelectNode(n, more) ==
    /\ open # Nobody /\ n \in ToSet(Shown.nodes)
    /\ IF more THEN Select(n, selectedEdge, IF n \in multiSelected THEN multiSelected \ {n}
                                            ELSE multiSelected \cup {n})
       ELSE Select(n, 0, IF n \in multiSelected THEN multiSelected ELSE {})
    /\ UNCHANGED <<drafts, shelf, open, keysWrite, history, clipboard, pending, asked>>

\* A click on an edge whose ends are both there.
SelectEdge(i) ==
    /\ open # Nobody /\ i \in DOMAIN Shown.edges
    /\ {Shown.edges[i][1], Shown.edges[i][2]} \subseteq ToSet(Shown.nodes)
    /\ Select(Nobody, i, multiSelected) /\ pending' = Nobody
    /\ UNCHANGED <<drafts, shelf, open, keysWrite, history, clipboard, asked>>

\* A click beside all, Escape, and R, which clears the set as well.
SelectNothing ==
    /\ open # Nobody /\ pending' = Nobody
    /\ \E ns \in {{}, multiSelected} : Select(Nobody, 0, ns)
    /\ UNCHANGED <<drafts, shelf, open, keysWrite, history, clipboard, asked>>

\* Tab, or with shift: the next node of the walk, or the one before.
Tab(back) ==
    /\ open # Nobody /\ Shown.nodes # <<>>
    /\ LET order == WalkOrder(Shown.nodes, Shown.edges)
           at    == SelectInSeq(order, LAMBDA n : n = selected)
           to    == IF ~back THEN at % Len(order)
                    ELSE (IF at = 0 THEN 2 * Len(order) - 2 ELSE at + Len(order) - 2) % Len(order)
       IN  Select(order[to + 1], 0, multiSelected)
    /\ UNCHANGED <<drafts, shelf, open, keysWrite, history, clipboard, pending, asked>>

SelectAll ==
    /\ open # Nobody /\ Select(selected, selectedEdge, ToSet(Shown.nodes))
    /\ UNCHANGED <<drafts, shelf, open, keysWrite, history, clipboard, pending, asked>>

\* Dragging, nudging, configuring and the button that organises.
Restyle(look) ==
    /\ open # Nobody /\ look # Shown.look /\ Shown.nodes # <<>>
    /\ Edit(open, [Shown EXCEPT !.look = look])
    /\ UNCHANGED <<shelf, open, keysWrite, selectionVars, clipboard, pending, asked>>

\* The key O.
OrganizeByKey(look) ==
    /\ open # Nobody /\ look # Written.look /\ Written.nodes # <<>>
    /\ Edit(keysWrite, [Written EXCEPT !.look = look])
    /\ UNCHANGED <<shelf, open, keysWrite, selectionVars, clipboard, pending, asked>>

-----------------------------------------------------------------------------
\* What copy and duplicate take: a node that is gone throws.
Taken ==
    LET ns == IF multiSelected # {} THEN multiSelected ELSE {selected} \ {Nobody}
    IN  IF ns \subseteq ToSet(Shown.nodes) THEN SelectSeq(Shown.nodes, LAMBDA n : n \in ns)
        ELSE <<>>

TypesOf(ns) == [i \in DOMAIN ns |-> TypeOf(ns[i])]

Copy ==
    /\ open # Nobody /\ Taken # <<>> /\ clipboard' = Taken
    /\ UNCHANGED <<drafts, shelf, open, keysWrite, history, selectionVars, pending,
                   asked>>

\* Without the edges.
Duplicate ==
    /\ open # Nobody /\ Taken # <<>> /\ HasFresh(TypesOf(Taken))
    /\ LET new == FreshFor(TypesOf(Taken))
       IN  /\ Edit(keysWrite, [Written EXCEPT !.nodes = @ \o new])
           /\ Select(selected, selectedEdge, ToSet(new))
    /\ UNCHANGED <<shelf, open, keysWrite, clipboard, pending, asked>>

\* With the edges the open draft has between the copied nodes now.
Paste ==
    /\ open # Nobody /\ clipboard # <<>> /\ HasFresh(TypesOf(clipboard))
    /\ LET new    == FreshFor(TypesOf(clipboard))
           New(n) == new[SelectInSeq(clipboard, LAMBDA m : m = n)]
           linked == SelectSeq(Shown.edges, LAMBDA e : {e[1], e[2]} \subseteq ToSet(clipboard))
       IN  /\ Edit(keysWrite, [Written EXCEPT
                      !.nodes = @ \o new,
                      !.edges = @ \o [i \in DOMAIN linked |->
                                         <<New(linked[i][1]), New(linked[i][2])>>]])
           /\ Select(selected, selectedEdge, ToSet(new))
    /\ UNCHANGED <<shelf, open, keysWrite, clipboard, pending, asked>>

ApplyMerge ==
    /\ open # Nobody /\ "tip" \in DetectIssues(Shown.nodes, Shown.edges)
    /\ LET m == MergeSwaps(Shown.nodes, Shown.edges)
       IN  Edit(open, [Shown EXCEPT !.nodes = m.nodes, !.edges = m.edges])
    /\ UNCHANGED <<shelf, open, keysWrite, selectionVars, clipboard, pending, asked>>

-----------------------------------------------------------------------------
\* Mutant: an undo does not tell the effect what it brought back.
RestoreForgets(past, future, g) == PushHistory([past |-> past, future |-> future,
                                                last |-> history.last], g)

\* An undo or redo sets the draft and the last snapshot; then the effect runs.
Restore(past, future, g) == PushHistory([past |-> past, future |-> future, last |-> g], g)

Undo ==
    /\ open # Nobody /\ Len(history.past) >= 2
    /\ LET past == Front(history.past)
       IN  /\ drafts' = [drafts EXCEPT ![open] = Last(past)]
           /\ history' = Restore(past, Append(history.future, Last(history.past)), Last(past))
    /\ UNCHANGED <<shelf, open, keysWrite, selectionVars, clipboard, pending, asked>>

Redo ==
    /\ open # Nobody /\ history.future # <<>>
    /\ LET next == Last(history.future)
       IN  /\ drafts' = [drafts EXCEPT ![open] = next]
           /\ history' = Restore(Append(history.past, next), Front(history.future), next)
    /\ UNCHANGED <<shelf, open, keysWrite, selectionVars, clipboard, pending, asked>>

-----------------------------------------------------------------------------
\* handleAIGenerate: the answer replaces the canvas of the draft that asked.
AskAi ==
    /\ open # Nobody /\ asked = Nobody /\ asked' = open
    /\ UNCHANGED <<drafts, shelf, open, keysWrite, history, selectionVars, clipboard,
                   pending>>

AiAnswers(plan) ==
    /\ asked # Nobody /\ asked' = Nobody
    /\ LET c == AiStepsToCanvas(plan)
       IN  IF c.types = <<>> THEN UNCHANGED <<drafts, history>>
           ELSE HasFresh(c.types) /\ Edit(asked, Canvas(c.types, c.links))
    /\ UNCHANGED <<shelf, open, keysWrite, selectionVars, clipboard, pending>>

BuilderNext ==
    \/ \E t \in Templates : CreateDraft(t)
    \/ \E d \in DraftIds : OpenDraft(d) \/ DeleteDraft(d)
    \/ \E t \in NodeTypes : AddNode(t) \/ QuickAdd(t)
    \/ \E n \in Ids : \/ AcceptSuggestion(n) \/ ClickPort(n, "in") \/ ClickPort(n, "out")
                      \/ SelectNode(n, TRUE) \/ SelectNode(n, FALSE)
    \/ \E i \in 1 .. Cardinality(Ids) ^ 2 : SelectEdge(i)
    \/ \E look \in Looks : Restyle(look) \/ OrganizeByKey(look)
    \/ \E back \in BOOLEAN : Tab(back)
    \/ \E plan \in AiPlans : AiAnswers(plan)
    \/ Remount \/ DeleteEdge \/ DeleteSelected \/ SelectNothing \/ SelectAll
    \/ Copy \/ Duplicate \/ Paste \/ ApplyMerge \/ Undo \/ Redo \/ AskAi

-----------------------------------------------------------------------------
Timeline(h) == h.past \o Reverse(h.future)

\* Undo and redo move along one line of graphs that ends at the one shown, and
\* only a new graph branches off it: what was undone is there to redo, whatever
\* the effect that follows every render makes of the change, and also when
\* another draft is opened between (builder-workspace.jsx:408, 452 and 462).
UndoLosesNothing ==
    [][ open # Nobody /\ open' # Nobody =>
          \/ Timeline(history') = Timeline(history) /\ Last(history'.past) = drafts'[open']
          \/ history' = PushHistory(history, drafts'[open'])
          \/ history' = PushHistory(NoHistory, drafts'[open']) ]_builderVars

\* "reads from stateRef to avoid stale closures" (builder-workspace.jsx:545):
\* what a key does, it does to the draft that is open.
KeysEditTheOpenDraft ==
    [][ (\E t \in NodeTypes : QuickAdd(t)) \/ Duplicate \/ Paste \/ DeleteSelected =>
            \A d \in DraftIds \ {open} : drafts'[d] = drafts[d] ]_builderVars
=============================================================================
