----------------------------- MODULE CanvasView -----------------------------
(***************************************************************************)
(* What the strategy builder shows of a draft, apart from the draft itself *)
(* (builder-workspace.jsx, whose graph is BuilderWorkspace's matter): the  *)
(* view and the simulated run that moves it, the pointer's gestures, the   *)
(* overlays, and the timers behind the highlights; and the list beside it  *)
(* (MasterDetail in components.jsx).  A timer fires some time after it was *)
(* set, those of one run in their order.                                   *)
(***************************************************************************)
EXTENDS Integers, FiniteSets, SequencesExt

CONSTANTS
    CanvasNodes,            \* the nodes a draft may have
    MaxIdleNodes,           \* 10: beyond, the idle pulse rests
    ZoomMin, ZoomMax,       \* 0.4 and 2.2, in zoom steps
    ZoomReset, ZoomFollow,  \* 1 and 1.2
    Runs,                   \* simulated runs whose timers are set
    EdgeKeys, MaxMarks,     \* edges just drawn; bound: timers per edge
    MaxDepth,               \* bound: nested elements under a dragged palette entry
    Community               \* strategies in the list below the drafts

ASSUME CanvasAssumption ==
    /\ IsFiniteSet(CanvasNodes)
    /\ {ZoomMin, ZoomReset, ZoomFollow} \subseteq Nat /\ ZoomMax \in Nat
    /\ {ZoomReset, ZoomFollow} \subseteq ZoomMin .. ZoomMax
    /\ {MaxIdleNodes, MaxMarks, MaxDepth} \subseteq Nat \ {0} /\ Community \in Nat

VARIABLES
    placed, mounted,        \* the nodes of the draft, and how many it had at the mount
    linking,                \* an output port was clicked
    view, cameraLock,
    preSimView,             \* the view to return to, or <<>>
    running, runStep,       \* the step that is lit, 0 for none
    runs,                   \* what the timers of each run have still to do
    idle,                   \* the idle pulse: the length of its cycle, the step that is
                            \* lit, 0 for none, and the next one
    tools, gesture, drop,
    overlays, inlineConfigFor,
    recent, marks,          \* edges lit as new, and the timers that put them out
    saveTimer, savedAt,     \* the debounce, and whether "saved" is of the draft as it is
    rail, list              \* the list beside: open and stored; what is in it

simVars == <<placed, mounted, linking, view, cameraLock, preSimView, running, runStep, runs, idle>>
pointerVars == <<tools, gesture, drop>>
overlayVars == <<overlays, inlineConfigFor>>
noticeVars == <<recent, marks, saveTimer, savedAt>>
listVars == <<rail, list>>
canvasVars == <<simVars, pointerVars, overlayVars, noticeVars, listVars>>

HomeView == [scale |-> ZoomReset, pan |-> "origin"]
NoNode == "none"

CanvasTypeOK ==
    LET views == [scale : ZoomMin .. ZoomMax, pan : {"origin", "moved", "fitted", "follows"}] IN
    /\ placed \subseteq CanvasNodes /\ mounted \in 0 .. Cardinality(CanvasNodes)
    /\ {linking, cameraLock, running, saveTimer, savedAt} \subseteq BOOLEAN
    /\ view \in views /\ ToSet(preSimView) \subseteq views
    /\ runStep \in 0 .. Cardinality(CanvasNodes)
    /\ \A r \in Runs : Len(runs[r]) <= Cardinality(CanvasNodes) + 1
    /\ idle.cycle \in 0 .. MaxIdleNodes /\ {idle.pulse, idle.next} \subseteq 0 .. MaxIdleNodes + 1
    /\ tools \in [hand : BOOLEAN, space : BOOLEAN] /\ gesture \in {"none", "pan", "drag"}
    /\ drop \in [depth : 0 .. MaxDepth, active : BOOLEAN]
    /\ overlays \in SUBSET {"fullscreen", "cheat", "overflow"}
    /\ inlineConfigFor \in CanvasNodes \cup {NoNode}
    /\ recent \subseteq EdgeKeys /\ marks \in [EdgeKeys -> 0 .. MaxMarks]
    /\ rail \in [open : BOOLEAN, stored : {"none", "0", "1"}]
    /\ list.chosen \in 0 .. list.drafts

CanvasInit ==
    /\ placed \in SUBSET CanvasNodes /\ mounted = Cardinality(placed) /\ linking = FALSE
    /\ view = HomeView /\ cameraLock = TRUE /\ preSimView = <<>>
    /\ running = FALSE /\ runStep = 0 /\ runs = [r \in Runs |-> <<>>]
    /\ idle = [cycle |-> IF mounted <= MaxIdleNodes THEN mounted ELSE 0,
               pulse |-> 0, next |-> 1]
    /\ tools = [hand |-> FALSE, space |-> FALSE] /\ gesture = "none"
    /\ drop = [depth |-> 0, active |-> FALSE] /\ overlays = {} /\ inlineConfigFor = NoNode
    /\ recent = {} /\ marks = [k \in EdgeKeys |-> 0] /\ saveTimer = TRUE /\ savedAt = TRUE
    /\ \E stored \in {"none", "0", "1"} :
          rail = [open |-> stored # "0", stored |-> IF stored = "0" THEN "0" ELSE "1"]
    /\ list = [drafts |-> 1, chosen |-> 1]

-----------------------------------------------------------------------------
\* The walk order has every node once: of it, only its length is told apart.
OrderOf(ns) == Cardinality(ns)

\* The idle pulse starts again when a run, a link or the number of nodes changes;
\* it stays out while a node is dragged, and a draft that is empty or too large
\* leaves the lit step as it is.
IdleEffect(isRunning, isLinking, ns) ==
    LET same == isRunning = running /\ isLinking = linking /\ OrderOf(ns) = OrderOf(placed)
    IN  idle' = IF same THEN idle
                ELSE IF isRunning \/ isLinking \/ gesture = "drag"
                THEN [cycle |-> 0, pulse |-> 0, next |-> 1]
                ELSE [idle EXCEPT !.next = 1,
                                  !.cycle = IF OrderOf(ns) <= MaxIdleNodes THEN OrderOf(ns) ELSE 0]

\* The camera follows the lit node, and returns when nothing runs.
CameraEffect(isRunning, step, lock, viewNow, saved) ==
    IF ~lock \/ <<isRunning, step, lock>> = <<running, runStep, cameraLock>>
    THEN view' = viewNow /\ preSimView' = saved
    ELSE IF isRunning /\ step \in 1 .. OrderOf(placed)
    THEN view' = [scale |-> ZoomFollow, pan |-> "follows"] /\ preSimView' = saved
    ELSE IF ~isRunning /\ saved # <<>>
    THEN view' = saved[1] /\ preSimView' = <<>>
    ELSE view' = viewNow /\ preSimView' = saved

\* Mutant: the end is timed one step too early.
ScheduleShort(n) == [i \in 1 .. n - 1 |-> i] \o <<0, n>>

\* The timers of a run: each step, and the end.
Schedule(n) == [i \in 1 .. n |-> i] \o <<0>>

RunSim(r, n, from) ==
    /\ n > 0 /\ runs[r] = <<>> /\ runs' = [runs EXCEPT ![r] = Schedule(n)]
    /\ running' = TRUE /\ runStep' = 0
    /\ CameraEffect(TRUE, 0, cameraLock, view, <<from>>)
    /\ IdleEffect(TRUE, linking, placed)
    /\ UNCHANGED <<placed, mounted, linking, cameraLock, pointerVars, overlayVars, noticeVars,
                   listVars>>

ClickSimulate(r) == ~running /\ RunSim(r, OrderOf(placed), view)

\* The S key has the simulation of the mount: nothing runs, and the draft and the
\* view are those of the beginning.
KeySimulate(r) == RunSim(r, mounted, HomeView)

RunTimer(r) ==
    /\ runs[r] # <<>> /\ runs' = [runs EXCEPT ![r] = Tail(@)]
    /\ LET step == Head(runs[r])
       IN  /\ running' = (running /\ step # 0) /\ runStep' = step
           /\ CameraEffect(running', step, cameraLock, view, preSimView)
    /\ IdleEffect(running', linking, placed)
    /\ UNCHANGED <<placed, mounted, linking, cameraLock, pointerVars, overlayVars, noticeVars,
                   listVars>>

\* An interval of the idle pulse; its last step lights nothing.
IdleTick ==
    /\ idle.cycle > 0
    /\ idle' = [idle EXCEPT !.pulse = idle.next, !.next = (idle.next % (idle.cycle + 1)) + 1]
    /\ UNCHANGED <<placed, mounted, linking, view, cameraLock, preSimView, running, runStep, runs,
                   pointerVars, overlayVars, noticeVars, listVars>>

\* The draft changes: the debounce starts again.
EditNodes(ns) ==
    /\ placed' = ns /\ saveTimer' = TRUE /\ savedAt' = FALSE
    /\ IdleEffect(running, linking, ns)
    /\ UNCHANGED <<mounted, linking, view, cameraLock, preSimView, running, runStep, runs,
                   pointerVars, overlayVars, recent, marks, listVars>>

Link(on) ==
    /\ linking' = on /\ IdleEffect(running, on, placed)
    /\ UNCHANGED <<placed, mounted, view, cameraLock, preSimView, running, runStep, runs,
                   pointerVars, overlayVars, noticeVars, listVars>>

-----------------------------------------------------------------------------
Steady == UNCHANGED <<placed, mounted, linking, running, runStep, runs, idle, overlayVars,
                      noticeVars, listVars>>

ToggleCameraLock ==
    /\ cameraLock' = ~cameraLock
    /\ CameraEffect(running, runStep, cameraLock', view, preSimView)
    /\ Steady /\ UNCHANGED pointerVars

Views(v) == view' = v /\ Steady /\ UNCHANGED <<cameraLock, preSimView>>

\* The buttons, the keys and the wheel with a modifier, which also keeps the place
\* under the pointer.
Zoom(by, pan) ==
    LET to == view.scale + by
    IN  /\ Views([scale |-> IF to > ZoomMax THEN ZoomMax ELSE IF to < ZoomMin THEN ZoomMin ELSE to,
                  pan |-> pan])
        /\ UNCHANGED pointerVars
ResetZoom == Views(HomeView) /\ UNCHANGED pointerVars

\* fitAll, and the zoom to the selection; an empty draft has nothing to fit.
FitAll(scale) ==
    placed # {} /\ Views([scale |-> scale, pan |-> "fitted"]) /\ UNCHANGED pointerVars
WheelPan == Views([view EXCEPT !.pan = "moved"]) /\ UNCHANGED pointerVars

\* A press on the canvas pans; on a node it drags, also with the hand tool or the
\* space key: the node keeps the press to itself.
PressCanvas == gesture = "none" /\ gesture' = "pan" /\ Steady
               /\ UNCHANGED <<view, cameraLock, preSimView, tools, drop>>
PressNode ==
    /\ gesture = "none" /\ placed # {} /\ gesture' = "drag" /\ Steady
    /\ UNCHANGED <<view, cameraLock, preSimView, tools, drop>>
PanMoves == gesture = "pan" /\ Views([view EXCEPT !.pan = "moved"]) /\ UNCHANGED pointerVars
Release == gesture # "none" /\ gesture' = "none" /\ Steady
           /\ UNCHANGED <<view, cameraLock, preSimView, tools, drop>>

\* A space key that is let go in another window stays held.
Tools(hand, space) ==
    /\ tools' = [hand |-> hand, space |-> space] /\ Steady
    /\ UNCHANGED <<view, cameraLock, preSimView, gesture, drop>>

\* A palette entry over the canvas enters and leaves every element it crosses.
DragOver(by) ==
    /\ drop' = IF by = 1 THEN [depth |-> drop.depth + 1, active |-> TRUE]
               ELSE LET depth == IF drop.depth = 0 THEN 0 ELSE drop.depth - 1
                    IN  [depth |-> depth, active |-> drop.active /\ depth # 0]
    /\ drop'.depth <= MaxDepth /\ Steady
    /\ UNCHANGED <<view, cameraLock, preSimView, tools, gesture>>

\* An entry of a type the draft does not know is dropped for nothing.
DropEntry(ns) ==
    /\ placed \subseteq ns /\ Cardinality(ns) <= Cardinality(placed) + 1
    /\ drop' = [depth |-> 0, active |-> FALSE]
    /\ placed' = ns /\ saveTimer' = (saveTimer \/ ns # placed)
    /\ savedAt' = (savedAt /\ ns = placed) /\ IdleEffect(running, linking, ns)
    /\ UNCHANGED <<mounted, linking, view, cameraLock, preSimView, running, runStep, runs, tools,
                   gesture, overlayVars, recent, marks, listVars>>

-----------------------------------------------------------------------------
Overlaid == UNCHANGED <<simVars, pointerVars, noticeVars, listVars>>

Toggle(o) ==
    overlays' = SymDiff(overlays, {o}) /\ Overlaid /\ UNCHANGED inlineConfigFor

\* Any click outside closes the menu.
ClickElsewhere ==
    /\ "overflow" \in overlays /\ overlays' = overlays \ {"overflow"}
    /\ Overlaid /\ UNCHANGED inlineConfigFor

\* A double click, or Enter unless one is set already; a node that is deleted
\* meanwhile leaves it set.
OpenConfig(n) == n \in placed /\ inlineConfigFor' = n /\ Overlaid /\ UNCHANGED overlays
CloseConfig ==
    inlineConfigFor # NoNode /\ inlineConfigFor' = NoNode /\ Overlaid /\ UNCHANGED overlays

\* Escape closes one thing at a time, and then ends the link.
Escape ==
    IF inlineConfigFor # NoNode THEN CloseConfig
    ELSE IF "fullscreen" \in overlays THEN Toggle("fullscreen")
    ELSE IF "cheat" \in overlays THEN Toggle("cheat")
    ELSE linking /\ Link(FALSE)

\* markRecentEdge: an edge drawn again has a timer for each time.
MarkRecentEdge(k) ==
    /\ marks[k] < MaxMarks /\ marks' = [marks EXCEPT ![k] = @ + 1] /\ recent' = recent \cup {k}
    /\ UNCHANGED <<simVars, pointerVars, overlayVars, saveTimer, savedAt, listVars>>
MarkTimer(k) ==
    /\ marks[k] > 0 /\ marks' = [marks EXCEPT ![k] = @ - 1] /\ recent' = recent \ {k}
    /\ UNCHANGED <<simVars, pointerVars, overlayVars, saveTimer, savedAt, listVars>>
SaveTimer ==
    /\ saveTimer /\ saveTimer' = FALSE /\ savedAt' = TRUE
    /\ UNCHANGED <<simVars, pointerVars, overlayVars, recent, marks, listVars>>

-----------------------------------------------------------------------------
Beside == UNCHANGED <<simVars, pointerVars, overlayVars, noticeVars>>

ToggleRail ==
    /\ rail' = [open |-> ~rail.open, stored |-> IF rail.open THEN "0" ELSE "1"]
    /\ Beside /\ UNCHANGED list

\* A click on a draft opens it, on a community strategy it forks one, which comes
\* first.
ClickItem(i) ==
    list' = IF i <= list.drafts THEN [list EXCEPT !.chosen = i]
            ELSE [drafts |-> list.drafts + 1, chosen |-> 1]

\* J, K and the arrows click the next item of the list, round and round, also while
\* an arrow moves the selected node.
ListKey(forward) ==
    LET n == list.drafts + Community IN
    /\ n > 0 /\ list.drafts < Community + 1       \* bound
    /\ ClickItem(IF forward THEN (list.chosen % n) + 1
                 ELSE IF list.chosen <= 1 THEN n ELSE list.chosen - 1)
    /\ Beside /\ UNCHANGED rail

CanvasNext ==
    \/ \E r \in Runs : ClickSimulate(r) \/ KeySimulate(r) \/ RunTimer(r)
    \/ IdleTick \/ ToggleCameraLock \/ ResetZoom \/ WheelPan \/ PanMoves
    \/ \E ns \in SUBSET CanvasNodes : EditNodes(ns) \/ DropEntry(ns)
    \/ \E on \in BOOLEAN : Link(on) \/ ListKey(on) \/ \E space \in BOOLEAN : Tools(on, space)
    \/ \E by \in {-1, 1} : DragOver(by) \/ \E pan \in {view.pan, "moved"} : Zoom(by, pan)
    \/ \E scale \in ZoomMin .. ZoomMax : FitAll(scale)
    \/ PressCanvas \/ PressNode \/ Release
    \/ \E o \in {"fullscreen", "cheat", "overflow"} : Toggle(o)
    \/ ClickElsewhere \/ CloseConfig \/ Escape \/ SaveTimer \/ ToggleRail
    \/ \E n \in CanvasNodes : OpenConfig(n)
    \/ \E k \in EdgeKeys : MarkRecentEdge(k) \/ MarkTimer(k)

-----------------------------------------------------------------------------
\* The simulation never stays on: while a step is lit or the Simulate button is
\* disabled, the timer that ends a run is still to come, also when the S key, which
\* knows nothing of a run under way, has started a second one over the first
\* (builder-workspace.jsx:512 and 638).
SimulationEnds ==
    running \/ runStep # 0 => \E r \in Runs : 0 \in ToSet(runs[r])
=============================================================================
