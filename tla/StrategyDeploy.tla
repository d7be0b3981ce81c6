--------------------------- MODULE StrategyDeploy ---------------------------
(***************************************************************************)
(* The builder's Deploy button (builder-workspace.jsx): the canvas becomes *)
(* a list of transactions that are sent one by one.  Two or more modules   *)
(* go through the Composer, one position for each connected part; a single *)
(* one commits and executes for itself.  Leaving the screen does not stop  *)
(* a deploy, it only stops being shown.                                    *)
(***************************************************************************)
EXTENDS StrategyGraph, ContractClient

CONSTANTS
    Canvases,       \* bound: the canvases, as nodes and edges
    Funded,         \* the nodes whose amount is above zero
    Deploys         \* the clicks on the button

VARIABLES
    canvas,         \* what the builder shows
    mayDeploy,      \* connected, and the permit unlocked
    deploy,         \* each click's handler: its canvas, the places of the plan that are
                    \* still to come, and those whose allowance was short
    onScreen,       \* the handler whose end this screen waits for
    deployResult,   \* the toast, and whose it is
    chain,          \* the transactions that were confirmed, and by which handler
    lost            \* those given up that may still be mined

deployVars == <<canvas, mayDeploy, deploy, onScreen, deployResult, chain, lost>>

NoDeploy == "no deploy"
NoToast == [by |-> NoDeploy, ok |-> FALSE]
NotYet == [canvas |-> [nodes |-> <<>>, edges |-> <<>>], todo |-> {}, short |-> {}, at |-> "idle"]

DeployInit ==
    /\ canvas \in Canvases /\ mayDeploy = FALSE
    /\ deploy = [d \in Deploys |-> NotYet]
    /\ onScreen = NoDeploy /\ deployResult = NoToast /\ chain = {} /\ lost = {}

DeployTypeOK ==
    /\ canvas \in Canvases /\ mayDeploy \in BOOLEAN
    /\ \A d \in Deploys : deploy[d].at \in {"idle", "running", "over"}
    /\ onScreen \in Deploys \cup {NoDeploy} /\ deployResult.by \in Deploys \cup {NoDeploy}
    /\ chain \cup lost \subseteq [by : Deploys, kind : STRING, of : UNION {ToSet(c.nodes) : c \in Canvases}]

-----------------------------------------------------------------------------
Tx(kind, n) == [kind |-> kind, of |-> n]

Actionable(c) == SelectSeq(WalkOrder(c.nodes, c.edges),
                           LAMBDA n : TypeOf(n) \notin {"repeat", "settle"})

UsesComposer(c) == Len(Actionable(c)) >= 2

\* One position of the Composer: the first supply of the part is its collateral,
\* and the vaults of the part are left out.
PartPlan(part) ==
    LET supplies == SelectSeq(part, LAMBDA n : TypeOf(n) = "supply")
        pulls    == supplies # <<>> /\ supplies[1] \in Funded
    IN  (IF pulls THEN <<Tx("allowance", part[1])>> ELSE <<>>) \o <<Tx("open", part[1])>>

NodePlan(n) ==
    LET t == TypeOf(n)
    IN  CASE t = "settle" -> <<Tx("settle", n)>>
          [] t \in {"supply", "borrow"} /\ n \in Funded -> <<Tx("commit", n), Tx("execute", n)>>
          [] t = "swap" /\ n \in Funded -> <<Tx("swap", n)>>
          [] t = "vault" /\ n \in Funded -> <<Tx("deposit", n)>>
          [] OTHER -> <<>>

Plan(c) ==
    LET groups == GroupSubgraphs(c.nodes, c.edges)
        order  == WalkOrder(c.nodes, c.edges)
    IN  IF UsesComposer(c) THEN FlattenSeq([i \in DOMAIN groups |-> PartPlan(groups[i])])
        ELSE FlattenSeq([i \in DOMAIN order |-> NodePlan(order[i])])

Outcomes(kind) ==
    CASE kind = "allowance" -> {Returns("enough"), Returns("short"), Throws("Error", FALSE)}
      [] kind \in {"commit", "deposit"} -> CommitOutcomes(1, TRUE, TRUE)
      [] kind = "execute" -> ExecuteOutcomes(TRUE)
      [] kind = "open" -> {Throws("ENCRYPT_FAILED", FALSE)} \cup WriteOutcomes(TRUE)
      [] kind \in {"approve", "swap"} -> WriteOutcomes(TRUE)
      [] kind = "settle" -> {Returns("no-op")}

\* Mutant: an execute that reverts is taken for done.
LooksAtStatusLess == {"approve", "commit", "deposit", "settle"}

\* The steps whose status the handler looks at; of the others only a throw
\* counts.
LooksAtStatus == {"approve", "commit", "execute", "deposit", "settle"}

-----------------------------------------------------------------------------
\* setDeployResult, which only the screen that waits shows.
Shows(d, ok) ==
    IF onScreen = d THEN deployResult' = [by |-> d, ok |-> ok] /\ onScreen' = NoDeploy
    ELSE UNCHANGED <<deployResult, onScreen>>

\* The click: an edge to a deleted node makes groupSubgraphs throw.
StartDeploy(d) ==
    /\ deploy[d] = NotYet
    /\ mayDeploy /\ onScreen = NoDeploy /\ canvas.nodes # <<>>
    /\ "error" \notin DetectIssues(canvas.nodes, canvas.edges)
    /\ IF UsesComposer(canvas) /\ Dangles(canvas.nodes, canvas.edges)
       THEN /\ deploy' = [deploy EXCEPT ![d] = [@ EXCEPT !.canvas = canvas, !.at = "over"]]
            /\ deployResult' = [by |-> d, ok |-> FALSE] /\ UNCHANGED onScreen
       ELSE /\ deploy' = [deploy EXCEPT ![d] = [canvas |-> canvas, todo |-> DOMAIN Plan(canvas),
                                                short |-> {}, at |-> "running"]]
            /\ deployResult' = NoToast /\ onScreen' = d
    /\ UNCHANGED <<canvas, mayDeploy, chain, lost>>

\* The transaction at the place i: an allowance that was short is approved.
NextTx(d, i) ==
    LET planned == Plan(deploy[d].canvas)[i]
    IN  IF i \in deploy[d].short THEN Tx("approve", planned.of) ELSE planned

GoesOn(d, i, ends) ==
    IF ends = "short" THEN deploy' = [deploy EXCEPT ![d].short = @ \cup {i}]
    ELSE deploy' = [deploy EXCEPT ![d].todo = @ \ {i}]

\* The next transaction answers.
StepAnswers(d) ==
    /\ deploy[d].at = "running"
    /\ \E i \in deploy[d].todo :
          LET tx   == NextTx(d, i)
              mine == [by |-> d, kind |-> tx.kind, of |-> tx.of]
          IN  /\ \A j \in deploy[d].todo : i <= j
              /\ \E out \in Outcomes(tx.kind) :
                    /\ IF out.ends = "throws" \/ (out.ends = "reverted" /\ tx.kind \in LooksAtStatus)
                       THEN /\ deploy' = [deploy EXCEPT ![d] = [@ EXCEPT !.at = "over"]]
                            /\ Shows(d, FALSE)
                       ELSE GoesOn(d, i, out.ends) /\ UNCHANGED <<deployResult, onScreen>>
                    /\ chain' = chain \cup {t \in {mine} : out.ends = "confirmed"}
                    /\ lost' = lost \cup {t \in {mine} : out.mayLand}
    /\ UNCHANGED <<canvas, mayDeploy>>

DeployEnds(d) ==
    /\ deploy[d].at = "running" /\ deploy[d].todo = {}
    /\ deploy' = [deploy EXCEPT ![d].at = "over"] /\ Shows(d, TRUE)
    /\ UNCHANGED <<canvas, mayDeploy, chain, lost>>

DeployLands ==
    /\ \E t \in lost : lost' = lost \ {t} /\ chain' = chain \cup {t}
    /\ UNCHANGED <<canvas, mayDeploy, deploy, onScreen, deployResult>>

CloseToast ==
    /\ deployResult # NoToast /\ deployResult' = NoToast
    /\ UNCHANGED <<canvas, mayDeploy, deploy, onScreen, chain, lost>>

\* Another draft in the same editor, or an edit; the handler keeps its canvas.
ChangeCanvas ==
    /\ canvas' \in Canvases \ {canvas}
    /\ UNCHANGED <<mayDeploy, deploy, onScreen, deployResult, chain, lost>>

\* Another route and back: a new editor, with the button enabled.
LeaveBuilder ==
    /\ onScreen' = NoDeploy /\ deployResult' = NoToast
    /\ <<onScreen, deployResult>> # <<NoDeploy, NoToast>>
    /\ UNCHANGED <<canvas, mayDeploy, deploy, chain, lost>>

SignsInOrOut ==
    /\ mayDeploy' = ~mayDeploy
    /\ UNCHANGED <<canvas, deploy, onScreen, deployResult, chain, lost>>

DeployNext ==
    \/ \E d \in Deploys : StartDeploy(d) \/ StepAnswers(d) \/ DeployEnds(d)
    \/ DeployLands \/ CloseToast \/ ChangeCanvas \/ LeaveBuilder \/ SignsInOrOut

-----------------------------------------------------------------------------
\* The module's own transactions, of those of a plan.
Promised(c) == {tx \in ToSet(Plan(c)) : tx.kind \in {"commit", "execute", "deposit"}}

\* "Confirmed" says that each commitment of the canvas that was deployed, and
\* not of the one shown by now, is on the chain with its execute, and each vault
\* deposit, sent by that very click and by no earlier one that was left behind
\* (builder-workspace.jsx:1147 to 1199).
DeployToastIsHonest ==
    deployResult.ok =>
        \A tx \in Promised(deploy[deployResult.by].canvas) :
            [by |-> deployResult.by, kind |-> tx.kind, of |-> tx.of] \in chain
=============================================================================
