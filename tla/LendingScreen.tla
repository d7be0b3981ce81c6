--------------------------- MODULE LendingScreen ---------------------------
(***************************************************************************)
(* The lending screen (ui/screens/lending.jsx) with the chain it writes    *)
(* to.  An action approves the pool if it must, commits an encrypted       *)
(* amount and executes the commitment; the screen shows one step for all   *)
(* of them, under the name of the tab that is open.  Wallet prompts may be *)
(* refused, transactions revert, and a transaction whose receipt never     *)
(* came may still be mined.  A screen that is left starts afresh the next  *)
(* time, while the handlers of the old one run on.                         *)
(***************************************************************************)
EXTENDS ContractClient

CONSTANTS
    Clicks,         \* the clicks on the action's button
    Targets,        \* liquidation targets, by what of them is known
    MaxDrips        \* bound: faucet mints under way, and results still shown

VARIABLES
    side,           \* the tab that is open
    crStep, submitting,
    commitId,       \* the last commitment seen confirmed, named by its click
    handler,        \* each click's handler: its side and what it waits for
    stranded,       \* clicks on a panel that is no longer there
    turned,         \* history: clicks after which the tab was changed
    commits,        \* the commitments on the chain that wait for their execute
    executed,       \* and those that were executed
    mempool,        \* transactions submitted and given up
    liqTargets,     \* the list of targets: loading, ready or unavailable
    liqRunning,     \* liqSubmitting: the target that is being liquidated
    liqResult,
    dripping,       \* mints of the faucet that wait for the wallet
    faucetResult, faucetTimers

faucetVars == <<dripping, faucetResult, faucetTimers>>
chainVars == <<commits, executed, mempool>>
liqVars == <<liqTargets, liqRunning, liqResult, faucetVars>>
actVars == <<side, crStep, submitting, commitId, handler, stranded, turned, chainVars>>
lendVars == <<actVars, liqVars>>

Sides == {"supply", "borrow", "repay", "withdraw"}
PoolPulls == {"supply", "repay"}       \* the pool takes tokens: allowance first
None == "none"
NoTarget == [known |-> FALSE, amount |-> 0, handle |-> FALSE]
Quiet == [side |-> None, at |-> "idle", commit |-> None]

LendTypeOK ==
    /\ side \in Sides /\ submitting \in BOOLEAN /\ liqRunning \in Targets \cup {NoTarget}
    /\ crStep \in {"idle", "committing", "executing", "done", "failed"}
    /\ commitId \in Clicks \cup {None}
    /\ handler \in [Clicks -> [side : Sides \cup {None}, commit : Clicks \cup {None},
                               at : {"idle", "allowance", "approving", "committing",
                                     "executing", "over"}]]
    /\ {commits, executed, stranded, turned} \subseteq SUBSET Clicks
    /\ mempool \subseteq [kind : {"commit", "execute"}, commit : Clicks]
    /\ liqTargets \in {"loading", "ready", "unavailable"}
    /\ liqResult \in {None, "info", "error", "success"}
    /\ faucetResult \in {None, "error", "success"}
    /\ {dripping, faucetTimers} \subseteq 0 .. MaxDrips

LendInit ==
    /\ side = "supply" /\ crStep = "idle" /\ submitting = FALSE /\ commitId = None
    /\ handler = [c \in Clicks |-> Quiet] /\ stranded = {} /\ turned = {}
    /\ commits = {} /\ executed = {} /\ mempool = {}
    /\ liqTargets = "loading" /\ liqRunning = NoTarget /\ liqResult = None
    /\ dripping = 0 /\ faucetResult = None /\ faucetTimers = 0

-----------------------------------------------------------------------------
Waits(c, at) == handler' = [handler EXCEPT ![c].at = at]

\* A handler sets the state of the panel it was clicked on.
PanelReads(c, step, busy) ==
    IF c \in stranded THEN UNCHANGED <<crStep, submitting>>
    ELSE crStep' = step /\ submitting' = busy

\* The finally of each handler; a throw outside the inner try leaves the step.
ActEnds(c, step) == Waits(c, "over") /\ PanelReads(c, step, FALSE)

\* The pool's side of a transaction, and of one given up.
Lands(kind, c) ==
    IF kind = "commit" THEN commits' = commits \cup {c} /\ UNCHANGED executed
    ELSE /\ commits' = commits \ {c}
         /\ executed' = executed \cup (commits \cap {c})

Begun == { c \in Clicks : handler[c].at # "idle" }

ChooseSide ==
    /\ side' \in Sides
    /\ turned' = IF side' = side THEN turned ELSE turned \cup Begun
    /\ UNCHANGED <<crStep, submitting, commitId, handler, stranded, chainVars, liqVars>>

\* The panel is not there while the list of the markets is empty.
PanelGoes ==
    /\ stranded' = Begun
    /\ crStep' = "idle" /\ submitting' = FALSE /\ commitId' = None
    /\ UNCHANGED <<handler, turned, chainVars>>

MarketsGo == PanelGoes /\ UNCHANGED <<side, liqVars>>

\* The route is left; on return everything of the screen is new.
LeaveScreen ==
    /\ PanelGoes /\ side' = "supply"
    /\ liqTargets' = "loading" /\ liqRunning' = NoTarget /\ liqResult' = None
    /\ dripping' = 0 /\ faucetResult' = None /\ faucetTimers' = 0

\* Mutant: a second click is not refused.
MayActAnyway == TRUE

\* The button's disabled and the handlers' first line.
MayAct == ~submitting /\ crStep \in {"idle", "done", "failed"}

\* handleSupply, handleBorrow, handleRepay, handleWithdraw, to their first await.
\* An amount that is no number, or of a market without an address, is "invalid".
Click(c, amount) ==
    /\ handler[c] = Quiet /\ MayAct
    /\ LET refused == \/ amount \in {"zero", "invalid"}
                      \/ (amount = "above balance" /\ side \in PoolPulls)
           next    == IF side \in PoolPulls THEN "allowance" ELSE "committing"
       IN  IF refused
           THEN /\ handler' = [handler EXCEPT ![c] = [@ EXCEPT !.side = side, !.at = "over"]]
                /\ crStep' = "failed" /\ UNCHANGED submitting
           ELSE /\ handler' = [handler EXCEPT ![c] = [@ EXCEPT !.side = side, !.at = next]]
                /\ crStep' = IF next = "committing" THEN next ELSE crStep
                /\ submitting' = TRUE
    /\ UNCHANGED <<side, commitId, stranded, turned, chainVars, liqVars>>

\* erc20Allowance: enough, too little, or the read fails.
AllowanceAnswers(c) ==
    /\ handler[c].at = "allowance"
    /\ \/ Waits(c, "committing") /\ PanelReads(c, "committing", submitting)
       \/ Waits(c, "approving") /\ UNCHANGED <<crStep, submitting>>
       \/ ActEnds(c, crStep)
    /\ UNCHANGED <<side, commitId, stranded, turned, chainVars, liqVars>>

\* erc20Approve
ApprovalAnswers(c) ==
    /\ handler[c].at = "approving"
    /\ \E out \in WriteOutcomes(TRUE) :
          CASE out.ends = "confirmed" -> Waits(c, "committing")
                                         /\ PanelReads(c, "committing", submitting)
            [] out.ends = "reverted"  -> ActEnds(c, "failed")
            [] out.ends = "throws"    -> ActEnds(c, crStep)
    /\ UNCHANGED <<side, commitId, stranded, turned, chainVars, liqVars>>

\* shieldCommit, borrowCommit, repayCommit, withdrawCommit
CommitAnswers(c) ==
    /\ handler[c].at = "committing"
    /\ \E out \in CommitOutcomes(1, TRUE, TRUE) :
          CASE out.ends = "confirmed" ->
                 /\ handler' = [handler EXCEPT ![c].at = "executing", ![c].commit = c]
                 /\ PanelReads(c, "executing", submitting)
                 /\ commitId' = IF c \in stranded THEN commitId ELSE c
                 /\ Lands("commit", c) /\ UNCHANGED mempool
            [] out.ends # "confirmed" ->
                 /\ ActEnds(c, "failed")
                 /\ mempool' = mempool \cup {m \in {[kind |-> "commit", commit |-> c]} : out.mayLand}
                 /\ UNCHANGED <<commitId, commits, executed>>
    /\ UNCHANGED <<side, stranded, turned, liqVars>>

ExecuteStep(ends) == IF ends = "confirmed" THEN "done" ELSE "failed"

\* shieldExecute, borrowExecute, repayExecute, withdrawExecute.  Then the
\* screen says transaction:confirmed.
ExecuteAnswers(c) ==
    /\ handler[c].at = "executing"
    /\ \E out \in ExecuteOutcomes(TRUE) :
          /\ ActEnds(c, ExecuteStep(out.ends))
          /\ out.ends = "confirmed" => handler[c].commit \in commits
          /\ IF out.ends = "confirmed" THEN Lands("execute", handler[c].commit)
             ELSE UNCHANGED <<commits, executed>>
          /\ mempool' = mempool \cup {m \in {[kind |-> "execute", commit |-> handler[c].commit]} :
                                         out.mayLand}
    /\ UNCHANGED <<side, commitId, stranded, turned, liqVars>>

\* A transaction the screen gave up is mined; the pool refuses an execute
\* without its commitment.
MinedLate ==
    /\ \E m \in mempool : Lands(m.kind, m.commit) /\ mempool' = mempool \ {m}
    /\ UNCHANGED <<side, crStep, submitting, commitId, handler, stranded, turned, liqVars>>

-----------------------------------------------------------------------------
\* fetchLiqTargets, on mount.
TargetsAnswer ==
    /\ liqTargets = "loading" /\ liqTargets' \in {"ready", "unavailable"}
    /\ UNCHANGED <<actVars, liqRunning, liqResult, faucetVars>>

\* handleLiquidate, to its await.  A target without an amount counts as zero.
Liquidate(t) ==
    /\ liqTargets = "ready" /\ liqRunning = NoTarget
    /\ IF ~t.known \/ (t.amount = 0 /\ ~t.handle)
       THEN liqResult' = "error" /\ UNCHANGED liqRunning
       ELSE liqResult' = "info" /\ liqRunning' = t
    /\ UNCHANGED <<actVars, liqTargets, faucetVars>>

LiquidationAnswers ==
    /\ liqRunning # NoTarget
    /\ LET t == liqRunning
       IN  \E out \in LiquidateOutcomes(t.known, t.known, t.known, t.amount, TRUE) :
              liqResult' = IF out.ends = "confirmed" THEN "success" ELSE "error"
    /\ liqRunning' = NoTarget
    /\ UNCHANGED <<actVars, liqTargets, faucetVars>>

\* The timer of an earlier answer, over whatever is shown by then.
LiqResultFades ==
    /\ liqResult # None /\ liqResult' = None
    /\ UNCHANGED <<actVars, liqTargets, liqRunning, faucetVars>>

-----------------------------------------------------------------------------
FaucetOnly == UNCHANGED <<actVars, liqTargets, liqRunning, liqResult>>

\* handleFaucetDrip: nothing disables the button while a mint is under way.
Drip ==
    /\ dripping + faucetTimers < MaxDrips
    /\ dripping' = dripping + 1 /\ faucetResult' = None /\ UNCHANGED faucetTimers /\ FaucetOnly

\* The wallet has sent the mint, or refused.
DripAnswers(ok) ==
    /\ dripping > 0 /\ dripping' = dripping - 1
    /\ faucetResult' = IF ok THEN "success" ELSE "error"
    /\ faucetTimers' = faucetTimers + 1 /\ FaucetOnly

\* Each result has a timer, which puts out whichever is shown.
FaucetResultFades ==
    /\ faucetTimers > 0 /\ faucetTimers' = faucetTimers - 1 /\ faucetResult' = None
    /\ UNCHANGED dripping /\ FaucetOnly

LendNext ==
    \/ ChooseSide \/ MarketsGo \/ LeaveScreen \/ MinedLate \/ TargetsAnswer
    \/ \E c \in Clicks : \/ \E a \in {"zero", "invalid", "above balance", "ok"} : Click(c, a)
                         \/ AllowanceAnswers(c) \/ ApprovalAnswers(c)
                         \/ CommitAnswers(c) \/ ExecuteAnswers(c)
    \/ (\E t \in Targets : Liquidate(t)) \/ LiquidationAnswers \/ LiqResultFades
    \/ Drip \/ FaucetResultFades \/ \E ok \in BOOLEAN : DripAnswers(ok)

-----------------------------------------------------------------------------
\* The panel says "Confirmed - ... complete" only of a commitment made on it and
\* executed by the pool, while none of its own actions commits or executes, and
\* with the name of that action unless the tab was changed after its click:
\* whatever prompts are refused, transactions revert or get lost, approvals end
\* early, tabs are chosen, and whatever the handlers of a screen that was left
\* still do (lending.jsx:408, 448, 671 and 686).
DoneWasExecuted ==
    crStep = "done" =>
        /\ commitId \in executed \ stranded
        /\ handler[commitId].side = side \/ commitId \in turned
        /\ \A c \in Clicks \ stranded : handler[c].at \notin {"committing", "executing"}
=============================================================================
