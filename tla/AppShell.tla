------------------------------ MODULE AppShell ------------------------------
(***************************************************************************)
(* The application around the screens: App (ui/app.jsx) with its own       *)
(* copies of the wallet and the permit, the connect dialog                 *)
(* (connect-modal.jsx), and the two screens whose panels write: a position *)
(* that is closed (dashboard.jsx) and a vote (governance.jsx).  What the   *)
(* flow behind the dialog does is ConnectFlow's matter; here it announces  *)
(* its phases in order and ends.                                           *)
(***************************************************************************)
EXTENDS Naturals, FiniteSets, SequencesExt

CONSTANTS
    PermitSeconds, RenewAt, TweakSeconds,   \* 15 * 60, 120 and 14 * 60, in ticks
    MaxGrants,                              \* bound: grants under way
    DialogFlows,                            \* calls of the dialog's startFlow
    Positions, Proposals

ASSUME ShellAssumption ==
    /\ {PermitSeconds, RenewAt, TweakSeconds, MaxGrants} \subseteq Nat \ {0}
    /\ RenewAt < TweakSeconds /\ TweakSeconds < PermitSeconds

VARIABLES
    appWallet, appPermit,   \* App's state, which is not the bus's nor the adapter's
    grants,                 \* grantPermit calls that wait for the wallet
    switchAsked,            \* switchNetwork was asked and has not answered
    route, hash, hashEvent,
    dialog,                 \* the connect dialog
    dialogFlows,            \* how far each startFlow is
    closing,                \* the timer that closes the dialog
    panel,                  \* the position that is open and what its panel shows
    closer,                 \* the handleClose under way, and whether its panel is there
    closed,                 \* the positions withdrawn on the chain
    ballot,                 \* the proposal that is open and what its panel shows
    votingOn,               \* the proposal handleCastVote waits for
    reloading               \* the timer that reloads the page

shellVars == <<appWallet, appPermit, grants, switchAsked, route, hash, hashEvent>>
dialogVars == <<dialog, dialogFlows, closing>>
panelVars == <<panel, closer, closed, ballot, votingOn, reloading>>
appVars == <<shellVars, dialogVars, panelVars>>

Routes == {"home", "portfolio", "lend", "strategies", "governance"}
Phases == <<"starting", "connecting", "signing", "permitting", "done">>
Nought == "none"
NoWallet == [connected |-> FALSE, chain |-> "unknown"]
Locked == [unlocked |-> FALSE, left |-> 0]
DialogClosed == [open |-> FALSE, phase |-> "idle", failed |-> FALSE]
NoPanel == [position |-> Nought, step |-> Nought]
NoCloser == [position |-> Nought, at |-> "idle", shown |-> FALSE]
NoBallot == [proposal |-> Nought, vote |-> Nought, result |-> Nought]

AppTypeOK ==
    /\ appWallet \in [connected : BOOLEAN, chain : {"unknown", "right", "wrong"}]
    /\ appPermit \in [unlocked : BOOLEAN, left : 0 .. PermitSeconds]
    /\ appPermit.unlocked <=> appPermit.left > 0
    /\ grants \in 0 .. MaxGrants /\ {switchAsked, hashEvent, closing, reloading} \subseteq BOOLEAN
    /\ route \in Routes /\ hash \in Routes \cup {Nought}
    /\ dialog \in [open : BOOLEAN, phase : ToSet(Phases) \cup {"idle"}, failed : BOOLEAN]
    /\ dialogFlows \in [DialogFlows -> ToSet(Phases) \cup {"idle"}]
    /\ panel \in [position : Positions \cup {Nought},
                  step : {Nought, "committing", "decrypting", "done", "failed"}]
    /\ closer \in [position : Positions \cup {Nought}, at : {"idle", "committing", "decrypting"},
                   shown : BOOLEAN]
    /\ ballot.proposal \in Proposals \cup {Nought} /\ votingOn \in Proposals \cup {Nought}

\* A page that is loaded, with the tweaks at their defaults.
AppStarts ==
    /\ appWallet' = NoWallet /\ appPermit' = Locked /\ grants' = 0 /\ switchAsked' = FALSE
    /\ route' = IF hash \in Routes THEN hash ELSE "home"
    /\ hash' = route' /\ hashEvent' = FALSE
    /\ dialog' = DialogClosed /\ dialogFlows' = [f \in DialogFlows |-> "idle"] /\ closing' = FALSE
    /\ panel' = NoPanel /\ closer' = NoCloser /\ ballot' = NoBallot /\ votingOn' = Nought
    /\ reloading' = FALSE

AppInit ==
    /\ appWallet = NoWallet /\ appPermit = Locked /\ grants = 0 /\ switchAsked = FALSE
    /\ route = "home" /\ hash = "home" /\ hashEvent = FALSE
    /\ dialog = DialogClosed /\ dialogFlows = [f \in DialogFlows |-> "idle"] /\ closing = FALSE
    /\ panel = NoPanel /\ closer = NoCloser /\ closed = {} /\ ballot = NoBallot
    /\ votingOn = Nought /\ reloading = FALSE

-----------------------------------------------------------------------------
WrongChain(w) == w.connected /\ w.chain = "wrong"

\* What App's effects make of a change: a permit with RenewAt seconds left is
\* asked for again, and a chain that has become wrong is to be switched.  Without
\* a wallet the dashboard is empty, and what its panel showed is lost.
Becomes(w, p, grantsLeft) ==
    LET renews == /\ p.unlocked /\ p.left = RenewAt /\ w.connected
                  /\ p.left # appPermit.left \/ ~appWallet.connected
    IN  /\ appWallet' = w /\ appPermit' = p
        /\ grants' = IF renews THEN grantsLeft + 1 ELSE grantsLeft
        /\ grants' <= MaxGrants
        /\ switchAsked' = (switchAsked \/ (WrongChain(w) /\ ~WrongChain(appWallet)))
        /\ panel' = IF w.connected THEN panel ELSE [panel EXCEPT !.step = Nought]
        /\ closer' = [closer EXCEPT !.shown = @ /\ w.connected]
        /\ UNCHANGED <<route, hash, hashEvent, dialogVars, closed, ballot, votingOn, reloading>>

\* The tweaks of the panel are written over what the bus has said.
TweaksChange(connected, unlocked) ==
    Becomes([appWallet EXCEPT !.connected = connected],
            IF connected /\ unlocked THEN [unlocked |-> TRUE, left |-> TweakSeconds] ELSE Locked,
            grants)

WalletConnected(chain) ==
    Becomes([connected |-> TRUE, chain |-> IF chain = "unknown" THEN appWallet.chain ELSE chain],
            appPermit, grants)

WalletDisconnected == Becomes(NoWallet, Locked, grants)

\* The countdown runs while the permit is unlocked.
CountDown ==
    /\ appPermit.unlocked
    /\ Becomes(appWallet, IF appPermit.left <= 1 THEN Locked ELSE [appPermit EXCEPT !.left = @ - 1],
               grants)

\* The callback is made for App's wallet as it is connected or not; the answer
\* finds whatever has become of it.
GrantPermit == appWallet.connected /\ Becomes(appWallet, appPermit, grants + 1)

GrantAnswers(ok) ==
    /\ grants > 0
    /\ Becomes(appWallet, IF ok THEN [unlocked |-> TRUE, left |-> PermitSeconds] ELSE appPermit,
               grants - 1)

\* Nobody tells App of the chain that was switched to.
SwitchAnswers ==
    /\ switchAsked /\ switchAsked' = FALSE
    /\ UNCHANGED <<appWallet, appPermit, grants, route, hash, hashEvent, dialogVars, panelVars>>

\* A screen that is left takes the state of its panels with it.
LeavesScreen == panel' = NoPanel /\ ballot' = NoBallot /\ closer' = [closer EXCEPT !.shown = FALSE]

SetRoute(r) ==
    /\ r # route /\ route' = r /\ hash' = r /\ hashEvent' = (hashEvent \/ r # hash)
    /\ LeavesScreen
    /\ UNCHANGED <<appWallet, appPermit, grants, switchAsked, dialogVars, closed, votingOn,
                   reloading>>

HashTyped(h) ==
    /\ h # hash /\ hash' = h /\ hashEvent' = TRUE
    /\ UNCHANGED <<appWallet, appPermit, grants, switchAsked, route, dialogVars, panelVars>>

HashChange ==
    /\ hashEvent /\ hashEvent' = FALSE
    /\ IF hash \in Routes \ {route} THEN route' = hash /\ LeavesScreen
       ELSE UNCHANGED <<route, panel, ballot, closer>>
    /\ UNCHANGED <<appWallet, appPermit, grants, switchAsked, hash, dialogVars, closed, votingOn,
                   reloading>>

-----------------------------------------------------------------------------
Shell == UNCHANGED <<shellVars, panelVars>>

\* startFlow, and retry, which is startFlow again.
StartFlow(f) ==
    /\ dialogFlows[f] = "idle" /\ dialogFlows' = [dialogFlows EXCEPT ![f] = "starting"]
    /\ dialog' = [open |-> TRUE, phase |-> "connecting", failed |-> FALSE]
    /\ Shell /\ UNCHANGED closing

\* The dialog opens; when one wallet is there and App knows of no connection it
\* starts by itself.
OpenDialog(f, oneWallet) ==
    /\ ~dialog.open
    /\ IF oneWallet /\ dialog.phase = "idle" /\ ~appWallet.connected THEN StartFlow(f)
       ELSE dialog' = [dialog EXCEPT !.open = TRUE] /\ Shell /\ UNCHANGED <<dialogFlows, closing>>

PickWallet(f) == dialog.open /\ dialog.phase = "idle" /\ ~dialog.failed /\ StartFlow(f)
Retry(f) == dialog.open /\ dialog.failed /\ StartFlow(f)

\* The listener stays, whether the dialog is open or not.
FlowAnnounces(f) ==
    /\ dialogFlows[f] \in ToSet(Phases) \ {"done"}
    /\ LET phase == Phases[SelectInSeq(Phases, LAMBDA p : p = dialogFlows[f]) + 1]
       IN  /\ dialogFlows' = [dialogFlows EXCEPT ![f] = phase]
           /\ dialog' = [dialog EXCEPT !.phase = phase]
           /\ closing' = (closing \/ phase = "done")
    /\ Shell

\* A flow that is refused fails, and one that is done as well: the bus has no off.
FlowEnds(f) ==
    /\ dialogFlows[f] # "idle" /\ dialogFlows' = [dialogFlows EXCEPT ![f] = "idle"]
    /\ dialog' = [dialog EXCEPT !.failed = TRUE]
    /\ Shell /\ UNCHANGED closing

\* Mutant: closing forgets the error only.
ResetKeepsPhase(d) == [d EXCEPT !.open = FALSE, !.failed = FALSE]

\* The reset on close.
Reset(d) == DialogClosed

CloseDialog ==
    /\ dialog.open /\ dialog' = Reset(dialog) /\ Shell /\ UNCHANGED <<dialogFlows, closing>>

\* The timer of the flow that was done, over whatever is open by then.
TimerCloses ==
    /\ closing /\ closing' = FALSE /\ dialog' = IF dialog.open THEN Reset(dialog) ELSE dialog
    /\ Shell /\ UNCHANGED dialogFlows

-----------------------------------------------------------------------------
Rest2 == UNCHANGED <<shellVars, dialogVars>>

\* The panel is not the position's own: it keeps what it shows when another
\* position is opened, and loses it at the overview.
SelectPosition(p) ==
    /\ route = "portfolio" /\ p # panel.position /\ (p # Nought => appWallet.connected)
    /\ IF p = Nought THEN LeavesScreen
       ELSE panel' = [panel EXCEPT !.position = p] /\ UNCHANGED <<closer, ballot>>
    /\ Rest2 /\ UNCHANGED <<closed, votingOn, reloading>>

MayClose == appWallet.connected /\ panel.position # Nought /\ panel.step \in {Nought, "done", "failed"}

\* handleClose, to its first await; without a token, an amount or a bridge only
\* the message changes.
ClosePosition ==
    /\ MayClose /\ closer.at = "idle"        \* bound: one at a time
    /\ panel' = [panel EXCEPT !.step = "committing"]
    /\ closer' = [position |-> panel.position, at |-> "committing", shown |-> TRUE]
    /\ Rest2 /\ UNCHANGED <<closed, ballot, votingOn, reloading>>

PanelShows(step) == panel' = IF closer.shown THEN [panel EXCEPT !.step = step] ELSE panel

CloseAnswers(ok) ==
    /\ closer.at # "idle"
    /\ IF ok /\ closer.at = "committing"
       THEN PanelShows("decrypting") /\ closer' = [closer EXCEPT !.at = "decrypting"] /\ UNCHANGED closed
       ELSE /\ PanelShows(IF ok THEN "done" ELSE "failed") /\ closer' = NoCloser
            /\ closed' = closed \cup {p \in {closer.position} : ok}
    /\ Rest2 /\ UNCHANGED <<ballot, votingOn, reloading>>

\* The same of a ballot: the vote and its result stay for the next proposal.
SelectProposal(p) ==
    /\ route = "governance" /\ p # ballot.proposal /\ ballot' = [ballot EXCEPT !.proposal = p]
    /\ Rest2 /\ UNCHANGED <<panel, closer, closed, votingOn, reloading>>

ChooseVote(v) ==
    /\ appWallet.connected /\ ballot.proposal # Nought /\ votingOn = Nought
    /\ ballot' = [ballot EXCEPT !.vote = v]
    /\ Rest2 /\ UNCHANGED <<panel, closer, closed, votingOn, reloading>>

CastBallot ==
    /\ appWallet.connected /\ ballot.proposal # Nought /\ ballot.vote # Nought /\ votingOn = Nought
    /\ votingOn' = ballot.proposal /\ ballot' = [ballot EXCEPT !.result = Nought]
    /\ Rest2 /\ UNCHANGED <<panel, closer, closed, reloading>>

\* A vote that counts reloads the page, a refused one says why.
BallotAnswers(ok) ==
    /\ votingOn # Nought /\ votingOn' = Nought
    /\ ballot' = IF ballot.proposal = Nought THEN ballot
                 ELSE [ballot EXCEPT !.result = IF ok THEN "success" ELSE "refused"]
    /\ reloading' = (reloading \/ ok)
    /\ Rest2 /\ UNCHANGED <<panel, closer, closed>>

Reload == reloading /\ AppStarts /\ UNCHANGED closed

AppNext ==
    \/ \E connected, unlocked \in BOOLEAN : TweaksChange(connected, unlocked)
    \/ \E chain \in {"unknown", "right", "wrong"} : WalletConnected(chain)
    \/ \E ok \in BOOLEAN : GrantAnswers(ok) \/ CloseAnswers(ok) \/ BallotAnswers(ok)
    \/ WalletDisconnected \/ CountDown \/ GrantPermit \/ SwitchAnswers \/ HashChange
    \/ \E r \in Routes : SetRoute(r) \/ HashTyped(r)
    \/ HashTyped(Nought)
    \/ \E f \in DialogFlows : \/ \E one \in BOOLEAN : OpenDialog(f, one)
                              \/ PickWallet(f) \/ Retry(f) \/ FlowAnnounces(f) \/ FlowEnds(f)
    \/ CloseDialog \/ TimerCloses
    \/ \E p \in Positions \cup {Nought} : SelectPosition(p)
    \/ \E p \in Proposals : SelectProposal(p)
    \/ \E v \in {"for", "against", "abstain"} : ChooseVote(v)
    \/ ClosePosition \/ CastBallot \/ Reload

-----------------------------------------------------------------------------
\* The connect dialog never shows a flow that is not there: whatever phase it
\* shows, a flow is under way, or there is an error with its Retry, or the dialog
\* is about to close; also when it was closed under a running flow and opened
\* again (connect-modal.jsx:30 and 46).
DialogWaitsForAFlow ==
    dialog.open /\ dialog.phase # "idle" =>
        \/ dialog.failed \/ closing \/ \E f \in DialogFlows : dialogFlows[f] # "idle"
=============================================================================
