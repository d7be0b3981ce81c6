----------------------------- MODULE DappProofs -----------------------------
(***************************************************************************)
(* What holds of the browser side for every value of the constants: its    *)
(* dialog, wallet, lending screen, simulation, Deploy button and session,  *)
(* each with the invariant that its property needs, and then all of them   *)
(* as MCDapp composes them.                                                *)
(***************************************************************************)
EXTENDS MCDapp, FiniteSetTheorems, SequenceTheorems, NaturalsInduction,
        WellFoundedInduction, TLAPS

-----------------------------------------------------------------------------
(* The dialog (AppShell). *)
\* App's own state, of which the dialog is a part.
DialogSpec == AppInit /\ [][AppNext]_appVars

\* A dialog that is past its first phase and has not failed has a flow of its own
\* that still runs.
DialogInv ==
    /\ DOMAIN dialogFlows = DialogFlows
    /\ DOMAIN dialog = {"open", "phase", "failed"}
    /\ dialog.phase # "idle" => dialog.failed \/ \E f \in DialogFlows : dialogFlows[f] # "idle"

LEMMA DialogStart == AppInit => DialogInv
BY DEF AppInit, DialogInv, DialogClosed

LEMMA DialogStep == DialogInv /\ [AppNext]_appVars => DialogInv'
<1> SUFFICES ASSUME DialogInv, [AppNext]_appVars PROVE DialogInv'
  OBVIOUS
<1>1. CASE UNCHANGED dialogVars
  BY <1>1 DEF DialogInv, dialogVars
<1>2. ASSUME NEW f \in DialogFlows, StartFlow(f) PROVE DialogInv'
  BY <1>2 DEF StartFlow, DialogInv
<1>3. ASSUME NEW f \in DialogFlows, NEW one \in BOOLEAN, OpenDialog(f, one) PROVE DialogInv'
  <2>1. CASE StartFlow(f)
    BY <2>1, <1>2
  <2>2. CASE dialog' = [dialog EXCEPT !.open = TRUE] /\ UNCHANGED <<dialogFlows, closing>>
    BY <2>2 DEF DialogInv
  <2> QED BY <1>3, <2>1, <2>2 DEF OpenDialog
<1>4. ASSUME NEW f \in DialogFlows, FlowAnnounces(f) PROVE DialogInv'
  <2>1. PICK phase : /\ dialogFlows' = [dialogFlows EXCEPT ![f] = phase]
                     /\ dialog' = [dialog EXCEPT !.phase = phase]
    BY <1>4 DEF FlowAnnounces
  <2>2. dialog'.phase = phase /\ dialogFlows'[f] = phase
    BY <2>1 DEF DialogInv
  <2>3. DOMAIN dialogFlows' = DialogFlows /\ DOMAIN dialog' = DOMAIN dialog
    BY <2>1 DEF DialogInv
  <2> QED BY <2>2, <2>3 DEF DialogInv
<1>5. ASSUME NEW f \in DialogFlows, FlowEnds(f) PROVE DialogInv'
  BY <1>5 DEF FlowEnds, DialogInv
<1>6. CASE dialog' = DialogClosed /\ dialogFlows' = dialogFlows
  BY <1>6 DEF DialogInv, DialogClosed
<1>7. CASE CloseDialog
  BY <1>7, <1>6 DEF CloseDialog, Reset
<1>8. CASE TimerCloses
  <2>1. CASE dialog' = dialog
    BY <1>8, <2>1 DEF TimerCloses, DialogInv
  <2> QED BY <1>8, <2>1, <1>6 DEF TimerCloses, Reset
<1>9. CASE Reload
  BY <1>9 DEF Reload, AppStarts, DialogInv, DialogClosed
<1>10. ASSUME NEW w, NEW p, NEW n, Becomes(w, p, n) PROVE UNCHANGED dialogVars
  BY <1>10 DEF Becomes
<1>11. CASE \/ \E connected, unlocked2 \in BOOLEAN : TweaksChange(connected, unlocked2)
            \/ \E c \in {"unknown", "right", "wrong"} : WalletConnected(c)
            \/ \E ok \in BOOLEAN : GrantAnswers(ok)
            \/ WalletDisconnected \/ CountDown \/ GrantPermit
  BY <1>11, <1>10, <1>1 DEF TweaksChange, WalletConnected, GrantAnswers, WalletDisconnected,
     CountDown, GrantPermit
<1>12. CASE \/ \E ok \in BOOLEAN : CloseAnswers(ok) \/ BallotAnswers(ok)
            \/ SwitchAnswers \/ HashChange
            \/ \E r \in Routes : SetRoute(r) \/ HashTyped(r)
            \/ HashTyped(Nought)
            \/ \E p \in Positions \cup {Nought} : SelectPosition(p)
            \/ \E p \in Proposals : SelectProposal(p)
            \/ \E v \in {"for", "against", "abstain"} : ChooseVote(v)
            \/ ClosePosition \/ CastBallot
            \/ UNCHANGED appVars
  BY <1>12, <1>1, Zenon DEF CloseAnswers, BallotAnswers, SwitchAnswers, HashChange, SetRoute,
     HashTyped, SelectPosition, SelectProposal, ChooseVote, ClosePosition, CastBallot, Rest2,
     appVars
<1> QED BY <1>2, <1>3, <1>4, <1>5, <1>7, <1>8, <1>9, <1>11, <1>12
        DEF AppNext, PickWallet, Retry

\* The connect dialog shows a step only while a flow is under way or has failed,
\* however often it is closed, opened and left behind (app.jsx).
THEOREM DialogAlwaysWaits == DialogSpec => []DialogWaitsForAFlow
<1>1. DialogInv => DialogWaitsForAFlow
  BY DEF DialogInv, DialogWaitsForAFlow
<1> QED BY <1>1, DialogStart, DialogStep, PTL DEF DialogSpec

-----------------------------------------------------------------------------
(* The wallet and its session (WalletAdapter). *)
\* The wallet adapter by itself.
WalletSpec == WalletInit /\ [][WalletNext]_walletVars

\* The fields of the records that are updated one field at a time.
WalletShapes ==
    /\ DOMAIN wagmi = {"account", "right"} /\ DOMAIN cookie = {"account", "excused"}
    /\ leaving \in Nat
    /\ DOMAIN logins = Logins
    /\ \A c \in Logins : /\ DOMAIN logins[c] = {"step", "account", "signer", "late"}
                         /\ logins[c].late \in BOOLEAN

\* Beside the property: no account without an adapter, and a login that was not
\* overtaken by another account signs for the one at hand.
WalletInv ==
    /\ WalletShapes
    /\ SessionFollowsAccount
    /\ adapters = <<>> => wagmi.account = NoAccount
    /\ \A c \in Logins : logins[c].step = "post" /\ ~logins[c].late =>
                             logins[c].signer = wagmi.account

LEMMA WalletStart == WalletInit => WalletInv
<1> SUFFICES ASSUME WalletInit PROVE WalletInv
  OBVIOUS
<1>1. /\ adapters = <<>> /\ watched = FALSE /\ leaving = 0
      /\ wagmi = [account |-> NoAccount, right |-> FALSE]
      /\ \E a : cookie = [account |-> a, excused |-> FALSE]
  BY DEF WalletInit
<1>2. \A c \in Logins : logins[c] = NoLogin
  BY DEF WalletInit
<1>3. DOMAIN logins = Logins
  BY DEF WalletInit
<1>4. WalletShapes
  <2>1. DOMAIN wagmi = {"account", "right"} /\ DOMAIN cookie = {"account", "excused"}
    BY <1>1
  <2>2. DOMAIN NoLogin = {"step", "account", "signer", "late"} /\ NoLogin.late \in BOOLEAN
    BY DEF NoLogin
  <2>3. leaving \in Nat
    BY <1>1
  <2> QED BY <1>2, <1>3, <2>1, <2>2, <2>3, Zenon DEF WalletShapes
<1>5. SessionFollowsAccount
  BY <1>1 DEF SessionFollowsAccount
<1> QED BY <1>1, <1>2, <1>4, <1>5 DEF WalletInv, NoLogin

\* No part is made by adapters that are not there.
LEMMA NothingIsMade == ASSUME adapters = <<>>, NEW part PROVE ~Made(part)
BY DEF Made, ToSet

\* Another account: the logins under way are late by that, and the cookie is excused
\* or of nobody.
LEMMA AccountStep == ASSUME NEW a, WalletInv, AccountBecomes(a),
                            adapters = <<>> => a = NoAccount
                     PROVE  WalletInv'
<1>1. /\ wagmi' = [wagmi EXCEPT !.account = a]
      /\ leaving' = IF watched /\ LogoutFor(a) THEN leaving + 1 ELSE leaving
      /\ UNCHANGED <<adapters, watched, cookie>>
      /\ logins' = [c \in Logins |-> [logins[c] EXCEPT !.late = logins[c].late \/ logins[c].step = "post"]]
  BY DEF AccountBecomes
<1>2. wagmi'.account = a /\ DOMAIN wagmi' = {"account", "right"}
  BY <1>1 DEF WalletInv, WalletShapes
<1>3. ASSUME NEW c \in Logins
      PROVE  /\ DOMAIN logins'[c] = {"step", "account", "signer", "late"}
             /\ logins'[c].late \in BOOLEAN
             /\ ~(logins'[c].step = "post" /\ ~logins'[c].late)
  <2> DEFINE l == logins[c]
             late == l.late \/ l.step = "post"
  <2>1. DOMAIN l = {"step", "account", "signer", "late"}
    BY DEF WalletInv, WalletShapes
  <2>2. logins'[c] = [l EXCEPT !.late = late]
    BY <1>1
  <2>3. late \in BOOLEAN
    BY Zenon
  <2>4. DOMAIN logins'[c] = DOMAIN l /\ logins'[c].late = late /\ logins'[c].step = l.step
    <3> HIDE DEF l, late
    <3> QED BY <2>1, <2>2
  <2>5. l.step = "post" => late
    OBVIOUS
  <2> HIDE DEF late, l
  <2> QED BY <2>1, <2>3, <2>4, <2>5, Zenon
<1>4. leaving' \in Nat /\ (watched' /\ leaving' = 0 => a = NoAccount)
  BY <1>1 DEF LogoutFor, WalletInv, WalletShapes
<1>5. WalletShapes'
  <2>1. DOMAIN logins' = Logins /\ DOMAIN cookie' = {"account", "excused"}
    BY <1>1 DEF WalletShapes, WalletInv
  <2> QED BY <1>2, <1>3, <1>4, <2>1, Zenon DEF WalletShapes
<1>6. SessionFollowsAccount'
  BY <1>2, <1>4 DEF SessionFollowsAccount
<1> QED BY <1>1, <1>2, <1>3, <1>5, <1>6 DEF WalletInv

\* A login goes on without a change of account.
LEMMA LoginStep == ASSUME NEW c \in Logins, NEW login, WalletInv, LoginGoes(c, login),
                          DOMAIN login = {"step", "account", "signer", "late"},
                          login.late \in BOOLEAN,
                          login.step = "post" /\ ~login.late => login.signer = wagmi.account,
                          \/ cookie' = cookie
                          \/ /\ DOMAIN cookie' = {"account", "excused"}
                             /\ cookie'.excused \/ cookie'.account = wagmi.account
                   PROVE  WalletInv'
<1>1. /\ logins' = [logins EXCEPT ![c] = login]
      /\ UNCHANGED <<adapters, watched, wagmi, leaving>>
  BY DEF LoginGoes
<1>2. WalletShapes'
  BY <1>1 DEF WalletShapes, WalletInv
<1>3. SessionFollowsAccount'
  BY <1>1 DEF SessionFollowsAccount, WalletInv
<1> QED BY <1>1, <1>2, <1>3 DEF WalletInv, WalletShapes

LEMMA WalletStep == WalletInv /\ [WalletNext]_walletVars => WalletInv'
<1> SUFFICES ASSUME WalletInv, [WalletNext]_walletVars PROVE WalletInv'
  OBVIOUS
<1>1. CASE UNCHANGED <<sessionVars, adapters, watched>>
  BY <1>1 DEF sessionVars, WalletInv, WalletShapes, SessionFollowsAccount
<1>2. ASSUME NEW part, NEW w, CreateBridge(part, w) PROVE WalletInv'
  <2>1. wagmi.account = NoAccount /\ UNCHANGED sessionVars
    BY <1>2 DEF CreateBridge, WalletInv
  <2> QED BY <2>1 DEF sessionVars, WalletInv, WalletShapes, SessionFollowsAccount
<1>3. ASSUME NEW a \in Accounts, AccountChanges(a) PROVE WalletInv'
  BY <1>3, AccountStep DEF AccountChanges, WalletInv
<1>4. ASSUME NEW a \in Accounts, NEW id \in ConnectorIds, ConnectWallet(id, a) PROVE WalletInv'
  BY <1>4, AccountStep, NothingIsMade DEF ConnectWallet
<1>5. CASE DisconnectWallet
  BY <1>5, AccountStep DEF DisconnectWallet
<1>6. CASE SwitchNetwork
  BY <1>6, <1>1 DEF SwitchNetwork
<1>7. CASE LogoutAsked
  <2>1. leaving' = leaving + 1 /\ UNCHANGED <<adapters, watched, wagmi, logins, cookie>>
    BY <1>7 DEF LogoutAsked
  <2> QED BY <2>1 DEF WalletInv, WalletShapes, SessionFollowsAccount
<1>8. ASSUME NEW right \in BOOLEAN, NEW next, SwitchAnswered(right, next) PROVE WalletInv'
  <2>1. PICK r : wagmi' = [wagmi EXCEPT !.right = r]
    BY <1>8 DEF SwitchAnswered
  <2>2. wagmi'.account = wagmi.account /\ DOMAIN wagmi' = DOMAIN wagmi
    BY <2>1 DEF WalletInv, WalletShapes
  <2>3. UNCHANGED <<adapters, watched, logins, leaving, cookie>>
    BY <1>8 DEF SwitchAnswered
  <2> QED BY <2>2, <2>3 DEF WalletInv, WalletShapes, SessionFollowsAccount
<1>9. ASSUME NEW c \in Logins,
             Login(c) \/ NonceAnswered(c) \/ MessageSigned(c) \/ LoginAnswered(c) \/ LoginFails(c)
      PROVE  WalletInv'
  <2> DEFINE l == logins[c]
  <2>1. DOMAIN l = {"step", "account", "signer", "late"} /\ l.late \in BOOLEAN
    BY DEF WalletInv, WalletShapes
  <2>2. CASE Login(c)
    BY <2>2, LoginStep DEF Login, NoLogin
  <2>3. CASE NonceAnswered(c)
    BY <2>3, <2>1, LoginStep DEF NonceAnswered
  <2>4. CASE MessageSigned(c)
    <3> DEFINE m == [l EXCEPT !.step = "post", !.signer = wagmi.account]
    <3>1. DOMAIN m = DOMAIN l /\ m.late = l.late /\ m.signer = wagmi.account
      BY <2>1
    <3> HIDE DEF m
    <3> QED BY <2>4, <2>1, <3>1, LoginStep DEF MessageSigned, m
  <2>5. CASE LoginAnswered(c)
    <3>1. /\ l.step = "post" /\ l.signer = l.account
          /\ cookie' = [account |-> l.account, excused |-> l.late]
          /\ LoginGoes(c, NoLogin)
      BY <2>5 DEF LoginAnswered
    <3>2. l.late \/ l.account = wagmi.account
      BY <3>1 DEF WalletInv
    <3>3. DOMAIN cookie' = {"account", "excused"}
      BY <3>1
    <3>4. cookie'.excused \/ cookie'.account = wagmi.account
      BY <3>1, <3>2
    <3> QED BY <3>1, <3>3, <3>4, LoginStep DEF NoLogin
  <2>6. CASE LoginFails(c)
    BY <2>6, LoginStep DEF LoginFails, NoLogin
  <2> QED BY <1>9, <2>2, <2>3, <2>4, <2>5, <2>6
<1>10. ASSUME NEW unheard \in BOOLEAN, LogoutEnds(unheard) PROVE WalletInv'
  <2>1. /\ leaving > 0 /\ leaving' = leaving - 1
        /\ cookie' = IF unheard THEN [cookie EXCEPT !.excused = TRUE] ELSE SignedOut
        /\ UNCHANGED <<adapters, watched, wagmi, logins>>
    BY <1>10 DEF LogoutEnds
  <2>2. /\ DOMAIN cookie' = {"account", "excused"}
        /\ cookie'.excused \/ cookie'.account = NoAccount
    BY <2>1 DEF SignedOut, WalletInv, WalletShapes
  <2> QED BY <2>1, <2>2 DEF WalletInv, WalletShapes, SessionFollowsAccount
<1>11. ASSUME NEW client, NEW age, NEW step, PermitGoes(client, age, step) PROVE WalletInv'
  BY <1>11, <1>1 DEF PermitGoes
<1>12. CASE PermitGrant \/ ClientConnected \/ PermitGranted \/ GrantFails \/ PermitTick
  BY <1>12, <1>11 DEF PermitGrant, ClientConnected, PermitGranted, GrantFails, PermitTick
<1>13. CASE UNCHANGED walletVars
  BY <1>13, <1>1 DEF walletVars
<1> QED BY <1>2, <1>3, <1>4, <1>5, <1>6, <1>7, <1>8, <1>9, <1>10, <1>12, <1>13 DEF WalletNext

\* The cookie is of the account at hand, or a logout for it is on its way, in every
\* order of the wallet's events, the logins and their answers (hub.js).
THEOREM SessionAlwaysFollows == WalletSpec => []SessionFollowsAccount
<1>1. WalletInv => SessionFollowsAccount
  BY DEF WalletInv
<1> QED BY <1>1, WalletStart, WalletStep, PTL DEF WalletSpec

-----------------------------------------------------------------------------
(* The lending screen (LendingScreen). *)
\* The lending screen by itself.
LendSpec == LendInit /\ [][LendNext]_lendVars

\* The handler of the click c is between its first call and its end.
Live(c) == handler[c].at \in {"allowance", "approving", "committing", "executing"}

\* Each click has a handler, with the fields that the code keeps.
HandlerShapes ==
    /\ DOMAIN handler = Clicks
    /\ \A c \in Clicks : DOMAIN handler[c] = {"side", "at", "commit"}

\* The clicks on the panel that is there.
Here == Clicks \ stranded

\* A panel that is left had clicks on it.
GoneBegan == stranded \subseteq Clicks /\ \A c \in stranded : handler[c].at # "idle"

\* At most one handler of the panel is live: the button is disabled by submitting.
OneLive ==
    \A c \in Here : Live(c) => submitting /\ \A d \in Here : Live(d) => d = c

\* The step that is shown is the live handler's, and so is the commitment.
StepShown ==
    \A c \in Here :
        /\ handler[c].at \in {"committing", "executing"} => crStep = handler[c].at
        /\ handler[c].at = "executing" => commitId = c /\ handler[c].commit = c

\* An action has the name of the tab, unless that was changed since.
SideShown ==
    \A c \in Here : handler[c].at # "idle" => handler[c].side = side \/ c \in turned

\* The step that is shown is of a commitment of the panel; "done" of one executed.
CommitShown ==
    /\ crStep \in {"executing", "done"} => commitId \in Here /\ handler[commitId].at # "idle"
    /\ crStep = "done" => commitId \in executed

LendInv ==
    HandlerShapes /\ GoneBegan /\ OneLive /\ StepShown /\ SideShown /\ CommitShown

LEMMA LendStart == LendInit => LendInv
<1> SUFFICES ASSUME LendInit PROVE LendInv
  OBVIOUS
<1>1. DOMAIN handler = Clicks /\ \A c \in Clicks : handler[c] = Quiet
  BY DEF LendInit
<1>2. crStep = "idle" /\ stranded = {}
  BY DEF LendInit
<1>3. DOMAIN Quiet = {"side", "at", "commit"} /\ Quiet.at = "idle"
  BY DEF Quiet
<1> QED BY <1>1, <1>2, <1>3 DEF LendInv, HandlerShapes, GoneBegan, OneLive, StepShown,
           SideShown, CommitShown, Here, Live

\* A write is confirmed, reverts or throws.
LEMMA WritesEnd ==
    ASSUME NEW out \in WriteOutcomes(TRUE)
    PROVE  out.ends \in {"confirmed", "reverted", "throws"}
<1>1. \A code, mayLand : Throws(code, mayLand).ends = "throws"
  BY DEF Throws
<1>2. \A status : Returns(status).ends = status
  BY DEF Returns
<1>3. \/ \E m \in Messages : out = Throws(MapContractError(m), FALSE)
      \/ out = Throws("Error", TRUE) \/ out = Returns("confirmed") \/ out = Returns("reverted")
  BY Zenon DEF WriteOutcomes, SendOutcomes
<1> QED BY <1>1, <1>2, <1>3

\* The handler of one click goes on; those of the others are left alone.
OneMoves(c, at) ==
    /\ HandlerShapes' /\ handler'[c].at = at /\ handler'[c].side = handler[c].side
    /\ \A d \in Clicks \ {c} : handler'[d] = handler[d]

LEMMA HandlerWaits ==
    ASSUME HandlerShapes, NEW c \in Clicks, NEW at, Waits(c, at)
    PROVE  OneMoves(c, at) /\ handler'[c].commit = handler[c].commit
<1>1. DOMAIN handler[c] = {"side", "at", "commit"}
  BY DEF HandlerShapes
<1>2. PICK h : h = [handler[c] EXCEPT !.at = at]
  OBVIOUS
<1>3. /\ DOMAIN h = {"side", "at", "commit"} /\ h.at = at /\ h.commit = handler[c].commit
      /\ h.side = handler[c].side
  BY <1>1, <1>2
<1>4. handler' = [handler EXCEPT ![c] = h]
  BY <1>2 DEF Waits
<1> QED BY <1>3, <1>4 DEF HandlerShapes, OneMoves

LEMMA CommitKept ==
    ASSUME HandlerShapes, NEW c \in Clicks,
           handler' = [handler EXCEPT ![c].at = "executing", ![c].commit = c]
    PROVE  OneMoves(c, "executing") /\ handler'[c].commit = c
<1>1. DOMAIN handler[c] = {"side", "at", "commit"}
  BY DEF HandlerShapes
<1>2. PICK h : h = [[handler[c] EXCEPT !.at = "executing"] EXCEPT !.commit = c]
  OBVIOUS
<1>3. /\ DOMAIN h = {"side", "at", "commit"} /\ h.at = "executing" /\ h.commit = c
      /\ h.side = handler[c].side
  BY <1>1, <1>2
<1>4. handler' = [handler EXCEPT ![c] = h]
  BY <1>2 DEF HandlerShapes
<1> QED BY <1>3, <1>4 DEF HandlerShapes, OneMoves

\* The screen is not left, the tab not changed.
ScreenStays == UNCHANGED <<side, stranded, turned>>

\* What a live handler's move leaves true whoever it is of.
LEMMA MovesKeepPlaces ==
    ASSUME LendInv, NEW c \in Clicks, NEW at, at # "idle", Live(c), OneMoves(c, at), ScreenStays
    PROVE  HandlerShapes' /\ GoneBegan' /\ SideShown' /\ Here' = Here
<1>1. handler[c].at # "idle"
  BY DEF Live
<1> QED BY <1>1 DEF LendInv, GoneBegan, SideShown, Here, OneMoves, ScreenStays

\* A handler of a panel that is gone moves the chain only.
LEMMA GoneMoves ==
    ASSUME LendInv, NEW c \in stranded, NEW at, at # "idle", Live(c), OneMoves(c, at), ScreenStays,
           UNCHANGED <<crStep, submitting, commitId>>, executed \subseteq executed'
    PROVE  LendInv'
<1>1. c \in Clicks /\ c \notin Here
  BY DEF LendInv, GoneBegan, Here
<1>2. HandlerShapes' /\ GoneBegan' /\ SideShown' /\ Here' = Here
  BY <1>1, MovesKeepPlaces
<1>3. \A d \in Here : handler'[d] = handler[d]
  BY <1>1 DEF OneMoves, Here
<1>4. OneLive' /\ StepShown' /\ CommitShown'
  BY <1>2, <1>3 DEF LendInv, OneLive, StepShown, CommitShown, Live
<1> QED BY <1>2, <1>4 DEF LendInv

\* The live handler of the panel ends; "done" is set for what is on the chain.
LEMMA ActOver ==
    ASSUME LendInv, NEW c \in Clicks, NEW step, Live(c), ActEnds(c, step), ScreenStays,
           UNCHANGED commitId, executed \subseteq executed',
           c \in Here /\ step \in {"executing", "done"}
               => step = "done" /\ (\/ handler[c].at = "executing" /\ c \in executed'
                                    \/ crStep = "done")
    PROVE  LendInv'
<1>1. OneMoves(c, "over")
  BY HandlerWaits DEF ActEnds, LendInv
<1>2. CASE c \in stranded
  BY <1>1, <1>2, GoneMoves DEF ActEnds, PanelReads
<1>3. CASE c \notin stranded
  <2>1. HandlerShapes' /\ GoneBegan' /\ SideShown' /\ Here' = Here
    BY <1>1, MovesKeepPlaces
  <2>2. c \in Here
    BY <1>3 DEF Here
  <2>3. \A d \in Here : ~Live(d)'
    BY <1>1, <2>2 DEF Live, LendInv, OneLive, OneMoves, Here
  <2>4. crStep' = step
    BY <1>3 DEF ActEnds, PanelReads
  <2>5. OneLive' /\ StepShown'
    BY <2>1, <2>3 DEF OneLive, StepShown, Live
  <2>6. CommitShown'
    <3>1. SUFFICES ASSUME step \in {"executing", "done"} PROVE CommitShown'
      BY <2>4 DEF CommitShown
    <3>2. step = "done" /\ (\/ handler[c].at = "executing" /\ c \in executed'
                            \/ crStep = "done")
      BY <2>2, <3>1
    <3>3. CASE crStep = "done"
      <4>1. commitId \in Here /\ handler[commitId].at # "idle" /\ commitId \in executed
        BY <3>3 DEF LendInv, CommitShown
      <4>2. handler'[commitId].at # "idle"
        BY <1>1, <4>1 DEF OneMoves, Here
      <4> QED BY <2>1, <4>1, <4>2 DEF CommitShown
    <3>4. CASE handler[c].at = "executing" /\ c \in executed'
      <4>1. commitId = c
        BY <2>2, <3>4 DEF LendInv, StepShown
      <4>2. handler'[c].at # "idle"
        BY <1>1 DEF OneMoves
      <4> QED BY <2>1, <2>2, <3>4, <4>1, <4>2 DEF CommitShown
    <3> QED BY <3>2, <3>3, <3>4
  <2> QED BY <2>1, <2>5, <2>6 DEF LendInv
<1> QED BY <1>2, <1>3

\* A handler that ends before its commit leaves the step of an earlier one.
LEMMA EarlyEnd ==
    ASSUME LendInv, NEW c \in Clicks, handler[c].at \in {"allowance", "approving"}, ScreenStays,
           UNCHANGED <<commitId, executed>>, ActEnds(c, crStep)
    PROVE  LendInv'
<1>1. Live(c)
  BY DEF Live
<1>2. CASE crStep # "executing" \/ c \notin Here
  BY <1>1, <1>2, ActOver
<1>3. CASE crStep = "executing" /\ c \in Here
  <2>1. OneMoves(c, "over")
    BY HandlerWaits DEF ActEnds, LendInv
  <2>2. HandlerShapes' /\ GoneBegan' /\ SideShown' /\ Here' = Here
    BY <1>1, <2>1, MovesKeepPlaces
  <2>3. \A d \in Here : ~Live(d)'
    BY <1>1, <1>3, <2>1 DEF Live, LendInv, OneLive, OneMoves, Here
  <2>4. crStep' = crStep
    BY <1>3 DEF ActEnds, PanelReads
  <2>5. OneLive' /\ StepShown'
    BY <2>2, <2>3 DEF OneLive, StepShown, Live
  <2>6. CommitShown'
    BY <1>3, <2>1, <2>2, <2>4 DEF LendInv, CommitShown, OneMoves, Here
  <2> QED BY <2>2, <2>5, <2>6 DEF LendInv
<1> QED BY <1>2, <1>3

\* The live handler goes on to the next call.
LEMMA ActGoesOn ==
    ASSUME LendInv, NEW c \in Clicks, NEW at \in {"approving", "committing"}, Live(c), Waits(c, at),
           IF at = "committing" THEN PanelReads(c, at, submitting) ELSE UNCHANGED <<crStep, submitting>>,
           handler[c].at \in {"allowance", "approving"}, ScreenStays,
           UNCHANGED <<commitId, executed>>
    PROVE  LendInv'
<1>1. OneMoves(c, at)
  BY HandlerWaits DEF LendInv
<1>2. CASE c \in stranded
  BY <1>1, <1>2, GoneMoves DEF PanelReads
<1>3. CASE c \notin stranded
  <2>1. HandlerShapes' /\ GoneBegan' /\ SideShown' /\ Here' = Here
    BY <1>1, MovesKeepPlaces
  <2>2. c \in Here
    BY <1>3 DEF Here
  <2>3. submitting' = submitting /\ crStep' = IF at = "committing" THEN at ELSE crStep
    BY <1>3 DEF PanelReads
  <2>4. \A d \in Here : Live(d)' => d = c
    BY <1>1, <2>2 DEF Live, LendInv, OneLive, OneMoves, Here
  <2>5. OneLive'
    BY <2>1, <2>2, <2>3, <2>4 DEF OneLive, LendInv
  <2>6. StepShown'
    BY <1>1, <2>1, <2>3, <2>4 DEF StepShown, Live, OneMoves
  <2>7. CommitShown'
    <3>1. crStep' \in {"executing", "done"} => crStep' = crStep
      BY <2>3
    <3>2. \A d \in Here : handler[d].at # "idle" => handler'[d].at # "idle"
      BY <1>1 DEF OneMoves, Here
    <3> QED BY <2>1, <3>1, <3>2 DEF CommitShown, LendInv
  <2> QED BY <2>1, <2>5, <2>6, <2>7 DEF LendInv
<1> QED BY <1>2, <1>3

\* The panel is left: what was clicked on it shows nothing on the next one.
LEMMA PanelStep == LendInv /\ PanelGoes => LendInv'
<1>1. SUFFICES ASSUME LendInv, PanelGoes PROVE LendInv'
  OBVIOUS
<1>2. /\ stranded' = Begun /\ crStep' = "idle" /\ UNCHANGED <<handler, executed>>
  BY <1>1 DEF PanelGoes, chainVars
<1>3. \A c \in Here' : handler'[c].at = "idle"
  BY <1>2 DEF Begun, Here
<1>4. OneLive' /\ StepShown' /\ SideShown' /\ CommitShown'
  BY <1>2, <1>3 DEF OneLive, StepShown, SideShown, CommitShown, Live
<1>5. HandlerShapes' /\ GoneBegan'
  BY <1>1, <1>2 DEF LendInv, HandlerShapes, GoneBegan, Begun
<1> QED BY <1>4, <1>5 DEF LendInv

LEMMA ClickStep ==
    ASSUME LendInv, NEW c \in Clicks, NEW a, Click(c, a) PROVE LendInv'
<1>1. /\ handler[c] = Quiet /\ ~submitting /\ UNCHANGED <<commitId, executed, side, stranded, turned>>
  BY DEF Click, MayAct, chainVars
<1>2. c \in Here /\ stranded \subseteq Clicks
  BY <1>1 DEF LendInv, GoneBegan, Here, Quiet
<1>3. \A d \in Here : ~Live(d)
  BY <1>1 DEF LendInv, OneLive
<1>4. PICK at : /\ handler' = [handler EXCEPT ![c] = [Quiet EXCEPT !.side = side, !.at = at]]
                /\ \/ at = "over" /\ crStep' = "failed"
                   \/ at = "allowance" /\ submitting' /\ crStep' = crStep
                   \/ at = "committing" /\ submitting' /\ crStep' = "committing"
  BY <1>1 DEF Click
<1>5. PICK h : h = [Quiet EXCEPT !.side = side, !.at = at]
  OBVIOUS
<1>6. DOMAIN h = {"side", "at", "commit"} /\ h.at = at /\ h.side = side
  BY <1>5 DEF Quiet
<1>7. /\ HandlerShapes' /\ handler'[c].at = at /\ handler'[c].side = side
      /\ \A d \in Clicks \ {c} : handler'[d] = handler[d]
  BY <1>4, <1>5, <1>6 DEF LendInv, HandlerShapes
<1>8. Here' = Here /\ Here \subseteq Clicks
  BY <1>1 DEF Here
<1>9. \A d \in Here : Live(d)' => d = c
  BY <1>3, <1>7, <1>8 DEF Live
<1>10. GoneBegan'
  BY <1>1, <1>4, <1>7 DEF LendInv, GoneBegan
<1>11. OneLive'
  BY <1>4, <1>7, <1>8, <1>9 DEF OneLive, Live
<1>12. StepShown'
  BY <1>4, <1>7, <1>8, <1>9 DEF StepShown, Live
<1>13. SideShown'
  BY <1>1, <1>7, <1>8 DEF LendInv, SideShown
<1>14. CommitShown'
  <2>1. crStep' \in {"executing", "done"} => crStep' = crStep
    BY <1>4
  <2>2. \A d \in Here : handler[d].at # "idle" => handler'[d].at # "idle"
    BY <1>4, <1>7, <1>8
  <2> QED BY <1>1, <1>8, <2>1, <2>2 DEF LendInv, CommitShown
<1> QED BY <1>7, <1>10, <1>11, <1>12, <1>13, <1>14 DEF LendInv

LEMMA CommitStep ==
    ASSUME LendInv, NEW c \in Clicks, CommitAnswers(c) PROVE LendInv'
<1>1. handler[c].at = "committing" /\ Live(c) /\ ScreenStays
  BY DEF CommitAnswers, Live, ScreenStays
<1>2. \/ /\ handler' = [handler EXCEPT ![c].at = "executing", ![c].commit = c]
         /\ PanelReads(c, "executing", submitting)
         /\ commitId' = IF c \in stranded THEN commitId ELSE c
         /\ Lands("commit", c)
      \/ ActEnds(c, "failed") /\ UNCHANGED <<commitId, executed>>
  BY DEF CommitAnswers
<1>3. CASE ActEnds(c, "failed") /\ UNCHANGED <<commitId, executed>>
  BY <1>1, <1>3, ActOver
<1>4. CASE /\ handler' = [handler EXCEPT ![c].at = "executing", ![c].commit = c]
           /\ PanelReads(c, "executing", submitting)
           /\ commitId' = IF c \in stranded THEN commitId ELSE c
           /\ Lands("commit", c)
  <2>1. OneMoves(c, "executing") /\ handler'[c].commit = c
    BY <1>4, CommitKept DEF LendInv
  <2>2. UNCHANGED executed
    BY <1>4 DEF Lands
  <2>3. CASE c \in stranded
    BY <1>1, <1>4, <2>1, <2>2, <2>3, GoneMoves DEF PanelReads
  <2>4. CASE c \notin stranded
    <3>1. HandlerShapes' /\ GoneBegan' /\ SideShown' /\ Here' = Here
      BY <1>1, <2>1, MovesKeepPlaces
    <3>2. c \in Here
      BY <2>4 DEF Here
    <3>3. crStep' = "executing" /\ submitting' = submitting /\ commitId' = c
      BY <1>4, <2>4 DEF PanelReads
    <3>4. \A d \in Here : Live(d)' => d = c
      BY <1>1, <2>1, <3>2 DEF Live, LendInv, OneLive, OneMoves, Here
    <3>5. OneLive'
      BY <1>1, <3>1, <3>2, <3>3, <3>4 DEF OneLive, LendInv
    <3>6. StepShown'
      BY <2>1, <3>1, <3>3, <3>4 DEF StepShown, Live, OneMoves
    <3>7. CommitShown'
      BY <2>1, <3>1, <3>2, <3>3 DEF CommitShown, OneMoves
    <3> QED BY <3>1, <3>5, <3>6, <3>7 DEF LendInv
  <2> QED BY <2>3, <2>4
<1> QED BY <1>2, <1>3, <1>4

LEMMA ExecutedStep ==
    ASSUME LendInv, NEW c \in Clicks, ExecuteAnswers(c) PROVE LendInv'
<1>1. handler[c].at = "executing" /\ Live(c) /\ UNCHANGED commitId /\ ScreenStays
  BY DEF ExecuteAnswers, Live, ScreenStays
<1>2. c \in Here => handler[c].commit = c
  BY <1>1 DEF LendInv, StepShown
<1>3. PICK ends : /\ ActEnds(c, ExecuteStep(ends))
                  /\ ends = "confirmed" => handler[c].commit \in commits
                  /\ IF ends = "confirmed" THEN Lands("execute", handler[c].commit)
                     ELSE UNCHANGED <<commits, executed>>
  BY DEF ExecuteAnswers
<1>4. CASE ends = "confirmed"
  <2>1. executed \subseteq executed' /\ (c \in Here => c \in executed')
    BY <1>2, <1>3, <1>4 DEF Lands
  <2>2. ActEnds(c, "done")
    BY <1>3, <1>4 DEF ExecuteStep
  <2> QED BY <1>1, <2>1, <2>2, ActOver
<1>5. CASE ends # "confirmed"
  <2>1. ActEnds(c, "failed") /\ UNCHANGED executed
    BY <1>3, <1>5 DEF ExecuteStep
  <2> QED BY <1>1, <2>1, ActOver
<1> QED BY <1>4, <1>5

LEMMA LendStep == LendInv /\ [LendNext]_lendVars => LendInv'
<1> SUFFICES ASSUME LendInv, [LendNext]_lendVars PROVE LendInv'
  OBVIOUS
<1>1. CASE /\ UNCHANGED <<handler, submitting, crStep, commitId, stranded, side, turned>>
           /\ executed \subseteq executed'
  BY <1>1 DEF LendInv, HandlerShapes, GoneBegan, OneLive, StepShown, SideShown, CommitShown,
     Here, Live
<1>2. ASSUME NEW c \in Clicks, NEW a, Click(c, a) PROVE LendInv'
  BY <1>2, ClickStep
<1>3. ASSUME NEW c \in Clicks, AllowanceAnswers(c) PROVE LendInv'
  <2>1. handler[c].at = "allowance" /\ Live(c) /\ UNCHANGED <<commitId, executed>> /\ ScreenStays
    BY <1>3 DEF AllowanceAnswers, Live, chainVars, ScreenStays
  <2>2. CASE Waits(c, "committing") /\ PanelReads(c, "committing", submitting)
    BY <2>1, <2>2, ActGoesOn
  <2>3. CASE Waits(c, "approving") /\ UNCHANGED <<crStep, submitting>>
    BY <2>1, <2>3, ActGoesOn
  <2>4. CASE ActEnds(c, crStep)
    BY <2>1, <2>4, EarlyEnd
  <2> QED BY <1>3, <2>2, <2>3, <2>4 DEF AllowanceAnswers
<1>4. ASSUME NEW c \in Clicks, ApprovalAnswers(c) PROVE LendInv'
  <2>1. handler[c].at = "approving" /\ Live(c) /\ UNCHANGED <<commitId, executed>> /\ ScreenStays
    BY <1>4 DEF ApprovalAnswers, Live, chainVars, ScreenStays
  <2>2. \/ Waits(c, "committing") /\ PanelReads(c, "committing", submitting)
        \/ ActEnds(c, "failed") \/ ActEnds(c, crStep)
    BY <1>4, WritesEnd DEF ApprovalAnswers
  <2>3. CASE Waits(c, "committing") /\ PanelReads(c, "committing", submitting)
    BY <2>1, <2>3, ActGoesOn
  <2>4. CASE ActEnds(c, "failed") \/ ActEnds(c, crStep)
    BY <2>1, <2>4, ActOver, EarlyEnd
  <2> QED BY <2>2, <2>3, <2>4
<1>5. ASSUME NEW c \in Clicks, CommitAnswers(c) PROVE LendInv'
  BY <1>5, CommitStep
<1>6. ASSUME NEW c \in Clicks, ExecuteAnswers(c) PROVE LendInv'
  BY <1>6, ExecutedStep
<1>7. CASE MinedLate
  <2>1. executed \subseteq executed'
    BY <1>7 DEF MinedLate, Lands
  <2> QED BY <1>7, <2>1, <1>1 DEF MinedLate
<1>8. CASE ChooseSide
  <2>1. UNCHANGED <<handler, submitting, crStep, commitId, stranded, executed>>
    BY <1>8 DEF ChooseSide, chainVars
  <2>2. \/ UNCHANGED <<side, turned>> \/ turned' = turned \cup Begun
    BY <1>8 DEF ChooseSide
  <2>3. CASE turned' = turned \cup Begun
    <3>1. SideShown'
      BY <2>1, <2>3 DEF SideShown, Begun, Here
    <3>2. HandlerShapes' /\ GoneBegan' /\ OneLive' /\ StepShown' /\ CommitShown'
      BY <2>1 DEF LendInv, HandlerShapes, GoneBegan, OneLive, StepShown, CommitShown, Here, Live
    <3> QED BY <3>1, <3>2 DEF LendInv
  <2> QED BY <2>1, <2>2, <2>3, <1>1
<1>9. CASE UNCHANGED actVars
  BY <1>9, <1>1 DEF actVars, chainVars
<1>10. CASE \/ TargetsAnswer \/ (\E t \in Targets : Liquidate(t)) \/ LiquidationAnswers
            \/ LiqResultFades \/ Drip \/ FaucetResultFades
            \/ \E ok \in BOOLEAN : DripAnswers(ok)
  BY <1>10, <1>9 DEF TargetsAnswer, Liquidate, LiquidationAnswers, LiqResultFades, Drip,
     FaucetResultFades, DripAnswers, FaucetOnly
<1>11. CASE UNCHANGED lendVars
  BY <1>11, <1>9 DEF lendVars
<1>12. CASE MarketsGo \/ LeaveScreen
  BY <1>12, PanelStep DEF MarketsGo, LeaveScreen
<1> QED BY <1>2, <1>3, <1>4, <1>5, <1>6, <1>7, <1>8, <1>10, <1>11, <1>12, Zenon DEF LendNext

\* The panel says "complete" only of a commitment made on it and executed by the
\* pool, under its name unless the tab was changed, and never beside an action of
\* its own that commits or executes: with any number of clicks, failures, changes
\* of tab and of screen, and of handlers left behind (lending.jsx, app.jsx).
THEOREM DoneWasAlwaysExecuted == LendSpec => []DoneWasExecuted
<1>1. LendInv => DoneWasExecuted
  <2>1. SUFFICES ASSUME LendInv, crStep = "done" PROVE DoneWasExecuted
    BY DEF DoneWasExecuted
  <2>2. commitId \in Here /\ handler[commitId].at # "idle" /\ commitId \in executed
    BY <2>1 DEF LendInv, CommitShown
  <2>3. handler[commitId].side = side \/ commitId \in turned
    BY <2>1, <2>2 DEF LendInv, SideShown
  <2>4. \A c \in Clicks \ stranded : handler[c].at \notin {"committing", "executing"}
    BY <2>1 DEF LendInv, StepShown, Here
  <2> QED BY <2>2, <2>3, <2>4 DEF DoneWasExecuted, Here
<1> QED BY <1>1, LendStart, LendStep, PTL DEF LendSpec

-----------------------------------------------------------------------------
(* The simulation on the canvas (CanvasView). *)
\* The canvas by itself.
CanvasSpec == CanvasInit /\ [][CanvasNext]_canvasVars

\* s holds 0 in its last place and nowhere else.
EndsOnce(s) ==
    /\ s \in Seq(Nat)
    /\ \A i \in 1 .. Len(s) : s[i] = 0 <=> i = Len(s)

\* Each run has the timers of its steps ahead of it, the last of which ends it; and
\* what is shown as running has a timer.
RunInv ==
    /\ placed \subseteq CanvasNodes /\ mounted \in Nat
    /\ DOMAIN runs = Runs /\ \A r \in Runs : EndsOnce(runs[r])
    /\ running \/ runStep # 0 => \E r \in Runs : runs[r] # <<>>

\* The nodes of a draft can be counted.
LEMMA DraftIsFinite == ASSUME NEW ns \in SUBSET CanvasNodes PROVE OrderOf(ns) \in Nat
BY CanvasAssumption, FS_Subset, FS_CardinalityType DEF OrderOf

LEMMA RunStart == CanvasInit => RunInv
<1> SUFFICES ASSUME CanvasInit PROVE RunInv
  OBVIOUS
<1>1. placed \subseteq CanvasNodes /\ mounted = OrderOf(placed)
  BY DEF CanvasInit, OrderOf
<1>2. mounted \in Nat
  BY <1>1, DraftIsFinite
<1>3. DOMAIN runs = Runs /\ \A r \in Runs : runs[r] = <<>>
  BY DEF CanvasInit
<1>4. EndsOnce(<<>>)
  BY DEF EndsOnce
<1>5. ~running /\ runStep = 0
  BY DEF CanvasInit
<1> QED BY <1>1, <1>2, <1>3, <1>4, <1>5, Zenon DEF RunInv

\* The timers of a new run end with the one that ends the run.
LEMMA ScheduleEnds == ASSUME NEW n \in Nat PROVE EndsOnce(Schedule(n)) /\ Schedule(n) # <<>>
<1> DEFINE steps == [i \in 1 .. n |-> i]
<1>1. steps \in Seq(Nat) /\ Len(steps) = n /\ \A i \in 1 .. n : steps[i] = i
  OBVIOUS
<1>2. Schedule(n) = steps \o <<0>>
  BY DEF Schedule
<1> HIDE DEF steps
<1>3. /\ Schedule(n) \in Seq(Nat) /\ Len(Schedule(n)) = n + 1
      /\ \A i \in 1 .. n + 1 : Schedule(n)[i] = IF i <= n THEN steps[i] ELSE 0
  BY <1>1, <1>2
<1> QED BY <1>1, <1>3 DEF EndsOnce

\* So do those that are left when one has fired.
LEMMA TailEnds ==
    ASSUME NEW s, EndsOnce(s), s # <<>>
    PROVE  EndsOnce(Tail(s)) /\ (Head(s) # 0 => Tail(s) # <<>>)
<1>1. s \in Seq(Nat) /\ Len(s) > 0
  BY DEF EndsOnce
<1>2. /\ Tail(s) \in Seq(Nat) /\ Len(Tail(s)) = Len(s) - 1
      /\ \A i \in 1 .. Len(s) - 1 : Tail(s)[i] = s[i + 1]
      /\ Head(s) = s[1]
  BY <1>1
<1>3. ASSUME NEW i \in 1 .. Len(Tail(s)) PROVE Tail(s)[i] = 0 <=> i = Len(Tail(s))
  <2>1. i \in Nat /\ i + 1 \in 1 .. Len(s) /\ Tail(s)[i] = s[i + 1]
    BY <1>1, <1>2
  <2>2. s[i + 1] = 0 <=> i + 1 = Len(s)
    BY <2>1 DEF EndsOnce
  <2>3. Len(s) \in Nat /\ Len(Tail(s)) = Len(s) - 1
    BY <1>1, <1>2
  <2>4. i + 1 = Len(s) <=> i = Len(Tail(s))
    BY <2>1, <2>3
  <2> QED BY <2>1, <2>2, <2>4, Zenon
<1>4. s[1] # 0 => Len(s) # 1
  BY <1>1 DEF EndsOnce
<1>5. s[1] # 0 => Tail(s) # <<>>
  <2>1. Len(s) \in Nat /\ Len(<<>>) = 0
    BY <1>1
  <2>2. PICK m, n : m \in Nat /\ m = Len(s) /\ n = Len(Tail(s))
    BY <2>1
  <2>3. n = m - 1
    BY <1>2, <2>2
  <2>4. Tail(s) = <<>> => n = 0
    BY <2>1, <2>2, Zenon
  <2>5. Tail(s) = <<>> => m = 1
    BY <2>3, <2>4
  <2> QED BY <1>4, <2>2, <2>5
<1> QED BY <1>2, <1>3, <1>5 DEF EndsOnce

\* Timers that end with it hold it.
LEMMA EndIsThere == ASSUME NEW s, EndsOnce(s), s # <<>> PROVE 0 \in ToSet(s)
<1>1. Len(s) \in 1 .. Len(s) /\ s[Len(s)] = 0 /\ DOMAIN s = 1 .. Len(s)
  BY DEF EndsOnce
<1> QED BY <1>1 DEF ToSet

\* A run is started, or started again: its old timers are cleared.
LEMMA RunBegins ==
    ASSUME RunInv, NEW r \in Runs, NEW n \in Nat, NEW from, RunSim(r, n, from)
    PROVE  RunInv'
<1>1. /\ runs' = [runs EXCEPT ![r] = Schedule(n)] /\ UNCHANGED <<placed, mounted>>
  BY DEF RunSim
<1>2. DOMAIN runs' = Runs /\ runs'[r] # <<>> /\ \A q \in Runs : EndsOnce(runs'[q])
  BY <1>1, ScheduleEnds DEF RunInv
<1> QED BY <1>1, <1>2 DEF RunInv

\* A timer of a run fires.
LEMMA RunGoesOn == ASSUME RunInv, NEW r \in Runs, RunTimer(r) PROVE RunInv'
<1>1. /\ runs[r] # <<>> /\ runs' = [runs EXCEPT ![r] = Tail(runs[r])]
      /\ UNCHANGED <<placed, mounted>>
  BY DEF RunTimer
<1>2. /\ DOMAIN runs' = Runs /\ runs'[r] = Tail(runs[r])
      /\ \A q \in Runs : EndsOnce(runs'[q])
  BY <1>1, TailEnds DEF RunInv
<1>3. Head(runs[r]) # 0 => runs'[r] # <<>>
  BY <1>1, <1>2, TailEnds DEF RunInv
<1>4. running' \/ runStep' # 0 => Head(runs[r]) # 0
  <2>1. running' = (running /\ Head(runs[r]) # 0) /\ runStep' = Head(runs[r])
    BY DEF RunTimer
  <2> QED BY <2>1, Zenon
<1> QED BY <1>1, <1>2, <1>3, <1>4 DEF RunInv

\* What the invariant is about.
runVars == <<placed, mounted, running, runStep, runs>>

LEMMA RunStep1 == RunInv /\ [CanvasNext]_canvasVars => RunInv'
<1> SUFFICES ASSUME RunInv, [CanvasNext]_canvasVars PROVE RunInv'
  OBVIOUS
<1>1. CASE UNCHANGED runVars
  BY <1>1 DEF RunInv, runVars
<1>2. CASE \E r \in Runs : ClickSimulate(r) \/ KeySimulate(r) \/ RunTimer(r)
  <2>1. PICK r \in Runs : ClickSimulate(r) \/ KeySimulate(r) \/ RunTimer(r)
    BY <1>2
  <2>2. OrderOf(placed) \in Nat /\ mounted \in Nat
    BY DraftIsFinite DEF RunInv
  <2> QED BY <2>1, <2>2, RunBegins, RunGoesOn DEF ClickSimulate, KeySimulate
<1>3. CASE \E ns \in SUBSET CanvasNodes : EditNodes(ns) \/ DropEntry(ns)
  BY <1>3 DEF EditNodes, DropEntry, RunInv
<1>4. CASE UNCHANGED simVars \/ Steady
  BY <1>1, <1>4 DEF simVars, Steady, runVars, RunInv
<1>5. CASE \/ IdleTick \/ \E on \in BOOLEAN : Link(on)
  BY <1>1, <1>5 DEF IdleTick, Link, runVars
<1>6. CASE \/ ToggleCameraLock \/ ResetZoom \/ WheelPan \/ PanMoves
           \/ \E on, space \in BOOLEAN : Tools(on, space)
           \/ \E by \in {-1, 1} : DragOver(by)
           \/ \E by \in {-1, 1}, pan \in {view.pan, "moved"} : Zoom(by, pan)
           \/ \E scale \in ZoomMin .. ZoomMax : FitAll(scale)
           \/ PressCanvas \/ PressNode \/ Release
  BY <1>4, <1>6 DEF ToggleCameraLock, ResetZoom, WheelPan, PanMoves, Tools, DragOver, Zoom, FitAll,
     PressCanvas, PressNode, Release, Views
<1>7. CASE Overlaid \/ Beside
  BY <1>4, <1>7 DEF Overlaid, Beside
<1>8. CASE \/ \E o \in {"fullscreen", "cheat", "overflow"} : Toggle(o)
           \/ ClickElsewhere \/ CloseConfig \/ Escape
           \/ \E n \in CanvasNodes : OpenConfig(n)
  BY <1>5, <1>7, <1>8 DEF Toggle, ClickElsewhere, CloseConfig, Escape, OpenConfig
<1>9. CASE \/ SaveTimer \/ ToggleRail \/ \E on \in BOOLEAN : ListKey(on)
           \/ \E k \in EdgeKeys : MarkRecentEdge(k) \/ MarkTimer(k)
  BY <1>4, <1>7, <1>9 DEF SaveTimer, ToggleRail, ListKey, MarkRecentEdge, MarkTimer
<1>10. CASE UNCHANGED canvasVars
  BY <1>4, <1>10 DEF canvasVars
<1> QED BY <1>2, <1>3, <1>5, <1>6, <1>8, <1>9, <1>10 DEF CanvasNext

\* A simulation that is shown as running has a timer that will end it, whatever is
\* edited or started meanwhile (builder-workspace.jsx).
THEOREM SimulationAlwaysEnds == CanvasSpec => []SimulationEnds
<1>1. RunInv => SimulationEnds
  BY EndIsThere DEF RunInv, SimulationEnds
<1> QED BY <1>1, RunStart, RunStep1, PTL DEF CanvasSpec

-----------------------------------------------------------------------------
(* The Deploy button (StrategyDeploy). *)
\* The Deploy button by itself.
DeploySpec == DeployInit /\ [][DeployNext]_deployVars

\* The kinds of transactions that are a module's own.
Own == {"commit", "execute", "deposit"}

\* The transaction of the plan's place i is on the chain, by d, if it is a module's own.
OnChain(d, i) ==
    LET tx == Plan(deploy[d].canvas)[i]
    IN  tx.kind \in Own => [by |-> d, kind |-> tx.kind, of |-> tx.of] \in chain

\* The fields of a handler.
DeployFields == {"canvas", "todo", "short", "at"}

\* Each click has a handler with these fields.
DeployShapes ==
    /\ DOMAIN deploy = Deploys
    /\ \A d \in Deploys : DOMAIN deploy[d] = DeployFields

\* Every place of the plan that is behind the handler d is on the chain.
PlaceDone(d) == \A i \in DOMAIN Plan(deploy[d].canvas) \ deploy[d].todo : OnChain(d, i)

\* Only the token of a position is ever found short, which is approved and asked for
\* again.
ShortIsNoOwn(d) == \A i \in deploy[d].short : Plan(deploy[d].canvas)[i].kind \notin Own

\* A toast that says "confirmed" is of a handler that is over with all of its plan
\* on the chain.
ToastInv ==
    deployResult.ok =>
        /\ deployResult.by \in Deploys /\ deploy[deployResult.by].at = "over"
        /\ \A i \in DOMAIN Plan(deploy[deployResult.by].canvas) : OnChain(deployResult.by, i)

\* A handler that runs has put on the chain what is behind it.
DeployInv ==
    /\ DeployShapes
    /\ \A d \in Deploys : deploy[d].at = "running" => PlaceDone(d) /\ ShortIsNoOwn(d)
    /\ ToastInv

LEMMA DeployStart == DeployInit => DeployInv
<1> SUFFICES ASSUME DeployInit PROVE DeployInv
  OBVIOUS
<1>1. DOMAIN deploy = Deploys /\ \A d \in Deploys : deploy[d] = NotYet
  BY DEF DeployInit
<1>2. DOMAIN NotYet = DeployFields /\ NotYet.at = "idle"
  BY DEF NotYet, DeployFields
<1>3. ~deployResult.ok
  BY DEF DeployInit, NoToast
<1>4. "idle" # "running"
  OBVIOUS
<1> QED BY <1>1, <1>2, <1>3, <1>4, Zenon DEF DeployInv, DeployShapes, ToastInv

\* An own transaction that neither throws nor reverts is confirmed.
LEMMA AnswersEnd ==
    ASSUME NEW kind \in Own, NEW out \in Outcomes(kind)
    PROVE  out.ends \in {"confirmed", "reverted", "throws"} /\ kind \in LooksAtStatus
<1>1. \A code, mayLand : Throws(code, mayLand).ends = "throws"
  BY DEF Throws
<1>2. Outcomes(kind) = CommitOutcomes(1, TRUE, TRUE) \/ Outcomes(kind) = ExecuteOutcomes(TRUE)
  BY DEF Outcomes, Own
<1>3. \/ \E code : out = Throws(code, FALSE)
      \/ out \in WriteOutcomes(TRUE)
  BY <1>2 DEF CommitOutcomes, ExecuteOutcomes
<1>4. out.ends \in {"confirmed", "reverted", "throws"}
  BY <1>1, <1>3, WritesEnd
<1> QED BY <1>4 DEF Own, LooksAtStatus

\* Handlers that a step leaves alone keep what they have put on the chain.
LEMMA OthersKeep ==
    ASSUME DeployInv, NEW d \in Deploys, deploy'[d] = deploy[d], chain \subseteq chain'
    PROVE  /\ deploy[d].at = "running" => PlaceDone(d)' /\ ShortIsNoOwn(d)'
           /\ \A i : OnChain(d, i) => OnChain(d, i)'
BY DEF DeployInv, PlaceDone, ShortIsNoOwn, OnChain

\* A toast that stays says what it said, when the handlers that are over stay.
LEMMA ToastStays ==
    ASSUME DeployInv, UNCHANGED deployResult, chain \subseteq chain',
           \A d \in Deploys : deploy[d].at = "over" => deploy'[d] = deploy[d]
    PROVE  ToastInv'
<1> SUFFICES ASSUME deployResult.ok PROVE ToastInv'
  BY DEF ToastInv
<1>1. PICK d \in Deploys : d = deployResult.by /\ deploy[d].at = "over"
  BY DEF DeployInv, ToastInv
<1>2. deploy'[d] = deploy[d]
  BY <1>1
<1>3. \A i \in DOMAIN Plan(deploy[d].canvas) : OnChain(d, i)'
  BY <1>1, <1>2, OthersKeep DEF DeployInv, ToastInv
<1> QED BY <1>1, <1>2, <1>3 DEF ToastInv

\* An answer to a transaction: the handler gives up, approves first, or goes on.
LEMMA StepKeeps == ASSUME DeployInv, NEW d \in Deploys, StepAnswers(d) PROVE DeployInv'
<1>1. PICK i \in deploy[d].todo :
         \E out \in Outcomes(NextTx(d, i).kind) :
            LET tx == NextTx(d, i)
                mine == [by |-> d, kind |-> tx.kind, of |-> tx.of]
            IN
            /\ IF out.ends = "throws" \/ (out.ends = "reverted" /\ tx.kind \in LooksAtStatus)
               THEN /\ deploy' = [deploy EXCEPT ![d] = [@ EXCEPT !.at = "over"]]
                    /\ Shows(d, FALSE)
               ELSE GoesOn(d, i, out.ends) /\ UNCHANGED <<deployResult, onScreen>>
            /\ chain' = chain \cup {t \in {mine} : out.ends = "confirmed"}
  BY DEF StepAnswers
<1> DEFINE tx   == NextTx(d, i)
           mine == [by |-> d, kind |-> tx.kind, of |-> tx.of]
           plan == Plan(deploy[d].canvas)
<1>2. PICK out \in Outcomes(tx.kind) :
            /\ IF out.ends = "throws" \/ (out.ends = "reverted" /\ tx.kind \in LooksAtStatus)
               THEN /\ deploy' = [deploy EXCEPT ![d] = [deploy[d] EXCEPT !.at = "over"]]
                    /\ Shows(d, FALSE)
               ELSE GoesOn(d, i, out.ends) /\ UNCHANGED <<deployResult, onScreen>>
            /\ chain' = chain \cup {t \in {mine} : out.ends = "confirmed"}
  BY <1>1
<1>3. deploy[d].at = "running" /\ chain \subseteq chain'
  BY <1>2 DEF StepAnswers
<1>4. tx = IF i \in deploy[d].short THEN Tx("approve", plan[i].of) ELSE plan[i]
  BY DEF NextTx
<1>5. Tx("approve", plan[i].of).kind = "approve"
  BY DEF Tx
<1> HIDE DEF tx, plan
<1>6. PICK h : /\ deploy' = [deploy EXCEPT ![d] = h]
               /\ DOMAIN h = DeployFields
               /\ h.canvas = deploy[d].canvas
               /\ \/ h.at = "over"
                  \/ /\ h.at = "running"
                     /\ h.todo = deploy[d].todo
                     /\ out.ends = "short"
                     /\ h.short = deploy[d].short \cup {i}
                  \/ /\ h.at = "running"
                     /\ h.short = deploy[d].short
                     /\ h.todo = deploy[d].todo \ {i}
                     /\ ~(out.ends = "throws" \/ (out.ends = "reverted" /\ tx.kind \in LooksAtStatus))
  <2>1. DOMAIN deploy[d] = DeployFields
    BY DEF DeployInv, DeployShapes
  <2>2. CASE deploy' = [deploy EXCEPT ![d] = [deploy[d] EXCEPT !.at = "over"]]
    <3>1. PICK h : h = [deploy[d] EXCEPT !.at = "over"]
      OBVIOUS
    <3>2. /\ DOMAIN h = DeployFields
          /\ h.canvas = deploy[d].canvas
          /\ h.at = "over"
      BY <2>1, <3>1 DEF DeployFields
    <3>3. deploy' = [deploy EXCEPT ![d] = h]
      BY <2>2, <3>1
    <3> QED BY <3>2, <3>3
  <2>3. CASE /\ GoesOn(d, i, out.ends)
             /\ ~(out.ends = "throws" \/ (out.ends = "reverted" /\ tx.kind \in LooksAtStatus))
    <3>1. CASE out.ends = "short"
      <4>1. PICK h : h = [deploy[d] EXCEPT !.short = deploy[d].short \cup {i}]
        OBVIOUS
      <4>2. /\ DOMAIN h = DeployFields
            /\ h.canvas = deploy[d].canvas
            /\ h.at = "running"
            /\ h.todo = deploy[d].todo
            /\ h.short = deploy[d].short \cup {i}
        BY <1>3, <2>1, <4>1 DEF DeployFields
      <4>3. deploy' = [deploy EXCEPT ![d].short = deploy[d].short \cup {i}]
        BY <2>3, <3>1 DEF GoesOn
      <4>4. deploy' = [deploy EXCEPT ![d] = h]
        BY <4>1, <4>3
      <4> QED BY <3>1, <4>2, <4>4
    <3>2. CASE out.ends # "short"
      <4>1. PICK h : h = [deploy[d] EXCEPT !.todo = deploy[d].todo \ {i}]
        OBVIOUS
      <4>2. /\ DOMAIN h = DeployFields
            /\ h.canvas = deploy[d].canvas
            /\ h.at = "running"
            /\ h.short = deploy[d].short
            /\ h.todo = deploy[d].todo \ {i}
        BY <1>3, <2>1, <4>1 DEF DeployFields
      <4>3. deploy' = [deploy EXCEPT ![d].todo = deploy[d].todo \ {i}]
        BY <2>3, <3>2 DEF GoesOn
      <4>4. deploy' = [deploy EXCEPT ![d] = h]
        BY <4>1, <4>3
      <4> QED BY <2>3, <4>2, <4>4
    <3> QED BY <3>1, <3>2
  <2> QED BY <1>2, <2>2, <2>3
<1>7. /\ deploy'[d] = h /\ \A q \in Deploys \ {d} : deploy'[q] = deploy[q]
      /\ DeployShapes'
  BY <1>6 DEF DeployInv, DeployShapes
<1>8. ToastInv'
  <2>1. CASE UNCHANGED deployResult
    BY <1>3, <1>7, <2>1, ToastStays, "over" # "running"
  <2>2. CASE deployResult' = [by |-> d, ok |-> FALSE]
    BY <2>2 DEF ToastInv
  <2> QED BY <1>2, <2>1, <2>2 DEF Shows
<1>9. ASSUME NEW q \in Deploys, deploy'[q].at = "running"
      PROVE  PlaceDone(q)' /\ ShortIsNoOwn(q)'
  <2>1. CASE q # d
    BY <1>3, <1>7, <1>9, <2>1, OthersKeep
  <2>2. CASE q = d
    <3>1. Plan(deploy'[d].canvas) = plan
      BY <1>6, <1>7 DEF plan
    <3>2. \A j \in deploy[d].short : plan[j].kind \notin Own
      BY <1>3 DEF DeployInv, ShortIsNoOwn, plan
    <3>3. \A j \in DOMAIN plan \ deploy[d].todo : OnChain(d, j)
      BY <1>3 DEF DeployInv, PlaceDone, plan
    <3>4. \A j : OnChain(d, j) => OnChain(d, j)'
      BY <1>3, <3>1 DEF OnChain, plan
    <3>5. tx.kind \in Own => out.ends \in {"confirmed", "reverted", "throws"} /\ tx.kind \in LooksAtStatus
      BY AnswersEnd
    <3>6. plan[i].kind \in Own => tx = plan[i]
      BY <1>4, <3>2
    <3>7. CASE /\ h.todo = deploy[d].todo /\ out.ends = "short"
               /\ h.short = deploy[d].short \cup {i}
      <4>1. plan[i].kind \notin Own
        BY <3>5, <3>6, <3>7
      <4> QED BY <1>7, <2>2, <3>1, <3>2, <3>3, <3>4, <3>7, <4>1 DEF PlaceDone, ShortIsNoOwn
    <3>8. CASE /\ h.short = deploy[d].short /\ h.todo = deploy[d].todo \ {i}
               /\ ~(out.ends = "throws" \/ (out.ends = "reverted" /\ tx.kind \in LooksAtStatus))
      <4>1. plan[i].kind \in Own => tx = plan[i] /\ mine \in chain'
        BY <1>2, <3>5, <3>6, <3>8
      <4>2. OnChain(d, i)'
        BY <3>1, <4>1 DEF OnChain
      <4> QED BY <1>7, <2>2, <3>1, <3>2, <3>3, <3>4, <3>8, <4>2 DEF PlaceDone, ShortIsNoOwn
    <3> QED BY <1>6, <1>7, <1>9, <2>2, <3>7, <3>8
  <2> QED BY <2>1, <2>2
<1> QED BY <1>7, <1>8, <1>9 DEF DeployInv

LEMMA DeployStep == DeployInv /\ [DeployNext]_deployVars => DeployInv'
<1> SUFFICES ASSUME DeployInv, [DeployNext]_deployVars PROVE DeployInv'
  OBVIOUS
<1>1. CASE UNCHANGED deploy /\ chain \subseteq chain' /\ (UNCHANGED deployResult \/ ~deployResult'.ok)
  <2>1. ToastInv'
    BY <1>1, ToastStays DEF ToastInv
  <2> QED BY <1>1, <2>1, OthersKeep DEF DeployInv, DeployShapes
<1>2. ASSUME NEW d \in Deploys, StartDeploy(d) PROVE DeployInv'
  <2>1. PICK h : /\ deploy' = [deploy EXCEPT ![d] = h] /\ DOMAIN h = DeployFields
                 /\ \/ h.at = "over"
                    \/ h.todo = DOMAIN Plan(h.canvas) /\ h.short = {}
                 /\ ~deployResult'.ok /\ UNCHANGED chain
    <3>1. deploy[d] = NotYet /\ UNCHANGED chain
      BY <1>2 DEF StartDeploy
    <3>2. CASE /\ deploy' = [deploy EXCEPT ![d] = [deploy[d] EXCEPT !.canvas = canvas, !.at = "over"]]
               /\ deployResult' = [by |-> d, ok |-> FALSE]
      <4>1. PICK h : h = [[NotYet EXCEPT !.canvas = canvas] EXCEPT !.at = "over"]
        OBVIOUS
      <4>2. DOMAIN h = DeployFields /\ h.at = "over"
        BY <4>1 DEF NotYet, DeployFields
      <4>3. deploy' = [deploy EXCEPT ![d] = h]
        BY <3>1, <3>2, <4>1
      <4> QED BY <3>1, <3>2, <4>2, <4>3
    <3>3. CASE /\ deploy' = [deploy EXCEPT ![d] = [canvas |-> canvas, todo |-> DOMAIN Plan(canvas),
                                                   short |-> {}, at |-> "running"]]
               /\ deployResult' = NoToast
      BY <3>1, <3>3 DEF DeployFields, NoToast
    <3> QED BY <1>2, <3>2, <3>3 DEF StartDeploy
  <2>2. /\ deploy'[d] = h /\ \A q \in Deploys \ {d} : deploy'[q] = deploy[q]
        /\ DeployShapes'
    BY <2>1 DEF DeployInv, DeployShapes
  <2>3. ToastInv'
    BY <2>1 DEF ToastInv
  <2>4. deploy'[d].at = "running" => PlaceDone(d)' /\ ShortIsNoOwn(d)'
    BY <2>1, <2>2 DEF PlaceDone, ShortIsNoOwn
  <2> QED BY <2>1, <2>2, <2>3, <2>4, OthersKeep DEF DeployInv
<1>3. ASSUME NEW d \in Deploys, DeployEnds(d) PROVE DeployInv'
  <2>1. /\ deploy[d].at = "running" /\ deploy[d].todo = {} /\ UNCHANGED chain
        /\ deploy' = [deploy EXCEPT ![d].at = "over"] /\ Shows(d, TRUE)
    BY <1>3 DEF DeployEnds
  <2>2. PICK h : h = [deploy[d] EXCEPT !.at = "over"]
    OBVIOUS
  <2>3. DOMAIN h = DeployFields /\ h.at = "over" /\ h.canvas = deploy[d].canvas
    BY <2>2 DEF DeployInv, DeployShapes, DeployFields
  <2>4. deploy' = [deploy EXCEPT ![d] = h]
    BY <2>1, <2>2
  <2>5. /\ deploy'[d] = h /\ \A q \in Deploys \ {d} : deploy'[q] = deploy[q]
        /\ DeployShapes'
    BY <2>3, <2>4 DEF DeployInv, DeployShapes
  <2>6. \A i \in DOMAIN Plan(h.canvas) : OnChain(d, i)'
    BY <2>1, <2>3, <2>5 DEF DeployInv, PlaceDone, OnChain
  <2>7. ToastInv'
    <3>1. CASE UNCHANGED deployResult
      BY <2>1, <2>5, <3>1, ToastStays, "over" # "running"
    <3>2. CASE deployResult' = [by |-> d, ok |-> TRUE]
      <4>1. deployResult'.by = d
        BY <3>2
      <4> QED BY <2>3, <2>5, <2>6, <4>1 DEF ToastInv
    <3> QED BY <2>1, <3>1, <3>2 DEF Shows
  <2>8. "over" # "running"
    OBVIOUS
  <2> QED BY <2>1, <2>3, <2>5, <2>7, <2>8, OthersKeep DEF DeployInv
<1>4. CASE \E d \in Deploys : StepAnswers(d)
  BY <1>4, StepKeeps
<1>5. CASE CloseToast \/ ChangeCanvas \/ LeaveBuilder \/ SignsInOrOut
  <2>1. ~NoToast.ok
    BY DEF NoToast
  <2> QED BY <1>1, <1>5, <2>1 DEF CloseToast, ChangeCanvas, LeaveBuilder, SignsInOrOut
<1>6. CASE DeployLands
  BY <1>1, <1>6 DEF DeployLands
<1>7. CASE UNCHANGED deployVars
  BY <1>1, <1>7 DEF deployVars
<1> QED BY <1>2, <1>3, <1>4, <1>5, <1>6, <1>7 DEF DeployNext

\* "Confirmed" is only ever said of a canvas each of whose own transactions this very
\* click has put on the chain (builder-workspace.jsx).
THEOREM DeployToastStaysHonest == DeploySpec => []DeployToastIsHonest
<1>1. DeployInv => DeployToastIsHonest
  <2> SUFFICES ASSUME DeployInv, deployResult.ok,
                      NEW tx \in Promised(deploy[deployResult.by].canvas)
               PROVE  [by |-> deployResult.by, kind |-> tx.kind, of |-> tx.of] \in chain
    BY DEF DeployToastIsHonest
  <2>1. PICK i \in DOMAIN Plan(deploy[deployResult.by].canvas) :
           tx = Plan(deploy[deployResult.by].canvas)[i]
    BY DEF Promised, ToSet
  <2>2. tx.kind \in Own
    BY DEF Promised, Own
  <2> QED BY <2>1, <2>2 DEF DeployInv, ToastInv, OnChain
<1> QED BY <1>1, DeployStart, DeployStep, PTL DEF DeploySpec

-----------------------------------------------------------------------------
(* The session: bus, fetcher and connect flow (ConnectFlow). *)
\* The state that the bus, the fetcher and the connect flow share.
webVars == <<connectVars, fetchVars, busVars>>

\* The three together.
SessionSpec == ConnectInit /\ [][ConnectNext]_webVars

\* At most MaxConcurrent requests are in flight.
Fits(fs) == IsFiniteSet(fs) /\ Cardinality(fs) <= MaxConcurrent

\* A timer's group is started.
TimersBelong ==
    \A t \in timers : /\ t.group \in Groups
                      /\ IF t.group = "public" THEN publicStarted ELSE authStarted

\* Polling runs only while the bus accepts what it brings, within its slots.
SessionInv ==
    /\ authStarted => authEnabled
    /\ SignedOutShowsNothing
    /\ TimersBelong
    /\ Fits(flights)

\* The sources that are asked take the slots that are free, and no more.
LEMMA BeginFits == ASSUME NEW fs, Fits(fs), NEW asks PROVE Fits(Begin(fs, asks))
<1> DEFINE wanted == SelectSeq(asks, LAMBDA ask : Wanted(fs, ask))
           taken  == DOMAIN wanted \cap 1 .. MaxConcurrent - Cardinality(fs)
           new    == {Flight(fs, wanted[i]) : i \in taken}
           go     == [i \in taken |-> Flight(fs, wanted[i])]
<1>1. Cardinality(fs) \in Nat /\ MaxConcurrent \in Nat /\ Cardinality(fs) <= MaxConcurrent
  BY FetcherAssumption, FS_CardinalityType DEF Fits
<1>2. PICK n \in Nat : n = MaxConcurrent - Cardinality(fs)
  BY <1>1
<1>3. IsFiniteSet(1 .. n) /\ Cardinality(1 .. n) = n
  <2>1. 1 \in Int /\ n \in Int
    OBVIOUS
  <2> QED BY <1>2, <2>1, FS_Interval
<1>4. taken \subseteq 1 .. n
  BY <1>2
<1>5. IsFiniteSet(taken) /\ Cardinality(taken) <= n
  <2> HIDE DEF taken
  <2> QED BY <1>3, <1>4, FS_Subset
<1>6. go \in Surjection(taken, new)
  <2> HIDE DEF wanted, taken
  <2> QED BY DEF Surjection
<1>7. IsFiniteSet(new) /\ Cardinality(new) <= Cardinality(taken)
  <2> HIDE DEF go, new, taken
  <2> QED BY <1>5, <1>6, FS_Surjection
<1>8. Fits(fs \cup new)
  <2> HIDE DEF new, taken
  <2>1. IsFiniteSet(fs \cup new) /\ IsFiniteSet(fs \cap new)
        /\ Cardinality(fs \cup new) = Cardinality(fs) + Cardinality(new) - Cardinality(fs \cap new)
    BY <1>7, FS_Union, FS_Subset DEF Fits
  <2>2. /\ Cardinality(fs \cap new) \in Nat /\ Cardinality(new) \in Nat
        /\ Cardinality(taken) \in Nat
    BY <2>1, <1>5, <1>7, FS_CardinalityType
  <2>3. Cardinality(fs \cup new) <= MaxConcurrent
    BY <1>1, <1>2, <1>5, <1>7, <2>1, <2>2
  <2> QED BY <2>1, <2>3 DEF Fits
<1>9. Begin(fs, asks) = IF demoStarted THEN fs ELSE fs \cup new
  BY DEF Begin
<1> HIDE DEF new
<1> QED BY <1>8, <1>9

\* Requests that end leave the others in their slots.
LEMMA FewerFit == ASSUME NEW fs, Fits(fs), NEW gone PROVE Fits(fs \ gone)
<1>1. IsFiniteSet(fs \ gone) /\ Cardinality(fs \ gone) <= Cardinality(fs)
  BY FS_Subset DEF Fits
<1>2. Cardinality(fs \ gone) \in Nat /\ Cardinality(fs) \in Nat
  BY <1>1, FS_CardinalityType DEF Fits
<1> QED BY <1>1, <1>2, FetcherAssumption DEF Fits

LEMMA SessionStart == ConnectInit => SessionInv
<1>1. Fits({})
  BY FS_EmptySet, FetcherAssumption DEF Fits
<1> QED BY <1>1 DEF ConnectInit, BusInit, FetcherInit, SessionInv, SignedOutShowsNothing, TimersBelong

\* What is let in while the bus accepts nothing is public.
LEMMA LetIn ==
    ASSUME NEW keys, NEW key, NEW enabled, ~enabled => keys \cap AuthedKeys = {}
    PROVE  ~enabled => Apply(keys, key, enabled) \cap AuthedKeys = {}
BY DEF Apply

LEMMA BatchIsLetIn ==
    ASSUME SignedOutShowsNothing, NEW b, DispatchBatch(b)
    PROVE  SignedOutShowsNothing' /\ UNCHANGED <<authEnabled, wallet, unlocked>>
<1>1. PICK data : filled' = filled \cup UNION {Apply(filled, e, authEnabled) : e \in data}
  BY DEF DispatchBatch
<1>2. UNCHANGED <<authEnabled, wallet, unlocked>>
  BY DEF DispatchBatch
<1>3. \A e \in data : ~authEnabled => Apply(filled, e, authEnabled) \cap AuthedKeys = {}
  BY LetIn DEF SignedOutShowsNothing
<1> QED BY <1>1, <1>2, <1>3 DEF SignedOutShowsNothing

\* Timers that are cleared, and timers that are added to a group that runs.
LEMMA NewTimersBelong ==
    ASSUME NEW group, NEW sources
    PROVE  /\ \A t \in TimersOf(group, sources) : t.group = group
           /\ sources = <<>> => TimersOf(group, sources) = {}
BY DEF TimersOf, ToSet

\* What the invariant is about.
quietVars == <<authStarted, publicStarted, timers, flights, authEnabled, filled>>

LEMMA FetcherStep == SessionInv /\ FetcherNext => SessionInv'
<1> SUFFICES ASSUME SessionInv, FetcherNext PROVE SessionInv'
  OBVIOUS
<1>1. CASE StartPublicPolling
  <2>1. /\ publicStarted' /\ UNCHANGED <<authStarted, authEnabled, filled>>
    BY <1>1, Zenon DEF StartPublicPolling, busVars
  <2>2. TimersBelong'
    <3>1. \A t \in timers' : t \in timers \/ t.group = "public"
      BY <1>1, NewTimersBelong DEF StartPublicPolling
    <3> QED BY <2>1, <3>1, Zenon DEF TimersBelong, SessionInv, Groups
  <2>3. Fits(flights')
    BY <1>1, BeginFits DEF StartPublicPolling, SessionInv
  <2> QED BY <2>1, <2>2, <2>3 DEF SessionInv, SignedOutShowsNothing
<1>2. CASE StopAll
  <2>1. timers' = {} /\ ~authStarted' /\ ~authEnabled' /\ filled' = filled \ AuthedKeys
    BY <1>2 DEF StopAll, Clear, Disable, SessionInv, TimersBelong, Groups
  <2>2. UNCHANGED flights
    BY <1>2 DEF StopAll
  <2> QED BY <2>1, <2>2 DEF SessionInv, SignedOutShowsNothing, TimersBelong
<1>3. CASE UNCHANGED <<authStarted, publicStarted, timers, authEnabled, filled>> /\ Fits(flights')
  BY <1>3 DEF SessionInv, SignedOutShowsNothing, TimersBelong
<1>4. CASE RefreshAfterTransaction \/ \E s \in NavigationSources : FetchOnNavigation(s)
  BY <1>3, <1>4, BeginFits DEF RefreshAfterTransaction, FetchOnNavigation, SessionInv, busVars
<1>5. CASE StartDemoMode
  <2>1. authEnabled' /\ timers' \subseteq timers /\ UNCHANGED <<authStarted, publicStarted, flights>>
    BY <1>5, Zenon DEF StartDemoMode, Enable, Clear
  <2> QED BY <2>1 DEF SessionInv, SignedOutShowsNothing, TimersBelong
<1>6. CASE Hide
  <2>1. timers' \subseteq timers
        /\ UNCHANGED <<authStarted, publicStarted, flights, authEnabled, filled>>
    BY <1>6 DEF Hide, Clear, busVars
  <2> QED BY <2>1 DEF SessionInv, SignedOutShowsNothing, TimersBelong
<1>7. CASE Show
  <2>1. UNCHANGED <<authStarted, publicStarted, authEnabled, filled>>
    BY <1>7 DEF Show, busVars
  <2>2. CASE UNCHANGED <<timers, flights>>
    BY <1>3, <2>1, <2>2 DEF SessionInv
  <2>3. CASE ~UNCHANGED <<timers, flights>>
    <3>1. PICK pub, aut :
             /\ pub = IF publicStarted THEN PublicPolled ELSE <<>>
             /\ aut = IF authStarted THEN AuthedPolled ELSE <<>>
             /\ timers' = timers \cup TimersOf("public", pub) \cup TimersOf("authed", aut)
             /\ flights' = Begin(flights, TimerAsks(pub \o aut))
      BY <1>7, <2>3 DEF Show
    <3>2. Fits(flights')
      BY <3>1, BeginFits DEF SessionInv
    <3>3. ASSUME NEW t \in timers' \ timers
          PROVE  \/ t.group = "public" /\ publicStarted
                 \/ t.group = "authed" /\ authStarted
      BY <3>1, NewTimersBelong
    <3>4. TimersBelong'
      BY <2>1, <3>3 DEF TimersBelong, SessionInv, Groups
    <3> QED BY <2>1, <3>2, <3>4 DEF SessionInv, SignedOutShowsNothing
  <2> QED BY <2>2, <2>3
<1>8. CASE \E t \in timers : TimerFires(t)
  BY <1>3, <1>8, BeginFits DEF TimerFires, SessionInv, busVars
<1>9. ASSUME NEW f \in flights, Answer(f) PROVE SessionInv'
  <2>1. UNCHANGED <<authStarted, publicStarted, timers, authEnabled>> /\ flights' = flights \ {f}
    BY <1>9 DEF Answer
  <2>2. ~authEnabled => filled' \cap AuthedKeys = {}
    BY <1>9, LetIn DEF Answer, SetData, SessionInv, SignedOutShowsNothing
  <2> QED BY <2>1, <2>2, FewerFit DEF SessionInv, SignedOutShowsNothing, TimersBelong
<1>10. ASSUME NEW f \in flights, Fail(f) PROVE SessionInv'
  <2>1. PICK fs : /\ flights' = fs \ {f}
                  /\ fs = Begin(flights, <<Ask("readiness", NoTimer)>>) \/ fs = flights
    BY <1>10 DEF Fail
  <2>2. Fits(flights')
    BY <2>1, BeginFits, FewerFit DEF SessionInv
  <2> QED BY <1>3, <1>10, <2>2 DEF Fail
<1>11. ASSUME NEW b \in Batches, DispatchBatch(b), UNCHANGED fetchVars PROVE SessionInv'
  BY <1>11, BatchIsLetIn DEF SessionInv, fetchVars, TimersBelong
<1> QED BY <1>1, <1>2, <1>4, <1>5, <1>6, <1>7, <1>8, <1>9, <1>10, <1>11 DEF FetcherNext

LEMMA SessionStep == SessionInv /\ [ConnectNext]_webVars => SessionInv'
<1> SUFFICES ASSUME SessionInv, [ConnectNext]_webVars PROVE SessionInv'
  OBVIOUS
<1>1. CASE UNCHANGED quietVars
  BY <1>1 DEF quietVars, SessionInv, SignedOutShowsNothing, TimersBelong
<1>2. CASE UNCHANGED fetchVars /\ UNCHANGED busVars
  BY <1>1, <1>2 DEF fetchVars, busVars, quietVars
<1>3. CASE UNCHANGED fetchVars /\ UNCHANGED <<authEnabled, filled>>
  BY <1>1, <1>3 DEF fetchVars, quietVars
<1>4. ASSUME NEW f \in Flows, PermitIsGranted(f) PROVE SessionInv'
  <2>1. /\ UNCHANGED publicStarted /\ authEnabled'
    BY <1>4, Zenon DEF PermitIsGranted, Enable
  <2>2. CASE authStarted
    BY <1>4, <2>1, <2>2 DEF PermitIsGranted, StartAuthenticated, SessionInv, TimersBelong,
       SignedOutShowsNothing
  <2>3. CASE ~authStarted
    <3>1. /\ authStarted' /\ timers' = timers \cup TimersOf("authed", AuthedPolled)
          /\ flights' = Begin(Begin(flights, TimerAsks(AuthedPolled)), Asks(AuthedOnce))
      BY <1>4, <2>3, Zenon DEF PermitIsGranted, StartAuthenticated
    <3>2. \A t \in timers' \ timers : t.group = "authed"
      BY <3>1, NewTimersBelong
    <3>3. TimersBelong'
      BY <2>1, <3>1, <3>2 DEF TimersBelong, SessionInv, Groups
    <3>4. Fits(flights')
      BY <3>1, BeginFits DEF SessionInv
    <3> QED BY <2>1, <3>3, <3>4 DEF SessionInv, SignedOutShowsNothing
  <2> QED BY <2>2, <2>3
<1>5. CASE AuthFails
  <2>1. /\ ~authStarted' /\ ~authEnabled' /\ filled' = filled \ AuthedKeys
        /\ UNCHANGED <<publicStarted, flights>>
    BY <1>5 DEF AuthFails, HandleDisconnect, StopAuthenticated, Disable
  <2>2. timers' = {t \in timers : t.group # "authed"}
    BY <1>5 DEF AuthFails, HandleDisconnect, StopAuthenticated, Clear
  <2> QED BY <2>1, <2>2 DEF SessionInv, SignedOutShowsNothing, TimersBelong, Groups
<1>6. CASE \E f \in Flows : \/ StartConnectFlow(f) \/ WalletConnects(f) \/ ChainSwitches(f)
                            \/ LogsIn(f) \/ PromptFails(f) \/ PermitTimesOut(f) \/ LatePermit(f)
  BY <1>2, <1>3, <1>6 DEF StartConnectFlow, WalletConnects, ChainSwitches, LogsIn, PromptFails,
     PermitTimesOut, LatePermit
<1>7. CASE SessionIsRenewed \/ SessionEnds \/ WalletChanges \/ PermitExpires
  BY <1>2, <1>7 DEF SessionIsRenewed, SessionEnds, WalletChanges, PermitExpires
<1>8. CASE FetcherNext
  BY <1>8, FetcherStep
<1>9. CASE UNCHANGED webVars
  BY <1>2, <1>9 DEF webVars
<1> QED BY <1>4, <1>5, <1>6, <1>7, <1>8, <1>9 DEF ConnectNext, FlowAnswers

\* Nothing of a signed-in account is in the store while the bus is signed out, in
\* every order of flows, polls, late answers and sign-outs (bridge-bus.js).
THEOREM SignedOutAlwaysShowsNothing == SessionSpec => []SignedOutShowsNothing
<1>1. SessionInv => SignedOutShowsNothing
  BY DEF SessionInv
<1> QED BY <1>1, SessionStart, SessionStep, PTL DEF SessionSpec

\* The authenticated timers run only while they are started, they are started only
\* while the bus accepts what they bring, and at most MaxConcurrent requests are in
\* flight (data-fetcher-v2.js).
THEOREM PollingAlwaysFollows == SessionSpec => []PollingFollowsTheSession
<1>1. SessionInv => PollingFollowsTheSession
  BY DEF SessionInv, TimersBelong, Fits, PollingFollowsTheSession
<1> QED BY <1>1, SessionStart, SessionStep, PTL DEF SessionSpec

-----------------------------------------------------------------------------
(* Undo and redo in the editor (BuilderWorkspace). *)
BuilderSpec == BuilderInit /\ [][BuilderNext]_builderVars

\* A history: two sequences of some kind of graphs, and the last one pushed.
IsHistory(h) ==
    /\ h = [past |-> h.past, future |-> h.future, last |-> h.last]
    /\ \E G : h.past \in Seq(G) /\ h.future \in Seq(G)

\* The draft that is open is on the shelf, and the last snapshot is of it.
BuilderInv ==
    /\ DOMAIN drafts = DraftIds /\ shelf \in Seq(DraftIds)
    /\ open # Nobody => open \in ToSet(shelf) /\ history.last = drafts[open]
    /\ IsHistory(history)

\* Whatever is pushed, what comes out is a history that ends with it.
LEMMA PushKeeps ==
    ASSUME NEW h, IsHistory(h), NEW g
    PROVE  IsHistory(PushHistory(h, g)) /\ PushHistory(h, g).last = g
<1>1. CASE h.last = g
  BY <1>1 DEF PushHistory
<1>2. CASE h.last # g
  <2>1. PICK G : h.past \in Seq(G) /\ h.future \in Seq(G)
    BY DEF IsHistory
  <2>2. PICK H : H = G \cup {g}
    OBVIOUS
  <2>3. h.past \in Seq(H) /\ g \in H
    BY <2>1, <2>2, SeqMonotonic
  <2>4. Append(h.past, g) \in Seq(H)
    BY <2>3, AppendProperties
  <2>5. Len(h.past) >= MaxHistory => Append(Tail(h.past), g) \in Seq(H)
    <3>1. SUFFICES ASSUME Len(h.past) >= MaxHistory PROVE Append(Tail(h.past), g) \in Seq(H)
      OBVIOUS
    <3>2. h.past # <<>>
      BY <3>1, BuilderAssumption
    <3>3. Tail(h.past) \in Seq(H)
      BY <2>3, <3>2, HeadTailProperties
    <3> QED BY <2>3, <3>3, AppendProperties
  <2>6. Len(h.past) \in Nat
    BY <2>1
  <2>7. PICK p : p = IF Len(h.past) < MaxHistory THEN Append(h.past, g)
                     ELSE Append(Tail(h.past), g)
    OBVIOUS
  <2>8. p \in Seq(H)
    BY <2>4, <2>5, <2>6, <2>7, BuilderAssumption
  <2>9. PushHistory(h, g) = [past |-> p, future |-> <<>>, last |-> g]
    BY <1>2, <2>7 DEF PushHistory
  <2>10. <<>> \in Seq(H)
    OBVIOUS
  <2>11. PICK k : k = [past |-> p, future |-> <<>>, last |-> g]
    OBVIOUS
  <2>12. IsHistory(k) /\ k.last = g
    BY <2>8, <2>10, <2>11 DEF IsHistory
  <2> QED BY <2>9, <2>11, <2>12, Zenon
<1> QED BY <1>1, <1>2

\* All but the last of a sequence, and the last.
LEMMA FrontAndLast ==
    ASSUME NEW G, NEW p \in Seq(G), p # <<>>
    PROVE  /\ Front(p) \in Seq(G) /\ Len(Front(p)) = Len(p) - 1
           /\ \A i \in 1 .. Len(p) - 1 : Front(p)[i] = p[i]
           /\ Last(p) = p[Len(p)] /\ Last(p) \in G /\ Len(p) \in Nat \ {0}
<1>1. Len(p) \in Nat \ {0}
  BY EmptySeq
<1>2. PICK k \in 0 .. Len(p) : k = Len(p) - 1
  <2>1. Len(p) - 1 \in 0 .. Len(p)
    BY <1>1
  <2> QED BY <2>1, Zenon
<1>3. SubSeq(p, 1, k) = Restrict(p, 1 .. k)
  BY SubSeqRestrict, Zenon
<1>4. PICK r : r = [i \in 1 .. k |-> p[i]]
  OBVIOUS
<1>5. \A i \in 1 .. k : p[i] \in G
  BY <1>1, <1>2, ElementOfSeq
<1>6. r \in Seq(G) /\ Len(r) = k /\ \A i \in 1 .. k : r[i] = p[i]
  BY <1>2, <1>4, <1>5
<1>7. Front(p) = r
  BY <1>2, <1>3, <1>4 DEF Front, Restrict
<1>8. Last(p) = p[Len(p)] /\ p[Len(p)] \in G
  BY <1>1, ElementOfSeq DEF Last
<1> QED BY <1>1, <1>2, <1>6, <1>7, <1>8

\* Undo and redo move one graph from one end to the other.
LEMMA TimelineUndo ==
    ASSUME NEW G, NEW p \in Seq(G), p # <<>>, NEW f \in Seq(G)
    PROVE  /\ Front(p) \in Seq(G) /\ Last(p) \in G
           /\ Append(f, Last(p)) \in Seq(G)
           /\ Front(p) \o Reverse(Append(f, Last(p))) = p \o Reverse(f)
<1>1. PICK m, n \in Nat : m = Len(p) /\ n = Len(f) /\ m # 0
  BY EmptySeq
<1>2. /\ Front(p) \in Seq(G) /\ Len(Front(p)) = m - 1
      /\ \A i \in 1 .. m - 1 : Front(p)[i] = p[i]
  BY <1>1, FrontAndLast
<1>3. Last(p) = p[m] /\ p[m] \in G
  BY <1>1, ElementOfSeq DEF Last
<1>4. PICK a : a = Append(f, Last(p))
  OBVIOUS
<1>5. /\ a \in Seq(G) /\ Len(a) = n + 1 /\ a[n + 1] = p[m]
      /\ \A i \in 1 .. n : a[i] = f[i]
  BY <1>1, <1>3, <1>4, AppendProperties
<1>6. /\ Reverse(f) \in Seq(G) /\ Len(Reverse(f)) = n
      /\ \A i \in 1 .. n : Reverse(f)[i] = f[n - i + 1]
  <2>1. \A i \in 1 .. n : f[n - i + 1] \in G
    BY <1>1, ElementOfSeq
  <2> QED BY <1>1, <2>1 DEF Reverse
<1>7. /\ Reverse(a) \in Seq(G) /\ Len(Reverse(a)) = n + 1
      /\ \A i \in 1 .. n + 1 : Reverse(a)[i] = a[n + 1 - i + 1]
  <2>1. \A i \in 1 .. n + 1 : a[n + 1 - i + 1] \in G
    BY <1>1, <1>5, ElementOfSeq
  <2> QED BY <1>1, <1>5, <2>1 DEF Reverse
<1>8. PICK x, y, u, v : x = Front(p) \o Reverse(a) /\ y = p \o Reverse(f)
                        /\ u = Reverse(a) /\ v = Reverse(f)
  OBVIOUS
<1>9. /\ x \in Seq(G) /\ Len(x) = m + n
      /\ \A i \in 1 .. m + n : x[i] = IF i <= m - 1 THEN p[i] ELSE u[i - (m - 1)]
  <2>1. /\ x \in Seq(G) /\ Len(x) = Len(Front(p)) + Len(u)
        /\ \A i \in 1 .. Len(Front(p)) + Len(u) :
              x[i] = IF i <= Len(Front(p)) THEN Front(p)[i] ELSE u[i - Len(Front(p))]
    BY <1>2, <1>7, <1>8, ConcatProperties, Zenon
  <2>2. Len(Front(p)) = m - 1 /\ Len(u) = n + 1 /\ (m - 1) + (n + 1) = m + n
    BY <1>1, <1>2, <1>7, <1>8
  <2>3. /\ x \in Seq(G) /\ Len(x) = m + n
        /\ \A i \in 1 .. m + n : x[i] = IF i <= m - 1 THEN Front(p)[i] ELSE u[i - (m - 1)]
    BY <2>1, <2>2
  <2>4. \A i \in 1 .. m + n : i <= m - 1 => Front(p)[i] = p[i]
    BY <1>1, <1>2
  <2> QED BY <2>3, <2>4
<1>10. /\ y \in Seq(G) /\ Len(y) = m + n
       /\ \A i \in 1 .. m + n : y[i] = IF i <= m THEN p[i] ELSE v[i - m]
  <2>1. /\ y \in Seq(G) /\ Len(y) = Len(p) + Len(v)
        /\ \A i \in 1 .. Len(p) + Len(v) : y[i] = IF i <= Len(p) THEN p[i] ELSE v[i - Len(p)]
    BY <1>6, <1>8, ConcatProperties, Zenon
  <2> QED BY <1>1, <1>6, <1>8, <2>1
<1>11. \A i \in 1 .. m + n : x[i] = y[i]
  <2>1. TAKE i \in 1 .. m + n
  <2>2. CASE i <= m - 1
    <3>1. x[i] = p[i]
      BY <1>9, <2>2
    <3>2. i <= m
      BY <1>1, <2>2
    <3> QED BY <1>10, <3>1, <3>2
  <2>3. CASE i = m
    <3>1. x[i] = u[1]
      <4>1. m \in 1 .. m + n /\ ~(m <= m - 1) /\ m - (m - 1) = 1
        BY <1>1
      <4>2. x[m] = u[m - (m - 1)]
        BY <1>9, <4>1
      <4> QED BY <2>3, <4>1, <4>2
    <3>2. u[1] = a[n + 1]
      <4>1. 1 \in 1 .. n + 1 /\ n + 1 - 1 + 1 = n + 1
        BY <1>1
      <4> QED BY <1>7, <1>8, <4>1
    <3> QED BY <1>1, <1>5, <1>10, <2>3, <3>1, <3>2
  <2>4. CASE i > m
    <3>1. PICK j \in 1 .. n : i = m + j
      BY <1>1, <2>4
    <3>2. x[i] = u[j + 1] /\ y[i] = v[j]
      <4>1. x[i] = u[i - (m - 1)] /\ y[i] = v[i - m]
        BY <1>1, <1>9, <1>10, <2>4
      <4>2. i - (m - 1) = j + 1 /\ i - m = j
        BY <1>1, <3>1
      <4> QED BY <4>1, <4>2
    <3>3. u[j + 1] = a[n - j + 1] /\ v[j] = f[n - j + 1] /\ n - j + 1 \in 1 .. n
      <4>1. j + 1 \in 1 .. n + 1 /\ n + 1 - (j + 1) + 1 = n - j + 1 /\ n - j + 1 \in 1 .. n
        BY <1>1
      <4>2. u[j + 1] = a[n + 1 - (j + 1) + 1]
        BY <1>7, <1>8, <4>1
      <4>3. v[j] = f[n - j + 1]
        BY <1>6, <1>8
      <4> QED BY <4>1, <4>2, <4>3
    <3> QED BY <1>5, <3>2, <3>3
  <2> QED BY <1>1, <2>2, <2>3, <2>4
<1>12. x = y
  BY <1>9, <1>10, <1>11, SeqEqual
<1> QED BY <1>2, <1>3, <1>4, <1>5, <1>8, <1>12

\* And back again.
LEMMA TimelineRedo ==
    ASSUME NEW G, NEW p \in Seq(G), NEW f \in Seq(G), f # <<>>
    PROVE  /\ Front(f) \in Seq(G) /\ Append(p, Last(f)) \in Seq(G) /\ Last(f) \in G
           /\ Last(Append(p, Last(f))) = Last(f)
           /\ Append(p, Last(f)) \o Reverse(Front(f)) = p \o Reverse(f)
<1>1. PICK e : e = Last(f)
  OBVIOUS
<1>2. Front(f) \in Seq(G) /\ e \in G
  BY <1>1, TimelineUndo
<1>3. PICK a : a = Append(p, e)
  OBVIOUS
<1>4. /\ a \in Seq(G) /\ a # <<>> /\ Len(a) = Len(p) + 1 /\ a[Len(p) + 1] = e
      /\ \A i \in 1 .. Len(p) : a[i] = p[i]
  BY <1>2, <1>3, AppendProperties
<1>5. Last(a) = e
  BY <1>4 DEF Last
<1>6. Front(a) = p
  <2>1. /\ Front(a) \in Seq(G) /\ Len(Front(a)) = Len(a) - 1
        /\ \A i \in 1 .. Len(a) - 1 : Front(a)[i] = a[i]
    BY <1>4, FrontAndLast
  <2>2. Len(p) \in Nat
    OBVIOUS
  <2>3. Len(Front(a)) = Len(p) /\ \A i \in 1 .. Len(Front(a)) : Front(a)[i] = p[i]
    BY <1>4, <2>1, <2>2
  <2> QED BY <2>1, <2>3, SeqEqual
<1>7. Append(Front(f), e) = f
  <2>1. PICK n \in Nat : n = Len(f) /\ n # 0
    BY EmptySeq
  <2>3. PICK b : b = Front(f)
    OBVIOUS
  <2>4. b \in Seq(G) /\ Len(b) = n - 1 /\ \A i \in 1 .. n - 1 : b[i] = f[i]
    BY <2>1, <2>3, FrontAndLast
  <2>5. /\ Append(b, e) \in Seq(G) /\ Len(Append(b, e)) = n /\ Append(b, e)[n] = e
        /\ \A i \in 1 .. n - 1 : Append(b, e)[i] = f[i]
    <3>1. /\ Append(b, e) \in Seq(G) /\ Len(Append(b, e)) = Len(b) + 1
          /\ \A i \in 1 .. Len(b) : Append(b, e)[i] = b[i]
          /\ Append(b, e)[Len(b) + 1] = e
      BY <1>2, <2>4, AppendProperties
    <3> QED BY <2>1, <2>4, <3>1
  <2>6. f[n] = e
    BY <1>1, <2>1 DEF Last
  <2>7. \A i \in 1 .. Len(Append(b, e)) : Append(b, e)[i] = f[i]
    BY <2>1, <2>5, <2>6
  <2> QED BY <2>1, <2>3, <2>5, <2>7, SeqEqual
<1>8. Front(a) \o Reverse(Append(Front(f), e)) = a \o Reverse(Front(f))
  <2>1. Append(Front(f), Last(a)) = Append(Front(f), e)
    BY <1>5
  <2>2. Front(a) \o Reverse(Append(Front(f), Last(a))) = a \o Reverse(Front(f))
    BY <1>2, <1>4, TimelineUndo, Zenon
  <2> QED BY <2>1, <2>2, Zenon
<1> QED BY <1>1, <1>2, <1>3, <1>4, <1>5, <1>6, <1>7, <1>8

\* The history moves as the property says, for this step.
Recorded ==
    \/ Timeline(history') = Timeline(history) /\ Last(history'.past) = drafts'[open']
    \/ history' = PushHistory(history, drafts'[open'])
    \/ history' = PushHistory(NoHistory, drafts'[open'])

GoodStep == BuilderInv' /\ (open # Nobody /\ open' # Nobody => Recorded)

\* An editor that mounts has an empty history.
LEMMA NewHistory == IsHistory(NoHistory)
<1>1. <<>> \in Seq({})
  OBVIOUS
<1>2. NoHistory = [past |-> <<>>, future |-> <<>>, last |-> <<>>]
  BY DEF NoHistory
<1>3. NoHistory.past = <<>> /\ NoHistory.future = <<>> /\ NoHistory.last = <<>>
  BY <1>2
<1> QED BY <1>1, <1>2, <1>3 DEF IsHistory

\* Nothing that is shown changes.
LEMMA NothingShown ==
    ASSUME BuilderInv, UNCHANGED <<drafts, shelf, open, history>>
    PROVE  GoodStep
<1>1. open # Nobody => history' = PushHistory(history, drafts'[open'])
  BY DEF BuilderInv, PushHistory
<1>2. IsHistory(history)'
  BY DEF BuilderInv, IsHistory
<1>3. BuilderInv'
  BY <1>2 DEF BuilderInv
<1> QED BY <1>1, <1>3 DEF GoodStep, Recorded

\* An edit of the draft that is open is pushed, and one of another is not.
LEMMA EditStep ==
    ASSUME BuilderInv, NEW d, d = open => open # Nobody, NEW g, Edit(d, g),
           UNCHANGED <<shelf, open>>
    PROVE  GoodStep
<1>1. DOMAIN drafts = DraftIds /\ shelf \in Seq(DraftIds) /\ IsHistory(history)
  BY DEF BuilderInv
<1>2. DOMAIN drafts' = DraftIds
  BY <1>1 DEF Edit
<1>3. CASE d = open
  <2>1. open \in ToSet(shelf) /\ open \in DraftIds
    BY <1>1, <1>3 DEF BuilderInv, ToSet
  <2>2. drafts'[open] = g /\ history' = PushHistory(history, g)
    BY <1>1, <1>3, <2>1 DEF Edit
  <2>3. PICK h : h = PushHistory(history, g)
    OBVIOUS
  <2>4. IsHistory(h) /\ h.last = g
    BY <1>1, <2>3, PushKeeps, Zenon
  <2>5. history' = h
    BY <2>2, <2>3
  <2>6. IsHistory(history') /\ history'.last = g
    BY <2>4, <2>5, Zenon
  <2> QED BY <1>1, <1>2, <2>1, <2>2, <2>6 DEF BuilderInv, GoodStep, Recorded
<1>4. CASE d # open
  <2>1. history' = history /\ drafts'[open] = drafts[open]
    BY <1>4 DEF Edit
  <2>2. open # Nobody => history' = PushHistory(history, drafts'[open'])
    BY <2>1 DEF BuilderInv, PushHistory
  <2>3. IsHistory(history')
    BY <1>1, <2>1, Zenon
  <2> QED BY <1>1, <1>2, <2>1, <2>2, <2>3 DEF BuilderInv, GoodStep, Recorded
<1> QED BY <1>3, <1>4

\* A draft of the shelf, or none, comes to be shown.
LEMMA ShowStep ==
    ASSUME BuilderInv, NEW d, d = Nobody \/ d \in ToSet(shelf'), shelf' \in Seq(DraftIds),
           NEW ds, DOMAIN ds = DraftIds, drafts' = ds, ShowDraft(d, ds)
    PROVE  GoodStep
<1>1. IsHistory(history) /\ open' = d
  BY DEF BuilderInv, ShowDraft, Mount
<1>2. d # Nobody => history' = PushHistory(history, ds[d]) \/ history' = PushHistory(NoHistory, ds[d])
  BY DEF ShowDraft, Mount
<1>3. PICK h, k : h = PushHistory(history, ds[d]) /\ k = PushHistory(NoHistory, ds[d])
  OBVIOUS
<1>4. IsHistory(h) /\ h.last = ds[d] /\ IsHistory(k) /\ k.last = ds[d]
  BY <1>1, <1>3, NewHistory, PushKeeps, Zenon
<1>5. d # Nobody => history' = h \/ history' = k
  BY <1>2, <1>3
<1>6. d = Nobody => history' = NoHistory
  BY DEF ShowDraft, Mount
<1>7. IsHistory(history')
  BY <1>4, <1>5, <1>6, NewHistory, Zenon
<1>8. d # Nobody => history'.last = ds[d]
  BY <1>4, <1>5, Zenon
<1> QED BY <1>1, <1>2, <1>7, <1>8 DEF BuilderInv, GoodStep, Recorded

\* A new draft is put in front of the shelf and shown.
LEMMA CreateDraftStep ==
    ASSUME BuilderInv, NEW t, CreateDraft(t)
    PROVE  GoodStep
<1>1. PICK d \in DraftIds :
        /\ drafts' = [drafts EXCEPT ![d] = Canvas(t.types, t.links)]
        /\ shelf' = <<d>> \o shelf /\ ShowDraft(d, drafts')
  BY DEF CreateDraft
<1>2. DOMAIN drafts' = DraftIds /\ shelf \in Seq(DraftIds)
  BY <1>1 DEF BuilderInv
<1>3. PICK one : one = <<d>>
  OBVIOUS
<1>4. one \in Seq(DraftIds) /\ Len(one) = 1 /\ one[1] = d
  BY <1>3
<1>5. PICK both : both = one \o shelf
  OBVIOUS
<1>6. shelf' \in Seq(DraftIds) /\ shelf'[1] = d /\ 1 \in DOMAIN shelf'
  <2>1. /\ both \in Seq(DraftIds) /\ Len(both) = Len(one) + Len(shelf)
        /\ \A i \in 1 .. Len(one) + Len(shelf) :
              both[i] = IF i <= Len(one) THEN one[i] ELSE shelf[i - Len(one)]
    BY <1>2, <1>4, <1>5, ConcatProperties, Zenon
  <2>2. Len(shelf) \in Nat /\ DOMAIN both = 1 .. Len(both)
    BY <1>2, <2>1
  <2>3. both[1] = d /\ 1 \in DOMAIN both
    BY <1>4, <2>1, <2>2
  <2> QED BY <1>1, <1>3, <1>5, <2>1, <2>3
<1>7. d \in ToSet(shelf')
  BY <1>6 DEF ToSet
<1>8. PICK ds : ds = drafts'
  OBVIOUS
<1> QED BY <1>1, <1>2, <1>6, <1>7, <1>8, ShowStep

\* A draft of the shelf is shown.
LEMMA OpenDraftStep ==
    ASSUME BuilderInv, NEW d, OpenDraft(d)
    PROVE  GoodStep
<1>1. d \in ToSet(shelf) /\ ShowDraft(d, drafts) /\ UNCHANGED <<drafts, shelf>>
  BY DEF OpenDraft
<1>2. d \in ToSet(shelf') /\ shelf' \in Seq(DraftIds) /\ DOMAIN drafts = DraftIds
  BY <1>1 DEF BuilderInv
<1> QED BY <1>1, <1>2, ShowStep

\* What stays on the shelf when one place of it is taken away.
LEMMA ShelfWithout ==
    ASSUME shelf \in Seq(DraftIds), NEW i \in DOMAIN shelf
    PROVE  /\ RemoveAt(shelf, i) \in Seq(DraftIds)
           /\ \A j \in DOMAIN shelf : j # i => shelf[j] \in ToSet(RemoveAt(shelf, i))
<1>1. PICK n \in Nat : n = Len(shelf)
  OBVIOUS
<1>2. i \in 1 .. n /\ DOMAIN shelf = 1 .. n
  BY <1>1
<1>3. PICK a, b : a = SubSeq(shelf, 1, i - 1) /\ b = SubSeq(shelf, i + 1, n)
  OBVIOUS
<1>4. /\ a \in Seq(DraftIds) /\ Len(a) = i - 1
      /\ \A j \in 1 .. i - 1 : a[j] = shelf[j]
  BY <1>1, <1>2, <1>3
<1>5. /\ b \in Seq(DraftIds) /\ Len(b) = n - i
      /\ \A j \in 1 .. n - i : b[j] = shelf[i + j]
  BY <1>1, <1>2, <1>3
<1>6. PICK c : c = a \o b
  OBVIOUS
<1>7. /\ c \in Seq(DraftIds) /\ Len(c) = Len(a) + Len(b)
      /\ \A j \in 1 .. Len(a) + Len(b) : c[j] = IF j <= Len(a) THEN a[j] ELSE b[j - Len(a)]
  BY <1>4, <1>5, <1>6, ConcatProperties, Zenon
<1>8. c = RemoveAt(shelf, i)
  BY <1>1, <1>3, <1>6 DEF RemoveAt
<1>9. DOMAIN c = 1 .. n - 1
  BY <1>1, <1>2, <1>4, <1>5, <1>7
<1>10. ASSUME NEW j \in 1 .. n, j # i PROVE shelf[j] \in ToSet(c)
  <2>1. CASE j < i
    <3>1. c[j] = shelf[j] /\ j \in DOMAIN c
      BY <1>2, <1>4, <1>5, <1>7, <1>9, <2>1
    <3> QED BY <3>1 DEF ToSet
  <2>2. CASE j > i
    <3>1. PICK k, m : k = j - i /\ m = j - 1
      OBVIOUS
    <3>2. k \in 1 .. n - i /\ i + k = j /\ m \in 1 .. n - 1 /\ ~(m <= i - 1)
          /\ m - (i - 1) = k
      BY <1>1, <1>2, <1>10, <2>2, <3>1
    <3>3. b[k] = shelf[j]
      BY <1>5, <3>2
    <3>4. Len(a) + Len(b) = n - 1
      <4>1. \A x, y \in Int : (x - 1) + (y - x) = y - 1
        OBVIOUS
      <4>2. i \in Int /\ n \in Int
        BY <1>2
      <4> QED BY <1>4, <1>5, <4>1, <4>2, Zenon
    <3>5. c[m] = b[k]
      BY <1>4, <1>7, <3>2, <3>4
    <3> QED BY <1>9, <3>2, <3>3, <3>5 DEF ToSet
  <2> QED BY <1>2, <1>10, <2>1, <2>2
<1> QED BY <1>2, <1>7, <1>8, <1>10

\* A draft leaves the shelf; if it was open, another is shown.
LEMMA DeleteDraftStep ==
    ASSUME BuilderInv, NEW d, DeleteDraft(d)
    PROVE  GoodStep
<1>1. PICK i \in DOMAIN shelf : shelf[i] = d /\ shelf' = RemoveAt(shelf, i)
  BY DEF DeleteDraft
<1>2. shelf \in Seq(DraftIds)
  BY DEF BuilderInv
<1>3. /\ shelf' \in Seq(DraftIds)
      /\ \A j \in DOMAIN shelf : j # i => shelf[j] \in ToSet(shelf')
  BY <1>1, <1>2, ShelfWithout, Zenon
<1>4. drafts' = [drafts EXCEPT ![d] = NoDraft] /\ DOMAIN drafts' = DraftIds
  BY DEF DeleteDraft, BuilderInv
<1>5. PICK ds : ds = drafts'
  OBVIOUS
<1>6. CASE d = open
  <2>1. PICK e : e = IF shelf' = <<>> THEN Nobody ELSE shelf'[1]
    OBVIOUS
  <2>2. ShowDraft(e, ds)
    BY <1>5, <1>6, <2>1 DEF DeleteDraft
  <2>3. e = Nobody \/ e \in ToSet(shelf')
    <3>1. CASE shelf' # <<>>
      <4>1. Len(shelf') \in Nat \ {0} /\ DOMAIN shelf' = 1 .. Len(shelf')
        BY <1>3, <3>1, EmptySeq
      <4> QED BY <2>1, <3>1, <4>1 DEF ToSet
    <3> QED BY <2>1, <3>1
  <2> QED BY <1>3, <1>4, <1>5, <2>2, <2>3, ShowStep
<1>7. CASE d # open
  <2>1. UNCHANGED <<open, history>>
    BY <1>7 DEF DeleteDraft
  <2>2. drafts'[open] = drafts[open]
    BY <1>4, <1>7
  <2>3. open # Nobody => open \in ToSet(shelf')
    <3>1. SUFFICES ASSUME open # Nobody PROVE open \in ToSet(shelf')
      OBVIOUS
    <3>2. PICK j \in DOMAIN shelf : shelf[j] = open
      BY <3>1 DEF BuilderInv, ToSet
    <3> QED BY <1>1, <1>3, <1>7, <3>2
  <2>4. open # Nobody => history' = PushHistory(history, drafts'[open'])
    BY <2>1, <2>2 DEF BuilderInv, PushHistory
  <2>5. IsHistory(history')
    BY <2>1, Zenon DEF BuilderInv
  <2> QED BY <1>3, <1>4, <2>1, <2>2, <2>3, <2>4, <2>5 DEF BuilderInv, GoodStep, Recorded
<1> QED BY <1>6, <1>7

\* An editor that mounts again starts a history of its own.
LEMMA RemountStep ==
    ASSUME BuilderInv, Remount
    PROVE  GoodStep
<1>1. open # Nobody /\ Mount(shelf[1], drafts) /\ UNCHANGED <<drafts, shelf>>
  BY DEF Remount
<1>2. PICK d : d = shelf[1]
  OBVIOUS
<1>3. shelf \in Seq(DraftIds) /\ DOMAIN drafts = DraftIds /\ shelf # <<>>
  BY <1>1 DEF BuilderInv, ToSet
<1>4. d \in ToSet(shelf)
  <2>1. Len(shelf) \in Nat \ {0} /\ DOMAIN shelf = 1 .. Len(shelf)
    BY <1>3, EmptySeq
  <2> QED BY <1>2, <2>1 DEF ToSet
<1>5. open' = d /\ (d # Nobody => history' = PushHistory(NoHistory, drafts[d]))
      /\ (d = Nobody => history' = NoHistory)
  BY <1>1, <1>2 DEF Mount
<1>6. PICK k : k = PushHistory(NoHistory, drafts[d])
  OBVIOUS
<1>7. IsHistory(k) /\ k.last = drafts[d]
  BY <1>6, NewHistory, PushKeeps, Zenon
<1>8. IsHistory(history') /\ (d # Nobody => history'.last = drafts[d])
  BY <1>5, <1>6, <1>7, NewHistory, Zenon
<1> QED BY <1>1, <1>3, <1>4, <1>5, <1>8 DEF BuilderInv, GoodStep, Recorded

\* An undo moves the last snapshot to the future.
LEMMA UndoStep ==
    ASSUME BuilderInv, Undo
    PROVE  GoodStep
<1>1. PICK p, f, g : /\ p = Front(history.past) /\ g = Last(p)
                     /\ f = Append(history.future, Last(history.past))
  OBVIOUS
<1>2. /\ open # Nobody /\ Len(history.past) >= 2 /\ UNCHANGED <<shelf, open>>
      /\ drafts' = [drafts EXCEPT ![open] = g] /\ history' = Restore(p, f, g)
  BY <1>1 DEF Undo
<1>3. PICK G : history.past \in Seq(G) /\ history.future \in Seq(G)
  BY DEF BuilderInv, IsHistory
<1>4. history.past # <<>>
  BY <1>2
<1>5. /\ p \in Seq(G) /\ f \in Seq(G)
      /\ p \o Reverse(f) = history.past \o Reverse(history.future)
  <2>1. /\ Front(history.past) \in Seq(G)
        /\ Append(history.future, Last(history.past)) \in Seq(G)
        /\ Front(history.past) \o Reverse(Append(history.future, Last(history.past)))
               = history.past \o Reverse(history.future)
    BY <1>3, <1>4, TimelineUndo, Zenon
  <2> QED BY <1>1, <2>1, Zenon
<1>6. PICK h : h = [past |-> p, future |-> f, last |-> g]
  OBVIOUS
<1>7. h.past = p /\ h.future = f /\ h.last = g
  BY <1>6
<1>8. history' = h
  BY <1>2, <1>6 DEF Restore, PushHistory
<1>9. IsHistory(h)
  BY <1>5, <1>6, <1>7 DEF IsHistory
<1>10. drafts'[open] = g /\ DOMAIN drafts' = DraftIds
  BY <1>2 DEF BuilderInv, ToSet
<1>11. Timeline(history') = Timeline(history) /\ Last(history'.past) = drafts'[open']
  BY <1>1, <1>2, <1>5, <1>7, <1>8, <1>10, Zenon DEF Timeline
<1>12. IsHistory(history') /\ history'.last = drafts'[open']
  BY <1>2, <1>7, <1>8, <1>9, <1>10, Zenon
<1> QED BY <1>2, <1>10, <1>11, <1>12 DEF BuilderInv, GoodStep, Recorded

\* A redo moves it back.
LEMMA RedoStep ==
    ASSUME BuilderInv, Redo
    PROVE  GoodStep
<1>1. PICK p, f, g : /\ g = Last(history.future) /\ p = Append(history.past, g)
                     /\ f = Front(history.future)
  OBVIOUS
<1>2. /\ open # Nobody /\ history.future # <<>> /\ UNCHANGED <<shelf, open>>
      /\ drafts' = [drafts EXCEPT ![open] = g] /\ history' = Restore(p, f, g)
  BY <1>1 DEF Redo
<1>3. PICK G : history.past \in Seq(G) /\ history.future \in Seq(G)
  BY DEF BuilderInv, IsHistory
<1>4. /\ p \in Seq(G) /\ f \in Seq(G) /\ Last(p) = g
      /\ p \o Reverse(f) = history.past \o Reverse(history.future)
  <2>1. /\ Front(history.future) \in Seq(G)
        /\ Append(history.past, Last(history.future)) \in Seq(G)
        /\ Last(Append(history.past, Last(history.future))) = Last(history.future)
        /\ Append(history.past, Last(history.future)) \o Reverse(Front(history.future))
               = history.past \o Reverse(history.future)
    BY <1>2, <1>3, TimelineRedo, Zenon
  <2> QED BY <1>1, <2>1, Zenon
<1>5. PICK h : h = [past |-> p, future |-> f, last |-> g]
  OBVIOUS
<1>6. h.past = p /\ h.future = f /\ h.last = g
  BY <1>5
<1>7. history' = h
  BY <1>2, <1>5 DEF Restore, PushHistory
<1>8. IsHistory(h)
  BY <1>4, <1>5, <1>6 DEF IsHistory
<1>9. drafts'[open] = g /\ DOMAIN drafts' = DraftIds
  BY <1>2 DEF BuilderInv, ToSet
<1>10. Timeline(history') = Timeline(history) /\ Last(history'.past) = drafts'[open']
  BY <1>2, <1>4, <1>6, <1>7, <1>9, Zenon DEF Timeline
<1>11. IsHistory(history') /\ history'.last = drafts'[open']
  BY <1>2, <1>6, <1>7, <1>8, <1>9, Zenon
<1> QED BY <1>2, <1>9, <1>10, <1>11 DEF BuilderInv, GoodStep, Recorded

\* No draft, no history.
LEMMA BuilderStart == BuilderInit => BuilderInv
<1> SUFFICES ASSUME BuilderInit PROVE BuilderInv
  OBVIOUS
<1>1. DOMAIN drafts = DraftIds /\ shelf = <<>> /\ open = Nobody /\ history = NoHistory
  BY DEF BuilderInit
<1>2. IsHistory(history) /\ shelf \in Seq(DraftIds)
  BY <1>1, NewHistory
<1> QED BY <1>1, <1>2 DEF BuilderInv

\* What every step does to the drafts and to the history.
LEMMA BuilderStep == BuilderInv /\ [BuilderNext]_builderVars => GoodStep
<1> SUFFICES ASSUME BuilderInv, [BuilderNext]_builderVars PROVE GoodStep
  OBVIOUS
<1>1. CASE UNCHANGED <<drafts, shelf, open, history>>
  BY <1>1, NothingShown
<1>2. CASE \E d, g : Edit(d, g) /\ (d = open => open # Nobody) /\ UNCHANGED <<shelf, open>>
  BY <1>2, EditStep
<1>3. ASSUME NEW t, CreateDraft(t) PROVE GoodStep
  BY <1>3, CreateDraftStep
<1>4. ASSUME NEW d, OpenDraft(d) PROVE GoodStep
  BY <1>4, OpenDraftStep
<1>5. ASSUME NEW d, DeleteDraft(d) PROVE GoodStep
  BY <1>5, DeleteDraftStep
<1>6. ASSUME NEW t, AddNode(t) \/ QuickAdd(t) PROVE GoodStep
  BY <1>2, <1>6, Zenon DEF AddNode, QuickAdd
<1>7. ASSUME NEW n, AcceptSuggestion(n) PROVE GoodStep
  BY <1>2, <1>7, Zenon DEF AcceptSuggestion
<1>8. ASSUME NEW n, NEW kind, ClickPort(n, kind) PROVE GoodStep
  <2>1. CASE kind = "out"
    BY <1>1, <1>8, <2>1 DEF ClickPort
  <2>2. CASE kind # "out"
    BY <1>2, <1>8, <2>2, Zenon DEF ClickPort
  <2> QED BY <2>1, <2>2
<1>9. ASSUME NEW n, NEW more, SelectNode(n, more) PROVE GoodStep
  BY <1>1, <1>9 DEF SelectNode
<1>10. ASSUME NEW i, SelectEdge(i) PROVE GoodStep
  BY <1>1, <1>10 DEF SelectEdge
<1>11. ASSUME NEW look, Restyle(look) \/ OrganizeByKey(look) PROVE GoodStep
  BY <1>2, <1>11, Zenon DEF Restyle, OrganizeByKey
<1>12. ASSUME NEW back, Tab(back) PROVE GoodStep
  BY <1>1, <1>12 DEF Tab
<1>13. ASSUME NEW plan, AiAnswers(plan) PROVE GoodStep
  <2>1. asked # Nobody /\ UNCHANGED <<shelf, open>>
    BY <1>13 DEF AiAnswers
  <2>2. UNCHANGED <<drafts, history>> \/ \E g : Edit(asked, g)
    BY <1>13, Zenon DEF AiAnswers
  <2> QED BY <1>1, <1>2, <2>1, <2>2
<1>14. CASE Remount
  BY <1>14, RemountStep
<1>15. CASE DeleteEdge
  BY <1>2, <1>15, Zenon DEF DeleteEdge
<1>16. CASE DeleteSelected
  <2>1. open # Nobody /\ UNCHANGED <<shelf, open>>
    BY <1>16 DEF DeleteSelected
  <2>2. \E g : Edit(deleteWrites, g)
    BY <1>16, Zenon DEF DeleteSelected
  <2> QED BY <1>2, <2>1, <2>2
<1>17. CASE SelectNothing \/ SelectAll \/ Copy \/ AskAi
  BY <1>1, <1>17 DEF SelectNothing, SelectAll, Copy, AskAi
<1>18. CASE Duplicate \/ Paste \/ ApplyMerge
  BY <1>2, <1>18, Zenon DEF Duplicate, Paste, ApplyMerge
<1>19. CASE Undo
  BY <1>19, UndoStep
<1>20. CASE Redo
  BY <1>20, RedoStep
<1>21. CASE UNCHANGED builderVars
  BY <1>1, <1>21 DEF builderVars
<1> QED BY <1>3, <1>4, <1>5, <1>6, <1>7, <1>8, <1>9, <1>10, <1>11, <1>12, <1>13, <1>14,
           <1>15, <1>16, <1>17, <1>18, <1>19, <1>20, <1>21 DEF BuilderNext

\* Undo and redo move along one line of graphs that ends at the one shown, and
\* only a new graph branches off it, for every bound on the history and whichever
\* drafts are opened, deleted or edited between (builder-workspace.jsx:408, 452
\* and 462).
THEOREM UndoNeverLoses == BuilderSpec => UndoLosesNothing
<1>1. GoodStep => BuilderInv'
  BY DEF GoodStep
<1>2. GoodStep => [open # Nobody /\ open' # Nobody =>
          \/ Timeline(history') = Timeline(history) /\ Last(history'.past) = drafts'[open']
          \/ history' = PushHistory(history, drafts'[open'])
          \/ history' = PushHistory(NoHistory, drafts'[open'])]_builderVars
  BY DEF GoodStep, Recorded
<1> QED BY <1>1, <1>2, BuilderStart, BuilderStep, PTL DEF BuilderSpec, UndoLosesNothing

-----------------------------------------------------------------------------
(* The reading of positions (PositionReader): induction over the numbers, as a set,
   sums, what is kept of a sequence, and the totals. *)
\* A set of numbers that is not empty has a smallest one.
LEMMA Minimum ==
    ASSUME NEW S, S \subseteq Nat, S # {} PROVE \E m \in S : \A n \in S : m <= n
<1>1. PICK m \in S : \A n \in S : ~ (<<n, m>> \in OpToRel(<, Nat))
  BY NatLessThanWellFounded, WFMin
<1>2. SUFFICES ASSUME NEW n \in S PROVE m <= n
  BY <1>1
<1>3. ~(n < m)
  BY <1>1 DEF OpToRel
<1> QED BY <1>3

\* A set of numbers that holds 0 and every successor holds them all.
LEMMA Induction ==
    ASSUME NEW S, 0 \in S, \A n \in Nat : n \in S => n + 1 \in S PROVE Nat \subseteq S
<1>1. SUFFICES ASSUME NEW k \in Nat, k \notin S PROVE FALSE
  OBVIOUS
<1>2. PICK m \in {n \in Nat : n \notin S} : \A n \in {x \in Nat : x \notin S} : m <= n
  BY <1>1, Minimum
<1>3. m # 0 /\ m - 1 \in Nat /\ m = (m - 1) + 1
  BY <1>2
<1>4. m - 1 \in S
  BY <1>2, <1>3
<1> QED BY <1>2, <1>3, <1>4

\* The sums of v, as far as n.
SumTo(v, n, f) ==
    f \in [0 .. n -> Int] /\ f[0] = 0 /\ \A i \in 1 .. n : f[i] = f[i - 1] + v[i]

\* They go on for as long as there are numbers.
LEMMA SumGoesOn ==
    ASSUME NEW v \in Seq(Int), NEW n \in Nat, n + 1 \in 1 .. Len(v), NEW f, SumTo(v, n, f)
    PROVE  \E g : SumTo(v, n + 1, g)
<1>1. f[n] \in Int /\ v[n + 1] \in Int
  BY DEF SumTo
<1>2. PICK w \in Int : w = f[n] + v[n + 1]
  BY <1>1
<1>3. PICK g : g = [i \in 0 .. n + 1 |-> IF i = n + 1 THEN w ELSE f[i]]
  OBVIOUS
<1>4. g \in [0 .. n + 1 -> Int]
  <2>1. \A i \in 0 .. n + 1 : i # n + 1 => i \in 0 .. n
    OBVIOUS
  <2>2. \A i \in 0 .. n : f[i] \in Int
    BY DEF SumTo
  <2> QED BY <1>3, <2>1, <2>2
<1>5. g[0] = 0
  BY <1>3 DEF SumTo
<1>6. ASSUME NEW i \in 1 .. n + 1 PROVE g[i] = g[i - 1] + v[i]
  <2>1. g[i - 1] = f[i - 1]
    BY <1>3
  <2>2. CASE i = n + 1
    BY <1>2, <1>3, <2>1, <2>2
  <2>3. CASE i # n + 1
    <3>1. i \in 1 .. n /\ g[i] = f[i]
      BY <1>3, <2>3
    <3> QED BY <2>1, <3>1 DEF SumTo
  <2> QED BY <2>2, <2>3
<1>7. SumTo(v, n + 1, g)
  BY <1>4, <1>5, <1>6 DEF SumTo
<1> QED BY <1>7

\* The sums of a sequence are what their definition says.
LEMMA SumsAre ==
    ASSUME NEW v \in Seq(Int)
    PROVE  /\ Sums(v)[0] = 0
           /\ \A i \in 1 .. Len(v) : Sums(v)[i] = Sums(v)[i - 1] + v[i]
           /\ \A i \in 0 .. Len(v) : Sums(v)[i] \in Int
<1> DEFINE E == { n \in Nat : n <= Len(v) => \E f : SumTo(v, n, f) }
           Body(f) == [i \in 0 .. Len(v) |-> IF i = 0 THEN 0 ELSE f[i - 1] + v[i]]
           sum == CHOOSE f : f = Body(f)
<1>0. Len(v) \in Nat
  OBVIOUS
<1>1. 0 \in E
  <2>1. PICK f : f = [i \in 0 .. 0 |-> 0]
    OBVIOUS
  <2>2. SumTo(v, 0, f)
    BY <2>1 DEF SumTo
  <2> QED BY <2>2
<1>2. \A n \in Nat : n \in E => n + 1 \in E
  <2>1. SUFFICES ASSUME NEW n \in Nat, n \in E, n + 1 <= Len(v) PROVE \E g : SumTo(v, n + 1, g)
    OBVIOUS
  <2>2. n <= Len(v) /\ n + 1 \in 1 .. Len(v)
    BY <1>0, <2>1
  <2>3. PICK f : SumTo(v, n, f)
    BY <2>1, <2>2
  <2> QED BY <2>2, <2>3, SumGoesOn
<1>3. Nat \subseteq E
  <2> HIDE DEF E
  <2> QED BY <1>1, <1>2, Induction
<1>4. PICK f : SumTo(v, Len(v), f)
  BY <1>0, <1>3
<1>5. f = Body(f)
  <2>1. PICK b : b = Body(f)
    OBVIOUS
  <2>2. ASSUME NEW i \in 0 .. Len(v) PROVE f[i] = b[i]
    <3>1. b[i] = IF i = 0 THEN 0 ELSE f[i - 1] + v[i]
      BY <2>1, Zenon
    <3>2. CASE i = 0
      BY <1>4, <3>1, <3>2 DEF SumTo
    <3>3. CASE i # 0
      <4>1. i \in 1 .. Len(v)
        BY <3>3
      <4>2. f[i] = f[i - 1] + v[i]
        BY <1>4, <4>1 DEF SumTo
      <4> QED BY <3>1, <3>3, <4>2
    <3> QED BY <3>2, <3>3
  <2>3. f \in [0 .. Len(v) -> Int]
    BY <1>4 DEF SumTo
  <2>4. f = [i \in 0 .. Len(v) |-> f[i]]
    BY <2>3, Zenon
  <2>5. b = [i \in 0 .. Len(v) |-> b[i]]
    BY <2>1
  <2>6. f = b
    BY <2>2, <2>4, <2>5, Zenon
  <2> QED BY <2>1, <2>6
<1>6. sum = Body(sum)
  BY <1>5
<1>7. Sums(v) = sum
  BY DEF Sums
<1> HIDE DEF sum
<1>8. PICK g : g = Sums(v)
  OBVIOUS
<1>9. g = Body(g)
  BY <1>6, <1>7, <1>8
<1>10. \A i \in 0 .. Len(v) : g[i] = IF i = 0 THEN 0 ELSE g[i - 1] + v[i]
  BY <1>9, Zenon
<1>11. g[0] = 0
  BY <1>0, <1>10
<1>12. ASSUME NEW i \in 1 .. Len(v) PROVE g[i] = g[i - 1] + v[i]
  BY <1>0, <1>10
<1> DEFINE I == { n \in Nat : n <= Len(v) => g[n] \in Int }
<1>13. 0 \in I
  BY <1>11
<1>14. \A n \in Nat : n \in I => n + 1 \in I
  <2>1. SUFFICES ASSUME NEW n \in Nat, n \in I, n + 1 <= Len(v) PROVE g[n + 1] \in Int
    OBVIOUS
  <2>2. n + 1 \in 1 .. Len(v) /\ n + 1 - 1 = n /\ g[n] \in Int
    BY <1>0, <2>1
  <2>3. PICK k : k = n + 1
    OBVIOUS
  <2>4. g[k] = g[k - 1] + v[k] /\ v[k] \in Int /\ k - 1 = n
    BY <1>12, <2>2, <2>3
  <2> QED BY <2>2, <2>3, <2>4
<1>15. Nat \subseteq I
  <2> HIDE DEF I
  <2> QED BY <1>13, <1>14, Induction
<1>16. \A i \in 0 .. Len(v) : g[i] \in Int
  BY <1>0, <1>15
<1> QED BY <1>8, <1>11, <1>12, <1>16

\* The same up to a number.
LEMMA InductionTo ==
    ASSUME NEW n \in Nat, NEW S, 0 \in S, \A i \in 1 .. n : i - 1 \in S => i \in S
    PROVE  0 .. n \subseteq S
<1> DEFINE T == { i \in Nat : i <= n => i \in S }
<1>1. 0 \in T
  OBVIOUS
<1>2. \A i \in Nat : i \in T => i + 1 \in T
  <2>1. SUFFICES ASSUME NEW i \in Nat, i \in T, i + 1 <= n PROVE i + 1 \in S
    OBVIOUS
  <2>2. PICK k : k = i + 1
    OBVIOUS
  <2>3. k \in 1 .. n /\ k - 1 \in S
    BY <2>1, <2>2
  <2> QED BY <2>2, <2>3
<1>3. Nat \subseteq T
  <2> HIDE DEF T
  <2> QED BY <1>1, <1>2, Induction
<1> QED BY <1>3

\* The sum of a sequence depends on its numbers only, as far as it goes.
LEMMA SumsAgree ==
    ASSUME NEW v \in Seq(Int), NEW w \in Seq(Int), NEW n \in Nat, n <= Len(v), n <= Len(w),
           \A i \in 1 .. n : v[i] = w[i]
    PROVE  Sums(v)[n] = Sums(w)[n]
<1>1. PICK f, g : f = Sums(v) /\ g = Sums(w)
  OBVIOUS
<1>2. /\ f[0] = 0 /\ g[0] = 0
      /\ \A i \in 1 .. Len(v) : f[i] = f[i - 1] + v[i]
      /\ \A i \in 1 .. Len(w) : g[i] = g[i - 1] + w[i]
  BY <1>1, SumsAre
<1> DEFINE S == { i \in 0 .. n : f[i] = g[i] }
<1>3. 0 \in S
  BY <1>2
<1>4. \A i \in 1 .. n : i - 1 \in S => i \in S
  <2>1. SUFFICES ASSUME NEW i \in 1 .. n, f[i - 1] = g[i - 1] PROVE f[i] = g[i]
    OBVIOUS
  <2>2. i \in 1 .. Len(v) /\ i \in 1 .. Len(w)
    OBVIOUS
  <2> QED BY <1>2, <2>1, <2>2
<1>5. 0 .. n \subseteq S
  <2> HIDE DEF S
  <2> QED BY <1>3, <1>4, InductionTo
<1> QED BY <1>1, <1>5

\* What a sum is, of no numbers, and of one more.
LEMMA SumIsNumber == ASSUME NEW v \in Seq(Int) PROVE SumAll(v) \in Int
BY SumsAre DEF SumAll

LEMMA SumOfNone == SumAll(<<>>) = 0
<1>1. <<>> \in Seq(Int) /\ Len(<<>>) = 0
  OBVIOUS
<1> QED BY <1>1, SumsAre DEF SumAll

LEMMA SumOfOneMore ==
    ASSUME NEW v \in Seq(Int), NEW x \in Int PROVE SumAll(Append(v, x)) = SumAll(v) + x
<1>1. PICK w, n : w = Append(v, x) /\ n = Len(v)
  OBVIOUS
<1>2. /\ w \in Seq(Int) /\ n \in Nat /\ Len(w) = n + 1 /\ w[n + 1] = x
      /\ \A i \in 1 .. n : w[i] = v[i]
  BY <1>1, AppendProperties
<1>3. Sums(w)[n] = Sums(v)[n]
  <2>1. n <= Len(v) /\ n <= Len(w)
    BY <1>1, <1>2
  <2> QED BY <1>2, <2>1, SumsAgree, Zenon
<1>4. n + 1 \in 1 .. Len(w) /\ n + 1 - 1 = n
  BY <1>2
<1>5. PICK k : k = n + 1
  OBVIOUS
<1>6. Sums(w)[k] = Sums(w)[k - 1] + w[k]
  BY <1>2, <1>4, <1>5, SumsAre
<1> QED BY <1>1, <1>2, <1>3, <1>4, <1>5, <1>6 DEF SumAll

\* The sum of the differences is the difference of the sums.
LEMMA SumOfDifferences ==
    ASSUME NEW u \in Seq(Int), NEW v \in Seq(Int), NEW w \in Seq(Int),
           Len(u) = Len(v), Len(w) = Len(v), \A i \in 1 .. Len(v) : u[i] = v[i] - w[i]
    PROVE  SumAll(u) = SumAll(v) - SumAll(w)
<1>1. PICK f, g, h, n : f = Sums(u) /\ g = Sums(v) /\ h = Sums(w) /\ n = Len(v)
  OBVIOUS
<1>2. /\ n \in Nat /\ Len(u) = n /\ Len(w) = n
      /\ f[0] = 0 /\ g[0] = 0 /\ h[0] = 0
      /\ \A i \in 1 .. n : f[i] = f[i - 1] + u[i]
      /\ \A i \in 1 .. n : g[i] = g[i - 1] + v[i]
      /\ \A i \in 1 .. n : h[i] = h[i - 1] + w[i]
      /\ \A i \in 0 .. n : g[i] \in Int /\ h[i] \in Int
  <2>1. /\ f[0] = 0 /\ \A i \in 1 .. Len(u) : f[i] = f[i - 1] + u[i]
    BY <1>1, SumsAre, Zenon
  <2>2. /\ g[0] = 0 /\ (\A i \in 1 .. Len(v) : g[i] = g[i - 1] + v[i])
        /\ \A i \in 0 .. Len(v) : g[i] \in Int
    BY <1>1, SumsAre, Zenon
  <2>3. /\ h[0] = 0 /\ (\A i \in 1 .. Len(w) : h[i] = h[i - 1] + w[i])
        /\ \A i \in 0 .. Len(w) : h[i] \in Int
    BY <1>1, SumsAre, Zenon
  <2>4. n \in Nat
    BY <1>1
  <2> QED BY <1>1, <2>1, <2>2, <2>3, <2>4, Zenon
<1> DEFINE S == { i \in 0 .. n : f[i] = g[i] - h[i] }
<1>3. 0 \in S
  BY <1>2
<1>4. \A i \in 1 .. n : i - 1 \in S => i \in S
  <2>1. SUFFICES ASSUME NEW i \in 1 .. n, f[i - 1] = g[i - 1] - h[i - 1] PROVE f[i] = g[i] - h[i]
    OBVIOUS
  <2>2. v[i] \in Int /\ w[i] \in Int /\ u[i] = v[i] - w[i]
    BY <1>1, <1>2
  <2>3. g[i - 1] \in Int /\ h[i - 1] \in Int
    <3>1. i - 1 \in 0 .. n
      BY <1>2
    <3> QED BY <1>2, <3>1, Zenon
  <2>4. f[i] = f[i - 1] + u[i] /\ g[i] = g[i - 1] + v[i] /\ h[i] = h[i - 1] + w[i]
    BY <1>2, Zenon
  <2>5. PICK x, y, r, t : x = g[i - 1] /\ y = h[i - 1] /\ r = v[i] /\ t = w[i]
    OBVIOUS
  <2>6. /\ f[i] = (x - y) + (r - t) /\ g[i] = x + r /\ h[i] = y + t
        /\ x \in Int /\ y \in Int /\ r \in Int /\ t \in Int
    BY <2>1, <2>2, <2>3, <2>4, <2>5, Zenon
  <2>7. (x - y) + (r - t) = (x + r) - (y + t)
    BY <2>6
  <2> QED BY <2>6, <2>7, Zenon
<1>5. 0 .. n \subseteq S
  <2> HIDE DEF S
  <2> QED BY <1>2, <1>3, <1>4, InductionTo
<1> QED BY <1>1, <1>2, <1>5 DEF SumAll

\* Zeros add up to zero.
LEMMA SumOfZeros ==
    ASSUME NEW v \in Seq(Int), \A i \in 1 .. Len(v) : v[i] = 0 PROVE SumAll(v) = 0
<1>1. SumAll(v) = SumAll(v) - SumAll(v)
  <2>1. \A i \in 1 .. Len(v) : v[i] = v[i] - v[i]
    OBVIOUS
  <2> QED BY <2>1, SumOfDifferences
<1> QED BY <1>1, SumIsNumber

\* u is v followed by w.
IsJoined(u, v, w) ==
    /\ Len(u) = Len(v) + Len(w)
    /\ \A i \in 1 .. Len(v) : u[i] = v[i]
    /\ \A i \in 1 .. Len(w) : u[Len(v) + i] = w[i]

\* The sum of both is the sum of their sums.
LEMMA SumOfJoined ==
    ASSUME NEW v \in Seq(Int), NEW w \in Seq(Int), NEW u \in Seq(Int), IsJoined(u, v, w)
    PROVE  SumAll(u) = SumAll(v) + SumAll(w)
<1>1. PICK m, n : m = Len(v) /\ n = Len(w)
  OBVIOUS
<1>2. /\ u \in Seq(Int) /\ m \in Nat /\ n \in Nat /\ Len(u) = m + n
      /\ \A i \in 1 .. m : u[i] = v[i]
      /\ \A i \in 1 .. n : u[m + i] = w[i]
  <2>1. m \in Nat /\ n \in Nat
    BY <1>1
  <2> QED BY <1>1, <2>1, Zenon DEF IsJoined
<1>3. PICK f, g, h : f = Sums(u) /\ g = Sums(v) /\ h = Sums(w)
  OBVIOUS
<1>4. /\ \A i \in 1 .. m + n : f[i] = f[i - 1] + u[i]
      /\ h[0] = 0 /\ \A i \in 1 .. n : h[i] = h[i - 1] + w[i]
      /\ \A i \in 0 .. n : h[i] \in Int
      /\ g[m] \in Int
  <2>1. \A i \in 1 .. Len(u) : f[i] = f[i - 1] + u[i]
    BY <1>2, <1>3, SumsAre, Zenon
  <2>2. /\ h[0] = 0 /\ (\A i \in 1 .. n : h[i] = h[i - 1] + w[i])
        /\ \A i \in 0 .. n : h[i] \in Int
    BY <1>1, <1>3, SumsAre, Zenon
  <2>3. \A i \in 0 .. m : g[i] \in Int
    BY <1>1, <1>3, SumsAre, Zenon
  <2>4. m \in 0 .. m
    BY <1>2
  <2> QED BY <1>2, <2>1, <2>2, <2>3, <2>4, Zenon
<1>5. f[m] = g[m]
  <2>1. m <= Len(v) /\ m <= Len(u)
    BY <1>1, <1>2
  <2> QED BY <1>2, <1>3, <2>1, SumsAgree, Zenon
<1> DEFINE S == { i \in 0 .. n : f[m + i] = g[m] + h[i] }
<1>6. 0 \in S
  BY <1>2, <1>4, <1>5
<1>7. \A i \in 1 .. n : i - 1 \in S => i \in S
  <2>1. SUFFICES ASSUME NEW i \in 1 .. n, f[m + (i - 1)] = g[m] + h[i - 1]
                 PROVE f[m + i] = g[m] + h[i]
    OBVIOUS
  <2>2. w[i] \in Int /\ h[i - 1] \in Int /\ u[m + i] = w[i] /\ h[i] = h[i - 1] + w[i]
    BY <1>1, <1>2, <1>4
  <2>3. PICK k : k = m + i
    OBVIOUS
  <2>4. k \in 1 .. m + n /\ k - 1 = m + (i - 1)
    BY <1>2, <2>3
  <2>5. f[k] = f[k - 1] + u[k]
    BY <1>4, <2>4, Zenon
  <2>6. PICK x, y, t : x = g[m] /\ y = h[i - 1] /\ t = w[i]
    OBVIOUS
  <2>7. f[k] = (x + y) + t /\ h[i] = y + t /\ x \in Int /\ y \in Int /\ t \in Int
    BY <1>4, <2>1, <2>2, <2>3, <2>4, <2>5, <2>6, Zenon
  <2>8. (x + y) + t = x + (y + t)
    BY <2>7
  <2> QED BY <2>3, <2>6, <2>7, <2>8, Zenon
<1>8. 0 .. n \subseteq S
  <2> HIDE DEF S
  <2> QED BY <1>2, <1>6, <1>7, InductionTo
<1>9. f[m + n] = g[m] + h[n]
  BY <1>2, <1>8
<1> QED BY <1>1, <1>2, <1>3, <1>9 DEF SumAll

\* The elements kept among the first n.
Keeps(s, K, G, n, f) ==
    /\ f \in [0 .. n -> Seq(G)] /\ f[0] = <<>>
    /\ \A i \in 1 .. n : f[i] = IF i \in K THEN Append(f[i - 1], s[i]) ELSE f[i - 1]

\* They go on for as long as there are elements.
LEMMA KeepingGoesOn ==
    ASSUME NEW s, Len(s) \in Nat, NEW K, NEW G, \A i \in K : s[i] \in G,
           NEW n \in Nat, n + 1 \in 1 .. Len(s), NEW f, Keeps(s, K, G, n, f)
    PROVE  \E g : Keeps(s, K, G, n + 1, g)
<1>1. PICK v : v = IF n + 1 \in K THEN Append(f[n], s[n + 1]) ELSE f[n]
  OBVIOUS
<1>2. f[n] \in Seq(G)
  BY DEF Keeps
<1>3. v \in Seq(G)
  <2>1. CASE n + 1 \in K
    <3>1. s[n + 1] \in G
      BY <2>1
    <3> QED BY <1>1, <1>2, <2>1, <3>1
  <2> QED BY <1>1, <1>2, <2>1
<1>4. PICK g : g = [i \in 0 .. n + 1 |-> IF i = n + 1 THEN v ELSE f[i]]
  OBVIOUS
<1>5. g \in [0 .. n + 1 -> Seq(G)]
  <2>1. \A i \in 0 .. n + 1 : i # n + 1 => i \in 0 .. n
    OBVIOUS
  <2>2. \A i \in 0 .. n : f[i] \in Seq(G)
    BY DEF Keeps
  <2> QED BY <1>3, <1>4, <2>1, <2>2
<1>6. g[0] = <<>>
  BY <1>4 DEF Keeps
<1>7. ASSUME NEW i \in 1 .. n + 1
      PROVE g[i] = IF i \in K THEN Append(g[i - 1], s[i]) ELSE g[i - 1]
  <2>1. g[i - 1] = f[i - 1]
    BY <1>4
  <2>2. CASE i = n + 1
    BY <1>1, <1>4, <2>1, <2>2
  <2>3. CASE i # n + 1
    <3>1. i \in 1 .. n /\ g[i] = f[i]
      BY <1>4, <2>3
    <3> QED BY <2>1, <3>1 DEF Keeps
  <2> QED BY <2>2, <2>3
<1>8. Keeps(s, K, G, n + 1, g)
  BY <1>5, <1>6, <1>7 DEF Keeps
<1> QED BY <1>8

\* What is kept is what its definition says.
LEMMA KeptIsKept ==
    ASSUME NEW s, Len(s) \in Nat, NEW K, NEW G, \A i \in K : s[i] \in G
    PROVE  \E f : Keeps(s, K, G, Len(s), f) /\ Kept(s, K) = f[Len(s)]
<1> DEFINE E == { n \in Nat : n <= Len(s) => \E f : Keeps(s, K, G, n, f) }
           Body(f) == [i \in 0 .. Len(s) |-> IF i = 0 THEN <<>>
                                             ELSE IF i \in K THEN Append(f[i - 1], s[i])
                                             ELSE f[i - 1]]
           kept == CHOOSE f : f = Body(f)
<1>1. 0 \in E
  <2>1. PICK f : f = [i \in 0 .. 0 |-> <<>>]
    OBVIOUS
  <2>2. <<>> \in Seq(G)
    OBVIOUS
  <2>3. f \in [0 .. 0 -> Seq(G)] /\ f[0] = <<>>
    BY <2>1, <2>2
  <2>4. Keeps(s, K, G, 0, f)
    BY <2>3 DEF Keeps
  <2> QED BY <2>4
<1>2. \A n \in Nat : n \in E => n + 1 \in E
  <2>1. SUFFICES ASSUME NEW n \in Nat, n \in E, n + 1 <= Len(s)
                 PROVE \E g : Keeps(s, K, G, n + 1, g)
    OBVIOUS
  <2>2. n <= Len(s) /\ n + 1 \in 1 .. Len(s)
    BY <2>1
  <2>3. PICK f : Keeps(s, K, G, n, f)
    BY <2>1, <2>2
  <2> QED BY <2>2, <2>3, KeepingGoesOn
<1>3. Nat \subseteq E
  <2> HIDE DEF E
  <2> QED BY <1>1, <1>2, Induction
<1>4. PICK f : Keeps(s, K, G, Len(s), f)
  BY <1>3
<1>5. f = Body(f)
  <2>1. PICK b : b = Body(f)
    OBVIOUS
  <2>2. ASSUME NEW i \in 0 .. Len(s) PROVE f[i] = b[i]
    <3>1. b[i] = IF i = 0 THEN <<>> ELSE IF i \in K THEN Append(f[i - 1], s[i]) ELSE f[i - 1]
      BY <2>1, Zenon
    <3>2. CASE i = 0
      BY <1>4, <3>1, <3>2 DEF Keeps
    <3>3. CASE i # 0
      <4>1. i \in 1 .. Len(s)
        BY <3>3
      <4>2. f[i] = IF i \in K THEN Append(f[i - 1], s[i]) ELSE f[i - 1]
        BY <1>4, <4>1, Zenon DEF Keeps
      <4>3. b[i] = IF i \in K THEN Append(f[i - 1], s[i]) ELSE f[i - 1]
        BY <3>1, <3>3, Zenon
      <4>4. CASE i \in K
        BY <4>2, <4>3, <4>4
      <4>5. CASE i \notin K
        BY <4>2, <4>3, <4>5
      <4> QED BY <4>4, <4>5
    <3> QED BY <3>2, <3>3
  <2>3. f \in [0 .. Len(s) -> Seq(G)]
    BY <1>4 DEF Keeps
  <2>4. f = [i \in 0 .. Len(s) |-> f[i]]
    BY <2>3, Zenon
  <2>5. b = [i \in 0 .. Len(s) |-> b[i]]
    BY <2>1
  <2>6. f = b
    BY <2>2, <2>4, <2>5, Zenon
  <2> QED BY <2>1, <2>6
<1>6. kept = Body(kept)
  BY <1>5
<1>7. Kept(s, K) = kept[Len(s)]
  BY DEF Kept
<1> HIDE DEF kept
<1>8. PICK g : g = kept
  OBVIOUS
<1>9. g = Body(g)
  BY <1>6, <1>8
<1>10. \A i \in 0 .. Len(s) : g[i] = IF i = 0 THEN <<>> ELSE IF i \in K THEN Append(g[i - 1], s[i])
                                    ELSE g[i - 1]
  BY <1>9, Zenon
<1>11. g[0] = <<>>
  <2>1. 0 \in 0 .. Len(s)
    OBVIOUS
  <2> QED BY <1>10, <2>1
<1>12. ASSUME NEW i \in 1 .. Len(s)
       PROVE g[i] = IF i \in K THEN Append(g[i - 1], s[i]) ELSE g[i - 1]
  <2>1. i \in 0 .. Len(s) /\ i # 0
    OBVIOUS
  <2> QED BY <1>10, <2>1, Zenon
<1> DEFINE S == { i \in 0 .. Len(s) : g[i] = f[i] }
<1>13. 0 \in S
  BY <1>4, <1>11 DEF Keeps
<1>14. \A i \in 1 .. Len(s) : i - 1 \in S => i \in S
  <2>1. SUFFICES ASSUME NEW i \in 1 .. Len(s), g[i - 1] = f[i - 1] PROVE g[i] = f[i]
    OBVIOUS
  <2>2. f[i] = IF i \in K THEN Append(f[i - 1], s[i]) ELSE f[i - 1]
    BY <1>4, Zenon DEF Keeps
  <2>3. g[i] = IF i \in K THEN Append(g[i - 1], s[i]) ELSE g[i - 1]
    BY <1>12
  <2>4. CASE i \in K
    BY <2>1, <2>2, <2>3, <2>4
  <2>5. CASE i \notin K
    BY <2>1, <2>2, <2>3, <2>5
  <2> QED BY <2>4, <2>5
<1>15. 0 .. Len(s) \subseteq S
  <2> HIDE DEF S
  <2> QED BY <1>13, <1>14, InductionTo
<1>16. Kept(s, K) = f[Len(s)]
  BY <1>7, <1>8, <1>15
<1> QED BY <1>4, <1>16

\* What is kept adds up to the same as with zeros for the rest.
LEMMA SumOfKept ==
    ASSUME NEW s, Len(s) \in Nat, NEW K, \A i \in K : s[i] \in Int,
           NEW masked \in Seq(Int), Len(masked) = Len(s),
           \A i \in 1 .. Len(s) : masked[i] = IF i \in K THEN s[i] ELSE 0
    PROVE  Kept(s, K) \in Seq(Int) /\ SumAll(Kept(s, K)) = SumAll(masked)
<1>1. PICK f : Keeps(s, K, Int, Len(s), f) /\ Kept(s, K) = f[Len(s)]
  BY KeptIsKept
<1>2. PICK g, n : g = Sums(masked) /\ n = Len(s)
  OBVIOUS
<1>3. /\ g[0] = 0 /\ \A i \in 1 .. n : g[i] = g[i - 1] + masked[i]
      /\ \A i \in 0 .. n : g[i] \in Int
  BY <1>2, SumsAre, Zenon
<1>4. /\ n \in Nat /\ f[0] = <<>> /\ \A i \in 0 .. n : f[i] \in Seq(Int)
      /\ \A i \in 1 .. n : f[i] = IF i \in K THEN Append(f[i - 1], s[i]) ELSE f[i - 1]
  BY <1>1, <1>2 DEF Keeps
<1> DEFINE S == { i \in 0 .. n : SumAll(f[i]) = g[i] }
<1>5. 0 \in S
  BY <1>3, <1>4, SumOfNone
<1>6. \A i \in 1 .. n : i - 1 \in S => i \in S
  <2>1. SUFFICES ASSUME NEW i \in 1 .. n, SumAll(f[i - 1]) = g[i - 1] PROVE SumAll(f[i]) = g[i]
    OBVIOUS
  <2>2. i - 1 \in 0 .. n /\ g[i] = g[i - 1] + masked[i]
    BY <1>3, <1>4
  <2>3. f[i - 1] \in Seq(Int) /\ g[i - 1] \in Int
    BY <1>3, <1>4, <2>2, Zenon
  <2>4. CASE i \in K
    <3>1. f[i] = Append(f[i - 1], s[i]) /\ s[i] \in Int /\ masked[i] = s[i]
      BY <1>2, <1>4, <2>4
    <3>2. SumAll(f[i]) = SumAll(f[i - 1]) + s[i]
      BY <2>3, <3>1, SumOfOneMore, Zenon
    <3> QED BY <2>1, <2>2, <3>1, <3>2
  <2>5. CASE i \notin K
    <3>1. f[i] = f[i - 1] /\ masked[i] = 0
      BY <1>2, <1>4, <2>5
    <3> QED BY <2>1, <2>2, <2>3, <3>1
  <2> QED BY <2>4, <2>5
<1>7. 0 .. n \subseteq S
  <2> HIDE DEF S
  <2> QED BY <1>4, <1>5, <1>6, InductionTo
<1>8. SumAll(f[n]) = g[n] /\ f[n] \in Seq(Int)
  BY <1>4, <1>7
<1> QED BY <1>1, <1>2, <1>8 DEF SumAll

\* The reading of positions by itself.
PortfolioSpec == PortfolioInit /\ [][PortfolioNext]_portfolioVars

\* The registry is a sequence, and a reading that counts is a number.
LEMMA TokensAreMany ==
    /\ Len(Tokens) \in Nat /\ DOMAIN Tokens = 1 .. Len(Tokens)
    /\ \A j \in 1 .. Len(Tokens) : Tokens[j] \in ToSet(Tokens)
BY ReadingAssumption DEF ToSet

LEMMA ReadingIsNumber == \A r \in Readings : HasHandle(r) => r \in Nat
BY ReadingAssumption DEF HasHandle

\* The answers of the calls are the readings, two for each token.
LEMMA AnswersAreReadings ==
    ASSUME NEW supply, NEW borrow, NEW j \in 1 .. Len(Tokens)
    PROVE  /\ Handles(MulticallAnswers(supply, borrow), j)[1] = supply[Tokens[j]]
           /\ Handles(MulticallAnswers(supply, borrow), j)[2] = borrow[Tokens[j]]
<1> DEFINE calls == PairedCalls(Tokens, "getSupplyBalance", "getBorrowBalance")
           says(c) == IF c.fn = "getSupplyBalance" THEN supply[c.of] ELSE borrow[c.of]
           given == [i \in DOMAIN calls |->
                       [status |-> IF says(calls[i]) = Unread THEN "failure" ELSE "success",
                        result |-> says(calls[i])]]
           results == MulticallRead(given)
           answers == [i \in DOMAIN results |-> IF results[i].success THEN results[i].result
                                                ELSE Unread]
<1>1. PICK n \in Nat : n = Len(Tokens)
  BY TokensAreMany
<1>2. MulticallAnswers(supply, borrow) = answers
  BY DEF MulticallAnswers
<1>3. ASSUME NEW i \in 1 .. 2 * n PROVE answers[i] = says(calls[i])
  <2>1. DOMAIN calls = 1 .. 2 * n
    BY <1>1 DEF PairedCalls
  <2>2. DOMAIN given = 1 .. 2 * n /\ DOMAIN results = 1 .. 2 * n
    BY <2>1 DEF MulticallRead
  <2>3. PICK v : v = says(calls[i])
    OBVIOUS
  <2>4. PICK g : g = [status |-> IF v = Unread THEN "failure" ELSE "success", result |-> v]
    OBVIOUS
  <2>5. given[i] = g
    BY <2>1, <2>3, <2>4, Zenon
  <2>6. results[i] = [success |-> g.status = "success",
                      result  |-> IF g.status = "success" THEN g.result ELSE "null"]
    BY <2>2, <2>5, Zenon DEF MulticallRead
  <2>7. answers[i] = IF results[i].success THEN results[i].result ELSE Unread
    BY <2>2, Zenon
  <2> HIDE DEF answers, results, given, calls, says
  <2>8. PICK r : r = results[i]
    OBVIOUS
  <2>9. /\ r.success = (g.status = "success")
        /\ r.result = IF g.status = "success" THEN g.result ELSE "null"
    <3>1. PICK ok, res : /\ ok = (g.status = "success")
                         /\ res = IF g.status = "success" THEN g.result ELSE "null"
      OBVIOUS
    <3>2. r = [success |-> ok, result |-> res]
      BY <2>6, <2>8, <3>1, Zenon
    <3>3. r.success = ok /\ r.result = res
      BY <3>2
    <3> QED BY <3>1, <3>3, Zenon
  <2>10. g.status = IF v = Unread THEN "failure" ELSE "success"
    BY <2>4
  <2>11. g.result = v
    BY <2>4
  <2>12. CASE v = Unread
    <3>1. g.status # "success"
      BY <2>10, <2>12
    <3> QED BY <2>3, <2>7, <2>8, <2>9, <2>12, <3>1
  <2>13. CASE v # Unread
    <3>1. g.status = "success"
      BY <2>10, <2>13
    <3>2. r.success /\ r.result = v
      BY <2>9, <2>11, <3>1
    <3> QED BY <2>3, <2>7, <2>8, <3>2
  <2> QED BY <2>12, <2>13
<1>4. ASSUME NEW i \in 1 .. 2 * n
      PROVE  /\ i % 2 = 1 => says(calls[i]) = supply[Tokens[(i + 1) \div 2]]
             /\ i % 2 # 1 => says(calls[i]) = borrow[Tokens[(i + 1) \div 2]]
  <2>1. PICK fn, of : /\ fn = IF i % 2 = 1 THEN "getSupplyBalance" ELSE "getBorrowBalance"
                      /\ of = Tokens[(i + 1) \div 2]
    OBVIOUS
  <2>2. calls[i] = [fn |-> fn, of |-> of]
    BY <1>1, <2>1 DEF PairedCalls
  <2>3. calls[i].fn = fn /\ calls[i].of = of
    BY <2>2
  <2>4. says(calls[i]) = IF fn = "getSupplyBalance" THEN supply[of] ELSE borrow[of]
    BY <2>3, Zenon
  <2> HIDE DEF says, calls
  <2>5. CASE i % 2 = 1
    BY <2>1, <2>4, <2>5
  <2>6. CASE i % 2 # 1
    <3>1. fn # "getSupplyBalance"
      BY <2>1, <2>6
    <3> QED BY <2>1, <2>4, <2>6, <3>1
  <2> QED BY <2>5, <2>6
<1> HIDE DEF answers, says, calls
<1>5. PICK a, b : a = 2 * j - 1 /\ b = 2 * j
  OBVIOUS
<1>6. /\ a \in 1 .. 2 * n /\ b \in 1 .. 2 * n /\ a % 2 = 1 /\ b % 2 = 0
      /\ (a + 1) \div 2 = j /\ (b + 1) \div 2 = j
  BY <1>1, <1>5
<1>7. answers[a] = supply[Tokens[j]] /\ answers[b] = borrow[Tokens[j]]
  <2>1. answers[a] = says(calls[a]) /\ answers[b] = says(calls[b])
    BY <1>3, <1>6, Zenon
  <2>2. says(calls[a]) = supply[Tokens[j]]
    BY <1>4, <1>6, Zenon
  <2>3. b % 2 # 1
    BY <1>6
  <2>4. says(calls[b]) = borrow[Tokens[j]]
    BY <1>4, <1>6, <2>3, Zenon
  <2> QED BY <2>1, <2>2, <2>4, Zenon
<1> QED BY <1>2, <1>5, <1>7 DEF Handles

\* A function over the first numbers is a sequence.
LEMMA SequenceOf ==
    ASSUME NEW n \in Nat, NEW S, NEW f, f = [i \in 1 .. n |-> f[i]], \A i \in 1 .. n : f[i] \in S
    PROVE  f \in Seq(S) /\ Len(f) = n
<1>1. f \in [1 .. n -> S]
  BY Zenon
<1> QED BY <1>1

\* The readings of one side, token by token.
LEMMA KnownAreNumbers ==
    ASSUME NEW which \in [ToSet(Tokens) -> Readings]
    PROVE  /\ Known(which) \in Seq(Nat) /\ Len(Known(which)) = Len(Tokens)
           /\ \A j \in 1 .. Len(Tokens) :
                 Known(which)[j] = IF HasHandle(which[Tokens[j]]) THEN which[Tokens[j]] ELSE 0
<1>1. PICK k, n : k = Known(which) /\ n = Len(Tokens)
  OBVIOUS
<1>2. k = [j \in 1 .. n |-> IF HasHandle(which[Tokens[j]]) THEN which[Tokens[j]] ELSE 0]
  BY <1>1, TokensAreMany DEF Known
<1>3. ASSUME NEW j \in 1 .. n
      PROVE  (IF HasHandle(which[Tokens[j]]) THEN which[Tokens[j]] ELSE 0) \in Nat
  <2>1. which[Tokens[j]] \in Readings
    BY <1>1, TokensAreMany
  <2> QED BY <2>1, ReadingIsNumber
<1>4. n \in Nat /\ k = [j \in 1 .. n |-> k[j]] /\ \A j \in 1 .. n : k[j] \in Nat
  BY <1>1, <1>2, <1>3, TokensAreMany
<1>5. k \in Seq(Nat) /\ Len(k) = n
  BY <1>4, SequenceOf
<1> QED BY <1>1, <1>2, <1>5

\* The amounts shown of one side add up to all that was read of it.
LEMMA ShownAddsUp ==
    ASSUME NEW answers, NEW which \in [ToSet(Tokens) -> Readings], NEW s \in {1, 2},
           \A j \in 1 .. Len(Tokens) : Handles(answers, j)[s] = which[Tokens[j]]
    PROVE  /\ WithoutZeros(Held(answers, s), TRUE) \in Seq(Int)
           /\ SumAll(WithoutZeros(Held(answers, s), TRUE)) = SumAll(Known(which))
<1>1. PICK read : read = [j \in DOMAIN Tokens |-> Handles(answers, j)[s]]
  OBVIOUS
<1>2. PICK K : K = { j \in DOMAIN Tokens : HasHandle(read[j]) }
  OBVIOUS
<1>3. PICK held : held = Held(answers, s)
  OBVIOUS
<1>4. held = Kept(read, K)
  BY <1>1, <1>2, <1>3 DEF Held
<1>5. PICK n \in Nat : n = Len(Tokens)
  BY TokensAreMany
<1>6. /\ DOMAIN read = 1 .. n /\ Len(read) = n
      /\ \A j \in 1 .. n : read[j] = which[Tokens[j]] /\ read[j] \in Readings
  <2>1. \A j \in 1 .. n : which[Tokens[j]] \in Readings
    BY <1>5, TokensAreMany
  <2>2. DOMAIN read = 1 .. n /\ \A j \in 1 .. n : read[j] = which[Tokens[j]]
    BY <1>1, <1>5, TokensAreMany
  <2>3. Len(read) = n
    BY <1>1, <1>5, TokensAreMany
  <2> QED BY <2>1, <2>2, <2>3
<1>7. PICK masked : masked = Known(which)
  OBVIOUS
<1>8. /\ masked \in Seq(Int) /\ Len(masked) = Len(read)
      /\ \A j \in 1 .. n : masked[j] = IF HasHandle(read[j]) THEN read[j] ELSE 0
  <2>1. /\ masked \in Seq(Nat) /\ Len(masked) = n
        /\ \A j \in 1 .. n :
              masked[j] = IF HasHandle(which[Tokens[j]]) THEN which[Tokens[j]] ELSE 0
    BY <1>5, <1>7, KnownAreNumbers
  <2> QED BY <1>6, <2>1
<1>9. /\ \A j \in K : read[j] \in Int
      /\ \A j \in 1 .. Len(read) : masked[j] = IF j \in K THEN read[j] ELSE 0
  <2>1. \A j \in 1 .. n : j \in K <=> HasHandle(read[j])
    BY <1>2, <1>5, TokensAreMany
  <2>2. \A j \in K : j \in 1 .. n
    BY <1>2, <1>5, TokensAreMany
  <2>3. \A r \in Readings : HasHandle(r) => r \in Int
    BY ReadingIsNumber
  <2> QED BY <1>6, <1>8, <2>1, <2>2, <2>3
<1>10. held \in Seq(Int) /\ SumAll(held) = SumAll(masked)
  <2>1. Len(read) \in Nat
    BY <1>6
  <2>2. \A j \in 1 .. Len(read) : masked[j] = IF j \in K THEN read[j] ELSE 0
    BY <1>9
  <2> HIDE <1>4
  <2>3. Kept(read, K) \in Seq(Int) /\ SumAll(Kept(read, K)) = SumAll(masked)
    BY <1>8, <1>9, <2>1, SumOfKept
  <2> QED BY <1>4, <2>3
<1>11. PICK L : L = { j \in DOMAIN held : held[j] # 0 }
  OBVIOUS
<1>12. WithoutZeros(Held(answers, s), TRUE) = Kept(held, L)
  BY <1>3, <1>11 DEF WithoutZeros
<1>13. Kept(held, L) \in Seq(Int) /\ SumAll(Kept(held, L)) = SumAll(held)
  <2>1. Len(held) \in Nat /\ (\A j \in L : held[j] \in Int) /\ DOMAIN held = 1 .. Len(held)
    BY <1>10, <1>11
  <2>2. \A j \in 1 .. Len(held) : held[j] = IF j \in L THEN held[j] ELSE 0
    BY <1>11, <2>1
  <2> QED BY <1>10, <2>1, <2>2, SumOfKept
<1> QED BY <1>7, <1>10, <1>12, <1>13

\* The places of a concatenation.
LEMMA Joined ==
    ASSUME NEW S, NEW a \in Seq(S), NEW b \in Seq(S)
    PROVE  /\ Len(a \o b) = Len(a) + Len(b) /\ DOMAIN (a \o b) = 1 .. Len(a) + Len(b)
           /\ \A i \in 1 .. Len(a) : (a \o b)[i] = a[i]
           /\ \A i \in 1 .. Len(b) : (a \o b)[Len(a) + i] = b[i]
OBVIOUS

\* The items of this side are in G, and x has these items with the amounts of a.
Takes(G, which) == \A k \in Int : [side |-> which, amount |-> k] \in G

IsSided(x, a, which, G) ==
    /\ x \in Seq(G) /\ Len(x) = Len(a)
    /\ \A i \in 1 .. Len(a) : x[i].side = which /\ x[i].amount = a[i]

\* The items of one side, and their amounts.
LEMMA SidedItems ==
    ASSUME NEW a \in Seq(Int), NEW which, NEW G, Takes(G, which)
    PROVE  IsSided(Sided(a, which), a, which, G)
<1>1. PICK x, m : x = Sided(a, which) /\ m = Len(a)
  OBVIOUS
<1>2. m \in Nat /\ DOMAIN a = 1 .. m /\ \A i \in 1 .. m : a[i] \in Int
  BY <1>1
<1>3. x = [i \in 1 .. m |-> [side |-> which, amount |-> a[i]]]
  BY <1>1, <1>2, Zenon DEF Sided
<1>4. \A i \in 1 .. m : x[i] = [side |-> which, amount |-> a[i]]
  BY <1>3, Zenon
<1>5. \A i \in 1 .. m : x[i] \in G
  BY <1>2, <1>4, Zenon DEF Takes
<1>6. x = [i \in 1 .. m |-> x[i]]
  BY <1>3
<1>7. x \in Seq(G) /\ Len(x) = m
  BY <1>2, <1>5, <1>6, SequenceOf, Zenon
<1>8. ASSUME NEW i \in 1 .. m PROVE x[i].side = which /\ x[i].amount = a[i]
  <2>1. PICK r : r = x[i]
    OBVIOUS
  <2>2. r = [side |-> which, amount |-> a[i]]
    BY <1>4, <2>1, Zenon
  <2> QED BY <2>1, <2>2
<1> QED BY <1>1, <1>7, <1>8, Zenon DEF IsSided

\* The totals of the portfolio's items are the sums of the two sides.
LEMMA TotalsOfItems ==
    ASSUME NEW a \in Seq(Int), NEW b \in Seq(Int)
    PROVE  /\ Total(Sided(a, "supply") \o Sided(b, "borrow"), FALSE) = SumAll(a)
           /\ Total(Sided(a, "supply") \o Sided(b, "borrow"), TRUE) = SumAll(b)
<1>1. PICK m, n : m = Len(a) /\ n = Len(b)
  OBVIOUS
<1>2. PICK x, y : x = Sided(a, "supply") /\ y = Sided(b, "borrow")
  OBVIOUS
<1>3. m \in Nat /\ n \in Nat
  BY <1>1
<1>4. PICK su, bo : su = "supply" /\ bo = "borrow"
  OBVIOUS
<1>5. PICK G : \A k \in Int : [side |-> su, amount |-> k] \in G /\ [side |-> bo, amount |-> k] \in G
  <2>1. PICK H : H = { [side |-> su, amount |-> k] : k \in Int }
    OBVIOUS
  <2>2. PICK K : K = { [side |-> bo, amount |-> k] : k \in Int }
    OBVIOUS
  <2>3. \A k \in Int : [side |-> su, amount |-> k] \in H /\ [side |-> bo, amount |-> k] \in K
    BY <2>1, <2>2, Zenon
  <2>4. \A k \in Int : /\ [side |-> su, amount |-> k] \in H \cup K
                       /\ [side |-> bo, amount |-> k] \in H \cup K
    BY <2>3, Zenon
  <2> QED BY <2>4, Zenon
<1>6. /\ x \in Seq(G) /\ Len(x) = m
      /\ \A i \in 1 .. m : x[i].side = su /\ x[i].amount = a[i]
  <2>1. x = Sided(a, su)
    BY <1>2, <1>4, Zenon
  <2>2. Takes(G, su)
    BY <1>5, Zenon DEF Takes
  <2>3. IsSided(Sided(a, su), a, su, G)
    BY <2>2, SidedItems
  <2> QED BY <1>1, <2>1, <2>3, Zenon DEF IsSided
<1>7. /\ y \in Seq(G) /\ Len(y) = n
      /\ \A i \in 1 .. n : y[i].side = bo /\ y[i].amount = b[i]
  <2>1. y = Sided(b, bo)
    BY <1>2, <1>4, Zenon
  <2>2. Takes(G, bo)
    BY <1>5, Zenon DEF Takes
  <2>3. IsSided(Sided(b, bo), b, bo, G)
    BY <2>2, SidedItems
  <2> QED BY <1>1, <2>1, <2>3, Zenon DEF IsSided
<1>8. PICK z : z = x \o y
  OBVIOUS
<1>9. /\ DOMAIN z = 1 .. m + n
      /\ \A i \in 1 .. m : z[i] = x[i]
      /\ \A i \in 1 .. n : z[m + i] = y[i]
  <2>1. /\ DOMAIN (x \o y) = 1 .. Len(x) + Len(y)
        /\ \A i \in 1 .. Len(x) : (x \o y)[i] = x[i]
        /\ \A i \in 1 .. Len(y) : (x \o y)[Len(x) + i] = y[i]
    <3>1. x \in Seq(G) /\ y \in Seq(G)
      BY <1>6, <1>7, Zenon
    <3> QED BY <3>1, Joined
  <2> QED BY <1>6, <1>7, <1>8, <2>1, Zenon
<1>10. PICK noA, noB : noA = [i \in 1 .. m |-> 0] /\ noB = [i \in 1 .. n |-> 0]
  OBVIOUS
<1>11. /\ noA \in Seq(Int) /\ Len(noA) = m /\ \A i \in 1 .. m : noA[i] = 0
       /\ noB \in Seq(Int) /\ Len(noB) = n /\ \A i \in 1 .. n : noB[i] = 0
  BY <1>3, <1>10
<1>12. SumAll(noA) = 0 /\ SumAll(noB) = 0
  BY <1>11, SumOfZeros
<1>13. Total(z, FALSE) = SumAll(a) + SumAll(noB)
  <2>1. PICK t : t = [i \in DOMAIN z |-> IF (z[i].side = "borrow") = FALSE
                                         THEN z[i].amount ELSE 0]
    OBVIOUS
  <2>2. ASSUME NEW i \in 1 .. m PROVE t[i] = a[i] /\ t[i] \in Int
    <3>1. i \in DOMAIN z /\ z[i].side = "supply" /\ z[i].amount = a[i] /\ a[i] \in Int
      <4>1. i \in 1 .. m + n
        BY <1>3
      <4>2. z[i] = x[i] /\ DOMAIN z = 1 .. m + n
        BY <1>9, Zenon
      <4>3. x[i].side = su /\ x[i].amount = a[i]
        BY <1>6, Zenon
      <4>4. a[i] \in Int
        BY <1>1
      <4> QED BY <1>4, <4>1, <4>2, <4>3, <4>4, Zenon
    <3>2. t[i] = a[i]
      BY <2>1, <3>1
    <3> QED BY <1>11, <3>1, <3>2
  <2>3. ASSUME NEW i \in 1 .. n PROVE t[m + i] = noB[i] /\ t[m + i] \in Int
    <3>1. m + i \in DOMAIN z /\ b[i] \in Int
      BY <1>1, <1>3, <1>9
    <3>2. z[m + i].side = "borrow" /\ z[m + i].amount = b[i]
      <4>1. z[m + i] = y[i]
        BY <1>9, Zenon
      <4>2. y[i].side = bo /\ y[i].amount = b[i]
        BY <1>7, Zenon
      <4> QED BY <1>4, <4>1, <4>2, Zenon
    <3>3. t[m + i] = 0
      BY <2>1, <3>1, <3>2
    <3> QED BY <1>11, <3>1, <3>3
  <2>4. ASSUME NEW i \in 1 .. m + n PROVE t[i] \in Int
    <3>1. CASE i <= m
      BY <1>3, <2>2, <3>1
    <3>2. CASE i > m
      <4>1. PICK k : k = i - m
        OBVIOUS
      <4>2. k \in 1 .. n /\ i = m + k
        BY <1>3, <3>2, <4>1
      <4> QED BY <2>3, <4>2
    <3> QED BY <1>3, <3>1, <3>2
  <2>5. t = [i \in 1 .. m + n |-> t[i]]
    BY <1>9, <2>1
  <2>6. t \in Seq(Int) /\ Len(t) = m + n
    <3>1. m + n \in Nat
      BY <1>3
    <3> QED BY <2>4, <2>5, <3>1, SequenceOf
  <2>7. SumAll(t) = SumAll(a) + SumAll(noB)
    <3>1. Len(t) = Len(a) + Len(noB)
      BY <1>1, <1>11, <2>6, Zenon
    <3>2. \A i \in 1 .. Len(a) : t[i] = a[i]
      BY <1>1, <1>11, <2>2, Zenon
    <3>3. \A i \in 1 .. Len(noB) : t[Len(a) + i] = noB[i]
      BY <1>1, <1>11, <2>3, Zenon
    <3>4. IsJoined(t, a, noB)
      BY <3>1, <3>2, <3>3, Zenon DEF IsJoined
    <3>5. t \in Seq(Int) /\ a \in Seq(Int) /\ noB \in Seq(Int)
      BY <1>11, <2>6, Zenon
    <3> QED BY <3>4, <3>5, SumOfJoined
  <2> QED BY <2>1, <2>7 DEF Total
<1>14. Total(z, TRUE) = SumAll(noA) + SumAll(b)
  <2>1. PICK t : t = [i \in DOMAIN z |-> IF (z[i].side = "borrow") = TRUE
                                         THEN z[i].amount ELSE 0]
    OBVIOUS
  <2>2. ASSUME NEW i \in 1 .. m PROVE t[i] = noA[i] /\ t[i] \in Int
    <3>1. i \in DOMAIN z /\ z[i].side = "supply" /\ z[i].amount = a[i] /\ a[i] \in Int
      <4>1. i \in 1 .. m + n
        BY <1>3
      <4>2. z[i] = x[i] /\ DOMAIN z = 1 .. m + n
        BY <1>9, Zenon
      <4>3. x[i].side = su /\ x[i].amount = a[i]
        BY <1>6, Zenon
      <4>4. a[i] \in Int
        BY <1>1
      <4> QED BY <1>4, <4>1, <4>2, <4>3, <4>4, Zenon
    <3>2. t[i] = 0
      BY <2>1, <3>1
    <3> QED BY <1>11, <3>1, <3>2
  <2>3. ASSUME NEW i \in 1 .. n PROVE t[m + i] = b[i] /\ t[m + i] \in Int
    <3>1. m + i \in DOMAIN z /\ b[i] \in Int
      BY <1>1, <1>3, <1>9
    <3>2. z[m + i].side = "borrow" /\ z[m + i].amount = b[i]
      <4>1. z[m + i] = y[i]
        BY <1>9, Zenon
      <4>2. y[i].side = bo /\ y[i].amount = b[i]
        BY <1>7, Zenon
      <4> QED BY <1>4, <4>1, <4>2, Zenon
    <3>3. t[m + i] = b[i]
      BY <2>1, <3>1, <3>2
    <3> QED BY <1>11, <3>1, <3>3
  <2>4. ASSUME NEW i \in 1 .. m + n PROVE t[i] \in Int
    <3>1. CASE i <= m
      BY <1>3, <2>2, <3>1
    <3>2. CASE i > m
      <4>1. PICK k : k = i - m
        OBVIOUS
      <4>2. k \in 1 .. n /\ i = m + k
        BY <1>3, <3>2, <4>1
      <4> QED BY <2>3, <4>2
    <3> QED BY <1>3, <3>1, <3>2
  <2>5. t = [i \in 1 .. m + n |-> t[i]]
    BY <1>9, <2>1
  <2>6. t \in Seq(Int) /\ Len(t) = m + n
    <3>1. m + n \in Nat
      BY <1>3
    <3> QED BY <2>4, <2>5, <3>1, SequenceOf
  <2>7. SumAll(t) = SumAll(noA) + SumAll(b)
    <3>1. Len(t) = Len(noA) + Len(b)
      BY <1>1, <1>11, <2>6, Zenon
    <3>2. \A i \in 1 .. Len(noA) : t[i] = noA[i]
      BY <1>1, <1>11, <2>2, Zenon
    <3>3. \A i \in 1 .. Len(b) : t[Len(noA) + i] = b[i]
      BY <1>1, <1>11, <2>3, Zenon
    <3>4. IsJoined(t, noA, b)
      BY <3>1, <3>2, <3>3, Zenon DEF IsJoined
    <3>5. t \in Seq(Int) /\ noA \in Seq(Int) /\ b \in Seq(Int)
      BY <1>11, <2>6, Zenon
    <3> QED BY <3>4, <3>5, SumOfJoined
  <2> QED BY <2>1, <2>7 DEF Total
<1>15. SumAll(a) \in Int /\ SumAll(b) \in Int
  BY SumIsNumber
<1>16. Total(z, FALSE) = SumAll(a) /\ Total(z, TRUE) = SumAll(b)
  <2>1. PICK k, l, c, d, e, f : /\ k = SumAll(a) /\ l = SumAll(b) /\ c = SumAll(noA)
                                /\ d = SumAll(noB) /\ e = Total(z, FALSE) /\ f = Total(z, TRUE)
    OBVIOUS
  <2>2. e = k + d /\ f = c + l /\ k \in Int /\ l \in Int /\ c = 0 /\ d = 0
    BY <1>12, <1>13, <1>14, <1>15, <2>1, Zenon
  <2>3. e = k /\ f = l
    BY <2>2
  <2> QED BY <2>1, <2>3, Zenon
<1> QED BY <1>2, <1>4, <1>8, <1>16, Zenon

\* Nothing adds up to nothing.
LEMMA TotalOfNothing == \A c : Total(<<>>, c) = 0
<1>1. SUFFICES ASSUME NEW c PROVE Total(<<>>, c) = 0
  OBVIOUS
<1>2. PICK t : t = [i \in DOMAIN <<>> |-> IF (<<>>[i].side = "borrow") = c
                                          THEN <<>>[i].amount ELSE 0]
  OBVIOUS
<1>3. DOMAIN <<>> = 1 .. 0
  OBVIOUS
<1>4. t = [i \in 1 .. 0 |-> t[i]]
  BY <1>2, <1>3
<1>5. t \in Seq(Int) /\ Len(t) = 0
  BY <1>4, SequenceOf
<1>6. SumAll(t) = 0
  <2>1. \A i \in 1 .. Len(t) : t[i] = 0
    BY <1>5
  <2> QED BY <1>5, <2>1, SumOfZeros
<1> QED BY <1>2, <1>6 DEF Total

\* Only what was decrypted is shown.
LEMMA ShownItems ==
    ASSUME NEW status, NEW items, NEW vault
    PROVE  Transform(Payload(status, items, vault)).items = IF status = "ok" THEN items ELSE <<>>
<1>1. PICK p : p = Payload(status, items, vault)
  OBVIOUS
<1>2. p = [status |-> status, items |-> items, vault |-> vault]
  BY <1>1 DEF Payload
<1>3. p.status = status /\ p.items = items
  BY <1>2
<1>4. [p EXCEPT !.items = <<>>].items = <<>>
  BY <1>2
<1>5. Transform(p) = IF status = "ok" THEN p ELSE [p EXCEPT !.items = <<>>]
  BY <1>3, Zenon DEF Transform
<1>6. CASE status = "ok"
  BY <1>1, <1>3, <1>5, <1>6
<1>7. CASE status # "ok"
  BY <1>1, <1>4, <1>5, <1>7
<1> QED BY <1>6, <1>7

\* The items that an answer shows add up to what was read, on either side.
LEMMA AnswerAddsUpWhatWasRead ==
    ASSUME NEW b \in Bridges, NEW collaterals,
           NEW supply \in [ToSet(Tokens) -> Readings], NEW borrow \in [ToSet(Tokens) -> Readings]
    PROVE  LET shown == Transform(FetchPositions(b, supply, borrow, collaterals)).items
           IN  /\ Total(shown, FALSE) = SumOfRead(b, supply)
               /\ Total(shown, TRUE) = SumOfRead(b, borrow)
<1> DEFINE shown == Transform(FetchPositions(b, supply, borrow, collaterals)).items
<1>1. b.account \in BOOLEAN /\ b.helpers \in BOOLEAN /\ b.tokens \in BOOLEAN /\ b.unlocked \in BOOLEAN
  BY DEF Bridges
<1>2. PICK locked, none, gone, ok : locked = "locked" /\ none = "empty" /\ gone = "unavailable" /\ ok = "ok"
  OBVIOUS
<1>3. locked # ok /\ none # ok /\ gone # ok
  BY <1>2
<1>4. ASSUME NEW st \in {locked, none, gone} PROVE Transform(EmptyPayload(st)).items = <<>>
  <2>1. st # "ok"
    BY <1>2, <1>3
  <2>2. EmptyPayload(st) = Payload(st, <<>>, <<>>)
    BY Zenon DEF EmptyPayload
  <2>3. PICK nil : nil = <<>>
    OBVIOUS
  <2>4. Transform(Payload(st, nil, nil)).items = IF st = "ok" THEN nil ELSE <<>>
    BY ShownItems
  <2> QED BY <2>1, <2>2, <2>3, <2>4
<1>5. CASE ~(b.account /\ b.helpers /\ b.tokens)
  <2>1. SumOfRead(b, supply) = 0 /\ SumOfRead(b, borrow) = 0
    BY <1>5, Zenon DEF SumOfRead, CanRead
  <2>2. \E st \in {locked, none, gone} :
          FetchPositions(b, supply, borrow, collaterals) = EmptyPayload(st)
    BY <1>2, <1>5, Zenon DEF FetchPositions
  <2>3. shown = <<>>
    BY <1>4, <2>2, Zenon
  <2> QED BY <2>1, <2>3, TotalOfNothing, Zenon
<1>6. CASE b.account /\ b.helpers /\ b.tokens
  <2>1. PICK answers : answers = MulticallAnswers(supply, borrow)
    OBVIOUS
  <2>2. PICK one, two : one = 1 /\ two = 2
    OBVIOUS
  <2>3. PICK x, y, vault : /\ x = WithoutZeros(Held(answers, one), b.unlocked)
                           /\ y = WithoutZeros(Held(answers, two), b.unlocked)
                           /\ vault = VaultPositions(collaterals, b.unlocked)
    OBVIOUS
  <2>4. PICK items : items = Sided(x, "supply") \o Sided(y, "borrow")
    OBVIOUS
  <2>5. FetchPositions(b, supply, borrow, collaterals)
          = IF x = <<>> /\ y = <<>> /\ vault = <<>> THEN EmptyPayload(none)
            ELSE Payload(IF b.unlocked THEN ok ELSE locked, items, vault)
    BY <1>2, <1>6, <2>1, <2>2, <2>3, <2>4, Zenon DEF FetchPositions
  <2>6. CASE b.unlocked
    <3>1. /\ SumOfRead(b, supply) = SumAll(Known(supply))
          /\ SumOfRead(b, borrow) = SumAll(Known(borrow))
      BY <1>6, <2>6, Zenon DEF SumOfRead, CanRead
    <3>2. x \in Seq(Int) /\ SumAll(x) = SumAll(Known(supply))
      <4>1. \A j \in 1 .. Len(Tokens) : Handles(answers, j)[one] = supply[Tokens[j]]
        BY <2>1, <2>2, AnswersAreReadings
      <4>2. one \in {1, 2}
        BY <2>2
      <4>3. x = WithoutZeros(Held(answers, one), TRUE)
        BY <2>3, <2>6
      <4> QED BY <4>1, <4>2, <4>3, ShownAddsUp
    <3>3. y \in Seq(Int) /\ SumAll(y) = SumAll(Known(borrow))
      <4>1. \A j \in 1 .. Len(Tokens) : Handles(answers, j)[two] = borrow[Tokens[j]]
        BY <2>1, <2>2, AnswersAreReadings
      <4>2. two \in {1, 2}
        BY <2>2
      <4>3. y = WithoutZeros(Held(answers, two), TRUE)
        BY <2>3, <2>6
      <4> QED BY <4>1, <4>2, <4>3, ShownAddsUp
    <3>4. CASE x = <<>> /\ y = <<>> /\ vault = <<>>
      <4>1. shown = <<>>
        BY <1>4, <2>5, <3>4, Zenon
      <4>2. SumAll(x) = 0 /\ SumAll(y) = 0
        BY <3>4, SumOfNone
      <4> QED BY <3>1, <3>2, <3>3, <4>1, <4>2, TotalOfNothing, Zenon
    <3>5. CASE ~(x = <<>> /\ y = <<>> /\ vault = <<>>)
      <4>1. FetchPositions(b, supply, borrow, collaterals) = Payload(ok, items, vault)
        BY <2>5, <2>6, <3>5, Zenon
      <4>2. Transform(Payload(ok, items, vault)).items = items
        BY <1>2, ShownItems
      <4>3. Total(items, FALSE) = SumAll(x) /\ Total(items, TRUE) = SumAll(y)
        BY <2>4, <3>2, <3>3, TotalsOfItems, Zenon
      <4> QED BY <3>1, <3>2, <3>3, <4>1, <4>2, <4>3, Zenon
    <3> QED BY <3>4, <3>5, Zenon
  <2>7. CASE ~b.unlocked
    <3>1. SumOfRead(b, supply) = 0 /\ SumOfRead(b, borrow) = 0
      BY <2>7, Zenon DEF SumOfRead, CanRead
    <3>2. CASE x = <<>> /\ y = <<>> /\ vault = <<>>
      BY <1>4, <2>5, <3>1, <3>2, TotalOfNothing, Zenon
    <3>3. CASE ~(x = <<>> /\ y = <<>> /\ vault = <<>>)
      <4>1. FetchPositions(b, supply, borrow, collaterals) = Payload(locked, items, vault)
        BY <2>5, <2>7, <3>3, Zenon
      <4>2. Transform(Payload(locked, items, vault)).items = <<>>
        BY <1>2, <1>3, ShownItems
      <4> QED BY <3>1, <4>1, <4>2, TotalOfNothing, Zenon
    <3> QED BY <3>2, <3>3, Zenon
  <2> QED BY <2>6, <2>7, Zenon
<1> QED BY <1>5, <1>6, Zenon

\* Numbers that are not negative add up to one that is not.
LEMMA SumIsNatural == ASSUME NEW v \in Seq(Nat) PROVE SumAll(v) \in Nat
<1>1. v \in Seq(Int)
  OBVIOUS
<1>2. PICK f, n : f = Sums(v) /\ n = Len(v)
  OBVIOUS
<1>3. /\ n \in Nat /\ f[0] = 0 /\ \A i \in 1 .. n : f[i] = f[i - 1] + v[i]
      /\ \A i \in 1 .. n : v[i] \in Nat
  BY <1>1, <1>2, SumsAre
<1> DEFINE S == { i \in 0 .. n : f[i] \in Nat }
<1>4. 0 \in S
  BY <1>3
<1>5. \A i \in 1 .. n : i - 1 \in S => i \in S
  BY <1>3
<1>6. 0 .. n \subseteq S
  <2> HIDE DEF S
  <2> QED BY <1>3, <1>4, <1>5, InductionTo
<1>7. f[n] \in Nat
  BY <1>3, <1>6
<1> QED BY <1>2, <1>7 DEF SumAll

LEMMA SumOfReadIsNatural ==
    ASSUME NEW b, NEW which \in [ToSet(Tokens) -> Readings]
    PROVE  SumOfRead(b, which) \in Nat
<1>1. SumAll(Known(which)) \in Nat
  BY KnownAreNumbers, SumIsNatural
<1>2. CASE CanRead(b)
  BY <1>1, <1>2 DEF SumOfRead
<1>3. CASE ~CanRead(b)
  BY <1>3 DEF SumOfRead
<1> QED BY <1>2, <1>3

LEMMA TwiceTheProduct == \A q \in Int, d \in Int : (2 * d) * q = 2 * (q * d)
OBVIOUS

\* A number less than one divisor away from a quotient is that quotient's.
LEMMA RoundedIsNear ==
    ASSUME NEW n \in Nat, NEW d \in Nat \ {0}
    PROVE  Rounded(n, d) \in Nat /\ Near(Rounded(n, d), n, d)
<1>1. PICK a, m, q, r : a = 2 * n + d /\ m = 2 * d /\ q = a \div m /\ r = a % m
  OBVIOUS
<1>2. a \in Nat /\ m \in Nat \ {0}
  BY <1>1
<1>3. q \in Nat /\ r \in 0 .. m - 1 /\ a = m * q + r
  <2>1. a \div m \in Nat /\ a % m \in 0 .. m - 1 /\ a = m * (a \div m) + (a % m)
    BY <1>2
  <2> QED BY <1>1, <2>1, Zenon
<1>4. m * q = 2 * (q * d)
  <2>1. q \in Int /\ d \in Int
    BY <1>3
  <2> QED BY <1>1, <2>1, TwiceTheProduct, Zenon
<1>5. PICK p : p = q * d
  OBVIOUS
<1>6. p \in Int
  BY <1>3, <1>5
<1>7. 2 * n - d <= 2 * p /\ 2 * p <= 2 * n + d
  BY <1>1, <1>3, <1>4, <1>5, <1>6
<1>8. Rounded(n, d) = q
  BY <1>1, Zenon DEF Rounded
<1> QED BY <1>3, <1>5, <1>7, <1>8, Zenon DEF Near

\* The nearest to the opposite is the opposite of the nearest.
LEMMA NearOpposite ==
    ASSUME NEW n \in Int, NEW a \in Int, NEW d \in Int, Near(n, a, d)
    PROVE  Near(-n, -a, d)
<1>1. (-n) * d = -(n * d)
  OBVIOUS
<1>2. PICK p, q : p = n * d /\ q = (-n) * d
  OBVIOUS
<1>3. p \in Int /\ q = -p
  BY <1>1, <1>2
<1>4. 2 * a - d <= 2 * p /\ 2 * p <= 2 * a + d
  BY <1>2, Zenon DEF Near
<1>5. 2 * (-a) - d <= 2 * q /\ 2 * q <= 2 * (-a) + d
  BY <1>3, <1>4
<1> QED BY <1>2, <1>5, Zenon DEF Near

\* More debt than supply fills the gauge.
LEMMA MoreDebtFills ==
    ASSUME NEW b \in Nat, NEW s \in Nat, s > 0, NEW q \in Nat, Near(q, 100 * b, s)
    PROVE  /\ b > s => q >= 100
           /\ b <= s => q <= 100
<1>1. PICK p : p = q * s
  OBVIOUS
<1>2. p \in Nat /\ 200 * b - s <= 2 * p /\ 2 * p <= 200 * b + s
  BY <1>1 DEF Near
<1>3. ASSUME b > s, q < 100 PROVE FALSE
  <2>1. q <= 99
    BY <1>3
  <2>2. q * s <= 99 * s
    BY <2>1
  <2> QED BY <1>1, <1>2, <1>3, <2>2
<1>4. ASSUME b <= s, q > 100 PROVE FALSE
  <2>1. q >= 101
    BY <1>4
  <2>2. q * s >= 101 * s
    BY <2>1
  <2> QED BY <1>1, <1>2, <1>4, <2>2
<1> QED BY <1>3, <1>4

\* What the screens are told of the items is what the items add up to.
LEMMA ItemsAreShown ==
    ASSUME NEW items, NEW s \in Nat, NEW b \in Nat,
           Total(items, FALSE) = s, Total(items, TRUE) = b
    PROVE  ShowsSums(NetValue(items), Gauge(items), s, b)
<1>1. Scale \in Nat \ {0}
  BY ReadingAssumption
<1>2. PICK net, gauge : net = NetValue(items) /\ gauge = Gauge(items)
  OBVIOUS
<1>3. net = IF s - b < 0 THEN -Rounded(100 * (-(s - b)), Scale) ELSE Rounded(100 * (s - b), Scale)
  BY <1>2, Zenon DEF NetValue
<1>4. gauge = IF s = 0 THEN 0 ELSE Lesser(Rounded(100 * b, s), 100)
  BY <1>2, Zenon DEF Gauge
<1>5. net \in Int /\ Near(net, 100 * (s - b), Scale)
  <2>1. CASE s - b < 0
    <3>1. PICK k, q : k = 100 * (-(s - b)) /\ q = Rounded(k, Scale)
      OBVIOUS
    <3>2. k \in Nat
      BY <2>1, <3>1
    <3>3. q \in Nat /\ Near(q, k, Scale)
      BY <1>1, <3>1, <3>2, RoundedIsNear, Zenon
    <3>4. net = -q
      BY <1>3, <2>1, <3>1, Zenon
    <3>5. q \in Int /\ k \in Int /\ Scale \in Int
      BY <1>1, <3>2, <3>3
    <3>6. Near(-q, -k, Scale)
      BY <3>3, <3>5, NearOpposite, Zenon
    <3>7. -k = 100 * (s - b) /\ -q \in Int
      BY <3>1, <3>5
    <3> QED BY <3>4, <3>6, <3>7, Zenon
  <2>2. CASE ~(s - b < 0)
    <3>1. PICK k : k = 100 * (s - b)
      OBVIOUS
    <3>2. k \in Nat
      BY <2>2, <3>1
    <3>3. Rounded(k, Scale) \in Nat /\ Near(Rounded(k, Scale), k, Scale)
      BY <1>1, <3>2, RoundedIsNear, Zenon
    <3>4. net = Rounded(k, Scale)
      BY <1>3, <2>2, <3>1, Zenon
    <3>5. net \in Nat /\ Near(net, k, Scale)
      BY <3>3, <3>4, Zenon
    <3>6. net \in Int
      BY <3>5
    <3> QED BY <3>1, <3>5, <3>6, Zenon
  <2> QED BY <2>1, <2>2
<1>6. /\ gauge \in Nat /\ (s = 0 => gauge = 0)
      /\ s > 0 => IF b > s THEN gauge = 100 ELSE Near(gauge, 100 * b, s)
  <2>1. CASE s = 0
    BY <1>4, <2>1
  <2>2. CASE s # 0
    <3>1. PICK k, q : k = 100 * b /\ q = Rounded(k, s)
      OBVIOUS
    <3>2. k \in Nat /\ s \in Nat \ {0}
      BY <2>2, <3>1
    <3>3. q \in Nat /\ Near(q, k, s)
      BY <3>1, <3>2, RoundedIsNear, Zenon
    <3>4. Near(q, 100 * b, s)
      BY <3>1, <3>3, Zenon
    <3>5. s > 0
      BY <3>2
    <3>6. (b > s => q >= 100) /\ (b <= s => q <= 100)
      BY <3>3, <3>4, <3>5, MoreDebtFills
    <3>7. gauge = IF q < 100 THEN q ELSE 100
      BY <1>4, <2>2, <3>1, Zenon DEF Lesser
    <3>8. CASE b > s
      BY <3>3, <3>5, <3>6, <3>7, <3>8
    <3>9. CASE ~(b > s)
      <4>1. q <= 100
        BY <3>6, <3>9
      <4>2. gauge = q
        BY <3>3, <3>7, <4>1
      <4>3. Near(gauge, 100 * b, s)
        BY <3>4, <4>2, Zenon
      <4> QED BY <2>2, <3>3, <3>9, <4>2, <4>3
    <3> QED BY <3>8, <3>9
  <2> QED BY <2>1, <2>2
<1> QED BY <1>2, <1>5, <1>6, Zenon DEF ShowsSums

\* The balance has its four fields, and the portfolio's are of the last reading.
PortfolioInv ==
    /\ DOMAIN walletBalance = {"native", "net", "ltv", "gauge"}
    /\ PortfolioIsLastRead

\* Whichever of the two requests answers, the other one's numbers stay.
LEMMA PortfolioInvHolds ==
    /\ PortfolioInit => PortfolioInv
    /\ PortfolioInv /\ [PortfolioNext]_portfolioVars => PortfolioInv'
<1> DEFINE z0 == [native |-> Nothing, net |-> Nothing, ltv |-> Nothing, gauge |-> Nothing]
<1>0. /\ DOMAIN z0 = {"native", "net", "ltv", "gauge"}
      /\ z0.net = Nothing /\ z0.gauge = Nothing /\ NoBalance = z0
  BY DEF NoBalance
<1>1. PortfolioInit => PortfolioInv
  BY <1>0 DEF PortfolioInit, PortfolioInv, PortfolioIsLastRead
<1> HIDE DEF z0
<1>2. SUFFICES ASSUME PortfolioInv, [PortfolioNext]_portfolioVars PROVE PortfolioInv'
  BY <1>1
<1>3. PICK w : w = walletBalance
  OBVIOUS
<1>4. /\ DOMAIN w = {"native", "net", "ltv", "gauge"}
      /\ IF lastRead = <<>> THEN w.net = Nothing /\ w.gauge = Nothing
         ELSE ShowsSums(w.net, w.gauge, lastRead[1], lastRead[2])
  BY <1>2, <1>3, Zenon DEF PortfolioInv, PortfolioIsLastRead
<1>5. ASSUME NEW b \in Bridges, NEW supply \in [ToSet(Tokens) -> Readings],
             NEW borrow \in [ToSet(Tokens) -> Readings], NEW collaterals,
             PositionsAnswer(b, supply, borrow, collaterals)
      PROVE  PortfolioInv'
  <2>1. PICK items, s, d : /\ items = Transform(FetchPositions(b, supply, borrow, collaterals)).items
                           /\ s = SumOfRead(b, supply) /\ d = SumOfRead(b, borrow)
    OBVIOUS
  <2>2. PICK k, l, g : k = NetValue(items) /\ l = LTV(items) /\ g = Gauge(items)
    OBVIOUS
  <2>3. PICK z, t : z = [w EXCEPT !.net = k, !.ltv = l, !.gauge = g] /\ t = <<s, d>>
    OBVIOUS
  <2>4. walletBalance' = z /\ lastRead' = t
    BY <1>3, <1>5, <2>1, <2>2, <2>3, Zenon DEF PositionsAnswer
  <2>5. s \in Nat /\ d \in Nat
    BY <2>1, SumOfReadIsNatural
  <2>6. Total(items, FALSE) = s /\ Total(items, TRUE) = d
    BY <2>1, AnswerAddsUpWhatWasRead, Zenon
  <2>7. ShowsSums(k, g, s, d)
    BY <2>2, <2>5, <2>6, ItemsAreShown, Zenon
  <2>8. DOMAIN z = {"native", "net", "ltv", "gauge"} /\ z.net = k /\ z.gauge = g
    BY <1>4, <2>3
  <2>9. t # <<>> /\ t[1] = s /\ t[2] = d
    BY <2>3
  <2> QED BY <2>4, <2>7, <2>8, <2>9, Zenon DEF PortfolioInv, PortfolioIsLastRead, ShowsSums, Near
<1>6. ASSUME NEW n, WalletBalanceAnswers(n) PROVE PortfolioInv'
  <2>1. PICK z : z = [w EXCEPT !.native = n]
    OBVIOUS
  <2>2. walletBalance' = z /\ lastRead' = lastRead
    BY <1>3, <1>6, <2>1, Zenon DEF WalletBalanceAnswers, BalanceKeeps
  <2>3. DOMAIN z = {"native", "net", "ltv", "gauge"} /\ z.net = w.net /\ z.gauge = w.gauge
    BY <1>4, <2>1
  <2> QED BY <1>4, <2>2, <2>3, Zenon DEF PortfolioInv, PortfolioIsLastRead, ShowsSums, Near
<1>7. CASE SignOut
  <2>1. walletBalance' = z0 /\ lastRead' = <<>>
    BY <1>0, <1>7, Zenon DEF SignOut
  <2> QED BY <1>0, <2>1, Zenon DEF PortfolioInv, PortfolioIsLastRead
<1>8. CASE DecryptFails \/ SignIn \/ UNCHANGED portfolioVars
  <2>1. UNCHANGED <<walletBalance, lastRead>>
    BY <1>8, Zenon DEF DecryptFails, SignIn, portfolioVars
  <2> QED BY <1>3, <1>4, <2>1, Zenon DEF PortfolioInv, PortfolioIsLastRead, ShowsSums, Near
<1>9. \/ \E b \in Bridges, supply, borrow \in [ToSet(Tokens) -> Readings],
            collaterals \in {<<>>, <<1>>, <<Unread, 0>>} :
               PositionsAnswer(b, supply, borrow, collaterals)
      \/ \E n \in Natives : WalletBalanceAnswers(n)
      \/ SignOut \/ DecryptFails \/ SignIn \/ UNCHANGED portfolioVars
  BY <1>2, Zenon DEF PortfolioNext
<1> QED BY <1>5, <1>6, <1>7, <1>8, <1>9, Zenon

\* For any number of tokens, any readings and any scale: the net value and the gauge
\* are those of one reading, the last, with every balance that was read and decrypted
\* in it, to the nearest hundredth, and the other request never writes over them:
\* _totals, calculateNetValue and the two writers of walletBalance.
THEOREM PortfolioIsAlwaysLastRead == PortfolioSpec => []PortfolioIsLastRead
<1>1. PortfolioInv => PortfolioIsLastRead
  BY DEF PortfolioInv
<1> QED BY <1>1, PortfolioInvHolds, PTL DEF PortfolioSpec

-----------------------------------------------------------------------------
(* The browser as it is composed (MCDapp). *)
\* The reading of positions is composed with a fetcher that rests.
ReaderIsAlone == scenario = "portfolio" => ~authStarted /\ timers = {} /\ flights = {}

\* The session's invariant, with the readings of positions among its steps.
ComposedInv ==
    /\ SessionInv
    /\ ReaderIsAlone

LEMMA ComposedStart == MCInit => ComposedInv
BY SessionStart DEF MCInit, ConnectInit, FetcherInit, ComposedInv, ReaderIsAlone

\* A reading of positions writes the store only while it accepts the data.
LEMMA PortfolioStep ==
    ASSUME SessionInv, ~authStarted, timers = {}, UNCHANGED fetchVars, PortfolioNext
    PROVE  SessionInv'
<1>1. ~authStarted' /\ timers' = {} /\ UNCHANGED flights
  BY DEF fetchVars
<1>2. SignedOutShowsNothing'
  <2>1. CASE authEnabled'
    BY <2>1 DEF SignedOutShowsNothing
  <2>2. CASE \E b, supply, borrow, collaterals : PositionsAnswer(b, supply, borrow, collaterals)
    BY <2>1, <2>2 DEF PositionsAnswer
  <2>3. CASE \E n : WalletBalanceAnswers(n)
    BY <2>1, <2>3 DEF WalletBalanceAnswers
  <2>4. CASE DecryptFails
    BY <2>4 DEF DecryptFails, SessionInv, SignedOutShowsNothing
  <2>5. CASE SignIn
    BY <2>1, <2>5 DEF SignIn, Enable
  <2>6. CASE SignOut
    BY <2>6 DEF SignOut, Disable, SignedOutShowsNothing
  <2> QED BY <2>2, <2>3, <2>4, <2>5, <2>6 DEF PortfolioNext
<1> QED BY <1>1, <1>2 DEF SessionInv, TimersBelong

\* A step of the composition is a step of one part and leaves the others alone, but
\* for the bus, which the session and the reading of positions share.
LEMMA ScreensAreApart ==
    MCNext => /\ UNCHANGED scenario
              /\ [AppNext]_appVars /\ [WalletNext]_walletVars /\ [LendNext]_lendVars
              /\ [CanvasNext]_canvasVars /\ [DeployNext]_deployVars
              /\ [BuilderNext]_builderVars /\ [PortfolioNext]_portfolioVars
              /\ \/ scenario # "portfolio" /\ [ConnectNext]_webVars
                 \/ scenario = "portfolio" /\ PortfolioNext /\ UNCHANGED <<fetchVars, connectVars>>
<1> SUFFICES ASSUME MCNext
             PROVE  /\ UNCHANGED scenario
                    /\ [AppNext]_appVars /\ [WalletNext]_walletVars /\ [LendNext]_lendVars
                    /\ [CanvasNext]_canvasVars /\ [DeployNext]_deployVars
                    /\ [BuilderNext]_builderVars /\ [PortfolioNext]_portfolioVars
                    /\ \/ scenario # "portfolio" /\ [ConnectNext]_webVars
                       \/ scenario = "portfolio" /\ PortfolioNext /\ UNCHANGED <<fetchVars, connectVars>>
  OBVIOUS
<1>1. PICK s \in Scenarios :
         /\ Rest(s)
         /\ s \in SessionScenarios => ConnectNext
         /\ s = "portfolio" => PortfolioNext
         /\ s = "wallet" => WalletNext
         /\ s \in {"shell", "dialog", "panels"} => AppNext
         /\ s = "lending" => LendNext
         /\ s \in {"simulate", "gestures"} => CanvasNext
         /\ s = "deploy" => DeployNext
         /\ s \in {"history", "editing"} => BuilderNext
  BY DEF MCNext, Scenarios, SessionScenarios
<1>2. scenario = s /\ UNCHANGED scenario
  BY <1>1 DEF Rest
<1>3. /\ [AppNext]_appVars /\ [WalletNext]_walletVars /\ [LendNext]_lendVars
      /\ [CanvasNext]_canvasVars /\ [DeployNext]_deployVars /\ [BuilderNext]_builderVars
      /\ [PortfolioNext]_portfolioVars
  BY <1>1 DEF Rest
<1>4. CASE s \in SessionScenarios
  BY <1>1, <1>2, <1>3, <1>4 DEF SessionScenarios
<1>5. CASE s = "portfolio"
  BY <1>1, <1>2, <1>3, <1>5 DEF Rest, SessionScenarios
<1>6. CASE s \notin SessionScenarios \cup {"portfolio"}
  <2>1. UNCHANGED webVars
    BY <1>1, <1>6 DEF Rest, webVars
  <2> QED BY <1>2, <1>3, <1>6, <2>1
<1> QED BY <1>4, <1>5, <1>6

LEMMA ComposedStep == ComposedInv /\ [MCNext]_mcVars => ComposedInv'
<1> SUFFICES ASSUME ComposedInv, [MCNext]_mcVars PROVE ComposedInv'
  OBVIOUS
<1>1. CASE UNCHANGED mcVars
  <2>1. UNCHANGED webVars /\ UNCHANGED scenario /\ UNCHANGED <<authStarted, timers, flights>>
    BY <1>1 DEF mcVars, webVars, fetchVars
  <2> QED BY <2>1, SessionStep DEF ComposedInv, ReaderIsAlone
<1>2. CASE MCNext
  <2>1. CASE scenario # "portfolio" /\ [ConnectNext]_webVars
    BY <1>2, <2>1, SessionStep, ScreensAreApart DEF ComposedInv, ReaderIsAlone
  <2>2. CASE scenario = "portfolio" /\ PortfolioNext /\ UNCHANGED <<fetchVars, connectVars>>
    <3>1. UNCHANGED fetchVars /\ UNCHANGED <<authStarted, timers, flights>>
      BY <2>2 DEF fetchVars
    <3> QED BY <1>2, <2>2, <3>1, PortfolioStep, ScreensAreApart DEF ComposedInv, ReaderIsAlone
  <2> QED BY <1>2, <2>1, <2>2, ScreensAreApart
<1> QED BY <1>1, <1>2

\* The theorems above hold of the browser side as it is composed: whichever of its
\* parts moves, what each of them promises is kept.
THEOREM DappKeepsItsPromises ==
    MCSpec =>
        /\ [](/\ SignedOutShowsNothing /\ PollingFollowsTheSession /\ DialogWaitsForAFlow
              /\ SessionFollowsAccount /\ DoneWasExecuted /\ SimulationEnds
              /\ DeployToastIsHonest /\ PortfolioIsLastRead)
        /\ UndoLosesNothing
<1>1. MCInit => /\ AppInit /\ WalletInit /\ LendInit /\ CanvasInit /\ DeployInit
                /\ BuilderInit /\ PortfolioInit
  BY DEF MCInit
<1>2. UNCHANGED mcVars => /\ UNCHANGED appVars /\ UNCHANGED walletVars /\ UNCHANGED lendVars
                          /\ UNCHANGED canvasVars /\ UNCHANGED deployVars
                          /\ UNCHANGED builderVars /\ UNCHANGED portfolioVars
  BY DEF mcVars
<1>3. [MCNext]_mcVars => /\ [AppNext]_appVars /\ [WalletNext]_walletVars /\ [LendNext]_lendVars
                         /\ [CanvasNext]_canvasVars /\ [DeployNext]_deployVars
                         /\ [BuilderNext]_builderVars /\ [PortfolioNext]_portfolioVars
  BY <1>2, ScreensAreApart
<1>4. MCSpec => /\ DialogSpec /\ WalletSpec /\ LendSpec /\ CanvasSpec /\ DeploySpec
                /\ BuilderSpec /\ PortfolioSpec
  BY <1>1, <1>3, PTL DEF MCSpec, DialogSpec, WalletSpec, LendSpec, CanvasSpec, DeploySpec,
                         BuilderSpec, PortfolioSpec
<1>5. ComposedInv => SignedOutShowsNothing /\ PollingFollowsTheSession
  BY DEF ComposedInv, SessionInv, TimersBelong, Fits, PollingFollowsTheSession
<1>6. MCSpec => [](SignedOutShowsNothing /\ PollingFollowsTheSession)
  BY <1>5, ComposedStart, ComposedStep, PTL DEF MCSpec
<1> QED BY <1>4, <1>6, DialogAlwaysWaits, SessionAlwaysFollows, DoneWasAlwaysExecuted,
           SimulationAlwaysEnds, DeployToastStaysHonest, UndoNeverLoses,
           PortfolioIsAlwaysLastRead, PTL
=============================================================================
