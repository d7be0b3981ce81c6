---------------------------- MODULE ConnectFlow ----------------------------
(***************************************************************************)
(* Signing in (forge-bridge-integration, connect-interceptor.js, and       *)
(* forge-bridge's wallet.js, fhe.js and hub.js as it uses them): connect   *)
(* the wallet, switch its chain, log in, grant an FHE permit, and start    *)
(* the authenticated polling.  The prompts of several flows may be open at *)
(* once, because a sign-out forgets the flow without ending it.            *)
(***************************************************************************)
EXTENDS DataFetcher

CONSTANTS Flows

VARIABLES
    flowInProgress,     \* connectFlowInProgress
    flow,               \* what each flow waits for
    account,            \* the wallet has an account
    rightChain,         \* the wallet's chain is REQUIRED_CHAIN_ID
    session,            \* the browser holds a session cookie
    logouts,            \* a logout was sent and has not been answered
    granted             \* the FHE adapter holds a permit

connectVars == <<flowInProgress, flow, account, rightChain, session, logouts,
                 granted>>

Steps == {"idle", "connecting", "switching", "signing", "permitting", "late"}

\* The sources the back end answers only for a session.
Protected == {"activities", "strategies", "nodeTypes"}

ConnectInit ==
    /\ BusInit /\ FetcherInit
    /\ flowInProgress = FALSE /\ flow = [f \in Flows |-> "idle"]
    /\ account = FALSE /\ rightChain \in BOOLEAN /\ session = FALSE /\ logouts = FALSE /\ granted = FALSE

ConnectTypeOK ==
    /\ BusTypeOK /\ FetcherTypeOK
    /\ flow \in [Flows -> Steps]
    /\ {flowInProgress, account, rightChain, session, logouts, granted} \subseteq BOOLEAN

-----------------------------------------------------------------------------
Goes(f, step) == flow' = [flow EXCEPT ![f] = step]

\* Mutant: a flow that failed keeps the way closed.
FailKeepsFlag(f, next) == Goes(f, next) /\ SetError /\ UNCHANGED flowInProgress

\* The rejection handler of startConnectFlow.
FlowFails(f, next) == Goes(f, next) /\ SetError /\ flowInProgress' = FALSE

\* startConnectFlow, from the connect dialog.
StartConnectFlow(f) ==
    /\ ~flowInProgress /\ flow[f] = "idle"
    /\ flowInProgress' = TRUE
    /\ Goes(f, "connecting")
    /\ UNCHANGED <<account, rightChain, session, logouts, granted,
                   fetchVars, busVars>>

\* wallet.connect answers.  The hub, watching the account, sends a logout.
WalletConnects(f) ==
    /\ flow[f] = "connecting"
    /\ account' = TRUE
    /\ logouts' = (logouts \/ ~account)
    /\ IF rightChain THEN Goes(f, "signing") /\ SetWallet(TRUE, "right")
       ELSE Goes(f, "switching") /\ UNCHANGED wallet
    /\ UNCHANGED <<flowInProgress, rightChain, session, granted, fetchVars,
                   authEnabled, filled, unlocked, errorCount>>

\* switchNetwork, or its wallet_addEthereumChain.  The dApp is told the chain
\* of the connection, not the one switched to.
ChainSwitches(f) ==
    /\ flow[f] = "switching"
    /\ rightChain' = TRUE
    /\ Goes(f, "signing") /\ SetWallet(TRUE, "wrong")
    /\ UNCHANGED <<flowInProgress, account, session, logouts,
                   granted, fetchVars, authEnabled, filled, unlocked, errorCount>>

\* login: nonce, signature, wallet-login; it needs the account.
LogsIn(f) ==
    /\ flow[f] = "signing" /\ account
    /\ session' = TRUE
    /\ Goes(f, "permitting")
    /\ UNCHANGED <<flowInProgress, account, rightChain, logouts,
                   granted, fetchVars, busVars>>

\* permitGrant wins the race with its timer: the bus is told, ForgeProvider's
\* listener starts the polling, and the flow ends.
PermitIsGranted(f) ==
    /\ flow[f] = "permitting" /\ HasSerial(AuthedPolled)
    /\ granted' = TRUE /\ unlocked' = TRUE
    /\ StartAuthenticated /\ Enable
    /\ Goes(f, "idle") /\ flowInProgress' = FALSE
    /\ UNCHANGED <<account, rightChain, session, logouts,
                   publicStarted, demoStarted, hidden, hiddenPaused, watching,
                   filled, wallet, errorCount>>

\* A prompt refused, a request failed, or no account.  A switch that fails is
\* reported twice.
PromptFails(f) ==
    /\ flow[f] \in {"connecting", "switching", "signing", "permitting"}
    /\ IF flow[f] = "switching"
       THEN /\ errorCount' = RecordError(RecordError(errorCount))
            /\ Goes(f, "idle") /\ flowInProgress' = FALSE
       ELSE FlowFails(f, "idle")
    /\ UNCHANGED <<account, rightChain, session, logouts, granted,
                   fetchVars, authEnabled, filled, wallet, unlocked>>

\* The timer wins: the flow fails, and the permit's prompt stays open.
PermitTimesOut(f) ==
    /\ flow[f] = "permitting"
    /\ FlowFails(f, "late")
    /\ UNCHANGED <<account, rightChain, session, logouts, granted,
                   fetchVars, authEnabled, filled, wallet, unlocked>>

LatePermit(f) ==
    /\ flow[f] = "late"
    /\ granted' \in {TRUE, granted}
    /\ Goes(f, "idle")
    /\ UNCHANGED <<flowInProgress, account, rightChain, session,
                   logouts, fetchVars, busVars>>

-----------------------------------------------------------------------------
\* handleDisconnect.  The flows that run are not ended.
HandleDisconnect ==
    /\ StopAuthenticated /\ Disable
    /\ SetWallet(FALSE, "none")
    /\ unlocked' = FALSE
    /\ flowInProgress' = FALSE

\* An API call met an ended session and could not renew it: error:auth.
AuthFails ==
    /\ ~session /\ \E f \in flights : f.source \in Protected
    /\ SetError
    /\ HandleDisconnect
    /\ UNCHANGED <<flow, account, rightChain, session, logouts,
                   granted, publicStarted, demoStarted, hidden, hiddenPaused,
                   watching, flights>>

\* ... or could: refreshJwt logs in again.
SessionIsRenewed ==
    /\ ~session /\ account /\ \E f \in flights : f.source \in Protected
    /\ session' = TRUE
    /\ UNCHANGED <<flowInProgress, flow, account, rightChain,
                   logouts, granted, fetchVars, busVars>>

\* The cookie's age, or the logout that the hub sent, whenever it arrives.
SessionEnds ==
    /\ session' = FALSE
    /\ \/ session /\ UNCHANGED logouts
       \/ logouts /\ logouts' = FALSE
    /\ UNCHANGED <<flowInProgress, flow, account, rightChain,
                   granted, fetchVars, busVars>>

\* The wallet's own menu: another account, none, or another chain.  Only the
\* hub hears of an account; the bus and the polling go on.
WalletChanges ==
    /\ \/ account /\ logouts' = TRUE /\ UNCHANGED <<account, rightChain>>
       \/ account /\ account' = FALSE /\ UNCHANGED <<logouts, rightChain>>
       \/ rightChain' = ~rightChain /\ UNCHANGED <<logouts, account>>
    /\ UNCHANGED <<flowInProgress, flow, session, granted,
                   fetchVars, busVars>>

\* computePermitState, after PERMIT_DURATION_MS: only the adapter forgets.
PermitExpires ==
    /\ granted /\ granted' = FALSE
    /\ UNCHANGED <<flowInProgress, flow, account, rightChain,
                   session, logouts, fetchVars, busVars>>

FlowAnswers(f) ==
    \/ WalletConnects(f) \/ ChainSwitches(f) \/ LogsIn(f)
    \/ PermitIsGranted(f) \/ PromptFails(f) \/ PermitTimesOut(f)

ConnectNext ==
    \/ \E f \in Flows : StartConnectFlow(f) \/ FlowAnswers(f) \/ LatePermit(f)
    \/ AuthFails \/ SessionIsRenewed \/ SessionEnds \/ WalletChanges \/ PermitExpires
    \/ FetcherNext /\ UNCHANGED connectVars

-----------------------------------------------------------------------------
\* A connect always gives way to the next one: whatever prompt is refused,
\* times out or is signed out under, the flag that refuses a second flow goes
\* down again (connect-interceptor.js:192, 246 and 269).
ConnectGivesWay == flowInProgress ~> ~flowInProgress

ConnectFairness == \A f \in Flows : WF_<<connectVars, fetchVars, busVars>>(FlowAnswers(f))
=============================================================================
