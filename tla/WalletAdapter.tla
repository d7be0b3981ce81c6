---------------------------- MODULE WalletAdapter ----------------------------
(***************************************************************************)
(* packages/forge-bridge: createBridge (hub.js), the wallet adapter        *)
(* (wallet.js) and the permit of the FHE adapter (fhe.js).  The wallet is  *)
(* external: its account and its chain change by themselves.  The session  *)
(* is a cookie: whose it is depends on the order in which the answers of   *)
(* logins and logouts arrive.                                              *)
(***************************************************************************)
EXTENDS Naturals, SequencesExt

CONSTANTS
    Accounts, NoAccount,
    Logins,         \* calls of login and refreshJwt that may be under way at once
    Connectors,     \* the ids of the connectors wagmi knows
    ConnectorIds,   \* those a caller may ask for
    MaxLogouts,     \* bound: logouts under way
    PermitLife      \* PERMIT_DURATION_MS, in ticks

ASSUME WalletAssumption == MaxLogouts \in Nat \ {0} /\ PermitLife \in Nat \ {0}

VARIABLES
    adapters,       \* what createBridge has made, in order
    bridgeError,    \* the part the bridge's error is about, or "none"
    watched,        \* the hub's watcher of the account is registered
    wagmi,          \* the wallet's account, and whether its chain is the right one
    switching,      \* what switchNetwork waits for
    logins,         \* the logins under way
    leaving,        \* logouts sent and not answered
    cookie,         \* whose session the browser holds; history: whether it is excused
    cofheClient, permitAge, granting

sessionVars == <<wagmi, logins, leaving, cookie>>
permitVars == <<cofheClient, permitAge, granting>>
walletVars == <<adapters, bridgeError, watched, switching, sessionVars, permitVars>>

NoLogin == [step |-> "idle", account |-> NoAccount, signer |-> NoAccount, late |-> FALSE]
SignedOut == [account |-> NoAccount, excused |-> FALSE]

\* createBridge's parts, in the order in which they are made.
Parts == <<"config", "wallet", "api", "fhe", "contract">>
Made(part) == part \in ToSet(adapters)

WalletTypeOK ==
    LET some == Accounts \cup {NoAccount} IN
    /\ ToSet(adapters) \subseteq ToSet(Parts) /\ bridgeError \in ToSet(Parts) \cup {"none"}
    /\ watched \in BOOLEAN /\ wagmi \in [account : some, right : BOOLEAN]
    /\ switching \in {"nothing", "switch", "add"} /\ leaving \in 0 .. MaxLogouts
    /\ logins \in [Logins -> [step : {"idle", "nonce", "sign", "post"}, account : some,
                              signer : some, late : BOOLEAN]]
    /\ cookie \in [account : some, excused : BOOLEAN]
    /\ cofheClient \in BOOLEAN /\ granting \in {"nothing", "client", "connected"}
    /\ permitAge \in 0 .. PermitLife

\* A page that is loaded finds no account, and the session of an earlier one.
WalletInit ==
    /\ adapters = <<>> /\ bridgeError = "none" /\ watched = FALSE
    /\ wagmi = [account |-> NoAccount, right |-> FALSE] /\ switching = "nothing"
    /\ logins = [c \in Logins |-> NoLogin] /\ leaving = 0
    /\ \E a \in Accounts \cup {NoAccount} : cookie = [account |-> a, excused |-> FALSE]
    /\ cofheClient = FALSE /\ permitAge = PermitLife /\ granting = "nothing"

\* The first part that fails ends it with what there is.  The watcher comes last,
\* and its failure is swallowed.
CreateBridge(failing, watching) ==
    /\ adapters = <<>> /\ bridgeError = "none"
    /\ adapters' = IF failing = "none" THEN Parts
                   ELSE SubSeq(Parts, 1, SelectInSeq(Parts, LAMBDA p : p = failing) - 1)
    /\ bridgeError' = failing
    /\ watched' = (failing = "none" /\ watching)
    /\ UNCHANGED <<switching, sessionVars, permitVars>>

-----------------------------------------------------------------------------
\* Mutant: the watcher asks for a logout when the account is gone.
LogoutWhenGone(a) == a = NoAccount

\* Which changes of the account the hub's watcher asks a logout for.
LogoutFor(a) == a # NoAccount

AccountBecomes(a) ==
    /\ wagmi.account # a /\ wagmi' = [wagmi EXCEPT !.account = a]
    /\ leaving' = IF watched /\ LogoutFor(a) THEN leaving + 1 ELSE leaving
    /\ leaving' <= MaxLogouts
    /\ logins' = [c \in Logins |-> [logins[c] EXCEPT !.late = @ \/ logins[c].step = "post"]]
    /\ UNCHANGED <<adapters, bridgeError, watched, switching, cookie, permitVars>>

\* connect: an unknown id is an error; the wallet answers with its account.
ConnectWallet(id, a) == Made("wallet") /\ id \in Connectors /\ a # NoAccount /\ AccountBecomes(a)

\* disconnect, or in the wallet: nothing becomes of the session.
DisconnectWallet == AccountBecomes(NoAccount)

\* In the wallet.
AccountChanges(a) == wagmi.account # NoAccount /\ a # NoAccount /\ AccountBecomes(a)

SwitchNetwork ==
    /\ Made("wallet") /\ wagmi.account # NoAccount /\ switching = "nothing"
    /\ switching' = "switch"
    /\ UNCHANGED <<adapters, bridgeError, watched, sessionVars, permitVars>>

\* The wallet has switched, does not know the chain, which it is then asked to
\* add, or refuses.
SwitchAnswered(right, next) ==
    /\ switching # "nothing" /\ next \in {"nothing", "add"} /\ (right => next = "nothing")
    /\ next = "add" => switching = "switch"
    /\ switching' = next /\ wagmi' = [wagmi EXCEPT !.right = @ \/ right]
    /\ UNCHANGED <<adapters, bridgeError, watched, logins, leaving, cookie, permitVars>>

-----------------------------------------------------------------------------
LoginGoes(c, login) ==
    /\ logins' = [logins EXCEPT ![c] = login]
    /\ UNCHANGED <<adapters, bridgeError, watched, switching, wagmi, leaving, permitVars>>

\* login, and refreshJwt, which is login, for the account of this moment.
Login(c) ==
    /\ Made("wallet") /\ wagmi.account # NoAccount /\ logins[c].step = "idle"
    /\ LoginGoes(c, [NoLogin EXCEPT !.step = "nonce", !.account = wagmi.account])
    /\ UNCHANGED cookie

NonceAnswered(c) ==
    logins[c].step = "nonce" /\ LoginGoes(c, [logins[c] EXCEPT !.step = "sign"]) /\ UNCHANGED cookie

\* The wallet signs with the account it has by now.
MessageSigned(c) ==
    /\ logins[c].step = "sign" /\ wagmi.account # NoAccount
    /\ LoginGoes(c, [logins[c] EXCEPT !.step = "post", !.signer = wagmi.account])
    /\ UNCHANGED cookie

\* The server takes an account's own signature only.
LoginAnswered(c) ==
    /\ logins[c].step = "post" /\ logins[c].signer = logins[c].account
    /\ cookie' = [account |-> logins[c].account, excused |-> logins[c].late]
    /\ LoginGoes(c, NoLogin)

\* A request, the wallet or the server says no.
LoginFails(c) == logins[c].step # "idle" /\ LoginGoes(c, NoLogin) /\ UNCHANGED cookie

\* logout, by a caller; a request that fails is as good as one that does not.
LogoutAsked ==
    /\ Made("wallet") /\ leaving < MaxLogouts /\ leaving' = leaving + 1
    /\ UNCHANGED <<adapters, bridgeError, watched, switching, wagmi, logins, cookie, permitVars>>

LogoutEnds(lost) ==
    /\ leaving > 0 /\ leaving' = leaving - 1
    /\ cookie' = IF lost THEN [cookie EXCEPT !.excused = TRUE] ELSE SignedOut
    /\ UNCHANGED <<adapters, bridgeError, watched, switching, wagmi, logins, permitVars>>

-----------------------------------------------------------------------------
Unlocked == permitAge < PermitLife
PermitGoes(client, age, step) ==
    /\ cofheClient' = client /\ permitAge' = age /\ granting' = step
    /\ UNCHANGED <<adapters, bridgeError, watched, switching, sessionVars>>

\* permitGrant: the client is there before it is connected, and stays when the
\* grant fails.
PermitGrant == Made("fhe") /\ granting = "nothing" /\ PermitGoes(TRUE, permitAge, "client")
ClientConnected == granting = "client" /\ PermitGoes(cofheClient, permitAge, "connected")
PermitGranted == granting = "connected" /\ PermitGoes(cofheClient, 0, "nothing")
GrantFails == granting # "nothing" /\ PermitGoes(cofheClient, permitAge, "nothing")

\* computePermitState: a permit that has run out is locked when it is read.
PermitTick == Unlocked /\ PermitGoes(cofheClient, permitAge + 1, granting)

WalletNext ==
    \/ \E part \in ToSet(Parts) \cup {"none"}, watching \in BOOLEAN : CreateBridge(part, watching)
    \/ \E a \in Accounts : AccountChanges(a) \/ \E id \in ConnectorIds : ConnectWallet(id, a)
    \/ DisconnectWallet \/ SwitchNetwork \/ LogoutAsked
    \/ \E right \in BOOLEAN, next \in {"nothing", "add"} : SwitchAnswered(right, next)
    \/ \E c \in Logins : \/ Login(c) \/ NonceAnswered(c) \/ MessageSigned(c)
                         \/ LoginAnswered(c) \/ LoginFails(c)
    \/ \E lost \in BOOLEAN : LogoutEnds(lost)
    \/ PermitGrant \/ ClientConnected \/ PermitGranted \/ GrantFails \/ PermitTick

-----------------------------------------------------------------------------
\* "When the wallet account changes ... we clear it proactively" (hub.js:236-239):
\* with nothing on its way, a session is not of another account than the wallet's,
\* except when its login was signed before the change and answered after it, or a
\* logout failed.
SessionFollowsAccount ==
    watched /\ leaving = 0 /\ wagmi.account # NoAccount /\ ~cookie.excused =>
        cookie.account \in {NoAccount, wagmi.account}
=============================================================================
