---------------------------- MODULE AuthService ----------------------------
(***************************************************************************)
(* Wallet login of the back end (backend/apps/src/auth, users).            *)
(*                                                                         *)
(* A wallet asks for a nonce, signs it, and presents the signature.  login *)
(* awaits the database three or four times, so every request is a small    *)
(* state machine and any other request may run between two of its steps.   *)
(* A nonce row is keyed by the lower-case address; a user row is keyed by  *)
(* the address as the client spelled it.  Time passes in units of the      *)
(* nonce's lifetime (five minutes).                                        *)
(***************************************************************************)
EXTENDS Naturals, FiniteSets

CONSTANTS
    Wallets,        \* addresses, lower-cased
    Spellings,      \* letter cases a client may write an address in
    Requests,       \* login calls
    NoRow,          \* "no row" in the nonce table
    NonceLife,      \* lifetime of a nonce
    SessionLife,    \* lifetime of the auth_token cookie
    MaxNonces, MaxAuthTime, MaxAuthFaults   \* bounds

ASSUME AuthAssumption ==
    /\ NonceLife \in Nat /\ SessionLife \in Nat
    /\ MaxNonces \in Nat /\ MaxAuthTime \in Nat /\ MaxAuthFaults \in Nat

VARIABLES
    nonces,     \* table auth_nonces: wallet -> row or NoRow
    minted,     \* number of nonces generated; each uuid is fresh
    users,      \* table users: the spelled addresses that have a row
    login,      \* the login calls
    cookie,     \* the browser's auth_token: who it names and when it ends
    authTime, authFaults,
    spent       \* history: nonces a delete has removed from the table

authVars == <<nonces, minted, users, login, cookie, authTime, authFaults, spent>>

Address == Wallets \X Spellings
Lower(address) == address[1]
Nonces == 1 .. MaxNonces
Row == [nonce : Nonces, expires : 0 .. MaxAuthTime + NonceLife]
NoCookie == [wallet |-> NoRow, expires |-> 0]
Unsigned == "malformed"

Steps == {"new", "read", "expired", "rejected", "consume", "find", "create",
          "done", "failed"}
Call == [step : Steps, address : Address, nonce : Nonces,
         signer : Wallets \cup {Unsigned}]

AuthTypeOK ==
    /\ nonces \in [Wallets -> Row \cup {NoRow}]
    /\ minted \in 0 .. MaxNonces
    /\ users \in SUBSET Address
    /\ \A r \in Requests : login[r].step = "new" \/ login[r] \in Call
    /\ cookie.wallet \in Wallets \cup {NoRow}
    /\ spent \in SUBSET Nonces

AuthInit ==
    /\ nonces = [w \in Wallets |-> NoRow]
    /\ minted = 0
    /\ users = {}
    /\ login = [r \in Requests |-> [step |-> "new"]]
    /\ cookie = NoCookie
    /\ authTime = 0 /\ authFaults = 0
    /\ spent = {}

-----------------------------------------------------------------------------
To(r, step) == login' = [login EXCEPT ![r].step = step]

\* A database call that fails; login reports it, or ignores it.
Fault == authFaults < MaxAuthFaults /\ authFaults' = authFaults + 1

\* generateNonce: the upsert replaces the wallet's row, whatever it held.
GenerateNonce(w) ==
    /\ minted < MaxNonces
    /\ minted' = minted + 1
    /\ nonces' = [nonces EXCEPT ![w] =
          [nonce |-> minted + 1, expires |-> authTime + NonceLife]]
    /\ UNCHANGED <<users, login, cookie, authTime, authFaults, spent>>

\* A client calls login with a nonce that was handed out and a signature.
CallLogin(r, address, nonce, signer) ==
    /\ login[r].step = "new"
    /\ login' = [login EXCEPT ![r] = [step |-> "read", address |-> address,
                                      nonce |-> nonce, signer |-> signer]]
    /\ UNCHANGED <<nonces, minted, users, cookie, authTime, authFaults, spent>>

\* What login decides from the row it read, in the order of its checks.
Verdict(row, call) ==
    CASE row = NoRow \/ row.nonce # call.nonce -> "failed"
      [] row.expires < authTime                -> "expired"
      [] call.signer = Unsigned                -> "failed"
      [] call.signer # Lower(call.address)     -> "rejected"
      [] OTHER                                 -> "consume"

ReadNonce(r) ==
    /\ login[r].step = "read"
    /\ \/ /\ To(r, Verdict(nonces[Lower(login[r].address)], login[r]))
          /\ UNCHANGED authFaults
       \/ Fault /\ To(r, "failed")
    /\ UNCHANGED <<nonces, minted, users, cookie, authTime, spent>>

\* Every delete is by wallet and its result is ignored: it may fail, and it
\* may remove a row that is newer than the one login read.
AfterDelete(step) == IF step = "consume" THEN "find" ELSE "failed"

\* Mutant: the delete filters on an address that is not lower-cased.
DeleteRowMisses(w) ==
    /\ UNCHANGED nonces
    /\ spent' = IF nonces[w] = NoRow THEN spent ELSE spent \cup {nonces[w].nonce}

DeleteRow(w) ==
    /\ nonces' = [nonces EXCEPT ![w] = NoRow]
    /\ spent' = IF nonces[w] = NoRow THEN spent ELSE spent \cup {nonces[w].nonce}

DeleteNonce(r) ==
    /\ login[r].step \in {"expired", "rejected", "consume"}
    /\ To(r, AfterDelete(login[r].step))
    /\ \/ DeleteRow(Lower(login[r].address)) /\ UNCHANGED authFaults
       \/ Fault /\ UNCHANGED <<nonces, spent>>
    /\ UNCHANGED <<minted, users, cookie, authTime>>

\* The token and the cookie are made of the user row: its address as spelled.
Issue(r) ==
    /\ To(r, "done")
    /\ cookie' = [wallet |-> Lower(login[r].address),
                  expires |-> authTime + SessionLife]

\* getUserByWalletAddress(...).catch(() => null): an error counts as "none".
FindUser(r) ==
    /\ login[r].step = "find"
    /\ \/ login[r].address \in users /\ Issue(r) /\ UNCHANGED authFaults
       \/ /\ login[r].address \notin users
          /\ To(r, "create")
          /\ UNCHANGED <<cookie, authFaults>>
       \/ Fault /\ To(r, "create") /\ UNCHANGED cookie
    /\ UNCHANGED <<nonces, minted, users, authTime, spent>>

\* users.wallet_address is UNIQUE: a second insert fails and login with it.
CreateUser(r) ==
    /\ login[r].step = "create"
    /\ \/ /\ login[r].address \notin users
          /\ users' = users \cup {login[r].address}
          /\ Issue(r)
       \/ /\ login[r].address \in users
          /\ To(r, "failed")
          /\ UNCHANGED <<users, cookie>>
    /\ UNCHANGED <<nonces, minted, authTime, authFaults, spent>>

Logout ==
    /\ cookie # NoCookie
    /\ cookie' = NoCookie
    /\ UNCHANGED <<nonces, minted, users, login, authTime, authFaults, spent>>

AuthTick ==
    /\ authTime < MaxAuthTime
    /\ authTime' = authTime + 1
    /\ cookie' = IF cookie.expires <= authTime' THEN NoCookie ELSE cookie
    /\ UNCHANGED <<nonces, minted, users, login, authFaults, spent>>

AuthNext ==
    \/ \E w \in Wallets : GenerateNonce(w)
    \/ \E r \in Requests, a \in Address, n \in 1 .. minted,
          s \in Wallets \cup {Unsigned} : CallLogin(r, a, n, s)
    \/ \E r \in Requests : ReadNonce(r)
    \/ \E r \in Requests : DeleteNonce(r)
    \/ \E r \in Requests : FindUser(r)
    \/ \E r \in Requests : CreateUser(r)
    \/ Logout
    \/ AuthTick

-----------------------------------------------------------------------------
(***************************************************************************)
(* "Consume the nonce (prevent replay)", auth.service.ts:118: a nonce that *)
(* a delete has removed lets no later read succeed, and the wallet's       *)
(* current row never holds one again.  Two logins that both read the row   *)
(* before either deletes it do share a nonce, and a delete that fails      *)
(* leaves it usable: neither is excluded here.                             *)
(***************************************************************************)
SpentNoncesOpenNothing ==
    /\ \A w \in Wallets : nonces[w] = NoRow \/ nonces[w].nonce \notin spent
    /\ \A r, q \in Requests :
          /\ login[r].step = "done" /\ login[q].step = "read"
          /\ login[r].nonce = login[q].nonce
          /\ authFaults = 0
          => Verdict(nonces[Lower(login[q].address)], login[q]) # "consume"

(***************************************************************************)
(* A session names a wallet that has signed: some call that read a live    *)
(* nonce with that wallet's signature went through, and left a user row.   *)
(***************************************************************************)
SessionsAreSigned ==
    cookie # NoCookie =>
        \E r \in Requests :
            /\ login[r].step = "done"
            /\ login[r].signer = cookie.wallet
            /\ Lower(login[r].address) = cookie.wallet
            /\ login[r].address \in users

(***************************************************************************)
(* A login is genuine: neither a replay of a nonce nor without a signature *)
(* (auth.service.ts:90 to 124).                                            *)
(***************************************************************************)
LoginsAreGenuine == SpentNoncesOpenNothing /\ SessionsAreSigned
=============================================================================
