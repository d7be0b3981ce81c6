--------------------------- MODULE BackendProofs ---------------------------
(***************************************************************************)
(* The invariants of the back end's services, for every set of wallets,    *)
(* calls, blocks, proposals and every bound: each for the service by       *)
(* itself, whose actions are the only ones that touch its variables.       *)
(***************************************************************************)
EXTENDS MCBackend, FiniteSetTheorems, SequenceTheorems, NaturalsInduction,
        WellFoundedInduction, TLAPS

-----------------------------------------------------------------------------
(* Wallet login.                                                           *)

AuthSpec == AuthInit /\ [][AuthNext]_authVars

\* A call whose row has been read and not turned down.
Accepted(r) == login[r].step \in {"consume", "find", "create", "done"}

\* A call past the deletion of its row.
Consumed(r) == login[r].step \in {"find", "create", "done"}

RowsOf(n) == { w \in Wallets : nonces[w] # NoRow /\ nonces[w].nonce = n }

\* Nonces are numbered in the order they are handed out, one row each.
NoncesInv ==
    /\ minted \in 0 .. MaxNonces /\ authFaults \in Nat
    /\ \A w \in Wallets : nonces[w] # NoRow => nonces[w].nonce \in 1 .. minted
    /\ \A v, w \in Wallets :
          nonces[v] # NoRow /\ nonces[w] # NoRow /\ nonces[v].nonce = nonces[w].nonce
          => v = w
    /\ spent \subseteq 1 .. minted
    /\ \A w \in Wallets : nonces[w] = NoRow \/ nonces[w].nonce \notin spent

\* What a call in progress knows: its nonce was handed out, an accepted one is
\* signed by its own wallet, a nonce still in the table is in that wallet's
\* row, and is gone once the row was deleted.
CallInv(r) ==
    /\ login[r].step # "new" => login[r] \in Call /\ login[r].nonce \in 1 .. minted
    /\ Accepted(r) =>
          /\ login[r].signer = Lower(login[r].address)
          /\ RowsOf(login[r].nonce) \subseteq {Lower(login[r].address)}
    /\ Consumed(r) /\ authFaults = 0 => RowsOf(login[r].nonce) = {}
    /\ login[r].step = "done" => login[r].address \in users

AuthInv ==
    /\ nonces \in [Wallets -> Row \cup {NoRow}]
    /\ DOMAIN login = Requests /\ authTime \in 0 .. MaxAuthTime
    /\ NoncesInv
    /\ \A r \in Requests : CallInv(r)
    /\ cookie # NoCookie =>
          \E r \in Requests : /\ login[r].step = "done"
                              /\ Lower(login[r].address) = cookie.wallet

LEMMA AuthStart == AuthInit => AuthInv
BY AuthAssumption DEF AuthInit, AuthInv, NoncesInv, CallInv, Accepted, Consumed

\* A step of a call keeps what the caller sent.
LEMMA CallMoves ==
    ASSUME AuthInv, NEW r \in Requests, NEW step \in Steps \ {"new"},
           login[r].step # "new", To(r, step)
    PROVE  /\ DOMAIN login' = Requests
           /\ login'[r] \in Call /\ login'[r].step = step
           /\ login'[r].nonce = login[r].nonce
           /\ login'[r].address = login[r].address
           /\ login'[r].signer = login[r].signer
           /\ login[r].nonce \in 1 .. minted
           /\ login[r].address \in Address
           /\ \A q \in Requests \ {r} : login'[q] = login[q]
<1>1. login[r] \in Call
  BY DEF AuthInv, CallInv
<1> QED BY <1>1 DEF AuthInv, CallInv, To, Call

\* Calls that do not move, while rows are deleted and users added.
LEMMA CallRests ==
    ASSUME AuthInv, NEW q \in Requests, login'[q] = login[q],
           minted' \in Nat, minted <= minted', users \subseteq users',
           authFaults \in Nat, authFaults' \in Nat, authFaults <= authFaults',
           \A n \in 1 .. minted : RowsOf(n)' \subseteq RowsOf(n)
    PROVE  CallInv(q)'
<1>1. CallInv(q) /\ minted \in Nat
  BY DEF AuthInv, NoncesInv
<1> QED BY <1>1 DEF CallInv, Accepted, Consumed

\* Deleting a wallet's row, or not: no nonce gets a row, and none returns.
LEMMA DeletingKeepsNonces ==
    ASSUME AuthInv, NEW w \in Wallets, UNCHANGED minted, authFaults' \in Nat,
           DeleteRow(w) \/ UNCHANGED <<nonces, spent>>
    PROVE  /\ nonces' \in [Wallets -> Row \cup {NoRow}] /\ NoncesInv'
           /\ \A n \in 1 .. minted : RowsOf(n)' \subseteq RowsOf(n)
           /\ DeleteRow(w) => \A n : w \notin RowsOf(n)'
<1>1. CASE DeleteRow(w)
  <2>1. nonces' \in [Wallets -> Row \cup {NoRow}]
    BY <1>1 DEF DeleteRow, AuthInv
  <2>2. \A v \in Wallets : nonces'[v] = IF v = w THEN NoRow ELSE nonces[v]
    BY <1>1 DEF DeleteRow, AuthInv
  <2>3. NoncesInv'
    <3>1. spent' \subseteq 1 .. minted
      BY <1>1 DEF DeleteRow, AuthInv, NoncesInv
    <3>2. \A v \in Wallets : nonces'[v] = NoRow \/ nonces'[v].nonce \notin spent'
      BY <1>1, <2>2 DEF DeleteRow, AuthInv, NoncesInv
    <3> QED BY <2>2, <3>1, <3>2 DEF AuthInv, NoncesInv
  <2> QED BY <2>1, <2>2, <2>3 DEF RowsOf
<1>2. CASE UNCHANGED <<nonces, spent>>
  BY <1>2 DEF AuthInv, NoncesInv, RowsOf, DeleteRow
<1> QED BY <1>1, <1>2

LEMMA AuthStep == AuthInv /\ [AuthNext]_authVars => AuthInv'
<1>1. SUFFICES ASSUME AuthInv, [AuthNext]_authVars PROVE AuthInv'
  OBVIOUS
<1>2. /\ NoncesInv /\ minted \in Nat /\ authFaults \in Nat
      /\ \A r \in Requests : CallInv(r)
  BY <1>1 DEF AuthInv, NoncesInv
<1>3. ASSUME NEW w \in Wallets, GenerateNonce(w) PROVE AuthInv'
  <2>1. /\ minted' = minted + 1 /\ minted < MaxNonces
        /\ UNCHANGED <<users, login, cookie, authFaults, spent>>
        /\ nonces' = [nonces EXCEPT ![w] =
              [nonce |-> minted + 1, expires |-> authTime + NonceLife]]
    BY <1>3 DEF GenerateNonce
  <2> DEFINE row == [nonce |-> minted + 1, expires |-> authTime + NonceLife]
  <2>2. row.nonce = minted + 1
    OBVIOUS
  <2>3. \A v \in Wallets : nonces'[v] = IF v = w THEN row ELSE nonces[v]
    BY <1>1, <2>1 DEF AuthInv
  <2>4. nonces' \in [Wallets -> Row \cup {NoRow}]
    <3>1. row \in Row
      BY <1>1, <1>2, <2>1, AuthAssumption DEF AuthInv, Row, Nonces
    <3> QED BY <1>1, <2>1, <3>1 DEF AuthInv
  <2>5. NoncesInv'
    <3> HIDE DEF row
    <3>1. \A v \in Wallets : nonces[v] # NoRow => nonces[v].nonce \in 1 .. minted
      BY <1>2 DEF NoncesInv
    <3>2. minted + 1 \notin spent /\ spent \subseteq 1 .. minted + 1
      BY <1>2 DEF NoncesInv
    <3>3. \A v \in Wallets : nonces'[v] # NoRow => nonces'[v].nonce \in 1 .. minted'
      BY <1>2, <2>1, <2>2, <2>3, <3>1
    <3>4. ASSUME NEW v \in Wallets, NEW x \in Wallets,
                 nonces'[v] # NoRow, nonces'[x] # NoRow,
                 nonces'[v].nonce = nonces'[x].nonce
          PROVE  v = x
      <4>1. \A y \in Wallets \ {w} :
               nonces'[y] # NoRow => nonces'[y].nonce # minted + 1
        BY <1>2, <2>3, <3>1
      <4>2. CASE v # w /\ x # w
        BY <1>2, <2>3, <3>4, <4>2 DEF NoncesInv
      <4> QED BY <2>2, <2>3, <3>4, <4>1, <4>2
    <3>5. \A v \in Wallets : nonces'[v] = NoRow \/ nonces'[v].nonce \notin spent
      BY <1>2, <2>2, <2>3, <3>2 DEF NoncesInv
    <3>6. minted' \in 0 .. MaxNonces /\ authFaults' \in Nat
      BY <1>2, <2>1, AuthAssumption DEF NoncesInv
    <3>7. spent' \subseteq 1 .. minted' /\ spent' = spent
      BY <2>1, <3>2
    <3> QED BY <3>3, <3>4, <3>5, <3>6, <3>7 DEF NoncesInv
  <2>6. \A n \in 1 .. minted : RowsOf(n)' \subseteq RowsOf(n)
    <3> HIDE DEF row
    <3> QED BY <1>2, <2>2, <2>3 DEF RowsOf
  <2>7. \A r \in Requests : CallInv(r)'
    BY <1>1, <1>2, <2>1, <2>6, CallRests
  <2>8. UNCHANGED authTime
    BY <1>3 DEF GenerateNonce
  <2> QED BY <1>1, <2>1, <2>4, <2>5, <2>7, <2>8 DEF AuthInv
<1>4. ASSUME NEW r \in Requests, NEW a \in Address, NEW n \in 1 .. minted,
             NEW s \in Wallets \cup {Unsigned}, CallLogin(r, a, n, s)
      PROVE  AuthInv'
  <2> DEFINE call == [step |-> "read", address |-> a, nonce |-> n, signer |-> s]
  <2>1. /\ UNCHANGED <<nonces, minted, users, cookie, authFaults, spent, authTime>>
        /\ login[r].step = "new" /\ login' = [login EXCEPT ![r] = call]
    BY <1>4 DEF CallLogin
  <2>2. call \in Call
    <3>1. n \in Nonces
      BY <1>2, AuthAssumption DEF Nonces, NoncesInv
    <3> QED BY <3>1 DEF Call, Steps
  <2>3. NoncesInv'
    BY <1>2, <2>1 DEF NoncesInv
  <2>4. CallInv(r)'
    BY <1>1, <2>1, <2>2 DEF CallInv, Accepted, Consumed, AuthInv
  <2>5. \A q \in Requests \ {r} : login'[q] = login[q]
    BY <1>1, <2>1 DEF AuthInv
  <2>6. \A q \in Requests \ {r} : CallInv(q)'
    BY <1>1, <1>2, <2>1, <2>5, CallRests DEF RowsOf
  <2>7. DOMAIN login' = Requests
    BY <1>1, <2>1 DEF AuthInv
  <2> QED BY <1>1, <2>1, <2>3, <2>4, <2>5, <2>6, <2>7 DEF AuthInv
<1>5. ASSUME NEW r \in Requests, ReadNonce(r) PROVE AuthInv'
  <2>1. /\ UNCHANGED <<nonces, minted, users, cookie, spent, authTime>>
        /\ login[r].step = "read"
        /\ authFaults' \in Nat /\ authFaults <= authFaults'
    BY <1>2, <1>5 DEF ReadNonce, Fault
  <2> DEFINE w == Lower(login[r].address)
             verdict == Verdict(nonces[w], login[r])
  <2>2. PICK step \in {verdict, "failed"} : To(r, step)
    BY <1>5 DEF ReadNonce
  <2>3. /\ step \in {"failed", "expired", "rejected", "consume"}
        /\ step = "consume" => /\ login[r].signer = w
                               /\ nonces[w] # NoRow /\ nonces[w].nonce = login[r].nonce
    BY <2>2 DEF Verdict
  <2>4. /\ login'[r] \in Call /\ login'[r].step = step /\ DOMAIN login' = Requests
        /\ login'[r].nonce = login[r].nonce /\ login'[r].address = login[r].address
        /\ login'[r].signer = login[r].signer
        /\ login[r].nonce \in 1 .. minted /\ login[r].address \in Address
        /\ \A q \in Requests \ {r} : login'[q] = login[q]
    <3>1. step \in Steps \ {"new"} /\ login[r].step # "new"
      BY <2>1, <2>3 DEF Steps
    <3> HIDE DEF verdict
    <3> QED BY <1>1, <2>2, <3>1, CallMoves
  <2>5. NoncesInv'
    BY <1>2, <2>1 DEF NoncesInv
  <2>6. CallInv(r)'
    <3>1. w \in Wallets
      BY <2>4 DEF Lower, Address
    <3>2. step = "consume" => RowsOf(login[r].nonce) \subseteq {w}
      BY <1>2, <2>3, <3>1 DEF RowsOf, NoncesInv
    <3> HIDE DEF w, verdict
    <3>3. login'[r].step = "consume" =>
             /\ login'[r].signer = w
             /\ RowsOf(login[r].nonce)' \subseteq {w}
      BY <2>1, <2>3, <2>4, <3>2 DEF RowsOf
    <3>4. w = Lower(login'[r].address)
      BY <2>4 DEF w
    <3> QED BY <2>1, <2>3, <2>4, <3>3, <3>4 DEF CallInv, Accepted, Consumed
  <2>7. \A q \in Requests \ {r} : CallInv(q)'
    BY <1>1, <1>2, <2>1, <2>4, CallRests DEF RowsOf
  <2>8. cookie' # NoCookie =>
          \E q \in Requests : login'[q].step = "done"
                              /\ Lower(login'[q].address) = cookie'.wallet
    BY <1>1, <2>1, <2>4 DEF AuthInv
  <2> QED BY <1>1, <2>1, <2>4, <2>5, <2>6, <2>7, <2>8 DEF AuthInv
<1>6. ASSUME NEW r \in Requests, DeleteNonce(r) PROVE AuthInv'
  <2> DEFINE w == Lower(login[r].address)
             step == AfterDelete(login[r].step)
  <2>1. /\ UNCHANGED <<minted, users, cookie, authTime>> /\ To(r, step)
        /\ login[r].step \in {"expired", "rejected", "consume"}
        /\ authFaults' \in Nat /\ authFaults <= authFaults'
        /\ \/ DeleteRow(w)
           \/ authFaults' # 0 /\ UNCHANGED <<nonces, spent>>
    BY <1>2, <1>6 DEF DeleteNonce, Fault
  <2>2. /\ step \in Steps \ {"new"} /\ login[r].step # "new"
        /\ step \in {"find", "failed"}
        /\ step = "find" => login[r].step = "consume"
    BY <2>1 DEF AfterDelete, Steps
  <2> HIDE DEF step
  <2>3. /\ login'[r] \in Call /\ login'[r].step = step /\ DOMAIN login' = Requests
        /\ login'[r].nonce = login[r].nonce /\ login'[r].address = login[r].address
        /\ login'[r].signer = login[r].signer
        /\ login[r].nonce \in 1 .. minted /\ login[r].address \in Address
        /\ \A q \in Requests \ {r} : login'[q] = login[q]
    BY <1>1, <2>1, <2>2, CallMoves
  <2>4. w \in Wallets
    BY <2>3 DEF Lower, Address
  <2> HIDE DEF w
  <2>5. /\ nonces' \in [Wallets -> Row \cup {NoRow}] /\ NoncesInv'
        /\ \A n \in 1 .. minted : RowsOf(n)' \subseteq RowsOf(n)
        /\ DeleteRow(w) => \A n : w \notin RowsOf(n)'
    <3>1. DeleteRow(w) \/ UNCHANGED <<nonces, spent>>
      BY <2>1
    <3> QED BY <1>1, <2>1, <2>4, <3>1, DeletingKeepsNonces
  <2>6. \A q \in Requests \ {r} : CallInv(q)'
    BY <1>1, <1>2, <2>1, <2>3, <2>5, CallRests
  <2>7. CallInv(r)'
    <3>1. step = "find" => /\ login[r].signer = w
                           /\ RowsOf(login[r].nonce) \subseteq {w}
      BY <1>2, <2>2 DEF CallInv, Accepted, w
    <3>2. RowsOf(login[r].nonce)' \subseteq RowsOf(login[r].nonce)
      BY <2>3, <2>5
    <3>3. step = "find" /\ authFaults' = 0 => RowsOf(login[r].nonce)' = {}
      BY <2>1, <2>5, <3>1, <3>2
    <3>4. w = Lower(login'[r].address)
      BY <2>3 DEF w
    <3> QED BY <2>1, <2>2, <2>3, <3>1, <3>2, <3>3, <3>4
            DEF CallInv, Accepted, Consumed, RowsOf
  <2>8. cookie' # NoCookie =>
          \E q \in Requests : login'[q].step = "done"
                              /\ Lower(login'[q].address) = cookie'.wallet
    BY <1>1, <2>1, <2>3 DEF AuthInv
  <2> QED BY <1>1, <2>1, <2>3, <2>5, <2>6, <2>7, <2>8 DEF AuthInv
<1>7. ASSUME NEW r \in Requests,
             NEW step \in {"create", "failed", "done"},
             login[r].step \in {"find", "create"}, To(r, step),
             UNCHANGED <<nonces, minted, authTime, spent>>,
             users \subseteq users', step = "done" => login[r].address \in users',
             authFaults' \in Nat, authFaults <= authFaults',
             IF step = "done" THEN cookie'.wallet = Lower(login[r].address)
                              ELSE cookie' = cookie
      PROVE  AuthInv'
  <2>1. step \in Steps \ {"new"} /\ login[r].step # "new"
    BY <1>7 DEF Steps
  <2>2. /\ login'[r] \in Call /\ login'[r].step = step /\ DOMAIN login' = Requests
        /\ login'[r].nonce = login[r].nonce /\ login'[r].address = login[r].address
        /\ login'[r].signer = login[r].signer
        /\ login[r].nonce \in 1 .. minted
        /\ \A q \in Requests \ {r} : login'[q] = login[q]
    BY <1>1, <1>7, <2>1, CallMoves
  <2>3. \A q \in Requests \ {r} : CallInv(q)'
    BY <1>1, <1>2, <1>7, <2>2, CallRests DEF RowsOf
  <2>4. NoncesInv'
    BY <1>2, <1>7 DEF NoncesInv
  <2>5. CallInv(r)'
    BY <1>2, <1>7, <2>2 DEF CallInv, Accepted, Consumed, RowsOf
  <2>6. cookie' # NoCookie =>
          \E q \in Requests : login'[q].step = "done"
                              /\ Lower(login'[q].address) = cookie'.wallet
    BY <1>1, <1>7, <2>2 DEF AuthInv
  <2> QED BY <1>1, <1>7, <2>2, <2>3, <2>4, <2>5, <2>6 DEF AuthInv
<1>8. ASSUME NEW r \in Requests, FindUser(r) \/ CreateUser(r) PROVE AuthInv'
  <2>1. authFaults + 1 \in Nat /\ authFaults <= authFaults + 1
    BY <1>2
  <2>2. CASE FindUser(r)
    <3>1. CASE login[r].address \in users /\ Issue(r) /\ UNCHANGED authFaults
      BY <1>2, <1>7, <2>2, <3>1 DEF FindUser, Issue
    <3>2. CASE To(r, "create") /\ UNCHANGED cookie
      BY <1>2, <1>7, <2>1, <2>2, <3>2 DEF FindUser, Fault
    <3> QED BY <2>2, <3>1, <3>2 DEF FindUser
  <2>3. CASE CreateUser(r)
    <3>1. CASE users' = users \cup {login[r].address} /\ Issue(r)
      BY <1>2, <1>7, <2>3, <3>1 DEF CreateUser, Issue
    <3>2. CASE To(r, "failed") /\ UNCHANGED <<users, cookie>>
      BY <1>2, <1>7, <2>3, <3>2 DEF CreateUser
    <3> QED BY <2>3, <3>1, <3>2 DEF CreateUser
  <2> QED BY <1>8, <2>2, <2>3
<1>9. CASE Logout
  BY <1>1, <1>9 DEF Logout, AuthInv, NoncesInv, CallInv, Accepted, Consumed, RowsOf
<1>10. CASE AuthTick
  <2>1. /\ UNCHANGED <<nonces, minted, users, login, authFaults, spent>>
        /\ authTime' \in 0 .. MaxAuthTime /\ cookie' \in {NoCookie, cookie}
    BY <1>1, <1>10, AuthAssumption DEF AuthTick, AuthInv
  <2> QED BY <1>1, <2>1
          DEF AuthInv, NoncesInv, CallInv, Accepted, Consumed, RowsOf
<1>11. CASE UNCHANGED authVars
  BY <1>1, <1>11 DEF authVars, AuthInv, NoncesInv, CallInv, Accepted, Consumed, RowsOf
<1> QED BY <1>1, <1>3, <1>4, <1>5, <1>6, <1>8, <1>9, <1>10, <1>11 DEF AuthNext

\* Neither a replay nor a login without a signature, for every set of wallets,
\* spellings and calls, whatever the database loses (auth.service.ts:90 to 124).
THEOREM LoginsStayGenuine == AuthSpec => []LoginsAreGenuine
<1>1. AuthInv => LoginsAreGenuine
  <2>1. SUFFICES ASSUME AuthInv PROVE LoginsAreGenuine
    OBVIOUS
  <2>2. SpentNoncesOpenNothing
    <3>1. \A w \in Wallets : nonces[w] = NoRow \/ nonces[w].nonce \notin spent
      BY <2>1 DEF AuthInv, NoncesInv
    <3>2. ASSUME NEW r \in Requests, NEW q \in Requests,
                 login[r].step = "done", login[q].step = "read",
                 login[r].nonce = login[q].nonce, authFaults = 0
          PROVE  Verdict(nonces[Lower(login[q].address)], login[q]) # "consume"
      <4>1. RowsOf(login[q].nonce) = {}
        BY <2>1, <3>2 DEF AuthInv, CallInv, Consumed
      <4>2. Lower(login[q].address) \in Wallets
        BY <2>1, <3>2 DEF AuthInv, CallInv, Call, Lower, Address
      <4> QED BY <4>1, <4>2 DEF RowsOf, Verdict
    <3> QED BY <3>1, <3>2 DEF SpentNoncesOpenNothing
  <2>3. SessionsAreSigned
    BY <2>1 DEF AuthInv, CallInv, Accepted, SessionsAreSigned
  <2> QED BY <2>2, <2>3 DEF LoginsAreGenuine
<1> QED BY AuthStart, AuthStep, <1>1, PTL DEF AuthSpec

-----------------------------------------------------------------------------
(* The event indexer.                                                      *)

IndexSpec == IndexInit /\ [][IndexNext]_indexVars

\* Every event up to block n is stored or given up.
SettledUpTo(n) == \A b \in logged : b <= n => Settled(b)

\* A poll under way covers a range of mined blocks with nothing unsettled
\* before it, nor in it once its events are stored.
PollInv(p) ==
    /\ poll[p].step \in {"logs", "insert", "save"} =>
          /\ poll[p].from \in 1 .. head /\ poll[p].to \in 0 .. head
          /\ SettledUpTo(poll[p].from - 1)
    /\ poll[p].step = "save" => SettledUpTo(poll[p].to)

IndexInv ==
    /\ IndexTypeOK /\ logged \subseteq 1 .. head
    /\ last <= head /\ saved <= head
    /\ SettledUpTo(saved) /\ (phase # "down" => SettledUpTo(last))
    /\ \A p \in Polls : PollInv(p)
    /\ phase \in {"down", "base", "gap"} => \A p \in Polls : poll[p].step = "idle"

LEMMA MinOfTwo ==
    ASSUME NEW i \in Nat, NEW j \in Nat
    PROVE  Min({i, j}) = IF i <= j THEN i ELSE j
BY DEF Min

LEMMA IndexStart == IndexInit => IndexInv
BY IndexerAssumption
   DEF IndexInit, IndexInv, IndexTypeOK, PollInv, SettledUpTo, Settled, Idle, Blocks,
       PollSteps

\* While settled events stay settled and new ones are beyond the head, so do
\* the ranges up to the head.
LEMMA RangesStaySettled ==
    ASSUME IndexInv, head' \in Nat, head <= head',
           logged' \subseteq logged \cup (head + 1 .. head'),
           \A b \in Blocks : Settled(b) => Settled(b)'
    PROVE  /\ \A n \in Int : n <= head /\ SettledUpTo(n) => SettledUpTo(n)'
           /\ \A p \in Polls : poll'[p] = poll[p] => PollInv(p)'
<1>1. ASSUME NEW n \in Int, n <= head, SettledUpTo(n) PROVE SettledUpTo(n)'
  <2>1. head \in Nat /\ logged \subseteq Blocks
    BY DEF IndexInv, IndexTypeOK
  <2>2. \A b \in logged' : b <= n => b \in logged /\ b \in Blocks
    BY <1>1, <2>1
  <2> QED BY <1>1, <2>2 DEF SettledUpTo
<1>2. ASSUME NEW p \in Polls, poll'[p] = poll[p] PROVE PollInv(p)'
  <2>1. PollInv(p) /\ head \in Nat
    BY DEF IndexInv, IndexTypeOK
  <2> QED BY <1>1, <1>2, <2>1 DEF PollInv
<1> QED BY <1>1, <1>2

LEMMA IndexStep == IndexInv /\ [IndexNext]_indexVars => IndexInv'
<1>1. SUFFICES ASSUME IndexInv, [IndexNext]_indexVars PROVE IndexInv'
  OBVIOUS
<1>2. /\ head \in Nat /\ last \in Nat /\ saved \in Nat /\ MaxHead \in Nat
      /\ head <= MaxHead
  BY <1>1, IndexerAssumption DEF IndexInv, IndexTypeOK
<1>3. ASSUME NEW hasEvents \in BOOLEAN, Mine(hasEvents) PROVE IndexInv'
  <2>1. /\ head' = head + 1 /\ head < MaxHead
        /\ logged' \subseteq logged \cup {head'} /\ logged \subseteq logged'
        /\ UNCHANGED <<saved, rows, phase, last, poll, unpromised>>
    BY <1>3 DEF Mine
  <2>2. \A b \in Blocks : Settled(b) => Settled(b)'
    BY <2>1 DEF Settled
  <2>3. /\ \A n \in Int : n <= head /\ SettledUpTo(n) => SettledUpTo(n)'
        /\ \A p \in Polls : PollInv(p)'
    <3>1. logged' \subseteq logged \cup (head + 1 .. head')
      BY <1>2, <2>1
    <3> QED BY <1>1, <1>2, <2>1, <2>2, <3>1, RangesStaySettled
  <2>4. IndexTypeOK' /\ logged' \subseteq 1 .. head'
    BY <1>1, <1>2, <2>1 DEF IndexInv, IndexTypeOK, Blocks
  <2> QED BY <1>1, <1>2, <2>1, <2>3, <2>4 DEF IndexInv
<1>4. ASSUME UNCHANGED <<head, logged, rows>>,
             \A b \in Blocks : b \in unpromised => b \in unpromised',
             unpromised' \subseteq Blocks,
             last' \in 0 .. head, saved' \in 0 .. head,
             SettledUpTo(saved)', phase' # "down" => SettledUpTo(last)',
             phase' \in {"down", "base", "gap", "running", "stopping"},
             poll' \in [Polls -> [step : PollSteps, from : 0 .. MaxHead + 1,
                                  to : 0 .. MaxHead]],
             \A p \in Polls : poll'[p] = poll[p] \/ PollInv(p)',
             phase' \in {"down", "base", "gap"} =>
                \A p \in Polls : poll'[p].step = "idle"
      PROVE  IndexInv'
  <2>1. /\ \A b \in Blocks : Settled(b) => Settled(b)'
        /\ logged' \subseteq logged \cup (head + 1 .. head')
        /\ head' \in Nat /\ head <= head'
    BY <1>2, <1>4 DEF Settled
  <2>2. \A p \in Polls : PollInv(p)'
    BY <1>1, <1>4, <2>1, RangesStaySettled
  <2>3. IndexTypeOK'
    BY <1>1, <1>2, <1>4 DEF IndexInv, IndexTypeOK
  <2> QED BY <1>1, <1>2, <1>4, <2>2, <2>3 DEF IndexInv
<1>5. ASSUME UNCHANGED <<head, logged>>,
             \A b \in Blocks : Settled(b) => Settled(b)'
      PROVE  /\ \A n \in Int : n <= head /\ SettledUpTo(n) => SettledUpTo(n)'
             /\ \A p \in Polls : poll'[p] = poll[p] => PollInv(p)'
  <2>1. /\ logged' \subseteq logged \cup (head + 1 .. head')
        /\ head' \in Nat /\ head <= head'
    BY <1>2, <1>5
  <2> QED BY <1>1, <1>5, <2>1, RangesStaySettled
<1>6. CASE Start
  <2>1. /\ UNCHANGED <<head, logged, saved, rows, poll, unpromised>>
        /\ \A p \in Polls : poll'[p].step = "idle"
        /\ last' \in {saved, 0} /\ phase' = IF last' = 0 THEN "base" ELSE "gap"
    BY <1>1, <1>6 DEF Start, IndexInv
  <2>2. last' \in 0 .. head /\ saved' \in 0 .. head
    BY <1>1, <1>2, <2>1 DEF IndexInv
  <2>3. /\ \A n \in Int : n <= head /\ SettledUpTo(n) => SettledUpTo(n)'
    BY <1>5, <2>1 DEF Settled
  <2>4. SettledUpTo(saved)' /\ SettledUpTo(last)'
    <3>1. SettledUpTo(0)
      <4>1. \A b \in logged : b \in Nat /\ b > 0
        BY <1>1, <1>2 DEF IndexInv
      <4> QED BY <4>1 DEF SettledUpTo
    <3>2. SettledUpTo(saved) /\ saved <= head
      BY <1>1 DEF IndexInv
    <3> QED BY <1>2, <2>1, <2>3, <3>1, <3>2
  <2> QED BY <1>1, <1>4, <2>1, <2>2, <2>4 DEF IndexInv, IndexTypeOK
<1>7. CASE StartAtHead
  <2>1. /\ UNCHANGED <<head, logged, saved, rows, poll>>
        /\ \A p \in Polls : poll'[p].step = "idle"
        /\ \/ last' = head /\ phase' = "gap" /\ unpromised' = unpromised \cup (1 .. head)
           \/ phase' = "down" /\ UNCHANGED <<last, unpromised>>
    BY <1>1, <1>7 DEF StartAtHead, IndexInv
  <2>2. /\ last' \in 0 .. head /\ saved' \in 0 .. head
        /\ unpromised' \subseteq Blocks /\ unpromised \subseteq unpromised'
    <3>1. last' \in 0 .. head /\ saved' \in 0 .. head
      BY <1>1, <1>2, <2>1 DEF IndexInv
    <3>2. 1 .. head \subseteq Blocks /\ unpromised \subseteq Blocks
      BY <1>1, <1>2 DEF IndexInv, IndexTypeOK, Blocks
    <3> QED BY <2>1, <3>1, <3>2
  <2>3. SettledUpTo(saved)'
    BY <1>1, <1>2, <1>5, <2>1, <2>2 DEF Settled, IndexInv
  <2>4. phase' # "down" => SettledUpTo(last)'
    BY <1>1, <2>1 DEF Settled, IndexInv, SettledUpTo
  <2> QED BY <1>1, <1>4, <2>1, <2>2, <2>3, <2>4 DEF IndexInv, IndexTypeOK
<1>8. CASE StartPolling
  <2>1. /\ UNCHANGED <<head, logged, rows, poll>> /\ phase = "gap"
        /\ \A p \in Polls : poll'[p].step = "idle"
        /\ phase' \in {"running", "down"}
        /\ \/ /\ head > last + Retention /\ last' = head - Retention
              /\ unpromised' = unpromised \cup (last + 1 .. last')
              /\ saved' \in {last', saved}
           \/ UNCHANGED <<last, saved, unpromised>>
    BY <1>1, <1>8 DEF StartPolling, IndexInv
  <2>2. /\ last' \in 0 .. head /\ saved' \in 0 .. head
        /\ unpromised' \subseteq Blocks /\ unpromised \subseteq unpromised'
    <3>1. last' \in 0 .. head /\ saved' \in 0 .. head
      BY <1>1, <1>2, <2>1, IndexerAssumption DEF IndexInv
    <3>2. last + 1 .. last' \subseteq Blocks /\ unpromised \subseteq Blocks
      BY <1>1, <1>2, <3>1 DEF IndexInv, IndexTypeOK, Blocks
    <3> QED BY <2>1, <3>1, <3>2
  <2>3. \A n \in Int : n <= head /\ SettledUpTo(n) => SettledUpTo(n)'
    BY <1>5, <2>1, <2>2 DEF Settled
  <2>4. SettledUpTo(last)' /\ SettledUpTo(saved)'
    <3>1. /\ SettledUpTo(last) /\ last <= head
          /\ SettledUpTo(saved) /\ saved <= head
      BY <1>1, <2>1 DEF IndexInv
    <3>2. SettledUpTo(last)'
      <4>1. CASE last' = head - Retention /\ unpromised' = unpromised \cup (last + 1 .. last')
        <5>1. ASSUME NEW b \in logged', b <= last' PROVE Settled(b)'
          <6>1. b \in Nat
            BY <1>1, <1>2, <2>1, <5>1 DEF IndexInv
          <6>2. CASE b <= last
            BY <2>1, <2>2, <3>1, <5>1, <6>2 DEF SettledUpTo, Settled
          <6>3. CASE b > last
            BY <1>2, <2>2, <4>1, <5>1, <6>1, <6>3 DEF Settled
          <6> QED BY <1>2, <6>1, <6>2, <6>3
        <5> QED BY <5>1 DEF SettledUpTo
      <4>2. CASE last' = last
        <5>1. \A b \in logged : b <= last => Settled(b)'
          BY <2>1, <2>2, <3>1 DEF SettledUpTo, Settled
        <5> QED BY <2>1, <4>2, <5>1 DEF SettledUpTo
      <4> QED BY <2>1, <4>1, <4>2
    <3>3. CASE saved' = last'
      BY <3>2, <3>3 DEF SettledUpTo
    <3>4. CASE saved' = saved
      <4>1. \A b \in logged : b <= saved => Settled(b)'
        BY <2>1, <2>2, <3>1 DEF SettledUpTo, Settled
      <4> QED BY <2>1, <3>2, <3>4, <4>1 DEF SettledUpTo
    <3>5. saved' = last' \/ saved' = saved
      BY <2>1
    <3> QED BY <3>2, <3>3, <3>4, <3>5
  <2> QED BY <1>1, <1>4, <2>1, <2>2, <2>4 DEF IndexInv, IndexTypeOK
<1>9. CASE Stop \/ Exit
  <2>1. /\ UNCHANGED <<head, logged, saved, rows, last, unpromised>>
        /\ poll' = poll \/ poll' = [p \in Polls |-> Idle]
        /\ \/ phase' = "down" /\ poll' = [p \in Polls |-> Idle]
           \/ phase = "running" /\ phase' = "stopping"
    BY <1>9 DEF Stop, Exit
  <2>2. \A b \in Blocks : Settled(b) => Settled(b)'
    BY <2>1 DEF Settled
  <2>3. \A n \in Int : n <= head /\ SettledUpTo(n) => SettledUpTo(n)'
    BY <1>5, <2>1, <2>2
  <2>4. SettledUpTo(saved)' /\ (phase' # "down" => SettledUpTo(last)')
    BY <1>1, <1>2, <2>1, <2>3 DEF IndexInv
  <2>5. \A p \in Polls : poll'[p] = poll[p] \/ PollInv(p)'
    BY <2>1 DEF PollInv, Idle
  <2>6. poll' \in [Polls -> [step : PollSteps, from : 0 .. MaxHead + 1,
                             to : 0 .. MaxHead]]
    BY <1>1, <1>2, <2>1 DEF IndexInv, IndexTypeOK, Idle, PollSteps
  <2>7. phase' \in {"down", "base", "gap"} => \A p \in Polls : poll'[p].step = "idle"
    BY <2>1 DEF Idle
  <2>8. last' \in 0 .. head /\ saved' \in 0 .. head
    BY <1>1, <1>2, <2>1 DEF IndexInv
  <2> QED BY <1>1, <1>4, <2>1, <2>4, <2>5, <2>6, <2>7, <2>8 DEF IndexInv, IndexTypeOK
<1>10. ASSUME NEW p \in Polls, NEW call, poll' = [poll EXCEPT ![p] = call],
              call \in [step : PollSteps, from : 0 .. MaxHead + 1, to : 0 .. MaxHead],
              PollInv(p)',
              UNCHANGED <<head, logged, phase>>, phase \in {"running", "stopping"},
              \A b \in Blocks : Settled(b) => Settled(b)',
              rows' \in [Blocks -> 0 .. 2], unpromised' \subseteq Blocks,
              last' \in 0 .. head, saved' \in 0 .. head,
              last' = last \/ SettledUpTo(last)',
              saved' = saved \/ SettledUpTo(saved)'
       PROVE  IndexInv'
  <2>1. /\ \A n \in Int : n <= head /\ SettledUpTo(n) => SettledUpTo(n)'
        /\ \A q \in Polls : poll'[q] = poll[q] => PollInv(q)'
    BY <1>5, <1>10
  <2>2. /\ poll' \in [Polls -> [step : PollSteps, from : 0 .. MaxHead + 1,
                                to : 0 .. MaxHead]]
        /\ \A q \in Polls \ {p} : poll'[q] = poll[q]
    BY <1>1, <1>10 DEF IndexInv, IndexTypeOK
  <2>3. \A q \in Polls : PollInv(q)'
    BY <1>10, <2>1, <2>2
  <2>4. IndexTypeOK'
    BY <1>1, <1>2, <1>10, <2>2 DEF IndexInv, IndexTypeOK
  <2>5. SettledUpTo(saved)' /\ (phase' # "down" => SettledUpTo(last)')
    <3>1. ASSUME NEW n \in Int, n <= head, SettledUpTo(n),
                 NEW m, m = n
          PROVE  SettledUpTo(m)'
      BY <2>1, <3>1
    <3> QED BY <1>1, <1>2, <1>10, <2>1 DEF IndexInv
  <2> QED BY <1>1, <1>2, <1>10, <2>3, <2>4, <2>5 DEF IndexInv
<1>11. \A p \in Polls :
          /\ poll[p] \in [step : PollSteps, from : 0 .. MaxHead + 1, to : 0 .. MaxHead]
          /\ poll[p].step \in PollSteps /\ poll[p].from \in 0 .. MaxHead + 1
          /\ poll[p].to \in 0 .. MaxHead
          /\ PollInv(p)
  BY <1>1 DEF IndexInv, IndexTypeOK
<1>12. \A p \in Polls : poll[p].step # "idle" => phase \in {"running", "stopping"}
  BY <1>1 DEF IndexInv, IndexTypeOK
<1>13. ASSUME NEW p \in Polls, Tick(p) PROVE IndexInv'
  <2> DEFINE call == [poll[p] EXCEPT !.step = "head"]
  <2>1. /\ poll' = [poll EXCEPT ![p] = call] /\ phase = "running"
        /\ UNCHANGED <<head, logged, saved, rows, phase, last, unpromised>>
    BY <1>13 DEF Tick, PollTo
  <2>2. /\ call \in [step : PollSteps, from : 0 .. MaxHead + 1, to : 0 .. MaxHead]
        /\ call.step = "head"
    BY <1>11 DEF PollSteps
  <2> HIDE DEF call
  <2>3. poll'[p] = call
    BY <1>1, <2>1 DEF IndexInv, IndexTypeOK
  <2>4. PollInv(p)'
    BY <2>2, <2>3 DEF PollInv
  <2>5. \A b \in Blocks : Settled(b) => Settled(b)'
    BY <2>1 DEF Settled
  <2>6. /\ last' \in 0 .. head /\ saved' \in 0 .. head
        /\ rows' \in [Blocks -> 0 .. 2] /\ unpromised' \subseteq Blocks
    BY <1>1, <1>2, <2>1 DEF IndexInv, IndexTypeOK
  <2> QED BY <1>10, <2>1, <2>2, <2>4, <2>5, <2>6
<1>14. ASSUME NEW p \in Polls, NEW call \in
                  [step : PollSteps, from : 0 .. MaxHead + 1, to : 0 .. MaxHead],
              poll' = [poll EXCEPT ![p] = call],
              UNCHANGED <<head, logged, saved, rows, phase, last, unpromised>>,
              phase \in {"running", "stopping"}
       PROVE  /\ poll'[p] = call
              /\ \A n \in Int : n <= head /\ SettledUpTo(n) => SettledUpTo(n)'
              /\ PollInv(p)' => IndexInv'
  <2>1. poll'[p] = call
    BY <1>1, <1>14 DEF IndexInv, IndexTypeOK
  <2>2. \A b \in Blocks : Settled(b) => Settled(b)'
    BY <1>14 DEF Settled
  <2>3. /\ last' \in 0 .. head /\ saved' \in 0 .. head
        /\ rows' \in [Blocks -> 0 .. 2] /\ unpromised' \subseteq Blocks
    BY <1>1, <1>2, <1>14 DEF IndexInv, IndexTypeOK
  <2> QED BY <1>5, <1>10, <1>14, <2>1, <2>2, <2>3
<1>15. Idle \in [step : PollSteps, from : 0 .. MaxHead + 1, to : 0 .. MaxHead]
       /\ Idle.step = "idle"
  BY <1>2 DEF Idle, PollSteps
<1>16. ASSUME NEW p \in Polls, ReadHead(p) PROVE IndexInv'
  <2>1. /\ UNCHANGED <<head, logged, saved, rows, phase, last, unpromised>>
        /\ phase \in {"running", "stopping"}
    BY <1>16, <1>12 DEF ReadHead
  <2>2. CASE PollEnds(p)
    <3>1. poll'[p] = Idle /\ (PollInv(p)' => IndexInv')
      BY <1>14, <1>15, <2>1, <2>2 DEF PollEnds
    <3> QED BY <1>15, <3>1 DEF PollInv
  <2>3. CASE /\ FirstBlock <= head
             /\ poll' = [poll EXCEPT ![p] =
                   [step |-> "logs", from |-> FirstBlock, to |-> LastBlock]]
    <3>1. FirstBlock \in 1 .. head /\ LastBlock \in 0 .. head /\ FirstBlock - 1 = last
      <4>1. head \in Nat /\ FirstBlock + BatchBlocks - 1 \in Nat
        BY <1>2, IndexerAssumption DEF FirstBlock
      <4> QED BY <1>2, <2>3, <4>1, MinOfTwo DEF FirstBlock, LastBlock
    <3>2. PICK f \in 1 .. head, t \in 0 .. head :
              f = FirstBlock /\ t = LastBlock /\ f - 1 = last
      BY <3>1
    <3> DEFINE call == [step |-> "logs", from |-> f, to |-> t]
    <3>3. /\ call.step = "logs" /\ call.from = f /\ call.to = t
          /\ call \in [step : PollSteps, from : 0 .. MaxHead + 1, to : 0 .. MaxHead]
          /\ poll' = [poll EXCEPT ![p] = call]
      BY <1>2, <2>3, <3>2 DEF PollSteps
    <3> HIDE DEF call
    <3>4. /\ poll'[p] = call
          /\ \A n \in Int : n <= head /\ SettledUpTo(n) => SettledUpTo(n)'
          /\ PollInv(p)' => IndexInv'
      BY <1>14, <2>1, <3>3
    <3>5. SettledUpTo(last) /\ last <= head
      BY <1>1, <2>1 DEF IndexInv
    <3>6. SettledUpTo(f - 1)'
      BY <1>2, <3>2, <3>4, <3>5
    <3> QED BY <2>1, <3>2, <3>3, <3>4, <3>6 DEF PollInv
  <2> QED BY <1>16, <2>2, <2>3 DEF ReadHead
<1>17. ASSUME NEW p \in Polls, ReadLogs(p) \/ PersistEvents(p) \/ SaveCheckpoint(p)
       PROVE  IndexInv'
  <2>1. /\ UNCHANGED <<head, logged, phase>> /\ phase \in {"running", "stopping"}
        /\ poll[p].step \in {"logs", "insert", "save"}
    BY <1>12, <1>17 DEF ReadLogs, PersistEvents, SaveCheckpoint
  <2>2. PICK f \in 1 .. head, t \in 0 .. head :
           /\ f = poll[p].from /\ t = poll[p].to /\ SettledUpTo(f - 1)
           /\ poll[p].step = "save" => SettledUpTo(t)
    BY <1>11, <2>1 DEF PollInv
  <2>3. /\ rows' \in [Blocks -> 0 .. 2] /\ unpromised' \subseteq Blocks
        /\ \A b \in Blocks : Settled(b) => Settled(b)'
        /\ PersistEvents(p) => \A b \in Found(p) : Settled(b)'
    <3>1. Found(p) \subseteq Blocks
      BY <1>1 DEF Found, IndexInv, IndexTypeOK
    <3>2. CASE UNCHANGED <<rows, unpromised>> /\ ~PersistEvents(p)
      BY <1>1, <3>2 DEF IndexInv, IndexTypeOK, Settled
    <3>3. CASE PersistEvents(p) /\ UNCHANGED unpromised
               /\ rows' = [b \in Blocks |->
                     IF b \in Found(p) THEN Min({2, rows[b] + 1}) ELSE rows[b]]
      <4>1. \A b \in Blocks : /\ rows[b] \in 0 .. 2
                              /\ Min({2, rows[b] + 1}) \in 1 .. 2
        BY <1>1, MinOfTwo DEF IndexInv, IndexTypeOK
      <4>2. \A b \in Blocks : rows'[b] \in 0 .. 2 /\ rows'[b] >= rows[b]
                              /\ (b \in Found(p) => rows'[b] > 0)
        BY <1>1, <3>3, <4>1, MinOfTwo DEF IndexInv, IndexTypeOK
      <4> QED BY <1>1, <3>1, <3>3, <4>1, <4>2 DEF IndexInv, IndexTypeOK, Settled
    <3>4. CASE PersistEvents(p) /\ UNCHANGED rows
               /\ unpromised' = unpromised \cup Found(p)
      BY <1>1, <3>1, <3>4 DEF IndexInv, IndexTypeOK, Settled
    <3> QED BY <1>17, <3>2, <3>3, <3>4 DEF ReadLogs, PersistEvents, SaveCheckpoint
  <2>4. /\ \A n \in Int : n <= head /\ SettledUpTo(n) => SettledUpTo(n)'
        /\ SettledUpTo(f - 1)'
    <3>1. \A n \in Int : n <= head /\ SettledUpTo(n) => SettledUpTo(n)'
      BY <1>5, <2>1, <2>3
    <3> QED BY <1>2, <2>2, <3>1
  <2>5. Found(p) = {} \/ PersistEvents(p) \/ poll[p].step = "save" => SettledUpTo(t)'
    <3>1. ASSUME Found(p) = {} \/ PersistEvents(p), NEW b \in logged, b <= t
          PROVE  Settled(b)'
      <4>1. b \in Nat /\ b \in Blocks
        BY <1>1, <1>2, <3>1 DEF IndexInv, IndexTypeOK
      <4>2. CASE b <= f - 1
        BY <2>1, <2>4, <3>1, <4>2 DEF SettledUpTo
      <4>3. CASE b >= f
        <5>1. b \in Found(p)
          BY <2>2, <3>1, <4>3 DEF Found
        <5> QED BY <2>3, <3>1, <5>1
      <4> QED BY <2>2, <4>1, <4>2, <4>3
    <3>2. Found(p) = {} \/ PersistEvents(p) => SettledUpTo(t)'
      BY <2>1, <3>1 DEF SettledUpTo
    <3> QED BY <1>2, <2>2, <2>4, <3>2
  <2>6. PICK call \in {Idle, [poll[p] EXCEPT !.step = "insert"],
                       [poll[p] EXCEPT !.step = "save"]} :
           /\ poll' = [poll EXCEPT ![p] = call]
           /\ call.step = "save" => SettledUpTo(t)'
           /\ last' # last => last' = t /\ SettledUpTo(t)'
           /\ saved' # saved => saved' = t /\ SettledUpTo(t)'
    <3> DEFINE inserting == [poll[p] EXCEPT !.step = "insert"]
               saving == [poll[p] EXCEPT !.step = "save"]
    <3>0. Idle.step = "idle" /\ inserting.step = "insert" /\ saving.step = "save"
      <4>1. poll[p] \in [step : PollSteps, from : 0 .. MaxHead + 1, to : 0 .. MaxHead]
        BY <1>11
      <4> QED BY <1>15, <4>1
    <3> HIDE DEF inserting, saving
    <3>1. CASE ReadLogs(p)
      <4>1. CASE PollTo(p, "insert") /\ UNCHANGED <<last, saved>>
        <5>1. poll' = [poll EXCEPT ![p] = inserting]
          BY <4>1 DEF PollTo, inserting
        <5> QED BY <3>0, <4>1, <5>1 DEF inserting
      <4>2. CASE Found(p) = {} /\ PollTo(p, "save") /\ last' = t /\ UNCHANGED saved
        <5>1. poll' = [poll EXCEPT ![p] = saving]
          BY <4>2 DEF PollTo, saving
        <5> QED BY <2>5, <3>0, <4>2, <5>1 DEF saving
      <4>3. CASE PollEnds(p) /\ UNCHANGED <<last, saved>>
        BY <3>0, <4>3 DEF PollEnds
      <4> QED BY <2>2, <3>1, <4>1, <4>2, <4>3 DEF ReadLogs
    <3>2. CASE PersistEvents(p)
      <4>1. PollTo(p, "save") /\ last' = t /\ UNCHANGED saved
        BY <2>2, <3>2 DEF PersistEvents
      <4>2. poll' = [poll EXCEPT ![p] = saving]
        BY <4>1 DEF PollTo, saving
      <4> QED BY <2>5, <3>0, <3>2, <4>1, <4>2 DEF saving
    <3>3. CASE SaveCheckpoint(p)
      <4>1. PollEnds(p) /\ saved' \in {saved, t} /\ UNCHANGED last /\ SettledUpTo(t)'
        BY <2>2, <2>5, <3>3 DEF SaveCheckpoint
      <4> QED BY <3>0, <4>1 DEF PollEnds
    <3> QED BY <1>17, <3>1, <3>2, <3>3
  <2>7. /\ call \in [step : PollSteps, from : 0 .. MaxHead + 1, to : 0 .. MaxHead]
        /\ call.step \in {"idle", "insert", "save"}
        /\ call.step # "idle" => call.from = f /\ call.to = t
    <3> DEFINE Calls == [step : PollSteps, from : 0 .. MaxHead + 1, to : 0 .. MaxHead]
    <3>1. poll[p] \in Calls /\ f = poll[p].from /\ t = poll[p].to
      BY <1>11, <2>2
    <3>2. ASSUME NEW step \in PollSteps, call = [poll[p] EXCEPT !.step = step]
          PROVE  call \in Calls /\ call.step = step /\ call.from = f /\ call.to = t
      BY <3>1, <3>2
    <3>3. "insert" \in PollSteps /\ "save" \in PollSteps
      BY DEF PollSteps
    <3>4. CASE call = Idle
      BY <1>15, <3>4
    <3>5. CASE call # Idle
      <4>1. \E step \in {"insert", "save"} : call = [poll[p] EXCEPT !.step = step]
        BY <2>6, <3>5
      <4> QED BY <3>2, <3>3, <4>1
    <3> QED BY <3>4, <3>5
  <2>8. poll'[p] = call
    BY <1>1, <2>6 DEF IndexInv, IndexTypeOK
  <2>9. PollInv(p)'
    BY <2>1, <2>2, <2>4, <2>6, <2>7, <2>8 DEF PollInv
  <2>10. /\ last' \in 0 .. head /\ (last' = last \/ SettledUpTo(last)')
         /\ saved' \in 0 .. head /\ (saved' = saved \/ SettledUpTo(saved)')
    <3>1. t \in 0 .. head /\ last \in 0 .. head /\ saved \in 0 .. head
      BY <1>1, <1>2, <2>2 DEF IndexInv
    <3>2. last' # last => SettledUpTo(last)'
      BY <2>6 DEF SettledUpTo
    <3>3. saved' # saved => SettledUpTo(saved)'
      BY <2>6 DEF SettledUpTo
    <3> QED BY <2>6, <3>1, <3>2, <3>3
  <2> QED BY <1>10, <2>1, <2>3, <2>6, <2>7, <2>9, <2>10
<1>18. CASE UNCHANGED indexVars
  BY <1>1, <1>18 DEF indexVars, IndexInv, IndexTypeOK, SettledUpTo, Settled, PollInv
<1> QED BY <1>1, <1>3, <1>6, <1>7, <1>8, <1>9, <1>13, <1>16, <1>17, <1>18
        DEF IndexNext, PollStep

\* No checkpoint passes an event that is neither stored nor given up, for every
\* chain, every number of polls under way together and every batch size
\* (event-indexer.service.ts:45 and 148).
THEOREM CheckpointNeverSkips == IndexSpec => []CheckpointSkipsNothing
<1>1. IndexInv => CheckpointSkipsNothing
  BY DEF IndexInv, SettledUpTo, CheckpointSkipsNothing
<1> QED BY IndexStart, IndexStep, <1>1, PTL DEF IndexSpec

\* Without overlapping polls and a start below what was stored, the table holds every
\* block at most once and none beyond the checkpoint in memory, once that is read, and
\* the poll under way reads on from there.
OnceInv ==
    /\ IndexInv /\ repolled \in BOOLEAN
    /\ \A b \in Blocks : rows[b] > 0 => b <= head
    /\ ~repolled =>
          /\ \A b \in Blocks : /\ rows[b] <= 1
                               /\ rows[b] > 0 /\ phase \notin {"down", "base"} => b <= last
          /\ \A p, q \in Polls : poll[p].step # "idle" /\ poll[q].step # "idle" => p = q
          /\ \A p \in Polls : poll[p].step \in {"logs", "insert"} =>
                poll[p].from = last + 1 /\ poll[p].to > last

LEMMA OnceStart == IndexInit => OnceInv
<1>1. SUFFICES ASSUME IndexInit PROVE OnceInv
  OBVIOUS
<1>2. IndexInv
  BY <1>1, IndexStart
<1>3. /\ \A b \in Blocks : rows[b] = 0
      /\ \A p \in Polls : poll[p].step = "idle"
      /\ repolled \in BOOLEAN
  BY <1>1 DEF IndexInit, Idle
<1> QED BY <1>2, <1>3 DEF OnceInv

LEMMA OnceStep == OnceInv /\ [IndexNext]_indexVars => OnceInv'
<1>1. SUFFICES ASSUME OnceInv, [IndexNext]_indexVars PROVE OnceInv'
  OBVIOUS
<1>2. /\ head \in Nat /\ last \in Nat /\ saved \in Nat /\ MaxHead \in Nat
      /\ last <= head /\ Blocks = 1 .. MaxHead /\ rows \in [Blocks -> 0 .. 2]
  BY <1>1, IndexerAssumption DEF OnceInv, IndexInv, IndexTypeOK, Blocks
<1>3. IndexInv /\ IndexInv'
  BY <1>1, IndexStep DEF OnceInv
<1>4. \A p \in Polls : poll[p].step # "idle" => phase \in {"running", "stopping"}
  BY <1>1 DEF OnceInv, IndexInv, IndexTypeOK
<1>6. ASSUME UNCHANGED <<rows, phase, last, poll, repolled>>, head <= head' PROVE OnceInv'
  <2>1. head' \in Nat
    BY <1>3, IndexerAssumption DEF IndexInv, IndexTypeOK
  <2> QED BY <1>1, <1>2, <1>3, <1>6, <2>1 DEF OnceInv
\* A start, up to its timer.
<1>8. ASSUME \A p \in Polls : poll[p].step = "idle", UNCHANGED <<head, rows, poll>>,
             repolled' \in BOOLEAN, ~repolled' => ~repolled,
             ~repolled' => \A b \in Blocks :
                rows[b] > 0 /\ phase' \notin {"down", "base"} => b <= last'
      PROVE  OnceInv'
  BY <1>1, <1>3, <1>8 DEF OnceInv
<1>7. ASSUME Start PROVE OnceInv'
  <2>1. /\ phase = "down" /\ UNCHANGED <<head, rows, poll>>
        /\ phase' = IF last' = 0 THEN "base" ELSE "gap"
        /\ repolled' = (repolled \/ (last' # 0 /\ \E b \in Blocks : rows[b] > 0 /\ b > last'))
    BY <1>7 DEF Start
  <2>2. \A p \in Polls : poll[p].step = "idle"
    BY <1>4, <2>1
  <2>3. repolled' \in BOOLEAN /\ (~repolled' => ~repolled)
    BY <1>1, <2>1 DEF OnceInv
  <2>4. last' \in Nat
    BY <1>3, IndexerAssumption DEF IndexInv, IndexTypeOK
  <2>5. ASSUME ~repolled', NEW b \in Blocks, rows[b] > 0, phase' # "base" PROVE b <= last'
    <3>1. ~(b > last')
      BY <2>1, <2>5
    <3> QED BY <1>2, <2>4, <3>1
  <2> QED BY <1>8, <2>1, <2>2, <2>3, <2>5
<1>9. ASSUME StartAtHead \/ StartPolling PROVE OnceInv'
  <2>1. /\ phase \in {"base", "gap"} /\ UNCHANGED <<head, rows, poll, repolled>>
        /\ \/ phase' = "down" \/ last' = head
           \/ phase = "gap" /\ last' = last
           \/ phase = "gap" /\ head > last + Retention /\ last' = head - Retention
    BY <1>9 DEF StartAtHead, StartPolling
  <2>2. \A p \in Polls : poll[p].step = "idle"
    BY <1>4, <2>1
  <2>3. \/ phase' = "down" \/ last' = head
        \/ phase = "gap" /\ last' \in Nat /\ last <= last'
    BY <1>2, <2>1, IndexerAssumption
  <2>4. ASSUME ~repolled', NEW b \in Blocks, rows[b] > 0, phase' # "down" PROVE b <= last'
    BY <1>1, <1>2, <2>1, <2>3, <2>4 DEF OnceInv
  <2> QED BY <1>1, <1>8, <2>1, <2>2, <2>4 DEF OnceInv
<1>10. ASSUME Stop \/ Exit PROVE OnceInv'
  <2>1. /\ UNCHANGED <<head, rows, last, repolled>>
        /\ \/ poll' = poll /\ phase = "running" /\ phase' = "stopping"
           \/ poll' = [p \in Polls |-> Idle] /\ phase' = "down"
    BY <1>10 DEF Stop, Exit
  <2> QED BY <1>1, <1>3, <2>1 DEF OnceInv, Idle
<1>11. ASSUME NEW p \in Polls, NEW call, poll' = [poll EXCEPT ![p] = call],
              phase \in {"running", "stopping"}, UNCHANGED <<phase, head>>,
              rows' \in [Blocks -> 0 .. 2], last' \in Nat, repolled' \in BOOLEAN,
              \A b \in Blocks : rows'[b] > 0 => b <= head,
              ~repolled' =>
                 /\ \A b \in Blocks : rows'[b] <= 1 /\ (rows'[b] > 0 => b <= last')
                 /\ \A q \in Polls \ {p} : poll[q].step = "idle"
                 /\ call.step \in {"logs", "insert"} => call.from = last' + 1 /\ call.to > last'
       PROVE  OnceInv'
  <2>1. poll'[p] = call /\ \A q \in Polls \ {p} : poll'[q] = poll[q]
    BY <1>3, <1>11 DEF IndexInv, IndexTypeOK
  <2> QED BY <1>2, <1>3, <1>11, <2>1 DEF OnceInv
<1>12. \A p \in Polls :
          /\ poll[p] \in [step : PollSteps, from : 0 .. MaxHead + 1, to : 0 .. MaxHead]
          /\ poll[p].from \in Nat /\ poll[p].to \in Nat
  BY <1>1, <1>2 DEF OnceInv, IndexInv, IndexTypeOK
<1>13. ASSUME NEW p \in Polls, Tick(p) PROVE OnceInv'
  <2>1. /\ poll' = [poll EXCEPT ![p] = [poll[p] EXCEPT !.step = "head"]] /\ phase = "running"
        /\ repolled' = (repolled \/ \E q \in Polls : poll[q].step # "idle")
        /\ UNCHANGED <<rows, last, head>>
    BY <1>13 DEF Tick, PollTo
  <2>2. [poll[p] EXCEPT !.step = "head"].step = "head"
    BY <1>12
  <2>3. /\ \A q \in Polls : poll[q].step = "idle" \/ repolled'
        /\ repolled \in BOOLEAN /\ (~repolled' => ~repolled)
    BY <1>1, <2>1 DEF OnceInv
  <2>4. /\ \A b \in Blocks : rows'[b] > 0 => b <= head
        /\ ~repolled' => \A b \in Blocks : rows'[b] <= 1 /\ (rows'[b] > 0 => b <= last')
    BY <1>1, <2>1, <2>3 DEF OnceInv
  <2>5. rows' \in [Blocks -> 0 .. 2] /\ last' \in Nat /\ repolled' \in BOOLEAN
    BY <1>2, <2>1, <2>3
  <2>6. PICK call : call = [poll[p] EXCEPT !.step = "head"]
    OBVIOUS
  <2>7. call.step = "head" /\ poll' = [poll EXCEPT ![p] = call]
    BY <2>1, <2>2, <2>6
  <2>8. UNCHANGED <<phase, head>>
    BY <1>13 DEF Tick
  <2> QED BY <1>11, <2>1, <2>3, <2>4, <2>5, <2>7, <2>8
<1>14. \A p, q \in Polls : ~repolled /\ p # q /\ poll[p].step # "idle" => poll[q].step = "idle"
  BY <1>1 DEF OnceInv
<1>15. ASSUME NEW p \in Polls, ReadHead(p) PROVE OnceInv'
  <2>1. /\ poll[p].step = "head" /\ UNCHANGED <<rows, last, phase, head, repolled>>
        /\ phase \in {"running", "stopping"}
        /\ \A q \in Polls \ {p} : ~repolled => poll[q].step = "idle"
    BY <1>4, <1>14, <1>15 DEF ReadHead
  <2>2. /\ repolled' \in BOOLEAN /\ rows' \in [Blocks -> 0 .. 2] /\ last' \in Nat
        /\ \A b \in Blocks : rows'[b] > 0 => b <= head
        /\ ~repolled' => \A b \in Blocks : rows'[b] <= 1 /\ (rows'[b] > 0 => b <= last')
    BY <1>1, <1>2, <2>1 DEF OnceInv
  <2>3. ASSUME NEW call, poll' = [poll EXCEPT ![p] = call],
               call.step \in {"logs", "insert"} => call.from = last + 1 /\ call.to > last
        PROVE  OnceInv'
    BY <1>11, <2>1, <2>2, <2>3
  <2>4. CASE PollEnds(p)
    BY <2>3, <2>4 DEF PollEnds, Idle
  <2>5. CASE /\ FirstBlock <= head
             /\ poll' = [poll EXCEPT ![p] =
                   [step |-> "logs", from |-> FirstBlock, to |-> LastBlock]]
    <3>1. FirstBlock = last + 1 /\ LastBlock > last
      <4>1. head \in Nat /\ FirstBlock + BatchBlocks - 1 \in Nat
        BY <1>2, IndexerAssumption DEF FirstBlock
      <4> QED BY <1>2, <2>5, <4>1, MinOfTwo, IndexerAssumption DEF FirstBlock, LastBlock
    <3> QED BY <2>3, <2>5, <3>1
  <2> QED BY <1>15, <2>4, <2>5 DEF ReadHead
<1>16. ASSUME NEW p \in Polls, ReadLogs(p) PROVE OnceInv'
  <2>1. /\ poll[p].step = "logs" /\ UNCHANGED <<rows, phase, head, repolled>>
        /\ phase \in {"running", "stopping"}
        /\ \A q \in Polls \ {p} : ~repolled => poll[q].step = "idle"
    BY <1>4, <1>14, <1>16 DEF ReadLogs
  <2>2. ~repolled => poll[p].from = last + 1 /\ poll[p].to > last
    BY <1>1, <2>1 DEF OnceInv
  <2>3. PICK call :
           /\ poll' = [poll EXCEPT ![p] = call]
           /\ \/ last' = last /\ call.step = "idle"
              \/ last' = last /\ call = [poll[p] EXCEPT !.step = "insert"]
              \/ last' = poll[p].to /\ call.step = "save"
    <3>1. [poll[p] EXCEPT !.step = "save"].step = "save"
      BY <1>12
    <3> QED BY <1>16, <3>1 DEF ReadLogs, PollTo, PollEnds, Idle
  <2>4. /\ last' \in Nat /\ (~repolled => last <= last')
        /\ call.step = "idle" \/ call.step = "save"
           \/ (last' = last /\ call.from = poll[p].from /\ call.to = poll[p].to)
    BY <1>2, <1>12, <2>2, <2>3
  <2>5. /\ repolled' \in BOOLEAN /\ rows' \in [Blocks -> 0 .. 2]
        /\ \A b \in Blocks : rows'[b] > 0 => b <= head
        /\ ~repolled' => \A b \in Blocks : rows'[b] <= 1 /\ (rows'[b] > 0 => b <= last')
    BY <1>1, <1>2, <2>1, <2>4 DEF OnceInv
  <2> QED BY <1>11, <2>1, <2>2, <2>3, <2>4, <2>5
<1>17. ASSUME NEW p \in Polls, PersistEvents(p) PROVE OnceInv'
  <2>1. /\ poll[p].step = "insert" /\ UNCHANGED <<phase, head, repolled>>
        /\ phase \in {"running", "stopping"}
        /\ \A q \in Polls \ {p} : ~repolled => poll[q].step = "idle"
        /\ last' = poll[p].to
        /\ poll' = [poll EXCEPT ![p] = [poll[p] EXCEPT !.step = "save"]]
    BY <1>4, <1>14, <1>17 DEF PersistEvents, PollTo
  <2>2. ~repolled => poll[p].from = last + 1 /\ poll[p].to > last
    BY <1>1, <2>1 DEF OnceInv
  <2>3. [poll[p] EXCEPT !.step = "save"].step = "save"
    BY <1>12
  <2>4. \A b \in Blocks :
           /\ rows[b] \in 0 .. 2 /\ rows'[b] \in 0 .. 2
           /\ rows'[b] = rows[b] \/ (b \in Found(p) /\ rows'[b] <= rows[b] + 1)
    <3>1. CASE rows' = [b \in Blocks |->
                  IF b \in Found(p) THEN Min({2, rows[b] + 1}) ELSE rows[b]]
      <4>1. \A b \in Blocks : /\ rows[b] \in 0 .. 2
                              /\ Min({2, rows[b] + 1}) \in 1 .. 2
                              /\ Min({2, rows[b] + 1}) <= rows[b] + 1
        BY <1>2, MinOfTwo
      <4> QED BY <3>1, <4>1
    <3>2. CASE UNCHANGED rows
      BY <1>2, <3>2
    <3> QED BY <1>17, <3>1, <3>2 DEF PersistEvents
  <2>5. ASSUME ~repolled, NEW b \in Blocks
        PROVE  rows'[b] <= 1 /\ (rows'[b] > 0 => b <= last')
    <3>1. rows[b] <= 1 /\ (rows[b] > 0 => b <= last)
      BY <1>1, <2>1, <2>5 DEF OnceInv
    <3>2. CASE b \in Found(p)
      <4>1. b > last /\ b <= last' /\ b \in Nat
        BY <1>2, <2>1, <2>2, <2>5, <3>2 DEF Found
      <4> QED BY <1>2, <2>4, <2>5, <3>1, <4>1
    <3>3. CASE b \notin Found(p)
      BY <1>2, <1>12, <2>1, <2>2, <2>4, <2>5, <3>1, <3>3
    <3> QED BY <3>2, <3>3
  <2>6. /\ repolled' \in BOOLEAN /\ last' \in Nat /\ rows' \in [Blocks -> 0 .. 2]
        /\ ~repolled' => ~repolled
    BY <1>1, <1>3, <1>12, <2>1 DEF OnceInv, IndexInv, IndexTypeOK
  <2>7. \A b \in Blocks : rows'[b] > 0 => b <= head
    BY <1>1, <1>2, <2>4 DEF OnceInv, IndexInv, Found
  <2> QED BY <1>11, <2>1, <2>3, <2>5, <2>6, <2>7
<1>18. ASSUME NEW p \in Polls, SaveCheckpoint(p) PROVE OnceInv'
  <2>1. /\ poll[p].step = "save" /\ UNCHANGED <<rows, last, phase, head, repolled>>
        /\ phase \in {"running", "stopping"}
        /\ \A q \in Polls \ {p} : ~repolled => poll[q].step = "idle"
        /\ poll' = [poll EXCEPT ![p] = Idle]
    BY <1>4, <1>14, <1>18 DEF SaveCheckpoint, PollEnds
  <2>2. /\ repolled' \in BOOLEAN /\ rows' \in [Blocks -> 0 .. 2] /\ last' \in Nat
        /\ \A b \in Blocks : rows'[b] > 0 => b <= head
        /\ ~repolled' => \A b \in Blocks : rows'[b] <= 1 /\ (rows'[b] > 0 => b <= last')
    BY <1>1, <1>2, <2>1 DEF OnceInv
  <2> QED BY <1>11, <2>1, <2>2 DEF Idle
<1>19. ASSUME NEW hasEvents \in BOOLEAN, Mine(hasEvents) PROVE OnceInv'
  BY <1>2, <1>6, <1>19 DEF Mine
<1>20. CASE UNCHANGED indexVars
  BY <1>2, <1>6, <1>20 DEF indexVars
<1> QED BY <1>1, <1>7, <1>9, <1>10, <1>13, <1>15, <1>16, <1>17, <1>18, <1>19, <1>20
        DEF IndexNext, PollStep

\* An event whose block is in the table once is found by its id.
LEMMA OneRowIsFound ==
    ASSUME OnceInv, ~repolled, NEW e \in FindAll
    PROVE  FindById(e.id) = {e}
<1>1. PICK row \in Table : e = Entity(row)
  BY DEF FindAll
<1>2. \A r \in Table : /\ r[1] \in Blocks /\ r[2] = 1 /\ r = <<r[1], r[2]>>
  <2>1. ASSUME NEW r \in Table PROVE /\ r[1] \in Blocks /\ r[2] = 1 /\ r = <<r[1], r[2]>>
    <3>1. r \in Blocks \X (1 .. 2) /\ r[2] <= rows[r[1]]
      BY DEF Table
    <3>2. r[1] \in Blocks /\ r[2] \in 1 .. 2 /\ r = <<r[1], r[2]>>
      BY <3>1
    <3>3. rows[r[1]] <= 1 /\ rows[r[1]] \in 0 .. 2
      BY <3>2 DEF OnceInv, IndexInv, IndexTypeOK
    <3> QED BY <3>1, <3>2, <3>3
  <2> QED BY <2>1
<1> DEFINE found == {r \in Table : r[1] = e.id}
<1>3. e.id = row[1]
  BY <1>1 DEF Entity
<1>4. found = {row}
  <2>1. \A r \in found : r = row
    <3>1. ASSUME NEW r \in found PROVE r = row
      <4>1. r[1] = row[1] /\ r[2] = row[2] /\ r = <<r[1], r[2]>> /\ row = <<row[1], row[2]>>
        BY <1>1, <1>2, <1>3, <3>1
      <4> QED BY <4>1
    <3> QED BY <3>1
  <2> QED BY <1>1, <1>3, <2>1
<1>5. Cardinality(found) = 1
  BY <1>4, FS_Singleton
<1>6. FindById(e.id) = {Entity(r) : r \in found}
  BY <1>5 DEF FindById
<1> QED BY <1>1, <1>4, <1>6

\* Every event in the list is found by its id unless polls overlapped or a start found
\* a checkpoint below what was stored (activity.repository.impl.ts:73).
THEOREM StoredEventsAreAlwaysFound == IndexSpec => []StoredEventsAreFound
<1>1. OnceInv => StoredEventsAreFound
  BY OneRowIsFound DEF StoredEventsAreFound
<1> QED BY OnceStart, OnceStep, <1>1, PTL DEF IndexSpec

-----------------------------------------------------------------------------
(* Saved strategies.                                                       *)

CatalogSpec == CatalogInit /\ [][CatalogNext]_catalogVars

CreateSteps == {"new", "save", "count", "version", "link", "done", "failed"}

\* One create call and the rows that are its own: the version it counted is the
\* first, exists when the strategy is linked to it, and is not there earlier.
CreateInv(c) ==
    /\ create[c].step \in CreateSteps
    /\ create[c].step # "new" =>
          create[c] \in [step : CreateSteps, owner : Owners, public : BOOLEAN,
                         number : Nat]
    /\ create[c].step \in {"new", "save", "count", "version"} =>
          \A v \in versions : v.strategy # c
    /\ create[c].step \in {"version", "link", "done"} => create[c].number = 1
    /\ create[c].step \in {"link", "done"} =>
          [strategy |-> c, version |-> 1] \in versions

CatalogInv ==
    /\ DOMAIN create = CreateCalls
    /\ \A c \in CreateCalls : CreateInv(c)
    /\ \A s \in strategies :
          /\ s.strategy \in CreateCalls
          /\ s.current = NoVersion => create[s.strategy].step # "done"
          /\ s.current # NoVersion => s.current = 1 /\ create[s.strategy].step = "done"

LEMMA CatalogStart == CatalogInit => CatalogInv
BY DEF CatalogInit, CatalogInv, CreateInv, CreateSteps

\* The version a call counts when it has none yet.
LEMMA FirstVersion ==
    ASSUME NEW c, \A v \in versions : v.strategy # c
    PROVE  GetNextVersionNumber(c) = 1
<1> DEFINE numbers == { v.version : v \in { w \in versions : w.strategy = c } }
<1>1. numbers = {} /\ Cardinality(numbers) = 0
  BY FS_EmptySet
<1> HIDE DEF numbers
<1>2. (1 .. Cardinality(numbers) + 1) = {1}
  BY <1>1
<1>3. \A n \in {1} : n \notin numbers /\ \A k \in numbers : k < n
  BY <1>1
<1>4. (CHOOSE n \in 1 .. Cardinality(numbers) + 1 :
            n \notin numbers /\ \A k \in numbers : k < n) = 1
  BY <1>2, <1>3
<1> QED BY <1>4 DEF GetNextVersionNumber, numbers

\* One call takes a step, adding at most its own version and its own row.
LEMMA CreateMoves ==
    ASSUME CatalogInv, NEW c \in CreateCalls, create[c].step # "done",
           \A d \in CreateCalls \ {c} : create'[d] = create[d],
           DOMAIN create' = CreateCalls, CreateInv(c)',
           versions \subseteq versions',
           \A v \in versions' \ versions : v.strategy = c,
           \A s \in strategies' :
              \/ s \in strategies /\ (s.strategy = c => create'[c].step # "done")
              \/ /\ s.strategy = c
                 /\ s.current = NoVersion => create'[c].step # "done"
                 /\ s.current # NoVersion => s.current = 1 /\ create'[c].step = "done"
    PROVE  CatalogInv'
<1>1. ASSUME NEW d \in CreateCalls \ {c} PROVE CreateInv(d)'
  BY <1>1 DEF CatalogInv, CreateInv
<1>2. ASSUME NEW s \in strategies'
      PROVE  /\ s.strategy \in CreateCalls
             /\ s.current = NoVersion => create'[s.strategy].step # "done"
             /\ s.current # NoVersion => s.current = 1 /\ create'[s.strategy].step = "done"
  BY <1>2 DEF CatalogInv
<1> QED BY <1>1, <1>2 DEF CatalogInv

LEMMA CatalogStep == CatalogInv /\ [CatalogNext]_catalogVars => CatalogInv'
<1>1. SUFFICES ASSUME CatalogInv, [CatalogNext]_catalogVars PROVE CatalogInv'
  OBVIOUS
<1>2. ASSUME NEW c \in CreateCalls, NEW o \in Owners, NEW p \in BOOLEAN,
             CallCreate(c, o, p)
      PROVE  CatalogInv'
  <2>1. create[c].step = "new" /\ CreateInv(c) /\ DOMAIN create = CreateCalls
    BY <1>1, <1>2 DEF CallCreate, CatalogInv
  <2>2. CreateInv(c)'
    BY <1>2, <2>1 DEF CallCreate, CreateInv, CreateSteps, NoVersion
  <2>3. \A d \in CreateCalls \ {c} : create'[d] = create[d]
    BY <1>2, <2>1 DEF CallCreate
  <2>4. create'[c].step = "save"
    BY <1>2, <2>1 DEF CallCreate
  <2> QED BY <1>1, <1>2, <2>1, <2>2, <2>3, <2>4, CreateMoves DEF CallCreate
<1>3. ASSUME NEW c \in CreateCalls,
             SaveStrategy(c) \/ CountVersions(c) \/ SaveVersion(c) \/ LinkVersion(c)
      PROVE  CatalogInv'
  <2> DEFINE CallRecords == [step : CreateSteps, owner : Owners, public : BOOLEAN,
                         number : Nat]
  <2>1. /\ create[c].step \in {"save", "count", "version", "link"}
        /\ CreateInv(c) /\ DOMAIN create = CreateCalls /\ create[c] \in CallRecords
    BY <1>1, <1>3
       DEF SaveStrategy, CountVersions, SaveVersion, LinkVersion, CatalogInv, CreateInv
  <2>2. ASSUME NEW step \in CreateSteps, StepTo(c, step)
        PROVE  /\ create'[c] \in CallRecords /\ create'[c].step = step
               /\ create'[c].number = create[c].number
               /\ \A d \in CreateCalls \ {c} : create'[d] = create[d]
               /\ DOMAIN create' = CreateCalls
    BY <2>1, <2>2 DEF StepTo
  <2> HIDE DEF CallRecords
  <2>3. ASSUME NEW n \in {NoVersion, 1}, Upsert(c, n)
        PROVE  \A s \in strategies' :
                  \/ s \in strategies /\ s.strategy # c
                  \/ s.strategy = c /\ s.current = n
    BY <2>3 DEF Upsert, RowOf
  <2>4. "failed" \in CreateSteps /\ "count" \in CreateSteps /\ "version" \in CreateSteps
        /\ "link" \in CreateSteps /\ "done" \in CreateSteps
    BY DEF CreateSteps
  <2>5. CASE CallFails(c)
    <3>1. StepTo(c, "failed") /\ UNCHANGED <<strategies, versions>>
      BY <2>5 DEF CallFails
    <3>2. /\ create'[c] \in CallRecords /\ create'[c].step = "failed"
          /\ \A d \in CreateCalls \ {c} : create'[d] = create[d]
          /\ DOMAIN create' = CreateCalls
      BY <2>2, <2>4, <3>1
    <3>3. CreateInv(c)'
      BY <2>4, <3>2 DEF CreateInv, CallRecords
    <3>4. create[c].step # "done"
      BY <2>1
    <3> QED BY <1>1, <3>1, <3>2, <3>3, <3>4, CreateMoves
  <2>6. CASE SaveStrategy(c) /\ ~CallFails(c)
    <3>1. PICK step \in {"count", "failed"} :
             /\ StepTo(c, step) /\ UNCHANGED versions
             /\ Upsert(c, NoVersion) \/ UNCHANGED strategies
      BY <2>6 DEF SaveStrategy
    <3>2. /\ create'[c] \in CallRecords /\ create'[c].step = step
          /\ \A d \in CreateCalls \ {c} : create'[d] = create[d]
          /\ DOMAIN create' = CreateCalls
      BY <2>2, <2>4, <3>1
    <3>3. CreateInv(c)' /\ create[c].step = "save"
      BY <2>1, <2>4, <2>6, <3>1, <3>2 DEF CreateInv, CallRecords, SaveStrategy
    <3>4. \A s \in strategies' :
             s \in strategies \/ (s.strategy = c /\ s.current = NoVersion)
      BY <2>3, <3>1
    <3> QED BY <1>1, <3>1, <3>2, <3>3, <3>4, CreateMoves
  <2>7. CASE CountVersions(c) /\ ~CallFails(c)
    <3>1. /\ UNCHANGED <<strategies, versions>> /\ create[c].step = "count"
          /\ create' = [create EXCEPT ![c].step = "version",
                                      ![c].number = GetNextVersionNumber(c)]
      BY <2>7 DEF CountVersions
    <3>2. GetNextVersionNumber(c) = 1
      BY <2>1, <3>1, FirstVersion DEF CreateInv
    <3>3. /\ create'[c] \in CallRecords /\ create'[c].step = "version"
          /\ create'[c].number = 1
          /\ \A d \in CreateCalls \ {c} : create'[d] = create[d]
          /\ DOMAIN create' = CreateCalls
      <4>1. create' = [create EXCEPT ![c] =
                          [create[c] EXCEPT !.step = "version", !.number = 1]]
        BY <2>1, <3>1, <3>2
      <4>2. create'[c] = [create[c] EXCEPT !.step = "version", !.number = 1]
        BY <2>1, <4>1
      <4>3. /\ [create[c] EXCEPT !.step = "version", !.number = 1] \in CallRecords
            /\ [create[c] EXCEPT !.step = "version", !.number = 1].step = "version"
            /\ [create[c] EXCEPT !.step = "version", !.number = 1].number = 1
        BY <2>1, <2>4 DEF CallRecords
      <4> QED BY <2>1, <4>1, <4>2, <4>3
    <3>4. CreateInv(c)'
      BY <2>1, <2>4, <3>1, <3>3 DEF CreateInv, CallRecords
    <3> QED BY <1>1, <3>1, <3>3, <3>4, CreateMoves
  <2>8. CASE SaveVersion(c) /\ ~CallFails(c)
    <3>1. /\ UNCHANGED strategies /\ create[c].step = "version"
          /\ versions' = versions \cup
                {[strategy |-> c, version |-> create[c].number]}
          /\ StepTo(c, "link") /\ create[c].number = 1
      BY <2>1, <2>8 DEF SaveVersion, CreateInv
    <3>2. /\ create'[c] \in CallRecords /\ create'[c].step = "link"
          /\ create'[c].number = 1
          /\ \A d \in CreateCalls \ {c} : create'[d] = create[d]
          /\ DOMAIN create' = CreateCalls
      BY <2>2, <2>4, <3>1
    <3>3. CreateInv(c)'
      BY <2>4, <3>1, <3>2 DEF CreateInv, CallRecords
    <3>4. versions \subseteq versions' /\ \A v \in versions' \ versions : v.strategy = c
      BY <3>1
    <3> QED BY <1>1, <3>1, <3>2, <3>3, <3>4, CreateMoves
  <2>9. CASE LinkVersion(c) /\ ~CallFails(c)
    <3>1. /\ UNCHANGED versions /\ create[c].step = "link"
          /\ Upsert(c, 1) /\ StepTo(c, "done") /\ create[c].number = 1
      BY <2>1, <2>9 DEF LinkVersion, CreateInv
    <3>2. /\ create'[c] \in CallRecords /\ create'[c].step = "done"
          /\ create'[c].number = 1
          /\ \A d \in CreateCalls \ {c} : create'[d] = create[d]
          /\ DOMAIN create' = CreateCalls
      BY <2>2, <2>4, <3>1
    <3>3. CreateInv(c)'
      BY <2>1, <2>4, <3>1, <3>2 DEF CreateInv, CallRecords
    <3>4. \A s \in strategies' :
             \/ s \in strategies /\ s.strategy # c
             \/ s.strategy = c /\ s.current = 1
      BY <2>3, <3>1
    <3>5. 1 # NoVersion
      BY DEF NoVersion
    <3> QED BY <1>1, <3>1, <3>2, <3>3, <3>4, <3>5, CreateMoves
  <2> QED BY <1>3, <2>5, <2>6, <2>7, <2>8, <2>9
<1>4. CASE UNCHANGED catalogVars
  BY <1>1, <1>4 DEF catalogVars, CatalogInv, CreateInv
<1> QED BY <1>1, <1>2, <1>3, <1>4 DEF CatalogNext

\* A listed strategy names a version of its own, and one without is the trace of
\* a call that failed or goes on, for every set of calls and owners and however
\* many database calls fail (defi_strategies.service.ts:40).
THEOREM ListedVersionsAlwaysExist == CatalogSpec => []ListedVersionsExist
<1>1. CatalogInv => ListedVersionsExist
  <2>1. SUFFICES ASSUME CatalogInv, NEW s \in strategies
                 PROVE  IF s.current = NoVersion
                        THEN create[s.strategy].step # "done"
                        ELSE [strategy |-> s.strategy, version |-> s.current] \in versions
    BY DEF ListedVersionsExist, GetAll
  <2> QED BY <2>1 DEF CatalogInv, CreateInv
<1> QED BY CatalogStart, CatalogStep, <1>1, PTL DEF CatalogSpec

-----------------------------------------------------------------------------
(* Schema migrations.                                                      *)

MigrationSpec == MigrationInit(Databases) /\ [][MigrationNext]_migVars

FileNames == {"base", "events", "required", "nonces", "core"}

AllBefore(i) == \A j \in 1 .. i - 1 : Files[j] \in registered

\* What is registered is in the database, but for 001 where it was not there at first; a
\* run past a file has registered it, or found it registered.
MigInv ==
    /\ legacy \subseteq tables /\ registered \subseteq tables \cup ({"events"} \ legacy)
    /\ registered \subseteq FileNames
    /\ \A i \in DOMAIN Files : Files[i] \in registered /\ i # 2 => AllBefore(i)
    /\ runner \in [step : {"idle", "base", "select", "exec", "record"}, at : 1 .. 5,
                   applied : SUBSET FileNames]
    /\ runner.step \in {"exec", "record"} =>
          /\ runner.applied \subseteq registered /\ AllBefore(runner.at)
    /\ runner.step = "record" => File \in tables

LEMMA FiveFiles ==
    /\ \A i \in 1 .. 5 : Files[i] \in FileNames
    /\ DOMAIN Files = 1 .. 5 /\ Len(Files) = 5
    /\ \A i \in 1 .. 5 : Files[i] = "events" <=> i = 2
    /\ \A i, j \in 1 .. 5 : Files[i] = Files[j] => i = j
<1>1. Len(Files) = 5 /\ DOMAIN Files = 1 .. 5
  BY DEF Files
<1>2. /\ Files[1] = "base" /\ Files[2] = "events" /\ Files[3] = "required"
      /\ Files[4] = "nonces" /\ Files[5] = "core"
  BY DEF Files
<1>3. \A i \in 1 .. 5 : i = 1 \/ i = 2 \/ i = 3 \/ i = 4 \/ i = 5
  OBVIOUS
<1>4. \A i \in 1 .. 5 : Files[i] \in FileNames
  BY <1>2, <1>3 DEF FileNames
<1>5. \A i \in 1 .. 5 : Files[i] = "events" <=> i = 2
  BY <1>2, <1>3
<1>6. \A i, j \in 1 .. 5 : Files[i] = Files[j] => i = j
  BY <1>2, <1>3
<1> QED BY <1>1, <1>4, <1>5, <1>6

LEMMA NextPendingFound ==
    ASSUME NEW from \in 1 .. 6, NEW applied
    PROVE  LET n == NextPending(from, applied)
           IN  /\ n \in from .. 6
               /\ \A j \in from .. n - 1 : Files[j] \in applied
<1> DEFINE Pending(i) == i = 6 \/ Files[i] \notin applied
<1>1. \E n \in from .. 6 : Pending(n) /\ \A j \in from .. n - 1 : Files[j] \in applied
  <2>1. SUFFICES ASSUME \A n \in from .. 6 :
                           (\A j \in from .. n - 1 : Files[j] \in applied) => ~Pending(n)
                 PROVE  FALSE
    OBVIOUS
  <2>2. ASSUME NEW n \in from .. 6, \A j \in from .. n - 1 : Files[j] \in applied
        PROVE  n + 1 \in from .. 6 /\ \A j \in from .. n : Files[j] \in applied
    <3>1. ~Pending(n)
      BY <2>1, <2>2
    <3> QED BY <2>2, <3>1
  <2> DEFINE Past(n) == n \in from .. 6 /\ \A j \in from .. n - 1 : Files[j] \in applied
  <2>3. \A n \in Int : Past(n) => Past(n + 1)
    BY <2>2
  <2>4. Past(from)
    OBVIOUS
  <2>5. \A n \in Int : Past(n) => n <= 6
    OBVIOUS
  <2> HIDE DEF Past
  <2> QED BY <2>3, <2>4, <2>5
<1>2. Len(Files) = 5
  BY FiveFiles
<1> QED BY <1>1, <1>2 DEF NextPending

LEMMA MigrationStart == MigrationInit(Databases) => MigInv
BY DEF MigrationInit, Databases, MigInv, Stopped

\* The loop goes on to a file before which everything is registered.
LEMMA AdvanceKeeps ==
    ASSUME NEW from \in 1 .. 6, NEW applied \in SUBSET FileNames, applied \subseteq registered',
           \A j \in 1 .. from - 1 : Files[j] \in registered',
           Advance(from, applied)
    PROVE  \/ runner' = Stopped
           \/ /\ runner' \in [step : {"exec"}, at : 1 .. 5, applied : SUBSET FileNames]
              /\ runner'.applied \subseteq registered' /\ AllBefore(runner.at)'
<1> DEFINE n == NextPending(from, applied)
<1>1. n \in from .. 6 /\ \A j \in from .. n - 1 : Files[j] \in applied
  BY NextPendingFound
<1>2. runner' = IF n > 5 THEN Stopped
                ELSE [step |-> "exec", at |-> n, applied |-> applied]
  BY FiveFiles DEF Advance
<1> HIDE DEF n
<1>3. ASSUME NEW j \in 1 .. n - 1 PROVE Files[j] \in registered'
  <2>1. CASE j \in 1 .. from - 1
    BY <2>1
  <2>2. CASE j \in from .. n - 1
    BY <1>1, <2>2
  <2> QED BY <1>1, <2>1, <2>2
<1>4. CASE n > 5
  BY <1>2, <1>4
<1>5. CASE n \in 1 .. 5
  <2>1. runner' = [step |-> "exec", at |-> n, applied |-> applied]
    BY <1>2, <1>5
  <2>2. AllBefore(runner.at)'
    BY <1>3, <2>1 DEF AllBefore
  <2> QED BY <1>5, <2>1, <2>2
<1> QED BY <1>1, <1>4, <1>5

LEMMA MigrationStep == MigInv /\ [MigrationNext]_migVars => MigInv'
<1>1. SUFFICES ASSUME MigInv, [MigrationNext]_migVars PROVE MigInv'
  OBVIOUS
<1>2. ASSUME UNCHANGED <<registered, legacy>>, tables \subseteq tables',
             \/ runner' = Stopped
             \/ /\ runner' \in [step : {"base", "select"}, at : 1 .. 5, applied : SUBSET FileNames]
             \/ /\ runner' \in [step : {"exec", "record"}, at : 1 .. 5, applied : SUBSET FileNames]
                /\ runner'.applied \subseteq registered' /\ AllBefore(runner.at)'
                /\ runner'.step = "record" => File' \in tables'
      PROVE  MigInv'
  BY <1>1, <1>2 DEF MigInv, Stopped, AllBefore
<1>3. CASE Crash
  BY <1>2, <1>3 DEF Crash, Exits
<1>4. CASE RunMigration
  BY <1>2, <1>4 DEF RunMigration, Stopped
<1>5. CASE ExecBase
  <2>1. runner' \in [step : {"select"}, at : 1 .. 5, applied : SUBSET FileNames]
    BY <1>1, <1>5 DEF ExecBase, MigInv
  <2>2. /\ registered' = registered \cup {"events"} /\ UNCHANGED legacy
        /\ tables \subseteq tables'
    BY <1>5 DEF ExecBase
  <2>3. ASSUME NEW i \in DOMAIN Files, Files[i] \in registered', i # 2 PROVE AllBefore(i)'
    BY <1>1, <2>2, <2>3, FiveFiles DEF MigInv, AllBefore
  <2> QED BY <1>1, <2>1, <2>2, <2>3 DEF MigInv, FileNames
<1>6. CASE SelectApplied
  <2>1. registered \in SUBSET FileNames /\ {} \in SUBSET FileNames
    BY <1>1 DEF MigInv
  <2>2. UNCHANGED <<tables, registered, legacy>>
    BY <1>6 DEF SelectApplied
  <2>3. ASSUME NEW applied \in SUBSET FileNames, applied \subseteq registered,
               Advance(1, applied)
        PROVE  MigInv'
    BY <1>2, <2>2, <2>3, AdvanceKeeps
  <2>4. Advance(1, registered) \/ Advance(1, {})
    BY <1>6 DEF SelectApplied
  <2> QED BY <2>1, <2>3, <2>4
<1>7. CASE ExecFile
  <2>1. CASE runner' = [runner EXCEPT !.step = "record"]
    <3>1. /\ runner' \in [step : {"record"}, at : 1 .. 5, applied : SUBSET FileNames]
          /\ runner'.at = runner.at /\ runner'.applied = runner.applied
          /\ runner.step = "exec"
      BY <1>1, <1>7, <2>1 DEF ExecFile, MigInv
    <3>2. /\ File' \in tables' /\ tables \subseteq tables'
          /\ UNCHANGED <<registered, legacy>>
      BY <1>7, <2>1, <3>1 DEF ExecFile, Creates, File, Exits, Stopped
    <3> QED BY <1>1, <1>2, <3>1, <3>2 DEF MigInv, AllBefore
  <2>2. CASE Exits /\ UNCHANGED tables
    BY <1>2, <1>7, <2>2 DEF ExecFile, Exits
  <2> QED BY <1>7, <2>1, <2>2 DEF ExecFile
<1>8. CASE File \in registered /\ Exits /\ UNCHANGED <<registered, tables, legacy>>
  BY <1>2, <1>8 DEF Exits
<1>10. CASE RecordMigration /\ File \notin registered
  <2>1. /\ runner.step = "record" /\ File \in tables /\ UNCHANGED <<tables, legacy>>
        /\ registered' = registered \cup {File}
        /\ Advance(runner.at + 1, runner.applied)
        /\ runner.applied \subseteq registered /\ AllBefore(runner.at)
        /\ runner.at \in 1 .. 5 /\ runner.applied \in SUBSET FileNames
    BY <1>1, <1>10 DEF RecordMigration, MigInv
  <2>2. \A j \in 1 .. runner.at : Files[j] \in registered'
    BY <2>1 DEF AllBefore, File
  <2>3. \/ runner' = Stopped
        \/ /\ runner' \in [step : {"exec"}, at : 1 .. 5, applied : SUBSET FileNames]
           /\ runner'.applied \subseteq registered' /\ AllBefore(runner.at)'
    <3>1. PICK at \in 1 .. 5, applied \in SUBSET FileNames :
             at = runner.at /\ applied = runner.applied
      BY <2>1
    <3>2. /\ at + 1 \in 1 .. 6 /\ applied \subseteq registered'
          /\ \A j \in 1 .. (at + 1) - 1 : Files[j] \in registered'
          /\ Advance(at + 1, applied)
      BY <2>1, <2>2, <3>1
    <3> QED BY <3>1, <3>2, AdvanceKeeps
  <2>4. ASSUME NEW i \in DOMAIN Files, Files[i] \in registered', i # 2
        PROVE  AllBefore(i)'
    <3>1. CASE i = runner.at
      BY <2>2, <3>1, FiveFiles DEF AllBefore
    <3>2. CASE i # runner.at
      <4>1. Files[i] \in registered
        BY <2>1, <2>4, <3>2, FiveFiles DEF File
      <4>2. AllBefore(i)
        BY <1>1, <2>4, <4>1 DEF MigInv
      <4> QED BY <2>1, <4>2 DEF AllBefore
    <3> QED BY <3>1, <3>2
  <2>5. File \in FileNames
    BY <2>1, FiveFiles DEF File
  <2>6. registered' \subseteq FileNames /\ registered' \subseteq tables' \cup ({"events"} \ legacy')
    BY <1>1, <2>1, <2>5 DEF MigInv
  <2>7. legacy' \subseteq tables'
    BY <1>1, <2>1 DEF MigInv
  <2> QED BY <2>3, <2>4, <2>6, <2>7 DEF MigInv, Stopped
<1>9. CASE UNCHANGED migVars
  BY <1>1, <1>9 DEF migVars, MigInv, AllBefore, File
<1>11. CASE RecordMigration
  BY <1>8, <1>10, <1>11 DEF RecordMigration
<1> QED BY <1>1, <1>3, <1>4, <1>5, <1>6, <1>7, <1>9, <1>11 DEF MigrationNext

\* From any database: what is registered exists, but for the 001 that 000_base takes on
\* trust, and nothing else is registered before its predecessors, wherever and however
\* often runs are cut off or read nothing of what was applied (run-migration.js:8).
THEOREM RegisteredMigrationsAlwaysExist == MigrationSpec => []RegisteredMigrationsExist
<1>1. MigInv => RegisteredMigrationsExist
  <2>1. SUFFICES ASSUME MigInv, NEW i \in DOMAIN Files, NEW j \in DOMAIN Files,
                        i < j, Files[j] \in registered, Files[j] # "events"
                 PROVE  Files[i] \in registered
    BY DEF MigInv, RegisteredMigrationsExist
  <2>2. j # 2 /\ i \in 1 .. j - 1
    BY <2>1, FiveFiles
  <2> QED BY <2>1, <2>2 DEF MigInv, AllBefore
<1> QED BY MigrationStart, MigrationStep, <1>1, PTL DEF MigrationSpec

-----------------------------------------------------------------------------
(* Off-chain votes.                                                        *)

GovSpec == GovInit /\ [][GovNext]_govVars

\* The two halves of the property, for one proposal.
NobodyTwice(p) ==
    \A i, j \in DOMAIN votes[p] :
        i < j /\ j <= i + RecentVotes => votes[p][i].voter # votes[p][j].voter
Tallied(p) == \A s \in BOOLEAN :
    /\ IsFiniteSet(Ballots(p, s))
    /\ Cast(p, s) = IF s THEN tally[p].for ELSE tally[p].against

GovInv ==
    /\ votes \in [Proposals -> Seq(Vote)]
    /\ tally \in [Proposals -> [for : Nat, against : Nat]]
    /\ \A p \in Proposals : NobodyTwice(p) /\ Tallied(p)

\* The rows that the query for the latest votes returns.
LEMMA RecentRows ==
    ASSUME NEW p \in Proposals, votes[p] \in Seq(Vote), NEW voter,
           ~HasVoted(voter, p), NEW i \in 1 .. Len(votes[p]),
           Len(votes[p]) + 1 <= i + RecentVotes
    PROVE  votes[p][i].voter # voter
<1> DEFINE n == Len(votes[p])
           m == IF n > RecentVotes THEN n - RecentVotes + 1 ELSE 1
<1>1. /\ n \in Nat /\ m \in Int /\ RecentVotes \in Nat /\ i \in m .. n
      /\ \A j \in m .. n : votes[p][j] \in Vote
  BY GovernanceAssumption
<1>2. /\ Recent(p) = SubSeq(votes[p], m, n)
      /\ Recent(p) \in Seq(Vote) /\ Len(Recent(p)) = n - m + 1
      /\ Recent(p)[i - m + 1] = votes[p][m + (i - m + 1) - 1]
  <2>1. Recent(p) = SubSeq(votes[p], m, n)
    BY DEF Recent
  <2> HIDE DEF m, n
  <2>2. m <= n /\ i - m + 1 \in 1 .. n - m + 1
    BY <1>1
  <2> QED BY <1>1, <2>1, <2>2, SubSeqProperties
<1>3. i - m + 1 \in DOMAIN Recent(p) /\ m + (i - m + 1) - 1 = i
  BY <1>1, <1>2
<1> QED BY <1>2, <1>3 DEF HasVoted

LEMMA GovStart == GovInit => GovInv
<1>1. SUFFICES ASSUME GovInit PROVE GovInv
  OBVIOUS
<1>2. /\ votes \in [Proposals -> Seq(Vote)]
      /\ tally \in [Proposals -> [for : Nat, against : Nat]]
  BY <1>1 DEF GovInit
<1>3. ASSUME NEW p \in Proposals PROVE NobodyTwice(p) /\ Tallied(p)
  <2>1. DOMAIN votes[p] = {} /\ tally[p].for = 0 /\ tally[p].against = 0
    BY <1>1 DEF GovInit
  <2>2. \A s \in BOOLEAN : Ballots(p, s) = {}
    BY <2>1 DEF Ballots
  <2> QED BY <2>1, <2>2, FS_EmptySet DEF NobodyTwice, Tallied, Cast
<1> QED BY <1>2, <1>3 DEF GovInv

LEMMA UnitsOfWeight ==
    ASSUME NEW w \in Nat
    PROVE  IsFiniteSet(1 .. w) /\ Cardinality(1 .. w) = w
<1>1. /\ IsFiniteSet(1 .. w)
      /\ Cardinality(1 .. w) = IF 1 > w THEN 0 ELSE w - 1 + 1
  <2>1. 1 \in Int /\ w \in Int
    OBVIOUS
  <2> QED BY <2>1, FS_Interval
<1> QED BY <1>1

LEMMA AddingAVote ==
    ASSUME GovInv, NEW p \in Proposals, NEW vote \in Vote, ~HasVoted(vote.voter, p),
           AddVote(p, vote)
    PROVE  GovInv'
<1> DEFINE n == Len(votes[p])
<1>1. /\ vote.voter \in Voters /\ vote.support \in BOOLEAN /\ vote.weight \in Nat
      /\ votes[p] \in Seq(Vote) /\ n \in Nat /\ DOMAIN votes[p] = 1 .. n
  <2>1. vote.voter \in Voters /\ vote.support \in BOOLEAN /\ vote.weight \in Weights
    BY DEF Vote
  <2>2. votes[p] \in Seq(Vote)
    BY DEF GovInv
  <2>3. n \in Nat /\ DOMAIN votes[p] = 1 .. n
    BY <2>2
  <2>4. vote.weight \in Nat
    BY <2>1, GovernanceAssumption
  <2> QED BY <2>1, <2>2, <2>3, <2>4
<1>2. /\ votes' \in [Proposals -> Seq(Vote)]
      /\ \A q \in Proposals \ {p} : votes'[q] = votes[q]
      /\ DOMAIN votes'[p] = 1 .. n + 1
      /\ \A i \in 1 .. n : votes'[p][i] = votes[p][i]
      /\ votes'[p][n + 1] = vote
  <2>1. /\ Append(votes[p], vote) \in Seq(Vote) /\ Len(Append(votes[p], vote)) = n + 1
        /\ \A i \in 1 .. n : Append(votes[p], vote)[i] = votes[p][i]
        /\ Append(votes[p], vote)[n + 1] = vote
    BY <1>1, AppendProperties
  <2>2. /\ votes' = [votes EXCEPT ![p] = Append(@, vote)]
        /\ votes \in [Proposals -> Seq(Vote)]
    BY DEF AddVote, GovInv
  <2>3. votes'[p] = Append(votes[p], vote)
    BY <2>2
  <2>4. DOMAIN Append(votes[p], vote) = 1 .. n + 1
    BY <1>1, <2>1
  <2> QED BY <2>1, <2>2, <2>3, <2>4
<1>3. /\ tally' \in [Proposals -> [for : Nat, against : Nat]]
      /\ \A q \in Proposals \ {p} : tally'[q] = tally[q]
      /\ tally'[p].for = tally[p].for + (IF vote.support THEN vote.weight ELSE 0)
      /\ tally'[p].against = tally[p].against + (IF vote.support THEN 0 ELSE vote.weight)
  <2>1. tally[p] \in [for : Nat, against : Nat] /\ tally[p].for \in Nat
        /\ tally[p].against \in Nat
    BY DEF GovInv
  <2>2. CASE vote.support
    <3>1. tally' = [tally EXCEPT ![p].for = @ + vote.weight]
      BY <2>2 DEF AddVote
    <3>2. tally'[p].for = tally[p].for + vote.weight /\ tally'[p].against = tally[p].against
      BY <2>1, <3>1 DEF GovInv
    <3>3. /\ tally' \in [Proposals -> [for : Nat, against : Nat]]
          /\ \A q \in Proposals \ {p} : tally'[q] = tally[q]
      BY <1>1, <2>1, <3>1 DEF GovInv
    <3> QED BY <2>1, <2>2, <3>2, <3>3
  <2>3. CASE ~vote.support
    <3>1. tally' = [tally EXCEPT ![p].against = @ + vote.weight]
      BY <2>3 DEF AddVote
    <3>2. tally'[p].for = tally[p].for /\ tally'[p].against = tally[p].against + vote.weight
      BY <2>1, <3>1 DEF GovInv
    <3>3. /\ tally' \in [Proposals -> [for : Nat, against : Nat]]
          /\ \A q \in Proposals \ {p} : tally'[q] = tally[q]
      BY <1>1, <2>1, <3>1 DEF GovInv
    <3> QED BY <2>1, <2>3, <3>2, <3>3
  <2> QED BY <2>2, <2>3
<1>4. NobodyTwice(p)'
  <2>1. SUFFICES ASSUME NEW i \in 1 .. n + 1, NEW j \in 1 .. n + 1,
                        i < j, j <= i + RecentVotes
                 PROVE  votes'[p][i].voter # votes'[p][j].voter
    BY <1>2 DEF NobodyTwice
  <2>2. CASE j = n + 1
    <3>1. i \in 1 .. n /\ n + 1 <= i + RecentVotes
      BY <1>1, <2>1, <2>2
    <3>2. votes[p][i].voter # vote.voter
      BY <1>1, <3>1, RecentRows
    <3> QED BY <1>2, <2>2, <3>1, <3>2
  <2>3. CASE j # n + 1
    <3>1. i \in 1 .. n /\ j \in 1 .. n
      BY <1>1, <2>1, <2>3
    <3>2. \A k \in 1 .. n, l \in 1 .. n :
              k < l /\ l <= k + RecentVotes => votes[p][k].voter # votes[p][l].voter
      BY <1>1 DEF GovInv, NobodyTwice
    <3>3. votes'[p][i] = votes[p][i] /\ votes'[p][j] = votes[p][j]
      BY <1>2, <3>1
    <3> QED BY <2>1, <3>1, <3>2, <3>3
  <2> QED BY <2>2, <2>3
<1>5. Tallied(p)'
  <2>1. ASSUME NEW s \in BOOLEAN
        PROVE  /\ IsFiniteSet(Ballots(p, s)')
               /\ Cast(p, s)' = Cast(p, s) + (IF vote.support = s THEN vote.weight ELSE 0)
    <3> DEFINE new == {n + 1} \X (1 .. vote.weight)
    <3>1. IsFiniteSet(Ballots(p, s)) /\ Cardinality(Ballots(p, s)) \in Nat
      BY FS_CardinalityType DEF GovInv, Tallied
    <3>2. CASE vote.support # s
      <4>1. Ballots(p, s)' = Ballots(p, s)
        <5>1. \A i \in DOMAIN votes'[p] : i \in 1 .. n \/ i = n + 1
          BY <1>1, <1>2
        <5>2. 1 .. n \subseteq DOMAIN votes'[p] /\ DOMAIN votes[p] = 1 .. n
          BY <1>1, <1>2
        <5>3. \A i \in DOMAIN votes'[p] :
                 votes'[p][i].support = s => i \in 1 .. n /\ votes[p][i].support = s
          BY <1>2, <3>2, <5>1
        <5>4. \A i \in 1 .. n : votes'[p][i] = votes[p][i]
          BY <1>2
        <5> QED BY <5>2, <5>3, <5>4 DEF Ballots
      <4> QED BY <3>1, <3>2, <4>1 DEF Cast
    <3>3. CASE vote.support = s
      <4>1. Ballots(p, s)' = Ballots(p, s) \cup new
        BY <1>1, <1>2, <3>3 DEF Ballots
      <4>2. Ballots(p, s) \cap new = {}
        BY <1>1 DEF Ballots
      <4>3. IsFiniteSet(new) /\ Cardinality(new) = vote.weight
        <5>1. IsFiniteSet({n + 1}) /\ Cardinality({n + 1}) = 1
          BY FS_Singleton
        <5>2. IsFiniteSet(1 .. vote.weight) /\ Cardinality(1 .. vote.weight) = vote.weight
          <6>1. PICK w \in Nat : w = vote.weight
            BY <1>1
          <6>2. IsFiniteSet(1 .. w) /\ Cardinality(1 .. w) = w
            BY <6>1, UnitsOfWeight
          <6> QED BY <6>1, <6>2
        <5>3. /\ IsFiniteSet(new)
              /\ Cardinality(new) = Cardinality({n + 1}) * Cardinality(1 .. vote.weight)
          BY <5>1, <5>2, FS_Product
        <5> QED BY <1>1, <5>1, <5>2, <5>3
      <4> HIDE DEF new
      <4>4. /\ IsFiniteSet(Ballots(p, s)')
            /\ Cardinality(Ballots(p, s)') = Cardinality(Ballots(p, s)) + vote.weight - 0
        BY <3>1, <4>1, <4>2, <4>3, FS_Union, FS_EmptySet
      <4> QED BY <1>1, <3>1, <3>3, <4>4 DEF Cast
    <3> QED BY <3>2, <3>3
  <2>2. Tallied(p) /\ tally[p].for \in Nat /\ tally[p].against \in Nat
    BY DEF GovInv
  <2> QED BY <1>1, <1>3, <2>1, <2>2 DEF Tallied
<1>6. ASSUME NEW q \in Proposals \ {p} PROVE NobodyTwice(q)' /\ Tallied(q)'
  <2>1. votes'[q] = votes[q] /\ tally'[q] = tally[q]
    BY <1>2, <1>3, <1>6
  <2>2. NobodyTwice(q) /\ Tallied(q)
    BY <1>6 DEF GovInv
  <2>3. \A s \in BOOLEAN : Ballots(q, s)' = Ballots(q, s)
    BY <2>1 DEF Ballots
  <2> QED BY <2>1, <2>2, <2>3 DEF NobodyTwice, Tallied, Cast
<1> QED BY <1>2, <1>3, <1>4, <1>5, <1>6 DEF GovInv

\* Among RecentVotes + 1 votes in a row nobody occurs twice, and the tallies are
\* the weights cast, for every set of proposals, voters and weights
\* (governance.service.ts:27).
THEOREM RecentVotersAlwaysCountOnce == GovSpec => []RecentVotersCountOnce
<1>1. GovInv /\ [GovNext]_govVars => GovInv'
  <2>1. SUFFICES ASSUME GovInv, [GovNext]_govVars PROVE GovInv'
    OBVIOUS
  <2>2. ASSUME NEW p \in Proposals, NEW v \in Voters, NEW s \in BOOLEAN,
               NEW w \in Weights, CastVote(p, v, s, w)
        PROVE  GovInv'
    <3> DEFINE vote == [voter |-> v, support |-> s, weight |-> w]
    <3>1. vote \in Vote /\ vote.voter = v
      BY DEF Vote
    <3>2. ~HasVoted(v, p) /\ AddVote(p, vote)
      BY <2>2 DEF CastVote
    <3> HIDE DEF vote
    <3> QED BY <2>1, <3>1, <3>2, AddingAVote
  <2>3. CASE GovRestart
    <3>1. /\ votes' = [p \in Proposals |-> <<>>]
          /\ tally' = [p \in Proposals |-> [for |-> 0, against |-> 0]]
      BY <2>3 DEF GovRestart
    <3>2. /\ votes' \in [Proposals -> Seq(Vote)]
          /\ tally' \in [Proposals -> [for : Nat, against : Nat]]
      BY <3>1
    <3>3. ASSUME NEW p \in Proposals PROVE NobodyTwice(p)' /\ Tallied(p)'
      <4>1. DOMAIN votes'[p] = {} /\ tally'[p].for = 0 /\ tally'[p].against = 0
        BY <3>1
      <4>2. \A s \in BOOLEAN : Ballots(p, s)' = {}
        BY <4>1 DEF Ballots
      <4> QED BY <4>1, <4>2, FS_EmptySet DEF NobodyTwice, Tallied, Cast
    <3> QED BY <3>2, <3>3 DEF GovInv
  <2>4. CASE UNCHANGED <<votes, tally>>
    <3>1. votes' = votes /\ tally' = tally
      BY <2>4
    <3>2. ASSUME NEW p \in Proposals PROVE NobodyTwice(p)' /\ Tallied(p)'
      <4>1. NobodyTwice(p) /\ Tallied(p)
        BY <2>1 DEF GovInv
      <4>2. \A s \in BOOLEAN : Ballots(p, s)' = Ballots(p, s)
        BY <3>1 DEF Ballots
      <4> QED BY <3>1, <4>1, <4>2 DEF NobodyTwice, Tallied, Cast
    <3> QED BY <2>1, <3>1, <3>2 DEF GovInv
  <2> QED BY <2>1, <2>2, <2>3, <2>4 DEF GovNext, GovTick, govVars
<1>2. GovInv => RecentVotersCountOnce
  <2>1. SUFFICES ASSUME GovInv, NEW p \in Proposals
                 PROVE  /\ NobodyTwice(p)
                        /\ tally[p] = [for |-> Cast(p, TRUE), against |-> Cast(p, FALSE)]
    BY DEF RecentVotersCountOnce, NobodyTwice
  <2> QED BY <2>1 DEF GovInv, Tallied
<1> QED BY GovStart, <1>1, <1>2, PTL DEF GovSpec

-----------------------------------------------------------------------------
(* Cached reads of the chain.                                              *)

MarketsSpec == MarketsInit /\ [][MarketsNext]_marketVars

Reads == [step : {"idle", "registry", "fields"}, kind : Kinds, since : Nat,
          tokens : SUBSET Lendable]

\* How long after its reading an answer of this kind may be served.
Latest(kind) ==
    ReadLimit + Life(kind) + IF kind = "stats" THEN CacheLife ELSE 0

UpToDate(kind, answer) ==
    answer.asOf \in Nat /\ answer.expires \in Nat /\ answer.expires <= answer.asOf + Latest(kind)

\* A read under way is at most ReadLimit old, which is what lets its answer in.
UnderWay(r) ==
    read[r].step # "idle" => /\ read[r].since <= dataTime
                             /\ dataTime <= read[r].since + ReadLimit
                             /\ read[r].step = "fields" =>
                                   read[r].kind \in {"prices", "markets", "stats"}

MktInv ==
    /\ dataTime \in Nat
    /\ read \in [DataReads -> Reads]
    /\ DOMAIN cache = Kinds /\ cache = [kind \in Kinds |-> cache[kind]]
    /\ \A kind \in Kinds : UpToDate(kind, cache[kind])
    /\ \A r \in DataReads : UnderWay(r)

LEMMA LivesAreNumbers ==
    /\ ReadLimit \in Nat /\ CacheLife \in Nat /\ ReadyLife \in Nat
    /\ \A kind \in Kinds :
          /\ Life(kind) \in Nat /\ Latest(kind) \in Nat
          /\ Latest(kind) >= ReadLimit + Life(kind)
          /\ kind = "stats" => Latest(kind) = ReadLimit + Life(kind) + CacheLife
<1>1. ReadLimit \in Nat /\ CacheLife \in Nat /\ ReadyLife \in Nat
  BY MarketsAssumption
<1> QED BY <1>1 DEF Life, Latest

\* An answer stored no later than a read may take is fresh.
LEMMA StoredIsFresh ==
    ASSUME NEW kind \in Kinds, NEW ok, NEW items, NEW asOf \in Nat, NEW from \in Nat,
           \/ from <= asOf + ReadLimit
           \/ kind = "stats" /\ from <= asOf + ReadLimit + CacheLife
    PROVE  UpToDate(kind, Store(kind, ok, items, asOf, from))
<1>1. /\ Store(kind, ok, items, asOf, from).asOf = asOf
      /\ Store(kind, ok, items, asOf, from).expires = from + Life(kind)
  BY DEF Store
<1>2. /\ ReadLimit \in Nat /\ CacheLife \in Nat /\ Life(kind) \in Nat /\ Latest(kind) \in Nat
      /\ Latest(kind) >= ReadLimit + Life(kind)
      /\ kind = "stats" => Latest(kind) = ReadLimit + Life(kind) + CacheLife
  BY LivesAreNumbers
<1> QED BY <1>1, <1>2 DEF UpToDate

\* Storing fresh answers leaves every kind with one.
LEMMA OneStored ==
    ASSUME MktInv, NEW kind \in Kinds, NEW answer, UpToDate(kind, answer),
           cache' = [cache EXCEPT ![kind] = answer]
    PROVE  /\ DOMAIN cache' = Kinds /\ cache' = [k \in Kinds |-> cache'[k]]
           /\ \A k \in Kinds : UpToDate(k, cache'[k])
BY DEF MktInv

LEMMA MarketsStart == MarketsInit => MktInv
<1>1. SUFFICES ASSUME MarketsInit PROVE MktInv
  OBVIOUS
<1>2. dataTime = 1 /\ cache = [kind \in Kinds |-> NoAnswer]
      /\ read = [r \in DataReads |-> NoRead]
  BY <1>1 DEF MarketsInit
<1>3. NoRead \in Reads /\ NoRead.step = "idle"
  BY DEF NoRead, Reads, Kinds
<1>4. ASSUME NEW kind \in Kinds PROVE UpToDate(kind, NoAnswer)
  <2>1. NoAnswer.asOf = 0 /\ NoAnswer.expires = 0
    BY DEF NoAnswer
  <2>2. Latest(kind) \in Nat
    BY LivesAreNumbers
  <2> QED BY <2>1, <2>2 DEF UpToDate
<1> QED BY <1>2, <1>3, <1>4 DEF MktInv, UnderWay

\* What the reads of a step may do to the read under way.
LEMMA ReadsMove ==
    ASSUME MktInv, dataTime' = dataTime, NEW r \in DataReads, NEW new \in Reads,
           read' = [read EXCEPT ![r] = new],
           new.step # "idle" => /\ new.since <= dataTime /\ dataTime <= new.since + ReadLimit
                                /\ new.step = "fields" =>
                                      new.kind \in {"prices", "markets", "stats"}
    PROVE  read' \in [DataReads -> Reads] /\ \A q \in DataReads : UnderWay(q)'
<1>1. read' \in [DataReads -> Reads]
  BY DEF MktInv
<1>2. ASSUME NEW q \in DataReads PROVE UnderWay(q)'
  <2>1. CASE q = r
    BY <2>1 DEF UnderWay, MktInv
  <2>2. CASE q # r
    BY <2>2 DEF UnderWay, MktInv
  <2> QED BY <2>1, <2>2
<1> QED BY <1>1, <1>2

LEMMA ReadsEnd ==
    ASSUME MktInv, dataTime' = dataTime, NEW r \in DataReads, Ends(r)
    PROVE  read' \in [DataReads -> Reads] /\ \A q \in DataReads : UnderWay(q)'
<1>1. NoRead \in Reads /\ NoRead.step = "idle"
  BY DEF NoRead, Reads, Kinds
<1> QED BY <1>1, ReadsMove DEF Ends

\* Leaving the cache alone keeps it.
LEMMA CacheStays ==
    ASSUME MktInv, cache' = cache
    PROVE  /\ DOMAIN cache' = Kinds /\ cache' = [k \in Kinds |-> cache'[k]]
           /\ \A k \in Kinds : UpToDate(k, cache'[k])
BY DEF MktInv

LEMMA AskStep ==
    ASSUME MktInv, NEW r \in DataReads, NEW kind \in Kinds, Ask(r, kind) PROVE MktInv'
<1> DEFINE new == [step |-> "registry", kind |-> kind, since |-> dataTime, tokens |-> {}]
<1>1. /\ dataTime' = dataTime /\ dataTime \in Nat /\ cache' = cache
      /\ read' = [read EXCEPT ![r] = new]
  BY DEF Ask, MktInv
<1>2. new \in Reads /\ new.since = dataTime /\ new.step = "registry"
  BY <1>1 DEF Reads
<1>3. new.since <= dataTime /\ dataTime <= new.since + ReadLimit
  BY <1>1, <1>2, LivesAreNumbers
<1> HIDE DEF new
<1>4. read' \in [DataReads -> Reads] /\ \A q \in DataReads : UnderWay(q)'
  <2>1. new.step # "fields"
    BY <1>2
  <2> QED BY <1>1, <1>2, <1>3, <2>1, ReadsMove
<1> QED BY <1>1, <1>4, CacheStays DEF MktInv

LEMMA StatsFromCacheStep == ASSUME MktInv, StatsFromCache PROVE MktInv'
<1>1. /\ dataTime' = dataTime /\ dataTime \in Nat /\ read' = read
      /\ cache' = [cache EXCEPT !["stats"] =
             Statistics(cache["markets"].items, cache["markets"].asOf)]
      /\ dataTime < cache["markets"].expires
  BY DEF StatsFromCache, MktInv, Valid
<1>2. /\ "markets" \in Kinds /\ "stats" \in Kinds /\ Life("markets") = CacheLife
  BY DEF Kinds, Life
<1>3. /\ cache["markets"].asOf \in Nat /\ cache["markets"].expires \in Nat
      /\ cache["markets"].expires <= cache["markets"].asOf + ReadLimit + CacheLife
  <2>1. UpToDate("markets", cache["markets"])
    BY <1>2 DEF MktInv
  <2>2. Latest("markets") = ReadLimit + CacheLife
    BY <1>2, LivesAreNumbers DEF Latest
  <2> QED BY <2>1, <2>2, LivesAreNumbers DEF UpToDate
<1>4. PICK asOf \in Nat : asOf = cache["markets"].asOf
  BY <1>3
<1>5. PICK now \in Nat : now = dataTime
  BY <1>1
<1>6. now <= asOf + ReadLimit + CacheLife
  BY <1>1, <1>3, <1>4, <1>5, LivesAreNumbers
<1>7. PICK items : items = cache["markets"].items
  OBVIOUS
<1>8. UpToDate("stats", Store("stats", TRUE, items, asOf, now))
  BY <1>2, <1>4, <1>5, <1>6, StoredIsFresh
<1>9. cache' = [cache EXCEPT !["stats"] = Store("stats", TRUE, items, asOf, now)]
  BY <1>1, <1>4, <1>5, <1>7 DEF Statistics
<1>10. /\ DOMAIN cache' = Kinds /\ cache' = [k \in Kinds |-> cache'[k]]
       /\ \A k \in Kinds : UpToDate(k, cache'[k])
  BY <1>2, <1>8, <1>9, OneStored
<1> QED BY <1>1, <1>10 DEF MktInv, UnderWay

\* Statistics made of anything, dated now, are fresh.
LEMMA StatisticsNow ==
    ASSUME MktInv, NEW items
    PROVE  UpToDate("stats", Statistics(items, dataTime))
<1>1. "stats" \in Kinds
  BY DEF Kinds
<1>2. PICK now \in Nat : now = dataTime
  BY DEF MktInv
<1>3. now <= now + ReadLimit
  BY <1>2, LivesAreNumbers
<1>4. UpToDate("stats", Store("stats", TRUE, items, now, now))
  BY <1>1, <1>2, <1>3, StoredIsFresh
<1> QED BY <1>2, <1>4 DEF Statistics

LEMMA StatsTimeOutStep ==
    ASSUME MktInv, NEW r \in DataReads, StatsTimeOut(r) PROVE MktInv'
<1> DEFINE new == [read[r] EXCEPT !.kind = "markets"]
<1>1. /\ dataTime' = dataTime /\ dataTime \in Nat /\ read[r].step # "idle"
      /\ cache' = [cache EXCEPT !["stats"] = Statistics({}, dataTime)]
      /\ read' = [read EXCEPT ![r] = new]
      /\ read[r] \in Reads
  BY DEF StatsTimeOut, MktInv
<1>2. /\ new \in Reads /\ new.kind = "markets"
      /\ new.since = read[r].since /\ new.step = read[r].step
  BY <1>1 DEF Reads, Kinds
<1>3. new.since <= dataTime /\ dataTime <= new.since + ReadLimit
  BY <1>1, <1>2 DEF MktInv, UnderWay
<1>4. "stats" \in Kinds
  BY DEF Kinds
<1> HIDE DEF new
<1>5. read' \in [DataReads -> Reads] /\ \A q \in DataReads : UnderWay(q)'
  BY <1>1, <1>2, <1>3, ReadsMove
<1>6. /\ DOMAIN cache' = Kinds /\ cache' = [k \in Kinds |-> cache'[k]]
      /\ \A k \in Kinds : UpToDate(k, cache'[k])
  <2>1. PICK answer : answer = Statistics({}, dataTime)
    OBVIOUS
  <2>2. UpToDate("stats", answer)
    BY <2>1, StatisticsNow
  <2>3. cache' = [cache EXCEPT !["stats"] = answer]
    BY <1>1, <2>1
  <2> QED BY <1>4, <2>2, <2>3, OneStored
<1> QED BY <1>1, <1>5, <1>6 DEF MktInv

\* The bounds of the read under way, as a store needs them.
LEMMA ReadIsRecent ==
    ASSUME MktInv, NEW r \in DataReads, read[r].step # "idle"
    PROVE  /\ read[r] \in Reads /\ read[r].since \in Nat /\ dataTime \in Nat
           /\ read[r].since <= dataTime /\ dataTime <= read[r].since + ReadLimit
<1>1. read[r] \in Reads /\ dataTime \in Nat /\ UnderWay(r)
  BY DEF MktInv
<1>2. read[r].since \in Nat
  BY <1>1 DEF Reads
<1> QED BY <1>1, <1>2 DEF UnderWay

\* An answer of the read, dated from its start and stored now, is fresh; so is
\* one whose deadline counts from the start.
LEMMA ReadStoresFresh ==
    ASSUME MktInv, NEW r \in DataReads, read[r].step # "idle",
           NEW kind \in Kinds, NEW ok, NEW items
    PROVE  /\ UpToDate(kind, Store(kind, ok, items, read[r].since, dataTime))
           /\ UpToDate(kind, Store(kind, ok, items, read[r].since, read[r].since))
<1>1. PICK now \in Nat : now = dataTime
  BY ReadIsRecent
<1>2. PICK since \in Nat : since = read[r].since
  BY ReadIsRecent
<1>3. now <= since + ReadLimit /\ since <= since + ReadLimit
  BY <1>1, <1>2, ReadIsRecent, LivesAreNumbers
<1>4. /\ UpToDate(kind, Store(kind, ok, items, since, now))
      /\ UpToDate(kind, Store(kind, ok, items, since, since))
  BY <1>1, <1>2, <1>3, StoredIsFresh
<1> QED BY <1>1, <1>2, <1>4

LEMMA RegistryAnswersStep ==
    ASSUME MktInv, NEW r \in DataReads, RegistryAnswers(r) PROVE MktInv'
<1>1. /\ dataTime' = dataTime /\ dataTime \in Nat /\ read[r].step = "registry"
      /\ read[r].kind \in {"markets", "prices", "stats"} /\ read[r] \in Reads
  BY DEF RegistryAnswers, MktInv
<1>2. PICK answer \in RegistryReads :
         IF answer.ok
         THEN /\ read' = [read EXCEPT ![r].step = "fields", ![r].tokens = answer.tokens]
              /\ UNCHANGED cache
         ELSE /\ Ends(r)
              /\ cache' = IF read[r].kind = "stats"
                          THEN [cache EXCEPT !["stats"] = Statistics({}, dataTime)]
                          ELSE cache
  BY DEF RegistryAnswers
<1>3. answer.tokens \in SUBSET Lendable
  BY DEF RegistryReads
<1>4. CASE answer.ok
  <2> DEFINE new == [read[r] EXCEPT !.step = "fields", !.tokens = answer.tokens]
  <2>1. read' = [read EXCEPT ![r] = new] /\ cache' = cache
    <3>1. read' = [read EXCEPT ![r].step = "fields", ![r].tokens = answer.tokens]
          /\ cache' = cache
      BY <1>2, <1>4
    <3> QED BY <3>1 DEF MktInv
  <2>2. /\ new \in Reads /\ new.step = "fields" /\ new.kind = read[r].kind
        /\ new.since = read[r].since
    BY <1>1, <1>3 DEF Reads
  <2>3. new.since <= dataTime /\ dataTime <= new.since + ReadLimit
    BY <1>1, <2>2, ReadIsRecent
  <2> HIDE DEF new
  <2>4. read' \in [DataReads -> Reads] /\ \A q \in DataReads : UnderWay(q)'
    BY <1>1, <2>1, <2>2, <2>3, ReadsMove
  <2> QED BY <1>1, <2>1, <2>4, CacheStays DEF MktInv
<1>5. CASE ~answer.ok
  <2>1. read' \in [DataReads -> Reads] /\ \A q \in DataReads : UnderWay(q)'
    BY <1>1, <1>2, <1>5, ReadsEnd
  <2>2. /\ DOMAIN cache' = Kinds /\ cache' = [k \in Kinds |-> cache'[k]]
        /\ \A k \in Kinds : UpToDate(k, cache'[k])
    <3>1. CASE cache' = cache
      BY <3>1, CacheStays
    <3>2. CASE cache' # cache
      <4>1. PICK stored : stored = Statistics({}, dataTime)
        OBVIOUS
      <4>2. UpToDate("stats", stored) /\ "stats" \in Kinds
        BY <4>1, StatisticsNow DEF Kinds
      <4>3. cache' = [cache EXCEPT !["stats"] = stored]
        BY <1>2, <1>5, <3>2, <4>1
      <4> QED BY <4>2, <4>3, OneStored
    <3> QED BY <3>1, <3>2
  <2> QED BY <1>1, <2>1, <2>2 DEF MktInv
<1> QED BY <1>4, <1>5

LEMMA StatusAnswersStep ==
    ASSUME MktInv, NEW r \in DataReads, StatusAnswers(r) PROVE MktInv'
<1>1. /\ dataTime' = dataTime /\ dataTime \in Nat /\ read[r].step # "idle" /\ Ends(r)
  BY DEF StatusAnswers, MktInv
<1>2. PICK answer \in RegistryReads :
         cache' = [cache EXCEPT !["status"] =
            Store("status", answer.ok, {BuildPrice(t, {}) : t \in answer.tokens},
                  read[r].since, dataTime)]
  BY DEF StatusAnswers
<1>3. PICK stored : stored = Store("status", answer.ok,
                                   {BuildPrice(t, {}) : t \in answer.tokens},
                                   read[r].since, dataTime)
  OBVIOUS
<1>4. "status" \in Kinds
  BY DEF Kinds
<1>5. UpToDate("status", stored)
  BY <1>1, <1>3, <1>4, ReadStoresFresh
<1>6. cache' = [cache EXCEPT !["status"] = stored]
  BY <1>2, <1>3
<1>7. /\ DOMAIN cache' = Kinds /\ cache' = [k \in Kinds |-> cache'[k]]
      /\ \A k \in Kinds : UpToDate(k, cache'[k])
  BY <1>4, <1>5, <1>6, OneStored
<1>8. read' \in [DataReads -> Reads] /\ \A q \in DataReads : UnderWay(q)'
  BY <1>1, ReadsEnd
<1> QED BY <1>1, <1>7, <1>8 DEF MktInv

LEMMA ReadinessAnswersStep ==
    ASSUME MktInv, NEW r \in DataReads, ReadinessAnswers(r) PROVE MktInv'
<1>1. /\ dataTime' = dataTime /\ dataTime \in Nat /\ read[r].step # "idle" /\ Ends(r)
  BY DEF ReadinessAnswers, MktInv
<1>2. PICK ok \in {reachable, FALSE} :
         cache' = [cache EXCEPT !["ready"] =
            Store("ready", ok, {}, read[r].since, read[r].since)]
  BY DEF ReadinessAnswers
<1>3. PICK stored : stored = Store("ready", ok, {}, read[r].since, read[r].since)
  OBVIOUS
<1>4. "ready" \in Kinds
  BY DEF Kinds
<1>5. UpToDate("ready", stored)
  BY <1>1, <1>3, <1>4, ReadStoresFresh
<1>6. cache' = [cache EXCEPT !["ready"] = stored]
  BY <1>2, <1>3
<1>7. /\ DOMAIN cache' = Kinds /\ cache' = [k \in Kinds |-> cache'[k]]
      /\ \A k \in Kinds : UpToDate(k, cache'[k])
  BY <1>4, <1>5, <1>6, OneStored
<1>8. read' \in [DataReads -> Reads] /\ \A q \in DataReads : UnderWay(q)'
  BY <1>1, ReadsEnd
<1> QED BY <1>1, <1>7, <1>8 DEF MktInv

LEMMA FieldsAnswerStep ==
    ASSUME MktInv, NEW r \in DataReads, FieldsAnswer(r) PROVE MktInv'
<1> DEFINE stored(kind, items) == Store(kind, TRUE, items, read[r].since, dataTime)
<1>1. /\ dataTime' = dataTime /\ dataTime \in Nat /\ read[r].step = "fields" /\ Ends(r)
      /\ read[r].kind \in {"prices", "markets", "stats"}
  BY DEF FieldsAnswer, MktInv, UnderWay
<1>2. PICK markets, prices :
         cache' = CASE read[r].kind = "prices" ->
                         [cache EXCEPT !["prices"] = stored("prices", prices)]
                    [] read[r].kind = "markets" ->
                         [cache EXCEPT !["markets"] = stored("markets", markets)]
                    [] read[r].kind = "stats" ->
                         [cache EXCEPT !["markets"] = stored("markets", markets),
                                       !["stats"] = Statistics(markets, read[r].since)]
  <2>1. PICK known :
           LET ms == { BuildMarket(t, known[t]) : t \in read[r].tokens }
               ps == { BuildPrice(t, known[t]) : t \in read[r].tokens }
           IN  cache' = CASE read[r].kind = "prices" ->
                         [cache EXCEPT !["prices"] = stored("prices", ps)]
                    [] read[r].kind = "markets" ->
                         [cache EXCEPT !["markets"] = stored("markets", ms)]
                    [] read[r].kind = "stats" ->
                         [cache EXCEPT !["markets"] = stored("markets", ms),
                                       !["stats"] = Statistics(ms, read[r].since)]
    BY DEF FieldsAnswer
  <2> QED BY <2>1
<1>3. PICK p, m, s : /\ p = stored("prices", prices) /\ m = stored("markets", markets)
                     /\ s = Statistics(markets, read[r].since)
  OBVIOUS
<1>4. /\ {"prices", "markets", "stats"} \subseteq Kinds
  BY DEF Kinds
<1>5. UpToDate("prices", p) /\ UpToDate("markets", m) /\ UpToDate("stats", s)
  BY <1>1, <1>3, <1>4, ReadStoresFresh DEF Statistics
<1>6. \/ cache' = [cache EXCEPT !["prices"] = p]
      \/ cache' = [cache EXCEPT !["markets"] = m]
      \/ cache' = [cache EXCEPT !["markets"] = m, !["stats"] = s]
  BY <1>1, <1>2, <1>3
<1> HIDE DEF stored
<1>7. /\ DOMAIN cache' = Kinds /\ cache' = [k \in Kinds |-> cache'[k]]
      /\ \A k \in Kinds : UpToDate(k, cache'[k])
  <2>1. CASE cache' = [cache EXCEPT !["markets"] = m, !["stats"] = s]
    <3>1. DOMAIN cache = Kinds /\ \A k \in Kinds : UpToDate(k, cache[k])
      BY DEF MktInv
    <3> QED BY <1>4, <1>5, <2>1, <3>1
  <2> QED BY <1>4, <1>5, <1>6, <2>1, OneStored
<1>8. read' \in [DataReads -> Reads] /\ \A q \in DataReads : UnderWay(q)'
  BY <1>1, ReadsEnd
<1> QED BY <1>1, <1>7, <1>8 DEF MktInv

\* What is served dates from no longer ago than its caches allow together,
\* however many reads overlap, for all lives and time limits
\* (markets.service.ts:85, stats.service.ts:70).
THEOREM AnswersAreAlwaysRecent == MarketsSpec => []AnswersAreRecent
<1>1. MktInv /\ [MarketsNext]_marketVars => MktInv'
  <2>1. SUFFICES ASSUME MktInv, [MarketsNext]_marketVars PROVE MktInv'
    OBVIOUS
  <2>2. CASE NodeChanges
    BY <2>1, <2>2, CacheStays DEF NodeChanges, MktInv, UnderWay
  <2>3. CASE DataTick
    <3>1. /\ dataTime \in Nat /\ dataTime' = dataTime + 1 /\ read' = read /\ cache' = cache
          /\ \A r \in DataReads :
                read[r].step # "idle" => dataTime - read[r].since < ReadLimit
      BY <2>1, <2>3 DEF DataTick, MktInv
    <3>2. ASSUME NEW r \in DataReads PROVE UnderWay(r)'
      <4>1. SUFFICES ASSUME read[r].step # "idle"
                     PROVE  /\ read[r].since <= dataTime + 1
                            /\ dataTime + 1 <= read[r].since + ReadLimit
                            /\ read[r].step = "fields" =>
                                  read[r].kind \in {"prices", "markets", "stats"}
        BY <3>1 DEF UnderWay
      <4>2. read[r].since \in Nat /\ read[r].since <= dataTime
        BY <2>1, <4>1, ReadIsRecent
      <4>3. read[r].step = "fields" => read[r].kind \in {"prices", "markets", "stats"}
        BY <2>1, <4>1 DEF MktInv, UnderWay
      <4> QED BY <3>1, <4>1, <4>2, <4>3, LivesAreNumbers
    <3>3. /\ DOMAIN cache' = Kinds /\ cache' = [k \in Kinds |-> cache'[k]]
          /\ \A k \in Kinds : UpToDate(k, cache'[k])
      BY <2>1, <3>1, CacheStays
    <3>4. dataTime' \in Nat /\ read' \in [DataReads -> Reads]
      BY <2>1, <3>1 DEF MktInv
    <3> QED BY <3>2, <3>3, <3>4 DEF MktInv
  <2>4. CASE UNCHANGED marketVars
    <3>1. dataTime' = dataTime /\ read' = read /\ cache' = cache
      BY <2>4 DEF marketVars
    <3> QED BY <2>1, <3>1, CacheStays DEF MktInv, UnderWay
  <2> QED BY <2>1, <2>2, <2>3, <2>4, AskStep, StatsFromCacheStep, StatsTimeOutStep,
             RegistryAnswersStep, StatusAnswersStep, ReadinessAnswersStep,
             FieldsAnswerStep DEF MarketsNext
<1>2. MktInv => AnswersAreRecent
  <2>1. SUFFICES ASSUME MktInv, NEW kind \in Kinds, Valid(kind)
                 PROVE  dataTime < cache[kind].asOf + ReadLimit + Life(kind)
                                   + IF kind = "stats" THEN CacheLife ELSE 0
    BY DEF AnswersAreRecent
  <2>2. /\ dataTime \in Nat /\ dataTime < cache[kind].expires
        /\ cache[kind].asOf \in Nat /\ cache[kind].expires \in Nat
        /\ cache[kind].expires <= cache[kind].asOf + Latest(kind)
    BY <2>1 DEF MktInv, UpToDate, Valid
  <2>3. Latest(kind) = ReadLimit + Life(kind) + (IF kind = "stats" THEN CacheLife ELSE 0)
    BY DEF Latest
  <2> QED BY <2>2, <2>3, LivesAreNumbers
<1> QED BY MarketsStart, <1>1, <1>2, PTL DEF MarketsSpec

-----------------------------------------------------------------------------
(* The deployment scripts: each line of a run leaves its links on the      *)
(* chain, so by the lines that write a file everything it names is there.  *)

ScriptSpec == ScriptInit /\ [][ScriptNext]_scriptVars

\* The four parts of the script, where main() has them.
LEMMA ScriptLines ==
    /\ Len(Script) = 34
    /\ \A i \in 1 .. 11 : Script[i] = Layers[i]
    /\ \A i \in 1 .. 12 : Script[i + 11] = Wiring[i]
    /\ \A i \in 1 .. 8 : Script[i + 23] = Governance[i]
    /\ \A i \in 1 .. 3 : Script[i + 31] = Ending[i]
<1>1. PICK T : T = UNION {{Layers[i] : i \in 1 .. 11}, {Wiring[i] : i \in 1 .. 12},
                          {Governance[i] : i \in 1 .. 8}, {Ending[i] : i \in 1 .. 3}}
  OBVIOUS
<1>2. /\ \A i \in 1 .. 11 : Layers[i] \in T
      /\ \A i \in 1 .. 12 : Wiring[i] \in T
      /\ \A i \in 1 .. 8 : Governance[i] \in T
      /\ \A i \in 1 .. 3 : Ending[i] \in T
  BY <1>1
<1>3. Layers \in Seq(T) /\ Len(Layers) = 11
  BY <1>2 DEF Layers
<1>4. Wiring \in Seq(T) /\ Len(Wiring) = 12
  BY <1>2 DEF Wiring
<1>5. Governance \in Seq(T) /\ Len(Governance) = 8
  BY <1>2 DEF Governance
<1>6. Ending \in Seq(T) /\ Len(Ending) = 3
  <2>1. PICK x, y, z : x = Does("verify", "") /\ y = Does("record", "") /\ z = Does("env", "")
    OBVIOUS
  <2>2. Ending = <<x, y, z>>
    BY <2>1 DEF Ending
  <2>3. x \in T /\ y \in T /\ z \in T
    BY <1>2, <2>2
  <2> QED BY <2>2, <2>3
<1>7. PICK a : a = Layers \o Wiring
  OBVIOUS
<1>8. PICK b : b = a \o Governance
  OBVIOUS
<1>9. /\ a \in Seq(T) /\ Len(a) = 23
      /\ \A i \in 1 .. 23 : a[i] = IF i <= 11 THEN Layers[i] ELSE Wiring[i - 11]
  <2>1. /\ a \in Seq(T) /\ Len(a) = Len(Layers) + Len(Wiring)
        /\ \A i \in 1 .. Len(Layers) + Len(Wiring) :
              a[i] = IF i <= Len(Layers) THEN Layers[i] ELSE Wiring[i - Len(Layers)]
    BY <1>3, <1>4, <1>7, ConcatProperties, Zenon
  <2> QED BY <1>3, <1>4, <2>1
<1>10. /\ b \in Seq(T) /\ Len(b) = 31
       /\ \A i \in 1 .. 31 : b[i] = IF i <= 23 THEN a[i] ELSE Governance[i - 23]
  <2>1. /\ b \in Seq(T) /\ Len(b) = Len(a) + Len(Governance)
        /\ \A i \in 1 .. Len(a) + Len(Governance) :
              b[i] = IF i <= Len(a) THEN a[i] ELSE Governance[i - Len(a)]
    BY <1>5, <1>8, <1>9, ConcatProperties, Zenon
  <2> QED BY <1>5, <1>9, <2>1
<1>11. /\ Len(Script) = 34
       /\ \A i \in 1 .. 34 : Script[i] = IF i <= 31 THEN b[i] ELSE Ending[i - 31]
  <2>1. /\ Len(Script) = Len(b) + Len(Ending)
        /\ \A i \in 1 .. Len(b) + Len(Ending) :
              Script[i] = IF i <= Len(b) THEN b[i] ELSE Ending[i - Len(b)]
    <3>1. Script = b \o Ending
      BY <1>7, <1>8 DEF Script
    <3> QED BY <1>6, <1>10, <3>1, ConcatProperties, Zenon
  <2> QED BY <1>6, <1>10, <2>1
<1> QED BY <1>9, <1>10, <1>11
\* The lines of main(), one by one.
LEMMA ScriptText ==
    /\ Script[1] = Deploys("ExecutorContract", {})
    /\ Script[2] = Deploys("StrategyRegistry", {})
    /\ Script[3] = Deploys("LendingPool", {})
    /\ Script[4] = Deploys("PriceOracle", {})
    /\ Script[5] = Deploys("SwapRouter", {"ExecutorContract"})
    /\ Script[6] = Deploys("TokenRegistry", {})
    /\ Script[7] = Does("token", "WETH")
    /\ Script[8] = Does("token", "USDC")
    /\ Script[9] = Deploys("StrategyVault", {"StrategyRegistry"})
    /\ Script[10] = Deploys("FheForgeComposer", {"StrategyRegistry", "StrategyVault",
                            "LendingPool", "SwapRouter"})
    /\ Script[11] = Deploys("StrategyExecutor", {"LendingPool", "StrategyVault",
                            "SwapRouter"})
    /\ Script[12] = Sends("StrategyRegistry", "vaultAddress", "StrategyVault")
    /\ Script[13] = Sends("LendingPool", "weth", "WETH")
    /\ Script[14] = Sends("LendingPool", "oracle", "PriceOracle")
    /\ Script[15] = Sends("LendingPool", "isComposer", "FheForgeComposer")
    /\ Script[16] = Sends("LendingPool", "isComposer", "StrategyExecutor")
    /\ Script[17] = Sends("PriceOracle", "priceId", "WETH")
    /\ Script[18] = Sends("PriceOracle", "priceId", "USDC")
    /\ Script[19] = Sends("PriceOracle", "collateralFactorBps", "USDC")
    /\ Script[20] = Sends("PriceOracle", "collateralFactorBps", "WETH")
    /\ Script[21] = Sends("TokenRegistry", "isTokenEnabled", "WETH")
    /\ Script[22] = Sends("TokenRegistry", "isTokenEnabled", "USDC")
    /\ Script[23] = Does("push", "PriceOracle")
    /\ Script[24] = Deploys("FheForgeToken", {})
    /\ Script[25] = Sends("FheForgeToken", "balance", "deployer")
    /\ Script[26] = Deploys("FheForgeTimelock", {})
    /\ Script[27] = Deploys("FheForgeGovernor", {"FheForgeToken", "FheForgeTimelock"})
    /\ Script[28] = Sends("FheForgeTimelock", "PROPOSER", "FheForgeGovernor")
    /\ Script[29] = Sends("FheForgeTimelock", "CANCELLER", "FheForgeGovernor")
    /\ Script[30] = Sends("FheForgeTimelock", "EXECUTOR", "anyone")
    /\ Script[31] = Does("renounce", "FheForgeTimelock")
    /\ Script[32] = Does("verify", "")
    /\ Script[33] = Does("record", "")
    /\ Script[34] = Does("env", "")
<1>1. /\ Script[1] = Layers[1] /\ Script[2] = Layers[2] /\ Script[3] = Layers[3]
      /\ Script[4] = Layers[4] /\ Script[5] = Layers[5] /\ Script[6] = Layers[6]
      /\ Script[7] = Layers[7] /\ Script[8] = Layers[8] /\ Script[9] = Layers[9]
      /\ Script[10] = Layers[10] /\ Script[11] = Layers[11]
  BY ScriptLines
<1>2. /\ Script[12] = Wiring[1] /\ Script[13] = Wiring[2] /\ Script[14] = Wiring[3]
      /\ Script[15] = Wiring[4] /\ Script[16] = Wiring[5] /\ Script[17] = Wiring[6]
      /\ Script[18] = Wiring[7] /\ Script[19] = Wiring[8] /\ Script[20] = Wiring[9]
      /\ Script[21] = Wiring[10] /\ Script[22] = Wiring[11] /\ Script[23] = Wiring[12]
  <2>1. \A i \in 1 .. 12 : Script[i + 11] = Wiring[i]
    BY ScriptLines
  <2> QED BY <2>1
<1>3. /\ Script[24] = Governance[1] /\ Script[25] = Governance[2] /\ Script[26] = Governance[3]
      /\ Script[27] = Governance[4] /\ Script[28] = Governance[5] /\ Script[29] = Governance[6]
      /\ Script[30] = Governance[7] /\ Script[31] = Governance[8]
  <2>1. \A i \in 1 .. 8 : Script[i + 23] = Governance[i]
    BY ScriptLines
  <2> QED BY <2>1
<1>4. /\ Script[32] = Ending[1] /\ Script[33] = Ending[2] /\ Script[34] = Ending[3]
  <2>1. \A i \in 1 .. 3 : Script[i + 31] = Ending[i]
    BY ScriptLines
  <2> QED BY <2>1
<1> QED BY <1>1, <1>2, <1>3, <1>4 DEF Layers, Wiring, Governance, Ending

\* What a line may be, at its place.
LineAt(s, i) ==
    /\ s.op \in {"deploy", "send", "token", "push", "renounce", "verify", "record", "env"}
    /\ s.op = "deploy" => s.of \in Contracts /\ s.to \subseteq Contracts
    /\ s.op = "send" => /\ s.of \in Contracts /\ i > 11 /\ s.what # "ADMIN"
                        /\ s.of = "FheForgeTimelock" => i > 26
    /\ s.op = "token" => s.of \in Tokens /\ i < 9
    /\ s.op = "renounce" => s.of = "FheForgeTimelock" /\ i = 31
    /\ s.op = "record" <=> i = 33
    /\ s.op = "env" <=> i = 34

\* Every line is one of those its place allows.
LEMMA LineShapes == \A i \in 1 .. 34 : LineAt(Script[i], i)
<1>1. \A i \in 1 .. 11 : LineAt(Layers[i], i)
  <2>1. /\ LineAt(Deploys("ExecutorContract", {}), 1)
        /\ LineAt(Deploys("StrategyRegistry", {}), 2)
        /\ LineAt(Deploys("LendingPool", {}), 3)
        /\ LineAt(Deploys("PriceOracle", {}), 4)
        /\ LineAt(Deploys("SwapRouter", {"ExecutorContract"}), 5)
        /\ LineAt(Deploys("TokenRegistry", {}), 6)
        /\ LineAt(Does("token", "WETH"), 7)
        /\ LineAt(Does("token", "USDC"), 8)
        /\ LineAt(Deploys("StrategyVault", {"StrategyRegistry"}), 9)
        /\ LineAt(Deploys("FheForgeComposer", {"StrategyRegistry", "StrategyVault",
                  "LendingPool", "SwapRouter"}), 10)
        /\ LineAt(Deploys("StrategyExecutor", {"LendingPool", "StrategyVault",
                  "SwapRouter"}), 11)
    BY DEF LineAt, Deploys, Does, Contracts, Tokens
  <2>2. \A i \in 1 .. 11 : \/ i = 1 \/ i = 2 \/ i = 3 \/ i = 4 \/ i = 5 \/ i = 6
                            \/ i = 7 \/ i = 8 \/ i = 9 \/ i = 10 \/ i = 11
    OBVIOUS
  <2> QED BY <2>1, <2>2 DEF Layers
<1>2. \A i \in 1 .. 12 : LineAt(Wiring[i], i + 11)
  <2>1. /\ LineAt(Sends("StrategyRegistry", "vaultAddress", "StrategyVault"), 12)
        /\ LineAt(Sends("LendingPool", "weth", "WETH"), 13)
        /\ LineAt(Sends("LendingPool", "oracle", "PriceOracle"), 14)
        /\ LineAt(Sends("LendingPool", "isComposer", "FheForgeComposer"), 15)
        /\ LineAt(Sends("LendingPool", "isComposer", "StrategyExecutor"), 16)
        /\ LineAt(Sends("PriceOracle", "priceId", "WETH"), 17)
        /\ LineAt(Sends("PriceOracle", "priceId", "USDC"), 18)
        /\ LineAt(Sends("PriceOracle", "collateralFactorBps", "USDC"), 19)
        /\ LineAt(Sends("PriceOracle", "collateralFactorBps", "WETH"), 20)
        /\ LineAt(Sends("TokenRegistry", "isTokenEnabled", "WETH"), 21)
        /\ LineAt(Sends("TokenRegistry", "isTokenEnabled", "USDC"), 22)
        /\ LineAt(Does("push", "PriceOracle"), 23)
    BY DEF LineAt, Sends, Does, Contracts, Tokens
  <2>2. \A i \in 1 .. 12 : \/ i = 1 \/ i = 2 \/ i = 3 \/ i = 4 \/ i = 5 \/ i = 6
                            \/ i = 7 \/ i = 8 \/ i = 9 \/ i = 10 \/ i = 11 \/ i = 12
    OBVIOUS
  <2> QED BY <2>1, <2>2 DEF Wiring
<1>3. \A i \in 1 .. 8 : LineAt(Governance[i], i + 23)
  <2>1. /\ LineAt(Deploys("FheForgeToken", {}), 24)
        /\ LineAt(Sends("FheForgeToken", "balance", "deployer"), 25)
        /\ LineAt(Deploys("FheForgeTimelock", {}), 26)
        /\ LineAt(Deploys("FheForgeGovernor", {"FheForgeToken", "FheForgeTimelock"}), 27)
        /\ LineAt(Sends("FheForgeTimelock", "PROPOSER", "FheForgeGovernor"), 28)
        /\ LineAt(Sends("FheForgeTimelock", "CANCELLER", "FheForgeGovernor"), 29)
        /\ LineAt(Sends("FheForgeTimelock", "EXECUTOR", "anyone"), 30)
        /\ LineAt(Does("renounce", "FheForgeTimelock"), 31)
    BY DEF LineAt, Deploys, Sends, Does, Contracts
  <2>2. \A i \in 1 .. 8 : \/ i = 1 \/ i = 2 \/ i = 3 \/ i = 4 \/ i = 5 \/ i = 6
                           \/ i = 7 \/ i = 8
    OBVIOUS
  <2> QED BY <2>1, <2>2 DEF Governance
<1>4. \A i \in 1 .. 3 : LineAt(Ending[i], i + 31)
  <2>1. /\ LineAt(Does("verify", ""), 32)
        /\ LineAt(Does("record", ""), 33)
        /\ LineAt(Does("env", ""), 34)
    BY DEF LineAt, Does
  <2>2. Ending[1] = Does("verify", "") /\ Ending[2] = Does("record", "")
        /\ Ending[3] = Does("env", "")
    BY DEF Ending
  <2>3. LineAt(Ending[1], 32) /\ LineAt(Ending[2], 33) /\ LineAt(Ending[3], 34)
    BY <2>1, <2>2, Zenon
  <2>4. \A i \in 1 .. 3 : i = 1 \/ i = 2 \/ i = 3
    OBVIOUS
  <2> QED BY <2>3, <2>4
<1> SUFFICES ASSUME NEW i \in 1 .. 34 PROVE LineAt(Script[i], i)
  OBVIOUS
<1>5. CASE i <= 11
  BY <1>1, <1>5, ScriptLines
<1>6. CASE i > 11 /\ i <= 23
  <2>1. PICK j \in 1 .. 12 : i = j + 11
    BY <1>6
  <2> QED BY <1>2, <2>1, ScriptLines
<1>7. CASE i > 23 /\ i <= 31
  <2>1. PICK j \in 1 .. 8 : i = j + 23
    BY <1>7
  <2> QED BY <1>3, <2>1, ScriptLines
<1>8. CASE i > 31
  <2>1. PICK j \in 1 .. 3 : i = j + 31
    BY <1>8
  <2> QED BY <1>4, <2>1, ScriptLines
<1> QED BY <1>5, <1>6, <1>7, <1>8

DeployAt(i, of, to) == Script[i].op = "deploy" /\ Script[i].of = of /\ Script[i].to = to
SendAt(i, of, what, to) ==
    Script[i].op = "send" /\ Script[i].of = of /\ Script[i].what = what /\ Script[i].to = to


\* A deploy, and below a call, by the fields the proofs read.
LEMMA DeployReads ==
    ASSUME NEW i, NEW of, NEW to, Script[i] = Deploys(of, to)
    PROVE  DeployAt(i, of, to)
<1>1. PICK s : s = Deploys(of, to)
  OBVIOUS
<1>2. s.op = "deploy" /\ s.of = of /\ s.to = to
  BY <1>1 DEF Deploys
<1>3. Script[i] = s
  BY <1>1, Zenon
<1> QED BY <1>2, <1>3, Zenon DEF DeployAt

LEMMA SendReads ==
    ASSUME NEW i, NEW of, NEW what, NEW to, Script[i] = Sends(of, what, to)
    PROVE  SendAt(i, of, what, to)
<1>1. PICK s : s = Sends(of, what, to)
  OBVIOUS
<1>2. s.op = "send" /\ s.of = of /\ s.what = what /\ s.to = to
  BY <1>1 DEF Sends
<1>3. Script[i] = s
  BY <1>1, Zenon
<1> QED BY <1>2, <1>3, Zenon DEF SendAt

\* The lines that deploy and the lines that wire.
LEMMA ScriptReads ==
    /\ DeployAt(1, "ExecutorContract", {})
    /\ DeployAt(2, "StrategyRegistry", {})
    /\ DeployAt(3, "LendingPool", {})
    /\ DeployAt(4, "PriceOracle", {})
    /\ DeployAt(5, "SwapRouter", {"ExecutorContract"})
    /\ DeployAt(6, "TokenRegistry", {})
    /\ DeployAt(9, "StrategyVault", {"StrategyRegistry"})
    /\ DeployAt(10, "FheForgeComposer", {"StrategyRegistry", "StrategyVault", "LendingPool", "SwapRouter"})
    /\ DeployAt(11, "StrategyExecutor", {"LendingPool", "StrategyVault", "SwapRouter"})
    /\ SendAt(12, "StrategyRegistry", "vaultAddress", "StrategyVault")
    /\ SendAt(13, "LendingPool", "weth", "WETH")
    /\ SendAt(14, "LendingPool", "oracle", "PriceOracle")
    /\ SendAt(15, "LendingPool", "isComposer", "FheForgeComposer")
    /\ SendAt(16, "LendingPool", "isComposer", "StrategyExecutor")
    /\ SendAt(17, "PriceOracle", "priceId", "WETH")
    /\ SendAt(18, "PriceOracle", "priceId", "USDC")
    /\ SendAt(19, "PriceOracle", "collateralFactorBps", "USDC")
    /\ SendAt(20, "PriceOracle", "collateralFactorBps", "WETH")
    /\ SendAt(21, "TokenRegistry", "isTokenEnabled", "WETH")
    /\ SendAt(22, "TokenRegistry", "isTokenEnabled", "USDC")
    /\ DeployAt(24, "FheForgeToken", {})
    /\ SendAt(25, "FheForgeToken", "balance", "deployer")
    /\ DeployAt(26, "FheForgeTimelock", {})
    /\ DeployAt(27, "FheForgeGovernor", {"FheForgeToken", "FheForgeTimelock"})
    /\ SendAt(28, "FheForgeTimelock", "PROPOSER", "FheForgeGovernor")
    /\ SendAt(29, "FheForgeTimelock", "CANCELLER", "FheForgeGovernor")
    /\ SendAt(30, "FheForgeTimelock", "EXECUTOR", "anyone")
<1>1. /\ DeployAt(1, "ExecutorContract", {})
      /\ DeployAt(2, "StrategyRegistry", {})
      /\ DeployAt(3, "LendingPool", {})
      /\ DeployAt(4, "PriceOracle", {})
      /\ DeployAt(5, "SwapRouter", {"ExecutorContract"})
  BY ScriptText, DeployReads, SendReads, Zenon
<1>2. /\ DeployAt(6, "TokenRegistry", {})
      /\ DeployAt(9, "StrategyVault", {"StrategyRegistry"})
      /\ DeployAt(10, "FheForgeComposer", {"StrategyRegistry", "StrategyVault", "LendingPool", "SwapRouter"})
      /\ DeployAt(11, "StrategyExecutor", {"LendingPool", "StrategyVault", "SwapRouter"})
      /\ SendAt(12, "StrategyRegistry", "vaultAddress", "StrategyVault")
  BY ScriptText, DeployReads, SendReads, Zenon
<1>3. /\ SendAt(13, "LendingPool", "weth", "WETH")
      /\ SendAt(14, "LendingPool", "oracle", "PriceOracle")
      /\ SendAt(15, "LendingPool", "isComposer", "FheForgeComposer")
      /\ SendAt(16, "LendingPool", "isComposer", "StrategyExecutor")
      /\ SendAt(17, "PriceOracle", "priceId", "WETH")
  BY ScriptText, DeployReads, SendReads, Zenon
<1>4. /\ SendAt(18, "PriceOracle", "priceId", "USDC")
      /\ SendAt(19, "PriceOracle", "collateralFactorBps", "USDC")
      /\ SendAt(20, "PriceOracle", "collateralFactorBps", "WETH")
      /\ SendAt(21, "TokenRegistry", "isTokenEnabled", "WETH")
      /\ SendAt(22, "TokenRegistry", "isTokenEnabled", "USDC")
  BY ScriptText, DeployReads, SendReads, Zenon
<1>5. /\ DeployAt(24, "FheForgeToken", {})
      /\ SendAt(25, "FheForgeToken", "balance", "deployer")
      /\ DeployAt(26, "FheForgeTimelock", {})
      /\ DeployAt(27, "FheForgeGovernor", {"FheForgeToken", "FheForgeTimelock"})
      /\ SendAt(28, "FheForgeTimelock", "PROPOSER", "FheForgeGovernor")
  BY ScriptText, DeployReads, SendReads, Zenon
<1>6. /\ SendAt(29, "FheForgeTimelock", "CANCELLER", "FheForgeGovernor")
      /\ SendAt(30, "FheForgeTimelock", "EXECUTOR", "anyone")
  BY ScriptText, DeployReads, SendReads, Zenon
<1> QED BY <1>1, <1>2, <1>3, <1>4, <1>5, <1>6, Zenon
\* What a line that has run has left on the chain.
Done(i) ==
    LET s == Script[i]
    IN  /\ s.op = "deploy" =>
              /\ Exists(<<s.of, run>>)
              /\ \A a \in s.to : Link(<<s.of, run>>, "immutable", <<a, run>>) \in links
        /\ s.op = "send" => Link(<<s.of, run>>, s.what, AddressOf(s.to)) \in links

TokenThere(t) == tokens[t][2] = 0 \/ Exists(tokens[t])

InCharge(t) == Link(t, "ADMIN", <<"deployer", 0>>) \in links \/ Governed(t)

TimelocksInCharge ==
    \A t \in {l.of : l \in links} : t[1] = "FheForgeTimelock" => InCharge(t)

ScriptInv ==
    /\ run \in Nat /\ line \in 0 .. 34 /\ faucetLine \in Nat
    /\ DOMAIN tokens = Tokens /\ \A t \in Tokens : TokenThere(t)
    /\ \A i \in 1 .. line - 1 : Done(i)
    /\ record = NoRecord \/ record = TornFile \/ (record.kind = "record" /\ Whole(record))
    /\ envFile = NoRecord \/ envFile = TornFile \/ (envFile.kind = "env" /\ Whole(envFile))
    /\ TimelocksInCharge

\* Nothing but a timelock's administrator is ever taken off the chain.
LinksStay == \A l \in links : l.what # "ADMIN" => l \in links'

\* Whole files stay whole while only administrators leave the chain.
LEMMA FilesStay ==
    ASSUME LinksStay
    PROVE  /\ record' = record /\ Whole(record) => Whole(record)'
           /\ envFile' = envFile /\ Whole(envFile) => Whole(envFile)'
<1>1. \A of, what, to :
         what # "ADMIN" /\ Link(of, what, to) \in links => Link(of, what, to) \in links'
  BY DEF LinksStay, Link
<1>2. record' = record /\ Whole(record) => Whole(record)'
  BY <1>1 DEF Whole, Knows, Exists
<1>3. envFile' = envFile /\ Whole(envFile) => Whole(envFile)'
  BY <1>1 DEF Whole, Knows, Exists
<1> QED BY <1>2, <1>3

\* So does everything else the invariant speaks of.
LEMMA StateStays ==
    ASSUME LinksStay
    PROVE  /\ \A t : Governed(t) => Governed(t)'
           /\ tokens' = tokens => \A t \in Tokens : TokenThere(t) => TokenThere(t)'
           /\ run' = run /\ tokens' = tokens => \A i \in 1 .. 34 : Done(i) => Done(i)'
<1>1. \A of, what, to : what # "ADMIN" /\ Link(of, what, to) \in links => Link(of, what, to) \in links'
  BY DEF LinksStay, Link
<1>2. ASSUME NEW t, Governed(t) PROVE Governed(t)'
  <2>1. PICK g \in {l.of : l \in links} :
          /\ Link(g, "immutable", t) \in links
          /\ Link(t, "PROPOSER", g) \in links /\ Link(t, "CANCELLER", g) \in links
    BY <1>2 DEF Governed
  <2>2. /\ Link(g, "immutable", t) \in links'
        /\ Link(t, "PROPOSER", g) \in links' /\ Link(t, "CANCELLER", g) \in links'
        /\ Link(t, "EXECUTOR", <<"anyone", 0>>) \in links'
    BY <1>1, <1>2, <2>1 DEF Governed
  <2>3. g \in {l.of : l \in links'}
    BY <2>2 DEF Link
  <2> QED BY <2>2, <2>3 DEF Governed
<1>3. tokens' = tokens => \A t \in Tokens : TokenThere(t) => TokenThere(t)'
  BY <1>1 DEF TokenThere, Exists
<1>4. ASSUME run' = run, tokens' = tokens, NEW i \in 1 .. 34, Done(i) PROVE Done(i)'
  BY <1>1, <1>4, LineShapes DEF Done, Exists, AddressOf, LineAt
<1> QED BY <1>2, <1>3, <1>4

\* Who a name stands for in this run.
LEMMA Addresses ==
    /\ \A c \in Contracts : AddressOf(c) = <<c, run>>
    /\ AddressOf("deployer") = <<"deployer", 0>> /\ AddressOf("anyone") = <<"anyone", 0>>
  BY DEF AddressOf, Contracts, Tokens

\* What a deploy, and what a call, has left once its line is done.
LEMMA DeployLeft ==
    ASSUME NEW i, NEW of, NEW to, Done(i), DeployAt(i, of, to)
    PROVE  /\ Exists(<<of, run>>)
           /\ \A a \in to : Link(<<of, run>>, "immutable", <<a, run>>) \in links
  BY DEF Done, DeployAt

LEMMA SendLeft ==
    ASSUME NEW i, NEW of, NEW what, NEW to, Done(i), SendAt(i, of, what, to)
    PROVE  Link(<<of, run>>, what, AddressOf(to)) \in links
  BY DEF Done, SendAt

\* The timelock of a run is handed over before the deployer leaves it.
LEMMA Renounced ==
    ASSUME \A i \in 1 .. 30 : Done(i)
    PROVE  Governed(<<"FheForgeTimelock", run>>)
<1>1. Done(27) /\ Done(28) /\ Done(29) /\ Done(30)
  OBVIOUS
<1>2. Link(<<"FheForgeGovernor", run>>, "immutable", <<"FheForgeTimelock", run>>) \in links
  <2>1. DeployAt(27, "FheForgeGovernor", {"FheForgeToken", "FheForgeTimelock"})
    BY ScriptReads, Zenon
  <2>2. \A a \in {"FheForgeToken", "FheForgeTimelock"} :
           Link(<<"FheForgeGovernor", run>>, "immutable", <<a, run>>) \in links
    BY <1>1, <2>1, DeployLeft, Zenon
  <2> QED BY <2>2
<1>3. /\ Link(<<"FheForgeTimelock", run>>, "PROPOSER", AddressOf("FheForgeGovernor")) \in links
      /\ Link(<<"FheForgeTimelock", run>>, "CANCELLER", AddressOf("FheForgeGovernor")) \in links
      /\ Link(<<"FheForgeTimelock", run>>, "EXECUTOR", AddressOf("anyone")) \in links
  BY <1>1, ScriptReads, SendLeft, Zenon
<1>4. <<"FheForgeGovernor", run>> \in {l.of : l \in links}
  BY <1>2 DEF Link
<1>5. AddressOf("FheForgeGovernor") = <<"FheForgeGovernor", run>>
  BY Addresses DEF Contracts
<1> QED BY <1>2, <1>3, <1>4, <1>5, Addresses DEF Governed

\* A line's transaction takes only a handed-over timelock from its deployer.
LEMMA AfterLine ==
    ASSUME ScriptInv, line > 0, links' = After(Script[line])
    PROVE  LinksStay /\ TimelocksInCharge'
<1>1. PICK s : s = Script[line]
  OBVIOUS
<1>2. LineAt(s, line)
  BY <1>1, LineShapes DEF ScriptInv
<1>3. CASE s.op = "renounce"
  <2>1. PICK t : t = <<"FheForgeTimelock", run>>
    OBVIOUS
  <2>2. links' = links \ {Link(t, "ADMIN", <<"deployer", 0>>)}
    BY <1>1, <1>2, <1>3, <2>1, Addresses DEF After, LineAt, Contracts
  <2>3. LinksStay
    BY <2>2 DEF LinksStay, Link
  <2>4. Governed(t)'
    <3>1. \A i \in 1 .. 30 : Done(i)
      BY <1>2, <1>3 DEF LineAt, ScriptInv
    <3>2. Governed(t)
      BY <2>1, <3>1, Renounced
    <3> QED BY <2>3, <3>2, StateStays
  <2>5. ASSUME NEW a \in {l.of : l \in links'}, a[1] = "FheForgeTimelock" PROVE InCharge(a)'
    <3>1. a \in {l.of : l \in links}
      BY <2>2
    <3>2. InCharge(a)
      BY <2>5, <3>1 DEF ScriptInv, TimelocksInCharge
    <3>3. CASE a # t
      <4>1. Link(a, "ADMIN", <<"deployer", 0>>) # Link(t, "ADMIN", <<"deployer", 0>>)
        BY <3>3 DEF Link
      <4> QED BY <2>2, <2>3, <3>2, <4>1, StateStays DEF InCharge
    <3> QED BY <2>4, <3>3 DEF InCharge
  <2> QED BY <2>3, <2>5 DEF TimelocksInCharge
<1>4. CASE s.op # "renounce"
  <2>1. links' = links \cup Adds(s)
    BY <1>1, <1>4 DEF After
  <2>2. LinksStay
    BY <2>1 DEF LinksStay
  <2>3. ASSUME NEW a \in {l.of : l \in links}, a[1] = "FheForgeTimelock" PROVE InCharge(a)'
    BY <2>1, <2>2, <2>3, StateStays DEF InCharge, ScriptInv, TimelocksInCharge
  <2>4. ASSUME NEW l \in Adds(s), l.of[1] = "FheForgeTimelock" PROVE InCharge(l.of)'
    <3>1. PICK t : t = <<"FheForgeTimelock", run>>
      OBVIOUS
    <3>2. CASE s.op = "deploy"
      <4>1. s.of \in Contracts /\ AddressOf(s.of) = <<s.of, run>>
        BY <1>2, <3>2, Addresses DEF LineAt
      <4>2. l.of = <<s.of, run>>
        <5>1. l \in {Link(<<s.of, run>>, "is deployed", <<s.of, run>>)}
                   \cup {Link(<<s.of, run>>, "immutable", AddressOf(a)) : a \in s.to}
                   \cup {k \in {Link(<<s.of, run>>, "ADMIN", AddressOf("deployer"))} :
                            s.of = "FheForgeTimelock"}
          BY <2>4, <3>2, <4>1 DEF Adds
        <5>2. \A what, to : Link(<<s.of, run>>, what, to).of = <<s.of, run>>
          BY DEF Link
        <5> QED BY <5>1, <5>2
      <4>3. s.of = "FheForgeTimelock" /\ l.of = t
        BY <2>4, <3>1, <4>2
      <4>4. Link(t, "ADMIN", <<"deployer", 0>>) \in Adds(s)
        BY <3>1, <3>2, <4>1, <4>3, Addresses DEF Adds
      <4> QED BY <2>1, <4>3, <4>4 DEF InCharge
    <3>3. CASE s.op = "send"
      <4>1. s.of \in Contracts /\ AddressOf(s.of) = <<s.of, run>>
        BY <1>2, <3>3, Addresses DEF LineAt
      <4>2. l.of = <<s.of, run>>
        BY <3>3, <4>1 DEF Adds, Link
      <4>3. s.of = "FheForgeTimelock" /\ l.of = t /\ line > 26
        BY <1>2, <2>4, <3>1, <3>3, <4>2 DEF LineAt
      <4>4. Done(26)
        BY <4>3 DEF ScriptInv
      <4>5. Link(t, "is deployed", t) \in links
        <5>1. DeployAt(26, "FheForgeTimelock", {})
          BY ScriptReads, Zenon
        <5> QED BY <3>1, <4>4, <5>1, DeployLeft, Zenon DEF Exists
      <4>6. l.of \in {k.of : k \in links}
        <5>1. Link(t, "is deployed", t).of = t
          BY DEF Link
        <5> QED BY <4>3, <4>5, <5>1
      <4> QED BY <2>3, <2>4, <4>6
    <3>4. CASE s.op = "token"
      <4>1. s.of \in Tokens
        BY <1>2, <3>4 DEF LineAt
      <4>2. l = Link(<<s.of, run>>, "is deployed", <<s.of, run>>)
        BY <2>4, <3>4 DEF Adds
      <4>3. l.of[1] = s.of
        BY <4>2 DEF Link
      <4> QED BY <2>4, <4>1, <4>3 DEF Tokens
    <3> QED BY <1>2, <1>4, <2>4, <3>2, <3>3, <3>4 DEF Adds, LineAt
  <2> QED BY <2>1, <2>2, <2>3, <2>4 DEF TimelocksInCharge
<1> QED BY <1>3, <1>4



\* By the time the files are written everything they need is on the chain.
LEMMA WholeNow ==
    ASSUME ScriptInv, line > 32, NEW d, d.contracts = AllContracts, d.tokens = tokens
    PROVE  Whole(d)
<1>1. \A c \in Contracts : d.contracts[c] = <<c, run>> /\ AddressOf(c) = <<c, run>>
  BY Addresses DEF AllContracts
<1>2. \A t \in Tokens : d.tokens[t] = AddressOf(t) /\ TokenThere(t)
  BY DEF AddressOf, ScriptInv
<1>3. /\ Done(1) /\ Done(2) /\ Done(3) /\ Done(4) /\ Done(5) /\ Done(6)
      /\ Done(9) /\ Done(10) /\ Done(11) /\ Done(12) /\ Done(13) /\ Done(14)
      /\ Done(15) /\ Done(16) /\ Done(17) /\ Done(18) /\ Done(19) /\ Done(20)
      /\ Done(21) /\ Done(22) /\ Done(24) /\ Done(26) /\ Done(27)
  BY DEF ScriptInv
<1>4. /\ Exists(<<"ExecutorContract", run>>)
      /\ Exists(<<"StrategyRegistry", run>>)
      /\ Exists(<<"LendingPool", run>>)
      /\ Exists(<<"PriceOracle", run>>)
      /\ Exists(<<"SwapRouter", run>>)
      /\ Exists(<<"TokenRegistry", run>>)
  BY <1>3, ScriptReads, DeployLeft, Zenon
<1>5. /\ Exists(<<"StrategyVault", run>>)
      /\ Exists(<<"FheForgeComposer", run>>)
      /\ Exists(<<"StrategyExecutor", run>>)
      /\ Exists(<<"FheForgeToken", run>>)
      /\ Exists(<<"FheForgeTimelock", run>>)
      /\ Exists(<<"FheForgeGovernor", run>>)
  BY <1>3, ScriptReads, DeployLeft, Zenon
<1>6. /\ \A a \in {"StrategyRegistry"} :
            Link(<<"StrategyVault", run>>, "immutable", <<a, run>>) \in links
      /\ \A a \in {"StrategyRegistry", "StrategyVault", "LendingPool", "SwapRouter"} :
            Link(<<"FheForgeComposer", run>>, "immutable", <<a, run>>) \in links
      /\ \A a \in {"LendingPool", "StrategyVault", "SwapRouter"} :
            Link(<<"StrategyExecutor", run>>, "immutable", <<a, run>>) \in links
  BY <1>3, ScriptReads, DeployLeft, Zenon
<1>7. /\ Link(<<"StrategyRegistry", run>>, "vaultAddress", AddressOf("StrategyVault")) \in links
      /\ Link(<<"LendingPool", run>>, "weth", AddressOf("WETH")) \in links
      /\ Link(<<"LendingPool", run>>, "oracle", AddressOf("PriceOracle")) \in links
      /\ Link(<<"LendingPool", run>>, "isComposer", AddressOf("FheForgeComposer")) \in links
      /\ Link(<<"LendingPool", run>>, "isComposer", AddressOf("StrategyExecutor")) \in links
  BY <1>3, ScriptReads, SendLeft, Zenon
<1>8. \A t \in Tokens :
         /\ Link(<<"PriceOracle", run>>, "priceId", AddressOf(t)) \in links
         /\ Link(<<"PriceOracle", run>>, "collateralFactorBps", AddressOf(t)) \in links
         /\ Link(<<"TokenRegistry", run>>, "isTokenEnabled", AddressOf(t)) \in links
  <2>1. /\ Link(<<"PriceOracle", run>>, "priceId", AddressOf("WETH")) \in links
        /\ Link(<<"PriceOracle", run>>, "priceId", AddressOf("USDC")) \in links
        /\ Link(<<"PriceOracle", run>>, "collateralFactorBps", AddressOf("USDC")) \in links
    BY <1>3, ScriptReads, SendLeft, Zenon
  <2>2. /\ Link(<<"PriceOracle", run>>, "collateralFactorBps", AddressOf("WETH")) \in links
        /\ Link(<<"TokenRegistry", run>>, "isTokenEnabled", AddressOf("WETH")) \in links
        /\ Link(<<"TokenRegistry", run>>, "isTokenEnabled", AddressOf("USDC")) \in links
    BY <1>3, ScriptReads, SendLeft, Zenon
  <2> QED BY <2>1, <2>2 DEF Tokens
<1>9. \A c \in Contracts : Exists(d.contracts[c])
  BY <1>1, <1>4, <1>5 DEF Contracts
<1>10. \A t \in Tokens : d.tokens[t][2] = 0 \/ Exists(d.tokens[t])
  BY <1>2 DEF TokenThere
<1>11. \A of \in Contracts, to \in Contracts \cup Tokens : \A what :
          Link(<<of, run>>, what, AddressOf(to)) \in links => Knows(d, of, what, to)
  BY <1>1, <1>2 DEF Knows, Tokens, Contracts
<1>12. \A t \in Tokens :
          /\ Knows(d, "PriceOracle", "priceId", t)
          /\ Knows(d, "PriceOracle", "collateralFactorBps", t)
          /\ Knows(d, "TokenRegistry", "isTokenEnabled", t)
  BY <1>8, <1>11 DEF Contracts
<1>13. /\ Knows(d, "StrategyRegistry", "vaultAddress", "StrategyVault")
       /\ Knows(d, "LendingPool", "oracle", "PriceOracle")
       /\ Knows(d, "LendingPool", "weth", "WETH")
       /\ Knows(d, "LendingPool", "isComposer", "FheForgeComposer")
       /\ Knows(d, "LendingPool", "isComposer", "StrategyExecutor")
  BY <1>7, <1>11 DEF Contracts, Tokens
<1>14. /\ Knows(d, "StrategyVault", "immutable", "StrategyRegistry")
       /\ \A other \in {"LendingPool", "StrategyVault", "SwapRouter"} :
             /\ Knows(d, "FheForgeComposer", "immutable", other)
             /\ Knows(d, "StrategyExecutor", "immutable", other)
  BY <1>1, <1>6, <1>11 DEF Contracts, Tokens
<1> QED BY <1>9, <1>10, <1>12, <1>13, <1>14 DEF Whole

\* What a line adds is there once its transaction is mined.
LEMMA LineIsDone ==
    ASSUME ScriptInv, Transacts, NEW i, i = line
    PROVE  Done(i)' /\ \A t \in Tokens : TokenThere(t)'
<1>1. PICK s : s = Script[line] /\ s = Script[i]
  OBVIOUS
<1>2. LineAt(s, line) /\ LinksStay
  BY <1>1, LineShapes, AfterLine DEF ScriptInv, Transacts
<1>3. links' = After(s) /\ run' = run /\ s.op \notin {"verify", "record", "env"}
  BY <1>1 DEF Transacts
<1>4. CASE s.op = "deploy"
  <2>1. s.of \in Contracts /\ AddressOf(s.of) = <<s.of, run>>
        /\ \A a \in s.to : AddressOf(a) = <<a, run>>
    BY <1>2, <1>4, Addresses DEF LineAt
  <2>2. /\ Link(<<s.of, run>>, "is deployed", <<s.of, run>>) \in Adds(s)
        /\ \A a \in s.to : Link(<<s.of, run>>, "immutable", <<a, run>>) \in Adds(s)
    BY <1>4, <2>1 DEF Adds
  <2>3. links' = links \cup Adds(s)
    BY <1>3, <1>4 DEF After
  <2>4. tokens' = tokens
    BY <1>1, <1>4 DEF Transacts
  <2>5. \A t \in Tokens : TokenThere(t)'
    BY <1>2, <2>4, StateStays DEF ScriptInv
  <2> QED BY <1>1, <1>3, <1>4, <2>2, <2>3, <2>5 DEF Done, Exists
<1>5. CASE s.op = "send"
  <2>1. s.of \in Contracts /\ AddressOf(s.of) = <<s.of, run>>
    BY <1>2, <1>5, Addresses DEF LineAt
  <2>2. Link(<<s.of, run>>, s.what, AddressOf(s.to)) \in Adds(s)
    BY <1>5, <2>1 DEF Adds
  <2>3. links' = links \cup Adds(s)
    BY <1>3, <1>5 DEF After
  <2>4. tokens' = tokens
    BY <1>1, <1>5 DEF Transacts
  <2>5. AddressOf(s.to)' = AddressOf(s.to)
    BY <1>3, <2>4 DEF AddressOf
  <2>6. \A t \in Tokens : TokenThere(t)'
    BY <1>2, <2>4, StateStays DEF ScriptInv
  <2> QED BY <1>1, <1>3, <1>5, <2>2, <2>3, <2>5, <2>6 DEF Done
<1>6. CASE s.op = "token"
  <2>1. s.of \in Tokens /\ AddressOf(s.of) = tokens[s.of]
    BY <1>2, <1>6 DEF LineAt, AddressOf
  <2>2. links' = links \cup Adds(s)
    BY <1>3, <1>6 DEF After
  <2>3. Done(i)'
    BY <1>1, <1>6 DEF Done
  <2>4. CASE tokens[s.of] = NoAddress
    <3>1. tokens' = [tokens EXCEPT ![s.of] = <<s.of, run>>]
      BY <1>1, <1>6, <2>4 DEF Transacts
    <3>2. Link(<<s.of, run>>, "is deployed", <<s.of, run>>) \in links'
      BY <1>6, <2>1, <2>2, <2>4 DEF Adds
    <3>3. ASSUME NEW t \in Tokens PROVE TokenThere(t)'
      <4>1. CASE t = s.of
        BY <2>1, <3>1, <3>2, <4>1 DEF ScriptInv, TokenThere, Exists
      <4>2. CASE t # s.of
        <5>1. tokens'[t] = tokens[t]
          BY <2>1, <3>1, <4>2 DEF ScriptInv
        <5>2. TokenThere(t)
          BY DEF ScriptInv
        <5> QED BY <2>2, <5>1, <5>2 DEF TokenThere, Exists
      <4> QED BY <4>1, <4>2
    <3> QED BY <2>3, <3>3
  <2>5. CASE tokens[s.of] # NoAddress
    <3>1. tokens' = tokens
      BY <1>1, <1>6, <2>5 DEF Transacts
    <3> QED BY <1>2, <2>3, <3>1, StateStays DEF ScriptInv
  <2> QED BY <2>4, <2>5
<1>7. CASE s.op \in {"push", "renounce"}
  <2>1. tokens' = tokens
    BY <1>1, <1>7 DEF Transacts
  <2>2. Done(i)'
    BY <1>1, <1>7 DEF Done
  <2> QED BY <1>2, <2>1, <2>2, StateStays DEF ScriptInv
<1> QED BY <1>2, <1>3, <1>4, <1>5, <1>6, <1>7 DEF LineAt

\* A token's line changes an address that no line before it has used.
LEMMA LinesStayDone ==
    ASSUME ScriptInv, line > 0, Transacts, NEW i \in 1 .. line - 1
    PROVE  Done(i)'
<1>1. PICK s : s = Script[line]
  OBVIOUS
<1>2. LineAt(s, line) /\ LinksStay /\ run' = run /\ i \in 1 .. 34 /\ Done(i)
  BY <1>1, LineShapes, AfterLine DEF ScriptInv, Transacts
<1>3. CASE s.op # "token"
  <2>1. tokens' = tokens
    BY <1>1, <1>3 DEF Transacts
  <2> QED BY <1>2, <2>1, StateStays
<1>4. CASE s.op = "token"
  <2>1. PICK u : u = Script[i]
    OBVIOUS
  <2>2. LineAt(u, i) /\ i < 9
    BY <1>2, <1>4, <2>1, LineShapes DEF LineAt, ScriptInv
  <2>3. u.op # "send"
    BY <2>2 DEF LineAt
  <2>4. \A of, to : Link(of, "immutable", to) \in links => Link(of, "immutable", to) \in links'
    BY <1>2 DEF LinksStay, Link
  <2>5. \A a : Exists(a) => Exists(a)'
    BY <1>2 DEF LinksStay, Link, Exists
  <2> QED BY <1>2, <2>1, <2>3, <2>4, <2>5 DEF Done
<1> QED BY <1>3, <1>4

\* The script moves to its next line or ends.
LEMMA NextLine ==
    ASSUME ScriptInv, line > 0, Next1
    PROVE  /\ line' \in 0 .. 34 /\ line' \in {0, line + 1}
           /\ 1 .. line' - 1 \subseteq 1 .. line
  BY ScriptLines DEF Next1, ScriptInv

\* A transaction completes its line and undoes none.
LEMMA TransactsStep == ScriptInv /\ Transacts => ScriptInv'
<1> SUFFICES ASSUME ScriptInv, Transacts PROVE ScriptInv'
  OBVIOUS
<1>1. /\ line > 0 /\ Script[line].op \notin {"verify", "record", "env"} /\ Next1
      /\ links' = After(Script[line]) /\ run' = run /\ record' = record /\ envFile' = envFile
      /\ faucetLine' = faucetLine
  BY DEF Transacts, faucetVars
<1>2. LinksStay /\ TimelocksInCharge'
  BY <1>1, AfterLine
<1>3. \A i : i = line => Done(i)' /\ \A t \in Tokens : TokenThere(t)'
  BY LineIsDone
<1>4. DOMAIN tokens' = Tokens
  BY DEF ScriptInv, Transacts
<1>5. \A i \in 1 .. line' - 1 : Done(i)'
  <2>1. TAKE i \in 1 .. line' - 1
  <2>2. i \in 1 .. line
    BY <1>1, NextLine
  <2>3. CASE i = line
    BY <1>3, <2>3
  <2>4. CASE i # line
    <3>1. i \in 1 .. line - 1
      BY <2>2, <2>4 DEF ScriptInv
    <3> QED BY <1>1, <3>1, LinesStayDone
  <2> QED BY <2>3, <2>4
<1> QED BY <1>1, <1>2, <1>3, <1>4, <1>5, NextLine, FilesStay DEF ScriptInv

\* Writing a file names what is whole by then.
LEMMA SavesStep == ScriptInv /\ Saves => ScriptInv'
<1> SUFFICES ASSUME ScriptInv, Saves PROVE ScriptInv'
  OBVIOUS
<1>1. /\ line > 0 /\ Next1 /\ links' = links /\ run' = run /\ tokens' = tokens
      /\ faucetLine' = faucetLine /\ Script[line].op \in {"record", "env"}
  BY DEF Saves, faucetVars
<1>2. LinksStay
  BY <1>1 DEF LinksStay
<1>3. line > 32
  BY <1>1, LineShapes DEF LineAt, ScriptInv
<1>4. PICK d, e : /\ d = RecordNow
                  /\ e = [kind |-> "env", contracts |-> AllContracts, tokens |-> tokens]
  OBVIOUS
<1>5. /\ d.kind = "record" /\ d.contracts = AllContracts /\ d.tokens = tokens
      /\ e.kind = "env" /\ e.contracts = AllContracts /\ e.tokens = tokens
  BY <1>4 DEF RecordNow
<1>6. Whole(d) /\ Whole(e)
  BY <1>3, <1>5, WholeNow
<1>7. (Whole(d) => Whole(d)') /\ (Whole(e) => Whole(e)')
  BY <1>1 DEF Whole, Knows, Exists
<1>8. /\ record' \in {record, d} /\ envFile' \in {envFile, e}
  BY <1>4 DEF Saves
<1>9. record' = NoRecord \/ record' = TornFile \/ (record'.kind = "record" /\ Whole(record)')
  <2>1. CASE record' = record
    BY <1>2, <2>1, FilesStay DEF ScriptInv
  <2>2. CASE record' = d
    <3>1. Whole(d)' => Whole(record)'
      BY <2>2 DEF Whole, Knows, Exists
    <3> QED BY <1>5, <1>6, <1>7, <2>2, <3>1
  <2> QED BY <1>8, <2>1, <2>2
<1>10. envFile' = NoRecord \/ envFile' = TornFile \/ (envFile'.kind = "env" /\ Whole(envFile)')
  <2>1. CASE envFile' = envFile
    BY <1>2, <2>1, FilesStay DEF ScriptInv
  <2>2. CASE envFile' = e
    <3>1. Whole(e)' => Whole(envFile)'
      BY <2>2 DEF Whole, Knows, Exists
    <3> QED BY <1>5, <1>6, <1>7, <2>2, <3>1
  <2> QED BY <1>8, <2>1, <2>2
<1>11. \A i \in 1 .. line' - 1 : Done(i)'
  <2>1. TAKE i \in 1 .. line' - 1
  <2>2. i \in 1 .. line
    BY <1>1, NextLine
  <2>3. CASE i = line
    <3>1. Script[i].op \notin {"deploy", "send"}
      BY <1>1, <2>3
    <3> QED BY <3>1 DEF Done
  <2>4. CASE i # line
    <3>1. i \in 1 .. line - 1 /\ i \in 1 .. 34
      BY <2>2, <2>4 DEF ScriptInv
    <3> QED BY <1>1, <1>2, <3>1, StateStays DEF ScriptInv
  <2> QED BY <2>3, <2>4
<1>12. \A t \in Tokens : TokenThere(t)'
  BY <1>1, <1>2, StateStays DEF ScriptInv
<1>13. TimelocksInCharge'
  BY <1>1, <1>2, StateStays DEF ScriptInv, TimelocksInCharge, InCharge
<1> QED BY <1>1, <1>9, <1>10, <1>11, <1>12, <1>13, NextLine DEF ScriptInv

\* A new run owes nothing yet, and the tokens it takes over are there.
LEMMA StartStep ==
    ASSUME ScriptInv, NEW given, StartScript(given)
    PROVE  ScriptInv'
<1>1. /\ links' = links /\ run' = run + 1 /\ line' = 1 /\ record' = record
      /\ envFile' = envFile /\ faucetLine' = faucetLine /\ record # TornFile
  BY DEF StartScript, faucetVars
<1>2. LinksStay
  BY <1>1 DEF LinksStay
<1>3. tokens' = [t \in Tokens |-> IF t \in given THEN <<t, 0>>
                                  ELSE IF record = NoRecord THEN NoAddress
                                  ELSE record.tokens[t]]
  BY DEF StartScript
<1>4. ASSUME NEW t \in Tokens PROVE TokenThere(t)'
  <2>1. CASE t \in given
    BY <1>3, <2>1 DEF TokenThere
  <2>2. CASE t \notin given /\ record = NoRecord
    BY <1>3, <2>2 DEF TokenThere, NoAddress
  <2>3. CASE t \notin given /\ record # NoRecord
    <3>1. Whole(record)
      BY <1>1, <2>3 DEF ScriptInv
    <3>2. record.tokens[t][2] = 0 \/ Exists(record.tokens[t])
      BY <3>1 DEF Whole
    <3>3. tokens'[t] = record.tokens[t]
      BY <1>3, <2>3
    <3> QED BY <1>1, <3>2, <3>3 DEF TokenThere, Exists
  <2> QED BY <2>1, <2>2, <2>3
<1>5. TimelocksInCharge'
  BY <1>1, <1>2, StateStays DEF ScriptInv, TimelocksInCharge, InCharge
<1>6. run' \in Nat /\ line' \in 0 .. 34 /\ DOMAIN tokens' = Tokens /\ faucetLine' \in Nat
  BY <1>1, <1>3 DEF ScriptInv
<1>7. \A i \in 1 .. line' - 1 : Done(i)'
  BY <1>1
<1> QED BY <1>1, <1>2, <1>4, <1>5, <1>6, <1>7, FilesStay DEF ScriptInv

\* Verification touches nothing but its own cache.
LEMMA VerifiesStep ==
    ASSUME ScriptInv, NEW ok, Verifies(ok)
    PROVE  ScriptInv'
<1>1. /\ line > 0 /\ Next1 /\ links' = links /\ run' = run /\ tokens' = tokens
      /\ record' = record /\ envFile' = envFile /\ faucetLine' = faucetLine
      /\ Script[line].op = "verify"
  BY DEF Verifies, faucetVars
<1>2. LinksStay
  BY <1>1 DEF LinksStay
<1>3. \A i \in 1 .. line' - 1 : Done(i)'
  <2>1. TAKE i \in 1 .. line' - 1
  <2>2. i \in 1 .. line
    BY <1>1, NextLine
  <2>3. CASE i = line
    <3>1. Script[i].op \notin {"deploy", "send"}
      BY <1>1, <2>3
    <3> QED BY <3>1 DEF Done
  <2>4. CASE i # line
    <3>1. i \in 1 .. line - 1 /\ i \in 1 .. 34
      BY <2>2, <2>4 DEF ScriptInv
    <3> QED BY <1>1, <1>2, <3>1, StateStays DEF ScriptInv
  <2> QED BY <2>3, <2>4
<1>4. \A t \in Tokens : TokenThere(t)'
  BY <1>1, <1>2, StateStays DEF ScriptInv
<1>5. TimelocksInCharge'
  BY <1>1, <1>2, StateStays DEF ScriptInv, TimelocksInCharge, InCharge
<1> QED BY <1>1, <1>2, <1>3, <1>4, <1>5, NextLine, FilesStay DEF ScriptInv

\* What the faucet's and the operator's own counters do is nothing to it.
LEMMA RestStays ==
    ASSUME ScriptInv, faucetLine' \in Nat,
           UNCHANGED <<links, run, line, tokens, record, envFile>>
    PROVE  ScriptInv'
<1>1. LinksStay
  BY DEF LinksStay
<1>2. \A t \in Tokens : TokenThere(t)'
  BY <1>1, StateStays DEF ScriptInv
<1>3. TimelocksInCharge'
  BY <1>1, StateStays DEF ScriptInv, TimelocksInCharge, InCharge
<1>4. \A i \in 1 .. line' - 1 : Done(i)'
  <2>1. \A i \in 1 .. line - 1 : i \in 1 .. 34 /\ Done(i)
    BY DEF ScriptInv
  <2> QED BY <1>1, <2>1, StateStays
<1>5. /\ record = NoRecord \/ record = TornFile \/ (record'.kind = "record" /\ Whole(record)')
      /\ envFile = NoRecord \/ envFile = TornFile \/ (envFile'.kind = "env" /\ Whole(envFile)')
  BY <1>1, FilesStay DEF ScriptInv
<1>6. /\ run' \in Nat /\ line' \in 0 .. 34 /\ DOMAIN tokens' = Tokens
      /\ record' = record /\ envFile' = envFile
  BY DEF ScriptInv
<1> QED BY <1>2, <1>3, <1>4, <1>5, <1>6 DEF ScriptInv

\* A kill leaves its line undone, or done and not noted, or a file torn.
LEMMA DiesStep == ScriptInv /\ Dies => ScriptInv'
<1> SUFFICES ASSUME ScriptInv, Dies PROVE ScriptInv'
  OBVIOUS
<1>1. /\ line > 0 /\ line' = 0 /\ run' = run /\ tokens' = tokens /\ faucetLine' = faucetLine
      /\ links' = links \/ links' = After(Script[line])
      /\ record' \in {record, TornFile} /\ envFile' \in {envFile, TornFile}
  BY DEF Dies, faucetVars
<1>2. LinksStay /\ TimelocksInCharge'
  <2>1. CASE links' = links
    <3>1. LinksStay
      BY <2>1 DEF LinksStay
    <3> QED BY <2>1, <3>1, StateStays DEF ScriptInv, TimelocksInCharge, InCharge
  <2>2. CASE links' = After(Script[line])
    BY <1>1, <2>2, AfterLine
  <2> QED BY <1>1, <2>1, <2>2
<1>3. \A t \in Tokens : TokenThere(t)'
  BY <1>1, <1>2, StateStays DEF ScriptInv
<1>4. \A i \in 1 .. line' - 1 : Done(i)'
  BY <1>1
<1>5. record' = NoRecord \/ record' = TornFile \/ (record'.kind = "record" /\ Whole(record)')
  <2>1. CASE record' = record
    BY <1>2, <2>1, FilesStay DEF ScriptInv
  <2> QED BY <1>1, <2>1
<1>6. envFile' = NoRecord \/ envFile' = TornFile \/ (envFile'.kind = "env" /\ Whole(envFile)')
  <2>1. CASE envFile' = envFile
    BY <1>2, <2>1, FilesStay DEF ScriptInv
  <2> QED BY <1>1, <2>1
<1>7. run' \in Nat /\ line' \in 0 .. 34 /\ faucetLine' \in Nat /\ DOMAIN tokens' = Tokens
  BY <1>1 DEF ScriptInv
<1> QED BY <1>2, <1>3, <1>4, <1>5, <1>6, <1>7 DEF ScriptInv

\* The faucet's script touches tokens of its own and two contracts, no timelock.
LEMMA FaucetTokens ==
    ASSUME NEW i \in Nat \ {0}
    PROVE  FaucetLink(i).of[1] # "FheForgeTimelock"
<1>1. PICK n \in Nat \ {0} : n = Len(FaucetSymbols)
  BY DeployAssumption
<1>2. PICK k : k = ((i - 1) % n) + 1
  OBVIOUS
<1>3. k \in 1 .. n
  <2>1. (i - 1) % n \in 0 .. n - 1
    OBVIOUS
  <2> QED BY <1>2, <2>1
<1>4. PICK symbol : symbol = FaucetSymbols[k]
  OBVIOUS
<1>5. symbol # "FheForgeTimelock"
  BY <1>1, <1>3, <1>4, DeployAssumption
<1>6. PICK token : token = <<symbol, faucetRun, "faucet">>
  OBVIOUS
<1>7. PICK a, b, c : /\ a = Link(token, "is deployed", token)
                   /\ b = Link(Faucet, "isTokenEnabled", token)
                   /\ c = Link(FaucetOracle, "priceId", token)
  OBVIOUS
<1>8. PICK l : l = FaucetLink(i)
  OBVIOUS
<1>9. l \in {a, b, c}
  BY <1>1, <1>2, <1>4, <1>6, <1>7, <1>8, Zenon DEF FaucetLink
<1>10. a.of = token /\ b.of = Faucet /\ c.of = FaucetOracle
  BY <1>7 DEF Link
<1>11. token[1] = symbol /\ Faucet[1] = "TokenRegistry" /\ FaucetOracle[1] = "PriceOracle"
  BY <1>6 DEF Faucet, FaucetOracle
<1>12. l.of[1] # "FheForgeTimelock"
  BY <1>5, <1>9, <1>10, <1>11
<1> QED BY <1>8, <1>12, Zenon

\* Each of the faucet's lines adds one link at most.
LEMMA FaucetScriptStep == ScriptInv /\ FaucetStep => ScriptInv'
<1> SUFFICES ASSUME ScriptInv, FaucetStep PROVE ScriptInv'
  OBVIOUS
<1>1. PICK l : l = FaucetLink(faucetLine)
  OBVIOUS
<1>2. /\ faucetLine > 0 /\ line' = line /\ run' = run /\ tokens' = tokens
      /\ record' = record /\ envFile' = envFile
      /\ links' \in {links, links \cup {l}} /\ faucetLine' \in {0, faucetLine + 1}
  BY <1>1 DEF FaucetStep
<1>3. LinksStay
  BY <1>2 DEF LinksStay
<1>4. l.of[1] # "FheForgeTimelock"
  BY <1>1, <1>2, FaucetTokens DEF ScriptInv
<1>5. TimelocksInCharge'
  <2>1. SUFFICES ASSUME NEW k \in links', k.of[1] = "FheForgeTimelock" PROVE InCharge(k.of)'
    BY DEF TimelocksInCharge
  <2>2. k \in links
    BY <1>2, <1>4, <2>1
  <2>3. InCharge(k.of)
    BY <2>1, <2>2 DEF ScriptInv, TimelocksInCharge
  <2> QED BY <1>2, <1>3, <2>3, StateStays DEF InCharge
<1>6. \A i \in 1 .. line' - 1 : Done(i)'
  <2>1. \A i \in 1 .. line - 1 : i \in 1 .. 34 /\ Done(i)
    BY DEF ScriptInv
  <2> QED BY <1>2, <1>3, <2>1, StateStays
<1>7. \A t \in Tokens : TokenThere(t)'
  BY <1>2, <1>3, StateStays DEF ScriptInv
<1> QED BY <1>2, <1>3, <1>5, <1>6, <1>7, FilesStay DEF ScriptInv

\* Before the first run there is nothing to be wrong.
LEMMA ScriptStart == ScriptInit => ScriptInv
<1> SUFFICES ASSUME ScriptInit PROVE ScriptInv
  OBVIOUS
<1>1. /\ run \in Nat /\ line \in 0 .. 34 /\ faucetLine \in Nat /\ DOMAIN tokens = Tokens
      /\ record = NoRecord /\ envFile = NoRecord /\ links = {} /\ line = 0
      /\ \A t \in Tokens : tokens[t] = NoAddress
  BY DEF ScriptInit
<1>2. \A t \in Tokens : TokenThere(t)
  BY <1>1 DEF TokenThere, NoAddress
<1>3. TimelocksInCharge /\ \A i \in 1 .. line - 1 : Done(i)
  BY <1>1 DEF TimelocksInCharge
<1>4. /\ record = NoRecord \/ record = TornFile \/ (record.kind = "record" /\ Whole(record))
      /\ envFile = NoRecord \/ envFile = TornFile \/ (envFile.kind = "env" /\ Whole(envFile))
  BY <1>1, Zenon
<1>5. \A i \in 1 .. line - 1 : Done(i)
  BY <1>1, <1>3
<1> QED BY <1>1, <1>2, <1>3, <1>4, <1>5 DEF ScriptInv

\* Every line of either script keeps the invariant.
LEMMA ScriptStep == ScriptInv /\ [ScriptNext]_scriptVars => ScriptInv'
<1> SUFFICES ASSUME ScriptInv, [ScriptNext]_scriptVars PROVE ScriptInv'
  OBVIOUS
<1>1. CASE \E given \in SUBSET EnvTokens : StartScript(given)
  BY <1>1, StartStep
<1>2. CASE \E ok \in VerifyCases : Verifies(ok)
  BY <1>2, VerifiesStep
<1>3. CASE Transacts
  BY <1>3, TransactsStep
<1>4. CASE Saves
  BY <1>4, SavesStep
<1>5. CASE Dies
  BY <1>5, DiesStep
<1>6. CASE FaucetStep
  BY <1>6, FaucetScriptStep
<1>7. CASE StartFaucet
  <2>1. /\ UNCHANGED <<links, run, line, tokens, record, envFile>> /\ faucetLine' = 1
    BY <1>7 DEF StartFaucet
  <2> QED BY <2>1, RestStays
<1>8. CASE UNCHANGED scriptVars
  <2>1. UNCHANGED <<links, run, line, tokens, record, envFile>> /\ faucetLine' = faucetLine
    BY <1>8 DEF scriptVars
  <2> QED BY <2>1, RestStays DEF ScriptInv
<1> QED BY <1>1, <1>2, <1>3, <1>4, <1>5, <1>6, <1>7, <1>8 DEF ScriptNext

\* However many runs failed or were killed before, and wherever, what the record
\* or the environment file names is there and knows each other, and no timelock
\* is left without anyone in charge (forge-deploy.ts, main()).
THEOREM DeploymentsAreAlwaysWhole == ScriptSpec => []DeploymentIsWhole
<1>1. ScriptInv => DeploymentIsWhole
  <2>1. SUFFICES ASSUME ScriptInv PROVE DeploymentIsWhole
    OBVIOUS
  <2>2. \A d \in {record, envFile} : d.kind \in {"record", "env"} => Whole(d)
    <3>1. NoRecord.kind = "none" /\ TornFile.kind = "torn"
      BY DEF NoRecord, TornFile
    <3> QED BY <2>1, <3>1, Zenon DEF ScriptInv
  <2>3. TimelocksInCharge
    BY <2>1 DEF ScriptInv
  <2> QED BY <2>2, <2>3 DEF DeploymentIsWhole, TimelocksInCharge, InCharge
<1> QED BY <1>1, ScriptStart, ScriptStep, PTL DEF ScriptSpec

-----------------------------------------------------------------------------
(* Induction over numbers: the library states it for an operator, and here  *)
(* it is wanted for a set.                                                 *)

\* A set of numbers has a least one.
LEMMA Minimum ==
    ASSUME NEW S, S \subseteq Nat, S # {} PROVE \E m \in S : \A n \in S : m <= n
<1>1. PICK m \in S : \A n \in S : ~ (<<n, m>> \in OpToRel(<, Nat))
  BY NatLessThanWellFounded, WFMin
<1>2. SUFFICES ASSUME NEW n \in S PROVE m <= n
  BY <1>1
<1>3. ~(n < m)
  BY <1>1 DEF OpToRel
<1> QED BY <1>3

\* A set of numbers that holds 0 and every successor holds them all.
LEMMA Induction ==
    ASSUME NEW S, 0 \in S, \A n \in Nat : n \in S => n + 1 \in S PROVE Nat \subseteq S
<1>1. SUFFICES ASSUME NEW k \in Nat, k \notin S PROVE FALSE
  OBVIOUS
<1>2. PICK m \in {n \in Nat : n \notin S} : \A n \in {x \in Nat : x \notin S} : m <= n
  BY <1>1, Minimum
<1>3. m # 0 /\ m - 1 \in Nat /\ m = (m - 1) + 1
  BY <1>2
<1>4. m - 1 \in S
  BY <1>2, <1>3
<1> QED BY <1>2, <1>3, <1>4

-----------------------------------------------------------------------------
(* Plans written by the language model: what the filter leaves of an       *)
(* answer, and what is put in front of it.                                 *)

AiSpec == AiInit /\ [][AiNext]_aiVars

KnownSteps == [no : Nat, type : ValidTypes, agent : BOOLEAN, token : AiTokens \cup {NoToken},
               amount : Amounts, out : Amounts]

Selects(plan, n, f) ==
    /\ f \in [0 .. n -> Seq(KnownSteps)] /\ f[0] = <<>>
    /\ \A i \in 1 .. n : f[i] = IF plan[i].type \in ValidTypes THEN Append(f[i - 1], plan[i])
                                ELSE f[i - 1]

LEMMA SelectionGrows ==
    ASSUME NEW plan \in Seq(PlanSteps), NEW n \in Nat, n + 1 \in 1 .. Len(plan),
           NEW f, Selects(plan, n, f)
    PROVE  \E g : Selects(plan, n + 1, g)
<1>1. PICK v : v = IF plan[n + 1].type \in ValidTypes THEN Append(f[n], plan[n + 1]) ELSE f[n]
  OBVIOUS
<1>2. f[n] \in Seq(KnownSteps)
  BY DEF Selects
<1>3. plan[n + 1] \in PlanSteps
  OBVIOUS
<1>4. v \in Seq(KnownSteps)
  <2>1. CASE plan[n + 1].type \in ValidTypes
    <3>1. plan[n + 1] \in KnownSteps
      BY <1>3, <2>1 DEF KnownSteps, PlanSteps
    <3> QED BY <1>1, <1>2, <2>1, <3>1
  <2> QED BY <1>1, <1>2, <2>1
<1>5. PICK g : g = [i \in 0 .. n + 1 |-> IF i = n + 1 THEN v ELSE f[i]]
  OBVIOUS
<1>6. g \in [0 .. n + 1 -> Seq(KnownSteps)]
  <2>1. \A i \in 0 .. n + 1 : i # n + 1 => i \in 0 .. n
    OBVIOUS
  <2>2. \A i \in 0 .. n : f[i] \in Seq(KnownSteps)
    BY DEF Selects
  <2> QED BY <1>4, <1>5, <2>1, <2>2
<1>7. g[0] = <<>>
  BY <1>5 DEF Selects
<1>8. ASSUME NEW i \in 1 .. n + 1
      PROVE g[i] = IF plan[i].type \in ValidTypes THEN Append(g[i - 1], plan[i]) ELSE g[i - 1]
  <2>1. g[i - 1] = f[i - 1]
    BY <1>5
  <2>2. CASE i = n + 1
    BY <1>1, <1>5, <2>1, <2>2
  <2>3. CASE i # n + 1
    <3>1. i \in 1 .. n /\ g[i] = f[i]
      BY <1>5, <2>3
    <3> QED BY <2>1, <3>1 DEF Selects
  <2> QED BY <2>2, <2>3
<1>9. Selects(plan, n + 1, g)
  BY <1>6, <1>7, <1>8 DEF Selects
<1> QED BY <1>9

LEMMA SelectionExists ==
    ASSUME NEW plan \in Seq(PlanSteps) PROVE \E f : Selects(plan, Len(plan), f)
<1> DEFINE S == { n \in Nat : n <= Len(plan) => \E f : Selects(plan, n, f) }
<1>1. 0 \in S
  <2>1. PICK f : f = [i \in 0 .. 0 |-> <<>>]
    OBVIOUS
  <2>2. <<>> \in Seq(KnownSteps)
    OBVIOUS
  <2>3. f \in [0 .. 0 -> Seq(KnownSteps)] /\ f[0] = <<>>
    BY <2>1, <2>2
  <2>4. Selects(plan, 0, f)
    BY <2>3 DEF Selects
  <2> QED BY <2>4
<1>2. \A n \in Nat : n \in S => n + 1 \in S
  <2>1. SUFFICES ASSUME NEW n \in Nat, n \in S, n + 1 <= Len(plan)
                 PROVE \E g : Selects(plan, n + 1, g)
    OBVIOUS
  <2>2. Len(plan) \in Nat
    OBVIOUS
  <2>3. n <= Len(plan) /\ n + 1 \in 1 .. Len(plan)
    BY <2>1, <2>2
  <2>4. PICK f : Selects(plan, n, f)
    BY <2>1, <2>3
  <2> QED BY <2>3, <2>4, SelectionGrows
<1>3. Nat \subseteq S
  <2> HIDE DEF S
  <2> QED BY <1>1, <1>2, Induction
<1>4. Len(plan) \in S
  BY <1>3
<1> QED BY <1>4

\* What is left of a plan is a plan of known steps.
LEMMA KnownTypesAreKnown ==
    ASSUME NEW plan \in Seq(PlanSteps) PROVE KnownTypes(plan) \in Seq(KnownSteps)
<1> DEFINE Body(f) == [i \in 0 .. Len(plan) |->
                          IF i = 0 THEN <<>>
                          ELSE IF plan[i].type \in ValidTypes THEN Append(f[i - 1], plan[i])
                          ELSE f[i - 1]]
           known == CHOOSE f : f = Body(f)
<1>1. PICK f : Selects(plan, Len(plan), f)
  BY SelectionExists
<1>2. f = Body(f)
  <2>1. PICK b : b = Body(f)
    OBVIOUS
  <2>2. DOMAIN f = 0 .. Len(plan) /\ DOMAIN b = 0 .. Len(plan)
    BY <1>1, <2>1 DEF Selects
  <2>3. ASSUME NEW i \in 0 .. Len(plan) PROVE f[i] = b[i]
    <3>1. b[i] = IF i = 0 THEN <<>>
                 ELSE IF plan[i].type \in ValidTypes THEN Append(f[i - 1], plan[i])
                 ELSE f[i - 1]
      BY <2>1, Zenon
    <3>2. i # 0 => i \in 1 .. Len(plan)
      OBVIOUS
    <3>3. f[0] = <<>> /\ (i \in 1 .. Len(plan) =>
              f[i] = IF plan[i].type \in ValidTypes THEN Append(f[i - 1], plan[i])
                     ELSE f[i - 1])
      BY <1>1, Zenon DEF Selects
    <3>4. CASE i = 0
      <4>1. b[0] = <<>>
        BY <3>1, <3>4
      <4> QED BY <3>3, <3>4, <4>1
    <3>5. CASE i # 0
      <4>1. b[i] = IF plan[i].type \in ValidTypes THEN Append(f[i - 1], plan[i])
                   ELSE f[i - 1]
        BY <3>1, <3>5, Zenon
      <4> QED BY <3>2, <3>3, <3>5, <4>1, Zenon
    <3> QED BY <3>4, <3>5
  <2>4. f \in [0 .. Len(plan) -> Seq(KnownSteps)]
    BY <1>1 DEF Selects
  <2>5. f = [i \in 0 .. Len(plan) |-> f[i]]
    BY <2>4, Zenon
  <2>6. b = [i \in 0 .. Len(plan) |-> b[i]]
    BY <2>1
  <2>7. f = b
    BY <2>3, <2>5, <2>6, Zenon
  <2> QED BY <2>1, <2>7
<1>3. known = Body(known)
  BY <1>2
<1>4. KnownTypes(plan) = known[Len(plan)]
  BY DEF KnownTypes
<1> HIDE DEF known
<1>5. PICK g : g = known
  OBVIOUS
<1>6. g = Body(g)
  BY <1>3, <1>5
<1>7. /\ g[0] = <<>>
      /\ \A i \in 1 .. Len(plan) : g[i] = IF plan[i].type \in ValidTypes
                                          THEN Append(g[i - 1], plan[i]) ELSE g[i - 1]
  <2>1. Len(plan) \in Nat
    OBVIOUS
  <2>2. ASSUME NEW i \in 0 .. Len(plan)
        PROVE  g[i] = IF i = 0 THEN <<>>
                      ELSE IF plan[i].type \in ValidTypes THEN Append(g[i - 1], plan[i])
                      ELSE g[i - 1]
    BY <1>6, Zenon
  <2>3. g[0] = <<>>
    BY <2>1, <2>2
  <2>4. ASSUME NEW i \in 1 .. Len(plan)
        PROVE  g[i] = IF plan[i].type \in ValidTypes
                      THEN Append(g[i - 1], plan[i]) ELSE g[i - 1]
    <3>1. i \in 0 .. Len(plan) /\ i # 0
      OBVIOUS
    <3> QED BY <2>2, <3>1, Zenon
  <2> QED BY <2>3, <2>4
<1> DEFINE S == { n \in Nat : n <= Len(plan) => g[n] \in Seq(KnownSteps) }
<1>8. 0 \in S
  <2>1. <<>> \in Seq(KnownSteps)
    OBVIOUS
  <2> QED BY <1>7, <2>1
<1>9. \A n \in Nat : n \in S => n + 1 \in S
  <2>1. SUFFICES ASSUME NEW n \in Nat, n \in S, n + 1 <= Len(plan) PROVE g[n + 1] \in Seq(KnownSteps)
    OBVIOUS
  <2>2. n + 1 \in 1 .. Len(plan) /\ g[n] \in Seq(KnownSteps) /\ n + 1 - 1 = n
    BY <2>1
  <2>3. plan[n + 1] \in PlanSteps
    BY <2>2
  <2>4. CASE plan[n + 1].type \in ValidTypes
    <3>1. plan[n + 1] \in KnownSteps
      BY <2>3, <2>4 DEF KnownSteps, PlanSteps
    <3>2. g[n + 1] = Append(g[n], plan[n + 1])
      <4>1. PICK k : k = n + 1
        OBVIOUS
      <4>2. k \in 1 .. Len(plan) /\ k - 1 = n /\ plan[k].type \in ValidTypes
        BY <2>2, <2>4, <4>1
      <4>3. g[k] = Append(g[k - 1], plan[k])
        BY <1>7, <4>2, Zenon
      <4> QED BY <4>1, <4>2, <4>3, Zenon
    <3> QED BY <2>2, <3>1, <3>2
  <2>5. CASE plan[n + 1].type \notin ValidTypes
    BY <1>7, <2>2, <2>5
  <2> QED BY <2>4, <2>5
<1>10. Nat \subseteq S
  <2> HIDE DEF S
  <2> QED BY <1>8, <1>9, Induction
<1>11. g[Len(plan)] \in Seq(KnownSteps)
  BY <1>10
<1> QED BY <1>4, <1>5, <1>11

\* A plan the user can begin, whose steps can all be executed.
Begins(plan, initial) ==
    /\ plan \in Seq(KnownSteps)
    /\ plan # <<>> /\ initial # NoToken => plan[1].token \in {initial, NoToken}

\* Every step of the plan is right.
AllRight(plan) == \A i \in DOMAIN plan : Right(plan[i])

\* The calls that are left while the model is asked.
AiInv ==
    /\ calls \in 0 .. MaxRetries + 1
    /\ ai.step \in {"idle", "model", "wait", "risk", "done", "failed"}
    /\ ai.step = "model" => calls <= MaxRetries
    /\ ai.step = "wait" => calls <= MaxRetries
    /\ ai.step \in {"model", "wait", "risk", "done"} => ai.intent \in Intents
    /\ ai.step \in {"model", "wait"} => DOMAIN ai = {"step", "intent"}
    /\ ai.step \in {"risk", "done"} =>
          /\ Begins(ai.plan, ai.intent.initial)
          /\ AllRight(ai.plan) <=> AllRight(ai.written)
    /\ ai.step = "done" => ai.validation = ValidateSteps(ai.plan)

LEMMA AiStart == AiInit => AiInv
BY DEF AiInit, AiInv, NoRequest, MaxRetries

\* The number of a step is no part of what is checked.
LEMMA NumbersDoNotMatter ==
    ASSUME NEW s \in KnownSteps, NEW n \in Nat
    PROVE  /\ [s EXCEPT !.no = n] \in KnownSteps
           /\ [s EXCEPT !.no = n].token = s.token
           /\ Right([s EXCEPT !.no = n]) <=> Right(s)
<1>1. PICK t : t = [s EXCEPT !.no = n]
  OBVIOUS
<1>2. /\ t \in KnownSteps /\ t.token = s.token /\ t.type = s.type /\ t.agent = s.agent
      /\ t.amount = s.amount /\ t.out = s.out
  BY <1>1 DEF KnownSteps
<1>3. Right(t) <=> Right(s)
  BY <1>2 DEF Right, Readable
<1> QED BY <1>1, <1>2, <1>3

\* The swap takes over the amount of the first step, negative as it may be.
LEMMA SwapIsRight ==
    ASSUME NEW first \in KnownSteps, NEW initial \in AiTokens \cup {NoToken}
    PROVE  /\ SwapFor(first, initial) \in KnownSteps
           /\ SwapFor(first, initial).token = initial
           /\ Right(first) => Right(SwapFor(first, initial))
<1>1. PICK amount : amount = IF first.amount \in {"absent", "zero"} THEN "positive"
                            ELSE first.amount
  OBVIOUS
<1>2. first.amount \in Amounts
  BY DEF KnownSteps
<1>3. amount \in Amounts
  BY <1>1, <1>2 DEF Amounts
<1>4. PICK swap : swap = [no |-> 1, type |-> "SWAP", agent |-> TRUE, token |-> initial,
                          amount |-> amount, out |-> amount]
  OBVIOUS
<1>5. SwapFor(first, initial) = swap
  BY <1>1, <1>4 DEF SwapFor, Step
<1>6. swap \in KnownSteps /\ swap.token = initial
  BY <1>3, <1>4 DEF KnownSteps, ValidTypes
<1>7. Right(first) => Right(swap)
  BY <1>1, <1>4 DEF Right, Readable, ValidTypes
<1> QED BY <1>5, <1>6, <1>7

LEMMA SwapInFrontBegins ==
    ASSUME NEW steps \in Seq(KnownSteps), NEW initial \in AiTokens \cup {NoToken}
    PROVE  /\ Begins(AddInitialSwapIfNeeded(steps, initial), initial)
           /\ AllRight(AddInitialSwapIfNeeded(steps, initial)) <=> AllRight(steps)
<1>1. CASE \/ initial = NoToken \/ steps = <<>>
           \/ steps[1].token \in {NoToken, initial}
  <2>1. AddInitialSwapIfNeeded(steps, initial) = steps
    BY <1>1 DEF AddInitialSwapIfNeeded
  <2>2. Begins(steps, initial)
    BY <1>1 DEF Begins
  <2> QED BY <2>1, <2>2
<1>2. CASE ~(\/ initial = NoToken \/ steps = <<>>
             \/ steps[1].token \in {NoToken, initial})
  <2>1. PICK swap, first : first = steps[1] /\ swap = SwapFor(first, initial)
    OBVIOUS
  <2>2. 1 \in 1 .. Len(steps) /\ Len(steps) \in Nat /\ DOMAIN steps = 1 .. Len(steps)
    BY <1>2
  <2>3. first \in KnownSteps
    BY <2>1, <2>2
  <2>4. swap \in KnownSteps /\ swap.token = initial /\ (Right(first) => Right(swap))
    BY <2>1, <2>3, SwapIsRight
  <2>5. PICK all : all = <<swap>> \o steps
    OBVIOUS
  <2>6. /\ all \in Seq(KnownSteps) /\ Len(all) = 1 + Len(steps) /\ all[1] = swap
        /\ \A i \in 1 .. Len(steps) : all[i + 1] = steps[i]
    <3>1. <<swap>> \in Seq(KnownSteps) /\ Len(<<swap>>) = 1 /\ <<swap>>[1] = swap
      BY <2>4
    <3> QED BY <2>5, <3>1
  <2>7. PICK numbered : numbered = [i \in DOMAIN all |-> [all[i] EXCEPT !.no = i]]
    OBVIOUS
  <2>8. AddInitialSwapIfNeeded(steps, initial) = numbered
    BY <1>2, <2>1, <2>5, <2>7 DEF AddInitialSwapIfNeeded
  <2>9. DOMAIN all = 1 .. Len(all) /\ Len(all) \in Nat /\ 1 \in 1 .. Len(all)
    BY <2>6
  <2>10. ASSUME NEW i \in 1 .. Len(all)
         PROVE  /\ numbered[i] \in KnownSteps /\ numbered[i].token = all[i].token
                /\ Right(numbered[i]) <=> Right(all[i])
    <3>1. all[i] \in KnownSteps /\ i \in Nat
      BY <2>6
    <3>2. numbered[i] = [all[i] EXCEPT !.no = i]
      BY <2>7, <2>9
    <3> QED BY <3>1, <3>2, NumbersDoNotMatter
  <2>11. DOMAIN numbered = 1 .. Len(all)
    BY <2>7, <2>9
  <2>12. numbered \in Seq(KnownSteps)
    <3>1. numbered = [i \in 1 .. Len(all) |-> [all[i] EXCEPT !.no = i]]
      BY <2>7, <2>9
    <3>2. ASSUME NEW i \in 1 .. Len(all) PROVE [all[i] EXCEPT !.no = i] \in KnownSteps
      BY <2>6, NumbersDoNotMatter
    <3> QED BY <2>9, <3>1, <3>2
  <2>13. numbered[1].token = initial
    BY <2>4, <2>6, <2>9, <2>10
  <2>14. Begins(numbered, initial)
    BY <2>12, <2>13 DEF Begins
  <2>15. AllRight(numbered) <=> \A i \in 1 .. Len(all) : Right(all[i])
    BY <2>10, <2>11 DEF AllRight
  <2>16. ASSUME AllRight(steps) PROVE \A i \in 1 .. Len(all) : Right(all[i])
    <3>1. SUFFICES ASSUME NEW i \in 1 .. Len(all) PROVE Right(all[i])
      OBVIOUS
    <3>2. \A j \in 1 .. Len(steps) : Right(steps[j])
      BY <2>2, <2>16 DEF AllRight
    <3>3. CASE i = 1
      BY <2>1, <2>2, <2>4, <2>6, <3>2, <3>3
    <3>4. CASE i # 1
      <4>1. PICK j \in 1 .. Len(steps) : i = j + 1
        <5>1. i - 1 \in 1 .. Len(steps) /\ i = (i - 1) + 1
          BY <2>2, <2>6, <3>4
        <5> QED BY <5>1
      <4>2. all[i] = steps[j]
        BY <2>6, <4>1
      <4> QED BY <3>2, <4>2
    <3> QED BY <3>3, <3>4
  <2>17. ASSUME \A i \in 1 .. Len(all) : Right(all[i]) PROVE AllRight(steps)
    <3>1. ASSUME NEW j \in 1 .. Len(steps) PROVE Right(steps[j])
      <4>1. j + 1 \in 1 .. Len(all) /\ all[j + 1] = steps[j]
        BY <2>2, <2>6
      <4> QED BY <2>17, <4>1
    <3> QED BY <2>2, <3>1 DEF AllRight
  <2> QED BY <2>8, <2>14, <2>15, <2>16, <2>17
<1> QED BY <1>1, <1>2

\* The template that is picked has a supply in front.
LEMMA TemplatesBegin ==
    ASSUME NEW risk \in Risks, NEW token \in AiTokens, NEW amount \in Amounts
    PROVE  Begins(AdaptTemplate(BestTemplate(risk), token, amount), token)
<1>1. PICK t : t = BestTemplate(risk)
  OBVIOUS
<1>2. t \in Templates
  <2> DEFINE fitting == { u \in Templates : u.risk = risk /\ u.loops <= MaxLoops(risk) }
  <2>1. \E u \in fitting : \A v \in fitting : v.apy <= u.apy
    <3>1. CASE risk = "LOW"
      <4>1. PICK u : u = [risk |-> "LOW", loops |-> 0, apy |-> 52, types |-> <<"SUPPLY">>]
        OBVIOUS
      <4>2. u \in fitting
        BY <3>1, <4>1 DEF Templates, MaxLoops
      <4>3. \A v \in fitting : v.apy <= u.apy
        BY <3>1, <4>1 DEF Templates
      <4> QED BY <4>2, <4>3
    <3>2. CASE risk = "MEDIUM"
      <4>1. PICK u : u = [risk |-> "MEDIUM", loops |-> 3, apy |-> 185,
                          types |-> Loop \o Loop \o Loop]
        OBVIOUS
      <4>2. u \in fitting
        BY <3>2, <4>1 DEF Templates, MaxLoops
      <4>3. \A v \in fitting : v.apy <= u.apy
        BY <3>2, <4>1 DEF Templates
      <4> QED BY <4>2, <4>3
    <3>3. CASE risk = "HIGH"
      <4>1. PICK u : u = [risk |-> "HIGH", loops |-> 5, apy |-> 287, types |-> <<"SUPPLY">>]
        OBVIOUS
      <4>2. u \in fitting
        BY <3>3, <4>1 DEF Templates, MaxLoops
      <4>3. \A v \in fitting : v.apy <= u.apy
        BY <3>3, <4>1 DEF Templates
      <4> QED BY <4>2, <4>3
    <3> QED BY <3>1, <3>2, <3>3 DEF Risks
  <2>2. t \in fitting
    BY <1>1, <2>1, Zenon DEF BestTemplate
  <2> QED BY <2>2
<1>3. /\ t.types \in Seq({"SUPPLY", "BORROW"}) /\ t.types # <<>> /\ t.types[1] = "SUPPLY"
  <2>1. t.types \in {<<"SUPPLY">>, Loop \o Loop, Loop \o Loop \o Loop}
    BY <1>2 DEF Templates
  <2>2. CASE t.types = <<"SUPPLY">>
    BY <2>2
  <2>3. CASE t.types = Loop \o Loop
    BY <2>3 DEF Loop
  <2>4. CASE t.types = Loop \o Loop \o Loop
    BY <2>4 DEF Loop
  <2> QED BY <2>1, <2>2, <2>3, <2>4
<1>4. PICK plan : plan = AdaptTemplate(t, token, amount)
  OBVIOUS
<1>5. DOMAIN t.types = 1 .. Len(t.types) /\ Len(t.types) \in Nat /\ 1 \in 1 .. Len(t.types)
  BY <1>3
<1>6. ASSUME NEW i \in Nat, NEW type \in ValidTypes, NEW held \in AiTokens \cup {NoToken},
             NEW given \in Amounts, NEW out \in Amounts
      PROVE  Step(i, type, held, given, out) \in KnownSteps
  BY DEF KnownSteps, Step
<1>7. ASSUME NEW i \in 1 .. Len(t.types)
      PROVE  (IF t.types[i] = "SUPPLY" THEN Step(i, "SUPPLY", token, amount, "absent")
              ELSE Step(i, t.types[i], NoToken, "absent",
                        IF amount = "small" THEN "zero" ELSE amount)) \in KnownSteps
  <2>1. t.types[i] \in {"SUPPLY", "BORROW"} /\ i \in Nat
    BY <1>3
  <2>2. t.types[i] \in ValidTypes /\ "SUPPLY" \in ValidTypes
    BY <2>1 DEF ValidTypes
  <2>3. PICK out : out = IF amount = "small" THEN "zero" ELSE amount
    OBVIOUS
  <2>4. out \in Amounts /\ "absent" \in Amounts
    BY <2>3 DEF Amounts
  <2>5. PICK type : type = t.types[i]
    OBVIOUS
  <2>6. /\ Step(i, type, NoToken, "absent", out) \in KnownSteps
        /\ Step(i, "SUPPLY", token, amount, "absent") \in KnownSteps
    BY <1>6, <2>1, <2>2, <2>4, <2>5
  <2> QED BY <2>3, <2>5, <2>6
<1>8. plan \in Seq(KnownSteps)
  BY <1>4, <1>5, <1>7 DEF AdaptTemplate
<1>9. plan[1].token = token
  <2>1. plan[1] = Step(1, "SUPPLY", token, amount, "absent")
    BY <1>3, <1>4, <1>5 DEF AdaptTemplate
  <2> QED BY <2>1 DEF Step
<1> QED BY <1>1, <1>4, <1>8, <1>9 DEF Begins

LEMMA AiStep == AiInv /\ [AiNext]_aiVars => AiInv'
<1>1. SUFFICES ASSUME AiInv, [AiNext]_aiVars PROVE AiInv'
  OBVIOUS
<1>2. CASE UNCHANGED aiVars
  BY <1>1, <1>2 DEF aiVars, AiInv
<1>3. ASSUME NEW intent \in Intents, BuildStrategy(intent) PROVE AiInv'
  <2>1. calls' = 0
    BY <1>3 DEF BuildStrategy
  <2>2. CASE intent.yield
    <3>1. PICK token : token = IF intent.initial = NoToken THEN intent.input ELSE intent.initial
      OBVIOUS
    <3>2. token \in AiTokens /\ intent.risk \in Risks /\ intent.amount \in Amounts
      BY <3>1 DEF Intents
    <3>3. PICK plan : plan = AdaptTemplate(BestTemplate(intent.risk), token, intent.amount)
      OBVIOUS
    <3>4. ai' = [step |-> "risk", intent |-> intent, plan |-> plan, written |-> plan]
      BY <1>3, <2>2, <3>1, <3>3 DEF BuildStrategy
    <3>5. Begins(plan, token)
      BY <3>2, <3>3, TemplatesBegin
    <3>6. Begins(plan, intent.initial)
      BY <3>1, <3>5 DEF Begins
    <3> QED BY <2>1, <3>4, <3>6 DEF AiInv, MaxRetries
  <2>3. CASE ~intent.yield
    <3>1. ai' = [step |-> "model", intent |-> intent]
      BY <1>3, <2>3 DEF BuildStrategy
    <3> QED BY <2>1, <3>1 DEF AiInv, MaxRetries
  <2> QED BY <2>2, <2>3
<1>4. ASSUME NEW plan \in ModelPlans, ModelAnswers(plan) PROVE AiInv'
  <2>1. calls' \in 0 .. MaxRetries + 1 /\ ai.intent \in Intents
    BY <1>1, <1>4 DEF AiInv, ModelAnswers, MaxRetries
  <2>2. CASE plan = <<>>
    <3>1. ai' = [step |-> "failed", intent |-> ai.intent, status |-> HttpStatus("other")]
      BY <1>4, <2>2 DEF ModelAnswers
    <3> QED BY <2>1, <3>1 DEF AiInv
  <2>3. CASE plan # <<>>
    <3>1. PICK steps, initial : steps = KnownTypes(plan) /\ initial = ai.intent.initial
      OBVIOUS
    <3>2. plan \in Seq(PlanSteps)
      BY AiAssumption
    <3>3. steps \in Seq(KnownSteps) /\ initial \in AiTokens \cup {NoToken}
      BY <2>1, <3>1, <3>2, KnownTypesAreKnown DEF Intents
    <3>4. PICK all : all = AddInitialSwapIfNeeded(steps, initial)
      OBVIOUS
    <3>5. Begins(all, initial) /\ (AllRight(all) <=> AllRight(steps))
      BY <3>3, <3>4, SwapInFrontBegins
    <3>6. ai' = [step |-> "risk", intent |-> ai.intent, plan |-> all, written |-> steps]
      BY <1>4, <2>3, <3>1, <3>4 DEF ModelAnswers
    <3> QED BY <2>1, <3>1, <3>5, <3>6 DEF AiInv
  <2> QED BY <2>2, <2>3
<1>5. ASSUME NEW error \in Errors, ModelFails(error) PROVE AiInv'
  <2>1. calls' = calls + 1 /\ calls \in 0 .. MaxRetries /\ ai.intent \in Intents
        /\ DOMAIN ai = {"step", "intent"}
    BY <1>1, <1>5 DEF AiInv, ModelFails, MaxRetries
  <2>2. CASE error = "rate" /\ calls < MaxRetries
    <3>1. ai' = [ai EXCEPT !.step = "wait"]
      BY <1>5, <2>2 DEF ModelFails
    <3>2. ai'.step = "wait" /\ ai'.intent = ai.intent /\ DOMAIN ai' = {"step", "intent"}
      BY <2>1, <3>1
    <3> QED BY <2>1, <2>2, <3>2 DEF AiInv, MaxRetries
  <2>3. CASE ~(error = "rate" /\ calls < MaxRetries)
    <3>1. ai' = [step |-> "failed", intent |-> ai.intent, status |-> HttpStatus(error)]
      BY <1>5, <2>3 DEF ModelFails
    <3> QED BY <2>1, <3>1 DEF AiInv, MaxRetries
  <2> QED BY <2>2, <2>3
<1>6. CASE Retry
  <2>1. /\ ai' = [ai EXCEPT !.step = "model"] /\ calls' = calls
        /\ calls <= MaxRetries /\ calls \in 0 .. MaxRetries + 1 /\ ai.intent \in Intents
        /\ DOMAIN ai = {"step", "intent"}
    BY <1>1, <1>6 DEF AiInv, Retry
  <2>2. ai'.step = "model" /\ ai'.intent = ai.intent /\ DOMAIN ai' = {"step", "intent"}
    BY <2>1
  <2> QED BY <2>1, <2>2 DEF AiInv
<1>7. CASE AnalyzeRisk
  <2>1. /\ calls' = calls /\ calls \in 0 .. MaxRetries + 1 /\ ai.intent \in Intents
        /\ Begins(ai.plan, ai.intent.initial) /\ (AllRight(ai.plan) <=> AllRight(ai.written))
    BY <1>1, <1>7 DEF AiInv, AnalyzeRisk
  <2>2. PICK answer \in RiskAnswers :
           ai' = IF answer = "no list"
                 THEN [step |-> "failed", intent |-> ai.intent, status |-> HttpStatus("other")]
                 ELSE [step |-> "done", intent |-> ai.intent, plan |-> ai.plan,
                       written |-> ai.written, validation |-> ValidateSteps(ai.plan),
                       risk |-> RiskOf(answer, ai.plan)]
    BY <1>7 DEF AnalyzeRisk
  <2>3. CASE answer = "no list"
    <3>1. ai'.step = "failed"
      BY <2>2, <2>3
    <3> QED BY <2>1, <3>1 DEF AiInv
  <2>4. CASE answer # "no list"
    <3>1. PICK v, r : v = ValidateSteps(ai.plan) /\ r = RiskOf(answer, ai.plan)
      OBVIOUS
    <3>2. ai' = [step |-> "done", intent |-> ai.intent, plan |-> ai.plan,
                 written |-> ai.written, validation |-> v, risk |-> r]
      BY <2>2, <2>4, <3>1
    <3>3. /\ ai'.step = "done" /\ ai'.intent = ai.intent /\ ai'.plan = ai.plan
          /\ ai'.written = ai.written /\ ai'.validation = ValidateSteps(ai.plan)
      BY <3>1, <3>2
    <3> QED BY <2>1, <3>3 DEF AiInv
  <2> QED BY <2>3, <2>4
<1> QED BY <1>1, <1>2, <1>3, <1>4, <1>5, <1>6, <1>7 DEF AiNext

\* Whatever the model answers - steps without agents, with absent or negative
\* amounts, of unknown types - a delivered plan has only types that can be
\* executed, begins with the token the user holds when he named one, is reported
\* valid just when what was written is, and took at most four calls of the model
\* (gemini-ai.service.ts).
THEOREM PlansAlwaysStart == AiSpec => []PlansStartWithTheUsersToken
<1>1. ASSUME AiInv, ai.step = "done"
      PROVE  /\ \A i \in DOMAIN ai.plan : ai.plan[i].type \in ValidTypes
             /\ ai.plan # <<>> /\ ai.intent.initial # NoToken
                => ai.plan[1].token \in {ai.intent.initial, NoToken}
             /\ ai.validation.isValid <=> ValidateSteps(ai.written).isValid
  <2>1. PICK plan, written : plan = ai.plan /\ written = ai.written
    OBVIOUS
  <2>2. Begins(plan, ai.intent.initial) /\ (AllRight(plan) <=> AllRight(written))
    BY <1>1, <2>1 DEF AiInv
  <2>3. \A i \in DOMAIN plan : plan[i].type \in ValidTypes
    <3>1. \A i \in DOMAIN plan : plan[i] \in KnownSteps
      BY <2>2 DEF Begins
    <3> QED BY <3>1 DEF KnownSteps
  <2>4. ai.validation = ValidateSteps(plan)
    BY <1>1, <2>1 DEF AiInv
  <2>5. /\ ValidateSteps(plan).isValid <=> AllRight(plan)
        /\ ValidateSteps(written).isValid <=> AllRight(written)
    BY DEF ValidateSteps, AllRight
  <2> QED BY <2>1, <2>2, <2>3, <2>4, <2>5 DEF Begins
<1>2. AiInv => calls <= MaxRetries + 1
  BY DEF AiInv, MaxRetries
<1>3. AiInv => PlansStartWithTheUsersToken
  BY <1>1, <1>2 DEF PlansStartWithTheUsersToken
<1> QED BY <1>3, AiStart, AiStep, PTL DEF AiSpec

-----------------------------------------------------------------------------
(* Simulated plans: at the price at which the first token was given and    *)
(* the price of the last one taken, the amount never grew.                 *)

SimSpec == SimInit /\ [][SimNext]_simVars

\* What was seen of the prices is one price a token.
OnePriceEach(seen) ==
    \A s, t \in seen : s[1] = t[1] => s[2] = t[2]

\* Trade i is the first of a plan, trade j the last before step n.
FirstTrade(plan, i) == i \in TradesOf(plan) /\ \A k \in TradesOf(plan) : i <= k
LastTrade(plan, j, n) ==
    j \in TradesOf(plan) /\ j < n /\ \A k \in TradesOf(plan) : k < n => k <= j

\* The trades made so far never gained: at the price p at which the first
\* token was given, and the price q of the last one taken, or without a price
\* when no other token was taken.
NoGain(s, i, j) ==
    \/ s.plan[i].from = s.plan[j].to /\ s.num <= s.amount * s.den
    \/ \E p \in Nat, q \in Nat \ {0} :
          /\ <<s.plan[i].from, p>> \in s.seen /\ <<s.plan[j].to, q>> \in s.seen
          /\ s.num * q <= s.amount * s.den * p

SimFields == {"plan", "at", "amount", "slippage", "num", "den", "seen"}

Walk(s, m) ==
    /\ s.plan \in Plans /\ s.at \in 1 .. Len(s.plan) + 1
    /\ s.amount \in Int /\ s.slippage \in Int /\ s.den \in Nat \ {0}
    /\ s.seen \subseteq SimTokens \X Nat
    /\ ~m => OnePriceEach(s.seen)
    /\ Careful(s) =>
          /\ s.num \in Nat
          /\ (\A k \in TradesOf(s.plan) : s.at <= k) => s.num <= s.amount * s.den
          /\ ~m /\ Chained(s.plan) =>
                \A i, j \in TradesOf(s.plan) :
                    FirstTrade(s.plan, i) /\ LastTrade(s.plan, j, s.at) => NoGain(s, i, j)

SimInv ==
    /\ simTime \in Nat
    /\ \A t \in SimTokens : oracle[t] \in Nat
    /\ DOMAIN priceCache = SimTokens
    /\ \A t \in SimTokens : priceCache[t].price \in Nat
    /\ mixed \in BOOLEAN
    /\ sim = NoSim \/ (DOMAIN sim = SimFields /\ Walk(sim, mixed))

LEMMA SimStart == SimInit => SimInv
<1>1. SUFFICES ASSUME SimInit PROVE SimInv
  OBVIOUS
<1>2. \A t \in SimTokens : oracle[t] \in Nat
  BY <1>1, SimulationAssumption DEF SimInit
<1>3. /\ DOMAIN priceCache = SimTokens
      /\ \A t \in SimTokens : priceCache[t].price \in Nat
  BY <1>1 DEF SimInit, NotCached
<1>4. simTime \in Nat /\ mixed \in BOOLEAN /\ sim = NoSim
  BY <1>1 DEF SimInit
<1> QED BY <1>2, <1>3, <1>4 DEF SimInv

LEMMA TradesAreSteps ==
    ASSUME NEW plan \in Plans PROVE /\ TradesOf(plan) \subseteq 1 .. Len(plan)
                                    /\ Len(plan) \in Nat /\ DOMAIN plan = 1 .. Len(plan)
                                    /\ \A i \in 1 .. Len(plan) :
                                          /\ plan[i].from \in SimTokens \cup {NoAsset}
                                          /\ plan[i].to \in SimTokens \cup {NoAsset}
                                          /\ plan[i].ratio \in Int
<1>1. plan \in Seq(PlanLegs)
  BY SimulationAssumption
<1>2. Len(plan) \in Nat /\ DOMAIN plan = 1 .. Len(plan)
  BY <1>1
<1>3. \A i \in 1 .. Len(plan) : plan[i] \in PlanLegs
  BY <1>1
<1> QED BY <1>2, <1>3 DEF TradesOf, PlanLegs

\* Between the first trade and a later one there is a last one before it.
LEMMA TradeBefore ==
    ASSUME NEW plan \in Plans, NEW i \in TradesOf(plan), NEW n \in Nat, i < n
    PROVE  \E j \in TradesOf(plan) : LastTrade(plan, j, n)
<1> DEFINE S == { n - k : k \in { k \in TradesOf(plan) : k < n } }
<1>0. TradesOf(plan) \subseteq Nat
  BY TradesAreSteps
<1>1. S \subseteq Nat /\ S # {}
  BY <1>0
<1>2. PICK m \in S : \A x \in S : m <= x
  BY <1>1, Minimum
<1>3. PICK j \in TradesOf(plan) : j < n /\ m = n - j
  BY <1>2
<1>4. ASSUME NEW k \in TradesOf(plan), k < n PROVE k <= j
  <2>1. m <= n - k
    BY <1>2, <1>4
  <2> QED BY <2>1, <1>0, <1>3
<1> QED BY <1>3, <1>4 DEF LastTrade

LEMMA ReadingsAreNumbers ==
    ASSUME SimInv, NEW t \in SimTokens, NEW r \in Readings(t)
    PROVE  r.price \in Nat
BY SimulationAssumption DEF SimInv, Readings

LEMMA TimesKeepsOrder ==
    ASSUME NEW a \in Nat, NEW b \in Nat, NEW c \in Nat, a <= b PROVE a * c <= b * c
<1>1. PICK d \in Nat : b = a + d
  <2>1. b - a \in Nat /\ b = a + (b - a)
    OBVIOUS
  <2> QED BY <2>1
<1>2. b * c = a * c + d * c
  BY <1>1
<1>3. d * c \in Nat /\ a * c \in Nat
  OBVIOUS
<1> QED BY <1>2, <1>3

LEMMA TimesIsPositive ==
    \A a, h, b \in Nat \ {0} : a * h * b \in Nat \ {0}
<1>1. \A a, b \in Nat \ {0} : a * b \in Nat \ {0}
  <2>1. SUFFICES ASSUME NEW a \in Nat \ {0}, NEW b \in Nat \ {0} PROVE a * b \in Nat \ {0}
    OBVIOUS
  <2>2. 1 * b <= a * b
    BY TimesKeepsOrder
  <2> QED BY <2>2
<1> QED BY <1>1, Zenon

\* One trade: at most the whole amount is exchanged, at the rate x / y.
LEMMA TradeGainsNothing ==
    ASSUME NEW num \in Nat, NEW amount \in Nat, NEW den \in Nat, NEW p \in Nat,
           NEW h \in Nat, NEW c \in 0 .. h, NEW x \in Nat, NEW y \in Nat,
           num * x <= (amount * den) * p
    PROVE  (num * c * x) * y <= amount * (den * h * y) * p
<1>1. PICK w \in Nat : w = (amount * den) * p
  OBVIOUS
<1>2. PICK v \in Nat : v = num * x
  OBVIOUS
<1>3. v * c <= w * c
  BY <1>1, <1>2, TimesKeepsOrder
<1>4. c * w <= h * w
  BY TimesKeepsOrder
<1>5. PICK a, b \in Nat : a = v * c /\ b = h * w
  OBVIOUS
<1>6. a <= b
  <2>1. w * c = c * w /\ w * c \in Nat
    OBVIOUS
  <2> QED BY <1>3, <1>4, <1>5, <2>1
<1>7. a * y <= b * y
  BY <1>6, TimesKeepsOrder
<1>8. a * y = (num * c * x) * y
  BY <1>2, <1>5
<1>9. b * y = amount * (den * h * y) * p
  BY <1>1, <1>5
<1> QED BY <1>7, <1>8, <1>9

\* What is kept, when the request is careful, is at most all.
KeptOf(type, kept) ==
    \/ type = "SWAP" /\ kept = SwapKeeps
    \/ type = "BORROW" /\ kept = Ratio(Current)

\* The step the walk is at.
AtTrade(plan, n) ==
    /\ plan \in Plans /\ n \in 1 .. Len(plan) /\ Len(plan) \in Nat
    /\ DOMAIN plan = 1 .. Len(plan) /\ TradesOf(plan) \subseteq 1 .. Len(plan)
    /\ Current = plan[n] /\ n \in TradesOf(plan)
    /\ plan[n].from \in SimTokens \cup {NoAsset} /\ plan[n].to \in SimTokens \cup {NoAsset}

LEMMA TradeIsAt ==
    ASSUME SimInv, NEW type \in {"SWAP", "BORROW"}, TradesNow(type)
    PROVE  /\ DOMAIN sim = SimFields /\ Walk(sim, mixed)
           /\ AtTrade(sim.plan, sim.at)
<1>1. DOMAIN sim = SimFields /\ Walk(sim, mixed) /\ sim.at <= Len(sim.plan)
  BY DEF SimInv, TradesNow
<1>2. sim.plan \in Plans /\ sim.at \in 1 .. Len(sim.plan) + 1
  BY <1>1 DEF Walk
<1>3. /\ TradesOf(sim.plan) \subseteq 1 .. Len(sim.plan)
      /\ Len(sim.plan) \in Nat /\ DOMAIN sim.plan = 1 .. Len(sim.plan)
  BY <1>2, TradesAreSteps
<1>4. sim.at \in 1 .. Len(sim.plan)
  BY <1>1, <1>2, <1>3
<1>5. Current = sim.plan[sim.at] /\ sim.plan[sim.at].type = type
  BY DEF TradesNow, Current
<1>6. sim.at \in TradesOf(sim.plan)
  BY <1>3, <1>4, <1>5 DEF TradesOf
<1>7. /\ sim.plan[sim.at].from \in SimTokens \cup {NoAsset}
      /\ sim.plan[sim.at].to \in SimTokens \cup {NoAsset}
  BY <1>2, <1>4, TradesAreSteps
<1> QED BY <1>1, <1>2, <1>3, <1>4, <1>5, <1>6, <1>7 DEF AtTrade

LEMMA CarefulKeepsPart ==
    ASSUME SimInv, NEW type \in {"SWAP", "BORROW"}, TradesNow(type),
           NEW kept, KeptOf(type, kept), Careful(sim)
    PROVE  kept \in 0 .. Unit
<1>1. Walk(sim, mixed) /\ AtTrade(sim.plan, sim.at)
  BY TradeIsAt
<1>2. CASE type = "SWAP"
  <2>1. kept = Unit - Fee - sim.slippage
    BY <1>2 DEF KeptOf, SwapKeeps
  <2>2. sim.slippage \in 0 .. Unit - Fee /\ Fee \in 0 .. Unit /\ Unit \in Nat
    BY SimulationAssumption DEF Careful
  <2> QED BY <2>1, <2>2
<1>3. CASE type = "BORROW"
  <2>1. kept = Ratio(sim.plan[sim.at])
    BY <1>1, <1>3 DEF KeptOf, AtTrade
  <2>2. sim.plan[sim.at].type = "BORROW"
    BY <1>1, <1>3 DEF TradesNow, AtTrade
  <2> QED BY <1>1, <2>1, <2>2 DEF Careful, AtTrade
<1> QED BY <1>2, <1>3

\* Whether a request is careful is known before the walk.
LEMMA StaysCareful ==
    ASSUME NEW s, NEW t, s.plan = t.plan, s.amount = t.amount, s.slippage = t.slippage,
           Careful(t)
    PROVE  Careful(s)
BY DEF Careful

\* What the walk says of the trades after one more.
LEMMA TradeStep ==
    ASSUME SimInv, NEW type \in {"SWAP", "BORROW"}, TradesNow(type),
           Current.from \in SimTokens, Current.to \in SimTokens, Current.from # Current.to,
           NEW kept, KeptOf(type, kept),
           NEW in \in Readings(Current.from), NEW out \in Readings(Current.to),
           Convert(kept, in, out)
    PROVE  sim' = NoSim \/ (DOMAIN sim' = SimFields /\ Walk(sim', mixed'))
<1> DEFINE plan == sim.plan
           n == sim.at
<1>1. /\ Walk(sim, mixed) /\ mixed \in BOOLEAN /\ DOMAIN sim = SimFields
      /\ AtTrade(plan, n)
  BY TradeIsAt DEF SimInv
<1>2. /\ plan \in Plans /\ n \in 1 .. Len(plan) /\ Len(plan) \in Nat
      /\ sim.amount \in Int /\ sim.den \in Nat \ {0}
      /\ sim.seen \subseteq SimTokens \X Nat /\ DOMAIN plan = 1 .. Len(plan)
      /\ TradesOf(plan) \subseteq 1 .. Len(plan)
  BY <1>1 DEF Walk, AtTrade
<1>3. Current = plan[n] /\ n \in TradesOf(plan)
      /\ plan[n].from \in SimTokens /\ plan[n].to \in SimTokens
  BY <1>1 DEF AtTrade
<1>4. in.price \in Nat /\ out.price \in Nat
  BY <1>3, ReadingsAreNumbers
<1>5. CASE out.price = 0
  BY <1>5 DEF Convert
<1>6. CASE out.price # 0
  <2>0. PICK s, m, pin, pout, num, den, amount, h :
           /\ s = sim' /\ m = mixed' /\ pin = in.price /\ pout = out.price
           /\ num = sim.num /\ den = sim.den /\ amount = sim.amount /\ h = Unit
    OBVIOUS
  <2> DEFINE from == plan[n].from
             to == plan[n].to
  <2>1. sim' = [sim EXCEPT !.at = n + 1, !.num = num * kept * pin, !.den = den * h * pout,
                           !.seen = @ \cup {<<from, pin>>, <<to, pout>>}]
    BY <1>3, <1>6, <2>0 DEF Convert
  <2>8. /\ DOMAIN s = SimFields
        /\ s.plan = plan /\ s.at = n + 1 /\ s.amount = amount /\ s.slippage = sim.slippage
        /\ s.seen = sim.seen \cup {<<from, pin>>, <<to, pout>>}
    BY <1>1, <2>0, <2>1 DEF SimFields
  <2>9. s.num = num * kept * pin /\ s.den = den * h * pout
    BY <1>1, <2>0, <2>1 DEF SimFields
  <2>10. m = (mixed \/ Contradicts(from, pin) \/ Contradicts(to, pout))
    BY <1>3, <1>6, <2>0 DEF Convert
  <2>11. den \in Nat \ {0} /\ amount \in Int /\ s.slippage \in Int
    BY <1>1, <1>2, <2>0, <2>8 DEF Walk
  <2>12. pin \in Nat /\ pout \in Nat \ {0} /\ h \in Nat \ {0}
    BY <1>4, <1>6, <2>0, SimulationAssumption
  <2>2. /\ s.at \in 1 .. Len(plan) + 1 /\ s.amount \in Int
        /\ s.seen \subseteq SimTokens \X Nat
    <3>3. s.at \in 1 .. Len(plan) + 1 /\ s.amount \in Int
      BY <2>8, <2>11, <1>2
    <3>4. <<from, pin>> \in SimTokens \X Nat /\ <<to, pout>> \in SimTokens \X Nat
      BY <1>3, <2>12
    <3> QED BY <3>3, <3>4, <2>8, <1>2
  <2>3. s.den \in Nat \ {0}
    BY TimesIsPositive, <2>9, <2>11, <2>12, Zenon
  <2>4. ~m => OnePriceEach(s.seen)
    <3>1. SUFFICES ASSUME ~m, NEW a \in s.seen, NEW b \in s.seen, a[1] = b[1]
                   PROVE a[2] = b[2]
      BY DEF OnePriceEach
    <3>2. OnePriceEach(sim.seen) /\ ~Contradicts(from, pin) /\ ~Contradicts(to, pout)
      BY <3>1, <2>10, <1>1 DEF Walk
    <3>3. from # to
      BY <1>3
    <3> QED BY <3>1, <3>2, <3>3, <2>8 DEF OnePriceEach, Contradicts
  <2>5. (\A k \in TradesOf(s.plan) : s.at <= k) => s.num <= s.amount * s.den
    BY <1>2, <1>3, <2>8
  <2>13. ASSUME Careful(s) PROVE /\ num \in Nat /\ amount \in Nat /\ kept \in 0 .. h
                                 /\ Careful(sim)
    <3>1. Careful(sim)
      BY <2>0, <2>8, <2>13, StaysCareful
    <3>2. num \in Nat /\ amount \in Nat
      BY <1>1, <1>2, <2>0, <3>1 DEF Walk, Careful
    <3>3. kept \in 0 .. h
      BY <2>0, <3>1, CarefulKeepsPart
    <3> QED BY <3>1, <3>2, <3>3
  <2>14. ASSUME Careful(s) PROVE s.num \in Nat
    <3>1. num \in Nat /\ kept \in Nat /\ pin \in Nat
      BY <2>12, <2>13, <2>14
    <3>2. num * kept * pin \in Nat
      BY <3>1
    <3> QED BY <2>9, <3>2
  <2>6. ASSUME Careful(s), ~m, Chained(plan), NEW i \in TradesOf(plan),
               NEW j \in TradesOf(plan), FirstTrade(plan, i), LastTrade(plan, j, n + 1)
        PROVE  NoGain(s, i, j)
    <3>0. num \in Nat /\ amount \in Nat /\ kept \in 0 .. h /\ Careful(sim)
      BY <2>6, <2>13
    <3>1. j = n
      BY <2>6, <1>2, <1>3 DEF LastTrade
    <3>2. i <= n /\ i \in Nat
      BY <2>6, <1>2, <1>3 DEF FirstTrade
    <3>3. /\ <<plan[j].to, pout>> \in s.seen /\ <<from, pin>> \in s.seen
          /\ pout \in Nat \ {0} /\ pin \in Nat
      BY <3>1, <2>8, <2>12
    <3>6. ASSUME plan[i].from = from, num <= amount * den
          PROVE \E p \in Nat : /\ <<plan[i].from, p>> \in s.seen
                               /\ num * pin <= (amount * den) * p
      <4>1. amount * den \in Nat
        BY <3>0, <2>11
      <4>2. num * pin <= (amount * den) * pin
        BY <3>0, <3>6, <4>1, <2>12, TimesKeepsOrder
      <4>3. <<plan[i].from, pin>> \in s.seen /\ pin \in Nat
        BY <3>3, <3>6
      <4> QED BY <4>2, <4>3, Zenon
    <3>4. \E p \in Nat : /\ <<plan[i].from, p>> \in s.seen
                         /\ num * pin <= (amount * den) * p
      <4>1. CASE i = n
        <5>1. \A k \in TradesOf(plan) : n <= k
          BY <4>1, <2>6 DEF FirstTrade
        <5>2. num <= amount * den
          BY <5>1, <1>1, <2>0, <3>0 DEF Walk
        <5> QED BY <5>2, <4>1, <3>6
      <4>2. CASE i < n
        <5>1. PICK l \in TradesOf(plan) : LastTrade(plan, l, n)
          BY <4>2, <1>2, TradeBefore
        <5>2. ~mixed
          BY <2>6, <2>10, <1>1
        <5>3. NoGain(sim, i, l)
          BY <5>1, <5>2, <2>6, <1>1, <3>0 DEF Walk
        <5>5. plan[l].to = from
          <6>1. l < n /\ \A k \in TradesOf(plan) : k <= l \/ n <= k
            BY <5>1, <1>2 DEF LastTrade
          <6> QED BY <6>1, <2>6, <1>3 DEF Chained
        <5>8. CASE plan[i].from = plan[l].to /\ num <= amount * den
          BY <5>5, <5>8, <3>6
        <5>9. CASE \E p \in Nat, q \in Nat \ {0} :
                     /\ <<plan[i].from, p>> \in sim.seen /\ <<plan[l].to, q>> \in sim.seen
                     /\ num * q <= (amount * den) * p
          <6>1. PICK p \in Nat, q \in Nat \ {0} :
                   /\ <<plan[i].from, p>> \in sim.seen /\ <<plan[l].to, q>> \in sim.seen
                   /\ num * q <= (amount * den) * p
            BY <5>9
          <6>2. q = pin
            <7>1. <<from, q>> \in s.seen
              BY <6>1, <5>5, <2>8
            <7>2. OnePriceEach(s.seen)
              BY <2>4, <2>6
            <7> QED BY <7>1, <7>2, <3>3 DEF OnePriceEach
          <6>3. <<plan[i].from, p>> \in s.seen
            BY <6>1, <2>8
          <6> QED BY <6>1, <6>2, <6>3, Zenon
        <5> QED BY <5>3, <5>8, <5>9, <2>0 DEF NoGain
      <4>3. i = n \/ i < n
        BY <3>2, <1>2
      <4> QED BY <4>1, <4>2, <4>3, Zenon
    <3>5. PICK p \in Nat : <<plan[i].from, p>> \in s.seen /\ num * pin <= (amount * den) * p
      BY <3>4
    <3>7. (num * kept * pin) * pout <= amount * (den * h * pout) * p
      <4>1. h \in Nat /\ den \in Nat /\ pout \in Nat
        BY <2>11, <2>12
      <4> QED BY <3>0, <3>5, <2>12, <4>1, TradeGainsNothing, Zenon
    <3>8. s.num * pout <= s.amount * s.den * p
      BY <3>7, <2>8, <2>9, Zenon
    <3> QED BY <3>3, <3>5, <3>8, <2>8, <2>12 DEF NoGain
  <2>7. Walk(s, m)
    BY <2>8, <2>11, <2>2, <2>3, <2>4, <2>5, <2>6, <2>14, <1>2 DEF Walk
  <2> QED BY <2>0, <2>8, <2>7
<1> QED BY <1>5, <1>6

\* A part of an amount, at no rate.
LEMMA PartGainsNothing ==
    ASSUME NEW a \in Nat, NEW b \in Nat, NEW h \in Nat, NEW c \in 0 .. h, a <= b
    PROVE  a * c <= b * h
<1>1. a * c <= b * c
  BY TimesKeepsOrder
<1>2. c * b <= h * b
  BY TimesKeepsOrder
<1>3. b * c = c * b /\ b * h = h * b /\ a * c \in Nat /\ b * c \in Nat /\ b * h \in Nat
  OBVIOUS
<1> QED BY <1>1, <1>2, <1>3

\* A trade of a token for itself: neither a price nor a place of it changes.
LEMMA ForItselfStep ==
    ASSUME SimInv, NEW type \in {"SWAP", "BORROW"}, NEW kept, KeptOf(type, kept),
           TradeForItself(type, kept)
    PROVE  SimInv'
<1> DEFINE plan == sim.plan
           n == sim.at
<1>0. TradesNow(type) /\ Current.from = Current.to /\ UNCHANGED <<simTime, oracle, priceCache, mixed>>
  BY DEF TradeForItself
<1>1. /\ Walk(sim, mixed) /\ mixed \in BOOLEAN /\ DOMAIN sim = SimFields
      /\ AtTrade(plan, n)
  BY <1>0, TradeIsAt DEF SimInv
<1>2. /\ plan \in Plans /\ n \in 1 .. Len(plan) /\ Len(plan) \in Nat
      /\ sim.amount \in Int /\ sim.den \in Nat \ {0}
      /\ TradesOf(plan) \subseteq 1 .. Len(plan)
      /\ n \in TradesOf(plan) /\ plan[n].from = plan[n].to
  BY <1>0, <1>1 DEF Walk, AtTrade
<1>3. PICK s, num, den, amount, h :
         s = sim' /\ num = sim.num /\ den = sim.den /\ amount = sim.amount /\ h = Unit
  OBVIOUS
<1>4. s = [sim EXCEPT !.at = n + 1, !.num = num * kept, !.den = den * h]
  BY <1>3 DEF TradeForItself
<1>5. /\ DOMAIN s = SimFields
      /\ s.plan = plan /\ s.at = n + 1 /\ s.amount = amount /\ s.slippage = sim.slippage
      /\ s.seen = sim.seen /\ s.num = num * kept /\ s.den = den * h
  BY <1>1, <1>3, <1>4 DEF SimFields
<1>6. h \in Nat \ {0} /\ den \in Nat \ {0}
  BY <1>2, <1>3, SimulationAssumption
<1>7. s.den \in Nat \ {0}
  <2>1. den * h * 1 \in Nat \ {0} /\ den * h = den * h * 1
    BY <1>6, TimesIsPositive
  <2> QED BY <1>5, <2>1
<1>8. ASSUME Careful(s) PROVE /\ num \in Nat /\ amount \in Nat /\ kept \in 0 .. h
                              /\ Careful(sim)
  <2>1. Careful(sim)
    BY <1>3, <1>5, <1>8, StaysCareful
  <2>2. num \in Nat /\ amount \in Nat
    BY <1>1, <1>2, <1>3, <2>1 DEF Walk, Careful
  <2>3. kept \in 0 .. h
    BY <1>0, <1>3, <2>1, CarefulKeepsPart
  <2> QED BY <2>1, <2>2, <2>3
<1>9. ASSUME Careful(s) PROVE s.num \in Nat
  <2>1. num \in Nat /\ kept \in Nat
    BY <1>6, <1>8, <1>9
  <2>2. num * kept \in Nat
    BY <2>1
  <2> QED BY <1>5, <2>2
<1>10. ASSUME Careful(s), NEW x \in Nat, NEW y \in Nat, num * x <= (amount * den) * y
       PROVE  s.num * x <= s.amount * s.den * y
  <2>1. num \in Nat /\ amount \in Nat /\ kept \in 0 .. h /\ h \in Nat /\ den \in Nat /\ kept \in Nat
    BY <1>6, <1>8, <1>10
  <2>2. PICK a \in Nat, b \in Nat : a = num * x /\ b = (amount * den) * y
    <3>1. num * x \in Nat /\ amount * den \in Nat
      BY <2>1
    <3>2. (amount * den) * y \in Nat
      BY <3>1
    <3> QED BY <3>1, <3>2
  <2>3. a * kept <= b * h
    BY <1>10, <2>1, <2>2, PartGainsNothing
  <2>4. a * kept = (num * kept) * x
    BY <2>1, <2>2
  <2>5. b * h = amount * (den * h) * y
    BY <2>1, <2>2
  <2> QED BY <1>5, <2>3, <2>4, <2>5
<1>11. ASSUME Careful(s), num <= amount * den PROVE s.num <= s.amount * s.den
  <2>1. num * 1 <= (amount * den) * 1
    BY <1>6, <1>8, <1>11
  <2>2. s.num * 1 <= s.amount * s.den * 1
    BY <1>10, <1>11, <2>1
  <2>3. s.num \in Nat /\ s.amount \in Nat /\ s.den \in Nat
    BY <1>5, <1>7, <1>8, <1>9, <1>11
  <2>4. s.amount * s.den \in Nat
    BY <2>3
  <2> QED BY <2>2, <2>3, <2>4
<1>12. ASSUME Careful(s), ~mixed, Chained(plan), NEW i \in TradesOf(plan),
              NEW j \in TradesOf(plan), FirstTrade(plan, i), LastTrade(plan, j, n + 1)
       PROVE  NoGain(s, i, j)
  <2>1. j = n
    BY <1>12, <1>2 DEF LastTrade
  <2>2. i <= n /\ i \in Nat
    BY <1>12, <1>2 DEF FirstTrade
  <2>3. Careful(sim)
    BY <1>8, <1>12
  <2>4. CASE i = n
    <3>1. \A k \in TradesOf(plan) : n <= k
      BY <2>4, <1>12 DEF FirstTrade
    <3>2. num <= amount * den
      BY <3>1, <1>1, <1>3, <2>3 DEF Walk
    <3>3. s.num <= s.amount * s.den
      BY <1>11, <1>12, <3>2
    <3> QED BY <3>3, <2>1, <2>4, <1>2, <1>5 DEF NoGain
  <2>5. CASE i < n
    <3>1. PICK l \in TradesOf(plan) : LastTrade(plan, l, n)
      BY <2>5, <1>2, TradeBefore
    <3>2. NoGain(sim, i, l)
      BY <3>1, <1>12, <1>1, <2>3 DEF Walk
    <3>3. plan[l].to = plan[j].to
      <4>1. l < n /\ \A k \in TradesOf(plan) : k <= l \/ n <= k
        BY <3>1, <1>2 DEF LastTrade
      <4>2. plan[l].to = plan[n].from
        BY <4>1, <1>12, <1>2 DEF Chained
      <4> QED BY <4>2, <2>1, <1>2
    <3>4. CASE plan[i].from = plan[l].to /\ num <= amount * den
      <4>1. s.num <= s.amount * s.den
        BY <1>11, <1>12, <3>4
      <4> QED BY <4>1, <3>3, <3>4, <1>5 DEF NoGain
    <3>5. CASE \E p \in Nat, q \in Nat \ {0} :
                 /\ <<plan[i].from, p>> \in sim.seen /\ <<plan[l].to, q>> \in sim.seen
                 /\ num * q <= (amount * den) * p
      <4>1. PICK p \in Nat, q \in Nat \ {0} :
               /\ <<plan[i].from, p>> \in sim.seen /\ <<plan[l].to, q>> \in sim.seen
               /\ num * q <= (amount * den) * p
        BY <3>5
      <4>2. s.num * q <= s.amount * s.den * p
        BY <1>10, <1>12, <4>1
      <4> QED BY <4>1, <4>2, <3>3, <1>5 DEF NoGain
    <3> QED BY <3>2, <3>4, <3>5, <1>3 DEF NoGain
  <2> QED BY <2>2, <2>4, <2>5, <1>2
<1>13. s.at \in 1 .. Len(plan) + 1 /\ ~(\A k \in TradesOf(plan) : s.at <= k)
  BY <1>2, <1>5
<1>14. /\ s.amount \in Int /\ s.slippage \in Int /\ s.seen \subseteq SimTokens \X Nat
       /\ ~mixed => OnePriceEach(s.seen)
  BY <1>1, <1>3, <1>5 DEF Walk
<1>15. Walk(s, mixed)
  BY <1>2, <1>5, <1>7, <1>9, <1>12, <1>13, <1>14 DEF Walk
<1> QED BY <1>0, <1>3, <1>5, <1>15 DEF SimInv

\* Looking a price up, and using it, changes the cache only.
LEMMA TradeCaches ==
    ASSUME SimInv, NEW f \in SimTokens, NEW t \in SimTokens,
           NEW in \in Readings(f), NEW out \in Readings(t),
           simTime' = simTime,
           priceCache' = [priceCache EXCEPT ![f] = Cached(f, in), ![t] = Cached(t, out)]
    PROVE  DOMAIN priceCache' = SimTokens /\ \A u \in SimTokens : priceCache'[u].price \in Nat
<1>1. in.price \in Nat /\ out.price \in Nat
  BY ReadingsAreNumbers
<1>2. Cached(f, in).price \in Nat
  BY <1>1 DEF SimInv, Cached
<1>3. Cached(t, out).price \in Nat
  BY <1>1 DEF SimInv, Cached
<1> QED BY <1>2, <1>3 DEF SimInv

LEMMA TradeActionStep ==
    ASSUME SimInv, NEW type \in {"SWAP", "BORROW"}, NEW kept, KeptOf(type, kept),
           Trade(type, kept)
    PROVE  SimInv'
<1>1. PICK in \in Readings(Current.from), out \in Readings(Current.to) :
         /\ Convert(kept, in, out)
         /\ priceCache' = [priceCache EXCEPT ![Current.from] = Cached(Current.from, in),
                                             ![Current.to] = Cached(Current.to, out)]
  BY DEF Trade
<1>2. /\ TradesNow(type) /\ Current.from # Current.to /\ UNCHANGED <<simTime, oracle>>
      /\ NoAsset \notin {Current.from, Current.to}
  BY DEF Trade
<1>3. Current.from \in SimTokens /\ Current.to \in SimTokens
  BY <1>2, TradeIsAt DEF AtTrade
<1>5. sim' = NoSim \/ (DOMAIN sim' = SimFields /\ Walk(sim', mixed'))
  BY <1>1, <1>2, <1>3, TradeStep
<1>6. DOMAIN priceCache' = SimTokens /\ \A u \in SimTokens : priceCache'[u].price \in Nat
  BY <1>1, <1>2, <1>3, TradeCaches
<1>7. mixed' \in BOOLEAN
  BY <1>1 DEF Convert, SimInv
<1>8. simTime' \in Nat /\ \A t \in SimTokens : oracle'[t] \in Nat
  BY <1>2 DEF SimInv
<1> QED BY <1>5, <1>6, <1>7, <1>8 DEF SimInv

\* A token without a name ends the simulation.
LEMMA UnnamedStep ==
    ASSUME SimInv, NEW type \in {"SWAP", "BORROW"}, TradeUnnamed(type) PROVE SimInv'
<1>1. PICK t \in {Current.from, Current.to} \ {NoAsset} : \E reading \in Readings(t) :
         priceCache' = [priceCache EXCEPT ![t] = Cached(t, reading)]
  BY DEF TradeUnnamed
<1>2. PICK reading \in Readings(t) : priceCache' = [priceCache EXCEPT ![t] = Cached(t, reading)]
  BY <1>1
<1>3. TradesNow(type) /\ sim' = NoSim /\ UNCHANGED <<simTime, oracle, mixed>>
  BY DEF TradeUnnamed
<1>4. t \in SimTokens
  BY <1>3, TradeIsAt DEF AtTrade
<1>5. Cached(t, reading).price \in Nat
  <2>1. reading.price \in Nat
    BY <1>4, ReadingsAreNumbers
  <2> QED BY <1>4, <2>1 DEF SimInv, Cached
<1>6. DOMAIN priceCache' = SimTokens /\ \A u \in SimTokens : priceCache'[u].price \in Nat
  BY <1>2, <1>4, <1>5 DEF SimInv
<1> QED BY <1>3, <1>6 DEF SimInv

LEMMA SimulateStep ==
    ASSUME SimInv, NEW plan \in Plans, NEW amount \in AmountsIn, NEW slippage \in Slippages,
           Simulate(plan, amount, slippage)
    PROVE  SimInv'
<1>1. PICK s : s = sim'
  OBVIOUS
<1>2. s = [plan |-> plan, at |-> 1, amount |-> amount, slippage |-> slippage,
           num |-> amount, den |-> 1, seen |-> {}]
  BY <1>1 DEF Simulate
<1>3. /\ DOMAIN s = SimFields
      /\ s.plan = plan /\ s.at = 1 /\ s.amount = amount /\ s.num = amount /\ s.den = 1
      /\ s.seen = {} /\ s.slippage = slippage
  BY <1>2 DEF SimFields
<1>4. Len(plan) \in Nat /\ TradesOf(plan) \subseteq 1 .. Len(plan)
  BY TradesAreSteps
<1>5. Walk(s, FALSE)
  <2>1. s.at \in 1 .. Len(plan) + 1
    BY <1>3, <1>4
  <2>2. OnePriceEach(s.seen) /\ s.seen \subseteq SimTokens \X Nat
    BY <1>3 DEF OnePriceEach
  <2>3. /\ s.num <= s.amount * s.den /\ s.amount \in Int /\ s.slippage \in Int
        /\ s.den \in Nat \ {0} /\ (Careful(s) => s.num \in Nat)
    BY <1>3, SimulationAssumption DEF Careful
  <2>4. \A j \in TradesOf(plan) : ~LastTrade(plan, j, s.at)
    BY <1>3, <1>4 DEF LastTrade
  <2> QED BY <1>3, <2>1, <2>2, <2>3, <2>4 DEF Walk
<1>6. ~mixed' /\ UNCHANGED <<simTime, oracle, priceCache>> /\ mixed' = FALSE
  BY DEF Simulate
<1> QED BY <1>1, <1>3, <1>5, <1>6 DEF SimInv

LEMMA OtherStep ==
    ASSUME SimInv, SimulateOther PROVE SimInv'
<1>1. PICK s : s = sim'
  OBVIOUS
<1>2. s = [sim EXCEPT !.at = @ + 1] /\ UNCHANGED <<simTime, oracle, priceCache, mixed>>
  BY <1>1 DEF SimulateOther
<1>3. /\ DOMAIN sim = SimFields /\ Walk(sim, mixed)
      /\ sim.at <= Len(sim.plan) /\ sim.plan[sim.at].type \notin {"SWAP", "BORROW"}
  BY DEF SimInv, SimulateOther, Current
<1>4. /\ DOMAIN s = SimFields
      /\ s.plan = sim.plan /\ s.at = sim.at + 1 /\ s.amount = sim.amount /\ s.num = sim.num
      /\ s.den = sim.den /\ s.seen = sim.seen /\ s.slippage = sim.slippage
  BY <1>2, <1>3 DEF SimFields
<1>5. sim.plan \in Plans /\ sim.at \in 1 .. Len(sim.plan) + 1
  BY <1>3 DEF Walk
<1>6. Len(sim.plan) \in Nat /\ TradesOf(sim.plan) \subseteq 1 .. Len(sim.plan)
  BY <1>5, TradesAreSteps
<1>7. sim.at \notin TradesOf(sim.plan) /\ s.at \in 1 .. Len(sim.plan) + 1 /\ sim.at \in Nat
  BY <1>3, <1>4, <1>5, <1>6 DEF TradesOf
<1>8. \A k \in TradesOf(sim.plan) : (s.at <= k <=> sim.at <= k) /\ (k < s.at <=> k < sim.at)
  BY <1>4, <1>6, <1>7
<1>9. \A j \in TradesOf(sim.plan) :
         LastTrade(sim.plan, j, s.at) => LastTrade(sim.plan, j, sim.at)
  BY <1>8 DEF LastTrade
<1>10. \A i, j \in TradesOf(sim.plan) : NoGain(sim, i, j) => NoGain(s, i, j)
  BY <1>4 DEF NoGain
<1>11. Careful(s) => Careful(sim)
  BY <1>4, StaysCareful
<1>12. Walk(s, mixed)
  BY <1>3, <1>4, <1>7, <1>8, <1>9, <1>10, <1>11 DEF Walk
<1> QED BY <1>1, <1>2, <1>4, <1>12 DEF SimInv

LEMMA SimStep == SimInv /\ [SimNext]_simVars => SimInv'
<1>1. SUFFICES ASSUME SimInv, [SimNext]_simVars PROVE SimInv'
  OBVIOUS
<1>2. CASE UNCHANGED simVars
  <2>1. UNCHANGED <<simTime, oracle, priceCache, sim, mixed>>
    BY <1>2 DEF simVars
  <2> QED BY <1>1, <2>1 DEF SimInv
<1>3. ASSUME NEW plan \in Plans, NEW amount \in AmountsIn, NEW slippage \in Slippages,
             Simulate(plan, amount, slippage)
      PROVE SimInv'
  BY <1>1, <1>3, SimulateStep
<1>4. CASE SimulateSwap
  <2>1. PICK kept : kept = SwapKeeps
    OBVIOUS
  <2>2. KeptOf("SWAP", kept) /\ "SWAP" \in {"SWAP", "BORROW"}
    BY <2>1 DEF KeptOf
  <2>3. Trade("SWAP", kept) \/ TradeForItself("SWAP", kept) \/ TradeUnnamed("SWAP")
    BY <1>4, <2>1 DEF SimulateSwap
  <2> QED BY <1>1, <2>2, <2>3, TradeActionStep, ForItselfStep, UnnamedStep
<1>5. CASE SimulateBorrow
  <2>1. PICK kept : kept = Ratio(Current)
    OBVIOUS
  <2>2. KeptOf("BORROW", kept) /\ "BORROW" \in {"SWAP", "BORROW"}
    BY <2>1 DEF KeptOf
  <2>3. Trade("BORROW", kept) \/ TradeForItself("BORROW", kept) \/ TradeUnnamed("BORROW")
    BY <1>5, <2>1 DEF SimulateBorrow
  <2> QED BY <1>1, <2>2, <2>3, TradeActionStep, ForItselfStep, UnnamedStep
<1>6. CASE SimulateOther
  BY <1>1, <1>6, OtherStep
<1>7. ASSUME NEW t \in SimTokens, NEW price \in PricesOf(t), OracleUpdates(t, price)
      PROVE SimInv'
  <2>1. price \in Nat
    BY SimulationAssumption
  <2>2. oracle' = [oracle EXCEPT ![t] = price] /\ UNCHANGED <<simTime, priceCache, sim, mixed>>
    BY <1>7 DEF OracleUpdates
  <2>3. \A u \in SimTokens : oracle'[u] \in Nat
    BY <1>1, <2>1, <2>2 DEF SimInv
  <2> QED BY <1>1, <2>2, <2>3 DEF SimInv
<1>8. CASE SimTick
  <2>1. simTime' \in Nat /\ UNCHANGED <<oracle, priceCache, sim, mixed>>
    BY <1>1, <1>8 DEF SimTick, SimInv
  <2> QED BY <1>1, <2>1 DEF SimInv
<1> QED BY <1>1, <1>2, <1>3, <1>4, <1>5, <1>6, <1>7, <1>8 DEF SimNext

LEMMA Divided ==
    ASSUME NEW a \in Nat, NEW b \in Nat, NEW q \in Nat \ {0}, a * q <= b * q PROVE a <= b
<1>1. SUFFICES ASSUME b + 1 <= a PROVE FALSE
  OBVIOUS
<1>2. (b + 1) * q <= a * q
  BY <1>1, TimesKeepsOrder
<1>3. (b + 1) * q = b * q + q
  OBVIOUS
<1>4. b * q \in Nat /\ a * q \in Nat
  OBVIOUS
<1> QED BY <1>2, <1>3, <1>4

\* A simulated plan whose trades come back to the first token ends with more
\* than it began with only when the request asks for it (a ratio above one, an
\* amount or a slippage below zero) or a price it relied on changed on the way:
\* for every request and all prices (swap-simulator.ts, borrow-simulator.ts).
THEOREM RoundTripsNeverGainAnything == SimSpec => []RoundTripsNeverGain
<1>1. SimInv => RoundTripsNeverGain
  <2>1. SUFFICES ASSUME SimInv, sim # NoSim, sim.at = Len(sim.plan) + 1,
                        Chained(sim.plan), Returns(sim.plan), ~mixed, Careful(sim)
                 PROVE  sim.num <= sim.amount * sim.den
    BY DEF RoundTripsNeverGain
  <2>2. Walk(sim, mixed)
    BY <2>1 DEF SimInv
  <2>3. PICK num, den, amount : num = sim.num /\ den = sim.den /\ amount = sim.amount
    OBVIOUS
  <2>4. num \in Nat /\ den \in Nat /\ amount \in Nat /\ sim.plan \in Plans /\ OnePriceEach(sim.seen)
    BY <2>1, <2>2, <2>3 DEF Walk, Careful
  <2>5. PICK i \in TradesOf(sim.plan), j \in TradesOf(sim.plan) :
           /\ \A k \in TradesOf(sim.plan) : i <= k /\ k <= j
           /\ sim.plan[i].from = sim.plan[j].to
    BY <2>1 DEF Returns
  <2>6. FirstTrade(sim.plan, i) /\ LastTrade(sim.plan, j, sim.at)
    BY <2>1, <2>4, <2>5, TradesAreSteps DEF FirstTrade, LastTrade
  <2>7. NoGain(sim, i, j)
    BY <2>1, <2>2, <2>6 DEF Walk
  <2>8. CASE \E p \in Nat, q \in Nat \ {0} :
               /\ <<sim.plan[i].from, p>> \in sim.seen /\ <<sim.plan[j].to, q>> \in sim.seen
               /\ num * q <= amount * den * p
    <3>1. PICK p \in Nat, q \in Nat \ {0} :
             /\ <<sim.plan[i].from, p>> \in sim.seen /\ <<sim.plan[j].to, q>> \in sim.seen
             /\ num * q <= amount * den * p
      BY <2>8
    <3>2. p = q
      BY <2>4, <2>5, <3>1 DEF OnePriceEach
    <3>3. PICK w \in Nat : w = amount * den
      BY <2>4
    <3>4. num * q <= w * q
      BY <3>1, <3>2, <3>3
    <3> QED BY <2>3, <2>4, <3>3, <3>4, Divided
  <2> QED BY <2>3, <2>7, <2>8 DEF NoGain
<1> QED BY <1>1, SimStart, SimStep, PTL DEF SimSpec

-----------------------------------------------------------------------------
(* One behaviour of the back end is one of each service.                   *)

\* A move of one service leaves the variables of the others alone.
LEMMA ServicesAreApart ==
    MCNext => /\ [AuthNext]_authVars /\ [IndexNext]_indexVars /\ [GovNext]_govVars
              /\ [MigrationNext]_migVars /\ [MarketsNext]_marketVars
              /\ [CatalogNext]_catalogVars /\ [ScriptNext]_scriptVars
              /\ [AiNext]_aiVars /\ [SimNext]_simVars
<1>1. SUFFICES ASSUME MCNext
               PROVE  /\ [AuthNext]_authVars /\ [IndexNext]_indexVars /\ [GovNext]_govVars
                      /\ [MigrationNext]_migVars /\ [MarketsNext]_marketVars
                      /\ [CatalogNext]_catalogVars /\ [ScriptNext]_scriptVars
                      /\ [AiNext]_aiVars /\ [SimNext]_simVars
  OBVIOUS
<1>2. PICK s \in Services :
         /\ Rest(s)
         /\ s = "auth" => AuthNext
         /\ s = "indexer" => IndexNext
         /\ s = "governance" => GovNext
         /\ s = "migrations" => MigrationNext
         /\ s \in CachedReads => MarketsNext
         /\ s = "catalog" => CatalogNext
         /\ s = "scripts" => ScriptNext
         /\ s = "ai" => AiNext
         /\ s = "simulation" => SimNext
  BY <1>1 DEF MCNext, Services, CachedReads
<1> QED BY <1>2 DEF Rest

\* The theorems above hold of the back end as it is composed: whichever of its
\* services moves, what each of them promises is kept.
THEOREM BackendKeepsItsPromises ==
    MCSpec => [](/\ LoginsAreGenuine /\ CheckpointSkipsNothing /\ RecentVotersCountOnce
                 /\ RegisteredMigrationsExist /\ AnswersAreRecent /\ ListedVersionsExist
                 /\ StoredEventsAreFound /\ DeploymentIsWhole
                 /\ PlansStartWithTheUsersToken /\ RoundTripsNeverGain)
<1>1. MCInit => /\ AuthInit /\ IndexInit /\ GovInit /\ MigrationInit(Databases)
                /\ MarketsInit /\ CatalogInit /\ ScriptInit /\ AiInit /\ SimInit
  BY DEF MCInit
<1>2. UNCHANGED mcVars => /\ UNCHANGED authVars /\ UNCHANGED indexVars /\ UNCHANGED govVars
                          /\ UNCHANGED migVars /\ UNCHANGED marketVars
                          /\ UNCHANGED catalogVars /\ UNCHANGED scriptVars
                          /\ UNCHANGED aiVars /\ UNCHANGED simVars
  BY DEF mcVars
<1>3. [MCNext]_mcVars => /\ [AuthNext]_authVars /\ [IndexNext]_indexVars
                         /\ [GovNext]_govVars /\ [MigrationNext]_migVars
                         /\ [MarketsNext]_marketVars /\ [CatalogNext]_catalogVars
                         /\ [ScriptNext]_scriptVars
                         /\ [AiNext]_aiVars /\ [SimNext]_simVars
  BY <1>2, ServicesAreApart
<1>4. MCSpec => /\ AuthSpec /\ IndexSpec /\ GovSpec /\ MigrationSpec /\ MarketsSpec
                /\ CatalogSpec /\ ScriptSpec /\ AiSpec /\ SimSpec
  BY <1>1, <1>3, PTL DEF MCSpec, AuthSpec, IndexSpec, GovSpec, MigrationSpec, MarketsSpec,
                         CatalogSpec, ScriptSpec, AiSpec, SimSpec
<1> QED BY <1>4, LoginsStayGenuine, CheckpointNeverSkips, RecentVotersAlwaysCountOnce,
           RegisteredMigrationsAlwaysExist, AnswersAreAlwaysRecent,
           ListedVersionsAlwaysExist, StoredEventsAreAlwaysFound,
           DeploymentsAreAlwaysWhole, PlansAlwaysStart, RoundTripsNeverGainAnything, PTL
=============================================================================
