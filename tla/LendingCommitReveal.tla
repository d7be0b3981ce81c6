------------------------- MODULE LendingCommitReveal -------------------------
(***************************************************************************)
(* The whole LendingPool.sol: the calls of LendingPool and the two-step    *)
(* calls that first store a public handle under a commit id and later,     *)
(* within COMMIT_DEADLINE, spend its decryption proof.  A commit records   *)
(* neither the account that made it, nor the token, nor the function it    *)
(* was meant for; only a borrow leaves its terms beside it.                *)
(***************************************************************************)
EXTENDS LendingPool

CONSTANTS
    COMMIT_DEADLINE,
    MaxCommits,                         \* bound: commits of one user
    CommitSuppliers, CommitBorrowers    \* pairs <<token, user>> explored

ASSUME CommitAssumption ==
    /\ COMMIT_DEADLINE \in Nat /\ MaxCommits \in Nat
    /\ CommitSuppliers \subseteq Tokens \X Users
    /\ CommitBorrowers \subseteq Tokens \X Users

VARIABLES
    commits,            \* live commits by id: amount under the handle and time
    borrowParams,       \* loan terms left by commitBorrow, by id
    nonces              \* by user

commitVars == <<commits, borrowParams, nonces>>
allVars    == <<vars, commitVars>>

\* keccak256(sender, block.number, nonce): the nonce alone keeps ids apart.
CommitIds == Users \X Nat

With(f, i, x) == [j \in DOMAIN f \cup {i} |-> IF j = i THEN x ELSE f[j]]
Without(f, i) == [j \in DOMAIN f \ {i} |-> f[j]]

CRInit == Init /\ commits = <<>> /\ borrowParams = <<>>
               /\ nonces = [u \in Users |-> 0]

-----------------------------------------------------------------------------
\* Mutant: the nonce is read and never advanced.
CommitReusesId(u, amount) ==
    /\ nonces[u] < MaxCommits
    /\ commits' = With(commits, <<u, nonces[u]>>,
                       [amount |-> amount, timestamp |-> now])
    /\ UNCHANGED nonces

\* _commit
Commit(u, amount) ==
    /\ nonces[u] < MaxCommits                               \* bound
    /\ nonces' = [nonces EXCEPT ![u] = @ + 1]
    /\ commits' = With(commits, <<u, nonces[u]>>,
                       [amount |-> amount, timestamp |-> now])

\* Mutant: the commitment outlives its execution.
RevealKeepsCommit(id) ==
    /\ id \in DOMAIN commits
    /\ now <= commits[id].timestamp + COMMIT_DEADLINE
    /\ commits[id].amount # 0
    /\ UNCHANGED <<commits, nonces>>

\* Mutant: the deadline is not checked.
RevealAnyTime(id) ==
    /\ id \in DOMAIN commits
    /\ commits[id].amount # 0
    /\ commits' = Without(commits, id)
    /\ UNCHANGED nonces

\* _reveal, with the proof of the committed number.
Reveal(id) ==
    /\ id \in DOMAIN commits
    /\ now <= commits[id].timestamp + COMMIT_DEADLINE
    /\ commits[id].amount # 0
    /\ commits' = Without(commits, id)
    /\ UNCHANGED nonces

-----------------------------------------------------------------------------
(* First steps.  shield, repay and withdraw differ only in their event,    *)
(* shieldEth and withdrawEth also in needing weth.                         *)

CommitAmount(u, amount) ==
    /\ ~paused
    /\ Commit(u, amount)
    /\ UNCHANGED <<vars, borrowParams>>

CommitEth(u, amount) ==
    /\ ~paused /\ weth
    /\ Commit(u, amount)
    /\ UNCHANGED <<vars, borrowParams>>

CommitBorrow(u, collateralToken, borrowToken, amount, num, den) ==
    /\ ~paused
    /\ ValidLtv(num, den)
    /\ Commit(u, amount)
    /\ borrowParams' = With(borrowParams, <<u, nonces[u]>>,
                            [collateralToken |-> collateralToken,
                             borrowToken |-> borrowToken,
                             ltvNum |-> num, ltvDen |-> den])
    /\ UNCHANGED vars

-----------------------------------------------------------------------------
(* Second steps.  The handle that was committed is public; stored as the   *)
(* first balance of a position it stays public.                            *)

CreditCommitted(t, u, handle) ==
    /\ supplyBalances' = [supplyBalances EXCEPT ![t][u] = SafeIncrease(@, handle)]
    /\ revealed' = IF IsInitialized(supplyBalances[t][u])
                   THEN revealed \ {<<"supply", t, u>>}
                   ELSE revealed \cup {<<"supply", t, u>>}
    /\ UNCHANGED borrowBalances

ExecuteShield(u, t, id) ==
    /\ Live /\ Reveal(id)
    /\ PullFrom(t, u, commits[id].amount)
    /\ AddReserve(t, commits[id].amount)
    /\ CreditCommitted(t, u, Ct(commits[id].amount))
    /\ UNCHANGED borrowParams

ExecuteShieldEth(u, id) ==
    /\ Live /\ weth /\ Reveal(id)
    /\ AddReserve(WETH, commits[id].amount)
    /\ CreditCommitted(WETH, u, Ct(commits[id].amount))
    /\ WrapFrom(u, commits[id].amount)
    /\ UNCHANGED borrowParams

ExecuteRepay(u, t, id) ==
    /\ Live /\ Reveal(id)
    /\ PullFrom(t, u, commits[id].amount)
    /\ RepayReserve(t, commits[id].amount)
    /\ CancelDebt(t, u, Ct(commits[id].amount))
    /\ UNCHANGED borrowParams

ExecuteWithdraw(u, t, id) ==
    /\ Live /\ Reveal(id)
    /\ ReleaseReserve(t, commits[id].amount)
    /\ DebitSupply(t, u, Ct(commits[id].amount))
    /\ PayTo(t, u, commits[id].amount)
    /\ UNCHANGED borrowParams

ExecuteWithdrawEth(u, id) ==
    /\ Live /\ weth /\ Reveal(id)
    /\ ReleaseReserve(WETH, commits[id].amount)
    /\ DebitSupply(WETH, u, Ct(commits[id].amount))
    /\ UnwrapTo(u, commits[id].amount)
    /\ UNCHANGED borrowParams

\* Without terms the borrow token is the zero address, whose reserve is 0, and
\* the call reverts.
ExecuteBorrow(u, id) ==
    /\ Live /\ Reveal(id)
    /\ id \in DOMAIN borrowParams
    /\ borrowParams' = Without(borrowParams, id)
    /\ LET p == borrowParams[id]
       IN  BorrowAgainst(u, p.collateralToken, p.borrowToken,
                         commits[id].amount, Ct(commits[id].amount),
                         p.ltvNum, p.ltvDen)

-----------------------------------------------------------------------------
\* A commit may hold any number, also 0 or one that was never claimed.
TwoStepNext ==
    \/ \E u \in Users, amount \in Plain :
          CommitAmount(u, amount) \/ CommitEth(u, amount)
    \/ \E p \in CommitBorrowers, c \in Tokens, amount \in Plain, r \in LtvRatios :
          CommitBorrow(p[2], c, p[1], amount, r[1], r[2])
    \/ \E id \in DOMAIN commits :
          \/ \E p \in CommitSuppliers :
                \/ ExecuteShield(p[2], p[1], id)
                \/ ExecuteWithdraw(p[2], p[1], id)
                \/ p[1] = WETH /\ ExecuteShieldEth(p[2], id)
                \/ p[1] = WETH /\ ExecuteWithdrawEth(p[2], id)
          \/ \E p \in CommitBorrowers : ExecuteRepay(p[2], p[1], id)
          \/ \E u \in Users : ExecuteBorrow(u, id)

CRNext ==
    \/ Next /\ UNCHANGED commitVars
    \/ TwoStepNext

CRSpec == CRInit /\ [][CRNext]_allVars

-----------------------------------------------------------------------------
LoanTerms == [collateralToken : Tokens, borrowToken : Tokens,
              ltvNum : Nat, ltvDen : Nat]

CRTypeOK ==
    /\ TypeOK
    /\ DOMAIN commits \subseteq CommitIds
    /\ \A id \in DOMAIN commits :
          commits[id] \in [amount : Plain, timestamp : Nat]
    /\ DOMAIN borrowParams \subseteq CommitIds
    /\ \A id \in DOMAIN borrowParams : borrowParams[id] \in LoanTerms
    /\ nonces \in [Users -> Nat]

\* A new commit never inherits loan terms: those that outlived their commit (a
\* borrow commit executed by another function leaves them) stay under an id
\* that no later commit gets, in the same block or not.
StaleTermsNeverReturn ==
    [][\A id \in DOMAIN commits' \ DOMAIN commits :
          id \notin DOMAIN borrowParams]_allVars

\* Spending a commit moves its number, neither more nor less, in one token,
\* and only until its deadline.
SpendingMovesTheCommitment ==
    [][\A id \in DOMAIN commits :
          id \notin DOMAIN commits' =>
             /\ now <= commits[id].timestamp + COMMIT_DEADLINE
             /\ \E t \in Tokens :
                   /\ \/ liquidReserve'[t] = liquidReserve[t] + commits[id].amount
                      \/ liquidReserve'[t] = liquidReserve[t] - commits[id].amount
                   /\ bal'[t][Pool] - bal[t][Pool]
                          = liquidReserve'[t] - liquidReserve[t]
                   /\ \A o \in Tokens \ {t} : bal'[o] = bal[o]]_allVars
=============================================================================
