# FheForge in TLA+

A model of FheForge, from the encrypted lending contracts to the screens of the
dapp. Everything is checked with TLC on small instances. Most invariants and
every action property are also proved with TLAPS for every instance: those of
the pool with its arithmetic and two-step calls, of the vault, the router and
the executor, of the back end's services, and of the bridge and the screens;
section 5 says which are not, and why. The findings and observations (section 4)
are what the code does differently from what it says.

Contract paths without a directory are under `src/contracts/contracts/`, back
end paths under `src/backend/apps/src/`.

## 1. The system

| Component | State | Operations | Talks to | Hard behaviour | What makes it correct |
|---|---|---|---|---|---|
| Encrypted arithmetic (`libraries/FHESafeMath128.sol`, `libraries/FheACL.sol`) | none: handles of the FHE coprocessor | tryIncrease, tryDecrease, tryAdd, trySub, safeIncrease, safeDecrease | coprocessor | wrap-around found only homomorphically, success bit dropped | exact or void |
| `FheForgeBase.sol` | owner, pending owner, pause and reentrancy bits, `_ZERO` | pause, ownership, `_verifyEquality` | every contract | plaintext and encrypted amounts may differ | a verified amount never exceeds the claim |
| `LendingPool.sol` | encrypted supply and borrow balances, `totalPlainBorrow`, `liquidReserve`, reveals, commits, loan terms, nonces | shield, borrow, repay, withdraw (in one step, with proofs, through ether, in two steps), liquidation, flash loans, composer calls, owner calls | ERC-20s, WETH, PriceOracle, composer | two sets of books, proofs of older handles, expiry, pausing between steps | reserves are backed and cover the debt; each commit pays once |
| `StrategyVault.sol`, `StrategyRegistry.sol` | positions, ids per user; strategies, encrypted TVL, vault with timelock | open, add, close, paused withdrawal; register, activate, TVL | each other, ERC-20s | a registry that refuses makes the vault revert; swap-and-pop lists | deposits are held; lists and positions agree |
| `FheForgeComposer.sol` | approvals | openPosition, rebalance | vault, pool, router, registry | several calls in one | all or nothing (not modelled) |
| `StrategyExecutor.sol` | checkpoints | executePipeline, resetCheckpoint | vault, pool, router | stops when gas runs low and is resumed | no action twice, none skipped |
| `SwapRouter.sol`, `ExecutorContract.sol` | intents, executor with timelock | submit, cancel, execute, direct swaps | ERC-20s, Uniswap | cancel against execute | escrow equals the open intents, and can be taken back |
| `PriceOracle.sol`, `TokenRegistry.sol` | sources, factors; token list | prices with fallback; register, remove | Pyth, Chainlink | stale and missing feeds | no stale price without saying so (not modelled) |
| Authentication (`auth/`) | nonces, users, the session cookie | nonce, login, refresh, logout | database | logins that read the same nonce; a delete keyed by wallet | a spent nonce opens nothing |
| Event indexer (`event-indexer/`) | events table, saved and remembered checkpoint | start, poll, persist, stop | chain RPC, database | polls overlap, fail halfway, are cut off by a crash | the checkpoint passes no event that is not stored |
| Activities (`activities/`) | none: reads the indexer's rows | list, page, filter, find | events table | duplicated rows | what is listed can be opened |
| Governance back end (`governance/`) | votes and tallies in memory | castVote, proposals | none | a window of recent votes, restarts | nobody counts twice within the window |
| Markets, prices, statistics, readiness (`markets/`, `stats/`, ...) | caches with a life | cached reads, each under a time limit | chain RPC | reads that hang, caches over caches | no answer older than its caches allow |
| Strategy catalog, AI builder, simulators (`defi_strategies/`, `ai-strategy-builder/`, ...) | strategies and versions; one request; one walk over a plan | create and list; plan from template or model with retries; simulate | database, language model, prices | a statement that fails midway; the model answers anything; prices change on the way | a listed version exists; a plan starts with the user's token; a round trip gains only by request |
| Migrations (`src/backend/apps/migrations`) | tables, the migrations table | run the pending files in order | database | cut off anywhere, databases of any age | what is registered exists |
| Deploy scripts (`src/contracts/scripts`) | the chain, the record, the environment file | deploy, link, hand over, verify, faucet | chain, file system | killed between any two steps and run again | what is recorded is there and linked |
| Bridge adapters (`src/packages/forge-bridge`) | wallet connection, session, permit; API queue and cache | connect, switch, login, grant, decrypt; get, post, renew; commit and execute | wallet, back end, contracts | account changes during a login; a session that expires under many requests | the session is the wallet's account's; every call ends |
| Bridge integration (`src/packages/forge-bridge-integration`) | the bus's values, polling timers, slots, flags of the connect flow, the portfolio | start and stop polling, connect and disconnect, read positions | adapters, screens | answers that arrive after sign-out; two writers of one value; sums scaled and rounded | nothing of an account is shown without a session; the portfolio's numbers are of one reading |
| User interface (`src/ui`) | the shell and its connect dialog, panels, lending screen, builder with drafts, history, canvas and deployment | routes, prompts, commit and execute, edit, undo, simulate, deploy | bridge | stale closures, timers of an older action, a click during a click | "confirmed" means executed; undo loses nothing |

Calls between contracts are synchronous; a transaction is atomic and a revert
undoes it. What interleaves are transactions, and between them block time,
plain token transfers, and signatures of the threshold network that decrypts.
In the back end and the browser everything runs on one thread: what interleaves
are the stretches of code between two `await`s, callbacks and timers. An action
there is one such stretch; an answer, a refused prompt, a thrown error and a
timeout are actions of their own, and so is the death of a process.

## 2. Modules

| Module | Models |
|---|---|
| `FHESafeMath128` | handles, coprocessor operations, the checked arithmetic, `_verifyEquality` |
| `LendingLedger` | abstract specification: cash, reserve, lent, and the numbers under the encrypted positions |
| `LendingPool` | the whole contract but its two-step calls; EXTENDS `FHESafeMath128` |
| `LendingCommitReveal` | the whole contract; EXTENDS `LendingPool` and adds commits |
| `TimelockedRotation` | the rotation of one role, with the clock it waits on |
| `StrategyRegistry` | strategies, their totals and the vault that moves them; EXTENDS `TimelockedRotation` and `FHESafeMath128` |
| `StrategyVault` | positions; EXTENDS `StrategyRegistry` and calls it within its own actions |
| `SwapRouter` | intents, direct swaps and the executor; EXTENDS `TimelockedRotation` |
| `StrategyExecutor` | checkpoints of pipelines |
| `AuthService` | nonces, logins step by step, sessions |
| `EventIndexer` | polls, the table, both checkpoints, crash and restart; the list of activities and the look-up by id |
| `GovernanceService` | votes in memory |
| `MarketsService` | the caches and the reads under them |
| `StrategyCatalog` | storing a strategy and its version, listing |
| `AiStrategyBuilder` | a plan from a template or from the model, with its retries |
| `StrategySimulation` | a walk over a plan with prices that change and expire |
| `MigrationRunner` | the runner and what each SQL file creates and needs |
| `DeployScript` | deployment, linking, the record, the faucet script |
| `BridgeBus` | the store between bridge and screens |
| `DataFetcher` | polling, slots, timers; EXTENDS `BridgeBus` |
| `ConnectFlow` | connect and disconnect; EXTENDS `DataFetcher` |
| `WalletAdapter` | wagmi's connection, the session and the permit |
| `ApiClient` | requests, the renewal they queue behind, the cache |
| `ContractClient` | how each contract call may end for its caller (operators) |
| `PositionReader` | the portfolio with its two writers, its conversions and rounding; EXTENDS `BridgeBus`, `ContractClient` and `DisplayValues` |
| `LendingScreen` | commit and execute, liquidation, faucet; EXTENDS `ContractClient` |
| `StrategyGraph` | the builder's graph algorithms (operators) |
| `BuilderWorkspace` | drafts, edits, undo, keyboard, AI answers; EXTENDS `StrategyGraph` |
| `StrategyDeploy` | the Deploy button; EXTENDS `StrategyGraph`, `ContractClient` |
| `CanvasView` | what the canvas shows: runs, pan and zoom, drag and drop, marks, lists |
| `AppShell` | routes, the wallet and permit of `App`, the connect dialog, panels that write |
| `DisplayValues` | transformers and other functions from answers to what is shown (operators) |
| `MCLendingLedger` (with the arithmetic's inputs), `MCLendingPool`, `MCLendingCommitReveal`, `MCVaultAndRouter`, `MCBackend`, `MCDapp`, `MCEditorAndFetcher` | instances for TLC |
| `FHESafeMath128Proofs`, `LendingLedgerProofs`, `MCLendingLedgerProofs`, `LendingPoolProofs`, `VaultAndRouterProofs`, `BackendProofs`, `DappProofs` | theorems |

How state and actions correspond to the code:

- A handle is a record of its kind (`none` for bytes32(0), `zero` for the
  immutable `_ZERO`, `ct` for a result of the coprocessor) and the number under
  it. The kind matters because the code compares handles: `_verifyEquality`
  returns the result of a `select`, whose handle is not `_ZERO` even when its
  number is 0. `Modulus` stands for 2^128.
- `supplyBalances`, `borrowBalances`, `totalPlainBorrow`, `liquidReserve`,
  `lastRevealTime`, `isComposer`, `oracle`, `weth` keep their names (the last
  three say whether they are set). `revealed` is the set of positions whose
  current handle `FHE.allowPublic` was called on. `bal` and `eth` are the
  environment: ERC-20 balances and the users' ether.
- One action is one successful transaction of one external function, with all
  the calls it makes; its guard is the conjunction of its `revert` conditions
  negated. Writing a position removes it from `revealed`, since the new handle
  is a different one.
- The paragraphs that several functions share (`ReleaseReserve`, `LendReserve`,
  `CreditSupply`, `BorrowAgainst` and so on) are operators; each is a paragraph
  of the function `PROJECT.json` names.
- A commit is kept under `<<sender, nonce>>`: the code hashes sender, block and
  nonce, and the nonce alone keeps them apart. `borrowParams` is a separate map,
  as in the code, because it may outlive its commit.

- The vault's five mappings by position id are one record, `position`; the
  encrypted half is by account and id, as in the code, since a top-up or a
  paused withdrawal may name another account than the beneficiary. An id is
  `<<beneficiary, nonce>>`. A call of the vault conjoins the registry's
  `IncrementTvl` or `DecrementTvl`: where the registry refuses, the whole call
  is refused. `granted` says whether the registry may read the reported amount.
- `intents` is a function on the open ids; `delete` removes one. A swap through
  Uniswap is one action, in which the tokens enter and leave the router.
- A call of the executor performs any number of the actions that are left: where
  the gas runs low is the caller's choice. An action is its type and its position;
  `performed` and `given` are history variables.
- In the back end, a handler is a record per call (`login[r]`, `poll[p]`,
  `read[r]`, `create[c]`) whose `step` names the statement it awaits; one action
  is the code from one `await` to the next, and a failed statement is another
  disjunct of it. What the code checked before an `await` is kept in the record,
  so that a check made on an older row is acted on as the code does.
- `EventIndexer` counts copies of a stored event (0, 1, or more), since rows are
  inserted without a unique key. `saved` is the checkpoint in the database,
  `last` the one in memory; `unpromised` are the blocks whose insertion failed
  with a logged error and whose checkpoint moves on all the same. The list and the
  look-up by id are modelled; pages and filters are not, since their order and their
  matches are not determined (section 4).
- `MigrationRunner` keeps of a SQL file what it creates and refers to. `legacy`
  is the database the runner finds, a fresh one included. A select that fails is
  not an exit: the run goes on as if nothing had been applied.
- `AiStrategyBuilder` keeps of an amount what the validation's comparisons tell
  apart (`Amounts`), and beside a plan what was written before a swap was put in
  front. `StrategySimulation` carries the amount as an exact fraction `num / den`,
  with whatever ratio, slippage and amount the request names; `mixed` records that
  a token was seen at two prices.
- `DeployScript` counts lines: an action is a line of the script that changes the
  chain, the record or the environment file, and a kill may come between any
  two. A contract is its name and the run that created it; `links` are the calls
  that tell one contract of another.
- In the browser, `authEnabled` and `filled` are the bus's gate and the keys that
  hold a value, `timers` and `flights` the fetcher's intervals and requests under
  way (`serial` tells two intervals of one source apart, since the code keeps
  one handle per source and loses the other), `flow[f]` the prompt a connect
  waits for.
- `LendingScreen` and `StrategyDeploy` keep, per click, the values its closure
  captured; `crStep`, `commitId` and `deployResult` are what the screen shows. A
  lending panel goes with the route or with the list of markets; `stranded` are the
  clicks whose panel went while their handler may still run, `turned` those after
  which the tab was changed.
  A deployment's handler also keeps the places of its plan that are still to do and
  those it found short of allowance. How a contract call may end for its caller is
  `ContractClient`: a status, or a
  throw, and whether the transaction may still be mined after a throw.
- `PositionReader` takes a reading as the plaintext of a balance of the contract
  that asks, Multicall3, or `Unread`; `Scale` is the 10^18 every plaintext is
  divided by. `NetValue` is in hundredths, as the two digits that are left of it.
  `lastRead` keeps what the last answer's readings add up to.
- `BuilderWorkspace` has one action per edit, including the effect that follows
  the render (`history` is pushed there, not in the edit). `keysWrite` is the
  draft the keyboard handler's closure writes to.
- `StrategyGraph` and `DisplayValues` are the builder's and the transformers'
  functions as operators over sequences of nodes, edges and items.

What is abstracted, and why it does not matter to the properties:

- `nonReentrant` makes a flash loan one step. What the borrower may do in the
  callback without the guard (reveals, token transfers, owner calls) commutes
  with the loan.
- The oracle's answers are inputs of the calls that read them, so any sequence
  of prices is covered; the rounding inside `convertToUsd` is left out.
- A decryption proof is the number under the handle stored now, and exists once
  the handle is public: the bridge obtains proofs with
  `decryptForTx().withoutPermit()` (`src/packages/forge-bridge/src/fhe.js`).
  `_ZERO` counts as public, since every empty position shares it.
- Every coprocessor operation returns a handle nobody has made public
  (`src/docs/adr/ADR-002-cofhe-encryption-model.md`: operations produce new
  handles).
- Tokens are standard ERC-20s without transfer fees; allowances are taken to
  suffice. `weth` is one token that is set or not.
- An encrypted input holds either the claimed number or another one; that is all
  `_verifyEquality` distinguishes. The composer passes on what its own
  `_verifyEquality` returned.
- Read access (`FHE.allow`, `allowSender`), events, and the ownership transfer
  are left out; an owner call may happen at any moment.
- `block.number` and `block.timestamp` are one clock: the vault reads the first
  for its one-block rule, the rotation the second, and no property compares
  them.
- A strategy's name, hash and figures are one token of identity. The total of a
  strategy is kept by number and never reset by another contract's call; the
  registry's other vault, once rotated in, is not modelled as a caller.
- Nobody sends plain tokens to the vault or the router. A surplus of that kind
  would turn the equalities of `DepositsAreHeld` and `EscrowIsKept` into lower
  bounds and disturbs nothing else, since neither contract reads its own balance.
- A signature is the wallet it recovers to; a nonce is a fresh number. Addresses
  have two spellings where the code looks them up without lower-casing them.
- Time in the back end and the browser is a clock of few ticks; a life, a timeout
  or a permit's duration is a number of them. Where two durations of the code are
  compared (a permit of 15 minutes, its renewal two minutes before, the notice
  after 14) the ticks keep their order.
- A database table is a set or a function; a statement is atomic. An answer's
  content is kept only as far as a property tells two of them apart (which
  account asked, when it was read, loaded or failed).
- Prices and amounts of the simulators are small integers and fractions; the
  order of a subtraction, a multiplication and a fallback is kept, rounding in
  floating point is not. In `DisplayValues` and `PositionReader` a percentage and a
  net value are whole numbers of hundredths, rounded half away from zero.
- Pixels, texts, styles and logging are left out. Of the canvas there remain the
  modes and timers: which gesture is under way, what is lit, which camera the
  view follows.

## 3. Runs

| Run | Instance | Question |
|---|---|---|
| `ledger` | 2 users, 2 tokens, amounts to 2; all pairs of handles over 8-value integers | what does the bookkeeping promise, and is the arithmetic it rests on exact or void? |
| `market` | 2 users, 2 tokens, 3-value integers | does every call of the pool keep it, with liquidations and loans across users? |
| `pool_ops` | 1 user, ether, all owner calls, plain transfers | and when pause, oracle, weth and composer change under it? |
| `commit_reveal` | 2 users, 2 commits each, 3 moments | does each commit pay once, its number, in time, whoever executes it? |
| `vault_and_router` | vault: 2 accounts, 2 strategies, 2 positions, 8-value integers; router: 3 intents, 2 executors, 4 moments; executor: 2 callers, 3 pipelines | do positions, id lists and totals stay together while the registry changes under them; is every escrow paid once, to the right side, in time; does a pipeline run each action once? |
| `backend` | each service in an instance of its own | do interleaved calls, failed statements, crashes and slow reads leave tables, caches and the chain consistent, and does every event settle? |
| `dapp` | each part in a scenario of its own | do late answers, refused prompts, account changes, timers and second clicks leave the screens truthful; do requests and connects end? |
| `mismatch`, `liquidation_health`, `seizure_bonus` | `market` with more tokens | three statements of the documents the pool does not meet |
| `one_off_sources` | the fetcher with the code's own sources and slots | is what signing in should ask once asked at all? |
| `stale_keyboard` | two drafts of the builder | do the keys edit the draft that is open? |

What the properties of each run say (each is stated where it is defined):

- `ledger`, `market`, `pool_ops`: payouts keep the cover, positions are paid for,
  reserves are backed, a seizure needs a reveal, a paused pool pays only exits,
  and the pool implements `LendingLedger`. `commit_reveal`: a commit pays once,
  stale terms never come back, spending moves the commitment.
- `vault_and_router`: `DepositsAreHeld`, `ListsMatchPositions`,
  `TvlCoversPositions` relate three contracts' books; `EscrowIsKept` includes
  that an open intent can be taken back at any moment (`Refundable`: nothing in
  `cancelIntent` refuses the user who submitted it); `IntentsSettleOnTheirTerms`
  and `RotationWaitsItsDelay` are about what a step may never do;
  `PipelinesRunInOrder` that a pipeline that is stopped and resumed performs each
  position once and in turn.
- `backend`: `LoginsAreGenuine` (logins that interleave);
  `CheckpointSkipsNothing`, `EventsSettle`, `StoredEventsAreFound` (polls that
  overlap and crash; the last says that each event of the list opens by its own
  id); `RecentVotersCountOnce`; `RegisteredMigrationsExist` (over fresh and older
  databases); `AnswersAreRecent`; `ListedVersionsExist`;
  `PlansStartWithTheUsersToken` (and the swap in front does not change the
  verdict); `RoundTripsNeverGain`; `DeploymentIsWhole`.
- `dapp`: `SignedOutShowsNothing`, `PollingFollowsTheSession`, `ConnectGivesWay`
  (bus, fetcher and connect flow together); `SessionFollowsAccount`;
  `RequestsSettle`; `DialogWaitsForAFlow`; `PortfolioIsLastRead` (net value and
  gauge are those of one reading, the last one, as far as two digits say);
  `DoneWasExecuted` (what the panel calls complete was executed, on that panel and
  under that name); `UndoLosesNothing`; `SimulationEnds`; `DeployToastIsHonest`,
  which speaks of canvases with a single module: of a composer plan the code looks
  at no status, so nothing can be promised of it.
  Before the run TLC evaluates twelve assumptions that check pure functions
  against what they are for, over all small inputs: the builder's walk, cycle
  search, grouping, layout and merging on every graph of three nodes and at most
  four edges (`WalkVisitsAll`, `CyclesAreFound`, `GroupsAreComponents`,
  `LayoutKeepsNodesApart`, `MergeIsClean`), the contract client's reading of
  errors and logs (`ClientReadsAnswers`), and the transformers (`RatesAreRead`,
  `TotalsAddUp`, `EveryActionIsOffered`, `ProposalsAreListed`, `StatusIsSaid`,
  `ControlsStayInRange`).

Properties that hold only with an exception state the exception, and the
exception is behaviour of the code: `LoginsAreGenuine` lets two logins
that both read a nonce before either deletes it share it;
`CheckpointSkipsNothing` lets go of events whose insertion failed;
`StoredEventsAreFound` of events that a second poll stored twice;
`RegisteredMigrationsExist` of 001, which the base file registers without running
it; `RoundTripsNeverGain` of requests that ask for a gain and of prices that
changed on the way; `DoneWasExecuted` of the name of the action once the tab was
changed, and of handlers whose panel is gone;
`SessionFollowsAccount` of a login signed before the account changed and of a
failed logout.

### Bounds

Each bound is a constant and is named in the guard it cuts.

Lending core: `MaxTime`, `MaxLent`, `MaxAmount`, `MaxCommits`, `MaxQuantity`.
Basis points are scaled to a denominator of 4 (fee 2, bonus 1, close factor 2),
so that rounding down and the half-debt limit happen at amounts of 1 and 2.
`Modulus = 3` lets two deposits wrap around. Two users are enough for every
property here: each relates one user's position to the totals, or an actor to an
owner. Two tokens are what a liquidation needs. In `market` the clock stands
still, since its properties do not depend on it; `pool_ops` and `commit_reveal`
move it past the cooldown and the deadline. `MCLendingCommitReveal` adds a
history variable that counts movements of the reserve.

Vault and router: `MaxStrategies`, `MaxPositions`, `MaxTime`, `MaxEncrypted`,
`MaxIntents`, `MaxRouterTime`, `MaxPerformed`. Vault, router and executor share no
state and are explored one at a time. The two positions belong to one beneficiary, so that one moves
into the other's place in the list, while either account may open, top up and
close them. An encrypted input of the vault is 0 or the plaintext amount, which
is all a caller's `_verifyEquality` yields. The owner's calls are explored in two
scenarios, since they multiply: either strategies are registered, received,
replaced and switched, or the registry is paused and its vault set and rotated.
Two intents of one user and one of the other suffice for cancel, fill and expiry
in every order, and the moments for a deadline, the delay of a rotation and what
lies behind each. `proposedAt` is a history variable: when each executor was last
proposed.

The ledger runs and the vault start in one of two populations: clients whose
encrypted amounts are always booked in full, for which
`FullBookingKeepsSolvency` and `TvlCoversPositions` hold, and arbitrary clients,
for which they do not and the remaining properties do.

Back end. `MCBackend` moves one service at a time, since they share no state
(activities are the indexer's). `Requests`, `Polls`, `DataReads`, `CreateCalls`
are the calls that may be under way together, two each, which is what an
interleaving takes; `MaxAuthFaults`, `MaxIndexFaults`, `MaxCatalogFaults`,
`MaxCrashes` count failed statements and crashes; `MaxHead = 3` with
`BatchBlocks = 1` and `Retention = 1` makes polls of several batches and a start
behind the retention; `MaxStarts = 2` is one restart; `RecentVotes = 1` stands
for 20, so that a voter can return behind another within `MaxVotes`;
`MaxNonces`, `MaxAuthTime`, `MaxVoteTime`, `MaxDataTime`, `MaxSimTime` bound
clocks and counters past the lives they are compared with (`NonceLife`,
`SessionLife`, `CacheLife`, `ReadyLife`, `ReadLimit`, `PriceLife`);
`MaxRequests`, `MaxRuns`, `EnvTokens`, `VerifyCases` bound the AI builder and the
deploy script, whose first run can be killed anywhere before the second. The
simulator counts in `Unit = 100` with `Fee = 1` and `DefaultRatio = 70`; its plans
name a ratio of 150, no ratio and a token that is missing, and a request a slippage
of 120 or a negative amount. The migrations start from every database that is
closed under the files' foreign keys.

Dapp. The parts run one at a time, but the session's three modules, which share
their state, run together; those too large for one instance have several
scenarios, each of which fixes what the others leave free (`MCDapp` says which).
Two connect flows, four requests of which three need the session and two share a
cache key, `CacheSize = 1`, two clicks (`Clicks`, `Deploys`), one login and two
accounts, `MaxLogouts = 2`, `MaxGrants = 2`, two drafts, three node ids,
`MaxHistory = 2` for 50, `MaxIdleNodes = 1` for 10, zoom levels 1 to 3,
`MaxConcurrent = 2` slots in `dapp` and the code's 3 in `one_off_sources`,
`MaxTimers = 2` intervals of one source, `MaxDrips`, `MaxMarks`, `MaxDepth`,
`Community`, `Looks`, `Canvases`, `Templates`, `AiPlans`. A permit lives
`PermitSeconds = 4` ticks, is renewed at `RenewAt = 2` before its end and noticed
at `TweakSeconds = 3`. `MaxErrors = 0` keeps no error log: its length is checked
by nothing. Two tokens are read as `Unread`, 0 or 1504 of the smallest unit, of
which `Scale = 1000` make one: a net value that is rounded, debts that exceed the
supply, and nothing supplied are among the sums.

Deadlock is checked in the contract runs: every state there has a call that
succeeds. In `backend`, `dapp` and the two runs with
`MCEditorAndFetcher` it is not, since a bounded instance really stops: all calls
answered, the permit expired, the nodes used up.

### Fairness

No contract must make progress on its own: a transaction happens when somebody
sends it, and these specifications state no fairness. Two parts have liveness:

- `IndexFairness`: the interval timer fires while the service runs, and each
  awaited call of a poll returns, with an answer or an error. `EventsSettle` then
  says that if the service stays up from some moment on, every event gets into
  the table or is given up. Nothing forces a start, a block or the absence of
  crashes.
- `ConnectFairness` and `ApiFairness`: each prompt and each request is eventually
  answered. For requests and renewals the code has timeouts, and a permit has its
  own timer; that the wallet answers a prompt is an assumption about the user,
  and the weakest under which `ConnectGivesWay` can hold, since the code waits
  for the wallet without a limit.

## 4. Findings

- `mismatch`: a withdrawal whose encrypted amount is not the plaintext one pays
  out the plaintext amount and debits 0. The changelog and the formal
  specification document say such a call moves no tokens.
- `liquidation_health`: a position that `isLiquidatable` calls healthy can be
  liquidated, since the only check is on the position after the repayment.
- `seizure_bonus`: with unequal prices the collateral seized is worth more than
  the debt repaid and the bonus, since the price ratio is inverted.
- `one_off_sources`: signing in starts three polled sources, whose first requests
  take the three slots there are; the five sources without a timer, asked for in
  the same turn right after them, are dropped and stay unasked until the user
  navigates (`data-fetcher-v2.js:221-253` and `:470`). The trace is the sign-in
  alone, with no other request under way: it happens every time.
- `stale_keyboard`: the builder's keyboard handler keeps the setters of the draft
  the editor was mounted with, and edits that draft when another is open
  (`builder-workspace.jsx:545` and `:745`).

The first one is why `LendingLedger` lets the encrypted side book less than was
transferred, and why solvency towards the encrypted claims is a property of
fully booked movements only.

Observed while modelling, in code no run contradicts a document about. Contracts:

- `receiveCrossChainStrategy` takes the number `strategyCount` before raising it
  (`StrategyRegistry.sol:253`), while registration raises first: a received
  strategy replaces the one registered last, whose total and positions it takes
  over, and the slot the count now includes stays empty and inactive. In an
  empty registry it lands in slot 0, which no call accepts and whose hash entry
  does not mark it as taken.
- `withdrawPaused` pays its caller and erases the caller's encrypted half; the
  beneficiary's half and the id in the list stay (`StrategyVault.sol:224-239`).
- `addCollateral` grants the registry access to the updated collateral but
  reports the added amount (`StrategyVault.sol:150-153`), which the registry
  checks access to (`StrategyRegistry.sol:166`). The composer and the executor
  grant that amount to the vault only, so a top-up of a position with a strategy
  through them is refused unless the same handle was reported before.
- The registry refuses an inactive strategy in both directions, so positions of
  a strategy that was switched off stay closed in until it is switched on again.
- A pause of the router also stops the rotation of its executor.
- ADR-003 (line 66) saves the index behind the action that was not performed any
  more; the code saves the action's own, which is why none is skipped. What a
  borrow or a swap pays to `StrategyExecutor` stays there until its owner
  sweeps it, and nobody can cancel an intent it or the composer submitted. In the
  composer, `poolSupplyAmount` is what collateral and supply need together, since
  the pool receives what exceeds the collateral.

Back end and scripts:

- Creating a strategy writes `''` into `current_version_id`, a UUID column
  (`src/backend/apps/migrations/004_full_schema.sql:88`): on a migrated database
  every creation fails.
- A fresh database stops the migrations: `000_base` registers 001 without running
  it, and 002 refers to tables of 004. When the select of what was applied fails,
  its error is not looked at (`run-migration.js:108`): every file runs again, from
  001 on, until the first row that is there already ends the run.
- The activities' user filter never matches, since the data are stored as a JSON
  string (`activity.repository.impl.ts:46`); an event stored twice is found by
  neither copy's id. Lists and pages are ordered by a timestamp that all rows of
  one poll share (`activity.repository.impl.ts:27`, `event-indexer.service.ts:178`),
  so a page may repeat or miss rows of the page before.
- A list of tokens that timed out is cached as empty for its whole life, and a
  single token that timed out is left out of the total value without a sign.
- A user is a row per spelling of the address, while nonces are lower-cased.
- The AI builder accepts an answer of which nothing is executable as an empty,
  valid plan, replaces every step's token by the user's in a template, and passes
  the model's risk figures on unchecked. A plan with errors is delivered with
  status 201, where the controller announces 400 for "strategy validation failed"
  (`ai-strategy-builder.controller.ts:32`); in a template a small amount leaves
  outputs of 0, which are such errors. The bodies' classes are imported as types,
  which validation cannot see: amounts, slippage and ratios of a simulation reach
  it as they were sent (`defi_strategies.controller.ts:7`,
  `borrow-simulator.ts:54`), and a ratio above 0.8, or above 1, is only warned of.
  The simulation's total fee adds amounts of different tokens.
- The deploy script looks verified contracts up by address in a table keyed by
  name; it never hands the contracts to the timelock; it writes the record in
  place, so that a killed write leaves text the next run cannot parse; the record
  and the environment file may differ after a kill; a failure while it collects
  the build information ends it before the record is saved. The faucet script
  names the registry and the oracle by fixed addresses.

Dapp:

- One position that cannot be decrypted removes all of them: it becomes null and
  the filter reads its `plaintext`, against the comment in
  `shared-utils.js:35-36`. Markets arrive as `{status, data}`, so decimals fall
  back to 18: half a million of a token with 6 decimals shows as 0.00.
- The balances of the portfolio are read through Multicall3 (`contract.js:767`),
  while the pool answers with the balance of `msg.sender` (`LendingPool.sol:812`):
  they are Multicall3's balances, not the account's, and their handles may not
  decrypt for the account.
- An answer asked for in an earlier session may fill the next one.
- The lending panel names the tab that is chosen now beside "Confirmed"
  (`lending.jsx:688`): after a supply and a change of tab it says that what was
  never done is complete. An allowance that cannot be read leaves an earlier
  "Confirmed" (`lending.jsx:430`), which is then of the action before. Leaving the
  screen and coming back enables the button while the first action still runs.
- `handleDisconnect` reaches itself through the event it emits until the stack
  overflows, which `_emit` catches. A connect reports the chain from before the
  switch, so the wrong-network notice stays; nothing reports a later change.
- A logout sent for the old account may end the session of the new one, and a
  login under way while the account changes may leave the old account's session.
  A permit that arrives after its flow failed unlocks the adapter; the bus, the
  adapter and the shell each keep their own idea of it, and none of the
  listeners hears of its expiry.
- The API cache's keys name neither account nor parameters, and signing out does
  not clear it. Polling hidden and started again keeps two timers of one source.
  Demo data and answers still under way overwrite each other.
- "Failed" is shown for a transaction that may still be mined; the timer that
  takes an old result away also takes a newer one.
- The connect dialog calls `bus.off`, which does not exist: each finished flow
  ends in the error branch, its listeners stay, and a flow that ends while the
  dialog is closed opens it again with an error. `ctx.permitUnlocked` is never
  set, so the screens that ask for it stay locked.
- The dashboard spreads an item over its kind, so an activity's detail is never
  shown. A grant under way during a disconnect leaves the shell unlocked.
- The builder's drafts share one history. Merging three swaps in a row, or
  linking from a node that was deleted meanwhile, leaves an edge to nowhere, on
  which `groupSubgraphs` throws and a deployment of several nodes fails. An AI
  answer overwrites what was edited while it was awaited. The walk called
  topological is breadth-first.
- Deploying through the composer sends vault nodes and all but the first supply,
  borrow and swap nowhere, and is one transaction per subgraph, which a retry
  repeats; a reverted one counts as confirmed. Leaving the screen and coming
  back enables Deploy while the first click's handler still runs.
- Moving a node by the arrow keys also moves the selection in the list beside
  it, so that a nudge can open another draft. After ten nodes the highlight of a
  new one stays.
- The two tables of decimals differ for BTC; a debt without a supply shows a
  loan-to-value of 0; a module named like another action's node is overwritten.

## 5. Proofs

Every invariant and action property of the passing runs is a theorem. The
theorems hold for every value of the constants, so also for every value of the
bounds in the guards; what TLC adds is that the cases they speak of happen, and
what remains below.

Assumptions. Each is named and stands in the module that declares its constants,
and TLC evaluates it in a passing run. Those of the contracts
(`ModulusAssumption`, `LedgerAssumption`, `PoolAssumption`, `CommitAssumption`,
`ClaimAssumption`, `RegistryAssumption`, `VaultAssumption`, `RotationAssumption`,
`RouterAssumption`, `ExecutorAssumption`) say that amounts are numbers that fit a
handle, that a contract is not one of its users, that it starts without tokens,
and that the fees are fractions. `EncryptedFits` says that the totals of fully
booked clients stay below the modulus, as 18-decimal amounts do below 2^128.
Those of the back end and the dapp (`AuthAssumption`, `IndexerAssumption`,
`GovernanceAssumption`, `MarketsAssumption`, `RunnerAssumption`,
`CatalogAssumption`, `DeployAssumption`, `ShellAssumption`, `WalletAssumption`,
`FetcherAssumption`, `CanvasAssumption`) say that lives, limits and bounds are
numbers, and two more: a draft's possible nodes are finitely many, and no token
of the faucet is called like the timelock. `SimulationAssumption`, `AiAssumption`
and `ReadingAssumption` say that workflows and the model's plans are finite
sequences, of any length, of legs and of steps; that the lendable tokens are a
sequence; that prices and plaintexts are numbers; that the fee of a swap and the
default ratio of a borrow are parts of one; and that the scale is not zero. Nothing
is assumed of the ratios, slippages and amounts of a request.

The induction is the same everywhere: an inductive invariant, one step per
action, one temporal step at the end. What the invariants add:

- `FHESafeMath128Proofs`: `x % Modulus` on the ranges the operations reach, then
  `TryIncreaseExact` and `TryDecreaseExact` by cases on which handle is
  initialised, then the bounds the pool needs (`SafeUpdatesBounded`,
  `VerifyEqualityBounded`). `MCLendingLedgerProofs` states them about every pair
  of handles and joins them in `MathSound`, which is what `ledger` checks.
- `LendingLedgerProofs`: `TypeOK /\ ReserveBacked`. `ReserveBacked` alone is not
  inductive, since it needs the quantities to be numbers, and `TypeOK` alone is
  not, since only the backing shows that a payout leaves the cash non-negative.
  The action properties follow from a lemma each about one step (`LoanStep`,
  `PayoutStep`, `PaidStep`).
- `MCLendingLedgerProofs`: `SolvencyInv` adds that while movements are fully
  booked, the claims of each token's users are covered.
- `LendingPoolProofs`, for the pool and for the pool with two-step calls.
  `Refines` says of a step that it keeps `TypeOK` and is a movement of the ledger
  or leaves it alone; the lemmas go from the blocks that functions share to the
  four kinds of calls, to one lemma per function, to `PoolStep`. `TypeOK` is
  needed beside the ledger's invariant, since a step is a ledger movement only in
  well-typed states. For the two-step calls `CRInv` adds `IdsAreIssued`: a live
  commit and its terms carry an id below the nonce, so that no later commit gets
  that id and no terms come back. `CountInv` adds that the ids ever issued are as
  many as the live commits and the movements of the reserve together.
- `VaultAndRouterProofs`: `VaultInv` is the types, the open positions
  (`OpenOnes`), the lists (`Lists`) and the deposits (`Held`). The lists are the
  hard part: swap-and-pop keeps a list injective with one id less only because an
  open position's id is in it, and top-ups keep it because a closed position's
  record is cleared. `TvlInv` adds that a fully booked client's encrypted half
  covers the plain one, by strategy (`Covering`), and that no total wraps
  (`Encrypted`). `RotationInv` says when a pending role was proposed. `RouterInv`
  says that the router holds exactly the escrow of the open intents. `ExecInv`
  says of each pipeline that what was performed is the positions up to the
  checkpoint, in order, a round of a finished pipeline being told from the next by
  a remainder (`RoundContinues`, `RoundEnds`).
- `BackendProofs`. `AuthInv`: a nonce is in one row at most, an accepted call is
  signed by its own wallet, and while no statement has failed, a call past the
  deletion of its nonce's row has left no such row. `IndexInv`: each poll under
  way has nothing unsettled before its range, however many overlap; `OnceInv` adds
  that without overlap polls continue one another and store each event once, so
  that one row answers to an id (`OneRowIsFound`). `CatalogInv`: per call, which
  of its own rows exist. `MigInv`: what is registered exists, but for 001, and is
  registered in order; what a run takes for applied is registered, also when it
  read nothing. `GovInv`: recent votes are of different voters and the tally is
  their sum. `MktInv`: an answer's expiry lies within the sum of its caches'
  lives. `ScriptInv`: each line the run has passed has left its links (`Done`),
  whole files stay whole because nothing but a timelock's administrator is ever
  taken off the chain (`LinksStay`), and every timelock is the deployer's or
  handed over (`TimelocksInCharge`). `ScriptReads` derives the 34 lines of
  `Script`. `AiInv`: how many calls are left while the model is asked, and of a
  plan that is made that its steps are of known types, that it opens as it should
  (`Begins`), and that all its steps are right exactly if those are that were
  written; of `KnownTypes` it takes that what it leaves is of known types,
  whatever the model wrote. `SimInv`: as long as the request is careful
  (`Careful`) and every token was seen at one price, each trade so far of a chain
  has left at most what the first token was worth when it was given, at the prices
  of the first and of the last trade (`NoGain`); a chain that returns has the same
  price at both ends.
- `DappProofs`. `SessionInv`: authenticated polling runs only while the bus is
  open to it. `DialogInv`: a dialog in a phase has a flow of its own. `WalletInv`:
  a login that was not overtaken by an account change signs for the account at
  hand. `LendInv`: of the handlers of the panel that is there one is live, the step shown
  is its own (`OneLive`, `StepShown`), and its name is the tab's unless that was
  turned (`SideShown`); handlers of panels that went may do what they like. `RunInv`:
  each run of the canvas ends with the timer that ends it. `DeployInv`: every
  place of the plan behind a running handler is on the chain. `BuilderInv`: the last
  snapshot is the draft that is open, which is why an edit of another one pushes
  nothing; `TimelineUndo` and `TimelineRedo` are the two facts about sequences.
  `PortfolioInv` is the property with the fields of the record; what it needs is
  `AnswerAddsUpWhatWasRead`: the pairs of calls come back in pairs
  (`AnswersAreReadings`), what the two filters drop is worth nothing
  (`SumOfKept`, `ShownAddsUp`), and the totals of the joined list are the sums of
  its sides (`TotalsOfItems`); and that the rounding is to the nearest, below zero
  too (`RoundedIsNear`, `NearOpposite`), and the gauge full once the debt exceeds
  the supply (`MoreDebtFills`).
- `BackendKeepsItsPromises` and `DappKeepsItsPromises` carry these to the
  instances TLC explores: a step of `MCNext` is a step of one part and leaves the
  variables of the others alone.

Three choices of the models serve the proofs. A sum over a set is the cardinality
of the set of its units (`Deposited`, `Escrow`, `Booked`, `Ballots`), which needs
no induction; TLC computes the same numbers. A search, a filter or a fold that a
proof looks into is a recursive function, not a `RECURSIVE` operator nor one of
the library's. And a record that is updated twice at the same place in one step is
updated once, in nested form.

Induction over data. What a recursive function computes is proved with
`Induction`, where the library's theorem takes a predicate: a set that holds 0 and
every successor holds all numbers, since the smallest one outside it
(`Minimum`, from the well-founded order of the library) would have a predecessor.
A recursive function is first shown to exist up to each number (`SumGoesOn`,
`KeepingGoesOn`), hence to be what its definition says (`SumsAre`, `KeptIsKept`).
`BackendProofs` uses this for the plans, `DappProofs` for the portfolio.

Only model-checked:

- Liveness: `EventsSettle`, `ConnectGivesWay`, `RequestsSettle`.
- The assumptions of `MCDapp` about pure functions, for all small inputs.

The properties of the runs that expect a violation are refuted, not proved.

## 6. What is not modelled, and the plan

Not modelled:

- `FheForgeComposer`: its calls into pool, vault and router are actions of those
  contracts' modules, but its own sequencing of them is not composed. Neither are
  the effects of a pipeline's actions with `StrategyExecutor`.
- `PriceOracle` and `TokenRegistry`: their answers are inputs of the modules that
  read them, in any sequence.
- Governor, timelock and votes: wrappers of OpenZeppelin's contracts. Who holds
  the timelock's roles is in `DeployScript`.
- Users, tokens and lending views of the back end: single statements.
- Drawing, layout, texts; the compiler's ABIs, sample data, the build plugin,
  test scripts, and `forge-std`.
- Floating-point rounding, and the language model's text.

Next:

1. Proofs: `WalkOrder`, `CycleNodes` and the other pure functions of the editor,
   which `MCDapp` evaluates on small graphs, by `Induction`; the types of the back
   end's modules as theorems of their own.
2. `FheForgeComposer` and the actions of `StrategyExecutor` over vault, pool and
   router.
3. `PriceOracle` and `TokenRegistry` as operators and a small state machine.
