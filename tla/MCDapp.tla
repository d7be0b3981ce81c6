------------------------------- MODULE MCDapp -------------------------------
(***************************************************************************)
(* The browser side for TLC: the session (bus, fetcher and connect flow,   *)
(* which share their state), the wallet adapter, the API client, the       *)
(* application around the screens, the lending screen, the reading of      *)
(* positions, the strategy editor, its view and its Deploy button.  A      *)
(* behaviour moves one of these; those too large for one instance have     *)
(* several scenarios, each of which fixes what the others leave free.      *)
(***************************************************************************)
EXTENDS ConnectFlow, WalletAdapter, PositionReader, ApiClient, AppShell, LendingScreen,
        BuilderWorkspace, CanvasView, StrategyDeploy, DisplayValues

VARIABLE scenario

CONSTANTS f1, r1, r2, r3, r4, key1, key2, eth

\* session: polled and signed in and out, on the right chain.
\* polling: one flow whose permit and account do not change by themselves.
\* connect: both flows, any chain, before the first answers arrive.
\* shell, dialog, panels: App's own state, its dialog, and the panels that write.
\* history, editing: undo over two drafts; the canvas.
\* simulate, gestures: the runs and the camera; all else the canvas shows.
Scenarios == {"session", "polling", "connect", "wallet", "requests", "shell", "dialog",
              "panels", "lending", "portfolio", "history", "editing", "simulate", "gestures",
              "deploy"}
SessionScenarios == {"session", "polling", "connect"}

MCPublicOnce == <<"readiness">>
MCPublicPolled == <<"markets">>
MCPublicLast == <<>>
MCAuthedPolled == <<"positions">>
MCAuthedOnce == <<"strategies">>
MCBatches == {<<"positions", "error">>}

MCKeyOf(c) == CASE c = r3 -> NoKey [] c = r2 -> key1 [] OTHER -> key2

MCTargets ==
    { [known |-> TRUE, amount |-> 1, handle |-> TRUE],
      [known |-> TRUE, amount |-> 0, handle |-> TRUE],
      [known |-> FALSE, amount |-> 0, handle |-> TRUE] }

MCTokens == <<eth, "usdc">>
MCReadings == {Unread, 0, 1504}

MCTypeOf(n) ==
    CASE n \in {"n1", "n2"} -> "swap" [] n = "n3" -> "settle"
      [] n = "supply" -> "supply" [] n = "borrow" -> "borrow" [] n = "vault" -> "vault"

MCTemplates == { [types |-> <<>>, links |-> <<>>],
                 [types |-> <<"swap", "swap">>, links |-> <<<<1, 2>>>>] }
MCAiPlans == {<<>>, <<"claim", "swap">>}

MCCanvases ==
    { [nodes |-> <<"supply", "n3">>, edges |-> <<<<"supply", "n3">>>>],
      [nodes |-> <<"vault">>, edges |-> <<>>],
      [nodes |-> <<"supply", "borrow">>, edges |-> <<<<"borrow", "n1">>>>],
      [nodes |-> <<"supply", "n1">>, edges |-> <<>>] }

-----------------------------------------------------------------------------
\* The editor's pure functions against what they are for, on every graph of three
\* nodes and at most four edges.
ThreeNodes == <<"n1", "n2", "n3">>
SmallGraphs ==
    LET ns == ToSet(ThreeNodes)
    IN  {SetToSeq(es) : es \in {s \in SUBSET (ns \X ns) : Cardinality(s) <= 4}}

Closed(edges, ns) ==
    \A i \in DOMAIN edges : edges[i][1] \in ns <=> edges[i][2] \in ns
Cyclic(edges) ==
    \E ns \in SUBSET ToSet(ThreeNodes) \ {{}} :
        \A n \in ns : \E m \in ns : <<n, m>> \in ToSet(edges)

\* walkOrder visits every node once, and no node that has a way from a root
\* before one of its predecessors.
ASSUME WalkVisitsAll ==
    \A edges \in SmallGraphs :
        LET order == WalkOrder(ThreeNodes, edges)
        IN  /\ Len(order) = 3 /\ ToSet(order) = ToSet(ThreeNodes)
            /\ ~Cyclic(edges) => \A i \in 1 .. 3 :
                  HasEdgeTo(edges, order[i]) =>
                      \E j \in 1 .. i - 1 : <<order[j], order[i]>> \in ToSet(edges)

\* detectIssues finds a cycle exactly when there is one.
ASSUME CyclesAreFound ==
    \A edges \in SmallGraphs : CycleNodes(ThreeNodes, edges) # {} <=> Cyclic(edges)

\* groupSubgraphs: the smallest closed sets of nodes, each node in one of them.
ASSUME GroupsAreComponents ==
    \A edges \in SmallGraphs :
        LET groups == GroupSubgraphs(ThreeNodes, edges)
        IN  /\ Len(FlattenSeq(groups)) = 3 /\ ToSet(FlattenSeq(groups)) = ToSet(ThreeNodes)
            /\ \A i \in DOMAIN groups :
                  /\ Closed(edges, ToSet(groups[i]))
                  /\ \A ns \in SUBSET ToSet(groups[i]) \ {{}, ToSet(groups[i])} :
                        ~Closed(edges, ns)

\* organizeLayout puts no two nodes into one place.
ASSUME LayoutKeepsNodesApart ==
    \A edges \in SmallGraphs :
        LET place == OrganizeLayout(ThreeNodes, edges)
        IN  \A n, m \in ToSet(ThreeNodes) : place[n] = place[m] => n = m

\* Merging one pair of swaps leaves no edge to the node that is gone and no pair.
ASSUME MergeIsClean ==
    \A edges \in SmallGraphs :
        LET merged == MergeSwaps(ThreeNodes, edges)
        IN  ~Cyclic(edges) => /\ ~Dangles(merged.nodes, merged.edges)
                              /\ SwapPairs(merged.nodes, merged.edges) = <<>>

\* The first reason of the table that a message names decides, and the last log
\* with a fourth topic names the commitment.
ASSUME ClientReadsAnswers ==
    /\ \A message \in Messages :
          "revert reason" \in message => MapContractError(message) = "table code"
    /\ ExtractCommitId(<<<<1, 2, 3, "a">>, <<1>>, <<1, 2, 3, "b">>, <<1, 2>>>>) = "b"
    /\ ExtractCommitId(<<<<1, 2>>>>) = ""

\* t is s in another order.
Permutes(s, t) ==
    /\ Len(s) = Len(t)
    /\ \A x \in ToSet(s) : Cardinality({i \in DOMAIN s : s[i] = x})
                           = Cardinality({i \in DOMAIN t : t[i] = x})

\* What a share or a percentage becomes is the same in a rate and in a percentage,
\* to half a percent, and a default that is named last is never shown.
ASSUME RatesAreRead ==
    /\ \A v \in 0 .. 300 :
          /\ FormatApy(<<v>>)[1] - FormatPercentValue(<<v>>) \in -50 .. 50
          /\ v <= One => FormatApy(<<v>>)[1] = 100 * v
    /\ LET silent == TransformMarket([asset |-> <<>>, supplyRate |-> <<5>>])
       IN  silent.asset = <<>> /\ silent.supplyApy = <<500>> /\ silent.util = 0

\* The totals of the positions that are shown are those of the lists they are made
\* of, and the gauge is empty or full only without debt, without a supply, or at
\* the very end of its scale.
ASSUME TotalsAddUp ==
    LET lists == SeqOf({[asset |-> <<"weth">>, amount |-> <<n>>] : n \in {0, 1, 250}}, 2)
        sum(items) == FoldLeft(LAMBDA n, item : n + item.amount[1], 0, items)
        markets == <<[symbol |-> <<"weth">>, supplyRate |-> <<4>>]>>
    IN  \A supplies, borrows \in lists :
          LET shown == TransformPositions(supplies, borrows, markets)
              ltv   == CalculateLTV(shown)
          IN  /\ CalculateNetValue(shown) = sum(supplies) - sum(borrows)
              /\ ltv \in 0 .. 100
              /\ ltv = 0 => sum(supplies) = 0 \/ 200 * sum(borrows) < sum(supplies)
              /\ ltv = 100 => 200 * sum(borrows) >= 199 * sum(supplies)
              /\ \A i \in DOMAIN shown :
                    shown[i].apy = IF shown[i].side = "supply" THEN <<400>> ELSE <<>>

\* Every action has a node type, unless a module of another action took its name.
ASSUME EveryActionIsOffered ==
    LET actions == ToSet(NodeActions)
        modules == [id : {"supply", "swap", "m1", "m2"}, action : {"supply", "swap", "other"}]
    IN  \A ms \in SeqOf(modules, 3) :
          (\A i \in DOMAIN ms : ms[i].id \in actions => ms[i].id = ms[i].action) =>
              LET types == TransformNodeTypes(ms)
              IN  {types[id] : id \in DOMAIN types} = actions

\* Each proposal is in one group, and the one that is open is of the list; a
\* time is told in the largest unit it fills.
ASSUME ProposalsAreListed ==
    /\ \A ps \in SeqOf([id : {1, 2}, status : {"active", "defeated", "expired"}], 3) :
          /\ Permutes(ps, FlattenSeq(ProposalGroups(ps)))
          /\ \A id \in 1 .. 3 : ToSet(SelectedProposal(ps, id)) \subseteq ToSet(ps)
          /\ ps # <<>> => SelectedProposal(ps, 3) = <<ps[1]>>
    /\ \A s \in UNION {{n - 1, n, n + 1} : n \in {1, 59, 60, 3599, 3600, 86399, 86400}} :
          LET size == [s |-> 1, m |-> 60, h |-> 3600, d |-> 86400]
              told == RelativeTime(s)
          IN  s \in told.n * size[told.unit] .. (told.n + 1) * size[told.unit] - 1
    /\ TimeLeft(<<90>>, 30) = <<[n |-> 0, unit |-> "s"]>>      \* still to come
    /\ \A total, quorum \in 0 .. 3 : QuorumPercent(total, quorum) \in 0 .. 100

\* A source that is ready has nothing to say and any other one something.  An
\* item's own kind hides the detail of its list; of two of one id the first is
\* shown.  A status is shown in the tone it is listed under, but for "atRisk".
ASSUME StatusIsSaid ==
    /\ \A words \in SUBSET {"registry", "rpc", "backend"}, ready \in BOOLEAN :
          LET errors == <<[source |-> "markets", words |-> words]>>
              entry  == <<[ready |-> ready, words |-> words]>>
          IN  /\ BridgeStatus("markets", entry, errors, "loading") = <<>> <=> ready
              /\ BridgeStatus("markets", <<>>, errors, "loading") # <<>>
              /\ ListShows("markets", <<<<1>>>>, entry, errors) = "items"
              /\ ListShows("markets", <<>>, entry, errors) = "nothing" <=> ready
    /\ LET item(id, kind) == [id |-> id, kind |-> kind]
           items == DashboardItems(<<item(1, <<>>)>>, <<item(1, <<>>)>>, <<item(2, <<"swap">>)>>)
       IN  /\ DetailOf(SelectedItem(items, 1)[1]) = "position"
           /\ DetailOf(SelectedItem(items, 2)[1]) = "none" /\ SelectedItem(items, 3) = <<>>
    /\ \A tone \in DOMAIN Tones : \A s \in Tones[tone] :
          StatusTone(s) = IF s = "atRisk" THEN "muted" ELSE tone
    /\ DemoCardRow(<<>>, "supply", FALSE, <<>>) = <<"wallet required">>
    /\ PositionSummary(<<>>, <<>>).supplied = "loading"

\* The two tables of decimals agree except on BTC; the controls stay in range.
ASSUME ControlsStayInRange ==
    /\ {asset \in DOMAIN TokenDecimalMap :
            DecimalForAsset({asset}) # TokenDecimalMap[asset]} = {"BTC"}
    /\ \A x \in -2 .. 12 :
          /\ SegAt(x, 9, 3) \in 0 .. 2
          /\ \A step \in 1 .. 3 : Scrub(4, x, step, 0, 8) \in 0 .. 8
          /\ \A size, window \in 0 .. 8 :
                LET at == ClampToViewport(x, size, window, 1)
                IN  at >= 1 /\ (size + 2 <= window => at + size + 1 <= window)
    /\ \A ltv \in 0 .. 120, liqAt \in {0, 65, 80} :
          LET gauge == LtvGauge(ltv, liqAt)
          IN  gauge.fill \in 0 .. 100 /\ (ltv >= liqAt => gauge.tone = "danger")
    /\ OpenMarket(<<"weth", "usdc">>, "wbtc") = <<"weth">>

-----------------------------------------------------------------------------
MCInit ==
    /\ scenario \in Scenarios
    /\ ConnectInit /\ WalletInit /\ PortfolioInit /\ ApiInit /\ AppInit /\ LendInit
    /\ BuilderInit /\ CanvasInit /\ DeployInit
    /\ scenario = "connect" \/ rightChain
    /\ scenario = "requests" \/ signedIn
    /\ scenario = "wallet" \/ cookie = SignedOut
    /\ scenario = "simulate" \/ placed = {}
    /\ scenario = "gestures" \/ rail.stored = "1"
    /\ scenario = "deploy" \/ canvas = CHOOSE c \in Canvases : TRUE

Rest(s) ==
    /\ scenario = s /\ UNCHANGED scenario
    /\ IF s \in SessionScenarios \cup {"portfolio"} THEN TRUE ELSE UNCHANGED busVars
    /\ IF s \in SessionScenarios THEN TRUE ELSE UNCHANGED <<fetchVars, connectVars>>
    /\ IF s = "portfolio" THEN TRUE ELSE UNCHANGED portfolioVars
    /\ IF s = "wallet" THEN TRUE ELSE UNCHANGED walletVars
    /\ IF s = "requests" THEN TRUE ELSE UNCHANGED apiVars
    /\ IF s \in {"shell", "dialog", "panels"} THEN TRUE ELSE UNCHANGED appVars
    /\ IF s = "lending" THEN TRUE ELSE UNCHANGED lendVars
    /\ IF s \in {"history", "editing"} THEN TRUE ELSE UNCHANGED builderVars
    /\ IF s \in {"simulate", "gestures"} THEN TRUE ELSE UNCHANGED canvasVars
    /\ IF s = "deploy" THEN TRUE ELSE UNCHANGED deployVars

Undisturbed == ~demoStarted' /\ ~hidden' /\ watching' /\ ~publicStarted'

Session ==
    /\ Undisturbed /\ rightChain' /\ errorCount' = 0
    /\ (granted => granted')
    /\ \A f \in flights' : f.timer = 0 => f.source = "strategies"

Polling ==
    /\ \A f \in Flows \ {f1} : flow'[f] = "idle"
    /\ flow[f1] # "idle" => ~hidden' /\ (fetchVars' = fetchVars \/ flow'[f1] = "idle")
    /\ flow'[f1] # "late" /\ (granted => granted') /\ logouts' = account' /\ rightChain'
    /\ (account => account') /\ (session => session' \/ Cardinality(flights') = 1)
    /\ demoStarted' => ~hidden' /\ ~account'
    /\ \A t \in timers' : t.serial = 2 => t.source = "positions"
    /\ account' => \A f \in flights' : f.timer = 0 => f.source = "strategies"

Connect ==
    /\ Undisturbed
    /\ flights \subseteq flights' /\ (flights' = flights \/ authStarted' # authStarted)

\* The session, the permit and the chain share the account only: one at a time.
Wallet ==
    LET moves == << sessionVars' # <<[account |-> wagmi.account', right |-> FALSE],
                                     [c \in Logins |-> NoLogin], 0, SignedOut>>,
                    permitAge' # PermitLife \/ granting' # "nothing" \/ cofheClient',
                    switching' # "nothing" >>
    IN  Cardinality({i \in DOMAIN moves : moves[i]}) <= 1

Shell1 ==
    /\ UNCHANGED <<dialogVars, panelVars>>
    /\ route' # "home" \/ hash' # "home" \/ hashEvent' =>
          appWallet' = NoWallet /\ appPermit' = Locked /\ grants' = 0 /\ ~switchAsked'

Dialog ==
    /\ UNCHANGED panelVars /\ route' = "home" /\ hash' = "home" /\ appPermit' = Locked
    /\ grants' = 0 /\ appWallet'.chain = "unknown"
    /\ shellVars' # shellVars => dialog = DialogClosed

Panels ==
    /\ UNCHANGED <<dialogVars, appPermit, grants, switchAsked>>
    /\ appWallet'.chain = "unknown"
    /\ route' \in {"home", "portfolio", "governance"} /\ hash' = route'
    /\ (route' = "governance" => closer' = NoCloser /\ closed' = {})
    /\ (closed' # {} => votingOn' = Nought /\ ~reloading')

\* Of the editor, one instance for undo over two drafts, and one for the canvas.
History ==
    /\ multiSelected' = {} /\ clipboard' = <<>> /\ pending' = Nobody /\ selectedEdge' = 0
    /\ \A d \in DraftIds : Len(drafts'[d].nodes) <= 1 /\ drafts'[d].look = 0

AtHand == <<selectedEdge # 0, multiSelected # {}, clipboard # <<>>, pending # Nobody>>

Editing ==
    /\ asked' = Nobody /\ history'.future = <<>> /\ drafts'["d2"] = NoDraft
    /\ Len(drafts'["d1"].edges) <= 1 /\ Len(drafts'["d1"].nodes) <= 2
    /\ Cardinality({i \in DOMAIN AtHand : AtHand[i]'}) <= 1
    /\ drafts'["d1"].look = 1 =>
          /\ UNCHANGED selectionVars /\ \A i \in DOMAIN AtHand : ~AtHand[i]'
          /\ drafts'["d1"].edges = <<>> /\ Head(history'.past).look = 0

Simulate == UNCHANGED <<pointerVars, overlayVars, noticeVars, listVars>>
            /\ (linking' \/ view'.pan \notin {"origin", "follows"} => runs' = [r \in Runs |-> <<>>])

\* What the canvas shows beside a run, one thing at a time.
Gestures ==
    /\ UNCHANGED <<running, runStep, runs, cameraLock>>
    /\ LET moved == << view' # HomeView \/ gesture' # "none", linking', idle'.pulse # 0,
                       ~saveTimer', tools' # [hand |-> FALSE, space |-> FALSE],
                       drop' # [depth |-> 0, active |-> FALSE],
                       overlayVars' # <<{}, NoNode>>, marks' # [k \in EdgeKeys |-> 0],
                       listVars' # <<[open |-> TRUE, stored |-> "1"], [drafts |-> 1, chosen |-> 1]>> >>
       IN  Cardinality({i \in DOMAIN moved : moved[i]}) <= 1

\* The clicks come in their order, and the canvas changes before the second.
Deploying ==
    /\ mayDeploy => mayDeploy'
    /\ deploy["x2"] = NotYet \/ canvas' = canvas
    /\ deploy'["x2"] # NotYet => deploy["x1"] # NotYet

\* The actions, a liquidation and the faucet share nothing but the screen.
Apart ==
    LET moved == << handler' # [c \in Clicks |-> Quiet], liqTargets' # "loading",
                    dripping' # 0 \/ faucetTimers' # 0 >>
    IN  Cardinality({i \in DOMAIN moved : moved[i]}) <= 1

MCNext ==
    \/ Rest("session") /\ ConnectNext /\ Session
    \/ Rest("polling") /\ ConnectNext /\ Polling
    \/ Rest("connect") /\ ConnectNext /\ Connect
    \/ Rest("wallet") /\ WalletNext /\ Wallet
    \/ Rest("requests") /\ ApiNext
    \/ Rest("shell") /\ AppNext /\ Shell1
    \/ Rest("dialog") /\ AppNext /\ Dialog
    \/ Rest("panels") /\ AppNext /\ Panels
    \/ Rest("lending") /\ LendNext /\ Apart
    \/ Rest("portfolio") /\ PortfolioNext
    \/ Rest("history") /\ BuilderNext /\ History
    \/ Rest("editing") /\ BuilderNext /\ Editing
    \/ Rest("simulate") /\ CanvasNext /\ Simulate
    \/ Rest("gestures") /\ CanvasNext /\ Gestures
    \/ Rest("deploy") /\ DeployNext /\ Deploying

mcVars == <<scenario, busVars, fetchVars, connectVars, walletVars, portfolioVars, apiVars,
            appVars, lendVars, builderVars, canvasVars, deployVars>>

MCSpec == MCInit /\ [][MCNext]_mcVars /\ ConnectFairness /\ ApiFairness
=============================================================================
