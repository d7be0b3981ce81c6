----------------------------- MODULE MCBackend -----------------------------
(***************************************************************************)
(* The back end's services and the deployment scripts for TLC.  The        *)
(* services share the process and the database but no table and no         *)
(* variable, so one behaviour moves one of them: Init picks the service,   *)
(* and only its actions are taken.                                         *)
(***************************************************************************)
EXTENDS AuthService, EventIndexer, GovernanceService, MigrationRunner,
        MarketsService, StrategyCatalog, AiStrategyBuilder, StrategySimulation,
        DeployScript

VARIABLE service

CONSTANTS ann, ben, weth, usdc

Services == {"auth", "indexer", "governance", "migrations",
             "statistics", "prices", "status", "ready", "catalog", "ai", "simulation",
             "scripts"}

\* The cached answers that depend on one another, and each of the others.
CachedReads == {"statistics", "prices", "status", "ready"}

\* Plans with a step of no known type, without an agent, and with bad amounts.
MCModelPlans ==
    { <<>>, <<Step(1, "LEND", weth, "positive", "absent")>>,
      <<Step(1, "SUPPLY", weth, "zero", "absent"), Step(2, "LEND", weth, "small", "absent"),
        Step(3, "BORROW", NoToken, "absent", "positive")>>,
      <<[Step(1, "SUPPLY", weth, "absent", "absent") EXCEPT !.agent = FALSE],
        Step(2, "SUPPLY", weth, "positive", "absent")>>,
      <<Step(1, "SWAP", usdc, "negative", "positive"), Step(2, "SUPPLY", weth, "small", "absent")>>,
      <<Step(1, "SWAP", usdc, "small", "positive"), Step(2, "SUPPLY", weth, "small", "absent")>> }

MCPricesOf(token) == IF token = weth THEN {2, 3} ELSE {1}
MCStaticPriceUsd(token) == IF token = weth THEN 3 ELSE 1
Leg(type, from, to) == [type |-> type, from |-> from, to |-> to, ratio |-> 0]
\* A ratio of the request, above one, and a step of one token or of none.
MCPlans == { <<Leg("SWAP", weth, usdc), Leg("SWAP", usdc, weth)>>,
             <<Leg("SUPPLY", weth, weth), Leg("BORROW", weth, usdc),
               Leg("SWAP", usdc, weth)>>,
             <<Leg("SWAP", weth, weth), [Leg("BORROW", weth, usdc) EXCEPT !.ratio = 150],
               Leg("SWAP", usdc, weth)>>,
             <<Leg("BORROW", usdc, usdc), Leg("BORROW", NoAsset, usdc)>>,
             <<Leg("SWAP", weth, NoAsset)>> }
\* The default slippage, half of everything, and more than that.
MCSlippages == {1, 50, 120}
MCAmountsIn == {1, -1}

MCVerifyCases == {{}, {"LendingPool"}}
MCFaucetSymbols == <<"ETH">>

MCInit ==
    /\ service \in Services
    /\ AuthInit /\ IndexInit /\ GovInit /\ MigrationInit(Databases)
    /\ MarketsInit /\ CatalogInit /\ AiInit /\ SimInit /\ ScriptInit
    /\ service = "migrations" \/ legacy = {"events", "core"}
    /\ service \in CachedReads \/ reachable
    /\ service = "catalog" \/ versionColumn = "UUID"
    /\ service = "simulation" \/ oracle[weth] = 2

Rest(s) ==
    /\ service = s /\ UNCHANGED service
    /\ IF s = "auth" THEN TRUE ELSE UNCHANGED authVars
    /\ IF s = "indexer" THEN TRUE ELSE UNCHANGED indexVars
    /\ IF s = "governance" THEN TRUE ELSE UNCHANGED govVars
    /\ IF s = "migrations" THEN TRUE ELSE UNCHANGED migVars
    /\ IF s \in CachedReads THEN TRUE ELSE UNCHANGED marketVars
    /\ IF s = "catalog" THEN TRUE ELSE UNCHANGED catalogVars
    /\ IF s = "ai" THEN TRUE ELSE UNCHANGED aiVars
    /\ IF s = "simulation" THEN TRUE ELSE UNCHANGED simVars
    /\ IF s = "scripts" THEN TRUE ELSE UNCHANGED scriptVars

ReadsOnly(kinds) == \A r \in DataReads : read'[r] = NoRead \/ read'[r].kind \in kinds

\* The faucet's script runs once, and not during a deployment.
OneScript == 0 \in {line', faucetLine'} /\ faucetRun' <= 1

MCNext ==
    \/ Rest("auth") /\ AuthNext
    \/ Rest("indexer") /\ IndexNext
    \/ Rest("governance") /\ GovNext
    \/ Rest("migrations") /\ MigrationNext
    \/ Rest("statistics") /\ MarketsNext /\ ReadsOnly({"markets", "stats"})
    \/ \E s \in {"prices", "status", "ready"} :
          Rest(s) /\ MarketsNext /\ ReadsOnly({s})
    \/ Rest("catalog") /\ CatalogNext
    \/ Rest("ai") /\ AiNext
    \/ Rest("simulation") /\ SimNext
    \/ Rest("scripts") /\ ScriptNext /\ OneScript

mcVars == <<service, authVars, indexVars, govVars, migVars, marketVars,
            catalogVars, aiVars, simVars, scriptVars>>

\* Only the indexer has a liveness property, and is scheduled fairly.
MCSpec ==
    /\ MCInit /\ [][MCNext]_mcVars
    /\ IndexFairness

=============================================================================
