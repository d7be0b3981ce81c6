---------------------------- MODULE DeployScript ----------------------------
(***************************************************************************)
(* The operator's scripts (contracts/scripts: forge-deploy.ts with         *)
(* lib/deploy-utils.ts, and deploy-faucet-tokens.ts).  A run deploys every *)
(* contract anew, wires them, hands the timelock to the governor, asks for *)
(* verification and writes the record and the environment file at its end. *)
(* It may fail or be killed at any line and be run again; only the tokens  *)
(* of the record are used again.                                           *)
(***************************************************************************)
EXTENDS Naturals, Sequences, SequencesExt, FiniteSets

CONSTANTS
    MaxRuns,            \* bound on the runs of each script
    EnvTokens,          \* bound: the tokens an operator may give by address
    VerifyCases,        \* bound: the contracts the explorer verifies in a run
    FaucetSymbols       \* the symbols of the faucet's tokens

ASSUME DeployAssumption ==
    /\ MaxRuns \in Nat
    /\ FaucetSymbols \in Seq(STRING) /\ FaucetSymbols # <<>>
    /\ \A i \in DOMAIN FaucetSymbols : FaucetSymbols[i] # "FheForgeTimelock"

VARIABLES
    links,      \* what the transactions mined so far say: [of, what, to]
    run, line,  \* the script's runs, and the line the last one is at; 0: ended
    tokens,     \* the addresses of WETH and USDC in the run
    verified,   \* the addresses the explorer has verified
    record, envFile,
    faucetRun, faucetLine

scriptVars == <<links, run, line, tokens, verified, record, envFile, faucetRun, faucetLine>>

Tokens == {"WETH", "USDC"}
NoAddress == <<"none", 0>>
NoRecord == [kind |-> "none"]
TornFile == [kind |-> "torn"]       \* a write cut short: no JSON

Contracts == {"StrategyRegistry", "LendingPool", "PriceOracle", "SwapRouter",
              "ExecutorContract", "StrategyVault", "FheForgeComposer", "TokenRegistry",
              "StrategyExecutor", "FheForgeToken", "FheForgeTimelock", "FheForgeGovernor"}

-----------------------------------------------------------------------------
\* The lines of main(), in their order.
Deploys(name, args) == [op |-> "deploy", of |-> name, what |-> "is deployed", to |-> args]
Sends(of, what, to) == [op |-> "send", of |-> of, what |-> what, to |-> to]
Does(op, of) == [op |-> op, of |-> of, what |-> "", to |-> ""]

Layers ==
    << Deploys("ExecutorContract", {}), Deploys("StrategyRegistry", {}),
       Deploys("LendingPool", {}), Deploys("PriceOracle", {}),
       Deploys("SwapRouter", {"ExecutorContract"}), Deploys("TokenRegistry", {}),
       Does("token", "WETH"), Does("token", "USDC"),
       Deploys("StrategyVault", {"StrategyRegistry"}),
       Deploys("FheForgeComposer", {"StrategyRegistry", "StrategyVault", "LendingPool",
                                    "SwapRouter"}),
       Deploys("StrategyExecutor", {"LendingPool", "StrategyVault", "SwapRouter"}) >>

Wiring ==
    << Sends("StrategyRegistry", "vaultAddress", "StrategyVault"),
       Sends("LendingPool", "weth", "WETH"), Sends("LendingPool", "oracle", "PriceOracle"),
       Sends("LendingPool", "isComposer", "FheForgeComposer"),
       Sends("LendingPool", "isComposer", "StrategyExecutor"),
       Sends("PriceOracle", "priceId", "WETH"), Sends("PriceOracle", "priceId", "USDC"),
       Sends("PriceOracle", "collateralFactorBps", "USDC"),
       Sends("PriceOracle", "collateralFactorBps", "WETH"),
       Sends("TokenRegistry", "isTokenEnabled", "WETH"),
       Sends("TokenRegistry", "isTokenEnabled", "USDC"),
       Does("push", "PriceOracle") >>

\* Mutant: the deployer gives up the timelock before the governor has it.
GovernanceRenouncesFirst ==
    << Deploys("FheForgeToken", {}), Sends("FheForgeToken", "balance", "deployer"),
       Deploys("FheForgeTimelock", {}),
       Deploys("FheForgeGovernor", {"FheForgeToken", "FheForgeTimelock"}),
       Sends("FheForgeTimelock", "PROPOSER", "FheForgeGovernor"),
       Does("renounce", "FheForgeTimelock"),
       Sends("FheForgeTimelock", "CANCELLER", "FheForgeGovernor"),
       Sends("FheForgeTimelock", "EXECUTOR", "anyone") >>

Governance ==
    << Deploys("FheForgeToken", {}), Sends("FheForgeToken", "balance", "deployer"),
       Deploys("FheForgeTimelock", {}),
       Deploys("FheForgeGovernor", {"FheForgeToken", "FheForgeTimelock"}),
       Sends("FheForgeTimelock", "PROPOSER", "FheForgeGovernor"),
       Sends("FheForgeTimelock", "CANCELLER", "FheForgeGovernor"),
       Sends("FheForgeTimelock", "EXECUTOR", "anyone"),
       Does("renounce", "FheForgeTimelock") >>

Ending == << Does("verify", ""), Does("record", ""), Does("env", "") >>

Script == Layers \o Wiring \o Governance \o Ending

-----------------------------------------------------------------------------
AddressOf(n) ==
    IF n \in Tokens THEN tokens[n]
    ELSE IF n \in Contracts THEN <<n, run>> ELSE <<n, 0>>

Link(of, what, to) == [of |-> of, what |-> what, to |-> to]

\* The links a line's transaction adds.  A fresh contract has none of them, so
\* "already set" never skips a line; a price push may fail.
Adds(s) ==
    LET me == AddressOf(s.of)
    IN  CASE s.op = "deploy" -> {Link(me, "is deployed", me)}
                                \cup {Link(me, "immutable", AddressOf(a)) : a \in s.to}
                                \cup {l \in {Link(me, "ADMIN", AddressOf("deployer"))} :
                                         s.of = "FheForgeTimelock"}
          [] s.op = "send" -> {Link(me, s.what, AddressOf(s.to))}
          [] s.op = "token" -> IF me # NoAddress THEN {}
                               ELSE {Link(<<s.of, run>>, "is deployed", <<s.of, run>>)}
          [] OTHER -> {}

After(s) ==
    IF s.op = "renounce"
    THEN links \ {Link(AddressOf(s.of), "ADMIN", AddressOf("deployer"))} ELSE links \cup Adds(s)

AllContracts == [c \in Contracts |-> <<c, run>>]

\* The record's verificationStatus goes by name and is read as addresses, so
\* verifyBatch finds none of them in its cache.
RecordNow ==
    [kind |-> "record", contracts |-> AllContracts, tokens |-> tokens,
     verificationStatus |-> {c \in Contracts : AllContracts[c] \in verified}]

\* verifyOne: the answer to the submission, then the answers to its polls; a
\* poll that says nothing final is followed by another until the time is up.
VerifyOne(submitted, polls) ==
    LET said == SelectSeq(polls, LAMBDA p : p \in {"Pass - Verified", "Fail", "Already Verified"})
    IN  IF submitted # "guid" THEN submitted = "Already Verified"
        ELSE said # <<>> /\ Head(said) # "Fail"

\* verifyBatch, in fives: one that throws is one that was not verified.
VerifyBatch(items, cache, answers) ==
    cache \cup {a \in items \ cache : VerifyOne(answers[a].submitted, answers[a].polls)}

-----------------------------------------------------------------------------
ScriptInit ==
    /\ links = {} /\ run = 0 /\ line = 0 /\ tokens = [t \in Tokens |-> NoAddress]
    /\ verified = {} /\ record = NoRecord /\ envFile = NoRecord
    /\ faucetRun = 0 /\ faucetLine = 0

ScriptTypeOK ==
    /\ run \in 0 .. MaxRuns /\ line \in 0 .. Len(Script)
    /\ record.kind \in {"none", "torn", "record"} /\ envFile.kind \in {"none", "torn", "env"}
    /\ \A l \in links : DOMAIN l = {"of", "what", "to"}
    /\ faucetRun \in 0 .. MaxRuns /\ faucetLine \in 0 .. 3 * Len(FaucetSymbols)

faucetVars == <<faucetRun, faucetLine>>

\* main() to its first deploy; a record that does not parse throws.
StartScript(given) ==
    /\ line = 0 /\ run < MaxRuns /\ record # TornFile
    /\ run' = run + 1 /\ line' = 1
    /\ tokens' = [t \in Tokens |-> IF t \in given THEN <<t, 0>>
                                   ELSE IF record = NoRecord THEN NoAddress
                                   ELSE record.tokens[t]]
    /\ UNCHANGED <<links, verified, record, envFile, faucetVars>>

Next1 == line' = IF line = Len(Script) THEN 0 ELSE line + 1

\* A line that deploys or sends, and waits for the receipt.
Transacts ==
    /\ line > 0 /\ Script[line].op \notin {"verify", "record", "env"}
    /\ LET s == Script[line]
       IN  /\ links' = After(s)
           /\ tokens' = IF s.op = "token" /\ tokens[s.of] = NoAddress
                        THEN [tokens EXCEPT ![s.of] = <<s.of, run>>] ELSE tokens
    /\ Next1 /\ UNCHANGED <<run, verified, record, envFile, faucetVars>>

\* SKIP_VERIFY leaves it out.
Verifies(ok) ==
    /\ line > 0 /\ Script[line].op = "verify"
    /\ LET items == {<<c, run>> : c \in Contracts}
           Answer(a) == IF a[1] \in ok
                        THEN [submitted |-> "guid", polls |-> <<"Pending", "Pass - Verified">>]
                        ELSE [submitted |-> "guid", polls |-> <<"Pending">>]
       IN  verified' = VerifyBatch(items, verified, [a \in items |-> Answer(a)])
    /\ Next1 /\ UNCHANGED <<links, run, tokens, record, envFile, faucetVars>>

Saves ==
    /\ line > 0 /\ Script[line].op \in {"record", "env"}
    /\ IF Script[line].op = "record" THEN record' = RecordNow /\ UNCHANGED envFile
       ELSE /\ envFile' = [kind |-> "env", contracts |-> AllContracts, tokens |-> tokens]
            /\ UNCHANGED record
    /\ Next1 /\ UNCHANGED <<links, run, tokens, verified, faucetVars>>

\* The script throws or is killed: before its line, after the transaction was
\* sent, or in the middle of a write.
Dies ==
    /\ line > 0 /\ line' = 0
    /\ \/ UNCHANGED <<links, record, envFile>>
       \/ links' = After(Script[line]) /\ UNCHANGED <<record, envFile>>
       \/ Script[line].op = "record" /\ record' = TornFile /\ UNCHANGED <<links, envFile>>
       \/ Script[line].op = "env" /\ envFile' = TornFile /\ UNCHANGED <<links, record>>
    /\ UNCHANGED <<run, tokens, verified, faucetVars>>

-----------------------------------------------------------------------------
\* deploy-faucet-tokens.ts, for the registry and the oracle it names by address:
\* deploys each symbol, registers each and gives each a price source.
Faucet == <<"TokenRegistry", 1>>
FaucetOracle == <<"PriceOracle", 1>>

StartFaucet ==
    /\ faucetLine = 0 /\ faucetRun < MaxRuns
    /\ faucetRun' = faucetRun + 1 /\ faucetLine' = 1
    /\ UNCHANGED <<links, run, line, tokens, verified, record, envFile>>

FaucetLink(i) ==
    LET n     == Len(FaucetSymbols)
        token == <<FaucetSymbols[((i - 1) % n) + 1], faucetRun, "faucet">>
    IN  IF i <= n THEN Link(token, "is deployed", token)
        ELSE IF i <= 2 * n THEN Link(Faucet, "isTokenEnabled", token)
        ELSE Link(FaucetOracle, "priceId", token)

Exists(a) == Link(a, "is deployed", a) \in links

\* A deploy that fails ends the script; another line that fails is reported.
FaucetStep ==
    /\ faucetLine > 0
    /\ LET l    == FaucetLink(faucetLine)
           last == faucetLine = 3 * Len(FaucetSymbols)
           next == IF last THEN 0 ELSE faucetLine + 1
       IN  \/ /\ l.what = "is deployed" \/ Exists(l.of)
              /\ links' = links \cup {l} /\ faucetLine' \in {0, next}
           \/ links' = links /\ faucetLine' \in {0} \cup {n \in {next} : l.what # "is deployed"}
    /\ UNCHANGED <<run, line, tokens, verified, record, envFile, faucetRun>>

ScriptNext ==
    \/ \E given \in SUBSET EnvTokens : StartScript(given)
    \/ \E ok \in VerifyCases : Verifies(ok)
    \/ Transacts \/ Saves \/ Dies \/ StartFaucet \/ FaucetStep

-----------------------------------------------------------------------------
\* What a deployment needs, as pairs of a contract and one it must know.
Knows(d, of, what, to) ==
    Link(d.contracts[of], what, IF to \in Tokens THEN d.tokens[to] ELSE d.contracts[to]) \in links

Whole(d) ==
    /\ \A c \in Contracts : Exists(d.contracts[c])
    /\ \A t \in Tokens : /\ d.tokens[t][2] = 0 \/ Exists(d.tokens[t])
                         /\ Knows(d, "PriceOracle", "priceId", t)
                         /\ Knows(d, "PriceOracle", "collateralFactorBps", t)
                         /\ Knows(d, "TokenRegistry", "isTokenEnabled", t)
    /\ \A c \in {"FheForgeComposer", "StrategyExecutor"} :
          /\ Knows(d, "LendingPool", "isComposer", c)
          /\ \A other \in {"LendingPool", "StrategyVault", "SwapRouter"} :
                Knows(d, c, "immutable", other)
    /\ Knows(d, "StrategyRegistry", "vaultAddress", "StrategyVault")
    /\ Knows(d, "StrategyVault", "immutable", "StrategyRegistry")
    /\ Knows(d, "LendingPool", "oracle", "PriceOracle") /\ Knows(d, "LendingPool", "weth", "WETH")

\* A timelock the deployer has given up is in the hands of a governor of its own
\* that can propose and cancel, and anyone may execute.
Governed(timelock) ==
    /\ Link(timelock, "EXECUTOR", <<"anyone", 0>>) \in links
    /\ \E g \in {l.of : l \in links} :
          /\ Link(g, "immutable", timelock) \in links
          /\ {Link(timelock, "PROPOSER", g), Link(timelock, "CANCELLER", g)} \subseteq links

\* However many runs failed or were killed before, and whichever tokens they
\* left behind, what the record or the environment file names is there and
\* knows each other, and no timelock is left without anyone in charge
\* (forge-deploy.ts:340 to 358, 502 and 514).
DeploymentIsWhole ==
    /\ \A d \in {record, envFile} : d.kind \in {"record", "env"} => Whole(d)
    /\ \A t \in {l.of : l \in links} :
          t[1] = "FheForgeTimelock" => Link(t, "ADMIN", <<"deployer", 0>>) \in links \/ Governed(t)
=============================================================================
