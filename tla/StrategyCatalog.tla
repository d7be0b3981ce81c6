-------------------------- MODULE StrategyCatalog --------------------------
(***************************************************************************)
(* Saved strategies and their versions (defi_strategies of the back end).  *)
(*                                                                         *)
(* create makes four database calls, none of them in a transaction: the    *)
(* strategy without a version, the read of the highest version number, the *)
(* version, and the strategy again with the version's id.  The first call  *)
(* writes '' into current_version_id; the migrations make that column a    *)
(* UUID, which refuses it, while a table that predates them may have TEXT. *)
(***************************************************************************)
EXTENDS Naturals, FiniteSets

CONSTANTS
    CreateCalls,            \* create calls
    Owners,
    MaxCatalogFaults    \* bound on database calls that fail

ASSUME CatalogAssumption == MaxCatalogFaults \in Nat

VARIABLES
    versionColumn,      \* the type of current_version_id: "UUID" or "TEXT"
    strategies,         \* rows of defi_strategies, one per create call
    versions,           \* rows of defi_strategy_versions
    create,             \* the calls
    catalogFaults

catalogVars == <<versionColumn, strategies, versions, create, catalogFaults>>

NoVersion == 0      \* the empty string
StrategyRow == [strategy : CreateCalls, owner : Owners, public : BOOLEAN, current : Nat]

CatalogTypeOK ==
    /\ versionColumn \in {"UUID", "TEXT"}
    /\ strategies \subseteq StrategyRow
    /\ \A v \in versions : v.strategy \in CreateCalls /\ v.version \in Nat \ {0}
    /\ \A c \in CreateCalls : create[c].step \in
          {"new", "save", "count", "version", "link", "done", "failed"}

CatalogInit ==
    /\ versionColumn \in {"UUID", "TEXT"}
    /\ strategies = {} /\ versions = {}
    /\ create = [c \in CreateCalls |-> [step |-> "new"]]
    /\ catalogFaults = 0

CatalogFault == catalogFaults < MaxCatalogFaults /\ catalogFaults' = catalogFaults + 1
StepTo(c, step) == create' = [create EXCEPT ![c].step = step]
CallFails(c) ==
    /\ CatalogFault /\ StepTo(c, "failed")
    /\ UNCHANGED <<strategies, versions>>

-----------------------------------------------------------------------------
CallCreate(c, owner, public) ==
    /\ create[c].step = "new"
    /\ create' = [create EXCEPT ![c] =
          [step |-> "save", owner |-> owner, public |-> public, number |-> NoVersion]]
    /\ UNCHANGED <<versionColumn, strategies, versions, catalogFaults>>

\* The row of a create call, with the version it is to name.
RowOf(c, current) == [strategy |-> c, owner |-> create[c].owner,
                      public |-> create[c].public, current |-> current]

\* save upserts by id: a second call replaces the row.
Upsert(c, current) ==
    strategies' = { s \in strategies : s.strategy # c } \cup {RowOf(c, current)}

\* Mutant: the first version's number is written with the strategy.
SaveStrategyWithVersion(c) ==
    /\ create[c].step = "save"
    /\ \/ /\ Upsert(c, 1) /\ StepTo(c, "count")
          /\ UNCHANGED <<versions, catalogFaults>>
       \/ CallFails(c)
    /\ UNCHANGED versionColumn

SaveStrategy(c) ==
    /\ create[c].step = "save"
    /\ \/ /\ versionColumn = "TEXT"
          /\ Upsert(c, NoVersion) /\ StepTo(c, "count")
          /\ UNCHANGED <<versions, catalogFaults>>
       \/ /\ versionColumn = "UUID"
          /\ StepTo(c, "failed")
          /\ UNCHANGED <<strategies, versions, catalogFaults>>
       \/ CallFails(c)
    /\ UNCHANGED versionColumn

GetNextVersionNumber(c) ==
    LET numbers == { v.version : v \in { w \in versions : w.strategy = c } }
    IN  CHOOSE n \in 1 .. Cardinality(numbers) + 1 :
            n \notin numbers /\ \A k \in numbers : k < n

CountVersions(c) ==
    /\ create[c].step = "count"
    /\ \/ /\ create' = [create EXCEPT ![c].step = "version",
                                      ![c].number = GetNextVersionNumber(c)]
          /\ UNCHANGED <<strategies, versions, catalogFaults>>
       \/ CallFails(c)
    /\ UNCHANGED versionColumn

SaveVersion(c) ==
    /\ create[c].step = "version"
    /\ \/ /\ versions' = versions \cup
                {[strategy |-> c, version |-> create[c].number]}
          /\ StepTo(c, "link")
          /\ UNCHANGED <<strategies, catalogFaults>>
       \/ CallFails(c)
    /\ UNCHANGED versionColumn

LinkVersion(c) ==
    /\ create[c].step = "link"
    /\ \/ /\ Upsert(c, create[c].number) /\ StepTo(c, "done")
          /\ UNCHANGED <<versions, catalogFaults>>
       \/ CallFails(c)
    /\ UNCHANGED versionColumn

\* The list of an owner, or of everything public.
GetAll(owners) == { s \in strategies : IF owners = {} THEN s.public
                                       ELSE s.owner \in owners }

CatalogNext ==
    \/ \E c \in CreateCalls, o \in Owners, p \in BOOLEAN : CallCreate(c, o, p)
    \/ \E c \in CreateCalls :
          SaveStrategy(c) \/ CountVersions(c) \/ SaveVersion(c) \/ LinkVersion(c)

-----------------------------------------------------------------------------
(***************************************************************************)
(* A listed strategy's current version is one of its own                   *)
(* (strategy.current_version_id = strategyVersion.id,                      *)
(* defi_strategies.service.ts:40), and a strategy without one is the trace *)
(* of a call that failed or is under way, in whatever order calls run.     *)
(***************************************************************************)
ListedVersionsExist ==
    \A s \in GetAll({}) \cup GetAll(Owners) :
        IF s.current = NoVersion
        THEN create[s.strategy].step # "done"
        ELSE [strategy |-> s.strategy, version |-> s.current] \in versions
=============================================================================
