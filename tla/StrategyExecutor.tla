-------------------------- MODULE StrategyExecutor --------------------------
(***************************************************************************)
(* StrategyExecutor.sol: pipelines of actions that stop when the gas runs  *)
(* low and go on from a checkpoint, kept per strategy and caller.  What an *)
(* action does is the business of the pool, the vault and the router; here *)
(* it is its type, and any of them may revert, which undoes the call.      *)
(* Two history variables keep what the calls that succeeded performed and  *)
(* with which pipelines they were made.                                    *)
(***************************************************************************)
EXTENDS Naturals, Sequences

CONSTANTS
    Callers, StrategyIds,
    Pipelines,      \* the arrays of actions that are given, as types
    MaxPerformed    \* bound: actions performed under one checkpoint

ASSUME ExecutorAssumption == Pipelines \subseteq Seq(STRING)

VARIABLES
    checkpoints,    \* by strategy and caller
    executorPaused,
    performed,      \* the positions performed, in order
    given           \* the pipelines of the calls

execVars == <<checkpoints, executorPaused, performed, given>>

Keys == StrategyIds \X Callers
ActionTypes == { "SHIELD_SUPPLY", "BORROW_LTV", "SWAP_INTENT", "REPAY_DEBT", "DEPOSIT_VAULT",
                 "ADD_COLLATERAL", "WITHDRAW_VAULT", "SWAP_UNISWAP_V3" }

NoCheckpoint == [actionIndex |-> 0, completed |-> FALSE]

ExecInit ==
    /\ checkpoints = [k \in Keys |-> NoCheckpoint]
    /\ executorPaused = FALSE
    /\ performed = [k \in Keys |-> <<>>]
    /\ given = [k \in Keys |-> {}]

-----------------------------------------------------------------------------
StartIdx(cp) == IF cp.completed THEN 0 ELSE cp.actionIndex

\* Mutant: as step 4 of the flow in ADR-003 has it, "actionIndex = current + 1".
StoppedBehind(i) == [actionIndex |-> i + 1, completed |-> FALSE]
\* The checkpoint of a call that stops after the first i actions.
StoppedAt(i) == [actionIndex |-> i, completed |-> FALSE]

\* A checkpoint behind the end of the array makes the count of steps underflow,
\* which reverts.
ExecutePipeline(id, caller, actions) ==
    LET k     == <<id, caller>>
        start == StartIdx(checkpoints[k])
    IN  /\ ~executorPaused
        /\ actions # <<>> /\ start <= Len(actions)
        /\ \E stop \in start .. Len(actions) :
              /\ \A i \in start + 1 .. stop : actions[i] \in ActionTypes
              /\ checkpoints' = [checkpoints EXCEPT ![k] =
                    IF stop < Len(actions) THEN StoppedAt(stop)
                    ELSE [actionIndex |-> Len(actions), completed |-> TRUE]]
              /\ performed' = [performed EXCEPT ![k] =
                    @ \o [i \in 1 .. stop - start |-> start + i]]
              /\ Len(performed'[k]) <= MaxPerformed                     \* bound
        /\ given' = [given EXCEPT ![k] = @ \cup {actions}]
        /\ UNCHANGED executorPaused

\* The owner's calls.  A reset is a new beginning.
ResetCheckpoint(id, user) ==
    /\ checkpoints' = [checkpoints EXCEPT ![<<id, user>>] = NoCheckpoint]
    /\ performed' = [performed EXCEPT ![<<id, user>>] = <<>>]
    /\ given' = [given EXCEPT ![<<id, user>>] = {}]
    /\ UNCHANGED executorPaused

PauseExecutor(on) ==
    /\ executorPaused # on /\ executorPaused' = on
    /\ UNCHANGED <<checkpoints, performed, given>>

ExecNext ==
    \/ \E id \in StrategyIds, u \in Callers, p \in Pipelines : ExecutePipeline(id, u, p)
    \/ \E id \in StrategyIds, u \in Callers : ResetCheckpoint(id, u)
    \/ \E on \in BOOLEAN : PauseExecutor(on)

ExecSpec == ExecInit /\ [][ExecNext]_execVars

-----------------------------------------------------------------------------
ExecTypeOK ==
    /\ checkpoints \in [Keys -> [actionIndex : Nat, completed : BOOLEAN]]
    /\ executorPaused \in BOOLEAN
    /\ performed \in [Keys -> Seq(Nat)]
    /\ given \in [Keys -> SUBSET Pipelines]

\* "The pipeline picks up from the saved checkpoint" (ADR-003, StrategyExecutor.sol:71
\* and 77): who resumes with the same array performs each of its actions once per
\* round and in its order, wherever the gas ran out, a call reverted or the contract
\* was paused, and whatever others do under the same strategy; and with another
\* array, still no position of a round twice or out of its turn.
PipelinesRunInOrder ==
    \A k \in Keys :
        LET log == performed[k]
        IN  /\ \A p \in Pipelines : given[k] = {p} =>
                  \A i \in DOMAIN log : log[i] = ((i - 1) % Len(p)) + 1
            /\ \A i \in DOMAIN log :
                  log[i] \in {1, IF i = 1 THEN 1 ELSE log[i - 1] + 1}
=============================================================================
