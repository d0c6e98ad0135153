-------------------------- MODULE SagaOrchestrator --------------------------
(***************************************************************************)
(* The saga orchestrator (reasoning/saga.rs): steps run in order, and when *)
(* one fails the completed ones are compensated.  A Final step cannot be   *)
(* undone, so that its intent is recorded in a checkpoint before it runs   *)
(* and its outcome after.                                                  *)
(*                                                                         *)
(* The checkpoint survives the process.  The process may die between any   *)
(* two steps, the checkpoint may refuse what it is to record, and recover  *)
(* runs the steps whose outcome is missing.  It is called when no saga is  *)
(* running, after a crash or later.  The executor of the tools runs a tool *)
(* or fails.                                                               *)
(***************************************************************************)
EXTENDS Naturals, Sequences, SequencesExt

CONSTANTS MaxSteps,     \* bound: steps of a saga
          MaxErrors,    \* bound: records that the checkpoint refuses
          MaxCrashes,   \* bound: crashes
          MaxRecoveries \* bound: calls of recover

Class == {"ReadOnly", "Compensatable", "Final"}

SagaStep == [class : Class, compensation : BOOLEAN]

VARIABLES
    saga,        \* the steps
    checkpointed, \* execute_with_checkpoint or execute
    at,          \* where the orchestrator is
    current,     \* the step it is at
    failed,      \* the current step has failed
    completed,   \* completed_compensatable
    intents,     \* checkpoint: steps that were to run
    outcomes,    \* checkpoint: steps whose outcome is known
    pending,     \* what a recovery has still to run
    ran,         \* history: the tools that were run
    errors, crashes, recoveries

plan == <<saga, checkpointed>>
checkpoint == <<intents, outcomes>>
bounds == <<errors, crashes, recoveries>>

vars == <<plan, at, current, failed, completed, checkpoint, pending, ran,
          bounds>>

\* The checks of SagaOrchestrator::new.
Accepted(steps) ==
    /\ \A i, j \in 1 .. Len(steps) :
         i < j /\ steps[i].class = "Final" => steps[j].class = "Final"
    /\ \A i \in 1 .. Len(steps) :
         steps[i].class = "Compensatable" => steps[i].compensation

\* A saga is about to be executed.
Init ==
    /\ saga \in {s \in UNION {[1 .. n -> SagaStep] : n \in 1 .. MaxSteps} :
                    Accepted(s)}
    /\ checkpointed \in BOOLEAN
    /\ at = "step" /\ current = 1 /\ failed = FALSE /\ completed = <<>>
    /\ intents = {} /\ outcomes = {}
    /\ pending = {} /\ ran = <<>>
    /\ errors = 0 /\ crashes = 0 /\ recoveries = 0

Final(i) == saga[i].class = "Final"

\* The steps whose Final run is to be recorded.
Recorded(i) == Final(i) /\ checkpointed

\* A call of the checkpoint that fails.
Error == errors < MaxErrors /\ errors' = errors + 1

Ran(kind, i, ok) ==
    ran' = Append(ran, [kind |-> kind, step |-> i, ok |-> ok])

-----------------------------------------------------------------------------
(* execute_inner *)

\* A Final step does not run if its intent cannot be recorded.
RecordIntent ==
    /\ at = "step" /\ Recorded(current)
    /\ \/ /\ intents' = intents \union {current}
          /\ at' = "intended" /\ UNCHANGED errors
       \/ Error /\ at' = "undo" /\ UNCHANGED intents
    /\ UNCHANGED <<plan, current, failed, completed, outcomes, pending, ran,
                   crashes, recoveries>>

\* What follows a step, now that it is over.
Proceed(ok) ==
    /\ completed' = IF ok /\ saga[current].class = "Compensatable"
                    THEN Append(completed, current) ELSE completed
    /\ IF ok /\ current < Len(saga)
       THEN at' = "step" /\ current' = current + 1
       ELSE at' = (IF ok THEN "done" ELSE "undo") /\ UNCHANGED current

Execute ==
    /\ \/ at = "step" /\ ~Recorded(current)
       \/ at = "intended"
    /\ \E ok \in BOOLEAN :
         /\ Ran("do", current, ok)
         /\ failed' = ~ok
         /\ IF Recorded(current)
            THEN at' = "settle" /\ UNCHANGED <<current, completed>>
            ELSE Proceed(ok)
    /\ UNCHANGED <<plan, checkpoint, pending, bounds>>

\* An error is ignored.
RecordOutcome ==
    /\ at = "settle"
    /\ \/ outcomes' = outcomes \union {current} /\ UNCHANGED errors
       \/ Error /\ UNCHANGED outcomes
    /\ Proceed(~failed)
    /\ UNCHANGED <<plan, failed, intents, pending, ran, crashes, recoveries>>

\* Faulty variant: the first of the completed steps is compensated first.
CompensateForward ==
    /\ at = "undo" /\ completed # <<>>
    /\ \E ok \in BOOLEAN : Ran("undo", Head(completed), ok)
    /\ completed' = Tail(completed)
    /\ UNCHANGED <<plan, at, current, failed, checkpoint, pending, bounds>>

\* A compensation that fails does not stop the others.
Compensate ==
    /\ at = "undo" /\ completed # <<>>
    /\ \E ok \in BOOLEAN : Ran("undo", Last(completed), ok)
    /\ completed' = Front(completed)
    /\ UNCHANGED <<plan, at, current, failed, checkpoint, pending, bounds>>

ReturnFailure ==
    /\ at = "undo" /\ completed = <<>>
    /\ at' = "aborted"
    /\ UNCHANGED <<plan, current, failed, completed, checkpoint, pending, ran,
                   bounds>>

-----------------------------------------------------------------------------
(* recover *)

Over == at \in {"done", "aborted", "over"}

\* Faulty variant: every step that was to run is pending.
AllIntents == intents

\* pending_intents.  Intents are recorded, and run again, in the order of the
\* steps.
PendingIntents == intents \ outcomes

Recover ==
    /\ Over /\ recoveries < MaxRecoveries
    /\ PendingIntents # {}
    /\ recoveries' = recoveries + 1
    /\ at' = "recover" /\ pending' = PendingIntents
    /\ UNCHANGED <<plan, current, failed, completed, checkpoint, ran, errors,
                   crashes>>

First(i) == i \in pending /\ \A j \in pending : i <= j

Redo ==
    /\ at = "recover"
    /\ \E i \in pending, ok \in BOOLEAN : First(i) /\ Ran("redo", i, ok)
    /\ at' = "resettle"
    /\ UNCHANGED <<plan, current, failed, completed, checkpoint, pending,
                   bounds>>

\* An error is ignored here too.
RecordRedone ==
    /\ at = "resettle"
    /\ \E i \in pending :
         /\ First(i)
         /\ \/ outcomes' = outcomes \union {i} /\ UNCHANGED errors
            \/ Error /\ UNCHANGED outcomes
         /\ pending' = pending \ {i}
         /\ at' = IF pending = {i} THEN "over" ELSE "recover"
    /\ UNCHANGED <<plan, current, failed, completed, intents, ran, crashes,
                   recoveries>>

-----------------------------------------------------------------------------

\* The process dies: the checkpoint is all that is left.
Crash ==
    /\ ~Over /\ crashes < MaxCrashes /\ crashes' = crashes + 1
    /\ at' = "over" /\ completed' = <<>> /\ pending' = {}
    /\ UNCHANGED <<plan, current, failed, checkpoint, ran, errors, recoveries>>

Run ==
    \/ RecordIntent \/ Execute \/ RecordOutcome
    \/ Compensate \/ ReturnFailure

Recovery == Recover \/ Redo \/ RecordRedone

Next == Run \/ Recovery \/ Crash

Spec == Init /\ [][Next]_vars

-----------------------------------------------------------------------------
(* Properties *)

\* Every variable has its type.
TypeOK ==
    /\ Accepted(saga) /\ checkpointed \in BOOLEAN
    /\ at \in {"step", "intended", "settle", "undo", "done", "aborted",
               "recover", "resettle", "over"}
    /\ current \in 1 .. Len(saga) /\ failed \in BOOLEAN
    /\ completed \in Seq(1 .. Len(saga))
    /\ \A s \in {intents, outcomes, pending} : s \subseteq 1 .. Len(saga)
    /\ \A k \in 1 .. Len(ran) :
         ran[k].kind \in {"do", "undo", "redo"} /\ ran[k].step <= Len(saga)

\* The runs that did a step which can be undone, and those that undid one.
Done(k) ==
    /\ ran[k].kind = "do" /\ ran[k].ok
    /\ saga[ran[k].step].class = "Compensatable"

Undone(k) == ran[k].kind = "undo"

\* What is compensated is what was done, each step once and the last first;
\* and a saga that returns a failure has compensated all of it.
UndoneInReverse ==
    /\ \A k \in 1 .. Len(ran) : Undone(k) =>
         /\ \E m \in 1 .. k - 1 : Done(m) /\ ran[m].step = ran[k].step
         /\ \A m \in 1 .. k - 1 :
              /\ Undone(m) => ran[m].step > ran[k].step
              /\ Done(m) /\ ran[m].step > ran[k].step =>
                   \E l \in 1 .. k - 1 :
                       Undone(l) /\ ran[l].step = ran[m].step
    /\ at = "aborted" => \A m \in 1 .. Len(ran) : Done(m) =>
         \E k \in 1 .. Len(ran) : Undone(k) /\ ran[k].step = ran[m].step
    /\ at = "done" => \A k \in 1 .. Len(ran) : ~Undone(k)

\* A Final step runs only when all steps before it have been done, and none of
\* them has been undone: before a crash and after it, unless the outcome of a
\* failed step is lost, when recovery runs it after the compensations.
FinalComesLast ==
    \A k \in 1 .. Len(ran) :
        Final(ran[k].step) =>
            /\ \A i \in 1 .. ran[k].step - 1 :
                 \E m \in 1 .. k - 1 : ran[m].step = i /\ ran[m].ok
            /\ errors = 0 => \A m \in 1 .. k - 1 : ran[m].kind # "undo"

\* A saga undoes what it did, and never what cannot be undone.
SagaIsSound == TypeOK /\ UndoneInReverse /\ FinalComesLast

\* No tool of a Final step runs, at first or again, once its outcome is known.
SettledIsFinal ==
    [][\A i \in outcomes :
         ran' # ran => Last(ran').step # i \/ Last(ran').kind = "undo"]_vars

=============================================================================
