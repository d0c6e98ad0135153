---------------------------- MODULE MCReasoning ----------------------------
(***************************************************************************)
(* The reasoning loop and three parts it leaves its records with: the      *)
(* context of an agent and its file, a saga and its checkpoint, a durable  *)
(* journal and its entries.  They share no state, so that in a behaviour   *)
(* one of them is at work and the others stay as they began.               *)
(***************************************************************************)
EXTENDS ReasoningLoop

CONSTANTS
    Client, Retention, MaxItems, MaxSessions, MaxOps, MaxAccidents,
    MaxSteps, MaxErrors, MaxCrashes, MaxRecoveries,
    Writer, MaxEntries, MaxCompacts, MaxStarts

\* The retention task is not a caller, and bounds are numbers that leave room
\* for what an earlier process has saved.
ASSUME ReasoningAssumption ==
    /\ Retention \notin Client
    /\ MaxItems \in Nat \ {0} /\ MaxSessions \in Nat \ {0}
    /\ MaxOps \in Nat /\ MaxAccidents \in Nat
    /\ MaxSteps \in Nat /\ MaxErrors \in Nat
    /\ MaxCrashes \in Nat /\ MaxRecoveries \in Nat
    /\ MaxEntries \in Nat /\ MaxCompacts \in Nat /\ MaxStarts \in Nat

VARIABLES
    service,    \* the part at work
    cache, file, torn, archive, operation, flag, ready, owed, learned, made,
    sessions, ops, faults, ends,
    saga, checkpointed, position, current, failed, completed, intents, outcomes,
    pending, ran, errors, crashes, recoveries,
    entries, sequence, open, append, compaction, epoch, taken, compacts, starts

context == <<cache, file, torn, archive, operation, flag, ready, owed,
             learned, made, sessions, ops, faults, ends>>
sagas == <<saga, checkpointed, position, current, failed, completed, intents,
           outcomes, pending, ran, errors, crashes, recoveries>>
durable == <<entries, sequence, open, append, compaction, epoch, taken,
             compacts, starts>>

Contexts == INSTANCE ContextManager
    WITH Caller <- Client, call <- operation, up <- ready
Saga == INSTANCE SagaOrchestrator WITH at <- position
Durable == INSTANCE DurableJournal

\* One initial state is enough for a part that is not at work.
ReasoningInit ==
    /\ service \in {"loop", "context", "saga", "journal"}
    /\ Init /\ Contexts!Init /\ Saga!Init /\ Durable!Init
    /\ service # "context" => made = 0
    /\ service # "saga" =>
         checkpointed /\ saga = <<[class |-> "Final", compensation |-> FALSE]>>

ReasoningNext ==
    /\ \/ /\ service = "loop" /\ Next
          /\ UNCHANGED <<context, sagas, durable>>
       \/ /\ service = "context" /\ Contexts!Next
          /\ UNCHANGED <<vars, sagas, durable>>
       \/ /\ service = "saga" /\ Saga!Next
          /\ UNCHANGED <<vars, context, durable>>
       \/ /\ service = "journal" /\ Durable!Next
          /\ UNCHANGED <<vars, context, sagas>>
    /\ UNCHANGED service

ReasoningSpec ==
    /\ ReasoningInit
    /\ [][ReasoningNext]_<<service, vars, context, sagas, durable>>
    /\ WF_vars(service = "loop" /\ Start)
    /\ WF_vars(service = "loop" /\ Timeout)

-----------------------------------------------------------------------------
(* Properties, stated and commented in the modules of the parts *)

\* What was acknowledged survives ends of the process (manager.rs:3270).
AcknowledgedIsKept == Contexts!AcknowledgedIsKept

\* A saga undoes what it did, and never what cannot be undone (saga.rs:219).
SagaIsSound == Saga!SagaIsSound

\* What is known to have run is not run again (saga.rs:325).
SettledIsFinal == Saga!SettledIsFinal

\* Entries share a number only across a reset of the counter (journal.rs:168).
NumbersAreDistinct == Durable!NumbersAreDistinct

=============================================================================
