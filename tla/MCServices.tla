----------------------------- MODULE MCServices -----------------------------
(***************************************************************************)
(* Services of the runtime beside each other: the circuit breakers, the    *)
(* resource manager, the lifecycle controller, the error handler, the      *)
(* sessions of interactive tools and one execution of a command-line tool. *)
(* They share no state, so that in a behaviour one of them is at work and  *)
(* the others stay as they began.                                          *)
(***************************************************************************)
EXTENDS CircuitBreaker

CONSTANTS
    Agent, Caller,
    Total, Parts, MaxAmount, KillAfter, MaxRequests,
    MaxAgents, MaxRestarts, MaxChanges,
    Culprit, Kind, Reporter, Threshold, MaxHistory, MaxQueue,
    User, MaxInteractions, MaxCommands, MaxCleanups,
    MaxOutput, MaxRead

\* Finitely many agents and callers, and limits that are numbers.
ASSUME ServicesAssumption ==
    /\ IsFiniteSet(Agent) /\ IsFiniteSet(Caller)
    /\ MaxAgents \in Nat /\ MaxRestarts \in Nat
    /\ Threshold \in Nat /\ MaxHistory \in Nat /\ MaxQueue \in Nat
    /\ Total \in Nat /\ Parts \in Nat \ {0} /\ MaxAmount \in Nat \ {0}
    /\ IsFiniteSet(User) /\ MaxInteractions \in Nat
    /\ MaxCommands \in Nat /\ MaxCleanups \in Nat
    /\ MaxOutput \in Nat /\ MaxRead \in Nat

VARIABLES
    service,    \* the one at work
    alloc, usage, free, channel, monitor, enforce, breaches, up, call, calls,
    overwritten, resized,
    agents, sent, events, watch, is_running, doing, made, births, late,
    crowded,
    handles, reports, handling, cleaning, records, breaker, recovers, asks,
    status, count, record, input, output, alive, holder, poisoned, at, issued,
    missed, cleanups,
    stage, cause, result, reader, closed, emitted, leader, helper, heeds,
    warned

resources == <<alloc, usage, free, channel, monitor, enforce, breaches, up,
               call, calls, overwritten, resized>>
lifecycle == <<agents, sent, events, watch, is_running, doing, made, births,
               late, crowded>>
errors == <<handles, reports, handling, cleaning, records, breaker, recovers,
            asks>>
tool == <<status, count, record, input, output, alive, holder, poisoned, at,
          issued, missed, cleanups>>
execution == <<stage, cause, result, reader, closed, emitted, leader, helper,
               heeds, warned>>

Resources == INSTANCE ResourceManager WITH MaxCalls <- MaxRequests
Lifecycle == INSTANCE LifecycleController WITH MaxCalls <- MaxChanges
Errors == INSTANCE ErrorHandler WITH is_running <- handles
Tool == INSTANCE SessionExecutor
Cli == INSTANCE CliExecutor WITH at <- stage

\* One initial state is enough for a service that is not at work.
ServicesInit ==
    /\ service \in {"breakers", "resources", "lifecycle", "errors", "tool",
                    "cli"}
    /\ Init /\ Resources!Init /\ Lifecycle!Init /\ Errors!Init
    /\ Tool!Init /\ Cli!Init
    /\ service # "cli" => heeds = {}
    /\ service # "resources" => Resources!Granted = 0

ServicesNext ==
    /\ \/ /\ service = "breakers" /\ Next
          /\ UNCHANGED <<resources, lifecycle, errors, tool, execution>>
       \/ /\ service = "resources" /\ Resources!Next
          /\ UNCHANGED <<vars, lifecycle, errors, tool, execution>>
       \/ /\ service = "lifecycle" /\ Lifecycle!Next
          /\ UNCHANGED <<vars, resources, errors, tool, execution>>
       \/ /\ service = "errors" /\ Errors!Next
          /\ UNCHANGED <<vars, resources, lifecycle, tool, execution>>
       \/ /\ service = "tool" /\ Tool!Next
          /\ UNCHANGED <<vars, resources, lifecycle, errors, execution>>
       \/ /\ service = "cli" /\ Cli!Next
          /\ UNCHANGED <<vars, resources, lifecycle, errors, tool>>
    /\ UNCHANGED service

\* The fairness of each service, in the behaviours in which it is at work.
BreakersFairness ==
    \A b \in Batches :
        /\ WF_vars(service = "breakers" /\ Start(b))
        /\ WF_vars(service = "breakers" /\ Check(b))
        /\ WF_vars(service = "breakers" /\ Report(b))

ResourcesFairness ==
    /\ SF_resources(service = "resources" /\ Resources!Monitor)
    /\ WF_resources(service = "resources" /\ Resources!Enforcement)
    /\ \A c \in Caller :
         WF_resources(service = "resources" /\ Resources!Proceed(c))

LifecycleFairness ==
    /\ WF_lifecycle(service = "lifecycle" /\ Lifecycle!EventLoop)
    /\ WF_lifecycle(service = "lifecycle" /\ Lifecycle!Monitor)
    /\ \A a \in Agent :
         WF_lifecycle(service = "lifecycle" /\ Lifecycle!TimePasses(a))
    /\ \A c \in Caller :
         WF_lifecycle(service = "lifecycle" /\ Lifecycle!Proceed(c))

ErrorsFairness ==
    /\ WF_errors(service = "errors" /\ Errors!EventLoop)
    /\ WF_errors(service = "errors" /\ Errors!CleanupLoop)
    /\ \A a \in Culprit : WF_errors(service = "errors" /\ Errors!Age(a))

CliFairness ==
    /\ WF_execution(service = "cli" /\ Cli!WallClock)
    /\ WF_execution(service = "cli" /\ Cli!KillProcess)

ServicesSpec ==
    /\ ServicesInit
    /\ [][ServicesNext]_<<service, vars, resources, lifecycle, errors, tool,
                         execution>>
    /\ BreakersFairness /\ ResourcesFairness
    /\ LifecycleFairness /\ ErrorsFairness /\ CliFairness

-----------------------------------------------------------------------------
(* Properties, stated and commented in the modules of the services *)

\* Whole units of the machine are neither charged nor credited twice
\* (resource/mod.rs:833).
UnitsAddUp == Resources!UnitsAddUp

\* A deallocation that was asked for is done (resource/mod.rs:288).
DeallocationIsDone == Resources!DeallocationIsDone

\* The table of agents and their restarts keep to their limits
\* (lifecycle/mod.rs:302).
TableIsLimited == Lifecycle!TableIsLimited

\* A breaker of an agent is open when it has counted enough failures
\* (error_handler/mod.rs:697).
FailuresAreCounted == Errors!FailuresAreCounted

\* An agent that never becomes ready is given up (lifecycle/mod.rs:307).
GivesUp == Lifecycle!GivesUp

\* An open breaker of an agent does not stay (error_handler/mod.rs:419).
OpenIsLeft == Errors!OpenIsLeft

\* A tool session keeps its callers apart (session_executor.rs:131).
SessionIsSound == Tool!SessionIsSound

\* What an execution of a tool reports is what happened (executor.rs:319).
ResultIsTrue == Cli!ResultIsTrue

\* An execution of a tool ends (executor.rs:260).
ExecutionEnds == Cli!ExecutionEnds

=============================================================================
