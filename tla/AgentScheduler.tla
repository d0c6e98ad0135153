--------------------------- MODULE AgentScheduler ---------------------------
(***************************************************************************)
(* The agent scheduler (scheduler/mod.rs) with its priority queue          *)
(* (priority_queue.rs), the pool of the load balancer (load_balancer.rs)   *)
(* and the task manager with its command channel (task_manager.rs).        *)
(*                                                                         *)
(* The scheduler loop, the health loop, the task loop, the shutdown and the*)
(* callers of the API run in parallel.  Each map has its own lock, so an   *)
(* operation is one step for each map it touches.                          *)
(*                                                                         *)
(* A task is the number of its scheduling: the smaller, the older.  An     *)
(* agent may be scheduled again at any time: a cron job fires with the     *)
(* agent id of its configuration.  Every task takes one unit of the pool.  *)
(***************************************************************************)
EXTENDS Naturals, Sequences, FiniteSets

CONSTANTS Thread,           \* callers of the API
          Agent,
          Persistent,       \* agents whose process is not waited for
          Priority,
          MaxConcurrent,    \* config.max_concurrent_agents
          Capacity,         \* units of the resource pool
          ChannelSize,      \* of the command channel (1024)
          MaxTasks,         \* bound: tasks scheduled in a run
          MaxCalls,         \* bound: operations called in a run
          ShutsDown         \* bound: whether a run has a shutdown

ASSUME SchedulerAssumption ==
    /\ IsFiniteSet(Agent) /\ IsFiniteSet(Thread)
    /\ {"health", "stopper"} \intersect Thread = {}
    /\ Persistent \subseteq Agent
    /\ Priority \subseteq Nat
    /\ MaxConcurrent \in Nat /\ Capacity \in Nat
    /\ ChannelSize \in Nat /\ MaxTasks \in Nat /\ MaxCalls \in Nat
    /\ ShutsDown \in BOOLEAN

Task == 1 .. MaxTasks

None == 0

Caller == Thread \union {"health", "stopper"}

VARIABLES
    up,           \* is_running
    issued,       \* agent and priority of the tasks made so far
    queue,        \* the heap
    members,      \* the index of the heap
    loop,         \* the scheduler loop: where it is and the task it holds
    allocated,    \* the tasks whose allocation the pool holds
    running,      \* running_agents: the task of each agent, or None
    suspended,    \* suspended_agents
    handles,      \* running_tasks of the task manager
    channel,      \* commands to the task loop
    executing,    \* the task that the task loop executes, or None
    expired,      \* tasks whose handle is older than the timeout
    failed,       \* health loop: agents still to be removed
    stopping,     \* shutdown: where it is and the agents still to be stopped
    call,         \* the operation of each caller
    calls,        \* how many were made
    sent,         \* history: tasks handed to the task manager
    gone,         \* history: tasks let go before that
    restored      \* history: tasks put back by a suspension that failed

queueVars == <<issued, queue, members>>
loopVars == <<loop, allocated>>
agentVars == <<running, suspended>>
taskVars == <<handles, channel, executing, expired>>
control == <<up, failed, stopping>>
history == <<sent, gone, restored>>

vars == <<queueVars, loopVars, agentVars, taskVars, control, history, call,
          calls>>

AgentOf(i) == issued[i].agent

Running == {a \in Agent : running[a] # None}

\* `task` is the suspended task, or the handle to be terminated.
Idle == [op |-> "none", agent |-> None, at |-> "idle", task |-> None,
         handle |-> None]

Init ==
    /\ up = TRUE
    /\ issued = <<>> /\ queue = {} /\ members = {}
    /\ loop = [at |-> "tick", task |-> None]
    /\ allocated = {}
    /\ running = [a \in Agent |-> None]
    /\ suspended = [a \in Agent |-> None]
    /\ handles = [a \in Agent |-> None]
    /\ channel = <<>> /\ executing = None /\ expired = {}
    /\ failed = {}
    /\ stopping = [at |-> "up", todo |-> {}]
    /\ call = [c \in Caller |-> Idle] /\ calls = 0
    /\ sent = {} /\ gone = {} /\ restored = {}

-----------------------------------------------------------------------------
(* The priority queue *)

\* Faulty variant: of two that are as urgent the younger goes first.
BeforeYounger(i, j) ==
    \/ issued[i].priority > issued[j].priority
    \/ issued[i].priority = issued[j].priority /\ i > j

\* The order of the heap: the more urgent first, then the older.
Before(i, j) ==
    \/ issued[i].priority > issued[j].priority
    \/ issued[i].priority = issued[j].priority /\ i < j

First == CHOOSE i \in queue : \A j \in queue \ {i} : Before(i, j)

Push(i, a) ==
    /\ queue' = queue \union {i}
    /\ members' = members \union {a}

\* pop and remove: the agent leaves the index, though the heap may have another
\* task of it.
TakeOut(i) ==
    /\ queue' = queue \ {i}
    /\ members' = members \ {AgentOf(i)}

\* What remove may find: any task of the agent, as the heap is searched in its
\* own order, and none when the index does not know the agent.
Queued(a) ==
    IF a \in members THEN {i \in queue : AgentOf(i) = a} ELSE {}

-----------------------------------------------------------------------------
(* The scheduler loop *)

HoldNothing(place) == loop' = [at |-> place, task |-> None]

\* With a place free, the first task is taken out of the queue.  The routing
\* engine lets it pass, with a decision or with an error, or denies it.
Pop ==
    /\ loop.at = "tick" /\ up /\ queue # {}
    /\ Cardinality(Running) < MaxConcurrent
    /\ TakeOut(First)
    /\ \/ loop' = [at |-> "allocate", task |-> First] /\ UNCHANGED gone
       \/ HoldNothing("tick") /\ gone' = gone \union {First}
    /\ UNCHANGED <<issued, allocated, agentVars, taskVars, control, sent,
                   restored, call, calls>>

StopLoop ==
    /\ loop.at = "tick" /\ ~up
    /\ HoldNothing("stopped")
    /\ UNCHANGED <<queueVars, allocated, agentVars, taskVars, control, history,
                   call, calls>>

HasResources == Cardinality(allocated) < Capacity

\* The agent is marked as running before its task is started.
Allocate ==
    /\ loop.at = "allocate" /\ HasResources
    /\ allocated' = allocated \union {loop.task}
    /\ running' = [running EXCEPT ![AgentOf(loop.task)] = loop.task]
    /\ loop' = [loop EXCEPT !.at = "start"]
    /\ UNCHANGED <<queueVars, suspended, taskVars, control, history, call,
                   calls>>

\* Faulty variant: a task that finds no resources is dropped.
DropTask ==
    /\ loop.at = "allocate" /\ ~HasResources
    /\ HoldNothing("tick")
    /\ UNCHANGED <<queueVars, allocated, agentVars, taskVars, control, history,
                   call, calls>>

\* Without resources the task goes back to the queue.
PutBack ==
    /\ loop.at = "allocate" /\ ~HasResources
    /\ Push(loop.task, AgentOf(loop.task))
    /\ HoldNothing("tick")
    /\ UNCHANGED <<issued, allocated, agentVars, taskVars, control, history,
                   call, calls>>

\* start_task: the handle is stored, then the command is sent.
StoreHandle ==
    /\ loop.at = "start"
    /\ handles' = [handles EXCEPT ![AgentOf(loop.task)] = loop.task]
    /\ loop' = [loop EXCEPT !.at = "send"]
    /\ UNCHANGED <<queueVars, allocated, agentVars, channel, executing,
                   expired, control, history, call, calls>>

HasRoom == Len(channel) < ChannelSize

SendStart ==
    /\ loop.at = "send"
    /\ IF HasRoom
       THEN /\ channel' = Append(channel, [op |-> "start", task |-> loop.task])
            /\ sent' = sent \union {loop.task}
            /\ HoldNothing("tick")
       ELSE /\ loop' = [loop EXCEPT !.at = "undo"]
            /\ UNCHANGED <<channel, sent>>
    /\ UNCHANGED <<queueVars, allocated, agentVars, handles, executing,
                   expired, control, gone, restored, call, calls>>

\* Faulty variant: the allocation of a task that did not start is kept.
UndoRunning ==
    /\ loop.at = "undo"
    /\ running' = [running EXCEPT ![AgentOf(loop.task)] = None]
    /\ gone' = gone \union {loop.task}
    /\ HoldNothing("tick")
    /\ UNCHANGED <<queueVars, allocated, suspended, taskVars, control, sent,
                   restored, call, calls>>

\* The channel was full: whatever task the agent runs leaves the running map
\* and the allocation is given back; the handle stays.
UndoStart ==
    /\ loop.at = "undo"
    /\ running' = [running EXCEPT ![AgentOf(loop.task)] = None]
    /\ allocated' = allocated \ {loop.task}
    /\ gone' = gone \union {loop.task}
    /\ HoldNothing("tick")
    /\ UNCHANGED <<queueVars, suspended, taskVars, control, sent, restored,
                   call, calls>>

SchedulerLoop ==
    \/ Pop \/ StopLoop \/ Allocate \/ PutBack
    \/ StoreHandle \/ SendStart \/ UndoStart

-----------------------------------------------------------------------------
(* The operations of the API and of the two callers inside the scheduler *)

At(c, place) == call[c].at = place

Goto(c, place) == call' = [call EXCEPT ![c].at = place]

Return(c) == call' = [call EXCEPT ![c] = Idle]

Begin(c, op, a, place) ==
    /\ call[c] = Idle
    /\ call' = [call EXCEPT ![c] =
                   [Idle EXCEPT !.op = op, !.agent = a, !.at = place]]

\* Bound: there is a number for each push that is on its way.
HasNumber ==
    Len(issued) + Cardinality({c \in Caller : At(c, "push")}) < MaxTasks

\* The look at is_running is a step before the operation.
Invoke(t) ==
    /\ \E a \in Agent :
          \/ up /\ HasNumber /\ Begin(t, "schedule", a, "push")
          \/ up /\ Begin(t, "reschedule", a, "lookup")
          \/ \E op \in {"terminate", "delete", "suspend"} :
                Begin(t, op, a, "take")
    /\ calls < MaxCalls /\ calls' = calls + 1
    /\ UNCHANGED <<queueVars, loopVars, agentVars, taskVars, control, history>>

\* schedule_agent, and the end of resume_agent.
PushNew(c) ==
    /\ At(c, "push")
    /\ \E p \in IF call[c].task = None THEN Priority
                ELSE {issued[call[c].task].priority} :
          issued' = Append(issued, [agent |-> call[c].agent, priority |-> p])
    /\ Push(Len(issued) + 1, call[c].agent)
    /\ Return(c)
    /\ UNCHANGED <<loopVars, agentVars, taskVars, control, history, calls>>

\* resume_agent: the suspended task, to be pushed with the time of now.
Resume(t) ==
    /\ HasNumber /\ call[t] = Idle
    /\ calls < MaxCalls /\ calls' = calls + 1
    /\ \E a \in Agent :
          /\ suspended[a] # None
          /\ suspended' = [suspended EXCEPT ![a] = None]
          /\ call' = [call EXCEPT ![t] =
                         [Idle EXCEPT !.op = "resume", !.agent = a,
                                      !.at = "push", !.task = suspended[a]]]
    /\ UNCHANGED <<queueVars, loopVars, running, taskVars, control, history>>

SetPriority(i) ==
    \E p \in Priority : issued' = [issued EXCEPT ![i].priority = p]

\* reschedule_agent and update_agent: the running task, or else a queued one,
\* which is taken out and pushed again under the lock of the queue.
Lookup(c) ==
    /\ At(c, "lookup")
    /\ LET i == running[call[c].agent] IN
       IF i # None THEN SetPriority(i) /\ Return(c)
       ELSE UNCHANGED issued /\ Goto(c, "requeue")
    /\ UNCHANGED <<queue, members, loopVars, agentVars, taskVars, control,
                   history, calls>>

Requeue(c) ==
    /\ At(c, "requeue")
    /\ IF Queued(call[c].agent) = {} THEN UNCHANGED issued
       ELSE \E i \in Queued(call[c].agent) : SetPriority(i)
    /\ Return(c)
    /\ UNCHANGED <<queue, members, loopVars, agentVars, taskVars, control,
                   history, calls>>

\* The agent leaves the running map; if it was there its task is terminated.
\* The health loop does not look whether it was.
Take(c) ==
    /\ At(c, "take")
    /\ LET a == call[c].agent
           o == call[c].op
       IN  /\ running' = [running EXCEPT ![a] = None]
           /\ IF running[a] # None \/ o = "reap"
              THEN call' = [call EXCEPT
                               ![c].at = "unhandle",
                               ![c].task = IF o = "suspend" THEN running[a]
                                           ELSE None]
              ELSE IF o = "suspend" THEN Return(c)
              ELSE Goto(c, "unqueue")
    /\ UNCHANGED <<queueVars, loopVars, suspended, taskVars, control, history,
                   calls>>

\* What an operation goes on to when terminate_task has returned.
Terminated(c, ok) ==
    CASE call[c].op = "delete" -> Goto(c, "unqueue")
      [] call[c].op = "suspend" -> Goto(c, IF ok THEN "suspend" ELSE "restore")
      [] OTHER -> Return(c)

\* terminate_task: the handle is taken, then the command is sent.
Unhandle(c) ==
    /\ At(c, "unhandle")
    /\ LET a == call[c].agent IN
       /\ handles' = [handles EXCEPT ![a] = None]
       /\ IF handles[a] = None THEN Terminated(c, TRUE)
          ELSE call' = [call EXCEPT ![c].at = "stop", ![c].handle = handles[a]]
    /\ UNCHANGED <<queueVars, loopVars, agentVars, channel, executing, expired,
                   control, history, calls>>

SendTerminate(c) ==
    /\ At(c, "stop")
    /\ channel' = IF HasRoom
                  THEN Append(channel,
                              [op |-> "terminate", task |-> call[c].handle])
                  ELSE channel
    /\ Terminated(c, HasRoom)
    /\ UNCHANGED <<queueVars, loopVars, agentVars, handles, executing, expired,
                   control, history, calls>>

Suspend(c) ==
    /\ At(c, "suspend")
    /\ suspended' = [suspended EXCEPT ![call[c].agent] = call[c].task]
    /\ Return(c)
    /\ UNCHANGED <<queueVars, loopVars, running, taskVars, control, history,
                   calls>>

\* The task could not be stopped and goes back to the running map.
Restore(c) ==
    /\ At(c, "restore")
    /\ running' = [running EXCEPT ![call[c].agent] = call[c].task]
    /\ restored' = restored \union {call[c].task}
    /\ Return(c)
    /\ UNCHANGED <<queueVars, loopVars, suspended, taskVars, control, sent,
                   gone, calls>>

Unqueue(c) ==
    /\ At(c, "unqueue")
    /\ IF Queued(call[c].agent) = {} THEN UNCHANGED <<queue, members, gone>>
       ELSE \E i \in Queued(call[c].agent) :
               TakeOut(i) /\ gone' = gone \union {i}
    /\ Return(c)
    /\ UNCHANGED <<issued, loopVars, agentVars, taskVars, control, sent,
                   restored, calls>>

Step(c) ==
    \/ PushNew(c) \/ Lookup(c) \/ Requeue(c) \/ Take(c) \/ Unhandle(c)
    \/ SendTerminate(c) \/ Suspend(c) \/ Restore(c) \/ Unqueue(c)

-----------------------------------------------------------------------------
(* The task loop: one command at a time *)

\* The process is launched, or cannot be.
ReceiveStart ==
    /\ executing = None /\ channel # <<>> /\ Head(channel).op = "start"
    /\ channel' = Tail(channel)
    /\ executing' \in {Head(channel).task, None}
    /\ UNCHANGED <<queueVars, loopVars, agentVars, handles, expired, control,
                   history, call, calls>>

ReceiveTerminate ==
    /\ executing = None /\ channel # <<>> /\ Head(channel).op = "terminate"
    /\ channel' = Tail(channel)
    /\ UNCHANGED <<queueVars, loopVars, agentVars, handles, executing, expired,
                   control, history, call, calls>>

EndExecution ==
    /\ executing # None
    /\ executing' = None
    /\ UNCHANGED <<queueVars, loopVars, agentVars, handles, channel, expired,
                   control, history, call, calls>>

\* The process of a persistent agent is not waited for; any other until the
\* timeout, which is taken to pass with that of the handle.
IsDue == AgentOf(executing) \in Persistent \/ executing \in expired

EndWhenDue == executing # None /\ IsDue /\ EndExecution

\* A process may end at any time, and may not.
ProcessEnds == EndExecution

\* The timeout passes since start_task made the handle.
TimePasses(i) ==
    /\ i \in (sent \union {handles[a] : a \in Agent}) \ expired
    /\ expired' = expired \union {i}
    /\ UNCHANGED <<queueVars, loopVars, agentVars, handles, channel, executing,
                   control, history, call, calls>>

-----------------------------------------------------------------------------
(* The health loop *)

\* Faulty variant: an agent without a handle passes for healthy.
UnhealthyWhenOld(a) ==
    running[a] # None /\ handles[a] # None /\ handles[a] \in expired

\* check_task_health: no handle, or one that is too old.
Unhealthy(a) ==
    running[a] # None /\ (handles[a] = None \/ handles[a] \in expired)

\* The scan of the running map is one step; what it found may be out of date
\* when the agents are removed one by one.
Scan ==
    /\ up /\ failed = {} /\ call["health"] = Idle
    /\ failed' = {a \in Agent : Unhealthy(a)}
    /\ UNCHANGED <<queueVars, loopVars, agentVars, taskVars, up, stopping,
                   history, call, calls>>

Reap ==
    /\ \E a \in failed :
          /\ failed' = failed \ {a}
          /\ Begin("health", "reap", a, "take")
    /\ UNCHANGED <<queueVars, loopVars, agentVars, taskVars, up, stopping,
                   history, calls>>

-----------------------------------------------------------------------------
(* Shutdown *)

BeginShutdown ==
    /\ up /\ ShutsDown
    /\ calls < MaxCalls /\ calls' = calls + 1
    /\ up' = FALSE
    /\ stopping' = [stopping EXCEPT !.at = "list"]
    /\ UNCHANGED <<queueVars, loopVars, agentVars, taskVars, failed, history,
                   call>>

\* The agents that run now are listed, for the graceful pass and then for the
\* forced one.
ListRunning ==
    /\ stopping.at \in {"list", "relist"}
    /\ stopping' = [at |-> IF stopping.at = "list" THEN "graceful"
                           ELSE "force",
                    todo |-> Running]
    /\ UNCHANGED <<queueVars, loopVars, agentVars, taskVars, up, failed,
                   history, call, calls>>

\* shutdown_agent and terminate_agent do the same but for the registry.
StopListed ==
    /\ \E a \in stopping.todo :
          /\ stopping' = [stopping EXCEPT !.todo = @ \ {a}]
          /\ Begin("stopper", "terminate", a, "take")
    /\ UNCHANGED <<queueVars, loopVars, agentVars, taskVars, up, failed,
                   history, calls>>

\* The graceful pass ends with its list, or after 30 s.
EndGraceful ==
    /\ stopping.at = "graceful" /\ call["stopper"] = Idle
    /\ stopping' = [at |-> "relist", todo |-> {}]
    /\ UNCHANGED <<queueVars, loopVars, agentVars, taskVars, up, failed,
                   history, call, calls>>

\* Faulty variant: the shutdown waits until no agent runs.
EndShutdownWhenIdle ==
    /\ stopping = [at |-> "force", todo |-> {}] /\ call["stopper"] = Idle
    /\ Running = {}
    /\ stopping' = [stopping EXCEPT !.at = "done"]
    /\ queue' = {} /\ members' = {}
    /\ gone' = gone \union queue
    /\ UNCHANGED <<issued, loopVars, agentVars, taskVars, up, failed, sent,
                   restored, call, calls>>

\* cleanup_resources gives back what agents were allocated under their ids, of
\* which the pool has nothing; then the queue is cleared.
EndShutdown ==
    /\ stopping = [at |-> "force", todo |-> {}] /\ call["stopper"] = Idle
    /\ stopping' = [stopping EXCEPT !.at = "done"]
    /\ queue' = {} /\ members' = {}
    /\ gone' = gone \union queue
    /\ UNCHANGED <<issued, loopVars, agentVars, taskVars, up, failed, sent,
                   restored, call, calls>>

Shutdown == ListRunning \/ StopListed \/ EndGraceful \/ EndShutdown

-----------------------------------------------------------------------------

Next ==
    \/ SchedulerLoop
    \/ ReceiveStart \/ ReceiveTerminate \/ EndWhenDue \/ ProcessEnds
    \/ \E i \in Task : TimePasses(i)
    \/ Scan \/ Reap
    \/ BeginShutdown \/ Shutdown
    \/ \E t \in Thread : Invoke(t) \/ Resume(t)
    \/ \E c \in Caller : Step(c)

Spec == Init /\ [][Next]_vars

\* Every loop is a task of the runtime that is never blocked, operations that
\* have begun go on, and the clock goes on.
Fairness ==
    /\ WF_vars(SchedulerLoop)
    /\ WF_vars(ReceiveStart \/ ReceiveTerminate) /\ WF_vars(EndWhenDue)
    /\ \A i \in Task : WF_vars(TimePasses(i))
    /\ WF_vars(Scan) /\ WF_vars(Reap)
    /\ WF_vars(Shutdown)
    /\ \A c \in Caller : WF_vars(Step(c))

FairSpec == Spec /\ Fairness

-----------------------------------------------------------------------------
(* Properties *)

\* The type of every variable.
TypeOK ==
    /\ up \in BOOLEAN
    /\ issued \in Seq([agent : Agent, priority : Priority])
    /\ Len(issued) <= MaxTasks
    /\ queue \subseteq Task /\ members \subseteq Agent
    /\ loop \in [at : {"tick", "allocate", "start", "send", "undo", "stopped"},
                 task : Task \union {None}]
    /\ running \in [Agent -> Task \union {None}]
    /\ suspended \in [Agent -> Task \union {None}]
    /\ handles \in [Agent -> Task \union {None}]
    /\ channel \in Seq([op : {"start", "terminate"}, task : Task])
    /\ executing \in Task \union {None}
    /\ failed \subseteq Agent
    /\ stopping \in [at : {"up", "list", "graceful", "relist", "force",
                           "done"},
                     todo : SUBSET Agent]
    /\ UNION {allocated, expired, sent, gone, restored} \subseteq Task

InHand == IF loop.task = None THEN {} ELSE {loop.task}

Places == <<queue, InHand, sent, gone>>

\* Every scheduling that was accepted is at one place: in the queue, in the
\* hands of the scheduler loop, handed to the task manager, or let go, whatever
\* the callers, the loops and the shutdown do in between (mod.rs:383-427).
EachTaskOnce ==
    /\ UNION {Places[k] : k \in 1 .. 4} = 1 .. Len(issued)
    /\ \A j, k \in 1 .. 4 : j # k => Places[j] \intersect Places[k] = {}

\* No more agents run than max_concurrent_agents, not counting tasks that a
\* failed suspension put back (mod.rs:382, 1222).
RunningWithinLimit ==
    Cardinality({a \in Running : running[a] \notin restored}) <= MaxConcurrent

Allocating ==
    IF loop.at \in {"start", "send", "undo"} THEN {loop.task} ELSE {}

\* The pool never gives more than it has, holds nothing for a task that was not
\* started, and holds the unit of every task in the running map; but a task
\* whose start was undone may be put back there by a suspension that fails
\* (mod.rs:419-426, 1222).
AllocationsAreUsed ==
    /\ Cardinality(allocated) <= Capacity
    /\ allocated \subseteq sent \union Allocating
    /\ \A a \in Running : running[a] \in allocated \union gone

\* The index never names an agent of which the heap has no task, however often
\* the agent was scheduled (priority_queue.rs:50, 58).
IndexedIsQueued == \A a \in members : Queued(a) # {}

\* The pool has a unit besides those of some tasks that were handed over.
UnitBesides(tasks) == Cardinality(tasks) < Capacity

Pool == INSTANCE TaskPool WITH
    open <- up, waiting <- queue, held <- InHand, started <- sent,
    kept <- allocated \intersect sent, cancelled <- gone,
    HasUnit <- UnitBesides

\* The scheduler implements the pool: the loop takes up the first task of the
\* heap, and whatever callers, loops and the shutdown do, a task comes to its
\* start or its end once (mod.rs:383-427, 727-824).
ImplementsPool == Pool!Spec

\* Scheduling the same agent again while the loops and the other operations
\* are at work loses no task and leaves no name behind.
TasksAreKept == TypeOK /\ EachTaskOnce /\ IndexedIsQueued

\* A start keeps both limits, and what it takes it uses or gives back, whichever
\* of its steps fails.
StartsAreSound == RunningWithinLimit /\ AllocationsAreUsed

\* The two together.
TasksAreSound == TasksAreKept /\ StartsAreSound

\* While the scheduler is up no task keeps its place in the running map for
\* ever: it is removed once it has no handle or is too old (mod.rs:466-485).
RunningIsReaped ==
    \A a \in Agent, i \in Task : (running[a] = i) ~> (running[a] # i \/ ~up)

\* A shutdown that has begun is completed, whatever the agents it stops, the
\* loops and the callers do (mod.rs:727-824).
ShutdownEnds == (stopping.at # "up") ~> (stopping.at = "done")

\* "Step 5: Release all allocated resources" (mod.rs:809): after a shutdown that
\* stopped every agent, with the scheduler loop stopped too, the pool is empty.
ReleasedAtShutdown ==
    stopping.at = "done" /\ Running = {} /\ loop.at = "stopped"
    => allocated = {}

=============================================================================
