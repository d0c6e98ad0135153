# Symbiont: a verification project

TLA+ models of the Symbiont agent runtime (`ThirdKeyAI/Symbiont`), TLC runs that
check them on small instances, and TLAPS proofs of the main invariants for every
value of the constants. The reference is the source: each definition that models
code names the lines it models in `PROJECT.json` (`map`), and line numbers in
comments and below refer to the same commit. Paths without a prefix are under
`crates/runtime/src/`.

Contents

1. The system: components, state, operations, interactions
2. What is hard in this code
3. The modules and how they correspond to the code
4. The runs: what they check, bounds, fairness
5. Deviations the runs show, and others met on the way
6. The proofs
7. What is only model-checked, and what is not modelled
8. The plan

To check one run: `tlc -config Reasoning_safety.cfg MCReasoning`. To check
one proof module: `tlapm ReasoningLoop_proofs.tla`.

## 1. The system

Symbiont runs AI agents under policy. One process holds the components below; they
share state through `Arc<RwLock<..>>` maps and talk through tokio channels.

| Component | State it keeps | Operations | Modelled |
|---|---|---|---|
| Reasoning loop (`reasoning/reasoning_loop.rs`, `phases.rs`, `loop_types.rs`) | one `LoopState` per run: iteration, tokens, conversation, observations; the phase is a type parameter | reason, check policy, dispatch tools, observe; a wall-clock timeout around the whole; a journal entry per phase | `ReasoningLoop` |
| Context strategies, truncation (`conversation.rs`, `context_manager.rs`) | the conversation of the run | sliding window, observation masking, anchored summary | `ContextWindow` |
| Circuit breakers and executor (`circuit_breaker.rs`, `executor.rs`) | one breaker per tool, shared by all loops | check, record success, record failure; a batch of tool calls | `CircuitBreaker` |
| Escalation queue and gate (`escalation/`, `api/escalation_routes.rs`) | held actions with their oneshot sender | hold, notify, wait with a timer, resolve through chat or REST, audit | `EscalationQueue` |
| Approval relay (`crates/approval-relay`) | pending requests with their oneshot, the lock of stdin, Slack's messages, an audit file | prompt in the terminal, post to Slack, press, expire, deliver | `ApprovalRelay` |
| Session types (`crates/symbi-session`) | none: a compiler | project a global protocol on a role, build its machine, check well-formedness | `SessionTypes` |
| Session monitor, registry and gate (`monitor.rs`, `session/`, `communication/policy_gate.rs`, `repl-core/src/dsl/agent_composition.rs`) | machine states per role, status, deadline, transcript | open, observe, refresh, abort, expire, record | `SessionMonitor`, `MonitoredSession` |
| Agent scheduler (`scheduler/mod.rs`, `priority_queue.rs`, `task_manager.rs`, `load_balancer.rs`) | heap and index, running and suspended maps, pool, handles, command channel | schedule, reschedule, update, terminate, shut down, delete, suspend, resume; scheduler, health and task loops; shutdown | `AgentScheduler` |
| Communication bus (`communication/mod.rs`) | inboxes, subscriptions, tracker, dead letters, pending requests, event channel | send, publish, request, receive, register, unregister, subscribe; event and cleanup loops; shutdown | `CommunicationBus` |
| Cron scheduler and job store (`scheduler/cron_scheduler.rs`, `job_store.rs`) | job rows in SQLite; running counts in memory | tick, run, dead-letter, add, pause, resume, update, remove, shutdown | `CronScheduler` |
| Resource manager (`resource/mod.rs`) | allocations, usage samples, free units, request channel | allocate, deallocate, update usage, set limits, status; monitoring and enforcement loops; shutdown | `ResourceManager` |
| Lifecycle controller (`lifecycle/mod.rs`) | the table of agents, the event channel | initialize, start, suspend, resume, terminate; event loop, monitor; shutdown | `LifecycleController` |
| Saga orchestrator (`reasoning/saga.rs`) | a checkpoint of intents and outcomes that survives a crash | execute, execute with checkpoint, compensate, recover | `SagaOrchestrator` |
| Durable journal (`reasoning/journal.rs`) | stored entries, a counter in memory | append, compact, initialize | `DurableJournal` |
| Context manager (`context/manager.rs`) | contexts in memory, in files and in archives | store, retrieve, create session, update memory, add knowledge, compact, retain, shut down, initialize | `ContextManager` |
| Error handler (`error_handler/mod.rs`) | error records, breakers per agent, strategies, event channel | handle, register a strategy, clear; event and clean-up loops; shutdown | `ErrorHandler` |
| Interactive tools (`toolclad/session_executor.rs`) | the sessions of tools behind one mutex, their transcripts | execute a command in a session, read a prompt, clean up | `SessionExecutor` |
| CLI executor and watchdog (`cli_executor/`) | a child process with its group, two streams, the timers | run, kill on silence, kill on time | `CliExecutor` |
| Delegation, human critic, knowledge bridge, policy gates | little | called from the loop | parts of the loop's environment |
| The rest (`PROJECT.json`, components) | configuration, caches, external clients | I/O, parsing, user interfaces | not modelled |

**How they interact.** The *scheduler* starts agents through a bounded command
channel to the task manager; the *cron scheduler* and the API call it, possibly
several times for one agent. A *reasoning loop* asks a policy gate about every
action the model proposes. The gate may be the *escalation gate*, which holds the
action until an operator resolves it or a timer elapses; a program that embeds the
*approval relay* asks one person through two channels instead. Approved calls go to
the *executor*, which asks the *circuit breakers* of the tools it is to call; they are
shared by all loops; an interactive tool is called through its *session*. Each phase
appends to the *journal*. Before each inference the context strategy cuts the
conversation to the token budget; the *context manager* keeps what an agent remembers
across runs. Agents send messages with the DSL primitives (`ask`, `delegate`,
`send_to`, ...): each of them asks the communication policy gate, which asks the
*session monitor* when a session is open. The *bus* carries messages between agents:
callers put events on a channel, and an event loop moves them to inboxes or to dead
letters. The *lifecycle controller*, *resource manager* and *error handler* follow one
pattern: callers send to a channel, one loop takes requests from it, another loop
looks at the tables on a timer, and a shutdown notifies both.

### What makes each component correct

* **Loop**: tools run only when permitted, once, in their turn, never after the
  result; budgets end the run; the journal knows every call that may have run; the
  model never sees a result without its call or a call without its result; the
  caller always gets a result.
* **Breakers**: trip at the threshold; a half-open period admits a bounded number of
  probes; an open circuit is left through half-open; recovery is always decided.
* **Escalation**: only an approval by an authorized operator lets a held action
  through; one resolution at most is accepted; what was accepted is what the call
  goes by; the map holds what is waited for.
* **Approval relay**: what a caller is given was decided and logged, who answered is
  heard, and Slack's message does not contradict the outcome of its buttons.
* **Sessions**: accepted messages follow the agreed global protocol; nothing the
  protocol allows is refused; a closed session is silent; the transcript keeps every
  accepted message; complete means ended.
* **Scheduler**: no task is lost or doubled; the concurrency limit holds; the pool
  holds nothing for what was not started; the index agrees with the heap; dead runs
  are reaped; a shutdown ends, and what ended gives its units back (which it does not,
  section 5).
* **Bus**: no message is lost or doubled; inboxes keep the order; a status tells
  where the message is; who waits for an answer has its entry, and no entry outlives
  its request but in two known ways; the loops do not block each other.
* **Cron**: an occurrence fires once; both counters count the live runs; a dead letter
  has failed often enough; what is due is served, and what is paused is not.
* **Resources, lifecycle, errors**: whole units are charged or free; a deallocation
  comes back; restarts and places keep to their limits, and an agent that never gets
  ready is given up; a breaker is open when it has counted enough failures, and does
  not stay open.
* **Saga, journal**: completed steps are undone in reverse and steps whose outcome is
  recorded are not run again; entries have distinct numbers.
* **Context manager**: what was acknowledged is kept in a file or an archive, or the
  operation that may take it away is known.
* **Interactive tools**: a caller gets the answer to its own command, and the
  transcript counts what was sent. **CLI executor**: an execution ends, the child with
  it, and the result is what happened.

## 2. What is hard in this code

`hazards` in `PROJECT.json` lists them at their lines. In groups:

* **Awaits that a timeout may cut.** `tokio::time::timeout` drops the run of a loop
  at any await, with whatever it holds: probes admitted by a breaker, held actions,
  calls between their verdict and their result. Slack drops a press handler with its
  HTTP call.
* **One operation, several locks.** Every map has a lock of its own; an operation
  that touches three maps has three steps and other tasks come in between. The bus,
  the resource manager and the context manager hold one lock while they wait for
  another.
* **What was read is used later.** Session labels are derived under one lock and
  judged under another; cron rows, contexts and lifecycle states are written back or
  judged from copies; the health loop removes what it found a moment ago.
* **The same thing twice.** An agent is scheduled while it is queued, suspended or
  running; a held action is resolved by several operators, or through two channels; a
  batch of calls overlaps another on the same breaker.
* **Crashes.** Rows, checkpoints, journals and context files survive the process; a
  step may come before its record, a record before its step, and a file may be empty
  between two writes.
* **Limits.** The command channel, the inboxes, the dead letters, the pool, the token
  budget, the context budget, the interactions of a session and the places of a job
  are all reached in the runs.
* **Shutdowns.** They notify loops that callers still need, or that hold something.

## 3. The modules

### CircuitBreaker

`breakers` is the registry's map; an absent entry behaves as a new breaker. `Check`,
`Report` and `Cancel` are the steps of a batch in `DefaultActionExecutor`: it asks
about all calls first, then runs those admitted and reports each as it arrives, or is
dropped by its loop's timeout. `RecoveryElapsed` is the clock (`elapsed` is whether
`recovery_timeout` has passed since the circuit opened). `probes` is a history
variable. `failure_count` saturates at `FailureCap`; the code only compares it with
the threshold, so nothing depends on the cap. `success_count` is never read.

### ContextWindow, ReasoningLoop, GovernedRun

`ContextWindow` holds the pure functions: `Pending` and `GroupEnds` are
`group_for_truncation`, `TruncateToBudget` is `Conversation::truncate_to_budget`, and
`ManageContext` applies one of the three strategies. A message is its role, calls,
the call it answers, and a size; texts are left out.

`ReasoningLoop` is one run. `pc` names the await at which it is suspended; an action
is the completion of that await and all the code up to the next one. The typestate
of the code (`AgentLoop<Reasoning>` ... ) is the value of `pc`. The journal entries
are appended where the code appends them, with the counts it writes. `Timeout` may
happen at every await inside the timeout. The model, the gate, the tools and the
journal storage answer arbitrarily.

`GovernedRun` is the abstract specification: turns, permission, execution, stop.
`Promise == INSTANCE GovernedRun WITH ...` in `ReasoningLoop` is the refinement
mapping, and `GovernedExecution == Promise!Spec` is checked and proved.

### EscalationQueue

A request is one call of `evaluate_action`; `pc` is its await. `entries` is the map of
held actions, each with its status and whether its sender is still there; `channel`
is the oneshot. The timer (`Elapse`), the resolution by an operator (`Resolve`), the
receipt, the removal of the entry, the dropping of the call by the loop's timeout
(`Drop`) and the writing of the audit record are separate steps, as they are
separated by awaits or lock releases in the code.

`Consent` is the abstract specification of both places where people are asked, this one
and the relay: voices say at most one word each about a case and never take it back,
a case is decided once, and one that needs consent is allowed only after a voice
consented. The operators are one voice (`Said`: the accepted resolution of one who is
authorized); the verdict of a call is the decision of its case.

### GlobalType, SessionTypes, Choreography; SessionMonitor, MonitoredSession, Agreement

`GlobalType` is the tree of `global.rs`. `SessionTypes` is the compiler: `Project` and
`Merge` (`project.rs`), the machine built from a local type (`fsm.rs`), and
`WellFormed` (`wellformed.rs`). Branches have an order, as `merge` compares them in it
and joins those of the second view behind those of the first. `SessionMonitor` is the
running session with the machines as parameters, so that it can be proved about:
opening, observing a message (both ends step or neither does), refresh, deadline,
abort, and recording under the second lock.

`Agreement` is the abstract specification: what is left of the protocol, and steps that
take a message that it offers. What is offered and what is then left are parameters;
`Choreography` defines them on the trees, without the compiler. `MonitoredSession` puts
monitor and agreement together: `left` is a history variable that follows the accepted
messages, and `FollowsProtocol == Promise!Spec` says that the session implements the
agreement. Between the two stands what the compiler owes them, `ExactFor`: from the
start on, as long as both ends of each message move together, the machines take exactly
what is offered, and all accept exactly when nothing is left. So the question is parted:
that the machines of a protocol are exact is a fact about trees, which needs recursion
and is checked by TLC for each protocol of the run (`ProjectionIsExact`, over the pairs
of a rest and a place of all machines that can be reached, `MCJoint`); that threads,
stale labels, aborts and expiry make nothing else of exact machines is proved for all.

The trees need recursive operators, so `SessionTypes`, `Choreography` and `MCSession` are
for TLC only; `SessionMonitor`, `MonitoredSession` and `Agreement` do not reach them.

### AgentScheduler

A task is the number of its scheduling. `queue` is the heap and `members` its index,
which the code keeps apart; `loop` is the scheduler loop with the task in its hands;
`handles`, `channel` and `executing` are the task manager. Every section under one
lock is one step, so a terminate is `Take`, `Unhandle`, `SendTerminate`, and the loop's
start is `Pop`, `Allocate`, `StoreHandle`, `SendStart` with `PutBack` and `UndoStart` for
its failures. Two abstractions: the test of `is_running` and of the limit is one step
with the pop, and the health scan reads all agents in one step.

`TaskPool` is the abstract specification, without heap, index, locks, task manager and
loops: tasks wait, the most urgent and then the oldest is taken up, one is in hand at a
time and is started, put back for want of a unit, or let go, and nothing comes back from
there. `Pool == INSTANCE TaskPool WITH ...` maps the queue, the hands of the loop and the
two history variables `sent` and `gone` to it; everything that happens to a task
after its start is a stutter.

### CommunicationBus

`work` is the event loop with what it has in hand, `cleanup` the cleanup loop.
`Burying` is the event loop waiting for the dead letters with the tracker and inboxes
locked, `Moving` the cleanup waiting for the tracker with the dead letters locked:
these are the only places where a lock is held while another is waited for, and the
guards `TrackerFree`, `QueuesFree` and `DeadLettersFree` say so. A request is the
entry, the message and the wait; its timer and its removal of the entry are separate
steps. A shutdown may or may not be heard by the event loop, as `notify_waiters`
wakes only a task that waits. `copied`, `received`, `evicted` and `gone` are history.
The size and signature checks refuse a message before anything is changed, so the model
starts with messages that pass them; but for a request, which enters itself in
`pending_requests` before it sends (`mod.rs:713`): a send that is refused, for its size,
for its signature or after a shutdown, leaves the entry, and so does a caller that is
dropped in the wait. `forsaken` are these entries.

`Mailboxes` is the abstract specification: messages are sets, taken up in the order of
their sending; one goes into the box of its addressee behind all that ever came there, or
dies because there is no box or it is full; a publication is copied for each subscriber
in turn; a request is answered once; what was fetched, died or ended stays so. Events,
tracker, locks and loops are gone. In the refinement mapping `Boxes` a message is on its
way (`transit`) while it is on the channel or in the hands of the event loop, and
`Unserved` are the subscribers that the publication in hand has still to reach, the one
whose copy is in hand included.

### ApprovalRelay

A request has a dispatcher task, a thread that prompts, a task that posts to Slack and
the handler of the press that found it pending; an action is what one of them does
between two awaits. The oneshot and the thread's result are sets of at most one
decision. A decision carries whether it was made before or after expiry. `Hangup` is
the HTTP call of a press that Slack gives up: the server drops the handler where it
is. The terminal has one lock (`reader`), which a prompt keeps until a line comes.
Whatever an append to the audit file does, it is taken to succeed. The relay implements
`Consent` too: the terminal and Slack are voices, and a prompt that fails refuses in the
name of the system.

### CronScheduler

`row` is the table of the store, where one call is one step; `loop` is the tick with
the rows it fetched, `live` the set of runs, `asks` a caller of the API with the row it
read. A job is due in each unit of the clock, the schedule with the most overlap.
`Fetch`, then `Skip` or `Fire` for each row; a run takes its places, is refused by
identity or policy, or runs and succeeds or fails, and ends. `Crash` loses the memory
and `Restart` begins again with the rows. An update may be refused by the store. Whether
a job runs once is in its row (`oneShot`), which an update of the schedule may change;
the tick decides by the copy it fetched. `fired` and `spent` are history: what has fired
since the job was last armed, and jobs that were fired as one-shot jobs. The module's
names begin with `Jobs` where a composite would have another of that name.

### ResourceManager, LifecycleController, ErrorHandler

The three loops with a channel. In `ResourceManager` the locks are derived from where
the loops and callers are (`AllocationsWritten`, `SystemRead`, `UsageRead`), so that a
circular wait would show as a deallocation that never ends. In `LifecycleController`
an event carries the state it was judged in; the monitor collects under one lock and
acts later; `crowded` is a history variable that counts the callers that looked for a
place while another was about to take one. In `ErrorHandler` an event is `Record`,
`Judge`, `Recover`, one lock each, and the clean-up is the only way out of an open
breaker.

The resource manager keeps the books of memory, processors, disk and network apart, and
the model follows those of one kind, which another may keep from being granted. Amounts
are in parts of a unit: processors are asked for in fractions, which the allocation
keeps, while the comparison, the charge and the credit cut them off (`Whole`, the
conversion to `u32` at `resource/mod.rs:828`, 839 and 855). The other kinds are the case
`Parts = 1`.

### SagaOrchestrator, DurableJournal

A saga is any plan that `SagaOrchestrator::new` accepts. A crash may come between a
step, its outcome and the record of it; a record may be refused. `Recover` reads the
intents without outcome and runs them in the order of the steps; intents, outcomes and
what is pending are sets of steps. The journal takes a number and stores an
entry in two steps (`Take`, `Store`); a compaction clears and resets in two steps;
`Initialize` reads the latest number back.

### ContextManager

The context of one agent: `cache` is the map's entry, `file` with `torn` what the disk
has, `archive` the archives. Each caller and the retention task is at a stage of its
operation; `WriteHeld` and `ReadHeld` derive who holds the lock from the stages. A save
is `CreateFile` (the file is empty) and `WriteFile`. A file operation may fail, and the
process may end anywhere. `owed` and `learned` are what callers were told is kept.

### SessionExecutor

One tool with its session: a call takes the mutex to check the number of interactions,
to start the session, and to send its command, and keeps it while it waits for a
prompt (`Locked`). Commands have numbers, so that an answer says whose it is. The tool
is external: it answers in order and may end.

### CliExecutor

One execution. `reader` is the watchdog of each stream, `at` the await of the executor,
`leader` the child and `helper` a process of its group that shares the streams. Whether
SIGTERM ends a process is chosen at the start (`heeds`). The wall clock drops whatever
the executor is at and begins a kill of its own. What a pipe holds is left open: a
read returns some units, and a child that waits for a full pipe is one that does
nothing.

### Composites: MCReasoning, MCServices, MCWaiting, MCSessionsAndJobs

Parts that share no state are put beside each other in one specification: `service` is
chosen in the initial state and only that part moves. A run of a composite therefore
has the union of the behaviours of its parts and not their product, and each property
is about its part only. They are ways to run the parts together; nothing is concluded
from one part about another. Fairness is stated for the part at work. A theorem about
a part is stated of the specification of its composite, for all its constants.

### MC modules and proofs

`MC*` instantiate a module for TLC. `*_proofs` hold theorems. A definition commented
as a *faulty variant* is a plausible bug in the definition below it; with the variant
in its place the run named in `PROJECT.json` (`mutants`) must fail.

## 4. The runs

| Run | Properties | Instance |
|---|---|---|
| `loop_safety` | `EveryCallAnswered`, `WindowFits`, `ResultIsEarned`, `JournalIsFaithful`, `GovernedExecution`, `Terminates` (loop); `AcknowledgedIsKept` (contexts); `SagaIsSound`, `SettledIsFinal` (saga); `NumbersAreDistinct` (journal) | three turns of up to two calls of all kinds, all verdicts, observation masking with its fallback to the sliding window; two callers, three operations, two items, two sessions, one accident; sagas of up to three steps, two errors, two crashes, three recoveries; two writers, four entries, a compaction, two restarts |
| `sessions_and_jobs_safety` | `FollowsProtocol`, `ProjectionIsExact`, `SessionIsFaithful` (sessions); `LimitsHold`, `RowsAreTrue`, `DueIsServed` (cron) | three roles, two threads, every well-formed protocol of two exchanges with or without a loop up to renaming, and four larger ones; a recurring job with two places and a one-shot job, two moments, one call, one refused update or one restart |
| `waiting_safety` | `ConsentIsAsked` (escalation and relay); `ResolutionIsSound`, `EveryCallReturns` (escalation); `RelayIsSound`, `AnsweredIsDelivered` (relay); `RunningIsReaped`, `ShutdownEnds` (scheduler) | one held and one passing request, three operators, two of them authorized; one request with and without Slack; one agent scheduled twice, three calls, a shutdown among them |
| `services_safety` | `BreakerIsSound`, `RecoveryIsDecided` (breakers); `UnitsAddUp`, `DeallocationIsDone` (resources); `TableIsLimited`, `GivesUp` (lifecycle); `FailuresAreCounted`, `OpenIsLeft` (errors); `SessionIsSound` (interactive tools); `ResultIsTrue`, `ExecutionEnds` (CLI executor) | one tool, two overlapping batches of up to two calls, threshold 2, two probes; two agents, two callers, two requests of up to one and a half units, two units; two agents, one place, one restart, three changes; one culprit, threshold 2; two users, one interaction, four commands; an output limit of two units and reads of up to two |
| `scheduler_safety` | `TasksAreSound`, `ImplementsPool` | two agents, three tasks, two priorities, one running place, two units, a channel of one, three calls by one thread, a shutdown among them or not |
| `bus_safety` | `MessagesAreSound`, `ImplementsMailboxes`, `PendingIsWaited`, `EventsAreProcessed` | one agent with an inbox of two, one requesting thread, two messages, one other call, one dead letter, a shutdown |
| `bus_deadlock` | `NoCircularWait` is violated | one registered agent, one that is not, two messages |
| `session_jump` | `NothingLegalDenied` is violated | a loop whose body is, for one role, a jump to the loop around it |
| `cron_paused` | `PausedIsQuiet` is violated | the same jobs, one caller, no failures |
| `scheduler_units` | `ReleasedAtShutdown` is violated | one agent that runs, one unit, a shutdown |
| `lifecycle_shutdown` | `ShutdownTerminates` is violated | one agent, one caller, two calls |
| `approval_expired` | `ExpiredIsDenied` is violated | one request |

Named parts: `EveryCallAnswered` is that every call the model is sent has its result
and the reverse, `WindowFits` that the window is within the budget or cannot be made
so. `ResultIsEarned` is that the token budget is passed by one inference at most, and
that a completed run was approved as complete. `JournalIsFaithful` is that calls are
journaled before they run and that the counts add up. `ResolutionIsSound` is one
resolution at most, delivery of what was accepted, that the map holds what is waited
for, and that nothing that needs approval passes without it. `ConsentIsAsked` is that
the queue and the relay, each in its part, implement `Consent`. `SessionIsFaithful` is
the types, that nothing legal is denied, that complete means ended, and that the
transcript keeps every accepted message. `TasksAreSound` is `TasksAreKept` (the types,
each task in one place, agreement of index and heap) and `StartsAreSound` (the limit
and the pool). `MessagesAreSound` is `EachMessageOnce` and `InboxesAreTrue` (the
types, the order of inboxes, truth of the statuses). `BreakerIsSound` is the trip
point and the bound on probes. `AuditIsSound` and `MessageIsTrue` make `RelayIsSound`;
`AnswersAreOwn` and `InteractionsAreCounted` make `SessionIsSound`; `UndoneInReverse`
and `FinalComesLast` make `SagaIsSound`; `FiresOnce` and `DeadLetteredForFailures`
make `RowsAreTrue`; `AcknowledgedIsKept` holds `StoredIsReadable`; `NobodyIsLeft` and
`LinesAreWhole` are parts of `ResultIsTrue`. `TableIsLimited` is `RestartsAreLimited`
and `PlacesAreLimited`: `max_agents` is passed only by callers that counted the places
while another had counted and not yet taken its own, by one agent for each
(`crowded`). `PendingIsWaited` is both directions between requests and entries, with
the entries that stay named (`forsaken`). The types of a module are the first part of
one of these (`ResultIsEarned`, `ResolutionIsSound`, `TableIsLimited`,
`FailuresAreCounted`, `TasksAreSound`, `MessagesAreSound`, `LimitsHold`,
`SagaIsSound`, `NumbersAreDistinct`, `AcknowledgedIsKept`, `SessionIsFaithful`,
`RelayIsSound`, `SessionIsSound`, `ResultIsTrue`); those of breakers and resources are
proved only.

### Bounds and why they are enough

* **breakers**: `MaxCalls` 2 and two batches are what it takes for a result to arrive
  after the circuit changed state, and for two batches to ask for the last probe; tools
  do not interact, so one is enough. Threshold and quota 2 tell "one off" from "never".
* **loop**: three iterations give a turn before, in and after the window; two calls a
  turn give a mixture of kinds and verdicts and both orders of results. The sizes (1
  and 6 against a budget of 8) make one result fit, two not, and one group exceed
  the budget alone. `Usages` 2 and 5 against 7 tokens reach, pass and just miss the
  budget.
* **escalation**: entries are keyed by a fresh id and requests meet nowhere but in the
  map's lock, so one held request and one that passes through show all there is;
  three operators so that two authorized and one refused race for one action. The
  safety properties are proved for any number.
* **relay**: requests share only the lock of the terminal, so the run has one; two
  requests (some 650 000 states) hold as well and need more time than a run has.
* **sessions**: protocols of two exchanges are all the ways in which a third role may
  or may not see a choice; `MCMaxCalls` limits the calls made by the protocol's length.
  `ProjectionIsExact` has no such bound: it goes through all places the machines can
  come to together.
* **scheduler**: three tasks for two agents means one agent has two of them; one
  running place and two units make both limits bite; a channel of one is full with one
  command. Agents are symmetric in the safety run only.
* **bus**: two messages are a request with its answer, a publication with a copy, or
  one that fills what the other needs. One call lets an agent subscribe, register
  anew or be unregistered while messages are under way, but with a single
  subscription per run a publication has at most one copy. Two agents with two calls,
  where a publication has two copies, hold as well (482 920 states, checked once) and are
  too many for a run; the properties are proved for any number.
* **cron**: two moments let a run of the first overlap the second, with a retry limit
  of two; the limits of the jobs differ, so that the limit of a job and the limit of
  all are reached apart.
* **resources**: two units, and two agents that ask for a half, one or one and a half:
  less than a unit is charged to nobody, two allocations fit and a third does not.
  **lifecycle**: two agents race for one place, which both count before either takes
  it (`crowded` is 1, and the table has two); one restart is used up.
  **errors**: a threshold of two tells a first failure from a trip; counts stop where
  the code only compares them, so callers may go on for ever.
* **saga**: three steps have a completed one, one before it and a final one; two errors,
  two crashes and three recoveries let a recovery itself be cut and repeated.
  **journal**: four entries by two writers go around a compaction and a restart.
* **contexts**: three operations by two callers are a change, a second one that saves an
  older copy, and one that reads; one accident is a failed file operation or an end.
* **interactive tools**: one interaction for two users makes both pass the check for the
  last place; four commands are the start, an answer that is late, and one that takes it.
* **CLI executor**: a line of stdout has two units, so a limit of two and reads of one or
  two units end within, at and past the limit, in the middle of a line and after it.

`CHECK_DEADLOCK FALSE` is set because the bounded callers of a run stop when their
calls are spent, and because a loop with its result or a part after its shutdown
really has ended.

### Fairness

* Breakers: the executor awaits its tools with their own timeouts, so an admitted call
  reports. Nothing is assumed of the timeout of a loop; `RecoveryIsDecided` has as
  premise that from some time on no batch is dropped.
* Loop: the timeout of `tokio::time::timeout` fires (`UnderTimeout`) and code between
  awaits goes on. Nothing is assumed of the model, the gate, the tools.
* Escalation: a ready call is polled and its timer fires. Nothing is assumed of
  operators or notifiers.
* Relay: the dispatcher goes on, and calls to Slack return, perhaps with an error. Nobody
  has to type or press.
* Scheduler: the three loops are tasks that are never blocked, operations that have
  begun go on, the clock goes on.
* Bus: the event loop, the cleanup loop and a caller inside `request` go on whenever
  the lock they wait for is free. Callers need not call.
* Cron: the tick loop and begun runs go on while the process is up.
* Resources: tokio's locks are fair, so that the monitoring loop gets the locks it waits
  for again and again: strong fairness. The enforcement loop and begun calls go on.
* CLI executor: the wall clock and the grace period elapse, and the kill goes on. The
  child may do nothing for ever.
* Lifecycle and errors: both loops, the clock and begun calls go on.
* Sessions, contexts, saga, journal and interactive tools have safety properties only:
  nothing in the repository drives them, and the read of an interactive tool may block
  for ever with the mutex locked.

## 5. Deviations

Found by the violation runs (`findings` in `PROJECT.json`):

1. `session_jump`: a binder whose body is directly a jump to an outer binder is copied
   before the outer one is filled (`fsm.rs:212`), and the role is refused legal messages.
2. `bus_deadlock`: the cleanup takes the dead letters and then the tracker, the event
   loop the tracker and then the dead letters (`communication/mod.rs:440`), against the
   order stated at `mod.rs:278`. `EventsAreProcessed` shows that nothing else stops
   the event loop.
3. `cron_paused`: the tick writes a row back as active and enabled after a pause that
   came between its fetch and its update (`cron_scheduler.rs:675`).
4. `lifecycle_shutdown`: the shutdown ends the event loop before it sends the
   terminations, which then fail and leave the agents in the table
   (`lifecycle/mod.rs:527`).
5. `approval_expired`: a line in the terminal approves a request whose time has passed
   (`approval-relay/src/cli.rs:92`); only Slack's presses look at the time.
6. `scheduler_units`: the units of a task that was started never come back, because the
   pool keeps them under a random id and releases them by the agent's
   (`load_balancer.rs:46`, `scheduler/mod.rs:1190`), and the clean-up of a shutdown lists
   running agents when none is left. `scheduler/mod.rs:809`,
   `docs/runtime-architecture.md:131` and the load balancer's `test_resource_deallocation`
   want them back. After `Capacity` starts nothing starts any more. `TasksAreSound`
   says only that the pool holds nothing for a task that was not started, and that what
   runs has its unit unless its start was undone.

Met while modelling, kept in the models as the code has them, without a run of their
own:

* Loop: a refused text reply gets no feedback in the conversation (`phases.rs:436`;
  `docs/reasoning-loop.md:206` says it does). A timed-out run reports no iterations
  and tokens (`reasoning_loop.rs:244`; `loop_types.rs:321`). Only a normal completion
  journals `Terminated` (`reasoning_loop.rs:358`; `docs/reasoning-loop.md:335`). A
  verdict that modifies a reply into a termination loses the output (`phases.rs:396`).
  When the journal refuses an entry the error is discarded and the tools run
  (`reasoning_loop.rs:383`; the comment at 362 wants the entry first): the run has
  `AppendMayFail = FALSE`, and with `TRUE` `JournalIsFaithful` fails. The anchored
  summary keeps the last `recent_count` messages and may begin with a tool result
  whose call it dropped (`context_manager.rs:157` against `conversation.rs:405`): the
  run has observation masking, and with the summary `EveryCallAnswered` fails.
  Observation masking leaves a conversation of up to three messages alone, however
  large (`context_manager.rs:74`), so that `WindowFits` fails for a budget below the
  size of three.
* Breakers: a success that arrives after the circuit opened closes it at once
  (`circuit_breaker.rs:136`), past the half-open state of the module header. A rejected
  call is recorded as a failure (`executor.rs:152`) and reopens a half-open circuit.
* Escalation: a call dropped by its loop's timeout leaves its entry in the map, listed
  as awaiting approval for ever (`queue.rs:214`).
* Relay: a terminal line goes to whichever prompt holds stdin, even one whose request
  Slack has decided. A press that was accepted first may lose to a line typed while its
  message is updated, with its decision already in the audit file and in Slack ("First
  responder wins"). A message posted after the terminal won stays pending. A post that
  fails denies at once though the terminal is still asked. A press whose HTTP call is
  dropped denies though the audit file says approved. A decision of Slack is logged
  twice; one of the terminal waits for the update of Slack's message.
* Sessions: the transcript's own lock allows its order to differ from the order of
  acceptance; `abort_expired` and `refresh` have no caller outside tests, so a stalled
  session does not close by itself; a reasoning context made before a session was
  opened keeps a gate without monitor (`runtime_bridge.rs:182`); messages from a role
  to itself and two branches with one label pass the well-formedness check.
* Scheduler: a second task of an agent is not in the index, so terminate and delete
  miss it; a terminate may be sent before its start (`task_manager.rs:51`); a full
  channel on terminate loses the handle (`task_manager.rs:71`); the health loop may
  remove a run that began after its scan; a failed suspension puts the task back
  beyond the limit (`mod.rs:1226`); a start may complete after the shutdown listed the
  running agents.
* Bus: registering again or unregistering discards what was in the inbox; two
  subscriptions give two copies; a request whose send is refused, for its size or
  signature or after a shutdown, leaves its entry (`mod.rs:713`, 726), and so does one
  whose caller is dropped in the wait (729). Nothing removes these entries, and above
  fifty of them the bus reports itself degraded for good (806). Candidates for a retry
  are logged and not retried; a message without a recipient would lock the tracker
  twice (`mod.rs:342`), but no caller can send one.
* Cron: whether a job runs once is decided by the copy of its row that the tick fetched
  (`cron_scheduler.rs:667-672`), while an update may have set it meanwhile
  (`lib.rs:1114-1116`). The row of a job that has just become a one-shot job stays active
  and enabled, and the job fires twice, against `cron_types.rs:70` ("Job completed (one-shot
  that has already run)") and `docs/scheduling.md:8`; where the update clears it, a job
  that is to recur is written back as completed. It is the stale copy of `cron_paused`.
  `FiresOnce` is therefore about occurrences, and about jobs that were fired as one-shot
  jobs.
* Resources: processors are charged in whole units, so that fractions are given to any
  number of agents and charged to nobody (`resource/mod.rs:828`, 839), and a processor and
  a half is charged as one. Setting limits overwrites an allocation without changing the
  totals (630): a deallocation then credits what was never charged, and what is available
  may pass the total, against the assertion of the test at 1041. A second allocation that
  passed the check at the same time overwrites the first, whose units are lost for
  good; `UnitsAddUp` is about what happens before limits are set, and counts the lost units
  apart (`overwritten`). A deallocation that holds the
  allocations and waits for the system, and a status call that holds the system and waits
  for the allocations (290), or the same with the usage and the enforcement loop, stop
  each other for good; `DeallocationIsDone` names this (`LockedOut`) as the one exception.
  An allocation reads its answer
  after 10 ms, whether it was handled or not (565).
* Lifecycle: the number of agents is checked an await before an agent is inserted
  (`lifecycle/mod.rs:365`), so it may be passed. Nothing ever sends the transition
  from Initializing to Ready, so that start, suspend and resume are always refused and
  no agent runs, though the trait offers these calls (21-28),
  `docs/runtime-architecture.md:155-175` shows agents that become ready and run, and
  the table of transitions, which `test_state_transitions` (749) tests alone, allows
  it. An event is judged by the state it carries, which may be out of date when it is
  processed (176): a termination sent to a failed agent moves one that was restarted
  meanwhile from Initializing to Terminating, which the table of transitions does not
  allow.
* Saga and journal: a crash after a final step and before its outcome runs it again
  (`saga.rs:73` says that re-execution is skipped), and so does an outcome that the
  checkpoint refused, as the error is ignored (260); `initialize` resumes
  at the latest number and not after it, so that the first entry after a restart has the
  number of the last one before it (`journal.rs:127`; `loop_types.rs:415`).
  `NumbersAreDistinct` is therefore about the entries since the counter was last set.
* Contexts: no operation reads the shutdown flag (`manager.rs:775`); a shutdown aborts a
  retention that has taken items out and not archived them (815, 1150); storing and
  retrieving insert copies that may be old (2704, 2743); a file left empty by an end of
  the process keeps the runtime from starting (755); knowledge may be added to an agent
  without a context, with success reported (3317); backups are not cleaned when
  compression is on (325) and nobody reads them; archiving a context is always refused
  (1263); a second shutdown returns before the first has saved.
* Interactive tools: the call that starts a session may always have one interaction, even
  if `max_interactions` is 0, because the number is only looked at when the session is
  there already (`Limit`); after a wait that ended early the late answer goes to the next
  command; a session that failed to start is taken as ready by the next call; a dead
  session is never removed; the timeouts of idle and of the session are not enforced; a
  read may block for ever with the mutex locked; an error message cut in the middle of
  a character panics (`session_executor.rs:363`, 394) and poisons the mutex.
* Errors: the strategies that a caller can reach by default all succeed, so a breaker
  with a threshold of two or more never opens without `register_strategy`; a half-open
  breaker is dropped by the clean-up; events in the channel at a shutdown are lost.
* CLI executor: silence on one stream kills a child that is active on the other, and
  reports it as killed even if it ended well meanwhile (`cli_executor/executor.rs:296`);
  a stream that reached its limit is no longer read, so that the child may block until
  the wall clock, when its output is lost; a helper that ignores SIGTERM survives a kill
  when its leader heeds it (400; the comment at 381 promises the entire group); output of
  exactly the limit is marked as truncated (`watchdog.rs:123`).

## 6. The proofs

All proofs are for arbitrary constants under the named assumptions of the modules, which
TLC evaluates in the runs: configuration values and bounds are naturals, sets of actors
are finite where they are counted, the background tasks are not callers, and what is
configured as a subset is one; every message has a size, as in the code
(`conversation.rs:127`). Some theorems have a hypothesis of their own.
`JournalsAreFaithful` is for a storage that accepts what it is given (`~AppendMayFail`;
`JournalCountsAgree` is for any). `CallsAreAnswered` and `ManagedConversationsArePaired`
are for the strategies that do not summarise (`Strategy # "AnchoredSummary"`), and
`WindowsFit` is for these with, under observation masking, a budget of at least the three
messages that are never cut. Section 5 says what happens otherwise. Theorems about the
parts of a composite are about its specification, whose fairness none of them uses.

No safety property is inductive as it stands. Each proof module begins with the invariant
that is, one named conjunct per idea, and has a lemma per action.

* **ReasoningLoop_proofs**. `TypeCorrectness`, and `ImplementsGovernedRun`, the refinement
  of `GovernedRun`: `Inv` adds to the types that a result is there exactly at the end,
  that proposed calls are distinct, of this turn and not yet permitted, that approved
  calls are permitted calls of this turn, that what ran was observed, and that nothing of
  a later turn is in the histories. Without the distinctness of proposals a call could be
  permitted twice; without `ObservedInv` it could run twice.
  `ResultsAreEarned` rests on `ResultInv`: an inference starts within the token budget,
  and a turn with a terminal action runs nothing and has its text approved.
  `JournalCountsAgree` and `JournalsAreFaithful` rest on `JournalInv`: in each phase which
  entries of the turn can be there (`EntriesInv`), that their counts are the lengths of
  what the turn has in hand (`CountsInv`), and that what ran is what was observed
  (`RanInv`); `WrittenInv` adds that entries are there when none is refused.
  `CallsAreAnswered` rests on `ConversationInv`: between two inferences only calls of the
  turn lack a result, and only those that the gate still has or let through.
  The strategies: `ManageContextType` (context management is total on conversations) and
  `ManagedConversationsArePaired` (cutting keeps each call with its result). The latter
  needs that a group ends where no call is pending, so that a cut between two groups
  separates no call from its result.
  `WindowsFit` is about a sum, which `Tokens` folds over the conversation. `TokensIsSize`
  shows that the fold's recursive function exists and that each message adds its own size;
  the part that is kept then has the size it had in the whole (`SizeShift`). A window is
  the longest run of groups that fits, or the newest group (`WindowStartEffect`); nothing
  is stripped from it, because the call before a group was answered once and before it
  (`GroupsBeginClean`). That no call is answered twice is what `AnswersInv` adds to the
  loop: results in the conversation are of no call that still waits or runs.
* **Records_proofs**. `WhatIsAcknowledgedIsKept` (contexts): each call under way is known
  by its operation and stage (`SoundCall`); under the lock the copy it saves is the
  one in memory; there is one writer or any readers, which the stages alone must show
  (`LockInv`), since nobody keeps the lock's state; a file that is empty is being written
  or a shutdown has still to write it (`TornInv`), which is how an aborted save is made
  good. `SagasAreUndoneInReverse` and the action property `SettledStepsStayUntouched`:
  what is listed as completed is what was done and is not undone yet, in its order
  and below what was undone; an intent is recorded only after all before it ran; and while
  no record is refused, all intents have outcomes before anything is undone.
  `EntriesAreNumberedOnce` (journal): within an epoch, the time between two settings of
  the counter, the counter is ahead of all numbers stored or taken and still to be stored.
* **Services_proofs**. Breakers: `TypeCorrectness`, `TripsExactlyAtThreshold`,
  `HalfOpenAdmissionIsBounded`, and their conjunction `BreakersAreSound`; closed is exactly
  below the threshold, quota is only in use in a half-open period, and the running probes
  are finite and no more than the quota counts. `UnitsAreConserved` (resources): the
  monitoring loop has parts in hand only between removal and credit, what is charged for
  them is cut to whole units the same way each time (`WholeUnits`), and the sum over agents
  is the cardinality of a set of units, so that a change of one allocation moves as many
  elements. `CallersAreKeptApart` (interactive tools): who waits has the mutex,
  the terminal holds only what that call waits for until a wait fails (`TerminalInv`), and
  the interactions counted plus the calls under way are bounded (`CountInv`), which
  the bound on the interactions alone is not strong enough to keep. `ResultsAreTrue` (CLI
  executor): what is known at each place (`PlaceOfExecution`), and that a helper which
  heeds the signal has gone after it or was started later. Lifecycle:
  `TableKeepsItsLimits`; an agent the monitor has chosen to restart has a restart left, as
  only the monitor counts them up (`RestartIsLeft`), and the agents in the table plus the
  callers that have counted the places and not taken theirs are at most `max_agents` plus
  those that counted while another was about to take one (`PlacesInv`; the sizes of the
  table alone are not inductive). Errors: `TrippedBreakersAreCounted`; what holds of one
  breaker (`Counted`) is kept by each thing a step makes of it.
* **Waiting_proofs**. Escalation: `TypeCorrectness`, `OnlyApprovedActionsPass`,
  `AtMostOneResolution`, `MapHoldsWhatIsWaitedFor`, `AcceptedResolutionsCount`, and
  the conjunction of the last four, `ResolutionsAreSound`. The sender in the map is
  the right to resolve: while it is there nothing was accepted and the channel is
  empty; what is in the channel was accepted from an authorized operator; what the
  call goes by came through the channel. `AuditAndMessagesAreTrue` (relay): each
  channel decides once (`Chosen`), the audit file holds what was pressed or delivered
  (`Filed`), and an outcome in Slack is that of a press or the one the terminal
  delivers (`Shown`); for any number of requests, of which the run has one.
  `QueueAsksForConsent`: what the operators said changes only with the first accepted
  resolution by one who is authorized (`SenderIsUnused`), so each step of the queue is
  a word, a decision or neither; a verdict is the last thing that happens to a call
  (`VerdictIsLast`). `PeopleAreAsked` says both parts implement `Consent`: of the
  relay, each step adds at most one word by a voice that had said none (`HeardStep`),
  and what is delivered for the first time was said by the voice in whose name it is
  (`DecisionIsHeard`).
* **SessionMonitor_proofs**. `TypeCorrectness`, `TranscriptIsComplete` and the action
  property `ClosedSessionsAreSilent`, for any machines that satisfy
  `MachineAssumption` (they stay within their states and an accepting state has no
  moves). `SessionInv` links the registry's status with the monitor: aborted means the
  monitor refuses, complete means all machines accept. `SessionFollowsProtocol` (the
  session implements `Agreement`) and `SessionsAreFaithful` have a hypothesis,
  `CompilerIsExact`: every protocol satisfies `ExactFor`. Their invariant `JointInv`
  is that what is left and the places of the machines are a pair that exact machines
  can be in, whatever the labels were derived from; a refused call moves neither. That
  the hypothesis is not empty is `ProjectionIsExact` on the protocols of
  `sessions_and_jobs_safety`; the loop of `session_jump` is one that does not satisfy
  it.
* **AgentScheduler_proofs**. `NoTaskIsLost` and `LimitsOfStarts`. `PlaceInv` partitions the
  numbers that were issued over queue, loop, task manager and what was let go; `LimitInv`
  has a place free from the look at the limit until the start (by the loop alone, which is
  why failed suspensions are counted apart); `PoolInv` says whose allocations the pool
  holds. `TasksStaySound` joins the two. `SchedulerImplementsPool` has a lemma for each
  kind of step: the pop is `TakeUp` because the heap's order is that of priority and number
  (`Precedes`), the allocation fails exactly if what was started fills the pool (`PoolInv`),
  and a shutdown has closed the pool before it clears it (`UpInv`).
* **CommunicationBus_proofs**. `NoMessageIsLost`, `AgentsGetWhatIsReported`,
  `EntriesAreWaitedFor`.
  `PlaceInv` partitions the messages over eight places; `OrderInv` says that the message in
  hand comes after all that left the channel and before all that are in it, from which
  the order of each inbox and the identity of copies follow; `RequestInv` gives each
  entry of the pending requests to a request in progress or to one that was forsaken, and
  each request in progress its entry, which needs that the numbers of requests are fresh
  (`IdInv`). `MessagesStaySound` joins the
  first two. `BusImplementsMailboxes` needs besides where the message in hand has
  still to go (`MailInv`): of what kind it is at each place of the loop, that a copy belongs
  to a publication that has ended, and that the loop waits to bury only what no box takes.
  A loop that waits for a lock with a message in hand is a stutter.
* **CronScheduler_proofs**. `PlacesAreGivenBackOnce` and `RowsTellWhatRan`. `CountInv` makes
  both counters the number of runs that hold a place; `FiredInv` puts what has fired
  behind the row and behind what the loop has fetched, so that no old copy fires again,
  and has a job that was fired as a one-shot job out of both;
  `FailuresInv` says that no copy of a row, in the store, the loop, a run or a call of the
  API, tells of more failures than there were.

Counting needs finite sets: the proofs use the library's theorems on cardinalities, a
minimum of a non-empty set of naturals exists because `<` is well founded
(`MinIsInSet`), and a fact about all numbers or all finite sets is proved of the least
counterexample (`LeastOf`). This takes the place of the library's induction theorems,
which take an operator as a parameter and cannot be instantiated here.

Out of the prover's reach, and left to TLC: liveness and `ENABLED` (`Terminates`,
`EveryCallReturns`, `AnsweredIsDelivered`, `RunningIsReaped`, `ShutdownEnds`,
`EventsAreProcessed`, `DueIsServed`, `RecoveryIsDecided`, `DeallocationIsDone`, `GivesUp`,
`OpenIsLeft`, `ExecutionEnds`); and what the recursive operators of `GlobalType`,
`Choreography` and `SessionTypes` compute (`ProjectionIsExact`).

## 7. Only model-checked, and not modelled

Model-checked only are the liveness properties above and `ProjectionIsExact`. Every other
property of a passing run is a theorem.

Assumed in the models: a file operation that is aborted was either done or not done;
files are compressed as by default; appends to the relay's audit file succeed; calls to
Slack and to external tools return or fail.

Not modelled inside modelled components: message formats of the providers and the
estimate of tokens (sizes are abstract); pre-hydration and tool filtering of the loop;
statuses, metrics and the registry of the scheduler; processes and external agents;
the strategies of the load balancer, which all allocate from one pool; size,
signature and encryption of bus messages; the run log and manual triggers of cron;
replay of the journal; searches, shared knowledge, vector stores and backups of the
context manager; the one-shot, HTTP, MCP and browser executors of ToolClad; read-only
calls.

Not modelled components are listed in `PROJECT.json` with the reason: external
clients, parsers, user interfaces and pure I/O, and those of the plan below. They are
most of the repository's lines: the map covers about 6 % of the implementation, and
what carries state and control across awaits, locks, crashes and processes is most of
those. The DSL's interpreter and parser, the API routes, the shells, the configuration
and the front end keep no state that outlives a call, or hand it to a component above.

## 8. The plan

Done, in this order: `CircuitBreaker`; `ContextWindow`, `GovernedRun`,
`ReasoningLoop`; `EscalationQueue`; `GlobalType`, `Choreography`, `SessionTypes`,
`SessionMonitor`; `AgentScheduler`; `CommunicationBus`; `CronScheduler`;
`LifecycleController`, `ResourceManager`; `SagaOrchestrator`, `DurableJournal`;
`ContextManager`; `ApprovalRelay`; `SessionExecutor`; `ErrorHandler`; `CliExecutor`; the
abstract specifications `TaskPool`, `Mailboxes`, `Consent`, `Agreement` with
`MonitoredSession`, and the proofs that the components implement them.

Next modules:

1. Composition: the loop with the escalation gate and the breakers as its gate and
   executor, the timeout dropping all three at once.
2. Sessions with several reasoning contexts, one of them made before the session was
   opened (`runtime_bridge.rs:182`), the hazard that no property covers yet.
3. Delegation: a reasoning loop that runs another, budgets and depth; the human critic.

Next theorems: abstract specifications of the cron scheduler (occurrences that are served
once) and of the saga (a stack of what is done), and that the projection of a bounded
tree is exact, which needs the trees without recursion.
