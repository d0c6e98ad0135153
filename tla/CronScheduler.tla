---------------------------- MODULE CronScheduler ----------------------------
(***************************************************************************)
(* The cron scheduler (scheduler/cron_scheduler.rs) over its job store     *)
(* (scheduler/job_store.rs).                                               *)
(*                                                                         *)
(* The store survives a crash; its connection has a mutex, so that each    *)
(* call of the store is one step.  Everything else is memory.  The tick    *)
(* loop fetches the due jobs and handles what it fetched one job at a time;*)
(* every run is a task of its own; callers of the API read a row and write *)
(* it back whole.  So rows are changed from copies that may be old.        *)
(*                                                                         *)
(* Time is a clock, and a job is due once in every unit of it: this is the *)
(* schedule with the most overlap of runs.  The run log, the run count and *)
(* the metrics are left out: nothing that is modelled reads them.  So is   *)
(* trigger_now, which runs an agent whatever the row says and changes      *)
(* nothing but the log.                                                    *)
(***************************************************************************)
EXTENDS Naturals, FiniteSets

CONSTANTS Job, Caller,
          OneShot,          \* jobs that are to run once when they are added
          MaxConcurrent,    \* config.max_concurrent_cron_jobs
          JobLimit,         \* max_concurrent of each job
          MaxRetries,       \* max_retries of every job
          MaxTime,          \* bound: the last moment of the clock
          MaxOperations,    \* bound: calls of the API in a run
          MaxFaults         \* bound: updates refused, and starts of the
                            \* process after the first

ASSUME CronAssumption ==
    /\ IsFiniteSet(Job) /\ OneShot \subseteq Job
    /\ MaxConcurrent \in Nat /\ JobLimit \in [Job -> Nat] /\ MaxRetries \in Nat
    /\ MaxTime \in Nat /\ MaxOperations \in Nat /\ MaxFaults \in Nat

Time == 0 .. MaxTime

\* The moments of a run of the clock at which a job is due, and one after it.
Occurrence == 1 .. MaxTime + 1

VARIABLES
    clock,
    row,        \* the row of each job, or Gone once it is removed
    up,         \* is_running
    loop,       \* the tick loop: its place, what it has fetched and when
    live,       \* the tasks of the runs
    active,     \* active_runs
    perJob,     \* per_job_active
    asks,       \* the operation of each caller and the row it has read
    spawned,    \* how many runs were spawned
    calls,      \* how many calls were made
    faults,     \* how many updates were refused and restarts there were
    fired,      \* history: occurrences fired since the row was last armed
    spent,      \* history: jobs fired since then for their one run
    twice,      \* history: jobs that fired an occurrence again, or when spent
    failedRuns  \* history: runs of each job that failed

storeVars == <<row>>
memory == <<up, loop, live, active, perJob, asks>>
bounds == <<spawned, calls, faults>>
history == <<fired, spent, twice, failedRuns>>

jobs == <<clock, storeVars, memory, bounds, history>>

None == "none"

Row == [status : {"Active", "Paused", "Completed", "DeadLetter"},
        enabled : BOOLEAN, oneShot : BOOLEAN, next : Occurrence,
        failures : Nat]

\* No row: the job is not added yet, or it has been removed.
Unborn == [status |-> "Unborn", enabled |-> FALSE, oneShot |-> FALSE,
           next |-> 1, failures |-> 0]

Gone == [Unborn EXCEPT !.status = "Gone"]

\* compute_next_run: the first occurrence after a moment.
NextRun(t) == t + 1

Present(j) == row[j] \notin {Unborn, Gone}

\* A new job that is to run for the first time after t.
Added(j, t) ==
    [status |-> "Active", enabled |-> TRUE, oneShot |-> j \in OneShot,
     next |-> NextRun(t), failures |-> 0]

\* The condition of the query of get_due_jobs.
Due(j) ==
    /\ Present(j)
    /\ row[j].enabled /\ row[j].status = "Active" /\ row[j].next <= clock

Waiting == [at |-> "tick", todo |-> {}, now |-> 0]

TickEnded == [Waiting EXCEPT !.at = "ended"]

Idle == [op |-> "none", job |-> None, row |-> Gone, since |-> 0]

\* A store that an earlier process has left, with some of the jobs.
JobsInit ==
    /\ clock = 0
    /\ \E known \in SUBSET Job :
          row = [j \in Job |-> IF j \in known THEN Added(j, 0) ELSE Unborn]
    /\ up = TRUE /\ loop = Waiting
    /\ live = {} /\ active = 0 /\ perJob = [j \in Job |-> 0]
    /\ asks = [c \in Caller |-> Idle]
    /\ spawned = 0 /\ calls = 0 /\ faults = 0
    /\ fired = [j \in Job |-> {}] /\ spent = {} /\ twice = {}
    /\ failedRuns = [j \in Job |-> 0]

Tick ==
    /\ clock < MaxTime
    /\ clock' = clock + 1
    /\ UNCHANGED <<storeVars, memory, bounds, history>>

-----------------------------------------------------------------------------
(* The tick loop *)

Fetch ==
    /\ loop.at = "tick" /\ up
    /\ active < MaxConcurrent
    /\ \E j \in Job : Due(j)
    /\ loop' = [at |-> "fire", now |-> clock,
                todo |-> {[job |-> j, oneShot |-> row[j].oneShot,
                           next |-> row[j].next,
                           failures |-> row[j].failures] :
                                j \in {k \in Job : Due(k)}}]
    /\ UNCHANGED <<clock, storeVars, up, live, active, perJob, asks, bounds,
                   history>>

\* Back to the wait for the next tick when nothing is left to do.
Without(s) ==
    IF loop.todo = {s} THEN Waiting
    ELSE [loop EXCEPT !.todo = loop.todo \ {s}]

\* The jobs come in the order of next_run.
Foremost(s) == s \in loop.todo /\ \A t \in loop.todo : s.next <= t.next

AtJobLimit(j) == perJob[j] >= JobLimit[j]

\* Faulty variant: the enabled flag is left as it is.
StillEnabled(s) ==
    [row[s.job] EXCEPT !.status = IF s.oneShot THEN "Completed" ELSE "Active",
                       !.next = NextRun(loop.now)]

\* update_run_state: whether the job runs once is read from what was fetched,
\* and the column that says so in the row is not written.
Updated(s) ==
    [row[s.job] EXCEPT !.status = IF s.oneShot THEN "Completed" ELSE "Active",
                       !.enabled = ~s.oneShot,
                       !.next = NextRun(loop.now)]

\* The run of an occurrence is spawned with what was fetched of the row.
Spawn(s) ==
    /\ active' = active + 1
    /\ perJob' = [perJob EXCEPT ![s.job] = @ + 1]
    /\ live' = live \union {[id |-> spawned + 1, job |-> s.job,
                             failures |-> s.failures, at |-> "check"]}
    /\ spawned' = spawned + 1
    /\ fired' = [fired EXCEPT ![s.job] = @ \union {s.next}]
    /\ spent' = IF s.oneShot THEN spent \union {s.job} ELSE spent
    /\ twice' = IF s.next \in fired[s.job] \/ s.job \in spent
                THEN twice \union {s.job}
                ELSE twice
    /\ UNCHANGED failedRuns

\* All places are taken: the rest of what was fetched waits.
Break ==
    /\ loop.at = "fire" /\ active >= MaxConcurrent
    /\ loop' = Waiting
    /\ UNCHANGED <<clock, storeVars, up, live, active, perJob, asks, bounds,
                   history>>

\* The job has as many runs as it may have, or its row is gone, or the store
\* refuses the update.
Skip(s) ==
    /\ loop.at = "fire" /\ active < MaxConcurrent /\ Foremost(s)
    /\ \/ (AtJobLimit(s.job) \/ ~Present(s.job)) /\ UNCHANGED faults
       \/ faults < MaxFaults /\ faults' = faults + 1
    /\ loop' = Without(s)
    /\ UNCHANGED <<clock, storeVars, up, live, active, perJob, asks, spawned,
                   calls, history>>

\* Faulty variant: the error of the update is not looked at.
FireUnrecorded(s) ==
    /\ loop.at = "fire" /\ active < MaxConcurrent /\ Foremost(s)
    /\ ~AtJobLimit(s.job)
    /\ Present(s.job)
    /\ \/ row' = [row EXCEPT ![s.job] = Updated(s)] /\ UNCHANGED faults
       \/ faults < MaxFaults /\ faults' = faults + 1 /\ UNCHANGED row
    /\ Spawn(s)
    /\ loop' = Without(s)
    /\ UNCHANGED <<clock, up, asks, calls>>

\* Faulty variant: the guard of the job is left out.
FireBeyondLimit(s) ==
    /\ loop.at = "fire" /\ active < MaxConcurrent /\ Foremost(s)
    /\ Present(s.job)
    /\ row' = [row EXCEPT ![s.job] = Updated(s)]
    /\ Spawn(s)
    /\ loop' = Without(s)
    /\ UNCHANGED <<clock, up, asks, calls, faults>>

\* The row is written before the run is spawned.
Fire(s) ==
    /\ loop.at = "fire" /\ active < MaxConcurrent /\ Foremost(s)
    /\ ~AtJobLimit(s.job) /\ Present(s.job)
    /\ row' = [row EXCEPT ![s.job] = Updated(s)]
    /\ Spawn(s)
    /\ loop' = Without(s)
    /\ UNCHANGED <<clock, up, asks, calls, faults>>

\* Woken by the shutdown, or by a tick that finds it.
Stop ==
    /\ loop.at = "tick" /\ ~up
    /\ loop' = TickEnded
    /\ UNCHANGED <<clock, storeVars, up, live, active, perJob, asks, bounds,
                   history>>

TickLoop == Fetch \/ Break \/ Stop \/ \E s \in loop.todo : Skip(s) \/ Fire(s)

-----------------------------------------------------------------------------
(* A run *)

Move(r, place) == live' = (live \ {r}) \union {[r EXCEPT !.at = place]}

\* The place among all runs is given back, and next the one of the job.
Release(r) ==
    /\ active' = active - 1
    /\ Move(r, "release")
    /\ UNCHANGED perJob

\* Faulty variant: a run that is refused keeps its places.
RefuseHolding(r) ==
    /\ r.at = "check"
    /\ Move(r, "release")
    /\ UNCHANGED <<clock, storeVars, up, loop, active, perJob, asks, bounds,
                   history>>

\* The identity of the agent or the schedule policy refuses the run: this is
\* recorded, but it is not a failure of the job.
Refuse(r) ==
    /\ r.at = "check"
    /\ Release(r)
    /\ UNCHANGED <<clock, storeVars, up, loop, asks, bounds, history>>

\* The agent scheduler takes the agent, or it does not.
Schedule(r) ==
    /\ r.at = "check"
    /\ \/ Release(r) /\ UNCHANGED failedRuns
       \/ /\ Move(r, "failed")
          /\ failedRuns' = [failedRuns EXCEPT ![r.job] = @ + 1]
          /\ UNCHANGED <<active, perJob>>
    /\ UNCHANGED <<clock, storeVars, up, loop, asks, bounds, fired, spent,
                   twice>>

Failures(r) == r.failures + 1

\* Faulty variant: one failure too few.
StatusEarly(r) ==
    IF Failures(r) + 1 >= MaxRetries THEN "DeadLetter" ELSE "Active"

StatusAfter(r) ==
    IF Failures(r) >= MaxRetries THEN "DeadLetter" ELSE "Active"

\* record_failure: the count is the one that was fetched, plus one, and the
\* status is written whatever it has become meanwhile; an error is ignored.
RecordFailure(r) ==
    /\ r.at = "failed"
    /\ \/ /\ Present(r.job)
          /\ row' = [row EXCEPT ![r.job].failures = Failures(r),
                                ![r.job].status = StatusAfter(r)]
          /\ UNCHANGED faults
       \/ ~Present(r.job) /\ UNCHANGED <<row, faults>>
       \/ faults < MaxFaults /\ faults' = faults + 1 /\ UNCHANGED row
    /\ Move(r, "end")
    /\ UNCHANGED <<clock, up, loop, active, perJob, asks, spawned, calls,
                   history>>

EndRun(r) ==
    /\ r.at = "end"
    /\ Release(r)
    /\ UNCHANGED <<clock, storeVars, up, loop, asks, bounds, history>>

\* The task is over.
Leave(r) ==
    /\ r.at = "release"
    /\ live' = live \ {r}
    /\ perJob' = [perJob EXCEPT ![r.job] = @ - 1]
    /\ UNCHANGED <<clock, storeVars, up, loop, active, asks, bounds, history>>

RunStep(r) ==
    Refuse(r) \/ Schedule(r) \/ RecordFailure(r) \/ EndRun(r) \/ Leave(r)

-----------------------------------------------------------------------------
(* The API *)

Add(j) ==
    /\ up /\ row[j] = Unborn
    /\ calls < MaxOperations /\ calls' = calls + 1
    /\ row' = [row EXCEPT ![j] = Added(j, clock)]
    /\ UNCHANGED <<clock, memory, spawned, faults, history>>

\* get_job, the first step of pause, resume and update.
Read(c, op, j) ==
    /\ asks[c] = Idle /\ up
    /\ calls < MaxOperations /\ calls' = calls + 1
    /\ Present(j)
    /\ asks' = [asks EXCEPT ![c] = [op |-> op, job |-> j, row |-> row[j],
                                    since |-> clock]]
    /\ UNCHANGED <<clock, storeVars, up, loop, live, active, perJob, spawned,
                   faults, history>>

\* save_job writes every column.
Save(c, r) ==
    /\ row' = [row EXCEPT ![asks[c].job] = r]
    /\ asks' = [asks EXCEPT ![c] = Idle]
    /\ UNCHANGED <<clock, up, loop, live, active, perJob, bounds, twice,
                   failedRuns>>

Pause(c) ==
    /\ asks[c].op = "pause"
    /\ Save(c, [asks[c].row EXCEPT !.status = "Paused", !.enabled = FALSE])
    /\ UNCHANGED <<fired, spent>>

\* The next run is computed at some moment between the read and the save.
Armed(c, r) ==
    /\ \E t \in asks[c].since .. clock :
            Save(c, [r EXCEPT !.next = NextRun(t)])
    /\ fired' = [fired EXCEPT ![asks[c].job] = {}]
    /\ spent' = spent \ {asks[c].job}

Resume(c) ==
    /\ asks[c].op = "resume"
    /\ Armed(c, [asks[c].row EXCEPT !.status = "Active", !.enabled = TRUE,
                                    !.failures = 0])

\* A new schedule for the row that was read, and whether it is to run once.
Update(c) ==
    /\ asks[c].op = "update"
    /\ \E once \in BOOLEAN : Armed(c, [asks[c].row EXCEPT !.oneShot = once])

RemoveJob(j) ==
    /\ up /\ Present(j)
    /\ calls < MaxOperations /\ calls' = calls + 1
    /\ row' = [row EXCEPT ![j] = Gone]
    /\ UNCHANGED <<clock, memory, spawned, faults, history>>

Shutdown ==
    /\ up /\ calls < MaxOperations /\ calls' = calls + 1
    /\ up' = FALSE
    /\ UNCHANGED <<clock, storeVars, loop, live, active, perJob, asks, spawned,
                   faults, history>>

CallStep(c) ==
    \/ \E op \in {"pause", "resume", "update"}, j \in Job : Read(c, op, j)
    \/ Pause(c) \/ Resume(c) \/ Update(c)

-----------------------------------------------------------------------------
(* The process *)

\* The process dies at any moment, or ends after a shutdown: what is in memory
\* is lost.
Crash ==
    /\ faults < MaxFaults
    /\ loop # TickEnded \/ live # {} \/ \E c \in Caller : asks[c] # Idle
    /\ up' = FALSE /\ loop' = TickEnded /\ live' = {} /\ active' = 0
    /\ perJob' = [j \in Job |-> 0]
    /\ asks' = [c \in Caller |-> Idle]
    /\ UNCHANGED <<clock, storeVars, bounds, history>>

\* A new scheduler over the same store.
Restart ==
    /\ faults < MaxFaults /\ faults' = faults + 1
    /\ loop = TickEnded /\ live = {} /\ \A c \in Caller : asks[c] = Idle
    /\ up' = TRUE /\ loop' = Waiting
    /\ UNCHANGED <<clock, storeVars, live, active, perJob, asks, spawned,
                   calls, history>>

-----------------------------------------------------------------------------

JobsNext ==
    \/ Tick
    \/ TickLoop
    \/ \E r \in live : RunStep(r)
    \/ \E c \in Caller : CallStep(c)
    \/ \E j \in Job : Add(j) \/ RemoveJob(j)
    \/ Shutdown
    \/ Crash \/ Restart

JobsSpec == JobsInit /\ [][JobsNext]_jobs

\* The runtime polls the tick loop and every run; verifier, policy gate and
\* agent scheduler answer, as the agent scheduler only queues the agent.
JobsFairSpec ==
    /\ JobsSpec
    /\ WF_jobs(TickLoop)
    /\ WF_jobs(\E r \in live : RunStep(r))

-----------------------------------------------------------------------------
(* Properties *)

Run == [id : 1 .. spawned, job : Job, failures : Nat,
        at : {"check", "failed", "end", "release"}]

JobsTypeOK ==
    /\ clock \in Time
    /\ row \in [Job -> Row \union {Unborn, Gone}]
    /\ up \in BOOLEAN
    /\ loop.at \in {"tick", "fire", "ended"} /\ loop.now \in Time
    /\ \A s \in loop.todo : s.job \in Job /\ s.next \in Occurrence
    /\ \A r \in live : r \in Run
    /\ active \in Nat /\ perJob \in [Job -> Nat]
    /\ \A c \in Caller : asks[c].row \in Row \union {Gone}
    /\ \A j \in Job : fired[j] \subseteq Occurrence

\* The two counters are true at any moment: each run, whether it is refused,
\* fails or succeeds, gives its places back once, and so the limits of
\* cron_scheduler.rs hold for the tasks of the runs.
LimitsHold ==
    /\ JobsTypeOK
    /\ active = Cardinality({r \in live : r.at # "release"})
    /\ active <= MaxConcurrent
    /\ \A j \in Job :
         /\ perJob[j] = Cardinality({r \in live : r.job = j})
         /\ perJob[j] <= JobLimit[j]

\* Between two resumes or updates of a job no occurrence of it fires twice,
\* and none fires after the job was fired as a one-shot job, though the process
\* may crash and the store refuse an update.  The row is updated before the run
\* is spawned.
FiresOnce == twice = {}

\* A job is put aside as a dead letter only after max_retries runs of it have
\* failed, although the count is written from old copies of the row.
DeadLetteredForFailures ==
    \A j \in Job :
        Present(j) =>
            /\ row[j].failures <= failedRuns[j]
            /\ row[j].status = "DeadLetter" => failedRuns[j] >= MaxRetries

\* The rows tell what ran: nothing again, and no more failures than there were.
RowsAreTrue == FiresOnce /\ DeadLetteredForFailures

\* "Job is paused; will not fire until resumed" (cron_types.rs): only a caller
\* of the API makes a paused job one that fires again.
PausedIsQuiet ==
    [][\A j \in Job :
         /\ row[j].status = "Paused"
         /\ row'[j].status = "Active" /\ row'[j].enabled
         => \E c \in Caller : asks[c].job = j /\ asks'[c] = Idle]_jobs

\* A job that is due is fired or is due no more, as long as the scheduler is
\* up: neither the limits nor what the tick has fetched can starve it.
DueIsServed == \A j \in Job : Due(j) ~> (~Due(j) \/ ~up)

=============================================================================
