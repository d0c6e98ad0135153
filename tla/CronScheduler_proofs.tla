------------------------ MODULE CronScheduler_proofs ------------------------
(***************************************************************************)
(* The counters, the limits and the rows of the cron scheduler, for any    *)
(* number of jobs, callers and runs.                                       *)
(*                                                                         *)
(* Three invariants are inductive.  CountInv says that the counters are    *)
(* the numbers of the tasks that hold a place.  FiredInv says where the    *)
(* occurrences that fired lie: behind the row and behind what the loop has *)
(* fetched, so that no old copy can fire one again.  FailuresInv says that *)
(* every copy of a row, in the store, in the loop, in a run or in a call,  *)
(* counts no more failures than there were.  All rest on TypeInv.          *)
(***************************************************************************)
EXTENDS CronScheduler, FiniteSetTheorems, TLAPS

-----------------------------------------------------------------------------
(* The inductive invariant.                                                  *)

Fetched == [job : Job, oneShot : BOOLEAN, next : Occurrence, failures : Nat]

Loops == [at : {"tick", "fire", "ended"}, todo : SUBSET Fetched, now : Time]

Calls == [op : {"none", "pause", "resume", "update"}, job : Job \cup {None},
          row : Row \cup {Gone}, since : Time]

\* The types, with what JobsTypeOK leaves out; every run has its number.
TypeInv ==
    /\ clock \in Time
    /\ row \in [Job -> Row \cup {Unborn, Gone}]
    /\ up \in BOOLEAN
    /\ loop \in Loops
    /\ live \subseteq Run /\ IsFiniteSet(live)
    /\ \A r, s \in live : r.id = s.id => r = s
    /\ active \in Nat /\ perJob \in [Job -> Nat]
    /\ asks \in [Caller -> Calls]
    /\ \A c \in Caller :
          asks[c].op # "none" => asks[c].job \in Job /\ asks[c].row \in Row
    /\ spawned \in Nat
    /\ fired \in [Job -> SUBSET Occurrence]
    /\ failedRuns \in [Job -> Nat]

\* The counters are the numbers of the runs that hold a place.
Holding == {r \in live : r.at # "release"}
RunsOf(j) == {r \in live : r.job = j}

CountInv ==
    /\ active = Cardinality(Holding)
    /\ active <= MaxConcurrent
    /\ \A j \in Job : /\ perJob[j] = Cardinality(RunsOf(j))
                      /\ perJob[j] <= JobLimit[j]

\* The row of a job that may be due, now or later.
IsArmed(j) == Present(j) /\ row[j].enabled

\* What has fired of a job lies behind its row and behind what the loop has
\* fetched, unless the row cannot fire; and once the job was fired as a one-shot
\* job, neither its row nor what was fetched of it can fire.
Behind(j) ==
    /\ \A o \in fired[j] :
          /\ o <= clock
          /\ loop.at = "fire" => o <= loop.now
          /\ IsArmed(j) => o < row[j].next
    /\ \A s \in loop.todo : s.job = j => s.next \notin fired[j]
    /\ j \in spent => /\ ~IsArmed(j) /\ row[j] # Unborn
                      /\ \A s \in loop.todo : s.job # j

FetchInv ==
    /\ \A s, t \in loop.todo : s.job = t.job => s = t
    /\ \A s \in loop.todo : s.next <= loop.now
    /\ loop.now <= clock
    /\ loop.todo # {} => loop.at = "fire"

FiredInv == twice = {} /\ FetchInv /\ \A j \in Job : Behind(j)

\* A row may have no more failures than its job, and be a dead letter only
\* after enough of them.
Honest(r, n) == r.failures <= n /\ (r.status = "DeadLetter" => n >= MaxRetries)

\* No copy of a row tells of more failures than there were: neither the store
\* and those who call the API, nor what the loop has fetched, nor a run.
RowsAreHonest ==
    /\ \A j \in Job : Present(j) => Honest(row[j], failedRuns[j])
    /\ \A c \in Caller :
          asks[c].op # "none" => Honest(asks[c].row, failedRuns[asks[c].job])

FetchesAreHonest == \A s \in loop.todo : s.failures <= failedRuns[s.job]

\* The failure of a run comes on top of those it was spawned with.
RunsAreHonest ==
    \A r \in live : /\ r.failures <= failedRuns[r.job]
                    /\ r.at = "failed" => r.failures + 1 <= failedRuns[r.job]

FailuresInv == RowsAreHonest /\ FetchesAreHonest /\ RunsAreHonest

-----------------------------------------------------------------------------
(* Types.                                                                    *)

LEMMA NextRunType ==
    ASSUME NEW t \in Time
    PROVE  NextRun(t) \in Occurrence /\ NextRun(t) > t
  BY CronAssumption DEF NextRun, Occurrence, Time

LEMMA AddedType ==
    ASSUME NEW j \in Job, NEW t \in Time
    PROVE  /\ Added(j, t) \in Row /\ Added(j, t).next = NextRun(t)
           /\ Added(j, t).failures = 0 /\ Added(j, t).status = "Active"
           /\ Added(j, t).enabled
  <1>1. NextRun(t) \in Occurrence
    BY NextRunType
  <1>2. (j \in OneShot) \in BOOLEAN
    OBVIOUS
  <1>3. QED  BY <1>1, <1>2 DEF Added, Row

\* A row is neither of the two that stand for no row.
LEMMA RowsArePresent ==
    /\ \A r \in Row : r # Unborn /\ r # Gone
    /\ Unborn # Gone
  <1>1. Unborn.status = "Unborn" /\ Gone.status = "Gone"
    BY DEF Unborn, Gone
  <1>2. \A r \in Row : r.status # "Unborn" /\ r.status # "Gone"
    BY DEF Row
  <1>3. QED  BY <1>1, <1>2

LEMMA PresentRow ==
    ASSUME TypeInv, NEW j \in Job
    PROVE  Present(j) <=> row[j] \in Row
  BY RowsArePresent DEF TypeInv, Present

LEMMA InitType == JobsInit => TypeInv
  <1> SUFFICES ASSUME JobsInit PROVE TypeInv
    OBVIOUS
  <1>1. 0 \in Time
    BY CronAssumption DEF Time
  <1>2. row \in [Job -> Row \cup {Unborn, Gone}]
    BY <1>1, AddedType DEF JobsInit
  <1>3. loop \in Loops
    BY <1>1 DEF JobsInit, Waiting, Loops
  <1>4. /\ asks \in [Caller -> Calls]
        /\ \A c \in Caller : asks[c].op = "none"
    BY <1>1 DEF JobsInit, Idle, Calls
  <1>5. live = {} /\ IsFiniteSet(live)
    BY FS_EmptySet DEF JobsInit
  <1>6. /\ perJob \in [Job -> Nat] /\ fired \in [Job -> SUBSET Occurrence]
        /\ failedRuns \in [Job -> Nat]
    BY DEF JobsInit
  <1>7. clock \in Time /\ up \in BOOLEAN /\ active \in Nat /\ spawned \in Nat
    BY <1>1 DEF JobsInit
  <1>8. QED
    BY <1>2, <1>3, <1>4, <1>5, <1>6, <1>7 DEF TypeInv

\* A run that moves on keeps its number, its job and what it was spawned with.
LEMMA MoveType ==
    ASSUME TypeInv, NEW r \in live, spawned' = spawned,
           NEW place \in {"failed", "end", "release"}, Move(r, place)
    PROVE  /\ live' \subseteq Run' /\ IsFiniteSet(live')
           /\ \A s, t \in live' : s.id = t.id => s = t
           /\ \E q :
                 /\ live' = (live \ {r}) \cup {q}
                 /\ q \notin live \ {r}
                 /\ q.at = place /\ q.id = r.id /\ q.job = r.job
                 /\ q.failures = r.failures
  <1> DEFINE q == [r EXCEPT !.at = place]
  <1>1. live' = (live \ {r}) \cup {q}
    BY DEF Move
  <1>2. r \in Run /\ live \subseteq Run
    BY DEF TypeInv
  <1>3. /\ q \in Run /\ q.at = place /\ q.id = r.id /\ q.job = r.job
        /\ q.failures = r.failures
    BY <1>2 DEF Run
  <1> HIDE DEF q
  <1>4. live' \subseteq Run'
    BY <1>1, <1>2, <1>3 DEF Run
  <1>5. IsFiniteSet(live')
    <2>1. IsFiniteSet(live \ {r})
      BY FS_Difference DEF TypeInv
    <2>2. QED  BY <1>1, <2>1, FS_AddElement
  <1>6. \A s \in live : s.id = r.id => s = r
    BY DEF TypeInv
  <1>7. q \notin live \ {r}
    BY <1>3, <1>6
  <1>8. \A s, t \in live' : s.id = t.id => s = t
    BY <1>1, <1>3, <1>6 DEF TypeInv
  <1>9. QED
    BY <1>1, <1>3, <1>4, <1>5, <1>7, <1>8

\* The steps of the tick loop that spawn nothing.
LEMMA LoopType ==
    ASSUME TypeInv, Fetch \/ Break \/ Stop \/ \E s \in loop.todo : Skip(s)
    PROVE  /\ TypeInv'
           /\ UNCHANGED <<clock, row, live, active, perJob, asks, spawned,
                          fired, spent, twice, failedRuns>>
  <1>1. UNCHANGED <<clock, row, up, live, active, perJob, asks, spawned,
                    fired, spent, twice, failedRuns>>
    BY DEF Fetch, Break, Stop, Skip, storeVars, bounds, history
  <1>2. 0 \in Time /\ clock \in Time /\ loop \in Loops
    BY CronAssumption DEF Time, TypeInv
  <1>3. Waiting \in Loops /\ TickEnded \in Loops
    BY <1>2 DEF Waiting, TickEnded, Loops
  <1>4. loop' \in Loops
    <2>1. CASE Fetch
      <3> DEFINE todo == {[job |-> j, oneShot |-> row[j].oneShot,
                           next |-> row[j].next,
                           failures |-> row[j].failures] :
                              j \in {k \in Job : Due(k)}}
      <3>1. todo \subseteq Fetched
        <4>1. ASSUME NEW j \in Job, Due(j)
              PROVE  /\ row[j].next \in Occurrence /\ row[j].failures \in Nat
                     /\ row[j].oneShot \in BOOLEAN
          <5>1. row[j] \in Row
            BY <4>1, PresentRow DEF Due
          <5>2. QED  BY <5>1 DEF Row
        <4>2. QED  BY <4>1 DEF Fetched
      <3>2. loop' = [at |-> "fire", now |-> clock, todo |-> todo]
        BY <2>1 DEF Fetch
      <3> HIDE DEF todo
      <3>3. QED  BY <1>2, <3>1, <3>2 DEF Loops
    <2>2. CASE Break \/ Stop
      BY <1>3, <2>2 DEF Break, Stop
    <2>3. CASE \E s \in loop.todo : Skip(s)
      <3>1. PICK s \in loop.todo : loop' = Without(s)
        BY <2>3 DEF Skip
      <3>2. loop.todo \ {s} \subseteq Fetched
        BY <1>2 DEF Loops
      <3>3. [loop EXCEPT !.todo = loop.todo \ {s}] \in Loops
        BY <1>2, <3>2 DEF Loops
      <3>4. QED  BY <1>3, <3>1, <3>3 DEF Without
    <2>4. QED  BY <2>1, <2>2, <2>3
  <1>5. TypeInv'
    BY <1>1, <1>4 DEF TypeInv, Run
  <1>6. QED  BY <1>1, <1>5

\* A job that fires: its row moves on and a new run holds two places.
LEMMA FireType ==
    ASSUME TypeInv, NEW s \in loop.todo, Fire(s)
    PROVE  /\ TypeInv'
           /\ s \in Fetched /\ s.job \in Job /\ loop.now \in Time
           /\ row[s.job] \in Row
           /\ \E q : /\ live' = live \cup {q} /\ q \notin live
                     /\ q.job = s.job /\ q.failures = s.failures
                     /\ q.at = "check"
  <1>1. /\ s \in Fetched /\ s.job \in Job /\ s.next \in Occurrence
        /\ s.failures \in Nat /\ s.oneShot \in BOOLEAN /\ loop.now \in Time
    <2>1. loop \in Loops
      BY DEF TypeInv
    <2>2. s \in Fetched /\ loop.now \in Time
      BY <2>1 DEF Loops
    <2>3. QED  BY <2>2 DEF Fetched
  <1>2. row[s.job] \in Row
    BY <1>1, PresentRow DEF Fire
  <1>3. row' \in [Job -> Row \cup {Unborn, Gone}]
    <2>1. Updated(s) \in Row
      <3>1. NextRun(loop.now) \in Occurrence
        BY <1>1, NextRunType
      <3>2. (~s.oneShot) \in BOOLEAN
        OBVIOUS
      <3>3. (IF s.oneShot THEN "Completed" ELSE "Active")
               \in {"Active", "Completed"}
        OBVIOUS
      <3>4. QED  BY <1>2, <3>1, <3>2, <3>3 DEF Updated, Row
    <2>2. row' = [row EXCEPT ![s.job] = Updated(s)]
      BY DEF Fire
    <2>3. QED  BY <1>1, <2>1, <2>2 DEF TypeInv
  <1>4. loop' \in Loops
    <2>1. loop' = Without(s)
      BY DEF Fire
    <2>2. 0 \in Time
      BY CronAssumption DEF Time
    <2>3. Waiting \in Loops
      BY <2>2 DEF Waiting, Loops
    <2>4. loop \in Loops
      BY DEF TypeInv
    <2>5. [loop EXCEPT !.todo = loop.todo \ {s}] \in Loops
      BY <2>4 DEF Loops
    <2>6. QED  BY <2>1, <2>3, <2>5 DEF Without
  <1>5. /\ spawned \in Nat /\ spawned' = spawned + 1
    BY DEF Fire, Spawn, TypeInv
  <1> DEFINE q == [id |-> spawned + 1, job |-> s.job,
                   failures |-> s.failures, at |-> "check"]
  <1>6. live' = live \cup {q}
    BY DEF Fire, Spawn
  <1>7. /\ q \in Run' /\ q.id = spawned + 1 /\ q.job = s.job
        /\ q.failures = s.failures /\ q.at = "check"
    BY <1>1, <1>5 DEF Run
  <1> HIDE DEF q
  <1>8. \A r \in live : r \in Run' /\ r.id # spawned + 1
    <2>1. live \subseteq Run
      BY DEF TypeInv
    <2>2. 1..spawned \subseteq 1..(spawned') /\ spawned + 1 \notin 1..spawned
      BY <1>5
    <2>3. QED  BY <2>1, <2>2 DEF Run
  <1>9. q \notin live
    BY <1>7, <1>8
  <1>10. live' \subseteq Run'
    BY <1>6, <1>7, <1>8
  <1>11. IsFiniteSet(live')
    BY <1>6, FS_AddElement DEF TypeInv
  <1>12. \A r, t \in live' : r.id = t.id => r = t
    BY <1>6, <1>7, <1>8 DEF TypeInv
  <1>13. active' \in Nat /\ perJob' \in [Job -> Nat]
    BY <1>1 DEF TypeInv, Fire, Spawn
  <1>14. fired' \in [Job -> SUBSET Occurrence]
    BY <1>1 DEF TypeInv, Fire, Spawn
  <1>15. UNCHANGED <<clock, up, asks, failedRuns>>
    BY DEF Fire, Spawn
  <1>16. TypeInv'
    BY <1>3, <1>4, <1>5, <1>10, <1>11, <1>12, <1>13, <1>14, <1>15 DEF TypeInv
  <1>17. QED
    BY <1>1, <1>2, <1>6, <1>7, <1>9, <1>16

-----------------------------------------------------------------------------
(* Counting runs.                                                            *)

LEMMA ReplaceKeepsCardinality ==
    ASSUME NEW S, IsFiniteSet(S), NEW r \in S, NEW q, q \notin S \ {r}
    PROVE  /\ IsFiniteSet((S \ {r}) \cup {q})
           /\ Cardinality((S \ {r}) \cup {q}) = Cardinality(S)
  <1>1. /\ IsFiniteSet(S \ {r})
        /\ Cardinality(S \ {r}) = Cardinality(S) - 1
    BY FS_RemoveElement
  <1>2. Cardinality(S) \in Nat
    BY FS_CardinalityType
  <1>3. /\ IsFiniteSet((S \ {r}) \cup {q})
        /\ Cardinality((S \ {r}) \cup {q}) = Cardinality(S \ {r}) + 1
    BY <1>1, FS_AddElement
  <1>4. QED  BY <1>1, <1>2, <1>3

LEMMA FiniteRuns ==
    ASSUME TypeInv
    PROVE  /\ IsFiniteSet(Holding) /\ Cardinality(Holding) \in Nat
           /\ \A j : IsFiniteSet(RunsOf(j)) /\ Cardinality(RunsOf(j)) \in Nat
  <1>1. IsFiniteSet(live)
    BY DEF TypeInv
  <1>2. IsFiniteSet(Holding)
    BY <1>1, FS_Subset DEF Holding
  <1>3. \A j : IsFiniteSet(RunsOf(j))
    BY <1>1, FS_Subset DEF RunsOf
  <1>4. QED  BY <1>2, <1>3, FS_CardinalityType

\* Who holds a place is counted, so that it can be given back.
LEMMA PlacesAreThere ==
    ASSUME TypeInv, CountInv, NEW r \in live
    PROVE  /\ r.job \in Job /\ perJob[r.job] > 0
           /\ r.at # "release" => active > 0
  <1>1. /\ Cardinality(Holding) \in Nat /\ IsFiniteSet(Holding)
        /\ \A j : Cardinality(RunsOf(j)) \in Nat /\ IsFiniteSet(RunsOf(j))
    BY FiniteRuns
  <1>2. r.job \in Job
    BY DEF TypeInv, Run
  <1>3. r \in RunsOf(r.job)
    BY DEF RunsOf
  <1>4. Cardinality(RunsOf(r.job)) # 0
    BY <1>1, <1>3, FS_EmptySet
  <1>5. ASSUME r.at # "release"
        PROVE  Cardinality(Holding) # 0
    <2>1. r \in Holding
      BY <1>5 DEF Holding
    <2>2. QED  BY <1>1, <2>1, FS_EmptySet
  <1>6. QED  BY <1>1, <1>2, <1>4, <1>5 DEF CountInv

\* A run that moves on within its task.
LEMMA MoveCounts ==
    ASSUME TypeInv, CountInv, NEW r \in live, r.at # "release",
           spawned' = spawned,
           NEW place \in {"failed", "end", "release"}, Move(r, place)
    PROVE  /\ \A j \in Job : Cardinality(RunsOf(j)') = Cardinality(RunsOf(j))
           /\ Cardinality(Holding') =
                 IF place = "release" THEN Cardinality(Holding) - 1
                 ELSE Cardinality(Holding)
  <1> DEFINE q == [r EXCEPT !.at = place]
  <1>1. live' = (live \ {r}) \cup {q}
    BY DEF Move
  <1>2. /\ q.at = place /\ q.id = r.id /\ q.job = r.job
    BY DEF TypeInv, Run
  <1>3. q \notin live \ {r}
    BY <1>2 DEF TypeInv
  <1> HIDE DEF q
  <1>4. /\ IsFiniteSet(Holding) /\ r \in Holding
        /\ \A j : IsFiniteSet(RunsOf(j))
    BY FiniteRuns DEF Holding
  <1>5. ASSUME NEW j \in Job
        PROVE  Cardinality(RunsOf(j)') = Cardinality(RunsOf(j))
    <2>1. CASE r.job = j
      <3>1. RunsOf(j)' = (RunsOf(j) \ {r}) \cup {q}
        BY <1>1, <1>2, <2>1 DEF RunsOf
      <3>2. r \in RunsOf(j) /\ q \notin RunsOf(j) \ {r}
        BY <1>3, <2>1 DEF RunsOf
      <3>3. QED  BY <1>4, <3>1, <3>2, ReplaceKeepsCardinality
    <2>2. CASE r.job # j
      <3>1. RunsOf(j)' = RunsOf(j)
        BY <1>1, <1>2, <2>2 DEF RunsOf
      <3>2. QED  BY <3>1
    <2>3. QED  BY <2>1, <2>2
  <1>6. CASE place = "release"
    <2>1. Holding' = Holding \ {r}
      BY <1>1, <1>2, <1>6 DEF Holding
    <2>2. QED  BY <1>4, <1>5, <1>6, <2>1, FS_RemoveElement
  <1>7. CASE place # "release"
    <2>1. Holding' = (Holding \ {r}) \cup {q}
      BY <1>1, <1>2, <1>7 DEF Holding
    <2>2. q \notin Holding \ {r}
      BY <1>3 DEF Holding
    <2>3. Cardinality(Holding') = Cardinality(Holding)
      BY <1>4, <2>1, <2>2, ReplaceKeepsCardinality
    <2>4. QED  BY <1>5, <1>7, <2>3
  <1>8. QED  BY <1>6, <1>7

\* What the steps of a run leave alone, and where it goes.
LEMMA RunStepEffect ==
    ASSUME NEW r \in live, RunStep(r)
    PROVE  /\ UNCHANGED <<clock, up, loop, asks, spawned, calls, fired,
                          spent, twice>>
           /\ \/ /\ r.at = "check" /\ Release(r)
                 /\ UNCHANGED <<row, failedRuns>>
              \/ /\ r.at = "check" /\ Move(r, "failed")
                 /\ failedRuns' = [failedRuns EXCEPT ![r.job] = @ + 1]
                 /\ UNCHANGED <<row, active, perJob>>
              \/ /\ r.at = "failed" /\ Move(r, "end")
                 /\ \/ /\ Present(r.job)
                       /\ row' = [row EXCEPT ![r.job].failures = Failures(r),
                                             ![r.job].status = StatusAfter(r)]
                    \/ row' = row
                 /\ UNCHANGED <<active, perJob, failedRuns>>
              \/ /\ r.at = "end" /\ Release(r)
                 /\ UNCHANGED <<row, failedRuns>>
              \/ /\ r.at = "release" /\ live' = live \ {r}
                 /\ perJob' = [perJob EXCEPT ![r.job] = @ - 1]
                 /\ UNCHANGED <<row, active, failedRuns>>
  <1>1. CASE Refuse(r)
    BY <1>1 DEF Refuse, storeVars, bounds, history, Release
  <1>2. CASE Schedule(r)
    BY <1>2 DEF Schedule, storeVars, bounds, Release
  <1>3. CASE RecordFailure(r)
    BY <1>3 DEF RecordFailure, history
  <1>4. CASE EndRun(r)
    BY <1>4 DEF EndRun, storeVars, bounds, history, Release
  <1>5. CASE Leave(r)
    BY <1>5 DEF Leave, storeVars, bounds, history
  <1>6. QED  BY <1>1, <1>2, <1>3, <1>4, <1>5 DEF RunStep

\* A run gives its places back once, and records its failure in its own row.
LEMMA RunStepInv ==
    ASSUME TypeInv, CountInv, NEW r \in live, RunStep(r)
    PROVE  TypeInv' /\ CountInv'
  <1>1. /\ r \in Run /\ r.job \in Job /\ r.failures \in Nat
        /\ perJob[r.job] > 0 /\ (r.at # "release" => active > 0)
        /\ active \in Nat /\ perJob \in [Job -> Nat]
    BY PlacesAreThere DEF TypeInv, Run
  <1>2. UNCHANGED <<clock, up, loop, asks, spawned, fired, spent, twice>>
    BY RunStepEffect
  <1>3. /\ Cardinality(Holding) \in Nat /\ active = Cardinality(Holding)
        /\ active <= MaxConcurrent /\ MaxConcurrent \in Nat
        /\ \A j \in Job : /\ perJob[j] = Cardinality(RunsOf(j))
                          /\ perJob[j] <= JobLimit[j]
                          /\ JobLimit[j] \in Nat /\ perJob[j] \in Nat
    BY <1>1, FiniteRuns, CronAssumption DEF CountInv
  <1>4. ASSUME NEW place \in {"failed", "end", "release"}, Move(r, place),
               r.at # "release", perJob' = perJob,
               active' = IF place = "release" THEN active - 1 ELSE active,
               row' \in [Job -> Row \cup {Unborn, Gone}],
               failedRuns' \in [Job -> Nat]
        PROVE  TypeInv' /\ CountInv'
    <2>1. /\ live' \subseteq Run' /\ IsFiniteSet(live')
          /\ \A s, t \in live' : s.id = t.id => s = t
      BY <1>2, <1>4, MoveType
    <2>2. active' \in Nat
      BY <1>1, <1>4
    <2>3. TypeInv'
      BY <1>2, <1>4, <2>1, <2>2 DEF TypeInv
    <2>4. /\ \A j \in Job : Cardinality(RunsOf(j)') = Cardinality(RunsOf(j))
          /\ Cardinality(Holding') =
                IF place = "release" THEN Cardinality(Holding) - 1
                ELSE Cardinality(Holding)
      BY <1>2, <1>4, MoveCounts
    <2>5. active' = Cardinality(Holding') /\ active' <= MaxConcurrent
      BY <1>1, <1>3, <1>4, <2>4
    <2>6. CountInv'
      BY <1>3, <1>4, <2>4, <2>5 DEF CountInv
    <2>7. QED  BY <2>3, <2>6
  <1>5. row \in [Job -> Row \cup {Unborn, Gone}] /\ failedRuns \in [Job -> Nat]
    BY DEF TypeInv
  <1>6. CASE /\ r.at \in {"check", "end"} /\ Release(r)
             /\ UNCHANGED <<row, failedRuns>>
    BY <1>1, <1>4, <1>5, <1>6 DEF Release
  <1>7. CASE /\ r.at = "check" /\ Move(r, "failed")
             /\ failedRuns' = [failedRuns EXCEPT ![r.job] = @ + 1]
             /\ UNCHANGED <<row, active, perJob>>
    BY <1>1, <1>4, <1>5, <1>7
  <1>8. CASE /\ r.at = "failed" /\ Move(r, "end")
             /\ \/ /\ Present(r.job)
                   /\ row' = [row EXCEPT ![r.job].failures = Failures(r),
                                         ![r.job].status = StatusAfter(r)]
                \/ row' = row
             /\ UNCHANGED <<active, perJob, failedRuns>>
    <2>1. CASE row' = row
      BY <1>1, <1>4, <1>5, <1>8, <2>1
    <2>2. CASE /\ Present(r.job)
               /\ row' = [row EXCEPT ![r.job].failures = Failures(r),
                                     ![r.job].status = StatusAfter(r)]
      <3>1. row[r.job] \in Row
        BY <1>1, <2>2, PresentRow
      <3>2. Failures(r) \in Nat /\ StatusAfter(r) \in {"Active", "DeadLetter"}
        BY <1>1 DEF Failures, StatusAfter
      <3>3. row' \in [Job -> Row \cup {Unborn, Gone}]
        <4> DEFINE x == [row[r.job] EXCEPT !.failures = Failures(r),
                                          !.status = StatusAfter(r)]
        <4>1. x \in Row
          BY <3>1, <3>2 DEF Row
        <4>2. row' = [row EXCEPT ![r.job] = x]
          BY <1>1, <1>5, <2>2
        <4> HIDE DEF x
        <4>3. QED  BY <1>1, <1>5, <4>1, <4>2
      <3>4. QED  BY <1>1, <1>4, <1>5, <1>8, <3>3
    <2>3. QED  BY <1>8, <2>1, <2>2
  <1>9. CASE /\ r.at = "release" /\ live' = live \ {r}
             /\ perJob' = [perJob EXCEPT ![r.job] = @ - 1]
             /\ UNCHANGED <<row, active, failedRuns>>
    <2>1. live' \subseteq Run' /\ IsFiniteSet(live')
      BY <1>2, <1>9, FS_Subset DEF TypeInv, Run
    <2>2. perJob' \in [Job -> Nat]
      BY <1>1, <1>9
    <2>3. TypeInv'
      BY <1>2, <1>9, <2>1, <2>2 DEF TypeInv
    <2>4. Holding' = Holding
      BY <1>9 DEF Holding
    <2>5. \A j \in Job : j # r.job => RunsOf(j)' = RunsOf(j)
      BY <1>9 DEF RunsOf
    <2>6. Cardinality(RunsOf(r.job)') = Cardinality(RunsOf(r.job)) - 1
      <3>1. RunsOf(r.job)' = RunsOf(r.job) \ {r} /\ r \in RunsOf(r.job)
        BY <1>9 DEF RunsOf
      <3>2. IsFiniteSet(RunsOf(r.job))
        BY FiniteRuns
      <3>3. QED  BY <3>1, <3>2, FS_RemoveElement
    <2>7. \A j \in Job : /\ perJob'[j] = Cardinality(RunsOf(j)')
                         /\ perJob'[j] <= JobLimit[j]
      <3>1. TAKE j \in Job
      <3>2. CASE j # r.job
        BY <1>1, <1>3, <1>9, <2>5, <3>2
      <3>3. CASE j = r.job
        <4>1. perJob'[j] = perJob[j] - 1
          BY <1>1, <1>9, <3>3
        <4>2. QED  BY <1>3, <2>6, <3>3, <4>1
      <3>4. QED  BY <3>2, <3>3
    <2>8. CountInv'
      BY <1>3, <1>9, <2>4, <2>7 DEF CountInv
    <2>9. QED  BY <2>3, <2>8
  <1>10. QED  BY <1>6, <1>7, <1>8, <1>9, RunStepEffect

\* A run is spawned only where both limits leave it a place.
LEMMA FireInv ==
    ASSUME TypeInv, CountInv, NEW s \in loop.todo, Fire(s)
    PROVE  TypeInv' /\ CountInv'
  <1>1. TypeInv' /\ s.job \in Job
    BY FireType
  <1>2. PICK q : /\ live' = live \cup {q} /\ q \notin live
                 /\ q.job = s.job /\ q.at = "check"
    BY FireType
  <1>3. /\ IsFiniteSet(Holding) /\ Cardinality(Holding) \in Nat
        /\ \A j : IsFiniteSet(RunsOf(j)) /\ Cardinality(RunsOf(j)) \in Nat
    BY FiniteRuns
  <1>4. /\ active' = active + 1 /\ active < MaxConcurrent
        /\ active = Cardinality(Holding) /\ MaxConcurrent \in Nat
    BY CronAssumption DEF Fire, Spawn, CountInv
  <1>5. Cardinality(Holding') = Cardinality(Holding) + 1
    <2>1. Holding' = Holding \cup {q} /\ q \notin Holding
      BY <1>2 DEF Holding
    <2>2. QED  BY <1>3, <2>1, FS_AddElement
  <1>6. active' = Cardinality(Holding') /\ active' <= MaxConcurrent
    BY <1>3, <1>4, <1>5
  <1>7. /\ perJob \in [Job -> Nat]
        /\ perJob' = [perJob EXCEPT ![s.job] = @ + 1]
        /\ ~AtJobLimit(s.job)
    BY DEF TypeInv, Fire, Spawn
  <1>8. ASSUME NEW j \in Job
        PROVE  /\ perJob'[j] = Cardinality(RunsOf(j)')
               /\ perJob'[j] <= JobLimit[j]
    <2>1. /\ perJob[j] = Cardinality(RunsOf(j)) /\ perJob[j] <= JobLimit[j]
          /\ JobLimit[j] \in Nat /\ perJob[j] \in Nat
      BY <1>7, CronAssumption DEF CountInv
    <2>2. CASE j = s.job
      <3>1. RunsOf(j)' = RunsOf(j) \cup {q} /\ q \notin RunsOf(j)
        BY <1>2, <2>2 DEF RunsOf
      <3>2. Cardinality(RunsOf(j)') = Cardinality(RunsOf(j)) + 1
        BY <1>3, <3>1, FS_AddElement
      <3>3. perJob'[j] = perJob[j] + 1 /\ ~(perJob[j] >= JobLimit[j])
        BY <1>1, <1>7, <2>2 DEF AtJobLimit
      <3>4. QED  BY <2>1, <3>2, <3>3
    <2>3. CASE j # s.job
      <3>1. RunsOf(j)' = RunsOf(j)
        BY <1>2, <2>3 DEF RunsOf
      <3>2. perJob'[j] = perJob[j]
        BY <1>1, <1>7, <2>3
      <3>3. QED  BY <2>1, <3>1, <3>2
    <2>4. QED  BY <2>2, <2>3
  <1>9. QED  BY <1>1, <1>6, <1>8 DEF CountInv

\* A caller writes the row that it has read, changed in some columns.
LEMMA CallStepEffect ==
    ASSUME TypeInv, NEW c \in Caller, CallStep(c)
    PROVE  /\ UNCHANGED <<clock, up, loop, live, active, perJob, spawned,
                          twice, failedRuns>>
           /\ \/ \E op \in {"pause", "resume", "update"}, j \in Job :
                    /\ Present(j)
                    /\ asks' = [asks EXCEPT ![c] =
                                  [op |-> op, job |-> j, row |-> row[j],
                                   since |-> clock]]
                    /\ UNCHANGED <<row, fired, spent>>
              \/ \E r \in Row :
                    /\ asks[c].op # "none"
                    /\ asks[c].job \in Job /\ asks[c].row \in Row
                    /\ row' = [row EXCEPT ![asks[c].job] = r]
                    /\ asks' = [asks EXCEPT ![c] = Idle]
                    /\ r.failures <= asks[c].row.failures
                    /\ r.status = "DeadLetter" =>
                          asks[c].row.status = "DeadLetter"
                    /\ \/ ~r.enabled /\ UNCHANGED <<fired, spent>>
                       \/ /\ fired' = [fired EXCEPT ![asks[c].job] = {}]
                          /\ spent' = spent \ {asks[c].job}
  <1>1. CASE \E op \in {"pause", "resume", "update"}, j \in Job :
                Read(c, op, j)
    BY <1>1 DEF Read, storeVars, history
  <1>2. ASSUME asks[c].op # "none"
        PROVE  /\ asks[c].job \in Job /\ asks[c].row \in Row
               /\ asks[c].row.failures \in Nat /\ asks[c].since \in Time
    BY <1>2 DEF TypeInv, Row, Calls
  <1>3. CASE Pause(c)
    <2> DEFINE r == [asks[c].row EXCEPT !.status = "Paused",
                                        !.enabled = FALSE]
    <2>1. asks[c].op # "none"
      BY <1>3 DEF Pause
    <2>2. /\ r \in Row /\ ~r.enabled /\ r.status = "Paused"
          /\ r.failures = asks[c].row.failures
      BY <1>2, <2>1 DEF Row
    <2>3. Save(c, r) /\ UNCHANGED <<fired, spent>>
      BY <1>3 DEF Pause
    <2> HIDE DEF r
    <2>4. r.failures <= asks[c].row.failures
      BY <1>2, <2>1, <2>2
    <2>5. QED  BY <1>2, <2>1, <2>2, <2>3, <2>4 DEF Save, bounds
  <1>4. ASSUME NEW r \in Row, Armed(c, r), asks[c].op # "none",
               r.failures <= asks[c].row.failures,
               r.status = "DeadLetter" => asks[c].row.status = "DeadLetter"
        PROVE  /\ UNCHANGED <<clock, up, loop, live, active, perJob, spawned,
                              twice, failedRuns>>
               /\ \E s \in Row :
                    /\ row' = [row EXCEPT ![asks[c].job] = s]
                    /\ asks' = [asks EXCEPT ![c] = Idle]
                    /\ s.failures <= asks[c].row.failures
                    /\ s.status = "DeadLetter" =>
                          asks[c].row.status = "DeadLetter"
                    /\ fired' = [fired EXCEPT ![asks[c].job] = {}]
                    /\ spent' = spent \ {asks[c].job}
    <2>1. PICK t \in asks[c].since .. clock :
                  Save(c, [r EXCEPT !.next = NextRun(t)])
      BY <1>4 DEF Armed
    <2>2. t \in Time
      <3>1. asks[c].since \in Time /\ clock \in Time
        BY <1>2, <1>4 DEF TypeInv
      <3>2. QED  BY <3>1, <2>1, CronAssumption DEF Time
    <2> DEFINE s == [r EXCEPT !.next = NextRun(t)]
    <2>3. NextRun(t) \in Occurrence
      BY <2>2, NextRunType
    <2>4. s \in Row /\ s.failures = r.failures /\ s.status = r.status
      BY <2>3 DEF Row
    <2>5. /\ Save(c, s) /\ fired' = [fired EXCEPT ![asks[c].job] = {}]
          /\ spent' = spent \ {asks[c].job}
      BY <1>4, <2>1 DEF Armed
    <2> HIDE DEF s
    <2>6. QED  BY <1>4, <2>4, <2>5 DEF Save, bounds
  <1>5. CASE Resume(c)
    <2> DEFINE r == [asks[c].row EXCEPT !.status = "Active",
                                        !.enabled = TRUE, !.failures = 0]
    <2>1. asks[c].op # "none"
      BY <1>5 DEF Resume
    <2>2. r \in Row /\ r.status = "Active" /\ r.failures = 0
      BY <1>2, <2>1 DEF Row
    <2>3. Armed(c, r)
      BY <1>5 DEF Resume
    <2> HIDE DEF r
    <2>4. r.failures <= asks[c].row.failures
      BY <1>2, <2>1, <2>2
    <2>5. QED  BY <1>2, <1>4, <2>1, <2>2, <2>3, <2>4
  <1>6. CASE Update(c)
    <2>1. PICK once \in BOOLEAN :
                  Armed(c, [asks[c].row EXCEPT !.oneShot = once])
      BY <1>6 DEF Update
    <2> DEFINE r == [asks[c].row EXCEPT !.oneShot = once]
    <2>2. asks[c].op # "none"
      BY <1>6 DEF Update
    <2>3. /\ r \in Row /\ r.status = asks[c].row.status
          /\ r.failures = asks[c].row.failures
      BY <1>2, <2>2 DEF Row
    <2>4. Armed(c, r)
      BY <2>1
    <2> HIDE DEF r
    <2>5. r.failures <= asks[c].row.failures
      BY <1>2, <2>2, <2>3
    <2>6. QED  BY <1>2, <1>4, <2>2, <2>3, <2>4, <2>5
  <1>7. QED  BY <1>1, <1>3, <1>5, <1>6 DEF CallStep

LEMMA CallStepInv ==
    ASSUME TypeInv, CountInv, NEW c \in Caller, CallStep(c)
    PROVE  TypeInv' /\ CountInv'
  <1>1. UNCHANGED <<clock, up, loop, live, active, perJob, spawned,
                    failedRuns>>
    BY CallStepEffect
  <1>2. /\ row \in [Job -> Row \cup {Unborn, Gone}]
        /\ asks \in [Caller -> Calls] /\ clock \in Time
        /\ fired \in [Job -> SUBSET Occurrence]
    BY DEF TypeInv
  <1>3. CountInv'
    BY <1>1 DEF CountInv, Holding, RunsOf
  <1>4. /\ asks' \in [Caller -> Calls]
        /\ row' \in [Job -> Row \cup {Unborn, Gone}]
        /\ fired' \in [Job -> SUBSET Occurrence]
        /\ \A d \in Caller :
              asks'[d].op # "none" =>
                 asks'[d].job \in Job /\ asks'[d].row \in Row
    <2>1. ASSUME NEW op \in {"pause", "resume", "update"}, NEW j \in Job,
                 Present(j),
                 asks' = [asks EXCEPT ![c] =
                            [op |-> op, job |-> j, row |-> row[j],
                             since |-> clock]],
                 UNCHANGED <<row, fired>>
          PROVE  <1>4!:
      <3> DEFINE x == [op |-> op, job |-> j, row |-> row[j], since |-> clock]
      <3>1. row[j] \in Row
        BY <2>1, PresentRow
      <3>2. x \in Calls /\ x.job \in Job /\ x.row \in Row
        BY <1>2, <3>1 DEF Calls
      <3>3. asks' = [asks EXCEPT ![c] = x]
        BY <2>1
      <3> HIDE DEF x
      <3>4. asks' \in [Caller -> Calls]
        BY <1>2, <3>2, <3>3
      <3>5. \A d \in Caller : asks'[d] = IF d = c THEN x ELSE asks[d]
        BY <1>2, <3>3
      <3>6. \A d \in Caller :
              asks'[d].op # "none" =>
                 asks'[d].job \in Job /\ asks'[d].row \in Row
        BY <3>2, <3>5 DEF TypeInv
      <3>7. QED  BY <1>2, <2>1, <3>4, <3>6
    <2>2. ASSUME NEW r \in Row, asks[c].job \in Job,
                 row' = [row EXCEPT ![asks[c].job] = r],
                 asks' = [asks EXCEPT ![c] = Idle],
                 \/ fired' = fired
                 \/ fired' = [fired EXCEPT ![asks[c].job] = {}]
          PROVE  <1>4!:
      <3>1. Idle \in Calls /\ Idle.op = "none"
        BY CronAssumption DEF Idle, Calls, Time
      <3>2. asks' \in [Caller -> Calls]
        BY <1>2, <2>2, <3>1
      <3>3. \A d \in Caller : asks'[d] = IF d = c THEN Idle ELSE asks[d]
        BY <1>2, <2>2
      <3>4. \A d \in Caller :
              asks'[d].op # "none" =>
                 asks'[d].job \in Job /\ asks'[d].row \in Row
        BY <3>1, <3>3 DEF TypeInv
      <3>5. row' \in [Job -> Row \cup {Unborn, Gone}]
        BY <1>2, <2>2
      <3>6. fired' \in [Job -> SUBSET Occurrence]
        BY <1>2, <2>2
      <3>7. QED  BY <3>2, <3>4, <3>5, <3>6
    <2>3. QED  BY <2>1, <2>2, CallStepEffect
  <1>5. TypeInv'
    BY <1>1, <1>4 DEF TypeInv, Run
  <1>6. QED  BY <1>3, <1>5

\* A row is added, removed or left.
LEMMA StoreInv ==
    ASSUME TypeInv, CountInv, NEW j \in Job, Add(j) \/ RemoveJob(j)
    PROVE  TypeInv' /\ CountInv'
  <1>1. UNCHANGED <<clock, up, loop, live, active, perJob, asks, spawned,
                    fired, failedRuns>>
    BY DEF Add, RemoveJob, memory, history
  <1>2. row' \in [Job -> Row \cup {Unborn, Gone}]
    <2>1. clock \in Time /\ row \in [Job -> Row \cup {Unborn, Gone}]
      BY DEF TypeInv
    <2>2. Added(j, clock) \in Row
      BY <2>1, AddedType
    <2>3. QED  BY <2>1, <2>2 DEF Add, RemoveJob
  <1>3. QED  BY <1>1, <1>2 DEF TypeInv, CountInv, Run, Holding, RunsOf

\* The process ends, and another begins with nothing in memory.
LEMMA ProcessInv ==
    ASSUME TypeInv, CountInv, Shutdown \/ Crash \/ Restart
    PROVE  TypeInv' /\ CountInv'
  <1>1. UNCHANGED <<clock, row, spawned, fired, failedRuns>>
    BY DEF Shutdown, Crash, Restart, storeVars, bounds, history
  <1>2. loop' \in Loops /\ up' \in BOOLEAN
    <2>1. 0 \in Time
      BY CronAssumption DEF Time
    <2>2. Waiting \in Loops /\ TickEnded \in Loops
      BY <2>1 DEF Waiting, TickEnded, Loops
    <2>3. QED  BY <2>2 DEF TypeInv, Shutdown, Crash, Restart
  <1>3. CASE Shutdown \/ Restart
    <2>1. UNCHANGED <<live, active, perJob, asks>>
      BY <1>3 DEF Shutdown, Restart
    <2>2. QED  BY <1>1, <1>2, <2>1 DEF TypeInv, CountInv, Run, Holding, RunsOf
  <1>4. CASE Crash
    <2>1. /\ live' = {} /\ active' = 0 /\ perJob' = [k \in Job |-> 0]
          /\ asks' = [c \in Caller |-> Idle]
      BY <1>4 DEF Crash
    <2>2. Idle \in Calls /\ Idle.op = "none"
      BY CronAssumption DEF Idle, Calls, Time
    <2>3. asks' \in [Caller -> Calls] /\ \A c \in Caller : asks'[c].op = "none"
      BY <2>1, <2>2
    <2>4. IsFiniteSet({}) /\ Cardinality({}) = 0
      BY FS_EmptySet
    <2>5. TypeInv'
      BY <1>1, <1>2, <2>1, <2>3, <2>4 DEF TypeInv, Run
    <2>6. Holding' = {} /\ \A k : RunsOf(k)' = {}
      BY <2>1 DEF Holding, RunsOf
    <2>7. CountInv'
      BY <2>1, <2>4, <2>6, CronAssumption DEF CountInv
    <2>8. QED  BY <2>5, <2>7
  <1>5. QED  BY <1>3, <1>4

LEMMA InitCount == JobsInit => CountInv
  <1>1. ASSUME JobsInit PROVE Holding = {} /\ \A j : RunsOf(j) = {}
    BY <1>1 DEF JobsInit, Holding, RunsOf
  <1>2. QED  BY <1>1, FS_EmptySet, CronAssumption DEF JobsInit, CountInv

LEMMA CountStep ==
    TypeInv /\ CountInv /\ [JobsNext]_jobs => TypeInv' /\ CountInv'
  <1> SUFFICES ASSUME TypeInv, CountInv, [JobsNext]_jobs
               PROVE  TypeInv' /\ CountInv'
    OBVIOUS
  <1>1. CASE Tick \/ UNCHANGED jobs
    <2>1. UNCHANGED <<row, up, loop, live, active, perJob, asks, spawned,
                      fired, failedRuns>>
      BY <1>1 DEF Tick, jobs, storeVars, memory, bounds, history
    <2>2. clock' \in Time
      BY <1>1, CronAssumption
         DEF Tick, Time, TypeInv, jobs, storeVars, memory, bounds, history
    <2>3. QED  BY <2>1, <2>2 DEF TypeInv, CountInv, Run, Holding, RunsOf
  <1>2. CASE Fetch \/ Break \/ Stop \/ \E s \in loop.todo : Skip(s)
    <2>1. TypeInv' /\ UNCHANGED <<live, active, perJob>>
      BY <1>2, LoopType
    <2>2. QED  BY <2>1 DEF CountInv, Holding, RunsOf
  <1>3. CASE \E s \in loop.todo : Fire(s)
    BY <1>3, FireInv
  <1>4. CASE \E r \in live : RunStep(r)
    BY <1>4, RunStepInv
  <1>5. CASE \E c \in Caller : CallStep(c)
    BY <1>5, CallStepInv
  <1>6. CASE \E j \in Job : Add(j) \/ RemoveJob(j)
    BY <1>6, StoreInv
  <1>7. CASE Shutdown \/ Crash \/ Restart
    BY <1>7, ProcessInv
  <1>8. QED
    BY <1>1, <1>2, <1>3, <1>4, <1>5, <1>6, <1>7 DEF JobsNext, TickLoop

LEMMA CountingInvariant == JobsSpec => [](TypeInv /\ CountInv)
  <1>1. JobsInit => TypeInv /\ CountInv
    BY InitType, InitCount
  <1>2. (TypeInv /\ CountInv) /\ [JobsNext]_jobs => (TypeInv /\ CountInv)'
    BY CountStep
  <1>3. QED  BY <1>1, <1>2, PTL DEF JobsSpec

\* Whatever is refused, fails, is removed or lost in a crash, every run gives
\* the place among all and the place of its job back once, so that
\* active_runs and per_job_active are the numbers of the tasks and the limits
\* of cron_scheduler.rs hold.
THEOREM PlacesAreGivenBackOnce == JobsSpec => []LimitsHold
  <1>1. TypeInv /\ CountInv => LimitsHold
    <2> SUFFICES ASSUME TypeInv, CountInv PROVE LimitsHold
      OBVIOUS
    <2>1. /\ loop.at \in {"tick", "fire", "ended"} /\ loop.now \in Time
          /\ \A s \in loop.todo : s.job \in Job /\ s.next \in Occurrence
      BY DEF TypeInv, Loops, Fetched
    <2>2. \A c \in Caller : asks[c].row \in Row \cup {Gone}
      BY DEF TypeInv, Calls
    <2>3. JobsTypeOK
      BY <2>1, <2>2 DEF TypeInv, JobsTypeOK
    <2>4. QED  BY <2>3 DEF CountInv, LimitsHold, Holding, RunsOf
  <1>2. QED  BY <1>1, CountingInvariant, PTL

-----------------------------------------------------------------------------
(* What has fired.                                                           *)

\* The prefix of a job's history is kept while its row is not armed anew and
\* the loop fetches nothing.
LEMMA StaysBehind ==
    ASSUME TypeInv, TypeInv', NEW j \in Job, Behind(j),
           fired'[j] = fired[j], j \in spent' => j \in spent,
           clock <= clock',
           \A s \in loop'.todo : s.job = j => s \in loop.todo,
           loop'.at = "fire" => loop.at = "fire" /\ loop'.now = loop.now,
           IsArmed(j)' => IsArmed(j) /\ row'[j].next = row[j].next,
           row'[j] = Unborn => row[j] = Unborn
    PROVE  Behind(j)'
  <1>1. \A o \in fired[j] : o \in Nat
    BY CronAssumption DEF TypeInv, Occurrence
  <1>2. clock \in Nat /\ clock' \in Nat
    BY CronAssumption DEF TypeInv, Time
  <1>3. \A o \in fired[j] : o <= clock'
    BY <1>1, <1>2 DEF Behind
  <1>4. QED  BY <1>3 DEF Behind

\* A job whose history begins again.
LEMMA NothingIsBehind ==
    ASSUME NEW j \in Job, fired'[j] = {}, j \notin spent'
    PROVE  Behind(j)'
  BY DEF Behind

LEMMA FetchesStay ==
    ASSUME TypeInv, TypeInv', FetchInv, clock <= clock',
           loop'.todo \subseteq loop.todo,
           \/ loop'.now = loop.now /\ loop'.at = loop.at
           \/ loop' = Waiting \/ loop' = TickEnded
    PROVE  FetchInv'
  <1>1. /\ clock \in Nat /\ clock' \in Nat
        /\ loop.now \in Nat /\ loop'.now \in Nat
    BY CronAssumption DEF TypeInv, Time, Loops
  <1>2. CASE loop'.now = loop.now /\ loop'.at = loop.at
    BY <1>1, <1>2 DEF FetchInv
  <1>3. CASE loop' = Waiting \/ loop' = TickEnded
    BY <1>1, <1>3 DEF FetchInv, Waiting, TickEnded
  <1>4. QED  BY <1>2, <1>3

\* The loop goes on with the rest of what it has fetched.
LEMMA WithoutStays ==
    ASSUME TypeInv, TypeInv', FetchInv, NEW s \in loop.todo, clock' = clock,
           loop' = Without(s)
    PROVE  /\ FetchInv'
           /\ loop'.todo = loop.todo \ {s}
           /\ loop'.at = "fire" => loop.at = "fire" /\ loop'.now = loop.now
  <1>1. clock \in Nat /\ clock <= clock'
    BY CronAssumption DEF TypeInv, Time
  <1>2. loop \in Loops
    BY DEF TypeInv
  <1>3. CASE loop.todo = {s}
    <2>1. loop' = Waiting /\ loop'.todo = {} /\ loop'.at = "tick"
      BY <1>3 DEF Without, Waiting
    <2>2. QED  BY <1>1, <1>3, <2>1, FetchesStay
  <1>4. CASE loop.todo # {s}
    <2>1. /\ loop'.todo = loop.todo \ {s} /\ loop'.at = loop.at
          /\ loop'.now = loop.now
      BY <1>2, <1>4 DEF Without, Loops
    <2>2. QED  BY <1>1, <2>1, FetchesStay
  <1>5. QED  BY <1>3, <1>4

\* The loop fetches only armed rows, at a moment that is not before any
\* occurrence that has fired.
LEMMA FetchFired ==
    ASSUME TypeInv, TypeInv', FiredInv, Fetch
    PROVE  FiredInv'
  <1>1. /\ UNCHANGED <<clock, row, fired, spent, twice>>
        /\ loop'.at = "fire" /\ loop'.now = clock
        /\ loop'.todo = {[job |-> j, oneShot |-> row[j].oneShot,
                          next |-> row[j].next,
                          failures |-> row[j].failures] :
                             j \in {k \in Job : Due(k)}}
    BY DEF Fetch, storeVars, history
  <1>2. \A s \in loop'.todo : /\ s.job \in Job /\ Due(s.job)
                              /\ s.next = row[s.job].next
                              /\ s.failures = row[s.job].failures
    BY <1>1
  <1>3. \A s, t \in loop'.todo : s.job = t.job => s = t
    BY <1>1
  <1>4. \A s \in loop'.todo : IsArmed(s.job) /\ s.next <= clock
    BY <1>2 DEF Due, IsArmed
  <1>5. clock <= clock /\ clock \in Nat
    BY CronAssumption DEF TypeInv, Time
  <1>6. FetchInv'
    BY <1>1, <1>3, <1>4, <1>5 DEF FetchInv
  <1>7. ASSUME NEW j \in Job
        PROVE  Behind(j)'
    <2>1. Behind(j)
      BY DEF FiredInv
    <2>2. /\ \A o \in fired[j] : o <= clock /\ (IsArmed(j) => o < row[j].next)
          /\ j \in spent => ~IsArmed(j) /\ row[j] # Unborn
      BY <2>1 DEF Behind
    <2>3. ASSUME NEW s \in loop'.todo, s.job = j
          PROVE  s.next \notin fired[j]
      <3>1. IsArmed(j) /\ s.next = row[j].next /\ s.next \in Nat
        <4>1. s \in Fetched
          BY DEF TypeInv, Loops
        <4>2. s.next \in Occurrence
          BY <4>1 DEF Fetched
        <4>3. QED  BY <1>2, <1>4, <2>3, <4>2, CronAssumption DEF Occurrence
      <3>2. ~(row[j].next < row[j].next)
        BY <3>1
      <3>3. QED  BY <2>2, <3>1, <3>2
    <2>4. (\E s \in loop'.todo : s.job = j) => IsArmed(j)
      BY <1>4
    <2>5. IsArmed(j)' <=> IsArmed(j)
      BY <1>1 DEF IsArmed, Present
    <2>6. QED  BY <1>1, <2>2, <2>3, <2>4, <2>5 DEF Behind
  <1>8. QED  BY <1>1, <1>6, <1>7 DEF FiredInv

\* An occurrence that fires has not fired before, and the row is set behind the
\* moment of the fetch, which it does not lie behind.
LEMMA FireFired ==
    ASSUME TypeInv, TypeInv', FiredInv, NEW s \in loop.todo, Fire(s)
    PROVE  FiredInv'
  <1>1. /\ s \in Fetched /\ s.job \in Job /\ loop.now \in Time
        /\ row[s.job] \in Row
    BY FireType
  <1>2. /\ FetchInv /\ twice = {} /\ \A j \in Job : Behind(j)
    BY DEF FiredInv
  <1>3. /\ loop.at = "fire" /\ clock' = clock
        /\ row' = [row EXCEPT ![s.job] = Updated(s)]
        /\ fired' = [fired EXCEPT ![s.job] = @ \cup {s.next}]
        /\ loop' = Without(s)
        /\ spent' = IF s.oneShot THEN spent \cup {s.job} ELSE spent
        /\ twice' = IF s.next \in fired[s.job] \/ s.job \in spent
                    THEN twice \cup {s.job}
                    ELSE twice
    BY DEF Fire, Spawn
  <1>4. /\ fired \in [Job -> SUBSET Occurrence]
        /\ row \in [Job -> Row \cup {Unborn, Gone}]
        /\ s.next \in Occurrence
    BY <1>1 DEF TypeInv, Fetched
  <1>5. /\ FetchInv' /\ loop'.todo = loop.todo \ {s}
        /\ loop'.at = "fire" => loop'.now = loop.now
    BY <1>2, <1>3, WithoutStays
  <1>6. s.next \notin fired[s.job] /\ s.job \notin spent
    BY <1>1, <1>2 DEF Behind
  <1>7. twice' = {}
    BY <1>2, <1>3, <1>6
  <1>8. ASSUME NEW j \in Job, j # s.job
        PROVE  Behind(j)'
    <2>1. /\ fired'[j] = fired[j] /\ row'[j] = row[j]
          /\ j \in spent' => j \in spent
      BY <1>3, <1>4, <1>8
    <2>2. clock <= clock'
      BY <1>3, CronAssumption DEF TypeInv, Time
    <2>3. IsArmed(j)' => IsArmed(j) /\ row'[j].next = row[j].next
      BY <2>1 DEF IsArmed, Present
    <2>4. Behind(j)
      BY <1>2
    <2>5. QED  BY <1>3, <1>5, <2>1, <2>2, <2>3, <2>4, StaysBehind
  <1>9. Behind(s.job)'
    <2> DEFINE j == s.job
    <2>1. /\ fired'[j] = fired[j] \cup {s.next} /\ row'[j] = Updated(s)
          /\ j \in spent' => s.oneShot
      BY <1>1, <1>3, <1>4, <1>6
    <2>2. /\ Updated(s) \in Row' /\ Updated(s).next = loop.now + 1
          /\ s.oneShot => ~Updated(s).enabled
      <3>1. /\ NextRun(loop.now) \in Occurrence
            /\ NextRun(loop.now) = loop.now + 1
        BY <1>1, NextRunType DEF NextRun
      <3>2. (IF s.oneShot THEN "Completed" ELSE "Active")
               \in {"Active", "Completed"}
        OBVIOUS
      <3>3. (~s.oneShot) \in BOOLEAN
        OBVIOUS
      <3>4. QED  BY <1>1, <3>1, <3>2, <3>3 DEF Updated, Row
    <2>3. row'[j] # Unborn
      BY <2>1, <2>2, RowsArePresent
    <2>4. Behind(j)
      BY <1>1, <1>2
    <2>5. \A o \in fired'[j] : o <= loop.now
      BY <1>2, <1>3, <2>1, <2>4 DEF Behind, FetchInv
    <2>6. /\ loop.now \in Nat /\ clock \in Nat /\ loop.now <= clock
          /\ \A o \in fired'[j] : o \in Nat
      BY <1>1, <1>2, <1>4, <2>1, CronAssumption
         DEF TypeInv, Time, FetchInv, Occurrence
    <2>7. \A o \in fired'[j] : o <= clock' /\ o < loop.now + 1
      BY <1>3, <2>5, <2>6
    <2>8. \A t \in loop'.todo : t.job # j
      BY <1>2, <1>5 DEF FetchInv
    <2>9. j \in spent' => ~IsArmed(j)' /\ row'[j] # Unborn
      BY <2>1, <2>2, <2>3 DEF IsArmed
    <2>10. \A o \in fired'[j] :
              /\ o <= clock'
              /\ loop'.at = "fire" => o <= loop'.now
              /\ o < row'[j].next
      BY <1>5, <2>1, <2>2, <2>5, <2>7
    <2>11. QED  BY <2>8, <2>9, <2>10 DEF Behind
  <1>10. QED  BY <1>5, <1>7, <1>8, <1>9 DEF FiredInv

\* The other steps of the loop forget what was fetched, or one job of it.
LEMMA LoopFired ==
    ASSUME TypeInv, TypeInv', FiredInv,
           Break \/ Stop \/ \E s \in loop.todo : Skip(s)
    PROVE  FiredInv'
  <1>1. UNCHANGED <<clock, row, fired, spent, twice>>
    BY LoopType
  <1>2. clock <= clock'
    BY <1>1, CronAssumption DEF TypeInv, Time
  <1>3. /\ FetchInv' /\ loop'.todo \subseteq loop.todo
        /\ loop'.at = "fire" => loop.at = "fire" /\ loop'.now = loop.now
    <2>1. CASE Break \/ Stop
      <3>1. loop' = Waiting \/ loop' = TickEnded
        BY <2>1 DEF Break, Stop
      <3>2. loop'.todo = {} /\ loop'.at # "fire"
        BY <3>1 DEF Waiting, TickEnded
      <3>3. QED  BY <1>2, <3>1, <3>2, FetchesStay DEF FiredInv
    <2>2. CASE \E s \in loop.todo : Skip(s)
      <3>1. PICK s \in loop.todo : loop' = Without(s)
        BY <2>2 DEF Skip
      <3>2. QED  BY <1>1, <3>1, WithoutStays DEF FiredInv
    <2>3. QED  BY <2>1, <2>2
  <1>4. ASSUME NEW j \in Job PROVE Behind(j)'
    <2>1. IsArmed(j)' => IsArmed(j) /\ row'[j].next = row[j].next
      BY <1>1 DEF IsArmed, Present
    <2>2. QED  BY <1>1, <1>2, <1>3, <2>1, StaysBehind DEF FiredInv
  <1>5. QED  BY <1>1, <1>3, <1>4 DEF FiredInv

\* A failure that is recorded disarms no row and arms none.
LEMMA RunStepFired ==
    ASSUME TypeInv, TypeInv', FiredInv, NEW r \in live, RunStep(r)
    PROVE  FiredInv'
  <1>1. UNCHANGED <<clock, loop, fired, spent, twice>>
    BY RunStepEffect
  <1>2. clock <= clock'
    BY <1>1, CronAssumption DEF TypeInv, Time
  <1>3. row \in [Job -> Row \cup {Unborn, Gone}] /\ r.job \in Job
    BY DEF TypeInv, Run
  <1>4. ASSUME NEW j \in Job
        PROVE  /\ IsArmed(j)' => IsArmed(j) /\ row'[j].next = row[j].next
               /\ row'[j] = Unborn => row[j] = Unborn
    <2>1. CASE row'[j] = row[j]
      BY <2>1 DEF IsArmed, Present
    <2>2. CASE /\ j = r.job /\ Present(j)
               /\ row' = [row EXCEPT ![r.job].failures = Failures(r),
                                     ![r.job].status = StatusAfter(r)]
      <3>1. row[j] \in Row
        BY <2>2, PresentRow
      <3>2. row'[j].enabled = row[j].enabled /\ row'[j].next = row[j].next
        BY <1>3, <2>2, <3>1 DEF Row
      <3>3. row'[j] \in Row
        <4>1. row'[j].status \in {"Active", "DeadLetter"}
          BY <1>3, <2>2, <3>1 DEF Row, StatusAfter
        <4>2. row'[j].status \notin {"Unborn", "Gone"}
          BY <4>1
        <4>3. row'[j] \in Row \cup {Unborn, Gone}
          BY DEF TypeInv
        <4>4. QED  BY <4>2, <4>3 DEF Unborn, Gone
      <3>4. QED  BY <2>2, <3>2, <3>3, RowsArePresent DEF IsArmed
    <2>3. \/ row' = row
          \/ /\ Present(r.job)
             /\ row' = [row EXCEPT ![r.job].failures = Failures(r),
                                   ![r.job].status = StatusAfter(r)]
      BY RunStepEffect
    <2>4. QED  BY <1>3, <2>1, <2>2, <2>3
  <1>5. FetchInv'
    BY <1>1 DEF FiredInv, FetchInv
  <1>6. \A j \in Job : Behind(j)'
    BY <1>1, <1>2, <1>4, StaysBehind DEF FiredInv
  <1>7. QED  BY <1>1, <1>5, <1>6 DEF FiredInv

\* A caller writes a row that cannot fire, or lets its history begin again.
LEMMA CallStepFired ==
    ASSUME TypeInv, TypeInv', FiredInv, NEW c \in Caller, CallStep(c)
    PROVE  FiredInv'
  <1>1. UNCHANGED <<clock, loop, twice>>
    BY CallStepEffect
  <1>2. clock <= clock'
    BY <1>1, CronAssumption DEF TypeInv, Time
  <1>3. FetchInv'
    BY <1>1 DEF FiredInv, FetchInv
  <1>4. /\ row \in [Job -> Row \cup {Unborn, Gone}]
        /\ fired \in [Job -> SUBSET Occurrence]
    BY DEF TypeInv
  <1>5. ASSUME NEW j \in Job
        PROVE  \/ fired'[j] = {} /\ j \notin spent'
               \/ /\ fired'[j] = fired[j] /\ (j \in spent' => j \in spent)
                  /\ IsArmed(j)' => IsArmed(j) /\ row'[j].next = row[j].next
                  /\ row'[j] = Unborn => row[j] = Unborn
    <2>1. CASE UNCHANGED <<row, fired, spent>>
      BY <2>1 DEF IsArmed, Present
    <2>2. ASSUME NEW r \in Row, row' = [row EXCEPT ![asks[c].job] = r],
                 asks[c].job \in Job,
                 \/ ~r.enabled /\ UNCHANGED <<fired, spent>>
                 \/ /\ fired' = [fired EXCEPT ![asks[c].job] = {}]
                    /\ spent' = spent \ {asks[c].job}
          PROVE  \/ fired'[j] = {} /\ j \notin spent'
                 \/ /\ fired'[j] = fired[j] /\ (j \in spent' => j \in spent)
                    /\ IsArmed(j)' => /\ IsArmed(j)
                                      /\ row'[j].next = row[j].next
                    /\ row'[j] = Unborn => row[j] = Unborn
      <3>1. CASE j # asks[c].job
        <4>1. /\ row'[j] = row[j] /\ fired'[j] = fired[j]
              /\ j \in spent' => j \in spent
          BY <1>4, <2>2, <3>1
        <4>2. QED  BY <4>1 DEF IsArmed, Present
      <3>2. CASE j = asks[c].job
        <4>1. row'[j] = r /\ r # Unborn
          BY <1>4, <2>2, <3>2, RowsArePresent
        <4>2. QED  BY <1>4, <2>2, <3>2, <4>1 DEF IsArmed
      <3>3. QED  BY <3>1, <3>2
    <2>3. QED  BY <2>1, <2>2, CallStepEffect
  <1>6. ASSUME NEW j \in Job PROVE Behind(j)'
    <2>1. CASE fired'[j] = {} /\ j \notin spent'
      BY <2>1, NothingIsBehind
    <2>2. CASE ~(fired'[j] = {} /\ j \notin spent')
      <3>1. Behind(j)
        BY DEF FiredInv
      <3>2. QED  BY <1>1, <1>2, <1>5, <2>2, <3>1, StaysBehind
    <2>3. QED  BY <2>1, <2>2
  <1>7. QED  BY <1>1, <1>3, <1>6 DEF FiredInv

\* A job that is added has no history, or one that lies before its first run.
LEMMA StoreFired ==
    ASSUME TypeInv, TypeInv', FiredInv, NEW j \in Job, Add(j) \/ RemoveJob(j)
    PROVE  FiredInv'
  <1>1. UNCHANGED <<clock, loop, fired, spent, twice>>
    BY DEF Add, RemoveJob, memory, history
  <1>2. clock \in Time /\ clock \in Nat /\ clock <= clock'
    BY <1>1, CronAssumption DEF TypeInv, Time
  <1>3. FetchInv'
    BY <1>1 DEF FiredInv, FetchInv
  <1>4. row \in [Job -> Row \cup {Unborn, Gone}]
    BY DEF TypeInv
  <1>5. ASSUME NEW k \in Job, k # j PROVE Behind(k)'
    <2>1. row'[k] = row[k]
      BY <1>4, <1>5 DEF Add, RemoveJob
    <2>2. IsArmed(k)' => IsArmed(k) /\ row'[k].next = row[k].next
      BY <2>1 DEF IsArmed, Present
    <2>3. QED  BY <1>1, <1>2, <2>1, <2>2, StaysBehind DEF FiredInv
  <1>6. CASE RemoveJob(j)
    <2>1. row'[j] = Gone /\ Gone # Unborn /\ ~IsArmed(j)'
      BY <1>4, <1>6, RowsArePresent DEF RemoveJob, IsArmed, Present
    <2>2. Behind(j)'
      BY <1>1, <1>2, <2>1, StaysBehind DEF FiredInv
    <2>3. QED  BY <1>1, <1>3, <1>5, <2>2 DEF FiredInv
  <1>7. CASE Add(j)
    <2>1. /\ row[j] = Unborn /\ row'[j].next = clock + 1
      BY <1>2, <1>4, <1>7, AddedType DEF Add, NextRun
    <2>2. Behind(j)
      BY DEF FiredInv
    <2>3. j \notin spent'
      BY <1>1, <2>1, <2>2 DEF Behind
    <2>4. \A o \in fired[j] : o \in Nat
      BY CronAssumption DEF TypeInv, Occurrence
    <2>5. \A o \in fired[j] : o <= clock /\ o < clock + 1
      BY <1>2, <2>2, <2>4 DEF Behind
    <2>6. Behind(j)'
      BY <1>1, <2>1, <2>2, <2>3, <2>5 DEF Behind
    <2>7. QED  BY <1>1, <1>3, <1>5, <2>6 DEF FiredInv
  <1>8. QED  BY <1>6, <1>7

\* Time passes, the process ends or begins, or nothing happens.
LEMMA ProcessFired ==
    ASSUME TypeInv, TypeInv', FiredInv,
           Tick \/ Shutdown \/ Crash \/ Restart \/ UNCHANGED jobs
    PROVE  FiredInv'
  <1>1. UNCHANGED <<row, fired, spent, twice>>
    BY DEF Tick, Shutdown, Crash, Restart, jobs, storeVars, memory, bounds,
           history
  <1>2. clock \in Nat /\ (clock' = clock \/ clock' = clock + 1)
    BY CronAssumption DEF Tick, Shutdown, Crash, Restart, jobs, TypeInv, Time
  <1>3. clock <= clock'
    BY <1>2
  <1>4. loop' = loop \/ loop' = Waiting \/ loop' = TickEnded
    BY DEF Tick, Shutdown, Crash, Restart, jobs, memory
  <1>5. /\ loop'.todo \subseteq loop.todo
        /\ loop'.at = "fire" => loop.at = "fire" /\ loop'.now = loop.now
    BY <1>4 DEF Waiting, TickEnded
  <1>6. FetchInv'
    BY <1>3, <1>4, <1>5, FetchesStay DEF FiredInv
  <1>7. ASSUME NEW j \in Job PROVE Behind(j)'
    <2>1. IsArmed(j)' => IsArmed(j) /\ row'[j].next = row[j].next
      BY <1>1 DEF IsArmed, Present
    <2>2. QED  BY <1>1, <1>3, <1>5, <2>1, StaysBehind DEF FiredInv
  <1>8. QED  BY <1>1, <1>6, <1>7 DEF FiredInv

LEMMA InitFired == JobsInit => FiredInv
  <1> SUFFICES ASSUME JobsInit PROVE FiredInv
    OBVIOUS
  <1>1. loop.todo = {} /\ loop.now = 0 /\ clock = 0 /\ twice = {}
    BY DEF JobsInit, Waiting
  <1>2. spent = {} /\ \A j \in Job : fired[j] = {}
    BY DEF JobsInit
  <1>3. QED  BY <1>1, <1>2 DEF FiredInv, FetchInv, Behind

LEMMA FiredStep ==
    TypeInv /\ TypeInv' /\ FiredInv /\ [JobsNext]_jobs => FiredInv'
  <1> SUFFICES ASSUME TypeInv, TypeInv', FiredInv, [JobsNext]_jobs
               PROVE  FiredInv'
    OBVIOUS
  <1>1. CASE Fetch
    BY <1>1, FetchFired
  <1>2. CASE Break \/ Stop \/ \E s \in loop.todo : Skip(s)
    BY <1>2, LoopFired
  <1>3. CASE \E s \in loop.todo : Fire(s)
    BY <1>3, FireFired
  <1>4. CASE \E r \in live : RunStep(r)
    BY <1>4, RunStepFired
  <1>5. CASE \E c \in Caller : CallStep(c)
    BY <1>5, CallStepFired
  <1>6. CASE \E j \in Job : Add(j) \/ RemoveJob(j)
    BY <1>6, StoreFired
  <1>7. CASE Tick \/ Shutdown \/ Crash \/ Restart \/ UNCHANGED jobs
    BY <1>7, ProcessFired
  <1>8. QED
    BY <1>1, <1>2, <1>3, <1>4, <1>5, <1>6, <1>7 DEF JobsNext, TickLoop

-----------------------------------------------------------------------------
(* What has failed.                                                          *)

LEMMA HonestStays ==
    ASSUME NEW r \in Row, NEW m \in Nat, NEW n \in Nat, m <= n, Honest(r, m)
    PROVE  Honest(r, n)
  <1>1. r.failures \in Nat /\ MaxRetries \in Nat
    BY CronAssumption DEF Row
  <1>2. \A a, b, c \in Nat : a <= b /\ b <= c => a <= c
    OBVIOUS
  <1>3. QED  BY <1>1, <1>2 DEF Honest

\* No step takes a failure back, and the copies that are not written stay.
LEMMA FailuresFrame ==
    ASSUME TypeInv, TypeInv', FailuresInv,
           \A j \in Job : failedRuns[j] <= failedRuns'[j]
    PROVE  /\ \A j \in Job : Present(j) /\ row'[j] = row[j] =>
                 Honest(row'[j], failedRuns'[j])
           /\ \A c \in Caller : asks'[c].op # "none" /\ asks'[c] = asks[c] =>
                 Honest(asks'[c].row, failedRuns'[asks'[c].job])
           /\ \A s \in loop.todo : s.failures <= failedRuns'[s.job]
           /\ \A r \in live :
                 /\ r.failures <= failedRuns'[r.job]
                 /\ r.at = "failed" => r.failures + 1 <= failedRuns'[r.job]
  <1>1. \A j \in Job : failedRuns[j] \in Nat /\ failedRuns'[j] \in Nat
    BY DEF TypeInv
  <1>2. \A n, k, m \in Nat : n <= k /\ k <= m => n <= m
    OBVIOUS
  <1>3. ASSUME NEW j \in Job, Present(j), row'[j] = row[j]
        PROVE  Honest(row'[j], failedRuns'[j])
    <2>1. row[j] \in Row
      BY <1>3, PresentRow
    <2>2. Honest(row[j], failedRuns[j])
      BY <1>3 DEF FailuresInv, RowsAreHonest
    <2>3. QED  BY <1>1, <1>3, <2>1, <2>2, HonestStays
  <1>4. ASSUME NEW c \in Caller, asks'[c].op # "none", asks'[c] = asks[c]
        PROVE  Honest(asks'[c].row, failedRuns'[asks'[c].job])
    <2>1. asks[c].row \in Row /\ asks[c].job \in Job
      BY <1>4 DEF TypeInv
    <2>2. Honest(asks[c].row, failedRuns[asks[c].job])
      BY <1>4 DEF FailuresInv, RowsAreHonest
    <2>3. QED  BY <1>1, <1>4, <2>1, <2>2, HonestStays
  <1>5. ASSUME NEW s \in loop.todo
        PROVE  s.failures <= failedRuns'[s.job]
    <2>1. s \in Fetched
      BY DEF TypeInv, Loops
    <2>2. s.failures \in Nat /\ s.job \in Job
      BY <2>1 DEF Fetched
    <2>3. s.failures <= failedRuns[s.job]
      BY DEF FailuresInv, FetchesAreHonest
    <2>4. QED  BY <1>1, <1>2, <2>2, <2>3
  <1>6. ASSUME NEW r \in live
        PROVE  /\ r.failures <= failedRuns'[r.job]
               /\ r.at = "failed" => r.failures + 1 <= failedRuns'[r.job]
    <2>1. r.failures \in Nat /\ r.failures + 1 \in Nat /\ r.job \in Job
      BY DEF TypeInv, Run
    <2>2. /\ r.failures <= failedRuns[r.job]
          /\ r.at = "failed" => r.failures + 1 <= failedRuns[r.job]
      BY DEF FailuresInv, RunsAreHonest
    <2>3. QED  BY <1>1, <1>2, <2>1, <2>2
  <1>7. QED  BY <1>3, <1>4, <1>5, <1>6

\* The steps that count no failure and write no row from a copy.
LEMMA StepsFail ==
    ASSUME TypeInv, TypeInv', FailuresInv, failedRuns' = failedRuns,
           \A j \in Job : row'[j] # row[j] =>
              row'[j] = Gone \/ \E t \in Time : row'[j] = Added(j, t),
           asks' = asks \/ \A c \in Caller : asks'[c].op = "none",
           loop'.todo \subseteq loop.todo, live' \subseteq live
    PROVE  FailuresInv'
  <1>1. \A j \in Job : failedRuns[j] \in Nat /\ failedRuns[j] <= failedRuns'[j]
    BY DEF TypeInv
  <1>2. ASSUME NEW j \in Job, Present(j)'
        PROVE  Honest(row'[j], failedRuns'[j])
    <2>1. CASE row'[j] = row[j]
      BY <1>1, <1>2, <2>1, FailuresFrame DEF Present
    <2>2. CASE \E t \in Time : row'[j] = Added(j, t)
      BY <1>1, <2>2, AddedType DEF Honest
    <2>3. row'[j] # Gone
      BY <1>2 DEF Present
    <2>4. QED  BY <2>1, <2>2, <2>3
  <1>3. \A c \in Caller : asks'[c].op # "none" =>
           Honest(asks'[c].row, failedRuns'[asks'[c].job])
    BY <1>1, FailuresFrame
  <1>4. RowsAreHonest'
    BY <1>2, <1>3 DEF RowsAreHonest
  <1>5. FetchesAreHonest' /\ RunsAreHonest'
    BY <1>1, FailuresFrame DEF FetchesAreHonest, RunsAreHonest
  <1>6. QED  BY <1>4, <1>5 DEF FailuresInv

LEMMA LoopFail ==
    ASSUME TypeInv, TypeInv', FailuresInv,
           Fetch \/ Break \/ Stop \/ \E s \in loop.todo : Skip(s)
    PROVE  FailuresInv'
  <1>1. UNCHANGED <<row, live, asks, failedRuns>>
    BY LoopType
  <1>2. CASE Fetch
    <2>1. loop'.todo = {[job |-> j, oneShot |-> row[j].oneShot,
                         next |-> row[j].next,
                         failures |-> row[j].failures] :
                            j \in {k \in Job : Due(k)}}
      BY <1>2 DEF Fetch
    <2>2. \A s \in loop'.todo : /\ s.job \in Job /\ Present(s.job)
                                /\ s.failures = row[s.job].failures
      BY <2>1 DEF Due
    <2>3. FetchesAreHonest'
      BY <1>1, <2>2 DEF FailuresInv, RowsAreHonest, Honest, FetchesAreHonest
    <2>4. RowsAreHonest' /\ RunsAreHonest'
      BY <1>1 DEF FailuresInv, RowsAreHonest, RunsAreHonest, Present
    <2>5. QED  BY <2>3, <2>4 DEF FailuresInv
  <1>3. CASE Break \/ Stop \/ \E s \in loop.todo : Skip(s)
    <2>1. loop'.todo \subseteq loop.todo
      BY <1>3
      DEF Break, Stop, Skip, Without, Waiting, TickEnded, TypeInv, Loops
    <2>2. QED  BY <1>1, <2>1, StepsFail
  <1>4. QED  BY <1>2, <1>3

\* A run is spawned with the count that was fetched.
LEMMA FireFail ==
    ASSUME TypeInv, TypeInv', FailuresInv, NEW s \in loop.todo, Fire(s)
    PROVE  FailuresInv'
  <1>1. s.job \in Job /\ row[s.job] \in Row
    BY FireType
  <1>2. PICK q : /\ live' = live \cup {q}
                 /\ q.job = s.job /\ q.failures = s.failures
                 /\ q.at = "check"
    BY FireType
  <1>3. /\ UNCHANGED <<asks, failedRuns>> /\ loop'.todo \subseteq loop.todo
        /\ row' = [row EXCEPT ![s.job] = Updated(s)]
    <2>1. loop' = Without(s)
      BY DEF Fire
    <2>2. loop'.todo \subseteq loop.todo
      BY <2>1 DEF Without, Waiting, TypeInv, Loops
    <2>3. QED  BY <2>2 DEF Fire, Spawn
  <1>4. \A j \in Job : failedRuns[j] \in Nat /\ failedRuns[j] <= failedRuns'[j]
    BY <1>3 DEF TypeInv
  <1>5. ASSUME NEW j \in Job, Present(j)'
        PROVE  Honest(row'[j], failedRuns'[j])
    <2>1. CASE j # s.job
      <3>1. row'[j] = row[j]
        BY <1>3, <2>1 DEF TypeInv
      <3>2. QED  BY <1>4, <1>5, <3>1, FailuresFrame DEF Present
    <2>2. CASE j = s.job
      <3>1. row'[j] = Updated(s)
        BY <1>3, <2>2 DEF TypeInv
      <3>2. /\ Updated(s).failures = row[j].failures
            /\ Updated(s).status # "DeadLetter"
        BY <1>1, <2>2 DEF Updated, Row
      <3>3. Honest(row[j], failedRuns[j])
        BY <2>2 DEF Fire, FailuresInv, RowsAreHonest
      <3>4. QED  BY <1>3, <3>1, <3>2, <3>3 DEF Honest
    <2>3. QED  BY <2>1, <2>2
  <1>6. \A c \in Caller : asks'[c].op # "none" =>
           Honest(asks'[c].row, failedRuns'[asks'[c].job])
    BY <1>3, <1>4, FailuresFrame
  <1>7. RowsAreHonest'
    BY <1>5, <1>6 DEF RowsAreHonest
  <1>8. FetchesAreHonest' /\ RunsAreHonest'
    BY <1>2, <1>3, <1>4, FailuresFrame DEF FetchesAreHonest, RunsAreHonest
  <1>9. QED  BY <1>7, <1>8 DEF FailuresInv

\* A failure is counted before it is written, and what is written is one more
\* than what the run was spawned with.
LEMMA RunStepFail ==
    ASSUME TypeInv, TypeInv', FailuresInv, NEW r \in live, RunStep(r)
    PROVE  FailuresInv'
  <1>1. UNCHANGED <<loop, asks, spawned>>
    BY RunStepEffect
  <1>2. /\ r \in Run /\ r.job \in Job /\ r.failures \in Nat
        /\ failedRuns \in [Job -> Nat] /\ failedRuns[r.job] \in Nat
        /\ row \in [Job -> Row \cup {Unborn, Gone}]
    BY DEF TypeInv, Run
  <1>3. \A j \in Job : failedRuns[j] <= failedRuns'[j]
    <2>1. \/ failedRuns' = failedRuns
          \/ failedRuns' = [failedRuns EXCEPT ![r.job] = @ + 1]
      BY RunStepEffect
    <2>2. QED  BY <1>2, <2>1
  <1>4. FetchesAreHonest'
    BY <1>1, <1>3, FailuresFrame DEF FetchesAreHonest
  <1>5. \A c \in Caller : asks'[c].op # "none" =>
           Honest(asks'[c].row, failedRuns'[asks'[c].job])
    BY <1>1, <1>3, FailuresFrame
  <1>6. ASSUME NEW j \in Job, Present(j)'
        PROVE  Honest(row'[j], failedRuns'[j])
    <2>1. CASE row'[j] = row[j]
      BY <1>3, <1>6, <2>1, FailuresFrame DEF Present
    <2>2. CASE /\ j = r.job /\ r.at = "failed" /\ failedRuns' = failedRuns
               /\ row' = [row EXCEPT ![r.job].failures = Failures(r),
                                     ![r.job].status = StatusAfter(r)]
               /\ Present(j)
      <3>1. row[j] \in Row
        BY <2>2, PresentRow
      <3>2. /\ row'[j].failures = r.failures + 1
            /\ row'[j].status = "DeadLetter" => r.failures + 1 >= MaxRetries
        BY <1>2, <2>2, <3>1 DEF Row, StatusAfter, Failures
      <3>3. r.failures + 1 <= failedRuns[j]
        BY <2>2 DEF FailuresInv, RunsAreHonest
      <3>4. \A k, m, n \in Nat : k >= m /\ k <= n => n >= m
        OBVIOUS
      <3>5. r.failures + 1 \in Nat /\ MaxRetries \in Nat
        BY <1>2, CronAssumption
      <3>6. r.failures + 1 >= MaxRetries => failedRuns[j] >= MaxRetries
        BY <1>2, <2>2, <3>3, <3>4, <3>5
      <3>7. QED  BY <2>2, <3>2, <3>3, <3>6 DEF Honest
    <2>3. \/ row' = row
          \/ /\ r.at = "failed" /\ failedRuns' = failedRuns /\ Present(r.job)
             /\ row' = [row EXCEPT ![r.job].failures = Failures(r),
                                   ![r.job].status = StatusAfter(r)]
      BY RunStepEffect
    <2>4. QED  BY <1>2, <2>1, <2>2, <2>3
  <1>7. RowsAreHonest'
    BY <1>5, <1>6 DEF RowsAreHonest
  <1>8. RunsAreHonest'
    <2>1. ASSUME NEW t \in live' \cap live
          PROVE  /\ t.failures <= failedRuns'[t.job]
                 /\ t.at = "failed" => t.failures + 1 <= failedRuns'[t.job]
      BY <1>3, FailuresFrame
    <2>2. CASE live' = live \ {r}
      BY <2>1, <2>2 DEF RunsAreHonest
    <2>3. ASSUME NEW place \in {"failed", "end", "release"}, Move(r, place),
                 place = "failed" => r.failures + 1 <= failedRuns'[r.job]
          PROVE  RunsAreHonest'
      <3>1. PICK q : /\ live' = (live \ {r}) \cup {q}
                     /\ q.at = place /\ q.job = r.job
                     /\ q.failures = r.failures
        BY <1>1, <2>3, MoveType
      <3>2. r.failures <= failedRuns'[r.job]
        BY <1>3, FailuresFrame
      <3>3. QED  BY <2>1, <2>3, <3>1, <3>2 DEF RunsAreHonest
    <2>4. CASE /\ Move(r, "failed")
               /\ failedRuns' = [failedRuns EXCEPT ![r.job] = @ + 1]
      <3>1. failedRuns'[r.job] = failedRuns[r.job] + 1
        BY <1>2, <2>4
      <3>2. r.failures <= failedRuns[r.job]
        BY DEF FailuresInv, RunsAreHonest
      <3>3. QED  BY <1>2, <2>3, <2>4, <3>1, <3>2
    <2>5. CASE Move(r, "end") \/ Move(r, "release")
      BY <2>3, <2>5
    <2>6. QED  BY <2>2, <2>4, <2>5, RunStepEffect DEF Release
  <1>9. QED  BY <1>4, <1>7, <1>8 DEF FailuresInv

\* A caller writes no more failures than it has read.
LEMMA CallStepFail ==
    ASSUME TypeInv, TypeInv', FailuresInv, NEW c \in Caller, CallStep(c)
    PROVE  FailuresInv'
  <1>1. UNCHANGED <<loop, live, failedRuns>>
    BY CallStepEffect
  <1>2. /\ row \in [Job -> Row \cup {Unborn, Gone}]
        /\ asks \in [Caller -> Calls]
        /\ \A j \in Job : /\ failedRuns[j] \in Nat
                          /\ failedRuns[j] <= failedRuns'[j]
    BY <1>1 DEF TypeInv
  <1>3. FetchesAreHonest' /\ RunsAreHonest'
    BY <1>1 DEF FailuresInv, FetchesAreHonest, RunsAreHonest
  <1>4. ASSUME NEW op \in {"pause", "resume", "update"}, NEW j \in Job,
               Present(j),
               asks' = [asks EXCEPT ![c] =
                          [op |-> op, job |-> j, row |-> row[j],
                           since |-> clock]],
               row' = row
        PROVE  RowsAreHonest'
    <2>1. Honest(row[j], failedRuns[j])
      BY <1>4 DEF FailuresInv, RowsAreHonest
    <2>2. asks'[c].row = row[j] /\ asks'[c].job = j
      BY <1>2, <1>4
    <2>3. \A d \in Caller : d # c => asks'[d] = asks[d]
      BY <1>2, <1>4
    <2>4. \A d \in Caller : asks'[d].op # "none" =>
             Honest(asks'[d].row, failedRuns'[asks'[d].job])
      BY <1>1, <1>2, <2>1, <2>2, <2>3, FailuresFrame
    <2>5. \A k \in Job : Present(k)' => Honest(row'[k], failedRuns'[k])
      BY <1>2, <1>4, FailuresFrame DEF Present
    <2>6. QED  BY <2>4, <2>5 DEF RowsAreHonest
  <1>5. ASSUME NEW r \in Row, asks[c].op # "none",
               asks[c].job \in Job, asks[c].row \in Row,
               row' = [row EXCEPT ![asks[c].job] = r],
               asks' = [asks EXCEPT ![c] = Idle],
               r.failures <= asks[c].row.failures,
               r.status = "DeadLetter" => asks[c].row.status = "DeadLetter"
        PROVE  RowsAreHonest'
    <2> DEFINE j == asks[c].job
    <2>1. Honest(asks[c].row, failedRuns[j])
      BY <1>5 DEF FailuresInv, RowsAreHonest
    <2>2. r.failures \in Nat /\ asks[c].row.failures \in Nat
      BY <1>5 DEF Row
    <2>3. r.failures <= failedRuns[j]
      BY <1>2, <1>5, <2>1, <2>2 DEF Honest
    <2>4. Honest(r, failedRuns'[j])
      BY <1>1, <1>5, <2>1, <2>3 DEF Honest
    <2>5. row'[j] = r /\ \A k \in Job : k # j => row'[k] = row[k]
      BY <1>2, <1>5
    <2>6. \A k \in Job : Present(k)' => Honest(row'[k], failedRuns'[k])
      BY <1>2, <2>4, <2>5, FailuresFrame DEF Present
    <2>7. \A d \in Caller : asks'[d].op # "none" => asks'[d] = asks[d]
      <3>1. asks'[c].op = "none"
        BY <1>2, <1>5 DEF Idle
      <3>2. \A d \in Caller : d # c => asks'[d] = asks[d]
        BY <1>2, <1>5
      <3>3. QED  BY <3>1, <3>2
    <2>8. \A d \in Caller : asks'[d].op # "none" =>
             Honest(asks'[d].row, failedRuns'[asks'[d].job])
      BY <1>2, <2>7, FailuresFrame
    <2>9. QED  BY <2>6, <2>8 DEF RowsAreHonest
  <1>6. RowsAreHonest'
    BY <1>4, <1>5, CallStepEffect
  <1>7. QED  BY <1>3, <1>6 DEF FailuresInv

LEMMA OthersFail ==
    ASSUME TypeInv, TypeInv', FailuresInv,
           \/ Tick \/ Shutdown \/ Crash \/ Restart \/ UNCHANGED jobs
           \/ \E j \in Job : Add(j) \/ RemoveJob(j)
    PROVE  FailuresInv'
  <1>1. failedRuns' = failedRuns
    BY DEF Tick, Shutdown, Crash, Restart, Add, RemoveJob, jobs, history
  <1>2. /\ asks' = asks \/ \A c \in Caller : asks'[c].op = "none"
        /\ loop'.todo \subseteq loop.todo /\ live' \subseteq live
    BY DEF Tick, Shutdown, Crash, Restart, Add, RemoveJob, jobs, memory, Idle,
           Waiting, TickEnded
  <1>3. \A j \in Job : row'[j] # row[j] =>
           row'[j] = Gone \/ \E t \in Time : row'[j] = Added(j, t)
    <2>1. CASE Tick \/ Shutdown \/ Crash \/ Restart \/ UNCHANGED jobs
      BY <2>1 DEF Tick, Shutdown, Crash, Restart, jobs, storeVars
    <2>2. CASE \E j \in Job : Add(j) \/ RemoveJob(j)
      BY <2>2 DEF Add, RemoveJob, TypeInv
    <2>3. QED  BY <2>1, <2>2
  <1>4. QED  BY <1>1, <1>2, <1>3, StepsFail

LEMMA InitFailures == JobsInit => FailuresInv
  <1> SUFFICES ASSUME JobsInit PROVE FailuresInv
    OBVIOUS
  <1>1. TypeInv
    BY InitType
  <1>2. /\ live = {} /\ loop.todo = {} /\ \A c \in Caller : asks[c].op = "none"
        /\ \A j \in Job : failedRuns[j] = 0
    BY DEF JobsInit, Waiting, Idle
  <1>3. 0 \in Time
    BY CronAssumption DEF Time
  <1>4. \A j \in Job : Present(j) => row[j] = Added(j, 0)
    BY DEF JobsInit, Present
  <1>5. \A j \in Job : Present(j) => Honest(row[j], failedRuns[j])
    BY <1>2, <1>3, <1>4, AddedType DEF Honest
  <1>6. QED
    BY <1>2, <1>5
       DEF FailuresInv, RowsAreHonest, FetchesAreHonest, RunsAreHonest

LEMMA FailuresStep ==
    TypeInv /\ TypeInv' /\ FailuresInv /\ [JobsNext]_jobs => FailuresInv'
  <1> SUFFICES ASSUME TypeInv, TypeInv', FailuresInv, [JobsNext]_jobs
               PROVE  FailuresInv'
    OBVIOUS
  <1>1. CASE Fetch \/ Break \/ Stop \/ \E s \in loop.todo : Skip(s)
    BY <1>1, LoopFail
  <1>2. CASE \E s \in loop.todo : Fire(s)
    BY <1>2, FireFail
  <1>3. CASE \E r \in live : RunStep(r)
    BY <1>3, RunStepFail
  <1>4. CASE \E c \in Caller : CallStep(c)
    BY <1>4, CallStepFail
  <1>5. CASE \/ Tick \/ Shutdown \/ Crash \/ Restart \/ UNCHANGED jobs
             \/ \E j \in Job : Add(j) \/ RemoveJob(j)
    BY <1>5, OthersFail
  <1>6. QED  BY <1>1, <1>2, <1>3, <1>4, <1>5 DEF JobsNext, TickLoop

\* Between two resumes or updates of a job no occurrence of it fires twice and
\* none fires after it was fired as a one-shot job, because the row is written
\* before the run is spawned; and a row is a dead letter only after max_retries
\* failures of its runs, although the count is written from copies that may be
\* old.  This holds with any number of jobs, callers, crashes and refused updates.
THEOREM RowsTellWhatRan == JobsSpec => []RowsAreTrue
  <1>1. JobsInit => FiredInv /\ FailuresInv
    BY InitFired, InitFailures
  <1>2. TypeInv /\ TypeInv' /\ (FiredInv /\ FailuresInv) /\ [JobsNext]_jobs =>
            (FiredInv /\ FailuresInv)'
    BY FiredStep, FailuresStep
  <1>3. FiredInv /\ FailuresInv => RowsAreTrue
    <2> SUFFICES ASSUME FiredInv, FailuresInv PROVE RowsAreTrue
      OBVIOUS
    <2>1. FiresOnce
      BY CronAssumption DEF FiredInv, Behind, FiresOnce
    <2>2. DeadLetteredForFailures
      BY DEF FailuresInv, RowsAreHonest, Honest, DeadLetteredForFailures
    <2>3. QED  BY <2>1, <2>2 DEF RowsAreTrue
  <1>4. JobsSpec => [](FiredInv /\ FailuresInv)
    BY <1>1, <1>2, CountingInvariant, PTL DEF JobsSpec
  <1>5. QED  BY <1>3, <1>4, PTL

=============================================================================
