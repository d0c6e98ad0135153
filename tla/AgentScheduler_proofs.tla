------------------------ MODULE AgentScheduler_proofs ------------------------
(***************************************************************************)
(* No task is lost or doubled and the limits hold, for any number of       *)
(* callers, agents, tasks and operations.                                  *)
(*                                                                         *)
(* IInv is inductive.  PlaceInv partitions the numbers that were issued    *)
(* over the queue, the scheduler loop, the task manager and what was let   *)
(* go.  LimitInv keeps the place that the loop found free until the task   *)
(* starts, PoolInv says whose allocations the pool holds, and BegunInv that*)
(* what an agent runs is among them or was undone.  TypeInv says of every  *)
(* operation that what it needs at its next step is there.                 *)
(***************************************************************************)
EXTENDS AgentScheduler, FiniteSetTheorems, TLAPS

-----------------------------------------------------------------------------
(* The inductive invariant.                                                  *)

Number == 1 .. Len(issued)

Calls == [op : {"none", "schedule", "reschedule", "terminate", "delete",
                "suspend", "resume", "reap"},
          agent : Agent \cup {None},
          at : {"idle", "push", "lookup", "requeue", "take", "unhandle",
                "stop", "suspend", "restore", "unqueue"},
          task : Task \cup {None}, handle : Task \cup {None}]

\* What an operation needs at each of its places is there.
Fits(x) ==
    /\ x \in Calls
    /\ x.at # "idle" => x.agent \in Agent
    /\ x.at \in {"suspend", "restore"} => x.op = "suspend" /\ x.task # None
    /\ x.op = "suspend" /\ x.at \in {"unhandle", "stop"} => x.task # None
    /\ x.at = "stop" => x.handle # None
    /\ x.task # None => x.task \in Number

CallInv == DOMAIN call = Caller /\ \A c \in Caller : Fits(call[c])

\* The loop holds a task where it needs one, and what an agent runs or has run
\* has been issued.
KnownInv ==
    /\ loop.task = None <=> loop.at \in {"tick", "stopped"}
    /\ \A a \in Agent : /\ running[a] # None => running[a] \in Number
                        /\ suspended[a] # None => suspended[a] \in Number

TypeInv == TypeOK /\ CallInv /\ KnownInv

\* There is a number for each push that is on its way.
Pushing == {c \in Caller : At(c, "push")}

RoomInv == Len(issued) + Cardinality(Pushing) <= MaxTasks

\* The four places, and the index.
PlaceInv ==
    /\ queue \cup InHand \cup sent \cup gone = Number
    /\ queue \cap (InHand \cup sent \cup gone) = {}
    /\ InHand \cap (sent \cup gone) = {}
    /\ sent \cap gone = {}

IndexInv == \A a \in members : \E i \in queue : AgentOf(i) = a

\* The agents that count towards the limit.
Counted == {a \in Agent : running[a] # None /\ running[a] \notin restored}

\* Between the look at the limit and the start, the loop has a place free.
LimitInv ==
    /\ Cardinality(Counted) <= MaxConcurrent
    /\ loop.at = "allocate" => Cardinality(Counted) < MaxConcurrent

\* As the code has it, what was handed over never gives its unit back.
PoolInv ==
    /\ allocated = sent \cup Allocating
    /\ Cardinality(allocated) <= Capacity

\* The tasks whose start has come as far as the running map, or further.
Begun == sent \cup gone \cup Allocating

\* What agents run, and what suspensions may put back, has begun.
BegunInv ==
    /\ \A a \in Agent : running[a] # None => running[a] \in Begun
    /\ \A c \in Caller : call[c].op = "suspend" /\ call[c].task # None
                          => call[c].task \in Begun

-----------------------------------------------------------------------------
(* The first task of the heap.                                               *)

\* The least counterexample among the finite sets of tasks.
LEMMA SmallestFiniteSet ==
    ASSUME NEW S, NEW T, T \subseteq FiniteSubsetsOf(S), T # {}
    PROVE  \E X \in T : \A Y \in T : Y \subseteq X => Y = X
  <1>1. IsWellFoundedOn(StrictSubsetOrdering(S), FiniteSubsetsOf(S))
    BY FS_StrictSubsetOrderingWellFounded
  <1>2. PICK X \in T : \A Y \in T : <<Y, X>> \notin StrictSubsetOrdering(S)
    BY <1>1, WFMin
  <1>3. \A Y \in T : Y \subseteq X => Y = X
    <2> SUFFICES ASSUME NEW Y \in T, Y \subseteq X, Y # X PROVE FALSE
      OBVIOUS
    <2>1. Y \in SUBSET S /\ X \in SUBSET S
      BY DEF FiniteSubsetsOf
    <2>2. <<Y, X>> \in StrictSubsetOrdering(S)
      BY <2>1 DEF StrictSubsetOrdering
    <2>3. QED  BY <1>2, <2>2
  <1>4. QED  BY <1>3

\* The order of the heap has a first task in every finite set of them.
LEMMA FirstOfTasks ==
    ASSUME NEW S, IsFiniteSet(S), S # {}, S \subseteq DOMAIN issued,
           DOMAIN issued \subseteq Nat,
           \A i \in DOMAIN issued : issued[i].priority \in Nat
    PROVE  \E i \in S : \A j \in S \ {i} : Before(i, j)
  <1> DEFINE HasFirst(X) == \E i \in X : \A j \in X \ {i} : Before(i, j)
             T == {X \in FiniteSubsetsOf(S) : X # {} /\ ~HasFirst(X)}
  <1>1. SUFFICES T = {}
    <2>1. S \in FiniteSubsetsOf(S)
      BY DEF FiniteSubsetsOf
    <2>2. QED  BY <1>1, <2>1
  <1>2. SUFFICES ASSUME T # {} PROVE FALSE
    OBVIOUS
  <1>12. \A X : X \in T <=> X \in FiniteSubsetsOf(S) /\ X # {} /\ ~HasFirst(X)
    OBVIOUS
  <1> HIDE DEF T
  <1>3. PICK X \in T : \A Y \in T : Y \subseteq X => Y = X
    <2>1. T \subseteq FiniteSubsetsOf(S)
      BY <1>12
    <2>2. QED  BY <1>2, <2>1, SmallestFiniteSet
  <1>4. PICK e \in X : TRUE
    BY <1>12
  <1>5. X \ {e} \in FiniteSubsetsOf(S)
    BY <1>12, FS_Difference DEF FiniteSubsetsOf
  <1>6. X \ {e} = {} \/ HasFirst(X \ {e})
    <2>1. X \ {e} \notin T
      BY <1>3, <1>4
    <2> HIDE DEF HasFirst
    <2>2. QED  BY <1>5, <1>12, <2>1
  <1>7. X \subseteq S /\ e \in S
    BY <1>4, <1>12 DEF FiniteSubsetsOf
  <1>8. \A i, j, k \in S : Before(i, j) /\ Before(j, k) => Before(i, k)
    BY DEF Before
  <1>9. \A i, j \in S : i # j => Before(i, j) \/ Before(j, i)
    BY DEF Before
  <1>10. HasFirst(X)
    <2>1. CASE X \ {e} = {}
      BY <1>4, <2>1
    <2>2. CASE HasFirst(X \ {e})
      <3>1. PICK i \in X \ {e} : \A j \in (X \ {e}) \ {i} : Before(i, j)
        BY <2>2
      <3>2. CASE Before(i, e)
        BY <3>1, <3>2
      <3>3. CASE Before(e, i)
        <4>1. \A j \in X \ {e} : Before(e, j)
          BY <1>4, <1>7, <1>8, <3>1, <3>3
        <4>2. QED  BY <1>4, <4>1
      <3>4. QED  BY <1>7, <1>9, <3>1, <3>2, <3>3
    <2>3. QED  BY <1>6, <2>1, <2>2
  <1>11. QED  BY <1>10, <1>12

-----------------------------------------------------------------------------
(* Types.                                                                    *)

\* Sequences of whatever.
LEMMA SequenceTypes ==
    ASSUME NEW S, NEW s \in Seq(S)
    PROVE  /\ Len(s) \in Nat /\ DOMAIN s = 1 .. Len(s)
           /\ \A i \in 1 .. Len(s) : s[i] \in S
           /\ s # <<>> => Head(s) \in S /\ Tail(s) \in Seq(S)
           /\ \A x \in S : /\ Append(s, x) \in Seq(S)
                           /\ Len(Append(s, x)) = Len(s) + 1
                           /\ Append(s, x)[Len(s) + 1] = x
                           /\ \A i \in 1 .. Len(s) : Append(s, x)[i] = s[i]
  OBVIOUS

Issue == [agent : Agent, priority : Priority]
Command == [op : {"start", "terminate"}, task : Task]

LEMMA IssuedTypes ==
    ASSUME TypeOK
    PROVE  /\ issued \in Seq(Issue) /\ Len(issued) \in Nat
           /\ DOMAIN issued = Number
           /\ \A i \in Number : /\ issued[i] \in Issue
                               /\ AgentOf(i) \in Agent
                               /\ issued[i].priority \in Priority
  <1>1. issued \in Seq(Issue)
    BY DEF TypeOK, Issue
  <1>2. /\ Len(issued) \in Nat /\ DOMAIN issued = Number
        /\ \A i \in Number : issued[i] \in Issue
    BY <1>1, SequenceTypes DEF Number
  <1>3. QED  BY <1>1, <1>2 DEF Issue, AgentOf

LEMMA ChannelTypes ==
    ASSUME TypeOK
    PROVE  /\ channel \in Seq(Command)
           /\ channel # <<>> =>
                 Head(channel) \in Command /\ Tail(channel) \in Seq(Command)
           /\ \A x \in Command : Append(channel, x) \in Seq(Command)
  <1>1. channel \in Seq(Command)
    BY DEF TypeOK, Command
  <1>2. QED  BY <1>1, SequenceTypes

LEMMA FirstIsQueued ==
    ASSUME TypeOK, queue \subseteq Number, queue # {}
    PROVE  First \in queue /\ \A j \in queue \ {First} : Before(First, j)
  <1>1. IsFiniteSet(queue)
    <2>1. Len(issued) \in Nat
      BY DEF TypeOK
    <2>2. IsFiniteSet(Number)
      BY <2>1, FS_Interval DEF Number
    <2>3. QED  BY <2>2, FS_Subset
  <1>2. /\ queue \subseteq DOMAIN issued /\ DOMAIN issued \subseteq Nat
        /\ \A i \in DOMAIN issued : issued[i].priority \in Nat
    <2>1. DOMAIN issued = Number /\ Number \subseteq Nat
      BY IssuedTypes DEF Number
    <2>2. \A i \in Number : issued[i].priority \in Nat
      BY IssuedTypes, SchedulerAssumption
    <2>3. QED  BY <2>1, <2>2
  <1>3. \E i \in queue : \A j \in queue \ {i} : Before(i, j)
    BY <1>1, <1>2, FirstOfTasks
  <1>4. QED  BY <1>3 DEF First

LEMMA FitsGrows ==
    ASSUME Len(issued) \in Nat, Len(issued') \in Nat,
           Len(issued) <= Len(issued')
    PROVE  \A x : Fits(x) => Fits(x)'
  <1>1. Number \subseteq Number'
    BY DEF Number
  <1>2. QED  BY <1>1 DEF Fits, Calls

LEMMA CallsStay ==
    ASSUME CallInv, Len(issued) \in Nat, Len(issued') \in Nat,
           Len(issued) <= Len(issued'),
           \/ call' = call
           \/ \E c \in Caller : \E x :
                 Fits(x) /\ call' = [call EXCEPT ![c] = x]
    PROVE  CallInv'
  BY FitsGrows DEF CallInv

LEMMA IdleFits == Fits(Idle)
  BY SchedulerAssumption DEF Fits, Calls, Idle, Task, None

LEMMA InitType == Init => TypeInv
  <1> SUFFICES ASSUME Init PROVE TypeInv
    OBVIOUS
  <1>1. TypeOK
    BY SchedulerAssumption DEF Init, TypeOK, Task
  <1>2. CallInv
    BY IdleFits DEF Init, CallInv
  <1>3. KnownInv
    BY DEF Init, KnownInv
  <1>4. QED  BY <1>1, <1>2, <1>3 DEF TypeInv

\* The steps of the task loop, of the health loop and of the shutdown that
\* begin no operation.
Quiet ==
    \/ StopLoop \/ StoreHandle
    \/ ReceiveStart \/ ReceiveTerminate \/ EndExecution
    \/ \E i \in Task : TimePasses(i)
    \/ Scan \/ BeginShutdown \/ ListRunning \/ EndGraceful

LEMMA QuietFrame ==
    ASSUME TypeInv, Quiet
    PROVE  /\ UNCHANGED <<issued, queue, members, allocated, running,
                          suspended, call, sent, gone, restored>>
           /\ loop'.task = loop.task
           /\ \/ loop' = loop
              \/ loop.at = "tick" /\ loop'.at = "stopped"
              \/ loop.at = "start" /\ loop'.at = "send"
           /\ loop' \in [at : {"tick", "allocate", "start", "send", "undo",
                               "stopped"}, task : Task \union {None}]
  <1>1. CASE StopLoop
    BY <1>1 DEF StopLoop, HoldNothing, queueVars, agentVars, history, TypeInv,
                TypeOK, KnownInv
  <1>2. CASE StoreHandle
    BY <1>2 DEF StoreHandle, queueVars, agentVars, history, TypeInv, TypeOK
  <1>3. CASE ReceiveStart \/ ReceiveTerminate \/ EndExecution
             \/ \E i \in Task : TimePasses(i)
    BY <1>3 DEF ReceiveStart, ReceiveTerminate, EndExecution, TimePasses,
                queueVars, loopVars, agentVars, history, TypeInv, TypeOK
  <1>4. CASE Scan \/ BeginShutdown \/ ListRunning \/ EndGraceful
    BY <1>4 DEF Scan, BeginShutdown, ListRunning, EndGraceful,
                queueVars, loopVars, agentVars, history, TypeInv, TypeOK
  <1>5. QED  BY <1>1, <1>2, <1>3, <1>4 DEF Quiet

LEMMA QuietType ==
    ASSUME TypeInv, Quiet
    PROVE  TypeInv'
  <1>1. TypeOK'
    <2>1. CASE StopLoop
      BY <2>1, QuietFrame DEF StopLoop, TypeOK, TypeInv, taskVars, control
    <2>2. CASE StoreHandle
      BY <2>2, QuietFrame DEF StoreHandle, TypeOK, TypeInv, control
    <2>3. CASE ReceiveStart
      <3>1. Head(channel) \in Command /\ Tail(channel) \in Seq(Command)
        BY <2>3, ChannelTypes DEF ReceiveStart, TypeInv
      <3>2. channel' \in Seq([op : {"start", "terminate"}, task : Task])
        BY <2>3, <3>1 DEF ReceiveStart, Command
      <3>3. executing' \in Task \union {None}
        BY <2>3, <3>1 DEF ReceiveStart, Command
      <3>4. QED
        BY <2>3, <3>2, <3>3, QuietFrame
           DEF ReceiveStart, TypeOK, TypeInv, control
    <2>4. CASE ReceiveTerminate
      <3>1. channel' \in Seq([op : {"start", "terminate"}, task : Task])
        BY <2>4, ChannelTypes DEF ReceiveTerminate, TypeInv, Command
      <3>2. QED
        BY <2>4, <3>1, QuietFrame
           DEF ReceiveTerminate, TypeOK, TypeInv, control
    <2>5. CASE EndExecution
      BY <2>5, QuietFrame DEF EndExecution, TypeOK, TypeInv, control
    <2>6. CASE \E i \in Task : TimePasses(i)
      BY <2>6, QuietFrame DEF TimePasses, TypeOK, TypeInv, control
    <2>7. CASE Scan
      BY <2>7, QuietFrame DEF Scan, TypeOK, TypeInv, taskVars
    <2>8. CASE BeginShutdown
      BY <2>8, QuietFrame DEF BeginShutdown, TypeOK, TypeInv, taskVars
    <2>9. CASE ListRunning
      BY <2>9, QuietFrame DEF ListRunning, Running, TypeOK, TypeInv, taskVars
    <2>10. CASE EndGraceful
      BY <2>10, QuietFrame DEF EndGraceful, TypeOK, TypeInv, taskVars
    <2>11. QED
      BY <2>1, <2>2, <2>3, <2>4, <2>5, <2>6, <2>7, <2>8, <2>9, <2>10
         DEF Quiet
  <1>2. CallInv'
    BY QuietFrame DEF TypeInv, CallInv, Fits, Number, Calls
  <1>3. KnownInv'
    BY QuietFrame DEF TypeInv, KnownInv, Number
  <1>4. QED  BY <1>1, <1>2, <1>3 DEF TypeInv

-----------------------------------------------------------------------------
(* The scheduler loop.                                                       *)

LEMMA LoopType ==
    ASSUME TypeInv, PlaceInv,
           Pop \/ Allocate \/ PutBack \/ SendStart \/ UndoStart
    PROVE  TypeInv'
  <1>1. /\ issued' = issued /\ call' = call /\ suspended' = suspended
        /\ UNCHANGED <<up, handles, executing, expired, failed, stopping,
                       restored>>
    BY DEF Pop, Allocate, PutBack, SendStart, UndoStart, queueVars, agentVars,
           taskVars, control, history
  <1>2. /\ TypeOK /\ KnownInv /\ Number \subseteq Task /\ None \notin Number
        /\ queue \subseteq Number
        /\ loop.at \in {"allocate", "start", "send", "undo"} =>
              /\ loop.task \in Number
              /\ AgentOf(loop.task) \in Agent
    <2>1. TypeOK /\ KnownInv
      BY DEF TypeInv
    <2>2. /\ Len(issued) \in Nat /\ Len(issued) <= MaxTasks
      BY <2>1 DEF TypeOK
    <2>3. \A i \in Number : AgentOf(i) \in Agent
      BY <2>1, IssuedTypes
    <2>4. Number \subseteq Task /\ None \notin Number
      BY <2>2, SchedulerAssumption DEF Number, Task, None
    <2>5. loop.at \in {"allocate", "start", "send", "undo"} =>
              loop.task \in Number
      BY <2>1 DEF KnownInv, PlaceInv, InHand
    <2>6. QED  BY <2>1, <2>3, <2>4, <2>5 DEF PlaceInv
  <1>3. TypeOK' /\ KnownInv'
    <2>1. CASE Pop
      <3>1. First \in Number
        BY <1>2, <2>1, FirstIsQueued DEF Pop
      <3>2. /\ queue' \subseteq Task /\ members' \subseteq Agent
            /\ gone' \subseteq Task
        BY <1>2, <2>1, <3>1 DEF Pop, TakeOut, TypeOK
      <3>3. /\ UNCHANGED <<running, channel, sent, allocated>>
            /\ \/ loop' = [at |-> "allocate", task |-> First]
               \/ loop' = [at |-> "tick", task |-> None]
        BY <2>1 DEF Pop, agentVars, taskVars, HoldNothing
      <3>4. TypeOK'
        BY <1>1, <1>2, <3>1, <3>2, <3>3 DEF TypeOK
      <3>5. KnownInv'
        BY <1>1, <1>2, <3>1, <3>3 DEF KnownInv, Number
      <3>6. QED  BY <3>4, <3>5
    <2>2. CASE Allocate
      <3>1. /\ UNCHANGED <<queue, members, channel, sent, gone>>
            /\ loop' = [loop EXCEPT !.at = "start"] /\ loop.at = "allocate"
            /\ allocated' = allocated \union {loop.task}
            /\ running' = [running EXCEPT ![AgentOf(loop.task)] = loop.task]
        BY <2>2 DEF Allocate, queueVars, taskVars, history
      <3>2. TypeOK'
        BY <1>1, <1>2, <3>1 DEF TypeOK
      <3>3. KnownInv'
        BY <1>1, <1>2, <3>1 DEF KnownInv, Number, TypeOK
      <3>4. QED  BY <3>2, <3>3
    <2>3. CASE PutBack
      <3>1. /\ UNCHANGED <<running, channel, sent, gone, allocated>>
            /\ loop' = [at |-> "tick", task |-> None] /\ loop.at = "allocate"
            /\ queue' = queue \union {loop.task}
            /\ members' = members \union {AgentOf(loop.task)}
        BY <2>3 DEF PutBack, Push, HoldNothing, agentVars, taskVars, history
      <3>2. TypeOK'
        BY <1>1, <1>2, <3>1 DEF TypeOK
      <3>3. KnownInv'
        BY <1>1, <1>2, <3>1 DEF KnownInv, Number
      <3>4. QED  BY <3>2, <3>3
    <2>4. CASE SendStart
      <3>1. /\ UNCHANGED <<queue, members, running, gone, allocated>>
            /\ loop.at = "send"
        BY <2>4 DEF SendStart, queueVars, agentVars
      <3>2. \/ /\ channel' = Append(channel,
                                    [op |-> "start", task |-> loop.task])
               /\ sent' = sent \union {loop.task}
               /\ loop' = [at |-> "tick", task |-> None]
            \/ /\ loop' = [loop EXCEPT !.at = "undo"]
               /\ UNCHANGED <<channel, sent>>
        BY <2>4 DEF SendStart, HoldNothing
      <3>3. [op |-> "start", task |-> loop.task] \in Command
        BY <1>2, <3>1 DEF Command
      <3>4. /\ channel' \in Seq([op : {"start", "terminate"}, task : Task])
            /\ sent' \subseteq Task
        <4>1. channel' \in Seq(Command)
          BY <1>2, <3>2, <3>3, ChannelTypes
        <4>2. sent' \subseteq Task
          BY <1>2, <3>1, <3>2 DEF TypeOK
        <4>3. QED  BY <4>1, <4>2 DEF Command
      <3>5. TypeOK'
        BY <1>1, <1>2, <3>1, <3>2, <3>4 DEF TypeOK
      <3>6. KnownInv'
        BY <1>1, <1>2, <3>1, <3>2 DEF KnownInv, Number, TypeOK
      <3>7. QED  BY <3>5, <3>6
    <2>5. CASE UndoStart
      <3>1. /\ UNCHANGED <<queue, members, channel, sent>>
            /\ loop' = [at |-> "tick", task |-> None] /\ loop.at = "undo"
            /\ allocated' = allocated \ {loop.task}
            /\ gone' = gone \union {loop.task}
            /\ running' = [running EXCEPT ![AgentOf(loop.task)] = None]
        BY <2>5 DEF UndoStart, HoldNothing, queueVars, taskVars
      <3>2. TypeOK'
        BY <1>1, <1>2, <3>1 DEF TypeOK
      <3>3. KnownInv'
        BY <1>1, <1>2, <3>1 DEF KnownInv, Number, TypeOK
      <3>4. QED  BY <3>2, <3>3
    <2>6. QED  BY <2>1, <2>2, <2>3, <2>4, <2>5
  <1>4. CallInv'
    BY <1>1 DEF TypeInv, CallInv, Fits, Number, Calls
  <1>5. QED  BY <1>3, <1>4 DEF TypeInv

\* A task goes from one place to another.
LEMMA LoopPlaces ==
    ASSUME TypeInv, PlaceInv, IndexInv,
           Pop \/ Allocate \/ PutBack \/ SendStart \/ UndoStart
    PROVE  PlaceInv' /\ IndexInv'
  <1>1. /\ issued' = issued /\ Number' = Number /\ TypeOK
        /\ \A i : AgentOf(i)' = AgentOf(i)
    BY DEF Pop, Allocate, PutBack, SendStart, UndoStart, queueVars, Number,
           AgentOf, TypeInv
  <1>2. /\ None \notin Number
        /\ loop.at \in {"tick", "stopped"} => InHand = {}
        /\ loop.at \in {"allocate", "start", "send", "undo"} =>
              loop.task \in Number /\ InHand = {loop.task}
    <2>1. Len(issued) \in Nat
      BY <1>1 DEF TypeOK
    <2>2. None \notin Number
      BY <2>1 DEF Number, None
    <2>3. QED  BY <2>2 DEF TypeInv, KnownInv, PlaceInv, InHand
  <1>3. CASE Pop
    <2>1. First \in queue /\ First # None /\ InHand = {}
      BY <1>1, <1>2, <1>3, FirstIsQueued DEF Pop, PlaceInv
    <2>2. /\ queue' = queue \ {First} /\ sent' = sent
          /\ members' = members \ {AgentOf(First)}
          /\ \/ loop'.task = First /\ gone' = gone
             \/ loop'.task = None /\ gone' = gone \cup {First}
      BY <1>3 DEF Pop, TakeOut, HoldNothing
    <2>3. \/ InHand' = {First} /\ gone' = gone
          \/ InHand' = {} /\ gone' = gone \cup {First}
      BY <2>1, <2>2 DEF InHand
    <2>4. PlaceInv'
      BY <1>1, <2>1, <2>2, <2>3 DEF PlaceInv
    <2>5. IndexInv'
      BY <1>1, <2>2 DEF IndexInv
    <2>6. QED  BY <2>4, <2>5
  <1>4. CASE Allocate
    <2>1. UNCHANGED <<queue, members, sent, gone>> /\ loop'.task = loop.task
      BY <1>1, <1>4 DEF Allocate, queueVars, history, TypeOK
    <2>2. QED  BY <1>1, <2>1 DEF PlaceInv, IndexInv, InHand
  <1>5. CASE PutBack
    <2>1. /\ queue' = queue \cup {loop.task} /\ sent' = sent /\ gone' = gone
          /\ members' = members \cup {AgentOf(loop.task)}
          /\ InHand' = {} /\ InHand = {loop.task}
      BY <1>2, <1>5 DEF PutBack, Push, HoldNothing, history, InHand
    <2>2. PlaceInv'
      BY <1>1, <2>1 DEF PlaceInv
    <2>3. IndexInv'
      BY <1>1, <2>1 DEF IndexInv
    <2>4. QED  BY <2>2, <2>3
  <1>6. CASE SendStart
    <2>1. UNCHANGED <<queue, members, gone>> /\ loop.at = "send"
      BY <1>6 DEF SendStart, queueVars
    <2>2. \/ sent' = sent \cup {loop.task} /\ InHand' = {}
          \/ sent' = sent /\ InHand' = InHand
      <3>1. \/ sent' = sent \cup {loop.task} /\ loop'.task = None
            \/ sent' = sent /\ loop'.task = loop.task
        BY <1>1, <1>6 DEF SendStart, HoldNothing, TypeOK
      <3>2. QED  BY <3>1 DEF InHand
    <2>3. PlaceInv'
      BY <1>1, <1>2, <2>1, <2>2 DEF PlaceInv
    <2>4. IndexInv'
      BY <1>1, <2>1 DEF IndexInv
    <2>5. QED  BY <2>3, <2>4
  <1>7. CASE UndoStart
    <2>1. /\ UNCHANGED <<queue, members, sent>> /\ loop.at = "undo"
          /\ gone' = gone \cup {loop.task} /\ InHand' = {}
      BY <1>7 DEF UndoStart, queueVars, HoldNothing, InHand
    <2>2. PlaceInv'
      BY <1>1, <1>2, <2>1 DEF PlaceInv
    <2>3. IndexInv'
      BY <1>1, <2>1 DEF IndexInv
    <2>4. QED  BY <2>2, <2>3
  <1>8. QED  BY <1>3, <1>4, <1>5, <1>6, <1>7

-----------------------------------------------------------------------------
(* The operations.                                                           *)

\* A task that gets another priority keeps its number and its agent.
LEMMA PriorityChanges ==
    ASSUME TypeOK, NEW i \in Number, SetPriority(i)
    PROVE  /\ issued' \in Seq(Issue) /\ Len(issued') = Len(issued)
           /\ \A k : AgentOf(k)' = AgentOf(k)
  <1>1. PICK p \in Priority : issued' = [issued EXCEPT ![i].priority = p]
    BY DEF SetPriority
  <1>2. /\ issued \in Seq(Issue) /\ Len(issued) \in Nat
        /\ DOMAIN issued = Number /\ issued[i] \in Issue
    BY IssuedTypes
  <1> DEFINE x == [issued[i] EXCEPT !.priority = p]
  <1>3. x \in Issue /\ x.agent = issued[i].agent
    BY <1>2 DEF Issue
  <1>4. issued' = [issued EXCEPT ![i] = x]
    BY <1>1
  <1> HIDE DEF x
  <1>5. DOMAIN issued' = 1 .. Len(issued)
    BY <1>2, <1>4 DEF Number
  <1>6. \A k \in 1 .. Len(issued) : issued'[k] = IF k = i THEN x ELSE issued[k]
    BY <1>2, <1>4 DEF Number
  <1>7. \A k \in 1 .. Len(issued) : issued'[k] \in Issue
    BY <1>3, <1>6, IssuedTypes DEF Number
  <1>8. issued' \in Seq(Issue) /\ Len(issued') = Len(issued)
    <2>1. issued' = [k \in 1 .. Len(issued) |-> issued'[k]]
      BY <1>2, <1>4, <1>5
    <2>2. issued' \in [1 .. Len(issued) -> Issue]
      BY <1>7, <2>1
    <2>3. QED  BY <1>2, <1>5, <2>2
  <1>9. ASSUME NEW k PROVE AgentOf(k)' = AgentOf(k)
    <2>1. CASE k = i
      BY <1>2, <1>3, <1>4, <2>1 DEF AgentOf
    <2>2. CASE k # i
      BY <1>2, <1>4, <2>2 DEF AgentOf
    <2>3. QED  BY <2>1, <2>2
  <1>10. QED  BY <1>8, <1>9

\* An operation that goes on, or returns.
Onward(c) ==
    \E x : Fits(x) /\ x.at # "push" /\ call' = [call EXCEPT ![c] = x]

LEMMA Returns ==
    ASSUME NEW c \in Caller, Return(c)
    PROVE  Onward(c)
  BY IdleFits DEF Return, Onward, Idle

LEMMA Goes ==
    ASSUME TypeInv, NEW c \in Caller, call[c].at # "idle",
           NEW place \in {"requeue", "take", "unqueue", "suspend", "restore"},
           place \in {"suspend", "restore"} => /\ call[c].op = "suspend"
                                               /\ call[c].task # None,
           Goto(c, place)
    PROVE  Onward(c)
  <1> DEFINE x == [call[c] EXCEPT !.at = place]
  <1>1. Fits(call[c])
    BY DEF TypeInv, CallInv
  <1>2. Fits(x) /\ x.at = place
    BY <1>1 DEF Fits, Calls
  <1>3. call' = [call EXCEPT ![c] = x]
    BY DEF Goto
  <1> HIDE DEF x
  <1>4. QED  BY <1>2, <1>3 DEF Onward

LEMMA TerminatedGoes ==
    ASSUME TypeInv, NEW c \in Caller, NEW ok \in BOOLEAN,
           call[c].at \in {"unhandle", "stop"}, Terminated(c, ok)
    PROVE  Onward(c)
  <1>1. call[c].op = "suspend" => call[c].task # None
    BY DEF TypeInv, CallInv, Fits
  <1>2. CASE call[c].op = "delete"
    BY <1>2, Goes DEF Terminated
  <1>3. CASE call[c].op = "suspend"
    <2>1. Goto(c, "suspend") \/ Goto(c, "restore")
      BY <1>3 DEF Terminated
    <2>2. QED  BY <1>1, <1>3, <2>1, Goes
  <1>4. CASE call[c].op \notin {"delete", "suspend"}
    BY <1>4, Returns DEF Terminated
  <1>5. QED  BY <1>2, <1>3, <1>4

\* Where an operation is after a step that pushes nothing.
LEMMA StepGoes ==
    ASSUME TypeInv, NEW c \in Caller,
           \/ Lookup(c) \/ Requeue(c) \/ Take(c) \/ Unhandle(c)
           \/ SendTerminate(c) \/ Suspend(c) \/ Restore(c) \/ Unqueue(c)
    PROVE  Onward(c)
  <1>1. Fits(call[c])
    BY DEF TypeInv, CallInv
  <1>2. CASE Lookup(c)
    <2>1. call[c].at = "lookup" /\ (Return(c) \/ Goto(c, "requeue"))
      BY <1>2 DEF Lookup, At
    <2>2. QED  BY <2>1, Returns, Goes
  <1>3. CASE Requeue(c) \/ Suspend(c) \/ Restore(c) \/ Unqueue(c)
    BY <1>3, Returns DEF Requeue, Suspend, Restore, Unqueue
  <1>4. CASE Take(c)
    <2> DEFINE a == call[c].agent
    <2>1. call[c].at = "take" /\ a \in Agent
      BY <1>1, <1>4 DEF Take, At, Fits
    <2>2. CASE Return(c) \/ Goto(c, "unqueue")
      BY <2>1, <2>2, Returns, Goes
    <2>3. CASE /\ running[a] # None \/ call[c].op = "reap"
               /\ call' = [call EXCEPT
                              ![c].at = "unhandle",
                              ![c].task = IF call[c].op = "suspend"
                                          THEN running[a] ELSE None]
      <3> DEFINE t == IF call[c].op = "suspend" THEN running[a] ELSE None
                 x == [call[c] EXCEPT !.at = "unhandle", !.task = t]
      <3>1. /\ t \in Task \cup {None} /\ (t # None => t \in Number)
            /\ call[c].op = "suspend" => t # None
        BY <2>1, <2>3 DEF TypeInv, TypeOK, KnownInv
      <3> HIDE DEF t
      <3>2. Fits(x) /\ x.at = "unhandle"
        BY <1>1, <2>1, <3>1 DEF Fits, Calls
      <3>3. call' = [call EXCEPT ![c] = x]
        BY <2>3 DEF t
      <3> HIDE DEF x
      <3>4. QED  BY <3>2, <3>3 DEF Onward
    <2>4. QED  BY <1>4, <2>2, <2>3 DEF Take
  <1>5. CASE Unhandle(c)
    <2> DEFINE a == call[c].agent
    <2>1. call[c].at = "unhandle" /\ a \in Agent
      BY <1>1, <1>5 DEF Unhandle, At, Fits
    <2>2. CASE Terminated(c, TRUE)
      BY <2>1, <2>2, TerminatedGoes
    <2>3. CASE /\ handles[a] # None
               /\ call' = [call EXCEPT ![c].at = "stop",
                                       ![c].handle = handles[a]]
      <3> DEFINE x == [call[c] EXCEPT !.at = "stop", !.handle = handles[a]]
      <3>1. handles[a] \in Task \cup {None}
        BY <2>1 DEF TypeInv, TypeOK
      <3>2. Fits(x) /\ x.at = "stop"
        BY <1>1, <2>1, <2>3, <3>1 DEF Fits, Calls
      <3>3. call' = [call EXCEPT ![c] = x]
        BY <2>3
      <3> HIDE DEF x
      <3>4. QED  BY <3>2, <3>3 DEF Onward
    <2>4. QED  BY <1>5, <2>2, <2>3 DEF Unhandle
  <1>6. CASE SendTerminate(c)
    <2>1. call[c].at = "stop" /\ Terminated(c, HasRoom)
      BY <1>6 DEF SendTerminate, At
    <2>2. HasRoom \in BOOLEAN
      BY DEF HasRoom
    <2>3. QED  BY <2>1, <2>2, TerminatedGoes
  <1>7. QED  BY <1>2, <1>3, <1>4, <1>5, <1>6

\* What the steps of an operation change besides the call.
LEMMA StepData ==
    ASSUME TypeInv, PlaceInv, NEW c \in Caller,
           \/ Lookup(c) \/ Requeue(c) \/ Take(c) \/ Unhandle(c)
           \/ SendTerminate(c) \/ Suspend(c) \/ Restore(c) \/ Unqueue(c)
    PROVE  /\ UNCHANGED <<loop, allocated, sent, up, executing, expired,
                          failed, stopping>>
           /\ issued' \in Seq(Issue) /\ Len(issued') = Len(issued)
           /\ \A k : AgentOf(k)' = AgentOf(k)
           /\ \/ UNCHANGED <<queue, members, gone>>
              \/ \E i \in queue : TakeOut(i) /\ gone' = gone \cup {i}
           /\ \/ UNCHANGED <<running, restored>>
              \/ \E a \in Agent : /\ running' = [running EXCEPT ![a] = None]
                                  /\ restored' = restored
              \/ \E a \in Agent : \E i \in Number :
                    /\ running' = [running EXCEPT ![a] = i]
                    /\ restored' = restored \cup {i}
           /\ \/ suspended' = suspended
              \/ \E a \in Agent : \E i \in Number :
                    suspended' = [suspended EXCEPT ![a] = i]
           /\ \/ handles' = handles
              \/ \E a \in Agent : handles' = [handles EXCEPT ![a] = None]
           /\ channel' \in Seq(Command)
  <1>1. /\ Fits(call[c]) /\ TypeOK /\ issued \in Seq(Issue)
        /\ channel \in Seq(Command) /\ queue \subseteq Number
    BY IssuedTypes, ChannelTypes DEF TypeInv, CallInv, PlaceInv
  <1> DEFINE a == call[c].agent
  <1>2. CASE Lookup(c)
    <2>1. a \in Agent
      BY <1>1, <1>2 DEF Lookup, At, Fits
    <2>2. running[a] # None => running[a] \in Number
      BY <2>1 DEF TypeInv, KnownInv
    <2>3. \/ issued' = issued
          \/ \E i \in Number : SetPriority(i)
      BY <1>2, <2>2 DEF Lookup
    <2>4. /\ issued' \in Seq(Issue) /\ Len(issued') = Len(issued)
          /\ \A k : AgentOf(k)' = AgentOf(k)
      BY <1>1, <2>3, PriorityChanges DEF AgentOf
    <2>5. QED
      BY <1>1, <1>2, <2>4 DEF Lookup, loopVars, agentVars, taskVars, control,
                              history
  <1>3. CASE Requeue(c)
    <2>1. \/ issued' = issued
          \/ \E i \in Number : SetPriority(i)
      BY <1>1, <1>3 DEF Requeue, Queued
    <2>2. /\ issued' \in Seq(Issue) /\ Len(issued') = Len(issued)
          /\ \A k : AgentOf(k)' = AgentOf(k)
      BY <1>1, <2>1, PriorityChanges DEF AgentOf
    <2>3. QED
      BY <1>1, <1>3, <2>2 DEF Requeue, loopVars, agentVars, taskVars, control,
                              history
  <1>4. CASE Take(c)
    <2>1. a \in Agent
      BY <1>1, <1>4 DEF Take, At, Fits
    <2>2. running' = [running EXCEPT ![a] = None]
      BY <1>4 DEF Take
    <2>3. QED
      BY <1>1, <1>4, <2>1, <2>2
         DEF Take, queueVars, loopVars, taskVars, control, history, AgentOf
  <1>5. CASE Unhandle(c)
    <2>1. a \in Agent
      BY <1>1, <1>5 DEF Unhandle, At, Fits
    <2>2. handles' = [handles EXCEPT ![a] = None]
      BY <1>5 DEF Unhandle
    <2>3. QED
      BY <1>1, <1>5, <2>1, <2>2
         DEF Unhandle, queueVars, loopVars, agentVars, control, history,
             AgentOf
  <1>6. CASE SendTerminate(c)
    <2>1. [op |-> "terminate", task |-> call[c].handle] \in Command
      BY <1>1, <1>6 DEF SendTerminate, At, Fits, Calls, Command
    <2>2. channel' \in Seq(Command)
      BY <1>1, <1>6, <2>1, ChannelTypes DEF SendTerminate
    <2>3. QED
      BY <1>1, <1>6, <2>2
         DEF SendTerminate, queueVars, loopVars, agentVars, control, history,
             AgentOf
  <1>7. CASE Suspend(c)
    <2>1. a \in Agent /\ call[c].task \in Number
      BY <1>1, <1>7 DEF Suspend, At, Fits
    <2>2. suspended' = [suspended EXCEPT ![a] = call[c].task]
      BY <1>7 DEF Suspend
    <2>3. QED
      BY <1>1, <1>7, <2>1, <2>2
         DEF Suspend, queueVars, loopVars, taskVars, control, history, AgentOf
  <1>8. CASE Restore(c)
    <2>1. a \in Agent /\ call[c].task \in Number
      BY <1>1, <1>8 DEF Restore, At, Fits
    <2>2. /\ running' = [running EXCEPT ![a] = call[c].task]
          /\ restored' = restored \cup {call[c].task}
      BY <1>8 DEF Restore
    <2>3. QED
      BY <1>1, <1>8, <2>1, <2>2
         DEF Restore, queueVars, loopVars, taskVars, control, AgentOf
  <1>9. CASE Unqueue(c)
    <2>1. \/ UNCHANGED <<queue, members, gone>>
          \/ \E i \in queue : TakeOut(i) /\ gone' = gone \cup {i}
      BY <1>9 DEF Unqueue, Queued
    <2>2. QED
      BY <1>1, <1>9, <2>1
         DEF Unqueue, loopVars, agentVars, taskVars, control, AgentOf
  <1>10. QED
    BY <1>2, <1>3, <1>4, <1>5, <1>6, <1>7, <1>8, <1>9

LEMMA StepInv ==
    ASSUME TypeInv, PlaceInv, IndexInv, NEW c \in Caller,
           \/ Lookup(c) \/ Requeue(c) \/ Take(c) \/ Unhandle(c)
           \/ SendTerminate(c) \/ Suspend(c) \/ Restore(c) \/ Unqueue(c)
    PROVE  TypeInv' /\ PlaceInv' /\ IndexInv'
  <1>1. /\ UNCHANGED <<loop, allocated, sent, up, executing, expired, failed,
                       stopping>>
        /\ issued' \in Seq(Issue) /\ Len(issued') = Len(issued)
        /\ \A k : AgentOf(k)' = AgentOf(k)
    BY StepData
  <1>2. \/ UNCHANGED <<queue, members, gone>>
        \/ \E i \in queue : TakeOut(i) /\ gone' = gone \cup {i}
    BY StepData
  <1>3. TypeOK /\ CallInv /\ KnownInv /\ Len(issued) \in Nat
    BY IssuedTypes DEF TypeInv
  <1>4. Number' = Number /\ Number \subseteq Task /\ None \notin Number
    BY <1>1, <1>3, SchedulerAssumption DEF Number, Task, None, TypeOK
  <1>5. CallInv'
    <2>1. Onward(c)
      BY StepGoes
    <2>2. \E x : Fits(x) /\ call' = [call EXCEPT ![c] = x]
      BY <2>1 DEF Onward
    <2>3. Len(issued) <= Len(issued') /\ Len(issued') \in Nat
      BY <1>1, <1>3
    <2>4. QED  BY <1>3, <2>2, <2>3, CallsStay
  <1>6. KnownInv' /\ running' \in [Agent -> Task \cup {None}]
        /\ restored' \subseteq Task
    <2>1. \/ UNCHANGED <<running, restored>>
          \/ \E a \in Agent : /\ running' = [running EXCEPT ![a] = None]
                              /\ restored' = restored
          \/ \E a \in Agent : \E i \in Number :
                /\ running' = [running EXCEPT ![a] = i]
                /\ restored' = restored \cup {i}
      BY StepData
    <2>2. \/ suspended' = suspended
          \/ \E a \in Agent : \E i \in Number :
                suspended' = [suspended EXCEPT ![a] = i]
      BY StepData
    <2>3. /\ running \in [Agent -> Task \cup {None}]
          /\ suspended \in [Agent -> Task \cup {None}]
          /\ restored \subseteq Task
      BY <1>3 DEF TypeOK
    <2>4. \A a \in Agent : running'[a] # None => running'[a] \in Number
      BY <1>3, <2>1, <2>3 DEF KnownInv
    <2>5. \A a \in Agent : suspended'[a] # None => suspended'[a] \in Number
      BY <1>3, <2>2, <2>3 DEF KnownInv
    <2>6. running' \in [Agent -> Task \cup {None}] /\ restored' \subseteq Task
      BY <1>4, <2>1, <2>3
    <2>7. QED  BY <1>1, <1>3, <1>4, <2>4, <2>5, <2>6 DEF KnownInv
  <1>7. suspended' \in [Agent -> Task \cup {None}]
    <2>1. \/ suspended' = suspended
          \/ \E a \in Agent : \E i \in Number :
                suspended' = [suspended EXCEPT ![a] = i]
      BY StepData
    <2>2. QED  BY <1>3, <1>4, <2>1 DEF TypeOK
  <1>8. handles' \in [Agent -> Task \cup {None}] /\ channel' \in Seq(Command)
    <2>1. \/ handles' = handles
          \/ \E a \in Agent : handles' = [handles EXCEPT ![a] = None]
      BY StepData
    <2>2. QED  BY <1>3, <2>1, StepData DEF TypeOK
  <1>9. /\ queue' \subseteq Task /\ members' \subseteq Agent
        /\ gone' \subseteq Task
    BY <1>2, <1>3 DEF TypeOK, TakeOut
  <1>10. TypeOK'
    BY <1>1, <1>3, <1>6, <1>7, <1>8, <1>9 DEF TypeOK, Issue, Command
  <1>11. PlaceInv'
    BY <1>1, <1>2, <1>4 DEF PlaceInv, TakeOut, InHand
  <1>12. IndexInv'
    <2>1. CASE UNCHANGED <<queue, members>>
      BY <1>1, <2>1 DEF IndexInv
    <2>2. CASE \E i \in queue : TakeOut(i)
      <3>1. PICK i \in queue : /\ queue' = queue \ {i}
                               /\ members' = members \ {AgentOf(i)}
        BY <2>2 DEF TakeOut
      <3>2. QED  BY <1>1, <3>1 DEF IndexInv
    <2>3. QED  BY <1>2, <2>1, <2>2
  <1>13. QED  BY <1>5, <1>6, <1>10, <1>11, <1>12 DEF TypeInv

\* The new task is the next number, in the queue and in the index.
LEMMA PushInv ==
    ASSUME TypeInv, PlaceInv, IndexInv, NEW c \in Caller, PushNew(c),
           Len(issued) < MaxTasks
    PROVE  /\ TypeInv' /\ PlaceInv' /\ IndexInv'
           /\ Len(issued') = Len(issued) + 1
  <1>1. /\ Fits(call[c]) /\ TypeOK /\ issued \in Seq(Issue)
        /\ Len(issued) \in Nat /\ CallInv /\ KnownInv
    BY IssuedTypes DEF TypeInv, CallInv
  <1> DEFINE a == call[c].agent
             n == Len(issued) + 1
  <1>2. a \in Agent
    BY <1>1 DEF PushNew, At, Fits
  <1>3. PICK p \in Priority :
               issued' = Append(issued, [agent |-> a, priority |-> p])
    <2>1. call[c].task # None => issued[call[c].task].priority \in Priority
      BY <1>1, IssuedTypes DEF Fits
    <2>2. QED  BY <2>1 DEF PushNew
  <1> DEFINE x == [agent |-> a, priority |-> p]
  <1>4. x \in Issue /\ x.agent = a
    BY <1>2 DEF Issue
  <1>5. issued' = Append(issued, x)
    BY <1>3
  <1> HIDE DEF x
  <1>6. /\ issued' \in Seq(Issue) /\ Len(issued') = n
        /\ issued'[n] = x /\ \A i \in Number : issued'[i] = issued[i]
    BY <1>1, <1>4, <1>5, SequenceTypes DEF Number
  <1>7. /\ Number' = Number \cup {n} /\ n \notin Number /\ n \in Task
        /\ n # None
    BY <1>1, <1>6, SchedulerAssumption DEF Number, Task, None
  <1>8. /\ UNCHANGED <<loop, allocated, running, suspended, handles, channel,
                       executing, expired, up, failed, stopping, sent, gone,
                       restored>>
        /\ queue' = queue \cup {n} /\ members' = members \cup {a}
        /\ call' = [call EXCEPT ![c] = Idle]
    BY DEF PushNew, Push, Return, loopVars, agentVars, taskVars, control,
           history
  <1>9. TypeOK'
    <2>1. Len(issued') <= MaxTasks
      BY <1>1, <1>6, SchedulerAssumption
    <2>2. QED  BY <1>1, <1>2, <1>6, <1>7, <1>8, <2>1 DEF TypeOK, Issue
  <1>10. CallInv'
    <2>1. Len(issued) <= Len(issued') /\ Len(issued') \in Nat
      BY <1>1, <1>6
    <2>2. QED  BY <1>1, <1>8, <2>1, IdleFits, CallsStay
  <1>11. KnownInv'
    BY <1>1, <1>7, <1>8 DEF KnownInv
  <1>12. PlaceInv'
    <2>1. InHand' = InHand
      BY <1>8 DEF InHand
    <2>2. QED  BY <1>7, <1>8, <2>1 DEF PlaceInv
  <1>13. IndexInv'
    <2>1. \A i \in queue : AgentOf(i)' = AgentOf(i)
      BY <1>6 DEF PlaceInv, AgentOf
    <2>2. issued'[n].agent = a
      BY <1>4, <1>6
    <2>3. \A b \in members : \E i \in queue' : issued'[i].agent = b
      BY <1>8, <2>1 DEF IndexInv, AgentOf
    <2>4. QED  BY <1>8, <2>2, <2>3 DEF IndexInv, AgentOf
  <1>14. QED  BY <1>6, <1>9, <1>10, <1>11, <1>12, <1>13 DEF TypeInv

\* The steps with which an operation begins, and the end of the shutdown.
LEMMA BeginInv ==
    ASSUME TypeInv, PlaceInv, IndexInv,
           \/ Reap \/ StopListed \/ EndShutdown
           \/ \E t \in Thread : Invoke(t) \/ Resume(t)
    PROVE  /\ TypeInv' /\ PlaceInv' /\ IndexInv'
           /\ UNCHANGED <<issued, loop, allocated, running, sent, restored>>
           /\ \/ call' = call
              \/ \E c \in Caller : \E x :
                    /\ Fits(x) /\ call' = [call EXCEPT ![c] = x]
                    /\ x.at = "push" => HasNumber
  <1>1. /\ TypeOK /\ CallInv /\ KnownInv /\ Len(issued) \in Nat
        /\ IsFiniteSet(Thread)
    BY IssuedTypes, SchedulerAssumption DEF TypeInv
  <1>2. ASSUME NEW c \in Caller, NEW a \in Agent,
               NEW op \in {"schedule", "reschedule", "terminate", "delete",
                           "suspend", "reap"},
               NEW place \in {"push", "lookup", "take"},
               place = "push" => HasNumber,
               Begin(c, op, a, place)
        PROVE  \E x : /\ Fits(x) /\ call' = [call EXCEPT ![c] = x]
                      /\ x.at = "push" => HasNumber
    <2> DEFINE x == [Idle EXCEPT !.op = op, !.agent = a, !.at = place]
    <2>1. Fits(x) /\ x.at = place
      BY SchedulerAssumption DEF Fits, Calls, Idle, Task, None
    <2>2. call' = [call EXCEPT ![c] = x]
      BY <1>2 DEF Begin
    <2> HIDE DEF x
    <2>3. QED  BY <1>2, <2>1, <2>2
  <1>3. ASSUME /\ UNCHANGED <<issued, queue, members, loop, allocated, running,
                              handles, channel, executing, expired, up, sent,
                              gone, restored>>,
               suspended' \in [Agent -> Task \cup {None}],
               \A a \in Agent : suspended'[a] # None =>
                                   suspended'[a] = suspended[a],
               failed' \subseteq Agent,
               stopping' \in [at : {"up", "list", "graceful", "relist",
                                    "force", "done"}, todo : SUBSET Agent],
               \/ call' = call
               \/ \E c \in Caller : \E x :
                     Fits(x) /\ call' = [call EXCEPT ![c] = x]
        PROVE  TypeInv' /\ PlaceInv' /\ IndexInv'
    <2>1. TypeOK'
      BY <1>1, <1>3 DEF TypeOK
    <2>2. CallInv'
      <3>1. Len(issued) <= Len(issued') /\ Len(issued') \in Nat
        BY <1>1, <1>3
      <3>2. QED  BY <1>1, <1>3, <3>1, CallsStay
    <2>3. KnownInv'
      BY <1>1, <1>3 DEF KnownInv, Number
    <2>4. PlaceInv' /\ IndexInv'
      BY <1>3 DEF PlaceInv, IndexInv, InHand, Number, AgentOf
    <2>5. QED  BY <2>1, <2>2, <2>3, <2>4 DEF TypeInv
  <1>4. CASE Reap
    <2>1. /\ UNCHANGED <<issued, queue, members, loop, allocated, running,
                         suspended, handles, channel, executing, expired, up,
                         sent, gone, restored, stopping>>
      BY <1>4 DEF Reap, queueVars, loopVars, agentVars, taskVars, history
    <2>2. PICK a \in failed : /\ failed' = failed \ {a}
                              /\ Begin("health", "reap", a, "take")
      BY <1>4 DEF Reap
    <2>3. a \in Agent /\ "health" \in Caller
      BY <1>1 DEF TypeOK, Caller
    <2>4. \E x : /\ Fits(x) /\ call' = [call EXCEPT !["health"] = x]
                 /\ x.at = "push" => HasNumber
      BY <1>2, <2>2, <2>3
    <2>5. TypeInv' /\ PlaceInv' /\ IndexInv'
      BY <1>1, <1>3, <2>1, <2>2, <2>3, <2>4 DEF TypeOK
    <2>6. QED  BY <2>1, <2>3, <2>4, <2>5
  <1>5. CASE StopListed
    <2>1. /\ UNCHANGED <<issued, queue, members, loop, allocated, running,
                         suspended, handles, channel, executing, expired, up,
                         sent, gone, restored, failed>>
      BY <1>5 DEF StopListed, queueVars, loopVars, agentVars, taskVars, history
    <2>2. PICK a \in stopping.todo :
                  /\ stopping' = [stopping EXCEPT !.todo = @ \ {a}]
                  /\ Begin("stopper", "terminate", a, "take")
      BY <1>5 DEF StopListed
    <2>3. a \in Agent /\ "stopper" \in Caller
      BY <1>1 DEF TypeOK, Caller
    <2>4. \E x : /\ Fits(x) /\ call' = [call EXCEPT !["stopper"] = x]
                 /\ x.at = "push" => HasNumber
      BY <1>2, <2>2, <2>3
    <2>5. stopping' \in [at : {"up", "list", "graceful", "relist",
                               "force", "done"}, todo : SUBSET Agent]
      BY <1>1, <2>2 DEF TypeOK
    <2>6. TypeInv' /\ PlaceInv' /\ IndexInv'
      BY <1>1, <1>3, <2>1, <2>3, <2>4, <2>5 DEF TypeOK
    <2>7. QED  BY <2>1, <2>3, <2>4, <2>6
  <1>6. CASE EndShutdown
    <2>1. /\ UNCHANGED <<issued, loop, allocated, running, suspended, handles,
                         channel, executing, expired, up, sent, restored,
                         failed, call>>
          /\ queue' = {} /\ members' = {} /\ gone' = gone \cup queue
          /\ stopping' = [stopping EXCEPT !.at = "done"]
      BY <1>6 DEF EndShutdown, loopVars, agentVars, taskVars
    <2>2. TypeOK'
      BY <1>1, <2>1 DEF TypeOK
    <2>3. CallInv' /\ KnownInv'
      BY <1>1, <2>1 DEF CallInv, KnownInv, Number, Fits, Calls
    <2>4. PlaceInv' /\ IndexInv'
      BY <2>1 DEF PlaceInv, IndexInv, InHand, Number
    <2>5. QED  BY <2>1, <2>2, <2>3, <2>4 DEF TypeInv
  <1>7. ASSUME NEW t \in Thread, Invoke(t)
        PROVE  /\ TypeInv' /\ PlaceInv' /\ IndexInv'
               /\ UNCHANGED <<issued, loop, allocated, running, sent,
                              restored>>
               /\ \E c \in Caller : \E x :
                    /\ Fits(x) /\ call' = [call EXCEPT ![c] = x]
                    /\ x.at = "push" => HasNumber
    <2>1. /\ UNCHANGED <<issued, queue, members, loop, allocated, running,
                         suspended, handles, channel, executing, expired, up,
                         sent, gone, restored, failed, stopping>>
      BY <1>7 DEF Invoke, queueVars, loopVars, agentVars, taskVars, control,
                  history
    <2>2. t \in Caller
      BY DEF Caller
    <2>3. \E x : /\ Fits(x) /\ call' = [call EXCEPT ![t] = x]
                 /\ x.at = "push" => HasNumber
      BY <1>2, <1>7, <2>2 DEF Invoke
    <2>4. TypeInv' /\ PlaceInv' /\ IndexInv'
      BY <1>1, <1>3, <2>1, <2>2, <2>3 DEF TypeOK
    <2>5. QED  BY <2>1, <2>2, <2>3, <2>4
  <1>8. ASSUME NEW t \in Thread, Resume(t)
        PROVE  /\ TypeInv' /\ PlaceInv' /\ IndexInv'
               /\ UNCHANGED <<issued, loop, allocated, running, sent,
                              restored>>
               /\ \E c \in Caller : \E x :
                    /\ Fits(x) /\ call' = [call EXCEPT ![c] = x]
                    /\ x.at = "push" => HasNumber
    <2>1. /\ UNCHANGED <<issued, queue, members, loop, allocated, running,
                         handles, channel, executing, expired, up,
                         sent, gone, restored, failed, stopping>>
          /\ HasNumber
      BY <1>8 DEF Resume, queueVars, loopVars, taskVars, control, history
    <2>2. t \in Caller
      BY DEF Caller
    <2>3. PICK a \in Agent :
             /\ suspended[a] # None
             /\ suspended' = [suspended EXCEPT ![a] = None]
             /\ call' = [call EXCEPT ![t] =
                            [Idle EXCEPT !.op = "resume", !.agent = a,
                                         !.at = "push", !.task = suspended[a]]]
      BY <1>8 DEF Resume
    <2> DEFINE x == [Idle EXCEPT !.op = "resume", !.agent = a,
                                 !.at = "push", !.task = suspended[a]]
    <2>4. /\ suspended[a] \in Number /\ suspended[a] \in Task
          /\ suspended' \in [Agent -> Task \cup {None}]
          /\ \A b \in Agent : suspended'[b] # None =>
                                suspended'[b] = suspended[b]
      BY <1>1, <2>3 DEF KnownInv, TypeOK
    <2>5. Fits(x)
      BY <2>4, SchedulerAssumption DEF Fits, Calls, Idle, Task, None
    <2>6. call' = [call EXCEPT ![t] = x]
      BY <2>3
    <2> HIDE DEF x
    <2>7. TypeInv' /\ PlaceInv' /\ IndexInv'
      BY <1>1, <1>3, <2>1, <2>2, <2>4, <2>5, <2>6 DEF TypeOK
    <2>8. QED  BY <2>1, <2>2, <2>5, <2>6, <2>7
  <1>9. QED  BY <1>4, <1>5, <1>6, <1>7, <1>8

-----------------------------------------------------------------------------
(* Numbers for the pushes.                                                   *)

LEMMA FiniteCallers ==
    /\ IsFiniteSet(Caller)
    /\ IsFiniteSet(Pushing) /\ Cardinality(Pushing) \in Nat
  <1>1. IsFiniteSet({"health"}) /\ IsFiniteSet({"stopper"})
    BY FS_Singleton
  <1>2. Caller = (Thread \cup {"health"}) \cup {"stopper"}
    BY DEF Caller
  <1>3. IsFiniteSet(Caller)
    BY <1>1, <1>2, FS_Union, SchedulerAssumption
  <1>4. Pushing \subseteq Caller
    BY DEF Pushing
  <1>5. QED  BY <1>3, <1>4, FS_Subset, FS_CardinalityType

LEMMA RoomStays ==
    ASSUME TypeInv, RoomInv, Len(issued') = Len(issued),
           \/ call' = call
           \/ \E c \in Caller : \E x : /\ call' = [call EXCEPT ![c] = x]
                                       /\ x.at = "push" => HasNumber
    PROVE  RoomInv'
  <1>1. /\ Len(issued) \in Nat /\ MaxTasks \in Nat
        /\ IsFiniteSet(Pushing) /\ Cardinality(Pushing) \in Nat
        /\ IsFiniteSet(Caller)
    BY IssuedTypes, FiniteCallers, SchedulerAssumption DEF TypeInv
  <1>2. CASE Pushing' \subseteq Pushing
    <2>1. Cardinality(Pushing') \in Nat
          /\ Cardinality(Pushing') <= Cardinality(Pushing)
      BY <1>1, <1>2, FS_Subset, FS_CardinalityType
    <2>2. QED  BY <1>1, <2>1 DEF RoomInv
  <1>3. ASSUME NEW c \in Caller, Pushing' \subseteq Pushing \cup {c}, HasNumber
        PROVE  RoomInv'
    <2>1. Len(issued) + Cardinality(Pushing) < MaxTasks
      BY <1>3 DEF HasNumber, Pushing
    <2>2. /\ IsFiniteSet(Pushing \cup {c})
          /\ \/ Cardinality(Pushing \cup {c}) = Cardinality(Pushing)
             \/ Cardinality(Pushing \cup {c}) = Cardinality(Pushing) + 1
      BY <1>1, FS_AddElement
    <2>3. /\ Cardinality(Pushing') \in Nat
          /\ Cardinality(Pushing') <= Cardinality(Pushing \cup {c})
      BY <1>3, <2>2, FS_Subset, FS_CardinalityType
    <2>4. QED  BY <1>1, <2>1, <2>2, <2>3 DEF RoomInv
  <1>4. CASE call' = call
    BY <1>2, <1>4 DEF Pushing, At
  <1>5. ASSUME NEW c \in Caller, NEW x, call' = [call EXCEPT ![c] = x],
               x.at = "push" => HasNumber
        PROVE  RoomInv'
    <2>1. \A d \in Caller : d # c => call'[d] = call[d]
      BY <1>5 DEF TypeInv, CallInv
    <2>2. call'[c] = x
      BY <1>5 DEF TypeInv, CallInv
    <2>3. CASE x.at = "push"
      <3>1. Pushing' \subseteq Pushing \cup {c}
        BY <2>1 DEF Pushing, At
      <3>2. QED  BY <1>3, <1>5, <2>3, <3>1
    <2>4. CASE x.at # "push"
      <3>1. Pushing' \subseteq Pushing
        BY <2>1, <2>2, <2>4 DEF Pushing, At
      <3>2. QED  BY <1>2, <3>1
    <2>5. QED  BY <2>3, <2>4
  <1>6. QED  BY <1>4, <1>5

\* A push has had its number since it was called.
LEMMA PushRoom ==
    ASSUME TypeInv, RoomInv, NEW c \in Caller, PushNew(c)
    PROVE  /\ Len(issued) < MaxTasks
           /\ Len(issued') = Len(issued) + 1 => RoomInv'
  <1>1. /\ Len(issued) \in Nat /\ MaxTasks \in Nat
        /\ IsFiniteSet(Pushing) /\ Cardinality(Pushing) \in Nat
    BY IssuedTypes, FiniteCallers, SchedulerAssumption DEF TypeInv
  <1>2. c \in Pushing
    BY DEF PushNew, Pushing
  <1>3. /\ Cardinality(Pushing \ {c}) = Cardinality(Pushing) - 1
        /\ IsFiniteSet(Pushing \ {c}) /\ Cardinality(Pushing \ {c}) \in Nat
    BY <1>1, <1>2, FS_RemoveElement, FS_CardinalityType
  <1>4. Pushing' = Pushing \ {c}
    <2>1. call' = [call EXCEPT ![c] = Idle] /\ Idle.at # "push"
      BY DEF PushNew, Return, Idle
    <2>2. call'[c] = Idle /\ \A d \in Caller : d # c => call'[d] = call[d]
      BY <2>1 DEF TypeInv, CallInv
    <2>3. QED  BY <2>1, <2>2 DEF Pushing, At
  <1>5. QED  BY <1>1, <1>3, <1>4 DEF RoomInv

-----------------------------------------------------------------------------
(* The limits.                                                               *)

LEMMA FiniteAgents ==
    ASSUME NEW S, S \subseteq Agent, NEW T, T \subseteq S
    PROVE  /\ IsFiniteSet(S) /\ Cardinality(S) \in Nat
           /\ Cardinality(T) \in Nat /\ Cardinality(T) <= Cardinality(S)
  <1>1. IsFiniteSet(S)
    BY FS_Subset, SchedulerAssumption
  <1>2. QED  BY <1>1, FS_Subset, FS_CardinalityType

\* Who counts less keeps the limit.
LEMMA LimitStays ==
    ASSUME LimitInv, Counted' \subseteq Counted,
           loop'.at = "allocate" => loop.at = "allocate"
    PROVE  LimitInv'
  <1>1. Counted \subseteq Agent
    BY DEF Counted
  <1>2. /\ Cardinality(Counted) \in Nat /\ Cardinality(Counted') \in Nat
        /\ Cardinality(Counted') <= Cardinality(Counted)
    BY <1>1, FiniteAgents
  <1>3. QED  BY <1>2, SchedulerAssumption DEF LimitInv

LEMMA LoopLimits ==
    ASSUME TypeInv, PlaceInv, LimitInv, PoolInv,
           Pop \/ Allocate \/ PutBack \/ SendStart \/ UndoStart
    PROVE  LimitInv' /\ PoolInv'
  <1>1. /\ running \in [Agent -> Task \cup {None}] /\ None \notin Task
        /\ allocated \subseteq Task
        /\ loop \in [at : {"tick", "allocate", "start", "send", "undo",
                           "stopped"}, task : Task \union {None}]
    BY SchedulerAssumption DEF TypeInv, TypeOK, Task, None
  <1>2. restored' = restored
    BY DEF Pop, Allocate, PutBack, SendStart, UndoStart, history
  <1>3. loop.at \in {"allocate", "start", "send", "undo"} =>
            /\ loop.task \in Number /\ loop.task \notin sent
            /\ AgentOf(loop.task) \in Agent
    <2>1. TypeOK /\ KnownInv
      BY DEF TypeInv
    <2>2. loop.at \in {"allocate", "start", "send", "undo"} =>
            loop.task \in Number /\ loop.task \notin sent
      BY <2>1 DEF KnownInv, PlaceInv, InHand
    <2>3. QED  BY <2>1, <2>2, IssuedTypes
  <1>4. CASE Pop
    <2>1. /\ running' = running /\ loop.at = "tick"
          /\ loop'.at \in {"allocate", "tick"}
          /\ allocated' = allocated /\ sent' = sent
          /\ Cardinality(Running) < MaxConcurrent
      BY <1>4 DEF Pop, agentVars, HoldNothing
    <2>2. Counted \subseteq Running /\ Running \subseteq Agent
      BY DEF Counted, Running
    <2>3. /\ Cardinality(Counted) \in Nat /\ Cardinality(Running) \in Nat
          /\ Cardinality(Counted) <= Cardinality(Running)
      BY <2>2, FiniteAgents
    <2>4. Counted' = Counted
      BY <1>2, <2>1 DEF Counted
    <2>5. Cardinality(Counted) < MaxConcurrent
      BY <2>1, <2>3, SchedulerAssumption
    <2>6. Cardinality(Counted) <= MaxConcurrent
      BY <2>3, <2>5, SchedulerAssumption
    <2>7. LimitInv'
      BY <2>4, <2>5, <2>6 DEF LimitInv
    <2>8. PoolInv'
      BY <2>1 DEF PoolInv, Allocating
    <2>9. QED  BY <2>7, <2>8
  <1>5. CASE Allocate
    <2> DEFINE a == AgentOf(loop.task)
    <2>1. /\ loop.at = "allocate" /\ loop'.at = "start"
          /\ loop'.task = loop.task
          /\ running' = [running EXCEPT ![a] = loop.task]
          /\ allocated' = allocated \cup {loop.task} /\ sent' = sent
          /\ Cardinality(allocated) < Capacity
      BY <1>1, <1>5 DEF Allocate, history, HasResources
    <2>2. Counted' \subseteq Counted \cup {a}
      BY <1>1, <1>2, <2>1 DEF Counted
    <2>3. IsFiniteSet(Counted) /\ Cardinality(Counted) \in Nat
      <3>1. Counted \subseteq Agent
        BY DEF Counted
      <3>2. QED  BY <3>1, FiniteAgents
    <2>4. /\ IsFiniteSet(Counted \cup {a})
          /\ \/ Cardinality(Counted \cup {a}) = Cardinality(Counted)
             \/ Cardinality(Counted \cup {a}) = Cardinality(Counted) + 1
      BY <2>3, FS_AddElement
    <2>5. /\ Cardinality(Counted') \in Nat
          /\ Cardinality(Counted') <= Cardinality(Counted \cup {a})
      BY <2>2, <2>4, FS_Subset, FS_CardinalityType
    <2>6. Cardinality(Counted) < MaxConcurrent
      BY <2>1 DEF LimitInv
    <2>7. Cardinality(Counted') <= MaxConcurrent
      BY <2>3, <2>4, <2>5, <2>6, SchedulerAssumption
    <2>8. LimitInv'
      BY <2>1, <2>7 DEF LimitInv
    <2>9. IsFiniteSet(allocated) /\ Cardinality(allocated) \in Nat
      <3>1. IsFiniteSet(Task)
        BY FS_Interval, SchedulerAssumption DEF Task
      <3>2. QED  BY <1>1, <3>1, FS_Subset, FS_CardinalityType
    <2>10. \/ Cardinality(allocated') = Cardinality(allocated)
           \/ Cardinality(allocated') = Cardinality(allocated) + 1
      BY <2>1, <2>9, FS_AddElement
    <2>11. Cardinality(allocated') <= Capacity
      BY <2>1, <2>9, <2>10, SchedulerAssumption
    <2>12. PoolInv'
      BY <2>1, <2>11 DEF PoolInv, Allocating
    <2>13. QED  BY <2>8, <2>12
  <1>6. CASE PutBack
    <2>1. /\ running' = running /\ loop.at = "allocate" /\ loop'.at = "tick"
          /\ allocated' = allocated /\ sent' = sent
      BY <1>6 DEF PutBack, agentVars, HoldNothing, history
    <2>2. Counted' = Counted
      BY <1>2, <2>1 DEF Counted
    <2>3. LimitInv'
      BY <2>1, <2>2, LimitStays
    <2>4. PoolInv'
      BY <2>1 DEF PoolInv, Allocating
    <2>5. QED  BY <2>3, <2>4
  <1>7. CASE SendStart
    <2>1. /\ running' = running /\ loop.at = "send" /\ allocated' = allocated
          /\ \/ loop'.at = "tick" /\ sent' = sent \cup {loop.task}
             \/ /\ loop'.at = "undo" /\ loop'.task = loop.task /\ sent' = sent
      BY <1>1, <1>7 DEF SendStart, agentVars, HoldNothing
    <2>2. Counted' = Counted
      BY <1>2, <2>1 DEF Counted
    <2>3. LimitInv'
      BY <2>1, <2>2, LimitStays
    <2>4. PoolInv'
      BY <2>1 DEF PoolInv, Allocating
    <2>5. QED  BY <2>3, <2>4
  <1>8. CASE UndoStart
    <2>1. /\ loop.at = "undo" /\ loop'.at = "tick" /\ sent' = sent
          /\ running' = [running EXCEPT ![AgentOf(loop.task)] = None]
          /\ allocated' = allocated \ {loop.task}
      BY <1>8 DEF UndoStart, HoldNothing
    <2>2. Counted' \subseteq Counted
      BY <1>1, <1>2, <2>1 DEF Counted
    <2>3. LimitInv'
      BY <2>1, <2>2, LimitStays
    <2>4. allocated' = sent /\ allocated' \subseteq allocated
      BY <1>3, <2>1 DEF PoolInv, Allocating
    <2>5. IsFiniteSet(allocated)
      <3>1. IsFiniteSet(Task)
        BY FS_Interval, SchedulerAssumption DEF Task
      <3>2. QED  BY <1>1, <3>1, FS_Subset
    <2>6. /\ Cardinality(allocated') <= Cardinality(allocated)
          /\ Cardinality(allocated') \in Nat /\ Cardinality(allocated) \in Nat
          /\ Cardinality(allocated) <= Capacity
      BY <2>4, <2>5, FS_Subset, FS_CardinalityType
         DEF PoolInv
    <2>7. Cardinality(allocated') <= Capacity
      BY <2>6, SchedulerAssumption
    <2>8. PoolInv'
      BY <2>1, <2>4, <2>7 DEF PoolInv, Allocating
    <2>9. QED  BY <2>3, <2>8
  <1>9. QED  BY <1>4, <1>5, <1>6, <1>7, <1>8

\* All other steps leave the pool, and no agent begins to count.
LEMMA OtherLimits ==
    ASSUME TypeInv, LimitInv, PoolInv,
           UNCHANGED <<allocated, sent>>, loop'.task = loop.task,
           \/ loop' = loop
           \/ loop.at = "tick" /\ loop'.at = "stopped"
           \/ loop.at = "start" /\ loop'.at = "send",
           \/ UNCHANGED <<running, restored>>
           \/ \E a \in Agent : /\ running' = [running EXCEPT ![a] = None]
                               /\ restored' = restored
           \/ \E a \in Agent : \E i \in Number :
                 /\ running' = [running EXCEPT ![a] = i]
                 /\ restored' = restored \cup {i}
    PROVE  LimitInv' /\ PoolInv'
  <1>1. running \in [Agent -> Task \cup {None}]
    BY DEF TypeInv, TypeOK
  <1>2. Counted' \subseteq Counted
    BY <1>1 DEF Counted
  <1>3. LimitInv'
    BY <1>2, LimitStays
  <1>4. PoolInv'
    BY DEF PoolInv, Allocating
  <1>5. QED  BY <1>3, <1>4

-----------------------------------------------------------------------------
(* What agents run has begun.                                                *)

LEMMA BegunGrows ==
    ASSUME TypeInv, [Next]_vars
    PROVE  Begun \subseteq Begun'
  <1> SUFFICES /\ sent \subseteq sent' /\ gone \subseteq gone'
               /\ Allocating \subseteq sent' \cup gone' \cup Allocating'
    BY DEF Begun
  <1>1. loop \in [at : {"tick", "allocate", "start", "send", "undo",
                       "stopped"},
                  task : Task \union {None}]
    BY DEF TypeInv, TypeOK
  <1>2. CASE Pop \/ StopLoop \/ PutBack
    BY <1>2 DEF Pop, StopLoop, PutBack, history, Allocating
  <1>3. CASE Allocate
    BY <1>1, <1>3 DEF Allocate, history, Allocating
  <1>4. CASE StoreHandle
    BY <1>1, <1>4 DEF StoreHandle, history, Allocating
  <1>5. CASE SendStart
    <2>1. gone' = gone /\ Allocating = {loop.task}
      BY <1>5 DEF SendStart, Allocating
    <2>2. \/ sent' = sent \cup {loop.task}
          \/ sent' = sent /\ loop' = [loop EXCEPT !.at = "undo"]
      BY <1>5 DEF SendStart
    <2>3. QED  BY <1>1, <2>1, <2>2 DEF Allocating
  <1>6. CASE UndoStart
    BY <1>6 DEF UndoStart, Allocating
  <1>7. CASE /\ loop' = loop /\ sent' = sent /\ gone \subseteq gone'
    BY <1>7 DEF Allocating
  <1>8. CASE \/ ReceiveStart \/ ReceiveTerminate \/ EndWhenDue \/ ProcessEnds
             \/ \E i \in Task : TimePasses(i)
             \/ Scan \/ Reap \/ BeginShutdown \/ Shutdown
             \/ \E t \in Thread : Invoke(t) \/ Resume(t)
             \/ UNCHANGED vars
    <2>1. loop' = loop /\ sent' = sent /\ gone \subseteq gone'
      BY <1>8
         DEF ReceiveStart, ReceiveTerminate, EndWhenDue, ProcessEnds,
             EndExecution, TimePasses, Scan, Reap, BeginShutdown, Shutdown,
             ListRunning, StopListed, EndGraceful, EndShutdown, Invoke, Resume,
             loopVars, history, vars
    <2>2. QED  BY <1>7, <2>1
  <1>9. CASE \E c \in Caller : Step(c)
    <2>1. PICK c \in Caller : Step(c)
      BY <1>9
    <2>2. loop' = loop /\ sent' = sent /\ gone \subseteq gone'
      BY <2>1
         DEF Step, PushNew, Lookup, Requeue, Take, Unhandle, SendTerminate,
             Suspend, Restore, Unqueue, loopVars, history
    <2>3. QED  BY <1>7, <2>2
  <1>10. QED
    BY <1>2, <1>3, <1>4, <1>5, <1>6, <1>8, <1>9 DEF Next, SchedulerLoop

\* A suspension that goes on keeps its task, and that has begun.
Keeps(x) == x.op = "suspend" /\ x.task # None => x.task \in Begun

KeepsBegun ==
    \/ call' = call
    \/ \E c \in Caller : \E x : Keeps(x) /\ call' = [call EXCEPT ![c] = x]

LEMMA CallsKeepBegun ==
    ASSUME TypeInv, BegunInv, [Next]_vars
    PROVE  KeepsBegun
  <1>1. \A c \in Caller : Keeps(call[c]) /\ Fits(call[c])
    BY DEF BegunInv, TypeInv, CallInv, Keeps
  <1>2. \A c \in Caller : \A place : Goto(c, place) => KeepsBegun
    <2> SUFFICES ASSUME NEW c \in Caller, NEW place, Goto(c, place)
                 PROVE  KeepsBegun
      OBVIOUS
    <2> DEFINE x == [call[c] EXCEPT !.at = place]
    <2>1. Keeps(x)
      BY <1>1 DEF Keeps, Fits, Calls
    <2>2. call' = [call EXCEPT ![c] = x]
      BY DEF Goto
    <2> HIDE DEF x
    <2>3. QED  BY <2>1, <2>2 DEF KeepsBegun
  <1>3. \A c \in Caller : Return(c) => KeepsBegun
    BY DEF Return, Idle, Keeps, KeepsBegun
  <1>4. \A c \in Caller : \A op, a, place : Begin(c, op, a, place) => KeepsBegun
    <2> SUFFICES ASSUME NEW c \in Caller, NEW op, NEW a, NEW place,
                        Begin(c, op, a, place)
                 PROVE  KeepsBegun
      OBVIOUS
    <2> DEFINE x == [Idle EXCEPT !.op = op, !.agent = a, !.at = place]
    <2>1. x.task = None
      BY DEF Idle
    <2>2. call' = [call EXCEPT ![c] = x]
      BY DEF Begin
    <2> HIDE DEF x
    <2>3. QED  BY <2>1, <2>2 DEF Keeps, KeepsBegun
  <1>5. \A c \in Caller : \A ok : Terminated(c, ok) => KeepsBegun
    BY <1>2, <1>3 DEF Terminated
  <1>6. CASE \/ SchedulerLoop
             \/ ReceiveStart \/ ReceiveTerminate \/ EndWhenDue \/ ProcessEnds
             \/ \E i \in Task : TimePasses(i)
             \/ Scan \/ BeginShutdown \/ ListRunning \/ EndGraceful
             \/ EndShutdown \/ UNCHANGED vars
    <2>1. call' = call
      BY <1>6
         DEF SchedulerLoop, Pop, StopLoop, Allocate, PutBack, StoreHandle,
             SendStart, UndoStart, ReceiveStart, ReceiveTerminate, EndWhenDue,
             ProcessEnds, EndExecution, TimePasses, Scan, BeginShutdown,
             ListRunning, EndGraceful, EndShutdown, vars
    <2>2. QED  BY <2>1 DEF KeepsBegun
  <1>7. CASE Reap \/ StopListed
    <2>1. {"health", "stopper"} \subseteq Caller
      BY DEF Caller
    <2>2. QED  BY <1>4, <1>7, <2>1 DEF Reap, StopListed
  <1>8. ASSUME NEW t \in Thread, Invoke(t)
        PROVE  KeepsBegun
    <2>1. t \in Caller
      BY DEF Caller
    <2>2. QED  BY <1>4, <1>8, <2>1 DEF Invoke
  <1>9. ASSUME NEW t \in Thread, Resume(t)
        PROVE  KeepsBegun
    <2>1. t \in Caller
      BY DEF Caller
    <2>2. PICK a \in Agent :
             call' = [call EXCEPT ![t] =
                         [Idle EXCEPT !.op = "resume", !.agent = a,
                                      !.at = "push", !.task = suspended[a]]]
      BY <1>9 DEF Resume
    <2> DEFINE x == [Idle EXCEPT !.op = "resume", !.agent = a,
                                 !.at = "push", !.task = suspended[a]]
    <2>3. Keeps(x)
      BY DEF Keeps, Idle
    <2> HIDE DEF x
    <2>4. QED  BY <2>1, <2>2, <2>3 DEF KeepsBegun, x
  <1>10. ASSUME NEW c \in Caller, Take(c)
         PROVE  KeepsBegun
    <2> DEFINE a == call[c].agent
               t == IF call[c].op = "suspend" THEN running[a] ELSE None
    <2>1. a \in Agent
      BY <1>1, <1>10 DEF Take, At, Fits
    <2>2. CASE call' = [call EXCEPT ![c].at = "unhandle", ![c].task = t]
      <3> DEFINE x == [call[c] EXCEPT !.at = "unhandle", !.task = t]
      <3>1. t # None => t \in Begun
        BY <2>1 DEF BegunInv
      <3> HIDE DEF t
      <3>2. x.task = t
        BY <1>1 DEF Fits, Calls
      <3>3. Keeps(x)
        BY <3>1, <3>2 DEF Keeps
      <3>4. call' = [call EXCEPT ![c] = x]
        BY <2>2
      <3> HIDE DEF x
      <3>5. QED  BY <3>3, <3>4 DEF KeepsBegun
    <2>3. QED  BY <1>2, <1>3, <1>10, <2>2 DEF Take
  <1>11. ASSUME NEW c \in Caller, Unhandle(c)
         PROVE  KeepsBegun
    <2> DEFINE h == handles[call[c].agent]
               x == [call[c] EXCEPT !.at = "stop", !.handle = h]
    <2>1. Keeps(x)
      BY <1>1 DEF Keeps, Fits, Calls
    <2>2. CASE call' = [call EXCEPT ![c].at = "stop", ![c].handle = h]
      <3>1. call' = [call EXCEPT ![c] = x]
        BY <2>2
      <3> HIDE DEF x
      <3>2. QED  BY <2>1, <3>1 DEF KeepsBegun
    <2>3. QED  BY <1>5, <1>11, <2>2 DEF Unhandle
  <1>12. ASSUME NEW c \in Caller,
                \/ PushNew(c) \/ Lookup(c) \/ Requeue(c) \/ SendTerminate(c)
                \/ Suspend(c) \/ Restore(c) \/ Unqueue(c)
         PROVE  KeepsBegun
    BY <1>2, <1>3, <1>5, <1>12
       DEF PushNew, Lookup, Requeue, SendTerminate, Suspend, Restore, Unqueue
  <1>13. QED
    BY <1>6, <1>7, <1>8, <1>9, <1>10, <1>11, <1>12 DEF Next, Shutdown, Step

LEMMA BegunStep ==
    ASSUME TypeInv, BegunInv, [Next]_vars
    PROVE  BegunInv'
  <1>1. Begun \subseteq Begun'
    BY BegunGrows
  <1>2. running \in [Agent -> Task \cup {None}] /\ DOMAIN call = Caller
    BY DEF TypeInv, TypeOK, CallInv
  <1>3. \A c \in Caller : call'[c].op = "suspend" /\ call'[c].task # None
                           => call'[c].task \in Begun'
    <2>1. KeepsBegun
      BY CallsKeepBegun
    <2>2. CASE call' = call
      BY <1>1, <2>2 DEF BegunInv
    <2>3. CASE \E c \in Caller : \E x :
                  Keeps(x) /\ call' = [call EXCEPT ![c] = x]
      BY <1>1, <1>2, <2>3 DEF BegunInv, Keeps
    <2>4. QED  BY <2>1, <2>2, <2>3 DEF KeepsBegun
  <1>4. CASE running' = running
    BY <1>1, <1>3, <1>4 DEF BegunInv
  <1>5. CASE \E a \in Agent : running' = [running EXCEPT ![a] = None]
    BY <1>1, <1>2, <1>3, <1>5 DEF BegunInv
  <1>6. CASE \E a \in Agent : \E i :
               /\ running' = [running EXCEPT ![a] = i]
               /\ i \in Begun'
    BY <1>1, <1>2, <1>3, <1>6 DEF BegunInv
  <1>7. CASE Allocate \/ UndoStart
    <2> DEFINE a == AgentOf(loop.task)
    <2>1. CASE a \in Agent
      <3>1. CASE Allocate
        <4>1. loop' = [loop EXCEPT !.at = "start"] /\ loop'.at = "start"
          BY <3>1 DEF Allocate, TypeInv, TypeOK
        <4>2. loop.task \in Begun'
          BY <4>1 DEF Begun, Allocating, TypeInv, TypeOK
        <4>3. QED  BY <1>6, <2>1, <3>1, <4>2 DEF Allocate
      <3>2. CASE UndoStart
        BY <1>5, <2>1, <3>2 DEF UndoStart
      <3>3. QED  BY <1>7, <3>1, <3>2
    <2>2. CASE a \notin Agent
      <3>1. running' = running
        BY <1>2, <1>7, <2>2 DEF Allocate, UndoStart
      <3>2. QED  BY <1>4, <3>1
    <2>3. QED  BY <2>1, <2>2
  <1>8. ASSUME NEW c \in Caller, Step(c)
        PROVE  BegunInv'
    <2>1. Fits(call[c])
      BY DEF TypeInv, CallInv
    <2>2. CASE Take(c)
      <3>1. call[c].agent \in Agent
        BY <2>1, <2>2 DEF Take, At, Fits
      <3>2. QED  BY <1>5, <2>2, <3>1 DEF Take
    <2>3. CASE Restore(c)
      <3>1. /\ call[c].agent \in Agent
            /\ call[c].op = "suspend" /\ call[c].task # None
        BY <2>1, <2>3 DEF Restore, At, Fits
      <3>2. call[c].task \in Begun'
        BY <1>1, <3>1 DEF BegunInv
      <3>3. QED  BY <1>6, <2>3, <3>1, <3>2 DEF Restore
    <2>4. CASE \/ PushNew(c) \/ Lookup(c) \/ Requeue(c) \/ Unhandle(c)
               \/ SendTerminate(c) \/ Suspend(c) \/ Unqueue(c)
      BY <1>4, <2>4
         DEF PushNew, Lookup, Requeue, Unhandle, SendTerminate, Suspend,
             Unqueue, agentVars
    <2>5. QED  BY <1>8, <2>2, <2>3, <2>4 DEF Step
  <1>9. CASE \/ Pop \/ StopLoop \/ PutBack \/ StoreHandle \/ SendStart
             \/ ReceiveStart \/ ReceiveTerminate \/ EndWhenDue \/ ProcessEnds
             \/ \E i \in Task : TimePasses(i)
             \/ Scan \/ Reap \/ BeginShutdown \/ Shutdown
             \/ \E t \in Thread : Invoke(t) \/ Resume(t)
             \/ UNCHANGED vars
    <2>1. running' = running
      BY <1>9
         DEF Pop, StopLoop, PutBack, StoreHandle, SendStart, ReceiveStart,
             ReceiveTerminate, EndWhenDue, ProcessEnds, EndExecution,
             TimePasses, Scan, Reap, BeginShutdown, Shutdown, ListRunning,
             StopListed, EndGraceful, EndShutdown, Invoke, Resume, agentVars,
             vars
    <2>2. QED  BY <1>4, <2>1
  <1>10. QED
    BY <1>7, <1>8, <1>9 DEF Next, SchedulerLoop

-----------------------------------------------------------------------------
(* The invariant.                                                            *)

IInv ==
    /\ TypeInv /\ RoomInv /\ PlaceInv /\ IndexInv
    /\ LimitInv /\ PoolInv /\ BegunInv

LEMMA InitInv == Init => IInv
  <1> SUFFICES ASSUME Init PROVE IInv
    OBVIOUS
  <1>1. TypeInv
    BY InitType
  <1>2. /\ IsFiniteSet({}) /\ Cardinality({}) = 0
    BY FS_EmptySet
  <1>3. Pushing = {} /\ Counted = {} /\ Allocating = {} /\ InHand = {}
    BY DEF Init, Pushing, At, Idle, Counted, Allocating, InHand
  <1>4. Number = {} /\ Len(issued) = 0
    BY DEF Init, Number
  <1>5. RoomInv /\ LimitInv
    BY <1>2, <1>3, <1>4, SchedulerAssumption DEF RoomInv, LimitInv, Init
  <1>6. PlaceInv /\ IndexInv
    BY <1>3, <1>4 DEF Init, PlaceInv, IndexInv
  <1>7. PoolInv
    BY <1>2, <1>3, SchedulerAssumption DEF Init, PoolInv
  <1>8. BegunInv
    BY DEF Init, BegunInv, Idle
  <1>9. QED  BY <1>1, <1>5, <1>6, <1>7, <1>8 DEF IInv

LEMMA StepKeepsInv == IInv /\ [Next]_vars => IInv'
  <1> SUFFICES ASSUME IInv, [Next]_vars PROVE IInv'
    OBVIOUS
  <1>0. BegunInv'
    BY BegunStep DEF IInv
  <1>1. TypeInv /\ RoomInv /\ PlaceInv /\ IndexInv /\ LimitInv /\ PoolInv
    BY DEF IInv
  <1>2. CASE Quiet
    <2>1. TypeInv'
      BY <1>1, <1>2, QuietType
    <2>2. /\ UNCHANGED <<issued, queue, members, allocated, running,
                         suspended, call, sent, gone, restored>>
          /\ loop'.task = loop.task
          /\ \/ loop' = loop
             \/ loop.at = "tick" /\ loop'.at = "stopped"
             \/ loop.at = "start" /\ loop'.at = "send"
      BY <1>1, <1>2, QuietFrame
    <2>3. RoomInv'
      BY <1>1, <2>2, RoomStays
    <2>4. PlaceInv' /\ IndexInv'
      BY <1>1, <2>2 DEF PlaceInv, IndexInv, InHand, Number, AgentOf
    <2>5. LimitInv' /\ PoolInv'
      BY <1>1, <2>2, OtherLimits
    <2>6. QED  BY <1>0, <2>1, <2>3, <2>4, <2>5 DEF IInv
  <1>3. CASE Pop \/ Allocate \/ PutBack \/ SendStart \/ UndoStart
    <2>1. issued' = issued /\ call' = call
      BY <1>3 DEF Pop, Allocate, PutBack, SendStart, UndoStart, queueVars
    <2>2. RoomInv'
      BY <1>1, <2>1, RoomStays
    <2>3. QED
      BY <1>0, <1>1, <1>3, <2>2, LoopType, LoopPlaces, LoopLimits DEF IInv
  <1>4. CASE \/ Reap \/ StopListed \/ EndShutdown
             \/ \E t \in Thread : Invoke(t) \/ Resume(t)
    <2>1. /\ TypeInv' /\ PlaceInv' /\ IndexInv'
          /\ UNCHANGED <<issued, loop, allocated, running, sent, restored>>
          /\ \/ call' = call
             \/ \E c \in Caller : \E x :
                   /\ Fits(x) /\ call' = [call EXCEPT ![c] = x]
                   /\ x.at = "push" => HasNumber
      BY <1>1, <1>4, BeginInv
    <2>2. RoomInv'
      BY <1>1, <2>1, RoomStays
    <2>3. LimitInv' /\ PoolInv'
      BY <1>1, <2>1, OtherLimits
    <2>4. QED  BY <1>0, <2>1, <2>2, <2>3 DEF IInv
  <1>5. ASSUME NEW c \in Caller, PushNew(c)
        PROVE  IInv'
    <2>1. Len(issued) < MaxTasks
      BY <1>1, <1>5, PushRoom
    <2>2. /\ TypeInv' /\ PlaceInv' /\ IndexInv'
          /\ Len(issued') = Len(issued) + 1
      BY <1>1, <1>5, <2>1, PushInv
    <2>3. RoomInv'
      BY <1>1, <1>5, <2>2, PushRoom
    <2>4. UNCHANGED <<loop, allocated, running, sent, restored>>
      BY <1>5 DEF PushNew, loopVars, agentVars, history
    <2>5. LimitInv' /\ PoolInv'
      BY <1>1, <2>4, OtherLimits
    <2>6. QED  BY <1>0, <2>2, <2>3, <2>5 DEF IInv
  <1>6. ASSUME NEW c \in Caller,
               \/ Lookup(c) \/ Requeue(c) \/ Take(c) \/ Unhandle(c)
               \/ SendTerminate(c) \/ Suspend(c) \/ Restore(c) \/ Unqueue(c)
        PROVE  IInv'
    <2>1. TypeInv' /\ PlaceInv' /\ IndexInv'
      BY <1>1, <1>6, StepInv
    <2>2. /\ UNCHANGED <<loop, allocated, sent>>
          /\ Len(issued') = Len(issued)
          /\ \/ UNCHANGED <<running, restored>>
             \/ \E a \in Agent : /\ running' = [running EXCEPT ![a] = None]
                                 /\ restored' = restored
             \/ \E a \in Agent : \E i \in Number :
                   /\ running' = [running EXCEPT ![a] = i]
                   /\ restored' = restored \cup {i}
      BY <1>1, <1>6, StepData
    <2>3. Onward(c)
      BY <1>1, <1>6, StepGoes
    <2>4. RoomInv'
      BY <1>1, <2>2, <2>3, RoomStays DEF Onward
    <2>5. LimitInv' /\ PoolInv'
      BY <1>1, <2>2, OtherLimits
    <2>6. QED  BY <1>0, <2>1, <2>4, <2>5 DEF IInv
  <1>7. CASE UNCHANGED vars
    <2>1. UNCHANGED <<up, issued, queue, members, loop, allocated, running,
                      suspended, handles, channel, executing, expired, failed,
                      stopping, call, sent, gone, restored>>
      BY <1>7 DEF vars, queueVars, loopVars, agentVars, taskVars, control,
                  history
    <2>2. TypeInv'
      BY <1>1, <2>1 DEF TypeInv, TypeOK, CallInv, KnownInv, Number, Fits, Calls
    <2>3. RoomInv'
      BY <1>1, <2>1, RoomStays
    <2>4. PlaceInv' /\ IndexInv'
      BY <1>1, <2>1 DEF PlaceInv, IndexInv, InHand, Number, AgentOf
    <2>5. LimitInv' /\ PoolInv'
      BY <1>1, <2>1, OtherLimits
    <2>6. QED  BY <1>0, <2>2, <2>3, <2>4, <2>5 DEF IInv
  <1>8. CASE Next
    <2>1. CASE SchedulerLoop
      BY <1>2, <1>3, <2>1 DEF SchedulerLoop, Quiet
    <2>2. CASE \/ ReceiveStart \/ ReceiveTerminate \/ EndWhenDue \/ ProcessEnds
               \/ \E i \in Task : TimePasses(i)
      BY <1>2, <2>2 DEF EndWhenDue, ProcessEnds, Quiet
    <2>3. CASE Scan \/ Reap \/ BeginShutdown \/ Shutdown
      BY <1>2, <1>4, <2>3 DEF Shutdown, Quiet
    <2>4. CASE \E t \in Thread : Invoke(t) \/ Resume(t)
      BY <1>4, <2>4
    <2>5. CASE \E c \in Caller : Step(c)
      BY <1>5, <1>6, <2>5 DEF Step
    <2>6. QED  BY <1>8, <2>1, <2>2, <2>3, <2>4, <2>5 DEF Next
  <1>9. QED  BY <1>7, <1>8

LEMMA Invariance == Spec => []IInv
  <1>1. Init => IInv
    BY InitInv
  <1>2. IInv /\ [Next]_vars => IInv'
    BY StepKeepsInv
  <1>3. QED  BY <1>1, <1>2, PTL DEF Spec

\* However often agents are scheduled again, and whatever the loops, the
\* callers and the shutdown do between two of its steps, every scheduling is at
\* exactly one place and the index names only agents that are queued.
THEOREM NoTaskIsLost == Spec => []TasksAreKept
  <1>1. IInv => TasksAreKept
    <2> SUFFICES ASSUME IInv PROVE TasksAreKept
      OBVIOUS
    <2>1. TypeOK /\ PlaceInv /\ IndexInv
      BY DEF IInv, TypeInv
    <2>2. /\ Places[1] = queue /\ Places[2] = InHand /\ Places[3] = sent
          /\ Places[4] = gone /\ DOMAIN Places = 1 .. 4
      BY DEF Places, InHand
    <2>3. \A k : k \in 1 .. 4 <=> k = 1 \/ k = 2 \/ k = 3 \/ k = 4
      OBVIOUS
    <2>4. UNION {Places[k] : k \in 1 .. 4}
             = queue \cup InHand \cup sent \cup gone
      <3>1. \A k \in 1 .. 4 :
               Places[k] \subseteq queue \cup InHand \cup sent \cup gone
        BY <2>2, <2>3
      <3>2. \A x \in queue \cup InHand \cup sent \cup gone :
               \E k \in 1 .. 4 : x \in Places[k]
        BY <2>2, <2>3
      <3>3. QED  BY <3>1, <3>2
    <2>5. \A j, k \in 1 .. 4 : j # k => Places[j] \intersect Places[k] = {}
      BY <2>1, <2>2, <2>3 DEF PlaceInv
    <2>6. EachTaskOnce
      BY <2>1, <2>4, <2>5 DEF EachTaskOnce, PlaceInv, Number
    <2>7. IndexedIsQueued
      BY <2>1 DEF IndexInv, IndexedIsQueued, Queued
    <2>8. QED  BY <2>1, <2>6, <2>7 DEF TasksAreKept
  <1>2. QED  BY <1>1, Invariance, PTL

\* A start keeps max_concurrent_agents and the pool, and whichever of its steps
\* fails, the pool holds nothing for a task that was not started, while what
\* agents run has its unit unless its start was undone.
THEOREM LimitsOfStarts == Spec => []StartsAreSound
  <1>1. IInv => StartsAreSound
    <2> SUFFICES ASSUME IInv PROVE StartsAreSound
      OBVIOUS
    <2>1. LimitInv /\ PoolInv
      BY DEF IInv
    <2>2. Counted = {a \in Running : running[a] \notin restored}
      BY DEF Counted, Running
    <2>3. RunningWithinLimit
      BY <2>1, <2>2 DEF LimitInv, RunningWithinLimit
    <2>4. \A a \in Running : running[a] \in allocated \cup gone
      BY <2>1 DEF IInv, BegunInv, Begun, PoolInv, Running
    <2>5. AllocationsAreUsed
      BY <2>1, <2>4 DEF PoolInv, AllocationsAreUsed
    <2>6. QED  BY <2>3, <2>5 DEF StartsAreSound
  <1>2. QED  BY <1>1, Invariance, PTL

\* Whatever runs between two steps of a start, no task is lost and no unit.
THEOREM TasksStaySound == Spec => []TasksAreSound
  BY NoTaskIsLost, LimitsOfStarts, PTL DEF TasksAreSound

-----------------------------------------------------------------------------
(* The pool of tasks.                                                        *)

\* A shutdown that has begun has closed the scheduler; before, nobody is listed.
UpInv == IF stopping.at = "up" THEN stopping.todo = {} ELSE ~up

LEMMA InitUp == Init => UpInv
  BY DEF Init, UpInv

\* What a step leaves of up and of the place of the shutdown.
LEMMA UpStep ==
    ASSUME TypeOK, UpInv, [Next]_vars
    PROVE  UpInv'
  <1>1. CASE \/ SchedulerLoop \/ ReceiveStart \/ ReceiveTerminate
             \/ EndWhenDue \/ ProcessEnds
             \/ \E i \in Task : TimePasses(i)
             \/ \E t \in Thread : Invoke(t) \/ Resume(t)
             \/ \E c \in Caller : Step(c)
    <2>1. up' = up /\ stopping' = stopping
      <3>1. CASE SchedulerLoop
        BY <3>1 DEF SchedulerLoop, Pop, StopLoop, Allocate, PutBack,
           StoreHandle, SendStart, UndoStart, control
      <3>2. CASE \/ ReceiveStart \/ ReceiveTerminate
                 \/ EndWhenDue \/ ProcessEnds
                 \/ \E i \in Task : TimePasses(i)
        BY <3>2 DEF ReceiveStart, ReceiveTerminate, EndWhenDue, ProcessEnds,
           EndExecution, TimePasses, control
      <3>3. CASE \E t \in Thread : Invoke(t) \/ Resume(t)
        BY <3>3 DEF Invoke, Resume, control
      <3>4. CASE \E c \in Caller : Step(c)
        BY <3>4 DEF Step, PushNew, Lookup, Requeue, Take, Unhandle,
           SendTerminate, Suspend, Restore, Unqueue, control
      <3>5. QED  BY <1>1, <3>1, <3>2, <3>3, <3>4
    <2>2. QED  BY <2>1 DEF UpInv
  <1>2. CASE Scan \/ Reap
    BY <1>2 DEF Scan, Reap, UpInv
  <1>3. CASE BeginShutdown
    BY <1>3 DEF BeginShutdown, UpInv, TypeOK
  <1>4. CASE Shutdown
    <2>1. up' = up /\ stopping.at # "up" /\ stopping'.at # "up"
      BY <1>4 DEF Shutdown, ListRunning, StopListed, EndGraceful, EndShutdown,
         TypeOK, UpInv
    <2>2. QED  BY <2>1 DEF UpInv
  <1>5. CASE UNCHANGED vars
    BY <1>5 DEF vars, control, UpInv
  <1>6. QED  BY <1>1, <1>2, <1>3, <1>4, <1>5 DEF Next

\* What the loop takes up, puts back, starts and lets go is a step of the pool.
LEMMA LoopImplementsPool ==
    ASSUME TypeInv, PlaceInv, PoolInv, SchedulerLoop
    PROVE  Pool!Next \/ UNCHANGED Pool!vars
  <1> USE DEF UnitBesides
  <1> DEFINE kept == allocated \intersect sent
  <1>1. /\ TypeOK /\ queue \subseteq Number /\ DOMAIN issued = Number
        /\ Len(issued) \in Nat
        /\ loop.at \in {"tick", "stopped"} => InHand = {}
        /\ loop.at \in {"allocate", "start", "send", "undo"} =>
              loop.task \in Number /\ InHand = {loop.task}
    <2>1. TypeOK /\ KnownInv
      BY DEF TypeInv
    <2>2. loop.at \in {"tick", "allocate", "start", "send", "undo", "stopped"}
      BY <2>1 DEF TypeOK
    <2>3. loop.at \notin {"tick", "stopped"} => loop.task \in Number
      BY <2>1 DEF KnownInv, PlaceInv, InHand
    <2>4. QED  BY <2>1, <2>2, <2>3, IssuedTypes DEF KnownInv, PlaceInv, InHand
  <1>10. kept = sent /\ kept' = sent' \intersect allocated'
    BY DEF PoolInv
  <1>2. CASE Pop
    <2>1. /\ First \in queue /\ \A j \in queue \ {First} : Before(First, j)
          /\ First # None /\ InHand = {} /\ First \in DOMAIN issued
      <3>1. queue # {} /\ InHand = {}
        BY <1>1, <1>2 DEF Pop
      <3>2. First \in queue /\ \A j \in queue \ {First} : Before(First, j)
        BY <1>1, <3>1, FirstIsQueued
      <3>3. First \in Number /\ None \notin Number
        BY <1>1, <3>2 DEF Number, None
      <3>4. QED  BY <1>1, <3>1, <3>2, <3>3
    <2>2. \A j \in queue \ {First} : Pool!Precedes(First, j)
      BY <2>1 DEF Before, Pool!Precedes
    <2>3. /\ up /\ queue' = queue \ {First}
          /\ UNCHANGED <<up, issued, sent, allocated>>
      BY <1>2 DEF Pop, TakeOut, control
    <2>4. \/ InHand' = {First} /\ gone' = gone
          \/ InHand' = InHand /\ gone' = gone \cup {First}
      BY <1>2, <2>1 DEF Pop, HoldNothing, InHand
    <2> HIDE DEF UnitBesides
    <2>5. Pool!TakeUp(First)
      BY <2>1, <2>2, <2>3, <2>4 DEF Pool!TakeUp
    <2>6. QED  BY <2>1, <2>5 DEF Pool!Next
  <1>3. CASE StopLoop \/ Allocate \/ StoreHandle
    <2>1. UNCHANGED <<up, issued, queue, sent, gone>> /\ loop'.task = loop.task
      BY <1>1, <1>3 DEF StopLoop, Allocate, StoreHandle, HoldNothing, control,
         history, queueVars, TypeInv, KnownInv, TypeOK
    <2>2. allocated' = allocated \/ Allocate
      BY <1>3 DEF StopLoop, StoreHandle
    <2>3. kept' = kept
      <3>1. CASE Allocate
        <4>1. loop.task \notin sent
          BY <1>1, <3>1 DEF Allocate, PlaceInv
        <4>2. QED  BY <2>1, <3>1, <4>1 DEF Allocate
      <3>2. QED  BY <2>1, <2>2, <3>1
    <2>4. QED  BY <2>1, <2>3 DEF Pool!vars, InHand
  <1>4. allocated = sent \cup Allocating /\ Cardinality(allocated) <= Capacity
    BY DEF PoolInv
  <1>5. CASE PutBack
    <2>1. InHand = {loop.task} /\ loop.task \in DOMAIN issued
      BY <1>1, <1>5 DEF PutBack
    <2>2. ~UnitBesides(kept)
      BY <1>4, <1>5, <1>10 DEF PutBack, HasResources, Allocating
    <2>3. /\ InHand' = {} /\ queue' = queue \cup {loop.task}
          /\ UNCHANGED <<up, issued, sent, gone, allocated>>
      BY <1>5 DEF PutBack, HoldNothing, InHand, Push, control, history
    <2>4. Pool!PutBack(loop.task)
      BY <2>1, <2>2, <2>3 DEF Pool!PutBack
    <2>5. QED  BY <2>1, <2>4 DEF Pool!Next
  <1>6. CASE SendStart
    <2>1. CASE HasRoom
      <3>1. InHand = {loop.task} /\ loop.task \in DOMAIN issued
        BY <1>1, <1>6 DEF SendStart
      <3>2. /\ InHand' = {} /\ sent' = sent \cup {loop.task}
            /\ UNCHANGED <<up, issued, queue, gone, allocated>>
        BY <1>6, <2>1 DEF SendStart, HoldNothing, InHand, control, queueVars
      <3>3. UnitBesides(kept)
        <4>1. loop.task \notin sent /\ allocated = sent \cup {loop.task}
          BY <1>4, <1>6, <3>1 DEF SendStart, Allocating, PlaceInv
        <4>2. IsFiniteSet(sent)
          <5>1. IsFiniteSet(Number)
            BY <1>1, FS_Interval DEF Number
          <5>2. QED  BY <5>1, FS_Subset DEF PlaceInv
        <4>3. /\ Cardinality(allocated) = Cardinality(sent) + 1
              /\ Cardinality(sent) \in Nat
          BY <4>1, <4>2, FS_AddElement, FS_CardinalityType
        <4>4. Cardinality(sent) < Capacity
          BY <1>4, <4>3, SchedulerAssumption
        <4> HIDE DEF kept
        <4>5. QED  BY <1>10, <4>4
      <3>4. kept' = kept \cup {loop.task}
        BY <1>4, <1>6, <3>2 DEF SendStart, Allocating
      <3>5. Pool!Start(loop.task)
        BY <3>1, <3>2, <3>3, <3>4 DEF Pool!Start
      <3>6. QED  BY <3>1, <3>5 DEF Pool!Next
    <2>2. CASE ~HasRoom
      <3>1. /\ UNCHANGED <<up, issued, queue, sent, gone, allocated>>
            /\ loop'.task = loop.task
        BY <1>6, <2>2 DEF SendStart, control, queueVars, TypeInv, TypeOK
      <3>2. QED  BY <3>1 DEF Pool!vars, InHand
    <2>3. QED  BY <2>1, <2>2
  <1>7. CASE UndoStart
    <2>1. InHand = {loop.task} /\ loop.task \in DOMAIN issued
      BY <1>1, <1>7 DEF UndoStart
    <2>2. /\ InHand' = {} /\ gone' = gone \cup {loop.task}
          /\ UNCHANGED <<up, issued, queue, sent>>
          /\ allocated' = allocated \ {loop.task}
      BY <1>7 DEF UndoStart, HoldNothing, InHand, queueVars, control
    <2>3. kept' = kept
      BY <2>1, <2>2 DEF PlaceInv
    <2>4. Pool!LetGo(loop.task)
      BY <2>1, <2>2, <2>3 DEF Pool!LetGo
    <2>5. QED  BY <2>1, <2>4 DEF Pool!Next
  <1>8. QED  BY <1>2, <1>3, <1>5, <1>6, <1>7 DEF SchedulerLoop

\* So is what the operations do: a push accepts a task, a look-up reschedules
\* one, and a removal from the queue lets it go.
LEMMA OperationImplementsPool ==
    ASSUME TypeInv, PlaceInv, NEW c \in Caller, Step(c)
    PROVE  Pool!Next \/ UNCHANGED Pool!vars
  <1>1. /\ Fits(call[c]) /\ TypeOK /\ issued \in Seq(Issue)
        /\ DOMAIN issued = Number /\ queue \subseteq Number
    BY IssuedTypes DEF TypeInv, CallInv, PlaceInv
  <1>2. CASE PushNew(c)
    <2>1. call[c].agent \in Agent
      BY <1>1, <1>2 DEF PushNew, At, Fits
    <2>2. PICK p \in Priority :
             issued' = Append(issued, [agent |-> call[c].agent, priority |-> p])
      <3>1. call[c].task # None => issued[call[c].task].priority \in Priority
        BY <1>1, IssuedTypes DEF Fits
      <3>2. QED  BY <1>2, <3>1 DEF PushNew
    <2>3. /\ queue' = queue \cup {Len(issued) + 1}
          /\ UNCHANGED <<up, loop, allocated, sent, gone>>
      BY <1>2 DEF PushNew, Push, loopVars, control, history
    <2>4. Pool!Accept
      BY <2>1, <2>2, <2>3 DEF Pool!Accept, InHand
    <2>5. QED  BY <2>4 DEF Pool!Next
  <1>3. CASE Lookup(c) \/ Requeue(c)
    <2>1. UNCHANGED <<up, queue, loop, allocated, sent, gone>>
      BY <1>3 DEF Lookup, Requeue, loopVars, control, history
    <2>2. issued' = issued \/ \E i \in DOMAIN issued : SetPriority(i)
      <3>1. CASE Lookup(c)
        <4>1. call[c].agent \in Agent
          BY <1>1, <3>1 DEF Lookup, At, Fits
        <4>2. running[call[c].agent] # None =>
                 running[call[c].agent] \in Number
          BY <4>1 DEF TypeInv, KnownInv
        <4>3. QED  BY <1>1, <3>1, <4>2 DEF Lookup
      <3>2. CASE Requeue(c)
        BY <1>1, <3>2 DEF Requeue, Queued
      <3>3. QED  BY <1>3, <3>1, <3>2
    <2>3. CASE issued' = issued
      BY <2>1, <2>3 DEF Pool!vars, InHand
    <2>4. CASE \E i \in DOMAIN issued : SetPriority(i)
      <3>1. Pool!Reschedule
        BY <2>1, <2>4 DEF Pool!Reschedule, SetPriority, InHand
      <3>2. QED  BY <3>1 DEF Pool!Next
    <2>5. QED  BY <2>2, <2>3, <2>4
  <1>4. CASE \/ Take(c) \/ Unhandle(c) \/ SendTerminate(c) \/ Suspend(c)
             \/ Restore(c)
    <2>1. UNCHANGED <<up, issued, queue, loop, allocated, sent, gone>>
      BY <1>4 DEF Take, Unhandle, SendTerminate, Suspend, Restore, queueVars,
         loopVars, control, history
    <2>2. QED  BY <2>1 DEF Pool!vars, InHand
  <1>5. CASE Unqueue(c)
    <2>1. UNCHANGED <<up, issued, loop, allocated, sent>>
      BY <1>5 DEF Unqueue, loopVars, control
    <2>2. \/ UNCHANGED <<queue, gone>>
          \/ \E i \in queue : queue' = queue \ {i} /\ gone' = gone \cup {i}
      BY <1>5 DEF Unqueue, Queued, TakeOut
    <2>3. CASE UNCHANGED <<queue, gone>>
      BY <2>1, <2>3 DEF Pool!vars, InHand
    <2>4. CASE \E i \in queue : queue' = queue \ {i} /\ gone' = gone \cup {i}
      <3>1. PICK i \in queue : queue' = queue \ {i} /\ gone' = gone \cup {i}
        BY <2>4
      <3>2. i \in DOMAIN issued /\ Pool!LetGo(i)
        BY <1>1, <2>1, <3>1 DEF Pool!LetGo, InHand
      <3>3. QED  BY <3>2 DEF Pool!Next
    <2>5. QED  BY <2>2, <2>3, <2>4
  <1>6. QED  BY <1>2, <1>3, <1>4, <1>5 DEF Step

LEMMA StepImplementsPool ==
    ASSUME IInv, UpInv, [Next]_vars
    PROVE  [Pool!Next]_(Pool!vars)
  <1>1. TypeInv /\ TypeOK /\ PlaceInv /\ PoolInv
    BY DEF IInv, TypeInv
  <1>2. CASE SchedulerLoop
    BY <1>1, <1>2, LoopImplementsPool
  <1>3. CASE \E c \in Caller : Step(c)
    BY <1>1, <1>3, OperationImplementsPool
  <1>4. CASE BeginShutdown
    <2>1. Pool!Close
      BY <1>4 DEF BeginShutdown, Pool!Close, InHand, queueVars, loopVars,
         history
    <2>2. QED  BY <2>1 DEF Pool!Next
  <1>5. CASE EndShutdown
    <2>1. ~up
      BY <1>5 DEF EndShutdown, UpInv
    <2>2. Pool!Clear
      BY <1>5, <2>1 DEF EndShutdown, Pool!Clear, InHand, loopVars
    <2>3. QED  BY <2>2 DEF Pool!Next
  <1>6. CASE \/ ReceiveStart \/ ReceiveTerminate \/ EndWhenDue \/ ProcessEnds
             \/ \E i \in Task : TimePasses(i)
             \/ Scan \/ Reap \/ ListRunning \/ StopListed \/ EndGraceful
             \/ \E t \in Thread : Invoke(t) \/ Resume(t)
             \/ UNCHANGED vars
    <2>1. UNCHANGED <<up, issued, queue, loop, allocated, sent, gone>>
      <3>1. CASE \/ ReceiveStart \/ ReceiveTerminate \/ EndWhenDue
                 \/ ProcessEnds \/ \E i \in Task : TimePasses(i)
        BY <3>1 DEF ReceiveStart, ReceiveTerminate, EndWhenDue, ProcessEnds,
           EndExecution, TimePasses, control, queueVars, loopVars, history
      <3>2. CASE Scan \/ Reap \/ ListRunning \/ StopListed \/ EndGraceful
        BY <3>2 DEF Scan, Reap, ListRunning, StopListed, EndGraceful,
           queueVars, loopVars, history
      <3>3. CASE \E t \in Thread : Invoke(t) \/ Resume(t)
        BY <3>3 DEF Invoke, Resume, control, queueVars, loopVars, history
      <3>4. CASE UNCHANGED vars
        BY <3>4 DEF vars, control, queueVars, loopVars, history
      <3>5. QED  BY <1>6, <3>1, <3>2, <3>3, <3>4
    <2>2. QED  BY <2>1 DEF Pool!vars, InHand
  <1>7. QED
    BY <1>2, <1>3, <1>4, <1>5, <1>6 DEF Next, Shutdown

\* Whatever callers, loops and the shutdown do at the same time, a task that
\* was accepted is taken up in the order of the heap, by one loop that holds one
\* at a time, is started once within the units of the pool or let go once, and
\* is not taken up after the shutdown has begun.
THEOREM SchedulerImplementsPool == Spec => ImplementsPool
  <1>1. Init => Pool!Init
    BY DEF Init, Pool!Init, InHand, None
  <1>2. IInv /\ UpInv /\ [Next]_vars => UpInv' /\ [Pool!Next]_(Pool!vars)
    <2>1. IInv => TypeOK
      BY DEF IInv, TypeInv
    <2>2. QED  BY <2>1, UpStep, StepImplementsPool
  <1>3. QED
    BY <1>1, <1>2, InitUp, Invariance, PTL DEF Spec, ImplementsPool, Pool!Spec
=============================================================================
