---------------------------- MODULE Records_proofs ----------------------------
(***************************************************************************)
(* The records a reasoning agent leaves, for any number of callers, steps, *)
(* writers and entries: its context and the file it is saved to, its saga  *)
(* and the checkpoint it resumes from, and its durable journal.            *)
(*                                                                         *)
(* The parts share no state, so each has an inductive invariant of its own,*)
(* and a step of one leaves the variables of the others alone.             *)
(***************************************************************************)
EXTENDS MCReasoning, ReasoningLoop_proofs

-----------------------------------------------------------------------------
(* The context of an agent.                                                  *)

CallRecord ==
    [op : {"none", "store", "retrieve", "update", "retention", "shutdown"},
     stage : Contexts!Stages, data : Contexts!Contexts,
     items : SUBSET Contexts!Item]

\* A call that holds the lock of contexts, to write them or to read them.
Writes(x) ==
    /\ x.op \in {"update", "retention"}
    /\ x.stage \in {"archive", "create", "write"}
Reads(x) == x.op = "shutdown" /\ x.stage \in {"create", "write"}

\* A shutdown that has still to save, or saves.
Finishes(x) == x.op = "shutdown" /\ x.stage \in {"save", "create", "write"}

StageOf(x) ==
    \/ x.op = "none" /\ x.stage \in {"idle", "ended"}
    \/ x.op = "store" /\ x.stage \in {"create", "write", "insert"}
    \/ x.op = "retrieve" /\ x.stage \in {"load", "insert", "retrieved"}
    \/ x.op = "update" /\ x.stage \in {"create", "write"}
    \/ x.op = "shutdown"
         /\ x.stage \in {"flag", "stop", "save", "create", "write"}
    \/ x.op = "retention"
         /\ x.stage \in {"checked", "archive", "create", "write"}

\* A context of a session has items that were made, and no fact of those that
\* are promised to memory is a memory item of it.
Sound(x) ==
    /\ Contexts!Items(x) \subseteq 1 .. made
    /\ x.memory \cap learned = {}
    /\ x.session = 0 => x = Contexts!NoContext

\* What the call x of w is about.  Under the lock it saves what is in memory.
SoundCall(w, x) ==
    /\ x \in CallRecord /\ StageOf(x) /\ Sound(x.data)
    /\ x.items \subseteq 1 .. made
    /\ IF w = Retention THEN x.op \in {"none", "retention"}
                        ELSE x.op # "retention"
    /\ Writes(x) \/ Reads(x) =>
         /\ cache # Contexts!NoContext
         /\ x.stage # "archive" =>
              x.data = cache /\ x.items \subseteq Contexts!Items(cache)
    /\ x.stage \in {"create", "write", "insert", "retrieved"} =>
         x.data # Contexts!NoContext
    /\ w = Retention /\ x.stage # "archive" => x.items = {}

CallsAreSound == \A w \in Contexts!Worker : SoundCall(w, operation[w])

\* One writer, or any number of readers.
LockInv ==
    \A v, w \in Contexts!Worker :
        Writes(operation[v]) =>
            ~Reads(operation[w]) /\ (Writes(operation[w]) => v = w)

StoreTypes ==
    /\ cache \in Contexts!Contexts /\ file \in Contexts!Contexts
    /\ torn \in BOOLEAN /\ flag \in BOOLEAN /\ ready \in BOOLEAN
    /\ made \in 0 .. MaxItems /\ sessions \in 0 .. MaxSessions
    /\ ops \in 0 .. MaxOps
    /\ faults \in 0 .. MaxAccidents /\ ends \in 0 .. MaxAccidents

ContextsAreSound ==
    /\ Sound(cache) /\ Sound(file)
    /\ owed \subseteq 1 .. made /\ learned \subseteq 1 .. made
    /\ archive \subseteq 1 .. made

\* Nothing is at work, and memory is lost, while the process is down.
DownInv ==
    ~ready => learned = {} /\ \A w \in Contexts!Worker :
                                  operation[w] = Contexts!Idle

\* An empty file is being written, or a shutdown will write it.
TornInv ==
    ready /\ torn /\ faults = 0 =>
        \/ \E w \in Contexts!Worker : operation[w].stage = "write"
        \/ /\ cache # Contexts!NoContext
           /\ \E c \in Client : Finishes(operation[c])

KeptInv ==
    /\ ~torn => owed \subseteq Contexts!Items(file) \cup archive
    /\ ready /\ cache # Contexts!NoContext =>
         owed \cup learned \subseteq Contexts!Items(cache) \cup archive
                                     \cup operation[Retention].items

ContextInv ==
    /\ StoreTypes /\ operation \in [Contexts!Worker -> CallRecord]
    /\ CallsAreSound /\ LockInv /\ ContextsAreSound
    /\ DownInv /\ TornInv /\ KeptInv

LEMMA ContextFields ==
    ASSUME NEW s \in 0 .. MaxSessions, NEW m \in SUBSET Contexts!Item,
           NEW f \in SUBSET Contexts!Item
    PROVE  /\ Contexts!Context(s, m, f) \in Contexts!Contexts
           /\ Contexts!Context(s, m, f).session = s
           /\ Contexts!Context(s, m, f).memory = m
           /\ Contexts!Context(s, m, f).facts = f
  BY DEF Contexts!Context, Contexts!Contexts

LEMMA NoContextFields ==
    ASSUME ReasoningAssumption
    PROVE  /\ Contexts!NoContext \in Contexts!Contexts
           /\ Contexts!NoContext.session = 0
           /\ Contexts!NoContext.memory = {} /\ Contexts!NoContext.facts = {}
           /\ Contexts!Items(Contexts!NoContext) = {}
           /\ Sound(Contexts!NoContext)
  <1>1. 0 \in 0 .. MaxSessions /\ {} \in SUBSET Contexts!Item
    BY DEF ReasoningAssumption
  <1>2. /\ Contexts!NoContext \in Contexts!Contexts
        /\ Contexts!NoContext.session = 0
        /\ Contexts!NoContext.memory = {} /\ Contexts!NoContext.facts = {}
    BY <1>1, ContextFields DEF Contexts!NoContext
  <1>3. QED  BY <1>2 DEF Contexts!Items, Sound

LEMMA WithoutFields ==
    ASSUME NEW x \in Contexts!Contexts, NEW gone, Sound(x)
    PROVE  /\ Contexts!Without(x, gone) \in Contexts!Contexts
           /\ Contexts!Without(x, gone).session = x.session
           /\ Contexts!Items(Contexts!Without(x, gone))
                = Contexts!Items(x) \ gone
           /\ Contexts!Without(x, gone).memory = x.memory \ gone
  <1>1. /\ x.session \in 0 .. MaxSessions
        /\ x.memory \subseteq Contexts!Item /\ x.facts \subseteq Contexts!Item
    BY DEF Contexts!Contexts
  <1>2. /\ Contexts!Without(x, gone) \in Contexts!Contexts
        /\ Contexts!Without(x, gone).session = x.session
        /\ Contexts!Without(x, gone).memory = x.memory \ gone
        /\ Contexts!Without(x, gone).facts = x.facts \ gone
    BY <1>1 DEF Contexts!Without, Contexts!Contexts
  <1>3. QED  BY <1>2 DEF Contexts!Items

\* Taking items away leaves a context sound, and a context.
LEMMA WithoutIsSound ==
    ASSUME ReasoningAssumption, NEW x \in Contexts!Contexts, NEW gone,
           Sound(x), x # Contexts!NoContext
    PROVE  /\ Sound(Contexts!Without(x, gone))
           /\ Contexts!Without(x, gone) # Contexts!NoContext
  <1>1. /\ Contexts!Without(x, gone).session = x.session
        /\ Contexts!Items(Contexts!Without(x, gone)) = Contexts!Items(x) \ gone
        /\ Contexts!Without(x, gone).memory = x.memory \ gone
    BY WithoutFields
  <1>2. x.session # 0
    BY DEF Sound
  <1>3. QED  BY <1>1, <1>2, NoContextFields DEF Sound

LEMMA CallFields ==
    ASSUME NEW op \in {"none", "store", "retrieve", "update", "retention",
                       "shutdown"},
           NEW stage \in Contexts!Stages, NEW data \in Contexts!Contexts,
           NEW items \in SUBSET Contexts!Item
    PROVE  /\ Contexts!Call(op, stage, data, items) \in CallRecord
           /\ Contexts!Call(op, stage, data, items).op = op
           /\ Contexts!Call(op, stage, data, items).stage = stage
           /\ Contexts!Call(op, stage, data, items).data = data
           /\ Contexts!Call(op, stage, data, items).items = items
  BY DEF Contexts!Call, CallRecord

\* A call that is over is about nothing.
LEMMA IdleIsSound ==
    ASSUME ReasoningAssumption
    PROVE  \A x \in {Contexts!Idle, Contexts!Ended} :
             /\ x.op = "none" /\ x.stage \in {"idle", "ended"} /\ x.items = {}
             /\ ~Writes(x) /\ ~Reads(x) /\ ~Finishes(x)
             /\ \A w : SoundCall(w, x)
  <1>1. SUFFICES ASSUME NEW x \in {Contexts!Idle, Contexts!Ended}
                 PROVE  /\ x.op = "none" /\ x.stage \in {"idle", "ended"}
                        /\ x.items = {} /\ x \in CallRecord
                        /\ x.data = Contexts!NoContext
    BY <1>1, NoContextFields DEF Writes, Reads, Finishes, SoundCall, StageOf
  <1>2. PICK stage \in {"idle", "ended"} :
          x = Contexts!Call("none", stage, Contexts!NoContext, {})
    BY DEF Contexts!Idle, Contexts!Ended
  <1>3. stage \in Contexts!Stages
    BY DEF Contexts!Stages
  <1>4. {} \in SUBSET Contexts!Item
    OBVIOUS
  <1>5. /\ x \in CallRecord /\ x.op = "none" /\ x.stage = stage
        /\ x.data = Contexts!NoContext /\ x.items = {}
    BY <1>2, <1>3, <1>4, NoContextFields, CallFields
  <1>6. QED  BY <1>5

\* What was said of a context and of a call still holds when items are made
\* and facts are forgotten.
LEMMA SoundStays ==
    ASSUME made \in Nat, made' \in {made, made + 1},
           learned' \cap (1 .. made) \subseteq learned,
           NEW x, Sound(x)
    PROVE  Sound(x)'
  <1>1. 1 .. made \subseteq 1 .. made'
    OBVIOUS
  <1>2. x.memory \subseteq Contexts!Items(x)
    BY DEF Contexts!Items
  <1>3. Contexts!Items(x)' = Contexts!Items(x)
    BY DEF Contexts!Items
  <1>4. Contexts!NoContext' = Contexts!NoContext
    BY DEF Contexts!NoContext, Contexts!Context
  <1>5. QED  BY <1>1, <1>2, <1>3, <1>4 DEF Sound

LEMMA SoundCallStays ==
    ASSUME made \in Nat, made' \in {made, made + 1},
           learned' \cap (1 .. made) \subseteq learned,
           NEW w, NEW x, SoundCall(w, x),
           cache' = cache \/ ~(Writes(x) \/ Reads(x))
    PROVE  SoundCall(w, x)'
  <1>1. Sound(x.data)'
    BY SoundStays DEF SoundCall
  <1>2. QED  BY <1>1 DEF SoundCall, StageOf, Writes, Reads

\* What a caller that finds the lock free knows of the other calls.
LEMMA LockMeaning ==
    ASSUME ReasoningAssumption, CallsAreSound
    PROVE  /\ Contexts!CanWrite => \A v \in Contexts!Worker :
                ~Writes(operation[v]) /\ ~Reads(operation[v])
           /\ Contexts!CanRead => \A v \in Contexts!Worker :
                ~Writes(operation[v])
  <1>1. Contexts!CanRead => \A v \in Contexts!Worker : ~Writes(operation[v])
    BY DEF Contexts!CanRead, Contexts!WriteHeld, Writes
  <1>2. Contexts!CanWrite => \A v \in Client : ~Reads(operation[v])
    BY DEF Contexts!CanWrite, Contexts!ReadHeld, Reads
  <1>3. Retention \in Contexts!Worker
    BY DEF Contexts!Worker
  <1>4. ~Reads(operation[Retention])
    BY <1>3 DEF CallsAreSound, SoundCall, Reads
  <1>5. Contexts!CanWrite => Contexts!CanRead
    BY DEF Contexts!CanWrite, Contexts!CanRead
  <1>6. \A v \in Contexts!Worker : v \in Client \/ v = Retention
    BY DEF Contexts!Worker
  <1>7. QED  BY <1>1, <1>2, <1>4, <1>5, <1>6

LEMMA LockStays ==
    ASSUME ReasoningAssumption, CallsAreSound, LockInv,
           operation \in [Contexts!Worker -> CallRecord],
           NEW w \in Contexts!Worker, NEW x,
           operation' = [operation EXCEPT ![w] = x],
           Writes(x) => Writes(operation[w]) \/ Contexts!CanWrite,
           Reads(x) => Reads(operation[w]) \/ Contexts!CanRead
    PROVE  LockInv'
  <1>1. /\ operation'[w] = x
        /\ \A v \in Contexts!Worker : v # w => operation'[v] = operation[v]
    OBVIOUS
  <1>2. \A v, u \in Contexts!Worker :
          Writes(operation[v]) =>
              ~Reads(operation[u]) /\ (Writes(operation[u]) => v = u)
    BY DEF LockInv
  <1>3. Writes(x) => \A v \in Contexts!Worker : v # w =>
          ~Writes(operation[v]) /\ ~Reads(operation[v])
    BY <1>2, LockMeaning
  <1>4. Reads(x) => \A v \in Contexts!Worker : v # w => ~Writes(operation[v])
    BY <1>2, LockMeaning
  <1>5. ~(Writes(x) /\ Reads(x))
    BY DEF Writes, Reads
  <1>6. \A v, u \in Contexts!Worker :
          Writes(operation'[v]) =>
              ~Reads(operation'[u]) /\ (Writes(operation'[u]) => v = u)
    <2>1. TAKE v, u \in Contexts!Worker
    <2>2. CASE v = w /\ u = w
      BY <1>1, <1>5, <2>2
    <2>3. CASE v = w /\ u # w
      BY <1>1, <1>3, <2>3
    <2>4. CASE v # w /\ u = w
      BY <1>1, <1>3, <1>4, <2>4
    <2>5. CASE v # w /\ u # w
      BY <1>1, <1>2, <2>5
    <2>6. QED  BY <2>2, <2>3, <2>4, <2>5
  <1>7. QED  BY <1>6 DEF LockInv, Writes, Reads

\* A step of one call, of whom only the new call and what it does to the
\* stores are left to be judged.
LEMMA CallStepKeepsContextInv ==
    ASSUME ReasoningAssumption, ContextInv, ready' = TRUE,
           NEW w \in Contexts!Worker, NEW x,
           operation' = [operation EXCEPT ![w] = x],
           SoundCall(w, x)',
           made' \in {made, made + 1},
           learned' \cap (1 .. made) \subseteq learned,
           cache' = cache \/ Contexts!CanWrite,
           Writes(x) => Writes(operation[w]) \/ Contexts!CanWrite,
           Reads(x) => Reads(operation[w]) \/ Contexts!CanRead,
           StoreTypes', ContextsAreSound', TornInv', KeptInv'
    PROVE  ContextInv'
  <1>1. /\ CallsAreSound /\ LockInv
        /\ operation \in [Contexts!Worker -> CallRecord]
        /\ made \in Nat
    BY DEF ContextInv, StoreTypes
  <1>2. LockInv'
    BY <1>1, LockStays
  <1>3. /\ operation'[w] = x
        /\ \A v \in Contexts!Worker : v # w => operation'[v] = operation[v]
    BY <1>1
  <1>4. x \in CallRecord
    BY DEF SoundCall, CallRecord
  <1>5. operation' \in [Contexts!Worker -> CallRecord]
    BY <1>1, <1>4
  <1>6. ASSUME NEW v \in Contexts!Worker PROVE SoundCall(v, operation[v])'
    <2>1. CASE v = w
      BY <1>3, <2>1
    <2>2. CASE v # w
      <3>1. PICK y : y = operation[v]
        OBVIOUS
      <3>2. SoundCall(v, y)
        BY <1>1, <3>1 DEF CallsAreSound
      <3>3. cache' = cache \/ ~(Writes(y) \/ Reads(y))
        BY <1>1, <3>1, LockMeaning
      <3>4. SoundCall(v, y)'
        BY <1>1, <3>2, <3>3, SoundCallStays
      <3>5. operation'[v] = y
        BY <1>3, <2>2, <3>1
      <3>6. QED  BY <3>4, <3>5
    <2>3. QED  BY <2>1, <2>2
  <1>7. CallsAreSound'
    <2>1. Contexts!Worker' = Contexts!Worker
      BY DEF Contexts!Worker
    <2>2. QED  BY <1>6, <2>1 DEF CallsAreSound
  <1>8. DownInv'
    BY DEF DownInv
  <1>9. CallRecord' = CallRecord /\ Contexts!Worker' = Contexts!Worker
    BY DEF CallRecord, Contexts!Worker
  <1>10. QED  BY <1>2, <1>5, <1>7, <1>8, <1>9 DEF ContextInv

LEMMA TornStays ==
    ASSUME ReasoningAssumption, ContextInv, ready = TRUE,
           NEW w \in Contexts!Worker, NEW x,
           operation' = [operation EXCEPT ![w] = x],
           operation[w].stage # "write",
           Finishes(operation[w]) /\ cache # Contexts!NoContext => Finishes(x),
           torn' = torn, faults' = faults,
           cache # Contexts!NoContext => cache' # Contexts!NoContext
    PROVE  TornInv'
  <1>1. TornInv /\ operation \in [Contexts!Worker -> CallRecord]
    BY DEF ContextInv
  <1>2. /\ operation'[w] = x
        /\ \A v \in Contexts!Worker : v # w => operation'[v] = operation[v]
    BY <1>1
  <1>3. \A v \in Contexts!Worker :
          operation[v].stage = "write" => operation'[v].stage = "write"
    BY <1>2
  <1>4. \A c \in Client : Finishes(operation[c]) /\ cache # Contexts!NoContext
                            => Finishes(operation'[c])
    BY <1>2 DEF Contexts!Worker
  <1>5. QED
    BY <1>1, <1>3, <1>4
    DEF TornInv, Contexts!Worker, Contexts!NoContext, Contexts!Context,
        Finishes

\* A step of one call that leaves memory and file as they are.
LEMMA QuietStepKeepsContextInv ==
    ASSUME ReasoningAssumption, ContextInv, ready = TRUE,
           NEW w \in Contexts!Worker, NEW x,
           operation' = [operation EXCEPT ![w] = x],
           SoundCall(w, x),
           UNCHANGED <<cache, file, torn, archive, ready, owed, learned, made,
                       faults>>,
           StoreTypes',
           operation[w].stage \notin {"write", "archive"},
           Finishes(operation[w]) /\ cache # Contexts!NoContext => Finishes(x),
           ~Writes(x), Reads(x) => Contexts!CanRead
    PROVE  ContextInv'
  <1>1. SoundCall(w, x)'
    BY DEF SoundCall, Sound
  <1>2. ContextsAreSound'
    BY DEF ContextInv, ContextsAreSound, Sound
  <1>3. TornInv'
    BY TornStays
  <1>4. operation'[Retention].items = operation[Retention].items
    <2>1. operation \in [Contexts!Worker -> CallRecord]
          /\ Retention \in Contexts!Worker
      BY DEF ContextInv, Contexts!Worker
    <2>2. CASE w = Retention
      <3>1. operation[w].items = {}
        BY <2>2 DEF ContextInv, CallsAreSound, SoundCall
      <3>2. x.stage # "archive"
        BY <2>2 DEF SoundCall, StageOf, Writes
      <3>3. x.items = {}
        BY <2>2, <3>2 DEF SoundCall
      <3>4. QED  BY <2>1, <2>2, <3>1, <3>3
    <2>3. CASE w # Retention
      BY <2>1, <2>3
    <2>4. QED  BY <2>2, <2>3
  <1>5. KeptInv'
    BY <1>4 DEF ContextInv, KeptInv
  <1>6. QED
    BY <1>1, <1>2, <1>3, <1>5, CallStepKeepsContextInv
    DEF ContextInv, StoreTypes

\* What is known of a call from where it is.
LEMMA CallFacts ==
    ASSUME ReasoningAssumption, ContextInv, NEW w \in Contexts!Worker
    PROVE  /\ operation[w] \in CallRecord /\ SoundCall(w, operation[w])
           /\ operation[w].data \in Contexts!Contexts
           /\ operation[w].items \subseteq Contexts!Item
           /\ operation[w].stage \in Contexts!Stages
           /\ operation[w] # Contexts!Idle => ready = TRUE
           /\ operation[w].op # "none" => ready = TRUE
           /\ operation[w].op # "retention" => w # Retention
                \/ operation[w].op = "none"
           /\ w # Retention => w \in Client
  <1>1. SoundCall(w, operation[w]) /\ operation[w] \in CallRecord
    BY DEF ContextInv, CallsAreSound
  <1>2. operation[w] # Contexts!Idle => ready = TRUE
    BY DEF ContextInv, DownInv, StoreTypes
  <1>3. Contexts!Idle.op = "none"
    BY IdleIsSound
  <1>4. QED
    BY <1>1, <1>2, <1>3 DEF CallRecord, SoundCall, Contexts!Worker

LEMMA ClientsAreWorkers ==
    ASSUME ReasoningAssumption
    PROVE  /\ \A c \in Client : c \in Contexts!Worker /\ c # Retention
           /\ Retention \in Contexts!Worker
  BY DEF ReasoningAssumption, Contexts!Worker

LEMMA BeginsFacts ==
    ASSUME ReasoningAssumption, ContextInv, NEW c \in Client,
           Contexts!Begins(c)
    PROVE  /\ ready = TRUE /\ operation[c] = Contexts!Idle
           /\ ops' \in 0 .. MaxOps
           /\ operation[c].stage \in {"idle", "ended"}
           /\ ~Finishes(operation[c])
  <1>1. ops \in 0 .. MaxOps /\ MaxOps \in Nat /\ ready \in BOOLEAN
    BY DEF ContextInv, StoreTypes, ReasoningAssumption
  <1>2. QED  BY <1>1, IdleIsSound DEF Contexts!Begins

LEMMA CreateSessionKeepsContextInv ==
    ASSUME ReasoningAssumption, ContextInv, NEW c \in Client,
           Contexts!CreateSession(c)
    PROVE  ContextInv'
  <1>1. /\ Contexts!Begins(c)
        /\ sessions < MaxSessions /\ sessions' = sessions + 1
        /\ operation' =
             [operation EXCEPT ![c] =
                  Contexts!Call("store", "create",
                                Contexts!Context(sessions + 1, {}, {}), {})]
        /\ UNCHANGED <<cache, file, torn, archive, flag, ready, owed, learned,
                       made, faults, ends>>
    BY DEF Contexts!CreateSession, Contexts!Goes, Contexts!store,
       Contexts!promises, Contexts!accidents
  <1>2. c \in Contexts!Worker /\ c # Retention
    BY ClientsAreWorkers
  <1>3. sessions \in 0 .. MaxSessions /\ MaxSessions \in Nat
    BY DEF ContextInv, StoreTypes, ReasoningAssumption
  <1>4. {} \in SUBSET Contexts!Item /\ "create" \in Contexts!Stages
    BY DEF Contexts!Stages
  <1>5. PICK n \in 0 .. MaxSessions : n = sessions + 1 /\ n # 0
    BY <1>1, <1>3
  <1>6. PICK d \in Contexts!Contexts : d = Contexts!Context(n, {}, {})
    BY <1>4, ContextFields
  <1>7. d.session = n /\ d.memory = {} /\ d.facts = {}
    BY <1>4, <1>6, ContextFields
  <1>8. Sound(d) /\ d # Contexts!NoContext
    BY <1>5, <1>7, NoContextFields DEF Sound, Contexts!Items
  <1>9. PICK x : x = Contexts!Call("store", "create", d, {})
    OBVIOUS
  <1>10. /\ x \in CallRecord /\ x.op = "store" /\ x.stage = "create"
         /\ x.data = d /\ x.items = {}
    BY <1>4, <1>9, CallFields
  <1>11. SoundCall(c, x) /\ ~Writes(x) /\ ~Reads(x)
    BY <1>2, <1>8, <1>10 DEF SoundCall, StageOf, Writes, Reads
  <1>12. StoreTypes'
    <2>1. sessions' \in 0 .. MaxSessions
      BY <1>1, <1>3
    <2>2. ops' \in 0 .. MaxOps
      BY <1>1, BeginsFacts
    <2>3. QED  BY <1>1, <2>1, <2>2 DEF ContextInv, StoreTypes
  <1>13. operation' = [operation EXCEPT ![c] = x]
    BY <1>1, <1>5, <1>6, <1>9
  <1>14. QED
    BY <1>1, <1>2, <1>11, <1>12, <1>13, BeginsFacts, QuietStepKeepsContextInv

LEMMA RetrieveKeepsContextInv ==
    ASSUME ReasoningAssumption, ContextInv, NEW c \in Client,
           Contexts!Retrieve(c)
    PROVE  ContextInv'
  <1>1. /\ Contexts!Begins(c)
        /\ UNCHANGED <<cache, file, torn, archive, flag, ready, owed, learned,
                       made, sessions, faults, ends>>
    BY DEF Contexts!Retrieve, Contexts!store, Contexts!promises,
       Contexts!accidents
  <1>2. PICK n \in 0 .. sessions :
          operation' = [operation EXCEPT ![c] =
            IF Contexts!Fits(cache, n)
            THEN Contexts!Call("retrieve", "retrieved", cache, {})
            ELSE Contexts!Call("retrieve", "load",
                               Contexts!Context(n, {}, {}), {})]
    BY DEF Contexts!Retrieve, Contexts!Goes
  <1>3. c \in Contexts!Worker /\ c # Retention
    BY ClientsAreWorkers
  <1>4. /\ sessions \in 0 .. MaxSessions /\ MaxSessions \in Nat
        /\ cache \in Contexts!Contexts /\ Sound(cache)
    BY DEF ContextInv, StoreTypes, ContextsAreSound, ReasoningAssumption
  <1>5. {} \in SUBSET Contexts!Item /\ "load" \in Contexts!Stages
        /\ "retrieved" \in Contexts!Stages /\ n \in 0 .. MaxSessions
    BY <1>4 DEF Contexts!Stages
  <1>6. PICK stage \in {"retrieved", "load"}, d \in Contexts!Contexts :
          /\ operation' = [operation EXCEPT ![c] =
                             Contexts!Call("retrieve", stage, d, {})]
          /\ Sound(d)
          /\ stage = "retrieved" => d # Contexts!NoContext
    <2>1. CASE Contexts!Fits(cache, n)
      BY <1>2, <1>4, <2>1 DEF Contexts!Fits
    <2>2. CASE ~Contexts!Fits(cache, n)
      <3>1. PICK d \in Contexts!Contexts : d = Contexts!Context(n, {}, {})
        BY <1>5, ContextFields
      <3>2. d.session = n /\ d.memory = {} /\ d.facts = {}
        BY <1>5, <3>1, ContextFields
      <3>3. d.session = 0 => d = Contexts!NoContext
        BY <3>1, <3>2 DEF Contexts!NoContext
      <3>4. Sound(d)
        BY <3>2, <3>3 DEF Sound, Contexts!Items
      <3>5. operation' = [operation EXCEPT ![c] =
                            Contexts!Call("retrieve", "load", d, {})]
        BY <1>2, <2>2, <3>1
      <3>6. QED  BY <3>4, <3>5
    <2>3. QED  BY <2>1, <2>2
  <1>7. PICK x : x = Contexts!Call("retrieve", stage, d, {})
    OBVIOUS
  <1>8. /\ x \in CallRecord /\ x.op = "retrieve" /\ x.stage = stage
        /\ x.data = d /\ x.items = {}
    BY <1>5, <1>7, CallFields
  <1>9. SoundCall(c, x) /\ ~Writes(x) /\ ~Reads(x)
    BY <1>3, <1>6, <1>8 DEF SoundCall, StageOf, Writes, Reads
  <1>10. StoreTypes'
    BY <1>1, BeginsFacts DEF ContextInv, StoreTypes
  <1>11. operation' = [operation EXCEPT ![c] = x]
    BY <1>6, <1>7
  <1>12. QED
    BY <1>1, <1>3, <1>9, <1>10, <1>11, BeginsFacts, QuietStepKeepsContextInv

LEMMA LoadKeepsContextInv ==
    ASSUME ReasoningAssumption, ContextInv, NEW c \in Client,
           Contexts!Load(c)
    PROVE  ContextInv'
  <1>1. /\ operation[c].stage = "load"
        /\ operation' = [operation EXCEPT ![c] =
             IF ~torn /\ Contexts!Fits(file, operation[c].data.session)
             THEN Contexts!Call("retrieve", "insert", file, {})
             ELSE Contexts!Idle]
        /\ UNCHANGED <<cache, file, torn, archive, flag, ready, owed, learned,
                       made, sessions, ops, faults, ends>>
    BY DEF Contexts!Load, Contexts!Goes, Contexts!store, Contexts!promises,
       Contexts!accidents, Contexts!inputs
  <1>2. c \in Contexts!Worker /\ c # Retention
    BY ClientsAreWorkers
  <1>3. file \in Contexts!Contexts /\ Sound(file)
    BY DEF ContextInv, StoreTypes, ContextsAreSound
  <1>4. {} \in SUBSET Contexts!Item /\ "insert" \in Contexts!Stages
    BY DEF Contexts!Stages
  <1>5. PICK x : operation' = [operation EXCEPT ![c] = x]
                 /\ SoundCall(c, x) /\ ~Writes(x) /\ ~Reads(x)
    <2>1. CASE ~torn /\ Contexts!Fits(file, operation[c].data.session)
      <3>1. PICK x : x = Contexts!Call("retrieve", "insert", file, {})
        OBVIOUS
      <3>2. /\ x \in CallRecord /\ x.op = "retrieve" /\ x.stage = "insert"
            /\ x.data = file /\ x.items = {}
        BY <1>3, <1>4, <3>1, CallFields
      <3>3. file # Contexts!NoContext
        BY <2>1 DEF Contexts!Fits
      <3>4. SoundCall(c, x) /\ ~Writes(x) /\ ~Reads(x)
        BY <1>2, <1>3, <3>2, <3>3 DEF SoundCall, StageOf, Writes, Reads
      <3>5. QED  BY <1>1, <2>1, <3>1, <3>4
    <2>2. CASE ~(~torn /\ Contexts!Fits(file, operation[c].data.session))
      BY <1>1, <2>2, IdleIsSound
    <2>3. QED  BY <2>1, <2>2
  <1>6. StoreTypes'
    BY <1>1 DEF ContextInv, StoreTypes
  <1>7. ready = TRUE /\ operation[c].op = "retrieve"
    <2>1. SoundCall(c, operation[c])
      BY <1>2, CallFacts
    <2>2. operation[c].op = "retrieve"
      BY <1>1, <2>1 DEF SoundCall, StageOf
    <2>3. QED  BY <1>2, <2>2, CallFacts
  <1>8. ~Finishes(operation[c])
    BY <1>7 DEF Finishes
  <1>9. QED
    BY <1>1, <1>2, <1>5, <1>6, <1>7, <1>8, QuietStepKeepsContextInv

LEMMA ReuseKeepsContextInv ==
    ASSUME ReasoningAssumption, ContextInv, NEW c \in Client,
           Contexts!Reuse(c)
    PROVE  ContextInv'
  <1>1. /\ operation[c].stage = "retrieved"
        /\ UNCHANGED <<cache, file, torn, archive, flag, ready, owed, learned,
                       made, sessions, ops, faults, ends>>
    BY DEF Contexts!Reuse, Contexts!store, Contexts!promises,
       Contexts!accidents, Contexts!inputs
  <1>2. c \in Contexts!Worker /\ c # Retention
    BY ClientsAreWorkers
  <1>3. /\ operation[c].data \in Contexts!Contexts /\ Sound(operation[c].data)
        /\ operation[c].data # Contexts!NoContext
        /\ operation[c].op = "retrieve"
    <2>1. SoundCall(c, operation[c]) /\ operation[c].data \in Contexts!Contexts
      BY <1>2, CallFacts
    <2>2. QED  BY <1>1, <2>1 DEF SoundCall, StageOf
  <1>4. {} \in SUBSET Contexts!Item /\ "create" \in Contexts!Stages
    BY DEF Contexts!Stages
  <1>5. PICK x : operation' = [operation EXCEPT ![c] = x]
                 /\ SoundCall(c, x) /\ ~Writes(x) /\ ~Reads(x)
    <2>1. CASE Contexts!Goes(c, Contexts!Idle)
      BY <2>1, IdleIsSound DEF Contexts!Goes
    <2>2. ASSUME NEW gone \in SUBSET Contexts!Items(operation[c].data),
                 Contexts!Goes(c, Contexts!Call("store", "create",
                     Contexts!Without(operation[c].data, gone), {}))
          PROVE  \E x : operation' = [operation EXCEPT ![c] = x]
                        /\ SoundCall(c, x) /\ ~Writes(x) /\ ~Reads(x)
      <3>1. PICK d : d = Contexts!Without(operation[c].data, gone)
        OBVIOUS
      <3>2. d \in Contexts!Contexts /\ Sound(d) /\ d # Contexts!NoContext
        BY <1>3, <3>1, WithoutFields, WithoutIsSound
      <3>3. PICK x : x = Contexts!Call("store", "create", d, {})
        OBVIOUS
      <3>4. /\ x \in CallRecord /\ x.op = "store" /\ x.stage = "create"
            /\ x.data = d /\ x.items = {}
        BY <1>4, <3>2, <3>3, CallFields
      <3>5. SoundCall(c, x) /\ ~Writes(x) /\ ~Reads(x)
        BY <1>2, <3>2, <3>4 DEF SoundCall, StageOf, Writes, Reads
      <3>6. QED  BY <2>2, <3>1, <3>3, <3>5 DEF Contexts!Goes
    <2>3. QED  BY <2>1, <2>2 DEF Contexts!Reuse
  <1>6. StoreTypes'
    BY <1>1 DEF ContextInv, StoreTypes
  <1>7. ready = TRUE
    BY <1>2, <1>3, CallFacts
  <1>8. ~Finishes(operation[c])
    BY <1>3 DEF Finishes
  <1>9. QED
    BY <1>1, <1>2, <1>5, <1>6, <1>7, <1>8, QuietStepKeepsContextInv

LEMMA TickKeepsContextInv ==
    ASSUME ReasoningAssumption, ContextInv, Contexts!Tick
    PROVE  ContextInv'
  <1>1. /\ ready /\ operation[Retention] = Contexts!Idle
        /\ operation' = [operation EXCEPT ![Retention] =
             IF flag THEN Contexts!Ended
             ELSE Contexts!Call("retention", "checked", cache, {})]
        /\ UNCHANGED <<cache, file, torn, archive, flag, ready, owed, learned,
                       made, sessions, ops, faults, ends>>
    BY DEF Contexts!Tick, Contexts!Goes, Contexts!store, Contexts!promises,
       Contexts!accidents, Contexts!inputs
  <1>2. Retention \in Contexts!Worker
    BY ClientsAreWorkers
  <1>3. cache \in Contexts!Contexts /\ Sound(cache)
    BY DEF ContextInv, StoreTypes, ContextsAreSound
  <1>4. {} \in SUBSET Contexts!Item /\ "checked" \in Contexts!Stages
    BY DEF Contexts!Stages
  <1>5. PICK x : operation' = [operation EXCEPT ![Retention] = x]
                 /\ SoundCall(Retention, x) /\ ~Writes(x) /\ ~Reads(x)
    <2>1. CASE ~flag
      <3>1. PICK x : x = Contexts!Call("retention", "checked", cache, {})
        OBVIOUS
      <3>2. /\ x \in CallRecord /\ x.op = "retention" /\ x.stage = "checked"
            /\ x.data = cache /\ x.items = {}
        BY <1>3, <1>4, <3>1, CallFields
      <3>3. SoundCall(Retention, x) /\ ~Writes(x) /\ ~Reads(x)
        BY <1>3, <3>2 DEF SoundCall, StageOf, Writes, Reads
      <3>4. QED  BY <1>1, <2>1, <3>1, <3>3
    <2>2. CASE flag
      BY <1>1, <2>2, IdleIsSound
    <2>3. QED  BY <2>1, <2>2
  <1>6. StoreTypes' /\ ready = TRUE
    BY <1>1 DEF ContextInv, StoreTypes
  <1>7. operation[Retention].stage \notin {"write", "archive"}
        /\ ~Finishes(operation[Retention])
    BY <1>1, IdleIsSound
  <1>8. QED
    BY <1>1, <1>2, <1>5, <1>6, <1>7, QuietStepKeepsContextInv

LEMMA ShutdownKeepsContextInv ==
    ASSUME ReasoningAssumption, ContextInv, NEW c \in Client,
           Contexts!Shutdown(c)
    PROVE  ContextInv'
  <1>1. /\ Contexts!Begins(c)
        /\ operation' = [operation EXCEPT ![c] =
             Contexts!Call("shutdown", "flag", Contexts!NoContext, {})]
        /\ UNCHANGED <<cache, file, torn, archive, flag, ready, owed, learned,
                       made, sessions, faults, ends>>
    BY DEF Contexts!Shutdown, Contexts!Goes, Contexts!store,
       Contexts!promises, Contexts!accidents
  <1>2. c \in Contexts!Worker /\ c # Retention
    BY ClientsAreWorkers
  <1>3. {} \in SUBSET Contexts!Item /\ "flag" \in Contexts!Stages
    BY DEF Contexts!Stages
  <1>4. PICK x : x = Contexts!Call("shutdown", "flag", Contexts!NoContext, {})
    OBVIOUS
  <1>5. /\ x \in CallRecord /\ x.op = "shutdown" /\ x.stage = "flag"
        /\ x.data = Contexts!NoContext /\ x.items = {}
    BY <1>3, <1>4, CallFields, NoContextFields
  <1>6. SoundCall(c, x) /\ ~Writes(x) /\ ~Reads(x)
    BY <1>2, <1>5, NoContextFields DEF SoundCall, StageOf, Writes, Reads
  <1>7. StoreTypes'
    BY <1>1, BeginsFacts DEF ContextInv, StoreTypes
  <1>8. QED
    BY <1>1, <1>2, <1>4, <1>6, <1>7, BeginsFacts, QuietStepKeepsContextInv

LEMMA SetFlagKeepsContextInv ==
    ASSUME ReasoningAssumption, ContextInv, NEW c \in Client,
           Contexts!SetFlag(c)
    PROVE  ContextInv'
  <1>1. /\ operation[c].op = "shutdown" /\ operation[c].stage = "flag"
        /\ flag' = TRUE
        /\ operation' = [operation EXCEPT ![c] =
                           [operation[c] EXCEPT !.stage = "stop"]]
        /\ UNCHANGED <<cache, file, torn, archive, ready, owed, learned,
                       made, sessions, ops, faults, ends>>
    BY DEF Contexts!SetFlag, Contexts!At, Contexts!Goes, Contexts!store,
       Contexts!promises, Contexts!accidents, Contexts!inputs
  <1>2. c \in Contexts!Worker /\ c # Retention
    BY ClientsAreWorkers
  <1>3. SoundCall(c, operation[c]) /\ operation[c] \in CallRecord
        /\ ready = TRUE
    BY <1>1, <1>2, CallFacts
  <1>4. PICK x : x = [operation[c] EXCEPT !.stage = "stop"]
    OBVIOUS
  <1>5. "stop" \in Contexts!Stages
    BY DEF Contexts!Stages
  <1>6. /\ x \in CallRecord /\ x.op = "shutdown" /\ x.stage = "stop"
        /\ x.data = operation[c].data /\ x.items = operation[c].items
    BY <1>1, <1>3, <1>4, <1>5 DEF CallRecord
  <1>7. SoundCall(c, x) /\ ~Writes(x) /\ ~Reads(x)
    BY <1>2, <1>3, <1>6 DEF SoundCall, StageOf, Writes, Reads
  <1>8. StoreTypes'
    BY <1>1 DEF ContextInv, StoreTypes
  <1>9. ~Finishes(operation[c])
    BY <1>1 DEF Finishes
  <1>10. QED
    BY <1>1, <1>2, <1>3, <1>4, <1>7, <1>8, <1>9, QuietStepKeepsContextInv

LEMMA SaveAllKeepsContextInv ==
    ASSUME ReasoningAssumption, ContextInv, NEW c \in Client,
           Contexts!SaveAll(c)
    PROVE  ContextInv'
  <1>1. /\ operation[c].op = "shutdown" /\ operation[c].stage = "save"
        /\ Contexts!CanRead
        /\ operation' = [operation EXCEPT ![c] =
             IF cache = Contexts!NoContext THEN Contexts!Idle
             ELSE Contexts!Call("shutdown", "create", cache, {})]
        /\ UNCHANGED <<cache, file, torn, archive, flag, ready, owed, learned,
                       made, sessions, ops, faults, ends>>
    BY DEF Contexts!SaveAll, Contexts!At, Contexts!Goes, Contexts!store,
       Contexts!promises, Contexts!accidents, Contexts!inputs
  <1>2. c \in Contexts!Worker /\ c # Retention
    BY ClientsAreWorkers
  <1>3. ready = TRUE
    BY <1>1, <1>2, CallFacts
  <1>4. cache \in Contexts!Contexts /\ Sound(cache)
    BY DEF ContextInv, StoreTypes, ContextsAreSound
  <1>5. {} \in SUBSET Contexts!Item /\ "create" \in Contexts!Stages
    BY DEF Contexts!Stages
  <1>6. PICK x : /\ operation' = [operation EXCEPT ![c] = x]
                 /\ SoundCall(c, x) /\ ~Writes(x)
                 /\ cache # Contexts!NoContext => Finishes(x)
    <2>1. CASE cache = Contexts!NoContext
      BY <1>1, <2>1, IdleIsSound
    <2>2. CASE cache # Contexts!NoContext
      <3>1. PICK x : x = Contexts!Call("shutdown", "create", cache, {})
        OBVIOUS
      <3>2. /\ x \in CallRecord /\ x.op = "shutdown" /\ x.stage = "create"
            /\ x.data = cache /\ x.items = {}
        BY <1>4, <1>5, <3>1, CallFields
      <3>3. SoundCall(c, x) /\ ~Writes(x) /\ Finishes(x)
        BY <1>2, <1>4, <2>2, <3>2
        DEF SoundCall, StageOf, Writes, Reads, Finishes
      <3>4. QED  BY <1>1, <2>2, <3>1, <3>3
    <2>3. QED  BY <2>1, <2>2
  <1>7. StoreTypes'
    BY <1>1 DEF ContextInv, StoreTypes
  <1>8. QED
    BY <1>1, <1>2, <1>3, <1>6, <1>7, QuietStepKeepsContextInv

\* A file operation that fails is counted.
LEMMA FailsFacts ==
    ASSUME ReasoningAssumption, ContextInv, Contexts!Fails
    PROVE  faults' \in 0 .. MaxAccidents /\ faults' # 0
  <1>1. /\ faults \in 0 .. MaxAccidents /\ ends \in 0 .. MaxAccidents
        /\ MaxAccidents \in Nat
    BY DEF ContextInv, StoreTypes, ReasoningAssumption
  <1>2. QED  BY <1>1 DEF Contexts!Fails

LEMMA CreateFileKeepsContextInv ==
    ASSUME ReasoningAssumption, ContextInv, NEW w \in Contexts!Worker,
           Contexts!CreateFile(w)
    PROVE  ContextInv'
  <1>1. /\ operation[w].stage = "create"
        /\ UNCHANGED <<cache, file, archive, flag, ready, owed, learned,
                       made, sessions, ops, ends>>
    BY DEF Contexts!CreateFile, Contexts!promises, Contexts!inputs
  <1>2. SoundCall(w, operation[w]) /\ operation[w] \in CallRecord
    BY CallFacts
  <1>3. ready = TRUE
    BY <1>1, <1>2, CallFacts DEF SoundCall, StageOf
  <1>4. PICK x : /\ operation' = [operation EXCEPT ![w] = x]
                 /\ SoundCall(w, x)
                 /\ Writes(x) => Writes(operation[w])
                 /\ Reads(x) => Reads(operation[w])
                 /\ w = Retention => x.items = {}
                 /\ \/ torn' = TRUE /\ faults' = faults /\ x.stage = "write"
                    \/ Contexts!Fails /\ torn' = torn
    <2>1. CASE Contexts!Goes(w, [operation[w] EXCEPT !.stage = "write"])
               /\ torn' = TRUE /\ faults' = faults
      <3>1. PICK x : x = [operation[w] EXCEPT !.stage = "write"]
        OBVIOUS
      <3>2. "write" \in Contexts!Stages
        BY DEF Contexts!Stages
      <3>3. /\ x \in CallRecord /\ x.op = operation[w].op
            /\ x.stage = "write" /\ x.data = operation[w].data
            /\ x.items = operation[w].items
        BY <1>2, <3>1, <3>2 DEF CallRecord
      <3>4. SoundCall(w, x)
        BY <1>1, <1>2, <3>3 DEF SoundCall, StageOf, Writes, Reads
      <3>5. (Writes(x) => Writes(operation[w]))
            /\ (Reads(x) => Reads(operation[w]))
        BY <1>1, <3>3 DEF Writes, Reads
      <3>6. w = Retention => x.items = {}
        BY <3>3, <3>4 DEF SoundCall
      <3>7. QED
        BY <2>1, <3>1, <3>3, <3>4, <3>5, <3>6 DEF Contexts!Goes
    <2>2. CASE Contexts!Fails /\ Contexts!Goes(w, Contexts!Idle)
               /\ torn' = torn
      BY <2>2, IdleIsSound DEF Contexts!Goes
    <2>3. QED  BY <2>1, <2>2 DEF Contexts!CreateFile
  <1>5. operation \in [Contexts!Worker -> CallRecord]
        /\ Retention \in Contexts!Worker
    BY ClientsAreWorkers DEF ContextInv
  <1>6. operation'[w] = x
        /\ operation'[Retention].items = operation[Retention].items
    <2>1. w = Retention => operation[w].items = {}
      BY <1>1, <1>2 DEF SoundCall
    <2>2. QED  BY <1>4, <1>5, <2>1
  <1>7. SoundCall(w, x)'
    BY <1>1, <1>4 DEF SoundCall, Sound
  <1>8. StoreTypes' /\ made \in Nat
    <2>1. torn' \in BOOLEAN
      BY <1>4 DEF ContextInv, StoreTypes
    <2>2. faults' \in 0 .. MaxAccidents
      BY <1>4, FailsFacts DEF ContextInv, StoreTypes
    <2>3. QED  BY <1>1, <2>1, <2>2 DEF ContextInv, StoreTypes
  <1>9. ContextsAreSound'
    BY <1>1 DEF ContextInv, ContextsAreSound, Sound
  <1>10. TornInv'
    BY <1>4, <1>6, FailsFacts DEF TornInv, Contexts!Worker
  <1>11. KeptInv'
    BY <1>1, <1>4, <1>6 DEF ContextInv, KeptInv
  <1>12. QED
    BY <1>1, <1>3, <1>4, <1>7, <1>8, <1>9, <1>10, <1>11,
       CallStepKeepsContextInv

\* Beside a call that saves under the lock, the retention task has drained
\* nothing that is not archived.
LEMMA NothingDrained ==
    ASSUME ReasoningAssumption, ContextInv, NEW w \in Contexts!Worker,
           Writes(operation[w]) \/ Reads(operation[w]),
           operation[w].stage # "archive"
    PROVE  operation[Retention].items = {}
  <1>1. Retention \in Contexts!Worker
    BY ClientsAreWorkers
  <1>2. SoundCall(Retention, operation[Retention])
    BY <1>1, CallFacts
  <1>3. CASE operation[Retention].stage # "archive"
    BY <1>2, <1>3 DEF SoundCall
  <1>4. CASE operation[Retention].stage = "archive"
    <2>1. Writes(operation[Retention])
      BY <1>2, <1>4 DEF SoundCall, StageOf, Writes
    <2>2. w # Retention
      BY <1>4
    <2>3. ~Reads(operation[w]) /\ ~Writes(operation[w])
      BY <1>1, <2>1, <2>2 DEF ContextInv, LockInv
    <2>4. QED  BY <2>3
  <1>5. QED  BY <1>3, <1>4

LEMMA WriteFileKeepsContextInv ==
    ASSUME ReasoningAssumption, ContextInv, NEW w \in Contexts!Worker,
           Contexts!WriteFile(w)
    PROVE  ContextInv'
  <1>1. /\ operation[w].stage = "write"
        /\ UNCHANGED <<cache, archive, flag, ready, learned, made, sessions,
                       ops, ends>>
    BY DEF Contexts!WriteFile, Contexts!inputs
  <1>2. /\ SoundCall(w, operation[w]) /\ operation[w] \in CallRecord
        /\ operation[w].data \in Contexts!Contexts
        /\ operation[w].items \subseteq Contexts!Item
    BY CallFacts
  <1>3. ready = TRUE
    BY <1>1, <1>2, CallFacts DEF SoundCall, StageOf
  <1>4. operation \in [Contexts!Worker -> CallRecord]
        /\ Retention \in Contexts!Worker
    BY ClientsAreWorkers DEF ContextInv
  <1>5. w = Retention => operation[w].items = {}
    BY <1>1, <1>2 DEF SoundCall
  <1>6. CASE Contexts!Fails /\ Contexts!Goes(w, Contexts!Idle)
             /\ UNCHANGED <<file, torn, owed>>
    <2>1. operation' = [operation EXCEPT ![w] = Contexts!Idle]
      BY <1>6 DEF Contexts!Goes
    <2>2. PICK x : x = Contexts!Idle
      OBVIOUS
    <2>3. SoundCall(w, x) /\ ~Writes(x) /\ ~Reads(x) /\ x.items = {}
      BY <2>2, IdleIsSound
    <2>4. faults' \in 0 .. MaxAccidents /\ faults' # 0
      BY <1>6, FailsFacts
    <2>5. StoreTypes'
      BY <1>1, <1>6, <2>4 DEF ContextInv, StoreTypes
    <2>6. ContextsAreSound'
      BY <1>1, <1>6 DEF ContextInv, ContextsAreSound, Sound
    <2>7. operation'[Retention].items = operation[Retention].items
      BY <1>4, <1>5, <2>1, <2>2, <2>3
    <2>8. KeptInv'
      BY <1>1, <1>6, <2>7 DEF ContextInv, KeptInv
    <2>9. TornInv'
      BY <2>4 DEF TornInv
    <2>10. SoundCall(w, x)'
      BY <1>1, <2>3 DEF SoundCall, Sound
    <2>11. made \in Nat
      BY DEF ContextInv, StoreTypes
    <2>12. QED
      BY <1>1, <1>3, <2>1, <2>2, <2>3, <2>5, <2>6, <2>8, <2>9, <2>10, <2>11,
         CallStepKeepsContextInv
  <1>7. CASE /\ file' = operation[w].data /\ torn' = FALSE
             /\ owed' = Contexts!Promised(w)
             /\ Contexts!Goes(w,
                  IF operation[w].op = "store"
                  THEN [operation[w] EXCEPT !.stage = "insert"]
                  ELSE Contexts!Idle)
             /\ faults' = faults
    <2>1. PICK x : /\ operation' = [operation EXCEPT ![w] = x]
                   /\ SoundCall(w, x) /\ ~Writes(x) /\ ~Reads(x)
                   /\ w = Retention => x.items = {}
      <3>1. CASE operation[w].op = "store"
        <4>1. PICK x : x = [operation[w] EXCEPT !.stage = "insert"]
          OBVIOUS
        <4>2. "insert" \in Contexts!Stages
          BY DEF Contexts!Stages
        <4>3. /\ x \in CallRecord /\ x.op = "store" /\ x.stage = "insert"
              /\ x.data = operation[w].data
              /\ x.items = operation[w].items
          BY <1>2, <3>1, <4>1, <4>2 DEF CallRecord
        <4>4. SoundCall(w, x) /\ ~Writes(x) /\ ~Reads(x)
          BY <1>1, <1>2, <3>1, <4>3 DEF SoundCall, StageOf, Writes, Reads
        <4>5. w = Retention => x.items = {}
          BY <1>5, <4>3
        <4>6. QED  BY <1>7, <3>1, <4>1, <4>4, <4>5 DEF Contexts!Goes
      <3>2. CASE operation[w].op # "store"
        BY <1>7, <3>2, IdleIsSound DEF Contexts!Goes
      <3>3. QED  BY <3>1, <3>2
    <2>2. operation'[Retention].items = operation[Retention].items
      BY <1>4, <1>5, <2>1
    <2>3. /\ Sound(operation[w].data) /\ Sound(cache)
          /\ owed \subseteq 1 .. made /\ learned \subseteq 1 .. made
      BY <1>2 DEF SoundCall, ContextInv, ContextsAreSound
    <2>4. ready /\ cache # Contexts!NoContext =>
            owed \cup learned \subseteq Contexts!Items(cache) \cup archive
                                        \cup operation[Retention].items
      BY DEF ContextInv, KeptInv
    <2>5. /\ owed' \subseteq 1 .. made
          /\ owed' \subseteq Contexts!Items(file') \cup archive
          /\ cache # Contexts!NoContext =>
               owed' \cup learned \subseteq Contexts!Items(cache) \cup archive
                                            \cup operation[Retention].items
      <3>1. CASE operation[w].op = "store"
        <4>1. owed' = owed \cap
                      (Contexts!Items(operation[w].data) \cup archive)
          BY <1>7, <3>1 DEF Contexts!Promised
        <4>2. QED  BY <1>3, <1>7, <2>3, <2>4, <4>1
      <3>2. CASE operation[w].op # "store"
        <4>1. Writes(operation[w]) \/ Reads(operation[w])
          BY <1>1, <1>2, <3>2 DEF SoundCall, StageOf, Writes, Reads
        <4>2. /\ cache # Contexts!NoContext /\ operation[w].data = cache
              /\ operation[w].items \subseteq Contexts!Items(cache)
          BY <1>1, <1>2, <4>1 DEF SoundCall
        <4>3. operation[Retention].items = {}
          BY <1>1, <4>1, NothingDrained
        <4>4. owed' = owed \cup learned \cup operation[w].items
          BY <1>7, <3>2 DEF Contexts!Promised
        <4>5. Contexts!Items(cache) \subseteq 1 .. made
          BY <2>3 DEF Sound
        <4>6. owed \cup learned \subseteq Contexts!Items(cache) \cup archive
          BY <1>3, <2>4, <4>2, <4>3
        <4>7. file' = cache
          BY <1>7, <4>2
        <4>8. QED  BY <2>3, <4>2, <4>3, <4>4, <4>5, <4>6, <4>7
      <3>3. QED  BY <3>1, <3>2
    <2>6. StoreTypes' /\ made \in Nat
      <3>1. torn' \in BOOLEAN
        BY <1>7
      <3>2. file' \in Contexts!Contexts /\ faults' \in 0 .. MaxAccidents
        BY <1>2, <1>7 DEF ContextInv, StoreTypes
      <3>3. QED  BY <1>1, <3>1, <3>2 DEF ContextInv, StoreTypes
    <2>7. ContextsAreSound'
      BY <1>1, <1>7, <2>3, <2>5 DEF ContextInv, ContextsAreSound, Sound
    <2>8. TornInv'
      BY <1>7 DEF TornInv
    <2>9. Contexts!Items(file)' = Contexts!Items(file')
          /\ Contexts!Items(cache)' = Contexts!Items(cache)
          /\ Contexts!NoContext' = Contexts!NoContext
      BY <1>1 DEF Contexts!Items, Contexts!NoContext, Contexts!Context
    <2>10. KeptInv'
      BY <1>1, <2>2, <2>5, <2>9 DEF KeptInv
    <2>11. SoundCall(w, x)'
      BY <1>1, <2>1 DEF SoundCall, Sound
    <2>12. QED
      BY <1>1, <1>3, <2>1, <2>6, <2>7, <2>8, <2>10, <2>11,
         CallStepKeepsContextInv
  <1>8. QED  BY <1>6, <1>7 DEF Contexts!WriteFile

\* The contexts that are known stay sound while items are made.
LEMMA SoundFilesStay ==
    ASSUME ReasoningAssumption, ContextInv,
           made' \in {made, made + 1},
           learned' \cap (1 .. made) \subseteq learned
    PROVE  /\ file' = file => Sound(file)'
           /\ cache' = cache => Sound(cache)'
           /\ made \in Nat /\ 1 .. made \subseteq 1 .. made'
  <1>1. made \in Nat /\ Sound(file) /\ Sound(cache)
    BY DEF ContextInv, StoreTypes, ContextsAreSound
  <1>2. file' = file => Sound(file)'
    <2>1. PICK d : d = file
      OBVIOUS
    <2>2. Sound(d)'
      BY <1>1, <2>1, SoundStays
    <2>3. QED  BY <2>1, <2>2
  <1>3. cache' = cache => Sound(cache)'
    <2>1. PICK d : d = cache
      OBVIOUS
    <2>2. Sound(d)'
      BY <1>1, <2>1, SoundStays
    <2>3. QED  BY <2>1, <2>2
  <1>4. QED  BY <1>1, <1>2, <1>3

LEMMA InsertKeepsContextInv ==
    ASSUME ReasoningAssumption, ContextInv, NEW c \in Client,
           Contexts!Insert(c)
    PROVE  ContextInv'
  <1>1. /\ operation[c].stage = "insert" /\ Contexts!CanWrite
        /\ cache' = operation[c].data
        /\ owed' = owed \cap (Contexts!Items(operation[c].data) \cup archive)
        /\ learned' = learned \cap Contexts!Items(operation[c].data)
        /\ UNCHANGED <<file, torn, archive, flag, ready, made, sessions, ops,
                       faults, ends>>
    BY DEF Contexts!Insert, Contexts!store, Contexts!inputs,
       Contexts!accidents
  <1>2. c \in Contexts!Worker /\ c # Retention /\ Retention \in Contexts!Worker
    BY ClientsAreWorkers
  <1>3. /\ SoundCall(c, operation[c]) /\ operation[c] \in CallRecord
        /\ operation[c].data \in Contexts!Contexts
    BY <1>2, CallFacts
  <1>4. ready = TRUE
    BY <1>1, <1>2, <1>3, CallFacts DEF SoundCall, StageOf
  <1>5. /\ operation[c].data # Contexts!NoContext
        /\ operation[c].op \in {"store", "retrieve"}
        /\ Sound(operation[c].data)
    BY <1>1, <1>3 DEF SoundCall, StageOf
  <1>6. PICK x : /\ operation' = [operation EXCEPT ![c] = x]
                 /\ SoundCall(c, x) /\ ~Writes(x) /\ ~Reads(x)
    <2>1. CASE operation[c].op = "store"
      <3>1. operation' = [operation EXCEPT ![c] = Contexts!Idle]
        BY <2>1 DEF Contexts!Insert, Contexts!Goes
      <3>2. QED  BY <3>1, IdleIsSound
    <2>2. CASE operation[c].op = "retrieve"
      <3>1. PICK x : x = [operation[c] EXCEPT !.stage = "retrieved"]
        OBVIOUS
      <3>2. operation' = [operation EXCEPT ![c] = x]
        BY <2>2, <3>1 DEF Contexts!Insert, Contexts!Goes
      <3>3. "retrieved" \in Contexts!Stages
        BY DEF Contexts!Stages
      <3>4. /\ x \in CallRecord /\ x.op = "retrieve"
            /\ x.stage = "retrieved" /\ x.data = operation[c].data
            /\ x.items = operation[c].items
        BY <1>3, <2>2, <3>1, <3>3 DEF CallRecord
      <3>5. SoundCall(c, x) /\ ~Writes(x) /\ ~Reads(x)
        BY <1>2, <1>3, <1>5, <3>4 DEF SoundCall, StageOf, Writes, Reads
      <3>6. QED  BY <3>2, <3>5
    <2>3. QED  BY <1>5, <2>1, <2>2
  <1>7. /\ made \in Nat /\ made' \in {made, made + 1}
        /\ learned' \cap (1 .. made) \subseteq learned
    BY <1>1 DEF ContextInv, StoreTypes
  <1>8. SoundCall(c, x)'
    BY <1>6, <1>7, SoundCallStays
  <1>9. StoreTypes'
    BY <1>1, <1>3 DEF ContextInv, StoreTypes
  <1>10. Sound(cache)'
    <2>1. PICK d : d = operation[c].data
      OBVIOUS
    <2>2. Sound(d)'
      BY <1>5, <1>7, <2>1, SoundStays
    <2>3. QED  BY <1>1, <2>1, <2>2
  <1>11. ContextsAreSound'
    <2>1. Sound(file)'
      BY <1>1, <1>7, SoundFilesStay
    <2>2. QED
      BY <1>1, <1>10, <2>1 DEF ContextInv, ContextsAreSound
  <1>12. TornInv'
    <2>1. operation[c].stage # "write" /\ ~Finishes(operation[c])
      BY <1>1 DEF Finishes
    <2>2. cache' # Contexts!NoContext
      BY <1>1, <1>5
    <2>3. QED  BY <1>1, <1>2, <1>4, <1>6, <2>1, <2>2, TornStays
  <1>13. KeptInv'
    <2>1. Contexts!Items(cache)' = Contexts!Items(operation[c].data)
          /\ Contexts!Items(file)' = Contexts!Items(file)
      BY <1>1 DEF Contexts!Items
    <2>2. QED  BY <1>1, <2>1 DEF ContextInv, KeptInv
  <1>14. QED
    BY <1>1, <1>2, <1>4, <1>6, <1>7, <1>8, <1>9, <1>11, <1>12, <1>13,
       CallStepKeepsContextInv

\* An item that is made is new.
LEMMA MakesFacts ==
    ASSUME ReasoningAssumption, ContextInv, NEW i, Contexts!Makes(i)
    PROVE  /\ made \in Nat /\ made' = made + 1 /\ i = made + 1
           /\ made' \in 0 .. MaxItems /\ i \in Contexts!Item
           /\ i \in 1 .. made' /\ i \notin 1 .. made
           /\ 1 .. made \subseteq 1 .. made'
  <1>1. made \in 0 .. MaxItems /\ MaxItems \in Nat
    BY DEF ContextInv, StoreTypes, ReasoningAssumption
  <1>2. made < MaxItems /\ made' = made + 1 /\ i = made + 1
    BY DEF Contexts!Makes
  <1>3. QED  BY <1>1, <1>2 DEF Contexts!Item

LEMMA AddMemoryKeepsContextInv ==
    ASSUME ReasoningAssumption, ContextInv, NEW c \in Client,
           Contexts!AddMemory(c)
    PROVE  ContextInv'
  <1>1. /\ Contexts!Begins(c) /\ Contexts!CanWrite
        /\ cache # Contexts!NoContext
        /\ UNCHANGED <<file, torn, archive, flag, ready, owed, learned,
                       sessions, faults, ends>>
    BY DEF Contexts!AddMemory, Contexts!store, Contexts!promises,
       Contexts!accidents
  <1>2. PICK i \in Contexts!Item :
          /\ Contexts!Makes(i)
          /\ cache' = [cache EXCEPT !.memory = @ \cup {i}]
          /\ operation' = [operation EXCEPT ![c] =
                             Contexts!Call("update", "create", cache', {i})]
    BY DEF Contexts!AddMemory, Contexts!Goes
  <1>3. c \in Contexts!Worker /\ c # Retention /\ Retention \in Contexts!Worker
    BY ClientsAreWorkers
  <1>4. /\ made \in Nat /\ made' = made + 1 /\ i = made + 1
        /\ made' \in 0 .. MaxItems
        /\ i \in 1 .. made' /\ i \notin 1 .. made
        /\ 1 .. made \subseteq 1 .. made'
    BY <1>2, MakesFacts
  <1>5. /\ cache \in Contexts!Contexts /\ Sound(cache) /\ Sound(file)
        /\ owed \subseteq 1 .. made /\ learned \subseteq 1 .. made
        /\ archive \subseteq 1 .. made
    BY DEF ContextInv, StoreTypes, ContextsAreSound
  <1>6. /\ cache' \in Contexts!Contexts /\ cache'.session = cache.session
        /\ cache'.memory = cache.memory \cup {i} /\ cache'.facts = cache.facts
    BY <1>2, <1>5 DEF Contexts!Contexts
  <1>7. cache.session # 0 /\ cache' # Contexts!NoContext
    BY <1>1, <1>5, <1>6, NoContextFields DEF Sound
  <1>8. Contexts!Items(cache') = Contexts!Items(cache) \cup {i}
    BY <1>6 DEF Contexts!Items
  <1>9. PICK d \in Contexts!Contexts : d = cache'
    BY <1>6
  <1>10. Sound(d)'
    <2>1. /\ Contexts!Items(cache) \subseteq 1 .. made
          /\ cache.memory \cap learned = {}
      BY <1>5 DEF Sound
    <2>2. /\ d.memory = cache.memory \cup {i} /\ d.session # 0
          /\ Contexts!Items(d) = Contexts!Items(cache) \cup {i}
      BY <1>6, <1>7, <1>8, <1>9
    <2>3. Contexts!Items(d) \subseteq 1 .. made'
      BY <1>4, <2>1, <2>2
    <2>4. d.memory \cap learned' = {}
      BY <1>1, <1>4, <1>5, <2>1, <2>2
    <2>5. QED  BY <2>2, <2>3, <2>4 DEF Sound, Contexts!Items
  <1>11. PICK x : x = Contexts!Call("update", "create", d, {i})
    OBVIOUS
  <1>12. /\ x \in CallRecord /\ x.op = "update" /\ x.stage = "create"
         /\ x.data = d /\ x.items = {i}
    <2>1. "create" \in Contexts!Stages /\ {i} \in SUBSET Contexts!Item
      BY DEF Contexts!Stages
    <2>2. QED  BY <1>11, <2>1, CallFields
  <1>13. SoundCall(c, x)'
    <2>1. /\ cache' # Contexts!NoContext /\ d = cache'
          /\ {i} \subseteq Contexts!Items(cache') /\ {i} \subseteq 1 .. made'
      BY <1>4, <1>7, <1>8, <1>9
    <2>2. Sound(x.data)' /\ x \in CallRecord' /\ StageOf(x)'
      BY <1>10, <1>12 DEF CallRecord, StageOf
    <2>3. Contexts!NoContext' = Contexts!NoContext
          /\ Contexts!Items(cache)' = Contexts!Items(cache')
      BY DEF Contexts!NoContext, Contexts!Context, Contexts!Items
    <2>4. QED
      BY <1>3, <1>12, <2>1, <2>2, <2>3 DEF SoundCall, Writes, Reads
  <1>14. operation' = [operation EXCEPT ![c] = x]
    BY <1>2, <1>9, <1>11
  <1>15. operation'[Retention].items = operation[Retention].items
    <2>1. operation \in [Contexts!Worker -> CallRecord]
      BY DEF ContextInv
    <2>2. QED  BY <1>3, <1>14, <2>1
  <1>16. StoreTypes'
    <2>1. ops' \in 0 .. MaxOps
      BY <1>1, BeginsFacts
    <2>2. QED  BY <1>1, <1>4, <1>6, <2>1 DEF ContextInv, StoreTypes
  <1>17. ContextsAreSound'
    <2>1. /\ learned' \cap (1 .. made) \subseteq learned
          /\ made' \in {made, made + 1}
      BY <1>1, <1>4
    <2>2. Sound(file)'
      BY <1>1, <2>1, SoundFilesStay
    <2>3. Sound(cache)'
      BY <1>9, <1>10
    <2>4. owed' \subseteq 1 .. made' /\ learned' \subseteq 1 .. made'
          /\ archive' \subseteq 1 .. made'
      BY <1>1, <1>4, <1>5
    <2>5. QED  BY <2>2, <2>3, <2>4 DEF ContextsAreSound
  <1>18. TornInv'
    BY <1>1, <1>3, <1>7, <1>14, BeginsFacts, TornStays
  <1>19. KeptInv'
    <2>1. Contexts!Items(cache)' = Contexts!Items(cache) \cup {i}
          /\ Contexts!Items(file)' = Contexts!Items(file)
      BY <1>1, <1>8 DEF Contexts!Items
    <2>2. owed \cup learned \subseteq Contexts!Items(cache) \cup archive
                                      \cup operation[Retention].items
      BY <1>1, BeginsFacts DEF ContextInv, KeptInv
    <2>3. ~torn => owed \subseteq Contexts!Items(file) \cup archive
      BY DEF ContextInv, KeptInv
    <2>4. QED  BY <1>1, <1>15, <2>1, <2>2, <2>3 DEF KeptInv
  <1>20. ready' = TRUE
    BY <1>1, BeginsFacts
  <1>21. made' \in {made, made + 1}
         /\ learned' \cap (1 .. made) \subseteq learned
    BY <1>1, <1>4
  <1>22. ~Reads(x)
    BY <1>12 DEF Reads
  <1>23. QED
    BY <1>1, <1>3, <1>13, <1>14, <1>16, <1>17, <1>18, <1>19, <1>20, <1>21,
       <1>22, CallStepKeepsContextInv

LEMMA DeleteMemoryKeepsContextInv ==
    ASSUME ReasoningAssumption, ContextInv, NEW c \in Client,
           Contexts!DeleteMemory(c)
    PROVE  ContextInv'
  <1>1. /\ Contexts!Begins(c) /\ Contexts!CanWrite
        /\ cache # Contexts!NoContext
        /\ operation' = [operation EXCEPT ![c] =
                           Contexts!Call("update", "create", cache', {})]
        /\ UNCHANGED <<file, torn, archive, flag, ready, learned, made,
                       sessions, faults, ends>>
    BY DEF Contexts!DeleteMemory, Contexts!Goes, Contexts!store,
       Contexts!accidents
  <1>2. PICK gone \in {{}} \cup {{i} : i \in cache.memory} :
          /\ cache' = Contexts!Without(cache, gone)
          /\ owed' = owed \ gone
    BY DEF Contexts!DeleteMemory
  <1>3. c \in Contexts!Worker /\ c # Retention /\ Retention \in Contexts!Worker
    BY ClientsAreWorkers
  <1>4. /\ cache \in Contexts!Contexts /\ Sound(cache) /\ made \in Nat
        /\ owed \subseteq 1 .. made /\ learned \subseteq 1 .. made
        /\ archive \subseteq 1 .. made
    BY DEF ContextInv, StoreTypes, ContextsAreSound
  <1>5. /\ cache' \in Contexts!Contexts /\ Sound(cache')
        /\ cache' # Contexts!NoContext
        /\ Contexts!Items(cache') = Contexts!Items(cache) \ gone
    BY <1>1, <1>2, <1>4, WithoutFields, WithoutIsSound
  <1>6. gone \cap learned = {}
    BY <1>4 DEF Sound
  <1>7. PICK d \in Contexts!Contexts : d = cache'
    BY <1>5
  <1>8. Sound(d)'
    BY <1>1, <1>5, <1>7 DEF Sound
  <1>9. PICK x : x = Contexts!Call("update", "create", d, {})
    OBVIOUS
  <1>10. /\ x \in CallRecord /\ x.op = "update" /\ x.stage = "create"
         /\ x.data = d /\ x.items = {}
    <2>1. "create" \in Contexts!Stages /\ {} \in SUBSET Contexts!Item
      BY DEF Contexts!Stages
    <2>2. QED  BY <1>9, <2>1, CallFields
  <1>11. SoundCall(c, x)'
    <2>1. Sound(x.data)' /\ x \in CallRecord' /\ StageOf(x)'
      BY <1>8, <1>10 DEF CallRecord, StageOf
    <2>2. Contexts!NoContext' = Contexts!NoContext
      BY DEF Contexts!NoContext, Contexts!Context
    <2>3. QED
      BY <1>3, <1>5, <1>7, <1>10, <2>1, <2>2 DEF SoundCall, Writes, Reads
  <1>12. operation' = [operation EXCEPT ![c] = x]
    BY <1>1, <1>7, <1>9
  <1>13. operation'[Retention].items = operation[Retention].items
    <2>1. operation \in [Contexts!Worker -> CallRecord]
      BY DEF ContextInv
    <2>2. QED  BY <1>3, <1>12, <2>1
  <1>14. StoreTypes'
    <2>1. ops' \in 0 .. MaxOps
      BY <1>1, BeginsFacts
    <2>2. QED  BY <1>1, <1>5, <2>1 DEF ContextInv, StoreTypes
  <1>15. ContextsAreSound'
    <2>1. Sound(cache)'
      BY <1>7, <1>8
    <2>2. Sound(file)'
      BY <1>1 DEF ContextInv, ContextsAreSound, Sound
    <2>3. QED  BY <1>1, <1>2, <1>4, <2>1, <2>2 DEF ContextsAreSound
  <1>16. TornInv'
    BY <1>1, <1>3, <1>5, <1>12, BeginsFacts, TornStays
  <1>17. KeptInv'
    <2>1. Contexts!Items(cache)' = Contexts!Items(cache) \ gone
          /\ Contexts!Items(file)' = Contexts!Items(file)
      BY <1>1, <1>5 DEF Contexts!Items
    <2>2. owed \cup learned \subseteq Contexts!Items(cache) \cup archive
                                      \cup operation[Retention].items
      BY <1>1, BeginsFacts DEF ContextInv, KeptInv
    <2>3. ~torn => owed \subseteq Contexts!Items(file) \cup archive
      BY DEF ContextInv, KeptInv
    <2>4. owed' \cup learned' \subseteq (Contexts!Items(cache) \ gone)
                   \cup archive \cup operation[Retention].items
      BY <1>1, <1>2, <1>6, <2>2
    <2>5. ~torn => owed' \subseteq Contexts!Items(file) \cup archive
      BY <1>2, <2>3
    <2>6. QED  BY <1>1, <1>13, <2>1, <2>4, <2>5 DEF KeptInv
  <1>18. ~Reads(x) /\ ready' = TRUE
    BY <1>1, <1>10, BeginsFacts DEF Reads
  <1>19. QED
    BY <1>1, <1>3, <1>4, <1>11, <1>12, <1>14, <1>15, <1>16, <1>17, <1>18,
       CallStepKeepsContextInv

LEMMA AddKnowledgeKeepsContextInv ==
    ASSUME ReasoningAssumption, ContextInv, NEW c \in Client,
           Contexts!AddKnowledge(c)
    PROVE  ContextInv'
  <1>1. /\ Contexts!Begins(c) /\ Contexts!CanWrite
        /\ cache # Contexts!NoContext
        /\ UNCHANGED <<file, torn, archive, operation, flag, ready, owed,
                       sessions, faults, ends>>
    BY DEF Contexts!AddKnowledge, Contexts!store, Contexts!accidents
  <1>2. PICK i \in Contexts!Item :
          /\ Contexts!Makes(i)
          /\ cache' = [cache EXCEPT !.facts = @ \cup {i}]
          /\ learned' = learned \cup {i}
    BY DEF Contexts!AddKnowledge
  <1>3. c \in Contexts!Worker /\ Retention \in Contexts!Worker
    BY ClientsAreWorkers
  <1>4. /\ made \in Nat /\ made' = made + 1 /\ i = made + 1
        /\ made' \in 0 .. MaxItems
        /\ i \in 1 .. made' /\ i \notin 1 .. made
        /\ 1 .. made \subseteq 1 .. made'
    BY <1>2, MakesFacts
  <1>5. /\ cache \in Contexts!Contexts /\ Sound(cache) /\ Sound(file)
        /\ owed \subseteq 1 .. made /\ learned \subseteq 1 .. made
        /\ archive \subseteq 1 .. made
    BY DEF ContextInv, StoreTypes, ContextsAreSound
  <1>6. /\ cache' \in Contexts!Contexts /\ cache'.session = cache.session
        /\ cache'.memory = cache.memory /\ cache'.facts = cache.facts \cup {i}
    BY <1>2, <1>5 DEF Contexts!Contexts
  <1>7. cache.session # 0 /\ cache' # Contexts!NoContext
    BY <1>1, <1>5, <1>6, NoContextFields DEF Sound
  <1>8. Contexts!Items(cache') = Contexts!Items(cache) \cup {i}
    BY <1>6 DEF Contexts!Items
  <1>9. made' \in {made, made + 1}
        /\ learned' \cap (1 .. made) \subseteq learned
    BY <1>2, <1>4
  <1>10. Sound(cache)'
    <2>1. /\ Contexts!Items(cache) \subseteq 1 .. made
          /\ cache.memory \cap learned = {}
          /\ cache.memory \subseteq Contexts!Items(cache)
      BY <1>5 DEF Sound, Contexts!Items
    <2>2. Contexts!Items(cache') \subseteq 1 .. made'
      BY <1>4, <1>8, <2>1
    <2>3. cache'.memory \cap learned' = {}
      BY <1>2, <1>4, <1>6, <2>1
    <2>4. cache'.session # 0
      BY <1>6, <1>7
    <2>5. QED  BY <2>2, <2>3, <2>4 DEF Sound, Contexts!Items
  <1>11. PICK x : x = operation[c]
    OBVIOUS
  <1>12. operation' = [operation EXCEPT ![c] = x]
    BY <1>1, <1>3, <1>11 DEF ContextInv
  <1>13. ~Writes(x) /\ ~Reads(x) /\ SoundCall(c, x)
    <2>1. x = Contexts!Idle
      BY <1>1, <1>11, BeginsFacts
    <2>2. QED  BY <2>1, IdleIsSound
  <1>14. SoundCall(c, x)'
    BY <1>4, <1>9, <1>13, SoundCallStays
  <1>15. StoreTypes'
    <2>1. ops' \in 0 .. MaxOps
      BY <1>1, BeginsFacts
    <2>2. QED  BY <1>1, <1>4, <1>6, <2>1 DEF ContextInv, StoreTypes
  <1>16. ContextsAreSound'
    <2>1. Sound(file)'
      BY <1>1, <1>9, SoundFilesStay
    <2>2. owed' \subseteq 1 .. made' /\ learned' \subseteq 1 .. made'
          /\ archive' \subseteq 1 .. made'
      BY <1>1, <1>2, <1>4, <1>5
    <2>3. QED  BY <1>10, <2>1, <2>2 DEF ContextsAreSound
  <1>17. TornInv'
    BY <1>1, <1>3, <1>7, <1>11, <1>12, BeginsFacts, TornStays
  <1>18. KeptInv'
    <2>1. Contexts!Items(cache)' = Contexts!Items(cache) \cup {i}
          /\ Contexts!Items(file)' = Contexts!Items(file)
      BY <1>1, <1>8 DEF Contexts!Items
    <2>2. owed \cup learned \subseteq Contexts!Items(cache) \cup archive
                                      \cup operation[Retention].items
      BY <1>1, BeginsFacts DEF ContextInv, KeptInv
    <2>3. ~torn => owed \subseteq Contexts!Items(file) \cup archive
      BY DEF ContextInv, KeptInv
    <2>4. QED  BY <1>1, <1>2, <2>1, <2>2, <2>3 DEF KeptInv
  <1>19. ready' = TRUE
    BY <1>1, BeginsFacts
  <1>20. QED
    BY <1>1, <1>3, <1>9, <1>12, <1>13, <1>14, <1>15, <1>16, <1>17, <1>18,
       <1>19, CallStepKeepsContextInv

LEMMA ContextsAreEqual ==
    ASSUME NEW x \in Contexts!Contexts, NEW y \in Contexts!Contexts,
           x.session = y.session, x.memory = y.memory, x.facts = y.facts
    PROVE  x = y
  BY DEF Contexts!Contexts

LEMMA DrainKeepsContextInv ==
    ASSUME ReasoningAssumption, ContextInv, Contexts!Drain
    PROVE  ContextInv'
  <1>1. /\ operation[Retention].op = "retention"
        /\ operation[Retention].stage = "checked" /\ Contexts!CanWrite
        /\ UNCHANGED <<file, torn, archive, flag, ready, owed, learned, made,
                       sessions, ops, faults, ends>>
    BY DEF Contexts!Drain, Contexts!At, Contexts!store, Contexts!promises,
       Contexts!inputs, Contexts!accidents
  <1>2. PICK old \in SUBSET Contexts!Items(cache) :
          /\ cache' = Contexts!Without(cache, old)
          /\ operation' = [operation EXCEPT ![Retention] =
               IF old = {} THEN Contexts!Idle
               ELSE Contexts!Call("retention", "archive", cache', old)]
    BY DEF Contexts!Drain, Contexts!Goes
  <1>3. Retention \in Contexts!Worker
    BY ClientsAreWorkers
  <1>4. /\ SoundCall(Retention, operation[Retention]) /\ ready = TRUE
    BY <1>1, <1>3, CallFacts
  <1>5. /\ cache \in Contexts!Contexts /\ Sound(cache) /\ made \in Nat
        /\ operation \in [Contexts!Worker -> CallRecord]
    BY DEF ContextInv, StoreTypes, ContextsAreSound
  <1>6. operation[Retention].items = {}
    BY <1>1, <1>4 DEF SoundCall
  <1>7. /\ cache' \in Contexts!Contexts
        /\ Contexts!Items(cache') = Contexts!Items(cache) \ old
        /\ cache'.session = cache.session
        /\ cache'.memory = cache.memory \ old
    BY <1>2, <1>5, WithoutFields
  <1>8. old # {} => cache # Contexts!NoContext
    BY NoContextFields
  <1>9. Sound(cache') /\ (cache # Contexts!NoContext
                            => cache' # Contexts!NoContext)
    <2>1. CASE cache # Contexts!NoContext
      BY <1>2, <1>5, <2>1, WithoutIsSound
    <2>2. CASE cache = Contexts!NoContext
      <3>1. /\ cache'.memory = {} /\ Contexts!Items(cache') = {}
            /\ cache'.session = 0
        BY <1>7, <2>2, NoContextFields
      <3>2. cache'.facts = {}
        BY <3>1 DEF Contexts!Items
      <3>3. cache' = Contexts!NoContext
        BY <1>7, <3>1, <3>2, NoContextFields, ContextsAreEqual
      <3>4. QED  BY <2>2, <3>3, NoContextFields
    <2>3. QED  BY <2>1, <2>2
  <1>10. PICK d \in Contexts!Contexts : d = cache'
    BY <1>7
  <1>11. Sound(d)'
    BY <1>1, <1>9, <1>10 DEF Sound
  <1>12. PICK x : x = IF old = {} THEN Contexts!Idle
                      ELSE Contexts!Call("retention", "archive", d, old)
    OBVIOUS
  <1>13. operation' = [operation EXCEPT ![Retention] = x]
    BY <1>2, <1>10, <1>12
  <1>14. SoundCall(Retention, x)' /\ ~Reads(x) /\ x.items = old
    <2>1. CASE old = {}
      <3>1. SoundCall(Retention, x) /\ ~Reads(x) /\ ~Writes(x) /\ x.items = {}
        BY <1>12, <2>1, IdleIsSound
      <3>2. SoundCall(Retention, x)'
        BY <1>1, <1>5, <3>1, SoundCallStays
      <3>3. QED  BY <2>1, <3>1, <3>2
    <2>2. CASE old # {}
      <3>1. Contexts!Items(cache) \subseteq 1 .. made
        BY <1>5 DEF Sound
      <3>2. 1 .. made \subseteq Contexts!Item
        BY DEF ContextInv, StoreTypes, Contexts!Item, ReasoningAssumption
      <3>3. /\ x \in CallRecord /\ x.op = "retention" /\ x.stage = "archive"
            /\ x.data = d /\ x.items = old
        <4>1. "archive" \in Contexts!Stages /\ old \in SUBSET Contexts!Item
          BY <3>1, <3>2 DEF Contexts!Stages
        <4>2. QED  BY <1>12, <2>2, <4>1, CallFields
      <3>4. Sound(x.data)' /\ x \in CallRecord' /\ StageOf(x)'
        BY <1>11, <3>3 DEF CallRecord, StageOf
      <3>5. Contexts!NoContext' = Contexts!NoContext
            /\ cache' # Contexts!NoContext
        BY <1>8, <1>9, <2>2 DEF Contexts!NoContext, Contexts!Context
      <3>6. QED
        BY <1>1, <3>1, <3>3, <3>4, <3>5 DEF SoundCall, Writes, Reads
    <2>3. QED  BY <2>1, <2>2
  <1>15. StoreTypes'
    BY <1>1, <1>7 DEF ContextInv, StoreTypes
  <1>16. ContextsAreSound'
    <2>1. Sound(cache)'
      BY <1>10, <1>11
    <2>2. Sound(file)'
      BY <1>1 DEF ContextInv, ContextsAreSound, Sound
    <2>3. QED  BY <1>1, <2>1, <2>2 DEF ContextInv, ContextsAreSound
  <1>17. TornInv'
    <2>1. ~Finishes(operation[Retention])
          /\ operation[Retention].stage # "write"
      BY <1>1 DEF Finishes
    <2>2. QED  BY <1>1, <1>3, <1>4, <1>9, <1>13, <2>1, TornStays
  <1>18. KeptInv'
    <2>1. operation'[Retention].items = old
      BY <1>3, <1>5, <1>13, <1>14
    <2>2. Contexts!Items(cache)' = Contexts!Items(cache) \ old
          /\ Contexts!Items(file)' = Contexts!Items(file)
          /\ Contexts!NoContext' = Contexts!NoContext
      BY <1>1, <1>7 DEF Contexts!Items, Contexts!NoContext, Contexts!Context
    <2>3. cache # Contexts!NoContext =>
            owed \cup learned \subseteq Contexts!Items(cache) \cup archive
      BY <1>4, <1>6 DEF ContextInv, KeptInv
    <2>4. cache' # Contexts!NoContext => cache # Contexts!NoContext
      <3>1. SUFFICES ASSUME cache = Contexts!NoContext
                     PROVE  cache' = Contexts!NoContext
        OBVIOUS
      <3>2. cache'.session = 0
        BY <1>7, <3>1, NoContextFields
      <3>3. QED  BY <1>9, <3>2 DEF Sound
    <2>5. ~torn => owed \subseteq Contexts!Items(file) \cup archive
      BY DEF ContextInv, KeptInv
    <2>6. QED  BY <1>1, <2>1, <2>2, <2>3, <2>4, <2>5 DEF KeptInv
  <1>19. made' \in {made, made + 1}
         /\ learned' \cap (1 .. made) \subseteq learned
    BY <1>1
  <1>20. QED
    BY <1>1, <1>3, <1>4, <1>13, <1>14, <1>15, <1>16, <1>17, <1>18, <1>19,
       CallStepKeepsContextInv

LEMMA ArchiveKeepsContextInv ==
    ASSUME ReasoningAssumption, ContextInv, Contexts!Archive
    PROVE  ContextInv'
  <1> DEFINE drained == operation[Retention].items
  <1>1. /\ operation[Retention].op = "retention"
        /\ operation[Retention].stage = "archive"
        /\ UNCHANGED <<cache, file, torn, flag, ready, made, sessions, ops,
                       ends>>
    BY DEF Contexts!Archive, Contexts!At, Contexts!inputs
  <1>2. Retention \in Contexts!Worker
    BY ClientsAreWorkers
  <1>3. /\ SoundCall(Retention, operation[Retention]) /\ ready = TRUE
    BY <1>1, <1>2, CallFacts
  <1>4. /\ Writes(operation[Retention]) /\ drained \subseteq 1 .. made
        /\ cache # Contexts!NoContext
    BY <1>1, <1>3 DEF SoundCall, Writes
  <1>5. /\ cache \in Contexts!Contexts /\ Sound(cache) /\ made \in Nat
        /\ operation \in [Contexts!Worker -> CallRecord]
        /\ owed \subseteq 1 .. made /\ learned \subseteq 1 .. made
        /\ archive \subseteq 1 .. made
    BY DEF ContextInv, StoreTypes, ContextsAreSound
  <1>6. /\ ~torn => owed \subseteq Contexts!Items(file) \cup archive
        /\ owed \cup learned \subseteq Contexts!Items(cache) \cup archive
                                       \cup drained
    BY <1>3, <1>4 DEF ContextInv, KeptInv
  <1> HIDE DEF drained
  <1>7. PICK x : /\ operation' = [operation EXCEPT ![Retention] = x]
                 /\ SoundCall(Retention, x) /\ ~Reads(x) /\ x.items = {}
                 /\ \/ /\ archive' = archive \cup drained
                       /\ owed' = owed \cup (learned \cap drained)
                       /\ learned' = learned \ drained
                       /\ faults' = faults
                    \/ /\ Contexts!Fails
                       /\ owed' = owed \ drained
                       /\ learned' = learned \ drained
                       /\ archive' = archive
    <2>1. CASE /\ archive' = archive \cup operation[Retention].items
               /\ owed' = owed \cup (learned \cap operation[Retention].items)
               /\ learned' = learned \ operation[Retention].items
               /\ Contexts!Goes(Retention,
                    Contexts!Call("retention", "create", cache, {}))
               /\ UNCHANGED faults
      <3>1. PICK x : x = Contexts!Call("retention", "create", cache, {})
        OBVIOUS
      <3>2. /\ x \in CallRecord /\ x.op = "retention" /\ x.stage = "create"
            /\ x.data = cache /\ x.items = {}
        <4>1. "create" \in Contexts!Stages /\ {} \in SUBSET Contexts!Item
          BY DEF Contexts!Stages
        <4>2. QED  BY <1>5, <3>1, <4>1, CallFields
      <3>3. SoundCall(Retention, x) /\ ~Reads(x)
        BY <1>4, <1>5, <3>2 DEF SoundCall, StageOf, Writes, Reads
      <3>4. QED  BY <2>1, <3>1, <3>2, <3>3 DEF Contexts!Goes, drained
    <2>2. CASE /\ Contexts!Fails
               /\ Contexts!Abandon(operation[Retention].items)
               /\ Contexts!Goes(Retention, Contexts!Idle)
               /\ UNCHANGED archive
      BY <2>2, IdleIsSound DEF Contexts!Goes, Contexts!Abandon, drained
    <2>3. QED  BY <2>1, <2>2 DEF Contexts!Archive
  <1>8. made' \in {made, made + 1}
        /\ learned' \cap (1 .. made) \subseteq learned
    BY <1>1, <1>7
  <1>9. SoundCall(Retention, x)'
    BY <1>1, <1>5, <1>7, <1>8, SoundCallStays
  <1>10. StoreTypes'
    <2>1. faults' \in 0 .. MaxAccidents
      BY <1>7, FailsFacts DEF ContextInv, StoreTypes
    <2>2. QED  BY <1>1, <2>1 DEF ContextInv, StoreTypes
  <1>11. ContextsAreSound'
    <2>1. Sound(file)' /\ Sound(cache)'
      BY <1>1, <1>8, SoundFilesStay
    <2>2. /\ owed' \subseteq 1 .. made /\ learned' \subseteq 1 .. made
          /\ archive' \subseteq 1 .. made
      BY <1>4, <1>5, <1>7 DEF drained
    <2>3. QED  BY <1>1, <2>1, <2>2 DEF ContextsAreSound
  <1>12. TornInv'
    <2>1. CASE faults' = faults
      <3>1. ~Finishes(operation[Retention])
            /\ operation[Retention].stage # "write"
        BY <1>1 DEF Finishes
      <3>2. QED  BY <1>1, <1>2, <1>3, <1>7, <2>1, <3>1, TornStays
    <2>2. CASE Contexts!Fails
      BY <2>2, FailsFacts DEF TornInv
    <2>3. QED  BY <1>7, <2>1, <2>2
  <1>13. KeptInv'
    <2>1. operation'[Retention].items = {}
      BY <1>2, <1>5, <1>7
    <2>2. Contexts!Items(cache)' = Contexts!Items(cache)
          /\ Contexts!Items(file)' = Contexts!Items(file)
      BY <1>1 DEF Contexts!Items
    <2>3. ~torn => owed' \subseteq Contexts!Items(file) \cup archive'
      BY <1>6, <1>7
    <2>4. owed' \cup learned' \subseteq Contexts!Items(cache) \cup archive'
      BY <1>6, <1>7
    <2>5. QED  BY <1>1, <2>1, <2>2, <2>3, <2>4 DEF KeptInv
  <1>14. QED
    BY <1>1, <1>2, <1>3, <1>4, <1>7, <1>8, <1>9, <1>10, <1>11, <1>12, <1>13,
       CallStepKeepsContextInv

\* The task is aborted, and what it had drained is lost; the file that it may
\* leave empty is written by the shutdown that aborts it.
LEMMA StopTasksKeepsContextInv ==
    ASSUME ReasoningAssumption, ContextInv, NEW c \in Client,
           Contexts!StopTasks(c)
    PROVE  ContextInv'
  <1> DEFINE drained == operation[Retention].items
  <1>1. /\ operation[c].op = "shutdown" /\ operation[c].stage = "stop"
        /\ operation' = [operation EXCEPT ![Retention] = Contexts!Ended,
                                          ![c].stage = "save"]
        /\ UNCHANGED <<cache, file, torn, archive, flag, ready, made, sessions,
                       ops, faults, ends>>
    BY DEF Contexts!StopTasks, Contexts!At, Contexts!store,
       Contexts!inputs, Contexts!accidents
  <1>2. c \in Contexts!Worker /\ c # Retention /\ Retention \in Contexts!Worker
    BY ClientsAreWorkers
  <1>3. /\ SoundCall(c, operation[c]) /\ operation[c] \in CallRecord
        /\ ready = TRUE /\ SoundCall(Retention, operation[Retention])
    BY <1>1, <1>2, CallFacts
  <1>4. /\ operation \in [Contexts!Worker -> CallRecord] /\ made \in Nat
        /\ CallsAreSound /\ LockInv /\ TornInv
        /\ owed \subseteq 1 .. made /\ learned \subseteq 1 .. made
        /\ archive \subseteq 1 .. made
    BY DEF ContextInv, StoreTypes, ContextsAreSound
  <1>5. PICK e : e = Contexts!Ended
    OBVIOUS
  <1>6. /\ SoundCall(Retention, e) /\ ~Writes(e) /\ ~Reads(e) /\ e.items = {}
        /\ e \in CallRecord
    BY <1>5, IdleIsSound DEF SoundCall
  <1>7. PICK x : x = [operation[c] EXCEPT !.stage = "save"]
    OBVIOUS
  <1>8. /\ x \in CallRecord /\ x.op = "shutdown" /\ x.stage = "save"
        /\ x.data = operation[c].data /\ x.items = operation[c].items
    <2>1. "save" \in Contexts!Stages
      BY DEF Contexts!Stages
    <2>2. QED  BY <1>1, <1>3, <1>7, <2>1 DEF CallRecord
  <1>9. SoundCall(c, x) /\ ~Writes(x) /\ ~Reads(x) /\ Finishes(x)
    BY <1>2, <1>3, <1>8 DEF SoundCall, StageOf, Writes, Reads, Finishes
  <1>10. /\ operation'[Retention] = e /\ operation'[c] = x
         /\ \A v \in Contexts!Worker :
              v # Retention /\ v # c => operation'[v] = operation[v]
         /\ operation' \in [Contexts!Worker -> CallRecord]
    BY <1>1, <1>2, <1>4, <1>5, <1>6, <1>7, <1>8
  <1>11. IF operation[Retention].stage = "archive"
         THEN owed' = owed \ drained /\ learned' = learned \ drained
         ELSE owed' = owed /\ learned' = learned /\ drained = {}
    <2>1. operation[Retention].stage = "archive"
            => operation[Retention].op = "retention"
      BY <1>3 DEF SoundCall, StageOf
    <2>2. operation[Retention].stage # "archive" => drained = {}
      BY <1>3 DEF SoundCall
    <2>3. CASE operation[Retention].stage = "archive"
      BY <2>1, <2>3
      DEF Contexts!StopTasks, Contexts!At, Contexts!Abandon
    <2>4. CASE operation[Retention].stage # "archive"
      BY <2>2, <2>4
      DEF Contexts!StopTasks, Contexts!At, Contexts!promises
    <2>5. QED  BY <2>3, <2>4
  <1> HIDE DEF drained
  <1>12. made' \in {made, made + 1}
         /\ learned' \cap (1 .. made) \subseteq learned
         /\ owed' \subseteq owed /\ learned' \subseteq learned
    BY <1>1, <1>11
  <1>13. CallsAreSound'
    <2>1. ASSUME NEW v \in Contexts!Worker PROVE SoundCall(v, operation[v])'
      <3>1. PICK y : y = operation'[v]
        OBVIOUS
      <3>2. SoundCall(v, y)
        <4>1. CASE v = Retention
          BY <1>6, <1>10, <3>1, <4>1
        <4>2. CASE v = c
          BY <1>9, <1>10, <3>1, <4>2
        <4>3. CASE v # Retention /\ v # c
          BY <1>4, <1>10, <3>1, <4>3 DEF CallsAreSound
        <4>4. QED  BY <4>1, <4>2, <4>3
      <3>3. SoundCall(v, y)'
        BY <1>1, <1>4, <1>12, <3>2, SoundCallStays
      <3>4. QED  BY <3>1, <3>3
    <2>2. Contexts!Worker' = Contexts!Worker
      BY DEF Contexts!Worker
    <2>3. QED  BY <2>1, <2>2 DEF CallsAreSound
  <1>14. LockInv'
    <2>1. \A v \in Contexts!Worker :
            /\ Writes(operation'[v]) => Writes(operation[v])
            /\ Reads(operation'[v]) => Reads(operation[v])
      BY <1>6, <1>9, <1>10
    <2>2. \A v, u \in Contexts!Worker :
            Writes(operation'[v]) =>
              ~Reads(operation'[u]) /\ (Writes(operation'[u]) => v = u)
      BY <1>4, <2>1 DEF LockInv
    <2>3. QED  BY <2>2 DEF LockInv, Writes, Reads
  <1>15. StoreTypes'
    BY <1>1 DEF ContextInv, StoreTypes
  <1>16. ContextsAreSound'
    <2>1. Sound(file)' /\ Sound(cache)'
      BY <1>1, <1>12, SoundFilesStay
    <2>2. QED  BY <1>1, <1>4, <1>12, <2>1 DEF ContextsAreSound
  <1>17. DownInv' /\ ready' = TRUE
    BY <1>1, <1>3 DEF DownInv
  <1>18. TornInv'
    <2>1. SUFFICES ASSUME torn, faults = 0
                   PROVE  \/ \E w \in Contexts!Worker :
                               operation'[w].stage = "write"
                          \/ /\ cache # Contexts!NoContext
                             /\ \E v \in Client : Finishes(operation'[v])
      BY <1>1 DEF TornInv, Contexts!Worker, Contexts!NoContext,
         Contexts!Context, Finishes
    <2>2. CASE cache # Contexts!NoContext
      BY <1>9, <1>10, <2>2
    <2>3. CASE cache = Contexts!NoContext
      <3>1. PICK w \in Contexts!Worker : operation[w].stage = "write"
        BY <1>3, <1>4, <2>1, <2>3 DEF TornInv
      <3>2. w # c
        BY <1>1, <3>1
      <3>3. w # Retention
        <4>1. operation[Retention].stage # "write"
          BY <1>3, <2>3 DEF SoundCall, StageOf, Writes
        <4>2. QED  BY <3>1, <4>1
      <3>4. QED  BY <1>10, <3>1, <3>2, <3>3
    <2>4. QED  BY <2>2, <2>3
  <1>19. KeptInv'
    <2>1. Contexts!Items(cache)' = Contexts!Items(cache)
          /\ Contexts!Items(file)' = Contexts!Items(file)
          /\ Contexts!NoContext' = Contexts!NoContext
      BY <1>1 DEF Contexts!Items, Contexts!NoContext, Contexts!Context
    <2>2. /\ ~torn => owed \subseteq Contexts!Items(file) \cup archive
          /\ cache # Contexts!NoContext =>
               owed \cup learned \subseteq Contexts!Items(cache)
                                           \cup archive \cup drained
      BY <1>3 DEF ContextInv, KeptInv, drained
    <2>3. owed' \cup learned' \subseteq (owed \cup learned) \ drained
      BY <1>11
    <2>4. operation'[Retention].items = {}
      BY <1>6, <1>10
    <2>5. QED  BY <1>1, <1>12, <2>1, <2>2, <2>3, <2>4 DEF KeptInv
  <1>20. Contexts!Worker' = Contexts!Worker /\ CallRecord' = CallRecord
    BY DEF Contexts!Worker, CallRecord
  <1>21. QED
    BY <1>10, <1>13, <1>14, <1>15, <1>16, <1>17, <1>18, <1>19, <1>20
    DEF ContextInv

\* The process ends, and starts with what the file holds.
LEMMA EndKeepsContextInv ==
    ASSUME ReasoningAssumption, ContextInv, Contexts!End
    PROVE  ContextInv'
  <1>1. /\ ready' = FALSE /\ ends' = ends + 1
        /\ faults + ends < MaxAccidents
        /\ cache' = Contexts!NoContext /\ flag' = FALSE /\ learned' = {}
        /\ operation' = [w \in Contexts!Worker |-> Contexts!Idle]
        /\ UNCHANGED <<file, torn, archive, owed, made, sessions, ops, faults>>
    BY DEF Contexts!End, Contexts!store, Contexts!inputs
  <1>2. /\ made \in Nat
        /\ owed \subseteq 1 .. made /\ archive \subseteq 1 .. made
        /\ KeptInv
    BY DEF ContextInv, StoreTypes, ContextsAreSound
  <1>3. PICK e : e = Contexts!Idle
    OBVIOUS
  <1>4. /\ e \in CallRecord /\ ~Writes(e) /\ ~Reads(e)
        /\ \A w : SoundCall(w, e)
    BY <1>3, IdleIsSound DEF SoundCall
  <1>5. /\ operation' \in [Contexts!Worker -> CallRecord]
        /\ \A w \in Contexts!Worker : operation'[w] = e
    BY <1>1, <1>3, <1>4
  <1>6. made' \in {made, made + 1}
        /\ learned' \cap (1 .. made) \subseteq learned
    BY <1>1
  <1>7. CallsAreSound' /\ LockInv' /\ DownInv'
    <2>1. \A w : SoundCall(w, e)'
      BY <1>2, <1>4, <1>6, SoundCallStays
    <2>2. CallsAreSound'
      BY <1>5, <2>1 DEF CallsAreSound, Contexts!Worker
    <2>3. LockInv'
      BY <1>4, <1>5 DEF LockInv, Writes, Contexts!Worker
    <2>4. DownInv'
      BY <1>1, <1>3, <1>5
      DEF DownInv, Contexts!Worker, Contexts!Idle, Contexts!Call,
          Contexts!NoContext, Contexts!Context
    <2>5. QED  BY <2>2, <2>3, <2>4
  <1>8. StoreTypes'
    <2>1. ends' \in 0 .. MaxAccidents
      BY <1>1 DEF ContextInv, StoreTypes, ReasoningAssumption
    <2>2. cache' \in Contexts!Contexts
      BY <1>1, NoContextFields
    <2>3. ready' \in BOOLEAN /\ flag' \in BOOLEAN
      BY <1>1
    <2>4. QED  BY <1>1, <2>1, <2>2, <2>3 DEF ContextInv, StoreTypes
  <1>9. ContextsAreSound'
    <2>1. Sound(file)'
      BY <1>1, <1>6, SoundFilesStay
    <2>2. Sound(cache)'
      <3>1. PICK d : d = Contexts!NoContext
        OBVIOUS
      <3>2. Sound(d)'
        BY <1>2, <1>6, <3>1, NoContextFields, SoundStays
      <3>3. QED  BY <1>1, <3>1, <3>2
    <2>3. QED  BY <1>1, <1>2, <2>1, <2>2 DEF ContextsAreSound
  <1>10. TornInv' /\ KeptInv'
    <2>1. Contexts!Items(file)' = Contexts!Items(file)
      BY <1>1 DEF Contexts!Items
    <2>2. QED  BY <1>1, <1>2, <2>1 DEF TornInv, KeptInv
  <1>11. Contexts!Worker' = Contexts!Worker /\ CallRecord' = CallRecord
    BY DEF Contexts!Worker, CallRecord
  <1>12. QED
    BY <1>5, <1>7, <1>8, <1>9, <1>10, <1>11 DEF ContextInv

LEMMA InitializeKeepsContextInv ==
    ASSUME ReasoningAssumption, ContextInv, Contexts!Initialize
    PROVE  ContextInv'
  <1>1. /\ ~ready /\ torn = FALSE /\ ready' = TRUE /\ cache' = file
        /\ UNCHANGED <<file, torn, archive, operation, flag, owed, learned,
                       made, sessions, ops, faults, ends>>
    BY DEF Contexts!Initialize, Contexts!store, Contexts!promises,
       Contexts!inputs, Contexts!accidents, ContextInv, StoreTypes
  <1>2. /\ learned = {}
        /\ \A w \in Contexts!Worker : operation[w] = Contexts!Idle
    BY <1>1 DEF ContextInv, DownInv
  <1>3. made \in Nat /\ made' \in {made, made + 1}
        /\ learned' \cap (1 .. made) \subseteq learned
    BY <1>1 DEF ContextInv, StoreTypes
  <1>4. PICK e : e = Contexts!Idle
    OBVIOUS
  <1>5. \A w : SoundCall(w, e)'
    <2>1. ~Writes(e) /\ ~Reads(e) /\ \A w : SoundCall(w, e)
      BY <1>4, IdleIsSound
    <2>2. QED  BY <1>3, <2>1, SoundCallStays
  <1>6. CallsAreSound'
    BY <1>1, <1>2, <1>4, <1>5 DEF CallsAreSound, Contexts!Worker
  <1>7. LockInv'
    BY <1>1 DEF ContextInv, LockInv, Writes, Reads, Contexts!Worker
  <1>8. DownInv' /\ TornInv'
    BY <1>1 DEF DownInv, TornInv
  <1>9. StoreTypes'
    BY <1>1 DEF ContextInv, StoreTypes
  <1>10. ContextsAreSound'
    BY <1>1 DEF ContextInv, ContextsAreSound, Sound
  <1>11. KeptInv'
    BY <1>1, <1>2 DEF ContextInv, KeptInv
  <1>12. Contexts!Worker' = Contexts!Worker /\ CallRecord' = CallRecord
    BY DEF Contexts!Worker, CallRecord
  <1>13. operation' \in [Contexts!Worker -> CallRecord]
    BY <1>1 DEF ContextInv
  <1>14. QED
    BY <1>6, <1>7, <1>8, <1>9, <1>10, <1>11, <1>12, <1>13 DEF ContextInv

LEMMA ContextsCardinality ==
    ASSUME NEW S PROVE Contexts!Cardinality(S) = Cardinality(S)
  BY DEF Contexts!Cardinality, Cardinality

LEMMA ContextInvInit ==
    ASSUME ReasoningAssumption, Contexts!Init
    PROVE  ContextInv
  <1>1. PICK old \in {Contexts!NoContext, Contexts!Context(1, {1}, {})} :
          /\ cache = old /\ file = old
          /\ owed = Contexts!Items(old)
          /\ made = Contexts!Cardinality(Contexts!Items(old))
          /\ sessions = old.session
    BY DEF Contexts!Init
  <1>2. /\ torn = FALSE /\ archive = {} /\ flag = FALSE /\ ready = TRUE
        /\ operation = [w \in Contexts!Worker |-> Contexts!Idle]
        /\ learned = {} /\ ops = 0 /\ faults = 0 /\ ends = 0
    BY DEF Contexts!Init
  <1>3. /\ old \in Contexts!Contexts
        /\ made \in 0 .. MaxItems /\ sessions \in 0 .. MaxSessions
        /\ Contexts!Items(old) \subseteq 1 .. made
        /\ old.session = 0 => old = Contexts!NoContext
    <2>1. CASE old = Contexts!NoContext
      <3>1. made = 0
        BY <1>1, <2>1, NoContextFields, ContextsCardinality, FS_EmptySet
      <3>2. QED
        BY <1>1, <2>1, <3>1, NoContextFields DEF ReasoningAssumption
    <2>2. CASE old = Contexts!Context(1, {1}, {})
      <3>1. 1 \in 0 .. MaxSessions /\ {1} \in SUBSET Contexts!Item
            /\ {} \in SUBSET Contexts!Item
        BY DEF ReasoningAssumption, Contexts!Item
      <3>2. /\ old \in Contexts!Contexts /\ old.session = 1
            /\ old.memory = {1} /\ old.facts = {}
        BY <2>2, <3>1, ContextFields
      <3>3. Contexts!Items(old) = {1}
        BY <3>2 DEF Contexts!Items
      <3>4. made = 1
        <4>1. Cardinality({1}) = 1
          BY FS_Singleton
        <4>2. QED  BY <1>1, <3>3, <4>1, ContextsCardinality
      <3>5. QED  BY <1>1, <3>1, <3>2, <3>3, <3>4 DEF ReasoningAssumption
    <2>3. QED  BY <1>1, <2>1, <2>2
  <1>4. Sound(cache) /\ Sound(file)
    BY <1>1, <1>2, <1>3 DEF Sound
  <1>5. StoreTypes
    <2>1. ops \in 0 .. MaxOps /\ faults \in 0 .. MaxAccidents
          /\ ends \in 0 .. MaxAccidents
      BY <1>2 DEF ReasoningAssumption
    <2>2. cache \in Contexts!Contexts /\ file \in Contexts!Contexts
      BY <1>1, <1>3
    <2>3. torn \in BOOLEAN /\ flag \in BOOLEAN /\ ready \in BOOLEAN
      BY <1>2
    <2>4. QED  BY <1>3, <2>1, <2>2, <2>3 DEF StoreTypes
  <1>6. PICK e : e = Contexts!Idle
    OBVIOUS
  <1>7. /\ e \in CallRecord /\ ~Writes(e) /\ ~Reads(e)
        /\ \A w : SoundCall(w, e)
    BY <1>6, IdleIsSound DEF SoundCall
  <1>8. /\ operation \in [Contexts!Worker -> CallRecord]
        /\ \A w \in Contexts!Worker : operation[w] = e
    BY <1>2, <1>6, <1>7
  <1>9. CallsAreSound /\ LockInv
    BY <1>7, <1>8 DEF CallsAreSound, LockInv
  <1>10. ContextsAreSound
    BY <1>1, <1>2, <1>3, <1>4 DEF ContextsAreSound
  <1>11. DownInv /\ TornInv /\ KeptInv
    BY <1>1, <1>2 DEF DownInv, TornInv, KeptInv
  <1>12. QED  BY <1>5, <1>8, <1>9, <1>10, <1>11 DEF ContextInv

LEMMA ContextInvStep ==
    ASSUME ReasoningAssumption, ContextInv, Contexts!Next
    PROVE  ContextInv'
  <1>1. ASSUME NEW c \in Client, Contexts!CallStep(c)
        PROVE  ContextInv'
    BY <1>1, CreateSessionKeepsContextInv, InsertKeepsContextInv,
       RetrieveKeepsContextInv, LoadKeepsContextInv, ReuseKeepsContextInv,
       AddMemoryKeepsContextInv, DeleteMemoryKeepsContextInv,
       AddKnowledgeKeepsContextInv, ShutdownKeepsContextInv,
       SetFlagKeepsContextInv, StopTasksKeepsContextInv,
       SaveAllKeepsContextInv
    DEF Contexts!CallStep
  <1>2. ASSUME NEW w \in Contexts!Worker, Contexts!Save(w)
        PROVE  ContextInv'
    BY <1>2, CreateFileKeepsContextInv, WriteFileKeepsContextInv
    DEF Contexts!Save
  <1>3. QED
    BY <1>1, <1>2, TickKeepsContextInv, DrainKeepsContextInv,
       ArchiveKeepsContextInv, EndKeepsContextInv, InitializeKeepsContextInv
    DEF Contexts!Next

LEMMA ContextInvStutter ==
    ASSUME ContextInv, UNCHANGED context
    PROVE  ContextInv'
  <1>1. UNCHANGED <<cache, file, torn, archive, operation, flag, ready, owed,
                    learned, made, sessions, ops, faults, ends>>
    BY DEF context
  <1>2. /\ StoreTypes' /\ operation' \in [Contexts!Worker' -> CallRecord']
        /\ ContextsAreSound'
    BY <1>1
    DEF ContextInv, StoreTypes, ContextsAreSound, Sound, CallRecord,
        Contexts!Worker
  <1>3. CallsAreSound'
    BY <1>1
    DEF ContextInv, CallsAreSound, SoundCall, Sound, CallRecord,
        Contexts!Worker
  <1>4. LockInv' /\ DownInv' /\ TornInv' /\ KeptInv'
    BY <1>1
    DEF ContextInv, LockInv, DownInv, TornInv, KeptInv, Contexts!Worker,
        Writes, Reads, Finishes
  <1>5. QED  BY <1>2, <1>3, <1>4 DEF ContextInv

LEMMA ContextInvIsInvariant == ReasoningSpec => []ContextInv
  <1>1. ReasoningInit => ContextInv
    BY ReasoningAssumption, ContextInvInit DEF ReasoningInit
  <1>2. ContextInv /\ [ReasoningNext]_<<service, vars, context, sagas,
                                    durable>>
          => ContextInv'
    BY ReasoningAssumption, ContextInvStep, ContextInvStutter
    DEF ReasoningNext
  <1>3. QED  BY <1>1, <1>2, PTL DEF ReasoningSpec

\* What update_memory acknowledged is in the file or an archive unless the
\* file was emptied and not written again, what add_knowledge acknowledged is
\* in memory until it is, and while no file operation fails the file can be
\* read: whatever the callers, the retention task, the shutdown, ends and
\* restarts of the process do, in whatever order (manager.rs:3270).
THEOREM WhatIsAcknowledgedIsKept == ReasoningSpec => []AcknowledgedIsKept
  <1>1. ContextInv => AcknowledgedIsKept
    <2>1. SUFFICES ASSUME ContextInv PROVE AcknowledgedIsKept
      OBVIOUS
    <2>2. 1 .. made \subseteq Contexts!Item
      BY <2>1, ReasoningAssumption
      DEF ContextInv, StoreTypes, ReasoningAssumption, Contexts!Item
    <2>3. Contexts!TypeOK
      BY <2>1, <2>2
      DEF ContextInv, StoreTypes, ContextsAreSound, CallRecord,
          Contexts!TypeOK
    <2>4. Contexts!StoredIsReadable
      BY <2>1 DEF ContextInv, TornInv, Finishes, Contexts!StoredIsReadable
    <2>5. QED
      BY <2>1, <2>3, <2>4
      DEF ContextInv, KeptInv, AcknowledgedIsKept,
          Contexts!AcknowledgedIsKept
  <1>2. QED  BY <1>1, ContextInvIsInvariant, PTL

-----------------------------------------------------------------------------
(* The saga.                                                                 *)

Steps == 1 .. Len(saga)
Runs == 1 .. Len(ran)
RunType == [kind : {"do", "undo", "redo"}, step : Steps, ok : BOOLEAN]

WasDone(i) == \E m \in Runs : Saga!Done(m) /\ ran[m].step = i
WasUndone(i) == \E m \in Runs : Saga!Undone(m) /\ ran[m].step = i
HasRun(i) == \E m \in Runs : ran[m].step = i /\ ran[m].ok

IsCompleted(i) == \E a \in 1 .. Len(completed) : completed[a] = i

\* The orchestrator has not failed yet.
Forward == position \in {"step", "intended", "settle"}

SagaTypes ==
    /\ saga \in Seq(Saga!SagaStep) /\ Saga!Accepted(saga)
    /\ checkpointed \in BOOLEAN
    /\ position \in {"step", "intended", "settle", "undo", "done", "aborted",
                     "recover", "resettle", "over"}
    /\ current \in Steps /\ failed \in BOOLEAN
    /\ completed \in Seq(Steps)
    /\ intents \subseteq Steps /\ outcomes \subseteq Steps
    /\ pending \subseteq Steps
    /\ ran \in Seq(RunType)
    /\ errors \in Nat

\* Completed steps are listed in their order, and are behind the current one.
CompletedInOrder ==
    /\ \A a, b \in 1 .. Len(completed) :
         a < b => completed[a] < completed[b]
    /\ Forward => \A a \in 1 .. Len(completed) : completed[a] < current

\* Listed is what was done and is not undone yet.
CompletedIsOwed ==
    Forward \/ position = "undo" =>
        \A i \in Steps : IsCompleted(i) <=> WasDone(i) /\ ~WasUndone(i)

\* What is undone is above all that is still to be undone.
UndoneAbove ==
    /\ Forward \/ position = "done" => \A m \in Runs : ~Saga!Undone(m)
    /\ position = "undo" =>
         \A m \in Runs, a \in 1 .. Len(completed) :
             Saga!Undone(m) => completed[a] < ran[m].step

\* All before the current step has run, and so it had before an intent was
\* recorded.
AllBeforeHasRun ==
    /\ position \in {"intended", "settle"} => Saga!Recorded(current)
    /\ Forward => \A i \in 1 .. current - 1 : HasRun(i)
    /\ position = "settle" /\ ~failed => HasRun(current)
    /\ \A i \in intents : Saga!Final(i) /\ \A j \in 1 .. i - 1 : HasRun(j)

\* Outcomes are of steps that are over, and what is pending has none.
OutcomesAreOver ==
    /\ Forward => pending = {} /\ \A i \in outcomes : i < current
    /\ pending \subseteq intents \ outcomes

\* While the checkpoint records all it is told, every intent but the current
\* one has its outcome, and all have before anything is undone.
IntentsAreSettled == errors = 0 =>
    /\ position = "step" => intents \subseteq outcomes
    /\ position \in {"intended", "settle"} =>
         intents \subseteq outcomes \cup {current}
    /\ position = "undo" \/ (\E m \in Runs : Saga!Undone(m)) =>
         intents \subseteq outcomes

SagaInv ==
    /\ SagaTypes
    /\ CompletedInOrder /\ CompletedIsOwed /\ UndoneAbove
    /\ AllBeforeHasRun /\ OutcomesAreOver /\ IntentsAreSettled
    /\ Saga!UndoneInReverse /\ Saga!FinalComesLast

LEMMA SagaInvInit ==
    ASSUME ReasoningAssumption, Saga!Init
    PROVE  SagaInv
  <1>1. PICK n \in 1 .. MaxSteps : saga \in [1 .. n -> Saga!SagaStep]
    BY DEF Saga!Init
  <1>2. n \in Nat /\ n >= 1 /\ Len(saga) = n /\ saga \in Seq(Saga!SagaStep)
    BY <1>1 DEF ReasoningAssumption
  <1>3. ran = <<>> /\ Len(ran) = 0 /\ completed = <<>> /\ Len(completed) = 0
    BY DEF Saga!Init
  <1>4. ran \in Seq(RunType) /\ completed \in Seq(Steps)
    BY <1>3
  <1>5. SagaTypes
    <2>1. Saga!Accepted(saga)
      BY DEF Saga!Init
    <2>2. 1 \in Steps
      BY <1>2 DEF Steps
    <2>3. QED  BY <1>2, <1>4, <2>1, <2>2 DEF Saga!Init, SagaTypes
  <1>6. \A k : ~ (k \in Runs) /\ ~ (k \in 1 .. Len(completed))
    BY <1>3 DEF Runs
  <1>7. QED
    BY <1>3, <1>5, <1>6
    DEF Saga!Init, SagaInv, CompletedInOrder, CompletedIsOwed,
       UndoneAbove, AllBeforeHasRun, OutcomesAreOver, IntentsAreSettled,
       Saga!UndoneInReverse, Saga!FinalComesLast, IsCompleted, WasDone,
        Forward, Runs

\* Running a tool adds a run and leaves the earlier ones.
LEMMA RunIsAdded ==
    ASSUME SagaTypes, NEW kind \in {"do", "undo", "redo"}, NEW i \in Steps,
           NEW ok \in BOOLEAN, Saga!Ran(kind, i, ok), UNCHANGED saga
    PROVE  /\ ran' \in Seq(RunType)'
           /\ Len(ran') = Len(ran) + 1
           /\ Len(ran) \in Nat
           /\ \A m \in Runs : ran'[m] = ran[m]
           /\ ran'[Len(ran) + 1] = [kind |-> kind, step |-> i, ok |-> ok]
           /\ ran' # ran
  <1>1. ran \in Seq(RunType)
    BY DEF SagaTypes
  <1>2. [kind |-> kind, step |-> i, ok |-> ok] \in RunType
    BY DEF RunType
  <1>3. ran' = Append(ran, [kind |-> kind, step |-> i, ok |-> ok])
    BY DEF Saga!Ran
  <1>4. RunType' = RunType
    BY DEF RunType, Steps
  <1>5. QED  BY <1>1, <1>2, <1>3, <1>4 DEF Runs


LEMMA RunsAfter ==
    ASSUME SagaTypes, NEW kind \in {"do", "undo", "redo"}, NEW i \in Steps,
           NEW ok \in BOOLEAN, Saga!Ran(kind, i, ok), UNCHANGED saga,
           NEW k, k = Len(ran) + 1
    PROVE  /\ Runs' = Runs \cup {k} /\ k \notin Runs
           /\ \A m \in Runs : m < k /\ m \in Nat
           /\ \A m \in Runs : Saga!Done(m)' <=> Saga!Done(m)
           /\ \A m \in Runs : Saga!Undone(m)' <=> Saga!Undone(m)
           /\ Saga!Done(k)' <=> /\ kind = "do" /\ ok
                               /\ saga[i].class = "Compensatable"
           /\ Saga!Undone(k)' <=> kind = "undo"
           /\ ran'[k].step = i /\ ran'[k].ok = ok /\ ran'[k].kind = kind
  <1>1. /\ Len(ran') = Len(ran) + 1 /\ Len(ran) \in Nat
        /\ \A m \in Runs : ran'[m] = ran[m]
        /\ ran'[k] = [kind |-> kind, step |-> i, ok |-> ok]
    BY RunIsAdded
  <1>2. Runs' = Runs \cup {k} /\ k \notin Runs
    BY <1>1 DEF Runs
  <1>3. \A m \in Runs : m < k /\ m \in Nat
    BY <1>1 DEF Runs
  <1>4. QED  BY <1>1, <1>2, <1>3 DEF Saga!Done, Saga!Undone

\* What holds of the runs so far is not changed by one more.
LEMMA RunsAreKept ==
    ASSUME SagaTypes, NEW kind \in {"do", "undo", "redo"}, NEW i \in Steps,
           NEW ok \in BOOLEAN, Saga!Ran(kind, i, ok), UNCHANGED saga,
           NEW j
    PROVE  /\ HasRun(j)' <=> HasRun(j) \/ (j = i /\ ok)
           /\ WasDone(j)' <=> WasDone(j) \/
                /\ j = i /\ kind = "do" /\ ok
                /\ saga[i].class = "Compensatable"
           /\ WasUndone(j)' <=> WasUndone(j) \/ (j = i /\ kind = "undo")
           /\ (\E m \in Runs : Saga!Undone(m))'
                <=> (\E m \in Runs : Saga!Undone(m)) \/ kind = "undo"
  <1>0. PICK k : k = Len(ran) + 1
    OBVIOUS
  <1>1. /\ Runs' = Runs \cup {k} /\ k \notin Runs
        /\ \A m \in Runs : Saga!Done(m)' <=> Saga!Done(m)
        /\ \A m \in Runs : Saga!Undone(m)' <=> Saga!Undone(m)
        /\ Saga!Done(k)' <=> /\ kind = "do" /\ ok
                            /\ saga[i].class = "Compensatable"
        /\ Saga!Undone(k)' <=> kind = "undo"
        /\ ran'[k].step = i /\ ran'[k].ok = ok
    BY <1>0, RunsAfter
  <1>2. \A m \in Runs : ran'[m] = ran[m]
    BY <1>0, RunIsAdded
  <1>3. HasRun(j)' <=> HasRun(j) \/ (j = i /\ ok)
    BY <1>1, <1>2 DEF HasRun
  <1>4. WasDone(j)' <=> WasDone(j) \/
             /\ j = i /\ kind = "do" /\ ok /\ saga[i].class = "Compensatable"
    BY <1>1, <1>2 DEF WasDone
  <1>5. WasUndone(j)' <=> WasUndone(j) \/ (j = i /\ kind = "undo")
    BY <1>1, <1>2 DEF WasUndone
  <1>6. (\E m \in Runs : Saga!Undone(m))'
            <=> (\E m \in Runs : Saga!Undone(m)) \/ kind = "undo"
    BY <1>1
  <1>7. QED  BY <1>3, <1>4, <1>5, <1>6

\* A run that may be made when it is made keeps the history sound.
LEMMA HistoryStaysSound ==
    ASSUME SagaTypes, NEW kind \in {"do", "undo", "redo"}, NEW i \in Steps,
           NEW ok \in BOOLEAN, Saga!Ran(kind, i, ok),
           UNCHANGED <<saga, errors>>,
           Saga!UndoneInReverse, Saga!FinalComesLast,
           position' # "aborted",
           position' = "done" =>
             kind # "undo" /\ \A m \in Runs : ~Saga!Undone(m),
           kind = "undo" =>
             /\ WasDone(i)
             /\ \A m \in Runs : Saga!Undone(m) => ran[m].step > i
             /\ \A m \in Runs : Saga!Done(m) /\ ran[m].step > i
                                => WasUndone(ran[m].step),
           Saga!Final(i) =>
             /\ \A j \in 1 .. i - 1 : HasRun(j)
             /\ errors = 0 => \A m \in Runs : ~Saga!Undone(m)
    PROVE  Saga!UndoneInReverse' /\ Saga!FinalComesLast'
  <1>0. PICK k : k = Len(ran) + 1
    OBVIOUS
  <1>1. /\ Runs' = Runs \cup {k} /\ k \notin Runs
        /\ \A m \in Runs : m < k /\ m \in Nat
        /\ \A m \in Runs : Saga!Done(m)' <=> Saga!Done(m)
        /\ \A m \in Runs : Saga!Undone(m)' <=> Saga!Undone(m)
        /\ Saga!Undone(k)' <=> kind = "undo"
        /\ ran'[k].step = i /\ ran'[k].ok = ok
    BY <1>0, RunsAfter
  <1>2. /\ \A m \in Runs : ran'[m] = ran[m]
        /\ Len(ran) \in Nat /\ Len(ran') = k
    BY <1>0, RunIsAdded
  <1>3. k \in Nat /\ 1 .. k - 1 = Runs
    BY <1>0, <1>2 DEF Runs
  <1>4. \A m \in Runs : 1 .. m - 1 \subseteq Runs
    BY <1>2 DEF Runs
  <1>5. Runs' = 1 .. Len(ran') /\ Runs = 1 .. Len(ran)
    BY DEF Runs
  <1>6. Saga!UndoneInReverse'
    <2>1. ASSUME NEW n \in Runs', Saga!Undone(n)'
          PROVE  /\ \E m \in 1 .. n - 1 :
                      Saga!Done(m)' /\ ran'[m].step = ran'[n].step
                 /\ \A m \in 1 .. n - 1 :
                      /\ Saga!Undone(m)' => ran'[m].step > ran'[n].step
                      /\ Saga!Done(m)' /\ ran'[m].step > ran'[n].step =>
                           \E l \in 1 .. n - 1 :
                             Saga!Undone(l)' /\ ran'[l].step = ran'[m].step
      <3>1. CASE n \in Runs
        <4>1. Saga!Undone(n)
          BY <1>1, <2>1, <3>1
        <4>2. /\ \E m \in 1 .. n - 1 :
                   Saga!Done(m) /\ ran[m].step = ran[n].step
              /\ \A m \in 1 .. n - 1 :
                   /\ Saga!Undone(m) => ran[m].step > ran[n].step
                   /\ Saga!Done(m) /\ ran[m].step > ran[n].step =>
                        \E l \in 1 .. n - 1 :
                          Saga!Undone(l) /\ ran[l].step = ran[m].step
          BY <1>5, <3>1, <4>1 DEF Saga!UndoneInReverse
        <4>3. \A m \in 1 .. n - 1 :
                /\ Saga!Done(m)' <=> Saga!Done(m)
                /\ Saga!Undone(m)' <=> Saga!Undone(m)
                /\ ran'[m] = ran[m]
          BY <1>1, <1>2, <1>4, <3>1
        <4>4. ran'[n] = ran[n]
          BY <1>2, <3>1
        <4>5. QED  BY <4>2, <4>3, <4>4
      <3>2. CASE n = k
        <4>1. kind = "undo" /\ 1 .. n - 1 = Runs /\ ran'[n].step = i
          BY <1>1, <1>3, <2>1, <3>2
        <4>2. /\ WasDone(i)
              /\ \A m \in Runs : Saga!Undone(m) => ran[m].step > i
              /\ \A m \in Runs : Saga!Done(m) /\ ran[m].step > i
                                 => WasUndone(ran[m].step)
          BY <4>1
        <4>3. \A m \in Runs :
                /\ ran'[m] = ran[m]
                /\ Saga!Done(m)' <=> Saga!Done(m)
                /\ Saga!Undone(m)' <=> Saga!Undone(m)
          BY <1>1, <1>2
        <4>4. \E m \in Runs : Saga!Done(m)' /\ ran'[m].step = i
          BY <4>2, <4>3 DEF WasDone
        <4>5. \A m \in Runs : Saga!Undone(m)' => ran'[m].step > i
          BY <4>2, <4>3
        <4>6. \A m \in Runs :
                Saga!Done(m)' /\ ran'[m].step > i =>
                  \E l \in Runs :
                    Saga!Undone(l)' /\ ran'[l].step = ran'[m].step
          BY <4>2, <4>3 DEF WasUndone
        <4>7. QED  BY <4>1, <4>4, <4>5, <4>6
      <3>3. QED  BY <1>1, <3>1, <3>2
    <2>2. position' = "done" => \A m \in Runs' : ~Saga!Undone(m)'
      BY <1>1
    <2>3. QED  BY <1>5, <2>1, <2>2 DEF Saga!UndoneInReverse
  <1>7. Saga!FinalComesLast'
    <2>1. ASSUME NEW n \in Runs', Saga!Final(ran'[n].step)
          PROVE  /\ \A j \in 1 .. ran'[n].step - 1 :
                      \E m \in 1 .. n - 1 : ran'[m].step = j /\ ran'[m].ok
                 /\ errors = 0 => \A m \in 1 .. n - 1 : ran'[m].kind # "undo"
      <3>1. CASE n \in Runs
        <4>1. ran'[n] = ran[n]
          BY <1>2, <3>1
        <4>2. /\ \A j \in 1 .. ran[n].step - 1 :
                   \E m \in 1 .. n - 1 : ran[m].step = j /\ ran[m].ok
              /\ errors = 0 => \A m \in 1 .. n - 1 : ran[m].kind # "undo"
          BY <1>5, <2>1, <3>1, <4>1 DEF Saga!FinalComesLast
        <4>3. \A m \in 1 .. n - 1 : ran'[m] = ran[m]
          BY <1>2, <1>4, <3>1
        <4>4. QED  BY <4>1, <4>2, <4>3
      <3>2. CASE n = k
        <4>1. 1 .. n - 1 = Runs /\ ran'[n].step = i
          BY <1>1, <1>3, <3>2
        <4>2. /\ \A j \in 1 .. i - 1 : HasRun(j)
              /\ errors = 0 => \A m \in Runs : ~Saga!Undone(m)
          BY <2>1, <4>1
        <4>3. \A m \in Runs : ran'[m] = ran[m]
          BY <1>2
        <4>4. \A j \in 1 .. i - 1 :
                \E m \in Runs : ran'[m].step = j /\ ran'[m].ok
          BY <4>2, <4>3 DEF HasRun
        <4>5. errors = 0 => \A m \in Runs : ran'[m].kind # "undo"
          BY <4>2, <4>3 DEF Saga!Undone
        <4>6. QED  BY <4>1, <4>4, <4>5
      <3>3. QED  BY <1>1, <3>1, <3>2
    <2>2. QED  BY <1>5, <2>1 DEF Saga!FinalComesLast, Saga!Final
  <1>8. QED  BY <1>6, <1>7

\* A step that runs no tool.
LEMMA HistoryStands ==
    ASSUME SagaTypes, UNCHANGED <<saga, ran>>,
           errors' \in {errors, errors + 1},
           Saga!UndoneInReverse, Saga!FinalComesLast,
           position' = "aborted" =>
               \A i \in Steps : WasDone(i) => WasUndone(i),
           position' = "done" => \A m \in Runs : ~Saga!Undone(m)
    PROVE  Saga!UndoneInReverse' /\ Saga!FinalComesLast'
  <1>1. /\ \A m : Saga!Done(m)' <=> Saga!Done(m)
        /\ \A m : Saga!Undone(m)' <=> Saga!Undone(m)
        /\ Len(ran') = Len(ran)
    BY DEF Saga!Done, Saga!Undone
  <1>2. \A m \in Runs : ran[m].step \in Steps
    <2>1. \A m \in Runs : ran[m] \in RunType
      BY DEF SagaTypes, Runs
    <2>2. QED  BY <2>1 DEF RunType
  <1>3. Saga!UndoneInReverse'
    <2>1. ASSUME position' = "aborted", NEW m \in Runs, Saga!Done(m)
          PROVE  \E k \in Runs : Saga!Undone(k) /\ ran[k].step = ran[m].step
      <3>1. WasDone(ran[m].step)
        BY <2>1 DEF WasDone
      <3>2. QED  BY <1>2, <2>1, <3>1 DEF WasUndone
    <2>2. \A k \in Runs : Saga!Undone(k) =>
            /\ \E m \in 1 .. k - 1 : Saga!Done(m) /\ ran[m].step = ran[k].step
            /\ \A m \in 1 .. k - 1 :
                 /\ Saga!Undone(m) => ran[m].step > ran[k].step
                 /\ Saga!Done(m) /\ ran[m].step > ran[k].step =>
                      \E l \in 1 .. k - 1 :
                          Saga!Undone(l) /\ ran[l].step = ran[m].step
      BY DEF Saga!UndoneInReverse, Runs
    <2>3. QED  BY <1>1, <2>1, <2>2 DEF Saga!UndoneInReverse, Runs
  <1>4. Saga!FinalComesLast'
    <2>1. errors' = 0 => errors = 0
      BY DEF SagaTypes
    <2>2. QED  BY <2>1 DEF Saga!FinalComesLast, Saga!Final
  <1>5. QED  BY <1>3, <1>4

LEMMA RunsStand ==
    ASSUME UNCHANGED <<saga, ran>>
    PROVE  /\ Steps' = Steps /\ Runs' = Runs
           /\ \A i : HasRun(i)' <=> HasRun(i)
           /\ \A i : WasDone(i)' <=> WasDone(i)
           /\ \A i : WasUndone(i)' <=> WasUndone(i)
           /\ \A m : Saga!Undone(m)' <=> Saga!Undone(m)
           /\ \A i : Saga!Final(i)' <=> Saga!Final(i)
           /\ RunType' = RunType
  <1>1. Steps' = Steps /\ Runs' = Runs /\ RunType' = RunType
    BY DEF Steps, Runs, RunType
  <1>2. /\ \A m : Saga!Undone(m)' <=> Saga!Undone(m)
        /\ \A m : Saga!Done(m)' <=> Saga!Done(m)
        /\ \A i : Saga!Final(i)' <=> Saga!Final(i)
    BY DEF Saga!Undone, Saga!Done, Saga!Final
  <1>3. QED  BY <1>1, <1>2 DEF HasRun, WasDone, WasUndone

LEMMA AcceptedStays ==
    ASSUME SagaTypes, UNCHANGED saga
    PROVE  saga' \in Seq(Saga!SagaStep) /\ Saga!Accepted(saga)'
  BY DEF SagaTypes, Saga!Accepted

LEMMA RecordIntentKeepsSagaInv ==
    ASSUME SagaInv, Saga!RecordIntent
    PROVE  SagaInv'
  <1>1. UNCHANGED <<saga, ran, checkpointed, current, failed, completed,
                    outcomes, pending>>
    BY DEF Saga!RecordIntent, Saga!plan
  <1>2. /\ position = "step" /\ Saga!Recorded(current)
        /\ \/ /\ intents' = intents \cup {current}
              /\ position' = "intended" /\ errors' = errors
           \/ /\ errors' = errors + 1 /\ position' = "undo"
              /\ intents' = intents
    BY DEF Saga!RecordIntent, Saga!Error
  <1>3. SagaTypes /\ Saga!UndoneInReverse /\ Saga!FinalComesLast
    BY DEF SagaInv
  <1>4. Saga!UndoneInReverse' /\ Saga!FinalComesLast'
    BY <1>1, <1>2, <1>3, HistoryStands
  <1>5. /\ Steps' = Steps /\ Runs' = Runs /\ RunType' = RunType
        /\ \A i : HasRun(i)' <=> HasRun(i)
        /\ \A i : WasDone(i)' <=> WasDone(i)
        /\ \A i : WasUndone(i)' <=> WasUndone(i)
        /\ \A m : Saga!Undone(m)' <=> Saga!Undone(m)
        /\ \A i : Saga!Final(i)' <=> Saga!Final(i)
    BY <1>1, RunsStand
  <1>6. SagaTypes'
    BY <1>1, <1>2, <1>3, <1>5, AcceptedStays DEF SagaTypes
  <1>7. CompletedInOrder' /\ CompletedIsOwed' /\ UndoneAbove'
    <2>1. \A i : IsCompleted(i)' <=> IsCompleted(i)
      BY <1>1 DEF IsCompleted
    <2>2. QED
      BY <1>1, <1>2, <1>5, <2>1
      DEF SagaInv, CompletedInOrder, CompletedIsOwed, UndoneAbove, Forward
  <1>8. AllBeforeHasRun' /\ OutcomesAreOver'
    <2>1. Saga!Recorded(current)' /\ Saga!Final(current)
      BY <1>1, <1>2 DEF Saga!Recorded, Saga!Final
    <2>2. QED
      BY <1>1, <1>2, <1>5, <2>1
      DEF SagaInv, AllBeforeHasRun, OutcomesAreOver, Forward
  <1>9. IntentsAreSettled'
    BY <1>1, <1>2, <1>3, <1>5
    DEF SagaInv, IntentsAreSettled, UndoneAbove, Forward, SagaTypes
  <1>10. QED  BY <1>4, <1>6, <1>7, <1>8, <1>9 DEF SagaInv

\* What follows a step.
LEMMA ProceedKeepsOrder ==
    ASSUME SagaTypes, CompletedInOrder, Forward, NEW ok \in BOOLEAN,
           Saga!Proceed(ok), UNCHANGED saga
    PROVE  /\ completed' \in Seq(Steps) /\ current' \in Steps
           /\ CompletedInOrder'
           /\ \A i : IsCompleted(i)' <=> IsCompleted(i) \/
                /\ i = current /\ ok /\ saga[i].class = "Compensatable"
           /\ \/ ok /\ position' = "step" /\ current' = current + 1
              \/ ok /\ position' = "done" /\ current' = current
              \/ ~ok /\ position' = "undo" /\ current' = current
  <1>1. /\ completed \in Seq(Steps) /\ Len(completed) \in Nat
        /\ current \in Steps /\ Len(saga) \in Nat
    BY DEF SagaTypes
  <1>2. \/ /\ ok /\ current < Len(saga)
           /\ position' = "step" /\ current' = current + 1
        \/ ok /\ position' = "done" /\ current' = current
        \/ ~ok /\ position' = "undo" /\ current' = current
    BY DEF Saga!Proceed
  <1>3. current' \in Steps /\ current' >= current
    BY <1>1, <1>2 DEF Steps
  <1>4. \A a \in 1 .. Len(completed) :
          completed[a] \in Nat /\ completed[a] < current
    BY <1>1 DEF CompletedInOrder, Steps
  <1>5. CASE ok /\ saga[current].class = "Compensatable"
    <2>1. completed' = Append(completed, current)
      BY <1>5 DEF Saga!Proceed
    <2>2. /\ completed' \in Seq(Steps)
          /\ Len(completed') = Len(completed) + 1
          /\ completed'[Len(completed) + 1] = current
          /\ \A a \in 1 .. Len(completed) : completed'[a] = completed[a]
      BY <1>1, <2>1
    <2>3. \A a, b \in 1 .. Len(completed') :
            a < b => completed'[a] < completed'[b]
      <3>1. TAKE a, b \in 1 .. Len(completed')
      <3>2. HAVE a < b
      <3>3. a \in 1 .. Len(completed)
        BY <1>1, <2>2, <3>2
      <3>4. completed'[a] = completed[a]
        BY <2>2, <3>3
      <3>5. CASE b \in 1 .. Len(completed)
        <4>1. completed'[b] = completed[b] /\ completed[a] < completed[b]
          BY <2>2, <3>2, <3>3, <3>5 DEF CompletedInOrder
        <4>2. QED  BY <3>4, <4>1
      <3>6. CASE b = Len(completed) + 1
        <4>1. completed'[b] = current
          BY <2>2, <3>6
        <4>2. QED  BY <1>4, <3>3, <3>4, <4>1
      <3>7. QED  BY <1>1, <2>2, <3>5, <3>6
    <2>4. Forward' => current' = current + 1
      BY <1>2, <1>5 DEF Forward
    <2>5. Forward' => \A a \in 1 .. Len(completed') : completed'[a] < current'
      <3>1. current \in Nat
        BY <1>1 DEF Steps
      <3>2. \A a \in 1 .. Len(completed') :
              a \in 1 .. Len(completed) \/ a = Len(completed) + 1
        BY <1>1, <2>2
      <3>3. \A a \in 1 .. Len(completed') : completed'[a] < current + 1
        BY <1>4, <2>2, <3>1, <3>2
      <3>4. QED  BY <2>4, <3>3
    <2>6. \A i : IsCompleted(i)' <=> IsCompleted(i) \/ i = current
      BY <1>1, <2>2 DEF IsCompleted
    <2>7. CompletedInOrder'
      BY <2>3, <2>5 DEF CompletedInOrder
    <2>8. QED  BY <1>2, <1>3, <1>5, <2>2, <2>6, <2>7
  <1>6. CASE ~(ok /\ saga[current].class = "Compensatable")
    <2>1. completed' = completed
      BY <1>6 DEF Saga!Proceed
    <2>2. \A i : IsCompleted(i)' <=> IsCompleted(i)
      BY <2>1 DEF IsCompleted
    <2>3. \A a \in 1 .. Len(completed') : completed'[a] < current'
      BY <1>1, <1>3, <1>4, <2>1 DEF Steps
    <2>4. CompletedInOrder'
      BY <2>1, <2>3 DEF CompletedInOrder
    <2>5. QED  BY <1>1, <1>2, <1>3, <1>6, <2>1, <2>2, <2>4
  <1>7. QED  BY <1>5, <1>6

LEMMA ExecuteKeepsSagaInv ==
    ASSUME SagaInv, Saga!Execute
    PROVE  SagaInv'
  <1>1. UNCHANGED <<saga, checkpointed, intents, outcomes, pending, errors>>
    BY DEF Saga!Execute, Saga!plan, Saga!checkpoint, Saga!bounds
  <1>2. SagaTypes /\ Saga!UndoneInReverse /\ Saga!FinalComesLast
    BY DEF SagaInv
  <1>3. PICK ok \in BOOLEAN :
          /\ Saga!Ran("do", current, ok)
          /\ failed' = ~ok
          /\ IF Saga!Recorded(current)
             THEN position' = "settle" /\ UNCHANGED <<current, completed>>
             ELSE Saga!Proceed(ok)
    BY DEF Saga!Execute
  <1>4. /\ position \in {"step", "intended"} /\ Forward
        /\ position = "step" <=> ~Saga!Recorded(current)
    BY DEF Saga!Execute, Forward, SagaInv, AllBeforeHasRun
  <1>5. /\ current \in Steps /\ current \in Nat
        /\ Saga!Recorded(current) => saga[current].class # "Compensatable"
    BY <1>2 DEF SagaTypes, Steps, Saga!Recorded, Saga!Final
  <1>6. /\ completed' \in Seq(Steps) /\ current' \in Steps
        /\ CompletedInOrder'
        /\ \A i : IsCompleted(i)' <=> IsCompleted(i) \/
             /\ i = current /\ ok /\ saga[i].class = "Compensatable"
        /\ \/ /\ Saga!Recorded(current)
              /\ position' = "settle" /\ current' = current
           \/ /\ ~Saga!Recorded(current) /\ ok
              /\ position' = "step" /\ current' = current + 1
           \/ /\ ~Saga!Recorded(current) /\ ok
              /\ position' = "done" /\ current' = current
           \/ /\ ~Saga!Recorded(current) /\ ~ok
              /\ position' = "undo" /\ current' = current
    <2>1. CASE Saga!Recorded(current)
      <3>1. UNCHANGED <<current, completed>> /\ position' = "settle"
        BY <1>3, <2>1
      <3>2. /\ completed' \in Seq(Steps) /\ current' \in Steps
            /\ CompletedInOrder'
        BY <1>2, <1>4, <3>1 DEF SagaTypes, SagaInv, CompletedInOrder
      <3>3. \A i : IsCompleted(i)' <=> IsCompleted(i)
        BY <3>1 DEF IsCompleted
      <3>4. QED  BY <1>5, <2>1, <3>1, <3>2, <3>3
    <2>2. CASE ~Saga!Recorded(current)
      <3>1. Saga!Proceed(ok)
        BY <1>3, <2>2
      <3>2. CompletedInOrder
        BY DEF SagaInv
      <3>3. QED
        BY <1>1, <1>2, <1>4, <2>2, <3>1, <3>2, ProceedKeepsOrder
    <2>3. QED  BY <2>1, <2>2
  <1>7. \A m \in Runs : ~Saga!Undone(m)
    BY <1>4 DEF SagaInv, UndoneAbove
  <1>8. \A i \in 1 .. current - 1 : HasRun(i)
    BY <1>4 DEF SagaInv, AllBeforeHasRun
  <1>9. Saga!UndoneInReverse' /\ Saga!FinalComesLast'
    BY <1>1, <1>2, <1>3, <1>5, <1>6, <1>7, <1>8, HistoryStaysSound
  <1>10. \A j : /\ HasRun(j)' <=> HasRun(j) \/ (j = current /\ ok)
                /\ WasDone(j)' <=> WasDone(j) \/
                     /\ j = current /\ ok
                     /\ saga[j].class = "Compensatable"
                /\ WasUndone(j)' <=> WasUndone(j)
    BY <1>1, <1>2, <1>3, <1>5, RunsAreKept
  <1>11. ~ (\E m \in Runs : Saga!Undone(m))'
    BY <1>1, <1>2, <1>3, <1>5, <1>7, RunsAreKept
  <1>12. Steps' = Steps
    BY <1>1 DEF Steps
  <1>13. SagaTypes'
    <2>1. ran' \in Seq(RunType)'
      BY <1>1, <1>2, <1>3, <1>5, RunIsAdded
    <2>2. position' \in {"settle", "step", "done", "undo"}
      BY <1>6
    <2>3. failed' \in BOOLEAN
      BY <1>3
    <2>4. QED
      BY <1>1, <1>2, <1>6, <1>12, <2>1, <2>2, <2>3, AcceptedStays
      DEF SagaTypes
  <1>14. CompletedIsOwed'
    <2>1. \A i \in Steps : IsCompleted(i) <=> WasDone(i) /\ ~WasUndone(i)
      BY <1>4 DEF SagaInv, CompletedIsOwed
    <2>2. \A i : ~WasUndone(i)
      BY <1>7 DEF WasUndone
    <2>3. QED  BY <1>6, <1>10, <1>12, <2>1, <2>2 DEF CompletedIsOwed
  <1>15. UndoneAbove'
    BY <1>11 DEF UndoneAbove
  <1>16. AllBeforeHasRun' /\ OutcomesAreOver'
    <2>1. position' = "settle" => Saga!Recorded(current)'
      BY <1>1, <1>6 DEF Saga!Recorded, Saga!Final
    <2>2. Forward' => \A i \in 1 .. current' - 1 : HasRun(i)'
      <3>1. \A i \in 1 .. current - 1 : HasRun(i)'
        BY <1>8, <1>10
      <3>2. CASE position' = "step"
        <4>1. current' = current + 1 /\ ok
          BY <1>6, <3>2
        <4>2. \A i \in 1 .. current' - 1 :
                i \in 1 .. current - 1 \/ i = current
          BY <1>5, <4>1
        <4>3. \A i : i = current => HasRun(i)'
          BY <1>10, <4>1
        <4>4. QED  BY <3>1, <4>2, <4>3
      <3>3. CASE position' = "settle"
        BY <1>6, <3>1, <3>3
      <3>4. position' # "intended"
        BY <1>6
      <3>5. QED  BY <3>2, <3>3, <3>4 DEF Forward
    <2>3. position' = "settle" /\ ~failed' => HasRun(current)'
      BY <1>3, <1>5, <1>6, <1>10
    <2>4. \A i \in intents :
            Saga!Final(i)' /\ \A j \in 1 .. i - 1 : HasRun(j)'
      BY <1>1, <1>10 DEF SagaInv, AllBeforeHasRun, Saga!Final
    <2>5. position' # "intended"
      BY <1>6
    <2>6. AllBeforeHasRun'
      BY <1>1, <2>1, <2>2, <2>3, <2>4, <2>5 DEF AllBeforeHasRun
    <2>7. \A i \in outcomes : i < current'
      <3>1. \A i \in outcomes : i < current /\ i \in Nat
        BY <1>2, <1>4 DEF SagaInv, OutcomesAreOver, SagaTypes, Steps
      <3>2. QED  BY <1>5, <1>6, <3>1
    <2>8. OutcomesAreOver'
      BY <1>1, <1>4, <2>7 DEF OutcomesAreOver, SagaInv
    <2>9. QED  BY <2>6, <2>8
  <1>17. IntentsAreSettled'
    BY <1>1, <1>4, <1>6, <1>11 DEF SagaInv, IntentsAreSettled
  <1>18. QED
    BY <1>6, <1>9, <1>13, <1>14, <1>15, <1>16, <1>17 DEF SagaInv

LEMMA RecordOutcomeKeepsSagaInv ==
    ASSUME SagaInv, Saga!RecordOutcome
    PROVE  SagaInv'
  <1>1. UNCHANGED <<saga, checkpointed, failed, intents, pending, ran>>
    BY DEF Saga!RecordOutcome, Saga!plan
  <1>2. SagaTypes /\ Saga!UndoneInReverse /\ Saga!FinalComesLast
        /\ CompletedInOrder
    BY DEF SagaInv
  <1>3. /\ position = "settle" /\ Forward
        /\ \/ outcomes' = outcomes \cup {current} /\ errors' = errors
           \/ outcomes' = outcomes /\ errors' = errors + 1
        /\ Saga!Proceed(~failed)
    BY DEF Saga!RecordOutcome, Saga!Error, Forward
  <1>4. Saga!Recorded(current) /\ saga[current].class # "Compensatable"
    BY <1>3 DEF SagaInv, AllBeforeHasRun, Saga!Recorded, Saga!Final
  <1>5. current \in Steps /\ current \in Nat /\ errors \in Nat
        /\ failed \in BOOLEAN
    BY <1>2 DEF SagaTypes, Steps
  <1>6. /\ completed' \in Seq(Steps) /\ current' \in Steps
        /\ CompletedInOrder'
        /\ \A i : IsCompleted(i)' <=> IsCompleted(i)
        /\ \/ ~failed /\ position' = "step" /\ current' = current + 1
           \/ ~failed /\ position' = "done" /\ current' = current
           \/ failed /\ position' = "undo" /\ current' = current
    <2>1. PICK ok \in BOOLEAN : ok = ~failed
      BY <1>5
    <2>2. Saga!Proceed(ok)
      BY <1>3, <2>1
    <2>3. /\ completed' \in Seq(Steps) /\ current' \in Steps
          /\ CompletedInOrder'
          /\ \A i : IsCompleted(i)' <=> IsCompleted(i) \/
               /\ i = current /\ ok /\ saga[i].class = "Compensatable"
          /\ \/ ok /\ position' = "step" /\ current' = current + 1
             \/ ok /\ position' = "done" /\ current' = current
             \/ ~ok /\ position' = "undo" /\ current' = current
      BY <1>1, <1>2, <1>3, <2>2, ProceedKeepsOrder
    <2>4. QED  BY <1>4, <1>5, <2>1, <2>3
  <1>7. \A m \in Runs : ~Saga!Undone(m)
    BY <1>3 DEF SagaInv, UndoneAbove
  <1>8. /\ Steps' = Steps /\ Runs' = Runs /\ RunType' = RunType
        /\ \A i : HasRun(i)' <=> HasRun(i)
        /\ \A i : WasDone(i)' <=> WasDone(i)
        /\ \A i : WasUndone(i)' <=> WasUndone(i)
        /\ \A m : Saga!Undone(m)' <=> Saga!Undone(m)
        /\ \A i : Saga!Final(i)' <=> Saga!Final(i)
    BY <1>1, RunsStand
  <1>9. Saga!UndoneInReverse' /\ Saga!FinalComesLast'
    BY <1>1, <1>2, <1>3, <1>6, <1>7, HistoryStands
  <1>10. SagaTypes'
    <2>1. outcomes' \subseteq Steps /\ errors' \in Nat
      <3>1. outcomes \subseteq Steps
        BY <1>2 DEF SagaTypes
      <3>2. outcomes' \subseteq outcomes \cup {current}
            /\ errors' \in {errors, errors + 1}
        BY <1>3
      <3>3. outcomes' \subseteq Steps
        BY <1>5, <3>1, <3>2
      <3>4. errors' \in Nat
        BY <1>5, <3>2
      <3>5. QED  BY <3>3, <3>4
    <2>2. position' \in {"step", "done", "undo"}
      BY <1>6
    <2>3. QED
      BY <1>1, <1>2, <1>6, <1>8, <2>1, <2>2, AcceptedStays DEF SagaTypes
  <1>11. CompletedIsOwed'
    BY <1>3, <1>6, <1>8 DEF SagaInv, CompletedIsOwed
  <1>12. UndoneAbove'
    BY <1>7, <1>8 DEF UndoneAbove
  <1>13. AllBeforeHasRun'
    <2>1. position' \notin {"intended", "settle"}
      BY <1>6
    <2>2. Forward' => \A i \in 1 .. current' - 1 : HasRun(i)
      <3>1. Forward' => current' - 1 = current /\ ~failed
        <4>1. Forward' => current' = current + 1 /\ ~failed
          BY <1>6 DEF Forward
        <4>2. QED  BY <1>5, <4>1
      <3>2. \A i \in 1 .. current - 1 : HasRun(i)
        BY <1>3 DEF SagaInv, AllBeforeHasRun
      <3>3. ~failed => HasRun(current)
        BY <1>3 DEF SagaInv, AllBeforeHasRun
      <3>4. \A i \in 1 .. current : i \in 1 .. current - 1 \/ i = current
        BY <1>5
      <3>5. ~failed => \A i \in 1 .. current : HasRun(i)
        BY <3>2, <3>3, <3>4
      <3>6. QED  BY <3>1, <3>5
    <2>3. QED
      BY <1>1, <1>8, <2>1, <2>2 DEF SagaInv, AllBeforeHasRun
  <1>14. OutcomesAreOver'
    <2>1. pending = {} /\ \A i \in outcomes : i < current /\ i \in Nat
      BY <1>2, <1>3 DEF SagaInv, OutcomesAreOver, SagaTypes, Steps
    <2>2. Forward' => current' = current + 1
      BY <1>6 DEF Forward
    <2>3. Forward' => \A i \in outcomes' : i < current'
      BY <1>3, <1>5, <2>1, <2>2
    <2>4. QED  BY <1>1, <2>1, <2>3 DEF OutcomesAreOver
  <1>15. IntentsAreSettled'
    <2>1. errors' = 0 => errors = 0 /\ outcomes' = outcomes \cup {current}
      BY <1>3, <1>5
    <2>2. QED  BY <1>1, <1>3, <2>1 DEF SagaInv, IntentsAreSettled
  <1>16. QED
    BY <1>6, <1>9, <1>10, <1>11, <1>12, <1>13, <1>14, <1>15 DEF SagaInv

LEMMA CompensateKeepsSagaInv ==
    ASSUME SagaInv, Saga!Compensate
    PROVE  SagaInv'
  <1> DEFINE last == completed[Len(completed)]
  <1>1. UNCHANGED <<saga, checkpointed, position, current, failed, intents,
                    outcomes, pending, errors>>
    BY DEF Saga!Compensate, Saga!plan, Saga!checkpoint, Saga!bounds
  <1>2. SagaTypes /\ Saga!UndoneInReverse /\ Saga!FinalComesLast
        /\ CompletedInOrder
    BY DEF SagaInv
  <1>3. PICK ok \in BOOLEAN : Saga!Ran("undo", last, ok)
    BY DEF Saga!Compensate, Saga!Last
  <1>4. position = "undo" /\ completed # <<>>
        /\ completed' = SubSeq(completed, 1, Len(completed) - 1)
    BY DEF Saga!Compensate, Saga!Front
  <1>5. completed \in Seq(Steps) /\ Len(completed) \in Nat
        /\ Len(completed) >= 1
    BY <1>2, <1>4 DEF SagaTypes
  <1>6. /\ completed' \in Seq(Steps)
        /\ Len(completed') = Len(completed) - 1
        /\ \A a \in 1 .. Len(completed') : completed'[a] = completed[a]
    <2>1. completed' \in Seq(Steps)
      BY <1>4, <1>5
    <2>2. Len(completed') = Len(completed) - 1
      <3>1. PICK n \in Nat : n = Len(completed) - 1
        BY <1>5
      <3>2. \A i \in 1 .. n : completed[i] \in Steps
        BY <1>5, <3>1
      <3>3. Len(SubSeq(completed, 1, n)) = IF 1 <= n THEN n - 1 + 1 ELSE 0
        BY <3>2, SubSeqProperties
      <3>4. QED  BY <1>4, <3>1, <3>3
    <2>3. \A a \in 1 .. Len(completed) - 1 : completed'[a] = completed[a]
      BY <1>4, <1>5
    <2>4. QED  BY <2>1, <2>2, <2>3
  <1>7. last \in Steps /\ last \in Nat
    BY <1>5 DEF Steps
  <1>8. \A a \in 1 .. Len(completed) :
          /\ completed[a] \in Nat
          /\ \/ a = Len(completed)
             \/ a \in 1 .. Len(completed') /\ completed[a] < last
    BY <1>2, <1>5, <1>6 DEF CompletedInOrder, Steps
  <1>9. PICK c \in Steps : c = last
    BY <1>7
  <1> HIDE DEF last
  <1>10. c \in Nat /\ Saga!Ran("undo", c, ok)
    BY <1>3, <1>7, <1>9
  <1>11. IsCompleted(c) /\ \A i : IsCompleted(i)' <=> IsCompleted(i) /\ i # c
    <2>1. IsCompleted(c)
      BY <1>5, <1>9 DEF IsCompleted, last
    <2>2. ASSUME NEW a \in 1 .. Len(completed')
          PROVE  /\ a \in 1 .. Len(completed)
                 /\ completed'[a] = completed[a] /\ completed[a] # c
      <3>1. a \in 1 .. Len(completed) /\ a < Len(completed) /\ a \in Nat
        BY <1>5, <1>6, <2>2
      <3>2. completed[a] < c /\ completed[a] \in Nat
        BY <1>8, <1>9, <3>1
      <3>3. QED  BY <1>6, <1>10, <3>1, <3>2
    <2>3. \A a \in 1 .. Len(completed) :
            completed[a] = c \/ a \in 1 .. Len(completed')
      BY <1>8, <1>9 DEF last
    <2>4. \A i : IsCompleted(i)' <=> IsCompleted(i) /\ i # c
      BY <2>2, <2>3 DEF IsCompleted
    <2>5. QED  BY <2>1, <2>4
  <1>12. \A i \in Steps : IsCompleted(i) <=> WasDone(i) /\ ~WasUndone(i)
    BY <1>4 DEF SagaInv, CompletedIsOwed
  <1>13. \A m \in Runs : Saga!Undone(m) => ran[m].step > c
    BY <1>4, <1>5, <1>9 DEF SagaInv, UndoneAbove, last
  <1>14. \A m \in Runs : Saga!Done(m) /\ ran[m].step > c
                         => WasUndone(ran[m].step)
    <2>1. SUFFICES ASSUME NEW m \in Runs, Saga!Done(m), ran[m].step > c,
                          ~WasUndone(ran[m].step)
                   PROVE  FALSE
      OBVIOUS
    <2>2. ran[m] \in RunType
      BY <1>2 DEF SagaTypes, Runs
    <2>3. ran[m].step \in Steps /\ ran[m].step \in Nat
      BY <2>2 DEF RunType, Steps
    <2>4. IsCompleted(ran[m].step)
      BY <1>12, <2>1, <2>3 DEF WasDone
    <2>5. QED  BY <1>8, <1>9, <1>10, <2>1, <2>3, <2>4 DEF IsCompleted, last
  <1>15. ~Saga!Final(c)
    BY <1>11, <1>12 DEF WasDone, Saga!Done, Saga!Final
  <1>16. Saga!UndoneInReverse' /\ Saga!FinalComesLast'
    <2>1. WasDone(c) /\ position' = "undo"
      BY <1>1, <1>4, <1>11, <1>12
    <2>2. QED
      BY <1>1, <1>2, <1>10, <1>13, <1>14, <1>15, <2>1, HistoryStaysSound
  <1>17. \A j : /\ HasRun(j) => HasRun(j)'
                /\ WasDone(j)' <=> WasDone(j)
                /\ WasUndone(j)' <=> WasUndone(j) \/ j = c
    BY <1>1, <1>2, <1>10, RunsAreKept
  <1>18. Steps' = Steps
    BY <1>1 DEF Steps
  <1>19. SagaTypes'
    <2>1. ran' \in Seq(RunType)'
      BY <1>1, <1>2, <1>10, RunIsAdded
    <2>2. QED
      BY <1>1, <1>2, <1>6, <1>18, <2>1, AcceptedStays DEF SagaTypes
  <1>20. CompletedInOrder' /\ CompletedIsOwed'
    <2>1. \A a, b \in 1 .. Len(completed') :
            a < b => completed'[a] < completed'[b]
      BY <1>2, <1>5, <1>6 DEF CompletedInOrder
    <2>2. ~Forward'
      BY <1>1, <1>4 DEF Forward
    <2>3. QED
      BY <1>11, <1>12, <1>17, <1>18, <2>1, <2>2
      DEF CompletedInOrder, CompletedIsOwed
  <1>21. UndoneAbove'
    <2>1. PICK k : k = Len(ran) + 1
      OBVIOUS
    <2>2. /\ Runs' = Runs \cup {k} /\ ran'[k].step = c
          /\ \A m \in Runs : Saga!Undone(m)' <=> Saga!Undone(m)
      BY <1>1, <1>2, <1>10, <2>1, RunsAfter
    <2>3. \A m \in Runs : ran'[m] = ran[m]
      BY <1>1, <1>2, <1>10, RunIsAdded
    <2>4. \A a \in 1 .. Len(completed') : completed'[a] < c
      BY <1>5, <1>6, <1>8, <1>9
    <2>5. \A m \in Runs, a \in 1 .. Len(completed') :
            Saga!Undone(m) => completed'[a] < ran[m].step
      BY <1>4, <1>5, <1>6 DEF SagaInv, UndoneAbove
    <2>6. ~Forward' /\ position' = "undo"
      BY <1>1, <1>4 DEF Forward
    <2>7. QED  BY <2>2, <2>3, <2>4, <2>5, <2>6 DEF UndoneAbove
  <1>22. AllBeforeHasRun' /\ OutcomesAreOver'
    <2>1. ~Forward' /\ position' = "undo"
      BY <1>1, <1>4 DEF Forward
    <2>2. \A i \in intents :
            Saga!Final(i)' /\ \A j \in 1 .. i - 1 : HasRun(j)'
      BY <1>1, <1>17 DEF SagaInv, AllBeforeHasRun, Saga!Final
    <2>3. QED
      BY <1>1, <2>1, <2>2 DEF SagaInv, AllBeforeHasRun, OutcomesAreOver
  <1>23. IntentsAreSettled'
    BY <1>1, <1>4 DEF SagaInv, IntentsAreSettled
  <1>24. QED
    BY <1>16, <1>19, <1>20, <1>21, <1>22, <1>23 DEF SagaInv

LEMMA ReturnFailureKeepsSagaInv ==
    ASSUME SagaInv, Saga!ReturnFailure
    PROVE  SagaInv'
  <1>1. UNCHANGED <<saga, checkpointed, current, failed, completed, intents,
                    outcomes, pending, ran, errors>>
    BY DEF Saga!ReturnFailure, Saga!plan, Saga!checkpoint, Saga!bounds
  <1>2. position = "undo" /\ completed = <<>> /\ position' = "aborted"
    BY DEF Saga!ReturnFailure
  <1>3. SagaTypes /\ Saga!UndoneInReverse /\ Saga!FinalComesLast
    BY DEF SagaInv
  <1>4. /\ Steps' = Steps /\ Runs' = Runs /\ RunType' = RunType
        /\ \A i : HasRun(i)' <=> HasRun(i)
        /\ \A m : Saga!Undone(m)' <=> Saga!Undone(m)
        /\ \A i : Saga!Final(i)' <=> Saga!Final(i)
    BY <1>1, RunsStand
  <1>5. \A i \in Steps : WasDone(i) => WasUndone(i)
    <2>1. \A i : ~IsCompleted(i)
      BY <1>2 DEF IsCompleted
    <2>2. QED  BY <1>2, <2>1 DEF SagaInv, CompletedIsOwed
  <1>6. Saga!UndoneInReverse' /\ Saga!FinalComesLast'
    BY <1>1, <1>2, <1>3, <1>5, HistoryStands
  <1>7. SagaTypes'
    BY <1>1, <1>2, <1>3, <1>4, AcceptedStays DEF SagaTypes
  <1>8. ~Forward' /\ position' \notin {"undo", "done"}
    BY <1>2 DEF Forward
  <1>9. CompletedInOrder' /\ CompletedIsOwed' /\ UndoneAbove'
    BY <1>1, <1>8
    DEF SagaInv, CompletedInOrder, CompletedIsOwed, UndoneAbove
  <1>10. AllBeforeHasRun' /\ OutcomesAreOver' /\ IntentsAreSettled'
    BY <1>1, <1>2, <1>4, <1>8
    DEF SagaInv, AllBeforeHasRun, OutcomesAreOver, IntentsAreSettled
  <1>11. QED  BY <1>6, <1>7, <1>9, <1>10 DEF SagaInv

\* What a step leaves that runs no tool and is not part of execute_inner.
LEMMA LaterStepKeepsSagaInv ==
    ASSUME SagaInv,
           UNCHANGED <<saga, checkpointed, current, failed, intents, ran>>,
           position' \in {"recover", "resettle", "over"},
           completed' = completed \/ completed' = <<>>,
           outcomes \subseteq outcomes', outcomes' \subseteq Steps,
           pending' \subseteq intents \ outcomes',
           errors' \in {errors, errors + 1},
           errors' = 0 /\ (\E m \in Runs : Saga!Undone(m))
             => intents \subseteq outcomes
    PROVE  SagaInv'
  <1>1. SagaTypes /\ Saga!UndoneInReverse /\ Saga!FinalComesLast
    BY DEF SagaInv
  <1>2. /\ Steps' = Steps /\ Runs' = Runs /\ RunType' = RunType
        /\ \A i : HasRun(i)' <=> HasRun(i)
        /\ \A m : Saga!Undone(m)' <=> Saga!Undone(m)
        /\ \A i : Saga!Final(i)' <=> Saga!Final(i)
    BY RunsStand
  <1>3. position' # "aborted" /\ position' # "done"
    OBVIOUS
  <1>4. Saga!UndoneInReverse' /\ Saga!FinalComesLast'
    BY <1>1, <1>3, HistoryStands
  <1>5. SagaTypes'
    <2>1. completed' \in Seq(Steps)
      <3>1. <<>> \in Seq(Steps)
        OBVIOUS
      <3>2. completed \in Seq(Steps)
        BY <1>1 DEF SagaTypes
      <3>3. QED  BY <3>1, <3>2
    <2>2. pending' \subseteq Steps /\ errors' \in Nat
      BY <1>1 DEF SagaTypes
    <2>3. QED
      BY <1>1, <1>2, <2>1, <2>2, AcceptedStays DEF SagaTypes
  <1>6. ~Forward' /\ position' \notin {"undo", "done", "step"}
    BY DEF Forward
  <1>7. CompletedInOrder'
    <2>1. CASE completed' = completed
      BY <1>6, <2>1 DEF SagaInv, CompletedInOrder
    <2>2. CASE completed' = <<>>
      BY <1>6, <2>2 DEF CompletedInOrder
    <2>3. QED  BY <2>1, <2>2
  <1>8. CompletedIsOwed' /\ UndoneAbove'
    BY <1>6 DEF CompletedIsOwed, UndoneAbove
  <1>9. AllBeforeHasRun' /\ OutcomesAreOver' /\ IntentsAreSettled'
    <2>1. AllBeforeHasRun'
      BY <1>2, <1>6 DEF SagaInv, AllBeforeHasRun, Forward
    <2>2. OutcomesAreOver'
      BY <1>6 DEF OutcomesAreOver
    <2>3. IntentsAreSettled'
      BY <1>2, <1>6 DEF IntentsAreSettled, Forward
    <2>4. QED  BY <2>1, <2>2, <2>3
  <1>10. QED  BY <1>4, <1>5, <1>7, <1>8, <1>9 DEF SagaInv

LEMMA RecoverKeepsSagaInv ==
    ASSUME SagaInv, Saga!Recover
    PROVE  SagaInv'
  <1>1. /\ UNCHANGED <<saga, checkpointed, current, failed, intents, ran,
                       completed, outcomes, errors>>
        /\ position' = "recover" /\ pending' = intents \ outcomes
    BY DEF Saga!Recover, Saga!plan, Saga!checkpoint, Saga!PendingIntents
  <1>2. outcomes' \subseteq Steps
    BY <1>1 DEF SagaInv, SagaTypes
  <1>3. errors' = 0 /\ (\E m \in Runs : Saga!Undone(m))
          => intents \subseteq outcomes
    BY <1>1 DEF SagaInv, IntentsAreSettled
  <1>4. QED  BY <1>1, <1>2, <1>3, LaterStepKeepsSagaInv

LEMMA RecordRedoneKeepsSagaInv ==
    ASSUME SagaInv, Saga!RecordRedone
    PROVE  SagaInv'
  <1>1. PICK i \in pending :
          /\ \/ outcomes' = outcomes \cup {i} /\ errors' = errors
             \/ outcomes' = outcomes /\ errors' = errors + 1
          /\ pending' = pending \ {i}
          /\ position' \in {"over", "recover"}
    BY DEF Saga!RecordRedone, Saga!Error
  <1>2. UNCHANGED <<saga, checkpointed, current, failed, intents, ran,
                    completed>>
    BY DEF Saga!RecordRedone, Saga!plan
  <1>3. pending \subseteq intents \ outcomes /\ pending \subseteq Steps
        /\ outcomes \subseteq Steps /\ errors \in Nat
    BY DEF SagaInv, OutcomesAreOver, SagaTypes
  <1>4. /\ outcomes \subseteq outcomes' /\ outcomes' \subseteq Steps
        /\ pending' \subseteq intents \ outcomes'
        /\ errors' \in {errors, errors + 1}
    BY <1>1, <1>3
  <1>5. errors' = 0 /\ (\E m \in Runs : Saga!Undone(m))
          => intents \subseteq outcomes
    BY <1>1, <1>3 DEF SagaInv, IntentsAreSettled
  <1>6. QED  BY <1>1, <1>2, <1>4, <1>5, LaterStepKeepsSagaInv

LEMMA CrashKeepsSagaInv ==
    ASSUME SagaInv, Saga!Crash
    PROVE  SagaInv'
  <1>1. /\ UNCHANGED <<saga, checkpointed, current, failed, intents, ran,
                       outcomes, errors>>
        /\ position' = "over" /\ completed' = <<>> /\ pending' = {}
    BY DEF Saga!Crash, Saga!plan, Saga!checkpoint
  <1>2. outcomes' \subseteq Steps
    BY <1>1 DEF SagaInv, SagaTypes
  <1>3. errors' = 0 /\ (\E m \in Runs : Saga!Undone(m))
          => intents \subseteq outcomes
    BY <1>1 DEF SagaInv, IntentsAreSettled
  <1>4. QED  BY <1>1, <1>2, <1>3, LaterStepKeepsSagaInv

\* A recovery repeats what a crash has cut short before anything was undone,
\* unless an outcome was lost.
LEMMA RedoKeepsSagaInv ==
    ASSUME SagaInv, Saga!Redo
    PROVE  SagaInv'
  <1>1. PICK i \in pending, ok \in BOOLEAN : Saga!Ran("redo", i, ok)
    BY DEF Saga!Redo
  <1>2. UNCHANGED <<saga, checkpointed, current, failed, completed, intents,
                    outcomes, pending, errors>>
        /\ position = "recover" /\ position' = "resettle"
    BY DEF Saga!Redo, Saga!plan, Saga!checkpoint, Saga!bounds
  <1>3. SagaTypes /\ Saga!UndoneInReverse /\ Saga!FinalComesLast
    BY DEF SagaInv
  <1>4. i \in Steps /\ i \in intents /\ i \notin outcomes
    BY DEF SagaInv, SagaTypes, OutcomesAreOver
  <1>5. /\ \A j \in 1 .. i - 1 : HasRun(j)
        /\ errors = 0 => \A m \in Runs : ~Saga!Undone(m)
    BY <1>4 DEF SagaInv, AllBeforeHasRun, IntentsAreSettled
  <1>6. Saga!UndoneInReverse' /\ Saga!FinalComesLast'
    BY <1>1, <1>2, <1>3, <1>4, <1>5, HistoryStaysSound
  <1>7. /\ \A j : HasRun(j) => HasRun(j)'
        /\ (\E m \in Runs : Saga!Undone(m))'
             <=> \E m \in Runs : Saga!Undone(m)
    BY <1>1, <1>2, <1>3, <1>4, RunsAreKept
  <1>8. Steps' = Steps
    BY <1>2 DEF Steps
  <1>9. SagaTypes'
    <2>1. ran' \in Seq(RunType)'
      BY <1>1, <1>2, <1>3, <1>4, RunIsAdded
    <2>2. QED
      BY <1>2, <1>3, <1>8, <2>1, AcceptedStays DEF SagaTypes
  <1>10. ~Forward' /\ position' \notin {"undo", "done", "step"}
    BY <1>2 DEF Forward
  <1>11. CompletedInOrder' /\ CompletedIsOwed' /\ UndoneAbove'
    BY <1>2, <1>10
    DEF SagaInv, CompletedInOrder, CompletedIsOwed, UndoneAbove
  <1>12. AllBeforeHasRun' /\ OutcomesAreOver'
    <2>1. \A j \in intents :
            Saga!Final(j)' /\ \A n \in 1 .. j - 1 : HasRun(n)'
      BY <1>2, <1>7 DEF SagaInv, AllBeforeHasRun, Saga!Final
    <2>2. QED
      BY <1>2, <1>10, <2>1
      DEF SagaInv, AllBeforeHasRun, OutcomesAreOver, Forward
  <1>13. IntentsAreSettled'
    BY <1>2, <1>7, <1>10 DEF SagaInv, IntentsAreSettled, Forward
  <1>14. QED
    BY <1>6, <1>9, <1>11, <1>12, <1>13 DEF SagaInv

LEMMA SagaInvStep ==
    ASSUME SagaInv, Saga!Next
    PROVE  SagaInv'
  <1>1. CASE Saga!RecordIntent
    BY <1>1, RecordIntentKeepsSagaInv
  <1>2. CASE Saga!Execute
    BY <1>2, ExecuteKeepsSagaInv
  <1>3. CASE Saga!RecordOutcome
    BY <1>3, RecordOutcomeKeepsSagaInv
  <1>4. CASE Saga!Compensate
    BY <1>4, CompensateKeepsSagaInv
  <1>5. CASE Saga!ReturnFailure
    BY <1>5, ReturnFailureKeepsSagaInv
  <1>6. CASE Saga!Recover
    BY <1>6, RecoverKeepsSagaInv
  <1>7. CASE Saga!Redo
    BY <1>7, RedoKeepsSagaInv
  <1>8. CASE Saga!RecordRedone
    BY <1>8, RecordRedoneKeepsSagaInv
  <1>9. CASE Saga!Crash
    BY <1>9, CrashKeepsSagaInv
  <1>10. QED
    BY <1>1, <1>2, <1>3, <1>4, <1>5, <1>6, <1>7, <1>8, <1>9
    DEF Saga!Next, Saga!Run, Saga!Recovery

LEMMA SagaInvStutter ==
    ASSUME SagaInv, UNCHANGED sagas
    PROVE  SagaInv'
  <1>1. UNCHANGED <<saga, checkpointed, position, current, failed, completed,
                    intents, outcomes, pending, ran, errors>>
    BY DEF sagas
  <1>2. SagaTypes /\ Saga!UndoneInReverse /\ Saga!FinalComesLast
    BY DEF SagaInv
  <1>3. /\ Steps' = Steps /\ Runs' = Runs /\ RunType' = RunType
        /\ \A i : HasRun(i)' <=> HasRun(i)
        /\ \A i : WasDone(i)' <=> WasDone(i)
        /\ \A i : WasUndone(i)' <=> WasUndone(i)
        /\ \A m : Saga!Undone(m)' <=> Saga!Undone(m)
        /\ \A i : Saga!Final(i)' <=> Saga!Final(i)
    BY <1>1, RunsStand
  <1>4. /\ \A m : Saga!Done(m)' <=> Saga!Done(m)
        /\ \A i : IsCompleted(i)' <=> IsCompleted(i)
        /\ Saga!Recorded(current)' <=> Saga!Recorded(current)
        /\ HasRun(current)' <=> HasRun(current)
    BY <1>1 DEF Saga!Done, IsCompleted, Saga!Recorded, Saga!Final, HasRun, Runs
  <1>5. SagaTypes'
    BY <1>1, <1>2, <1>3, AcceptedStays DEF SagaTypes
  <1>6. Saga!UndoneInReverse' /\ Saga!FinalComesLast'
    BY <1>1, <1>2, <1>3, <1>4 DEF Saga!UndoneInReverse, Saga!FinalComesLast
  <1>7. CompletedInOrder' /\ CompletedIsOwed' /\ UndoneAbove'
    BY <1>1, <1>3, <1>4
    DEF SagaInv, CompletedInOrder, CompletedIsOwed, UndoneAbove, Forward
  <1>8. AllBeforeHasRun' /\ OutcomesAreOver' /\ IntentsAreSettled'
    BY <1>1, <1>3, <1>4 DEF SagaInv, AllBeforeHasRun, OutcomesAreOver,
       IntentsAreSettled, Forward
  <1>9. QED  BY <1>5, <1>6, <1>7, <1>8 DEF SagaInv

LEMMA SagaInvIsInvariant == ReasoningSpec => []SagaInv
  <1>1. ReasoningInit => SagaInv
    BY ReasoningAssumption, SagaInvInit DEF ReasoningInit
  <1>2. SagaInv /\ [ReasoningNext]_<<service, vars, context, sagas,
                                    durable>>
          => SagaInv'
    BY SagaInvStep, SagaInvStutter DEF ReasoningNext
  <1>3. QED  BY <1>1, <1>2, PTL DEF ReasoningSpec

\* A saga compensates what it did, each step once and the last first, and all
\* of it before it returns a failure; and a step that cannot be undone runs
\* only after all before it, and, while the checkpoint records what it is
\* told, never after a compensation: with any number of steps, crashes and
\* recoveries (saga.rs:219).
THEOREM SagasAreUndoneInReverse == ReasoningSpec => []SagaIsSound
  <1>1. SagaInv => SagaIsSound
    <2>1. SUFFICES ASSUME SagaInv PROVE SagaIsSound
      OBVIOUS
    <2>2. SagaTypes
      BY <2>1 DEF SagaInv
    <2>3. \A k \in 1 .. Len(ran) :
            ran[k].kind \in {"do", "undo", "redo"} /\ ran[k].step <= Len(saga)
      <3>1. \A k \in 1 .. Len(ran) : ran[k] \in RunType
        BY <2>2 DEF SagaTypes
      <3>2. QED  BY <3>1 DEF RunType, Steps
    <2>4. \A s \in {intents, outcomes, pending} : s \subseteq 1 .. Len(saga)
      BY <2>2 DEF SagaTypes, Steps
    <2>5. Saga!TypeOK
      BY <2>2, <2>3, <2>4 DEF Saga!TypeOK, SagaTypes, Steps
    <2>6. QED
      BY <2>1, <2>5 DEF SagaInv, SagaIsSound, Saga!SagaIsSound
  <1>2. QED  BY <1>1, SagaInvIsInvariant, PTL

\* No tool of a step whose outcome is known is run, neither by execute nor by
\* a recovery (saga.rs:325).
THEOREM SettledStepsStayUntouched == ReasoningSpec => SettledIsFinal
  <1> DEFINE Untouched ==
        \A i \in outcomes : ran' # ran =>
            Saga!Last(ran').step # i \/ Saga!Last(ran').kind = "undo"
  <1>1. SagaInv /\ [ReasoningNext]_<<service, vars, context, sagas,
                                    durable>>
          => [Untouched]_(Saga!vars)
    <2>1. SUFFICES ASSUME SagaInv, ReasoningNext
                   PROVE  Untouched \/ UNCHANGED Saga!vars
      BY DEF sagas, Saga!vars, Saga!plan, Saga!checkpoint, Saga!bounds
    <2>2. SagaTypes
      BY <2>1 DEF SagaInv
    <2>3. ASSUME NEW kind \in {"do", "undo", "redo"}, NEW i \in Steps,
                 NEW ok \in BOOLEAN, Saga!Ran(kind, i, ok), UNCHANGED saga,
                 i \notin outcomes \/ kind = "undo"
          PROVE  Untouched
      <3>1. /\ Len(ran') = Len(ran) + 1
            /\ ran'[Len(ran) + 1] = [kind |-> kind, step |-> i, ok |-> ok]
        BY <2>2, <2>3, RunIsAdded
      <3>2. Saga!Last(ran').step = i /\ Saga!Last(ran').kind = kind
        BY <3>1 DEF Saga!Last
      <3>3. QED  BY <2>3, <3>2
    <2>4. CASE Saga!Execute
      <3>1. PICK ok \in BOOLEAN : Saga!Ran("do", current, ok)
        BY <2>4 DEF Saga!Execute
      <3>2. UNCHANGED saga /\ Forward
        BY <2>4 DEF Saga!Execute, Saga!plan, Forward
      <3>3. current \in Steps /\ current \notin outcomes
        BY <2>1, <2>2, <3>2 DEF SagaInv, OutcomesAreOver, SagaTypes, Steps
      <3>4. QED  BY <2>3, <3>1, <3>2, <3>3
    <2>5. CASE Saga!Compensate
      <3>1. PICK ok \in BOOLEAN :
              Saga!Ran("undo", completed[Len(completed)], ok)
        BY <2>5 DEF Saga!Compensate, Saga!Last
      <3>2. UNCHANGED saga /\ completed # <<>>
        BY <2>5 DEF Saga!Compensate, Saga!plan
      <3>3. completed[Len(completed)] \in Steps
        BY <2>2, <3>2 DEF SagaTypes
      <3>4. PICK c \in Steps : c = completed[Len(completed)]
        BY <3>3
      <3>5. Saga!Ran("undo", c, ok)
        BY <3>1, <3>4
      <3>6. QED  BY <2>3, <3>2, <3>5
    <2>6. CASE Saga!Redo
      <3>1. PICK i \in pending, ok \in BOOLEAN : Saga!Ran("redo", i, ok)
        BY <2>6 DEF Saga!Redo
      <3>2. UNCHANGED saga
        BY <2>6 DEF Saga!Redo, Saga!plan
      <3>3. i \in Steps /\ i \notin outcomes
        BY <2>1, <2>2 DEF SagaInv, OutcomesAreOver, SagaTypes
      <3>4. QED  BY <2>3, <3>1, <3>2, <3>3
    <2>7. CASE UNCHANGED ran
      BY <2>7
    <2>8. Saga!Next => Saga!Execute \/ Saga!Compensate \/ Saga!Redo
                       \/ UNCHANGED ran
      BY DEF Saga!Next, Saga!Run, Saga!Recovery, Saga!RecordIntent,
         Saga!RecordOutcome, Saga!ReturnFailure, Saga!Recover,
         Saga!RecordRedone, Saga!Crash
    <2>9. ReasoningNext => Saga!Next \/ UNCHANGED ran
      BY DEF ReasoningNext, sagas
    <2>10. QED  BY <2>1, <2>4, <2>5, <2>6, <2>7, <2>8, <2>9
  <1>2. QED
    BY <1>1, SagaInvIsInvariant, PTL
    DEF ReasoningSpec, SettledIsFinal, Saga!SettledIsFinal

-----------------------------------------------------------------------------
(* The durable journal.                                                      *)

JournalEntry == [id : Nat, sequence : Nat, epoch : Nat]
Stored == 1 .. Len(entries)
Appending(w) == append[w] # Durable!NoEntry

DurableTypes ==
    /\ entries \in Seq(JournalEntry) /\ append \in [Writer -> JournalEntry]
    /\ sequence \in Nat /\ open \in BOOLEAN /\ epoch \in Nat /\ taken \in Nat
    /\ compaction \in {"none", "cleared"}
    /\ \A w \in Writer : append[w].id <= taken

\* No number is higher than the count of those taken.
NumbersAreTaken ==
    /\ sequence <= taken
    /\ \A k \in Stored : entries[k].sequence <= taken
    /\ \A w \in Writer : append[w].sequence <= taken

\* The counter is past the numbers it gave out since it was set.
Behind(e) ==
    /\ e.epoch <= epoch
    /\ open /\ e.epoch = epoch => e.sequence < sequence

CounterIsAhead ==
    /\ \A k \in Stored : Behind(entries[k])
    /\ \A w \in Writer : Appending(w) => Behind(append[w])

Apart(e, f) == e.sequence = f.sequence => e.epoch # f.epoch

\* The entries and those about to be stored differ in number or in epoch.
AllApart ==
    /\ \A i, j \in Stored : i # j => Apart(entries[i], entries[j])
    /\ \A i \in Stored, w \in Writer :
         Appending(w) => Apart(entries[i], append[w])
    /\ \A v, w \in Writer :
         Appending(v) /\ Appending(w) /\ v # w => Apart(append[v], append[w])

DurableInv == DurableTypes /\ NumbersAreTaken /\ CounterIsAhead /\ AllApart

LEMMA DurableInvInit ==
    ASSUME Durable!Init
    PROVE  DurableInv
  <1>1. entries = <<>> /\ Len(entries) = 0 /\ entries \in Seq(JournalEntry)
    BY DEF Durable!Init
  <1>2. Durable!NoEntry \in JournalEntry /\ Durable!NoEntry.id = 0
        /\ Durable!NoEntry.sequence = 0
    BY DEF Durable!NoEntry, JournalEntry
  <1>3. append = [w \in Writer |-> Durable!NoEntry]
    BY DEF Durable!Init
  <1>4. \A w \in Writer : append[w] = Durable!NoEntry
    BY <1>3
  <1>5. append \in [Writer -> JournalEntry]
    BY <1>2, <1>3
  <1>6. DurableTypes
    BY <1>1, <1>2, <1>4, <1>5 DEF Durable!Init, DurableTypes
  <1>7. \A k : k \notin Stored
    BY <1>1 DEF Stored
  <1>8. QED
    BY <1>2, <1>4, <1>6, <1>7 DEF Durable!Init, DurableInv, NumbersAreTaken,
       CounterIsAhead, AllApart, Appending

LEMMA TakeKeepsDurableInv ==
    ASSUME DurableInv, NEW w \in Writer, Durable!Take(w)
    PROVE  DurableInv'
  <1> DEFINE new == [id |-> taken + 1, epoch |-> epoch, sequence |-> sequence]
  <1>1. /\ open /\ append[w] = Durable!NoEntry
        /\ taken' = taken + 1 /\ sequence' = sequence + 1
        /\ append' = [append EXCEPT ![w] = new]
        /\ UNCHANGED <<entries, open, compaction, epoch>>
    BY DEF Durable!Take
  <1>2. DurableTypes
    BY DEF DurableInv
  <1>3. new \in JournalEntry /\ new.id = taken + 1 /\ new.sequence = sequence
        /\ new.epoch = epoch
    BY <1>2 DEF JournalEntry, DurableTypes
  <1>4. append'[w] = new /\ \A v \in Writer : v # w => append'[v] = append[v]
    BY <1>1, <1>2 DEF DurableTypes
  <1> HIDE DEF new
  <1>5. append' \in [Writer -> JournalEntry]
    BY <1>1, <1>2, <1>3 DEF DurableTypes
  <1>6. \A v \in Writer : v # w => (Appending(v)' <=> Appending(v))
    BY <1>4 DEF Appending
  <1>7. /\ \A k \in Stored : entries[k] \in JournalEntry
        /\ \A v \in Writer : append[v] \in JournalEntry
    BY <1>2 DEF DurableTypes, Stored
  <1>8. Stored' = Stored
    BY <1>1 DEF Stored
  <1>9. /\ taken \in Nat /\ sequence \in Nat /\ epoch \in Nat
        /\ sequence' > sequence /\ taken' > taken
    BY <1>1, <1>2 DEF DurableTypes
  <1>10. DurableTypes'
    <2>1. \A v \in Writer : append'[v].id <= taken'
      <3>1. TAKE v \in Writer
      <3>2. CASE v = w
        BY <1>1, <1>3, <1>4, <1>9, <3>2
      <3>3. CASE v # w
        <4>1. append'[v] = append[v] /\ append[v].id <= taken
              /\ append[v].id \in Nat
          BY <1>2, <1>4, <1>7, <3>3 DEF DurableTypes, JournalEntry
        <4>2. QED  BY <1>1, <1>9, <4>1
      <3>4. QED  BY <3>2, <3>3
    <2>2. QED  BY <1>1, <1>2, <1>5, <1>9, <2>1 DEF DurableTypes
  <1>11. NumbersAreTaken'
    <2>1. \A k \in Stored : entries[k].sequence \in Nat
          /\ entries[k].sequence <= taken
      BY <1>7 DEF DurableInv, NumbersAreTaken, JournalEntry
    <2>2. \A v \in Writer : append[v].sequence \in Nat
          /\ append[v].sequence <= taken
      BY <1>7 DEF DurableInv, NumbersAreTaken, JournalEntry
    <2>3. sequence <= taken
      BY DEF DurableInv, NumbersAreTaken
    <2>4. \A v \in Writer : append'[v].sequence <= taken'
      BY <1>1, <1>3, <1>4, <1>9, <2>2, <2>3
    <2>5. QED
      BY <1>1, <1>8, <1>9, <2>1, <2>3, <2>4 DEF NumbersAreTaken
  <1>12. CounterIsAhead'
    <2>1. ASSUME NEW e \in JournalEntry, Behind(e) PROVE Behind(e)'
      BY <1>1, <1>9, <2>1 DEF Behind, JournalEntry
    <2>2. \A k \in Stored : Behind(entries[k])'
      <3>1. TAKE k \in Stored
      <3>2. PICK e \in JournalEntry : e = entries[k]
        BY <1>7
      <3>3. Behind(e)
        BY <3>2 DEF DurableInv, CounterIsAhead
      <3>4. Behind(e)'
        BY <2>1, <3>3
      <3>5. QED  BY <1>1, <3>2, <3>4
    <2>4. ASSUME NEW v \in Writer, Appending(v)'
          PROVE  Behind(append[v])'
      <3>1. CASE v = w
        BY <1>1, <1>3, <1>4, <1>9, <3>1 DEF Behind
      <3>2. CASE v # w
        <4>1. PICK e \in JournalEntry : e = append[v]
          BY <1>7
        <4>2. Behind(e)
          BY <1>6, <2>4, <3>2, <4>1 DEF DurableInv, CounterIsAhead
        <4>3. Behind(e)'
          BY <2>1, <4>2
        <4>4. QED  BY <1>4, <3>2, <4>1, <4>3
      <3>3. QED  BY <3>1, <3>2
    <2>5. QED  BY <1>8, <2>2, <2>4 DEF CounterIsAhead
  <1>13. AllApart'
    <2>1. ASSUME NEW e \in JournalEntry, Behind(e)
          PROVE  Apart(e, new) /\ Apart(new, e)
      BY <1>1, <1>3, <1>9, <2>1 DEF Behind, Apart, JournalEntry
    <2>2. \A i, j \in Stored : i # j => Apart(entries'[i], entries'[j])
      BY <1>1 DEF DurableInv, AllApart
    <2>3. \A i \in Stored, v \in Writer :
            Appending(v)' => Apart(entries'[i], append'[v])
      <3>1. ASSUME NEW i \in Stored PROVE Apart(entries[i], new)
        BY <1>7, <2>1 DEF DurableInv, CounterIsAhead
      <3>2. \A i \in Stored, v \in Writer :
              Appending(v) => Apart(entries[i], append[v])
        BY DEF DurableInv, AllApart
      <3>3. QED  BY <1>1, <1>4, <1>6, <3>1, <3>2
    <2>4. \A u, v \in Writer :
            Appending(u)' /\ Appending(v)' /\ u # v
              => Apart(append'[u], append'[v])
      <3>1. ASSUME NEW v \in Writer, Appending(v)
            PROVE  Apart(append[v], new) /\ Apart(new, append[v])
        BY <1>7, <2>1, <3>1 DEF DurableInv, CounterIsAhead
      <3>2. \A u, v \in Writer :
              Appending(u) /\ Appending(v) /\ u # v
                => Apart(append[u], append[v])
        BY DEF DurableInv, AllApart
      <3>3. QED  BY <1>4, <1>6, <3>1, <3>2
    <2>5. QED  BY <1>8, <2>2, <2>3, <2>4 DEF AllApart, Apart
  <1>14. QED  BY <1>10, <1>11, <1>12, <1>13 DEF DurableInv

LEMMA StoreKeepsDurableInv ==
    ASSUME DurableInv, NEW w \in Writer, Durable!Store(w)
    PROVE  DurableInv'
  <1>1. /\ Appending(w)
        /\ append' = [append EXCEPT ![w] = Durable!NoEntry]
        /\ UNCHANGED <<sequence, open, compaction, epoch, taken>>
        /\ entries' = entries \/ entries' = Append(entries, append[w])
    BY DEF Durable!Store, Durable!bounds, Appending
  <1>2. DurableTypes /\ NumbersAreTaken /\ CounterIsAhead /\ AllApart
    BY DEF DurableInv
  <1>3. /\ append'[w] = Durable!NoEntry
        /\ \A v \in Writer : v # w => append'[v] = append[v]
    BY <1>1, <1>2 DEF DurableTypes
  <1>4. /\ Durable!NoEntry \in JournalEntry /\ Durable!NoEntry.id = 0
        /\ Durable!NoEntry.sequence = 0
    BY DEF Durable!NoEntry, JournalEntry
  <1>5. append' \in [Writer -> JournalEntry]
    BY <1>1, <1>2, <1>4 DEF DurableTypes
  <1>6. \A v \in Writer :
          Appending(v)' => v # w /\ Appending(v) /\ append'[v] = append[v]
    BY <1>3 DEF Appending
  <1>7. /\ append[w] \in JournalEntry
        /\ entries \in Seq(JournalEntry) /\ taken \in Nat
    BY <1>2 DEF DurableTypes
  <1>8. \A e : Behind(e)' <=> Behind(e)
    BY <1>1 DEF Behind
  \* An entry of the storage is one that was there, or the one stored.
  <1>9. \A k \in Stored' : \/ k \in Stored /\ entries'[k] = entries[k]
                           \/ k \notin Stored /\ entries'[k] = append[w]
                                /\ k = Len(entries) + 1
    <2>1. CASE entries' = entries
      BY <2>1 DEF Stored
    <2>2. CASE entries' = Append(entries, append[w])
      <3>1. /\ Len(entries') = Len(entries) + 1 /\ Len(entries) \in Nat
            /\ entries'[Len(entries) + 1] = append[w]
            /\ \A k \in 1 .. Len(entries) : entries'[k] = entries[k]
        BY <1>7, <2>2
      <3>2. QED  BY <3>1 DEF Stored
    <2>3. QED  BY <1>1, <2>1, <2>2
  <1>10. DurableTypes'
    <2>1. entries' \in Seq(JournalEntry)
      BY <1>1, <1>7
    <2>2. \A v \in Writer : append'[v].id <= taken
      BY <1>2, <1>3, <1>4, <1>7 DEF DurableTypes
    <2>3. QED  BY <1>1, <1>2, <1>5, <2>1, <2>2 DEF DurableTypes
  <1>11. NumbersAreTaken'
    <2>1. \A v \in Writer : append'[v].sequence <= taken
      BY <1>2, <1>3, <1>4, <1>7 DEF NumbersAreTaken
    <2>2. \A k \in Stored' : entries'[k].sequence <= taken
      BY <1>2, <1>9 DEF NumbersAreTaken
    <2>3. QED  BY <1>1, <1>2, <2>1, <2>2 DEF NumbersAreTaken
  <1>12. CounterIsAhead'
    BY <1>1, <1>2, <1>6, <1>8, <1>9 DEF CounterIsAhead
  <1>13. AllApart'
    <2>1. \A k \in Stored : Apart(entries[k], append[w])
                            /\ Apart(append[w], entries[k])
      BY <1>1, <1>2 DEF AllApart, Apart
    <2>2. \A i, j \in Stored' : i # j => Apart(entries'[i], entries'[j])
      BY <1>2, <1>9, <2>1 DEF AllApart
    <2>3. \A i \in Stored', v \in Writer :
            Appending(v)' => Apart(entries'[i], append'[v])
      BY <1>1, <1>2, <1>6, <1>9 DEF AllApart
    <2>4. \A u, v \in Writer :
            Appending(u)' /\ Appending(v)' /\ u # v
              => Apart(append'[u], append'[v])
      BY <1>2, <1>6 DEF AllApart
    <2>5. QED  BY <2>2, <2>3, <2>4 DEF AllApart, Apart
  <1>14. QED  BY <1>10, <1>11, <1>12, <1>13 DEF DurableInv

LEMMA ClearKeepsDurableInv ==
    ASSUME DurableInv, Durable!Clear
    PROVE  DurableInv'
  <1>1. /\ entries' = <<>> /\ compaction' = "cleared"
        /\ UNCHANGED <<sequence, open, append, epoch, taken>>
    BY DEF Durable!Clear
  <1>2. entries' \in Seq(JournalEntry) /\ \A k : k \notin Stored'
    BY <1>1 DEF Stored
  <1>3. \A w : Appending(w)' <=> Appending(w)
    BY <1>1 DEF Appending
  <1>4. \A e : Behind(e)' <=> Behind(e)
    BY <1>1 DEF Behind
  <1>5. DurableTypes' /\ NumbersAreTaken'
    BY <1>1, <1>2 DEF DurableInv, DurableTypes, NumbersAreTaken
  <1>6. CounterIsAhead' /\ AllApart'
    BY <1>1, <1>2, <1>3, <1>4
    DEF DurableInv, CounterIsAhead, AllApart, Apart
  <1>7. QED  BY <1>5, <1>6 DEF DurableInv

\* The counter is set anew, in an epoch of its own.
LEMMA NewEpochKeepsDurableInv ==
    ASSUME DurableInv, epoch' = epoch + 1, sequence' \in 0 .. taken,
           UNCHANGED <<entries, append, taken>>,
           compaction' \in {"none", "cleared"}, open' \in BOOLEAN
    PROVE  DurableInv'
  <1>1. DurableTypes
    BY DEF DurableInv
  <1>2. /\ \A k \in Stored : entries[k] \in JournalEntry
        /\ \A w \in Writer : append[w] \in JournalEntry
        /\ epoch \in Nat /\ taken \in Nat
    BY <1>1 DEF DurableTypes, Stored
  <1>3. Stored' = Stored /\ \A w : Appending(w)' <=> Appending(w)
    BY DEF Stored, Appending
  <1>4. DurableTypes' /\ NumbersAreTaken'
    BY <1>1, <1>2, <1>3 DEF DurableInv, DurableTypes, NumbersAreTaken
  <1>5. \A e \in JournalEntry : Behind(e) => Behind(e)'
    BY <1>2 DEF Behind, JournalEntry
  <1>6. CounterIsAhead'
    BY <1>2, <1>3, <1>5 DEF DurableInv, CounterIsAhead
  <1>7. AllApart'
    BY <1>3 DEF DurableInv, AllApart, Apart
  <1>8. QED  BY <1>4, <1>6, <1>7 DEF DurableInv

LEMMA CrashKeepsDurableInv ==
    ASSUME DurableInv, Durable!Crash
    PROVE  DurableInv'
  <1>1. /\ open' = FALSE /\ sequence' = 0
        /\ append' = [w \in Writer |-> Durable!NoEntry]
        /\ compaction' = "none"
        /\ UNCHANGED <<entries, epoch, taken>>
    BY DEF Durable!Crash, Durable!bounds
  <1>2. /\ Durable!NoEntry \in JournalEntry /\ Durable!NoEntry.id = 0
        /\ Durable!NoEntry.sequence = 0
    BY DEF Durable!NoEntry, JournalEntry
  <1>3. DurableTypes /\ taken \in Nat
    BY DEF DurableInv, DurableTypes
  <1>4. /\ append' \in [Writer -> JournalEntry]
        /\ \A w \in Writer : append'[w] = Durable!NoEntry
    BY <1>1, <1>2
  <1>5. Stored' = Stored /\ \A w \in Writer : ~Appending(w)'
    BY <1>1, <1>4 DEF Stored, Appending
  <1>6. DurableTypes' /\ NumbersAreTaken'
    <2>1. \A w \in Writer : append'[w].id <= taken
                             /\ append'[w].sequence <= taken
      BY <1>2, <1>3, <1>4
    <2>2. DurableTypes'
      BY <1>1, <1>3, <1>4, <2>1 DEF DurableTypes
    <2>3. NumbersAreTaken'
      BY <1>1, <1>3, <1>5, <2>1 DEF DurableInv, NumbersAreTaken
    <2>4. QED  BY <2>2, <2>3
  <1>7. \A e : Behind(e) => Behind(e)'
    BY <1>1 DEF Behind
  <1>8. CounterIsAhead' /\ AllApart'
    BY <1>1, <1>5, <1>7 DEF DurableInv, CounterIsAhead, AllApart, Apart
  <1>9. QED  BY <1>6, <1>8 DEF DurableInv

LEMMA InitializeKeepsDurableInv ==
    ASSUME DurableInv, Durable!Initialize
    PROVE  DurableInv'
  <1>1. /\ sequence' = Durable!Latest /\ epoch' = epoch + 1 /\ open' = TRUE
        /\ UNCHANGED <<entries, append, compaction, taken>>
    BY DEF Durable!Initialize
  <1>2. DurableTypes /\ taken \in Nat /\ compaction \in {"none", "cleared"}
    BY DEF DurableInv, DurableTypes
  <1> DEFINE S == {0} \cup {e.sequence : e \in Durable!ToSet(entries)}
  <1>3. S \in SUBSET (0 .. taken) /\ 0 \in S
    <2>1. \A e \in Durable!ToSet(entries) :
            e.sequence \in Nat /\ e.sequence <= taken
      <3>1. \A k \in Stored : entries[k] \in JournalEntry
                              /\ entries[k].sequence <= taken
        BY <1>2 DEF DurableInv, DurableTypes, NumbersAreTaken, Stored
      <3>2. QED  BY <3>1 DEF Durable!ToSet, Stored, JournalEntry
    <2>2. QED  BY <1>2, <2>1
  <1>4. Durable!Latest = Max(S)
    BY DEF Durable!Latest, Durable!Max, Max
  <1> HIDE DEF S
  <1>5. sequence' \in 0 .. taken
    BY <1>1, <1>2, <1>3, <1>4, MaxIsInSet
  <1>6. QED  BY <1>1, <1>2, <1>5, NewEpochKeepsDurableInv

LEMMA DurableInvStep ==
    ASSUME DurableInv, Durable!Next
    PROVE  DurableInv'
  <1>1. CASE Durable!Reset
    <2>1. /\ sequence' = 0 /\ epoch' = epoch + 1 /\ compaction' = "none"
          /\ UNCHANGED <<entries, open, append, taken>>
      BY <1>1 DEF Durable!Reset, Durable!bounds
    <2>2. taken \in Nat /\ open \in BOOLEAN
      BY DEF DurableInv, DurableTypes
    <2>3. sequence' \in 0 .. taken
      BY <2>1, <2>2
    <2>4. QED  BY <2>1, <2>2, <2>3, NewEpochKeepsDurableInv
  <1>2. QED
    BY <1>1, TakeKeepsDurableInv, StoreKeepsDurableInv, ClearKeepsDurableInv,
       CrashKeepsDurableInv, InitializeKeepsDurableInv DEF Durable!Next

LEMMA DurableInvStutter ==
    ASSUME DurableInv, UNCHANGED durable
    PROVE  DurableInv'
  <1>1. UNCHANGED <<entries, sequence, open, append, compaction, epoch, taken>>
    BY DEF durable
  <1>2. QED
    BY <1>1 DEF DurableInv, DurableTypes, NumbersAreTaken, CounterIsAhead,
       AllApart, Stored, Appending, Behind, Apart

LEMMA DurableInvIsInvariant == ReasoningSpec => []DurableInv
  <1>1. ReasoningInit => DurableInv
    BY DurableInvInit DEF ReasoningInit
  <1>2. DurableInv /\ [ReasoningNext]_<<service, vars, context, sagas,
                                    durable>>
          => DurableInv'
    BY DurableInvStep, DurableInvStutter DEF ReasoningNext
  <1>3. QED  BY <1>1, <1>2, PTL DEF ReasoningSpec

\* Two entries of the journal share a number only if the counter was set
\* between the two, however many tasks append, and whenever a compaction or
\* a restart comes between an append's number and its store (journal.rs:168).
THEOREM EntriesAreNumberedOnce == ReasoningSpec => []NumbersAreDistinct
  <1>1. DurableInv => NumbersAreDistinct
    <2>1. SUFFICES ASSUME DurableInv PROVE NumbersAreDistinct
      OBVIOUS
    <2>2. \A k \in 1 .. Len(entries) : entries[k] \in JournalEntry
      BY <2>1 DEF DurableInv, DurableTypes
    <2>3. \A w \in Writer : append[w] \in JournalEntry
      BY <2>1 DEF DurableInv, DurableTypes
    <2>4. Durable!TypeOK
      BY <2>1, <2>2, <2>3
      DEF DurableInv, DurableTypes, Durable!TypeOK, JournalEntry
    <2>5. \A i, j \in 1 .. Len(entries) :
            entries[i].sequence = entries[j].sequence /\ i # j
            => entries[i].epoch # entries[j].epoch
      BY <2>1 DEF DurableInv, AllApart, Apart, Stored
    <2>6. QED
      BY <2>4, <2>5 DEF NumbersAreDistinct, Durable!NumbersAreDistinct
  <1>2. QED  BY <1>1, DurableInvIsInvariant, PTL

===============================================================================
