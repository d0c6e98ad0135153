---------------------------- MODULE ContextManager ----------------------------
(***************************************************************************)
(* The context of one agent in StandardContextManager (context/manager.rs):*)
(* the copy in memory, behind a read-write lock, and the file it is saved  *)
(* to.  Contexts of different agents share nothing but the lock.           *)
(*                                                                         *)
(* A save makes the file empty and then writes it.  update_memory, the     *)
(* retention task and the shutdown save under the lock, store_context      *)
(* saves before it takes the lock, and retrieve_context reads the file     *)
(* without it.  add_knowledge changes the copy in memory only.  The process*)
(* may end anywhere; initialize reads the file back.                       *)
(***************************************************************************)
EXTENDS Naturals, FiniteSets

CONSTANTS Caller,
          Retention,   \* the background task
          MaxItems,    \* bound: memory items and facts ever made
          MaxSessions, \* bound: sessions created
          MaxOps,      \* bound: operations begun
          MaxAccidents \* bound: file operations that fail, and ends

VARIABLES
    cache,     \* the entry of contexts
    file,      \* what the file holds,
    torn,      \* unless it was emptied and is not written yet
    archive,   \* what the archive files hold
    call,      \* the operation of each caller, and that of the retention task
    flag,      \* shutdown_flag
    up,        \* the process runs and is initialized
    owed,      \* history: acknowledged, and to be in the file or an archive
    learned,   \* history: facts acknowledged, and to be in memory
    made, sessions, ops, faults, ends

store == <<file, torn, archive>>
promises == <<owed, learned>>
inputs == <<made, sessions, ops>>
accidents == <<faults, ends>>

vars == <<cache, store, call, flag, up, promises, inputs, accidents>>

Worker == Caller \cup {Retention}
Item == 1..MaxItems

Context(s, m, f) == [session |-> s, memory |-> m, facts |-> f]
NoContext == Context(0, {}, {})

Items(x) == x.memory \cup x.facts
Without(x, gone) ==
    [x EXCEPT !.memory = @ \ gone, !.facts = @ \ gone]

\* data is the context being saved or loaded, items those it is about.
Call(op, stage, data, items) ==
    [op |-> op, stage |-> stage, data |-> data, items |-> items]
Idle == Call("none", "idle", NoContext, {})
Ended == Call("none", "ended", NoContext, {})

\* The agent is new, or was saved by an earlier process.
Init ==
    /\ \E old \in {NoContext, Context(1, {1}, {})} :
         /\ cache = old /\ file = old
         /\ owed = Items(old)
         /\ made = Cardinality(Items(old)) /\ sessions = old.session
    /\ torn = FALSE /\ archive = {}
    /\ call = [w \in Worker |-> Idle]
    /\ flag = FALSE /\ up = TRUE
    /\ learned = {}
    /\ ops = 0 /\ faults = 0 /\ ends = 0

-----------------------------------------------------------------------------
(* The lock of contexts, held across the saves of those who take it first *)

WriteHeld ==
    \E w \in Worker : /\ call[w].op \in {"update", "retention"}
                      /\ call[w].stage \in {"archive", "create", "write"}

ReadHeld ==
    \E c \in Caller : /\ call[c].op = "shutdown"
                      /\ call[c].stage \in {"create", "write"}

\* Faulty variant: the saves of a shutdown do not keep writers out.
CanWriteBeside == ~WriteHeld

CanWrite == ~WriteHeld /\ ~ReadHeld
CanRead == ~WriteHeld

Goes(w, next) == call' = [call EXCEPT ![w] = next]
At(w, op, stage) == call[w].op = op /\ call[w].stage = stage

\* A file operation fails.
Fails == faults + ends < MaxAccidents /\ faults' = faults + 1

Begins(c) ==
    /\ up /\ call[c] = Idle
    /\ ops < MaxOps /\ ops' = ops + 1

-----------------------------------------------------------------------------
(* FilePersistence::save_context *)

\* The file as it is is copied to a backup nobody reads back, the context is
\* serialized, and File::create empties the file.
CreateFile(w) ==
    /\ call[w].stage = "create"
    /\ \/ /\ torn' = TRUE
          /\ Goes(w, [call[w] EXCEPT !.stage = "write"])
          /\ UNCHANGED faults
       \/ /\ Fails
          /\ Goes(w, Idle)
          /\ UNCHANGED torn
    /\ UNCHANGED <<cache, file, archive, flag, up, promises, inputs, ends>>

\* A save under the lock is of all that is in memory.  store_context puts
\* what its caller gives it in place of the file.
Promised(w) ==
    IF call[w].op = "store"
    THEN owed \cap (Items(call[w].data) \cup archive)
    ELSE owed \cup learned \cup call[w].items

WriteFile(w) ==
    /\ call[w].stage = "write"
    /\ \/ /\ file' = call[w].data /\ torn' = FALSE
          /\ owed' = Promised(w)
          /\ Goes(w, IF call[w].op = "store"
                     THEN [call[w] EXCEPT !.stage = "insert"] ELSE Idle)
          /\ UNCHANGED faults
       \/ /\ Fails
          /\ Goes(w, Idle)
          /\ UNCHANGED <<file, torn, owed>>
    /\ UNCHANGED <<cache, archive, flag, up, learned, inputs, ends>>

Save(w) == CreateFile(w) \/ WriteFile(w)

-----------------------------------------------------------------------------
(* store_context and retrieve_context *)

CreateSession(c) ==
    /\ Begins(c)
    /\ sessions < MaxSessions /\ sessions' = sessions + 1
    /\ Goes(c, Call("store", "create", Context(sessions + 1, {}, {}), {}))
    /\ UNCHANGED <<cache, store, flag, up, promises, made, accidents>>

\* What was stored or loaded replaces the copy in memory, whatever was done
\* to it since.
Insert(c) ==
    /\ call[c].stage = "insert" /\ CanWrite
    /\ cache' = call[c].data
    /\ owed' = owed \cap (Items(call[c].data) \cup archive)
    /\ learned' = learned \cap Items(call[c].data)
    /\ Goes(c, IF call[c].op = "store" THEN Idle
               ELSE [call[c] EXCEPT !.stage = "retrieved"])
    /\ UNCHANGED <<store, flag, up, inputs, accidents>>

\* s = 0: any session will do.
Fits(x, s) == x # NoContext /\ s \in {0, x.session}

Retrieve(c) ==
    /\ Begins(c) /\ CanRead
    /\ \E s \in 0..sessions :
         Goes(c, IF Fits(cache, s)
                 THEN Call("retrieve", "retrieved", cache, {})
                 ELSE Call("retrieve", "load", Context(s, {}, {}), {}))
    /\ UNCHANGED <<cache, store, flag, up, promises, made, sessions, accidents>>

\* A file that is absent, cannot be decoded or is of another session ends the
\* call.
Load(c) ==
    /\ call[c].stage = "load"
    /\ Goes(c, IF ~torn /\ Fits(file, call[c].data.session)
               THEN Call("retrieve", "insert", file, {}) ELSE Idle)
    /\ UNCHANGED <<cache, store, flag, up, promises, inputs, accidents>>

\* check_and_compact, or a caller of its own accord, stores its copy again
\* without the oldest items.
Reuse(c) ==
    /\ call[c].stage = "retrieved"
    /\ \/ Goes(c, Idle)
       \/ \E gone \in SUBSET Items(call[c].data) :
            Goes(c, Call("store", "create", Without(call[c].data, gone), {}))
    /\ UNCHANGED <<cache, store, flag, up, promises, inputs, accidents>>

-----------------------------------------------------------------------------
(* update_memory and add_knowledge *)

Makes(i) == made < MaxItems /\ made' = made + 1 /\ i = made + 1

AddMemory(c) ==
    /\ Begins(c) /\ CanWrite
    /\ cache # NoContext
    /\ \E i \in Item :
         /\ Makes(i)
         /\ cache' = [cache EXCEPT !.memory = @ \cup {i}]
         /\ Goes(c, Call("update", "create", cache', {i}))
    /\ UNCHANGED <<store, flag, up, promises, sessions, accidents>>

\* Or an item is deleted, or changed, or nothing is found to be changed.
DeleteMemory(c) ==
    /\ Begins(c) /\ CanWrite
    /\ cache # NoContext
    /\ \E gone \in {{}} \cup {{i} : i \in cache.memory} :
         /\ cache' = Without(cache, gone)
         /\ owed' = owed \ gone
    /\ Goes(c, Call("update", "create", cache', {}))
    /\ UNCHANGED <<store, flag, up, learned, made, sessions, accidents>>

AddKnowledge(c) ==
    /\ Begins(c) /\ CanWrite
    /\ cache # NoContext
    /\ \E i \in Item :
         /\ Makes(i)
         /\ cache' = [cache EXCEPT !.facts = @ \cup {i}]
         /\ learned' = learned \cup {i}
    /\ UNCHANGED <<store, call, flag, up, owed, sessions, accidents>>

-----------------------------------------------------------------------------
(* The retention task.  Which items are old is not modelled: any may be. *)

Tick ==
    /\ up /\ call[Retention] = Idle
    /\ Goes(Retention,
            IF flag THEN Ended ELSE Call("retention", "checked", cache, {}))
    /\ UNCHANGED <<cache, store, flag, up, promises, inputs, accidents>>

\* The agents were listed before the lock was taken again.
Drain ==
    /\ At(Retention, "retention", "checked") /\ CanWrite
    /\ \E old \in SUBSET Items(cache) :
         /\ cache' = Without(cache, old)
         /\ Goes(Retention,
                 IF old = {} THEN Idle
                 ELSE Call("retention", "archive", cache', old))
    /\ UNCHANGED <<store, flag, up, promises, inputs, accidents>>

\* Without its archive the drained items are nowhere but in the old file.
Abandon(old) == owed' = owed \ old /\ learned' = learned \ old

Archive ==
    /\ At(Retention, "retention", "archive")
    /\ \/ /\ archive' = archive \cup call[Retention].items
          /\ owed' = owed \cup (learned \cap call[Retention].items)
          /\ learned' = learned \ call[Retention].items
          /\ Goes(Retention, Call("retention", "create", cache, {}))
          /\ UNCHANGED faults
       \/ /\ Fails
          /\ Abandon(call[Retention].items)
          /\ Goes(Retention, Idle)
          /\ UNCHANGED archive
    /\ UNCHANGED <<cache, file, torn, flag, up, inputs, ends>>

-----------------------------------------------------------------------------
(* shutdown *)

Shutdown(c) ==
    /\ Begins(c) /\ ~flag
    /\ Goes(c, Call("shutdown", "flag", NoContext, {}))
    /\ UNCHANGED <<cache, store, flag, up, promises, made, sessions, accidents>>

\* The flag was read before; nothing but the retention task reads it again.
SetFlag(c) ==
    /\ At(c, "shutdown", "flag")
    /\ flag' = TRUE
    /\ Goes(c, [call[c] EXCEPT !.stage = "stop"])
    /\ UNCHANGED <<cache, store, up, promises, inputs, accidents>>

\* stop_background_tasks aborts the task at its await, which frees the lock.
StopTasks(c) ==
    /\ At(c, "shutdown", "stop")
    /\ call' = [call EXCEPT ![Retention] = Ended, ![c].stage = "save"]
    /\ IF At(Retention, "retention", "archive")
       THEN Abandon(call[Retention].items) ELSE UNCHANGED promises
    /\ UNCHANGED <<cache, store, flag, up, inputs, accidents>>

\* Faulty variant: a context that is as it was last saved is not saved again.
SaveAllChanged(c) ==
    /\ At(c, "shutdown", "save") /\ CanRead
    /\ Goes(c, IF cache \in {NoContext, file} THEN Idle
               ELSE Call("shutdown", "create", cache, {}))
    /\ UNCHANGED <<cache, store, flag, up, promises, inputs, accidents>>

SaveAll(c) ==
    /\ At(c, "shutdown", "save") /\ CanRead
    /\ Goes(c, IF cache = NoContext THEN Idle
               ELSE Call("shutdown", "create", cache, {}))
    /\ UNCHANGED <<cache, store, flag, up, promises, inputs, accidents>>

-----------------------------------------------------------------------------
(* The process *)

End ==
    /\ up /\ up' = FALSE
    /\ faults + ends < MaxAccidents /\ ends' = ends + 1
    /\ cache' = NoContext
    /\ call' = [w \in Worker |-> Idle]
    /\ flag' = FALSE
    /\ learned' = {}
    /\ UNCHANGED <<store, owed, inputs, faults>>

\* load_existing_contexts fails at a file it cannot decode, and with it the
\* start of the runtime.
Initialize ==
    /\ ~up /\ ~torn
    /\ up' = TRUE
    /\ cache' = file
    /\ UNCHANGED <<store, call, flag, promises, inputs, accidents>>

CallStep(c) ==
    \/ CreateSession(c) \/ Insert(c)
    \/ Retrieve(c) \/ Load(c) \/ Reuse(c)
    \/ AddMemory(c) \/ DeleteMemory(c) \/ AddKnowledge(c)
    \/ Shutdown(c) \/ SetFlag(c) \/ StopTasks(c) \/ SaveAll(c)

Next ==
    \/ \E c \in Caller : CallStep(c)
    \/ \E w \in Worker : Save(w)
    \/ Tick \/ Drain \/ Archive
    \/ End \/ Initialize

Spec == Init /\ [][Next]_vars

-----------------------------------------------------------------------------
(* Properties *)

Contexts == [session : 0..MaxSessions,
             memory : SUBSET Item, facts : SUBSET Item]
Stages == {"idle", "ended", "create", "write", "insert", "load", "retrieved",
           "checked", "archive", "flag", "stop", "save"}

\* Every variable has its type.
TypeOK ==
    /\ cache \in Contexts /\ file \in Contexts
    /\ torn \in BOOLEAN /\ flag \in BOOLEAN /\ up \in BOOLEAN
    /\ archive \subseteq Item
    /\ call \in [Worker ->
         [op : {"none", "store", "retrieve", "update", "retention",
                "shutdown"},
          stage : Stages, data : Contexts, items : SUBSET Item]]
    /\ owed \subseteq Item /\ learned \subseteq Item
    /\ made \in 0..MaxItems /\ sessions \in 0..MaxSessions
    /\ ops \in 0..MaxOps
    /\ faults \in 0..MaxAccidents /\ ends \in 0..MaxAccidents

\* While no file operation fails, a running process leaves the file empty only
\* between the two steps of a save: a shutdown that cuts one short writes the
\* file again before it returns (manager.rs:780).
StoredIsReadable ==
    up /\ torn /\ faults = 0 =>
        \/ \E w \in Worker : call[w].stage = "write"
        \/ \E c \in Caller : call[c].op = "shutdown"

\* What update_memory acknowledged is in the file or an archive, across ends
\* of the process, and so is a fact of add_knowledge once anything was saved
\* under the lock, until then it is in memory; and the file can be read.  Only
\* a caller that stores another context, a copy loaded before the change, or
\* an archive that was not written takes them away (manager.rs:3270).
AcknowledgedIsKept ==
    /\ TypeOK
    /\ ~torn => owed \subseteq Items(file) \cup archive
    /\ up /\ cache # NoContext =>
         owed \cup learned \subseteq Items(cache) \cup archive
                                     \cup call[Retention].items
    /\ StoredIsReadable

=============================================================================
