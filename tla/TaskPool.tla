------------------------------ MODULE TaskPool ------------------------------
(* What the scheduler promises of the tasks it accepts, whatever callers and *)
(* loops do at the same time: a task waits until it is taken up, the most    *)
(* urgent first and then the oldest; one is in hand at a time, and is        *)
(* started with a unit of the pool, let go, or put back when there is none;  *)
(* a unit may come back from a task that was started; what was started or    *)
(* let go stays so; after a shutdown nothing is taken up.                    *)
EXTENDS Naturals, Sequences

CONSTANTS
    Agent,
    Priority,
    HasUnit(_)      \* the pool has a unit besides those of some tasks

VARIABLES
    open,           \* tasks are taken up
    issued,         \* agent and priority of each task accepted so far
    waiting,
    held,           \* the task in hand, if any
    started,
    kept,           \* the started tasks that keep a unit of the pool
    cancelled

vars == <<open, issued, waiting, held, started, kept, cancelled>>

Init ==
    /\ open = TRUE
    /\ issued = <<>>
    /\ waiting = {} /\ held = {} /\ started = {} /\ kept = {}
    /\ cancelled = {}

\* A task has the number of its acceptance, and waits.
Accept ==
    /\ \E a \in Agent, p \in Priority :
          issued' = Append(issued, [agent |-> a, priority |-> p])
    /\ waiting' = waiting \union {Len(issued) + 1}
    /\ UNCHANGED <<open, held, started, kept, cancelled>>

Reschedule ==
    /\ \E i \in DOMAIN issued, p \in Priority :
          issued' = [issued EXCEPT ![i].priority = p]
    /\ UNCHANGED <<open, waiting, held, started, kept, cancelled>>

Precedes(i, j) ==
    \/ issued[i].priority > issued[j].priority
    \/ issued[i].priority = issued[j].priority /\ i < j

\* The routing engine may deny the task that is taken up.
TakeUp(i) ==
    /\ open /\ held = {}
    /\ i \in waiting /\ \A j \in waiting \ {i} : Precedes(i, j)
    /\ waiting' = waiting \ {i}
    /\ \/ held' = {i} /\ UNCHANGED cancelled
       \/ cancelled' = cancelled \union {i} /\ UNCHANGED held
    /\ UNCHANGED <<open, issued, started, kept>>

PutBack(i) ==
    /\ held = {i} /\ ~HasUnit(kept)
    /\ held' = {} /\ waiting' = waiting \union {i}
    /\ UNCHANGED <<open, issued, started, kept, cancelled>>

Start(i) ==
    /\ held = {i} /\ HasUnit(kept)
    /\ held' = {} /\ started' = started \union {i}
    /\ kept' = kept \union {i}
    /\ UNCHANGED <<open, issued, waiting, cancelled>>

\* The unit of a task that was started comes back.
GiveBack(i) ==
    /\ i \in kept /\ kept' = kept \ {i}
    /\ UNCHANGED <<open, issued, waiting, held, started, cancelled>>

LetGo(i) ==
    /\ \/ held = {i} /\ held' = {} /\ UNCHANGED waiting
       \/ i \in waiting /\ waiting' = waiting \ {i} /\ UNCHANGED held
    /\ cancelled' = cancelled \union {i}
    /\ UNCHANGED <<open, issued, started, kept>>

Close ==
    /\ open /\ open' = FALSE
    /\ UNCHANGED <<issued, waiting, held, started, kept, cancelled>>

\* The end of a shutdown.
Clear ==
    /\ ~open
    /\ waiting' = {} /\ cancelled' = cancelled \union waiting
    /\ UNCHANGED <<open, issued, held, started, kept>>

Next ==
    \/ Accept \/ Reschedule \/ Close \/ Clear
    \/ \E i \in DOMAIN issued :
          TakeUp(i) \/ PutBack(i) \/ Start(i) \/ GiveBack(i) \/ LetGo(i)

Spec == Init /\ [][Next]_vars
=============================================================================
