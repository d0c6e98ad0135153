----------------------------- MODULE GovernedRun -----------------------------
(* What the runtime promises of an agent's reasoning loop, whatever the      *)
(* model, the tools and the policy gate do: a bounded number of turns; a     *)
(* tool call runs only in the turn that proposed it, at most once, and only  *)
(* after the policy gate permitted it; nothing runs after the loop stopped.  *)
(* The run may stop at any point.                                            *)
EXTENDS Integers

CONSTANTS
    MaxTurns,       \* the iteration budget
    Calls(_)        \* the calls a turn may propose

VARIABLES
    stopped,        \* the caller has the result
    turn,           \* turns begun
    permitted,      \* calls the policy gate permitted
    executed        \* calls that ran

vars == <<stopped, turn, permitted, executed>>

Init ==
    /\ stopped = FALSE
    /\ turn = 0
    /\ permitted = {}
    /\ executed = {}

Think ==
    /\ ~stopped
    /\ turn < MaxTurns
    /\ turn' = turn + 1
    /\ UNCHANGED <<stopped, permitted, executed>>

Permit(c) ==
    /\ ~stopped
    /\ c \in Calls(turn) \ permitted
    /\ permitted' = permitted \cup {c}
    /\ UNCHANGED <<stopped, turn, executed>>

Execute(c) ==
    /\ ~stopped
    /\ c \in Calls(turn)
    /\ c \in permitted \ executed
    /\ executed' = executed \cup {c}
    /\ UNCHANGED <<stopped, turn, permitted>>

Stop ==
    /\ ~stopped
    /\ stopped' = TRUE
    /\ UNCHANGED <<turn, permitted, executed>>

Next ==
    \/ Think
    \/ \E c \in Calls(turn) : Permit(c) \/ Execute(c)
    \/ Stop

Spec == Init /\ [][Next]_vars
=============================================================================
