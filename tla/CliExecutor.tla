----------------------------- MODULE CliExecutor -----------------------------
(***************************************************************************)
(* One execution of a command-line tool (cli_executor/executor.rs): the    *)
(* child leads a process group, its two streams are read with an idle      *)
(* timeout each (cli_executor/watchdog.rs), and a wall clock runs around   *)
(* the reading, the wait and the kill for an idle stream.                  *)
(*                                                                         *)
(* The child is external: it writes, or waits for a pipe that is full,     *)
(* closes its streams, starts a helper that shares them, and ends when it  *)
(* likes.  A signal ends a process that heeds it at once; one that cleans  *)
(* up first is one that does not heed it and ends later.  Output is        *)
(* counted in units, and a line of stdout has two.  Standard input, the    *)
(* environment and errors of wait and read, which no code of the           *)
(* repository can bring about, are left out.                               *)
(***************************************************************************)
EXTENDS Naturals

CONSTANTS
    MaxOutput,      \* max_output_bytes
    MaxRead         \* bound: units that one read returns

Stream == {"stdout", "stderr"}

VARIABLES
    at,         \* where the executor is
    cause,      \* why the child is killed, if it is
    result,     \* what the caller is given
    reader,     \* the reading of each stream: where it is, and units read
    closed,     \* streams that the processes have closed
    emitted,    \* units of stdout handed to the line sink
    leader,     \* the child: "runs", or how it ended
    helper,     \* whether a process that the child started runs
    heeds,      \* which of the two SIGTERM ends
    warned      \* history: the helper was there when SIGTERM was sent

execution == <<at, cause, result, reader, closed, emitted, leader, helper,
               heeds, warned>>

executor == <<at, cause, result>>
output == <<reader, closed, emitted>>
processes == <<leader, helper, heeds, warned>>

Init ==
    /\ at = "spawn" /\ cause = "none" /\ result = "none"
    /\ reader = [s \in Stream |-> [at |-> "reading", units |-> 0]]
    /\ closed = {}
    /\ emitted = 0
    /\ leader = "none" /\ helper = FALSE
    /\ heeds \in SUBSET {"leader", "helper"}
    /\ warned = FALSE

-----------------------------------------------------------------------------
(* The processes *)

Running == leader = "runs" \/ helper

Close(s) ==
    /\ Running
    /\ closed' = closed \union {s}
    /\ UNCHANGED <<executor, reader, emitted, processes>>

StartHelper ==
    /\ leader = "runs" /\ ~helper
    /\ helper' = TRUE /\ warned' = FALSE
    /\ UNCHANGED <<executor, output, leader, heeds>>

LeaderEnds ==
    /\ leader = "runs"
    /\ leader' \in {"zero", "failed"}
    /\ UNCHANGED <<executor, output, helper, heeds, warned>>

HelperEnds ==
    /\ helper
    /\ helper' = FALSE
    /\ UNCHANGED <<executor, output, leader, heeds, warned>>

Processes ==
    \/ \E s \in Stream : Close(s)
    \/ StartHelper \/ LeaderEnds \/ HelperEnds

-----------------------------------------------------------------------------
(* The watchdog of a stream *)

Reads(s) == at = "streams" /\ reader[s].at = "reading"

Stops(s, how) == reader' = [reader EXCEPT ![s].at = how]

\* The whole lines of the first n units of stdout.
WholeLines(n) == n - (n % 2)

\* A read returns what is in the pipe, also when its writers have ended.  The
\* buffer has room for one unit more than the limit; what passes the limit is
\* cut, and the lines that came with it are not handed to the sink.
Read(s) == \E n \in 1 .. MaxRead :
    LET total == reader[s].units + n IN
    /\ Reads(s)
    /\ IF total > MaxOutput
       THEN /\ reader' = [reader EXCEPT ![s] =
                            [at |-> "cut", units |-> MaxOutput]]
            /\ UNCHANGED emitted
       ELSE /\ reader' = [reader EXCEPT ![s].units = total]
            /\ emitted' = IF s = "stdout" THEN WholeLines(total) ELSE emitted
    /\ UNCHANGED <<executor, closed, processes>>

\* At a clean end what is left is a line.
ReadEnd(s) ==
    /\ Reads(s)
    /\ s \in closed \/ ~Running
    /\ Stops(s, "end")
    /\ emitted' = IF s = "stdout" THEN reader[s].units ELSE emitted
    /\ UNCHANGED <<executor, closed, processes>>

IdleTimeout(s) ==
    /\ Reads(s)
    /\ s \notin closed /\ Running
    /\ Stops(s, "idle")
    /\ UNCHANGED <<executor, closed, emitted, processes>>

Watch == \E s \in Stream :
    Read(s) \/ ReadEnd(s) \/ IdleTimeout(s)

-----------------------------------------------------------------------------
(* The executor *)

Spawn ==
    /\ at = "spawn"
    /\ at' = "streams" /\ leader' = "runs"
    /\ UNCHANGED <<cause, result, output, helper, heeds, warned>>

SpawnFails ==
    /\ at = "spawn"
    /\ at' = "done" /\ result' = "error"
    /\ UNCHANGED <<cause, output, processes>>

\* Both streams are waited for before an idle one is acted upon.
Join ==
    /\ at = "streams"
    /\ \A s \in Stream : reader[s].at # "reading"
    /\ IF \E s \in Stream : reader[s].at = "idle"
       THEN at' = "term" /\ cause' = "idle"
       ELSE at' = "wait" /\ UNCHANGED cause
    /\ UNCHANGED <<result, output, processes>>

Wait ==
    /\ at = "wait" /\ leader # "runs"
    /\ at' = "done"
    /\ result' = IF leader = "zero" THEN "success" ELSE "failure"
    /\ UNCHANGED <<cause, output, processes>>

\* Faulty variant: the child is waited for after the timeout and not in it.
UnderWallClockOfReads == at \in {"streams", "term", "grace", "reap"}

UnderWallClock == at \notin {"spawn", "done"}

\* The wall clock drops the reading, the wait or a kill that is under way, and
\* the kill begins anew.
WallClock ==
    /\ UnderWallClock /\ cause # "timeout"
    /\ at' = "term" /\ cause' = "timeout"
    /\ UNCHANGED <<result, output, processes>>

\* Faulty variant: the signal is sent to the child and not to its group.
ReachedAlone(p) == p = "leader" /\ p \in heeds

\* A process of the group that SIGTERM ends.
Reached(p) == p \in heeds

SendTerm ==
    /\ at = "term"
    /\ at' = "grace"
    /\ leader' = IF leader = "runs" /\ Reached("leader") THEN "failed"
                 ELSE leader
    /\ helper' = (helper /\ ~Reached("helper"))
    /\ warned' = helper
    /\ UNCHANGED <<cause, result, output, heeds>>

Killed == at' = "done" /\ result' = cause

EndsInGrace ==
    /\ at = "grace" /\ leader # "runs"
    /\ Killed
    /\ UNCHANGED <<cause, output, processes>>

GraceOver ==
    /\ at = "grace" /\ leader = "runs"
    /\ at' = "reap"
    /\ leader' = "failed" /\ helper' = FALSE
    /\ UNCHANGED <<cause, result, output, heeds, warned>>

Reap ==
    /\ at = "reap"
    /\ Killed
    /\ UNCHANGED <<cause, output, processes>>

KillProcess == SendTerm \/ EndsInGrace \/ GraceOver \/ Reap

Next ==
    \/ Processes \/ Watch
    \/ Spawn \/ SpawnFails \/ Join \/ Wait \/ WallClock \/ KillProcess

\* The timers fire and signals arrive; the child need not do anything.
Fairness ==
    /\ WF_execution(WallClock)
    /\ WF_execution(KillProcess)

Spec == Init /\ [][Next]_execution /\ Fairness

-----------------------------------------------------------------------------
(* Properties *)

TypeOK ==
    /\ at \in {"spawn", "streams", "wait", "term", "grace", "reap", "done"}
    /\ cause \in {"none", "idle", "timeout"}
    /\ result \in {"none", "error", "success", "failure", "idle", "timeout"}
    /\ \A s \in Stream :
         /\ reader[s].at \in {"reading", "end", "idle", "cut"}
         /\ reader[s].units \in 0 .. MaxOutput
    /\ closed \subseteq Stream /\ emitted \in 0 .. MaxOutput
    /\ leader \in {"none", "runs", "zero", "failed"} /\ helper \in BOOLEAN

\* When the caller has its result the child has ended, whatever it does with
\* signals and even if the wall clock cut the kill for an idle stream; and of
\* a group that was killed only a helper is left that ignores SIGTERM or was
\* started after it (executor.rs:400).
NobodyIsLeft ==
    result # "none" =>
        /\ leader # "runs"
        /\ cause # "none" /\ helper => "helper" \notin heeds \/ ~warned

\* The line sink gets whole lines, and half a line only when it was the last
\* that was written (watchdog.rs:115).
LinesAreWhole ==
    emitted # WholeLines(emitted) =>
        reader["stdout"].at = "end" /\ emitted = reader["stdout"].units

\* Success is a child that ended so itself and whose streams have been read.
ResultIsTrue ==
    /\ TypeOK
    /\ NobodyIsLeft
    /\ LinesAreWhole
    /\ result = "success" =>
         leader = "zero" /\ \A s \in Stream : reader[s].at # "idle"

\* A begun execution ends, though the child may run for ever, ignore SIGTERM, wait
\* for a stream that is no longer read, or keep its streams quiet.
ExecutionEnds == at = "streams" ~> result # "none"

=============================================================================
