--------------------------- MODULE SessionExecutor ---------------------------
(***************************************************************************)
(* Interactive command-line tools behind a pseudo-terminal                 *)
(* (toolclad/session_executor.rs): calls of one tool share its session,    *)
(* which the first of them starts.                                         *)
(*                                                                         *)
(* All sessions are behind one mutex.  A call takes it three times: to     *)
(* check the number of interactions, to start the session if there is none,*)
(* and to send its command; it keeps it while it waits for a prompt.  A    *)
(* panic in between (an output cut in the middle of a character,           *)
(* session_executor.rs:363) poisons the mutex for good.                    *)
(*                                                                         *)
(* The tool and its terminal are external: it answers what it was sent in  *)
(* order, each answer with a prompt at its end, and may end at any time.   *)
(* A reader gets one answer or several, as they come.  The start is the    *)
(* command 0, the others are numbered as they are sent.                    *)
(***************************************************************************)
EXTENDS Naturals, Sequences, FiniteSets

CONSTANTS
    User,               \* tasks that call the tool
    MaxInteractions,    \* session_def.max_interactions
    MaxCommands,        \* bound: commands sent
    MaxCleanups         \* bound: calls of cleanup

VARIABLES
    status,     \* of the session, "none" if there is none
    count,      \* interaction_count
    record,     \* the transcript: commands, and answers with what was read
    input,      \* what the tool has still to answer
    output,     \* answers that nobody has read
    alive,      \* whether the tool runs
    holder,     \* the call that waits with the mutex locked, if any
    poisoned,   \* whether the mutex is
    at,         \* where each call is
    issued,     \* history: commands sent
    missed,     \* history: a wait of this session ended without its prompt
    cleanups    \* how often cleanup was called

tool == <<status, count, record, input, output, alive, holder, poisoned, at,
          issued, missed, cleanups>>

terminal == <<input, output, alive>>
session == <<status, count, record, missed>>

Exists == status # "none"

Free == holder = {} /\ ~poisoned

Entry(kind, commands) == [kind |-> kind, commands |-> commands]

Init ==
    /\ status = "none" /\ count = 0 /\ record = <<>>
    /\ input = <<>> /\ output = <<>> /\ alive = FALSE
    /\ holder = {} /\ poisoned = FALSE
    /\ at = [u \in User |-> "idle"]
    /\ issued = 0 /\ missed = FALSE /\ cleanups = 0

-----------------------------------------------------------------------------
(* A call *)

HasRoom == Exists => count < MaxInteractions

\* The command has passed its pattern, and the interactions are counted.
Check(u) ==
    /\ at[u] = "idle" /\ Free
    /\ HasRoom
    /\ issued < MaxCommands
    /\ at' = [at EXCEPT ![u] = "ensure"]
    /\ UNCHANGED <<session, terminal, holder, poisoned, issued, cleanups>>

\* Whoever wants a poisoned mutex gets an error.
Poisoned(u) ==
    /\ at[u] \in {"ensure", "send"} /\ poisoned
    /\ at' = [at EXCEPT ![u] = "idle"]
    /\ UNCHANGED <<session, terminal, holder, poisoned, issued, cleanups>>

\* There is a session: whether it is ready is not asked.
Found(u) ==
    /\ at[u] = "ensure" /\ Free /\ Exists
    /\ at' = [at EXCEPT ![u] = "send"]
    /\ UNCHANGED <<session, terminal, holder, poisoned, issued, cleanups>>

\* The tool cannot be started.
SpawnFails(u) ==
    /\ at[u] = "ensure" /\ Free /\ ~Exists
    /\ at' = [at EXCEPT ![u] = "idle"]
    /\ UNCHANGED <<session, terminal, holder, poisoned, issued, cleanups>>

\* The tool is started and its prompt waited for.
Spawn(u) ==
    /\ at[u] = "ensure" /\ Free /\ ~Exists
    /\ status' = "spawning" /\ count' = 0 /\ record' = <<>>
    /\ missed' = FALSE
    /\ alive' = TRUE /\ input' = <<0>> /\ output' = <<>>
    /\ holder' = {u}
    /\ at' = [at EXCEPT ![u] = "starting"]
    /\ UNCHANGED <<poisoned, issued, cleanups>>

\* The prompt is there, with what came behind it.
Started(u) ==
    /\ at[u] = "starting" /\ output # <<>>
    /\ output' = <<>>
    /\ status' = "ready"
    /\ record' = Append(record, Entry("system", <<>>))
    /\ holder' = {}
    /\ at' = [at EXCEPT ![u] = "send"]
    /\ UNCHANGED <<count, missed, input, alive, poisoned, issued, cleanups>>

\* Faulty variant: the mutex is released while the answer is waited for.
LockedToWrite(u) == holder' = {}

\* The mutex stays locked until the answer was read.
Locked(u) == holder' = {u}

\* The command is written to the terminal and recorded.
Send(u) ==
    /\ at[u] = "send" /\ Free /\ Exists
    /\ issued < MaxCommands
    /\ issued' = issued + 1
    /\ input' = IF alive THEN Append(input, issued + 1) ELSE input
    /\ record' = Append(record, Entry("command", <<issued + 1>>))
    /\ Locked(u)
    /\ at' = [at EXCEPT ![u] = "reading"]
    /\ UNCHANGED <<status, count, missed, output, alive, poisoned, cleanups>>

\* The session is gone, or the terminal of a tool that ended cannot be
\* written.
SendFails(u) ==
    /\ at[u] = "send" /\ Free
    /\ ~Exists \/ ~alive
    /\ at' = [at EXCEPT ![u] = "idle"]
    /\ UNCHANGED <<session, terminal, holder, poisoned, issued, cleanups>>

\* A prompt was read: what came with it is the answer.
Respond(u) ==
    /\ at[u] = "reading"
    /\ \E n \in 1 .. Len(output) :
         /\ output' = SubSeq(output, n + 1, Len(output))
         /\ record' = Append(record, Entry("response", SubSeq(output, 1, n)))
    /\ count' = count + 1
    /\ holder' = {}
    /\ at' = [at EXCEPT ![u] = "idle"]
    /\ UNCHANGED <<status, missed, input, alive, poisoned, issued, cleanups>>

\* The wait ends with too late or too long an answer, or with the tool.  What
\* was read is lost, what comes later stays for the next reader, and so does
\* the session; the error message may panic.
ReadFails(u) ==
    /\ at[u] \in {"starting", "reading"}
    /\ missed' = TRUE
    /\ \E n \in 0 .. Len(output) :
         output' = SubSeq(output, n + 1, Len(output))
    /\ holder' = {}
    /\ poisoned' \in BOOLEAN
    /\ at' = [at EXCEPT ![u] = "idle"]
    /\ UNCHANGED <<status, count, record, input, alive, issued, cleanups>>

-----------------------------------------------------------------------------
(* The tool, and cleanup *)

Answer ==
    /\ alive /\ input # <<>>
    /\ output' = Append(output, Head(input))
    /\ input' = Tail(input)
    /\ UNCHANGED <<session, alive, holder, poisoned, at, issued, cleanups>>

Ends ==
    /\ alive
    /\ alive' = FALSE /\ input' = <<>>
    /\ UNCHANGED <<session, output, holder, poisoned, at, issued, cleanups>>

\* All sessions are dropped and their tools killed; not if the mutex is
\* poisoned.
Cleanup ==
    /\ cleanups < MaxCleanups /\ Free
    /\ cleanups' = cleanups + 1
    /\ status' = "none" /\ count' = 0 /\ record' = <<>> /\ missed' = FALSE
    /\ alive' = FALSE /\ input' = <<>> /\ output' = <<>>
    /\ UNCHANGED <<holder, poisoned, at, issued>>

Call(u) ==
    \/ Check(u) \/ Poisoned(u) \/ Found(u) \/ SpawnFails(u) \/ Spawn(u)
    \/ Started(u) \/ Send(u) \/ SendFails(u) \/ Respond(u) \/ ReadFails(u)

Next == (\E u \in User : Call(u)) \/ Answer \/ Ends \/ Cleanup

Spec == Init /\ [][Next]_tool

-----------------------------------------------------------------------------

Numbers == 0 .. MaxCommands

\* The type of the state.
TypeOK ==
    /\ status \in {"none", "spawning", "ready"}
    /\ count \in Nat
    /\ \A i \in DOMAIN record :
         /\ record[i].kind \in {"system", "command", "response"}
         /\ record[i].commands \in Seq(Numbers)
    /\ input \in Seq(Numbers) /\ output \in Seq(Numbers)
    /\ {alive, poisoned, missed} \subseteq BOOLEAN
    /\ holder \subseteq User /\ Cardinality(holder) <= 1
    /\ at \in [User -> {"idle", "ensure", "starting", "send", "reading"}]
    /\ issued \in Numbers /\ cleanups \in 0 .. MaxCleanups

Responses == {i \in DOMAIN record : record[i].kind = "response"}

\* While no wait of the session has failed, each answer is recorded behind its
\* command and is the whole answer to it, and to nothing else, whoever calls.
AnswersAreOwn ==
    ~missed => \A i \in Responses :
        record[i - 1] = Entry("command", record[i].commands)

\* Whoever starts the session has not been asked for the limit.
Limit == IF MaxInteractions = 0 THEN 1 ELSE MaxInteractions

\* The interactions counted are those recorded.  The count is checked an
\* await of the mutex before the command is sent, so that the limit may be
\* passed by one interaction for every other caller, and by no more.
InteractionsAreCounted ==
    /\ count = Cardinality(Responses)
    /\ count <= Limit + Cardinality(User) - 1

\* A session keeps its callers apart.
SessionIsSound == TypeOK /\ AnswersAreOwn /\ InteractionsAreCounted

=============================================================================
