--------------------------- MODULE SessionMonitor ---------------------------
(***************************************************************************)
(* A session under the monitor of symbi-session, from its opening to its   *)
(* end: the monitor (monitor.rs), the registry that owns it and keeps its  *)
(* status and deadline (runtime/src/session/registry.rs), the gate that    *)
(* asks it and writes the transcript (communication/policy_gate.rs) and    *)
(* the primitives that derive the label (repl-core, check_comm_policy).    *)
(*                                                                         *)
(* The machines of the roles are parameters: what they accept is the       *)
(* matter of SessionTypes.  The monitor is behind one lock, the transcript *)
(* behind another, so a call derives its label, is judged and is recorded  *)
(* in three steps, and calls of other threads come in between.             *)
(***************************************************************************)
EXTENDS Naturals, Sequences, FiniteSets

CONSTANTS Thread,            \* callers of the messaging primitives
          Agent,             \* the agents bound to a role
          Role,              \* the roles of the protocol
          Label,
          RoleOf,            \* the role an agent is bound to
          Protocol,          \* the protocols a session may be opened with
          State,             \* states of the machines
          NotLegal,          \* what Step answers to an illegal event
          Projects(_, _),    \* the protocol has a local type for the role
          Start(_, _),       \* first state of the machine of a role
          Step(_, _, _, _),  \* state of a machine after an event
          Accepting(_, _, _),
          MaxCalls(_)        \* bound: calls made in a run, by protocol

Event == [dir : {"send", "recv"}, peer : Role, label : Label]

\* Machines stay within State, and nothing follows an accepting state: only
\* the end of a local type is accepting.
ASSUME MachineAssumption ==
    /\ IsFiniteSet(Thread)
    /\ RoleOf \in [Agent -> Role]
    /\ NotLegal \notin State
    /\ \A p \in Protocol, r \in Role : Projects(p, r) =>
          /\ Start(p, r) \in State
          /\ \A s \in State, e \in Event :
                /\ Step(p, r, s, e) \in State \union {NotLegal}
                /\ Accepting(p, r, s) => Step(p, r, s, e) = NotLegal

Call == [from : Agent, to : Agent, label : Label]

NoCall == [from |-> "none"]

Entry == [call : Call, allowed : BOOLEAN]

VARIABLES
    protocol,     \* the protocol of the session
    status,       \* registry: "none" before the session is opened
    expired,      \* the deadline of the session has passed
    aborted,      \* monitor: the session takes no more messages
    place,        \* monitor: the state of the machine of each role
    at,           \* where each thread is in its call
    call,         \* the message of each thread's call
    transcript,   \* the recorded calls, with the decision
    heard         \* the accepted calls, in the order the monitor took them

vars == <<protocol, status, expired, aborted, place, at, call, transcript, heard>>

Bound == {RoleOf[a] : a \in Agent}

Init ==
    /\ protocol \in Protocol
    /\ status = "none"
    /\ expired = FALSE
    /\ aborted = FALSE
    /\ place = <<>>
    /\ at = [t \in Thread |-> "idle"]
    /\ call = [t \in Thread |-> NoCall]
    /\ transcript = <<>>
    /\ heard = <<>>

-----------------------------------------------------------------------------
(* The monitor *)

SendEvent(c) == [dir |-> "send", peer |-> RoleOf[c.to], label |-> c.label]

RecvEvent(c) == [dir |-> "recv", peer |-> RoleOf[c.from], label |-> c.label]

AfterSend(c) ==
    Step(protocol, RoleOf[c.from], place[RoleOf[c.from]], SendEvent(c))

AfterRecv(c) ==
    Step(protocol, RoleOf[c.to], place[RoleOf[c.to]], RecvEvent(c))

Legal(c) == AfterSend(c) # NotLegal /\ AfterRecv(c) # NotLegal

Accepts(c) == ~aborted /\ Legal(c)

\* Both ends move, or neither does.
Committed(c) ==
    IF Accepts(c)
    THEN [place EXCEPT ![RoleOf[c.from]] = AfterSend(c),
                       ![RoleOf[c.to]] = AfterRecv(c)]
    ELSE place

IsComplete == \A r \in Bound : Accepting(protocol, r, place[r])

-----------------------------------------------------------------------------
(* The registry *)

\* The id is known to nobody before open returns, so that the monitor and the
\* registry learn of the session in two steps is not seen.  With a role that
\* does not project there is no session.
Open ==
    /\ status = "none"
    /\ \A r \in Bound : Projects(protocol, r)
    /\ status' = "Running"
    /\ place' = [r \in Bound |-> Start(protocol, r)]
    /\ UNCHANGED <<protocol, expired, aborted, at, call, transcript, heard>>

Refreshed ==
    IF status # "Running" THEN status
    ELSE IF aborted THEN "Aborted"
    ELSE IF IsComplete THEN "Complete" ELSE status

Refresh ==
    /\ status # "none"
    /\ status' = Refreshed
    /\ UNCHANGED <<protocol, expired, aborted, place, at, call, transcript, heard>>

DeadlinePasses ==
    /\ status = "Running" /\ ~expired
    /\ expired' = TRUE
    /\ UNCHANGED <<protocol, status, aborted, place, at, call, transcript, heard>>

AbortExpired ==
    /\ status = "Running" /\ expired
    /\ aborted' = TRUE
    /\ status' = "Aborted"
    /\ UNCHANGED <<protocol, expired, place, at, call, transcript, heard>>

\* The monitor is shared with its owner's callers, who may abort on it.
Abort ==
    /\ status # "none" /\ ~aborted
    /\ aborted' = TRUE
    /\ UNCHANGED <<protocol, status, expired, place, at, call, transcript, heard>>

-----------------------------------------------------------------------------
(* A call: derive the label, ask the gate, record *)

Calls == Len(transcript) + Cardinality({t \in Thread : at[t] # "idle"})

LegalLabels(from, to) ==
    {l \in Label : AfterSend([from |-> from, to |-> to, label |-> l]) # NotLegal}

\* With one legal label it is taken, with several the caller names one of
\* them, with none the call is an error and nothing is left of it.
Derive(t, from, to) ==
    /\ status # "none"
    /\ at[t] = "idle" /\ Calls < MaxCalls(protocol)
    /\ \E l \in LegalLabels(from, to) :
          call' = [call EXCEPT ![t] = [from |-> from, to |-> to, label |-> l]]
    /\ at' = [at EXCEPT ![t] = "derived"]
    /\ UNCHANGED <<protocol, status, expired, aborted, place, transcript, heard>>

Observe(t) ==
    /\ at[t] = "derived"
    /\ place' = Committed(call[t])
    /\ at' = [at EXCEPT ![t] = IF Accepts(call[t]) THEN "allowed" ELSE "denied"]
    /\ heard' = IF Accepts(call[t]) THEN Append(heard, call[t]) ELSE heard
    /\ UNCHANGED <<protocol, status, expired, aborted, call, transcript>>

\* Faulty variant: an entry is only written for a session that still runs.
RecordedWhileOpen(t) ==
    IF aborted THEN transcript
    ELSE Append(transcript, [call |-> call[t], allowed |-> at[t] = "allowed"])

Recorded(t) ==
    Append(transcript, [call |-> call[t], allowed |-> at[t] = "allowed"])

Record(t) ==
    /\ at[t] \in {"allowed", "denied"}
    /\ transcript' = Recorded(t)
    /\ at' = [at EXCEPT ![t] = "idle"]
    /\ call' = [call EXCEPT ![t] = NoCall]
    /\ UNCHANGED <<protocol, status, expired, aborted, place, heard>>

-----------------------------------------------------------------------------

Next ==
    \/ Open \/ Refresh \/ DeadlinePasses \/ AbortExpired \/ Abort
    \/ \E t \in Thread :
          \/ \E from, to \in Agent : Derive(t, from, to)
          \/ Observe(t)
          \/ Record(t)

Spec == Init /\ [][Next]_vars

-----------------------------------------------------------------------------
(* Properties *)

\* Every variable is of its type; the roles have a place once there is a
\* session.
TypeOK ==
    /\ protocol \in Protocol
    /\ status \in {"none", "Running", "Complete", "Aborted"}
    /\ expired \in BOOLEAN
    /\ aborted \in BOOLEAN
    /\ status # "none" => place \in [Bound -> State]
    /\ at \in [Thread -> {"idle", "derived", "allowed", "denied"}]
    /\ call \in [Thread -> Call \union {NoCall}]
    /\ transcript \in Seq(Entry)
    /\ heard \in Seq(Call)

Closed == status \in {"Complete", "Aborted"}

\* A session that is complete or aborted by the registry has no further
\* message accepted, calls already under way included, and keeps its status.
\* registry.rs: a terminal session is never demoted; monitor.rs: an aborted
\* session takes no more messages.
ClosedIsSilent ==
    [][Closed => heard' = heard /\ place' = place /\ status' = status]_vars

Times(c, s) == Cardinality({i \in DOMAIN s : s[i] = c})

AllowedEntry(c) == [call |-> c, allowed |-> TRUE]

\* The threads that have yet to record that `c` was accepted.
Holding(c) == {t \in Thread : at[t] = "allowed" /\ call[t] = c}

\* Each accepted message is in the transcript once, or in the hands of the
\* thread that will record it, however calls, aborts and other recordings are
\* interleaved (policy_gate.rs check_session).
TranscriptKeepsAll ==
    \A c \in Call :
        Times(c, heard) = Times(AllowedEntry(c), transcript) + Cardinality(Holding(c))

=============================================================================
