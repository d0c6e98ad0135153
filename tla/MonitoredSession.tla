-------------------------- MODULE MonitoredSession --------------------------
(***************************************************************************)
(* The monitor of a session against the protocol it was opened with.       *)
(*                                                                         *)
(* Protocols and machines are parameters.  ExactFor says of one protocol   *)
(* what its compiler owes it: as long as both ends of every message move   *)
(* together, the machines of the roles take the messages that the protocol *)
(* allows and no others.  What the session makes of it, with its threads,  *)
(* its stale labels and its ends, is stated below.                         *)
(***************************************************************************)
EXTENDS SessionMonitor

CONSTANTS Offered(_),    \* the messages that a rest of a protocol allows next
          Rest(_, _),    \* what a message leaves of it
          Finished(_),   \* nothing is left of it
          Joint(_)       \* of a protocol: rests, each with the places of the
                         \* roles that may go with it

RoleMessage(c) == [from |-> RoleOf[c.from], to |-> RoleOf[c.to], label |-> c.label]

VARIABLE left   \* history: what is left of the protocol after the accepted messages

Promise == INSTANCE Agreement WITH rest <- left

Follow ==
    left' = IF heard' = heard THEN left
            ELSE Rest(left, RoleMessage(heard'[Len(heard')]))

SessionInit == Init /\ left = protocol

SessionSpec ==
    /\ SessionInit
    /\ [][Next /\ Follow]_<<vars, left>>

-----------------------------------------------------------------------------
(* The compiler of a protocol *)

Messages == [from : Bound, to : Bound, label : Label]

Sent(p, places, m) ==
    Step(p, m.from, places[m.from],
         [dir |-> "send", peer |-> m.to, label |-> m.label])

Received(p, places, m) ==
    Step(p, m.to, places[m.to],
         [dir |-> "recv", peer |-> m.from, label |-> m.label])

Takes(p, places, m) ==
    Sent(p, places, m) # NotLegal /\ Received(p, places, m) # NotLegal

Moved(p, places, m) ==
    [places EXCEPT ![m.from] = Sent(p, places, m),
                   ![m.to] = Received(p, places, m)]

\* From their start on, the machines together take what is offered, and are
\* all accepting when nothing is left.
ExactFor(p) ==
    (\A r \in Bound : Projects(p, r)) =>
        LET joint == Joint(p)
        IN  /\ <<p, [r \in Bound |-> Start(p, r)]>> \in joint
            /\ \A x \in joint :
                  LET offered == Offered(x[1])
                  IN  /\ Finished(x[1]) <=>
                            \A r \in Bound : Accepting(p, r, x[2][r])
                      /\ \A m \in Messages :
                            /\ Takes(p, x[2], m) <=> m \in offered
                            /\ Takes(p, x[2], m) =>
                                  <<Rest(x[1], m), Moved(p, x[2], m)>> \in joint

-----------------------------------------------------------------------------
(* Properties *)

\* The protocol a session is opened with projects, if it does, on machines
\* that together do what it says (project.rs, fsm.rs from_local).
ProjectionIsExact == status = "none" => ExactFor(protocol)

\* Whatever order threads call in, with labels that were derived before other
\* messages were taken, the messages accepted in a session are steps of the
\* agreed protocol: the session implements its choreography
\* (docs/session-types.md:25, monitor.rs observe).
FollowsProtocol == Promise!Spec

\* Nothing the protocol allows next is refused by the machines of the roles
\* (project.rs, fsm.rs from_local).
NothingLegalDenied ==
    status = "Running" =>
        LET offered == Offered(left)
        IN  \A c \in Call : RoleMessage(c) \in offered => Legal(c)

\* The monitor says that a session is complete exactly when its protocol has
\* ended, and so does a status of Complete (monitor.rs is_complete,
\* registry.rs refresh).
CompleteWhenEnded ==
    /\ status # "none" => (IsComplete <=> Finished(left))
    /\ status = "Complete" => Finished(left)

\* The monitor neither refuses what the protocol allows nor ends before it,
\* and what it accepted is recorded.
SessionIsFaithful ==
    TypeOK /\ NothingLegalDenied /\ CompleteWhenEnded /\ TranscriptKeepsAll

=============================================================================
