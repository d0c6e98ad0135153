----------------------------- MODULE Agreement -----------------------------
(***************************************************************************)
(* What a session promises: the messages exchanged in it are steps of the  *)
(* agreed protocol.  The state is what is left of it.  A message is one    *)
(* step of both its ends.                                                  *)
(*                                                                         *)
(* What a protocol allows next and what is then left of it are parameters; *)
(* Choreography gives them for global types.                               *)
(***************************************************************************)
CONSTANTS Protocol,      \* the protocols a session may be opened with
          Offered(_),    \* the messages that may be next
          Rest(_, _)     \* what a message leaves of a protocol

VARIABLE rest            \* what is left of the protocol

Init == rest \in Protocol

\* A turn of a loop that leads back to the same tree is a stutter.
Exchange ==
    /\ rest' # rest
    /\ \E m \in Offered(rest) : rest' = Rest(rest, m)

Spec == Init /\ [][Exchange]_rest

=============================================================================
