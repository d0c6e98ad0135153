------------------------- MODULE MCCommunicationBus -------------------------
(* Instances of CommunicationBus for TLC. *)
EXTENDS CommunicationBus

CONSTANTS a1, a2, t1

\* The only agent has an inbox when the run starts.
OneAgent == {a1}

\* The second agent is known to its senders and never registers.
TwoAgents == {a1, a2}

OneThread == {t1}
NoThread == {}
=============================================================================
