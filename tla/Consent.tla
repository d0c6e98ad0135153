------------------------------- MODULE Consent -------------------------------
(* What it means to ask people before something is done.  A case is put to   *)
(* voices: each may say a word or none, before the case is decided or after, *)
(* and never takes it back.  A case is decided once.  It may be denied at    *)
(* any time; if it needs consent it is allowed only after somebody           *)
(* consented.                                                                *)
(*                                                                           *)
(* EscalationQueue has one voice, its operators together; ApprovalRelay has  *)
(* a voice for each of its channels.                                         *)

CONSTANTS
    Case,
    NeedsConsent,
    Voice

VARIABLES
    said,       \* the words about each case
    given       \* how it was decided

vars == <<said, given>>

Init ==
    /\ said = [c \in Case |-> {}]
    /\ given = [c \in Case |-> "none"]

\* A voice that has said nothing about the case consents or refuses.
Speak(c) ==
    \E voice \in Voice, consents \in BOOLEAN :
        /\ \A word \in said[c] : word.by # voice
        /\ said' = [said EXCEPT ![c] =
                      @ \union {[by |-> voice, consents |-> consents]}]
        /\ UNCHANGED given

Allow(c) ==
    /\ given[c] = "none"
    /\ c \in NeedsConsent => \E word \in said[c] : word.consents
    /\ given' = [given EXCEPT ![c] = "allow"]
    /\ UNCHANGED said

Deny(c) ==
    /\ given[c] = "none"
    /\ given' = [given EXCEPT ![c] = "deny"]
    /\ UNCHANGED said

Next == \E c \in Case : Speak(c) \/ Allow(c) \/ Deny(c)

Spec == Init /\ [][Next]_vars
==============================================================================
