---------------------------- MODULE EscalationQueue ----------------------------
(* Held actions: EscalationGate::evaluate_action (escalation/gate.rs) over    *)
(* EscalationQueue (escalation/queue.rs), resolved by operators through chat  *)
(* (escalation/chat.rs) or REST (api/escalation_routes.rs).                   *)
(*                                                                            *)
(* A request is one call of evaluate_action; the id of its held action is     *)
(* fresh and unguessable, so the request itself names it.  pc is the await    *)
(* the call is at.  The map of held actions is locked for one critical        *)
(* section at a time, which is one action here.                               *)
EXTENDS Naturals, FiniteSets

CONSTANTS
    Requests,        \* calls of evaluate_action
    NeedsApproval,   \* those whose tool is in require_approval_tools
    Operators,       \* people and API keys that try to resolve held actions
    Authorized       \* allowlisted senders and admin keys

ASSUME EscalationAssumption ==
    /\ NeedsApproval \subseteq Requests
    /\ Authorized \subseteq Operators

VARIABLES
    pc,         \* where each call is
    entries,    \* EscalationQueue::inner
    channel,    \* the decision in each oneshot channel
    decision,   \* what enqueue made of it
    verdict,    \* the LoopDecision returned
    emitting,   \* resolutions between their critical section and their audit record
    accepted,   \* history: resolutions that did not fail
    audit       \* records the audit sink was given

vars == <<pc, entries, channel, decision, verdict, emitting, accepted, audit>>

Decisions == {"approve", "deny"}

Absent == [status |-> "absent", tx |-> FALSE]
Held == [status |-> "pending", tx |-> TRUE]

Resolution(o, r, d) == [approver |-> o, id |-> r, decision |-> d]

Init ==
    /\ pc = [r \in Requests |-> "idle"]
    /\ entries = [r \in Requests |-> Absent]
    /\ channel = [r \in Requests |-> "empty"]
    /\ decision = [r \in Requests |-> "none"]
    /\ verdict = [r \in Requests |-> "none"]
    /\ emitting = {}
    /\ accepted = {}
    /\ audit = {}

-----------------------------------------------------------------------------
(* evaluate_action and the enqueue it awaits.                                *)

\* The tool needs no approval: the inner gate is asked at once.
PassThrough(r) ==
    /\ pc[r] = "idle"
    /\ r \notin NeedsApproval
    /\ pc' = [pc EXCEPT ![r] = "inner"]
    /\ UNCHANGED <<entries, channel, decision, verdict, emitting, accepted, audit>>

\* The action is held; its notifiers are awaited before the timer starts.
Hold(r) ==
    /\ pc[r] = "idle"
    /\ r \in NeedsApproval
    /\ entries' = [entries EXCEPT ![r] = Held]
    /\ pc' = [pc EXCEPT ![r] = "notifying"]
    /\ UNCHANGED <<channel, decision, verdict, emitting, accepted, audit>>

Notified(r) ==
    /\ pc[r] = "notifying"
    /\ pc' = [pc EXCEPT ![r] = "waiting"]
    /\ UNCHANGED <<entries, channel, decision, verdict, emitting, accepted, audit>>

\* Faulty variant: the waiting call wakes for an approval only.
WokenByApproval(r) == channel[r] = "approve"

Woken(r) == channel[r] # "empty"

\* timeout(rx) polls the receiver first.
Receive(r) ==
    /\ pc[r] = "waiting"
    /\ Woken(r)
    /\ decision' = [decision EXCEPT ![r] = channel[r]]
    /\ pc' = [pc EXCEPT ![r] = "closing"]
    /\ UNCHANGED <<entries, channel, verdict, emitting, accepted, audit>>

\* The receiver had nothing and the timer has elapsed.
Elapse(r) ==
    /\ pc[r] = "waiting"
    /\ channel[r] = "empty"
    /\ pc' = [pc EXCEPT ![r] = "elapsed"]
    /\ UNCHANGED <<entries, channel, decision, verdict, emitting, accepted, audit>>

\* The receiver is dropped, whatever may have been sent since it was polled.
GiveUp(r) ==
    /\ pc[r] = "elapsed"
    /\ decision' = [decision EXCEPT ![r] = "timeout"]
    /\ pc' = [pc EXCEPT ![r] = "closing"]
    /\ UNCHANGED <<entries, channel, verdict, emitting, accepted, audit>>

\* Faulty variant: only a denial keeps the action from the inner gate.
PassesUnlessDenied(d) == d # "deny"

Passes(d) == d = "approve"

\* "Expired" is set and the entry removed under one lock: nobody sees it.
Removed(r) == [entries EXCEPT ![r] = Absent]

\* The map is locked again and the action leaves it.
Close(r) ==
    /\ pc[r] = "closing"
    /\ entries' = Removed(r)
    /\ IF Passes(decision[r])
       THEN pc' = [pc EXCEPT ![r] = "inner"] /\ UNCHANGED verdict
       ELSE pc' = [pc EXCEPT ![r] = "done"] /\ verdict' = [verdict EXCEPT ![r] = "deny"]
    /\ UNCHANGED <<channel, decision, emitting, accepted, audit>>

\* An approved action is still judged by the inner gate.
InnerGate(r) ==
    /\ pc[r] = "inner"
    /\ \E v \in {"allow", "deny"} : verdict' = [verdict EXCEPT ![r] = v]
    /\ pc' = [pc EXCEPT ![r] = "done"]
    /\ UNCHANGED <<entries, channel, decision, emitting, accepted, audit>>

\* The timeout of the loop drops the call at its await: nothing is cleaned up.
Drop(r) ==
    /\ pc[r] \notin {"idle", "done", "dropped"}
    /\ pc' = [pc EXCEPT ![r] = "dropped"]
    /\ UNCHANGED <<entries, channel, decision, verdict, emitting, accepted, audit>>

-----------------------------------------------------------------------------
(* resolve_async.  A refusal (NotFound, AlreadyResolved, not authorized)      *)
(* changes nothing and is left out, except for the send that fails after the  *)
(* status has been set.                                                       *)

ReceiverAlive(r) == pc[r] \in {"notifying", "waiting", "elapsed"}

\* Faulty variant: the error of tx.send is ignored.
SendsAlways(r) == TRUE

Sends(r) == ReceiverAlive(r)

\* resolve_locked takes the sender and sets the status.
Taken(e, d) == [status |-> d, tx |-> FALSE]

MayResolve(o) == o \in Authorized

Resolve(o, r, d) ==
    /\ MayResolve(o)
    /\ entries[r].tx
    /\ entries' = [entries EXCEPT ![r] = Taken(@, d)]
    /\ channel' = [channel EXCEPT ![r] = IF ReceiverAlive(r) THEN d ELSE @]
    /\ IF Sends(r)
       THEN /\ accepted' = accepted \cup {Resolution(o, r, d)}
            /\ emitting' = emitting \cup {Resolution(o, r, d)}
       ELSE UNCHANGED <<accepted, emitting>>
    /\ UNCHANGED <<pc, decision, verdict, audit>>

\* emit_audit: the map is no longer locked.
Emit(x) ==
    /\ x \in emitting
    /\ emitting' = emitting \ {x}
    /\ audit' = audit \cup {x}
    /\ UNCHANGED <<pc, entries, channel, decision, verdict, accepted>>

\* The operator's connection ends and its handler is dropped before it emits.
Disconnect(x) ==
    /\ x \in emitting
    /\ emitting' = emitting \ {x}
    /\ UNCHANGED <<pc, entries, channel, decision, verdict, accepted, audit>>

Evaluate(r) ==
    \/ PassThrough(r)
    \/ Hold(r)
    \/ Receive(r)
    \/ Elapse(r)
    \/ GiveUp(r)
    \/ Close(r)
    \/ InnerGate(r)

Next ==
    \/ \E r \in Requests : Evaluate(r) \/ Notified(r) \/ Drop(r)
    \/ \E o \in Operators, r \in Requests, d \in Decisions : Resolve(o, r, d)
    \/ \E x \in emitting : Emit(x) \/ Disconnect(x)

Spec == Init /\ [][Next]_vars

(* The executor polls a call whose await is ready, the timer fires and the   *)
(* inner gate, a local evaluation, returns.  Nothing is assumed of operators *)
(* or of notifiers, which send to a chat service.                            *)
Fairness == \A r \in Requests : WF_vars(Evaluate(r))

FairSpec == Spec /\ Fairness

-----------------------------------------------------------------------------
(* Properties.                                                               *)

Pcs == {"idle", "notifying", "waiting", "elapsed", "closing", "inner", "done", "dropped"}
Entries == [status : {"absent", "pending", "approve", "deny"}, tx : BOOLEAN]
Resolutions == [approver : Operators, id : Requests, decision : Decisions]

\* The type of every variable.
TypeOK ==
    /\ pc \in [Requests -> Pcs]
    /\ entries \in [Requests -> Entries]
    /\ channel \in [Requests -> Decisions \cup {"empty"}]
    /\ decision \in [Requests -> Decisions \cup {"none", "timeout"}]
    /\ verdict \in [Requests -> {"none", "allow", "deny"}]
    /\ emitting \subseteq Resolutions
    /\ accepted \subseteq Resolutions
    /\ audit \subseteq Resolutions

\* An action that needs approval reaches the inner gate, or is allowed, only
\* after an authorized operator approved it: a timeout, a dropped call or a
\* late answer never let it through (gate.rs:82).
ApprovedOnly ==
    \A r \in NeedsApproval :
        pc[r] = "inner" \/ verdict[r] = "allow" =>
            \E o \in Authorized : Resolution(o, r, "approve") \in accepted

\* Of the operators who race for a held action at most one is told that it
\* worked, and only that resolution is audited (queue.rs:258).
ResolvedOnce ==
    /\ \A x \in accepted, y \in accepted : x.id = y.id => x = y
    /\ audit \subseteq accepted

\* An accepted resolution was sent while the call could still receive it, and
\* what the call goes by, unless its timer had elapsed, is that decision
\* (queue.rs:264).
AcceptedIsDelivered ==
    \A x \in accepted :
        /\ channel[x.id] = x.decision
        /\ decision[x.id] \in {"none", "timeout", x.decision}

\* The map holds exactly the actions some call waits on, and those of dropped
\* calls (queue.rs:214).
HeldWhileWaiting ==
    \A r \in Requests :
        LET open == pc[r] \in {"notifying", "waiting", "elapsed", "closing"}
        IN  /\ open => entries[r] # Absent
            /\ entries[r] # Absent => open \/ pc[r] = "dropped"

\* Once its notifiers have returned every held action is decided, without any
\* operator (queue.rs:161).
EveryCallReturns ==
    \A r \in Requests : pc[r] = "waiting" ~> pc[r] \in {"done", "dropped"}

\* What racing operators, the timer and dropped calls leave behind: nothing
\* that passes without approval, one resolution that counts, and a map of what
\* is waited for or was dropped.
ResolutionIsSound ==
    /\ TypeOK
    /\ ApprovedOnly
    /\ ResolvedOnce /\ AcceptedIsDelivered
    /\ HeldWhileWaiting

-----------------------------------------------------------------------------
(* The abstract specification.  The operators are one voice: what the first  *)
(* of those who are authorized is told to have decided.                      *)

Word(x) == [by |-> "operators", consents |-> x.decision = "approve"]

Said(r) ==
    {Word(x) : x \in {y \in accepted : y.id = r /\ y.approver \in Authorized}}

Operating == INSTANCE Consent WITH
    Case <- Requests, NeedsConsent <- NeedsApproval, Voice <- {"operators"},
    said <- [r \in Requests |-> Said(r)], given <- verdict

\* Holding an action for its operators is asking for consent: they decide
\* once for all of them, a call gets one verdict, and none that needs approval
\* is allowed before an operator on the list approved it (gate.rs:82).
ImplementsConsent == Operating!Spec
===============================================================================
