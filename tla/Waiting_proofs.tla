---------------------------- MODULE Waiting_proofs ----------------------------
(***************************************************************************)
(* Proofs about the parts in which somebody waits for a person.            *)
(*                                                                         *)
(* Held actions, for any requests, operators and allowlists: the types,    *)
(* that only an authorized approval opens the way to the inner gate, and   *)
(* that at most one resolution of a held action is accepted.               *)
(*                                                                         *)
(* The approval relay, for any number of requests that share the terminal: *)
(* what is in the audit file and in Slack.  The proofs about the third     *)
(* part, the scheduler, are in AgentScheduler_proofs.                      *)
(***************************************************************************)
EXTENDS MCWaiting, FiniteSetTheorems, TLAPS

-----------------------------------------------------------------------------
(* Held actions                                                              *)

LEMMA TypeInit == Init => TypeOK
BY DEF Init, TypeOK, Pcs, Entries, Absent

\* Every step keeps the types.
LEMMA TypeStep == TypeOK /\ [Next]_vars => TypeOK'
<1> SUFFICES ASSUME TypeOK, [Next]_vars PROVE TypeOK'
  OBVIOUS
<1> USE DEF TypeOK
<1>1. ASSUME NEW r \in Requests, PassThrough(r) PROVE TypeOK'
  BY <1>1 DEF PassThrough, Pcs
<1>2. ASSUME NEW r \in Requests, Hold(r) PROVE TypeOK'
  BY <1>2 DEF Hold, Pcs, Held, Entries
<1>3. ASSUME NEW r \in Requests, Notified(r) PROVE TypeOK'
  BY <1>3 DEF Notified, Pcs
<1>4. ASSUME NEW r \in Requests, Receive(r) PROVE TypeOK'
  BY <1>4 DEF Receive, Woken, Pcs
<1>5. ASSUME NEW r \in Requests, Elapse(r) PROVE TypeOK'
  BY <1>5 DEF Elapse, Pcs
<1>6. ASSUME NEW r \in Requests, GiveUp(r) PROVE TypeOK'
  BY <1>6 DEF GiveUp, Pcs
<1>7. ASSUME NEW r \in Requests, Close(r) PROVE TypeOK'
  BY <1>7 DEF Close, Removed, Absent, Entries, Pcs
<1>8. ASSUME NEW r \in Requests, InnerGate(r) PROVE TypeOK'
  BY <1>8 DEF InnerGate, Pcs
<1>9. ASSUME NEW r \in Requests, Drop(r) PROVE TypeOK'
  BY <1>9 DEF Drop, Pcs
<1>10. ASSUME NEW o \in Operators, NEW r \in Requests, NEW d \in Decisions, Resolve(o, r, d)
       PROVE  TypeOK'
  <2>1. Taken(entries[r], d) \in Entries
    BY DEF Taken, Entries, Decisions
  <2>2. Resolution(o, r, d) \in Resolutions
    BY DEF Resolution, Resolutions
  <2>3. entries' \in [Requests -> Entries]
    BY <1>10, <2>1 DEF Resolve
  <2>4. channel' \in [Requests -> Decisions \cup {"empty"}]
    BY <1>10 DEF Resolve
  <2>5. accepted' \subseteq Resolutions /\ emitting' \subseteq Resolutions
    BY <1>10, <2>2 DEF Resolve
  <2> QED
    BY <1>10, <2>3, <2>4, <2>5 DEF Resolve
<1>11. ASSUME NEW x \in emitting, Emit(x) PROVE TypeOK'
  BY <1>11 DEF Emit
<1>12. ASSUME NEW x \in emitting, Disconnect(x) PROVE TypeOK'
  BY <1>12 DEF Disconnect
<1>13. CASE UNCHANGED vars
  BY <1>13 DEF vars
<1> QED
  BY <1>1, <1>2, <1>3, <1>4, <1>5, <1>6, <1>7, <1>8, <1>9, <1>10, <1>11, <1>12, <1>13
     DEF Next, Evaluate

\* Every variable keeps its type, whatever the requests and operators.
THEOREM TypeCorrectness == Spec => []TypeOK
BY TypeInit, TypeStep, PTL DEF Spec

-----------------------------------------------------------------------------
(* The sender of a held action's channel is the right to resolve it: while it *)
(* is in the map nothing has been accepted, and what a call goes by was sent  *)
(* by an authorized operator.                                                 *)

\* Nobody has resolved r while its sender is in the map, or before it is held.
SenderIsUnused ==
    \A r \in Requests : entries[r].tx \/ pc[r] = "idle" =>
        /\ channel[r] = "empty"
        /\ \A x \in accepted : x.id # r

\* A decision in the channel was accepted from an authorized operator.
ChannelIsAccepted ==
    \A r \in Requests : channel[r] # "empty" =>
        \E o \in Authorized : Resolution(o, r, channel[r]) \in accepted

\* What a call goes by came through its channel.
DecisionIsSent ==
    \A r \in Requests : decision[r] \in Decisions => channel[r] = decision[r]

\* A call that needs approval is past its approval only with a decision.
PassedByDecision ==
    \A r \in NeedsApproval :
        pc[r] = "inner" \/ verdict[r] = "allow" => decision[r] = "approve"

\* A call that still waits goes by no decision.
WaitingIsUndecided ==
    \A r \in Requests : pc[r] \in {"idle", "notifying", "waiting", "elapsed"} =>
        decision[r] = "none"

\* A call that has not begun has nothing in the map.
IdleIsNotHeld == \A r \in Requests : pc[r] = "idle" => ~entries[r].tx

AcceptedOnce == \A x \in accepted, y \in accepted : x.id = y.id => x = y

EmittingIsAccepted == emitting \cup audit \subseteq accepted

IInv ==
    /\ TypeOK
    /\ SenderIsUnused
    /\ IdleIsNotHeld
    /\ WaitingIsUndecided
    /\ ChannelIsAccepted
    /\ DecisionIsSent
    /\ PassedByDecision
    /\ AcceptedOnce
    /\ EmittingIsAccepted

LEMMA IInvInit == Init => IInv
BY TypeInit, EscalationAssumption DEF Init, IInv, Absent, IdleIsNotHeld, WaitingIsUndecided, SenderIsUnused, ChannelIsAccepted, DecisionIsSent,
     PassedByDecision, AcceptedOnce, EmittingIsAccepted, Decisions

\* The steps of a call: they accept nothing and send nothing.
LEMMA CallStep ==
    ASSUME IInv, NEW r \in Requests, Evaluate(r) \/ Notified(r) \/ Drop(r)
    PROVE  IInv'
<1> USE DEF IInv
<1>1. TypeOK'
  BY TypeStep DEF Next
<1>2. UNCHANGED <<channel, accepted, emitting, audit>>
  BY DEF Evaluate, PassThrough, Hold, Notified, Receive, Elapse, GiveUp, Close,
         InnerGate, Drop
<1>3. SenderIsUnused'
  <2>1. ASSUME NEW q \in Requests, entries'[q].tx \/ pc'[q] = "idle"
        PROVE  entries[q].tx \/ pc[q] = "idle"
    BY <2>1 DEF TypeOK, Evaluate, PassThrough, Hold, Notified, Receive, Elapse,
         GiveUp, Close, InnerGate, Drop, Removed, Absent, Entries, Passes
  <2> QED
    BY <1>2, <2>1 DEF SenderIsUnused
<1>4. ChannelIsAccepted'
  BY <1>2 DEF ChannelIsAccepted
<1>5. DecisionIsSent'
  <2>1. ASSUME NEW q \in Requests
        PROVE  decision'[q] \in {decision[q], channel[q], "timeout"}
    BY DEF TypeOK, Evaluate, PassThrough, Hold, Notified, Receive, Elapse,
         GiveUp, Close, InnerGate, Drop
  <2> QED
    BY <1>2, <2>1 DEF DecisionIsSent, Decisions, TypeOK
<1>6. PassedByDecision'
  <2> SUFFICES ASSUME NEW q \in NeedsApproval, pc'[q] = "inner" \/ verdict'[q] = "allow"
               PROVE  decision'[q] = "approve"
    BY DEF PassedByDecision
  <2>0. q \in Requests
    BY EscalationAssumption
  <2>1. CASE Close(r)
    BY <2>0, <2>1 DEF Close, Passes, PassedByDecision, TypeOK
  <2>2. CASE InnerGate(r)
    BY <2>0, <2>2 DEF InnerGate, PassedByDecision, TypeOK
  <2>3. CASE Receive(r)
    BY <2>0, <2>3 DEF Receive, PassedByDecision, DecisionIsSent, Woken, Decisions, TypeOK
  <2>4. CASE GiveUp(r)
    BY <2>0, <2>4 DEF GiveUp, PassedByDecision, WaitingIsUndecided, TypeOK
  <2>5. CASE PassThrough(r) \/ Hold(r) \/ Notified(r) \/ Elapse(r) \/ Drop(r)
    BY <2>0, <2>5 DEF PassThrough, Hold, Notified, Elapse, Drop, PassedByDecision, TypeOK
  <2> QED
    BY <2>1, <2>2, <2>3, <2>4, <2>5 DEF Evaluate
<1>7. WaitingIsUndecided'
  BY DEF TypeOK, WaitingIsUndecided, Evaluate, PassThrough, Hold, Notified, Receive,
         Elapse, GiveUp, Close, InnerGate, Drop
<1>8. IdleIsNotHeld'
  BY DEF TypeOK, IdleIsNotHeld, Evaluate, PassThrough, Hold, Notified, Receive, Elapse,
         GiveUp, Close, InnerGate, Drop, Removed, Absent
<1>9. AcceptedOnce' /\ EmittingIsAccepted'
  BY <1>2 DEF AcceptedOnce, EmittingIsAccepted
<1> QED
  BY <1>1, <1>3, <1>4, <1>5, <1>6, <1>7, <1>8, <1>9

\* The resolution of a held action whose sender was still there.
LEMMA ResolveStep ==
    ASSUME IInv, NEW o \in Operators, NEW r \in Requests, NEW d \in Decisions,
           Resolve(o, r, d)
    PROVE  IInv'
<1> USE DEF IInv
<1>1. TypeOK'
  BY TypeStep DEF Next
<1>2. UNCHANGED <<pc, decision, verdict, audit>> /\ o \in Authorized /\ entries[r].tx
  BY DEF Resolve, MayResolve
<1>3. /\ channel[r] = "empty"
      /\ \A x \in accepted : x.id # r
  BY <1>2 DEF SenderIsUnused
<1>4. accepted' \in {accepted, accepted \cup {Resolution(o, r, d)}}
  BY DEF Resolve
<1>5. \A q \in Requests : q # r => /\ channel'[q] = channel[q]
                                   /\ entries'[q] = entries[q]
  BY DEF Resolve, TypeOK
<1>6. /\ ~entries'[r].tx
      /\ channel'[r] \in {"empty", d}
      /\ channel'[r] = d => Resolution(o, r, d) \in accepted'
  BY <1>3 DEF Resolve, TypeOK, Taken, Sends, Decisions
<1>7. pc[r] # "idle"
  BY <1>2 DEF IdleIsNotHeld
<1>8. Resolution(o, r, d).id = r
  BY DEF Resolution
<1>9. SenderIsUnused'
  BY <1>2, <1>4, <1>5, <1>6, <1>7, <1>8 DEF SenderIsUnused
<1>10. ChannelIsAccepted'
  <2> SUFFICES ASSUME NEW q \in Requests, channel'[q] # "empty"
               PROVE  \E a \in Authorized : Resolution(a, q, channel'[q]) \in accepted'
    BY DEF ChannelIsAccepted
  <2>1. CASE q = r
    BY <2>1, <1>2, <1>6
  <2>2. CASE q # r
    BY <2>2, <1>4, <1>5 DEF ChannelIsAccepted
  <2> QED
    BY <2>1, <2>2
<1>11. DecisionIsSent'
  BY <1>2, <1>3, <1>5 DEF DecisionIsSent, Decisions
<1>12. PassedByDecision'
  BY <1>2 DEF PassedByDecision
<1>13. AcceptedOnce'
  BY <1>3, <1>4, <1>8 DEF AcceptedOnce
<1>14. WaitingIsUndecided'
  BY <1>2 DEF WaitingIsUndecided
<1>15. IdleIsNotHeld'
  BY <1>2, <1>5, <1>6 DEF IdleIsNotHeld
<1>16. EmittingIsAccepted'
  BY <1>2, <1>4 DEF EmittingIsAccepted, Resolve
<1> QED
  BY <1>1, <1>9, <1>10, <1>11, <1>12, <1>13, <1>14, <1>15, <1>16

LEMMA IInvStep == IInv /\ [Next]_vars => IInv'
<1> SUFFICES ASSUME IInv, [Next]_vars PROVE IInv'
  OBVIOUS
<1>1. ASSUME NEW x \in emitting, Emit(x) \/ Disconnect(x) PROVE IInv'
  <2>1. TypeOK'
    BY <1>1, TypeStep DEF IInv, Next
  <2>2. /\ UNCHANGED <<pc, entries, channel, decision, verdict, accepted>>
        /\ emitting' \cup audit' \subseteq emitting \cup audit
    BY <1>1 DEF Emit, Disconnect
  <2> QED
    BY <2>1, <2>2 DEF IInv, IdleIsNotHeld, WaitingIsUndecided, SenderIsUnused, ChannelIsAccepted, DecisionIsSent,
         PassedByDecision, AcceptedOnce, EmittingIsAccepted
<1>2. CASE UNCHANGED vars
  BY <1>2, TypeStep DEF vars, IInv, IdleIsNotHeld, WaitingIsUndecided, SenderIsUnused, ChannelIsAccepted, DecisionIsSent,
       PassedByDecision, AcceptedOnce, EmittingIsAccepted
<1> QED
  BY <1>1, <1>2, CallStep, ResolveStep DEF Next

LEMMA IInvHolds == Spec => []IInv
BY IInvInit, IInvStep, PTL DEF Spec

\* An action that needs approval reaches the inner gate, or is allowed, only
\* after an authorized operator approved it.
THEOREM OnlyApprovedActionsPass == Spec => []ApprovedOnly
<1>1. IInv => ApprovedOnly
  <2> SUFFICES ASSUME IInv, NEW r \in NeedsApproval, pc[r] = "inner" \/ verdict[r] = "allow"
               PROVE  \E o \in Authorized : Resolution(o, r, "approve") \in accepted
    BY DEF ApprovedOnly
  <2>1. r \in Requests
    BY EscalationAssumption
  <2>2. decision[r] = "approve" /\ channel[r] = "approve"
    BY <2>1 DEF IInv, PassedByDecision, DecisionIsSent, Decisions
  <2> QED
    BY <2>1, <2>2 DEF IInv, ChannelIsAccepted
<1> QED
  BY <1>1, IInvHolds, PTL

\* At most one resolution of a held action is accepted, and only accepted
\* resolutions are audited.
THEOREM AtMostOneResolution == Spec => []ResolvedOnce
<1>1. IInv => ResolvedOnce
  BY DEF IInv, ResolvedOnce, AcceptedOnce, EmittingIsAccepted
<1> QED
  BY <1>1, IInvHolds, PTL

-----------------------------------------------------------------------------
(* The map of held actions. *)

Open(r) == pc[r] \in {"notifying", "waiting", "elapsed", "closing"}

\* One call and its entry.
HeldIfOpen(r) ==
    /\ Open(r) => entries[r] # Absent
    /\ entries[r] # Absent => Open(r) \/ pc[r] = "dropped"

LEMMA HeldIsAbsent == Held # Absent
BY DEF Held, Absent

LEMMA HeldStep ==
    ASSUME TypeOK, NEW q \in Requests, HeldIfOpen(q), [Next]_vars
    PROVE  HeldIfOpen(q)'
<1> USE DEF TypeOK, HeldIfOpen, Open
<1>1. ASSUME NEW r \in Requests, Evaluate(r) PROVE HeldIfOpen(q)'
  <2>1. CASE PassThrough(r)
    BY <2>1 DEF PassThrough
  <2>2. CASE Hold(r)
    BY <2>2, HeldIsAbsent DEF Hold
  <2>3. CASE Receive(r) \/ Elapse(r) \/ GiveUp(r)
    BY <2>3 DEF Receive, Elapse, GiveUp
  <2>4. CASE Close(r)
    BY <2>4 DEF Close, Removed
  <2>5. CASE InnerGate(r)
    BY <2>5 DEF InnerGate
  <2> QED
    BY <1>1, <2>1, <2>2, <2>3, <2>4, <2>5 DEF Evaluate
<1>2. ASSUME NEW r \in Requests, Notified(r) \/ Drop(r) PROVE HeldIfOpen(q)'
  BY <1>2 DEF Notified, Drop
<1>3. ASSUME NEW o \in Operators, NEW r \in Requests, NEW d \in Decisions,
             Resolve(o, r, d)
      PROVE  HeldIfOpen(q)'
  <2>1. entries[r] # Absent /\ Taken(entries[r], d) # Absent
    BY <1>3 DEF Resolve, Absent, Taken, Decisions
  <2> QED
    BY <1>3, <2>1 DEF Resolve
<1>4. ASSUME NEW x \in emitting, Emit(x) \/ Disconnect(x) PROVE HeldIfOpen(q)'
  BY <1>4 DEF Emit, Disconnect
<1>5. CASE UNCHANGED vars
  BY <1>5 DEF vars
<1> QED
  BY <1>1, <1>2, <1>3, <1>4, <1>5 DEF Next

\* The map holds exactly the actions some call waits on, and those of dropped
\* calls.
THEOREM MapHoldsWhatIsWaitedFor == Spec => []HeldWhileWaiting
<1>1. HeldWhileWaiting <=> \A r \in Requests : HeldIfOpen(r)
  BY DEF HeldWhileWaiting, HeldIfOpen, Open
<1>2. Init => HeldWhileWaiting
  BY DEF Init, HeldWhileWaiting
<1>3. TypeOK /\ HeldWhileWaiting /\ [Next]_vars => HeldWhileWaiting'
  BY <1>1, HeldStep DEF HeldWhileWaiting, HeldIfOpen, Open
<1> QED
  BY <1>2, <1>3, TypeCorrectness, PTL DEF Spec

-----------------------------------------------------------------------------
(* What is accepted is in the channel, and stays there: the channel is used  *)
(* only while its sender is in the map, when nothing was accepted yet.       *)

AcceptedIsSent == \A x \in accepted : channel[x.id] = x.decision

LEMMA SentStep == IInv /\ AcceptedIsSent /\ [Next]_vars => AcceptedIsSent'
<1> SUFFICES ASSUME IInv, AcceptedIsSent, [Next]_vars PROVE AcceptedIsSent'
  OBVIOUS
<1>1. ASSUME NEW o \in Operators, NEW r \in Requests, NEW d \in Decisions,
             Resolve(o, r, d)
      PROVE  AcceptedIsSent'
  <2>1. \A x \in accepted : x.id # r
    BY <1>1 DEF Resolve, IInv, SenderIsUnused
  <2>2. \A x \in accepted : x.id \in Requests
    BY DEF IInv, TypeOK, Resolutions
  <2>3. \A q \in Requests : q # r => channel'[q] = channel[q]
    BY <1>1 DEF Resolve, IInv, TypeOK
  <2>4. CASE Sends(r)
    <3>1. channel'[r] = d
      BY <1>1, <2>4 DEF Resolve, Sends, IInv, TypeOK
    <3>2. /\ accepted' = accepted \cup {Resolution(o, r, d)}
          /\ Resolution(o, r, d).id = r
          /\ Resolution(o, r, d).decision = d
      BY <1>1, <2>4 DEF Resolve, Resolution
    <3> QED
      BY <2>1, <2>2, <2>3, <3>1, <3>2 DEF AcceptedIsSent
  <2>5. CASE ~Sends(r)
    BY <1>1, <2>1, <2>2, <2>3, <2>5 DEF Resolve, AcceptedIsSent
  <2> QED
    BY <2>4, <2>5
<1>2. ASSUME NEW r \in Requests, Evaluate(r) \/ Notified(r) \/ Drop(r)
      PROVE  UNCHANGED <<channel, accepted>>
  BY <1>2 DEF Evaluate, PassThrough, Hold, Notified, Receive, Elapse, GiveUp,
         Close, InnerGate, Drop
<1>3. ASSUME NEW x \in emitting, Emit(x) \/ Disconnect(x)
      PROVE  UNCHANGED <<channel, accepted>>
  BY <1>3 DEF Emit, Disconnect
<1>4. CASE UNCHANGED <<channel, accepted>>
  BY <1>4 DEF AcceptedIsSent
<1> QED
  BY <1>1, <1>2, <1>3, <1>4 DEF Next, vars

\* An accepted resolution was sent while the call could still receive it, and
\* what the call goes by, unless its timer had elapsed, is that decision.
THEOREM AcceptedResolutionsCount == Spec => []AcceptedIsDelivered
<1>1. Init => AcceptedIsSent
  BY DEF Init, AcceptedIsSent
<1>2. IInv /\ AcceptedIsSent => AcceptedIsDelivered
  BY DEF IInv, TypeOK, AcceptedIsSent, AcceptedIsDelivered, DecisionIsSent,
         Resolutions, Decisions
<1> QED
  BY <1>1, <1>2, SentStep, IInvHolds, PTL DEF Spec

\* Racing operators, the timer and dropped calls leave one resolution that
\* counts, and a map of what is waited for or was dropped.
THEOREM ResolutionsAreSound == Spec => []ResolutionIsSound
<1>1. TypeOK /\ ApprovedOnly /\ ResolvedOnce /\ AcceptedIsDelivered
          /\ HeldWhileWaiting => ResolutionIsSound
  BY DEF ResolutionIsSound
<1> QED
  BY <1>1, TypeCorrectness, OnlyApprovedActionsPass, AtMostOneResolution,
     AcceptedResolutionsCount, MapHoldsWhatIsWaitedFor, PTL

-----------------------------------------------------------------------------
(* The queue implements Consent.  What the operators have said changes only  *)
(* with the first resolution that does not fail, and a verdict is the last   *)
(* thing that happens to a call.                                             *)

VerdictIsLast == \A r \in Requests : verdict[r] # "none" => pc[r] = "done"

LEMMA VerdictStep ==
    ASSUME TypeOK, VerdictIsLast, [Next]_vars PROVE VerdictIsLast'
<1> USE DEF VerdictIsLast, TypeOK
<1>1. ASSUME NEW r \in Requests, Evaluate(r) \/ Notified(r) \/ Drop(r)
      PROVE  VerdictIsLast'
  BY <1>1 DEF Evaluate, PassThrough, Hold, Notified, Receive, Elapse, GiveUp,
         Close, InnerGate, Drop
<1>2. CASE UNCHANGED <<pc, verdict>>
  BY <1>2
<1> QED
  BY <1>1, <1>2 DEF Next, Resolve, Emit, Disconnect, vars

\* What is not resolved by a step stays as it was said.
LEMMA SaidStays ==
    ASSUME NEW r \in Requests, accepted' = accepted PROVE Said(r)' = Said(r)
BY DEF Said

LEMMA ResolveIsSaid ==
    ASSUME IInv, NEW o \in Operators, NEW r \in Requests,
           NEW d \in Decisions, Resolve(o, r, d)
    PROVE  [Operating!Next]_Operating!vars
<1> DEFINE said == [q \in Requests |-> Said(q)]
           x == Resolution(o, r, d)
<1>1. verdict' = verdict /\ o \in Authorized
  BY DEF Resolve, MayResolve
<1>2. CASE ~Sends(r)
  <2>1. \A q \in Requests : Said(q)' = Said(q)
    BY <1>2, SaidStays DEF Resolve
  <2>2. said' = said
    BY <2>1
  <2> QED
    BY <1>1, <2>2 DEF Operating!vars
<1>3. CASE Sends(r)
  <2>1. accepted' = accepted \cup {x}
    BY <1>3 DEF Resolve
  <2>2. \A y \in accepted : y.id # r
    BY DEF Resolve, IInv, SenderIsUnused
  <2>3. x.id = r /\ x.approver = o /\ x.decision = d
    BY DEF Resolution
  <2>4. Said(r) = {} /\ Said(r)' = {Word(x)}
    BY <1>1, <2>1, <2>2, <2>3 DEF Said
  <2>5. \A q \in Requests : q # r => Said(q)' = Said(q)
    BY <2>1, <2>3 DEF Said
  <2>6. said' = [said EXCEPT ![r] = @ \union {Word(x)}]
    BY <2>4, <2>5
  <2>7. Word(x) = [by |-> "operators", consents |-> (d = "approve")]
    BY <2>3 DEF Word
  <2>8. said[r] = {}
    BY <2>4
  <2> HIDE DEF said, x
  <2>9. \E voice \in {"operators"}, consents \in BOOLEAN :
          /\ \A word \in said[r] : word.by # voice
          /\ said' = [said EXCEPT ![r] =
                        @ \union {[by |-> voice, consents |-> consents]}]
          /\ UNCHANGED verdict
    <3>1. (d = "approve") \in BOOLEAN
      OBVIOUS
    <3> QED
      BY <1>1, <2>6, <2>7, <2>8, <3>1
  <2>10. Operating!Speak(r)
    BY <2>9 DEF Operating!Speak, said
  <2> QED
    BY <2>10 DEF Operating!Next
<1> QED
  BY <1>2, <1>3

LEMMA CallIsDecided ==
    ASSUME IInv, ApprovedOnly, VerdictIsLast, NEW r \in Requests,
           Evaluate(r) \/ Notified(r) \/ Drop(r)
    PROVE  [Operating!Next]_Operating!vars
<1> DEFINE said == [q \in Requests |-> Said(q)]
<1>1. said' = said
  <2>1. accepted' = accepted
    BY DEF Evaluate, PassThrough, Hold, Notified, Receive, Elapse, GiveUp,
           Close, InnerGate, Drop
  <2> QED
    BY <2>1, SaidStays
<1>2. CASE verdict' = verdict
  BY <1>1, <1>2 DEF Operating!vars
<1>3. CASE Close(r) /\ verdict' # verdict
  <2>1. verdict[r] = "none" /\ verdict' = [verdict EXCEPT ![r] = "deny"]
    BY <1>3 DEF Close, VerdictIsLast
  <2>2. Operating!Deny(r)
    BY <1>1, <2>1 DEF Operating!Deny
  <2> QED
    BY <2>2 DEF Operating!Next
<1>4. CASE InnerGate(r)
  <2>1. PICK v \in {"allow", "deny"} : verdict' = [verdict EXCEPT ![r] = v]
    BY <1>4 DEF InnerGate
  <2>2. verdict[r] = "none" /\ pc[r] = "inner"
    BY <1>4 DEF InnerGate, VerdictIsLast
  <2>3. CASE v = "deny"
    <3>1. Operating!Deny(r)
      BY <1>1, <2>1, <2>2, <2>3 DEF Operating!Deny
    <3> QED
      BY <3>1 DEF Operating!Next
  <2>4. CASE v = "allow"
    <3>1. ASSUME r \in NeedsApproval
          PROVE  \E word \in said[r] : word.consents
      <4>1. PICK o \in Authorized : Resolution(o, r, "approve") \in accepted
        BY <2>2, <3>1 DEF ApprovedOnly
      <4>2. Word(Resolution(o, r, "approve")) \in Said(r)
        BY <4>1 DEF Said, Resolution
      <4>3. Word(Resolution(o, r, "approve")).consents
        BY DEF Word, Resolution
      <4> QED
        BY <4>2, <4>3
    <3>2. Operating!Allow(r)
      BY <1>1, <2>1, <2>2, <2>4, <3>1 DEF Operating!Allow
    <3> QED
      BY <3>2 DEF Operating!Next
  <2> QED
    BY <2>1, <2>3, <2>4
<1> QED
  BY <1>2, <1>3, <1>4 DEF Evaluate, PassThrough, Hold, Notified, Receive,
     Elapse, GiveUp, Drop

LEMMA StepAsksConsent ==
    ASSUME IInv, ApprovedOnly, VerdictIsLast, [Next]_vars
    PROVE  [Operating!Next]_Operating!vars
<1>1. CASE UNCHANGED <<accepted, verdict>>
  <2>1. \A r \in Requests : Said(r)' = Said(r)
    BY <1>1, SaidStays
  <2> QED
    BY <1>1, <2>1 DEF Operating!vars
<1> QED
  BY <1>1, ResolveIsSaid, CallIsDecided DEF Next, Emit, Disconnect, vars

\* Holding an action for its operators implements asking for consent.
THEOREM QueueAsksForConsent == Spec => ImplementsConsent
<1>1. Init => Operating!Init
  BY DEF Init, Operating!Init, Said
<1>2. Init => VerdictIsLast
  BY DEF Init, VerdictIsLast
<1> QED
  BY <1>1, <1>2, VerdictStep, StepAsksConsent, TypeCorrectness, IInvHolds,
     OnlyApprovedActionsPass, PTL DEF Spec, ImplementsConsent, Operating!Spec

-----------------------------------------------------------------------------
(* The approval relay.  RelayInv is inductive: how far the tasks of a request *)
(* have come, that each channel chooses once and a press is logged before it *)
(* is answered, what the audit file holds and what Slack shows.              *)

\* A set with at most one element.
Single(S) == \A x, y \in S : x = y

\* The types, with the functions as such.
RelayTypes ==
    /\ slack \in BOOLEAN
    /\ task \in [Request -> {"none", "racing", "updating", "cli", "done"}]
    /\ prompt \in [Request -> {"none", "printing", "printed", "done"}]
    /\ reader \in SUBSET Request /\ Single(reader)
    /\ typed \in [Request -> SUBSET Relay!Decision]
    /\ post \in [Request -> {"none", "sending", "posted", "listed", "failed"}]
    /\ pending \in SUBSET Request
    /\ message \in [Request -> {"none", "buttons"} \union Relay!Outcome]
    /\ press \in [Request ->
                    [at : {"none", "deciding", "logged", "done", "dropped"},
                     decision : SUBSET Relay!Decision]]
    /\ answer \in [Request -> SUBSET Relay!Decision]
    /\ late \in SUBSET Request
    /\ decided \in [Request -> SUBSET Relay!Decision]
    /\ delivered \in [Request -> SUBSET Relay!Decision]

\* How far the tasks of a request have come.
Reachable(r) ==
    /\ task[r] = "none" => post[r] = "none" /\ prompt[r] = "none"
    /\ r \in reader => prompt[r] = "printed"
    /\ typed[r] # {} => prompt[r] = "done"
    /\ task[r] \in {"updating", "cli"} => typed[r] # {}
    /\ r \in pending => post[r] = "listed" /\ press[r].at = "none"
    /\ press[r].at # "none" => post[r] = "listed"

\* Each channel decides once, and a press is in the audit file before it is
\* answered.
Chosen(r) ==
    /\ Single(typed[r]) /\ Single(press[r].decision)
    /\ \A d \in typed[r] : d.by # "slack"
    /\ \A d \in press[r].decision :
         d.by = "slack" /\ (d.late => d.outcome = "expired")
    /\ press[r].at = "none" <=> press[r].decision = {}
    /\ press[r].at \in {"logged", "done"} =>
         press[r].decision \subseteq decided[r]
    /\ answer[r] \subseteq press[r].decision \cap decided[r]

\* The audit file holds what was pressed or delivered.
Filed(r) ==
    /\ \A d \in decided[r] :
         IF d.by = "slack" THEN d \in press[r].decision ELSE d \in delivered[r]
    /\ delivered[r] \subseteq decided[r] /\ Single(delivered[r])
    /\ task[r] = "done" <=> delivered[r] # {}

\* An outcome in Slack is the one that is delivered from the terminal, or that
\* of a press.
Shown(r) ==
    message[r] \in Relay!Outcome =>
        \/ /\ \E d \in typed[r] : message[r] = d.outcome
           /\ task[r] = "cli" \/ (task[r] = "done" /\ delivered[r] = typed[r])
        \/ \E d \in press[r].decision \cap decided[r] : message[r] = d.outcome

RequestInv(r) == Reachable(r) /\ Chosen(r) /\ Filed(r) /\ Shown(r)

RelayInv == RelayTypes /\ \A r \in Request : RequestInv(r)

LEMMA DecisionTypes ==
    ASSUME NEW r, NEW o \in Relay!Outcome, NEW b \in {"cli", "slack", "system"}
    PROVE  /\ Relay!Decided(r, o, b) \in Relay!Decision
           /\ Relay!Decided(r, o, b).by = b
           /\ Relay!Decided(r, o, b).outcome = o
           /\ Relay!Decided(r, o, b).late = (r \in late)
  BY DEF Relay!Decided, Relay!Decision

LEMMA OutcomeOfDecision ==
    \A d \in Relay!Decision : d.outcome \in Relay!Outcome
  BY DEF Relay!Decision

LEMMA RelayInit == Relay!Init => RelayInv
  <1> SUFFICES ASSUME Relay!Init PROVE RelayInv
    OBVIOUS
  <1>1. RelayTypes
    BY DEF Relay!Init, RelayTypes, Relay!NoPress, Relay!Outcome, Single
  <1>2. \A r \in Request : RequestInv(r)
    BY DEF Relay!Init, RequestInv, Reachable, Chosen, Filed, Shown,
           Relay!NoPress, Relay!Outcome, Single
  <1> QED
    BY <1>1, <1>2 DEF RelayInv

\* What the steps of one request leave of another.
Untouched(r) ==
    /\ task'[r] = task[r] /\ prompt'[r] = prompt[r]
    /\ (r \in reader') => (r \in reader)
    /\ typed'[r] = typed[r] /\ post'[r] = post[r]
    /\ (r \in pending') = (r \in pending)
    /\ message'[r] = message[r] /\ press'[r] = press[r]
    /\ answer'[r] = answer[r]
    /\ decided'[r] = decided[r] /\ delivered'[r] = delivered[r]

LEMMA UntouchedKeeps ==
    ASSUME NEW r \in Request, RequestInv(r), Untouched(r)
    PROVE  RequestInv(r)'
  BY DEF RequestInv, Reachable, Chosen, Filed, Shown, Untouched

-----------------------------------------------------------------------------
\* The dispatcher.
LEMMA RelayHandleOne ==
    ASSUME RelayInv, NEW r \in Request, Relay!HandleOne(r)
    PROVE  RelayInv'
  <1> USE DEF Relay!HandleOne
  <1>1. RelayTypes'
    BY DEF RelayInv, RelayTypes
  <1>2. ASSUME NEW q \in Request, q # r PROVE Untouched(q)
    BY <1>2 DEF Untouched, RelayInv, RelayTypes
  <1>3. RequestInv(r)'
    BY DEF RelayInv, RelayTypes, RequestInv, Reachable, Chosen, Filed, Shown
  <1> QED
    BY <1>1, <1>2, <1>3, UntouchedKeeps DEF RelayInv

LEMMA RelayCliWins ==
    ASSUME RelayInv, NEW r \in Request, Relay!CliWins(r)
    PROVE  RelayInv'
  <1> USE DEF Relay!CliWins
  <1>1. RelayTypes'
    BY DEF RelayInv, RelayTypes
  <1>2. ASSUME NEW q \in Request, q # r PROVE Untouched(q)
    BY <1>2 DEF Untouched, RelayInv, RelayTypes
  <1>3. RequestInv(r)'
    BY DEF RelayInv, RelayTypes, RequestInv, Reachable, Chosen, Filed, Shown
  <1> QED
    BY <1>1, <1>2, <1>3, UntouchedKeeps DEF RelayInv

LEMMA RelayUpdateMessage ==
    ASSUME RelayInv, NEW r \in Request, Relay!UpdateMessage(r)
    PROVE  RelayInv'
  <1> USE DEF Relay!UpdateMessage
  <1>1. RelayTypes'
    BY OutcomeOfDecision DEF RelayInv, RelayTypes
  <1>2. ASSUME NEW q \in Request, q # r PROVE Untouched(q)
    BY <1>2 DEF Untouched, RelayInv, RelayTypes
  <1>3. RequestInv(r)'
    BY DEF RelayInv, RelayTypes, RequestInv, Reachable, Chosen, Filed,
           Shown, Relay!Decision
  <1> QED
    BY <1>1, <1>2, <1>3, UntouchedKeeps DEF RelayInv

LEMMA RelayDeliverTyped ==
    ASSUME RelayInv, NEW r \in Request, Relay!DeliverTyped(r)
    PROVE  RelayInv'
  <1> USE DEF Relay!DeliverTyped, Relay!Deliver
  <1>1. RelayTypes'
    BY DEF RelayInv, RelayTypes, Single
  <1>2. ASSUME NEW q \in Request, q # r PROVE Untouched(q)
    BY <1>2 DEF Untouched, RelayInv, RelayTypes
  <1>3. RequestInv(r)'
    BY DEF RelayInv, RelayTypes, RequestInv, Reachable, Chosen, Filed,
           Shown, Single
  <1> QED
    BY <1>1, <1>2, <1>3, UntouchedKeeps DEF RelayInv

LEMMA RelaySlackWins ==
    ASSUME RelayInv, NEW r \in Request, Relay!SlackWins(r)
    PROVE  RelayInv'
  <1>1. PICK d \in Relay!Decision :
              (d \in answer[r] \/ d.by = "system") /\ Relay!Deliver(r, d)
    <2>1. CASE \E d \in answer[r] : Relay!Deliver(r, d)
      BY <2>1 DEF RelayInv, RelayTypes
    <2>2. CASE Relay!Deliver(r, Relay!Decided(r, "deny", "system"))
      <3>1. "deny" \in Relay!Outcome
        BY DEF Relay!Outcome
      <3>2. QED  BY <2>2, <3>1, DecisionTypes
    <2>3. QED
      BY <2>1, <2>2 DEF Relay!SlackWins
  <1> USE DEF Relay!SlackWins, Relay!Deliver
  <1>2. RelayTypes'
    BY <1>1 DEF RelayInv, RelayTypes
  <1>3. ASSUME NEW q \in Request, q # r PROVE Untouched(q)
    BY <1>1, <1>3 DEF Untouched, RelayInv, RelayTypes
  <1>4. RequestInv(r)'
    <2>1. /\ decided'[r] = decided[r] \cup {d} /\ delivered'[r] = {d}
          /\ task'[r] = "done" /\ task[r] = "racing"
          /\ typed' = typed /\ press' = press /\ message' = message
          /\ answer' = answer /\ post' = post /\ prompt' = prompt
          /\ reader' = reader /\ pending' = pending
      BY <1>1 DEF RelayInv, RelayTypes
    <2>2. RequestInv(r)
      BY DEF RelayInv
    <2> HIDE DEF Relay!SlackWins, Relay!Deliver
    <2>3. Reachable(r)' /\ Chosen(r)'
      BY <2>1, <2>2 DEF RequestInv, Reachable, Chosen
    <2>4. Filed(r)'
      BY <1>1, <2>1, <2>2 DEF RequestInv, Chosen, Filed, Single
    <2>5. Shown(r)'
      BY <2>1, <2>2 DEF RequestInv, Shown
    <2>6. QED
      BY <2>3, <2>4, <2>5 DEF RequestInv
  <1> QED
    BY <1>2, <1>3, <1>4, UntouchedKeeps DEF RelayInv

LEMMA RelayPrintPrompt ==
    ASSUME RelayInv, NEW r \in Request, Relay!PrintPrompt(r)
    PROVE  RelayInv'
  <1>1. PICK d \in Relay!Decision :
          /\ d.by = "system"
          /\ \/ prompt' = [prompt EXCEPT ![r] = "printed"] /\ typed' = typed
             \/ /\ prompt' = [prompt EXCEPT ![r] = "done"]
                /\ typed' = [typed EXCEPT ![r] = {d}]
    <2> DEFINE D == Relay!Decided(r, "deny", "system")
    <2>1. D \in Relay!Decision /\ D.by = "system"
      <3>1. "deny" \in Relay!Outcome
        BY DEF Relay!Outcome
      <3>2. QED  BY <3>1, DecisionTypes
    <2>2. \/ prompt' = [prompt EXCEPT ![r] = "printed"] /\ typed' = typed
          \/ /\ prompt' = [prompt EXCEPT ![r] = "done"]
             /\ typed' = [typed EXCEPT ![r] = {D}]
      BY DEF Relay!PrintPrompt
    <2> HIDE DEF D
    <2>3. QED  BY <2>1, <2>2
  <1>5. /\ prompt[r] = "printing"
        /\ UNCHANGED <<slack, task, reader, post, pending, message, press,
                       answer, late, decided, delivered>>
    BY DEF Relay!PrintPrompt
  <1>2. RelayTypes'
    <2>1. /\ typed' \in [Request -> SUBSET Relay!Decision]
          /\ prompt' \in [Request -> {"none", "printing", "printed", "done"}]
      <3>1. {d} \in SUBSET Relay!Decision
        OBVIOUS
      <3>2. [typed EXCEPT ![r] = {d}] \in [Request -> SUBSET Relay!Decision]
        BY <3>1 DEF RelayInv, RelayTypes
      <3>3. QED
        BY <1>1, <3>2 DEF RelayInv, RelayTypes
    <2>2. QED
      BY <2>1, <1>5 DEF RelayInv, RelayTypes
  <1>3. ASSUME NEW q \in Request, q # r PROVE Untouched(q)
    BY <1>1, <1>3, <1>5 DEF Untouched, RelayInv, RelayTypes
  <1>4. RequestInv(r)'
    BY <1>1, <1>5 DEF RelayInv, RelayTypes, RequestInv, Reachable, Chosen,
                Filed, Shown, Single
  <1> QED
    BY <1>2, <1>3, <1>4, UntouchedKeeps DEF RelayInv

LEMMA RelayLock ==
    ASSUME RelayInv, NEW r \in Request, Relay!Lock(r)
    PROVE  RelayInv'
  <1> USE DEF Relay!Lock
  <1>1. RelayTypes'
    BY DEF RelayInv, RelayTypes, Single
  <1>2. ASSUME NEW q \in Request, q # r PROVE Untouched(q)
    BY <1>2 DEF Untouched, RelayInv, RelayTypes
  <1>3. RequestInv(r)'
    BY DEF RelayInv, RelayTypes, RequestInv, Reachable, Chosen, Filed,
           Shown, Single
  <1> QED
    BY <1>1, <1>2, <1>3, UntouchedKeeps DEF RelayInv

LEMMA RelayType ==
    ASSUME RelayInv, NEW r \in Request, Relay!Type(r)
    PROVE  RelayInv'
  <1>1. PICK d \in Relay!Decision :
              d.by = "cli" /\ typed' = [typed EXCEPT ![r] = {d}]
    <2>1. PICK o \in {"approve", "deny"} :
              typed' = [typed EXCEPT ![r] = {Relay!Decided(r, o, "cli")}]
      BY DEF Relay!Type
    <2>2. o \in Relay!Outcome
      BY DEF Relay!Outcome
    <2>3. QED  BY <2>1, <2>2, DecisionTypes
  <1> USE DEF Relay!Type
  <1>2. RelayTypes'
    BY <1>1 DEF RelayInv, RelayTypes, Single
  <1>3. ASSUME NEW q \in Request, q # r PROVE Untouched(q)
    BY <1>1, <1>3 DEF Untouched, RelayInv, RelayTypes
  <1>4. RequestInv(r)'
    <2>1. /\ typed'[r] = {d} /\ prompt'[r] = "done" /\ r \notin reader'
          /\ prompt[r] = "printed"
          /\ task' = task /\ press' = press /\ message' = message
          /\ answer' = answer /\ post' = post /\ pending' = pending
          /\ decided' = decided /\ delivered' = delivered
      BY <1>1 DEF RelayInv, RelayTypes, RequestInv, Reachable
    <2>2. RequestInv(r)
      BY DEF RelayInv
    <2> HIDE DEF Relay!Type
    <2>3. Reachable(r)'
      BY <2>1, <2>2 DEF RequestInv, Reachable
    <2>4. Chosen(r)'
      BY <1>1, <2>1, <2>2 DEF RequestInv, Chosen, Single
    <2>5. Filed(r)'
      BY <2>1, <2>2 DEF RequestInv, Filed
    <2>6. Shown(r)'
      BY <2>1, <2>2 DEF RequestInv, Reachable, Shown
    <2>7. QED
      BY <2>3, <2>4, <2>5, <2>6 DEF RequestInv
  <1> QED
    BY <1>2, <1>3, <1>4, UntouchedKeeps DEF RelayInv

LEMMA RelayShow ==
    ASSUME RelayInv, NEW r \in Request, Relay!Show(r)
    PROVE  RelayInv'
  <1> USE DEF Relay!Show
  <1>1. RelayTypes'
    BY DEF RelayInv, RelayTypes
  <1>2. ASSUME NEW q \in Request, q # r PROVE Untouched(q)
    BY <1>2 DEF Untouched, RelayInv, RelayTypes
  <1>3. RequestInv(r)'
    BY DEF RelayInv, RelayTypes, RequestInv, Reachable, Chosen, Filed,
           Shown, Relay!Outcome
  <1> QED
    BY <1>1, <1>2, <1>3, UntouchedKeeps DEF RelayInv

LEMMA RelayPostReturns ==
    ASSUME RelayInv, NEW r \in Request, Relay!PostReturns(r)
    PROVE  RelayInv'
  <1> USE DEF Relay!PostReturns
  <1>1. RelayTypes'
    BY DEF RelayInv, RelayTypes
  <1>2. ASSUME NEW q \in Request, q # r PROVE Untouched(q)
    BY <1>2 DEF Untouched, RelayInv, RelayTypes
  <1>3. RequestInv(r)'
    BY DEF RelayInv, RelayTypes, RequestInv, Reachable, Chosen, Filed,
           Shown
  <1> QED
    BY <1>1, <1>2, <1>3, UntouchedKeeps DEF RelayInv

LEMMA RelayListPending ==
    ASSUME RelayInv, NEW r \in Request, Relay!ListPending(r)
    PROVE  RelayInv'
  <1> USE DEF Relay!ListPending
  <1>1. RelayTypes'
    BY DEF RelayInv, RelayTypes
  <1>2. ASSUME NEW q \in Request, q # r PROVE Untouched(q)
    BY <1>2 DEF Untouched, RelayInv, RelayTypes
  <1>3. RequestInv(r)'
    BY DEF RelayInv, RelayTypes, RequestInv, Reachable, Chosen, Filed,
           Shown
  <1> QED
    BY <1>1, <1>2, <1>3, UntouchedKeeps DEF RelayInv

LEMMA RelayPress ==
    ASSUME RelayInv, NEW r \in Request, NEW a \in {"approve", "deny"},
           Relay!Press(r, a)
    PROVE  RelayInv'
  <1>1. PICK d \in Relay!Decision :
              /\ d.by = "slack" /\ (d.late => d.outcome = "expired")
              /\ press' = [press EXCEPT ![r] =
                             [at |-> "deciding", decision |-> {d}]]
    <2> DEFINE o == IF r \in late THEN "expired" ELSE a
    <2>1. press' = [press EXCEPT ![r] =
              [at |-> "deciding", decision |-> {Relay!Decided(r, o, "slack")}]]
      BY DEF Relay!Press, Relay!Pressed
    <2>2. o \in Relay!Outcome /\ (r \in late => o = "expired")
      BY DEF Relay!Outcome
    <2> DEFINE D == Relay!Decided(r, o, "slack")
    <2>3. /\ D \in Relay!Decision /\ D.by = "slack"
          /\ D.outcome = o /\ D.late = (r \in late)
      <3> HIDE DEF o
      <3>1. QED  BY <2>2, DecisionTypes
    <2>4. press' = [press EXCEPT ![r] =
                      [at |-> "deciding", decision |-> {D}]]
      BY <2>1
    <2> HIDE DEF o, D
    <2>5. QED  BY <2>2, <2>3, <2>4
  <1> USE DEF Relay!Press, Relay!Taken
  <1>2. RelayTypes'
    <2>1. [at |-> "deciding", decision |-> {d}] \in
              [at : {"none", "deciding", "logged", "done", "dropped"},
               decision : SUBSET Relay!Decision]
      OBVIOUS
    <2>2. press' \in [Request ->
              [at : {"none", "deciding", "logged", "done", "dropped"},
               decision : SUBSET Relay!Decision]]
      <3> DEFINE P == [at : {"none", "deciding", "logged", "done", "dropped"},
                       decision : SUBSET Relay!Decision]
                 p == [at |-> "deciding", decision |-> {d}]
      <3>1. p \in P /\ press \in [Request -> P]
        BY <2>1 DEF RelayInv, RelayTypes
      <3>2. press' = [press EXCEPT ![r] = p]
        BY <1>1
      <3> HIDE DEF P, p
      <3>3. press' \in [Request -> P]
        BY <3>1, <3>2
      <3>4. QED  BY <3>3 DEF P
    <2>3. QED
      BY <2>2 DEF RelayInv, RelayTypes
  <1>3. ASSUME NEW q \in Request, q # r PROVE Untouched(q)
    BY <1>1, <1>3 DEF Untouched, RelayInv, RelayTypes
  <1>4. RequestInv(r)'
    <2>1. /\ press'[r].at = "deciding" /\ press'[r].decision = {d}
          /\ r \notin pending' /\ r \in pending
          /\ task' = task /\ prompt' = prompt /\ reader' = reader
          /\ typed' = typed /\ message' = message /\ answer' = answer
          /\ post' = post /\ decided' = decided /\ delivered' = delivered
      <3>1. press'[r] = [at |-> "deciding", decision |-> {d}]
        BY <1>1 DEF RelayInv, RelayTypes
      <3>2. QED  BY <3>1
    <2>2. RequestInv(r)
      BY DEF RelayInv
    <2> HIDE DEF Relay!Press, Relay!Taken
    <2>3. Reachable(r)'
      BY <2>1, <2>2 DEF RequestInv, Reachable
    <2>4. press[r].decision = {} /\ answer[r] = {}
      BY <2>1, <2>2 DEF RequestInv, Reachable, Chosen
    <2>5. Chosen(r)'
      BY <1>1, <2>1, <2>2, <2>4 DEF RequestInv, Chosen, Single
    <2>6. Filed(r)'
      BY <2>1, <2>2, <2>4 DEF RequestInv, Filed
    <2>7. Shown(r)'
      BY <2>1, <2>2, <2>4 DEF RequestInv, Shown
    <2>8. QED
      BY <2>3, <2>5, <2>6, <2>7 DEF RequestInv
  <1> QED
    BY <1>2, <1>3, <1>4, UntouchedKeeps DEF RelayInv

LEMMA RelayLogPress ==
    ASSUME RelayInv, NEW r \in Request, Relay!LogPress(r)
    PROVE  RelayInv'
  <1> USE DEF Relay!LogPress
  <1>1. RelayTypes'
    BY DEF RelayInv, RelayTypes
  <1>2. ASSUME NEW q \in Request, q # r PROVE Untouched(q)
    BY <1>2 DEF Untouched, RelayInv, RelayTypes
  <1>3. RequestInv(r)'
    BY DEF RelayInv, RelayTypes, RequestInv, Reachable, Chosen, Filed,
           Shown
  <1> QED
    BY <1>1, <1>2, <1>3, UntouchedKeeps DEF RelayInv

LEMMA RelayFinishPress ==
    ASSUME RelayInv, NEW r \in Request, Relay!FinishPress(r)
    PROVE  RelayInv'
  <1> USE DEF Relay!FinishPress, Relay!Answers
  <1>1. RelayTypes'
    <2>1. PICK d \in press[r].decision :
              message' \in {message, [message EXCEPT ![r] = d.outcome]}
      OBVIOUS
    <2>2. d.outcome \in Relay!Outcome
      BY OutcomeOfDecision DEF RelayInv, RelayTypes
    <2>3. message' \in [Request -> {"none", "buttons"} \union Relay!Outcome]
      BY <2>1, <2>2 DEF RelayInv, RelayTypes
    <2>4. /\ answer' \in [Request -> SUBSET Relay!Decision]
          /\ press' \in [Request ->
              [at : {"none", "deciding", "logged", "done", "dropped"},
               decision : SUBSET Relay!Decision]]
      BY DEF RelayInv, RelayTypes
    <2>5. QED
      BY <2>3, <2>4 DEF RelayInv, RelayTypes
  <1>2. ASSUME NEW q \in Request, q # r PROVE Untouched(q)
    BY <1>2 DEF Untouched, RelayInv, RelayTypes
  <1>3. RequestInv(r)'
    BY DEF RelayInv, RelayTypes, RequestInv, Reachable, Chosen, Filed,
           Shown, Relay!Decision
  <1> QED
    BY <1>1, <1>2, <1>3, UntouchedKeeps DEF RelayInv

LEMMA RelayHangup ==
    ASSUME RelayInv, NEW r \in Request, Relay!Hangup(r)
    PROVE  RelayInv'
  <1> USE DEF Relay!Hangup
  <1>1. RelayTypes'
    <2>1. message' \in [Request -> {"none", "buttons"} \union Relay!Outcome]
      BY OutcomeOfDecision DEF RelayInv, RelayTypes
    <2>2. press' \in [Request ->
              [at : {"none", "deciding", "logged", "done", "dropped"},
               decision : SUBSET Relay!Decision]]
      BY DEF RelayInv, RelayTypes
    <2>3. QED
      BY <2>1, <2>2 DEF RelayInv, RelayTypes
  <1>2. ASSUME NEW q \in Request, q # r PROVE Untouched(q)
    BY <1>2 DEF Untouched, RelayInv, RelayTypes
  <1>3. RequestInv(r)'
    BY DEF RelayInv, RelayTypes, RequestInv, Reachable, Chosen, Filed,
           Shown, Relay!Decision
  <1> QED
    BY <1>1, <1>2, <1>3, UntouchedKeeps DEF RelayInv

LEMMA RelayExpire ==
    ASSUME RelayInv, NEW r \in Request, Relay!Expire(r)
    PROVE  RelayInv'
  <1>1. RelayTypes'
    BY DEF RelayInv, RelayTypes, Relay!Expire
  <1>2. \A q \in Request : Untouched(q)
    BY DEF Untouched, Relay!Expire
  <1> QED
    BY <1>1, <1>2, UntouchedKeeps DEF RelayInv

LEMMA RelayStep ==
    ASSUME RelayInv, [Relay!Next]_relay PROVE RelayInv'
  <1>1. CASE UNCHANGED relay
    <2>1. RelayTypes'
      BY <1>1 DEF relay, RelayInv, RelayTypes
    <2>2. \A q \in Request : Untouched(q)
      BY <1>1 DEF Untouched, relay
    <2>3. QED
      BY <2>1, <2>2, UntouchedKeeps DEF RelayInv
  <1>2. CASE Relay!Next
    <2>1. PICK r \in Request :
            \/ Relay!HandleOne(r) \/ Relay!Expire(r) \/ Relay!Decide(r)
            \/ Relay!HandlePress(r)
            \/ Relay!PrintPrompt(r) \/ Relay!Lock(r) \/ Relay!Type(r)
            \/ Relay!Show(r) \/ Relay!PostReturns(r) \/ Relay!ListPending(r)
            \/ Relay!Hangup(r)
            \/ \E a \in {"approve", "deny"} : Relay!Press(r, a)
      BY <1>2 DEF Relay!Next
    <2>2. CASE Relay!Decide(r)
      BY <2>2, RelayCliWins, RelayUpdateMessage, RelayDeliverTyped,
         RelaySlackWins DEF Relay!Decide
    <2>3. CASE Relay!HandlePress(r)
      BY <2>3, RelayLogPress, RelayFinishPress DEF Relay!HandlePress
    <2>4. CASE Relay!PrintPrompt(r) \/ Relay!Lock(r) \/ Relay!Type(r)
      BY <2>4, RelayPrintPrompt, RelayLock, RelayType
    <2>5. CASE Relay!Show(r) \/ Relay!PostReturns(r) \/ Relay!ListPending(r)
      BY <2>5, RelayShow, RelayPostReturns, RelayListPending
    <2>6. CASE \/ Relay!HandleOne(r) \/ Relay!Expire(r) \/ Relay!Hangup(r)
               \/ \E a \in {"approve", "deny"} : Relay!Press(r, a)
      BY <2>6, RelayHandleOne, RelayExpire, RelayHangup, RelayPress
    <2>7. QED
      BY <2>1, <2>2, <2>3, <2>4, <2>5, <2>6
  <1>3. QED
    BY <1>1, <1>2

\* At most one element is a cardinality of at most one.
LEMMA SingleCardinality ==
    ASSUME NEW S, Single(S) PROVE Cardinality(S) \in 0 .. 1
  <1>1. CASE S = {}
    BY <1>1, FS_EmptySet
  <1>2. ASSUME NEW x \in S PROVE Cardinality(S) \in 0 .. 1
    <2>1. S = {x}
      BY <1>2 DEF Single
    <2>2. Cardinality({x}) = 1
      BY FS_Singleton
    <2>3. QED  BY <2>1, <2>2
  <1>3. QED
    BY <1>1, <1>2

LEMMA RelayCardinality ==
    ASSUME NEW S PROVE Relay!Cardinality(S) = Cardinality(S)
  BY DEF Relay!Cardinality, Cardinality

LEMMA RelayInvIsEnough == RelayInv => Relay!RelayIsSound
  <1> SUFFICES ASSUME RelayInv PROVE Relay!RelayIsSound
    OBVIOUS
  <1>1. \A S : Single(S) => Relay!Cardinality(S) <= 1
    BY SingleCardinality, RelayCardinality
  <1>2. Relay!TypeOK
    <2>1. Relay!Cardinality(reader) <= 1
      BY <1>1 DEF RelayInv, RelayTypes
    <2>2. \A r \in Request : Relay!Cardinality(typed[r]) <= 1
      BY <1>1 DEF RelayInv, RequestInv, Chosen
    <2>3. QED
      BY <2>1, <2>2 DEF RelayInv, RelayTypes, Relay!TypeOK
  <1>3. Relay!AuditIsSound
    BY DEF RelayInv, RequestInv, Chosen, Filed, Single, Relay!AuditIsSound
  <1>4. Relay!MessageIsTrue
    <2> SUFFICES ASSUME NEW r \in Request, task[r] = "done",
                        message[r] \in Relay!Outcome,
                        \A d \in delivered[r] : message[r] # d.outcome
                 PROVE  \E d, e \in decided[r] :
                            d.by = "slack" /\ e.by # "slack"
      BY DEF Relay!MessageIsTrue
    <2>1. PICK e \in delivered[r] : TRUE
      BY DEF RelayInv, RequestInv, Filed
    <2>2. PICK d \in press[r].decision \cap decided[r] :
              message[r] = d.outcome
      BY DEF RelayInv, RequestInv, Shown
    <2>3. d.by = "slack" /\ e \in decided[r] /\ d # e
      BY <2>1, <2>2 DEF RelayInv, RequestInv, Chosen, Filed
    <2>4. e.by # "slack"
      BY <2>2, <2>3 DEF RelayInv, RequestInv, Chosen, Filed, Single
    <2>5. QED
      BY <2>2, <2>3, <2>4
  <1>5. QED
    BY <1>2, <1>3, <1>4 DEF Relay!RelayIsSound

\* Whatever operators, threads and agents do, and whatever Slack does with its
\* calls, the audit file of the relay holds the decision each caller was given,
\* each channel decides a request once, no press approves an expired request,
\* and Slack shows another outcome than the caller was given only if both
\* channels have decided (dispatcher.rs, slack_relay.rs:118).
THEOREM AuditAndMessagesAreTrue == WaitingSpec => []RelayIsSound
  <1>1. WaitingInit => RelayInv
    BY RelayInit DEF WaitingInit
  <1>2. RelayInv /\ [WaitingNext]_<<service, vars, relay, scheduler>>
            => RelayInv'
    <2> SUFFICES ASSUME RelayInv,
                        [WaitingNext]_<<service, vars, relay, scheduler>>
                 PROVE  RelayInv'
      OBVIOUS
    <2>1. [Relay!Next]_relay
      BY DEF WaitingNext
    <2>2. QED
      BY <2>1, RelayStep
  <1>3. RelayInv => RelayIsSound
    BY RelayInvIsEnough DEF RelayIsSound
  <1>4. WaitingSpec => WaitingInit
                /\ [][WaitingNext]_<<service, vars, relay, scheduler>>
    BY DEF WaitingSpec
  <1>5. QED
    BY <1>1, <1>2, <1>3, <1>4, PTL

-----------------------------------------------------------------------------
(* The relay implements Consent.  What was said about a request is what its  *)
(* prompt returned and what was pressed, which never change once they are    *)
(* there; a caller is given a decision at the end of its task.               *)

Heard(r) == typed[r] \union press[r].decision

Words(r) == {Relay!Word(d) : d \in Heard(r)}

Rulings == [r \in Request |-> Relay!Ruling(delivered[r])]

LEMMA SilentStep ==
    ASSUME \A r \in Request : Heard(r)' = Heard(r), delivered' = delivered
    PROVE  UNCHANGED Relay!Asking!vars
  <1>1. \A r \in Request : Words(r)' = Words(r)
    BY DEF Words
  <1>2. Rulings' = Rulings
    BY DEF Rulings
  <1>3. QED
    BY <1>1, <1>2 DEF Relay!Asking!vars, Words, Heard, Rulings

\* A channel that was silent about r is heard.
LEMMA HeardStep ==
    ASSUME RelayTypes, NEW r \in Request, NEW d \in Relay!Decision,
           \A e \in Heard(r) : e.by # d.by,
           Heard(r)' = Heard(r) \union {d},
           \A q \in Request \ {r} : Heard(q)' = Heard(q),
           delivered' = delivered
    PROVE  Relay!Asking!Next
  <1> DEFINE said == [q \in Request |-> Words(q)]
             w == [by |-> d.by, consents |-> (d.outcome = "approve")]
  <1>1. \A q \in Request \ {r} : Words(q)' = Words(q)
    BY DEF Words
  <1>2. Words(r)' = Words(r) \union {w}
    BY DEF Words, Relay!Word
  <1>3. said' = [said EXCEPT ![r] = @ \union {w}]
    BY <1>1, <1>2
  <1>4. \A word \in said[r] : word.by # d.by
    BY DEF Words, Relay!Word
  <1>5. d.by \in {"cli", "slack", "system"}
        /\ (d.outcome = "approve") \in BOOLEAN
    BY DEF Relay!Decision
  <1>6. Rulings' = Rulings
    BY DEF Rulings
  <1> HIDE DEF said
  <1>7. \E voice \in {"cli", "slack", "system"}, consents \in BOOLEAN :
          /\ \A word \in said[r] : word.by # voice
          /\ said' = [said EXCEPT ![r] =
                        @ \union {[by |-> voice, consents |-> consents]}]
          /\ UNCHANGED Rulings
    BY <1>3, <1>4, <1>5, <1>6
  <1>8. Relay!Asking!Speak(r)
    BY <1>7 DEF Relay!Asking!Speak, said, Rulings, Words, Heard
  <1>9. QED
    BY <1>8 DEF Relay!Asking!Next

\* The caller of r is given d.
LEMMA GivenStep ==
    ASSUME RelayInv, NEW r \in Request, NEW d \in Relay!Decision,
           d.outcome = "approve" => d \in Heard(r),
           \A q \in Request : Heard(q)' = Heard(q),
           delivered[r] = {},
           delivered' = [delivered EXCEPT ![r] = {d}]
    PROVE  Relay!Asking!Next
  <1> DEFINE said == [q \in Request |-> Words(q)]
             ruling == IF d.outcome = "approve" THEN "allow" ELSE "deny"
  <1>1. \A q \in Request : Words(q)' = Words(q)
    BY DEF Words
  <1>2. said' = said
    BY <1>1
  <1>3. Rulings[r] = "none"
    BY DEF Rulings, Relay!Ruling
  <1>4. Rulings' = [Rulings EXCEPT ![r] = ruling]
    <2>1. delivered'[r] = {d}
      BY DEF RelayInv, RelayTypes
    <2>2. ASSUME NEW q \in Request \ {r}
          PROVE  Relay!Ruling(delivered[q])' = Relay!Ruling(delivered[q])
      <3>1. delivered'[q] = delivered[q]
        BY DEF RelayInv, RelayTypes
      <3>2. QED
        BY <3>1 DEF Relay!Ruling
    <2>3. Relay!Ruling(delivered[r])' = ruling
      BY <2>1 DEF Relay!Ruling
    <2> HIDE DEF ruling
    <2>4. /\ Rulings'[r] = ruling
          /\ \A q \in Request \ {r} : Rulings'[q] = Rulings[q]
      BY <2>2, <2>3 DEF Rulings
    <2>5. /\ Rulings = [q \in Request |-> Rulings[q]]
          /\ Rulings' = [q \in Request |-> Rulings'[q]]
      BY DEF Rulings
    <2> HIDE DEF Rulings
    <2>6. QED
      BY <2>4, <2>5
  <1> HIDE DEF said
  <1>5. CASE d.outcome = "approve"
    <2>1. Relay!Word(d) \in said[r] /\ Relay!Word(d).consents
      BY <1>5 DEF said, Words, Relay!Word
    <2>2. Relay!Asking!Allow(r)
      BY <1>2, <1>3, <1>4, <1>5, <2>1
         DEF Relay!Asking!Allow, said, Rulings, Words, Heard
    <2>3. QED
      BY <2>2 DEF Relay!Asking!Next
  <1>6. CASE d.outcome # "approve"
    <2>1. Relay!Asking!Deny(r)
      BY <1>2, <1>3, <1>4, <1>6
         DEF Relay!Asking!Deny, said, Rulings, Words, Heard
    <2>2. QED
      BY <2>1 DEF Relay!Asking!Next
  <1>7. QED
    BY <1>5, <1>6

LEMMA TypedIsHeard ==
    ASSUME RelayInv, NEW r \in Request, Relay!PrintPrompt(r) \/ Relay!Type(r)
    PROVE  Relay!Asking!Next \/ UNCHANGED Relay!Asking!vars
  <1>1. typed[r] = {}
    BY DEF RelayInv, RequestInv, Reachable, Relay!PrintPrompt, Relay!Type
  <1>2. press' = press /\ delivered' = delivered
    BY DEF Relay!PrintPrompt, Relay!Type
  <1>3. \/ typed' = typed
        \/ \E d \in Relay!Decision : /\ d.by # "slack"
                                     /\ typed' = [typed EXCEPT ![r] = {d}]
    <2>1. CASE Relay!PrintPrompt(r)
      <3>1. "deny" \in Relay!Outcome
        BY DEF Relay!Outcome
      <3>2. QED
        BY <2>1, <3>1, DecisionTypes DEF Relay!PrintPrompt
    <2>2. CASE Relay!Type(r)
      <3>1. {"approve", "deny"} \subseteq Relay!Outcome
        BY DEF Relay!Outcome
      <3>2. QED
        BY <2>2, <3>1, DecisionTypes DEF Relay!Type
    <2>3. QED
      BY <2>1, <2>2
  <1>4. CASE typed' = typed
    <2>1. \A q \in Request : Heard(q)' = Heard(q)
      BY <1>2, <1>4 DEF Heard
    <2>2. QED
      BY <1>2, <2>1, SilentStep
  <1>5. ASSUME NEW d \in Relay!Decision, d.by # "slack",
               typed' = [typed EXCEPT ![r] = {d}]
        PROVE  Relay!Asking!Next
    <2>1. /\ Heard(r)' = Heard(r) \union {d}
          /\ \A q \in Request \ {r} : Heard(q)' = Heard(q)
      BY <1>1, <1>2, <1>5 DEF Heard, RelayInv, RelayTypes
    <2>2. \A e \in Heard(r) : e.by # d.by
      BY <1>1, <1>5 DEF Heard, RelayInv, RequestInv, Chosen
    <2>3. QED
      BY <1>2, <2>1, <2>2, HeardStep DEF RelayInv
  <1>6. QED
    BY <1>3, <1>4, <1>5

LEMMA PressIsHeard ==
    ASSUME RelayInv, NEW r \in Request, NEW a \in {"approve", "deny"},
           Relay!Press(r, a)
    PROVE  Relay!Asking!Next
  <1> DEFINE o == IF r \in late THEN "expired" ELSE a
             d == Relay!Decided(r, o, "slack")
  <1>1. o \in Relay!Outcome
    BY DEF Relay!Outcome
  <1>2. press' = [press EXCEPT ![r] = [at |-> "deciding", decision |-> {d}]]
    BY DEF Relay!Press, Relay!Pressed
  <1> HIDE DEF o
  <1>3. d \in Relay!Decision /\ d.by = "slack"
    BY <1>1, DecisionTypes
  <1>4. typed' = typed /\ delivered' = delivered
    BY DEF Relay!Press
  <1>5. press[r].decision = {}
    BY DEF Relay!Press, RelayInv, RequestInv, Reachable, Chosen
  <1> HIDE DEF d
  <1>6. press'[r].decision = {d}
        /\ \A q \in Request \ {r} : press'[q] = press[q]
    BY <1>2 DEF RelayInv, RelayTypes
  <1>7. /\ Heard(r)' = Heard(r) \union {d}
        /\ \A q \in Request \ {r} : Heard(q)' = Heard(q)
    BY <1>4, <1>5, <1>6 DEF Heard
  <1>8. \A e \in Heard(r) : e.by # d.by
    BY <1>3, <1>5 DEF Heard, RelayInv, RequestInv, Chosen
  <1>9. QED
    BY <1>3, <1>4, <1>7, <1>8, HeardStep DEF RelayInv

LEMMA DeliveryIsGiven ==
    ASSUME RelayInv, NEW r \in Request, NEW d \in Relay!Decision,
           Relay!DeliverTyped(r) \/ Relay!SlackWins(r), Relay!Deliver(r, d),
           d.outcome = "approve" => d \in Heard(r)
    PROVE  Relay!Asking!Next
  <1>1. typed' = typed /\ press' = press /\ task[r] # "done"
    BY DEF Relay!DeliverTyped, Relay!SlackWins
  <1>2. \A q \in Request : Heard(q)' = Heard(q)
    BY <1>1 DEF Heard
  <1>3. delivered[r] = {}
    BY <1>1 DEF RelayInv, RequestInv, Filed
  <1>4. QED
    BY <1>2, <1>3, GivenStep DEF Relay!Deliver

\* The dispatcher gives its caller what a channel has decided, or denies.
LEMMA DecisionIsHeard ==
    ASSUME RelayInv, NEW r \in Request, Relay!DeliverTyped(r) \/ Relay!SlackWins(r)
    PROVE  Relay!Asking!Next
  <1>1. \E d \in Relay!Decision :
          Relay!Deliver(r, d) /\ (d.outcome = "approve" => d \in Heard(r))
    <2>1. CASE Relay!DeliverTyped(r)
      <3>1. PICK d \in typed[r] : Relay!Deliver(r, d)
        BY <2>1 DEF Relay!DeliverTyped
      <3>2. d \in Relay!Decision /\ d \in Heard(r)
        BY DEF Heard, RelayInv, RelayTypes
      <3>3. QED
        BY <3>1, <3>2
    <2>2. CASE \E d \in answer[r] : Relay!Deliver(r, d)
      <3>1. PICK d \in answer[r] : Relay!Deliver(r, d)
        BY <2>2
      <3>2. d \in Relay!Decision /\ d \in Heard(r)
        BY DEF Heard, RelayInv, RelayTypes, RequestInv, Chosen
      <3>3. QED
        BY <3>1, <3>2
    <2>3. CASE Relay!Deliver(r, Relay!Decided(r, "deny", "system"))
      <3>1. "deny" \in Relay!Outcome
        BY DEF Relay!Outcome
      <3>2. QED
        BY <2>3, <3>1, DecisionTypes
    <2>4. QED
      BY <2>1, <2>2, <2>3 DEF Relay!SlackWins
  <1>2. QED
    BY <1>1, DeliveryIsGiven

LEMMA RelayAsksConsent ==
    ASSUME RelayInv, [Relay!Next]_relay
    PROVE  [Relay!Asking!Next]_Relay!Asking!vars
  <1>1. CASE UNCHANGED <<typed, press, delivered>>
    BY <1>1, SilentStep DEF Heard
  <1>2. ASSUME NEW r \in Request, Relay!Hangup(r) \/ Relay!HandlePress(r)
        PROVE  UNCHANGED Relay!Asking!vars
    <2>1. typed' = typed /\ delivered' = delivered
      BY <1>2 DEF Relay!Hangup, Relay!HandlePress, Relay!LogPress,
                  Relay!FinishPress
    <2>2. PICK at : press' = [press EXCEPT ![r].at = at]
      BY <1>2 DEF Relay!Hangup, Relay!HandlePress, Relay!LogPress,
                  Relay!FinishPress
    <2>3. \A q \in Request : press'[q].decision = press[q].decision
      BY <2>2 DEF RelayInv, RelayTypes
    <2>4. QED
      BY <2>1, <2>3, SilentStep DEF Heard
  <1>3. CASE \E r \in Request : Relay!PrintPrompt(r) \/ Relay!Type(r)
    BY <1>3, TypedIsHeard
  <1>4. CASE \E r \in Request :
               Relay!DeliverTyped(r) \/ Relay!SlackWins(r)
    BY <1>4, DecisionIsHeard
  <1>5. CASE \E r \in Request : \E a \in {"approve", "deny"} :
               Relay!Press(r, a)
    BY <1>5, PressIsHeard
  <1>6. ASSUME NEW r \in Request,
               \/ Relay!HandleOne(r) \/ Relay!Expire(r)
               \/ Relay!CliWins(r) \/ Relay!UpdateMessage(r)
               \/ Relay!Lock(r) \/ Relay!Show(r)
               \/ Relay!PostReturns(r) \/ Relay!ListPending(r)
        PROVE  UNCHANGED <<typed, press, delivered>>
    BY <1>6 DEF Relay!HandleOne, Relay!Expire, Relay!CliWins,
       Relay!UpdateMessage, Relay!Lock, Relay!Show, Relay!PostReturns,
       Relay!ListPending
  <1>7. QED
    BY <1>1, <1>2, <1>3, <1>4, <1>5, <1>6
       DEF Relay!Next, Relay!Decide, relay

\* A held action and a request to the relay are decided once, and allowed only
\* after a person consented to it: an authorized operator, or who typed or
\* pressed, of whom each channel has one (gate.rs:82, dispatcher.rs:110).
THEOREM PeopleAreAsked == WaitingSpec => ConsentIsAsked
  <1>1. WaitingSpec => Spec
    <2>1. WaitingInit => Init
      BY DEF WaitingInit
    <2>2. [WaitingNext]_<<service, vars, relay, scheduler>> => [Next]_vars
      BY DEF WaitingNext
    <2>3. QED
      BY <2>1, <2>2, PTL DEF WaitingSpec, Spec
  <1>2. WaitingSpec => Relay!ImplementsConsent
    <2>1. WaitingInit => RelayInv /\ Relay!Asking!Init
      <3>1. Relay!Init => Relay!Asking!Init
        BY DEF Relay!Init, Relay!Asking!Init, Relay!Ruling, Relay!NoPress
      <3>2. QED
        BY <3>1, RelayInit DEF WaitingInit
    <2>2. [WaitingNext]_<<service, vars, relay, scheduler>>
              => [Relay!Next]_relay
      BY DEF WaitingNext
    <2>3. RelayInv /\ [Relay!Next]_relay
              => RelayInv' /\ [Relay!Asking!Next]_Relay!Asking!vars
      BY RelayStep, RelayAsksConsent
    <2>4. QED
      BY <2>1, <2>2, <2>3, PTL
         DEF WaitingSpec, Relay!ImplementsConsent, Relay!Asking!Spec
  <1>3. QED
    BY <1>1, <1>2, QueueAsksForConsent DEF ConsentIsAsked

=============================================================================
