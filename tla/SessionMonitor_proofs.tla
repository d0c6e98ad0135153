------------------------ MODULE SessionMonitor_proofs ------------------------
(* Proofs about one session, for any threads, agents, roles and machines: the *)
(* types, that a closed session accepts nothing more, and that the transcript *)
(* keeps every accepted message.                                              *)
EXTENDS MonitoredSession, FiniteSetTheorems, TLAPS

\* What the steps of a session keep: a call under way is a call of an open
\* session, whose roles have machines, and a closed session is one that the
\* monitor refuses to go on with.
SessionInv ==
    /\ TypeOK
    /\ status # "none" => \A r \in Bound : Projects(protocol, r)
    /\ \A t \in Thread : at[t] # "idle" => call[t] \in Call /\ status # "none"
    /\ status = "Aborted" => aborted
    /\ status = "Complete" => IsComplete

LEMMA BoundIsRole == Bound \subseteq Role
BY MachineAssumption DEF Bound

LEMMA RoleOfIsBound == ASSUME NEW a \in Agent PROVE RoleOf[a] \in Bound /\ RoleOf[a] \in Role
BY MachineAssumption DEF Bound

LEMMA SessionInvInit == Init => SessionInv
<1> SUFFICES ASSUME Init PROVE SessionInv
  OBVIOUS
<1>1. transcript \in Seq(Entry) /\ heard \in Seq(Call)
  BY DEF Init
<1>2. at \in [Thread -> {"idle", "derived", "allowed", "denied"}]
      /\ call \in [Thread -> Call \union {NoCall}]
  BY DEF Init
<1>3. TypeOK
  BY <1>1, <1>2 DEF Init, TypeOK
<1> QED
  BY <1>3 DEF Init, SessionInv

-----------------------------------------------------------------------------

\* A step of either end of a call of an open session is a state or not legal.
LEMMA StepType ==
    ASSUME SessionInv, status # "none", NEW c \in Call
    PROVE  /\ AfterSend(c) \in State \union {NotLegal}
           /\ AfterRecv(c) \in State \union {NotLegal}
<1> DEFINE from == RoleOf[c.from]
           to == RoleOf[c.to]
<1>1. from \in Bound /\ from \in Role /\ to \in Bound /\ to \in Role
  BY RoleOfIsBound DEF Call
<1>2. SendEvent(c) \in Event /\ RecvEvent(c) \in Event
  BY <1>1 DEF SendEvent, RecvEvent, Event, Call
<1>3. place[from] \in State /\ place[to] \in State
  BY <1>1 DEF SessionInv, TypeOK
<1>4. protocol \in Protocol /\ Projects(protocol, from) /\ Projects(protocol, to)
  BY <1>1 DEF SessionInv, TypeOK
<1> QED
  BY <1>1, <1>2, <1>3, <1>4, MachineAssumption DEF AfterSend, AfterRecv

\* The machines of a complete session take no call.
LEMMA CompleteTakesNothing ==
    ASSUME SessionInv, status # "none", IsComplete, NEW c \in Call
    PROVE  ~Accepts(c)
<1> DEFINE from == RoleOf[c.from]
<1>1. from \in Bound /\ from \in Role
  BY RoleOfIsBound DEF Call
<1>2. SendEvent(c) \in Event
  BY RoleOfIsBound DEF SendEvent, Event, Call
<1>3. place[from] \in State /\ protocol \in Protocol /\ Projects(protocol, from)
  BY <1>1 DEF SessionInv, TypeOK
<1>4. Accepting(protocol, from, place[from])
  BY <1>1 DEF IsComplete
<1>5. AfterSend(c) = NotLegal
  BY <1>1, <1>2, <1>3, <1>4, MachineAssumption DEF AfterSend
<1> QED
  BY <1>5 DEF Accepts, Legal

LEMMA CommittedType ==
    ASSUME SessionInv, status # "none", NEW c \in Call
    PROVE  Committed(c) \in [Bound -> State]
<1>1. place \in [Bound -> State]
  BY DEF SessionInv, TypeOK
<1>2. CASE Accepts(c)
  <2>1. AfterSend(c) \in State /\ AfterRecv(c) \in State
    BY <1>2, StepType DEF Accepts, Legal
  <2> QED
    BY <1>1, <1>2, <2>1 DEF Committed
<1>3. CASE ~Accepts(c)
  BY <1>1, <1>3 DEF Committed
<1> QED
  BY <1>2, <1>3

-----------------------------------------------------------------------------

LEMMA OpenKeeps == SessionInv /\ Open => SessionInv'
<1> SUFFICES ASSUME SessionInv, Open PROVE SessionInv'
  OBVIOUS
<1>1. place' \in [Bound -> State]
  BY BoundIsRole, MachineAssumption DEF Open, SessionInv, TypeOK
<1>2. TypeOK'
  BY <1>1 DEF Open, SessionInv, TypeOK
<1> QED
  BY <1>2 DEF Open, SessionInv

LEMMA RefreshKeeps == SessionInv /\ Refresh => SessionInv'
<1> SUFFICES ASSUME SessionInv, Refresh PROVE SessionInv'
  OBVIOUS
<1>1. status' \in {"Running", "Complete", "Aborted"}
  BY DEF Refresh, Refreshed, SessionInv, TypeOK
<1>2. TypeOK'
  BY <1>1 DEF Refresh, SessionInv, TypeOK
<1>3. (status = "Aborted" => aborted)'
  BY DEF Refresh, Refreshed, SessionInv
<1>4. (status = "Complete" => IsComplete)'
  BY DEF Refresh, Refreshed, SessionInv, IsComplete
<1> QED
  BY <1>1, <1>2, <1>3, <1>4 DEF Refresh, SessionInv

LEMMA AbortsKeep ==
    SessionInv /\ (DeadlinePasses \/ AbortExpired \/ Abort) => SessionInv'
<1> SUFFICES ASSUME SessionInv, DeadlinePasses \/ AbortExpired \/ Abort PROVE SessionInv'
  OBVIOUS
<1>1. TypeOK'
  BY DEF DeadlinePasses, AbortExpired, Abort, SessionInv, TypeOK
<1> QED
  BY <1>1 DEF DeadlinePasses, AbortExpired, Abort, SessionInv, IsComplete

LEMMA DeriveKeeps ==
    ASSUME SessionInv, NEW t \in Thread, NEW from \in Agent, NEW to \in Agent,
           Derive(t, from, to)
    PROVE  SessionInv'
<1>1. PICK l \in Label :
        call' = [call EXCEPT ![t] = [from |-> from, to |-> to, label |-> l]]
  BY DEF Derive, LegalLabels
<1>2. [from |-> from, to |-> to, label |-> l] \in Call
  BY DEF Call
<1>3. TypeOK'
  BY <1>1, <1>2 DEF Derive, SessionInv, TypeOK
<1> QED
  BY <1>1, <1>2, <1>3 DEF Derive, SessionInv, TypeOK, IsComplete

LEMMA ObserveKeeps ==
    ASSUME SessionInv, NEW t \in Thread, Observe(t)
    PROVE  SessionInv'
<1>1. call[t] \in Call /\ status # "none"
  BY DEF Observe, SessionInv
<1>2. place' \in [Bound -> State]
  BY <1>1, CommittedType DEF Observe
<1>3. heard' \in Seq(Call)
  BY <1>1 DEF Observe, SessionInv, TypeOK
<1>4. TypeOK'
  BY <1>2, <1>3 DEF Observe, SessionInv, TypeOK
<1>5. (status = "Complete" => IsComplete)'
  <2> SUFFICES ASSUME status = "Complete" PROVE place' = place
    BY DEF Observe, SessionInv, IsComplete
  <2> QED
    BY <1>1, CompleteTakesNothing DEF Observe, Committed, SessionInv
<1> QED
  BY <1>1, <1>4, <1>5 DEF Observe, SessionInv, TypeOK

LEMMA RecordKeeps ==
    ASSUME SessionInv, NEW t \in Thread, Record(t)
    PROVE  SessionInv'
<1>1. call[t] \in Call
  BY DEF Record, SessionInv
<1>2. [call |-> call[t], allowed |-> at[t] = "allowed"] \in Entry
  BY <1>1 DEF Entry
<1>3. transcript' \in Seq(Entry)
  BY <1>2 DEF Record, Recorded, SessionInv, TypeOK
<1>4. TypeOK'
  BY <1>3 DEF Record, SessionInv, TypeOK
<1> QED
  BY <1>4 DEF Record, SessionInv, TypeOK, IsComplete

LEMMA SessionStep == SessionInv /\ [Next]_vars => SessionInv'
<1> SUFFICES ASSUME SessionInv, [Next]_vars PROVE SessionInv'
  OBVIOUS
<1>1. CASE UNCHANGED vars
  BY <1>1 DEF vars, SessionInv, TypeOK, IsComplete
<1> QED
  BY <1>1, OpenKeeps, RefreshKeeps, AbortsKeep, DeriveKeeps, ObserveKeeps, RecordKeeps DEF Next

\* Every variable keeps its type, whatever the machines of the roles are.
THEOREM TypeCorrectness == Spec => []TypeOK
<1>1. SessionInv => TypeOK
  BY DEF SessionInv
<1> QED
  BY <1>1, SessionInvInit, SessionStep, PTL DEF Spec

\* A session that is complete or aborted accepts no message and keeps its
\* status: neither a call derived before it was closed nor a refresh that
\* comes late changes it.
THEOREM ClosedSessionsAreSilent == Spec => ClosedIsSilent
<1>1. SessionInv /\ [Next]_vars =>
        [Closed => heard' = heard /\ place' = place /\ status' = status]_vars
  <2> SUFFICES ASSUME SessionInv, [Next]_vars, Closed
               PROVE  heard' = heard /\ place' = place /\ status' = status
    OBVIOUS
  <2>1. CASE UNCHANGED vars
    BY <2>1 DEF vars
  <2>2. CASE Open \/ Refresh \/ DeadlinePasses \/ AbortExpired \/ Abort
    BY <2>2 DEF Closed, Open, Refresh, Refreshed, DeadlinePasses, AbortExpired, Abort
  <2>3. ASSUME NEW t \in Thread, NEW from \in Agent, NEW to \in Agent, Derive(t, from, to)
        PROVE  heard' = heard /\ place' = place /\ status' = status
    BY <2>3 DEF Derive
  <2>4. ASSUME NEW t \in Thread, Observe(t)
        PROVE  heard' = heard /\ place' = place /\ status' = status
    <3>1. call[t] \in Call
      BY <2>4 DEF Observe, SessionInv
    <3>2. ~Accepts(call[t])
      BY <3>1, CompleteTakesNothing DEF Closed, SessionInv, Accepts
    <3> QED
      BY <2>4, <3>2 DEF Observe, Committed
  <2>5. ASSUME NEW t \in Thread, Record(t)
        PROVE  heard' = heard /\ place' = place /\ status' = status
    BY <2>5 DEF Record
  <2> QED
    BY <2>1, <2>2, <2>3, <2>4, <2>5 DEF Next
<1> QED
  BY <1>1, SessionInvInit, SessionStep, PTL DEF Spec, ClosedIsSilent

-----------------------------------------------------------------------------

LEMMA TimesIsNat ==
    ASSUME NEW S, NEW s \in Seq(S), NEW c
    PROVE  IsFiniteSet({i \in DOMAIN s : s[i] = c}) /\ Times(c, s) \in Nat
<1>1. DOMAIN s = 1 .. Len(s) /\ Len(s) \in Nat
  OBVIOUS
<1>2. IsFiniteSet(1 .. Len(s))
  BY <1>1, FS_Interval
<1>3. {i \in DOMAIN s : s[i] = c} \subseteq 1 .. Len(s)
  BY <1>1
<1> QED
  BY <1>2, <1>3, FS_Subset, FS_CardinalityType DEF Times

\* How often an element occurs grows with what is appended.
LEMMA TimesOfAppend ==
    ASSUME NEW S, NEW s \in Seq(S), NEW x \in S, NEW c
    PROVE  Times(c, Append(s, x)) = IF x = c THEN Times(c, s) + 1 ELSE Times(c, s)
<1> DEFINE here == {i \in DOMAIN s : s[i] = c}
           then == {i \in DOMAIN Append(s, x) : Append(s, x)[i] = c}
           next == Len(s) + 1
<1>1. DOMAIN s = 1 .. Len(s) /\ Len(s) \in Nat /\ DOMAIN Append(s, x) = 1 .. next
  OBVIOUS
<1>2. \A i \in 1 .. Len(s) : Append(s, x)[i] = s[i]
  OBVIOUS
<1>3. Append(s, x)[next] = x
  OBVIOUS
<1>4. CASE x = c
  <2>1. then = here \union {next}
    BY <1>1, <1>2, <1>3, <1>4
  <2>2. next \notin here
    BY <1>1
  <2>3. IsFiniteSet(here)
    BY TimesIsNat
  <2>4. Cardinality(then) = Cardinality(here) + 1
    <3> HIDE DEF here, then, next
    <3> QED
      BY <2>1, <2>2, <2>3, FS_AddElement
  <2> QED
    BY <1>4, <2>4 DEF Times
<1>5. CASE x # c
  <2>1. then = here
    BY <1>1, <1>2, <1>3, <1>5
  <2>2. Times(c, Append(s, x)) = Times(c, s)
    BY <2>1, Zenon DEF Times
  <2> QED
    BY <1>5, <2>2
<1> QED
  BY <1>4, <1>5

LEMMA HoldingIsFinite ==
    ASSUME NEW c PROVE IsFiniteSet(Holding(c)) /\ Cardinality(Holding(c)) \in Nat
BY MachineAssumption, FS_Subset, FS_CardinalityType DEF Holding

LEMMA TranscriptInit == Init => TranscriptKeepsAll
<1> SUFFICES ASSUME Init, NEW c \in Call
             PROVE  Times(c, heard) = Times(AllowedEntry(c), transcript)
                                      + Cardinality(Holding(c))
  BY DEF TranscriptKeepsAll
<1>1. {i \in DOMAIN heard : heard[i] = c} = {}
  BY DEF Init
<1>2. {i \in DOMAIN transcript : transcript[i] = AllowedEntry(c)} = {}
  BY DEF Init
<1>3. Holding(c) = {}
  BY DEF Init, Holding
<1> QED
  BY <1>1, <1>2, <1>3, FS_EmptySet DEF Times

\* A call that is accepted passes into the hands of its thread.
LEMMA ObserveHands ==
    ASSUME SessionInv, TranscriptKeepsAll, NEW t \in Thread, Observe(t), NEW c \in Call
    PROVE  (Times(c, heard) = Times(AllowedEntry(c), transcript) + Cardinality(Holding(c)))'
<1>1. at \in [Thread -> {"idle", "derived", "allowed", "denied"}]
      /\ heard \in Seq(Call) /\ call[t] \in Call
  BY DEF Observe, SessionInv, TypeOK
<1>2. Times(c, heard) = Times(AllowedEntry(c), transcript) + Cardinality(Holding(c))
  BY DEF TranscriptKeepsAll
<1>3. Times(AllowedEntry(c), transcript) \in Nat
  BY TimesIsNat DEF SessionInv, TypeOK
<1>4. transcript' = transcript /\ call' = call
  BY DEF Observe
<1>5. CASE Accepts(call[t]) /\ call[t] = c
  <2>1. Holding(c)' = Holding(c) \union {t} /\ t \notin Holding(c)
    BY <1>1, <1>5 DEF Observe, Holding
  <2>2. Cardinality(Holding(c)') = Cardinality(Holding(c)) + 1
    BY <2>1, HoldingIsFinite, FS_AddElement
  <2>3. Times(c, heard') = Times(c, heard) + 1
    BY <1>1, <1>5, TimesOfAppend DEF Observe
  <2> QED
    BY <1>2, <1>3, <1>4, <2>2, <2>3, HoldingIsFinite
<1>6. CASE ~(Accepts(call[t]) /\ call[t] = c)
  <2>1. Holding(c)' = Holding(c)
    BY <1>1, <1>6 DEF Observe, Holding
  <2>2. Times(c, heard') = Times(c, heard)
    <3>1. CASE Accepts(call[t])
      BY <1>1, <1>6, <3>1, TimesOfAppend DEF Observe
    <3>2. CASE ~Accepts(call[t])
      BY <3>2 DEF Observe
    <3> QED
      BY <3>1, <3>2
  <2> QED
    BY <1>2, <1>4, <2>1, <2>2
<1> QED
  BY <1>5, <1>6

\* What a thread held is in the transcript when it has recorded it.
LEMMA RecordHands ==
    ASSUME SessionInv, TranscriptKeepsAll, NEW t \in Thread, Record(t), NEW c \in Call
    PROVE  (Times(c, heard) = Times(AllowedEntry(c), transcript) + Cardinality(Holding(c)))'
<1> DEFINE entry == [call |-> call[t], allowed |-> at[t] = "allowed"]
<1>1. at \in [Thread -> {"idle", "derived", "allowed", "denied"}]
      /\ call[t] \in Call /\ call \in [Thread -> Call \union {NoCall}]
  BY DEF Record, SessionInv, TypeOK
<1>2. Times(c, heard) = Times(AllowedEntry(c), transcript) + Cardinality(Holding(c))
  BY DEF TranscriptKeepsAll
<1>3. transcript \in Seq(Entry) /\ transcript' = Append(transcript, entry)
  BY DEF Record, Recorded, SessionInv, TypeOK
<1>4. entry \in Entry
  BY <1>1 DEF Entry
<1>5. Times(AllowedEntry(c), transcript) \in Nat
  BY <1>3, TimesIsNat
<1>6. heard' = heard
  BY DEF Record
<1>7. CASE at[t] = "allowed" /\ call[t] = c
  <2>1. entry = AllowedEntry(c)
    BY <1>7 DEF AllowedEntry
  <2>2. Times(AllowedEntry(c), transcript') = Times(AllowedEntry(c), transcript) + 1
    BY <1>3, <1>4, <2>1, TimesOfAppend
  <2>3. Holding(c)' = Holding(c) \ {t} /\ t \in Holding(c)
    BY <1>1, <1>7 DEF Record, Holding
  <2>4. Cardinality(Holding(c)') = Cardinality(Holding(c)) - 1
    BY <2>3, HoldingIsFinite, FS_RemoveElement
  <2> QED
    BY <1>2, <1>5, <1>6, <2>2, <2>4, HoldingIsFinite
<1>8. CASE ~(at[t] = "allowed" /\ call[t] = c)
  <2>1. entry # AllowedEntry(c)
    BY <1>8 DEF AllowedEntry
  <2>2. Times(AllowedEntry(c), transcript') = Times(AllowedEntry(c), transcript)
    BY <1>3, <1>4, <1>5, <2>1, TimesOfAppend
  <2>3. Holding(c)' = Holding(c)
    BY <1>1, <1>8 DEF Record, Holding
  <2> QED
    BY <1>2, <1>6, <2>2, <2>3
<1> QED
  BY <1>7, <1>8

LEMMA TranscriptStep ==
    SessionInv /\ TranscriptKeepsAll /\ [Next]_vars => TranscriptKeepsAll'
<1> SUFFICES ASSUME SessionInv, TranscriptKeepsAll, [Next]_vars, NEW c \in Call
             PROVE  (Times(c, heard) = Times(AllowedEntry(c), transcript)
                                       + Cardinality(Holding(c)))'
  BY DEF TranscriptKeepsAll
<1>1. Times(c, heard) = Times(AllowedEntry(c), transcript) + Cardinality(Holding(c))
  BY DEF TranscriptKeepsAll
<1>2. ASSUME heard' = heard, transcript' = transcript, Holding(c)' = Holding(c)
      PROVE  (Times(c, heard) = Times(AllowedEntry(c), transcript)
                                + Cardinality(Holding(c)))'
  BY <1>1, <1>2
<1>3. CASE UNCHANGED vars
  BY <1>2, <1>3 DEF vars, Holding
<1>4. CASE Open \/ Refresh \/ DeadlinePasses \/ AbortExpired \/ Abort
  BY <1>2, <1>4 DEF Open, Refresh, DeadlinePasses, AbortExpired, Abort, Holding
<1>5. ASSUME NEW t \in Thread, NEW from \in Agent, NEW to \in Agent, Derive(t, from, to)
      PROVE  (Times(c, heard) = Times(AllowedEntry(c), transcript)
                                + Cardinality(Holding(c)))'
  <2>1. at \in [Thread -> {"idle", "derived", "allowed", "denied"}]
        /\ call \in [Thread -> Call \union {NoCall}]
    BY DEF SessionInv, TypeOK
  <2>2. Holding(c)' = Holding(c)
    BY <1>5, <2>1 DEF Derive, Holding
  <2> QED
    BY <1>2, <1>5, <2>2 DEF Derive
<1> QED
  BY <1>3, <1>4, <1>5, ObserveHands, RecordHands DEF Next

\* Every accepted message is recorded once or about to be recorded, for any
\* number of threads and calls.
THEOREM TranscriptIsComplete == Spec => []TranscriptKeepsAll
BY SessionInvInit, SessionStep, TranscriptInit, TranscriptStep, PTL DEF Spec

-----------------------------------------------------------------------------
(* The monitor against the protocol.  Of the compiler it is assumed that its *)
(* machines are exact; what the threads make of them is proved.              *)

CompilerIsExact == \A p \in Protocol : ExactFor(p)

\* What is left of the protocol and the places of the machines go together.
JointInv ==
    /\ SessionInv
    /\ status = "none" => left = protocol
    /\ status # "none" => <<left, place>> \in Joint(protocol)

\* The machines of the session and what is offered, in an open session.
LEMMA JointIsExact ==
    ASSUME CompilerIsExact, JointInv, status # "none"
    PROVE  /\ Finished(left) <=> IsComplete
           /\ \A m \in Messages :
                 /\ Takes(protocol, place, m) <=> m \in Offered(left)
                 /\ Takes(protocol, place, m) =>
                       <<Rest(left, m), Moved(protocol, place, m)>> \in Joint(protocol)
<1> DEFINE x == <<left, place>>
<1>1. ExactFor(protocol) /\ \A r \in Bound : Projects(protocol, r)
  BY DEF CompilerIsExact, JointInv, SessionInv, TypeOK
<1>2. x \in Joint(protocol) /\ x[1] = left /\ x[2] = place
  BY DEF JointInv
<1>3. /\ Finished(x[1]) <=> \A r \in Bound : Accepting(protocol, r, x[2][r])
      /\ \A m \in Messages :
            /\ Takes(protocol, x[2], m) <=> m \in Offered(x[1])
            /\ Takes(protocol, x[2], m) =>
                  <<Rest(x[1], m), Moved(protocol, x[2], m)>> \in Joint(protocol)
  <2> HIDE DEF x
  <2> QED
    BY <1>1, <1>2 DEF ExactFor
<1> QED
  BY <1>2, <1>3 DEF IsComplete

\* The monitor asks the two machines what the message of the roles asks them.
LEMMA LegalIsTaken ==
    ASSUME NEW c \in Call
    PROVE  /\ RoleMessage(c) \in Messages
           /\ Legal(c) <=> Takes(protocol, place, RoleMessage(c))
           /\ Accepts(c) => Committed(c) = Moved(protocol, place, RoleMessage(c))
<1> DEFINE m == RoleMessage(c)
<1>1. m.from = RoleOf[c.from] /\ m.to = RoleOf[c.to] /\ m.label = c.label
  BY DEF RoleMessage
<1>2. m \in Messages
  BY RoleOfIsBound DEF RoleMessage, Messages, Call
<1>3. Sent(protocol, place, m) = AfterSend(c) /\ Received(protocol, place, m) = AfterRecv(c)
  BY <1>1 DEF Sent, Received, AfterSend, AfterRecv, SendEvent, RecvEvent
<1> QED
  BY <1>1, <1>2, <1>3 DEF Takes, Moved, Legal, Committed

\* An accepted message is one that the protocol offers, and both go on by it.
LEMMA ObserveFollows ==
    ASSUME CompilerIsExact, JointInv, NEW t \in Thread, Observe(t), Follow
    PROVE  \/ left' = left /\ place' = place
           \/ \E m \in Offered(left) :
                 /\ left' = Rest(left, m)
                 /\ <<left', place'>> \in Joint(protocol)
<1> DEFINE c == call[t]
           m == RoleMessage(c)
<1>1. c \in Call /\ status # "none" /\ heard \in Seq(Call)
  BY DEF JointInv, SessionInv, TypeOK, Observe
<1>2. CASE Accepts(c)
  <2>1. m \in Messages /\ Takes(protocol, place, m) /\ place' = Moved(protocol, place, m)
    BY <1>1, <1>2, LegalIsTaken DEF Observe, Accepts
  <2>2. m \in Offered(left) /\ <<Rest(left, m), place'>> \in Joint(protocol)
    BY <1>1, <2>1, JointIsExact
  <2>3. heard' = Append(heard, c)
    BY <1>2 DEF Observe
  <2>4. heard' # heard /\ heard'[Len(heard')] = c
    BY <1>1, <2>3
  <2>5. left' = Rest(left, m)
    BY <2>4 DEF Follow
  <2> QED
    BY <2>2, <2>5
<1>3. CASE ~Accepts(c)
  BY <1>3 DEF Observe, Committed, Follow
<1> QED
  BY <1>2, <1>3

\* Every other step leaves the two where they are, but for the opening.
LEMMA OthersFollow ==
    ASSUME JointInv, Next, Follow, ~Open, \A t \in Thread : ~Observe(t)
    PROVE  /\ left' = left /\ place' = place /\ protocol' = protocol
           /\ status = "none" <=> status' = "none"
<1>1. CASE Refresh \/ DeadlinePasses \/ AbortExpired \/ Abort
  BY <1>1 DEF Refresh, Refreshed, DeadlinePasses, AbortExpired, Abort, Follow
<1>2. ASSUME NEW t \in Thread, NEW from \in Agent, NEW to \in Agent, Derive(t, from, to)
      PROVE  /\ left' = left /\ place' = place /\ protocol' = protocol
             /\ status = "none" <=> status' = "none"
  BY <1>2 DEF Derive, Follow
<1>3. ASSUME NEW t \in Thread, Record(t)
      PROVE  /\ left' = left /\ place' = place /\ protocol' = protocol
             /\ status = "none" <=> status' = "none"
  BY <1>3 DEF Record, Follow
<1> QED
  BY <1>1, <1>2, <1>3 DEF Next

LEMMA OpenFollows ==
    ASSUME CompilerIsExact, JointInv, Open, Follow
    PROVE  /\ left' = left /\ protocol' = protocol /\ status' # "none"
           /\ <<left', place'>> \in Joint(protocol')
<1>1. left = protocol /\ left' = left /\ protocol' = protocol /\ status' # "none"
  BY DEF JointInv, Open, Follow
<1>2. <<protocol, [r \in Bound |-> Start(protocol, r)]>> \in Joint(protocol)
  BY DEF CompilerIsExact, ExactFor, JointInv, SessionInv, TypeOK, Open
<1> QED
  BY <1>1, <1>2 DEF Open

LEMMA JointStart == SessionInit => JointInv
BY SessionInvInit DEF SessionInit, JointInv, Init

LEMMA JointStep ==
    ASSUME CompilerIsExact
    PROVE  JointInv /\ [Next /\ Follow]_<<vars, left>> => JointInv'
<1> SUFFICES ASSUME JointInv, [Next /\ Follow]_<<vars, left>> PROVE JointInv'
  OBVIOUS
<1>1. SessionInv'
  BY SessionStep DEF JointInv
<1>2. CASE UNCHANGED <<vars, left>>
  BY <1>1, <1>2 DEF vars, JointInv
<1>3. CASE Open /\ Follow
  BY <1>1, <1>3, OpenFollows DEF JointInv
<1>4. ASSUME NEW t \in Thread, Observe(t), Follow PROVE JointInv'
  <2>1. status # "none" /\ status' = status /\ protocol' = protocol
    BY <1>4 DEF Observe, JointInv, SessionInv
  <2> QED
    BY <1>1, <1>4, <2>1, ObserveFollows DEF JointInv
<1>5. CASE Next /\ Follow /\ ~Open /\ \A t \in Thread : ~Observe(t)
  BY <1>1, <1>5, OthersFollow DEF JointInv
<1> QED
  BY <1>2, <1>3, <1>4, <1>5

\* If the machines that the protocols compile to are exact, a session follows
\* its protocol whatever the threads do: the messages it accepts are steps of
\* the agreement.
THEOREM SessionFollowsProtocol ==
    ASSUME CompilerIsExact
    PROVE  SessionSpec => FollowsProtocol
<1>1. SessionInit => Promise!Init
  BY DEF SessionInit, Init, Promise!Init
<1>2. JointInv /\ [Next /\ Follow]_<<vars, left>> => [Promise!Exchange]_left
  <2> SUFFICES ASSUME JointInv, [Next /\ Follow]_<<vars, left>>, left' # left
               PROVE  Promise!Exchange
    OBVIOUS
  <2>1. PICK t \in Thread : Observe(t) /\ Follow
    BY OthersFollow, OpenFollows
  <2> QED
    BY <2>1, ObserveFollows DEF Promise!Exchange
<1> QED
  BY <1>1, <1>2, JointStart, JointStep, PTL DEF SessionSpec, FollowsProtocol, Promise!Spec

\* If the machines are exact, no thread is refused a message that the protocol
\* allows, a session is complete just when its protocol has ended, and the
\* transcript has every accepted message.
THEOREM SessionsAreFaithful ==
    ASSUME CompilerIsExact
    PROVE  SessionSpec => []SessionIsFaithful
<1>1. JointInv => TypeOK /\ NothingLegalDenied /\ CompleteWhenEnded
  <2> SUFFICES ASSUME JointInv PROVE NothingLegalDenied /\ CompleteWhenEnded
    BY DEF JointInv, SessionInv
  <2>1. NothingLegalDenied
    <3> SUFFICES ASSUME status = "Running", NEW c \in Call, RoleMessage(c) \in Offered(left)
                 PROVE  Legal(c)
      BY DEF NothingLegalDenied
    <3> QED
      BY LegalIsTaken, JointIsExact
  <2>2. CompleteWhenEnded
    BY JointIsExact DEF CompleteWhenEnded, JointInv, SessionInv
  <2> QED
    BY <2>1, <2>2
<1>2. SessionInit => TranscriptKeepsAll
  BY TranscriptInit DEF SessionInit
<1>3. JointInv /\ TranscriptKeepsAll /\ [Next /\ Follow]_<<vars, left>> => TranscriptKeepsAll'
  <2> SUFFICES ASSUME JointInv, TranscriptKeepsAll, [Next /\ Follow]_<<vars, left>>
               PROVE  TranscriptKeepsAll'
    OBVIOUS
  <2>1. [Next]_vars
    OBVIOUS
  <2> QED
    BY <2>1, TranscriptStep DEF JointInv
<1> QED
  BY <1>1, <1>2, <1>3, JointStart, JointStep, PTL DEF SessionSpec, SessionIsFaithful

=============================================================================
