--------------------------- MODULE Services_proofs ---------------------------
(***************************************************************************)
(* Proofs about the services that MCServices puts beside each other: the   *)
(* circuit breakers, the resource manager, the lifecycle controller, the   *)
(* error handler, the sessions of interactive tools and the executor of    *)
(* command-line tools.  Each part has its own inductive invariant; a step  *)
(* of another service leaves its variables as they are.                    *)
(***************************************************************************)
EXTENDS MCServices, FiniteSetTheorems, SequenceTheorems, TLAPS

-----------------------------------------------------------------------------
(* The circuit breakers, for any tools, any number of overlapping batches    *)
(* and any configuration.                                                    *)

(* What holds of one breaker whatever the loops do with it: it is closed     *)
(* exactly below the threshold, and its half-open quota is only in use in a  *)
(* half-open period.                                                         *)
BreakerInv(br) ==
    /\ br \in Breaker
    /\ br.state = "Closed" <=> br.failure_count < failure_threshold
    /\ br.state # "HalfOpen" => br.half_open_calls = 0

BreakersInv == \A t \in Tools : BreakerInv(breakers[t])

ProbesInv ==
    \A t \in Tools :
        IsFiniteSet(probes[t]) /\ Cardinality(probes[t]) <= breakers[t].half_open_calls

\* The inductive invariant.
IInv == TypeOK /\ BreakersInv /\ ProbesInv

-----------------------------------------------------------------------------
\* check keeps a breaker well formed; a probe it admits is counted.
LEMMA CheckKeepsBreaker ==
    ASSUME NEW br, BreakerInv(br)
    PROVE  /\ Verdict(br) \in Verdicts
           /\ BreakerInv(AfterCheck(br))
           /\ Verdict(br) = "probe" =>
                  AfterCheck(br).half_open_calls = br.half_open_calls + 1
           /\ Verdict(br) # "probe" => AfterCheck(br) = br
<1>0. FALSE \in BOOLEAN /\ 1 \in 0..half_open_max_calls
  BY ConfigAssumption
<1>1. CASE br.state = "Closed"
  <2>1. Verdict(br) = "normal"
    BY <1>1 DEF Verdict, RecoveryDue
  <2>2. AfterCheck(br) = br
    BY <2>1 DEF AfterCheck
  <2> QED
    BY <2>1, <2>2 DEF Verdicts
<1>2. CASE br.state = "Open" /\ br.elapsed
  <2>1. Verdict(br) = "probe"
    BY <1>2 DEF Verdict, RecoveryDue
  <2>2. AfterCheck(br) = [br EXCEPT !.state = "HalfOpen", !.elapsed = FALSE,
                                    !.half_open_calls = 1]
    BY <2>1, <1>2 DEF AfterCheck
  <2>3. AfterCheck(br) \in Breaker
    BY <1>0, <2>2 DEF BreakerInv, Breaker
  <2> QED
    BY <2>1, <2>2, <2>3, <1>2, ConfigAssumption DEF Verdicts, BreakerInv, Breaker
<1>3. CASE br.state = "HalfOpen" /\ br.half_open_calls < half_open_max_calls
  <2>1. Verdict(br) = "probe"
    BY <1>3 DEF Verdict, RecoveryDue
  <2>2. AfterCheck(br) = [br EXCEPT !.state = "HalfOpen", !.elapsed = FALSE,
                                    !.half_open_calls = @ + 1]
    BY <2>1, <1>3 DEF AfterCheck
  <2>3. br.half_open_calls + 1 \in 0..half_open_max_calls
    BY <1>3, ConfigAssumption DEF BreakerInv, Breaker
  <2>4. AfterCheck(br) \in Breaker
    BY <1>0, <2>2, <2>3 DEF BreakerInv, Breaker
  <2> QED
    BY <2>1, <2>2, <2>4, <1>3, ConfigAssumption DEF Verdicts, BreakerInv, Breaker
<1>4. CASE \/ br.state = "Open" /\ ~br.elapsed
           \/ br.state = "HalfOpen" /\ ~(br.half_open_calls < half_open_max_calls)
  <2>1. Verdict(br) = "rejected"
    BY <1>4 DEF Verdict, RecoveryDue
  <2>2. AfterCheck(br) = br
    BY <2>1 DEF AfterCheck
  <2> QED
    BY <2>1, <2>2 DEF Verdicts
<1> QED
  BY <1>1, <1>2, <1>3, <1>4 DEF BreakerInv, Breaker

\* record_success and record_failure keep a breaker well formed, and whichever
\* is called the breaker is not half-open afterwards.
LEMMA ObservationKeepsBreaker ==
    ASSUME NEW br, BreakerInv(br), NEW v, NEW ok \in BOOLEAN
    PROVE  /\ BreakerInv(AfterObservation(br, v, ok))
           /\ AfterObservation(br, v, ok).state # "HalfOpen"
<1>0. /\ FALSE \in BOOLEAN
      /\ 0 \in 0..FailureCap /\ 0 \in 0..half_open_max_calls
      /\ OneMoreFailure(br.failure_count) \in 0..FailureCap
      /\ OneMoreFailure(br.failure_count) >= br.failure_count
  BY ConfigAssumption DEF OneMoreFailure, BreakerInv, Breaker
<1>1. CASE ok
  <2>1. CASE br.state = "Closed"
    <3>1. AfterObservation(br, v, ok) = [br EXCEPT !.failure_count = 0]
      BY <1>1, <2>1 DEF AfterObservation, AfterSuccess, AfterFailure, Opened, BreakerInv, Breaker
    <3>2. AfterObservation(br, v, ok) \in Breaker
      BY <1>0, <3>1 DEF BreakerInv, Breaker, NewBreaker
    <3> QED
      BY <1>0, <3>1, <3>2, <2>1, ConfigAssumption DEF BreakerInv, Breaker, NewBreaker
  <2>2. CASE br.state = "HalfOpen"
    <3>1. AfterObservation(br, v, ok) = NewBreaker
      BY <1>1, <2>2 DEF AfterObservation, AfterSuccess, AfterFailure, Opened, BreakerInv, Breaker
    <3>2. AfterObservation(br, v, ok) \in Breaker
      BY <1>0, <3>1 DEF BreakerInv, Breaker, NewBreaker
    <3> QED
      BY <1>0, <3>1, <3>2, <2>2, ConfigAssumption DEF BreakerInv, Breaker, NewBreaker
  <2>3. CASE br.state = "Open"
    <3>1. AfterObservation(br, v, ok) = 
          [br EXCEPT !.state = "Closed", !.elapsed = FALSE, !.failure_count = 0]
      BY <1>1, <2>3 DEF AfterObservation, AfterSuccess, AfterFailure, Opened, BreakerInv, Breaker
    <3>2. AfterObservation(br, v, ok) \in Breaker
      BY <1>0, <3>1 DEF BreakerInv, Breaker, NewBreaker
    <3> QED
      BY <1>0, <3>1, <3>2, <2>3, ConfigAssumption DEF BreakerInv, Breaker, NewBreaker
  <2> QED
    BY <2>1, <2>2, <2>3 DEF BreakerInv, Breaker
<1>2. CASE ~ok
  <2> DEFINE n == OneMoreFailure(br.failure_count)
  <2>1. CASE br.state = "Closed" /\ n >= failure_threshold
    <3>1. AfterObservation(br, v, ok) = 
          [br EXCEPT !.failure_count = n, !.state = "Open", !.elapsed = FALSE]
      BY <1>2, <2>1 DEF AfterObservation, AfterSuccess, AfterFailure, Opened, BreakerInv, Breaker
    <3>2. AfterObservation(br, v, ok) \in Breaker
      BY <1>0, <3>1 DEF BreakerInv, Breaker, NewBreaker
    <3> QED
      BY <1>0, <3>1, <3>2, <2>1, ConfigAssumption DEF BreakerInv, Breaker, NewBreaker
  <2>2. CASE br.state = "Closed" /\ ~(n >= failure_threshold)
    <3>1. AfterObservation(br, v, ok) = [br EXCEPT !.failure_count = n]
      BY <1>2, <2>2 DEF AfterObservation, AfterSuccess, AfterFailure, Opened, BreakerInv, Breaker
    <3>2. AfterObservation(br, v, ok) \in Breaker
      BY <1>0, <3>1 DEF BreakerInv, Breaker, NewBreaker
    <3> QED
      BY <1>0, <3>1, <3>2, <2>2, ConfigAssumption DEF BreakerInv, Breaker, NewBreaker
  <2>3. CASE br.state = "HalfOpen"
    <3>1. AfterObservation(br, v, ok) = 
          [br EXCEPT !.state = "Open", !.elapsed = FALSE, !.half_open_calls = 0]
      BY <1>2, <2>3 DEF AfterObservation, AfterSuccess, AfterFailure, Opened, BreakerInv, Breaker
    <3>2. AfterObservation(br, v, ok) \in Breaker
      BY <1>0, <3>1 DEF BreakerInv, Breaker, NewBreaker
    <3> QED
      BY <1>0, <3>1, <3>2, <2>3, ConfigAssumption DEF BreakerInv, Breaker, NewBreaker
  <2>4. CASE br.state = "Open"
    <3>1. AfterObservation(br, v, ok) = [br EXCEPT !.failure_count = n]
      BY <1>2, <2>4 DEF AfterObservation, AfterSuccess, AfterFailure, Opened, BreakerInv, Breaker
    <3>2. AfterObservation(br, v, ok) \in Breaker
      BY <1>0, <3>1 DEF BreakerInv, Breaker, NewBreaker
    <3> QED
      BY <1>0, <3>1, <3>2, <2>4, ConfigAssumption DEF BreakerInv, Breaker, NewBreaker
  <2> QED
    BY <2>1, <2>2, <2>3, <2>4 DEF BreakerInv, Breaker
<1> QED
  BY <1>1, <1>2

-----------------------------------------------------------------------------
(* One lemma per action: it preserves the inductive invariant.               *)

Batch == [calls : Seq(Tools), verdicts : Seq(Verdicts), recorded : SUBSET Nat]

LEMMA IdleIsABatch == Idle \in Batch /\ Len(Idle.verdicts) = Len(Idle.calls)
                                     /\ Idle.recorded = {}
BY DEF Idle, Batch

LEMMA StartKeepsIInv == ASSUME IInv, NEW b \in Batches, Start(b) PROVE IInv'
<1>1. PICK n \in 1..MaxCalls : \E wanted \in [1..n -> Tools] :
          batches' = [batches EXCEPT ![b].calls = wanted]
  BY DEF Start
<1>2. PICK wanted \in [1..n -> Tools] : batches' = [batches EXCEPT ![b].calls = wanted]
  BY <1>1
<1>3. wanted \in Seq(Tools) /\ Len(wanted) = n /\ n \in Nat
  BY ConfigAssumption
<1>4. batches[b] \in Batch /\ batches[b].calls = <<>>
  BY DEF IInv, TypeOK, Batch, Start, Running
<1>5. batches[b].verdicts = <<>> /\ batches[b].recorded = {}
  BY <1>4 DEF IInv, TypeOK, Batch
<1>6. TypeOK'
  <2>1. batches' \in [Batches -> Batch]
    BY <1>2, <1>3 DEF IInv, TypeOK, Batch
  <2>2. \A c \in Batches : /\ Len(batches'[c].verdicts) <= Len(batches'[c].calls)
                           /\ batches'[c].recorded \subseteq DOMAIN batches'[c].calls
    <3> SUFFICES ASSUME NEW c \in Batches
                 PROVE  /\ Len(batches'[c].verdicts) <= Len(batches'[c].calls)
                        /\ batches'[c].recorded \subseteq DOMAIN batches'[c].calls
      OBVIOUS
    <3>1. CASE c = b
      BY <3>1, <1>2, <1>3, <1>5, <1>4 DEF IInv, TypeOK, Batch
    <3>2. CASE c # b
      BY <3>2, <1>2 DEF IInv, TypeOK
    <3> QED
      BY <3>1, <3>2
  <2> QED
    BY <2>1, <2>2 DEF IInv, TypeOK, Batch, Start
<1> QED
  BY <1>6 DEF IInv, BreakersInv, ProbesInv, Start

LEMMA CancelKeepsIInv == ASSUME IInv, NEW b \in Batches, Cancel(b) PROVE IInv'
<1>1. TypeOK'
  <2>1. batches' \in [Batches -> Batch]
    BY IdleIsABatch DEF IInv, TypeOK, Batch, Cancel
  <2>2. \A c \in Batches : /\ Len(batches'[c].verdicts) <= Len(batches'[c].calls)
                           /\ batches'[c].recorded \subseteq DOMAIN batches'[c].calls
    BY IdleIsABatch DEF IInv, TypeOK, Cancel, Idle
  <2>3. probes' \in [Tools -> SUBSET (Batches \X Nat)]
    BY DEF IInv, TypeOK, Cancel
  <2> QED
    BY <2>1, <2>2, <2>3 DEF IInv, TypeOK, Batch, Cancel
<1>2. ProbesInv'
  <2> SUFFICES ASSUME NEW t \in Tools
               PROVE  /\ IsFiniteSet(probes'[t])
                      /\ Cardinality(probes'[t]) <= breakers'[t].half_open_calls
    BY DEF ProbesInv
  <2>1. probes'[t] \subseteq probes[t] /\ IsFiniteSet(probes[t])
    BY DEF IInv, ProbesInv, Cancel
  <2>2. /\ IsFiniteSet(probes'[t])
        /\ Cardinality(probes'[t]) <= Cardinality(probes[t])
    BY <2>1, FS_Subset
  <2>3. Cardinality(probes[t]) \in Nat /\ Cardinality(probes'[t]) \in Nat
    BY <2>1, <2>2, FS_CardinalityType
  <2>4. breakers[t].half_open_calls \in Nat
    BY ConfigAssumption DEF IInv, TypeOK, Breaker
  <2> QED
    BY <2>2, <2>3, <2>4 DEF IInv, ProbesInv, Cancel
<1> QED
  BY <1>1, <1>2 DEF IInv, BreakersInv, Cancel

LEMMA RecoveryElapsedKeepsIInv ==
    ASSUME IInv, NEW t \in Tools, RecoveryElapsed(t) PROVE IInv'
<1>1. breakers' = [breakers EXCEPT ![t] = [breakers[t] EXCEPT !.elapsed = TRUE]]
  BY DEF RecoveryElapsed, IInv, TypeOK
<1>2. [breakers[t] EXCEPT !.elapsed = TRUE] \in Breaker
  <2>1. TRUE \in BOOLEAN
    OBVIOUS
  <2> QED
    BY <2>1 DEF IInv, TypeOK, Breaker
<1>3. BreakerInv([breakers[t] EXCEPT !.elapsed = TRUE])
  BY <1>2 DEF IInv, BreakersInv, BreakerInv, Breaker
<1>4. TypeOK'
  BY <1>1, <1>2 DEF IInv, TypeOK, RecoveryElapsed
<1>5. BreakersInv'
  BY <1>1, <1>3 DEF IInv, BreakersInv, TypeOK
<1>6. ProbesInv'
  BY <1>1 DEF IInv, ProbesInv, TypeOK, Breaker, RecoveryElapsed
<1> QED
  BY <1>4, <1>5, <1>6 DEF IInv

LEMMA CheckKeepsIInv == ASSUME IInv, NEW b \in Batches, Check(b) PROVE IInv'
<1> DEFINE i == Len(batches[b].verdicts) + 1
           t == batches[b].calls[i]
           v == Verdict(breakers[t])
<1>1. batches[b] \in Batch /\ i \in Nat /\ i \in 1..Len(batches[b].calls)
  BY DEF IInv, TypeOK, Batch, Check, Checked
<1>2. t \in Tools
  BY <1>1 DEF Batch
<1>3. BreakerInv(breakers[t])
  BY <1>2 DEF IInv, BreakersInv
<1> HIDE DEF i, t
<1>4. /\ v \in Verdicts
      /\ BreakerInv(AfterCheck(breakers[t]))
      /\ v = "probe" =>
            AfterCheck(breakers[t]).half_open_calls = breakers[t].half_open_calls + 1
      /\ v # "probe" => AfterCheck(breakers[t]) = breakers[t]
  BY <1>3, CheckKeepsBreaker
<1>5. /\ batches' = [batches EXCEPT ![b].verdicts = Append(batches[b].verdicts, v)]
      /\ breakers' = [breakers EXCEPT ![t] = AfterCheck(breakers[t])]
      /\ probes' = [probes EXCEPT ![t] =
                       IF v = "probe" THEN probes[t] \cup {<<b, i>>} ELSE probes[t]]
  BY <1>1 DEF Check, i, t, IInv, TypeOK
<1> HIDE DEF v
<1>6. TypeOK'
  <2>1. breakers' \in [Tools -> Breaker]
    BY <1>2, <1>4, <1>5 DEF IInv, TypeOK, BreakerInv
  <2>2. Append(batches[b].verdicts, v) \in Seq(Verdicts)
    BY <1>1, <1>4 DEF Batch
  <2>3. batches' \in [Batches -> Batch]
    BY <1>5, <2>2 DEF IInv, TypeOK, Batch
  <2>4. \A c \in Batches : /\ Len(batches'[c].verdicts) <= Len(batches'[c].calls)
                           /\ batches'[c].recorded \subseteq DOMAIN batches'[c].calls
    <3> SUFFICES ASSUME NEW c \in Batches
                 PROVE  /\ Len(batches'[c].verdicts) <= Len(batches'[c].calls)
                        /\ batches'[c].recorded \subseteq DOMAIN batches'[c].calls
      OBVIOUS
    <3>1. CASE c = b
      <4>1. batches'[b] = [batches[b] EXCEPT !.verdicts = Append(batches[b].verdicts, v)]
        BY <1>5 DEF IInv, TypeOK
      <4>2. batches'[b].calls = batches[b].calls /\ batches'[b].recorded = batches[b].recorded
        BY <4>1, <1>1 DEF Batch
      <4>3. batches'[b].verdicts = Append(batches[b].verdicts, v)
        BY <4>1, <1>1 DEF Batch
      <4>4. Len(batches'[b].verdicts) = i
        BY <4>3, <1>1, <1>4 DEF Batch, i
      <4> QED
        BY <3>1, <4>2, <4>4, <1>1 DEF IInv, TypeOK
    <3>2. CASE c # b
      BY <3>2, <1>5 DEF IInv, TypeOK
    <3> QED
      BY <3>1, <3>2
  <2>5. probes' \in [Tools -> SUBSET (Batches \X Nat)]
    BY <1>1, <1>2, <1>5 DEF IInv, TypeOK
  <2> QED
    BY <2>1, <2>3, <2>4, <2>5 DEF TypeOK, Batch
<1>7. BreakersInv'
  BY <1>4, <1>5 DEF IInv, BreakersInv, TypeOK
<1>8. ProbesInv'
  <2> SUFFICES ASSUME NEW u \in Tools
               PROVE  /\ IsFiniteSet(probes'[u])
                      /\ Cardinality(probes'[u]) <= breakers'[u].half_open_calls
    BY DEF ProbesInv
  <2>1. IsFiniteSet(probes[u]) /\ Cardinality(probes[u]) <= breakers[u].half_open_calls
    BY DEF IInv, ProbesInv
  <2>2. CASE u = t /\ v = "probe"
    <3>1. probes'[u] = probes[u] \cup {<<b, i>>}
      BY <2>2, <1>2, <1>5 DEF IInv, TypeOK
    <3>2. /\ IsFiniteSet(probes'[u])
          /\ Cardinality(probes'[u]) \in {Cardinality(probes[u]), Cardinality(probes[u]) + 1}
      BY <2>1, <3>1, FS_AddElement
    <3>3. breakers'[u].half_open_calls = breakers[u].half_open_calls + 1
      BY <2>2, <1>2, <1>4, <1>5 DEF IInv, TypeOK
    <3>4. Cardinality(probes[u]) \in Nat /\ breakers[u].half_open_calls \in Nat
      BY <2>1, FS_CardinalityType, ConfigAssumption DEF IInv, TypeOK, Breaker
    <3> QED
      BY <2>1, <3>2, <3>3, <3>4
  <2>3. CASE ~(u = t /\ v = "probe")
    BY <2>1, <2>3, <1>2, <1>4, <1>5 DEF IInv, TypeOK
  <2> QED
    BY <2>2, <2>3
<1> QED
  BY <1>6, <1>7, <1>8 DEF IInv

LEMMA RecordKeepsIInv ==
    ASSUME IInv, NEW b \in Batches, NEW i \in DOMAIN batches[b].calls,
           NEW ok \in BOOLEAN, Record(b, i, ok)
    PROVE  IInv'
<1> DEFINE t == batches[b].calls[i]
           br == AfterObservation(breakers[t], batches[b].verdicts[i], ok)
           recorded == batches[b].recorded \cup {i}
<1>1. batches[b] \in Batch /\ i \in Nat
  BY DEF IInv, TypeOK, Batch
<1>2. t \in Tools
  BY <1>1 DEF Batch
<1>3. BreakerInv(breakers[t])
  BY <1>2 DEF IInv, BreakersInv
<1>4. BreakerInv(br) /\ br.state # "HalfOpen"
  BY <1>3, ObservationKeepsBreaker
<1>5. /\ batches' = [batches EXCEPT ![b] =
             IF recorded = DOMAIN batches[b].calls THEN Idle
             ELSE [batches[b] EXCEPT !.recorded = recorded]]
      /\ breakers' = [breakers EXCEPT ![t] = br]
      /\ probes' = [probes EXCEPT ![t] = {}]
  BY <1>4 DEF Record
<1> HIDE DEF t, br
<1>6. TypeOK'
  <2>1. breakers' \in [Tools -> Breaker]
    BY <1>2, <1>4, <1>5 DEF IInv, TypeOK, BreakerInv
  <2>2. [batches[b] EXCEPT !.recorded = recorded] \in Batch
    BY <1>1 DEF Batch
  <2>3. batches' \in [Batches -> Batch]
    BY <1>5, <2>2, IdleIsABatch DEF IInv, TypeOK, Batch
  <2>4. \A c \in Batches : /\ Len(batches'[c].verdicts) <= Len(batches'[c].calls)
                           /\ batches'[c].recorded \subseteq DOMAIN batches'[c].calls
    BY <1>1, <1>5, IdleIsABatch DEF IInv, TypeOK, Batch
  <2>5. probes' \in [Tools -> SUBSET (Batches \X Nat)]
    BY <1>2, <1>5 DEF IInv, TypeOK
  <2> QED
    BY <2>1, <2>3, <2>4, <2>5 DEF TypeOK, Batch
<1>7. BreakersInv'
  BY <1>4, <1>5 DEF IInv, BreakersInv, TypeOK
<1>8. ProbesInv'
  <2> SUFFICES ASSUME NEW u \in Tools
               PROVE  /\ IsFiniteSet(probes'[u])
                      /\ Cardinality(probes'[u]) <= breakers'[u].half_open_calls
    BY DEF ProbesInv
  <2>1. CASE u = t
    <3>1. probes'[u] = {} /\ breakers'[u] = br
      BY <2>1, <1>2, <1>5 DEF IInv, TypeOK
    <3>2. br.half_open_calls >= 0
      BY <1>4, ConfigAssumption DEF BreakerInv, Breaker
    <3> QED
      BY <3>1, <3>2, FS_EmptySet
  <2>2. CASE u # t
    BY <2>2, <1>5 DEF IInv, TypeOK, ProbesInv
  <2> QED
    BY <2>1, <2>2
<1> QED
  BY <1>6, <1>7, <1>8 DEF IInv
-----------------------------------------------------------------------------

LEMMA InitIInv == Init => IInv
<1> SUFFICES ASSUME Init PROVE IInv
  OBVIOUS
<1>1. NewBreaker \in Breaker
  BY ConfigAssumption DEF NewBreaker, Breaker
<1>2. TypeOK
  BY <1>1, IdleIsABatch DEF Init, TypeOK, Batch, Idle
<1>3. BreakersInv
  BY <1>1, ConfigAssumption DEF Init, BreakersInv, BreakerInv, NewBreaker
<1>4. ProbesInv
  BY <1>1, FS_EmptySet DEF Init, ProbesInv, NewBreaker
<1> QED
  BY <1>2, <1>3, <1>4 DEF IInv

LEMMA NextIInv == IInv /\ [Next]_vars => IInv'
<1> SUFFICES ASSUME IInv, [Next]_vars PROVE IInv'
  OBVIOUS
<1>1. ASSUME NEW b \in Batches, Start(b) PROVE IInv'
  BY <1>1, StartKeepsIInv
<1>2. ASSUME NEW b \in Batches, Check(b) PROVE IInv'
  BY <1>2, CheckKeepsIInv
<1>3. ASSUME NEW b \in Batches, Report(b) PROVE IInv'
  BY <1>3, RecordKeepsIInv DEF Report
<1>4. ASSUME NEW b \in Batches, Cancel(b) PROVE IInv'
  BY <1>4, CancelKeepsIInv
<1>5. ASSUME NEW t \in Tools, RecoveryElapsed(t) PROVE IInv'
  BY <1>5, RecoveryElapsedKeepsIInv
<1>6. CASE UNCHANGED vars
  BY <1>6 DEF vars, IInv, TypeOK, BreakersInv, BreakerInv, ProbesInv
<1> QED
  BY <1>1, <1>2, <1>3, <1>4, <1>5, <1>6 DEF Next

LEMMA Invariance == Spec => []IInv
BY InitIInv, NextIInv, PTL DEF Spec

(* Every variable keeps its type: a batch never records a call twice or past *)
(* its end, and no counter of a breaker leaves its range.                    *)
THEOREM TypeCorrectness == Spec => []TypeOK
<1>1. IInv => TypeOK
  BY DEF IInv
<1> QED
  BY <1>1, Invariance, PTL

(* The breaker has tripped exactly when the failures since the last success  *)
(* reach failure_threshold, for any overlap of batches.                      *)
THEOREM TripsExactlyAtThreshold == Spec => []TripsAtThreshold
<1>1. IInv => TripsAtThreshold
  BY DEF IInv, BreakersInv, BreakerInv, TripsAtThreshold
<1> QED
  BY <1>1, Invariance, PTL

(* At most half_open_max_calls probes of a half-open period run at once, and *)
(* no period inherits the quota of an earlier one.                           *)
THEOREM HalfOpenAdmissionIsBounded == Spec => []ProbesAreLimited
<1>1. IInv => ProbesAreLimited
  BY ConfigAssumption DEF IInv, BreakersInv, BreakerInv, Breaker, ProbesInv, ProbesAreLimited
<1> QED
  BY <1>1, Invariance, PTL

(* A circuit opens exactly at the threshold and admits no more than its      *)
(* half-open quota (circuit_breaker.rs:107).                                 *)
THEOREM BreakersAreSound == Spec => []BreakerIsSound
BY TripsExactlyAtThreshold, HalfOpenAdmissionIsBounded, PTL DEF BreakerIsSound

-----------------------------------------------------------------------------
(* The resource manager, for any agents, callers and amounts, counted in any *)
(* parts of a unit.                                                          *)

Units == 0 .. MaxAmount

Whole(n) == Resources!Whole(n)

RequestType == [kind : {"usage", "allocate", "deallocate"},
                agent : Agent, amount : Units]

CallType == [at : {"idle", "policy", "sleep", "status", "check", "list",
                   "drain"},
             agent : Agent \cup {Resources!None}, amount : Units,
             todo : SUBSET Agent]

MonitorType == [at : {"wait", "credit", "forget", "ended"},
                agent : Agent \cup {Resources!None}, parts : Units,
                woken : BOOLEAN]

ResourceTypes ==
    /\ alloc \in [Agent -> Units] /\ free \in Nat /\ overwritten \in Nat
    /\ channel \in Seq(RequestType)
    /\ monitor \in MonitorType
    /\ call \in [Caller -> CallType]
    /\ resized \in BOOLEAN

\* The monitoring loop has parts in its hand only between the removal of an
\* allocation and the credit, and who asks the policy does so for an agent.
InHand ==
    /\ monitor.at # "credit" => monitor.parts = 0
    /\ \A c \in Caller : call[c].at = "policy" => call[c].agent \in Agent

ResourceInv == ResourceTypes /\ InHand /\ UnitsAddUp

-----------------------------------------------------------------------------
LEMMA ResourceCardinality ==
    ASSUME NEW S PROVE Resources!Cardinality(S) = Cardinality(S)
  BY DEF Resources!Cardinality, Cardinality

\* No more whole units than parts.
LEMMA WholeUnits ==
    ASSUME NEW n \in Units
    PROVE  Whole(n) \in Nat /\ Whole(n) <= MaxAmount /\ Whole(0) = 0
  <1>1. n \in Nat /\ n <= MaxAmount /\ MaxAmount \in Nat
        /\ Parts \in Nat /\ Parts > 0
    BY ServicesAssumption DEF Units
  <1>2. n \div Parts \in Nat /\ n \div Parts <= n /\ 0 \div Parts = 0
    BY <1>1, SMT
  <1>3. QED
    BY <1>1, <1>2 DEF Whole, Resources!Whole

\* The whole units of each agent.
Held(f) == {u \in Agent \X (1 .. MaxAmount) : u[2] <= Whole(f[u[1]])}

LEMMA GrantedIsHeld ==
    /\ Resources!Granted = Cardinality(Held(alloc))
    /\ Resources!Granted' = Cardinality(Held(alloc'))
  BY ResourceCardinality DEF Resources!Granted, Resources!Amount, Held, Whole

LEMMA HeldIsFinite ==
    ASSUME NEW f \in [Agent -> Units]
    PROVE  IsFiniteSet(Held(f)) /\ Cardinality(Held(f)) \in Nat
  <1>1. MaxAmount \in Int /\ 1 \in Int
    BY ServicesAssumption
  <1>2. IsFiniteSet(1 .. MaxAmount)
    BY <1>1, FS_Interval
  <1>3. IsFiniteSet(Agent \X (1 .. MaxAmount))
    BY <1>2, FS_Product, ServicesAssumption
  <1>4. Held(f) \in SUBSET (Agent \X (1 .. MaxAmount))
    BY DEF Held
  <1>5. QED
    BY <1>3, <1>4, FS_Subset, FS_CardinalityType

\* The units of one agent beside those of the others.
LEMMA HeldByOne ==
    ASSUME NEW f \in [Agent -> Units], NEW a \in Agent
    PROVE  LET others == {u \in Held(f) : u[1] # a}
           IN  /\ IsFiniteSet(others) /\ Cardinality(others) \in Nat
               /\ Cardinality(Held(f)) = Cardinality(others) + Whole(f[a])
  <1> DEFINE others == {u \in Held(f) : u[1] # a}
             w == Whole(f[a])
             own == {a} \X (1 .. w)
  <1>1. w \in Nat /\ w \in Int /\ w <= MaxAmount /\ 1 \in Int
    BY WholeUnits
  <1> HIDE DEF w
  <1>2. IsFiniteSet(others) /\ Cardinality(others) \in Nat
    <2>1. others \in SUBSET Held(f)
      OBVIOUS
    <2>2. QED
      BY <2>1, HeldIsFinite, FS_Subset, FS_CardinalityType
  <1>3. IsFiniteSet(own) /\ Cardinality(own) = w
    <2>1. IsFiniteSet(1 .. w) /\ Cardinality(1 .. w) = w
      BY <1>1, FS_Interval
    <2>2. IsFiniteSet({a}) /\ Cardinality({a}) = 1
      BY FS_Singleton
    <2>3. /\ IsFiniteSet({a} \X (1 .. w))
          /\ Cardinality({a} \X (1 .. w)) =
               Cardinality({a}) * Cardinality(1 .. w)
      BY <2>1, <2>2, FS_Product
    <2>4. Cardinality({a}) * Cardinality(1 .. w) = w
      BY <1>1, <2>1, <2>2
    <2>5. QED
      BY <2>3, <2>4
  <1>4. Held(f) = others \cup own /\ others \cap own = {}
    <2>1. 1 .. w \subseteq 1 .. MaxAmount
      BY <1>1, ServicesAssumption
    <2>2. own \subseteq Held(f)
      BY <2>1, <1>1 DEF Held, w
    <2>3. ASSUME NEW u \in Held(f), u[1] = a PROVE u \in own
      BY <2>3, <1>1, ServicesAssumption DEF Held, w
    <2>4. \A u \in own : u[1] = a
      OBVIOUS
    <2>5. QED
      BY <2>2, <2>3, <2>4
  <1> HIDE DEF own, others
  <1>5. Cardinality(Held(f)) =
          Cardinality(others) + w - Cardinality({})
    BY <1>2, <1>3, <1>4, FS_Union
  <1>6. Cardinality({}) = 0
    BY FS_EmptySet
  <1>7. Cardinality(Held(f)) = Cardinality(others) + w
    BY <1>1, <1>2, <1>5, <1>6
  <1>8. QED
    BY <1>2, <1>7 DEF others, w

\* What is granted changes as the allocation does.
LEMMA GrantedChanges ==
    ASSUME ResourceTypes, NEW a \in Agent, NEW n \in Units,
           alloc' = [alloc EXCEPT ![a] = n]
    PROVE  /\ alloc' \in [Agent -> Units]
           /\ Whole(alloc[a]) \in Nat /\ Whole(n) \in Nat
           /\ Resources!Granted \in Nat
           /\ Resources!Granted' =
                Resources!Granted - Whole(alloc[a]) + Whole(n)
  <1> DEFINE f == alloc
             g == [alloc EXCEPT ![a] = n]
             othersF == {u \in Held(f) : u[1] # a}
             othersG == {u \in Held(g) : u[1] # a}
  <1>1. /\ f \in [Agent -> Units] /\ g \in [Agent -> Units] /\ g[a] = n
        /\ \A b \in Agent : b # a => g[b] = f[b]
    BY DEF ResourceTypes
  <1>2. Whole(f[a]) \in Nat /\ Whole(n) \in Nat
    BY <1>1, WholeUnits
  <1>3. othersF = othersG
    BY <1>1 DEF Held
  <1>4. /\ Cardinality(Held(f)) = Cardinality(othersF) + Whole(f[a])
        /\ Cardinality(othersF) \in Nat
    BY <1>1, HeldByOne
  <1>5. Cardinality(Held(g)) = Cardinality(othersG) + Whole(n)
    <2> HIDE DEF g
    <2>1. Cardinality(Held(g)) = Cardinality(othersG) + Whole(g[a])
      BY <1>1, HeldByOne
    <2>2. QED  BY <2>1, <1>1
  <1>6. /\ Resources!Granted = Cardinality(Held(f))
        /\ Resources!Granted' = Cardinality(Held(g))
    BY GrantedIsHeld
  <1> HIDE DEF othersF, othersG, g
  <1>7. /\ Resources!Granted \in Nat
        /\ Resources!Granted' = Resources!Granted - Whole(f[a]) + Whole(n)
    BY <1>2, <1>3, <1>4, <1>5, <1>6
  <1>8. QED
    BY <1>1, <1>2, <1>7 DEF g

LEMMA GrantedStays ==
    alloc' = alloc => Resources!Granted' = Resources!Granted
  BY DEF Resources!Granted

LEMMA NothingIsWhole == Whole(0) = 0
  <1>1. 0 \in Units
    BY ServicesAssumption DEF Units
  <1>2. QED
    BY <1>1, WholeUnits

LEMMA GrantedIsNat == ResourceTypes => Resources!Granted \in Nat
  BY HeldIsFinite, GrantedIsHeld DEF ResourceTypes

\* What is at the head of the channel, and the channel without it.
LEMMA Received ==
    ASSUME ResourceInv, channel # <<>>
    PROVE  /\ Head(channel) \in RequestType
           /\ Tail(channel) \in Seq(RequestType)
  BY DEF ResourceInv, ResourceTypes

LEMMA Sent ==
    ASSUME ResourceInv, NEW r \in RequestType, Resources!Send(r)
    PROVE  channel' \in Seq(RequestType)
  BY DEF ResourceInv, ResourceTypes, Resources!Send

-----------------------------------------------------------------------------
LEMMA ListeningIs ==
    /\ Resources!Listening \in MonitorType /\ Resources!Closed \in MonitorType
    /\ Resources!Listening.parts = 0 /\ Resources!Closed.parts = 0
    /\ Resources!Listening.at = "wait" /\ 0 \in Units
  <1>1. 0 \in Units
    BY ServicesAssumption DEF Units
  <1>2. /\ Resources!Listening \in MonitorType
        /\ Resources!Listening.parts = 0 /\ Resources!Listening.at = "wait"
    BY <1>1 DEF Resources!Listening, MonitorType
  <1>3. Resources!Closed \in MonitorType /\ Resources!Closed.parts = 0
    BY <1>2 DEF Resources!Closed, MonitorType
  <1>4. QED
    BY <1>1, <1>2, <1>3

LEMMA IdleIsACall ==
    /\ Resources!Idle \in CallType
    /\ Resources!Idle = [at |-> "idle", agent |-> Resources!None,
                         amount |-> 0, todo |-> {}]
    /\ 0 \in Units
  <1>1. 0 \in Units
    BY ServicesAssumption DEF Units
  <1>2. QED
    BY <1>1 DEF Resources!Idle, CallType

LEMMA ResourceInit == Resources!Init => ResourceInv
  <1> SUFFICES ASSUME Resources!Init PROVE ResourceInv
    OBVIOUS
  <1>1. {0, MaxAmount} \subseteq Units /\ 0 \in Units
    BY ServicesAssumption DEF Units
  <1>2. alloc \in [Agent -> Units]
    BY <1>1 DEF Resources!Init
  <1>3. Resources!Granted \in Nat /\ Resources!Granted <= Total
    BY <1>2, HeldIsFinite, GrantedIsHeld DEF Resources!Init
  <1>4. free \in Nat /\ free + Resources!Granted = Total
    BY <1>3, ServicesAssumption DEF Resources!Init
  <1>5. ResourceTypes
    <2>1. monitor \in MonitorType /\ call \in [Caller -> CallType]
      BY ListeningIs, IdleIsACall DEF Resources!Init
    <2>2. channel = <<>> /\ overwritten = 0 /\ resized = FALSE
      BY DEF Resources!Init
    <2>3. <<>> \in Seq(RequestType)
      OBVIOUS
    <2>4. channel \in Seq(RequestType) /\ overwritten \in Nat
          /\ resized \in BOOLEAN
      BY <2>2, <2>3
    <2>5. QED
      BY <1>2, <1>4, <2>1, <2>4 DEF ResourceTypes
  <1>6. InHand
    BY DEF Resources!Init, InHand, Resources!Idle, Resources!Listening
  <1>7. monitor.parts = 0 /\ overwritten = 0
    BY DEF Resources!Init, Resources!Listening
  <1>8. UnitsAddUp
    <2>1. Whole(monitor.parts) = 0
      BY <1>1, <1>7, WholeUnits
    <2>2. QED
      BY <1>3, <1>4, <1>7, <2>1
      DEF UnitsAddUp, Resources!UnitsAddUp, Whole
  <1>9. QED
    BY <1>5, <1>6, <1>8 DEF ResourceInv

\* Steps that move no unit.
LEMMA NothingMoves ==
    ASSUME ResourceInv, ResourceTypes', InHand',
           UNCHANGED <<alloc, free, overwritten, resized>>,
           monitor'.parts = monitor.parts
    PROVE  ResourceInv'
  <1>1. Resources!Granted' = Resources!Granted
    BY GrantedStays
  <1>2. UnitsAddUp'
    BY <1>1 DEF ResourceInv, UnitsAddUp, Resources!UnitsAddUp
  <1>3. QED
    BY <1>2 DEF ResourceInv

LEMMA TakeUsageKeeps ==
    ASSUME ResourceInv, Resources!TakeUsage PROVE ResourceInv'
  <1>1. /\ monitor.at = "wait" /\ channel # <<>>
        /\ channel' = Tail(channel) /\ monitor' = Resources!Listening
        /\ UNCHANGED <<alloc, free, call, overwritten, resized>>
    BY DEF Resources!TakeUsage, Resources!Takes, Resources!history
  <1>2. ResourceTypes' /\ InHand' /\ monitor'.parts = monitor.parts
    BY <1>1, Received, ListeningIs DEF ResourceInv, ResourceTypes, InHand
  <1>3. QED
    BY <1>1, <1>2, NothingMoves

LEMMA TakeAllocationKeeps ==
    ASSUME ResourceInv, Resources!TakeAllocation PROVE ResourceInv'
  <1> DEFINE a == Head(channel).agent
             n == Head(channel).amount
  <1>1. /\ monitor.at = "wait" /\ channel # <<>>
        /\ channel' = Tail(channel) /\ monitor' = Resources!Listening
        /\ UNCHANGED <<call, resized>>
        /\ \/ /\ free >= Whole(n)
              /\ alloc' = [alloc EXCEPT ![a] = n]
              /\ free' = free - Whole(n)
              /\ overwritten' = overwritten + Whole(alloc[a])
           \/ UNCHANGED <<alloc, free, overwritten>>
    BY DEF Resources!TakeAllocation, Resources!Takes, Resources!Fits,
       Resources!Grant, Whole
  <1>2. a \in Agent /\ n \in Units
    BY <1>1, Received DEF RequestType
  <1> HIDE DEF a, n
  <1>3. monitor.parts = 0 /\ monitor'.parts = 0
    BY <1>1, ListeningIs DEF ResourceInv, InHand
  <1>4. channel' \in Seq(RequestType)
    BY <1>1, Received
  <1>5. InHand'
    BY <1>1, <1>3 DEF ResourceInv, InHand
  <1>6. CASE free >= Whole(n) /\ alloc' = [alloc EXCEPT ![a] = n]
             /\ free' = free - Whole(n)
             /\ overwritten' = overwritten + Whole(alloc[a])
    <2>1. /\ alloc' \in [Agent -> Units] /\ Whole(alloc[a]) \in Nat
          /\ Whole(n) \in Nat /\ Resources!Granted \in Nat
          /\ Resources!Granted' =
               Resources!Granted - Whole(alloc[a]) + Whole(n)
      BY <1>1, <1>2, <1>6, GrantedChanges DEF ResourceInv
    <2>2. free' \in Nat /\ overwritten' \in Nat
      BY <1>1, <1>2, <1>6, <2>1 DEF ResourceInv, ResourceTypes
    <2>3. ResourceTypes'
      BY <1>1, <1>4, <2>1, <2>2, ListeningIs DEF ResourceInv, ResourceTypes
    <2>4. free' = free - Whole(n)
          /\ overwritten' = overwritten + Whole(alloc[a])
          /\ free \in Nat /\ overwritten \in Nat
      BY <1>1, <1>6 DEF ResourceInv, ResourceTypes
    <2>5. UnitsAddUp'
      <3>1. ~resized' => free + Resources!Granted + 0 + overwritten = Total
        BY <1>1, <1>3, NothingIsWhole
        DEF ResourceInv, UnitsAddUp, Resources!UnitsAddUp, Whole
      <3>2. (free - Whole(n))
              + (Resources!Granted - Whole(alloc[a]) + Whole(n)) + 0
              + (overwritten + Whole(alloc[a])) =
            free + Resources!Granted + 0 + overwritten
        BY <2>1, <2>4
      <3>3. Resources!Whole(monitor'.parts) = 0
        BY <1>3, NothingIsWhole DEF Whole
      <3>4. QED
        BY <2>1, <2>4, <3>1, <3>2, <3>3 DEF UnitsAddUp, Resources!UnitsAddUp
    <2>6. QED
      BY <1>5, <2>3, <2>5 DEF ResourceInv
  <1>7. CASE UNCHANGED <<alloc, free, overwritten>>
    <2>1. ResourceTypes'
      BY <1>1, <1>4, <1>7, ListeningIs DEF ResourceInv, ResourceTypes
    <2>2. QED
      BY <1>1, <1>3, <1>5, <1>7, <2>1, NothingMoves
  <1>8. QED
    BY <1>1, <1>6, <1>7

LEMMA TakeDeallocationKeeps ==
    ASSUME ResourceInv, Resources!TakeDeallocation PROVE ResourceInv'
  <1> DEFINE a == Head(channel).agent
             m == [at |-> "credit", agent |-> a, parts |-> alloc[a],
                   woken |-> FALSE]
  <1>1. /\ monitor.at = "wait" /\ channel # <<>>
        /\ channel' = Tail(channel)
        /\ alloc' = [alloc EXCEPT ![a] = 0]
        /\ monitor' = IF alloc[a] = 0 THEN Resources!Listening ELSE m
        /\ UNCHANGED <<free, call, overwritten, resized>>
    BY DEF Resources!TakeDeallocation, Resources!Takes, Resources!history
  <1>2. a \in Agent /\ 0 \in Units /\ alloc[a] \in Units
    BY <1>1, Received, ServicesAssumption
    DEF RequestType, Units, ResourceInv, ResourceTypes
  <1>3. m \in MonitorType
        /\ m.parts = alloc[a] /\ m.at = "credit"
    BY <1>2 DEF MonitorType
  <1> HIDE DEF a, m
  <1>4. /\ monitor' \in MonitorType
        /\ monitor'.parts = alloc[a]
        /\ monitor'.at # "credit" => monitor'.parts = 0
    BY <1>1, <1>3, ListeningIs
  <1>5. monitor.parts = 0
    BY <1>1 DEF ResourceInv, InHand
  <1>6. /\ alloc' \in [Agent -> Units] /\ Whole(alloc[a]) \in Nat
        /\ Resources!Granted \in Nat
        /\ Resources!Granted' = Resources!Granted - Whole(alloc[a]) + 0
    BY <1>1, <1>2, GrantedChanges, NothingIsWhole DEF ResourceInv
  <1>7. ResourceTypes'
    BY <1>1, <1>4, <1>6, Received DEF ResourceInv, ResourceTypes
  <1>8. InHand'
    BY <1>1, <1>4 DEF ResourceInv, InHand
  <1>9. UnitsAddUp'
    <2>1. ~resized' => free + Resources!Granted + 0 + overwritten = Total
      BY <1>1, <1>5, NothingIsWhole
      DEF ResourceInv, UnitsAddUp, Resources!UnitsAddUp, Whole
    <2>2. free \in Nat /\ overwritten \in Nat
      BY DEF ResourceInv, ResourceTypes
    <2>3. free + (Resources!Granted - Whole(alloc[a]) + 0)
            + Whole(alloc[a]) + overwritten
            = free + Resources!Granted + 0 + overwritten
      BY <1>6, <2>2
    <2>4. QED
      BY <1>1, <1>4, <1>6, <2>1, <2>3
      DEF UnitsAddUp, Resources!UnitsAddUp, Whole
  <1>10. QED
    BY <1>7, <1>8, <1>9 DEF ResourceInv

LEMMA CreditKeeps ==
    ASSUME ResourceInv, Resources!Credit PROVE ResourceInv'
  <1> DEFINE m == [monitor EXCEPT !.at = "forget", !.parts = 0]
  <1>1. /\ free' = free + Whole(monitor.parts) /\ monitor' = m
        /\ UNCHANGED <<alloc, channel, call, overwritten, resized>>
    BY DEF Resources!Credit, Resources!history, Whole
  <1>2. 0 \in Units /\ Whole(monitor.parts) \in Nat
    <2>1. monitor.parts \in Units
      BY DEF ResourceInv, ResourceTypes, MonitorType
    <2>2. QED
      BY <2>1, WholeUnits, IdleIsACall
  <1>3. /\ m \in MonitorType
        /\ m.parts = 0
    BY <1>2 DEF ResourceInv, ResourceTypes, MonitorType
  <1> HIDE DEF m
  <1>4. free' \in Nat /\ free \in Nat
    BY <1>1, <1>2 DEF ResourceInv, ResourceTypes
  <1>5. ResourceTypes'
    BY <1>1, <1>3, <1>4 DEF ResourceInv, ResourceTypes
  <1>6. InHand'
    BY <1>1, <1>3 DEF ResourceInv, InHand
  <1>7. Resources!Granted' = Resources!Granted /\ Resources!Granted \in Nat
    BY <1>1, GrantedStays, GrantedIsNat DEF ResourceInv
  <1>8. UnitsAddUp'
    BY <1>1, <1>2, <1>3, <1>4, <1>7, NothingIsWhole
    DEF ResourceInv, ResourceTypes, UnitsAddUp, Resources!UnitsAddUp, Whole
  <1>9. QED
    BY <1>5, <1>6, <1>8 DEF ResourceInv

LEMMA ForgetKeeps ==
    ASSUME ResourceInv, Resources!Forget \/ Resources!StopMonitor
    PROVE  ResourceInv'
  <1>1. /\ monitor.at \in {"wait", "forget"}
        /\ monitor' \in {Resources!Listening, Resources!Closed}
        /\ channel' \in {channel, <<>>}
        /\ UNCHANGED <<alloc, free, call, overwritten, resized>>
    BY DEF Resources!Forget, Resources!StopMonitor, Resources!history,
       Resources!tables
  <1>3. monitor'.parts = 0 /\ monitor.parts = 0
    BY <1>1, ListeningIs DEF ResourceInv, InHand
  <1>4. ResourceTypes'
    <2>1. <<>> \in Seq(RequestType)
      OBVIOUS
    <2>2. monitor' \in MonitorType /\ channel' \in Seq(RequestType)
      BY <1>1, <2>1, ListeningIs DEF ResourceInv, ResourceTypes
    <2>3. QED
      BY <1>1, <2>2 DEF ResourceInv, ResourceTypes
  <1>5. InHand'
    BY <1>1, <1>3 DEF ResourceInv, InHand
  <1>6. QED
    BY <1>1, <1>3, <1>4, <1>5, NothingMoves

-----------------------------------------------------------------------------
\* A call whose record becomes x, while no unit moves.
LEMMA CallMoves ==
    ASSUME ResourceInv, NEW c \in Caller, NEW x \in CallType,
           call' = [call EXCEPT ![c] = x],
           x.at = "policy" => x.agent \in Agent,
           channel' \in Seq(RequestType),
           monitor' = monitor,
           UNCHANGED <<alloc, free, overwritten, resized>>
    PROVE  ResourceInv'
  <1>1. ResourceTypes'
    BY DEF ResourceInv, ResourceTypes
  <1>2. InHand'
    BY DEF ResourceInv, ResourceTypes, InHand
  <1>3. QED
    BY <1>1, <1>2, NothingMoves

LEMMA RequestsAreRequests ==
    ASSUME NEW a \in Agent, NEW n \in Units,
           NEW k \in {"usage", "allocate", "deallocate"}
    PROVE  Resources!Request(k, a, n) \in RequestType
  BY DEF Resources!Request, RequestType

LEMMA AmountsAreUnits == Resources!Amount \subseteq Units /\ 0 \in Units
  BY ServicesAssumption DEF Resources!Amount, Units

\* A request or a call that begins or ends.
LEMMA SetLimitsKeeps ==
    ASSUME ResourceInv, NEW c \in Caller, NEW a \in Agent,
           NEW n \in Resources!Amount, Resources!SetLimits(c, a, n)
    PROVE  ResourceInv'
  <1>1. /\ alloc' = [alloc EXCEPT ![a] = n] /\ resized' = TRUE
        /\ UNCHANGED <<free, channel, monitor, call, overwritten>>
    BY DEF Resources!SetLimits, Resources!AtOnce, Resources!loops
  <1>2. alloc' \in [Agent -> Units]
    BY <1>1, AmountsAreUnits DEF ResourceInv, ResourceTypes
  <1>3. ResourceTypes'
    BY <1>1, <1>2 DEF ResourceInv, ResourceTypes
  <1>4. InHand' /\ UnitsAddUp'
    BY <1>1 DEF ResourceInv, InHand, UnitsAddUp, Resources!UnitsAddUp
  <1>5. QED
    BY <1>3, <1>4 DEF ResourceInv

LEMMA RequestsKeep ==
    ASSUME ResourceInv, NEW c \in Caller, NEW a \in Agent,
           \/ Resources!Deallocate(c, a)
           \/ \E n \in Resources!Amount : Resources!UpdateUsage(c, a, n)
    PROVE  ResourceInv'
  <1>1. \E r \in RequestType : Resources!Send(r)
    BY RequestsAreRequests, AmountsAreUnits
    DEF Resources!Deallocate, Resources!UpdateUsage
  <1>2. channel' \in Seq(RequestType)
    BY <1>1, Sent
  <1>3. UNCHANGED <<alloc, free, monitor, call, overwritten, resized>>
    BY DEF Resources!Deallocate, Resources!UpdateUsage, Resources!AtOnce,
       Resources!tables, Resources!loops, Resources!history
  <1>4. ResourceTypes' /\ InHand'
    BY <1>2, <1>3 DEF ResourceInv, ResourceTypes, InHand
  <1>5. QED
    BY <1>3, <1>4, NothingMoves

LEMMA BeginningsKeep ==
    ASSUME ResourceInv, NEW c \in Caller,
           \/ Resources!Ask(c)
           \/ \E a \in Agent, n \in Resources!Amount :
                  Resources!Allocate(c, a, n)
    PROVE  ResourceInv'
  <1>1. /\ \E x \in CallType : /\ call' = [call EXCEPT ![c] = x]
                               /\ x.at = "policy" => x.agent \in Agent
        /\ UNCHANGED <<alloc, free, channel, monitor, overwritten, resized>>
    <2>1. CASE Resources!Ask(c)
      <3>1. PICK table \in {"status", "check"} :
              call' = [call EXCEPT ![c] = [Resources!Idle EXCEPT !.at = table]]
        BY <2>1 DEF Resources!Ask, Resources!Begin
      <3>2. [Resources!Idle EXCEPT !.at = table] \in CallType
            /\ [Resources!Idle EXCEPT !.at = table].at = table
        BY IdleIsACall DEF CallType
      <3>3. QED
        BY <2>1, <3>1, <3>2
        DEF Resources!Ask, Resources!tables, Resources!loops,
            Resources!history
    <2>2. CASE \E a \in Agent, n \in Resources!Amount :
                   Resources!Allocate(c, a, n)
      <3>1. PICK a \in Agent, n \in Resources!Amount :
                Resources!Allocate(c, a, n)
        BY <2>2
      <3> DEFINE x == [Resources!Idle EXCEPT !.at = "policy", !.agent = a,
                                             !.amount = n]
      <3>2. n \in Units
        BY AmountsAreUnits
      <3>3. x \in CallType /\ x.agent = a
        BY <3>2, IdleIsACall DEF CallType
      <3>5. call' = [call EXCEPT ![c] = x]
        BY <3>1 DEF Resources!Allocate, Resources!Begin
      <3>6. QED
        BY <3>1, <3>3, <3>5
        DEF Resources!Allocate, Resources!tables, Resources!loops,
            Resources!history
    <2>3. QED  BY <2>1, <2>2
  <1>2. channel' \in Seq(RequestType)
    BY <1>1 DEF ResourceInv, ResourceTypes
  <1>3. QED
    BY <1>1, <1>2, CallMoves

LEMMA ShutdownKeeps ==
    ASSUME ResourceInv, NEW c \in Caller, Resources!Shutdown(c)
    PROVE  ResourceInv'
  <1> DEFINE x == [Resources!Idle EXCEPT !.at = "list"]
             m == [monitor EXCEPT !.woken = monitor.at = "wait"]
  <1>1. /\ call' = [call EXCEPT ![c] = x] /\ monitor' = m
        /\ UNCHANGED <<alloc, free, channel, overwritten, resized>>
    BY DEF Resources!Shutdown, Resources!Begin, Resources!tables,
       Resources!history
  <1>2. x \in CallType /\ x.at = "list"
    BY IdleIsACall DEF CallType
  <1>3. (monitor.at = "wait") \in BOOLEAN
    OBVIOUS
  <1>4. /\ m \in MonitorType
        /\ m.at = monitor.at /\ m.parts = monitor.parts
    BY <1>3 DEF ResourceInv, ResourceTypes, MonitorType
  <1> HIDE DEF x, m
  <1>5. ResourceTypes'
    BY <1>1, <1>2, <1>4 DEF ResourceInv, ResourceTypes
  <1>6. InHand'
    BY <1>1, <1>2, <1>4 DEF ResourceInv, ResourceTypes, InHand
  <1>7. QED
    BY <1>1, <1>4, <1>5, <1>6, NothingMoves

LEMMA ProceedKeeps ==
    ASSUME ResourceInv, NEW c \in Caller, Resources!Proceed(c)
    PROVE  ResourceInv'
  <1>0. call \in [Caller -> CallType] /\ call[c] \in CallType
    BY DEF ResourceInv, ResourceTypes
  <1>1. UNCHANGED <<alloc, free, monitor, overwritten, resized>>
    BY DEF Resources!Proceed, Resources!Decide, Resources!Answer,
       Resources!Reply, Resources!List, Resources!Drain, Resources!tables,
       Resources!loops, Resources!history
  <1>2. channel' \in Seq(RequestType)
        /\ \E x \in CallType : /\ call' = [call EXCEPT ![c] = x]
                               /\ x.at # "policy"
    <2>0. channel \in Seq(RequestType)
      BY DEF ResourceInv, ResourceTypes
    <2>1. CASE Resources!Return(c) /\ channel' = channel
      BY <2>0, <2>1, IdleIsACall DEF Resources!Return
    <2>2. CASE Resources!Decide(c) /\ ~(Resources!Return(c)
                                         /\ channel' = channel)
      <3>1. PICK n \in Resources!Amount :
              /\ Resources!Send(Resources!Request("allocate", call[c].agent,
                                                  n))
              /\ call' = [call EXCEPT ![c].at = "sleep"]
              /\ call[c].at = "policy"
        BY <2>2 DEF Resources!Decide
      <3>2. call[c].agent \in Agent
        BY <3>1 DEF ResourceInv, InHand
      <3>3. channel' \in Seq(RequestType)
        BY <3>1, <3>2, RequestsAreRequests, AmountsAreUnits, Sent
      <3> DEFINE x == [call[c] EXCEPT !.at = "sleep"]
      <3>4. x \in CallType /\ x.at = "sleep"
        BY <1>0 DEF CallType
      <3>5. call' = [call EXCEPT ![c] = x]
        BY <1>0, <3>1
      <3>6. QED
        BY <3>3, <3>4, <3>5
    <2>3. CASE Resources!Answer(c) \/ Resources!Reply(c)
      BY <2>0, <2>3, IdleIsACall
      DEF Resources!Answer, Resources!Reply, Resources!Return
    <2>4. CASE Resources!List(c)
      <3> DEFINE held == {a \in Agent : alloc[a] # 0}
                 y == [Resources!Idle EXCEPT !.at = "drain", !.todo = held]
                 x == IF held = {} THEN Resources!Idle ELSE y
      <3>1. held \in SUBSET Agent
        OBVIOUS
      <3>2. y \in CallType /\ y.at = "drain"
        <4> HIDE DEF held
        <4>1. QED  BY <3>1, IdleIsACall DEF CallType
      <3>3. x \in CallType /\ x.at # "policy"
        BY <3>2, IdleIsACall
      <3>4. call' = [call EXCEPT ![c] = x] /\ channel' = channel
        BY <2>4 DEF Resources!List
      <3>5. QED
        BY <2>0, <3>3, <3>4
    <2>5. CASE \E a \in call[c].todo : Resources!Drain(c, a)
      <3>1. PICK a \in call[c].todo : Resources!Drain(c, a)
        BY <2>5
      <3>2. a \in Agent /\ 0 \in Units
        BY <1>0, AmountsAreUnits DEF CallType
      <3>3. channel' \in Seq(RequestType)
        BY <3>1, <3>2, RequestsAreRequests, Sent DEF Resources!Drain
      <3> DEFINE rest == call[c].todo \ {a}
                 y == [call[c] EXCEPT !.todo = rest]
                 x == IF rest = {} THEN Resources!Idle ELSE y
      <3>4. y \in CallType /\ y.at = call[c].at
        BY <1>0 DEF CallType
      <3>5. call[c].at = "drain"
        BY <3>1 DEF Resources!Drain
      <3>6. x \in CallType /\ x.at # "policy"
        BY <3>4, <3>5, IdleIsACall
      <3>7. call' = [call EXCEPT ![c] = x]
        BY <3>1 DEF Resources!Drain
      <3>8. QED
        BY <3>3, <3>6, <3>7
    <2>6. QED
      BY <2>1, <2>2, <2>3, <2>4, <2>5 DEF Resources!Proceed
  <1>3. QED
    BY <1>1, <1>2, CallMoves

LEMMA ResourceStep ==
    ASSUME ResourceInv, [Resources!Next]_resources PROVE ResourceInv'
  <1>1. ASSUME UNCHANGED <<alloc, free, channel, monitor, call, overwritten,
                           resized>>
        PROVE  ResourceInv'
    <2>1. ResourceTypes' /\ InHand'
      BY <1>1 DEF ResourceInv, ResourceTypes, InHand
    <2>2. QED
      BY <1>1, <2>1, NothingMoves
  <1>2. CASE UNCHANGED resources
    BY <1>1, <1>2 DEF resources
  <1>3. CASE Resources!Monitor
    BY <1>3, TakeUsageKeeps, TakeAllocationKeeps, TakeDeallocationKeeps,
       CreditKeeps, ForgetKeeps DEF Resources!Monitor
  <1>4. CASE Resources!Enforcement
    BY <1>1, <1>4 DEF Resources!Enforcement, Resources!Sample,
       Resources!Snapshot, Resources!StopEnforcement, Resources!Judge,
       Resources!tables, Resources!history
  <1>5. ASSUME NEW c \in Caller, Resources!CallStep(c) PROVE ResourceInv'
    BY <1>5, SetLimitsKeeps, RequestsKeep, BeginningsKeep, ShutdownKeeps,
       ProceedKeeps DEF Resources!CallStep
  <1>6. QED
    BY <1>2, <1>3, <1>4, <1>5 DEF Resources!Next

\* Whatever requests, decisions of the policy and deallocations meet in the
\* channel, and wherever a shutdown ends the loop: as long as set_limits is
\* not used, the whole units of the machine are conserved, whatever fraction of
\* a unit goes uncharged (resource/mod.rs:833).
THEOREM UnitsAreConserved == ServicesSpec => []UnitsAddUp
  <1> DEFINE state == <<service, vars, resources, lifecycle, errors, tool,
                        execution>>
  <1>1. ServicesInit => ResourceInv
    BY ResourceInit DEF ServicesInit
  <1>2. ResourceInv /\ [ServicesNext]_state => ResourceInv'
    <2> SUFFICES ASSUME ResourceInv, [ServicesNext]_state
                 PROVE  ResourceInv'
      OBVIOUS
    <2>1. [Resources!Next]_resources
      BY DEF ServicesNext
    <2>2. QED
      BY <2>1, ResourceStep
  <1>3. ResourceInv => UnitsAddUp
    BY DEF ResourceInv
  <1>4. ServicesSpec => ServicesInit /\ [][ServicesNext]_state
    BY DEF ServicesSpec
  <1>5. QED
    BY <1>1, <1>2, <1>3, <1>4, PTL

-----------------------------------------------------------------------------
(* The lifecycle controller, for any agents, callers and limits.             *)

\* The history variables change in Insert and Initialize only.
USE DEF Lifecycle!history

\* The states an agent is ever in: none becomes ready.
Reached == {"Created", "Initializing", "Failed", "Terminating", "Terminated"}

AgentRecord(n) ==
    {Lifecycle!NoAgent} \cup
    [state : Reached, restarts : 0 .. MaxRestarts, stuck : BOOLEAN,
     birth : 1 .. n]

EventRecord == [agent : Agent, from : Reached, to : Reached]

DoingRecord ==
    [at : {"idle", "insert", "list", "shutdown"}, todo : SUBSET Agent] \cup
    [at : {"sleep"}, agent : Agent, todo : SUBSET Agent]

LifecycleTypes ==
    /\ births \in Nat /\ crowded \in Nat
    /\ agents \in [Agent -> AgentRecord(births)]
    /\ sent \in Seq(EventRecord)
    /\ events \in {"wait", "woken", "ended"}
    /\ watch \in [at : {"wait", "act", "ended"}, restart : SUBSET Agent,
                  fail : SUBSET Agent]
    /\ doing \in [Caller -> DoingRecord]

\* An agent the monitor is about to restart has a restart left: only the
\* monitor counts restarts up, and an agent in its place has used none.
RestartIsLeft == \A a \in watch.restart : agents[a].restarts < MaxRestarts

Inserting == Lifecycle!Inserting

\* The places that are taken and those about to be.
PlacesInv ==
    Cardinality(Lifecycle!Table) + Cardinality(Inserting)
        <= MaxAgents + crowded

LifecycleInv == LifecycleTypes /\ RestartIsLeft /\ PlacesInv

-----------------------------------------------------------------------------
LEMMA LifecycleCardinality ==
    ASSUME NEW S PROVE Lifecycle!Cardinality(S) = Cardinality(S)
  BY DEF Lifecycle!Cardinality, Cardinality

LEMMA PlacesAreFinite ==
    /\ IsFiniteSet(Lifecycle!Table) /\ Cardinality(Lifecycle!Table) \in Nat
    /\ IsFiniteSet(Inserting) /\ Cardinality(Inserting) \in Nat
  <1>1. Lifecycle!Table \in SUBSET Agent /\ Inserting \in SUBSET Caller
    BY DEF Lifecycle!Table, Inserting, Lifecycle!Inserting
  <1>2. QED
    BY <1>1, FS_Subset, FS_CardinalityType, ServicesAssumption

\* Places are only given back.
LEMMA PlacesStay ==
    ASSUME PlacesInv, crowded \in Nat, UNCHANGED crowded,
           Lifecycle!Table' \subseteq Lifecycle!Table,
           Inserting' \subseteq Inserting
    PROVE  PlacesInv'
  <1>1. /\ IsFiniteSet(Lifecycle!Table') /\ IsFiniteSet(Inserting')
        /\ Cardinality(Lifecycle!Table') \in Nat
        /\ Cardinality(Inserting') \in Nat
        /\ Cardinality(Lifecycle!Table') <= Cardinality(Lifecycle!Table)
        /\ Cardinality(Inserting') <= Cardinality(Inserting)
    BY PlacesAreFinite, FS_Subset, FS_CardinalityType
  <1>2. QED
    BY <1>1, PlacesAreFinite, ServicesAssumption DEF PlacesInv

\* A caller has counted the places: alone, and then there is one for it, or
\* while another was about to take one.
LEMMA PlaceIsCounted ==
    ASSUME PlacesInv, crowded \in Nat,
           NEW c \in Caller, Cardinality(Lifecycle!Table) < MaxAgents,
           crowded' = IF Inserting = {} THEN 0 ELSE crowded + 1,
           UNCHANGED agents, Inserting' = Inserting \cup {c}
    PROVE  PlacesInv'
  <1>1. Lifecycle!Table' = Lifecycle!Table
    BY DEF Lifecycle!Table, Lifecycle!Present
  <1>2. /\ Cardinality(Inserting \cup {c}) \in Nat
        /\ Cardinality(Inserting \cup {c}) <= Cardinality(Inserting) + 1
    <2>1. Cardinality(Inserting \cup {c}) =
               IF c \in Inserting THEN Cardinality(Inserting)
               ELSE Cardinality(Inserting) + 1
      BY PlacesAreFinite, FS_AddElement
    <2>2. QED
      BY <2>1, PlacesAreFinite
  <1>3. CASE Inserting = {}
    <2>1. Cardinality(Inserting) = 0
      BY <1>3, FS_EmptySet
    <2>2. QED
      BY <1>1, <1>2, <1>3, <2>1, PlacesAreFinite, ServicesAssumption
         DEF PlacesInv
  <1>4. CASE Inserting # {}
    BY <1>1, <1>2, <1>4, PlacesAreFinite, ServicesAssumption DEF PlacesInv
  <1>5. QED
    BY <1>3, <1>4

\* It takes the place it has counted.
LEMMA PlaceIsTaken ==
    ASSUME PlacesInv, crowded \in Nat, UNCHANGED crowded,
           NEW c \in Inserting, NEW a \in Agent,
           Lifecycle!Table' \subseteq Lifecycle!Table \cup {a},
           Inserting' = Inserting \ {c}
    PROVE  PlacesInv'
  <1>1. Cardinality(Inserting') = Cardinality(Inserting) - 1
    BY PlacesAreFinite, FS_RemoveElement
  <1>2. /\ IsFiniteSet(Lifecycle!Table \cup {a})
        /\ Cardinality(Lifecycle!Table \cup {a}) \in Nat
        /\ Cardinality(Lifecycle!Table \cup {a})
               <= Cardinality(Lifecycle!Table) + 1
    <2>1. /\ IsFiniteSet(Lifecycle!Table \cup {a})
          /\ Cardinality(Lifecycle!Table \cup {a}) =
               IF a \in Lifecycle!Table THEN Cardinality(Lifecycle!Table)
               ELSE Cardinality(Lifecycle!Table) + 1
      BY PlacesAreFinite, FS_AddElement
    <2>2. QED
      BY <2>1, PlacesAreFinite
  <1>3. /\ Cardinality(Lifecycle!Table') \in Nat
        /\ Cardinality(Lifecycle!Table') <= Cardinality(Lifecycle!Table) + 1
    <2>1. /\ Cardinality(Lifecycle!Table') \in Nat
          /\ Cardinality(Lifecycle!Table')
                 <= Cardinality(Lifecycle!Table \cup {a})
      BY <1>2, FS_Subset, FS_CardinalityType
    <2>2. QED
      BY <1>2, <2>1, PlacesAreFinite
  <1>4. QED
    BY <1>1, <1>3, PlacesAreFinite, ServicesAssumption DEF PlacesInv

-----------------------------------------------------------------------------
LEMMA LifecycleInit == Lifecycle!Init => LifecycleInv
  <1> SUFFICES ASSUME Lifecycle!Init PROVE LifecycleInv
    OBVIOUS
  <1>1. LifecycleTypes
    <2>1. /\ births \in Nat /\ crowded \in Nat
          /\ events \in {"wait", "woken", "ended"}
      BY DEF Lifecycle!Init
    <2>2. agents \in [Agent -> AgentRecord(births)]
      BY DEF Lifecycle!Init, AgentRecord
    <2>3. sent \in Seq(EventRecord)
      <3>1. <<>> \in Seq(EventRecord)
        OBVIOUS
      <3>2. QED  BY <3>1 DEF Lifecycle!Init
    <2>4. watch \in [at : {"wait", "act", "ended"}, restart : SUBSET Agent,
                     fail : SUBSET Agent]
      BY DEF Lifecycle!Init, Lifecycle!Watching
    <2>5. doing \in [Caller -> DoingRecord]
      <3>1. Lifecycle!Idle \in DoingRecord
        BY DEF Lifecycle!Idle, DoingRecord
      <3>2. QED  BY <3>1 DEF Lifecycle!Init
    <2>6. QED
      BY <2>1, <2>2, <2>3, <2>4, <2>5 DEF LifecycleTypes
  <1>2. RestartIsLeft
    BY DEF Lifecycle!Init, Lifecycle!Watching, RestartIsLeft
  <1>3. PlacesInv
    <2>1. Lifecycle!Table = {} /\ Inserting = {} /\ crowded = 0
      BY DEF Lifecycle!Init, Lifecycle!Idle, Lifecycle!Table,
         Lifecycle!Present, Inserting, Lifecycle!Inserting
    <2>2. QED
      BY <2>1, FS_EmptySet, ServicesAssumption DEF PlacesInv
  <1>4. QED
    BY <1>1, <1>2, <1>3 DEF LifecycleInv

\* An agent that is present: its record, and the one it has after a change of
\* its state.
LEMMA AgentIsPresent ==
    ASSUME LifecycleTypes, NEW a \in Agent, Lifecycle!Present(a)
    PROVE  agents[a] \in [state : Reached, restarts : 0 .. MaxRestarts,
                          stuck : BOOLEAN, birth : 1 .. births]
  BY DEF LifecycleTypes, AgentRecord, Lifecycle!Present

\* No agent comes to or goes from the table, and none is restarted.
LEMMA StateMoves ==
    ASSUME LifecycleInv, NEW a \in Agent, Lifecycle!Present(a),
           NEW r \in [state : Reached, restarts : 0 .. MaxRestarts,
                      stuck : BOOLEAN, birth : 1 .. births],
           agents' = [agents EXCEPT ![a] = r], UNCHANGED births
    PROVE  /\ agents' \in [Agent -> AgentRecord(births')]
           /\ Lifecycle!Table' = Lifecycle!Table
           /\ \A b \in Agent : agents'[b] = IF b = a THEN r ELSE agents[b]
  <1>1. /\ agents \in [Agent -> AgentRecord(births)]
        /\ r \in AgentRecord(births)
    BY DEF LifecycleInv, LifecycleTypes, AgentRecord
  <1>2. r # Lifecycle!NoAgent
    BY DEF Lifecycle!NoAgent, Reached
  <1>3. QED
    BY <1>1, <1>2 DEF Lifecycle!Table, Lifecycle!Present

\* The same for a state that is entered.
LEMMA StateIsEntered ==
    ASSUME LifecycleInv, NEW a \in Agent, Lifecycle!Present(a),
           NEW s \in Reached,
           agents' = [agents EXCEPT ![a] = Lifecycle!Entered(a, s)],
           UNCHANGED births
    PROVE  /\ agents' \in [Agent -> AgentRecord(births')]
           /\ Lifecycle!Table' = Lifecycle!Table
           /\ \A b \in Agent : agents'[b].restarts = agents[b].restarts
  <1>1. agents[a] \in [state : Reached, restarts : 0 .. MaxRestarts,
                       stuck : BOOLEAN, birth : 1 .. births]
    BY AgentIsPresent DEF LifecycleInv
  <1>2. /\ Lifecycle!Entered(a, s) \in
             [state : Reached, restarts : 0 .. MaxRestarts,
              stuck : BOOLEAN, birth : 1 .. births]
        /\ Lifecycle!Entered(a, s).restarts = agents[a].restarts
    BY <1>1 DEF Lifecycle!Entered
  <1>3. QED
    BY <1>2, StateMoves

\* A step that leaves the calls alone, the table as it is but for states, and
\* the restarts that are found.
LEMMA TableStays ==
    ASSUME LifecycleInv, agents' \in [Agent -> AgentRecord(births')],
           Lifecycle!Table' = Lifecycle!Table,
           \A b \in Agent : agents'[b].restarts = agents[b].restarts,
           sent' \in Seq(EventRecord), events' \in {"wait", "woken", "ended"},
           watch' \in [at : {"wait", "act", "ended"}, restart : SUBSET Agent,
                       fail : SUBSET Agent],
           watch'.restart \subseteq watch.restart,
           UNCHANGED <<doing, births, crowded>>
    PROVE  LifecycleInv'
  <1>1. LifecycleTypes'
    BY DEF LifecycleInv, LifecycleTypes
  <1>2. RestartIsLeft'
    BY DEF LifecycleInv, LifecycleTypes, RestartIsLeft
  <1>3. PlacesInv'
    <2>1. Inserting' = Inserting
      BY DEF Inserting, Lifecycle!Inserting
    <2>2. QED
      BY <2>1, PlacesStay DEF LifecycleInv, LifecycleTypes
  <1>4. QED
    BY <1>1, <1>2, <1>3 DEF LifecycleInv

LEMMA TimePassesKeeps ==
    ASSUME LifecycleInv, NEW a \in Agent, Lifecycle!TimePasses(a)
    PROVE  LifecycleInv'
  <1>1. agents[a] \in [state : Reached, restarts : 0 .. MaxRestarts,
                       stuck : BOOLEAN, birth : 1 .. births]
    BY AgentIsPresent DEF LifecycleInv, Lifecycle!TimePasses
  <1>2. PICK r : r = [agents[a] EXCEPT !.stuck = TRUE]
    OBVIOUS
  <1>3. /\ r \in [state : Reached, restarts : 0 .. MaxRestarts,
                  stuck : BOOLEAN, birth : 1 .. births]
        /\ r.restarts = agents[a].restarts
    BY <1>1, <1>2
  <1>4. agents' = [agents EXCEPT ![a] = r]
    BY <1>2 DEF Lifecycle!TimePasses
  <1>5. /\ agents' \in [Agent -> AgentRecord(births')]
        /\ Lifecycle!Table' = Lifecycle!Table
        /\ \A b \in Agent : agents'[b].restarts = agents[b].restarts
    BY <1>3, <1>4, StateMoves DEF Lifecycle!TimePasses
  <1>6. QED
    BY <1>5, TableStays
       DEF Lifecycle!TimePasses, LifecycleInv, LifecycleTypes

LEMMA EventLoopKeeps ==
    ASSUME LifecycleInv, Lifecycle!EventLoop PROVE LifecycleInv'
  <1>1. CASE Lifecycle!StopEvents
    <2>1. sent' \in Seq(EventRecord)
      <3>1. <<>> \in Seq(EventRecord)
        OBVIOUS
      <3>2. QED  BY <1>1, <3>1 DEF Lifecycle!StopEvents
    <2>2. Lifecycle!Table' = Lifecycle!Table
      BY <1>1 DEF Lifecycle!StopEvents, Lifecycle!Table, Lifecycle!Present
    <2>3. QED
      BY <1>1, <2>1, <2>2, TableStays
         DEF Lifecycle!StopEvents, LifecycleInv, LifecycleTypes
  <1>2. CASE Lifecycle!Process
    <2> PICK e : e = Head(sent)
      OBVIOUS
    <2>1. e \in EventRecord /\ Tail(sent) \in Seq(EventRecord)
      BY <1>2, HeadTailProperties
         DEF Lifecycle!Process, LifecycleInv, LifecycleTypes
    <2>2. e.agent \in Agent /\ e.to \in Reached
      BY <2>1 DEF EventRecord
    <2>3. /\ agents' \in [Agent -> AgentRecord(births')]
          /\ Lifecycle!Table' = Lifecycle!Table
          /\ \A b \in Agent : agents'[b].restarts = agents[b].restarts
      <3>1. CASE Lifecycle!Present(e.agent) /\ Lifecycle!Valid(e.from, e.to)
        <4>1. agents' = [agents EXCEPT ![e.agent] =
                           Lifecycle!Entered(e.agent, e.to)]
          BY <1>2, <3>1 DEF Lifecycle!Process
        <4>2. QED
          BY <1>2, <2>2, <3>1, <4>1, StateIsEntered DEF Lifecycle!Process
      <3>2. CASE ~(/\ Lifecycle!Present(e.agent)
                   /\ Lifecycle!Valid(e.from, e.to))
        <4>1. agents' = agents
          BY <1>2, <3>2 DEF Lifecycle!Process
        <4>2. QED
          BY <1>2, <4>1 DEF Lifecycle!Process, LifecycleInv, LifecycleTypes,
             Lifecycle!Table, Lifecycle!Present
      <3>3. QED  BY <3>1, <3>2
    <2>4. QED
      BY <1>2, <2>1, <2>3, TableStays
         DEF Lifecycle!Process, LifecycleInv, LifecycleTypes
  <1>3. QED
    BY <1>1, <1>2 DEF Lifecycle!EventLoop

-----------------------------------------------------------------------------
LEMMA LookKeeps == ASSUME LifecycleInv, Lifecycle!Look PROVE LifecycleInv'
  <1>1. LifecycleTypes'
    BY DEF Lifecycle!Look, LifecycleInv, LifecycleTypes, Lifecycle!Table
  <1>2. RestartIsLeft'
    BY DEF Lifecycle!Look, RestartIsLeft
  <1>3. PlacesInv'
    BY PlacesStay DEF Lifecycle!Look, LifecycleInv, LifecycleTypes,
       Inserting, Lifecycle!Inserting,
       Lifecycle!Table, Lifecycle!Present
  <1>4. QED
    BY <1>1, <1>2, <1>3 DEF LifecycleInv

\* What is left for the monitor.
LEMMA RestIsLess ==
    ASSUME NEW m \in [at : {"wait", "act", "ended"}, restart : SUBSET Agent,
                      fail : SUBSET Agent]
    PROVE  /\ Lifecycle!Rest(m) \in [at : {"wait", "act", "ended"},
                                     restart : SUBSET Agent,
                                     fail : SUBSET Agent]
           /\ Lifecycle!Rest(m).restart = m.restart
  BY DEF Lifecycle!Rest, Lifecycle!Watching

LEMMA RestartKeeps ==
    ASSUME LifecycleInv, NEW a \in Agent, Lifecycle!Restart(a)
    PROVE  LifecycleInv'
  <1>1. PICK m : m = [watch EXCEPT !.restart = @ \ {a}]
    OBVIOUS
  <1>2. /\ m \in [at : {"wait", "act", "ended"}, restart : SUBSET Agent,
                  fail : SUBSET Agent]
        /\ m.restart = watch.restart \ {a}
    BY <1>1 DEF LifecycleInv, LifecycleTypes
  <1>3. watch' = Lifecycle!Rest(m)
    BY <1>1 DEF Lifecycle!Restart
  <1>4. /\ watch' \in [at : {"wait", "act", "ended"}, restart : SUBSET Agent,
                       fail : SUBSET Agent]
        /\ watch'.restart = watch.restart \ {a}
    BY <1>2, <1>3, RestIsLess
  <1>5. agents[a].restarts < MaxRestarts
    BY DEF Lifecycle!Restart, LifecycleInv, RestartIsLeft
  <1>6. CASE Lifecycle!Present(a)
             /\ Lifecycle!Valid(agents[a].state, "Initializing")
    <2>1. agents[a] \in [state : Reached, restarts : 0 .. MaxRestarts,
                         stuck : BOOLEAN, birth : 1 .. births]
      BY <1>6, AgentIsPresent DEF LifecycleInv
    <2>2. PICK r : r = [Lifecycle!Entered(a, "Initializing")
                          EXCEPT !.restarts = @ + 1]
      OBVIOUS
    <2>3. agents[a].restarts + 1 \in 0 .. MaxRestarts
      BY <1>5, <2>1, ServicesAssumption
    <2>4. r \in [state : Reached, restarts : 0 .. MaxRestarts,
                 stuck : BOOLEAN, birth : 1 .. births]
      BY <2>1, <2>2, <2>3 DEF Lifecycle!Entered, Reached
    <2>5. agents' = [agents EXCEPT ![a] = r]
      BY <1>6, <2>2 DEF Lifecycle!Restart
    <2>6. /\ agents' \in [Agent -> AgentRecord(births')]
          /\ Lifecycle!Table' = Lifecycle!Table
          /\ \A b \in Agent : agents'[b] = IF b = a THEN r ELSE agents[b]
      BY <1>6, <2>4, <2>5, StateMoves DEF Lifecycle!Restart
    <2>7. LifecycleTypes'
      BY <1>4, <2>6 DEF Lifecycle!Restart, LifecycleInv, LifecycleTypes
    <2>8. RestartIsLeft'
      BY <1>4, <2>6 DEF LifecycleInv, LifecycleTypes, RestartIsLeft
    <2>9. PlacesInv'
      BY <2>6, PlacesStay DEF Lifecycle!Restart, LifecycleInv,
       LifecycleTypes, Inserting, Lifecycle!Inserting
    <2>10. QED
      BY <2>7, <2>8, <2>9 DEF LifecycleInv
  <1>7. CASE ~(/\ Lifecycle!Present(a)
               /\ Lifecycle!Valid(agents[a].state, "Initializing"))
    <2>1. agents' = agents
      BY <1>7 DEF Lifecycle!Restart
    <2>2. QED
      BY <1>4, <2>1, TableStays DEF Lifecycle!Restart, LifecycleInv,
         LifecycleTypes, Lifecycle!Table, Lifecycle!Present
  <1>8. QED
    BY <1>6, <1>7

LEMMA FailKeeps ==
    ASSUME LifecycleInv, NEW a \in Agent, Lifecycle!Fail(a)
    PROVE  LifecycleInv'
  <1>1. PICK m : m = [watch EXCEPT !.fail = @ \ {a}]
    OBVIOUS
  <1>2. /\ m \in [at : {"wait", "act", "ended"}, restart : SUBSET Agent,
                  fail : SUBSET Agent]
        /\ m.restart = watch.restart
    BY <1>1 DEF LifecycleInv, LifecycleTypes
  <1>3. watch' = Lifecycle!Rest(m)
    BY <1>1 DEF Lifecycle!Fail
  <1>4. /\ watch' \in [at : {"wait", "act", "ended"}, restart : SUBSET Agent,
                       fail : SUBSET Agent]
        /\ watch'.restart = watch.restart
    BY <1>2, <1>3, RestIsLess
  <1>5. /\ agents' \in [Agent -> AgentRecord(births')]
        /\ Lifecycle!Table' = Lifecycle!Table
        /\ \A b \in Agent : agents'[b].restarts = agents[b].restarts
    <2>1. CASE Lifecycle!Present(a)
               /\ Lifecycle!Valid(agents[a].state, "Failed")
      <3>1. agents' = [agents EXCEPT ![a] = Lifecycle!Entered(a, "Failed")]
        BY <2>1 DEF Lifecycle!Fail
      <3>2. "Failed" \in Reached
        BY DEF Reached
      <3>3. QED
        BY <2>1, <3>1, <3>2, StateIsEntered DEF Lifecycle!Fail
    <2>2. CASE ~(/\ Lifecycle!Present(a)
                 /\ Lifecycle!Valid(agents[a].state, "Failed"))
      <3>1. agents' = agents
        BY <2>2 DEF Lifecycle!Fail
      <3>2. QED
        BY <3>1 DEF Lifecycle!Fail, LifecycleInv, LifecycleTypes,
           Lifecycle!Table, Lifecycle!Present
    <2>3. QED  BY <2>1, <2>2
  <1>6. QED
    BY <1>4, <1>5, TableStays DEF Lifecycle!Fail, LifecycleInv,
       LifecycleTypes

LEMMA MonitorKeeps ==
    ASSUME LifecycleInv, Lifecycle!Monitor PROVE LifecycleInv'
  <1>1. CASE Lifecycle!StopMonitor
    <2>1. /\ watch' \in [at : {"wait", "act", "ended"},
                         restart : SUBSET Agent, fail : SUBSET Agent]
          /\ watch'.restart = watch.restart
      BY <1>1 DEF Lifecycle!StopMonitor, LifecycleInv, LifecycleTypes
    <2>2. QED
      BY <1>1, <2>1, TableStays DEF Lifecycle!StopMonitor, LifecycleInv,
         LifecycleTypes, Lifecycle!Table, Lifecycle!Present
  <1>2. watch.restart \subseteq Agent /\ watch.fail \subseteq Agent
    BY DEF LifecycleInv, LifecycleTypes
  <1>3. QED
    BY <1>1, <1>2, LookKeeps, RestartKeeps, FailKeeps DEF Lifecycle!Monitor

-----------------------------------------------------------------------------
LEMMA EventIsSent ==
    ASSUME LifecycleInv, NEW e \in EventRecord, Lifecycle!Send(e)
    PROVE  sent' \in Seq(EventRecord)
  BY AppendProperties DEF Lifecycle!Send, LifecycleInv, LifecycleTypes

\* A call goes on, and does not come to the place where it takes one.
LEMMA CallGoesOn ==
    ASSUME LifecycleInv, NEW c \in Caller, NEW d \in DoingRecord,
           d.at # "insert", doing' = [doing EXCEPT ![c] = d],
           sent' \in Seq(EventRecord), events' \in {"wait", "woken", "ended"},
           UNCHANGED <<agents, watch, births, crowded>>
    PROVE  LifecycleInv'
  <1>1. doing' \in [Caller -> DoingRecord] /\ Inserting' \subseteq Inserting
    BY DEF LifecycleInv, LifecycleTypes, Inserting, Lifecycle!Inserting
  <1>2. LifecycleTypes'
    BY <1>1 DEF LifecycleInv, LifecycleTypes
  <1>3. RestartIsLeft'
    BY DEF LifecycleInv, RestartIsLeft
  <1>4. PlacesInv'
    <2>1. Lifecycle!Table' = Lifecycle!Table
      BY DEF Lifecycle!Table, Lifecycle!Present
    <2>2. QED
      BY <1>1, <2>1, PlacesStay DEF LifecycleInv, LifecycleTypes
  <1>5. QED
    BY <1>2, <1>3, <1>4 DEF LifecycleInv

LEMMA InitializeKeeps ==
    ASSUME LifecycleInv, NEW c \in Caller, NEW a \in Agent,
           Lifecycle!Initialize(c, a)
    PROVE  LifecycleInv'
  <1>1. PICK d : d = [at |-> "insert", todo |-> {a}]
    OBVIOUS
  <1>2. d \in DoingRecord /\ d.at = "insert"
    BY <1>1 DEF DoingRecord
  <1>3. doing' = [doing EXCEPT ![c] = d]
    BY <1>1 DEF Lifecycle!Initialize, Lifecycle!Begin
  <1>4. /\ doing' \in [Caller -> DoingRecord]
        /\ Inserting' = Inserting \cup {c}
    BY <1>2, <1>3 DEF LifecycleInv, LifecycleTypes, Inserting,
       Lifecycle!Inserting
  <1>5. LifecycleTypes' /\ RestartIsLeft'
    BY <1>4 DEF Lifecycle!Initialize, LifecycleInv, LifecycleTypes,
       RestartIsLeft
  <1>6. Cardinality(Lifecycle!Table) < MaxAgents
    BY LifecycleCardinality DEF Lifecycle!Initialize
  <1>7. PlacesInv'
    BY <1>4, <1>6, PlaceIsCounted DEF Lifecycle!Initialize, LifecycleInv,
       LifecycleTypes, Inserting
  <1>8. QED
    BY <1>5, <1>7 DEF LifecycleInv

LEMMA InsertKeeps ==
    ASSUME LifecycleInv, NEW c \in Caller, NEW a \in Agent,
           Lifecycle!Insert(c, a)
    PROVE  LifecycleInv'
  <1>1. PICK r : r = Lifecycle!Newborn(births + 1)
    OBVIOUS
  <1>2. /\ r \in [state : Reached, restarts : {0}, stuck : BOOLEAN,
                  birth : {births + 1}]
        /\ agents' = [agents EXCEPT ![a] = r]
        /\ births' = births + 1 /\ births \in Nat
    BY <1>1 DEF Lifecycle!Insert, Lifecycle!Newborn, Reached, LifecycleInv,
       LifecycleTypes
  <1>3. agents' \in [Agent -> AgentRecord(births')]
    <2>1. 0 \in 0 .. MaxRestarts /\ births + 1 \in 1 .. births'
          /\ 1 .. births \subseteq 1 .. births'
      BY <1>2, ServicesAssumption
    <2>2. r \in AgentRecord(births')
      BY <1>2, <2>1 DEF AgentRecord
    <2>3. AgentRecord(births) \subseteq AgentRecord(births')
      BY <2>1 DEF AgentRecord
    <2>4. QED
      BY <1>2, <2>2, <2>3 DEF LifecycleInv, LifecycleTypes
  <1>4. sent' \in Seq(EventRecord)
    <2>1. Lifecycle!Event(a, "Created", "Initializing") \in EventRecord
      BY DEF Lifecycle!Event, EventRecord, Reached
    <2>2. QED
      BY <2>1, EventIsSent DEF Lifecycle!Insert
  <1>5. /\ doing' \in [Caller -> DoingRecord]
        /\ c \in Inserting /\ Inserting' = Inserting \ {c}
    <2>1. Lifecycle!Idle \in DoingRecord /\ Lifecycle!Idle.at # "insert"
      BY DEF Lifecycle!Idle, DoingRecord
    <2>2. QED
      BY <2>1 DEF Lifecycle!Insert, LifecycleInv, LifecycleTypes, Inserting,
         Lifecycle!Inserting
  <1>6. LifecycleTypes'
    BY <1>2, <1>3, <1>4, <1>5 DEF Lifecycle!Insert, LifecycleInv,
       LifecycleTypes
  <1>7. RestartIsLeft'
    <2> SUFFICES ASSUME NEW b \in watch'.restart
                 PROVE  agents'[b].restarts < MaxRestarts
      BY DEF RestartIsLeft
    <2>1. b \in Agent /\ agents[b].restarts < MaxRestarts
      BY DEF Lifecycle!Insert, LifecycleInv, LifecycleTypes, RestartIsLeft
    <2>2. agents[b].restarts \in Nat
      BY <2>1 DEF LifecycleInv, LifecycleTypes, AgentRecord,
         Lifecycle!NoAgent
    <2>3. CASE b = a
      <3>1. agents'[b].restarts = 0
        BY <1>2, <2>1, <2>3 DEF LifecycleInv, LifecycleTypes
      <3>2. QED
        BY <2>1, <2>2, <3>1, ServicesAssumption
    <2>4. CASE b # a
      BY <1>2, <2>1, <2>4 DEF LifecycleInv, LifecycleTypes
    <2>5. QED
      BY <2>3, <2>4
  <1>8. PlacesInv'
    <2>1. Lifecycle!Table' \subseteq Lifecycle!Table \cup {a}
      BY <1>2 DEF Lifecycle!Table, Lifecycle!Present, LifecycleInv,
         LifecycleTypes
    <2>2. QED
      BY <1>5, <2>1, PlaceIsTaken DEF Lifecycle!Insert, LifecycleInv,
         LifecycleTypes
  <1>9. QED
    BY <1>6, <1>7, <1>8 DEF LifecycleInv

\* Nothing is sent: no transition to Running or Suspended is valid.
LEMMA ChangeKeeps ==
    ASSUME LifecycleInv, NEW c \in Caller, NEW a \in Agent,
           NEW to \in {"Running", "Suspended"}, Lifecycle!Change(c, a, to)
    PROVE  LifecycleInv'
  <1>1. agents[a].state \in Reached
    BY AgentIsPresent DEF LifecycleInv, Lifecycle!Change
  <1>2. ~Lifecycle!Valid(agents[a].state, to)
    BY <1>1 DEF Reached, Lifecycle!Valid, Lifecycle!Transitions
  <1>3. QED
    BY <1>2, TableStays DEF Lifecycle!Change, LifecycleInv, LifecycleTypes,
       Lifecycle!Table, Lifecycle!Present

LEMMA TerminatingKeeps ==
    ASSUME LifecycleInv, NEW c \in Caller, NEW a \in Agent,
           NEW rest \in SUBSET Agent, Lifecycle!Terminating(c, a, rest)
    PROVE  LifecycleInv'
  <1>1. CASE Lifecycle!Present(a) /\ Lifecycle!Receiving
    <2>1. PICK d : d = [at |-> "sleep", agent |-> a, todo |-> rest]
      OBVIOUS
    <2>2. d \in DoingRecord /\ d.at # "insert"
      BY <2>1 DEF DoingRecord
    <2>3. sent' \in Seq(EventRecord)
      <3>1. agents[a].state \in Reached
        BY <1>1, AgentIsPresent DEF LifecycleInv
      <3>2. Lifecycle!Event(a, agents[a].state, "Terminating") \in EventRecord
        BY <3>1 DEF Lifecycle!Event, EventRecord, Reached
      <3>3. QED
        BY <1>1, <3>2, EventIsSent DEF Lifecycle!Terminating
    <2>4. doing' = [doing EXCEPT ![c] = d]
      BY <1>1, <2>1 DEF Lifecycle!Terminating
    <2>5. QED
      BY <2>2, <2>3, <2>4, CallGoesOn DEF Lifecycle!Terminating,
         LifecycleInv, LifecycleTypes
  <1>2. CASE ~(Lifecycle!Present(a) /\ Lifecycle!Receiving)
    <2>1. PICK d : d = IF rest = {} THEN Lifecycle!Idle
                       ELSE [at |-> "shutdown", todo |-> rest]
      OBVIOUS
    <2>2. d \in DoingRecord /\ d.at # "insert"
      BY <2>1 DEF DoingRecord, Lifecycle!Idle
    <2>3. doing' = [doing EXCEPT ![c] = d] /\ UNCHANGED sent
      BY <1>2, <2>1 DEF Lifecycle!Terminating
    <2>4. QED
      BY <2>2, <2>3, CallGoesOn DEF Lifecycle!Terminating, LifecycleInv,
         LifecycleTypes
  <1>3. QED
    BY <1>1, <1>2

LEMMA RemoveKeeps ==
    ASSUME LifecycleInv, NEW c \in Caller, Lifecycle!Remove(c)
    PROVE  LifecycleInv'
  <1>1. PICK a, todo : a = doing[c].agent /\ todo = doing[c].todo
    OBVIOUS
  <1>2. a \in Agent /\ todo \in SUBSET Agent
    BY <1>1 DEF Lifecycle!Remove, LifecycleInv, LifecycleTypes, DoingRecord
  <1>3. PICK d : d = IF todo = {} THEN Lifecycle!Idle
                     ELSE [at |-> "shutdown", todo |-> todo]
    OBVIOUS
  <1>4. d \in DoingRecord /\ d.at # "insert"
    BY <1>2, <1>3 DEF DoingRecord, Lifecycle!Idle
  <1>5. doing' = [doing EXCEPT ![c] = d]
    BY <1>1, <1>3 DEF Lifecycle!Remove, LifecycleInv, LifecycleTypes
  <1>6. doing' \in [Caller -> DoingRecord] /\ Inserting' \subseteq Inserting
    BY <1>4, <1>5 DEF LifecycleInv, LifecycleTypes, Inserting,
       Lifecycle!Inserting
  <1>7. sent' \in Seq(EventRecord)
    <2>1. Lifecycle!Event(a, "Terminating", "Terminated") \in EventRecord
      BY <1>2 DEF Lifecycle!Event, EventRecord, Reached
    <2>2. QED
      BY <1>1, <2>1, EventIsSent DEF Lifecycle!Remove
  <1>8. /\ agents' \in [Agent -> AgentRecord(births)]
        /\ Lifecycle!Table' \subseteq Lifecycle!Table
        /\ \A b \in Agent : agents'[b].restarts \in {0, agents[b].restarts}
    <2>1. /\ Lifecycle!NoAgent \in AgentRecord(births)
          /\ Lifecycle!NoAgent.restarts = 0
      BY DEF AgentRecord, Lifecycle!NoAgent
    <2>2. \/ agents' = agents
          \/ agents' = [agents EXCEPT ![a] = Lifecycle!NoAgent]
      BY <1>1 DEF Lifecycle!Remove
    <2>3. QED
      BY <1>2, <2>1, <2>2 DEF LifecycleInv, LifecycleTypes, Lifecycle!Table,
         Lifecycle!Present
  <1>9. LifecycleTypes'
    BY <1>6, <1>7, <1>8 DEF Lifecycle!Remove, LifecycleInv, LifecycleTypes
  <1>10. RestartIsLeft'
    <2> SUFFICES ASSUME NEW b \in watch'.restart
                 PROVE  agents'[b].restarts < MaxRestarts
      BY DEF RestartIsLeft
    <2>1. b \in Agent /\ agents[b].restarts < MaxRestarts
      BY DEF Lifecycle!Remove, LifecycleInv, LifecycleTypes, RestartIsLeft
    <2>2. agents[b].restarts \in Nat
      BY <2>1 DEF LifecycleInv, LifecycleTypes, AgentRecord,
         Lifecycle!NoAgent
    <2>3. QED
      BY <1>8, <2>1, <2>2, ServicesAssumption
  <1>11. PlacesInv'
    BY <1>6, <1>8, PlacesStay DEF Lifecycle!Remove, LifecycleInv, LifecycleTypes
  <1>12. QED
    BY <1>9, <1>10, <1>11 DEF LifecycleInv

LEMMA LifecycleCallKeeps ==
    ASSUME LifecycleInv, NEW c \in Caller, Lifecycle!CallStep(c)
    PROVE  LifecycleInv'
  <1>1. ASSUME NEW a \in Agent, Lifecycle!Terminate(c, a)
        PROVE  LifecycleInv'
    BY <1>1, TerminatingKeeps DEF Lifecycle!Terminate
  <1>2. CASE Lifecycle!Shutdown(c)
    <2>1. PICK d : d = [at |-> "list", todo |-> {}]
      OBVIOUS
    <2>2. d \in DoingRecord /\ d.at # "insert"
      BY <2>1 DEF DoingRecord
    <2>3. doing' = [doing EXCEPT ![c] = d]
      BY <1>2, <2>1 DEF Lifecycle!Shutdown, Lifecycle!Begin
    <2>4. QED
      BY <1>2, <2>2, <2>3, CallGoesOn DEF Lifecycle!Shutdown, LifecycleInv,
         LifecycleTypes
  <1>3. CASE Lifecycle!List(c)
    <2>1. PICK d : d = IF Lifecycle!Table = {} THEN Lifecycle!Idle
                       ELSE [at |-> "shutdown", todo |-> Lifecycle!Table]
      OBVIOUS
    <2>2. d \in DoingRecord /\ d.at # "insert"
      BY <2>1 DEF DoingRecord, Lifecycle!Idle, Lifecycle!Table
    <2>3. doing' = [doing EXCEPT ![c] = d]
      BY <1>3, <2>1 DEF Lifecycle!List
    <2>4. QED
      BY <1>3, <2>2, <2>3, CallGoesOn DEF Lifecycle!List, LifecycleInv,
         LifecycleTypes
  <1>4. doing[c].todo \in SUBSET Agent
    BY DEF LifecycleInv, LifecycleTypes, DoingRecord
  <1>5. ASSUME NEW a \in doing[c].todo, Lifecycle!TerminateNext(c, a)
        PROVE  LifecycleInv'
    <2>1. a \in Agent /\ doing[c].todo \ {a} \in SUBSET Agent
      BY <1>4
    <2>2. QED
      BY <1>5, <2>1, TerminatingKeeps DEF Lifecycle!TerminateNext
  <1>6. CASE Lifecycle!Proceed(c)
    BY <1>3, <1>4, <1>5, <1>6, RemoveKeeps, InsertKeeps
       DEF Lifecycle!Proceed
  <1>7. QED
    BY <1>1, <1>2, <1>6, InitializeKeeps, ChangeKeeps
       DEF Lifecycle!CallStep

LEMMA LifecycleStep ==
    ASSUME LifecycleInv, [Lifecycle!Next]_lifecycle PROVE LifecycleInv'
  <1>1. CASE UNCHANGED lifecycle
    BY <1>1, TableStays DEF lifecycle, LifecycleInv, LifecycleTypes,
       Lifecycle!Table, Lifecycle!Present
  <1>2. CASE Lifecycle!Next
    BY <1>2, TimePassesKeeps, EventLoopKeeps, MonitorKeeps,
       LifecycleCallKeeps DEF Lifecycle!Next
  <1>3. QED
    BY <1>1, <1>2

LEMMA LifecycleInvIsEnough == LifecycleInv => TableIsLimited
  <1> SUFFICES ASSUME LifecycleInv PROVE TableIsLimited
    OBVIOUS
  <1>1. Lifecycle!TypeOK
    <2>1. ASSUME NEW a \in Agent
          PROVE  \/ agents[a] = Lifecycle!NoAgent
                 \/ /\ agents[a].state \in Lifecycle!State
                    /\ agents[a].restarts \in Nat
                    /\ agents[a].stuck \in BOOLEAN
                    /\ agents[a].birth \in 1 .. births
      BY DEF LifecycleInv, LifecycleTypes, AgentRecord, Reached,
         Lifecycle!State
    <2>2. ASSUME NEW i \in 1 .. Len(sent)
          PROVE  /\ sent[i].agent \in Agent
                 /\ sent[i].from \in Lifecycle!State
                 /\ sent[i].to \in Lifecycle!State
      <3>1. sent[i] \in EventRecord
        BY ElementOfSeq DEF LifecycleInv, LifecycleTypes
      <3>2. QED
        BY <3>1 DEF EventRecord, Reached, Lifecycle!State
    <2>3. ASSUME NEW c \in Caller
          PROVE  /\ doing[c].at \in {"idle", "insert", "sleep", "list",
                                     "shutdown"}
                 /\ doing[c].todo \subseteq Agent
      BY DEF LifecycleInv, LifecycleTypes, DoingRecord
    <2>4. QED
      BY <2>1, <2>2, <2>3 DEF LifecycleInv, LifecycleTypes,
         Lifecycle!TypeOK
  <1>2. Lifecycle!RestartsAreLimited
    BY ServicesAssumption DEF LifecycleInv, LifecycleTypes, AgentRecord,
       Lifecycle!NoAgent, Lifecycle!RestartsAreLimited
  <1>3. Lifecycle!PlacesAreLimited
    BY PlacesAreFinite, LifecycleCardinality, ServicesAssumption
       DEF LifecycleInv, LifecycleTypes, PlacesInv,
       Lifecycle!PlacesAreLimited
  <1>4. QED
    BY <1>1, <1>2, <1>3 DEF TableIsLimited, Lifecycle!TableIsLimited

\* However calls, events and the two loops interleave: no agent is restarted
\* more often than configured, and max_agents is passed only by callers that
\* counted the places while another was about to take one, by one agent for
\* each of them (lifecycle/mod.rs:302, 365).
THEOREM TableKeepsItsLimits == ServicesSpec => []TableIsLimited
  <1> DEFINE state == <<service, vars, resources, lifecycle, errors, tool,
                        execution>>
  <1>1. ServicesInit => LifecycleInv
    BY LifecycleInit DEF ServicesInit
  <1>2. LifecycleInv /\ [ServicesNext]_state => LifecycleInv'
    <2> SUFFICES ASSUME LifecycleInv, [ServicesNext]_state
                 PROVE  LifecycleInv'
      OBVIOUS
    <2>1. [Lifecycle!Next]_lifecycle
      BY DEF ServicesNext
    <2>2. QED
      BY <2>1, LifecycleStep
  <1>3. ServicesSpec => ServicesInit /\ [][ServicesNext]_state
    BY DEF ServicesSpec
  <1>4. QED
    BY <1>1, <1>2, <1>3, LifecycleInvIsEnough, PTL

HIDE DEF Lifecycle!history

-----------------------------------------------------------------------------
(* The error handler, for any agents, types of error and limits.             *)

HandlingType == [at : {"wait", "judge", "recover", "stopped"},
                 event : SUBSET Errors!Event]

AskType == [op : {"none", "handle", "clear"}, event : SUBSET Errors!Event]

ErrorTypes ==
    /\ handles \in BOOLEAN
    /\ reports \in Seq(Errors!Event) /\ Len(reports) <= MaxQueue
    /\ handling \in HandlingType
    /\ cleaning \in {"wait", "breakers", "stopped"}
    /\ records \in [Culprit -> 0 .. MaxHistory + 1]
    /\ breaker \in [Culprit -> Errors!Breaker]
    /\ recovers \in [Kind -> BOOLEAN]
    /\ asks \in [Reporter -> AskType]

\* A breaker with enough failures, and only such a one, is open or half open.
Counted(b) ==
    LET tripped == b.state \in {"Open", "HalfOpen"}
    IN  /\ tripped => b.failures = Threshold
        /\ b.failures = Threshold /\ Threshold > 0 => tripped

ErrorInv == ErrorTypes /\ \A a \in Culprit : Counted(breaker[a])

-----------------------------------------------------------------------------
\* What the steps make of one breaker.
LEMMA NoBreakerIsCounted ==
    Errors!NoBreaker \in Errors!Breaker /\ Counted(Errors!NoBreaker)
  BY ServicesAssumption DEF Errors!NoBreaker, Errors!Breaker, Counted

LEMMA FailedIsCounted ==
    ASSUME NEW b \in Errors!Breaker, Counted(b), b.state # "Open"
    PROVE  Errors!Failed(b) \in Errors!Breaker /\ Counted(Errors!Failed(b))
  <1>1. b.failures \in 0 .. Threshold
    BY DEF Errors!Breaker
  <1>2. PICK n : n = Errors!Upto(b.failures + 1, Threshold)
    OBVIOUS
  <1>3. /\ n \in 0 .. Threshold
        /\ n < Threshold => n = b.failures + 1
    BY <1>1, <1>2, ServicesAssumption DEF Errors!Upto
  <1>4. CASE n >= Threshold
    <2>1. Errors!Failed(b) = [state |-> "Open", failures |-> n, age |-> "new"]
      BY <1>2, <1>4 DEF Errors!Failed
    <2>2. QED
      BY <1>3, <1>4, <2>1, ServicesAssumption DEF Errors!Breaker, Counted
  <1>5. CASE ~(n >= Threshold)
    <2>1. n < Threshold /\ b.failures # Threshold
      BY <1>1, <1>3, <1>5, ServicesAssumption
    <2>2. b.state \in {"absent", "Closed"}
      BY <2>1 DEF Errors!Breaker, Counted
    <2>3. Errors!Failed(b) = [state |-> "Closed", failures |-> n,
                              age |-> "new"]
      BY <1>2, <1>5, <2>2 DEF Errors!Failed
    <2>4. QED
      BY <1>3, <2>1, <2>3, ServicesAssumption DEF Errors!Breaker, Counted
  <1>6. QED
    BY <1>4, <1>5

LEMMA UpdatedIsCounted ==
    ASSUME NEW b \in Errors!Breaker, Counted(b)
    PROVE  Errors!Updated(b) \in Errors!Breaker /\ Counted(Errors!Updated(b))
  BY DEF Errors!Updated, Errors!Breaker, Counted

LEMMA RecoveredIsCounted ==
    ASSUME NEW b \in Errors!Breaker
    PROVE  LET r == [b EXCEPT !.state = "Closed", !.failures = 0]
           IN  r \in Errors!Breaker /\ Counted(r)
  <1> PICK r : r = [b EXCEPT !.state = "Closed", !.failures = 0]
    OBVIOUS
  <1>1. 0 \in 0 .. Threshold
    BY ServicesAssumption
  <1>2. r \in Errors!Breaker /\ r.state = "Closed" /\ r.failures = 0
    BY <1>1 DEF Errors!Breaker
  <1>3. QED
    BY <1>2, ServicesAssumption DEF Counted

LEMMA AgedIsCounted ==
    ASSUME NEW b \in Errors!Breaker, Counted(b),
           NEW age \in {"new", "timeout", "window"}
    PROVE  LET r == [b EXCEPT !.age = age]
           IN  r \in Errors!Breaker /\ Counted(r)
  BY DEF Errors!Breaker, Counted

\* One breaker changes.
LEMMA BreakerMoves ==
    ASSUME ErrorInv, NEW a \in Culprit, NEW b \in Errors!Breaker, Counted(b),
           breaker' = [breaker EXCEPT ![a] = b]
    PROVE  /\ breaker' \in [Culprit -> Errors!Breaker]
           /\ \A c \in Culprit : Counted(breaker'[c])
  BY DEF ErrorInv, ErrorTypes

LEMMA BreakersStay ==
    ASSUME ErrorInv, UNCHANGED breaker
    PROVE  /\ breaker' \in [Culprit -> Errors!Breaker]
           /\ \A c \in Culprit : Counted(breaker'[c])
  BY DEF ErrorInv, ErrorTypes

-----------------------------------------------------------------------------
LEMMA ErrorInit == Errors!Init => ErrorInv
  <1> SUFFICES ASSUME Errors!Init PROVE ErrorInv
    OBVIOUS
  <1>1. /\ breaker \in [Culprit -> Errors!Breaker]
        /\ \A a \in Culprit : Counted(breaker[a])
    BY NoBreakerIsCounted DEF Errors!Init
  <1>2. reports \in Seq(Errors!Event) /\ Len(reports) <= MaxQueue
    <2>1. <<>> \in Seq(Errors!Event) /\ Len(<<>>) = 0
      OBVIOUS
    <2>2. QED
      BY <2>1, ServicesAssumption DEF Errors!Init
  <1>3. records \in [Culprit -> 0 .. MaxHistory + 1]
    BY ServicesAssumption DEF Errors!Init
  <1>4. handling \in HandlingType /\ asks \in [Reporter -> AskType]
    BY DEF Errors!Init, HandlingType, AskType
  <1>5. /\ handles \in BOOLEAN /\ recovers \in [Kind -> BOOLEAN]
        /\ cleaning \in {"wait", "breakers", "stopped"}
    BY DEF Errors!Init
  <1>6. QED
    BY <1>1, <1>2, <1>3, <1>4, <1>5 DEF ErrorInv, ErrorTypes

LEMMA AskMoves ==
    ASSUME ErrorInv, NEW c \in Reporter, NEW op \in {"none", "handle", "clear"},
           NEW set \in SUBSET Errors!Event, Errors!Asks(c, op, set)
    PROVE  asks' \in [Reporter -> AskType]
  BY DEF Errors!Asks, ErrorInv, ErrorTypes, AskType

LEMMA ReporterKeeps ==
    ASSUME ErrorInv, NEW c \in Reporter,
           \/ \E e \in Errors!Event : Errors!HandleError(c, e)
           \/ \E k \in Kind : Errors!RegisterStrategy(c, k)
           \/ \E a \in Culprit : Errors!Clear(c, a)
           \/ Errors!SendEvent(c) \/ Errors!ClearBreaker(c)
    PROVE  ErrorInv'
  <1>1. ASSUME NEW e \in Errors!Event, Errors!HandleError(c, e)
        PROVE  ErrorInv'
    BY <1>1, AskMoves, BreakersStay
       DEF Errors!HandleError, ErrorInv, ErrorTypes
  <1>2. ASSUME NEW k \in Kind, Errors!RegisterStrategy(c, k)
        PROVE  ErrorInv'
    <2>1. recovers' \in [Kind -> BOOLEAN]
      BY <1>2 DEF Errors!RegisterStrategy, ErrorInv, ErrorTypes
    <2>2. QED
      BY <1>2, <2>1, BreakersStay
         DEF Errors!RegisterStrategy, ErrorInv, ErrorTypes
  <1>3. ASSUME NEW a \in Culprit, Errors!Clear(c, a)
        PROVE  ErrorInv'
    <2>1. PICK k \in Kind :
            Errors!Asks(c, "clear", {[agent |-> a, kind |-> k]})
      BY <1>3 DEF Errors!Clear
    <2>2. {[agent |-> a, kind |-> k]} \in SUBSET Errors!Event
      BY DEF Errors!Event
    <2>3. asks' \in [Reporter -> AskType]
      BY <2>1, <2>2, AskMoves
    <2>4. records' \in [Culprit -> 0 .. MaxHistory + 1]
      BY <1>3, ServicesAssumption DEF Errors!Clear, ErrorInv, ErrorTypes
    <2>5. QED
      BY <1>3, <2>3, <2>4, BreakersStay DEF Errors!Clear, ErrorInv, ErrorTypes
  <1>4. CASE Errors!SendEvent(c)
    <2>1. asks' \in [Reporter -> AskType]
      BY <1>4, AskMoves DEF Errors!SendEvent
    <2>2. reports' \in Seq(Errors!Event) /\ Len(reports') <= MaxQueue
      <3>1. CASE UNCHANGED reports
        BY <3>1 DEF ErrorInv, ErrorTypes
      <3>2. CASE ~UNCHANGED reports
        <4>1. PICK e \in asks[c].event : reports' = Append(reports, e)
          BY <1>4, <3>2 DEF Errors!SendEvent
        <4>2. e \in Errors!Event /\ reports \in Seq(Errors!Event)
          BY DEF ErrorInv, ErrorTypes, AskType
        <4>3. /\ Len(reports) \in Nat /\ Len(reports') = Len(reports) + 1
              /\ reports' \in Seq(Errors!Event)
          BY <4>1, <4>2, AppendProperties, LenProperties
        <4>4. Len(reports) < MaxQueue
          BY <1>4 DEF Errors!SendEvent
        <4>5. QED
          BY <4>3, <4>4, ServicesAssumption
      <3>3. QED  BY <3>1, <3>2
    <2>3. QED
      BY <1>4, <2>1, <2>2, BreakersStay
         DEF Errors!SendEvent, ErrorInv, ErrorTypes
  <1>5. CASE Errors!ClearBreaker(c)
    <2>1. asks' \in [Reporter -> AskType]
      BY <1>5, AskMoves DEF Errors!ClearBreaker
    <2>2. PICK e \in asks[c].event :
            breaker' = [breaker EXCEPT ![e.agent] = Errors!NoBreaker]
      BY <1>5 DEF Errors!ClearBreaker
    <2>3. e.agent \in Culprit
      BY DEF ErrorInv, ErrorTypes, AskType, Errors!Event
    <2>4. /\ breaker' \in [Culprit -> Errors!Breaker]
          /\ \A a \in Culprit : Counted(breaker'[a])
      BY <2>2, <2>3, NoBreakerIsCounted, BreakerMoves
    <2>5. QED
      BY <1>5, <2>1, <2>4 DEF Errors!ClearBreaker, ErrorInv, ErrorTypes
  <1>6. QED
    BY <1>1, <1>2, <1>3, <1>4, <1>5

LEMMA ErrorShutdownKeeps ==
    ASSUME ErrorInv, Errors!Shutdown PROVE ErrorInv'
  <1>1. handling' \in HandlingType
    BY DEF Errors!Shutdown, ErrorInv, ErrorTypes, HandlingType
  <1>2. QED
    BY <1>1, BreakersStay DEF Errors!Shutdown, ErrorInv, ErrorTypes

LEMMA ErrorLoopKeeps ==
    ASSUME ErrorInv, Errors!EventLoop PROVE ErrorInv'
  <1>1. CASE Errors!Record
    <2> PICK e : e = Head(reports)
      OBVIOUS
    <2>1. /\ e \in Errors!Event /\ Tail(reports) \in Seq(Errors!Event)
          /\ Len(Tail(reports)) = Len(reports) - 1 /\ Len(reports) \in Nat
      BY <1>1, HeadTailProperties, LenProperties
         DEF Errors!Record, ErrorInv, ErrorTypes
    <2>2. reports' \in Seq(Errors!Event) /\ Len(reports') <= MaxQueue
      BY <1>1, <2>1, ServicesAssumption
         DEF Errors!Record, ErrorInv, ErrorTypes
    <2>3. /\ records' = [records EXCEPT ![e.agent] =
                           Errors!Upto(@ + 1, MaxHistory + 1)]
          /\ handling' = [at |-> "judge", event |-> {e}]
      BY <1>1 DEF Errors!Record
    <2>4. records' \in [Culprit -> 0 .. MaxHistory + 1]
      <3>1. e.agent \in Culprit
        BY <2>1 DEF Errors!Event
      <3>2. records[e.agent] \in 0 .. MaxHistory + 1
        BY <3>1 DEF ErrorInv, ErrorTypes
      <3>3. Errors!Upto(records[e.agent] + 1, MaxHistory + 1)
              \in 0 .. MaxHistory + 1
        BY <3>2, ServicesAssumption DEF Errors!Upto
      <3>4. QED
        BY <2>3, <3>1, <3>3 DEF ErrorInv, ErrorTypes
    <2>5. handling' \in HandlingType
      BY <2>1, <2>3 DEF HandlingType
    <2>6. QED
      BY <1>1, <2>2, <2>4, <2>5, BreakersStay
         DEF Errors!Record, ErrorInv, ErrorTypes
  <1>2. ASSUME NEW e \in handling.event
        PROVE  e.agent \in Culprit /\ breaker[e.agent] \in Errors!Breaker
               /\ Counted(breaker[e.agent])
    BY DEF ErrorInv, ErrorTypes, HandlingType, Errors!Event
  <1>3. CASE Errors!Judge
    <2>1. handling' \in HandlingType
      <3>1. \/ handling' = [at |-> "wait", event |-> {}]
            \/ handling' = [handling EXCEPT !.at = "recover"]
        BY <1>3 DEF Errors!Judge
      <3>2. QED
        BY <3>1 DEF ErrorInv, ErrorTypes, HandlingType
    <2>2. PICK e \in handling.event :
            breaker' = [breaker EXCEPT ![e.agent] =
                          IF breaker[e.agent].state = "Open"
                          THEN Errors!Blocked(breaker[e.agent])
                          ELSE Errors!Failed(breaker[e.agent])]
      BY <1>3 DEF Errors!Judge
    <2>3. PICK b : b = IF breaker[e.agent].state = "Open"
                       THEN Errors!Blocked(breaker[e.agent])
                       ELSE Errors!Failed(breaker[e.agent])
      OBVIOUS
    <2>4. b \in Errors!Breaker /\ Counted(b)
      BY <1>2, <2>3, FailedIsCounted DEF Errors!Blocked
    <2>5. /\ breaker' \in [Culprit -> Errors!Breaker]
          /\ \A a \in Culprit : Counted(breaker'[a])
      BY <1>2, <2>2, <2>3, <2>4, BreakerMoves
    <2>6. QED
      BY <1>3, <2>1, <2>5 DEF Errors!Judge, ErrorInv, ErrorTypes
  <1>4. CASE Errors!Recover
    <2>1. handling' \in HandlingType
      BY <1>4 DEF Errors!Recover, HandlingType
    <2>2. /\ breaker' \in [Culprit -> Errors!Breaker]
          /\ \A a \in Culprit : Counted(breaker'[a])
      <3>1. CASE UNCHANGED breaker
        BY <3>1, BreakersStay
      <3>2. CASE ~UNCHANGED breaker
        <4>1. PICK e \in handling.event :
                breaker' = [breaker EXCEPT ![e.agent].state = "Closed",
                                           ![e.agent].failures = 0]
          BY <1>4, <3>2 DEF Errors!Recover
        <4>2. PICK r : r = [breaker[e.agent] EXCEPT !.state = "Closed",
                                                    !.failures = 0]
          OBVIOUS
        <4>3. r \in Errors!Breaker /\ Counted(r)
          BY <1>2, <4>2, RecoveredIsCounted
        <4>4. breaker' = [breaker EXCEPT ![e.agent] = r]
          BY <1>2, <4>1, <4>2 DEF ErrorInv, ErrorTypes
        <4>5. QED
          BY <1>2, <4>3, <4>4, BreakerMoves
      <3>3. QED  BY <3>1, <3>2
    <2>3. QED
      BY <1>4, <2>1, <2>2 DEF Errors!Recover, ErrorInv, ErrorTypes
  <1>5. QED
    BY <1>1, <1>3, <1>4 DEF Errors!EventLoop

LEMMA CleanupKeeps ==
    ASSUME ErrorInv, Errors!CleanupLoop PROVE ErrorInv'
  <1>1. CASE Errors!CleanRecords
    <2>1. 0 .. MaxHistory \subseteq 0 .. MaxHistory + 1
      BY ServicesAssumption
    <2>2. records' \in [Culprit -> 0 .. MaxHistory + 1]
      BY <1>1, <2>1 DEF Errors!CleanRecords
    <2>3. QED
      BY <1>1, <2>2, BreakersStay
         DEF Errors!CleanRecords, ErrorInv, ErrorTypes
  <1>2. CASE Errors!CleanBreakers
    <2>1. ASSUME NEW a \in Culprit
          PROVE  LET b == IF Errors!Retained(Errors!Updated(breaker[a]))
                          THEN Errors!Updated(breaker[a])
                          ELSE Errors!NoBreaker
                 IN  b \in Errors!Breaker /\ Counted(b)
      BY UpdatedIsCounted, NoBreakerIsCounted DEF ErrorInv, ErrorTypes
    <2>2. /\ breaker' \in [Culprit -> Errors!Breaker]
          /\ \A a \in Culprit : Counted(breaker'[a])
      BY <1>2, <2>1 DEF Errors!CleanBreakers
    <2>3. QED
      BY <1>2, <2>2 DEF Errors!CleanBreakers, ErrorInv, ErrorTypes
  <1>3. CASE Errors!StopCleaning
    BY <1>3, BreakersStay DEF Errors!StopCleaning, ErrorInv, ErrorTypes
  <1>4. QED
    BY <1>1, <1>2, <1>3 DEF Errors!CleanupLoop

LEMMA ErrorStep ==
    ASSUME ErrorInv, [Errors!Next]_errors PROVE ErrorInv'
  <1>1. CASE UNCHANGED errors
    BY <1>1, BreakersStay DEF errors, ErrorInv, ErrorTypes
  <1>2. ASSUME NEW a \in Culprit, Errors!Age(a) PROVE ErrorInv'
    <2>1. PICK age \in {"new", "timeout", "window"} :
            age = IF breaker[a].age = "new" THEN "timeout" ELSE "window"
      OBVIOUS
    <2>2. PICK b : b = [breaker[a] EXCEPT !.age = age]
      OBVIOUS
    <2>3. b \in Errors!Breaker /\ Counted(b)
      BY <2>2, AgedIsCounted DEF ErrorInv, ErrorTypes
    <2>4. breaker' = [breaker EXCEPT ![a] = b]
      BY <1>2, <2>1, <2>2 DEF Errors!Age, ErrorInv, ErrorTypes
    <2>5. QED
      BY <1>2, <2>3, <2>4, BreakerMoves DEF Errors!Age, ErrorInv, ErrorTypes
  <1>3. QED
    BY <1>1, <1>2, ReporterKeeps, ErrorShutdownKeeps, ErrorLoopKeeps,
       CleanupKeeps DEF Errors!Next

\* However events, clearings, clean-ups and the passing of time interleave: a
\* breaker is open or half open exactly when the failures since the last
\* success have reached the threshold (error_handler/mod.rs:697).
THEOREM TrippedBreakersAreCounted == ServicesSpec => []FailuresAreCounted
  <1> DEFINE state == <<service, vars, resources, lifecycle, errors, tool,
                        execution>>
  <1>1. ServicesInit => ErrorInv
    BY ErrorInit DEF ServicesInit
  <1>2. ErrorInv /\ [ServicesNext]_state => ErrorInv'
    <2> SUFFICES ASSUME ErrorInv, [ServicesNext]_state
                 PROVE  ErrorInv'
      OBVIOUS
    <2>1. [Errors!Next]_errors
      BY DEF ServicesNext
    <2>2. QED
      BY <2>1, ErrorStep
  <1>3. ErrorInv => FailuresAreCounted
    BY DEF ErrorInv, ErrorTypes, HandlingType, AskType, Counted,
       FailuresAreCounted, Errors!FailuresAreCounted, Errors!TypeOK
  <1>4. ServicesSpec => ServicesInit /\ [][ServicesNext]_state
    BY DEF ServicesSpec
  <1>5. QED
    BY <1>1, <1>2, <1>3, <1>4, PTL

-----------------------------------------------------------------------------
(* The sessions of interactive tools, for any callers and limits.            *)

Single(S) == \A x, y \in S : x = y

\* The entries of the transcript.
Line == [kind : {"system", "command", "response"},
         commands : Seq(Tool!Numbers)]

ToolTypes ==
    /\ status \in {"none", "spawning", "ready"}
    /\ count \in Nat /\ record \in Seq(Line)
    /\ input \in Seq(Tool!Numbers) /\ output \in Seq(Tool!Numbers)
    /\ alive \in BOOLEAN /\ poisoned \in BOOLEAN /\ missed \in BOOLEAN
    /\ holder \in SUBSET User
    /\ at \in [User -> {"idle", "ensure", "starting", "send", "reading"}]
    /\ issued \in Tool!Numbers /\ cleanups \in 0 .. MaxCleanups

\* A call waits exactly while it has the mutex, which is poisoned by a panic in
\* such a wait.
MutexInv ==
    /\ \A u \in User :
         at[u] \in {"starting", "reading"} <=> (u \in holder)
    /\ Single(holder)
    /\ poisoned => missed /\ holder = {}
    /\ holder # {} => status # "none"

Busy == {u \in User : at[u] # "idle"}

\* Each call under way may still add an interaction.
CountInv ==
    /\ status = "none" => count = 0
    /\ count = Cardinality(Tool!Responses)
    /\ count + Cardinality(Busy) <= Tool!Limit + Cardinality(User) - 1

\* Nothing but the answer to command k is under way, or the tool has ended.
Awaited(k) ==
    \/ output = <<>> /\ (input = <<>> \/ input = <<k>>)
    \/ output = <<k>> /\ input = <<>>

\* Every answer in the transcript has its command before it.
OwnInv == \A i \in DOMAIN record : record[i].kind = "response" =>
    /\ i - 1 \in DOMAIN record
    /\ record[i - 1] = Tool!Entry("command", record[i].commands)

\* While no wait has failed, the terminal is empty between the calls, and in a
\* call it holds what the call waits for.
TerminalInv ==
    /\ holder = {} => input = <<>> /\ output = <<>>
    /\ \A u \in holder :
         /\ at[u] = "starting" => Awaited(0)
         /\ at[u] = "reading" =>
              /\ Awaited(issued) /\ Len(record) \in DOMAIN record
              /\ record[Len(record)] = Tool!Entry("command", <<issued>>)

ToolInv ==
    /\ ToolTypes /\ MutexInv /\ CountInv
    /\ ~missed => OwnInv /\ TerminalInv

-----------------------------------------------------------------------------
\* What the provers need to know of sequences.
LEMMA SequenceFacts ==
    ASSUME NEW S, NEW s \in Seq(S)
    PROVE  /\ Len(s) \in Nat /\ DOMAIN s = 1 .. Len(s)
           /\ s = <<>> <=> Len(s) = 0
           /\ \A i \in DOMAIN s : s[i] \in S
           /\ \A e \in S :
                /\ Append(s, e) \in Seq(S)
                /\ Len(Append(s, e)) = Len(s) + 1
                /\ DOMAIN Append(s, e) = 1 .. Len(s) + 1
                /\ Append(s, e)[Len(s) + 1] = e
                /\ \A i \in 1 .. Len(s) : Append(s, e)[i] = s[i]
                /\ <<e>> \in Seq(S)
  OBVIOUS

LEMMA ToolCardinality ==
    ASSUME NEW S PROVE Tool!Cardinality(S) = Cardinality(S)
  BY DEF Tool!Cardinality, Cardinality

\* The steps that leave the transcript or begin a new one.
LEMMA RecordKept ==
    ASSUME ToolInv, record' = record, count' = count
    PROVE  /\ count' = Cardinality(Tool!Responses')
           /\ OwnInv => OwnInv'
  BY DEF ToolInv, CountInv, Tool!Responses, OwnInv

LEMMA RecordBegun ==
    ASSUME record' = <<>>, count' = 0
    PROVE  count' = Cardinality(Tool!Responses') /\ OwnInv'
  <1>1. DOMAIN record' = {}
    OBVIOUS
  <1>2. Tool!Responses' = {}
    BY <1>1 DEF Tool!Responses
  <1>3. QED
    BY <1>1, <1>2, FS_EmptySet DEF OwnInv

\* A line behind the transcript; if it is an answer, it is counted.
LEMMA RecordGrows ==
    ASSUME ToolInv, NEW e \in Line, record' = Append(record, e),
           count' = IF e.kind = "response" THEN count + 1 ELSE count
    PROVE  /\ record' \in Seq(Line) /\ Len(record') \in DOMAIN record'
           /\ record'[Len(record')] = e
           /\ count' \in Nat /\ count' = Cardinality(Tool!Responses')
           /\ OwnInv /\ (e.kind = "response" =>
                           /\ Len(record) \in DOMAIN record
                           /\ record[Len(record)] =
                                Tool!Entry("command", e.commands))
              => OwnInv'
  <1> DEFINE n == Len(record)
  <1>1. /\ record \in Seq(Line) /\ n \in Nat /\ DOMAIN record = 1 .. n
        /\ count \in Nat
    BY SequenceFacts DEF ToolInv, ToolTypes
  <1>2. /\ record' \in Seq(Line) /\ Len(record') = n + 1
        /\ DOMAIN record' = 1 .. n + 1 /\ record'[n + 1] = e
        /\ \A i \in 1 .. n : record'[i] = record[i]
    BY <1>1, SequenceFacts
  <1> HIDE DEF n
  <1>3. n + 1 \in 1 .. n + 1 /\ (1 .. n + 1) = (1 .. n) \cup {n + 1}
        /\ n + 1 \notin 1 .. n
    BY <1>1
  <1>4. count' \in Nat
    BY <1>1
  <1>5. Tool!Responses' = IF e.kind = "response"
                          THEN Tool!Responses \cup {n + 1}
                          ELSE Tool!Responses
    BY <1>1, <1>2, <1>3 DEF Tool!Responses
  <1>6. /\ IsFiniteSet(Tool!Responses) /\ n + 1 \notin Tool!Responses
    <2>1. IsFiniteSet(1 .. n)
      BY <1>1, FS_Interval
    <2>2. Tool!Responses \subseteq 1 .. n
      BY <1>1 DEF Tool!Responses
    <2>3. QED
      BY <1>3, <2>1, <2>2, FS_Subset
  <1>7. count' = Cardinality(Tool!Responses')
    <2>1. count = Cardinality(Tool!Responses)
      BY DEF ToolInv, CountInv
    <2>2. Cardinality(Tool!Responses \cup {n + 1}) =
              Cardinality(Tool!Responses) + 1
      BY <1>6, FS_AddElement
    <2>3. QED
      BY <1>5, <2>1, <2>2
  <1>8. ASSUME OwnInv,
               e.kind = "response" =>
                   /\ n \in DOMAIN record
                   /\ record[n] = Tool!Entry("command", e.commands)
        PROVE  OwnInv'
    <2> SUFFICES ASSUME NEW i \in DOMAIN record',
                        record'[i].kind = "response"
                 PROVE  /\ i - 1 \in DOMAIN record'
                        /\ record'[i - 1] =
                             Tool!Entry("command", record'[i].commands)
      BY DEF OwnInv
    <2>1. CASE i \in 1 .. n
      <3>1. record[i].kind = "response" /\ record'[i] = record[i]
        BY <1>2, <2>1
      <3>2. i - 1 \in 1 .. n
            /\ record[i - 1] = Tool!Entry("command", record[i].commands)
        BY <1>1, <1>8, <2>1, <3>1 DEF OwnInv
      <3>3. QED
        BY <1>2, <1>3, <3>1, <3>2
    <2>2. CASE i = n + 1
      <3>1. e.kind = "response" /\ (n + 1) - 1 = n
        BY <1>1, <1>2, <2>2
      <3>2. n \in 1 .. n /\ record[n] = Tool!Entry("command", e.commands)
        BY <1>1, <1>8, <3>1
      <3>3. QED
        BY <1>2, <1>3, <2>2, <3>1, <3>2
    <2>3. QED
      BY <1>2, <1>3, <2>1, <2>2
  <1>9. QED
    BY <1>2, <1>3, <1>4, <1>7, <1>8 DEF n

\* The calls under way, when one of them moves.
LEMMA BusyMoves ==
    ASSUME ToolInv, NEW u \in User, NEW p, at' = [at EXCEPT ![u] = p]
    PROVE  /\ IsFiniteSet(Busy) /\ Cardinality(Busy) \in Nat
           /\ Cardinality(Busy') =
                IF p = "idle"
                THEN IF at[u] = "idle" THEN Cardinality(Busy)
                     ELSE Cardinality(Busy) - 1
                ELSE IF at[u] = "idle" THEN Cardinality(Busy) + 1
                     ELSE Cardinality(Busy)
           /\ Cardinality(Busy') \in 0 .. Cardinality(User)
  <1>1. IsFiniteSet(User) /\ Busy \subseteq User /\ Busy' \subseteq User
    BY ServicesAssumption DEF Busy
  <1>2. /\ IsFiniteSet(Busy) /\ Cardinality(Busy) \in Nat
        /\ Cardinality(Busy') \in 0 .. Cardinality(User)
    <2>1. /\ IsFiniteSet(Busy) /\ IsFiniteSet(Busy')
          /\ Cardinality(Busy') <= Cardinality(User)
      BY <1>1, FS_Subset
    <2>2. /\ Cardinality(Busy) \in Nat /\ Cardinality(Busy') \in Nat
          /\ Cardinality(User) \in Nat
      BY <1>1, <2>1, FS_CardinalityType
    <2>3. QED
      BY <2>1, <2>2
  <1>3. Busy' = IF p = "idle" THEN Busy \ {u} ELSE Busy \cup {u}
    BY DEF Busy, ToolInv, ToolTypes
  <1>4. (u \in Busy) <=> (at[u] # "idle")
    BY DEF Busy
  <1>5. /\ Cardinality(Busy \ {u}) = IF u \in Busy THEN Cardinality(Busy) - 1
                                     ELSE Cardinality(Busy)
        /\ Cardinality(Busy \cup {u}) =
             IF u \in Busy THEN Cardinality(Busy) ELSE Cardinality(Busy) + 1
    BY <1>2, FS_AddElement, FS_RemoveElement
  <1>6. QED
    BY <1>2, <1>3, <1>4, <1>5

LEMMA LimitType ==
    /\ Tool!Limit \in Nat /\ Tool!Limit >= 1
    /\ MaxInteractions <= Tool!Limit
    /\ Cardinality(User) \in Nat
  BY ServicesAssumption, FS_CardinalityType DEF Tool!Limit

LEMMA ToolInit == Tool!Init => ToolInv
  <1> SUFFICES ASSUME Tool!Init PROVE ToolInv
    OBVIOUS
  <1> USE DEF Tool!Init
  <1>1. ToolTypes
    <2>1. 0 \in Tool!Numbers /\ 0 \in 0 .. MaxCleanups
      BY ServicesAssumption DEF Tool!Numbers
    <2>2. <<>> \in Seq(Line) /\ <<>> \in Seq(Tool!Numbers)
      OBVIOUS
    <2>3. at \in [User ->
                     {"idle", "ensure", "starting", "send", "reading"}]
      OBVIOUS
    <2>4. QED
      BY <2>1, <2>2, <2>3 DEF ToolTypes
  <1>2. MutexInv
    BY DEF MutexInv, Single
  <1>3. CountInv
    <2>1. Busy = {} /\ Tool!Responses = {}
      BY DEF Busy, Tool!Responses
    <2>2. Cardinality(Busy) = 0 /\ Cardinality(Tool!Responses) = 0
      BY <2>1, FS_EmptySet
    <2>3. QED
      BY <2>2, LimitType DEF CountInv
  <1>4. OwnInv /\ TerminalInv
    BY DEF OwnInv, TerminalInv
  <1>5. QED
    BY <1>1, <1>2, <1>3, <1>4 DEF ToolInv

-----------------------------------------------------------------------------
\* A call goes on or back without the mutex.
LEMMA ToolMoves ==
    ASSUME ToolInv, NEW u \in User, NEW p \in {"idle", "ensure", "send"},
           at[u] \in {"idle", "ensure", "send"},
           at' = [at EXCEPT ![u] = p],
           at[u] = "idle" => count + 1 <= Tool!Limit,
           UNCHANGED <<status, count, record, missed, input, output, alive,
                       holder, poisoned, issued, cleanups>>
    PROVE  ToolInv'
  <1>1. ToolTypes'
    BY DEF ToolInv, ToolTypes
  <1>2. MutexInv'
    BY DEF ToolInv, ToolTypes, MutexInv
  <1>3. CountInv'
    <2>1. count' = Cardinality(Tool!Responses')
      BY RecordKept
    <2>2. /\ count + Cardinality(Busy) <= Tool!Limit + Cardinality(User) - 1
          /\ Cardinality(Busy) \in Nat /\ count \in Nat
      BY BusyMoves DEF ToolInv, CountInv, ToolTypes
    <2>3. count + Cardinality(Busy') <= Tool!Limit + Cardinality(User) - 1
      <3>1. CASE at[u] = "idle"
        <4>1. Cardinality(Busy') <= Cardinality(User)
              /\ Cardinality(Busy') \in Nat
          <5>1. Cardinality(Busy') \in 0 .. Cardinality(User)
            BY BusyMoves
          <5>2. QED
            BY <5>1, LimitType
        <4>2. QED
          BY <2>2, <3>1, <4>1, LimitType
      <3>2. CASE at[u] # "idle"
        <4>1. \/ Cardinality(Busy') = Cardinality(Busy)
              \/ Cardinality(Busy') = Cardinality(Busy) - 1
          BY <3>2, BusyMoves
        <4>2. QED
          BY <2>2, <4>1, LimitType
      <3>3. QED  BY <3>1, <3>2
    <2>4. Tool!Limit' = Tool!Limit
      BY DEF Tool!Limit
    <2>5. QED
      BY <2>1, <2>3, <2>4 DEF ToolInv, CountInv
  <1>4. ASSUME ~missed' PROVE OwnInv' /\ TerminalInv'
    <2>1. OwnInv'
      BY <1>4, RecordKept DEF ToolInv
    <2>2. TerminalInv'
      <3>1. \A w \in holder : at'[w] = at[w]
        BY DEF ToolInv, ToolTypes, MutexInv
      <3>2. QED
        BY <1>4, <3>1 DEF ToolInv, TerminalInv, Awaited
    <2>3. QED  BY <2>1, <2>2
  <1>5. QED
    BY <1>1, <1>2, <1>3, <1>4 DEF ToolInv

LEMMA ToolCheck ==
    ASSUME ToolInv, NEW u \in User, Tool!Check(u) PROVE ToolInv'
  <1>1. count + 1 <= Tool!Limit
    <2>1. CASE status = "none"
      BY <2>1, LimitType DEF ToolInv, CountInv
    <2>2. CASE status # "none"
      <3>1. count < MaxInteractions /\ count \in Nat
        BY <2>2 DEF Tool!Check, Tool!HasRoom, Tool!Exists, ToolInv, ToolTypes
      <3>2. QED
        BY <3>1, LimitType, ServicesAssumption
    <2>3. QED  BY <2>1, <2>2
  <1>2. QED
    BY <1>1, ToolMoves
    DEF Tool!Check, Tool!session, Tool!terminal

LEMMA ToolGoesOn ==
    ASSUME ToolInv, NEW u \in User,
           \/ Tool!Poisoned(u) \/ Tool!Found(u) \/ Tool!SpawnFails(u)
           \/ Tool!SendFails(u)
    PROVE  ToolInv'
  BY ToolMoves DEF Tool!Poisoned, Tool!Found, Tool!SpawnFails, Tool!SendFails,
     Tool!session, Tool!terminal

-----------------------------------------------------------------------------
\* What is left to show of a step that takes or releases the mutex, from what
\* it does to the counts.
LEMMA CountStep ==
    ASSUME ToolInv, NEW u \in User, NEW p, at' = [at EXCEPT ![u] = p],
           at[u] # "idle",
           count' = Cardinality(Tool!Responses'), count' \in Nat,
           status' = "none" => count' = 0,
           count' <= count \/ (count' = count + 1 /\ p = "idle")
    PROVE  CountInv'
  <1>1. /\ count + Cardinality(Busy) <= Tool!Limit + Cardinality(User) - 1
        /\ Cardinality(Busy) \in Nat /\ count \in Nat
    BY BusyMoves DEF ToolInv, CountInv, ToolTypes
  <1>2. Cardinality(Busy') = IF p = "idle" THEN Cardinality(Busy) - 1
                             ELSE Cardinality(Busy)
    BY BusyMoves
  <1>3. count' + Cardinality(Busy') <= Tool!Limit + Cardinality(User) - 1
    BY <1>1, <1>2, LimitType
  <1>4. Tool!Limit' = Tool!Limit
    BY DEF Tool!Limit
  <1>5. QED
    BY <1>3, <1>4 DEF CountInv

LEMMA ToolSpawn ==
    ASSUME ToolInv, NEW u \in User, Tool!Spawn(u) PROVE ToolInv'
  <1> USE DEF Tool!Spawn
  <1>1. ToolTypes'
    <2>1. 0 \in Tool!Numbers
      BY ServicesAssumption DEF Tool!Numbers
    <2>2. <<0>> \in Seq(Tool!Numbers) /\ <<>> \in Seq(Tool!Numbers)
          /\ <<>> \in Seq(Line)
      BY <2>1
    <2>3. QED
      BY <2>2 DEF ToolInv, ToolTypes
  <1>2. MutexInv'
    BY DEF ToolInv, ToolTypes, MutexInv, Single, Tool!Free
  <1>3. CountInv'
    <2>1. count' = Cardinality(Tool!Responses') /\ count' = 0
      BY RecordBegun
    <2>2. count \in Nat
      BY DEF ToolInv, ToolTypes
    <2>3. count' <= count /\ count' \in Nat
      BY <2>1, <2>2
    <2>4. QED
      BY <2>1, <2>3, CountStep
  <1>4. OwnInv'
    BY RecordBegun
  <1>5. TerminalInv'
    BY DEF TerminalInv, Awaited, ToolInv, ToolTypes
  <1>6. QED
    BY <1>1, <1>2, <1>3, <1>4, <1>5 DEF ToolInv

LEMMA ToolStarted ==
    ASSUME ToolInv, NEW u \in User, Tool!Started(u) PROVE ToolInv'
  <1> USE DEF Tool!Started
  <1> DEFINE e == Tool!Entry("system", <<>>)
  <1>1. e \in Line /\ e.kind = "system"
    BY DEF Line, Tool!Entry
  <1>2. record' = Append(record, e) /\ count' = count
    OBVIOUS
  <1> HIDE DEF e
  <1>3. /\ record' \in Seq(Line) /\ count' \in Nat
        /\ count' = Cardinality(Tool!Responses')
        /\ OwnInv => OwnInv'
    BY <1>1, <1>2, RecordGrows
  <1>4. ToolTypes'
    <2>1. <<>> \in Seq(Tool!Numbers)
      OBVIOUS
    <2>2. QED
      BY <1>3, <2>1 DEF ToolInv, ToolTypes
  <1>5. u \in holder /\ holder' = {} /\ ~poisoned
    BY DEF ToolInv, ToolTypes, MutexInv
  <1>6. MutexInv'
    BY <1>5 DEF ToolInv, ToolTypes, MutexInv, Single
  <1>7. CountInv'
    <2>1. count' <= count /\ status' # "none"
      BY <1>2 DEF ToolInv, ToolTypes
    <2>2. QED
      BY <1>3, <2>1, CountStep
  <1>8. ASSUME ~missed' PROVE OwnInv' /\ TerminalInv'
    <2>1. OwnInv /\ Awaited(0)
      BY <1>5, <1>8 DEF ToolInv, TerminalInv
    <2>2. input = <<>>
      BY <2>1 DEF Awaited
    <2>3. QED
      BY <1>3, <1>5, <2>1, <2>2 DEF TerminalInv
  <1>9. QED
    BY <1>4, <1>6, <1>7, <1>8 DEF ToolInv

LEMMA ToolSend ==
    ASSUME ToolInv, NEW u \in User, Tool!Send(u) PROVE ToolInv'
  <1> USE DEF Tool!Send
  <1> DEFINE n == issued + 1
             e == Tool!Entry("command", <<n>>)
  <1>0. n \in Tool!Numbers /\ issued' = n
    BY ServicesAssumption DEF ToolInv, ToolTypes, Tool!Numbers
  <1>1. e \in Line /\ e.kind = "command"
    BY <1>0 DEF Line, Tool!Entry
  <1>2. record' = Append(record, e) /\ count' = count
    OBVIOUS
  <1>10. input' = IF alive THEN Append(input, n) ELSE input
    OBVIOUS
  <1>11. e = Tool!Entry("command", <<n>>)
    OBVIOUS
  <1> HIDE DEF e, n
  <1>3. /\ record' \in Seq(Line) /\ count' \in Nat
        /\ Len(record') \in DOMAIN record' /\ record'[Len(record')] = e
        /\ count' = Cardinality(Tool!Responses')
        /\ OwnInv => OwnInv'
    BY <1>1, <1>2, RecordGrows
  <1>4. ToolTypes'
    <2>1. input' \in Seq(Tool!Numbers)
      BY <1>0, <1>10, SequenceFacts DEF ToolInv, ToolTypes
    <2>2. QED
      BY <1>0, <1>3, <2>1 DEF ToolInv, ToolTypes, Tool!Locked
  <1>5. holder = {} /\ ~poisoned /\ holder' = {u}
    BY DEF Tool!Free, Tool!Locked
  <1>6. MutexInv'
    BY <1>5 DEF ToolInv, ToolTypes, MutexInv, Single, Tool!Exists
  <1>7. CountInv'
    <2>1. count' <= count /\ (status' = "none" => count' = 0)
      BY <1>2 DEF ToolInv, ToolTypes, CountInv
    <2>2. QED
      BY <1>3, <2>1, CountStep
  <1>8. ASSUME ~missed' PROVE OwnInv' /\ TerminalInv'
    <2>1. OwnInv /\ input = <<>> /\ output = <<>>
      BY <1>5, <1>8 DEF ToolInv, TerminalInv
    <2>2. (input' = <<>> \/ input' = <<n>>) /\ output' = <<>>
      BY <1>10, <2>1
    <2>3. at'[u] = "reading"
      BY DEF ToolInv, ToolTypes
    <2>4. Awaited(issued)'
      BY <1>0, <2>2 DEF Awaited
    <2>5. record'[Len(record')] = Tool!Entry("command", <<issued'>>)
      BY <1>0, <1>3, <1>11
    <2>6. TerminalInv'
      BY <1>3, <1>5, <2>3, <2>4, <2>5 DEF TerminalInv, Tool!Entry
    <2>7. QED
      BY <1>3, <2>1, <2>6
  <1>9. QED
    BY <1>4, <1>6, <1>7, <1>8 DEF ToolInv

\* Parts of a sequence, and of a sequence of one element.
LEMMA SequenceParts ==
    ASSUME NEW S, NEW s \in Seq(S), NEW n \in 0 .. Len(s)
    PROVE  /\ SubSeq(s, 1, n) \in Seq(S)
           /\ SubSeq(s, n + 1, Len(s)) \in Seq(S)
           /\ Len(s) = 1 /\ n = 1 =>
                SubSeq(s, 1, n) = s /\ SubSeq(s, n + 1, Len(s)) = <<>>
  <1>1. /\ Len(s) \in Nat /\ \A i \in 1 .. Len(s) : s[i] \in S
    OBVIOUS
  <1>2. SubSeq(s, 1, n) \in Seq(S) /\ SubSeq(s, n + 1, Len(s)) \in Seq(S)
    <2>1. \A i \in 1 .. n : s[i] \in S
      BY <1>1
    <2>2. \A i \in n + 1 .. Len(s) : s[i] \in S
      BY <1>1
    <2>3. QED
      BY <1>1, <2>1, <2>2, SubSeqProperties
  <1>3. ASSUME Len(s) = 1, n = 1
        PROVE  SubSeq(s, 1, n) = s /\ SubSeq(s, n + 1, Len(s)) = <<>>
    BY <1>3
  <1>4. QED
    BY <1>2, <1>3

LEMMA ToolRespond ==
    ASSUME ToolInv, NEW u \in User, Tool!Respond(u) PROVE ToolInv'
  <1>1. PICK n \in 1 .. Len(output) :
          /\ output' = SubSeq(output, n + 1, Len(output))
          /\ record' = Append(record,
                         Tool!Entry("response", SubSeq(output, 1, n)))
    BY DEF Tool!Respond
  <1> DEFINE cs == SubSeq(output, 1, n)
             e == Tool!Entry("response", cs)
  <1>2. /\ output \in Seq(Tool!Numbers) /\ Len(output) \in Nat
        /\ n \in 0 .. Len(output)
    BY DEF ToolInv, ToolTypes
  <1>3. cs \in Seq(Tool!Numbers) /\ output' \in Seq(Tool!Numbers)
    BY <1>1, <1>2, SequenceParts
  <1> HIDE DEF cs
  <1>4. e \in Line /\ e.kind = "response" /\ e.commands = cs
    BY <1>3 DEF Line, Tool!Entry
  <1>5. record' = Append(record, e) /\ count' = count + 1
    BY <1>1 DEF Tool!Respond, cs
  <1> HIDE DEF e
  <1>6. /\ record' \in Seq(Line) /\ count' \in Nat
        /\ count' = Cardinality(Tool!Responses')
        /\ OwnInv /\ Len(record) \in DOMAIN record
             /\ record[Len(record)] = Tool!Entry("command", cs) => OwnInv'
    BY <1>4, <1>5, RecordGrows
  <1>7. /\ at[u] = "reading" /\ at' = [at EXCEPT ![u] = "idle"]
        /\ holder' = {}
        /\ UNCHANGED <<status, missed, input, alive, poisoned, issued,
                       cleanups>>
    BY DEF Tool!Respond
  <1>8. ToolTypes'
    BY <1>3, <1>6, <1>7 DEF ToolInv, ToolTypes
  <1>9. u \in holder /\ ~poisoned
    BY <1>7 DEF ToolInv, ToolTypes, MutexInv
  <1>10. MutexInv'
    BY <1>7, <1>9 DEF ToolInv, ToolTypes, MutexInv, Single
  <1>11. ASSUME ~missed' PROVE OwnInv' /\ TerminalInv'
    <2>1. OwnInv /\ Awaited(issued) /\ Len(record) \in DOMAIN record
          /\ record[Len(record)] = Tool!Entry("command", <<issued>>)
      BY <1>7, <1>9, <1>11 DEF ToolInv, TerminalInv
    <2>2. Len(output) # 0
      BY <1>2
    <2>3. output = <<issued>> /\ input = <<>>
      BY <2>1, <2>2 DEF Awaited
    <2>4. Len(output) = 1 /\ n = 1
      BY <2>3
    <2>5. cs = <<issued>> /\ output' = <<>>
      <3>1. /\ SubSeq(output, 1, n) = output
            /\ SubSeq(output, n + 1, Len(output)) = <<>>
        BY <1>2, <2>4, SequenceParts
      <3>2. QED
        BY <1>1, <2>3, <3>1 DEF cs
    <2>6. QED
      BY <1>6, <1>7, <2>1, <2>3, <2>5 DEF TerminalInv
  <1>12. CountInv'
    <2>1. status' # "none"
      BY <1>7, <1>9 DEF ToolInv, MutexInv
    <2>2. QED
      BY <1>5, <1>6, <1>7, <2>1, CountStep
  <1>13. QED
    BY <1>8, <1>10, <1>11, <1>12 DEF ToolInv

LEMMA ToolReadFails ==
    ASSUME ToolInv, NEW u \in User, Tool!ReadFails(u) PROVE ToolInv'
  <1>1. PICK n \in 0 .. Len(output) :
              output' = SubSeq(output, n + 1, Len(output))
    BY DEF Tool!ReadFails
  <1>2. /\ at[u] \in {"starting", "reading"} /\ missed' = TRUE
        /\ holder' = {} /\ poisoned' \in BOOLEAN
        /\ at' = [at EXCEPT ![u] = "idle"]
        /\ UNCHANGED <<status, count, record, input, alive, issued, cleanups>>
    BY DEF Tool!ReadFails
  <1>3. ToolTypes'
    <2>1. output' \in Seq(Tool!Numbers)
      BY <1>1, SequenceParts DEF ToolInv, ToolTypes
    <2>2. QED
      BY <1>2, <2>1 DEF ToolInv, ToolTypes
  <1>4. MutexInv'
    BY <1>2 DEF ToolInv, ToolTypes, MutexInv, Single
  <1>5. CountInv'
    <2>1. count' = Cardinality(Tool!Responses')
      BY <1>2, RecordKept
    <2>2. count' <= count /\ count' \in Nat /\ (status' = "none" => count' = 0)
      BY <1>2 DEF ToolInv, ToolTypes, CountInv
    <2>3. QED
      BY <1>2, <2>1, <2>2, CountStep
  <1>6. QED
    BY <1>2, <1>3, <1>4, <1>5 DEF ToolInv

LEMMA CountKept ==
    ASSUME ToolInv, UNCHANGED <<status, count, record, at>> PROVE CountInv'
  <1>1. count' = Cardinality(Tool!Responses')
    BY RecordKept
  <1>2. Busy' = Busy /\ Tool!Limit' = Tool!Limit
    BY DEF Busy, Tool!Limit
  <1>3. QED
    BY <1>1, <1>2 DEF ToolInv, CountInv

LEMMA ToolAnswer == ASSUME ToolInv, Tool!Answer PROVE ToolInv'
  <1> USE DEF Tool!Answer, Tool!session
  <1>1. /\ input \in Seq(Tool!Numbers) /\ input # <<>>
        /\ output \in Seq(Tool!Numbers)
    BY DEF ToolInv, ToolTypes
  <1>2. Head(input) \in Tool!Numbers /\ Tail(input) \in Seq(Tool!Numbers)
    BY <1>1
  <1>3. ToolTypes'
    <2>1. output' \in Seq(Tool!Numbers) /\ input' \in Seq(Tool!Numbers)
      BY <1>1, <1>2, SequenceFacts
    <2>2. QED
      BY <2>1 DEF ToolInv, ToolTypes
  <1>4. MutexInv'
    BY DEF ToolInv, MutexInv
  <1>5. CountInv'
    BY CountKept
  <1>6. ASSUME ~missed' PROVE OwnInv' /\ TerminalInv'
    <2>1. OwnInv /\ TerminalInv
      BY <1>6 DEF ToolInv
    <2>2. OwnInv'
      BY <2>1, RecordKept
    <2>3. \A k : Awaited(k) => Awaited(k)'
      <3> SUFFICES ASSUME NEW k, Awaited(k) PROVE Awaited(k)'
        OBVIOUS
      <3>1. input = <<k>> /\ output = <<>>
        BY <1>1 DEF Awaited
      <3>2. Head(<<k>>) = k /\ Tail(<<k>>) = <<>> /\ Append(<<>>, k) = <<k>>
        OBVIOUS
      <3>3. QED
        BY <3>1, <3>2 DEF Awaited
    <2>4. TerminalInv'
      BY <1>1, <2>1, <2>3 DEF TerminalInv
    <2>5. QED  BY <2>2, <2>4
  <1>7. QED
    BY <1>3, <1>4, <1>5, <1>6 DEF ToolInv

LEMMA ToolEnds == ASSUME ToolInv, Tool!Ends PROVE ToolInv'
  <1> USE DEF Tool!Ends, Tool!session
  <1>1. ToolTypes'
    <2>1. <<>> \in Seq(Tool!Numbers)
      OBVIOUS
    <2>2. QED
      BY <2>1 DEF ToolInv, ToolTypes
  <1>2. MutexInv'
    BY DEF ToolInv, MutexInv
  <1>3. CountInv'
    BY CountKept
  <1>4. ASSUME ~missed' PROVE OwnInv' /\ TerminalInv'
    <2>1. OwnInv /\ TerminalInv
      BY <1>4 DEF ToolInv
    <2>2. OwnInv'
      BY <2>1, RecordKept
    <2>3. TerminalInv'
      BY <2>1 DEF TerminalInv, Awaited
    <2>4. QED  BY <2>2, <2>3
  <1>5. QED
    BY <1>1, <1>2, <1>3, <1>4 DEF ToolInv

LEMMA ToolCleanup == ASSUME ToolInv, Tool!Cleanup PROVE ToolInv'
  <1> USE DEF Tool!Cleanup
  <1>1. ToolTypes'
    <2>1. <<>> \in Seq(Tool!Numbers) /\ <<>> \in Seq(Line)
      OBVIOUS
    <2>2. cleanups' \in 0 .. MaxCleanups
      BY ServicesAssumption DEF ToolInv, ToolTypes
    <2>3. QED
      BY <2>1, <2>2 DEF ToolInv, ToolTypes
  <1>2. holder = {} /\ ~poisoned
    BY DEF Tool!Free
  <1>3. MutexInv'
    BY <1>2 DEF ToolInv, MutexInv
  <1>4. CountInv'
    <2>1. count' = Cardinality(Tool!Responses')
      BY RecordBegun
    <2>2. Busy' = Busy /\ Tool!Limit' = Tool!Limit
      BY DEF Busy, Tool!Limit
    <2>3. Cardinality(Busy) \in Nat
      <3>1. IsFiniteSet(Busy)
        BY ServicesAssumption, FS_Subset DEF Busy
      <3>2. QED  BY <3>1, FS_CardinalityType
    <2>4. /\ count + Cardinality(Busy) <= Tool!Limit + Cardinality(User) - 1
          /\ count \in Nat
      BY DEF ToolInv, CountInv, ToolTypes
    <2>5. 0 + Cardinality(Busy) <= Tool!Limit + Cardinality(User) - 1
      BY <2>3, <2>4, LimitType
    <2>6. QED
      BY <2>1, <2>2, <2>5 DEF CountInv
  <1>5. OwnInv'
    BY RecordBegun
  <1>6. TerminalInv'
    BY <1>2 DEF TerminalInv
  <1>7. QED
    BY <1>1, <1>3, <1>4, <1>5, <1>6 DEF ToolInv

LEMMA ToolStep == ASSUME ToolInv, [Tool!Next]_tool PROVE ToolInv'
  <1>1. CASE UNCHANGED tool
    <2>1. UNCHANGED <<status, count, record, input, output, alive, holder,
                      poisoned, at, issued, missed, cleanups>>
      BY <1>1 DEF tool
    <2>2. ToolTypes' /\ MutexInv' /\ CountInv'
      BY <2>1, CountKept DEF ToolInv, ToolTypes, MutexInv
    <2>3. ~missed' => OwnInv' /\ TerminalInv'
      BY <2>1 DEF ToolInv, OwnInv, TerminalInv, Awaited
    <2>4. QED  BY <2>2, <2>3 DEF ToolInv
  <1>2. ASSUME NEW u \in User, Tool!Call(u) PROVE ToolInv'
    BY <1>2, ToolCheck, ToolGoesOn, ToolSpawn, ToolStarted, ToolSend,
       ToolRespond, ToolReadFails DEF Tool!Call
  <1>3. QED
    BY <1>1, <1>2, ToolAnswer, ToolEnds, ToolCleanup DEF Tool!Next

LEMMA ToolInvIsEnough == ToolInv => Tool!SessionIsSound
  <1> SUFFICES ASSUME ToolInv PROVE Tool!SessionIsSound
    OBVIOUS
  <1>1. Tool!TypeOK
    <2>1. Tool!Cardinality(holder) <= 1
      <3>1. CASE holder = {}
        BY <3>1, FS_EmptySet, ToolCardinality
      <3>2. ASSUME NEW u \in holder PROVE Cardinality(holder) = 1
        <4>1. holder = {u}
          BY <3>2 DEF ToolInv, MutexInv, Single
        <4>2. Cardinality({u}) = 1
          BY FS_Singleton
        <4>3. QED  BY <4>1, <4>2
      <3>3. QED
        BY <3>1, <3>2, ToolCardinality
    <2>2. \A i \in DOMAIN record :
            /\ record[i].kind \in {"system", "command", "response"}
            /\ record[i].commands \in Seq(Tool!Numbers)
      <3>1. \A i \in DOMAIN record : record[i] \in Line
        BY SequenceFacts DEF ToolInv, ToolTypes
      <3>2. QED  BY <3>1 DEF Line
    <2>3. {alive, poisoned, missed} \subseteq BOOLEAN
      BY DEF ToolInv, ToolTypes
    <2>4. QED
      BY <2>1, <2>2, <2>3 DEF ToolInv, ToolTypes, Tool!TypeOK
  <1>2. Tool!AnswersAreOwn
    BY DEF ToolInv, OwnInv, Tool!AnswersAreOwn, Tool!Responses
  <1>3. Tool!InteractionsAreCounted
    <2>1. IsFiniteSet(Busy)
      BY ServicesAssumption, FS_Subset DEF Busy
    <2>2. Cardinality(Busy) \in Nat
      BY <2>1, FS_CardinalityType
    <2>3. /\ count = Cardinality(Tool!Responses) /\ count \in Nat
          /\ count + Cardinality(Busy) <= Tool!Limit + Cardinality(User) - 1
      BY DEF ToolInv, CountInv, ToolTypes
    <2>4. count <= Tool!Limit + Cardinality(User) - 1
      BY <2>2, <2>3, LimitType
    <2>5. QED
      BY <2>3, <2>4, ToolCardinality DEF Tool!InteractionsAreCounted
  <1>4. QED
    BY <1>1, <1>2, <1>3 DEF Tool!SessionIsSound

\* Whatever the callers of an interactive tool, the tool and the cleanup do:
\* while no wait of the session has failed, each answer in the transcript
\* stands behind its own command; the interactions are counted; and the limit
\* is passed by one for every other caller at most (session_executor.rs:113).
THEOREM CallersAreKeptApart == ServicesSpec => []SessionIsSound
  <1> DEFINE state == <<service, vars, resources, lifecycle, errors, tool,
                        execution>>
  <1>1. ServicesInit => ToolInv
    BY ToolInit DEF ServicesInit
  <1>2. ToolInv /\ [ServicesNext]_state => ToolInv'
    <2> SUFFICES ASSUME ToolInv, [ServicesNext]_state PROVE ToolInv'
      OBVIOUS
    <2>1. [Tool!Next]_tool
      BY DEF ServicesNext
    <2>2. QED
      BY <2>1, ToolStep
  <1>3. ToolInv => SessionIsSound
    BY ToolInvIsEnough DEF SessionIsSound
  <1>4. ServicesSpec => ServicesInit /\ [][ServicesNext]_state
    BY DEF ServicesSpec
  <1>5. QED
    BY <1>1, <1>2, <1>3, <1>4, PTL

-----------------------------------------------------------------------------
(* The executor of command-line tools, for any streams of output.            *)

ReadingType == [at : {"reading", "end", "idle", "cut"},
                units : 0 .. MaxOutput]

\* What the reading of stream s hands to the line sink as it becomes x.
HandsOn(s, x) ==
    \/ emitted' = emitted /\ x.at # "end"
    \/ emitted' = emitted /\ s # "stdout"
    \/ emitted' = x.units /\ s = "stdout" /\ x.at = "end"
    \/ /\ s = "stdout" /\ x.at = "reading"
       /\ emitted' = Cli!WholeLines(x.units)

\* The types, with the readers as a function.
CliTypes ==
    /\ stage \in {"spawn", "streams", "wait", "term", "grace", "reap", "done"}
    /\ cause \in {"none", "idle", "timeout"}
    /\ result \in {"none", "error", "success", "failure", "idle", "timeout"}
    /\ reader \in [Cli!Stream -> ReadingType]
    /\ closed \in SUBSET Cli!Stream /\ emitted \in 0 .. MaxOutput
    /\ leader \in {"none", "runs", "zero", "failed"} /\ helper \in BOOLEAN

\* What is known at each place of the executor.
PlaceOfExecution ==
    /\ result = "none" <=> stage # "done"
    /\ stage = "spawn" => leader = "none"
    /\ stage \in {"term", "grace", "reap"} => cause # "none"
    /\ stage \in {"reap", "done"} => leader # "runs"
    /\ stage = "wait" => cause = "none" /\ \A s \in Cli!Stream :
                                   reader[s].at \notin {"reading", "idle"}
    /\ stage \in {"spawn", "streams"} => cause = "none"
    /\ result = "success" =>
         leader = "zero" /\ \A s \in Cli!Stream : reader[s].at # "idle"

\* A helper that heeds the signal is gone after it, or was started since.
HelperIsReached ==
    stage \in {"grace", "reap", "done"} /\ cause # "none" /\ helper =>
        "helper" \notin heeds \/ ~warned

CliInv ==
    CliTypes /\ PlaceOfExecution /\ HelperIsReached /\ Cli!LinesAreWhole

LEMMA HalfLines ==
    ASSUME NEW n \in Nat
    PROVE  /\ Cli!WholeLines(n) \in 0 .. n
           /\ Cli!WholeLines(Cli!WholeLines(n)) = Cli!WholeLines(n)
  <1>1. n % 2 \in 0 .. 1 /\ (n - (n % 2)) % 2 = 0
    OBVIOUS
  <1>2. n - (n % 2) \in 0 .. n
    <2>1. n % 2 <= n
      OBVIOUS
    <2>2. QED  BY <1>1, <2>1
  <1>3. QED
    BY <1>1, <1>2 DEF Cli!WholeLines

LEMMA CliInit == Cli!Init => CliInv
  <1> SUFFICES ASSUME Cli!Init PROVE CliInv
    OBVIOUS
  <1>1. CliTypes
    <2>1. 0 \in 0 .. MaxOutput
      BY ServicesAssumption
    <2>2. QED
      BY <2>1 DEF Cli!Init, CliTypes, ReadingType
  <1>2. PlaceOfExecution /\ HelperIsReached
    BY DEF Cli!Init, PlaceOfExecution, HelperIsReached
  <1>3. Cli!LinesAreWhole
    BY DEF Cli!Init, Cli!LinesAreWhole, Cli!WholeLines
  <1>4. QED
    BY <1>1, <1>2, <1>3 DEF CliInv

LEMMA CliProcesses ==
    ASSUME CliInv, Cli!Processes PROVE CliInv'
  <1>1. /\ UNCHANGED <<stage, cause, result, reader, emitted, heeds>>
        /\ closed' \in SUBSET Cli!Stream
        /\ helper' \in BOOLEAN
        /\ leader' = leader \/ (leader = "runs" /\ leader' \in {"zero", "failed"})
        /\ helper' => (helper /\ warned' = warned) \/ ~warned'
    <2> USE DEF Cli!executor, Cli!output, Cli!processes, CliInv, CliTypes
    <2>1. CASE \E s \in Cli!Stream : Cli!Close(s)
      BY <2>1 DEF Cli!Close
    <2>2. CASE Cli!StartHelper
      BY <2>2 DEF Cli!StartHelper
    <2>3. CASE Cli!LeaderEnds
      BY <2>3 DEF Cli!LeaderEnds
    <2>4. CASE Cli!HelperEnds
      BY <2>4 DEF Cli!HelperEnds
    <2>5. QED
      BY <2>1, <2>2, <2>3, <2>4 DEF Cli!Processes
  <1>2. CliTypes'
    BY <1>1 DEF CliInv, CliTypes
  <1>3. PlaceOfExecution'
    BY <1>1 DEF CliInv, PlaceOfExecution
  <1>4. HelperIsReached'
    BY <1>1 DEF CliInv, HelperIsReached
  <1>5. Cli!LinesAreWhole'
    BY <1>1 DEF CliInv, Cli!LinesAreWhole
  <1>6. QED
    BY <1>2, <1>3, <1>4, <1>5 DEF CliInv

LEMMA CliExecutes ==
    ASSUME CliInv,
           Cli!Spawn \/ Cli!SpawnFails \/ Cli!Join \/ Cli!Wait
             \/ Cli!WallClock \/ Cli!KillProcess
    PROVE  CliInv'
  <1>1. CliTypes'
    BY DEF Cli!Spawn, Cli!SpawnFails, Cli!Join, Cli!Wait, Cli!WallClock,
       Cli!KillProcess, Cli!SendTerm, Cli!EndsInGrace, Cli!GraceOver,
       Cli!Reap, Cli!Killed, Cli!output, Cli!processes, CliInv, CliTypes
  <1>2. PlaceOfExecution'
    <2> USE DEF CliInv, CliTypes, PlaceOfExecution, Cli!output, Cli!processes
    <2>0. CASE Cli!Spawn
      BY <2>0 DEF Cli!Spawn
    <2>1. CASE Cli!SpawnFails
      BY <2>1 DEF Cli!SpawnFails
    <2>2. CASE Cli!Join
      BY <2>2 DEF Cli!Join
    <2>3. CASE Cli!Wait
      BY <2>3 DEF Cli!Wait
    <2>4. CASE Cli!WallClock
      BY <2>4 DEF Cli!WallClock, Cli!UnderWallClock
    <2>5. CASE Cli!SendTerm
      BY <2>5 DEF Cli!SendTerm
    <2>6. CASE Cli!EndsInGrace
      BY <2>6 DEF Cli!EndsInGrace, Cli!Killed
    <2>7. CASE Cli!GraceOver
      BY <2>7 DEF Cli!GraceOver
    <2>8. CASE Cli!Reap
      BY <2>8 DEF Cli!Reap, Cli!Killed
    <2>9. QED
      BY <2>0, <2>1, <2>2, <2>3, <2>4, <2>5, <2>6, <2>7, <2>8
      DEF Cli!KillProcess
  <1>3. HelperIsReached'
    BY DEF Cli!Spawn, Cli!SpawnFails, Cli!Join, Cli!Wait, Cli!WallClock,
       Cli!KillProcess, Cli!SendTerm, Cli!EndsInGrace, Cli!GraceOver,
       Cli!Reap, Cli!Killed, Cli!output, Cli!processes, CliInv, CliTypes,
       PlaceOfExecution, HelperIsReached, Cli!Reached
  <1>4. Cli!LinesAreWhole'
    BY DEF Cli!Spawn, Cli!SpawnFails, Cli!Join, Cli!Wait, Cli!WallClock,
       Cli!KillProcess, Cli!SendTerm, Cli!EndsInGrace, Cli!GraceOver,
       Cli!Reap, Cli!Killed, Cli!output, Cli!processes, CliInv,
       Cli!LinesAreWhole
  <1>5. QED
    BY <1>1, <1>2, <1>3, <1>4 DEF CliInv

LEMMA CliWatch ==
    ASSUME CliInv, NEW s \in Cli!Stream,
           Cli!Read(s) \/ Cli!ReadEnd(s) \/ Cli!IdleTimeout(s)
    PROVE  CliInv'
  <1>1. /\ stage = "streams" /\ reader[s].at = "reading"
        /\ reader[s].units \in 0 .. MaxOutput /\ emitted \in 0 .. MaxOutput
        /\ UNCHANGED <<stage, cause, result, closed, leader, helper, heeds,
                       warned>>
    BY DEF Cli!Read, Cli!ReadEnd, Cli!IdleTimeout, Cli!Reads, Cli!executor,
       Cli!processes, CliInv, CliTypes, ReadingType
  <1>9. /\ DOMAIN reader = Cli!Stream
        /\ reader[s] = [at |-> "reading", units |-> reader[s].units]
    BY <1>1 DEF CliInv, CliTypes, ReadingType
  <1>2. \E x \in ReadingType :
            reader' = [reader EXCEPT ![s] = x] /\ HandsOn(s, x)
    <2>1. CASE Cli!Read(s)
      <3>1. PICK n \in 1 .. MaxRead :
              IF reader[s].units + n > MaxOutput
              THEN /\ reader' = [reader EXCEPT ![s] =
                                   [at |-> "cut", units |-> MaxOutput]]
                   /\ emitted' = emitted
              ELSE /\ reader' = [reader EXCEPT ![s].units =
                                   reader[s].units + n]
                   /\ emitted' = IF s = "stdout"
                                 THEN Cli!WholeLines(reader[s].units + n)
                                 ELSE emitted
        BY <2>1 DEF Cli!Read
      <3>2. CASE reader[s].units + n > MaxOutput
        <4> DEFINE x == [at |-> "cut", units |-> MaxOutput]
        <4>1. x \in ReadingType /\ HandsOn(s, x)
          BY <3>1, <3>2, ServicesAssumption DEF ReadingType, HandsOn
        <4>2. QED  BY <3>1, <3>2, <4>1
      <3>3. CASE ~(reader[s].units + n > MaxOutput)
        <4> DEFINE x == [at |-> "reading", units |-> reader[s].units + n]
        <4>1. reader[s].units + n \in 0 .. MaxOutput
          BY <1>1, <3>3, ServicesAssumption
        <4>2. x \in ReadingType
          BY <4>1 DEF ReadingType
        <4>3. HandsOn(s, x)
          BY <3>1, <3>3 DEF HandsOn
        <4>4. reader' = [reader EXCEPT ![s] = x]
          BY <1>9, <3>1, <3>3
        <4>5. QED
          BY <4>2, <4>3, <4>4
      <3>4. QED  BY <3>2, <3>3
    <2>2. CASE Cli!ReadEnd(s)
      <3> DEFINE x == [at |-> "end", units |-> reader[s].units]
      <3>5. reader' = [reader EXCEPT ![s].at = "end"]
        BY <2>2 DEF Cli!ReadEnd, Cli!Stops
      <3>1. reader' = [reader EXCEPT ![s] = x]
        <4> DEFINE u == reader[s].units
        <4>1. reader[s] = [at |-> "reading", units |-> u]
          BY <1>9
        <4>2. x = [at |-> "end", units |-> u]
          OBVIOUS
        <4> HIDE DEF u, x
        <4>3. [reader[s] EXCEPT !.at = "end"] = x
          BY <4>1, <4>2
        <4>4. QED  BY <1>9, <3>5, <4>3
      <3>2. x \in ReadingType
        BY <1>1 DEF ReadingType
      <3>3. HandsOn(s, x)
        BY <2>2 DEF Cli!ReadEnd, HandsOn
      <3>4. QED
        BY <3>1, <3>2, <3>3
    <2>3. CASE Cli!IdleTimeout(s)
      <3> DEFINE x == [at |-> "idle", units |-> reader[s].units]
      <3>5. reader' = [reader EXCEPT ![s].at = "idle"]
        BY <2>3 DEF Cli!IdleTimeout, Cli!Stops
      <3>1. reader' = [reader EXCEPT ![s] = x]
        <4> DEFINE u == reader[s].units
        <4>1. reader[s] = [at |-> "reading", units |-> u]
          BY <1>9
        <4>2. x = [at |-> "idle", units |-> u]
          OBVIOUS
        <4> HIDE DEF u, x
        <4>3. [reader[s] EXCEPT !.at = "idle"] = x
          BY <4>1, <4>2
        <4>4. QED  BY <1>9, <3>5, <4>3
      <3>2. x \in ReadingType
        BY <1>1 DEF ReadingType
      <3>3. HandsOn(s, x)
        BY <2>3 DEF Cli!IdleTimeout, HandsOn
      <3>4. QED
        BY <3>1, <3>2, <3>3
    <2>4. QED
      BY <2>1, <2>2, <2>3
  <1>3. PICK x \in ReadingType :
            reader' = [reader EXCEPT ![s] = x] /\ HandsOn(s, x)
    BY <1>2
  <1>4. x.units \in 0 .. MaxOutput
        /\ Cli!WholeLines(x.units) \in 0 .. MaxOutput
        /\ Cli!WholeLines(Cli!WholeLines(x.units)) = Cli!WholeLines(x.units)
    <2>1. x.units \in 0 .. MaxOutput /\ x.units \in Nat
      BY ServicesAssumption DEF ReadingType
    <2>2. QED  BY <2>1, HalfLines, ServicesAssumption
  <1>5. CliTypes'
    BY <1>1, <1>3, <1>4 DEF CliInv, CliTypes, ReadingType, HandsOn
  <1>6. PlaceOfExecution' /\ HelperIsReached'
    BY <1>1 DEF CliInv, PlaceOfExecution, HelperIsReached
  <1>7. Cli!LinesAreWhole'
    <2>1. reader'["stdout"] = IF s = "stdout" THEN x ELSE reader["stdout"]
      BY <1>3 DEF CliInv, CliTypes, Cli!Stream
    <2>2. QED
      BY <1>1, <1>3, <1>4, <2>1 DEF CliInv, Cli!LinesAreWhole, HandsOn
  <1>8. QED
    BY <1>5, <1>6, <1>7 DEF CliInv

LEMMA CliStep == ASSUME CliInv, [Cli!Next]_execution PROVE CliInv'
  <1>1. CASE UNCHANGED execution
    BY <1>1 DEF execution, CliInv, CliTypes, PlaceOfExecution,
       HelperIsReached, Cli!LinesAreWhole
  <1>2. CASE Cli!Next
    BY <1>2, CliProcesses, CliExecutes, CliWatch DEF Cli!Next, Cli!Watch
  <1>3. QED
    BY <1>1, <1>2

\* Whatever the child does with its streams and with signals, and wherever the
\* wall clock cuts the execution: nobody that heeds SIGTERM is left when the
\* caller has its result, success is a child that ended so itself, and the
\* line sink gets whole lines (cli_executor/executor.rs:296, watchdog.rs:115).
THEOREM ResultsAreTrue == ServicesSpec => []ResultIsTrue
  <1> DEFINE state == <<service, vars, resources, lifecycle, errors, tool,
                        execution>>
  <1>1. ServicesInit => CliInv
    BY CliInit DEF ServicesInit
  <1>2. CliInv /\ [ServicesNext]_state => CliInv'
    <2> SUFFICES ASSUME CliInv, [ServicesNext]_state PROVE CliInv'
      OBVIOUS
    <2>1. [Cli!Next]_execution
      BY DEF ServicesNext
    <2>2. QED
      BY <2>1, CliStep
  <1>3. CliInv => ResultIsTrue
    BY DEF CliInv, CliTypes, PlaceOfExecution, HelperIsReached, ResultIsTrue,
       ReadingType, Cli!ResultIsTrue, Cli!TypeOK, Cli!NobodyIsLeft
  <1>4. ServicesSpec => ServicesInit /\ [][ServicesNext]_state
    BY DEF ServicesSpec
  <1>5. QED
    BY <1>1, <1>2, <1>3, <1>4, PTL

=============================================================================
