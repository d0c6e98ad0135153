--------------------------- MODULE CircuitBreaker ---------------------------
(* The per-tool circuit breakers of the reasoning loop                       *)
(* (crates/runtime/src/reasoning/circuit_breaker.rs) together with their     *)
(* only in-tree client, DefaultActionExecutor (executor.rs): a batch of tool *)
(* calls first asks the breakers about EVERY call, then runs the admitted    *)
(* ones concurrently and reports each observation as it arrives.  Several    *)
(* loops share one registry, so batches overlap, and the wall-clock timeout  *)
(* of a loop may drop a batch between two awaits.                            *)
(*                                                                           *)
(* Time is abstracted to one bit per breaker: whether recovery_timeout has   *)
(* elapsed since opened_at.  success_count and last_failure are written and  *)
(* never read by the code, and are left out.                                 *)
EXTENDS Integers, Sequences, FiniteSets

CONSTANTS
    Tools,                \* tool names
    Batches,              \* concurrent execute_actions invocations
    MaxCalls,             \* bound: tool calls in one model turn
    FailureCap,           \* bound: where the count of failures saturates
    failure_threshold,    \* CircuitBreakerConfig::failure_threshold
    half_open_max_calls   \* CircuitBreakerConfig::half_open_max_calls

ASSUME ConfigAssumption ==
    /\ failure_threshold \in Nat \ {0}
    /\ half_open_max_calls \in Nat \ {0}
    /\ MaxCalls \in Nat \ {0}
    /\ FailureCap \in Nat
    /\ FailureCap >= failure_threshold

VARIABLES
    breakers,   \* CircuitBreakerRegistry::breakers
    batches,    \* the batches in progress: what they asked and were told
    probes      \* history: calls admitted in a tool's current half-open period
                \* that still run

vars == <<breakers, batches, probes>>

Verdicts == {"normal", "probe", "rejected"}

NewBreaker == [state |-> "Closed", failure_count |-> 0,
               half_open_calls |-> 0, elapsed |-> FALSE]

\* No execute_actions call is in progress.
Idle == [calls |-> <<>>, verdicts |-> <<>>, recorded |-> {}]

(* An absent registry entry behaves as a new breaker: check and               *)
(* record_failure insert one, and record_success follows a check.            *)
Init ==
    /\ breakers = [t \in Tools |-> NewBreaker]
    /\ batches = [b \in Batches |-> Idle]
    /\ probes = [t \in Tools |-> {}]

-----------------------------------------------------------------------------
(* CircuitBreaker::check, record_success and record_failure.                 *)

RecoveryDue(br) == br.state = "Open" /\ br.elapsed

Verdict(br) ==
    CASE br.state = "Closed" -> "normal"
      [] RecoveryDue(br) -> "probe"
      [] br.state = "HalfOpen" /\ br.half_open_calls < half_open_max_calls -> "probe"
      [] OTHER -> "rejected"

AfterCheck(br) ==
    IF Verdict(br) = "probe"
    THEN [br EXCEPT !.state = "HalfOpen", !.elapsed = FALSE,
                    !.half_open_calls = IF br.state = "Open" THEN 1 ELSE @ + 1]
    ELSE br

AfterSuccess(br) ==
    CASE br.state = "Closed" -> [br EXCEPT !.failure_count = 0]
      [] br.state = "HalfOpen" -> NewBreaker
      [] br.state = "Open" -> [br EXCEPT !.state = "Closed", !.elapsed = FALSE,
                                         !.failure_count = 0]

OneMoreFailure(n) == IF n < FailureCap THEN n + 1 ELSE n

Opened(br) == [br EXCEPT !.state = "Open", !.elapsed = FALSE]

\* Faulty variant: reopening keeps the quota used so far.
AfterFailureKeepingQuota(br) ==
    LET counted == [br EXCEPT !.failure_count = OneMoreFailure(@)]
    IN  IF br.state = "Closed" /\ counted.failure_count < failure_threshold
        THEN counted
        ELSE Opened(IF br.state = "HalfOpen" THEN br ELSE counted)

AfterFailure(br) ==
    LET counted == [br EXCEPT !.failure_count = OneMoreFailure(@)]
    IN  CASE br.state = "Closed" ->
               IF counted.failure_count >= failure_threshold
               THEN Opened(counted) ELSE counted
          [] br.state = "HalfOpen" -> [Opened(br) EXCEPT !.half_open_calls = 0]
          [] br.state = "Open" -> counted

-----------------------------------------------------------------------------
(* DefaultActionExecutor::execute_actions.                                   *)

Running(b) == batches[b].calls # <<>>
Checked(b) == Len(batches[b].verdicts) = Len(batches[b].calls)

\* A turn's tool calls reach the executor; several may name the same tool.
Start(b) ==
    /\ ~Running(b)
    /\ \E n \in 1..MaxCalls : \E calls \in [1..n -> Tools] :
           batches' = [batches EXCEPT ![b].calls = calls]
    /\ UNCHANGED <<breakers, probes>>

\* circuit_breakers.check for the next call of the batch.
Check(b) ==
    LET i == Len(batches[b].verdicts) + 1
        t == batches[b].calls[i]
        v == Verdict(breakers[t])
    IN  /\ Running(b)
        /\ ~Checked(b)
        /\ batches' = [batches EXCEPT ![b].verdicts = Append(@, v)]
        /\ breakers' = [breakers EXCEPT ![t] = AfterCheck(@)]
        /\ probes' = [probes EXCEPT ![t] = IF v = "probe" THEN @ \cup {<<b, i>>} ELSE @]

\* Faulty variant: the observation of a rejected call is not recorded.
AfterObservationIfAdmitted(br, verdict, ok) ==
    IF verdict = "rejected" THEN br
    ELSE IF ok THEN AfterSuccess(br) ELSE AfterFailure(br)

\* is_error alone decides what is recorded: a rejected call is an error too.
AfterObservation(br, verdict, ok) ==
    IF ok THEN AfterSuccess(br) ELSE AfterFailure(br)

(* The observation of call i arrives and is recorded: an admitted call       *)
(* succeeds, fails or times out, a rejected one is an error.  The last one   *)
(* ends the batch.                                                           *)
Record(b, i, ok) ==
    LET t == batches[b].calls[i]
        br == AfterObservation(breakers[t], batches[b].verdicts[i], ok)
        recorded == batches[b].recorded \cup {i}
    IN  /\ Running(b)
        /\ Checked(b)
        /\ i \notin batches[b].recorded
        /\ ok => batches[b].verdicts[i] # "rejected"
        /\ breakers' = [breakers EXCEPT ![t] = br]
        /\ batches' = [batches EXCEPT ![b] =
               IF recorded = DOMAIN batches[b].calls THEN Idle
               ELSE [@ EXCEPT !.recorded = recorded]]
        /\ probes' = [probes EXCEPT ![t] =
               IF br.state = "HalfOpen" THEN @ \ {<<b, i>>} ELSE {}]

Report(b) == \E i \in DOMAIN batches[b].calls, ok \in BOOLEAN : Record(b, i, ok)

\* The loop's timeout drops the batch; its calls report nothing.
Cancel(b) ==
    /\ Running(b)
    /\ batches' = [batches EXCEPT ![b] = Idle]
    /\ probes' = [t \in Tools |-> {p \in probes[t] : p[1] # b}]
    /\ UNCHANGED breakers

\* recovery_timeout passes since opened_at.
RecoveryElapsed(t) ==
    /\ breakers[t].state = "Open"
    /\ ~breakers[t].elapsed
    /\ breakers' = [breakers EXCEPT ![t].elapsed = TRUE]
    /\ UNCHANGED <<batches, probes>>

Next ==
    \/ \E b \in Batches : Start(b) \/ Check(b) \/ Report(b) \/ Cancel(b)
    \/ \E t \in Tools : RecoveryElapsed(t)

Spec == Init /\ [][Next]_vars

(* The executor polls its futures until each has reported, and the workload  *)
(* keeps calling tools.                                                      *)
Fairness == \A b \in Batches :
    WF_vars(Start(b)) /\ WF_vars(Check(b)) /\ WF_vars(Report(b))

FairSpec == Spec /\ Fairness

-----------------------------------------------------------------------------
(* Properties.                                                               *)

Breaker == [state : {"Closed", "Open", "HalfOpen"}, failure_count : 0..FailureCap,
            half_open_calls : 0..half_open_max_calls, elapsed : BOOLEAN]

\* Every variable has its type; a batch has asked about a prefix of its calls.
TypeOK ==
    /\ breakers \in [Tools -> Breaker]
    /\ batches \in [Batches -> [calls : Seq(Tools), verdicts : Seq(Verdicts),
                                recorded : SUBSET Nat]]
    /\ \A b \in Batches :
           /\ Len(batches[b].verdicts) <= Len(batches[b].calls)
           /\ batches[b].recorded \subseteq DOMAIN batches[b].calls
    /\ probes \in [Tools -> SUBSET (Batches \X Nat)]

(* The breaker has tripped exactly when the failures recorded since the last *)
(* success reach the threshold, whatever the order in which results of       *)
(* overlapping batches arrive.                                               *)
TripsAtThreshold ==
    \A t \in Tools :
        breakers[t].state = "Closed" <=> breakers[t].failure_count < failure_threshold

(* "Limited calls allowed to test recovery": of the calls admitted in the    *)
(* current half-open period, never more than half_open_max_calls run, each   *)
(* of them is accounted for by the breaker, and outside a half-open period   *)
(* no admission is left over to shorten the next one.                        *)
ProbesAreLimited ==
    \A t \in Tools :
        /\ Cardinality(probes[t]) <= breakers[t].half_open_calls
        /\ breakers[t].half_open_calls <= half_open_max_calls
        /\ breakers[t].state # "HalfOpen" => breakers[t].half_open_calls = 0

\* The two together: when a circuit opens, and what it admits while half-open
\* (circuit_breaker.rs:107).
BreakerIsSound == TripsAtThreshold /\ ProbesAreLimited

(* A half-open circuit is always decided, even when loop timeouts dropped    *)
(* the very probes that used up its quota: once loops stop timing out and    *)
(* the tool is still called, it does not stay half-open.  (The last report   *)
(* of a batch and its cancellation may be the same change of state.)         *)
RecoveryIsDecided ==
    <>[][\A b \in Batches : Cancel(b) => Report(b)]_vars =>
        \A t \in Tools : breakers[t].state = "HalfOpen" ~> breakers[t].state # "HalfOpen"
=============================================================================
