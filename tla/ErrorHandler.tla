---------------------------- MODULE ErrorHandler ----------------------------
(***************************************************************************)
(* The error handler (error_handler/mod.rs): errors are sent to an event   *)
(* loop, which records them, counts them in a breaker of their agent and   *)
(* applies the strategy of their type; a clean-up loop drops old records   *)
(* and is the only one to take a breaker out of Open.                      *)
(*                                                                         *)
(* The records, the breakers and the strategies have a lock each, so an    *)
(* event is handled in three steps and a clearing or a clean-up in two.    *)
(* A recovery is simulated by the code: whether it succeeds depends on the *)
(* strategy only.  Callers may go on for ever: a count that is only        *)
(* compared with its limit stops there.                                    *)
(***************************************************************************)
EXTENDS Naturals, Sequences, FiniteSets

CONSTANTS
    Culprit,        \* agents with errors
    Kind,           \* error types
    Reporter,       \* tasks that call the handler
    Threshold,      \* circuit_breaker_threshold
    MaxHistory,     \* max_error_history
    MaxQueue        \* bound: events in the channel

VARIABLES
    is_running,
    reports,    \* the channel of events
    handling,   \* the event loop: where it is and its event
    cleaning,   \* where the clean-up loop is
    records,    \* error_history: how many records each agent has
    breaker,    \* circuit_breakers
    recovers,   \* whether the strategy of a type is one that succeeds
    asks        \* the operation of each caller

errors == <<is_running, reports, handling, cleaning, records, breaker,
            recovers, asks>>

\* `age` is the time since the last failure: past the timeout of the breaker,
\* or past the aggregation window too.
Breaker == [state : {"absent", "Closed", "Open", "HalfOpen"},
            failures : 0 .. Threshold, age : {"new", "timeout", "window"}]

NoBreaker == [state |-> "absent", failures |-> 0, age |-> "new"]

Event == [agent : Culprit, kind : Kind]

Upto(n, limit) == IF n > limit THEN limit ELSE n

Init ==
    /\ is_running = TRUE
    /\ reports = <<>>
    /\ handling = [at |-> "wait", event |-> {}]
    /\ cleaning = "wait"
    /\ records = [a \in Culprit |-> 0]
    /\ breaker = [a \in Culprit |-> NoBreaker]
    /\ recovers = [k \in Kind |-> TRUE]
    /\ asks = [c \in Reporter |-> [op |-> "none", event |-> {}]]

-----------------------------------------------------------------------------
(* The operations *)

Idle(c) == asks[c].op = "none"

Asks(c, op, set) == asks' = [asks EXCEPT ![c] = [op |-> op, event |-> set]]

\* handle_error refuses after the shutdown, and sends otherwise.
HandleError(c, e) ==
    /\ Idle(c) /\ is_running
    /\ Asks(c, "handle", {e})
    /\ UNCHANGED <<is_running, reports, handling, cleaning, records, breaker,
                   recovers>>

\* The send fails once the event loop has ended.
SendEvent(c) ==
    /\ asks[c].op = "handle" /\ Len(reports) < MaxQueue
    /\ IF handling.at = "stopped" THEN UNCHANGED reports
       ELSE \E e \in asks[c].event : reports' = Append(reports, e)
    /\ Asks(c, "none", {})
    /\ UNCHANGED <<is_running, handling, cleaning, records, breaker, recovers>>

RegisterStrategy(c, k) ==
    /\ Idle(c)
    /\ \E success \in BOOLEAN :
         recovers' = [recovers EXCEPT ![k] = success]
    /\ UNCHANGED <<is_running, reports, handling, cleaning, records, breaker,
                   asks>>

\* clear_error_history takes the records first, then the breaker.
Clear(c, a) ==
    /\ Idle(c)
    /\ records' = [records EXCEPT ![a] = 0]
    /\ \E k \in Kind : Asks(c, "clear", {[agent |-> a, kind |-> k]})
    /\ UNCHANGED <<is_running, reports, handling, cleaning, breaker, recovers>>

ClearBreaker(c) ==
    /\ asks[c].op = "clear"
    /\ \E e \in asks[c].event :
         breaker' = [breaker EXCEPT ![e.agent] = NoBreaker]
    /\ Asks(c, "none", {})
    /\ UNCHANGED <<is_running, reports, handling, cleaning, records, recovers>>

\* Only a loop that waits hears of it; one with an event at hand may take
\* that instead.
Shutdown ==
    /\ is_running
    /\ is_running' = FALSE
    /\ \/ handling.at = "wait" /\ handling' = [handling EXCEPT !.at = "stopped"]
       \/ /\ handling.at # "wait" \/ reports # <<>>
          /\ UNCHANGED handling
    /\ cleaning' = IF cleaning = "wait" THEN "stopped" ELSE cleaning
    /\ UNCHANGED <<reports, records, breaker, recovers, asks>>

-----------------------------------------------------------------------------
(* The event loop *)

\* The error is recorded.
Record ==
    /\ handling.at = "wait" /\ reports # <<>>
    /\ LET e == Head(reports) IN
         /\ records' = [records EXCEPT ![e.agent] = Upto(@ + 1, MaxHistory + 1)]
         /\ handling' = [at |-> "judge", event |-> {e}]
    /\ reports' = Tail(reports)
    /\ UNCHANGED <<is_running, cleaning, breaker, recovers, asks>>

Failed(b) ==
    LET failures == Upto(b.failures + 1, Threshold)
    IN  [state |-> IF failures >= Threshold THEN "Open"
                   ELSE IF b.state = "absent" THEN "Closed" ELSE b.state,
         failures |-> failures, age |-> "new"]

\* Faulty variant: an error that the breaker holds back is a failure too.
BlockedIsFailure(b) == [b EXCEPT !.age = "new"]

\* An open breaker holds the error back, and is left as it is.
Blocked(b) == b

Judge ==
    /\ handling.at = "judge"
    /\ \E e \in handling.event :
         LET b == breaker[e.agent] IN
         IF b.state = "Open"
         THEN /\ breaker' = [breaker EXCEPT ![e.agent] = Blocked(b)]
              /\ handling' = [at |-> "wait", event |-> {}]
         ELSE /\ breaker' = [breaker EXCEPT ![e.agent] = Failed(b)]
              /\ handling' = [handling EXCEPT !.at = "recover"]
    /\ UNCHANGED <<is_running, reports, cleaning, records, recovers, asks>>

\* The strategy is applied; a success resets the breaker, if it is there.
Recover ==
    /\ handling.at = "recover"
    /\ \E e \in handling.event :
         IF recovers[e.kind] /\ breaker[e.agent].state # "absent"
         THEN breaker' = [breaker EXCEPT ![e.agent].state = "Closed",
                                         ![e.agent].failures = 0]
         ELSE UNCHANGED breaker
    /\ handling' = [at |-> "wait", event |-> {}]
    /\ UNCHANGED <<is_running, reports, cleaning, records, recovers, asks>>

EventLoop == Record \/ Judge \/ Recover

-----------------------------------------------------------------------------
(* The clean-up loop *)

\* Records of any age are dropped, and those beyond the limit.
CleanRecords ==
    /\ cleaning = "wait" /\ is_running
    /\ records' \in [Culprit -> 0 .. MaxHistory]
    /\ \A a \in Culprit : records'[a] <= records[a]
    /\ cleaning' = "breakers"
    /\ UNCHANGED <<is_running, reports, handling, breaker, recovers, asks>>

\* Faulty variant: a breaker that is half open counts its failures anew.
UpdatedAnew(b) ==
    IF b.state = "Open" /\ b.age # "new"
    THEN [b EXCEPT !.state = "HalfOpen", !.failures = 0] ELSE b

Updated(b) ==
    IF b.state = "Open" /\ b.age # "new" THEN [b EXCEPT !.state = "HalfOpen"]
    ELSE b

Retained(b) == b.state = "Open" \/ b.age # "window"

\* Open breakers past their timeout become half-open; those that are not open
\* and had no failure lately are dropped.
CleanBreakers ==
    /\ cleaning = "breakers"
    /\ breaker' = [a \in Culprit |->
                     IF Retained(Updated(breaker[a])) THEN Updated(breaker[a])
                     ELSE NoBreaker]
    /\ cleaning' = "wait"
    /\ UNCHANGED <<is_running, reports, handling, records, recovers, asks>>

\* A tick after the shutdown ends the loop.
StopCleaning ==
    /\ cleaning = "wait" /\ ~is_running
    /\ cleaning' = "stopped"
    /\ UNCHANGED <<is_running, reports, handling, records, breaker, recovers,
                   asks>>

CleanupLoop == CleanRecords \/ CleanBreakers \/ StopCleaning

\* Time passes.
Age(a) ==
    /\ breaker[a].state # "absent" /\ breaker[a].age # "window"
    /\ breaker' = [breaker EXCEPT ![a].age =
                     IF @ = "new" THEN "timeout" ELSE "window"]
    /\ UNCHANGED <<is_running, reports, handling, cleaning, records, recovers,
                   asks>>

-----------------------------------------------------------------------------

Next ==
    \/ \E c \in Reporter :
         \/ \E e \in Event : HandleError(c, e)
         \/ \E k \in Kind : RegisterStrategy(c, k)
         \/ \E a \in Culprit : Clear(c, a)
         \/ SendEvent(c) \/ ClearBreaker(c)
    \/ Shutdown
    \/ EventLoop \/ CleanupLoop
    \/ \E a \in Culprit : Age(a)

Fairness ==
    /\ WF_errors(EventLoop) /\ WF_errors(CleanupLoop)
    /\ \A a \in Culprit : WF_errors(Age(a))

Spec == Init /\ [][Next]_errors /\ Fairness

-----------------------------------------------------------------------------

\* Every variable has its type.
TypeOK ==
    /\ is_running \in BOOLEAN
    /\ reports \in Seq(Event) /\ Len(reports) <= MaxQueue
    /\ handling.at \in {"wait", "judge", "recover", "stopped"}
    /\ handling.event \subseteq Event
    /\ cleaning \in {"wait", "breakers", "stopped"}
    /\ records \in [Culprit -> 0 .. MaxHistory + 1]
    /\ breaker \in [Culprit -> Breaker]
    /\ recovers \in [Kind -> BOOLEAN]
    /\ \A c \in Reporter :
         /\ asks[c].op \in {"none", "handle", "clear"}
         /\ asks[c].event \subseteq Event

\* A breaker is open, or was and is half open, exactly when the failures since
\* the last success have reached the threshold, however events, clearings,
\* clean-ups and the passing of time interleave (mod.rs:697).
FailuresAreCounted ==
    /\ TypeOK
    /\ \A a \in Culprit :
         LET tripped == breaker[a].state \in {"Open", "HalfOpen"}
         IN  /\ tripped => breaker[a].failures = Threshold
             /\ breaker[a].failures = Threshold /\ Threshold > 0 => tripped

\* An open breaker does not stay: until the shutdown the clean-up loop lets
\* the agent's errors be handled again, however many are reported meanwhile
\* (mod.rs:419).
OpenIsLeft == \A a \in Culprit :
    breaker[a].state = "Open" ~> breaker[a].state # "Open" \/ ~is_running

=============================================================================
