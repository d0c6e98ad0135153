------------------------------ MODULE MCWaiting ------------------------------
(***************************************************************************)
(* Three parts in which somebody waits for another: a held action for an   *)
(* operator, a request for a person at a terminal or in Slack, and the     *)
(* shutdown of the scheduler for its agents.  They share no state, so that *)
(* in a behaviour one of them is at work and the others stay as they began.*)
(***************************************************************************)
EXTENDS EscalationQueue

CONSTANTS
    Request,
    Thread, Agent, Persistent, Priority, MaxConcurrent, Capacity, ChannelSize,
    MaxTasks, MaxCalls, ShutsDown

VARIABLES
    service,    \* the part at work
    slack, task, prompt, reader, typed, post, pending, message, press, answer,
    late, decided, delivered,
    up, issued, queue, members, loop, allocated, running, suspended, handles,
    commands, executing, expired, failed, stopping, call, calls, sent, gone,
    restored

relay == <<slack, task, prompt, reader, typed, post, pending, message, press,
           answer, late, decided, delivered>>
scheduler == <<up, issued, queue, members, loop, allocated, running, suspended,
               handles, commands, executing, expired, failed, stopping, call,
               calls, sent, gone, restored>>

Relay == INSTANCE ApprovalRelay WITH audit <- decided
Scheduler == INSTANCE AgentScheduler WITH channel <- commands

\* One initial state is enough for a part that is not at work.
WaitingInit ==
    /\ service \in {"escalation", "relay", "scheduler"}
    /\ Init /\ Relay!Init /\ Scheduler!Init
    /\ service # "relay" => slack

WaitingNext ==
    /\ \/ /\ service = "escalation" /\ Next
          /\ UNCHANGED <<relay, scheduler>>
       \/ /\ service = "relay" /\ Relay!Next
          /\ UNCHANGED <<vars, scheduler>>
       \/ /\ service = "scheduler" /\ Scheduler!Next
          /\ UNCHANGED <<vars, relay>>
    /\ UNCHANGED service

\* The fairness of each part, in the behaviours in which it is at work.
EscalationFairness ==
    \A r \in Requests : WF_vars(service = "escalation" /\ Evaluate(r))

RelayFairness ==
    \A r \in Request :
        /\ WF_relay(service = "relay" /\ Relay!Decide(r))
        /\ WF_relay(service = "relay" /\ Relay!HandlePress(r))

SchedulerFairness ==
    /\ WF_scheduler(service = "scheduler" /\ Scheduler!SchedulerLoop)
    /\ WF_scheduler(service = "scheduler" /\
                    (Scheduler!ReceiveStart \/ Scheduler!ReceiveTerminate))
    /\ WF_scheduler(service = "scheduler" /\ Scheduler!EndWhenDue)
    /\ \A i \in Scheduler!Task :
         WF_scheduler(service = "scheduler" /\ Scheduler!TimePasses(i))
    /\ WF_scheduler(service = "scheduler" /\ Scheduler!Scan)
    /\ WF_scheduler(service = "scheduler" /\ Scheduler!Reap)
    /\ WF_scheduler(service = "scheduler" /\ Scheduler!Shutdown)
    /\ \A c \in Scheduler!Caller :
         WF_scheduler(service = "scheduler" /\ Scheduler!Step(c))

WaitingSpec ==
    /\ WaitingInit
    /\ [][WaitingNext]_<<service, vars, relay, scheduler>>
    /\ EscalationFairness /\ RelayFairness /\ SchedulerFairness

-----------------------------------------------------------------------------
(* Properties, stated and commented in the modules of the parts *)

\* Held actions and requests to the relay wait for the consent of people, who
\* decide once (gate.rs:82, dispatcher.rs:110).
ConsentIsAsked == ImplementsConsent /\ Relay!ImplementsConsent

\* What the relay leaves in its audit file and in Slack (slack_relay.rs:118).
RelayIsSound == Relay!RelayIsSound

\* Who answered is heard, though Slack may fail (dispatcher.rs:110).
AnsweredIsDelivered == Relay!AnsweredIsDelivered

\* An expired request is denied (types.rs:24).
ExpiredIsDenied == Relay!ExpiredIsDenied

\* A place in the running map comes free (scheduler/mod.rs:466).
RunningIsReaped == Scheduler!RunningIsReaped

\* A shutdown of the scheduler comes to its end (scheduler/mod.rs:727).
ShutdownEnds == Scheduler!ShutdownEnds

=============================================================================
