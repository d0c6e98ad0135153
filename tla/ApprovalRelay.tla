---------------------------- MODULE ApprovalRelay ----------------------------
(***************************************************************************)
(* The approval relay (crates/approval-relay): a request for a person's    *)
(* approval is shown in the terminal (cli.rs) and, if Slack is configured, *)
(* posted there with buttons (slack_relay.rs).  The dispatcher             *)
(* (dispatcher.rs) takes the decision of the channel it hears of first.    *)
(*                                                                         *)
(* Each request has a dispatcher task, a thread that prompts, a task that  *)
(* posts to Slack, and a handler for the press that finds it pending; what *)
(* lies between two awaits is one action.  A prompt cannot be called off:  *)
(* its thread waits for the terminal after Slack has decided.  A channel   *)
(* that holds at most one value is a set with at most one element.         *)
(*                                                                         *)
(* Appends to the audit file are taken to succeed.                         *)
(***************************************************************************)
EXTENDS Naturals, FiniteSets

CONSTANT Request

VARIABLES
    slack,      \* whether Slack is configured
    task,       \* the dispatcher task of each request
    prompt,     \* the thread that prompts for it
    reader,     \* the thread that has the lock of stdin, if any
    typed,      \* what the thread returned
    post,       \* the task that posts to Slack
    pending,    \* requests in the map of the relay
    message,    \* what Slack shows: nothing, buttons or an outcome
    press,      \* the handler of the press: where it is and its decision
    answer,     \* the oneshot from the relay to the dispatcher
    late,       \* requests past expires_at
    audit,      \* the decisions in the audit file
    delivered   \* the decision each caller was given

relay == <<slack, task, prompt, reader, typed, post, pending, message, press,
           answer, late, audit, delivered>>

Outcome == {"approve", "deny", "expired"}

Decision == [outcome : Outcome, by : {"cli", "slack", "system"},
             late : BOOLEAN]

\* A decision carries the time it was made, here as before or after expiry.
Decided(r, outcome, by) ==
    [outcome |-> outcome, by |-> by, late |-> r \in late]

NoPress == [at |-> "none", decision |-> {}]

Init ==
    /\ slack \in BOOLEAN
    /\ task = [r \in Request |-> "none"]
    /\ prompt = [r \in Request |-> "none"]
    /\ reader = {}
    /\ typed = [r \in Request |-> {}]
    /\ post = [r \in Request |-> "none"]
    /\ pending = {}
    /\ message = [r \in Request |-> "none"]
    /\ press = [r \in Request |-> NoPress]
    /\ answer = [r \in Request |-> {}]
    /\ late = {}
    /\ audit = [r \in Request |-> {}]
    /\ delivered = [r \in Request |-> {}]

-----------------------------------------------------------------------------
(* The dispatcher *)

\* A request is received and logged; its post and its prompt are started.
HandleOne(r) ==
    /\ task[r] = "none"
    /\ task' = [task EXCEPT ![r] = "racing"]
    /\ prompt' = [prompt EXCEPT ![r] = "printing"]
    /\ post' = IF slack THEN [post EXCEPT ![r] = "sending"] ELSE post
    /\ UNCHANGED <<slack, reader, typed, pending, message, press, answer, late,
                   audit, delivered>>

\* Time passes expires_at; no task waits for it.
Expire(r) ==
    /\ task[r] # "none"
    /\ late' = late \union {r}
    /\ UNCHANGED <<slack, task, prompt, reader, typed, post, pending, message,
                   press, answer, audit, delivered>>

\* The prompt has returned.  The other channel is dropped and, if the request
\* is pending in Slack, it is taken from there and its message is updated.
CliWins(r) ==
    /\ task[r] = "racing" /\ typed[r] # {}
    /\ task' = [task EXCEPT ![r] = IF r \in pending THEN "updating"
                                   ELSE "cli"]
    /\ pending' = pending \ {r}
    /\ UNCHANGED <<slack, prompt, reader, typed, post, message, press, answer,
                   late, audit, delivered>>

\* chat.update returned; it may have failed.
UpdateMessage(r) ==
    /\ task[r] = "updating"
    /\ \E d \in typed[r] :
         message' \in {message, [message EXCEPT ![r] = d.outcome]}
    /\ task' = [task EXCEPT ![r] = "cli"]
    /\ UNCHANGED <<slack, prompt, reader, typed, post, pending, press, answer,
                   late, audit, delivered>>

\* The decision is logged and sent to the caller.
Deliver(r, d) ==
    /\ audit' = [audit EXCEPT ![r] = @ \union {d}]
    /\ delivered' = [delivered EXCEPT ![r] = {d}]
    /\ task' = [task EXCEPT ![r] = "done"]

DeliverTyped(r) ==
    /\ task[r] = "cli"
    /\ \E d \in typed[r] : Deliver(r, d)
    /\ UNCHANGED <<slack, prompt, reader, typed, post, pending, message, press,
                   answer, late>>

\* A post that fails drops the sender, and so does a press that is dropped.
Closed(r) == post[r] = "failed" \/ press[r].at = "dropped"

\* The relay has answered, or dropped its end: then the request is denied.
SlackWins(r) ==
    /\ task[r] = "racing"
    /\ \/ \E d \in answer[r] : Deliver(r, d)
       \/ Closed(r) /\ Deliver(r, Decided(r, "deny", "system"))
    /\ UNCHANGED <<slack, prompt, reader, typed, post, pending, message, press,
                   answer, late>>

-----------------------------------------------------------------------------
(* The terminal *)

\* The request is printed; a thread that panics denies it.
PrintPrompt(r) ==
    /\ prompt[r] = "printing"
    /\ \/ prompt' = [prompt EXCEPT ![r] = "printed"] /\ UNCHANGED typed
       \/ /\ prompt' = [prompt EXCEPT ![r] = "done"]
          /\ typed' = [typed EXCEPT ![r] = {Decided(r, "deny", "system")}]
    /\ UNCHANGED <<slack, task, reader, post, pending, message, press, answer,
                   late, audit, delivered>>

\* One of the threads that have printed takes the lock of stdin.
Lock(r) ==
    /\ prompt[r] = "printed" /\ reader = {}
    /\ reader' = {r}
    /\ UNCHANGED <<slack, task, prompt, typed, post, pending, message, press,
                   answer, late, audit, delivered>>

\* A line is typed, or reading fails.  It goes to the thread with the lock,
\* whatever request the person was looking at.
Type(r) ==
    /\ r \in reader
    /\ reader' = {}
    /\ prompt' = [prompt EXCEPT ![r] = "done"]
    /\ \E outcome \in {"approve", "deny"} :
         typed' = [typed EXCEPT ![r] = {Decided(r, outcome, "cli")}]
    /\ UNCHANGED <<slack, task, post, pending, message, press, answer, late,
                   audit, delivered>>

-----------------------------------------------------------------------------
(* Slack *)

\* chat.postMessage takes effect: the message is there with its buttons.
Show(r) ==
    /\ post[r] = "sending" /\ message[r] = "none"
    /\ message' = [message EXCEPT ![r] = "buttons"]
    /\ UNCHANGED <<slack, task, prompt, reader, typed, post, pending, press,
                   answer, late, audit, delivered>>

\* The call failed, or its response was lost; or it returned, and the post is
\* logged before the request is listed.
PostReturns(r) ==
    /\ post[r] = "sending"
    /\ \/ post' = [post EXCEPT ![r] = "failed"]
       \/ message[r] # "none" /\ post' = [post EXCEPT ![r] = "posted"]
    /\ UNCHANGED <<slack, task, prompt, reader, typed, pending, message, press,
                   answer, late, audit, delivered>>

\* The request is listed, whatever became of it meanwhile.
ListPending(r) ==
    /\ post[r] = "posted"
    /\ post' = [post EXCEPT ![r] = "listed"]
    /\ pending' = pending \union {r}
    /\ UNCHANGED <<slack, task, prompt, reader, typed, message, press, answer,
                   late, audit, delivered>>

\* What a press decides: after expiry nothing but that.
Pressed(r, action) ==
    Decided(r, IF r \in late THEN "expired" ELSE action, "slack")

\* Faulty variant: the request stays listed until its handler is done.
LookedUp(r) == pending

\* A press removes what it decides, so that no other press decides it.
Taken(r) == pending \ {r}

\* A button is pressed, or Slack repeats the call of a press.  One that does
\* not find the request listed is dropped.
Press(r, action) ==
    /\ message[r] # "none"
    /\ r \in pending
    /\ press' = [press EXCEPT ![r] =
                   [at |-> "deciding", decision |-> {Pressed(r, action)}]]
    /\ pending' = Taken(r)
    /\ UNCHANGED <<slack, task, prompt, reader, typed, post, message, answer,
                   late, audit, delivered>>

\* The decision of a press is logged.
LogPress(r) ==
    /\ press[r].at = "deciding"
    /\ audit' = [audit EXCEPT ![r] = @ \union press[r].decision]
    /\ press' = [press EXCEPT ![r].at = "logged"]
    /\ UNCHANGED <<slack, task, prompt, reader, typed, post, pending, message,
                   answer, late, delivered>>

\* Faulty variant: a message that could not be updated ends the handler.
AnswersIfUpdated(r) ==
    answer' = [answer EXCEPT ![r] =
                 IF task[r] = "racing" /\ message'[r] # "buttons"
                 THEN press[r].decision ELSE @]

\* The dispatcher is sent the decision, if it still listens.
Answers(r) ==
    answer' = [answer EXCEPT ![r] =
                 IF task[r] = "racing" THEN press[r].decision ELSE @]

\* chat.update returned, maybe failed, and the dispatcher is told.
FinishPress(r) ==
    /\ press[r].at = "logged"
    /\ \E d \in press[r].decision :
         message' \in {message, [message EXCEPT ![r] = d.outcome]}
    /\ Answers(r)
    /\ press' = [press EXCEPT ![r].at = "done"]
    /\ UNCHANGED <<slack, task, prompt, reader, typed, post, pending, late,
                   audit, delivered>>

\* Slack does not wait for the answer to its call: the server drops the
\* handler where it stands, the sender with it.
Hangup(r) ==
    /\ \/ press[r].at = "deciding" /\ UNCHANGED message
       \/ /\ press[r].at = "logged"
          /\ \E d \in press[r].decision :
               message' \in {message, [message EXCEPT ![r] = d.outcome]}
    /\ press' = [press EXCEPT ![r].at = "dropped"]
    /\ UNCHANGED <<slack, task, prompt, reader, typed, post, pending, answer,
                   late, audit, delivered>>

-----------------------------------------------------------------------------

\* The dispatcher task decides.
Decide(r) ==
    CliWins(r) \/ UpdateMessage(r) \/ DeliverTyped(r) \/ SlackWins(r)

\* The handler of a press goes on.
HandlePress(r) == LogPress(r) \/ FinishPress(r)

Next ==
    \E r \in Request :
        \/ HandleOne(r) \/ Expire(r) \/ Decide(r) \/ HandlePress(r)
        \/ PrintPrompt(r) \/ Lock(r) \/ Type(r)
        \/ Show(r) \/ PostReturns(r) \/ ListPending(r) \/ Hangup(r)
        \/ \E action \in {"approve", "deny"} : Press(r, action)

\* Tasks that can go on do, and a call of Slack returns, be it with an error;
\* nobody has to type, press or be shown anything.
Fairness ==
    \A r \in Request : WF_relay(Decide(r)) /\ WF_relay(HandlePress(r))

Spec == Init /\ [][Next]_relay /\ Fairness

-----------------------------------------------------------------------------

\* The type of the state.
TypeOK ==
    /\ slack \in BOOLEAN
    /\ task \in [Request -> {"none", "racing", "updating", "cli", "done"}]
    /\ prompt \in [Request -> {"none", "printing", "printed", "done"}]
    /\ reader \subseteq Request /\ Cardinality(reader) <= 1
    /\ \A r \in Request :
         /\ typed[r] \subseteq Decision /\ Cardinality(typed[r]) <= 1
         /\ answer[r] \subseteq Decision
         /\ audit[r] \subseteq Decision
         /\ delivered[r] \subseteq Decision
         /\ press[r].decision \subseteq Decision
         /\ press[r].at \in {"none", "deciding", "logged", "done", "dropped"}
    /\ post \in [Request -> {"none", "sending", "posted", "listed", "failed"}]
    /\ pending \subseteq Request
    /\ message \in [Request -> {"none", "buttons"} \union Outcome]
    /\ late \subseteq Request

\* The audit file: the decision a caller was given is in it, each channel has
\* decided a request at most once, and no press approves an expired request
\* (slack_relay.rs:118).
AuditIsSound == \A r \in Request :
    /\ delivered[r] \subseteq audit[r]
    /\ \A d, e \in audit[r] : d.by = e.by => d = e
    /\ \A d \in audit[r] :
         d.by = "slack" /\ d.late => d.outcome = "expired"

\* What Slack shows of a request whose tasks are done: if it is another
\* outcome than the caller was given, both channels have decided.
MessageIsTrue == \A r \in Request :
    /\ task[r] = "done" /\ press[r].at \in {"none", "done", "dropped"}
    /\ message[r] \in Outcome
    => \/ \E d \in delivered[r] : message[r] = d.outcome
       \/ \E d, e \in audit[r] : d.by = "slack" /\ e.by # "slack"

\* The relay decides a request as its people did, and says so.
RelayIsSound == TypeOK /\ AuditIsSound /\ MessageIsTrue

-----------------------------------------------------------------------------
(* The abstract specification.  The terminal and Slack are voices; a prompt  *)
(* that fails refuses in the name of the system.                             *)

Word(d) == [by |-> d.by, consents |-> d.outcome = "approve"]

Ruling(D) ==
    IF D = {} THEN "none"
    ELSE IF \E d \in D : d.outcome = "approve" THEN "allow" ELSE "deny"

Asking == INSTANCE Consent WITH
    Case <- Request, NeedsConsent <- Request,
    Voice <- {"cli", "slack", "system"},
    said <- [r \in Request |->
               {Word(d) : d \in typed[r] \union press[r].decision}],
    given <- [r \in Request |-> Ruling(delivered[r])]

\* The relay asks for consent: a channel decides a request once, its caller is
\* given one decision, and an approval only if a person approved this request
\* (dispatcher.rs:110).
ImplementsConsent == Asking!Spec

-----------------------------------------------------------------------------

\* A channel has given its answer: a line, a press or its failure.
Answered(r) ==
    typed[r] # {} \/ press[r].decision # {} \/ post[r] = "failed"

\* The caller gets a decision once one channel has answered, also when Slack
\* cannot be updated (dispatcher.rs:110).
AnsweredIsDelivered == \A r \in Request :
    task[r] = "racing" /\ Answered(r) ~> delivered[r] # {}

\* An expired request is denied (types.rs:27, "auto-denied after this"): no
\* approval is given to a caller that was made after the expiry.
ExpiredIsDenied == \A r \in Request :
    \A d \in delivered[r] : d.outcome = "approve" => ~d.late

=============================================================================
