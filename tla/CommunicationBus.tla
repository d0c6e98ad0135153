-------------------------- MODULE CommunicationBus --------------------------
(***************************************************************************)
(* The in-process communication bus (communication/mod.rs): callers put    *)
(* events on an unbounded channel, the event loop turns them into messages *)
(* in the inboxes of the agents or into dead letters, and the cleanup loop *)
(* expires what was not fetched.                                           *)
(*                                                                         *)
(* Every map has a lock of its own.  A section that holds one lock is one  *)
(* step.  Two sections hold several and wait with them: the event loop     *)
(* waits for the dead letters with the tracker and the inboxes, and the    *)
(* cleanup waits for the tracker with the dead letters.                    *)
(*                                                                         *)
(* A message is <<n, k>>: the n-th that was sent, and k > 0 for the copy   *)
(* made for the k-th subscriber of a publication.                          *)
(***************************************************************************)
EXTENDS Naturals, Sequences, SequencesExt, FiniteSets

CONSTANTS Agent,
          Thread,                  \* callers of request
          Registered,              \* agents registered when a run starts
          max_queue_size,
          dead_letter_queue_size,
          MaxMessages,             \* bound: messages sent in a run
          MaxRequests,             \* bound: requests made in a run
          MaxCalls,                \* bound: other operations called in a run
          ShutsDown                \* bound: whether a run has a shutdown

ASSUME BusAssumption ==
    /\ Registered \subseteq Agent /\ {"topic", "system"} \intersect Agent = {}
    /\ max_queue_size \in Nat /\ dead_letter_queue_size \in Nat \ {0}
    /\ MaxMessages \in Nat /\ MaxRequests \in Nat /\ MaxCalls \in Nat
    /\ ShutsDown \in BOOLEAN

VARIABLES
    up,            \* is_running
    issued,        \* what was sent: its kind, to whom, and which request it is
    events,        \* the channel to the event loop
    work,          \* the event loop: where it is and what it has in hand
    registered,    \* agents that have an inbox
    inbox,         \* message_queues
    subscribers,   \* of the topic
    tracker,       \* message_tracker: the status of a message
    dead,          \* dead_letter_queue
    pending,       \* pending_requests
    cleanup,       \* the cleanup loop: where it is and what has expired
    aged,          \* messages older than message_ttl
    request,       \* the request of each thread
    asked,         \* requests made
    forsaken,      \* history: requests that ended and left their entry behind
    calls,         \* other operations called
    stopping,      \* shutdown: where it is and whom it has still to unregister
    copied,        \* history: the copies made for subscribers
    received,      \* history: what each agent has fetched
    evicted,       \* history: dead letters that made room for others
    gone           \* history: messages that came to another end

callers == <<issued, request, asked, forsaken, calls>>
agents == <<registered, inbox, subscribers>>
letters == <<tracker, dead, evicted>>
history == <<copied, received, gone>>

vars == <<up, events, work, pending, cleanup, aged, stopping, callers, agents,
          letters, history>>

None == <<0, 0>>

Idle == [at |-> "idle", msg |-> None, to |-> "topic", todo |-> <<>>]

NoRequest == [at |-> "none", id |-> 0, to |-> "topic"]

Init ==
    /\ up = TRUE
    /\ issued = <<>> /\ events = <<>> /\ work = Idle
    /\ registered = Registered
    /\ inbox = [a \in Agent |-> <<>>]
    /\ subscribers = <<>>
    /\ tracker = [m \in {} |-> "Pending"]
    /\ dead = <<>> /\ pending = {}
    /\ cleanup = [at |-> "idle", expired |-> {}]
    /\ aged = {}
    /\ request = [t \in Thread |-> NoRequest] /\ asked = 0
    /\ forsaken = {} /\ calls = 0
    /\ stopping = [at |-> "none", left |-> {}]
    /\ copied = {} /\ received = [a \in Agent |-> <<>>]
    /\ evicted = {} /\ gone = {}

-----------------------------------------------------------------------------
(* The locks that a loop may hold while it waits for another *)

Burying == work.at = "bury"
Moving == cleanup.at = "move"

\* Held by the event loop while it waits for the dead letters.
TrackerFree == ~Burying
QueuesFree == ~Burying

\* Faulty variant: the dead letters stay locked to the end of the pass.
LockedToTheEnd == cleanup.at \notin {"move", "forget"}

\* Held by the cleanup while it waits for the tracker.
DeadLettersFree == ~Moving

-----------------------------------------------------------------------------
(* What callers do *)

Event(op, a, m) == [op |-> op, agent |-> a, msg |-> m]

\* send_event fails once the event loop has dropped its end of the channel.
Post(e) ==
    events' = IF work.at = "stopped" THEN events ELSE Append(events, e)

HasNumber == Len(issued) < MaxMessages

\* The message gets the next number, in the order of the channel.
Issue(kind, to, id) ==
    /\ HasNumber
    /\ issued' = Append(issued, [kind |-> kind, to |-> to, id |-> id])
    /\ Post(Event("message", to, <<Len(issued) + 1, 0>>))

\* send_message and publish; what they refuse, because it is too large or not
\* signed by this bus, changes nothing.
Send ==
    /\ up
    /\ \/ \E a \in Agent : Issue("direct", a, 0)
       \/ Issue("publish", "topic", 0)
    /\ UNCHANGED <<up, work, pending, cleanup, aged, stopping, request, asked,
                   forsaken, calls, agents, letters, history>>

\* An agent answers a request that it fetched, perhaps more than once.  The
\* answer is addressed to the agent of the bus itself, which has no inbox.
Respond ==
    /\ up
    /\ \E a \in Agent : \E i \in DOMAIN received[a] :
          /\ issued[received[a][i][1]].kind = "request"
          /\ Issue("response", "system", issued[received[a][i][1]].id)
    /\ UNCHANGED <<up, work, pending, cleanup, aged, stopping, request, asked,
                   forsaken, calls, agents, letters, history>>

Call == calls < MaxCalls /\ calls' = calls + 1

Register(a) ==
    /\ Call
    /\ \E op \in {"register", "unregister"} : Post(Event(op, a, None))
    /\ UNCHANGED <<up, work, pending, cleanup, aged, stopping, issued, request,
                   asked, forsaken, agents, letters, history>>

Subscribe(a) ==
    /\ Call
    /\ subscribers' = Append(subscribers, a)
    /\ UNCHANGED <<up, events, work, pending, cleanup, aged, stopping, issued,
                   request, asked, forsaken, registered, inbox, letters,
                   history>>

\* Vec::retain: what is not in drop, in its order.  A recursive function stands
\* for SelectSeq, which the proofs could not look into.
Retain(s, drop) ==
    LET kept[i \in 0 .. Len(s)] ==
            IF i = 0 THEN <<>>
            ELSE IF s[i] \in drop THEN kept[i - 1]
            ELSE Append(kept[i - 1], s[i])
    IN kept[Len(s)]

Unsubscribe(a) ==
    /\ Call
    /\ subscribers' = Retain(subscribers, {a})
    /\ UNCHANGED <<up, events, work, pending, cleanup, aged, stopping, issued,
                   request, asked, forsaken, registered, inbox, letters,
                   history>>

\* Faulty variant: the messages are handed out and kept.
ReceiveCopy(a) ==
    /\ a \in registered /\ QueuesFree /\ inbox[a] # <<>>
    /\ received' = [received EXCEPT ![a] = @ \o inbox[a]]
    /\ UNCHANGED <<up, events, work, pending, cleanup, aged, stopping, callers,
                   agents, letters, copied, gone>>

\* receive_messages: the agent fetches all it has.
Receive(a) ==
    /\ a \in registered /\ QueuesFree /\ inbox[a] # <<>>
    /\ inbox' = [inbox EXCEPT ![a] = <<>>]
    /\ received' = [received EXCEPT ![a] = @ \o inbox[a]]
    /\ UNCHANGED <<up, events, work, pending, cleanup, aged, stopping, callers,
                   registered, subscribers, letters, copied, gone>>

-----------------------------------------------------------------------------
(* request: the entry, the message, the wait *)

SetRequest(t, r) == request' = [request EXCEPT ![t] = r]

BeginRequest(t) ==
    /\ up /\ request[t] = NoRequest /\ asked < MaxRequests
    /\ asked' = asked + 1 /\ UNCHANGED forsaken
    /\ pending' = pending \union {asked + 1}
    /\ \E a \in Agent :
          SetRequest(t, [at |-> "send", id |-> asked + 1, to |-> a])
    /\ UNCHANGED <<up, events, work, cleanup, aged, stopping, issued, calls,
                   agents, letters, history>>

\* The request of a thread is over, and its entry stays.
Abandon(t) ==
    /\ SetRequest(t, NoRequest)
    /\ forsaken' = forsaken \union {request[t].id}

\* send_message refuses a request that is too large, and any once the bus is
\* shut down: the error is passed on at once.
SendRequest(t) ==
    /\ request[t].at = "send"
    /\ \/ /\ up
          /\ Issue("request", request[t].to, request[t].id)
          /\ SetRequest(t, [request[t] EXCEPT !.at = "wait"])
          /\ UNCHANGED forsaken
       \/ Abandon(t) /\ UNCHANGED <<issued, events>>
    /\ UNCHANGED <<up, work, pending, cleanup, aged, stopping, asked, calls,
                   agents, letters, history>>

\* The caller of request is dropped while it waits.
Drop(t) ==
    /\ request[t].at = "wait"
    /\ Abandon(t)
    /\ UNCHANGED <<up, events, work, pending, cleanup, aged, stopping, issued,
                   asked, calls, agents, letters, history>>

\* The timer wins: an answer that comes now finds no receiver.
Timeout(t) ==
    /\ request[t].at = "wait"
    /\ SetRequest(t, [request[t] EXCEPT !.at = "withdraw"])
    /\ UNCHANGED <<up, events, work, pending, cleanup, aged, stopping, issued,
                   asked, forsaken, calls, agents, letters, history>>

\* Faulty variant: the entry is left behind.
Forsake(t) ==
    /\ request[t].at = "withdraw"
    /\ SetRequest(t, NoRequest)
    /\ UNCHANGED <<up, events, work, pending, cleanup, aged, stopping, issued,
                   asked, forsaken, calls, agents, letters, history>>

Withdraw(t) ==
    /\ request[t].at = "withdraw"
    /\ pending' = pending \ {request[t].id}
    /\ SetRequest(t, NoRequest)
    /\ UNCHANGED <<up, events, work, cleanup, aged, stopping, issued, asked,
                   forsaken, calls, agents, letters, history>>

ReturnAnswer(t) ==
    /\ request[t].at = "answered"
    /\ SetRequest(t, NoRequest)
    /\ UNCHANGED <<up, events, work, pending, cleanup, aged, stopping, issued,
                   asked, forsaken, calls, agents, letters, history>>

RequestStep(t) ==
    SendRequest(t) \/ Timeout(t) \/ Withdraw(t) \/ ReturnAnswer(t)

-----------------------------------------------------------------------------
(* The event loop *)

Handle(place, m, to, todo) ==
    work' = [at |-> place, msg |-> m, to |-> to, todo |-> todo]

\* The message in hand is done; a publication may have more subscribers.
Done == work' = IF work.todo = <<>> THEN Idle
                ELSE [work EXCEPT !.at = "copy"]

Takes(op) ==
    /\ work.at = "idle" /\ events # <<>> /\ Head(events).op = op
    /\ events' = Tail(events)

TakeMessage ==
    /\ Takes("message")
    /\ LET m == Head(events).msg
           kind == issued[m[1]].kind IN
       CASE kind = "publish" ->
              /\ work' = IF subscribers = <<>> THEN Idle
                         ELSE [at |-> "copy", msg |-> m, to |-> "topic",
                               todo |-> subscribers]
              /\ gone' = gone \union {m}
         [] kind = "response" ->
              Handle("answer", m, "system", <<>>) /\ UNCHANGED gone
         [] OTHER ->
              Handle("deliver", m, issued[m[1]].to, <<>>) /\ UNCHANGED gone
    /\ UNCHANGED <<up, pending, cleanup, aged, stopping, callers, agents,
                   letters, copied, received>>

\* Faulty variant: the request may be answered again.
AnswerAgain ==
    /\ work.at = "answer"
    /\ LET id == issued[work.msg[1]].id IN
       IF id \in pending
       THEN /\ request' = [t \in Thread |->
                  IF request[t].id = id /\ request[t].at = "wait"
                  THEN [request[t] EXCEPT !.at = "answered"] ELSE request[t]]
            /\ gone' = gone \union {work.msg}
            /\ Done /\ UNCHANGED pending
       ELSE /\ work' = [work EXCEPT !.at = "deliver"]
            /\ UNCHANGED <<pending, request, gone>>
    /\ UNCHANGED <<up, events, cleanup, aged, stopping, issued, asked,
                   forsaken, calls, agents, letters, copied, received>>

\* The answer goes to the caller, if the caller still waits for it.
Answer ==
    /\ work.at = "answer"
    /\ LET id == issued[work.msg[1]].id IN
       IF id \in pending
       THEN /\ pending' = pending \ {id}
            /\ request' = [t \in Thread |->
                  IF request[t].id = id /\ request[t].at = "wait"
                  THEN [request[t] EXCEPT !.at = "answered"] ELSE request[t]]
            /\ gone' = gone \union {work.msg}
            /\ Done
       ELSE /\ work' = [work EXCEPT !.at = "deliver"]
            /\ UNCHANGED <<pending, request, gone>>
    /\ UNCHANGED <<up, events, cleanup, aged, stopping, issued, asked,
                   forsaken, calls, agents, letters, copied, received>>

\* The next of the subscribers there were when the publication was taken up
\* gets a copy with an identity of its own.
Copy ==
    /\ work.at = "copy"
    /\ LET m == <<work.msg[1], work.msg[2] + 1>> IN
       /\ Handle("deliver", m, Head(work.todo), Tail(work.todo))
       /\ copied' = copied \union {m}
    /\ UNCHANGED <<up, events, pending, cleanup, aged, stopping, callers,
                   agents, letters, received, gone>>

Track(m, status) ==
    tracker' = [x \in DOMAIN tracker \union {m} |->
                   IF x = m THEN status ELSE tracker[x]]

Queued(s, m) == Append(s, m)

Accepts(a) == a \in registered /\ Len(inbox[a]) < max_queue_size

\* With the tracker and the inboxes locked, the message goes to the inbox, or
\* else the event loop goes on to the dead letters with both.
Deliver ==
    /\ work.at = "deliver"
    /\ IF Accepts(work.to)
       THEN /\ inbox' = [inbox EXCEPT ![work.to] = Queued(@, work.msg)]
            /\ Track(work.msg, "Delivered")
            /\ Done
       ELSE /\ Track(work.msg, "Pending")
            /\ work' = [work EXCEPT !.at = "bury"]
            /\ UNCHANGED inbox
    /\ UNCHANGED <<up, events, pending, cleanup, aged, stopping, callers,
                   registered, subscribers, dead, evicted, history>>

\* DeadLetterQueue::add_message: the oldest makes room.
AddDeadLetter(m) ==
    IF Len(dead) < dead_letter_queue_size
    THEN dead' = Append(dead, m) /\ UNCHANGED evicted
    ELSE /\ dead' = Append(Tail(dead), m)
         /\ evicted' = evicted \union {Head(dead)}

Bury ==
    /\ Burying /\ DeadLettersFree
    /\ AddDeadLetter(work.msg)
    /\ Track(work.msg, "Failed")
    /\ Done
    /\ UNCHANGED <<up, events, pending, cleanup, aged, stopping, callers,
                   agents, history>>

\* An inbox is made anew, or taken away, with what was in it.
ChangeInbox ==
    /\ \/ Takes("register")
          /\ registered' = registered \union {Head(events).agent}
          /\ UNCHANGED work
       \/ Takes("unregister")
          /\ registered' = registered \ {Head(events).agent}
          /\ Handle("prune", None, Head(events).agent, <<>>)
    /\ LET a == Head(events).agent IN
       /\ inbox' = [inbox EXCEPT ![a] = <<>>]
       /\ gone' = gone \union Range(inbox[a])
    /\ UNCHANGED <<up, pending, cleanup, aged, stopping, callers, subscribers,
                   letters, copied, received>>

Prune ==
    /\ work.at = "prune"
    /\ subscribers' = Retain(subscribers, {work.to})
    /\ work' = Idle
    /\ UNCHANGED <<up, events, pending, cleanup, aged, stopping, callers,
                   registered, inbox, letters, history>>

EventLoop ==
    \/ TakeMessage \/ Answer \/ Copy \/ Deliver \/ Bury
    \/ ChangeInbox \/ Prune

-----------------------------------------------------------------------------
(* The cleanup loop *)

Messages == {<<n, 0>> : n \in DOMAIN issued} \union copied

TimePasses(m) ==
    /\ m \in Messages \ aged
    /\ aged' = aged \union {m}
    /\ UNCHANGED <<up, events, work, pending, cleanup, stopping, callers,
                   agents, letters, history>>

InInboxes == UNION {Range(inbox[a]) : a \in Agent}

\* Every minute what is too old leaves the inboxes.
RemoveExpired ==
    /\ cleanup.at = "idle" /\ up /\ QueuesFree
    /\ cleanup' = [at |-> "lock",
                   expired |-> InInboxes \intersect aged]
    /\ inbox' = [a \in Agent |-> Retain(inbox[a], aged)]
    /\ UNCHANGED <<up, events, work, pending, aged, stopping, callers,
                   registered, subscribers, letters, history>>

LockDeadLetters ==
    /\ cleanup.at = "lock" /\ DeadLettersFree
    /\ cleanup' = [cleanup EXCEPT !.at = "move"]
    /\ UNCHANGED <<up, events, work, pending, aged, stopping, callers, agents,
                   letters, history>>

\* Faulty variant: the status of an expired message stays as it was.
FailSilently(m) == UNCHANGED tracker

\* Only a message that is still tracked has a status.
Fail(m) ==
    IF m \in DOMAIN tracker THEN Track(m, "Failed") ELSE UNCHANGED tracker

\* With the dead letters locked, each expired message becomes one and its
\* status is changed under the lock of the tracker.  To add the letter and wait
\* for the tracker without it would look the same to everyone else.
MoveExpired ==
    /\ Moving /\ TrackerFree
    /\ \E m \in cleanup.expired :
          /\ AddDeadLetter(m) /\ Fail(m)
          /\ cleanup' = [cleanup EXCEPT !.expired = @ \ {m}]
    /\ UNCHANGED <<up, events, work, pending, aged, stopping, callers, agents,
                   history>>

UnlockDeadLetters ==
    /\ Moving /\ cleanup.expired = {}
    /\ cleanup' = [cleanup EXCEPT !.at = "forget"]
    /\ UNCHANGED <<up, events, work, pending, aged, stopping, callers, agents,
                   letters, history>>

\* Trackers that are twice as old as a message may become are dropped.  A
\* message in an inbox is not that old: the cleanup would have taken it.
Forget ==
    /\ cleanup.at = "forget" /\ TrackerFree
    /\ cleanup' = [cleanup EXCEPT !.at = "idle"]
    /\ \E old \in SUBSET ((DOMAIN tracker \intersect aged)
                             \ InInboxes) :
          tracker' = [m \in DOMAIN tracker \ old |-> tracker[m]]
    /\ UNCHANGED <<up, events, work, pending, aged, stopping, callers, agents,
                   dead, evicted, history>>

CleanupLoop ==
    \/ RemoveExpired \/ LockDeadLetters \/ MoveExpired \/ UnlockDeadLetters
    \/ Forget

-----------------------------------------------------------------------------
(* Shutdown *)

Sent == {e.msg : e \in {events[i] : i \in {j \in DOMAIN events :
                                              events[j].op = "message"}}}

\* The event loop hears of the shutdown only while it waits for an event.  One
\* that comes before it has woken may be taken up instead, and then the loop
\* goes on for good.
BeginShutdown ==
    /\ up /\ ShutsDown
    /\ up' = FALSE
    /\ stopping' = [stopping EXCEPT !.at = "list"]
    /\ \/ /\ work.at = "idle"
          /\ work' = [Idle EXCEPT !.at = "stopped"]
          /\ events' = <<>> /\ gone' = gone \union Sent
       \/ UNCHANGED <<work, events, gone>>
    /\ UNCHANGED <<pending, cleanup, aged, callers, agents, letters, copied,
                   received>>

ListAgents ==
    /\ stopping.at = "list" /\ QueuesFree
    /\ stopping' = [at |-> "unregister", left |-> registered]
    /\ UNCHANGED <<up, events, work, pending, cleanup, aged, callers, agents,
                   letters, history>>

UnregisterNext ==
    /\ \E a \in stopping.left :
          /\ Post(Event("unregister", a, None))
          /\ stopping' = [stopping EXCEPT !.left = @ \ {a}]
    /\ UNCHANGED <<up, work, pending, cleanup, aged, callers, agents, letters,
                   history>>

Shutdown == BeginShutdown \/ ListAgents \/ UnregisterNext

-----------------------------------------------------------------------------

Next ==
    \/ Send \/ Respond
    \/ \E a \in Agent :
          Register(a) \/ Subscribe(a) \/ Unsubscribe(a) \/ Receive(a)
    \/ \E t \in Thread : BeginRequest(t) \/ RequestStep(t) \/ Drop(t)
    \/ EventLoop
    \/ CleanupLoop
    \/ \E m \in (1 .. MaxMessages) \X (0 .. MaxCalls) : TimePasses(m)
    \/ Shutdown

Spec == Init /\ [][Next]_vars

\* The two loops and the callers are tasks of the runtime, and go on when the
\* lock they wait for is free.
Fairness ==
    /\ WF_vars(EventLoop) /\ WF_vars(CleanupLoop)
    /\ \A t \in Thread : WF_vars(RequestStep(t))

FairSpec == Spec /\ Fairness

-----------------------------------------------------------------------------
(* Properties *)

\* The type of every variable.  Inboxes and dead letters keep within their
\* size, and an agent without an inbox has nothing in one.
TypeOK ==
    /\ up \in BOOLEAN
    /\ \A n \in DOMAIN issued :
          issued[n].kind \in {"direct", "publish", "request", "response"}
    /\ work.at \in {"idle", "answer", "copy", "deliver", "bury", "prune",
                    "stopped"}
    /\ cleanup.at \in {"idle", "lock", "move", "forget"}
    /\ registered \subseteq Agent
    /\ InInboxes \subseteq Messages
    /\ \A a \in Agent : Len(inbox[a]) <= max_queue_size
    /\ \A a \in Agent \ registered : inbox[a] = <<>>
    /\ subscribers \in Seq(Agent)
    /\ DOMAIN tracker \subseteq Messages
    /\ Range(tracker) \subseteq {"Pending", "Delivered", "Failed"}
    /\ Range(dead) \subseteq Messages /\ Len(dead) <= dead_letter_queue_size
    /\ pending \subseteq 1 .. asked
    /\ stopping.at \in {"none", "list", "unregister"}

InHand == IF work.at \in {"answer", "deliver", "bury"} THEN {work.msg} ELSE {}

Places ==
    <<Sent, InHand, InInboxes, cleanup.expired,
      UNION {Range(received[a]) : a \in Agent}, Range(dead), evicted, gone>>

\* Every message that was accepted is at one place: in the channel, in the
\* hands of a loop, in an inbox, fetched, a dead letter, or at a known end
\* (mod.rs:259-352, 416-447).
EachMessageOnce ==
    LET places == Places IN
    \A m \in Messages :
        Cardinality({i \in DOMAIN places : m \in places[i]}) = 1

Earlier(l, m) == l[1] < m[1] \/ (l[1] = m[1] /\ l[2] < m[2])

\* An agent gets its messages in the order in which they were sent, each once,
\* whatever it fetched before and whatever has expired (mod.rs:289, 611).
InOrder ==
    \A a \in Agent :
        LET s == received[a] \o inbox[a] IN
        \A i, j \in DOMAIN s : i < j => Earlier(s[i], s[j])

\* The status of a message tells where it is: what is reported as failed is a
\* dead letter and never reaches an agent, and what is reported as delivered is
\* no dead letter (mod.rs:291-311, 441-445).
StatusIsTrue ==
    \A m \in DOMAIN tracker :
        CASE tracker[m] = "Failed" -> m \in Range(dead) \union evicted
          [] tracker[m] = "Delivered" -> m \notin Range(dead) \union evicted
          [] OTHER -> Burying /\ m = work.msg

\* The subscribers that the publication at hand has not reached, the addressee
\* of the copy in hand included.
Unserved ==
    IF InHand # {} /\ work.msg[2] > 0 THEN <<work.to>> \o work.todo
    ELSE work.todo

\* The bus implements the mailboxes: what one loop, the other and the callers
\* do between two of its steps neither changes the order of messages nor lets
\* one reach somebody else, be answered twice or come back (mod.rs:259-447,
\* 553-622, 690-742).
Boxes == INSTANCE Mailboxes WITH
    open <- up, Size <- max_queue_size,
    transit <- Sent \union InHand, left <- Unserved,
    box <- [a \in Agent |-> Range(inbox[a])],
    fetched <- [a \in Agent |-> Range(received[a])],
    lapsed <- cleanup.expired,
    dead <- Range(dead) \union evicted,
    ended <- gone

ImplementsMailboxes == Boxes!Spec

\* What an agent has fetched and will fetch is in order, and what the tracker
\* says of each message is true.
InboxesAreTrue == TypeOK /\ InOrder /\ StatusIsTrue

\* The two together: where a message is, and what is said of it.
MessagesAreSound == EachMessageOnce /\ InboxesAreTrue

\* Entries and requests agree (mod.rs:713-742).  Who waits has its entry, so
\* that no answer, timer or end of another request cuts it off.  No entry
\* outlives its request, whether it was answered, timed out or both, unless
\* sending was refused or the caller was dropped: these entries stay.
PendingIsWaited ==
    /\ pending \subseteq {request[t].id : t \in Thread} \union forsaken
    /\ \A t \in Thread :
         request[t].at \in {"send", "wait"} => request[t].id \in pending

\* Each loop holds the lock that the other waits for.
CircularWait == Burying /\ Moving /\ cleanup.expired # {}

\* Every event is taken up, unless the event loop was stopped or the two loops
\* wait for each other: nothing else holds it up (mod.rs:194-217).
EventsAreProcessed ==
    \A m \in (1 .. MaxMessages) \X {0} :
        (m \in Sent) ~> (m \notin Sent \/ CircularWait)

\* Locks are taken "in consistent order to prevent deadlocks" (mod.rs:278): the
\* loops never wait for each other.
NoCircularWait == ~CircularWait

=============================================================================
