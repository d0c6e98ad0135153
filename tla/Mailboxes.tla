----------------------------- MODULE Mailboxes -----------------------------
(* What the bus promises its agents, whatever its loops and callers do at    *)
(* the same time.  Messages are taken up in the order of their sending.  One *)
(* goes into the box of its addressee, behind all that ever came there; only *)
(* if there is no box, or a full one, it becomes a dead letter, and so does  *)
(* one that gets too old in its box.  A publication is copied for each of    *)
(* its subscribers before the next message is taken up.  A request is        *)
(* answered once, by an answer to what somebody fetched.  What was fetched,  *)
(* died or ended stays so.                                                   *)
(*                                                                           *)
(* A message is <<n, k>>: the n-th that was sent, and k > 0 for its copies.  *)
EXTENDS Naturals, Sequences, FiniteSets

CONSTANTS Agent, Size

VARIABLES
    open,
    issued,         \* kind, addressee and request of each message sent
    asked,          \* requests made
    pending,        \* those that wait for an answer
    registered,     \* agents with a box
    subscribers,
    left,           \* subscribers the last publication has still to reach
    transit,        \* messages that were not yet taken up
    copied,         \* copies made for subscribers
    box,            \* messages in the box of each agent
    fetched,        \* messages each agent has fetched
    aged,           \* messages that are too old
    lapsed,         \* taken out of a box for that
    dead,           \* dead letters, those that had to make room included
    ended           \* published, given to the caller, or discarded

vars == <<open, issued, asked, pending, registered, subscribers, left,
          transit, copied, box, fetched, aged, lapsed, dead, ended>>

sending == <<open, issued, asked, subscribers>>
ends == <<aged, lapsed, dead, ended>>

Init ==
    /\ open = TRUE
    /\ issued = <<>> /\ asked = 0 /\ pending = {}
    /\ registered \subseteq Agent /\ subscribers = <<>> /\ left = <<>>
    /\ transit = {} /\ copied = {}
    /\ box = [a \in Agent |-> {}] /\ fetched = [a \in Agent |-> {}]
    /\ aged = {} /\ lapsed = {} /\ dead = {} /\ ended = {}

Earlier(l, m) == l[1] < m[1] \/ (l[1] = m[1] /\ l[2] < m[2])

Kind(m) == issued[m[1]].kind

-----------------------------------------------------------------------------
(* Senders *)

\* Who may be sent a message of each kind.
Sendable(x) ==
    \/ x.kind = "direct" /\ x.to \in Agent
    \/ x.kind = "publish" /\ x.to = "topic"
    \/ x.kind = "request" /\ x.to \in Agent /\ x.id \in 1 .. asked
    \/ /\ x.kind = "response" /\ x.to = "system"
       /\ \E a \in Agent : \E m \in fetched[a] :
             Kind(m) = "request" /\ issued[m[1]].id = x.id

Accept ==
    /\ open
    /\ issued' # issued /\ issued' = Append(issued, issued'[Len(issued')])
    /\ Sendable(issued'[Len(issued')])
    /\ transit' = transit \union {<<Len(issued'), 0>>}
    /\ UNCHANGED <<open, asked, pending, registered, subscribers, left,
                   copied, box, fetched, ends>>

Ask ==
    /\ open
    /\ asked' = asked + 1 /\ pending' = pending \union {asked + 1}
    /\ UNCHANGED <<open, issued, registered, subscribers, left, transit,
                   copied, box, fetched, ends>>

Withdraw ==
    /\ \E id \in pending : pending' = pending \ {id}
    /\ UNCHANGED <<sending, registered, left, transit, copied, box, fetched,
                   ends>>

\* Agents subscribe and unsubscribe.
Subscribe ==
    /\ subscribers' # subscribers
    /\ UNCHANGED <<open, issued, asked, pending, registered, left, transit,
                   copied, box, fetched, ends>>

-----------------------------------------------------------------------------
(* Messages on their way *)

\* Messages are taken up in their order, and one at a time.
Leaves(m) ==
    /\ m \in transit /\ \A l \in transit \ {m} : Earlier(m, l)
    /\ transit' = transit \ {m}

IsCopy(m) == m[2] > 0

\* A copy is for the next of the subscribers, who is then served.
Reaches(m, a) ==
    IF IsCopy(m) THEN left # <<>> /\ Head(left) = a /\ left' = Tail(left)
    ELSE left = <<>> /\ issued[m[1]].to = a /\ UNCHANGED left

Free(a) == a \in registered /\ Cardinality(box[a]) < Size

Deliver(m, a) ==
    /\ Leaves(m) /\ Reaches(m, a) /\ Free(a)
    /\ \A l \in box[a] \union fetched[a] : Earlier(l, m)
    /\ box' = [box EXCEPT ![a] = @ \union {m}]
    /\ UNCHANGED <<sending, pending, registered, copied, fetched, ends>>

\* The bus itself, the addressee of an answer, has no box.
Refuse(m, a) ==
    /\ Leaves(m) /\ Reaches(m, a) /\ ~Free(a)
    /\ dead' = dead \union {m}
    /\ UNCHANGED <<sending, pending, registered, copied, box, fetched, aged,
                   lapsed, ended>>

Publish(m) ==
    /\ Leaves(m) /\ Kind(m) = "publish" /\ ~IsCopy(m) /\ left = <<>>
    /\ left' = subscribers
    /\ ended' = ended \union {m}
    /\ UNCHANGED <<sending, pending, registered, copied, box, fetched, aged,
                   lapsed, dead>>

Copy(m) ==
    /\ Kind(m) = "publish" /\ IsCopy(m) /\ <<m[1], 0>> \in ended
    /\ left # <<>>
    /\ m \notin copied /\ \A l \in transit : ~IsCopy(l) /\ Earlier(m, l)
    /\ copied' = copied \union {m} /\ transit' = transit \union {m}
    /\ UNCHANGED <<sending, pending, registered, left, box, fetched, ends>>

Answer(m) ==
    /\ Leaves(m) /\ Kind(m) = "response" /\ issued[m[1]].id \in pending
    /\ left = <<>> /\ UNCHANGED left
    /\ pending' = pending \ {issued[m[1]].id}
    /\ ended' = ended \union {m}
    /\ UNCHANGED <<sending, registered, copied, box, fetched, aged, lapsed,
                   dead>>

-----------------------------------------------------------------------------
(* Boxes *)

Fetch(a) ==
    /\ a \in registered
    /\ fetched' = [fetched EXCEPT ![a] = @ \union box[a]]
    /\ box' = [box EXCEPT ![a] = {}]
    /\ UNCHANGED <<sending, pending, registered, left, transit, copied, ends>>

\* An agent is registered, anew perhaps, or unregistered.
Rebox(a) ==
    /\ registered' \in {registered \union {a}, registered \ {a}}
    /\ ended' = ended \union box[a]
    /\ box' = [box EXCEPT ![a] = {}]
    /\ UNCHANGED <<sending, pending, left, transit, copied, fetched, aged,
                   lapsed, dead>>

Age ==
    /\ \E m \in ({<<n, 0>> : n \in DOMAIN issued} \union copied) :
          aged' = aged \union {m}
    /\ UNCHANGED <<sending, pending, registered, left, transit, copied, box,
                   fetched, lapsed, dead, ended>>

Expire ==
    /\ box' = [a \in Agent |-> box[a] \ aged]
    /\ lapsed' = lapsed \union UNION {box[a] \intersect aged : a \in Agent}
    /\ UNCHANGED <<sending, pending, registered, left, transit, copied,
                   fetched, aged, dead, ended>>

Bury(m) ==
    /\ m \in lapsed
    /\ lapsed' = lapsed \ {m} /\ dead' = dead \union {m}
    /\ UNCHANGED <<sending, pending, registered, left, transit, copied, box,
                   fetched, aged, ended>>

\* A shutdown may lose what is on its way.
Close ==
    /\ open /\ open' = FALSE
    /\ \/ UNCHANGED <<transit, ended>>
       \/ transit' = {} /\ ended' = ended \union transit
    /\ UNCHANGED <<issued, asked, pending, registered, subscribers, left,
                   copied, box, fetched, aged, lapsed, dead>>

-----------------------------------------------------------------------------

Next ==
    \/ Accept \/ Ask \/ Withdraw \/ Subscribe
    \/ \E m \in transit :
          \/ \E a \in Agent \union {"system"} : Deliver(m, a) \/ Refuse(m, a)
          \/ Publish(m) \/ Answer(m)
    \/ \E m \in copied' : Copy(m)
    \/ \E a \in Agent : Fetch(a) \/ Rebox(a)
    \/ Age \/ Expire \/ \E m \in lapsed : Bury(m)
    \/ Close

Spec == Init /\ [][Next]_vars
=============================================================================
