---------------------- MODULE CommunicationBus_proofs ----------------------
(***************************************************************************)
(* No message is lost or doubled, each agent gets its messages in order,   *)
(* the tracker tells the truth, and entries and requests agree, for any    *)
(* number of agents, callers and messages and any sizes of the queues.     *)
(*                                                                         *)
(* IInv is inductive.  PlaceInv partitions the messages over the eight     *)
(* places.  OrderInv says that the message in hand comes after all that    *)
(* left the channel and before all that are in it; from it each agent's    *)
(* order follows, and that a copy gets an identity of its own.  RequestInv *)
(* gives each entry of pending_requests to a request in progress or one    *)
(* that was refused or dropped; with IdInv, which says that no answer is   *)
(* on its way to a request not yet sent, who waits keeps its entry.        *)
(*                                                                         *)
(* With MailInv, which says where the message in hand has to go, every     *)
(* step of the bus is a step of the mailboxes it implements, or none.      *)
(***************************************************************************)
EXTENDS CommunicationBus, FiniteSetTheorems, WellFoundedInduction,
        NaturalsInduction, TLAPS

-----------------------------------------------------------------------------
(* The inductive invariant.                                                  *)

Msg == Nat \X Nat

Recipient == Agent \cup {"topic", "system"}

Issues == [kind : {"direct", "publish", "request", "response"},
           to : Recipient, id : Nat]

Events == [op : {"message", "register", "unregister"}, agent : Recipient,
           msg : Msg]

Works == [at : {"idle", "answer", "copy", "deliver", "bury", "prune",
                "stopped"},
          msg : Msg, to : Recipient, todo : Seq(Agent)]

Cleanups == [at : {"idle", "lock", "move", "forget"}, expired : SUBSET Msg]

Requests == [at : {"none", "send", "wait", "withdraw", "answered"},
             id : Nat, to : Recipient]

Stoppings == [at : {"none", "list", "unregister"}, left : SUBSET Agent]

Types ==
    /\ up \in BOOLEAN
    /\ issued \in Seq(Issues) /\ events \in Seq(Events) /\ work \in Works
    /\ registered \in SUBSET Agent /\ inbox \in [Agent -> Seq(Msg)]
    /\ subscribers \in Seq(Agent)
    /\ tracker \in [DOMAIN tracker -> {"Pending", "Delivered", "Failed"}]
    /\ dead \in Seq(Msg)
    /\ cleanup \in Cleanups
    /\ request \in [Thread -> Requests] /\ asked \in Nat
    /\ stopping \in Stoppings
    /\ copied \in SUBSET Msg
    /\ received \in [Agent -> Seq(Msg)]

\* The numbers in the channel rise, and only agents are registered.
ChannelInv ==
    /\ \A i \in DOMAIN events :
          IF events[i].op = "message"
          THEN events[i].msg \in {<<n, 0>> : n \in DOMAIN issued}
          ELSE events[i].agent \in Agent
    /\ \A i, j \in DOMAIN events :
          /\ i < j /\ events[i].op = "message" /\ events[j].op = "message"
          => events[i].msg[1] < events[j].msg[1]

\* The loops have in hand what their next step needs.
LoopInv ==
    /\ work.at = "copy" => work.todo # <<>>
    /\ work.at = "prune" => work.to \in Agent
    /\ up => work.at # "stopped"
    /\ cleanup.at \in {"idle", "forget"} => cleanup.expired = {}
    /\ \A c \in copied : c[1] \in DOMAIN issued /\ c[2] > 0

SizeInv ==
    /\ \A a \in Agent : Len(inbox[a]) <= max_queue_size
    /\ \A a \in Agent \ registered : inbox[a] = <<>>
    /\ Len(dead) <= dead_letter_queue_size

TypeInv == Types /\ ChannelInv /\ LoopInv /\ SizeInv

\* Every message of S is in one of the eight sets of P, and nothing else is.
Once(P, S) ==
    /\ \A k \in 1 .. 8 : P[k] \subseteq S
    /\ \A m \in S : \E k \in 1 .. 8 : \A l \in 1 .. 8 : m \in P[l] <=> l = k

\* The places, and within the inboxes and the dead letters too a message is
\* only once.
PlaceInv ==
    /\ Once(Places, Messages)
    /\ \A a, b \in Agent :
          a # b => Range(inbox[a]) \cap Range(inbox[b]) = {}
    /\ \A i, j \in DOMAIN dead : i # j => dead[i] # dead[j]

\* What has left the channel.
Taken == Messages \ Sent

HasMessage == work.at \in {"answer", "copy", "deliver", "bury"}

\* The channel holds the last messages, and the event loop the last before.
OrderInv ==
    /\ \A s \in Sent, m \in Taken : m[1] < s[1]
    /\ HasMessage => /\ work.msg \in Taken
                     /\ \A m \in Taken : m = work.msg \/ Earlier(m, work.msg)
    /\ InOrder

Ids == {request[t].id : t \in Thread}

\* A request in progress has an identity of its own, and an answer has taken
\* its entry.
RequestInv ==
    /\ pending \subseteq 1 .. asked
    /\ \A t \in Thread :
          /\ request[t].at = "none" <=> request[t].id = 0
          /\ request[t].at = "none" <=> request[t] = NoRequest
          /\ request[t].id <= asked
          /\ request[t].at = "answered" => request[t].id \notin pending
    /\ \A t, u \in Thread :
          t # u /\ request[t].id = request[u].id => request[t].id = 0
    /\ PendingIsWaited

\* What was sent is of a request that was made, and of none yet to be sent.
IdInv ==
    /\ \A n \in DOMAIN issued : issued[n].id <= asked
    /\ \A t \in Thread : request[t].at = "send" =>
          \A n \in DOMAIN issued : issued[n].id # request[t].id

\* Only messages that were sent are tracked.
TrackedInv == DOMAIN tracker \subseteq Messages

IInv ==
    /\ TypeInv /\ PlaceInv /\ OrderInv /\ TrackedInv /\ StatusIsTrue
    /\ RequestInv /\ IdInv

-----------------------------------------------------------------------------
(* Sequences.                                                                *)

\* What the provers need of a sequence, with its elements left opaque.
LEMMA SequenceTypes ==
    ASSUME NEW S, NEW s \in Seq(S)
    PROVE  /\ Len(s) \in Nat /\ DOMAIN s = 1 .. Len(s)
           /\ \A i \in DOMAIN s : s[i] \in S
           /\ s # <<>> <=> Len(s) > 0
           /\ s # <<>> => /\ Head(s) \in S /\ Head(s) = s[1]
                          /\ Tail(s) \in Seq(S) /\ Len(Tail(s)) = Len(s) - 1
                          /\ \A i \in 1 .. Len(s) - 1 : Tail(s)[i] = s[i + 1]
           /\ \A e \in S : /\ Append(s, e) \in Seq(S)
                           /\ Len(Append(s, e)) = Len(s) + 1
                           /\ Append(s, e)[Len(s) + 1] = e
                           /\ \A i \in 1 .. Len(s) : Append(s, e)[i] = s[i]
  OBVIOUS

LEMMA SmallestNumber ==
    ASSUME NEW T, T \subseteq Nat, T # {}
    PROVE  \E n \in T : \A k \in T : n <= k
  <1>1. IsWellFoundedOn(OpToRel(<, Nat), Nat)
    BY NatLessThanWellFounded
  <1>2. PICK n \in T : \A k \in T : <<k, n>> \notin OpToRel(<, Nat)
    BY <1>1, WFMin
  <1>3. \A k \in T : ~(k < n)
    BY <1>2 DEF OpToRel
  <1>4. QED  BY <1>3

\* One step of Retain: what is kept of the first n elements.
Keep(f, s, drop, n) ==
    [i \in 0 .. n |-> IF i = 0 THEN <<>>
                      ELSE IF s[i] \in drop THEN f[i - 1]
                      ELSE Append(f[i - 1], s[i])]

\* The recursive function of Retain exists: the least prefix of s without one
\* would extend the function of a shorter prefix.
LEMMA KeptExists ==
    ASSUME NEW s, NEW drop, NEW n \in Nat
    PROVE  \E f : f = Keep(f, s, drop, n)
  <1> DEFINE T == {k \in Nat : ~\E f : f = Keep(f, s, drop, k)}
  <1>1. SUFFICES ASSUME T # {} PROVE FALSE
    OBVIOUS
  <1>2. PICK k \in T : \A l \in T : k <= l
    BY <1>1, SmallestNumber
  <1>3. k # 0
    <2>1. [i \in 0 .. 0 |-> <<>>]
              = Keep([i \in 0 .. 0 |-> <<>>], s, drop, 0)
      BY DEF Keep
    <2>2. QED  BY <2>1
  <1>4. PICK f : f = Keep(f, s, drop, k - 1)
    <2>1. k - 1 \in Nat /\ k - 1 \notin T
      BY <1>2, <1>3
    <2>2. QED  BY <2>1
  <1> DEFINE last == IF s[k] \in drop THEN f[k - 1] ELSE Append(f[k - 1], s[k])
             g == [i \in 0 .. k |-> IF i < k THEN f[i] ELSE last]
  <1>5. g = Keep(g, s, drop, k)
    <2>1. \A i \in 0 .. k - 1 :
              f[i] = IF i = 0 THEN <<>>
                     ELSE IF s[i] \in drop THEN f[i - 1]
                     ELSE Append(f[i - 1], s[i])
      BY <1>4 DEF Keep
    <2>2. \A i \in 0 .. k : i # 0 => i - 1 \in 0 .. k /\ i - 1 < k
      BY <1>2
    <2>3. \A i \in 0 .. k : i # 0 => g[i - 1] = f[i - 1]
      BY <2>2
    <2> HIDE DEF last
    <2>4. \A i \in 0 .. k :
              g[i] = IF i = 0 THEN <<>>
                     ELSE IF s[i] \in drop THEN g[i - 1]
                     ELSE Append(g[i - 1], s[i])
      <3> SUFFICES ASSUME NEW i \in 0 .. k
                   PROVE  g[i] = IF i = 0 THEN <<>>
                                 ELSE IF s[i] \in drop THEN g[i - 1]
                                 ELSE Append(g[i - 1], s[i])
        OBVIOUS
      <3>1. CASE i = k
        <4>1. g[i] = last
          BY <3>1
        <4>2. g[i - 1] = f[i - 1] /\ i # 0
          BY <2>3, <1>3, <3>1
        <4> HIDE DEF g
        <4>3. QED  BY <4>1, <4>2, <3>1 DEF last
      <3>2. CASE i # k
        <4>1. i \in 0 .. k - 1 /\ g[i] = f[i]
          BY <3>2, <1>2
        <4>2. i # 0 => g[i - 1] = f[i - 1]
          BY <2>3
        <4> HIDE DEF g
        <4>3. QED  BY <4>1, <4>2, <2>1
      <3>3. QED  BY <3>1, <3>2
    <2>5. QED  BY <2>4 DEF Keep
  <1>6. QED  BY <1>2, <1>5

LEMMA RetainIsKept ==
    ASSUME NEW S, NEW s \in Seq(S), NEW drop
    PROVE  \E f : f = Keep(f, s, drop, Len(s)) /\ Retain(s, drop) = f[Len(s)]
  <1> DEFINE f == CHOOSE f : f = Keep(f, s, drop, Len(s))
  <1>1. Len(s) \in Nat
    OBVIOUS
  <1>2. f = Keep(f, s, drop, Len(s))
    BY <1>1, KeptExists
  <1>3. Retain(s, drop) = f[Len(s)]
    BY DEF Retain, Keep
  <1>4. QED  BY <1>2, <1>3

\* Every element comes before every later one, as the relation R has it.
Sorted(s, R) == \A i, j \in DOMAIN s : i < j => <<s[i], s[j]>> \in R

\* What r has of the first n elements of s.
KeptOf(r, s, drop, n) ==
    /\ Len(r) <= n
    /\ \A x : x \in Range(r) <=> x \notin drop /\ \E i \in 1 .. n : x = s[i]
    /\ \A R : Sorted(s, R) => Sorted(r, R)

LEMMA AppendSorted ==
    ASSUME NEW S, NEW s \in Seq(S), NEW e \in S, NEW R, Sorted(s, R),
           \A x \in Range(s) : <<x, e>> \in R
    PROVE  Sorted(Append(s, e), R)
  <1> DEFINE t == Append(s, e)
  <1>1. /\ Len(s) \in Nat /\ DOMAIN s = 1 .. Len(s)
        /\ DOMAIN t = 1 .. Len(s) + 1
        /\ t[Len(s) + 1] = e /\ \A i \in 1 .. Len(s) : t[i] = s[i]
    BY SequenceTypes
  <1> HIDE DEF t
  <1>2. SUFFICES ASSUME NEW i \in DOMAIN t, NEW j \in DOMAIN t, i < j
                 PROVE  <<t[i], t[j]>> \in R
    BY DEF Sorted, t
  <1>3. i \in DOMAIN s /\ t[i] = s[i]
    BY <1>1, <1>2
  <1>4. CASE j = Len(s) + 1
    BY <1>1, <1>3, <1>4 DEF Range
  <1>5. CASE j # Len(s) + 1
    <2>1. j \in DOMAIN s /\ t[j] = s[j]
      BY <1>1, <1>5
    <2>2. QED  BY <1>2, <1>3, <2>1 DEF Sorted
  <1>6. QED  BY <1>4, <1>5

LEMMA AppendRange ==
    ASSUME NEW S, NEW s \in Seq(S), NEW e \in S
    PROVE  Range(Append(s, e)) = Range(s) \cup {e}
  <1> DEFINE t == Append(s, e)
  <1>1. /\ Len(s) \in Nat /\ DOMAIN s = 1 .. Len(s)
        /\ DOMAIN t = 1 .. Len(s) + 1
        /\ t[Len(s) + 1] = e /\ \A i \in 1 .. Len(s) : t[i] = s[i]
    BY SequenceTypes
  <1> HIDE DEF t
  <1>2. \A i \in DOMAIN t : i \in DOMAIN s \/ i = Len(s) + 1
    BY <1>1
  <1>3. DOMAIN s \subseteq DOMAIN t /\ Len(s) + 1 \in DOMAIN t
    BY <1>1
  <1>4. Range(t) = Range(s) \cup {e}
    BY <1>1, <1>2, <1>3 DEF Range
  <1>5. QED  BY <1>4 DEF t

\* Induction over the prefixes of s.
LEMMA KeptOfPrefix ==
    ASSUME NEW S, NEW s \in Seq(S), NEW drop, NEW f,
           f = Keep(f, s, drop, Len(s))
    PROVE  \A n \in 0 .. Len(s) : f[n] \in Seq(S) /\ KeptOf(f[n], s, drop, n)
  <1> DEFINE Good(n) == f[n] \in Seq(S) /\ KeptOf(f[n], s, drop, n)
             T == {n \in 0 .. Len(s) : ~Good(n)}
  <1>1. SUFFICES ASSUME T # {} PROVE FALSE
    OBVIOUS
  <1>2. Len(s) \in Nat /\ DOMAIN s = 1 .. Len(s)
    BY SequenceTypes
  <1> HIDE DEF Good
  <1>3. PICK n \in T : \A k \in T : n <= k
    <2>1. T \subseteq Nat
      OBVIOUS
    <2> HIDE DEF T
    <2>2. QED  BY <1>1, <2>1, SmallestNumber
  <1>4. n \in 0 .. Len(s) /\ ~Good(n)
    OBVIOUS
  <1>5. n = 0 => f[n] = <<>>
    BY <1>4 DEF Keep
  <1>6. n # 0
    <2>1. SUFFICES ASSUME n = 0 PROVE Good(n)
      BY <1>4
    <2>2. f[n] \in Seq(S) /\ Len(f[n]) = 0 /\ DOMAIN f[n] = {}
      <3>1. f[n] = <<>>
        BY <1>5, <2>1
      <3>2. QED  BY ONLY <3>1
    <2>3. \A i \in 1 .. n : FALSE
      BY <2>1
    <2>4. Range(f[n]) = {}
      BY <2>2 DEF Range
    <2>5. \A R : Sorted(f[n], R)
      BY <2>2 DEF Sorted
    <2>6. KeptOf(f[n], s, drop, n)
      BY <2>1, <2>2, <2>3, <2>4, <2>5 DEF KeptOf
    <2>7. QED  BY <2>2, <2>6 DEF Good
  <1> DEFINE r == f[n - 1]
  <1>7. f[n - 1] \in Seq(S) /\ KeptOf(f[n - 1], s, drop, n - 1)
    <2>1. n - 1 \in 0 .. Len(s) /\ ~(n <= n - 1)
      BY <1>2, <1>4, <1>6
    <2>2. QED  BY <1>3, <2>1 DEF Good
  <1>8. f[n] = IF s[n] \in drop THEN r ELSE Append(r, s[n])
    BY <1>4, <1>6 DEF Keep
  <1>9. /\ n \in DOMAIN s /\ n - 1 \in Nat /\ n - 1 < n
        /\ \A i \in 1 .. n : i \in 1 .. n - 1 \/ i = n
        /\ \A i \in 1 .. n - 1 : i \in 1 .. n /\ i < n /\ i \in DOMAIN s
        /\ n \in 1 .. n
    BY <1>2, <1>4, <1>6
  <1>10. r \in Seq(S) /\ KeptOf(r, s, drop, n - 1) /\ Len(r) \in Nat
    BY <1>7, SequenceTypes
  <1> HIDE DEF T, r
  <1>11. \A l \in Nat : l <= n - 1 => l <= n /\ l + 1 <= n
    BY <1>2, <1>4, <1>6
  <1>12. CASE s[n] \in drop
    <2>1. KeptOf(r, s, drop, n)
      BY <1>9, <1>10, <1>11, <1>12 DEF KeptOf
    <2>2. QED  BY <1>4, <1>8, <1>10, <1>12, <2>1 DEF Good
  <1>13. CASE s[n] \notin drop
    <2> DEFINE t == Append(r, s[n])
    <2>1. s[n] \in S
      BY <1>9, SequenceTypes
    <2>2. t \in Seq(S) /\ Len(t) = Len(r) + 1
      BY <1>10, <2>1, SequenceTypes
    <2>3. Range(t) = Range(r) \cup {s[n]}
      BY <1>10, <2>1, AppendRange
    <2>4. ASSUME NEW R, Sorted(s, R) PROVE Sorted(t, R)
      <3>1. Sorted(r, R)
        BY <1>10, <2>4 DEF KeptOf
      <3>2. \A x \in Range(r) : <<x, s[n]>> \in R
        <4>1. ASSUME NEW x \in Range(r) PROVE <<x, s[n]>> \in R
          <5>1. PICK i \in 1 .. n - 1 : x = s[i]
            BY <1>10, <4>1 DEF KeptOf
          <5>2. QED  BY <1>9, <2>4, <5>1 DEF Sorted
        <4>2. QED  BY <4>1
      <3>3. QED  BY <1>10, <2>1, <3>1, <3>2, AppendSorted
    <2> HIDE DEF t
    <2>5. \A x : x \in Range(t) <=> x \notin drop /\ \E i \in 1 .. n : x = s[i]
      BY <1>9, <1>10, <1>13, <2>3 DEF KeptOf
    <2>6. KeptOf(t, s, drop, n)
      BY <1>10, <1>11, <2>2, <2>4, <2>5 DEF KeptOf
    <2>7. QED  BY <1>4, <1>8, <1>13, <2>2, <2>6 DEF Good, t
  <1>14. QED  BY <1>12, <1>13

\* What Retain promises of any sequence.
LEMMA RetainKeeps ==
    ASSUME NEW S, NEW s \in Seq(S), NEW drop
    PROVE  /\ Retain(s, drop) \in Seq(S)
           /\ Len(Retain(s, drop)) <= Len(s)
           /\ Range(Retain(s, drop)) = Range(s) \ drop
           /\ \A R : Sorted(s, R) => Sorted(Retain(s, drop), R)
  <1>1. PICK f : f = Keep(f, s, drop, Len(s)) /\ Retain(s, drop) = f[Len(s)]
    BY RetainIsKept
  <1>2. Len(s) \in Nat /\ DOMAIN s = 1 .. Len(s) /\ Len(s) \in 0 .. Len(s)
    BY SequenceTypes
  <1> DEFINE r == Retain(s, drop)
  <1>3. r \in Seq(S) /\ KeptOf(r, s, drop, Len(s))
    BY <1>1, <1>2, KeptOfPrefix
  <1> HIDE DEF r
  <1>4. Range(r) = Range(s) \ drop
    BY <1>2, <1>3 DEF KeptOf, Range
  <1>5. QED  BY <1>3, <1>4 DEF KeptOf, r

LEMMA ConcatSorted ==
    ASSUME NEW S, NEW s \in Seq(S), NEW t \in Seq(S), NEW R
    PROVE  /\ Sorted(s \o t, R)
              <=> /\ Sorted(s, R) /\ Sorted(t, R)
                  /\ \A x \in Range(s), y \in Range(t) : <<x, y>> \in R
           /\ Range(s \o t) = Range(s) \cup Range(t)
           /\ s \o t \in Seq(S)
  <1> DEFINE u == s \o t
             n == Len(s)
             m == Len(t)
  <1>1. /\ n \in Nat /\ m \in Nat /\ DOMAIN s = 1 .. n /\ DOMAIN t = 1 .. m
        /\ u \in Seq(S) /\ DOMAIN u = 1 .. n + m
        /\ \A i \in 1 .. n : u[i] = s[i]
        /\ \A i \in 1 .. m : u[n + i] = t[i]
    OBVIOUS
  <1> HIDE DEF u, n, m
  <1>2. \A i \in DOMAIN u : \/ i \in DOMAIN s
                            \/ i - n \in DOMAIN t /\ u[i] = t[i - n]
    <2>1. ASSUME NEW i \in DOMAIN u, i \notin DOMAIN s
          PROVE  i - n \in DOMAIN t /\ u[i] = t[i - n]
      <3>1. i - n \in 1 .. m /\ i = n + (i - n)
        BY <1>1, <2>1
      <3>2. u[n + (i - n)] = t[i - n]
        BY <1>1, <3>1
      <3>3. QED  BY <1>1, <3>1, <3>2
    <2>2. QED  BY <2>1
  <1>3. /\ \A i \in DOMAIN s : i \in DOMAIN u /\ u[i] = s[i]
        /\ \A i \in DOMAIN t : n + i \in DOMAIN u /\ u[n + i] = t[i]
    BY <1>1
  <1>4. Range(u) = Range(s) \cup Range(t)
    BY <1>2, <1>3 DEF Range
  <1>5. ASSUME Sorted(u, R)
        PROVE  /\ Sorted(s, R) /\ Sorted(t, R)
               /\ \A x \in Range(s), y \in Range(t) : <<x, y>> \in R
    <2>1. Sorted(s, R)
      BY <1>3, <1>5 DEF Sorted
    <2>2. \A i, j \in DOMAIN t : i < j => n + i < n + j
      BY <1>1
    <2>3. Sorted(t, R)
      BY <1>3, <1>5, <2>2 DEF Sorted
    <2>4. \A i \in DOMAIN s, j \in DOMAIN t : i < n + j
      BY <1>1
    <2>5. \A i \in DOMAIN s, j \in DOMAIN t : <<s[i], t[j]>> \in R
      <3>1. ASSUME NEW i \in DOMAIN s, NEW j \in DOMAIN t
            PROVE  <<s[i], t[j]>> \in R
        <4>1. i \in DOMAIN u /\ n + j \in DOMAIN u /\ i < n + j
          BY <1>3, <2>4
        <4>2. <<u[i], u[n + j]>> \in R
          BY <1>5, <4>1 DEF Sorted
        <4>3. QED  BY <1>3, <4>2
      <3>2. QED  BY <3>1
    <2>6. QED  BY <2>1, <2>3, <2>5 DEF Range
  <1>6. ASSUME Sorted(s, R), Sorted(t, R),
               \A x \in Range(s), y \in Range(t) : <<x, y>> \in R
        PROVE  Sorted(u, R)
    <2>1. SUFFICES ASSUME NEW i \in DOMAIN u, NEW j \in DOMAIN u, i < j
                   PROVE  <<u[i], u[j]>> \in R
      BY DEF Sorted
    <2>2. CASE i \in DOMAIN s /\ j \in DOMAIN s
      BY <1>3, <1>6, <2>1, <2>2 DEF Sorted
    <2>3. CASE i \in DOMAIN s /\ j \notin DOMAIN s
      <3>1. u[i] \in Range(s) /\ u[j] \in Range(t)
        BY <1>2, <1>3, <2>3 DEF Range
      <3>2. QED  BY <1>6, <3>1
    <2>4. CASE i \notin DOMAIN s
      <3>1. j \notin DOMAIN s /\ i - n < j - n
        BY <1>1, <2>1, <2>4
      <3>2. i - n \in DOMAIN t /\ j - n \in DOMAIN t
            /\ u[i] = t[i - n] /\ u[j] = t[j - n]
        BY <1>2, <2>4, <3>1
      <3>3. QED  BY <1>6, <3>1, <3>2 DEF Sorted
    <2>5. QED  BY <2>2, <2>3, <2>4
  <1>7. QED  BY <1>1, <1>4, <1>5, <1>6 DEF u

-----------------------------------------------------------------------------
(* The eight places.                                                         *)

\* The messages of M go from place i to place j.
Moves(P, Q, M, i, j) ==
    /\ M \subseteq P[i]
    /\ Q[i] = P[i] \ M /\ Q[j] = P[j] \cup M
    /\ \A k \in 1 .. 8 \ {i, j} : Q[k] = P[k]

LEMMA MovesKeepOnce ==
    ASSUME NEW P, NEW Q, NEW S, NEW M, NEW i \in 1 .. 8, NEW j \in 1 .. 8,
           i # j, Once(P, S), Moves(P, Q, M, i, j)
    PROVE  Once(Q, S)
  <1> DEFINE K == 1 .. 8
  <1>1. /\ \A k \in K : P[k] \subseteq S
        /\ \A m \in S : \E k \in K : \A l \in K : m \in P[l] <=> l = k
        /\ M \subseteq P[i]
        /\ Q[i] = P[i] \ M /\ Q[j] = P[j] \cup M
        /\ \A k \in K \ {i, j} : Q[k] = P[k]
        /\ i \in K /\ j \in K
    BY DEF Once, Moves
  <1> HIDE DEF K
  <1>2. \A k \in K : Q[k] \subseteq S
    BY <1>1
  <1>3. ASSUME NEW m \in S
        PROVE  \E k \in K : \A l \in K : m \in Q[l] <=> l = k
    <2>1. PICK k \in K : \A l \in K : m \in P[l] <=> l = k
      BY <1>1
    <2>2. CASE m \in M
      <3>1. k = i
        BY <1>1, <2>1, <2>2
      <3>2. \A l \in K : m \in Q[l] <=> l = j
        BY <1>1, <2>1, <2>2, <3>1
      <3>3. QED  BY <1>1, <3>2
    <2>3. CASE m \notin M
      <3>1. \A l \in K : m \in Q[l] <=> m \in P[l]
        BY <1>1, <2>3
      <3>2. QED  BY <2>1, <3>1
    <2>4. QED  BY <2>2, <2>3
  <1>4. QED  BY <1>2, <1>3 DEF Once, K

\* The message m is new, and at place j.
Adds(P, Q, m, j) ==
    /\ Q[j] = P[j] \cup {m}
    /\ \A k \in 1 .. 8 \ {j} : Q[k] = P[k]

LEMMA AddsKeepOnce ==
    ASSUME NEW P, NEW Q, NEW S, NEW m, NEW j \in 1 .. 8,
           Once(P, S), m \notin S, Adds(P, Q, m, j)
    PROVE  Once(Q, S \cup {m})
  <1> DEFINE K == 1 .. 8
  <1>1. /\ \A k \in K : P[k] \subseteq S
        /\ \A x \in S : \E k \in K : \A l \in K : x \in P[l] <=> l = k
        /\ Q[j] = P[j] \cup {m}
        /\ \A k \in K \ {j} : Q[k] = P[k]
        /\ j \in K
    BY DEF Once, Adds
  <1> HIDE DEF K
  <1>2. \A k \in K : Q[k] \subseteq S \cup {m}
    BY <1>1
  <1>3. ASSUME NEW x \in S \cup {m}
        PROVE  \E k \in K : \A l \in K : x \in Q[l] <=> l = k
    <2>1. CASE x = m
      <3>1. \A l \in K : x \in Q[l] <=> l = j
        BY <1>1, <2>1
      <3>2. QED  BY <1>1, <3>1
    <2>2. CASE x # m
      <3>1. \A l \in K : x \in Q[l] <=> x \in P[l]
        BY <1>1, <2>2
      <3>2. QED  BY <1>1, <2>2, <3>1
    <2>3. QED  BY <2>1, <2>2
  <1>4. QED  BY <1>2, <1>3 DEF Once, K

\* Two places have nothing in common.
LEMMA OnceIsDisjoint ==
    ASSUME NEW P, NEW S, Once(P, S), NEW i \in 1 .. 8, NEW j \in 1 .. 8, i # j
    PROVE  P[i] \cap P[j] = {}
  BY DEF Once

-----------------------------------------------------------------------------
(* Types.                                                                    *)

LEMMA RecordTypes ==
    /\ \A r \in Issues : /\ r.kind \in {"direct", "publish", "request",
                                        "response"}
                         /\ r.to \in Recipient /\ r.id \in Nat
    /\ \A op \in {"message", "register", "unregister"}, a \in Recipient,
          m \in Msg : Event(op, a, m) \in Events
    /\ \A op, a, m : /\ Event(op, a, m).op = op
                     /\ Event(op, a, m).agent = a /\ Event(op, a, m).msg = m
    /\ \A e \in Events : e.agent \in Recipient /\ e.msg \in Msg
    /\ None \in Msg /\ Idle \in Works /\ NoRequest \in Requests
    /\ Idle.at = "idle" /\ Idle.msg = None /\ Idle.todo = <<>>
    /\ NoRequest.at = "none" /\ NoRequest.id = 0
    /\ Agent \subseteq Recipient /\ {"topic", "system"} \subseteq Recipient
    /\ \A m \in Msg : m[1] \in Nat /\ m[2] \in Nat /\ m = <<m[1], m[2]>>
    /\ \A n, k \in Nat : <<n, k>> \in Msg
  BY DEF Issues, Recipient, Events, Event, Msg, None, Idle, Works, NoRequest,
         Requests

Place == {"idle", "answer", "copy", "deliver", "bury", "prune", "stopped"}

LEMMA WorkTypes ==
    /\ \A w \in Works : /\ w.at \in Place /\ w.msg \in Msg
                        /\ w.to \in Recipient /\ w.todo \in Seq(Agent)
    /\ \A at \in Place, m \in Msg, to \in Recipient, todo \in Seq(Agent) :
          [at |-> at, msg |-> m, to |-> to, todo |-> todo] \in Works
    /\ \A w \in Works, at \in Place :
          /\ [w EXCEPT !.at = at] \in Works
          /\ [w EXCEPT !.at = at].at = at
          /\ [w EXCEPT !.at = at].msg = w.msg
          /\ [w EXCEPT !.at = at].to = w.to
          /\ [w EXCEPT !.at = at].todo = w.todo
  BY DEF Works, Place

LEMMA RequestTypes ==
    /\ \A r \in Requests : /\ r.at \in {"none", "send", "wait", "withdraw",
                                        "answered"}
                           /\ r.id \in Nat /\ r.to \in Recipient
    /\ \A at \in {"none", "send", "wait", "withdraw", "answered"},
          id \in Nat, to \in Recipient :
          [at |-> at, id |-> id, to |-> to] \in Requests
    /\ \A r \in Requests,
          at \in {"none", "send", "wait", "withdraw", "answered"} :
          /\ [r EXCEPT !.at = at] \in Requests
          /\ [r EXCEPT !.at = at].at = at /\ [r EXCEPT !.at = at].id = r.id
          /\ [r EXCEPT !.at = at].to = r.to
  BY DEF Requests

LEMMA CleanupTypes ==
    /\ \A c \in Cleanups : /\ c.at \in {"idle", "lock", "move", "forget"}
                           /\ c.expired \in SUBSET Msg
    /\ \A at \in {"idle", "lock", "move", "forget"}, x \in SUBSET Msg :
          [at |-> at, expired |-> x] \in Cleanups
    /\ \A c \in Cleanups, at \in {"idle", "lock", "move", "forget"} :
          /\ [c EXCEPT !.at = at] \in Cleanups
          /\ [c EXCEPT !.at = at].at = at
          /\ [c EXCEPT !.at = at].expired = c.expired
    /\ \A c \in Cleanups, x \in SUBSET Msg :
          /\ [c EXCEPT !.expired = x] \in Cleanups
          /\ [c EXCEPT !.expired = x].at = c.at
          /\ [c EXCEPT !.expired = x].expired = x
  BY DEF Cleanups

LEMMA StoppingTypes ==
    /\ \A s \in Stoppings : s.left \in SUBSET Agent
    /\ [at |-> "unregister", left |-> registered].left = registered
    /\ registered \in SUBSET Agent =>
          [at |-> "unregister", left |-> registered] \in Stoppings
    /\ \A s \in Stoppings : [s EXCEPT !.at = "list"] \in Stoppings
    /\ \A s \in Stoppings, x \in SUBSET Agent :
          [s EXCEPT !.left = x] \in Stoppings
  BY DEF Stoppings

\* A message in the channel, or a copy.
LEMMA MessageTypes ==
    ASSUME TypeInv
    PROVE  /\ Len(issued) \in Nat /\ DOMAIN issued = 1 .. Len(issued)
           /\ Messages \subseteq Msg
           /\ \A m \in Messages : m[1] \in DOMAIN issued
           /\ Sent \subseteq {<<n, 0>> : n \in DOMAIN issued}
           /\ Sent \subseteq Messages
  <1>1. issued \in Seq(Issues) /\ copied \in SUBSET Msg
    BY DEF TypeInv, Types
  <1>2. Len(issued) \in Nat /\ DOMAIN issued = 1 .. Len(issued)
    BY <1>1, SequenceTypes
  <1>3. \A n \in DOMAIN issued : n \in Nat /\ <<n, 0>> \in Msg
    BY <1>2, RecordTypes
  <1>4. Messages \subseteq Msg
    BY <1>1, <1>3 DEF Messages
  <1>5. \A m \in Messages : m[1] \in DOMAIN issued
    BY DEF TypeInv, LoopInv, Messages
  <1>6. Sent \subseteq {<<n, 0>> : n \in DOMAIN issued}
    BY DEF TypeInv, ChannelInv, Sent
  <1>7. QED  BY <1>2, <1>4, <1>5, <1>6 DEF Messages

LEMMA PostTypes ==
    ASSUME Types, NEW e \in Events, Post(e)
    PROVE  events' \in Seq(Events)
  BY SequenceTypes DEF Types, Post

LEMMA IssueTypes ==
    ASSUME TypeInv, NEW kind \in {"direct", "publish", "request", "response"},
           NEW to \in Recipient, NEW id \in Nat, Issue(kind, to, id)
    PROVE  issued' \in Seq(Issues) /\ events' \in Seq(Events)
  <1>1. Len(issued) \in Nat /\ issued \in Seq(Issues)
    BY MessageTypes DEF TypeInv, Types
  <1>2. [kind |-> kind, to |-> to, id |-> id] \in Issues
    BY DEF Issues
  <1>3. issued' \in Seq(Issues)
    BY <1>1, <1>2, SequenceTypes DEF Issue
  <1>4. Event("message", to, <<Len(issued) + 1, 0>>) \in Events
    <2>1. \A n \in Nat : <<n + 1, 0>> \in Msg
      BY DEF Msg
    <2>2. QED  BY <1>1, <2>1, RecordTypes
  <1>5. QED  BY <1>3, <1>4, PostTypes DEF Issue, TypeInv

Fetched == UNION {Range(received[a]) : a \in Agent}

LEMMA PlacesAre ==
    /\ Places[1] = Sent /\ Places[2] = InHand /\ Places[3] = InInboxes
    /\ Places[4] = cleanup.expired /\ Places[5] = Fetched
    /\ Places[6] = Range(dead) /\ Places[7] = evicted /\ Places[8] = gone
    /\ DOMAIN Places = 1 .. 8
  BY DEF Places, Fetched

\* What an agent has fetched was sent.
LEMMA FetchedIsNumbered ==
    ASSUME TypeInv, PlaceInv, NEW a \in Agent, NEW i \in DOMAIN received[a]
    PROVE  received[a][i][1] \in DOMAIN issued
  <1>1. received[a][i] \in Fetched
    BY DEF Fetched, Range
  <1>2. Fetched \subseteq Messages
    BY PlacesAre DEF PlaceInv, Once
  <1>3. QED  BY <1>1, <1>2, MessageTypes DEF TypeInv, Types

LEMMA FetchedWasSent ==
    ASSUME TypeInv, PlaceInv, NEW a \in Agent, NEW i \in DOMAIN received[a]
    PROVE  issued[received[a][i][1]] \in Issues
  BY FetchedIsNumbered, SequenceTypes DEF TypeInv, Types

\* What the callers do is one of four things to what was sent.
Calling ==
    Send \/ Respond \/ \E t \in Thread : SendRequest(t)

LEMMA CallingIssues ==
    ASSUME TypeInv, PlaceInv, Calling
    PROVE  \/ /\ up
              /\ \E kind \in {"direct", "publish", "request", "response"},
                    to \in Recipient, id \in Nat : Issue(kind, to, id)
           \/ issued' = issued /\ events' = events
  <1>1. CASE Send
    BY <1>1, RecordTypes DEF Send
  <1>2. CASE Respond
    <2>1. PICK a \in Agent : \E i \in DOMAIN received[a] :
              Issue("response", "system", issued[received[a][i][1]].id)
              /\ issued[received[a][i][1]].kind = "request"
      BY <1>2 DEF Respond
    <2>2. PICK i \in DOMAIN received[a] :
              Issue("response", "system", issued[received[a][i][1]].id)
              /\ issued[received[a][i][1]].kind = "request"
      BY <2>1
    <2>3. issued[received[a][i][1]].id \in Nat
      BY FetchedWasSent, RecordTypes
    <2>4. up
      BY <1>2 DEF Respond
    <2>5. QED  BY <2>2, <2>3, <2>4, RecordTypes
  <1>3. CASE \E t \in Thread : SendRequest(t)
    <2>1. PICK t \in Thread : SendRequest(t)
      BY <1>3
    <2>2. request[t].to \in Recipient /\ request[t].id \in Nat
      BY RequestTypes DEF TypeInv, Types
    <2>3. QED  BY <2>1, <2>2 DEF SendRequest
  <1>4. QED  BY <1>1, <1>2, <1>3 DEF Calling

\* What follows from the type of the variables for one step.
LEMMA TypesStep ==
    ASSUME TypeInv, PlaceInv, Next \/ UNCHANGED vars
    PROVE  Types'
  <1>1. /\ up \in BOOLEAN /\ issued \in Seq(Issues) /\ events \in Seq(Events)
        /\ work \in Works /\ registered \in SUBSET Agent
        /\ inbox \in [Agent -> Seq(Msg)] /\ subscribers \in Seq(Agent)
        /\ tracker \in [DOMAIN tracker -> {"Pending", "Delivered", "Failed"}]
        /\ dead \in Seq(Msg) /\ cleanup \in Cleanups
        /\ request \in [Thread -> Requests] /\ asked \in Nat
        /\ stopping \in Stoppings /\ copied \in SUBSET Msg
        /\ received \in [Agent -> Seq(Msg)]
    BY DEF TypeInv, Types
  <1>2. /\ \A e \in Events : Post(e) => events' \in Seq(Events)
        /\ events # <<>> => /\ Head(events) \in Events
                            /\ Tail(events) \in Seq(Events)
    BY <1>1, PostTypes, SequenceTypes DEF TypeInv
  <1>3. /\ work.at \in Place /\ work.msg \in Msg
        /\ work.to \in Recipient /\ work.todo \in Seq(Agent)
    BY <1>1, WorkTypes
  <1>4. \A m \in Msg, st \in {"Pending", "Delivered", "Failed"} :
            Track(m, st)
            => tracker' \in [DOMAIN tracker'
                                -> {"Pending", "Delivered", "Failed"}]
    BY <1>1 DEF Track
  <1>5. \A m \in Msg : AddDeadLetter(m) => dead' \in Seq(Msg)
    <2>1. /\ \A m \in Msg : Append(dead, m) \in Seq(Msg)
          /\ dead # <<>> => \A m \in Msg : Append(Tail(dead), m) \in Seq(Msg)
      BY <1>1, SequenceTypes
    <2>2. dead = <<>> => Len(dead) < dead_letter_queue_size
      BY BusAssumption
    <2>3. QED  BY <2>1, <2>2 DEF AddDeadLetter
  <1>0. /\ {"idle", "answer", "copy", "deliver", "bury", "prune", "stopped"}
              \subseteq Place
        /\ Idle \in Works /\ None \in Msg
        /\ \A at \in Place : [work EXCEPT !.at = at] \in Works
        /\ <<>> \in Seq(Agent)
    <2>1. \A at \in Place : [work EXCEPT !.at = at] \in Works
      BY <1>1, WorkTypes
    <2>2. QED  BY <2>1, RecordTypes DEF Place
  <1>6. Done => work' \in Works
    BY <1>0 DEF Done
  <1>7. \A a \in Agent :
            /\ inbox[a] \in Seq(Msg) /\ received[a] \in Seq(Msg)
            /\ received[a] \o inbox[a] \in Seq(Msg)
    BY <1>1
  <1>8. \A t \in Thread : request[t] \in Requests
    BY <1>1
  <1> USE DEF callers, agents, letters, history
  <1>9. CASE Calling
    <2>1. issued' \in Seq(Issues) /\ events' \in Seq(Events)
      BY <1>1, <1>9, CallingIssues, IssueTypes
    <2>2. request' \in [Thread -> Requests]
      <3>1. CASE Send \/ Respond
        BY <1>1, <3>1 DEF Send, Respond
      <3>2. CASE \E t \in Thread : SendRequest(t)
        <4>1. PICK t \in Thread : SendRequest(t)
          BY <3>2
        <4>2. /\ NoRequest \in Requests
              /\ [request[t] EXCEPT !.at = "wait"] \in Requests
          BY <1>8, RequestTypes, RecordTypes
        <4>3. QED  BY <1>1, <4>1, <4>2
                   DEF SendRequest, SetRequest, Abandon
      <3>3. QED  BY <1>9, <3>1, <3>2 DEF Calling
    <2>3. QED  BY <1>1, <1>9, <2>1, <2>2
               DEF Types, Calling, Send, Respond, SendRequest, Abandon
  <1>10. CASE \E a \in Agent : Register(a)
    <2>1. PICK a \in Agent : Register(a)
      BY <1>10
    <2>2. \A op \in {"register", "unregister"} : Event(op, a, None) \in Events
      BY RecordTypes
    <2>3. events' \in Seq(Events)
      BY <1>2, <2>1, <2>2 DEF Register
    <2>4. QED  BY <1>1, <2>1, <2>3 DEF Types, Register
  <1>11. CASE \E a \in Agent : Subscribe(a) \/ Unsubscribe(a)
    <2>1. PICK a \in Agent : Subscribe(a) \/ Unsubscribe(a)
      BY <1>11
    <2>2. subscribers' \in Seq(Agent)
      <3>1. Append(subscribers, a) \in Seq(Agent)
            /\ Retain(subscribers, {a}) \in Seq(Agent)
        BY <1>1, SequenceTypes, RetainKeeps
      <3>2. QED  BY <2>1, <3>1 DEF Subscribe, Unsubscribe
    <2>3. QED  BY <1>1, <2>1, <2>2 DEF Types, Subscribe, Unsubscribe
  <1>12. CASE \E a \in Agent : Receive(a)
    BY <1>1, <1>7, <1>12 DEF Types, Receive
  <1>13. CASE \E t \in Thread : \/ BeginRequest(t) \/ Drop(t) \/ Timeout(t)
                                \/ Withdraw(t) \/ ReturnAnswer(t)
    <2>1. asked + 1 \in Nat
      BY <1>1
    <2>2. request' \in [Thread -> Requests] /\ asked' \in Nat
      <3>1. PICK t \in Thread : \/ BeginRequest(t) \/ Drop(t) \/ Timeout(t)
                               \/ Withdraw(t) \/ ReturnAnswer(t)
        BY <1>13
      <3>2. CASE BeginRequest(t)
        <4>1. PICK a \in Agent :
                  SetRequest(t, [at |-> "send", id |-> asked + 1, to |-> a])
          BY <3>2 DEF BeginRequest
        <4>2. [at |-> "send", id |-> asked + 1, to |-> a] \in Requests
          BY <2>1, RequestTypes, RecordTypes
        <4>3. QED  BY <1>1, <2>1, <3>2, <4>1, <4>2 DEF BeginRequest, SetRequest
      <3>3. CASE Drop(t) \/ Timeout(t) \/ Withdraw(t) \/ ReturnAnswer(t)
        <4>1. /\ NoRequest \in Requests
              /\ [request[t] EXCEPT !.at = "withdraw"] \in Requests
          BY <1>8, RequestTypes, RecordTypes
        <4>2. QED  BY <1>1, <3>3, <4>1
                   DEF Drop, Abandon, Timeout, Withdraw, ReturnAnswer,
                       SetRequest
      <3>4. QED  BY <3>1, <3>2, <3>3
    <2>3. QED  BY <1>1, <1>13, <2>2
               DEF Types, BeginRequest, Drop, Abandon, Timeout, Withdraw,
                   ReturnAnswer
  <1>14. CASE TakeMessage
    <2>1. events # <<>> /\ events' = Tail(events)
      BY <1>14 DEF TakeMessage, Takes
    <2>2. events' \in Seq(Events) /\ Head(events).msg \in Msg
      BY <1>2, <2>1, RecordTypes
    <2>3. CASE issued[Head(events).msg[1]].kind \in {"publish", "response"}
      <3> DEFINE m == Head(events).msg
      <3>1. /\ [at |-> "copy", msg |-> m, to |-> "topic", todo |-> subscribers]
                  \in Works
            /\ [at |-> "answer", msg |-> m, to |-> "system", todo |-> <<>>]
                  \in Works
        BY <1>0, <1>1, <2>2, WorkTypes, RecordTypes
      <3>2. \/ work' = Idle
            \/ work' = [at |-> "copy", msg |-> m, to |-> "topic",
                        todo |-> subscribers]
            \/ work' = [at |-> "answer", msg |-> m, to |-> "system",
                        todo |-> <<>>]
        BY <1>14, <2>3 DEF TakeMessage, Handle
      <3>4. work' \in Works
        BY <1>0, <3>1, <3>2
      <3>5. QED  BY <1>1, <1>14, <2>2, <3>4 DEF Types, TakeMessage
    <2>4. CASE issued[Head(events).msg[1]].kind \notin {"publish", "response"}
      <3>1. issued[Head(events).msg[1]].to \in Recipient
        <4>1. Head(events).op = "message" /\ Head(events) = events[1]
              /\ 1 \in DOMAIN events
          BY <1>1, <1>14, <2>1, SequenceTypes DEF TakeMessage, Takes
        <4>2. Head(events).msg \in Sent
          BY <4>1 DEF Sent
        <4>3. Head(events).msg[1] \in DOMAIN issued
          BY <4>2, MessageTypes
        <4>4. issued[Head(events).msg[1]] \in Issues
          BY <1>1, <4>3, SequenceTypes
        <4>5. QED  BY <4>4, RecordTypes
      <3>2. Handle("deliver", Head(events).msg,
                   issued[Head(events).msg[1]].to, <<>>)
        BY <1>14, <2>4 DEF TakeMessage
      <3>3. work' \in Works
        BY <1>0, <2>2, <3>1, <3>2, WorkTypes DEF Handle
      <3>4. QED  BY <1>1, <1>14, <2>2, <3>3 DEF Types, TakeMessage
    <2>5. QED  BY <2>3, <2>4
  <1>15. CASE Answer
    <2>1. request' \in [Thread -> Requests]
      <3>1. \A t \in Thread :
                [request[t] EXCEPT !.at = "answered"] \in Requests
        BY <1>8, RequestTypes
      <3>2. QED  BY <1>1, <1>8, <1>15, <3>1 DEF Answer
    <2>2. work' \in Works
      BY <1>0, <1>6, <1>15 DEF Answer
    <2>3. QED  BY <1>1, <1>15, <2>1, <2>2 DEF Types, Answer
  <1>16. CASE Copy
    <2>1. work.todo # <<>> /\ work.msg[1] \in Nat /\ work.msg[2] \in Nat
      BY <1>3, <1>16, RecordTypes DEF TypeInv, LoopInv, Copy
    <2>2. /\ Head(work.todo) \in Agent /\ Tail(work.todo) \in Seq(Agent)
          /\ <<work.msg[1], work.msg[2] + 1>> \in Msg
      BY <1>3, <2>1 DEF Msg
    <2>3. work' \in Works /\ copied' \in SUBSET Msg
      BY <1>1, <1>16, <2>2, WorkTypes, RecordTypes DEF Copy, Handle, Place
    <2>4. QED  BY <1>1, <1>16, <2>3 DEF Types, Copy
  <1>17. CASE Deliver
    <2>1. work' \in Works
      BY <1>0, <1>6, <1>17 DEF Deliver
    <2>2. tracker' \in [DOMAIN tracker' -> {"Pending", "Delivered", "Failed"}]
      BY <1>3, <1>4, <1>17 DEF Deliver
    <2>3. inbox' \in [Agent -> Seq(Msg)]
      <3>1. \A a \in Agent : Append(inbox[a], work.msg) \in Seq(Msg)
        BY <1>3, <1>7, SequenceTypes
      <3>2. CASE Accepts(work.to)
        <4>1. /\ work.to \in Agent
              /\ inbox' = [inbox EXCEPT ![work.to] = Append(@, work.msg)]
          BY <1>1, <1>17, <3>2 DEF Deliver, Queued, Accepts
        <4>2. QED  BY <1>1, <3>1, <4>1
      <3>3. QED  BY <1>1, <1>17, <3>2 DEF Deliver
    <2>4. QED  BY <1>1, <1>17, <2>1, <2>2, <2>3 DEF Types, Deliver
  <1>18. CASE Bury
    BY <1>1, <1>3, <1>4, <1>5, <1>6, <1>18 DEF Types, Bury
  <1>19. CASE ChangeInbox
    <2>1. events # <<>> /\ events' = Tail(events)
          /\ Head(events).op \in {"register", "unregister"}
      BY <1>19 DEF ChangeInbox, Takes
    <2>2. Head(events).agent \in Agent
      <3>1. 1 \in DOMAIN events /\ Head(events) = events[1]
        BY <1>1, <2>1, SequenceTypes
      <3>2. QED  BY <2>1, <3>1 DEF TypeInv, ChannelInv
    <2>3. events' \in Seq(Events)
      BY <1>2, <2>1
    <2>4. work' \in Works
      <3>1. [at |-> "prune", msg |-> None, to |-> Head(events).agent,
             todo |-> <<>>] \in Works
        BY <1>0, <2>2, WorkTypes, RecordTypes
      <3>2. QED  BY <1>1, <1>19, <3>1 DEF ChangeInbox, Handle
    <2>5. registered' \in SUBSET Agent
      BY <1>1, <1>19, <2>2 DEF ChangeInbox
    <2>6. inbox' \in [Agent -> Seq(Msg)]
      BY <1>1, <1>19, <2>2 DEF ChangeInbox
    <2>7. QED  BY <1>1, <1>19, <2>3, <2>4, <2>5, <2>6 DEF Types, ChangeInbox
  <1>20. CASE Prune
    <2>1. subscribers' \in Seq(Agent)
      BY <1>1, <1>20, RetainKeeps DEF Prune
    <2>2. QED  BY <1>1, <1>20, <2>1, RecordTypes DEF Types, Prune
  <1>21. CASE \E m \in (1 .. MaxMessages) \X (0 .. MaxCalls) : TimePasses(m)
    BY <1>1, <1>21 DEF Types, TimePasses
  <1>22. CASE RemoveExpired
    <2>1. inbox' \in [Agent -> Seq(Msg)]
      BY <1>7, <1>22, RetainKeeps DEF RemoveExpired
    <2>2. InInboxes \in SUBSET Msg
      <3>1. \A a \in Agent : Range(inbox[a]) \subseteq Msg
        BY <1>7, SequenceTypes DEF Range
      <3>2. QED  BY <3>1 DEF InInboxes
    <2>3. InInboxes \cap aged \in SUBSET Msg
      BY <2>2
    <2>4. cleanup' \in Cleanups
      BY <1>22, <2>3, CleanupTypes DEF RemoveExpired
    <2>5. QED  BY <1>1, <1>22, <2>1, <2>4 DEF Types, RemoveExpired
  <1>23. CASE LockDeadLetters \/ UnlockDeadLetters
    <2>1. /\ [cleanup EXCEPT !.at = "move"] \in Cleanups
          /\ [cleanup EXCEPT !.at = "forget"] \in Cleanups
      BY <1>1, CleanupTypes
    <2>2. cleanup' \in Cleanups
      BY <1>23, <2>1 DEF LockDeadLetters, UnlockDeadLetters
    <2>3. QED  BY <1>1, <1>23, <2>2
               DEF Types, LockDeadLetters, UnlockDeadLetters
  <1>24. CASE MoveExpired
    <2>1. PICK m \in cleanup.expired :
              /\ AddDeadLetter(m) /\ Fail(m)
              /\ cleanup' = [cleanup EXCEPT !.expired = @ \ {m}]
      BY <1>24 DEF MoveExpired
    <2>2. m \in Msg /\ cleanup.expired \ {m} \in SUBSET Msg
      BY <1>1, CleanupTypes
    <2>3. cleanup' \in Cleanups
      BY <1>1, <2>1, <2>2, CleanupTypes
    <2>4. tracker' \in [DOMAIN tracker' -> {"Pending", "Delivered", "Failed"}]
      BY <1>1, <1>4, <2>1, <2>2 DEF Fail
    <2>5. QED  BY <1>1, <1>5, <1>24, <2>1, <2>2, <2>3, <2>4
               DEF Types, MoveExpired
  <1>25. CASE Forget
    <2>1. cleanup' \in Cleanups
      BY <1>1, <1>25, CleanupTypes DEF Forget
    <2>2. tracker' \in [DOMAIN tracker' -> {"Pending", "Delivered", "Failed"}]
      BY <1>1, <1>25 DEF Forget
    <2>3. QED  BY <1>1, <1>25, <2>1, <2>2 DEF Types, Forget
  <1>26. CASE BeginShutdown
    <2>1. work' \in Works
      <3>1. [Idle EXCEPT !.at = "stopped"] \in Works
        BY RecordTypes, WorkTypes DEF Place
      <3>2. QED  BY <1>1, <1>26, <3>1 DEF BeginShutdown
    <2>2. events' \in Seq(Events) /\ up' \in BOOLEAN
      <3>1. <<>> \in Seq(Events)
        OBVIOUS
      <3>2. QED  BY <1>1, <1>26, <3>1 DEF BeginShutdown
    <2>3. stopping' \in Stoppings
      BY <1>1, <1>26, StoppingTypes DEF BeginShutdown
    <2>4. QED  BY <1>1, <1>26, <2>1, <2>2, <2>3 DEF Types, BeginShutdown
  <1>27. CASE ListAgents
    BY <1>1, <1>27, StoppingTypes DEF Types, ListAgents
  <1>28. CASE UnregisterNext
    <2>1. PICK a \in stopping.left :
              /\ Post(Event("unregister", a, None))
              /\ stopping' = [stopping EXCEPT !.left = @ \ {a}]
      BY <1>28 DEF UnregisterNext
    <2>2. a \in Agent /\ stopping.left \ {a} \in SUBSET Agent
      BY <1>1, StoppingTypes
    <2>3. stopping' \in Stoppings
      BY <1>1, <2>1, <2>2, StoppingTypes
    <2>4. events' \in Seq(Events)
      BY <1>2, <2>1, <2>2, RecordTypes
    <2>5. QED  BY <1>1, <1>28, <2>3, <2>4 DEF Types, UnregisterNext
  <1>29. CASE UNCHANGED vars
    BY <1>1, <1>29 DEF Types, vars
  <1>30. QED
    BY <1>9, <1>10, <1>11, <1>12, <1>13, <1>14, <1>15, <1>16, <1>17, <1>18,
       <1>19, <1>20, <1>21, <1>22, <1>23, <1>24, <1>25, <1>26, <1>27, <1>28,
       <1>29
       DEF Next, Calling, RequestStep, EventLoop, CleanupLoop, Shutdown

-----------------------------------------------------------------------------
(* The channel.                                                              *)

SentIn(s) == {s[i].msg : i \in {j \in DOMAIN s : s[j].op = "message"}}

\* The messages of s are numbered from D, in rising order.
Numbered(s, D) ==
    /\ \A i \in DOMAIN s :
          IF s[i].op = "message" THEN s[i].msg \in {<<n, 0>> : n \in D}
          ELSE s[i].agent \in Agent
    /\ \A i, j \in DOMAIN s :
          i < j /\ s[i].op = "message" /\ s[j].op = "message"
          => s[i].msg[1] < s[j].msg[1]

LEMMA NumberedAppend ==
    ASSUME NEW s \in Seq(Events), NEW D, Numbered(s, D), NEW E, D \subseteq E,
           NEW e \in Events,
           IF e.op = "message"
           THEN /\ e.msg \in {<<n, 0>> : n \in E}
                /\ \A n \in D : n < e.msg[1]
           ELSE e.agent \in Agent
    PROVE  Numbered(Append(s, e), E)
  <1> DEFINE t == Append(s, e)
  <1>1. /\ Len(s) \in Nat /\ DOMAIN s = 1 .. Len(s)
        /\ DOMAIN t = 1 .. Len(s) + 1
        /\ t[Len(s) + 1] = e /\ \A i \in 1 .. Len(s) : t[i] = s[i]
    BY SequenceTypes
  <1> HIDE DEF t
  <1>2. \A i \in DOMAIN t : \/ i \in DOMAIN s /\ t[i] = s[i]
                            \/ i = Len(s) + 1 /\ t[i] = e
    BY <1>1
  <1>3. \A i \in DOMAIN t :
            IF t[i].op = "message" THEN t[i].msg \in {<<n, 0>> : n \in E}
            ELSE t[i].agent \in Agent
    BY <1>2 DEF Numbered
  <1>4. ASSUME NEW i \in DOMAIN t, NEW j \in DOMAIN t, i < j,
               t[i].op = "message", t[j].op = "message"
        PROVE  t[i].msg[1] < t[j].msg[1]
    <2>1. i \in DOMAIN s /\ t[i] = s[i]
      BY <1>1, <1>4
    <2>2. CASE j \in DOMAIN s /\ t[j] = s[j]
      BY <1>4, <2>1, <2>2 DEF Numbered
    <2>3. CASE t[j] = e
      <3>1. PICK n \in D : s[i].msg = <<n, 0>>
        BY <1>4, <2>1 DEF Numbered
      <3>2. QED  BY <1>4, <2>1, <2>3, <3>1
    <2>4. QED  BY <1>2, <2>2, <2>3
  <1>5. QED  BY <1>3, <1>4 DEF Numbered, t

LEMMA SentAppend ==
    ASSUME NEW s \in Seq(Events), NEW e \in Events
    PROVE  /\ e.op = "message" => SentIn(Append(s, e)) = SentIn(s) \cup {e.msg}
           /\ e.op # "message" => SentIn(Append(s, e)) = SentIn(s)
  <1> DEFINE t == Append(s, e)
  <1>1. /\ Len(s) \in Nat /\ DOMAIN s = 1 .. Len(s)
        /\ DOMAIN t = 1 .. Len(s) + 1
        /\ t[Len(s) + 1] = e /\ \A i \in 1 .. Len(s) : t[i] = s[i]
    BY SequenceTypes
  <1> HIDE DEF t
  <1>2. \A i \in DOMAIN t : i \in DOMAIN s \/ i = Len(s) + 1
    BY <1>1
  <1>3. DOMAIN s \subseteq DOMAIN t /\ Len(s) + 1 \in DOMAIN t
    BY <1>1
  <1>4. /\ e.op = "message" => SentIn(t) = SentIn(s) \cup {e.msg}
        /\ e.op # "message" => SentIn(t) = SentIn(s)
    BY <1>1, <1>2, <1>3 DEF SentIn
  <1>5. QED  BY <1>4 DEF t

LEMMA NumberedTail ==
    ASSUME NEW s \in Seq(Events), NEW D, D \subseteq Nat, Numbered(s, D),
           s # <<>>
    PROVE  /\ Numbered(Tail(s), D)
           /\ Head(s).op = "message" =>
                 /\ Head(s).msg \in SentIn(s)
                 /\ SentIn(Tail(s)) = SentIn(s) \ {Head(s).msg}
                 /\ \A m \in SentIn(Tail(s)) : Head(s).msg[1] < m[1]
           /\ Head(s).op # "message" =>
                 /\ SentIn(Tail(s)) = SentIn(s)
                 /\ Head(s).agent \in Agent
  <1> DEFINE t == Tail(s)
             h == Head(s)
  <1>1. /\ Len(s) \in Nat /\ DOMAIN s = 1 .. Len(s) /\ Len(s) > 0
        /\ DOMAIN t = 1 .. Len(s) - 1
        /\ \A i \in DOMAIN t : t[i] = s[i + 1]
        /\ h = s[1]
    BY SequenceTypes
  <1> HIDE DEF t, h
  <1>2. /\ 1 \in DOMAIN s
        /\ \A i \in DOMAIN t : i + 1 \in DOMAIN s /\ 1 < i + 1
        /\ \A i \in DOMAIN s : i # 1 => i - 1 \in DOMAIN t /\ s[i] = t[i - 1]
    BY <1>1
  <1>3. \A i, j \in DOMAIN t : i < j => i + 1 < j + 1
    BY <1>1
  <1>4. Numbered(t, D)
    <2>1. \A i, j \in DOMAIN t :
              i < j /\ t[i].op = "message" /\ t[j].op = "message"
              => t[i].msg[1] < t[j].msg[1]
      BY <1>1, <1>2, <1>3 DEF Numbered
    <2>2. QED  BY <1>1, <1>2, <2>1 DEF Numbered
  <1>5. ASSUME h.op = "message"
        PROVE  /\ h.msg \in SentIn(s)
               /\ SentIn(t) = SentIn(s) \ {h.msg}
               /\ \A m \in SentIn(t) : h.msg[1] < m[1]
    <2>1. h.msg \in SentIn(s)
      BY <1>1, <1>2, <1>5 DEF SentIn
    <2>2. \A m \in SentIn(t) : h.msg[1] < m[1]
      <3>1. ASSUME NEW i \in DOMAIN t, t[i].op = "message"
            PROVE  h.msg[1] < t[i].msg[1]
        BY <1>1, <1>2, <1>5, <3>1 DEF Numbered
      <3>2. QED  BY <3>1 DEF SentIn
    <2>3. h.msg[1] \in Nat
      <3>1. PICK n \in D : h.msg = <<n, 0>>
        BY <1>1, <1>2, <1>5 DEF Numbered
      <3>2. QED  BY <3>1
    <2>4. h.msg \notin SentIn(t)
      BY <2>2, <2>3
    <2>5. SentIn(s) = SentIn(t) \cup {h.msg}
      BY <1>1, <1>2, <1>5 DEF SentIn
    <2>6. QED  BY <2>1, <2>2, <2>4, <2>5
  <1>6. ASSUME h.op # "message"
        PROVE  SentIn(t) = SentIn(s) /\ h.agent \in Agent
    <2>1. SentIn(t) = SentIn(s)
      BY <1>1, <1>2, <1>6 DEF SentIn
    <2>2. QED  BY <1>1, <1>2, <1>6, <2>1 DEF Numbered
  <1>7. QED  BY <1>4, <1>5, <1>6 DEF t, h

LEMMA ChannelIs ==
    /\ ChannelInv <=> Numbered(events, DOMAIN issued)
    /\ Sent = SentIn(events)
  BY DEF ChannelInv, Numbered, Sent, SentIn

\* What a step does to the channel: nothing, or a message is put on it,
\* or an event of another kind, or the first is taken, or all are dropped.
Quiet == issued' = issued /\ Sent' = Sent

Sends ==
    /\ up /\ work.at # "stopped"
    /\ Len(issued') = Len(issued) + 1
    /\ Sent' = Sent \cup {<<Len(issued) + 1, 0>>}

TakesMessage ==
    /\ issued' = issued /\ events # <<>> /\ work.at = "idle"
    /\ Head(events).op = "message" /\ Head(events).msg \in Sent
    /\ Sent' = Sent \ {Head(events).msg}
    /\ \A s \in Sent' : Head(events).msg[1] < s[1]

Drops == issued' = issued /\ events' = <<>> /\ Sent' = {}

LEMMA Issuing ==
    ASSUME TypeInv, up, NEW kind, NEW to \in Recipient, NEW id,
           Issue(kind, to, id), issued' \in Seq(Issues)
    PROVE  ChannelInv' /\ Sends
  <1> DEFINE e == Event("message", to, <<Len(issued) + 1, 0>>)
  <1>1. /\ Len(issued) \in Nat /\ DOMAIN issued = 1 .. Len(issued)
        /\ issued \in Seq(Issues) /\ events \in Seq(Events)
    BY MessageTypes DEF TypeInv, Types
  <1>2. work.at # "stopped" /\ events' = Append(events, e)
    BY DEF TypeInv, LoopInv, Issue, Post
  <1>3. e \in Events /\ e.op = "message" /\ e.msg = <<Len(issued) + 1, 0>>
    <2>1. \A n \in Nat : <<n + 1, 0>> \in Msg
      BY DEF Msg
    <2>2. <<Len(issued) + 1, 0>> \in Msg
      BY <1>1, <2>1
    <2>3. e.op = "message" /\ e.msg = <<Len(issued) + 1, 0>>
      BY RecordTypes
    <2>4. e \in Events
      BY <2>2, RecordTypes
    <2>5. QED  BY <2>3, <2>4
  <1> HIDE DEF e
  <1>4. Len(issued') = Len(issued) + 1 /\ DOMAIN issued' = 1 .. Len(issued) + 1
    <2> DEFINE rec == [kind |-> kind, to |-> to, id |-> id]
    <2>1. issued' = Append(issued, rec)
      BY DEF Issue
    <2> HIDE DEF rec
    <2>2. Len(issued') = Len(issued) + 1
      BY <1>1, <2>1
    <2>3. QED  BY <2>2, SequenceTypes
  <1>5. /\ DOMAIN issued \subseteq DOMAIN issued'
        /\ Len(issued) + 1 \in DOMAIN issued'
        /\ \A n \in DOMAIN issued : n < Len(issued) + 1
    BY <1>1, <1>4
  <1>6. Numbered(events', DOMAIN issued')
    <2>1. Numbered(events, DOMAIN issued)
      BY ChannelIs DEF TypeInv
    <2>2. e.msg \in {<<n, 0>> : n \in DOMAIN issued'}
      BY <1>3, <1>5
    <2>3. \A n \in DOMAIN issued : n < e.msg[1]
      BY <1>3, <1>5
    <2>4. QED  BY <1>1, <1>2, <1>3, <1>5, <2>1, <2>2, <2>3, NumberedAppend
  <1>7. SentIn(events') = SentIn(events) \cup {<<Len(issued) + 1, 0>>}
    BY <1>1, <1>2, <1>3, SentAppend
  <1>8. ChannelInv'
    BY <1>6 DEF ChannelInv, Numbered
  <1>9. Sent' = Sent \cup {<<Len(issued) + 1, 0>>}
    BY <1>7 DEF Sent, SentIn
  <1>10. QED  BY <1>2, <1>4, <1>8, <1>9 DEF Sends

LEMMA PostingOther ==
    ASSUME TypeInv, NEW op \in {"register", "unregister"}, NEW a \in Agent,
           Post(Event(op, a, None)), issued' = issued
    PROVE  ChannelInv' /\ Sent' = Sent
  <1> DEFINE e == Event(op, a, None)
  <1>1. e \in Events /\ e.op # "message" /\ e.agent = a
    BY RecordTypes
  <1> HIDE DEF e
  <1>2. CASE events' = events
    BY <1>2 DEF TypeInv, ChannelInv, Sent
  <1>3. CASE events' = Append(events, e)
    <2>1. Numbered(events, DOMAIN issued) /\ events \in Seq(Events)
      BY ChannelIs DEF TypeInv, Types
    <2>2. Numbered(events', DOMAIN issued')
      BY <1>1, <1>3, <2>1, NumberedAppend
    <2>3. SentIn(events') = SentIn(events)
      BY <1>1, <1>3, <2>1, SentAppend
    <2>4. QED  BY <2>2, <2>3 DEF ChannelInv, Numbered, Sent, SentIn
  <1>4. QED  BY <1>2, <1>3 DEF Post, e

LEMMA TakingEvent ==
    ASSUME TypeInv, NEW op, Takes(op), issued' = issued
    PROVE  /\ ChannelInv'
           /\ op = "message" => TakesMessage
           /\ op # "message" => Sent' = Sent /\ Head(events).agent \in Agent
  <1>1. /\ Numbered(events, DOMAIN issued) /\ events \in Seq(Events)
        /\ DOMAIN issued \subseteq Nat
    BY ChannelIs, MessageTypes DEF TypeInv, Types
  <1>2. /\ events # <<>> /\ events' = Tail(events) /\ Head(events).op = op
        /\ work.at = "idle"
    BY DEF Takes
  <1>3. Numbered(events', DOMAIN issued')
    BY <1>1, <1>2, NumberedTail
  <1>4. op = "message" =>
            /\ Head(events).msg \in SentIn(events)
            /\ SentIn(events') = SentIn(events) \ {Head(events).msg}
            /\ \A m \in SentIn(events') : Head(events).msg[1] < m[1]
    BY <1>1, <1>2, NumberedTail
  <1>5. op # "message" => /\ SentIn(events') = SentIn(events)
                          /\ Head(events).agent \in Agent
    BY <1>1, <1>2, NumberedTail
  <1>6. ChannelInv'
    BY <1>3 DEF ChannelInv, Numbered
  <1>7. Sent = SentIn(events) /\ Sent' = SentIn(events')
    BY DEF Sent, SentIn
  <1>8. op = "message" => TakesMessage
    BY <1>2, <1>4, <1>7 DEF TakesMessage
  <1>9. QED  BY <1>5, <1>6, <1>7, <1>8

LEMMA CallingChannel ==
    ASSUME TypeInv, PlaceInv, Types', Calling
    PROVE  /\ ChannelInv' /\ (Sends \/ Quiet)
           /\ UNCHANGED <<up, work, pending, cleanup, aged, stopping, asked,
                          calls, agents, letters, history>>
  <1>1. UNCHANGED <<up, work, pending, cleanup, aged, stopping, asked, calls,
                    agents, letters, history>>
    BY DEF Calling, Send, Respond, SendRequest
  <1>2. CASE issued' = issued /\ events' = events
    BY <1>2, <1>1 DEF Quiet, TypeInv, ChannelInv, Sent
  <1>3. CASE up /\ \E kind \in {"direct", "publish", "request", "response"},
                      to \in Recipient, id \in Nat : Issue(kind, to, id)
    BY <1>1, <1>3, Issuing DEF Types
  <1>4. QED  BY <1>2, <1>3, CallingIssues

\* What moves no message.
Outside ==
    \/ \E a \in Agent : Register(a) \/ Subscribe(a) \/ Unsubscribe(a)
    \/ \E t \in Thread : \/ BeginRequest(t) \/ Drop(t) \/ Timeout(t)
                         \/ Withdraw(t) \/ ReturnAnswer(t)
    \/ \E m \in (1 .. MaxMessages) \X (0 .. MaxCalls) : TimePasses(m)
    \/ LockDeadLetters \/ UnlockDeadLetters
    \/ ListAgents \/ UnregisterNext
    \/ UNCHANGED vars

LEMMA OutsideChannel ==
    ASSUME TypeInv, Types', Outside
    PROVE  /\ ChannelInv' /\ Quiet
           /\ UNCHANGED <<up, work, inbox, registered, letters, history>>
           /\ cleanup'.expired = cleanup.expired
           /\ cleanup'.at \in {"idle", "forget"} => cleanup.expired = {}
  <1> USE DEF callers, agents, letters, history
  <1>1. events' = events /\ issued' = issued => ChannelInv' /\ Quiet
    BY DEF TypeInv, ChannelInv, Sent, Quiet
  <1>2. cleanup.at \in {"idle", "forget"} => cleanup.expired = {}
    BY DEF TypeInv, LoopInv
  <1>3. CASE \E a \in Agent : Register(a)
    <2>1. PICK a \in Agent : Register(a)
      BY <1>3
    <2>2. issued' = issued
          /\ \E op \in {"register", "unregister"} : Post(Event(op, a, None))
      BY <2>1 DEF Register
    <2>3. ChannelInv' /\ Quiet
      BY <2>2, PostingOther DEF Quiet
    <2>4. QED  BY <1>2, <2>1, <2>3 DEF Register
  <1>4. CASE \E a \in Agent : Subscribe(a) \/ Unsubscribe(a)
    BY <1>1, <1>2, <1>4 DEF Subscribe, Unsubscribe
  <1>5. CASE \E t \in Thread : \/ BeginRequest(t) \/ Drop(t) \/ Timeout(t)
                               \/ Withdraw(t) \/ ReturnAnswer(t)
    BY <1>1, <1>2, <1>5
       DEF BeginRequest, Drop, Timeout, Withdraw, ReturnAnswer
  <1>6. CASE \E m \in (1 .. MaxMessages) \X (0 .. MaxCalls) : TimePasses(m)
    BY <1>1, <1>2, <1>6 DEF TimePasses
  <1>7. CASE LockDeadLetters \/ UnlockDeadLetters
    <2>1. cleanup \in Cleanups
      BY DEF TypeInv, Types
    <2>2. /\ [cleanup EXCEPT !.at = "move"].at = "move"
          /\ [cleanup EXCEPT !.at = "move"].expired = cleanup.expired
          /\ [cleanup EXCEPT !.at = "forget"].expired = cleanup.expired
      BY <2>1, CleanupTypes
    <2>3. /\ LockDeadLetters => cleanup'.at = "move"
          /\ UnlockDeadLetters => cleanup.expired = {}
          /\ cleanup'.expired = cleanup.expired
      BY <1>7, <2>2 DEF LockDeadLetters, UnlockDeadLetters
    <2>4. QED  BY <1>1, <1>7, <2>3 DEF LockDeadLetters, UnlockDeadLetters
  <1>8. CASE ListAgents
    BY <1>1, <1>2, <1>8 DEF ListAgents
  <1>9. CASE UnregisterNext
    <2>1. PICK a \in stopping.left : Post(Event("unregister", a, None))
      BY <1>9 DEF UnregisterNext
    <2>2. a \in Agent
      BY StoppingTypes DEF TypeInv, Types
    <2>3. issued' = issued
      BY <1>9 DEF UnregisterNext
    <2>4. ChannelInv' /\ Quiet
      BY <2>1, <2>2, <2>3, PostingOther DEF Quiet
    <2>5. QED  BY <1>2, <1>9, <2>4 DEF UnregisterNext
  <1>10. CASE UNCHANGED vars
    BY <1>1, <1>2, <1>10 DEF vars
  <1>11. QED
    BY <1>3, <1>4, <1>5, <1>6, <1>7, <1>8, <1>9, <1>10 DEF Outside

LEMMA NextIs ==
    ASSUME Next \/ UNCHANGED vars
    PROVE  \/ Calling \/ Outside
           \/ \E a \in Agent : Receive(a)
           \/ TakeMessage \/ Answer \/ Copy \/ Deliver \/ Bury
           \/ ChangeInbox \/ Prune
           \/ RemoveExpired \/ MoveExpired \/ Forget \/ BeginShutdown
  BY DEF Next, Calling, Outside, RequestStep, EventLoop, CleanupLoop, Shutdown

\* The steps that leave the channel as it is and move messages.
Inside ==
    \/ \E a \in Agent : Receive(a)
    \/ Answer \/ Copy \/ Deliver \/ Bury \/ Prune
    \/ RemoveExpired \/ MoveExpired \/ Forget

LEMMA InsideIsQuiet ==
    ASSUME Inside
    PROVE  Quiet /\ issued' = issued /\ events' = events /\ UNCHANGED up
  <1>1. issued' = issued /\ events' = events /\ UNCHANGED up
    BY DEF Inside, Receive, Answer, Copy, Deliver, Bury, Prune, RemoveExpired,
           MoveExpired, Forget, callers, agents, letters, history
  <1>2. QED  BY <1>1 DEF Quiet, Sent

LEMMA TakeMessageChannel ==
    ASSUME TypeInv, TakeMessage PROVE ChannelInv' /\ TakesMessage
  BY TakingEvent DEF TakeMessage, callers

LEMMA ChangeInboxChannel ==
    ASSUME TypeInv, ChangeInbox
    PROVE  ChannelInv' /\ Quiet /\ Head(events).agent \in Agent
  BY TakingEvent DEF ChangeInbox, callers, Quiet

LEMMA ShutdownChannel ==
    ASSUME TypeInv, BeginShutdown
    PROVE  ChannelInv' /\ (Quiet \/ Drops)
  <1>1. issued' = issued
    BY DEF BeginShutdown, callers
  <1>2. CASE events' = events
    BY <1>1, <1>2 DEF TypeInv, ChannelInv, Sent, Quiet
  <1>3. CASE events' = <<>>
    <2>1. DOMAIN events' = {}
      BY <1>3
    <2>2. QED  BY <1>1, <1>3, <2>1 DEF ChannelInv, Sent, Drops
  <1>4. QED  BY <1>2, <1>3 DEF BeginShutdown

LEMMA ChannelStep ==
    ASSUME TypeInv, PlaceInv, Types', Next \/ UNCHANGED vars
    PROVE  ChannelInv'
  <1>1. CASE Inside
    BY <1>1, InsideIsQuiet DEF TypeInv, ChannelInv
  <1>2. QED
    BY <1>1, NextIs, CallingChannel, OutsideChannel, TakeMessageChannel,
       ChangeInboxChannel, ShutdownChannel DEF Inside

-----------------------------------------------------------------------------
(* The loops, and the sizes.                                                 *)

LEMMA WorkMoves ==
    ASSUME work \in Works
    PROVE  /\ \A at \in {"deliver", "bury", "copy"} :
                 /\ [work EXCEPT !.at = at].at = at
                 /\ [work EXCEPT !.at = at].msg = work.msg
                 /\ [work EXCEPT !.at = at].to = work.to
                 /\ [work EXCEPT !.at = at].todo = work.todo
           /\ [Idle EXCEPT !.at = "stopped"].at = "stopped"
  <1>1. {"deliver", "bury", "copy", "stopped"} \subseteq Place
    BY DEF Place
  <1>2. Idle \in Works
    BY RecordTypes
  <1>3. QED  BY <1>1, <1>2, WorkTypes

LEMMA DoneKeepsLoop ==
    ASSUME work \in Works, Done
    PROVE  /\ work'.at \in {"idle", "copy"}
           /\ work'.at = "copy" => /\ work'.todo # <<>> /\ work.todo # <<>>
                                   /\ work'.msg = work.msg
                                   /\ work'.todo = work.todo
  BY WorkMoves, RecordTypes DEF Done

LEMMA LoopStep ==
    ASSUME TypeInv, PlaceInv, OrderInv, Types', Next \/ UNCHANGED vars
    PROVE  LoopInv'
  <1> USE DEF callers, agents, letters, history
  <1>1. LoopInv /\ work \in Works /\ cleanup \in Cleanups
    BY DEF TypeInv, Types
  <1>2. Len(issued') \in Nat /\ DOMAIN issued' = 1 .. Len(issued')
    BY SequenceTypes DEF Types
  <1>3. Len(issued) \in Nat /\ DOMAIN issued = 1 .. Len(issued)
    BY MessageTypes
  <1>4. Quiet \/ Drops \/ Sends \/ TakesMessage
        => DOMAIN issued \subseteq DOMAIN issued'
    <2>1. CASE Sends
      <3>1. Len(issued') = Len(issued) + 1
        BY <2>1 DEF Sends
      <3>2. QED  BY <1>2, <1>3, <3>1
    <2>2. QED  BY <2>1 DEF Quiet, Drops, TakesMessage
  <1>5. CASE Calling
    BY <1>1, <1>4, <1>5, CallingChannel DEF LoopInv
  <1>6. CASE Outside
    BY <1>1, <1>4, <1>6, OutsideChannel DEF LoopInv
  <1>7. CASE \E a \in Agent : Receive(a)
    BY <1>1, <1>7 DEF LoopInv, Receive
  <1>8. CASE TakeMessage
    <2>1. /\ work'.at \in {"idle", "copy", "answer", "deliver"}
          /\ work'.at = "copy" => work'.todo # <<>>
      BY <1>8, RecordTypes DEF TakeMessage, Handle
    <2>2. QED  BY <1>1, <1>8, <2>1 DEF LoopInv, TakeMessage
  <1>9. CASE Answer
    <2>1. work'.at \in {"idle", "copy", "deliver"}
          /\ (work'.at = "copy" => work'.todo # <<>>)
      BY <1>1, <1>9, DoneKeepsLoop, WorkMoves DEF Answer
    <2>2. QED  BY <1>1, <1>9, <2>1 DEF LoopInv, Answer
  <1>10. CASE Copy
    <2>1. work'.at = "deliver"
      BY <1>10 DEF Copy, Handle
    <2>2. work.msg \in Messages /\ work.msg[1] \in DOMAIN issued
          /\ work.msg[2] + 1 > 0
      <3>1. work.msg \in Messages
        BY <1>10 DEF OrderInv, HasMessage, Taken, Copy
      <3>2. work.msg[2] \in Nat
        BY <3>1, MessageTypes, RecordTypes
      <3>3. QED  BY <3>1, <3>2, MessageTypes
    <2>3. QED  BY <1>1, <1>10, <2>1, <2>2 DEF LoopInv, Copy
  <1>11. CASE Deliver \/ Bury
    <2>1. work'.at \in {"idle", "copy", "bury"}
          /\ (work'.at = "copy" => work'.todo # <<>>)
      BY <1>1, <1>11, DoneKeepsLoop, WorkMoves DEF Deliver, Bury
    <2>2. QED  BY <1>1, <1>11, <2>1 DEF LoopInv, Deliver, Bury
  <1>12. CASE ChangeInbox
    <2>1. Head(events).agent \in Agent /\ Quiet
      BY <1>12, ChangeInboxChannel
    <2>2. \/ work' = work
          \/ work'.at = "prune" /\ work'.to = Head(events).agent
      BY <1>12 DEF ChangeInbox, Handle
    <2>3. QED  BY <1>1, <1>12, <2>1, <2>2 DEF LoopInv, ChangeInbox
  <1>13. CASE Prune
    BY <1>1, <1>13, RecordTypes DEF LoopInv, Prune
  <1>14. CASE RemoveExpired
    <2>1. cleanup'.at = "lock"
      BY <1>14 DEF RemoveExpired
    <2>2. QED  BY <1>1, <1>14, <2>1 DEF LoopInv, RemoveExpired
  <1>15. CASE MoveExpired
    <2>1. cleanup'.at = "move"
      BY <1>1, <1>15, CleanupTypes DEF MoveExpired, Moving
    <2>2. QED  BY <1>1, <1>15, <2>1 DEF LoopInv, MoveExpired
  <1>16. CASE Forget
    <2>1. cleanup'.expired = cleanup.expired /\ cleanup.at = "forget"
      BY <1>1, <1>16, CleanupTypes DEF Forget
    <2>2. QED  BY <1>1, <1>16, <2>1 DEF LoopInv, Forget
  <1>17. CASE BeginShutdown
    <2>1. \/ work' = work \/ work'.at = "stopped"
      BY <1>1, <1>17, WorkMoves DEF BeginShutdown
    <2>2. ~up'
      BY <1>17 DEF BeginShutdown
    <2>3. QED  BY <1>1, <1>17, <2>1, <2>2 DEF LoopInv, BeginShutdown
  <1>18. QED
    BY NextIs, <1>5, <1>6, <1>7, <1>8, <1>9, <1>10, <1>11, <1>12, <1>13,
       <1>14, <1>15, <1>16, <1>17

\* The oldest dead letter makes room for the new one.
LEMMA DeadLetterAdded ==
    ASSUME TypeInv, NEW m \in Msg, AddDeadLetter(m), m \notin Range(dead),
           \A i, j \in DOMAIN dead : i # j => dead[i] # dead[j]
    PROVE  /\ Len(dead') <= dead_letter_queue_size
           /\ \A i, j \in DOMAIN dead' : i # j => dead'[i] # dead'[j]
           /\ \E X \in SUBSET Range(dead) :
                 /\ Range(dead') = (Range(dead) \cup {m}) \ X
                 /\ evicted' = evicted \cup X
  <1>1. /\ dead \in Seq(Msg) /\ Len(dead) \in Nat
        /\ DOMAIN dead = 1 .. Len(dead) /\ Len(dead) <= dead_letter_queue_size
        /\ dead_letter_queue_size \in Nat \ {0}
    BY BusAssumption, SequenceTypes DEF TypeInv, Types, SizeInv
  <1>2. CASE Len(dead) < dead_letter_queue_size
    <2>1. dead' = Append(dead, m) /\ evicted' = evicted
      BY <1>2 DEF AddDeadLetter
    <2>2. Range(dead') = Range(dead) \cup {m}
      BY <1>1, <2>1, AppendRange
    <2>3. /\ Len(dead') = Len(dead) + 1 /\ DOMAIN dead' = 1 .. Len(dead) + 1
          /\ dead'[Len(dead) + 1] = m
          /\ \A i \in 1 .. Len(dead) : dead'[i] = dead[i]
      BY <1>1, <2>1, SequenceTypes
    <2>4. \A i \in DOMAIN dead' :
              \/ i \in DOMAIN dead /\ dead'[i] = dead[i]
              \/ i = Len(dead) + 1 /\ dead'[i] = m
      BY <1>1, <2>3
    <2>5. \A i, j \in DOMAIN dead' : i # j => dead'[i] # dead'[j]
      BY <2>4 DEF Range
    <2>6. Len(dead') <= dead_letter_queue_size
      BY <1>1, <1>2, <2>3
    <2>7. /\ {} \in SUBSET Range(dead)
          /\ Range(dead') = (Range(dead) \cup {m}) \ {}
          /\ evicted' = evicted \cup {}
      BY <2>1, <2>2
    <2>8. QED  BY <2>5, <2>6, <2>7
  <1>3. CASE ~(Len(dead) < dead_letter_queue_size)
    <2> DEFINE t == Tail(dead)
               h == Head(dead)
               n == Len(dead)
    <2>1. dead' = Append(t, m) /\ evicted' = evicted \cup {h}
      BY <1>3 DEF AddDeadLetter
    <2>2. dead # <<>> /\ n > 0 /\ n = dead_letter_queue_size
      <3>1. \A k \in Nat, l \in Nat \ {0} :
                k <= l /\ ~(k < l) => k = l /\ k > 0
        OBVIOUS
      <3>2. n > 0 /\ n = dead_letter_queue_size
        BY <1>1, <1>3, <3>1
      <3>3. QED  BY <1>1, <3>2, SequenceTypes
    <2>3. /\ t \in Seq(Msg) /\ Len(t) = n - 1 /\ h = dead[1]
          /\ \A i \in 1 .. n - 1 : t[i] = dead[i + 1]
      BY <1>1, <2>2, SequenceTypes
    <2>4. DOMAIN t = 1 .. n - 1
      BY <2>3, SequenceTypes
    <2>5. /\ Len(dead') = Len(t) + 1 /\ DOMAIN dead' = 1 .. Len(t) + 1
          /\ dead'[Len(t) + 1] = m
          /\ \A i \in 1 .. Len(t) : dead'[i] = t[i]
      BY <2>1, <2>3, SequenceTypes
    <2> HIDE DEF t, h, n
    <2>6. /\ n \in Nat /\ DOMAIN dead = 1 .. n /\ DOMAIN dead' = 1 .. n
          /\ dead'[n] = m
          /\ \A i \in 1 .. n - 1 : dead'[i] = dead[i + 1]
      BY <1>1, <2>2, <2>3, <2>4, <2>5 DEF n
    <2>7. /\ 1 \in DOMAIN dead /\ n \in DOMAIN dead'
          /\ \A i \in DOMAIN dead' : i = n \/ i + 1 \in DOMAIN dead
          /\ \A i, j \in DOMAIN dead' : i # j => i + 1 # j + 1
          /\ \A i \in DOMAIN dead :
                i = 1 \/ (i - 1 \in 1 .. n - 1 /\ i - 1 \in DOMAIN dead'
                          /\ i - 1 # n /\ (i - 1) + 1 = i)
          /\ \A i \in DOMAIN dead' : i # n => i \in 1 .. n - 1 /\ i + 1 # 1
      BY <2>2, <2>6
    <2>8. \A i \in DOMAIN dead' :
              \/ i # n /\ i + 1 \in DOMAIN dead /\ dead'[i] = dead[i + 1]
              \/ i = n /\ dead'[i] = m
      BY <2>6, <2>7
    <2>9. \A i, j \in DOMAIN dead' : i # j => dead'[i] # dead'[j]
      <3> SUFFICES ASSUME NEW i \in DOMAIN dead', NEW j \in DOMAIN dead',
                          i # j
                   PROVE  dead'[i] # dead'[j]
        OBVIOUS
      <3>1. i + 1 # j + 1
        BY <2>7
      <3>2. QED  BY <2>8, <3>1 DEF Range
    <2>10. \A i \in DOMAIN dead : i = 1 \/ \E j \in DOMAIN dead' :
                                              dead[i] = dead'[j] /\ j # n
      BY <2>6, <2>7
    <2>11. Range(dead') = (Range(dead) \cup {m}) \ {h}
      <3>6. \A i, j \in DOMAIN dead : i # j => dead[i] # dead[j]
        BY <1>1
      <3>1. h \in Range(dead) /\ h # m
        BY <2>3, <2>7 DEF Range
      <3>2. \A i \in DOMAIN dead' : i # n => dead'[i] # h
        BY <2>3, <2>7, <2>8, <3>6
      <3>3. Range(dead') \subseteq (Range(dead) \cup {m}) \ {h}
        BY <2>8, <3>1, <3>2 DEF Range
      <3>4. (Range(dead) \cup {m}) \ {h} \subseteq Range(dead')
        <4>1. m \in Range(dead')
          BY <2>6, <2>7 DEF Range
        <4>2. \A i \in DOMAIN dead : dead[i] # h => dead[i] \in Range(dead')
          BY <2>3, <2>10 DEF Range
        <4>3. QED  BY <4>1, <4>2 DEF Range
      <3>5. QED  BY <3>3, <3>4
    <2>12. {h} \in SUBSET Range(dead)
      BY <2>3, <2>7 DEF Range
    <2>13. Len(dead') <= dead_letter_queue_size
      BY <2>2, <2>3, <2>5, <1>1 DEF n
    <2>14. QED  BY <2>1, <2>9, <2>11, <2>12, <2>13
  <1>4. QED  BY <1>2, <1>3

\* The message that becomes a dead letter is not one yet.
LEMMA NotYetDead ==
    ASSUME TypeInv, PlaceInv
    PROVE  /\ \A m \in InHand : m \in Msg /\ m \notin Range(dead) \cup evicted
           /\ \A m \in cleanup.expired :
                 m \in Msg /\ m \notin Range(dead) \cup evicted
           /\ \A m \in InHand : m \notin cleanup.expired
  <1>1. Once(Places, Messages)
    BY DEF PlaceInv
  <1>2. /\ InHand \subseteq Messages /\ cleanup.expired \subseteq Messages
    BY <1>1, PlacesAre DEF Once
  <1>3. /\ InHand \cap Range(dead) = {} /\ InHand \cap evicted = {}
        /\ cleanup.expired \cap Range(dead) = {}
        /\ cleanup.expired \cap evicted = {}
        /\ InHand \cap cleanup.expired = {}
    <2>1. /\ 2 \in 1 .. 8 /\ 4 \in 1 .. 8 /\ 6 \in 1 .. 8 /\ 7 \in 1 .. 8
      OBVIOUS
    <2>2. /\ Places[2] \cap Places[6] = {} /\ Places[2] \cap Places[7] = {}
          /\ Places[4] \cap Places[6] = {} /\ Places[4] \cap Places[7] = {}
          /\ Places[2] \cap Places[4] = {}
      BY <1>1, <2>1, OnceIsDisjoint
    <2>3. QED  BY <2>2, PlacesAre
  <1>4. QED  BY <1>2, <1>3, MessageTypes

LEMMA SizeStep ==
    ASSUME TypeInv, PlaceInv, Next \/ UNCHANGED vars
    PROVE  SizeInv'
  <1>1. /\ \A a \in Agent : Len(inbox[a]) <= max_queue_size
        /\ \A a \in Agent \ registered : inbox[a] = <<>>
        /\ Len(dead) <= dead_letter_queue_size
        /\ inbox \in [Agent -> Seq(Msg)]
        /\ max_queue_size \in Nat
        /\ Len(<<>>) = 0 /\ <<>> \in Seq(Msg)
    BY BusAssumption DEF TypeInv, SizeInv, Types
  <1>2. \A a \in Agent : inbox[a] \in Seq(Msg) /\ Len(inbox[a]) \in Nat
    BY <1>1, SequenceTypes
  <1> USE DEF callers, agents, letters, history
  <1>3. ASSUME UNCHANGED <<inbox, registered, dead>> PROVE SizeInv'
    BY <1>1, <1>3 DEF SizeInv
  <1>4. CASE \E a \in Agent : Receive(a)
    <2>1. PICK a \in Agent : Receive(a)
      BY <1>4
    <2>2. inbox' = [inbox EXCEPT ![a] = <<>>] /\ UNCHANGED <<registered, dead>>
      BY <2>1 DEF Receive
    <2>3. QED  BY <1>1, <2>2 DEF SizeInv
  <1>5. CASE Deliver
    <2>1. CASE Accepts(work.to)
      <3>1. /\ work.to \in registered /\ Len(inbox[work.to]) < max_queue_size
            /\ inbox' = [inbox EXCEPT ![work.to] = Append(@, work.msg)]
            /\ UNCHANGED <<registered, dead>>
        BY <1>5, <2>1 DEF Deliver, Accepts, Queued
      <3>2. work.to \in Agent /\ work.msg \in Msg
        BY <3>1, WorkTypes DEF TypeInv, Types
      <3>3. Len(Append(inbox[work.to], work.msg)) = Len(inbox[work.to]) + 1
        BY <1>2, <3>2, SequenceTypes
      <3>4. Len(Append(inbox[work.to], work.msg)) <= max_queue_size
        BY <1>1, <1>2, <3>1, <3>2, <3>3
      <3>5. QED  BY <1>1, <3>1, <3>2, <3>4 DEF SizeInv
    <2>2. CASE ~Accepts(work.to)
      BY <1>3, <1>5, <2>2 DEF Deliver
    <2>3. QED  BY <2>1, <2>2
  <1>6. CASE Bury
    <2>1. work.msg \in InHand
      BY <1>6 DEF Bury, Burying, InHand
    <2>2. Len(dead') <= dead_letter_queue_size
      BY <1>6, <2>1, NotYetDead, DeadLetterAdded DEF Bury, PlaceInv
    <2>3. QED  BY <1>1, <1>6, <2>2 DEF SizeInv, Bury
  <1>7. CASE ChangeInbox
    <2> DEFINE a == Head(events).agent
    <2>1. a \in Agent
      BY <1>7, ChangeInboxChannel
    <2>2. /\ inbox' = [inbox EXCEPT ![a] = <<>>]
          /\ registered' \in {registered \cup {a}, registered \ {a}}
          /\ dead' = dead
      BY <1>7 DEF ChangeInbox
    <2> HIDE DEF a
    <2>3. QED  BY <1>1, <2>1, <2>2 DEF SizeInv
  <1>8. CASE RemoveExpired
    <2>1. /\ inbox' = [a \in Agent |-> Retain(inbox[a], aged)]
          /\ UNCHANGED <<registered, dead>>
      BY <1>8 DEF RemoveExpired
    <2>2. ASSUME NEW a \in Agent
          PROVE  /\ Len(inbox'[a]) <= max_queue_size
                 /\ a \notin registered' => inbox'[a] = <<>>
      <3>1. /\ Retain(inbox[a], aged) \in Seq(Msg)
            /\ Len(Retain(inbox[a], aged)) <= Len(inbox[a])
        BY <1>2, RetainKeeps
      <3>2. Len(inbox'[a]) \in Nat /\ Len(inbox'[a]) <= Len(inbox[a])
            /\ inbox'[a] \in Seq(Msg)
        BY <2>1, <3>1, SequenceTypes
      <3>3. inbox[a] = <<>> => inbox'[a] = <<>>
        <4>1. inbox[a] = <<>> => Len(inbox'[a]) = 0
          BY <1>1, <3>2
        <4>2. Len(inbox'[a]) = 0 => inbox'[a] = <<>>
          BY <3>2, SequenceTypes
        <4>3. QED  BY <4>1, <4>2
      <3>4. Len(inbox'[a]) <= max_queue_size
        BY <1>1, <1>2, <3>2
      <3>5. QED  BY <1>1, <2>1, <3>3, <3>4
    <2>3. QED  BY <1>1, <2>1, <2>2 DEF SizeInv
  <1>9. CASE MoveExpired
    <2>1. PICK m \in cleanup.expired : AddDeadLetter(m)
      BY <1>9 DEF MoveExpired
    <2>2. Len(dead') <= dead_letter_queue_size
      BY <2>1, NotYetDead, DeadLetterAdded DEF PlaceInv
    <2>3. QED  BY <1>1, <1>9, <2>2 DEF SizeInv, MoveExpired
  <1>10. CASE \/ Calling \/ Outside \/ TakeMessage \/ Answer \/ Copy \/ Prune
              \/ Forget \/ BeginShutdown
    <2>1. UNCHANGED <<inbox, registered, dead>>
      BY <1>10
         DEF Calling, Outside, TakeMessage, Answer, Copy, Prune, Forget,
             BeginShutdown, Send, Respond, SendRequest, Register, Subscribe,
             Unsubscribe, BeginRequest, Drop, Timeout, Withdraw, ReturnAnswer,
             TimePasses, LockDeadLetters, UnlockDeadLetters, ListAgents,
             UnregisterNext, vars
    <2>2. QED  BY <1>3, <2>1
  <1>11. QED
    BY NextIs, <1>4, <1>5, <1>6, <1>7, <1>8, <1>9, <1>10

-----------------------------------------------------------------------------
(* Every message is at one place.                                            *)

\* The inboxes of different agents have nothing in common.
Apart == \A a, b \in Agent : a # b => Range(inbox[a]) \cap Range(inbox[b]) = {}

LEMMA InboxEmptied ==
    ASSUME inbox \in [Agent -> Seq(Msg)], Apart, NEW a \in Agent,
           inbox' = [inbox EXCEPT ![a] = <<>>]
    PROVE  /\ InInboxes' = InInboxes \ Range(inbox[a])
           /\ Range(inbox[a]) \subseteq InInboxes
           /\ Apart'
  <1>1. \A b \in Agent :
            Range(inbox'[b]) = IF b = a THEN {} ELSE Range(inbox[b])
    BY DEF Range
  <1>2. InInboxes = UNION {Range(inbox[b]) : b \in Agent}
        /\ InInboxes' = UNION {Range(inbox'[b]) : b \in Agent}
    BY DEF InInboxes
  <1>3. InInboxes' = InInboxes \ Range(inbox[a])
    <2>1. \A x : x \in InInboxes' <=> \E b \in Agent : x \in Range(inbox'[b])
      BY <1>2
    <2>2. \A x : x \in InInboxes <=> \E b \in Agent : x \in Range(inbox[b])
      BY <1>2
    <2>3. \A x : x \in InInboxes'
                  <=> x \in InInboxes /\ x \notin Range(inbox[a])
      BY <1>1, <2>1, <2>2 DEF Apart
    <2>4. QED  BY <2>3
  <1>4. QED  BY <1>1, <1>2, <1>3 DEF Apart

LEMMA InboxAppended ==
    ASSUME inbox \in [Agent -> Seq(Msg)], Apart, NEW a \in Agent,
           NEW m \in Msg, m \notin InInboxes,
           inbox' = [inbox EXCEPT ![a] = Append(@, m)]
    PROVE  /\ InInboxes' = InInboxes \cup {m}
           /\ Apart'
  <1>1. Range(Append(inbox[a], m)) = Range(inbox[a]) \cup {m}
    BY AppendRange
  <1>2. \A b \in Agent :
            Range(inbox'[b]) = IF b = a THEN Range(inbox[a]) \cup {m}
                               ELSE Range(inbox[b])
    BY <1>1
  <1>3. InInboxes = UNION {Range(inbox[b]) : b \in Agent}
        /\ InInboxes' = UNION {Range(inbox'[b]) : b \in Agent}
    BY DEF InInboxes
  <1>4. \A x : x \in InInboxes' <=> \E b \in Agent : x \in Range(inbox'[b])
    BY <1>3
  <1>5. \A x : x \in InInboxes <=> \E b \in Agent : x \in Range(inbox[b])
    BY <1>3
  <1>6. \A x : x \in InInboxes' <=> x \in InInboxes \/ x = m
    BY <1>2, <1>4, <1>5
  <1>7. Apart'
    BY <1>2, <1>5 DEF Apart
  <1>8. QED  BY <1>6, <1>7

LEMMA InboxRetained ==
    ASSUME inbox \in [Agent -> Seq(Msg)], Apart,
           inbox' = [a \in Agent |-> Retain(inbox[a], aged)]
    PROVE  /\ InInboxes' = InInboxes \ aged
           /\ Apart'
  <1>1. \A b \in Agent : Range(inbox'[b]) = Range(inbox[b]) \ aged
    BY RetainKeeps
  <1>2. InInboxes = UNION {Range(inbox[b]) : b \in Agent}
        /\ InInboxes' = UNION {Range(inbox'[b]) : b \in Agent}
    BY DEF InInboxes
  <1>3. \A x : x \in InInboxes' <=> x \in InInboxes /\ x \notin aged
    BY <1>1, <1>2
  <1>4. QED  BY <1>1, <1>3 DEF Apart

LEMMA FetchedMore ==
    ASSUME inbox \in [Agent -> Seq(Msg)], received \in [Agent -> Seq(Msg)],
           NEW a \in Agent, received' = [received EXCEPT ![a] = @ \o inbox[a]]
    PROVE  Fetched' = Fetched \cup Range(inbox[a])
  <1>1. Range(received[a] \o inbox[a])
            = Range(received[a]) \cup Range(inbox[a])
    BY ConcatSorted
  <1>2. \A b \in Agent : Range(received'[b]) =
            IF b = a THEN Range(received[a]) \cup Range(inbox[a])
            ELSE Range(received[b])
    BY <1>1
  <1>3. Fetched = UNION {Range(received[b]) : b \in Agent}
        /\ Fetched' = UNION {Range(received'[b]) : b \in Agent}
    BY DEF Fetched
  <1>4. ASSUME NEW x PROVE x \in Fetched' <=>
                               x \in Fetched \/ x \in Range(inbox[a])
    <2>1. x \in Fetched <=> \E b \in Agent : x \in Range(received[b])
      BY <1>3
    <2>2. x \in Fetched' <=> \E b \in Agent : x \in Range(received'[b])
      BY <1>3
    <2>3. \A b \in Agent : x \in Range(received'[b]) <=>
              \/ x \in Range(received[b])
              \/ b = a /\ x \in Range(inbox[a])
      BY <1>2
    <2>4. QED  BY <2>1, <2>2, <2>3
  <1>5. QED  BY <1>4

LEMMA PlacesNext ==
    /\ Places'[1] = Sent' /\ Places'[2] = InHand' /\ Places'[3] = InInboxes'
    /\ Places'[4] = cleanup'.expired /\ Places'[5] = Fetched'
    /\ Places'[6] = Range(dead') /\ Places'[7] = evicted' /\ Places'[8] = gone'
  BY DEF Places, Fetched

LEMMA SamePlaces ==
    ASSUME PlaceInv, Quiet, InHand' = InHand,
           UNCHANGED <<inbox, received, dead, evicted, gone, copied>>,
           cleanup'.expired = cleanup.expired
    PROVE  PlaceInv'
  <1>1. InInboxes' = InInboxes /\ Fetched' = Fetched /\ Sent' = Sent
    BY DEF InInboxes, Fetched, Quiet
  <1>2. \A k \in 1 .. 8 : Places'[k] = Places[k]
    BY <1>1, PlacesAre, PlacesNext
  <1>3. Messages' = Messages
    BY DEF Messages, Quiet
  <1>4. Once(Places', Messages')
    BY <1>2, <1>3 DEF PlaceInv, Once
  <1>5. QED  BY <1>4 DEF PlaceInv

\* Once, after a move.
LEMMA AfterMove ==
    ASSUME PlaceInv, Messages' = Messages, NEW M,
           NEW i \in 1 .. 8, NEW j \in 1 .. 8, i # j,
           Moves(Places, Places', M, i, j)
    PROVE  Once(Places', Messages')
  BY MovesKeepOnce DEF PlaceInv

\* A message becomes a dead letter, and perhaps another makes room.
LEMMA AfterBurial ==
    ASSUME PlaceInv, Messages' = Messages, NEW m, NEW X \in SUBSET Range(dead),
           NEW i \in {2, 4},
           Places[i] = Places'[i] \cup {m}, m \notin Places'[i],
           Range(dead') = (Range(dead) \cup {m}) \ X,
           evicted' = evicted \cup X,
           \A k \in 1 .. 8 \ {i, 6, 7} : Places'[k] = Places[k]
    PROVE  Once(Places', Messages')
  <1> DEFINE R == [k \in 1 .. 8 |-> IF k = i THEN Places'[i]
                                    ELSE IF k = 6 THEN Range(dead) \cup {m}
                                    ELSE Places[k]]
  <1>1. i \in 1 .. 8 /\ i # 6 /\ i # 7 /\ 6 \in 1 .. 8 /\ 7 \in 1 .. 8
    OBVIOUS
  <1>2. /\ R[i] = Places'[i] /\ R[6] = Range(dead) \cup {m} /\ R[7] = evicted
        /\ \A k \in 1 .. 8 \ {i, 6} : R[k] = Places[k]
    BY <1>1, PlacesAre
  <1> HIDE DEF R
  <1>3. Moves(Places, R, {m}, i, 6)
    BY <1>1, <1>2, PlacesAre DEF Moves
  <1>4. Once(R, Messages)
    BY <1>1, <1>3, MovesKeepOnce DEF PlaceInv
  <1>5. Moves(R, Places', X, 6, 7)
    BY <1>1, <1>2, PlacesNext DEF Moves
  <1>6. Once(Places', Messages)
    BY <1>1, <1>4, <1>5, MovesKeepOnce
  <1>7. QED  BY <1>6

LEMMA PlaceStep ==
    ASSUME TypeInv, PlaceInv, OrderInv, Types', Next \/ UNCHANGED vars
    PROVE  PlaceInv'
  <1> USE DEF callers, agents, letters, history
  <1>1. /\ inbox \in [Agent -> Seq(Msg)] /\ received \in [Agent -> Seq(Msg)]
        /\ work \in Works /\ cleanup \in Cleanups /\ dead \in Seq(Msg)
        /\ Once(Places, Messages) /\ Apart
        /\ \A i, j \in DOMAIN dead : i # j => dead[i] # dead[j]
    BY DEF TypeInv, Types, PlaceInv, Apart
  <1>2. /\ 1 \in 1 .. 8 /\ 2 \in 1 .. 8 /\ 3 \in 1 .. 8 /\ 4 \in 1 .. 8
        /\ 5 \in 1 .. 8 /\ 8 \in 1 .. 8
    OBVIOUS
  <1>3. work.at \notin {"answer", "deliver", "bury"} => InHand = {}
    BY DEF InHand
  <1>4. ASSUME Once(Places', Messages'), Apart',
               \A i, j \in DOMAIN dead' : i # j => dead'[i] # dead'[j]
        PROVE  PlaceInv'
    BY <1>4 DEF PlaceInv, Apart
  <1>5. inbox' = inbox => Apart' /\ InInboxes' = InInboxes
    BY <1>1 DEF Apart, InInboxes
  <1>6. received' = received => Fetched' = Fetched
    BY DEF Fetched
  <1>7. Quiet /\ copied' = copied => Messages' = Messages
    BY DEF Quiet, Messages
  <1>8. Done => InHand' = {}
    BY <1>1, DoneKeepsLoop DEF InHand
  <1>9. CASE Calling
    <2>1. UNCHANGED <<work, inbox, received, dead, evicted, gone, copied,
                      cleanup>>
      BY <1>9, CallingChannel
    <2>2. InHand' = InHand
      BY <2>1 DEF InHand
    <2>3. CASE Quiet
      BY <2>1, <2>2, <2>3, SamePlaces
    <2>4. CASE Sends
      <3> DEFINE m == <<Len(issued) + 1, 0>>
      <3>1. Sent' = Sent \cup {m}
        BY <2>4 DEF Sends
      <3>2. Adds(Places, Places', m, 1)
        <4>1. /\ Places'[1] = Places[1] \cup {m}
              /\ Places'[2] = Places[2] /\ Places'[3] = Places[3]
              /\ Places'[4] = Places[4] /\ Places'[5] = Places[5]
              /\ Places'[6] = Places[6] /\ Places'[7] = Places[7]
              /\ Places'[8] = Places[8]
          BY <1>5, <1>6, <2>1, <2>2, <3>1, PlacesAre, PlacesNext
        <4> HIDE DEF m
        <4>2. QED  BY <4>1 DEF Adds
      <3>3. /\ Len(issued) \in Nat /\ DOMAIN issued = 1 .. Len(issued)
            /\ DOMAIN issued' = 1 .. Len(issued) + 1
        BY <2>4, MessageTypes, SequenceTypes DEF Sends, Types
      <3>4. Messages' = Messages \cup {m}
        <4>1. DOMAIN issued' = DOMAIN issued \cup {Len(issued) + 1}
          BY <3>3
        <4>2. QED  BY <2>1, <4>1 DEF Messages
      <3>5. m \notin Messages
        <4>1. Len(issued) + 1 \notin DOMAIN issued
          BY <3>3
        <4>2. m[1] = Len(issued) + 1
          OBVIOUS
        <4>3. QED  BY <4>1, <4>2, MessageTypes
      <3> HIDE DEF m
      <3>6. Once(Places', Messages')
        BY <1>1, <1>2, <3>2, <3>4, <3>5, AddsKeepOnce
      <3>7. QED  BY <1>1, <1>4, <1>5, <2>1, <3>6
    <2>5. QED  BY <1>9, <2>3, <2>4, CallingChannel
  <1>10. CASE Outside
    <2>1. /\ Quiet /\ UNCHANGED <<work, inbox, received, dead, evicted, gone,
                                  copied>>
          /\ cleanup'.expired = cleanup.expired
      BY <1>10, OutsideChannel
    <2>2. QED  BY <2>1, SamePlaces DEF InHand
  <1>11. CASE \E a \in Agent : Receive(a)
    <2>1. PICK a \in Agent : Receive(a)
      BY <1>11
    <2>2. /\ inbox' = [inbox EXCEPT ![a] = <<>>]
          /\ received' = [received EXCEPT ![a] = @ \o inbox[a]]
          /\ UNCHANGED <<work, dead, evicted, gone, copied, cleanup>>
      BY <2>1 DEF Receive
    <2>3. Quiet /\ Messages' = Messages /\ InHand' = InHand
      BY <1>7, <1>11, <2>2, InsideIsQuiet DEF Inside, InHand
    <2>4. /\ InInboxes' = InInboxes \ Range(inbox[a])
          /\ Range(inbox[a]) \subseteq InInboxes /\ Apart'
      BY <1>1, <2>2, InboxEmptied
    <2>5. Fetched' = Fetched \cup Range(inbox[a])
      BY <1>1, <2>2, FetchedMore
    <2>6. Moves(Places, Places', Range(inbox[a]), 3, 5)
      BY <2>2, <2>3, <2>4, <2>5, PlacesAre, PlacesNext DEF Moves, Quiet
    <2>7. QED  BY <1>1, <1>2, <1>4, <2>2, <2>3, <2>4, <2>6, AfterMove
  <1>12. CASE TakeMessage
    <2> DEFINE m == Head(events).msg
    <2>1. /\ m \in Sent /\ Sent' = Sent \ {m} /\ issued' = issued
          /\ work.at = "idle"
      BY <1>12, TakeMessageChannel DEF TakesMessage
    <2>2. /\ UNCHANGED <<inbox, received, dead, evicted, copied, cleanup>>
          /\ \/ InHand' = {m} /\ gone' = gone
             \/ InHand' = {} /\ gone' = gone \cup {m}
      BY <1>12, RecordTypes DEF TakeMessage, Handle, InHand
    <2> HIDE DEF m
    <2>3. Messages' = Messages
      BY <2>1, <2>2 DEF Messages
    <2>4. InHand = {}
      BY <1>3, <2>1
    <2>5. \/ Moves(Places, Places', {m}, 1, 2)
          \/ Moves(Places, Places', {m}, 1, 8)
      <3>1. CASE InHand' = {m} /\ gone' = gone
        BY <1>5, <1>6, <2>1, <2>2, <2>4, <3>1, PlacesAre, PlacesNext DEF Moves
      <3>2. CASE InHand' = {} /\ gone' = gone \cup {m}
        BY <1>5, <1>6, <2>1, <2>2, <2>4, <3>2, PlacesAre, PlacesNext DEF Moves
      <3>3. QED  BY <2>2, <3>1, <3>2
    <2>6. Once(Places', Messages')
      BY <1>2, <2>3, <2>5, AfterMove
    <2>7. QED  BY <1>1, <1>4, <1>5, <2>2, <2>6
  <1>13. CASE Answer
    <2>1. /\ Quiet /\ UNCHANGED <<inbox, received, dead, evicted, copied,
                                  cleanup>>
          /\ InHand = {work.msg}
      BY <1>13, InsideIsQuiet DEF Inside, Answer, InHand
    <2>2. \/ InHand' = InHand /\ gone' = gone
          \/ InHand' = {} /\ gone' = gone \cup {work.msg}
      BY <1>1, <1>8, <1>13, WorkMoves DEF Answer, InHand
    <2>3. CASE InHand' = InHand /\ gone' = gone
      BY <2>1, <2>3, SamePlaces
    <2>4. CASE InHand' = {} /\ gone' = gone \cup {work.msg}
      <3>1. Moves(Places, Places', {work.msg}, 2, 8)
        BY <1>5, <1>6, <2>1, <2>4, PlacesAre, PlacesNext DEF Moves, Quiet
      <3>2. Once(Places', Messages')
        BY <1>2, <1>7, <2>1, <3>1, AfterMove
      <3>3. QED  BY <1>1, <1>4, <1>5, <2>1, <3>2
    <2>5. QED  BY <2>2, <2>3, <2>4
  <1>14. CASE Copy
    <2> DEFINE m == <<work.msg[1], work.msg[2] + 1>>
    <2>1. /\ Quiet
          /\ UNCHANGED <<inbox, received, dead, evicted, gone, cleanup>>
          /\ copied' = copied \cup {m} /\ work.at = "copy"
      BY <1>14, InsideIsQuiet DEF Inside, Copy
    <2>2. InHand = {} /\ InHand' = {m}
      BY <1>3, <1>14 DEF Copy, Handle, InHand
    <2>3. m \notin Messages
      <3>1. work.msg \in Taken
            /\ \A x \in Taken : x = work.msg \/ Earlier(x, work.msg)
        BY <2>1 DEF OrderInv, HasMessage
      <3>2. work.msg \in Msg /\ work.msg[1] \in Nat /\ work.msg[2] \in Nat
        BY <1>1, WorkTypes, RecordTypes
      <3>3. m[1] = work.msg[1] /\ m[2] = work.msg[2] + 1
        OBVIOUS
      <3>4. m # work.msg /\ ~Earlier(m, work.msg)
        BY <3>2, <3>3 DEF Earlier
      <3>5. m \notin Sent
        <4>1. \A x \in Sent : x[2] = 0
          BY MessageTypes
        <4>2. m[2] # 0
          BY <3>2, <3>3
        <4>3. QED  BY <4>1, <4>2
      <3> HIDE DEF m
      <3>6. QED  BY <3>1, <3>4, <3>5 DEF Taken
    <2> HIDE DEF m
    <2>4. Adds(Places, Places', m, 2)
      BY <1>5, <1>6, <2>1, <2>2, PlacesAre, PlacesNext DEF Adds, Quiet
    <2>5. Messages' = Messages \cup {m}
      BY <2>1 DEF Messages, Quiet
    <2>6. Once(Places', Messages')
      BY <1>1, <1>2, <2>3, <2>4, <2>5, AddsKeepOnce
    <2>7. QED  BY <1>1, <1>4, <1>5, <2>1, <2>6
  <1>15. CASE Deliver
    <2>1. /\ Quiet
          /\ UNCHANGED <<received, dead, evicted, gone, copied, cleanup>>
          /\ InHand = {work.msg}
      BY <1>15, InsideIsQuiet DEF Inside, Deliver, InHand
    <2>2. CASE Accepts(work.to)
      <3>1. /\ work.to \in Agent /\ Done
            /\ inbox' = [inbox EXCEPT ![work.to] = Append(@, work.msg)]
        BY <1>15, <2>2 DEF Deliver, Accepts, Queued, TypeInv, Types
      <3>2. work.msg \in Msg /\ work.msg \notin InInboxes
        <4>1. Places[2] \cap Places[3] = {}
          BY <1>1, <1>2, OnceIsDisjoint
        <4>2. QED  BY <1>1, <2>1, <4>1, PlacesAre, WorkTypes
      <3>3. InInboxes' = InInboxes \cup {work.msg} /\ Apart'
        BY <1>1, <3>1, <3>2, InboxAppended
      <3>4. Moves(Places, Places', {work.msg}, 2, 3)
        BY <1>6, <1>8, <2>1, <3>1, <3>3, PlacesAre, PlacesNext
           DEF Moves, Quiet
      <3>5. Once(Places', Messages')
        BY <1>2, <1>7, <2>1, <3>4, AfterMove
      <3>6. QED  BY <1>1, <1>4, <2>1, <3>3, <3>5
    <2>3. CASE ~Accepts(work.to)
      <3>1. inbox' = inbox /\ InHand' = InHand
        BY <1>1, <1>15, <2>3, WorkMoves DEF Deliver, InHand
      <3>2. QED  BY <2>1, <3>1, SamePlaces
    <2>4. QED  BY <2>2, <2>3
  <1>16. CASE Bury
    <2> DEFINE m == work.msg
    <2>1. /\ Quiet /\ UNCHANGED <<inbox, received, gone, copied, cleanup>>
          /\ InHand = {m} /\ InHand' = {} /\ AddDeadLetter(m)
      BY <1>8, <1>16, InsideIsQuiet DEF Inside, Bury, Burying, InHand
    <2> HIDE DEF m
    <2>2. m \in Msg /\ m \notin Range(dead)
      BY <2>1, NotYetDead
    <2>3. /\ \A i, j \in DOMAIN dead' : i # j => dead'[i] # dead'[j]
          /\ \E X \in SUBSET Range(dead) :
                /\ Range(dead') = (Range(dead) \cup {m}) \ X
                /\ evicted' = evicted \cup X
      BY <1>1, <2>1, <2>2, DeadLetterAdded
    <2>4. /\ Places[2] = Places'[2] \cup {m} /\ m \notin Places'[2]
          /\ \A k \in 1 .. 8 \ {2, 6, 7} : Places'[k] = Places[k]
      BY <1>5, <1>6, <2>1, PlacesAre, PlacesNext DEF Quiet
    <2>5. Messages' = Messages
      BY <1>7, <2>1
    <2>6. Once(Places', Messages')
      BY <2>3, <2>4, <2>5, AfterBurial
    <2>7. QED  BY <1>1, <1>4, <1>5, <2>1, <2>3, <2>6
  <1>17. CASE ChangeInbox
    <2> DEFINE a == Head(events).agent
    <2>1. /\ a \in Agent /\ Quiet
          /\ inbox' = [inbox EXCEPT ![a] = <<>>]
          /\ gone' = gone \cup Range(inbox[a])
          /\ UNCHANGED <<received, dead, evicted, copied, cleanup>>
      BY <1>17, ChangeInboxChannel DEF ChangeInbox
    <2>2. InHand = {} /\ InHand' = {}
      BY <1>3, <1>17 DEF ChangeInbox, Takes, Handle, InHand
    <2> HIDE DEF a
    <2>3. /\ InInboxes' = InInboxes \ Range(inbox[a])
          /\ Range(inbox[a]) \subseteq InInboxes /\ Apart'
      BY <1>1, <2>1, InboxEmptied
    <2>4. Moves(Places, Places', Range(inbox[a]), 3, 8)
      <3>1. /\ Places'[1] = Places[1] /\ Places'[2] = Places[2]
            /\ Places'[3] = Places[3] \ Range(inbox[a])
            /\ Places'[4] = Places[4] /\ Places'[5] = Places[5]
            /\ Places'[6] = Places[6] /\ Places'[7] = Places[7]
            /\ Places'[8] = Places[8] \cup Range(inbox[a])
            /\ Range(inbox[a]) \subseteq Places[3]
        BY <1>6, <2>1, <2>2, <2>3, PlacesAre, PlacesNext DEF Quiet
      <3>2. QED  BY <3>1 DEF Moves
    <2>5. Once(Places', Messages')
      BY <1>2, <1>7, <2>1, <2>4, AfterMove
    <2>6. QED  BY <1>1, <1>4, <2>1, <2>3, <2>5
  <1>18. CASE Prune
    <2>1. /\ Quiet /\ UNCHANGED <<inbox, received, dead, evicted, gone, copied,
                                  cleanup>>
      BY <1>18, InsideIsQuiet DEF Inside, Prune
    <2>2. InHand = {} /\ InHand' = {}
      BY <1>3, <1>18, RecordTypes DEF Prune, InHand
    <2>3. QED  BY <2>1, <2>2, SamePlaces
  <1>19. CASE RemoveExpired
    <2>1. /\ Quiet /\ UNCHANGED <<work, received, dead, evicted, gone, copied>>
          /\ inbox' = [a \in Agent |-> Retain(inbox[a], aged)]
          /\ cleanup'.expired = InInboxes \cap aged
          /\ cleanup.expired = {}
      BY <1>19, InsideIsQuiet DEF Inside, RemoveExpired, TypeInv, LoopInv
    <2>2. InInboxes' = InInboxes \ aged /\ Apart'
      BY <1>1, <2>1, InboxRetained
    <2>3. InHand' = InHand
      BY <2>1 DEF InHand
    <2>4. InInboxes \ aged = InInboxes \ (InInboxes \cap aged)
      OBVIOUS
    <2>5. Moves(Places, Places', InInboxes \cap aged, 3, 4)
      BY <1>6, <2>1, <2>2, <2>3, <2>4, PlacesAre, PlacesNext DEF Moves, Quiet
    <2>6. Once(Places', Messages')
      BY <1>2, <1>7, <2>1, <2>5, AfterMove
    <2>7. QED  BY <1>1, <1>4, <2>1, <2>2, <2>6
  <1>20. CASE MoveExpired
    <2>1. PICK m \in cleanup.expired :
              /\ AddDeadLetter(m)
              /\ cleanup' = [cleanup EXCEPT !.expired = @ \ {m}]
      BY <1>20 DEF MoveExpired
    <2>2. /\ Quiet /\ UNCHANGED <<work, inbox, received, gone, copied>>
      BY <1>20, InsideIsQuiet DEF Inside, MoveExpired
    <2>3. m \in Msg /\ m \notin Range(dead)
      BY NotYetDead
    <2>4. cleanup'.expired = cleanup.expired \ {m}
      BY <1>1, <2>1, CleanupTypes
    <2>5. /\ \A i, j \in DOMAIN dead' : i # j => dead'[i] # dead'[j]
          /\ \E X \in SUBSET Range(dead) :
                /\ Range(dead') = (Range(dead) \cup {m}) \ X
                /\ evicted' = evicted \cup X
      BY <1>1, <2>1, <2>3, DeadLetterAdded
    <2>6. InHand' = InHand
      BY <2>2 DEF InHand
    <2>7. /\ Places[4] = Places'[4] \cup {m} /\ m \notin Places'[4]
          /\ \A k \in 1 .. 8 \ {4, 6, 7} : Places'[k] = Places[k]
      BY <1>5, <1>6, <2>2, <2>4, <2>6, PlacesAre, PlacesNext DEF Quiet
    <2>8. Messages' = Messages
      BY <1>7, <2>2
    <2>9. Once(Places', Messages')
      BY <2>5, <2>7, <2>8, AfterBurial
    <2>10. QED  BY <1>1, <1>4, <1>5, <2>2, <2>5, <2>9
  <1>21. CASE Forget
    <2>1. /\ Quiet /\ UNCHANGED <<work, inbox, received, dead, evicted, gone,
                                  copied>>
          /\ cleanup'.expired = cleanup.expired
      BY <1>1, <1>21, InsideIsQuiet, CleanupTypes DEF Inside, Forget
    <2>2. QED  BY <2>1, SamePlaces DEF InHand
  <1>22. CASE BeginShutdown
    <2>1. /\ UNCHANGED <<inbox, received, dead, evicted, copied, cleanup>>
          /\ issued' = issued /\ Messages' = Messages
      BY <1>22 DEF BeginShutdown, Messages
    <2>2. CASE UNCHANGED <<work, events, gone>>
      <3>1. Quiet /\ InHand' = InHand
        BY <2>1, <2>2 DEF Quiet, Sent, InHand
      <3>2. QED  BY <2>1, <2>2, <3>1, SamePlaces
    <2>3. CASE /\ work.at = "idle" /\ work' = [Idle EXCEPT !.at = "stopped"]
               /\ events' = <<>> /\ gone' = gone \cup Sent
      <3>1. InHand = {} /\ InHand' = {}
        BY <1>1, <2>3, WorkMoves DEF InHand
      <3>2. Sent' = {}
        <4>1. DOMAIN events' = {}
          BY <2>3
        <4>2. QED  BY <4>1 DEF Sent
      <3>3. Moves(Places, Places', Sent, 1, 8)
        <4>1. /\ Places'[1] = Places[1] \ Sent /\ Places'[2] = Places[2]
              /\ Places'[3] = Places[3]
              /\ Places'[4] = Places[4] /\ Places'[5] = Places[5]
              /\ Places'[6] = Places[6] /\ Places'[7] = Places[7]
              /\ Places'[8] = Places[8] \cup Sent
              /\ Sent \subseteq Places[1]
          BY <1>5, <1>6, <2>1, <2>3, <3>1, <3>2, PlacesAre, PlacesNext
        <4>2. QED  BY <4>1 DEF Moves
      <3>4. Once(Places', Messages')
        BY <1>2, <2>1, <3>3, AfterMove
      <3>5. QED  BY <1>1, <1>4, <1>5, <2>1, <3>4
    <2>4. QED  BY <1>22, <2>2, <2>3 DEF BeginShutdown
  <1>23. QED
    BY NextIs, <1>9, <1>10, <1>11, <1>12, <1>13, <1>14, <1>15, <1>16, <1>17,
       <1>18, <1>19, <1>20, <1>21, <1>22

-----------------------------------------------------------------------------
(* The order of the messages.                                                *)

LEMMA TakenStep ==
    ASSUME TypeInv, PlaceInv, OrderInv, Types', Next \/ UNCHANGED vars
    PROVE  \A s \in Sent', m \in Taken' : m[1] < s[1]
  <1> USE DEF callers, agents, letters, history
  <1>1. \A s \in Sent, m \in Taken : m[1] < s[1]
    BY DEF OrderInv
  <1>2. CASE Quiet /\ copied' = copied
    <2>1. Taken' = Taken /\ Sent' = Sent
      BY <1>2 DEF Quiet, Taken, Messages
    <2>2. QED  BY <1>1, <2>1
  <1>3. CASE Sends /\ copied' = copied
    <2> DEFINE m == <<Len(issued) + 1, 0>>
    <2>1. /\ Len(issued) \in Nat /\ DOMAIN issued = 1 .. Len(issued)
          /\ DOMAIN issued' = 1 .. Len(issued) + 1
      BY <1>3, MessageTypes, SequenceTypes DEF Sends, Types
    <2>2. /\ Sent' = Sent \cup {m} /\ m[1] = Len(issued) + 1
          /\ \A n \in DOMAIN issued : n < m[1]
      BY <1>3, <2>1 DEF Sends
    <2>3. Messages' = Messages \cup {m}
      <3>1. DOMAIN issued' = DOMAIN issued \cup {Len(issued) + 1}
        BY <2>1
      <3>2. QED  BY <1>3, <3>1 DEF Messages
    <2> HIDE DEF m
    <2>4. Taken' \subseteq Taken
      BY <2>2, <2>3 DEF Taken
    <2>5. \A x \in Taken : x[1] < m[1]
      BY <2>2, MessageTypes DEF Taken
    <2>6. QED  BY <1>1, <2>2, <2>4, <2>5
  <1>4. CASE TakeMessage
    <2> DEFINE h == Head(events).msg
    <2>1. /\ h \in Sent /\ Sent' = Sent \ {h} /\ issued' = issued
          /\ copied' = copied /\ \A s \in Sent' : h[1] < s[1]
      BY <1>4, TakeMessageChannel DEF TakesMessage, TakeMessage
    <2> HIDE DEF h
    <2>2. Taken' \subseteq Taken \cup {h}
      BY <2>1 DEF Taken, Messages
    <2>3. QED  BY <1>1, <2>1, <2>2
  <1>5. CASE Copy
    <2> DEFINE c == <<work.msg[1], work.msg[2] + 1>>
    <2>1. /\ Quiet /\ copied' = copied \cup {c} /\ work.msg \in Taken
          /\ c[1] = work.msg[1]
      BY <1>5, InsideIsQuiet DEF Inside, Copy, OrderInv, HasMessage
    <2> HIDE DEF c
    <2>2. Sent' = Sent /\ Taken' \subseteq Taken \cup {c}
      BY <2>1 DEF Taken, Messages, Quiet
    <2>3. QED  BY <1>1, <2>1, <2>2
  <1>6. CASE Sent' = {}
    BY <1>6
  <1>7. CASE Calling
    BY <1>2, <1>3, <1>7, CallingChannel
  <1>8. CASE Outside
    BY <1>2, <1>8, OutsideChannel
  <1>9. CASE Inside /\ ~Copy
    <2>1. copied' = copied
      BY <1>9 DEF Inside, Receive, Answer, Deliver, Bury, Prune, RemoveExpired,
                  MoveExpired, Forget
    <2>2. QED  BY <1>2, <1>9, <2>1, InsideIsQuiet
  <1>10. CASE ChangeInbox
    BY <1>2, <1>10, ChangeInboxChannel DEF ChangeInbox
  <1>11. CASE BeginShutdown
    BY <1>2, <1>6, <1>11, ShutdownChannel DEF BeginShutdown, Drops
  <1>12. QED
    BY NextIs, <1>4, <1>5, <1>7, <1>8, <1>9, <1>10, <1>11 DEF Inside

\* The message in hand is the last that left the channel.
HandInv ==
    HasMessage => /\ work.msg \in Taken
                  /\ \A m \in Taken : m = work.msg \/ Earlier(m, work.msg)

LEMMA HandStep ==
    ASSUME TypeInv, PlaceInv, OrderInv, Types', Next \/ UNCHANGED vars
    PROVE  HandInv'
  <1> USE DEF callers, agents, letters, history
  <1>1. work \in Works /\ HandInv
    BY DEF TypeInv, Types, OrderInv, HandInv
  <1>2. ASSUME Quiet, copied' = copied,
               \/ work'.at \notin {"answer", "copy", "deliver", "bury"}
               \/ HasMessage /\ work'.msg = work.msg
        PROVE  HandInv'
    <2>1. Taken' = Taken
      BY <1>2 DEF Quiet, Taken, Messages
    <2>2. QED  BY <1>1, <1>2, <2>1 DEF HandInv, HasMessage
  <1>3. ASSUME Quiet, copied' = copied, work' = work PROVE HandInv'
    BY <1>2, <1>3 DEF HasMessage
  <1>4. CASE Calling
    <2>1. work' = work /\ copied' = copied
      BY <1>4, CallingChannel
    <2>2. CASE Sends
      <3> DEFINE m == <<Len(issued) + 1, 0>>
      <3>1. /\ Len(issued) \in Nat /\ DOMAIN issued = 1 .. Len(issued)
            /\ DOMAIN issued' = 1 .. Len(issued) + 1
        BY <2>2, MessageTypes, SequenceTypes DEF Sends, Types
      <3>2. Sent' = Sent \cup {m}
        BY <2>2 DEF Sends
      <3>3. DOMAIN issued' = DOMAIN issued \cup {Len(issued) + 1}
        BY <3>1
      <3>4. Messages' = Messages \cup {m}
        BY <2>1, <3>3 DEF Messages
      <3>5. m \notin Messages
        <4>1. Len(issued) + 1 \notin DOMAIN issued
          BY <3>1
        <4>2. m[1] = Len(issued) + 1
          OBVIOUS
        <4>3. QED  BY <4>1, <4>2, MessageTypes
      <3> HIDE DEF m
      <3>6. Taken' = Taken
        BY <3>2, <3>4, <3>5 DEF Taken
      <3>7. QED  BY <1>1, <2>1, <3>6 DEF HandInv, HasMessage
    <2>3. QED  BY <1>3, <1>4, <2>1, <2>2, CallingChannel
  <1>5. CASE Outside
    BY <1>3, <1>5, OutsideChannel
  <1>6. CASE \/ \E a \in Agent : Receive(a)
             \/ RemoveExpired \/ MoveExpired \/ Forget
    <2>1. work' = work /\ copied' = copied
      BY <1>6 DEF Receive, RemoveExpired, MoveExpired, Forget
    <2>2. QED  BY <1>3, <1>6, <2>1, InsideIsQuiet DEF Inside
  <1>7. CASE TakeMessage
    <2> DEFINE h == Head(events).msg
    <2>1. /\ h \in Sent /\ Sent' = Sent \ {h} /\ issued' = issued
          /\ copied' = copied
      BY <1>7, TakeMessageChannel DEF TakesMessage, TakeMessage
    <2>2. work' = Idle \/ work'.msg = h
      BY <1>7 DEF TakeMessage, Handle
    <2> HIDE DEF h
    <2>3. Taken' = Taken \cup {h}
      BY <2>1, MessageTypes DEF Taken, Messages
    <2>4. \A m \in Taken : Earlier(m, h)
      BY <2>1 DEF OrderInv, Earlier
    <2>5. CASE work' = Idle
      BY <2>5, RecordTypes DEF HandInv, HasMessage
    <2>6. CASE work'.msg = h
      BY <2>3, <2>4, <2>6 DEF HandInv, HasMessage, Earlier
    <2>7. QED  BY <2>2, <2>5, <2>6
  <1>8. CASE Answer \/ Deliver \/ Bury
    <2>1. copied' = copied /\ HasMessage /\ Quiet
      BY <1>8, InsideIsQuiet
         DEF Inside, Answer, Deliver, Bury, Burying, HasMessage
    <2>2. \/ work'.at \notin {"answer", "copy", "deliver", "bury"}
          \/ work'.msg = work.msg
      <3>1. \/ Done
            \/ \E at \in {"deliver", "bury"} : work' = [work EXCEPT !.at = at]
        BY <1>8 DEF Answer, Deliver, Bury
      <3>2. Done => \/ work'.at = "idle"
                    \/ work'.msg = work.msg
        BY <1>1, DoneKeepsLoop
      <3>3. \A at \in {"deliver", "bury"} :
                [work EXCEPT !.at = at].msg = work.msg
        BY <1>1, WorkMoves
      <3>4. (\E at \in {"deliver", "bury"} : work' = [work EXCEPT !.at = at])
            => work'.msg = work.msg
        BY <3>3
      <3>5. QED  BY <3>1, <3>2, <3>4
    <2>3. QED  BY <1>2, <2>1, <2>2
  <1>9. CASE Copy
    <2> DEFINE c == <<work.msg[1], work.msg[2] + 1>>
    <2>1. /\ Quiet /\ copied' = copied \cup {c} /\ work.at = "copy"
          /\ work'.msg = c
      BY <1>9, InsideIsQuiet DEF Inside, Copy, Handle
    <2>2. /\ work.msg \in Taken
          /\ \A m \in Taken : m = work.msg \/ Earlier(m, work.msg)
      BY <1>1, <2>1 DEF HandInv, HasMessage
    <2>3. /\ work.msg[1] \in Nat /\ work.msg[2] \in Nat
          /\ \A m \in Taken : m[1] \in Nat /\ m[2] \in Nat
      BY <1>1, WorkTypes, RecordTypes, MessageTypes DEF Taken
    <2>4. c[1] = work.msg[1] /\ c[2] = work.msg[2] + 1
      OBVIOUS
    <2>5. \A m \in Taken : Earlier(m, c)
      BY <2>2, <2>3, <2>4 DEF Earlier
    <2>6. c \notin Sent
      <3>1. \A x \in Sent : x[2] = 0
        BY MessageTypes
      <3>2. c[2] # 0
        BY <2>3, <2>4
      <3>3. QED  BY <3>1, <3>2
    <2> HIDE DEF c
    <2>7. Taken' = Taken \cup {c}
      BY <2>1, <2>6 DEF Quiet, Taken, Messages
    <2>8. QED  BY <2>1, <2>5, <2>7 DEF HandInv, HasMessage
  <1>10. CASE ChangeInbox
    <2>1. /\ copied' = copied /\ Quiet
          /\ work'.at \notin {"answer", "copy", "deliver", "bury"}
      BY <1>10, ChangeInboxChannel DEF ChangeInbox, Takes, Handle
    <2>2. QED  BY <1>2, <2>1
  <1>11. CASE Prune
    <2>1. copied' = copied /\ Quiet /\ work'.at = "idle"
      BY <1>11, InsideIsQuiet, RecordTypes DEF Inside, Prune
    <2>2. QED  BY <1>2, <2>1
  <1>12. CASE BeginShutdown
    <2>1. CASE UNCHANGED <<work, events, gone>>
      <3>1. Quiet /\ copied' = copied
        BY <1>12, <2>1 DEF BeginShutdown, Quiet, Sent
      <3>2. QED  BY <1>3, <2>1, <3>1
    <2>2. CASE work' = [Idle EXCEPT !.at = "stopped"]
      <3>1. work'.at = "stopped"
        BY <1>1, <2>2, WorkMoves
      <3>2. QED  BY <3>1 DEF HandInv, HasMessage
    <2>3. QED  BY <1>12, <2>1, <2>2 DEF BeginShutdown
  <1>13. QED
    BY NextIs, <1>4, <1>5, <1>6, <1>7, <1>8, <1>9, <1>10, <1>11, <1>12

\* The pairs that are in order.
Order == {p \in Msg \X Msg : Earlier(p[1], p[2])}

\* What an agent has fetched and will fetch is in order.
LEMMA InOrderIs ==
    ASSUME NEW r, NEW q, r \in [Agent -> Seq(Msg)], q \in [Agent -> Seq(Msg)]
    PROVE  (\A a \in Agent :
               LET s == r[a] \o q[a] IN
               \A i, j \in DOMAIN s : i < j => Earlier(s[i], s[j]))
           <=> \A a \in Agent :
                  /\ Sorted(r[a], Order) /\ Sorted(q[a], Order)
                  /\ \A x \in Range(r[a]), y \in Range(q[a]) : Earlier(x, y)
  <1>1. \A x, y \in Msg : <<x, y>> \in Order <=> Earlier(x, y)
    BY DEF Order
  <1>2. ASSUME NEW a \in Agent
        PROVE  (\A i, j \in DOMAIN (r[a] \o q[a]) :
                   i < j => Earlier((r[a] \o q[a])[i], (r[a] \o q[a])[j]))
               <=> /\ Sorted(r[a], Order) /\ Sorted(q[a], Order)
                   /\ \A x \in Range(r[a]), y \in Range(q[a]) : Earlier(x, y)
    <2> DEFINE s == r[a] \o q[a]
    <2>1. r[a] \in Seq(Msg) /\ q[a] \in Seq(Msg)
      OBVIOUS
    <2>2. /\ s \in Seq(Msg)
          /\ Sorted(s, Order)
             <=> /\ Sorted(r[a], Order) /\ Sorted(q[a], Order)
                 /\ \A x \in Range(r[a]), y \in Range(q[a]) :
                       <<x, y>> \in Order
      BY <2>1, ConcatSorted
    <2>3. /\ \A x \in Range(r[a]) : x \in Msg
          /\ \A x \in Range(q[a]) : x \in Msg
      BY <2>1, SequenceTypes DEF Range
    <2> HIDE DEF s
    <2>4. \A i \in DOMAIN s : s[i] \in Msg
      BY <2>2, SequenceTypes
    <2>5. Sorted(s, Order)
          <=> \A i, j \in DOMAIN s : i < j => Earlier(s[i], s[j])
      BY <1>1, <2>4 DEF Sorted
    <2>6. (\A x \in Range(r[a]), y \in Range(q[a]) : <<x, y>> \in Order)
          <=> \A x \in Range(r[a]), y \in Range(q[a]) : Earlier(x, y)
      BY <1>1, <2>3
    <2>7. QED  BY <2>2, <2>5, <2>6 DEF s
  <1>3. QED  BY <1>2

LEMMA EmptySorted == Sorted(<<>>, Order) /\ Range(<<>>) = {}
  BY DEF Sorted, Range

\* A message that is delivered is the last that came to its addressee.
LEMMA LastForAddressee ==
    ASSUME TypeInv, PlaceInv, OrderInv, work.at = "deliver", work.to \in Agent
    PROVE  \A l \in Range(inbox[work.to]) \cup Range(received[work.to]) :
               Earlier(l, work.msg)
  <1>1. Range(inbox[work.to]) \subseteq InInboxes
        /\ Range(received[work.to]) \subseteq Fetched
    BY DEF InInboxes, Fetched
  <1>2. \A x \in InInboxes \cup Fetched : x \in Taken /\ x # work.msg
    <2>1. /\ 1 \in 1 .. 8 /\ 2 \in 1 .. 8 /\ 3 \in 1 .. 8 /\ 5 \in 1 .. 8
      OBVIOUS
    <2>2. /\ Places[1] \cap Places[3] = {} /\ Places[1] \cap Places[5] = {}
          /\ Places[2] \cap Places[3] = {} /\ Places[2] \cap Places[5] = {}
          /\ Places[3] \subseteq Messages /\ Places[5] \subseteq Messages
      BY <2>1, OnceIsDisjoint DEF PlaceInv, Once
    <2>3. InHand = {work.msg}
      BY DEF InHand
    <2>4. QED  BY <2>2, <2>3, PlacesAre DEF Taken
  <1>3. QED  BY <1>1, <1>2 DEF OrderInv, HasMessage

LEMMA InOrderStep ==
    ASSUME TypeInv, PlaceInv, OrderInv, Types', Next \/ UNCHANGED vars
    PROVE  InOrder'
  <1> USE DEF callers, agents, letters, history
  <1>1. /\ inbox \in [Agent -> Seq(Msg)] /\ received \in [Agent -> Seq(Msg)]
        /\ inbox' \in [Agent -> Seq(Msg)] /\ received' \in [Agent -> Seq(Msg)]
    BY DEF TypeInv, Types
  <1>2. \A a \in Agent :
            /\ Sorted(received[a], Order) /\ Sorted(inbox[a], Order)
            /\ \A x \in Range(received[a]), y \in Range(inbox[a]) :
                  Earlier(x, y)
    BY <1>1, InOrderIs DEF OrderInv, InOrder
  <1>3. ASSUME \A a \in Agent :
                   /\ Sorted(received'[a], Order) /\ Sorted(inbox'[a], Order)
                   /\ \A x \in Range(received'[a]), y \in Range(inbox'[a]) :
                         Earlier(x, y)
        PROVE  InOrder'
    BY <1>1, <1>3, InOrderIs DEF InOrder
  <1>4. ASSUME UNCHANGED <<inbox, received>> PROVE InOrder'
    BY <1>4 DEF OrderInv, InOrder
  <1>5. CASE \E a \in Agent : Receive(a)
    <2>1. PICK a \in Agent : Receive(a)
      BY <1>5
    <2>2. /\ inbox' = [inbox EXCEPT ![a] = <<>>]
          /\ received' = [received EXCEPT ![a] = @ \o inbox[a]]
      BY <2>1 DEF Receive
    <2>3. Sorted(received[a] \o inbox[a], Order)
      <3>1. received[a] \in Seq(Msg) /\ inbox[a] \in Seq(Msg)
        BY <1>1
      <3>2. /\ \A x \in Range(received[a]) : x \in Msg
            /\ \A x \in Range(inbox[a]) : x \in Msg
        BY <3>1, SequenceTypes DEF Range
      <3>3. \A x \in Range(received[a]), y \in Range(inbox[a]) :
                <<x, y>> \in Order
        BY <1>2, <3>2 DEF Order
      <3>4. QED  BY <1>2, <3>1, <3>3, ConcatSorted
    <2>4. \A b \in Agent :
              \/ b # a /\ received'[b] = received[b] /\ inbox'[b] = inbox[b]
              \/ b = a /\ received'[b] = received[a] \o inbox[a]
                 /\ inbox'[b] = <<>>
      BY <1>1, <2>2
    <2>5. QED  BY <1>2, <1>3, <2>3, <2>4, EmptySorted
  <1>6. CASE Deliver /\ Accepts(work.to)
    <2> DEFINE a == work.to
               m == work.msg
    <2>1. /\ a \in Agent /\ inbox' = [inbox EXCEPT ![a] = Append(@, m)]
          /\ received' = received /\ work.at = "deliver"
      BY <1>6 DEF Deliver, Accepts, Queued, TypeInv, Types
    <2>2. m \in Msg /\ inbox[a] \in Seq(Msg)
      BY <1>1, <2>1, WorkTypes DEF TypeInv, Types
    <2>3. /\ \A x \in Range(inbox[a]) : x \in Msg /\ Earlier(x, m)
          /\ \A x \in Range(received[a]) : Earlier(x, m)
      <3>1. \A x \in Range(inbox[a]) : x \in Msg
        BY <2>2, SequenceTypes DEF Range
      <3>2. QED  BY <2>1, <3>1, LastForAddressee
    <2> HIDE DEF a, m
    <2>4. \A x \in Range(inbox[a]) : <<x, m>> \in Order
      BY <2>2, <2>3 DEF Order
    <2>5. Sorted(Append(inbox[a], m), Order)
      BY <1>2, <2>1, <2>2, <2>4, AppendSorted
    <2>6. Range(Append(inbox[a], m)) = Range(inbox[a]) \cup {m}
      BY <2>2, AppendRange
    <2>7. \A b \in Agent : \/ b # a /\ inbox'[b] = inbox[b]
                           \/ b = a /\ inbox'[b] = Append(inbox[a], m)
      BY <1>1, <2>1
    <2>8. QED  BY <1>2, <1>3, <2>1, <2>3, <2>5, <2>6, <2>7
  <1>7. CASE ChangeInbox
    <2> DEFINE a == Head(events).agent
    <2>1. inbox' = [inbox EXCEPT ![a] = <<>>] /\ received' = received
      BY <1>7 DEF ChangeInbox
    <2> HIDE DEF a
    <2>2. \A b \in Agent : inbox'[b] = inbox[b] \/ inbox'[b] = <<>>
      BY <1>1, <2>1
    <2>3. QED  BY <1>2, <1>3, <2>1, <2>2, EmptySorted
  <1>8. CASE RemoveExpired
    <2>1. /\ inbox' = [a \in Agent |-> Retain(inbox[a], aged)]
          /\ received' = received
      BY <1>8 DEF RemoveExpired
    <2>2. \A a \in Agent :
              /\ Range(inbox'[a]) \subseteq Range(inbox[a])
              /\ Sorted(inbox[a], Order) => Sorted(inbox'[a], Order)
      BY <1>1, <2>1, RetainKeeps
    <2>3. QED  BY <1>2, <1>3, <2>1, <2>2
  <1>9. CASE \/ Calling \/ Outside \/ TakeMessage \/ Answer \/ Copy \/ Bury
             \/ Deliver /\ ~Accepts(work.to)
             \/ Prune \/ MoveExpired \/ Forget \/ BeginShutdown
    <2>1. CASE Calling
      BY <1>4, <2>1, CallingChannel
    <2>2. CASE Outside
      BY <1>4, <2>2, OutsideChannel
    <2>3. QED
      BY <1>4, <1>9, <2>1, <2>2
         DEF TakeMessage, Answer, Copy, Bury, Deliver, Prune, MoveExpired,
             Forget, BeginShutdown
  <1>10. QED  BY NextIs, <1>5, <1>6, <1>7, <1>8, <1>9

-----------------------------------------------------------------------------
(* The tracker.                                                              *)

LEMMA StatusStep ==
    ASSUME TypeInv, PlaceInv, StatusIsTrue, Types', Next \/ UNCHANGED vars
    PROVE  StatusIsTrue'
  <1> USE DEF callers, agents, letters, history
  <1> DEFINE Lost == Range(dead) \cup evicted
  <1>1. /\ work \in Works /\ cleanup \in Cleanups
        /\ \A i, j \in DOMAIN dead : i # j => dead[i] # dead[j]
        /\ tracker \in [DOMAIN tracker -> {"Pending", "Delivered", "Failed"}]
    BY DEF TypeInv, Types, PlaceInv
  <1>2. \A m \in DOMAIN tracker :
            /\ tracker[m] = "Failed" => m \in Lost
            /\ tracker[m] = "Delivered" => m \notin Lost
            /\ tracker[m] = "Pending" => Burying /\ m = work.msg
    BY DEF StatusIsTrue
  <1>3. ASSUME tracker' \in [DOMAIN tracker'
                                -> {"Pending", "Delivered", "Failed"}],
               \A m \in DOMAIN tracker' :
                   /\ tracker'[m] = "Failed" => m \in Lost'
                   /\ tracker'[m] = "Delivered" => m \notin Lost'
                   /\ tracker'[m] = "Pending" => Burying' /\ m = work'.msg
        PROVE  StatusIsTrue'
    BY <1>3 DEF StatusIsTrue
  <1>4. tracker' \in [DOMAIN tracker' -> {"Pending", "Delivered", "Failed"}]
    BY DEF Types
  <1>5. ASSUME UNCHANGED letters, work' = work \/ work.at # "bury"
        PROVE  StatusIsTrue'
    <2>1. Lost' = Lost /\ tracker' = tracker
      BY <1>5
    <2>2. \A m \in DOMAIN tracker :
              tracker[m] = "Pending" => Burying' /\ m = work'.msg
      BY <1>2, <1>5 DEF Burying
    <2> HIDE DEF Lost
    <2>3. QED  BY <1>2, <1>3, <1>4, <2>1, <2>2
  <1>6. CASE \/ Calling \/ Outside \/ \E a \in Agent : Receive(a)
             \/ TakeMessage \/ Answer \/ Copy \/ ChangeInbox \/ Prune
             \/ RemoveExpired \/ BeginShutdown
    <2>1. CASE Calling
      BY <1>5, <2>1, CallingChannel
    <2>2. CASE Outside
      BY <1>5, <2>2, OutsideChannel
    <2>3. CASE \/ \E a \in Agent : Receive(a)
               \/ TakeMessage \/ Answer \/ Copy \/ ChangeInbox \/ Prune
               \/ RemoveExpired \/ BeginShutdown
      <3>1. UNCHANGED letters
        BY <2>3 DEF Receive, TakeMessage, Answer, Copy, ChangeInbox, Prune,
                    RemoveExpired, BeginShutdown
      <3>2. work' = work \/ work.at # "bury"
        BY <2>3 DEF Receive, TakeMessage, Answer, Copy, ChangeInbox, Prune,
                    RemoveExpired, BeginShutdown, Takes
      <3>3. QED  BY <1>5, <3>1, <3>2
    <2>4. QED  BY <1>6, <2>1, <2>2, <2>3
  <1>7. CASE Deliver
    <2> DEFINE m == work.msg
    <2>1. /\ dead' = dead /\ evicted' = evicted /\ work.at = "deliver"
          /\ m \in InHand
      BY <1>7 DEF Deliver, InHand
    <2>2. m \notin Lost
      BY <2>1, NotYetDead
    <2>3. \/ Track(m, "Delivered")
          \/ Track(m, "Pending") /\ Burying' /\ work'.msg = m
      <3>1. CASE Accepts(work.to)
        BY <1>7, <3>1 DEF Deliver
      <3>2. CASE ~Accepts(work.to)
        BY <1>1, <1>7, <3>2, WorkMoves DEF Deliver, Burying
      <3>3. QED  BY <3>1, <3>2
    <2>4. \A x \in DOMAIN tracker : tracker[x] # "Pending"
      BY <1>2, <2>1 DEF Burying
    <2>5. Lost' = Lost
      BY <2>1
    <2> HIDE DEF Lost, m
    <2>6. CASE Track(m, "Delivered")
      BY <1>1, <1>2, <1>3, <1>4, <2>2, <2>4, <2>5, <2>6 DEF Track
    <2>7. CASE Track(m, "Pending") /\ Burying' /\ work'.msg = m
      BY <1>1, <1>2, <1>3, <1>4, <2>2, <2>4, <2>5, <2>7 DEF Track
    <2>8. QED  BY <2>3, <2>6, <2>7
  <1>8. ASSUME NEW m \in Msg, AddDeadLetter(m), m \notin Lost
        PROVE  Lost' = Lost \cup {m}
    <2>1. \E X \in SUBSET Range(dead) :
              /\ Range(dead') = (Range(dead) \cup {m}) \ X
              /\ evicted' = evicted \cup X
      BY <1>1, <1>8, DeadLetterAdded
    <2>2. QED  BY <2>1
  <1>9. CASE Bury
    <2> DEFINE m == work.msg
    <2>1. m \in InHand /\ AddDeadLetter(m) /\ Track(m, "Failed")
      BY <1>9 DEF Bury, Burying, InHand
    <2>2. m \in Msg /\ m \notin Lost
      BY <2>1, NotYetDead
    <2>3. Lost' = Lost \cup {m}
      BY <1>8, <2>1, <2>2
    <2>4. \A x \in DOMAIN tracker : tracker[x] = "Pending" => x = m
      BY <1>2
    <2> HIDE DEF Lost, m
    <2>5. QED  BY <1>1, <1>2, <1>3, <1>4, <2>1, <2>2, <2>3, <2>4 DEF Track
  <1>10. CASE MoveExpired
    <2>1. PICK m \in cleanup.expired : AddDeadLetter(m) /\ Fail(m)
      BY <1>10 DEF MoveExpired
    <2>2. m \in Msg /\ m \notin Lost
      BY NotYetDead
    <2>3. Lost' = Lost \cup {m}
      BY <1>8, <2>1, <2>2
    <2>4. ~Burying /\ work' = work
      BY <1>10 DEF MoveExpired, TrackerFree
    <2>5. \A x \in DOMAIN tracker : tracker[x] # "Pending"
      BY <1>2, <2>4
    <2> HIDE DEF Lost
    <2>6. CASE m \in DOMAIN tracker
      <3>1. Track(m, "Failed")
        BY <2>1, <2>6 DEF Fail
      <3>2. QED  BY <1>1, <1>2, <1>3, <1>4, <2>3, <2>5, <3>1 DEF Track
    <2>7. CASE m \notin DOMAIN tracker
      <3>1. tracker' = tracker
        BY <2>1, <2>7 DEF Fail
      <3>2. QED  BY <1>1, <1>2, <1>3, <1>4, <2>3, <2>5, <2>7, <3>1
    <2>8. QED  BY <2>6, <2>7
  <1>11. CASE Forget
    <2>1. /\ dead' = dead /\ evicted' = evicted /\ work' = work
          /\ \E old \in SUBSET (DOMAIN tracker) :
                tracker' = [m \in DOMAIN tracker \ old |-> tracker[m]]
      BY <1>11 DEF Forget
    <2>2. Lost' = Lost /\ (Burying' <=> Burying)
      BY <2>1 DEF Burying
    <2>3. \A x \in DOMAIN tracker' :
              x \in DOMAIN tracker /\ tracker'[x] = tracker[x]
      BY <2>1
    <2> HIDE DEF Lost
    <2>4. QED  BY <1>2, <1>3, <1>4, <2>1, <2>2, <2>3
  <1>12. QED  BY NextIs, <1>6, <1>7, <1>9, <1>10, <1>11

LEMMA MessagesStay ==
    ASSUME TypeInv, PlaceInv, Types', Next \/ UNCHANGED vars
    PROVE  Messages \subseteq Messages'
  <1> USE DEF callers, agents, letters, history
  <1>1. copied \subseteq copied'
    <2>1. CASE Calling \/ Outside
      BY <2>1, CallingChannel, OutsideChannel
    <2>2. CASE ~(Calling \/ Outside)
      BY <2>2, NextIs
         DEF Receive, TakeMessage, Answer, Copy, Deliver, Bury, ChangeInbox,
             Prune, RemoveExpired, MoveExpired, Forget, BeginShutdown
    <2>3. QED  BY <2>1, <2>2
  <1>2. DOMAIN issued \subseteq DOMAIN issued'
    <2>1. /\ Len(issued) \in Nat /\ DOMAIN issued = 1 .. Len(issued)
          /\ DOMAIN issued' = 1 .. Len(issued')
      BY MessageTypes, SequenceTypes DEF Types
    <2>2. CASE Sends
      <3>1. Len(issued') = Len(issued) + 1
        BY <2>2 DEF Sends
      <3>2. QED  BY <2>1, <3>1
    <2>3. CASE issued' = issued
      BY <2>3
    <2>4. Sends \/ issued' = issued
      BY NextIs, CallingChannel, OutsideChannel, InsideIsQuiet,
         TakeMessageChannel, ChangeInboxChannel, ShutdownChannel
         DEF Inside, Quiet, TakesMessage, Drops
    <2>5. QED  BY <2>2, <2>3, <2>4
  <1>3. QED  BY <1>1, <1>2 DEF Messages

LEMMA TrackedStep ==
    ASSUME TypeInv, PlaceInv, TrackedInv, Types', Next \/ UNCHANGED vars
    PROVE  TrackedInv'
  <1> USE DEF callers, agents, letters, history
  <1>1. DOMAIN tracker' \subseteq DOMAIN tracker \cup InHand
    <2>1. CASE Calling \/ Outside
      BY <2>1, CallingChannel, OutsideChannel
    <2>2. CASE Deliver \/ Bury
      <3>1. InHand = {work.msg}
        BY <2>2 DEF Deliver, Bury, Burying, InHand
      <3>2. QED  BY <2>2, <3>1 DEF Deliver, Bury, Track
    <2>3. CASE MoveExpired \/ Forget
      <3>1. CASE MoveExpired
        BY <3>1 DEF MoveExpired, Fail, Track
      <3>2. CASE Forget
        BY <3>2 DEF Forget
      <3>3. QED  BY <2>3, <3>1, <3>2
    <2>4. CASE \/ \E a \in Agent : Receive(a)
               \/ TakeMessage \/ Answer \/ Copy \/ ChangeInbox \/ Prune
               \/ RemoveExpired \/ BeginShutdown
      BY <2>4 DEF Receive, TakeMessage, Answer, Copy, ChangeInbox, Prune,
                  RemoveExpired, BeginShutdown
    <2>5. QED  BY NextIs, <2>1, <2>2, <2>3, <2>4
  <1>2. InHand \subseteq Messages
    BY PlacesAre DEF PlaceInv, Once
  <1>3. QED  BY <1>1, <1>2, MessagesStay DEF TrackedInv

-----------------------------------------------------------------------------
(* The requests.                                                             *)

LEMMA RequestInvStep ==
    ASSUME TypeInv, OrderInv, RequestInv, IdInv, Next \/ UNCHANGED vars
    PROVE  RequestInv'
  <1> USE DEF callers, agents, letters, history
  <1>1. /\ request \in [Thread -> Requests] /\ asked \in Nat
        /\ pending \subseteq 1 .. asked
        /\ \A t \in Thread :
              /\ request[t].at = "none" <=> request[t].id = 0
              /\ request[t].at = "none" <=> request[t] = NoRequest
              /\ request[t].id <= asked
              /\ request[t].at = "answered" => request[t].id \notin pending
        /\ \A t, u \in Thread :
              t # u /\ request[t].id = request[u].id => request[t].id = 0
        /\ pending \subseteq {request[t].id : t \in Thread} \cup forsaken
        /\ \A t \in Thread :
              request[t].at \in {"send", "wait"} => request[t].id \in pending
    BY DEF TypeInv, Types, RequestInv, PendingIsWaited
  <1>2. \A t \in Thread : request[t] \in Requests /\ request[t].id \in Nat
    BY <1>1, RequestTypes
  <1>3. ASSUME UNCHANGED <<request, asked, pending, forsaken>>
        PROVE  RequestInv'
    BY <1>1, <1>3 DEF RequestInv, PendingIsWaited
  \* The request of one thread goes on with the same number.
  <1>4. ASSUME NEW t \in Thread, NEW r, r.id = request[t].id, r.at # "none",
               request[t].at # "none", r # NoRequest,
               r.at = "answered" => r.id \notin pending,
               r.at \in {"send", "wait"} => r.id \in pending,
               SetRequest(t, r), UNCHANGED <<asked, pending, forsaken>>
        PROVE  RequestInv'
    <2>1. \A u \in Thread : \/ u # t /\ request'[u] = request[u]
                            \/ u = t /\ request'[u] = r
      BY <1>1, <1>4 DEF SetRequest
    <2>2. \A u \in Thread : request'[u].id = request[u].id
      BY <1>4, <2>1
    <2>3. {request'[u].id : u \in Thread} = {request[u].id : u \in Thread}
      BY <2>2
    <2>4. QED  BY <1>1, <1>4, <2>1, <2>2, <2>3 DEF RequestInv, PendingIsWaited
  \* The request of one thread ends, and no other entry goes.
  <1>5. ASSUME NEW t \in Thread, SetRequest(t, NoRequest), asked' = asked,
               pending' \subseteq pending, forsaken \subseteq forsaken',
               pending \ {request[t].id} \subseteq pending',
               request[t].id \notin pending' \ forsaken'
        PROVE  RequestInv'
    <2>1. \A u \in Thread : \/ u # t /\ request'[u] = request[u]
                            \/ u = t /\ request'[u] = NoRequest
      BY <1>1, <1>5 DEF SetRequest
    <2>2. NoRequest.at = "none" /\ NoRequest.id = 0 /\ 0 <= asked
      BY <1>1, RecordTypes
    <2>3. pending' \subseteq {request'[u].id : u \in Thread} \cup forsaken'
      <3>1. SUFFICES ASSUME NEW i \in pending' \ forsaken'
                     PROVE  \E u \in Thread : i = request'[u].id
        OBVIOUS
      <3>2. PICK u \in Thread : i = request[u].id
        BY <1>1, <1>5, <3>1
      <3>3. u # t
        BY <1>5, <3>1, <3>2
      <3>4. QED  BY <2>1, <3>2, <3>3
    <2>4. \A u \in Thread :
              /\ request'[u].at = "none" <=> request'[u].id = 0
              /\ request'[u].at = "none" <=> request'[u] = NoRequest
              /\ request'[u].id <= asked'
              /\ request'[u].at = "answered" => request'[u].id \notin pending'
      BY <1>1, <1>5, <2>1, <2>2
    <2>5. \A u, v \in Thread :
              u # v /\ request'[u].id = request'[v].id => request'[u].id = 0
      BY <1>1, <2>1, <2>2
    <2>6. pending' \subseteq 1 .. asked'
      BY <1>1, <1>5
    <2>7. ASSUME NEW u \in Thread, request'[u].at \in {"send", "wait"}
          PROVE  request'[u].id \in pending'
      <3>1. u # t /\ request'[u] = request[u]
        BY <2>1, <2>2, <2>7
      <3>2. request[u].id \in pending /\ request[u].id # 0
        BY <1>1, <2>7, <3>1
      <3>3. request[u].id # request[t].id
        BY <1>1, <3>1, <3>2
      <3>4. QED  BY <1>5, <3>1, <3>2, <3>3
    <2>8. QED
      BY <2>3, <2>4, <2>5, <2>6, <2>7 DEF RequestInv, PendingIsWaited
  <1>6. CASE Send \/ Respond
    BY <1>3, <1>6 DEF Send, Respond
  <1>7. CASE \E t \in Thread : SendRequest(t)
    <2>1. PICK t \in Thread : SendRequest(t)
      BY <1>7
    <2>2. request[t].at = "send" /\ UNCHANGED <<asked, pending>>
      BY <2>1 DEF SendRequest
    <2>3. CASE Abandon(t)
      BY <1>5, <2>2, <2>3 DEF Abandon
    <2>4. CASE /\ SetRequest(t, [request[t] EXCEPT !.at = "wait"])
               /\ UNCHANGED forsaken
      <3> DEFINE r == [request[t] EXCEPT !.at = "wait"]
      <3>1. r.at = "wait" /\ r.id = request[t].id
        BY <1>2, RequestTypes
      <3>2. r # NoRequest
        BY <3>1, RecordTypes
      <3> HIDE DEF r
      <3>3. SetRequest(t, r)
        BY <2>4 DEF r
      <3>4. request[t].id \in pending
        BY <1>1, <2>2
      <3>5. QED  BY <1>4, <2>2, <2>4, <3>1, <3>2, <3>3, <3>4
    <2>5. QED  BY <2>1, <2>3, <2>4 DEF SendRequest
  <1>8. CASE \E t \in Thread : BeginRequest(t)
    <2>1. PICK t \in Thread : BeginRequest(t)
      BY <1>8
    <2>2. PICK a \in Agent :
              SetRequest(t, [at |-> "send", id |-> asked + 1, to |-> a])
      BY <2>1 DEF BeginRequest
    <2> DEFINE r == [at |-> "send", id |-> asked + 1, to |-> a]
    <2>3. /\ asked' = asked + 1 /\ pending' = pending \cup {asked + 1}
          /\ forsaken' = forsaken /\ request[t].id = 0 /\ SetRequest(t, r)
      BY <2>1, <2>2, RecordTypes DEF BeginRequest
    <2>4. r.at = "send" /\ r.id = asked + 1 /\ r # NoRequest
      BY RecordTypes
    <2> HIDE DEF r
    <2>5. \A u \in Thread : \/ u # t /\ request'[u] = request[u]
                            \/ u = t /\ request'[u] = r
      BY <1>1, <2>3 DEF SetRequest
    <2>6. /\ asked + 1 # 0 /\ asked + 1 \in 1 .. asked + 1
          /\ 1 .. asked \subseteq 1 .. asked + 1
          /\ \A u \in Thread : /\ request[u].id # asked + 1
                               /\ request[u].id <= asked + 1
      <3>1. \A i, n \in Nat : i <= n => i # n + 1 /\ i <= n + 1
        OBVIOUS
      <3>2. QED  BY <1>1, <1>2, <3>1
    <2>7. \A u \in Thread :
              /\ request'[u].at = "none" <=> request'[u].id = 0
              /\ request'[u].at = "none" <=> request'[u] = NoRequest
              /\ request'[u].at = "answered" => request'[u].id \notin pending'
      BY <1>1, <2>3, <2>4, <2>5, <2>6
    <2>8. \A u \in Thread : request'[u].id <= asked'
      BY <1>1, <2>3, <2>4, <2>5, <2>6
    <2>9. \A u, v \in Thread :
              u # v /\ request'[u].id = request'[v].id => request'[u].id = 0
      BY <1>1, <2>4, <2>5, <2>6
    <2>10. pending' \subseteq {request'[u].id : u \in Thread} \cup forsaken'
      <3>1. SUFFICES ASSUME NEW i \in pending' \ forsaken'
                     PROVE  \E u \in Thread : i = request'[u].id
        OBVIOUS
      <3>2. CASE i = asked + 1
        BY <2>4, <2>5, <3>2
      <3>3. CASE i # asked + 1
        <4>1. PICK u \in Thread : i = request[u].id
          BY <1>1, <2>3, <3>1, <3>3
        <4>2. i # 0
          BY <1>1, <2>3, <3>1, <3>3
        <4>3. u # t
          BY <2>3, <4>1, <4>2
        <4>4. QED  BY <2>5, <4>1, <4>3
      <3>4. QED  BY <3>2, <3>3
    <2>11. pending' \subseteq 1 .. asked'
      BY <1>1, <2>3, <2>6
    <2>12. \A u \in Thread :
              request'[u].at \in {"send", "wait"} => request'[u].id \in pending'
      BY <1>1, <2>3, <2>4, <2>5
    <2>13. QED
      BY <2>7, <2>8, <2>9, <2>10, <2>11, <2>12 DEF RequestInv, PendingIsWaited
  <1>9. CASE \E t \in Thread : Timeout(t)
    <2>1. PICK t \in Thread : Timeout(t)
      BY <1>9
    <2> DEFINE r == [request[t] EXCEPT !.at = "withdraw"]
    <2>2. /\ request[t].at = "wait" /\ SetRequest(t, r)
          /\ UNCHANGED <<asked, pending, forsaken>>
      BY <2>1 DEF Timeout
    <2>3. r.at = "withdraw" /\ r.id = request[t].id
      BY <1>2, RequestTypes
    <2>4. r # NoRequest
      BY <2>3, RecordTypes
    <2> HIDE DEF r
    <2>5. QED  BY <1>4, <2>2, <2>3, <2>4
  <1>10. CASE \E t \in Thread : Withdraw(t)
    <2>1. PICK t \in Thread : Withdraw(t)
      BY <1>10
    <2>2. /\ SetRequest(t, NoRequest) /\ UNCHANGED <<asked, forsaken>>
          /\ pending' = pending \ {request[t].id}
      BY <2>1 DEF Withdraw
    <2>3. QED  BY <1>5, <2>2
  <1>11. CASE \E t \in Thread : ReturnAnswer(t)
    <2>1. PICK t \in Thread : ReturnAnswer(t)
      BY <1>11
    <2>2. /\ SetRequest(t, NoRequest) /\ UNCHANGED <<asked, forsaken>>
          /\ pending' = pending /\ request[t].at = "answered"
      BY <2>1 DEF ReturnAnswer
    <2>3. QED  BY <1>1, <1>5, <2>2
  <1>12. CASE Answer
    <2>1. asked' = asked /\ forsaken' = forsaken
      BY <1>12 DEF Answer
    <2>2. CASE UNCHANGED <<pending, request>>
      BY <1>3, <2>1, <2>2
    <2>3. ASSUME NEW id \in pending, pending' = pending \ {id},
                 \A t \in Thread : request[t].at = "send" => request[t].id # id,
                 request' = [t \in Thread |->
                     IF request[t].id = id /\ request[t].at = "wait"
                     THEN [request[t] EXCEPT !.at = "answered"]
                     ELSE request[t]]
          PROVE  RequestInv'
      <3>1. \A t \in Thread :
                /\ request'[t].id = request[t].id
                /\ \/ request'[t] = request[t]
                   \/ /\ request[t].id = id /\ request[t].at = "wait"
                      /\ request'[t].at = "answered"
        BY <1>2, <2>3, RequestTypes
      <3>2. id # 0
        BY <1>1
      <3>3. \A t \in Thread :
                /\ request'[t].at = "none" <=> request'[t].id = 0
                /\ request'[t].at = "none" <=> request'[t] = NoRequest
                /\ request'[t].at = "answered"
                   => request'[t].id \notin pending'
        <4> SUFFICES ASSUME NEW t \in Thread
                     PROVE  /\ request'[t].at = "none" <=> request'[t].id = 0
                            /\ request'[t].at = "none"
                               <=> request'[t] = NoRequest
                            /\ request'[t].at = "answered"
                               => request'[t].id \notin pending'
          OBVIOUS
        <4>1. CASE request'[t] = request[t]
          BY <1>1, <2>3, <4>1
        <4>2. CASE /\ request[t].id = id /\ request[t].at = "wait"
                   /\ request'[t].at = "answered"
          <5>1. request'[t].id = id /\ id \notin pending'
            BY <2>3, <3>1, <4>2
          <5>2. request'[t] # NoRequest
            BY <4>2, RecordTypes
          <5>3. QED  BY <3>2, <4>2, <5>1, <5>2
        <4>3. QED  BY <3>1, <4>1, <4>2
      <3>4. {request'[t].id : t \in Thread} = {request[t].id : t \in Thread}
        BY <3>1
      <3>5. \A t \in Thread :
                request'[t].at \in {"send", "wait"}
                => request[t].at \in {"send", "wait"} /\ request[t].id # id
        BY <1>2, <2>3, RequestTypes
      <3>6. QED  BY <1>1, <2>1, <2>3, <3>1, <3>3, <3>4, <3>5
                 DEF RequestInv, PendingIsWaited
    <2>4. work.msg[1] \in DOMAIN issued
      BY <1>12, MessageTypes DEF Answer, OrderInv, HasMessage, Taken, TypeInv
    <2>5. \A t \in Thread : request[t].at = "send"
              => request[t].id # issued[work.msg[1]].id
      BY <2>4 DEF IdInv
    <2>6. QED  BY <1>12, <2>2, <2>3, <2>5 DEF Answer
  <1>13. CASE BeginShutdown
    BY <1>3, <1>13 DEF BeginShutdown
  <1>14. CASE \/ \E a \in Agent : Register(a) \/ Subscribe(a) \/ Unsubscribe(a)
              \/ \E m \in (1 .. MaxMessages) \X (0 .. MaxCalls) : TimePasses(m)
              \/ LockDeadLetters \/ UnlockDeadLetters
              \/ ListAgents \/ UnregisterNext \/ UNCHANGED vars
    <2>1. UNCHANGED <<request, asked, pending, forsaken>>
      BY <1>14
         DEF Register, Subscribe, Unsubscribe, TimePasses, LockDeadLetters,
             UnlockDeadLetters, ListAgents, UnregisterNext, vars
    <2>2. QED  BY <1>3, <2>1
  <1>15. CASE \/ \E a \in Agent : Receive(a)
              \/ TakeMessage \/ Copy \/ Deliver \/ Bury \/ ChangeInbox \/ Prune
              \/ RemoveExpired \/ MoveExpired \/ Forget
    <2>1. UNCHANGED <<request, asked, pending, forsaken>>
      BY <1>15
         DEF Receive, TakeMessage, Copy, Deliver, Bury, ChangeInbox, Prune,
             RemoveExpired, MoveExpired, Forget
    <2>2. QED  BY <1>3, <2>1
  <1>16. CASE \E t \in Thread : Drop(t)
    <2>1. PICK t \in Thread : Drop(t)
      BY <1>16
    <2>2. QED  BY <1>5, <2>1 DEF Drop, Abandon
  <1>17. QED
    BY NextIs, <1>6, <1>7, <1>8, <1>9, <1>10, <1>11, <1>12, <1>13, <1>14,
       <1>15, <1>16
       DEF Calling, Outside

LEMMA IdStep ==
    ASSUME TypeInv, PlaceInv, RequestInv, IdInv, Types', Next \/ UNCHANGED vars
    PROVE  IdInv'
  <1> USE DEF callers, agents, letters, history
  <1>1. /\ request \in [Thread -> Requests] /\ asked \in Nat
        /\ issued \in Seq(Issues) /\ issued' \in Seq(Issues)
        /\ \A t \in Thread : request[t] \in Requests /\ request[t].id \in Nat
    BY RequestTypes DEF TypeInv, Types
  <1>2. \A n \in DOMAIN issued : issued[n].id \in Nat
    BY <1>1, SequenceTypes, RecordTypes
  <1>3. /\ \A n \in DOMAIN issued : issued[n].id <= asked
        /\ \A t \in Thread : request[t].at = "send" =>
              \A n \in DOMAIN issued : issued[n].id # request[t].id
        /\ \A t \in Thread :
              /\ request[t].at = "send" => request[t].id # 0
              /\ request[t].id <= asked
        /\ \A t, u \in Thread :
              t # u /\ request[t].id = request[u].id => request[t].id = 0
    BY <1>1 DEF IdInv, RequestInv
  \* Nothing is sent, and no request begins.
  <1>4. ASSUME issued' = issued, asked' = asked,
               \A t \in Thread : request'[t].at = "send"
                                 => request'[t] = request[t]
        PROVE  IdInv'
    BY <1>3, <1>4 DEF IdInv
  \* One more is sent.
  <1>5. ASSUME NEW kind, NEW to, NEW id \in Nat, Issue(kind, to, id),
               asked' = asked, id <= asked,
               \A t \in Thread : request'[t].at = "send"
                                 => request'[t] = request[t] /\ request[t].id # id
        PROVE  IdInv'
    <2>1. issued' = Append(issued, [kind |-> kind, to |-> to, id |-> id])
      BY <1>5 DEF Issue
    <2>2. \A n \in DOMAIN issued' : \/ issued'[n].id = id
                                    \/ /\ n \in DOMAIN issued
                                       /\ issued'[n].id = issued[n].id
      BY <1>1, <2>1
    <2>3. QED  BY <1>3, <1>5, <2>2 DEF IdInv
  <1>6. CASE Send
    <2>1. /\ UNCHANGED <<request, asked>>
          /\ \/ \E a \in Agent : Issue("direct", a, 0)
             \/ Issue("publish", "topic", 0)
      BY <1>6 DEF Send
    <2>2. /\ 0 \in Nat /\ 0 <= asked
          /\ \A t \in Thread : request'[t].at = "send"
                => request'[t] = request[t] /\ request[t].id # 0
      BY <1>1, <1>3, <2>1
    <2>3. CASE Issue("publish", "topic", 0)
      BY <1>5, <2>1, <2>2, <2>3
    <2>4. CASE \E a \in Agent : Issue("direct", a, 0)
      <3>1. PICK a \in Agent : Issue("direct", a, 0)
        BY <2>4
      <3>2. QED  BY <1>5, <2>1, <2>2, <3>1
    <2>5. QED  BY <2>1, <2>3, <2>4
  <1>7. CASE Respond
    <2>1. PICK a \in Agent : \E i \in DOMAIN received[a] :
              Issue("response", "system", issued[received[a][i][1]].id)
              /\ issued[received[a][i][1]].kind = "request"
      BY <1>7 DEF Respond
    <2>2. PICK i \in DOMAIN received[a] :
              Issue("response", "system", issued[received[a][i][1]].id)
      BY <2>1
    <2>3. received[a][i][1] \in DOMAIN issued
      BY FetchedIsNumbered
    <2>4. UNCHANGED <<request, asked>>
      BY <1>7 DEF Respond
    <2>5. QED  BY <1>2, <1>3, <1>5, <2>2, <2>3, <2>4
  <1>8. CASE \E t \in Thread : SendRequest(t)
    <2>1. PICK t \in Thread : SendRequest(t)
      BY <1>8
    <2>2. /\ asked' = asked /\ request[t].at = "send"
          /\ \A u \in Thread \ {t} : request'[u] = request[u]
          /\ request'[t].at # "send"
      BY <1>1, <2>1, RequestTypes, RecordTypes
         DEF SendRequest, Abandon, SetRequest
    <2>3. CASE Issue("request", request[t].to, request[t].id)
      <3>1. \A u \in Thread : request'[u].at = "send"
                => request'[u] = request[u] /\ request[u].id # request[t].id
        BY <1>3, <2>2
      <3>2. QED  BY <1>1, <1>3, <1>5, <2>2, <2>3, <3>1
    <2>4. CASE issued' = issued
      BY <1>4, <2>2, <2>4
    <2>5. QED  BY <2>1, <2>3, <2>4 DEF SendRequest
  <1>9. CASE \E t \in Thread : BeginRequest(t)
    <2>1. PICK t \in Thread : BeginRequest(t)
      BY <1>9
    <2>2. PICK a \in Agent :
              SetRequest(t, [at |-> "send", id |-> asked + 1, to |-> a])
      BY <2>1 DEF BeginRequest
    <2>3. /\ asked' = asked + 1 /\ issued' = issued
          /\ request'[t].id = asked + 1
          /\ \A u \in Thread \ {t} : request'[u] = request[u]
      BY <1>1, <2>1, <2>2, RecordTypes DEF BeginRequest, SetRequest
    <2>4. \A n \in DOMAIN issued : /\ issued[n].id <= asked + 1
                                   /\ issued[n].id # asked + 1
      BY <1>1, <1>2, <1>3
    <2>5. QED  BY <1>3, <2>3, <2>4 DEF IdInv
  <1>10. CASE \E t \in Thread : \/ Drop(t) \/ Timeout(t)
                                \/ Withdraw(t) \/ ReturnAnswer(t)
    <2>1. PICK t \in Thread : \/ Drop(t) \/ Timeout(t)
                              \/ Withdraw(t) \/ ReturnAnswer(t)
      BY <1>10
    <2>2. /\ asked' = asked /\ issued' = issued
          /\ \A u \in Thread \ {t} : request'[u] = request[u]
          /\ request'[t].at # "send"
      BY <1>1, <2>1, RequestTypes, RecordTypes
         DEF Drop, Abandon, Timeout, Withdraw, ReturnAnswer, SetRequest
    <2>3. QED  BY <1>4, <2>2
  <1>11. CASE Answer
    <2>1. asked' = asked /\ issued' = issued
      BY <1>11 DEF Answer
    <2>2. CASE UNCHANGED request
      BY <1>4, <2>1, <2>2
    <2>3. CASE ~UNCHANGED request
      <3> DEFINE id == issued[work.msg[1]].id
      <3>1. request' = [t \in Thread |->
                           IF request[t].id = id /\ request[t].at = "wait"
                           THEN [request[t] EXCEPT !.at = "answered"]
                           ELSE request[t]]
        BY <1>11, <2>3 DEF Answer
      <3>2. ASSUME NEW t \in Thread, request'[t].at = "send"
            PROVE  request'[t] = request[t]
        <4>1. [request[t] EXCEPT !.at = "answered"].at = "answered"
          BY <1>1, RequestTypes, RecordTypes
        <4>2. request'[t] = IF request[t].id = id /\ request[t].at = "wait"
                            THEN [request[t] EXCEPT !.at = "answered"]
                            ELSE request[t]
          BY <3>1
        <4>3. QED  BY <3>2, <4>1, <4>2
      <3>3. QED  BY <1>4, <2>1, <3>2
    <2>4. QED  BY <2>2, <2>3
  <1>12. CASE \/ \E a \in Agent : Register(a) \/ Subscribe(a) \/ Unsubscribe(a)
              \/ \E m \in (1 .. MaxMessages) \X (0 .. MaxCalls) : TimePasses(m)
              \/ LockDeadLetters \/ UnlockDeadLetters
              \/ ListAgents \/ UnregisterNext \/ UNCHANGED vars
    <2>1. UNCHANGED <<request, asked, issued>>
      BY <1>12
         DEF Register, Subscribe, Unsubscribe, TimePasses, LockDeadLetters,
             UnlockDeadLetters, ListAgents, UnregisterNext, vars
    <2>2. QED  BY <1>4, <2>1
  <1>13. CASE \/ \E a \in Agent : Receive(a)
              \/ TakeMessage \/ Copy \/ Deliver \/ Bury \/ ChangeInbox \/ Prune
              \/ RemoveExpired \/ MoveExpired \/ Forget \/ BeginShutdown
    <2>1. UNCHANGED <<request, asked, issued>>
      BY <1>13
         DEF Receive, TakeMessage, Copy, Deliver, Bury, ChangeInbox, Prune,
             RemoveExpired, MoveExpired, Forget, BeginShutdown
    <2>2. QED  BY <1>4, <2>1
  <1>14. QED
    BY NextIs, <1>6, <1>7, <1>8, <1>9, <1>10, <1>11, <1>12, <1>13
       DEF Calling, Outside

-----------------------------------------------------------------------------
(* The invariant.                                                            *)

LEMMA InitInv == Init => IInv
  <1> SUFFICES ASSUME Init PROVE IInv
    OBVIOUS
  <1> USE DEF Init
  <1>1. /\ issued = <<>> /\ events = <<>> /\ dead = <<>> /\ subscribers = <<>>
        /\ DOMAIN issued = {} /\ DOMAIN events = {} /\ DOMAIN dead = {}
        /\ Len(dead) = 0
    OBVIOUS
  <1>2. Types
    <2>1. /\ <<>> \in Seq(Issues) /\ <<>> \in Seq(Events) /\ <<>> \in Seq(Msg)
          /\ <<>> \in Seq(Agent)
      OBVIOUS
    <2>2. cleanup \in Cleanups
      BY CleanupTypes
    <2>3. stopping \in Stoppings
      BY DEF Stoppings
    <2>4. request \in [Thread -> Requests] /\ work \in Works
      BY RecordTypes
    <2>5. registered \in SUBSET Agent
      BY BusAssumption
    <2>6. /\ inbox \in [Agent -> Seq(Msg)] /\ received \in [Agent -> Seq(Msg)]
          /\ copied \in SUBSET Msg /\ asked \in Nat /\ up \in BOOLEAN
          /\ tracker \in [DOMAIN tracker -> {"Pending", "Delivered", "Failed"}]
      BY <2>1
    <2>7. QED  BY <1>1, <2>1, <2>2, <2>3, <2>4, <2>5, <2>6 DEF Types
  <1>3. ChannelInv
    BY <1>1 DEF ChannelInv
  <1>4. LoopInv
    BY RecordTypes DEF LoopInv
  <1>5. SizeInv
    <2>1. 0 <= max_queue_size /\ 0 <= dead_letter_queue_size /\ Len(<<>>) = 0
      BY BusAssumption
    <2>2. QED  BY <1>1, <2>1 DEF SizeInv
  <1>6. Messages = {} /\ Sent = {}
    BY <1>1 DEF Messages, Sent
  <1>7. \A a \in Agent : Range(inbox[a]) = {} /\ Range(received[a]) = {}
    BY EmptySorted
  <1>8. PlaceInv
    <2>1. /\ InHand = {} /\ InInboxes = {} /\ Fetched = {} /\ Range(dead) = {}
          /\ evicted = {} /\ gone = {} /\ cleanup.expired = {}
      BY <1>7, EmptySorted, RecordTypes DEF InHand, InInboxes, Fetched
    <2>2. \A k \in 1 .. 8 : Places[k] = {}
      BY <1>6, <2>1, PlacesAre
    <2>3. Once(Places, Messages)
      BY <1>6, <2>2 DEF Once
    <2>4. QED  BY <1>1, <1>7, <2>3 DEF PlaceInv
  <1>9. OrderInv
    <2>1. \A a \in Agent :
              /\ Sorted(received[a], Order) /\ Sorted(inbox[a], Order)
              /\ Range(received[a]) = {}
      BY EmptySorted
    <2>2. InOrder
      BY <1>2, <2>1, InOrderIs DEF InOrder, Types
    <2>3. ~HasMessage
      BY RecordTypes DEF HasMessage
    <2>4. QED  BY <1>6, <2>2, <2>3 DEF OrderInv
  <1>10. StatusIsTrue /\ TrackedInv
    BY DEF StatusIsTrue, TrackedInv
  <1>11. RequestInv
    BY RecordTypes DEF RequestInv, PendingIsWaited
  <1>12. IdInv
    BY <1>1, RecordTypes DEF IdInv
  <1>13. QED
    BY <1>2, <1>3, <1>4, <1>5, <1>8, <1>9, <1>10, <1>11, <1>12
       DEF IInv, TypeInv

LEMMA StepInv == IInv /\ [Next]_vars => IInv'
  <1> SUFFICES ASSUME IInv, Next \/ UNCHANGED vars PROVE IInv'
    OBVIOUS
  <1>1. /\ TypeInv /\ PlaceInv /\ OrderInv /\ TrackedInv /\ StatusIsTrue
        /\ RequestInv /\ IdInv
    BY DEF IInv
  <1>2. Types'
    BY <1>1, TypesStep
  <1>3. ChannelInv' /\ LoopInv' /\ SizeInv'
    BY <1>1, <1>2, ChannelStep, LoopStep, SizeStep
  <1>4. PlaceInv'
    BY <1>1, <1>2, PlaceStep
  <1>5. OrderInv'
    <2>1. HandInv'
      BY <1>1, <1>2, HandStep
    <2>2. QED
      BY <1>1, <1>2, <2>1, TakenStep, InOrderStep DEF OrderInv, HandInv
  <1>6. TrackedInv' /\ StatusIsTrue' /\ RequestInv'
    BY <1>1, <1>2, TrackedStep, StatusStep, RequestInvStep
  <1>7. IdInv'
    BY <1>1, <1>2, IdStep
  <1>8. QED  BY <1>2, <1>3, <1>4, <1>5, <1>6, <1>7 DEF IInv, TypeInv

LEMMA Invariance == Spec => []IInv
  BY InitInv, StepInv, PTL DEF Spec

\* Every message that was accepted is at exactly one place, however the event
\* loop, the cleanup loop, a shutdown and the callers interleave: none is lost,
\* none is handed out twice (mod.rs:259-352, 416-447).
THEOREM NoMessageIsLost == Spec => []EachMessageOnce
  <1>1. IInv => EachMessageOnce
    <2> SUFFICES ASSUME IInv, NEW m \in Messages
                 PROVE  Cardinality({i \in DOMAIN Places :
                                        m \in Places[i]}) = 1
      BY DEF EachMessageOnce
    <2>1. PICK k \in 1 .. 8 : \A l \in 1 .. 8 : m \in Places[l] <=> l = k
      BY DEF IInv, PlaceInv, Once
    <2>2. {i \in DOMAIN Places : m \in Places[i]} = {k}
      BY <2>1, PlacesAre
    <2>3. QED  BY <2>2, FS_Singleton
  <1>2. QED  BY <1>1, Invariance, PTL

\* An agent gets its messages in the order in which they were sent, each once,
\* and what the tracker says of a message is true: what it reports as failed is
\* a dead letter and what it reports as delivered is none (mod.rs:289, 291-311,
\* 441-445, 611).
THEOREM AgentsGetWhatIsReported == Spec => []InboxesAreTrue
  <1>1. IInv => TypeOK
    <2> SUFFICES ASSUME IInv PROVE TypeOK
      OBVIOUS
    <2>1. TypeInv /\ PlaceInv /\ RequestInv
      BY DEF IInv
    <2>2. \A n \in DOMAIN issued :
              issued[n].kind \in {"direct", "publish", "request", "response"}
      <3>1. \A n \in DOMAIN issued : issued[n] \in Issues
        BY <2>1, SequenceTypes DEF TypeInv, Types
      <3>2. QED  BY <3>1, RecordTypes
    <2>3. /\ work.at \in {"idle", "answer", "copy", "deliver", "bury", "prune",
                          "stopped"}
          /\ cleanup.at \in {"idle", "lock", "move", "forget"}
          /\ stopping.at \in {"none", "list", "unregister"}
      BY <2>1, WorkTypes, CleanupTypes DEF TypeInv, Types, Place, Stoppings
    <2>4. InInboxes \subseteq Messages /\ Range(dead) \subseteq Messages
      BY <2>1, PlacesAre DEF PlaceInv, Once
    <2>5. DOMAIN tracker \subseteq Messages
          /\ Range(tracker) \subseteq {"Pending", "Delivered", "Failed"}
      BY <2>1 DEF IInv, TrackedInv, TypeInv, Types, Range
    <2>6. QED
      BY <2>1, <2>2, <2>3, <2>4, <2>5
         DEF TypeOK, TypeInv, Types, SizeInv, RequestInv
  <1>2. IInv => InOrder /\ StatusIsTrue
    BY DEF IInv, OrderInv
  <1>3. QED  BY <1>1, <1>2, Invariance, PTL DEF InboxesAreTrue

\* However loops, shutdown and callers interleave, a message is at one place
\* and what is said of it is true.
THEOREM MessagesStaySound == Spec => []MessagesAreSound
  BY NoMessageIsLost, AgentsGetWhatIsReported, PTL DEF MessagesAreSound

\* No entry of pending_requests outlives its request, whether the request was
\* answered, timed out, or both in either order, unless sending was refused or
\* the caller was dropped; and who waits for an answer keeps its entry
\* (mod.rs:713-742).
THEOREM EntriesAreWaitedFor == Spec => []PendingIsWaited
  <1>1. IInv => PendingIsWaited
    BY DEF IInv, RequestInv
  <1>2. QED  BY <1>1, Invariance, PTL

-----------------------------------------------------------------------------
(* The mailboxes.                                                            *)

\* What is addressed to an agent names one, and an answer names the bus.
KindInv ==
    /\ \A n \in DOMAIN issued :
          /\ issued[n].kind \in {"direct", "request"} => issued[n].to \in Agent
          /\ issued[n].kind = "response" => issued[n].to = "system"
    /\ \A t \in Thread : request[t].at = "send" => request[t].to \in Agent

KindOf(m) == issued[m[1]].kind

\* What the event loop has in hand goes where it was sent: an original to its
\* addressee, a copy to a subscriber, and a dead letter has no way out.
HandlingInv ==
    /\ work.at \in {"idle", "prune", "stopped"} => work.todo = <<>>
    /\ work.at = "answer" => KindOf(work.msg) = "response"
    /\ work.at \in {"answer", "deliver", "bury"} /\ work.msg[2] = 0 =>
          /\ work.todo = <<>> /\ work.to = issued[work.msg[1]].to
          /\ KindOf(work.msg) # "publish"
    /\ work.at \in {"answer", "deliver", "bury"} /\ work.msg[2] > 0 =>
          work.at # "answer" /\ work.to \in Agent
    /\ work.at = "copy" \/ (HasMessage /\ work.msg[2] > 0) =>
          KindOf(work.msg) = "publish" /\ <<work.msg[1], 0>> \in gone
    /\ work.at = "bury" => ~Accepts(work.to)

MailInv == KindInv /\ HandlingInv

LEMMA InitMail == Init => MailInv
  BY RecordTypes DEF Init, MailInv, KindInv, HandlingInv, HasMessage

\* What was sent stays as it was sent, and what came to an end stays there.
LEMMA HistoryStep ==
    ASSUME TypeInv, PlaceInv, Types', Next \/ UNCHANGED vars
    PROVE  /\ \A n \in DOMAIN issued :
                 n \in DOMAIN issued' /\ issued'[n] = issued[n]
           /\ gone \subseteq gone'
  <1> USE DEF callers, agents, letters, history
  <1>1. issued \in Seq(Issues)
    BY DEF TypeInv, Types
  <1>2. \A rec \in Issues : \A n \in DOMAIN issued :
            /\ n \in DOMAIN Append(issued, rec)
            /\ Append(issued, rec)[n] = issued[n]
    BY <1>1
  <1>3. issued' = issued \/ \E rec \in Issues : issued' = Append(issued, rec)
    <2>1. CASE Calling
      <3>1. \A kind \in {"direct", "publish", "request", "response"},
               to \in Recipient, id \in Nat :
               [kind |-> kind, to |-> to, id |-> id] \in Issues
        BY DEF Issues
      <3>2. QED  BY <2>1, <3>1, CallingIssues DEF Issue
    <2>2. CASE ~Calling
      BY <2>2, NextIs, OutsideChannel, InsideIsQuiet, TakeMessageChannel,
         ChangeInboxChannel, ShutdownChannel
         DEF Inside, Quiet, TakesMessage, Drops
    <2>3. QED  BY <2>1, <2>2
  <1>4. gone \subseteq gone'
    <2>1. CASE Calling \/ Outside
      BY <2>1, CallingChannel, OutsideChannel
    <2>2. CASE ~(Calling \/ Outside)
      BY <2>2, NextIs
         DEF Receive, TakeMessage, Answer, Copy, Deliver, Bury, ChangeInbox,
             Prune, RemoveExpired, MoveExpired, Forget, BeginShutdown
    <2>3. QED  BY <2>1, <2>2
  <1>5. QED  BY <1>2, <1>3, <1>4

LEMMA KindStep ==
    ASSUME TypeInv, PlaceInv, KindInv, Types', Next \/ UNCHANGED vars
    PROVE  KindInv'
  <1> USE DEF callers, agents, letters, history
  <1>1. /\ issued \in Seq(Issues) /\ request \in [Thread -> Requests]
        /\ Agent \subseteq Recipient /\ "topic" \in Recipient
        /\ "system" \in Recipient
    BY RecordTypes DEF TypeInv, Types
  <1>2. ASSUME NEW kind \in {"direct", "publish", "request", "response"},
               NEW to \in Recipient, NEW id \in Nat,
               kind \in {"direct", "request"} => to \in Agent,
               kind = "response" => to = "system",
               Issue(kind, to, id)
        PROVE  \A n \in DOMAIN issued' :
                  /\ issued'[n].kind \in {"direct", "request"}
                     => issued'[n].to \in Agent
                  /\ issued'[n].kind = "response" => issued'[n].to = "system"
    <2> DEFINE rec == [kind |-> kind, to |-> to, id |-> id]
    <2>1. issued' = Append(issued, rec)
      BY <1>2 DEF Issue
    <2>2. rec \in Issues /\ rec.kind = kind /\ rec.to = to
      BY DEF Issues
    <2> HIDE DEF rec
    <2>3. \A n \in DOMAIN Append(issued, rec) :
              \/ n \in DOMAIN issued /\ Append(issued, rec)[n] = issued[n]
              \/ Append(issued, rec)[n] = rec
      BY <1>1, <2>2
    <2>4. QED  BY <1>2, <2>1, <2>2, <2>3 DEF KindInv
  <1>3. ASSUME issued' = issued,
               \A t \in Thread :
                  \/ request'[t] = request[t]
                  \/ request'[t].at = "send" => request'[t].to \in Agent
        PROVE  KindInv'
    BY <1>3 DEF KindInv
  <1>4. CASE Send
    <2>1. \/ \E a \in Agent : Issue("direct", a, 0)
          \/ Issue("publish", "topic", 0)
      BY <1>4 DEF Send
    <2>2. QED  BY <1>1, <1>2, <1>4, <2>1 DEF Send, KindInv
  <1>5. CASE Respond
    <2>1. PICK a \in Agent : \E i \in DOMAIN received[a] :
              Issue("response", "system", issued[received[a][i][1]].id)
      BY <1>5 DEF Respond
    <2>2. PICK i \in DOMAIN received[a] :
              Issue("response", "system", issued[received[a][i][1]].id)
      BY <2>1
    <2>3. issued[received[a][i][1]].id \in Nat
      BY FetchedWasSent, RecordTypes
    <2>4. QED  BY <1>1, <1>2, <1>5, <2>2, <2>3 DEF Respond, KindInv
  <1>6. CASE \E t \in Thread : SendRequest(t)
    <2>1. PICK t \in Thread : SendRequest(t)
      BY <1>6
    <2>2. /\ request[t].to \in Agent /\ request[t].id \in Nat
          /\ request[t] \in Requests
      BY <1>1, <2>1, RequestTypes DEF SendRequest, KindInv
    <2>3. \A u \in Thread :
             \/ request'[u] = request[u]
             \/ request'[u].at # "send"
      <3>1. /\ [request[t] EXCEPT !.at = "wait"].at = "wait"
            /\ NoRequest.at = "none"
        BY <2>2, RequestTypes, RecordTypes
      <3>2. \E r : r.at # "send" /\ request' = [request EXCEPT ![t] = r]
        BY <2>1, <3>1 DEF SendRequest, Abandon, SetRequest
      <3>3. QED  BY <1>1, <3>2
    <2>4. CASE issued' = issued
      BY <1>3, <2>3, <2>4
    <2>5. CASE Issue("request", request[t].to, request[t].id)
      <3>1. request[t].to \in Recipient
        BY <1>1, <2>2
      <3>2. QED  BY <1>2, <2>2, <2>3, <2>5, <3>1 DEF KindInv
    <2>6. QED  BY <2>1, <2>4, <2>5 DEF SendRequest
  <1>7. CASE \E t \in Thread : \/ BeginRequest(t) \/ Drop(t) \/ Timeout(t)
                               \/ Withdraw(t) \/ ReturnAnswer(t)
    <2>1. PICK t \in Thread : \/ BeginRequest(t) \/ Drop(t) \/ Timeout(t)
                              \/ Withdraw(t) \/ ReturnAnswer(t)
      BY <1>7
    <2>2. request[t] \in Requests
      BY <1>1
    <2>3. \E r : /\ r.at = "send" => r.to \in Agent
                 /\ request' = [request EXCEPT ![t] = r]
      <3>1. CASE BeginRequest(t)
        <4>1. PICK a \in Agent :
                 request' = [request EXCEPT ![t] =
                    [at |-> "send", id |-> asked + 1, to |-> a]]
          BY <3>1 DEF BeginRequest, SetRequest
        <4>2. QED  BY <4>1
      <3>2. CASE Timeout(t)
        <4>1. [request[t] EXCEPT !.at = "withdraw"].at = "withdraw"
          BY <2>2, RequestTypes
        <4>2. QED  BY <3>2, <4>1 DEF Timeout, SetRequest
      <3>3. CASE Drop(t) \/ Withdraw(t) \/ ReturnAnswer(t)
        BY <3>3, RecordTypes
           DEF Drop, Abandon, Withdraw, ReturnAnswer, SetRequest
      <3>4. QED  BY <2>1, <3>1, <3>2, <3>3
    <2>4. issued' = issued
      BY <2>1 DEF BeginRequest, Drop, Timeout, Withdraw, ReturnAnswer
    <2>5. QED  BY <1>1, <1>3, <2>3, <2>4
  <1>8. CASE Answer
    <2>1. \A t \in Thread : \/ request'[t] = request[t]
                            \/ request'[t].at = "answered"
      <3>1. \A t \in Thread : [request[t] EXCEPT !.at = "answered"].at
                                 = "answered"
        BY <1>1, RequestTypes
      <3>2. QED  BY <1>8, <3>1 DEF Answer
    <2>2. QED  BY <1>3, <1>8, <2>1 DEF Answer
  <1>9. CASE UNCHANGED <<issued, request>>
    BY <1>3, <1>9
  <1>10. CASE \/ \E a \in Agent : \/ Register(a) \/ Subscribe(a)
                                  \/ Unsubscribe(a) \/ Receive(a)
              \/ \E m \in (1 .. MaxMessages) \X (0 .. MaxCalls) :
                    TimePasses(m)
              \/ LockDeadLetters \/ UnlockDeadLetters
              \/ ListAgents \/ UnregisterNext
              \/ TakeMessage \/ Copy \/ Deliver \/ Bury
              \/ ChangeInbox \/ Prune \/ RemoveExpired \/ MoveExpired
              \/ Forget \/ BeginShutdown \/ UNCHANGED vars
    BY <1>9, <1>10
       DEF Register, Subscribe, Unsubscribe, Receive, TimePasses,
           LockDeadLetters, UnlockDeadLetters, ListAgents, UnregisterNext,
           TakeMessage, Copy, Deliver, Bury, ChangeInbox, Prune,
           RemoveExpired, MoveExpired, Forget, BeginShutdown, vars
  <1>11. QED
    BY NextIs, <1>4, <1>5, <1>6, <1>7, <1>8, <1>10 DEF Calling, Outside

\* A message that is done leaves the hand, and the subscribers that are left
\* are those of what was in hand.
LEMMA DoneLetsGo ==
    ASSUME work \in Works, Done
    PROVE  /\ InHand' = {} /\ work'.todo = work.todo /\ Unserved' = work.todo
           /\ \/ work' = Idle
              \/ work'.at = "copy" /\ work'.msg = work.msg
  <1>1. \/ work' = Idle /\ work.todo = <<>>
        \/ /\ work'.at = "copy" /\ work'.msg = work.msg
           /\ work'.todo = work.todo
    BY WorkMoves DEF Done
  <1>2. work'.at \in {"idle", "copy"} /\ work'.todo = work.todo
    BY <1>1, RecordTypes
  <1>3. QED  BY <1>1, <1>2 DEF InHand, Unserved

LEMMA HandlingStep ==
    ASSUME TypeInv, PlaceInv, OrderInv, MailInv, Types', Next \/ UNCHANGED vars
    PROVE  HandlingInv'
  <1> USE DEF callers, agents, letters, history
  <1>1. work \in Works /\ HandlingInv
    BY DEF TypeInv, Types, MailInv
  <1>2. HasMessage => /\ work.msg[1] \in DOMAIN issued
                      /\ issued'[work.msg[1]] = issued[work.msg[1]]
    BY HistoryStep, MessageTypes DEF OrderInv, Taken
  <1>3. gone \subseteq gone'
    BY HistoryStep
  <1>4. /\ work.msg[2] \in Nat
        /\ \A m \in Sent : m[2] = 0 /\ m[1] \in DOMAIN issued
    BY <1>1, WorkTypes, RecordTypes, MessageTypes
  <1>5. ASSUME work' = work, UNCHANGED <<inbox, registered>> PROVE HandlingInv'
    BY <1>1, <1>2, <1>3, <1>5 DEF HandlingInv, HasMessage, KindOf, Accepts
  <1>6. CASE Calling \/ Outside
    BY <1>5, <1>6, CallingChannel, OutsideChannel
  <1>7. CASE (\E a \in Agent : Receive(a)) \/ RemoveExpired
    <2>1. work' = work /\ work.at # "bury"
      BY <1>7 DEF Receive, RemoveExpired, QueuesFree, Burying
    <2>2. QED
      BY <1>1, <1>2, <1>3, <2>1 DEF HandlingInv, HasMessage, KindOf
  <1>8. CASE MoveExpired \/ Forget
    BY <1>5, <1>8 DEF MoveExpired, Forget
  <1>9. ASSUME work'.at \in {"idle", "prune", "stopped"}, work'.todo = <<>>
        PROVE  HandlingInv'
    BY <1>9 DEF HandlingInv, HasMessage
  <1>10. CASE ChangeInbox
    <2>1. CASE work' = work /\ work.at = "idle"
      BY <1>1, <1>9, <2>1 DEF HandlingInv
    <2>2. CASE Handle("prune", None, Head(events).agent, <<>>)
      BY <1>9, <2>2 DEF Handle
    <2>3. QED  BY <1>10, <2>1, <2>2 DEF ChangeInbox, Takes
  <1>11. CASE Prune
    BY <1>9, <1>11, RecordTypes DEF Prune
  <1>12. CASE BeginShutdown
    <2>1. CASE work' = [Idle EXCEPT !.at = "stopped"]
      <3>1. work'.at = "stopped" /\ work'.todo = <<>>
        BY <2>1 DEF Idle
      <3>2. QED  BY <1>9, <3>1
    <2>2. CASE work' = work
      BY <1>5, <1>12, <2>2 DEF BeginShutdown
    <2>3. QED  BY <1>12, <2>1, <2>2 DEF BeginShutdown
  <1>13. ASSUME Done, issued' = issued,
                work.todo # <<>> =>
                   /\ KindOf(work.msg) = "publish"
                   /\ <<work.msg[1], 0>> \in gone
         PROVE  HandlingInv'
    <2>1. \/ work' = Idle
          \/ /\ work'.at = "copy" /\ work'.msg = work.msg
             /\ work.todo # <<>>
      BY <1>1, <1>13, WorkMoves DEF Done
    <2>2. CASE work' = Idle
      BY <1>9, <2>2, RecordTypes
    <2>3. CASE /\ work'.at = "copy" /\ work'.msg = work.msg
               /\ work.todo # <<>>
      BY <1>3, <1>13, <2>3 DEF HandlingInv, HasMessage, KindOf
    <2>4. QED  BY <2>1, <2>2, <2>3
  <1>14. work.at \in {"answer", "deliver", "bury"} /\ work.todo # <<>> =>
            /\ KindOf(work.msg) = "publish" /\ <<work.msg[1], 0>> \in gone
    BY <1>1, <1>4 DEF HandlingInv, HasMessage
  <1>15. ASSUME NEW at \in {"deliver", "bury"},
                work' = [work EXCEPT !.at = at], UNCHANGED <<issued, gone>>,
                work.at \in {"answer", "deliver"},
                at = "bury" => ~Accepts(work.to) /\ UNCHANGED agents
         PROVE  HandlingInv'
    <2>1. /\ work'.at = at /\ work'.msg = work.msg
          /\ work'.to = work.to /\ work'.todo = work.todo
      BY <1>1, <1>15, WorkMoves
    <2>2. work.at = "answer" => work.msg[2] = 0
      BY <1>1, <1>4 DEF HandlingInv
    <2>3. QED
      BY <1>1, <1>15, <2>1, <2>2 DEF HandlingInv, HasMessage, KindOf, Accepts
  <1>16. CASE Answer
    <2>1. CASE Done
      BY <1>13, <1>14, <1>16, <2>1 DEF Answer
    <2>2. CASE work' = [work EXCEPT !.at = "deliver"] /\ UNCHANGED gone
      BY <1>15, <1>16, <2>2 DEF Answer
    <2>3. QED  BY <1>16, <2>1, <2>2 DEF Answer
  <1>17. CASE Deliver
    <2>1. CASE Done
      BY <1>13, <1>14, <1>17, <2>1 DEF Deliver
    <2>2. CASE /\ work' = [work EXCEPT !.at = "bury"]
               /\ ~Accepts(work.to) /\ UNCHANGED inbox
      BY <1>15, <1>17, <2>2 DEF Deliver
    <2>3. QED  BY <1>17, <2>1, <2>2 DEF Deliver
  <1>18. CASE Bury
    BY <1>13, <1>14, <1>18 DEF Bury, Burying
  <1>19. CASE TakeMessage
    <2> DEFINE h == Head(events).msg
    <2>1. /\ h \in Sent /\ h[2] = 0 /\ h[1] \in DOMAIN issued
          /\ issued' = issued
      BY <1>4, <1>19, TakeMessageChannel DEF TakesMessage, TakeMessage
    <2>2. h = <<h[1], 0>>
      BY <2>1, MessageTypes
    <2>3. CASE KindOf(h) = "publish"
      <3>1. /\ work' = IF subscribers = <<>> THEN Idle
                       ELSE [at |-> "copy", msg |-> h, to |-> "topic",
                             todo |-> subscribers]
            /\ gone' = gone \cup {h}
        BY <1>19, <2>3 DEF TakeMessage, KindOf
      <3> HIDE DEF h
      <3>2. CASE work' = Idle
        BY <1>9, <3>2, RecordTypes
      <3>3. CASE work' = [at |-> "copy", msg |-> h, to |-> "topic",
                          todo |-> subscribers]
        <4>1. work'.at = "copy" /\ work'.msg = h
          BY <3>3
        <4>2. QED
          BY <2>1, <2>2, <2>3, <3>1, <4>1 DEF HandlingInv, HasMessage, KindOf
      <3>4. QED  BY <3>1, <3>2, <3>3
    <2>4. CASE KindOf(h) = "response"
      <3>1. work' = [at |-> "answer", msg |-> h, to |-> "system",
                     todo |-> <<>>]
        BY <1>19, <2>4 DEF TakeMessage, KindOf, Handle
      <3>2. issued[h[1]].to = "system"
        BY <2>1, <2>4 DEF MailInv, KindInv, KindOf
      <3> HIDE DEF h
      <3>3. /\ work'.at = "answer" /\ work'.msg = h /\ work'.to = "system"
            /\ work'.todo = <<>>
        BY <3>1
      <3>4. QED
        BY <2>1, <2>4, <3>2, <3>3 DEF HandlingInv, HasMessage, KindOf
    <2>5. CASE KindOf(h) \notin {"publish", "response"}
      <3>1. work' = [at |-> "deliver", msg |-> h, to |-> issued[h[1]].to,
                     todo |-> <<>>]
        BY <1>19, <2>5 DEF TakeMessage, KindOf, Handle
      <3> HIDE DEF h
      <3>2. /\ work'.at = "deliver" /\ work'.msg = h
            /\ work'.to = issued[h[1]].to /\ work'.todo = <<>>
        BY <3>1
      <3>3. QED
        BY <2>1, <2>5, <3>2 DEF HandlingInv, HasMessage, KindOf
    <2>6. QED  BY <2>3, <2>4, <2>5
  <1>20. CASE Copy
    <2> DEFINE c == <<work.msg[1], work.msg[2] + 1>>
    <2>1. /\ work' = [at |-> "deliver", msg |-> c, to |-> Head(work.todo),
                      todo |-> Tail(work.todo)]
          /\ work.at = "copy" /\ UNCHANGED <<issued, gone>>
      BY <1>20 DEF Copy, Handle
    <2>2. c[1] = work.msg[1] /\ c[2] > 0
      BY <1>4
    <2>3. Head(work.todo) \in Agent
      <3>1. work.todo \in Seq(Agent) /\ work.todo # <<>>
        BY <1>1, <2>1, WorkTypes DEF TypeInv, LoopInv
      <3>2. QED  BY <3>1, SequenceTypes
    <2>4. /\ KindOf(work.msg) = "publish" /\ <<work.msg[1], 0>> \in gone
      BY <1>1, <2>1 DEF HandlingInv
    <2> HIDE DEF c
    <2>5. /\ work'.at = "deliver" /\ work'.msg = c /\ work'.to \in Agent
      BY <2>1, <2>3
    <2>6. QED
      BY <2>1, <2>2, <2>4, <2>5 DEF HandlingInv, HasMessage, KindOf
  <1>21. QED
    BY NextIs, <1>6, <1>7, <1>8, <1>10, <1>11, <1>12, <1>16, <1>17, <1>18,
       <1>19, <1>20

LEMMA MailStep ==
    ASSUME IInv, MailInv, [Next]_vars
    PROVE  MailInv'
  <1>1. /\ TypeInv /\ PlaceInv /\ OrderInv /\ KindInv
        /\ Next \/ UNCHANGED vars
    BY DEF IInv, MailInv
  <1>2. Types'
    BY <1>1, TypesStep
  <1>3. QED  BY <1>1, <1>2, KindStep, HandlingStep DEF MailInv

\* What is on its way, what waits and what the agents have, as the mailboxes
\* see them.
OnItsWay == Sent \cup InHand
BoxOf == [a \in Agent |-> Range(inbox[a])]
FetchedBy == [a \in Agent |-> Range(received[a])]

\* What the callers do is a step of the mailboxes.
LEMMA CallersImplementMailboxes ==
    ASSUME TypeInv, PlaceInv, KindInv, RequestInv, Types', Calling
    PROVE  Boxes!Next \/ UNCHANGED Boxes!vars
  <1>1. UNCHANGED <<up, work, pending, cleanup, aged, asked, registered, inbox,
                    subscribers, dead, evicted, copied, received, gone>>
    BY CallingChannel DEF agents, letters, history
  <1>2. UNCHANGED <<InHand, Unserved>>
    BY <1>1 DEF InHand, Unserved
  <1>3. CASE Quiet
    BY <1>1, <1>2, <1>3 DEF Quiet, Boxes!vars
  <1>4. CASE Sends
    <2>1. /\ up /\ Len(issued') = Len(issued) + 1
          /\ Sent' = Sent \cup {<<Len(issued'), 0>>}
      BY <1>4 DEF Sends
    <2>2. Len(issued) \in Nat /\ issued \in Seq(Issues)
      BY MessageTypes DEF TypeInv, Types
    <2>3. issued' # issued
      BY <2>1, <2>2
    <2>4. ASSUME NEW kind \in {"direct", "publish", "request", "response"},
                 NEW to \in Recipient, NEW id \in Nat, Issue(kind, to, id),
                 Boxes!Sendable([kind |-> kind, to |-> to, id |-> id])
          PROVE  Boxes!Next
      <3> DEFINE rec == [kind |-> kind, to |-> to, id |-> id]
      <3>1. issued' = Append(issued, rec) /\ Boxes!Sendable(rec)
        BY <2>4 DEF Issue
      <3>2. rec \in Issues
        BY DEF Issues
      <3> HIDE DEF rec
      <3>3. issued'[Len(issued')] = rec
        BY <2>1, <2>2, <3>1, <3>2
      <3>4. Boxes!Accept
        BY <1>1, <1>2, <2>1, <2>3, <3>1, <3>3 DEF Boxes!Accept, Boxes!ends
      <3>5. QED  BY <3>4 DEF Boxes!Next
    <2>5. Agent \subseteq Recipient /\ {"topic", "system"} \subseteq Recipient
      BY RecordTypes
    <2>6. CASE Send
      <3>1. CASE \E a \in Agent : Issue("direct", a, 0)
        <4>1. PICK a \in Agent : Issue("direct", a, 0)
          BY <3>1
        <4>2. Boxes!Sendable([kind |-> "direct", to |-> a, id |-> 0])
          BY DEF Boxes!Sendable
        <4>3. QED  BY <2>4, <2>5, <4>1, <4>2
      <3>2. CASE Issue("publish", "topic", 0)
        <4>1. Boxes!Sendable([kind |-> "publish", to |-> "topic", id |-> 0])
          BY DEF Boxes!Sendable
        <4>2. QED  BY <2>4, <2>5, <3>2, <4>1
      <3>3. QED  BY <2>6, <3>1, <3>2 DEF Send
    <2>7. CASE Respond
      <3>1. PICK a \in Agent : \E i \in DOMAIN received[a] :
                /\ issued[received[a][i][1]].kind = "request"
                /\ Issue("response", "system", issued[received[a][i][1]].id)
        BY <2>7 DEF Respond
      <3>2. PICK i \in DOMAIN received[a] :
                /\ issued[received[a][i][1]].kind = "request"
                /\ Issue("response", "system", issued[received[a][i][1]].id)
        BY <3>1
      <3>3. issued[received[a][i][1]].id \in Nat
        BY FetchedWasSent, RecordTypes
      <3>4. received[a][i] \in Range(received[a])
        BY DEF Range
      <3>5. Boxes!Sendable([kind |-> "response", to |-> "system",
                            id |-> issued[received[a][i][1]].id])
        BY <3>2, <3>4 DEF Boxes!Sendable, Boxes!Kind
      <3>6. QED  BY <2>4, <2>5, <3>2, <3>3, <3>5
    <2>8. CASE \E t \in Thread : SendRequest(t)
      <3>1. PICK t \in Thread : SendRequest(t)
        BY <2>8
      <3>2. /\ Issue("request", request[t].to, request[t].id)
            /\ request[t].at = "send"
        BY <2>3, <3>1 DEF SendRequest
      <3>3. request[t].to \in Agent
        BY <3>2 DEF KindInv
      <3>4. request[t].id \in 1 .. asked /\ request[t].id \in Nat
        <4>1. request[t].id \in Nat /\ asked \in Nat
          BY RequestTypes DEF TypeInv, Types
        <4>2. request[t].id # 0 /\ request[t].id <= asked
          BY <3>2 DEF RequestInv
        <4>3. QED  BY <4>1, <4>2
      <3>5. Boxes!Sendable([kind |-> "request", to |-> request[t].to,
                            id |-> request[t].id])
        BY <3>3, <3>4 DEF Boxes!Sendable
      <3>6. QED  BY <2>4, <2>5, <3>2, <3>3, <3>4, <3>5
    <2>9. QED  BY <2>6, <2>7, <2>8 DEF Calling
  <1>5. QED  BY <1>3, <1>4, CallingChannel

\* What moves no message is one too, or none at all.
LEMMA OutsideImplementsMailboxes ==
    ASSUME TypeInv, Types', Outside
    PROVE  Boxes!Next \/ UNCHANGED Boxes!vars
  <1> USE DEF callers, agents, letters, history
  <1>1. UNCHANGED <<up, work, issued, Sent, inbox, registered, dead, evicted,
                    copied, received, gone>>
    BY OutsideChannel DEF Quiet
  <1>2. cleanup'.expired = cleanup.expired /\ UNCHANGED <<InHand, Unserved>>
    BY <1>1, OutsideChannel DEF InHand, Unserved
  <1>3. CASE \E a \in Agent : Subscribe(a) \/ Unsubscribe(a)
    <2>1. UNCHANGED <<asked, pending, aged>>
      BY <1>3 DEF Subscribe, Unsubscribe
    <2>2. CASE subscribers' = subscribers
      BY <1>1, <1>2, <2>1, <2>2 DEF Boxes!vars
    <2>3. CASE subscribers' # subscribers
      <3>1. Boxes!Subscribe
        BY <1>1, <1>2, <2>1, <2>3 DEF Boxes!Subscribe, Boxes!ends
      <3>2. QED  BY <3>1 DEF Boxes!Next
    <2>4. QED  BY <2>2, <2>3
  <1>4. CASE \E t \in Thread : BeginRequest(t)
    <2>1. /\ up /\ asked' = asked + 1 /\ pending' = pending \cup {asked + 1}
          /\ UNCHANGED <<subscribers, aged>>
      BY <1>4 DEF BeginRequest
    <2>2. Boxes!Ask
      BY <1>1, <1>2, <2>1 DEF Boxes!Ask, Boxes!ends
    <2>3. QED  BY <2>2 DEF Boxes!Next
  <1>5. CASE \E t \in Thread : Withdraw(t)
    <2>1. PICK t \in Thread : Withdraw(t)
      BY <1>5
    <2>2. /\ pending' = pending \ {request[t].id}
          /\ UNCHANGED <<asked, subscribers, aged>>
      BY <2>1 DEF Withdraw
    <2>3. CASE request[t].id \in pending
      <3>1. Boxes!Withdraw
        BY <1>1, <1>2, <2>2, <2>3
           DEF Boxes!Withdraw, Boxes!sending, Boxes!ends
      <3>2. QED  BY <3>1 DEF Boxes!Next
    <2>4. CASE request[t].id \notin pending
      <3>1. pending' = pending
        BY <2>2, <2>4
      <3>2. QED  BY <1>1, <1>2, <2>2, <3>1 DEF Boxes!vars
    <2>5. QED  BY <2>3, <2>4
  <1>6. CASE \E m \in (1 .. MaxMessages) \X (0 .. MaxCalls) : TimePasses(m)
    <2>1. PICK m \in (1 .. MaxMessages) \X (0 .. MaxCalls) : TimePasses(m)
      BY <1>6
    <2>2. /\ m \in Messages /\ aged' = aged \cup {m}
          /\ UNCHANGED <<asked, pending, subscribers>>
      BY <2>1 DEF TimePasses
    <2>3. Boxes!Age
      BY <1>1, <1>2, <2>2 DEF Boxes!Age, Boxes!sending, Messages
    <2>4. QED  BY <2>3 DEF Boxes!Next
  <1>7. CASE \/ \E a \in Agent : Register(a)
             \/ \E t \in Thread : Drop(t) \/ Timeout(t) \/ ReturnAnswer(t)
             \/ LockDeadLetters \/ UnlockDeadLetters
             \/ ListAgents \/ UnregisterNext \/ UNCHANGED vars
    <2>1. UNCHANGED <<asked, pending, subscribers, aged>>
      BY <1>7 DEF Register, Drop, Timeout, ReturnAnswer, LockDeadLetters,
         UnlockDeadLetters, ListAgents, UnregisterNext, vars
    <2>2. QED  BY <1>1, <1>2, <2>1 DEF Boxes!vars
  <1>8. QED
    BY <1>3, <1>4, <1>5, <1>6, <1>7 DEF Outside

\* A sequence without repetitions is as long as it has elements.
LEMMA DistinctLength ==
    ASSUME NEW S, NEW s \in Seq(S),
           \A i, j \in DOMAIN s : i # j => s[i] # s[j]
    PROVE  Cardinality(Range(s)) = Len(s)
  <1>1. Len(s) \in Nat /\ DOMAIN s = 1 .. Len(s)
    BY SequenceTypes
  <1>2. s \in Bijection(1 .. Len(s), Range(s))
    <2>1. s \in [1 .. Len(s) -> Range(s)]
      BY <1>1 DEF Range
    <2>2. QED
      BY <1>1, <2>1 DEF Bijection, Injection, Surjection, IsInjective, Range
  <1>3. QED  BY <1>1, <1>2, FS_CountingElements DEF ExistsBijection

\* An inbox has room as the mailboxes count it.
LEMMA RoomIsCounted ==
    ASSUME TypeInv, OrderInv, NEW a
    PROVE  Accepts(a) <=> Boxes!Free(a)
  <1>1. CASE a \notin registered
    BY <1>1 DEF Accepts, Boxes!Free
  <1>2. CASE a \in registered
    <2>1. /\ a \in Agent /\ inbox \in [Agent -> Seq(Msg)]
          /\ received \in [Agent -> Seq(Msg)] /\ inbox[a] \in Seq(Msg)
      BY <1>2 DEF TypeInv, Types
    <2>2. Sorted(inbox[a], Order)
      BY <2>1, InOrderIs DEF OrderInv, InOrder
    <2>3. \A i, j \in DOMAIN inbox[a] : i # j => inbox[a][i] # inbox[a][j]
      <3>1. DOMAIN inbox[a] \subseteq Nat /\ \A i \in DOMAIN inbox[a] :
                                                inbox[a][i] \in Msg
        BY <2>1, SequenceTypes
      <3>2. \A x \in Msg : ~Earlier(x, x)
        BY RecordTypes DEF Earlier
      <3>3. \A i, j \in DOMAIN inbox[a] : i < j => inbox[a][i] # inbox[a][j]
        BY <2>2, <3>1, <3>2 DEF Sorted, Order
      <3>4. QED  BY <3>1, <3>3
    <2>4. Cardinality(Range(inbox[a])) = Len(inbox[a])
      BY <2>1, <2>3, DistinctLength
    <2>5. BoxOf[a] = Range(inbox[a])
      BY <2>1 DEF BoxOf
    <2>6. Boxes!Free(a) <=> Cardinality(BoxOf[a]) < max_queue_size
      BY <1>2 DEF Boxes!Free, BoxOf, Boxes!Cardinality, Cardinality
    <2>7. QED  BY <1>2, <2>4, <2>5, <2>6 DEF Accepts
  <1>3. QED  BY <1>1, <1>2

\* What is in hand is the first of what is on its way.
LEMMA HandIsFirst ==
    ASSUME TypeInv, PlaceInv, OrderInv,
           work.at \in {"answer", "deliver", "bury"}
    PROVE  /\ InHand = {work.msg} /\ work.msg \in OnItsWay
           /\ work.msg \notin Sent /\ work.msg \in Messages
           /\ OnItsWay \ {work.msg} = Sent
           /\ \A l \in Sent : Earlier(work.msg, l)
  <1>1. InHand = {work.msg} /\ HasMessage
    BY DEF InHand, HasMessage
  <1>2. work.msg \in Taken
    BY <1>1 DEF OrderInv
  <1>3. work.msg \notin Sent /\ work.msg \in Messages
    BY <1>2 DEF Taken
  <1>4. \A l \in Sent : Earlier(work.msg, l)
    BY <1>2 DEF OrderInv, Earlier
  <1>5. QED  BY <1>1, <1>3, <1>4 DEF OnItsWay

\* It leaves when it is done.
LEMMA HandLeaves ==
    ASSUME TypeInv, PlaceInv, OrderInv, MailInv,
           work.at \in {"answer", "deliver", "bury"}, Done, Sent' = Sent
    PROVE  /\ Boxes!Leaves(work.msg)
           /\ Unserved' = work.todo
           /\ work.at # "answer" => /\ work.to \in Agent \cup {"system"}
                                    /\ Boxes!Reaches(work.msg, work.to)
           /\ work.at = "answer" => Unserved = <<>> /\ work.todo = <<>>
  <1>1. work \in Works /\ work.todo \in Seq(Agent) /\ work.msg[2] \in Nat
    BY WorkTypes, RecordTypes DEF TypeInv, Types
  <1>2. /\ InHand = {work.msg} /\ work.msg \in OnItsWay
        /\ OnItsWay \ {work.msg} = Sent
        /\ \A l \in Sent : Earlier(work.msg, l)
    BY HandIsFirst
  <1>3. InHand' = {} /\ Unserved' = work.todo
    BY <1>1, DoneLetsGo
  <1>4. OnItsWay' = OnItsWay \ {work.msg}
    BY <1>2, <1>3 DEF OnItsWay
  <1>5. Boxes!Leaves(work.msg)
    BY <1>2, <1>4 DEF Boxes!Leaves, OnItsWay, Boxes!Earlier, Earlier
  <1>6. CASE work.msg[2] = 0
    <2>1. /\ work.todo = <<>> /\ work.to = issued[work.msg[1]].to
          /\ KindOf(work.msg) # "publish"
      BY <1>6 DEF MailInv, HandlingInv
    <2>2. Unserved = <<>>
      BY <1>6, <2>1 DEF Unserved
    <2>3. Boxes!Reaches(work.msg, work.to)
      BY <1>3, <1>6, <2>1, <2>2 DEF Boxes!Reaches, Boxes!IsCopy
    <2>4. work.to \in Agent \cup {"system"}
      <3>1. /\ work.msg[1] \in DOMAIN issued
            /\ issued[work.msg[1]].kind \in {"direct", "publish", "request",
                                             "response"}
        BY HandIsFirst, MessageTypes, RecordTypes, SequenceTypes
           DEF TypeInv, Types
      <3>2. QED  BY <2>1, <3>1 DEF MailInv, KindInv, KindOf
    <2>5. QED  BY <1>3, <1>5, <2>1, <2>2, <2>3, <2>4
  <1>7. CASE work.msg[2] > 0
    <2>1. Unserved = <<work.to>> \o work.todo /\ work.to \in Agent
          /\ work.at # "answer"
      BY <1>2, <1>7 DEF Unserved, MailInv, HandlingInv
    <2>2. Unserved # <<>> /\ Head(Unserved) = work.to
          /\ Tail(Unserved) = work.todo
      <3>1. \A a \in Agent, s \in Seq(Agent) :
               /\ <<a>> \o s # <<>> /\ Head(<<a>> \o s) = a
               /\ Tail(<<a>> \o s) = s
        OBVIOUS
      <3>2. QED  BY <1>1, <2>1, <3>1
    <2>3. Boxes!Reaches(work.msg, work.to)
      BY <1>3, <1>7, <2>2 DEF Boxes!Reaches, Boxes!IsCopy
    <2>4. QED  BY <1>3, <1>5, <2>1, <2>3
  <1>8. QED  BY <1>1, <1>6, <1>7

LEMMA DeliverImplementsMailboxes ==
    ASSUME TypeInv, PlaceInv, OrderInv, MailInv, Types', Deliver
    PROVE  Boxes!Next \/ UNCHANGED Boxes!vars
  <1> USE DEF callers, agents, letters, history
  <1>1. /\ Sent' = Sent /\ work.at = "deliver" /\ work \in Works
        /\ UNCHANGED <<up, issued, asked, pending, registered, subscribers,
                       copied, received, aged, dead, evicted, gone>>
        /\ cleanup'.expired = cleanup.expired
    BY InsideIsQuiet DEF Inside, Quiet, Deliver, TypeInv, Types
  <1>2. CASE Accepts(work.to)
    <2> DEFINE a == work.to
               m == work.msg
    <2>1. Done /\ inbox' = [inbox EXCEPT ![a] = Append(@, m)]
      BY <1>2 DEF Deliver, Queued
    <2>2. Boxes!Leaves(m) /\ Boxes!Reaches(m, a) /\ m \in OnItsWay
      BY <1>1, <2>1, HandLeaves, HandIsFirst
    <2>3. a \in Agent /\ Boxes!Free(a)
      BY <1>2, RoomIsCounted DEF Accepts, TypeInv, Types
    <2>4. \A l \in Range(inbox[a]) \cup Range(received[a]) : Earlier(l, m)
      BY <1>1, <2>3, LastForAddressee
    <2>5. BoxOf' = [BoxOf EXCEPT ![a] = @ \cup {m}]
      <3>1. inbox \in [Agent -> Seq(Msg)] /\ m \in Msg /\ inbox[a] \in Seq(Msg)
        BY <1>1, <2>3, WorkTypes DEF TypeInv, Types
      <3>2. Range(Append(inbox[a], m)) = Range(inbox[a]) \cup {m}
        BY <3>1, AppendRange
      <3>3. \A b \in Agent : inbox'[b] = IF b = a THEN Append(inbox[a], m)
                                         ELSE inbox[b]
        BY <2>1, <3>1
      <3>4. \A b \in Agent : Range(inbox'[b]) =
                IF b = a THEN Range(inbox[a]) \cup {m} ELSE Range(inbox[b])
        BY <3>2, <3>3
      <3> HIDE DEF a, m
      <3>5. QED  BY <2>3, <3>4 DEF BoxOf
    <2> HIDE DEF a, m
    <2>6. \A l \in BoxOf[a] \cup FetchedBy[a] : Boxes!Earlier(l, m)
      BY <2>3, <2>4 DEF BoxOf, FetchedBy, Boxes!Earlier, Earlier
    <2>7. Boxes!Deliver(m, a)
      BY <1>1, <2>2, <2>3, <2>5, <2>6
         DEF Boxes!Deliver, Boxes!sending, Boxes!ends, BoxOf, FetchedBy
    <2>8. QED  BY <2>2, <2>3, <2>7 DEF Boxes!Next, OnItsWay
  <1>3. CASE ~Accepts(work.to)
    <2>1. work' = [work EXCEPT !.at = "bury"] /\ inbox' = inbox
      BY <1>3 DEF Deliver
    <2>2. /\ work'.at = "bury" /\ work'.msg = work.msg /\ work'.to = work.to
          /\ work'.todo = work.todo
      BY <1>1, <2>1, WorkMoves
    <2>3. InHand' = InHand /\ Unserved' = Unserved
      BY <1>1, <2>2 DEF InHand, Unserved
    <2>4. QED  BY <1>1, <2>1, <2>3 DEF Boxes!vars
  <1>4. QED  BY <1>2, <1>3

\* A dead letter joins those there were, or those that made room.
LEMMA LettersGrow ==
    ASSUME TypeInv, PlaceInv, NEW m \in Msg, m \notin Range(dead),
           AddDeadLetter(m)
    PROVE  Range(dead') \cup evicted' = (Range(dead) \cup evicted) \cup {m}
  <1>1. \A i, j \in DOMAIN dead : i # j => dead[i] # dead[j]
    BY DEF PlaceInv
  <1>2. PICK X \in SUBSET Range(dead) :
           /\ Range(dead') = (Range(dead) \cup {m}) \ X
           /\ evicted' = evicted \cup X
    BY <1>1, DeadLetterAdded
  <1>3. QED  BY <1>2

LEMMA BuryImplementsMailboxes ==
    ASSUME TypeInv, PlaceInv, OrderInv, MailInv, Types', Bury
    PROVE  Boxes!Next
  <1> USE DEF callers, agents, letters, history
  <1> DEFINE a == work.to
             m == work.msg
  <1>1. /\ Sent' = Sent /\ work.at = "bury" /\ Done
        /\ UNCHANGED <<up, issued, asked, pending, registered, inbox,
                       subscribers, copied, received, aged, gone>>
        /\ cleanup'.expired = cleanup.expired
    BY InsideIsQuiet DEF Inside, Quiet, Bury, Burying
  <1>2. /\ Boxes!Leaves(m) /\ Boxes!Reaches(m, a) /\ m \in OnItsWay
        /\ a \in Agent \cup {"system"}
    BY <1>1, HandLeaves, HandIsFirst
  <1>3. ~Boxes!Free(a)
    BY <1>1, RoomIsCounted DEF MailInv, HandlingInv
  <1>4. m \in Msg /\ m \notin Range(dead)
    <2>1. 2 \in 1 .. 8 /\ 6 \in 1 .. 8
      OBVIOUS
    <2>2. Places[2] \cap Places[6] = {} /\ InHand = {m}
      BY <1>1, <2>1, OnceIsDisjoint DEF PlaceInv, InHand
    <2>3. m \notin Range(dead)
      BY <2>2, PlacesAre
    <2>4. work \in Works
      BY DEF TypeInv, Types
    <2>5. QED  BY <2>3, <2>4, WorkTypes
  <1>5. Range(dead') \cup evicted' = (Range(dead) \cup evicted) \cup {m}
    BY <1>4, LettersGrow DEF Bury
  <1> HIDE DEF a, m
  <1>6. Boxes!Refuse(m, a)
    BY <1>1, <1>2, <1>3, <1>5 DEF Boxes!Refuse, Boxes!sending
  <1>7. QED  BY <1>2, <1>6 DEF Boxes!Next, OnItsWay

LEMMA AnswerImplementsMailboxes ==
    ASSUME TypeInv, PlaceInv, OrderInv, MailInv, Types', Answer
    PROVE  Boxes!Next \/ UNCHANGED Boxes!vars
  <1> USE DEF callers, agents, letters, history
  <1> DEFINE m == work.msg
             id == issued[m[1]].id
  <1>1. /\ Sent' = Sent /\ work.at = "answer" /\ work \in Works
        /\ UNCHANGED <<up, issued, asked, registered, inbox, subscribers,
                       copied, received, aged, dead, evicted>>
        /\ cleanup'.expired = cleanup.expired
    BY InsideIsQuiet DEF Inside, Quiet, Answer, TypeInv, Types
  <1>2. CASE id \in pending
    <2>1. /\ Done /\ pending' = pending \ {id} /\ gone' = gone \cup {m}
      BY <1>2 DEF Answer
    <2>2. /\ Boxes!Leaves(m) /\ m \in OnItsWay
          /\ Unserved = <<>> /\ Unserved' = <<>>
      BY <1>1, <2>1, HandLeaves, HandIsFirst
    <2>3. KindOf(m) = "response"
      BY <1>1 DEF MailInv, HandlingInv
    <2> HIDE DEF m
    <2>4. Boxes!Answer(m)
      BY <1>1, <1>2, <2>1, <2>2, <2>3
         DEF Boxes!Answer, Boxes!Kind, KindOf, Boxes!sending
    <2>5. QED  BY <2>2, <2>4 DEF Boxes!Next, OnItsWay
  <1>3. CASE id \notin pending
    <2>1. /\ work' = [work EXCEPT !.at = "deliver"]
          /\ UNCHANGED <<pending, gone>>
      BY <1>3 DEF Answer
    <2>2. /\ work'.at = "deliver" /\ work'.msg = work.msg /\ work'.to = work.to
          /\ work'.todo = work.todo
      BY <1>1, <2>1, WorkMoves
    <2>3. InHand' = InHand /\ Unserved' = Unserved
      BY <1>1, <2>2 DEF InHand, Unserved
    <2>4. QED  BY <1>1, <2>1, <2>3 DEF Boxes!vars
  <1>4. QED  BY <1>2, <1>3

\* While the event loop has nothing in hand, no subscriber is left.
LEMMA IdleLeavesNone ==
    ASSUME MailInv, work.at \in {"idle", "prune", "stopped"}
    PROVE  InHand = {} /\ Unserved = <<>> /\ work.todo = <<>>
  BY DEF MailInv, HandlingInv, InHand, Unserved

LEMMA TakeMessageImplementsMailboxes ==
    ASSUME TypeInv, PlaceInv, OrderInv, MailInv, Types', TakeMessage
    PROVE  Boxes!Next \/ UNCHANGED Boxes!vars
  <1> USE DEF callers, agents, letters, history
  <1> DEFINE m == Head(events).msg
  <1>1. /\ UNCHANGED <<up, issued, asked, pending, registered, inbox,
                       subscribers, copied, received, aged, dead, evicted>>
        /\ cleanup'.expired = cleanup.expired
    BY DEF TakeMessage
  <1>2. /\ m \in Sent /\ Sent' = Sent \ {m} /\ \A s \in Sent' : m[1] < s[1]
        /\ work.at = "idle"
    BY TakeMessageChannel DEF TakesMessage
  <1>3. InHand = {} /\ Unserved = <<>>
    BY <1>2, IdleLeavesNone
  <1>4. m[2] = 0
    BY <1>2, MessageTypes
  <1>5. CASE KindOf(m) = "publish"
    <2>1. /\ work' = IF subscribers = <<>> THEN Idle
                     ELSE [at |-> "copy", msg |-> m, to |-> "topic",
                           todo |-> subscribers]
          /\ gone' = gone \cup {m}
      BY <1>5 DEF TakeMessage, KindOf
    <2> HIDE DEF m
    <2>2. work'.at \in {"idle", "copy"} /\ work'.todo = subscribers
      BY <2>1, RecordTypes
    <2>3. InHand' = {} /\ Unserved' = subscribers
      BY <2>2 DEF InHand, Unserved
    <2>4. Boxes!Leaves(m)
      BY <1>2, <1>3, <2>3 DEF Boxes!Leaves, Boxes!Earlier
    <2>5. Boxes!Publish(m)
      BY <1>1, <1>3, <1>4, <1>5, <2>1, <2>3, <2>4
         DEF Boxes!Publish, Boxes!IsCopy, Boxes!Kind, KindOf, Boxes!sending
    <2>6. QED  BY <1>2, <2>5 DEF Boxes!Next
  <1>6. CASE KindOf(m) # "publish"
    <2>1. \E at \in {"answer", "deliver"} : \E to :
             work' = [at |-> at, msg |-> m, to |-> to, todo |-> <<>>]
      BY <1>6 DEF TakeMessage, KindOf, Handle
    <2>2. gone' = gone
      BY <1>6 DEF TakeMessage, KindOf
    <2> HIDE DEF m
    <2>3. /\ work'.at \in {"answer", "deliver"} /\ work'.msg = m
          /\ work'.todo = <<>>
      BY <2>1
    <2>4. InHand' = {m} /\ Unserved' = <<>>
      BY <1>4, <2>3 DEF InHand, Unserved
    <2>5. Sent' \cup InHand' = Sent \cup InHand
      BY <1>2, <1>3, <2>4
    <2>6. QED  BY <1>1, <1>3, <2>2, <2>4, <2>5 DEF Boxes!vars
  <1>7. QED  BY <1>5, <1>6

LEMMA CopyImplementsMailboxes ==
    ASSUME TypeInv, PlaceInv, OrderInv, MailInv, Types', Copy
    PROVE  Boxes!Next
  <1> USE DEF callers, agents, letters, history
  <1> DEFINE c == <<work.msg[1], work.msg[2] + 1>>
  <1>1. /\ Sent' = Sent /\ work.at = "copy" /\ work \in Works
        /\ UNCHANGED <<up, issued, asked, pending, registered, inbox,
                       subscribers, received, aged, dead, evicted, gone>>
        /\ cleanup'.expired = cleanup.expired
        /\ copied' = copied \cup {c}
        /\ work' = [at |-> "deliver", msg |-> c, to |-> Head(work.todo),
                    todo |-> Tail(work.todo)]
    BY InsideIsQuiet DEF Inside, Quiet, Copy, Handle, TypeInv, Types
  <1>2. /\ work.msg \in Taken
        /\ \A m \in Taken : m = work.msg \/ Earlier(m, work.msg)
    BY <1>1 DEF OrderInv, HasMessage
  <1>3. work.msg[1] \in Nat /\ work.msg[2] \in Nat
    BY <1>1, WorkTypes, RecordTypes
  <1>4. c[1] = work.msg[1] /\ c[2] = work.msg[2] + 1 /\ c[2] > 0
    BY <1>3
  <1>5. c \notin copied
    <2>1. \A m \in copied : m \in Taken
      <3>1. \A m \in copied : m[2] > 0 /\ m \in Messages
        BY DEF TypeInv, LoopInv, Messages
      <3>2. \A m \in Sent : m[2] = 0
        BY MessageTypes
      <3>3. ~(0 > 0)
        OBVIOUS
      <3>4. QED  BY <3>1, <3>2, <3>3 DEF Taken
    <2>2. ~(c = work.msg \/ Earlier(c, work.msg))
      BY <1>3, <1>4 DEF Earlier
    <2>3. QED  BY <1>2, <2>1, <2>2
  <1>6. work.todo \in Seq(Agent) /\ work.todo # <<>>
    BY <1>1, WorkTypes DEF TypeInv, LoopInv
  <1>7. KindOf(work.msg) = "publish" /\ <<work.msg[1], 0>> \in gone
    BY <1>1 DEF MailInv, HandlingInv
  <1>8. \A l \in Sent : l[2] = 0 /\ c[1] < l[1]
    BY <1>2, <1>4, MessageTypes DEF OrderInv
  <1> HIDE DEF c
  <1>9. /\ InHand = {} /\ Unserved = work.todo /\ InHand' = {c}
        /\ Unserved' = work.todo
    <2>1. /\ work'.at = "deliver" /\ work'.msg = c
          /\ work'.to = Head(work.todo) /\ work'.todo = Tail(work.todo)
      BY <1>1
    <2>2. InHand = {} /\ InHand' = {c}
      BY <1>1, <2>1 DEF InHand
    <2>3. \A s \in Seq(Agent) : s # <<>> => <<Head(s)>> \o Tail(s) = s
      OBVIOUS
    <2>4. QED  BY <1>4, <1>6, <2>1, <2>2, <2>3 DEF Unserved
  <1>10. Boxes!Copy(c)
    <2>1. Boxes!Kind(c) = "publish" /\ Boxes!IsCopy(c)
      BY <1>4, <1>7 DEF Boxes!Kind, Boxes!IsCopy, KindOf
    <2>2. \A l \in Sent \cup InHand : ~Boxes!IsCopy(l) /\ Boxes!Earlier(c, l)
      BY <1>8, <1>9 DEF Boxes!Earlier, Boxes!IsCopy
    <2>3. <<c[1], 0>> \in gone
      BY <1>4, <1>7
    <2>4. Sent' \cup InHand' = (Sent \cup InHand) \cup {c}
      BY <1>1, <1>9
    <2>5. QED
      BY <1>1, <1>5, <1>6, <1>9, <2>1, <2>2, <2>3, <2>4
         DEF Boxes!Copy, Boxes!sending, Boxes!ends
  <1>11. c \in copied'
    BY <1>1
  <1>12. QED  BY <1>10, <1>11 DEF Boxes!Next

LEMMA ChangeInboxImplementsMailboxes ==
    ASSUME TypeInv, MailInv, Types', ChangeInbox \/ Prune
    PROVE  Boxes!Next \/ UNCHANGED Boxes!vars
  <1> USE DEF callers, agents, letters, history
  <1>1. /\ Sent' = Sent
        /\ UNCHANGED <<up, issued, asked, pending, copied, received, aged,
                       dead, evicted>>
        /\ cleanup'.expired = cleanup.expired
    BY ChangeInboxChannel, InsideIsQuiet
       DEF Inside, Quiet, ChangeInbox, Prune
  <1>2. /\ work.at \in {"idle", "prune"}
        /\ work'.at \in {"idle", "prune"} /\ work'.todo = <<>>
    <2>1. CASE Prune
      BY <2>1, RecordTypes DEF Prune
    <2>2. CASE ChangeInbox
      <3>1. work.at = "idle" /\ work.todo = <<>>
        BY <2>2, IdleLeavesNone DEF ChangeInbox, Takes
      <3>2. \/ work' = work
            \/ work' = [at |-> "prune", msg |-> None,
                        to |-> Head(events).agent, todo |-> <<>>]
        BY <2>2 DEF ChangeInbox, Handle
      <3>3. QED  BY <3>1, <3>2
    <2>3. QED  BY <2>1, <2>2
  <1>3. /\ InHand = {} /\ Unserved = <<>>
        /\ InHand' = {} /\ Unserved' = <<>>
    BY <1>2, IdleLeavesNone DEF InHand, Unserved
  <1>4. CASE ChangeInbox
    <2> DEFINE a == Head(events).agent
    <2>1. /\ a \in Agent /\ inbox' = [inbox EXCEPT ![a] = <<>>]
          /\ gone' = gone \cup Range(inbox[a]) /\ subscribers' = subscribers
          /\ registered' \in {registered \cup {a}, registered \ {a}}
      BY <1>4, ChangeInboxChannel DEF ChangeInbox
    <2> HIDE DEF a
    <2>2. BoxOf' = [BoxOf EXCEPT ![a] = {}] /\ BoxOf[a] = Range(inbox[a])
      <3>1. \A b \in Agent : inbox'[b] = IF b = a THEN <<>> ELSE inbox[b]
        BY <2>1 DEF TypeInv, Types
      <3>2. \A b \in Agent : Range(inbox'[b]) = IF b = a THEN {}
                                                ELSE Range(inbox[b])
        BY <3>1, EmptySorted
      <3>3. QED  BY <2>1, <3>2 DEF BoxOf
    <2>3. Boxes!Rebox(a)
      BY <1>1, <1>3, <2>1, <2>2 DEF Boxes!Rebox, Boxes!sending, BoxOf
    <2>4. QED  BY <2>1, <2>3 DEF Boxes!Next
  <1>5. CASE Prune
    <2>1. UNCHANGED <<registered, inbox, gone>>
      BY <1>5 DEF Prune
    <2>2. CASE subscribers' = subscribers
      BY <1>1, <1>3, <2>1, <2>2 DEF Boxes!vars
    <2>3. CASE subscribers' # subscribers
      <3>1. Boxes!Subscribe
        BY <1>1, <1>3, <2>1, <2>3 DEF Boxes!Subscribe, Boxes!ends
      <3>2. QED  BY <3>1 DEF Boxes!Next
    <2>4. QED  BY <2>2, <2>3
  <1>6. QED  BY <1>4, <1>5

LEMMA ReceiveImplementsMailboxes ==
    ASSUME TypeInv, Types', NEW a \in Agent, Receive(a)
    PROVE  Boxes!Next
  <1> USE DEF callers, agents, letters, history
  <1>1. /\ Sent' = Sent /\ a \in registered
        /\ UNCHANGED <<up, work, issued, asked, pending, registered,
                       subscribers, copied, aged, dead, evicted, gone>>
        /\ cleanup'.expired = cleanup.expired
        /\ inbox' = [inbox EXCEPT ![a] = <<>>]
        /\ received' = [received EXCEPT ![a] = @ \o inbox[a]]
    BY InsideIsQuiet DEF Inside, Quiet, Receive
  <1>2. UNCHANGED <<InHand, Unserved>>
    BY <1>1 DEF InHand, Unserved
  <1>3. inbox \in [Agent -> Seq(Msg)] /\ received \in [Agent -> Seq(Msg)]
    BY DEF TypeInv, Types
  <1>4. /\ \A b \in Agent : inbox'[b] = IF b = a THEN <<>> ELSE inbox[b]
        /\ \A b \in Agent : received'[b] =
              IF b = a THEN received[a] \o inbox[a] ELSE received[b]
    BY <1>1, <1>3
  <1>5. Range(received[a] \o inbox[a])
            = Range(received[a]) \cup Range(inbox[a])
    BY <1>3, ConcatSorted
  <1>6. BoxOf' = [BoxOf EXCEPT ![a] = {}]
    BY <1>4, EmptySorted DEF BoxOf
  <1>7. FetchedBy' = [FetchedBy EXCEPT ![a] = @ \cup BoxOf[a]]
    <2>1. \A b \in Agent : Range(received'[b]) =
              IF b = a THEN Range(received[a]) \cup Range(inbox[a])
              ELSE Range(received[b])
      BY <1>4, <1>5
    <2>2. BoxOf[a] = Range(inbox[a])
      BY DEF BoxOf
    <2>3. QED  BY <2>1, <2>2 DEF FetchedBy
  <1>8. Boxes!Fetch(a)
    BY <1>1, <1>2, <1>6, <1>7
       DEF Boxes!Fetch, Boxes!sending, Boxes!ends, BoxOf, FetchedBy
  <1>9. QED  BY <1>8 DEF Boxes!Next

LEMMA CleanupImplementsMailboxes ==
    ASSUME TypeInv, PlaceInv, Types', RemoveExpired \/ MoveExpired \/ Forget
    PROVE  Boxes!Next \/ UNCHANGED Boxes!vars
  <1> USE DEF callers, agents, letters, history
  <1>1. /\ Sent' = Sent
        /\ UNCHANGED <<up, work, issued, asked, pending, registered,
                       subscribers, copied, received, aged, gone>>
    BY InsideIsQuiet DEF Inside, Quiet, RemoveExpired, MoveExpired, Forget
  <1>2. UNCHANGED <<InHand, Unserved>>
    BY <1>1 DEF InHand, Unserved
  <1>3. cleanup \in Cleanups
    BY DEF TypeInv, Types
  <1>4. CASE RemoveExpired
    <2>1. /\ inbox' = [a \in Agent |-> Retain(inbox[a], aged)]
          /\ cleanup' = [at |-> "lock", expired |-> InInboxes \cap aged]
          /\ cleanup.expired = {} /\ UNCHANGED <<dead, evicted>>
      BY <1>4 DEF RemoveExpired, TypeInv, LoopInv
    <2>2. BoxOf' = [a \in Agent |-> BoxOf[a] \ aged]
      <3>1. \A a \in Agent : Range(inbox'[a]) = Range(inbox[a]) \ aged
        BY <2>1, RetainKeeps DEF TypeInv, Types
      <3>2. QED  BY <3>1 DEF BoxOf
    <2>3. cleanup'.expired = cleanup.expired
                             \cup UNION {BoxOf[a] \cap aged : a \in Agent}
      <3>1. cleanup'.expired = InInboxes \cap aged
        BY <2>1
      <3>2. \A a \in Agent : BoxOf[a] = Range(inbox[a])
        BY DEF BoxOf
      <3>3. InInboxes \cap aged = UNION {BoxOf[a] \cap aged : a \in Agent}
        BY <3>2 DEF InInboxes
      <3>4. QED  BY <2>1, <3>1, <3>3
    <2>4. Boxes!Expire
      BY <1>1, <1>2, <2>1, <2>2, <2>3 DEF Boxes!Expire, Boxes!sending, BoxOf
    <2>5. QED  BY <2>4 DEF Boxes!Next
  <1>5. CASE MoveExpired
    <2>1. PICK m \in cleanup.expired :
             /\ AddDeadLetter(m)
             /\ cleanup' = [cleanup EXCEPT !.expired = @ \ {m}]
      BY <1>5 DEF MoveExpired
    <2>2. inbox' = inbox
      BY <1>5 DEF MoveExpired
    <2>3. cleanup'.expired = cleanup.expired \ {m} /\ m \in Msg
      BY <1>3, <2>1, CleanupTypes
    <2>4. m \notin Range(dead)
      <3>1. 4 \in 1 .. 8 /\ 6 \in 1 .. 8
        OBVIOUS
      <3>2. Places[4] \cap Places[6] = {}
        BY <3>1, OnceIsDisjoint DEF PlaceInv
      <3>3. QED  BY <2>1, <3>2, PlacesAre
    <2>5. Range(dead') \cup evicted' = (Range(dead) \cup evicted) \cup {m}
      BY <2>1, <2>3, <2>4, LettersGrow
    <2>6. Boxes!Bury(m)
      BY <1>1, <1>2, <2>1, <2>2, <2>3, <2>5 DEF Boxes!Bury, Boxes!sending
    <2>7. QED  BY <2>1, <2>6 DEF Boxes!Next
  <1>6. CASE Forget
    <2>1. UNCHANGED <<inbox, dead, evicted>>
          /\ cleanup' = [cleanup EXCEPT !.at = "idle"]
      BY <1>6 DEF Forget
    <2>2. cleanup'.expired = cleanup.expired
      BY <1>3, <2>1, CleanupTypes
    <2>3. QED  BY <1>1, <1>2, <2>1, <2>2 DEF Boxes!vars
  <1>7. QED  BY <1>4, <1>5, <1>6

LEMMA ShutdownImplementsMailboxes ==
    ASSUME TypeInv, MailInv, Types', BeginShutdown
    PROVE  Boxes!Next
  <1> USE DEF callers, agents, letters, history
  <1>1. /\ up /\ up' = FALSE
        /\ UNCHANGED <<issued, asked, pending, registered, inbox, subscribers,
                       cleanup, copied, received, aged, dead, evicted>>
    BY DEF BeginShutdown
  <1>2. CASE UNCHANGED <<work, events, gone>>
    <2>1. UNCHANGED <<Sent, InHand, Unserved>>
      BY <1>2 DEF Sent, InHand, Unserved
    <2>2. Boxes!Close
      BY <1>1, <1>2, <2>1 DEF Boxes!Close
    <2>3. QED  BY <2>2 DEF Boxes!Next
  <1>3. CASE /\ work.at = "idle" /\ work' = [Idle EXCEPT !.at = "stopped"]
             /\ events' = <<>> /\ gone' = gone \cup Sent
    <2>1. Sent' = {} /\ InHand = {} /\ Unserved = <<>>
      <3>1. DOMAIN events' = {}
        BY <1>3
      <3>2. QED  BY <1>3, <3>1, IdleLeavesNone DEF Sent
    <2>2. InHand' = {} /\ Unserved' = <<>>
      <3>1. work'.at = "stopped" /\ work'.todo = <<>>
        BY <1>3 DEF Idle
      <3>2. QED  BY <3>1 DEF InHand, Unserved
    <2>3. Boxes!Close
      BY <1>1, <1>3, <2>1, <2>2 DEF Boxes!Close
    <2>4. QED  BY <2>3 DEF Boxes!Next
  <1>4. QED  BY <1>2, <1>3 DEF BeginShutdown

LEMMA StepImplementsMailboxes ==
    ASSUME IInv, MailInv, [Next]_vars
    PROVE  [Boxes!Next]_(Boxes!vars)
  <1>1. /\ TypeInv /\ PlaceInv /\ OrderInv /\ RequestInv /\ KindInv
        /\ Next \/ UNCHANGED vars
    BY DEF IInv, MailInv
  <1>2. Types'
    BY <1>1, TypesStep
  <1>3. CASE Calling \/ Outside \/ \E a \in Agent : Receive(a)
    BY <1>1, <1>2, <1>3, CallersImplementMailboxes, OutsideImplementsMailboxes,
       ReceiveImplementsMailboxes
  <1>4. CASE TakeMessage \/ Answer \/ Copy \/ Deliver \/ Bury
    BY <1>1, <1>2, <1>4, TakeMessageImplementsMailboxes,
       AnswerImplementsMailboxes, CopyImplementsMailboxes,
       DeliverImplementsMailboxes, BuryImplementsMailboxes
  <1>5. CASE \/ ChangeInbox \/ Prune \/ RemoveExpired \/ MoveExpired \/ Forget
             \/ BeginShutdown
    BY <1>1, <1>2, <1>5, ChangeInboxImplementsMailboxes,
       CleanupImplementsMailboxes, ShutdownImplementsMailboxes
  <1>6. QED  BY <1>1, <1>3, <1>4, <1>5, NextIs

\* However the event loop, the cleanup loop, a shutdown and the callers
\* interleave, a message goes into the box of its addressee behind all that
\* ever came there, or becomes a dead letter because there was no room or it
\* got too old; a publication reaches its subscribers one after the other
\* before the next message is taken up; and a request is answered once
\* (mod.rs:259-447, 553-622, 690-742).
THEOREM BusImplementsMailboxes == Spec => ImplementsMailboxes
  <1>1. Init => Boxes!Init
    <2> SUFFICES ASSUME Init PROVE Boxes!Init
      OBVIOUS
    <2>1. /\ Sent = {} /\ InHand = {} /\ Unserved = <<>> /\ Range(dead) = {}
      <3>1. DOMAIN events = {}
        BY DEF Init
      <3>2. QED
        BY <3>1, RecordTypes, EmptySorted DEF Init, Sent, InHand, Unserved
    <2>2. BoxOf = [a \in Agent |-> {}] /\ FetchedBy = [a \in Agent |-> {}]
      BY EmptySorted DEF Init, BoxOf, FetchedBy
    <2>3. QED
      BY <2>1, <2>2, BusAssumption DEF Init, Boxes!Init, BoxOf, FetchedBy
  <1>2. IInv /\ MailInv /\ [Next]_vars => MailInv' /\ [Boxes!Next]_(Boxes!vars)
    BY MailStep, StepImplementsMailboxes
  <1>3. QED
    BY <1>1, <1>2, InitMail, Invariance, PTL
       DEF Spec, ImplementsMailboxes, Boxes!Spec
=============================================================================
