---------------------------- MODULE SessionTypes ----------------------------
(***************************************************************************)
(* The compiler of symbi-session: the projection of a global protocol onto *)
(* a role (project.rs), the machine built from a local type (fsm.rs) and   *)
(* the well-formedness check (wellformed.rs).                              *)
(*                                                                         *)
(* The branches of a choice are the order of its labels and a function of  *)
(* them: two choices are equal when their branches come in one order.  A   *)
(* protocol with two branches of one label, which no check of the code     *)
(* refuses, is left out.                                                   *)
(***************************************************************************)
EXTENDS GlobalType, SequencesExt

Unmergeable == [kind |-> "unmergeable"]

Local(kind, peer, order, next) ==
    [kind |-> kind, peer |-> peer, order |-> order, next |-> next]

\* An error in any part is the error of the whole, by `?`.
OrUnmergeable(l, parts) ==
    IF Unmergeable \in parts THEN Unmergeable ELSE l

ImageOf(f) == {f[x] : x \in DOMAIN f}

-----------------------------------------------------------------------------
(* Projection *)

RECURSIVE Merge(_, _)
\* Faulty variant: the labels of the first view are kept, those that only the
\* second has are lost.
MergeFirst(a, b) ==
    CASE a = b -> a
      [] /\ a # b
         /\ a.kind = "branch" /\ b.kind = "branch" /\ a.peer = b.peer -> a
      [] OTHER -> Unmergeable

\* Two views of a choice that the role does not see: equal, or external
\* choices of one peer, whose labels are joined, those of the first before.
Merge(a, b) ==
    CASE a = b -> a
      [] /\ a # b
         /\ a.kind = "branch" /\ b.kind = "branch" /\ a.peer = b.peer ->
         LET shared == DOMAIN a.next \intersect DOMAIN b.next
             Added(l) == l \notin DOMAIN a.next
             order == a.order \o SelectSeq(b.order, Added)
             joined == [l \in DOMAIN a.next \union DOMAIN b.next |->
                           IF l \in shared THEN Merge(a.next[l], b.next[l])
                           ELSE IF l \in DOMAIN a.next THEN a.next[l]
                           ELSE b.next[l]]
         IN  OrUnmergeable(Local("branch", a.peer, order, joined),
                          ImageOf(joined))
      [] OTHER -> Unmergeable

\* A choice without branches is an error, and so is an error among the views.
MergeAll(views) ==
    IF views = <<>> \/ Unmergeable \in ToSet(views) THEN Unmergeable
    ELSE FoldLeft(Merge, Head(views), Tail(views))

RECURSIVE Project(_, _)
Project(g, r) ==
    CASE g.kind \in {"end", "var"} -> g
      [] g.kind = "rec" ->
         LET body == Project(g.body, r)
         IN  OrUnmergeable([g EXCEPT !.body = body], {body})
      [] OTHER ->
         LET view == [l \in DOMAIN g.next |-> Project(g.next[l], r)]
             as(kind, peer) == OrUnmergeable(Local(kind, peer, g.order, view),
                                            ImageOf(view))
             single == g.kind = "message"
         IN  IF r = g.from THEN as(IF single THEN "send" ELSE "select", g.to)
             ELSE IF r = g.to THEN as(IF single THEN "recv" ELSE "branch", g.from)
             ELSE MergeAll([i \in DOMAIN g.order |-> view[g.order[i]]])

-----------------------------------------------------------------------------
(* The machine of a local type *)

\* States are the places of a sequence; `moves` takes an event to a state.
Dead(accepting) == [moves |-> <<>>, accepting |-> accepting]

Direction(l) == IF l.kind \in {"send", "select"} THEN "send" ELSE "recv"

RECURSIVE Build(_, _, _)
\* The states built for `l` after `states`, with `scope` the state of each
\* binder around it, and the entry.
Build(l, scope, states) ==
    LET fresh == Len(states) + 1 IN
    CASE l.kind = "end" ->
         [states |-> Append(states, Dead(TRUE)), entry |-> fresh]
      [] l.kind = "var" ->
         IF l.var \in DOMAIN scope THEN [states |-> states, entry |-> scope[l.var]]
         ELSE [states |-> Append(states, Dead(TRUE)), entry |-> fresh]
      [] l.kind = "rec" ->
         LET body == Build(l.body, (l.var :> fresh) @@ scope,
                           Append(states, Dead(FALSE)))
         IN  [states |-> [body.states EXCEPT ![fresh] = body.states[body.entry]],
              entry |-> fresh]
      [] OTHER ->
         LET Child(acc, label) ==
                 LET built == Build(l.next[label], scope, acc.states)
                     event == [dir |-> Direction(l), peer |-> l.peer, label |-> label]
                 IN  [states |-> built.states,
                      moves |-> acc.moves @@ (event :> built.entry)]
             all == FoldLeft(Child, [states |-> Append(states, Dead(FALSE)),
                                     moves |-> <<>>], l.order)
         IN  [states |-> [all.states EXCEPT ![fresh].moves = all.moves],
              entry |-> fresh]

Machine(l) == Build(l, <<>>, <<>>)

\* Faulty variant: the event is matched by direction and peer, not by label.
StepOfPeer(machine, s, e, illegal) ==
    LET like == {f \in DOMAIN machine.states[s].moves :
                     f.dir = e.dir /\ f.peer = e.peer}
    IN  IF like = {} THEN illegal
        ELSE machine.states[s].moves[CHOOSE f \in like : TRUE]

StepOf(machine, s, e, illegal) ==
    IF e \in DOMAIN machine.states[s].moves THEN machine.states[s].moves[e]
    ELSE illegal

-----------------------------------------------------------------------------
(* Well-formedness *)

RECURSIVE Reaches(_, _, _)
\* `x` is reached with no exchange in between, behind binders of variables
\* that are all different.
Reaches(g, x, seen) ==
    \/ g.kind = "var" /\ g.var = x
    \/ /\ g.kind = "rec" /\ g.var \notin {x} \union seen
       /\ Reaches(g.body, x, seen \union {g.var})

RECURSIVE Guarded(_, _)
Guarded(g, bound) ==
    CASE g.kind = "end" -> TRUE
      [] g.kind = "var" -> g.var \in bound
      [] g.kind = "rec" -> /\ ~Reaches(g.body, g.var, {})
                           /\ Guarded(g.body, bound \union {g.var})
      [] OTHER -> \A l \in DOMAIN g.next : Guarded(g.next[l], bound)

Projectable(g, roles) == \A r \in roles : Project(g, r) # Unmergeable

WellFormed(g, roles) == Projectable(g, roles) /\ Guarded(g, {})

=============================================================================
