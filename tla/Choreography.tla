---------------------------- MODULE Choreography ----------------------------
(***************************************************************************)
(* The meaning of a global type: which messages it allows next, and what   *)
(* is left of it when one was exchanged.  Messages with no role in common  *)
(* with those before them in the tree may come first, as the roles do not  *)
(* see each other's order.                                                 *)
(*                                                                         *)
(* The trees are recursive, so this module and those above it are for TLC. *)
(***************************************************************************)
EXTENDS GlobalType

RECURSIVE Subst(_, _, _)
Subst(g, x, by) ==
    CASE g.kind = "end" -> g
      [] g.kind = "var" -> IF g.var = x THEN by ELSE g
      [] g.kind = "rec" -> IF g.var = x THEN g
                           ELSE [g EXCEPT !.body = Subst(@, x, by)]
      [] OTHER -> [g EXCEPT !.next = [l \in DOMAIN g.next |-> Subst(g.next[l], x, by)]]

Unfold(g) == Subst(g.body, g.var, g)

\* The messages that may be exchanged next by roles that are not `busy`, that
\* is, not named by an exchange still to come before.
RECURSIVE Offers(_, _)
Offers(g, busy) ==
    IF RolesIn(g) \subseteq busy THEN {}
    ELSE IF g.kind = "rec" THEN Offers(Unfold(g), busy)
    ELSE LET ends == {g.from, g.to}
             later == {Offers(g.next[l], busy \union ends) : l \in DOMAIN g.next}
             now == IF ends \intersect busy = {} THEN DOMAIN g.next ELSE {}
         IN  [from : {g.from}, to : {g.to}, label : now] \union
             {m \in UNION later : \A offers \in later : m \in offers}

\* Left by a message that the protocol does not offer.
OffProtocol == [kind |-> "off"]

RECURSIVE After(_, _)
After(g, m) ==
    IF IsExchange(g) THEN
        IF {m.from, m.to} \intersect {g.from, g.to} = {}
        THEN [g EXCEPT !.next = [l \in DOMAIN g.next |-> After(g.next[l], m)]]
        ELSE IF g.from = m.from /\ g.to = m.to /\ m.label \in DOMAIN g.next
        THEN g.next[m.label]
        ELSE OffProtocol
    ELSE IF g.kind = "rec" /\ {m.from, m.to} \subseteq RolesIn(g)
    THEN After(Unfold(g), m)
    ELSE OffProtocol

RECURSIVE Ended(_)
Ended(g) == g.kind = "end" \/ (g.kind = "rec" /\ Ended(g.body))

=============================================================================
