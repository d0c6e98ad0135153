----------------------------- MODULE GlobalType -----------------------------
(***************************************************************************)
(* The global protocols of symbi-session (global.rs): trees of messages,   *)
(* choices and loops.                                                      *)
(***************************************************************************)
EXTENDS Naturals, TLC

End == [kind |-> "end"]

Var(x) == [kind |-> "var", var |-> x]

Rec(x, body) == [kind |-> "rec", var |-> x, body |-> body]

\* A choice lists its labels in order, with a continuation for each; a message
\* has the only one.
Choice(from, to, order, next) ==
    [kind |-> "choice", from |-> from, to |-> to,
     order |-> order, next |-> next]

Message(from, to, label, g) ==
    [kind |-> "message", from |-> from, to |-> to,
     order |-> <<label>>, next |-> label :> g]

IsExchange(g) == g.kind \in {"message", "choice"}

RECURSIVE RolesIn(_)
RolesIn(g) ==
    CASE g.kind = "rec" -> RolesIn(g.body)
      [] IsExchange(g) -> {g.from, g.to} \union
                          UNION {RolesIn(g.next[l]) : l \in DOMAIN g.next}
      [] OTHER -> {}

=============================================================================
