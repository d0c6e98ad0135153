----------------------------- MODULE MCSession -----------------------------
EXTENDS MonitoredSession, SessionTypes, Choreography

CONSTANTS A, B, C

Roles == {A, B, C}

Pairs == {<<p, q>> \in Roles \X Roles : p # q}

\* Exchanges of any two roles that go on with the trees of S.
Exchanges(pairs, m, S) ==
    {Message(p[1], p[2], m, g) : p \in pairs, g \in S} \union
    {Choice(p[1], p[2], <<"l", "r">>, "l" :> g @@ "r" :> h) : p \in pairs, g, h \in S}

Leaves(xs) == {End} \union {Var(x) : x \in xs}

\* Up to renaming of the roles, every protocol of at most two exchanges in
\* sequence, with a loop around it or not, that name
\* all roles.
Deep(xs) ==
    Exchanges({<<A, B>>}, "m", Leaves(xs) \union Exchanges(Pairs, "n", Leaves(xs)))

Small == Deep({}) \union {Rec("X", g) : g \in Deep({"X"})}

\* symbi-session/src/examples.rs
Pipeline ==
    Message(A, B, "m", Message(B, A, "n",
        Message(A, C, "m", Message(C, A, "l", End))))

\* A loop in a loop, each turn told to the third role.
Nested ==
    Rec("X", Message(A, B, "m", Rec("Y", Choice(A, B, <<"l", "r">>,
        "l" :> Message(A, C, "l", Var("X")) @@
        "r" :> Message(A, C, "r", Var("Y"))))))

\* C acts in one branch of a choice it does not see.
Unseen ==
    Choice(A, B, <<"l", "r">>,
        "l" :> Message(C, A, "n", End) @@ "r" :> End)

\* C sees the branches as choices of A that list their labels in two orders.
Reordered ==
    LET first == Choice(A, C, <<"l", "r">>, "l" :> End @@ "r" :> End)
        second == Choice(A, C, <<"r", "l">>, "l" :> End @@ "r" :> End)
    IN  Choice(A, B, <<"l", "r">>, "l" :> first @@ "r" :> second)

Family ==
    {g \in Small : RolesIn(g) = Roles /\ WellFormed(g, Roles)} \union
    {Pipeline, Nested, Unseen, Reordered}

\* Named apart so that TLC evaluates the family once.
Protocols == Family

\* A binder whose body is, for C, the jump to the binder around it.
Jump ==
    Rec("X", Message(C, A, "m",
        Rec("Y", Message(A, B, "n", Var("X")))))

Jumps == {Pipeline, Nested, Jump}

-----------------------------------------------------------------------------

Evaluated(f) == f @@ <<>>

\* One table, so that TLC, which evaluates constants in no given order, needs
\* no other to evaluate it.
Machines ==
    Evaluated([p \in Protocol |-> Evaluated([r \in Role |->
        LET view == Project(p, r)
        IN  IF view = Unmergeable THEN Unmergeable ELSE Machine(view)])])

MCProjects(p, r) == Machines[p][r] # Unmergeable
MCStart(p, r) == Machines[p][r].entry
MCStep(p, r, s, e) ==
    IF s \in DOMAIN Machines[p][r].states
    THEN StepOf(Machines[p][r], s, e, NotLegal) ELSE NotLegal
MCAccepting(p, r, s) ==
    s \in DOMAIN Machines[p][r].states /\ Machines[p][r].states[s].accepting
MCRoleOf == [r \in Roles |-> r]
MCState == 1 .. 9
MCOffered(g) == Offers(g, {})
MCMaxCalls(p) == IF p \in {Pipeline, Nested} THEN 6 ELSE 3

\* What a protocol and its machines come to together, one message at a time.
Successors(p, x) ==
    {<<After(x[1], m), Moved(p, x[2], m)>> :
        m \in {n \in MCOffered(x[1]) : Takes(p, x[2], n)}}

RECURSIVE Reached(_, _, _)
Reached(p, new, old) ==
    IF new = {} THEN old
    ELSE LET next == UNION {Successors(p, x) : x \in new}
         IN  Reached(p, next \ (new \union old), new \union old)

MCJoint(p) ==
    Reached(p, {<<p, Evaluated([r \in Role |-> MCStart(p, r)])>>}, {})

=============================================================================
