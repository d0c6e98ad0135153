---------------------------- MODULE ContextWindow ----------------------------
(* The conversation of a reasoning loop and the context managers that cut it *)
(* to a token budget before each inference (reasoning/conversation.rs and    *)
(* reasoning/context_manager.rs).  A message is its role, the tool calls it  *)
(* issues, the tool call it answers and its estimated size; texts are left   *)
(* out.  Sizes are abstract units, not characters.                           *)
EXTENDS Integers, Sequences, FiniteSets, FiniteSetsExt, SequencesExt

CONSTANTS
    Strategy,        \* ContextStrategy of the loop's context manager
    recent_count     \* AnchoredSummary::recent_count

Strategies == {"SlidingWindow", "ObservationMasking", "AnchoredSummary"}

ASSUME StrategyAssumption ==
    /\ Strategy \in Strategies
    /\ recent_count \in Nat

\* The id field of a message that answers no tool call.
NoCall == <<0, 0>>

Plain(role) == [role |-> role, calls |-> {}, id |-> NoCall, tokens |-> 1]
Assistant(calls) == [Plain("assistant") EXCEPT !.calls = calls]
ToolResult(c, size) == [role |-> "tool", calls |-> {}, id |-> c, tokens |-> size]

Tokens(ms) == FoldLeft(LAMBDA sum, m : sum + m.tokens, 0, ms)

After(ms, i) == SubSeq(ms, i + 1, Len(ms))

-----------------------------------------------------------------------------
(* What the inference APIs require of a conversation.                        *)

\* Every tool result answers a call of the assistant turn right before it.
NoOrphanResult(ms) ==
    \A i \in 1..Len(ms) : ms[i].role = "tool" =>
        \E j \in 1..(i - 1) :
            /\ ms[i].id \in ms[j].calls
            /\ \A k \in (j + 1)..i : ms[k].role = "tool"

\* Every tool call is answered before the next message of another role.
NoOrphanCall(ms) ==
    \A i \in 1..Len(ms) : \A c \in ms[i].calls :
        \E k \in (i + 1)..Len(ms) :
            /\ ms[k].id = c
            /\ \A j \in (i + 1)..k : ms[j].role = "tool"

Paired(ms) == NoOrphanResult(ms) /\ NoOrphanCall(ms)

-----------------------------------------------------------------------------
(* group_for_truncation and Conversation::truncate_to_budget.                *)

\* The calls issued in the first i messages and not answered among them.
Pending(ms, i) ==
    {c \in UNION {ms[j].calls : j \in 1..i} :
        \E j \in 1..i : c \in ms[j].calls /\ \A k \in (j + 1)..i : ms[k].id # c}

\* Where a group may end: nothing is pending.  Stragglers are the last group.
GroupEnds(ms) == {i \in 0..Len(ms) : Pending(ms, i) = {}} \cup {Len(ms)}

\* Faulty variant: when no run of groups fits, all are kept.
WindowStartAll(ms, budget) ==
    LET starts == GroupEnds(ms) \ {Len(ms)}
        fitting == {b \in starts : Tokens(After(ms, b)) <= budget}
    IN  IF fitting # {} THEN Min(fitting) ELSE Min(starts)

\* The longest run of whole newest groups that fits, and at least one group.
WindowStart(ms, budget) ==
    LET starts == GroupEnds(ms) \ {Len(ms)}
        fitting == {b \in starts : Tokens(After(ms, b)) <= budget}
    IN  IF fitting # {} THEN Min(fitting) ELSE Max(starts)

DropLeadingResults(ms) ==
    LET others == {i \in 1..Len(ms) : ms[i].role # "tool"}
    IN  IF others = {} THEN <<>> ELSE After(ms, Min(others) - 1)

SystemLen(ms) == IF ms # <<>> /\ ms[1].role = "system" THEN 1 ELSE 0

TruncateToBudget(ms, budget) ==
    LET system == SubSeq(ms, 1, SystemLen(ms))
        rest == After(ms, SystemLen(ms))
        remaining == Max({0, budget - Tokens(system)})
    IN  IF Tokens(ms) <= budget \/ rest = <<>> THEN ms
        ELSE system \o DropLeadingResults(After(rest, WindowStart(rest, remaining)))

-----------------------------------------------------------------------------
(* DefaultContextManager::manage_context.                                    *)

\* The most recent messages ObservationMasking leaves alone.
KeepRecent == 6

\* A placeholder replaces the content of every older tool result.
Masked(ms) ==
    [i \in 1..Len(ms) |->
        IF ms[i].role = "tool" /\ i <= Len(ms) - KeepRecent
        THEN [ms[i] EXCEPT !.tokens = 1] ELSE ms[i]]

ApplyObservationMasking(ms, budget) ==
    IF Len(ms) <= 3 THEN ms ELSE TruncateToBudget(Masked(ms), budget)

\* The system prompt and the first user message.
AnchorEnd(ms) ==
    LET Anchor(i) == ms[i].role = "system" \/ (ms[i].role = "user" /\ i <= 2)
    IN  Max({n \in 0..Len(ms) : \A i \in 1..n : Anchor(i)})

ApplyAnchoredSummary(ms, budget) ==
    LET anchors == AnchorEnd(ms)
        recent == Len(ms) - Min({recent_count, Len(ms) - anchors})
        summary == IF anchors < recent THEN <<Plain("user")>> ELSE <<>>
    IN  TruncateToBudget(SubSeq(ms, 1, anchors) \o summary \o After(ms, recent),
                         budget)

\* Every strategy leaves a conversation within the budget alone.
ManageContext(ms, budget) ==
    IF Tokens(ms) <= budget THEN ms
    ELSE CASE Strategy = "SlidingWindow" -> TruncateToBudget(ms, budget)
           [] Strategy = "ObservationMasking" -> ApplyObservationMasking(ms, budget)
           [] Strategy = "AnchoredSummary" -> ApplyAnchoredSummary(ms, budget)
=============================================================================
