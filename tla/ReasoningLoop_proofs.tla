------------------------ MODULE ReasoningLoop_proofs ------------------------
(* The reasoning loop is correctly typed and implements GovernedRun, for     *)
(* every budget, every number of calls in a turn and every context strategy; *)
(* its result is earned, its journal adds up, and the model is sent calls    *)
(* and results in pairs, in a window that fits its budget.                   *)
EXTENDS ReasoningLoop, TLAPS, FiniteSetTheorems, SequenceTheorems,
        WellFoundedInduction

-----------------------------------------------------------------------------
(* The context managers: cutting a conversation keeps it a conversation,     *)
(* whatever the strategy and the budget, and cutting without a summary keeps *)
(* every call with its result.                                               *)

\* A non-empty set of naturals has a minimum, and Min is it.
LEMMA MinIsInSet ==
    ASSUME NEW S \in SUBSET Nat, S # {}
    PROVE  Min(S) \in S /\ \A y \in S : Min(S) <= y
  <1>1. \E x \in S : \A y \in S : ~ (<<y, x>> \in OpToRel(<, Nat))
    BY NatLessThanWellFounded, WFMin, Zenon
  <1>2. PICK x \in S : \A y \in S : ~ (<<y, x>> \in OpToRel(<, Nat))
    BY <1>1
  <1>3. \A y \in S : x <= y
    <2>1. TAKE y \in S
    <2>2. x \in Nat /\ y \in Nat
      OBVIOUS
    <2>3. ~ (y < x)
      BY <1>2, <2>2 DEF OpToRel
    <2>4. QED  BY <2>2, <2>3
  <1>4. QED  BY <1>3 DEF Min

\* A non-empty set of naturals below a bound has a maximum, and Max is it.
LEMMA MaxIsInSet ==
    ASSUME NEW n \in Nat, NEW S \in SUBSET (0..n), S # {}
    PROVE  Max(S) \in S /\ \A y \in S : Max(S) >= y
  <1> DEFINE T == {n - x : x \in S}
  <1>1. T \in SUBSET Nat
    OBVIOUS
  <1>2. T # {}
    BY S # {}, Zenon
  <1> HIDE DEF T
  <1>3. Min(T) \in T /\ \A y \in T : Min(T) <= y
    BY <1>1, <1>2, MinIsInSet
  <1>4. PICK x \in S : Min(T) = n - x
    BY <1>3 DEF T
  <1>5. \A y \in S : n - x <= n - y
    BY <1>3, <1>4 DEF T
  <1>6. \A y \in S : x >= y
    BY <1>5
  <1>7. QED  BY <1>6 DEF Max

\* A suffix of a sequence.
LEMMA AfterType ==
    ASSUME NEW S, NEW ms \in Seq(S), NEW b \in 0..Len(ms)
    PROVE  After(ms, b) \in Seq(S) /\ Len(After(ms, b)) = Len(ms) - b
  BY DEF After

\* The window starts before the last message.
LEMMA WindowStartType ==
    ASSUME NEW S, NEW ms \in Seq(S), ms # <<>>, NEW budget
    PROVE  WindowStart(ms, budget) \in 0..(Len(ms) - 1)
  <1> DEFINE starts == GroupEnds(ms) \ {Len(ms)}
             fitting == {b \in starts : Tokens(After(ms, b)) <= budget}
  <1>1. Len(ms) \in Nat \ {0}
    OBVIOUS
  <1>2. starts \in SUBSET (0..(Len(ms) - 1))
    BY <1>1 DEF GroupEnds
  <1>3. 0 \in starts
    BY <1>1 DEF GroupEnds, Pending
  <1>4. fitting \subseteq starts
    OBVIOUS
  <1> HIDE DEF starts, fitting
  <1>5. CASE fitting # {}
    <2>1. fitting \in SUBSET Nat
      BY <1>1, <1>2, <1>4
    <2>2. Min(fitting) \in fitting
      BY <1>5, <2>1, MinIsInSet
    <2>3. Min(fitting) \in 0..(Len(ms) - 1)
      BY <2>2, <1>2, <1>4
    <2>4. WindowStart(ms, budget) = Min(fitting)
      BY <1>5 DEF WindowStart, starts, fitting
    <2>5. QED  BY <2>3, <2>4
  <1>6. CASE fitting = {}
    <2>1. Len(ms) - 1 \in Nat /\ starts # {}
      BY <1>1, <1>3
    <2>2. Max(starts) \in starts
      BY <1>2, <2>1, MaxIsInSet
    <2>3. WindowStart(ms, budget) = Max(starts)
      BY <1>6 DEF WindowStart, starts, fitting
    <2>4. QED  BY <2>2, <2>3, <1>2
  <1>7. QED  BY <1>5, <1>6

\* Stripping leading tool results keeps a suffix of the sequence.
LEMMA DropLeadingResultsType ==
    ASSUME NEW S, NEW ms \in Seq(S)
    PROVE  DropLeadingResults(ms) \in Seq(S)
  <1> DEFINE others == {i \in 1..Len(ms) : ms[i].role # "tool"}
  <1>1. CASE others = {}
    BY <1>1 DEF DropLeadingResults
  <1>2. CASE others # {}
    <2>1. others \in SUBSET Nat
      OBVIOUS
    <2>2. Min(others) \in others
      BY <1>2, <2>1, MinIsInSet
    <2>3. Min(others) - 1 \in 0..Len(ms)
      BY <2>2
    <2>4. DropLeadingResults(ms) = After(ms, Min(others) - 1)
      BY <1>2 DEF DropLeadingResults
    <2>5. QED  BY <2>3, <2>4, AfterType
  <1>3. QED  BY <1>1, <1>2

\* truncate_to_budget returns messages of the conversation it was given.
LEMMA TruncateType ==
    ASSUME NEW S, NEW ms \in Seq(S), NEW budget
    PROVE  TruncateToBudget(ms, budget) \in Seq(S)
  <1> DEFINE system == SubSeq(ms, 1, SystemLen(ms))
             rest == After(ms, SystemLen(ms))
             remaining == Max({0, budget - Tokens(system)})
             kept == After(rest, WindowStart(rest, remaining))
  <1>1. SystemLen(ms) \in 0..Len(ms)
    BY DEF SystemLen
  <1>2. system \in Seq(S)
    BY <1>1
  <1>3. rest \in Seq(S)
    BY <1>1, AfterType
  <1> HIDE DEF system, rest, remaining
  <1>4. CASE rest # <<>>
    <2>1. WindowStart(rest, remaining) \in 0..(Len(rest) - 1)
      BY <1>3, <1>4, WindowStartType
    <2>2. WindowStart(rest, remaining) \in 0..Len(rest)
      BY <1>3, <2>1
    <2>3. kept \in Seq(S)
      BY <1>3, <2>2, AfterType
    <2> HIDE DEF kept
    <2>4. DropLeadingResults(kept) \in Seq(S)
      BY <2>3, DropLeadingResultsType
    <2>5. system \o DropLeadingResults(kept) \in Seq(S)
      BY <1>2, <2>4
    <2>6. QED
      BY <1>4, <2>5 DEF TruncateToBudget, kept, rest, remaining, system
  <1>5. CASE rest = <<>>
    BY <1>5 DEF TruncateToBudget, rest
  <1>6. QED  BY <1>4, <1>5

\* Whatever the strategy, a managed conversation consists of messages.
LEMMA ManageContextType ==
    ASSUME NEW M, Plain("user") \in M, \A m \in M : [m EXCEPT !.tokens = 1] \in M,
           NEW ms \in Seq(M), NEW budget
    PROVE  ManageContext(ms, budget) \in Seq(M)
  <1>1. Masked(ms) \in Seq(M)
    BY DEF Masked
  <1>2. AnchorEnd(ms) \in 0..Len(ms)
    <2> DEFINE Anchor(i) == ms[i].role = "system" \/ (ms[i].role = "user" /\ i <= 2)
               ends == {n \in 0..Len(ms) : \A i \in 1..n : Anchor(i)}
    <2>1. ends \in SUBSET (0..Len(ms)) /\ 0 \in ends /\ Len(ms) \in Nat
      OBVIOUS
    <2>2. AnchorEnd(ms) = Max(ends)
      BY DEF AnchorEnd
    <2> HIDE DEF ends
    <2>3. QED  BY <2>1, <2>2, MaxIsInSet
  <1>3. ApplyAnchoredSummary(ms, budget) \in Seq(M)
    <2> DEFINE anchors == AnchorEnd(ms)
               few == {recent_count, Len(ms) - anchors}
               recent == Len(ms) - Min(few)
               summary == IF anchors < recent THEN <<Plain("user")>> ELSE <<>>
    <2>1. few \in SUBSET Nat /\ few # {}
      BY <1>2, StrategyAssumption
    <2>2. Min(few) \in 0..(Len(ms) - anchors)
      <3> HIDE DEF few
      <3>1. Min(few) \in few /\ \A y \in few : Min(few) <= y
        BY <2>1, MinIsInSet
      <3>2. Len(ms) - anchors \in few
        BY DEF few
      <3>3. QED  BY <2>1, <3>1, <3>2, <1>2
    <2> HIDE DEF few
    <2>3. recent \in 0..Len(ms)
      BY <2>2, <1>2
    <2> HIDE DEF recent
    <2>4. SubSeq(ms, 1, anchors) \in Seq(M)
      BY <1>2
    <2>5. summary \in Seq(M)
      BY Plain("user") \in M
    <2>6. After(ms, recent) \in Seq(M)
      BY <2>3, AfterType
    <2> HIDE DEF anchors, summary
    <2>7. SubSeq(ms, 1, anchors) \o summary \o After(ms, recent) \in Seq(M)
      BY <2>4, <2>5, <2>6
    <2>8. TruncateToBudget(SubSeq(ms, 1, anchors) \o summary \o After(ms, recent),
                           budget) \in Seq(M)
      BY <2>7, TruncateType
    <2>9. QED  BY <2>8 DEF ApplyAnchoredSummary, anchors, summary, recent, few
  <1>4. TruncateToBudget(ms, budget) \in Seq(M)
    BY TruncateType
  <1>5. ApplyObservationMasking(ms, budget) \in Seq(M)
    <2>1. TruncateToBudget(Masked(ms), budget) \in Seq(M)
      BY <1>1, TruncateType
    <2>2. QED  BY <2>1 DEF ApplyObservationMasking
  <1>6. QED
    BY <1>3, <1>4, <1>5, StrategyAssumption DEF ManageContext, Strategies

-----------------------------------------------------------------------------
(* Calls and results: cutting leaves no result without its call.             *)

\* t is what remains of ms when the messages from s + 1 to k are cut out.
IsCut(t, ms, s, k) ==
    /\ Len(t) = s + (Len(ms) - k)
    /\ \A i \in 1..s : t[i] = ms[i]
    /\ \A i \in 1..(Len(ms) - k) : t[s + i] = ms[k + i]

\* The cut does not begin with a tool result.
CleanCut(ms, k) == k < Len(ms) => ms[k + 1].role # "tool"

\* Stripping leading results is a cut, and a clean one.
LEMMA DropLeadingResultsCuts ==
    ASSUME NEW S, NEW ms \in Seq(S)
    PROVE  \E k \in 0..Len(ms) :
              DropLeadingResults(ms) = After(ms, k) /\ CleanCut(ms, k)
  <1> DEFINE others == {i \in 1..Len(ms) : ms[i].role # "tool"}
  <1>1. Len(ms) \in Nat
    OBVIOUS
  <1>2. CASE others = {}
    <2>1. DropLeadingResults(ms) = <<>>
      BY <1>2 DEF DropLeadingResults
    <2>2. After(ms, Len(ms)) = <<>>
      BY <1>1, SubSeqEmpty DEF After
    <2>3. CleanCut(ms, Len(ms)) /\ Len(ms) \in 0..Len(ms)
      BY <1>1 DEF CleanCut
    <2>4. QED  BY <2>1, <2>2, <2>3
  <1>3. CASE others # {}
    <2>1. others \in SUBSET Nat
      OBVIOUS
    <2>2. Min(others) \in others
      BY <1>3, <2>1, MinIsInSet
    <2>3. DropLeadingResults(ms) = After(ms, Min(others) - 1)
      BY <1>3 DEF DropLeadingResults
    <2>4. Min(others) \in 1..Len(ms) /\ ms[Min(others)].role # "tool"
      BY <2>2
    <2> HIDE DEF others
    <2>5. /\ Min(others) - 1 \in 0..Len(ms)
          /\ (Min(others) - 1) + 1 = Min(others)
      BY <1>1, <2>4
    <2>6. QED  BY <2>3, <2>4, <2>5 DEF CleanCut
  <1>4. QED  BY <1>2, <1>3

LEMMA AfterElements ==
    ASSUME NEW S, NEW ms \in Seq(S), NEW k \in 0..Len(ms)
    PROVE  /\ After(ms, k) \in Seq(S)
           /\ Len(After(ms, k)) = Len(ms) - k
           /\ \A i \in 1..(Len(ms) - k) : After(ms, k)[i] = ms[k + i]
  <1>1. Len(ms) \in Nat
    OBVIOUS
  <1>2. \A i \in (k + 1)..Len(ms) : ms[i] \in S
    BY <1>1
  <1>3. /\ After(ms, k) \in Seq(S)
        /\ Len(After(ms, k)) =
              IF k + 1 <= Len(ms) THEN Len(ms) - (k + 1) + 1 ELSE 0
        /\ \A i \in 1..(Len(ms) - (k + 1) + 1) :
              After(ms, k)[i] = ms[(k + 1) + i - 1]
    BY <1>1, <1>2, SubSeqProperties DEF After
  <1>4. /\ Len(ms) - (k + 1) + 1 = Len(ms) - k
        /\ \A i \in 1..(Len(ms) - k) : (k + 1) + i - 1 = k + i
        /\ ~(k + 1 <= Len(ms)) => Len(ms) - k = 0
    BY <1>1
  <1>5. \A i \in 1..(Len(ms) - k) : After(ms, k)[i] = ms[k + i]
    <2>1. TAKE i \in 1..(Len(ms) - k)
    <2>2. i \in 1..(Len(ms) - (k + 1) + 1)
      BY <1>4, <2>1, Zenon
    <2>3. After(ms, k)[i] = ms[(k + 1) + i - 1]
      BY <1>3, <2>2, Zenon
    <2>4. QED  BY <1>4, <2>3, Zenon
  <1>6. Len(After(ms, k)) = Len(ms) - k
    BY <1>3, <1>4, Zenon
  <1>7. QED  BY <1>3, <1>5, <1>6, Zenon

\* Truncation returns the conversation or a clean cut behind the system prompt.
LEMMA TruncateCuts ==
    ASSUME NEW S, NEW ms \in Seq(S), NEW budget
    PROVE  \/ TruncateToBudget(ms, budget) = ms
           \/ \E k \in SystemLen(ms)..Len(ms) :
                 /\ IsCut(TruncateToBudget(ms, budget), ms, SystemLen(ms), k)
                 /\ CleanCut(ms, k)
  <1> DEFINE s == SystemLen(ms)
             system == SubSeq(ms, 1, s)
             rest == After(ms, s)
             remaining == Max({0, budget - Tokens(system)})
             b == WindowStart(rest, remaining)
             kept == After(rest, b)
             t == TruncateToBudget(ms, budget)
  <1>1. Len(ms) \in Nat /\ s \in 0..Len(ms)
    BY DEF SystemLen
  <1>2. CASE rest = <<>>
    BY <1>2 DEF TruncateToBudget
  <1>3. CASE rest # <<>> /\ t # ms
    <2>1. t = system \o DropLeadingResults(kept)
      BY <1>3 DEF TruncateToBudget
    <2>2. /\ system \in Seq(S) /\ Len(system) = s
          /\ \A i \in 1..s : system[i] = ms[i]
      <3> HIDE DEF s
      <3>1. \A i \in 1..s : ms[i] \in S
        BY <1>1
      <3>2. /\ system \in Seq(S)
            /\ Len(system) = IF 1 <= s THEN s - 1 + 1 ELSE 0
            /\ \A i \in 1..(s - 1 + 1) : system[i] = ms[1 + i - 1]
        BY <1>1, <3>1, SubSeqProperties
      <3>3. s - 1 + 1 = s /\ \A i \in 1..s : 1 + i - 1 = i
        BY <1>1
      <3>4. QED  BY <1>1, <3>2, <3>3
    <2> HIDE DEF s, system
    <2>3. /\ rest \in Seq(S) /\ Len(rest) = Len(ms) - s
          /\ \A i \in 1..(Len(ms) - s) : rest[i] = ms[s + i]
      BY <1>1, AfterElements
    <2> HIDE DEF rest, remaining
    <2>4. b \in 0..(Len(rest) - 1)
      BY <1>3, <2>3, WindowStartType
    <2> HIDE DEF b
    <2>5. /\ kept \in Seq(S) /\ Len(kept) = Len(rest) - b
          /\ \A i \in 1..(Len(rest) - b) : kept[i] = rest[b + i]
      <3>1. b \in 0..Len(rest)
        BY <1>1, <2>3, <2>4
      <3>2. rest \in Seq(S)
        BY <2>3
      <3>3. QED  BY ONLY <3>1, <3>2, AfterElements
    <2> HIDE DEF kept
    <2>6. PICK d \in 0..Len(kept) :
            DropLeadingResults(kept) = After(kept, d) /\ CleanCut(kept, d)
      BY <2>5, DropLeadingResultsCuts
    <2> DEFINE last == After(kept, d)
    <2>7. /\ last \in Seq(S) /\ Len(last) = Len(kept) - d
          /\ \A i \in 1..(Len(kept) - d) : last[i] = kept[d + i]
      <3>1. kept \in Seq(S) /\ d \in 0..Len(kept)
        BY <2>5
      <3>2. QED  BY ONLY <3>1, AfterElements
    <2> DEFINE k == s + b + d
    <2>8. k \in s..Len(ms) /\ Len(last) = Len(ms) - k
      BY <1>1, <2>3, <2>4, <2>5, <2>6, <2>7
    <2>9. \A i \in 1..Len(last) : last[i] = ms[k + i]
      <3>1. TAKE i \in 1..Len(last)
      <3>9. Len(kept) \in Nat /\ Len(rest) \in Nat /\ b \in Nat
        BY <2>4, <2>5, <2>3
      <3>2. last[i] = kept[d + i]
        BY <2>7
      <3>3. d + i \in 1..(Len(rest) - b)
        BY <2>5, <2>6, <2>7, <3>9, SMTT(30)
      <3>4. kept[d + i] = rest[b + (d + i)]
        BY <2>5, <3>3
      <3>5. b + (d + i) \in 1..(Len(ms) - s)
        BY <1>1, <2>3, <2>4, <3>3
      <3>6. rest[b + (d + i)] = ms[s + (b + (d + i))]
        BY <2>3, <3>5
      <3>7. s + (b + (d + i)) = k + i
        BY <1>1, <2>3, <2>4, <2>5, <2>6, <3>3
      <3>8. QED  BY <3>2, <3>4, <3>6, <3>7
    <2>10. CleanCut(ms, k)
      <3>1. SUFFICES ASSUME k < Len(ms)
                     PROVE  ms[k + 1].role # "tool"
        BY DEF CleanCut
      <3>2. d < Len(kept) /\ 1 \in 1..Len(last)
        BY <1>1, <2>3, <2>4, <2>5, <2>6, <2>7, <2>8, <3>1
      <3>3. kept[d + 1].role # "tool"
        BY <2>6, <3>2 DEF CleanCut
      <3>4. last[1] = kept[d + 1] /\ last[1] = ms[k + 1]
        BY <2>7, <2>9, <3>2
      <3>5. QED  BY <3>3, <3>4
    <2> HIDE DEF last, k
    <2>11. t = system \o last
      BY <2>1, <2>6 DEF last
    <2>12. /\ Len(t) = s + (Len(ms) - k)
           /\ \A i \in 1..s : t[i] = ms[i]
           /\ \A i \in 1..(Len(ms) - k) : t[s + i] = ms[k + i]
      <3> HIDE DEF t
      <3>1. /\ Len(t) = Len(system) + Len(last)
            /\ \A i \in 1..(Len(system) + Len(last)) :
                  t[i] = IF i <= Len(system) THEN system[i]
                         ELSE last[i - Len(system)]
        BY <2>2, <2>7, <2>11, ConcatProperties
      <3>2. \A i \in 1..s : t[i] = ms[i]
        BY <1>1, <2>2, <2>8, <3>1
      <3>3. \A i \in 1..(Len(ms) - k) : t[s + i] = ms[k + i]
        <4>1. TAKE i \in 1..(Len(ms) - k)
        <4>2. /\ s + i \in 1..(Len(system) + Len(last))
              /\ ~(s + i <= Len(system)) /\ (s + i) - Len(system) = i
              /\ i \in 1..Len(last)
          BY <1>1, <2>2, <2>8
        <4>3. t[s + i] = last[i]
          BY <3>1, <4>2
        <4>4. QED  BY <2>9, <4>2, <4>3
      <3>4. QED  BY <2>2, <2>8, <3>1, <3>2, <3>3
    <2>13. QED  BY <2>8, <2>10, <2>12 DEF IsCut, s
  <1>4. QED  BY <1>2, <1>3

\* Only the assistant issues calls.
OnlyAssistantCalls(ms) ==
    \A i \in 1..Len(ms) : ms[i].calls # {} => ms[i].role = "assistant"

\* A clean cut behind the system prompt keeps calls and results together.
LEMMA CutKeepsPairs ==
    ASSUME NEW S, NEW ms \in Seq(S), NEW t \in Seq(S),
           NEW s \in {0, 1}, NEW k \in s..Len(ms),
           IsCut(t, ms, s, k), CleanCut(ms, k),
           s = 1 => ms[1].role = "system",
           OnlyAssistantCalls(ms), Paired(ms)
    PROVE  OnlyAssistantCalls(t) /\ Paired(t)
  <1>1. Len(ms) \in Nat /\ k \in Nat /\ s \in Nat
    OBVIOUS
  <1>2. ASSUME NEW i \in 1..Len(t)
        PROVE  \/ s = 1 /\ i = 1 /\ 1 \in 1..Len(ms) /\ t[i] = ms[1]
                  /\ t[i].role = "system"
               \/ /\ i \in (s + 1)..Len(t)
                  /\ (k - s) + i \in (k + 1)..Len(ms)
                  /\ t[i] = ms[(k - s) + i]
    <2>1. CASE i <= s
      BY <1>1, <1>2, <2>1 DEF IsCut
    <2>2. CASE i > s
      <3>1. i - s \in 1..(Len(ms) - k) /\ s + (i - s) = i
            /\ k + (i - s) = (k - s) + i
        BY <1>1, <1>2, <2>2 DEF IsCut
      <3>2. t[s + (i - s)] = ms[k + (i - s)]
        BY <3>1, Zenon DEF IsCut
      <3>3. t[i] = ms[(k - s) + i]
        BY <3>1, <3>2, Zenon
      <3>4. i \in (s + 1)..Len(t) /\ (k - s) + i \in (k + 1)..Len(ms)
        <4>1. \A n, l \in Nat : n > s /\ n <= l => n \in (s + 1)..l
          BY <1>1
        <4>2. \A j \in 1..(Len(ms) - k) : k + j \in (k + 1)..Len(ms)
          BY <1>1
        <4>3. i \in Nat /\ Len(t) \in Nat /\ i <= Len(t)
          BY <1>2
        <4>4. k + (i - s) \in (k + 1)..Len(ms)
          BY <3>1, <4>2, Zenon
        <4>5. i \in (s + 1)..Len(t)
          BY <2>2, <4>1, <4>3, Zenon
        <4>6. QED  BY <3>1, <4>4, <4>5, Zenon
      <3>5. QED  BY <3>3, <3>4, Zenon
    <2>3. QED  BY <1>1, <1>2, <2>1, <2>2
  <1>3. ASSUME NEW i \in (s + 1)..Len(t)
        PROVE  /\ (k - s) + i \in (k + 1)..Len(ms)
               /\ (k - s) + i \in 1..Len(ms)
               /\ t[i] = ms[(k - s) + i]
    <2>1. i \in 1..Len(t) /\ ~(s = 1 /\ i = 1)
      BY <1>1, <1>3
    <2>2. QED  BY <1>1, <1>2, <2>1
  <1>4. OnlyAssistantCalls(t)
    <2>1. SUFFICES ASSUME NEW i \in 1..Len(t), t[i].calls # {}
                   PROVE  t[i].role = "assistant"
      BY DEF OnlyAssistantCalls
    <2>2. CASE s = 1 /\ i = 1 /\ 1 \in 1..Len(ms) /\ t[i] = ms[1]
      BY <2>1, <2>2 DEF OnlyAssistantCalls
    <2>3. CASE /\ (k - s) + i \in (k + 1)..Len(ms)
               /\ t[i] = ms[(k - s) + i]
      BY <1>1, <2>1, <2>3 DEF OnlyAssistantCalls
    <2>4. QED  BY <1>2, <2>2, <2>3
  <1>5. NoOrphanResult(t)
    <2>1. SUFFICES ASSUME NEW i \in 1..Len(t), t[i].role = "tool"
                   PROVE  \E j \in 1..(i - 1) :
                             /\ t[i].id \in t[j].calls
                             /\ \A q \in (j + 1)..i : t[q].role = "tool"
      BY DEF NoOrphanResult
    <2>2. i \in (s + 1)..Len(t) /\ t[i] = ms[(k - s) + i]
          /\ (k - s) + i \in 1..Len(ms)
      <3>1. ~(t[i].role = "system")
        BY <2>1
      <3>2. i \in (s + 1)..Len(t)
        BY <1>2, <3>1
      <3>3. QED  BY <1>3, <3>2
    <2>3. PICK j \in 1..(((k - s) + i) - 1) :
            /\ ms[(k - s) + i].id \in ms[j].calls
            /\ \A q \in (j + 1)..((k - s) + i) : ms[q].role = "tool"
      BY <2>1, <2>2 DEF Paired, NoOrphanResult
    <2>4. j > k
      <3>1. SUFFICES ASSUME j <= k PROVE FALSE
        BY <1>1, <2>3
      <3>2. k + 1 \in (j + 1)..((k - s) + i) /\ k < Len(ms)
        BY <1>1, <2>2, <2>3, <3>1
      <3>3. ms[k + 1].role = "tool"
        BY <2>3, <3>2
      <3>4. QED  BY <3>2, <3>3 DEF CleanCut
    <2> DEFINE p == j - (k - s)
    <2>5. /\ p \in (s + 1)..(i - 1) /\ p \in (s + 1)..Len(t)
          /\ (k - s) + p = j
      BY <1>1, <2>2, <2>3, <2>4
    <2>6. t[p] = ms[j]
      BY <1>3, <2>5
    <2>7. \A q \in (p + 1)..i : t[q].role = "tool"
      <3>1. TAKE q \in (p + 1)..i
      <3>2. q \in (s + 1)..Len(t) /\ (k - s) + q \in (j + 1)..((k - s) + i)
        BY <1>1, <2>2, <2>3, <2>5
      <3>3. t[q] = ms[(k - s) + q]
        BY <1>3, <3>2
      <3>4. QED  BY <2>3, <3>2, <3>3
    <2>8. p \in 1..(i - 1)
      BY <1>1, <2>5
    <2>9. t[i].id \in t[p].calls
      BY <2>2, <2>3, <2>6
    <2> HIDE DEF p
    <2>10. QED  BY <2>7, <2>8, <2>9
  <1>6. NoOrphanCall(t)
    <2>1. SUFFICES ASSUME NEW i \in 1..Len(t), NEW c \in t[i].calls
                   PROVE  \E q \in (i + 1)..Len(t) :
                             /\ t[q].id = c
                             /\ \A j \in (i + 1)..q : t[j].role = "tool"
      BY DEF NoOrphanCall
    <2>2. i \in (s + 1)..Len(t) /\ t[i] = ms[(k - s) + i]
          /\ (k - s) + i \in 1..Len(ms)
      <3>1. t[i].role = "assistant"
        BY <1>4, <2>1 DEF OnlyAssistantCalls
      <3>2. i \in (s + 1)..Len(t)
        BY <1>2, <3>1
      <3>3. QED  BY <1>3, <3>2
    <2>3. PICK q \in (((k - s) + i) + 1)..Len(ms) :
            /\ ms[q].id = c
            /\ \A j \in (((k - s) + i) + 1)..q : ms[j].role = "tool"
      BY <2>1, <2>2 DEF Paired, NoOrphanCall
    <2> DEFINE p == q - (k - s)
    <2>4. /\ p \in (i + 1)..Len(t) /\ p \in (s + 1)..Len(t)
          /\ (k - s) + p = q
      BY <1>1, <2>2, <2>3 DEF IsCut
    <2>5. t[p] = ms[q]
      BY <1>3, <2>4
    <2>6. \A j \in (i + 1)..p : t[j].role = "tool"
      <3>1. TAKE j \in (i + 1)..p
      <3>2. j \in (s + 1)..Len(t) /\ (k - s) + j \in (((k - s) + i) + 1)..q
        BY <1>1, <2>2, <2>3, <2>4
      <3>3. t[j] = ms[(k - s) + j]
        BY <1>3, <3>2
      <3>4. QED  BY <2>3, <3>2, <3>3
    <2> HIDE DEF p
    <2>7. QED  BY <2>3, <2>4, <2>5, <2>6
  <1>7. QED  BY <1>4, <1>5, <1>6 DEF Paired

\* Truncation keeps calls and results together.
LEMMA TruncateKeepsPairs ==
    ASSUME NEW S, NEW ms \in Seq(S), NEW budget,
           OnlyAssistantCalls(ms), Paired(ms)
    PROVE  /\ OnlyAssistantCalls(TruncateToBudget(ms, budget))
           /\ Paired(TruncateToBudget(ms, budget))
  <1> DEFINE t == TruncateToBudget(ms, budget)
  <1>1. t \in Seq(S)
    BY TruncateType
  <1>2. CASE t = ms
    BY <1>2
  <1>3. CASE \E k \in SystemLen(ms)..Len(ms) :
                IsCut(t, ms, SystemLen(ms), k) /\ CleanCut(ms, k)
    <2>1. PICK k \in SystemLen(ms)..Len(ms) :
            IsCut(t, ms, SystemLen(ms), k) /\ CleanCut(ms, k)
      BY <1>3
    <2>2. /\ SystemLen(ms) \in {0, 1}
          /\ SystemLen(ms) = 1 => ms[1].role = "system"
      BY DEF SystemLen
    <2> HIDE DEF t
    <2>3. QED  BY <1>1, <2>1, <2>2, CutKeepsPairs DEF t
  <1>4. QED  BY <1>2, <1>3, TruncateCuts

\* Masking changes the size of a result and nothing else.
LEMMA MaskedKeepsPairs ==
    ASSUME NEW M, \A m \in M : /\ DOMAIN m = {"role", "calls", "id", "tokens"}
                               /\ [m EXCEPT !.tokens = 1] \in M,
           NEW ms \in Seq(M), OnlyAssistantCalls(ms), Paired(ms)
    PROVE  /\ Masked(ms) \in Seq(M)
           /\ OnlyAssistantCalls(Masked(ms)) /\ Paired(Masked(ms))
  <1> DEFINE t == Masked(ms)
  <1>1. t \in Seq(M) /\ Len(t) = Len(ms)
    BY DEF Masked
  <1>2. ASSUME NEW i \in 1..Len(ms)
        PROVE  /\ t[i].role = ms[i].role /\ t[i].calls = ms[i].calls
               /\ t[i].id = ms[i].id
    <2>1. ms[i] \in M
      OBVIOUS
    <2>2. t[i] = ms[i] \/ t[i] = [ms[i] EXCEPT !.tokens = 1]
      BY DEF Masked
    <2> HIDE DEF t
    <2>3. QED  BY <2>1, <2>2
  <1> HIDE DEF t
  <1>3. OnlyAssistantCalls(t)
    BY <1>1, <1>2 DEF OnlyAssistantCalls
  <1>4. NoOrphanResult(t)
    <2>1. SUFFICES ASSUME NEW i \in 1..Len(ms), t[i].role = "tool"
                   PROVE  \E j \in 1..(i - 1) :
                             /\ t[i].id \in t[j].calls
                             /\ \A q \in (j + 1)..i : t[q].role = "tool"
      BY <1>1 DEF NoOrphanResult
    <2>2. PICK j \in 1..(i - 1) :
            /\ ms[i].id \in ms[j].calls
            /\ \A q \in (j + 1)..i : ms[q].role = "tool"
      BY <1>2, <2>1 DEF Paired, NoOrphanResult
    <2>3. j \in 1..Len(ms) /\ \A q \in (j + 1)..i : q \in 1..Len(ms)
      OBVIOUS
    <2>4. QED  BY <1>2, <2>2, <2>3
  <1>5. NoOrphanCall(t)
    <2>1. SUFFICES ASSUME NEW i \in 1..Len(ms), NEW c \in t[i].calls
                   PROVE  \E q \in (i + 1)..Len(ms) :
                             /\ t[q].id = c
                             /\ \A j \in (i + 1)..q : t[j].role = "tool"
      BY <1>1 DEF NoOrphanCall
    <2>2. PICK q \in (i + 1)..Len(ms) :
            /\ ms[q].id = c
            /\ \A j \in (i + 1)..q : ms[j].role = "tool"
      BY <1>2, <2>1 DEF Paired, NoOrphanCall
    <2>3. q \in 1..Len(ms) /\ \A j \in (i + 1)..q : j \in 1..Len(ms)
      OBVIOUS
    <2>4. QED  BY <1>2, <2>2, <2>3
  <1>6. QED  BY <1>1, <1>3, <1>4, <1>5 DEF Paired, t

\* A context manager that summarises nothing keeps calls and results together,
\* whatever the budget (context_manager.rs, manage_context).
THEOREM ManagedConversationsArePaired ==
    ASSUME Strategy # "AnchoredSummary",
           NEW M, \A m \in M : /\ DOMAIN m = {"role", "calls", "id", "tokens"}
                               /\ [m EXCEPT !.tokens = 1] \in M,
           NEW ms \in Seq(M), NEW budget,
           OnlyAssistantCalls(ms), Paired(ms)
    PROVE  /\ OnlyAssistantCalls(ManageContext(ms, budget))
           /\ Paired(ManageContext(ms, budget))
  <1>1. /\ OnlyAssistantCalls(TruncateToBudget(ms, budget))
        /\ Paired(TruncateToBudget(ms, budget))
    BY TruncateKeepsPairs
  <1>2. /\ OnlyAssistantCalls(TruncateToBudget(Masked(ms), budget))
        /\ Paired(TruncateToBudget(Masked(ms), budget))
    <2>1. /\ Masked(ms) \in Seq(M)
          /\ OnlyAssistantCalls(Masked(ms)) /\ Paired(Masked(ms))
      BY MaskedKeepsPairs
    <2>2. QED  BY <2>1, TruncateKeepsPairs
  <1>3. /\ OnlyAssistantCalls(ApplyObservationMasking(ms, budget))
        /\ Paired(ApplyObservationMasking(ms, budget))
    BY <1>2 DEF ApplyObservationMasking
  <1>4. Strategy \in {"SlidingWindow", "ObservationMasking"}
    BY StrategyAssumption DEF Strategies
  <1>5. QED  BY <1>1, <1>3, <1>4 DEF ManageContext

-----------------------------------------------------------------------------
(* A turn whose calls are being answered.                                    *)

\* The last message that is not a tool result issues these calls; those still
\* open may lack their answer, and no other call does.
OpenTurn(ms, calls, open) ==
    /\ OnlyAssistantCalls(ms)
    /\ NoOrphanResult(ms)
    /\ \E m \in 1..Len(ms) :
          /\ ms[m].calls = calls
          /\ \A i \in (m + 1)..Len(ms) : ms[i].role = "tool"
          /\ \A i \in 1..Len(ms) : \A c \in ms[i].calls :
                \/ i = m /\ c \in open
                \/ \E k \in (i + 1)..Len(ms) :
                      /\ ms[k].id = c
                      /\ \A j \in (i + 1)..k : ms[j].role = "tool"

\* With no call left open, the conversation is complete.
LEMMA ClosedTurnIsPaired ==
    ASSUME NEW ms, NEW calls, NEW open, OpenTurn(ms, calls, open),
           calls \cap open = {}
    PROVE  OnlyAssistantCalls(ms) /\ Paired(ms)
  <1>1. PICK m \in 1..Len(ms) :
          /\ ms[m].calls = calls
          /\ \A i \in 1..Len(ms) : \A c \in ms[i].calls :
                \/ i = m /\ c \in open
                \/ \E k \in (i + 1)..Len(ms) :
                      /\ ms[k].id = c
                      /\ \A j \in (i + 1)..k : ms[j].role = "tool"
    BY DEF OpenTurn
  <1>2. NoOrphanCall(ms)
    BY <1>1 DEF NoOrphanCall
  <1>3. QED  BY <1>2 DEF OpenTurn, Paired

\* The assistant's message opens a turn.
LEMMA ProposalOpensTurn ==
    ASSUME NEW S, NEW ms \in Seq(S), NEW x \in S, x.role = "assistant",
           OnlyAssistantCalls(ms), Paired(ms)
    PROVE  OpenTurn(Append(ms, x), x.calls, x.calls)
  <1> DEFINE t == Append(ms, x)
  <1>1. /\ Len(ms) \in Nat /\ Len(t) = Len(ms) + 1
        /\ t[Len(t)] = x
        /\ \A i \in 1..Len(ms) : t[i] = ms[i]
    BY AppendProperties
  <1> HIDE DEF t
  <1>2. \A i \in 1..Len(t) : i \in 1..Len(ms) \/ i = Len(t)
    BY <1>1
  <1>3. Len(t) \in 1..Len(t) /\ \A i \in (Len(t) + 1)..Len(t) : FALSE
    BY <1>1
  <1>4. OnlyAssistantCalls(t)
    <2>1. SUFFICES ASSUME NEW i \in 1..Len(t), t[i].calls # {}
                   PROVE  t[i].role = "assistant"
      BY DEF OnlyAssistantCalls
    <2>2. QED  BY <1>1, <1>2, <2>1 DEF OnlyAssistantCalls
  <1>5. NoOrphanResult(t)
    <2>1. SUFFICES ASSUME NEW i \in 1..Len(t), t[i].role = "tool"
                   PROVE  \E j \in 1..(i - 1) :
                             /\ t[i].id \in t[j].calls
                             /\ \A q \in (j + 1)..i : t[q].role = "tool"
      BY DEF NoOrphanResult
    <2>2. i \in 1..Len(ms) /\ ms[i].role = "tool"
      BY <1>1, <1>2, <2>1
    <2>3. PICK j \in 1..(i - 1) :
            /\ ms[i].id \in ms[j].calls
            /\ \A q \in (j + 1)..i : ms[q].role = "tool"
      BY <2>2 DEF Paired, NoOrphanResult
    <2>4. j \in 1..Len(ms) /\ \A q \in (j + 1)..i : q \in 1..Len(ms)
      BY <1>1, <2>2
    <2>5. QED  BY <1>1, <2>2, <2>3, <2>4
  <1>6. ASSUME NEW i \in 1..Len(t), NEW c \in t[i].calls, i # Len(t)
        PROVE  \E k \in (i + 1)..Len(t) :
                  /\ t[k].id = c
                  /\ \A j \in (i + 1)..k : t[j].role = "tool"
    <2>1. i \in 1..Len(ms) /\ c \in ms[i].calls
      BY <1>1, <1>2, <1>6
    <2>2. PICK k \in (i + 1)..Len(ms) :
            /\ ms[k].id = c
            /\ \A j \in (i + 1)..k : ms[j].role = "tool"
      BY <2>1 DEF Paired, NoOrphanCall
    <2>3. /\ k \in 1..Len(ms) /\ k \in (i + 1)..Len(t)
          /\ \A j \in (i + 1)..k : j \in 1..Len(ms)
      BY <1>1, <2>1
    <2>4. t[k].id = c /\ \A j \in (i + 1)..k : t[j].role = "tool"
      BY <1>1, <2>2, <2>3
    <2>5. QED  BY <2>3, <2>4
  <1>7. OpenTurn(t, x.calls, x.calls)
    <2>1. \A i \in 1..Len(t) : \A c \in t[i].calls :
             \/ i = Len(t) /\ c \in x.calls
             \/ \E k \in (i + 1)..Len(t) :
                   /\ t[k].id = c
                   /\ \A j \in (i + 1)..k : t[j].role = "tool"
      BY <1>1, <1>6
    <2>2. t[Len(t)].calls = x.calls
      BY <1>1
    <2>3. \A i \in (Len(t) + 1)..Len(t) : t[i].role = "tool"
      BY <1>3
    <2>4. QED  BY <1>3, <1>4, <1>5, <2>1, <2>2, <2>3 DEF OpenTurn
  <1>8. QED  BY <1>7 DEF t

\* t adds results of these calls to ms, which answer the open calls but those
\* left.
Answers(ms, t, calls, open, left) ==
    /\ Len(t) >= Len(ms)
    /\ \A i \in 1..Len(ms) : t[i] = ms[i]
    /\ \A i \in (Len(ms) + 1)..Len(t) :
          t[i].role = "tool" /\ t[i].calls = {} /\ t[i].id \in calls
    /\ \A c \in open :
          c \in left \/ \E i \in (Len(ms) + 1)..Len(t) : t[i].id = c

LEMMA AnswersCloseCalls ==
    ASSUME NEW S, NEW ms \in Seq(S), NEW t \in Seq(S),
           NEW calls, NEW open, NEW left,
           OpenTurn(ms, calls, open), Answers(ms, t, calls, open, left)
    PROVE  OpenTurn(t, calls, left)
  <1> DEFINE new == (Len(ms) + 1)..Len(t)
  <1>0. /\ Len(t) >= Len(ms)
        /\ \A i \in 1..Len(ms) : t[i] = ms[i]
        /\ \A i \in new :
              t[i].role = "tool" /\ t[i].calls = {} /\ t[i].id \in calls
        /\ \A c \in open : c \in left \/ \E i \in new : t[i].id = c
    BY DEF Answers
  <1>1. Len(ms) \in Nat /\ Len(t) \in Nat
    OBVIOUS
  <1>2. \A i \in 1..Len(t) : i \in 1..Len(ms) \/ i \in new
    BY <1>1
  <1>3. \A i \in 1..Len(ms) : i \in 1..Len(t)
    BY <1>0, <1>1
  <1>4. PICK m \in 1..Len(ms) :
          /\ ms[m].calls = calls
          /\ \A i \in (m + 1)..Len(ms) : ms[i].role = "tool"
          /\ \A i \in 1..Len(ms) : \A c \in ms[i].calls :
                \/ i = m /\ c \in open
                \/ \E k \in (i + 1)..Len(ms) :
                      /\ ms[k].id = c
                      /\ \A j \in (i + 1)..k : ms[j].role = "tool"
    BY DEF OpenTurn
  <1>5. /\ m \in 1..Len(t) /\ m \in Nat
        /\ \A i \in (m + 1)..Len(t) : i \in (m + 1)..Len(ms) \/ i \in new
        /\ \A i \in (m + 1)..Len(ms) : i \in 1..Len(ms)
    BY <1>0, <1>1
  <1>6. \A i \in (m + 1)..Len(t) : t[i].role = "tool"
    BY <1>0, <1>4, <1>5
  <1>7. OnlyAssistantCalls(t)
    <2>1. SUFFICES ASSUME NEW i \in 1..Len(t), t[i].calls # {}
                   PROVE  t[i].role = "assistant"
      BY DEF OnlyAssistantCalls
    <2>2. i \in 1..Len(ms)
      BY <1>0, <1>2, <2>1
    <2>3. QED  BY <1>0, <2>1, <2>2 DEF OpenTurn, OnlyAssistantCalls
  <1>8. NoOrphanResult(t)
    <2>1. SUFFICES ASSUME NEW i \in 1..Len(t), t[i].role = "tool"
                   PROVE  \E j \in 1..(i - 1) :
                             /\ t[i].id \in t[j].calls
                             /\ \A q \in (j + 1)..i : t[q].role = "tool"
      BY DEF NoOrphanResult
    <2>2. CASE i \in 1..Len(ms)
      <3>1. ms[i].role = "tool"
        BY <1>0, <2>1, <2>2
      <3>2. PICK j \in 1..(i - 1) :
              /\ ms[i].id \in ms[j].calls
              /\ \A q \in (j + 1)..i : ms[q].role = "tool"
        BY <2>2, <3>1 DEF OpenTurn, NoOrphanResult
      <3>3. j \in 1..Len(ms) /\ \A q \in (j + 1)..i : q \in 1..Len(ms)
        BY <1>1, <2>2
      <3>4. QED  BY <1>0, <2>2, <3>2, <3>3
    <2>3. CASE i \in new
      <3>1. m \in 1..(i - 1) /\ \A q \in (m + 1)..i : q \in (m + 1)..Len(t)
        BY <1>1, <2>3
      <3>2. t[i].id \in t[m].calls
        BY <1>0, <1>4, <2>3
      <3>3. QED  BY <1>6, <3>1, <3>2
    <2>4. QED  BY <1>2, <2>1, <2>2, <2>3
  <1>9. ASSUME NEW i \in 1..Len(t), NEW c \in t[i].calls, ~(i = m /\ c \in left)
        PROVE  \E k \in (i + 1)..Len(t) :
                  /\ t[k].id = c
                  /\ \A j \in (i + 1)..k : t[j].role = "tool"
    <2>1. i \in 1..Len(ms) /\ c \in ms[i].calls
      BY <1>0, <1>2, <1>9
    <2>2. CASE i = m /\ c \in open
      <3>1. PICK k \in new : t[k].id = c
        BY <1>0, <1>9, <2>2
      <3>2. k \in (i + 1)..Len(t) /\ \A j \in (i + 1)..k : j \in (m + 1)..Len(t)
        BY <1>1, <1>5, <2>2
      <3>3. QED  BY <1>6, <3>1, <3>2
    <2>3. CASE ~(i = m /\ c \in open)
      <3>1. PICK k \in (i + 1)..Len(ms) :
              /\ ms[k].id = c
              /\ \A j \in (i + 1)..k : ms[j].role = "tool"
        BY <1>4, <2>1, <2>3
      <3>2. /\ k \in 1..Len(ms) /\ k \in (i + 1)..Len(t)
            /\ \A j \in (i + 1)..k : j \in 1..Len(ms)
        BY <1>0, <1>1, <2>1
      <3>3. t[k].id = c /\ \A j \in (i + 1)..k : t[j].role = "tool"
        BY <1>0, <3>1, <3>2
      <3>4. QED  BY <3>2, <3>3
    <2>4. QED  BY <2>2, <2>3
  <1>10. t[m].calls = calls
    BY <1>0, <1>4
  <1>11. \A i \in 1..Len(t) : \A c \in t[i].calls :
            \/ i = m /\ c \in left
            \/ \E k \in (i + 1)..Len(t) :
                  /\ t[k].id = c
                  /\ \A j \in (i + 1)..k : t[j].role = "tool"
    BY <1>9
  <1>12. QED
    BY <1>5, <1>6, <1>7, <1>8, <1>10, <1>11 DEF OpenTurn

-----------------------------------------------------------------------------
(* Types.                                                                    *)

LEMMA CallIdsType ==
    ASSUME NEW n \in 1..max_iterations
    PROVE  CallIds(n) \subseteq AllCallIds
  BY DEF AllCallIds

LEMMA NoCallIsNoCallId == NoCall \notin AllCallIds
  BY LoopAssumption DEF NoCall, AllCallIds, CallIds

\* A managed conversation is a conversation.
LEMMA ManagedConversationType ==
    ASSUME NEW ms \in Seq(Messages), NEW budget
    PROVE  ManageContext(ms, budget) \in Seq(Messages)
  <1>1. Plain("user") \in Messages
    <2>1. NoCall \in Ids /\ {} \in SUBSET AllCallIds /\ 1 \in Nat
      BY DEF Ids
    <2>2. QED  BY <2>1 DEF Plain, Messages
  <1>2. \A m \in Messages : [m EXCEPT !.tokens = 1] \in Messages
    BY DEF Messages
  <1>3. QED  BY <1>1, <1>2, ManageContextType

LEMMA ToolResultType ==
    ASSUME NEW c \in Ids, NEW size \in Nat
    PROVE  ToolResult(c, size) \in Messages
  <1>1. {} \in SUBSET AllCallIds
    OBVIOUS
  <1>2. QED  BY <1>1 DEF ToolResult, Messages

LEMMA AssistantType ==
    ASSUME NEW calls \in SUBSET AllCallIds
    PROVE  Assistant(calls) \in Messages
  <1>1. NoCall \in Ids /\ {} \in SUBSET AllCallIds /\ 1 \in Nat
    BY DEF Ids
  <1>2. QED  BY <1>1 DEF Assistant, Plain, Messages

LEMMA JournalType ==
    ASSUME TypeOK, NEW event, NEW n \in Nat, NEW d \in Nat,
           event \in {"Started", "ReasoningComplete", "PolicyEvaluated",
                      "ToolsDispatched", "ObservationsCollected", "Terminated"},
           Journal(Entry(event, n, d))
    PROVE  journal' \in Seq(Entries)
  <1>1. iteration \in Nat /\ journal \in Seq(Entries)
    BY LoopAssumption DEF TypeOK
  <1>2. Entry(event, n, d) \in Entries
    BY <1>1 DEF Entry, Entries
  <1> HIDE DEF Entries
  <1>3. QED  BY <1>1, <1>2 DEF Journal

LEMMA TurnLengths ==
    ASSUME TypeOK
    PROVE  /\ Len(turn.approved) \in Nat
           /\ Len(turn.denied) \in Nat
           /\ Len(proposed) \in Nat
           /\ Len(observations) \in Nat
  <1>1. turn.approved \in Seq(Actions) /\ turn.denied \in Seq(Actions)
    BY DEF TypeOK, Turns
  <1>2. QED  BY <1>1 DEF TypeOK

LEMMA NewTurnType == NewTurn \in Turns
  <1>1. <<>> \in Seq(Actions) /\ FALSE \in BOOLEAN
    OBVIOUS
  <1>2. QED  BY <1>1 DEF NewTurn, Turns

LEMMA InitType == Init => TypeOK
  <1> SUFFICES ASSUME Init PROVE TypeOK
    OBVIOUS
  <1>1. Plain("system") \in Messages /\ Plain("user") \in Messages
    <2>1. NoCall \in Ids /\ {} \in SUBSET AllCallIds /\ 1 \in Nat
      BY DEF Ids
    <2>2. QED  BY <2>1 DEF Plain, Messages
  <1>2. <<Plain("system"), Plain("user")>> \in Seq(Messages)
    BY <1>1
  <1>3. turn \in Turns
    BY NewTurnType DEF Init
  <1>4. QED
    BY <1>2, <1>3, LoopAssumption DEF Init, TypeOK, Pcs, Results

\* A proposal is typed and brings the turn its conversation message.
LEMMA ProposeType ==
    ASSUME TypeOK, iteration < max_iterations,
           NEW actions \in Seq(Actions), NEW message \in Messages,
           Propose(actions, message)
    PROVE  TypeOK'
  <1>1. iteration' \in 0..max_iterations
    BY LoopAssumption DEF TypeOK, Propose
  <1>2. total_tokens' \in Nat
    BY LoopAssumption DEF TypeOK, Propose
  <1>3. turn' \in Turns
    BY NewTurnType DEF Propose
  <1>4. QED
    BY <1>1, <1>2, <1>3 DEF TypeOK, Propose, Pcs

\* A call of the turn about to be proposed is an action with a fresh id.
LEMMA CallActionType ==
    ASSUME TypeOK, iteration < max_iterations,
           NEW kind \in CallKinds, NEW i \in 1..MaxCalls
    PROVE  /\ Action(kind, <<iteration + 1, i>>) \in Actions
           /\ Action(kind, <<iteration + 1, i>>).id = <<iteration + 1, i>>
           /\ Action(kind, <<iteration + 1, i>>).kind = kind
           /\ <<iteration + 1, i>> \in CallIds(iteration + 1)
           /\ <<iteration + 1, i>> \in AllCallIds
           /\ kind \in {"tool", "malformed", "delegate"}
  <1>1. iteration + 1 \in 1..max_iterations
    BY LoopAssumption DEF TypeOK
  <1>2. <<iteration + 1, i>> \in CallIds(iteration + 1)
    BY DEF CallIds
  <1>3. <<iteration + 1, i>> \in AllCallIds
    BY <1>1, <1>2, CallIdsType
  <1>4. kind \in {"tool", "malformed", "delegate"}
    BY LoopAssumption
  <1>5. Action(kind, <<iteration + 1, i>>) \in Actions
    BY <1>3, <1>4 DEF Action, Actions, Ids
  <1>6. QED  BY <1>2, <1>3, <1>4, <1>5 DEF Action

\* What the model proposes when it calls tools.
CallActions(n, kinds) == [i \in 1..n |-> Action(kinds[i], <<iteration + 1, i>>)]

LEMMA CallActionsType ==
    ASSUME TypeOK, iteration < max_iterations,
           NEW n \in 1..MaxCalls, NEW kinds \in [1..n -> CallKinds]
    PROVE  /\ CallActions(n, kinds) \in Seq(Actions)
           /\ Len(CallActions(n, kinds)) = n
           /\ \A i \in 1..n :
                 /\ CallActions(n, kinds)[i].id = <<iteration + 1, i>>
                 /\ CallActions(n, kinds)[i].id \in CallIds(iteration + 1)
                 /\ CallActions(n, kinds)[i].id \in AllCallIds
                 /\ CallActions(n, kinds)[i].kind \in {"tool", "malformed", "delegate"}
  <1>1. n \in Nat
    BY LoopAssumption
  <1>2. ASSUME NEW i \in 1..n
        PROVE  /\ CallActions(n, kinds)[i].id = <<iteration + 1, i>>
               /\ CallActions(n, kinds)[i].id \in CallIds(iteration + 1)
               /\ CallActions(n, kinds)[i].id \in AllCallIds
               /\ CallActions(n, kinds)[i].kind \in {"tool", "malformed", "delegate"}
               /\ CallActions(n, kinds)[i] \in Actions
    <2> DEFINE act == Action(kinds[i], <<iteration + 1, i>>)
    <2>1. CallActions(n, kinds)[i] = act
      BY DEF CallActions
    <2>2. kinds[i] \in CallKinds /\ i \in 1..MaxCalls
      BY LoopAssumption
    <2>3. /\ act \in Actions
          /\ act.id = <<iteration + 1, i>>
          /\ act.kind = kinds[i]
          /\ <<iteration + 1, i>> \in CallIds(iteration + 1)
          /\ <<iteration + 1, i>> \in AllCallIds
          /\ kinds[i] \in {"tool", "malformed", "delegate"}
      BY <2>2, CallActionType
    <2> HIDE DEF act
    <2>4. QED  BY <2>1, <2>3
  <1>3. CallActions(n, kinds) \in Seq(Actions) /\ Len(CallActions(n, kinds)) = n
    BY <1>1, <1>2 DEF CallActions
  <1>4. QED  BY <1>2, <1>3

-----------------------------------------------------------------------------
(* The inductive invariant: what holds of the turn in every phase.           *)

\* A result ends the run; an inference starts within the iteration budget.
PhaseInv ==
    /\ result # NoResult <=> pc = "done"
    /\ pc = "complete" => iteration < max_iterations

\* Actions still to be judged: calls of this turn, distinct, not yet permitted.
ProposedInv ==
    \A i \in 1..Len(proposed) :
        /\ proposed[i].kind # "terminate"
        /\ proposed[i].kind = "respond" => proposed[i].id = NoCall
        /\ proposed[i].kind # "respond" =>
              /\ proposed[i].id \in CallIds(iteration)
              /\ proposed[i].id \in AllCallIds \ permitted
        /\ \A j \in 1..Len(proposed) : i # j => proposed[i].id # proposed[j].id

\* Approved calls are permitted calls of this turn.
ApprovedInv ==
    \A i \in 1..Len(turn.approved) :
        turn.approved[i].kind \in {"tool", "delegate"} =>
            turn.approved[i].id \in CallIds(iteration) \cap permitted

\* A call of this turn that ran was observed.
ObservedInv == \A c \in executed \cap CallIds(iteration) : Observed(c)

\* No call of a later turn was permitted or ran.
HistoryInv == \A c \in permitted \cup executed : c[1] <= iteration

Inv == TypeOK /\ PhaseInv /\ ProposedInv /\ ApprovedInv /\ ObservedInv /\ HistoryInv

LEMMA InitInv == Init => Inv
  <1> SUFFICES ASSUME Init PROVE Inv
    OBVIOUS
  <1>1. TypeOK
    BY InitType
  <1>2. PhaseInv
    BY DEF Init, PhaseInv
  <1>3. ProposedInv /\ ApprovedInv
    <2>1. proposed = <<>> /\ turn.approved = <<>>
      BY DEF Init, NewTurn
    <2>2. Len(proposed) = 0 /\ Len(turn.approved) = 0
      BY <2>1
    <2>3. QED  BY <2>2 DEF ProposedInv, ApprovedInv
  <1>4. ObservedInv /\ HistoryInv
    BY DEF Init, ObservedInv, HistoryInv
  <1>5. QED  BY <1>1, <1>2, <1>3, <1>4 DEF Inv

\* The steps that only move the program counter and write the journal.
JournalSteps ==
    Start \/ ReasoningComplete \/ PolicyEvaluated \/ ToolsDispatched \/ ObserveResults
        \/ PersistLearnings

\* What these steps leave alone.
LEMMA JournalStep ==
    ASSUME Inv, JournalSteps
    PROVE  /\ Inv'
           /\ UNCHANGED <<result, iteration, permitted, executed>>
  <1>1. UNCHANGED <<iteration, total_tokens, conversation, proposed, turn,
                    observations, result, permitted, executed>>
    BY DEF JournalSteps, Start, ReasoningComplete, PolicyEvaluated, ToolsDispatched,
           ObserveResults, PersistLearnings
  <1>2. pc' \in Pcs /\ pc' # "done" /\ pc # "done" /\ pc' # "complete"
    BY DEF JournalSteps, Start, ReasoningComplete, PolicyEvaluated, ToolsDispatched,
           ObserveResults, PersistLearnings, AfterPolicy, Pcs
  <1>3. journal' \in Seq(Entries)
    <2>0. TypeOK
      BY DEF Inv
    <2>1. /\ Len(turn.approved) \in Nat
          /\ Len(turn.denied) \in Nat
          /\ Len(proposed) \in Nat
          /\ Len(observations) \in Nat
          /\ 0 \in Nat
      BY <2>0, TurnLengths
    <2> DEFINE judged == Len(turn.approved) + Len(turn.denied)
    <2>a. judged \in Nat
      <3>1. \A m, n \in Nat : m + n \in Nat
        OBVIOUS
      <3>2. QED  BY <2>1, <3>1, Zenon
    <2> HIDE DEF judged
    <2>2. CASE Start
      BY <2>0, <2>1, <2>2, JournalType DEF Start
    <2>3. CASE ReasoningComplete
      BY <2>0, <2>1, <2>3, JournalType DEF ReasoningComplete
    <2>4. CASE PolicyEvaluated
      <3>1. Journal(Entry("PolicyEvaluated", judged, Len(turn.denied)))
        BY <2>4 DEF PolicyEvaluated, judged
      <3>2. QED  BY <3>1, <2>0, <2>1, <2>a, JournalType
    <2>5. CASE ToolsDispatched
      BY <2>0, <2>1, <2>5, JournalType DEF ToolsDispatched
    <2>6. CASE ObserveResults
      BY <2>0, <2>1, <2>6, JournalType DEF ObserveResults
    <2>7. CASE PersistLearnings
      BY <2>0, <2>7 DEF PersistLearnings, TypeOK
    <2>8. QED
      BY <2>2, <2>3, <2>4, <2>5, <2>6, <2>7 DEF JournalSteps
  <1>4. TypeOK'
    BY <1>1, <1>2, <1>3 DEF Inv, TypeOK
  <1>5. PhaseInv'
    BY <1>1, <1>2 DEF Inv, PhaseInv
  <1>6. ProposedInv' /\ ApprovedInv' /\ ObservedInv' /\ HistoryInv'
    BY <1>1 DEF Inv, ProposedInv, ApprovedInv, ObservedInv, HistoryInv, Observed
  <1>7. QED  BY <1>1, <1>4, <1>5, <1>6 DEF Inv

\* The steps that end the run.
EndSteps == StopAtBudget \/ InferenceFails \/ Complete \/ Timeout

LEMMA EndStep ==
    ASSUME Inv, EndSteps
    PROVE  /\ Inv'
           /\ result = NoResult /\ result' # NoResult
           /\ UNCHANGED <<iteration, permitted, executed>>
  <1>1. UNCHANGED <<iteration, conversation, proposed, turn, observations,
                    permitted, executed>>
    BY DEF EndSteps, StopAtBudget, InferenceFails, Complete, Timeout
  <1>2. pc # "done" /\ pc' = "done"
    BY DEF EndSteps, StopAtBudget, InferenceFails, Complete, Timeout, Terminate, UnderTimeout
  <1>3. journal' \in Seq(Entries)
    <2>1. CASE Complete
      <3>1. TypeOK /\ 0 \in Nat
        BY DEF Inv
      <3>2. QED  BY <2>1, <3>1, JournalType DEF Complete
    <2>2. CASE ~Complete
      BY <2>2 DEF EndSteps, StopAtBudget, InferenceFails, Timeout, Inv, TypeOK
    <2>3. QED  BY <2>1, <2>2
  <1>4. total_tokens' \in Nat
    <2>1. CASE InferenceFails
      <3>1. PICK u \in Usages \cup {0} : total_tokens' = total_tokens + u
        BY <2>1 DEF InferenceFails
      <3>2. u \in Nat
        BY LoopAssumption
      <3>3. QED  BY <3>1, <3>2 DEF Inv, TypeOK
    <2>2. CASE ~InferenceFails
      BY <2>2 DEF EndSteps, StopAtBudget, Complete, Timeout, Inv, TypeOK
    <2>3. QED  BY <2>1, <2>2
  <1>5. iteration \in Nat /\ total_tokens \in Nat /\ turn.output \in {"", "text"}
    <2>1. iteration \in Nat /\ total_tokens \in Nat /\ turn \in Turns
      BY LoopAssumption DEF Inv, TypeOK
    <2>2. QED  BY <2>1 DEF Turns
  <1>6. result' \in Results /\ result' # NoResult
    <2>1. CASE StopAtBudget
      <3>1. PICK reason \in {"MaxIterations", "MaxTokens"} :
              result' = LoopResult(reason, "")
        BY <2>1 DEF StopAtBudget, Terminate
      <3>2. QED  BY <3>1, <1>5 DEF LoopResult, Results, NoResult
    <2>2. CASE InferenceFails
      <3>1. result' = [LoopResult("Error", "") EXCEPT !.total_usage = total_tokens']
        BY <2>2 DEF InferenceFails
      <3>2. result' = [reason |-> "Error", output |-> "", iterations |-> iteration,
                       total_usage |-> total_tokens']
        BY <3>1 DEF LoopResult
      <3>3. QED  BY <3>2, <1>4, <1>5 DEF Results, NoResult
    <2>3. CASE Complete
      BY <2>3, <1>5 DEF Complete, LoopResult, Results, NoResult
    <2>4. CASE Timeout
      BY <2>4 DEF Timeout, TimeoutResult, Results, NoResult
    <2>5. QED  BY <2>1, <2>2, <2>3, <2>4 DEF EndSteps
  <1>7. TypeOK'
    BY <1>1, <1>2, <1>3, <1>4, <1>6 DEF Inv, TypeOK, Pcs
  <1>8. PhaseInv' /\ result = NoResult
    BY <1>2, <1>6 DEF Inv, PhaseInv
  <1>9. ProposedInv' /\ ApprovedInv' /\ ObservedInv' /\ HistoryInv'
    BY <1>1 DEF Inv, ProposedInv, ApprovedInv, ObservedInv, HistoryInv, Observed
  <1>10. QED  BY <1>1, <1>6, <1>7, <1>8, <1>9 DEF Inv

\* The conversation is cut and an inference starts.
LEMMA BeginReasoningStep ==
    ASSUME Inv, BeginReasoning
    PROVE  Inv' /\ UNCHANGED <<result, iteration, permitted, executed>>
  <1>1. UNCHANGED <<iteration, total_tokens, proposed, turn, observations,
                    journal, result, permitted, executed>>
    BY DEF BeginReasoning
  <1>2. pc = "inject" /\ pc' = "complete"
    BY DEF BeginReasoning
  <1>3. conversation' \in Seq(Messages)
    BY ManagedConversationType DEF BeginReasoning, Inv, TypeOK
  <1>4. TypeOK'
    BY <1>1, <1>2, <1>3 DEF Inv, TypeOK, Pcs
  <1>5. iteration < max_iterations
    <2>1. ~Exhausted("MaxIterations")
      BY DEF BeginReasoning
    <2>2. QED  BY <2>1, LoopAssumption DEF Exhausted, Inv, TypeOK
  <1>6. PhaseInv'
    BY <1>1, <1>2, <1>5 DEF Inv, PhaseInv
  <1>7. ProposedInv' /\ ApprovedInv' /\ ObservedInv' /\ HistoryInv'
    BY <1>1 DEF Inv, ProposedInv, ApprovedInv, ObservedInv, HistoryInv, Observed
  <1>8. QED  BY <1>1, <1>4, <1>6, <1>7 DEF Inv

\* A new turn: nothing of it was permitted, ran or was observed yet.
LEMMA NewTurnStep ==
    ASSUME Inv, NEW actions \in Seq(Actions), NEW message \in Messages,
           Propose(actions, message),
           ProposedInv'
    PROVE  /\ Inv'
           /\ iteration < max_iterations
           /\ iteration' = iteration + 1
           /\ UNCHANGED <<result, permitted, executed>>
  <1>1. iteration < max_iterations
    BY DEF Propose, Inv, PhaseInv
  <1>2. TypeOK'
    BY <1>1, ProposeType DEF Inv
  <1>3. PhaseInv'
    BY DEF Propose, Inv, PhaseInv
  <1>4. Len(turn'.approved) = 0
    BY DEF Propose, NewTurn
  <1>5. ApprovedInv'
    BY <1>4 DEF ApprovedInv
  <1>6. iteration \in Nat /\ iteration' = iteration + 1
    BY LoopAssumption DEF Propose, Inv, TypeOK
  <1>7. UNCHANGED <<result, permitted, executed>>
    BY DEF Propose
  <1>8. \A c \in AllCallIds : c[1] \in Nat
    BY LoopAssumption DEF AllCallIds, CallIds
  <1>9. permitted \subseteq AllCallIds /\ executed \subseteq AllCallIds
    BY DEF Inv, TypeOK
  <1>10. HistoryInv'
    BY <1>6, <1>7, <1>8, <1>9 DEF Inv, HistoryInv
  <1>11. \A c \in CallIds(iteration + 1) : c[1] = iteration + 1
    BY DEF CallIds
  <1>12. executed \cap CallIds(iteration + 1) = {}
    BY <1>6, <1>8, <1>9, <1>11 DEF Inv, HistoryInv
  <1>13. ObservedInv'
    BY <1>6, <1>7, <1>12 DEF ObservedInv
  <1>14. QED
    BY <1>1, <1>2, <1>3, <1>5, <1>6, <1>7, <1>10, <1>13 DEF Inv

LEMMA ProposeTextStep ==
    ASSUME Inv, ProposeText
    PROVE  /\ Inv'
           /\ iteration < max_iterations
           /\ iteration' = iteration + 1
           /\ UNCHANGED <<result, permitted, executed>>
  <1>1. Propose(<<Respond>>, Plain("assistant"))
    BY DEF ProposeText
  <1>2. Respond \in Actions /\ Respond.kind = "respond" /\ Respond.id = NoCall
    BY DEF Respond, Action, Actions, Ids
  <1>3. Plain("assistant") \in Messages
    <2>1. NoCall \in Ids /\ {} \in SUBSET AllCallIds /\ 1 \in Nat
      BY DEF Ids
    <2>2. QED  BY <2>1 DEF Plain, Messages
  <1>4. proposed' = <<Respond>>
    BY <1>1 DEF Propose
  <1>5. Len(proposed') = 1 /\ proposed'[1] = Respond
    BY <1>4
  <1>6. ProposedInv'
    BY <1>2, <1>5 DEF ProposedInv
  <1>7. <<Respond>> \in Seq(Actions)
    BY <1>2
  <1>8. QED  BY <1>1, <1>3, <1>6, <1>7, NewTurnStep

LEMMA ProposeCallsStep ==
    ASSUME Inv, ProposeCalls
    PROVE  /\ Inv'
           /\ iteration < max_iterations
           /\ iteration' = iteration + 1
           /\ UNCHANGED <<result, permitted, executed>>
  <1>0. PICK n \in 1..MaxCalls : \E kinds \in [1..n -> CallKinds] :
          Propose(CallActions(n, kinds),
                  Assistant({CallActions(n, kinds)[i].id : i \in 1..n}))
    BY Zenon DEF ProposeCalls, CallActions
  <1>1. PICK kinds \in [1..n -> CallKinds] :
          Propose(CallActions(n, kinds),
                  Assistant({CallActions(n, kinds)[i].id : i \in 1..n}))
    BY <1>0
  <1> DEFINE actions == CallActions(n, kinds)
  <1>2. iteration < max_iterations /\ TypeOK /\ iteration \in Nat
    BY <1>1, LoopAssumption DEF Propose, Inv, PhaseInv, TypeOK
  <1>3. /\ actions \in Seq(Actions)
        /\ Len(actions) = n
        /\ \A i \in 1..n :
              /\ actions[i].id = <<iteration + 1, i>>
              /\ actions[i].id \in CallIds(iteration + 1)
              /\ actions[i].id \in AllCallIds
              /\ actions[i].kind \in {"tool", "malformed", "delegate"}
    BY <1>2, CallActionsType
  <1>4. proposed' = actions /\ iteration' = iteration + 1 /\ permitted' = permitted
    BY <1>1 DEF Propose
  <1> HIDE DEF actions
  <1>5. \A i \in 1..n : actions[i].id \notin permitted
    <2>1. \A c \in permitted : c[1] <= iteration
      BY DEF Inv, HistoryInv
    <2>2. \A i \in 1..n : actions[i].id[1] = iteration + 1
      BY <1>3
    <2>3. QED  BY <1>2, <2>1, <2>2
  <1>6. \A i, j \in 1..n : i # j => actions[i].id # actions[j].id
    BY <1>3
  <1>7. ProposedInv'
    BY <1>3, <1>4, <1>5, <1>6 DEF ProposedInv
  <1>8. {actions[i].id : i \in 1..n} \in SUBSET AllCallIds
    BY <1>3
  <1>9. Assistant({actions[i].id : i \in 1..n}) \in Messages
    BY <1>8, AssistantType
  <1>10. Propose(actions, Assistant({actions[i].id : i \in 1..n}))
    BY <1>1 DEF actions
  <1>11. QED  BY <1>3, <1>7, <1>9, <1>10, NewTurnStep

\* The gate judges the first action: its call is new to the history.
LEMMA CheckPolicyStep ==
    ASSUME Inv, CheckPolicy
    PROVE  /\ Inv'
           /\ UNCHANGED <<result, iteration, executed>>
           /\ \/ permitted' = permitted
              \/ \E c \in CallIds(iteration) \ permitted :
                    permitted' = permitted \cup {c}
  <1> DEFINE a == Head(proposed)
  <1>1. /\ proposed # <<>> /\ pc = "gate"
        /\ proposed' = Tail(proposed)
        /\ Judge(a)
        /\ UNCHANGED <<pc, iteration, total_tokens, observations, journal, result, executed>>
    BY DEF CheckPolicy
  <1>2. proposed \in Seq(Actions) /\ turn \in Turns /\ conversation \in Seq(Messages)
    BY DEF Inv, TypeOK
  <1>3. /\ Len(proposed) \in Nat \ {0}
        /\ a = proposed[1]
        /\ a \in Actions
        /\ proposed' \in Seq(Actions)
        /\ Len(proposed') = Len(proposed) - 1
        /\ \A i \in 1..Len(proposed') : proposed'[i] = proposed[i + 1]
    BY <1>1, <1>2
  <1>4. /\ a.kind # "terminate"
        /\ a.kind = "respond" => a.id = NoCall
        /\ a.kind # "respond" => a.id \in CallIds(iteration) /\ a.id \in AllCallIds \ permitted
        /\ \A j \in 2..Len(proposed) : a.id # proposed[j].id
    BY <1>3 DEF Inv, ProposedInv
  <1> HIDE DEF a
  <1>5. Action("terminate", NoCall) \in Actions
    BY DEF Action, Actions, Ids
  <1> DEFINE Kept(b) == b = a \/ b = Action("terminate", NoCall)
  <1>6. \/ Deny(a)
        \/ \E b, terminal, output :
              /\ Kept(b) /\ terminal \in BOOLEAN /\ output \in {"", "text"}
              /\ Approve(b, terminal, output)
    BY <1>1 DEF Judge
  <1>7. \/ permitted' = permitted
        \/ a.id \in AllCallIds /\ permitted' = permitted \cup {a.id}
    <2>1. CASE Deny(a)
      BY <2>1 DEF Deny
    <2>2. ASSUME NEW b, NEW terminal, NEW output, Kept(b), Approve(b, terminal, output)
          PROVE  \/ permitted' = permitted
                 \/ a.id \in AllCallIds /\ permitted' = permitted \cup {a.id}
      <3>1. CASE b = a
        BY <2>2, <3>1 DEF Approve
      <3>2. CASE b = Action("terminate", NoCall)
        BY <2>2, <3>2, NoCallIsNoCallId DEF Approve, Action
      <3>3. QED  BY <2>2, <3>1, <3>2
    <2>3. QED  BY <1>6, <2>1, <2>2
  <1>8. a.id \in AllCallIds => a.id \in CallIds(iteration) \ permitted
    BY <1>4, NoCallIsNoCallId
  <1>9. turn' \in Turns /\ conversation' \in Seq(Messages)
    <2>1. turn.approved \in Seq(Actions) /\ turn.denied \in Seq(Actions)
      BY <1>2 DEF Turns
    <2>2. CASE Deny(a)
      <3>1. turn' = [turn EXCEPT !.denied = Append(@, a)] /\ conversation' = AnswerDenied(a)
        BY <2>2 DEF Deny
      <3>2. Append(turn.denied, a) \in Seq(Actions)
        BY <2>1, <1>3
      <3>3. turn' \in Turns
        BY <3>1, <3>2, <1>2 DEF Turns
      <3>4. ToolResult(a.id, 1) \in Messages
        BY <1>3, ToolResultType DEF Actions
      <3>5. QED  BY <3>1, <3>3, <3>4, <1>2 DEF AnswerDenied
    <2>3. ASSUME NEW b, NEW terminal \in BOOLEAN, NEW output \in {"", "text"},
                 Kept(b), Approve(b, terminal, output)
          PROVE  turn' \in Turns /\ conversation' = conversation
      <3>1. turn' = [turn EXCEPT !.approved = Append(@, b), !.terminal = @ \/ terminal,
                                 !.output = IF output # "" THEN output ELSE @]
        BY <2>3 DEF Approve
      <3>2. Append(turn.approved, b) \in Seq(Actions)
        <4>1. b \in Actions
          BY <2>3, <1>3, <1>5
        <4>2. QED  BY <2>1, <4>1, AppendProperties, Zenon
      <3>3. (turn.terminal \/ terminal) \in BOOLEAN
        OBVIOUS
      <3>4. (IF output # "" THEN output ELSE turn.output) \in {"", "text"}
        BY <1>2 DEF Turns
      <3>5. turn' \in Turns
        BY <3>1, <3>2, <3>3, <3>4, <1>2 DEF Turns
      <3>6. QED  BY <2>3, <3>5 DEF Approve
    <2>4. QED  BY <1>2, <1>6, <2>2, <2>3
  <1>10. permitted' \subseteq AllCallIds
    BY <1>7 DEF Inv, TypeOK
  <1>11. TypeOK'
    BY <1>1, <1>3, <1>9, <1>10 DEF Inv, TypeOK
  <1>12. PhaseInv'
    BY <1>1 DEF Inv, PhaseInv
  <1>13. ProposedInv'
    <2>1. ASSUME NEW i \in 1..Len(proposed')
          PROVE  /\ proposed'[i] = proposed[i + 1]
                 /\ i + 1 \in 2..Len(proposed)
      BY <1>3
    <2>2. ASSUME NEW i \in 1..Len(proposed')
          PROVE  /\ proposed'[i].kind # "terminate"
                 /\ proposed'[i].kind = "respond" => proposed'[i].id = NoCall
                 /\ proposed'[i].kind # "respond" =>
                       /\ proposed'[i].id \in CallIds(iteration)
                       /\ proposed'[i].id \in AllCallIds \ permitted
                 /\ proposed'[i].id # a.id
      <3>1. proposed'[i] = proposed[i + 1] /\ i + 1 \in 1..Len(proposed) /\ i + 1 \in 2..Len(proposed)
        BY <2>1, <1>3
      <3>2. QED  BY <3>1, <1>4 DEF Inv, ProposedInv
    <2>3. ASSUME NEW i \in 1..Len(proposed'), NEW j \in 1..Len(proposed'), i # j
          PROVE  proposed'[i].id # proposed'[j].id
      <3>1. /\ proposed'[i] = proposed[i + 1] /\ i + 1 \in 1..Len(proposed)
            /\ proposed'[j] = proposed[j + 1] /\ j + 1 \in 1..Len(proposed)
            /\ i + 1 # j + 1
        BY <2>3, <1>3
      <3>2. QED  BY <3>1 DEF Inv, ProposedInv
    <2>4. QED  BY <1>1, <1>7, <2>2, <2>3 DEF ProposedInv
  <1>14. ApprovedInv'
    <2>1. turn.approved \in Seq(Actions)
      BY <1>2 DEF Turns
    <2>2. permitted \subseteq permitted' /\ iteration' = iteration
      BY <1>1, <1>7
    <2>3. CASE Deny(a)
      <3>1. turn'.approved = turn.approved
        BY <2>3, <1>2 DEF Deny, Turns
      <3>2. QED  BY <2>2, <3>1 DEF Inv, ApprovedInv
    <2>4. ASSUME NEW b, NEW terminal, NEW output, Kept(b), Approve(b, terminal, output)
          PROVE  ApprovedInv'
      <3>1. turn'.approved = Append(turn.approved, b)
        BY <2>4, <1>2 DEF Approve, Turns
      <3>2. b.kind \in {"tool", "delegate"} => b = a /\ b.id \in CallIds(iteration) \cap permitted'
        <4>1. CASE b = a
          <5>1. b.kind \in {"tool", "delegate"} => a.id \in AllCallIds /\ a.id \in CallIds(iteration)
            BY <4>1, <1>4
          <5>2. a.id \in AllCallIds => a.id \in permitted'
            BY <2>4, <4>1 DEF Approve
          <5>3. QED  BY <4>1, <5>1, <5>2
        <4>2. CASE b = Action("terminate", NoCall)
          BY <4>2 DEF Action
        <4>3. QED  BY <2>4, <4>1, <4>2
      <3>3. /\ Len(turn'.approved) = Len(turn.approved) + 1
            /\ \A i \in 1..Len(turn.approved) : turn'.approved[i] = turn.approved[i]
            /\ turn'.approved[Len(turn.approved) + 1] = b
            /\ Len(turn.approved) \in Nat
        BY <2>1, <3>1
      <3>4. \A i \in 1..Len(turn.approved) :
               turn.approved[i].kind \in {"tool", "delegate"} =>
                  turn.approved[i].id \in CallIds(iteration) \cap permitted'
        BY <2>2 DEF Inv, ApprovedInv
      <3>5. \A i \in 1..Len(turn'.approved) :
               i \in 1..Len(turn.approved) \/ turn'.approved[i] = b
        BY <3>3
      <3>6. \A i \in 1..Len(turn'.approved) :
               turn'.approved[i].kind \in {"tool", "delegate"} =>
                  turn'.approved[i].id \in CallIds(iteration) \cap permitted'
        BY <3>2, <3>3, <3>4, <3>5
      <3>7. CallIds(iteration') = CallIds(iteration)
        BY <2>2 DEF CallIds
      <3>8. QED  BY <3>6, <3>7 DEF ApprovedInv
    <2>5. QED  BY <1>6, <2>3, <2>4
  <1>15. ObservedInv'
    BY <1>1 DEF Inv, ObservedInv, Observed
  <1>16. HistoryInv'
    <2>1. \A c \in CallIds(iteration) : c[1] = iteration
      BY DEF CallIds
    <2>2. iteration \in Nat
      BY LoopAssumption DEF Inv, TypeOK
    <2>3. QED  BY <1>1, <1>7, <1>8, <2>1, <2>2 DEF Inv, HistoryInv
  <1>17. QED
    BY <1>1, <1>7, <1>8, <1>11, <1>12, <1>13, <1>14, <1>15, <1>16 DEF Inv

\* An approved call runs: it is a permitted call of this turn that did not run.
LEMMA RunStep ==
    ASSUME Inv, ExecuteTool \/ Delegate
    PROVE  /\ Inv'
           /\ UNCHANGED <<result, iteration, permitted>>
           /\ \E c \in CallIds(iteration) \cap (permitted \ executed) :
                 executed' = executed \cup {c}
  <1>0. PICK kind \in {"tool", "delegate"} : \E a \in ToDispatch(kind) : pc = "dispatch" /\ Run(a)
    BY DEF ExecuteTool, Delegate
  <1>1. PICK a \in ToDispatch(kind) : pc = "dispatch" /\ Run(a)
    BY <1>0
  <1>2. PICK i \in 1..Len(turn.approved) : a = turn.approved[i]
    BY <1>1 DEF ToDispatch
  <1>3. a.kind \in {"tool", "delegate"} /\ ~Observed(a.id)
    BY <1>1 DEF ToDispatch
  <1>4. a.id \in CallIds(iteration) \cap permitted
    BY <1>2, <1>3 DEF Inv, ApprovedInv
  <1>5. a.id \notin executed
    BY <1>3, <1>4 DEF Inv, ObservedInv
  <1>6. PICK size \in ResultSizes : observations' = Append(observations, ToolResult(a.id, size))
    BY <1>1 DEF Run
  <1>7. /\ executed' = executed \cup {a.id}
        /\ UNCHANGED <<pc, iteration, total_tokens, conversation, proposed, turn,
                       journal, result, permitted>>
    BY <1>1 DEF Run
  <1>8. a.id \in AllCallIds /\ observations \in Seq(Messages)
    BY <1>4 DEF Inv, TypeOK
  <1>9. ToolResult(a.id, size) \in Messages
    BY <1>8, ToolResultType, LoopAssumption DEF Ids
  <1>10. ToolResult(a.id, size).id = a.id
    BY DEF ToolResult
  <1> DEFINE result_of_a == ToolResult(a.id, size)
  <1> HIDE DEF result_of_a
  <1>11. /\ observations' \in Seq(Messages)
         /\ Len(observations) \in Nat
         /\ Len(observations') = Len(observations) + 1
         /\ observations'[Len(observations) + 1] = result_of_a
         /\ \A j \in 1..Len(observations) : observations'[j] = observations[j]
    <2>1. observations' = Append(observations, result_of_a) /\ result_of_a \in Messages
      BY <1>6, <1>9 DEF result_of_a
    <2>2. QED  BY <1>8, <2>1
  <1>12. executed' \subseteq AllCallIds
    BY <1>7, <1>8 DEF Inv, TypeOK
  <1>13. TypeOK'
    BY <1>7, <1>11, <1>12 DEF Inv, TypeOK
  <1>14. PhaseInv' /\ ProposedInv' /\ ApprovedInv'
    BY <1>7 DEF Inv, PhaseInv, ProposedInv, ApprovedInv
  <1>15. ObservedInv'
    <2>1. Observed(a.id)'
      <3>1. observations'[Len(observations) + 1].id = a.id
        BY <1>10, <1>11 DEF result_of_a
      <3>2. Len(observations) + 1 \in 1..Len(observations')
        BY <1>11
      <3>3. a.id' = a.id
        OBVIOUS
      <3>4. QED  BY <3>1, <3>2 DEF Observed
    <2>2. ASSUME NEW c, Observed(c)
          PROVE  \E j \in 1..Len(observations') : observations'[j].id = c
      <3>1. PICK j \in 1..Len(observations) : observations[j].id = c
        BY <2>2 DEF Observed
      <3>2. j \in 1..Len(observations') /\ observations'[j].id = c
        BY <3>1, <1>11
      <3>3. QED  BY <3>2
    <2>3. QED  BY <1>7, <2>1, <2>2 DEF Inv, ObservedInv, Observed
  <1>16. HistoryInv'
    <2>1. a.id \in permitted
      BY <1>4
    <2>2. QED  BY <1>7, <2>1 DEF Inv, HistoryInv
  <1>17. QED
    BY <1>4, <1>5, <1>7, <1>13, <1>14, <1>15, <1>16 DEF Inv

LEMMA CollectResultsStep ==
    ASSUME Inv, CollectResults
    PROVE  Inv' /\ UNCHANGED <<result, iteration, permitted, executed>>
  <1>1. /\ UNCHANGED <<iteration, total_tokens, proposed, turn, observations,
                       journal, result, permitted, executed>>
        /\ pc = "dispatch" /\ pc' = "dispatched"
        /\ conversation' = conversation \o observations
    BY DEF CollectResults
  <1>2. conversation' \in Seq(Messages)
    BY <1>1 DEF Inv, TypeOK
  <1>3. TypeOK' /\ PhaseInv'
    BY <1>1, <1>2 DEF Inv, TypeOK, PhaseInv, Pcs
  <1>4. ProposedInv' /\ ApprovedInv' /\ ObservedInv' /\ HistoryInv'
    BY <1>1 DEF Inv, ProposedInv, ApprovedInv, ObservedInv, HistoryInv, Observed
  <1>5. QED  BY <1>1, <1>3, <1>4 DEF Inv

LEMMA Stutter ==
    ASSUME Inv, UNCHANGED vars
    PROVE  Inv' /\ UNCHANGED <<result, iteration, permitted, executed>>
  BY DEF vars, Inv, TypeOK, PhaseInv, ProposedInv, ApprovedInv, ObservedInv,
         HistoryInv, Observed

-----------------------------------------------------------------------------
(* The theorems.                                                             *)

\* Every step maps to a step of GovernedRun or leaves its variables alone.
LEMMA StepImplementsPromise ==
    ASSUME Inv, [Next]_vars
    PROVE  Inv' /\ [Promise!Next]_(Promise!vars)
  <1> DEFINE Still == UNCHANGED <<result, iteration, permitted, executed>>
  <1>1. Still => UNCHANGED Promise!vars
    BY DEF Promise!vars
  <1>2. CASE JournalSteps
    BY <1>1, <1>2, JournalStep
  <1>3. CASE EndSteps
    <2>1. /\ Inv'
          /\ result = NoResult /\ result' # NoResult
          /\ UNCHANGED <<iteration, permitted, executed>>
      BY <1>3, EndStep
    <2>2. Promise!Stop
      BY <2>1 DEF Promise!Stop
    <2>3. QED  BY <2>1, <2>2 DEF Promise!Next
  <1>4. CASE BeginReasoning
    BY <1>1, <1>4, BeginReasoningStep
  <1>5. CASE ProposeText \/ ProposeCalls
    <2>1. /\ Inv'
          /\ iteration < max_iterations
          /\ iteration' = iteration + 1
          /\ UNCHANGED <<result, permitted, executed>>
      BY <1>5, ProposeTextStep, ProposeCallsStep
    <2>2. result = NoResult
      BY <1>5 DEF ProposeText, ProposeCalls, Propose, Inv, PhaseInv
    <2>3. Promise!Think
      BY <2>1, <2>2 DEF Promise!Think
    <2>4. QED  BY <2>1, <2>3 DEF Promise!Next
  <1>6. CASE CheckPolicy
    <2>1. /\ Inv'
          /\ UNCHANGED <<result, iteration, executed>>
          /\ \/ permitted' = permitted
             \/ \E c \in CallIds(iteration) \ permitted : permitted' = permitted \cup {c}
      BY <1>6, CheckPolicyStep
    <2>2. result = NoResult
      BY <1>6 DEF CheckPolicy, Inv, PhaseInv
    <2>3. CASE permitted' = permitted
      BY <1>1, <2>1, <2>3
    <2>4. CASE \E c \in CallIds(iteration) \ permitted : permitted' = permitted \cup {c}
      <3>1. PICK c \in CallIds(iteration) \ permitted : permitted' = permitted \cup {c}
        BY <2>4
      <3>2. Promise!Permit(c)
        BY <2>1, <2>2, <3>1 DEF Promise!Permit
      <3>3. QED  BY <2>1, <3>2 DEF Promise!Next
    <2>5. QED  BY <2>1, <2>3, <2>4
  <1>7. CASE ExecuteTool \/ Delegate
    <2>1. /\ Inv'
          /\ UNCHANGED <<result, iteration, permitted>>
          /\ \E c \in CallIds(iteration) \cap (permitted \ executed) :
                executed' = executed \cup {c}
      BY <1>7, RunStep
    <2>2. result = NoResult
      BY <1>7 DEF ExecuteTool, Delegate, Inv, PhaseInv
    <2>3. PICK c \in CallIds(iteration) \cap (permitted \ executed) :
            executed' = executed \cup {c}
      BY <2>1
    <2>4. Promise!Execute(c)
      BY <2>1, <2>2, <2>3 DEF Promise!Execute
    <2>5. QED  BY <2>1, <2>3, <2>4 DEF Promise!Next
  <1>8. CASE CollectResults
    BY <1>1, <1>8, CollectResultsStep
  <1>9. CASE UNCHANGED vars
    BY <1>1, <1>9, Stutter
  <1>10. QED
    BY <1>2, <1>3, <1>4, <1>5, <1>6, <1>7, <1>8, <1>9 DEF Next, JournalSteps, EndSteps

\* The types of every variable, iteration budget included (LoopState).
THEOREM TypeCorrectness == Spec => []TypeOK
  <1>1. Inv /\ [Next]_vars => Inv'
    BY StepImplementsPromise
  <1>2. Inv => TypeOK
    BY DEF Inv
  <1>3. QED  BY <1>1, <1>2, InitInv, PTL DEF Spec

\* The loop of phases.rs implements GovernedRun: a call runs in its own turn,
\* once, after the gate permitted it, within the iteration budget and never
\* after the caller has the result.
THEOREM ImplementsGovernedRun == Spec => GovernedExecution
  <1>1. Init => Promise!Init
    BY DEF Init, Promise!Init
  <1>2. Inv /\ [Next]_vars => Inv' /\ [Promise!Next]_(Promise!vars)
    BY StepImplementsPromise
  <1>3. QED  BY <1>1, <1>2, InitInv, PTL DEF Spec, GovernedExecution, Promise!Spec

-----------------------------------------------------------------------------
(* What a run owes its result to.                                            *)

\* An inference starts within the token budget and passes it at most once.
TokensInv ==
    /\ pc = "complete" => total_tokens < max_total_tokens
    /\ BudgetPassedOnce

\* A terminal turn dispatches nothing, and the text it ends with was approved.
TerminalInv ==
    /\ pc = "dispatch" => ~turn.terminal
    /\ pc \in {"persist", "terminated"} => turn.terminal
    /\ pc \in {"journal_reasoning", "gate"} \/ turn.terminal =>
          executed \cap CallIds(iteration) = {}
    /\ turn.output = "text" =>
          \E i \in 1..Len(turn.approved) : turn.approved[i] = Respond

ResultInv == TokensInv /\ TerminalInv /\ CompletionIsApproved

\* What the gate does to the turn: nothing but the verdict on one action.
LEMMA CheckPolicyEffect ==
    ASSUME Inv, CheckPolicy
    PROVE  LET a == Head(proposed) IN
           /\ a = proposed[1] /\ a \in Actions /\ Len(proposed) \in Nat \ {0}
           /\ a.kind = "respond" => a.id = NoCall
           /\ a.kind \in {"tool", "malformed", "delegate"} =>
                 a.id \in CallIds(iteration) \ permitted
           /\ a.kind \in {"tool", "malformed", "delegate", "respond"}
           /\ proposed' = Tail(proposed)
           /\ \/ /\ turn' = [turn EXCEPT !.denied = Append(@, a)]
                 /\ conversation' = AnswerDenied(a)
              \/ \E b, terminal, output :
                    /\ conversation' = conversation
                    /\ turn' = [turn EXCEPT
                                   !.approved = Append(@, b),
                                   !.terminal = @ \/ terminal,
                                   !.output = IF output # "" THEN output ELSE @]
                    /\ b \in Actions
                    /\ terminal \in BOOLEAN /\ output \in {"", "text"}
                    /\ \/ /\ b = a /\ a.kind # "malformed"
                          /\ terminal <=> a.kind = "respond"
                          /\ output = IF a.kind = "respond" THEN "text" ELSE ""
                       \/ /\ b = Action("terminate", NoCall)
                          /\ terminal = TRUE /\ output = ""
  <1> DEFINE a == Head(proposed)
  <1>1. proposed # <<>> /\ proposed' = Tail(proposed) /\ Judge(a)
    BY DEF CheckPolicy
  <1>2. proposed \in Seq(Actions)
    BY DEF Inv, TypeOK
  <1>3. a = proposed[1] /\ a \in Actions /\ Len(proposed) \in Nat \ {0}
    BY <1>1, <1>2
  <1> HIDE DEF a
  <1>4. /\ a.kind # "terminate"
        /\ a.kind = "respond" => a.id = NoCall
        /\ a.kind # "respond" => a.id \in CallIds(iteration) \ permitted
    BY <1>3 DEF Inv, ProposedInv
  <1>5. a.kind \in {"tool", "malformed", "delegate", "respond"}
    BY <1>3, <1>4 DEF Actions
  <1>6. \/ /\ turn' = [turn EXCEPT !.denied = Append(@, a)]
           /\ conversation' = AnswerDenied(a)
        \/ /\ a.kind # "malformed"
           /\ Approve(a, a.kind = "respond",
                      IF a.kind = "respond" THEN "text" ELSE "")
        \/ Approve(Action("terminate", NoCall), TRUE, "")
    BY <1>1 DEF Judge, Deny, MustDeny
  <1>7. CASE /\ turn' = [turn EXCEPT !.denied = Append(@, a)]
             /\ conversation' = AnswerDenied(a)
    BY <1>1, <1>3, <1>4, <1>5, <1>7 DEF a
  <1>8. CASE /\ a.kind # "malformed"
             /\ Approve(a, a.kind = "respond",
                        IF a.kind = "respond" THEN "text" ELSE "")
    <2> DEFINE terminal == a.kind = "respond"
               output == IF a.kind = "respond" THEN "text" ELSE ""
    <2>1. terminal \in BOOLEAN /\ output \in {"", "text"}
      OBVIOUS
    <2>2. /\ turn' = [turn EXCEPT
                     !.approved = Append(@, a),
                     !.terminal = @ \/ terminal,
                     !.output = IF output # "" THEN output ELSE @]
          /\ conversation' = conversation
      BY <1>8 DEF Approve
    <2>3. /\ terminal <=> a.kind = "respond"
          /\ output = IF a.kind = "respond" THEN "text" ELSE ""
      OBVIOUS
    <2> HIDE DEF terminal, output
    <2>4. QED  BY <1>1, <1>3, <1>4, <1>5, <1>8, <2>1, <2>2, <2>3 DEF a
  <1>9. CASE Approve(Action("terminate", NoCall), TRUE, "")
    <2> DEFINE b == Action("terminate", NoCall)
    <2>1. /\ turn' = [turn EXCEPT
                     !.approved = Append(@, b),
                     !.terminal = @ \/ TRUE,
                     !.output = IF "" # "" THEN "" ELSE @]
          /\ conversation' = conversation
      BY <1>9 DEF Approve
    <2>a. b \in Actions
      BY DEF Action, Actions, Ids
    <2> HIDE DEF b
    <2>2. QED  BY <2>a, <1>1, <1>3, <1>4, <1>5, <2>1 DEF a, b
  <1>10. QED  BY <1>6, <1>7, <1>8, <1>9

LEMMA InvAlways == Spec => []Inv
  <1>1. Inv /\ [Next]_vars => Inv'
    BY StepImplementsPromise
  <1>2. QED  BY <1>1, InitInv, PTL DEF Spec

LEMMA InitResultInv == Init => ResultInv
  <1> SUFFICES ASSUME Init PROVE ResultInv
    OBVIOUS
  <1>1. TokensInv
    BY LoopAssumption DEF Init, TokensInv, BudgetPassedOnce
  <1>2. TerminalInv /\ CompletionIsApproved
    BY DEF Init, TerminalInv, CompletionIsApproved, NewTurn, NoResult
  <1>3. QED  BY <1>1, <1>2 DEF ResultInv

\* Only an inference spends tokens, and only below the budget.
LEMMA TokensStep ==
    ASSUME Inv, TokensInv, [Next]_vars
    PROVE  TokensInv'
  <1>1. total_tokens \in Nat /\ \A u \in Usages : u \in Nat
    BY LoopAssumption DEF Inv, TypeOK
  <1>2. CASE total_tokens' = total_tokens /\ pc' # "complete"
    BY <1>2 DEF TokensInv, BudgetPassedOnce
  <1>3. CASE BeginReasoning
    <2>1. total_tokens' = total_tokens /\ iteration < max_iterations
          /\ ~Exhausted("MaxTokens")
      <3>1. ~Exhausted("MaxIterations") /\ ~Exhausted("MaxTokens")
        BY <1>3 DEF BeginReasoning
      <3>2. QED
        BY <1>3, <3>1, LoopAssumption DEF BeginReasoning, Exhausted, Inv, TypeOK
    <2>2. total_tokens < max_total_tokens
      BY <2>1, <1>1, LoopAssumption DEF Exhausted
    <2>3. QED
      BY <2>1, <2>2, <1>1, LoopAssumption DEF TokensInv, BudgetPassedOnce
  <1>4. ASSUME NEW u \in Usages \cup {0}, pc = "complete",
               total_tokens' = total_tokens + u, pc' # "complete"
        PROVE  TokensInv'
    <2>1. total_tokens < max_total_tokens
      BY <1>4 DEF TokensInv
    <2>2. CASE u = 0
      BY <1>1, <1>4, <2>1, <2>2, LoopAssumption DEF TokensInv, BudgetPassedOnce
    <2>3. CASE u \in Usages
      <3>1. total_tokens' - u < max_total_tokens
        BY <1>1, <1>4, <2>1, <2>3, LoopAssumption
      <3>2. BudgetPassedOnce'
        BY <2>3, <3>1 DEF BudgetPassedOnce
      <3>3. QED  BY <1>4, <3>2 DEF TokensInv
    <2>4. QED  BY <1>4, <2>2, <2>3
  <1>5. CASE InferenceFails
    <2>1. PICK u \in Usages \cup {0} : total_tokens' = total_tokens + u
      BY <1>5 DEF InferenceFails
    <2>2. pc = "complete" /\ pc' # "complete"
      BY <1>5 DEF InferenceFails
    <2>3. QED  BY <1>4, <2>1, <2>2
  <1>6. CASE ProposeCalls \/ ProposeText
    <2>1. /\ pc = "complete" /\ pc' = "journal_reasoning"
          /\ \E u \in Usages : total_tokens' = total_tokens + u
      BY <1>6 DEF ProposeCalls, ProposeText, Propose
    <2>2. QED  BY <1>4, <2>1
  <1>7. CASE UNCHANGED vars
    BY <1>7 DEF vars, TokensInv, BudgetPassedOnce
  <1>8. CASE ExecuteTool \/ Delegate \/ CheckPolicy
    BY <1>8, <1>2 DEF ExecuteTool, Delegate, CheckPolicy, Run
  <1>9. CASE \/ Start \/ StopAtBudget \/ ReasoningComplete \/ PolicyEvaluated
             \/ CollectResults \/ ToolsDispatched \/ ObserveResults
             \/ PersistLearnings \/ Complete \/ Timeout
    BY <1>9, <1>2 DEF Start, StopAtBudget, Terminate, ReasoningComplete,
       PolicyEvaluated, AfterPolicy, CollectResults, ToolsDispatched,
       ObserveResults, PersistLearnings, Complete, Timeout
  <1>10. QED
    BY <1>3, <1>5, <1>6, <1>7, <1>8, <1>9 DEF Next

\* Until the gate is through with a turn none of its calls has run.
LEMMA TerminalStep ==
    ASSUME Inv, TerminalInv, [Next]_vars
    PROVE  TerminalInv'
  <1>0. /\ turn \in Turns /\ turn.terminal \in BOOLEAN
        /\ turn.approved \in Seq(Actions) /\ iteration \in Nat
    <2>1. turn \in Turns /\ iteration \in Nat
      BY LoopAssumption DEF Inv, TypeOK
    <2>2. QED  BY <2>1 DEF Turns
  <1>1. CASE ProposeCalls \/ ProposeText
    <2>1. Inv' /\ iteration' = iteration + 1 /\ executed' = executed
      BY <1>1, ProposeCallsStep, ProposeTextStep
    <2>2. turn' = NewTurn /\ pc' = "journal_reasoning"
      BY <1>1 DEF ProposeCalls, ProposeText, Propose
    <2>3. executed \cap CallIds(iteration + 1) = {}
      <3>1. \A c \in executed : c[1] <= iteration
        BY DEF Inv, HistoryInv
      <3>2. \A c \in CallIds(iteration + 1) : c[1] = iteration + 1
        BY DEF CallIds
      <3>3. ~(iteration + 1 <= iteration)
        BY <1>0
      <3>4. QED  BY <3>1, <3>2, <3>3
    <2>4. QED  BY <2>1, <2>2, <2>3 DEF TerminalInv, NewTurn
  <1>2. CASE CheckPolicy
    <2>1. UNCHANGED <<pc, iteration, executed>> /\ pc = "gate"
      BY <1>2 DEF CheckPolicy
    <2>2. executed' \cap CallIds(iteration') = {}
      BY <2>1 DEF TerminalInv
    <2> DEFINE a == Head(proposed)
    <2>3. /\ a \in Actions /\ (a.kind = "respond" => a.id = NoCall)
          /\ \/ turn' = [turn EXCEPT !.denied = Append(@, a)]
             \/ \E b, terminal, output :
                   /\ turn' = [turn EXCEPT
                                  !.approved = Append(@, b),
                                  !.terminal = @ \/ terminal,
                                  !.output = IF output # "" THEN output ELSE @]
                   /\ output # "" => b = a /\ a.kind = "respond"
                   /\ b \in Actions
      BY <1>2, CheckPolicyEffect
    <2> HIDE DEF a
    <2>4. a.kind = "respond" => a = Respond
      BY <2>3 DEF Actions, Respond, Action
    <2>5. CASE turn' = [turn EXCEPT !.denied = Append(@, a)]
      <3>1. turn'.approved = turn.approved /\ turn'.output = turn.output
        BY <1>0, <2>5 DEF Turns
      <3>2. QED  BY <2>1, <2>2, <3>1 DEF TerminalInv
    <2>6. ASSUME NEW b, NEW terminal, NEW output,
                 turn' = [turn EXCEPT
                            !.approved = Append(@, b),
                            !.terminal = @ \/ terminal,
                            !.output = IF output # "" THEN output ELSE @],
                 output # "" => b = a /\ a.kind = "respond",
                 b \in Actions
          PROVE  TerminalInv'
      <3>1. /\ turn'.approved = Append(turn.approved, b)
            /\ turn'.output = IF output # "" THEN output ELSE turn.output
        BY <1>0, <2>6 DEF Turns
      <3>2. /\ Len(turn'.approved) = Len(turn.approved) + 1
            /\ Len(turn.approved) \in Nat
            /\ turn'.approved[Len(turn.approved) + 1] = b
            /\ \A i \in 1..Len(turn.approved) :
                  turn'.approved[i] = turn.approved[i]
        <4>1. turn.approved \in Seq(Actions) /\ b \in Actions
          BY <1>0, <2>6
        <4> DEFINE s == turn.approved
                   t == turn'.approved
        <4>2. s \in Seq(Actions) /\ t = Append(s, b) /\ b \in Actions
          BY <3>1, <4>1
        <4> HIDE DEF s, t
        <4>3. /\ Len(t) = Len(s) + 1 /\ Len(s) \in Nat
              /\ t[Len(s) + 1] = b
              /\ \A i \in 1..Len(s) : t[i] = s[i]
          BY <4>2
        <4>4. QED  BY <4>3 DEF s, t
      <3>3. turn'.output = "text" =>
              \E i \in 1..Len(turn'.approved) : turn'.approved[i] = Respond
        <4>1. CASE output # ""
          BY <2>4, <2>6, <3>2, <4>1
        <4>2. CASE output = ""
          <5>1. turn'.output = turn.output
            BY <3>1, <4>2
          <5>2. SUFFICES ASSUME turn.output = "text"
                         PROVE  \E i \in 1..Len(turn'.approved) :
                                   turn'.approved[i] = Respond
            BY <5>1
          <5>3. PICK i \in 1..Len(turn.approved) : turn.approved[i] = Respond
            BY <5>2 DEF TerminalInv
          <5>4. i \in 1..Len(turn'.approved) /\ turn'.approved[i] = Respond
            BY <3>2, <5>3
          <5>5. QED  BY <5>4
        <4>3. QED  BY <4>1, <4>2
      <3>4. QED  BY <2>1, <2>2, <3>3 DEF TerminalInv
    <2>7. QED  BY <2>3, <2>5, <2>6
  <1>3. CASE ExecuteTool \/ Delegate
    <2>1. /\ UNCHANGED <<pc, iteration, turn>> /\ pc = "dispatch"
      BY <1>3 DEF ExecuteTool, Delegate, Run
    <2>2. QED  BY <2>1 DEF TerminalInv
  <1>4. CASE UNCHANGED vars
    BY <1>4 DEF vars, TerminalInv
  <1>5. ASSUME UNCHANGED <<iteration, turn, executed>>,
               pc' \in {"dispatch", "persist", "terminated"} =>
                  \/ pc' = "dispatch" /\ ~turn.terminal
                  \/ pc' # "dispatch" /\ turn.terminal,
               pc' \in {"journal_reasoning", "gate"} =>
                  pc \in {"journal_reasoning", "gate"}
        PROVE  TerminalInv'
    BY <1>5 DEF TerminalInv
  <1>6. CASE \/ Start \/ StopAtBudget \/ BeginReasoning \/ InferenceFails
             \/ ReasoningComplete \/ PolicyEvaluated \/ CollectResults
             \/ ToolsDispatched \/ ObserveResults \/ PersistLearnings
             \/ Complete \/ Timeout
    <2>1. UNCHANGED <<iteration, turn, executed>>
      BY <1>6 DEF Start, StopAtBudget, BeginReasoning, InferenceFails,
         ReasoningComplete, PolicyEvaluated, CollectResults, ToolsDispatched,
         ObserveResults, PersistLearnings, Complete, Timeout
    <2>2. pc' \in {"dispatch", "persist", "terminated"} =>
             \/ pc' = "dispatch" /\ ~turn.terminal
             \/ pc' # "dispatch" /\ turn.terminal
      BY <1>6 DEF Start, StopAtBudget, BeginReasoning, InferenceFails,
         ReasoningComplete, PolicyEvaluated, CollectResults, ToolsDispatched,
         ObserveResults, PersistLearnings, Complete, Timeout, Terminate,
         AfterPolicy, TerminalInv
    <2>3. pc' \in {"journal_reasoning", "gate"} =>
             pc \in {"journal_reasoning", "gate"}
      BY <1>6 DEF Start, StopAtBudget, BeginReasoning, InferenceFails,
         ReasoningComplete, PolicyEvaluated, CollectResults, ToolsDispatched,
         ObserveResults, PersistLearnings, Complete, Timeout, Terminate,
         AfterPolicy
    <2>4. QED  BY <1>5, <2>1, <2>2, <2>3
  <1>7. QED
    BY <1>1, <1>2, <1>3, <1>4, <1>6 DEF Next

\* A normal completion hands out what the turn ended with; nothing follows.
LEMMA CompletionStep ==
    ASSUME Inv, TerminalInv, CompletionIsApproved, [Next]_vars
    PROVE  CompletionIsApproved'
  <1>1. CASE Complete
    <2>1. /\ UNCHANGED <<iteration, turn, executed>>
          /\ pc = "terminated"
          /\ result'.output = turn.output
      BY <1>1 DEF Complete, LoopResult
    <2>2. QED  BY <2>1 DEF TerminalInv, CompletionIsApproved
  <1>2. CASE UNCHANGED <<iteration, turn, executed, result>>
    BY <1>2 DEF CompletionIsApproved
  <1>3. CASE result' = NoResult
    BY <1>3 DEF CompletionIsApproved, NoResult
  <1>4. CASE StopAtBudget \/ InferenceFails \/ Timeout
    <2>1. result'.reason # "Completed"
      <3>1. CASE StopAtBudget
        <4>1. PICK reason \in {"MaxIterations", "MaxTokens"} :
                result' = LoopResult(reason, "")
          BY <3>1 DEF StopAtBudget, Terminate
        <4>2. QED  BY <4>1 DEF LoopResult
      <3>2. CASE InferenceFails
        BY <3>2 DEF InferenceFails, LoopResult
      <3>3. CASE Timeout
        BY <3>3 DEF Timeout, TimeoutResult
      <3>4. QED  BY <1>4, <3>1, <3>2, <3>3
    <2>2. QED  BY <2>1 DEF CompletionIsApproved
  <1>5. CASE \/ ProposeCalls \/ ProposeText \/ ExecuteTool \/ Delegate
             \/ CheckPolicy
    <2>1. pc # "done" /\ result' = result
      BY <1>5 DEF ProposeCalls, ProposeText, Propose, ExecuteTool, Delegate,
         Run, CheckPolicy
    <2>2. result' = NoResult
      BY <2>1 DEF Inv, PhaseInv
    <2>3. QED  BY <1>3, <2>2
  <1>6. CASE \/ Start \/ BeginReasoning \/ ReasoningComplete \/ PolicyEvaluated
             \/ CollectResults \/ ToolsDispatched \/ ObserveResults
             \/ PersistLearnings \/ UNCHANGED vars
    BY <1>6, <1>2 DEF Start, BeginReasoning, ReasoningComplete,
       PolicyEvaluated, CollectResults, ToolsDispatched, ObserveResults,
       PersistLearnings, vars
  <1>7. QED
    BY <1>1, <1>4, <1>5, <1>6 DEF Next

\* A run ends by its budget, which one inference alone may pass, or by an
\* action that the gate let through, and then none of the turn's calls ran
\* (phases.rs, check_policy and dispatch_tools; reasoning_loop.rs, run_inner).
THEOREM ResultsAreEarned == Spec => []ResultIsEarned
  <1>1. Inv /\ ResultInv /\ [Next]_vars => ResultInv'
    BY TokensStep, TerminalStep, CompletionStep DEF ResultInv
  <1>2. Inv /\ ResultInv => ResultIsEarned
    BY DEF Inv, ResultInv, TokensInv, ResultIsEarned
  <1>3. QED  BY <1>1, <1>2, InitResultInv, InvAlways, PTL DEF Spec

-----------------------------------------------------------------------------
(* What the journal says of the turn in each phase.                          *)

\* Of and JournalAddsUp of any journal s and any calls that ran.
OfIn(s, event, n) == {e \in {s[i] : i \in 1..Len(s)} :
                         e.event = event /\ e.iteration = n}

AddsUpIn(s, ran, n) ==
    /\ \A p \in OfIn(s, "ReasoningComplete", n),
          e \in OfIn(s, "PolicyEvaluated", n) : e.count = p.count
    /\ \A e \in OfIn(s, "PolicyEvaluated", n),
          d \in OfIn(s, "ToolsDispatched", n) : d.count \in {e.count - e.denied, 0}
    /\ \A d \in OfIn(s, "ToolsDispatched", n) :
          d.count = Cardinality(ran \cap CallIds(n))

ApprovedIds == {turn.approved[i].id : i \in 1..Len(turn.approved)}

Ran == executed \cap CallIds(iteration)

\* No entry is ahead of the turn, and none of the turn comes before its phase.
EntriesInv ==
    /\ \A i \in 1..Len(journal) : journal[i].iteration <= iteration
    /\ pc = "journal_reasoning" =>
          OfIn(journal, "ReasoningComplete", iteration) = {}
    /\ pc \in {"journal_reasoning", "gate"} =>
          OfIn(journal, "PolicyEvaluated", iteration) = {}
    /\ pc \in {"journal_reasoning", "gate", "dispatch", "dispatched"} =>
          OfIn(journal, "ToolsDispatched", iteration) = {}

\* The counts of the entries are those of the turn.
CountsInv ==
    /\ pc = "journal_reasoning" => turn = NewTurn
    /\ pc = "gate" => \A p \in OfIn(journal, "ReasoningComplete", iteration) :
          p.count = Len(proposed) + (Len(turn.approved) + Len(turn.denied))
    /\ pc \in {"dispatch", "dispatched"} =>
          \A e \in OfIn(journal, "PolicyEvaluated", iteration) :
             /\ e.count = Len(turn.approved) + Len(turn.denied)
             /\ e.denied = Len(turn.denied)

\* What ran in the turn is what was observed, and at the end what was approved.
RanInv ==
    /\ Ran \subseteq ApprovedIds
    /\ Cardinality(Ran) = Len(observations)
    /\ \A i \in 1..Len(observations) : observations[i].id \in Ran
    /\ ~turn.terminal =>
          /\ \A i \in 1..Len(turn.approved) :
                turn.approved[i].kind \in {"tool", "delegate"}
          /\ Cardinality(ApprovedIds) = Len(turn.approved)
    /\ pc = "dispatched" => Len(observations) \in {Len(turn.approved), 0}

AddsUpInv == \A n \in 1..iteration : AddsUpIn(journal, executed, n)

JournalInv == EntriesInv /\ CountsInv /\ RanInv /\ AddsUpInv

\* With a storage that accepts every entry those of the turn are there, and
\* those of every call that ran.
WrittenInv ==
    ~AppendMayFail =>
        /\ pc \in {"gate", "dispatch"} =>
              OfIn(journal, "ReasoningComplete", iteration) # {}
        /\ pc = "dispatch" => OfIn(journal, "PolicyEvaluated", iteration) # {}
        /\ \A c \in executed :
              \A event \in {"ReasoningComplete", "PolicyEvaluated"} :
                 OfIn(journal, event, c[1]) # {}

LEMMA OfInAppend ==
    ASSUME NEW s \in Seq(Entries), NEW x \in Entries, NEW event, NEW n
    PROVE  OfIn(Append(s, x), event, n) =
              OfIn(s, event, n) \cup
                 (IF x.event = event /\ x.iteration = n THEN {x} ELSE {})
  <1> DEFINE t == Append(s, x)
  <1> HIDE DEF Entries
  <1>1. /\ Len(t) = Len(s) + 1 /\ Len(s) \in Nat
        /\ t[Len(s) + 1] = x
        /\ \A i \in 1..Len(s) : t[i] = s[i]
    BY AppendProperties
  <1> HIDE DEF t
  <1>2. {t[i] : i \in 1..Len(t)} = {s[i] : i \in 1..Len(s)} \cup {x}
    <2>1. \A i \in 1..Len(t) : i \in 1..Len(s) \/ i = Len(s) + 1
      BY <1>1
    <2>2. \A i \in 1..Len(s) : i \in 1..Len(t)
      BY <1>1
    <2>3. Len(s) + 1 \in 1..Len(t)
      BY <1>1
    <2>4. QED  BY <1>1, <2>1, <2>2, <2>3
  <1>3. OfIn(t, event, n) =
           OfIn(s, event, n) \cup
              (IF x.event = event /\ x.iteration = n THEN {x} ELSE {})
    BY <1>2 DEF OfIn
  <1>4. QED  BY <1>3 DEF t

Events == {"Started", "ReasoningComplete", "PolicyEvaluated",
           "ToolsDispatched", "ObservationsCollected", "Terminated"}

\* An entry joins those of its event and turn, or is lost; no other changes.
LEMMA JournalEffect ==
    ASSUME TypeOK, NEW event \in Events, NEW k \in Nat, NEW d \in Nat,
           Journal(Entry(event, k, d))
    PROVE  /\ \A v, n : v # event \/ n # iteration =>
                 OfIn(journal', v, n) = OfIn(journal, v, n)
           /\ \/ OfIn(journal', event, iteration) =
                    OfIn(journal, event, iteration)
              \/ OfIn(journal', event, iteration) =
                    OfIn(journal, event, iteration) \cup {Entry(event, k, d)}
           /\ ~AppendMayFail => OfIn(journal', event, iteration) # {}
           /\ \A v, n : OfIn(journal, v, n) \subseteq OfIn(journal', v, n)
           /\ (\A i \in 1..Len(journal) : journal[i].iteration <= iteration) =>
                 \A i \in 1..Len(journal') : journal'[i].iteration <= iteration
  <1> DEFINE x == Entry(event, k, d)
  <1>1. iteration \in Nat /\ journal \in Seq(Entries)
    BY LoopAssumption DEF TypeOK
  <1>2. x \in Entries /\ x.event = event /\ x.iteration = iteration
    BY <1>1 DEF Entry, Entries, Events
  <1>3. journal' = Append(journal, x) \/ (AppendMayFail /\ journal' = journal)
    BY DEF Journal
  <1>4. x = Entry(event, k, d)
    OBVIOUS
  <1> HIDE DEF x, Entries
  <1>5. CASE AppendMayFail /\ journal' = journal
    BY <1>4, <1>5
  <1>6. CASE journal' = Append(journal, x)
    <2>1. \A v, n : OfIn(journal', v, n) =
             OfIn(journal, v, n) \cup
                (IF x.event = v /\ x.iteration = n THEN {x} ELSE {})
      BY <1>1, <1>2, <1>6, OfInAppend
    <2>2. /\ Len(journal') = Len(journal) + 1 /\ Len(journal) \in Nat
          /\ journal'[Len(journal) + 1] = x
          /\ \A i \in 1..Len(journal) : journal'[i] = journal[i]
      BY <1>1, <1>2, <1>6, AppendProperties
    <2>3. \A v, n : v # event \/ n # iteration =>
             OfIn(journal', v, n) = OfIn(journal, v, n)
      <3>1. TAKE v, n
      <3>2. HAVE v # event \/ n # iteration
      <3>3. ~(x.event = v /\ x.iteration = n)
        BY <1>2, <3>2
      <3>4. OfIn(journal', v, n) = OfIn(journal, v, n) \cup {}
        BY <2>1, <3>3
      <3>5. QED  BY <3>4
    <2>4. OfIn(journal', event, iteration) =
             OfIn(journal, event, iteration) \cup {x}
      BY <2>1, <1>2
    <2>5. (\A i \in 1..Len(journal) : journal[i].iteration <= iteration) =>
             \A i \in 1..Len(journal') : journal'[i].iteration <= iteration
      <3>1. \A i \in 1..Len(journal') :
               i \in 1..Len(journal) \/ i = Len(journal) + 1
        BY <2>2
      <3>2. iteration <= iteration
        BY <1>1
      <3>3. QED  BY <1>2, <2>2, <3>1, <3>2
    <2>6. \A v, n : OfIn(journal, v, n) \subseteq OfIn(journal', v, n)
      BY <2>1
    <2>7. QED  BY <1>4, <2>3, <2>4, <2>5, <2>6
  <1>7. QED  BY <1>3, <1>5, <1>6

LEMMA CallIdsFinite ==
    ASSUME NEW n, NEW S \in SUBSET CallIds(n)
    PROVE  IsFiniteSet(S)
  <1>1. IsFiniteSet(1..MaxCalls) /\ IsFiniteSet({n})
    <2>1. 1 \in Int /\ MaxCalls \in Int
      BY LoopAssumption
    <2>2. IsFiniteSet(1..MaxCalls)
      BY <2>1, FS_Interval
    <2>3. QED  BY <2>2, FS_Singleton
  <1>2. IsFiniteSet(CallIds(n))
    BY <1>1, FS_Product DEF CallIds
  <1>3. QED  BY <1>2, FS_Subset

LEMMA InitJournalInv == Init => JournalInv /\ WrittenInv
  <1> SUFFICES ASSUME Init PROVE JournalInv /\ WrittenInv
    OBVIOUS
  <1>1. /\ journal = <<>> /\ iteration = 0 /\ executed = {} /\ pc = "start"
        /\ turn.approved = <<>> /\ observations = <<>> /\ turn.terminal = FALSE
    BY DEF Init, NewTurn
  <1>2. Len(journal) = 0 /\ Len(turn.approved) = 0 /\ Len(observations) = 0
    BY <1>1
  <1>3. EntriesInv /\ CountsInv /\ AddsUpInv
    BY <1>1, <1>2 DEF EntriesInv, CountsInv, AddsUpInv
  <1>4. Ran = {} /\ ApprovedIds = {}
    BY <1>1, <1>2 DEF Ran, ApprovedIds
  <1>5. RanInv
    BY <1>1, <1>2, <1>4, FS_EmptySet DEF RanInv
  <1>6. WrittenInv
    BY <1>1 DEF WrittenInv
  <1>7. QED  BY <1>3, <1>5, <1>6 DEF JournalInv

\* What JournalInv needs of a step that writes nothing and runs nothing.
LEMMA QuietJournal ==
    ASSUME JournalInv, WrittenInv,
           UNCHANGED <<iteration, turn, observations, journal, executed>>,
           pc' \in {"start", "inject", "complete", "observed", "persist",
                    "terminated", "done"}
    PROVE  JournalInv' /\ WrittenInv'
  <1>1. EntriesInv'
    BY DEF JournalInv, EntriesInv
  <1>2. CountsInv'
    BY DEF CountsInv
  <1>3. RanInv'
    BY DEF JournalInv, RanInv, Ran, ApprovedIds
  <1>4. AddsUpInv'
    BY DEF JournalInv, AddsUpInv
  <1>5. WrittenInv'
    BY DEF WrittenInv
  <1>6. QED  BY <1>1, <1>2, <1>3, <1>4, <1>5 DEF JournalInv

LEMMA AddsUpFrame ==
    ASSUME NEW s, NEW t, NEW ran, NEW more, NEW n,
           OfIn(t, "ReasoningComplete", n) = OfIn(s, "ReasoningComplete", n),
           OfIn(t, "PolicyEvaluated", n) = OfIn(s, "PolicyEvaluated", n),
           OfIn(t, "ToolsDispatched", n) = OfIn(s, "ToolsDispatched", n),
           more \cap CallIds(n) = ran \cap CallIds(n),
           AddsUpIn(s, ran, n)
    PROVE  AddsUpIn(t, more, n)
  BY DEF AddsUpIn

\* An entry of an event that the invariants do not read.
LEMMA OtherEntry ==
    ASSUME TypeOK, JournalInv, WrittenInv,
           NEW event \in {"Started", "ObservationsCollected", "Terminated"},
           NEW k \in Nat, Journal(Entry(event, k, 0)),
           UNCHANGED <<iteration, turn, observations, executed>>,
           pc' \in {"inject", "persist", "done"}
    PROVE  JournalInv' /\ WrittenInv'
  <1>1. event \in Events
    BY DEF Events
  <1>2. /\ \A v \in {"ReasoningComplete", "PolicyEvaluated",
                     "ToolsDispatched"} :
              \A n : OfIn(journal', v, n) = OfIn(journal, v, n)
        /\ \A i \in 1..Len(journal') : journal'[i].iteration <= iteration
    <2>1. 0 \in Nat
      OBVIOUS
    <2>2. QED
      BY <1>1, <2>1, JournalEffect DEF JournalInv, EntriesInv
  <1>3. EntriesInv'
    BY <1>2 DEF EntriesInv
  <1>4. CountsInv'
    BY DEF CountsInv
  <1>5. RanInv'
    BY DEF JournalInv, RanInv, Ran, ApprovedIds
  <1>6. AddsUpInv'
    <2>1. ASSUME NEW n \in 1..iteration
          PROVE  AddsUpIn(journal', executed, n)
      <3>1. AddsUpIn(journal, executed, n)
        BY DEF JournalInv, AddsUpInv
      <3>2. QED  BY <1>2, <3>1, AddsUpFrame
    <2>2. QED  BY <2>1 DEF AddsUpInv
  <1>7. WrittenInv'
    BY <1>2 DEF WrittenInv
  <1>8. QED  BY <1>3, <1>4, <1>5, <1>6, <1>7 DEF JournalInv

LEMMA TurnLengthsOfInv ==
    ASSUME Inv
    PROVE  /\ TypeOK
           /\ Len(turn.approved) \in Nat
           /\ Len(turn.denied) \in Nat
           /\ Len(proposed) \in Nat
           /\ Len(observations) \in Nat
           /\ iteration \in Nat
  BY TurnLengths, LoopAssumption DEF Inv, TypeOK

\* The proposal is written before the gate is asked.
LEMMA ReasoningCompleteJournal ==
    ASSUME Inv, JournalInv, WrittenInv, ReasoningComplete
    PROVE  JournalInv' /\ WrittenInv'
  <1> DEFINE x == Entry("ReasoningComplete", Len(proposed), 0)
  <1>1. /\ pc = "journal_reasoning" /\ pc' = "gate"
        /\ Journal(x)
        /\ UNCHANGED <<iteration, proposed, turn, observations, executed>>
    BY DEF ReasoningComplete
  <1>2. /\ \A v, n : v # "ReasoningComplete" \/ n # iteration =>
              OfIn(journal', v, n) = OfIn(journal, v, n)
        /\ OfIn(journal', "ReasoningComplete", iteration) \subseteq
              OfIn(journal, "ReasoningComplete", iteration) \cup {x}
        /\ ~AppendMayFail => OfIn(journal', "ReasoningComplete", iteration) # {}
        /\ \A v, n : OfIn(journal, v, n) \subseteq OfIn(journal', v, n)
        /\ \A i \in 1..Len(journal') : journal'[i].iteration <= iteration
    <2>1. "ReasoningComplete" \in Events /\ 0 \in Nat
      BY DEF Events
    <2>2. QED
      BY <1>1, <2>1, JournalEffect, TurnLengthsOfInv DEF JournalInv, EntriesInv
  <1>3. x.count = Len(proposed)
    BY DEF Entry
  <1> HIDE DEF x
  <1>4. OfIn(journal', "ReasoningComplete", iteration) \subseteq {x}
    BY <1>1, <1>2 DEF JournalInv, EntriesInv
  <1>5. EntriesInv'
    BY <1>1, <1>2 DEF JournalInv, EntriesInv
  <1>6. CountsInv'
    <2>1. Len(turn.approved) = 0 /\ Len(turn.denied) = 0
      <3>1. turn.approved = <<>> /\ turn.denied = <<>>
        <4>1. turn = NewTurn
          BY <1>1 DEF JournalInv, CountsInv
        <4>2. QED  BY <4>1 DEF NewTurn
      <3>2. QED  BY <3>1
    <2>2. \A p \in OfIn(journal', "ReasoningComplete", iteration) :
             p.count = Len(proposed) + (Len(turn.approved) + Len(turn.denied))
      BY <1>3, <1>4, <2>1, TurnLengthsOfInv
    <2>3. QED  BY <1>1, <2>2 DEF CountsInv
  <1>7. RanInv'
    BY <1>1 DEF JournalInv, RanInv, Ran, ApprovedIds
  <1>8. AddsUpInv'
    <2>1. ASSUME NEW n \in 1..iteration
          PROVE  AddsUpIn(journal', executed, n)
      <3>1. CASE n # iteration
        <4>1. AddsUpIn(journal, executed, n)
          BY DEF JournalInv, AddsUpInv
        <4>2. QED  BY <1>2, <3>1, <4>1, AddsUpFrame
      <3>2. CASE n = iteration
        <4>1. /\ OfIn(journal', "PolicyEvaluated", n) = {}
              /\ OfIn(journal', "ToolsDispatched", n) = {}
          BY <1>1, <1>2, <3>2 DEF JournalInv, EntriesInv
        <4>2. QED  BY <4>1 DEF AddsUpIn
      <3>3. QED  BY <3>1, <3>2
    <2>2. QED  BY <1>1, <2>1 DEF AddsUpInv
  <1>9. WrittenInv'
    BY <1>1, <1>2 DEF WrittenInv
  <1>10. QED  BY <1>5, <1>6, <1>7, <1>8, <1>9 DEF JournalInv

\* The verdicts are written before any call runs: as many as were proposed.
LEMMA PolicyEvaluatedJournal ==
    ASSUME Inv, TerminalInv, JournalInv, WrittenInv, PolicyEvaluated
    PROVE  JournalInv' /\ WrittenInv'
  <1> DEFINE judged == Len(turn.approved) + Len(turn.denied)
             x == Entry("PolicyEvaluated", judged, Len(turn.denied))
  <1>1. /\ pc = "gate" /\ proposed = <<>>
        /\ pc' = IF turn.terminal THEN "dispatched" ELSE "dispatch"
        /\ Journal(x)
        /\ UNCHANGED <<iteration, proposed, turn, observations, executed>>
    BY DEF PolicyEvaluated, AfterPolicy
  <1>2. judged \in Nat
    <2>1. \A m, n \in Nat : m + n \in Nat
      OBVIOUS
    <2>2. QED  BY <2>1, TurnLengthsOfInv
  <1>3. x.count = judged /\ x.denied = Len(turn.denied)
    BY DEF Entry
  <1>4. /\ \A v, n : v # "PolicyEvaluated" \/ n # iteration =>
              OfIn(journal', v, n) = OfIn(journal, v, n)
        /\ OfIn(journal', "PolicyEvaluated", iteration) \subseteq
              OfIn(journal, "PolicyEvaluated", iteration) \cup {x}
        /\ ~AppendMayFail => OfIn(journal', "PolicyEvaluated", iteration) # {}
        /\ \A v, n : OfIn(journal, v, n) \subseteq OfIn(journal', v, n)
        /\ \A i \in 1..Len(journal') : journal'[i].iteration <= iteration
    <2>1. "PolicyEvaluated" \in Events
      BY DEF Events
    <2> HIDE DEF judged
    <2>2. QED
      BY <1>1, <1>2, <2>1, JournalEffect, TurnLengthsOfInv
         DEF JournalInv, EntriesInv
  <1>5. judged = Len(turn.approved) + Len(turn.denied)
    OBVIOUS
  <1> HIDE DEF x, judged
  <1>6. OfIn(journal', "PolicyEvaluated", iteration) \subseteq {x}
    BY <1>1, <1>4 DEF JournalInv, EntriesInv
  <1>7. EntriesInv'
    BY <1>1, <1>4 DEF JournalInv, EntriesInv
  <1>8. CountsInv'
    <2>1. \A e \in OfIn(journal', "PolicyEvaluated", iteration) :
             e.count = judged /\ e.denied = Len(turn.denied)
      BY <1>3, <1>6
    <2>2. pc' # "journal_reasoning" /\ pc' # "gate"
      BY <1>1
    <2>3. QED  BY <1>1, <1>5, <2>1, <2>2 DEF CountsInv
  <1>9. RanInv'
    <2>1. Ran = {}
      BY <1>1 DEF TerminalInv, Ran
    <2>2. Len(observations) = 0
      BY <2>1, FS_EmptySet DEF JournalInv, RanInv
    <2>3. QED  BY <1>1, <2>2 DEF JournalInv, RanInv, Ran, ApprovedIds
  <1>10. AddsUpInv'
    <2>1. ASSUME NEW n \in 1..iteration
          PROVE  AddsUpIn(journal', executed, n)
      <3>1. CASE n # iteration
        <4>1. AddsUpIn(journal, executed, n)
          BY DEF JournalInv, AddsUpInv
        <4>2. QED  BY <1>4, <3>1, <4>1, AddsUpFrame
      <3>2. CASE n = iteration
        <4>1. OfIn(journal', "ToolsDispatched", n) = {}
          BY <1>1, <1>4, <3>2 DEF JournalInv, EntriesInv
        <4>2. Len(proposed) = 0
          BY <1>1
        <4>3. \A p \in OfIn(journal', "ReasoningComplete", n) : p.count = judged
          <5>1. OfIn(journal', "ReasoningComplete", n) =
                   OfIn(journal, "ReasoningComplete", n)
            BY <1>4
          <5>2. \A p \in OfIn(journal, "ReasoningComplete", n) :
                   p.count = Len(proposed) + judged
            BY <1>1, <1>5, <3>2 DEF JournalInv, CountsInv
          <5>3. QED  BY <5>1, <5>2, <4>2, <1>2
        <4>4. \A e \in OfIn(journal', "PolicyEvaluated", n) : e.count = judged
          BY <1>3, <1>6, <3>2
        <4>5. QED  BY <4>1, <4>3, <4>4 DEF AddsUpIn
      <3>3. QED  BY <3>1, <3>2
    <2>2. QED  BY <1>1, <2>1 DEF AddsUpInv
  <1>11. WrittenInv'
    BY <1>1, <1>4 DEF WrittenInv
  <1>12. QED  BY <1>7, <1>8, <1>9, <1>10, <1>11 DEF JournalInv

\* What was observed is written: all that was approved, or nothing.
LEMMA ToolsDispatchedJournal ==
    ASSUME Inv, JournalInv, WrittenInv, ToolsDispatched
    PROVE  JournalInv' /\ WrittenInv'
  <1> DEFINE x == Entry("ToolsDispatched", Len(observations), 0)
  <1>1. /\ pc = "dispatched" /\ pc' = "observed"
        /\ Journal(x)
        /\ UNCHANGED <<iteration, proposed, turn, observations, executed>>
    BY DEF ToolsDispatched
  <1>2. x.count = Len(observations)
    BY DEF Entry
  <1>3. /\ \A v, n : v # "ToolsDispatched" \/ n # iteration =>
              OfIn(journal', v, n) = OfIn(journal, v, n)
        /\ OfIn(journal', "ToolsDispatched", iteration) \subseteq
              OfIn(journal, "ToolsDispatched", iteration) \cup {x}
        /\ \A i \in 1..Len(journal') : journal'[i].iteration <= iteration
    <2>1. "ToolsDispatched" \in Events /\ 0 \in Nat
      BY DEF Events
    <2>2. QED
      BY <1>1, <2>1, JournalEffect, TurnLengthsOfInv DEF JournalInv, EntriesInv
  <1> HIDE DEF x
  <1>4. OfIn(journal', "ToolsDispatched", iteration) \subseteq {x}
    BY <1>1, <1>3 DEF JournalInv, EntriesInv
  <1>5. EntriesInv' /\ CountsInv'
    BY <1>1, <1>3 DEF JournalInv, EntriesInv, CountsInv
  <1>6. RanInv'
    BY <1>1 DEF JournalInv, RanInv, Ran, ApprovedIds
  <1>7. AddsUpInv'
    <2>1. ASSUME NEW n \in 1..iteration
          PROVE  AddsUpIn(journal', executed, n)
      <3>1. CASE n # iteration
        <4>1. AddsUpIn(journal, executed, n)
          BY DEF JournalInv, AddsUpInv
        <4>2. QED  BY <1>3, <3>1, <4>1, AddsUpFrame
      <3>2. CASE n = iteration
        <4>1. \A d \in OfIn(journal', "ToolsDispatched", n) :
                 d.count = Len(observations)
          BY <1>2, <1>4, <3>2
        <4>2. \A e \in OfIn(journal', "PolicyEvaluated", n) :
                 e.count - e.denied = Len(turn.approved)
          <5>1. OfIn(journal', "PolicyEvaluated", n) =
                   OfIn(journal, "PolicyEvaluated", n)
            BY <1>3
          <5>2. \A e \in OfIn(journal, "PolicyEvaluated", n) :
                   /\ e.count = Len(turn.approved) + Len(turn.denied)
                   /\ e.denied = Len(turn.denied)
            BY <1>1, <3>2 DEF JournalInv, CountsInv
          <5>3. \A k, m \in Nat : (k + m) - m = k
            OBVIOUS
          <5>4. QED  BY <5>1, <5>2, <5>3, TurnLengthsOfInv, Zenon
        <4>3. Len(observations) \in {Len(turn.approved), 0}
          BY <1>1 DEF JournalInv, RanInv
        <4>4. Len(observations) = Cardinality(executed \cap CallIds(n))
          BY <3>2 DEF JournalInv, RanInv, Ran
        <4>5. /\ OfIn(journal', "PolicyEvaluated", n) =
                    OfIn(journal, "PolicyEvaluated", n)
              /\ OfIn(journal', "ReasoningComplete", n) =
                    OfIn(journal, "ReasoningComplete", n)
          BY <1>3
        <4>6. AddsUpIn(journal, executed, n)
          BY DEF JournalInv, AddsUpInv
        <4>7. QED  BY <4>1, <4>2, <4>3, <4>4, <4>5, <4>6 DEF AddsUpIn
      <3>3. QED  BY <3>1, <3>2
    <2>2. QED  BY <1>1, <2>1 DEF AddsUpInv
  <1>8. WrittenInv'
    BY <1>1, <1>3 DEF WrittenInv
  <1>9. QED  BY <1>5, <1>6, <1>7, <1>8 DEF JournalInv

\* A new turn: no entry and no call of it exists.
LEMMA ProposeJournal ==
    ASSUME Inv, JournalInv, WrittenInv, ProposeCalls \/ ProposeText
    PROVE  JournalInv' /\ WrittenInv'
  <1>1. /\ Inv' /\ iteration' = iteration + 1 /\ executed' = executed
        /\ journal' = journal /\ turn' = NewTurn /\ observations' = <<>>
        /\ pc' = "journal_reasoning"
    BY ProposeCallsStep, ProposeTextStep DEF ProposeCalls, ProposeText, Propose
  <1>2. iteration \in Nat
    BY TurnLengthsOfInv
  <1>3. \A v : OfIn(journal, v, iteration + 1) = {}
    <2>1. \A i \in 1..Len(journal) : journal[i].iteration <= iteration
      BY DEF JournalInv, EntriesInv
    <2>2. ~(iteration + 1 <= iteration)
      BY <1>2
    <2>3. QED  BY <2>1, <2>2 DEF OfIn
  <1>4. EntriesInv'
    <2>1. \A i \in 1..Len(journal) : journal[i].iteration <= iteration + 1
      <3>1. TAKE i \in 1..Len(journal)
      <3>2. journal[i].iteration <= iteration
        BY DEF JournalInv, EntriesInv
      <3>3. journal[i].iteration \in Nat
        <4>1. journal \in Seq(Entries)
          BY DEF Inv, TypeOK
        <4>2. journal[i] \in Entries
          BY <4>1
        <4>3. QED  BY <4>2 DEF Entries
      <3>4. QED  BY <1>2, <3>2, <3>3
    <2>2. QED  BY <1>1, <1>3, <2>1 DEF EntriesInv
  <1>5. CountsInv'
    BY <1>1 DEF CountsInv
  <1>6. Ran' = {}
    <2>1. \A c \in executed : c[1] <= iteration
      BY DEF Inv, HistoryInv
    <2>2. \A c \in CallIds(iteration + 1) : c[1] = iteration + 1
      BY DEF CallIds
    <2>3. ~(iteration + 1 <= iteration)
      BY <1>2
    <2>4. executed \cap CallIds(iteration + 1) = {}
      BY <2>1, <2>2, <2>3
    <2>5. QED  BY <1>1, <2>4 DEF Ran
  <1>7. Len(turn'.approved) = 0 /\ Len(observations') = 0
    <2>1. turn'.approved = <<>>
      BY <1>1 DEF NewTurn
    <2>2. QED  BY <1>1, <2>1
  <1>8. RanInv'
    <2>1. ApprovedIds' = {}
      BY <1>7 DEF ApprovedIds
    <2>2. QED  BY <1>1, <1>6, <1>7, <2>1, FS_EmptySet DEF RanInv
  <1>9. AddsUpInv'
    <2>1. ASSUME NEW n \in 1..(iteration + 1)
          PROVE  AddsUpIn(journal, executed, n)
      <3>1. CASE n = iteration + 1
        BY <1>3, <3>1 DEF AddsUpIn
      <3>2. CASE n # iteration + 1
        <4>1. n \in 1..iteration
          BY <1>2, <3>2
        <4>2. QED  BY <4>1 DEF JournalInv, AddsUpInv
      <3>3. QED  BY <3>1, <3>2
    <2>2. QED  BY <1>1, <2>1 DEF AddsUpInv
  <1>10. WrittenInv'
    BY <1>1 DEF WrittenInv
  <1>11. QED  BY <1>4, <1>5, <1>8, <1>9, <1>10 DEF JournalInv

\* A call that runs is one of the turn, which is not yet accounted for.
LEMMA RunJournal ==
    ASSUME Inv, TerminalInv, JournalInv, WrittenInv, ExecuteTool \/ Delegate
    PROVE  JournalInv' /\ WrittenInv'
  <1>0. PICK kind \in {"tool", "delegate"} :
          \E a \in ToDispatch(kind) : pc = "dispatch" /\ Run(a)
    BY DEF ExecuteTool, Delegate
  <1>1. PICK a \in ToDispatch(kind) : pc = "dispatch" /\ Run(a)
    BY <1>0
  <1>2. PICK k \in 1..Len(turn.approved) : a = turn.approved[k]
    BY <1>1 DEF ToDispatch
  <1>3. a.kind \in {"tool", "delegate"} /\ ~Observed(a.id)
    BY <1>1 DEF ToDispatch
  <1>4. /\ a.id \in CallIds(iteration) /\ a.id \in permitted
        /\ a.id \notin executed
    BY <1>2, <1>3 DEF Inv, ApprovedInv, ObservedInv
  <1>5. PICK size \in ResultSizes :
          observations' = Append(observations, ToolResult(a.id, size))
    BY <1>1 DEF Run
  <1>6. /\ executed' = executed \cup {a.id}
        /\ UNCHANGED <<pc, iteration, proposed, turn, journal>>
        /\ pc = "dispatch"
    BY <1>1 DEF Run
  <1>7. /\ Len(observations') = Len(observations) + 1
        /\ Len(observations) \in Nat
        /\ observations'[Len(observations) + 1].id = a.id
        /\ \A i \in 1..Len(observations) : observations'[i] = observations[i]
    <2> DEFINE r == ToolResult(a.id, size)
    <2>1. r \in Messages
      <3>1. a.id \in Ids
        BY <1>4 DEF Inv, TypeOK, Ids
      <3>2. QED  BY <3>1, ToolResultType, LoopAssumption
    <2>2. r.id = a.id
      BY DEF ToolResult
    <2>3. observations \in Seq(Messages) /\ observations' = Append(observations, r)
      BY <1>5 DEF Inv, TypeOK
    <2> HIDE DEF r
    <2>4. QED  BY <2>1, <2>2, <2>3, AppendProperties
  <1>8. Ran' = Ran \cup {a.id} /\ a.id \notin Ran
    BY <1>4, <1>6 DEF Ran
  <1>9. IsFiniteSet(Ran)
    BY CallIdsFinite DEF Ran
  <1>10. Cardinality(Ran') = Cardinality(Ran) + 1
    BY <1>8, <1>9, FS_AddElement
  <1>11. EntriesInv' /\ CountsInv'
    BY <1>6 DEF JournalInv, EntriesInv, CountsInv
  <1>12. RanInv'
    <2>1. a.id \in ApprovedIds /\ ApprovedIds' = ApprovedIds
      BY <1>2, <1>6 DEF ApprovedIds
    <2>2. Ran' \subseteq ApprovedIds'
      BY <1>8, <2>1 DEF JournalInv, RanInv
    <2>3. Cardinality(Ran') = Len(observations')
      BY <1>7, <1>10 DEF JournalInv, RanInv
    <2>4. \A i \in 1..Len(observations') : observations'[i].id \in Ran'
      <3>1. TAKE i \in 1..Len(observations')
      <3>2. i \in 1..Len(observations) \/ i = Len(observations) + 1
        BY <1>7
      <3>3. QED  BY <1>7, <1>8, <3>2 DEF JournalInv, RanInv
    <2>5. QED  BY <1>6, <2>1, <2>2, <2>3, <2>4 DEF JournalInv, RanInv
  <1>13. AddsUpInv'
    <2>1. ASSUME NEW n \in 1..iteration
          PROVE  AddsUpIn(journal, executed', n)
      <3>1. AddsUpIn(journal, executed, n)
        BY DEF JournalInv, AddsUpInv
      <3>2. CASE n # iteration
        <4>1. a.id \notin CallIds(n)
          BY <1>4, <3>2 DEF CallIds
        <4>2. executed' \cap CallIds(n) = executed \cap CallIds(n)
          BY <1>6, <4>1
        <4>3. QED  BY <3>1, <4>2, AddsUpFrame
      <3>3. CASE n = iteration
        <4>1. OfIn(journal, "ToolsDispatched", n) = {}
          BY <1>6, <3>3 DEF JournalInv, EntriesInv
        <4>2. QED  BY <3>1, <4>1 DEF AddsUpIn
      <3>4. QED  BY <3>2, <3>3
    <2>2. QED  BY <1>6, <2>1 DEF AddsUpInv
  <1>14. WrittenInv'
    <2>1. a.id[1] = iteration
      BY <1>4 DEF CallIds
    <2>2. QED  BY <1>6, <2>1 DEF WrittenInv
  <1>15. QED  BY <1>11, <1>12, <1>13, <1>14 DEF JournalInv

\* Every approved call of a turn without a terminal action has run.
LEMMA CollectJournal ==
    ASSUME Inv, TerminalInv, JournalInv, WrittenInv, CollectResults
    PROVE  JournalInv' /\ WrittenInv'
  <1>1. /\ pc = "dispatch" /\ pc' = "dispatched"
        /\ ToDispatch("tool") \cup ToDispatch("delegate") = {}
        /\ UNCHANGED <<iteration, proposed, turn, observations, journal,
                       executed>>
    BY DEF CollectResults
  <1>2. ~turn.terminal
    BY <1>1 DEF TerminalInv
  <1>3. \A i \in 1..Len(turn.approved) : Observed(turn.approved[i].id)
    <2>1. TAKE i \in 1..Len(turn.approved)
    <2>2. turn.approved[i].kind \in {"tool", "delegate"}
      BY <1>2 DEF JournalInv, RanInv
    <2>3. turn.approved[i] \in {turn.approved[j] : j \in 1..Len(turn.approved)}
      OBVIOUS
    <2>4. QED  BY <1>1, <2>2, <2>3 DEF ToDispatch
  <1>4. ApprovedIds \subseteq Ran
    BY <1>3 DEF ApprovedIds, Observed, JournalInv, RanInv
  <1>5. Len(observations) = Len(turn.approved)
    <2>1. ApprovedIds = Ran
      BY <1>4 DEF JournalInv, RanInv
    <2>2. QED  BY <1>2, <2>1 DEF JournalInv, RanInv
  <1>6. EntriesInv' /\ CountsInv'
    BY <1>1 DEF JournalInv, EntriesInv, CountsInv
  <1>7. RanInv'
    BY <1>1, <1>5 DEF JournalInv, RanInv, Ran, ApprovedIds
  <1>8. AddsUpInv'
    BY <1>1 DEF JournalInv, AddsUpInv
  <1>9. WrittenInv'
    BY <1>1 DEF WrittenInv
  <1>10. QED  BY <1>6, <1>7, <1>8, <1>9 DEF JournalInv

\* A verdict moves one action from the proposed to the approved or denied ones.
LEMMA CheckPolicyJournal ==
    ASSUME Inv, TerminalInv, JournalInv, WrittenInv, CheckPolicy
    PROVE  JournalInv' /\ WrittenInv'
  <1> DEFINE a == Head(proposed)
  <1>1. /\ pc = "gate" /\ proposed # <<>>
        /\ UNCHANGED <<pc, iteration, observations, journal, executed>>
    BY DEF CheckPolicy
  <1>2. /\ a \in Actions
        /\ a.kind \in {"tool", "malformed", "delegate"} =>
              a.id \in CallIds(iteration) \ permitted
        /\ a.kind \in {"tool", "malformed", "delegate", "respond"}
        /\ proposed' = Tail(proposed)
        /\ \/ turn' = [turn EXCEPT !.denied = Append(@, a)]
           \/ \E b, terminal, output :
                 /\ turn' = [turn EXCEPT
                                !.approved = Append(@, b),
                                !.terminal = @ \/ terminal,
                                !.output = IF output # "" THEN output ELSE @]
                 /\ b \in Actions /\ terminal \in BOOLEAN
                 /\ \/ /\ b = a /\ a.kind # "malformed"
                       /\ terminal <=> a.kind = "respond"
                    \/ terminal = TRUE
    BY CheckPolicyEffect
  <1> HIDE DEF a
  <1>3. /\ turn \in Turns /\ turn.approved \in Seq(Actions)
        /\ turn.denied \in Seq(Actions) /\ turn.terminal \in BOOLEAN
    <2>1. turn \in Turns
      BY DEF Inv, TypeOK
    <2>2. QED  BY <2>1 DEF Turns
  <1>4. Len(proposed) \in Nat \ {0} /\ Len(proposed') = Len(proposed) - 1
    <2>1. proposed \in Seq(Actions)
      BY DEF Inv, TypeOK
    <2>2. proposed' = Tail(proposed) /\ proposed # <<>>
      BY <1>1, <1>2
    <2>3. QED  BY <2>1, <2>2, HeadTailProperties, LenProperties
  <1>5. Ran = {} /\ Ran' = {} /\ Len(observations) = 0
    <2>1. Ran = {}
      BY <1>1 DEF TerminalInv, Ran
    <2>2. QED  BY <1>1, <2>1, FS_EmptySet DEF Ran, JournalInv, RanInv
  <1>6. EntriesInv' /\ AddsUpInv' /\ WrittenInv'
    BY <1>1 DEF JournalInv, EntriesInv, AddsUpInv, WrittenInv
  <1>7. CASE turn' = [turn EXCEPT !.denied = Append(@, a)]
    <2>1. /\ turn'.approved = turn.approved /\ turn'.terminal = turn.terminal
          /\ turn'.denied = Append(turn.denied, a)
      BY <1>3, <1>7 DEF Turns
    <2>2. Len(turn'.denied) = Len(turn.denied) + 1 /\ Len(turn.denied) \in Nat
      <3> DEFINE s == turn.denied
                 t == turn'.denied
      <3>1. s \in Seq(Actions) /\ a \in Actions /\ t = Append(s, a)
        BY <1>2, <1>3, <2>1
      <3> HIDE DEF s, t
      <3>2. Len(t) = Len(s) + 1 /\ Len(s) \in Nat
        BY <3>1, AppendProperties, LenProperties
      <3>3. QED  BY <3>2 DEF s, t
    <2>3. Len(turn.approved) \in Nat
      BY <1>3, LenProperties
    <2>4. Len(proposed') + (Len(turn'.approved) + Len(turn'.denied)) =
             Len(proposed) + (Len(turn.approved) + Len(turn.denied))
      <3>1. Len(turn'.approved) = Len(turn.approved)
        BY <2>1
      <3>2. \A p \in Nat \ {0}, k, m \in Nat :
               (p - 1) + (k + (m + 1)) = p + (k + m)
        OBVIOUS
      <3>3. (Len(proposed) - 1) + (Len(turn.approved) + (Len(turn.denied) + 1))
               = Len(proposed) + (Len(turn.approved) + Len(turn.denied))
        BY <1>4, <2>2, <2>3, <3>2
      <3>4. QED  BY <1>4, <2>2, <3>1, <3>3
    <2>5. CountsInv'
      BY <1>1, <2>4 DEF JournalInv, CountsInv
    <2>6. RanInv'
      BY <1>1, <1>5, <2>1 DEF JournalInv, RanInv, ApprovedIds
    <2>7. QED  BY <1>6, <2>5, <2>6 DEF JournalInv
  <1>8. ASSUME NEW b, NEW terminal, NEW output,
               /\ turn' = [turn EXCEPT
                              !.approved = Append(@, b),
                              !.terminal = @ \/ terminal,
                              !.output = IF output # "" THEN output ELSE @]
               /\ b \in Actions /\ terminal \in BOOLEAN
               /\ \/ /\ b = a /\ a.kind # "malformed"
                     /\ terminal <=> a.kind = "respond"
                  \/ terminal = TRUE
        PROVE  JournalInv' /\ WrittenInv'
    <2>1. /\ turn'.approved = Append(turn.approved, b)
          /\ turn'.terminal = (turn.terminal \/ terminal)
          /\ turn'.denied = turn.denied
      BY <1>3, <1>8 DEF Turns
    <2>2. /\ Len(turn'.approved) = Len(turn.approved) + 1
          /\ Len(turn.approved) \in Nat
          /\ turn'.approved[Len(turn.approved) + 1] = b
          /\ \A i \in 1..Len(turn.approved) :
                turn'.approved[i] = turn.approved[i]
      <3> DEFINE s == turn.approved
                 t == turn'.approved
      <3>1. s \in Seq(Actions) /\ b \in Actions /\ t = Append(s, b)
        BY <1>3, <1>8, <2>1
      <3> HIDE DEF s, t
      <3>2. /\ Len(t) = Len(s) + 1 /\ Len(s) \in Nat
            /\ t[Len(s) + 1] = b
            /\ \A i \in 1..Len(s) : t[i] = s[i]
        BY <3>1, AppendProperties, LenProperties
      <3>3. QED  BY <3>2 DEF s, t
    <2>3. Len(turn.denied) \in Nat
      BY <1>3, LenProperties
    <2>4. Len(proposed') + (Len(turn'.approved) + Len(turn'.denied)) =
             Len(proposed) + (Len(turn.approved) + Len(turn.denied))
      <3>1. Len(turn'.denied) = Len(turn.denied)
        BY <2>1
      <3>2. \A p \in Nat \ {0}, k, m \in Nat :
               (p - 1) + ((k + 1) + m) = p + (k + m)
        OBVIOUS
      <3>3. /\ Len(turn'.approved) = Len(turn.approved) + 1
            /\ Len(turn.approved) \in Nat
        BY <2>2
      <3>4. (Len(proposed) - 1) + ((Len(turn.approved) + 1) + Len(turn.denied))
               = Len(proposed) + (Len(turn.approved) + Len(turn.denied))
        BY <1>4, <2>3, <3>2, <3>3
      <3>5. QED  BY <1>4, <3>1, <3>3, <3>4
    <2>5. CountsInv'
      BY <1>1, <2>4 DEF JournalInv, CountsInv
    <2>6. ASSUME ~turn'.terminal
          PROVE  /\ \A i \in 1..Len(turn'.approved) :
                       turn'.approved[i].kind \in {"tool", "delegate"}
                 /\ Cardinality(ApprovedIds') = Len(turn'.approved)
      <3>1. ~turn.terminal /\ ~terminal
        BY <1>3, <1>8, <2>1, <2>6
      <3>2. b = a /\ a.kind \in {"tool", "delegate"}
        BY <1>2, <1>8, <3>1
      <3>3. /\ \A i \in 1..Len(turn.approved) :
                  turn.approved[i].kind \in {"tool", "delegate"}
            /\ Cardinality(ApprovedIds) = Len(turn.approved)
        BY <3>1 DEF JournalInv, RanInv
      <3>4. \A i \in 1..Len(turn'.approved) :
               i \in 1..Len(turn.approved) \/ i = Len(turn.approved) + 1
        BY <2>2
      <3>5. ApprovedIds' = ApprovedIds \cup {a.id}
        <4>1. \A i \in 1..Len(turn.approved) : i \in 1..Len(turn'.approved)
          BY <2>2
        <4>2. Len(turn.approved) + 1 \in 1..Len(turn'.approved)
          BY <2>2
        <4>3. turn'.approved[Len(turn.approved) + 1].id = a.id
          BY <2>2, <3>2
        <4>4. QED  BY <2>2, <3>4, <4>1, <4>2, <4>3 DEF ApprovedIds
      <3>6. ApprovedIds \subseteq CallIds(iteration) \cap permitted
        BY <3>3 DEF ApprovedIds, Inv, ApprovedInv
      <3>7. a.id \notin ApprovedIds
        BY <1>2, <3>2, <3>6
      <3>8. IsFiniteSet(ApprovedIds)
        BY <3>6, CallIdsFinite
      <3>9. Cardinality(ApprovedIds') = Cardinality(ApprovedIds) + 1
        BY <3>5, <3>7, <3>8, FS_AddElement
      <3>10. \A i \in 1..Len(turn'.approved) :
                turn'.approved[i].kind \in {"tool", "delegate"}
        BY <2>2, <3>2, <3>3, <3>4
      <3>11. QED  BY <2>2, <3>3, <3>9, <3>10
    <2>7. RanInv'
      <3>1. Ran' \subseteq ApprovedIds'
        BY <1>5
      <3>2. Cardinality(Ran') = Len(observations')
        BY <1>1, <1>5, FS_EmptySet
      <3>3. \A i \in 1..Len(observations') : observations'[i].id \in Ran'
        BY <1>1, <1>5
      <3>4. QED  BY <1>1, <2>6, <3>1, <3>2, <3>3 DEF RanInv
    <2>8. QED  BY <1>6, <2>5, <2>7 DEF JournalInv
  <1>9. QED  BY <1>2, <1>7, <1>8

\* Every step keeps what the journal says, the storage failing or not; that the
\* entries are all there needs a storage that does not.
LEMMA JournalInvStep ==
    ASSUME Inv, TerminalInv, JournalInv, WrittenInv, [Next]_vars
    PROVE  JournalInv' /\ WrittenInv'
  <1>1. TypeOK /\ 0 \in Nat /\ Len(observations) \in Nat
    BY TurnLengthsOfInv
  <1>2. CASE Start
    <2>1. /\ Journal(Entry("Started", 0, 0)) /\ pc' = "inject"
          /\ UNCHANGED <<iteration, turn, observations, executed>>
      BY <1>2 DEF Start
    <2>2. QED  BY <1>1, <2>1, OtherEntry
  <1>3. CASE ObserveResults
    <2>1. /\ Journal(Entry("ObservationsCollected", Len(observations), 0))
          /\ pc' \in {"inject", "persist"}
          /\ UNCHANGED <<iteration, turn, observations, executed>>
      BY <1>3 DEF ObserveResults
    <2>2. QED  BY <1>1, <2>1, OtherEntry
  <1>4. CASE Complete
    <2>1. /\ Journal(Entry("Terminated", 0, 0)) /\ pc' = "done"
          /\ UNCHANGED <<iteration, turn, observations, executed>>
      BY <1>4 DEF Complete
    <2>2. QED  BY <1>1, <2>1, OtherEntry
  <1>5. CASE \/ StopAtBudget \/ BeginReasoning \/ InferenceFails
             \/ PersistLearnings \/ Timeout
    <2>1. /\ UNCHANGED <<iteration, turn, observations, journal, executed>>
          /\ pc' \in {"start", "inject", "complete", "observed", "persist",
                      "terminated", "done"}
      BY <1>5 DEF StopAtBudget, Terminate, BeginReasoning, InferenceFails,
         PersistLearnings, Timeout
    <2>2. QED  BY <2>1, QuietJournal
  <1>6. CASE UNCHANGED vars
    BY <1>6 DEF vars, JournalInv, EntriesInv, CountsInv, RanInv, Ran,
       ApprovedIds, AddsUpInv, WrittenInv
  <1>7. QED
    BY <1>2, <1>3, <1>4, <1>5, <1>6, ProposeJournal, ReasoningCompleteJournal,
       CheckPolicyJournal, PolicyEvaluatedJournal, RunJournal, CollectJournal,
       ToolsDispatchedJournal DEF Next

LEMMA JournalInvAlways == Spec => [](Inv /\ TerminalInv /\ JournalInv /\ WrittenInv)
  <1>1. Init => TerminalInv /\ JournalInv /\ WrittenInv
    BY InitResultInv, InitJournalInv DEF ResultInv
  <1>2. Inv /\ TerminalInv /\ JournalInv /\ WrittenInv /\ [Next]_vars
          => TerminalInv' /\ JournalInv' /\ WrittenInv'
    BY TerminalStep, JournalInvStep
  <1>3. QED  BY <1>1, <1>2, InvAlways, PTL DEF Spec

LEMMA JournalInvMeaning ==
    ASSUME Inv, JournalInv, WrittenInv
    PROVE  JournalAddsUp /\ (~AppendMayFail => JournaledBeforeRun)
  <1>1. \A event, n : Of(event, n) = OfIn(journal, event, n)
    BY DEF Of, OfIn
  <1>2. JournalAddsUp
    BY <1>1 DEF JournalInv, AddsUpInv, AddsUpIn, JournalAddsUp
  <1>3. ~AppendMayFail => JournaledBeforeRun
    BY <1>1 DEF WrittenInv, JournaledBeforeRun
  <1>4. QED  BY <1>2, <1>3

\* What the journal says of a turn is true even when entries of it are lost:
\* counts of proposals, verdicts and results agree, and the results are as many
\* as the calls that ran (reasoning_loop.rs, run_inner; JournalWriter::append).
THEOREM JournalCountsAgree == Spec => []JournalAddsUp
  BY JournalInvAlways, JournalInvMeaning, PTL

\* With a storage that accepts what it is given, a replay knows every call that
\* may have run, and no other: proposal and verdict are written before it runs.
THEOREM JournalsAreFaithful ==
    ASSUME ~AppendMayFail
    PROVE  Spec => []JournalIsFaithful
  <1>1. Inv /\ JournalInv /\ WrittenInv => JournalIsFaithful
    BY JournalInvMeaning DEF JournalIsFaithful
  <1>2. QED  BY <1>1, JournalInvAlways, PTL

-----------------------------------------------------------------------------
(* What the model is sent.                                                   *)

Whole(ms) == OnlyAssistantCalls(ms) /\ Paired(ms)

\* The calls of the turn that wait for the gate, and those it let through.
ProposedIds == {proposed[i].id : i \in 1..Len(proposed)} \ {NoCall}
OpenIds == ProposedIds \cup ApprovedIds

\* Between two inferences only the calls of the turn lack their result; a turn
\* with a terminal action leaves them so, and the model is not asked again.
ConversationInv ==
    /\ pc \in {"start", "inject", "complete"} => Whole(conversation)
    /\ pc \in {"journal_reasoning", "gate", "dispatch"} /\ ~turn.terminal =>
          \E calls :
             /\ OpenTurn(conversation, calls, OpenIds)
             /\ OpenIds \subseteq calls
    /\ pc = "dispatch" => proposed = <<>>
    /\ pc \in {"dispatched", "observed"} /\ ~turn.terminal => Whole(conversation)
    /\ \A i \in 1..Len(observations) :
          observations[i].role = "tool" /\ observations[i].calls = {}

LEMMA OpenTurnGrows ==
    ASSUME NEW ms, NEW calls, NEW open, NEW more,
           OpenTurn(ms, calls, open), open \subseteq more
    PROVE  OpenTurn(ms, calls, more)
  <1>1. PICK m \in 1..Len(ms) :
          /\ ms[m].calls = calls
          /\ \A i \in (m + 1)..Len(ms) : ms[i].role = "tool"
          /\ \A i \in 1..Len(ms) : \A c \in ms[i].calls :
                \/ i = m /\ c \in open
                \/ \E k \in (i + 1)..Len(ms) :
                      /\ ms[k].id = c
                      /\ \A j \in (i + 1)..k : ms[j].role = "tool"
    BY DEF OpenTurn
  <1>2. \A i \in 1..Len(ms) : \A c \in ms[i].calls :
           \/ i = m /\ c \in more
           \/ \E k \in (i + 1)..Len(ms) :
                 /\ ms[k].id = c
                 /\ \A j \in (i + 1)..k : ms[j].role = "tool"
    BY <1>1
  <1>3. OnlyAssistantCalls(ms) /\ NoOrphanResult(ms)
    BY DEF OpenTurn
  <1>4. QED  BY <1>1, <1>2, <1>3, Zenon DEF OpenTurn

LEMMA SameTurnOpenIds ==
    ASSUME UNCHANGED <<proposed, turn>>
    PROVE  OpenIds' = OpenIds
  BY DEF OpenIds, ProposedIds, ApprovedIds

\* What the model proposes opens a turn of its own.
LEMMA ProposeEffect ==
    ASSUME Inv, ProposeCalls \/ ProposeText
    PROVE  /\ \E message \in Messages :
                /\ message.role = "assistant" /\ message.tokens = 1
                /\ conversation' = Append(conversation, message)
                /\ ProposedIds' = message.calls
                /\ \A c \in message.calls : c[1] = iteration + 1
           /\ pc = "complete" /\ pc' = "journal_reasoning"
           /\ iteration' = iteration + 1
           /\ turn' = NewTurn /\ observations' = <<>> /\ ApprovedIds' = {}
  <1>0. /\ pc = "complete" /\ pc' = "journal_reasoning"
        /\ iteration' = iteration + 1
        /\ turn' = NewTurn /\ observations' = <<>> /\ ApprovedIds' = {}
    <2>1. /\ pc = "complete" /\ pc' = "journal_reasoning"
          /\ iteration' = iteration + 1
          /\ turn' = NewTurn /\ observations' = <<>>
      BY DEF ProposeCalls, ProposeText, Propose
    <2>2. Len(turn'.approved) = 0
      BY <2>1 DEF NewTurn
    <2>3. QED  BY <2>1, <2>2 DEF ApprovedIds
  <1>1. CASE ProposeText
    <2>1. Plain("assistant") \in Messages
      <3>1. NoCall \in Ids /\ {} \in SUBSET AllCallIds /\ 1 \in Nat
        BY DEF Ids
      <3>2. QED  BY <3>1 DEF Plain, Messages
    <2>2. /\ conversation' = Append(conversation, Plain("assistant"))
          /\ proposed' = <<Respond>>
      BY <1>1 DEF ProposeText, Propose
    <2>3. Len(proposed') = 1 /\ proposed'[1] = Respond
      BY <2>2
    <2>4. ProposedIds' = {}
      BY <2>3 DEF ProposedIds, Respond, Action
    <2>5. /\ Plain("assistant").role = "assistant"
          /\ Plain("assistant").calls = {} /\ Plain("assistant").tokens = 1
      BY DEF Plain
    <2>6. \E message \in Messages :
             /\ message.role = "assistant" /\ message.tokens = 1
             /\ conversation' = Append(conversation, message)
             /\ ProposedIds' = message.calls
             /\ \A c \in message.calls : c[1] = iteration + 1
      BY <2>1, <2>2, <2>4, <2>5
    <2>7. QED  BY <1>0, <2>6
  <1>2. CASE ProposeCalls
    <2>1. PICK n \in 1..MaxCalls : \E kinds \in [1..n -> CallKinds] :
            Propose(CallActions(n, kinds),
                    Assistant({CallActions(n, kinds)[i].id : i \in 1..n}))
      BY <1>2, Zenon DEF ProposeCalls, CallActions
    <2>2. PICK kinds \in [1..n -> CallKinds] :
            Propose(CallActions(n, kinds),
                    Assistant({CallActions(n, kinds)[i].id : i \in 1..n}))
      BY <2>1
    <2> DEFINE actions == CallActions(n, kinds)
               calls == {actions[i].id : i \in 1..n}
    <2>3. /\ conversation' = Append(conversation, Assistant(calls))
          /\ proposed' = actions
      BY <2>2 DEF Propose
    <2>4. iteration < max_iterations /\ TypeOK
      BY <2>2 DEF Propose, Inv, PhaseInv
    <2>5. /\ Len(actions) = n
          /\ \A i \in 1..n : /\ actions[i].id \in AllCallIds
                             /\ actions[i].id = <<iteration + 1, i>>
      BY <2>4, CallActionsType
    <2> HIDE DEF actions
    <2>6. /\ calls \in SUBSET AllCallIds
          /\ \A c \in calls : c[1] = iteration + 1
      BY <2>5
    <2>7. ProposedIds' = calls
      BY <2>3, <2>5, NoCallIsNoCallId DEF ProposedIds
    <2> HIDE DEF calls
    <2>8. Assistant(calls) \in Messages
      BY <2>6, AssistantType
    <2>9. /\ Assistant(calls).role = "assistant" /\ Assistant(calls).calls = calls
          /\ Assistant(calls).tokens = 1
      BY DEF Assistant, Plain
    <2>10. \E message \in Messages :
             /\ message.role = "assistant" /\ message.tokens = 1
             /\ conversation' = Append(conversation, message)
             /\ ProposedIds' = message.calls
             /\ \A c \in message.calls : c[1] = iteration + 1
      BY <2>3, <2>6, <2>7, <2>8, <2>9
    <2>11. QED  BY <1>0, <2>10
  <1>3. QED  BY <1>1, <1>2

\* The gate takes the first call of what is proposed.
LEMMA JudgedIds ==
    ASSUME Inv, CheckPolicy
    PROVE  LET a == Head(proposed)
           IN  /\ ProposedIds = ProposedIds' \cup ({a.id} \ {NoCall})
               /\ a.id \notin ProposedIds'
               /\ a.kind # "respond" => a.id \in AllCallIds \ permitted
  <1> DEFINE a == Head(proposed)
             s == proposed
             t == proposed'
  <1>1. s \in Seq(Actions) /\ s # <<>> /\ t = Tail(s) /\ a = s[1]
    BY DEF CheckPolicy, Inv, TypeOK
  <1>2. /\ \A i, j \in 1..Len(s) : i # j => s[i].id # s[j].id
        /\ \A i \in 1..Len(s) :
              s[i].kind # "respond" => s[i].id \in AllCallIds \ permitted
    BY DEF Inv, ProposedInv
  <1> HIDE DEF s, t, a
  <1>3. /\ Len(s) \in Nat \ {0} /\ Len(t) = Len(s) - 1
        /\ \A i \in 1..Len(t) : t[i] = s[i + 1]
    BY <1>1, HeadTailProperties, LenProperties
  <1>4. \A i \in 1..Len(s) : i = 1 \/ (i - 1 \in 1..Len(t) /\ (i - 1) + 1 = i)
    BY <1>3
  <1>5. \A i \in 1..Len(t) : i + 1 \in 1..Len(s) /\ i + 1 # 1
    BY <1>3
  <1>6. 1 \in 1..Len(s)
    BY <1>3
  <1>7. {s[i].id : i \in 1..Len(s)} = {t[i].id : i \in 1..Len(t)} \cup {a.id}
    <2>1. \A i \in 1..Len(s) : s[i] = a \/ \E j \in 1..Len(t) : s[i] = t[j]
      BY <1>1, <1>3, <1>4
    <2>2. \A j \in 1..Len(t) : \E i \in 1..Len(s) : t[j] = s[i]
      BY <1>3, <1>5
    <2>3. \A x \in {s[i].id : i \in 1..Len(s)} :
              x \in {t[i].id : i \in 1..Len(t)} \cup {a.id}
      BY <2>1
    <2>4. a.id \in {s[i].id : i \in 1..Len(s)}
      BY <1>1, <1>6
    <2>5. \A j \in 1..Len(t) : t[j].id \in {s[i].id : i \in 1..Len(s)}
      BY <2>2
    <2>6. QED  BY <2>3, <2>4, <2>5
  <1>8. a.id \notin {t[i].id : i \in 1..Len(t)}
    BY <1>1, <1>2, <1>3, <1>5, <1>6
  <1>9. a.kind # "respond" => a.id \in AllCallIds \ permitted
    BY <1>1, <1>2, <1>6
  <1>10. QED  BY <1>7, <1>8, <1>9 DEF ProposedIds, s, t, a

\* What the gate lets through joins the approved calls.
LEMMA ApprovedIdsGrow ==
    ASSUME turn.approved \in Seq(Actions), NEW b \in Actions,
           turn'.approved = Append(turn.approved, b)
    PROVE  ApprovedIds' = ApprovedIds \cup {b.id}
  <1> DEFINE s == turn.approved
             t == turn'.approved
  <1>1. s \in Seq(Actions) /\ t = Append(s, b)
    OBVIOUS
  <1> HIDE DEF s, t
  <1>2. /\ Len(t) = Len(s) + 1 /\ Len(s) \in Nat
        /\ t[Len(s) + 1] = b
        /\ \A i \in 1..Len(s) : t[i] = s[i]
    BY <1>1, AppendProperties, LenProperties
  <1>3. /\ \A i \in 1..Len(t) : i \in 1..Len(s) \/ i = Len(s) + 1
        /\ \A i \in 1..Len(s) : i \in 1..Len(t)
        /\ Len(s) + 1 \in 1..Len(t)
    BY <1>2
  <1>4. {t[i].id : i \in 1..Len(t)} = {s[i].id : i \in 1..Len(s)} \cup {b.id}
    BY <1>2, <1>3
  <1>5. QED  BY <1>4 DEF ApprovedIds, s, t

LEMMA InitConversation == Init => ConversationInv
  <1> SUFFICES ASSUME Init PROVE ConversationInv
    OBVIOUS
  <1> DEFINE ms == conversation
  <1>1. Len(ms) = 2 /\ \A i \in 1..Len(ms) : ms[i].calls = {} /\ ms[i].role # "tool"
    <2>1. /\ Len(ms) = 2 /\ ms[1] = Plain("system") /\ ms[2] = Plain("user")
      BY DEF Init
    <2>2. \A i \in 1..2 : i = 1 \/ i = 2
      OBVIOUS
    <2>3. QED  BY <2>1, <2>2 DEF Plain
  <1> HIDE DEF ms
  <1>2. Whole(ms)
    BY <1>1 DEF Whole, OnlyAssistantCalls, Paired, NoOrphanResult, NoOrphanCall
  <1>3. pc = "start" /\ Len(observations) = 0
    BY DEF Init
  <1>4. QED  BY <1>2, <1>3 DEF ConversationInv, ms

\* A context manager that summarises nothing leaves the conversation whole.
LEMMA BeginReasoningConversation ==
    ASSUME Strategy # "AnchoredSummary", Inv, ConversationInv, BeginReasoning
    PROVE  ConversationInv'
  <1>1. /\ conversation' = ManageContext(conversation, context_token_budget)
        /\ pc = "inject" /\ pc' = "complete" /\ observations' = observations
    BY DEF BeginReasoning
  <1>2. conversation \in Seq(Messages)
    BY DEF Inv, TypeOK
  <1>3. Whole(conversation)
    BY <1>1 DEF ConversationInv
  <1>4. \A m \in Messages : /\ DOMAIN m = {"role", "calls", "id", "tokens"}
                            /\ [m EXCEPT !.tokens = 1] \in Messages
    BY DEF Messages
  <1>5. Whole(conversation')
    BY <1>1, <1>2, <1>3, <1>4, ManagedConversationsArePaired DEF Whole
  <1>6. QED  BY <1>1, <1>5 DEF ConversationInv

\* The model's message opens the turn.
LEMMA ProposeConversation ==
    ASSUME Inv, ConversationInv, ProposeCalls \/ ProposeText
    PROVE  ConversationInv'
  <1>1. PICK message \in Messages :
          /\ message.role = "assistant"
          /\ conversation' = Append(conversation, message)
          /\ ProposedIds' = message.calls
    BY ProposeEffect
  <1>2. /\ pc = "complete" /\ pc' = "journal_reasoning"
        /\ turn' = NewTurn /\ observations' = <<>>
    BY DEF ProposeCalls, ProposeText, Propose
  <1>3. conversation \in Seq(Messages) /\ Whole(conversation)
    BY <1>2 DEF Inv, TypeOK, ConversationInv
  <1>4. OpenTurn(conversation', message.calls, message.calls)
    BY <1>1, <1>3, ProposalOpensTurn DEF Whole
  <1>5. ApprovedIds' = {}
    <2>1. Len(turn'.approved) = 0
      BY <1>2 DEF NewTurn
    <2>2. QED  BY <2>1 DEF ApprovedIds
  <1>6. OpenIds' = message.calls
    BY <1>1, <1>5 DEF OpenIds
  <1>7. Len(observations') = 0
    BY <1>2
  <1>8. \E calls : OpenTurn(conversation', calls, OpenIds') /\ OpenIds' \subseteq calls
    BY <1>4, <1>6
  <1>9. QED  BY <1>2, <1>7, <1>8 DEF ConversationInv

\* A denied call is answered at once; an approved one stays open.
LEMMA CheckPolicyConversation ==
    ASSUME Inv, JournalInv, ConversationInv, CheckPolicy
    PROVE  ConversationInv'
  <1> DEFINE a == Head(proposed)
  <1>1. /\ pc = "gate" /\ pc' = "gate" /\ proposed # <<>>
        /\ observations' = observations
    BY DEF CheckPolicy
  <1>2. /\ a = proposed[1] /\ a \in Actions /\ proposed' = Tail(proposed)
        /\ a.kind = "respond" => a.id = NoCall
        /\ a.kind \in {"tool", "malformed", "delegate"} => a.id \in CallIds(iteration)
        /\ a.kind \in {"tool", "malformed", "delegate", "respond"}
        /\ \/ /\ turn' = [turn EXCEPT !.denied = Append(@, a)]
              /\ conversation' = AnswerDenied(a)
           \/ \E b, terminal, output :
                 /\ conversation' = conversation
                 /\ turn' = [turn EXCEPT
                                !.approved = Append(@, b),
                                !.terminal = @ \/ terminal,
                                !.output = IF output # "" THEN output ELSE @]
                 /\ b \in Actions /\ terminal \in BOOLEAN
                 /\ \/ b = a /\ (terminal <=> a.kind = "respond")
                    \/ terminal = TRUE
    BY CheckPolicyEffect
  <1> HIDE DEF a
  <1>3. SUFFICES ASSUME ~turn'.terminal
                 PROVE  \E calls : /\ OpenTurn(conversation', calls, OpenIds')
                                   /\ OpenIds' \subseteq calls
    BY <1>1 DEF ConversationInv
  <1>4. /\ turn \in Turns /\ turn.approved \in Seq(Actions)
        /\ turn.terminal \in BOOLEAN /\ conversation \in Seq(Messages)
        /\ proposed \in Seq(Actions)
    <2>1. turn \in Turns
      BY DEF Inv, TypeOK
    <2>2. QED  BY <2>1 DEF Turns, Inv, TypeOK
  <1>5. ProposedIds = ProposedIds' \cup ({a.id} \ {NoCall})
    BY JudgedIds DEF a
  <1>6. ASSUME ~turn.terminal
        PROVE  \E calls : OpenTurn(conversation, calls, OpenIds) /\ OpenIds \subseteq calls
    BY <1>1, <1>6 DEF ConversationInv
  <1>7. CASE /\ turn' = [turn EXCEPT !.denied = Append(@, a)]
             /\ conversation' = AnswerDenied(a)
    <2>1. turn'.approved = turn.approved /\ turn'.terminal = turn.terminal
      BY <1>4, <1>7 DEF Turns
    <2>2. PICK calls : OpenTurn(conversation, calls, OpenIds) /\ OpenIds \subseteq calls
      BY <1>3, <1>6, <2>1
    <2>3. ApprovedIds' = ApprovedIds
      BY <2>1 DEF ApprovedIds
    <2>4. CASE a.id = NoCall
      <3>1. conversation' = conversation
        BY <1>7, <2>4 DEF AnswerDenied
      <3>2. OpenIds' = OpenIds
        BY <1>5, <2>3, <2>4 DEF OpenIds
      <3>3. QED  BY <2>2, <3>1, <3>2
    <2>5. CASE a.id # NoCall
      <3> DEFINE r == ToolResult(a.id, 1)
                 s == conversation
                 t == conversation'
      <3>1. /\ r \in Messages /\ r.id = a.id /\ r.role = "tool" /\ r.calls = {}
        <4>1. a.id \in Ids /\ 1 \in Nat
          BY <1>2 DEF Actions
        <4>2. QED  BY <4>1, ToolResultType DEF ToolResult
      <3>2. s \in Seq(Messages) /\ t = Append(s, r)
        BY <1>4, <1>7, <2>5 DEF AnswerDenied
      <3> HIDE DEF r, s, t
      <3>3. /\ t \in Seq(Messages) /\ Len(s) \in Nat /\ Len(t) = Len(s) + 1
            /\ t[Len(s) + 1] = r
            /\ \A i \in 1..Len(s) : t[i] = s[i]
        BY <3>1, <3>2, AppendProperties
      <3>4. /\ Len(t) >= Len(s)
            /\ \A i \in (Len(s) + 1)..Len(t) : i = Len(s) + 1
            /\ Len(s) + 1 \in (Len(s) + 1)..Len(t)
        BY <3>3
      <3>5. a.id \in calls
        BY <1>5, <2>2, <2>5 DEF OpenIds
      <3>6. \A i \in (Len(s) + 1)..Len(t) :
               t[i].role = "tool" /\ t[i].calls = {} /\ t[i].id \in calls
        BY <3>1, <3>3, <3>4, <3>5
      <3>7. \A c \in OpenIds : c \in OpenIds' \/
               \E i \in (Len(s) + 1)..Len(t) : t[i].id = c
        <4>1. t[Len(s) + 1].id = a.id
          BY <3>1, <3>3
        <4>2. \A c \in OpenIds : c \in OpenIds' \/ c = a.id
          BY <1>5, <2>3 DEF OpenIds
        <4>3. QED  BY <3>4, <4>1, <4>2
      <3>8. OpenTurn(s, calls, OpenIds)
        BY <2>2 DEF s
      <3>9. OpenTurn(t, calls, OpenIds')
        <4>1. Answers(s, t, calls, OpenIds, OpenIds')
          BY <3>3, <3>4, <3>6, <3>7 DEF Answers
        <4>2. QED  BY <3>2, <3>3, <3>8, <4>1, AnswersCloseCalls
      <3>10. OpenIds' \subseteq calls
        BY <1>5, <2>2, <2>3 DEF OpenIds
      <3>11. QED  BY <3>9, <3>10 DEF t
    <2>6. QED  BY <2>4, <2>5
  <1>8. ASSUME NEW b, NEW terminal, NEW output,
               conversation' = conversation,
               turn' = [turn EXCEPT
                            !.approved = Append(@, b),
                            !.terminal = @ \/ terminal,
                            !.output = IF output # "" THEN output ELSE @],
               b \in Actions, terminal \in BOOLEAN,
               \/ b = a /\ (terminal <=> a.kind = "respond")
               \/ terminal = TRUE
        PROVE  \E calls : /\ OpenTurn(conversation', calls, OpenIds')
                          /\ OpenIds' \subseteq calls
    <2>1. /\ turn'.approved = Append(turn.approved, b)
          /\ turn'.terminal = (turn.terminal \/ terminal)
      BY <1>4, <1>8 DEF Turns
    <2>2. ~turn.terminal /\ ~terminal /\ b = a /\ a.kind # "respond"
      BY <1>3, <1>4, <1>8, <2>1
    <2>3. PICK calls : OpenTurn(conversation, calls, OpenIds) /\ OpenIds \subseteq calls
      BY <1>6, <2>2
    <2>4. ApprovedIds' = ApprovedIds \cup {a.id}
      BY <1>2, <1>4, <2>1, <2>2, ApprovedIdsGrow
    <2>5. a.id # NoCall
      <3>1. 1 \in 1..Len(proposed)
        BY <1>1, <1>4
      <3>2. a.id \in AllCallIds
        BY <1>2, <2>2, <3>1 DEF Inv, ProposedInv
      <3>3. QED  BY <3>2, NoCallIsNoCallId
    <2>6. OpenIds' = OpenIds
      BY <1>5, <2>4, <2>5 DEF OpenIds
    <2>7. QED  BY <1>8, <2>3, <2>6
  <1>9. QED  BY <1>2, <1>7, <1>8

\* The results that come in are those of approved calls: they close the turn.
LEMMA CollectConversation ==
    ASSUME Inv, TerminalInv, JournalInv, ConversationInv, CollectResults
    PROVE  ConversationInv'
  <1>1. /\ pc = "dispatch" /\ pc' = "dispatched"
        /\ ToDispatch("tool") \cup ToDispatch("delegate") = {}
        /\ UNCHANGED <<turn, observations>>
        /\ conversation' = conversation \o observations
    BY DEF CollectResults
  <1>2. ~turn.terminal
    BY <1>1 DEF TerminalInv
  <1>3. PICK calls : OpenTurn(conversation, calls, OpenIds) /\ OpenIds \subseteq calls
    BY <1>1, <1>2 DEF ConversationInv
  <1>4. OpenIds = ApprovedIds
    <2>1. Len(proposed) = 0
      BY <1>1 DEF ConversationInv
    <2>2. QED  BY <2>1 DEF OpenIds, ProposedIds
  <1>5. ApprovedIds \subseteq {observations[i].id : i \in 1..Len(observations)}
    <2>1. ASSUME NEW i \in 1..Len(turn.approved)
          PROVE  Observed(turn.approved[i].id)
      <3>1. turn.approved[i].kind \in {"tool", "delegate"}
        BY <1>2 DEF JournalInv, RanInv
      <3>2. turn.approved[i] \in {turn.approved[j] : j \in 1..Len(turn.approved)}
        OBVIOUS
      <3>3. QED  BY <1>1, <3>1, <3>2 DEF ToDispatch
    <2>2. QED  BY <2>1 DEF ApprovedIds, Observed
  <1> DEFINE s == conversation
             o == observations
             t == conversation'
  <1>6. /\ s \in Seq(Messages) /\ o \in Seq(Messages) /\ t = s \o o
        /\ \A i \in 1..Len(o) : /\ o[i].role = "tool" /\ o[i].calls = {}
                                 /\ o[i].id \in ApprovedIds
    BY <1>1 DEF Inv, TypeOK, ConversationInv, JournalInv, RanInv
  <1>7. OpenTurn(s, calls, ApprovedIds) /\ ApprovedIds \subseteq calls
    BY <1>3, <1>4
  <1>8. ApprovedIds \subseteq {o[i].id : i \in 1..Len(o)}
    BY <1>5
  <1> HIDE DEF s, o, t
  <1>9. /\ t \in Seq(Messages) /\ Len(s) \in Nat /\ Len(o) \in Nat
        /\ Len(t) = Len(s) + Len(o)
        /\ \A i \in 1..Len(s) : t[i] = s[i]
        /\ \A i \in 1..Len(o) : t[Len(s) + i] = o[i]
    <2>1. /\ t \in Seq(Messages) /\ Len(s) \in Nat /\ Len(o) \in Nat
          /\ Len(t) = Len(s) + Len(o)
          /\ \A i \in 1..(Len(s) + Len(o)) :
                t[i] = IF i <= Len(s) THEN s[i] ELSE o[i - Len(s)]
      BY <1>6, ConcatProperties, LenProperties
    <2>2. \A i \in 1..Len(s) : i \in 1..(Len(s) + Len(o)) /\ i <= Len(s)
      BY <2>1
    <2>3. \A i \in 1..Len(o) : /\ Len(s) + i \in 1..(Len(s) + Len(o))
                               /\ ~(Len(s) + i <= Len(s))
                               /\ (Len(s) + i) - Len(s) = i
      BY <2>1
    <2>4. \A i \in 1..Len(s) : t[i] = s[i]
      BY <2>1, <2>2
    <2>5. \A i \in 1..Len(o) : t[Len(s) + i] = o[i]
      BY <2>1, <2>3
    <2>6. QED  BY <2>1, <2>4, <2>5
  <1>10. \A i \in (Len(s) + 1)..Len(t) :
            i - Len(s) \in 1..Len(o) /\ Len(s) + (i - Len(s)) = i
    BY <1>9
  <1>11. \A i \in (Len(s) + 1)..Len(t) :
            t[i].role = "tool" /\ t[i].calls = {} /\ t[i].id \in calls
    <2>1. TAKE i \in (Len(s) + 1)..Len(t)
    <2>2. PICK k \in 1..Len(o) : t[i] = o[k]
      BY <1>9, <1>10
    <2>3. QED  BY <1>6, <1>7, <2>2
  <1>12. \A k \in 1..Len(o) : Len(s) + k \in (Len(s) + 1)..Len(t)
    BY <1>9
  <1>13. \A c \in ApprovedIds : c \in {} \/
            \E i \in (Len(s) + 1)..Len(t) : t[i].id = c
    BY <1>8, <1>9, <1>12
  <1>14. Len(t) >= Len(s)
    BY <1>9
  <1>15. OpenTurn(t, calls, {})
    <2>1. Answers(s, t, calls, ApprovedIds, {})
      BY <1>9, <1>11, <1>13, <1>14 DEF Answers
    <2>2. QED  BY <1>6, <1>7, <1>9, <2>1, AnswersCloseCalls
  <1>16. Whole(t)
    BY <1>15, ClosedTurnIsPaired DEF Whole
  <1>17. QED  BY <1>1, <1>16 DEF ConversationInv, t

\* A call that runs leaves its result with the observations.
LEMMA RunConversation ==
    ASSUME Inv, ConversationInv, ExecuteTool \/ Delegate
    PROVE  ConversationInv'
  <1>1. PICK kind \in {"tool", "delegate"} :
          \E a \in ToDispatch(kind) : pc = "dispatch" /\ Run(a)
    BY DEF ExecuteTool, Delegate
  <1>2. PICK a \in ToDispatch(kind) : pc = "dispatch" /\ Run(a)
    BY <1>1
  <1>3. PICK k \in 1..Len(turn.approved) :
          a = turn.approved[k] /\ a.kind \in {"tool", "delegate"}
    BY <1>2 DEF ToDispatch
  <1>4. a.id \in CallIds(iteration) \cap permitted
    BY <1>3 DEF Inv, ApprovedInv
  <1>5. PICK size \in ResultSizes :
          observations' = Append(observations, ToolResult(a.id, size))
    BY <1>2 DEF Run
  <1>6. UNCHANGED <<pc, iteration, proposed, turn, conversation>>
    BY <1>2 DEF Run
  <1>7. \A i \in 1..Len(observations') :
           observations'[i].role = "tool" /\ observations'[i].calls = {}
    <2> DEFINE r == ToolResult(a.id, size)
               s == observations
               t == observations'
    <2>1. /\ r \in Messages /\ r.role = "tool" /\ r.calls = {}
      <3>1. a.id \in Ids /\ size \in Nat
        BY <1>4, LoopAssumption DEF Inv, TypeOK, Ids
      <3>2. QED  BY <3>1, ToolResultType DEF ToolResult
    <2>2. s \in Seq(Messages) /\ t = Append(s, r)
      BY <1>5 DEF Inv, TypeOK
    <2>3. \A i \in 1..Len(s) : s[i].role = "tool" /\ s[i].calls = {}
      BY DEF ConversationInv
    <2> HIDE DEF r, s, t
    <2>4. /\ Len(t) = Len(s) + 1 /\ Len(s) \in Nat
          /\ t[Len(s) + 1] = r
          /\ \A i \in 1..Len(s) : t[i] = s[i]
      BY <2>1, <2>2, AppendProperties, LenProperties
    <2>5. \A i \in 1..Len(t) : i \in 1..Len(s) \/ i = Len(s) + 1
      BY <2>4
    <2>6. \A i \in 1..Len(t) : t[i].role = "tool" /\ t[i].calls = {}
      BY <2>1, <2>3, <2>4, <2>5
    <2>7. QED  BY <2>6 DEF t
  <1>8. OpenIds' = OpenIds
    BY <1>6, SameTurnOpenIds
  <1>9. QED  BY <1>6, <1>7, <1>8 DEF ConversationInv

LEMMA ConversationStep ==
    ASSUME Strategy # "AnchoredSummary",
           Inv, TerminalInv, JournalInv, ConversationInv, [Next]_vars
    PROVE  ConversationInv'
  <1>0. ASSUME UNCHANGED <<proposed, turn, observations, conversation>>
        PROVE  /\ OpenIds' = OpenIds
               /\ pc' = pc => ConversationInv'
    BY <1>0, SameTurnOpenIds DEF ConversationInv
  <1>1. CASE Start \/ ReasoningComplete \/ ToolsDispatched
    <2>1. /\ UNCHANGED <<proposed, turn, observations, conversation>>
          /\ \/ pc = "start" /\ pc' = "inject"
             \/ pc = "journal_reasoning" /\ pc' = "gate"
             \/ pc = "dispatched" /\ pc' = "observed"
      BY <1>1 DEF Start, ReasoningComplete, ToolsDispatched
    <2>2. OpenIds' = OpenIds
      BY <1>0, <2>1
    <2>3. QED  BY <2>1, <2>2 DEF ConversationInv
  <1>2. CASE PolicyEvaluated
    <2>1. /\ UNCHANGED <<proposed, turn, observations, conversation>>
          /\ pc = "gate" /\ proposed = <<>>
          /\ \/ turn.terminal /\ pc' = "dispatched"
             \/ ~turn.terminal /\ pc' = "dispatch"
      BY <1>2 DEF PolicyEvaluated, AfterPolicy
    <2>2. OpenIds' = OpenIds
      BY <1>0, <2>1
    <2>3. QED  BY <2>1, <2>2 DEF ConversationInv
  <1>3. CASE ObserveResults
    BY <1>3 DEF ObserveResults, ConversationInv
  <1>4. CASE \/ StopAtBudget \/ InferenceFails \/ PersistLearnings
             \/ Complete \/ Timeout
    BY <1>4 DEF StopAtBudget, Terminate, InferenceFails, PersistLearnings,
       Complete, Timeout, ConversationInv
  <1>5. CASE UNCHANGED vars
    BY <1>0, <1>5 DEF vars
  <1>6. QED
    BY <1>1, <1>2, <1>3, <1>4, <1>5, BeginReasoningConversation,
       ProposeConversation, CheckPolicyConversation, CollectConversation,
       RunConversation DEF Next

\* With a context manager that summarises nothing, the model is never sent a
\* tool call without its result or a result without its call, whatever the
\* gate denies, the order the results come in and the budget the conversation
\* is cut to (phases.rs, push_denial_tool_result; conversation.rs,
\* truncate_to_budget).
THEOREM CallsAreAnswered ==
    ASSUME Strategy # "AnchoredSummary"
    PROVE  Spec => []EveryCallAnswered
  <1>1. Inv /\ TerminalInv /\ JournalInv /\ ConversationInv /\ [Next]_vars
          => ConversationInv'
    BY ConversationStep
  <1>2. ConversationInv => EveryCallAnswered
    BY DEF ConversationInv, EveryCallAnswered, Whole
  <1>3. QED  BY <1>1, <1>2, InitConversation, JournalInvAlways, PTL DEF Spec

-----------------------------------------------------------------------------
(* The size of a conversation, which Tokens folds, as a sum that grows with  *)
(* each message.                                                             *)

\* The equation the fold's recursive function solves, on the sets up to n.
IsSum(f, ms, n) ==
    f = [s \in SUBSET (1..n) |->
            IF s = {} THEN 0 ELSE f[s \ {Max(s)}] + ms[Max(s)].tokens]

SumOf(ms) == CHOOSE f : IsSum(f, ms, Len(ms))

\* The size of the first k messages.
Size(ms, k) == SumOf(ms)[1..k]

\* A counterexample to a claim on 0..n would have a least one.
LEMMA LeastOf ==
    ASSUME NEW n \in Nat, NEW Bad \in SUBSET (0..n), 0 \notin Bad,
           \A k \in 1..n : k \in Bad => k - 1 \in Bad
    PROVE  Bad = {}
  <1>1. SUFFICES ASSUME Bad # {} PROVE FALSE
    OBVIOUS
  <1>2. Bad \in SUBSET Nat
    OBVIOUS
  <1>3. Min(Bad) \in Bad /\ \A y \in Bad : Min(Bad) <= y
    BY <1>1, <1>2, MinIsInSet
  <1>4. Min(Bad) \in 1..n
    <2> DEFINE m == Min(Bad)
    <2>1. m \in 0..n /\ m # 0
      BY <1>3
    <2> HIDE DEF m
    <2>2. m \in 1..n
      BY <2>1
    <2>3. QED  BY <2>2 DEF m
  <1>5. Min(Bad) - 1 \in Bad
    BY <1>3, <1>4
  <1>6. QED  BY <1>3, <1>4, <1>5

\* One more message: the sets with it are the sets without it and the message.
LEMMA SumExtends ==
    ASSUME NEW ms, NEW k \in Nat, NEW g, IsSum(g, ms, k)
    PROVE  \E f : IsSum(f, ms, k + 1)
  <1> DEFINE last == k + 1
             f == [s \in SUBSET (1..last) |->
                     IF last \in s THEN g[s \ {last}] + ms[last].tokens ELSE g[s]]
  <1>1. ASSUME NEW s \in SUBSET (1..last)
        PROVE  f[s] = IF s = {} THEN 0 ELSE f[s \ {Max(s)}] + ms[Max(s)].tokens
    <2>1. CASE last \in s
      <3>1. s \in SUBSET (0..last) /\ s # {} /\ last \in Nat
        BY <2>1
      <3>2. Max(s) \in s /\ \A y \in s : Max(s) >= y
        BY <3>1, MaxIsInSet
      <3>3. Max(s) = last
        <4> DEFINE m == Max(s)
        <4>1. m \in 1..last /\ m >= last
          BY <2>1, <3>2
        <4> HIDE DEF m
        <4>2. m = last
          BY <4>1
        <4>3. QED  BY <4>2 DEF m
      <3>4. s \ {last} \in SUBSET (1..last) /\ last \notin s \ {last}
        OBVIOUS
      <3>5. f[s \ {last}] = g[s \ {last}]
        BY <3>4
      <3>6. f[s] = g[s \ {last}] + ms[last].tokens
        BY <2>1
      <3>7. QED  BY <3>1, <3>3, <3>5, <3>6
    <2>2. CASE last \notin s
      <3>1. s \in SUBSET (1..k)
        BY <2>2
      <3>2. f[s] = g[s]
        BY <2>2
      <3>3. g[s] = IF s = {} THEN 0 ELSE g[s \ {Max(s)}] + ms[Max(s)].tokens
        BY <3>1 DEF IsSum
      <3>4. s \ {Max(s)} \in SUBSET (1..last) /\ last \notin s \ {Max(s)}
        BY <2>2
      <3>5. f[s \ {Max(s)}] = g[s \ {Max(s)}]
        BY <3>4
      <3>6. QED  BY <3>2, <3>3, <3>5
    <2>3. QED  BY <2>1, <2>2
  <1>2. f = [s \in SUBSET (1..last) |->
               IF s = {} THEN 0 ELSE f[s \ {Max(s)}] + ms[Max(s)].tokens]
    BY <1>1
  <1>3. IsSum(f, ms, last)
    BY <1>2 DEF IsSum
  <1>4. QED  BY <1>3

\* The function that Tokens folds with exists.
LEMMA SumExists ==
    ASSUME NEW ms, NEW n \in Nat
    PROVE  \E f : IsSum(f, ms, n)
  <1> DEFINE Bad == {k \in 0..n : ~\E f : IsSum(f, ms, k)}
  <1>1. 0 \notin Bad
    <2> DEFINE f == [s \in SUBSET (1..0) |-> 0]
    <2>1. \A s \in SUBSET (1..0) : s = {}
      OBVIOUS
    <2>2. f = [s \in SUBSET (1..0) |->
                 IF s = {} THEN 0 ELSE f[s \ {Max(s)}] + ms[Max(s)].tokens]
      BY <2>1
    <2>3. IsSum(f, ms, 0)
      BY <2>2 DEF IsSum
    <2>4. QED  BY <2>3
  <1>2. ASSUME NEW k \in 1..n, k \in Bad
        PROVE  k - 1 \in Bad
    <2>1. k - 1 \in 0..n /\ k - 1 \in Nat /\ (k - 1) + 1 = k
      OBVIOUS
    <2>2. (\E f : IsSum(f, ms, k - 1)) => \E f : IsSum(f, ms, k)
      BY <2>1, SumExtends
    <2>3. QED  BY <1>2, <2>1, <2>2
  <1>3. Bad \in SUBSET (0..n)
    OBVIOUS
  <1> HIDE DEF Bad
  <1>4. Bad = {}
    BY <1>1, <1>2, <1>3, LeastOf
  <1>5. n \in 0..n
    OBVIOUS
  <1>6. QED  BY <1>4, <1>5 DEF Bad

\* Tokens is the size of all messages, and each message adds its own.
LEMMA TokensIsSize ==
    ASSUME NEW S, NEW ms \in Seq(S)
    PROVE  /\ Tokens(ms) = Size(ms, Len(ms))
           /\ Size(ms, 0) = 0
           /\ \A k \in 1..Len(ms) : Size(ms, k) = Size(ms, k - 1) + ms[k].tokens
  <1> DEFINE n == Len(ms)
  <1>1. n \in Nat /\ DOMAIN ms = 1..n
    OBVIOUS
  <1>2. Tokens(ms) = (CHOOSE f : f = [s \in SUBSET DOMAIN ms |->
          IF s = {} THEN 0 ELSE f[s \ {Max(s)}] + ms[Max(s)].tokens])[DOMAIN ms]
    BY Zenon DEF Tokens, FoldLeft, MapThenFoldSet
  <1>3. Tokens(ms) = SumOf(ms)[1..n]
    BY <1>1, <1>2, Zenon DEF SumOf, IsSum
  <1>4. IsSum(SumOf(ms), ms, n)
    <2>1. PICK f : IsSum(f, ms, n)
      BY <1>1, SumExists
    <2>2. QED  BY <2>1, Zenon DEF SumOf
  <1>5. Size(ms, 0) = 0
    <2>1. 1..0 = {} /\ 1..0 \in SUBSET (1..n)
      OBVIOUS
    <2>2. QED  BY <1>4, <2>1 DEF IsSum, Size
  <1>6. ASSUME NEW k \in 1..n
        PROVE  Size(ms, k) = Size(ms, k - 1) + ms[k].tokens
    <2>1. /\ 1..k \in SUBSET (0..k) /\ 1..k # {} /\ k \in 1..k /\ k \in Nat
          /\ 1..k \in SUBSET (1..n)
      <3>1. k \in Nat /\ k \in 1..k
        BY <1>1
      <3>2. \A x \in 1..k : x \in 0..k /\ x \in 1..n
        BY <1>1
      <3>3. QED  BY <3>1, <3>2
    <2>2. Max(1..k) \in 1..k /\ \A y \in 1..k : Max(1..k) >= y
      BY <2>1, MaxIsInSet
    <2>3. Max(1..k) = k
      BY <2>1, <2>2
    <2>4. (1..k) \ {k} = 1..(k - 1)
      OBVIOUS
    <2>5. SumOf(ms)[1..k] = IF 1..k = {} THEN 0
                 ELSE SumOf(ms)[(1..k) \ {Max(1..k)}] + ms[Max(1..k)].tokens
      <3> DEFINE s == 1..k
                 F == SumOf(ms)
      <3>1. s \in SUBSET (1..n)
        BY <2>1
      <3>2. F = [x \in SUBSET (1..n) |->
                   IF x = {} THEN 0 ELSE F[x \ {Max(x)}] + ms[Max(x)].tokens]
        BY <1>4 DEF IsSum
      <3> HIDE DEF s, F
      <3>3. F[s] = IF s = {} THEN 0 ELSE F[s \ {Max(s)}] + ms[Max(s)].tokens
        BY <3>1, <3>2
      <3>4. QED  BY <3>3 DEF s, F
    <2>6. QED  BY <2>1, <2>3, <2>4, <2>5 DEF Size
  <1>7. QED  BY <1>3, <1>5, <1>6 DEF Size

\* Every message has a size; only that of a tool result varies.
Sized(ms) ==
    \A i \in 1..Len(ms) :
        /\ ms[i].tokens \in Nat \ {0}
        /\ ms[i].role # "tool" => ms[i].tokens = 1

LEMMA SizeType ==
    ASSUME NEW S, NEW ms \in Seq(S), Sized(ms)
    PROVE  \A k \in 0..Len(ms) : Size(ms, k) \in Nat
  <1> DEFINE n == Len(ms)
             Bad == {k \in 0..n : Size(ms, k) \notin Nat}
  <1>1. n \in Nat
    OBVIOUS
  <1>2. 0 \notin Bad
    BY TokensIsSize
  <1>3. ASSUME NEW k \in 1..n, k \in Bad
        PROVE  k - 1 \in Bad
    <2>1. Size(ms, k) = Size(ms, k - 1) + ms[k].tokens
      BY TokensIsSize
    <2>2. ms[k].tokens \in Nat /\ k - 1 \in 0..n
      BY <1>1 DEF Sized
    <2>3. Size(ms, k - 1) \in Nat => Size(ms, k) \in Nat
      BY <2>1, <2>2
    <2>4. QED  BY <1>3, <2>2, <2>3
  <1>4. Bad \in SUBSET (0..n)
    OBVIOUS
  <1> HIDE DEF n, Bad
  <1>5. Bad = {}
    BY <1>1, <1>2, <1>3, <1>4, LeastOf
  <1>6. QED  BY <1>5 DEF Bad, n

\* What is in a window of the conversation has the same size there.
LEMMA SizeShift ==
    ASSUME NEW S, NEW ms \in Seq(S), NEW ns \in Seq(S), Sized(ms), Sized(ns),
           NEW d \in Nat, NEW m \in Nat, d + m <= Len(ms), m <= Len(ns),
           \A i \in 1..m : ns[i].tokens = ms[d + i].tokens
    PROVE  Size(ms, d + m) = Size(ms, d) + Size(ns, m)
  <1> DEFINE Bad == {k \in 0..m : Size(ms, d + k) # Size(ms, d) + Size(ns, k)}
  <1>1. Len(ms) \in Nat /\ Len(ns) \in Nat
    OBVIOUS
  <1>2. /\ \A k \in 0..Len(ms) : Size(ms, k) \in Nat
        /\ \A k \in 0..Len(ns) : Size(ns, k) \in Nat
    BY SizeType
  <1>3. 0 \notin Bad
    <2>1. d + 0 = d /\ d \in 0..Len(ms)
      BY <1>1
    <2>2. Size(ns, 0) = 0 /\ Size(ms, d) \in Nat
      BY <1>2, <2>1, TokensIsSize
    <2>3. QED  BY <2>1, <2>2
  <1>4. ASSUME NEW k \in 1..m, k \in Bad
        PROVE  k - 1 \in Bad
    <2>1. /\ k \in 1..Len(ns) /\ d + k \in 1..Len(ms)
          /\ (d + k) - 1 = d + (k - 1)
          /\ k - 1 \in 0..Len(ns) /\ d + (k - 1) \in 0..Len(ms) /\ d \in 0..Len(ms)
          /\ k - 1 \in 0..m
      BY <1>1
    <2>2. Size(ms, d + k) = Size(ms, (d + k) - 1) + ms[d + k].tokens
      BY <2>1, TokensIsSize
    <2>3. Size(ns, k) = Size(ns, k - 1) + ns[k].tokens
      BY <2>1, TokensIsSize
    <2>4. ns[k].tokens = ms[d + k].tokens /\ ns[k].tokens \in Nat
      BY <2>1 DEF Sized
    <2>5. /\ Size(ms, d + (k - 1)) \in Nat /\ Size(ns, k - 1) \in Nat
          /\ Size(ms, d) \in Nat
      BY <1>2, <2>1
    <2>6. Size(ms, d + (k - 1)) = Size(ms, d) + Size(ns, k - 1)
            => Size(ms, d + k) = Size(ms, d) + Size(ns, k)
      <3> DEFINE x == Size(ms, d)
                 y == Size(ms, d + (k - 1))
                 z == Size(ns, k - 1)
                 v == ns[k].tokens
      <3>1. Size(ms, d + k) = y + v /\ Size(ns, k) = z + v
        BY <2>1, <2>2, <2>3, <2>4
      <3>2. x \in Nat /\ y \in Nat /\ z \in Nat /\ v \in Nat
        BY <2>4, <2>5
      <3> HIDE DEF x, y, z, v
      <3>3. y = x + z => y + v = x + (z + v)
        BY <3>2
      <3>4. QED  BY <3>1, <3>3 DEF x, y, z
    <2>7. QED  BY <1>4, <2>1, <2>6
  <1>5. Bad \in SUBSET (0..m)
    OBVIOUS
  <1> HIDE DEF Bad
  <1>6. Bad = {}
    BY <1>3, <1>4, <1>5, LeastOf
  <1>7. m \in 0..m
    OBVIOUS
  <1>8. QED  BY <1>6, <1>7 DEF Bad

\* A cut behind the first s messages has the size of what it keeps.
LEMMA TokensOfParts ==
    ASSUME NEW S, NEW t \in Seq(S), NEW p \in Seq(S), NEW q \in Seq(S),
           Sized(p), Sized(q), t = p \o q
    PROVE  Sized(t) /\ Tokens(t) = Tokens(p) + Tokens(q)
           /\ Tokens(p) \in Nat /\ Tokens(q) \in Nat
  <1>1. /\ Len(p) \in Nat /\ Len(q) \in Nat /\ Len(t) = Len(p) + Len(q)
        /\ \A i \in 1..(Len(p) + Len(q)) :
              t[i] = IF i <= Len(p) THEN p[i] ELSE q[i - Len(p)]
    BY ConcatProperties, LenProperties
  <1>2. \A i \in 1..Len(p) : t[i] = p[i] /\ t[0 + i] = p[i]
    <2>1. \A i \in 1..Len(p) : /\ i \in 1..(Len(p) + Len(q)) /\ i <= Len(p)
                               /\ 0 + i = i
      BY <1>1
    <2>2. QED  BY <1>1, <2>1
  <1>3. \A i \in 1..Len(q) : t[Len(p) + i] = q[i]
    <2>1. \A i \in 1..Len(q) : /\ Len(p) + i \in 1..(Len(p) + Len(q))
                               /\ ~(Len(p) + i <= Len(p))
                               /\ (Len(p) + i) - Len(p) = i
      BY <1>1
    <2>2. QED  BY <1>1, <2>1
  <1>4. Sized(t)
    <2>1. ASSUME NEW i \in 1..Len(t)
          PROVE  /\ t[i].tokens \in Nat \ {0}
                 /\ t[i].role # "tool" => t[i].tokens = 1
      <3>1. i \in 1..Len(p) \/ (i - Len(p) \in 1..Len(q) /\ Len(p) + (i - Len(p)) = i)
        BY <1>1
      <3>2. \/ \E k \in 1..Len(p) : t[i] = p[k]
            \/ \E k \in 1..Len(q) : t[i] = q[k]
        BY <1>2, <1>3, <3>1
      <3>3. QED  BY <3>2 DEF Sized
    <2>2. QED  BY <2>1 DEF Sized
  <1>5. /\ Tokens(t) = Size(t, Len(t)) /\ Tokens(p) = Size(p, Len(p))
        /\ Tokens(q) = Size(q, Len(q)) /\ Size(t, 0) = 0
    BY TokensIsSize
  <1>6. Size(p, Len(p)) \in Nat /\ Size(q, Len(q)) \in Nat
    BY <1>1, SizeType
  <1>7. Size(t, Len(p)) = Size(p, Len(p))
    <2>1. /\ 0 \in Nat /\ 0 + Len(p) <= Len(t) /\ Len(p) <= Len(p)
          /\ 0 + Len(p) = Len(p)
      BY <1>1
    <2>2. \A i \in 1..Len(p) : p[i].tokens = t[0 + i].tokens
      BY <1>2
    <2> DEFINE d == 0
               m == Len(p)
    <2>3. /\ d \in Nat /\ m \in Nat /\ d + m <= Len(t) /\ m <= Len(p)
          /\ \A i \in 1..m : p[i].tokens = t[d + i].tokens
      BY <1>1, <2>1, <2>2
    <2> HIDE DEF d, m
    <2>5. Size(t, d + m) = Size(t, d) + Size(p, m)
      <3>1. t \in Seq(S) /\ p \in Seq(S) /\ Sized(p)
        OBVIOUS
      <3>2. QED  BY ONLY <1>4, <2>3, <3>1, SizeShift
    <2>6. Size(t, 0 + Len(p)) = Size(t, 0) + Size(p, Len(p))
      BY <2>5 DEF d, m
    <2>4. QED  BY <1>5, <1>6, <2>1, <2>6
  <1>8. Size(t, Len(p) + Len(q)) = Size(t, Len(p)) + Size(q, Len(q))
    <2>1. Len(p) + Len(q) <= Len(t) /\ Len(q) <= Len(q)
      BY <1>1
    <2>2. \A i \in 1..Len(q) : q[i].tokens = t[Len(p) + i].tokens
      BY <1>3
    <2> DEFINE d == Len(p)
               m == Len(q)
    <2>3. /\ d \in Nat /\ m \in Nat /\ d + m <= Len(t) /\ m <= Len(q)
          /\ \A i \in 1..m : q[i].tokens = t[d + i].tokens
      BY <1>1, <2>1, <2>2
    <2> HIDE DEF d, m
    <2>5. Size(t, d + m) = Size(t, d) + Size(q, m)
      <3>1. t \in Seq(S) /\ q \in Seq(S) /\ Sized(q)
        OBVIOUS
      <3>2. QED  BY ONLY <1>4, <2>3, <3>1, SizeShift
    <2>6. QED  BY <2>5 DEF d, m
  <1>9. QED  BY <1>1, <1>4, <1>5, <1>6, <1>7, <1>8

\* A conversation that is not empty has a size.
LEMMA TokensArePositive ==
    ASSUME NEW S, NEW ms \in Seq(S), Sized(ms), ms # <<>>
    PROVE  Tokens(ms) \in Nat \ {0}
  <1>1. Len(ms) \in Nat \ {0}
    OBVIOUS
  <1>2. Len(ms) \in 1..Len(ms) /\ Len(ms) - 1 \in 0..Len(ms)
    BY <1>1
  <1>3. Size(ms, Len(ms)) = Size(ms, Len(ms) - 1) + ms[Len(ms)].tokens
    BY <1>2, TokensIsSize
  <1>4. Size(ms, Len(ms) - 1) \in Nat
    BY <1>2, SizeType
  <1>5. ms[Len(ms)].tokens \in Nat \ {0}
    BY <1>2 DEF Sized
  <1>6. QED  BY <1>3, <1>4, <1>5, TokensIsSize

\* The system prompt comes first and something follows it.
Begun(ms) == Len(ms) >= 2 /\ ms[1].role = "system"

\* No call is answered twice.
AnsweredOnce(ms) ==
    \A i, j \in 1..Len(ms) :
        ms[i].role = "tool" /\ ms[j].role = "tool" /\ i # j => ms[i].id # ms[j].id

\* WindowFits of any conversation and budget.
Fits(ms, budget) ==
    LET rest == After(ms, SystemLen(ms))
    IN  /\ rest # <<>>
        /\ Tokens(ms) > budget => \A b \in 1..(Len(rest) - 1) : Pending(rest, b) # {}

\* Where nothing is pending in the window nothing is pending in the whole.
LEMMA PendingInWindow ==
    ASSUME NEW S, NEW ms \in Seq(S), NEW w \in 0..(Len(ms) - 1), Pending(ms, w) = {},
           NEW b \in 0..(Len(ms) - w), Pending(After(ms, w), b) = {}
    PROVE  Pending(ms, w + b) = {}
  <1> DEFINE ns == After(ms, w)
  <1>1. /\ Len(ms) \in Nat /\ w \in 0..Len(ms)
    OBVIOUS
  <1>2. \A i \in 1..(Len(ms) - w) : ns[i] = ms[w + i]
    BY <1>1, AfterElements
  <1>3. Pending(ns, b) = {}
    OBVIOUS
  <1> HIDE DEF ns
  <1>4. SUFFICES ASSUME NEW c, NEW j \in 1..(w + b), c \in ms[j].calls,
                        \A k \in (j + 1)..(w + b) : ms[k].id # c
                 PROVE  FALSE
    BY DEF Pending
  <1>5. CASE j <= w
    <2>1. j \in 1..w
      BY <1>1, <1>5
    <2>2. \A k \in (j + 1)..w : k \in (j + 1)..(w + b)
      BY <1>1
    <2>3. \A k \in (j + 1)..w : ms[k].id # c
      BY <1>4, <2>2
    <2>4. c \in UNION {ms[i].calls : i \in 1..w}
      BY <1>4, <2>1
    <2>5. c \in Pending(ms, w)
      BY <1>4, <2>1, <2>3, <2>4 DEF Pending
    <2>6. QED  BY <2>5
  <1>6. CASE j > w
    <2> DEFINE i == j - w
    <2>1. i \in 1..b /\ i \in 1..(Len(ms) - w) /\ w + i = j
      BY <1>1, <1>6
    <2>2. \A k \in (i + 1)..b : /\ w + k \in (j + 1)..(w + b)
                                /\ k \in 1..(Len(ms) - w)
      BY <1>1, <2>1
    <2> HIDE DEF i
    <2>3. ns[i] = ms[j]
      BY <1>2, <2>1
    <2>4. \A k \in (i + 1)..b : ns[k].id # c
      BY <1>2, <1>4, <2>2
    <2>5. c \in UNION {ns[l].calls : l \in 1..b}
      BY <1>4, <2>1, <2>3
    <2>6. c \in Pending(ns, b)
      BY <1>4, <2>1, <2>3, <2>4, <2>5 DEF Pending
    <2>7. QED  BY <1>3, <2>6
  <1>7. QED  BY <1>1, <1>5, <1>6

\* A window starts where nothing is pending, and fits or is a single group.
LEMMA WindowStartEffect ==
    ASSUME NEW S, NEW ms \in Seq(S), ms # <<>>, NEW budget
    PROVE  LET w == WindowStart(ms, budget)
           IN  /\ w \in 0..(Len(ms) - 1)
               /\ Pending(ms, w) = {}
               /\ \/ Tokens(After(ms, w)) <= budget
                  \/ \A b \in (w + 1)..(Len(ms) - 1) : Pending(ms, b) # {}
  <1> DEFINE starts == GroupEnds(ms) \ {Len(ms)}
             fitting == {b \in starts : Tokens(After(ms, b)) <= budget}
             w == WindowStart(ms, budget)
  <1>1. Len(ms) \in Nat \ {0}
    OBVIOUS
  <1>2. starts = {i \in 0..(Len(ms) - 1) : Pending(ms, i) = {}}
    BY <1>1 DEF GroupEnds
  <1>3. 0 \in starts
    BY <1>1 DEF GroupEnds, Pending
  <1>4. fitting \subseteq starts /\ \A b \in fitting : Tokens(After(ms, b)) <= budget
    OBVIOUS
  <1>5. w = IF fitting # {} THEN Min(fitting) ELSE Max(starts)
    BY DEF WindowStart
  <1> HIDE DEF starts, fitting, w
  <1>6. CASE fitting # {}
    <2>1. fitting \in SUBSET Nat
      BY <1>1, <1>2, <1>4
    <2>2. w \in fitting
      BY <1>5, <1>6, <2>1, MinIsInSet
    <2>3. QED  BY <1>2, <1>4, <2>2 DEF w
  <1>7. CASE fitting = {}
    <2>1. Len(ms) - 1 \in Nat /\ starts # {} /\ starts \in SUBSET (0..(Len(ms) - 1))
      BY <1>1, <1>2, <1>3
    <2>2. w \in starts /\ \A y \in starts : w >= y
      BY <1>5, <1>7, <2>1, MaxIsInSet
    <2>3. w \in 0..(Len(ms) - 1) /\ Pending(ms, w) = {}
      BY <1>2, <2>2
    <2>4. ASSUME NEW b \in (w + 1)..(Len(ms) - 1), Pending(ms, b) = {}
          PROVE  FALSE
      <3>1. b \in 0..(Len(ms) - 1) /\ ~(w >= b)
        BY <1>1, <2>3
      <3>2. b \in starts
        BY <1>2, <2>4, <3>1
      <3>3. QED  BY <2>2, <3>1, <3>2
    <2>5. QED  BY <2>3, <2>4 DEF w
  <1>8. QED  BY <1>6, <1>7

\* Where nothing is pending no result of an earlier call follows.
LEMMA GroupsBeginClean ==
    ASSUME NEW S, NEW ms \in Seq(S), Begun(ms), OnlyAssistantCalls(ms),
           NoOrphanResult(ms), AnsweredOnce(ms),
           NEW w \in 0..(Len(ms) - 2), Pending(After(ms, 1), w) = {}
    PROVE  ms[w + 2].role # "tool"
  <1> DEFINE rest == After(ms, 1)
             i == w + 2
  <1>1. Len(ms) \in Nat /\ 1 \in 0..Len(ms) /\ w \in Nat
    BY DEF Begun
  <1>2. \A l \in 1..(Len(ms) - 1) : rest[l] = ms[1 + l]
    BY <1>1, AfterElements
  <1>3. Pending(rest, w) = {}
    OBVIOUS
  <1>4. i \in 1..Len(ms)
    BY <1>1 DEF Begun
  <1> HIDE DEF rest
  <1>5. SUFFICES ASSUME ms[i].role = "tool" PROVE FALSE
    OBVIOUS
  <1> HIDE DEF i
  <1>6. PICK j \in 1..(i - 1) :
          /\ ms[i].id \in ms[j].calls
          /\ \A k \in (j + 1)..i : ms[k].role = "tool"
    BY <1>4, <1>5 DEF NoOrphanResult
  <1>7. j \in 1..Len(ms) /\ j # 1
    <2>1. j \in 1..Len(ms)
      BY <1>4
    <2>2. ms[j].role = "assistant"
      BY <1>6, <2>1 DEF OnlyAssistantCalls
    <2>3. QED  BY <2>1, <2>2 DEF Begun
  <1> DEFINE p == j - 1
  <1>8. p \in 1..w /\ p \in 1..(Len(ms) - 1) /\ 1 + p = j
    BY <1>1, <1>4, <1>7 DEF i
  <1>9. rest[p] = ms[j]
    BY <1>2, <1>8
  <1>10. \E k \in (p + 1)..w : rest[k].id = ms[i].id
    <2>1. SUFFICES ASSUME \A k \in (p + 1)..w : rest[k].id # ms[i].id
                   PROVE  FALSE
      OBVIOUS
    <2> HIDE DEF p
    <2>2. ms[i].id \in UNION {rest[l].calls : l \in 1..w}
      BY <1>6, <1>8, <1>9
    <2>3. ms[i].id \in Pending(rest, w)
      BY <1>6, <1>8, <1>9, <2>1, <2>2 DEF Pending
    <2>4. QED  BY <1>3, <2>3
  <1>11. PICK k \in (p + 1)..w : rest[k].id = ms[i].id
    BY <1>10
  <1>12. /\ k \in 1..(Len(ms) - 1) /\ 1 + k \in 1..Len(ms)
         /\ 1 + k \in (j + 1)..i /\ 1 + k # i
    BY <1>1, <1>4, <1>8 DEF i
  <1>13. ms[1 + k].id = ms[i].id /\ ms[1 + k].role = "tool"
    BY <1>2, <1>6, <1>11, <1>12
  <1>14. QED  BY <1>4, <1>5, <1>12, <1>13 DEF AnsweredOnce

\* Nothing leads but what is not a tool result: nothing is stripped.
LEMMA NothingLeads ==
    ASSUME NEW S, NEW ms \in Seq(S), ms # <<>>, ms[1].role # "tool"
    PROVE  DropLeadingResults(ms) = ms
  <1> DEFINE others == {i \in 1..Len(ms) : ms[i].role # "tool"}
  <1>1. Len(ms) \in Nat \ {0}
    OBVIOUS
  <1>2. 1 \in others /\ others \in SUBSET Nat
    BY <1>1
  <1>3. others # {} /\ \A y \in others : y >= 1
    BY <1>2
  <1>4. DropLeadingResults(ms) = After(ms, Min(others) - 1)
    BY <1>3 DEF DropLeadingResults
  <1> HIDE DEF others
  <1>5. Min(others) = 1
    <2>1. Min(others) \in others /\ Min(others) <= 1
      BY <1>2, <1>3, MinIsInSet
    <2>2. Min(others) >= 1 /\ Min(others) \in Nat
      BY <1>2, <1>3, <2>1
    <2>3. QED  BY <2>1, <2>2
  <1>6. After(ms, 0) = ms
    BY DEF After
  <1>7. QED  BY <1>4, <1>5, <1>6

\* What a context manager is given to cut.
Cuttable(ms) == Begun(ms) /\ Sized(ms) /\ AnsweredOnce(ms) /\ Whole(ms)

\* The part of the budget that the system prompt leaves.
LEMMA RemainingBudget ==
    ASSUME NEW x \in Int
    PROVE  Max({0, x}) = IF x > 0 THEN x ELSE 0
  <1> DEFINE m == IF x > 0 THEN x ELSE 0
  <1>1. m \in {0, x} /\ \A y \in {0, x} : m >= y
    OBVIOUS
  <1>2. \A z \in {0, x} : (\A y \in {0, x} : z >= y) => z = m
    OBVIOUS
  <1>3. QED  BY <1>1, <1>2 DEF Max

\* Truncation keeps the system prompt and a window that nothing is stripped
\* from; the conversation fits then, or the window is a single group.
LEMMA TruncateFits ==
    ASSUME NEW S, NEW ms \in Seq(S), Cuttable(ms), NEW budget \in Nat
    PROVE  LET t == TruncateToBudget(ms, budget)
           IN  /\ Fits(t, budget)
               /\ t = ms \/ \E k \in 1..(Len(ms) - 1) : IsCut(t, ms, 1, k)
  <1> DEFINE t == TruncateToBudget(ms, budget)
             system == SubSeq(ms, 1, 1)
             rest == After(ms, 1)
             remaining == Max({0, budget - Tokens(system)})
             w == WindowStart(rest, remaining)
             kept == After(rest, w)
  <1>1. /\ Len(ms) \in Nat /\ Len(ms) >= 2 /\ ms # <<>> /\ SystemLen(ms) = 1
        /\ 1 \in 0..Len(ms) /\ 1 \in 1..Len(ms)
    BY DEF Cuttable, Begun, SystemLen
  <1>2. /\ rest \in Seq(S) /\ Len(rest) = Len(ms) - 1 /\ rest # <<>>
        /\ \A i \in 1..(Len(ms) - 1) : rest[i] = ms[1 + i]
    BY <1>1, AfterElements
  <1>3. /\ system \in Seq(S) /\ Len(system) = 1 /\ system[1] = ms[1]
    BY <1>1
  <1>4. t = IF Tokens(ms) <= budget THEN ms ELSE system \o DropLeadingResults(kept)
    BY <1>1, <1>2 DEF TruncateToBudget
  <1>5. CASE Tokens(ms) <= budget
    <2>1. t = ms
      BY <1>4, <1>5
    <2>2. Tokens(ms) \in Nat
      BY <1>1, TokensArePositive DEF Cuttable
    <2>3. Fits(ms, budget)
      BY <1>1, <1>2, <1>5, <2>2 DEF Fits
    <2>4. QED  BY <2>1, <2>3
  <1>6. CASE ~(Tokens(ms) <= budget)
    <2> HIDE DEF system, rest, remaining
    <2>1. /\ w \in 0..(Len(rest) - 1) /\ Pending(rest, w) = {}
          /\ \/ Tokens(kept) <= remaining
             \/ \A b \in (w + 1)..(Len(rest) - 1) : Pending(rest, b) # {}
      BY <1>2, WindowStartEffect
    <2> HIDE DEF w
    <2>2. w \in 0..(Len(ms) - 2) /\ w \in 0..Len(rest)
      BY <1>1, <1>2, <2>1
    <2>3. /\ kept \in Seq(S) /\ Len(kept) = Len(rest) - w
          /\ \A i \in 1..(Len(rest) - w) : kept[i] = rest[w + i]
      <3>1. rest \in Seq(S) /\ w \in 0..Len(rest)
        BY <1>2, <2>2
      <3>2. QED  BY ONLY <3>1, AfterElements DEF kept
    <2> HIDE DEF kept
    <2>4. /\ Len(kept) = Len(ms) - (1 + w) /\ 1 + w \in 1..(Len(ms) - 1)
          /\ kept # <<>>
          /\ \A i \in 1..(Len(ms) - (1 + w)) : kept[i] = ms[(1 + w) + i]
      <3>1. /\ Len(kept) = Len(ms) - (1 + w) /\ 1 + w \in 1..(Len(ms) - 1)
            /\ kept # <<>>
        BY <1>1, <1>2, <2>2, <2>3
      <3>2. \A i \in 1..(Len(ms) - (1 + w)) :
               /\ i \in 1..(Len(rest) - w) /\ w + i \in 1..(Len(ms) - 1)
               /\ 1 + (w + i) = (1 + w) + i
        BY <1>1, <1>2, <2>2
      <3>3. \A i \in 1..(Len(ms) - (1 + w)) : kept[i] = ms[(1 + w) + i]
        BY <1>2, <2>3, <3>2
      <3>4. QED  BY <3>1, <3>3
    <2>5. kept[1].role # "tool"
      <3>1. ms[w + 2].role # "tool"
        <4>1. Pending(After(ms, 1), w) = {}
          BY <2>1 DEF rest
        <4>2. QED
          BY <2>2, <4>1, GroupsBeginClean DEF Cuttable, Whole, Paired
      <3>2. 1 \in 1..(Len(ms) - (1 + w)) /\ (1 + w) + 1 = w + 2
        BY <1>1, <2>2
      <3>3. QED  BY <2>4, <3>1, <3>2
    <2>6. t = system \o kept
      BY <1>4, <1>6, <2>3, <2>4, <2>5, NothingLeads
    <2> HIDE DEF t
    <2>7. /\ t \in Seq(S) /\ Len(t) = Len(ms) - w
          /\ t[1] = ms[1]
          /\ \A i \in 1..(Len(ms) - (1 + w)) : t[1 + i] = kept[i]
      <3>1. /\ t \in Seq(S) /\ Len(t) = 1 + Len(kept)
            /\ \A i \in 1..(1 + Len(kept)) :
                  t[i] = IF i <= 1 THEN system[i] ELSE kept[i - 1]
        <4>1. system \in Seq(S) /\ kept \in Seq(S)
          BY <1>3, <2>3
        <4>2. /\ t \in Seq(S) /\ Len(t) = Len(system) + Len(kept)
              /\ \A i \in 1..(Len(system) + Len(kept)) :
                    t[i] = IF i <= Len(system) THEN system[i]
                           ELSE kept[i - Len(system)]
          BY ONLY <4>1, <2>6, ConcatProperties
        <4>3. Len(system) = 1
          BY <1>3
        <4>4. QED  BY ONLY <4>2, <4>3, Zenon
      <3>2. 1 \in 1..(1 + Len(kept)) /\ 1 <= 1 /\ Len(t) = Len(ms) - w
        BY <1>1, <2>2, <2>4, <3>1
      <3>3. \A i \in 1..(Len(ms) - (1 + w)) :
               /\ 1 + i \in 1..(1 + Len(kept)) /\ ~(1 + i <= 1) /\ (1 + i) - 1 = i
        BY <1>1, <2>2, <2>4
      <3>4. t[1] = ms[1]
        BY <1>3, <3>1, <3>2
      <3>5. \A i \in 1..(Len(ms) - (1 + w)) : t[1 + i] = kept[i]
        BY <3>1, <3>3
      <3>6. QED  BY <3>1, <3>2, <3>4, <3>5
    <2>8. IsCut(t, ms, 1, 1 + w)
      <3>1. Len(t) = 1 + (Len(ms) - (1 + w))
        BY <1>1, <2>2, <2>7
      <3>2. \A i \in 1..1 : t[i] = ms[i]
        BY <2>7
      <3>3. \A i \in 1..(Len(ms) - (1 + w)) : t[1 + i] = ms[(1 + w) + i]
        BY <2>4, <2>7
      <3>4. QED  BY <3>1, <3>2, <3>3 DEF IsCut
    <2>9. /\ SystemLen(t) = 1 /\ After(t, 1) = kept
      <3>1. Len(t) \in Nat /\ Len(t) >= 2 /\ t # <<>> /\ 1 \in 0..Len(t)
        BY <1>1, <2>2, <2>7
      <3>2. SystemLen(t) = 1
        BY <2>7, <3>1 DEF SystemLen, Cuttable, Begun
      <3>3. /\ After(t, 1) \in Seq(S) /\ Len(After(t, 1)) = Len(t) - 1
            /\ \A i \in 1..(Len(t) - 1) : After(t, 1)[i] = t[1 + i]
        <4>1. t \in Seq(S) /\ 1 \in 0..Len(t)
          BY <2>7, <3>1
        <4>2. QED  BY ONLY <4>1, AfterElements
      <3> DEFINE u == After(t, 1)
      <3> HIDE DEF u
      <3>4. /\ u \in Seq(S) /\ Len(u) = Len(kept)
            /\ \A i \in 1..Len(kept) : u[i] = kept[i]
        <4>1. Len(t) - 1 = Len(ms) - (1 + w)
          BY <1>1, <2>2, <2>7
        <4>2. QED  BY <2>4, <2>7, <3>3, <4>1 DEF u
      <3>5. u = kept
        BY <2>3, <3>4, SeqEqual
      <3>6. QED  BY <3>2, <3>5 DEF u
    <2>10. Sized(system) /\ Sized(kept)
      <3>1. Sized(ms)
        BY DEF Cuttable
      <3>2. Sized(system)
        BY <1>1, <1>3, <3>1 DEF Sized
      <3>3. \A i \in 1..Len(kept) : (1 + w) + i \in 1..Len(ms)
        BY <1>1, <2>2, <2>4
      <3>4. Sized(kept)
        BY <2>4, <3>1, <3>3 DEF Sized
      <3>5. QED  BY <3>2, <3>4
    <2>11. /\ Tokens(t) = Tokens(system) + Tokens(kept)
           /\ Tokens(system) \in Nat /\ Tokens(kept) \in Nat \ {0}
      <3>1. /\ Tokens(t) = Tokens(system) + Tokens(kept)
            /\ Tokens(system) \in Nat
        BY <1>3, <2>3, <2>6, <2>7, <2>10, TokensOfParts
      <3>2. Tokens(kept) \in Nat \ {0}
        BY <2>3, <2>4, <2>10, TokensArePositive
      <3>3. QED  BY <3>1, <3>2
    <2>12. CASE Tokens(kept) <= remaining
      <3>1. remaining =
              IF budget - Tokens(system) > 0 THEN budget - Tokens(system) ELSE 0
        BY <2>11, RemainingBudget DEF remaining
      <3>2. Tokens(t) <= budget
        BY <2>11, <2>12, <3>1
      <3>3. Tokens(t) \in Nat
        BY <2>11
      <3>4. Fits(t, budget)
        BY <2>4, <2>9, <3>2, <3>3 DEF Fits
      <3>5. QED  BY <2>4, <2>8, <3>4 DEF t
    <2>13. CASE \A b \in (w + 1)..(Len(rest) - 1) : Pending(rest, b) # {}
      <3>1. ASSUME NEW b \in 1..(Len(kept) - 1), Pending(kept, b) = {}
            PROVE  FALSE
        <4>1. /\ b \in 0..(Len(rest) - w) /\ w + b \in (w + 1)..(Len(rest) - 1)
          BY <1>1, <1>2, <2>2, <2>3
        <4>2. Pending(After(rest, w), b) = {}
          BY <3>1 DEF kept
        <4>3. Pending(rest, w + b) = {}
          BY <1>2, <2>1, <4>1, <4>2, PendingInWindow
        <4>4. QED  BY <2>13, <4>1, <4>3
      <3>2. Fits(t, budget)
        BY <2>4, <2>9, <3>1 DEF Fits
      <3>3. QED  BY <2>4, <2>8, <3>2 DEF t
    <2>14. QED  BY <2>1, <2>12, <2>13
  <1>7. QED  BY <1>5, <1>6

\* The results in t are results of ms.
SameResults(t, ms) ==
    \A i \in 1..Len(t) : t[i].role = "tool" =>
        \E j \in 1..Len(ms) : ms[j].role = "tool" /\ ms[j].id = t[i].id

\* A cut that keeps the system prompt and a message keeps sizes and answers.
LEMMA CutKeepsAnswers ==
    ASSUME NEW S, NEW ms \in Seq(S), NEW t, Begun(ms), Sized(ms), AnsweredOnce(ms),
           NEW k \in 1..(Len(ms) - 1), IsCut(t, ms, 1, k)
    PROVE  Begun(t) /\ Sized(t) /\ AnsweredOnce(t) /\ SameResults(t, ms)
  <1>1. Len(ms) \in Nat /\ Len(ms) >= 2 /\ 1 \in 1..Len(ms)
    BY DEF Begun
  <1>2. /\ Len(t) = 1 + (Len(ms) - k) /\ t[1] = ms[1]
        /\ \A i \in 1..(Len(ms) - k) : t[1 + i] = ms[k + i]
    <2>1. 1 \in 1..1
      OBVIOUS
    <2>2. QED  BY <2>1 DEF IsCut
  <1> DEFINE at(i) == IF i = 1 THEN 1 ELSE k + (i - 1)
  <1>3. ASSUME NEW i \in 1..Len(t)
        PROVE  at(i) \in 1..Len(ms) /\ t[i] = ms[at(i)]
    <2>1. CASE i = 1
      BY <1>1, <1>2, <2>1
    <2>2. CASE i # 1
      <3>1. i - 1 \in 1..(Len(ms) - k) /\ 1 + (i - 1) = i
        BY <1>1, <1>2, <2>2
      <3>2. t[i] = ms[k + (i - 1)]
        BY <1>2, <3>1
      <3>3. k + (i - 1) \in 1..Len(ms)
        BY <1>1, <3>1
      <3>4. QED  BY <2>2, <3>2, <3>3
    <2>3. QED  BY <2>1, <2>2
  <1>4. ASSUME NEW i \in 1..Len(t), NEW j \in 1..Len(t), i # j
        PROVE  at(i) # at(j)
    BY <1>1, <1>2, <1>4
  <1> HIDE DEF at
  <1>5. Begun(t)
    BY <1>1, <1>2 DEF Begun
  <1>6. Sized(t)
    BY <1>3 DEF Sized
  <1>7. AnsweredOnce(t)
    <2>1. SUFFICES ASSUME NEW i \in 1..Len(t), NEW j \in 1..Len(t), i # j,
                          t[i].role = "tool", t[j].role = "tool"
                   PROVE  t[i].id # t[j].id
      BY DEF AnsweredOnce
    <2>2. /\ at(i) \in 1..Len(ms) /\ t[i] = ms[at(i)]
          /\ at(j) \in 1..Len(ms) /\ t[j] = ms[at(j)]
          /\ at(i) # at(j)
      BY <1>3, <1>4, <2>1
    <2>3. QED  BY <2>1, <2>2 DEF AnsweredOnce
  <1>8. SameResults(t, ms)
    BY <1>3 DEF SameResults
  <1>9. QED  BY <1>5, <1>6, <1>7, <1>8

\* Masking changes no size but that of a result, to one unit.
LEMMA MaskedKeepsAnswers ==
    ASSUME NEW M, \A m \in M : /\ DOMAIN m = {"role", "calls", "id", "tokens"}
                               /\ [m EXCEPT !.tokens = 1] \in M,
           NEW ms \in Seq(M), Cuttable(ms)
    PROVE  Cuttable(Masked(ms)) /\ SameResults(Masked(ms), ms)
           /\ Len(Masked(ms)) = Len(ms)
  <1> DEFINE t == Masked(ms)
  <1>1. t \in Seq(M) /\ Len(t) = Len(ms) /\ Whole(t)
    <2>1. Len(t) = Len(ms)
      BY DEF Masked
    <2>2. OnlyAssistantCalls(ms) /\ Paired(ms)
      BY DEF Cuttable, Whole
    <2>3. t \in Seq(M) /\ OnlyAssistantCalls(t) /\ Paired(t)
      BY <2>2, MaskedKeepsPairs
    <2>4. QED  BY <2>1, <2>3 DEF Whole
  <1>2. ASSUME NEW i \in 1..Len(ms)
        PROVE  /\ t[i].role = ms[i].role /\ t[i].id = ms[i].id
               /\ t[i].tokens \in {1, ms[i].tokens}
    <2>1. ms[i] \in M
      OBVIOUS
    <2>2. t[i] = ms[i] \/ t[i] = [ms[i] EXCEPT !.tokens = 1]
      BY DEF Masked
    <2> HIDE DEF t
    <2>3. QED  BY <2>1, <2>2
  <1> HIDE DEF t
  <1>3. Begun(t)
    <2>1. Len(ms) \in Nat /\ 1 \in 1..Len(ms)
      BY DEF Cuttable, Begun
    <2>2. QED  BY <1>1, <1>2, <2>1 DEF Cuttable, Begun
  <1>4. Sized(t)
    BY <1>1, <1>2 DEF Cuttable, Sized
  <1>5. AnsweredOnce(t)
    BY <1>1, <1>2 DEF Cuttable, AnsweredOnce
  <1>6. SameResults(t, ms)
    BY <1>1, <1>2 DEF SameResults
  <1>7. QED  BY <1>1, <1>3, <1>4, <1>5, <1>6 DEF Cuttable, t

\* Up to three messages above a budget of three: the last is a result, and
\* the message before it is its call.
LEMMA ShortFits ==
    ASSUME NEW S, NEW ms \in Seq(S), Cuttable(ms), Len(ms) <= 3,
           NEW budget \in Nat, budget >= 3
    PROVE  Fits(ms, budget)
  <1> DEFINE rest == After(ms, 1)
  <1>1. /\ Len(ms) \in {2, 3} /\ SystemLen(ms) = 1 /\ 1 \in 0..Len(ms)
        /\ Sized(ms) /\ ms[1].role = "system"
    <2>1. /\ Len(ms) \in Nat /\ Len(ms) >= 2 /\ ms[1].role = "system" /\ Sized(ms)
      BY DEF Cuttable, Begun
    <2>2. ms # <<>>
      BY <2>1
    <2>3. Len(ms) \in {2, 3} /\ 1 \in 0..Len(ms)
      <3> DEFINE n == Len(ms)
      <3>1. n \in Nat /\ n >= 2 /\ n <= 3
        BY <2>1
      <3> HIDE DEF n
      <3>2. (n = 2 \/ n = 3) /\ 1 \in 0..n
        BY <3>1
      <3>3. QED  BY <3>2 DEF n
    <2>4. QED  BY <2>1, <2>2, <2>3 DEF SystemLen
  <1>2. /\ Len(rest) = Len(ms) - 1 /\ rest # <<>> /\ rest[1] = ms[2]
    <2>1. /\ rest \in Seq(S) /\ Len(rest) = Len(ms) - 1
          /\ \A i \in 1..(Len(ms) - 1) : rest[i] = ms[1 + i]
      BY <1>1, AfterElements
    <2>2. 1 \in 1..(Len(ms) - 1) /\ 1 + 1 = 2
      BY <1>1
    <2> HIDE DEF rest
    <2>3. Len(rest) # 0
      BY <1>1, <2>1
    <2>4. rest # <<>>
      BY <2>1, <2>3
    <2>5. rest[1] = ms[1 + 1]
      BY <2>1, <2>2
    <2>6. QED  BY <2>1, <2>2, <2>4, <2>5
  <1> HIDE DEF rest
  <1>3. SUFFICES ASSUME Tokens(ms) > budget, NEW b \in 1..(Len(rest) - 1)
                 PROVE  Pending(rest, b) # {}
    BY <1>1, <1>2 DEF Fits, rest
  <1>4. Len(ms) = 3 /\ b = 1
    BY <1>1, <1>2
  <1>5. 1 \in 1..Len(ms) /\ 2 \in 1..Len(ms) /\ 3 \in 1..Len(ms)
    BY <1>4
  <1>6. ms[3].role = "tool" \/ ms[2].role = "tool"
    <2>1. SUFFICES ASSUME ms[3].role # "tool", ms[2].role # "tool"
                   PROVE  FALSE
      OBVIOUS
    <2>2. /\ Tokens(ms) = Size(ms, 3) /\ Size(ms, 0) = 0
          /\ \A k \in 1..3 : Size(ms, k) = Size(ms, k - 1) + ms[k].tokens
      BY <1>4, TokensIsSize
    <2>3. /\ Size(ms, 1) = Size(ms, 1 - 1) + ms[1].tokens
          /\ Size(ms, 2) = Size(ms, 2 - 1) + ms[2].tokens
          /\ Size(ms, 3) = Size(ms, 3 - 1) + ms[3].tokens
      BY <2>2
    <2>4. 1 - 1 = 0 /\ 2 - 1 = 1 /\ 3 - 1 = 2
      OBVIOUS
    <2>5. ms[1].tokens = 1 /\ ms[2].tokens = 1 /\ ms[3].tokens = 1
      BY <1>1, <1>5, <2>1 DEF Sized
    <2>6. Tokens(ms) = 3
      BY <2>2, <2>3, <2>4, <2>5
    <2>7. QED  BY <1>3, <2>6
  <1>7. ms[1].calls = {} /\ (ms[2].calls # {} => ms[2].role = "assistant")
    BY <1>1, <1>5 DEF Cuttable, Whole, OnlyAssistantCalls
  <1>8. NoOrphanResult(ms)
    BY DEF Cuttable, Whole, Paired
  <1>9. ms[2].role # "tool"
    <2>1. SUFFICES ASSUME ms[2].role = "tool" PROVE FALSE
      OBVIOUS
    <2>2. PICK j \in 1..(2 - 1) : ms[2].id \in ms[j].calls
      BY <1>5, <1>8, <2>1 DEF NoOrphanResult
    <2>3. j = 1
      OBVIOUS
    <2>4. QED  BY <1>7, <2>2, <2>3
  <1>10. ms[2].calls # {}
    <2>1. PICK j \in 1..(3 - 1) : ms[3].id \in ms[j].calls
      BY <1>5, <1>6, <1>8, <1>9 DEF NoOrphanResult
    <2>2. j = 1 \/ j = 2
      OBVIOUS
    <2>3. QED  BY <1>7, <2>1, <2>2
  <1>11. PICK c \in rest[1].calls : TRUE
    BY <1>2, <1>10
  <1>12. c \in Pending(rest, 1)
    <2>1. 1 \in 1..1 /\ \A k \in (1 + 1)..1 : FALSE
      OBVIOUS
    <2>2. c \in UNION {rest[j].calls : j \in 1..1}
      BY <1>11, <2>1
    <2>3. QED  BY <1>11, <2>1, <2>2 DEF Pending
  <1>13. QED  BY <1>4, <1>12

\* A context manager that summarises nothing brings a conversation within the
\* budget or leaves a single group; and it keeps what the next cut needs.
\* Observation masking leaves three messages alone, whatever the budget.
LEMMA ManagedConversationsFit ==
    ASSUME NEW budget \in Nat,
           \/ Strategy = "SlidingWindow"
           \/ Strategy = "ObservationMasking" /\ budget >= 3,
           NEW M, \A m \in M : /\ DOMAIN m = {"role", "calls", "id", "tokens"}
                               /\ [m EXCEPT !.tokens = 1] \in M,
           NEW ms \in Seq(M), Cuttable(ms)
    PROVE  LET t == ManageContext(ms, budget)
           IN  Fits(t, budget) /\ Cuttable(t) /\ SameResults(t, ms)
  <1> DEFINE t == ManageContext(ms, budget)
             masked == Masked(ms)
  <1>1. SameResults(ms, ms) /\ Len(ms) \in Nat
    BY DEF SameResults
  <1>2. ASSUME NEW ns \in Seq(M), Cuttable(ns)
        PROVE  LET u == TruncateToBudget(ns, budget)
               IN  Fits(u, budget) /\ Cuttable(u) /\ SameResults(u, ns)
    <2> DEFINE u == TruncateToBudget(ns, budget)
    <2>1. /\ Fits(u, budget)
          /\ u = ns \/ \E k \in 1..(Len(ns) - 1) : IsCut(u, ns, 1, k)
      BY <1>2, TruncateFits
    <2>2. Whole(u)
      BY <1>2, TruncateKeepsPairs DEF Cuttable, Whole
    <2> HIDE DEF u
    <2>3. CASE u = ns
      BY <1>2, <2>1, <2>3 DEF SameResults, u
    <2>4. CASE \E k \in 1..(Len(ns) - 1) : IsCut(u, ns, 1, k)
      <3>1. PICK k \in 1..(Len(ns) - 1) : IsCut(u, ns, 1, k)
        BY <2>4
      <3>2. Begun(u) /\ Sized(u) /\ AnsweredOnce(u) /\ SameResults(u, ns)
        BY <1>2, <3>1, CutKeepsAnswers DEF Cuttable
      <3>3. QED  BY <2>1, <2>2, <3>2 DEF Cuttable, u
    <2>5. QED  BY <2>1, <2>3, <2>4
  <1>3. CASE Tokens(ms) <= budget
    <2>1. t = ms
      BY <1>3 DEF ManageContext
    <2>2. Fits(ms, budget)
      <3>1. /\ SystemLen(ms) = 1 /\ 1 \in 0..Len(ms) /\ Len(ms) >= 2 /\ ms # <<>>
        BY <1>1 DEF Cuttable, Begun, SystemLen
      <3>2. After(ms, 1) \in Seq(M) /\ Len(After(ms, 1)) = Len(ms) - 1
        BY <3>1, AfterElements
      <3>3. After(ms, 1) # <<>>
        BY <1>1, <3>1, <3>2
      <3>4. Tokens(ms) \in Nat
        BY <3>1, TokensArePositive DEF Cuttable
      <3>5. ~(Tokens(ms) > budget)
        BY <1>3, <3>4
      <3>6. QED  BY <3>1, <3>3, <3>5 DEF Fits
    <2>3. QED  BY <1>1, <2>1, <2>2
  <1>4. CASE ~(Tokens(ms) <= budget) /\ Strategy = "SlidingWindow"
    <2>1. t = TruncateToBudget(ms, budget)
      BY <1>4 DEF ManageContext
    <2>2. QED  BY <1>2, <2>1
  <1>5. CASE ~(Tokens(ms) <= budget) /\ Strategy = "ObservationMasking" /\ budget >= 3
    <2>1. t = IF Len(ms) <= 3 THEN ms ELSE TruncateToBudget(masked, budget)
      BY <1>5 DEF ManageContext, ApplyObservationMasking
    <2>2. CASE Len(ms) <= 3
      BY <1>1, <1>5, <2>1, <2>2, ShortFits
    <2>3. CASE ~(Len(ms) <= 3)
      <3>1. masked \in Seq(M)
        BY DEF Masked
      <3>2. Cuttable(masked) /\ SameResults(masked, ms)
        BY MaskedKeepsAnswers
      <3> HIDE DEF masked
      <3>3. Fits(t, budget) /\ Cuttable(t) /\ SameResults(t, masked)
        BY <1>2, <2>1, <2>3, <3>1, <3>2
      <3>4. SameResults(t, ms)
        <4> HIDE DEF t
        <4>1. QED  BY <3>2, <3>3 DEF SameResults
      <3>5. QED  BY <3>3, <3>4
    <2>4. QED  BY <2>2, <2>3
  <1>6. QED  BY <1>3, <1>4, <1>5

-----------------------------------------------------------------------------
(* That the window fits, between one cut and the next.                       *)

\* The messages of p and then those of q.
Joins(t, p, q) ==
    /\ Len(t) = Len(p) + Len(q)
    /\ \A i \in 1..Len(p) : t[i] = p[i]
    /\ \A i \in 1..Len(q) : t[Len(p) + i] = q[i]

\* The results in q are of calls that p does not answer.
Fresh(p, q) ==
    \A i \in 1..Len(p), j \in 1..Len(q) :
        p[i].role = "tool" /\ q[j].role = "tool" => p[i].id # q[j].id

LEMMA AppendJoins ==
    ASSUME NEW S, NEW p \in Seq(S), NEW m \in S
    PROVE  Joins(Append(p, m), p, <<m>>)
  <1> DEFINE t == Append(p, m)
             q == <<m>>
  <1>1. /\ Len(t) = Len(p) + 1 /\ t[Len(p) + 1] = m
        /\ \A i \in 1..Len(p) : t[i] = p[i]
    BY AppendProperties
  <1>2. Len(q) = 1 /\ q[1] = m
    OBVIOUS
  <1> HIDE DEF t, q
  <1>3. \A i \in 1..Len(q) : t[Len(p) + i] = q[i]
    BY <1>1, <1>2
  <1>4. QED  BY <1>1, <1>2, <1>3 DEF Joins, t, q

LEMMA ConcatJoins ==
    ASSUME NEW S, NEW p \in Seq(S), NEW q \in Seq(S)
    PROVE  Joins(p \o q, p, q)
  <1> DEFINE t == p \o q
  <1>1. /\ Len(p) \in Nat /\ Len(q) \in Nat /\ Len(t) = Len(p) + Len(q)
        /\ \A i \in 1..(Len(p) + Len(q)) :
              t[i] = IF i <= Len(p) THEN p[i] ELSE q[i - Len(p)]
    BY ConcatProperties, LenProperties
  <1> HIDE DEF t
  <1>2. \A i \in 1..Len(p) : i \in 1..(Len(p) + Len(q)) /\ i <= Len(p)
    BY <1>1
  <1>3. \A i \in 1..Len(q) : /\ Len(p) + i \in 1..(Len(p) + Len(q))
                             /\ ~(Len(p) + i <= Len(p))
                             /\ (Len(p) + i) - Len(p) = i
    BY <1>1
  <1>4. QED  BY <1>1, <1>2, <1>3 DEF Joins, t

\* Messages with sizes and fresh results may join a conversation.
LEMMA JoinKeepsAnswers ==
    ASSUME NEW t, NEW p, NEW q, Joins(t, p, q), Len(p) \in Nat, Len(q) \in Nat,
           Begun(p), Sized(p), AnsweredOnce(p), Sized(q), AnsweredOnce(q),
           Fresh(p, q)
    PROVE  /\ Begun(t) /\ Sized(t) /\ AnsweredOnce(t)
           /\ \A i \in 1..Len(t) : \/ \E j \in 1..Len(p) : t[i] = p[j]
                                   \/ \E j \in 1..Len(q) : t[i] = q[j]
  <1>1. ASSUME NEW i \in 1..Len(t)
        PROVE  \/ i \in 1..Len(p) /\ t[i] = p[i]
               \/ i - Len(p) \in 1..Len(q) /\ t[i] = q[i - Len(p)]
    <2>1. \/ i \in 1..Len(p)
          \/ i - Len(p) \in 1..Len(q) /\ Len(p) + (i - Len(p)) = i
      BY DEF Joins
    <2>2. QED  BY <2>1 DEF Joins
  <1>2. Begun(t)
    <2>1. 1 \in 1..Len(p) /\ Len(t) >= 2
      BY DEF Begun, Joins
    <2>2. QED  BY <2>1 DEF Begun, Joins
  <1>3. Sized(t)
    BY <1>1 DEF Sized
  <1>4. AnsweredOnce(t)
    <2>1. SUFFICES ASSUME NEW i \in 1..Len(t), NEW j \in 1..Len(t), i # j,
                          t[i].role = "tool", t[j].role = "tool"
                   PROVE  t[i].id # t[j].id
      BY DEF AnsweredOnce
    <2>2. i \in Int /\ j \in Int
      BY DEF Joins
    <2>3. CASE i \in 1..Len(p) /\ t[i] = p[i] /\ j \in 1..Len(p) /\ t[j] = p[j]
      BY <2>1, <2>3 DEF AnsweredOnce
    <2>4. CASE /\ i - Len(p) \in 1..Len(q) /\ t[i] = q[i - Len(p)]
               /\ j - Len(p) \in 1..Len(q) /\ t[j] = q[j - Len(p)]
      <3>1. i - Len(p) # j - Len(p)
        BY <2>1, <2>2
      <3>2. QED  BY <2>1, <2>4, <3>1 DEF AnsweredOnce
    <2>5. CASE /\ i \in 1..Len(p) /\ t[i] = p[i]
               /\ j - Len(p) \in 1..Len(q) /\ t[j] = q[j - Len(p)]
      BY <2>1, <2>5 DEF Fresh
    <2>6. CASE /\ j \in 1..Len(p) /\ t[j] = p[j]
               /\ i - Len(p) \in 1..Len(q) /\ t[i] = q[i - Len(p)]
      BY <2>1, <2>6 DEF Fresh
    <2>7. QED  BY <1>1, <2>3, <2>4, <2>5, <2>6
  <1>5. QED  BY <1>1, <1>2, <1>3, <1>4

\* What the next cut needs: sizes, results that come once, of turns so far and
\* of no call that still waits for the gate or runs; and what it left.
AnswersInv ==
    /\ Begun(conversation) /\ Sized(conversation) /\ AnsweredOnce(conversation)
    /\ \A i \in 1..Len(conversation) : conversation[i].role = "tool" =>
          /\ conversation[i].id[1] \in 0..iteration
          /\ conversation[i].id \notin ProposedIds
          /\ pc \in {"journal_reasoning", "gate", "dispatch"} /\ ~turn.terminal =>
                conversation[i].id \notin ApprovedIds
    /\ Sized(observations) /\ AnsweredOnce(observations)
    /\ pc = "complete" => Fits(conversation, context_token_budget)

LEMMA InitAnswers == Init => AnswersInv
  <1> SUFFICES ASSUME Init PROVE AnswersInv
    OBVIOUS
  <1> DEFINE ms == conversation
  <1>1. /\ Len(ms) = 2 /\ ms[1] = Plain("system") /\ ms[2] = Plain("user")
    BY DEF Init
  <1>2. \A i \in 1..2 : i = 1 \/ i = 2
    OBVIOUS
  <1> HIDE DEF ms
  <1>3. \A i \in 1..Len(ms) : ms[i].role # "tool" /\ ms[i].tokens = 1
    BY <1>1, <1>2 DEF Plain
  <1>4. Begun(ms) /\ Sized(ms) /\ AnsweredOnce(ms)
    BY <1>1, <1>3 DEF Begun, Sized, AnsweredOnce, Plain
  <1>5. pc = "start" /\ Len(observations) = 0
    BY DEF Init
  <1>6. Sized(observations) /\ AnsweredOnce(observations)
    BY <1>5 DEF Sized, AnsweredOnce
  <1>7. QED  BY <1>3, <1>4, <1>5, <1>6 DEF AnswersInv, ms

LEMMA BeginReasoningAnswers ==
    ASSUME \/ Strategy = "SlidingWindow"
           \/ Strategy = "ObservationMasking" /\ context_token_budget >= 3,
           Inv, ConversationInv, AnswersInv, BeginReasoning
    PROVE  AnswersInv'
  <1>1. /\ conversation' = ManageContext(conversation, context_token_budget)
        /\ pc = "inject" /\ pc' = "complete"
        /\ UNCHANGED <<iteration, proposed, turn, observations>>
    BY DEF BeginReasoning
  <1>2. conversation \in Seq(Messages) /\ context_token_budget \in Nat
    BY LoopAssumption DEF Inv, TypeOK
  <1>3. Cuttable(conversation)
    BY <1>1 DEF ConversationInv, AnswersInv, Cuttable
  <1>4. \A m \in Messages : /\ DOMAIN m = {"role", "calls", "id", "tokens"}
                            /\ [m EXCEPT !.tokens = 1] \in Messages
    BY DEF Messages
  <1>5. /\ Fits(conversation', context_token_budget) /\ Cuttable(conversation')
        /\ SameResults(conversation', conversation)
    BY <1>1, <1>2, <1>3, <1>4, ManagedConversationsFit
  <1>6. ProposedIds' = ProposedIds
    BY <1>1 DEF ProposedIds
  <1>7. \A i \in 1..Len(conversation') : conversation'[i].role = "tool" =>
           /\ conversation'[i].id[1] \in 0..iteration
           /\ conversation'[i].id \notin ProposedIds
    BY <1>5 DEF SameResults, AnswersInv
  <1>8. Sized(observations) /\ AnsweredOnce(observations)
    BY DEF AnswersInv
  <1>9. QED  BY <1>1, <1>5, <1>6, <1>7, <1>8 DEF AnswersInv, Cuttable

LEMMA ProposeAnswers ==
    ASSUME Inv, AnswersInv, ProposeCalls \/ ProposeText
    PROVE  AnswersInv'
  <1>1. PICK message \in Messages :
          /\ message.role = "assistant" /\ message.tokens = 1
          /\ conversation' = Append(conversation, message)
          /\ ProposedIds' = message.calls
          /\ \A c \in message.calls : c[1] = iteration + 1
    BY ProposeEffect
  <1>2. /\ pc' = "journal_reasoning" /\ iteration' = iteration + 1
        /\ observations' = <<>> /\ ApprovedIds' = {}
    BY ProposeEffect
  <1>3. conversation \in Seq(Messages) /\ iteration \in Nat
    BY LoopAssumption DEF Inv, TypeOK
  <1> DEFINE p == conversation
             q == <<message>>
             t == conversation'
  <1>4. Joins(t, p, q)
    BY <1>1, <1>3, AppendJoins
  <1>5. Len(p) \in Nat /\ Len(q) = 1 /\ q[1] = message
    BY <1>3
  <1>6. /\ Begun(p) /\ Sized(p) /\ AnsweredOnce(p)
        /\ \A i \in 1..Len(p) : p[i].role = "tool" => p[i].id[1] \in 0..iteration
    BY DEF AnswersInv
  <1> HIDE DEF p, q, t
  <1>7. \A i \in 1..Len(q) : i = 1 /\ q[i].role = "assistant" /\ q[i].tokens = 1
    BY <1>1, <1>5
  <1>8. Sized(q) /\ AnsweredOnce(q) /\ Fresh(p, q)
    BY <1>7 DEF Sized, AnsweredOnce, Fresh
  <1>9. /\ Begun(t) /\ Sized(t) /\ AnsweredOnce(t)
        /\ \A i \in 1..Len(t) : \/ \E j \in 1..Len(p) : t[i] = p[j]
                                \/ \E j \in 1..Len(q) : t[i] = q[j]
    <2>1. Len(q) \in Nat
      BY <1>5
    <2>2. QED  BY <1>4, <1>5, <1>6, <1>8, <2>1, JoinKeepsAnswers
  <1>10. ASSUME NEW i \in 1..Len(t), t[i].role = "tool"
         PROVE  t[i].id[1] \in 0..iteration' /\ t[i].id \notin ProposedIds'
    <2>1. PICK j \in 1..Len(p) : t[i] = p[j]
      BY <1>7, <1>9, <1>10
    <2>2. t[i].id[1] \in 0..iteration
      BY <1>6, <1>10, <2>1
    <2>3. t[i].id \notin ProposedIds'
      <3>1. SUFFICES ASSUME t[i].id \in ProposedIds' PROVE FALSE
        OBVIOUS
      <3>2. t[i].id[1] = iteration + 1
        BY <1>1, <3>1
      <3>3. QED  BY <1>3, <2>2, <3>2
    <2>4. t[i].id[1] \in 0..(iteration + 1)
      BY <1>3, <2>2
    <2>5. QED  BY <1>2, <2>3, <2>4
  <1>11. Len(observations') = 0
    BY <1>2
  <1>12. Sized(observations') /\ AnsweredOnce(observations')
    BY <1>11 DEF Sized, AnsweredOnce
  <1>13. QED  BY <1>2, <1>9, <1>10, <1>12 DEF AnswersInv, t

\* A denied call is answered at once, and it was not answered before.
LEMMA CheckPolicyAnswers ==
    ASSUME Inv, JournalInv, AnswersInv, CheckPolicy
    PROVE  AnswersInv'
  <1> DEFINE a == Head(proposed)
  <1>1. /\ pc = "gate" /\ pc' = "gate"
        /\ UNCHANGED <<iteration, observations>>
    BY DEF CheckPolicy
  <1>2. /\ a \in Actions
        /\ a.kind = "respond" => a.id = NoCall
        /\ a.kind \in {"tool", "malformed", "delegate"} => a.id \in CallIds(iteration)
        /\ a.kind \in {"tool", "malformed", "delegate", "respond"}
        /\ \/ /\ turn' = [turn EXCEPT !.denied = Append(@, a)]
              /\ conversation' = AnswerDenied(a)
           \/ \E b, terminal, output :
                 /\ conversation' = conversation
                 /\ turn' = [turn EXCEPT
                                !.approved = Append(@, b),
                                !.terminal = @ \/ terminal,
                                !.output = IF output # "" THEN output ELSE @]
                 /\ b \in Actions /\ terminal \in BOOLEAN
                 /\ \/ b = a /\ (terminal <=> a.kind = "respond")
                    \/ terminal = TRUE
    BY CheckPolicyEffect
  <1>3. /\ ProposedIds = ProposedIds' \cup ({a.id} \ {NoCall})
        /\ a.id \notin ProposedIds'
        /\ a.kind # "respond" => a.id \in AllCallIds \ permitted
    BY JudgedIds
  <1> HIDE DEF a
  <1>4. /\ turn \in Turns /\ turn.approved \in Seq(Actions)
        /\ turn.terminal \in BOOLEAN /\ conversation \in Seq(Messages)
        /\ iteration \in Nat
    <2>1. turn \in Turns /\ conversation \in Seq(Messages) /\ iteration \in Nat
      BY LoopAssumption DEF Inv, TypeOK
    <2>2. QED  BY <2>1 DEF Turns
  <1>5. Sized(observations') /\ AnsweredOnce(observations')
    BY <1>1 DEF AnswersInv
  <1>6. CASE /\ turn' = [turn EXCEPT !.denied = Append(@, a)]
             /\ conversation' = AnswerDenied(a)
    <2>1. turn'.approved = turn.approved /\ turn'.terminal = turn.terminal
      BY <1>4, <1>6 DEF Turns
    <2>2. ApprovedIds' = ApprovedIds
      BY <2>1 DEF ApprovedIds
    <2>3. CASE a.id = NoCall
      <3>1. conversation' = conversation /\ ProposedIds' = ProposedIds
        BY <1>3, <1>6, <2>3 DEF AnswerDenied
      <3>2. QED  BY <1>1, <1>5, <2>1, <2>2, <3>1 DEF AnswersInv
    <2>4. CASE a.id # NoCall
      <3> DEFINE r == ToolResult(a.id, 1)
                 p == conversation
                 q == <<r>>
                 t == conversation'
      <3>1. r \in Messages /\ r.id = a.id /\ r.role = "tool" /\ r.tokens = 1
        <4>1. a.id \in Ids /\ 1 \in Nat
          BY <1>2 DEF Actions
        <4>2. QED  BY <4>1, ToolResultType DEF ToolResult
      <3>2. a.id[1] \in 0..iteration /\ a.id \in ProposedIds /\ a.id \notin permitted
        <4>1. a.kind # "respond" /\ a.id \in CallIds(iteration)
          BY <1>2, <2>4
        <4>2. a.id[1] = iteration
          BY <4>1 DEF CallIds
        <4>3. QED  BY <1>3, <1>4, <2>4, <4>1, <4>2
      <3>3. ~turn.terminal => a.id \notin ApprovedIds
        <4>1. SUFFICES ASSUME ~turn.terminal, NEW i \in 1..Len(turn.approved),
                              a.id = turn.approved[i].id
                       PROVE  FALSE
          BY DEF ApprovedIds
        <4>2. turn.approved[i].kind \in {"tool", "delegate"}
          BY <4>1 DEF JournalInv, RanInv
        <4>3. turn.approved[i].id \in permitted
          BY <4>2 DEF Inv, ApprovedInv
        <4>4. QED  BY <3>2, <4>1, <4>3
      <3>4. /\ Begun(p) /\ Sized(p) /\ AnsweredOnce(p)
            /\ \A i \in 1..Len(p) : p[i].role = "tool" =>
                  /\ p[i].id[1] \in 0..iteration
                  /\ p[i].id \notin ProposedIds
                  /\ ~turn.terminal => p[i].id \notin ApprovedIds
        BY <1>1 DEF AnswersInv
      <3>5. Joins(t, p, q)
        <4>1. t = Append(p, r)
          BY <1>6, <2>4 DEF AnswerDenied
        <4> HIDE DEF r
        <4>2. QED  BY <1>4, <3>1, <4>1, AppendJoins
      <3>6. Len(p) \in Nat /\ Len(q) = 1 /\ Len(q) \in Nat /\ q[1] = r
        BY <1>4
      <3> HIDE DEF r, p, q, t
      <3>7. \A i \in 1..Len(q) : i = 1 /\ q[i] = r
        BY <3>6
      <3>8. Sized(q) /\ AnsweredOnce(q) /\ Fresh(p, q)
        BY <3>1, <3>2, <3>4, <3>7 DEF Sized, AnsweredOnce, Fresh
      <3>9. /\ Begun(t) /\ Sized(t) /\ AnsweredOnce(t)
            /\ \A i \in 1..Len(t) : \/ \E j \in 1..Len(p) : t[i] = p[j]
                                    \/ \E j \in 1..Len(q) : t[i] = q[j]
        BY <3>4, <3>5, <3>6, <3>8, JoinKeepsAnswers
      <3>10. \A i \in 1..Len(t) : t[i].role = "tool" =>
                /\ t[i].id[1] \in 0..iteration
                /\ t[i].id \notin ProposedIds'
                /\ ~turn.terminal => t[i].id \notin ApprovedIds
        <4>1. \A i \in 1..Len(t) : t[i] = r \/ \E j \in 1..Len(p) : t[i] = p[j]
          BY <3>7, <3>9
        <4>2. r.id \notin ProposedIds'
          BY <1>3, <3>1
        <4>3. \A c : c \notin ProposedIds => c \notin ProposedIds'
          BY <1>3
        <4>4. QED  BY <3>1, <3>2, <3>3, <3>4, <4>1, <4>2, <4>3
      <3>11. QED  BY <1>1, <1>5, <2>1, <2>2, <3>9, <3>10 DEF AnswersInv, t
    <2>5. QED  BY <2>3, <2>4
  <1>7. ASSUME NEW b, NEW terminal, NEW output,
               conversation' = conversation,
               turn' = [turn EXCEPT
                            !.approved = Append(@, b),
                            !.terminal = @ \/ terminal,
                            !.output = IF output # "" THEN output ELSE @],
               b \in Actions, terminal \in BOOLEAN,
               \/ b = a /\ (terminal <=> a.kind = "respond")
               \/ terminal = TRUE
        PROVE  AnswersInv'
    <2>1. /\ turn'.approved = Append(turn.approved, b)
          /\ turn'.terminal = (turn.terminal \/ terminal)
      BY <1>4, <1>7 DEF Turns
    <2>2. ApprovedIds' = ApprovedIds \cup {b.id}
      BY <1>4, <1>7, <2>1, ApprovedIdsGrow
    <2>3. ~turn'.terminal => ~turn.terminal /\ b.id \in ProposedIds
      <3>1. SUFFICES ASSUME ~turn'.terminal
                     PROVE  ~turn.terminal /\ b.id \in ProposedIds
        OBVIOUS
      <3>2. ~turn.terminal /\ ~terminal
        BY <1>4, <1>7, <2>1, <3>1
      <3>3. b = a /\ a.kind # "respond"
        BY <1>7, <3>2
      <3>4. a.id # NoCall
        BY <1>3, <3>3, NoCallIsNoCallId
      <3>5. QED  BY <1>3, <3>2, <3>3, <3>4
    <2>4. /\ Begun(conversation) /\ Sized(conversation) /\ AnsweredOnce(conversation)
          /\ \A i \in 1..Len(conversation) : conversation[i].role = "tool" =>
                /\ conversation[i].id[1] \in 0..iteration
                /\ conversation[i].id \notin ProposedIds
                /\ ~turn.terminal => conversation[i].id \notin ApprovedIds
      BY <1>1 DEF AnswersInv
    <2>5. \A i \in 1..Len(conversation) : conversation[i].role = "tool" =>
             /\ conversation[i].id[1] \in 0..iteration
             /\ conversation[i].id \notin ProposedIds'
             /\ ~turn'.terminal => conversation[i].id \notin ApprovedIds'
      BY <1>3, <2>2, <2>3, <2>4
    <2>6. QED  BY <1>1, <1>5, <1>7, <2>4, <2>5 DEF AnswersInv
  <1>8. QED  BY <1>2, <1>6, <1>7

\* A call runs once: its result is the first of that call.
LEMMA RunAnswers ==
    ASSUME Inv, AnswersInv, ExecuteTool \/ Delegate
    PROVE  AnswersInv'
  <1>1. PICK kind \in {"tool", "delegate"} :
          \E a \in ToDispatch(kind) : pc = "dispatch" /\ Run(a)
    BY DEF ExecuteTool, Delegate
  <1>2. PICK a \in ToDispatch(kind) : pc = "dispatch" /\ Run(a)
    BY <1>1
  <1>3. PICK k \in 1..Len(turn.approved) :
          a = turn.approved[k] /\ a.kind \in {"tool", "delegate"}
    BY <1>2 DEF ToDispatch
  <1>4. ~Observed(a.id) /\ a.id \in permitted
    BY <1>2, <1>3 DEF ToDispatch, Inv, ApprovedInv
  <1>5. PICK size \in ResultSizes :
          observations' = Append(observations, ToolResult(a.id, size))
    BY <1>2 DEF Run
  <1>6. UNCHANGED <<pc, iteration, proposed, turn, conversation>>
    BY <1>2 DEF Run
  <1>7. Sized(observations') /\ AnsweredOnce(observations')
    <2> DEFINE r == ToolResult(a.id, size)
               s == observations
               t == observations'
    <2>1. /\ r \in Messages /\ r.role = "tool" /\ r.id = a.id
          /\ r.tokens \in Nat \ {0}
      <3>1. a.id \in Ids /\ size \in Nat \ {0}
        BY <1>4, LoopAssumption DEF Inv, TypeOK, Ids
      <3>2. QED  BY <3>1, ToolResultType DEF ToolResult
    <2>2. s \in Seq(Messages) /\ t = Append(s, r)
      BY <1>5 DEF Inv, TypeOK
    <2>3. /\ Sized(s) /\ AnsweredOnce(s)
          /\ \A i \in 1..Len(s) : s[i].id # r.id
      BY <1>4, <2>1 DEF AnswersInv, Observed
    <2> HIDE DEF r, s, t
    <2>4. /\ Len(t) = Len(s) + 1 /\ Len(s) \in Nat
          /\ t[Len(s) + 1] = r
          /\ \A i \in 1..Len(s) : t[i] = s[i]
      BY <2>1, <2>2, AppendProperties, LenProperties
    <2>5. \A i \in 1..Len(t) : i \in 1..Len(s) \/ i = Len(s) + 1
      BY <2>4
    <2>6. Sized(t)
      BY <2>1, <2>3, <2>4, <2>5 DEF Sized
    <2>7. AnsweredOnce(t)
      BY <2>3, <2>4, <2>5 DEF AnsweredOnce
    <2>8. QED  BY <2>6, <2>7 DEF t
  <1>8. ProposedIds' = ProposedIds /\ ApprovedIds' = ApprovedIds
    BY <1>6 DEF ProposedIds, ApprovedIds
  <1>9. QED  BY <1>2, <1>6, <1>7, <1>8 DEF AnswersInv

\* The results that come in are of approved calls, which had none.
LEMMA CollectAnswers ==
    ASSUME Inv, TerminalInv, JournalInv, ConversationInv, AnswersInv, CollectResults
    PROVE  AnswersInv'
  <1>1. /\ pc = "dispatch" /\ pc' = "dispatched"
        /\ UNCHANGED <<iteration, proposed, turn, observations>>
        /\ conversation' = conversation \o observations
    BY DEF CollectResults
  <1>2. ~turn.terminal
    BY <1>1 DEF TerminalInv
  <1>3. ProposedIds' = {}
    <2>1. Len(proposed') = 0
      BY <1>1 DEF ConversationInv
    <2>2. QED  BY <2>1 DEF ProposedIds
  <1> DEFINE p == conversation
             q == observations
             t == conversation'
  <1>4. /\ p \in Seq(Messages) /\ q \in Seq(Messages) /\ t = p \o q
        /\ iteration \in Nat
    BY <1>1, LoopAssumption DEF Inv, TypeOK
  <1>5. \A i \in 1..Len(q) : q[i].id \in ApprovedIds /\ q[i].id[1] = iteration
    BY DEF JournalInv, RanInv, Ran, CallIds
  <1>6. /\ Begun(p) /\ Sized(p) /\ AnsweredOnce(p) /\ Sized(q) /\ AnsweredOnce(q)
        /\ \A i \in 1..Len(p) : p[i].role = "tool" =>
              p[i].id[1] \in 0..iteration /\ p[i].id \notin ApprovedIds
    BY <1>1, <1>2 DEF AnswersInv
  <1> HIDE DEF p, q, t
  <1>7. Joins(t, p, q) /\ Len(p) \in Nat /\ Len(q) \in Nat
    BY <1>4, ConcatJoins
  <1>8. Fresh(p, q)
    BY <1>5, <1>6 DEF Fresh
  <1>9. /\ Begun(t) /\ Sized(t) /\ AnsweredOnce(t)
        /\ \A i \in 1..Len(t) : \/ \E j \in 1..Len(p) : t[i] = p[j]
                                \/ \E j \in 1..Len(q) : t[i] = q[j]
    BY <1>6, <1>7, <1>8, JoinKeepsAnswers
  <1>10. iteration \in 0..iteration
    BY <1>4
  <1>11. \A i \in 1..Len(t) : t[i].role = "tool" => t[i].id[1] \in 0..iteration
    BY <1>5, <1>6, <1>9, <1>10
  <1>12. Sized(q) /\ AnsweredOnce(q)
    BY <1>6
  <1>13. QED  BY <1>1, <1>3, <1>9, <1>11, <1>12 DEF AnswersInv, t, q

\* Every other step leaves the conversation and the turn alone.
LEMMA AnswersStep ==
    ASSUME \/ Strategy = "SlidingWindow"
           \/ Strategy = "ObservationMasking" /\ context_token_budget >= 3,
           Inv, TerminalInv, JournalInv, ConversationInv, AnswersInv, [Next]_vars
    PROVE  AnswersInv'
  <1>1. ASSUME UNCHANGED <<iteration, proposed, turn, observations, conversation>>,
               pc' = "complete" => pc = "complete",
               pc' \in {"journal_reasoning", "gate", "dispatch"} =>
                  \/ pc \in {"journal_reasoning", "gate", "dispatch"}
                  \/ turn.terminal
        PROVE  AnswersInv'
    <2>1. ProposedIds' = ProposedIds /\ ApprovedIds' = ApprovedIds
      BY <1>1 DEF ProposedIds, ApprovedIds
    <2>2. QED  BY <1>1, <2>1 DEF AnswersInv
  <1>2. CASE \/ Start \/ StopAtBudget \/ InferenceFails \/ ReasoningComplete
             \/ PolicyEvaluated \/ ToolsDispatched \/ ObserveResults
             \/ PersistLearnings \/ Complete \/ Timeout
    <2>1. /\ UNCHANGED <<iteration, proposed, turn, observations, conversation>>
          /\ pc' # "complete"
          /\ pc' \in {"journal_reasoning", "gate", "dispatch"} =>
                pc \in {"journal_reasoning", "gate", "dispatch"}
      BY <1>2 DEF Start, StopAtBudget, Terminate, InferenceFails,
         ReasoningComplete, PolicyEvaluated, AfterPolicy, ToolsDispatched,
         ObserveResults, PersistLearnings, Complete, Timeout
    <2>2. QED  BY <1>1, <2>1
  <1>3. CASE UNCHANGED vars
    BY <1>1, <1>3 DEF vars
  <1>4. QED
    BY <1>2, <1>3, BeginReasoningAnswers, ProposeAnswers, CheckPolicyAnswers,
       RunAnswers, CollectAnswers DEF Next

\* What the model is sent is within the context budget or a single group that
\* alone exceeds it, and never the system prompt alone: the cut takes the
\* longest run of groups that fits and at least the newest, and strips nothing
\* from it (conversation.rs, truncate_to_budget; context_manager.rs).
\* Observation masking cuts nothing from three messages, which are three units.
THEOREM WindowsFit ==
    ASSUME \/ Strategy = "SlidingWindow"
           \/ Strategy = "ObservationMasking" /\ context_token_budget >= 3
    PROVE  Spec => []WindowFits
  <1>1. Strategy # "AnchoredSummary"
    OBVIOUS
  <1>2. Inv /\ TerminalInv /\ JournalInv /\ ConversationInv /\ [Next]_vars
          => ConversationInv'
    BY <1>1, ConversationStep
  <1>3. Inv /\ TerminalInv /\ JournalInv /\ ConversationInv /\ AnswersInv
          /\ [Next]_vars => AnswersInv'
    BY AnswersStep
  <1>4. AnswersInv => WindowFits
    BY DEF AnswersInv, WindowFits, Fits
  <1>5. QED
    BY <1>2, <1>3, <1>4, InitConversation, InitAnswers, JournalInvAlways, PTL
       DEF Spec
================================================================================
