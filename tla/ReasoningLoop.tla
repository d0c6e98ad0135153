---------------------------- MODULE ReasoningLoop ----------------------------
(* One run of the observe-reason-gate-act loop: ReasoningLoopRunner::run and *)
(* run_inner (reasoning/reasoning_loop.rs) with the phases they drive        *)
(* (reasoning/phases.rs).  pc names the await the run is suspended at; an    *)
(* action is the completion of that await and the code up to the next one.   *)
(* The wall-clock timeout drops the run at any await inside it.              *)
(*                                                                           *)
(* The model, the policy gate, the tools and the journal storage answer      *)
(* arbitrarily.  A tool call is named by its turn and its place in it.       *)
EXTENDS ContextWindow

CONSTANTS
    max_iterations,         \* LoopConfig::max_iterations
    max_total_tokens,       \* LoopConfig::max_total_tokens
    context_token_budget,   \* LoopConfig::context_token_budget
    MaxCalls,               \* bound: tool calls in one model turn
    CallKinds,              \* kinds of tool call the model issues
    Decisions,              \* decisions the policy gate takes
    Usages,                 \* bound: tokens one inference may use
    ResultSizes,            \* bound: sizes of a tool result
    AppendMayFail           \* the journal's storage may refuse an entry

ASSUME LoopAssumption ==
    /\ max_iterations \in Nat
    /\ max_total_tokens \in Nat
    /\ context_token_budget \in Nat
    /\ MaxCalls \in Nat \ {0}
    /\ CallKinds \subseteq {"tool", "malformed", "delegate"}
    /\ Decisions \subseteq {"allow", "deny", "modify"}
    /\ Usages \subseteq Nat
    /\ ResultSizes \subseteq Nat \ {0}
    /\ AppendMayFail \in BOOLEAN

VARIABLES
    pc,             \* the await the run is at
    iteration,      \* LoopState::iteration
    total_tokens,   \* LoopState::total_usage
    conversation,   \* LoopState::conversation
    proposed,       \* actions of the turn not yet judged
    turn,           \* PolicyOutput: what the gate made of the turn so far
    observations,   \* results of the turn so far, as they arrived
    journal,        \* entries the journal accepted
    result,         \* the LoopResult, or NoResult
    permitted,      \* history: calls the gate let through
    executed        \* history: calls that ran

vars == <<pc, iteration, total_tokens, conversation, proposed, turn,
          observations, journal, result, permitted, executed>>

NoResult == [reason |-> "none"]

CallIds(n) == {n} \X (1..MaxCalls)
AllCallIds == UNION {CallIds(n) : n \in 1..max_iterations}

Action(kind, id) == [kind |-> kind, id |-> id]
Respond == Action("respond", NoCall)

NewTurn == [approved |-> <<>>, denied |-> <<>>, terminal |-> FALSE, output |-> ""]

Init ==
    /\ pc = "start"
    /\ iteration = 0
    /\ total_tokens = 0
    /\ conversation = <<Plain("system"), Plain("user")>>
    /\ proposed = <<>>
    /\ turn = NewTurn
    /\ observations = <<>>
    /\ journal = <<>>
    /\ result = NoResult
    /\ permitted = {}
    /\ executed = {}

-----------------------------------------------------------------------------
(* Journal entries and results.                                              *)

Entry(event, n, d) == [event |-> event, iteration |-> iteration, count |-> n, denied |-> d]

\* Faulty variant: entries are written in the background and may be lost.
JournalLossy(entry) == journal' = Append(journal, entry) \/ UNCHANGED journal

\* JournalWriter::append: its error is discarded and the loop goes on.
Journal(entry) ==
    \/ journal' = Append(journal, entry)
    \/ AppendMayFail /\ UNCHANGED journal

LoopResult(reason, output) ==
    [reason |-> reason, output |-> output, iterations |-> iteration,
     total_usage |-> total_tokens]

\* The result produced when the timeout drops the run.
TimeoutResult ==
    [reason |-> "Timeout", output |-> "", iterations |-> 0, total_usage |-> 0]

\* LoopTermination::into_result: no Terminated entry is journaled.
Terminate(reason) ==
    /\ pc' = "done"
    /\ result' = LoopResult(reason, "")

-----------------------------------------------------------------------------
(* The awaits of a run, in order.                                            *)

Start ==
    /\ pc = "start"
    /\ Journal(Entry("Started", 0, 0))
    /\ pc' = "inject"
    /\ UNCHANGED <<iteration, total_tokens, conversation, proposed, turn,
                   observations, result, permitted, executed>>

Exhausted(reason) ==
    \/ reason = "MaxIterations" /\ iteration >= max_iterations
    \/ /\ reason = "MaxTokens"
       /\ iteration < max_iterations
       /\ total_tokens >= max_total_tokens

\* The knowledge context is in; a budget is used up.
StopAtBudget ==
    /\ pc = "inject"
    /\ \E reason \in {"MaxIterations", "MaxTokens"} :
          Exhausted(reason) /\ Terminate(reason)
    /\ UNCHANGED <<iteration, total_tokens, conversation, proposed, turn,
                   observations, journal, permitted, executed>>

\* The knowledge context is in; the conversation is cut and sent to the model.
BeginReasoning ==
    /\ pc = "inject"
    /\ \A reason \in {"MaxIterations", "MaxTokens"} : ~Exhausted(reason)
    /\ conversation' = ManageContext(conversation, context_token_budget)
    /\ pc' = "complete"
    /\ UNCHANGED <<iteration, total_tokens, proposed, turn, observations,
                   journal, result, permitted, executed>>

\* The provider fails; or the model refuses or says nothing, its tokens counted.
InferenceFails ==
    /\ pc = "complete"
    /\ \E u \in Usages \cup {0} :
          /\ total_tokens' = total_tokens + u
          /\ result' = [LoopResult("Error", "") EXCEPT !.total_usage = total_tokens']
    /\ pc' = "done"
    /\ UNCHANGED <<iteration, conversation, proposed, turn, observations,
                   journal, permitted, executed>>

\* The model answers with tool calls, or with text.
Propose(actions, message) ==
    /\ pc = "complete"
    /\ \E u \in Usages : total_tokens' = total_tokens + u
    /\ iteration' = iteration + 1
    /\ conversation' = Append(conversation, message)
    /\ proposed' = actions
    /\ turn' = NewTurn
    /\ observations' = <<>>
    /\ pc' = "journal_reasoning"
    /\ UNCHANGED <<journal, result, permitted, executed>>

ProposeCalls ==
    \E n \in 1..MaxCalls : \E kinds \in [1..n -> CallKinds] :
        LET actions == [i \in 1..n |-> Action(kinds[i], <<iteration + 1, i>>)]
        IN  Propose(actions, Assistant({actions[i].id : i \in 1..n}))

ProposeText == Propose(<<Respond>>, Plain("assistant"))

ReasoningComplete ==
    /\ pc = "journal_reasoning"
    /\ Journal(Entry("ReasoningComplete", Len(proposed), 0))
    /\ pc' = "gate"
    /\ UNCHANGED <<iteration, total_tokens, conversation, proposed, turn,
                   observations, result, permitted, executed>>

\* Faulty variant: a denied call gets no tool result.
AnswerNothing(a) == conversation

\* push_denial_tool_result and the schema failure: only a call gets an answer.
AnswerDenied(a) ==
    IF a.id = NoCall THEN conversation
    ELSE Append(conversation, ToolResult(a.id, 1))

\* validate_tool_call_arguments fails before the gate is asked.
MustDeny(a) == a.kind = "malformed"

Deny(a) ==
    /\ turn' = [turn EXCEPT !.denied = Append(@, a)]
    /\ conversation' = AnswerDenied(a)
    /\ UNCHANGED permitted

\* The action that goes ahead; a terminal one ends the run after this turn.
Approve(a, terminal, output) ==
    /\ turn' = [turn EXCEPT !.approved = Append(@, a),
                            !.terminal = @ \/ terminal,
                            !.output = IF output # "" THEN output ELSE @]
    /\ permitted' = IF a.id \in AllCallIds THEN permitted \cup {a.id} ELSE permitted
    /\ UNCHANGED conversation

\* The gate's verdict on a: a modified action keeps its call (parameter
\* redaction) or becomes a termination, whose output is not kept.
Judge(a) ==
    \/ (MustDeny(a) \/ "deny" \in Decisions) /\ Deny(a)
    \/ /\ ~MustDeny(a)
       /\ "allow" \in Decisions
       /\ Approve(a, a.kind = "respond", IF a.kind = "respond" THEN "text" ELSE "")
    \/ /\ ~MustDeny(a)
       /\ "modify" \in Decisions
       /\ \/ Approve(a, a.kind = "respond", IF a.kind = "respond" THEN "text" ELSE "")
          \/ Approve(Action("terminate", NoCall), TRUE, "")

CheckPolicy ==
    /\ pc = "gate"
    /\ proposed # <<>>
    /\ Judge(Head(proposed))
    /\ proposed' = Tail(proposed)
    /\ UNCHANGED <<pc, iteration, total_tokens, observations, journal, result, executed>>

\* Faulty variant: a terminal action does not keep the turn's calls from running.
AfterPolicyAlwaysDispatch == "dispatch"

\* With a terminal action no call of the turn is dispatched.
AfterPolicy == IF turn.terminal THEN "dispatched" ELSE "dispatch"

PolicyEvaluated ==
    /\ pc = "gate"
    /\ proposed = <<>>
    /\ Journal(Entry("PolicyEvaluated",
                     Len(turn.approved) + Len(turn.denied), Len(turn.denied)))
    /\ pc' = AfterPolicy
    /\ UNCHANGED <<iteration, total_tokens, conversation, proposed, turn,
                   observations, result, permitted, executed>>

-----------------------------------------------------------------------------
(* dispatch_tools: tool calls in any order, then delegations one by one.     *)

Observed(id) == \E i \in 1..Len(observations) : observations[i].id = id

\* Faulty variant: what the model proposed is dispatched, denied or not.
ToDispatchAll(kind) ==
    {a \in {turn.approved[i] : i \in 1..Len(turn.approved)}
              \cup {turn.denied[i] : i \in 1..Len(turn.denied)} :
        a.kind = kind /\ ~Observed(a.id)}

\* Approved actions of a kind that have not been answered.
ToDispatch(kind) ==
    {a \in {turn.approved[i] : i \in 1..Len(turn.approved)} :
        a.kind = kind /\ ~Observed(a.id)}

\* The call runs; its result or its error is observed.
Run(a) ==
    /\ executed' = executed \cup {a.id}
    /\ \E size \in ResultSizes :
          observations' = Append(observations, ToolResult(a.id, size))
    /\ UNCHANGED <<pc, iteration, total_tokens, conversation, proposed, turn,
                   journal, result, permitted>>

ExecuteTool ==
    /\ pc = "dispatch"
    /\ \E a \in ToDispatch("tool") : Run(a)

Delegate ==
    /\ pc = "dispatch"
    /\ ToDispatch("tool") = {}
    /\ \E a \in ToDispatch("delegate") :
          /\ \A b \in ToDispatch("delegate") : a.id[2] <= b.id[2]
          /\ Run(a)

\* Every result is in: it joins the conversation.
CollectResults ==
    /\ pc = "dispatch"
    /\ ToDispatch("tool") \cup ToDispatch("delegate") = {}
    /\ conversation' = conversation \o observations
    /\ pc' = "dispatched"
    /\ UNCHANGED <<iteration, total_tokens, proposed, turn, observations,
                   journal, result, permitted, executed>>

ToolsDispatched ==
    /\ pc = "dispatched"
    /\ Journal(Entry("ToolsDispatched", Len(observations), 0))
    /\ pc' = "observed"
    /\ UNCHANGED <<iteration, total_tokens, conversation, proposed, turn,
                   observations, result, permitted, executed>>

\* ObservationsCollected is journaled, and observe_results decides.
ObserveResults ==
    /\ pc = "observed"
    /\ Journal(Entry("ObservationsCollected", Len(observations), 0))
    /\ pc' = IF turn.terminal THEN "persist" ELSE "inject"
    /\ UNCHANGED <<iteration, total_tokens, conversation, proposed, turn,
                   observations, result, permitted, executed>>

PersistLearnings ==
    /\ pc = "persist"
    /\ pc' = "terminated"
    /\ UNCHANGED <<iteration, total_tokens, conversation, proposed, turn,
                   observations, journal, result, permitted, executed>>

Complete ==
    /\ pc = "terminated"
    /\ Journal(Entry("Terminated", 0, 0))
    /\ pc' = "done"
    /\ result' = LoopResult("Completed", turn.output)
    /\ UNCHANGED <<iteration, total_tokens, conversation, proposed, turn,
                   observations, permitted, executed>>

\* Faulty variant: only the inference is under the timeout.
TimeoutOnInference == pc = "complete"

\* tokio::time::timeout wraps run_inner, and only that.
UnderTimeout == pc \notin {"start", "done"}

\* The run is dropped at whichever await it is.
Timeout ==
    /\ UnderTimeout
    /\ pc' = "done"
    /\ result' = TimeoutResult
    /\ UNCHANGED <<iteration, total_tokens, conversation, proposed, turn,
                   observations, journal, permitted, executed>>

Next ==
    \/ Start
    \/ StopAtBudget
    \/ BeginReasoning
    \/ InferenceFails
    \/ ProposeCalls
    \/ ProposeText
    \/ ReasoningComplete
    \/ CheckPolicy
    \/ PolicyEvaluated
    \/ ExecuteTool
    \/ Delegate
    \/ CollectResults
    \/ ToolsDispatched
    \/ ObserveResults
    \/ PersistLearnings
    \/ Complete
    \/ Timeout

Spec == Init /\ [][Next]_vars

(* The timer fires, and the entry written before the timeout starts is       *)
(* accepted or refused: nothing is assumed of the model, the gate, the tools *)
(* or any other journal entry.                                               *)
Fairness == WF_vars(Start) /\ WF_vars(Timeout)
FairSpec == Spec /\ Fairness

-----------------------------------------------------------------------------
(* Properties.                                                               *)

Pcs == {"start", "inject", "complete", "journal_reasoning", "gate", "dispatch",
        "dispatched", "observed", "persist", "terminated", "done"}

Ids == AllCallIds \cup {NoCall}
Actions == [kind : {"tool", "malformed", "delegate", "respond", "terminate"}, id : Ids]
Messages == [role : {"system", "user", "assistant", "tool"},
             calls : SUBSET AllCallIds, id : Ids, tokens : Nat]
Turns == [approved : Seq(Actions), denied : Seq(Actions),
          terminal : BOOLEAN, output : {"", "text"}]
Entries == [event : {"Started", "ReasoningComplete", "PolicyEvaluated",
                     "ToolsDispatched", "ObservationsCollected", "Terminated"},
            iteration : Nat, count : Nat, denied : Nat]
Results == {NoResult} \cup
    [reason : {"Completed", "MaxIterations", "MaxTokens", "Error", "Timeout"},
     output : {"", "text"}, iterations : Nat, total_usage : Nat]

\* The type of every variable; iterations never pass their budget.
TypeOK ==
    /\ pc \in Pcs
    /\ iteration \in 0..max_iterations
    /\ total_tokens \in Nat
    /\ conversation \in Seq(Messages)
    /\ proposed \in Seq(Actions)
    /\ turn \in Turns
    /\ observations \in Seq(Messages)
    /\ journal \in Seq(Entries)
    /\ result \in Results
    /\ permitted \subseteq AllCallIds
    /\ executed \subseteq AllCallIds

\* The loop implements the promise of GovernedRun (phases.rs, "compile-time
\* safety" of the phases): a call runs in its own turn, once, after the gate
\* permitted it, and never after the caller has the result.
Promise == INSTANCE GovernedRun
    WITH MaxTurns <- max_iterations, Calls <- CallIds,
         stopped <- result # NoResult, turn <- iteration
GovernedExecution == Promise!Spec

\* check_policy, dispatch_tools and the context manager together never send the
\* model a tool call without its result or a result without its call
\* (phases.rs:424, conversation.rs:405).
EveryCallAnswered == pc = "complete" => Paired(conversation)

\* The conversation sent to the model is within the context budget or is one
\* group that alone exceeds it, and is never empty (conversation.rs:458).
WindowFits ==
    LET rest == After(conversation, SystemLen(conversation))
    IN  pc = "complete" =>
          /\ rest # <<>>
          /\ Tokens(conversation) > context_token_budget =>
                \A b \in 1..(Len(rest) - 1) : Pending(rest, b) # {}

\* The token budget may be passed by one inference only (phases.rs:139).
BudgetPassedOnce ==
    total_tokens > max_total_tokens =>
        \E u \in Usages : total_tokens - u < max_total_tokens

\* A run that completed normally returns text the gate let through, and a turn
\* with a terminal action runs none of its tool calls (phases.rs:574).
CompletionIsApproved ==
    result.reason = "Completed" =>
        /\ turn.terminal
        /\ executed \cap CallIds(iteration) = {}
        /\ result.output = "text" =>
              \E i \in 1..Len(turn.approved) : turn.approved[i] = Respond

\* A run ends by its budgets, or by an action that the gate let through.
ResultIsEarned == TypeOK /\ BudgetPassedOnce /\ CompletionIsApproved

\* The entries of the turn n with a given event.
Of(event, n) == {e \in {journal[i] : i \in 1..Len(journal)} :
                    e.event = event /\ e.iteration = n}

\* A call runs only when its proposal and the verdict on it are in the journal
\* (reasoning_loop.rs:362), so a replay knows every call that may have run.
JournaledBeforeRun ==
    \A c \in executed : \A event \in {"ReasoningComplete", "PolicyEvaluated"} :
        Of(event, c[1]) # {}

\* The journal accounts for every action of a turn: what was judged is what was
\* proposed, and what was observed is what was approved, or nothing when the
\* turn is terminal (reasoning_loop.rs:382, 403, 435).
JournalAddsUp ==
    \A n \in 1..iteration :
        /\ \A p \in Of("ReasoningComplete", n), e \in Of("PolicyEvaluated", n) :
              e.count = p.count
        /\ \A e \in Of("PolicyEvaluated", n), d \in Of("ToolsDispatched", n) :
              d.count \in {e.count - e.denied, 0}
        /\ \A d \in Of("ToolsDispatched", n) :
              d.count = Cardinality(executed \cap CallIds(n))

\* A replay of the journal knows every call that may have run, and no other.
JournalIsFaithful == JournaledBeforeRun /\ JournalAddsUp

\* Whatever the model, the gate and the tools do, the caller of a run that has
\* begun gets a result.
Terminates == pc # "start" ~> result # NoResult
===============================================================================
