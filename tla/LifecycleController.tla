------------------------- MODULE LifecycleController -------------------------
(***************************************************************************)
(* The lifecycle controller (lifecycle/mod.rs): the table of agents with   *)
(* the state of each.                                                      *)
(*                                                                         *)
(* A call changes the table itself, or sends a transition to the event     *)
(* loop, which judges it by the state the event carries.  The monitor      *)
(* looks at all agents under one lock, and then fails those that are stuck *)
(* and restarts those that have failed one at a time.                      *)
(*                                                                         *)
(* No code sends the transition from Initializing to Ready, so that start, *)
(* suspend and resume are refused always.                                  *)
(***************************************************************************)
EXTENDS Naturals, Sequences, FiniteSets

CONSTANTS Agent, Caller,
          MaxAgents,    \* max_agents
          MaxRestarts,  \* max_restart_attempts
          MaxCalls      \* bound: calls in a run

State == {"Created", "Initializing", "Ready", "Running", "Suspended",
          "Completed", "Failed", "Terminating", "Terminated"}

VARIABLES
    agents,     \* the table: the record of each agent, or NoAgent
    sent,       \* the events that wait for the event loop
    events,     \* the event loop: "wait", "woken" by the shutdown, or "ended"
    watch,      \* the monitor: its place and what it has found
    is_running, \* no shutdown has begun
    doing,      \* what each caller is doing
    made,       \* how many calls were made
    births,     \* history: how many agents were put into the table
    late,       \* history: agents that were put there after the shutdown
    crowded     \* history: callers that counted the places while another was
                \* about to take one, since nobody was

memory == <<agents, sent, events, watch, is_running, doing>>

history == <<births, late, crowded>>

vars == <<memory, made, history>>

NoAgent == [state |-> "none", restarts |-> 0, stuck |-> FALSE, birth |-> 0]

Newborn(n) == [state |-> "Created", restarts |-> 0, stuck |-> FALSE,
               birth |-> n]

Idle == [at |-> "idle", todo |-> {}]

Watching == [at |-> "wait", restart |-> {}, fail |-> {}]

Init ==
    /\ agents = [a \in Agent |-> NoAgent]
    /\ sent = <<>> /\ events = "wait" /\ watch = Watching
    /\ is_running = TRUE
    /\ doing = [c \in Caller |-> Idle] /\ made = 0
    /\ births = 0 /\ late = {} /\ crowded = 0

Present(a) == agents[a] # NoAgent

Table == {a \in Agent : Present(a)}

\* AgentStateMachine.
Transitions ==
    [ Created |-> {"Initializing"},
      Initializing |-> {"Ready", "Failed"},
      Ready |-> {"Running", "Suspended", "Terminating"},
      Running |-> {"Suspended", "Completed", "Failed", "Terminating"},
      Suspended |-> {"Running", "Terminating"},
      Completed |-> {"Terminating"},
      Failed |-> {"Initializing", "Terminating"},
      Terminating |-> {"Terminated"},
      Terminated |-> {} ]

Valid(from, to) == to \in Transitions[from]

\* A change of state, which starts the clock of the state anew.
Entered(a, s) == [agents[a] EXCEPT !.state = s, !.stuck = FALSE]

\* An agent has been in one state for five minutes.
TimePasses(a) ==
    /\ Present(a) /\ ~agents[a].stuck
    /\ agents' = [agents EXCEPT ![a].stuck = TRUE]
    /\ UNCHANGED <<sent, events, watch, is_running, doing, made, history>>

-----------------------------------------------------------------------------
(* The event loop *)

\* An event is judged by the state it carries.
Process ==
    /\ events # "ended" /\ sent # <<>> /\ is_running
    /\ LET e == Head(sent)
       IN  agents' = IF Present(e.agent) /\ Valid(e.from, e.to)
                     THEN [agents EXCEPT ![e.agent] = Entered(e.agent, e.to)]
                     ELSE agents
    /\ sent' = Tail(sent)
    /\ UNCHANGED <<events, watch, is_running, doing, made, history>>

\* The loop hears of the shutdown, or takes an event and finds it.
StopEvents ==
    /\ \/ events = "woken"
       \/ events = "wait" /\ sent # <<>> /\ ~is_running
    /\ events' = "ended" /\ sent' = <<>>
    /\ UNCHANGED <<agents, watch, is_running, doing, made, history>>

EventLoop == Process \/ StopEvents

-----------------------------------------------------------------------------
(* The monitor: monitor_agent_states *)

\* Faulty variant: the restarts are not compared with their limit.
LookUnlimited ==
    /\ watch.at = "wait" /\ is_running
    /\ LET restart == {a \in Table : agents[a].state = "Failed"}
           fail == {a \in Table :
                      /\ agents[a].stuck
                      /\ agents[a].state \in {"Initializing", "Terminating"}}
       IN  /\ restart \union fail # {}
           /\ watch' = [at |-> "act", restart |-> restart, fail |-> fail]
    /\ UNCHANGED <<agents, sent, events, is_running, doing, made, history>>

\* Agents to restart and agents that are stuck, as they are at one moment.
Look ==
    /\ watch.at = "wait" /\ is_running
    /\ LET restart == {a \in Table : /\ agents[a].state = "Failed"
                                     /\ agents[a].restarts < MaxRestarts}
           fail == {a \in Table :
                      /\ agents[a].stuck
                      /\ agents[a].state \in {"Initializing", "Terminating"}}
       IN  /\ restart \union fail # {}
           /\ watch' = [at |-> "act", restart |-> restart, fail |-> fail]
    /\ UNCHANGED <<agents, sent, events, is_running, doing, made, history>>

\* What is left when a is dealt with.
Rest(m) == IF m.restart = {} /\ m.fail = {} THEN Watching ELSE m

\* Faulty variant: a restart is not counted.
RestartUncounted(a) ==
    /\ a \in watch.restart
    /\ agents' = IF Present(a) /\ Valid(agents[a].state, "Initializing")
                 THEN [agents EXCEPT ![a] = Entered(a, "Initializing")]
                 ELSE agents
    /\ watch' = Rest([watch EXCEPT !.restart = @ \ {a}])
    /\ UNCHANGED <<sent, events, is_running, doing, made, history>>

Restart(a) ==
    /\ a \in watch.restart
    /\ agents' = IF Present(a) /\ Valid(agents[a].state, "Initializing")
                 THEN [agents EXCEPT ![a] = [Entered(a, "Initializing")
                            EXCEPT !.restarts = @ + 1]]
                 ELSE agents
    /\ watch' = Rest([watch EXCEPT !.restart = @ \ {a}])
    /\ UNCHANGED <<sent, events, is_running, doing, made, history>>

\* The error of an agent that is stuck, after all restarts; the count of its
\* errors matters to running agents only, of which there are none.
Fail(a) ==
    /\ watch.restart = {} /\ a \in watch.fail
    /\ agents' = IF Present(a) /\ Valid(agents[a].state, "Failed")
                 THEN [agents EXCEPT ![a] = Entered(a, "Failed")]
                 ELSE agents
    /\ watch' = Rest([watch EXCEPT !.fail = @ \ {a}])
    /\ UNCHANGED <<sent, events, is_running, doing, made, history>>

StopMonitor ==
    /\ watch.at = "wait" /\ ~is_running
    /\ watch' = [watch EXCEPT !.at = "ended"]
    /\ UNCHANGED <<agents, sent, events, is_running, doing, made, history>>

Monitor ==
    \/ Look \/ StopMonitor
    \/ \E a \in watch.restart : Restart(a)
    \/ \E a \in watch.fail : Fail(a)

-----------------------------------------------------------------------------
(* The calls *)

Event(a, from, to) == [agent |-> a, from |-> from, to |-> to]

\* Sending fails when the event loop is over.
Receiving == events # "ended"

Send(e) == sent' = IF Receiving THEN Append(sent, e) ELSE sent

Begin(c, what) ==
    /\ doing[c] = Idle /\ made < MaxCalls /\ made' = made + 1
    /\ doing' = [doing EXCEPT ![c] = what]

\* The callers that have counted the places and not taken theirs.
Inserting == {c \in Caller : doing[c].at = "insert"}

\* Faulty variant: the places are not counted.
InitializeUncounted(c, a) ==
    /\ is_running
    /\ Begin(c, [at |-> "insert", todo |-> {a}])
    /\ crowded' = IF Inserting = {} THEN 0 ELSE crowded + 1
    /\ UNCHANGED <<agents, sent, events, watch, is_running, births, late>>

\* A slot is free.
Initialize(c, a) ==
    /\ is_running /\ Cardinality(Table) < MaxAgents
    /\ Begin(c, [at |-> "insert", todo |-> {a}])
    /\ crowded' = IF Inserting = {} THEN 0 ELSE crowded + 1
    /\ UNCHANGED <<agents, sent, events, watch, is_running, births, late>>

\* The agent takes the place of one with the same identifier.
Insert(c, a) ==
    /\ doing[c].at = "insert" /\ a \in doing[c].todo
    /\ agents' = [agents EXCEPT ![a] = Newborn(births + 1)]
    /\ births' = births + 1
    /\ late' = IF is_running THEN late ELSE late \union {births'}
    /\ Send(Event(a, "Created", "Initializing"))
    /\ doing' = [doing EXCEPT ![c] = Idle]
    /\ UNCHANGED <<events, watch, is_running, made, crowded>>

\* start, suspend and resume.
Change(c, a, to) ==
    /\ doing[c] = Idle /\ made < MaxCalls /\ made' = made + 1
    /\ Present(a)
    /\ IF Valid(agents[a].state, to)
       THEN Send(Event(a, agents[a].state, to)) ELSE UNCHANGED sent
    /\ UNCHANGED <<agents, events, watch, is_running, doing, history>>

\* Also one step of the shutdown, which goes on with the other agents.
Terminating(c, a, rest) ==
    /\ IF Present(a) /\ Receiving
       THEN /\ Send(Event(a, agents[a].state, "Terminating"))
            /\ doing' = [doing EXCEPT ![c] = [at |-> "sleep", agent |-> a,
                                            todo |-> rest]]
       ELSE /\ doing' = [doing EXCEPT ![c] = IF rest = {} THEN Idle ELSE
                                [at |-> "shutdown", todo |-> rest]]
            /\ UNCHANGED sent
    /\ UNCHANGED <<agents, events, watch, is_running, history>>

Terminate(c, a) ==
    /\ doing[c] = Idle /\ Present(a)
    /\ made < MaxCalls /\ made' = made + 1
    /\ Terminating(c, a, {})

\* After 100 ms: the agent is not removed if the event cannot be sent.
Remove(c) ==
    /\ doing[c].at = "sleep"
    /\ Send(Event(doing[c].agent, "Terminating", "Terminated"))
    /\ agents' = IF Receiving
                 THEN [agents EXCEPT ![doing[c].agent] = NoAgent] ELSE agents
    /\ doing' = [doing EXCEPT ![c] = IF @.todo = {} THEN Idle
                        ELSE [at |-> "shutdown", todo |-> @.todo]]
    /\ UNCHANGED <<events, watch, is_running, made, history>>

\* The loop is woken if it waits; if it is at work then, it finds is_running
\* at the next event.  The agents are listed in a step of their own.
Shutdown(c) ==
    /\ Begin(c, [at |-> "list", todo |-> {}])
    /\ is_running' = FALSE
    /\ \/ events = "wait" /\ events' = "woken"
       \/ UNCHANGED events
    /\ UNCHANGED <<agents, sent, watch, history>>

List(c) ==
    /\ doing[c].at = "list"
    /\ doing' = [doing EXCEPT ![c] = IF Table = {} THEN Idle
                        ELSE [at |-> "shutdown", todo |-> Table]]
    /\ UNCHANGED <<agents, sent, events, watch, is_running, made, history>>

TerminateNext(c, a) ==
    /\ doing[c].at = "shutdown" /\ a \in doing[c].todo
    /\ Terminating(c, a, doing[c].todo \ {a})
    /\ UNCHANGED made

Proceed(c) ==
    \/ Remove(c) \/ List(c)
    \/ \E a \in doing[c].todo : Insert(c, a) \/ TerminateNext(c, a)

CallStep(c) ==
    \/ \E a \in Agent :
         \/ Initialize(c, a) \/ Terminate(c, a)
         \/ \E to \in {"Running", "Suspended"} : Change(c, a, to)
    \/ Shutdown(c) \/ Proceed(c)

-----------------------------------------------------------------------------

Next ==
    \/ \E a \in Agent : TimePasses(a)
    \/ EventLoop \/ Monitor
    \/ \E c \in Caller : CallStep(c)

Spec == Init /\ [][Next]_vars

\* Both loops and all calls are polled, and time passes.
FairSpec ==
    /\ Spec
    /\ WF_vars(EventLoop) /\ WF_vars(Monitor)
    /\ \A a \in Agent : WF_vars(TimePasses(a))
    /\ \A c \in Caller : WF_vars(Proceed(c))

-----------------------------------------------------------------------------
(* Properties *)

\* Every variable has its type.
TypeOK ==
    /\ \A a \in Agent :
         \/ agents[a] = NoAgent
         \/ /\ agents[a].state \in State
            /\ agents[a].restarts \in Nat /\ agents[a].stuck \in BOOLEAN
            /\ agents[a].birth \in 1 .. births
    /\ \A i \in 1 .. Len(sent) :
         /\ sent[i].agent \in Agent
         /\ sent[i].from \in State /\ sent[i].to \in State
    /\ events \in {"wait", "woken", "ended"}
    /\ watch.at \in {"wait", "act", "ended"}
    /\ watch.restart \subseteq Agent /\ watch.fail \subseteq Agent
    /\ \A c \in Caller :
         /\ doing[c].at \in {"idle", "insert", "sleep", "list", "shutdown"}
         /\ doing[c].todo \subseteq Agent

\* The monitor restarts an agent at most as often as configured, though it
\* goes by a count it has read under an earlier lock, and the agent may have
\* been removed, put into the table anew or failed again since (mod.rs:302).
RestartsAreLimited == \A a \in Agent : agents[a].restarts <= MaxRestarts

\* The places are counted under another lock than the one under which a place
\* is taken: max_agents is passed only by callers that counted while another
\* had counted and not yet taken its place, by one agent for each of them, and
\* the first that counts alone again finds the limit kept (mod.rs:365).
PlacesAreLimited == Cardinality(Table) <= MaxAgents + crowded

TableIsLimited == TypeOK /\ RestartsAreLimited /\ PlacesAreLimited

\* An agent that never becomes ready is failed and restarted until it has used
\* its restarts up, unless it is terminated or all is shut down.
GivesUp ==
    \A a \in Agent :
        agents[a].state = "Initializing"
            ~> \/ /\ agents[a].state = "Failed"
                  /\ agents[a].restarts = MaxRestarts
               \/ agents[a].state \notin {"Initializing", "Failed"}
               \/ ~is_running

\* "Terminate all running agents" (the comment in shutdown): when the call is
\* over no agent is left but those that were put into the table late.
ShutdownTerminates ==
    ~is_running /\ (\A c \in Caller : doing[c] = Idle)
        => \A a \in Table : agents[a].birth \in late

=============================================================================
