--------------------------- MODULE ResourceManager ---------------------------
(***************************************************************************)
(* The resource manager (resource/mod.rs): who holds how much of the       *)
(* machine.                                                                *)
(*                                                                         *)
(* Callers only send requests.  The monitoring loop takes them from an     *)
(* unbounded channel and keeps three tables, each under a lock of its own: *)
(* the allocations, the usage samples and what is free of the system.  The *)
(* enforcement loop and the calls that ask for a status read two of these  *)
(* tables at a time and keep the first lock while they wait for the second;*)
(* a deallocation keeps the lock of the allocations while it waits for the *)
(* other two.                                                              *)
(*                                                                         *)
(* A request names an amount of memory, of processors, of disk and of      *)
(* network, and is granted only if all four are free.  The books of each   *)
(* are kept apart, and this module follows those of one of them.  What is  *)
(* free is counted in whole units.  Memory, disk and network are asked for *)
(* in whole units too; processors are asked for in fractions, which the    *)
(* allocation keeps but the comparison, the charge and the credit cut off. *)
(***************************************************************************)
EXTENDS Integers, Sequences, FiniteSets

CONSTANTS Agent, Caller,
          Total,        \* units that can be given out
          Parts,        \* requests and allocations count parts of a unit
          MaxAmount,    \* bound: parts in a request, a limit or a sample
          KillAfter,    \* kill_after_sustained_violations
          MaxCalls      \* bound: calls in a run

Amount == 1 .. MaxAmount

VARIABLES
    alloc,      \* allocations: parts that each agent has, 0 if it has none
    usage,      \* usage_tracker: the last sample of each agent, 0 if none
    free,       \* system_resources, in whole units
    channel,    \* the requests that wait for the monitoring loop
    monitor,    \* the monitoring loop: its place and the parts in its hand
    enforce,    \* the enforcement loop: its place and its samples
    breaches,   \* consecutive_violations
    up,         \* is_running
    call,       \* what each caller is doing
    calls,      \* how many calls were made
    overwritten, \* history: units of allocations that were overwritten
    resized     \* history: a limit was set

tables == <<alloc, usage, free>>
loops == <<monitor, enforce, breaches>>
history == <<overwritten, resized>>

vars == <<tables, channel, loops, up, call, calls, history>>

None == "none"

Idle == [at |-> "idle", agent |-> None, amount |-> 0, todo |-> {}]

Listening == [at |-> "wait", agent |-> None, parts |-> 0, woken |-> FALSE]

\* The loop is over, and with it the receiver of the channel.
Closed == [Listening EXCEPT !.at = "ended"]

Resting == [at |-> "wait", samples |-> {}]

\* The conversion to u32 drops what is less than a unit.
Whole(n) == n \div Parts

\* What the agents are charged together: the whole units of each.
Granted == Cardinality({u \in Agent \X Amount : u[2] <= Whole(alloc[u[1]])})

\* A manager that has given the largest amount to some of the agents.
Init ==
    /\ alloc \in [Agent -> {0, MaxAmount}] /\ usage = [a \in Agent |-> 0]
    /\ Granted <= Total /\ free = Total - Granted /\ channel = <<>>
    /\ monitor = Listening /\ enforce = Resting
    /\ breaches = [a \in Agent |-> 0]
    /\ up = TRUE
    /\ call = [c \in Caller |-> Idle] /\ calls = 0
    /\ overwritten = 0 /\ resized = FALSE

\* Locks that are kept from one step to another.
AllocationsWritten == monitor.at \in {"credit", "forget"}
SystemRead == \E c \in Caller : call[c].at = "status"
UsageRead ==
    \/ enforce.at = "snapshot"
    \/ \E c \in Caller : call[c].at = "check"

Request(kind, a, n) == [kind |-> kind, agent |-> a, amount |-> n]

-----------------------------------------------------------------------------
(* The monitoring loop: process_monitoring_event *)

Takes(kind) ==
    /\ monitor.at = "wait"
    /\ channel # <<>> /\ Head(channel).kind = kind
    /\ channel' = Tail(channel)

TakeUsage ==
    /\ Takes("usage") /\ ~UsageRead
    /\ usage' = [usage EXCEPT ![Head(channel).agent] = Head(channel).amount]
    /\ monitor' = Listening
    /\ UNCHANGED <<alloc, free, enforce, breaches, up, call, calls, history>>

\* Less than a unit always fits.
Fits(n) == free >= Whole(n)

\* Faulty variant: an agent that has an allocation is given no other, but it
\* is charged for it.
GrantOnce(a, n) ==
    /\ alloc' = IF alloc[a] = 0 THEN [alloc EXCEPT ![a] = n] ELSE alloc
    /\ free' = free - Whole(n)
    /\ UNCHANGED overwritten

\* The lock of the system is kept until the allocation is in the table; what
\* the agent had before is overwritten.  The allocation keeps the fraction
\* that is not charged.
Grant(a, n) ==
    /\ alloc' = [alloc EXCEPT ![a] = n]
    /\ free' = free - Whole(n)
    /\ overwritten' = overwritten + Whole(alloc[a])

\* Nothing is granted either if one of the other three does not fit.
TakeAllocation ==
    /\ Takes("allocate") /\ ~SystemRead
    /\ LET r == Head(channel)
       IN  \/ Fits(r.amount) /\ Grant(r.agent, r.amount)
           \/ UNCHANGED <<alloc, free, overwritten>>
    /\ monitor' = Listening
    /\ UNCHANGED <<usage, enforce, breaches, up, call, calls, resized>>

\* Faulty variant: a request for an agent that has no allocation is put at the
\* end again, as its allocation may still come.
Postpone ==
    /\ monitor.at = "wait"
    /\ channel # <<>> /\ Head(channel).kind = "deallocate"
    /\ LET a == Head(channel).agent
       IN  /\ alloc' = [alloc EXCEPT ![a] = 0]
           /\ monitor' = IF alloc[a] = 0 THEN Listening
                         ELSE [at |-> "credit", agent |-> a,
                               parts |-> alloc[a], woken |-> FALSE]
           /\ channel' = IF alloc[a] # 0 THEN Tail(channel)
                         ELSE Append(Tail(channel), Head(channel))
    /\ UNCHANGED <<usage, free, enforce, breaches, up, call, calls, history>>

\* The allocation is removed, and its table stays locked.
TakeDeallocation ==
    /\ Takes("deallocate")
    /\ LET a == Head(channel).agent
       IN  /\ alloc' = [alloc EXCEPT ![a] = 0]
           /\ monitor' = IF alloc[a] = 0 THEN Listening
                         ELSE [at |-> "credit", agent |-> a,
                               parts |-> alloc[a], woken |-> FALSE]
    /\ UNCHANGED <<usage, free, enforce, breaches, up, call, calls, history>>

Credit ==
    /\ monitor.at = "credit" /\ ~SystemRead
    /\ free' = free + Whole(monitor.parts)
    /\ monitor' = [monitor EXCEPT !.at = "forget", !.parts = 0]
    /\ UNCHANGED <<alloc, usage, channel, enforce, breaches, up, call, calls,
                   history>>

\* Both locks are given back.
Forget ==
    /\ monitor.at = "forget" /\ ~UsageRead
    /\ usage' = [usage EXCEPT ![monitor.agent] = 0]
    /\ monitor' = Listening
    /\ UNCHANGED <<alloc, free, channel, enforce, breaches, up, call, calls,
                   history>>

\* Only a loop that was waiting at the shutdown hears of it, and not if it
\* takes a request first.
StopMonitor ==
    /\ monitor.at = "wait" /\ monitor.woken
    /\ monitor' = Closed /\ channel' = <<>>
    /\ UNCHANGED <<tables, enforce, breaches, up, call, calls, history>>

Monitor ==
    \/ TakeUsage \/ TakeAllocation \/ TakeDeallocation
    \/ Credit \/ Forget \/ StopMonitor

-----------------------------------------------------------------------------
(* The enforcement loop: enforce_resource_limits *)

Sample ==
    /\ enforce.at = "wait" /\ up
    /\ enforce' = [enforce EXCEPT !.at = "snapshot"]
    /\ UNCHANGED <<tables, channel, monitor, breaches, up, call, calls,
                   history>>

\* Every agent that has a sample and an allocation, and whether it keeps it.
Snapshot ==
    /\ enforce.at = "snapshot" /\ ~AllocationsWritten
    /\ LET seen == {a \in Agent : usage[a] # 0 /\ alloc[a] # 0}
       IN  enforce' = [at |-> IF seen = {} THEN "wait" ELSE "judge",
                       samples |-> {<<a, usage[a] > alloc[a]>> : a \in seen}]
    /\ UNCHANGED <<tables, channel, monitor, breaches, up, call, calls,
                   history>>

\* The agent is asked to be killed.
Killed(s) == s[2] /\ breaches[s[1]] + 1 >= KillAfter

Count(s) ==
    breaches' = [breaches EXCEPT ![s[1]] =
                    IF Killed(s) \/ ~s[2] THEN 0 ELSE @ + 1]

\* Throttle or kill, or neither; what is sent is only logged.
Judge(s) ==
    /\ enforce.at = "judge"
    /\ Count(s)
    /\ enforce' = [at |-> IF enforce.samples = {s} THEN "wait" ELSE "judge",
                   samples |-> enforce.samples \ {s}]
    /\ UNCHANGED <<tables, channel, monitor, up, call, calls, history>>

StopEnforcement ==
    /\ enforce.at = "wait" /\ ~up
    /\ enforce' = [enforce EXCEPT !.at = "ended"]
    /\ UNCHANGED <<tables, channel, monitor, breaches, up, call, calls,
                   history>>

Enforcement ==
    \/ Sample \/ Snapshot \/ StopEnforcement
    \/ \E s \in enforce.samples : Judge(s)

-----------------------------------------------------------------------------
(* The calls *)

\* A call is made and returns at once.
AtOnce(c) ==
    /\ call[c] = Idle /\ calls < MaxCalls /\ calls' = calls + 1
    /\ UNCHANGED call

Begin(c, what) ==
    /\ call[c] = Idle /\ calls < MaxCalls /\ calls' = calls + 1
    /\ call' = [call EXCEPT ![c] = what]

Return(c) == call' = [call EXCEPT ![c] = Idle] /\ UNCHANGED calls

\* A request is lost once the monitoring loop has ended.
Send(r) ==
    channel' = IF monitor.at = "ended" THEN channel ELSE Append(channel, r)

\* Refused if the agent has an allocation; else the policy is asked.
Allocate(c, a, n) ==
    /\ up /\ ~AllocationsWritten /\ alloc[a] = 0
    /\ Begin(c, [Idle EXCEPT !.at = "policy", !.agent = a, !.amount = n])
    /\ UNCHANGED <<tables, channel, loops, up, history>>

\* The policy denies, or grants some amount; then the caller sleeps for 10 ms.
Decide(c) ==
    /\ call[c].at = "policy"
    /\ \/ Return(c) /\ UNCHANGED channel
       \/ \E n \in Amount :
            /\ Send(Request("allocate", call[c].agent, n))
            /\ call' = [call EXCEPT ![c].at = "sleep"] /\ UNCHANGED calls
    /\ UNCHANGED <<tables, loops, up, history>>

\* The answer is what the table holds when the sleep is over.
Answer(c) ==
    /\ call[c].at = "sleep" /\ ~AllocationsWritten
    /\ Return(c)
    /\ UNCHANGED <<tables, channel, loops, up, history>>

Deallocate(c, a) ==
    /\ AtOnce(c)
    /\ Send(Request("deallocate", a, 0))
    /\ UNCHANGED <<tables, loops, up, history>>

UpdateUsage(c, a, n) ==
    /\ AtOnce(c)
    /\ Send(Request("usage", a, n))
    /\ UNCHANGED <<tables, loops, up, history>>

\* The allocation becomes the limit, whatever is free.
SetLimits(c, a, n) ==
    /\ ~AllocationsWritten /\ alloc[a] # 0
    /\ AtOnce(c)
    /\ alloc' = [alloc EXCEPT ![a] = n]
    /\ resized' = TRUE
    /\ UNCHANGED <<usage, free, channel, loops, up, overwritten>>

\* get_system_status reads the system and keeps it while it reads the
\* allocations; check_limits does so with the usage.
Ask(c) ==
    /\ \E table \in {"status", "check"} : Begin(c, [Idle EXCEPT !.at = table])
    /\ UNCHANGED <<tables, channel, loops, up, history>>

Reply(c) ==
    /\ call[c].at \in {"status", "check"} /\ ~AllocationsWritten
    /\ Return(c)
    /\ UNCHANGED <<tables, channel, loops, up, history>>

Shutdown(c) ==
    /\ Begin(c, [Idle EXCEPT !.at = "list"])
    /\ up' = FALSE
    /\ monitor' = [monitor EXCEPT !.woken = monitor.at = "wait"]
    /\ UNCHANGED <<tables, channel, enforce, breaches, history>>

List(c) ==
    /\ call[c].at = "list" /\ ~AllocationsWritten
    /\ LET held == {a \in Agent : alloc[a] # 0}
       IN  call' = [call EXCEPT ![c] =
                        IF held = {} THEN Idle
                        ELSE [Idle EXCEPT !.at = "drain", !.todo = held]]
    /\ UNCHANGED <<tables, channel, loops, up, calls, history>>

\* The next agent; an error is logged.
Drain(c, a) ==
    /\ call[c].at = "drain"
    /\ Send(Request("deallocate", a, 0))
    /\ LET rest == call[c].todo \ {a}
       IN  call' = [call EXCEPT ![c] =
                        IF rest = {} THEN Idle
                        ELSE [call[c] EXCEPT !.todo = rest]]
    /\ UNCHANGED <<tables, loops, up, calls, history>>

\* What a call that has begun does next.
Proceed(c) ==
    \/ Decide(c) \/ Answer(c) \/ Reply(c) \/ List(c)
    \/ \E a \in call[c].todo : Drain(c, a)

CallStep(c) ==
    \/ \E a \in Agent :
         \/ Deallocate(c, a)
         \/ \E n \in Amount :
                Allocate(c, a, n) \/ UpdateUsage(c, a, n) \/ SetLimits(c, a, n)
    \/ Ask(c) \/ Shutdown(c) \/ Proceed(c)

-----------------------------------------------------------------------------

Next == Monitor \/ Enforcement \/ \E c \in Caller : CallStep(c)

Spec == Init /\ [][Next]_vars

\* The async runtime polls both loops and every call that has begun.  A writer
\* that waits for a lock gets it: new readers queue behind it (parking_lot).
FairSpec ==
    /\ Spec
    /\ SF_vars(Monitor) /\ WF_vars(Enforcement)
    /\ \A c \in Caller : WF_vars(Proceed(c))

-----------------------------------------------------------------------------
(* Properties *)

TypeOK ==
    /\ alloc \in [Agent -> 0 .. MaxAmount]
    /\ usage \in [Agent -> 0 .. MaxAmount]
    /\ free \in Nat
    /\ \A i \in 1 .. Len(channel) :
         /\ channel[i].kind \in {"usage", "allocate", "deallocate"}
         /\ channel[i].agent \in Agent
    /\ monitor.at \in {"wait", "credit", "forget", "ended"}
    /\ enforce.at \in {"wait", "snapshot", "judge", "ended"}
    /\ breaches \in [Agent -> 0 .. KillAfter - 1]
    /\ \A c \in Caller :
         call[c].at \in {"idle", "policy", "sleep", "status", "check", "list",
                         "drain"}

\* As long as set_limits is not used, every whole unit of the machine is free,
\* or charged to one agent, or in the hand of the deallocation, or was charged
\* for an allocation that a second request of the same agent has overwritten:
\* none is charged twice, and none credited twice or in part.  What an agent
\* has beyond its whole units is charged to nobody.
UnitsAddUp ==
    ~resized =>
        free + Granted + Whole(monitor.parts) + overwritten = Total

\* Two tasks each of which keeps a lock that the other waits for.
LockedOut ==
    \/ monitor.at = "credit" /\ SystemRead
    \/ monitor.at = "forget" /\ UsageRead

Awaited(a) ==
    \E i \in 1 .. Len(channel) :
        channel[i].kind = "deallocate" /\ channel[i].agent = a

\* What a caller has asked to be given back is given back, unless the loop has
\* ended or is locked out by one that reads two tables.
DeallocationIsDone ==
    \A a \in Agent :
        Awaited(a) ~> (~Awaited(a) \/ monitor.at = "ended" \/ LockedOut)

=============================================================================
