-------------------------- MODULE MCSessionsAndJobs --------------------------
(***************************************************************************)
(* Sessions under the monitor and the cron scheduler, beside each other.   *)
(* They share no state, so that in a behaviour one of them is at work and  *)
(* the other stays as it began.                                            *)
(***************************************************************************)
EXTENDS MCSession, CronScheduler

VARIABLE service    \* the one at work

session == <<vars, left>>

\* Jobs that are to run once have one place, the others have two.
Places == [j \in Job |-> IF j \in OneShot THEN 1 ELSE 2]

\* One initial state is enough for a part that is not at work.
BothInit ==
    /\ service \in {"session", "cron"}
    /\ SessionInit /\ JobsInit
    /\ service # "session" => protocol = Unseen
    /\ service # "cron" => \A j \in Job : row[j] = Unborn

BothNext ==
    /\ \/ service = "session" /\ Next /\ Follow /\ UNCHANGED jobs
       \/ service = "cron" /\ JobsNext /\ UNCHANGED session
    /\ UNCHANGED service

BothSpec ==
    /\ BothInit /\ [][BothNext]_<<service, session, jobs>>
    /\ WF_jobs(service = "cron" /\ TickLoop)
    /\ WF_jobs(service = "cron" /\ \E r \in live : RunStep(r))

=============================================================================
