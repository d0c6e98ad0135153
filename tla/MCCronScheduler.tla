-------------------------- MODULE MCCronScheduler --------------------------
EXTENDS CronScheduler, TLC

CONSTANTS j1, j2, c1, c2

TwoJobs == {j1, j2}
TheSecond == {j2}
Limits == j1 :> 2 @@ j2 :> 1

OneCaller == {c1}
TwoCallers == {c1, c2}

=============================================================================
