-------------------------- MODULE MCAgentScheduler --------------------------
EXTENDS AgentScheduler, TLC

Symmetric == Permutations(Agent)

=============================================================================
