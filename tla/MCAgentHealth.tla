---- MODULE MCAgentHealth ----
EXTENDS AgentHealthMonitor, TLC
Symmetry == Permutations(Agents) \cup Permutations(Cycles)
====
