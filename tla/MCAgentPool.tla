---- MODULE MCAgentPool ----
EXTENDS AgentPool, TLC
Symmetry == Permutations(Callers)
====
