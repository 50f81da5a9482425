---------------------------- MODULE MCAgentQuery -----------------------------
EXTENDS AgentQuery, TLC
CONSTANTS c1, c2
Symmetry == Permutations(Calls)
=============================================================================
