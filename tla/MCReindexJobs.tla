--------------------------- MODULE MCReindexJobs -----------------------------
EXTENDS ReindexJobs, TLC
CONSTANTS w1, w2, j1, j2
Symmetry == Permutations(Workers) \cup Permutations(Jobs)
=============================================================================
