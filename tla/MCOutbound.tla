----------------------------- MODULE MCOutbound ------------------------------
EXTENDS Outbound, TLC
CONSTANTS w1, w2
Symmetry == Permutations(Workers)
=============================================================================
