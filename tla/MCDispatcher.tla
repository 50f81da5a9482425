---------------------------- MODULE MCDispatcher -----------------------------
EXTENDS Dispatcher, TLC
CONSTANTS w1, w2
Symmetry == Permutations(Workers)
=============================================================================
