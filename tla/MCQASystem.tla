----------------------------- MODULE MCQASystem ------------------------------
EXTENDS QASystem, TLC
CONSTANTS m1, m2, u1, u2, r1, r2, d1, s1
MCMessages == {m1, m2}
MCUsers == {u1, u2}
MCSender == m1 :> u1 @@ m2 :> u2
=============================================================================
