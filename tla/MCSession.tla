------------------------------ MODULE MCSession ------------------------------
EXTENDS Session, TLC

CONSTANTS a, b, m1, m2

\* The messages are the first account's.
ByA == [m \in Msgs |-> a]
=============================================================================
