----------------------------- MODULE MCPresence -----------------------------
EXTENDS Presence

CONSTANTS u, w

\* The talker reconnects, the onlooker is there or not.
Opens == [d \in {u, w} |-> IF d = u THEN 2 ELSE 1]
=============================================================================
