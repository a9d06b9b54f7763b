--------------------------- MODULE MCStateManager ---------------------------
EXTENDS StateManager

CONSTANTS u1, u2, u3, p1, p2

MCAmount == [x \in Upstreams \cup Payments |-> IF x \in {u2, p2} THEN 2 ELSE 1]
=============================================================================
