--------------------------- MODULE MCHostedChannel ---------------------------
EXTENDS HostedChannel, TLC

CONSTANTS u1, u2, u3, p1, p2

MCAmount == [x \in Upstreams \cup Payments |-> IF x = p2 THEN 2 ELSE 1]
Symmetry == Permutations(Upstreams \ Direct)
==============================================================================
