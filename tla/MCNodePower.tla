----------------------------- MODULE MCNodePower -----------------------------
\* Instance of NodePower for TLC: one node, a free port to move it to.
EXTENDS NodePower, TLC

CONSTANTS n1, p1, p2, r1

MCInitialPlug == n1 :> p1

MCRetries == n1 :> 1
=============================================================================
