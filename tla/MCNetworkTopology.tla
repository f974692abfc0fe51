------------------------- MODULE MCNetworkTopology -------------------------
\* The server 2 and the switch 3 are linked by switch 4, that has no LLDP, and the node
\* 1 is connected to switch 3.
EXTENDS NetworkTopology

cable(x, p, y, q) == {[mac |-> x, port |-> p, neighbor |-> y],
                      [mac |-> y, port |-> q, neighbor |-> x]}

MCCabling == cable(2, 1, 4, 1) \cup cable(4, 2, 3, 1) \cup cable(1, 1, 3, 2)
=============================================================================
