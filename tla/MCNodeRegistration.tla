------------------------- MODULE MCNodeRegistration -------------------------
\* Instance of NodeRegistration for TLC.
EXTENDS NodeRegistration

CONSTANTS m1, m2
=============================================================================
