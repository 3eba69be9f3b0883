------------------------- MODULE MCDaemonLifecycle -------------------------
EXTENDS DaemonLifecycle
CONSTANTS p1, p2, p3
=============================================================================
