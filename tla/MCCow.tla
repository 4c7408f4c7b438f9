------------------------------- MODULE MCCow -------------------------------
EXTENDS Cow

CONSTANTS p1, p2, p3

MCProcs == {p1, p2, p3}
=============================================================================
