------------------------- MODULE MCControlSessions -------------------------
(* Bounds for model checking ControlSessions.                              *)
EXTENDS ControlSessions

CONSTANTS s1, s2, d1, d2, c1, c2
=============================================================================
