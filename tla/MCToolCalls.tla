---------------------------- MODULE MCToolCalls ----------------------------
(* Names for the check of ToolCalls: two turns with two calls each, two      *)
(* slots and two permits, so that both turns, or the window, can wait for    *)
(* what the other one holds.                                                 *)
EXTENDS ToolCalls

CONSTANTS t1, t2, c1, c2
=============================================================================
