-------------------------- MODULE MCTurnAdmission --------------------------
(* Instances of TurnAdmission for TLC; the cfg files give the constants     *)
(* small sets of model values.                                              *)
EXTENDS TurnAdmission
=============================================================================
