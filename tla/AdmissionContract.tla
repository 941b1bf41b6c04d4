------------------------- MODULE AdmissionContract -------------------------
(***************************************************************************)
(* What the admission controller promises its callers: up to N turns run   *)
(* between turn_slot() and its exit, and an exclusive window opens only    *)
(* when none does and keeps new ones out until it closes.  How callers     *)
(* wait, park or are cancelled does not show.                              *)
(***************************************************************************)
EXTENDS Integers, FiniteSets

CONSTANTS N, Turns, Ops, NoOp

VARIABLES
  inTurn,  \* the turns that run
  window   \* the operation whose exclusive window is open, or NoOp

Init == inTurn = {} /\ window = NoOp

Enter(t) ==
  /\ t \notin inTurn
  /\ window = NoOp /\ Cardinality(inTurn) < N
  /\ inTurn' = inTurn \cup {t} /\ window' = window

\* The turn ends or waits for a human.
Exit(t) == t \in inTurn /\ inTurn' = inTurn \ {t} /\ window' = window

Open(o) ==
  /\ window = NoOp /\ inTurn = {}
  /\ window' = o /\ inTurn' = inTurn

Close(o) == window = o /\ window' = NoOp /\ inTurn' = inTurn

Next ==
  \/ \E t \in Turns : Enter(t) \/ Exit(t)
  \/ \E o \in Ops : Open(o) \/ Close(o)

Spec == Init /\ [][Next]_<<inTurn, window>>
=============================================================================
