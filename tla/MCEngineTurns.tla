--------------------------- MODULE MCEngineTurns ---------------------------
(* Calls, sessions and requests for model checking EngineTurns.            *)
EXTENDS EngineTurns, TLC

CONSTANTS t1, t2, t3, t4, s1, s2, s3, r1, r2, r3, r4

\* t2 is sent to the session of t1, t3 and t4 are sent to others.
TwoAlike == t1 :> s1 @@ t2 :> s1 @@ t3 :> s2 @@ t4 :> s3
\* Two requests, each sent on two connections.
BothRetried == t1 :> r1 @@ t2 :> r2 @@ t3 :> r1 @@ t4 :> r2
\* Every call is a request of its own.
AllDistinct == t1 :> r1 @@ t2 :> r2 @@ t3 :> r3 @@ t4 :> r4
=============================================================================
