-------------------------- MODULE MCWatchScheduler --------------------------
(* Bounds for model checking WatchScheduler.                               *)
EXTENDS WatchScheduler, TLC

CONSTANTS a, b

\* Three occasions let a task fail, succeed and fail again.
ThreeAndOne == a :> 3 @@ b :> 1
OneEach == a :> 1 @@ b :> 1
=============================================================================
