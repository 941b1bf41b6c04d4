------------------------ MODULE WatchSchedulerProofs ------------------------
(***************************************************************************)
(* Proofs about WatchScheduler, for any tasks, retries and bounds: types,  *)
(* the at-most-once rule and the retry budget.                             *)
(*                                                                         *)
(* AtMostOnce is not inductive by itself: an UPDATE of a row that does not *)
(* exist would leave it due after its start.  A task in the batch has a    *)
(* row, because rows are only deleted while no daemon is up (BatchHasRows, *)
(* DownIsIdle).  The retry budget rests on RetryIsStreak: the stored       *)
(* retry_count is the length of the current streak of failures.            *)
(***************************************************************************)
EXTENDS WatchScheduler, TLAPS

\* A task in the batch has a row in the store.
BatchHasRows == \A t \in batch : state[t] # "none"

\* Nothing is picked up or executed while no daemon is up.
DownIsIdle == ~up => batch = {} /\ current = NoTask

\* The stored retry_count is the length of the current streak of failures.
RetryIsStreak == retry = streak

IInv == TypeOK /\ BatchHasRows /\ DownIsIdle /\ AtMostOnce /\ RetryIsStreak

\* The initial states satisfy the invariant.
LEMMA InitIInv == Init => IInv
<1> SUFFICES ASSUME Init PROVE IInv
  OBVIOUS
<1>1. TypeOK
  <2>1. restarts \in 0..MaxRestarts /\ retry \in [Tasks -> 0..MaxRetries]
    BY CountAssumption DEF Init
  <2>2. up \in BOOLEAN
    BY DEF Init
  <2>3. /\ state \in [Tasks -> {"none", "armed", "executing", "done", "failed",
                               "held"}]
        /\ due \in [Tasks -> {"never", "later", "now", "overdue"}]
    BY DEF Init
  <2>4. /\ runs \in [Tasks -> Nat] /\ occasions \in [Tasks -> Nat]
        /\ starts \in [Tasks -> Nat] /\ streak \in [Tasks -> Nat]
    BY DEF Init
  <2>5. batch \subseteq Tasks /\ registered \subseteq EventTasks
        /\ current \in Tasks \cup {NoTask}
    BY DEF Init
  <2> QED
    BY <2>1, <2>2, <2>3, <2>4, <2>5 DEF TypeOK
<1>2. BatchHasRows /\ DownIsIdle /\ RetryIsStreak
  BY DEF Init, BatchHasRows, DownIsIdle, RetryIsStreak
<1>3. AtMostOnce
  <2> SUFFICES ASSUME NEW t \in Tasks
               PROVE  starts[t] <= occasions[t] /\ t \notin batch /\ ~IsDue(t)
    BY DEF AtMostOnce
  <2>1. starts[t] = 0 /\ occasions[t] = 0 /\ t \notin batch
    BY DEF Init
  <2>2. ~IsDue(t)
    BY DEF Init, IsDue
  <2> QED
    BY <2>1, <2>2
<1> QED
  BY <1>1, <1>2, <1>3 DEF IInv

\* Tick keeps the invariant.
LEMMA TickStep ==
  ASSUME IInv, Tick
  PROVE  IInv'
<1> USE DEF IInv, Tick, rows, process, history, DueTasks
<1>1. TypeOK'
  BY TaskAssumption, CountAssumption DEF TypeOK
<1>2. BatchHasRows'
  BY DEF BatchHasRows, TypeOK, DownIsIdle
<1>3. DownIsIdle'
  BY DEF DownIsIdle
<1>4. AtMostOnce'
  BY TaskAssumption DEF AtMostOnce, TypeOK, IsDue, BatchHasRows, DownIsIdle
<1>5. RetryIsStreak'
  BY DEF RetryIsStreak, TypeOK
<1> QED
  BY <1>1, <1>2, <1>3, <1>4, <1>5

\* TickError keeps the invariant.
LEMMA TickErrorStep ==
  ASSUME IInv, TickError
  PROVE  IInv'
<1> USE DEF IInv, TickError, rows, process, history
<1>1. TypeOK'
  BY TaskAssumption, CountAssumption DEF TypeOK
<1>2. BatchHasRows'
  BY DEF BatchHasRows, TypeOK, DownIsIdle
<1>3. DownIsIdle'
  BY DEF DownIsIdle
<1>4. AtMostOnce'
  BY TaskAssumption DEF AtMostOnce, TypeOK, IsDue, BatchHasRows, DownIsIdle
<1>5. RetryIsStreak'
  BY DEF RetryIsStreak, TypeOK
<1> QED
  BY <1>1, <1>2, <1>3, <1>4, <1>5

\* Begin keeps the invariant.
LEMMA BeginStep ==
  ASSUME IInv, NEW t \in Tasks, Begin(t)
  PROVE  IInv'
<1> USE DEF IInv, Begin, rows, process, history, Put, Advanced
<1>1. TypeOK'
  BY TaskAssumption, CountAssumption DEF TypeOK
<1>2. BatchHasRows'
  BY DEF BatchHasRows, TypeOK, DownIsIdle
<1>3. DownIsIdle'
  BY DEF DownIsIdle
<1>4. AtMostOnce'
  BY TaskAssumption DEF AtMostOnce, TypeOK, IsDue, BatchHasRows, DownIsIdle
<1>5. RetryIsStreak'
  BY DEF RetryIsStreak, TypeOK
<1> QED
  BY <1>1, <1>2, <1>3, <1>4, <1>5

\* FinishOk keeps the invariant.
LEMMA FinishOkStep ==
  ASSUME IInv, NEW t \in Tasks, FinishOk(t)
  PROVE  IInv'
<1> USE DEF IInv, FinishOk, rows, process, history, Put, Return
<1>1. TypeOK'
  BY TaskAssumption, CountAssumption DEF TypeOK
<1>2. BatchHasRows'
  BY DEF BatchHasRows, TypeOK, DownIsIdle
<1>3. DownIsIdle'
  BY DEF DownIsIdle
<1>4. AtMostOnce'
  BY TaskAssumption DEF AtMostOnce, TypeOK, IsDue, BatchHasRows, DownIsIdle
<1>5. RetryIsStreak'
  BY DEF RetryIsStreak, TypeOK
<1> QED
  BY <1>1, <1>2, <1>3, <1>4, <1>5

\* FinishSoftFailure keeps the invariant.
LEMMA FinishSoftFailureStep ==
  ASSUME IInv, NEW t \in Tasks, FinishSoftFailure(t)
  PROVE  IInv'
<1> USE DEF IInv, FinishSoftFailure, rows, process, history, Put, Return, AfterFailure
<1>1. TypeOK'
  BY TaskAssumption, CountAssumption DEF TypeOK
<1>2. BatchHasRows'
  BY DEF BatchHasRows, TypeOK, DownIsIdle
<1>3. DownIsIdle'
  BY DEF DownIsIdle
<1>4. AtMostOnce'
  BY TaskAssumption DEF AtMostOnce, TypeOK, IsDue, BatchHasRows, DownIsIdle
<1>5. RetryIsStreak'
  BY DEF RetryIsStreak, TypeOK
<1> QED
  BY <1>1, <1>2, <1>3, <1>4, <1>5

\* FinishException keeps the invariant.
LEMMA FinishExceptionStep ==
  ASSUME IInv, NEW t \in Tasks, FinishException(t)
  PROVE  IInv'
<1> USE DEF IInv, FinishException, rows, process, history, Put, Return, AfterFailure
<1>1. TypeOK'
  BY TaskAssumption, CountAssumption DEF TypeOK
<1>2. BatchHasRows'
  BY DEF BatchHasRows, TypeOK, DownIsIdle
<1>3. DownIsIdle'
  BY DEF DownIsIdle
<1>4. AtMostOnce'
  BY TaskAssumption DEF AtMostOnce, TypeOK, IsDue, BatchHasRows, DownIsIdle
<1>5. RetryIsStreak'
  BY DEF RetryIsStreak, TypeOK
<1> QED
  BY <1>1, <1>2, <1>3, <1>4, <1>5

\* FinishUnrecorded keeps the invariant.
LEMMA FinishUnrecordedStep ==
  ASSUME IInv, NEW t \in Tasks, FinishUnrecorded(t)
  PROVE  IInv'
<1> USE DEF IInv, FinishUnrecorded, rows, process, history
<1>1. TypeOK'
  BY TaskAssumption, CountAssumption DEF TypeOK
<1>2. BatchHasRows'
  BY DEF BatchHasRows, TypeOK, DownIsIdle
<1>3. DownIsIdle'
  BY DEF DownIsIdle
<1>4. AtMostOnce'
  BY TaskAssumption DEF AtMostOnce, TypeOK, IsDue, BatchHasRows, DownIsIdle
<1>5. RetryIsStreak'
  BY DEF RetryIsStreak, TypeOK
<1> QED
  BY <1>1, <1>2, <1>3, <1>4, <1>5

\* ComeDue keeps the invariant.
LEMMA ComeDueStep ==
  ASSUME IInv, NEW t \in Tasks, ComeDue(t)
  PROVE  IInv'
<1> USE DEF IInv, ComeDue, rows, process, history
<1>1. TypeOK'
  BY TaskAssumption, CountAssumption DEF TypeOK
<1>2. BatchHasRows'
  BY DEF BatchHasRows, TypeOK, DownIsIdle
<1>3. DownIsIdle'
  BY DEF DownIsIdle
<1>4. AtMostOnce'
  BY TaskAssumption DEF AtMostOnce, TypeOK, IsDue, BatchHasRows, DownIsIdle
<1>5. RetryIsStreak'
  BY DEF RetryIsStreak, TypeOK
<1> QED
  BY <1>1, <1>2, <1>3, <1>4, <1>5

\* Lapse keeps the invariant.
LEMMA LapseStep ==
  ASSUME IInv, NEW t \in Tasks, Lapse(t)
  PROVE  IInv'
<1> USE DEF IInv, Lapse, rows, process, history
<1>1. TypeOK'
  BY TaskAssumption, CountAssumption DEF TypeOK
<1>2. BatchHasRows'
  BY DEF BatchHasRows, TypeOK, DownIsIdle
<1>3. DownIsIdle'
  BY DEF DownIsIdle
<1>4. AtMostOnce'
  BY TaskAssumption DEF AtMostOnce, TypeOK, IsDue, BatchHasRows, DownIsIdle
<1>5. RetryIsStreak'
  BY DEF RetryIsStreak, TypeOK
<1> QED
  BY <1>1, <1>2, <1>3, <1>4, <1>5

\* OnEvent keeps the invariant.
LEMMA OnEventStep ==
  ASSUME IInv, NEW t \in Tasks, OnEvent(t)
  PROVE  IInv'
<1> USE DEF IInv, OnEvent, rows, process, history, Put, AtAwait
<1>1. TypeOK'
  BY TaskAssumption, CountAssumption DEF TypeOK
<1>2. BatchHasRows'
  BY DEF BatchHasRows, TypeOK, DownIsIdle
<1>3. DownIsIdle'
  BY DEF DownIsIdle
<1>4. AtMostOnce'
  BY TaskAssumption DEF AtMostOnce, TypeOK, IsDue, BatchHasRows, DownIsIdle
<1>5. RetryIsStreak'
  BY DEF RetryIsStreak, TypeOK
<1> QED
  BY <1>1, <1>2, <1>3, <1>4, <1>5

\* Arm keeps the invariant.
LEMMA ArmStep ==
  ASSUME IInv, NEW t \in Tasks, Arm(t)
  PROVE  IInv'
<1> USE DEF IInv, Arm, rows, process, history, Advanced, AtAwait
<1>1. TypeOK'
  BY TaskAssumption, CountAssumption DEF TypeOK
<1>2. BatchHasRows'
  BY DEF BatchHasRows, TypeOK, DownIsIdle
<1>3. DownIsIdle'
  BY DEF DownIsIdle
<1>4. AtMostOnce'
  BY TaskAssumption DEF AtMostOnce, TypeOK, IsDue, BatchHasRows, DownIsIdle
<1>5. RetryIsStreak'
  BY DEF RetryIsStreak, TypeOK
<1> QED
  BY <1>1, <1>2, <1>3, <1>4, <1>5

\* Hold keeps the invariant.
LEMMA HoldStep ==
  ASSUME IInv, NEW t \in Tasks, Hold(t)
  PROVE  IInv'
<1> USE DEF IInv, Hold, rows, process, history, AtAwait
<1>1. TypeOK'
  BY TaskAssumption, CountAssumption DEF TypeOK
<1>2. BatchHasRows'
  BY DEF BatchHasRows, TypeOK, DownIsIdle
<1>3. DownIsIdle'
  BY DEF DownIsIdle
<1>4. AtMostOnce'
  BY TaskAssumption DEF AtMostOnce, TypeOK, IsDue, BatchHasRows, DownIsIdle
<1>5. RetryIsStreak'
  BY DEF RetryIsStreak, TypeOK
<1> QED
  BY <1>1, <1>2, <1>3, <1>4, <1>5

\* StopWatch keeps the invariant.
LEMMA StopWatchStep ==
  ASSUME IInv, NEW t \in Tasks, StopWatch(t)
  PROVE  IInv'
<1> USE DEF IInv, StopWatch, rows, process, history, AtAwait
<1>1. TypeOK'
  BY TaskAssumption, CountAssumption DEF TypeOK
<1>2. BatchHasRows'
  BY DEF BatchHasRows, TypeOK, DownIsIdle
<1>3. DownIsIdle'
  BY DEF DownIsIdle
<1>4. AtMostOnce'
  BY TaskAssumption DEF AtMostOnce, TypeOK, IsDue, BatchHasRows, DownIsIdle
<1>5. RetryIsStreak'
  BY DEF RetryIsStreak, TypeOK
<1> QED
  BY <1>1, <1>2, <1>3, <1>4, <1>5

\* Resume keeps the invariant.
LEMMA ResumeStep ==
  ASSUME IInv, NEW t \in Tasks, NEW r \in BOOLEAN, Resume(t, r)
  PROVE  IInv'
<1> USE DEF IInv, Resume, rows, process, history, Advanced, AtAwait
<1>1. TypeOK'
  BY TaskAssumption, CountAssumption DEF TypeOK
<1>2. BatchHasRows'
  BY DEF BatchHasRows, TypeOK, DownIsIdle
<1>3. DownIsIdle'
  BY DEF DownIsIdle
<1>4. AtMostOnce'
  BY TaskAssumption DEF AtMostOnce, TypeOK, IsDue, BatchHasRows, DownIsIdle
<1>5. RetryIsStreak'
  BY DEF RetryIsStreak, TypeOK
<1> QED
  BY <1>1, <1>2, <1>3, <1>4, <1>5

\* Update keeps the invariant.
LEMMA UpdateStep ==
  ASSUME IInv, NEW t \in Tasks, Update(t)
  PROVE  IInv'
<1> USE DEF IInv, Update, rows, process, history, Advanced, AtAwait
<1>1. TypeOK'
  BY TaskAssumption, CountAssumption DEF TypeOK
<1>2. BatchHasRows'
  BY DEF BatchHasRows, TypeOK, DownIsIdle
<1>3. DownIsIdle'
  BY DEF DownIsIdle
<1>4. AtMostOnce'
  BY TaskAssumption DEF AtMostOnce, TypeOK, IsDue, BatchHasRows, DownIsIdle
<1>5. RetryIsStreak'
  BY DEF RetryIsStreak, TypeOK
<1> QED
  BY <1>1, <1>2, <1>3, <1>4, <1>5

\* ManualRun keeps the invariant.
LEMMA ManualRunStep ==
  ASSUME IInv, NEW t \in Tasks, ManualRun(t)
  PROVE  IInv'
<1> USE DEF IInv, ManualRun, rows, process, history, AtAwait
<1>1. TypeOK'
  BY TaskAssumption, CountAssumption DEF TypeOK
<1>2. BatchHasRows'
  BY DEF BatchHasRows, TypeOK, DownIsIdle
<1>3. DownIsIdle'
  BY DEF DownIsIdle
<1>4. AtMostOnce'
  BY TaskAssumption DEF AtMostOnce, TypeOK, IsDue, BatchHasRows, DownIsIdle
<1>5. RetryIsStreak'
  BY DEF RetryIsStreak, TypeOK
<1> QED
  BY <1>1, <1>2, <1>3, <1>4, <1>5

\* Halt keeps the invariant.
LEMMA HaltStep ==
  ASSUME IInv, Halt
  PROVE  IInv'
<1> USE DEF IInv, Halt, rows, process, history
<1>1. TypeOK'
  BY TaskAssumption, CountAssumption DEF TypeOK
<1>2. BatchHasRows'
  BY DEF BatchHasRows, TypeOK, DownIsIdle
<1>3. DownIsIdle'
  BY DEF DownIsIdle
<1>4. AtMostOnce'
  BY TaskAssumption DEF AtMostOnce, TypeOK, IsDue, BatchHasRows, DownIsIdle
<1>5. RetryIsStreak'
  BY DEF RetryIsStreak, TypeOK
<1> QED
  BY <1>1, <1>2, <1>3, <1>4, <1>5

\* Start keeps the invariant.
LEMMA StartStep ==
  ASSUME IInv, Start
  PROVE  IInv'
<1> USE DEF IInv, Start, rows, process, history, DueAtStart, Advanced, Recreated
<1>1. TypeOK'
  BY TaskAssumption, CountAssumption DEF TypeOK
<1>2. BatchHasRows'
  BY DEF BatchHasRows, TypeOK, DownIsIdle
<1>3. DownIsIdle'
  BY DEF DownIsIdle
<1>4. AtMostOnce'
  BY TaskAssumption DEF AtMostOnce, TypeOK, IsDue, BatchHasRows, DownIsIdle
<1>5. RetryIsStreak'
  BY DEF RetryIsStreak, TypeOK
<1> QED
  BY <1>1, <1>2, <1>3, <1>4, <1>5

-----------------------------------------------------------------------------
\* Every step keeps the invariant.
LEMMA NextStep == IInv /\ [Next]_vars => IInv'
<1> SUFFICES ASSUME IInv, [Next]_vars PROVE IInv'
  OBVIOUS
<1>1. CASE UNCHANGED vars
  BY <1>1 DEF IInv, TypeOK, BatchHasRows, DownIsIdle, AtMostOnce, RetryIsStreak,
              IsDue, vars, rows, process, history
<1>2. CASE Tick \/ TickError \/ Halt \/ Start
  BY <1>2, TickStep, TickErrorStep, HaltStep, StartStep
<1>3. ASSUME NEW t \in Tasks, Begin(t) \/ Finish(t)
      PROVE  IInv'
  BY <1>3, BeginStep, FinishOkStep, FinishSoftFailureStep, FinishExceptionStep,
     FinishUnrecordedStep DEF Finish
<1>4. ASSUME NEW t \in Tasks, ComeDue(t) \/ Lapse(t) \/ OnEvent(t)
      PROVE  IInv'
  BY <1>4, ComeDueStep, LapseStep, OnEventStep
<1>5. ASSUME NEW t \in Tasks, UserStep(t)
      PROVE  IInv'
  BY <1>5, ArmStep, HoldStep, StopWatchStep, UpdateStep, ManualRunStep, ResumeStep
     DEF UserStep
<1> QED
  BY <1>1, <1>2, <1>3, <1>4, <1>5 DEF Next

\* The inductive invariant holds in every reachable state.
LEMMA Invariance == Spec => []IInv
BY InitIInv, NextStep, PTL DEF Spec

\* The store's rows, the batch and the bookkeeping of the scheduler keep their
\* types; in particular retry_count never exceeds max_retries.
THEOREM TypeCorrect == Spec => []TypeOK
<1>1. IInv => TypeOK
  BY DEF IInv
<1> QED
  BY <1>1, Invariance, PTL

\* At-most-once execution of local_scheduler.py for any number of tasks,
\* crashes and restarts: an occasion starts a task at most once.
THEOREM StartsAtMostOnce == Spec => []AtMostOnce
<1>1. IInv => AtMostOnce
  BY DEF IInv
<1> QED
  BY <1>1, Invariance, PTL

\* The retry budget of _execute_task() for any max_retries: a task is given up
\* only after max_retries + 1 failures in a row, across pauses and restarts.
THEOREM RetryBudget == Spec => GaveUpAfterRetries
<1>1. IInv /\ IInv' /\ [Next]_vars =>
        [\A t \in Tasks : state[t] # "failed" /\ state'[t] = "failed"
                           => streak[t] = MaxRetries]_vars
  <2> SUFFICES ASSUME IInv, Next, NEW u \in Tasks, state[u] # "failed",
                      state'[u] = "failed"
               PROVE  streak[u] = MaxRetries
    OBVIOUS
  <2>1. \E t \in Tasks : FinishSoftFailure(t) \/ FinishException(t)
    BY DEF Next, Finish, UserStep, Tick, TickError, Begin, FinishOk,
           FinishUnrecorded, ComeDue, Lapse, OnEvent, Arm, Hold, StopWatch, Resume,
           Update, ManualRun, Halt, Start, Return, Put, rows, process, history,
           IInv, TypeOK, Recreated
  <2>2. PICK t \in Tasks : AfterFailure(t)
    BY <2>1 DEF FinishSoftFailure, FinishException
  <2>3. retry[t] \in 0..MaxRetries /\ retry[u] = streak[u]
    BY DEF IInv, TypeOK, RetryIsStreak
  <2>4. u = t /\ ~(retry[t] < MaxRetries)
    BY <2>2 DEF AfterFailure, Put, IInv, TypeOK
  <2> QED
    BY <2>3, <2>4, CountAssumption
<1> QED
  BY <1>1, Invariance, PTL DEF Spec, GaveUpAfterRetries
=============================================================================
