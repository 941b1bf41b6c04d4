--------------------------- MODULE WatchScheduler ---------------------------
(***************************************************************************)
(* The scheduler of tasks and watches: scheduler/local_scheduler.py over   *)
(* the rows of scheduler/store.py, the operations of                       *)
(* scheduler/coordinator.py and monitor/manager.py, the events of          *)
(* monitor/event_bridge.py and the start of the monitor runtime in         *)
(* daemon/monitor_coordinator.py.                                          *)
(*                                                                         *)
(* A tick reads the due rows once and executes them one after the other;   *)
(* every execution is an await during which users change the rows, events  *)
(* arrive and the daemon may stop or crash.  The rows survive; the batch,  *)
(* the running execution and the event bridge do not.                      *)
(*                                                                         *)
(* Time is abstract: a row is due never, later, now, or overdue beyond the *)
(* grace period.                                                           *)
(***************************************************************************)
EXTENDS Naturals

CONSTANTS
  Tasks,
  EventTasks,     \* watches with an event trigger; the others have a timer
  DefaultTasks,   \* the built-in watches
  EagerTasks,     \* the built-in watches that run as soon as they are armed
  CoupledTasks,   \* watches that belong to an interactive client
  MaxRetries,     \* max_retries of every task
  MaxRuns,        \* max_runs of every task; 0 for no limit
  MaxOccasions,   \* bound on how often each task becomes due, and on its runs
  MaxRestarts,    \* bound on the restarts of the daemon
  NoTask

ASSUME TaskAssumption ==
  /\ NoTask \notin Tasks
  /\ EventTasks \subseteq Tasks
  /\ DefaultTasks \subseteq Tasks
  /\ EagerTasks \subseteq DefaultTasks \ EventTasks
  /\ CoupledTasks \subseteq Tasks \ DefaultTasks
ASSUME CountAssumption ==
  /\ MaxRetries \in Nat /\ MaxRuns \in Nat
  /\ MaxOccasions \in [Tasks -> Nat] /\ MaxRestarts \in Nat

VARIABLES
  state,       \* the column state; none: there is no row, held: suspended or
               \* paused, which nothing tells apart
  due,         \* the column next_due_at
  runs,        \* the column run_count
  retry,       \* the column retry_count
  up,          \* a daemon runs
  batch,       \* the rest of due_tasks in _tick()
  current,     \* the task whose execution is awaited
  registered,  \* tasks the event bridge knows
  restarts,
  occasions,   \* how often a task became due
  starts,      \* how often the scheduler started it
  streak       \* its failures since it last succeeded, gave up or was created

rows == <<state, due, runs, retry>>
process == <<up, batch, current, registered, restarts>>
history == <<occasions, starts, streak>>
vars == <<rows, process, history>>

TypeOK ==
  /\ state \in [Tasks -> {"none", "armed", "executing", "done", "failed",
                          "held"}]
  /\ due \in [Tasks -> {"never", "later", "now", "overdue"}]
  /\ runs \in [Tasks -> Nat]
  /\ retry \in [Tasks -> 0..MaxRetries]
  /\ up \in BOOLEAN
  /\ batch \subseteq Tasks
  /\ current \in Tasks \cup {NoTask}
  /\ registered \subseteq EventTasks
  /\ restarts \in 0..MaxRestarts
  /\ occasions \in [Tasks -> Nat]
  /\ starts \in [Tasks -> Nat]
  /\ streak \in [Tasks -> Nat]

Init ==
  /\ state = [t \in Tasks |-> "none"]
  /\ due = [t \in Tasks |-> "never"]
  /\ runs = [t \in Tasks |-> 0]
  /\ retry = [t \in Tasks |-> 0]
  /\ up = FALSE /\ batch = {} /\ current = NoTask
  /\ registered = {} /\ restarts = 0
  /\ occasions = [t \in Tasks |-> 0]
  /\ starts = [t \in Tasks |-> 0]
  /\ streak = [t \in Tasks |-> 0]

\* The tick loop is at an await, so that other coroutines run: it waits for
\* the next tick or for an execution, and does not pause between the two.
AtAwait == up /\ (batch = {} \/ current # NoTask)

IsDue(t) == due[t] \in {"now", "overdue"}

\* Trigger.advance(): an event has no predictable next time.
Advanced(t) == IF t \in EventTasks THEN "never" ELSE "later"

\* An UPDATE of the row of t; without a row nothing happens.
Put(f, t, v) == IF state[t] = "none" THEN f ELSE [f EXCEPT ![t] = v]

-----------------------------------------------------------------------------
(* The tick                                                                *)

\* Mutant: rows that are long overdue are not looked for.
DueTasksInGrace == {t \in Tasks : state[t] = "armed" /\ due[t] = "now"}

\* get_due_tasks()
DueTasks == {t \in Tasks : state[t] = "armed" /\ IsDue(t)}

\* _tick() reads the due rows.
Tick ==
  /\ up /\ batch = {} /\ current = NoTask
  /\ DueTasks # {}
  /\ batch' = DueTasks
  /\ UNCHANGED <<rows, up, current, registered, restarts, history>>

\* Mutant: the next due time is left to the end of the execution.
BeginWithoutAdvance(t) ==
  /\ up /\ t \in batch /\ current = NoTask
  /\ batch' = batch \ {t}
  /\ state' = Put(state, t, "executing")
  /\ current' = t
  /\ starts' = [starts EXCEPT ![t] = @ + 1]
  /\ UNCHANGED <<due, runs, retry, up, registered, restarts, occasions, streak>>

\* _execute_task() up to the await of the executor.  It does not look at the
\* row again, which a user may have changed since the tick read it.
Begin(t) ==
  /\ up /\ t \in batch /\ current = NoTask
  /\ batch' = batch \ {t}
  /\ due' = Put(due, t, Advanced(t))
  /\ state' = Put(state, t, "executing")
  /\ current' = t
  /\ starts' = [starts EXCEPT ![t] = @ + 1]
  /\ UNCHANGED <<runs, retry, up, registered, restarts, occasions, streak>>

\* The store raises before the execution of the next task starts: the tick is abandoned.
TickError ==
  /\ up /\ batch # {} /\ current = NoTask
  /\ batch' = {}
  /\ UNCHANGED <<rows, up, current, registered, restarts, history>>

\* The execution of t returns.
Return(t) ==
  /\ up /\ current = t
  /\ current' = NoTask
  /\ UNCHANGED <<up, batch, registered, restarts, occasions, starts>>

\* Mutant: retry_count is not reset on success.
FinishOkKeepsRetries(t) ==
  /\ Return(t)
  /\ runs' = Put(runs, t, runs[t] + 1)
  /\ state' = Put(state, t, IF MaxRuns > 0 /\ runs[t] + 1 >= MaxRuns
                            THEN "done" ELSE "armed")
  /\ streak' = Put(streak, t, 0)
  /\ UNCHANGED <<due, retry>>

\* It returns ok.
FinishOk(t) ==
  /\ Return(t)
  /\ runs' = Put(runs, t, runs[t] + 1)
  /\ retry' = Put(retry, t, 0)
  /\ state' = Put(state, t, IF MaxRuns > 0 /\ runs[t] + 1 >= MaxRuns
                            THEN "done" ELSE "armed")
  /\ streak' = Put(streak, t, 0)
  /\ UNCHANGED due

\* Mutant: one retry too many.
AfterFailureOneMore(t) ==
  IF retry[t] <= MaxRetries
  THEN /\ retry' = Put(retry, t, retry[t] + 1)
       /\ due' = Put(due, t, "later")
       /\ state' = Put(state, t, "armed")
       /\ streak' = Put(streak, t, streak[t] + 1)
  ELSE /\ retry' = Put(retry, t, 0)
       /\ state' = Put(state, t, "failed")
       /\ streak' = Put(streak, t, 0)
       /\ UNCHANGED due

\* _retry_task() while the budget lasts, FAILED afterwards.
AfterFailure(t) ==
  IF retry[t] < MaxRetries
  THEN /\ retry' = Put(retry, t, retry[t] + 1)
       /\ due' = Put(due, t, "later")
       /\ state' = Put(state, t, "armed")
       /\ streak' = Put(streak, t, streak[t] + 1)
  ELSE /\ retry' = Put(retry, t, 0)
       /\ state' = Put(state, t, "failed")
       /\ streak' = Put(streak, t, 0)
       /\ UNCHANGED due

\* It returns ok=False; that counts as a run.
FinishSoftFailure(t) ==
  /\ Return(t)
  /\ runs' = Put(runs, t, runs[t] + 1)
  /\ AfterFailure(t)

\* It raises.
FinishException(t) ==
  /\ Return(t)
  /\ AfterFailure(t)
  /\ UNCHANGED runs

\* It raises and so does the store when the failure is recorded: the rest of
\* the tick is abandoned and the row keeps saying that it is executed.
FinishUnrecorded(t) ==
  /\ up /\ current = t
  /\ current' = NoTask /\ batch' = {}
  /\ UNCHANGED <<rows, up, registered, restarts, history>>

Finish(t) ==
  \/ FinishOk(t) \/ FinishSoftFailure(t) \/ FinishException(t)
  \/ FinishUnrecorded(t)

-----------------------------------------------------------------------------
(* Time and events                                                         *)

\* next_due_at is reached.
ComeDue(t) ==
  /\ due[t] = "later" /\ occasions[t] < MaxOccasions[t]
  /\ due' = [due EXCEPT ![t] = "now"]
  /\ occasions' = [occasions EXCEPT ![t] = @ + 1]
  /\ UNCHANGED <<state, runs, retry, process, starts, streak>>

\* The grace period passes.
Lapse(t) ==
  /\ due[t] = "now"
  /\ due' = [due EXCEPT ![t] = "overdue"]
  /\ UNCHANGED <<state, runs, retry, process, history>>

\* on_event() for a watch outside its debounce window: the row becomes due,
\* whatever its state.
OnEvent(t) ==
  /\ AtAwait /\ t \in registered /\ occasions[t] < MaxOccasions[t]
  /\ due' = Put(due, t, "now")
  /\ occasions' = [occasions EXCEPT ![t] = @ + 1]
  /\ UNCHANGED <<state, runs, retry, process, starts, streak>>

-----------------------------------------------------------------------------
(* Users                                                                   *)

\* arm(), arm_watch()
Arm(t) ==
  /\ AtAwait /\ state[t] = "none"
  /\ state' = [state EXCEPT ![t] = "armed"]
  /\ due' = [due EXCEPT ![t] = Advanced(t)]
  /\ runs' = [runs EXCEPT ![t] = 0]
  /\ retry' = [retry EXCEPT ![t] = 0]
  /\ streak' = [streak EXCEPT ![t] = 0]
  /\ registered' = registered \cup ({t} \cap EventTasks)
  /\ UNCHANGED <<up, batch, current, restarts, occasions, starts>>

\* cancel(), pause_task(), pause_watch()
Hold(t) ==
  /\ AtAwait /\ state[t] # "none"
  /\ state' = [state EXCEPT ![t] = "held"]
  /\ UNCHANGED <<due, runs, retry, process, history>>

\* stop_watch()
StopWatch(t) ==
  /\ AtAwait /\ state[t] # "none"
  /\ state' = [state EXCEPT ![t] = "done"]
  /\ registered' = registered \ {t}
  /\ UNCHANGED <<due, runs, retry, up, batch, current, restarts, history>>

\* resume_task(); resume_watch() leaves next_due_at alone.
Resume(t, recalculate) ==
  /\ AtAwait /\ state[t] # "none"
  /\ state' = [state EXCEPT ![t] = "armed"]
  /\ due' = IF recalculate THEN [due EXCEPT ![t] = Advanced(t)] ELSE due
  /\ UNCHANGED <<runs, retry, process, history>>

\* update_task() with a new trigger expression of the same kind.
Update(t) ==
  /\ AtAwait /\ state[t] # "none"
  /\ due' = [due EXCEPT ![t] = Advanced(t)]
  /\ UNCHANGED <<state, runs, retry, process, history>>

\* A manual run_watch_once() ends well; it runs beside the scheduler.
ManualRun(t) ==
  /\ AtAwait /\ state[t] # "none" /\ runs[t] < MaxOccasions[t]
  /\ runs' = [runs EXCEPT ![t] = @ + 1]
  /\ UNCHANGED <<state, due, retry, process, history>>

-----------------------------------------------------------------------------
(* The daemon                                                              *)

\* The daemon crashes, or stop() cancels the tick loop: an awaited execution
\* ends by CancelledError, which _execute_task() does not catch.
Halt ==
  /\ up /\ restarts < MaxRestarts
  /\ up' = FALSE
  /\ batch' = {} /\ current' = NoTask /\ registered' = {}
  /\ UNCHANGED <<rows, restarts, history>>

\* A built-in watch that _arm_default_watches() creates anew.
Recreated(t) == t \in DefaultTasks /\ state[t] \notin {"armed", "executing"}

\* next_due_at of a task after the start: _make_due_now(), _fast_forward().
DueAtStart(t) ==
  IF Recreated(t) THEN IF t \in EagerTasks THEN "now" ELSE Advanced(t)
  ELSE IF state[t] = "armed" /\ due[t] = "overdue" THEN Advanced(t) ELSE due[t]

\* The monitor runtime starts: _fast_forward(), the sweep of client-coupled
\* watches and _arm_default_watches().
Start ==
  /\ ~up /\ restarts < MaxRestarts
  /\ up' = TRUE
  /\ restarts' = restarts + 1
  /\ state' = [t \in Tasks |-> IF t \in CoupledTasks THEN "none"
                               ELSE IF Recreated(t) THEN "armed" ELSE state[t]]
  /\ due' = [t \in Tasks |-> DueAtStart(t)]
  /\ runs' = [t \in Tasks |-> IF Recreated(t) THEN 0 ELSE runs[t]]
  /\ retry' = [t \in Tasks |-> IF Recreated(t) THEN 0 ELSE retry[t]]
  /\ streak' = [t \in Tasks |-> IF Recreated(t) THEN 0 ELSE streak[t]]
  /\ registered' = {t \in EventTasks : Recreated(t)}
  /\ occasions' = [t \in Tasks |-> IF t \in EagerTasks /\ Recreated(t)
                                   THEN occasions[t] + 1 ELSE occasions[t]]
  /\ UNCHANGED <<batch, current, starts>>

-----------------------------------------------------------------------------
UserStep(t) ==
  \/ Arm(t) \/ Hold(t) \/ StopWatch(t) \/ Update(t) \/ ManualRun(t)
  \/ \E recalculate \in BOOLEAN : Resume(t, recalculate)

Next ==
  \/ Tick \/ TickError \/ Halt \/ Start
  \/ \E t \in Tasks :
       \/ Begin(t) \/ Finish(t) \/ ComeDue(t) \/ Lapse(t) \/ OnEvent(t)
       \/ UserStep(t)

\* The tick loop goes on, an execution returns, and a store that raised works
\* again (Begin is strongly fair).  Nothing makes users or events act.
Fairness ==
  /\ WF_vars(Start) /\ WF_vars(Tick)
  /\ \A t \in Tasks : SF_vars(Begin(t)) /\ WF_vars(Finish(t))

Spec == Init /\ [][Next]_vars
FairSpec == Spec /\ Fairness

-----------------------------------------------------------------------------
(* Properties                                                              *)

\* At most once: an occasion on which a task became due starts it at most
\* once, whatever crashes, restarts, resumes and edits come in between.  A
\* task in the batch or due still has its occasion to use.
AtMostOnce ==
  \A t \in Tasks :
    /\ starts[t] <= occasions[t]
    /\ t \in batch \/ IsDue(t) => starts[t] < occasions[t]

\* A task is given up only when it failed max_retries + 1 times in a row; the
\* stored retry_count survives pauses and restarts and is reset by a success.
GaveUpAfterRetries ==
  [][\A t \in Tasks :
       state[t] # "failed" /\ state'[t] = "failed" => streak[t] = MaxRetries]_vars

\* A due task is picked up, or a user or a restart puts it off, however the
\* ticks, the other tasks and the store's errors interleave.
DueServed ==
  \A t \in Tasks : (state[t] = "armed" /\ IsDue(t)) ~> ~(state[t] = "armed" /\ IsDue(t))

\* "... so daemon restarts always restore monitoring": when the monitor runtime
\* has started, every built-in watch is armed, and the event bridge knows those
\* that wait for an event.
RestartRestores ==
  [][Start => \A t \in DefaultTasks :
                /\ state'[t] = "armed"
                /\ t \in EventTasks => t \in registered']_vars
=============================================================================
