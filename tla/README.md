# TLA+ models of leapflow

This directory specifies the concurrent core of leapflow in TLA+, model-checks
it with TLC and proves its main safety properties with TLAPS. Every definition
that models code is translated from the source; `PROJECT.json` maps each one to
the lines it stands for. Paths below are relative to `src/src/leapflow/`.

Contents: [inventory](#1-inventory), [modules and the code](#2-modules-and-the-code),
[runs](#3-runs), [fairness](#4-fairness), [proofs](#5-proofs),
[disagreements](#6-where-code-and-documents-disagree),
[abstractions](#7-abstractions-and-what-is-not-modelled), [plan](#8-plan).

## 1. Inventory

leapflow is an agent that runs as a background daemon. Clients (TUI, browser,
messaging gateways) connect to the daemon over a socket and ask for *turns*. A
turn runs an agent engine, which calls a language model and tools and may ask a
human for approval. Beside turns the daemon schedules tasks and watches, drives
hardware nodes through control loops, learns from recordings and writes it all
to DuckDB. One asyncio event loop carries almost all of it, so two tasks
interleave exactly at the awaits; control loops and lease files use threads.

### Modelled

| Component | State | Operations | Hard behaviour | What makes it correct |
|---|---|---|---|---|
| Turn admission (`daemon/turn_admission.py`) | FIFO semaphore of N slots, exclusive lock, gate stack, metrics | `turn_slot()`, `parked_for_human_decision()`, `exclusive()`, `_ExclusiveGate` | cancellation at every await, permits handed to a waiter that is cancelled before it runs, draining slot by slot while turns park | slots are neither lost nor doubled, a window is alone, nobody starves because of a human |
| Engine turns (`daemon/service.py` `engine_chat()`, `session_coordinator.py`, `server.py`) | request ledger, handler task, engine task, slot, session lock | call, admit, route, stream, end, drop of the connection | handler and engine are two tasks, the handler cancels the engine without waiting for it, locks awaited in nested order, generator closed from a foreign context | a request runs once at a time, turns of one session take turns, slots come back |
| Session registry (`daemon/session_registry.py`) | contexts with engine and lock, primary session, activity | `acquire()`, idle and limit eviction | eviction while a context is used | one context per session |
| Approvals (`daemon/approval_coordinator.py`) | pending futures, routes | ask, answer, deny at the end of a stream | an answer or a slot on its way when the turn ends; no timeout | pending approvals belong to live turns |
| Task and watch scheduler (`scheduler/local_scheduler.py`, `store.py`, `coordinator.py`, `monitor/manager.py`, `event_bridge.py`, `daemon/monitor_coordinator.py`) | rows in DuckDB, in-memory batch, running execution, event bridge | tick, execute, retry, arm, pause, resume, stop, edit, run now, event, crash, start | rows read once and used after awaits, crash between the advance and the execution, memory that a restart loses | at most one start per occasion, retries exactly as configured, due tasks are served |
| Control sessions of a hardware node (`hardware/lhp/control_sessions.py`, `lhp/server.py`, `hardware/registry.py`, `hardware/control_bus.py`) | sessions and leases, loop thread per device, transports, connections and their requests | open, renew, close, lease expiry, disconnect, thread start and exit | check before an await and registration after it, lease and disconnect at the same time, devices that block, thread starts and joins that time out | every loop has an owner who can stop it (but see section 6), an abandoned session stops, a device is halted once |
| Tool calls and subagents (`engine/tool_dispatch_engine.py`, `domain/tool_pipeline.py`, `engine/subagent.py`, with the admission slots) | calls of a turn, one slot holder per turn, deadlines, permits of subagents | parallel calls, prompt, answer, deadline, delegate, nested delegation of a re-entry | calls of one turn share a slot, deadlines stop while a human decides, two semaphores awaited inside each other | a turn gives back what it took, windows are alone, waits form no cycle |
| Re-entry of finished tasks (`scheduler/reentry_*.py`, `storage/reentry_store.py`, `security/send_trust.py`, `daemon/reentry_coordinator.py`) | trigger rows, driver tick and event handlers, gate, budgets, rates, trust, keys of sent messages | schedule, tick, inbound event, claim, dispatch, decide, approve, send, restart | lists read before awaits, claim before the dispatch, counters checked before and set after an await, shared gate | a claim leads to at most one run and one message, budgets hold, due triggers are taken |
| Durable event outbox (`evolution/outbox.py`, `storage/evolution_event_store.py`) | bounded queue, writer task and its batch, write threads, error flag, flushes | publish, batch, write, retry, flush, close | writes that time out and still commit, events in no queue while a flush waits, the writer cancelled anywhere | nothing accepted is lost silently, a flush vouches for what came before it |
| Session finalizer and teacher jobs (`evolution/session_finalizer.py`, `teacher_worker.py`, `storage/evolution_event_store.py`) | evidence rows, jobs with leases and attempts, finalize call, worker | finalize, claim, complete, fail, close, restart | reads and writes in separate threads, threads left behind by a cancellation, lease expiry, crash between claim and result | all evidence is in a job, settled jobs stay settled, no job is stranded |

Interactions: `server.py` turns a request of a connection into a call of
`engine_chat()`; that takes a slot of the admission controller, a context of the
registry and the context's lock, and starts the engine task. The engine executes
tool calls, some of them at once; a call asks the approval coordinator, which
hands the turn's slot back while the human thinks and takes one again
afterwards, or delegates to a subagent, which takes a permit of its manager.
Re-entry and the start, stop and restart of the host backend use `exclusive()`
to run without turns; a re-entry runs a subagent in its window. The monitor
manager writes the same task rows as the scheduler's tick, and the event bridge
makes event watches due through the store. Turns and subagents publish evidence
into the outbox; at the end of a session the finalizer flushes it and queues a
job for the teacher. On a hardware node the connection handler opens control
sessions, whose watchdog task and disconnect handler stop the device's loop
thread.

### Not modelled

Every part below is listed in `PROJECT.json` with its reason.

| Component | Why not (yet) |
|---|---|
| Hardware write path: permits, governor, degradation | checks of one request after the other, with thresholds over readings. Its one concurrent-looking state is the set of used permits, which is in memory and bounded, so that a restart or an eviction forgets a permit that is still valid (`lhp/permit.py:447`) |
| Client leases and daemon lifecycle | rests on file systems, process tables and signals. `stop()` removes a lease file that a late write of the touch loop can create again (`lease.py:124`) |
| Daemon transport and notifications | framing and fan-out around the modelled handlers |
| Hardware nodes, fleet and drivers | device input and output; the parts that start and stop loops are in `ControlSessions` |
| Agent engine | its control depends on a language model's answers; a turn is seen here as a task that runs, calls tools, asks and ends |
| Language-model providers, gateway | clients of external services |
| Monitor producers and findings | what a watch observes; its life is in `WatchScheduler` |
| Plugins, tools, skills, hub; learning, evolution, world model; memory and storage; perception, recording; robot control; command line, dashboard, copilot; configuration, rules, shared types | data, heuristics, numerics and user interfaces without concurrent control of their own |

The hazards (what in this code is hard to test, at the line where it bites, and
which property covers it) are in `PROJECT.json`.

## 2. Modules and the code

Each component has a specification module, a `Proofs` module and, where its runs
need them, an `MC` module with their constants.

### AdmissionContract

What admission promises: either at most N turns are in flight, or one exclusive
window is open and no turn is. `TurnAdmission` is shown to implement it, and
`EngineTurns` takes and returns its slots by `Enter` and `Exit` of this contract,
so that it does not repeat the semaphore.

### TurnAdmission

The state is that of `_turn_semaphore` as `asyncio.Semaphore` keeps it (`value`,
`waiters`, the `granted` waiters that were woken and have not run), the
`_exclusive_lock` (`owner`, `lockq`) with the permits its owner has drained
(`acquired`), the metrics, the stack of the shared gate, and where each task is.

| Actions | Code |
|---|---|
| `TurnStart`, `TurnResume`, `TurnFinish` | entry into `turn_slot()`, the wake-up at its await, and its `finally` |
| `TurnPark`, `TurnUnpark` | `parked_for_human_decision()`: release, then re-acquire in the `finally`, whether answered or cancelled |
| `TurnCancelWaiting` | `CancelledError` at the await of a slot, with the semaphore passing a permit on |
| `OpEnter`, `OpLock`, `OpResume`, `OpExit` | `exclusive()`, directly or through the gate: the lock, the drain of N slots, the body, the release |
| `OpCancelDrain`, `OpCancelLock` | cancellation in the drain or in the wait for the lock |

`leaked` is a window whose task left its gate but popped another task's context
manager.

### EngineTurns

`handler` and `engine` are the two tasks of a turn, `dying` the turns whose engine
was cancelled and still unwinds. `held` is `_SlotHolder.held`, `ledger` the
request ledger, `registry`, `primary`, `counter`, `activity` the session
registry; a context is named after the turn that created it, `owner` is who
holds its lock.

| Actions | Code |
|---|---|
| `Call`, `Admit`, `Reply` | `engine_chat()` up to the ledger: a running request is refused, a completed one replayed, `_prune_engine_request_ledger()` forgets old ones |
| `Route`, `Mismatch`, `RouteError` | `SessionRegistry.acquire()` with idle and limit eviction, refused workspaces, failed engines; then the lock, free or not |
| `Lock` | the session lock after a wait, with the slot in hand |
| `Ask`, `Answer`, `Wake`, `Reacquire` | `request_approval()` inside `parked_for_human_decision()` |
| `End` | the engine ends, the ledger is updated, everything is released |
| `DropWaiting`, `DropWriting` | the connection drops while the handler waits (it is cancelled) or when a chunk cannot be written (the generator is closed from the server's context) |
| `Unwind` | what a cancelled engine still does in its `finally` clauses |

### WatchScheduler

The rows (`state`, `due`, `runs`, `retry`) survive a crash; `batch`, `current` and
the bridge's `registered` do not. Time is abstract: a row is due never, later,
now, or overdue beyond the grace period. `occasions`, `starts` and `streak` are
history variables for the properties.

| Actions | Code |
|---|---|
| `Tick`, `Begin`, `TickError` | `_tick()`: one read of the due rows, then row by row the advance of `next_due_at` and the start of the execution; an exception of the store drops the rest of the batch |
| `Finish` (`FinishOk`, `FinishSoftFailure`, `FinishException`, `FinishUnrecorded`) | the end of `_execute_task()` with retries, `max_runs` and the re-arming |
| `ComeDue`, `Lapse`, `OnEvent` | the passing of time, an event through the bridge |
| `Arm`, `Hold`, `StopWatch`, `Resume`, `Update`, `ManualRun` | coordinator and monitor manager; possible at every await |
| `Halt`, `Start` | stop or crash; fast-forward, default watches and client-coupled watches at the start |

### ControlSessions

`req` is the request that opens a session (device, connection, policy), an
arbitrary input. `st`, `lease` and `deviceSession` are the fields of
`NodeControlSessions`, `running` and `stopRequested` the flags of a device's bus,
`starting` and `looping` count its threads before and in their loop, `link`,
`pending` and `todo` are the connection handler. `timeouts` counts the starts that
gave up waiting for their thread.

| Actions | Code |
|---|---|
| `Receive`, `Refuse`, `OpenBegin`, `OpenFail`, `OpenEnd`, `Renew`, `Close` | requests of a connection and their handlers; the precheck of an open is an await |
| `Tick`, `Expire` | time, `_lease_watchdog()` with `_execute_comm_loss()` |
| `Drop`, `DropSession`, `HaltEnd`, `Dropped` | `on_disconnect()`: its snapshot, one session after the other, the awaited halt |
| `OpenTimeout` | `start()` gives up after 10 s with its thread spawned, and `open()` answers with an error |
| `BusStart`, `BusExit`, `OpenTransport` | the thread of such a start comes to its loop, a thread leaves its loop, a transport is opened by other users |

`OpenEnd` and `OpenTimeout` share `StartLoop`, the part of `start()` before its wait;
`OpenEnd` and `BusStart` share `Signal`, by which a thread sets `_running`.

### ToolCalls

The composition of the calls of a turn with its slot, the subagents' permits and
a re-entry. `at` is where a call is (waiting for a permit, running, asking,
waiting to re-acquire the slot), `child` the calls that delegate, `held` the
turn's `_SlotHolder.held`; `slots`/`slotq` and `permits`/`permitq` are the two
semaphores; `win` and `drained` are the re-entry. `taken`, `twins` and `late` are
history: the slots a turn took and did not give back, the turns of which two calls
were once waiting for a slot together (recorded when the second begins to wait,
whether or not it gets one), and the turns of which a deadline ended such a wait.

| Actions | Code |
|---|---|
| `Start`, `Finish` | `turn_slot()` |
| `CallTools`, `Return` | `_execute_tools_concurrent()` gathers read-only calls; each returns on its own |
| `Prompt`, `Answer` | `request_approval()` in `parked_for_human_decision()`: release, then `reacquire()`, of the holder all calls of the turn share |
| `Delegate`, `Leave` | `SubagentManager.delegate()` around its semaphore |
| `Timeout` | the deadline of a call, which stops while a human decides and runs again before the slot is re-acquired |
| `EnterWindow`, `OpenWindow`, `Nest`, `NestReturns`, `CloseWindow` | a re-entry's window with its subagent and that subagent's own delegation |
| `GrantSlot`, `GrantPermit` | asyncio's semaphores serve the oldest waiter |

### Reentry

`state`, `used`, `lapsed` and `dueq` are the trigger rows and survive a restart; the
budgets, `rate`, `allows`, `frozen` and `seen` (rate limiter, trust ledger, keys of
sent messages) do not. `pc`, `todo`, `cur` are the tick and the event handlers,
`stack`, `lockq`, `inside`, `stuck` the shared gate.

| Actions | Code |
|---|---|
| `Schedule`, `ComeDue`, `Lapse` | `_schedule_reentry()` of the engine; time |
| `Tick`, `Inbound` | `ReentryDriver.tick()`, `on_gateway_message()`, `on_hardware_event()`: one list per call |
| `Skip`, `SkipOverBudget`, `Dispatch` | one trigger of the list: `fire()` with `advance_due()`, the budget, the way to the gate |
| `EnterGate`, `RunReturns`, `RunRaises`, `CancelAtGate` | the exclusive window, the subagent, cancellation |
| `Answered`, `Sent`, `SendFails`, `CancelDelivery` | `_maybe_send()`, `_approve_and_send()`, `_do_send()` |
| `HourPasses`, `Down`, `Up` | rate window; stop or crash, and start |

The loop over a list has no await between two triggers that are not dispatched:
the model takes one step per trigger and lets no other task run in between
(`NoLoop`). The gate's behaviour with two users is the one `admission_gate` shows.

### EvidenceOutbox

`pub` and `tries` are the `publish()` calls, `queue` and `unfinished` the
`asyncio.Queue`, `writer`, `batch`, `attempt` the background task, `late` the write
threads that a timeout or a cancellation left behind, `stored` the table, `flush`
and `closing` the callers of `flush()` and `close()`.

| Actions | Code |
|---|---|
| `Put`, `BeginCritical`, `BeginFallback`, `Refuse` | `publish()`: into the queue, written at once because critical, written at once because the queue is full, refused |
| `DirectOk`, `DirectFail`, `DirectCancelled` | `_retry_write()` for one event |
| `WriterGet`, `WriterCollect`, `WriterDeadline`, `WriterOk`, `WriterFail` | `_run()`: a batch, its write with retries, `task_done()` |
| `LateCommit`, `LateFail` | a thread that was left behind ends |
| `FlushBegin`, `FlushAtOnce`, `FlushReturn`, `FlushTimeout` | `flush()` |
| `CloseAtOnce`, `CloseStop`, `FinalWrite` | `close()` and what a cancelled writer still does |

### EvidenceJobs

For one session: `head` counts the evidence rows, `fin`, `window`, `since` are the
`finalize()` that holds the lock, `orphans` the `finalize_session()` threads that a
cancelled call left behind, `status`, `created`, `owner`, `expired`, `due`, `attempts`
the job table, `worker`, `job`, `left` the teacher worker of the daemon lifetime `life`.

| Actions | Code |
|---|---|
| `AppendEvidence`, `FinalizeBegin`, `ReadThrough`, `Seal`, `FinalizeEnds` | `finalize()`: flush, the window read in two threads, one transaction, cancellation |
| `OrphanSeal`, `OrphanFails` | the thread of a cancelled call |
| `Claim`, `Idle`, `Complete`, `Fail`, `FailNotRecorded` | `run_once()` with `claim_job()`, `complete_job()`, `fail_job()` |
| `LeaseExpires`, `BackoffEnds` | time |
| `CloseWorker`, `LeftLands`, `Down`, `Up` | `close()` of the worker and the store call it leaves behind, stop or crash, restart |

## 3. Runs

Run one with `tlc -workers 2 -config <cfg> <module>`. Passing runs together fire
every action.

| Run | Config | Checks | Distinct states |
|---|---|---|---|
| `admission` | `TurnAdmission.cfg` | `TypeOK`, `PermitsConserved`, `ExclusiveAlone`, `MetricsExact`, `ImplementsContract`, `TurnsAdmitted`, `ExclusiveServed` | 21,768 |
| `engine` | `EngineTurns.cfg` | `TypeOK`, `NoConcurrentRetry`, `PendingOwned`, `OverlapOnlyByEviction`, `QueuedStartUnlessStuck` | 115,075 |
| `calls` | `ToolCalls.cfg` | `TypeOK`, `LeakOnlyByTwins`, `AloneUnlessSlotless`, `AdmittedUnlessBlocked` | 372,658 |
| `scheduler` | `WatchScheduler.cfg` | `TypeOK`, `AtMostOnce`, `GaveUpAfterRetries`, `DueServed` | 350,743 |
| `reentry` | `Reentry.cfg` | `TypeOK`, `AtMostOncePerClaim`, `BudgetKept`, `RepeatOnlyUnseen`, `DueClaimed` | 737,966 |
| `outbox` | `EvidenceOutbox.cfg` | `TypeOK`, `NeverForgotten`, `FlushComplete`, `DurableBarrier`, `CloseEnds` | 144,315 |
| `jobs` | `EvidenceJobs.cfg` | `TypeOK`, `EvidenceCovered`, `AttemptBudget`, `OverlapOnlyByOrphan`, `SettledStays`, `JobsSettle` | 667,200 |
| `control` | `ControlSessions.cfg` | `TypeOK`, `LoopOwned`, `PolicyHaltsOnce`, `AbandonedStops` | 379,572 |
| `admission_gate` | `TurnAdmissionGate.cfg` | `ExclusiveServed` is violated with two users of one gate | |
| `engine_leak` | `EngineTurnsLeak.cfg` | `SlotsReturned` is violated | |
| `scheduler_restart` | `WatchSchedulerRestart.cfg` | `RestartRestores` is violated | |
| `control_lease_halt` | `ControlSessionsHalt.cfg` | `HaltNotAbandoned` is violated | |

What the passing runs show:

- **admission**: with cancellation at every await no permit is lost or doubled, so
  the `max(0, ...)` guards of the metrics never hide a miscount; a window runs
  alone; a queued turn and a draining operation are served although parked turns
  may wait for a human forever. Only one operation uses the gate here (see
  `admission_gate`).
- **engine**: a retried request never runs beside the first, although the ledger
  is consulted only after the wait for a slot; approvals are released with their
  turn, so the backstop `prune_orphaned()` has nothing to do; turns of a session
  overlap only through an eviction of a context in use; unanswered prompts alone
  do not stop queued turns. `QueuedStartUnlessStuck` excludes exactly the two
  ways in which all slots get stuck: the loss that `engine_leak` shows and the
  waits for a session's lock (section 6).
- **calls**: a turn gives back the one slot it took, wherever deadlines pass and
  however prompts, answers and grants of its parallel calls interleave, as long as
  no two of its calls have been waiting for a slot together; only then a slot can be
  lost. A turn executes beside an exclusive window only without
  its slot, after a deadline or while a parallel call asks. Turns get their first
  slot and windows open and close although nobody answers, unless unanswered
  prompts hold all the permits the window needs, or a call asks while its sibling
  has taken the slot back, or a slot was lost.
- **scheduler**: an occasion starts a task at most once across crashes, resumes
  and edits; a task fails for good only after `max_retries + 1` failures in a
  row; a due task is picked up or put off although the store may raise.
- **reentry**: a claim in the store leads to at most one subagent and one message
  across cancellations and crashes; the budget holds although it is checked
  before and counted after the awaited run, because the gate admits one run at a
  time and two tasks that meet at it block it for good; the same content is sent
  twice in one lifetime only by two deliveries under way at once or after a send
  that failed although the message left; a due trigger is claimed or given up
  although each tick takes one, unless the gate is blocked.
- **outbox**: an event that `publish()` accepted is a row, in the writer's batch or in
  the queue of a writer that will take it, or an error reports a loss; once `close()`
  has cancelled the writer, only events accepted after `close()` began can be left in
  the queue without one. A flush that returns normally vouches for everything
  accepted before it; one that returns after `close()` cancelled the writer does so
  only for what was accepted before `close()` began, and only if `close()` does not
  raise. An event that did not go through the queue is
  a row when `publish()` returns; `close()` ends.
- **jobs**: what a `finalize()` that returned answers for is in a job; windows
  overlap only through the thread of a cancelled call; a job is graded at most
  `max_attempts` times plus once per claim that a crash or an unrecorded failure
  lost; settled jobs stay settled; no job is stranded.
- **control**: the existence check and the registration of
  a session are on two sides of an await, yet every running loop has a live
  owner, because the second start of a loop is refused; the one exception is a
  device of which a start timed out (section 6). Lease and disconnect
  never halt a device twice for one session; a session whose connection is gone
  is stopped even if another device blocks the disconnect handler forever.

Bounds:

- `TurnAdmission`: N = 2, three turns and two operations: one turn must queue, a
  drain needs two steps and can be interrupted between them, a second operation
  waits for the lock. Tasks return to idle, so behaviours are unbounded in
  length. `GateBound` = 2 is the depth of the gate's stack.
- `EngineTurns`: two slots and four calls, each made once; two share a session;
  two requests, each retried; a registry limit of 1, so that eviction by age and
  by number both happen; one dropped connection (`MaxDrops`), which can hit any
  point of any turn. The violation runs use the smallest instance that shows the
  effect.
- `WatchScheduler`: an eager built-in timer watch and an event watch of a client
  cover the start-up code for built-in and client-coupled watches and both kinds of
  trigger; `MaxRetries` = 1 lets a retry succeed, fail or be interrupted; `MaxRuns` = 3 lets the limit be reached;
  `MaxOccasions` bounds how often each becomes due (3 and 1), `MaxRestarts` the
  daemon's lives (2).
- `ToolCalls`: two turns with two calls at once and two rounds, two slots, two
  permits: a turn can have two prompts, the permits can all be taken, and the
  window needs both slots and, nested, both permits.
- `Reentry`: two time triggers, one with a deadline, and two event triggers, one of
  them used twice; three are stored before the first lifetime and one is armed
  later; a tick and two handlers; a tick takes one trigger, so that the list is cut;
  `Budget` = 2, `SendBudget` = 2, one send per hour, one approval makes a chat
  trusted; two lifetimes.
- `EvidenceOutbox`: three events, one critical, a queue of one, so that it is full
  while the writer works; batches of two; two attempts, so that an attempt is
  repeated and the last one fails.
- `EvidenceJobs`: two rows give three windows, two of which overlap the third; two
  attempts, two lifetimes, one failure that is not recorded (`StoreErrors`).
- `ControlSessions`: two sessions on two devices; one device blocks and one has an
  interlock; `Lease` = 1 tick; `MaxPending` = 1 request of a connection that waits;
  the thread of one device (`SlowStart`) may start too late, once (`MaxTimeouts`).
  One connection in `control`, whose sessions it drops together; two in
  `control_lease_halt`.

Deadlock is checked in the admission runs, where tasks come back. The other
configurations say `CHECK_DEADLOCK FALSE`: there every call, session or occasion
is used once, and a state in which all are used up is a real end.

## 4. Fairness

Nothing is assumed of users, hosts or events: they need not call, answer, renew
or leave.

- `TurnAdmission`: asyncio runs every ready task (weak fairness of `TurnResume`,
  `OpLock`, `OpResume`); a turn that runs ends or parks, and an exclusive body
  ends. Nobody has to answer a prompt.
- `EngineTurns`: weak fairness of what a task does when nothing it waits for is
  missing, including that an engine ends or asks. Strong fairness of `Admit`,
  `Lock` and `Reacquire` stands for the FIFO order of asyncio semaphores and
  locks, which `TurnAdmission` models in detail.
- `WatchScheduler`: the loop ticks, a daemon that stopped is started again, an
  execution returns (`_execute_task()` has no timeout; one that never returns
  blocks every task by design). `Begin` is strongly fair: an error of the store,
  which drops the batch, is transient.
- `ToolCalls`: a call that runs returns or its deadline passes (every tool call has
  one; it stops only while a human decides), a turn without calls ends, subagents
  without a prompt end, and the semaphores serve their oldest waiter. Nobody has to
  answer.
- `Reentry`: the tick comes again, tasks go on, a subagent returns, a daemon that
  stopped is started again, and a prompt that nobody can be asked is denied at once
  (`Ask(Ticker, FALSE)`: the tick has no route).
- `EvidenceOutbox`: the event loop runs the writer and timers fire, so that an
  attempt ends; the final write of `close()` has no timeout, that it returns is
  assumed of the store. Nothing is assumed of direct writes or late threads.
- `EvidenceJobs`: the worker polls, a grading ends, leases and back-offs run out, a
  daemon that closes goes down and one that is down comes up.
- `ControlSessions`: time passes, the event loop runs the watchdog and the
  disconnect handler, a precheck ends, `start()` returns or gives up, a thread that was told to stop
  exits. A thread that is late need never start, a
  device may take forever to halt.

## 5. Proofs

`tlapm <module>` checks a proof module; all obligations are proved (about 8,000).
The theorems hold for all values of the constants that satisfy the assumptions,
which TLC evaluates in the runs: N and the bounds are natural numbers (N, `Lease`,
`MaxPending`, `MaxSessions` positive), placeholders such as `NoTask` are outside
their sets, sets of special tasks or devices are subsets, turns and tasks whose
number is counted are finite.

| Module | Theorem | States |
|---|---|---|
| `TurnAdmissionProofs` | `TypeCorrect`, `PermitConservation`, `ExclusiveIsolation` | `[]TypeOK`, `[]PermitsConserved`, `[]ExclusiveAlone` |
| | `MetricsAreExact` | `[]MetricsExact` |
| | `NoLostWakeup` | `[]Handed`: a permit is never free while tasks wait and none has been handed one |
| | `Refinement` | `Spec => ImplementsContract` |
| `EngineTurnsProofs` | `TypeCorrect`, `RetriesExclude`, `ApprovalsOwned`, `OverlapNeedsEviction` | `[]TypeOK` (with the bound on held slots), `[]NoConcurrentRetry`, `[]PendingOwned`, `[]OverlapOnlyByEviction` |
| `WatchSchedulerProofs` | `TypeCorrect`, `StartsAtMostOnce`, `RetryBudget` | `[]TypeOK`, `[]AtMostOnce`, `GaveUpAfterRetries` |
| `ControlSessionsProofs` | `TypeCorrect`, `LoopsAreOwned`, `HaltsOnce` | `[]TypeOK`, `[]LoopOwned`, `[]PolicyHaltsOnce` |
| `EvidenceOutboxProofs` | `TypeCorrect`, `NothingForgotten`, `FlushVouches`, `BarrierDurable` | `[]TypeOK`, `[]NeverForgotten`, `[]FlushComplete`, `[]DurableBarrier` |
| `EvidenceJobsProofs` | `TypeCorrect`, `FinalizedIsCovered`, `DisjointWindows`, `ClaimBudget`, `SettledForever` | `[]TypeOK`, `[]EvidenceCovered`, `[]OverlapOnlyByOrphan`, `[]AttemptBudget`, `SettledStays` |
| `ToolCallsProofs` | `TypeCorrect`, `LeaksOnlyByTwins`, `WindowAlone` | `[]TypeOK`, `[]LeakOnlyByTwins`, `[]AloneUnlessSlotless` |
| | `Accounted` | `[](SlotsAccounted /\ PermitsAccounted)`: every slot and every permit is where a holder or the semaphore says |
| `ReentryProofs` | `TypeCorrect`, `AtMostOnce`, `BudgetIsKept`, `RepeatsOnlyUnseen` | `[]TypeOK`, `[]AtMostOncePerClaim`, `[]BudgetKept`, `[]RepeatOnlyUnseen` |

The inductive invariants:

- `TurnAdmission`: `TypeOK /\ QueueInv /\ OwnerInv /\ PermitsConserved`. Conservation
  alone is not inductive: that a release hands on at most as many permits as there
  are waiters needs that the deque has no repetitions and holds exactly the waiting
  tasks (`QueueInv`), and that closing a window returns N needs that the owner of
  the lock is the one who drained and that an open window has all N (`OwnerInv`).
  `ExclusiveAlone` follows by arithmetic: with N drained, nothing is left for a
  running turn. The refinement maps `inTurn` to the running turns and `window` to
  the owner of an open window. The lemmas are about the deque (appending,
  removing, waking a prefix) and cardinalities. `MetricsExact` and `Handed` are each
  inductive on top of it. `Handed` is what safety can say of the wake-ups behind
  `TurnsAdmitted` and `ExclusiveServed`. That every waiter is handed a free permit does
  not hold: a task that comes while a handed waiter has not run yet queues up although
  a permit is free. That waiter passes the permit on when it runs, or, cancelled, by
  the release of its own; a drain that has to wait has taken every free permit.
- `EngineTurns`: `TypeOK /\ Recorded /\ Placed /\ PendingOwned /\ Locked /\ OneContext`.
  `Recorded` says that a turn that executes is the only one of its request and that
  the ledger says running, which is what makes the later check of a retry
  sufficient; `Placed` relates handler and engine; `Locked` and `OneContext` say that
  a streaming turn owns the lock of a context of its session and that the registry
  has one context per session, hence two streaming turns with registered contexts
  cannot be of one session.
- `WatchScheduler`: `TypeOK /\ BatchHasRows /\ DownIsIdle /\ AtMostOnce /\ RetryIsStreak`.
  `AtMostOnce` carries its own strengthening (a task in the batch or due has an
  unused occasion). The stored retry count is the streak of failures, from which
  the action property follows.
- `ControlSessions`: `TypeOK /\ Threads /\ LoopOwned /\ HaltsPending`. `Threads` says
  that a device of which no start timed out has at most one thread, and that
  `_running` is set while it loops: so a stop reaches it, and a second start is refused.
  A policy that waits for its device has not
  halted it, and a session that was not abandoned owes nothing.
- `EvidenceOutbox`: `TypeOK /\ Phase /\ Counted /\ Kept /\ DurableBarrier /\ Owed /\
  Vouched /\ Served`. A flush is woken by the queue's count and not by the events
  it waits for: `Counted` says that the count is the number of events in the queue and
  in the writer's hands, `Owed` that what a waiting flush is owed is a row, queued or in
  the batch, and a row once it is woken. Both stop to hold when `close()` cancels the
  writer; `Phase` relates the writer's place to the queue, the batch and `close()`.
  `Served` is what remains then: unless `close()` has something to raise, all it began
  with is in the table. With `Kept` (an accepted event is a row, queued or in the batch,
  or a loss is reported) it gives `NeverForgotten`, and with `Vouched` (until then a
  flush that returned vouches for rows) `FlushComplete`.
- `EvidenceJobs`: `TypeOK /\ Places /\ Reading /\ Attempted /\ Chained /\ EvidenceCovered
  /\ Sealing /\ OverlapOnlyByOrphan`. Coverage needs that every window, also one that a
  thread still holds, begins where the rows before it are covered (`Chained`) and
  that `finalize()` seals at least the rows it flushed (`Reading`). Disjointness needs
  that while the lock is held only threads left behind queue windows (`Sealing`). The
  budget needs that a RUNNING job nobody works on has a claim to spare (`Attempted`):
  it lost one to a restart or to a failure that was not recorded.
- `ToolCalls`: `TypeOK /\ Places /\ Queues /\ Windowed /\ SlotsAccounted /\
  PermitsAccounted /\ Backed /\ LeakOnlyByTwins /\ Slotless /\ Lone`. `SlotsAccounted` gives
  each of the N slots one owner: nobody, the window or a turn, as many as `slots`,
  `drained` and `taken` say; `PermitsAccounted` counts the delegations that have their
  permit. `Queues` says who waits, once, and `Places` where calls of a turn can be
  together. `Lone` says that in a turn without twins at most one call waits for a slot,
  and that the turn holds none while it does: so a grant never meets a held slot. A holder that is held has a slot behind it (`Backed`), and a turn that runs
  without a held slot is late or has a call that asks or waits (`Slotless`). An open
  window has drained all N (`Windowed`), so no turn has a slot left: `WindowAlone`
  follows.
- `Reentry`: `TypeOK /\ Tasked /\ Restartable /\ Claims /\ Gated /\ Budgeted /\ Repeats`.
  `Claims` adds the dispatches under way to what was started and delivered, so that each
  has a claim of its own, also when a crash loses it. The budget is checked before a
  dispatch waits at the gate and counted after its window, so that two dispatches could
  spend its last unit. They cannot, because of the very defect of the gate that section 6
  describes: while another dispatch waits, the entry on top of the stack is not the
  runner's, its exit raises before the count, and the window stays open for good.
  `Gated` says in which order runner and waiters are on the stack, `Budgeted` that
  whoever was let in finds a unit left. `Repeats` says that a text that is not excused
  is pending once, before it leaves, and seen afterwards.

Only model-checked: the liveness properties (`TurnsAdmitted`, `ExclusiveServed`,
`AbandonedStops`, `DueServed`, `QueuedStartUnlessStuck`, `AdmittedUnlessBlocked`,
`DueClaimed`, `CloseEnds`, `JobsSettle`), since fairness and `ENABLED` are beyond the
prover. Every safety property of a passing run is a theorem. No module uses a recursive
operator.

## 6. Where code and documents disagree

The first four have a run that ends in a counterexample.

- `admission_gate`: `_ExclusiveGate.__aexit__` pops the context manager that was
  pushed last, not its own (`turn_admission.py:200`). With two concurrent users the
  first to leave exits the other's, and its own window stays open. Re-entry shares
  one gate between its tick loop, gateway events and hardware events.
- `engine_leak`: when a chunk cannot be written, the server closes the generator
  from the handler's context (`server.py:395`), where resetting a `ContextVar` raises
  before `holder.release()` (`turn_admission.py:155`): the slot, and in a stream the
  session's lock too, stay taken. A parked turn whose connection drops loses a
  slot as well: the cancelled engine re-acquires one that nobody releases.
- `scheduler_restart`: after a restart an armed event watch is unknown to the new
  bridge (`monitor_coordinator.py:421`); a row left executing is not found either.
- `control_lease_halt`: the watchdog cancels its own task while it executes the
  policy (`control_sessions.py:345`), and the halt of a device that blocks is
  abandoned.

Met while modelling, without a run; the models contain each of them:

- A turn awaits its session's lock with a slot in hand (`service.py:848`) while a
  parked turn keeps that lock, so N further turns of the session stop all other
  sessions, although `approval_coordinator.py:270` explains that a few unanswered
  prompts must not (`SlotsStuck` in `EngineTurns`).
- The registry evicts a session whose turn runs or waits
  (`session_registry.py:154`); the next turn gets a new context and lock and runs
  beside the first, although line 7 says that turns of a session serialize
  (`OverlapOnlyByEviction` allows exactly this).
- A task that is paused or stopped while it waits in the batch of a tick is executed
  all the same (`local_scheduler.py:139`); no property forbids it.
- The end of an execution arms a task that a user paused or stopped meanwhile
  (`local_scheduler.py:239`), although `coordinator.py:301` says that pausing stops it
  from firing.
- Two calls of one turn that ask at the same time both re-acquire a slot
  (`turn_admission.py:59`) when the second begins to wait before the first has it, and
  one is lost for good (`twins` in `ToolCalls`).
- The deadline of a tool call runs again before the slot is re-acquired
  (`tool_pipeline.py:124`); when it passes, the turn goes on without a slot, also
  during an exclusive window, which `turn_admission.py` promises to run "with no
  turn in flight".
- A re-entry waits for a subagent's permit inside its window while subagents that
  hold the permits wait for humans: no turn starts. With `max_concurrent` = 1 a
  re-entry whose subagent delegates waits for itself.
- A `delegate()` cancelled at its semaphore leaves its entry in `_active_meta`.
- An event put after `close()`'s flush was woken and before the writer is cancelled
  stays in the queue, and `close()` returns normally (`outbox.py:147`), although line 95
  says that events are not lost silently. `NeverForgotten` excuses exactly the events
  accepted after `close()` began.
- A writer that `close()` cancels during a write calls `task_done()` for its batch
  (`outbox.py:185`) before it repeats the write as the final one. A flush woken by it
  returns normally although its events may not be rows yet, and may never be when the
  final write fails. A flush that begins after `close()` returns at once, also with
  events left in the queue, because `_task` is gone (`outbox.py:129`). `FlushComplete`
  then vouches only for what `close()` began with, if `close()` does not raise.
- A cancelled `finalize()` leaves its transaction to a thread; the next call may
  seal a window that overlaps it (`session_finalizer.py:109`).
- A dispatch over the budget uses up the trigger's claim; budgets, trust and the
  keys of sent messages are forgotten at a restart; a refused or unroutable approval
  freezes a chat and the next allowed one unfreezes it with its old count; the rate
  allowance is used when a send is decided on, also when nothing is sent; the text of
  a cancelled subagent is delivered as its result.
- One execution of the scheduler that never returns blocks all tasks
  (`local_scheduler.py:174`); with `max_retries` 0 one producer error ends a watch
  (`manager.py:126` says "surfaced, not fatal"); `run_count` counts failed and manual
  runs too (`local_scheduler.py:233`).
- `create_control_bus()` returns the cached bus and ignores a new configuration
  (`registry.py:1543`).
- A start of a control loop that waits 10 s for its thread in vain raises with the
  thread already spawned (`control_bus.py:287`); `open()` answers
  `control_start_failed` and registers no session (`control_sessions.py:148`). When the
  thread gets there after all, the loop runs without an owner: no lease or connection
  stops it, and further opens are refused while it runs. When another open came first,
  two threads share one bus, its flags and its device: a stop reaches both, but the
  first to end clears `_running`, and the next start then clears the stop request that
  the other one may not have seen (`control_bus.py:254`). `LoopOwned` excuses exactly
  the devices of which a start timed out.
- Two opens can pass the check for an existing session (`control_sessions.py:135`)
  before either registers; `LoopOwned` shows that the loops stay owned, although
  line 88 says "One session per device at a time."
- `_running` stays set without a thread when the transport is not open
  (`control_bus.py:414`); later starts on the device are refused (in the model
  `running` is set and `looping` is 0).
- The thread halts its device on every exit (`control_bus.py:599`), also under the
  hold policy.
- A turn that is cancelled leaves its request recorded as running
  (`service.py:879`), so retries are refused from then on.
- `_active_engine_request_id` is restored to the id that was active when the turn
  began (`service.py:874`), which may be stale.
- A cancelled engine may still unwind while the next turn of its session runs.

## 7. Abstractions and what is not modelled

Messages, payloads and names are model values; wording, logging and persistence
formats are left out.

- `TurnAdmission`: what turns do while they run. That `turn_slot()` may fail in its
  own exit when closed from another context is modelled in `EngineTurns`; here a
  turn that runs ends or parks.
- `EngineTurns`: a failed record of the ledger counts as unknown, since neither is
  refused or replayed. A turn has one prompt at a time. Left out: turns without a
  session, the wait for deferred initialisation, `engine_cancel()` (a flag the
  engine polls), `shutdown()`, approvals of commands, rules and stored grants,
  live routes. The finalizer of an abandoned stream runs at once. Exclusive windows
  are not taken here; the contract's `window` is constantly closed.
- `WatchScheduler`: left out are the cloud tier, delivery of results, the execution
  log, findings and muting, parsing of trigger expressions and a change of a task's
  trigger kind, the throttle of `wake()`. Paused and suspended are one state, which
  no modelled code tells apart.
- `ToolCalls`: what tools do, the ledger of executed calls, statistics. Turns are not
  cancelled here (see `EngineTurns`); the semaphores are queues served from the
  front, without the hand-over that `TurnAdmission` has in detail.
- `Reentry`: the content of prompts and of matching rules (a trigger admits a set of
  scopes), wording of messages; `cancel()` and `cleanup()` of the store, which nothing
  calls.
- `EvidenceOutbox`: counters and latencies; a cancelled `wait_for()` raises, as since
  Python 3.12. `pyproject.toml` also allows 3.10 and 3.11, where `wait_for()` may swallow
  a cancellation that comes together with its result: the writer would then go on and
  `close()`, which awaits it, could hang. `CloseEnds` says nothing of those versions.
- `EvidenceJobs`: what the teacher answers, projections of graded facts, more than one
  worker of a store. `last_finalized_sequence()` reads at most 5000 records of finished
  windows, the oldest first (`evolution_event_store.py:655`); the model takes the largest of
  all. In a session generation with more windows than that a new one would begin too
  early and overlap earlier ones.
- `ControlSessions`: left out are `shutdown()` and `emergency_stop()`, which nothing
  calls, and the arithmetic of a control cycle.

## 8. Plan

Done, in this order: `AdmissionContract`, `TurnAdmission`, `ControlSessions`,
`WatchScheduler`, `EngineTurns`, `EvidenceOutbox`, `EvidenceJobs`, `Reentry`,
`ToolCalls`.

Every invariant, action property and refinement that a passing run checks is proved.
Theorems that could follow: that `EngineTurns` implements `AdmissionContract` in its
slots, and what safety can say of the wake-ups behind the other liveness properties.

An abstract at-most-once dispatcher, which both `Reentry` and `WatchScheduler` could
implement, is worth stating. Code that could follow: the used-permit set of
`hardware/lhp/permit.py`, session persistence of the engine.
