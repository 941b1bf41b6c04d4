--------------------------- MODULE TurnAdmission ---------------------------
(***************************************************************************)
(* The daemon's admission controller (daemon/turn_admission.py).           *)
(*                                                                         *)
(* Up to N agent turns run at once.  A turn that waits for a human gives   *)
(* its slot back and re-acquires it afterwards.  An exclusive operation    *)
(* takes the exclusive lock and then drains all N slots.  Some exclusive   *)
(* operations go through one shared _ExclusiveGate, whose __aexit__ pops   *)
(* the most recently pushed context manager.                               *)
(*                                                                         *)
(* asyncio runs one task at a time and switches only at an await that      *)
(* blocks, so an action is everything a task does between two blocking     *)
(* awaits.  Which ready task runs next is left open.                       *)
(***************************************************************************)
EXTENDS Integers, FiniteSets, Sequences, SequencesExt

CONSTANTS
  N,          \* max_concurrent_turns, at least 1
  Turns,      \* agent turns; a turn that ended may be started again
  Ops,        \* exclusive operations (host restart, re-entry dispatch, ...)
  GateOps,    \* the operations that use the shared _ExclusiveGate
  GateBound,  \* bound on the gate's stack in the model
  NoOp        \* the exclusive lock is free

ASSUME NAssumption == N \in Nat \ {0}
ASSUME TaskAssumption ==
  /\ IsFiniteSet(Turns) /\ IsFiniteSet(Ops)
  /\ Turns \cap Ops = {}
  /\ GateOps \subseteq Ops
  /\ NoOp \notin Ops
ASSUME GateBoundAssumption == GateBound \in Nat

Tasks == Turns \cup Ops

VARIABLES
  pc,           \* where each task is
  unwinding,    \* turns cancelled while parked: they may only finish
  value,        \* asyncio.Semaphore._value
  waiters,      \* asyncio.Semaphore._waiters, oldest first
  granted,      \* waiters whose future has a result but that have not run yet
  owner,        \* the operation that holds _exclusive_lock
  lockq,        \* waiters of _exclusive_lock, oldest first
  acquired,     \* the owner's count of drained slots
  gate,         \* _ExclusiveGate._stack: the operations that pushed
  slotsInUse, activeTurns, waitingTurns, parkedTurns  \* the runtime metrics

semVars == <<value, waiters, granted>>
lockVars == <<owner, lockq, acquired, gate>>
counters == <<slotsInUse, activeTurns, waitingTurns, parkedTurns>>
vars == <<pc, unwinding, semVars, lockVars, counters>>

TypeOK ==
  /\ pc \in [Tasks -> {"idle", "waiting", "running", "parked",
                       "lockwait", "body", "leaked"}]
  /\ \A t \in Turns : pc[t] \in {"idle", "waiting", "running", "parked"}
  /\ \A o \in Ops : pc[o] \in {"idle", "lockwait", "waiting", "body", "leaked"}
  /\ unwinding \subseteq Turns
  /\ value \in 0..N
  /\ waiters \in Seq(Tasks)
  /\ granted \subseteq Tasks
  /\ owner \in Ops \cup {NoOp}
  /\ lockq \in Seq(Ops)
  /\ acquired \in 0..N
  /\ gate \in Seq(GateOps)
  /\ slotsInUse \in Nat /\ activeTurns \in Nat
  /\ waitingTurns \in Nat /\ parkedTurns \in Nat

Init ==
  /\ pc = [t \in Tasks |-> "idle"]
  /\ unwinding = {}
  /\ value = N /\ waiters = <<>> /\ granted = {}
  /\ owner = NoOp /\ lockq = <<>> /\ acquired = 0 /\ gate = <<>>
  /\ slotsInUse = 0 /\ activeTurns = 0 /\ waitingTurns = 0 /\ parkedTurns = 0

-----------------------------------------------------------------------------
(* asyncio.Semaphore                                                       *)

Smaller(a, b) == IF a < b THEN a ELSE b

\* max(0, x - k)
Less(x, k) == IF x > k THEN x - k ELSE 0

\* Semaphore.locked(): waiters that were granted but have not run count too.
SemLocked == value = 0 \/ waiters # <<>>

Before(q, x, y) ==
  \E i, j \in DOMAIN q : i < j /\ q[i] = x /\ q[j] = y

\* The waiters that k calls of _wake_up_next() complete, given the queue q
\* and the waiters g that were completed before: the k oldest pending ones.
Woken(k, q, g) ==
  LET pending == ToSet(q) \ g
  IN {G \in SUBSET pending :
        /\ Cardinality(G) = Smaller(k, Cardinality(pending))
        /\ \A x \in G, y \in pending \ G : Before(q, x, y)}

\* k calls of release(), the queue and the completed waiters being q and g.
SemRelease(k, q, g) ==
  \E G \in Woken(k, q, g) :
    /\ waiters' = q
    /\ granted' = g \cup G
    /\ value' = value + k - Cardinality(G)

\* acquire() ends with one more _wake_up_next() when a permit is free.
Spare == IF value > 0 THEN 1 ELSE 0

\* The waiter t leaves the deque (there is one such queue).
QueuesWithout(t) ==
  {RemoveAt(waiters, i) : i \in {j \in DOMAIN waiters : waiters[j] = t}}

-----------------------------------------------------------------------------
(* Turns                                                                   *)

\* _acquire_slot() up to the point where it blocks or returns.
AcquireSlot(t) ==
  IF SemLocked
  THEN /\ waitingTurns' = waitingTurns + 1
       /\ waiters' = Append(waiters, t)
       /\ pc' = [pc EXCEPT ![t] = "waiting"]
       /\ UNCHANGED <<value, granted, slotsInUse, activeTurns>>
  ELSE /\ value' = value - 1
       /\ slotsInUse' = slotsInUse + 1
       /\ activeTurns' = activeTurns + 1
       /\ pc' = [pc EXCEPT ![t] = "running"]
       /\ UNCHANGED <<waiters, granted, waitingTurns>>

\* Mutant: the semaphore is released twice.
ReleaseSlotTwice ==
  /\ activeTurns' = Less(activeTurns, 1)
  /\ slotsInUse' = Less(slotsInUse, 1)
  /\ SemRelease(2, waiters, granted)

\* _release_slot()
ReleaseSlot ==
  /\ activeTurns' = Less(activeTurns, 1)
  /\ slotsInUse' = Less(slotsInUse, 1)
  /\ SemRelease(1, waiters, granted)

\* turn_slot() is entered.
TurnStart(t) ==
  /\ pc[t] = "idle"
  /\ AcquireSlot(t)
  /\ UNCHANGED <<unwinding, lockVars, parkedTurns>>

\* A turn whose permit was handed over runs again: the second half of
\* Semaphore.acquire() and of _acquire_slot().
TurnResume(t) ==
  /\ pc[t] = "waiting" /\ t \in granted
  /\ \E q \in QueuesWithout(t) :
       \E G \in Woken(Spare, q, granted \ {t}) :
         /\ waiters' = q
         /\ granted' = (granted \ {t}) \cup G
         /\ value' = value - Cardinality(G)
  /\ waitingTurns' = Less(waitingTurns, 1)
  /\ slotsInUse' = slotsInUse + 1
  /\ activeTurns' = activeTurns + 1
  /\ pc' = [pc EXCEPT ![t] = "running"]
  /\ UNCHANGED <<unwinding, lockVars, parkedTurns>>

\* The body of turn_slot() ends, normally or by an exception.
TurnFinish(t) ==
  /\ pc[t] = "running"
  /\ ReleaseSlot
  /\ pc' = [pc EXCEPT ![t] = "idle"]
  /\ unwinding' = unwinding \ {t}
  /\ UNCHANGED <<lockVars, waitingTurns, parkedTurns>>

\* Mutant: a turn that waits for a human keeps its slot.
TurnParkKeepsSlot(t) ==
  /\ pc[t] = "running" /\ t \notin unwinding
  /\ parkedTurns' = parkedTurns + 1
  /\ pc' = [pc EXCEPT ![t] = "parked"]
  /\ UNCHANGED <<unwinding, semVars, lockVars, slotsInUse, activeTurns, waitingTurns>>

\* parked_for_human_decision() is entered.
TurnPark(t) ==
  /\ pc[t] = "running" /\ t \notin unwinding
  /\ ReleaseSlot
  /\ parkedTurns' = parkedTurns + 1
  /\ pc' = [pc EXCEPT ![t] = "parked"]
  /\ UNCHANGED <<unwinding, lockVars, waitingTurns>>

\* Mutant: a turn goes on after the human's answer without a slot.
TurnUnparkNoReacquire(t, cancelled) ==
  /\ pc[t] = "parked"
  /\ parkedTurns' = Less(parkedTurns, 1)
  /\ pc' = [pc EXCEPT ![t] = "running"]
  /\ unwinding' = IF cancelled THEN unwinding \cup {t} ELSE unwinding
  /\ UNCHANGED <<semVars, lockVars, slotsInUse, activeTurns, waitingTurns>>

\* parked_for_human_decision() is left, because the decision arrived or
\* because the parked turn was cancelled.  Its finally clause re-acquires a
\* slot in both cases; a cancelled turn then unwinds.
TurnUnpark(t, cancelled) ==
  /\ pc[t] = "parked"
  /\ parkedTurns' = Less(parkedTurns, 1)
  /\ AcquireSlot(t)
  /\ unwinding' = IF cancelled THEN unwinding \cup {t} ELSE unwinding
  /\ UNCHANGED lockVars

\* Mutant: without _SlotHolder.held, turn_slot() releases on exit a slot that
\* the cancelled turn does not own.
TurnCancelWaitingReleases(t) ==
  /\ pc[t] = "waiting"
  /\ \E q \in QueuesWithout(t) :
       SemRelease(IF t \in granted THEN 2 ELSE 1, q, granted \ {t})
  /\ waitingTurns' = Less(waitingTurns, 1)
  /\ activeTurns' = Less(activeTurns, 1)
  /\ slotsInUse' = Less(slotsInUse, 1)
  /\ pc' = [pc EXCEPT ![t] = "idle"]
  /\ unwinding' = unwinding \ {t}
  /\ UNCHANGED <<lockVars, parkedTurns>>

\* Mutant: the waiting counter is not restored in a finally clause.
TurnCancelWaitingMiscounts(t) ==
  /\ pc[t] = "waiting"
  /\ \E q \in QueuesWithout(t) :
       SemRelease(IF t \in granted THEN 1 ELSE 0, q, granted \ {t})
  /\ pc' = [pc EXCEPT ![t] = "idle"]
  /\ unwinding' = unwinding \ {t}
  /\ UNCHANGED <<lockVars, counters>>

\* Mutant: a cancelled waiter keeps the permit it was handed.
TurnCancelWaitingLosesPermit(t) ==
  /\ pc[t] = "waiting"
  /\ \E q \in QueuesWithout(t) : SemRelease(0, q, granted \ {t})
  /\ waitingTurns' = Less(waitingTurns, 1)
  /\ pc' = [pc EXCEPT ![t] = "idle"]
  /\ unwinding' = unwinding \ {t}
  /\ UNCHANGED <<lockVars, slotsInUse, activeTurns, parkedTurns>>

\* A turn that waits for its first slot, or to re-acquire one, is cancelled.
\* It ends without a slot.  A permit it was handed goes to the next waiter.
\* (A re-acquisition that only the deadline of a tool ends leaves the turn
\* running without a slot: see ToolCalls.)
TurnCancelWaiting(t) ==
  /\ pc[t] = "waiting"
  /\ \E q \in QueuesWithout(t) :
       SemRelease(IF t \in granted THEN 1 ELSE 0, q, granted \ {t})
  /\ waitingTurns' = Less(waitingTurns, 1)
  /\ pc' = [pc EXCEPT ![t] = "idle"]
  /\ unwinding' = unwinding \ {t}
  /\ UNCHANGED <<lockVars, slotsInUse, activeTurns, parkedTurns>>

-----------------------------------------------------------------------------
(* Exclusive operations                                                    *)

\* Mutant: the drain loop stops one slot early.
DrainAllButOne(o, val, acq, q) ==
  LET k == IF q = <<>> THEN Smaller(val, N - 1 - acq) ELSE 0
      full == acq + k >= N - 1
  IN /\ value' = val - k
     /\ acquired' = acq + k
     /\ slotsInUse' = slotsInUse + (acq + k - acquired)
     /\ waiters' = IF full THEN q ELSE Append(q, o)
     /\ pc' = [pc EXCEPT ![o] = IF full THEN "body" ELSE "waiting"]

\* The drain loop of exclusive(): with val free permits, queue q and acq
\* slots drained so far, take permits until none can be had at once.
Drain(o, val, acq, q) ==
  LET k == IF q = <<>> THEN Smaller(val, N - acq) ELSE 0
      full == acq + k = N
  IN /\ value' = val - k
     /\ acquired' = acq + k
     /\ slotsInUse' = slotsInUse + (acq + k - acquired)
     /\ waiters' = IF full THEN q ELSE Append(q, o)
     /\ pc' = [pc EXCEPT ![o] = IF full THEN "body" ELSE "waiting"]

\* exclusive(), or _ExclusiveGate.__aenter__, is called.
OpEnter(o) ==
  /\ pc[o] = "idle"
  /\ IF o \in GateOps
     THEN Len(gate) < GateBound /\ gate' = Append(gate, o)
     ELSE UNCHANGED gate
  /\ IF owner = NoOp /\ lockq = <<>>
     THEN /\ owner' = o
          /\ Drain(o, value, 0, waiters)
          /\ UNCHANGED <<lockq, granted>>
     ELSE /\ lockq' = Append(lockq, o)
          /\ pc' = [pc EXCEPT ![o] = "lockwait"]
          /\ UNCHANGED <<owner, acquired, semVars, slotsInUse>>
  /\ UNCHANGED <<unwinding, activeTurns, waitingTurns, parkedTurns>>

\* The oldest waiter of the free exclusive lock takes it and drains.
OpLock(o) ==
  /\ pc[o] = "lockwait"
  /\ owner = NoOp /\ lockq # <<>> /\ Head(lockq) = o
  /\ lockq' = Tail(lockq)
  /\ owner' = o
  /\ Drain(o, value, 0, waiters)
  /\ UNCHANGED <<granted, gate, unwinding, activeTurns, waitingTurns, parkedTurns>>

\* A draining operation that was handed a permit goes on with its loop.
OpResume(o) ==
  /\ pc[o] = "waiting" /\ o \in granted
  /\ \E q \in QueuesWithout(o) :
       \E G \in Woken(Spare, q, granted \ {o}) :
         /\ granted' = (granted \ {o}) \cup G
         /\ Drain(o, value - Cardinality(G), acquired + 1, q)
  /\ UNCHANGED <<owner, lockq, gate, unwinding, activeTurns, waitingTurns, parkedTurns>>

\* The finally clause of exclusive() and the release of the exclusive lock;
\* extra permits, the queue and the completed waiters as in SemRelease.
CloseWindow(o, extra, q, g) ==
  /\ SemRelease(acquired + extra, q, g)
  /\ slotsInUse' = Less(slotsInUse, acquired)
  /\ acquired' = 0
  /\ owner' = NoOp
  /\ pc' = [pc EXCEPT ![o] = "idle"]
  /\ UNCHANGED <<unwinding, activeTurns, waitingTurns, parkedTurns>>

\* The body of an exclusive window ends.  Through the gate, __aexit__ exits
\* the context manager on top of the stack; when that is not the one this
\* operation entered (it is being entered by another task, or its entry was
\* cancelled), this operation's own window is never closed.
OpExit(o) ==
  /\ pc[o] = "body"
  /\ lockq' = lockq
  /\ IF o \in GateOps
     THEN /\ gate' = Front(gate)
          /\ IF Last(gate) = o
             THEN CloseWindow(o, 0, waiters, granted)
             ELSE /\ pc' = [pc EXCEPT ![o] = "leaked"]
                  /\ UNCHANGED <<unwinding, semVars, owner, acquired, counters>>
     ELSE gate' = gate /\ CloseWindow(o, 0, waiters, granted)

\* A draining operation is cancelled: a permit it was handed and the slots it
\* drained go back.  The gate's stack keeps the entry.
OpCancelDrain(o) ==
  /\ pc[o] = "waiting"
  /\ \E q \in QueuesWithout(o) :
       CloseWindow(o, IF o \in granted THEN 1 ELSE 0, q, granted \ {o})
  /\ UNCHANGED <<lockq, gate>>

\* An operation that waits for the exclusive lock is cancelled.
OpCancelLock(o) ==
  /\ pc[o] = "lockwait"
  /\ \E i \in DOMAIN lockq : lockq[i] = o /\ lockq' = RemoveAt(lockq, i)
  /\ pc' = [pc EXCEPT ![o] = "idle"]
  /\ UNCHANGED <<unwinding, semVars, owner, acquired, gate, counters>>

-----------------------------------------------------------------------------
TurnStep(t) ==
  \/ TurnStart(t) \/ TurnResume(t) \/ TurnFinish(t) \/ TurnPark(t)
  \/ \E cancelled \in BOOLEAN : TurnUnpark(t, cancelled)
  \/ TurnCancelWaiting(t)

OpStep(o) ==
  \/ OpEnter(o) \/ OpLock(o) \/ OpResume(o) \/ OpExit(o)
  \/ OpCancelDrain(o) \/ OpCancelLock(o)

Next == (\E t \in Turns : TurnStep(t)) \/ (\E o \in Ops : OpStep(o))

\* A ready task eventually runs, and a turn or an exclusive body that runs
\* eventually ends or parks.  Nothing makes a human answer, and nothing makes
\* new turns or operations arrive or be cancelled.
Fairness ==
  /\ \A t \in Turns : /\ WF_vars(TurnResume(t))
                      /\ WF_vars(TurnFinish(t) \/ TurnPark(t))
  /\ \A o \in Ops : /\ WF_vars(OpLock(o))
                    /\ WF_vars(OpResume(o))
                    /\ WF_vars(OpExit(o))

Spec == Init /\ [][Next]_vars
FairSpec == Spec /\ Fairness

-----------------------------------------------------------------------------
(* Properties                                                              *)

Running == {t \in Turns : pc[t] = "running"}
InWindow == {o \in Ops : pc[o] \in {"body", "leaked"}}

\* Permits are conserved: the free permits, those handed to waiters that have
\* not run, those held by running turns and the drained ones make N.  In
\* particular a turn cancelled while parked never gives back a slot twice
\* (the reason for _SlotHolder.held).
PermitsConserved ==
  value + Cardinality(granted) + Cardinality(Running) + acquired = N

\* exclusive() runs its body with no turn in flight and one window at a time.
ExclusiveAlone ==
  InWindow # {} => Running = {} /\ Cardinality(InWindow) = 1

\* The metrics of snapshot() are exact, so that their max(0, ...) guards never
\* hide a miscount.
MetricsExact ==
  /\ activeTurns = Cardinality(Running)
  /\ slotsInUse = Cardinality(Running) + acquired
  /\ waitingTurns = Cardinality({t \in Turns : pc[t] = "waiting"})
  /\ parkedTurns = Cardinality({t \in Turns : pc[t] = "parked"})

\* The controller implements its contract: a turn that runs was admitted below
\* the bound with no window open, and a window opened with no turn in flight.
Window == IF InWindow = {} THEN NoOp ELSE owner
Contract == INSTANCE AdmissionContract WITH inTurn <- Running, window <- Window
ImplementsContract == Contract!Spec

\* A queued turn, first-time or re-acquiring after a human decision, leaves
\* the queue, however many turns and windows come after it.
TurnsAdmitted == \A t \in Turns : pc[t] = "waiting" ~> pc[t] # "waiting"

\* "Concurrent exclusive ops are serialized (no drain deadlock)": an exclusive
\* operation gets its window (or is cancelled) even if every parked turn
\* waits for a human forever.
ExclusiveServed ==
  \A o \in Ops : pc[o] \in {"lockwait", "waiting"} ~> pc[o] \in {"body", "idle"}
=============================================================================
