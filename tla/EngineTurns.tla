---------------------------- MODULE EngineTurns ----------------------------
(***************************************************************************)
(* A turn of the daemon: engine_chat() of daemon/service.py from its call  *)
(* to its end, with the request ledger, the session registry of            *)
(* daemon/session_registry.py, the pending approvals of                    *)
(* daemon/approval_coordinator.py and the streams of daemon/server.py.     *)
(*                                                                         *)
(* The handler of a turn and its engine are two asyncio tasks.  When the   *)
(* client's connection drops, the handler is cancelled or closed; it       *)
(* cancels the engine task without waiting for it and unwinds at once.     *)
(*                                                                         *)
(* Slots are taken and given back as AdmissionContract says, which         *)
(* TurnAdmission implements; a turn holds a slot while _SlotHolder.held.   *)
(***************************************************************************)
EXTENDS Naturals, FiniteSets

CONSTANTS
  N,               \* max_concurrent_turns
  Turns,           \* calls of engine_chat()
  Sessions, SessionOf,
  Requests, RequestOf,   \* a retried call has the request id of the first
  MaxSessions,     \* max_sessions of the registry
  MaxDrops,        \* bound on the connections that drop
  NoTurn, NoSession

ASSUME TurnAssumption ==
  /\ N \in Nat \ {0} /\ MaxSessions \in Nat \ {0} /\ MaxDrops \in Nat
  /\ IsFiniteSet(Turns)
  /\ SessionOf \in [Turns -> Sessions] /\ RequestOf \in [Turns -> Requests]
  /\ NoTurn \notin Turns /\ NoSession \notin Sessions

VARIABLES
  handler,    \* where engine_chat() is
  engine,     \* where the engine task is
  dying,      \* turns whose engine task was cancelled and has not ended
  held,       \* turns that hold a slot
  ledger,     \* _engine_request_ledger; a failed request counts as unknown,
              \* since neither is refused or replayed
  registry,   \* the contexts of the registry, named after the turn that made them
  primary,    \* _primary_session_id
  counter,    \* _activity_counter
  activity,   \* activity_seq of a context
  ctx,        \* the context a turn uses
  owner,      \* who holds the lock of a context
  pending,    \* turns with an entry in _approval_pending
  answered,   \* turns whose approval future has a result
  drops       \* connections that dropped

tasks == <<handler, engine, dying>>
places == <<registry, primary, counter, activity>>
sessions == <<places, ctx, owner>>
approvals == <<pending, answered>>
vars == <<tasks, held, ledger, sessions, approvals, drops>>

Slots == INSTANCE AdmissionContract
           WITH inTurn <- held, window <- NoTurn, Ops <- {}, NoOp <- NoTurn

TypeOK ==
  /\ handler \in [Turns -> {"idle", "queued", "replying", "admitted", "lockwait",
                            "streaming", "done"}]
  /\ engine \in [Turns -> {"none", "running", "parked", "reacquire", "ended"}]
  /\ dying \subseteq Turns
  /\ held \subseteq Turns /\ Cardinality(held) <= N
  /\ ledger \in [Requests -> {"unknown", "running", "completed"}]
  /\ registry \subseteq Turns
  /\ primary \in Sessions \cup {NoSession}
  /\ counter \in Nat /\ activity \in [Turns -> Nat]
  /\ ctx \in [Turns -> Turns \cup {NoTurn}]
  /\ owner \in [Turns -> Turns \cup {NoTurn}]
  /\ pending \subseteq Turns
  /\ answered \subseteq Turns
  /\ drops \in 0..MaxDrops

Init ==
  /\ handler = [t \in Turns |-> "idle"]
  /\ engine = [t \in Turns |-> "none"]
  /\ dying = {} /\ held = {}
  /\ ledger = [r \in Requests |-> "unknown"]
  /\ registry = {} /\ primary = NoSession
  /\ counter = 0 /\ activity = [t \in Turns |-> 0]
  /\ ctx = [t \in Turns |-> NoTurn]
  /\ owner = [t \in Turns |-> NoTurn]
  /\ pending = {} /\ answered = {} /\ drops = 0

Goto(t, where) == handler' = [handler EXCEPT ![t] = where]

-----------------------------------------------------------------------------
(* Admission and the request ledger                                        *)

\* engine_chat() is called and waits for a slot.
Call(t) ==
  /\ handler[t] = "idle"
  /\ Goto(t, "queued")
  /\ UNCHANGED <<engine, dying, held, ledger, sessions, approvals, drops>>

\* _prune_engine_request_ledger(): completed requests are forgotten by age
\* and size, running ones never.
Pruned(L) ==
  {[r \in Requests |-> IF r \in P THEN "unknown" ELSE L[r]] :
     P \in SUBSET {r \in Requests : L[r] = "completed"}}

\* Mutant: a running request is not recognised.
AdmitRerunsRunning(t) ==
  /\ handler[t] = "queued"
  /\ Slots!Enter(t)
  /\ \E kept \in Pruned(ledger) :
       IF kept[RequestOf[t]] = "completed"
       THEN ledger' = kept /\ Goto(t, "replying")
       ELSE /\ ledger' = [kept EXCEPT ![RequestOf[t]] = "running"]
            /\ Goto(t, "admitted")
  /\ UNCHANGED <<engine, dying, sessions, approvals, drops>>

\* The slot is taken.  A completed request is replayed, a running one is
\* refused as a duplicate and any other is recorded as running.
Admit(t) ==
  /\ handler[t] = "queued"
  /\ Slots!Enter(t)
  /\ \E kept \in Pruned(ledger) :
       IF kept[RequestOf[t]] \in {"completed", "running"}
       THEN ledger' = kept /\ Goto(t, "replying")
       ELSE /\ ledger' = [kept EXCEPT ![RequestOf[t]] = "running"]
            /\ Goto(t, "admitted")
  /\ UNCHANGED <<engine, dying, sessions, approvals, drops>>

\* The replay, or the refusal of a duplicate or of a workspace, has been sent.
Reply(t) ==
  /\ handler[t] = "replying"
  /\ Slots!Exit(t)
  /\ Goto(t, "done")
  /\ UNCHANGED <<engine, dying, ledger, sessions, approvals, drops>>

-----------------------------------------------------------------------------
(* The session registry                                                    *)

Evictable(R) == {c \in R : SessionOf[c] # primary}

\* _evict_idle(): the contexts that were idle too long are the oldest ones.
AfterIdleEviction(R) ==
  {R \ idle : idle \in {I \in SUBSET Evictable(R) :
     \A c \in I, d \in Evictable(R) : activity[d] < activity[c] => d \in I}}

\* _evict_oldest()
WithoutOldest(R) ==
  {c \in R : c \in Evictable(R) => \E d \in Evictable(R) : activity[d] < activity[c]}

\* The contexts of R that the session of t can use, at most one.
OfSession(R, t) == {c \in R : SessionOf[c] = SessionOf[t]}

\* What is left of R when a context is about to be added.
Room(R) ==
  IF primary # NoSession /\ Cardinality(R) >= MaxSessions THEN WithoutOldest(R) ELSE R

\* The first session that needs a context is the primary one.
MakePrimary(t) == primary' = IF primary = NoSession THEN SessionOf[t] ELSE primary

Seen(R) == [c \in Turns |-> IF c \in R THEN activity[c] ELSE 0]

\* acquire() of the registry returns context c to turn t and touches it.
Acquire(t, c) ==
  \E R \in AfterIdleEviction(registry) :
    LET new == IF OfSession(R, t) # {} THEN R ELSE Room(R) \cup {t}
    IN /\ c \in OfSession(new, t)
       /\ registry' = new
       /\ MakePrimary(t)
       /\ counter' = counter + 1
       /\ activity' = [Seen(new) EXCEPT ![c] = counter + 1]

\* acquire() fails: the session belongs to another workspace.
AcquireRefused(t) ==
  \E R \in AfterIdleEviction(registry) :
    /\ OfSession(R, t) # {}
    /\ registry' = R /\ activity' = Seen(R)
    /\ UNCHANGED <<primary, counter>>

\* acquire() fails: the session's engine cannot be built.
AcquireError(t) ==
  \E R \in AfterIdleEviction(registry) :
    /\ OfSession(R, t) = {}
    /\ registry' = Room(R) /\ activity' = Seen(Room(R))
    /\ MakePrimary(t)
    /\ UNCHANGED counter

\* The lock of context c can be taken without waiting.
LockFree(c) ==
  owner[c] = NoTurn /\ \A u \in Turns : ~(handler[u] = "lockwait" /\ ctx[u] = c)

\* The engine of t starts, under the lock of context c.
Stream(t, c) ==
  /\ owner' = [owner EXCEPT ![c] = t]
  /\ Goto(t, "streaming")
  /\ engine' = [engine EXCEPT ![t] = "running"]

\* Mutant: the lock of the session is not waited for.
RouteWithoutLock(t, c) ==
  /\ handler[t] = "admitted"
  /\ Acquire(t, c)
  /\ ctx' = [ctx EXCEPT ![t] = c]
  /\ Stream(t, c)
  /\ UNCHANGED <<dying, held, ledger, approvals, drops>>

\* The turn is routed to its session's context and takes or awaits its lock.
Route(t, c) ==
  /\ handler[t] = "admitted"
  /\ Acquire(t, c)
  /\ ctx' = [ctx EXCEPT ![t] = c]
  /\ IF LockFree(c)
     THEN Stream(t, c)
     ELSE Goto(t, "lockwait") /\ UNCHANGED <<owner, engine>>
  /\ UNCHANGED <<dying, held, ledger, approvals, drops>>

\* The session belongs to another workspace, by the stored conversation or by
\* the registry; the client is told.
Mismatch(t) ==
  /\ handler[t] = "admitted"
  /\ UNCHANGED places \/ AcquireRefused(t)
  /\ ledger' = [ledger EXCEPT ![RequestOf[t]] = "unknown"]
  /\ Goto(t, "replying")
  /\ UNCHANGED <<engine, dying, held, ctx, owner, approvals, drops>>

\* The configuration cannot be reloaded, or an engine cannot be built.
RouteError(t) ==
  /\ handler[t] = "admitted"
  /\ UNCHANGED places \/ AcquireError(t)
  /\ ledger' \in Pruned([ledger EXCEPT ![RequestOf[t]] = "unknown"])
  /\ Slots!Exit(t)
  /\ Goto(t, "done")
  /\ UNCHANGED <<engine, dying, ctx, owner, approvals, drops>>

\* A waiter gets the lock of its context.
Lock(t) ==
  /\ handler[t] = "lockwait" /\ owner[ctx[t]] = NoTurn
  /\ Stream(t, ctx[t])
  /\ UNCHANGED <<dying, held, ledger, places, ctx, approvals, drops>>

-----------------------------------------------------------------------------
(* The engine and its approvals                                            *)

\* Mutant: a turn that waits for a human keeps its slot.
AskKeepsSlot(t) ==
  /\ engine[t] = "running" /\ t \notin dying
  /\ engine' = [engine EXCEPT ![t] = "parked"]
  /\ pending' = pending \cup {t}
  /\ UNCHANGED <<handler, dying, held, ledger, sessions, answered, drops>>

\* request_approval(): the prompt is sent, the slot handed back.
Ask(t) ==
  /\ engine[t] = "running" /\ t \notin dying
  /\ engine' = [engine EXCEPT ![t] = "parked"]
  /\ pending' = pending \cup {t}
  /\ Slots!Exit(t)
  /\ UNCHANGED <<handler, dying, ledger, sessions, answered, drops>>

\* resolve(): the user answers; a prompt that is gone cannot be answered.
Answer(t) ==
  /\ t \in pending \ answered
  /\ answered' = answered \cup {t}
  /\ UNCHANGED <<tasks, held, ledger, sessions, pending, drops>>

\* The await of the future ends, by the answer or by the cancellation, and
\* parked_for_human_decision() asks for a slot again in either case.
Wake(t) ==
  /\ engine[t] = "parked" /\ (t \in answered \/ t \in dying)
  /\ engine' = [engine EXCEPT ![t] = "reacquire"]
  /\ UNCHANGED <<handler, dying, held, ledger, sessions, approvals, drops>>

\* Mutant: the turn goes on without a slot of the semaphore.
ReacquireAtOnce(t) ==
  /\ engine[t] = "reacquire"
  /\ held' = held \cup {t}
  /\ engine' = [engine EXCEPT ![t] = IF t \in dying THEN "ended" ELSE "running"]
  /\ dying' = dying \ {t}
  /\ pending' = pending \ {t} /\ answered' = answered \ {t}
  /\ UNCHANGED <<handler, ledger, sessions, drops>>

\* It gets the slot; a cancelled engine then unwinds.
Reacquire(t) ==
  /\ engine[t] = "reacquire"
  /\ Slots!Enter(t)
  /\ engine' = [engine EXCEPT ![t] = IF t \in dying THEN "ended" ELSE "running"]
  /\ dying' = dying \ {t}
  /\ pending' = pending \ {t} /\ answered' = answered \ {t}
  /\ UNCHANGED <<handler, ledger, sessions, drops>>

\* A cancelled engine that was running unwinds.
Unwind(t) ==
  /\ engine[t] = "running" /\ t \in dying
  /\ engine' = [engine EXCEPT ![t] = "ended"]
  /\ dying' = dying \ {t}
  /\ UNCHANGED <<handler, held, ledger, sessions, approvals, drops>>

-----------------------------------------------------------------------------
(* The end of a turn                                                       *)

\* The finally clauses of engine_chat() and of turn_slot().
Leave(t) ==
  /\ Goto(t, "done")
  /\ held' = held \ {t}
  /\ pending' = pending \ {t} /\ answered' = answered \ {t}
  /\ ctx' = [ctx EXCEPT ![t] = NoTurn]
  /\ owner' = [c \in Turns |-> IF owner[c] = t THEN NoTurn ELSE owner[c]]

\* The engine's stream ends, normally or by an exception.
End(t, status) ==
  /\ engine[t] = "running" /\ t \notin dying
  /\ engine' = [engine EXCEPT ![t] = "ended"]
  /\ ledger' \in Pruned([ledger EXCEPT ![RequestOf[t]] = status])
  /\ Leave(t)
  /\ UNCHANGED <<dying, places, drops>>

\* The stream of the engine is closed: an engine that waits for a slot is
\* cancelled in that wait, any other engine unwinds later.
CloseStream(t) ==
  /\ IF engine[t] \in {"running", "parked"}
     THEN dying' = dying \cup {t} /\ UNCHANGED engine
     ELSE /\ engine' = [engine EXCEPT ![t] = IF @ = "none" THEN @ ELSE "ended"]
          /\ UNCHANGED dying

\* Mutant: the approvals of a stream that is closed are kept.
DropWaitingKeepsPending(t) ==
  /\ handler[t] \in {"queued", "lockwait", "streaming"} /\ drops < MaxDrops
  /\ drops' = drops + 1
  /\ Goto(t, "done")
  /\ held' = held \ {t}
  /\ ctx' = [ctx EXCEPT ![t] = NoTurn]
  /\ owner' = [c \in Turns |-> IF owner[c] = t THEN NoTurn ELSE owner[c]]
  /\ CloseStream(t)
  /\ UNCHANGED <<ledger, places, approvals>>

\* A heartbeat cannot be written: the handler is cancelled where it waits and
\* runs its finally clauses.  The record of its request stays as it is.
DropWaiting(t) ==
  /\ handler[t] \in {"queued", "lockwait", "streaming"} /\ drops < MaxDrops
  /\ drops' = drops + 1
  /\ Leave(t)
  /\ CloseStream(t)
  /\ UNCHANGED <<ledger, places>>

\* A chunk cannot be written: the handler is suspended in a yield, and
\* _dispatch_stream() closes it from a context of its own, in which neither
\* _approval_route nor _current_slot can be reset.  The finally clauses end
\* there, before the session's lock and the slot are given back.  The engine's
\* stream is closed by the event loop's finalizer, here at once.
DropWriting(t) ==
  /\ handler[t] \in {"replying", "admitted", "streaming"} /\ drops < MaxDrops
  /\ drops' = drops + 1
  /\ Goto(t, "done")
  /\ ctx' = [ctx EXCEPT ![t] = NoTurn]
  /\ IF handler[t] = "streaming"
     THEN ledger' \in Pruned([ledger EXCEPT ![RequestOf[t]] = "unknown"])
     ELSE UNCHANGED ledger
  /\ pending' = pending \ {t} /\ answered' = answered \ {t}
  /\ CloseStream(t)
  /\ UNCHANGED <<held, places, owner>>

-----------------------------------------------------------------------------
TurnStep(t) ==
  \/ Call(t) \/ Admit(t) \/ Reply(t) \/ Mismatch(t) \/ RouteError(t) \/ Lock(t)
  \/ \E c \in Turns : Route(t, c)
  \/ Ask(t) \/ Answer(t) \/ Wake(t) \/ Reacquire(t) \/ Unwind(t)
  \/ \E status \in {"completed", "unknown"} : End(t, status)
  \/ DropWaiting(t) \/ DropWriting(t)

Next == \E t \in Turns : TurnStep(t)

\* What a task of t does next when nothing it waits for is missing.
Proceed(t) ==
  \/ Reply(t) \/ Mismatch(t) \/ RouteError(t) \/ \E c \in Turns : Route(t, c)
  \/ Ask(t) \/ \E status \in {"completed", "unknown"} : End(t, status)
  \/ Wake(t) \/ Unwind(t)

\* A task that can run does, and an engine ends or asks.  The semaphore and
\* the locks serve their waiters in order: a turn whose turn it could be again
\* and again is not passed over forever.  Actions that one formula joins and
\* that are possible together are alternatives of one step.  Nothing makes a
\* user call, answer or leave.
Fairness ==
  \A t \in Turns :
    /\ WF_vars(Proceed(t))
    /\ SF_vars(Admit(t) \/ Lock(t) \/ Reacquire(t))

Spec == Init /\ [][Next]_vars
FairSpec == Spec /\ Fairness

-----------------------------------------------------------------------------
(* Properties                                                              *)

Streaming == {t \in Turns : handler[t] = "streaming"}

\* A request id that a client retries on another connection is never executed
\* by two turns at once, although the ledger is looked at after the wait for a
\* slot and forgets finished requests.
NoConcurrentRetry ==
  \A t, u \in Streaming : t # u => RequestOf[t] # RequestOf[u]

\* "Released by liveness": the pending approvals are those of turns that still
\* stream and whose engine waits for the answer or for its slot, so that the
\* backstop prune_orphaned() never has anything to do.
PendingOwned ==
  /\ pending \subseteq Streaming
  /\ \A t \in Streaming : t \in pending <=> engine[t] \in {"parked", "reacquire"}

\* Two turns of one session stream at the same time only when the registry
\* evicted a context that was in use.
OverlapOnlyByEviction ==
  \A t, u \in Streaming :
    t # u /\ SessionOf[t] = SessionOf[u] => ~({ctx[t], ctx[u]} \subseteq registry)

\* All slots are held by turns that ended or that wait for a session's lock.
SlotsStuck ==
  Cardinality(held) = N /\ \A t \in held : handler[t] \in {"done", "lockwait"}

\* "Human think-time is unbounded": a queued turn gets its slot although users
\* never answer their prompts, unless all slots are stuck for good: held by
\* turns that ended (SlotsReturned below) or by turns that wait for the lock of
\* a session whose turn waits for a human.
QueuedStartUnlessStuck ==
  <>[]SlotsStuck \/ \A t \in Turns : (handler[t] = "queued") ~> (handler[t] # "queued")

\* turn_slot() releases what is still held: a turn that ended holds no slot.
SlotsReturned == \A t \in held : handler[t] # "done"
=============================================================================
