------------------------- MODULE EngineTurnsProofs -------------------------
(***************************************************************************)
(* Proofs about EngineTurns, for any slots, calls, sessions, requests and  *)
(* dropped connections: types and the bound on slots, the request ledger,  *)
(* the pending approvals and the session locks.                            *)
(*                                                                         *)
(* None of the properties is inductive by itself.  That a retry does not   *)
(* run twice rests on the record that every turn past the ledger keeps     *)
(* (Recorded); that approvals are released rests on where the two tasks of *)
(* a turn can be at the same time (Placed); that turns of one session      *)
(* overlap only by an eviction rests on who holds which lock (Locked) and  *)
(* on the registry's one context per session (OneContext).                 *)
(***************************************************************************)
EXTENDS EngineTurns, FiniteSetTheorems, TLAPS

\* The turn is past the request ledger and has not ended.
Executing(t) == handler[t] \in {"admitted", "lockwait", "streaming"}

\* The request of an executing turn is recorded as running, and no other
\* executing turn has it.
Recorded ==
  \A t \in Turns : Executing(t) =>
    /\ ledger[RequestOf[t]] = "running"
    /\ \A u \in Turns : Executing(u) /\ RequestOf[u] = RequestOf[t] => u = t

\* The engine lives while the handler streams; after that only a cancelled
\* engine still has something to do.
Placed ==
  \A t \in Turns :
    /\ handler[t] = "streaming" =>
         engine[t] \in {"running", "parked", "reacquire"}
    /\ handler[t] \notin {"streaming", "done"} => engine[t] = "none"
    /\ handler[t] = "done" /\ t \notin dying => engine[t] \in {"none", "ended"}
    /\ t \in dying => handler[t] = "done"

\* A routed turn uses a context of its session, and holds its lock when it
\* streams.
Locked ==
  \A t \in Turns :
    /\ handler[t] \in {"lockwait", "streaming"} =>
         ctx[t] \in Turns /\ SessionOf[ctx[t]] = SessionOf[t]
    /\ handler[t] = "streaming" => owner[ctx[t]] = t

\* The registry has one context for a session.
OneContext == \A c, d \in registry : SessionOf[c] = SessionOf[d] => c = d

IInv == TypeOK /\ Recorded /\ Placed /\ PendingOwned /\ Locked /\ OneContext

\* Taking a slot keeps within max_concurrent_turns.
LEMMA SlotTaken ==
  ASSUME held \subseteq Turns, Cardinality(held) <= N, NEW t \in Turns, Slots!Enter(t)
  PROVE  held' \subseteq Turns /\ Cardinality(held') <= N
<1>1. IsFiniteSet(held)
  BY TurnAssumption, FS_Subset
<1>2. Cardinality(held \cup {t}) = Cardinality(held) + 1 /\ Cardinality(held) \in Nat
  BY <1>1, FS_AddElement, FS_CardinalityType DEF Slots!Enter
<1>3. held' = held \cup {t}
  BY DEF Slots!Enter
<1>4. Cardinality(held) < N
  BY Zenon DEF Slots!Enter, Slots!Cardinality, Cardinality
<1> QED
  BY <1>2, <1>3, <1>4, TurnAssumption

\* Giving a slot back keeps within max_concurrent_turns.
LEMMA SlotLeft ==
  ASSUME held \subseteq Turns, Cardinality(held) <= N, NEW t, held' = held \ {t}
  PROVE  held' \subseteq Turns /\ Cardinality(held') <= N
<1>1. IsFiniteSet(held)
  BY TurnAssumption, FS_Subset
<1>2. /\ Cardinality(held \ {t}) <= Cardinality(held)
      /\ Cardinality(held \ {t}) \in Nat /\ Cardinality(held) \in Nat
  BY <1>1, FS_Subset, FS_CardinalityType
<1> QED
  BY <1>2, TurnAssumption

\* Pruning the ledger leaves its type and its running requests alone, and
\* makes no request running.
LEMMA PrunedLedger ==
  ASSUME NEW L \in [Requests -> {"unknown", "running", "completed"}],
         NEW K \in Pruned(L)
  PROVE  /\ K \in [Requests -> {"unknown", "running", "completed"}]
         /\ \A r \in Requests : K[r] = "running" <=> L[r] = "running"
BY DEF Pruned

\* Evictions only take contexts away.
LEMMA Evicted ==
  ASSUME TypeOK, NEW R \in AfterIdleEviction(registry)
  PROVE  /\ Room(R) \subseteq R /\ R \subseteq registry
         /\ \A S : Seen(S) \in [Turns -> Nat]
<1>1. R \subseteq registry
  BY DEF AfterIdleEviction
<1>2. WithoutOldest(R) \subseteq R
  BY DEF WithoutOldest
<1>3. Room(R) \subseteq R
  BY <1>2 DEF Room
<1>4. \A S : Seen(S) \in [Turns -> Nat]
  BY DEF Seen, TypeOK
<1> QED
  BY <1>1, <1>3, <1>4

\* A session becomes the primary one or none does.
LEMMA PrimaryMade ==
  ASSUME TypeOK, NEW t \in Turns, MakePrimary(t)
  PROVE  primary' \in Sessions \cup {NoSession}
BY TurnAssumption DEF MakePrimary, TypeOK

\* What acquire() of the registry returns and leaves.
LEMMA Acquired ==
  ASSUME TypeOK, OneContext, NEW t \in Turns, NEW c \in Turns, Acquire(t, c)
  PROVE  /\ SessionOf[c] = SessionOf[t]
         /\ registry' \subseteq Turns
         /\ primary' \in Sessions \cup {NoSession}
         /\ counter' \in Nat /\ activity' \in [Turns -> Nat]
         /\ OneContext'
<1>1. PICK R \in AfterIdleEviction(registry) :
        LET new == IF OfSession(R, t) # {} THEN R ELSE Room(R) \cup {t}
        IN /\ c \in OfSession(new, t)
           /\ registry' = new
           /\ MakePrimary(t)
           /\ counter' = counter + 1
           /\ activity' = [Seen(new) EXCEPT ![c] = counter + 1]
  BY DEF Acquire
<1>2. /\ Room(R) \subseteq R /\ R \subseteq registry
      /\ \A S : Seen(S) \in [Turns -> Nat]
  BY Evicted
<1>3. registry \subseteq Turns /\ counter \in Nat
  BY DEF TypeOK
<1>4. SessionOf[c] = SessionOf[t]
  BY <1>1 DEF OfSession
<1>5. counter' \in Nat /\ activity' \in [Turns -> Nat]
  <2>1. Seen(registry') \in [Turns -> Nat] /\ counter' \in Nat
    BY <1>1, <1>2, <1>3
  <2>2. activity' = [Seen(registry') EXCEPT ![c] = counter']
    BY <1>1
  <2> QED
    BY <2>1, <2>2
<1>6. primary' \in Sessions \cup {NoSession}
  BY <1>1, PrimaryMade
<1>7. CASE OfSession(R, t) # {}
  <2>1. registry' = R
    BY <1>1, <1>7
  <2>2. OneContext'
    BY <2>1, <1>2 DEF OneContext
  <2> QED
    BY <2>1, <2>2, <1>2, <1>3, <1>4, <1>5, <1>6
<1>8. CASE OfSession(R, t) = {}
  <2>1. registry' \subseteq R \cup {t}
    BY <1>1, <1>2, <1>8
  <2>2. \A d \in R : SessionOf[d] # SessionOf[t]
    BY <1>8 DEF OfSession
  <2>3. OneContext'
    BY <2>1, <2>2, <1>2 DEF OneContext
  <2> QED
    BY <2>1, <2>3, <1>2, <1>3, <1>4, <1>5, <1>6
<1> QED
  BY <1>7, <1>8

\* What a failed acquire() leaves.
LEMMA NotAcquired ==
  ASSUME TypeOK, OneContext, NEW t \in Turns,
         UNCHANGED places \/ AcquireRefused(t) \/ AcquireError(t)
  PROVE  /\ registry' \subseteq Turns
         /\ primary' \in Sessions \cup {NoSession}
         /\ counter' \in Nat /\ activity' \in [Turns -> Nat]
         /\ OneContext'
<1>1. registry' \subseteq registry
  BY Evicted DEF places, AcquireRefused, AcquireError
<1>2. primary' \in Sessions \cup {NoSession}
  BY PrimaryMade DEF places, AcquireRefused, AcquireError, TypeOK
<1>3. counter' \in Nat /\ activity' \in [Turns -> Nat]
  BY Evicted DEF places, AcquireRefused, AcquireError, TypeOK
<1>4. OneContext'
  BY <1>1 DEF OneContext
<1> QED
  BY <1>1, <1>2, <1>3, <1>4 DEF TypeOK

\* The initial state satisfies the invariant.
LEMMA InitIInv == Init => IInv
<1> SUFFICES ASSUME Init PROVE IInv
  OBVIOUS
<1> USE DEF Init
<1>1. TypeOK
  <2>1. Cardinality(held) <= N
    BY FS_EmptySet, TurnAssumption
  <2> QED
    BY <2>1, TurnAssumption DEF TypeOK
<1>2. Recorded /\ Placed
  BY DEF Recorded, Executing, Placed
<1>3. PendingOwned /\ Locked /\ OneContext
  BY DEF PendingOwned, Streaming, Locked, OneContext
<1> QED
  BY <1>1, <1>2, <1>3 DEF IInv

\* Call keeps the invariant.
LEMMA CallStep ==
  ASSUME IInv, NEW t \in Turns, Call(t)
  PROVE  IInv'
<1> USE DEF IInv, Call, Goto, tasks, places, sessions, approvals
<1>1. held' \subseteq Turns /\ Cardinality(held') <= N
  BY DEF TypeOK
<1>2. TypeOK'
  BY <1>1, TurnAssumption DEF TypeOK
<1>3. Recorded'
  BY TurnAssumption DEF Recorded, Executing, TypeOK
<1>4. Placed'
  BY TurnAssumption DEF Placed, TypeOK
<1>5. PendingOwned'
  BY TurnAssumption DEF PendingOwned, Streaming, Placed, TypeOK
<1>6. Locked'
  BY TurnAssumption DEF Locked, TypeOK
<1>7. OneContext'
  BY DEF OneContext
<1> QED
  BY <1>2, <1>3, <1>4, <1>5, <1>6, <1>7

\* Admit keeps the invariant.
LEMMA AdmitStep ==
  ASSUME IInv, NEW t \in Turns, Admit(t)
  PROVE  IInv'
<1> USE DEF IInv, Admit, Goto, tasks, places, sessions, approvals
<1>1. held' \subseteq Turns /\ Cardinality(held') <= N
  <2>1. Slots!Enter(t)
    OBVIOUS
  <2> QED
    BY <2>1, SlotTaken DEF TypeOK
<1>2. /\ ledger' \in [Requests -> {"unknown", "running", "completed"}]
      /\ \A r \in Requests : ledger[r] = "running" => ledger'[r] = "running"
      /\ \/ handler' = [handler EXCEPT ![t] = "replying"]
         \/ /\ handler' = [handler EXCEPT ![t] = "admitted"]
            /\ ledger[RequestOf[t]] # "running" /\ ledger'[RequestOf[t]] = "running"
  <2>1. /\ ledger \in [Requests -> {"unknown", "running", "completed"}]
        /\ RequestOf[t] \in Requests
    BY TurnAssumption DEF TypeOK
  <2>2. PICK kept \in Pruned(ledger) :
          IF kept[RequestOf[t]] \in {"completed", "running"}
          THEN ledger' = kept /\ Goto(t, "replying")
          ELSE /\ ledger' = [kept EXCEPT ![RequestOf[t]] = "running"]
               /\ Goto(t, "admitted")
    OBVIOUS
  <2>3. /\ kept \in [Requests -> {"unknown", "running", "completed"}]
        /\ \A r \in Requests : kept[r] = "running" <=> ledger[r] = "running"
    BY <2>1, PrunedLedger
  <2> QED
    BY <2>1, <2>2, <2>3
<1>3. TypeOK'
  BY <1>1, <1>2, TurnAssumption DEF TypeOK
<1>4. Recorded'
  BY <1>2, TurnAssumption DEF Recorded, Executing, TypeOK
<1>5. Placed'
  BY <1>2, TurnAssumption DEF Placed, TypeOK
<1>6. PendingOwned'
  BY <1>2, TurnAssumption DEF PendingOwned, Streaming, Placed, TypeOK
<1>7. Locked'
  BY <1>2, TurnAssumption DEF Locked, TypeOK
<1>8. OneContext'
  BY DEF OneContext
<1> QED
  BY <1>3, <1>4, <1>5, <1>6, <1>7, <1>8

\* Reply keeps the invariant.
LEMMA ReplyStep ==
  ASSUME IInv, NEW t \in Turns, Reply(t)
  PROVE  IInv'
<1> USE DEF IInv, Reply, Goto, tasks, places, sessions, approvals
<1>1. held' \subseteq Turns /\ Cardinality(held') <= N
  <2>1. held' = held \ {t}
    BY DEF Slots!Exit
  <2> QED
    BY <2>1, SlotLeft DEF TypeOK
<1>2. TypeOK'
  BY <1>1, TurnAssumption DEF TypeOK
<1>3. Recorded'
  BY TurnAssumption DEF Recorded, Executing, TypeOK
<1>4. Placed'
  BY TurnAssumption DEF Placed, TypeOK
<1>5. PendingOwned'
  BY TurnAssumption DEF PendingOwned, Streaming, Placed, TypeOK
<1>6. Locked'
  BY TurnAssumption DEF Locked, TypeOK
<1>7. OneContext'
  BY DEF OneContext
<1> QED
  BY <1>2, <1>3, <1>4, <1>5, <1>6, <1>7

\* Mismatch keeps the invariant.
LEMMA MismatchStep ==
  ASSUME IInv, NEW t \in Turns, Mismatch(t)
  PROVE  IInv'
<1> USE DEF IInv, Mismatch, Goto, approvals
<1>1. held' \subseteq Turns /\ Cardinality(held') <= N
  BY DEF TypeOK
<1>2. /\ registry' \subseteq Turns
      /\ primary' \in Sessions \cup {NoSession}
      /\ counter' \in Nat /\ activity' \in [Turns -> Nat]
      /\ OneContext'
  BY NotAcquired
<1>3. TypeOK'
  BY <1>1, <1>2, TurnAssumption DEF TypeOK
<1>4. Recorded'
  BY TurnAssumption DEF Recorded, Executing, TypeOK
<1>5. Placed'
  BY TurnAssumption DEF Placed, TypeOK
<1>6. PendingOwned'
  BY TurnAssumption DEF PendingOwned, Streaming, Placed, TypeOK
<1>7. Locked'
  BY TurnAssumption DEF Locked, TypeOK
<1>8. OneContext'
  BY <1>2
<1> QED
  BY <1>3, <1>4, <1>5, <1>6, <1>7, <1>8

\* RouteError keeps the invariant.
LEMMA RouteErrorStep ==
  ASSUME IInv, NEW t \in Turns, RouteError(t)
  PROVE  IInv'
<1> USE DEF IInv, RouteError, Goto, approvals
<1>1. held' \subseteq Turns /\ Cardinality(held') <= N
  <2>1. held' = held \ {t}
    BY DEF Slots!Exit
  <2> QED
    BY <2>1, SlotLeft DEF TypeOK
<1>2. /\ ledger' \in [Requests -> {"unknown", "running", "completed"}]
      /\ \A r \in Requests : r # RequestOf[t] =>
           (ledger'[r] = "running" <=> ledger[r] = "running")
  <2> DEFINE L == [ledger EXCEPT ![RequestOf[t]] = "unknown"]
  <2>1. L \in [Requests -> {"unknown", "running", "completed"}]
    BY DEF TypeOK
  <2>2. ledger' \in Pruned(L)
    OBVIOUS
  <2>3. /\ ledger' \in [Requests -> {"unknown", "running", "completed"}]
        /\ \A r \in Requests : ledger'[r] = "running" <=> L[r] = "running"
    BY <2>1, <2>2, PrunedLedger
  <2> QED
    BY <2>3 DEF TypeOK
<1>3. /\ registry' \subseteq Turns
      /\ primary' \in Sessions \cup {NoSession}
      /\ counter' \in Nat /\ activity' \in [Turns -> Nat]
      /\ OneContext'
  BY NotAcquired
<1>4. TypeOK'
  BY <1>1, <1>2, <1>3, TurnAssumption DEF TypeOK
<1>5. Recorded'
  <2>1. Executing(t)
    BY DEF Executing, Placed, TypeOK
  <2>2. ASSUME NEW u \in Turns, Executing(u)'
        PROVE  /\ Executing(u) /\ RequestOf[u] # RequestOf[t]
               /\ RequestOf[u] \in Requests
    BY <2>1, <2>2, TurnAssumption DEF Recorded, Executing, TypeOK
  <2>3. ASSUME NEW u \in Turns, Executing(u)'
        PROVE  ledger'[RequestOf[u]] = "running"
    BY <1>2, <2>2, <2>3 DEF Recorded
  <2> QED
    BY <2>2, <2>3 DEF Recorded
<1>6. Placed'
  BY TurnAssumption DEF Placed, TypeOK
<1>7. PendingOwned'
  BY TurnAssumption DEF PendingOwned, Streaming, Placed, TypeOK
<1>8. Locked'
  BY TurnAssumption DEF Locked, TypeOK
<1>9. OneContext'
  BY <1>3
<1> QED
  BY <1>4, <1>5, <1>6, <1>7, <1>8, <1>9

\* Route keeps the invariant.
LEMMA RouteStep ==
  ASSUME IInv, NEW t \in Turns, NEW c \in Turns, Route(t, c)
  PROVE  IInv'
<1> USE DEF IInv, Route, Goto, tasks, places, sessions, approvals, Stream, LockFree
<1>1. held' \subseteq Turns /\ Cardinality(held') <= N
  BY DEF TypeOK
<1>2. /\ SessionOf[c] = SessionOf[t]
      /\ registry' \subseteq Turns
      /\ primary' \in Sessions \cup {NoSession}
      /\ counter' \in Nat /\ activity' \in [Turns -> Nat]
      /\ OneContext'
  BY Acquired
<1>3. TypeOK'
  <2>1. handler' \in [Turns -> {"idle", "queued", "replying", "admitted", "lockwait",
                               "streaming", "done"}]
    BY DEF TypeOK
  <2>2. engine' \in [Turns -> {"none", "running", "parked", "reacquire", "ended"}]
    BY DEF TypeOK
  <2>3. owner' \in [Turns -> Turns \cup {NoTurn}]
    BY DEF TypeOK
  <2>4. ctx' \in [Turns -> Turns \cup {NoTurn}]
    BY DEF TypeOK
  <2>5. /\ dying' \subseteq Turns /\ pending' \subseteq Turns /\ answered' \subseteq Turns
        /\ ledger' \in [Requests -> {"unknown", "running", "completed"}]
        /\ drops' \in 0..MaxDrops
    BY DEF TypeOK
  <2> QED
    BY <1>1, <1>2, <2>1, <2>2, <2>3, <2>4, <2>5 DEF TypeOK
<1>4. Recorded'
  BY <1>2, TurnAssumption DEF Recorded, Executing, TypeOK, Placed
<1>5. Placed'
  BY TurnAssumption DEF Placed, TypeOK
<1>6. PendingOwned'
  BY TurnAssumption DEF PendingOwned, Streaming, Placed, TypeOK
<1>7. Locked'
  BY <1>2, TurnAssumption DEF Locked, TypeOK
<1>8. OneContext'
  BY <1>2
<1> QED
  BY <1>3, <1>4, <1>5, <1>6, <1>7, <1>8

\* Lock keeps the invariant.
LEMMA LockStep ==
  ASSUME IInv, NEW t \in Turns, Lock(t)
  PROVE  IInv'
<1> USE DEF IInv, Lock, Goto, tasks, places, sessions, approvals, Stream
<1>1. held' \subseteq Turns /\ Cardinality(held') <= N
  BY DEF TypeOK
<1>2. TypeOK'
  BY <1>1, TurnAssumption DEF TypeOK
<1>3. Recorded'
  BY TurnAssumption DEF Recorded, Executing, TypeOK, Placed
<1>4. Placed'
  BY TurnAssumption DEF Placed, TypeOK
<1>5. PendingOwned'
  BY TurnAssumption DEF PendingOwned, Streaming, Placed, TypeOK
<1>6. Locked'
  BY TurnAssumption DEF Locked, TypeOK
<1>7. OneContext'
  BY DEF OneContext
<1> QED
  BY <1>2, <1>3, <1>4, <1>5, <1>6, <1>7

\* Ask keeps the invariant.
LEMMA AskStep ==
  ASSUME IInv, NEW t \in Turns, Ask(t)
  PROVE  IInv'
<1> USE DEF IInv, Ask, Goto, tasks, places, sessions, approvals
<1>1. held' \subseteq Turns /\ Cardinality(held') <= N
  <2>1. held' = held \ {t}
    BY DEF Slots!Exit
  <2> QED
    BY <2>1, SlotLeft DEF TypeOK
<1>2. TypeOK'
  BY <1>1, TurnAssumption DEF TypeOK
<1>3. Recorded'
  BY TurnAssumption DEF Recorded, Executing, TypeOK, Placed
<1>4. Placed'
  BY TurnAssumption DEF Placed, TypeOK
<1>5. PendingOwned'
  BY TurnAssumption DEF PendingOwned, Streaming, Placed, TypeOK
<1>6. Locked'
  BY TurnAssumption DEF Locked, TypeOK, Placed
<1>7. OneContext'
  BY DEF OneContext
<1> QED
  BY <1>2, <1>3, <1>4, <1>5, <1>6, <1>7

\* Answer keeps the invariant.
LEMMA AnswerStep ==
  ASSUME IInv, NEW t \in Turns, Answer(t)
  PROVE  IInv'
<1> USE DEF IInv, Answer, Goto, tasks, places, sessions, approvals
<1>1. held' \subseteq Turns /\ Cardinality(held') <= N
  BY DEF TypeOK
<1>2. TypeOK'
  BY <1>1, TurnAssumption DEF TypeOK
<1>3. Recorded'
  BY TurnAssumption DEF Recorded, Executing, TypeOK
<1>4. Placed'
  BY TurnAssumption DEF Placed, TypeOK
<1>5. PendingOwned'
  BY TurnAssumption DEF PendingOwned, Streaming, Placed, TypeOK
<1>6. Locked'
  BY TurnAssumption DEF Locked, TypeOK
<1>7. OneContext'
  BY DEF OneContext
<1> QED
  BY <1>2, <1>3, <1>4, <1>5, <1>6, <1>7

\* Wake keeps the invariant.
LEMMA WakeStep ==
  ASSUME IInv, NEW t \in Turns, Wake(t)
  PROVE  IInv'
<1> USE DEF IInv, Wake, Goto, tasks, places, sessions, approvals
<1>1. held' \subseteq Turns /\ Cardinality(held') <= N
  BY DEF TypeOK
<1>2. TypeOK'
  BY <1>1, TurnAssumption DEF TypeOK
<1>3. Recorded'
  BY TurnAssumption DEF Recorded, Executing, TypeOK
<1>4. Placed'
  BY TurnAssumption DEF Placed, TypeOK
<1>5. PendingOwned'
  BY TurnAssumption DEF PendingOwned, Streaming, Placed, TypeOK
<1>6. Locked'
  BY TurnAssumption DEF Locked, TypeOK
<1>7. OneContext'
  BY DEF OneContext
<1> QED
  BY <1>2, <1>3, <1>4, <1>5, <1>6, <1>7

\* Reacquire keeps the invariant.
LEMMA ReacquireStep ==
  ASSUME IInv, NEW t \in Turns, Reacquire(t)
  PROVE  IInv'
<1> USE DEF IInv, Reacquire, Goto, tasks, places, sessions, approvals
<1>1. held' \subseteq Turns /\ Cardinality(held') <= N
  <2>1. Slots!Enter(t)
    OBVIOUS
  <2> QED
    BY <2>1, SlotTaken DEF TypeOK
<1>2. TypeOK'
  BY <1>1, TurnAssumption DEF TypeOK
<1>3. Recorded'
  BY TurnAssumption DEF Recorded, Executing, TypeOK
<1>4. Placed'
  BY TurnAssumption DEF Placed, TypeOK
<1>5. PendingOwned'
  BY TurnAssumption DEF PendingOwned, Streaming, Placed, TypeOK
<1>6. Locked'
  BY TurnAssumption DEF Locked, TypeOK
<1>7. OneContext'
  BY DEF OneContext
<1> QED
  BY <1>2, <1>3, <1>4, <1>5, <1>6, <1>7

\* Unwind keeps the invariant.
LEMMA UnwindStep ==
  ASSUME IInv, NEW t \in Turns, Unwind(t)
  PROVE  IInv'
<1> USE DEF IInv, Unwind, Goto, tasks, places, sessions, approvals
<1>1. held' \subseteq Turns /\ Cardinality(held') <= N
  BY DEF TypeOK
<1>2. TypeOK'
  BY <1>1, TurnAssumption DEF TypeOK
<1>3. Recorded'
  BY TurnAssumption DEF Recorded, Executing, TypeOK
<1>4. Placed'
  BY TurnAssumption DEF Placed, TypeOK
<1>5. PendingOwned'
  BY TurnAssumption DEF PendingOwned, Streaming, Placed, TypeOK
<1>6. Locked'
  BY TurnAssumption DEF Locked, TypeOK
<1>7. OneContext'
  BY DEF OneContext
<1> QED
  BY <1>2, <1>3, <1>4, <1>5, <1>6, <1>7

\* End keeps the invariant.
LEMMA EndStep ==
  ASSUME IInv, NEW t \in Turns, NEW status \in {"completed", "unknown"}, End(t, status)
  PROVE  IInv'
<1> USE DEF IInv, End, Goto, tasks, places, sessions, approvals, Leave
<1>1. held' \subseteq Turns /\ Cardinality(held') <= N
  <2>1. held' = held \ {t}
    OBVIOUS
  <2> QED
    BY <2>1, SlotLeft DEF TypeOK
<1>2. /\ ledger' \in [Requests -> {"unknown", "running", "completed"}]
      /\ \A r \in Requests : r # RequestOf[t] =>
           (ledger'[r] = "running" <=> ledger[r] = "running")
  <2> DEFINE L == [ledger EXCEPT ![RequestOf[t]] = status]
  <2>1. L \in [Requests -> {"unknown", "running", "completed"}]
    BY DEF TypeOK
  <2>2. ledger' \in Pruned(L)
    OBVIOUS
  <2>3. /\ ledger' \in [Requests -> {"unknown", "running", "completed"}]
        /\ \A r \in Requests : ledger'[r] = "running" <=> L[r] = "running"
    BY <2>1, <2>2, PrunedLedger
  <2> QED
    BY <2>3 DEF TypeOK
<1>3. TypeOK'
  BY <1>1, <1>2, TurnAssumption DEF TypeOK
<1>4. Recorded'
  <2>1. Executing(t)
    BY DEF Executing, Placed, TypeOK
  <2>2. ASSUME NEW u \in Turns, Executing(u)'
        PROVE  /\ Executing(u) /\ RequestOf[u] # RequestOf[t]
               /\ RequestOf[u] \in Requests
    BY <2>1, <2>2, TurnAssumption DEF Recorded, Executing, TypeOK
  <2>3. ASSUME NEW u \in Turns, Executing(u)'
        PROVE  ledger'[RequestOf[u]] = "running"
    BY <1>2, <2>2, <2>3 DEF Recorded
  <2> QED
    BY <2>2, <2>3 DEF Recorded
<1>5. Placed'
  BY TurnAssumption DEF Placed, TypeOK
<1>6. PendingOwned'
  BY TurnAssumption DEF PendingOwned, Streaming, Placed, TypeOK
<1>7. Locked'
  BY TurnAssumption DEF Locked, TypeOK, Placed
<1>8. OneContext'
  BY DEF OneContext
<1> QED
  BY <1>3, <1>4, <1>5, <1>6, <1>7, <1>8

\* DropWaiting keeps the invariant.
LEMMA DropWaitingStep ==
  ASSUME IInv, NEW t \in Turns, DropWaiting(t)
  PROVE  IInv'
<1> USE DEF IInv, DropWaiting, Goto, tasks, places, sessions, approvals, Leave, CloseStream
<1>1. held' \subseteq Turns /\ Cardinality(held') <= N
  <2>1. held' = held \ {t}
    OBVIOUS
  <2> QED
    BY <2>1, SlotLeft DEF TypeOK
<1>2. TypeOK'
  BY <1>1, TurnAssumption DEF TypeOK
<1>3. Recorded'
  BY TurnAssumption DEF Recorded, Executing, TypeOK
<1>4. Placed'
  BY TurnAssumption DEF Placed, TypeOK
<1>5. PendingOwned'
  BY TurnAssumption DEF PendingOwned, Streaming, Placed, TypeOK
<1>6. Locked'
  BY TurnAssumption DEF Locked, TypeOK
<1>7. OneContext'
  BY DEF OneContext
<1> QED
  BY <1>2, <1>3, <1>4, <1>5, <1>6, <1>7

\* DropWriting keeps the invariant.
LEMMA DropWritingStep ==
  ASSUME IInv, NEW t \in Turns, DropWriting(t)
  PROVE  IInv'
<1> USE DEF IInv, DropWriting, Goto, tasks, places, sessions, approvals, CloseStream
<1>1. held' \subseteq Turns /\ Cardinality(held') <= N
  BY DEF TypeOK
<1>2. /\ ledger' \in [Requests -> {"unknown", "running", "completed"}]
      /\ \A r \in Requests : r # RequestOf[t] \/ handler[t] # "streaming" =>
           (ledger'[r] = "running" <=> ledger[r] = "running")
  <2> DEFINE L == [ledger EXCEPT ![RequestOf[t]] = "unknown"]
  <2>1. CASE handler[t] = "streaming"
    <3>1. L \in [Requests -> {"unknown", "running", "completed"}]
      BY DEF TypeOK
    <3>2. ledger' \in Pruned(L)
      BY <2>1
    <3> HIDE DEF L
    <3>3. /\ ledger' \in [Requests -> {"unknown", "running", "completed"}]
          /\ \A r \in Requests : ledger'[r] = "running" <=> L[r] = "running"
      BY ONLY <3>1, <3>2, PrunedLedger, Zenon
    <3> QED
      BY <2>1, <3>3 DEF TypeOK, L
  <2>2. CASE handler[t] # "streaming"
    BY <2>2 DEF TypeOK
  <2> QED
    BY <2>1, <2>2
<1>3. TypeOK'
  BY <1>1, <1>2, TurnAssumption DEF TypeOK
<1>4. Recorded'
  <2>1. ASSUME NEW u \in Turns, Executing(u)'
        PROVE  /\ Executing(u) /\ RequestOf[u] \in Requests
               /\ handler[t] = "streaming" => RequestOf[u] # RequestOf[t]
    BY <2>1, TurnAssumption DEF Recorded, Executing, TypeOK
  <2>2. ASSUME NEW u \in Turns, Executing(u)'
        PROVE  ledger'[RequestOf[u]] = "running"
    BY <1>2, <2>1, <2>2 DEF Recorded
  <2> QED
    BY <2>1, <2>2 DEF Recorded
<1>5. Placed'
  BY TurnAssumption DEF Placed, TypeOK
<1>6. PendingOwned'
  BY TurnAssumption DEF PendingOwned, Streaming, Placed, TypeOK
<1>7. Locked'
  BY TurnAssumption DEF Locked, TypeOK
<1>8. OneContext'
  BY DEF OneContext
<1> QED
  BY <1>3, <1>4, <1>5, <1>6, <1>7, <1>8

\* Every step keeps the invariant.
LEMMA NextStep == IInv /\ [Next]_vars => IInv'
<1> SUFFICES ASSUME IInv, [Next]_vars PROVE IInv'
  OBVIOUS
<1>1. CASE UNCHANGED vars
  BY <1>1 DEF vars, tasks, places, sessions, approvals, IInv, TypeOK, Recorded,
     Executing, Placed, PendingOwned, Streaming, Locked, OneContext
<1>2. ASSUME NEW t \in Turns, TurnStep(t)
      PROVE  IInv'
  BY <1>2, CallStep, AdmitStep, ReplyStep, MismatchStep, RouteErrorStep,
     RouteStep, LockStep, AskStep, AnswerStep, WakeStep, ReacquireStep, UnwindStep,
     EndStep, DropWaitingStep, DropWritingStep
     DEF TurnStep
<1> QED
  BY <1>1, <1>2 DEF Next

\* The inductive invariant holds in every reachable state.
LEMMA Invariance == Spec => []IInv
BY InitIInv, NextStep, PTL DEF Spec

\* The variables of the turns keep their types; in particular no mix of
\* admission, parking, dropping and re-acquiring holds more than
\* max_concurrent_turns slots.
THEOREM TypeCorrect == Spec => []TypeOK
<1>1. IInv => TypeOK
  BY DEF IInv
<1> QED
  BY <1>1, Invariance, PTL

\* engine_chat() never executes one request id twice at the same time, for any
\* number of retries and whatever the ledger forgets.
THEOREM RetriesExclude == Spec => []NoConcurrentRetry
<1>1. IInv => NoConcurrentRetry
  BY DEF IInv, Recorded, Executing, NoConcurrentRetry, Streaming
<1> QED
  BY <1>1, Invariance, PTL

\* The approval coordinator's pendings are exactly those of the streaming turns
\* that wait for an answer or for their slot.
THEOREM ApprovalsOwned == Spec => []PendingOwned
<1>1. IInv => PendingOwned
  BY DEF IInv
<1> QED
  BY <1>1, Invariance, PTL

\* The session lock serializes the turns of a session for as long as the
\* registry keeps the contexts they use.
THEOREM OverlapNeedsEviction == Spec => []OverlapOnlyByEviction
<1>1. IInv => OverlapOnlyByEviction
  BY DEF IInv, Locked, OneContext, OverlapOnlyByEviction, Streaming
<1> QED
  BY <1>1, Invariance, PTL
=============================================================================
