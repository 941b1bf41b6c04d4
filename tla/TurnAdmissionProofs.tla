------------------------ MODULE TurnAdmissionProofs ------------------------
(***************************************************************************)
(* Proofs about TurnAdmission, for any number of turns, exclusive          *)
(* operations, gate users and slots.                                       *)
(***************************************************************************)
EXTENDS TurnAdmission, FiniteSetTheorems, SequenceTheorems, TLAPS

\* No task waits twice on the semaphore.
Distinct(q) == \A i, j \in DOMAIN q : q[i] = q[j] => i = j

\* The deque holds exactly the tasks that wait on it.
QueueInv ==
  /\ Distinct(waiters)
  /\ \A t \in Tasks : pc[t] = "waiting" <=> t \in ToSet(waiters)
  /\ granted \subseteq ToSet(waiters)

\* The exclusive lock is held by the operation that drains or has drained.
OwnerInv ==
  /\ \A o \in Ops : pc[o] \in {"waiting", "body", "leaked"} <=> owner = o
  /\ owner = NoOp => acquired = 0
  /\ \A o \in Ops : pc[o] \in {"body", "leaked"} => acquired = N

\* The inductive invariant.
IInv == TypeOK /\ QueueInv /\ OwnerInv /\ PermitsConserved

-----------------------------------------------------------------------------
(* Sequences                                                               *)

\* Appending a new task to a deque without repetitions.
LEMMA AppendFacts ==
  ASSUME NEW S, NEW q \in Seq(S), NEW t \in S, Distinct(q), t \notin ToSet(q)
  PROVE  /\ Append(q, t) \in Seq(S)
         /\ Distinct(Append(q, t))
         /\ ToSet(Append(q, t)) = ToSet(q) \cup {t}
  BY DEF Distinct, ToSet

\* RemoveAt drops one position and keeps the others in order.
LEMMA RemoveAtShape ==
  ASSUME NEW S, NEW q \in Seq(S), NEW i \in DOMAIN q
  PROVE  /\ RemoveAt(q, i) \in Seq(S)
         /\ Len(RemoveAt(q, i)) = Len(q) - 1
         /\ DOMAIN RemoveAt(q, i) = 1..(Len(q) - 1)
         /\ \A j \in 1..(Len(q) - 1) :
              RemoveAt(q, i)[j] = IF j < i THEN q[j] ELSE q[j + 1]
<1> DEFINE r == RemoveAt(q, i)
<1> DEFINE a == SubSeq(q, 1, i - 1)
           b == SubSeq(q, i + 1, Len(q))
<1>1. i \in 1..Len(q) /\ Len(q) \in Nat /\ \A j \in 1..Len(q) : q[j] \in S
  OBVIOUS
<1>2. /\ a \in Seq(S) /\ Len(a) = i - 1
      /\ \A j \in 1..(i - 1) : a[j] = q[j]
  BY <1>1, SubSeqProperties
<1>3. /\ b \in Seq(S) /\ Len(b) = Len(q) - i
      /\ \A j \in 1..(Len(q) - i) : b[j] = q[i + j]
  BY <1>1, SubSeqProperties
<1>4. r = a \o b
  BY DEF RemoveAt
<1> HIDE DEF a, b, r
<1>5. /\ r \in Seq(S) /\ Len(r) = Len(a) + Len(b)
      /\ \A j \in 1..(Len(a) + Len(b)) :
           r[j] = IF j <= Len(a) THEN a[j] ELSE b[j - Len(a)]
  <2>1. /\ a \o b \in Seq(S) /\ Len(a \o b) = Len(a) + Len(b)
        /\ \A j \in 1..(Len(a) + Len(b)) :
             (a \o b)[j] = IF j <= Len(a) THEN a[j] ELSE b[j - Len(a)]
    BY <1>2, <1>3, ConcatProperties, Zenon
  <2> QED BY <2>1, <1>4, Zenon
<1>6. Len(r) = Len(q) - 1 /\ DOMAIN r = 1..(Len(q) - 1)
  BY <1>1, <1>2, <1>3, <1>5
<1>7. ASSUME NEW j \in 1..(Len(q) - 1)
      PROVE  r[j] = IF j < i THEN q[j] ELSE q[j + 1]
  <2>1. r[j] = IF j <= i - 1 THEN a[j] ELSE b[j - (i - 1)]
    <3>1. Len(a) = i - 1
      BY <1>2
    <3>2. j \in 1..(Len(a) + Len(b))
      BY <1>1, <1>2, <1>3
    <3>3. r[j] = IF j <= Len(a) THEN a[j] ELSE b[j - Len(a)]
      BY <3>2, <1>5, Zenon
    <3> QED BY <3>1, <3>3, Zenon
  <2>2. CASE j < i
    BY <2>1, <2>2, <1>1, <1>2
  <2>3. CASE j >= i
    <3>1. j - (i - 1) \in 1..(Len(q) - i) /\ i + (j - (i - 1)) = j + 1
      BY <2>3, <1>1
    <3> QED BY <3>1, <2>1, <2>3, <1>1, <1>3, SMTT(30)
  <2> QED BY <2>2, <2>3, <1>1
<1> QED BY <1>5, <1>6, <1>7 DEF r

\* Removing one position from a deque without repetitions removes its task.
LEMMA RemoveAtFacts ==
  ASSUME NEW S, NEW q \in Seq(S), NEW i \in DOMAIN q, Distinct(q)
  PROVE  /\ RemoveAt(q, i) \in Seq(S)
         /\ Distinct(RemoveAt(q, i))
         /\ ToSet(RemoveAt(q, i)) = ToSet(q) \ {q[i]}
<1> DEFINE r == RemoveAt(q, i)
<1>1. /\ r \in Seq(S)
      /\ Len(r) = Len(q) - 1
      /\ DOMAIN r = 1..(Len(q) - 1)
      /\ \A j \in 1..(Len(q) - 1) : r[j] = IF j < i THEN q[j] ELSE q[j + 1]
  BY RemoveAtShape
<1>2. Distinct(r)
  BY <1>1, SMTT(30) DEF Distinct
<1>3. \A j \in DOMAIN r : r[j] \in ToSet(q) \ {q[i]}
  BY <1>1 DEF Distinct, ToSet
<1>4. ASSUME NEW x \in ToSet(q) \ {q[i]} PROVE x \in ToSet(r)
  <2>1. PICK j \in DOMAIN q : q[j] = x
    BY DEF ToSet
  <2>2. CASE j < i
    BY <1>1, <2>1, <2>2 DEF ToSet
  <2>3. CASE j > i
    <3>1. j - 1 \in DOMAIN r /\ r[j - 1] = x
      BY <1>1, <2>1, <2>3
    <3> QED BY <3>1 DEF ToSet
  <2> QED BY <2>1, <2>2, <2>3
<1> HIDE DEF r
<1> QED BY <1>1, <1>2, <1>3, <1>4 DEF ToSet, r

-----------------------------------------------------------------------------
(* Permits                                                                 *)

LEMMA TasksFinite == IsFiniteSet(Tasks)
  BY TaskAssumption, FS_Union DEF Tasks

\* What k calls of _wake_up_next() do to the granted waiters.
LEMMA WokenFacts ==
  ASSUME NEW q \in Seq(Tasks), NEW g \in SUBSET Tasks, NEW k \in Nat,
         NEW G \in Woken(k, q, g)
  PROVE  /\ G \subseteq ToSet(q) /\ G \cap g = {}
         /\ Cardinality(G) \in 0..k
         /\ Cardinality(g) \in Nat
         /\ Cardinality(g \cup G) = Cardinality(g) + Cardinality(G)
<1>1. G \subseteq ToSet(q) \ g /\ ToSet(q) \subseteq Tasks
  BY DEF Woken, ToSet
<1>2. IsFiniteSet(g) /\ IsFiniteSet(G) /\ IsFiniteSet(ToSet(q) \ g)
  BY <1>1, TasksFinite, FS_Subset
<1>3. /\ Cardinality(G) \in Nat /\ Cardinality(g) \in Nat
      /\ Cardinality(ToSet(q) \ g) \in Nat
  BY <1>2, FS_CardinalityType
<1>4. Cardinality(G) <= k
  BY <1>3 DEF Woken, Smaller
<1>5. G \cap g = {} /\ g \cap G = {} /\ Cardinality(g \cap G) = 0
  BY <1>1, FS_EmptySet
<1>6. Cardinality(g \cup G) = Cardinality(g) + Cardinality(G) - Cardinality(g \cap G)
  BY <1>2, FS_Union
<1> QED BY <1>1, <1>3, <1>4, <1>5, <1>6

\* Cardinalities the invariant mentions are numbers.
LEMMA Counts ==
  ASSUME TypeOK
  PROVE  /\ IsFiniteSet(Running) /\ Cardinality(Running) \in Nat
         /\ IsFiniteSet(granted) /\ Cardinality(granted) \in Nat
<1>1. Running \subseteq Tasks /\ granted \subseteq Tasks
  BY DEF Running, Tasks, TypeOK
<1> QED BY <1>1, TasksFinite, FS_Subset, FS_CardinalityType

\* How the running turns change with one turn's program counter.
LEMMA RunningEnter ==
  ASSUME TypeOK, NEW t \in Turns, pc[t] # "running",
         pc' = [pc EXCEPT ![t] = "running"]
  PROVE  Running' = Running \cup {t} /\ Cardinality(Running') = Cardinality(Running) + 1
<1>1. Running' = Running \cup {t} /\ t \notin Running
  BY DEF Running, TypeOK, Tasks
<1> QED BY <1>1, Counts, FS_AddElement

LEMMA RunningLeave ==
  ASSUME TypeOK, NEW t \in Turns, pc[t] = "running", NEW s \in {"idle", "parked"},
         pc' = [pc EXCEPT ![t] = s]
  PROVE  Running' = Running \ {t} /\ Cardinality(Running') = Cardinality(Running) - 1
<1>1. Running' = Running \ {t} /\ t \in Running
  BY DEF Running, TypeOK, Tasks
<1> QED BY <1>1, Counts, FS_RemoveElement

-----------------------------------------------------------------------------
(* The semaphore operations preserve the queue and the permits             *)

\* A waiter that leaves the deque, whatever it leaves for.
LEMMA LeaveFacts ==
  ASSUME IInv, NEW t \in Tasks, pc[t] = "waiting", NEW q \in QueuesWithout(t)
  PROVE  /\ q \in Seq(Tasks) /\ Distinct(q)
         /\ ToSet(q) = ToSet(waiters) \ {t}
         /\ granted \ {t} \subseteq ToSet(q)
<1>1. PICK i \in DOMAIN waiters : waiters[i] = t /\ q = RemoveAt(waiters, i)
  BY DEF QueuesWithout
<1>2. /\ q \in Seq(Tasks) /\ Distinct(q)
      /\ ToSet(q) = ToSet(waiters) \ {t}
  BY <1>1, RemoveAtFacts DEF IInv, TypeOK, QueueInv
<1> QED BY <1>2 DEF IInv, QueueInv

\* The permits granted, with or without the one of t.
LEMMA GrantedWithout ==
  ASSUME TypeOK, NEW t
  PROVE  /\ granted \ {t} \in SUBSET Tasks
         /\ Cardinality(granted \ {t}) =
              IF t \in granted THEN Cardinality(granted) - 1 ELSE Cardinality(granted)
  BY Counts, FS_RemoveElement DEF TypeOK

\* k releases: permits free and handed over grow by k.
LEMMA ReleaseFacts ==
  ASSUME NEW k \in Nat, NEW q \in Seq(Tasks), NEW g \in SUBSET Tasks,
         g \subseteq ToSet(q), value \in Nat, SemRelease(k, q, g)
  PROVE  /\ waiters' = q
         /\ granted' \subseteq ToSet(q) /\ granted' \subseteq Tasks
         /\ value' \in Nat
         /\ Cardinality(g) \in Nat /\ Cardinality(granted') \in Nat
         /\ value' + Cardinality(granted') = value + k + Cardinality(g)
<1>1. PICK G \in Woken(k, q, g) :
        waiters' = q /\ granted' = g \cup G /\ value' = value + k - Cardinality(G)
  BY DEF SemRelease
<1>2. /\ G \subseteq ToSet(q) /\ Cardinality(G) \in 0..k /\ Cardinality(g) \in Nat
      /\ Cardinality(g \cup G) = Cardinality(g) + Cardinality(G)
  BY <1>1, WokenFacts
<1>3. ToSet(q) \subseteq Tasks
  BY DEF ToSet
<1> QED BY <1>1, <1>2, <1>3

\* A waiter that resumes may pass one free permit on.
LEMMA PassOnFacts ==
  ASSUME NEW q \in Seq(Tasks), NEW g \in SUBSET Tasks, g \subseteq ToSet(q),
         value \in Nat, NEW G, G \in Woken(Spare, q, g)
  PROVE  /\ g \cup G \subseteq ToSet(q) /\ g \cup G \subseteq Tasks
         /\ value - Cardinality(G) \in Nat
         /\ Cardinality(G) \in Nat /\ Cardinality(g) \in Nat
         /\ Cardinality(g \cup G) = Cardinality(g) + Cardinality(G)
<1>1. Spare \in Nat /\ Spare <= value
  BY DEF Spare
<1>2. /\ G \subseteq ToSet(q) /\ Cardinality(G) \in 0..Spare /\ Cardinality(g) \in Nat
      /\ Cardinality(g \cup G) = Cardinality(g) + Cardinality(G)
  <2>1. G \subseteq ToSet(q)
   BY <1>1, WokenFacts
  <2>2. Cardinality(G) \in 0..Spare 
   BY <1>1, WokenFacts
  <2>3. Cardinality(g) \in Nat
   BY <1>1, WokenFacts
  <2>4. Cardinality(g \cup G) = Cardinality(g) + Cardinality(G)
   BY <1>1, WokenFacts
  <2> QED BY <2>1, <2>2, <2>3, <2>4
<1>3. ToSet(q) \subseteq Tasks
  BY DEF ToSet
<1> QED BY <1>1, <1>2, <1>3

-----------------------------------------------------------------------------
(* Every action preserves the inductive invariant                          *)

\* A turn that asks for a slot gets it or joins the deque.
LEMMA AcquireSlotStep ==
  ASSUME IInv, NEW t \in Turns, pc[t] \in {"idle", "parked"}, AcquireSlot(t),
         unwinding' \subseteq Turns, UNCHANGED lockVars, parkedTurns' \in Nat
  PROVE  IInv'
<1> USE DEF IInv
<1>0. t \in Tasks /\ t \notin ToSet(waiters) /\ t \notin Ops
  BY TaskAssumption DEF QueueInv, Tasks
<1>1. CASE SemLocked
  <2>1. /\ waiters' = Append(waiters, t) /\ pc' = [pc EXCEPT ![t] = "waiting"]
        /\ waitingTurns' = waitingTurns + 1
        /\ UNCHANGED <<value, granted, slotsInUse, activeTurns>>
    BY <1>1 DEF AcquireSlot
  <2>2. /\ waiters' \in Seq(Tasks) /\ Distinct(waiters')
        /\ ToSet(waiters') = ToSet(waiters) \cup {t}
    BY <1>0, <2>1, AppendFacts DEF TypeOK, QueueInv
  <2>3. Running' = Running
    BY <1>0, <2>1 DEF Running, TypeOK, Tasks
  <2>4. TypeOK'
    BY <1>0, <2>1, <2>2 DEF TypeOK, lockVars, Tasks
  <2>5. QueueInv'
    BY <1>0, <2>1, <2>2 DEF QueueInv, TypeOK
  <2>6. OwnerInv'
    BY <1>0, <2>1 DEF OwnerInv, lockVars, TypeOK, Tasks
  <2>7. PermitsConserved'
    BY <2>1, <2>3 DEF PermitsConserved, lockVars
  <2> QED BY <2>4, <2>5, <2>6, <2>7
<1>2. CASE ~SemLocked
  <2>1. /\ value' = value - 1 /\ pc' = [pc EXCEPT ![t] = "running"]
        /\ slotsInUse' = slotsInUse + 1 /\ activeTurns' = activeTurns + 1
        /\ UNCHANGED <<waiters, granted, waitingTurns>>
    BY <1>2 DEF AcquireSlot
  <2>2. Cardinality(Running') = Cardinality(Running) + 1
    BY <2>1, RunningEnter
  <2>3. TypeOK'
    BY <1>0, <1>2, <2>1, NAssumption DEF TypeOK, SemLocked, lockVars, Tasks
  <2>4. QueueInv'
    BY <1>0, <2>1 DEF QueueInv, TypeOK
  <2>5. OwnerInv'
    BY <1>0, <2>1 DEF OwnerInv, lockVars, TypeOK, Tasks
  <2>6. PermitsConserved'
    BY <2>1, <2>2, Counts, NAssumption, SMTT(30) DEF PermitsConserved, lockVars, TypeOK
  <2> QED BY <2>3, <2>4, <2>5, <2>6
<1> QED BY <1>1, <1>2

\* A running turn that gives its slot back.
LEMMA ReleaseSlotStep ==
  ASSUME IInv, NEW t \in Turns, pc[t] = "running", ReleaseSlot,
         NEW s \in {"idle", "parked"}, pc' = [pc EXCEPT ![t] = s],
         unwinding' \subseteq Turns, UNCHANGED <<lockVars, waitingTurns>>,
         parkedTurns' \in Nat
  PROVE  IInv'
<1> USE DEF IInv
<1>0. t \in Tasks /\ t \notin Ops /\ t \notin ToSet(waiters)
  BY TaskAssumption DEF QueueInv, Tasks
<1>1. /\ waiters' = waiters
      /\ granted' \subseteq ToSet(waiters) /\ granted' \subseteq Tasks
      /\ value' \in Nat /\ Cardinality(granted') \in Nat
      /\ value' + Cardinality(granted') = value + 1 + Cardinality(granted)
  BY ReleaseFacts DEF ReleaseSlot, TypeOK, QueueInv
<1>2. Cardinality(Running') = Cardinality(Running) - 1 /\ Cardinality(Running) \in Nat
  BY RunningLeave, Counts
<1>3. PermitsConserved'
  <2>1. /\ acquired' = acquired /\ acquired \in Nat /\ value \in Nat
        /\ Cardinality(granted) \in Nat
        /\ value + Cardinality(granted) + Cardinality(Running) + acquired = N
    BY Counts, NAssumption DEF PermitsConserved, lockVars, TypeOK
  <2> QED BY <1>1, <1>2, <2>1 DEF PermitsConserved
<1>4. Cardinality(Running') \in Nat
  <2>1. Running' \subseteq Tasks
    BY DEF Running, Tasks
  <2> QED BY <2>1, TasksFinite, FS_Subset, FS_CardinalityType
<1>5. value' \in 0..N
  BY <1>1, <1>3, <1>4, NAssumption, SMTT(30) DEF PermitsConserved, lockVars, TypeOK
<1>6. activeTurns' \in Nat /\ slotsInUse' \in Nat
  BY DEF ReleaseSlot, Less, TypeOK
<1>7. TypeOK'
  BY <1>0, <1>1, <1>5, <1>6 DEF TypeOK, lockVars, Tasks
<1>8. QueueInv'
  BY <1>0, <1>1 DEF QueueInv, TypeOK
<1>9. OwnerInv'
  BY <1>0 DEF OwnerInv, lockVars, TypeOK, Tasks
<1> QED BY <1>3, <1>7, <1>8, <1>9

\* A queued turn that was handed a permit runs.
LEMMA TurnResumeStep ==
  ASSUME IInv, NEW t \in Turns, TurnResume(t)
  PROVE  IInv'
<1> USE DEF IInv
<1>0. /\ t \in Tasks /\ t \notin Ops /\ pc[t] = "waiting" /\ t \in granted
      /\ pc' = [pc EXCEPT ![t] = "running"]
      /\ UNCHANGED <<unwinding, lockVars, parkedTurns>>
  BY TaskAssumption DEF TurnResume, Tasks
<1>1. PICK q \in QueuesWithout(t) :
        \E G \in Woken(Spare, q, granted \ {t}) :
          /\ waiters' = q
          /\ granted' = (granted \ {t}) \cup G
          /\ value' = value - Cardinality(G)
  BY DEF TurnResume
<1>2. PICK G \in Woken(Spare, q, granted \ {t}) :
          /\ waiters' = q
          /\ granted' = (granted \ {t}) \cup G
          /\ value' = value - Cardinality(G)
  BY <1>1
<1>3. /\ q \in Seq(Tasks) /\ Distinct(q) /\ ToSet(q) = ToSet(waiters) \ {t}
      /\ granted \ {t} \subseteq ToSet(q)
  BY <1>0, LeaveFacts
<1>4. /\ granted \ {t} \in SUBSET Tasks
      /\ Cardinality(granted \ {t}) = Cardinality(granted) - 1
  BY <1>0, GrantedWithout
<1>5. /\ granted' \subseteq ToSet(q) /\ granted' \subseteq Tasks
      /\ value' \in Nat /\ Cardinality(G) \in Nat
      /\ Cardinality(granted') = Cardinality(granted \ {t}) + Cardinality(G)
  <2>1. value \in Nat
    BY NAssumption DEF TypeOK
  <2>2. granted' \subseteq ToSet(q) /\ granted' \subseteq Tasks
    BY <1>2, <1>3, <1>4, <2>1, PassOnFacts
  <2>3. value' \in Nat /\ Cardinality(G) \in Nat
    BY <1>2, <1>3, <1>4, <2>1, PassOnFacts
  <2>4. Cardinality(granted') = Cardinality(granted \ {t}) + Cardinality(G)
    BY <1>2, <1>3, <1>4, <2>1, PassOnFacts
  <2> QED BY <2>2, <2>3, <2>4
<1>6. Cardinality(Running') = Cardinality(Running) + 1
  BY <1>0, RunningEnter
<1>7. PermitsConserved'
  BY <1>0, <1>2, <1>4, <1>5, <1>6, Counts, NAssumption, SMTT(30) DEF PermitsConserved, lockVars, TypeOK
<1>8. value' \in 0..N
  BY <1>2, <1>5, NAssumption DEF TypeOK
<1>9. activeTurns' \in Nat /\ slotsInUse' \in Nat /\ waitingTurns' \in Nat
  BY DEF TurnResume, Less, TypeOK
<1>10. TypeOK'
  BY <1>0, <1>2, <1>3, <1>5, <1>8, <1>9 DEF TypeOK, lockVars, Tasks
<1>11. QueueInv'
  BY <1>0, <1>2, <1>3, <1>5 DEF QueueInv, TypeOK
<1>12. OwnerInv'
  BY <1>0 DEF OwnerInv, lockVars, TypeOK, Tasks
<1> QED BY <1>7, <1>10, <1>11, <1>12

\* A queued turn that is cancelled hands a permit it was given on.
LEMMA TurnCancelWaitingStep ==
  ASSUME IInv, NEW t \in Turns, TurnCancelWaiting(t)
  PROVE  IInv'
<1> USE DEF IInv
<1> DEFINE k == IF t \in granted THEN 1 ELSE 0
<1>0. /\ t \in Tasks /\ t \notin Ops /\ pc[t] = "waiting"
      /\ pc' = [pc EXCEPT ![t] = "idle"]
      /\ UNCHANGED <<lockVars, slotsInUse, activeTurns, parkedTurns>>
  BY TaskAssumption DEF TurnCancelWaiting, Tasks
<1>1. PICK q \in QueuesWithout(t) : SemRelease(k, q, granted \ {t})
  BY DEF TurnCancelWaiting
<1>2. k \in Nat
  OBVIOUS
<1>3. /\ q \in Seq(Tasks) /\ Distinct(q) /\ ToSet(q) = ToSet(waiters) \ {t}
      /\ granted \ {t} \subseteq ToSet(q)
  BY <1>0, LeaveFacts
<1>4. /\ granted \ {t} \in SUBSET Tasks
      /\ Cardinality(granted \ {t}) + k = Cardinality(granted)
  BY GrantedWithout, Counts
<1> HIDE DEF k
<1>5. /\ waiters' = q
      /\ granted' \subseteq ToSet(q) /\ granted' \subseteq Tasks
      /\ value' \in Nat /\ Cardinality(granted') \in Nat
      /\ Cardinality(granted \ {t}) \in Nat
      /\ value' + Cardinality(granted') = value + k + Cardinality(granted \ {t})
  BY <1>1, <1>2, <1>3, <1>4, ReleaseFacts DEF TypeOK
<1>6. Running' = Running
  BY <1>0 DEF Running, TypeOK, Tasks
<1>7. PermitsConserved'
  BY <1>0, <1>2, <1>4, <1>5, <1>6, Counts, NAssumption DEF PermitsConserved, lockVars, TypeOK
<1>8. value' \in 0..N
  BY <1>0, <1>5, <1>6, <1>7, Counts, NAssumption, SMTT(30) DEF PermitsConserved, lockVars, TypeOK
<1>9. waitingTurns' \in Nat /\ unwinding' \subseteq Turns
  BY DEF TurnCancelWaiting, Less, TypeOK
<1>10. TypeOK'
  BY <1>0, <1>3, <1>5, <1>8, <1>9 DEF TypeOK, lockVars, Tasks
<1>11. QueueInv'
  BY <1>0, <1>3, <1>5 DEF QueueInv, TypeOK
<1>12. OwnerInv'
  BY <1>0 DEF OwnerInv, lockVars, TypeOK, Tasks
<1> QED BY <1>7, <1>10, <1>11, <1>12

\* The drain loop, started with the lock just taken or after a hand-over.
LEMMA DrainStep ==
  ASSUME IInv, NEW o \in Ops, NEW q \in Seq(Tasks), NEW val \in Nat, NEW acq \in 0..N,
         Distinct(q), o \notin ToSet(q), granted' \subseteq ToSet(q),
         granted' \subseteq Tasks,
         \A t \in Tasks \ {o} : pc[t] = "waiting" <=> t \in ToSet(q),
         val + acq + Cardinality(granted') + Cardinality(Running) = N,
         acquired <= acq, Drain(o, val, acq, q),
         owner' = o, \A p \in Ops \ {o} : pc[p] \notin {"waiting", "body", "leaked"},
         lockq' \in Seq(Ops), gate' \in Seq(GateOps),
         UNCHANGED <<unwinding, activeTurns, waitingTurns, parkedTurns>>
  PROVE  IInv'
<1> USE DEF IInv
<1> DEFINE k == IF q = <<>> THEN Smaller(val, N - acq) ELSE 0
           full == acq + k = N
<1>0. o \in Tasks /\ o \notin Turns /\ owner' \in Ops
  BY TaskAssumption DEF Tasks
<1>1. /\ value' = val - k /\ acquired' = acq + k
      /\ slotsInUse' = slotsInUse + (acq + k - acquired)
      /\ waiters' = IF full THEN q ELSE Append(q, o)
      /\ pc' = [pc EXCEPT ![o] = IF full THEN "body" ELSE "waiting"]
  BY DEF Drain
<1>2. k \in Nat /\ k <= val /\ acq + k <= N
  BY NAssumption DEF Smaller
<1> HIDE DEF k
<1>3. Running' = Running
  BY <1>0, <1>1 DEF Running, TypeOK, Tasks
<1>4. PermitsConserved'
  <2>1. IsFiniteSet(granted')
    BY TasksFinite, FS_Subset
  <2>2. Cardinality(granted') \in Nat /\ Cardinality(Running) \in Nat
    BY <2>1, Counts, FS_CardinalityType
  <2> QED BY <1>1, <1>2, <1>3, <2>2, NAssumption DEF PermitsConserved
<1>5. /\ waiters' \in Seq(Tasks) /\ Distinct(waiters')
      /\ ToSet(waiters') = IF full THEN ToSet(q) ELSE ToSet(q) \cup {o}
  <2>1. CASE full
    BY <1>1, <2>1
  <2>2. CASE ~full
    <3>1. waiters' = Append(q, o)
      BY <1>1, <2>2
    <3> QED BY <1>0, <2>2, <3>1, AppendFacts
  <2> QED BY <2>1, <2>2
<1>6. TypeOK'
  <2>1. /\ value' \in 0..N /\ acquired' \in 0..N
    <3>1. Cardinality(granted') \in Nat /\ Cardinality(Running) \in Nat
      BY TasksFinite, FS_Subset, Counts, FS_CardinalityType
    <3> QED BY <1>1, <1>2, <3>1, NAssumption
  <2>2. slotsInUse' \in Nat
    BY <1>1, <1>2, NAssumption DEF TypeOK
  <2>3. /\ pc' \in [Tasks -> {"idle", "waiting", "running", "parked",
                              "lockwait", "body", "leaked"}]
        /\ \A t \in Turns : pc'[t] \in {"idle", "waiting", "running", "parked"}
        /\ \A p \in Ops : pc'[p] \in {"idle", "lockwait", "waiting", "body", "leaked"}
    BY <1>0, <1>1 DEF TypeOK, Tasks
  <2> QED BY <1>0, <1>5, <2>1, <2>2, <2>3 DEF TypeOK
<1>7. QueueInv'
  <2>1. \A t \in Tasks : pc'[t] = "waiting" <=> t \in ToSet(waiters')
    BY <1>0, <1>1, <1>5 DEF TypeOK
  <2> QED BY <1>5, <2>1 DEF QueueInv
<1>8. OwnerInv'
  <2>1. \A p \in Ops : pc'[p] \in {"waiting", "body", "leaked"} <=> owner' = p
    BY <1>0, <1>1 DEF TypeOK, Tasks
  <2>2. \A p \in Ops : pc'[p] \in {"body", "leaked"} => acquired' = N
    BY <1>0, <1>1 DEF TypeOK, Tasks
  <2> QED BY <1>0, <2>1, <2>2, TaskAssumption DEF OwnerInv
<1> QED BY <1>4, <1>6, <1>7, <1>8

\* The exclusive lock is free: no operation drains or has drained.
LEMMA LockFree ==
  ASSUME IInv, owner = NoOp
  PROVE  /\ acquired = 0
         /\ \A o \in Ops : pc[o] \notin {"waiting", "body", "leaked"}
  BY TaskAssumption DEF IInv, OwnerInv

\* An operation that takes the free lock starts draining.
LEMMA TakeLockStep ==
  ASSUME IInv, NEW o \in Ops, owner = NoOp, owner' = o, Drain(o, value, 0, waiters),
         lockq' \in Seq(Ops), gate' \in Seq(GateOps), granted' = granted,
         UNCHANGED <<unwinding, activeTurns, waitingTurns, parkedTurns>>
  PROVE  IInv'
<1>1. /\ acquired = 0
      /\ \A p \in Ops : pc[p] \notin {"waiting", "body", "leaked"}
  BY LockFree
<1>2. /\ waiters \in Seq(Tasks) /\ Distinct(waiters) /\ granted \subseteq ToSet(waiters)
      /\ \A t \in Tasks : pc[t] = "waiting" <=> t \in ToSet(waiters)
      /\ value \in Nat /\ granted \subseteq Tasks
  BY NAssumption DEF IInv, QueueInv, TypeOK
<1>3. o \in Tasks /\ o \notin ToSet(waiters)
  BY <1>1, <1>2 DEF Tasks
<1>4. value + 0 + Cardinality(granted') + Cardinality(Running) = N
  BY <1>1, <1>2, Counts, NAssumption DEF IInv, PermitsConserved
<1>5. 0 \in 0..N /\ acquired <= 0
  BY <1>1, NAssumption
<1> QED BY <1>1, <1>2, <1>3, <1>4, <1>5, DrainStep

\* A draining operation that was handed a permit.
LEMMA OpResumeStep ==
  ASSUME IInv, NEW o \in Ops, OpResume(o)
  PROVE  IInv'
<1>0. /\ o \in Tasks /\ pc[o] = "waiting" /\ o \in granted
      /\ UNCHANGED <<owner, lockq, gate, unwinding, activeTurns, waitingTurns, parkedTurns>>
  BY DEF OpResume, Tasks
<1>1. PICK q \in QueuesWithout(o) :
        \E G \in Woken(Spare, q, granted \ {o}) :
          /\ granted' = (granted \ {o}) \cup G
          /\ Drain(o, value - Cardinality(G), acquired + 1, q)
  BY DEF OpResume
<1>2. PICK G \in Woken(Spare, q, granted \ {o}) :
          /\ granted' = (granted \ {o}) \cup G
          /\ Drain(o, value - Cardinality(G), acquired + 1, q)
  BY <1>1
<1>3. /\ q \in Seq(Tasks) /\ Distinct(q) /\ ToSet(q) = ToSet(waiters) \ {o}
      /\ granted \ {o} \subseteq ToSet(q)
  BY <1>0, LeaveFacts
<1>4. /\ granted \ {o} \in SUBSET Tasks
      /\ Cardinality(granted \ {o}) = Cardinality(granted) - 1
  BY <1>0, GrantedWithout DEF IInv
<1>5. value \in Nat
  BY NAssumption DEF IInv, TypeOK
<1>6. granted' \subseteq ToSet(q) /\ granted' \subseteq Tasks
  BY <1>2, <1>3, <1>4, <1>5, PassOnFacts
<1>7. value - Cardinality(G) \in Nat /\ Cardinality(G) \in Nat
  BY <1>2, <1>3, <1>4, <1>5, PassOnFacts
<1>8. Cardinality(granted') = Cardinality(granted \ {o}) + Cardinality(G)
  BY <1>2, <1>3, <1>4, <1>5, PassOnFacts
<1>9. /\ Cardinality(granted) \in Nat /\ Cardinality(granted) > 0
      /\ Cardinality(Running) \in Nat
  BY <1>0, Counts, FS_EmptySet DEF IInv
<1>10. /\ acquired + 1 \in 0..N /\ acquired <= acquired + 1
       /\ (value - Cardinality(G)) + (acquired + 1) + Cardinality(granted')
            + Cardinality(Running) = N
  BY <1>4, <1>5, <1>7, <1>8, <1>9, NAssumption, SMTT(30) DEF IInv, TypeOK, PermitsConserved
<1>11. /\ owner' = o
       /\ \A p \in Ops \ {o} : pc[p] \notin {"waiting", "body", "leaked"}
  BY <1>0 DEF IInv, OwnerInv
<1>12. \A t \in Tasks \ {o} : pc[t] = "waiting" <=> t \in ToSet(q)
  BY <1>3 DEF IInv, QueueInv
<1>13. lockq' \in Seq(Ops) /\ gate' \in Seq(GateOps) /\ o \notin ToSet(q)
  BY <1>0, <1>3 DEF IInv, TypeOK
<1> QED
  BY <1>0, <1>2, <1>3, <1>6, <1>7, <1>10, <1>11, <1>12, <1>13, DrainStep

\* The window closes: the drained slots and the extra permit go back.
LEMMA CloseWindowStep ==
  ASSUME IInv, NEW o \in Ops, pc[o] \in {"waiting", "body"}, NEW extra \in Nat,
         NEW q \in Seq(Tasks), NEW g \in SUBSET Tasks,
         Distinct(q), g \subseteq ToSet(q), o \notin ToSet(q),
         \A t \in Tasks \ {o} : pc[t] = "waiting" <=> t \in ToSet(q),
         extra + Cardinality(g) = Cardinality(granted),
         CloseWindow(o, extra, q, g),
         lockq' \in Seq(Ops), gate' \in Seq(GateOps)
  PROVE  IInv'
<1> USE DEF IInv
<1>0. /\ o \in Tasks /\ o \notin Turns /\ owner = o
      /\ acquired' = 0 /\ owner' = NoOp /\ pc' = [pc EXCEPT ![o] = "idle"]
      /\ UNCHANGED <<unwinding, activeTurns, waitingTurns, parkedTurns>>
  BY TaskAssumption DEF Tasks, OwnerInv, CloseWindow
<1>1. acquired \in Nat /\ value \in Nat /\ acquired + extra \in Nat
  BY NAssumption DEF TypeOK
<1>2. /\ waiters' = q
      /\ granted' \subseteq ToSet(q) /\ granted' \subseteq Tasks
      /\ value' \in Nat
      /\ Cardinality(g) \in Nat /\ Cardinality(granted') \in Nat
      /\ value' + Cardinality(granted') = value + (acquired + extra) + Cardinality(g)
  BY <1>1, ReleaseFacts DEF CloseWindow
<1>3. Running' = Running
  BY <1>0 DEF Running, TypeOK, Tasks
<1>4. Cardinality(Running) \in Nat /\ Cardinality(granted) \in Nat
  BY Counts
<1>5. PermitsConserved'
  <2>1. value + Cardinality(granted) + Cardinality(Running) + acquired = N
    BY DEF PermitsConserved
  <2>2. value' + Cardinality(granted') + Cardinality(Running) = N
    <3>1. value' + Cardinality(granted') = value + acquired + Cardinality(granted)
      <4>1. extra \in Nat /\ extra + Cardinality(g) = Cardinality(granted)
        OBVIOUS
      <4> QED BY ONLY <1>1, <1>2, <1>4, <4>1, SMTT(30)
    <3> QED BY ONLY <1>1, <1>2, <1>4, <2>1, <3>1, NAssumption
  <2> QED BY <1>0, <1>2, <1>3, <1>4, <2>2 DEF PermitsConserved
<1>6. value' \in 0..N
  BY <1>0, <1>2, <1>3, <1>4, <1>5, NAssumption DEF PermitsConserved
<1>7. slotsInUse' \in Nat
  BY <1>1 DEF CloseWindow, Less, TypeOK
<1>8. TypeOK'
  BY <1>0, <1>2, <1>6, <1>7, NAssumption, SMTT(30) DEF TypeOK, Tasks
<1>9. QueueInv'
  BY <1>0, <1>2 DEF QueueInv, TypeOK
<1>10. OwnerInv'
  BY <1>0, TaskAssumption DEF OwnerInv, TypeOK, Tasks
<1> QED BY <1>5, <1>8, <1>9, <1>10

\* A body that ends closes its window or, through the gate, leaks it.
LEMMA OpExitStep ==
  ASSUME IInv, NEW o \in Ops, OpExit(o)
  PROVE  IInv'
<1>0. pc[o] = "body" /\ lockq' = lockq /\ o \in Tasks
  BY DEF OpExit, Tasks
<1>1. CASE CloseWindow(o, 0, waiters, granted) /\ gate' \in Seq(GateOps)
  <2>1. /\ waiters \in Seq(Tasks) /\ granted \in SUBSET Tasks /\ Distinct(waiters)
        /\ granted \subseteq ToSet(waiters) /\ o \notin ToSet(waiters)
        /\ \A t \in Tasks \ {o} : pc[t] = "waiting" <=> t \in ToSet(waiters)
        /\ lockq' \in Seq(Ops)
    BY <1>0 DEF IInv, TypeOK, QueueInv
  <2>2. 0 + Cardinality(granted) = Cardinality(granted)
    BY Counts DEF IInv
  <2> QED BY <1>0, <1>1, <2>1, <2>2, CloseWindowStep
<1>2. CASE /\ pc' = [pc EXCEPT ![o] = "leaked"] /\ gate' \in Seq(GateOps)
           /\ UNCHANGED <<unwinding, semVars, owner, acquired, counters>>
  <2>1. Running' = Running
    BY <1>0, <1>2, TaskAssumption DEF Running, IInv, TypeOK, Tasks
  <2>2. TypeOK'
    BY <1>0, <1>2, TaskAssumption DEF IInv, TypeOK, Tasks, semVars, counters
  <2>3. QueueInv'
    BY <1>0, <1>2 DEF IInv, TypeOK, QueueInv, semVars
  <2>4. OwnerInv'
    BY <1>0, <1>2 DEF IInv, TypeOK, OwnerInv, Tasks
  <2>5. PermitsConserved'
    BY <1>2, <2>1 DEF IInv, PermitsConserved, semVars
  <2> QED BY <2>2, <2>3, <2>4, <2>5 DEF IInv
<1>3. CASE o \in GateOps
  <2>1. gate' = Front(gate)
    BY <1>3 DEF OpExit
  <2>2. gate' \in Seq(GateOps)
    BY <2>1 DEF Front, IInv, TypeOK
  <2> QED BY <1>1, <1>2, <1>3, <2>2 DEF OpExit
<1>4. CASE o \notin GateOps
  <2>1. gate' = gate /\ CloseWindow(o, 0, waiters, granted)
    BY <1>4 DEF OpExit
  <2> QED BY <1>1, <2>1 DEF IInv, TypeOK
<1> QED BY <1>3, <1>4

\* A draining operation that is cancelled.
LEMMA OpCancelDrainStep ==
  ASSUME IInv, NEW o \in Ops, OpCancelDrain(o)
  PROVE  IInv'
<1> DEFINE k == IF o \in granted THEN 1 ELSE 0
<1>0. pc[o] = "waiting" /\ o \in Tasks /\ UNCHANGED <<lockq, gate>>
  BY DEF OpCancelDrain, Tasks
<1>1. PICK q \in QueuesWithout(o) : CloseWindow(o, k, q, granted \ {o})
  BY DEF OpCancelDrain
<1>2. /\ q \in Seq(Tasks) /\ Distinct(q) /\ ToSet(q) = ToSet(waiters) \ {o}
      /\ granted \ {o} \subseteq ToSet(q)
  BY <1>0, LeaveFacts
<1>3. /\ granted \ {o} \in SUBSET Tasks
      /\ k + Cardinality(granted \ {o}) = Cardinality(granted)
  BY GrantedWithout, Counts DEF IInv
<1>4. k \in Nat
  OBVIOUS
<1> HIDE DEF k
<1>5. \A t \in Tasks \ {o} : pc[t] = "waiting" <=> t \in ToSet(q)
  BY <1>2 DEF IInv, QueueInv
<1>6. lockq' \in Seq(Ops) /\ gate' \in Seq(GateOps) /\ o \notin ToSet(q)
  BY <1>0, <1>2 DEF IInv, TypeOK
<1> QED BY <1>0, <1>1, <1>2, <1>3, <1>4, <1>5, <1>6, CloseWindowStep

\* exclusive() is called: the lock is free and is taken, or it is awaited.
LEMMA OpEnterStep ==
  ASSUME IInv, NEW o \in Ops, OpEnter(o)
  PROVE  IInv'
<1>0. /\ pc[o] = "idle" /\ o \in Tasks /\ o \notin Turns
      /\ UNCHANGED <<unwinding, activeTurns, waitingTurns, parkedTurns>>
  BY TaskAssumption DEF OpEnter, Tasks
<1>1. gate' \in Seq(GateOps)
  <2>0. gate \in Seq(GateOps)
    BY DEF IInv, TypeOK
  <2>1. CASE o \in GateOps
    <3>1. gate' = Append(gate, o)
      BY <2>1, Zenon DEF OpEnter
    <3> QED BY ONLY <2>0, <2>1, <3>1
  <2>2. CASE o \notin GateOps
    BY <2>0, <2>2, Zenon DEF OpEnter
  <2> QED BY <2>1, <2>2
<1>2. CASE owner = NoOp /\ lockq = <<>>
  <2>1. /\ owner' = o /\ Drain(o, value, 0, waiters)
        /\ lockq' = lockq /\ granted' = granted
    BY <1>2 DEF OpEnter
  <2>2. lockq' \in Seq(Ops)
    BY <2>1 DEF IInv, TypeOK
  <2> QED BY <1>0, <1>1, <1>2, <2>1, <2>2, TakeLockStep
<1>3. CASE ~(owner = NoOp /\ lockq = <<>>)
  <2>1. /\ lockq' = Append(lockq, o) /\ pc' = [pc EXCEPT ![o] = "lockwait"]
        /\ UNCHANGED <<owner, acquired, semVars, slotsInUse>>
    BY <1>3 DEF OpEnter
  <2>2. Running' = Running
    BY <1>0, <2>1 DEF Running, IInv, TypeOK, Tasks
  <2>3. TypeOK'
    BY <1>0, <1>1, <2>1 DEF IInv, TypeOK, Tasks, semVars
  <2>4. QueueInv'
    BY <1>0, <2>1 DEF IInv, TypeOK, QueueInv, semVars
  <2>5. OwnerInv'
    BY <1>0, <2>1 DEF IInv, TypeOK, OwnerInv, Tasks
  <2>6. PermitsConserved'
    BY <2>1, <2>2 DEF IInv, PermitsConserved, semVars
  <2> QED BY <2>3, <2>4, <2>5, <2>6 DEF IInv
<1> QED BY <1>2, <1>3

\* The oldest waiter takes the exclusive lock.
LEMMA OpLockStep ==
  ASSUME IInv, NEW o \in Ops, OpLock(o)
  PROVE  IInv'
<1>1. /\ owner = NoOp /\ owner' = o /\ Drain(o, value, 0, waiters)
      /\ lockq # <<>> /\ lockq' = Tail(lockq) /\ granted' = granted /\ gate' = gate
      /\ UNCHANGED <<unwinding, activeTurns, waitingTurns, parkedTurns>>
  BY DEF OpLock
<1>2. lockq' \in Seq(Ops) /\ gate' \in Seq(GateOps)
  BY <1>1 DEF IInv, TypeOK
<1> QED BY <1>1, <1>2, TakeLockStep

\* A waiter of the exclusive lock is cancelled.
LEMMA OpCancelLockStep ==
  ASSUME IInv, NEW o \in Ops, OpCancelLock(o)
  PROVE  IInv'
<1>0. /\ pc[o] = "lockwait" /\ o \in Tasks /\ o \notin Turns
      /\ pc' = [pc EXCEPT ![o] = "idle"]
      /\ UNCHANGED <<unwinding, semVars, owner, acquired, gate, counters>>
  BY TaskAssumption DEF OpCancelLock, Tasks
<1>1. lockq' \in Seq(Ops)
  <2>1. PICK i \in DOMAIN lockq : lockq' = RemoveAt(lockq, i)
    BY DEF OpCancelLock
  <2>2. lockq \in Seq(Ops)
    BY DEF IInv, TypeOK
  <2> QED BY <2>1, <2>2, RemoveAtShape
<1>2. Running' = Running
  BY <1>0 DEF Running, IInv, TypeOK, Tasks
<1>3. TypeOK'
  BY <1>0, <1>1 DEF IInv, TypeOK, Tasks, semVars, counters
<1>4. QueueInv'
  BY <1>0 DEF IInv, TypeOK, QueueInv, semVars
<1>5. OwnerInv'
  BY <1>0 DEF IInv, TypeOK, OwnerInv, Tasks
<1>6. PermitsConserved'
  BY <1>0, <1>2 DEF IInv, PermitsConserved, semVars
<1> QED BY <1>3, <1>4, <1>5, <1>6 DEF IInv

-----------------------------------------------------------------------------
(* The theorems                                                            *)

\* The constructor establishes the inductive invariant.
LEMMA InitIInv == Init => IInv
<1> SUFFICES ASSUME Init PROVE IInv
  OBVIOUS
<1>1. TypeOK
  BY NAssumption, TaskAssumption DEF Init, TypeOK, Tasks
<1>2. QueueInv
  BY DEF Init, QueueInv, Distinct, ToSet
<1>3. OwnerInv
  BY TaskAssumption DEF Init, OwnerInv, Tasks
<1>4. PermitsConserved
  <2>1. Running = {} /\ granted = {}
    BY DEF Init, Running, Tasks
  <2> QED BY <2>1, FS_EmptySet, NAssumption DEF Init, PermitsConserved
<1> QED BY <1>1, <1>2, <1>3, <1>4 DEF IInv

\* Every step of every task preserves it.
LEMMA NextIInv == IInv /\ [Next]_vars => IInv'
<1> SUFFICES ASSUME IInv, [Next]_vars PROVE IInv'
  OBVIOUS
<1>1. ASSUME NEW t \in Turns, TurnStart(t) PROVE IInv'
  <2>1. pc[t] = "idle" /\ AcquireSlot(t) /\ UNCHANGED <<unwinding, lockVars, parkedTurns>>
    BY <1>1 DEF TurnStart
  <2>2. unwinding' \subseteq Turns /\ parkedTurns' \in Nat
    BY <2>1 DEF IInv, TypeOK
  <2> QED BY <2>1, <2>2, AcquireSlotStep
<1>2. ASSUME NEW t \in Turns, TurnFinish(t) PROVE IInv'
  <2>1. /\ pc[t] = "running" /\ ReleaseSlot /\ pc' = [pc EXCEPT ![t] = "idle"]
        /\ UNCHANGED <<lockVars, waitingTurns>>
    BY <1>2 DEF TurnFinish
  <2>2. unwinding' \subseteq Turns /\ parkedTurns' \in Nat
    BY <1>2 DEF TurnFinish, IInv, TypeOK
  <2> QED BY <2>1, <2>2, ReleaseSlotStep
<1>3. ASSUME NEW t \in Turns, TurnPark(t) PROVE IInv'
  <2>1. /\ pc[t] = "running" /\ ReleaseSlot /\ pc' = [pc EXCEPT ![t] = "parked"]
        /\ UNCHANGED <<lockVars, waitingTurns>>
    BY <1>3 DEF TurnPark
  <2>2. unwinding' \subseteq Turns /\ parkedTurns' \in Nat
    BY <1>3 DEF TurnPark, IInv, TypeOK
  <2> QED BY <2>1, <2>2, ReleaseSlotStep
<1>4. ASSUME NEW t \in Turns, NEW cancelled \in BOOLEAN, TurnUnpark(t, cancelled)
      PROVE  IInv'
  <2>1. pc[t] = "parked" /\ AcquireSlot(t) /\ UNCHANGED lockVars
    BY <1>4 DEF TurnUnpark
  <2>2. unwinding' \subseteq Turns /\ parkedTurns' \in Nat
    BY <1>4 DEF TurnUnpark, Less, IInv, TypeOK
  <2> QED BY <2>1, <2>2, AcquireSlotStep
<1>5. CASE UNCHANGED vars
  <2>1. Running' = Running
    BY <1>5 DEF vars, Running
  <2> QED BY <1>5, <2>1 DEF vars, semVars, lockVars, counters, IInv, TypeOK, QueueInv,
                            OwnerInv, PermitsConserved
<1> QED
  BY <1>1, <1>2, <1>3, <1>4, <1>5, TurnResumeStep, TurnCancelWaitingStep, OpEnterStep,
     OpLockStep, OpResumeStep, OpExitStep, OpCancelDrainStep, OpCancelLockStep
  DEF Next, TurnStep, OpStep

\* IInv holds in every reachable state of TurnAdmission.
THEOREM Invariance == Spec => []IInv
  BY InitIInv, NextIInv, PTL DEF Spec

\* The variables of the admission controller keep their types; in particular
\* the semaphore's value stays within 0..N.
THEOREM TypeCorrect == Spec => []TypeOK
<1>1. IInv => TypeOK
  BY DEF IInv
<1> QED BY <1>1, Invariance, PTL

\* No interleaving of acquiring, parking, cancelling and draining creates or
\* loses a permit: the capacity max_concurrent_turns is never inflated.
THEOREM PermitConservation == Spec => []PermitsConserved
<1>1. IInv => PermitsConserved
  BY DEF IInv
<1> QED BY <1>1, Invariance, PTL

\* The body of exclusive() runs with no turn in flight and no other window.
THEOREM ExclusiveIsolation == Spec => []ExclusiveAlone
<1>1. IInv => ExclusiveAlone
  <2> SUFFICES ASSUME IInv, InWindow # {}
               PROVE  Running = {} /\ Cardinality(InWindow) = 1
    BY DEF ExclusiveAlone
  <2>1. PICK o \in Ops : pc[o] \in {"body", "leaked"}
    BY DEF InWindow
  <2>2. owner = o /\ acquired = N
    BY <2>1 DEF IInv, OwnerInv
  <2>3. InWindow = {o}
    BY <2>1, <2>2 DEF InWindow, IInv, OwnerInv
  <2>4. Cardinality(InWindow) = 1
    BY <2>3, FS_Singleton
  <2>5. Cardinality(Running) = 0
    BY <2>2, Counts, NAssumption DEF IInv, TypeOK, PermitsConserved
  <2> QED BY <2>4, <2>5, Counts, FS_EmptySet DEF IInv
<1> QED BY <1>1, Invariance, PTL

-----------------------------------------------------------------------------
(* The metrics                                                             *)

\* The turns at p, and how many they are, when f says where each task is.
At(f, p) == {t \in Turns : f[t] = p}
Num(f, p) == Cardinality(At(f, p))

\* Turns can be counted.
LEMMA NumType == ASSUME NEW f, NEW p PROVE IsFiniteSet(At(f, p)) /\ Num(f, p) \in Nat
<1>1. At(f, p) \in SUBSET Turns /\ IsFiniteSet(Turns)
  BY TaskAssumption DEF At
<1> QED BY <1>1, FS_Subset, FS_CardinalityType DEF Num

\* What the metrics count.
LEMMA MetricsMeaning ==
  MetricsExact <=> /\ activeTurns = Num(pc, "running")
                   /\ slotsInUse = Num(pc, "running") + acquired
                   /\ waitingTurns = Num(pc, "waiting")
                   /\ parkedTurns = Num(pc, "parked")
  BY DEF MetricsExact, Running, Num, At

LEMMA MetricsMeaningPrimed ==
  MetricsExact' <=> /\ activeTurns' = Num(pc', "running")
                    /\ slotsInUse' = Num(pc', "running") + acquired'
                    /\ waitingTurns' = Num(pc', "waiting")
                    /\ parkedTurns' = Num(pc', "parked")
  BY DEF MetricsExact, Running, Num, At

\* t is at v in g, and elsewhere g is f.
Moves(f, g, t, v) == g[t] = v /\ \A u \in Turns \ {t} : g[u] = f[u]

\* A turn moves: one count goes down, one goes up.
LEMMA TurnCounted ==
  ASSUME NEW f, NEW g, NEW t \in Turns, NEW v, Moves(f, g, t, v), NEW p
  PROVE  /\ Num(f, p) \in Nat
         /\ f[t] = p /\ v # p => Num(f, p) > 0 /\ Num(g, p) = Num(f, p) - 1
         /\ f[t] # p /\ v = p => Num(g, p) = Num(f, p) + 1
         /\ (f[t] = p <=> v = p) => Num(g, p) = Num(f, p)
<1>1. IsFiniteSet(At(f, p)) /\ Cardinality(At(f, p)) \in Nat
  BY NumType DEF Num
<1>2. ASSUME f[t] = p, v # p
      PROVE  /\ Cardinality(At(f, p)) > 0
             /\ Cardinality(At(g, p)) = Cardinality(At(f, p)) - 1
  <2>1. At(g, p) = At(f, p) \ {t} /\ t \in At(f, p) /\ At(f, p) # {}
    BY <1>2 DEF At, Moves
  <2>2. Cardinality(At(f, p)) # 0
    BY <1>1, <2>1, FS_EmptySet
  <2>3. Cardinality(At(f, p) \ {t}) = Cardinality(At(f, p)) - 1
    BY <1>1, <2>1, FS_RemoveElement
  <2>4. Cardinality(At(g, p)) = Cardinality(At(f, p)) - 1
    BY <2>1, <2>3, Zenon
  <2>5. Cardinality(At(f, p)) > 0
    BY <1>1, <2>2
  <2> QED BY <2>4, <2>5
<1>3. ASSUME f[t] # p, v = p
      PROVE  Cardinality(At(g, p)) = Cardinality(At(f, p)) + 1
  <2>1. At(g, p) = At(f, p) \cup {t} /\ t \notin At(f, p)
    BY <1>3 DEF At, Moves
  <2> QED BY <1>1, <2>1, FS_AddElement
<1>4. ASSUME f[t] = p <=> v = p PROVE At(g, p) = At(f, p)
  BY <1>4 DEF At, Moves
<1> QED BY <1>1, <1>2, <1>3, <1>4 DEF Num

\* An operation moves, or nobody does: no count changes.
LEMMA OthersCounted ==
  ASSUME NEW f, NEW g, \A t \in Turns : g[t] = f[t], NEW p
  PROVE  Num(g, p) = Num(f, p) /\ Num(f, p) \in Nat
<1>1. At(g, p) = At(f, p)
  BY DEF At
<1> QED BY <1>1, NumType DEF Num

\* The counters of a turn that asks for a slot, from either place.
LEMMA AcquireCounted ==
  ASSUME IInv, MetricsExact, NEW t \in Turns, AcquireSlot(t), acquired' = acquired,
         \/ pc[t] = "idle" /\ parkedTurns' = parkedTurns
         \/ pc[t] = "parked" /\ parkedTurns' = Less(parkedTurns, 1)
  PROVE  MetricsExact'
<1>1. /\ TypeOK /\ acquired \in Nat
      /\ activeTurns = Num(pc, "running") /\ slotsInUse = Num(pc, "running") + acquired
      /\ waitingTurns = Num(pc, "waiting") /\ parkedTurns = Num(pc, "parked")
  BY MetricsMeaning, NAssumption DEF IInv, TypeOK
<1>2. CASE SemLocked
  <2>1. /\ waitingTurns' = waitingTurns + 1 /\ pc' = [pc EXCEPT ![t] = "waiting"]
        /\ slotsInUse' = slotsInUse /\ activeTurns' = activeTurns
    BY <1>2 DEF AcquireSlot
  <2>2. Moves(pc, pc', t, "waiting")
    BY <1>1, <2>1 DEF TypeOK, Tasks, Moves
  <2>3. /\ Num(pc', "running") = Num(pc, "running")
        /\ Num(pc', "waiting") = Num(pc, "waiting") + 1
        /\ Num(pc, "running") \in Nat /\ Num(pc, "waiting") \in Nat
        /\ Num(pc, "parked") \in Nat
        /\ pc[t] = "idle" => Num(pc', "parked") = Num(pc, "parked")
        /\ pc[t] = "parked" => /\ Num(pc, "parked") > 0
                               /\ Num(pc', "parked") = Num(pc, "parked") - 1
    BY <2>2, TurnCounted
  <2> QED BY <1>1, <2>1, <2>3, MetricsMeaningPrimed DEF Less
<1>3. CASE ~SemLocked
  <2>1. /\ slotsInUse' = slotsInUse + 1 /\ activeTurns' = activeTurns + 1
        /\ waitingTurns' = waitingTurns /\ pc' = [pc EXCEPT ![t] = "running"]
    BY <1>3 DEF AcquireSlot
  <2>2. Moves(pc, pc', t, "running")
    BY <1>1, <2>1 DEF TypeOK, Tasks, Moves
  <2>3. /\ Num(pc', "running") = Num(pc, "running") + 1
        /\ Num(pc', "waiting") = Num(pc, "waiting")
        /\ Num(pc, "running") \in Nat /\ Num(pc, "waiting") \in Nat
        /\ Num(pc, "parked") \in Nat
        /\ pc[t] = "idle" => Num(pc', "parked") = Num(pc, "parked")
        /\ pc[t] = "parked" => /\ Num(pc, "parked") > 0
                               /\ Num(pc', "parked") = Num(pc, "parked") - 1
    BY <2>2, TurnCounted
  <2> QED BY <1>1, <2>1, <2>3, MetricsMeaningPrimed DEF Less
<1> QED BY <1>2, <1>3

\* The counters of a turn that gives its slot back, to end or to park.
LEMMA ReleaseCounted ==
  ASSUME IInv, MetricsExact, NEW t \in Turns, TurnFinish(t) \/ TurnPark(t)
  PROVE  MetricsExact'
<1>1. /\ TypeOK /\ acquired \in Nat
      /\ activeTurns = Num(pc, "running") /\ slotsInUse = Num(pc, "running") + acquired
      /\ waitingTurns = Num(pc, "waiting") /\ parkedTurns = Num(pc, "parked")
  BY MetricsMeaning, NAssumption DEF IInv, TypeOK
<1>2. /\ pc[t] = "running" /\ acquired' = acquired
      /\ activeTurns' = Less(activeTurns, 1) /\ slotsInUse' = Less(slotsInUse, 1)
      /\ waitingTurns' = waitingTurns
  BY DEF TurnFinish, TurnPark, ReleaseSlot, lockVars
<1>3. \/ pc' = [pc EXCEPT ![t] = "idle"] /\ parkedTurns' = parkedTurns
      \/ pc' = [pc EXCEPT ![t] = "parked"] /\ parkedTurns' = parkedTurns + 1
  BY DEF TurnFinish, TurnPark
<1>4. /\ Num(pc, "running") > 0 /\ Num(pc', "running") = Num(pc, "running") - 1
      /\ Num(pc', "waiting") = Num(pc, "waiting")
      /\ Num(pc, "running") \in Nat /\ Num(pc, "waiting") \in Nat
      /\ Num(pc, "parked") \in Nat
      /\ parkedTurns' = Num(pc', "parked")
  <2>1. CASE pc' = [pc EXCEPT ![t] = "idle"] /\ parkedTurns' = parkedTurns
    <3>1. Moves(pc, pc', t, "idle")
      BY <1>1, <2>1 DEF TypeOK, Tasks, Moves
    <3> QED BY <1>1, <1>2, <2>1, <3>1, TurnCounted
  <2>2. CASE pc' = [pc EXCEPT ![t] = "parked"] /\ parkedTurns' = parkedTurns + 1
    <3>1. Moves(pc, pc', t, "parked")
      BY <1>1, <2>2 DEF TypeOK, Tasks, Moves
    <3> QED BY <1>1, <1>2, <2>2, <3>1, TurnCounted
  <2> QED BY <1>3, <2>1, <2>2
<1> QED BY <1>1, <1>2, <1>4, MetricsMeaningPrimed DEF Less

\* The counters of a turn that leaves the queue, with a slot or cancelled.
LEMMA LeaveCounted ==
  ASSUME IInv, MetricsExact, NEW t \in Turns, TurnResume(t) \/ TurnCancelWaiting(t)
  PROVE  MetricsExact'
<1>1. /\ TypeOK /\ acquired \in Nat
      /\ activeTurns = Num(pc, "running") /\ slotsInUse = Num(pc, "running") + acquired
      /\ waitingTurns = Num(pc, "waiting") /\ parkedTurns = Num(pc, "parked")
  BY MetricsMeaning, NAssumption DEF IInv, TypeOK
<1>2. /\ pc[t] = "waiting" /\ acquired' = acquired
      /\ waitingTurns' = Less(waitingTurns, 1) /\ parkedTurns' = parkedTurns
  BY DEF TurnResume, TurnCancelWaiting, lockVars
<1>3. CASE TurnResume(t)
  <2>1. /\ pc' = [pc EXCEPT ![t] = "running"]
        /\ slotsInUse' = slotsInUse + 1 /\ activeTurns' = activeTurns + 1
    BY <1>3 DEF TurnResume
  <2>2. Moves(pc, pc', t, "running")
    BY <1>1, <2>1 DEF TypeOK, Tasks, Moves
  <2>3. /\ Num(pc', "running") = Num(pc, "running") + 1
        /\ Num(pc', "parked") = Num(pc, "parked")
        /\ Num(pc, "waiting") > 0 /\ Num(pc', "waiting") = Num(pc, "waiting") - 1
        /\ Num(pc, "running") \in Nat /\ Num(pc, "waiting") \in Nat
    BY <1>2, <2>2, TurnCounted
  <2> QED BY <1>1, <1>2, <2>1, <2>3, MetricsMeaningPrimed DEF Less
<1>4. CASE TurnCancelWaiting(t)
  <2>1. /\ pc' = [pc EXCEPT ![t] = "idle"]
        /\ slotsInUse' = slotsInUse /\ activeTurns' = activeTurns
    BY <1>4 DEF TurnCancelWaiting
  <2>2. Moves(pc, pc', t, "idle")
    BY <1>1, <2>1 DEF TypeOK, Tasks, Moves
  <2>3. /\ Num(pc', "running") = Num(pc, "running")
        /\ Num(pc', "parked") = Num(pc, "parked")
        /\ Num(pc, "waiting") > 0 /\ Num(pc', "waiting") = Num(pc, "waiting") - 1
        /\ Num(pc, "running") \in Nat /\ Num(pc, "waiting") \in Nat
    BY <1>2, <2>2, TurnCounted
  <2> QED BY <1>1, <1>2, <2>1, <2>3, MetricsMeaningPrimed DEF Less
<1> QED BY <1>3, <1>4

\* An exclusive operation counts only the slots it drains and gives back.
LEMMA OpCounted ==
  ASSUME IInv, MetricsExact, NEW o \in Ops, OpStep(o)
  PROVE  MetricsExact'
<1>1. /\ TypeOK /\ acquired \in Nat
      /\ activeTurns = Num(pc, "running") /\ slotsInUse = Num(pc, "running") + acquired
      /\ waitingTurns = Num(pc, "waiting") /\ parkedTurns = Num(pc, "parked")
  BY MetricsMeaning, NAssumption DEF IInv, TypeOK
<1>2. acquired' \in Nat
  BY NextIInv, NAssumption DEF Next, IInv, TypeOK
<1>3. ASSUME NEW val \in Int, NEW acq \in Int, NEW q, Drain(o, val, acq, q)
      PROVE  /\ \E v : pc' = [pc EXCEPT ![o] = v]
             /\ slotsInUse' = slotsInUse + (acquired' - acquired)
  <2> DEFINE k == IF q = <<>> THEN Smaller(val, N - acq) ELSE 0
             next == IF acq + k = N THEN "body" ELSE "waiting"
  <2>1. k \in Int /\ slotsInUse \in Int
    BY <1>1, NAssumption DEF Smaller, TypeOK
  <2>2. /\ acquired' = acq + k /\ slotsInUse' = slotsInUse + (acq + k - acquired)
        /\ pc' = [pc EXCEPT ![o] = next]
    BY <1>3 DEF Drain
  <2> HIDE DEF k, next
  <2>3. \E v : pc' = [pc EXCEPT ![o] = v]
    BY <2>2
  <2>4. slotsInUse' = slotsInUse + (acquired' - acquired)
    BY <1>1, <2>1, <2>2
  <2> QED BY <2>3, <2>4
<1>4. /\ UNCHANGED <<activeTurns, waitingTurns, parkedTurns>>
      /\ \E v : pc' = [pc EXCEPT ![o] = v]
      /\ \/ slotsInUse' = slotsInUse + (acquired' - acquired)
         \/ acquired' = 0 /\ slotsInUse' = Less(slotsInUse, acquired)
         \/ UNCHANGED <<acquired, slotsInUse>>
  <2>0. value \in Nat /\ value \in Int /\ 0 \in Int /\ acquired + 1 \in Int
    BY <1>1, NAssumption DEF TypeOK
  <2>1. CASE OpEnter(o)
    BY <1>3, <2>0, <2>1 DEF OpEnter
  <2>2. CASE OpLock(o)
    BY <1>3, <2>0, <2>2 DEF OpLock
  <2>3. CASE OpResume(o)
    <3>1. PICK q \in QueuesWithout(o) :
            \E G \in Woken(Spare, q, granted \ {o}) :
              Drain(o, value - Cardinality(G), acquired + 1, q)
      BY <2>3 DEF OpResume
    <3>2. PICK G \in Woken(Spare, q, granted \ {o}) :
            Drain(o, value - Cardinality(G), acquired + 1, q)
      BY <3>1
    <3>3. o \in Tasks /\ pc[o] = "waiting"
      BY <2>3 DEF OpResume, Tasks
    <3>4. q \in Seq(Tasks) /\ granted \ {o} \subseteq ToSet(q)
      BY <3>1, <3>3, LeaveFacts
    <3>5. granted \ {o} \in SUBSET Tasks
      BY <1>1, GrantedWithout
    <3>6. value - Cardinality(G) \in Nat
      BY <2>0, <3>2, <3>4, <3>5, PassOnFacts
    <3>7. UNCHANGED <<activeTurns, waitingTurns, parkedTurns>>
      BY <2>3 DEF OpResume
    <3> QED BY <1>3, <2>0, <3>2, <3>6, <3>7
  <2>4. CASE OpExit(o)
    BY <2>4 DEF OpExit, CloseWindow, counters
  <2>5. CASE OpCancelDrain(o)
    BY <2>5 DEF OpCancelDrain, CloseWindow
  <2>6. CASE OpCancelLock(o)
    BY <2>6 DEF OpCancelLock, counters
  <2> QED BY <2>1, <2>2, <2>3, <2>4, <2>5, <2>6 DEF OpStep
<1>5. \A t \in Turns : pc'[t] = pc[t]
  BY <1>1, <1>4, TaskAssumption DEF TypeOK, Tasks
<1>6. /\ Num(pc', "running") = Num(pc, "running")
      /\ Num(pc', "waiting") = Num(pc, "waiting")
      /\ Num(pc', "parked") = Num(pc, "parked") /\ Num(pc, "running") \in Nat
  BY <1>5, OthersCounted
<1>7. slotsInUse' = Num(pc, "running") + acquired'
  BY <1>1, <1>2, <1>4, <1>6 DEF Less
<1> QED BY <1>1, <1>4, <1>6, <1>7, MetricsMeaningPrimed

\* The counters of snapshot() are what they say they count, so that their
\* max(0, ...) guards never hide a miscount, whatever is parked, cancelled or
\* drained.
THEOREM MetricsAreExact == Spec => []MetricsExact
<1>1. Init => MetricsExact
  <2> SUFFICES ASSUME Init PROVE MetricsExact
    OBVIOUS
  <2>1. At(pc, "running") = {} /\ At(pc, "waiting") = {} /\ At(pc, "parked") = {}
    BY DEF Init, At, Tasks
  <2>2. Num(pc, "running") = 0 /\ Num(pc, "waiting") = 0 /\ Num(pc, "parked") = 0
    BY <2>1, FS_EmptySet DEF Num
  <2> QED BY <2>2, MetricsMeaning DEF Init
<1>2. IInv /\ MetricsExact /\ [Next]_vars => MetricsExact'
  <2> SUFFICES ASSUME IInv, MetricsExact, [Next]_vars PROVE MetricsExact'
    OBVIOUS
  <2>1. ASSUME NEW t \in Turns, TurnStart(t) PROVE MetricsExact'
    BY <2>1, AcquireCounted DEF TurnStart, lockVars
  <2>2. ASSUME NEW t \in Turns, NEW cancelled \in BOOLEAN, TurnUnpark(t, cancelled)
        PROVE  MetricsExact'
    BY <2>2, AcquireCounted DEF TurnUnpark, lockVars
  <2>3. CASE UNCHANGED vars
    BY <2>3 DEF vars, lockVars, counters, MetricsExact, Running
  <2> QED
    BY <2>1, <2>2, <2>3, ReleaseCounted, LeaveCounted, OpCounted DEF Next, TurnStep
<1> QED BY <1>1, <1>2, Invariance, PTL DEF Spec

-----------------------------------------------------------------------------
(* No wake-up is lost                                                      *)

\* While a permit is free, not every waiter is still to be handed one: the
\* waiter that was will pass the free one on when it runs (Spare).
Handed == value > 0 /\ waiters # <<>> => granted # {}

\* At least one call of _wake_up_next() on a deque leaves a waiter handed.
LEMMA WokenSome ==
  ASSUME NEW q \in Seq(Tasks), NEW g \in SUBSET Tasks, NEW k \in Nat,
         NEW G \in Woken(k, q, g), k > 0, q # <<>>
  PROVE  g \cup G # {}
<1> SUFFICES ASSUME g = {}, G = {} PROVE FALSE
  OBVIOUS
<1>1. ToSet(q) # {} /\ ToSet(q) \subseteq Tasks
  BY DEF ToSet
<1>2. IsFiniteSet(ToSet(q)) /\ Cardinality(ToSet(q)) \in Nat
  BY <1>1, TasksFinite, FS_Subset, FS_CardinalityType
<1>3. Cardinality(ToSet(q)) # 0
  BY <1>1, <1>2, FS_EmptySet
<1>4. Cardinality(G) = Smaller(k, Cardinality(ToSet(q)))
  <2>1. ToSet(q) \ g = ToSet(q)
    OBVIOUS
  <2> QED BY <2>1 DEF Woken
<1>5. Cardinality(G) = 0
  BY FS_EmptySet
<1> QED BY <1>2, <1>3, <1>4, <1>5 DEF Smaller

\* A release hands a permit over when somebody waits.
LEMMA ReleaseHands ==
  ASSUME NEW q \in Seq(Tasks), NEW g \in SUBSET Tasks, NEW k \in Nat, k > 0,
         SemRelease(k, q, g)
  PROVE  Handed'
<1>1. PICK G \in Woken(k, q, g) : waiters' = q /\ granted' = g \cup G
  BY DEF SemRelease
<1>2. q # <<>> => g \cup G # {}
  BY <1>1, WokenSome
<1> QED BY <1>1, <1>2 DEF Handed

\* A waiter that leaves without a permit takes no wake-up with it.
LEMMA NoReleaseHands ==
  ASSUME IInv, Handed, NEW t \in Tasks, pc[t] = "waiting", t \notin granted,
         NEW q \in QueuesWithout(t), SemRelease(0, q, granted \ {t})
  PROVE  Handed'
<1>1. q \in Seq(Tasks) /\ granted \ {t} \in SUBSET Tasks /\ value \in Nat
  BY LeaveFacts, GrantedWithout, NAssumption DEF IInv, TypeOK
<1>2. PICK G \in Woken(0, q, granted \ {t}) :
        granted' = (granted \ {t}) \cup G /\ value' = value + 0 - Cardinality(G)
  BY DEF SemRelease
<1>3. Cardinality(G) \in 0..0
  <2> DEFINE g == granted \ {t}
  <2>1. g \in SUBSET Tasks /\ G \in Woken(0, q, g)
    BY <1>1, <1>2
  <2> HIDE DEF g
  <2> QED BY <1>1, <2>1, WokenFacts
<1>4. value' = value /\ granted \subseteq granted'
  BY <1>1, <1>2, <1>3
<1>5. waiters # <<>>
  BY DEF QueuesWithout
<1> QED BY <1>4, <1>5 DEF Handed

\* A drain that has to wait leaves no permit free, or was handed by others.
LEMMA DrainHands ==
  ASSUME NEW o, NEW q, NEW val \in Nat, NEW acq \in 0..N, Drain(o, val, acq, q),
         val > 0 /\ q # <<>> => granted' # {}
  PROVE  Handed'
<1> DEFINE k == IF q = <<>> THEN Smaller(val, N - acq) ELSE 0
           full == acq + k = N
<1>1. value' = val - k /\ waiters' = IF full THEN q ELSE Append(q, o)
  BY DEF Drain
<1>2. CASE q # <<>>
  <2>1. value' = val
    BY <1>1, <1>2
  <2> QED BY <1>2, <2>1 DEF Handed
<1>3. CASE q = <<>>
  <2>1. CASE full
    BY <1>1, <1>3, <2>1 DEF Handed
  <2>2. CASE ~full
    <3>1. k = val
      BY <1>3, <2>2, NAssumption DEF Smaller
    <3>2. value' = 0
      BY <1>1, <3>1
    <3> QED BY <3>2 DEF Handed
  <2> QED BY <2>1, <2>2
<1> QED BY <1>2, <1>3

\* A waiter that resumes passes a free permit on.
LEMMA PassOnHands ==
  ASSUME NEW q \in Seq(Tasks), NEW g \in SUBSET Tasks, value \in Nat,
         NEW G \in Woken(Spare, q, g), value - Cardinality(G) > 0, q # <<>>
  PROVE  g \cup G # {}
<1>1. Spare \in Nat
  BY DEF Spare
<1>2. Cardinality(G) \in 0..Spare
  BY <1>1, WokenFacts
<1>3. Spare > 0
  BY <1>1, <1>2 DEF Spare
<1> QED BY <1>1, <1>3, WokenSome

\* Every step of a turn.
LEMMA TurnHands ==
  ASSUME IInv, Handed, NEW t \in Turns, TurnStep(t)
  PROVE  Handed'
<1>0. /\ t \in Tasks /\ value \in Nat /\ waiters \in Seq(Tasks)
      /\ granted \in SUBSET Tasks /\ granted \ {t} \in SUBSET Tasks
  BY NAssumption DEF IInv, TypeOK, Tasks
<1>1. ASSUME AcquireSlot(t) PROVE Handed'
  BY <1>0, <1>1 DEF AcquireSlot, SemLocked, Handed
<1>2. CASE TurnStart(t) \/ \E cancelled \in BOOLEAN : TurnUnpark(t, cancelled)
  BY <1>1, <1>2 DEF TurnStart, TurnUnpark
<1>3. CASE TurnFinish(t) \/ TurnPark(t)
  <2>1. SemRelease(1, waiters, granted)
    BY <1>3 DEF TurnFinish, TurnPark, ReleaseSlot
  <2> QED BY <1>0, <2>1, ReleaseHands
<1>4. CASE TurnResume(t)
  <2>1. pc[t] = "waiting"
    BY <1>4 DEF TurnResume
  <2>2. PICK q \in QueuesWithout(t) :
          \E G \in Woken(Spare, q, granted \ {t}) :
            /\ waiters' = q /\ granted' = (granted \ {t}) \cup G
            /\ value' = value - Cardinality(G)
    BY <1>4 DEF TurnResume
  <2>3. PICK G \in Woken(Spare, q, granted \ {t}) :
            /\ waiters' = q /\ granted' = (granted \ {t}) \cup G
            /\ value' = value - Cardinality(G)
    BY <2>2
  <2>4. q \in Seq(Tasks)
    BY <1>0, <2>1, LeaveFacts
  <2>5. value' > 0 /\ q # <<>> => (granted \ {t}) \cup G # {}
    BY <1>0, <2>3, <2>4, PassOnHands
  <2> QED BY <2>3, <2>5 DEF Handed
<1>5. CASE TurnCancelWaiting(t)
  <2>1. pc[t] = "waiting"
    BY <1>5 DEF TurnCancelWaiting
  <2>2. PICK q \in QueuesWithout(t) :
          SemRelease(IF t \in granted THEN 1 ELSE 0, q, granted \ {t})
    BY <1>5 DEF TurnCancelWaiting
  <2>3. q \in Seq(Tasks)
    BY <1>0, <2>1, LeaveFacts
  <2>4. CASE t \in granted
    <3>1. SemRelease(1, q, granted \ {t})
      BY <2>2, <2>4
    <3> QED BY <1>0, <2>3, <3>1, ReleaseHands
  <2>5. CASE t \notin granted
    <3>1. SemRelease(0, q, granted \ {t})
      BY <2>2, <2>5
    <3> QED BY <1>0, <2>1, <2>5, <3>1, NoReleaseHands
  <2> QED BY <2>4, <2>5
<1> QED BY <1>2, <1>3, <1>4, <1>5 DEF TurnStep

\* Every step of an exclusive operation.
LEMMA OpHands ==
  ASSUME IInv, Handed, NEW o \in Ops, OpStep(o)
  PROVE  Handed'
<1>0. /\ o \in Tasks /\ value \in Nat /\ acquired \in Nat /\ acquired <= N
      /\ waiters \in Seq(Tasks) /\ granted \in SUBSET Tasks
      /\ granted \ {o} \in SUBSET Tasks /\ N \in Nat \ {0} /\ 0 \in 0..N
  BY NAssumption DEF IInv, TypeOK, Tasks
<1>1. ASSUME Drain(o, value, 0, waiters), granted' = granted PROVE Handed'
  <2>1. value > 0 /\ waiters # <<>> => granted' # {}
    BY <1>1 DEF Handed
  <2> QED BY <1>0, <1>1, <2>1, DrainHands
<1>2. ASSUME UNCHANGED semVars PROVE Handed'
  BY <1>2 DEF Handed, semVars
<1>3. CASE OpEnter(o)
  BY <1>1, <1>2, <1>3 DEF OpEnter
<1>4. CASE OpLock(o)
  BY <1>1, <1>4 DEF OpLock
<1>5. CASE OpResume(o)
  <2>1. pc[o] = "waiting" /\ o \in granted
    BY <1>5 DEF OpResume
  <2>2. PICK q \in QueuesWithout(o) :
          \E G \in Woken(Spare, q, granted \ {o}) :
            /\ granted' = (granted \ {o}) \cup G
            /\ Drain(o, value - Cardinality(G), acquired + 1, q)
    BY <1>5 DEF OpResume
  <2>3. PICK G \in Woken(Spare, q, granted \ {o}) :
            /\ granted' = (granted \ {o}) \cup G
            /\ Drain(o, value - Cardinality(G), acquired + 1, q)
    BY <2>2
  <2>4. q \in Seq(Tasks) /\ granted \ {o} \subseteq ToSet(q)
    BY <1>0, <2>1, LeaveFacts
  <2>5. value - Cardinality(G) \in Nat
    BY <1>0, <2>3, <2>4, PassOnFacts
  <2>6. value - Cardinality(G) > 0 /\ q # <<>> => granted' # {}
    <3>1. value - Cardinality(G) > 0 /\ q # <<>> => (granted \ {o}) \cup G # {}
      BY <1>0, <2>3, <2>4, PassOnHands
    <3> QED BY <2>3, <3>1
  <2>7. acquired + 1 \in 0..N
    <3>1. /\ value + Cardinality(granted) + Cardinality(Running) + acquired = N
          /\ Cardinality(granted) \in Nat /\ Cardinality(Running) \in Nat
      BY Counts DEF IInv, PermitsConserved
    <3>2. Cardinality(granted) # 0
      BY <2>1, Counts, FS_EmptySet DEF IInv
    <3> QED BY <1>0, <3>1, <3>2
  <2> QED BY <2>3, <2>5, <2>6, <2>7, DrainHands
<1>6. CASE OpExit(o)
  <2>1. acquired = N /\ acquired + 0 \in Nat /\ acquired + 0 > 0
    BY <1>0, <1>6 DEF OpExit, IInv, OwnerInv
  <2>2. SemRelease(acquired + 0, waiters, granted) \/ UNCHANGED semVars
    BY <1>6 DEF OpExit, CloseWindow
  <2> QED BY <1>0, <1>2, <2>1, <2>2, ReleaseHands
<1>7. CASE OpCancelDrain(o)
  <2>1. pc[o] = "waiting"
    BY <1>7 DEF OpCancelDrain
  <2>2. PICK q \in QueuesWithout(o) :
          SemRelease(acquired + (IF o \in granted THEN 1 ELSE 0), q, granted \ {o})
    BY <1>7 DEF OpCancelDrain, CloseWindow
  <2>3. q \in Seq(Tasks)
    BY <1>0, <2>1, LeaveFacts
  <2>4. CASE o \in granted \/ acquired > 0
    <3> DEFINE k == acquired + (IF o \in granted THEN 1 ELSE 0)
    <3>1. k \in Nat /\ k > 0 /\ SemRelease(k, q, granted \ {o})
      BY <1>0, <2>2, <2>4
    <3> HIDE DEF k
    <3> QED BY <1>0, <2>3, <3>1, ReleaseHands
  <2>5. CASE o \notin granted /\ acquired = 0
    <3>1. SemRelease(0, q, granted \ {o})
      BY <2>2, <2>5
    <3> QED BY <1>0, <2>1, <2>5, <3>1, NoReleaseHands
  <2> QED BY <1>0, <2>4, <2>5
<1>8. CASE OpCancelLock(o)
  BY <1>2, <1>8 DEF OpCancelLock
<1> QED BY <1>3, <1>4, <1>5, <1>6, <1>7, <1>8 DEF OpStep

\* No wake-up of the semaphore is lost: whatever waiters resume, drain or are
\* cancelled, with or without a permit in hand, a permit is never free while
\* tasks wait and none of them has been handed one.  TurnsAdmitted and
\* ExclusiveServed rest on it.
THEOREM NoLostWakeup == Spec => []Handed
<1>1. Init => Handed
  BY DEF Init, Handed
<1>2. IInv /\ Handed /\ [Next]_vars => Handed'
  <2> SUFFICES ASSUME IInv, Handed, [Next]_vars PROVE Handed'
    OBVIOUS
  <2>1. CASE UNCHANGED vars
    BY <2>1 DEF vars, semVars, Handed
  <2> QED BY <2>1, TurnHands, OpHands DEF Next
<1> QED BY <1>1, <1>2, Invariance, PTL DEF Spec

-----------------------------------------------------------------------------
(* Refinement                                                              *)

\* What the abstract window is, in terms of the owner's program counter.
LEMMA WindowFacts ==
  ASSUME IInv
  PROVE  /\ Window = NoOp <=> InWindow = {}
         /\ Window # NoOp => Window = owner /\ InWindow = {owner}
         /\ Window # NoOp => Running = {}
<1>1. ASSUME NEW o \in InWindow
      PROVE  owner = o /\ o \in Ops /\ InWindow = {o} /\ Running = {}
  <2>1. o \in Ops /\ owner = o /\ acquired = N
    BY <1>1 DEF InWindow, IInv, OwnerInv
  <2>2. InWindow = {o}
    BY <1>1, <2>1 DEF InWindow, IInv, OwnerInv
  <2>3. Cardinality(Running) = 0
    BY <2>1, Counts, NAssumption DEF IInv, TypeOK, PermitsConserved
  <2> QED BY <2>1, <2>2, <2>3, Counts, FS_EmptySet DEF IInv
<1> QED BY <1>1, TaskAssumption DEF Window

\* The last of these facts, in a state and in the next.
LEMMA WindowAlone == IInv /\ Window # NoOp => Running = {}
  BY WindowFacts

LEMMA WindowPrimed == (IInv /\ Window # NoOp => Running = {})'
  BY WindowAlone, PTL

\* A free permit, or one handed over, means that no window is open and that
\* fewer than N turns run.
LEMMA RoomFacts ==
  ASSUME IInv, value > 0 \/ granted # {}
  PROVE  Window = NoOp /\ Cardinality(Running) < N
<1>1. /\ Cardinality(Running) \in Nat /\ Cardinality(granted) \in Nat
      /\ value \in Nat /\ acquired \in Nat
      /\ value + Cardinality(granted) + Cardinality(Running) + acquired = N
  BY Counts, NAssumption DEF IInv, TypeOK, PermitsConserved
<1>2. granted # {} => Cardinality(granted) > 0
  BY <1>1, Counts, FS_EmptySet DEF IInv
<1>3. Cardinality(Running) < N /\ acquired < N
  BY <1>1, <1>2, NAssumption
<1>4. InWindow = {}
  BY <1>3, NAssumption DEF InWindow, IInv, OwnerInv
<1> QED BY <1>3, <1>4 DEF Window

\* The contract's copy of Cardinality is Cardinality.
LEMMA SameCardinality == \A S : Contract!Cardinality(S) = Cardinality(S)
  BY Zenon DEF Contract!Cardinality, Cardinality

\* The abstract variables' stuttering and steps, for one task's move.
LEMMA TurnMove ==
  ASSUME IInv, NEW t \in Turns, NEW s \in {"idle", "waiting", "running", "parked"},
         pc' = [pc EXCEPT ![t] = s], owner' = owner
  PROVE  /\ Window' = Window
         /\ Running' = IF s = "running" THEN Running \cup {t} ELSE Running \ {t}
<1>1. InWindow' = InWindow
  BY TaskAssumption DEF InWindow, IInv, TypeOK, Tasks
<1>2. Window' = Window
  BY <1>1 DEF Window
<1>3. Running' = IF s = "running" THEN Running \cup {t} ELSE Running \ {t}
  BY DEF Running, IInv, TypeOK, Tasks
<1> QED BY <1>2, <1>3

LEMMA OpMove ==
  ASSUME IInv, NEW o \in Ops, NEW s \in {"idle", "lockwait", "waiting", "body", "leaked"},
         pc' = [pc EXCEPT ![o] = s]
  PROVE  /\ Running' = Running
         /\ InWindow' = IF s \in {"body", "leaked"} THEN InWindow \cup {o} ELSE InWindow \ {o}
  BY TaskAssumption DEF Running, InWindow, IInv, TypeOK, Tasks

\* A turn that asks for a slot is admitted or changes nothing visible.
LEMMA AcquireRefines ==
  ASSUME IInv, NEW t \in Turns, pc[t] \in {"idle", "parked"}, AcquireSlot(t),
         owner' = owner
  PROVE  Contract!Enter(t) \/ UNCHANGED <<Running, Window>>
<1>1. t \notin Running
  BY DEF Running
<1>2. CASE SemLocked
  <2>1. pc' = [pc EXCEPT ![t] = "waiting"]
    BY <1>2 DEF AcquireSlot
  <2>2. Window' = Window /\ Running' = Running \ {t}
    BY <2>1, TurnMove
  <2> QED BY <1>1, <2>2
<1>3. CASE ~SemLocked
  <2>1. value > 0
    BY <1>3, NAssumption DEF SemLocked, IInv, TypeOK
  <2>2. pc' = [pc EXCEPT ![t] = "running"]
    BY <1>3 DEF AcquireSlot
  <2>3. Window' = Window /\ Running' = Running \cup {t}
    BY <2>2, TurnMove
  <2>4. Window = NoOp /\ Cardinality(Running) < N
    BY <2>1, RoomFacts
  <2> QED BY <1>1, <2>3, <2>4, SameCardinality DEF Contract!Enter
<1> QED BY <1>2, <1>3

\* A drain opens the window when it has all slots, and changes nothing before.
LEMMA DrainRefines ==
  ASSUME IInv, NEW o \in Ops, NEW val, NEW acq, NEW q, Drain(o, val, acq, q),
         pc[o] \in {"idle", "lockwait", "waiting"}, owner' = o, IInv',
         owner = NoOp \/ owner = o
  PROVE  Contract!Open(o) \/ UNCHANGED <<Running, Window>>
<1>1. InWindow = {} /\ Window = NoOp
  BY TaskAssumption DEF InWindow, Window, IInv, OwnerInv
<1>2. CASE pc' = [pc EXCEPT ![o] = "body"]
  <2>1. InWindow' = {o} /\ Running' = Running
    BY <1>1, <1>2, OpMove
  <2>2. Window' = o /\ Window' # NoOp
    BY <2>1, TaskAssumption DEF Window
  <2>3. Running' = {}
    BY <2>2, WindowPrimed
  <2> QED BY <1>1, <2>1, <2>2, <2>3 DEF Contract!Open
<1>3. CASE pc' = [pc EXCEPT ![o] = "waiting"]
  <2>1. InWindow' = {} /\ Running' = Running
    BY <1>1, <1>3, OpMove
  <2> QED BY <1>1, <2>1 DEF Window
<1> QED BY <1>2, <1>3 DEF Drain

\* The window closes, or a drain that never opened it is undone.
LEMMA CloseRefines ==
  ASSUME IInv, NEW o \in Ops, NEW extra, NEW q, NEW g, CloseWindow(o, extra, q, g),
         pc[o] \in {"waiting", "body"}
  PROVE  Contract!Close(o) \/ UNCHANGED <<Running, Window>>
<1>1. owner = o /\ pc' = [pc EXCEPT ![o] = "idle"]
  BY DEF IInv, OwnerInv, CloseWindow
<1>2. InWindow \subseteq {o}
  BY <1>1 DEF InWindow, IInv, OwnerInv
<1>3. InWindow' = {} /\ Running' = Running /\ Window' = NoOp
  BY <1>1, <1>2, OpMove DEF Window
<1>4. Window = o \/ Window = NoOp
  BY <1>1 DEF Window
<1> QED BY <1>3, <1>4 DEF Contract!Close

\* Every step of the controller is a step of its contract or a stutter.
LEMMA StepRefines ==
  ASSUME IInv, IInv', [Next]_vars
  PROVE  [Contract!Next]_<<Running, Window>>
<1> DEFINE Goal == [Contract!Next]_<<Running, Window>>
<1>a. ASSUME NEW t \in Turns, Contract!Enter(t) \/ Contract!Exit(t) PROVE Goal
  BY <1>a DEF Contract!Next
<1>b. ASSUME NEW o \in Ops, Contract!Open(o) \/ Contract!Close(o) PROVE Goal
  BY <1>b DEF Contract!Next
<1>c. ASSUME UNCHANGED <<Running, Window>> PROVE Goal
  BY <1>c
<1> HIDE DEF Goal
<1>1. ASSUME NEW t \in Turns, TurnStart(t) PROVE Goal
  BY <1>1, <1>a, <1>c, AcquireRefines DEF TurnStart, lockVars
<1>2. ASSUME NEW t \in Turns, NEW cancelled \in BOOLEAN, TurnUnpark(t, cancelled)
      PROVE  Goal
  BY <1>2, <1>a, <1>c, AcquireRefines DEF TurnUnpark, lockVars
<1>3. ASSUME NEW t \in Turns, TurnResume(t) PROVE Goal
  <2>1. /\ t \notin Running /\ granted # {} /\ owner' = owner
        /\ pc' = [pc EXCEPT ![t] = "running"]
    BY <1>3 DEF TurnResume, Running, lockVars
  <2>2. Window' = Window /\ Running' = Running \cup {t}
    BY <2>1, TurnMove
  <2>3. Window = NoOp /\ Cardinality(Running) < N
    BY <2>1, RoomFacts
  <2>4. Contract!Enter(t)
    BY <2>1, <2>2, <2>3, SameCardinality DEF Contract!Enter
  <2> QED BY <2>4, <1>a
<1>4. ASSUME NEW t \in Turns, TurnFinish(t) \/ TurnPark(t) PROVE Goal
  <2>1. PICK s \in {"idle", "parked"} : pc' = [pc EXCEPT ![t] = s]
    BY <1>4 DEF TurnFinish, TurnPark
  <2>2. t \in Running /\ owner' = owner
    BY <1>4 DEF TurnFinish, TurnPark, Running, lockVars
  <2>3. Contract!Exit(t)
    BY <2>1, <2>2, TurnMove DEF Contract!Exit
  <2> QED BY <2>3, <1>a
<1>5. ASSUME NEW t \in Turns, TurnCancelWaiting(t) PROVE Goal
  <2>1. t \notin Running /\ owner' = owner /\ pc' = [pc EXCEPT ![t] = "idle"]
    BY <1>5 DEF TurnCancelWaiting, Running, lockVars
  <2>2. Window' = Window /\ Running' = Running \ {t}
    BY <2>1, TurnMove
  <2> QED BY <2>1, <2>2, <1>c
<1>6. ASSUME NEW o \in Ops, OpEnter(o) PROVE Goal
  <2>1. CASE owner = NoOp /\ lockq = <<>>
    <3>1. owner' = o /\ Drain(o, value, 0, waiters) /\ pc[o] = "idle"
      BY <1>6, <2>1 DEF OpEnter
    <3> QED BY <2>1, <3>1, <1>b, <1>c, DrainRefines
  <2>2. CASE ~(owner = NoOp /\ lockq = <<>>)
    <3>1. pc[o] = "idle" /\ pc' = [pc EXCEPT ![o] = "lockwait"] /\ owner' = owner
      BY <1>6, <2>2 DEF OpEnter
    <3>2. InWindow' = InWindow /\ Running' = Running
      BY <3>1, OpMove DEF InWindow
    <3> QED BY <3>1, <3>2, <1>c DEF Window
  <2> QED BY <2>1, <2>2
<1>7. ASSUME NEW o \in Ops, OpLock(o) PROVE Goal
  <2>1. owner = NoOp /\ owner' = o /\ Drain(o, value, 0, waiters) /\ pc[o] = "lockwait"
    BY <1>7 DEF OpLock
  <2> QED BY <2>1, <1>b, <1>c, DrainRefines
<1>8. ASSUME NEW o \in Ops, OpResume(o) PROVE Goal
  <2>1. pc[o] = "waiting" /\ owner' = owner
    BY <1>8 DEF OpResume
  <2>2. owner = o
    BY <2>1 DEF IInv, OwnerInv
  <2>3. \E val, acq, q : Drain(o, val, acq, q)
    BY <1>8 DEF OpResume
  <2> QED BY <2>1, <2>2, <2>3, <1>b, <1>c, DrainRefines
<1>9. ASSUME NEW o \in Ops, OpExit(o) PROVE Goal
  <2>1. pc[o] = "body"
    BY <1>9 DEF OpExit
  <2>2. CASE CloseWindow(o, 0, waiters, granted)
    BY <2>1, <2>2, <1>b, <1>c, CloseRefines
  <2>3. CASE pc' = [pc EXCEPT ![o] = "leaked"] /\ owner' = owner
    <3>1. InWindow' = InWindow /\ Running' = Running
      BY <2>1, <2>3, OpMove DEF InWindow
    <3> QED BY <2>3, <3>1, <1>c DEF Window
  <2> QED BY <1>9, <2>2, <2>3 DEF OpExit
<1>10. ASSUME NEW o \in Ops, OpCancelDrain(o) PROVE Goal
  <2>1. pc[o] = "waiting" /\ \E extra, q, g : CloseWindow(o, extra, q, g)
    BY <1>10 DEF OpCancelDrain
  <2> QED BY <2>1, <1>b, <1>c, CloseRefines
<1>11. ASSUME NEW o \in Ops, OpCancelLock(o) PROVE Goal
  <2>1. pc[o] = "lockwait" /\ pc' = [pc EXCEPT ![o] = "idle"] /\ owner' = owner
    BY <1>11 DEF OpCancelLock
  <2>2. InWindow' = InWindow /\ Running' = Running
    BY <2>1, OpMove DEF InWindow
  <2> QED BY <2>1, <2>2, <1>c DEF Window
<1>12. ASSUME UNCHANGED vars PROVE Goal
  <2>1. pc' = pc /\ owner' = owner
    BY <1>12 DEF vars, lockVars
  <2>2. UNCHANGED <<Running, Window>>
    BY <2>1 DEF Running, Window, InWindow
  <2> QED BY <2>2, <1>c
<1>13. Goal
  BY <1>1, <1>2, <1>3, <1>4, <1>5, <1>6, <1>7, <1>8, <1>9, <1>10, <1>11, <1>12
  DEF Next, TurnStep, OpStep
<1> QED BY <1>13 DEF Goal

\* The admission controller implements the contract its callers rely on, for
\* any number of slots, turns and exclusive operations.
THEOREM Refinement == Spec => ImplementsContract
<1>1. Init => Contract!Init
  BY DEF Init, Contract!Init, Running, Window, InWindow, Tasks
<1>2. IInv /\ IInv' /\ [Next]_vars => [Contract!Next]_<<Running, Window>>
  BY StepRefines
<1> QED BY <1>1, <1>2, Invariance, PTL DEF Spec, ImplementsContract, Contract!Spec
=============================================================================
