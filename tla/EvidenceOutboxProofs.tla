----------------------- MODULE EvidenceOutboxProofs -----------------------
(***************************************************************************)
(* Proofs about EvidenceOutbox, for any events, flushers, capacity, batch  *)
(* size and number of attempts: types, that nothing is forgotten, that a   *)
(* flush vouches for what came before it, and the durable barrier.         *)
(*                                                                         *)
(* FlushComplete is not inductive by itself.  A flush is woken by a count, *)
(* the queue's unfinished, and not by the events it waits for: Counted     *)
(* says that the count is the number of events in the queue and in the     *)
(* writer's hands, and Owed what a flush that waits or was woken can rely  *)
(* on.  Both hold only until close() cancels the writer (Phase); from then *)
(* on Served says what close() itself can answer for.                      *)
(***************************************************************************)
EXTENDS EvidenceOutbox, TLAPS

\* What is in the table, in the queue or in the writer's hands.
InHand == stored \cup ItemsOf(queue) \cup ItemsOf(batch)

\* What the state of the writer and of close() says about the queue, the
\* batch and the exception of close().
Phase ==
  /\ ~Closed => ~closeFailed /\ writer \notin {"final", "finalAgain", "done"}
  /\ writer = "none" => queue = <<>>
  /\ writer \in {"none", "get"} => batch = <<>>
  /\ writer = "collect" => Len(batch) < MaxBatch

\* The count of join() is the number of events it stands for, until a writer
\* that was cancelled in a write has called task_done() too often.
Counted ==
  writer \notin {"finalAgain", "done"} => unfinished = Len(queue) + Len(batch)

\* While no write was given up, what a flush waits for is in the table or on
\* its way, and in the table when the flush is woken.
Owed ==
  ~writeError /\ ~Closed =>
    \A c \in Callers :
      /\ flush[c] = "wait" => owed[c] \subseteq InHand
      /\ flush[c] = "woken" => owed[c] \subseteq stored

\* What publish() accepted is in hand, or a loss is reported.
Kept == \A e \in Accepted : e \in InHand \/ writeError \/ closeFailed

\* Until close() cancels the writer, a flush that returned vouches for rows.
Vouched == ~Closed => vouched \subseteq stored

\* A close() that has nothing to report has written all it began with.
Served == Closed /\ ~closeFailed => owed[Closer] \subseteq stored

IInv ==
  /\ TypeOK /\ Phase /\ Counted
  /\ Kept /\ DurableBarrier /\ Owed /\ Vouched /\ Served

-----------------------------------------------------------------------------
(* Sequences and their items *)

\* The items of the sequences that the actions build.
LEMMA EmptyItems == ItemsOf(<<>>) = {}
  BY DEF ItemsOf

\* One event, written around the queue.
LEMMA SingleItem == \A x : ItemsOf(<<x>>) = {x}
  BY DEF ItemsOf

\* Items of a queue or batch are events.
LEMMA ItemsIn ==
  ASSUME NEW S, NEW s \in Seq(S)
  PROVE  ItemsOf(s) \subseteq S
  BY DEF ItemsOf

\* put_nowait(), and the writer that collects its batch.
LEMMA AppendItems ==
  ASSUME NEW S, NEW s \in Seq(S), NEW x \in S
  PROVE  ItemsOf(Append(s, x)) = ItemsOf(s) \cup {x}
<1>1. \A i \in DOMAIN Append(s, x) :
        Append(s, x)[i] = IF i = Len(s) + 1 THEN x ELSE s[i]
  OBVIOUS
<1>2. /\ Len(s) \in Nat /\ DOMAIN s = 1 .. Len(s)
      /\ DOMAIN Append(s, x) = 1 .. Len(s) + 1
  OBVIOUS
<1>3. /\ DOMAIN Append(s, x) = DOMAIN s \cup {Len(s) + 1}
      /\ Len(s) + 1 \notin DOMAIN s
  BY <1>2
<1> QED
  BY <1>1, <1>3 DEF ItemsOf

\* The writer takes the oldest event of the queue.
LEMMA TailItems ==
  ASSUME NEW S, NEW s \in Seq(S), s # <<>>
  PROVE  /\ Head(s) \in S /\ Tail(s) \in Seq(S) /\ Len(Tail(s)) = Len(s) - 1
         /\ ItemsOf(s) = {Head(s)} \cup ItemsOf(Tail(s))
<1>1. Len(s) \in Nat \ {0} /\ DOMAIN s = 1 .. Len(s) /\ Head(s) = s[1]
  OBVIOUS
<1>2. /\ DOMAIN Tail(s) = 1 .. Len(s) - 1
      /\ \A i \in 1 .. Len(s) - 1 : Tail(s)[i] = s[i + 1]
  BY <1>1
<1>3. ItemsOf(s) \subseteq {Head(s)} \cup ItemsOf(Tail(s))
  <2> SUFFICES ASSUME NEW i \in 1 .. Len(s), i # 1
               PROVE  \E j \in DOMAIN Tail(s) : s[i] = Tail(s)[j]
    BY <1>1 DEF ItemsOf
  <2>1. i - 1 \in 1 .. Len(s) - 1 /\ (i - 1) + 1 = i
    BY <1>1
  <2> QED
    BY <2>1, <1>2
<1>4. {Head(s)} \cup ItemsOf(Tail(s)) \subseteq ItemsOf(s)
  <2> SUFFICES ASSUME NEW j \in 1 .. Len(s) - 1
               PROVE  \E i \in DOMAIN s : Tail(s)[j] = s[i]
    BY <1>1, <1>2 DEF ItemsOf
  <2>1. j + 1 \in DOMAIN s
    BY <1>1
  <2> QED
    BY <2>1, <1>2
<1>5. Head(s) \in S /\ Tail(s) \in Seq(S) /\ Len(Tail(s)) = Len(s) - 1
  OBVIOUS
<1> QED
  BY <1>3, <1>4, <1>5

-----------------------------------------------------------------------------
(* The invariant *)

\* The initial states satisfy the invariant.
LEMMA InitIInv == Init => IInv
<1> SUFFICES ASSUME Init PROVE IInv
  OBVIOUS
<1>1. TypeOK
  <2>1. 0 \in 0 .. MaxWriteAttempts - 1 /\ 0 <= MaxEvents /\ 0 <= MaxBatch
    BY OutboxAssumption
  <2>2. <<>> \in Seq(Events) /\ Len(<<>>) = 0
    OBVIOUS
  <2>3. /\ tries \in [Events -> 0 .. MaxWriteAttempts - 1]
        /\ attempt \in 0 .. MaxWriteAttempts - 1
    BY <2>1 DEF Init
  <2> QED
    BY <2>1, <2>2, <2>3 DEF Init, TypeOK
<1>2. Phase /\ Counted
  BY DEF Init, Phase, Counted
<1>3. Kept /\ DurableBarrier
  BY DEF Init, Kept, DurableBarrier, Accepted, InHand
<1>4. Owed /\ Vouched /\ Served
  BY DEF Init, Owed, Vouched, Served, Closed
<1> QED
  BY <1>1, <1>2, <1>3, <1>4 DEF IInv

\* Refuse(e) keeps the invariant.
LEMMA RefuseStep ==
  ASSUME IInv, NEW e \in Events, Refuse(e)
  PROVE  IInv'
<1> USE DEF IInv, Refuse, writerVars, flushVars, closeVars
<1>1. TypeOK'
  BY DEF TypeOK
<1>2. Kept'
  BY DEF Kept, Accepted, InHand
<1>3. DurableBarrier'
  BY DEF DurableBarrier, Accepted
<1>4. (Phase /\ Counted /\ Owed /\ Vouched)'
  BY DEF Phase, Counted, Owed, Vouched, Closed
<1>0. Served'
  BY DEF Served, Closed
<1> QED
  BY <1>0, <1>1, <1>2, <1>3, <1>4 DEF IInv

\* BeginCritical(e) keeps the invariant.
LEMMA BeginCriticalStep ==
  ASSUME IInv, NEW e \in Events, BeginCritical(e)
  PROVE  IInv'
<1> USE DEF IInv, BeginCritical, writerVars, flushVars, closeVars, Publishable
<1>1. TypeOK'
  BY DEF TypeOK
<1>2. Kept'
  BY DEF Kept, Accepted, InHand
<1>3. DurableBarrier'
  BY DEF DurableBarrier, Accepted
<1>4. (Phase /\ Counted /\ Owed /\ Vouched)'
  BY DEF Phase, Counted, Owed, Vouched, InHand, Closed
<1>0. Served'
  BY DEF Served, Closed
<1> QED
  BY <1>0, <1>1, <1>2, <1>3, <1>4 DEF IInv

\* Put(e) keeps the invariant.
LEMMA PutStep ==
  ASSUME IInv, NEW e \in Events, Put(e)
  PROVE  IInv'
<1> USE DEF IInv, Put, flushVars, closeVars, Publishable
<1>1. TypeOK'
  BY OutboxAssumption DEF TypeOK
<1>2. Phase'
  BY DEF Phase
<1>3. Counted'
  BY DEF Counted
<1>4. Kept'
  BY AppendItems DEF Kept, Accepted, TypeOK, InHand
<1>5. DurableBarrier'
  BY DEF DurableBarrier, Accepted
<1>6. Owed'
  BY AppendItems DEF Owed, InHand, TypeOK
<1>7. Vouched'
  BY DEF Vouched, Closed
<1>0. Served'
  BY DEF Served, Closed
<1> QED
  BY <1>0, <1>1, <1>2, <1>3, <1>4, <1>5, <1>6, <1>7 DEF IInv

\* BeginFallback(e) keeps the invariant.
LEMMA BeginFallbackStep ==
  ASSUME IInv, NEW e \in Events, BeginFallback(e)
  PROVE  IInv'
<1> USE DEF IInv, BeginFallback, writerVars, flushVars, closeVars, Publishable
<1>1. TypeOK'
  BY DEF TypeOK
<1>2. Kept'
  BY DEF Kept, Accepted, InHand
<1>3. DurableBarrier'
  BY DEF DurableBarrier, Accepted
<1>4. (Phase /\ Counted /\ Owed /\ Vouched)'
  BY DEF Phase, Counted, Owed, Vouched, InHand, Closed
<1>0. Served'
  BY DEF Served, Closed
<1> QED
  BY <1>0, <1>1, <1>2, <1>3, <1>4 DEF IInv

\* DirectOk(e) keeps the invariant.
LEMMA DirectOkStep ==
  ASSUME IInv, NEW e \in Events, DirectOk(e)
  PROVE  IInv'
<1> USE DEF IInv, DirectOk, writerVars, flushVars, closeVars, Insert
<1>1. TypeOK'
  BY OutboxAssumption, SingleItem DEF TypeOK
<1>2. Kept'
  BY SingleItem DEF Kept, Accepted, InHand
<1>3. DurableBarrier'
  BY SingleItem DEF DurableBarrier, Accepted
<1>4. Owed'
  BY DEF Owed, InHand, Closed
<1>5. Vouched'
  BY DEF Vouched, Closed
<1>6. (Phase /\ Counted)'
  BY DEF Phase, Counted, Closed
<1>0. Served'
  BY DEF Served, Closed
<1> QED
  BY <1>0, <1>1, <1>2, <1>3, <1>4, <1>5, <1>6 DEF IInv

\* DirectFail(e, t) keeps the invariant.
LEMMA DirectFailStep ==
  ASSUME IInv, NEW e \in Events, NEW t \in BOOLEAN, DirectFail(e, t)
  PROVE  IInv'
<1> USE DEF IInv, DirectFail, writerVars, flushVars, closeVars
<1>1. TypeOK'
  <2>1. <<e>> \in Seq(Events)
    OBVIOUS
  <2>2. tries' \in [Events -> 0 .. MaxWriteAttempts - 1]
    BY OutboxAssumption DEF TypeOK
  <2> QED
    BY <2>1, <2>2 DEF TypeOK
<1>2. Kept'
  BY DEF Kept, Accepted, InHand
<1>3. DurableBarrier'
  BY DEF DurableBarrier, Accepted, TypeOK
<1>4. Owed'
  BY DEF Owed, InHand, Closed
<1>5. (Phase /\ Counted /\ Vouched)'
  BY DEF Phase, Counted, Vouched, Closed
<1>0. Served'
  BY DEF Served, Closed
<1> QED
  BY <1>0, <1>1, <1>2, <1>3, <1>4, <1>5 DEF IInv

\* DirectCancelled(e) keeps the invariant.
LEMMA DirectCancelledStep ==
  ASSUME IInv, NEW e \in Events, DirectCancelled(e)
  PROVE  IInv'
<1> USE DEF IInv, DirectCancelled, writerVars, flushVars, closeVars
<1>1. TypeOK'
  <2>1. <<e>> \in Seq(Events)
    OBVIOUS
  <2>2. tries' \in [Events -> 0 .. MaxWriteAttempts - 1]
    BY OutboxAssumption DEF TypeOK
  <2> QED
    BY <2>1, <2>2 DEF TypeOK
<1>2. Kept'
  BY DEF Kept, Accepted, InHand
<1>3. DurableBarrier'
  BY DEF DurableBarrier, Accepted
<1>4. (Phase /\ Counted /\ Owed /\ Vouched)'
  BY DEF Phase, Counted, Owed, Vouched, Closed, InHand
<1>0. Served'
  BY DEF Served, Closed
<1> QED
  BY <1>0, <1>1, <1>2, <1>3, <1>4 DEF IInv

\* WriterGet keeps the invariant.
LEMMA WriterGetStep ==
  ASSUME IInv, WriterGet
  PROVE  IInv'
<1> USE DEF IInv, WriterGet, pubVars, flushVars, closeVars
<1>1. TypeOK'
  BY OutboxAssumption DEF TypeOK
<1>2. Phase'
  BY DEF Phase, Closed
<1>3. Counted'
  BY DEF Counted, Phase
<1>4. Kept'
  BY EmptyItems, SingleItem, TailItems DEF Kept, Accepted, TypeOK,
       Phase, InHand
<1>5. Owed'
  BY TailItems, EmptyItems, SingleItem DEF Owed, InHand, Closed, TypeOK, Phase
<1>6. (DurableBarrier /\ Vouched)'
  BY DEF DurableBarrier, Vouched, Accepted, Closed
<1>0. Served'
  BY DEF Served, Closed
<1> QED
  BY <1>0, <1>1, <1>2, <1>3, <1>4, <1>5, <1>6 DEF IInv

\* WriterCollect keeps the invariant.
LEMMA WriterCollectStep ==
  ASSUME IInv, WriterCollect
  PROVE  IInv'
<1> USE DEF IInv, WriterCollect, pubVars, flushVars, closeVars
<1>1. TypeOK'
  BY OutboxAssumption DEF TypeOK, Phase
<1>2. Phase'
  BY DEF Phase, Closed
<1>3. Counted'
  BY DEF Counted
<1>4. Kept'
  BY AppendItems, TailItems DEF Kept, Accepted, TypeOK, InHand
<1>5. Owed'
  BY AppendItems, TailItems DEF Owed, InHand, Closed, TypeOK
<1>6. (DurableBarrier /\ Vouched)'
  BY DEF DurableBarrier, Vouched, Accepted, Closed
<1>0. Served'
  BY DEF Served, Closed
<1> QED
  BY <1>0, <1>1, <1>2, <1>3, <1>4, <1>5, <1>6 DEF IInv

\* WriterDeadline keeps the invariant.
LEMMA WriterDeadlineStep ==
  ASSUME IInv, WriterDeadline
  PROVE  IInv'
<1> USE DEF IInv, WriterDeadline, pubVars, flushVars, closeVars
<1>1. TypeOK'
  BY DEF TypeOK
<1>2. Phase'
  BY DEF Phase, Closed
<1>3. Counted'
  BY DEF Counted
<1>4. (Kept /\ DurableBarrier /\ Owed /\ Vouched)'
  BY DEF Kept, DurableBarrier, Owed, Vouched, Accepted,
       InHand, Closed
<1>0. Served'
  BY DEF Served, Closed
<1> QED
  BY <1>0, <1>1, <1>2, <1>3, <1>4 DEF IInv

\* WriterOk keeps the invariant.
LEMMA WriterOkStep ==
  ASSUME IInv, WriterOk
  PROVE  IInv'
<1> USE DEF IInv, WriterOk, pubVars, closeVars, Insert, TaskDone
<1>1. TypeOK'
  BY OutboxAssumption, ItemsIn DEF TypeOK, Counted
<1>2. Phase'
  BY DEF Phase, Closed
<1>3. Counted'
  BY DEF Counted
<1>4. Kept'
  BY DEF Kept, Accepted, InHand
<1>5. DurableBarrier'
  BY DEF DurableBarrier, Accepted
<1>6. Owed'
  BY EmptyItems DEF Owed, InHand, Closed, Counted
<1>7. Vouched'
  BY DEF Vouched, Closed
<1>0. Served'
  BY DEF Served, Closed
<1> QED
  BY <1>0, <1>1, <1>2, <1>3, <1>4, <1>5, <1>6, <1>7 DEF IInv

\* WriterFail(t) keeps the invariant.
LEMMA WriterFailStep ==
  ASSUME IInv, NEW t \in BOOLEAN, WriterFail(t)
  PROVE  IInv'
<1> USE DEF IInv, WriterFail, pubVars, closeVars, TaskDone
<1>1. TypeOK'
  <2>1. unfinished' \in Nat
    BY DEF TypeOK, Counted
  <2>2. attempt' \in 0 .. MaxWriteAttempts - 1
    BY OutboxAssumption DEF TypeOK
  <2>3. batch' \in Seq(Events) /\ Len(batch') <= MaxBatch
    <3>1. CASE attempt + 1 = MaxWriteAttempts
      <4>1. batch' = <<>>
        BY <3>1
      <4>2. <<>> \in Seq(Events) /\ Len(<<>>) <= MaxBatch
        BY OutboxAssumption
      <4> QED
        BY <4>1, <4>2, Zenon
    <3>2. CASE attempt + 1 # MaxWriteAttempts
      BY <3>2 DEF TypeOK
    <3> QED
      BY <3>1, <3>2
  <2>4. late' \subseteq Seq(Events)
    BY DEF TypeOK
  <2>5. /\ writer' \in {"get", "write"}
        /\ flush' \in [Callers -> {"idle", "wait", "woken"}]
    BY DEF TypeOK
  <2> QED
    BY <2>1, <2>2, <2>3, <2>4, <2>5 DEF TypeOK
<1>2. Phase'
  BY DEF Phase, Closed
<1>3. Counted'
  BY DEF Counted
<1>4. Kept'
  BY DEF Kept, Accepted, InHand
<1>5. Owed'
  BY DEF Owed, InHand, Closed
<1>6. (DurableBarrier /\ Vouched)'
  BY DEF DurableBarrier, Vouched, Accepted, Closed
<1>0. Served'
  BY DEF Served, Closed
<1> QED
  BY <1>0, <1>1, <1>2, <1>3, <1>4, <1>5, <1>6 DEF IInv

\* LateCommit(b) keeps the invariant.
LEMMA LateCommitStep ==
  ASSUME IInv, NEW b \in late, LateCommit(b)
  PROVE  IInv'
<1> USE DEF IInv, LateCommit, pubVars, writerVars, flushVars, closeVars,
         Insert
<1>1. TypeOK'
  BY ItemsIn DEF TypeOK
<1>2. Kept'
  BY DEF Kept, Accepted, InHand
<1>3. DurableBarrier'
  BY DEF DurableBarrier, Accepted
<1>4. Owed'
  BY DEF Owed, InHand, Closed
<1>5. Vouched'
  BY DEF Vouched, Closed
<1>6. (Phase /\ Counted)'
  BY DEF Phase, Counted, Closed
<1>0. Served'
  BY DEF Served, Closed
<1> QED
  BY <1>0, <1>1, <1>2, <1>3, <1>4, <1>5, <1>6 DEF IInv

\* LateFail(b) keeps the invariant.
LEMMA LateFailStep ==
  ASSUME IInv, NEW b \in late, LateFail(b)
  PROVE  IInv'
<1> USE DEF IInv, LateFail, pubVars, writerVars, flushVars, closeVars
<1>1. TypeOK'
  BY DEF TypeOK
<1>2. (Phase /\ Counted /\ Kept /\ DurableBarrier /\ Owed
        /\ Vouched)'
  BY DEF Phase, Counted, Kept, DurableBarrier, Owed, Vouched,
       Closed, Accepted, InHand
<1>0. Served'
  BY DEF Served, Closed
<1> QED
  BY <1>0, <1>1, <1>2 DEF IInv

\* FlushBegin(c) keeps the invariant.
LEMMA FlushBeginStep ==
  ASSUME IInv, NEW c \in Callers, FlushBegin(c)
  PROVE  IInv'
<1> USE DEF IInv, FlushBegin, pubVars, writerVars
<1>1. TypeOK'
  BY DEF TypeOK, Accepted
<1>2. Phase'
  BY DEF Phase, Closed
<1>3. Owed'
  BY DEF Owed, InHand, TypeOK, Phase, Kept, MustWait
<1>4. (Counted /\ Kept /\ DurableBarrier /\ Vouched)'
  BY DEF Counted, Kept, DurableBarrier, Vouched, Accepted, Closed, InHand
<1>0. Served'
  BY DEF Served, Closed, MustWait
<1> QED
  BY <1>0, <1>1, <1>2, <1>3, <1>4 DEF IInv

\* FlushAtOnce(c) keeps the invariant.
LEMMA FlushAtOnceStep ==
  ASSUME IInv, NEW c \in Callers, FlushAtOnce(c)
  PROVE  IInv'
<1> USE DEF IInv, FlushAtOnce, pubVars, writerVars, closeVars
<1>1. TypeOK'
  BY DEF TypeOK, Accepted
<1>2. Vouched'
  BY EmptyItems DEF Vouched, Phase, Counted, Kept, MustWait, Closed, InHand
<1>3. (Phase /\ Counted /\ Kept /\ DurableBarrier /\ Owed)'
  BY DEF Phase, Counted, Kept, DurableBarrier, Owed, Closed,
       Accepted, InHand
<1>0. Served'
  BY DEF Served, Closed
<1> QED
  BY <1>0, <1>1, <1>2, <1>3 DEF IInv

\* FlushReturn(c) keeps the invariant.
LEMMA FlushReturnStep ==
  ASSUME IInv, NEW c \in Callers, FlushReturn(c)
  PROVE  IInv'
<1> USE DEF IInv, FlushReturn, pubVars, writerVars, closeVars
<1>1. TypeOK'
  BY DEF TypeOK
<1>2. Owed'
  BY DEF Owed, InHand, Closed
<1>3. Vouched'
  BY DEF Vouched, Owed, Closed
<1>4. (Phase /\ Counted /\ Kept /\ DurableBarrier)'
  BY DEF Phase, Counted, Kept, DurableBarrier, Closed, Accepted, InHand
<1>0. Served'
  BY OutboxAssumption DEF Served, Closed, TypeOK
<1> QED
  BY <1>0, <1>1, <1>2, <1>3, <1>4 DEF IInv

\* FlushTimeout(c) keeps the invariant.
LEMMA FlushTimeoutStep ==
  ASSUME IInv, NEW c \in Callers, FlushTimeout(c)
  PROVE  IInv'
<1> USE DEF IInv, FlushTimeout, pubVars, writerVars, closeVars
<1>1. TypeOK'
  BY DEF TypeOK
<1>2. Owed'
  BY DEF Owed, InHand, Closed
<1>3. (Phase /\ Counted /\ Kept /\ DurableBarrier /\ Vouched)'
  BY DEF Phase, Counted, Kept, DurableBarrier, Vouched,
       Closed, Accepted, InHand
<1>0. Served'
  BY OutboxAssumption DEF Served, Closed, TypeOK
<1> QED
  BY <1>0, <1>1, <1>2, <1>3 DEF IInv

\* CloseAtOnce keeps the invariant.
LEMMA CloseAtOnceStep ==
  ASSUME IInv, CloseAtOnce
  PROVE  IInv'
<1> USE DEF IInv, CloseAtOnce, pubVars
<1>1. TypeOK'
  BY DEF TypeOK, Accepted
<1>2. Phase'
  BY DEF Phase, Closed
<1>3. Counted'
  BY DEF Counted
<1>4. Kept'
  BY DEF Kept, Accepted, Phase, Closed, InHand
<1>5. Owed'
  BY DEF Owed, Closed
<1>6. Vouched'
  BY EmptyItems DEF Vouched, Closed, Phase, Counted, Kept,
       MustWait, InHand
<1>7. DurableBarrier'
  BY DEF DurableBarrier, Accepted
<1>0. Served'
  BY EmptyItems DEF Served, Closed, TypeOK, Phase, Counted, Kept, MustWait,
       Callers, InHand
<1> QED
  BY <1>0, <1>1, <1>2, <1>3, <1>4, <1>5, <1>6, <1>7 DEF IInv

\* CloseStop(t) keeps the invariant.
LEMMA CloseStopStep ==
  ASSUME IInv, NEW t \in BOOLEAN, CloseStop(t)
  PROVE  IInv'
<1> USE DEF IInv, CloseStop, pubVars
<1>1. TypeOK'
  BY DEF TypeOK, Phase, Counted, Callers, Closed
<1>2. Phase'
  BY DEF Phase, Closed, TypeOK
<1>3. Counted'
  BY DEF Counted, Phase, Closed
<1>4. Kept'
  BY DEF Kept, Accepted, Phase, Closed, InHand
<1>5. Owed'
  BY DEF Owed, Closed
<1>6. Vouched'
  BY DEF Vouched, Owed, Closed, Callers
<1>7. DurableBarrier'
  BY DEF DurableBarrier, Accepted
<1>0. Served'
  BY DEF Served, Owed, Closed, Callers
<1> QED
  BY <1>0, <1>1, <1>2, <1>3, <1>4, <1>5, <1>6, <1>7 DEF IInv

\* FinalWrite(ok) keeps the invariant.
LEMMA FinalWriteStep ==
  ASSUME IInv, NEW ok \in BOOLEAN, FinalWrite(ok)
  PROVE  IInv'
<1> USE DEF IInv, FinalWrite, pubVars, Insert, TaskDone
<1>1. TypeOK'
  BY OutboxAssumption, ItemsIn DEF TypeOK
<1>2. Phase'
  BY DEF Phase, Closed
<1>3. Counted'
  BY DEF Counted
<1>4. Kept'
  BY DEF Kept, Accepted, InHand
<1>5. DurableBarrier'
  BY DEF DurableBarrier, Accepted
<1>6. Owed'
  BY DEF Owed, Closed
<1>7. Vouched'
  BY DEF Vouched, Closed
<1>0. Served'
  <2>1. Closed
    BY DEF Phase
  <2>2. stored \subseteq stored' /\ (closeFailed => closeFailed')
    BY DEF TypeOK
  <2>3. owed' = owed /\ Accepted' = Accepted
    BY DEF Accepted
  <2> QED
    BY <2>1, <2>2, <2>3 DEF Served, Closed
<1> QED
  BY <1>0, <1>1, <1>2, <1>3, <1>4, <1>5, <1>6, <1>7 DEF IInv

\* A step that changes nothing keeps the invariant.
LEMMA StutterStep ==
  ASSUME IInv, UNCHANGED vars
  PROVE  IInv'
<1> USE DEF IInv, vars
<1>1. TypeOK'
  BY DEF TypeOK
<1>2. (Phase /\ Counted)'
  BY DEF Phase, Counted, Closed
<1>3. (Kept /\ DurableBarrier)'
  BY DEF Kept, DurableBarrier, Accepted, InHand
<1>4. (Owed /\ Vouched)'
  BY DEF Owed, InHand, Closed, Vouched
<1>0. Served'
  BY DEF Served, Closed
<1> QED
  BY <1>0, <1>1, <1>2, <1>3, <1>4 DEF IInv

\* The invariant holds in every reachable state.
LEMMA Invariance == Spec => []IInv
<1>1. IInv /\ [Next]_vars => IInv'
  <2> SUFFICES ASSUME IInv, [Next]_vars PROVE IInv'
    OBVIOUS
  <2>1. CASE \E e \in Events : Publish(e) \/ DirectWrite(e)
    BY <2>1, RefuseStep, BeginCriticalStep, PutStep, BeginFallbackStep,
       DirectCancelledStep, DirectOkStep, DirectFailStep DEF Publish, DirectWrite
  <2>2. CASE WriterGet \/ WriterCollect \/ WriterDeadline \/ WriterWrite
    BY <2>2, WriterGetStep, WriterCollectStep, WriterDeadlineStep, WriterOkStep,
       WriterFailStep DEF WriterWrite
  <2>3. CASE \E b \in late : LateCommit(b) \/ LateFail(b)
    BY <2>3, LateCommitStep, LateFailStep
  <2>4. CASE \E c \in Callers : \/ FlushBegin(c) \/ FlushAtOnce(c)
                              \/ FlushReturn(c) \/ FlushTimeout(c)
    BY <2>4, FlushBeginStep, FlushAtOnceStep, FlushReturnStep, FlushTimeoutStep
  <2>5. CASE CloseAtOnce
    BY <2>5, CloseAtOnceStep
  <2>6. CASE \E t \in BOOLEAN : CloseStop(t)
    BY <2>6, CloseStopStep
  <2>7. CASE \E ok \in BOOLEAN : FinalWrite(ok)
    BY <2>7, FinalWriteStep
  <2>8. CASE UNCHANGED vars
    BY <2>8, StutterStep
  <2> QED
    BY <2>1, <2>2, <2>3, <2>4, <2>5, <2>6, <2>7, <2>8 DEF Next
<1> QED
  BY InitIInv, <1>1, PTL DEF Spec

-----------------------------------------------------------------------------
(* Theorems *)

\* The variables keep their types: in particular the queue never exceeds its
\* capacity, a batch its size, and task_done() is never called too often.
THEOREM TypeCorrect == Spec => []TypeOK
<1>1. IInv => TypeOK
  BY DEF IInv
<1> QED
  BY <1>1, Invariance, PTL

\* publish() of outbox.py for any number of events, queue and batch sizes: an
\* event it accepted is a row or on its way to a writer that takes it, or a loss
\* was reported, unless it was published after close() had begun.
THEOREM NothingForgotten == Spec => []NeverForgotten
<1>1. IInv => NeverForgotten
  BY DEF IInv, Kept, Served, InHand, NeverForgotten
<1> QED
  BY <1>1, Invariance, PTL

\* flush() and close() for any number of callers: what was accepted before a
\* flush that returns normally is in the table.  Once close() has cancelled the
\* writer, this holds of what was accepted before close() began, if close() does
\* not raise.
THEOREM FlushVouches == Spec => []FlushComplete
<1>1. IInv => FlushComplete
  BY DEF IInv, Vouched, Served, FlushComplete
<1> QED
  BY <1>1, Invariance, PTL

\* The durable barrier of publish(): an event that did not go through the
\* queue is a row when publish() has accepted it.
THEOREM BarrierDurable == Spec => []DurableBarrier
<1>1. IInv => DurableBarrier
  BY DEF IInv
<1> QED
  BY <1>1, Invariance, PTL
=============================================================================
