--------------------------- MODULE EvidenceOutbox ---------------------------
(* The outbox of evolution evidence (evolution/outbox.py) and the rows it    *)
(* writes (storage/evolution_event_store.py).                                *)
(*                                                                           *)
(* publish() puts an event into a bounded asyncio.Queue and returns; one     *)
(* background task takes batches from the queue and writes them.  A critical *)
(* event, and an event that meets a full queue, is written before publish()  *)
(* returns.  Each write runs in a thread that a timeout or a cancellation    *)
(* leaves behind: such a late write may still be committed.  flush() waits   *)
(* for the queue to be drained, close() flushes and stops the writer.        *)
(*                                                                           *)
(* A step runs from one await to the next.  A cancelled wait_for() raises,   *)
(* as it does since Python 3.12.                                             *)
EXTENDS Integers, Sequences, FiniteSets

CONSTANTS
    Events,             \* the events, each published at most once
    Critical,           \* the ones published with critical=True
    Flushers,           \* callers of flush(): session finalizer, projections
    Closer,             \* the caller of close(): Context.cleanup()
    MaxEvents,          \* capacity of the queue
    MaxBatch,           \* largest batch
    MaxWriteAttempts    \* attempts of one write

ASSUME OutboxAssumption ==
    /\ Critical \subseteq Events
    /\ Closer \notin Flushers
    /\ MaxEvents \in Nat \ {0}
    /\ MaxBatch \in Nat \ {0}
    /\ MaxWriteAttempts \in Nat \ {0}

VARIABLES
    pub,        \* progress of the publish() call of an event
    tries,      \* failed attempts of the direct write of an event
    queue,      \* the asyncio.Queue
    queued,     \* history: the events ever put into the queue
    unfinished, \* the queue's count of items without task_done()
    writer,     \* where the writer task is
    batch,      \* the events it holds
    attempt,    \* failed attempts to write the batch
    late,       \* writes whose thread was left behind
    stored,     \* the events that have a row in the table
    writeError, \* whether _write_error is set
    flush,      \* progress of the flush() of a caller
    owed,       \* history: what had been accepted when the flush began; that
                \* of close() is kept
    vouched,    \* history: what a flush that returned normally had been owed
    closing,    \* progress of close()
    closeFailed \* whether close() has an exception to raise

pubVars == <<pub, tries>>
writerVars == <<writer, batch, attempt>>
flushVars == <<flush, owed, vouched>>
closeVars == <<closing, closeFailed>>
vars == <<pub, tries, queue, queued, unfinished, writer, batch, attempt, late,
          stored, writeError, flush, owed, vouched, closing, closeFailed>>

Callers == Flushers \cup {Closer}
ItemsOf(s) == {s[i] : i \in DOMAIN s}
Accepted == {e \in Events : pub[e] = "accepted"}
Closed == closing \in {"stopping", "closed"}

Init ==
    /\ pub = [e \in Events |-> "new"]
    /\ tries = [e \in Events |-> 0]
    /\ queue = <<>> /\ queued = {} /\ unfinished = 0
    /\ writer = "none" /\ batch = <<>> /\ attempt = 0
    /\ late = {}
    /\ stored = {}
    /\ writeError = FALSE
    /\ flush = [c \in Callers |-> "idle"]
    /\ owed = [c \in Callers |-> {}]
    /\ vouched = {}
    /\ closing = "open" /\ closeFailed = FALSE

-----------------------------------------------------------------------------
(* The table and the queue's counter. *)

\* append() and append_many(): one transaction, rows that exist are skipped.
Insert(es) == stored' = stored \cup ItemsOf(es)

\* n calls of task_done(): the join()s that wait are woken at zero.
TaskDone(n) ==
    /\ unfinished' = unfinished - n
    /\ flush' = [c \in Callers |->
                   IF flush[c] = "wait" /\ unfinished = n THEN "woken"
                   ELSE flush[c]]

-----------------------------------------------------------------------------
(* publish() *)

Refuse(e) ==
    /\ pub[e] = "new"
    /\ Closed \/ writeError
    /\ pub' = [pub EXCEPT ![e] = "refused"]
    /\ UNCHANGED <<tries, queue, queued, unfinished, writerVars, late, stored,
                   writeError, flushVars, closeVars>>

Publishable(e) == pub[e] = "new" /\ ~Closed /\ ~writeError

BeginCritical(e) ==
    /\ Publishable(e)
    /\ e \in Critical
    /\ pub' = [pub EXCEPT ![e] = "writing"]
    /\ UNCHANGED <<tries, queue, queued, unfinished, writerVars, late, stored,
                   writeError, flushVars, closeVars>>

\* Mutant: the queue has no capacity.
PutUnbounded(e) ==
    /\ Publishable(e)
    /\ e \notin Critical
    /\ writer' = IF writer = "none" THEN "get" ELSE writer
    /\ queue' = Append(queue, e)
    /\ queued' = queued \cup {e}
    /\ unfinished' = unfinished + 1
    /\ pub' = [pub EXCEPT ![e] = "accepted"]
    /\ UNCHANGED <<tries, batch, attempt, late, stored, writeError, flushVars,
                   closeVars>>

\* start() and put_nowait()
Put(e) ==
    /\ Publishable(e)
    /\ e \notin Critical
    /\ Len(queue) < MaxEvents
    /\ writer' = IF writer = "none" THEN "get" ELSE writer
    /\ queue' = Append(queue, e)
    /\ queued' = queued \cup {e}
    /\ unfinished' = unfinished + 1
    /\ pub' = [pub EXCEPT ![e] = "accepted"]
    /\ UNCHANGED <<tries, batch, attempt, late, stored, writeError, flushVars,
                   closeVars>>

\* QueueFull
BeginFallback(e) ==
    /\ Publishable(e)
    /\ e \notin Critical
    /\ Len(queue) >= MaxEvents
    /\ pub' = [pub EXCEPT ![e] = "writing"]
    /\ UNCHANGED <<tries, queue, queued, unfinished, writerVars, late, stored,
                   writeError, flushVars, closeVars>>

DirectOk(e) ==
    /\ pub[e] = "writing"
    /\ Insert(<<e>>)
    /\ pub' = [pub EXCEPT ![e] = "accepted"]
    /\ tries' = [tries EXCEPT ![e] = 0]
    /\ UNCHANGED <<queue, queued, unfinished, writerVars, late, writeError,
                   flushVars, closeVars>>

\* Mutant: a write that times out is taken for one that will be committed.
DirectFailAccepts(e, timedOut) ==
    /\ pub[e] = "writing"
    /\ late' = IF timedOut THEN late \cup {<<e>>} ELSE late
    /\ tries' = [tries EXCEPT ![e] = 0]
    /\ pub' = [pub EXCEPT ![e] = IF timedOut THEN "accepted" ELSE "refused"]
    /\ UNCHANGED <<queue, queued, unfinished, writerVars, stored, writeError,
                   flushVars, closeVars>>

\* An attempt raises, or times out and leaves its thread behind.
DirectFail(e, timedOut) ==
    /\ pub[e] = "writing"
    /\ late' = IF timedOut THEN late \cup {<<e>>} ELSE late
    /\ IF tries[e] + 1 = MaxWriteAttempts
       THEN /\ writeError' = TRUE
            /\ pub' = [pub EXCEPT ![e] = "refused"]
            /\ tries' = [tries EXCEPT ![e] = 0]
       ELSE /\ tries' = [tries EXCEPT ![e] = @ + 1]
            /\ UNCHANGED <<writeError, pub>>
    /\ UNCHANGED <<queue, queued, unfinished, writerVars, stored, flushVars,
                   closeVars>>

\* The caller of publish() is cancelled.
DirectCancelled(e) ==
    /\ pub[e] = "writing"
    /\ pub' = [pub EXCEPT ![e] = "refused"]
    /\ tries' = [tries EXCEPT ![e] = 0]
    /\ late' = late \cup {<<e>>}
    /\ UNCHANGED <<queue, queued, unfinished, writerVars, stored, writeError,
                   flushVars, closeVars>>

Publish(e) ==
    \/ Refuse(e) \/ BeginCritical(e) \/ Put(e) \/ BeginFallback(e)
    \/ DirectCancelled(e)

DirectWrite(e) == DirectOk(e) \/ \E t \in BOOLEAN : DirectFail(e, t)

-----------------------------------------------------------------------------
(* The writer task, _run() *)

WriterGet ==
    /\ writer = "get"
    /\ queue # <<>>
    /\ batch' = <<Head(queue)>>
    /\ queue' = Tail(queue)
    /\ writer' = IF MaxBatch > 1 THEN "collect" ELSE "write"
    /\ attempt' = 0
    /\ UNCHANGED <<pubVars, queued, unfinished, late, stored, writeError,
                   flushVars, closeVars>>

WriterCollect ==
    /\ writer = "collect"
    /\ queue # <<>>
    /\ batch' = Append(batch, Head(queue))
    /\ queue' = Tail(queue)
    /\ writer' = IF Len(batch) + 1 < MaxBatch THEN "collect" ELSE "write"
    /\ UNCHANGED <<pubVars, queued, unfinished, attempt, late, stored,
                   writeError, flushVars, closeVars>>

\* The flush interval is over.
WriterDeadline ==
    /\ writer = "collect"
    /\ writer' = "write"
    /\ UNCHANGED <<pubVars, queue, queued, unfinished, batch, attempt, late,
                   stored, writeError, flushVars, closeVars>>

WriterOk ==
    /\ writer = "write"
    /\ Insert(batch)
    /\ TaskDone(Len(batch))
    /\ writer' = "get"
    /\ batch' = <<>>
    /\ attempt' = 0
    /\ UNCHANGED <<pubVars, queue, queued, late, writeError, owed, vouched,
                   closeVars>>

WriterFail(timedOut) ==
    /\ writer = "write"
    /\ late' = IF timedOut THEN late \cup {batch} ELSE late
    /\ IF attempt + 1 = MaxWriteAttempts
       THEN /\ writeError' = TRUE
            /\ TaskDone(Len(batch))
            /\ writer' = "get"
            /\ batch' = <<>>
            /\ attempt' = 0
       ELSE /\ attempt' = attempt + 1
            /\ UNCHANGED <<writeError, unfinished, flush, writer, batch>>
    /\ UNCHANGED <<pubVars, queue, queued, stored, owed, vouched, closeVars>>

WriterWrite == WriterOk \/ \E t \in BOOLEAN : WriterFail(t)

-----------------------------------------------------------------------------
(* Threads that a timeout or a cancellation left behind *)

LateCommit(b) ==
    /\ b \in late
    /\ Insert(b)
    /\ late' = late \ {b}
    /\ UNCHANGED <<pubVars, queue, queued, unfinished, writerVars, writeError,
                   flushVars, closeVars>>

LateFail(b) ==
    /\ b \in late
    /\ late' = late \ {b}
    /\ UNCHANGED <<pubVars, queue, queued, unfinished, writerVars, stored,
                   writeError, flushVars, closeVars>>

-----------------------------------------------------------------------------
(* flush() *)

\* Mutant: an empty queue is taken for a drained one.
MustWaitNonempty == writer # "none" /\ ~Closed /\ queue # <<>>

\* join() waits only when the count is not zero, and does not look again.
MustWait == writer # "none" /\ ~Closed /\ unfinished > 0

FlushBegin(c) ==
    /\ flush[c] = "idle"
    /\ MustWait
    /\ IF c = Closer
       THEN closing = "open" /\ closing' = "flushing"
       ELSE closing' = closing
    /\ flush' = [flush EXCEPT ![c] = "wait"]
    /\ owed' = [owed EXCEPT ![c] = Accepted]
    /\ UNCHANGED <<pubVars, queue, queued, unfinished, writerVars, late,
                   stored, writeError, vouched, closeFailed>>

\* Nothing to wait for: the flush returns, or raises, without an await.
FlushAtOnce(c) ==
    /\ c \in Flushers
    /\ flush[c] = "idle"
    /\ ~MustWait
    /\ vouched' = IF writeError THEN vouched ELSE vouched \cup Accepted
    /\ UNCHANGED <<pubVars, queue, queued, unfinished, writerVars, late,
                   stored, writeError, flush, owed, closeVars>>

\* The flush returns, or raises when a write was given up.  It does not ask
\* whether close() has cancelled the writer, whose task_done() may have woken
\* it before the final write.
FlushReturn(c) ==
    /\ c \in Flushers
    /\ flush[c] = "woken"
    /\ flush' = [flush EXCEPT ![c] = "idle"]
    /\ vouched' = IF writeError THEN vouched ELSE vouched \cup owed[c]
    /\ owed' = [owed EXCEPT ![c] = {}]
    /\ UNCHANGED <<pubVars, queue, queued, unfinished, writerVars, late,
                   stored, writeError, closeVars>>

FlushTimeout(c) ==
    /\ c \in Flushers
    /\ flush[c] # "idle"
    /\ flush' = [flush EXCEPT ![c] = "idle"]
    /\ owed' = [owed EXCEPT ![c] = {}]
    /\ UNCHANGED <<pubVars, queue, queued, unfinished, writerVars, late,
                   stored, writeError, vouched, closeVars>>

-----------------------------------------------------------------------------
(* close() *)

\* Mutant: close() cancels a writer that waits for an event without a flush.
CloseUnflushed ==
    /\ closing = "open"
    /\ writer \in {"none", "get"}
    /\ closing' = "closed"
    /\ closeFailed' = writeError
    /\ vouched' = vouched
    /\ owed' = [owed EXCEPT ![Closer] = Accepted]
    /\ writer' = "done"
    /\ UNCHANGED <<pubVars, queue, queued, unfinished, batch, attempt, late,
                   stored, writeError, flush>>

\* Nothing to flush: the writer, if there is one, waits for an event and ends.
CloseAtOnce ==
    /\ closing = "open"
    /\ ~MustWait
    /\ closing' = "closed"
    /\ closeFailed' = writeError
    /\ vouched' = IF writeError THEN vouched ELSE vouched \cup Accepted
    /\ owed' = [owed EXCEPT ![Closer] = Accepted]
    /\ writer' = "done"
    /\ UNCHANGED <<pubVars, queue, queued, unfinished, batch, attempt, late,
                   stored, writeError, flush>>

\* Mutant: the writer is awaited without being cancelled.
CloseStopUncancelled(timedOut) ==
    /\ closing = "flushing"
    /\ timedOut \/ flush[Closer] = "woken"
    /\ closeFailed' = (timedOut \/ writeError)
    /\ closing' = "stopping"
    /\ UNCHANGED <<pubVars, queue, queued, unfinished, writerVars, late,
                   stored, writeError, flushVars>>

\* The end of the flush, the mark _closed and the cancellation of the writer
\* are one step.  A writer that waits for an event ends; one that collects a
\* batch, or that awaits a write, goes on to the final write.  The latter has
\* called task_done() for its batch on the way.
CloseStop(timedOut) ==
    /\ closing = "flushing"
    /\ timedOut \/ flush[Closer] = "woken"
    /\ closeFailed' = (timedOut \/ writeError)
    /\ vouched' = IF timedOut \/ writeError THEN vouched
                  ELSE vouched \cup owed[Closer]
    /\ closing' = IF writer \in {"none", "get"} THEN "closed" ELSE "stopping"
    /\ writer' = CASE writer \in {"none", "get"} -> "done"
                   [] writer = "collect" -> "final"
                   [] writer = "write" -> "finalAgain"
    /\ IF writer = "write"
       THEN /\ unfinished' = unfinished - Len(batch)
            /\ late' = late \cup {batch}
       ELSE UNCHANGED <<unfinished, late>>
    /\ flush' = [c \in Callers |->
                   IF c = Closer THEN "idle"
                   ELSE IF flush[c] = "wait" /\ writer = "write"
                            /\ unfinished = Len(batch) THEN "woken"
                   ELSE flush[c]]
    /\ UNCHANGED <<pubVars, queue, queued, batch, attempt, stored,
                   writeError, owed>>

\* The final write has no timeout.  task_done() is called once more for each
\* event of the batch and raises when the count would become negative.
FinalWrite(ok) ==
    /\ writer \in {"final", "finalAgain"}
    /\ IF ok THEN Insert(batch) ELSE UNCHANGED <<stored>>
    /\ TaskDone(IF unfinished < Len(batch) THEN unfinished ELSE Len(batch))
    /\ closeFailed' = (closeFailed \/ ~ok \/ unfinished < Len(batch))
    /\ writer' = "done"
    /\ batch' = <<>>
    /\ closing' = "closed"
    /\ UNCHANGED <<pubVars, queue, queued, attempt, late, writeError, owed,
                   vouched>>

-----------------------------------------------------------------------------
Next ==
    \/ \E e \in Events : Publish(e) \/ DirectWrite(e)
    \/ WriterGet \/ WriterCollect \/ WriterDeadline \/ WriterWrite
    \/ \E b \in late : LateCommit(b) \/ LateFail(b)
    \/ \E c \in Callers : FlushBegin(c) \/ FlushAtOnce(c) \/ FlushReturn(c)
                         \/ FlushTimeout(c)
    \/ CloseAtOnce
    \/ \E t \in BOOLEAN : CloseStop(t)
    \/ \E ok \in BOOLEAN : FinalWrite(ok)

Spec == Init /\ [][Next]_vars

\* The event loop serves every task that is ready and every timer fires: an
\* attempt of the writer ends by its timeout, and so does the flush of close().  The final
\* write of close() has no timeout: that it returns is assumed of the store.
Fairness ==
    /\ WF_vars(WriterGet) /\ WF_vars(WriterDeadline) /\ WF_vars(WriterWrite)
    /\ WF_vars(\E t \in BOOLEAN : CloseStop(t))
    /\ WF_vars(\E ok \in BOOLEAN : FinalWrite(ok))

FairSpec == Spec /\ Fairness

-----------------------------------------------------------------------------
(* Properties *)

TypeOK ==
    /\ pub \in [Events -> {"new", "writing", "accepted", "refused"}]
    /\ tries \in [Events -> 0 .. MaxWriteAttempts - 1]
    /\ queue \in Seq(Events) /\ Len(queue) <= MaxEvents
    /\ queued \subseteq Events
    /\ unfinished \in Nat
    /\ writer \in {"none", "get", "collect", "write", "final", "finalAgain",
                   "done"}
    /\ batch \in Seq(Events) /\ Len(batch) <= MaxBatch
    /\ attempt \in 0 .. MaxWriteAttempts - 1
    /\ late \subseteq Seq(Events)
    /\ stored \subseteq Events
    /\ writeError \in BOOLEAN
    /\ flush \in [Callers -> {"idle", "wait", "woken"}]
    /\ owed \in [Callers -> SUBSET Events]
    /\ vouched \subseteq Events
    /\ closing \in {"open", "flushing", "stopping", "closed"}
    /\ closeFailed \in BOOLEAN

\* publish() returns "without silently losing" the event: an event it accepted
\* is a row, is in the writer's hands, or waits in the queue of a writer that
\* will take it, unless an error that every later call raises, or the exception
\* of close(), reports a loss.  The exception is an event published while
\* close() flushes: what is in the queue when the writer is cancelled stays
\* there, and close() may return normally.
NeverForgotten ==
    \A e \in Accepted :
        \/ e \in stored \cup ItemsOf(batch)
        \/ e \in ItemsOf(queue) /\ (Closed => e \notin owed[Closer])
        \/ writeError \/ closeFailed

\* A flush() that returns normally, also the one in close(), finds everything
\* that was accepted before it began in the table, although writes time out,
\* are repeated and are committed late.  The session finalizer relies on it.
\* Once close() has cancelled the writer a flush returns normally as well, even
\* before the final write: then it holds of what was accepted before close()
\* began, if close() does not raise.
FlushComplete ==
    \A e \in vouched :
        e \in stored \/ (Closed /\ (closeFailed \/ e \notin owed[Closer]))

\* A critical event, and one that met a full queue, is a row when its
\* publish() returns: it never depends on the queue or the writer.
DurableBarrier ==
    \A e \in Accepted : e \notin queued => e \in stored

\* A close() that has begun ends, although writes fail and time out.
CloseEnds == closing = "flushing" ~> closing = "closed"
=============================================================================
