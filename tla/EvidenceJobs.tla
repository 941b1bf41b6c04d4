---------------------------- MODULE EvidenceJobs ----------------------------
(* From stored evidence to graded evidence: the session finalizer            *)
(* (evolution/session_finalizer.py), the table of teacher jobs               *)
(* (storage/evolution_event_store.py) and the worker that grades them        *)
(* (evolution/teacher_worker.py), for one session.                           *)
(*                                                                           *)
(* Evidence rows are numbered 1, 2, ... in the order of their sequence       *)
(* numbers.  finalize() seals the rows after the last finalized one into a   *)
(* window and queues a job for it.  A lock serialises the calls: the model   *)
(* has the one that holds it.  The calls of the store run in threads: a      *)
(* cancelled finalize() leaves its last one behind, and so does a worker     *)
(* that is closed.  A job is leased to the worker of one daemon lifetime.    *)
EXTENDS Integers, Sequences, FiniteSets

CONSTANTS
    MaxEvidence,    \* bound: evidence rows
    MaxAttempts,    \* max_attempts of the worker
    Lifetimes,      \* bound: daemon lifetimes
    StoreErrors     \* bound: failures that the store does not record

ASSUME JobsAssumption ==
    /\ MaxEvidence \in Nat
    /\ MaxAttempts \in Nat \ {0}
    /\ Lifetimes \in Nat \ {0}
    /\ StoreErrors \in Nat

Rows == 1 .. MaxEvidence
Windows == {w \in [from : 0 .. MaxEvidence, through : Rows] : w.from < w.through}
NoWindow == [from |-> 0, through |-> 0]
Calls == {"none", "claim", "complete", "fail"}
Settled == {"COMPLETED", "FAILED_FINAL"}

VARIABLES
    head,       \* evidence rows in the table
    fin,        \* progress of the finalize() that holds the lock
    window,     \* the window it has read so far
    since,      \* history: rows there were when it flushed the outbox
    orphans,    \* windows whose finalize_session() was left behind
    stray,      \* history: windows that were queued by such a call
    covered,    \* history: rows a finalize() that returned normally answers for
    status,     \* the jobs: status of the job of a window, or "absent",
    created,    \* the windows in the order their jobs were created,
    owner,      \* lifetime of the worker that leases the job,
    expired,    \* whether lease_until has passed,
    due,        \* whether next_attempt_at has passed,
    attempts,   \* and how often it was claimed
    daemon,     \* "up", "closing" (the worker is closed) or "down"
    life,       \* the daemon lifetime
    worker,     \* where the worker is in run_once()
    job,        \* the window it grades
    left,       \* the store call a closed worker left behind
    errors      \* failures the store did not record

finVars == <<fin, window, since, orphans, covered>>
jobVars == <<stray, status, created, owner, expired, due, attempts>>
workerVars == <<worker, job, left>>
vars == <<head, finVars, jobVars, daemon, life, workerVars, errors>>

Queued == {w \in Windows : status[w] # "absent"}

Init ==
    /\ head = 0
    /\ fin = "idle"
    /\ window = NoWindow
    /\ since = 0
    /\ orphans = {} /\ stray = {} /\ covered = 0
    /\ status = [w \in Windows |-> "absent"]
    /\ created = <<>>
    /\ owner = [w \in Windows |-> 0]
    /\ expired = [w \in Windows |-> FALSE]
    /\ due = [w \in Windows |-> FALSE]
    /\ attempts = [w \in Windows |-> 0]
    /\ daemon = "up" /\ life = 1
    /\ worker = "idle" /\ job = NoWindow /\ left = "none"
    /\ errors = 0

-----------------------------------------------------------------------------
(* SessionFinalizer *)

\* The outbox or a critical publish() stores one more row.
AppendEvidence ==
    /\ daemon # "down"
    /\ head < MaxEvidence
    /\ head' = head + 1
    /\ UNCHANGED <<finVars, jobVars, daemon, life, workerVars, errors>>

\* Mutant: a window counts as finalized when its job is completed.
LastGraded(n) ==
    /\ n = 0 \/ \E w \in Queued : w.through = n /\ status[w] = "COMPLETED"
    /\ \A w \in Queued : status[w] = "COMPLETED" => w.through <= n

\* last_finalized_sequence() returns n, the largest one or 0.  (It reads the
\* first 5000 windows of a session at most; the model reads all of them.)
LastFinalized(n) ==
    /\ n = 0 \/ \E w \in Queued : w.through = n
    /\ \A w \in Queued : w.through <= n

\* The lock is taken, the outbox is flushed and the last window is read.
FinalizeBegin ==
    /\ daemon # "down"
    /\ fin = "idle"
    /\ fin' = "through"
    /\ since' = head
    /\ \E n \in 0 .. MaxEvidence :
           LastFinalized(n) /\ window' = [window EXCEPT !.from = n]
    /\ UNCHANGED <<head, orphans, covered, jobVars, daemon, life, workerVars,
                   errors>>

\* The call ends: the lock is released.
Leave ==
    /\ fin' = "idle"
    /\ window' = NoWindow
    /\ since' = 0

\* It returns normally.
Answer ==
    /\ Leave
    /\ covered' = IF since > covered THEN since ELSE covered

\* Mutant: the comparison is off by one.
ReadThroughOffByOne ==
    /\ fin = "through"
    /\ IF head <= window.from + 1
       THEN Answer
       ELSE /\ window' = [window EXCEPT !.through = head]
            /\ fin' = "seal"
            /\ UNCHANGED <<since, covered>>
    /\ UNCHANGED <<head, orphans, jobVars, daemon, life, workerVars, errors>>

\* latest_evidence_sequence(); nothing new ends the call.
ReadThrough ==
    /\ fin = "through"
    /\ IF head <= window.from
       THEN Answer
       ELSE /\ window' = [window EXCEPT !.through = head]
            /\ fin' = "seal"
            /\ UNCHANGED <<since, covered>>
    /\ UNCHANGED <<head, orphans, jobVars, daemon, life, workerVars, errors>>

\* Mutant: a window that is there is queued again.
EnqueueAgain(w) ==
    /\ status' = [status EXCEPT ![w] = "PENDING"]
    /\ created' = IF w \in Queued THEN created ELSE Append(created, w)
    /\ due' = [due EXCEPT ![w] = TRUE]
    /\ UNCHANGED <<owner, expired, attempts>>

\* finalize_session(): one transaction, a window that is there stays as it is.
Enqueue(w) ==
    IF w \in Queued
    THEN UNCHANGED <<status, created, owner, expired, due, attempts>>
    ELSE /\ status' = [status EXCEPT ![w] = "PENDING"]
         /\ created' = Append(created, w)
         /\ due' = [due EXCEPT ![w] = TRUE]
         /\ UNCHANGED <<owner, expired, attempts>>

Seal ==
    /\ fin = "seal"
    /\ Enqueue(window)
    /\ Answer
    /\ UNCHANGED <<head, orphans, stray, daemon, life, workerVars, errors>>

\* Mutant: a window that is not complete yet is left behind.
FinalizeEndsEarly(inThread) ==
    /\ fin # "idle"
    /\ Leave
    /\ orphans' = IF inThread THEN orphans \cup {window} ELSE orphans
    /\ UNCHANGED <<head, covered, jobVars, daemon, life, workerVars, errors>>

\* The request is cancelled at an await, or the store raises: nothing is
\* promised.  The call of finalize_session() goes on in its thread.
FinalizeEnds(inThread) ==
    /\ fin # "idle"
    /\ inThread => fin = "seal"
    /\ Leave
    /\ orphans' = IF inThread THEN orphans \cup {window} ELSE orphans
    /\ UNCHANGED <<head, covered, jobVars, daemon, life, workerVars, errors>>

\* The thread commits, or raises.
OrphanSeal(w) ==
    /\ w \in orphans
    /\ orphans' = orphans \ {w}
    /\ Enqueue(w)
    /\ stray' = IF w \in Queued THEN stray ELSE stray \cup {w}
    /\ UNCHANGED <<head, fin, window, since, covered, daemon, life,
                   workerVars, errors>>

OrphanFails(w) ==
    /\ w \in orphans
    /\ orphans' = orphans \ {w}
    /\ UNCHANGED <<head, fin, window, since, covered, jobVars, daemon,
                   life, workerVars, errors>>

-----------------------------------------------------------------------------
(* The jobs in the store *)

\* Mutant: a job that is leased is left to its owner.
ClaimableUnleased(w) ==
    status[w] \in {"PENDING", "FAILED_RETRYABLE"} /\ due[w]

Claimable(w) ==
    \/ status[w] \in {"PENDING", "FAILED_RETRYABLE"} /\ due[w]
    \/ status[w] = "RUNNING" /\ expired[w]

\* claim_teacher_job(): the oldest one
Oldest(w) ==
    \E i \in DOMAIN created :
        /\ created[i] = w
        /\ Claimable(w)
        /\ \A k \in 1 .. i - 1 : ~Claimable(created[k])

ClaimJob(w) ==
    /\ Oldest(w)
    /\ status' = [status EXCEPT ![w] = "RUNNING"]
    /\ owner' = [owner EXCEPT ![w] = life]
    /\ expired' = [expired EXCEPT ![w] = FALSE]
    /\ attempts' = [attempts EXCEPT ![w] = @ + 1]
    /\ UNCHANGED <<stray, created, due>>

Owns(w) == status[w] = "RUNNING" /\ owner[w] = life

\* complete_teacher_job(); the graded facts are part of the transaction.
CompleteJob(w) ==
    /\ Owns(w)
    /\ status' = [status EXCEPT ![w] = "COMPLETED"]
    /\ owner' = [owner EXCEPT ![w] = 0]
    /\ expired' = [expired EXCEPT ![w] = TRUE]
    /\ UNCHANGED <<stray, created, due, attempts>>

\* fail_teacher_job()
FailJob(w, again) ==
    /\ Owns(w)
    /\ status' = [status EXCEPT ![w] =
                    IF again THEN "FAILED_RETRYABLE" ELSE "FAILED_FINAL"]
    /\ owner' = [owner EXCEPT ![w] = 0]
    /\ expired' = [expired EXCEPT ![w] = TRUE]
    /\ due' = [due EXCEPT ![w] = ~again]
    /\ UNCHANGED <<stray, created, attempts>>

\* lease_until and next_attempt_at pass.  While the job is graded _heartbeat()
\* renews the lease; should that fail, nobody else is there to claim the job.
LeaseExpires(w) ==
    /\ status[w] = "RUNNING"
    /\ ~(worker = "grade" /\ job = w)
    /\ ~expired[w]
    /\ expired' = [expired EXCEPT ![w] = TRUE]
    /\ UNCHANGED <<head, finVars, stray, status, created, owner, due, attempts,
                   daemon, life, workerVars, errors>>

BackoffEnds(w) ==
    /\ status[w] = "FAILED_RETRYABLE"
    /\ ~due[w]
    /\ due' = [due EXCEPT ![w] = TRUE]
    /\ UNCHANGED <<head, finVars, stray, status, created, owner, expired,
                   attempts, daemon, life, workerVars, errors>>

-----------------------------------------------------------------------------
(* DurableTeacherWorker *)

Claim(w) ==
    /\ daemon = "up"
    /\ worker = "idle"
    /\ ClaimJob(w)
    /\ worker' = "grade"
    /\ job' = w
    /\ UNCHANGED <<head, finVars, daemon, life, left, errors>>

Idle ==
    /\ worker' = "idle"
    /\ job' = NoWindow
    /\ UNCHANGED <<head, finVars, daemon, life, left>>

\* The teacher answers and the result is recorded.
Complete ==
    /\ worker = "grade"
    /\ CompleteJob(job)
    /\ Idle
    /\ UNCHANGED errors

\* Mutant: one attempt too many.
RetryableOnceMore(defect) == ~defect /\ attempts[job] <= MaxAttempts

\* _process() raises: an internal defect is final, as is the last attempt.
Retryable(defect) == ~defect /\ attempts[job] < MaxAttempts

Fail(defect) ==
    /\ worker = "grade"
    /\ FailJob(job, Retryable(defect))
    /\ Idle
    /\ UNCHANGED errors

\* "teacher job failure state could not be persisted"
FailNotRecorded ==
    /\ worker = "grade"
    /\ errors < StoreErrors
    /\ errors' = errors + 1
    /\ Idle
    /\ UNCHANGED jobVars

\* close(): a store call that is awaited goes on in its thread.
CloseWorker(call) ==
    /\ daemon = "up"
    /\ life < Lifetimes
    /\ call = "claim" => worker = "idle"
    /\ call \in {"complete", "fail"} => worker = "grade"
    /\ daemon' = "closing"
    /\ worker' = "off"
    /\ left' = call
    /\ UNCHANGED <<head, finVars, jobVars, life, job, errors>>

LeftLands ==
    /\ left # "none"
    /\ \/ left = "claim" /\ \E w \in Windows : ClaimJob(w)
       \/ left = "complete" /\ CompleteJob(job)
       \/ left = "fail" /\ \E d \in BOOLEAN : FailJob(job, Retryable(d))
    /\ left' = "none"
    /\ UNCHANGED <<head, finVars, daemon, life, worker, job, errors>>

-----------------------------------------------------------------------------
(* The daemon process ends, by exit or by a crash, and is started again. *)

Down ==
    /\ daemon # "down"
    /\ life < Lifetimes
    /\ daemon' = "down"
    /\ fin' = "idle"
    /\ window' = NoWindow
    /\ since' = 0
    /\ orphans' = {}
    /\ worker' = "off" /\ job' = NoWindow
    /\ left' = "none"
    /\ UNCHANGED <<head, covered, jobVars, life, errors>>

Up ==
    /\ daemon = "down"
    /\ daemon' = "up"
    /\ life' = life + 1
    /\ worker' = "idle"
    /\ UNCHANGED <<head, finVars, jobVars, job, left, errors>>

-----------------------------------------------------------------------------
FinalizeStep == ReadThrough \/ Seal
WorkerStep ==
    \/ \E w \in Windows : Claim(w)
    \/ Complete \/ (\E d \in BOOLEAN : Fail(d)) \/ FailNotRecorded

Next ==
    \/ AppendEvidence
    \/ FinalizeBegin \/ FinalizeStep \/ \E t \in BOOLEAN : FinalizeEnds(t)
    \/ \E w \in orphans : OrphanSeal(w) \/ OrphanFails(w)
    \/ WorkerStep
    \/ \E w \in Windows : LeaseExpires(w) \/ BackoffEnds(w)
    \/ \E call \in Calls : CloseWorker(call)
    \/ LeftLands
    \/ Down \/ Up

Spec == Init /\ [][Next]_vars

\* The worker polls, its awaits end (the teacher has a timeout) and the clock
\* runs.  That a daemon that ended is started again is assumed of its users.
Fairness ==
    /\ WF_vars(WorkerStep)
    /\ \A w \in Windows : WF_vars(LeaseExpires(w)) /\ WF_vars(BackoffEnds(w))
    /\ WF_vars(Down /\ daemon = "closing") /\ WF_vars(Up)

FairSpec == Spec /\ Fairness

-----------------------------------------------------------------------------
(* Properties *)

TypeOK ==
    /\ head \in 0 .. MaxEvidence
    /\ fin \in {"idle", "through", "seal"}
    /\ window \in [from : 0 .. MaxEvidence, through : 0 .. MaxEvidence]
    /\ since \in 0 .. MaxEvidence
    /\ orphans \subseteq Windows /\ stray \subseteq Windows
    /\ covered \in 0 .. MaxEvidence
    /\ status \in [Windows -> {"absent", "PENDING", "RUNNING",
                               "FAILED_RETRYABLE", "COMPLETED", "FAILED_FINAL"}]
    /\ created \in Seq(Windows)
    /\ owner \in [Windows -> 0 .. Lifetimes]
    /\ expired \in [Windows -> BOOLEAN] /\ due \in [Windows -> BOOLEAN]
    /\ attempts \in [Windows -> Nat]
    /\ daemon \in {"up", "closing", "down"}
    /\ life \in 1 .. Lifetimes
    /\ worker \in {"idle", "grade", "off"}
    /\ job \in Windows \cup {NoWindow}
    /\ left \in Calls
    /\ errors \in 0 .. StoreErrors

RowsOf(w) == w.from + 1 .. w.through

\* A finalize() that returns normally leaves every row that was stored before
\* it in the window of some job, also when other calls were cancelled and the
\* daemon crashed before.
EvidenceCovered ==
    \A r \in 1 .. covered : \E w \in Queued : r \in RowsOf(w)

\* "Atomically queue exactly the evidence not finalized before this call":
\* windows of two jobs overlap only when a cancelled finalize()
\* was committed by the thread it left behind: neither a crash nor a repeated
\* call makes a row belong to two jobs.
OverlapOnlyByOrphan ==
    \A v, w \in Queued \ stray : v # w => RowsOf(v) \cap RowsOf(w) = {}

\* max_attempts bounds the gradings of a job up to the ones that leave no trace:
\* a job is claimed more often only for a claim that a crash or a close() lost,
\* one per lifetime, or for a failure that the store did not record.
AttemptBudget ==
    \A w \in Windows : attempts[w] <= MaxAttempts + (life - 1) + errors

\* A job that was graded or given up is never opened again: not by a second
\* finalization of its window, a late store call or a worker of a later daemon.
SettledStays ==
    [][\A w \in Windows : status[w] \in Settled => status'[w] = status[w]]_vars

\* Again and again no job is left to do: a crash between the claim and the end
\* of a grading, a failure that could not be recorded and a store call that was
\* left behind do not strand a job.
JobsSettle == []<>(\A w \in Queued : status[w] \in Settled)
=============================================================================
