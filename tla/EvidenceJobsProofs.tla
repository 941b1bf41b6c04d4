------------------------ MODULE EvidenceJobsProofs ------------------------
(***************************************************************************)
(* Proofs about EvidenceJobs, for any number of rows, attempts, lifetimes  *)
(* and errors: types, that finalized evidence is in a job, that windows    *)
(* overlap only by a call left behind, the attempt budget, and that a      *)
(* settled job stays settled.                                              *)
(*                                                                         *)
(* Coverage rests on Chained: every window begins where rows are covered   *)
(* already, whoever queues it and when.  Disjointness rests on Sealing:    *)
(* while a finalize() holds the lock only calls left behind queue windows. *)
(* The budget rests on Attempted: a job that is RUNNING and that nobody    *)
(* works on has lost a claim, so that it has one to spare.                 *)
(***************************************************************************)
EXTENDS EvidenceJobs, TLAPS

\* The status of a job.
Statuses == {"absent", "PENDING", "RUNNING", "FAILED_RETRYABLE", "COMPLETED",
             "FAILED_FINAL"}

\* Where the worker and the store call it left behind are.
Places ==
  /\ worker \in {"idle", "grade"} => daemon = "up" /\ left = "none"
  /\ worker = "grade" => job \in Windows
  /\ left \in {"complete", "fail"} => job \in Windows
  /\ daemon = "down" => left = "none"
  /\ daemon # "up" => life < Lifetimes

\* What a finalize() under way has read.
Reading ==
  /\ since <= head
  /\ fin = "seal" => window \in Windows /\ since <= window.through

\* The rows up to n are in windows of jobs.
CoveredTo(n) == \A r \in 1 .. n : \E w \in Queued : r \in RowsOf(w)

\* A window begins where the rows are covered.
Chained ==
  /\ \A w \in Queued : CoveredTo(w.through)
  /\ \A w \in orphans : CoveredTo(w.from)
  /\ fin # "idle" => CoveredTo(window.from)

\* While a finalize() is under way, windows that were not queued by a call left
\* behind end before the one it seals.
Sealing ==
  fin # "idle" => \A w \in Queued \ stray : w.through <= window.from

\* The claims a job may have used.
Bound == MaxAttempts + (life - 1) + errors

\* A job that waits has an attempt left, and one that is RUNNING has a claim to
\* spare when nobody works on it.
Attempted ==
  \A w \in Windows :
    /\ attempts[w] <= Bound
    /\ status[w] \in {"absent", "PENDING", "FAILED_RETRYABLE"}
         => attempts[w] < MaxAttempts
    /\ status[w] = "RUNNING"
         /\ (worker = "idle" \/ left = "claim" \/ (worker = "grade" /\ w # job))
         => attempts[w] < Bound

IInv ==
  /\ TypeOK /\ Places /\ Reading /\ Attempted
  /\ Chained /\ EvidenceCovered /\ Sealing /\ OverlapOnlyByOrphan

-----------------------------------------------------------------------------
(* Windows and bounds *)

\* A window is a nonempty interval of rows.
LEMMA WindowBounds ==
  \A w \in Windows : /\ w.from \in 0 .. MaxEvidence
                     /\ w.through \in 1 .. MaxEvidence
                     /\ w.from < w.through
  BY DEF Windows, Rows

\* NoWindow is not one.
LEMMA NoWindowOut == NoWindow \notin Windows
  BY DEF NoWindow, Windows, Rows

\* The bound is a number, and a positive one in every lifetime.
LEMMA BoundNat ==
  ASSUME TypeOK
  PROVE  Bound \in Nat /\ MaxAttempts <= Bound /\ MaxAttempts \in Nat \ {0}
  BY JobsAssumption DEF TypeOK, Bound

\* NoWindow has the type of a window under construction.
LEMMA NoWindowType ==
  NoWindow \in [from : 0 .. MaxEvidence, through : 0 .. MaxEvidence]
  BY JobsAssumption DEF NoWindow

\* A window adds its rows to those before it.
LEMMA RowsOfWindow ==
  \A w \in Windows : \A r \in Nat : r <= w.through =>
    r \in 1 .. w.from \/ r \in RowsOf(w) \/ r = 0
  BY WindowBounds DEF RowsOf

\* Windows of which one ends before the other begins have no row in common.
LEMMA RowsDisjoint ==
  \A v, w \in Windows : v.through <= w.from =>
    RowsOf(v) \cap RowsOf(w) = {} /\ RowsOf(w) \cap RowsOf(v) = {}
  BY WindowBounds DEF RowsOf

-----------------------------------------------------------------------------
(* The transactions of the store *)

\* finalize_session() adds one window at most.
LEMMA EnqueueFacts ==
  ASSUME TypeOK, NEW u \in Windows, Enqueue(u)
  PROVE  /\ Queued' = Queued \cup {u}
         /\ status' \in [Windows -> Statuses]
         /\ created' \in Seq(Windows)
         /\ due' \in [Windows -> BOOLEAN]
         /\ UNCHANGED <<owner, expired, attempts>>
<1>1. CASE u \in Queued
  BY <1>1 DEF Enqueue, TypeOK, Queued, Statuses
<1>2. CASE u \notin Queued
  <2>1. /\ status' = [status EXCEPT ![u] = "PENDING"]
        /\ created' = Append(created, u)
        /\ due' = [due EXCEPT ![u] = TRUE]
        /\ UNCHANGED <<owner, expired, attempts>>
    BY <1>2 DEF Enqueue
  <2>2. status' \in [Windows -> Statuses] /\ Queued' = Queued \cup {u}
    BY <2>1 DEF TypeOK, Queued, Statuses
  <2>3. created' \in Seq(Windows) /\ due' \in [Windows -> BOOLEAN]
    BY <2>1 DEF TypeOK
  <2> QED
    BY <2>1, <2>2, <2>3
<1> QED
  BY <1>1, <1>2

\* A claim.
LEMMA ClaimFacts ==
  ASSUME TypeOK, NEW u \in Windows, ClaimJob(u)
  PROVE  /\ Queued' = Queued
         /\ status' \in [Windows -> Statuses]
         /\ owner' \in [Windows -> 0 .. Lifetimes]
         /\ expired' \in [Windows -> BOOLEAN]
         /\ attempts' \in [Windows -> Nat]
         /\ UNCHANGED <<stray, created, due>>
         /\ Claimable(u)
<1>1. /\ Claimable(u)
      /\ status' = [status EXCEPT ![u] = "RUNNING"]
      /\ owner' = [owner EXCEPT ![u] = life]
      /\ expired' = [expired EXCEPT ![u] = FALSE]
      /\ attempts' = [attempts EXCEPT ![u] = @ + 1]
      /\ UNCHANGED <<stray, created, due>>
  BY DEF ClaimJob, Oldest
<1>2. status' \in [Windows -> Statuses] /\ Queued' = Queued
  BY <1>1 DEF TypeOK, Queued, Statuses, Claimable
<1>3. owner' \in [Windows -> 0 .. Lifetimes]
  <2>1. life \in 0 .. Lifetimes
    BY DEF TypeOK
  <2> QED
    BY <1>1, <2>1 DEF TypeOK
<1>4. expired' \in [Windows -> BOOLEAN]
  BY <1>1 DEF TypeOK
<1>5. attempts' \in [Windows -> Nat]
  <2>1. attempts[u] + 1 \in Nat
    BY DEF TypeOK
  <2> QED
    BY <1>1, <2>1 DEF TypeOK
<1> QED
  BY <1>1, <1>2, <1>3, <1>4, <1>5

\* The end of a grading.
LEMMA EndFacts ==
  ASSUME TypeOK, NEW u \in Windows, NEW again \in BOOLEAN,
         CompleteJob(u) \/ FailJob(u, again)
  PROVE  /\ Queued' = Queued
         /\ status' \in [Windows -> Statuses]
         /\ owner' \in [Windows -> 0 .. Lifetimes]
         /\ expired' \in [Windows -> BOOLEAN]
         /\ due' \in [Windows -> BOOLEAN]
         /\ UNCHANGED <<stray, created, attempts>>
<1>1. status' \in [Windows -> Statuses] /\ Queued' = Queued
  BY DEF TypeOK, Queued, Statuses, Owns, CompleteJob, FailJob
<1>2. owner' \in [Windows -> 0 .. Lifetimes]
  <2>1. 0 \in 0 .. Lifetimes /\ owner' = [owner EXCEPT ![u] = 0]
    BY JobsAssumption DEF CompleteJob, FailJob
  <2> QED
    BY <2>1 DEF TypeOK
<1>3. expired' \in [Windows -> BOOLEAN]
  <2>1. expired' = [expired EXCEPT ![u] = TRUE]
    BY DEF CompleteJob, FailJob
  <2> QED
    BY <2>1 DEF TypeOK
<1>4. due' \in [Windows -> BOOLEAN]
  <2>1. due' = due \/ due' = [due EXCEPT ![u] = ~again]
    BY DEF CompleteJob, FailJob
  <2> QED
    BY <2>1 DEF TypeOK
<1>5. UNCHANGED <<stray, created, attempts>>
  BY DEF CompleteJob, FailJob
<1> QED
  BY <1>1, <1>2, <1>3, <1>4, <1>5

\* The store call that a closed worker left behind.
LEMMA LeftFacts ==
  ASSUME TypeOK, Places, LeftLands
  PROVE  /\ Queued' = Queued
         /\ status' \in [Windows -> Statuses]
         /\ owner' \in [Windows -> 0 .. Lifetimes]
         /\ expired' \in [Windows -> BOOLEAN]
         /\ due' \in [Windows -> BOOLEAN]
         /\ attempts' \in [Windows -> Nat]
         /\ UNCHANGED <<stray, created>>
<1>1. CASE \E w \in Windows : ClaimJob(w)
  BY <1>1, ClaimFacts DEF TypeOK
<1>2. CASE left = "complete" /\ CompleteJob(job)
  <2>1. PICK u \in Windows : u = job
    BY <1>2 DEF Places
  <2>2. CompleteJob(u)
    BY <1>2, <2>1
  <2> QED
    BY <2>2, EndFacts DEF TypeOK
<1>3. CASE left = "fail" /\ \E d \in BOOLEAN : FailJob(job, Retryable(d))
  <2>1. PICK u \in Windows : u = job
    BY <1>3 DEF Places
  <2>2. PICK again \in BOOLEAN : FailJob(u, again)
    BY <1>3, <2>1 DEF Retryable
  <2> QED
    BY <2>2, EndFacts DEF TypeOK
<1> QED
  BY <1>1, <1>2, <1>3 DEF LeftLands

\* A finalize() that returns normally.
LEMMA AnswerFacts ==
  ASSUME TypeOK, Answer
  PROVE  /\ fin' = "idle"
         /\ window' \in [from : 0 .. MaxEvidence, through : 0 .. MaxEvidence]
         /\ since' \in 0 .. MaxEvidence
         /\ covered' \in 0 .. MaxEvidence
         /\ covered' = since \/ covered' = covered
  BY NoWindowType, JobsAssumption DEF TypeOK, Answer, Leave

-----------------------------------------------------------------------------
(* The invariant *)

\* The table is empty and the daemon is up.
LEMMA InitIInv == Init => IInv
<1> SUFFICES ASSUME Init PROVE IInv
  OBVIOUS
<1>1. Queued = {}
  BY DEF Init, Queued
<1>2. TypeOK
  <2>1. /\ 0 \in 0 .. MaxEvidence /\ 0 \in 0 .. Lifetimes
        /\ 1 \in 1 .. Lifetimes /\ 0 \in 0 .. StoreErrors
    BY JobsAssumption
  <2>2. owner \in [Windows -> 0 .. Lifetimes] /\ attempts \in [Windows -> Nat]
    BY <2>1 DEF Init
  <2>3. /\ status \in [Windows -> Statuses]
        /\ expired \in [Windows -> BOOLEAN] /\ due \in [Windows -> BOOLEAN]
    BY DEF Init, Statuses
  <2> QED
    BY <2>1, <2>2, <2>3, NoWindowType DEF Init, TypeOK, Calls, Statuses
<1>3. Places /\ Reading
  BY DEF Init, Places, Reading
<1>4. Attempted
  <2>1. \A w \in Windows : attempts[w] = 0 /\ status[w] = "absent"
    BY DEF Init
  <2> QED
    BY <1>2, <2>1, BoundNat DEF Attempted
<1>5. Chained /\ EvidenceCovered /\ Sealing /\ OverlapOnlyByOrphan
  BY <1>1 DEF Init, Chained, EvidenceCovered, Sealing, OverlapOnlyByOrphan
<1> QED
  BY <1>2, <1>3, <1>4, <1>5 DEF IInv

\* AppendEvidence keeps the invariant.
LEMMA AppendEvidenceStep ==
  ASSUME IInv, AppendEvidence
  PROVE  IInv'
<1> USE DEF IInv, AppendEvidence, finVars, jobVars, workerVars
<1>1. TypeOK'
  BY JobsAssumption DEF TypeOK
<1>2. Reading'
  BY DEF Reading, TypeOK
<1>3. (Places /\ Attempted /\ Chained /\ EvidenceCovered /\ Sealing /\
       OverlapOnlyByOrphan)'
  BY DEF Places, Attempted, Chained, EvidenceCovered, Sealing,
       OverlapOnlyByOrphan, Bound, CoveredTo, Queued
<1> QED
  BY <1>1, <1>2, <1>3 DEF IInv

\* FinalizeBegin keeps the invariant.
LEMMA FinalizeBeginStep ==
  ASSUME IInv, FinalizeBegin
  PROVE  IInv'
<1> USE DEF IInv, FinalizeBegin, LastFinalized, jobVars, workerVars
<1>1. TypeOK'
  BY DEF TypeOK
<1>2. Reading'
  BY DEF Reading, TypeOK
<1>3. Chained'
  BY DEF Chained, CoveredTo, Queued
<1>4. Sealing'
  BY DEF Sealing, Queued
<1>5. (Places /\ Attempted /\ EvidenceCovered /\ OverlapOnlyByOrphan)'
  BY DEF Places, Attempted, EvidenceCovered, OverlapOnlyByOrphan, Bound,
       Queued
<1> QED
  BY <1>1, <1>2, <1>3, <1>4, <1>5 DEF IInv

\* ReadThrough keeps the invariant.
LEMMA ReadThroughStep ==
  ASSUME IInv, ReadThrough
  PROVE  IInv'
<1> USE DEF IInv, ReadThrough, Leave, Answer, jobVars, workerVars
<1>1. TypeOK'
  <2>1. CASE head <= window.from
    <3>1. UNCHANGED <<head, orphans, jobVars, daemon, life, workerVars, errors>>
      OBVIOUS
    <3> QED
      BY <2>1, <3>1, AnswerFacts DEF TypeOK
  <2>2. CASE ~(head <= window.from)
    <3>1. window' \in [from : 0 .. MaxEvidence, through : 0 .. MaxEvidence]
      BY <2>2 DEF TypeOK
    <3> QED
      BY <2>2, <3>1 DEF TypeOK
  <2> QED
    BY <2>1, <2>2
<1>2. Reading'
  BY DEF Reading, TypeOK, Windows, Rows
<1>3. Chained'
  BY DEF Chained, CoveredTo, Queued, TypeOK
<1>4. EvidenceCovered'
  <2>1. Queued' = Queued
    BY DEF Queued
  <2>2. CASE head <= window.from
    <3>1. CoveredTo(window.from) /\ since <= head
      BY DEF Chained, Reading
    <3>2. since <= window.from /\ since \in Nat /\ window.from \in Nat
      BY <2>2, <3>1 DEF TypeOK
    <3>3. \A r \in 1 .. since : r \in 1 .. window.from
      BY <3>2
    <3>4. covered' = since \/ covered' = covered
      BY <2>2 DEF Answer
    <3> QED
      BY <2>1, <3>1, <3>3, <3>4 DEF EvidenceCovered, CoveredTo
  <2>3. CASE ~(head <= window.from)
    BY <2>1, <2>3 DEF EvidenceCovered
  <2> QED
    BY <2>2, <2>3
<1>5. Sealing'
  BY DEF Sealing, Queued, TypeOK
<1>6. (Places /\ Attempted /\ OverlapOnlyByOrphan)'
  BY DEF Places, Attempted, OverlapOnlyByOrphan, Bound, Queued
<1> QED
  BY <1>1, <1>2, <1>3, <1>4, <1>5, <1>6 DEF IInv

\* Seal keeps the invariant.
LEMMA SealStep ==
  ASSUME IInv, Seal
  PROVE  IInv'
<1> USE DEF IInv, Seal, Leave, Answer, Enqueue, workerVars
<1>1. TypeOK'
  <2>1. PICK u \in Windows : u = window
    BY DEF Reading
  <2>2. Enqueue(u)
    BY <2>1
  <2>3. UNCHANGED <<head, orphans, stray, daemon, life, workerVars, errors>>
    OBVIOUS
  <2> QED
    BY <2>2, <2>3, EnqueueFacts, AnswerFacts DEF TypeOK, Statuses
<1>2. Reading'
  BY DEF Reading, TypeOK
<1>3. Attempted'
  BY DEF Attempted, TypeOK, Bound, Queued
<1>4. Chained'
  <2>1. PICK u \in Windows : u = window
    BY DEF Reading
  <2>2. Queued' = Queued \cup {u}
    BY <2>1, EnqueueFacts
  <2>3. \A r \in 1 .. u.from : \E w \in Queued : r \in RowsOf(w)
    BY <2>1 DEF Chained, CoveredTo
  <2>4. \A r \in 1 .. u.through : \E w \in Queued' : r \in RowsOf(w)
    BY <2>2, <2>3, RowsOfWindow, WindowBounds
  <2>5. \A v \in Queued' : \A r \in 1 .. v.through :
          \E w \in Queued' : r \in RowsOf(w)
    BY <2>2, <2>4 DEF Chained, CoveredTo
  <2>6. \A v \in orphans : \A r \in 1 .. v.from :
          \E w \in Queued' : r \in RowsOf(w)
    BY <2>2 DEF Chained, CoveredTo
  <2> QED
    BY <2>5, <2>6 DEF Chained, CoveredTo
<1>5. EvidenceCovered'
  <2>1. PICK u \in Windows : u = window
    BY DEF Reading
  <2>2. Queued' = Queued \cup {u}
    BY <2>1, EnqueueFacts
  <2>3. \A r \in 1 .. u.from : \E w \in Queued : r \in RowsOf(w)
    BY <2>1 DEF Chained, CoveredTo
  <2>4. \A r \in 1 .. u.through : \E w \in Queued' : r \in RowsOf(w)
    BY <2>2, <2>3, RowsOfWindow, WindowBounds
  <2>5. since <= u.through /\ since \in Nat /\ u.through \in Nat
    BY <2>1, WindowBounds DEF Reading, TypeOK
  <2>6. \A r \in 1 .. since : \E w \in Queued' : r \in RowsOf(w)
    BY <2>4, <2>5
  <2>7. covered' = since \/ covered' = covered
    OBVIOUS
  <2> QED
    BY <2>2, <2>6, <2>7 DEF EvidenceCovered
<1>6. Sealing'
  BY DEF Sealing
<1>7. OverlapOnlyByOrphan'
  <2>1. PICK u \in Windows : u = window
    BY DEF Reading
  <2>2. Queued' = Queued \cup {u} /\ stray' = stray
    BY <2>1, EnqueueFacts
  <2>3. \A w \in Queued \ stray : w \in Windows /\ w.through <= u.from
    BY <2>1 DEF Sealing, Queued
  <2>4. \A w \in Queued \ stray :
          RowsOf(w) \cap RowsOf(u) = {} /\ RowsOf(u) \cap RowsOf(w) = {}
    BY <2>3, RowsDisjoint
  <2> QED
    BY <2>2, <2>4 DEF OverlapOnlyByOrphan
<1>8. Places'
  BY DEF Places
<1> QED
  BY <1>1, <1>2, <1>3, <1>4, <1>5, <1>6, <1>7, <1>8 DEF IInv

\* FinalizeEnds(t) keeps the invariant.
LEMMA FinalizeEndsStep ==
  ASSUME IInv, NEW t \in BOOLEAN, FinalizeEnds(t)
  PROVE  IInv'
<1> USE DEF IInv, FinalizeEnds, Leave, jobVars, workerVars
<1>1. TypeOK'
  BY JobsAssumption DEF TypeOK, Reading, NoWindow
<1>2. Reading'
  BY DEF Reading, TypeOK
<1>3. Chained'
  BY DEF Chained, CoveredTo, Queued
<1>4. Sealing'
  BY DEF Sealing
<1>5. (Places /\ Attempted /\ EvidenceCovered /\ OverlapOnlyByOrphan)'
  BY DEF Places, Attempted, EvidenceCovered, OverlapOnlyByOrphan, Bound,
       Queued
<1> QED
  BY <1>1, <1>2, <1>3, <1>4, <1>5 DEF IInv

\* OrphanSeal(u) keeps the invariant.
LEMMA OrphanSealStep ==
  ASSUME IInv, NEW u \in orphans, OrphanSeal(u)
  PROVE  IInv'
<1> USE DEF IInv, OrphanSeal, Enqueue, workerVars
<1>1. TypeOK'
  <2>1. u \in Windows
    BY DEF TypeOK
  <2>2. UNCHANGED <<head, fin, window, since, covered, daemon, life, workerVars,
                    errors>>
    OBVIOUS
  <2>3. orphans' \subseteq Windows /\ stray' \subseteq Windows
    BY <2>1 DEF TypeOK
  <2> QED
    BY <2>1, <2>2, <2>3, EnqueueFacts DEF TypeOK, Statuses
<1>2. Attempted'
  BY DEF Attempted, TypeOK, Bound, Queued
<1>3. Chained'
  <2>1. u \in Windows
    BY DEF TypeOK
  <2>2. Queued' = Queued \cup {u}
    BY <2>1, EnqueueFacts
  <2>3. \A r \in 1 .. u.from : \E w \in Queued : r \in RowsOf(w)
    BY DEF Chained, CoveredTo
  <2>4. \A r \in 1 .. u.through : \E w \in Queued' : r \in RowsOf(w)
    BY <2>1, <2>2, <2>3, RowsOfWindow, WindowBounds
  <2>5. \A v \in Queued' : \A r \in 1 .. v.through :
          \E w \in Queued' : r \in RowsOf(w)
    BY <2>2, <2>4 DEF Chained, CoveredTo
  <2>6. \A v \in orphans' : \A r \in 1 .. v.from :
          \E w \in Queued' : r \in RowsOf(w)
    BY <2>2 DEF Chained, CoveredTo
  <2>7. fin' # "idle" => \A r \in 1 .. (window').from :
          \E w \in Queued' : r \in RowsOf(w)
    BY <2>2 DEF Chained, CoveredTo
  <2> QED
    BY <2>5, <2>6, <2>7 DEF Chained, CoveredTo
<1>4. EvidenceCovered'
  BY DEF EvidenceCovered, Queued, TypeOK
<1>5. Sealing'
  BY DEF Sealing, Queued, TypeOK
<1>6. OverlapOnlyByOrphan'
  <2>1. u \in Windows
    BY DEF TypeOK
  <2>2. Queued' = Queued \cup {u}
    BY <2>1, EnqueueFacts
  <2>3. Queued' \ stray' \subseteq Queued \ stray
    BY <2>2
  <2> QED
    BY <2>3 DEF OverlapOnlyByOrphan
<1>7. (Places /\ Reading)'
  BY DEF Places, Reading
<1> QED
  BY <1>1, <1>2, <1>3, <1>4, <1>5, <1>6, <1>7 DEF IInv

\* OrphanFails(u) keeps the invariant.
LEMMA OrphanFailsStep ==
  ASSUME IInv, NEW u \in orphans, OrphanFails(u)
  PROVE  IInv'
<1> USE DEF IInv, OrphanFails, jobVars, workerVars
<1>1. TypeOK'
  BY DEF TypeOK
<1>2. Chained'
  BY DEF Chained, CoveredTo, Queued
<1>3. (Places /\ Reading /\ Attempted /\ EvidenceCovered /\ Sealing /\
       OverlapOnlyByOrphan)'
  BY DEF Places, Reading, Attempted, EvidenceCovered, Sealing,
       OverlapOnlyByOrphan, Bound, Queued
<1> QED
  BY <1>1, <1>2, <1>3 DEF IInv

\* Claim(u) keeps the invariant.
LEMMA ClaimStep ==
  ASSUME IInv, NEW u \in Windows, Claim(u)
  PROVE  IInv'
<1> USE DEF IInv, Claim, finVars
<1>1. TypeOK'
  <2>1. /\ UNCHANGED <<head, finVars, daemon, life, left, errors>>
        /\ worker' = "grade" /\ job' = u
    OBVIOUS
  <2> QED
    BY <2>1, ClaimFacts DEF TypeOK, Statuses
<1>2. Places'
  BY DEF Places
<1>3. Attempted'
  <2>1. Claimable(u) /\ left = "none" /\ worker = "idle"
    BY ClaimFacts DEF Places
  <2>2. Bound' = Bound /\ left' = left /\ worker' = "grade" /\ job' = u
    BY DEF Bound
  <2>3. attempts[u] < Bound /\ attempts[u] \in Nat /\ Bound \in Nat
    BY <2>1, BoundNat DEF Attempted, TypeOK, Claimable
  <2>4. attempts'[u] = attempts[u] + 1 /\ status'[u] = "RUNNING"
    BY DEF TypeOK, ClaimJob
  <2>5. \A w \in Windows \ {u} :
          attempts'[w] = attempts[w] /\ status'[w] = status[w]
    BY DEF TypeOK, ClaimJob
  <2>6. \A w \in Windows \ {u} :
          attempts[w] <= Bound /\ (status[w] = "RUNNING" => attempts[w] < Bound)
    BY <2>1 DEF Attempted
  <2>7. attempts'[u] <= Bound
    BY <2>3, <2>4
  <2> QED
    BY <2>1, <2>2, <2>4, <2>5, <2>6, <2>7 DEF Attempted
<1>4. Chained'
  BY ClaimFacts DEF Chained, CoveredTo, finVars
<1>5. EvidenceCovered'
  BY ClaimFacts DEF EvidenceCovered, finVars
<1>6. Sealing'
  BY ClaimFacts DEF Sealing, finVars
<1>7. OverlapOnlyByOrphan'
  BY ClaimFacts DEF OverlapOnlyByOrphan, finVars
<1>8. Reading'
  <2>1. Queued' = Queued /\ UNCHANGED <<stray, finVars, head>>
    BY ClaimFacts
  <2> QED
    BY <2>1 DEF Reading
<1> QED
  BY <1>1, <1>2, <1>3, <1>4, <1>5, <1>6, <1>7, <1>8 DEF IInv

\* Complete keeps the invariant.
LEMMA CompleteStep ==
  ASSUME IInv, Complete
  PROVE  IInv'
<1> USE DEF IInv, Complete, Owns, CompleteJob, Idle, finVars
<1>1. TypeOK'
  BY JobsAssumption DEF TypeOK, Places
<1>2. Places'
  BY DEF Places
<1>3. Attempted'
  BY DEF Attempted, TypeOK, Bound
<1>4. Chained'
  BY DEF Chained, CoveredTo, Queued
<1>5. EvidenceCovered'
  BY DEF EvidenceCovered, Queued
<1>6. Sealing'
  BY DEF Sealing, Queued
<1>7. OverlapOnlyByOrphan'
  BY DEF OverlapOnlyByOrphan, Queued
<1>8. Reading'
  BY DEF Reading
<1> QED
  BY <1>1, <1>2, <1>3, <1>4, <1>5, <1>6, <1>7, <1>8 DEF IInv

\* Fail(d) keeps the invariant.
LEMMA FailStep ==
  ASSUME IInv, NEW d \in BOOLEAN, Fail(d)
  PROVE  IInv'
<1> USE DEF IInv, Fail, Owns, FailJob, Idle, Retryable, finVars
<1>1. TypeOK'
  BY JobsAssumption DEF TypeOK, Places
<1>2. Places'
  BY DEF Places
<1>3. Attempted'
  BY DEF Attempted, TypeOK, Bound
<1>4. Chained'
  BY DEF Chained, CoveredTo, Queued
<1>5. EvidenceCovered'
  BY DEF EvidenceCovered, Queued
<1>6. Sealing'
  BY DEF Sealing, Queued
<1>7. OverlapOnlyByOrphan'
  BY DEF OverlapOnlyByOrphan, Queued
<1>8. Reading'
  BY DEF Reading
<1> QED
  BY <1>1, <1>2, <1>3, <1>4, <1>5, <1>6, <1>7, <1>8 DEF IInv

\* FailNotRecorded keeps the invariant.
LEMMA FailNotRecordedStep ==
  ASSUME IInv, FailNotRecorded
  PROVE  IInv'
<1> USE DEF IInv, FailNotRecorded, Idle, finVars, jobVars
<1>1. TypeOK'
  BY JobsAssumption DEF TypeOK
<1>2. Places'
  BY DEF Places
<1>3. Attempted'
  BY JobsAssumption DEF Attempted, TypeOK, Bound
<1>4. (Reading /\ Chained /\ EvidenceCovered /\ Sealing /\
       OverlapOnlyByOrphan)'
  BY DEF Reading, Chained, EvidenceCovered, Sealing, OverlapOnlyByOrphan,
       CoveredTo, Queued
<1> QED
  BY <1>1, <1>2, <1>3, <1>4 DEF IInv

\* LeaseExpires(u) keeps the invariant.
LEMMA LeaseExpiresStep ==
  ASSUME IInv, NEW u \in Windows, LeaseExpires(u)
  PROVE  IInv'
<1> USE DEF IInv, LeaseExpires, finVars, workerVars
<1>1. TypeOK'
  BY DEF TypeOK
<1>2. (Places /\ Reading /\ Attempted /\ Chained /\ EvidenceCovered /\
       Sealing /\ OverlapOnlyByOrphan)'
  BY DEF Places, Reading, Attempted, Chained, EvidenceCovered, Sealing,
       OverlapOnlyByOrphan, Bound, CoveredTo, Queued
<1> QED
  BY <1>1, <1>2 DEF IInv

\* BackoffEnds(u) keeps the invariant.
LEMMA BackoffEndsStep ==
  ASSUME IInv, NEW u \in Windows, BackoffEnds(u)
  PROVE  IInv'
<1> USE DEF IInv, BackoffEnds, finVars, workerVars
<1>1. TypeOK'
  BY DEF TypeOK
<1>2. (Places /\ Reading /\ Attempted /\ Chained /\ EvidenceCovered /\
       Sealing /\ OverlapOnlyByOrphan)'
  BY DEF Places, Reading, Attempted, Chained, EvidenceCovered, Sealing,
       OverlapOnlyByOrphan, Bound, CoveredTo, Queued
<1> QED
  BY <1>1, <1>2 DEF IInv

\* CloseWorker(call) keeps the invariant.
LEMMA CloseWorkerStep ==
  ASSUME IInv, NEW call \in Calls, CloseWorker(call)
  PROVE  IInv'
<1> USE DEF IInv, CloseWorker, finVars, jobVars
<1>1. TypeOK'
  BY DEF TypeOK
<1>2. Places'
  BY DEF Places
<1>3. Attempted'
  BY DEF Attempted, Bound
<1>4. (Reading /\ Chained /\ EvidenceCovered /\ Sealing /\
       OverlapOnlyByOrphan)'
  BY DEF Reading, Chained, EvidenceCovered, Sealing, OverlapOnlyByOrphan,
       CoveredTo, Queued
<1> QED
  BY <1>1, <1>2, <1>3, <1>4 DEF IInv

\* LeftLands keeps the invariant.
LEMMA LeftLandsStep ==
  ASSUME IInv, LeftLands
  PROVE  IInv'
<1> USE DEF IInv, LeftLands, finVars
<1>1. TypeOK'
  <2>1. /\ UNCHANGED <<head, finVars, daemon, life, worker, job, errors>>
        /\ left' \in Calls
    BY DEF Calls
  <2> QED
    BY <2>1, LeftFacts DEF TypeOK, Statuses
<1>2. Places'
  BY DEF Places
<1>3. Attempted'
  <2>1. worker = "off" /\ worker' = "off" /\ left' = "none"
    BY DEF Places, TypeOK
  <2>2. Bound' = Bound
    BY DEF Bound
  <2>3. ASSUME NEW u \in Windows, left = "claim", ClaimJob(u) PROVE Attempted'
    <3>1. Claimable(u)
      BY <2>3, ClaimFacts
    <3>2. attempts[u] < Bound /\ attempts[u] \in Nat /\ Bound \in Nat
      <4>1. /\ attempts[u] \in Nat /\ Bound \in Nat
            /\ MaxAttempts <= Bound /\ MaxAttempts \in Nat
        BY BoundNat DEF TypeOK
      <4>2. attempts[u] < MaxAttempts \/ attempts[u] < Bound
        BY <2>3, <3>1 DEF Attempted, Claimable
      <4> QED
        BY <4>1, <4>2
    <3>3. attempts'[u] = attempts[u] + 1 /\ status'[u] = "RUNNING"
      BY <2>3 DEF TypeOK, ClaimJob
    <3>4. \A w \in Windows \ {u} :
            attempts'[w] = attempts[w] /\ status'[w] = status[w]
      BY <2>3 DEF TypeOK, ClaimJob
    <3>5. attempts'[u] <= Bound
      BY <3>2, <3>3
    <3> QED
      BY <2>1, <2>2, <3>3, <3>4, <3>5 DEF Attempted
  <2>4. ASSUME NEW u \in Windows, CompleteJob(u) PROVE Attempted'
    <3>1. attempts' = attempts /\ status'[u] = "COMPLETED"
      BY <2>4 DEF TypeOK, CompleteJob
    <3>2. \A w \in Windows \ {u} : status'[w] = status[w]
      BY <2>4 DEF TypeOK, CompleteJob
    <3> QED
      BY <2>1, <2>2, <3>1, <3>2 DEF Attempted
  <2>5. ASSUME NEW u \in Windows, NEW again \in BOOLEAN, FailJob(u, again),
               again => attempts[u] < MaxAttempts
        PROVE  Attempted'
    <3>1. attempts' = attempts
          /\ status'[u] = IF again THEN "FAILED_RETRYABLE" ELSE "FAILED_FINAL"
      BY <2>5 DEF TypeOK, FailJob
    <3>2. \A w \in Windows \ {u} : status'[w] = status[w]
      BY <2>5 DEF TypeOK, FailJob
    <3> QED
      BY <2>1, <2>2, <2>5, <3>1, <3>2 DEF Attempted
  <2> QED
    BY <2>3, <2>4, <2>5 DEF Places, Retryable
<1>4. Chained'
  BY LeftFacts DEF Chained, CoveredTo, finVars
<1>5. EvidenceCovered'
  BY LeftFacts DEF EvidenceCovered, finVars
<1>6. Sealing'
  BY LeftFacts DEF Sealing, finVars
<1>7. OverlapOnlyByOrphan'
  BY LeftFacts DEF OverlapOnlyByOrphan, finVars
<1>8. Reading'
  BY DEF Reading
<1> QED
  BY <1>1, <1>2, <1>3, <1>4, <1>5, <1>6, <1>7, <1>8 DEF IInv

\* Down keeps the invariant.
LEMMA DownStep ==
  ASSUME IInv, Down
  PROVE  IInv'
<1> USE DEF IInv, Down, jobVars
<1>1. TypeOK'
  BY JobsAssumption DEF TypeOK, Calls, NoWindow
<1>2. Places'
  BY DEF Places
<1>3. Reading'
  BY DEF Reading, TypeOK
<1>4. Attempted'
  BY DEF Attempted, Bound
<1>5. Chained'
  BY DEF Chained, CoveredTo, Queued
<1>6. Sealing'
  BY DEF Sealing
<1>7. (EvidenceCovered /\ OverlapOnlyByOrphan)'
  BY DEF EvidenceCovered, OverlapOnlyByOrphan, Queued
<1> QED
  BY <1>1, <1>2, <1>3, <1>4, <1>5, <1>6, <1>7 DEF IInv

\* Up keeps the invariant.
LEMMA UpStep ==
  ASSUME IInv, Up
  PROVE  IInv'
<1> USE DEF IInv, Up, finVars, jobVars
<1>1. TypeOK'
  BY JobsAssumption DEF TypeOK, Places
<1>2. Places'
  BY DEF Places
<1>3. Attempted'
  BY JobsAssumption DEF Attempted, TypeOK, Bound
<1>4. (Reading /\ Chained /\ EvidenceCovered /\ Sealing /\
       OverlapOnlyByOrphan)'
  BY DEF Reading, Chained, EvidenceCovered, Sealing, OverlapOnlyByOrphan,
       CoveredTo, Queued
<1> QED
  BY <1>1, <1>2, <1>3, <1>4 DEF IInv

\* A step that changes nothing keeps the invariant.
LEMMA StutterStep ==
  ASSUME IInv, UNCHANGED vars
  PROVE  IInv'
<1> USE DEF IInv, vars, finVars, jobVars, workerVars
<1>1. TypeOK'
  BY DEF TypeOK
<1>2. (Places /\ Reading /\ Attempted)'
  BY DEF Places, Reading, Attempted, Bound
<1>3. (Chained /\ EvidenceCovered)'
  BY DEF Chained, CoveredTo, EvidenceCovered, Queued
<1>4. (Sealing /\ OverlapOnlyByOrphan)'
  BY DEF Sealing, OverlapOnlyByOrphan, Queued
<1> QED
  BY <1>1, <1>2, <1>3, <1>4 DEF IInv

\* The invariant holds in every reachable state.
LEMMA Invariance == Spec => []IInv
<1>1. IInv /\ [Next]_vars => IInv'
  <2> SUFFICES ASSUME IInv, [Next]_vars PROVE IInv'
    OBVIOUS
  <2>1. CASE AppendEvidence \/ FinalizeBegin \/ FinalizeStep
    BY <2>1, AppendEvidenceStep, FinalizeBeginStep, ReadThroughStep, SealStep
       DEF FinalizeStep
  <2>2. CASE \E t \in BOOLEAN : FinalizeEnds(t)
    BY <2>2, FinalizeEndsStep
  <2>3. CASE \E w \in orphans : OrphanSeal(w) \/ OrphanFails(w)
    BY <2>3, OrphanSealStep, OrphanFailsStep
  <2>4. CASE WorkerStep
    BY <2>4, ClaimStep, CompleteStep, FailStep, FailNotRecordedStep
       DEF WorkerStep
  <2>5. CASE \E w \in Windows : LeaseExpires(w) \/ BackoffEnds(w)
    BY <2>5, LeaseExpiresStep, BackoffEndsStep
  <2>6. CASE \E call \in Calls : CloseWorker(call)
    BY <2>6, CloseWorkerStep
  <2>7. CASE LeftLands \/ Down \/ Up
    BY <2>7, LeftLandsStep, DownStep, UpStep
  <2>8. CASE UNCHANGED vars
    BY <2>8, StutterStep
  <2> QED
    BY <2>1, <2>2, <2>3, <2>4, <2>5, <2>6, <2>7, <2>8 DEF Next
<1> QED
  BY InitIInv, <1>1, PTL DEF Spec

-----------------------------------------------------------------------------
(* Settled jobs *)

\* A job that was graded or given up keeps its status in this step.
Kept == \A w \in Windows : status[w] \in Settled => status'[w] = status[w]

\* A window that is queued again keeps the status of its job.
LEMMA EnqueueKeeps ==
  ASSUME TypeOK, NEW u \in Windows, Enqueue(u)
  PROVE  Kept
  BY DEF Enqueue, TypeOK, Queued, Kept, Settled

\* Only a job that waits, or whose lease has expired, is claimed.
LEMMA ClaimKeeps ==
  ASSUME TypeOK, NEW u \in Windows, ClaimJob(u)
  PROVE  Kept
<1>1. Claimable(u) /\ status' = [status EXCEPT ![u] = "RUNNING"]
  BY DEF ClaimJob, Oldest
<1> QED
  BY <1>1 DEF Claimable, TypeOK, Kept, Settled

\* Only the owner of a job that is RUNNING ends it.
LEMMA EndKeeps ==
  ASSUME TypeOK, NEW u \in Windows, NEW again \in BOOLEAN,
         CompleteJob(u) \/ FailJob(u, again)
  PROVE  Kept
  BY DEF CompleteJob, FailJob, Owns, TypeOK, Kept, Settled

\* Every step keeps the jobs that are settled.
LEMMA StepKeeps ==
  ASSUME IInv, [Next]_vars
  PROVE  Kept
<1> USE DEF IInv
<1>1. CASE UNCHANGED status
  BY <1>1 DEF Kept
<1>2. CASE Seal
  <2>1. PICK u \in Windows : u = window
    BY <1>2 DEF Reading, Seal
  <2> QED
    BY <1>2, <2>1, EnqueueKeeps DEF Seal
<1>3. CASE \E w \in orphans : OrphanSeal(w)
  BY <1>3, EnqueueKeeps DEF OrphanSeal, TypeOK
<1>4. CASE \E w \in Windows : Claim(w)
  BY <1>4, ClaimKeeps DEF Claim
<1>5. CASE Complete \/ \E d \in BOOLEAN : Fail(d)
  <2>1. PICK u \in Windows : u = job
    BY <1>5 DEF Places, Complete, Fail
  <2>2. CompleteJob(u) \/ \E again \in BOOLEAN : FailJob(u, again)
    BY <1>5, <2>1 DEF Complete, Fail, Retryable
  <2> QED
    BY <2>2, EndKeeps
<1>6. CASE LeftLands
  <2>1. CASE \E w \in Windows : ClaimJob(w)
    BY <2>1, ClaimKeeps
  <2>2. CASE left \in {"complete", "fail"}
    <3>1. PICK u \in Windows : u = job
      BY <2>2 DEF Places
    <3>2. CompleteJob(u) \/ (\E again \in BOOLEAN : FailJob(u, again))
      BY <1>6, <2>2, <3>1 DEF LeftLands, Retryable
    <3> QED
      BY <3>2, EndKeeps
  <2> QED
    BY <1>6, <2>1, <2>2 DEF LeftLands
<1>7. CASE \/ AppendEvidence \/ FinalizeBegin \/ ReadThrough
           \/ (\E t \in BOOLEAN : FinalizeEnds(t))
           \/ (\E w \in orphans : OrphanFails(w))
           \/ FailNotRecorded
           \/ (\E w \in Windows : LeaseExpires(w) \/ BackoffEnds(w))
           \/ (\E call \in Calls : CloseWorker(call))
           \/ Down \/ Up \/ UNCHANGED vars
  <2>1. UNCHANGED status
    BY <1>7 DEF AppendEvidence, FinalizeBegin, ReadThrough, FinalizeEnds,
       OrphanFails, FailNotRecorded, LeaseExpires, BackoffEnds, CloseWorker,
       Down, Up, vars, jobVars
  <2> QED
    BY <1>1, <2>1
<1> QED
  BY <1>2, <1>3, <1>4, <1>5, <1>6, <1>7 DEF Next, FinalizeStep, WorkerStep

-----------------------------------------------------------------------------
(* Theorems *)

\* The variables keep their types: a window that is queued is an interval of
\* stored rows, and a lease belongs to a lifetime that was.
THEOREM TypeCorrect == Spec => []TypeOK
<1>1. IInv => TypeOK
  BY DEF IInv
<1> QED
  BY <1>1, Invariance, PTL

\* finalize() of session_finalizer.py, however many rows, crashes and cancelled
\* calls: what was stored before a call that returns normally is in some job.
THEOREM FinalizedIsCovered == Spec => []EvidenceCovered
<1>1. IInv => EvidenceCovered
  BY DEF IInv
<1> QED
  BY <1>1, Invariance, PTL

\* The windows of finalize_session() are disjoint but for those that a thread
\* queued whose caller was cancelled.
THEOREM DisjointWindows == Spec => []OverlapOnlyByOrphan
<1>1. IInv => OverlapOnlyByOrphan
  BY DEF IInv
<1> QED
  BY <1>1, Invariance, PTL

\* claim_teacher_job() and fail_teacher_job() with any max_attempts: the claims
\* beyond it are at most one for each earlier lifetime and lost record.
THEOREM ClaimBudget == Spec => []AttemptBudget
<1>1. IInv => AttemptBudget
  BY DEF IInv, Attempted, Bound, AttemptBudget
<1> QED
  BY <1>1, Invariance, PTL

\* No transaction of the store opens a job again that was graded or given up.
THEOREM SettledForever == Spec => SettledStays
<1>1. IInv /\ [Next]_vars
        => [\A w \in Windows :
              status[w] \in Settled => status'[w] = status[w]]_vars
  BY StepKeeps DEF Kept
<1> QED
  BY <1>1, Invariance, PTL DEF Spec, SettledStays
=============================================================================
