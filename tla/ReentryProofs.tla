--------------------------- MODULE ReentryProofs ---------------------------
(***************************************************************************)
(* Proofs about Reentry, for any number of triggers, tasks, texts, chats   *)
(* and lifetimes: types, that a claim starts at most one subagent and      *)
(* delivers at most one message, that the budget of dispatches is kept,    *)
(* and what a repeated message needs.                                      *)
(*                                                                         *)
(* The budget is checked before a dispatch waits at the gate and counted   *)
(* after its window, so that two dispatches could spend the last unit of   *)
(* it.  They cannot, because the gate cannot close a window while another  *)
(* dispatch waits: the entry on top of its stack is then not the runner's. *)
(* Gated says in which order the tasks are on the stack.                   *)
(***************************************************************************)
EXTENDS Reentry, FiniteSetTheorems, SequenceTheorems, TLAPS

PCs == {"idle", "loop", "gate", "run", "ask", "send"}

\* What a task has where it is.
Tasked ==
  \A s \in Tasks :
    /\ pc[s] = "loop" => todo[s] # <<>>
    /\ pc[s] \in {"gate", "run", "ask", "send"} => cur[s] \in Triggers
    /\ pc[s] \in {"ask", "send"} => text[s] \in Texts

\* A lifetime is left for a restart.
Restartable == ~up => lives < Lifetimes

\* The dispatches of a trigger before and after the start of its subagent.
Gates(t) == {s \in Tasks : pc[s] = "gate" /\ cur[s] = t}
Outs(t) == {s \in Tasks : pc[s] \in {"run", "ask", "send"} /\ cur[s] = t}

\* Who has not started a subagent, or delivered a message, still may.
Claims ==
  \A t \in Triggers :
    /\ delivered[t] + Cardinality(Outs(t)) <= started[t]
    /\ started[t] + Cardinality(Gates(t)) <= used[t]
    /\ used[t] <= MaxReentries[t]

\* The lock of the gate.
Locked ==
  /\ \A s \in Tasks : pc[s] = "run" => inside = s /\ ~stuck
  /\ stuck => inside # Nobody
  /\ \A i, j \in DOMAIN lockq : lockq[i] = lockq[j] => i = j
  /\ \A i \in DOMAIN lockq : pc[lockq[i]] = "gate"
  /\ \A s \in Tasks : pc[s] = "gate" => \E i \in DOMAIN lockq : lockq[i] = s

\* q has an x before a y.
Before(q, x, y) == \E k, l \in DOMAIN q : k < l /\ q[k] = x /\ q[l] = y

\* The stack of the gate, unless a window was left open.
Stacked ==
  /\ \A k, l \in DOMAIN stack : stack[k] = stack[l] /\ stack[k] # Nobody => k = l
  /\ \A k \in DOMAIN stack : stack[k] # Nobody => pc[stack[k]] \in {"gate", "run"}
  /\ \A s \in Tasks : pc[s] \in {"gate", "run"} => \E k \in DOMAIN stack : stack[k] = s
  /\ \A i, j \in DOMAIN lockq : i < j => Before(stack, lockq[i], lockq[j])
  /\ \A r, s \in Tasks : pc[r] = "run" /\ pc[s] = "gate" => Before(stack, r, s)

Gated == Locked /\ (~stuck => Stacked)

\* A dispatch that has been let in has its unit of the budget.
Budgeted ==
  Budget > 0 =>
    /\ total <= Budget
    /\ ~stuck => \A s \in Tasks : pc[s] \in {"gate", "run"} => total < Budget

\* The message a task is about to send.
Pending(s, k) == pc[s] \in {"ask", "send"} /\ <<cur[s], text[s]>> = k

\* A text that is not excused leaves once, is then seen, and is decided on once.
Repeats ==
  \A k \in Keys \ excused :
    /\ copies[k] <= 1
    /\ copies[k] > 0 => k \in seen
    /\ \A s \in Tasks : Pending(s, k) => copies[k] = 0
    /\ \A r, s \in Tasks : Pending(r, k) /\ Pending(s, k) => r = s

IInv ==
  /\ TypeOK /\ Tasked /\ Restartable /\ Claims /\ Gated /\ Budgeted /\ Repeats

-----------------------------------------------------------------------------
(* Queues and the stack                                                    *)

\* One more at the end.
LEMMA AppendFacts ==
  ASSUME NEW S, NEW q \in Seq(S), NEW x \in S
  PROVE  /\ Append(q, x) \in Seq(S)
         /\ Len(q) \in Nat /\ DOMAIN q = 1 .. Len(q)
         /\ DOMAIN Append(q, x) = 1 .. (Len(q) + 1)
         /\ Append(q, x)[Len(q) + 1] = x
         /\ \A i \in DOMAIN q : Append(q, x)[i] = q[i]
  OBVIOUS

\* The first one goes.
LEMMA TailFacts ==
  ASSUME NEW S, NEW q \in Seq(S), q # <<>>
  PROVE  /\ Tail(q) \in Seq(S) /\ Head(q) \in S
         /\ Len(q) \in Nat \ {0} /\ DOMAIN q = 1 .. Len(q)
         /\ DOMAIN Tail(q) = 1 .. (Len(q) - 1)
         /\ Head(q) = q[1]
         /\ \A i \in 1 .. (Len(q) - 1) : Tail(q)[i] = q[i + 1]
<1>1. /\ Tail(q) \in Seq(S) /\ Head(q) \in S /\ Len(Tail(q)) = Len(q) - 1
      /\ \A i \in 1 .. Len(Tail(q)) : Tail(q)[i] = q[i + 1]
  BY HeadTailProperties
<1> QED
  BY <1>1

\* The last one goes.
LEMMA FrontLastFacts ==
  ASSUME NEW S, NEW q \in Seq(S), q # <<>>
  PROVE  /\ Front(q) \in Seq(S)
         /\ Len(q) \in Nat \ {0} /\ DOMAIN q = 1 .. Len(q)
         /\ DOMAIN Front(q) = 1 .. (Len(q) - 1)
         /\ Last(q) = q[Len(q)]
         /\ \A i \in 1 .. (Len(q) - 1) : Front(q)[i] = q[i]
<1> DEFINE n == Len(q) - 1
<1>1. /\ Len(q) \in Nat \ {0} /\ n \in Nat /\ n + 1 = Len(q)
      /\ DOMAIN q = 1 .. Len(q) /\ \A i \in 1 .. n : q[i] \in S
  OBVIOUS
<1> HIDE DEF n
<1>2. /\ SubSeq(q, 1, n) \in Seq(S)
      /\ Len(SubSeq(q, 1, n)) = n
      /\ \A i \in 1 .. n : SubSeq(q, 1, n)[i] = q[i]
  BY <1>1, SubSeqProperties
<1> QED
  BY <1>1, <1>2 DEF Front, Last, n

\* RemoveAt drops one position and keeps the others in order.
LEMMA RemoveAtShape ==
  ASSUME NEW S, NEW q \in Seq(S), NEW i \in DOMAIN q
  PROVE  /\ RemoveAt(q, i) \in Seq(S)
         /\ Len(RemoveAt(q, i)) = Len(q) - 1
         /\ DOMAIN RemoveAt(q, i) = 1..(Len(q) - 1)
         /\ \A j \in 1..(Len(q) - 1) :
              RemoveAt(q, i)[j] = IF j < i THEN q[j] ELSE q[j + 1]
<1> DEFINE r == RemoveAt(q, i)
<1> DEFINE a == SubSeq(q, 1, i - 1)
           b == SubSeq(q, i + 1, Len(q))
<1>1. i \in 1..Len(q) /\ Len(q) \in Nat /\ \A j \in 1..Len(q) : q[j] \in S
  OBVIOUS
<1>2. /\ a \in Seq(S) /\ Len(a) = i - 1
      /\ \A j \in 1..(i - 1) : a[j] = q[j]
  BY <1>1, SubSeqProperties
<1>3. /\ b \in Seq(S) /\ Len(b) = Len(q) - i
      /\ \A j \in 1..(Len(q) - i) : b[j] = q[i + j]
  BY <1>1, SubSeqProperties
<1>4. r = a \o b
  BY DEF RemoveAt
<1> HIDE DEF a, b, r
<1>5. /\ r \in Seq(S) /\ Len(r) = Len(a) + Len(b)
      /\ \A j \in 1..(Len(a) + Len(b)) :
           r[j] = IF j <= Len(a) THEN a[j] ELSE b[j - Len(a)]
  <2>1. /\ a \o b \in Seq(S) /\ Len(a \o b) = Len(a) + Len(b)
        /\ \A j \in 1..(Len(a) + Len(b)) :
             (a \o b)[j] = IF j <= Len(a) THEN a[j] ELSE b[j - Len(a)]
    BY <1>2, <1>3, ConcatProperties, Zenon
  <2> QED BY <2>1, <1>4, Zenon
<1>6. Len(r) = Len(q) - 1 /\ DOMAIN r = 1..(Len(q) - 1)
  BY <1>1, <1>2, <1>3, <1>5
<1>7. ASSUME NEW j \in 1..(Len(q) - 1)
      PROVE  r[j] = IF j < i THEN q[j] ELSE q[j + 1]
  <2>1. r[j] = IF j <= i - 1 THEN a[j] ELSE b[j - (i - 1)]
    <3>1. Len(a) = i - 1
      BY <1>2
    <3>2. j \in 1..(Len(a) + Len(b))
      BY <1>1, <1>2, <1>3
    <3>3. r[j] = IF j <= Len(a) THEN a[j] ELSE b[j - Len(a)]
      BY <3>2, <1>5, Zenon
    <3> QED BY <3>1, <3>3, Zenon
  <2>2. CASE j < i
    BY <2>1, <2>2, <1>1, <1>2
  <2>3. CASE j >= i
    <3>1. j - (i - 1) \in 1..(Len(q) - i) /\ i + (j - (i - 1)) = j + 1
      BY <2>3, <1>1
    <3> QED BY <3>1, <2>1, <2>3, <1>1, <1>3, SMTT(30)
  <2> QED BY <2>2, <2>3, <1>1
<1> QED BY <1>5, <1>6, <1>7 DEF r

\* One gives up, and the others keep their order.
LEMMA WithoutFacts ==
  ASSUME NEW S, NEW q \in Seq(S), NEW x
  PROVE  /\ Without(q, x) \in Seq(S)
         /\ \A i, j \in DOMAIN Without(q, x) : i < j =>
              \E k, l \in DOMAIN q :
                k < l /\ q[k] = Without(q, x)[i] /\ q[l] = Without(q, x)[j]
         /\ \A i \in DOMAIN Without(q, x) :
              \E k \in DOMAIN q : q[k] = Without(q, x)[i]
         /\ \A k \in DOMAIN q : q[k] # x =>
              \E i \in DOMAIN Without(q, x) : Without(q, x)[i] = q[k]
         /\ (\A k, l \in DOMAIN q : q[k] = q[l] => k = l) =>
              \A i \in DOMAIN Without(q, x) : Without(q, x)[i] # x
<1>1. CASE x \in ToSet(q)
  <2> DEFINE p == CHOOSE i \in DOMAIN q : q[i] = x
             r == RemoveAt(q, p)
  <2>1. p \in DOMAIN q /\ q[p] = x
    BY <1>1 DEF ToSet
  <2>2. Without(q, x) = r
    BY <1>1 DEF Without
  <2>3. /\ r \in Seq(S) /\ DOMAIN r = 1 .. (Len(q) - 1)
        /\ \A j \in 1 .. (Len(q) - 1) : r[j] = IF j < p THEN q[j] ELSE q[j + 1]
    BY <2>1, RemoveAtShape
  <2>4. Len(q) \in Nat /\ DOMAIN q = 1 .. Len(q)
    OBVIOUS
  <2> HIDE DEF p, r
  <2>5. ASSUME NEW i \in DOMAIN r, NEW j \in DOMAIN r, i < j
        PROVE  \E k, l \in DOMAIN q : k < l /\ q[k] = r[i] /\ q[l] = r[j]
    <3> DEFINE k == IF i < p THEN i ELSE i + 1
               l == IF j < p THEN j ELSE j + 1
    <3>1. k \in DOMAIN q /\ l \in DOMAIN q /\ k < l /\ q[k] = r[i] /\ q[l] = r[j]
      BY <2>1, <2>3, <2>4, <2>5
    <3> HIDE DEF k, l
    <3> QED
      BY <3>1
  <2>6. ASSUME NEW i \in DOMAIN r PROVE \E k \in DOMAIN q : q[k] = r[i]
    <3> DEFINE k == IF i < p THEN i ELSE i + 1
    <3>1. k \in DOMAIN q /\ q[k] = r[i]
      BY <2>1, <2>3, <2>4
    <3> QED
      BY <3>1
  <2>7. ASSUME NEW k \in DOMAIN q, q[k] # x PROVE \E i \in DOMAIN r : r[i] = q[k]
    <3> DEFINE i == IF k < p THEN k ELSE k - 1
    <3>1. i \in DOMAIN r /\ r[i] = q[k]
      BY <2>1, <2>3, <2>4, <2>7
    <3> QED
      BY <3>1
  <2>8. ASSUME \A k, l \in DOMAIN q : q[k] = q[l] => k = l, NEW i \in DOMAIN r
        PROVE  r[i] # x
    <3> DEFINE k == IF i < p THEN i ELSE i + 1
    <3>1. k \in DOMAIN q /\ q[k] = r[i] /\ k # p
      BY <2>1, <2>3, <2>4
    <3> HIDE DEF k
    <3> QED
      BY <2>1, <2>8, <3>1
  <2> QED
    BY <2>2, <2>3, <2>5, <2>6, <2>7, <2>8
<1>2. CASE x \notin ToSet(q)
  <2>1. Without(q, x) = q
    BY <1>2 DEF Without
  <2> QED
    BY <1>2, <2>1 DEF ToSet
<1> QED
  BY <1>1, <1>2

\* What the store and the tick list.
LEMMA ListFacts ==
  ASSUME TypeOK
  PROVE  /\ ListDue \in Seq(Triggers)
         /\ \A c \in Scopes : ListArmed(c) \subseteq Seq(Triggers)
<1>1. ListDue \in Seq(Triggers)
  <2> DEFINE n == IF Len(dueq) < MaxPerTick THEN Len(dueq) ELSE MaxPerTick
  <2>1. dueq \in Seq(TimeTriggers) /\ Len(dueq) \in Nat /\ n \in 0 .. Len(dueq)
    BY ReentryAssumption DEF TypeOK
  <2>2. \A i \in 1 .. n : dueq[i] \in Triggers
    BY <2>1, ReentryAssumption
  <2> HIDE DEF n
  <2>3. SubSeq(dueq, 1, n) \in Seq(Triggers)
    BY <2>1, <2>2, SubSeqProperties
  <2> QED
    BY <2>3 DEF ListDue, n
<1>2. ASSUME NEW c \in Scopes PROVE ListArmed(c) \subseteq Seq(Triggers)
  <2> DEFINE A == {t \in Triggers \ TimeTriggers : state[t] = "armed" /\ c \in Filter[t]}
  <2>1. A \subseteq Triggers /\ Cardinality(A) \in Nat
    <3>1. A \in SUBSET Triggers /\ IsFiniteSet(Triggers)
      BY ReentryAssumption
    <3> HIDE DEF A
    <3> QED
      BY <3>1, FS_Subset, FS_CardinalityType
  <2>2. ListArmed(c) \subseteq [1 .. Cardinality(A) -> A]
    BY DEF ListArmed, SetToSeqs
  <2> HIDE DEF A
  <2>3. [1 .. Cardinality(A) -> A] \subseteq Seq(Triggers)
    BY <2>1
  <2> QED
    BY <2>2, <2>3
<1> QED
  BY <1>1, <1>2

-----------------------------------------------------------------------------
(* What stays                                                              *)

\* Dispatches can be counted.
LEMMA CountFacts ==
  ASSUME NEW A, NEW B, A \subseteq Tasks, B \subseteq A
  PROVE  /\ IsFiniteSet(A) /\ Cardinality(A) \in Nat
         /\ Cardinality(B) \in Nat /\ Cardinality(B) <= Cardinality(A)
<1>1. IsFiniteSet(Tasks) /\ A \in SUBSET Tasks /\ B \in SUBSET A
  BY ReentryAssumption
<1>2. IsFiniteSet(A) /\ IsFiniteSet(B) /\ Cardinality(B) <= Cardinality(A)
  BY <1>1, FS_Subset
<1> QED
  BY <1>2, FS_CardinalityType

\* No subagent starts and no message leaves.
LEMMA ClaimsKept ==
  ASSUME TypeOK, Claims, UNCHANGED <<started, delivered>>,
         \A t \in Triggers : /\ Gates(t)' \subseteq Gates(t)
                             /\ Outs(t)' \subseteq Outs(t)
                             /\ used'[t] \in Nat /\ used[t] <= used'[t]
                             /\ used'[t] <= MaxReentries[t]
  PROVE  Claims'
<1> SUFFICES ASSUME NEW t \in Triggers
             PROVE  /\ delivered'[t] + Cardinality(Outs(t)') <= started'[t]
                    /\ started'[t] + Cardinality(Gates(t)') <= used'[t]
                    /\ used'[t] <= MaxReentries[t]
  BY DEF Claims
<1>1. Gates(t) \subseteq Tasks /\ Outs(t) \subseteq Tasks
  BY DEF Gates, Outs
<1> DEFINE g == Cardinality(Gates(t))
           o == Cardinality(Outs(t))
           gn == Cardinality(Gates(t)')
           on == Cardinality(Outs(t)')
<1>2. g \in Nat /\ o \in Nat /\ gn \in Nat /\ on \in Nat /\ gn <= g /\ on <= o
  BY <1>1, CountFacts
<1>3. delivered[t] + o <= started[t] /\ started[t] + g <= used[t]
  BY DEF Claims
<1>4. delivered[t] \in Nat /\ started[t] \in Nat /\ used[t] \in Nat
  BY DEF TypeOK
<1> HIDE DEF g, o, gn, on
<1>5. delivered[t] + on <= started[t] /\ started[t] + gn <= used'[t]
  BY <1>2, <1>3, <1>4
<1> QED
  BY <1>5 DEF gn, on

\* No task comes to the gate or leaves it.
LEMMA GatedKept ==
  ASSUME TypeOK, Gated, UNCHANGED <<stack, lockq, inside, stuck>>,
         \A s \in Tasks :
           pc[s] \in {"gate", "run"} \/ pc'[s] \in {"gate", "run"} => pc'[s] = pc[s]
  PROVE  Gated'
<1>1. /\ \A i \in DOMAIN lockq : lockq[i] \in Tasks
      /\ \A k \in DOMAIN stack : stack[k] # Nobody => stack[k] \in Tasks
  BY DEF TypeOK
<1>2. Locked'
  BY <1>1 DEF Gated, Locked
<1>3. ASSUME ~stuck PROVE Stacked'
  BY <1>1, <1>3 DEF Gated, Stacked, Before
<1> QED
  BY <1>2, <1>3 DEF Gated

\* No dispatch is let in and none is counted.
LEMMA BudgetedKept ==
  ASSUME Budgeted, total' = total, stuck' = stuck,
         \A s \in Tasks : pc'[s] \in {"gate", "run"} => pc[s] \in {"gate", "run"}
  PROVE  Budgeted'
  BY DEF Budgeted

\* Nothing is sent and nothing is decided on.
LEMMA RepeatsKept ==
  ASSUME Repeats, copies' = copies, seen' = seen, excused' = excused,
         \A s \in Tasks :
           pc'[s] \in {"ask", "send"} =>
             pc[s] \in {"ask", "send"} /\ cur'[s] = cur[s] /\ text'[s] = text[s]
  PROVE  Repeats'
  BY DEF Repeats, Pending

\* A dispatch is over.
LEMMA DoneFacts ==
  ASSUME TypeOK, Tasked, NEW s \in Tasks, NEW rest \in Seq(Triggers), Done(s, rest)
  PROVE  /\ pc' \in [Tasks -> PCs] /\ todo' \in [Tasks -> Seq(Triggers)]
         /\ late' \subseteq Triggers
         /\ cur' \in [Tasks -> Triggers \cup {NoTrigger}]
         /\ text' \in [Tasks -> Texts \cup {NoText}]
         /\ pc'[s] \in {"idle", "loop"}
         /\ \A r \in Tasks \ {s} :
              pc'[r] = pc[r] /\ cur'[r] = cur[r] /\ text'[r] = text[r]
         /\ Tasked'
<1>1. /\ pc' = [pc EXCEPT ![s] = IF rest = <<>> THEN "idle" ELSE "loop"]
      /\ todo' = [todo EXCEPT ![s] = rest]
      /\ late' = IF s = Ticker THEN late \cap ToSet(rest) ELSE late
      /\ cur' = [cur EXCEPT ![s] = NoTrigger]
      /\ text' = [text EXCEPT ![s] = NoText]
  BY DEF Done
<1>2. pc' \in [Tasks -> PCs] /\ todo' \in [Tasks -> Seq(Triggers)]
  BY <1>1 DEF TypeOK, PCs
<1>3. /\ late' \subseteq Triggers
      /\ cur' \in [Tasks -> Triggers \cup {NoTrigger}]
      /\ text' \in [Tasks -> Texts \cup {NoText}]
  BY <1>1 DEF TypeOK
<1>4. /\ pc'[s] \in {"idle", "loop"} /\ (pc'[s] = "loop" => rest # <<>>)
      /\ todo'[s] = rest
      /\ \A r \in Tasks \ {s} :
           /\ pc'[r] = pc[r] /\ cur'[r] = cur[r] /\ text'[r] = text[r]
           /\ todo'[r] = todo[r]
  BY <1>1 DEF TypeOK
<1>5. Tasked'
  BY <1>4 DEF Tasked
<1> QED
  BY <1>2, <1>3, <1>4, <1>5

-----------------------------------------------------------------------------
(* Steps of the store and of the loop                                      *)

\* Rows change, and no task moves.
LEMMA RowsStep ==
  ASSUME IInv, TypeOK', UNCHANGED <<used, up, lives, pc, todo, cur, text>>,
         UNCHANGED <<stack, lockq, inside, stuck, total, seen>>,
         UNCHANGED <<started, delivered, copies, excused>>
  PROVE  IInv'
<1>1. TypeOK /\ Tasked /\ Restartable /\ Claims /\ Gated /\ Budgeted /\ Repeats
  BY DEF IInv
<1>2. Tasked' /\ Restartable'
  BY <1>1 DEF Tasked, Restartable
<1>3. Claims'
  BY <1>1 DEF Claims, Gates, Outs
<1>4. Gated'
  BY <1>1, GatedKept
<1>5. Budgeted'
  BY <1>1, BudgetedKept
<1>6. Repeats'
  BY <1>1, RepeatsKept
<1> QED
  BY <1>2, <1>3, <1>4, <1>5, <1>6 DEF IInv

\* A trigger is armed, becomes due or passes its deadline.
LEMMA StoreStep ==
  ASSUME IInv, NEW t \in Triggers, Schedule(t) \/ ComeDue(t) \/ Lapse(t)
  PROVE  IInv'
<1>1. TypeOK
  BY DEF IInv
<1>2. CASE Schedule(t)
  <2>1. TypeOK'
    BY <1>1, <1>2 DEF Schedule, TypeOK, gateVars, sendVars, history
  <2> QED
    BY <1>2, <2>1, RowsStep DEF Schedule, gateVars, sendVars, history
<1>3. CASE ComeDue(t)
  <2>1. dueq' \in Seq(TimeTriggers)
    BY <1>1, <1>3 DEF ComeDue, TypeOK
  <2>2. TypeOK'
    BY <1>1, <1>3, <2>1 DEF ComeDue, TypeOK, gateVars, sendVars, history
  <2> QED
    BY <1>3, <2>2, RowsStep DEF ComeDue, gateVars, sendVars, history
<1>4. CASE Lapse(t)
  <2>1. TypeOK'
    BY <1>1, <1>4 DEF Lapse, TypeOK, gateVars, sendVars, history
  <2> QED
    BY <1>4, <2>1, RowsStep DEF Lapse, gateVars, sendVars, history
<1> QED
  BY <1>2, <1>3, <1>4

\* An hour passes for a message.
LEMMA HourPassesStep ==
  ASSUME IInv, NEW c \in Chats, HourPasses(c)
  PROVE  IInv'
<1>1. TypeOK
  BY DEF IInv
<1>2. TypeOK'
  BY <1>1 DEF HourPasses, TypeOK, rowVars, gateVars, history
<1> QED
  BY <1>2, RowsStep DEF HourPasses, rowVars, gateVars, history

\* A tick or an event lists triggers.
LEMMA BeginStep ==
  ASSUME IInv, NEW s \in Tasks, NEW list \in Seq(Triggers), Begin(s, list)
  PROVE  IInv'
<1>1. TypeOK /\ Tasked /\ Restartable /\ Claims /\ Gated /\ Budgeted /\ Repeats
  BY DEF IInv
<1>2. /\ pc[s] = "idle" /\ list # <<>>
      /\ pc' = [pc EXCEPT ![s] = "loop"]
      /\ todo' = [todo EXCEPT ![s] = list]
      /\ late' = IF s = Ticker THEN {t \in ToSet(list) : lapsed[t]} ELSE late
      /\ UNCHANGED <<state, used, lapsed, dueq, up, lives, cur, text>>
      /\ UNCHANGED <<stack, lockq, inside, stuck, total>>
      /\ UNCHANGED <<sent, seen, rate, allows, frozen>>
      /\ UNCHANGED <<started, delivered, copies, excused>>
  BY DEF Begin, rowVars, gateVars, sendVars, history
<1>3. late' \subseteq Triggers
  BY <1>1, <1>2 DEF TypeOK, ToSet
<1>4. TypeOK'
  BY <1>1, <1>2, <1>3 DEF TypeOK
<1>5. /\ pc'[s] = "loop" /\ todo'[s] = list
      /\ \A r \in Tasks \ {s} : pc'[r] = pc[r] /\ todo'[r] = todo[r]
  BY <1>1, <1>2 DEF TypeOK
<1>6. Tasked' /\ Restartable'
  BY <1>1, <1>2, <1>5 DEF Tasked, Restartable
<1>7. Claims'
  <2>1. \A t \in Triggers : Gates(t)' = Gates(t) /\ Outs(t)' = Outs(t)
    BY <1>2, <1>5 DEF Gates, Outs
  <2> QED
    BY <1>1, <1>2, <2>1 DEF Claims
<1>8. Gated'
  BY <1>1, <1>2, <1>5, GatedKept
<1>9. Budgeted'
  BY <1>1, <1>2, <1>5, BudgetedKept
<1>10. Repeats'
  BY <1>1, <1>2, <1>5, RepeatsKept
<1> QED
  BY <1>4, <1>6, <1>7, <1>8, <1>9, <1>10 DEF IInv

\* What is claimed is within max_reentries.
LEMMA ClaimFacts ==
  ASSUME TypeOK, Claims, NEW s \in Tasks, NEW t \in Triggers, Claim(s, t)
  PROVE  /\ used' = [used EXCEPT ![t] = @ + 1]
         /\ state' \in [Triggers -> {"absent", "armed", "exhausted"}]
         /\ used' \in [Triggers -> Nat]
         /\ dueq' \in Seq(TimeTriggers) /\ lapsed' = lapsed
         /\ \A u \in Triggers : /\ used'[u] \in Nat /\ used[u] <= used'[u]
                                /\ used'[u] <= MaxReentries[u]
         /\ used'[t] = used[t] + 1
<1>1. /\ used[t] < MaxReentries[t] /\ used' = [used EXCEPT ![t] = @ + 1]
      /\ state' = [state EXCEPT ![t] =
                     IF used[t] + 1 >= MaxReentries[t] THEN "exhausted" ELSE @]
      /\ dueq' = Without(dueq, t) /\ lapsed' = lapsed
  BY DEF Claim, Consumable
<1>2. dueq' \in Seq(TimeTriggers)
  <2>1. dueq \in Seq(TimeTriggers)
    BY DEF TypeOK
  <2> QED
    BY <1>1, <2>1, WithoutFacts
<1>3. state' \in [Triggers -> {"absent", "armed", "exhausted"}]
  BY <1>1 DEF TypeOK
<1>4. \A u \in Triggers : used[u] \in Nat /\ MaxReentries[u] \in Nat
  BY ReentryAssumption DEF TypeOK
<1>5. /\ used' \in [Triggers -> Nat] /\ used'[t] = used[t] + 1
      /\ \A u \in Triggers \ {t} : used'[u] = used[u]
  BY <1>1, <1>4 DEF TypeOK
<1>6. \A u \in Triggers : used[u] <= MaxReentries[u]
  BY DEF Claims
<1>7. \A u \in Triggers : /\ used'[u] \in Nat /\ used[u] <= used'[u]
                          /\ used'[u] <= MaxReentries[u]
  BY <1>1, <1>4, <1>5, <1>6
<1> QED
  BY <1>1, <1>2, <1>3, <1>5, <1>7

\* A trigger is not claimed, or its claim is used up by the budget.
LEMMA SkipStep ==
  ASSUME IInv, NEW s \in Tasks, Skip(s) \/ SkipOverBudget(s)
  PROVE  IInv'
<1>1. TypeOK /\ Tasked /\ Restartable /\ Claims /\ Gated /\ Budgeted /\ Repeats
  BY DEF IInv
<1>2. /\ pc[s] = "loop" /\ Done(s, Tail(todo[s]))
      /\ UNCHANGED <<up, lives, stack, lockq, inside, stuck, total>>
      /\ UNCHANGED <<sent, seen, rate, allows, frozen>>
      /\ UNCHANGED <<started, delivered, copies, excused>>
  BY DEF Skip, SkipOverBudget, gateVars, sendVars, history
<1>3. Head(todo[s]) \in Triggers /\ Tail(todo[s]) \in Seq(Triggers)
  <2>1. todo[s] \in Seq(Triggers) /\ todo[s] # <<>>
    BY <1>1, <1>2 DEF TypeOK, Tasked
  <2> QED
    BY <2>1, TailFacts
<1>4. /\ state' \in [Triggers -> {"absent", "armed", "exhausted"}]
      /\ used' \in [Triggers -> Nat]
      /\ dueq' \in Seq(TimeTriggers) /\ lapsed' = lapsed
      /\ \A u \in Triggers : /\ used'[u] \in Nat /\ used[u] <= used'[u]
                             /\ used'[u] <= MaxReentries[u]
  <2>1. CASE Claim(s, Head(todo[s]))
    BY <1>1, <1>3, <2>1, ClaimFacts
  <2>2. CASE ClaimRefused(s, Head(todo[s]))
    <3> DEFINE t == Head(todo[s])
    <3>1. /\ \/ state' = [state EXCEPT ![t] = "exhausted"] /\ dueq' = Without(dueq, t)
             \/ UNCHANGED <<state, dueq>>
          /\ UNCHANGED <<used, lapsed>>
      BY <2>2 DEF ClaimRefused
    <3>2. state' \in [Triggers -> {"absent", "armed", "exhausted"}]
      BY <1>1, <3>1 DEF TypeOK
    <3>3. dueq' \in Seq(TimeTriggers)
      <4>1. dueq \in Seq(TimeTriggers)
        BY <1>1 DEF TypeOK
      <4> QED
        BY <3>1, <4>1, WithoutFacts
    <3>4. \A u \in Triggers : used[u] \in Nat /\ used[u] <= MaxReentries[u]
      BY <1>1 DEF TypeOK, Claims
    <3> QED
      BY <1>1, <3>1, <3>2, <3>3, <3>4 DEF TypeOK
  <2> QED
    BY <2>1, <2>2 DEF Skip, SkipOverBudget
<1>5. /\ pc' \in [Tasks -> PCs] /\ todo' \in [Tasks -> Seq(Triggers)]
      /\ late' \subseteq Triggers
      /\ cur' \in [Tasks -> Triggers \cup {NoTrigger}]
      /\ text' \in [Tasks -> Texts \cup {NoText}]
      /\ pc'[s] \in {"idle", "loop"}
      /\ \A r \in Tasks \ {s} :
           pc'[r] = pc[r] /\ cur'[r] = cur[r] /\ text'[r] = text[r]
      /\ Tasked'
  BY <1>1, <1>2, <1>3, DoneFacts
<1>6. TypeOK'
  BY <1>1, <1>2, <1>4, <1>5 DEF TypeOK, PCs
<1>7. Restartable'
  BY <1>1, <1>2 DEF Restartable
<1>8. Claims'
  <2>1. \A t \in Triggers : Gates(t)' \subseteq Gates(t) /\ Outs(t)' \subseteq Outs(t)
    BY <1>5 DEF Gates, Outs
  <2> QED
    BY <1>1, <1>2, <1>4, <2>1, ClaimsKept
<1>9. Gated'
  BY <1>1, <1>2, <1>5, GatedKept
<1>10. Budgeted'
  BY <1>1, <1>2, <1>5, BudgetedKept
<1>11. Repeats'
  BY <1>1, <1>2, <1>5, RepeatsKept
<1> QED
  BY <1>5, <1>6, <1>7, <1>8, <1>9, <1>10, <1>11 DEF IInv

-----------------------------------------------------------------------------
(* Steps at the gate                                                       *)

\* A dispatch comes to the gate, last in line and on top of the stack.
LEMMA ComesToGate ==
  ASSUME TypeOK, Gated, NEW s \in Tasks, pc[s] \notin {"gate", "run"},
         stack' = Append(stack, s), lockq' = Append(lockq, s),
         UNCHANGED <<inside, stuck>>,
         pc'[s] = "gate", \A r \in Tasks \ {s} : pc'[r] = pc[r]
  PROVE  Gated' /\ stack' \in Seq(Tasks \cup {Nobody}) /\ lockq' \in Seq(Tasks)
<1>1. /\ lockq \in Seq(Tasks) /\ stack \in Seq(Tasks \cup {Nobody})
      /\ \A i \in DOMAIN lockq : lockq[i] \in Tasks
      /\ \A k \in DOMAIN stack : stack[k] # Nobody => stack[k] \in Tasks
      /\ Nobody \notin Tasks
  BY ReentryAssumption DEF TypeOK
<1> DEFINE m == Len(lockq)
           n == Len(stack)
<1>2. /\ lockq' \in Seq(Tasks) /\ m \in Nat /\ DOMAIN lockq = 1 .. m
      /\ DOMAIN lockq' = 1 .. (m + 1) /\ lockq'[m + 1] = s
      /\ \A i \in DOMAIN lockq : lockq'[i] = lockq[i]
  BY <1>1, AppendFacts
<1>3. /\ stack' \in Seq(Tasks \cup {Nobody}) /\ n \in Nat /\ DOMAIN stack = 1 .. n
      /\ DOMAIN stack' = 1 .. (n + 1) /\ stack'[n + 1] = s
      /\ \A k \in DOMAIN stack : stack'[k] = stack[k]
  BY <1>1, AppendFacts
<1> HIDE DEF m, n
<1>4. Locked
  BY DEF Gated
<1>5. \A i \in DOMAIN lockq : lockq[i] # s /\ pc[lockq[i]] = "gate"
  BY <1>4 DEF Locked
<1>6. Locked'
  <2>1. \A i, j \in DOMAIN lockq' : lockq'[i] = lockq'[j] => i = j
    BY <1>2, <1>4, <1>5 DEF Locked
  <2>2. \A i \in DOMAIN lockq' : pc'[lockq'[i]] = "gate"
    BY <1>1, <1>2, <1>5
  <2>3. \A r \in Tasks : pc'[r] = "gate" => \E i \in DOMAIN lockq' : lockq'[i] = r
    BY <1>2, <1>4 DEF Locked
  <2> QED
    BY <1>4, <2>1, <2>2, <2>3 DEF Locked
<1>7. ASSUME ~stuck PROVE Stacked'
  <2>1. Stacked
    BY <1>7 DEF Gated
  <2>2. \A k \in DOMAIN stack : stack[k] # s
    BY <1>1, <2>1 DEF Stacked
  <2>3. \A k, l \in DOMAIN stack' : stack'[k] = stack'[l] /\ stack'[k] # Nobody => k = l
    BY <1>3, <2>1, <2>2 DEF Stacked
  <2>4. \A k \in DOMAIN stack' :
          stack'[k] # Nobody => pc'[stack'[k]] \in {"gate", "run"}
    BY <1>1, <1>3, <2>1 DEF Stacked
  <2>5. \A r \in Tasks :
          pc'[r] \in {"gate", "run"} => \E k \in DOMAIN stack' : stack'[k] = r
    BY <1>3, <2>1 DEF Stacked
  <2>6. \A x, y : Before(stack, x, y) => Before(stack', x, y)
    BY <1>3 DEF Before
  <2>7. \A r \in Tasks : pc[r] \in {"gate", "run"} => Before(stack', r, s)
    <3> SUFFICES ASSUME NEW r \in Tasks, pc[r] \in {"gate", "run"} PROVE Before(stack', r, s)
      OBVIOUS
    <3>1. PICK k \in DOMAIN stack : stack[k] = r
      BY <2>1 DEF Stacked
    <3>2. /\ k \in DOMAIN stack' /\ n + 1 \in DOMAIN stack' /\ k < n + 1
          /\ stack'[k] = r /\ stack'[n + 1] = s
      BY <1>3, <3>1
    <3> QED
      BY <3>2 DEF Before
  <2>8. \A i, j \in DOMAIN lockq' : i < j => Before(stack', lockq'[i], lockq'[j])
    <3> SUFFICES ASSUME NEW i \in DOMAIN lockq', NEW j \in DOMAIN lockq', i < j
                 PROVE  Before(stack', lockq'[i], lockq'[j])
      OBVIOUS
    <3>1. i \in DOMAIN lockq /\ lockq'[i] = lockq[i]
      BY <1>2
    <3>2. CASE j \in DOMAIN lockq
      BY <1>2, <2>1, <2>6, <3>1, <3>2 DEF Stacked
    <3>3. CASE j = m + 1
      BY <1>1, <1>2, <1>5, <2>7, <3>1, <3>3
    <3>4. j \in DOMAIN lockq \/ j = m + 1
      BY <1>2
    <3> QED
      BY <3>2, <3>3, <3>4
  <2>9. \A q, r \in Tasks : pc'[q] = "run" /\ pc'[r] = "gate" => Before(stack', q, r)
    BY <2>1, <2>6, <2>7 DEF Stacked
  <2> QED
    BY <2>3, <2>4, <2>5, <2>8, <2>9 DEF Stacked
<1> QED
  BY <1>2, <1>3, <1>6, <1>7 DEF Gated

\* A trigger is claimed and its dispatch waits at the gate.
LEMMA DispatchStep ==
  ASSUME IInv, NEW s \in Tasks, Dispatch(s)
  PROVE  IInv'
<1>1. TypeOK /\ Tasked /\ Restartable /\ Claims /\ Gated /\ Budgeted /\ Repeats
  BY DEF IInv
<1> DEFINE t == Head(todo[s])
<1>2. /\ pc[s] = "loop" /\ Claim(s, t) /\ BudgetOk
      /\ pc' = [pc EXCEPT ![s] = "gate"]
      /\ cur' = [cur EXCEPT ![s] = t]
      /\ todo' = [todo EXCEPT ![s] = Tail(@)] /\ late' = late
      /\ stack' = Append(stack, s) /\ lockq' = Append(lockq, s)
      /\ UNCHANGED <<up, lives, text, inside, stuck, total>>
      /\ UNCHANGED <<sent, seen, rate, allows, frozen>>
      /\ UNCHANGED <<started, delivered, copies, excused>>
  BY DEF Dispatch, sendVars, history
<1>3. t \in Triggers /\ Tail(todo[s]) \in Seq(Triggers)
  <2>1. todo[s] \in Seq(Triggers) /\ todo[s] # <<>>
    BY <1>1, <1>2 DEF TypeOK, Tasked
  <2> QED
    BY <2>1, TailFacts
<1> HIDE DEF t
<1>4. /\ state' \in [Triggers -> {"absent", "armed", "exhausted"}]
      /\ used' \in [Triggers -> Nat]
      /\ dueq' \in Seq(TimeTriggers) /\ lapsed' = lapsed
      /\ \A u \in Triggers : /\ used'[u] \in Nat /\ used[u] <= used'[u]
                             /\ used'[u] <= MaxReentries[u]
      /\ used'[t] = used[t] + 1
  BY <1>1, <1>2, <1>3, ClaimFacts
<1>5. /\ pc'[s] = "gate" /\ cur'[s] = t
      /\ \A r \in Tasks \ {s} :
           pc'[r] = pc[r] /\ cur'[r] = cur[r] /\ todo'[r] = todo[r]
  BY <1>1, <1>2 DEF TypeOK
<1>6. Gated' /\ stack' \in Seq(Tasks \cup {Nobody}) /\ lockq' \in Seq(Tasks)
  BY <1>1, <1>2, <1>5, ComesToGate
<1>7. TypeOK'
  <2>1. todo' \in [Tasks -> Seq(Triggers)] /\ pc' \in [Tasks -> PCs]
    BY <1>1, <1>2, <1>3 DEF TypeOK, PCs
  <2>2. cur' \in [Tasks -> Triggers \cup {NoTrigger}]
    BY <1>1, <1>2, <1>3 DEF TypeOK
  <2> QED
    BY <1>1, <1>2, <1>4, <1>6, <2>1, <2>2 DEF TypeOK, PCs
<1>8. Tasked' /\ Restartable'
  BY <1>1, <1>2, <1>3, <1>5 DEF Tasked, Restartable
<1>9. Claims'
  <2> SUFFICES ASSUME NEW u \in Triggers
               PROVE  /\ delivered'[u] + Cardinality(Outs(u)') <= started'[u]
                      /\ started'[u] + Cardinality(Gates(u)') <= used'[u]
                      /\ used'[u] <= MaxReentries[u]
    BY DEF Claims
  <2>1. /\ Outs(u)' = Outs(u)
        /\ Gates(u)' = IF u = t THEN Gates(u) \cup {s} ELSE Gates(u)
        /\ s \notin Gates(u) /\ Gates(u) \subseteq Tasks
    BY <1>2, <1>5 DEF Outs, Gates
  <2>2. IsFiniteSet(Gates(u)) /\ Cardinality(Gates(u)) \in Nat
    BY <2>1, CountFacts
  <2>3. Cardinality(Gates(u)')
          = IF u = t THEN Cardinality(Gates(u)) + 1 ELSE Cardinality(Gates(u))
    BY <2>1, <2>2, FS_AddElement
  <2>4. started[u] + Cardinality(Gates(u)') <= used'[u]
    <3>1. started[u] + Cardinality(Gates(u)) <= used[u]
      BY <1>1 DEF Claims
    <3>2. started[u] \in Nat /\ used[u] \in Nat /\ used'[u] \in Nat
      BY <1>1, <1>4 DEF TypeOK
    <3> QED
      BY <1>4, <2>2, <2>3, <3>1, <3>2
  <2>5. delivered[u] + Cardinality(Outs(u)) <= started[u]
    BY <1>1 DEF Claims
  <2> QED
    BY <1>2, <1>4, <2>1, <2>4, <2>5
<1>10. Budgeted'
  BY <1>1, <1>2, ReentryAssumption DEF Budgeted, BudgetOk, TypeOK
<1>11. Repeats'
  BY <1>1, <1>2, <1>5, RepeatsKept
<1> QED
  BY <1>6, <1>7, <1>8, <1>9, <1>10, <1>11 DEF IInv

\* The first waiter is let in.
LEMMA EntersGate ==
  ASSUME TypeOK, Gated, NEW s \in Tasks, pc[s] = "gate", inside = Nobody,
         s = Head(lockq), lockq' = Tail(lockq), inside' = s,
         UNCHANGED <<stack, stuck>>,
         pc'[s] = "run", \A r \in Tasks \ {s} : pc'[r] = pc[r]
  PROVE  Gated' /\ lockq' \in Seq(Tasks)
<1>1. Locked /\ Nobody \notin Tasks /\ lockq \in Seq(Tasks)
  BY ReentryAssumption DEF Gated, TypeOK
<1>2. lockq # <<>>
  BY <1>1 DEF Locked
<1> DEFINE m == Len(lockq)
<1>3. /\ lockq' \in Seq(Tasks) /\ m \in Nat \ {0} /\ DOMAIN lockq = 1 .. m
      /\ DOMAIN lockq' = 1 .. (m - 1) /\ s = lockq[1]
      /\ \A i \in 1 .. (m - 1) : lockq'[i] = lockq[i + 1]
  BY <1>1, <1>2, TailFacts
<1>4. \A i \in DOMAIN lockq : lockq[i] \in Tasks /\ pc[lockq[i]] = "gate"
  BY <1>1 DEF Locked
<1> HIDE DEF m
<1>5. \A r \in Tasks : pc[r] # "run"
  BY <1>1 DEF Locked
<1>6. ~stuck /\ Stacked
  BY <1>1 DEF Locked, Gated
<1>7. \A r \in Tasks : pc'[r] = "gate" =>
        \E i \in 2 .. m : lockq[i] = r /\ i - 1 \in DOMAIN lockq' /\ lockq'[i - 1] = r
  <2> SUFFICES ASSUME NEW r \in Tasks, pc'[r] = "gate"
               PROVE  \E i \in 2 .. m :
                        lockq[i] = r /\ i - 1 \in DOMAIN lockq' /\ lockq'[i - 1] = r
    OBVIOUS
  <2>1. r # s /\ pc[r] = "gate"
    OBVIOUS
  <2>2. PICK i \in DOMAIN lockq : lockq[i] = r
    BY <1>1, <2>1 DEF Locked
  <2>3. i \in 2 .. m /\ i - 1 \in 1 .. (m - 1) /\ (i - 1) + 1 = i
    BY <1>3, <2>1, <2>2
  <2>4. lockq'[i - 1] = lockq[(i - 1) + 1]
    BY <1>3, <2>3
  <2> QED
    BY <1>3, <2>2, <2>3, <2>4
<1>8. \A i \in DOMAIN lockq' : i + 1 \in DOMAIN lockq /\ lockq'[i] = lockq[i + 1]
  BY <1>3
<1>9. Locked'
  <2>1. \A i, j \in DOMAIN lockq' : lockq'[i] = lockq'[j] => i = j
    <3> SUFFICES ASSUME NEW i \in DOMAIN lockq', NEW j \in DOMAIN lockq',
                        lockq'[i] = lockq'[j]
                 PROVE  i = j
      OBVIOUS
    <3>1. i + 1 = j + 1
      BY <1>1, <1>8 DEF Locked
    <3> QED
      BY <1>3, <3>1
  <2>2. \A i \in DOMAIN lockq' : pc'[lockq'[i]] = "gate"
    <3> SUFFICES ASSUME NEW i \in DOMAIN lockq' PROVE pc'[lockq'[i]] = "gate"
      OBVIOUS
    <3>1. i + 1 # 1 /\ 1 \in DOMAIN lockq
      BY <1>3
    <3>2. lockq[i + 1] # s
      BY <1>1, <1>3, <1>8, <3>1 DEF Locked
    <3> QED
      BY <1>4, <1>8, <3>2
  <2>3. \A r \in Tasks : pc'[r] = "gate" => \E i \in DOMAIN lockq' : lockq'[i] = r
    BY <1>7
  <2> QED
    BY <1>1, <1>5, <1>6, <2>1, <2>2, <2>3 DEF Locked
<1>10. Stacked'
  <2>1. \A i, j \in DOMAIN lockq' : i < j => Before(stack, lockq'[i], lockq'[j])
    <3> SUFFICES ASSUME NEW i \in DOMAIN lockq', NEW j \in DOMAIN lockq', i < j
                 PROVE  Before(stack, lockq'[i], lockq'[j])
      OBVIOUS
    <3>1. i + 1 < j + 1
      BY <1>3
    <3> QED
      BY <1>6, <1>8, <3>1 DEF Stacked
  <2>2. \A q, r \in Tasks : pc'[q] = "run" /\ pc'[r] = "gate" => Before(stack, q, r)
    <3> SUFFICES ASSUME NEW r \in Tasks, pc'[r] = "gate" PROVE Before(stack, s, r)
      BY <1>5
    <3>1. PICK i \in 2 .. m : lockq[i] = r
      BY <1>7
    <3>2. 1 \in DOMAIN lockq /\ i \in DOMAIN lockq /\ 1 < i
      BY <1>3
    <3> QED
      BY <1>3, <1>6, <3>1, <3>2 DEF Stacked
  <2>3. \A k \in DOMAIN stack : stack[k] # Nobody => stack[k] \in Tasks
    BY DEF TypeOK
  <2> QED
    BY <1>6, <2>1, <2>2, <2>3 DEF Stacked
<1> QED
  BY <1>3, <1>9, <1>10 DEF Gated

\* The subagent of a claim is started.
LEMMA EnterGateStep ==
  ASSUME IInv, NEW s \in Tasks, EnterGate(s)
  PROVE  IInv'
<1>1. TypeOK /\ Tasked /\ Restartable /\ Claims /\ Gated /\ Budgeted /\ Repeats
  BY DEF IInv
<1> DEFINE t == cur[s]
<1>2. /\ pc[s] = "gate" /\ inside = Nobody /\ s = Head(lockq)
      /\ lockq' = Tail(lockq) /\ inside' = s
      /\ pc' = [pc EXCEPT ![s] = "run"]
      /\ started' = [started EXCEPT ![t] = @ + 1]
      /\ UNCHANGED <<state, used, lapsed, dueq, up, lives, todo, late, cur, text>>
      /\ UNCHANGED <<stack, stuck, total, sent, seen, rate, allows, frozen>>
      /\ UNCHANGED <<delivered, copies, excused>>
  BY DEF EnterGate, rowVars, sendVars
<1>3. t \in Triggers
  BY <1>1, <1>2 DEF Tasked
<1> HIDE DEF t
<1>4. pc'[s] = "run" /\ \A r \in Tasks \ {s} : pc'[r] = pc[r]
  BY <1>1, <1>2 DEF TypeOK
<1>5. Gated' /\ lockq' \in Seq(Tasks)
  BY <1>1, <1>2, <1>4, EntersGate
<1>6. /\ started' \in [Triggers -> Nat] /\ started'[t] = started[t] + 1
      /\ \A u \in Triggers \ {t} : started'[u] = started[u]
  BY <1>1, <1>2, <1>3 DEF TypeOK
<1>7. TypeOK'
  BY <1>1, <1>2, <1>5, <1>6 DEF TypeOK
<1>8. Tasked' /\ Restartable'
  BY <1>1, <1>2, <1>4 DEF Tasked, Restartable
<1>9. Claims'
  <2> SUFFICES ASSUME NEW u \in Triggers
               PROVE  /\ delivered'[u] + Cardinality(Outs(u)') <= started'[u]
                      /\ started'[u] + Cardinality(Gates(u)') <= used'[u]
                      /\ used'[u] <= MaxReentries[u]
    BY DEF Claims
  <2>1. /\ delivered[u] + Cardinality(Outs(u)) <= started[u]
        /\ started[u] + Cardinality(Gates(u)) <= used[u]
        /\ used[u] <= MaxReentries[u]
        /\ delivered[u] \in Nat /\ started[u] \in Nat /\ used[u] \in Nat
    BY <1>1 DEF Claims, TypeOK
  <2>2. CASE u = t
    <3>1. /\ Outs(u)' = Outs(u) \cup {s} /\ s \notin Outs(u)
          /\ Gates(u)' = Gates(u) \ {s} /\ s \in Gates(u)
          /\ Outs(u) \subseteq Tasks /\ Gates(u) \subseteq Tasks
      BY <1>2, <1>4, <2>2 DEF Outs, Gates, t
    <3>2. /\ IsFiniteSet(Outs(u)) /\ Cardinality(Outs(u)) \in Nat
          /\ IsFiniteSet(Gates(u)) /\ Cardinality(Gates(u)) \in Nat
      BY <3>1, CountFacts
    <3>3. Cardinality(Outs(u)') = Cardinality(Outs(u)) + 1
      BY <3>1, <3>2, FS_AddElement
    <3>4. Cardinality(Gates(u)') = Cardinality(Gates(u)) - 1
      BY <3>1, <3>2, FS_RemoveElement
    <3> QED
      BY <1>2, <1>6, <2>1, <2>2, <3>2, <3>3, <3>4
  <2>3. CASE u # t
    <3>1. Outs(u)' = Outs(u) /\ Gates(u)' = Gates(u)
      BY <1>2, <1>4, <2>3 DEF Outs, Gates, t
    <3> QED
      BY <1>2, <1>6, <2>1, <2>3, <3>1
  <2> QED
    BY <2>2, <2>3
<1>10. Budgeted'
  BY <1>1, <1>2, <1>4, BudgetedKept
<1>11. Repeats'
  BY <1>1, <1>2, <1>4, RepeatsKept
<1> QED
  BY <1>5, <1>7, <1>8, <1>9, <1>10, <1>11 DEF IInv

\* A window is closed only when nobody waits; otherwise it is left open.
LEMMA LeavesGate ==
  ASSUME TypeOK, Gated, NEW s \in Tasks, pc[s] = "run", LeaveGate(s),
         pc'[s] \notin {"gate", "run"}, \A r \in Tasks \ {s} : pc'[r] = pc[r]
  PROVE  /\ Gated' /\ stack' \in Seq(Tasks \cup {Nobody}) /\ lockq' = lockq
         /\ inside' \in Tasks \cup {Nobody} /\ stuck' \in BOOLEAN
         /\ ~stuck' => \A r \in Tasks : pc'[r] \notin {"gate", "run"}
<1>1. /\ Locked /\ Nobody \notin Tasks /\ stack \in Seq(Tasks \cup {Nobody})
      /\ \A i \in DOMAIN lockq : lockq[i] \in Tasks
      /\ \A k \in DOMAIN stack : stack[k] # Nobody => stack[k] \in Tasks
  BY ReentryAssumption DEF Gated, TypeOK
<1>2. /\ stack' = Front(stack) /\ lockq' = lockq
      /\ IF Last(stack) = s THEN inside' = Nobody /\ stuck' = stuck
                            ELSE inside' = inside /\ stuck' = TRUE
  BY DEF LeaveGate
<1>3. ~stuck /\ inside = s /\ Stacked /\ \A r \in Tasks \ {s} : pc[r] # "run"
  BY <1>1 DEF Locked, Gated
<1>4. stack # <<>>
  BY <1>3 DEF Stacked
<1> DEFINE n == Len(stack)
<1>5. /\ stack' \in Seq(Tasks \cup {Nobody}) /\ n \in Nat \ {0}
      /\ DOMAIN stack = 1 .. n /\ DOMAIN stack' = 1 .. (n - 1)
      /\ Last(stack) = stack[n]
      /\ \A i \in 1 .. (n - 1) : stack'[i] = stack[i]
  BY <1>1, <1>2, <1>4, FrontLastFacts
<1> HIDE DEF n
<1>6. CASE Last(stack) = s
  <2>1. \A k \in DOMAIN stack : stack[k] = s => k = n
    <3>1. n \in DOMAIN stack /\ stack[n] = s /\ s # Nobody
      BY <1>1, <1>5, <1>6
    <3> QED
      BY <1>3, <3>1 DEF Stacked
  <2>2. ASSUME NEW r \in Tasks, pc[r] = "gate" PROVE FALSE
    <3>1. Before(stack, s, r)
      BY <1>3, <2>2 DEF Stacked
    <3>2. PICK k \in DOMAIN stack, l \in DOMAIN stack :
            k < l /\ stack[k] = s /\ stack[l] = r
      BY <3>1 DEF Before
    <3> QED
      BY <1>5, <2>1, <3>2
  <2>3. \A r \in Tasks : pc'[r] \notin {"gate", "run"}
    BY <1>3, <2>2
  <2>4. \A i \in DOMAIN lockq : FALSE
    BY <1>1, <2>2 DEF Locked
  <2>5. Locked'
    BY <1>2, <1>3, <1>6, <2>3, <2>4 DEF Locked
  <2>6. \A k \in DOMAIN stack' : stack'[k] = Nobody
    <3> SUFFICES ASSUME NEW k \in DOMAIN stack', stack'[k] # Nobody PROVE FALSE
      OBVIOUS
    <3>1. k \in DOMAIN stack /\ stack'[k] = stack[k] /\ k # n
      BY <1>5
    <3>2. stack[k] \in Tasks /\ pc[stack[k]] \in {"gate", "run"}
      BY <1>1, <1>3, <3>1 DEF Stacked
    <3>3. stack[k] = s
      BY <1>3, <2>2, <3>2
    <3> QED
      BY <2>1, <3>1, <3>3
  <2>7. Stacked'
    BY <1>2, <2>3, <2>4, <2>6 DEF Stacked
  <2>8. inside' \in Tasks \cup {Nobody} /\ stuck' \in BOOLEAN
    BY <1>2, <1>6 DEF TypeOK
  <2> QED
    BY <1>2, <1>5, <2>3, <2>5, <2>7, <2>8 DEF Gated
<1>7. CASE Last(stack) # s
  <2>1. stuck' = TRUE /\ inside' = s
    BY <1>2, <1>3, <1>7
  <2>2. Locked'
    BY <1>1, <1>2, <1>3, <2>1 DEF Locked
  <2> QED
    BY <1>2, <1>5, <2>1, <2>2 DEF Gated
<1> QED
  BY <1>6, <1>7

\* An exception or a cancellation ends the dispatch of a subagent.
LEMMA RunRaisesStep ==
  ASSUME IInv, NEW s \in Tasks, NEW cancelled \in BOOLEAN, RunRaises(s, cancelled)
  PROVE  IInv'
<1>1. TypeOK /\ Tasked /\ Restartable /\ Claims /\ Gated /\ Budgeted /\ Repeats
  BY DEF IInv
<1> DEFINE rest == IF cancelled THEN <<>> ELSE todo[s]
<1>2. /\ pc[s] = "run" /\ LeaveGate(s) /\ Done(s, rest)
      /\ UNCHANGED <<state, used, lapsed, dueq, up, lives, total>>
      /\ UNCHANGED <<sent, seen, rate, allows, frozen>>
      /\ UNCHANGED <<started, delivered, copies, excused>>
  BY DEF RunRaises, rowVars, sendVars, history
<1>3. rest \in Seq(Triggers)
  BY <1>1 DEF TypeOK
<1> HIDE DEF rest
<1>4. /\ pc' \in [Tasks -> PCs] /\ todo' \in [Tasks -> Seq(Triggers)]
      /\ late' \subseteq Triggers
      /\ cur' \in [Tasks -> Triggers \cup {NoTrigger}]
      /\ text' \in [Tasks -> Texts \cup {NoText}]
      /\ pc'[s] \in {"idle", "loop"}
      /\ \A r \in Tasks \ {s} :
           pc'[r] = pc[r] /\ cur'[r] = cur[r] /\ text'[r] = text[r]
      /\ Tasked'
  BY <1>1, <1>2, <1>3, DoneFacts
<1>5. /\ Gated' /\ stack' \in Seq(Tasks \cup {Nobody}) /\ lockq' = lockq
      /\ inside' \in Tasks \cup {Nobody} /\ stuck' \in BOOLEAN
      /\ ~stuck' => \A r \in Tasks : pc'[r] \notin {"gate", "run"}
  BY <1>1, <1>2, <1>4, LeavesGate
<1>6. TypeOK'
  BY <1>1, <1>2, <1>4, <1>5 DEF TypeOK, PCs
<1>7. Restartable'
  BY <1>1, <1>2 DEF Restartable
<1>8. Claims'
  <2>1. \A t \in Triggers : Gates(t)' \subseteq Gates(t) /\ Outs(t)' \subseteq Outs(t)
    BY <1>4 DEF Gates, Outs
  <2>2. \A t \in Triggers : /\ used'[t] \in Nat /\ used[t] <= used'[t]
                            /\ used'[t] <= MaxReentries[t]
    BY <1>1, <1>2 DEF TypeOK, Claims
  <2> QED
    BY <1>1, <1>2, <2>1, <2>2, ClaimsKept
<1>9. Budgeted'
  BY <1>1, <1>2, <1>5 DEF Budgeted
<1>10. Repeats'
  BY <1>1, <1>2, <1>4, RepeatsKept
<1> QED
  BY <1>4, <1>5, <1>6, <1>7, <1>8, <1>9, <1>10 DEF IInv

\* The chat of a reply.
LEMMA TargetFacts ==
  ASSUME NEW t \in Triggers
  PROVE  Target(t) \subseteq Chats
  BY ReentryAssumption DEF Target

\* A result is decided on: the dispatch is over, or its message is not yet seen.
LEMMA DecideFacts ==
  ASSUME TypeOK, Tasked, Repeats, NEW s \in Tasks, pc[s] = "run",
         NEW x \in Texts \cup {NoText}, Decide(s, x), UNCHANGED <<seen, copies>>
  PROVE  /\ pc' \in [Tasks -> PCs] /\ todo' \in [Tasks -> Seq(Triggers)]
         /\ late' \subseteq Triggers
         /\ cur' \in [Tasks -> Triggers \cup {NoTrigger}]
         /\ text' \in [Tasks -> Texts \cup {NoText}]
         /\ rate' \in [Chats -> Nat] /\ excused' \subseteq Keys
         /\ pc'[s] \notin {"gate", "run"}
         /\ pc'[s] \in {"ask", "send"} => cur'[s] = cur[s]
         /\ \A r \in Tasks \ {s} : pc'[r] = pc[r] /\ cur'[r] = cur[r]
         /\ Tasked' /\ Repeats'
<1> DEFINE t == cur[s]
           sends == x # NoText /\ \E c \in Target(t) : ~Blocked(t, x, c)
<1>1. t \in Triggers
  BY DEF Tasked
<1>2. CASE sends
  <2>1. PICK c \in Target(t) :
          /\ rate' = [rate EXCEPT ![c] = IF RatePerHour > 0 THEN @ + 1 ELSE @]
          /\ pc' = [pc EXCEPT ![s] = IF Trusted(c) THEN "send" ELSE "ask"]
          /\ text' = [text EXCEPT ![s] = x]
          /\ excused' = IF \E r \in Tasks : /\ pc[r] \in {"ask", "send"}
                                            /\ <<cur[r], text[r]>> = <<t, x>>
                        THEN excused \cup {<<t, x>>} ELSE excused
          /\ UNCHANGED <<todo, late, cur>>
    BY <1>2, Zenon DEF Decide
  <2>2. x \in Texts /\ <<t, x>> \in Keys /\ <<t, x>> \notin seen
    BY <1>1, <1>2 DEF Blocked, Keys
  <2> HIDE DEF t, sends
  <2>3. rate' \in [Chats -> Nat]
    <3>1. c \in Chats
      BY <1>1, <2>1, TargetFacts
    <3>2. rate \in [Chats -> Nat] /\ rate[c] + 1 \in Nat /\ rate[c] \in Nat
      BY <3>1 DEF TypeOK
    <3> QED
      BY <2>1, <3>1, <3>2
  <2>4. /\ pc' \in [Tasks -> PCs] /\ text' \in [Tasks -> Texts \cup {NoText}]
        /\ excused' \subseteq Keys
    BY <2>1, <2>2 DEF TypeOK, PCs
  <2>5. /\ pc'[s] \in {"ask", "send"} /\ text'[s] = x /\ cur'[s] = t
        /\ \A r \in Tasks \ {s} :
             /\ pc'[r] = pc[r] /\ cur'[r] = cur[r] /\ text'[r] = text[r]
             /\ todo'[r] = todo[r]
    BY <2>1 DEF TypeOK, t
  <2>6. Tasked'
    BY <1>1, <2>2, <2>5 DEF Tasked
  <2>7. Repeats'
    <3> SUFFICES ASSUME NEW k \in Keys \ excused'
                 PROVE  /\ copies[k] <= 1
                        /\ copies[k] > 0 => k \in seen
                        /\ \A r \in Tasks : Pending(r, k)' => copies[k] = 0
                        /\ \A q, r \in Tasks : Pending(q, k)' /\ Pending(r, k)' => q = r
      BY DEF Repeats
    <3>1. k \notin excused /\ copies[k] \in Nat
      BY <2>1 DEF TypeOK
    <3>2. /\ copies[k] <= 1
          /\ copies[k] > 0 => k \in seen
          /\ \A r \in Tasks : Pending(r, k) => copies[k] = 0
          /\ \A q, r \in Tasks : Pending(q, k) /\ Pending(r, k) => q = r
      BY <3>1 DEF Repeats
    <3>3. \A r \in Tasks \ {s} : Pending(r, k)' <=> Pending(r, k)
      BY <2>5 DEF Pending
    <3>4. CASE k = <<t, x>>
      <4>1. \A r \in Tasks : ~Pending(r, k)
        BY <2>1, <3>4 DEF Pending
      <4>2. copies[k] = 0
        BY <2>2, <3>1, <3>2, <3>4
      <4> QED
        BY <3>2, <3>3, <4>1, <4>2
    <3>5. CASE k # <<t, x>>
      <4>1. ~Pending(s, k)'
        BY <2>5, <3>5 DEF Pending
      <4> QED
        BY <3>2, <3>3, <4>1
    <3> QED
      BY <3>4, <3>5
  <2> QED
    BY <2>1, <2>3, <2>4, <2>5, <2>6, <2>7 DEF TypeOK, t
<1>3. CASE ~sends
  <2>1. Done(s, todo[s]) /\ UNCHANGED <<rate, excused>>
    BY <1>3, Zenon DEF Decide
  <2>2. todo[s] \in Seq(Triggers)
    BY DEF TypeOK
  <2> HIDE DEF t, sends
  <2>3. /\ pc' \in [Tasks -> PCs] /\ todo' \in [Tasks -> Seq(Triggers)]
        /\ late' \subseteq Triggers
        /\ cur' \in [Tasks -> Triggers \cup {NoTrigger}]
        /\ text' \in [Tasks -> Texts \cup {NoText}]
        /\ pc'[s] \in {"idle", "loop"}
        /\ \A r \in Tasks \ {s} :
             pc'[r] = pc[r] /\ cur'[r] = cur[r] /\ text'[r] = text[r]
        /\ Tasked'
    BY <2>1, <2>2, DoneFacts
  <2>4. Repeats'
    BY <2>1, <2>3, RepeatsKept
  <2>5. rate' \in [Chats -> Nat] /\ excused' \subseteq Keys
    BY <2>1 DEF TypeOK
  <2> QED
    BY <2>3, <2>4, <2>5
<1> QED
  BY <1>2, <1>3

\* A subagent returns: it is counted, and nobody else has the last unit.
LEMMA RunReturnsStep ==
  ASSUME IInv, NEW s \in Tasks, NEW x \in Texts \cup {NoText}, RunReturns(s, x)
  PROVE  IInv'
<1>1. TypeOK /\ Tasked /\ Restartable /\ Claims /\ Gated /\ Budgeted /\ Repeats
  BY DEF IInv
<1>2. /\ pc[s] = "run" /\ LeaveGate(s) /\ total' = total + 1 /\ Decide(s, x)
      /\ UNCHANGED <<state, used, lapsed, dueq, up, lives>>
      /\ UNCHANGED <<sent, seen, allows, frozen, started, delivered, copies>>
  BY DEF RunReturns, rowVars
<1>3. /\ pc' \in [Tasks -> PCs] /\ todo' \in [Tasks -> Seq(Triggers)]
      /\ late' \subseteq Triggers
      /\ cur' \in [Tasks -> Triggers \cup {NoTrigger}]
      /\ text' \in [Tasks -> Texts \cup {NoText}]
      /\ rate' \in [Chats -> Nat] /\ excused' \subseteq Keys
      /\ pc'[s] \notin {"gate", "run"}
      /\ pc'[s] \in {"ask", "send"} => cur'[s] = cur[s]
      /\ \A r \in Tasks \ {s} : pc'[r] = pc[r] /\ cur'[r] = cur[r]
      /\ Tasked' /\ Repeats'
  BY <1>1, <1>2, DecideFacts
<1>4. /\ Gated' /\ stack' \in Seq(Tasks \cup {Nobody}) /\ lockq' = lockq
      /\ inside' \in Tasks \cup {Nobody} /\ stuck' \in BOOLEAN
      /\ ~stuck' => \A r \in Tasks : pc'[r] \notin {"gate", "run"}
  BY <1>1, <1>2, <1>3, LeavesGate
<1>5. TypeOK'
  <2>1. total' \in Nat
    BY <1>1, <1>2 DEF TypeOK
  <2> QED
    BY <1>1, <1>2, <1>3, <1>4, <2>1 DEF TypeOK, PCs
<1>6. Restartable'
  BY <1>1, <1>2 DEF Restartable
<1>7. Claims'
  <2>1. \A t \in Triggers : Gates(t)' \subseteq Gates(t) /\ Outs(t)' \subseteq Outs(t)
    BY <1>2, <1>3 DEF Gates, Outs
  <2>2. \A t \in Triggers : /\ used'[t] \in Nat /\ used[t] <= used'[t]
                            /\ used'[t] <= MaxReentries[t]
    BY <1>1, <1>2 DEF TypeOK, Claims
  <2> QED
    BY <1>1, <1>2, <2>1, <2>2, ClaimsKept
<1>8. Budgeted'
  <2>1. ~stuck
    BY <1>1, <1>2 DEF Gated, Locked
  <2>2. total \in Nat /\ Budget \in Nat
    BY <1>1, ReentryAssumption DEF TypeOK
  <2>3. Budget > 0 => total < Budget
    BY <1>1, <1>2, <2>1 DEF Budgeted
  <2>4. Budget > 0 => total' <= Budget
    BY <1>2, <2>2, <2>3
  <2> QED
    BY <1>4, <2>4 DEF Budgeted
<1> QED
  BY <1>3, <1>4, <1>5, <1>6, <1>7, <1>8 DEF IInv

\* A waiter is cancelled: it leaves the line, and its entry is nobody's.
LEMMA CancelsAtGate ==
  ASSUME TypeOK, Gated, NEW s \in Tasks, pc[s] = "gate",
         lockq' = Without(lockq, s), UNCHANGED <<inside, stuck>>,
         stack' = [i \in DOMAIN stack |-> IF stack[i] = s THEN Nobody ELSE stack[i]],
         pc'[s] \notin {"gate", "run"}, \A r \in Tasks \ {s} : pc'[r] = pc[r]
  PROVE  Gated' /\ stack' \in Seq(Tasks \cup {Nobody}) /\ lockq' \in Seq(Tasks)
<1>1. /\ Locked /\ Nobody \notin Tasks
      /\ lockq \in Seq(Tasks) /\ stack \in Seq(Tasks \cup {Nobody})
      /\ \A i \in DOMAIN lockq : lockq[i] \in Tasks
      /\ \A k \in DOMAIN stack : stack[k] # Nobody => stack[k] \in Tasks
  BY ReentryAssumption DEF Gated, TypeOK
<1>2. \A i, j \in DOMAIN lockq : lockq[i] = lockq[j] => i = j
  BY <1>1 DEF Locked
<1>3. /\ lockq' \in Seq(Tasks)
      /\ \A i, j \in DOMAIN lockq' : i < j =>
           \E k, l \in DOMAIN lockq :
             k < l /\ lockq[k] = lockq'[i] /\ lockq[l] = lockq'[j]
      /\ \A i \in DOMAIN lockq' : \E k \in DOMAIN lockq : lockq[k] = lockq'[i]
      /\ \A k \in DOMAIN lockq : lockq[k] # s =>
           \E i \in DOMAIN lockq' : lockq'[i] = lockq[k]
      /\ \A i \in DOMAIN lockq' : lockq'[i] # s
  <2> DEFINE w == Without(lockq, s)
  <2>1. /\ w \in Seq(Tasks)
        /\ \A i, j \in DOMAIN w : i < j =>
             \E k, l \in DOMAIN lockq : k < l /\ lockq[k] = w[i] /\ lockq[l] = w[j]
        /\ \A i \in DOMAIN w : \E k \in DOMAIN lockq : lockq[k] = w[i]
        /\ \A k \in DOMAIN lockq : lockq[k] # s =>
             \E i \in DOMAIN w : w[i] = lockq[k]
        /\ \A i \in DOMAIN w : w[i] # s
    BY <1>1, <1>2, WithoutFacts
  <2>2. lockq' = w
    OBVIOUS
  <2> HIDE DEF w
  <2> QED
    BY <2>1, <2>2
<1>4. /\ stack' \in Seq(Tasks \cup {Nobody}) /\ DOMAIN stack' = DOMAIN stack
      /\ \A k \in DOMAIN stack : stack[k] # s => stack'[k] = stack[k]
      /\ \A k \in DOMAIN stack : stack[k] = s => stack'[k] = Nobody
  <2>1. Len(stack) \in Nat /\ DOMAIN stack = 1 .. Len(stack)
    BY <1>1
  <2>2. /\ DOMAIN stack' = 1 .. Len(stack)
        /\ \A k \in 1 .. Len(stack) : stack'[k] \in Tasks \cup {Nobody}
    BY <1>1, <2>1
  <2> QED
    BY <1>1, <2>1, <2>2
<1>5. Locked'
  <2>1. \A i, j \in DOMAIN lockq' : lockq'[i] = lockq'[j] => i = j
    <3> SUFFICES ASSUME NEW i \in DOMAIN lockq', NEW j \in DOMAIN lockq', i < j,
                        lockq'[i] = lockq'[j]
                 PROVE  FALSE
      <4>1. \A i, j \in DOMAIN lockq' : i < j \/ j < i \/ i = j
        BY <1>3
      <4> QED
        BY <4>1
    <3>1. PICK k \in DOMAIN lockq, l \in DOMAIN lockq :
            k < l /\ lockq[k] = lockq'[i] /\ lockq[l] = lockq'[j]
      BY <1>3
    <3>2. k = l /\ k < l /\ k \in Nat
      BY <1>1, <1>2, <3>1
    <3> QED
      BY <3>2
  <2>2. \A i \in DOMAIN lockq' : pc'[lockq'[i]] = "gate"
    <3> SUFFICES ASSUME NEW i \in DOMAIN lockq' PROVE pc'[lockq'[i]] = "gate"
      OBVIOUS
    <3>1. PICK k \in DOMAIN lockq : lockq[k] = lockq'[i]
      BY <1>3
    <3>2. lockq[k] \in Tasks /\ lockq[k] # s /\ pc[lockq[k]] = "gate"
      BY <1>1, <1>3, <3>1 DEF Locked
    <3> QED
      BY <3>1, <3>2
  <2>3. \A r \in Tasks : pc'[r] = "gate" => \E i \in DOMAIN lockq' : lockq'[i] = r
    BY <1>1, <1>3 DEF Locked
  <2> QED
    BY <1>1, <2>1, <2>2, <2>3 DEF Locked
<1>6. ASSUME ~stuck PROVE Stacked'
  <2>1. Stacked
    BY <1>6 DEF Gated
  <2>2. \A k \in DOMAIN stack' : stack'[k] # Nobody => stack'[k] = stack[k] /\ stack[k] # s
    BY <1>4
  <2>3. \A k, l \in DOMAIN stack' : stack'[k] = stack'[l] /\ stack'[k] # Nobody => k = l
    BY <1>4, <2>1, <2>2 DEF Stacked
  <2>4. \A k \in DOMAIN stack' :
          stack'[k] # Nobody => pc'[stack'[k]] \in {"gate", "run"}
    BY <1>1, <1>4, <2>1, <2>2 DEF Stacked
  <2>5. \A r \in Tasks :
          pc'[r] \in {"gate", "run"} => \E k \in DOMAIN stack' : stack'[k] = r
    BY <1>4, <2>1 DEF Stacked
  <2>6. \A x, y : x # s /\ y # s /\ Before(stack, x, y) => Before(stack', x, y)
    BY <1>4 DEF Before
  <2>7. \A i, j \in DOMAIN lockq' : i < j => Before(stack', lockq'[i], lockq'[j])
    <3> SUFFICES ASSUME NEW i \in DOMAIN lockq', NEW j \in DOMAIN lockq', i < j
                 PROVE  Before(stack', lockq'[i], lockq'[j])
      OBVIOUS
    <3>1. PICK k \in DOMAIN lockq, l \in DOMAIN lockq :
            k < l /\ lockq[k] = lockq'[i] /\ lockq[l] = lockq'[j]
      BY <1>3
    <3>2. Before(stack, lockq[k], lockq[l])
      BY <2>1, <3>1 DEF Stacked
    <3> QED
      BY <1>3, <2>6, <3>1, <3>2
  <2>8. \A q, r \in Tasks : pc'[q] = "run" /\ pc'[r] = "gate" => Before(stack', q, r)
    BY <2>1, <2>6 DEF Stacked
  <2> QED
    BY <2>3, <2>4, <2>5, <2>7, <2>8 DEF Stacked
<1> QED
  BY <1>3, <1>4, <1>5, <1>6 DEF Gated

\* A handler is cancelled while it waits at the gate.
LEMMA CancelAtGateStep ==
  ASSUME IInv, NEW s \in Tasks, CancelAtGate(s)
  PROVE  IInv'
<1>1. TypeOK /\ Tasked /\ Restartable /\ Claims /\ Gated /\ Budgeted /\ Repeats
  BY DEF IInv
<1>2. /\ pc[s] = "gate" /\ Done(s, <<>>) /\ lockq' = Without(lockq, s)
      /\ stack' = [i \in DOMAIN stack |-> IF stack[i] = s THEN Nobody ELSE stack[i]]
      /\ UNCHANGED <<state, used, lapsed, dueq, up, lives, inside, stuck, total>>
      /\ UNCHANGED <<sent, seen, rate, allows, frozen>>
      /\ UNCHANGED <<started, delivered, copies, excused>>
  BY DEF CancelAtGate, rowVars, sendVars, history
<1>3. <<>> \in Seq(Triggers)
  OBVIOUS
<1>4. /\ pc' \in [Tasks -> PCs] /\ todo' \in [Tasks -> Seq(Triggers)]
      /\ late' \subseteq Triggers
      /\ cur' \in [Tasks -> Triggers \cup {NoTrigger}]
      /\ text' \in [Tasks -> Texts \cup {NoText}]
      /\ pc'[s] \in {"idle", "loop"}
      /\ \A r \in Tasks \ {s} :
           pc'[r] = pc[r] /\ cur'[r] = cur[r] /\ text'[r] = text[r]
      /\ Tasked'
  BY <1>1, <1>2, <1>3, DoneFacts
<1>5. Gated' /\ stack' \in Seq(Tasks \cup {Nobody}) /\ lockq' \in Seq(Tasks)
  BY <1>1, <1>2, <1>4, CancelsAtGate
<1>6. TypeOK'
  BY <1>1, <1>2, <1>4, <1>5 DEF TypeOK, PCs
<1>7. Restartable'
  BY <1>1, <1>2 DEF Restartable
<1>8. Claims'
  <2>1. \A t \in Triggers : Gates(t)' \subseteq Gates(t) /\ Outs(t)' \subseteq Outs(t)
    BY <1>4 DEF Gates, Outs
  <2>2. \A t \in Triggers : /\ used'[t] \in Nat /\ used[t] <= used'[t]
                            /\ used'[t] <= MaxReentries[t]
    BY <1>1, <1>2 DEF TypeOK, Claims
  <2> QED
    BY <1>1, <1>2, <2>1, <2>2, ClaimsKept
<1>9. Budgeted'
  BY <1>1, <1>2, <1>4, BudgetedKept
<1>10. Repeats'
  BY <1>1, <1>2, <1>4, RepeatsKept
<1> QED
  BY <1>4, <1>5, <1>6, <1>7, <1>8, <1>9, <1>10 DEF IInv

-----------------------------------------------------------------------------
(* Steps of the delivery                                                   *)

\* A delivery is over and no message has left.
LEMMA DeliveryEnds ==
  ASSUME IInv, NEW s \in Tasks, pc[s] \in {"ask", "send"},
         NEW rest \in Seq(Triggers), Done(s, rest),
         frozen' \subseteq Chats, UNCHANGED allows,
         UNCHANGED <<state, used, lapsed, dueq, up, lives, total>>,
         UNCHANGED <<stack, lockq, inside, stuck, sent, seen, rate>>,
         UNCHANGED <<started, delivered, copies, excused>>
  PROVE  IInv'
<1>1. TypeOK /\ Tasked /\ Restartable /\ Claims /\ Gated /\ Budgeted /\ Repeats
  BY DEF IInv
<1>2. /\ pc' \in [Tasks -> PCs] /\ todo' \in [Tasks -> Seq(Triggers)]
      /\ late' \subseteq Triggers
      /\ cur' \in [Tasks -> Triggers \cup {NoTrigger}]
      /\ text' \in [Tasks -> Texts \cup {NoText}]
      /\ pc'[s] \in {"idle", "loop"}
      /\ \A r \in Tasks \ {s} :
           pc'[r] = pc[r] /\ cur'[r] = cur[r] /\ text'[r] = text[r]
      /\ Tasked'
  BY <1>1, DoneFacts
<1>3. TypeOK'
  BY <1>1, <1>2 DEF TypeOK, PCs
<1>4. Restartable'
  BY <1>1 DEF Restartable
<1>5. Claims'
  <2>1. \A t \in Triggers : Gates(t)' \subseteq Gates(t) /\ Outs(t)' \subseteq Outs(t)
    BY <1>2 DEF Gates, Outs
  <2>2. \A t \in Triggers : /\ used'[t] \in Nat /\ used[t] <= used'[t]
                            /\ used'[t] <= MaxReentries[t]
    BY <1>1 DEF TypeOK, Claims
  <2> QED
    BY <1>1, <2>1, <2>2, ClaimsKept
<1>6. Gated'
  BY <1>1, <1>2, GatedKept
<1>7. Budgeted'
  BY <1>1, <1>2, BudgetedKept
<1>8. Repeats'
  BY <1>1, <1>2, RepeatsKept
<1> QED
  BY <1>2, <1>3, <1>4, <1>5, <1>6, <1>7, <1>8 DEF IInv

\* One is counted.
LEMMA CountOne ==
  ASSUME NEW S, NEW f \in [S -> Nat], NEW x \in S, NEW g,
         g = [f EXCEPT ![x] = @ + 1]
  PROVE  g \in [S -> Nat] /\ g[x] = f[x] + 1 /\ \A y \in S \ {x} : g[y] = f[y]
  OBVIOUS

\* A delivery is over and its message has left; it is recorded or excused.
LEMMA MessageLeaves ==
  ASSUME IInv, NEW s \in Tasks, pc[s] = "send", NEW k, k = <<cur[s], text[s]>>,
         NEW rest \in Seq(Triggers), Done(s, rest),
         delivered' = [delivered EXCEPT ![cur[s]] = @ + 1],
         copies' = [copies EXCEPT ![k] = @ + 1],
         \/ /\ sent' = sent + 1 /\ seen' = seen \cup {k}
            /\ UNCHANGED excused
         \/ excused' = excused \cup {k} /\ UNCHANGED <<sent, seen>>,
         UNCHANGED <<state, used, lapsed, dueq, up, lives, total>>,
         UNCHANGED <<stack, lockq, inside, stuck, rate, allows, frozen, started>>
  PROVE  IInv'
<1>1. TypeOK /\ Tasked /\ Restartable /\ Claims /\ Gated /\ Budgeted /\ Repeats
  BY DEF IInv
<1> DEFINE t == cur[s]
<1>2. t \in Triggers /\ k \in Keys /\ Pending(s, k)
  BY <1>1 DEF Tasked, Keys, Pending
<1>3. /\ pc' \in [Tasks -> PCs] /\ todo' \in [Tasks -> Seq(Triggers)]
      /\ late' \subseteq Triggers
      /\ cur' \in [Tasks -> Triggers \cup {NoTrigger}]
      /\ text' \in [Tasks -> Texts \cup {NoText}]
      /\ pc'[s] \in {"idle", "loop"}
      /\ \A r \in Tasks \ {s} :
           pc'[r] = pc[r] /\ cur'[r] = cur[r] /\ text'[r] = text[r]
      /\ Tasked'
  BY <1>1, DoneFacts
<1>4. /\ copies' = [copies EXCEPT ![k] = @ + 1]
      /\ \/ sent' = sent + 1 /\ seen' = seen \cup {k} /\ excused' = excused
         \/ excused' = excused \cup {k} /\ sent' = sent /\ seen' = seen
      /\ delivered' = [delivered EXCEPT ![t] = @ + 1]
  OBVIOUS
<1>t. t = cur[s]
  OBVIOUS
<1> HIDE DEF t
<1>5. /\ delivered' \in [Triggers -> Nat] /\ delivered'[t] = delivered[t] + 1
      /\ \A u \in Triggers \ {t} : delivered'[u] = delivered[u]
  <2>1. delivered \in [Triggers -> Nat]
    BY <1>1 DEF TypeOK
  <2>2. delivered' = [delivered EXCEPT ![t] = @ + 1]
    BY <1>4
  <2> QED
    BY <1>2, <2>1, <2>2, CountOne
<1>6. /\ copies' \in [Keys -> Nat] /\ copies'[k] = copies[k] + 1
      /\ \A q \in Keys \ {k} : copies'[q] = copies[q]
  <2>1. copies \in [Keys -> Nat]
    BY <1>1 DEF TypeOK
  <2>2. copies' = [copies EXCEPT ![k] = @ + 1]
    BY <1>4
  <2> QED
    BY <1>2, <2>1, <2>2, CountOne
<1>7. TypeOK'
  <2>1. sent' \in Nat /\ seen' \subseteq Keys /\ excused' \subseteq Keys
    <3>1. sent \in Nat /\ seen \subseteq Keys /\ excused \subseteq Keys
      BY <1>1 DEF TypeOK
    <3>2. sent' = sent + 1 \/ sent' = sent
      BY <1>4
    <3> QED
      BY <1>2, <1>4, <3>1, <3>2
  <2> QED
    BY <1>1, <1>3, <1>5, <1>6, <2>1 DEF TypeOK, PCs
<1>8. Restartable'
  BY <1>1 DEF Restartable
<1>9. Claims'
  <2> SUFFICES ASSUME NEW u \in Triggers
               PROVE  /\ delivered'[u] + Cardinality(Outs(u)') <= started'[u]
                      /\ started'[u] + Cardinality(Gates(u)') <= used'[u]
                      /\ used'[u] <= MaxReentries[u]
    BY DEF Claims
  <2>1. /\ delivered[u] + Cardinality(Outs(u)) <= started[u]
        /\ started[u] + Cardinality(Gates(u)) <= used[u]
        /\ used[u] <= MaxReentries[u]
        /\ delivered[u] \in Nat /\ started[u] \in Nat
    BY <1>1 DEF Claims, TypeOK
  <2>2. Gates(u)' = Gates(u)
    BY <1>3 DEF Gates
  <2>3. CASE u = t
    <3>1. Outs(u)' = Outs(u) \ {s} /\ s \in Outs(u) /\ Outs(u) \subseteq Tasks
      BY <1>3, <1>t, <2>3 DEF Outs
    <3>2. IsFiniteSet(Outs(u)) /\ Cardinality(Outs(u)) \in Nat
      BY <3>1, CountFacts
    <3>3. Cardinality(Outs(u)') = Cardinality(Outs(u)) - 1
      BY <3>1, <3>2, FS_RemoveElement
    <3> QED
      BY <1>5, <2>1, <2>2, <2>3, <3>2, <3>3
  <2>4. CASE u # t
    <3>1. Outs(u)' = Outs(u)
      BY <1>3, <1>t, <2>4 DEF Outs
    <3> QED
      BY <1>5, <2>1, <2>2, <2>4, <3>1
  <2> QED
    BY <2>3, <2>4
<1>10. Gated'
  BY <1>1, <1>3, GatedKept
<1>11. Budgeted'
  BY <1>1, <1>3, BudgetedKept
<1>12. Repeats'
  <2> SUFFICES ASSUME NEW q \in Keys \ excused'
               PROVE  /\ copies'[q] <= 1
                      /\ copies'[q] > 0 => q \in seen'
                      /\ \A r \in Tasks : Pending(r, q)' => copies'[q] = 0
                      /\ \A p, r \in Tasks : Pending(p, q)' /\ Pending(r, q)' => p = r
    BY DEF Repeats
  <2>1. q \notin excused
    BY <1>4
  <2>2. /\ copies[q] <= 1
        /\ copies[q] > 0 => q \in seen
        /\ \A r \in Tasks : Pending(r, q) => copies[q] = 0
        /\ \A p, r \in Tasks : Pending(p, q) /\ Pending(r, q) => p = r
    BY <1>1, <2>1 DEF Repeats
  <2>3. ~Pending(s, q)' /\ \A r \in Tasks : Pending(r, q)' => Pending(r, q)
    BY <1>3 DEF Pending
  <2>4. CASE q = k
    <3>1. copies'[q] = 1 /\ q \in seen'
      <4>1. copies[k] = 0
        BY <1>2, <2>2, <2>4
      <4>2. copies'[k] = 1
        BY <1>6, <4>1
      <4>3. k \notin excused'
        BY <2>4
      <4>4. seen' = seen \cup {k}
        BY <1>4, <4>3
      <4> QED
        BY <2>4, <4>2, <4>4
    <3>2. \A r \in Tasks : ~Pending(r, q)'
      BY <1>2, <2>2, <2>3, <2>4
    <3> QED
      BY <3>1, <3>2
  <2>5. CASE q # k
    <3>1. copies'[q] = copies[q] /\ (q \in seen => q \in seen')
      BY <1>4, <1>6, <2>5
    <3> QED
      BY <2>2, <2>3, <3>1
  <2> QED
    BY <2>4, <2>5
<1> QED
  BY <1>3, <1>7, <1>8, <1>9, <1>10, <1>11, <1>12 DEF IInv

\* A human answers, or the tick is denied.
LEMMA AnsweredStep ==
  ASSUME IInv, NEW s \in Tasks, NEW yes \in BOOLEAN, Answered(s, yes)
  PROVE  IInv'
<1>1. TypeOK /\ Tasked /\ Restartable /\ Claims /\ Gated /\ Budgeted /\ Repeats
  BY DEF IInv
<1>2. /\ pc[s] = "ask"
      /\ UNCHANGED <<state, used, lapsed, dueq, up, lives, total>>
      /\ UNCHANGED <<stack, lockq, inside, stuck, sent, seen, rate>>
      /\ UNCHANGED <<started, delivered, copies, excused>>
  BY DEF Answered, rowVars, gateVars, history
<1>3. PICK c \in Target(cur[s]) :
        IF yes
        THEN /\ allows' = [allows EXCEPT ![c] = @ + 1]
             /\ frozen' = frozen \ {c}
             /\ pc' = [pc EXCEPT ![s] = "send"]
             /\ UNCHANGED <<todo, late, cur, text>>
        ELSE /\ frozen' = frozen \cup {c}
             /\ Done(s, todo[s])
             /\ UNCHANGED allows
  BY DEF Answered
<1>4. c \in Chats
  <2>1. cur[s] \in Triggers
    BY <1>1, <1>2 DEF Tasked
  <2> QED
    BY <1>3, <2>1, TargetFacts
<1>5. CASE yes
  <2>1. /\ allows' = [allows EXCEPT ![c] = @ + 1] /\ frozen' = frozen \ {c}
        /\ pc' = [pc EXCEPT ![s] = "send"] /\ UNCHANGED <<todo, late, cur, text>>
    BY <1>3, <1>5
  <2>2. allows' \in [Chats -> Nat] /\ frozen' \subseteq Chats
    BY <1>1, <1>4, <2>1 DEF TypeOK
  <2>3. pc'[s] = "send" /\ \A r \in Tasks \ {s} : pc'[r] = pc[r]
    BY <1>1, <2>1 DEF TypeOK
  <2>4. TypeOK'
    BY <1>1, <1>2, <2>1, <2>2 DEF TypeOK
  <2>5. Tasked' /\ Restartable'
    BY <1>1, <1>2, <2>1, <2>3 DEF Tasked, Restartable
  <2>6. Claims'
    <3>1. \A t \in Triggers : Gates(t)' = Gates(t) /\ Outs(t)' = Outs(t)
      BY <1>2, <2>1, <2>3 DEF Gates, Outs
    <3> QED
      BY <1>1, <1>2, <3>1 DEF Claims
  <2>7. Gated'
    BY <1>1, <1>2, <2>3, GatedKept
  <2>8. Budgeted'
    BY <1>1, <1>2, <2>3, BudgetedKept
  <2>9. Repeats'
    BY <1>1, <1>2, <2>1, <2>3, RepeatsKept
  <2> QED
    BY <2>4, <2>5, <2>6, <2>7, <2>8, <2>9 DEF IInv
<1>6. CASE ~yes
  <2>1. Done(s, todo[s]) /\ frozen' \subseteq Chats /\ allows' = allows
    BY <1>1, <1>3, <1>4, <1>6 DEF TypeOK
  <2>2. todo[s] \in Seq(Triggers)
    BY <1>1 DEF TypeOK
  <2> QED
    BY <1>2, <2>1, <2>2, DeliveryEnds
<1> QED
  BY <1>5, <1>6

\* A message is sent and recorded.
LEMMA SentStep ==
  ASSUME IInv, NEW s \in Tasks, Sent(s)
  PROVE  IInv'
<1>1. todo[s] \in Seq(Triggers)
  BY DEF IInv, TypeOK
<1>2. /\ pc[s] = "send" /\ Done(s, todo[s])
      /\ delivered' = [delivered EXCEPT ![cur[s]] = @ + 1]
      /\ copies' = [copies EXCEPT ![<<cur[s], text[s]>>] = @ + 1]
      /\ sent' = sent + 1 /\ seen' = seen \cup {<<cur[s], text[s]>>}
      /\ UNCHANGED excused
      /\ UNCHANGED <<state, used, lapsed, dueq, up, lives, total>>
      /\ UNCHANGED <<stack, lockq, inside, stuck, rate, allows, frozen, started>>
  BY DEF Sent, rowVars, gateVars
<1> DEFINE k == <<cur[s], text[s]>>
<1>3. /\ k = <<cur[s], text[s]>>
      /\ copies' = [copies EXCEPT ![k] = @ + 1] /\ seen' = seen \cup {k}
  BY <1>2
<1> HIDE DEF k
<1> QED
  BY <1>1, <1>2, <1>3, MessageLeaves

\* A delivery ends and nothing is recorded.
LEMMA UnrecordedStep ==
  ASSUME IInv, NEW s \in Tasks, NEW left \in BOOLEAN, pc[s] \in {"ask", "send"},
         left => pc[s] = "send", Unrecorded(s, left),
         NEW rest \in Seq(Triggers), Done(s, rest),
         UNCHANGED <<rowVars, up, lives, gateVars, total, sendVars, started>>
  PROVE  IInv'
<1>1. /\ UNCHANGED <<state, used, lapsed, dueq, up, lives, total>>
      /\ UNCHANGED <<stack, lockq, inside, stuck, rate, allows, frozen, started>>
      /\ UNCHANGED <<sent, seen>>
  BY DEF rowVars, gateVars, sendVars
<1>2. CASE left
  <2> DEFINE k == <<cur[s], text[s]>>
  <2>1. /\ pc[s] = "send" /\ k = <<cur[s], text[s]>>
        /\ delivered' = [delivered EXCEPT ![cur[s]] = @ + 1]
        /\ copies' = [copies EXCEPT ![k] = @ + 1]
        /\ excused' = excused \cup {k}
    BY <1>2 DEF Unrecorded
  <2> HIDE DEF k
  <2> QED
    BY <1>1, <2>1, MessageLeaves
<1>3. CASE ~left
  <2>1. UNCHANGED <<delivered, copies, excused>>
    BY <1>3 DEF Unrecorded
  <2>2. frozen' \subseteq Chats
    BY <1>1 DEF IInv, TypeOK
  <2> QED
    BY <1>1, <2>1, <2>2, DeliveryEnds
<1> QED
  BY <1>2, <1>3

\* A send fails, or a handler is cancelled while it delivers.
LEMMA DeliveryFailsStep ==
  ASSUME IInv, NEW s \in Tasks, NEW left \in BOOLEAN,
         SendFails(s, left) \/ CancelDelivery(s, left)
  PROVE  IInv'
<1>1. todo[s] \in Seq(Triggers) /\ <<>> \in Seq(Triggers)
  BY DEF IInv, TypeOK
<1>2. CASE SendFails(s, left)
  BY <1>1, <1>2, UnrecordedStep DEF SendFails
<1>3. CASE CancelDelivery(s, left)
  BY <1>1, <1>3, UnrecordedStep DEF CancelDelivery
<1> QED
  BY <1>2, <1>3


-----------------------------------------------------------------------------
(* Lifetimes and invariance                                                *)

\* The daemon stops: a message under way may have left, and no claim is lost.
LEMMA DownStep ==
  ASSUME IInv, Down
  PROVE  IInv'
<1>1. TypeOK /\ Claims
  BY DEF IInv
<1>2. /\ lives < Lifetimes /\ up' = FALSE
      /\ pc' = [s \in Tasks |-> "idle"]
      /\ todo' = [s \in Tasks |-> <<>>] /\ late' = {}
      /\ cur' = [s \in Tasks |-> NoTrigger]
      /\ text' = [s \in Tasks |-> NoText]
      /\ stack' = <<>> /\ lockq' = <<>> /\ inside' = Nobody /\ stuck' = FALSE
      /\ total' = 0 /\ sent' = 0 /\ seen' = {}
      /\ rate' = [c \in Chats |-> 0] /\ allows' = [c \in Chats |-> 0]
      /\ frozen' = {}
      /\ copies' = [k \in Keys |-> 0] /\ excused' = {}
      /\ UNCHANGED <<state, used, lapsed, dueq, lives, started>>
  BY DEF Down, rowVars
<1>3. PICK lost \in SUBSET {s \in Tasks : pc[s] = "send"} :
        delivered' = [t \in Triggers |->
                        delivered[t] + Cardinality({s \in lost : cur[s] = t})]
  BY DEF Down
<1>4. ASSUME NEW t \in Triggers
      PROVE  /\ delivered[t] + Cardinality({s \in lost : cur[s] = t}) \in Nat
             /\ delivered[t] + Cardinality({s \in lost : cur[s] = t}) <= started[t]
  <2> DEFINE L == {s \in lost : cur[s] = t}
  <2>1. L \subseteq Outs(t) /\ Outs(t) \subseteq Tasks
    BY <1>3 DEF Outs
  <2> HIDE DEF L
  <2>2. /\ Cardinality(L) \in Nat /\ Cardinality(Outs(t)) \in Nat
        /\ Cardinality(L) <= Cardinality(Outs(t))
    BY <2>1, CountFacts
  <2>3. /\ delivered[t] \in Nat /\ started[t] \in Nat
        /\ delivered[t] + Cardinality(Outs(t)) <= started[t]
    BY <1>1 DEF TypeOK, Claims
  <2>4. delivered[t] + Cardinality(L) \in Nat /\ delivered[t] + Cardinality(L) <= started[t]
    BY <2>2, <2>3
  <2> QED
    BY <2>4 DEF L
<1>5. /\ delivered' \in [Triggers -> Nat]
      /\ \A t \in Triggers : delivered'[t] \in Nat /\ delivered'[t] <= started[t]
  BY <1>3, <1>4
<1>6. TypeOK'
  <2>1. /\ <<>> \in Seq(Triggers) /\ <<>> \in Seq(Tasks)
        /\ <<>> \in Seq(Tasks \cup {Nobody})
    OBVIOUS
  <2> QED
    BY <1>1, <1>2, <1>5, <2>1 DEF TypeOK
<1>7. Tasked' /\ Restartable'
  BY <1>2 DEF Tasked, Restartable
<1>8. Claims'
  <2> SUFFICES ASSUME NEW t \in Triggers
               PROVE  /\ delivered'[t] + Cardinality(Outs(t)') <= started'[t]
                      /\ started'[t] + Cardinality(Gates(t)') <= used'[t]
                      /\ used'[t] <= MaxReentries[t]
    BY DEF Claims
  <2>1. Outs(t)' = {} /\ Gates(t)' = {}
    BY <1>2 DEF Outs, Gates
  <2>2. Cardinality(Outs(t)') = 0 /\ Cardinality(Gates(t)') = 0
    BY <2>1, FS_EmptySet
  <2>3. Gates(t) \subseteq Tasks
    BY DEF Gates
  <2>4. Cardinality(Gates(t)) \in Nat
    BY <2>3, CountFacts
  <2>5. /\ started[t] \in Nat /\ used[t] \in Nat
        /\ started[t] + Cardinality(Gates(t)) <= used[t]
        /\ used[t] <= MaxReentries[t]
    BY <1>1 DEF TypeOK, Claims
  <2>6. started[t] <= used[t]
    BY <2>4, <2>5
  <2> QED
    BY <1>2, <1>5, <2>2, <2>5, <2>6
<1>9. Gated'
  BY <1>2 DEF Gated, Locked, Stacked
<1>10. Budgeted'
  BY <1>2, ReentryAssumption DEF Budgeted
<1>11. Repeats'
  BY <1>2 DEF Repeats, Pending
<1> QED
  BY <1>6, <1>7, <1>8, <1>9, <1>10, <1>11 DEF IInv

\* The daemon starts again.
LEMMA UpStep ==
  ASSUME IInv, Up
  PROVE  IInv'
<1>1. TypeOK /\ Tasked /\ Restartable /\ Claims /\ Gated /\ Budgeted /\ Repeats
  BY DEF IInv
<1>2. /\ ~up /\ lives' = lives + 1 /\ up' = TRUE
      /\ UNCHANGED <<state, used, lapsed, dueq, pc, todo, late, cur, text>>
      /\ UNCHANGED <<stack, lockq, inside, stuck, total>>
      /\ UNCHANGED <<sent, seen, rate, allows, frozen>>
      /\ UNCHANGED <<started, delivered, copies, excused>>
  BY DEF Up, rowVars, gateVars, sendVars, history
<1>3. lives' \in 1 .. Lifetimes
  BY <1>1, <1>2, ReentryAssumption DEF Restartable, TypeOK
<1>4. TypeOK'
  BY <1>1, <1>2, <1>3 DEF TypeOK
<1>5. Tasked' /\ Restartable'
  BY <1>1, <1>2 DEF Tasked, Restartable
<1>6. Claims'
  BY <1>1, <1>2 DEF Claims, Gates, Outs
<1>7. Gated'
  BY <1>1, <1>2, GatedKept
<1>8. Budgeted'
  BY <1>1, <1>2, BudgetedKept
<1>9. Repeats'
  BY <1>1, <1>2, RepeatsKept
<1> QED
  BY <1>4, <1>5, <1>6, <1>7, <1>8, <1>9 DEF IInv

\* At the start every task is idle and nothing is claimed.
LEMMA InitIInv == Init => IInv
<1> SUFFICES ASSUME Init PROVE IInv
  OBVIOUS
<1> USE DEF Init
<1>1. TypeOK
  <2>1. /\ <<>> \in Seq(Triggers) /\ <<>> \in Seq(Tasks)
        /\ <<>> \in Seq(Tasks \cup {Nobody}) /\ <<>> \in Seq(TimeTriggers)
    OBVIOUS
  <2>2. lives \in 1 .. Lifetimes
    BY ReentryAssumption
  <2> QED
    BY <2>1, <2>2 DEF TypeOK
<1>2. Tasked /\ Restartable
  BY DEF Tasked, Restartable
<1>3. Claims
  <2> SUFFICES ASSUME NEW t \in Triggers
               PROVE  /\ delivered[t] + Cardinality(Outs(t)) <= started[t]
                      /\ started[t] + Cardinality(Gates(t)) <= used[t]
                      /\ used[t] <= MaxReentries[t]
    BY DEF Claims
  <2>1. Outs(t) = {} /\ Gates(t) = {}
    BY DEF Outs, Gates
  <2>2. Cardinality(Outs(t)) = 0 /\ Cardinality(Gates(t)) = 0
    BY <2>1, FS_EmptySet
  <2> QED
    BY <2>2, ReentryAssumption
<1>4. Gated
  BY DEF Gated, Locked, Stacked
<1>5. Budgeted
  BY ReentryAssumption DEF Budgeted
<1>6. Repeats
  BY DEF Repeats, Pending
<1> QED
  BY <1>1, <1>2, <1>3, <1>4, <1>5, <1>6 DEF IInv

\* Nothing happens.
LEMMA StutterStep ==
  ASSUME IInv, UNCHANGED vars
  PROVE  IInv'
<1>1. /\ UNCHANGED <<state, used, lapsed, dueq, up, lives, pc, todo, late, cur, text>>
      /\ UNCHANGED <<stack, lockq, inside, stuck, total>>
      /\ UNCHANGED <<sent, seen, rate, allows, frozen>>
      /\ UNCHANGED <<started, delivered, copies, excused>>
  BY DEF vars, rowVars, gateVars, sendVars, history
<1>2. TypeOK'
  BY <1>1 DEF IInv, TypeOK
<1> QED
  BY <1>1, <1>2, RowsStep

\* The invariant holds in every reachable state.
THEOREM Invariance == Spec => []IInv
<1>1. Init => IInv
  BY InitIInv
<1>2. IInv /\ [Next]_vars => IInv'
  <2> SUFFICES ASSUME IInv, [Next]_vars PROVE IInv'
    OBVIOUS
  <2>1. TypeOK /\ Ticker \in Tasks /\ Handlers \subseteq Tasks
    BY DEF IInv, Tasks
  <2>2. ASSUME Tick PROVE IInv'
    <3>1. ListDue \in Seq(Triggers)
      BY <2>1, ListFacts
    <3> QED
      BY <2>1, <2>2, <3>1, BeginStep DEF Tick
  <2>3. ASSUME World PROVE IInv'
    <3>1. ASSUME NEW t \in Triggers, Schedule(t) \/ ComeDue(t) \/ Lapse(t)
          PROVE  IInv'
      BY <3>1, StoreStep
    <3>2. ASSUME NEW s \in Handlers, NEW c \in Scopes, Inbound(s, c) PROVE IInv'
      <4>1. PICK q \in ListArmed(c) : Begin(s, q)
        BY <3>2 DEF Inbound
      <4>2. s \in Tasks /\ q \in Seq(Triggers)
        BY <2>1, <4>1, ListFacts
      <4> QED
        BY <4>1, <4>2, BeginStep
    <3>3. ASSUME NEW s \in Tasks, CancelAtGate(s) PROVE IInv'
      BY <3>3, CancelAtGateStep
    <3>4. ASSUME NEW s \in Tasks, NEW left \in BOOLEAN, CancelDelivery(s, left)
          PROVE  IInv'
      BY <3>4, DeliveryFailsStep
    <3>5. ASSUME NEW c \in Chats, HourPasses(c) PROVE IInv'
      BY <3>5, HourPassesStep
    <3> QED
      BY <2>3, <3>1, <3>2, <3>3, <3>4, <3>5 DEF World
  <2>4. ASSUME NEW s \in Tasks, Loop(s) PROVE IInv'
    BY <2>4, SkipStep, DispatchStep DEF Loop
  <2>5. ASSUME NEW s \in Tasks, Work(s) PROVE IInv'
    BY <2>5, EnterGateStep, RunRaisesStep, RunReturnsStep, SentStep,
       DeliveryFailsStep DEF Work
  <2>6. ASSUME NEW s \in Tasks, NEW yes \in BOOLEAN, Ask(s, yes) PROVE IInv'
    BY <2>6, AnsweredStep DEF Ask
  <2>7. CASE Down \/ Up
    BY <2>7, DownStep, UpStep
  <2>8. CASE UNCHANGED vars
    BY <2>8, StutterStep
  <2> QED
    BY <2>2, <2>3, <2>4, <2>5, <2>6, <2>7, <2>8 DEF Next
<1> QED
  BY <1>1, <1>2, PTL DEF Spec

\* Every variable keeps its type: only time triggers are listed as due, the
\* entries on the gate's stack are tasks or left behind by cancelled ones, and
\* only messages of a trigger are counted, seen and excused.
THEOREM TypeCorrect == Spec => []TypeOK
<1>1. IInv => TypeOK
  BY DEF IInv
<1> QED
  BY <1>1, Invariance, PTL

\* A claim in the store (fire()) starts at most one subagent and delivers at most
\* one message, and no trigger is claimed beyond max_reentries: across the tick
\* and the events that list it, cancellations, failed sends and restarts.
THEOREM AtMostOnce == Spec => []AtMostOncePerClaim
<1>1. IInv => AtMostOncePerClaim
  <2> SUFFICES ASSUME IInv, NEW t \in Triggers
               PROVE  /\ delivered[t] <= started[t] /\ started[t] <= used[t]
                      /\ used[t] <= MaxReentries[t]
    BY DEF AtMostOncePerClaim
  <2>1. Outs(t) \subseteq Tasks /\ Gates(t) \subseteq Tasks
    BY DEF Outs, Gates
  <2>2. Cardinality(Outs(t)) \in Nat /\ Cardinality(Gates(t)) \in Nat
    BY <2>1, CountFacts
  <2>3. delivered[t] \in Nat /\ started[t] \in Nat /\ used[t] \in Nat
    BY DEF IInv, TypeOK
  <2>4. /\ delivered[t] + Cardinality(Outs(t)) <= started[t]
        /\ started[t] + Cardinality(Gates(t)) <= used[t]
        /\ used[t] <= MaxReentries[t]
    BY DEF IInv, Claims
  <2>5. delivered[t] <= started[t] /\ started[t] <= used[t]
    BY <2>2, <2>3, <2>4
  <2> QED
    BY <2>4, <2>5
<1> QED
  BY <1>1, Invariance, PTL

\* No daemon dispatches more than global_budget, although _budget_ok() is asked
\* before the gate and _dispatched_total is counted after the window.
THEOREM BudgetIsKept == Spec => []BudgetKept
<1>1. IInv => BudgetKept
  BY DEF IInv, Budgeted, BudgetKept
<1> QED
  BY <1>1, Invariance, PTL

\* The same text of a trigger leaves twice in a lifetime only when the second was
\* decided on while the first was under way, or when a message left although
\* record_sent() was not reached.
THEOREM RepeatsOnlyUnseen == Spec => []RepeatOnlyUnseen
<1>1. IInv => RepeatOnlyUnseen
  <2> SUFFICES ASSUME IInv, NEW k \in Keys, copies[k] > 1, k \notin excused
               PROVE  FALSE
    BY DEF RepeatOnlyUnseen
  <2>1. copies[k] \in Nat /\ copies[k] <= 1
    BY DEF IInv, TypeOK, Repeats
  <2> QED
    BY <2>1
<1> QED
  BY <1>1, Invariance, PTL
=============================================================================
