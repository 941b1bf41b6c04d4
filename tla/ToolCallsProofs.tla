-------------------------- MODULE ToolCallsProofs --------------------------
(***************************************************************************)
(* Proofs about ToolCalls, for any number of turns, calls, slots, permits  *)
(* and rounds: types (no semaphore is released too often), that a turn     *)
(* loses a slot only by twins, and that a window is alone unless a turn    *)
(* goes on without a slot.                                                 *)
(*                                                                         *)
(* A turn with twins holds any number of slots, so that the slots cannot   *)
(* be counted by the turns that hold one.  SlotsAccounted numbers them and *)
(* gives each an owner: the semaphore, the window or a turn.               *)
(***************************************************************************)
EXTENDS ToolCalls, FiniteSetTheorems, SequenceTheorems, TLAPS

Ats == {"none", "queue", "run", "ask", "back", "rest"}
SlotItems == (Turns \X (Calls \cup {First})) \cup {Window}
PermitItems == Turns \cup {Window}

\* Nobody waits twice.
Distinct(q) == \A i, j \in DOMAIN q : q[i] = q[j] => i = j

\* Calls are made by turns that run, and delegations are calls.
Places ==
  /\ \A t \in Turns, c \in Calls : at[t][c] # "none" => pc[t] = "run"
  /\ \A t \in Turns, c \in Calls : <<t, c>> \in child => at[t][c] # "none"
  /\ \A t \in Turns, c \in Calls : at[t][c] = "queue" => <<t, c>> \in child

\* Who is in a queue waits for it.
Queues ==
  /\ Distinct(slotq) /\ Distinct(permitq)
  /\ Window \in ToSet(slotq) => win = "drain"
  /\ \A t \in Turns : <<t, First>> \in ToSet(slotq) => pc[t] = "wait"
  /\ \A t \in Turns, c \in Calls : <<t, c>> \in ToSet(slotq) => at[t][c] = "back"
  /\ Window \in ToSet(permitq) => win \in {"permit", "nestwait"}
  /\ \A t \in Turns : t \in ToSet(permitq) => \E c \in Calls : at[t][c] = "queue"

\* What the re-entry has drained.
Windowed ==
  /\ win = "idle" => drained = 0
  /\ win = "drain" => drained < N
  /\ InWindow => drained = N

\* The owners of slots.
Free == <<0, Window>>
Drain == <<1, Window>>
Of(t) == <<2, t>>
Owners == {Free, Drain} \cup {Of(t) : t \in Turns}
Owned(f, x) == {i \in 1 .. N : f[i] = x}

\* f says who has which of the N slots.
Accounts(f) ==
  /\ Cardinality(Owned(f, Free)) = slots
  /\ Cardinality(Owned(f, Drain)) = drained
  /\ \A t \in Turns : Cardinality(Owned(f, Of(t))) = taken[t]

SlotsAccounted == \E f \in [1 .. N -> Owners] : Accounts(f)

\* The delegations that have a permit, and the permits of the re-entry.
Holding == {p \in child : at[p[1]][p[2]] # "queue"}
WinPermits ==
  IF win = "nest" THEN 2 ELSE IF win \in {"run", "nestwait", "rest"} THEN 1 ELSE 0

PermitsAccounted == permits + Cardinality(Holding) + WinPermits = M

\* A marked holder has a slot.
Backed == \A t \in Turns : held[t] => taken[t] >= 1

\* A turn that runs without a slot has a call that gave it back and waits, or a
\* deadline ended that wait.
Slotless ==
  \A t \in Turns : pc[t] = "run" =>
    held[t] \/ t \in late \/ \E c \in Calls : at[t][c] \in {"ask", "back"}

Core ==
  /\ TypeOK /\ Places /\ Queues /\ Windowed
  /\ SlotsAccounted /\ PermitsAccounted
  /\ Backed /\ LeakOnlyByTwins /\ Slotless

\* Who waits for a slot has none.  A turn that has not started holds none, a
\* call that waits is in the queue, and unless two calls of its turn waited at
\* once it is the only one and the holder stays unmarked until it is served.
Lone ==
  /\ \A t \in Turns : pc[t] \in {"idle", "wait"} => ~held[t]
  /\ \A t \in Turns, c \in Calls : at[t][c] = "back" => <<t, c>> \in ToSet(slotq)
  /\ \A t \in Turns \ twins, c \in Calls : at[t][c] = "back" => ~held[t]
  /\ \A t \in Turns \ twins, c, d \in Calls :
       at[t][c] = "back" /\ at[t][d] = "back" => c = d

IInv == Core /\ Lone

-----------------------------------------------------------------------------
(* Queues                                                                  *)

\* A new waiter at the end.
LEMMA AppendFacts ==
  ASSUME NEW S, NEW q \in Seq(S), NEW x \in S, Distinct(q), x \notin ToSet(q)
  PROVE  /\ Append(q, x) \in Seq(S)
         /\ Distinct(Append(q, x))
         /\ ToSet(Append(q, x)) = ToSet(q) \cup {x}
  BY DEF Distinct, ToSet

\* The waiter at the front is served.
LEMMA TailFacts ==
  ASSUME NEW S, NEW q \in Seq(S), q # <<>>, Distinct(q)
  PROVE  /\ Tail(q) \in Seq(S) /\ Head(q) \in S
         /\ Distinct(Tail(q))
         /\ ToSet(Tail(q)) = ToSet(q) \ {Head(q)}
         /\ Head(q) \in ToSet(q)
<1> DEFINE r == Tail(q)
<1>1. /\ r \in Seq(S) /\ Head(q) \in S /\ Len(r) = Len(q) - 1
      /\ \A i \in 1 .. Len(r) : r[i] = q[i + 1]
  BY HeadTailProperties
<1>2. /\ Len(q) \in Nat /\ Len(q) >= 1 /\ Head(q) = q[1]
      /\ DOMAIN q = 1 .. Len(q) /\ DOMAIN r = 1 .. Len(q) - 1
  BY <1>1
<1> HIDE DEF r
<1>3. Distinct(r)
  <2> SUFFICES ASSUME NEW i \in DOMAIN r, NEW j \in DOMAIN r, r[i] = r[j]
               PROVE  i = j
    BY DEF Distinct
  <2>1. i + 1 \in DOMAIN q /\ j + 1 \in DOMAIN q /\ q[i + 1] = q[j + 1]
    BY <1>1, <1>2
  <2>2. i + 1 = j + 1
    BY <2>1 DEF Distinct
  <2> QED
    BY <1>2, <2>2
<1>4. \A i \in DOMAIN r : r[i] \in ToSet(q) /\ r[i] # q[1]
  BY <1>1, <1>2 DEF Distinct, ToSet
<1>5. \A i \in DOMAIN q : q[i] # q[1] => i - 1 \in DOMAIN r /\ r[i - 1] = q[i]
  BY <1>1, <1>2
<1>6. ToSet(r) = ToSet(q) \ {q[1]}
  BY <1>4, <1>5 DEF ToSet
<1>7. q[1] \in ToSet(q)
  BY <1>2 DEF ToSet
<1> QED
  BY <1>1, <1>2, <1>3, <1>6, <1>7 DEF r

\* RemoveAt drops one position and keeps the others in order.
LEMMA RemoveAtShape ==
  ASSUME NEW S, NEW q \in Seq(S), NEW i \in DOMAIN q
  PROVE  /\ RemoveAt(q, i) \in Seq(S)
         /\ Len(RemoveAt(q, i)) = Len(q) - 1
         /\ DOMAIN RemoveAt(q, i) = 1..(Len(q) - 1)
         /\ \A j \in 1..(Len(q) - 1) :
              RemoveAt(q, i)[j] = IF j < i THEN q[j] ELSE q[j + 1]
<1> DEFINE r == RemoveAt(q, i)
<1> DEFINE a == SubSeq(q, 1, i - 1)
           b == SubSeq(q, i + 1, Len(q))
<1>1. i \in 1..Len(q) /\ Len(q) \in Nat /\ \A j \in 1..Len(q) : q[j] \in S
  OBVIOUS
<1>2. /\ a \in Seq(S) /\ Len(a) = i - 1
      /\ \A j \in 1..(i - 1) : a[j] = q[j]
  BY <1>1, SubSeqProperties
<1>3. /\ b \in Seq(S) /\ Len(b) = Len(q) - i
      /\ \A j \in 1..(Len(q) - i) : b[j] = q[i + j]
  BY <1>1, SubSeqProperties
<1>4. r = a \o b
  BY DEF RemoveAt
<1> HIDE DEF a, b, r
<1>5. /\ r \in Seq(S) /\ Len(r) = Len(a) + Len(b)
      /\ \A j \in 1..(Len(a) + Len(b)) :
           r[j] = IF j <= Len(a) THEN a[j] ELSE b[j - Len(a)]
  <2>1. /\ a \o b \in Seq(S) /\ Len(a \o b) = Len(a) + Len(b)
        /\ \A j \in 1..(Len(a) + Len(b)) :
             (a \o b)[j] = IF j <= Len(a) THEN a[j] ELSE b[j - Len(a)]
    BY <1>2, <1>3, ConcatProperties, Zenon
  <2> QED BY <2>1, <1>4, Zenon
<1>6. Len(r) = Len(q) - 1 /\ DOMAIN r = 1..(Len(q) - 1)
  BY <1>1, <1>2, <1>3, <1>5
<1>7. ASSUME NEW j \in 1..(Len(q) - 1)
      PROVE  r[j] = IF j < i THEN q[j] ELSE q[j + 1]
  <2>1. r[j] = IF j <= i - 1 THEN a[j] ELSE b[j - (i - 1)]
    <3>1. Len(a) = i - 1
      BY <1>2
    <3>2. j \in 1..(Len(a) + Len(b))
      BY <1>1, <1>2, <1>3
    <3>3. r[j] = IF j <= Len(a) THEN a[j] ELSE b[j - Len(a)]
      BY <3>2, <1>5, Zenon
    <3> QED BY <3>1, <3>3, Zenon
  <2>2. CASE j < i
    BY <2>1, <2>2, <1>1, <1>2
  <2>3. CASE j >= i
    <3>1. j - (i - 1) \in 1..(Len(q) - i) /\ i + (j - (i - 1)) = j + 1
      BY <2>3, <1>1
    <3> QED BY <3>1, <2>1, <2>3, <1>1, <1>3, SMTT(30)
  <2> QED BY <2>2, <2>3, <1>1
<1> QED BY <1>5, <1>6, <1>7 DEF r

\* Removing one position from a queue without repetitions removes its waiter.
LEMMA RemoveAtFacts ==
  ASSUME NEW S, NEW q \in Seq(S), NEW i \in DOMAIN q, Distinct(q)
  PROVE  /\ RemoveAt(q, i) \in Seq(S)
         /\ Distinct(RemoveAt(q, i))
         /\ ToSet(RemoveAt(q, i)) = ToSet(q) \ {q[i]}
<1> DEFINE r == RemoveAt(q, i)
<1>1. /\ r \in Seq(S)
      /\ Len(r) = Len(q) - 1
      /\ DOMAIN r = 1..(Len(q) - 1)
      /\ \A j \in 1..(Len(q) - 1) : r[j] = IF j < i THEN q[j] ELSE q[j + 1]
  BY RemoveAtShape
<1>2. Distinct(r)
  BY <1>1, SMTT(30) DEF Distinct
<1>3. \A j \in DOMAIN r : r[j] \in ToSet(q) \ {q[i]}
  BY <1>1 DEF Distinct, ToSet
<1>4. ASSUME NEW x \in ToSet(q) \ {q[i]} PROVE x \in ToSet(r)
  <2>1. PICK j \in DOMAIN q : q[j] = x
    BY DEF ToSet
  <2>2. CASE j < i
    BY <1>1, <2>1, <2>2 DEF ToSet
  <2>3. CASE j > i
    <3>1. j - 1 \in DOMAIN r /\ r[j - 1] = x
      BY <1>1, <2>1, <2>3
    <3> QED BY <3>1 DEF ToSet
  <2> QED BY <2>1, <2>2, <2>3
<1> HIDE DEF r
<1> QED BY <1>1, <1>2, <1>3, <1>4 DEF ToSet, r

\* A waiter gives up.
LEMMA WithoutFacts ==
  ASSUME NEW S, NEW q \in Seq(S), NEW x, Distinct(q)
  PROVE  /\ Without(q, x) \in Seq(S)
         /\ Distinct(Without(q, x))
         /\ ToSet(Without(q, x)) = ToSet(q) \ {x}
<1>1. CASE x \in ToSet(q)
  <2> DEFINE i == CHOOSE i \in DOMAIN q : q[i] = x
  <2>1. i \in DOMAIN q /\ q[i] = x
    BY <1>1 DEF ToSet
  <2>2. Without(q, x) = RemoveAt(q, i)
    BY <1>1 DEF Without
  <2> HIDE DEF i
  <2> QED
    BY <2>1, <2>2, RemoveAtFacts
<1>2. CASE x \notin ToSet(q)
  BY <1>2 DEF Without
<1> QED
  BY <1>1, <1>2

-----------------------------------------------------------------------------
(* Slots and their owners                                                  *)

\* Different owners are different.
LEMMA OwnersDiffer ==
  /\ Free # Drain /\ Free \in Owners /\ Drain \in Owners
  /\ \A t \in Turns : Of(t) # Free /\ Of(t) # Drain /\ Of(t) \in Owners
  /\ \A t, u \in Turns : t # u => Of(t) # Of(u)
  BY DEF Free, Drain, Of, Owners

\* There are N slots.
LEMMA OwnedFacts ==
  ASSUME NEW f, NEW x
  PROVE  /\ IsFiniteSet(Owned(f, x)) /\ Cardinality(Owned(f, x)) \in 0 .. N
         /\ Cardinality(Owned(f, x)) = 0 <=> Owned(f, x) = {}
         /\ Cardinality(Owned(f, x)) = N <=> Owned(f, x) = 1 .. N
<1>1. N \in Nat /\ IsFiniteSet(1 .. N) /\ Cardinality(1 .. N) = N
  <2>1. N \in Nat /\ N \in Int /\ 1 \in Int /\ ~(1 > N) /\ N - 1 + 1 = N
    BY ToolCallsAssumption
  <2>2. /\ IsFiniteSet(1 .. N)
        /\ Cardinality(1 .. N) = IF 1 > N THEN 0 ELSE N - 1 + 1
    BY <2>1, FS_Interval, Zenon
  <2> QED
    BY <2>1, <2>2, Zenon
<1>2. Owned(f, x) \in SUBSET (1 .. N)
  BY DEF Owned
<1>3. /\ IsFiniteSet(Owned(f, x)) /\ Cardinality(Owned(f, x)) <= N
      /\ N = Cardinality(Owned(f, x)) => 1 .. N = Owned(f, x)
  BY <1>1, <1>2, FS_Subset
<1>4. Cardinality(Owned(f, x)) \in Nat
  BY <1>3, FS_CardinalityType
<1>5. Cardinality(Owned(f, x)) = 0 <=> Owned(f, x) = {}
  BY <1>3, FS_EmptySet
<1>6. Owned(f, x) = 1 .. N => Cardinality(Owned(f, x)) = N
  BY <1>1
<1> QED
  BY <1>1, <1>3, <1>4, <1>5, <1>6

\* A slot of x becomes one of y.
LEMMA MoveOne ==
  ASSUME NEW f \in [1 .. N -> Owners], NEW x \in Owners, NEW y \in Owners,
         x # y, Cardinality(Owned(f, x)) > 0
  PROVE  \E g \in [1 .. N -> Owners] :
           /\ Cardinality(Owned(g, x)) = Cardinality(Owned(f, x)) - 1
           /\ Cardinality(Owned(g, y)) = Cardinality(Owned(f, y)) + 1
           /\ \A z \in Owners \ {x, y} : Owned(g, z) = Owned(f, z)
<1>1. Owned(f, x) # {}
  BY OwnedFacts
<1>2. PICK i \in 1 .. N : f[i] = x
  BY <1>1 DEF Owned
<1> DEFINE g == [f EXCEPT ![i] = y]
<1>3. g \in [1 .. N -> Owners]
  OBVIOUS
<1>4. /\ Owned(g, x) = Owned(f, x) \ {i} /\ i \in Owned(f, x)
      /\ Owned(g, y) = Owned(f, y) \cup {i} /\ i \notin Owned(f, y)
      /\ \A z \in Owners \ {x, y} : Owned(g, z) = Owned(f, z)
  BY <1>2 DEF Owned
<1>5. IsFiniteSet(Owned(f, x)) /\ IsFiniteSet(Owned(f, y))
  BY OwnedFacts
<1>6. Cardinality(Owned(f, x) \ {i}) = Cardinality(Owned(f, x)) - 1
  BY <1>4, <1>5, FS_RemoveElement
<1>7. Cardinality(Owned(f, y) \cup {i}) = Cardinality(Owned(f, y)) + 1
  BY <1>4, <1>5, FS_AddElement
<1> HIDE DEF g
<1> QED
  BY <1>3, <1>4, <1>6, <1>7

\* The slots of x become slots of y.
LEMMA MoveAll ==
  ASSUME NEW f \in [1 .. N -> Owners], NEW x \in Owners, NEW y \in Owners, x # y
  PROVE  \E g \in [1 .. N -> Owners] :
           /\ Cardinality(Owned(g, x)) = 0
           /\ Cardinality(Owned(g, y))
                = Cardinality(Owned(f, x)) + Cardinality(Owned(f, y))
           /\ \A z \in Owners \ {x, y} : Owned(g, z) = Owned(f, z)
<1> DEFINE g == [i \in 1 .. N |-> IF f[i] = x THEN y ELSE f[i]]
<1>1. g \in [1 .. N -> Owners]
  OBVIOUS
<1>2. /\ Owned(g, x) = {}
      /\ Owned(g, y) = Owned(f, x) \cup Owned(f, y)
      /\ Owned(f, x) \cap Owned(f, y) = {}
      /\ \A z \in Owners \ {x, y} : Owned(g, z) = Owned(f, z)
  BY DEF Owned
<1>3. /\ IsFiniteSet(Owned(f, x)) /\ Cardinality(Owned(f, x)) \in Nat
      /\ IsFiniteSet(Owned(f, y)) /\ Cardinality(Owned(f, y)) \in Nat
  BY OwnedFacts
<1>4. Cardinality(Owned(f, x) \cup Owned(f, y))
        = Cardinality(Owned(f, x)) + Cardinality(Owned(f, y))
            - Cardinality(Owned(f, x) \cap Owned(f, y))
  BY <1>3, FS_Union
<1>5. Cardinality(Owned(f, x) \cup Owned(f, y))
        = Cardinality(Owned(f, x)) + Cardinality(Owned(f, y))
  <2>1. Cardinality(Owned(f, x) \cap Owned(f, y)) = 0
    BY <1>2, FS_EmptySet, Zenon
  <2> QED
    BY <1>3, <1>4, <2>1
<1> HIDE DEF g
<1> QED
  BY <1>1, <1>2, <1>5, FS_EmptySet

\* What is accounted is within bounds, and all of it is drained in a window.
LEMMA AccountBounds ==
  ASSUME SlotsAccounted
  PROVE  /\ slots \in 0 .. N /\ drained \in 0 .. N
         /\ \A t \in Turns : taken[t] \in 0 .. N
         /\ drained = N => slots = 0 /\ \A t \in Turns : taken[t] = 0
<1>1. PICK f \in [1 .. N -> Owners] : Accounts(f)
  BY DEF SlotsAccounted
<1>2. ASSUME drained = N, NEW x \in Owners \ {Drain}
      PROVE  Cardinality(Owned(f, x)) = 0
  <2>1. Owned(f, Drain) = 1 .. N
    BY <1>1, <1>2, OwnedFacts DEF Accounts
  <2>2. Owned(f, x) = {}
    BY <2>1 DEF Owned
  <2> QED
    BY <2>2, OwnedFacts
<1> QED
  BY <1>1, <1>2, OwnedFacts, OwnersDiffer DEF Accounts

\* The same of the next state.
LEMMA AccountBoundsNext ==
  ASSUME SlotsAccounted'
  PROVE  /\ slots' \in 0 .. N /\ drained' \in 0 .. N
         /\ \A t \in Turns : taken'[t] \in 0 .. N
<1>1. PICK f \in [1 .. N -> Owners] : Accounts(f)'
  BY DEF SlotsAccounted
<1> QED
  BY <1>1, OwnedFacts DEF Accounts

\* A turn takes a slot.
LEMMA TakeAccounts ==
  ASSUME TypeOK, SlotsAccounted, NEW t \in Turns, slots > 0, slots' = slots - 1,
         taken' = [taken EXCEPT ![t] = @ + 1], UNCHANGED drained
  PROVE  SlotsAccounted'
<1>1. PICK f \in [1 .. N -> Owners] : Accounts(f)
  BY DEF SlotsAccounted
<1>2. PICK g \in [1 .. N -> Owners] :
        /\ Cardinality(Owned(g, Free)) = Cardinality(Owned(f, Free)) - 1
        /\ Cardinality(Owned(g, Of(t))) = Cardinality(Owned(f, Of(t))) + 1
        /\ \A z \in Owners \ {Free, Of(t)} : Owned(g, z) = Owned(f, z)
  BY <1>1, MoveOne, OwnersDiffer DEF Accounts
<1>3. Accounts(g)'
  BY <1>1, <1>2, OwnersDiffer DEF Accounts, TypeOK
<1> QED
  BY <1>3 DEF SlotsAccounted

\* A turn gives a slot back.
LEMMA GiveAccounts ==
  ASSUME TypeOK, SlotsAccounted, NEW t \in Turns, taken[t] >= 1, slots' = slots + 1,
         taken' = [taken EXCEPT ![t] = @ - 1], UNCHANGED drained
  PROVE  SlotsAccounted'
<1>1. PICK f \in [1 .. N -> Owners] : Accounts(f)
  BY DEF SlotsAccounted
<1>2. Cardinality(Owned(f, Of(t))) > 0
  BY <1>1, ToolCallsAssumption DEF Accounts, TypeOK
<1>3. PICK g \in [1 .. N -> Owners] :
        /\ Cardinality(Owned(g, Of(t))) = Cardinality(Owned(f, Of(t))) - 1
        /\ Cardinality(Owned(g, Free)) = Cardinality(Owned(f, Free)) + 1
        /\ \A z \in Owners \ {Of(t), Free} : Owned(g, z) = Owned(f, z)
  BY <1>2, MoveOne, OwnersDiffer
<1>4. Accounts(g)'
  BY <1>1, <1>3, OwnersDiffer DEF Accounts, TypeOK
<1> QED
  BY <1>4 DEF SlotsAccounted

\* The window takes one slot.
LEMMA DrainOneAccounts ==
  ASSUME SlotsAccounted, slots > 0, slots' = slots - 1, drained' = drained + 1,
         UNCHANGED taken
  PROVE  SlotsAccounted'
<1>1. PICK f \in [1 .. N -> Owners] : Accounts(f)
  BY DEF SlotsAccounted
<1>2. PICK g \in [1 .. N -> Owners] :
        /\ Cardinality(Owned(g, Free)) = Cardinality(Owned(f, Free)) - 1
        /\ Cardinality(Owned(g, Drain)) = Cardinality(Owned(f, Drain)) + 1
        /\ \A z \in Owners \ {Free, Drain} : Owned(g, z) = Owned(f, z)
  BY <1>1, MoveOne, OwnersDiffer DEF Accounts
<1>3. Accounts(g)'
  BY <1>1, <1>2, OwnersDiffer DEF Accounts
<1> QED
  BY <1>3 DEF SlotsAccounted

\* The window takes all that is free, or gives all back.
LEMMA WindowAccounts ==
  ASSUME SlotsAccounted, UNCHANGED taken,
         \/ slots' = 0 /\ drained' = slots + drained
         \/ drained' = 0 /\ slots' = slots + drained
  PROVE  SlotsAccounted'
<1>1. PICK f \in [1 .. N -> Owners] : Accounts(f)
  BY DEF SlotsAccounted
<1>2. slots \in Nat /\ drained \in Nat
  BY AccountBounds
<1>3. CASE slots' = 0 /\ drained' = slots + drained
  <2>1. PICK g \in [1 .. N -> Owners] :
          /\ Cardinality(Owned(g, Free)) = 0
          /\ Cardinality(Owned(g, Drain))
               = Cardinality(Owned(f, Free)) + Cardinality(Owned(f, Drain))
          /\ \A z \in Owners \ {Free, Drain} : Owned(g, z) = Owned(f, z)
    BY MoveAll, OwnersDiffer
  <2>2. Accounts(g)'
    BY <1>1, <1>3, <2>1, OwnersDiffer DEF Accounts
  <2> QED
    BY <2>2 DEF SlotsAccounted
<1>4. CASE drained' = 0 /\ slots' = slots + drained
  <2>1. PICK g \in [1 .. N -> Owners] :
          /\ Cardinality(Owned(g, Drain)) = 0
          /\ Cardinality(Owned(g, Free))
               = Cardinality(Owned(f, Drain)) + Cardinality(Owned(f, Free))
          /\ \A z \in Owners \ {Drain, Free} : Owned(g, z) = Owned(f, z)
    BY MoveAll, OwnersDiffer
  <2>2. Accounts(g)'
    BY <1>1, <1>2, <1>4, <2>1, OwnersDiffer DEF Accounts
  <2> QED
    BY <2>2 DEF SlotsAccounted
<1> QED
  BY <1>3, <1>4

\* No slot changes hands.
LEMMA SameAccounts ==
  ASSUME SlotsAccounted, UNCHANGED <<slots, drained, taken>>
  PROVE  SlotsAccounted'
  BY DEF SlotsAccounted, Accounts

-----------------------------------------------------------------------------
(* Calls, holders and permits                                              *)

\* One call moves.
LEMMA PutFacts ==
  ASSUME TypeOK, NEW t \in Turns, NEW c \in Calls, NEW w \in Ats, Put(t, c, w)
  PROVE  /\ at' \in [Turns -> [Calls -> Ats]]
         /\ at'[t][c] = w
         /\ \A u \in Turns, d \in Calls : u # t \/ d # c => at'[u][d] = at[u][d]
<1>1. at \in [Turns -> [Calls -> Ats]] /\ at' = [at EXCEPT ![t][c] = w]
  BY DEF TypeOK, Ats, Put
<1> QED
  BY <1>1

\* The delegations with a permit are the same.
LEMMA HoldingSame ==
  ASSUME TypeOK, child' \subseteq Turns \X Calls,
         \A u \in Turns, d \in Calls :
           (<<u, d>> \in child' /\ at'[u][d] # "queue")
             <=> (<<u, d>> \in child /\ at[u][d] # "queue")
  PROVE  Holding' = Holding
  BY DEF Holding, TypeOK

\* A turn takes a slot: _SlotHolder.held and the history.
LEMMA TakeFacts ==
  ASSUME TypeOK, SlotsAccounted, Backed, LeakOnlyByTwins, NEW t \in Turns,
         Take(t), slots > 0, slots' = slots - 1, UNCHANGED <<drained, twins>>,
         t \in twins \/ ~held[t]
  PROVE  /\ SlotsAccounted' /\ Backed' /\ LeakOnlyByTwins'
         /\ slots' \in 0 .. N /\ taken' \in [Turns -> 0 .. N]
         /\ held' \in [Turns -> BOOLEAN]
         /\ held'[t] /\ \A u \in Turns \ {t} : held'[u] = held[u]
<1>1. /\ held' = [held EXCEPT ![t] = TRUE]
      /\ taken' = [taken EXCEPT ![t] = @ + 1]
  BY DEF Take
<1>2. SlotsAccounted'
  BY <1>1, TakeAccounts
<1>3. slots' \in 0 .. N /\ \A u \in Turns : taken'[u] \in 0 .. N
  BY <1>2, AccountBoundsNext
<1>4. taken' \in [Turns -> 0 .. N]
  <2>1. taken' = [u \in Turns |-> taken'[u]]
    BY <1>1 DEF TypeOK
  <2> QED
    BY <1>3, <2>1
<1>5. held' \in [Turns -> BOOLEAN]
  BY <1>1 DEF TypeOK
<1>6. held'[t] /\ \A u \in Turns \ {t} : held'[u] = held[u]
  BY <1>1 DEF TypeOK
<1>7. taken'[t] = taken[t] + 1 /\ \A u \in Turns \ {t} : taken'[u] = taken[u]
  BY <1>1 DEF TypeOK
<1>8. taken[t] \in Nat
  BY ToolCallsAssumption DEF TypeOK
<1>9. Backed'
  BY <1>6, <1>7, <1>8 DEF Backed
<1>10. LeakOnlyByTwins'
  <2>1. t \notin twins => taken'[t] = 1
    BY <1>7, <1>8 DEF LeakOnlyByTwins
  <2> QED
    BY <1>6, <1>7, <2>1 DEF LeakOnlyByTwins
<1> QED
  BY <1>2, <1>3, <1>4, <1>5, <1>6, <1>9, <1>10

\* A turn gives its slot back, if it is marked.
LEMMA ReleaseFacts ==
  ASSUME TypeOK, SlotsAccounted, Backed, LeakOnlyByTwins, NEW t \in Turns,
         Release(t), UNCHANGED <<drained, twins>>
  PROVE  /\ SlotsAccounted' /\ Backed' /\ LeakOnlyByTwins'
         /\ slots' \in 0 .. N /\ taken' \in [Turns -> 0 .. N]
         /\ held' \in [Turns -> BOOLEAN]
         /\ \A u \in Turns \ {t} : held'[u] = held[u]
<1>1. CASE held[t]
  <2>1. /\ slots' = slots + 1
        /\ held' = [held EXCEPT ![t] = FALSE]
        /\ taken' = [taken EXCEPT ![t] = @ - 1]
    BY <1>1 DEF Release
  <2>2. taken[t] >= 1 /\ taken[t] \in Nat
    BY <1>1, ToolCallsAssumption DEF TypeOK, Backed
  <2>3. SlotsAccounted'
    BY <2>1, <2>2, GiveAccounts
  <2>4. slots' \in 0 .. N /\ \A u \in Turns : taken'[u] \in 0 .. N
    BY <2>3, AccountBoundsNext
  <2>5. taken' \in [Turns -> 0 .. N]
    <3>1. taken' = [u \in Turns |-> taken'[u]]
      BY <2>1 DEF TypeOK
    <3> QED
      BY <2>4, <3>1
  <2>6. /\ held' \in [Turns -> BOOLEAN] /\ ~held'[t]
        /\ \A u \in Turns \ {t} : held'[u] = held[u]
    BY <2>1 DEF TypeOK
  <2>7. taken'[t] = taken[t] - 1 /\ \A u \in Turns \ {t} : taken'[u] = taken[u]
    BY <2>1 DEF TypeOK
  <2>8. Backed'
    BY <2>6, <2>7 DEF Backed
  <2>9. LeakOnlyByTwins'
    BY <1>1, <2>6, <2>7 DEF LeakOnlyByTwins
  <2> QED
    BY <2>3, <2>4, <2>5, <2>6, <2>8, <2>9
<1>2. CASE ~held[t]
  <2>1. UNCHANGED <<slots, held, taken>>
    BY <1>2 DEF Release
  <2>2. SlotsAccounted'
    BY <2>1, SameAccounts
  <2> QED
    BY <2>1, <2>2 DEF TypeOK, Backed, LeakOnlyByTwins
<1> QED
  BY <1>1, <1>2

\* No slot and no mark changes.
LEMMA SameFacts ==
  ASSUME SlotsAccounted, Backed, LeakOnlyByTwins,
         UNCHANGED <<slots, held, taken, drained, twins>>
  PROVE  SlotsAccounted' /\ Backed' /\ LeakOnlyByTwins'
  BY SameAccounts DEF Backed, LeakOnlyByTwins

\* The delegations can be counted.
LEMMA HoldingFinite ==
  ASSUME TypeOK
  PROVE  IsFiniteSet(Holding) /\ Cardinality(Holding) \in Nat
<1>1. IsFiniteSet(Turns \X Calls) /\ Holding \in SUBSET (Turns \X Calls)
  BY ToolCallsAssumption, FS_Product DEF Holding, TypeOK
<1> QED
  BY <1>1, FS_Subset, FS_CardinalityType

\* The number of permits that are out.
LEMMA WinPermitsNat == WinPermits \in Nat /\ WinPermits' \in Nat
  BY DEF WinPermits

\* Permits move between the semaphore and the re-entry only.
LEMMA HoldSame ==
  ASSUME TypeOK, PermitsAccounted, Holding' = Holding,
         \/ permits' = permits /\ WinPermits' = WinPermits
         \/ permits > 0 /\ permits' = permits - 1 /\ WinPermits' = WinPermits + 1
         \/ permits' = permits + 1 /\ WinPermits' = WinPermits - 1
  PROVE  PermitsAccounted' /\ permits' \in 0 .. M
<1>1. /\ Cardinality(Holding) \in Nat /\ permits \in Nat /\ M \in Nat
      /\ WinPermits \in Nat /\ WinPermits' \in Nat
  BY HoldingFinite, WinPermitsNat, ToolCallsAssumption DEF TypeOK
<1>2. permits + Cardinality(Holding) + WinPermits = M
  BY DEF PermitsAccounted
<1>3. permits' + Cardinality(Holding) + WinPermits' = M /\ permits' \in 0 .. M
  BY <1>1, <1>2
<1>4. PermitsAccounted'
  BY <1>3, Zenon DEF PermitsAccounted
<1> QED
  BY <1>3, <1>4

\* A delegation gets a permit.
LEMMA HoldMore ==
  ASSUME TypeOK, PermitsAccounted, NEW p, p \notin Holding,
         Holding' = Holding \cup {p}, permits > 0, permits' = permits - 1,
         UNCHANGED win
  PROVE  PermitsAccounted' /\ permits' \in 0 .. M
<1>1. /\ IsFiniteSet(Holding) /\ Cardinality(Holding) \in Nat
      /\ permits \in 0 .. M /\ M \in Nat
  BY HoldingFinite, ToolCallsAssumption DEF TypeOK
<1>2. Cardinality(Holding') = Cardinality(Holding) + 1
  BY <1>1, FS_AddElement
<1>3. WinPermits' = WinPermits
  BY DEF WinPermits
<1> QED
  BY <1>1, <1>2, <1>3, WinPermitsNat DEF PermitsAccounted

\* A delegation gives its permit back.
LEMMA HoldLess ==
  ASSUME TypeOK, PermitsAccounted, NEW p, p \in Holding,
         Holding' = Holding \ {p}, permits' = permits + 1, UNCHANGED win
  PROVE  PermitsAccounted' /\ permits' \in 0 .. M
<1>1. /\ IsFiniteSet(Holding) /\ Cardinality(Holding) \in Nat
      /\ permits \in Nat /\ M \in Nat
  BY HoldingFinite, ToolCallsAssumption DEF TypeOK
<1>2. Cardinality(Holding') = Cardinality(Holding) - 1 /\ Cardinality(Holding) >= 1
  BY <1>1, FS_RemoveElement, FS_EmptySet
<1>3. WinPermits' = WinPermits
  BY DEF WinPermits
<1> QED
  BY <1>1, <1>2, <1>3, WinPermitsNat DEF PermitsAccounted

-----------------------------------------------------------------------------
(* Steps                                                                   *)

\* A turn starts: it has a slot at once, or is the last waiter.
LEMMA StartStep ==
  ASSUME Core, Lone, NEW t \in Turns, Start(t)
  PROVE  Core'
<1>1. /\ TypeOK /\ Places /\ Queues /\ Windowed /\ SlotsAccounted
      /\ PermitsAccounted /\ Backed /\ LeakOnlyByTwins /\ Slotless
  BY DEF Core
<1>2. /\ pc[t] = "idle"
      /\ UNCHANGED <<at, child, rounds, permits, permitq, win, drained, twins, late>>
      /\ ~held[t]
  BY DEF Start, callVars, winVars, history, Lone
<1>3. PermitsAccounted'
  BY <1>1, <1>2 DEF PermitsAccounted, Holding, WinPermits
<1>4. Windowed'
  BY <1>1, <1>2 DEF Windowed, InWindow
<1>5. CASE SlotAtOnce
  <2>1. /\ Take(t) /\ slots > 0 /\ slots' = slots - 1 /\ slotq' = slotq
        /\ pc' = [pc EXCEPT ![t] = "run"]
    BY <1>5 DEF Start, SlotAtOnce
  <2>2. /\ SlotsAccounted' /\ Backed' /\ LeakOnlyByTwins'
        /\ slots' \in 0 .. N /\ taken' \in [Turns -> 0 .. N]
        /\ held' \in [Turns -> BOOLEAN]
        /\ held'[t] /\ \A u \in Turns \ {t} : held'[u] = held[u]
    BY <1>1, <1>2, <2>1, TakeFacts
  <2>3. TypeOK'
    BY <1>1, <1>2, <2>1, <2>2 DEF TypeOK
  <2>4. Places'
    BY <1>1, <1>2, <2>1 DEF Places, TypeOK
  <2>5. Queues'
    BY <1>1, <1>2, <2>1 DEF Queues, TypeOK
  <2>6. Slotless'
    BY <1>1, <1>2, <2>1, <2>2 DEF Slotless, TypeOK
  <2> QED
    BY <1>3, <1>4, <2>2, <2>3, <2>4, <2>5, <2>6 DEF Core
<1>6. CASE ~SlotAtOnce
  <2>1. /\ slotq' = Append(slotq, <<t, First>>)
        /\ pc' = [pc EXCEPT ![t] = "wait"]
        /\ UNCHANGED <<slots, held, taken>>
    BY <1>6 DEF Start
  <2>2. SlotsAccounted' /\ Backed' /\ LeakOnlyByTwins'
    BY <1>1, <1>2, <2>1, SameFacts
  <2>3. <<t, First>> \in SlotItems /\ <<t, First>> \notin ToSet(slotq)
    BY <1>1, <1>2 DEF SlotItems, Queues
  <2>4. /\ slotq' \in Seq(SlotItems) /\ Distinct(slotq')
        /\ ToSet(slotq') = ToSet(slotq) \cup {<<t, First>>}
    <3> DEFINE x == <<t, First>>
    <3>1. slotq \in Seq(SlotItems) /\ Distinct(slotq)
      BY <1>1 DEF TypeOK, SlotItems, Queues
    <3>2. slotq' = Append(slotq, x) /\ x \in SlotItems /\ x \notin ToSet(slotq)
      BY <2>1, <2>3
    <3> HIDE DEF x
    <3>3. /\ slotq' \in Seq(SlotItems) /\ Distinct(slotq')
          /\ ToSet(slotq') = ToSet(slotq) \cup {x}
      BY <3>1, <3>2, AppendFacts
    <3> QED
      BY <3>3 DEF x
  <2>5. TypeOK'
    BY <1>1, <1>2, <2>1, <2>4 DEF TypeOK, SlotItems
  <2>6. Places'
    BY <1>1, <1>2, <2>1 DEF Places, TypeOK
  <2>7. Queues'
    <3>1. Window # <<t, First>> /\ First \notin Calls
      BY ToolCallsAssumption
    <3> QED
      BY <1>1, <1>2, <2>1, <2>4, <3>1 DEF Queues, TypeOK
  <2>8. Slotless'
    BY <1>1, <1>2, <2>1 DEF Slotless, TypeOK
  <2> QED
    BY <1>3, <1>4, <2>2, <2>5, <2>6, <2>7, <2>8 DEF Core
<1> QED
  BY <1>5, <1>6

\* A turn ends.
LEMMA FinishStep ==
  ASSUME Core, NEW t \in Turns, Finish(t)
  PROVE  Core'
<1>1. /\ TypeOK /\ Places /\ Queues /\ Windowed /\ SlotsAccounted
      /\ PermitsAccounted /\ Backed /\ LeakOnlyByTwins /\ Slotless
  BY DEF Core
<1>2. /\ pc[t] = "run" /\ Quiet(t) /\ Release(t) /\ pc' = [pc EXCEPT ![t] = "done"]
      /\ UNCHANGED <<at, child, rounds, slotq, permits, permitq, win, drained>>
      /\ UNCHANGED <<twins, late>>
  BY DEF Finish, callVars, winVars, history
<1>3. PermitsAccounted'
  BY <1>1, <1>2 DEF PermitsAccounted, Holding, WinPermits
<1>4. Windowed'
  BY <1>1, <1>2 DEF Windowed, InWindow
<1>5. /\ SlotsAccounted' /\ Backed' /\ LeakOnlyByTwins'
      /\ slots' \in 0 .. N /\ taken' \in [Turns -> 0 .. N]
      /\ held' \in [Turns -> BOOLEAN]
      /\ \A u \in Turns \ {t} : held'[u] = held[u]
  BY <1>1, <1>2, ReleaseFacts
<1>6. TypeOK'
  BY <1>1, <1>2, <1>5 DEF TypeOK
<1>7. Places'
  BY <1>1, <1>2 DEF Places, TypeOK, Quiet
<1>8. Queues'
  BY <1>1, <1>2 DEF Queues, TypeOK
<1>9. Slotless'
  BY <1>1, <1>2, <1>5 DEF Slotless, TypeOK
<1> QED
  BY <1>3, <1>4, <1>5, <1>6, <1>7, <1>8, <1>9 DEF Core

\* A turn makes calls.
LEMMA CallToolsStep ==
  ASSUME Core, NEW t \in Turns, NEW K \in SUBSET Calls, CallTools(t, K)
  PROVE  Core'
<1>1. /\ TypeOK /\ Places /\ Queues /\ Windowed /\ SlotsAccounted
      /\ PermitsAccounted /\ Backed /\ LeakOnlyByTwins /\ Slotless
  BY DEF Core
<1>2. /\ pc[t] = "run" /\ Quiet(t) /\ rounds[t] < Rounds
      /\ rounds' = [rounds EXCEPT ![t] = @ + 1]
      /\ at' = [at EXCEPT ![t] = [c \in Calls |-> IF c \in K THEN "run" ELSE "none"]]
      /\ UNCHANGED <<pc, child, held, slots, slotq, permits, permitq, win, drained>>
      /\ UNCHANGED <<taken, twins, late>>
  BY DEF CallTools, semVars, winVars, history
<1>3. /\ at' \in [Turns -> [Calls -> Ats]]
      /\ \A c \in Calls : at'[t][c] \in {"run", "none"} /\ at[t][c] = "none"
      /\ \A u \in Turns \ {t} : at'[u] = at[u]
  BY <1>1, <1>2 DEF TypeOK, Ats, Quiet
<1>4. Holding' = Holding
  BY <1>1, <1>2, <1>3 DEF Holding, TypeOK, Places
<1>5. PermitsAccounted'
  <2>1. permits' = permits /\ WinPermits' = WinPermits
    BY <1>2 DEF WinPermits
  <2> QED
    BY <1>1, <1>4, <2>1, HoldSame
<1>6. Windowed'
  BY <1>1, <1>2 DEF Windowed, InWindow
<1>7. SlotsAccounted' /\ Backed' /\ LeakOnlyByTwins'
  BY <1>1, <1>2, SameFacts
<1>8. TypeOK'
  <2>1. rounds' \in [Turns -> 0 .. Rounds]
    BY <1>1, <1>2, ToolCallsAssumption DEF TypeOK
  <2> QED
    BY <1>1, <1>2, <1>3, <2>1 DEF TypeOK, Ats
<1>9. Places'
  BY <1>1, <1>2, <1>3 DEF Places, TypeOK
<1>10. Queues'
  BY <1>1, <1>2, <1>3 DEF Queues, TypeOK
<1>11. Slotless'
  BY <1>1, <1>2, <1>3 DEF Slotless, TypeOK
<1> QED
  BY <1>5, <1>6, <1>7, <1>8, <1>9, <1>10, <1>11 DEF Core

\* A turn delegates: its subagent has a permit at once, or is the last waiter.
LEMMA DelegateStep ==
  ASSUME Core, NEW t \in Turns, NEW c \in Calls, Delegate(t, c)
  PROVE  Core'
<1>1. /\ TypeOK /\ Places /\ Queues /\ Windowed /\ SlotsAccounted
      /\ PermitsAccounted /\ Backed /\ LeakOnlyByTwins /\ Slotless
  BY DEF Core
<1>2. /\ pc[t] = "run" /\ Quiet(t) /\ rounds[t] < Rounds
      /\ rounds' = [rounds EXCEPT ![t] = @ + 1]
      /\ child' = child \cup {<<t, c>>}
      /\ UNCHANGED <<pc, held, slots, slotq, win, drained, taken, twins, late>>
  BY DEF Delegate, winVars, history
<1>3. rounds' \in [Turns -> 0 .. Rounds]
  BY <1>1, <1>2, ToolCallsAssumption DEF TypeOK
<1>4. Windowed'
  BY <1>1, <1>2 DEF Windowed, InWindow
<1>5. SlotsAccounted' /\ Backed' /\ LeakOnlyByTwins'
  BY <1>1, <1>2, SameFacts
<1>6. <<t, c>> \notin child /\ \A d \in Calls : at[t][d] = "none"
  BY <1>1, <1>2 DEF Places, Quiet
<1>7. CASE PermitAtOnce
  <2>1. /\ permits > 0 /\ permits' = permits - 1 /\ permitq' = permitq
        /\ at' = [at EXCEPT ![t][c] = "run"]
    BY <1>7 DEF Delegate, PermitAtOnce, Put
  <2>2. Holding' = Holding \cup {<<t, c>>} /\ <<t, c>> \notin Holding
    BY <1>1, <1>2, <1>6, <2>1 DEF Holding, TypeOK
  <2>3. PermitsAccounted' /\ permits' \in 0 .. M
    BY <1>1, <1>2, <2>1, <2>2, HoldMore
  <2>4. TypeOK'
    BY <1>1, <1>2, <1>3, <2>1, <2>3 DEF TypeOK
  <2>5. Places'
    BY <1>1, <1>2, <2>1 DEF Places, TypeOK
  <2>6. Queues'
    BY <1>1, <1>2, <1>6, <2>1 DEF Queues, TypeOK
  <2>7. Slotless'
    BY <1>1, <1>2, <1>6, <2>1 DEF Slotless, TypeOK
  <2> QED
    BY <1>4, <1>5, <2>3, <2>4, <2>5, <2>6, <2>7 DEF Core
<1>8. CASE ~PermitAtOnce
  <2>1. /\ permitq' = Append(permitq, t) /\ permits' = permits
        /\ at' = [at EXCEPT ![t][c] = "queue"]
    BY <1>8 DEF Delegate, Put
  <2>2. Holding' = Holding
    <3>1. child' \subseteq Turns \X Calls
      BY <1>1, <1>2 DEF TypeOK
    <3>2. \A u \in Turns, d \in Calls :
            (<<u, d>> \in child' /\ at'[u][d] # "queue")
              <=> (<<u, d>> \in child /\ at[u][d] # "queue")
      BY <1>1, <1>2, <1>6, <2>1 DEF TypeOK
    <3> QED
      BY <1>1, <3>1, <3>2, HoldingSame
  <2>3. PermitsAccounted'
    <3>1. permits' = permits /\ WinPermits' = WinPermits
      BY <1>2, <2>1 DEF WinPermits
    <3> QED
      BY <1>1, <2>2, <3>1, HoldSame
  <2>4. t \in PermitItems /\ t \notin ToSet(permitq)
    BY <1>1, <1>2 DEF PermitItems, Queues, Quiet
  <2>5. /\ permitq' \in Seq(PermitItems) /\ Distinct(permitq')
        /\ ToSet(permitq') = ToSet(permitq) \cup {t}
    <3>1. permitq \in Seq(PermitItems) /\ Distinct(permitq)
      BY <1>1 DEF TypeOK, PermitItems, Queues
    <3> QED
      BY <2>1, <2>4, <3>1, AppendFacts
  <2>6. TypeOK'
    BY <1>1, <1>2, <1>3, <2>1, <2>5 DEF TypeOK, PermitItems
  <2>7. Places'
    BY <1>1, <1>2, <2>1 DEF Places, TypeOK
  <2>8. Queues'
    <3>1. Window # t
      BY ToolCallsAssumption
    <3> QED
      BY <1>1, <1>2, <1>6, <2>1, <2>5, <3>1 DEF Queues, TypeOK
  <2>9. Slotless'
    BY <1>1, <1>2, <1>6, <2>1 DEF Slotless, TypeOK
  <2> QED
    BY <1>4, <1>5, <2>3, <2>6, <2>7, <2>8, <2>9 DEF Core
<1> QED
  BY <1>7, <1>8

\* A call returns; a subagent gives its permit back.
LEMMA ReturnStep ==
  ASSUME Core, NEW t \in Turns, NEW c \in Calls, Return(t, c)
  PROVE  Core'
<1>1. /\ TypeOK /\ Places /\ Queues /\ Windowed /\ SlotsAccounted
      /\ PermitsAccounted /\ Backed /\ LeakOnlyByTwins /\ Slotless
  BY DEF Core
<1>2. /\ at[t][c] \in {"run", "rest"}
      /\ at' = [at EXCEPT ![t][c] = "none"]
      /\ child' = child \ {<<t, c>>}
      /\ permits' = IF <<t, c>> \in child THEN permits + 1 ELSE permits
      /\ UNCHANGED <<pc, rounds, held, slots, slotq, permitq, win, drained, taken>>
      /\ UNCHANGED <<twins, late>>
  BY DEF Return, Leave, Put, winVars, history
<1>3. PermitsAccounted' /\ permits' \in 0 .. M
  <2>1. CASE <<t, c>> \in child
    <3>1. Holding' = Holding \ {<<t, c>>} /\ <<t, c>> \in Holding
      BY <1>1, <1>2, <2>1 DEF Holding, TypeOK
    <3> QED
      BY <1>1, <1>2, <2>1, <3>1, HoldLess
  <2>2. CASE <<t, c>> \notin child
    <3>1. Holding' = Holding
      <4>1. child' \subseteq Turns \X Calls
        BY <1>1, <1>2 DEF TypeOK
      <4>2. \A u \in Turns, d \in Calls :
              (<<u, d>> \in child' /\ at'[u][d] # "queue")
                <=> (<<u, d>> \in child /\ at[u][d] # "queue")
        BY <1>1, <1>2, <2>2 DEF TypeOK
      <4> QED
        BY <1>1, <4>1, <4>2, HoldingSame
    <3>2. permits' = permits /\ WinPermits' = WinPermits
      BY <1>2, <2>2 DEF WinPermits
    <3> QED
      BY <1>1, <3>1, <3>2, HoldSame
  <2> QED
    BY <2>1, <2>2
<1>4. Windowed'
  BY <1>1, <1>2 DEF Windowed, InWindow
<1>5. SlotsAccounted' /\ Backed' /\ LeakOnlyByTwins'
  BY <1>1, <1>2, SameFacts
<1>6. TypeOK'
  BY <1>1, <1>2, <1>3 DEF TypeOK
<1>7. Places'
  BY <1>1, <1>2 DEF Places, TypeOK
<1>8. Queues'
  BY <1>1, <1>2 DEF Queues, TypeOK
<1>9. Slotless'
  BY <1>1, <1>2 DEF Slotless, TypeOK
<1> QED
  BY <1>3, <1>4, <1>5, <1>6, <1>7, <1>8, <1>9 DEF Core

\* A call asks and the slot is handed back.
LEMMA PromptStep ==
  ASSUME Core, NEW t \in Turns, NEW c \in Calls, Prompt(t, c)
  PROVE  Core'
<1>1. /\ TypeOK /\ Places /\ Queues /\ Windowed /\ SlotsAccounted
      /\ PermitsAccounted /\ Backed /\ LeakOnlyByTwins /\ Slotless
  BY DEF Core
<1>2. /\ at[t][c] = "run" /\ at' = [at EXCEPT ![t][c] = "ask"] /\ Release(t)
      /\ UNCHANGED <<pc, child, rounds, slotq, permits, permitq, win, drained>>
      /\ UNCHANGED <<twins, late>>
  BY DEF Prompt, Put, winVars, history
<1>3. PermitsAccounted'
  <2>1. Holding' = Holding
    BY <1>1, <1>2 DEF Holding, TypeOK
  <2>2. permits' = permits /\ WinPermits' = WinPermits
    BY <1>2 DEF WinPermits
  <2> QED
    BY <1>1, <2>1, <2>2, HoldSame
<1>4. Windowed'
  BY <1>1, <1>2 DEF Windowed, InWindow
<1>5. /\ SlotsAccounted' /\ Backed' /\ LeakOnlyByTwins'
      /\ slots' \in 0 .. N /\ taken' \in [Turns -> 0 .. N]
      /\ held' \in [Turns -> BOOLEAN]
      /\ \A u \in Turns \ {t} : held'[u] = held[u]
  BY <1>1, <1>2, ReleaseFacts
<1>6. TypeOK'
  BY <1>1, <1>2, <1>5 DEF TypeOK
<1>7. Places'
  BY <1>1, <1>2 DEF Places, TypeOK
<1>8. Queues'
  BY <1>1, <1>2 DEF Queues, TypeOK
<1>9. Slotless'
  BY <1>1, <1>2, <1>5 DEF Slotless, TypeOK
<1> QED
  BY <1>3, <1>4, <1>5, <1>6, <1>7, <1>8, <1>9 DEF Core

\* A human answers: the turn has a slot, gets one at once, or the call is the
\* last waiter.
LEMMA AnswerStep ==
  ASSUME Core, NEW t \in Turns, NEW c \in Calls, Answer(t, c)
  PROVE  Core'
<1>1. /\ TypeOK /\ Places /\ Queues /\ Windowed /\ SlotsAccounted
      /\ PermitsAccounted /\ Backed /\ LeakOnlyByTwins /\ Slotless
  BY DEF Core
<1>2. /\ at[t][c] = "ask"
      /\ UNCHANGED <<pc, child, rounds, permits, permitq, win, drained, late>>
  BY DEF Answer, winVars
<1>3. Windowed'
  BY <1>1, <1>2 DEF Windowed, InWindow
<1>4. ASSUME NEW w \in {"rest", "back"}, at' = [at EXCEPT ![t][c] = w]
      PROVE  PermitsAccounted' /\ Places'
  <2>1. Holding' = Holding
    BY <1>1, <1>2, <1>4 DEF Holding, TypeOK
  <2>2. permits' = permits /\ WinPermits' = WinPermits
    BY <1>2 DEF WinPermits
  <2>3. PermitsAccounted'
    BY <1>1, <2>1, <2>2, HoldSame
  <2>4. Places'
    BY <1>1, <1>2, <1>4 DEF Places, TypeOK
  <2> QED
    BY <2>3, <2>4
<1>5. CASE held[t]
  <2>1. /\ at' = [at EXCEPT ![t][c] = "rest"]
        /\ UNCHANGED <<slots, slotq, held, taken, twins>>
    BY <1>5 DEF Answer, Put
  <2>2. PermitsAccounted' /\ Places'
    BY <1>4, <2>1
  <2>3. SlotsAccounted' /\ Backed' /\ LeakOnlyByTwins'
    BY <1>1, <1>2, <2>1, SameFacts
  <2>4. TypeOK'
    BY <1>1, <1>2, <2>1 DEF TypeOK
  <2>5. Queues'
    BY <1>1, <1>2, <2>1 DEF Queues, TypeOK
  <2>6. Slotless'
    BY <1>1, <1>2, <1>5, <2>1 DEF Slotless, TypeOK
  <2> QED
    BY <1>3, <2>2, <2>3, <2>4, <2>5, <2>6 DEF Core
<1>6. CASE ~held[t] /\ SlotAtOnce
  <2>1. /\ at' = [at EXCEPT ![t][c] = "rest"]
        /\ Take(t) /\ slots > 0 /\ slots' = slots - 1 /\ UNCHANGED <<slotq, twins>>
    BY <1>6 DEF Answer, Reacquire, Put, SlotAtOnce
  <2>2. PermitsAccounted' /\ Places'
    BY <1>4, <2>1
  <2>3. /\ SlotsAccounted' /\ Backed' /\ LeakOnlyByTwins'
        /\ slots' \in 0 .. N /\ taken' \in [Turns -> 0 .. N]
        /\ held' \in [Turns -> BOOLEAN]
        /\ held'[t] /\ \A u \in Turns \ {t} : held'[u] = held[u]
    BY <1>1, <1>2, <1>6, <2>1, TakeFacts
  <2>4. TypeOK'
    BY <1>1, <1>2, <2>1, <2>3 DEF TypeOK
  <2>5. Queues'
    BY <1>1, <1>2, <2>1 DEF Queues, TypeOK
  <2>6. Slotless'
    BY <1>1, <1>2, <2>1, <2>3 DEF Slotless, TypeOK
  <2> QED
    BY <1>3, <2>2, <2>3, <2>4, <2>5, <2>6 DEF Core
<1>7. CASE ~held[t] /\ ~SlotAtOnce
  <2>1. /\ at' = [at EXCEPT ![t][c] = "back"]
        /\ slotq' = Append(slotq, <<t, c>>)
        /\ twins \subseteq twins' /\ twins' \subseteq Turns
        /\ UNCHANGED <<slots, held, taken>>
    BY <1>1, <1>7 DEF Answer, Reacquire, Put, TypeOK
  <2>2. PermitsAccounted' /\ Places'
    BY <1>4, <2>1
  <2>3. SlotsAccounted' /\ Backed' /\ LeakOnlyByTwins'
    BY <1>1, <1>2, <2>1, SameAccounts DEF Backed, LeakOnlyByTwins
  <2>4. <<t, c>> \in SlotItems /\ <<t, c>> \notin ToSet(slotq)
    BY <1>1, <1>2 DEF SlotItems, Queues
  <2>5. /\ slotq' \in Seq(SlotItems) /\ Distinct(slotq')
        /\ ToSet(slotq') = ToSet(slotq) \cup {<<t, c>>}
    <3> DEFINE x == <<t, c>>
    <3>1. slotq \in Seq(SlotItems) /\ Distinct(slotq)
      BY <1>1 DEF TypeOK, SlotItems, Queues
    <3>2. slotq' = Append(slotq, x) /\ x \in SlotItems /\ x \notin ToSet(slotq)
      BY <2>1, <2>4
    <3> HIDE DEF x
    <3>3. /\ slotq' \in Seq(SlotItems) /\ Distinct(slotq')
          /\ ToSet(slotq') = ToSet(slotq) \cup {x}
      BY <3>1, <3>2, AppendFacts
    <3> QED
      BY <3>3 DEF x
  <2>6. TypeOK'
    BY <1>1, <1>2, <2>1, <2>5 DEF TypeOK, SlotItems
  <2>7. Queues'
    <3>1. Window # <<t, c>> /\ First # c
      BY ToolCallsAssumption
    <3>2. \A u \in Turns, d \in Calls :
            <<u, d>> \in ToSet(slotq') => at'[u][d] = "back"
      BY <1>1, <1>2, <2>1, <2>5 DEF Queues, TypeOK
    <3>3. \A u \in Turns :
            u \in ToSet(permitq') => \E d \in Calls : at'[u][d] = "queue"
      BY <1>1, <1>2, <2>1 DEF Queues, TypeOK
    <3> QED
      BY <1>1, <1>2, <2>5, <3>1, <3>2, <3>3 DEF Queues
  <2>8. Slotless'
    BY <1>1, <1>2, <2>1 DEF Slotless, TypeOK
  <2> QED
    BY <1>3, <2>2, <2>3, <2>6, <2>7, <2>8 DEF Core
<1> QED
  BY <1>5, <1>6, <1>7

\* The deadline of a call that waits passes.
LEMMA TimeoutStep ==
  ASSUME Core, NEW t \in Turns, NEW c \in Calls, Timeout(t, c)
  PROVE  Core'
<1>1. /\ TypeOK /\ Places /\ Queues /\ Windowed /\ SlotsAccounted
      /\ PermitsAccounted /\ Backed /\ LeakOnlyByTwins /\ Slotless
  BY DEF Core
<1>2. /\ at[t][c] \in {"queue", "back"}
      /\ permitq' = Without(permitq, t) /\ slotq' = Without(slotq, <<t, c>>)
      /\ at' = [at EXCEPT ![t][c] = "none"]
      /\ child' = child \ {<<t, c>>}
      /\ permits' = IF at[t][c] = "back" /\ <<t, c>> \in child
                    THEN permits + 1 ELSE permits
      /\ late' = IF at[t][c] = "back" THEN late \cup {t} ELSE late
      /\ UNCHANGED <<pc, rounds, held, slots, win, drained, taken, twins>>
  BY DEF Timeout, Leave, Put, winVars
<1>3. PermitsAccounted' /\ permits' \in 0 .. M
  <2>1. CASE at[t][c] = "back" /\ <<t, c>> \in child
    <3>1. Holding' = Holding \ {<<t, c>>} /\ <<t, c>> \in Holding
      BY <1>1, <1>2, <2>1 DEF Holding, TypeOK
    <3> QED
      BY <1>1, <1>2, <2>1, <3>1, HoldLess
  <2>2. CASE ~(at[t][c] = "back" /\ <<t, c>> \in child)
    <3>1. Holding' = Holding
      <4>1. child' \subseteq Turns \X Calls
        BY <1>1, <1>2 DEF TypeOK
      <4>2. \A u \in Turns, d \in Calls :
              (<<u, d>> \in child' /\ at'[u][d] # "queue")
                <=> (<<u, d>> \in child /\ at[u][d] # "queue")
        BY <1>1, <1>2, <2>2 DEF TypeOK
      <4> QED
        BY <1>1, <4>1, <4>2, HoldingSame
    <3>2. permits' = permits /\ WinPermits' = WinPermits
      BY <1>2, <2>2 DEF WinPermits
    <3> QED
      BY <1>1, <3>1, <3>2, HoldSame
  <2> QED
    BY <2>1, <2>2
<1>4. Windowed'
  BY <1>1, <1>2 DEF Windowed, InWindow
<1>5. SlotsAccounted' /\ Backed' /\ LeakOnlyByTwins'
  BY <1>1, <1>2, SameFacts
<1>6. /\ permitq' \in Seq(PermitItems) /\ Distinct(permitq')
      /\ ToSet(permitq') = ToSet(permitq) \ {t}
      /\ slotq' \in Seq(SlotItems) /\ Distinct(slotq')
      /\ ToSet(slotq') = ToSet(slotq) \ {<<t, c>>}
  <2>1. /\ permitq \in Seq(PermitItems) /\ Distinct(permitq)
        /\ slotq \in Seq(SlotItems) /\ Distinct(slotq)
    BY <1>1 DEF TypeOK, PermitItems, SlotItems, Queues
  <2> QED
    BY <1>2, <2>1, WithoutFacts
<1>7. TypeOK'
  BY <1>1, <1>2, <1>3, <1>6 DEF TypeOK, PermitItems, SlotItems
<1>8. Places'
  BY <1>1, <1>2 DEF Places, TypeOK
<1>9. Queues'
  <2>1. \A u \in Turns, d \in Calls :
          <<u, d>> \in ToSet(slotq') => at'[u][d] = "back"
    BY <1>1, <1>2, <1>6 DEF Queues, TypeOK
  <2>2. \A u \in Turns :
          u \in ToSet(permitq') => \E d \in Calls : at'[u][d] = "queue"
    BY <1>1, <1>2, <1>6 DEF Queues, TypeOK
  <2> QED
    BY <1>1, <1>2, <1>6, <2>1, <2>2 DEF Queues
<1>10. Slotless'
  BY <1>1, <1>2 DEF Slotless, TypeOK
<1> QED
  BY <1>3, <1>4, <1>5, <1>7, <1>8, <1>9, <1>10 DEF Core

\* The re-entry has drained the slots and asks for a permit.
LEMMA EnterWindowFacts ==
  ASSUME TypeOK, Queues, PermitsAccounted, EnterWindow, win \in {"idle", "drain"},
         UNCHANGED <<at, child>>
  PROVE  /\ PermitsAccounted' /\ permits' \in 0 .. M
         /\ permitq' \in Seq(PermitItems) /\ Distinct(permitq')
         /\ ToSet(permitq') \subseteq ToSet(permitq) \cup {Window}
         /\ win' \in {"run", "permit"}
         /\ Window \in ToSet(permitq') => win' = "permit"
<1>1. permitq \in Seq(PermitItems) /\ Distinct(permitq) /\ Window \notin ToSet(permitq)
  BY DEF TypeOK, PermitItems, Queues
<1>2. Holding' = Holding
  BY DEF Holding
<1>3. CASE PermitAtOnce
  <2>1. win' = "run" /\ permits > 0 /\ permits' = permits - 1 /\ permitq' = permitq
    BY <1>3 DEF EnterWindow, PermitAtOnce
  <2>2. WinPermits' = WinPermits + 1
    BY <2>1 DEF WinPermits
  <2>3. PermitsAccounted' /\ permits' \in 0 .. M
    BY <1>2, <2>1, <2>2, HoldSame
  <2> QED
    BY <1>1, <2>1, <2>3
<1>4. CASE ~PermitAtOnce
  <2>1. win' = "permit" /\ permitq' = Append(permitq, Window) /\ permits' = permits
    BY <1>4 DEF EnterWindow
  <2>2. WinPermits' = WinPermits
    BY <2>1 DEF WinPermits
  <2>3. PermitsAccounted' /\ permits' \in 0 .. M
    BY <1>2, <2>1, <2>2, HoldSame
  <2>4. Window \in PermitItems
    BY DEF PermitItems
  <2>5. /\ permitq' \in Seq(PermitItems) /\ Distinct(permitq')
        /\ ToSet(permitq') = ToSet(permitq) \cup {Window}
    BY <1>1, <2>1, <2>4, AppendFacts
  <2> QED
    BY <2>1, <2>3, <2>5
<1> QED
  BY <1>3, <1>4

\* The re-entry takes the free slots; it waits for the rest or goes on.
LEMMA OpenWindowStep ==
  ASSUME Core, OpenWindow
  PROVE  Core'
<1>1. /\ TypeOK /\ Places /\ Queues /\ Windowed /\ SlotsAccounted
      /\ PermitsAccounted /\ Backed /\ LeakOnlyByTwins /\ Slotless
  BY DEF Core
<1> DEFINE k == IF SlotAtOnce THEN Least(slots, N) ELSE 0
<1>2. /\ win = "idle" /\ slots' = slots - k /\ drained' = k
      /\ UNCHANGED <<pc, at, child, rounds, held, taken, twins, late>>
  BY DEF OpenWindow, callVars, history
<1>3. /\ k = N => EnterWindow /\ slotq' = slotq
      /\ k # N => /\ slotq' = Append(slotq, Window) /\ win' = "drain"
                  /\ UNCHANGED <<permits, permitq>>
  BY DEF OpenWindow
<1>4. /\ slots \in 0 .. N /\ N \in Nat \ {0} /\ drained = 0
      /\ k \in 0 .. N /\ (k = slots \/ k = 0)
  BY <1>1, <1>2, ToolCallsAssumption DEF TypeOK, Least, Windowed
<1> HIDE DEF k
<1>5. SlotsAccounted'
  <2>1. CASE k = slots
    <3>1. slots' = 0 /\ drained' = slots + drained
      BY <1>2, <1>4, <2>1
    <3> QED
      BY <1>1, <1>2, <3>1, WindowAccounts
  <2>2. CASE k = 0
    <3>1. slots' = slots /\ drained' = drained
      BY <1>2, <1>4, <2>2
    <3> QED
      BY <1>1, <1>2, <3>1, SameAccounts
  <2> QED
    BY <1>4, <2>1, <2>2
<1>6. slots' \in 0 .. N /\ drained' \in 0 .. N
  BY <1>5, AccountBoundsNext
<1>7. Places' /\ Backed' /\ LeakOnlyByTwins' /\ Slotless'
  BY <1>1, <1>2 DEF Places, Backed, LeakOnlyByTwins, Slotless
<1>8. CASE k = N
  <2>1. EnterWindow /\ slotq' = slotq
    BY <1>3, <1>8
  <2>2. /\ PermitsAccounted' /\ permits' \in 0 .. M
        /\ permitq' \in Seq(PermitItems) /\ Distinct(permitq')
        /\ ToSet(permitq') \subseteq ToSet(permitq) \cup {Window}
        /\ win' \in {"run", "permit"}
        /\ Window \in ToSet(permitq') => win' = "permit"
    BY <1>1, <1>2, <2>1, EnterWindowFacts
  <2>3. TypeOK'
    BY <1>1, <1>2, <1>6, <2>1, <2>2 DEF TypeOK, PermitItems
  <2>4. Queues'
    <3>1. \A t \in Turns : Window # t
      BY ToolCallsAssumption
    <3> QED
      BY <1>1, <1>2, <2>1, <2>2, <3>1 DEF Queues
  <2>5. Windowed'
    BY <1>2, <1>8, <2>2 DEF Windowed, InWindow
  <2> QED
    BY <1>5, <1>7, <2>2, <2>3, <2>4, <2>5 DEF Core
<1>9. CASE k # N
  <2>1. /\ slotq' = Append(slotq, Window) /\ win' = "drain"
        /\ UNCHANGED <<permits, permitq>>
    BY <1>3, <1>9
  <2>2. Window \in SlotItems /\ Window \notin ToSet(slotq)
    BY <1>1, <1>2 DEF SlotItems, Queues
  <2>3. /\ slotq' \in Seq(SlotItems) /\ Distinct(slotq')
        /\ ToSet(slotq') = ToSet(slotq) \cup {Window}
    <3>1. slotq \in Seq(SlotItems) /\ Distinct(slotq)
      BY <1>1 DEF TypeOK, SlotItems, Queues
    <3> QED
      BY <2>1, <2>2, <3>1, AppendFacts
  <2>4. TypeOK'
    BY <1>1, <1>2, <1>6, <2>1, <2>3 DEF TypeOK, SlotItems
  <2>5. Queues'
    <3>1. \A t \in Turns, c \in Calls \cup {First} : Window # <<t, c>>
      BY ToolCallsAssumption
    <3> QED
      BY <1>1, <1>2, <2>1, <2>3, <3>1 DEF Queues
  <2>6. Windowed'
    BY <1>2, <1>4, <1>9, <2>1 DEF Windowed, InWindow
  <2>7. PermitsAccounted'
    BY <1>1, <1>2, <2>1 DEF PermitsAccounted, Holding, WinPermits
  <2> QED
    BY <1>5, <1>7, <2>4, <2>5, <2>6, <2>7 DEF Core
<1> QED
  BY <1>8, <1>9

\* The subagent of the re-entry delegates.
LEMMA NestStep ==
  ASSUME Core, Nest
  PROVE  Core'
<1>1. /\ TypeOK /\ Places /\ Queues /\ Windowed /\ SlotsAccounted
      /\ PermitsAccounted /\ Backed /\ LeakOnlyByTwins /\ Slotless
  BY DEF Core
<1>2. /\ win = "run"
      /\ UNCHANGED <<pc, at, child, rounds, held, slots, slotq, drained, taken>>
      /\ UNCHANGED <<twins, late>>
  BY DEF Nest, callVars, history
<1>3. Places' /\ SlotsAccounted' /\ Backed' /\ LeakOnlyByTwins' /\ Slotless'
  BY <1>1, <1>2, SameFacts DEF Places, Slotless
<1>4. Holding' = Holding
  BY <1>2 DEF Holding
<1>5. CASE PermitAtOnce
  <2>1. win' = "nest" /\ permits > 0 /\ permits' = permits - 1 /\ permitq' = permitq
    BY <1>5 DEF Nest, PermitAtOnce
  <2>2. PermitsAccounted' /\ permits' \in 0 .. M
    <3>1. WinPermits' = WinPermits + 1
      BY <1>2, <2>1 DEF WinPermits
    <3> QED
      BY <1>1, <1>4, <2>1, <3>1, HoldSame
  <2>3. TypeOK'
    BY <1>1, <1>2, <2>1, <2>2 DEF TypeOK
  <2>4. Queues' /\ Windowed'
    BY <1>1, <1>2, <2>1 DEF Queues, Windowed, InWindow
  <2> QED
    BY <1>3, <2>2, <2>3, <2>4 DEF Core
<1>6. CASE ~PermitAtOnce
  <2>1. win' = "nestwait" /\ permitq' = Append(permitq, Window) /\ permits' = permits
    BY <1>6 DEF Nest
  <2>2. PermitsAccounted' /\ permits' \in 0 .. M
    <3>1. WinPermits' = WinPermits
      BY <1>2, <2>1 DEF WinPermits
    <3> QED
      BY <1>1, <1>4, <2>1, <3>1, HoldSame
  <2>3. /\ permitq' \in Seq(PermitItems) /\ Distinct(permitq')
        /\ ToSet(permitq') = ToSet(permitq) \cup {Window}
    <3>1. /\ permitq \in Seq(PermitItems) /\ Distinct(permitq)
          /\ Window \in PermitItems /\ Window \notin ToSet(permitq)
      BY <1>1, <1>2 DEF TypeOK, PermitItems, Queues
    <3> QED
      BY <2>1, <3>1, AppendFacts
  <2>4. TypeOK'
    BY <1>1, <1>2, <2>1, <2>2, <2>3 DEF TypeOK, PermitItems
  <2>5. Queues'
    <3>1. \A t \in Turns : Window # t
      BY ToolCallsAssumption
    <3> QED
      BY <1>1, <1>2, <2>1, <2>3, <3>1 DEF Queues
  <2>6. Windowed'
    BY <1>1, <1>2, <2>1 DEF Windowed, InWindow
  <2> QED
    BY <1>3, <2>2, <2>4, <2>5, <2>6 DEF Core
<1> QED
  BY <1>5, <1>6

\* The inner subagent returns.
LEMMA NestReturnsStep ==
  ASSUME Core, NestReturns
  PROVE  Core'
<1>1. /\ TypeOK /\ Places /\ Queues /\ Windowed /\ SlotsAccounted
      /\ PermitsAccounted /\ Backed /\ LeakOnlyByTwins /\ Slotless
  BY DEF Core
<1>2. /\ win = "nest" /\ win' = "rest" /\ permits' = permits + 1
      /\ UNCHANGED <<pc, at, child, rounds, held, slots, slotq, permitq, drained>>
      /\ UNCHANGED <<taken, twins, late>>
  BY DEF NestReturns, callVars, history
<1>3. Places' /\ SlotsAccounted' /\ Backed' /\ LeakOnlyByTwins' /\ Slotless'
  BY <1>1, <1>2, SameFacts DEF Places, Slotless
<1>4. PermitsAccounted' /\ permits' \in 0 .. M
  <2>1. WinPermits' = WinPermits - 1 /\ Holding' = Holding
    BY <1>2 DEF WinPermits, Holding
  <2> QED
    BY <1>1, <1>2, <2>1, HoldSame
<1>5. TypeOK'
  BY <1>1, <1>2, <1>4 DEF TypeOK
<1>6. Queues' /\ Windowed'
  BY <1>1, <1>2 DEF Queues, Windowed, InWindow
<1> QED
  BY <1>3, <1>4, <1>5, <1>6 DEF Core

\* The window closes and the slots are free again.
LEMMA CloseWindowStep ==
  ASSUME Core, CloseWindow
  PROVE  Core'
<1>1. /\ TypeOK /\ Places /\ Queues /\ Windowed /\ SlotsAccounted
      /\ PermitsAccounted /\ Backed /\ LeakOnlyByTwins /\ Slotless
  BY DEF Core
<1>2. /\ win \in {"run", "rest"} /\ win' = "idle" /\ permits' = permits + 1
      /\ slots' = slots + drained /\ drained' = 0
      /\ UNCHANGED <<pc, at, child, rounds, held, slotq, permitq, taken>>
      /\ UNCHANGED <<twins, late>>
  BY DEF CloseWindow, callVars, history
<1>3. SlotsAccounted'
  BY <1>1, <1>2, WindowAccounts
<1>4. slots' \in 0 .. N /\ drained' \in 0 .. N
  BY <1>3, AccountBoundsNext
<1>5. Places' /\ Backed' /\ LeakOnlyByTwins' /\ Slotless'
  BY <1>1, <1>2 DEF Places, Backed, LeakOnlyByTwins, Slotless
<1>6. PermitsAccounted' /\ permits' \in 0 .. M
  <2>1. WinPermits' = WinPermits - 1 /\ Holding' = Holding
    BY <1>2 DEF WinPermits, Holding
  <2> QED
    BY <1>1, <1>2, <2>1, HoldSame
<1>7. TypeOK'
  BY <1>1, <1>2, <1>4, <1>6 DEF TypeOK
<1>8. Queues' /\ Windowed'
  BY <1>1, <1>2 DEF Queues, Windowed, InWindow
<1> QED
  BY <1>3, <1>5, <1>6, <1>7, <1>8 DEF Core

\* A free slot goes to the re-entry.
LEMMA GrantWindowSlotStep ==
  ASSUME Core, GrantSlot, Head(slotq) = Window
  PROVE  Core'
<1>1. /\ TypeOK /\ Places /\ Queues /\ Windowed /\ SlotsAccounted
      /\ PermitsAccounted /\ Backed /\ LeakOnlyByTwins /\ Slotless
  BY DEF Core
<1>2. /\ slots > 0 /\ slotq # <<>> /\ slots' = slots - 1 /\ drained' = drained + 1
      /\ UNCHANGED <<pc, at, held, taken, twins, child, rounds, late>>
  BY DEF GrantSlot, history
<1>3. /\ drained + 1 = N => EnterWindow /\ slotq' = Tail(slotq)
      /\ drained + 1 # N => /\ slotq' = Append(Tail(slotq), Window)
                            /\ UNCHANGED <<win, permits, permitq>>
  BY DEF GrantSlot
<1>4. /\ Tail(slotq) \in Seq(SlotItems) /\ Distinct(Tail(slotq))
      /\ ToSet(Tail(slotq)) = ToSet(slotq) \ {Window} /\ Window \in ToSet(slotq)
  <2>1. slotq \in Seq(SlotItems) /\ Distinct(slotq)
    BY <1>1 DEF TypeOK, SlotItems, Queues
  <2> QED
    BY <1>2, <2>1, TailFacts
<1>5. win = "drain" /\ drained < N /\ drained \in Nat /\ N \in Nat
  BY <1>1, <1>4, ToolCallsAssumption DEF Queues, Windowed, TypeOK
<1>6. SlotsAccounted'
  BY <1>1, <1>2, DrainOneAccounts
<1>7. slots' \in 0 .. N /\ drained' \in 0 .. N
  BY <1>6, AccountBoundsNext
<1>8. Places' /\ Backed' /\ LeakOnlyByTwins' /\ Slotless'
  BY <1>1, <1>2 DEF Places, Backed, LeakOnlyByTwins, Slotless
<1>9. CASE drained + 1 = N
  <2>1. EnterWindow /\ slotq' = Tail(slotq)
    BY <1>3, <1>9
  <2>2. /\ PermitsAccounted' /\ permits' \in 0 .. M
        /\ permitq' \in Seq(PermitItems) /\ Distinct(permitq')
        /\ ToSet(permitq') \subseteq ToSet(permitq) \cup {Window}
        /\ win' \in {"run", "permit"}
        /\ Window \in ToSet(permitq') => win' = "permit"
    BY <1>1, <1>2, <1>5, <2>1, EnterWindowFacts
  <2>3. TypeOK'
    BY <1>1, <1>2, <1>4, <1>7, <2>1, <2>2 DEF TypeOK, PermitItems, SlotItems
  <2>4. Queues'
    <3>1. \A t \in Turns : Window # t
      BY ToolCallsAssumption
    <3> QED
      BY <1>1, <1>2, <1>4, <2>1, <2>2, <3>1 DEF Queues
  <2>5. Windowed'
    BY <1>2, <1>9, <2>2 DEF Windowed, InWindow
  <2> QED
    BY <1>6, <1>8, <2>2, <2>3, <2>4, <2>5 DEF Core
<1>10. CASE drained + 1 # N
  <2>1. slotq' = Append(Tail(slotq), Window) /\ UNCHANGED <<win, permits, permitq>>
    BY <1>3, <1>10
  <2>2. /\ slotq' \in Seq(SlotItems) /\ Distinct(slotq')
        /\ ToSet(slotq') = ToSet(Tail(slotq)) \cup {Window}
    <3> DEFINE r == Tail(slotq)
    <3>1. /\ Window \in SlotItems /\ Window \notin ToSet(r)
          /\ r \in Seq(SlotItems) /\ Distinct(r) /\ slotq' = Append(r, Window)
      BY <1>4, <2>1 DEF SlotItems
    <3> HIDE DEF r
    <3>2. /\ slotq' \in Seq(SlotItems) /\ Distinct(slotq')
          /\ ToSet(slotq') = ToSet(r) \cup {Window}
      BY <3>1, AppendFacts
    <3> QED
      BY <3>2 DEF r
  <2>3. ToSet(slotq') = ToSet(slotq)
    BY <1>4, <2>2
  <2>4. TypeOK'
    BY <1>1, <1>2, <1>7, <2>1, <2>2 DEF TypeOK, SlotItems
  <2>5. Queues'
    BY <1>1, <1>2, <2>1, <2>2, <2>3 DEF Queues
  <2>6. Windowed'
    BY <1>2, <1>5, <1>10, <2>1 DEF Windowed, InWindow
  <2>7. PermitsAccounted'
    BY <1>1, <1>2, <2>1 DEF PermitsAccounted, Holding, WinPermits
  <2> QED
    BY <1>6, <1>8, <2>4, <2>5, <2>6, <2>7 DEF Core
<1> QED
  BY <1>9, <1>10

\* A free slot goes to a turn that waits for its first one, or to a call.
LEMMA GrantTurnSlotStep ==
  ASSUME Core, Lone, GrantSlot, Head(slotq) # Window
  PROVE  Core'
<1>1. /\ TypeOK /\ Places /\ Queues /\ Windowed /\ SlotsAccounted
      /\ PermitsAccounted /\ Backed /\ LeakOnlyByTwins /\ Slotless
  BY DEF Core
<1>2. slots > 0 /\ slotq # <<>>
  BY DEF GrantSlot
<1>3. /\ Tail(slotq) \in Seq(SlotItems) /\ Distinct(Tail(slotq))
      /\ ToSet(Tail(slotq)) = ToSet(slotq) \ {Head(slotq)}
      /\ Head(slotq) \in ToSet(slotq) /\ Head(slotq) \in SlotItems
  <2>1. slotq \in Seq(SlotItems) /\ Distinct(slotq)
    BY <1>1 DEF TypeOK, SlotItems, Queues
  <2> QED
    BY <1>2, <2>1, TailFacts
<1>4. PICK t \in Turns, c \in Calls \cup {First} : Head(slotq) = <<t, c>>
  BY <1>3 DEF SlotItems
<1>5. /\ slots' = slots - 1 /\ slotq' = Tail(slotq) /\ Take(t)
      /\ IF c = First THEN pc' = [pc EXCEPT ![t] = "run"] /\ at' = at
                      ELSE at' = [at EXCEPT ![t][c] = "rest"] /\ pc' = pc
      /\ UNCHANGED <<win, drained, permits, permitq, child, rounds, twins, late>>
  BY <1>4 DEF GrantSlot, Put, winVars, history
<1>0. t \in twins \/ ~held[t]
  <2>1. CASE c = First
    BY <1>1, <1>3, <1>4, <2>1 DEF Queues, Lone
  <2>2. CASE c \in Calls
    <3>1. at[t][c] = "back"
      BY <1>1, <1>3, <1>4, <2>2 DEF Queues
    <3>2. t \notin twins => ~held[t]
      BY <2>2, <3>1 DEF Lone
    <3> QED
      BY <3>2
  <2> QED
    BY <2>1, <2>2
<1>6. /\ SlotsAccounted' /\ Backed' /\ LeakOnlyByTwins'
      /\ slots' \in 0 .. N /\ taken' \in [Turns -> 0 .. N]
      /\ held' \in [Turns -> BOOLEAN]
      /\ held'[t] /\ \A u \in Turns \ {t} : held'[u] = held[u]
  BY <1>0, <1>1, <1>2, <1>5, TakeFacts
<1>7. Windowed'
  BY <1>1, <1>5 DEF Windowed, InWindow
<1>8. CASE c = First
  <2>1. pc[t] = "wait" /\ pc' = [pc EXCEPT ![t] = "run"] /\ at' = at
    BY <1>1, <1>3, <1>4, <1>5, <1>8 DEF Queues
  <2>2. PermitsAccounted'
    BY <1>1, <1>5, <2>1 DEF PermitsAccounted, Holding, WinPermits
  <2>3. TypeOK'
    BY <1>1, <1>3, <1>5, <1>6, <2>1 DEF TypeOK, SlotItems
  <2>4. Places'
    BY <1>1, <1>5, <2>1 DEF Places, TypeOK
  <2>5. Queues'
    BY <1>1, <1>3, <1>4, <1>5, <1>8, <2>1 DEF Queues, TypeOK
  <2>6. Slotless'
    BY <1>1, <1>5, <1>6, <2>1 DEF Slotless, TypeOK
  <2> QED
    BY <1>6, <1>7, <2>2, <2>3, <2>4, <2>5, <2>6 DEF Core
<1>9. CASE c \in Calls
  <2>1. at[t][c] = "back" /\ at' = [at EXCEPT ![t][c] = "rest"] /\ pc' = pc
    BY <1>1, <1>3, <1>4, <1>5, <1>9, ToolCallsAssumption DEF Queues
  <2>2. PermitsAccounted'
    <3>1. Holding' = Holding
      BY <1>1, <1>5, <1>9, <2>1 DEF Holding, TypeOK
    <3>2. permits' = permits /\ WinPermits' = WinPermits
      BY <1>5 DEF WinPermits
    <3> QED
      BY <1>1, <3>1, <3>2, HoldSame
  <2>3. TypeOK'
    BY <1>1, <1>3, <1>5, <1>6, <1>9, <2>1 DEF TypeOK, SlotItems
  <2>4. Places'
    BY <1>1, <1>5, <1>9, <2>1 DEF Places, TypeOK
  <2>5. Queues'
    <3>1. \A u \in Turns, d \in Calls :
            <<u, d>> \in ToSet(slotq') => at'[u][d] = "back"
      BY <1>1, <1>3, <1>4, <1>5, <1>9, <2>1 DEF Queues, TypeOK
    <3>2. \A u \in Turns :
            u \in ToSet(permitq') => \E d \in Calls : at'[u][d] = "queue"
      BY <1>1, <1>5, <1>9, <2>1 DEF Queues, TypeOK
    <3> QED
      BY <1>1, <1>3, <1>5, <2>1, <3>1, <3>2 DEF Queues
  <2>6. Slotless'
    BY <1>1, <1>5, <1>6, <1>9, <2>1 DEF Slotless, TypeOK
  <2> QED
    BY <1>6, <1>7, <2>2, <2>3, <2>4, <2>5, <2>6 DEF Core
<1> QED
  BY <1>8, <1>9

\* A free permit goes to the re-entry.
LEMMA GrantWindowPermitStep ==
  ASSUME Core, GrantPermit, Head(permitq) = Window
  PROVE  Core'
<1>1. /\ TypeOK /\ Places /\ Queues /\ Windowed /\ SlotsAccounted
      /\ PermitsAccounted /\ Backed /\ LeakOnlyByTwins /\ Slotless
  BY DEF Core
<1>2. /\ permits > 0 /\ permitq # <<>>
      /\ permits' = permits - 1 /\ permitq' = Tail(permitq)
      /\ win' = (IF win = "permit" THEN "run" ELSE "nest")
      /\ UNCHANGED <<pc, at, child, rounds, held, slots, slotq, drained, taken>>
      /\ UNCHANGED <<twins, late>>
  BY DEF GrantPermit, history
<1>3. /\ permitq' \in Seq(PermitItems) /\ Distinct(permitq')
      /\ ToSet(permitq') = ToSet(permitq) \ {Window} /\ Window \in ToSet(permitq)
  <2>1. permitq \in Seq(PermitItems) /\ Distinct(permitq)
    BY <1>1 DEF TypeOK, PermitItems, Queues
  <2> QED
    BY <1>2, <2>1, TailFacts
<1>4. win \in {"permit", "nestwait"}
  BY <1>1, <1>3 DEF Queues
<1>5. Places' /\ SlotsAccounted' /\ Backed' /\ LeakOnlyByTwins' /\ Slotless'
  BY <1>1, <1>2, SameFacts DEF Places, Slotless
<1>6. PermitsAccounted' /\ permits' \in 0 .. M
  <2>1. WinPermits' = WinPermits + 1 /\ Holding' = Holding
    BY <1>2, <1>4 DEF WinPermits, Holding
  <2> QED
    BY <1>1, <1>2, <2>1, HoldSame
<1>7. TypeOK'
  BY <1>1, <1>2, <1>3, <1>6 DEF TypeOK, PermitItems
<1>8. Queues' /\ Windowed'
  BY <1>1, <1>2, <1>3, <1>4 DEF Queues, Windowed, InWindow
<1> QED
  BY <1>5, <1>6, <1>7, <1>8 DEF Core

\* A free permit goes to a delegation.
LEMMA GrantTurnPermitStep ==
  ASSUME Core, GrantPermit, Head(permitq) # Window
  PROVE  Core'
<1>1. /\ TypeOK /\ Places /\ Queues /\ Windowed /\ SlotsAccounted
      /\ PermitsAccounted /\ Backed /\ LeakOnlyByTwins /\ Slotless
  BY DEF Core
<1> DEFINE t == Head(permitq)
<1>2. /\ permits > 0 /\ permitq # <<>>
      /\ permits' = permits - 1 /\ permitq' = Tail(permitq)
      /\ \E c \in Calls : at[t][c] = "queue" /\ at' = [at EXCEPT ![t][c] = "run"]
      /\ UNCHANGED <<pc, child, rounds, held, slots, slotq, win, drained, taken>>
      /\ UNCHANGED <<twins, late>>
  BY DEF GrantPermit, Put, history
<1>3. /\ permitq' \in Seq(PermitItems) /\ Distinct(permitq') /\ t \in PermitItems
      /\ ToSet(permitq') = ToSet(permitq) \ {t}
  <2>1. permitq \in Seq(PermitItems) /\ Distinct(permitq)
    BY <1>1 DEF TypeOK, PermitItems, Queues
  <2> QED
    BY <1>2, <2>1, TailFacts
<1>4. t \in Turns
  BY <1>3 DEF PermitItems
<1> HIDE DEF t
<1>5. PICK c \in Calls : at[t][c] = "queue" /\ at' = [at EXCEPT ![t][c] = "run"]
  BY <1>2
<1>6. Windowed' /\ SlotsAccounted' /\ Backed' /\ LeakOnlyByTwins'
  BY <1>1, <1>2, SameFacts DEF Windowed, InWindow
<1>7. PermitsAccounted' /\ permits' \in 0 .. M
  <2>1. <<t, c>> \in child
    BY <1>1, <1>4, <1>5 DEF Places
  <2>2. Holding' = Holding \cup {<<t, c>>} /\ <<t, c>> \notin Holding
    <3>1. at'[t][c] = "run" /\ child' = child
      BY <1>1, <1>2, <1>4, <1>5 DEF TypeOK
    <3>2. \A p \in child \ {<<t, c>>} : at'[p[1]][p[2]] = at[p[1]][p[2]]
      BY <1>1, <1>4, <1>5 DEF TypeOK
    <3> QED
      BY <1>5, <2>1, <3>1, <3>2 DEF Holding
  <2> QED
    BY <1>1, <1>2, <2>2, HoldMore
<1>8. TypeOK'
  BY <1>1, <1>2, <1>3, <1>4, <1>5, <1>7 DEF TypeOK, PermitItems
<1>9. Places'
  BY <1>1, <1>2, <1>4, <1>5 DEF Places, TypeOK
<1>10. Queues'
  BY <1>1, <1>2, <1>3, <1>4, <1>5 DEF Queues, TypeOK
<1>11. Slotless'
  BY <1>1, <1>2, <1>4, <1>5 DEF Slotless, TypeOK
<1> QED
  BY <1>6, <1>7, <1>8, <1>9, <1>10, <1>11 DEF Core

-----------------------------------------------------------------------------
(* Who waits for a slot                                                    *)

\* Steps by which no turn gets a slot and no call begins to wait.
LEMMA LoneKept ==
  ASSUME Lone, twins \subseteq twins',
         \A u \in Turns : held'[u] => held[u],
         \A u \in Turns : pc'[u] \in {"idle", "wait"} => pc[u] \in {"idle", "wait"},
         \A u \in Turns, d \in Calls :
           at'[u][d] = "back" => at[u][d] = "back" /\ <<u, d>> \in ToSet(slotq')
  PROVE  Lone'
  BY DEF Lone

\* release() marks nobody.
LEMMA ReleaseMarks ==
  ASSUME TypeOK, NEW t \in Turns, Release(t)
  PROVE  \A u \in Turns : held'[u] => held[u]
  BY DEF TypeOK, Release

\* A turn starts, runs a round of calls, or ends.
LEMMA LoneTurnStep ==
  ASSUME Core, Lone, NEW t \in Turns,
         \/ Start(t) \/ Finish(t)
         \/ \E K \in SUBSET Calls \ {{}} : CallTools(t, K)
  PROVE  Lone'
<1>1. TypeOK /\ Places /\ Queues
  BY DEF Core
<1>2. CASE Start(t) /\ SlotAtOnce
  <2>1. /\ pc[t] = "idle" /\ pc' = [pc EXCEPT ![t] = "run"]
        /\ held' = [held EXCEPT ![t] = TRUE] /\ UNCHANGED <<at, slotq, twins>>
    BY <1>2 DEF Start, Take, callVars, history
  <2>2. \A d \in Calls : at[t][d] # "back"
    BY <1>1, <2>1 DEF Places
  <2> QED
    BY <1>1, <2>1, <2>2 DEF Lone, TypeOK
<1>3. CASE Start(t) /\ ~SlotAtOnce
  <2>1. /\ pc[t] = "idle" /\ pc' = [pc EXCEPT ![t] = "wait"]
        /\ slotq' = Append(slotq, <<t, First>>) /\ UNCHANGED <<at, held, twins>>
    BY <1>3 DEF Start, callVars, history
  <2>2. ToSet(slotq) \subseteq ToSet(slotq')
    <3> DEFINE x == <<t, First>>
    <3>1. /\ slotq \in Seq(SlotItems) /\ Distinct(slotq) /\ x \in SlotItems
          /\ x \notin ToSet(slotq) /\ slotq' = Append(slotq, x)
      BY <1>1, <2>1 DEF TypeOK, SlotItems, Queues
    <3> HIDE DEF x
    <3> QED
      BY <3>1, AppendFacts
  <2> QED
    BY <1>1, <2>1, <2>2, LoneKept DEF Lone, TypeOK
<1>4. CASE Finish(t)
  <2>1. /\ pc' = [pc EXCEPT ![t] = "done"] /\ Release(t)
        /\ UNCHANGED <<at, slotq, twins>>
    BY <1>4 DEF Finish, callVars, history
  <2> QED
    BY <1>1, <2>1, ReleaseMarks, LoneKept DEF Lone, TypeOK
<1>5. CASE \E K \in SUBSET Calls \ {{}} : CallTools(t, K)
  <2>1. PICK K \in SUBSET Calls \ {{}} : CallTools(t, K)
    BY <1>5
  <2>2. /\ at' = [at EXCEPT ![t] = [c \in Calls |-> IF c \in K THEN "run" ELSE "none"]]
        /\ UNCHANGED <<pc, held, slotq, twins>>
    BY <2>1 DEF CallTools, semVars, history
  <2> QED
    BY <1>1, <2>2, LoneKept DEF Lone, TypeOK
<1> QED
  BY <1>2, <1>3, <1>4, <1>5

\* A call moves and does not begin to wait for a slot.
LEMMA LoneMove ==
  ASSUME TypeOK, Lone, NEW t \in Turns, NEW c \in Calls, NEW w \in Ats \ {"back"},
         Put(t, c, w), twins' = twins, pc' = pc,
         \A u \in Turns : held'[u] => held[u],
         ToSet(slotq) \ {<<t, c>>} \subseteq ToSet(slotq')
  PROVE  Lone'
<1>1. /\ at'[t][c] = w
      /\ \A u \in Turns, d \in Calls : u # t \/ d # c => at'[u][d] = at[u][d]
  BY PutFacts
<1>2. ASSUME NEW u \in Turns, NEW d \in Calls, at'[u][d] = "back"
      PROVE  at[u][d] = "back" /\ <<u, d>> \in ToSet(slotq')
  <2>1. u # t \/ d # c
    BY <1>1, <1>2
  <2>2. at[u][d] = "back" /\ <<u, d>> \in ToSet(slotq) /\ <<u, d>> # <<t, c>>
    BY <1>1, <1>2, <2>1 DEF Lone
  <2> QED
    BY <2>2
<1> QED
  BY <1>2, LoneKept

\* A call is made, asks, waits or ends.
LEMMA LoneCallStep ==
  ASSUME Core, Lone, NEW t \in Turns, NEW c \in Calls,
         \/ Delegate(t, c) \/ Return(t, c) \/ Prompt(t, c)
         \/ Answer(t, c) \/ Timeout(t, c)
  PROVE  Lone'
<1>1. TypeOK /\ Places /\ Queues
  BY DEF Core
<1>2. CASE Delegate(t, c) \/ Return(t, c)
  <2>1. \E w \in Ats \ {"back"} : Put(t, c, w)
    BY <1>2 DEF Delegate, Return, Leave, Ats
  <2>2. UNCHANGED <<pc, held, slotq, twins>>
    BY <1>2 DEF Delegate, Return, history
  <2> QED
    BY <1>1, <2>1, <2>2, LoneMove
<1>3. CASE Prompt(t, c)
  <2>1. Put(t, c, "ask") /\ Release(t) /\ UNCHANGED <<pc, slotq, twins>>
    BY <1>3 DEF Prompt, history
  <2> QED
    BY <1>1, <2>1, ReleaseMarks, LoneMove DEF Ats
<1>4. CASE Timeout(t, c)
  <2>1. /\ Put(t, c, "none") /\ slotq' = Without(slotq, <<t, c>>)
        /\ UNCHANGED <<pc, held, twins>>
    BY <1>4 DEF Timeout, Leave
  <2>2. ToSet(slotq') = ToSet(slotq) \ {<<t, c>>}
    <3>1. slotq \in Seq(SlotItems) /\ Distinct(slotq)
      BY <1>1 DEF TypeOK, SlotItems, Queues
    <3> QED
      BY <2>1, <3>1, WithoutFacts
  <2> QED
    BY <1>1, <2>1, <2>2, LoneMove DEF Ats
<1>5. CASE Answer(t, c) /\ held[t]
  <2>1. Put(t, c, "rest") /\ UNCHANGED <<pc, held, slotq, twins>>
    BY <1>5 DEF Answer
  <2> QED
    BY <1>1, <2>1, LoneMove DEF Ats
<1>6. CASE Answer(t, c) /\ ~held[t] /\ SlotAtOnce
  \* The queue is empty, so no call waits.
  <2>1. /\ at' = [at EXCEPT ![t][c] = "rest"] /\ held' = [held EXCEPT ![t] = TRUE]
        /\ at[t][c] = "ask" /\ slotq = <<>> /\ UNCHANGED <<pc, slotq, twins>>
    BY <1>6 DEF Answer, Reacquire, Take, Put, SlotAtOnce
  <2>2. \A u \in Turns, d \in Calls : at[u][d] # "back"
    BY <2>1 DEF Lone, ToSet
  <2>3. \A u \in Turns, d \in Calls : at'[u][d] # "back"
    BY <1>1, <2>1, <2>2 DEF TypeOK
  <2>4. pc[t] = "run"
    BY <1>1, <2>1 DEF Places
  <2>5. \A u \in Turns : pc'[u] \in {"idle", "wait"} => ~held'[u]
    BY <1>1, <2>1, <2>4 DEF Lone, TypeOK
  <2> QED
    BY <2>3, <2>5 DEF Lone
<1>7. CASE Answer(t, c) /\ ~held[t] /\ ~SlotAtOnce
  <2>1. /\ at' = [at EXCEPT ![t][c] = "back"] /\ at[t][c] = "ask"
        /\ slotq' = Append(slotq, <<t, c>>)
        /\ twins' = IF Twin(t, c) THEN twins \cup {t} ELSE twins
        /\ UNCHANGED <<pc, held>>
    BY <1>7 DEF Answer, Reacquire, Put
  <2>2. ToSet(slotq') = ToSet(slotq) \cup {<<t, c>>}
    <3> DEFINE x == <<t, c>>
    <3>1. /\ slotq \in Seq(SlotItems) /\ Distinct(slotq) /\ x \in SlotItems
          /\ x \notin ToSet(slotq) /\ slotq' = Append(slotq, x)
      BY <1>1, <2>1 DEF TypeOK, SlotItems, Queues
    <3> HIDE DEF x
    <3>2. ToSet(slotq') = ToSet(slotq) \cup {x}
      BY <3>1, AppendFacts
    <3> QED
      BY <3>2 DEF x
  <2>3. /\ at'[t][c] = "back"
        /\ \A u \in Turns, d \in Calls : u # t \/ d # c => at'[u][d] = at[u][d]
    BY <1>1, <2>1 DEF TypeOK
  <2>4. \A u \in Turns, d \in Calls : at'[u][d] = "back" => <<u, d>> \in ToSet(slotq')
    BY <2>2, <2>3 DEF Lone
  <2>5. t \notin twins' => \A d \in Calls \ {c} : at[t][d] # "back"
    BY <2>1 DEF Twin
  <2>6. twins \subseteq twins'
    BY <2>1
  <2>7. \A u \in Turns \ twins', d, e \in Calls :
          at'[u][d] = "back" /\ at'[u][e] = "back" => d = e
    BY <2>3, <2>5, <2>6 DEF Lone
  <2>8. \A u \in Turns \ twins', d \in Calls : at'[u][d] = "back" => ~held'[u]
    BY <1>7, <2>1, <2>3, <2>6 DEF Lone
  <2> QED
    BY <2>1, <2>4, <2>7, <2>8 DEF Lone
<1> QED
  BY <1>2, <1>3, <1>4, <1>5, <1>6, <1>7

\* The re-entry, and a permit that is granted.
LEMMA LoneWindowStep ==
  ASSUME Core, Lone, OpenWindow \/ Nest \/ NestReturns \/ CloseWindow \/ GrantPermit
  PROVE  Lone'
<1>1. TypeOK /\ Queues /\ Windowed
  BY DEF Core
<1>2. CASE OpenWindow
  <2>1. /\ win = "idle" /\ slotq' \in {slotq, Append(slotq, Window)}
        /\ UNCHANGED <<pc, at, held, twins>>
    BY <1>2 DEF OpenWindow, callVars, history
  <2>2. ToSet(slotq) \subseteq ToSet(slotq')
    <3>1. /\ slotq \in Seq(SlotItems) /\ Distinct(slotq) /\ Window \in SlotItems
          /\ Window \notin ToSet(slotq)
      BY <1>1, <2>1 DEF TypeOK, SlotItems, Queues
    <3>2. ToSet(Append(slotq, Window)) = ToSet(slotq) \cup {Window}
      BY <3>1, AppendFacts
    <3> QED
      BY <2>1, <3>2, Zenon
  <2> QED
    BY <2>1, <2>2, LoneKept DEF Lone
<1>3. CASE Nest \/ NestReturns \/ CloseWindow
  <2>1. UNCHANGED <<pc, at, held, slotq, twins>>
    BY <1>3 DEF Nest, NestReturns, CloseWindow, callVars, history
  <2> QED
    BY <2>1 DEF Lone
<1>4. CASE GrantPermit
  <2>1. /\ UNCHANGED <<pc, held, slotq, twins>>
        /\ permitq # <<>>
        /\ \/ at' = at
           \/ /\ Head(permitq) # Window
              /\ \E c \in Calls : Put(Head(permitq), c, "run")
    BY <1>4 DEF GrantPermit, history
  <2>2. CASE at' = at
    BY <2>1, <2>2 DEF Lone
  <2>3. CASE Head(permitq) # Window /\ \E c \in Calls : Put(Head(permitq), c, "run")
    <3>1. Head(permitq) \in Turns
      BY <1>1, <2>1, <2>3 DEF TypeOK
    <3> QED
      BY <1>1, <2>1, <2>3, <3>1, LoneMove DEF Ats
  <2> QED
    BY <2>1, <2>2, <2>3
<1> QED
  BY <1>2, <1>3, <1>4

\* A free slot is granted.  A call that was the only one of its turn to wait
\* leaves none behind.
LEMMA LoneGrantStep ==
  ASSUME Core, Lone, GrantSlot
  PROVE  Lone'
<1>1. TypeOK /\ Places /\ Queues
  BY DEF Core
<1>2. /\ Tail(slotq) \in Seq(SlotItems) /\ Distinct(Tail(slotq))
      /\ ToSet(Tail(slotq)) = ToSet(slotq) \ {Head(slotq)}
      /\ Head(slotq) \in ToSet(slotq) /\ Head(slotq) \in SlotItems
  <2>1. slotq \in Seq(SlotItems) /\ Distinct(slotq) /\ slotq # <<>>
    BY <1>1 DEF TypeOK, SlotItems, Queues, GrantSlot
  <2> QED
    BY <2>1, TailFacts
<1>3. CASE Head(slotq) = Window
  <2> DEFINE r == Tail(slotq)
  <2>1. /\ slotq' \in {r, Append(r, Window)}
        /\ UNCHANGED <<pc, at, held, twins>>
    BY <1>3 DEF GrantSlot, history
  <2>2. /\ r \in Seq(SlotItems) /\ Distinct(r) /\ Window \in SlotItems
        /\ Window \notin ToSet(r) /\ ToSet(r) = ToSet(slotq) \ {Window}
    BY <1>2, <1>3
  <2> HIDE DEF r
  <2>3. ToSet(r) \subseteq ToSet(slotq')
    <3>1. ToSet(Append(r, Window)) = ToSet(r) \cup {Window}
      BY <2>2, AppendFacts
    <3> QED
      BY <2>1, <3>1, Zenon
  <2>4. ASSUME NEW u \in Turns, NEW d \in Calls, at[u][d] = "back"
        PROVE  <<u, d>> \in ToSet(slotq')
    <3>1. <<u, d>> \in ToSet(slotq) /\ <<u, d>> # Window
      BY <2>4, ToolCallsAssumption DEF Lone
    <3> QED
      BY <2>2, <2>3, <3>1
  <2> QED
    BY <2>1, <2>4, LoneKept
<1>4. CASE Head(slotq) # Window
  <2>1. PICK t \in Turns, c \in Calls \cup {First} : Head(slotq) = <<t, c>>
    BY <1>2, <1>4 DEF SlotItems
  <2>2. /\ slotq' = Tail(slotq) /\ held' = [held EXCEPT ![t] = TRUE]
        /\ IF c = First THEN pc' = [pc EXCEPT ![t] = "run"] /\ at' = at
                        ELSE at' = [at EXCEPT ![t][c] = "rest"] /\ pc' = pc
        /\ twins' = twins
    BY <1>4, <2>1 DEF GrantSlot, Take, Put, history
  <2>3. /\ held'[t] /\ \A u \in Turns \ {t} : held'[u] = held[u]
    BY <1>1, <2>2 DEF TypeOK
  <2>4. CASE c = First
    <3>1. pc[t] = "wait"
      BY <1>1, <1>2, <2>1, <2>4 DEF Queues
    <3>2. \A d \in Calls : at[t][d] # "back"
      BY <1>1, <3>1 DEF Places
    <3>3. \A u \in Turns, d \in Calls : at'[u][d] = "back" => <<u, d>> \in ToSet(slotq')
      <4> SUFFICES ASSUME NEW u \in Turns, NEW d \in Calls, at[u][d] = "back"
                   PROVE  <<u, d>> \in ToSet(slotq')
        BY <2>2, <2>4
      <4>1. u # t
        BY <3>2
      <4> QED
        BY <1>2, <2>1, <2>2, <4>1 DEF Lone
    <3>4. \A u \in Turns : pc'[u] \in {"idle", "wait"} => ~held'[u]
      BY <1>1, <2>2, <2>3, <2>4 DEF Lone, TypeOK
    <3> QED
      BY <2>2, <2>3, <2>4, <3>2, <3>3, <3>4 DEF Lone
  <2>5. CASE c \in Calls
    <3>1. /\ at[t][c] = "back" /\ at' = [at EXCEPT ![t][c] = "rest"] /\ pc' = pc
      BY <1>1, <1>2, <2>1, <2>2, <2>5, ToolCallsAssumption DEF Queues
    <3>2. /\ at'[t][c] = "rest"
          /\ \A u \in Turns, d \in Calls : u # t \/ d # c => at'[u][d] = at[u][d]
      BY <1>1, <2>5, <3>1 DEF TypeOK
    <3>3. t \notin twins => \A d \in Calls : at'[t][d] # "back"
      BY <2>5, <3>1, <3>2 DEF Lone
    <3>4. ASSUME NEW u \in Turns, NEW d \in Calls, at'[u][d] = "back"
          PROVE  at[u][d] = "back" /\ <<u, d>> \in ToSet(slotq')
      <4>1. at[u][d] = "back" /\ <<u, d>> # <<t, c>>
        BY <3>2, <3>4
      <4>2. <<u, d>> \in ToSet(slotq)
        BY <4>1 DEF Lone
      <4> QED
        BY <1>2, <2>1, <2>2, <4>1, <4>2
    <3>5. pc[t] = "run"
      BY <1>1, <2>5, <3>1 DEF Places
    <3>6. \A u \in Turns : pc'[u] \in {"idle", "wait"} => ~held'[u]
      BY <2>3, <3>1, <3>5 DEF Lone
    <3>7. \A u \in Turns \ twins', d \in Calls : at'[u][d] = "back" => ~held'[u]
      BY <2>2, <2>3, <3>3, <3>4 DEF Lone
    <3>8. \A u \in Turns \ twins', d, e \in Calls :
            at'[u][d] = "back" /\ at'[u][e] = "back" => d = e
      BY <2>2, <3>4 DEF Lone
    <3> QED
      BY <3>4, <3>6, <3>7, <3>8 DEF Lone
  <2> QED
    BY <2>4, <2>5
<1> QED
  BY <1>3, <1>4

-----------------------------------------------------------------------------
(* Invariance                                                              *)

\* Nobody has a slot or a permit at the start.
LEMMA InitIInv == Init => IInv
<1> SUFFICES ASSUME Init PROVE IInv
  OBVIOUS
<1> USE DEF Init
<1>1. N \in Nat \ {0} /\ M \in Nat \ {0} /\ Rounds \in Nat
  BY ToolCallsAssumption
<1>2. ToSet(<<>>) = {}
  BY DEF ToSet
<1>3. TypeOK
  BY <1>1 DEF TypeOK
<1>4. Places /\ Queues /\ Windowed
  BY <1>2 DEF Places, Queues, Distinct, Windowed, InWindow
<1>5. SlotsAccounted
  <2> DEFINE f == [i \in 1 .. N |-> Free]
  <2>1. f \in [1 .. N -> Owners]
    BY OwnersDiffer
  <2>2. /\ Owned(f, Free) = 1 .. N
        /\ \A x \in Owners \ {Free} : Owned(f, x) = {}
    BY DEF Owned
  <2> HIDE DEF f
  <2>3. /\ Cardinality(Owned(f, Free)) = N
        /\ \A x \in Owners \ {Free} : Cardinality(Owned(f, x)) = 0
    BY <2>2, OwnedFacts
  <2>4. Accounts(f)
    BY <2>3, OwnersDiffer DEF Accounts
  <2> QED
    BY <2>1, <2>4 DEF SlotsAccounted
<1>6. PermitsAccounted
  <2>1. Cardinality(Holding) = 0
    <3>1. Holding = {}
      BY DEF Holding
    <3> QED
      BY <3>1, FS_EmptySet
  <2> QED
    BY <1>1, <2>1 DEF PermitsAccounted, WinPermits
<1>7. Backed /\ LeakOnlyByTwins /\ Slotless
  BY DEF Backed, LeakOnlyByTwins, Slotless
<1>8. Lone
  BY DEF Lone
<1> QED
  BY <1>3, <1>4, <1>5, <1>6, <1>7, <1>8 DEF Core, IInv

\* Nothing happens.
LEMMA StutterStep ==
  ASSUME IInv, UNCHANGED vars
  PROVE  IInv'
<1>1. /\ UNCHANGED <<pc, at, child, rounds, held, slots, slotq, permits, permitq>>
      /\ UNCHANGED <<win, drained, taken, twins, late>>
  BY DEF vars, callVars, semVars, winVars, history
<1>2. TypeOK'
  BY <1>1 DEF IInv, Core, TypeOK
<1>3. Places' /\ Queues'
  BY <1>1 DEF IInv, Core, Places, Queues
<1>4. Windowed' /\ PermitsAccounted' /\ Slotless'
  BY <1>1 DEF IInv, Core, Windowed, InWindow, PermitsAccounted, Holding, WinPermits,
     Slotless
<1>5. SlotsAccounted' /\ Backed' /\ LeakOnlyByTwins'
  BY <1>1, SameFacts DEF IInv, Core
<1>6. Lone'
  BY <1>1 DEF IInv, Lone
<1> QED
  BY <1>2, <1>3, <1>4, <1>5, <1>6 DEF Core, IInv

\* The invariant holds in every reachable state.
THEOREM Invariance == Spec => []IInv
<1>1. Init => IInv
  BY InitIInv
<1>2. IInv /\ [Next]_vars => IInv'
  <2> SUFFICES ASSUME IInv, [Next]_vars PROVE IInv'
    OBVIOUS
  <2>1. ASSUME NEW t \in Turns, Start(t) \/ Finish(t) PROVE IInv'
    BY <2>1, StartStep, FinishStep, LoneTurnStep DEF IInv
  <2>2. ASSUME NEW t \in Turns, NEW K \in SUBSET Calls \ {{}}, CallTools(t, K)
        PROVE  IInv'
    BY <2>2, CallToolsStep, LoneTurnStep DEF IInv
  <2>3. ASSUME NEW t \in Turns, NEW c \in Calls,
               \/ Delegate(t, c) \/ Return(t, c) \/ Prompt(t, c)
               \/ Answer(t, c) \/ Timeout(t, c)
        PROVE  IInv'
    BY <2>3, DelegateStep, ReturnStep, PromptStep, AnswerStep, TimeoutStep,
       LoneCallStep DEF IInv
  <2>4. ASSUME OpenWindow \/ Nest \/ NestReturns \/ CloseWindow PROVE IInv'
    BY <2>4, OpenWindowStep, NestStep, NestReturnsStep, CloseWindowStep,
       LoneWindowStep DEF IInv
  <2>5. ASSUME GrantSlot \/ GrantPermit PROVE IInv'
    BY <2>5, GrantWindowSlotStep, GrantTurnSlotStep, GrantWindowPermitStep,
       GrantTurnPermitStep, LoneGrantStep, LoneWindowStep DEF IInv
  <2>6. CASE UNCHANGED vars
    BY <2>6, StutterStep
  <2> QED
    BY <2>1, <2>2, <2>3, <2>4, <2>5, <2>6 DEF Next
<1> QED
  BY <1>1, <1>2, PTL DEF Spec

\* Neither semaphore is ever released beyond its size, nor acquired below zero,
\* whatever calls prompt, wait and time out at once: slots and permits stay
\* within max_concurrent_turns and max_concurrent.
THEOREM TypeCorrect == Spec => []TypeOK
<1>1. IInv => TypeOK
  BY DEF IInv, Core
<1> QED
  BY <1>1, Invariance, PTL

\* A turn gives back the one slot it took, unless two of its calls once waited
\* for a slot at the same time (_SlotHolder.reacquire()).
THEOREM LeaksOnlyByTwins == Spec => []LeakOnlyByTwins
<1>1. IInv => LeakOnlyByTwins
  BY DEF IInv, Core
<1> QED
  BY <1>1, Invariance, PTL

\* Every slot is free, drained by the window or taken by a turn, and every
\* permit is free, with a delegation that does not wait for it, or with the
\* re-entry: calls that time out and prompts that go unanswered lose neither.
THEOREM Accounted == Spec => [](SlotsAccounted /\ PermitsAccounted)
<1>1. IInv => SlotsAccounted /\ PermitsAccounted
  BY DEF IInv, Core
<1> QED
  BY <1>1, Invariance, PTL

\* A turn executes during an exclusive window only when the deadline of a call
\* ended its wait for the slot, or while a call of it asks or waits for it.
THEOREM WindowAlone == Spec => []AloneUnlessSlotless
<1>1. IInv => AloneUnlessSlotless
  <2> SUFFICES ASSUME IInv, InWindow, NEW t \in Turns, pc[t] = "run"
               PROVE  t \in late \/ \E c \in Calls : at[t][c] \in {"ask", "back"}
    BY DEF AloneUnlessSlotless, Executes
  <2>1. Windowed /\ SlotsAccounted /\ Backed /\ Slotless
    BY DEF IInv, Core
  <2>2. drained = N
    BY <2>1 DEF Windowed
  <2>3. taken[t] = 0
    BY <2>1, <2>2, AccountBounds
  <2>4. ~held[t]
    BY <2>1, <2>3 DEF Backed
  <2> QED
    BY <2>1, <2>4 DEF Slotless
<1> QED
  BY <1>1, Invariance, PTL
=============================================================================
