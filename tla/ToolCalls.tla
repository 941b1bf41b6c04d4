----------------------------- MODULE ToolCalls -----------------------------
(* The tool calls of the turns of the daemon, as far as they wait: several   *)
(* read-only calls at once (engine/tool_dispatch_engine.py), prompts that    *)
(* hand the turn's slot back (daemon/approval_coordinator.py and             *)
(* turn_admission.py), the deadline of a call, which stops while a human     *)
(* decides (domain/tool_pipeline.py), delegation to a subagent with its      *)
(* permits (engine/subagent.py), and a re-entry, which delegates inside an   *)
(* exclusive window (scheduler/reentry_service.py).                          *)
(*                                                                           *)
(* TurnAdmission has the semaphore of the slots in detail, one prompt of a   *)
(* turn at a time; here its waiters are a queue served from the front, and   *)
(* what goes wrong when calls share one _SlotHolder is in the model.  Turns  *)
(* whose client goes away are in EngineTurns.                                *)
EXTENDS Integers, Sequences, SequencesExt, FiniteSets

CONSTANTS
    Turns,      \* turns, each called once
    Calls,      \* the tool calls a turn can make at once
    N,          \* max_concurrent_turns
    M,          \* max_concurrent subagents
    Rounds,     \* bound: rounds of tool calls of a turn
    Window,     \* the re-entry, as a waiter
    First       \* stands for a turn that waits for its first slot

ASSUME ToolCallsAssumption ==
    /\ IsFiniteSet(Turns) /\ IsFiniteSet(Calls)
    /\ N \in Nat \ {0} /\ M \in Nat \ {0} /\ Rounds \in Nat
    /\ First \notin Calls
    /\ Window \notin Turns \cup (Turns \X (Calls \cup {First}))

VARIABLES
    pc,         \* "idle", "wait" for the first slot, "run", "done"
    at,         \* where a call of a turn is, "none" when there is no such call
    child,      \* the calls that are delegations
    rounds,     \* rounds of calls made
    held,       \* _SlotHolder.held
    slots,      \* free slots
    slotq,      \* who waits for a slot, oldest first
    permits,    \* free permits of subagents
    permitq,    \* who waits for a permit, oldest first
    win,        \* where the re-entry is
    drained,    \* slots it has taken
    taken,      \* history: slots a turn has taken and not given back
    twins,      \* history: turns of which two calls waited for a slot at once
    late        \* history: turns that went on without the slot they waited for

callVars == <<at, child, rounds>>
semVars == <<slots, slotq, permits, permitq>>
winVars == <<win, drained>>
history == <<twins, late>>
vars == <<pc, callVars, held, semVars, winVars, taken, history>>

Init ==
    /\ pc = [t \in Turns |-> "idle"]
    /\ at = [t \in Turns |-> [c \in Calls |-> "none"]]
    /\ child = {}
    /\ rounds = [t \in Turns |-> 0]
    /\ held = [t \in Turns |-> FALSE]
    /\ slots = N /\ slotq = <<>> /\ permits = M /\ permitq = <<>>
    /\ win = "idle" /\ drained = 0
    /\ taken = [t \in Turns |-> 0]
    /\ twins = {} /\ late = {}

\* The queue q without x, which it has at most once
Without(q, x) ==
    IF x \in ToSet(q) THEN RemoveAt(q, CHOOSE i \in DOMAIN q : q[i] = x) ELSE q
Quiet(t) == \A c \in Calls : at[t][c] = "none"
Put(t, c, where) == at' = [at EXCEPT ![t][c] = where]

-----------------------------------------------------------------------------
(* Slots *)

\* acquire() of a semaphore returns at once only when nobody waits.
SlotAtOnce == slots > 0 /\ slotq = <<>>
PermitAtOnce == permits > 0 /\ permitq = <<>>

\* _acquire_slot() succeeds; the holder is marked.
Take(t) ==
    /\ held' = [held EXCEPT ![t] = TRUE]
    /\ taken' = [taken EXCEPT ![t] = @ + 1]

\* Mutant: released whether it is held or not
ReleaseUnheld(t) ==
    /\ slots' = slots + 1
    /\ held' = [held EXCEPT ![t] = FALSE]
    /\ taken' = [taken EXCEPT ![t] = IF held[t] THEN @ - 1 ELSE @]

\* _SlotHolder.release()
Release(t) ==
    IF held[t]
    THEN /\ slots' = slots + 1
         /\ held' = [held EXCEPT ![t] = FALSE]
         /\ taken' = [taken EXCEPT ![t] = @ - 1]
    ELSE UNCHANGED <<slots, held, taken>>

\* turn_slot() is entered.
Start(t) ==
    /\ pc[t] = "idle"
    /\ IF SlotAtOnce
       THEN /\ Take(t)
            /\ slots' = slots - 1
            /\ pc' = [pc EXCEPT ![t] = "run"]
            /\ UNCHANGED slotq
       ELSE /\ slotq' = Append(slotq, <<t, First>>)
            /\ pc' = [pc EXCEPT ![t] = "wait"]
            /\ UNCHANGED <<slots, held, taken>>
    /\ UNCHANGED <<callVars, permits, permitq, winVars, history>>

\* The turn ends and turn_slot() is left.
Finish(t) ==
    /\ pc[t] = "run"
    /\ Quiet(t)
    /\ Release(t)
    /\ pc' = [pc EXCEPT ![t] = "done"]
    /\ UNCHANGED <<callVars, slotq, permits, permitq, winVars, history>>

-----------------------------------------------------------------------------
(* Tool calls *)

\* A round of calls that run at the same time, or of a single one
CallTools(t, K) ==
    /\ pc[t] = "run"
    /\ Quiet(t)
    /\ rounds[t] < Rounds
    /\ rounds' = [rounds EXCEPT ![t] = @ + 1]
    /\ at' = [at EXCEPT ![t] = [c \in Calls |-> IF c \in K THEN "run" ELSE "none"]]
    /\ UNCHANGED <<pc, child, held, semVars, winVars, taken, history>>

\* delegate_task, never at the same time as another call
Delegate(t, c) ==
    /\ pc[t] = "run"
    /\ Quiet(t)
    /\ rounds[t] < Rounds
    /\ rounds' = [rounds EXCEPT ![t] = @ + 1]
    /\ child' = child \cup {<<t, c>>}
    /\ IF PermitAtOnce
       THEN permits' = permits - 1 /\ Put(t, c, "run") /\ UNCHANGED permitq
       ELSE permitq' = Append(permitq, t) /\ Put(t, c, "queue") /\ UNCHANGED permits
    /\ UNCHANGED <<pc, held, slots, slotq, winVars, taken, history>>

\* A call is over; a subagent gives its permit back.
Leave(t, c, permit) ==
    /\ Put(t, c, "none")
    /\ child' = child \ {<<t, c>>}
    /\ permits' = IF permit /\ <<t, c>> \in child THEN permits + 1 ELSE permits

Return(t, c) ==
    /\ at[t][c] \in {"run", "rest"}
    /\ Leave(t, c, TRUE)
    /\ UNCHANGED <<pc, rounds, held, slots, slotq, permitq, winVars, taken, history>>

\* request_approval() in a call, or in its subagent: the slot is handed back.
Prompt(t, c) ==
    /\ at[t][c] = "run"
    /\ Put(t, c, "ask")
    /\ Release(t)
    /\ UNCHANGED <<pc, child, rounds, slotq, permits, permitq, winVars, history>>

\* Mutant: the call goes on without a slot.
AnswerGoesOn(t, c) ==
    /\ at[t][c] = "ask"
    /\ Put(t, c, "rest")
    /\ UNCHANGED <<pc, child, rounds, held, semVars, winVars, taken, history>>

\* Another call of the turn waits for a slot.
Twin(t, c) == \E d \in Calls \ {c} : at[t][d] = "back"

\* _acquire_slot() of a call whose prompt was answered.
Reacquire(t, c) ==
    IF SlotAtOnce
    THEN /\ Take(t)
         /\ slots' = slots - 1
         /\ Put(t, c, "rest")
         /\ UNCHANGED <<slotq, twins>>
    ELSE /\ slotq' = Append(slotq, <<t, c>>)
         /\ Put(t, c, "back")
         /\ twins' = IF Twin(t, c) THEN twins \cup {t} ELSE twins
         /\ UNCHANGED <<slots, held, taken>>

\* Mutant: reacquire() does not look at the holder.
AnswerUnchecked(t, c) ==
    /\ at[t][c] = "ask"
    /\ Reacquire(t, c)
    /\ UNCHANGED <<pc, child, rounds, permits, permitq, winVars, late>>

\* The human decides; reacquire() looks at the holder before it waits and not
\* afterwards.
Answer(t, c) ==
    /\ at[t][c] = "ask"
    /\ IF held[t]
       THEN Put(t, c, "rest") /\ UNCHANGED <<slots, slotq, held, taken, twins>>
       ELSE Reacquire(t, c)
    /\ UNCHANGED <<pc, child, rounds, permits, permitq, winVars, late>>

\* Mutant: no deadline while a call waits for a slot.
TimeoutQueuedOnly(t, c) ==
    /\ at[t][c] = "queue"
    /\ permitq' = Without(permitq, t)
    /\ Leave(t, c, FALSE)
    /\ UNCHANGED <<pc, rounds, held, slots, slotq, winVars, taken, history>>

\* The deadline of a call passes while it waits for a permit or a slot: the
\* call fails and the turn goes on, without a slot in the second case.
Timeout(t, c) ==
    /\ at[t][c] \in {"queue", "back"}
    /\ permitq' = Without(permitq, t)
    /\ slotq' = Without(slotq, <<t, c>>)
    /\ Leave(t, c, at[t][c] = "back")
    /\ late' = IF at[t][c] = "back" THEN late \cup {t} ELSE late
    /\ UNCHANGED <<pc, rounds, held, slots, winVars, taken, twins>>

-----------------------------------------------------------------------------
(* The re-entry: it drains the slots, and delegates in the window.  Its      *)
(* subagent is at depth 0 and may delegate once more.                        *)

InWindow == win \in {"permit", "run", "nestwait", "nest", "rest"}

Least(a, b) == IF a < b THEN a ELSE b

\* delegate() of the re-entry, from its exclusive window
EnterWindow ==
    IF PermitAtOnce
    THEN win' = "run" /\ permits' = permits - 1 /\ UNCHANGED permitq
    ELSE win' = "permit" /\ permitq' = Append(permitq, Window) /\ UNCHANGED permits

\* exclusive(): take what is free, wait for the rest one by one
OpenWindow ==
    /\ win = "idle"
    /\ LET k == IF SlotAtOnce THEN Least(slots, N) ELSE 0 IN
         /\ slots' = slots - k
         /\ drained' = k
         /\ IF k = N
            THEN EnterWindow /\ UNCHANGED slotq
            ELSE /\ slotq' = Append(slotq, Window)
                 /\ win' = "drain"
                 /\ UNCHANGED <<permits, permitq>>
    /\ UNCHANGED <<pc, callVars, held, taken, history>>

Nest ==
    /\ win = "run"
    /\ IF PermitAtOnce
       THEN win' = "nest" /\ permits' = permits - 1 /\ UNCHANGED permitq
       ELSE /\ win' = "nestwait"
            /\ permitq' = Append(permitq, Window)
            /\ UNCHANGED permits
    /\ UNCHANGED <<pc, callVars, held, slots, slotq, drained, taken, history>>

NestReturns ==
    /\ win = "nest"
    /\ win' = "rest"
    /\ permits' = permits + 1
    /\ UNCHANGED <<pc, callVars, held, slots, slotq, permitq, drained, taken, history>>

CloseWindow ==
    /\ win \in {"run", "rest"}
    /\ win' = "idle"
    /\ permits' = permits + 1
    /\ slots' = slots + drained
    /\ drained' = 0
    /\ UNCHANGED <<pc, callVars, held, slotq, permitq, taken, history>>

-----------------------------------------------------------------------------
(* A free slot or permit goes to the waiter at the front. *)

GrantSlot ==
    /\ slots > 0
    /\ slotq # <<>>
    /\ IF Head(slotq) = Window
       THEN /\ drained' = drained + 1
            /\ IF drained + 1 = N
               THEN EnterWindow /\ slotq' = Tail(slotq)
               ELSE /\ slotq' = Append(Tail(slotq), Window)
                    /\ UNCHANGED <<win, permits, permitq>>
            /\ UNCHANGED <<pc, at, held, taken>>
       ELSE LET t == Head(slotq)[1]
                c == Head(slotq)[2]
            IN /\ slotq' = Tail(slotq)
               /\ Take(t)
               /\ IF c = First
                  THEN pc' = [pc EXCEPT ![t] = "run"] /\ UNCHANGED at
                  ELSE Put(t, c, "rest") /\ UNCHANGED pc
               /\ UNCHANGED <<winVars, permits, permitq>>
    /\ slots' = slots - 1
    /\ UNCHANGED <<child, rounds, history>>

GrantPermit ==
    /\ permits > 0
    /\ permitq # <<>>
    /\ permits' = permits - 1
    /\ permitq' = Tail(permitq)
    /\ IF Head(permitq) = Window
       THEN win' = (IF win = "permit" THEN "run" ELSE "nest") /\ UNCHANGED at
       ELSE /\ \E c \in Calls : at[Head(permitq)][c] = "queue"
                                  /\ Put(Head(permitq), c, "run")
            /\ UNCHANGED win
    /\ UNCHANGED <<pc, child, rounds, held, slots, slotq, drained, taken, history>>

-----------------------------------------------------------------------------
Next ==
    \/ \E t \in Turns :
         \/ Start(t) \/ Finish(t)
         \/ \E K \in SUBSET Calls \ {{}} : CallTools(t, K)
         \/ \E c \in Calls :
              \/ Delegate(t, c) \/ Return(t, c) \/ Prompt(t, c)
              \/ Answer(t, c) \/ Timeout(t, c)
    \/ OpenWindow \/ Nest \/ NestReturns \/ CloseWindow
    \/ GrantSlot \/ GrantPermit

Spec == Init /\ [][Next]_vars

\* A call that runs ends by its deadline, one that waits by its deadline too, a
\* turn has finitely many rounds and a subagent finitely many iterations; a
\* released semaphore wakes its first waiter.  Nobody makes a human answer.
Fairness ==
    /\ \A t \in Turns : WF_vars(Finish(t))
    /\ \A t \in Turns, c \in Calls : WF_vars(Return(t, c)) /\ WF_vars(Timeout(t, c))
    /\ WF_vars(NestReturns) /\ WF_vars(CloseWindow)
    /\ WF_vars(GrantSlot) /\ WF_vars(GrantPermit)

FairSpec == Spec /\ Fairness

-----------------------------------------------------------------------------
(* Properties *)

TypeOK ==
    /\ pc \in [Turns -> {"idle", "wait", "run", "done"}]
    /\ at \in [Turns -> [Calls -> {"none", "queue", "run", "ask", "back", "rest"}]]
    /\ child \subseteq Turns \X Calls
    /\ rounds \in [Turns -> 0 .. Rounds]
    /\ held \in [Turns -> BOOLEAN]
    /\ slots \in 0 .. N
    /\ slotq \in Seq((Turns \X (Calls \cup {First})) \cup {Window})
    /\ permits \in 0 .. M
    /\ permitq \in Seq(Turns \cup {Window})
    /\ win \in {"idle", "drain", "permit", "run", "nestwait", "nest", "rest"}
    /\ drained \in 0 .. N
    /\ taken \in [Turns -> 0 .. N]
    /\ twins \subseteq Turns /\ late \subseteq Turns

\* A turn gives back every slot it took, and never holds two, unless two of
\* its calls once waited for a slot at the same time: reacquire() of the second
\* one does not look at the holder again, and the slot may be lost for good.
\* All other orders of prompts, answers, deadlines and grants of parallel calls
\* keep the one holder and the semaphore in step.
LeakOnlyByTwins ==
    \A t \in Turns \ twins : taken[t] = IF held[t] THEN 1 ELSE 0

Executes(t) ==
    /\ pc[t] = "run"
    /\ Quiet(t) \/ \E c \in Calls : at[t][c] \in {"run", "rest"}

\* "Run with no turn in flight": a turn executes during an exclusive window
\* only when the deadline of a call ended its wait for the slot, or while a
\* parallel call of it waits for a human or for the slot.
AloneUnlessSlotless ==
    InWindow => \A t \in Turns :
        Executes(t) => \/ t \in late
                       \/ \E c \in Calls : at[t][c] \in {"ask", "back"}

Asking == {p \in child : at[p[1]][p[2]] = "ask"}

\* A human who does not answer keeps others waiting: the window waits for a
\* permit and the permits are with subagents that ask, or a call asks while
\* another one holds the slot of its turn.
HumanBlocks ==
    \/ win = "permit" /\ Cardinality(Asking) = M
    \/ win = "nestwait" /\ Cardinality(Asking) = M - 1
    \/ \E t \in Turns : held[t] /\ \E c \in Calls : at[t][c] = "ask"

\* A turn gets its first slot, and a window opens and closes, although no human
\* ever answers, unless unanswered prompts block the others or a slot was lost.
\* Waits of calls for slots and permits form no cycle that a deadline would not
\* break.
AdmittedUnlessBlocked ==
    ([]<>~HumanBlocks /\ [](\A t \in Turns : taken[t] <= 1)) =>
        /\ \A t \in Turns : pc[t] = "wait" ~> pc[t] # "wait"
        /\ win # "idle" ~> win = "idle"
=============================================================================
