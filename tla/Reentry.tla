------------------------------ MODULE Reentry ------------------------------
(* Re-entry of finished tasks: the triggers (storage/reentry_store.py), the  *)
(* tick of the driver (scheduler/reentry_driver.py), the dispatch of time    *)
(* and event triggers (scheduler/reentry_service.py) and the governed        *)
(* delivery of a result (scheduler/reentry_send.py, security/send_trust.py). *)
(*                                                                           *)
(* A trigger is claimed in the store before its subagent runs, and the       *)
(* subagent runs in an exclusive window behind the shared gate, whose exit   *)
(* pops the context manager that was pushed last.  Claims survive a crash of *)
(* the daemon; budgets, trust and the keys of sent messages do not.          *)
(*                                                                           *)
(* An action is what a task does up to its next await, but the loop over a   *)
(* list of triggers takes one step per trigger, during which no other task   *)
(* runs.                                                                     *)
EXTENDS Integers, Sequences, SequencesExt, FiniteSets

CONSTANTS
    Triggers,       \* the triggers, each armed at most once
    Stored,         \* the ones armed before the first lifetime
    TimeTriggers,   \* the ones of kind "time", the others are of kind "event"
    Deadlines,      \* the ones with a deadline
    MaxReentries,   \* max_reentries of a trigger
    Scopes,         \* sources of inbound events: a chat of a platform, a device
    Chats,          \* the scopes that are chats
    Filter,         \* the scopes that the event_match of a trigger admits
    Addressed,      \* the triggers whose event_match names a platform and a chat
    Ticker,         \* the task of the periodic tick
    Handlers,       \* tasks that handle an inbound event
    Texts,          \* summaries of a subagent, the empty one left out
    MaxPerTick,     \* triggers dispatched by one tick
    Budget,         \* global_budget of dispatches, 0 for none
    SendBudget,     \* global_budget of sends, 0 for none
    RatePerHour,    \* sends per chat and hour, 0 for no limit
    VerifiedAt,     \* human approvals that make a chat trusted
    Lifetimes,      \* bound: daemon lifetimes
    Nobody          \* no task

Tasks == Handlers \cup {Ticker}

ASSUME ReentryAssumption ==
    /\ IsFiniteSet(Triggers) /\ IsFiniteSet(Tasks) /\ IsFiniteSet(Texts)
    /\ Stored \subseteq Triggers
    /\ TimeTriggers \subseteq Triggers /\ Deadlines \subseteq Triggers
    /\ Chats \subseteq Scopes
    /\ MaxReentries \in [Triggers -> Nat \ {0}]
    /\ Filter \in [Triggers -> SUBSET Scopes]
    /\ Addressed \subseteq Triggers
    /\ \A t \in Addressed : \E c \in Chats : Filter[t] = {c}
    /\ Ticker \notin Handlers /\ Nobody \notin Tasks
    /\ MaxPerTick \in Nat \ {0} /\ VerifiedAt \in Nat \ {0}
    /\ Budget \in Nat /\ SendBudget \in Nat /\ RatePerHour \in Nat
    /\ Lifetimes \in Nat \ {0}

NoTrigger == "none"
NoText == "empty"
Keys == Triggers \X Texts

VARIABLES
    state,      \* the row of a trigger: its state, "absent" before it is armed,
    used,       \* reentries_used,
    lapsed,     \* whether its deadline has passed
    dueq,       \* the time triggers that are due, oldest first
    up,         \* whether the daemon runs
    lives,      \* lifetimes so far
    pc,         \* where a task is
    todo,       \* the triggers it has listed and not looked at
    late,       \* the ones past their deadline when the tick began
    cur,        \* the trigger it dispatches
    text,       \* the summary it delivers
    stack,      \* _ExclusiveGate._stack: the tasks that pushed, or Nobody for
                \* one that was cancelled
    lockq,      \* the tasks that wait at the gate, oldest first
    inside,     \* the task whose exclusive window is open
    stuck,      \* whether a window was left open for good
    total,      \* _dispatched_total
    sent,       \* _sent_total
    seen,       \* _seen_keys
    rate,       \* sends of the last hour, per chat
    allows,     \* approvals, per chat
    frozen,     \* chats frozen by a denial
    started,    \* history: subagents started for a trigger
    delivered,  \* history: messages that left for a trigger
    copies,     \* history: how often a text of it left in this lifetime
    excused     \* history: the ones decided on or sent before they were seen

rowVars == <<state, used, lapsed, dueq>>
gateVars == <<stack, lockq, inside, stuck>>
sendVars == <<sent, seen, rate, allows, frozen>>
history == <<started, delivered, copies, excused>>
vars == <<rowVars, up, lives, pc, todo, late, cur, text, gateVars, total, sendVars,
          history>>

Init ==
    /\ state = [t \in Triggers |-> IF t \in Stored THEN "armed" ELSE "absent"]
    /\ used = [t \in Triggers |-> 0]
    /\ lapsed = [t \in Triggers |-> FALSE]
    /\ dueq = <<>>
    /\ up = TRUE /\ lives = 1
    /\ pc = [s \in Tasks |-> "idle"]
    /\ todo = [s \in Tasks |-> <<>>] /\ late = {}
    /\ cur = [s \in Tasks |-> NoTrigger]
    /\ text = [s \in Tasks |-> NoText]
    /\ stack = <<>> /\ lockq = <<>> /\ inside = Nobody /\ stuck = FALSE
    /\ total = 0 /\ sent = 0 /\ seen = {}
    /\ rate = [c \in Chats |-> 0]
    /\ allows = [c \in Chats |-> 0]
    /\ frozen = {}
    /\ started = [t \in Triggers |-> 0]
    /\ delivered = [t \in Triggers |-> 0]
    /\ copies = [k \in Keys |-> 0]
    /\ excused = {}

-----------------------------------------------------------------------------
(* The store *)

\* _schedule_reentry(), called by a turn
Schedule(t) ==
    /\ up
    /\ state[t] = "absent"
    /\ state' = [state EXCEPT ![t] = "armed"]
    /\ UNCHANGED <<used, lapsed, dueq, up, lives, pc, todo, late, cur, text,
                   gateVars, total, sendVars, history>>

\* Mutant: a trigger of either kind is listed as due.
ComeDueAnyKind(t) ==
    /\ state[t] = "armed"
    /\ t \notin ToSet(dueq)
    /\ dueq' = Append(dueq, t)
    /\ UNCHANGED <<state, used, lapsed, up, lives, pc, todo, late, cur, text,
                   gateVars, total, sendVars, history>>

\* due_at and the deadline pass.
ComeDue(t) ==
    /\ t \in TimeTriggers
    /\ state[t] = "armed"
    /\ t \notin ToSet(dueq)
    /\ dueq' = Append(dueq, t)
    /\ UNCHANGED <<state, used, lapsed, up, lives, pc, todo, late, cur, text,
                   gateVars, total, sendVars, history>>

Lapse(t) ==
    /\ t \in Deadlines
    /\ state[t] = "armed"
    /\ ~lapsed[t]
    /\ lapsed' = [lapsed EXCEPT ![t] = TRUE]
    /\ UNCHANGED <<state, used, dueq, up, lives, pc, todo, late, cur, text,
                   gateVars, total, sendVars, history>>

\* The queue q without t, which it has at most once
Without(q, t) ==
    IF t \in ToSet(q) THEN RemoveAt(q, CHOOSE i \in DOMAIN q : q[i] = t) ELSE q

Consumable(t) == state[t] = "armed" /\ used[t] < MaxReentries[t]

\* A tick compares with the time at which it began, a handler with the present.
Expired(s, t) == IF s = Ticker THEN t \in late ELSE lapsed[t]

\* Mutant: a trigger is claimed as it was listed.
ClaimUnchecked(s, t) ==
    /\ ~Expired(s, t)
    /\ used' = [used EXCEPT ![t] = @ + 1]
    /\ state' = [state EXCEPT ![t] =
                   IF used[t] + 1 >= MaxReentries[t] THEN "exhausted" ELSE @]
    /\ dueq' = Without(dueq, t)
    /\ UNCHANGED lapsed

\* fire() of a trigger that can be claimed, and advance_due() of the tick
Claim(s, t) ==
    /\ Consumable(t)
    /\ ~Expired(s, t)
    /\ used' = [used EXCEPT ![t] = @ + 1]
    /\ state' = [state EXCEPT ![t] =
                   IF used[t] + 1 >= MaxReentries[t] THEN "exhausted" ELSE @]
    /\ dueq' = Without(dueq, t)
    /\ UNCHANGED lapsed

\* Mutant: a trigger past its deadline stays armed.
ClaimRefusedKeeps(s, t) ==
    /\ ~Consumable(t) \/ Expired(s, t)
    /\ UNCHANGED rowVars

\* fire() of one that cannot
ClaimRefused(s, t) ==
    /\ ~Consumable(t) \/ Expired(s, t)
    /\ IF Consumable(t)
       THEN /\ state' = [state EXCEPT ![t] = "exhausted"]
            /\ dueq' = Without(dueq, t)
       ELSE UNCHANGED <<state, dueq>>
    /\ UNCHANGED <<used, lapsed>>

-----------------------------------------------------------------------------
(* The tick and the inbound events list triggers and dispatch them in turn. *)

Begin(s, list) ==
    /\ up
    /\ pc[s] = "idle"
    /\ list # <<>>
    /\ pc' = [pc EXCEPT ![s] = "loop"]
    /\ todo' = [todo EXCEPT ![s] = list]
    /\ late' = IF s = Ticker THEN {t \in ToSet(list) : lapsed[t]} ELSE late
    /\ UNCHANGED <<rowVars, up, lives, cur, text, gateVars, total, sendVars,
                   history>>

\* list_due() and the slice of max_per_tick
ListDue ==
    SubSeq(dueq, 1, IF Len(dueq) < MaxPerTick THEN Len(dueq) ELSE MaxPerTick)

Tick == Begin(Ticker, ListDue)

\* list_armed_events() and event_matches(), in the order of the rows
ListArmed(scope) ==
    SetToSeqs({t \in Triggers \ TimeTriggers :
                 state[t] = "armed" /\ scope \in Filter[t]})

Inbound(s, scope) == \E q \in ListArmed(scope) : Begin(s, q)

\* The dispatch of the current trigger is over; the next one, or the end.
Done(s, rest) ==
    /\ pc' = [pc EXCEPT ![s] = IF rest = <<>> THEN "idle" ELSE "loop"]
    /\ todo' = [todo EXCEPT ![s] = rest]
    /\ late' = IF s = Ticker THEN late \cap ToSet(rest) ELSE late
    /\ cur' = [cur EXCEPT ![s] = NoTrigger]
    /\ text' = [text EXCEPT ![s] = NoText]

\* Mutant: off by one.
BudgetOkOnceMore == Budget = 0 \/ total <= Budget

BudgetOk == Budget = 0 \/ total < Budget

Skip(s) ==
    /\ pc[s] = "loop"
    /\ ClaimRefused(s, Head(todo[s]))
    /\ Done(s, Tail(todo[s]))
    /\ UNCHANGED <<up, lives, gateVars, total, sendVars, history>>

\* The claim is used up although the budget does not allow the dispatch.
SkipOverBudget(s) ==
    /\ pc[s] = "loop"
    /\ Claim(s, Head(todo[s]))
    /\ ~BudgetOk
    /\ Done(s, Tail(todo[s]))
    /\ UNCHANGED <<up, lives, gateVars, total, sendVars, history>>

\* _dispatch() up to the gate
Dispatch(s) ==
    /\ pc[s] = "loop"
    /\ Claim(s, Head(todo[s]))
    /\ BudgetOk
    /\ pc' = [pc EXCEPT ![s] = "gate"]
    /\ cur' = [cur EXCEPT ![s] = Head(todo[s])]
    /\ todo' = [todo EXCEPT ![s] = Tail(@)] /\ late' = late
    /\ stack' = Append(stack, s)
    /\ lockq' = Append(lockq, s)
    /\ UNCHANGED <<up, lives, text, inside, stuck, total, sendVars, history>>

-----------------------------------------------------------------------------
(* The gate and the subagent *)

\* The exclusive lock is handed over in order of arrival; the turns that run
\* are waited for.
EnterGate(s) ==
    /\ pc[s] = "gate"
    /\ inside = Nobody
    /\ s = Head(lockq)
    /\ lockq' = Tail(lockq)
    /\ inside' = s
    /\ pc' = [pc EXCEPT ![s] = "run"]
    /\ started' = [started EXCEPT ![cur[s]] = @ + 1]
    /\ UNCHANGED <<rowVars, up, lives, todo, late, cur, text, stack, stuck, total,
                   sendVars, delivered, copies, excused>>

\* __aexit__: the window is closed only when its own entry is on top.
LeaveGate(s) ==
    /\ stack' = Front(stack)
    /\ lockq' = lockq
    /\ IF Last(stack) = s
       THEN inside' = Nobody /\ stuck' = stuck
       ELSE inside' = inside /\ stuck' = TRUE

\* The entry on top is that of a task that still waits for the gate: its
\* generator is running and __aexit__ raises.
ExitRaises(s) == Last(stack) \in ToSet(lockq)

Target(t) == IF t \in Addressed THEN Filter[t] ELSE {}
Trusted(c) == c \notin frozen /\ allows[c] >= VerifiedAt

\* decide(): a guard blocks the send, or it goes out, or a human is asked.
Blocked(t, x, c) ==
    \/ <<t, x>> \in seen
    \/ SendBudget > 0 /\ sent >= SendBudget
    \/ RatePerHour > 0 /\ rate[c] >= RatePerHour

Decide(s, x) ==
    IF x # NoText /\ \E c \in Target(cur[s]) : ~Blocked(cur[s], x, c)
    THEN \E c \in Target(cur[s]) :
           /\ rate' = [rate EXCEPT ![c] = IF RatePerHour > 0 THEN @ + 1 ELSE @]
           /\ pc' = [pc EXCEPT ![s] = IF Trusted(c) THEN "send" ELSE "ask"]
           /\ text' = [text EXCEPT ![s] = x]
           /\ excused' = IF \E r \in Tasks : /\ pc[r] \in {"ask", "send"}
                                               /\ <<cur[r], text[r]>> = <<cur[s], x>>
                         THEN excused \cup {<<cur[s], x>>} ELSE excused
           /\ UNCHANGED <<todo, late, cur>>
    ELSE Done(s, todo[s]) /\ UNCHANGED <<rate, excused>>

\* delegate() returns, also when it was cancelled, and the result is decided on.
RunReturns(s, x) ==
    /\ pc[s] = "run"
    /\ ~ExitRaises(s)
    /\ LeaveGate(s)
    /\ total' = total + 1
    /\ Decide(s, x)
    /\ UNCHANGED <<rowVars, up, lives, sent, seen, allows, frozen, started,
                   delivered, copies>>

\* An exception of the gate or of the delegation ends the dispatch, the
\* cancellation of a handler that waits for a permit its whole loop.
RunRaises(s, cancelled) ==
    /\ pc[s] = "run"
    /\ cancelled => s \in Handlers
    /\ LeaveGate(s)
    /\ Done(s, IF cancelled THEN <<>> ELSE todo[s])
    /\ UNCHANGED <<rowVars, up, lives, total, sendVars, history>>

\* The handler's task is cancelled at the gate: its entry stays on the stack.
CancelAtGate(s) ==
    /\ s \in Handlers
    /\ pc[s] = "gate"
    /\ Done(s, <<>>)
    /\ lockq' = Without(lockq, s)
    /\ stack' = [i \in DOMAIN stack |->
                   IF stack[i] = s THEN Nobody ELSE stack[i]]
    /\ UNCHANGED <<rowVars, up, lives, inside, stuck, total, sendVars,
                   history>>

-----------------------------------------------------------------------------
(* The delivery of the result *)

\* request_approval(): the tick has no route to a human and is denied.
Answered(s, yes) ==
    /\ pc[s] = "ask"
    /\ yes => s # Ticker
    /\ \E c \in Target(cur[s]) :
         IF yes
         THEN /\ allows' = [allows EXCEPT ![c] = @ + 1]
              /\ frozen' = frozen \ {c}
              /\ pc' = [pc EXCEPT ![s] = "send"]
              /\ UNCHANGED <<todo, late, cur, text>>
         ELSE /\ frozen' = frozen \cup {c}
              /\ Done(s, todo[s])
              /\ UNCHANGED allows
    /\ UNCHANGED <<rowVars, up, lives, gateVars, total, sent, seen, rate,
                   history>>

\* What is known of a message that left, or did not, without being recorded.
Unrecorded(s, left) ==
    LET key == <<cur[s], text[s]>> IN
    IF left
    THEN /\ delivered' = [delivered EXCEPT ![cur[s]] = @ + 1]
         /\ copies' = [copies EXCEPT ![key] = @ + 1]
         /\ excused' = excused \cup {key}
    ELSE UNCHANGED <<delivered, copies, excused>>

\* Mutant: record_sent() counts the message and forgets its key.
SentForgets(s) ==
    /\ pc[s] = "send"
    /\ delivered' = [delivered EXCEPT ![cur[s]] = @ + 1]
    /\ copies' = [copies EXCEPT ![<<cur[s], text[s]>>] = @ + 1]
    /\ sent' = sent + 1
    /\ Done(s, todo[s])
    /\ UNCHANGED <<rowVars, up, lives, gateVars, total, seen, rate, allows,
                   frozen, started, excused>>

\* _do_send() succeeds and record_sent() is called.
Sent(s) ==
    /\ pc[s] = "send"
    /\ delivered' = [delivered EXCEPT ![cur[s]] = @ + 1]
    /\ copies' = [copies EXCEPT ![<<cur[s], text[s]>>] = @ + 1]
    /\ sent' = sent + 1
    /\ seen' = seen \cup {<<cur[s], text[s]>>}
    /\ Done(s, todo[s])
    /\ UNCHANGED <<rowVars, up, lives, gateVars, total, rate, allows, frozen,
                   started, excused>>

\* It fails; the message may have left all the same.
SendFails(s, left) ==
    /\ pc[s] = "send"
    /\ Unrecorded(s, left)
    /\ Done(s, todo[s])
    /\ UNCHANGED <<rowVars, up, lives, gateVars, total, sendVars, started>>

\* The handler's task is cancelled while it waits for a human or a send.
CancelDelivery(s, left) ==
    /\ s \in Handlers
    /\ pc[s] \in {"ask", "send"}
    /\ left => pc[s] = "send"
    /\ Unrecorded(s, left)
    /\ Done(s, <<>>)
    /\ UNCHANGED <<rowVars, up, lives, gateVars, total, sendVars, started>>

HourPasses(c) ==
    /\ rate[c] > 0
    /\ rate' = [rate EXCEPT ![c] = @ - 1]
    /\ UNCHANGED <<rowVars, up, lives, pc, todo, late, cur, text, gateVars, total,
                   sent, seen, allows, frozen, history>>

-----------------------------------------------------------------------------
(* The daemon stops or crashes: what is in memory is gone. *)

Down ==
    /\ up
    /\ lives < Lifetimes
    /\ up' = FALSE
    /\ pc' = [s \in Tasks |-> "idle"]
    /\ todo' = [s \in Tasks |-> <<>>] /\ late' = {}
    /\ cur' = [s \in Tasks |-> NoTrigger]
    /\ text' = [s \in Tasks |-> NoText]
    /\ stack' = <<>> /\ lockq' = <<>> /\ inside' = Nobody /\ stuck' = FALSE
    /\ total' = 0 /\ sent' = 0 /\ seen' = {}
    /\ rate' = [c \in Chats |-> 0]
    /\ allows' = [c \in Chats |-> 0]
    /\ frozen' = {}
    /\ \E lost \in SUBSET {s \in Tasks : pc[s] = "send"} :
         delivered' = [t \in Triggers |->
                         delivered[t] + Cardinality({s \in lost : cur[s] = t})]
    /\ copies' = [k \in Keys |-> 0]
    /\ excused' = {}
    /\ UNCHANGED <<rowVars, lives, started>>

Up ==
    /\ ~up
    /\ lives' = lives + 1
    /\ up' = TRUE
    /\ UNCHANGED <<rowVars, pc, todo, late, cur, text, gateVars, total, sendVars,
                   history>>

-----------------------------------------------------------------------------
\* Between two awaits a task goes through its list alone; only a crash comes
\* in between.
Loop(s) == Skip(s) \/ SkipOverBudget(s) \/ Dispatch(s)

NoLoop == \A s \in Tasks : pc[s] # "loop"

Work(s) ==
    /\ NoLoop
    /\ \/ EnterGate(s)
       \/ \E cancelled \in BOOLEAN : RunRaises(s, cancelled)
       \/ \E x \in Texts \cup {NoText} : RunReturns(s, x)
       \/ Sent(s)
       \/ \E left \in BOOLEAN : SendFails(s, left)

Ask(s, yes) == NoLoop /\ Answered(s, yes)

World ==
    /\ NoLoop
    /\ \/ \E t \in Triggers : Schedule(t) \/ ComeDue(t) \/ Lapse(t)
       \/ \E s \in Handlers, c \in Scopes : Inbound(s, c)
       \/ \E s \in Tasks : CancelAtGate(s)
       \/ \E s \in Tasks, left \in BOOLEAN : CancelDelivery(s, left)
       \/ \E c \in Chats : HourPasses(c)

Next ==
    \/ NoLoop /\ Tick
    \/ World
    \/ \E s \in Tasks : Loop(s) \/ Work(s) \/ \E yes \in BOOLEAN : Ask(s, yes)
    \/ Down \/ Up

Spec == Init /\ [][Next]_vars

\* The tick is periodic, a ready task runs, a subagent and a send end by their
\* timeouts, and a denial without a route is immediate.  Nobody makes a human
\* answer.  That a daemon that ended is started again is assumed of its users.
Fairness ==
    /\ WF_vars(NoLoop /\ Tick)
    /\ \A s \in Tasks : WF_vars(Loop(s)) /\ WF_vars(Work(s))
    /\ WF_vars(Ask(Ticker, FALSE))
    /\ WF_vars(Up)

FairSpec == Spec /\ Fairness

-----------------------------------------------------------------------------
(* Properties *)

TypeOK ==
    /\ state \in [Triggers -> {"absent", "armed", "exhausted"}]
    /\ used \in [Triggers -> Nat]
    /\ lapsed \in [Triggers -> BOOLEAN]
    /\ dueq \in Seq(TimeTriggers)
    /\ up \in BOOLEAN /\ lives \in 1 .. Lifetimes
    /\ pc \in [Tasks -> {"idle", "loop", "gate", "run", "ask", "send"}]
    /\ todo \in [Tasks -> Seq(Triggers)] /\ late \subseteq Triggers
    /\ cur \in [Tasks -> Triggers \cup {NoTrigger}]
    /\ text \in [Tasks -> Texts \cup {NoText}]
    /\ stack \in Seq(Tasks \cup {Nobody})
    /\ lockq \in Seq(Tasks)
    /\ inside \in Tasks \cup {Nobody}
    /\ stuck \in BOOLEAN
    /\ total \in Nat /\ sent \in Nat
    /\ seen \subseteq Keys
    /\ rate \in [Chats -> Nat] /\ allows \in [Chats -> Nat]
    /\ frozen \subseteq Chats
    /\ started \in [Triggers -> Nat] /\ delivered \in [Triggers -> Nat]
    /\ copies \in [Keys -> Nat] /\ excused \subseteq Keys

\* A claim starts at most one subagent and delivers at most one message, so
\* both stay within max_reentries of the trigger, whatever is listed twice,
\* cancelled, repeated or lost by a crash.
AtMostOncePerClaim ==
    \A t \in Triggers :
        delivered[t] <= started[t] /\ started[t] <= used[t]
                                   /\ used[t] <= MaxReentries[t]

\* "Global budget: a lifetime cap across all triggers": the check comes before
\* the awaited subagent and the count after it, and still no daemon dispatches
\* more than the budget.
BudgetKept == Budget > 0 => total <= Budget

\* "a re-fired trigger cannot double-send the same content": within a lifetime
\* it does so only when the second result was decided on while the first was
\* under way, or when a message left although its send failed.
RepeatOnlyUnseen == \A k \in Keys : copies[k] > 1 => k \in excused

\* A trigger that is due is claimed or given up, by this daemon or a later one,
\* unless two tasks met at the gate and blocked it.
DueClaimed ==
    \A t \in TimeTriggers :
        t \in ToSet(dueq) ~> t \notin ToSet(dueq) \/ stuck
=============================================================================
