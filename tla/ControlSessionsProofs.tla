----------------------- MODULE ControlSessionsProofs -----------------------
(***************************************************************************)
(* Type correctness, the ownership of control loops and the single halt of *)
(* a session's policy, for every number of sessions, devices and           *)
(* connections.                                                            *)
(***************************************************************************)
EXTENDS ControlSessions, TLAPS

\* A thread that has not set _running was left behind by a start that timed
\* out.  Where none did, a device has at most one thread, and _running is set
\* as long as it loops.
Threads ==
  \A d \in Devices :
    /\ starting[d] <= timeouts[d]
    /\ timeouts[d] = 0 => looping[d] <= 1 /\ (looping[d] = 1 => running[d])

\* A session that was not abandoned owes nothing to its device, and a policy
\* that waits for its device has not halted it.
HaltsPending ==
  /\ \A s \in Sessions : st[s] # "commloss" => halts[s] = 0 /\ s \notin halting
  /\ \A s \in halting : halts[s] = 0
  /\ \A s \in Sessions : halts[s] <= 1

IInv == TypeOK /\ Threads /\ LoopOwned /\ HaltsPending

\* The initial states satisfy the invariant.
LEMMA InitIInv == Init => IInv
BY BoundAssumption
   DEF Init, IInv, TypeOK, Threads, LoopOwned, HaltsPending, Live, Dev

\* What stopping a loop changes: the flag of its device, when it runs.
LEMMA StopLoopFacts ==
  ASSUME TypeOK, NEW d \in Devices, StopLoop(d)
  PROVE  /\ stopRequested' \in [Devices -> BOOLEAN]
         /\ running[d] => stopRequested'[d]
         /\ \A e \in Devices : e # d => stopRequested'[e] = stopRequested[e]
         /\ ~running[d] => stopRequested'[d] = stopRequested[d]
         /\ UNCHANGED <<running, starting, looping, timeouts>>
BY DEF TypeOK, StopLoop

\* A live session is stopped, for whatever reason: the loops keep their owners.
LEMMA StopKeepsOwners ==
  ASSUME TypeOK, Threads, LoopOwned, NEW s \in Sessions, st[s] = "live",
         StopLoop(Dev(s)), NEW r \in {"closed", "commloss"},
         st' = [st EXCEPT ![s] = r],
         UNCHANGED <<req, deviceSession>>
  PROVE  Threads' /\ LoopOwned'
<1>1. Dev(s) \in Devices
  BY DEF TypeOK, Dev
<1>2. /\ running[Dev(s)] => stopRequested'[Dev(s)]
      /\ \A e \in Devices : e # Dev(s) => stopRequested'[e] = stopRequested[e]
      /\ UNCHANGED <<running, starting, looping, timeouts>>
  BY <1>1, StopLoopFacts
<1>3. Threads'
  BY <1>2 DEF Threads
<1>4. LoopOwned'
  <2> SUFFICES ASSUME NEW d \in Devices, looping[d] > 0, ~stopRequested'[d],
                      timeouts[d] = 0
               PROVE  deviceSession[d] \in Live' /\ Dev(deviceSession[d])' = d
    BY <1>2 DEF LoopOwned, TypeOK
  <2>1. running[d]
    BY DEF Threads, TypeOK
  <2>2. d # Dev(s) /\ ~stopRequested[d]
    BY <1>2, <2>1
  <2>3. deviceSession[d] \in Live /\ Dev(deviceSession[d]) = d
    BY <2>2 DEF LoopOwned
  <2>4. deviceSession[d] # s
    BY <2>2, <2>3
  <2> QED
    BY <2>3, <2>4 DEF Live, Dev, TypeOK
<1> QED
  BY <1>3, <1>4

\* Steps that leave the loops, the registrations and the sessions alone.
LEMMA QuietLoops ==
  ASSUME Threads, LoopOwned, UNCHANGED <<req, st, deviceSession, loopVars>>
  PROVE  Threads' /\ LoopOwned'
BY DEF Threads, LoopOwned, Live, Dev, loopVars

\* Steps that leave the sessions and their halts alone.
LEMMA QuietHalts ==
  ASSUME HaltsPending, UNCHANGED <<st, halting, halts>>
  PROVE  HaltsPending'
BY DEF HaltsPending

\* A halt() on behalf of an abandoned session that was not halted before.
LEMMA HaltResultOnce ==
  ASSUME TypeOK, HaltsPending, NEW s \in Sessions, halts[s] = 0,
         HaltResult(s), st'[s] = "commloss",
         \A t \in Sessions : t # s => st'[t] = st[t],
         halting' \subseteq halting, s \notin halting'
  PROVE  /\ HaltsPending'
         /\ halts' \in [Sessions -> Nat]
         /\ opened' \subseteq Devices
<1>1. Dev(s) \in Devices
  BY DEF TypeOK, Dev
<1>2. /\ halts' \in [Sessions -> Nat]
      /\ halts'[s] <= 1
      /\ \A t \in Sessions : t # s => halts'[t] = halts[t]
      /\ opened' \subseteq Devices
  BY <1>1 DEF HaltResult, TypeOK
<1>3. HaltsPending'
  BY <1>2 DEF HaltsPending, TypeOK
<1> QED
  BY <1>2, <1>3

\* Every step of the node preserves the invariant.
LEMMA NextIInv == IInv /\ [Next]_vars => IInv'
<1> SUFFICES ASSUME IInv, [Next]_vars PROVE IInv'
  OBVIOUS
<1> USE BoundAssumption
<1>0. TypeOK /\ Threads /\ LoopOwned /\ HaltsPending
  BY DEF IInv
<1> USE <1>0
<1>1. ASSUME NEW s \in Sessions, OpenBegin(s) PROVE IInv'
  <2>1. TypeOK'
    BY <1>1 DEF OpenBegin, Handle, TypeOK, Conn, loopVars
  <2>2. Threads' /\ LoopOwned'
    BY <1>1 DEF OpenBegin, Handle, Threads, LoopOwned, Live, Dev, TypeOK, loopVars
  <2>3. HaltsPending'
    BY <1>1 DEF OpenBegin, Handle, HaltsPending, TypeOK
  <2> QED BY <2>1, <2>2, <2>3 DEF IInv
<1>2. ASSUME NEW s \in Sessions, OpenFail(s) PROVE IInv'
  <2>1. TypeOK'
    BY <1>2 DEF OpenFail, TypeOK, connVars, loopVars
  <2>2. Threads' /\ LoopOwned'
    BY <1>2 DEF OpenFail, Threads, LoopOwned, Live, Dev, TypeOK, loopVars
  <2>3. HaltsPending'
    BY <1>2 DEF OpenFail, HaltsPending, TypeOK
  <2> QED BY <2>1, <2>2, <2>3 DEF IInv
<1>14. ASSUME NEW s \in Sessions, OpenTimeout(s) PROVE IInv'
  <2> DEFINE d == Dev(s)
  <2>1. d \in Devices
    BY DEF TypeOK, Dev
  <2> HIDE DEF d
  <2>2. /\ st[s] = "opening" /\ timeouts[d] < MaxTimeouts /\ ~running[d]
        /\ stopRequested' = [stopRequested EXCEPT ![d] = FALSE]
        /\ starting' = [starting EXCEPT ![d] = @ + 1]
        /\ timeouts' = [timeouts EXCEPT ![d] = @ + 1]
        /\ opened' = Known(d)
        /\ st' = [st EXCEPT ![s] = "unused"]
        /\ UNCHANGED <<req, lease, halting, halts, cutOff, deviceSession, running, looping, connVars>>
    BY <1>14 DEF OpenTimeout, StartLoop, d
  <2>3. starting[d] + 1 <= timeouts[d] + 1 /\ timeouts[d] + 1 \in 0..MaxTimeouts
    BY <2>1, <2>2 DEF TypeOK, Threads
  <2>4. TypeOK'
    BY <2>1, <2>2, <2>3 DEF TypeOK, Known, connVars
  <2>5. Threads'
    BY <2>1, <2>2, <2>3 DEF Threads, TypeOK
  <2>6. LoopOwned'
    BY <2>1, <2>2 DEF LoopOwned, Live, Dev, TypeOK
  <2>7. HaltsPending'
    BY <2>2 DEF HaltsPending, TypeOK
  <2> QED BY <2>4, <2>5, <2>6, <2>7 DEF IInv
<1>3. ASSUME NEW s \in Sessions, OpenEnd(s) PROVE IInv'
  <2> DEFINE d == Dev(s)
  <2>1. d \in Devices
    BY DEF TypeOK, Dev
  <2>d. d = Dev(s)
    OBVIOUS
  <2> HIDE DEF d
  <2>2. /\ st[s] = "opening" /\ ~running[d]
        /\ stopRequested' = [stopRequested EXCEPT ![d] = FALSE]
        /\ starting' = [starting EXCEPT ![d] = @ + 0]
        /\ running' = [running EXCEPT ![d] = TRUE]
        /\ looping' = [looping EXCEPT ![d] = IF d \in Known(d) THEN @ + 1 ELSE @]
        /\ opened' = Known(d)
        /\ st' = [st EXCEPT ![s] = "live"]
        /\ lease' = [lease EXCEPT ![s] = Lease]
        /\ deviceSession' = [deviceSession EXCEPT ![d] = s]
        /\ UNCHANGED <<req, halting, halts, cutOff, timeouts, connVars>>
    BY <1>3 DEF OpenEnd, StartLoop, Signal, d
  <2>3. starting' = starting
    BY <2>1, <2>2 DEF TypeOK
  <2>4. TypeOK'
    BY <2>1, <2>2, <2>3 DEF TypeOK, Known, connVars
  <2>5. Threads'
    <3>1. timeouts[d] = 0 => looping[d] <= 1 /\ looping[d] # 1
      BY <2>1, <2>2 DEF Threads
    <3> QED
      BY <2>1, <2>2, <2>3, <3>1 DEF Threads, TypeOK
  <2>6. LoopOwned'
    BY <2>1, <2>2, <2>d DEF LoopOwned, Live, Dev, TypeOK
  <2>7. HaltsPending'
    BY <2>2 DEF HaltsPending, TypeOK
  <2> QED BY <2>4, <2>5, <2>6, <2>7 DEF IInv
<1>4. ASSUME NEW s \in Sessions, Renew(s) PROVE IInv'
  <2>1. TypeOK'
    BY <1>4 DEF Renew, Handle, TypeOK, Conn, loopVars
  <2>2. Threads' /\ LoopOwned'
    BY <1>4, QuietLoops DEF Renew, Handle
  <2>3. HaltsPending'
    BY <1>4, QuietHalts DEF Renew
  <2> QED BY <2>1, <2>2, <2>3 DEF IInv
<1>5. ASSUME NEW s \in Sessions, Close(s) PROVE IInv'
  <2>1. Dev(s) \in Devices
    BY DEF TypeOK, Dev
  <2>2. StopLoop(Dev(s))
    BY <1>5 DEF Close, StopSession
  <2>3. /\ stopRequested' \in [Devices -> BOOLEAN]
        /\ UNCHANGED <<running, starting, looping, timeouts>>
    BY <2>1, <2>2, StopLoopFacts
  <2>4. TypeOK'
    BY <1>5, <2>3 DEF Close, StopSession, Handle, TypeOK, Conn
  <2>5. Threads' /\ LoopOwned'
    BY <1>5, <2>2, StopKeepsOwners DEF Close, StopSession, Handle
  <2>6. HaltsPending'
    BY <1>5 DEF Close, StopSession, HaltsPending, TypeOK
  <2> QED BY <2>4, <2>5, <2>6 DEF IInv
<1>6. ASSUME NEW s \in Sessions, Expire(s) PROVE IInv'
  <2>1. Dev(s) \in Devices
    BY DEF TypeOK, Dev
  <2>2. StopLoop(Dev(s)) /\ st[s] = "live" /\ st' = [st EXCEPT ![s] = "commloss"]
    BY <1>6 DEF Expire, CommLoss
  <2>3. /\ stopRequested' \in [Devices -> BOOLEAN]
        /\ UNCHANGED <<running, starting, looping, timeouts>>
    BY <2>1, <2>2, StopLoopFacts
  <2>4. halts[s] = 0 /\ s \notin halting
    BY <2>2 DEF HaltsPending
  <2>5. Threads' /\ LoopOwned'
    BY <1>6, <2>2, StopKeepsOwners DEF Expire
  <2>6. CASE NoHalt
    <3>1. TypeOK'
      BY <1>6, <2>2, <2>3, <2>6 DEF Expire, NoHalt, TypeOK, connVars
    <3>2. HaltsPending'
      BY <2>2, <2>6 DEF NoHalt, HaltsPending, TypeOK
    <3> QED BY <2>5, <3>1, <3>2 DEF IInv
  <2>7. CASE HaltNow(s)
    <3>1. HaltsPending' /\ halts' \in [Sessions -> Nat] /\ opened' \subseteq Devices
      BY <2>2, <2>4, <2>7, HaltResultOnce DEF HaltNow, TypeOK
    <3>2. TypeOK'
      BY <1>6, <2>2, <2>3, <2>7, <3>1 DEF Expire, HaltNow, TypeOK, connVars
    <3> QED BY <2>5, <3>1, <3>2 DEF IInv
  <2>8. CASE cutOff' = cutOff \cup {s} /\ UNCHANGED <<halting, halts, opened>>
    <3>1. TypeOK'
      BY <1>6, <2>2, <2>3, <2>8 DEF Expire, TypeOK, connVars
    <3>2. HaltsPending'
      BY <2>2, <2>8 DEF HaltsPending, TypeOK
    <3> QED BY <2>5, <3>1, <3>2 DEF IInv
  <2> QED BY <1>6, <2>6, <2>7, <2>8 DEF Expire
<1>7. ASSUME NEW s \in Sessions, DropSession(s) PROVE IInv'
  <2>1. Dev(s) \in Devices /\ Conn(s) \in Conns
    BY DEF TypeOK, Dev, Conn
  <2>2. StopLoop(Dev(s)) /\ st[s] = "live" /\ st' = [st EXCEPT ![s] = "commloss"]
    BY <1>7 DEF DropSession, CommLoss
  <2>3. /\ stopRequested' \in [Devices -> BOOLEAN]
        /\ UNCHANGED <<running, starting, looping, timeouts>>
    BY <2>1, <2>2, StopLoopFacts
  <2>4. halts[s] = 0 /\ s \notin halting
    BY <2>2 DEF HaltsPending
  <2>5. Threads' /\ LoopOwned'
    BY <1>7, <2>2, StopKeepsOwners DEF DropSession
  <2>6. CASE NoHalt
    <3>1. TypeOK'
      BY <1>7, <2>1, <2>2, <2>3, <2>6 DEF DropSession, NoHalt, TypeOK
    <3>2. HaltsPending'
      BY <2>2, <2>6 DEF NoHalt, HaltsPending, TypeOK
    <3> QED BY <2>5, <3>1, <3>2 DEF IInv
  <2>7. CASE HaltNow(s)
    <3>1. HaltsPending' /\ halts' \in [Sessions -> Nat] /\ opened' \subseteq Devices
      BY <2>2, <2>4, <2>7, HaltResultOnce DEF HaltNow, TypeOK
    <3>2. TypeOK'
      BY <1>7, <2>1, <2>2, <2>3, <2>7, <3>1 DEF DropSession, HaltNow, TypeOK
    <3> QED BY <2>5, <3>1, <3>2 DEF IInv
  <2>8. CASE halting' = halting \cup {s} /\ UNCHANGED <<halts, cutOff, opened>>
    <3>1. TypeOK'
      BY <1>7, <2>1, <2>2, <2>3, <2>8 DEF DropSession, TypeOK
    <3>2. HaltsPending'
      BY <2>2, <2>4, <2>8 DEF HaltsPending, TypeOK
    <3> QED BY <2>5, <3>1, <3>2 DEF IInv
  <2> QED BY <1>7, <2>6, <2>7, <2>8 DEF DropSession
<1>8. ASSUME NEW s \in Sessions, HaltEnd(s) PROVE IInv'
  <2>1. halts[s] = 0 /\ st[s] = "commloss"
    BY <1>8 DEF HaltEnd, HaltsPending
  <2>2. HaltsPending' /\ halts' \in [Sessions -> Nat] /\ opened' \subseteq Devices
    BY <1>8, <2>1, HaltResultOnce DEF HaltEnd
  <2>3. TypeOK'
    BY <1>8, <2>2 DEF HaltEnd, TypeOK, connVars, loopVars
  <2>4. Threads' /\ LoopOwned'
    BY <1>8, QuietLoops DEF HaltEnd
  <2> QED BY <2>2, <2>3, <2>4 DEF IInv
<1>9. ASSUME NEW c \in Conns, Receive(c) \/ Refuse(c) \/ Drop(c) \/ Dropped(c)
      PROVE  IInv'
  <2>1. UNCHANGED <<req, sessVars, deviceSession, loopVars, opened>>
    BY <1>9 DEF Receive, Refuse, Handle, Drop, Dropped
  <2>2. TypeOK'
    <3>1. CASE Receive(c) \/ Refuse(c)
      BY <3>1, <2>1 DEF Receive, Refuse, Handle, TypeOK, sessVars, loopVars
    <3>2. CASE Drop(c)
      BY <3>2, <2>1 DEF Drop, TypeOK, sessVars, Live, loopVars
    <3>3. CASE Dropped(c)
      BY <3>3, <2>1 DEF Dropped, TypeOK, sessVars, loopVars
    <3> QED BY <1>9, <3>1, <3>2, <3>3
  <2>3. Threads' /\ LoopOwned'
    BY <2>1, QuietLoops DEF sessVars
  <2>4. HaltsPending'
    BY <2>1, QuietHalts DEF sessVars
  <2> QED BY <2>2, <2>3, <2>4 DEF IInv
<1>10. ASSUME NEW d \in Devices, BusExit(d) PROVE IInv'
  <2>1. TypeOK'
    BY <1>10 DEF BusExit, TypeOK, sessVars, connVars
  <2>2. Threads'
    BY <1>10 DEF BusExit, Threads, TypeOK
  <2>3. LoopOwned'
    BY <1>10 DEF BusExit, LoopOwned, Live, Dev, TypeOK, sessVars
  <2>4. HaltsPending'
    BY <1>10, QuietHalts DEF BusExit, sessVars
  <2> QED BY <2>1, <2>2, <2>3, <2>4 DEF IInv
<1>15. ASSUME NEW d \in Devices, BusStart(d) PROVE IInv'
  <2>1. timeouts[d] > 0
    BY <1>15 DEF BusStart, Threads, TypeOK
  <2>2. TypeOK'
    BY <1>15 DEF BusStart, Signal, TypeOK, sessVars, connVars
  <2>3. Threads'
    BY <1>15, <2>1 DEF BusStart, Signal, Threads, TypeOK
  <2>4. LoopOwned'
    BY <1>15, <2>1 DEF BusStart, Signal, LoopOwned, Live, Dev, TypeOK, sessVars
  <2>5. HaltsPending'
    BY <1>15, QuietHalts DEF BusStart, sessVars
  <2> QED BY <2>2, <2>3, <2>4, <2>5 DEF IInv
<1>11. ASSUME NEW d \in Devices, OpenTransport(d) PROVE IInv'
  <2>1. TypeOK'
    BY <1>11 DEF OpenTransport, TypeOK, sessVars, connVars, loopVars
  <2>2. Threads' /\ LoopOwned'
    BY <1>11, QuietLoops DEF OpenTransport, sessVars
  <2>3. HaltsPending'
    BY <1>11, QuietHalts DEF OpenTransport, sessVars
  <2> QED BY <2>1, <2>2, <2>3 DEF IInv
<1>12. CASE Tick
  <2>1. TypeOK'
    BY <1>12 DEF Tick, TypeOK, connVars, loopVars
  <2>2. Threads' /\ LoopOwned'
    BY <1>12, QuietLoops DEF Tick
  <2>3. HaltsPending'
    BY <1>12, QuietHalts DEF Tick
  <2> QED BY <2>1, <2>2, <2>3 DEF IInv
<1>13. CASE UNCHANGED vars
  <2>1. TypeOK'
    BY <1>13 DEF vars, sessVars, connVars, TypeOK, loopVars
  <2>2. Threads' /\ LoopOwned'
    BY <1>13, QuietLoops DEF vars, sessVars
  <2>3. HaltsPending'
    BY <1>13, QuietHalts DEF vars, sessVars
  <2> QED BY <2>1, <2>2, <2>3 DEF IInv
<1> QED
  BY <1>1, <1>2, <1>3, <1>4, <1>5, <1>6, <1>7, <1>8, <1>9, <1>10, <1>11, <1>12, <1>13,
     <1>14, <1>15
     DEF Next, SessionStep

\* Every behaviour of the node keeps the invariant.
LEMMA Invariance == Spec => []IInv
BY InitIInv, NextIInv, PTL DEF Spec

\* The variables of the node keep their types.
THEOREM TypeCorrect == Spec => []TypeOK
<1>1. IInv => TypeOK
  BY DEF IInv
<1> QED
  BY <1>1, Invariance, PTL

\* A control loop that runs is owned by a live session of its device, which
\* its lease or its connection can stop, unless a start of the device's loop
\* timed out before.
THEOREM LoopsAreOwned == Spec => []LoopOwned
<1>1. IInv => LoopOwned
  BY DEF IInv
<1> QED
  BY <1>1, Invariance, PTL

\* The policy of a session halts its device at most once.
THEOREM HaltsOnce == Spec => []PolicyHaltsOnce
<1>1. IInv => PolicyHaltsOnce
  <2> SUFFICES ASSUME IInv, NEW s \in Sessions
               PROVE  halts[s] <= 1 /\ (halts[s] = 1 => st[s] = "commloss")
    BY DEF PolicyHaltsOnce
  <2>1. halts[s] <= 1
    BY DEF IInv, HaltsPending
  <2>2. st[s] # "commloss" => halts[s] # 1
    BY DEF IInv, HaltsPending
  <2> QED
    BY <2>1, <2>2
<1> QED
  BY <1>1, Invariance, PTL
=============================================================================
