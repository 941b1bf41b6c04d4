-------------------------- MODULE ControlSessions --------------------------
(***************************************************************************)
(* Control sessions of a hardware node (hardware/lhp/control_sessions.py), *)
(* with the connection handling of lhp/server.py, the control-loop part of *)
(* hardware/registry.py and the thread of hardware/control_bus.py.         *)
(*                                                                         *)
(* A host opens a session on a device over a connection and renews its     *)
(* lease.  The node runs one control loop per device in a thread.  When    *)
(* the lease expires or the connection drops, the session's policy is      *)
(* executed: stop the loop, and for "halt" also halt the device.           *)
(*                                                                         *)
(* An action is what a task of the event loop does between two blocking    *)
(* awaits, or a step of a control thread.                                  *)
(***************************************************************************)
EXTENDS Naturals

CONSTANTS
  Sessions,     \* control ids; an id is registered at most once
  Devices,
  Conns,        \* connections; one that dropped never comes back
  Lease,        \* lease_s, in clock ticks
  MaxPending,   \* bound on the requests of a connection that wait to run
  MaxTimeouts,  \* bound on the starts of a device's loop that time out
  Suspending,   \* the devices whose open() and halt() block
  SlowStart,    \* the devices whose control thread may start too late
  Interlocked,  \* the devices with an interlock on a writable channel
  NoSession

ASSUME SessionAssumption == NoSession \notin Sessions
ASSUME BoundAssumption ==
  Lease \in Nat \ {0} /\ MaxPending \in Nat \ {0} /\ MaxTimeouts \in Nat
ASSUME DeviceAssumption ==
  Suspending \subseteq Devices /\ SlowStart \subseteq Devices /\ Interlocked \subseteq Devices

VARIABLES
  req,            \* the request that opens the session: an input, never changed
  st,             \* unused, opening (awaits the precheck), live, or halted:
                  \* closed, or lost contact with its host
  lease,          \* ticks until expires_at
  halting,        \* sessions for which on_disconnect() awaits the device
  halts,          \* halt() calls that the session's policy completed
  cutOff,         \* sessions whose policy was cancelled before halt() ended
  deviceSession,  \* _device_sessions
  running,        \* _running of the device's bus
  stopRequested,  \* _stop_requested
  starting,       \* threads that have not yet set _running: start() gave up
  looping,        \* threads in their control loop
  timeouts,       \* history: starts of the device's loop that timed out
  opened,         \* devices with an open transport
  link,           \* up, dropping (on_disconnect() runs), gone
  pending,        \* requests read from the connection whose task has not run
  todo            \* what on_disconnect() has still to go through

sessVars == <<st, lease, halting, halts, cutOff>>
loopVars == <<running, stopRequested, starting, looping, timeouts>>
connVars == <<link, pending, todo>>
vars == <<req, sessVars, deviceSession, loopVars, opened, connVars>>

TypeOK ==
  /\ req \in [Sessions -> [dev : Devices, conn : Conns, policy : {"halt", "hold"}]]
  /\ st \in [Sessions -> {"unused", "opening", "live", "closed", "commloss"}]
  /\ lease \in [Sessions -> 0..Lease]
  /\ halting \subseteq Sessions
  /\ halts \in [Sessions -> Nat]
  /\ cutOff \subseteq Sessions
  /\ deviceSession \in [Devices -> Sessions \cup {NoSession}]
  /\ running \in [Devices -> BOOLEAN]
  /\ stopRequested \in [Devices -> BOOLEAN]
  /\ timeouts \in [Devices -> 0..MaxTimeouts]
  /\ starting \in [Devices -> 0..MaxTimeouts]
  /\ looping \in [Devices -> Nat]
  /\ opened \subseteq Devices
  /\ link \in [Conns -> {"up", "dropping", "gone"}]
  /\ pending \in [Conns -> 0..MaxPending]
  /\ todo \in [Conns -> SUBSET Sessions]

Init ==
  /\ req \in [Sessions -> [dev : Devices, conn : Conns, policy : {"halt", "hold"}]]
  /\ st = [s \in Sessions |-> "unused"]
  /\ lease = [s \in Sessions |-> Lease]
  /\ halting = {} /\ cutOff = {}
  /\ halts = [s \in Sessions |-> 0]
  /\ deviceSession = [d \in Devices |-> NoSession]
  /\ running = [d \in Devices |-> FALSE]
  /\ stopRequested = [d \in Devices |-> FALSE]
  /\ timeouts = [d \in Devices |-> 0]
  /\ starting = [d \in Devices |-> 0]
  /\ looping = [d \in Devices |-> 0]
  /\ opened = {}
  /\ link = [c \in Conns |-> "up"]
  /\ pending = [c \in Conns |-> 0]
  /\ todo = [c \in Conns |-> {}]

Dev(s) == req[s].dev
Conn(s) == req[s].conn
Live == {s \in Sessions : st[s] = "live"}

-----------------------------------------------------------------------------
(* The control loop of a device                                            *)

\* stop_control_loop(): nothing when _running is clear.  Otherwise the thread
\* is told to stop and joined for a while: it ends (BusExit) before or after
\* the join times out.
StopLoop(d) ==
  /\ stopRequested' = [stopRequested EXCEPT ![d] = @ \/ running[d]]
  /\ UNCHANGED <<running, starting, looping, timeouts>>

\* start() up to the spawning of the thread; n more threads have not set
\* _running when it returns or raises.
StartLoop(d, n) ==
  /\ ~running[d]
  /\ stopRequested' = [stopRequested EXCEPT ![d] = FALSE]
  /\ starting' = [starting EXCEPT ![d] = @ + n]

\* A thread sets _running.  Without an open transport it returns at once;
\* otherwise it goes on to its loop.
Signal(d, open) ==
  /\ running' = [running EXCEPT ![d] = TRUE]
  /\ looping' = [looping EXCEPT ![d] = IF d \in open THEN @ + 1 ELSE @]

\* The thread of a start that timed out gets there after all.
BusStart(d) ==
  /\ starting[d] > 0
  /\ starting' = [starting EXCEPT ![d] = @ - 1]
  /\ Signal(d, opened)
  /\ UNCHANGED <<req, sessVars, deviceSession, stopRequested, timeouts, opened, connVars>>

\* A thread ends: it was told to, or it lost its device, its policy asked
\* for a halt, a safety check failed or it overran.  It halts the device and
\* clears _running on every path.
BusExit(d) ==
  /\ looping[d] > 0
  /\ looping' = [looping EXCEPT ![d] = @ - 1]
  /\ running' = [running EXCEPT ![d] = FALSE]
  /\ UNCHANGED <<req, sessVars, deviceSession, stopRequested, starting, timeouts, opened, connVars>>

\* Another request (a read, a write) opens the device's transport.
OpenTransport(d) ==
  /\ d \notin opened
  /\ opened' = opened \cup {d}
  /\ UNCHANGED <<req, sessVars, deviceSession, loopVars, connVars>>

-----------------------------------------------------------------------------
(* Requests                                                                *)

\* _serve_connection() reads a frame and creates the task that handles it.
Receive(c) ==
  /\ link[c] = "up" /\ pending[c] < MaxPending
  /\ pending' = [pending EXCEPT ![c] = @ + 1]
  /\ UNCHANGED <<req, sessVars, deviceSession, loopVars, opened, link, todo>>

\* A handler task of connection c starts.
Handle(c) ==
  /\ pending[c] > 0
  /\ pending' = [pending EXCEPT ![c] = @ - 1]
  /\ UNCHANGED <<req, link, todo>>

\* A request that is refused or only asks for the status.
Refuse(c) ==
  /\ Handle(c)
  /\ UNCHANGED <<sessVars, deviceSession, loopVars, opened>>

\* open() up to the await of the precheck.  (The precheck of a device without
\* interlocks does not block; the model lets it.)
OpenBegin(s) ==
  /\ Handle(Conn(s))
  /\ st[s] = "unused"
  /\ deviceSession[Dev(s)] \notin Live
  /\ st' = [st EXCEPT ![s] = "opening"]
  /\ UNCHANGED <<lease, halting, halts, cutOff, deviceSession, loopVars, opened>>

\* The precheck fails, or the loop cannot be started.
OpenFail(s) ==
  /\ st[s] = "opening"
  /\ st' = [st EXCEPT ![s] = "unused"]
  /\ UNCHANGED <<req, lease, halting, halts, cutOff, deviceSession, loopVars, opened, connVars>>

\* The precheck has passed: it has read the interlocks, which opens the
\* transport.
Known(d) == IF d \in Interlocked THEN opened \cup {d} ELSE opened

\* The thread is spawned but does not set _running within 10 s.  start()
\* raises, so no session is registered; nobody tells the thread.
OpenTimeout(s) ==
  LET d == Dev(s)
  IN /\ st[s] = "opening"
     /\ d \in SlowStart /\ timeouts[d] < MaxTimeouts
     /\ StartLoop(d, 1)
     /\ timeouts' = [timeouts EXCEPT ![d] = @ + 1]
     /\ opened' = Known(d)
     /\ st' = [st EXCEPT ![s] = "unused"]
     /\ UNCHANGED <<req, lease, halting, halts, cutOff, deviceSession, running, looping, connVars>>

\* start_control_loop() succeeds: the thread just spawned has set _running, or
\* one that a start left behind has, and the new one comes later.
OpenEnd(s) ==
  LET d == Dev(s)
  IN /\ st[s] = "opening"
     /\ StartLoop(d, 0)
     /\ Signal(d, Known(d))
     /\ opened' = Known(d)
     /\ st' = [st EXCEPT ![s] = "live"]
     /\ lease' = [lease EXCEPT ![s] = Lease]
     /\ deviceSession' = [deviceSession EXCEPT ![d] = s]
     /\ UNCHANGED <<req, halting, halts, cutOff, timeouts, connVars>>

\* renew() and update(): they do not ask whether the lease has expired.
Renew(s) ==
  /\ Handle(Conn(s))
  /\ st[s] = "live"
  /\ lease' = [lease EXCEPT ![s] = Lease]
  /\ UNCHANGED <<st, halting, halts, cutOff, deviceSession, loopVars, opened>>

\* Mutant: close() forgets the loop.
CloseKeepsLoop(s) ==
  /\ Handle(Conn(s))
  /\ st[s] = "live"
  /\ st' = [st EXCEPT ![s] = "closed"]
  /\ UNCHANGED <<lease, halting, halts, cutOff, deviceSession, loopVars, opened>>

\* _stop_session(), whose last await only records a verdict.
StopSession(s) ==
  /\ st' = [st EXCEPT ![s] = "closed"]
  /\ StopLoop(Dev(s))

\* close() of a live session.
Close(s) ==
  /\ Handle(Conn(s))
  /\ st[s] = "live"
  /\ StopSession(s)
  /\ UNCHANGED <<lease, halting, halts, cutOff, deviceSession, opened>>

-----------------------------------------------------------------------------
(* Loss of contact                                                         *)

\* Mutant: the remaining time is not cut off at zero.
TickBelowZero ==
  /\ Live # {}
  /\ lease' = [s \in Sessions |-> IF s \in Live THEN lease[s] - 1 ELSE lease[s]]
  /\ UNCHANGED <<req, st, halting, halts, cutOff, deviceSession, loopVars, opened, connVars>>

\* The clock advances.
Tick ==
  /\ \E s \in Live : lease[s] > 0
  /\ lease' = [s \in Sessions |-> IF s \in Live /\ lease[s] > 0
                                  THEN lease[s] - 1 ELSE lease[s]]
  /\ UNCHANGED <<req, st, halting, halts, cutOff, deviceSession, loopVars, opened, connVars>>

\* _execute_comm_loss() up to its first await.
CommLoss(s) ==
  /\ st' = [st EXCEPT ![s] = "commloss"]
  /\ StopLoop(Dev(s))

\* transport() and halt() come to an end; an error is logged.
HaltResult(s) ==
  \/ /\ halts' = [halts EXCEPT ![s] = @ + 1]
     /\ opened' = opened \cup {Dev(s)}
  \/ /\ UNCHANGED halts
     /\ opened' \in {opened, opened \cup {Dev(s)}}

\* They do so without blocking.
HaltNow(s) == HaltResult(s) /\ UNCHANGED <<halting, cutOff>>

NoHalt == UNCHANGED <<halting, halts, cutOff, opened>>

\* Mutant: the watchdog of a session leaves a dropped connection to
\* on_disconnect().
ExpireOnlyConnected(s) ==
  /\ st[s] = "live" /\ lease[s] = 0 /\ link[Conn(s)] = "up"
  /\ CommLoss(s)
  /\ UNCHANGED <<req, lease, deviceSession, connVars>>
  /\ IF req[s].policy = "hold" THEN NoHalt ELSE HaltNow(s)

\* The watchdog finds the lease expired.  _execute_comm_loss() cancels the
\* watchdog's own task, so a device that blocks is abandoned: its transport
\* is not opened, and of a halt() that was handed to a thread either the
\* thread or the cancellation comes first.
Expire(s) ==
  /\ st[s] = "live" /\ lease[s] = 0
  /\ CommLoss(s)
  /\ UNCHANGED <<req, lease, deviceSession, connVars>>
  /\ IF req[s].policy = "hold" THEN NoHalt
     ELSE \/ /\ Dev(s) \in Suspending => Dev(s) \in opened
             /\ HaltNow(s)
          \/ /\ Dev(s) \in Suspending
             /\ cutOff' = cutOff \cup {s}
             /\ UNCHANGED <<halting, halts, opened>>

\* The connection drops; on_disconnect() takes its snapshot.
Drop(c) ==
  /\ link[c] = "up"
  /\ link' = [link EXCEPT ![c] = "dropping"]
  /\ todo' = [todo EXCEPT ![c] = {s \in Live : Conn(s) = c}]
  /\ UNCHANGED <<req, sessVars, deviceSession, loopVars, opened, pending>>

\* on_disconnect() does not wait for a device.
NotWaiting(c) == link[c] = "dropping" /\ \A s \in halting : Conn(s) # c

\* Mutant: on_disconnect() and _execute_comm_loss() do not ask whether the
\* session was halted in the meantime.
DropSessionUnchecked(s) ==
  /\ NotWaiting(Conn(s)) /\ s \in todo[Conn(s)]
  /\ todo' = [todo EXCEPT ![Conn(s)] = @ \ {s}]
  /\ CommLoss(s)
  /\ UNCHANGED <<req, lease, deviceSession, link, pending>>
  /\ IF req[s].policy = "hold" THEN NoHalt
     ELSE IF Dev(s) \in Suspending
     THEN halting' = halting \cup {s} /\ UNCHANGED <<halts, cutOff, opened>>
     ELSE HaltNow(s)

\* on_disconnect() reaches a session that is still live.
DropSession(s) ==
  /\ NotWaiting(Conn(s)) /\ s \in todo[Conn(s)]
  /\ st[s] = "live"
  /\ todo' = [todo EXCEPT ![Conn(s)] = @ \ {s}]
  /\ CommLoss(s)
  /\ UNCHANGED <<req, lease, deviceSession, link, pending>>
  /\ IF req[s].policy = "hold" THEN NoHalt
     ELSE IF Dev(s) \in Suspending
     THEN halting' = halting \cup {s} /\ UNCHANGED <<halts, cutOff, opened>>
     ELSE HaltNow(s)

\* What on_disconnect() waits for comes to an end.
HaltEnd(s) ==
  /\ s \in halting
  /\ halting' = halting \ {s}
  /\ HaltResult(s)
  /\ UNCHANGED <<req, st, lease, cutOff, deviceSession, loopVars, connVars>>

\* on_disconnect() has gone through its snapshot.
Dropped(c) ==
  /\ NotWaiting(c) /\ todo[c] \cap Live = {}
  /\ link' = [link EXCEPT ![c] = "gone"]
  /\ todo' = [todo EXCEPT ![c] = {}]
  /\ UNCHANGED <<req, sessVars, deviceSession, loopVars, opened, pending>>

-----------------------------------------------------------------------------
SessionStep(s) ==
  \/ OpenBegin(s) \/ OpenFail(s) \/ OpenTimeout(s) \/ OpenEnd(s) \/ Renew(s) \/ Close(s)
  \/ Expire(s) \/ DropSession(s) \/ HaltEnd(s)

Next ==
  \/ \E s \in Sessions : SessionStep(s)
  \/ \E c \in Conns : Receive(c) \/ Refuse(c) \/ Drop(c) \/ Dropped(c)
  \/ \E d \in Devices : BusStart(d) \/ BusExit(d) \/ OpenTransport(d)
  \/ Tick

\* The event loop runs every ready task, time passes, a precheck and a thread
\* that was told to stop come to an end.  A device may take forever to halt,
\* and nothing makes a host send, renew or disconnect.
Fairness ==
  /\ WF_vars(Tick)
  /\ \A s \in Sessions : /\ WF_vars(Expire(s))
                         /\ WF_vars(DropSession(s))
                         /\ WF_vars(OpenEnd(s) \/ OpenFail(s) \/ OpenTimeout(s))
  /\ \A c \in Conns : WF_vars(Dropped(c))
  /\ \A d \in Devices : WF_vars(stopRequested[d] /\ BusExit(d))

Spec == Init /\ [][Next]_vars
FairSpec == Spec /\ Fairness

-----------------------------------------------------------------------------
(* Properties                                                              *)

\* A control loop that runs and was not told to stop has an owner: the
\* device's registered session is live and is a session of this device, so a
\* lease or a connection can stop the loop.  The check for an existing session
\* and the registration are on two sides of an await; the refusal of a second
\* start closes the gap.  The one exception is a device for which start()
\* once gave up waiting for its thread: open() answered with an error, the
\* thread may run all the same, and no session can stop it.
LoopOwned ==
  \A d \in Devices : looping[d] > 0 /\ ~stopRequested[d] =>
    \/ deviceSession[d] \in Live /\ Dev(deviceSession[d]) = d
    \/ timeouts[d] > 0

\* "Halt the device exactly once": the lease and the disconnect may fire at
\* the same time and each blocks in the middle, yet a session's policy halts
\* its device at most once, and never while the session is live.
PolicyHaltsOnce ==
  \A s \in Sessions : halts[s] <= 1 /\ (halts[s] = 1 => st[s] = "commloss")

\* A session of a connection that dropped is stopped, also when its open()
\* was still running, and when the node waits forever for another device.
AbandonedStops ==
  \A s \in Sessions :
    (st[s] = "live" /\ link[Conn(s)] # "up") ~> st[s] \in {"closed", "commloss"}

\* "halt: stop the loop and halt the device": the policy is not abandoned.
HaltNotAbandoned == cutOff = {}
=============================================================================
