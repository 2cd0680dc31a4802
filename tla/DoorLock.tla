------------------------------ MODULE DoorLock ------------------------------
(***************************************************************************)
(* The door lock of VirtualGateway/devcontrol_gateway: DoorLockDriver of   *)
(* drivers.py driven through DeviceRegistry of registry.py by the three    *)
(* threads that share its dictionary, none of which takes a lock:          *)
(*   "command"  the worker of process_command, one command at a time;      *)
(*   "tick"     the worker of the telemetry loop;                          *)
(*   "loop"     the event loop, which injects faults and takes snapshots.  *)
(* A step is what a thread does between two points at which the            *)
(* interpreter may switch threads: calls and loop iterations.              *)
(***************************************************************************)
EXTENDS Integers

CONSTANTS
  Delays,         \* accepted auto-lock delays, 5..60 seconds in the code
  InitialDelay,   \* the delay a door is created with
  StorageFails,   \* whether a write of an audit row or an alert can raise
  MaxTime, MaxCalls   \* bounds of the model: commands and faults are calls

ASSUME DelaysArePositive == Delays \subseteq Nat \ {0} /\ InitialDelay \in Delays

VARIABLES
  now,      \* time.time()
  door,     \* the device dictionary: what clients see of it
  version,  \* its stateVersion
  lag,      \* its _commandDelayMs: none, up to 5000, or more
  failNext, \* its _failNextCommand
  pc,       \* what each thread does next
  cmd,      \* the command that is executed
  readAt,   \* the autoLockAt that tick() read
  snap,     \* what each thread has read for its public_device()
  latest,   \* history: the published states with the highest version
  owed,     \* history: the version clients need, of those a failed write lost
  alive,    \* whether the telemetry loop still runs
  calls     \* bound

threadVars == <<pc, cmd, readAt, snap>>
faultVars  == <<lag, failNext>>
vars == <<now, door, version, faultVars, threadVars, latest, owed, alive, calls>>

None     == 0
Deadline == Nat
Threads == {"command", "tick", "loop"}
Door    == [online : BOOLEAN, jammed : BOOLEAN, locked : BOOLEAN,
            autoLock : BOOLEAN, delay : Delays, lockAt : Deadline]
Command == [action : {"lock", "unlock", "setAutoLockConfig"}, expected : Nat,
            enabled : BOOLEAN, delay : Nat]
Steps   == {"idle", "check", "sleep", "ready", "drive", "arm", "due", "audit",
            "touch", "alert", "online", "version", "state"}

At(t, step)   == pc[t] = step
Goto(t, step) == pc' = [pc EXCEPT ![t] = step]

-----------------------------------------------------------------------------
Init ==
  /\ now = 1
  /\ door = [online |-> TRUE, jammed |-> FALSE, locked |-> TRUE,
             autoLock |-> TRUE, delay |-> InitialDelay, lockAt |-> None]
  /\ version = 1 /\ lag = "none" /\ failNext = FALSE
  /\ pc = [t \in Threads |-> "idle"]
  /\ cmd = [action |-> "lock", expected |-> None, enabled |-> TRUE, delay |-> InitialDelay]
  /\ readAt = None
  /\ snap = [t \in Threads |-> [online |-> TRUE, version |-> 0]]
  /\ latest = [version |-> 1, states |-> {door}]
  /\ owed = 0 /\ alive = TRUE /\ calls = 0

(* process_command hands a command to its worker; it may expect any        *)
(* version that a client has seen, or none.                                *)
Submit ==
  /\ At("command", "idle") /\ calls < MaxCalls
  /\ \E a \in {"lock", "unlock"}, e \in 0 .. version :
       cmd' = [cmd EXCEPT !.action = a, !.expected = e]
  /\ Goto("command", "check") /\ calls' = calls + 1
  /\ UNCHANGED <<now, door, version, faultVars, readAt, snap, latest, owed, alive>>

SubmitConfig ==
  /\ At("command", "idle") /\ calls < MaxCalls
  /\ \E e \in 0 .. version, on \in BOOLEAN, d \in Delays \cup {0} :
       cmd' = [action |-> "setAutoLockConfig", expected |-> e, enabled |-> on, delay |-> d]
  /\ Goto("command", "check") /\ calls' = calls + 1
  /\ UNCHANGED <<now, door, version, faultVars, readAt, snap, latest, owed, alive>>

(* _ensure_commandable up to its sleep. *)
Commandable ==
  door.online /\ cmd.expected \in {None, version} /\ lag # "over"

Check ==
  /\ At("command", "check")
  /\ Goto("command", IF ~Commandable THEN "idle" ELSE IF lag = "slow" THEN "sleep" ELSE "ready")
  /\ UNCHANGED <<now, door, version, faultVars, cmd, readAt, snap, latest, owed, alive, calls>>

Wake ==
  /\ At("command", "sleep") /\ Goto("command", "ready")
  /\ UNCHANGED <<now, door, version, faultVars, cmd, readAt, snap, latest, owed, alive, calls>>

(* The rest of _ensure_commandable: an injected failure is raised once. *)
FailInjected ==
  /\ At("command", "ready")
  /\ Goto("command", IF failNext THEN "idle" ELSE "drive")
  /\ failNext' = FALSE
  /\ UNCHANGED <<now, door, version, lag, cmd, readAt, snap, latest, owed, alive, calls>>

(* DoorLockDriver.execute raises: a jammed door, or a delay out of range.  *)
Refused ==
  IF cmd.action = "setAutoLockConfig" THEN cmd.delay \notin Delays ELSE door.jammed

Refuse ==
  /\ At("command", "drive") /\ Refused
  /\ Goto("command", "idle")
  /\ UNCHANGED <<now, door, version, faultVars, cmd, readAt, snap, latest, owed, alive, calls>>

Lock ==
  /\ At("command", "drive") /\ ~Refused /\ cmd.action = "lock"
  /\ door' = [door EXCEPT !.locked = TRUE, !.lockAt = None]
  /\ Goto("command", "touch")
  /\ UNCHANGED <<now, version, faultVars, cmd, readAt, snap, latest, owed, alive, calls>>

(* unlock calls time.time() between opening the door and arming the timer. *)
Unlock ==
  /\ At("command", "drive") /\ ~Refused /\ cmd.action = "unlock"
  /\ door' = [door EXCEPT !.locked = FALSE]
  /\ Goto("command", IF door.autoLock THEN "arm" ELSE "touch")
  /\ UNCHANGED <<now, version, faultVars, cmd, readAt, snap, latest, owed, alive, calls>>

Arm ==
  /\ At("command", "arm")
  /\ door' = [door EXCEPT !.lockAt = now + door.delay]
  /\ Goto("command", "touch")
  /\ UNCHANGED <<now, version, faultVars, cmd, readAt, snap, latest, owed, alive, calls>>

Configure ==
  /\ At("command", "drive") /\ ~Refused /\ cmd.action = "setAutoLockConfig"
  /\ door' = [door EXCEPT !.autoLock = cmd.enabled, !.delay = cmd.delay,
                          !.lockAt = IF cmd.enabled THEN @ ELSE None]
  /\ Goto("command", "touch")
  /\ UNCHANGED <<now, version, faultVars, cmd, readAt, snap, latest, owed, alive, calls>>

-----------------------------------------------------------------------------
Armed == door.online /\ ~door.locked /\ door.autoLock /\ door.lockAt # None

(* Seeded fault: a jammed door is passed over. *)
TickStartUnjammed ==
  /\ At("tick", "idle") /\ alive /\ Armed /\ ~door.jammed
  /\ readAt' = door.lockAt
  /\ Goto("tick", "due")
  /\ UNCHANGED <<now, door, version, faultVars, cmd, snap, latest, owed, alive, calls>>

(* DoorLockDriver.tick up to its call of now_ms(). *)
TickStart ==
  /\ At("tick", "idle") /\ alive /\ Armed
  /\ readAt' = door.lockAt
  /\ Goto("tick", "due")
  /\ UNCHANGED <<now, door, version, faultVars, cmd, snap, latest, owed, alive, calls>>

TickNotYet ==
  /\ At("tick", "due") /\ now < readAt
  /\ Goto("tick", "idle")
  /\ UNCHANGED <<now, door, version, faultVars, cmd, readAt, snap, latest, owed, alive, calls>>

TickLock ==
  /\ At("tick", "due") /\ now >= readAt
  /\ door' = [door EXCEPT !.locked = TRUE, !.lockAt = None]
  /\ Goto("tick", "audit")
  /\ UNCHANGED <<now, version, faultVars, cmd, readAt, snap, latest, owed, alive, calls>>

(* Seeded fault: an automatic lock is published without a new version. *)
TickAuditedUntouched ==
  /\ At("tick", "audit")
  /\ Goto("tick", "online")
  /\ UNCHANGED <<now, door, version, faultVars, cmd, readAt, snap, latest, owed, alive, calls>>

(* record_audit; an exception ends the telemetry loop, which catches none. *)
TickAudited ==
  /\ At("tick", "audit")
  /\ Goto("tick", "touch")
  /\ UNCHANGED <<now, door, version, faultVars, cmd, readAt, snap, latest, owed, alive, calls>>

TickAuditFails ==
  /\ StorageFails
  /\ At("tick", "audit")
  /\ Goto("tick", "idle") /\ alive' = FALSE
  /\ owed' = version + 1
  /\ UNCHANGED <<now, door, version, faultVars, cmd, readAt, snap, latest, calls>>

-----------------------------------------------------------------------------
(* inject_fault, one fault at a time, up to its _touch. *)
Inject ==
  /\ At("loop", "idle") /\ calls < MaxCalls
  /\ \/ \E b \in BOOLEAN : /\ door' \in {[door EXCEPT !.online = b], [door EXCEPT !.jammed = b]}
                           /\ UNCHANGED faultVars
     \/ /\ lag' \in {"none", "slow", "over"} /\ UNCHANGED <<door, failNext>>
     \/ /\ failNext' \in BOOLEAN /\ UNCHANGED <<door, lag>>
  /\ Goto("loop", "touch") /\ calls' = calls + 1
  /\ UNCHANGED <<now, version, cmd, readAt, snap, latest, owed, alive>>

(* GET /api/v1/devices. *)
Snapshot ==
  /\ At("loop", "idle")
  /\ Goto("loop", "online")
  /\ UNCHANGED <<now, door, version, faultVars, cmd, readAt, snap, latest, owed, alive, calls>>

(* _touch; a fault may be followed by an alert. *)
Touch(t) ==
  /\ At(t, "touch")
  /\ version' = version + 1
  /\ Goto(t, IF t = "loop" THEN "alert" ELSE "online")
  /\ UNCHANGED <<now, door, faultVars, cmd, readAt, snap, latest, owed, alive, calls>>

(* A low battery is recorded, or there is none. *)
AlertWritten(t) ==
  /\ At(t, "alert")
  /\ Goto(t, "online")
  /\ UNCHANGED <<now, door, version, faultVars, cmd, readAt, snap, latest, owed, alive, calls>>

(* The event of a touched device is never sent: clients need this version  *)
(* or a later one.                                                         *)
LoseEvent(t) ==
  /\ StorageFails
  /\ Goto(t, "idle")
  /\ owed' = IF owed > version THEN owed ELSE version
  /\ UNCHANGED <<now, door, version, faultVars, cmd, readAt, snap, latest, alive, calls>>

(* record_alert raises before public_device. *)
AlertFails(t) == At(t, "alert") /\ LoseEvent(t)

(* The command was executed, and _audit raises before its event is         *)
(* returned, or its WebSocket is gone when the result is sent, before the  *)
(* events are broadcast.                                                   *)
CommandAuditFails == At("command", "state") /\ LoseEvent("command")

(* public_device copies the dictionary key by key, in the order in which   *)
(* base_device and the driver put the keys there.                          *)
ReadOnline(t) ==
  /\ At(t, "online")
  /\ snap' = [snap EXCEPT ![t].online = door.online]
  /\ Goto(t, "version")
  /\ UNCHANGED <<now, door, version, faultVars, cmd, readAt, latest, owed, alive, calls>>

ReadVersion(t) ==
  /\ At(t, "version")
  /\ snap' = [snap EXCEPT ![t].version = version]
  /\ Goto(t, "state")
  /\ UNCHANGED <<now, door, version, faultVars, cmd, readAt, latest, owed, alive, calls>>

(* A client keeps the first event it gets of the highest version.  Events  *)
(* of different threads are broadcast in any order, so it may be any.      *)
Publish(t) ==
  /\ At(t, "state")
  /\ LET s == [door EXCEPT !.online = snap[t].online] IN
       latest' = [version |-> IF snap[t].version > latest.version THEN snap[t].version
                                                                  ELSE latest.version,
                  states  |-> IF snap[t].version > latest.version THEN {s}
                              ELSE IF snap[t].version = latest.version
                              THEN latest.states \cup {s} ELSE latest.states]
  /\ Goto(t, "idle")
  /\ UNCHANGED <<now, door, version, faultVars, cmd, readAt, snap, owed, alive, calls>>

(* Time ends at MaxTime, but not before the last timer is due. *)
Pass ==
  /\ now < MaxTime \/ now < door.lockAt
  /\ now' = now + 1
  /\ UNCHANGED <<door, version, faultVars, threadVars, latest, owed, alive, calls>>

CommandStep ==
  Check \/ Wake \/ FailInjected \/ Refuse \/ Lock \/ Unlock \/ Arm \/ Configure
TickStep    == TickStart \/ TickNotYet \/ TickLock \/ TickAudited \/ TickAuditFails
ReadStep(t) ==
  Touch(t) \/ AlertWritten(t) \/ AlertFails(t) \/ ReadOnline(t) \/ ReadVersion(t) \/ Publish(t)

Next ==
  \/ Submit \/ SubmitConfig \/ CommandStep \/ TickStep \/ Inject \/ Snapshot
  \/ \E t \in Threads : ReadStep(t)
  \/ CommandAuditFails \/ Pass

Spec == Init /\ [][Next]_vars

(* Threads are scheduled and time passes; nobody has to call. *)
FairSpec == Spec /\ WF_vars(CommandStep) /\ WF_vars(TickStep) /\ WF_vars(Pass)
                 /\ \A t \in Threads : WF_vars(ReadStep(t))

-----------------------------------------------------------------------------
Snap == [online : BOOLEAN, version : Nat]

TypeOK ==
  /\ now \in Nat /\ door \in Door /\ version \in Nat
  /\ lag \in {"none", "slow", "over"} /\ failNext \in BOOLEAN
  /\ pc \in [Threads -> Steps] /\ cmd \in Command /\ readAt \in Deadline
  /\ snap \in [Threads -> Snap]
  /\ latest.version \in Nat /\ latest.states \subseteq Door
  /\ owed \in Nat /\ alive \in BOOLEAN /\ calls \in Nat

AllIdle == \A t \in Threads : At(t, "idle")

(* What the snapshot reads after the version. *)
Rest(s) == <<s.jammed, s.locked, s.autoLock, s.delay, s.lockAt>>

(* When the threads rest, whichever event of the highest version a client  *)
(* kept tells it the state of the lock, although no thread excludes        *)
(* another: driver first, _touch second, public_device last.  A failed     *)
(* write of an audit row or an alert loses an event; clients are right     *)
(* again with the next version they are told (process_command,             *)
(* inject_fault, DoorLockDriver.tick).                                     *)
ClientsConverge ==
  AllIdle /\ latest.version >= owed =>
    /\ latest.version = version
    /\ \A s \in latest.states : Rest(s) = Rest(door)

(* Without that condition it is false of the code: a door that was         *)
(* unlocked stays locked on every client's page until its next change.     *)
ClientsAlwaysConverge ==
  AllIdle => latest.version = version /\ \A s \in latest.states : Rest(s) = Rest(door)

(* Why: a change is followed by a touch, and a touch by a snapshot.        *)
Dirty(t)   == pc[t] \in {"arm", "audit", "touch"}
Reading(t) == pc[t] \in {"alert", "online", "version"}
              \/ (At(t, "state") /\ snap[t].version = version)

ConvergeInv ==
  /\ latest.version <= version /\ owed <= version + 1
  /\ \A t \in Threads : At(t, "state") => snap[t].version <= version
  /\ latest.version < version => version <= owed \/ \E t \in Threads : Reading(t)
  /\ latest.version = version /\ owed <= version /\ (\A t \in Threads : ~Dirty(t)) =>
       \A s \in latest.states : Rest(s) = Rest(door)

(* An armed door is locked in the end, unless auto-lock is switched off,   *)
(* the door goes offline or an audit write ended the telemetry loop:       *)
(* whatever commands, faults and snapshots come in between                 *)
(* (DoorLockDriver.tick in the telemetry loop).                            *)
ArmedDoorLocks == Armed ~> door.locked \/ ~door.autoLock \/ ~door.online \/ ~alive

(* The documents say that a version mismatch is answered STATE_CONFLICT,   *)
(* so that an old page cannot overwrite a new state.  The version is       *)
(* compared before the command's delay and not after.                      *)
ActsOnExpectedVersion ==
  [][Lock \/ Unlock \/ Configure => cmd.expected \in {None, version}]_vars
=============================================================================
