--------------------------- MODULE DoorLockProofs ---------------------------
(***************************************************************************)
(* Proofs about DoorLock: its type invariant, and that clients converge on *)
(* the state of the lock although its three threads exclude nothing.       *)
(***************************************************************************)
EXTENDS DoorLock, TLAPS

LEMMA InitTypes == Init => TypeOK
  <1> SUFFICES ASSUME Init PROVE TypeOK
    OBVIOUS
  <1>0. Delays \subseteq Nat /\ InitialDelay \in Delays /\ None \in Deadline
    BY DelaysArePositive DEF None, Deadline
  <1>1. door \in Door /\ cmd \in Command
    BY <1>0 DEF Init, Door, Command, None
  <1>2. pc \in [Threads -> Steps] /\ snap \in [Threads -> Snap]
    BY DEF Init, Steps, Snap
  <1>3. latest.version \in Nat /\ latest.states \subseteq Door
    BY <1>1 DEF Init
  <1> QED
    BY <1>0, <1>1, <1>2, <1>3 DEF Init, TypeOK

(* What the clock plus the delay of a door is. *)
LEMMA DueTypes == TypeOK => now + door.delay \in Nat
  <1> SUFFICES ASSUME TypeOK PROVE now + door.delay \in Nat
    OBVIOUS
  <1>1. door \in Door /\ now \in Nat
    BY DEF TypeOK
  <1>2. door.delay \in Delays
    BY <1>1 DEF Door
  <1>3. door.delay \in Nat
    BY <1>2, DelaysArePositive
  <1> QED
    BY <1>1, <1>3

(* A write of the clock's now plus a delay is a deadline. *)
LEMMA CommandTypes == TypeOK /\ CommandStep => TypeOK'
  <1> SUFFICES ASSUME TypeOK, CommandStep PROVE TypeOK'
    OBVIOUS
  <1> USE DEF faultVars, At, Goto
  <1>0. /\ now \in Nat /\ door \in Door /\ cmd \in Command
        /\ "command" \in Threads /\ pc \in [Threads -> Steps]
        /\ {"idle", "sleep", "ready", "drive", "arm", "touch"} \subseteq Steps
    BY DEF TypeOK, Threads, Steps
  <1>1. pc' \in [Threads -> Steps]
    BY <1>0 DEF CommandStep, Check, Wake, FailInjected, Refuse, Lock, Unlock, Arm, Configure
  <1>2. CASE Check \/ Wake \/ FailInjected \/ Refuse
    BY <1>1, <1>2 DEF Check, Wake, FailInjected, Refuse, TypeOK
  <1>3. ASSUME door' \in Door, Lock \/ Unlock \/ Arm \/ Configure
        PROVE  TypeOK'
    BY <1>1, <1>3 DEF Lock, Unlock, Arm, Configure, TypeOK
  <1>4. CASE Lock
    <2>1. door' \in Door
      BY <1>0, <1>4 DEF Lock, Door, None, Deadline
    <2> QED
      BY <1>3, <1>4, <2>1 DEF Lock, TypeOK
  <1>5. CASE Unlock
    <2>1. door' \in Door
      BY <1>0, <1>5 DEF Unlock, Door
    <2> QED
      BY <1>3, <1>5, <2>1
  <1>6. CASE Arm
    <2>1. now + door.delay \in Deadline
      BY DueTypes DEF Deadline
    <2>2. door' \in Door
      BY <1>0, <1>6, <2>1 DEF Arm, Door
    <2> QED
      BY <1>3, <1>6, <2>2 DEF Arm, TypeOK
  <1>7. CASE Configure
    <2>1. cmd.delay \in Delays /\ cmd.enabled \in BOOLEAN
      BY <1>0, <1>7 DEF Configure, Refused, Command
    <2>2. door' \in Door
      BY <1>0, <1>7, <2>1 DEF Configure, Door, None, Deadline
    <2> QED
      BY <1>3, <1>7, <2>2 DEF Configure, TypeOK
  <1> QED
    BY <1>2, <1>4, <1>5, <1>6, <1>7 DEF CommandStep

LEMMA TickTypes == TypeOK /\ TickStep => TypeOK'
  <1> SUFFICES ASSUME TypeOK, TickStep PROVE TypeOK'
    OBVIOUS
  <1> USE DEF faultVars, At, Goto
  <1>0. /\ door \in Door /\ "tick" \in Threads /\ pc \in [Threads -> Steps]
        /\ {"idle", "due", "audit", "touch"} \subseteq Steps
    BY DEF TypeOK, Threads, Steps
  <1>1. pc' \in [Threads -> Steps]
    BY <1>0 DEF TickStep, TickStart, TickNotYet, TickLock, TickAudited, TickAuditFails
  <1>2. readAt' \in Deadline
    BY <1>0 DEF TickStep, TickStart, TickNotYet, TickLock, TickAudited, TickAuditFails,
                Door, TypeOK
  <1>3. door' \in Door
    <2>1. CASE TickLock
      BY <1>0, <2>1 DEF TickLock, Door, None, Deadline
    <2> QED
      BY <1>0, <2>1 DEF TickStep, TickStart, TickNotYet, TickAudited, TickAuditFails
  <1>4. owed' \in Nat /\ alive' \in BOOLEAN
    <2>1. owed \in Nat /\ version \in Nat /\ alive \in BOOLEAN
      BY DEF TypeOK
    <2>2. UNCHANGED <<owed, alive>> \/ (owed' = version + 1 /\ alive' = FALSE)
      BY DEF TickStep, TickStart, TickNotYet, TickLock, TickAudited, TickAuditFails
    <2>3. owed' \in Nat
      BY <2>1, <2>2
    <2>4. alive' \in BOOLEAN
      BY <2>1, <2>2, Zenon
    <2> QED
      BY <2>3, <2>4
  <1>5. UNCHANGED <<now, version, lag, failNext, cmd, snap, latest, calls>>
    BY DEF TickStep, TickStart, TickNotYet, TickLock, TickAudited, TickAuditFails
  <1> QED
    BY <1>1, <1>2, <1>3, <1>4, <1>5 DEF TypeOK

LEMMA LossTypes == ASSUME TypeOK, NEW t \in Threads, LoseEvent(t) PROVE TypeOK'
  <1>1. owed' \in Nat /\ pc' \in [Threads -> Steps]
    BY DEF LoseEvent, Goto, Steps, TypeOK
  <1> QED
    BY <1>1 DEF LoseEvent, faultVars, TypeOK

(* The snapshot that Publish(t) broadcasts. *)
Published(t) == [door EXCEPT !.online = snap[t].online]

LEMMA PublishedTypes ==
  ASSUME TypeOK, NEW t \in Threads
  PROVE  /\ Published(t) \in Door /\ Rest(Published(t)) = Rest(door)
         /\ snap[t].version \in Nat
  BY DEF TypeOK, Published, Door, Rest, Snap

LEMMA ReadTypes == ASSUME TypeOK, NEW t \in Threads, ReadStep(t) PROVE TypeOK'
  <1> USE DEF faultVars, At, Goto
  <1>0. /\ door \in Door /\ pc \in [Threads -> Steps] /\ version \in Nat
        /\ snap \in [Threads -> Snap]
        /\ {"idle", "alert", "online", "version", "state"} \subseteq Steps
    BY DEF TypeOK, Steps
  <1>1. CASE Touch(t) \/ AlertWritten(t)
    <2>1. pc' \in [Threads -> Steps] /\ version' \in Nat
      BY <1>0, <1>1 DEF Touch, AlertWritten
    <2> QED
      BY <1>1, <2>1 DEF Touch, AlertWritten, TypeOK
  <1>5. CASE AlertFails(t)
    BY <1>5, LossTypes DEF AlertFails
  <1>2. CASE ReadOnline(t)
    <2>1. snap' \in [Threads -> Snap]
      BY <1>0, <1>2 DEF ReadOnline, Snap, Door
    <2> QED
      BY <1>0, <1>2, <2>1 DEF ReadOnline, TypeOK
  <1>3. CASE ReadVersion(t)
    <2>1. snap' \in [Threads -> Snap]
      BY <1>0, <1>3 DEF ReadVersion, Snap
    <2> QED
      BY <1>0, <1>3, <2>1 DEF ReadVersion, TypeOK
  <1>4. CASE Publish(t)
    <2>1. latest'.version \in Nat /\ latest'.states \subseteq Door
      BY <1>4, PublishedTypes DEF Publish, Published, TypeOK
    <2> QED
      BY <1>0, <1>4, <2>1 DEF Publish, TypeOK
  <1> QED
    BY <1>1, <1>2, <1>3, <1>4, <1>5 DEF ReadStep

LEMMA CallTypes ==
  TypeOK /\ (Submit \/ SubmitConfig \/ Inject \/ Snapshot \/ Pass \/ UNCHANGED vars) => TypeOK'
  <1> SUFFICES ASSUME TypeOK,
                      Submit \/ SubmitConfig \/ Inject \/ Snapshot \/ Pass \/ UNCHANGED vars
               PROVE  TypeOK'
    OBVIOUS
  <1> USE DEF faultVars, threadVars, At, Goto
  <1>0. /\ door \in Door /\ pc \in [Threads -> Steps] /\ version \in Nat /\ cmd \in Command
        /\ calls \in Nat /\ now \in Nat /\ Delays \subseteq Nat
        /\ {"check", "online", "touch"} \subseteq Steps
    BY DelaysArePositive DEF TypeOK, Steps
  <1>1. CASE Submit \/ SubmitConfig \/ Inject
    <2>1. calls' \in Nat
      <3>1. calls' = calls + 1
        BY <1>1 DEF Submit, SubmitConfig, Inject
      <3> QED
        BY <1>0, <3>1
    <2>2. pc' \in [Threads -> Steps]
      BY <1>0, <1>1 DEF Submit, SubmitConfig, Inject
    <2>3. CASE Submit
      <3>1. PICK a \in {"lock", "unlock"}, e \in 0 .. version :
              cmd' = [cmd EXCEPT !.action = a, !.expected = e]
        BY <2>3 DEF Submit
      <3>2. e \in Nat
        BY <1>0
      <3>3. cmd' \in Command
        BY <1>0, <3>1, <3>2 DEF Command
      <3> QED
        BY <2>1, <2>2, <2>3, <3>3 DEF Submit, TypeOK
    <2>4. CASE SubmitConfig
      <3>1. PICK e \in 0 .. version, on \in BOOLEAN, d \in Delays \cup {0} :
              cmd' = [action |-> "setAutoLockConfig", expected |-> e,
                      enabled |-> on, delay |-> d]
        BY <2>4 DEF SubmitConfig
      <3>2. e \in Nat /\ d \in Nat
        BY <1>0
      <3>3. cmd' \in Command
        BY <3>1, <3>2 DEF Command
      <3> QED
        BY <2>1, <2>2, <2>4, <3>3 DEF SubmitConfig, TypeOK
    <2>5. CASE Inject
      <3>1. door' \in Door /\ lag' \in {"none", "slow", "over"} /\ failNext' \in BOOLEAN
        BY <1>0, <2>5 DEF Inject, Door, TypeOK
      <3> QED
        BY <2>1, <2>2, <2>5, <3>1 DEF Inject, TypeOK
    <2> QED
      BY <1>1, <2>3, <2>4, <2>5
  <1>4. CASE Snapshot
    BY <1>0, <1>4 DEF Snapshot, TypeOK
  <1>5. CASE Pass
    BY <1>0, <1>5 DEF Pass, TypeOK
  <1>6. CASE UNCHANGED vars
    BY <1>6 DEF vars, TypeOK
  <1> QED
    BY <1>1, <1>4, <1>5, <1>6

LEMMA StepTypes == TypeOK /\ [Next]_vars => TypeOK'
  <1>1. TypeOK /\ CommandAuditFails => TypeOK'
    BY LossTypes DEF CommandAuditFails, Threads
  <1> QED
    BY <1>1, CommandTypes, TickTypes, ReadTypes, CallTypes DEF Next

(* Every reachable state is well typed; in particular, no delay that is    *)
(* out of range gets past DoorLockDriver.execute.                          *)
THEOREM TypeCorrect == Spec => []TypeOK
  BY InitTypes, StepTypes, PTL DEF Spec

-----------------------------------------------------------------------------
LEMMA InitConverges == Init => ConvergeInv
  <1> SUFFICES ASSUME Init PROVE ConvergeInv
    OBVIOUS
  <1>1. \A t \in Threads : pc[t] = "idle"
    BY DEF Init
  <1>2. version = 1 /\ latest.version = 1 /\ latest.states = {door} /\ owed = 0
    BY DEF Init
  <1> QED
    BY <1>1, <1>2 DEF ConvergeInv, At

(* A thread that is not reading changes the lock only if it is dirty       *)
(* after, and stays dirty unless clients are owed a new version.           *)
LEMMA QuietStep ==
  ASSUME TypeOK, ConvergeInv, NEW t \in Threads, NEW step \in Steps,
         UNCHANGED <<version, latest, snap>>,
         owed' \in Nat, owed <= owed', owed' <= version + 1,
         pc' = [pc EXCEPT ![t] = step], step # "state", ~Reading(t),
         \/ Rest(door') = Rest(door) /\ ~Dirty(t)
         \/ step \in {"arm", "audit", "touch"}
         \/ version < owed'
  PROVE  ConvergeInv'
  <1>1. /\ pc'[t] = step
        /\ \A r \in Threads \ {t} : pc'[r] = pc[r]
    BY DEF TypeOK
  <1>2. \A r \in Threads : /\ pc'[r] = "state" => pc[r] = "state"
                           /\ Reading(r) => Reading(r)'
    BY <1>1 DEF Reading, At
  <1>3. \A r \in Threads \ {t} : Dirty(r)' = Dirty(r)
    BY <1>1 DEF Dirty
  <1>4. ASSUME (latest.version = version)', (owed <= version)', \A r \in Threads : ~Dirty(r)'
        PROVE  \A s \in latest'.states : Rest(s) = Rest(door')
    <2>0. owed <= version /\ ~(version < owed')
      BY <1>4 DEF TypeOK
    <2>1. Rest(door') = Rest(door) /\ ~Dirty(t)
      BY <1>1, <1>4, <2>0 DEF Dirty
    <2>2. \A r \in Threads : ~Dirty(r)
      BY <1>3, <1>4, <2>1
    <2> QED
      BY <1>4, <2>0, <2>1, <2>2 DEF ConvergeInv
  <1>5. Rest(door)' = Rest(door') /\ \A s : Rest(s)' = Rest(s)
    BY DEF Rest
  <1>6. (latest.version < version => version <= owed \/ \E r \in Threads : Reading(r))'
    <2>1. version <= owed => version <= owed'
      BY DEF TypeOK
    <2> QED
      BY <1>2, <2>1 DEF ConvergeInv
  <1> QED
    BY <1>2, <1>4, <1>5, <1>6 DEF ConvergeInv, At

LEMMA CommandConverges == TypeOK /\ ConvergeInv /\ CommandStep => ConvergeInv'
  <1> SUFFICES ASSUME TypeOK, ConvergeInv, CommandStep PROVE ConvergeInv'
    OBVIOUS
  <1> USE DEF At, Goto
  <1>0. /\ "command" \in Threads
        /\ {"idle", "sleep", "ready", "drive", "arm", "touch"} \subseteq Steps
    BY DEF Threads, Steps
  <1>1. /\ UNCHANGED <<version, latest, snap, owed>>
        /\ owed' \in Nat /\ owed <= owed' /\ owed' <= version + 1
    BY DEF TypeOK, ConvergeInv, CommandStep, Check, Wake, FailInjected, Refuse, Lock, Unlock, Arm, Configure
  <1>2. ~Reading("command")
    BY DEF Reading, CommandStep, Check, Wake, FailInjected, Refuse, Lock, Unlock, Arm, Configure
  <1>3. CASE Check \/ Wake \/ FailInjected \/ Refuse
    <2>1. Rest(door') = Rest(door) /\ ~Dirty("command")
      BY <1>3 DEF Check, Wake, FailInjected, Refuse, Dirty
    <2>2. PICK step \in {"idle", "sleep", "ready", "drive"} :
            pc' = [pc EXCEPT !["command"] = step]
      BY <1>3 DEF Check, Wake, FailInjected, Refuse
    <2> QED
      BY <1>0, <1>1, <1>2, <2>1, <2>2, QuietStep
  <1>4. CASE Lock \/ Unlock \/ Arm \/ Configure
    <2>1. PICK step \in {"arm", "touch"} : pc' = [pc EXCEPT !["command"] = step]
      BY <1>4 DEF Lock, Unlock, Arm, Configure
    <2> QED
      BY <1>0, <1>1, <1>2, <2>1, QuietStep
  <1> QED
    BY <1>3, <1>4 DEF CommandStep

LEMMA TickConverges == TypeOK /\ ConvergeInv /\ TickStep => ConvergeInv'
  <1> SUFFICES ASSUME TypeOK, ConvergeInv, TickStep PROVE ConvergeInv'
    OBVIOUS
  <1> USE DEF At, Goto
  <1>0. "tick" \in Threads /\ {"idle", "due", "audit", "touch"} \subseteq Steps
    BY DEF Threads, Steps
  <1>1. UNCHANGED <<version, latest, snap>>
    BY DEF TickStep, TickStart, TickNotYet, TickLock, TickAudited, TickAuditFails
  <1>2. ~Reading("tick")
    BY DEF Reading, TickStep, TickStart, TickNotYet, TickLock, TickAudited, TickAuditFails
  <1>6. ASSUME TickStart \/ TickNotYet \/ TickLock \/ TickAudited
        PROVE  owed' \in Nat /\ owed <= owed' /\ owed' <= version + 1
    BY <1>6 DEF TypeOK, ConvergeInv, TickStart, TickNotYet, TickLock, TickAudited
  <1>3. CASE TickStart \/ TickNotYet
    <2>1. Rest(door') = Rest(door) /\ ~Dirty("tick")
      BY <1>3 DEF TickStart, TickNotYet, Dirty
    <2>2. PICK step \in {"idle", "due"} : pc' = [pc EXCEPT !["tick"] = step]
      BY <1>3 DEF TickStart, TickNotYet
    <2> QED
      BY <1>0, <1>1, <1>2, <1>3, <1>6, <2>1, <2>2, QuietStep
  <1>4. CASE TickLock \/ TickAudited
    <2>1. PICK step \in {"audit", "touch"} : pc' = [pc EXCEPT !["tick"] = step]
      BY <1>4 DEF TickLock, TickAudited
    <2> QED
      BY <1>0, <1>1, <1>2, <1>4, <1>6, <2>1, QuietStep
  <1>5. CASE TickAuditFails
    <2>1. pc' = [pc EXCEPT !["tick"] = "idle"] /\ owed' = version + 1
      BY <1>5 DEF TickAuditFails
    <2>2. owed' \in Nat /\ version < owed' /\ owed' <= version + 1
      BY <2>1 DEF TypeOK
    <2>3. owed <= owed'
      BY <2>1 DEF ConvergeInv
    <2> QED
      BY <1>0, <1>1, <1>2, <2>1, <2>2, <2>3, QuietStep
  <1> QED
    BY <1>3, <1>4, <1>5 DEF TickStep

LEMMA LoopConverges == TypeOK /\ ConvergeInv /\ Inject => ConvergeInv'
  <1> SUFFICES ASSUME TypeOK, ConvergeInv, Inject PROVE ConvergeInv'
    OBVIOUS
  <1>1. "loop" \in Threads /\ "touch" \in Steps
    BY DEF Threads, Steps
  <1>2. /\ UNCHANGED <<version, latest, snap, owed>>
        /\ owed \in Nat /\ owed <= owed /\ owed <= version + 1
        /\ pc' = [pc EXCEPT !["loop"] = "touch"] /\ ~Reading("loop")
    BY DEF TypeOK, ConvergeInv, Inject, At, Goto, Reading
  <1> QED
    BY <1>1, <1>2, QuietStep

LEMMA CallConverges ==
  TypeOK /\ ConvergeInv /\ (Submit \/ SubmitConfig \/ Pass \/ UNCHANGED vars) => ConvergeInv'
  <1> SUFFICES ASSUME TypeOK, ConvergeInv, Submit \/ SubmitConfig \/ Pass \/ UNCHANGED vars
               PROVE  ConvergeInv'
    OBVIOUS
  <1>1. CASE Submit \/ SubmitConfig
    <2>1. "command" \in Threads /\ "check" \in Steps
      BY DEF Threads, Steps
    <2>2. /\ UNCHANGED <<door, version, latest, snap, owed>>
          /\ pc' = [pc EXCEPT !["command"] = "check"]
          /\ ~Reading("command") /\ ~Dirty("command")
      BY <1>1 DEF Submit, SubmitConfig, At, Goto, Reading, Dirty
    <2>3. Rest(door') = Rest(door)
      BY <2>2
    <2>4. owed \in Nat /\ owed <= owed /\ owed <= version + 1
      BY DEF TypeOK, ConvergeInv
    <2> QED
      BY <2>1, <2>2, <2>3, <2>4, QuietStep
  <1>2. CASE Pass \/ UNCHANGED vars
    BY <1>2 DEF Pass, vars, threadVars, ConvergeInv, At, Dirty, Reading, Rest
  <1> QED
    BY <1>1, <1>2

(* A snapshot begins, or a thread has written a new version: from now on   *)
(* this thread is reading.                                                 *)
LEMMA ReadingStarts ==
  ASSUME TypeOK, ConvergeInv, NEW t \in Threads,
         Touch(t) \/ AlertWritten(t) \/ (t = "loop" /\ Snapshot)
  PROVE  ConvergeInv'
  <1>0. /\ version \in Nat /\ latest.version \in Nat /\ pc \in [Threads -> Steps]
        /\ owed \in Nat /\ owed <= version + 1
        /\ \A r \in Threads : snap[r].version \in Nat
    BY DEF TypeOK, ConvergeInv, Snap
  <1>1. /\ UNCHANGED <<door, latest, snap, owed>>
        /\ version' = version + 1 \/ (version' = version /\ ~Dirty(t))
        /\ \E step \in {"alert", "online"} : pc' = [pc EXCEPT ![t] = step]
    BY DEF Touch, AlertWritten, Snapshot, At, Goto, Dirty
  <1>2. /\ pc'[t] \in {"alert", "online"}
        /\ \A r \in Threads \ {t} : pc'[r] = pc[r]
    BY <1>0, <1>1
  <1>3. Reading(t)'
    BY <1>2 DEF Reading
  <1>4. latest'.version <= version' /\ owed' <= version' + 1
    BY <1>0, <1>1 DEF ConvergeInv
  <1>5. \A r \in Threads : pc'[r] = "state" => snap'[r].version <= version'
    <2> SUFFICES ASSUME NEW r \in Threads, pc'[r] = "state"
                 PROVE  snap'[r].version <= version'
      OBVIOUS
    <2>1. pc[r] = "state"
      BY <1>2
    <2>2. snap[r].version <= version
      BY <2>1 DEF ConvergeInv, At
    <2> QED
      BY <1>0, <1>1, <2>2
  <1>6. ASSUME latest'.version = version', owed' <= version', \A r \in Threads : ~Dirty(r)'
        PROVE  \A s \in latest'.states : Rest(s) = Rest(door')
    <2>1. version' = version /\ ~Dirty(t)
      BY <1>0, <1>1, <1>6 DEF ConvergeInv
    <2>2. \A r \in Threads : ~Dirty(r)
      BY <1>2, <1>6, <2>1 DEF Dirty
    <2> QED
      BY <1>1, <1>6, <2>1, <2>2 DEF ConvergeInv
  <1>7. Rest(door)' = Rest(door') /\ \A s : Rest(s)' = Rest(s)
    BY DEF Rest
  <1> QED
    BY <1>3, <1>4, <1>5, <1>6, <1>7 DEF ConvergeInv, At

LEMMA ReadConverges ==
  ASSUME TypeOK, ConvergeInv, NEW t \in Threads, ReadOnline(t) \/ ReadVersion(t)
  PROVE  ConvergeInv'
  <1>0. version \in Nat /\ pc \in [Threads -> Steps] /\ snap \in [Threads -> Snap]
    BY DEF TypeOK
  <1>1. /\ UNCHANGED <<door, version, latest, owed>>
        /\ \/ pc'[t] = "version"
           \/ pc'[t] = "state" /\ snap'[t].version = version
        /\ ~Dirty(t) /\ ~Dirty(t)'
        /\ \A r \in Threads \ {t} : pc'[r] = pc[r] /\ snap'[r] = snap[r]
    BY <1>0 DEF ReadOnline, ReadVersion, At, Goto, Dirty, Snap
  <1>2. Reading(t)'
    BY <1>1 DEF Reading, At
  <1>3. \A r \in Threads : pc'[r] = "state" => snap'[r].version <= version'
    <2> SUFFICES ASSUME NEW r \in Threads, pc'[r] = "state"
                 PROVE  snap'[r].version <= version'
      OBVIOUS
    <2>1. CASE r = t
      BY <1>0, <1>1, <2>1
    <2>2. CASE r # t
      BY <1>1, <2>2 DEF ConvergeInv, At
    <2> QED
      BY <2>1, <2>2
  <1>4. \A r \in Threads : Dirty(r)' = Dirty(r)
    BY <1>1 DEF Dirty
  <1>5. Rest(door)' = Rest(door') /\ \A s : Rest(s)' = Rest(s)
    BY DEF Rest
  <1> QED
    BY <1>1, <1>2, <1>3, <1>4, <1>5 DEF ConvergeInv, At

LEMMA PublishConverges ==
  ASSUME TypeOK, ConvergeInv, NEW t \in Threads, Publish(t)
  PROVE  ConvergeInv'
  <1> DEFINE v == snap[t].version
  <1>0. /\ version \in Nat /\ latest.version \in Nat /\ pc \in [Threads -> Steps]
        /\ v \in Nat /\ latest.version <= version /\ v <= version
        /\ Rest(Published(t)) = Rest(door)
    BY PublishedTypes DEF TypeOK, ConvergeInv, Publish
  <1>1. /\ UNCHANGED <<door, version, snap, owed>>
        /\ pc'[t] = "idle" /\ ~Dirty(t) /\ ~Dirty(t)' /\ owed <= version + 1
        /\ \A r \in Threads \ {t} : pc'[r] = pc[r]
    BY <1>0 DEF Publish, At, Goto, Dirty, ConvergeInv
  <1>2. /\ v > latest.version => latest'.version = v /\ latest'.states = {Published(t)}
        /\ ~(v > latest.version) => latest'.version = latest.version
        /\ ~(v > latest.version) /\ v = latest.version =>
             latest'.states = latest.states \cup {Published(t)}
        /\ ~(v > latest.version) /\ v # latest.version => latest'.states = latest.states
    BY DEF Publish, Published
  <1>3. latest'.version <= version' /\ latest.version <= latest'.version
        /\ v <= latest'.version /\ latest'.version \in Nat
    BY <1>0, <1>1, <1>2
  <1> HIDE DEF v
  <1>4. \A r \in Threads : pc'[r] = "state" => snap'[r].version <= version'
    BY <1>1 DEF ConvergeInv, At
  <1>5. ASSUME latest'.version < version', ~(version' <= owed')
        PROVE  \E r \in Threads : Reading(r)'
    <2>1. latest.version < version /\ v < version /\ ~(version <= owed)
      BY <1>0, <1>1, <1>2, <1>3, <1>5
    <2>2. PICK r \in Threads : Reading(r)
      BY <2>1 DEF ConvergeInv
    <2>3. ~Reading(t)
      <3>1. pc[t] = "state"
        BY DEF Publish, At
      <3>2. v # version
        BY <1>0, <2>1
      <3> QED
        BY <3>1, <3>2 DEF Reading, v
    <2> QED
      BY <1>1, <2>2, <2>3 DEF Reading, At
  <1>6. ASSUME latest'.version = version', owed' <= version', \A r \in Threads : ~Dirty(r)'
        PROVE  \A s \in latest'.states : Rest(s) = Rest(door')
    <2>1. \A r \in Threads : ~Dirty(r)
      BY <1>1, <1>6 DEF Dirty
    <2>2. CASE v > latest.version
      BY <1>0, <1>1, <1>2, <2>2
    <2>3. CASE ~(v > latest.version)
      <3>1. latest.version = version /\ owed <= version
        BY <1>1, <1>2, <1>6, <2>3
      <3>2. \A s \in latest.states : Rest(s) = Rest(door)
        BY <2>1, <3>1 DEF ConvergeInv
      <3> QED
        BY <1>0, <1>1, <1>2, <2>3, <3>2
    <2> QED
      BY <2>2, <2>3
  <1>7. Rest(door)' = Rest(door') /\ \A s : Rest(s)' = Rest(s)
    BY DEF Rest
  <1>8. owed' <= version' + 1
    BY <1>1
  <1> QED
    BY <1>3, <1>4, <1>5, <1>6, <1>7, <1>8 DEF ConvergeInv, At

(* A thread gives up reading, and clients are owed what it would have told. *)
LEMMA LossConverges ==
  ASSUME TypeOK, ConvergeInv, NEW t \in Threads, ~Dirty(t), LoseEvent(t)
  PROVE  ConvergeInv'
  <1>0. /\ version \in Nat /\ owed \in Nat /\ latest.version \in Nat
        /\ latest.version <= version /\ owed <= version + 1
    BY DEF TypeOK, ConvergeInv
  <1>1. /\ UNCHANGED <<door, version, latest, snap>> /\ pc'[t] = "idle"
        /\ \A r \in Threads \ {t} : pc'[r] = pc[r]
    BY DEF LoseEvent, Goto, faultVars, TypeOK
  <1>2. /\ version <= owed' /\ owed' <= version + 1
        /\ owed' <= version => owed <= version
    BY <1>0 DEF LoseEvent
  <1>3. \A r \in Threads : Dirty(r)' = Dirty(r)
    BY <1>1 DEF Dirty
  <1>5. \A r \in Threads : pc'[r] = "state" => snap'[r].version <= version'
    BY <1>1 DEF ConvergeInv, At
  <1>6. Rest(door)' = Rest(door') /\ \A s : Rest(s)' = Rest(s)
    BY DEF Rest
  <1> QED
    BY <1>0, <1>1, <1>2, <1>3, <1>5, <1>6 DEF ConvergeInv, At

LEMMA StepConverges == TypeOK /\ ConvergeInv /\ [Next]_vars => ConvergeInv'
  <1> SUFFICES ASSUME TypeOK, ConvergeInv, [Next]_vars PROVE ConvergeInv'
    OBVIOUS
  <1>1. ASSUME NEW t \in Threads, ReadStep(t) PROVE ConvergeInv'
    <2>1. CASE AlertFails(t)
      BY <2>1, LossConverges DEF AlertFails, At, Dirty
    <2> QED
      BY <1>1, <2>1, ReadingStarts, ReadConverges, PublishConverges DEF ReadStep
  <1>3. CASE CommandAuditFails
    BY <1>3, LossConverges DEF CommandAuditFails, At, Dirty, Threads
  <1>2. CASE Snapshot
    <2>1. "loop" \in Threads
      BY DEF Threads
    <2> QED
      BY <1>2, <2>1, ReadingStarts
  <1> QED
    BY <1>1, <1>2, <1>3, CommandConverges, TickConverges, LoopConverges, CallConverges DEF Next

(* When the threads rest, whichever event of the highest version a client  *)
(* kept tells it the state of the lock, once it has been told the version  *)
(* that a failed write last kept from it.  The invariant: a version that   *)
(* has not been published is being read or was lost, and a lock that is    *)
(* being changed will get a new version.                                   *)
THEOREM LockConverges == Spec => []ClientsConverge
  <1>1. Init => TypeOK /\ ConvergeInv
    BY InitTypes, InitConverges
  <1>2. TypeOK /\ ConvergeInv /\ [Next]_vars => TypeOK' /\ ConvergeInv'
    BY StepTypes, StepConverges
  <1>3. TypeOK /\ ConvergeInv => ClientsConverge
    <2> SUFFICES ASSUME TypeOK, ConvergeInv, AllIdle, latest.version >= owed
                 PROVE  /\ latest.version = version
                        /\ \A s \in latest.states : Rest(s) = Rest(door)
      BY DEF ClientsConverge
    <2>1. \A t \in Threads : ~Dirty(t) /\ ~Reading(t)
      BY DEF AllIdle, At, Dirty, Reading
    <2>2. version \in Nat /\ latest.version \in Nat /\ owed \in Nat
      BY DEF TypeOK
    <2>3. ~(latest.version < version) /\ latest.version <= version
      BY <2>1, <2>2 DEF ConvergeInv
    <2>4. latest.version = version /\ owed <= version
      BY <2>2, <2>3
    <2> QED
      BY <2>1, <2>4 DEF ConvergeInv
  <1> QED
    BY <1>1, <1>2, <1>3, PTL DEF Spec
=============================================================================
