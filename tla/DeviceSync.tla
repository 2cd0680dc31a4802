------------------------------ MODULE DeviceSync ------------------------------
(***************************************************************************)
(* How the app keeps its copy of a device in step with the gateway, which  *)
(* alone owns the truth: full snapshots over HTTPS (DeviceManager.ets,     *)
(* refreshAll) and incremental events over the WebSocket                   *)
(* (onGatewayMessage, applyDevice), sent by the tasks of app.py and        *)
(* service.py.  One removable device stands for all: devices do not touch  *)
(* one another.                                                            *)
(*                                                                         *)
(* Every change of the device is a moment; a copy of it carries the moment *)
(* it was taken as history.  The program itself sees only versions, which  *)
(* start again at 1 when a device is registered anew.                      *)
(***************************************************************************)
EXTENDS Integers, Sequences, FiniteSets

CONSTANTS
  Refresh,                              \* refreshAll calls that may overlap
  MaxMoments, MaxDrops, MaxAbandoned    \* bounds of the model

VARIABLES
  device,      \* the gateway's device
  casting,     \* events built by gateway tasks and not yet sent
  abandoned,   \* history: moments whose events were never sent
  link,        \* the app's WebSocket: down, opening (accepted) or up
  wire,        \* events under way on it
  refresh,     \* what each refreshAll has done
  view,        \* the app's copy: DeviceManager.devices
  store,       \* the copy that DeviceSnapshotStore keeps
  seen,        \* history: the latest moment that this process was told of
  synced,      \* history: whether a snapshot was applied since the link is up
  overwritten, \* history: whether the last snapshot applied was an old one
  session,     \* DeviceManager.session: held or null, which is "refused" when a stored
               \* copy may linger and "none" when there is none
  forgetting,  \* how far forgetGateway has come
  removals, drops

gatewayVars == <<device, casting, abandoned, removals>>
linkVars    == <<link, wire, drops>>
sessionVars == <<session, forgetting>>
appVars     == <<view, store, seen, synced, overwritten, session, forgetting>>
vars == <<gatewayVars, linkVars, refresh, appVars>>

Copy    == [version : Nat, moment : Nat]   \* version 0: there is no such device
Event   == [type : {"state.changed", "device.removed"}, copy : Copy]
Absent  == [version |-> 0, moment |-> 0]
Here(c) == c.version # 0
Later(m, n) == IF m > n THEN m ELSE n
Idle    == [at |-> "idle", data |-> Absent, fresh |-> FALSE]

-----------------------------------------------------------------------------
Init ==
  /\ device = [version |-> 1, moment |-> 1]
  /\ casting = {} /\ abandoned = {} /\ removals = 0
  /\ link = "down" /\ wire = <<>> /\ drops = 0
  /\ refresh = [r \in Refresh |-> Idle]
  /\ view = Absent /\ store = Absent
  /\ seen = 0 /\ synced = FALSE /\ overwritten = FALSE
  /\ session = "held" /\ forgetting = "no"

(* The event that a task builds of the device as it is now. *)
Announce(type, version) ==
  LET now == [version |-> version, moment |-> device.moment + 1] IN
    /\ device.moment < MaxMoments
    /\ device' = now
    /\ casting' = casting \cup {[type |-> type, copy |-> now]}

(* A command, a telemetry tick or an injected fault. *)
Change ==
  /\ Here(device) /\ Announce("state.changed", device.version + 1)
  /\ UNCHANGED <<abandoned, removals, linkVars, refresh, appVars>>

(* Seeded fault: a registration is not broadcast. *)
RegisterSilently ==
  /\ ~Here(device) /\ device.moment < MaxMoments
  /\ device' = [version |-> 1, moment |-> device.moment + 1]
  /\ UNCHANGED <<casting, abandoned, removals, linkVars, refresh, appVars>>

Register ==
  /\ ~Here(device) /\ Announce("state.changed", 1)
  /\ UNCHANGED <<abandoned, removals, linkVars, refresh, appVars>>

Delete ==
  /\ Here(device) /\ Announce("device.removed", 0)
  /\ removals' = removals + 1
  /\ UNCHANGED <<abandoned, linkVars, refresh, appVars>>

(* broadcast(): every task sends its event in its own time; who is not     *)
(* subscribed does not get it.                                             *)
Cast(e) ==
  /\ e \in casting
  /\ casting' = casting \ {e}
  /\ wire' = IF link = "down" THEN wire ELSE Append(wire, e)
  /\ UNCHANGED <<device, abandoned, removals, link, drops, refresh, appVars>>

(* The task fails between the change and the broadcast: its audit row was  *)
(* not written, or the WebSocket that asked for the change has closed and  *)
(* the result cannot be sent.                                              *)
Abandon(e) ==
  /\ e \in casting /\ Cardinality(abandoned) < MaxAbandoned
  /\ casting' = casting \ {e}
  /\ abandoned' = abandoned \cup {e.copy.moment}
  /\ UNCHANGED <<device, removals, linkVars, refresh, appVars>>

-----------------------------------------------------------------------------
(* The gateway accepts the WebSocket and adds its sink. *)
Accept ==
  /\ session = "held" /\ link = "down" /\ link' = "opening"
  /\ UNCHANGED <<gatewayVars, wire, drops, refresh, appVars>>

Ask(r) == refresh' = [refresh EXCEPT ![r] = [Idle EXCEPT !.at = "asked",
                                                         !.fresh = link' = "up"]]

(* connect() resolves: onConnectionStateChanged(ONLINE) refreshes, which   *)
(* asks for nothing without a session.                                     *)
Online(r) ==
  /\ link = "opening" /\ link' = "up"
  /\ IF session = "held" THEN refresh[r] = Idle /\ Ask(r) ELSE refresh' = refresh
  /\ UNCHANGED <<gatewayVars, wire, drops, appVars>>

(* The connection goes, and all that is under way on it. *)
Outdated == refresh' = [r \in Refresh |-> [refresh[r] EXCEPT !.fresh = FALSE]]
CutOff   == link' = "down" /\ wire' = <<>> /\ synced' = FALSE

Drop ==
  /\ link # "down" /\ drops < MaxDrops /\ drops' = drops + 1
  /\ CutOff /\ Outdated
  /\ UNCHANGED <<gatewayVars, view, store, seen, overwritten, sessionVars>>

(* refreshAll: by the user, by connectAndSync or after a command's result. *)
Start(r) ==
  /\ session = "held" /\ refresh[r] = Idle /\ link' = link /\ Ask(r)
  /\ UNCHANGED <<gatewayVars, wire, drops, appVars>>

(* GET /api/v1/devices. *)
Snapshot(r) ==
  /\ refresh[r].at = "asked"
  /\ refresh' = [refresh EXCEPT ![r].at = "answered", ![r].data = device]
  /\ UNCHANGED <<gatewayVars, linkVars, appVars>>

(* Both answers are in, the devices' and the rooms': the copy is replaced. *)
Apply(r) ==
  /\ refresh[r].at = "answered"
  /\ LET data == refresh[r].data IN
       /\ view' = data
       /\ seen' = Later(seen, data.moment)
       /\ overwritten' = (data.moment < seen)
       /\ synced' = (synced \/ refresh[r].fresh)
  /\ refresh' = [refresh EXCEPT ![r].at = "saving"]
  /\ UNCHANGED <<gatewayVars, linkVars, store, sessionVars>>

(* snapshotStore.save(), whether or not it succeeds. *)
Save(r) ==
  /\ refresh[r].at = "saving"
  /\ store' \in {store, refresh[r].data}
  /\ refresh' = [refresh EXCEPT ![r] = Idle]
  /\ UNCHANGED <<gatewayVars, linkVars, view, seen, synced, overwritten, sessionVars>>

(* Either request fails. *)
Fail(r) ==
  /\ refresh[r].at \in {"asked", "answered"}
  /\ refresh' = [refresh EXCEPT ![r] = Idle]
  /\ UNCHANGED <<gatewayVars, linkVars, appVars>>

(* Seeded fault: whatever comes is applied. *)
HeardAlways(e) == e.copy

(* applyDevice and the handler of device.removed. *)
Heard(e) ==
  IF e.type = "device.removed" \/ ~Here(view) \/ e.copy.version > view.version
  THEN e.copy ELSE view

(* onGatewayMessage. *)
Hear ==
  /\ wire # <<>>
  /\ view' = Heard(Head(wire)) /\ seen' = Later(seen, Head(wire).copy.moment)
  /\ wire' = Tail(wire)
  /\ UNCHANGED <<gatewayVars, link, drops, refresh, store, synced, overwritten, sessionVars>>

-----------------------------------------------------------------------------
(* The gateway refuses the session, to the WebSocket or to a refresh:      *)
(* invalidateSession closes the link and leaves what is shown.             *)
Unauthorised(over) ==
  /\ session = "held" /\ session' = "refused"
  /\ drops < MaxDrops /\ drops' = drops + 1
  /\ \A r \in over : refresh[r].at \in {"asked", "answered"}
  /\ CutOff
  /\ refresh' = [r \in Refresh |-> IF r \in over THEN Idle
                                   ELSE [refresh[r] EXCEPT !.fresh = FALSE]]
  /\ UNCHANGED <<gatewayVars, view, store, seen, overwritten, forgetting>>

(* forgetGateway, which awaits the close and each of the two stores.  It   *)
(* stops no refresh that is under way: that one shows and stores its       *)
(* snapshot again after all.                                               *)
ForgetCloses ==
  /\ session = "held" /\ forgetting = "no" /\ forgetting' = "closed"
  /\ drops < MaxDrops /\ drops' = drops + 1
  /\ CutOff /\ Outdated
  /\ UNCHANGED <<gatewayVars, view, store, seen, overwritten, session>>

ForgetsSession ==
  /\ forgetting = "closed" /\ forgetting' = "unpaired"
  /\ UNCHANGED <<gatewayVars, linkVars, refresh, view, store, seen, synced, overwritten, session>>

ForgetsSnapshot ==
  /\ forgetting = "unpaired" /\ forgetting' = "cleared"
  /\ store' = Absent
  /\ UNCHANGED <<gatewayVars, linkVars, refresh, view, seen, synced, overwritten, session>>

Forgotten ==
  /\ forgetting = "cleared" /\ forgetting' = "no"
  /\ session' = "none" /\ view' = Absent
  /\ seen' = 0 /\ overwritten' = FALSE /\ synced' = FALSE /\ Outdated
  /\ UNCHANGED <<gatewayVars, linkVars, store>>

(* pairGateway: the session is saved and set, and connect() closes what    *)
(* socket there was.  Over a session that is held it is a reconnection.    *)
Pair ==
  /\ session # "held" /\ session' = "held"
  /\ CutOff /\ Outdated
  /\ UNCHANGED <<gatewayVars, drops, view, store, seen, overwritten, forgetting>>

(* What sessionStore.restore() may find: it can fail, and a session that   *)
(* was refused is cleared without being waited for.                        *)
StoredSession ==
  IF session = "none" \/ forgetting \in {"unpaired", "cleared"} THEN {"none"}
  ELSE {"refused", "held"}

(* The app's process ends and starts again: initialize() shows the stored  *)
(* copy, whether or not there is a session.                                *)
Restart ==
  /\ drops < MaxDrops /\ drops' = drops + 1
  /\ CutOff
  /\ refresh' = [r \in Refresh |-> Idle]
  /\ view' = store /\ seen' = store.moment /\ overwritten' = FALSE
  /\ session' \in StoredSession /\ forgetting' = "no"
  /\ UNCHANGED <<gatewayVars, store>>

SessionStep ==
  \/ \E over \in {{}} \cup {{r} : r \in Refresh} : Unauthorised(over)
  \/ ForgetCloses \/ ForgetsSession \/ ForgetsSnapshot \/ Forgotten \/ Pair

Next ==
  \/ Change \/ Register \/ Delete
  \/ \E e \in casting : Cast(e) \/ Abandon(e)
  \/ Accept \/ Drop \/ Hear \/ Restart \/ SessionStep
  \/ \E r \in Refresh :
       Online(r) \/ Start(r) \/ Snapshot(r) \/ Apply(r) \/ Save(r) \/ Fail(r)

Spec == Init /\ [][Next]_vars

-----------------------------------------------------------------------------
Call == [at : {"idle", "asked", "answered", "saving"}, data : Copy, fresh : BOOLEAN]

TypeOK ==
  /\ device \in Copy /\ casting \subseteq Event /\ abandoned \subseteq Nat
  /\ link \in {"down", "opening", "up"} /\ wire \in Seq(Event)
  /\ refresh \in [Refresh -> Call]
  /\ view \in Copy /\ store \in Copy
  /\ seen \in Nat /\ synced \in BOOLEAN /\ overwritten \in BOOLEAN
  /\ session \in {"none", "held", "refused"}
  /\ forgetting \in {"no", "closed", "unpaired", "cleared"}
  /\ removals \in Nat /\ drops \in Nat

(* A moment has been seen, or something is under way that tells of it, or  *)
(* its event was abandoned.                                                *)
Reaches(m, base) ==
  \/ m <= base \/ m \in abandoned
  \/ \E e \in casting : e.copy.moment = m
  \/ \E i \in 1 .. Len(wire) : wire[i].copy.moment = m
AllReach(base) == \A m \in 1 .. device.moment : Reaches(m, base)

Quiet == /\ link = "up" /\ casting = {} /\ wire = <<>>
         /\ \A r \in Refresh : refresh[r] = Idle

(* When nothing is under way and a snapshot was taken since the WebSocket  *)
(* came up, the app has been told of every change but those whose task     *)
(* failed before its broadcast: subscribe first, ask second leaves no gap. *)
OnlyAbandonedIsUnseen ==
  Quiet /\ synced => \A m \in 1 .. device.moment : m <= seen \/ m \in abandoned

(* Why: with a snapshot applied, or one answered while subscribed, every   *)
(* moment reaches the app.                                                 *)
SyncInv ==
  /\ synced => link = "up" /\ AllReach(seen)
  /\ \A r \in Refresh : refresh[r].fresh => link = "up"
  /\ \A r \in Refresh : refresh[r].fresh /\ refresh[r].at = "answered" =>
       AllReach(Later(seen, refresh[r].data.moment))

(* Events may arrive in any order: while the device is not removed, what   *)
(* the app shows in the end is the truth, unless a snapshot older than     *)
(* what it had been told came in last (applyDevice compares versions,      *)
(* refreshAll does not).                                                   *)
CurrentUnlessOverwritten ==
  Quiet /\ synced /\ device.moment \notin abandoned /\ removals = 0 /\ ~overwritten =>
    view = device

(* Why: without removals a version is a moment, so the later of two copies *)
(* is the one that was taken later.                                        *)
Genuine(c, now) == c.version = c.moment /\ c.moment <= now
AllGenuine ==
  /\ device.version = device.moment
  /\ Genuine(view, device.moment) /\ Genuine(store, device.moment) /\ seen <= device.moment
  /\ \A r \in Refresh : Genuine(refresh[r].data, device.moment)
  /\ \A e \in casting : e.type = "state.changed" /\ Genuine(e.copy, device.moment)
  /\ \A i \in 1 .. Len(wire) :
       wire[i].type = "state.changed" /\ Genuine(wire[i].copy, device.moment)
GenuineInv == removals = 0 => AllGenuine /\ (~overwritten => view.moment = seen)

(* The documents say that the app never rolls a device back to an older    *)
(* version.  A snapshot asked for before an event and answered after it    *)
(* replaces the copy unconditionally.                                      *)
NeverRollsBack ==
  [][removals = 0 /\ (\E r \in Refresh : Apply(r)) => view'.version >= view.version]_vars

(* The documents say that every command is broadcast whichever way it came *)
(* in.  One whose WebSocket closes before its result is sent is not.       *)
EveryChangeIsTold == Quiet /\ synced => seen = device.moment
=============================================================================
