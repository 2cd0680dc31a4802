------------------------------ MODULE Catalogue ------------------------------
(***************************************************************************)
(* What the gateway knows: rooms and registered devices (registry.py), the *)
(* requests that change them under GatewayService's registration lock      *)
(* (service.py, app.py), the signed identity a device is registered with   *)
(* (security.py, generate_device_qr.py), and the audit log that is written *)
(* of it and read page by page (storage.py).  Devices and rooms are lost   *)
(* when the gateway stops; its key, the log and printed labels are not.    *)
(* What a device does is in Appliances and DoorLock.                       *)
(***************************************************************************)
EXTENDS Integers, Sequences, FiniteSets

CONSTANTS
  Clients,        \* handlers under way: one request of a paired App each
  Declarations,   \* [id, name, type, category, capabilities]
  ForeignProofs,  \* proofs another gateway signed: [claims, signer]
  BuiltIn,        \* ids of devices the drivers create
  NewRooms,       \* [id, name] that may be asked for
  Places,         \* rooms a registration may name
  PageSize,       \* limit of a log page
  Touched,        \* devices that commands and the tick change, a bound of the model like
  MaxLabels, MaxLog, MaxVersion, MaxRestarts, MaxFailures

ASSUME PagesHold    == PageSize \in Nat \ {0}
ASSUME ClientNames  == "free" \notin Clients
ASSUME SignedAbroad == \A p \in ForeignProofs : p.signer # "this"

VARIABLES
  rooms,      \* DeviceRegistry.rooms
  devices,    \* DeviceRegistry.devices: a partial function of ids
  labels,     \* the QR codes that are printed: [declares, proof]
  handler,    \* how far the request of each client has come
  lock,       \* the holder of _registration_lock
  log,        \* audit_logs, in the order of their ids
  boot,       \* history: the length of the log when the gateway started
  told,       \* history: the devices a subscriber that always reads knows of
  unheard,    \* history: devices whose registration a subscriber may miss
  held,       \* devices the telemetry loop has changed and will tell of
  reader,     \* a client that reads the log
  restarts, failures

vars == <<rooms, devices, labels, handler, lock, log, boot, told, unheard, held, reader, restarts, failures>>

Ids  == BuiltIn \cup {d.id : d \in Declarations}
Free == "free"
Idle == [at |-> "idle"]

DefaultRooms ==
  {[id |-> "living", name |-> "Living", selectable |-> TRUE],
   [id |-> "entry", name |-> "Entry", selectable |-> FALSE]}

Drivers == {"light", "environment", "airConditioner", "humidifier", "curtain", "bathHeater", "doorLock"}

-----------------------------------------------------------------------------
(* What each driver accepts of a declaration; the others accept none.      *)
LightAttests(d) ==
  /\ d.type = "light" /\ d.category = "lighting"
  /\ d.capabilities = {"setPower", "setBrightness", "setAutomationConfig"}

SensorAttests(d) ==
  /\ d.type = "environment" /\ d.category = "environment"
  /\ d.capabilities = {"reportTemperature", "reportHumidity", "reportIlluminance", "reportPresence"}

AirAttests(d) ==
  /\ d.type = "airConditioner" /\ d.category = "environment"
  /\ d.capabilities = {"setPower", "setMode", "setTemperature", "setFanSpeed", "setDehumidify", "setBrand"}

HumidifierAttests(d) ==
  /\ d.type = "humidifier" /\ d.category = "environment"
  /\ d.capabilities = {"setPower", "setTargetHumidity"}

Attests(d) == LightAttests(d) \/ SensorAttests(d) \/ AirAttests(d) \/ HumidifierAttests(d)

Fresh(d, room) == [declares |-> {d}, room |-> room, removable |-> TRUE, version |-> 1]

Present(id)    == id \in DOMAIN devices
Same(id, d, room) ==
  devices[id].removable /\ devices[id].declares = {d} /\ devices[id].room = room

-----------------------------------------------------------------------------
(* Seeded fault: only the signature is looked at. *)
VerifiesSignatureOnly(l) == l.proof.signer = "this"

(* DeviceProvisioningAuthority.verify: signed with this gateway's key, and *)
(* its claims are what the label declares.                                 *)
Verifies(l) == l.proof.signer = "this" /\ l.proof.claims = l.declares

Issue(d) == [claims |-> d, signer |-> "this"]

(* The QR tool is given a proof or asks the gateway for one. *)
PrintLabel(d) ==
  /\ Cardinality(labels) < MaxLabels
  /\ \E p \in {Issue(d)} \cup {l.proof : l \in labels} \cup ForeignProofs :
       labels' = labels \cup {[declares |-> d, proof |-> p]}
  /\ UNCHANGED <<rooms, devices, handler, lock, log, boot, told, unheard, held, reader, restarts, failures>>

BuiltInDevices ==
  [id \in BuiltIn |-> [declares |-> {}, room |-> "entry", removable |-> FALSE, version |-> 1]]

Init ==
  /\ rooms = DefaultRooms /\ devices = BuiltInDevices /\ labels = {}
  /\ handler = [c \in Clients |-> Idle] /\ lock = Free
  /\ log = <<>> /\ boot = 0 /\ told = BuiltIn /\ unheard = {} /\ held = {}
  /\ reader = [at |-> "off", cursor |-> 0, from |-> 0, got |-> <<>>]
  /\ restarts = 0 /\ failures = 0

-----------------------------------------------------------------------------
(* A request is authenticated and waits for the lock. *)
Ask(c) ==
  /\ handler[c].at = "idle" /\ Len(log) + Cardinality(Clients) <= MaxLog
  /\ \E r \in [kind : {"room"}, room : NewRooms]
           \cup [kind : {"register"}, label : labels, room : Places]
           \cup [kind : {"delete"}, id : Ids] :
       handler' = [handler EXCEPT ![c] = [at |-> "asked", request |-> r]]
  /\ UNCHANGED <<rooms, devices, labels, lock, log, boot, told, unheard, held, reader, restarts, failures>>

Moves(c, to) == handler' = [handler EXCEPT ![c].at = to]

(* Seeded fault: the lock is not waited for. *)
EnterUnlocked(c) ==
  /\ handler[c].at = "asked"
  /\ handler[c].request.kind = "register" => Verifies(handler[c].request.label)
  /\ lock' = c /\ Moves(c, "locked")
  /\ UNCHANGED <<rooms, devices, labels, log, boot, told, unheard, held, reader, restarts, failures>>

Enter(c) ==
  /\ handler[c].at = "asked" /\ lock = Free
  /\ handler[c].request.kind = "register" => Verifies(handler[c].request.label)
  /\ lock' = c /\ Moves(c, "locked")
  /\ UNCHANGED <<rooms, devices, labels, log, boot, told, unheard, held, reader, restarts, failures>>

Done(c) == handler' = [handler EXCEPT ![c] = Idle]

(* verify raises. *)
RefuseProof(c) ==
  /\ handler[c].at = "asked" /\ lock = Free
  /\ handler[c].request.kind = "register" /\ ~Verifies(handler[c].request.label)
  /\ Done(c)
  /\ UNCHANGED <<rooms, devices, labels, lock, log, boot, told, unheard, held, reader, restarts, failures>>

(* The worker thread looks first ... *)
RoomIsNew(r)  == \A x \in rooms : x.id # r.id /\ x.name # r.name
Accepts(d, room) ==
  /\ \E x \in rooms : x.id = room /\ x.selectable
  /\ d.type \in Drivers /\ Attests(d)
  /\ Present(d.id) => Same(d.id, d, room)
Removable(id) == Present(id) /\ devices[id].removable

Fits(r) ==
  \/ r.kind = "room" /\ RoomIsNew(r.room)
  \/ r.kind = "register" /\ Accepts(r.label.declares, r.room)
  \/ r.kind = "delete" /\ Removable(r.id)

Look(c) ==
  /\ handler[c].at = "locked" /\ Fits(handler[c].request) /\ Moves(c, "fits")
  /\ UNCHANGED <<rooms, devices, labels, lock, log, boot, told, unheard, held, reader, restarts, failures>>

Refuse(c) ==
  /\ handler[c].at = "locked" /\ ~Fits(handler[c].request)
  /\ lock' = Free /\ Done(c)
  /\ UNCHANGED <<rooms, devices, labels, log, boot, told, unheard, held, reader, restarts, failures>>

(* ... and then writes. *)
CreateRoom(c) ==
  /\ handler[c].at = "fits" /\ handler[c].request.kind = "room"
  /\ LET r == handler[c].request.room IN
       rooms' = rooms \cup {[id |-> r.id, name |-> r.name, selectable |-> TRUE]}
  /\ Moves(c, "written")
  /\ UNCHANGED <<devices, labels, lock, log, boot, told, unheard, held, reader, restarts, failures>>

With(id, value) == [i \in DOMAIN devices \cup {id} |-> IF i = id THEN value ELSE devices[i]]

(* Broadcasts run beside each other.  A removal that is still to be sent   *)
(* may reach a subscriber after the registration that follows it.          *)
RemovalUntold(id) == \E c \in Clients :
  handler[c].at = "telling" /\ handler[c].request.kind = "delete" /\ handler[c].request.id = id

Hearing(id) == unheard' = IF Present(id) THEN unheard
                          ELSE IF RemovalUntold(id) THEN unheard \cup {id} ELSE unheard \ {id}

(* Seeded fault: a repeated registration puts a fresh device in place. *)
RegisterAgain(c) ==
  /\ handler[c].at = "fits" /\ handler[c].request.kind = "register"
  /\ LET d == handler[c].request.label.declares IN
       devices' = With(d.id, Fresh(d, handler[c].request.room))
  /\ Hearing(handler[c].request.label.declares.id) /\ Moves(c, "written")
  /\ UNCHANGED <<rooms, labels, lock, log, boot, told, held, reader, restarts, failures>>

(* Seeded fault: the lock ends with the change, before its record. *)
RegisterReleasing(c) ==
  /\ handler[c].at = "fits" /\ handler[c].request.kind = "register"
  /\ LET d == handler[c].request.label.declares IN
       devices' = IF Present(d.id) THEN devices ELSE With(d.id, Fresh(d, handler[c].request.room))
  /\ Hearing(handler[c].request.label.declares.id) /\ lock' = Free /\ Moves(c, "written")
  /\ UNCHANGED <<rooms, labels, log, boot, told, held, reader, restarts, failures>>

Register(c) ==
  /\ handler[c].at = "fits" /\ handler[c].request.kind = "register"
  /\ LET d == handler[c].request.label.declares IN
       devices' = IF Present(d.id) THEN devices ELSE With(d.id, Fresh(d, handler[c].request.room))
  /\ Hearing(handler[c].request.label.declares.id) /\ Moves(c, "written")
  /\ UNCHANGED <<rooms, labels, lock, log, boot, told, held, reader, restarts, failures>>

Delete(c) ==
  /\ handler[c].at = "fits" /\ handler[c].request.kind = "delete"
  /\ devices' = [i \in DOMAIN devices \ {handler[c].request.id} |-> devices[i]]
  /\ Moves(c, "written")
  /\ UNCHANGED <<rooms, labels, lock, log, boot, told, unheard, held, reader, restarts, failures>>

Subject(r) == CASE r.kind = "room" -> r.room.id
                [] r.kind = "register" -> r.label.declares.id
                [] r.kind = "delete" -> r.id

Entry(r) == [action |-> r.kind, subject |-> Subject(r)]

(* Seeded fault: a registration is answered without its broadcast.         *)
FinishQuiet(c) ==
  /\ handler[c].at = "written" /\ log' = Append(log, Entry(handler[c].request)) /\ lock' = Free
  /\ IF handler[c].request.kind = "register" THEN Done(c) ELSE Moves(c, "telling")
  /\ UNCHANGED <<rooms, devices, labels, boot, told, unheard, held, reader, restarts, failures>>

(* The record is written and the lock released.                            *)
Finish(c) ==
  /\ handler[c].at = "written" /\ log' = Append(log, Entry(handler[c].request)) /\ lock' = Free
  /\ Moves(c, "telling")
  /\ UNCHANGED <<rooms, devices, labels, boot, told, unheard, held, reader, restarts, failures>>

(* record_audit raises: the change stays, nobody hears of it.              *)
FinishFails(c) ==
  /\ handler[c].at = "written" /\ failures < MaxFailures
  /\ failures' = failures + 1 /\ lock' = Free /\ Done(c)
  /\ unheard' = IF handler[c].request.kind = "register"
                THEN unheard \cup {handler[c].request.label.declares.id} ELSE unheard
  /\ UNCHANGED <<rooms, devices, labels, log, boot, told, held, reader, restarts>>

(* Without the lock, and while other requests run: the event reaches the   *)
(* subscriber after those that are before it, and the request is answered. *)
Announce(c) ==
  /\ handler[c].at = "telling" /\ Done(c)
  /\ LET r == handler[c].request IN
       told' = CASE r.kind = "room" -> told
                 [] r.kind = "register" -> told \cup {r.label.declares.id}
                 [] r.kind = "delete" -> told \ {r.id}
  /\ UNCHANGED <<rooms, devices, labels, lock, log, boot, unheard, held, reader, restarts, failures>>

(* A command or the tick changes a device that is there.  The telemetry    *)
(* loop tells of it later, even when it has been removed meanwhile.        *)
Touch(id) ==
  /\ Present(id) /\ devices[id].version < MaxVersion
  /\ devices' = [devices EXCEPT ![id].version = @ + 1]
  /\ held' \in {held, held \cup {id}}
  /\ UNCHANGED <<rooms, labels, handler, lock, log, boot, told, unheard, reader, restarts, failures>>

TellTick(id) ==
  /\ id \in held /\ told' = told \cup {id} /\ held' = held \ {id}
  /\ UNCHANGED <<rooms, devices, labels, handler, lock, log, boot, unheard, reader, restarts, failures>>

(* The gateway ends, whatever is under way, and starts again; subscribers  *)
(* that come back read the list of devices.                                *)
Restart ==
  /\ restarts < MaxRestarts /\ restarts' = restarts + 1
  /\ rooms' = DefaultRooms /\ devices' = BuiltInDevices
  /\ handler' = [c \in Clients |-> Idle] /\ lock' = Free
  /\ boot' = Len(log) /\ told' = BuiltIn /\ unheard' = {} /\ held' = {}
  /\ UNCHANGED <<labels, log, reader, failures>>

-----------------------------------------------------------------------------
(* get_logs: the rows below the cursor, newest first, one more than the    *)
(* limit to see whether there are more.                                    *)
StartReading ==
  /\ reader.at = "off" /\ log # <<>>
  /\ reader' = [at |-> "reading", cursor |-> Len(log) + 1, from |-> Len(log), got |-> <<>>]
  /\ UNCHANGED <<rooms, devices, labels, handler, lock, log, boot, told, unheard, held, restarts, failures>>

Rows(cursor, n) == [i \in 1 .. (IF cursor - 1 < n THEN cursor - 1 ELSE n) |-> cursor - i]

(* Seeded fault: the cursor is the id of the row that is not shown. *)
ReadPageShort ==
  /\ reader.at = "reading"
  /\ LET rows    == Rows(reader.cursor, PageSize + 1)
         visible == SubSeq(rows, 1, PageSize)
         more    == Len(rows) > PageSize
     IN reader' = [reader EXCEPT !.got = @ \o (IF more THEN visible ELSE rows),
                                 !.cursor = IF more THEN rows[PageSize + 1] ELSE 0,
                                 !.at = IF more THEN "reading" ELSE "done"]
  /\ UNCHANGED <<rooms, devices, labels, handler, lock, log, boot, told, unheard, held, restarts, failures>>

ReadPage ==
  /\ reader.at = "reading"
  /\ LET rows    == Rows(reader.cursor, PageSize + 1)
         more    == Len(rows) > PageSize
         visible == IF more THEN SubSeq(rows, 1, PageSize) ELSE rows
     IN reader' = [reader EXCEPT !.got = @ \o visible,
                                 !.cursor = IF more THEN visible[PageSize] ELSE 0,
                                 !.at = IF more THEN "reading" ELSE "done"]
  /\ UNCHANGED <<rooms, devices, labels, handler, lock, log, boot, told, unheard, held, restarts, failures>>

Next ==
  \/ \E d \in Declarations : PrintLabel(d)
  \/ \E c \in Clients :
       \/ Ask(c) \/ Enter(c) \/ RefuseProof(c) \/ Look(c) \/ Refuse(c)
       \/ CreateRoom(c) \/ Register(c) \/ Delete(c) \/ Finish(c) \/ FinishFails(c) \/ Announce(c)
  \/ \E id \in Touched : Touch(id) \/ TellTick(id)
  \/ Restart \/ StartReading \/ ReadPage

Spec == Init /\ [][Next]_vars

-----------------------------------------------------------------------------
Room    == DefaultRooms \cup {[id |-> r.id, name |-> r.name, selectable |-> TRUE] : r \in NewRooms}
Device  == [declares : SUBSET Declarations, room : Places \cup {"entry"}, removable : BOOLEAN,
            version : Nat \ {0}]
Label   == [declares : Declarations, proof : {Issue(d) : d \in Declarations} \cup ForeignProofs]
Request == [kind : {"room"}, room : NewRooms]
           \cup [kind : {"register"}, label : Label, room : Places]
           \cup [kind : {"delete"}, id : Ids]
Handler == {Idle} \cup [at : {"asked", "locked", "fits", "written", "telling"}, request : Request]
Record  == [action : {"room", "register", "delete"}, subject : Ids \cup {r.id : r \in NewRooms}]

TypeOK ==
  /\ rooms \subseteq Room /\ labels \subseteq Label /\ handler \in [Clients -> Handler]
  /\ DOMAIN devices \subseteq Ids /\ \A id \in DOMAIN devices : devices[id] \in Device
  /\ lock \in Clients \cup {Free} /\ log \in Seq(Record) /\ boot \in 0 .. Len(log)
  /\ told \subseteq Ids /\ unheard \subseteq Ids /\ held \subseteq Ids /\ restarts \in Nat /\ failures \in Nat

(* A device that was added was declared by a label this gateway signed,    *)
(* declaration and all, and stands in a room that may hold it; also when   *)
(* requests run beside each other and the gateway has been restarted.      *)
DevicesAreCertified ==
  \A id \in DOMAIN devices : devices[id].removable =>
    /\ \E l \in labels : l.proof = [claims |-> l.declares, signer |-> "this"]
                         /\ devices[id].declares = {l.declares} /\ l.declares.id = id
    /\ \E x \in rooms : x.id = devices[id].room /\ x.selectable

(* Two rooms have neither an id nor a name in common, although the worker  *)
(* thread that creates one looks first and writes later.                   *)
RoomsDiffer == \A x, y \in rooms : x.id = y.id \/ x.name = y.name => x = y

(* A device that is there stays the one that was registered: neither a     *)
(* repeated registration nor another label of its id changes what it is or *)
(* sets its version back.                                                  *)
KeptAsRegistered ==
  [][\A id \in Ids : Present(id) /\ Present(id)' /\ restarts' = restarts =>
       /\ devices'[id].declares = devices[id].declares /\ devices'[id].room = devices[id].room
       /\ devices'[id].version >= devices[id].version]_vars

(* Unless a record failed, the log since the start tells which devices     *)
(* were added: whoever finds no request under way finds the last record of *)
(* an id to be its registration if and only if the device is there.        *)
RecordsOf(id) ==
  {i \in boot + 1 .. Len(log) : log[i].action # "room" /\ log[i].subject = id}
LastIsRegister(id) ==
  \E i \in RecordsOf(id) : log[i].action = "register" /\ \A j \in RecordsOf(id) : j <= i
LogExplainsRegistry ==
  lock = Free /\ failures = 0 => \A id \in Ids \ BuiltIn : Present(id) <=> LastIsRegister(id)

(* A subscriber that reads what it is sent knows every device that is      *)
(* there, but for one whose registration is still being recorded or sent,  *)
(* whose record failed, or that was registered while its earlier removal   *)
(* was still to be sent.  (It may know one more: the telemetry loop can    *)
(* tell of it after its removal.)                                          *)
Registering(id) == \E c \in Clients :
  /\ handler[c].at \in {"written", "telling"} /\ handler[c].request.kind = "register"
  /\ handler[c].request.label.declares.id = id
RegisteredIsTold == \A id \in DOMAIN devices : id \in told \cup unheard \/ Registering(id)

(* Not true of the code: with every request answered and every record      *)
(* written, what is there has been told.  The removal of a device can be   *)
(* sent to a subscriber after the next registration of its id.             *)
RegisteredIsAlwaysTold ==
  (\A c \in Clients : handler[c].at = "idle") /\ failures = 0 => DOMAIN devices \subseteq told

(* Reading page after page gives each record that was there at the first   *)
(* page once, newest first, whatever is appended meanwhile.                *)
PagesAreComplete ==
  reader.at = "done" => reader.got = [i \in 1 .. reader.from |-> reader.from + 1 - i]

-----------------------------------------------------------------------------
(* What makes these inductive.  Between the worker's look and its write    *)
(* nobody else holds the lock, so what it saw is still so.                 *)
OneAtATime == \A c \in Clients : handler[c].at \in {"locked", "fits", "written"} => lock = c

Checked(c) ==
  /\ handler[c].at # "idle" /\ handler[c].request.kind = "register" =>
       handler[c].request.label \in labels
  /\ handler[c].at \in {"locked", "fits"} /\ handler[c].request.kind = "register" =>
       Verifies(handler[c].request.label)
  /\ handler[c].at = "fits" /\ handler[c].request.kind = "register" =>
       \E x \in rooms : x.id = handler[c].request.room /\ x.selectable
  /\ handler[c].at = "fits" /\ handler[c].request.kind = "room" => RoomIsNew(handler[c].request.room)
  /\ handler[c].at = "written" /\ handler[c].request.kind = "delete" => ~Present(handler[c].request.id)
  /\ handler[c].at = "telling" /\ handler[c].request.kind = "delete" /\ Present(handler[c].request.id) =>
       handler[c].request.id \in unheard

CatalogueInv ==
  /\ OneAtATime /\ (\A c \in Clients : Checked(c))
  /\ DevicesAreCertified /\ RoomsDiffer /\ RegisteredIsTold

(* A registration that is being recorded is of a device that is there, and *)
(* the log is right about every device but the one that is being recorded. *)
Recording(id) == \E c \in Clients :
  /\ handler[c].at = "written" /\ handler[c].request.kind # "room"
  /\ Subject(handler[c].request) = id

LogInv ==
  /\ \A c \in Clients : handler[c].at = "written" /\ handler[c].request.kind = "register" =>
       Present(handler[c].request.label.declares.id)
  /\ failures = 0 => \A id \in Ids \ BuiltIn :
       (Present(id) <=> LastIsRegister(id)) \/ Recording(id)

(* What has been read runs from the newest record down to the cursor.      *)
Down(from, n) == [i \in 1 .. n |-> from + 1 - i]
ReaderInv ==
  /\ reader \in [at : {"off", "reading", "done"}, cursor : Nat, from : Nat, got : Seq(Int)]
  /\ reader.at = "reading" =>
       /\ reader.cursor \in 2 .. reader.from + 1
       /\ reader.got = Down(reader.from, reader.from + 1 - reader.cursor)
  /\ reader.at = "done" => reader.got = Down(reader.from, reader.from)
=============================================================================
