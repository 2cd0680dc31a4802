--------------------------- MODULE CatalogueProofs ---------------------------
(***************************************************************************)
(* Proofs about Catalogue, for any number of clients, labels, restarts and *)
(* failed records: what is registered was certified, rooms differ, a       *)
(* device stays what it was registered as, and subscribers know it.        *)
(***************************************************************************)
EXTENDS Catalogue, SequenceTheorems, TLAPS

LEMMA InitTypes == Init => TypeOK
  <1> SUFFICES ASSUME Init PROVE TypeOK
    OBVIOUS
  <1>1. rooms \subseteq Room
    BY DEF Init, Room
  <1>2. DOMAIN devices \subseteq Ids /\ \A id \in DOMAIN devices : devices[id] \in Device
    <2>1. devices = BuiltInDevices /\ DOMAIN BuiltInDevices = BuiltIn
      BY DEF Init, BuiltInDevices
    <2>2. ASSUME NEW id \in BuiltIn PROVE BuiltInDevices[id] \in Device
      BY DEF BuiltInDevices, Device
    <2> QED
      BY <2>1, <2>2 DEF Ids
  <1>3. labels \subseteq Label /\ handler \in [Clients -> Handler] /\ lock \in Clients \cup {Free}
    BY DEF Init, Handler
  <1>4. log \in Seq(Record) /\ boot \in 0 .. Len(log)
    BY DEF Init
  <1>5. told \subseteq Ids /\ unheard \subseteq Ids /\ held \subseteq Ids /\ restarts \in Nat /\ failures \in Nat
    BY DEF Init, Ids
  <1> QED
    BY <1>1, <1>2, <1>3, <1>4, <1>5 DEF TypeOK

LEMMA Asked ==
  ASSUME TypeOK, NEW c \in Clients, handler[c].at # "idle"
  PROVE  /\ handler[c].request \in Request
         /\ handler[c] = [at |-> handler[c].at, request |-> handler[c].request]
  BY DEF TypeOK, Handler, Idle

LEMMA RequestParts ==
  ASSUME NEW r \in Request
  PROVE  /\ r.kind \in {"room", "register", "delete"}
         /\ r.kind = "room" => r.room \in NewRooms
         /\ r.kind = "register" => r.label \in Label /\ r.room \in Places
         /\ r.kind = "delete" => r.id \in Ids
  BY DEF Request

LEMMA MovesTypes ==
  ASSUME TypeOK, NEW c \in Clients, NEW to \in {"asked", "locked", "fits", "written", "telling"},
         handler[c].at # "idle", Moves(c, to)
  PROVE  /\ handler' \in [Clients -> Handler]
         /\ handler'[c] = [at |-> to, request |-> handler[c].request]
         /\ \A d \in Clients : d # c => handler'[d] = handler[d]
  <1>1. handler' = [handler EXCEPT ![c] = [handler[c] EXCEPT !.at = to]]
    BY DEF Moves
  <1>2. [handler[c] EXCEPT !.at = to] = [at |-> to, request |-> handler[c].request]
    <2>1. PICK q \in Request, a \in {"asked", "locked", "fits", "written", "telling"} :
            handler[c] = [at |-> a, request |-> q]
      BY DEF TypeOK, Handler, Idle
    <2> QED
      BY <2>1
  <1>3. [at |-> to, request |-> handler[c].request] \in Handler
    BY Asked DEF Handler
  <1> QED
    BY <1>1, <1>2, <1>3 DEF TypeOK, Handler

LEMMA DoneTypes ==
  ASSUME TypeOK, NEW c \in Clients, Done(c)
  PROVE  /\ handler' \in [Clients -> Handler] /\ handler'[c] = Idle
         /\ \A d \in Clients : d # c => handler'[d] = handler[d]
  BY DEF TypeOK, Done, Handler

(* What a request is about, and the device it declares. *)
LEMMA Declared ==
  ASSUME NEW r \in Request, r.kind = "register"
  PROVE  /\ r.label.declares \in Declarations /\ r.label.declares.id \in Ids
         /\ Fresh(r.label.declares, r.room) \in Device
  <1>1. r.label.declares \in Declarations /\ r.room \in Places
    BY RequestParts DEF Label
  <1> QED
    BY <1>1 DEF Ids, Fresh, Device

LEMMA SubjectRecorded ==
  ASSUME NEW r \in Request
  PROVE  [action |-> r.kind, subject |-> Subject(r)] \in Record
  <1>1. CASE r.kind = "room"
    BY <1>1, RequestParts DEF Subject, Record
  <1>2. CASE r.kind = "register"
    BY <1>2, Declared DEF Subject, Record
  <1>3. CASE r.kind = "delete"
    BY <1>3, RequestParts DEF Subject, Record
  <1> QED
    BY <1>1, <1>2, <1>3, RequestParts

(* The devices once a registration, a removal or a change is written. *)
LEMMA WithTypes ==
  ASSUME TypeOK, NEW id \in Ids, NEW value \in Device, devices' = With(id, value)
  PROVE  /\ DOMAIN devices' = DOMAIN devices \cup {id} /\ devices'[id] = value
         /\ \A i \in DOMAIN devices : i # id => devices'[i] = devices[i]
         /\ DOMAIN devices' \subseteq Ids /\ \A i \in DOMAIN devices' : devices'[i] \in Device
  <1>1. /\ DOMAIN devices' = DOMAIN devices \cup {id} /\ devices'[id] = value
        /\ \A i \in DOMAIN devices : i # id => devices'[i] = devices[i]
    BY DEF With
  <1> QED
    BY <1>1 DEF TypeOK

LEMMA TouchTypes ==
  ASSUME TypeOK, NEW id, Touch(id)
  PROVE  /\ DOMAIN devices' = DOMAIN devices /\ \A i \in DOMAIN devices : devices'[i] \in Device
         /\ \A i \in DOMAIN devices :
              /\ devices'[i].declares = devices[i].declares /\ devices'[i].room = devices[i].room
              /\ devices'[i].removable = devices[i].removable
              /\ devices'[i].version \in {devices[i].version, devices[i].version + 1}
  <1>1. id \in DOMAIN devices /\ devices[id] \in Device
    BY DEF TypeOK, Touch, Present
  <1>2. devices' = [devices EXCEPT ![id] = [devices[id] EXCEPT !.version = devices[id].version + 1]]
    BY DEF Touch
  <1>3. PICK new : new = [devices[id] EXCEPT !.version = devices[id].version + 1]
    OBVIOUS
  <1>4. /\ new \in Device /\ new.declares = devices[id].declares /\ new.room = devices[id].room
        /\ new.removable = devices[id].removable /\ new.version = devices[id].version + 1
    BY <1>1, <1>3 DEF Device
  <1>5. /\ DOMAIN devices' = DOMAIN devices /\ devices'[id] = new
        /\ \A i \in DOMAIN devices : i # id => devices'[i] = devices[i]
    BY <1>1, <1>2, <1>3
  <1>6. \A i \in DOMAIN devices : devices'[i] \in Device
    BY <1>4, <1>5 DEF TypeOK
  <1> QED
    BY <1>4, <1>5, <1>6

LEMMA RegisterTypes ==
  ASSUME TypeOK, NEW c \in Clients, Register(c)
  PROVE  /\ handler[c].request \in Request /\ handler[c].request.kind = "register"
         /\ handler[c].at = "fits"
         /\ Present(handler[c].request.label.declares.id) => devices' = devices
         /\ ~Present(handler[c].request.label.declares.id) =>
              devices' = With(handler[c].request.label.declares.id,
                              Fresh(handler[c].request.label.declares, handler[c].request.room))
         /\ DOMAIN devices' \subseteq Ids /\ \A i \in DOMAIN devices' : devices'[i] \in Device
  <1>1. handler[c].at = "fits" /\ handler[c].request.kind = "register"
    BY DEF Register
  <1>2. handler[c].request \in Request
    BY <1>1, Asked
  <1>3. /\ Present(handler[c].request.label.declares.id) => devices' = devices
        /\ ~Present(handler[c].request.label.declares.id) =>
             devices' = With(handler[c].request.label.declares.id,
                             Fresh(handler[c].request.label.declares, handler[c].request.room))
    BY DEF Register
  <1>4. handler[c].request.label.declares.id \in Ids
        /\ Fresh(handler[c].request.label.declares, handler[c].request.room) \in Device
    BY <1>1, <1>2, Declared
  <1>5. DOMAIN devices' \subseteq Ids /\ \A i \in DOMAIN devices' : devices'[i] \in Device
    <2>1. CASE Present(handler[c].request.label.declares.id)
      BY <1>3, <2>1 DEF TypeOK
    <2>2. CASE ~Present(handler[c].request.label.declares.id)
      BY <1>3, <1>4, <2>2, WithTypes
    <2> QED
      BY <2>1, <2>2
  <1> QED
    BY <1>1, <1>2, <1>3, <1>5

-----------------------------------------------------------------------------
(* Types, a lemma for the requests and one for the rest.                   *)
LEMMA RequestTypes ==
  ASSUME TypeOK, NEW c \in Clients,
         \/ Ask(c) \/ Enter(c) \/ RefuseProof(c) \/ Look(c) \/ Refuse(c)
         \/ CreateRoom(c) \/ Register(c) \/ Delete(c) \/ Finish(c) \/ FinishFails(c) \/ Announce(c)
  PROVE  TypeOK'
  <1>1. CASE Ask(c)
    <2>1. PICK r \in [kind : {"room"}, room : NewRooms]
                     \cup [kind : {"register"}, label : labels, room : Places]
                     \cup [kind : {"delete"}, id : Ids] :
            handler' = [handler EXCEPT ![c] = [at |-> "asked", request |-> r]]
      BY <1>1 DEF Ask
    <2>2. r \in Request
      BY DEF TypeOK, Request
    <2>3. [at |-> "asked", request |-> r] \in Handler
      BY <2>2 DEF Handler
    <2>4. handler' \in [Clients -> Handler]
      BY <2>1, <2>3 DEF TypeOK
    <2> QED
      BY <1>1, <2>4 DEF Ask, TypeOK
  <1>2. CASE Enter(c)
    <2>1. handler' \in [Clients -> Handler]
      BY <1>2, MovesTypes DEF Enter
    <2> QED
      BY <1>2, <2>1 DEF Enter, TypeOK
  <1>3. CASE RefuseProof(c)
    <2>1. handler' \in [Clients -> Handler]
      BY <1>3, DoneTypes DEF RefuseProof
    <2> QED
      BY <1>3, <2>1 DEF RefuseProof, TypeOK
  <1>4. CASE Look(c)
    <2>1. handler' \in [Clients -> Handler]
      BY <1>4, MovesTypes DEF Look
    <2> QED
      BY <1>4, <2>1 DEF Look, TypeOK
  <1>5. CASE Refuse(c)
    <2>1. handler' \in [Clients -> Handler]
      BY <1>5, DoneTypes DEF Refuse
    <2> QED
      BY <1>5, <2>1 DEF Refuse, TypeOK
  <1>6. CASE CreateRoom(c)
    <2>1. handler' \in [Clients -> Handler]
      BY <1>6, MovesTypes DEF CreateRoom
    <2>2. handler[c].request \in Request /\ handler[c].request.kind = "room"
      BY <1>6, Asked DEF CreateRoom
    <2>3. handler[c].request.room \in NewRooms
      BY <2>2, RequestParts
    <2>4. rooms' \subseteq Room
      BY <1>6, <2>3 DEF CreateRoom, Room, TypeOK
    <2> QED
      BY <1>6, <2>1, <2>4 DEF CreateRoom, TypeOK
  <1>7. CASE Register(c)
    <2>1. handler' \in [Clients -> Handler]
      BY <1>7, MovesTypes DEF Register
    <2>2. DOMAIN devices' \subseteq Ids /\ \A i \in DOMAIN devices' : devices'[i] \in Device
      BY <1>7, RegisterTypes
    <2>3. unheard' \subseteq Ids
      BY <1>7, RegisterTypes, Declared DEF Register, Hearing, TypeOK
    <2> QED
      BY <1>7, <2>1, <2>2, <2>3 DEF Register, TypeOK
  <1>8. CASE Delete(c)
    <2>1. handler' \in [Clients -> Handler]
      BY <1>8, MovesTypes DEF Delete
    <2>2. DOMAIN devices' \subseteq Ids /\ \A i \in DOMAIN devices' : devices'[i] \in Device
      BY <1>8 DEF Delete, TypeOK
    <2> QED
      BY <1>8, <2>1, <2>2 DEF Delete, TypeOK
  <1>9. CASE Finish(c)
    <2>1. handler' \in [Clients -> Handler]
      BY <1>9, MovesTypes DEF Finish
    <2>2. handler[c].request \in Request
      BY <1>9, Asked DEF Finish
    <2>3. log' \in Seq(Record) /\ Len(log') = Len(log) + 1 /\ Len(log) \in Nat
      <3>1. PICK r : r = Entry(handler[c].request)
        OBVIOUS
      <3>2. r \in Record /\ log' = Append(log, r)
        BY <1>9, <2>2, <3>1, SubjectRecorded DEF Finish, Entry
      <3> QED
        BY <3>2 DEF TypeOK
    <2>4. boot' \in 0 .. Len(log')
      BY <1>9, <2>3 DEF Finish, TypeOK
    <2> QED
      BY <1>9, <2>1, <2>3, <2>4 DEF Finish, TypeOK
  <1>10. CASE FinishFails(c)
    <2>1. handler' \in [Clients -> Handler]
      BY <1>10, DoneTypes DEF FinishFails
    <2>2. unheard' \subseteq Ids
      BY <1>10, Asked, Declared DEF FinishFails, TypeOK
    <2> QED
      BY <1>10, <2>1, <2>2 DEF FinishFails, TypeOK
  <1>11. CASE Announce(c)
    <2>1. handler' \in [Clients -> Handler]
      BY <1>11, DoneTypes DEF Announce
    <2>2. handler[c].request \in Request
      BY <1>11, Asked DEF Announce
    <2>3. told' \subseteq Ids
      BY <1>11, <2>2, RequestParts, Declared DEF Announce, TypeOK
    <2> QED
      BY <1>11, <2>1, <2>3 DEF Announce, TypeOK
  <1> QED
    BY <1>1, <1>2, <1>3, <1>4, <1>5, <1>6, <1>7, <1>8, <1>9, <1>10, <1>11

LEMMA Types == TypeOK /\ [Next]_vars => TypeOK'
  <1> SUFFICES ASSUME TypeOK, [Next]_vars PROVE TypeOK'
    OBVIOUS
  <1>1. ASSUME NEW d \in Declarations, PrintLabel(d) PROVE TypeOK'
    <2>1. PICK p \in {Issue(d)} \cup {l.proof : l \in labels} \cup ForeignProofs :
            labels' = labels \cup {[declares |-> d, proof |-> p]}
      BY <1>1 DEF PrintLabel
    <2>2. p \in {Issue(e) : e \in Declarations} \cup ForeignProofs
      BY <2>1 DEF TypeOK, Label
    <2>3. [declares |-> d, proof |-> p] \in Label
      BY <2>2 DEF Label
    <2>4. labels' \subseteq Label
      BY <2>1, <2>3 DEF TypeOK
    <2> QED
      BY <1>1, <2>4 DEF PrintLabel, TypeOK
  <1>2. ASSUME NEW id \in Touched, Touch(id) PROVE TypeOK'
    <2>1. DOMAIN devices' \subseteq Ids /\ \A i \in DOMAIN devices' : devices'[i] \in Device
      BY <1>2, TouchTypes DEF TypeOK
    <2>2. held' \subseteq Ids
      BY <1>2 DEF Touch, Present, TypeOK
    <2> QED
      BY <1>2, <2>1, <2>2 DEF Touch, TypeOK
  <1>3. ASSUME NEW id \in Touched, TellTick(id) PROVE TypeOK'
    BY <1>3 DEF TellTick, TypeOK
  <1>4. CASE Restart
    <2>1. /\ rooms' = DefaultRooms /\ devices' = BuiltInDevices /\ lock' = Free
          /\ handler' = [c \in Clients |-> Idle] /\ boot' = Len(log) /\ told' = BuiltIn
          /\ unheard' = {} /\ held' = {} /\ labels' = labels /\ log' = log /\ restarts' = restarts + 1
          /\ failures' = failures
      BY <1>4 DEF Restart
    <2>2. DOMAIN devices' \subseteq Ids /\ \A i \in DOMAIN devices' : devices'[i] \in Device
      BY <2>1 DEF BuiltInDevices, Device, Ids
    <2>3. rooms' \subseteq Room /\ handler' \in [Clients -> Handler] /\ told' \subseteq Ids /\ unheard' \subseteq Ids
      BY <2>1 DEF Room, Handler, Ids
    <2>4. boot' \in 0 .. Len(log') /\ restarts' \in Nat
      <3>1. log \in Seq(Record) /\ restarts \in Nat
        BY DEF TypeOK
      <3> QED
        BY <2>1, <3>1
    <2> QED
      BY <2>1, <2>2, <2>3, <2>4 DEF TypeOK
  <1>5. CASE StartReading \/ ReadPage \/ UNCHANGED vars
    BY <1>5 DEF StartReading, ReadPage, vars, TypeOK
  <1> QED
    BY <1>1, <1>2, <1>3, <1>4, <1>5, RequestTypes DEF Next

-----------------------------------------------------------------------------
(* How far a client is after each of its steps; the others stay.           *)
LEMMA AskStep ==
  ASSUME TypeOK, NEW c \in Clients, Ask(c)
  PROVE  /\ \A d \in Clients : d # c => handler'[d] = handler[d]
         /\ handler'[c].at = "asked"
         /\ handler'[c].request.kind = "register" => handler'[c].request.label \in labels
         /\ lock' = lock /\ rooms' = rooms /\ devices' = devices /\ labels' = labels
         /\ told' = told /\ unheard' = unheard /\ handler[c].at = "idle"
  <1>1. PICK r \in [kind : {"room"}, room : NewRooms]
                   \cup [kind : {"register"}, label : labels, room : Places]
                   \cup [kind : {"delete"}, id : Ids] :
          handler' = [handler EXCEPT ![c] = [at |-> "asked", request |-> r]]
    BY DEF Ask
  <1>2. r.kind = "register" => r.label \in labels
    OBVIOUS
  <1>3. handler'[c] = [at |-> "asked", request |-> r]
        /\ \A d \in Clients : d # c => handler'[d] = handler[d]
    BY <1>1 DEF TypeOK
  <1> QED
    BY <1>2, <1>3 DEF Ask

LEMMA MoveStep ==
  ASSUME TypeOK, NEW c \in Clients, NEW to \in {"asked", "locked", "fits", "written", "telling"},
         handler[c].at # "idle", Moves(c, to)
  PROVE  /\ \A d \in Clients : d # c => handler'[d] = handler[d]
         /\ handler'[c].at = to /\ handler'[c].request = handler[c].request
  <1>1. /\ handler'[c] = [at |-> to, request |-> handler[c].request]
        /\ \A d \in Clients : d # c => handler'[d] = handler[d]
    BY MovesTypes
  <1> QED
    BY <1>1

LEMMA DoneStep ==
  ASSUME TypeOK, NEW c \in Clients, Done(c)
  PROVE  /\ \A d \in Clients : d # c => handler'[d] = handler[d]
         /\ handler'[c].at = "idle"
  BY DoneTypes DEF Idle

LEMMA RestartStep ==
  ASSUME Restart
  PROVE  /\ \A c \in Clients : handler'[c].at = "idle"
         /\ rooms' = DefaultRooms /\ DOMAIN devices' = BuiltIn /\ told' = BuiltIn
         /\ \A id \in BuiltIn : ~devices'[id].removable
  <1>1. /\ handler' = [c \in Clients |-> Idle] /\ rooms' = DefaultRooms
        /\ devices' = BuiltInDevices /\ told' = BuiltIn
    BY DEF Restart
  <1> QED
    BY <1>1 DEF Idle, BuiltInDevices

(* Steps that leave the requests alone. *)
Aside == (\E d \in Declarations : PrintLabel(d)) \/ (\E id \in Touched : Touch(id) \/ TellTick(id))
         \/ StartReading \/ ReadPage \/ UNCHANGED vars

LEMMA AsideStep ==
  ASSUME Aside
  PROVE  handler' = handler /\ lock' = lock /\ rooms' = rooms /\ unheard' = unheard
         /\ labels \subseteq labels' /\ told \subseteq told'
  BY DEF Aside, PrintLabel, Touch, TellTick, StartReading, ReadPage, vars

LEMMA AsideDevices ==
  ASSUME TypeOK, Aside
  PROVE  /\ DOMAIN devices' = DOMAIN devices
         /\ \A id \in DOMAIN devices :
              /\ devices'[id].declares = devices[id].declares
              /\ devices'[id].room = devices[id].room
              /\ devices'[id].removable = devices[id].removable
  <1>1. ASSUME NEW id \in Touched, Touch(id)
        PROVE  /\ DOMAIN devices' = DOMAIN devices
               /\ \A i \in DOMAIN devices :
                    /\ devices'[i].declares = devices[i].declares
                    /\ devices'[i].room = devices[i].room
                    /\ devices'[i].removable = devices[i].removable
    BY <1>1, TouchTypes
  <1>2. (\A id \in Touched : ~Touch(id)) => devices' = devices
    BY DEF Aside, PrintLabel, TellTick, StartReading, ReadPage, vars
  <1> QED
    BY <1>1, <1>2

-----------------------------------------------------------------------------
(* The lock: who is past it holds it.                                      *)
LEMMA LockKept ==
  ASSUME TypeOK, OneAtATime, [Next]_vars
  PROVE  OneAtATime'
  <1>0. "free" \notin Clients
    BY ClientNames
  <1>1. ASSUME NEW c \in Clients, Ask(c) PROVE OneAtATime'
    BY <1>1, AskStep DEF OneAtATime
  <1>2. ASSUME NEW c \in Clients, Enter(c) PROVE OneAtATime'
    <2>1. handler[c].at # "idle" /\ Moves(c, "locked") /\ lock = Free /\ lock' = c
      BY <1>2 DEF Enter
    <2>2. \A d \in Clients : d # c => handler'[d] = handler[d]
      BY <2>1, MoveStep
    <2> QED
      BY <1>0, <2>1, <2>2 DEF OneAtATime, Free
  <1>3. ASSUME NEW c \in Clients, Look(c) \/ CreateRoom(c) \/ Register(c) \/ Delete(c)
        PROVE  OneAtATime'
    <2>1. handler[c].at \in {"locked", "fits"} /\ lock' = lock
          /\ (Moves(c, "fits") \/ Moves(c, "written"))
      BY <1>3 DEF Look, CreateRoom, Register, Delete
    <2>2. \A d \in Clients : d # c => handler'[d] = handler[d]
      BY <2>1, MoveStep
    <2> QED
      BY <2>1, <2>2 DEF OneAtATime
  <1>4. ASSUME NEW c \in Clients, RefuseProof(c) \/ Announce(c) PROVE OneAtATime'
    <2>1. Done(c) /\ lock' = lock
      BY <1>4 DEF RefuseProof, Announce
    <2> QED
      BY <2>1, DoneStep DEF OneAtATime
  <1>5. ASSUME NEW c \in Clients, Refuse(c) \/ Finish(c) \/ FinishFails(c) PROVE OneAtATime'
    <2>1. (Done(c) \/ Moves(c, "telling")) /\ handler[c].at \in {"locked", "written"}
      BY <1>5 DEF Refuse, Finish, FinishFails, Announce
    <2>2. lock = c
      BY <2>1 DEF OneAtATime
    <2>3. /\ \A d \in Clients : d # c => handler'[d] = handler[d]
          /\ handler'[c].at \in {"idle", "telling"}
      BY <2>1, MoveStep, DoneStep
    <2> QED
      BY <2>2, <2>3 DEF OneAtATime
  <1>6. CASE Restart
    BY <1>6, RestartStep DEF OneAtATime
  <1>7. CASE Aside
    BY <1>7, AsideStep DEF OneAtATime
  <1> QED
    BY <1>1, <1>2, <1>3, <1>4, <1>5, <1>6, <1>7 DEF Next, Aside

(* What the requests of the others rest on: nobody but the holder of the   *)
(* lock adds a room or a device, and labels stay.                          *)
LEMMA OthersKept ==
  ASSUME TypeOK, OneAtATime, NEW c \in Clients, NEW e \in Clients, e # c, Checked(e),
         handler' = [handler EXCEPT ![c] = handler'[c]], labels' = labels,
         rooms \subseteq rooms',
         rooms' = rooms \/ lock = c,
         DOMAIN devices' \subseteq DOMAIN devices \/ lock = c,
         handler[e].at = "telling" /\ handler[e].request.kind = "delete"
           /\ handler[e].request.id \in DOMAIN devices' => handler[e].request.id \in unheard'
  PROVE  Checked(e)'
  <1>1. handler'[e] = handler[e]
    BY DEF TypeOK
  <1>2. lock = c => handler[e].at \notin {"locked", "fits", "written"}
    BY DEF OneAtATime
  <1>3. handler[e].at = "fits" => rooms' = rooms
    BY <1>2
  <1>4. handler[e].at = "written" => DOMAIN devices' \subseteq DOMAIN devices
    BY <1>2
  <1>5. handler[e].at # "idle" /\ handler[e].request.kind = "register" =>
          handler[e].request.label \in labels'
    BY DEF Checked
  <1>6. handler[e].at \in {"locked", "fits"} /\ handler[e].request.kind = "register" =>
          Verifies(handler[e].request.label)
    BY DEF Checked
  <1>7. handler[e].at = "fits" /\ handler[e].request.kind = "register" =>
          \E x \in rooms' : x.id = handler[e].request.room /\ x.selectable
    BY DEF Checked
  <1>8. handler[e].at = "fits" /\ handler[e].request.kind = "room" =>
          \A x \in rooms' : x.id # handler[e].request.room.id /\ x.name # handler[e].request.room.name
    BY <1>3 DEF Checked, RoomIsNew
  <1>9. handler[e].at = "written" /\ handler[e].request.kind = "delete" =>
          handler[e].request.id \notin DOMAIN devices'
    BY <1>4 DEF Checked, Present
  <1> QED
    BY <1>1, <1>5, <1>6, <1>7, <1>8, <1>9 DEF Checked, Verifies, RoomIsNew, Present

LEMMA OnlyOne ==
  ASSUME TypeOK, NEW c \in Clients,
         \/ Ask(c) \/ Enter(c) \/ RefuseProof(c) \/ Look(c) \/ Refuse(c)
         \/ CreateRoom(c) \/ Register(c) \/ Delete(c) \/ Finish(c) \/ FinishFails(c) \/ Announce(c)
  PROVE  handler' = [handler EXCEPT ![c] = handler'[c]]
  <1>1. CASE Ask(c)
    <2>1. PICK r : handler' = [handler EXCEPT ![c] = [at |-> "asked", request |-> r]]
      BY <1>1 DEF Ask
    <2> QED
      BY <2>1 DEF TypeOK
  <1>2. ASSUME NEW to, Moves(c, to) PROVE handler' = [handler EXCEPT ![c] = handler'[c]]
    BY <1>2 DEF Moves, TypeOK
  <1>3. ASSUME Done(c) PROVE handler' = [handler EXCEPT ![c] = handler'[c]]
    BY <1>3 DEF Done, TypeOK
  <1> QED
    BY <1>1, <1>2, <1>3
       DEF Enter, RefuseProof, Look, Refuse, CreateRoom, Register, Delete, Finish, FinishFails, Announce

(* A registration or a room that fits, still so when it is written.        *)
LEMMA OwnKept ==
  ASSUME TypeOK, OneAtATime, NEW c \in Clients, Checked(c),
         \/ Ask(c) \/ Enter(c) \/ RefuseProof(c) \/ Look(c) \/ Refuse(c)
         \/ CreateRoom(c) \/ Register(c) \/ Delete(c) \/ Finish(c) \/ FinishFails(c) \/ Announce(c)
  PROVE  Checked(c)'
  <1>1. CASE Ask(c)
    BY <1>1, AskStep DEF Checked
  <1>2. CASE Enter(c)
    <2>1. /\ Moves(c, "locked") /\ handler[c].at = "asked" /\ labels' = labels
          /\ handler[c].request.kind = "register" => Verifies(handler[c].request.label)
      BY <1>2 DEF Enter
    <2>2. handler'[c].at = "locked" /\ handler'[c].request = handler[c].request
      BY <2>1, MoveStep
    <2> QED
      BY <2>1, <2>2 DEF Checked, Verifies
  <1>3. CASE Look(c)
    <2>1. /\ Moves(c, "fits") /\ handler[c].at = "locked" /\ labels' = labels /\ rooms' = rooms
          /\ Fits(handler[c].request)
      BY <1>3 DEF Look
    <2>2. handler'[c].at = "fits" /\ handler'[c].request = handler[c].request
      BY <2>1, MoveStep
    <2>3. handler[c].request.kind = "register" =>
            \E x \in rooms : x.id = handler[c].request.room /\ x.selectable
      BY <2>1 DEF Fits, Accepts
    <2>4. handler[c].request.kind = "room" => RoomIsNew(handler[c].request.room)
      BY <2>1 DEF Fits
    <2> QED
      BY <2>1, <2>2, <2>3, <2>4 DEF Checked, Verifies, RoomIsNew
  <1>4. CASE CreateRoom(c) \/ Register(c)
    <2>1. /\ Moves(c, "written") /\ handler[c].at = "fits" /\ labels' = labels
          /\ handler[c].request.kind # "delete"
      BY <1>4 DEF CreateRoom, Register
    <2>2. handler'[c].at = "written" /\ handler'[c].request = handler[c].request
      BY <2>1, MoveStep
    <2> QED
      BY <2>1, <2>2 DEF Checked
  <1>5. CASE Delete(c)
    <2>1. /\ Moves(c, "written") /\ handler[c].at = "fits" /\ labels' = labels
          /\ handler[c].request.kind = "delete"
          /\ handler[c].request.id \notin DOMAIN devices'
      BY <1>5 DEF Delete
    <2>2. handler'[c].at = "written" /\ handler'[c].request = handler[c].request
      BY <2>1, MoveStep
    <2> QED
      BY <2>1, <2>2 DEF Checked, Present
  <1>6. CASE RefuseProof(c) \/ Refuse(c) \/ FinishFails(c) \/ Announce(c)
    <2>1. Done(c)
      BY <1>6 DEF RefuseProof, Refuse, FinishFails, Announce
    <2>2. handler'[c].at = "idle"
      BY <2>1, DoneStep
    <2> QED
      BY <2>2 DEF Checked
  <1>7. CASE Finish(c)
    <2>1. Moves(c, "telling") /\ handler[c].at = "written" /\ labels' = labels /\ devices' = devices
      BY <1>7 DEF Finish
    <2>2. handler'[c].at = "telling" /\ handler'[c].request = handler[c].request
      BY <2>1, MoveStep
    <2> QED
      BY <2>1, <2>2 DEF Checked, Present
  <1> QED
    BY <1>1, <1>2, <1>3, <1>4, <1>5, <1>6, <1>7

(* A removal that is still to be sent is known to whoever registers anew.  *)
LEMMA HeardKept ==
  ASSUME TypeOK, OneAtATime, NEW c \in Clients, NEW e \in Clients, e # c, Checked(e),
         \/ Ask(c) \/ Enter(c) \/ RefuseProof(c) \/ Look(c) \/ Refuse(c)
         \/ CreateRoom(c) \/ Register(c) \/ Delete(c) \/ Finish(c) \/ FinishFails(c) \/ Announce(c),
         handler[e].at = "telling", handler[e].request.kind = "delete",
         handler[e].request.id \in DOMAIN devices'
  PROVE  handler[e].request.id \in unheard'
  <1>1. Present(handler[e].request.id) => handler[e].request.id \in unheard
    BY DEF Checked
  <1>2. CASE Register(c)
    <2>1. PICK n : n = handler[c].request.label.declares.id
      OBVIOUS
    <2>2. Hearing(n)
      BY <1>2, <2>1 DEF Register
    <2>3. CASE handler[e].request.id # n
      <3>1. Present(handler[e].request.id)
        BY <1>2, <2>1, <2>3, RegisterTypes DEF With, Present
      <3> QED
        BY <1>1, <2>2, <2>3, <3>1 DEF Hearing
    <2>4. CASE handler[e].request.id = n
      <3>1. RemovalUntold(n)
        BY <2>4 DEF RemovalUntold
      <3> QED
        BY <1>1, <2>2, <2>4, <3>1 DEF Hearing
    <2> QED
      BY <2>3, <2>4
  <1>3. CASE ~Register(c)
    <2>1. DOMAIN devices' \subseteq DOMAIN devices /\ unheard \subseteq unheard'
      BY <1>3 DEF Ask, Enter, RefuseProof, Look, Refuse, CreateRoom, Delete, Finish, FinishFails,
                  Announce
    <2> QED
      BY <1>1, <2>1 DEF Present
  <1> QED
    BY <1>2, <1>3

LEMMA CheckedKept ==
  ASSUME TypeOK, OneAtATime, \A c \in Clients : Checked(c), [Next]_vars
  PROVE  \A c \in Clients : Checked(c)'
  <1>1. ASSUME NEW c \in Clients,
               \/ Ask(c) \/ Enter(c) \/ RefuseProof(c) \/ Look(c) \/ Refuse(c)
               \/ CreateRoom(c) \/ Register(c) \/ Delete(c) \/ Finish(c) \/ FinishFails(c) \/ Announce(c),
               NEW e \in Clients
        PROVE  Checked(e)'
    <2>1. CASE e = c
      BY <1>1, <2>1, OwnKept
    <2>2. CASE e # c
      <3>1. handler' = [handler EXCEPT ![c] = handler'[c]]
        BY <1>1, OnlyOne
      <3>2. labels' = labels /\ rooms \subseteq rooms'
        BY <1>1 DEF Ask, Enter, RefuseProof, Look, Refuse, CreateRoom, Register, Delete, Finish,
                    FinishFails, Announce
      <3>3. (rooms' = rooms /\ DOMAIN devices' \subseteq DOMAIN devices) \/ handler[c].at = "fits"
        BY <1>1 DEF Ask, Enter, RefuseProof, Look, Refuse, CreateRoom, Register, Delete, Finish,
                    FinishFails, Announce
      <3>4. (rooms' = rooms \/ lock = c) /\ (DOMAIN devices' \subseteq DOMAIN devices \/ lock = c)
        BY <3>3 DEF OneAtATime
      <3>5. handler[e].at = "telling" /\ handler[e].request.kind = "delete"
              /\ handler[e].request.id \in DOMAIN devices' => handler[e].request.id \in unheard'
        BY <1>1, <2>2, HeardKept
      <3> QED
        BY <2>2, <3>1, <3>2, <3>4, <3>5, OthersKept
    <2> QED
      BY <2>1, <2>2
  <1>2. ASSUME Restart, NEW e \in Clients PROVE Checked(e)'
    BY <1>2, RestartStep DEF Checked
  <1>3. ASSUME Aside, NEW e \in Clients PROVE Checked(e)'
    <2>1. handler' = handler /\ rooms' = rooms /\ labels \subseteq labels'
          /\ DOMAIN devices' = DOMAIN devices /\ unheard' = unheard
      BY <1>3, AsideStep, AsideDevices
    <2> QED
      BY <2>1 DEF Checked, Verifies, RoomIsNew, Present
  <1> QED
    BY <1>1, <1>2, <1>3 DEF Next, Aside

-----------------------------------------------------------------------------
(* What holds of one device, for as long as it is what it was.             *)
Certified(id) ==
  devices[id].removable =>
    /\ \E l \in labels : /\ l.proof = [claims |-> l.declares, signer |-> "this"]
                         /\ devices[id].declares = {l.declares} /\ l.declares.id = id
    /\ \E x \in rooms : x.id = devices[id].room /\ x.selectable

LEMMA StaysCertified ==
  ASSUME NEW id, Certified(id), labels \subseteq labels', rooms \subseteq rooms',
         devices'[id].declares = devices[id].declares, devices'[id].room = devices[id].room,
         devices'[id].removable = devices[id].removable
  PROVE  Certified(id)'
  BY DEF Certified

LEMMA BecomesCertified ==
  ASSUME TypeOK, NEW c \in Clients, Checked(c), Register(c),
         NEW n, n = handler[c].request.label.declares.id,
         NEW new, new = Fresh(handler[c].request.label.declares, handler[c].request.room),
         devices'[n] = new
  PROVE  Certified(n)'
  <1>1. handler[c].at = "fits" /\ handler[c].request.kind = "register"
        /\ labels' = labels /\ rooms' = rooms
    BY DEF Register
  <1>2. handler[c].request.label \in labels /\ Verifies(handler[c].request.label)
        /\ \E x \in rooms : x.id = handler[c].request.room /\ x.selectable
    BY <1>1 DEF Checked
  <1>3. PICK l \in labels : l = handler[c].request.label
    BY <1>2
  <1>4. l.proof = [claims |-> l.declares, signer |-> "this"]
    <2>1. l \in Label /\ l.proof.signer = "this" /\ l.proof.claims = l.declares
      BY <1>2, <1>3 DEF Verifies, TypeOK
    <2>2. l.proof \notin ForeignProofs
      BY <2>1, SignedAbroad
    <2>3. PICK d \in Declarations : l.proof = Issue(d)
      BY <2>1, <2>2 DEF Label
    <2> QED
      BY <2>1, <2>3 DEF Issue
  <1>5. new.declares = {l.declares} /\ new.room = handler[c].request.room /\ n = l.declares.id
    BY <1>3 DEF Fresh
  <1>6. PICK x \in rooms : x.id = handler[c].request.room /\ x.selectable
    BY <1>2
  <1>7. l \in labels' /\ x \in rooms'
    BY <1>1
  <1>8. \E k \in labels' : /\ k.proof = [claims |-> k.declares, signer |-> "this"]
                          /\ devices'[n].declares = {k.declares} /\ k.declares.id = n
    BY <1>4, <1>5, <1>7
  <1>9. \E y \in rooms' : y.id = devices'[n].room /\ y.selectable
    BY <1>5, <1>6, <1>7
  <1> QED
    BY <1>8, <1>9 DEF Certified

LEMMA CertifiedKept ==
  ASSUME TypeOK, DevicesAreCertified, \A c \in Clients : Checked(c), [Next]_vars
  PROVE  DevicesAreCertified'
  <1>0. \A id \in DOMAIN devices : Certified(id)
    BY DEF DevicesAreCertified, Certified
  <1> SUFFICES ASSUME NEW id \in DOMAIN devices' PROVE Certified(id)'
    BY DEF DevicesAreCertified, Certified
  <1>1. ASSUME NEW c \in Clients, Register(c) PROVE Certified(id)'
    <2>1. labels' = labels /\ rooms' = rooms
      BY <1>1 DEF Register
    <2>2. CASE devices' = devices
      BY <1>0, <2>1, <2>2, StaysCertified
    <2>3. CASE devices' # devices
      <3>1. PICK n : n = handler[c].request.label.declares.id
        OBVIOUS
      <3>2. PICK new : new = Fresh(handler[c].request.label.declares, handler[c].request.room)
        OBVIOUS
      <3>3. devices' = With(n, new) /\ n \in Ids /\ new \in Device
        BY <1>1, <2>3, <3>1, <3>2, RegisterTypes, Declared
      <3>4. DOMAIN devices' = DOMAIN devices \cup {n} /\ devices'[n] = new
            /\ \A i \in DOMAIN devices : i # n => devices'[i] = devices[i]
        BY <3>3, WithTypes
      <3>5. Certified(n)'
        BY <1>1, <3>1, <3>2, <3>4, BecomesCertified
      <3> QED
        BY <1>0, <2>1, <3>4, <3>5, StaysCertified
    <2> QED
      BY <2>2, <2>3
  <1>2. ASSUME NEW c \in Clients, Delete(c) PROVE Certified(id)'
    <2>1. labels' = labels /\ rooms' = rooms
          /\ devices' = [i \in DOMAIN devices \ {handler[c].request.id} |-> devices[i]]
      BY <1>2 DEF Delete
    <2>2. id \in DOMAIN devices /\ devices'[id] = devices[id]
      BY <2>1
    <2> QED
      BY <1>0, <2>1, <2>2, StaysCertified
  <1>3. ASSUME NEW c \in Clients,
               \/ Ask(c) \/ Enter(c) \/ RefuseProof(c) \/ Look(c) \/ Refuse(c)
               \/ CreateRoom(c) \/ Finish(c) \/ FinishFails(c) \/ Announce(c)
        PROVE  Certified(id)'
    <2>1. devices' = devices /\ labels' = labels /\ rooms \subseteq rooms'
      BY <1>3 DEF Ask, Enter, RefuseProof, Look, Refuse, CreateRoom, Finish, FinishFails, Announce
    <2> QED
      BY <1>0, <2>1, StaysCertified
  <1>4. CASE Restart
    BY <1>4, RestartStep DEF Certified
  <1>5. CASE Aside
    BY <1>0, <1>5, AsideStep, AsideDevices, StaysCertified
  <1> QED
    BY <1>1, <1>2, <1>3, <1>4, <1>5 DEF Next, Aside

LEMMA DefaultsDiffer == \A x, y \in DefaultRooms : x.id = y.id \/ x.name = y.name => x = y
  <1>1. PICK a, b : /\ a = [id |-> "living", name |-> "Living", selectable |-> TRUE]
                    /\ b = [id |-> "entry", name |-> "Entry", selectable |-> FALSE]
    OBVIOUS
  <1>2. DefaultRooms = {a, b} /\ a.id = "living" /\ a.name = "Living" /\ b.id = "entry"
        /\ b.name = "Entry"
    BY <1>1 DEF DefaultRooms
  <1> QED
    BY <1>2

LEMMA RoomsKept ==
  ASSUME TypeOK, RoomsDiffer, \A c \in Clients : Checked(c), [Next]_vars
  PROVE  RoomsDiffer'
  <1>1. ASSUME NEW c \in Clients, CreateRoom(c) PROVE RoomsDiffer'
    <2>1. PICK r : r = handler[c].request.room
      OBVIOUS
    <2>2. handler[c].at = "fits" /\ handler[c].request.kind = "room"
          /\ rooms' = rooms \cup {[id |-> r.id, name |-> r.name, selectable |-> TRUE]}
      BY <1>1, <2>1 DEF CreateRoom
    <2>3. \A x \in rooms : x.id # r.id /\ x.name # r.name
      BY <2>1, <2>2 DEF Checked, RoomIsNew
    <2>4. PICK new : new = [id |-> r.id, name |-> r.name, selectable |-> TRUE]
      OBVIOUS
    <2>5. new.id = r.id /\ new.name = r.name /\ rooms' = rooms \cup {new}
      BY <2>2, <2>4
    <2>6. ASSUME NEW x \in rooms', NEW y \in rooms', x.id = y.id \/ x.name = y.name PROVE x = y
      <3>1. CASE x \in rooms /\ y \in rooms
        BY <2>6, <3>1 DEF RoomsDiffer
      <3>2. CASE x = new \/ y = new
        BY <2>3, <2>5, <2>6, <3>2
      <3> QED
        BY <2>5, <3>1, <3>2
    <2> QED
      BY <2>6 DEF RoomsDiffer
  <1>2. ASSUME NEW c \in Clients,
               \/ Ask(c) \/ Enter(c) \/ RefuseProof(c) \/ Look(c) \/ Refuse(c)
               \/ Register(c) \/ Delete(c) \/ Finish(c) \/ FinishFails(c) \/ Announce(c)
        PROVE  RoomsDiffer'
    <2>1. rooms' = rooms
      BY <1>2 DEF Ask, Enter, RefuseProof, Look, Refuse, Register, Delete, Finish, FinishFails, Announce
    <2> QED
      BY <2>1 DEF RoomsDiffer
  <1>3. CASE Restart
    BY <1>3, RestartStep, DefaultsDiffer DEF RoomsDiffer
  <1>4. CASE Aside
    BY <1>4, AsideStep DEF RoomsDiffer
  <1> QED
    BY <1>1, <1>2, <1>3, <1>4 DEF Next, Aside

-----------------------------------------------------------------------------
(* Subscribers: a device is told of, is being told of, or may be missed.   *)
Heard(id) == id \in told \cup unheard \/ Registering(id)

(* A step of another request, or one that does not end a registration.     *)
LEMMA StaysHeard ==
  ASSUME NEW c \in Clients, NEW id, Heard(id),
         handler[c].at \notin {"written", "telling"} \/ handler[c].request.kind # "register"
           \/ handler[c].request.label.declares.id # id,
         \A d \in Clients : d # c => handler'[d] = handler[d],
         id \in told => id \in told' \cup unheard', id \in unheard => id \in unheard'
  PROVE  Heard(id)'
  <1>1. CASE id \in told \cup unheard
    BY <1>1 DEF Heard
  <1>2. CASE Registering(id)
    <2>1. PICK e \in Clients : /\ handler[e].at \in {"written", "telling"}
                              /\ handler[e].request.kind = "register"
                              /\ handler[e].request.label.declares.id = id
      BY <1>2 DEF Registering
    <2>2. handler'[e] = handler[e]
      BY <2>1
    <2> QED
      BY <2>1, <2>2 DEF Heard, Registering
  <1> QED
    BY <1>1, <1>2 DEF Heard

LEMMA FinishHeard ==
  ASSUME TypeOK, NEW c \in Clients, Finish(c), NEW id, Heard(id)
  PROVE  Heard(id)'
  <1>1. handler[c].at = "written" /\ Moves(c, "telling") /\ told' = told /\ unheard' = unheard
    BY DEF Finish
  <1>2. /\ \A d \in Clients : d # c => handler'[d] = handler[d]
        /\ handler'[c].at = "telling" /\ handler'[c].request = handler[c].request
    BY <1>1, MoveStep
  <1>3. CASE id \in told \cup unheard
    BY <1>1, <1>3 DEF Heard
  <1>4. CASE Registering(id)
    <2>1. PICK e \in Clients : /\ handler[e].at \in {"written", "telling"}
                              /\ handler[e].request.kind = "register"
                              /\ handler[e].request.label.declares.id = id
      BY <1>4 DEF Registering
    <2>2. handler'[e].at \in {"written", "telling"} /\ handler'[e].request = handler[e].request
      BY <1>2, <2>1
    <2> QED
      BY <2>1, <2>2 DEF Heard, Registering
  <1> QED
    BY <1>3, <1>4 DEF Heard

LEMMA FailsHeard ==
  ASSUME TypeOK, NEW c \in Clients, FinishFails(c), NEW id, Heard(id)
  PROVE  Heard(id)'
  <1>1. /\ Done(c) /\ told' = told /\ unheard \subseteq unheard'
        /\ handler[c].request.kind = "register" =>
             handler[c].request.label.declares.id \in unheard'
    BY DEF FinishFails
  <1>2. \A d \in Clients : d # c => handler'[d] = handler[d]
    BY <1>1, DoneStep
  <1>3. CASE handler[c].request.kind = "register" /\ handler[c].request.label.declares.id = id
    BY <1>1, <1>3 DEF Heard
  <1>4. CASE ~(handler[c].request.kind = "register" /\ handler[c].request.label.declares.id = id)
    BY <1>1, <1>2, <1>4, StaysHeard
  <1> QED
    BY <1>3, <1>4

LEMMA AnnounceHeard ==
  ASSUME TypeOK, NEW c \in Clients, Checked(c), Announce(c), NEW id \in DOMAIN devices, Heard(id)
  PROVE  Heard(id)'
  <1>0. /\ handler[c].at = "telling" /\ Done(c) /\ handler[c].request \in Request
        /\ unheard' = unheard
    BY Asked DEF Announce
  <1>1. \A d \in Clients : d # c => handler'[d] = handler[d]
    BY <1>0, DoneStep
  <1>2. CASE handler[c].request.kind = "register" /\ handler[c].request.label.declares.id = id
    <2>1. id \in told'
      BY <1>2 DEF Announce
    <2> QED
      BY <2>1 DEF Heard
  <1>3. CASE ~(handler[c].request.kind = "register" /\ handler[c].request.label.declares.id = id)
    <2>1. handler[c].request.kind = "delete" /\ handler[c].request.id = id => id \in unheard
      BY <1>0 DEF Checked, Present
    <2>2. id \in told => id \in told' \cup unheard'
      BY <1>0, <2>1, RequestParts DEF Announce
    <2> QED
      BY <1>0, <1>1, <1>3, <2>2, StaysHeard
  <1> QED
    BY <1>2, <1>3

LEMMA HeardStays ==
  ASSUME TypeOK, \A c \in Clients : Checked(c), [Next]_vars, \A id \in DOMAIN devices : Heard(id)
  PROVE  \A id \in DOMAIN devices' : Heard(id)'
  <1> SUFFICES ASSUME NEW id \in DOMAIN devices' PROVE Heard(id)'
    OBVIOUS
  <1>1. ASSUME NEW c \in Clients, Finish(c) \/ FinishFails(c) \/ Announce(c) PROVE Heard(id)'
    <2>1. devices' = devices
      BY <1>1 DEF Finish, FinishFails, Announce
    <2>2. Heard(id)
      BY <2>1
    <2> QED
      BY <1>1, <2>1, <2>2, FinishHeard, FailsHeard, AnnounceHeard
  <1>2. CASE Restart
    BY <1>2, RestartStep DEF Heard
  <1>3. CASE Aside
    <2>1. /\ handler' = handler /\ told \subseteq told' /\ unheard' = unheard
          /\ id \in DOMAIN devices
      BY <1>3, AsideStep, AsideDevices
    <2>2. Heard(id)
      BY <2>1
    <2> QED
      BY <2>1, <2>2 DEF Heard, Registering
  <1>5. ASSUME NEW c \in Clients,
               \/ Ask(c) \/ Enter(c) \/ RefuseProof(c) \/ Look(c) \/ Refuse(c)
               \/ CreateRoom(c) \/ Register(c) \/ Delete(c)
        PROVE  handler[c].at \notin {"written", "telling"} /\ told' = told
               /\ \A d \in Clients : d # c => handler'[d] = handler[d]
    <2>1. handler[c].at \notin {"written", "telling"} /\ told' = told
      BY <1>5 DEF Ask, Enter, RefuseProof, Look, Refuse, CreateRoom, Register, Delete
    <2>2. handler' = [handler EXCEPT ![c] = handler'[c]]
      BY <1>5, OnlyOne
    <2>3. \A d \in Clients : d # c => handler'[d] = handler[d]
      BY <2>2 DEF TypeOK
    <2> QED
      BY <2>1, <2>3
  <1>6. ASSUME NEW c \in Clients,
               \/ Ask(c) \/ Enter(c) \/ RefuseProof(c) \/ Look(c) \/ Refuse(c)
               \/ CreateRoom(c) \/ Delete(c)
        PROVE  Heard(id)'
    <2>1. DOMAIN devices' \subseteq DOMAIN devices /\ unheard' = unheard
      BY <1>6 DEF Ask, Enter, RefuseProof, Look, Refuse, CreateRoom, Delete
    <2> QED
      BY <1>5, <1>6, <2>1, StaysHeard
  <1>7. ASSUME NEW c \in Clients, Register(c) PROVE Heard(id)'
    <2>0. Hearing(handler[c].request.label.declares.id)
      BY <1>7 DEF Register
    <2>1. CASE id \in DOMAIN devices
      <3>1. id \in unheard => id \in unheard'
        BY <2>0, <2>1 DEF Hearing, Present
      <3> QED
        BY <1>5, <1>7, <2>1, <3>1, StaysHeard
    <2>2. CASE id \notin DOMAIN devices
      <3>1. /\ handler[c].at = "fits" /\ handler[c].request.kind = "register" /\ Moves(c, "written")
            /\ handler[c].request \in Request
        BY <1>7, RegisterTypes DEF Register
      <3>2. handler'[c].at = "written" /\ handler'[c].request = handler[c].request
        BY <3>1, MoveStep
      <3>3. id = handler[c].request.label.declares.id
        BY <1>7, <2>2, RegisterTypes DEF With
      <3>4. PICK q : q = handler[c].request
        OBVIOUS
      <3>5. handler'[c].request.kind = "register" /\ handler'[c].request.label.declares.id = id
        BY <3>1, <3>2, <3>3, <3>4
      <3> QED
        BY <3>2, <3>5 DEF Heard, Registering
    <2> QED
      BY <2>1, <2>2
  <1> QED
    BY <1>1, <1>2, <1>3, <1>6, <1>7 DEF Next, Aside

-----------------------------------------------------------------------------
(* The log: what a record that is appended says of each device.            *)
LEMMA AppendRecords ==
  ASSUME TypeOK, NEW r \in Record, log' = Append(log, r), boot' = boot, NEW id
  PROVE  /\ r.action = "room" \/ r.subject # id => (LastIsRegister(id)' <=> LastIsRegister(id))
         /\ r.action = "register" /\ r.subject = id => LastIsRegister(id)'
         /\ r.action = "delete" /\ r.subject = id => ~LastIsRegister(id)'
  <1>1. log \in Seq(Record) /\ Len(log) \in Nat /\ boot \in 0 .. Len(log)
    BY DEF TypeOK
  <1>2. PICK n \in Nat : n = Len(log)
    BY <1>1
  <1>3. /\ Len(log') = n + 1 /\ log'[n + 1] = r /\ \A i \in 1 .. n : log'[i] = log[i]
        /\ boot' = boot /\ boot \in 0 .. n
    BY <1>1, <1>2
  <1>4. CASE r.action = "room" \/ r.subject # id
    <2>1. RecordsOf(id)' = RecordsOf(id)
      BY <1>2, <1>3, <1>4 DEF RecordsOf
    <2>2. \A i \in RecordsOf(id) : log'[i] = log[i]
      BY <1>2, <1>3 DEF RecordsOf
    <2> QED
      BY <1>4, <2>1, <2>2 DEF LastIsRegister
  <1>5. CASE r.action # "room" /\ r.subject = id
    <2>1. RecordsOf(id)' = RecordsOf(id) \cup {n + 1}
      BY <1>2, <1>3, <1>5 DEF RecordsOf
    <2>2. \A j \in RecordsOf(id) : j \in Nat /\ j < n + 1
      BY <1>2, <1>3 DEF RecordsOf
    <2>3. r.action = "register" => LastIsRegister(id)'
      BY <1>3, <2>1, <2>2 DEF LastIsRegister
    <2>4. ASSUME r.action = "delete" PROVE ~LastIsRegister(id)'
      <3>1. SUFFICES ASSUME NEW i \in RecordsOf(id)', log'[i].action = "register",
                            \A j \in RecordsOf(id)' : j <= i
                     PROVE  FALSE
        BY DEF LastIsRegister
      <3>2. i # n + 1
        BY <1>3, <2>4, <3>1
      <3>3. n + 1 <= i /\ i < n + 1
        BY <2>1, <2>2, <3>1, <3>2
      <3>4. i \in Nat
        BY <2>1, <2>2
      <3> QED
        BY <3>3, <3>4
    <2> QED
      BY <1>5, <2>3, <2>4
  <1> QED
    BY <1>4, <1>5

LogKnows(id) == Present(id) <=> LastIsRegister(id)
Kept(c) == handler[c].at = "written" /\ handler[c].request.kind = "register" =>
             Present(handler[c].request.label.declares.id)

(* Nobody but the holder of the lock removes a device.                     *)
LEMMA KeptKept ==
  ASSUME TypeOK, OneAtATime, \A c \in Clients : Kept(c), [Next]_vars
  PROVE  \A c \in Clients : Kept(c)'
  <1> SUFFICES ASSUME NEW e \in Clients PROVE Kept(e)'
    OBVIOUS
  <1>1. ASSUME NEW c \in Clients,
               \/ Ask(c) \/ Enter(c) \/ RefuseProof(c) \/ Look(c) \/ Refuse(c)
               \/ CreateRoom(c) \/ Register(c) \/ Delete(c) \/ Finish(c) \/ FinishFails(c) \/ Announce(c),
               c # e
        PROVE  Kept(e)'
    <2>1. handler' = [handler EXCEPT ![c] = handler'[c]]
      BY <1>1, OnlyOne
    <2>2. handler'[e] = handler[e]
      BY <1>1, <2>1 DEF TypeOK
    <2>3. DOMAIN devices \subseteq DOMAIN devices' \/ handler[c].at = "fits"
      BY <1>1 DEF Ask, Enter, RefuseProof, Look, Refuse, CreateRoom, Register, With, Delete, Finish,
                  FinishFails, Announce
    <2>4. handler[c].at = "fits" => handler[e].at # "written"
      BY <1>1 DEF OneAtATime
    <2> QED
      BY <2>2, <2>3, <2>4 DEF Kept, Present
  <1>2. ASSUME Register(e) PROVE Kept(e)'
    <2>1. /\ handler[e].at = "fits" /\ Moves(e, "written")
      BY <1>2 DEF Register
    <2>2. handler'[e].request = handler[e].request
      BY <2>1, MoveStep
    <2>3. handler[e].request.label.declares.id \in DOMAIN devices'
      BY <1>2, RegisterTypes DEF With, Present
    <2> QED
      BY <2>2, <2>3 DEF Kept, Present
  <1>3. ASSUME CreateRoom(e) \/ Delete(e) PROVE Kept(e)'
    <2>1. handler[e].at = "fits" /\ Moves(e, "written") /\ handler[e].request.kind # "register"
      BY <1>3 DEF CreateRoom, Delete
    <2>2. handler'[e].request = handler[e].request
      BY <2>1, MoveStep
    <2> QED
      BY <2>1, <2>2 DEF Kept
  <1>4. ASSUME Enter(e) \/ Look(e) \/ Finish(e) PROVE Kept(e)'
    <2>1. handler[e].at # "idle" /\ (Moves(e, "locked") \/ Moves(e, "fits") \/ Moves(e, "telling"))
      BY <1>4 DEF Enter, Look, Finish
    <2>2. handler'[e].at # "written"
      BY <2>1, MoveStep
    <2> QED
      BY <2>2 DEF Kept
  <1>5. ASSUME RefuseProof(e) \/ Refuse(e) \/ FinishFails(e) \/ Announce(e) PROVE Kept(e)'
    <2>1. Done(e)
      BY <1>5 DEF RefuseProof, Refuse, FinishFails, Announce
    <2> QED
      BY <2>1, DoneStep DEF Kept
  <1>6. ASSUME Ask(e) PROVE Kept(e)'
    BY <1>6, AskStep DEF Kept
  <1>7. ASSUME Restart PROVE Kept(e)'
    BY <1>7, RestartStep DEF Kept
  <1>8. ASSUME Aside PROVE Kept(e)'
    <2>1. handler' = handler /\ DOMAIN devices' = DOMAIN devices
      BY <1>8, AsideStep, AsideDevices
    <2> QED
      BY <2>1 DEF Kept, Present
  <1> QED
    BY <1>1, <1>2, <1>3, <1>4, <1>5, <1>6, <1>7, <1>8 DEF Next, Aside

(* A step that writes no record and changes no device but, when its        *)
(* request is then about to be recorded, the one it is about.              *)
LEMMA LogStays ==
  ASSUME NEW c \in Clients, NEW id, LogKnows(id) \/ Recording(id), handler[c].at # "written",
         \A d \in Clients : d # c => handler'[d] = handler[d],
         log' = log, boot' = boot, id \in DOMAIN devices' <=> id \in DOMAIN devices
  PROVE  LogKnows(id)' \/ Recording(id)'
  <1>1. ASSUME LogKnows(id) PROVE LogKnows(id)'
    BY <1>1 DEF LogKnows, LastIsRegister, RecordsOf, Present
  <1>2. ASSUME Recording(id) PROVE Recording(id)'
    <2>1. PICK e \in Clients : /\ handler[e].at = "written" /\ handler[e].request.kind # "room"
                              /\ Subject(handler[e].request) = id
      BY <1>2 DEF Recording
    <2>2. handler'[e] = handler[e]
      BY <2>1
    <2> QED
      BY <2>1, <2>2 DEF Recording, Subject
  <1> QED
    BY <1>1, <1>2

(* The record of a request is right about its device, and changes nothing  *)
(* about the others.                                                       *)
LEMMA FinishLogs ==
  ASSUME TypeOK, OneAtATime, NEW c \in Clients, Checked(c), Kept(c), Finish(c), NEW id,
         LogKnows(id) \/ Recording(id)
  PROVE  LogKnows(id)'
  <1>1. handler[c].at = "written" /\ devices' = devices /\ boot' = boot
        /\ log' = Append(log, [action |-> handler[c].request.kind,
                               subject |-> Subject(handler[c].request)])
    BY DEF Finish, Entry
  <1>2. handler[c].request \in Request
    BY <1>1, Asked
  <1>3. PICK q : q = handler[c].request
    OBVIOUS
  <1>4. PICK r : r = [action |-> q.kind, subject |-> Subject(q)]
    OBVIOUS
  <1>5. r \in Record /\ log' = Append(log, r) /\ r.action = q.kind /\ r.subject = Subject(q)
    BY <1>1, <1>2, <1>3, <1>4, SubjectRecorded
  <1>6. Present(id)' <=> Present(id)
    BY <1>1 DEF Present
  <1>7. CASE q.kind = "room" \/ Subject(q) # id
    <2>1. ~Recording(id)
      BY <1>1, <1>3, <1>7 DEF Recording, OneAtATime
    <2>2. LastIsRegister(id)' <=> LastIsRegister(id)
      BY <1>1, <1>5, <1>7, AppendRecords
    <2> QED
      BY <1>6, <2>1, <2>2 DEF LogKnows
  <1>8. CASE q.kind = "register" /\ Subject(q) = id
    <2>1. Present(id)
      BY <1>1, <1>3, <1>8 DEF Kept, Subject
    <2>2. LastIsRegister(id)'
      BY <1>1, <1>5, <1>8, AppendRecords
    <2> QED
      BY <1>6, <2>1, <2>2 DEF LogKnows
  <1>9. CASE q.kind = "delete" /\ Subject(q) = id
    <2>1. ~Present(id)
      BY <1>1, <1>3, <1>9 DEF Checked, Subject
    <2>2. ~LastIsRegister(id)'
      BY <1>1, <1>5, <1>9, AppendRecords
    <2> QED
      BY <1>6, <2>1, <2>2 DEF LogKnows
  <1> QED
    BY <1>2, <1>3, <1>7, <1>8, <1>9, RequestParts

LEMMA LogKept ==
  ASSUME TypeOK, OneAtATime, \A c \in Clients : Checked(c), \A c \in Clients : Kept(c), [Next]_vars,
         NEW id \in Ids \ BuiltIn, failures = 0 => LogKnows(id) \/ Recording(id), failures' = 0
  PROVE  LogKnows(id)' \/ Recording(id)'
  <1>1. ASSUME NEW c \in Clients, FinishFails(c) PROVE FALSE
    <2>1. failures \in Nat /\ failures' = failures + 1
      BY <1>1 DEF FinishFails, TypeOK
    <2> QED
      BY <2>1
  <1>2. CASE Restart
    <2>1. boot' = Len(log') /\ Len(log') \in Nat
      BY <1>2 DEF Restart, TypeOK
    <2>2. RecordsOf(id)' = {}
      BY <2>1 DEF RecordsOf
    <2>3. id \notin DOMAIN devices'
      BY <1>2, RestartStep
    <2> QED
      BY <2>2, <2>3 DEF LogKnows, LastIsRegister, Present
  <1>3. CASE Aside
    <2>1. /\ failures = 0 /\ handler' = handler /\ DOMAIN devices' = DOMAIN devices
          /\ log' = log /\ boot' = boot
      BY <1>3, AsideStep, AsideDevices
         DEF Aside, PrintLabel, Touch, TellTick, StartReading, ReadPage, vars
    <2>2. LogKnows(id) => LogKnows(id)'
      BY <2>1 DEF LogKnows, LastIsRegister, RecordsOf, Present
    <2>3. Recording(id) => Recording(id)'
      BY <2>1 DEF Recording, Subject
    <2> QED
      BY <2>1, <2>2, <2>3
  <1>4. ASSUME NEW c \in Clients, Finish(c) PROVE LogKnows(id)'
    <2>1. failures = 0
      BY <1>4 DEF Finish
    <2> QED
      BY <1>4, <2>1, FinishLogs
  <1>5. ASSUME NEW c \in Clients,
               \/ Ask(c) \/ Enter(c) \/ RefuseProof(c) \/ Look(c) \/ Refuse(c)
               \/ CreateRoom(c) \/ Register(c) \/ Delete(c) \/ Announce(c)
        PROVE  /\ handler[c].at # "written" /\ log' = log /\ boot' = boot /\ failures = 0
               /\ \A d \in Clients : d # c => handler'[d] = handler[d]
    <2>1. handler[c].at # "written" /\ log' = log /\ boot' = boot /\ failures' = failures
      BY <1>5 DEF Ask, Enter, RefuseProof, Look, Refuse, CreateRoom, Register, Delete, Announce
    <2>2. handler' = [handler EXCEPT ![c] = handler'[c]]
      BY <1>5, OnlyOne
    <2>3. \A d \in Clients : d # c => handler'[d] = handler[d]
      BY <2>2 DEF TypeOK
    <2> QED
      BY <2>1, <2>3
  <1>6. ASSUME NEW c \in Clients,
               \/ Ask(c) \/ Enter(c) \/ RefuseProof(c) \/ Look(c) \/ Refuse(c) \/ CreateRoom(c)
               \/ Announce(c)
        PROVE  LogKnows(id)' \/ Recording(id)'
    <2>1. devices' = devices
      BY <1>6 DEF Ask, Enter, RefuseProof, Look, Refuse, CreateRoom, Announce
    <2> QED
      BY <1>5, <1>6, <2>1, LogStays
  <1>7. ASSUME NEW c \in Clients, Register(c) \/ Delete(c)
        PROVE  LogKnows(id)' \/ Recording(id)'
    <2>1. /\ handler[c].at = "fits" /\ Moves(c, "written") /\ handler[c].request.kind # "room"
      BY <1>7 DEF Register, Delete
    <2>2. handler'[c].at = "written" /\ handler'[c].request = handler[c].request
      BY <2>1, MoveStep
    <2>3. CASE Subject(handler[c].request) = id
      <3>1. PICK q : q = handler[c].request
        OBVIOUS
      <3>2. q.kind # "room" /\ Subject(q) = id /\ handler'[c].request = q
        BY <2>1, <2>2, <2>3, <3>1
      <3> QED
        BY <2>2, <3>2 DEF Recording, Subject
    <2>4. CASE Subject(handler[c].request) # id
      <3>1. id \in DOMAIN devices' <=> id \in DOMAIN devices
        <4>1. CASE Register(c)
          <5>1. handler[c].request.label.declares.id # id
            BY <2>4, <4>1, RegisterTypes DEF Subject
          <5> QED
            BY <4>1, <5>1, RegisterTypes DEF With
        <4>2. CASE Delete(c)
          <5>1. handler[c].request.id # id
            BY <2>4, <4>2 DEF Subject, Delete
          <5> QED
            BY <4>2, <5>1 DEF Delete
        <4> QED
          BY <1>7, <4>1, <4>2
      <3> QED
        BY <1>5, <1>7, <3>1, LogStays
    <2> QED
      BY <2>3, <2>4
  <1> QED
    BY <1>1, <1>2, <1>3, <1>4, <1>6, <1>7 DEF Next, Aside

-----------------------------------------------------------------------------
LEMMA InitCatalogue == Init => CatalogueInv
  <1> SUFFICES ASSUME Init PROVE CatalogueInv
    OBVIOUS
  <1>1. /\ handler = [c \in Clients |-> Idle] /\ rooms = DefaultRooms
        /\ devices = BuiltInDevices /\ told = BuiltIn
    BY DEF Init
  <1>2. \A c \in Clients : handler[c].at = "idle"
    BY <1>1 DEF Idle
  <1>3. DOMAIN devices = BuiltIn /\ \A id \in BuiltIn : ~devices[id].removable
    BY <1>1 DEF BuiltInDevices
  <1>4. OneAtATime /\ \A c \in Clients : Checked(c)
    BY <1>2 DEF OneAtATime, Checked
  <1>5. DevicesAreCertified
    BY <1>3 DEF DevicesAreCertified
  <1>6. RoomsDiffer
    BY <1>1, DefaultsDiffer DEF RoomsDiffer
  <1>7. RegisteredIsTold
    BY <1>1, <1>3 DEF RegisteredIsTold
  <1> QED
    BY <1>4, <1>5, <1>6, <1>7 DEF CatalogueInv

LEMMA CatalogueStep == TypeOK /\ CatalogueInv /\ [Next]_vars => CatalogueInv'
  <1> SUFFICES ASSUME TypeOK, CatalogueInv, [Next]_vars PROVE CatalogueInv'
    OBVIOUS
  <1>1. /\ OneAtATime /\ (\A c \in Clients : Checked(c)) /\ DevicesAreCertified /\ RoomsDiffer
        /\ \A id \in DOMAIN devices : Heard(id)
    BY DEF CatalogueInv, RegisteredIsTold, Heard
  <1>2. OneAtATime'
    BY <1>1, LockKept
  <1>3. \A c \in Clients : Checked(c)'
    BY <1>1, CheckedKept
  <1>4. DevicesAreCertified'
    BY <1>1, CertifiedKept
  <1>5. RoomsDiffer'
    BY <1>1, RoomsKept
  <1>6. RegisteredIsTold'
    <2>1. \A id \in DOMAIN devices' : Heard(id)'
      BY <1>1, HeardStays
    <2> QED
      BY <2>1 DEF RegisteredIsTold, Heard
  <1> QED
    BY <1>2, <1>3, <1>4, <1>5, <1>6 DEF CatalogueInv

(* Every value keeps its type, however many clients, labels and restarts   *)
(* there are: the state of service.py, registry.py and the log.            *)
THEOREM TypeCorrect == Spec => []TypeOK
  BY InitTypes, Types, PTL DEF Spec

LEMMA CatalogueHolds == Spec => [](TypeOK /\ CatalogueInv)
  <1>1. Init => TypeOK /\ CatalogueInv
    BY InitTypes, InitCatalogue
  <1>2. TypeOK /\ CatalogueInv /\ [Next]_vars => (TypeOK /\ CatalogueInv)'
    BY Types, CatalogueStep
  <1> QED
    BY <1>1, <1>2, PTL DEF Spec

(* A device that was added is one whose label this gateway signed, whatever *)
(* requests ran beside its registration (service.py _registration_lock,     *)
(* security.py verify).                                                     *)
THEOREM DevicesCertified == Spec => []DevicesAreCertified
  <1>1. TypeOK /\ CatalogueInv => DevicesAreCertified
    BY DEF CatalogueInv
  <1> QED
    BY <1>1, CatalogueHolds, PTL

(* create_room looks and writes on a worker thread; the asyncio lock around *)
(* both keeps ids and names of rooms apart.                                 *)
THEOREM RoomsStayDifferent == Spec => []RoomsDiffer
  <1>1. TypeOK /\ CatalogueInv => RoomsDiffer
    BY DEF CatalogueInv
  <1> QED
    BY <1>1, CatalogueHolds, PTL

(* A subscriber that reads knows every device, but for the registrations    *)
(* that are being recorded or sent, the ones whose record failed and the    *)
(* ones an earlier removal may overtake (app.py broadcasts after            *)
(* service.py's lock, beside other requests).                               *)
THEOREM RegisteredAreTold == Spec => []RegisteredIsTold
  <1>1. TypeOK /\ CatalogueInv => RegisteredIsTold
    BY DEF CatalogueInv
  <1> QED
    BY <1>1, CatalogueHolds, PTL

LEMMA LogHolds == Spec => []LogInv
  <1>1. Init => LogInv
    <2> SUFFICES ASSUME Init PROVE LogInv
      OBVIOUS
    <2>1. \A c \in Clients : handler[c].at = "idle"
      BY DEF Init, Idle
    <2>2. \A id \in Ids : RecordsOf(id) = {}
      BY DEF Init, RecordsOf
    <2>3. DOMAIN devices = BuiltIn
      BY DEF Init, BuiltInDevices
    <2> QED
      BY <2>1, <2>2, <2>3 DEF LogInv, LastIsRegister, Present
  <1>2. TypeOK /\ CatalogueInv /\ LogInv /\ [Next]_vars => LogInv'
    <2> SUFFICES ASSUME TypeOK, CatalogueInv, LogInv, [Next]_vars PROVE LogInv'
      OBVIOUS
    <2>1. OneAtATime /\ (\A c \in Clients : Checked(c)) /\ \A c \in Clients : Kept(c)
      BY DEF CatalogueInv, LogInv, Kept
    <2>2. \A c \in Clients : Kept(c)'
      BY <2>1, KeptKept
    <2>3. failures = 0 => \A id \in Ids \ BuiltIn : LogKnows(id) \/ Recording(id)
      BY DEF LogInv, LogKnows
    <2>4. failures' = 0 => \A id \in Ids \ BuiltIn : LogKnows(id)' \/ Recording(id)'
      BY <2>1, <2>3, LogKept
    <2> QED
      BY <2>2, <2>4 DEF LogInv, Kept, LogKnows
  <1> QED
    BY <1>1, <1>2, CatalogueHolds, PTL DEF Spec

(* With no request under way and no record failed, the last record since    *)
(* the start tells whether a device is there (service.py writes the record  *)
(* under the lock that the change was made under).                          *)
THEOREM LogIsTrue == Spec => []LogExplainsRegistry
  <1>1. CatalogueInv /\ LogInv => LogExplainsRegistry
    <2> SUFFICES ASSUME CatalogueInv, LogInv, lock = Free, failures = 0,
                        NEW id \in Ids \ BuiltIn
                 PROVE  Present(id) <=> LastIsRegister(id)
      BY DEF LogExplainsRegistry
    <2>1. ~Recording(id)
      BY ClientNames DEF CatalogueInv, OneAtATime, Free, Recording
    <2> QED
      BY <2>1 DEF LogInv
  <1> QED
    BY <1>1, CatalogueHolds, LogHolds, PTL

-----------------------------------------------------------------------------
(* Reading the log.                                                        *)
LEMMA DownConcat ==
  ASSUME NEW from \in Nat, NEW cursor \in 1 .. from + 1, NEW n \in 0 .. cursor - 1
  PROVE  Down(from, from + 1 - cursor) \o [i \in 1 .. n |-> cursor - i]
           = Down(from, from + 1 - cursor + n)
  <1>1. PICK k \in Nat : k = from + 1 - cursor
    OBVIOUS
  <1>2. PICK v : v = [i \in 1 .. n |-> cursor - i]
    OBVIOUS
  <1>3. Down(from, k) \in Seq(Int) /\ v \in Seq(Int) /\ Len(Down(from, k)) = k /\ Len(v) = n
    BY <1>1, <1>2 DEF Down
  <1>4. PICK w : w = Down(from, k) \o v
    OBVIOUS
  <1>5. /\ w \in Seq(Int) /\ Len(w) = k + n
        /\ \A i \in 1 .. k + n : w[i] = IF i <= k THEN Down(from, k)[i] ELSE v[i - k]
    <2>1. PICK d : d = Down(from, k)
      OBVIOUS
    <2>2. d \in Seq(Int) /\ v \in Seq(Int) /\ Len(d) = k /\ Len(v) = n /\ w = d \o v
      BY <1>3, <1>4, <2>1
    <2>3. /\ d \o v \in Seq(Int) /\ Len(d \o v) = Len(d) + Len(v)
          /\ \A i \in 1 .. Len(d) + Len(v) :
               (d \o v)[i] = IF i <= Len(d) THEN d[i] ELSE v[i - Len(d)]
      BY <2>2, ConcatProperties, Zenon
    <2> QED
      BY <2>1, <2>2, <2>3
  <1>6. \A i \in 1 .. k + n : w[i] = from + 1 - i
    <2> SUFFICES ASSUME NEW i \in 1 .. k + n PROVE w[i] = from + 1 - i
      OBVIOUS
    <2>1. CASE i <= k
      BY <1>5, <2>1 DEF Down
    <2>2. CASE i > k
      <3>1. w[i] = v[i - k] /\ i - k \in 1 .. n
        BY <1>5, <2>2
      <3>2. v[i - k] = cursor - (i - k)
        BY <1>2, <3>1
      <3> QED
        BY <1>1, <3>1, <3>2
    <2> QED
      BY <2>1, <2>2
  <1>7. w = [i \in 1 .. k + n |-> w[i]]
    BY <1>5
  <1>8. w = Down(from, k + n)
    BY <1>6, <1>7 DEF Down
  <1> QED
    BY <1>1, <1>2, <1>4, <1>8

LEMMA DownTypes == ASSUME NEW from \in Nat, NEW n \in Nat PROVE Down(from, n) \in Seq(Int)
  BY DEF Down

LEMMA ReadStep == ASSUME ReaderInv, ReadPage PROVE ReaderInv'
  <1>1. PICK cursor \in Nat, from \in Nat, got \in Seq(Int) :
          reader = [at |-> "reading", cursor |-> cursor, from |-> from, got |-> got]
    BY DEF ReaderInv, ReadPage
  <1>2. cursor \in 2 .. from + 1 /\ got = Down(from, from + 1 - cursor) /\ PageSize \in Nat \ {0}
    BY <1>1, PagesHold DEF ReaderInv
  <1>3. CASE cursor - 1 > PageSize
    <2>1. PICK rows : rows = [i \in 1 .. PageSize + 1 |-> cursor - i]
      OBVIOUS
    <2>2. Rows(cursor, PageSize + 1) = rows /\ rows \in Seq(Int) /\ Len(rows) = PageSize + 1
      BY <1>2, <1>3, <2>1 DEF Rows
    <2>3. PICK visible : visible = [i \in 1 .. PageSize |-> cursor - i]
      OBVIOUS
    <2>4. SubSeq(rows, 1, PageSize) = visible
      BY <1>2, <2>1, <2>2, <2>3
    <2>5. visible[PageSize] = cursor - PageSize
      BY <1>2, <2>3
    <2>6. reader' = [at |-> "reading", cursor |-> cursor - PageSize, from |-> from,
                     got |-> got \o visible]
      <3>1. reader.cursor = cursor /\ reader.got = got
        BY <1>1
      <3>2. Len(rows) > PageSize
        BY <1>2, <2>2
      <3>3. reader' = [reader EXCEPT !.got = got \o visible, !.cursor = cursor - PageSize,
                                     !.at = "reading"]
        BY <2>2, <2>4, <2>5, <3>1, <3>2 DEF ReadPage
      <3> QED
        BY <1>1, <3>3
    <2>7. PICK left \in 2 .. from + 1 : left = cursor - PageSize
      BY <1>2, <1>3
    <2>8. PICK all : all = got \o visible
      OBVIOUS
    <2>9. all = Down(from, from + 1 - left)
      <3>1. cursor \in 1 .. from + 1 /\ PageSize \in 0 .. cursor - 1
            /\ from + 1 - left = from + 1 - cursor + PageSize
        BY <1>2, <1>3, <2>7
      <3>2. Down(from, from + 1 - cursor) \o visible = Down(from, from + 1 - cursor + PageSize)
        BY <2>3, <3>1, DownConcat
      <3> QED
        BY <1>2, <2>8, <3>1, <3>2
    <2>10. all \in Seq(Int)
      <3>1. from + 1 - left \in Nat
        BY <2>7
      <3> QED
        BY <2>9, <3>1, DownTypes
    <2>11. reader' = [at |-> "reading", cursor |-> left, from |-> from, got |-> all]
      BY <2>6, <2>7, <2>8
    <2> QED
      BY <2>7, <2>9, <2>10, <2>11 DEF ReaderInv
  <1>4. CASE cursor - 1 <= PageSize
    <2>1. PICK rows : rows = [i \in 1 .. cursor - 1 |-> cursor - i]
      OBVIOUS
    <2>2. Rows(cursor, PageSize + 1) = rows /\ Len(rows) = cursor - 1
      BY <1>2, <1>4, <2>1 DEF Rows
    <2>3. reader' = [at |-> "done", cursor |-> 0, from |-> from, got |-> got \o rows]
      <3>1. reader.cursor = cursor /\ reader.got = got
        BY <1>1
      <3>2. ~(Len(rows) > PageSize)
        BY <1>2, <1>4, <2>2
      <3>3. reader' = [reader EXCEPT !.got = got \o rows, !.cursor = 0, !.at = "done"]
        BY <2>2, <3>1, <3>2 DEF ReadPage
      <3> QED
        BY <1>1, <3>3
    <2>4. got \o rows = Down(from, from)
      <3>1. cursor \in 1 .. from + 1 /\ cursor - 1 \in 0 .. cursor - 1
            /\ from + 1 - cursor + (cursor - 1) = from
        BY <1>2
      <3>2. Down(from, from + 1 - cursor) \o rows = Down(from, from + 1 - cursor + (cursor - 1))
        BY <2>1, <3>1, DownConcat
      <3> QED
        BY <1>2, <3>1, <3>2
    <2>5. got \o rows \in Seq(Int)
      BY <2>4, DownTypes
    <2> QED
      BY <2>3, <2>4, <2>5 DEF ReaderInv
  <1> QED
    BY <1>2, <1>3, <1>4

LEMMA ReaderKept == TypeOK /\ ReaderInv /\ [Next]_vars => ReaderInv'
  <1> SUFFICES ASSUME TypeOK, ReaderInv, [Next]_vars PROVE ReaderInv'
    OBVIOUS
  <1>1. CASE ReadPage
    BY <1>1, ReadStep
  <1>2. CASE StartReading
    <2>1. Len(log) \in Nat \ {0}
      BY <1>2 DEF StartReading, TypeOK
    <2>2. reader' = [at |-> "reading", cursor |-> Len(log) + 1, from |-> Len(log), got |-> <<>>]
      BY <1>2 DEF StartReading
    <2>3. <<>> = Down(Len(log), Len(log) + 1 - (Len(log) + 1))
      BY <2>1 DEF Down
    <2> QED
      BY <2>1, <2>2, <2>3 DEF ReaderInv
  <1>3. CASE reader' = reader
    BY <1>3 DEF ReaderInv, Down
  <1>4. \/ ReadPage \/ StartReading \/ reader' = reader
    BY DEF Next, PrintLabel, Ask, Enter, RefuseProof, Look, Refuse, CreateRoom, Register, Delete,
           Finish, FinishFails, Announce, Touch, TellTick, Restart, vars
  <1> QED
    BY <1>1, <1>2, <1>3, <1>4

(* Following the cursor of storage.py get_logs gives every record that was  *)
(* there at the first page once, newest first, whatever the page size and   *)
(* whatever is appended or restarted between two pages.                     *)
THEOREM PagesComplete == Spec => []PagesAreComplete
  <1>1. Init => ReaderInv
    BY DEF Init, ReaderInv
  <1>2. ReaderInv => PagesAreComplete
    BY DEF ReaderInv, PagesAreComplete, Down
  <1> QED
    BY <1>1, <1>2, ReaderKept, TypeCorrect, PTL DEF Spec

-----------------------------------------------------------------------------
LEMMA KeepsStep ==
  ASSUME TypeOK, [Next]_vars, NEW id \in Ids, id \in DOMAIN devices, id \in DOMAIN devices',
         restarts' = restarts
  PROVE  /\ devices'[id].declares = devices[id].declares /\ devices'[id].room = devices[id].room
         /\ devices'[id].version >= devices[id].version
  <1>1. devices[id].version \in Nat /\ restarts \in Nat
    BY DEF TypeOK, Device
  <1>2. devices'[id] = devices[id] =>
          /\ devices'[id].declares = devices[id].declares /\ devices'[id].room = devices[id].room
          /\ devices'[id].version >= devices[id].version
    BY <1>1
  <1>3. ASSUME NEW i \in Touched, Touch(i)
        PROVE  /\ devices'[id].declares = devices[id].declares
               /\ devices'[id].room = devices[id].room
               /\ devices'[id].version >= devices[id].version
    <2>1. /\ devices'[id].declares = devices[id].declares /\ devices'[id].room = devices[id].room
          /\ devices'[id].version \in {devices[id].version, devices[id].version + 1}
      BY <1>3, TouchTypes
    <2> QED
      BY <1>1, <2>1
  <1>4. ASSUME NEW c \in Clients, Register(c) PROVE devices'[id] = devices[id]
    BY <1>4, RegisterTypes DEF With, Present
  <1>5. ASSUME NEW c \in Clients, Delete(c) PROVE devices'[id] = devices[id]
    <2>1. devices' = [i \in DOMAIN devices \ {handler[c].request.id} |-> devices[i]]
      BY <1>5 DEF Delete
    <2> QED
      BY <2>1
  <1>6. ~Restart
    BY <1>1 DEF Restart
  <1>7. ASSUME NEW c \in Clients,
               \/ Ask(c) \/ Enter(c) \/ RefuseProof(c) \/ Look(c) \/ Refuse(c)
               \/ CreateRoom(c) \/ Finish(c) \/ FinishFails(c) \/ Announce(c)
        PROVE  devices'[id] = devices[id]
    BY <1>7 DEF Ask, Enter, RefuseProof, Look, Refuse, CreateRoom, Finish, FinishFails, Announce
  <1>8. CASE (\E d \in Declarations : PrintLabel(d)) \/ (\E i \in Touched : TellTick(i))
             \/ StartReading \/ ReadPage
             \/ UNCHANGED vars
    BY <1>2, <1>8 DEF PrintLabel, TellTick, StartReading, ReadPage, vars
  <1> QED
    BY <1>2, <1>3, <1>4, <1>5, <1>6, <1>7, <1>8 DEF Next

(* Only a restart or a removal makes a device anything but what it was      *)
(* registered as (registry.py register_device returns the one that is there). *)
THEOREM KeepsRegistration == Spec => KeptAsRegistered
  <1>1. TypeOK /\ [Next]_vars =>
          [\A id \in Ids : Present(id) /\ Present(id)' /\ restarts' = restarts =>
            /\ devices'[id].declares = devices[id].declares /\ devices'[id].room = devices[id].room
            /\ devices'[id].version >= devices[id].version]_vars
    BY KeepsStep DEF Present
  <1> QED
    BY <1>1, TypeCorrect, PTL DEF Spec, KeptAsRegistered
=============================================================================
