------------------------------ MODULE AppProofs ------------------------------
(***************************************************************************)
(* Proofs about the app.  GatewayLink: its type invariant, and that a link *)
(* whose connects and closes are not overtaken is watched while it is      *)
(* ONLINE and leaves no socket behind.  AppCommands, from the line on, for *)
(* any number of commands and devices: the pending devices are those whose *)
(* command is under way, one command each.                                 *)
(***************************************************************************)
EXTENDS GatewayLink, AppCommands, SequenceTheorems, TLAPS

States == {"disconnected", "authenticating", "connecting", "online", "closed"}
Steps  == {"unused", "closing", "handshake", "resolved", "rejected", "throwing", "done"}

LEMMA InitTypes == Init => TypeOK
  <1> SUFFICES ASSUME Init PROVE TypeOK
    OBVIOUS
  <1>1. session \in BOOLEAN /\ launched \in BOOLEAN
    BY Zenon DEF Init
  <1>2. /\ ws \in [Attempt -> {"none", "opening", "open", "closed"}]
        /\ pc \in [Attempt -> Steps]
        /\ caller \in [Attempt -> {"nobody", "initialize", "pairGateway", "reconnect"}]
    BY DEF Init, Steps
  <1> QED
    BY <1>1, <1>2 DEF Init, TypeOK, Steps

LEMMA BeginTypes ==
  ASSUME TypeOK, NEW c \in Attempt, NEW by \in {"initialize", "pairGateway", "reconnect"},
         Begin(c, by)
  PROVE  /\ pc' \in [Attempt -> Steps] /\ socket' \in Attempt \cup {None}
         /\ ws' \in [Attempt -> {"none", "opening", "open", "closed"}]
         /\ closedByUser' \in BOOLEAN /\ reported' \in BOOLEAN /\ state' \in States
         /\ caller' \in [Attempt -> {"nobody", "initialize", "pairGateway", "reconnect"}]
         /\ monitor' = monitor /\ silent' = silent
  <1>1. /\ pc' \in [Attempt -> Steps]
        /\ caller' \in [Attempt -> {"nobody", "initialize", "pairGateway", "reconnect"}]
    BY DEF TypeOK, Begin, Connect, Steps
  <1>2. /\ socket' \in Attempt \cup {None}
        /\ ws' \in [Attempt -> {"none", "opening", "open", "closed"}]
    BY DEF TypeOK, Begin, Connect, CloseSocket
  <1>3. closedByUser' \in BOOLEAN /\ reported' \in BOOLEAN
    BY Zenon DEF TypeOK, Begin, Connect, CloseSocket
  <1>4. state' \in States /\ monitor' = monitor /\ silent' = silent
    BY DEF TypeOK, Begin, Connect, CloseSocket, States
  <1> QED
    BY <1>1, <1>2, <1>3, <1>4

LEMMA CloseSocketTypes ==
  TypeOK /\ CloseSocket => /\ socket' \in Attempt \cup {None}
                           /\ ws' \in [Attempt -> {"none", "opening", "open", "closed"}]
  BY DEF TypeOK, CloseSocket

LEMMA UnexpectedTypes ==
  ASSUME TypeOK, NEW caught, Unexpected(caught)
  PROVE  /\ reported' \in BOOLEAN /\ monitor' \in BOOLEAN
         /\ state' \in States /\ pairingRequired' \in BOOLEAN
  <1>1. reported' \in BOOLEAN /\ monitor' \in BOOLEAN
    BY Zenon DEF TypeOK, Unexpected
  <1> QED
    BY <1>1 DEF TypeOK, Unexpected, States

(* The steps of a connect(). *)
LEMMA ConnectTypes ==
  ASSUME TypeOK, NEW c \in Attempt,
         Closed(c) \/ Accepted(c) \/ Refused(c) \/ Up(c) \/ Down(c) \/ Thrown(c)
  PROVE  TypeOK'
  <1> USE DEF transport, manager, ending
  <1>1. CASE Closed(c)
    BY <1>1 DEF Closed, Connect, TypeOK
  <1>2. CASE Accepted(c) \/ Refused(c)
    BY <1>2 DEF Accepted, Refused, TypeOK
  <1>3. CASE Up(c)
    BY <1>3 DEF Up, TypeOK
  <1>4. CASE Down(c)
    <2>1. busy' \in BOOLEAN /\ pc' \in [Attempt -> Steps]
      BY <1>4 DEF Down, TypeOK, Steps
    <2>2. /\ reported' \in BOOLEAN /\ monitor' \in BOOLEAN
          /\ state' \in States /\ pairingRequired' \in BOOLEAN
      BY <1>4, UnexpectedTypes DEF Down
    <2>3. CloseSocket
      BY <1>4 DEF Down
    <2> QED
      BY <1>4, <2>1, <2>2, <2>3, CloseSocketTypes DEF Down, TypeOK, Steps, States
  <1>5. CASE Thrown(c)
    <2>1. busy' \in BOOLEAN
      BY <1>5 DEF Thrown
    <2>2. state' \in States /\ pairingRequired' \in BOOLEAN
      BY <1>5 DEF Thrown, TypeOK, States
    <2> QED
      BY <1>5, <2>1, <2>2 DEF Thrown, TypeOK, States
  <1> QED
    BY <1>1, <1>2, <1>3, <1>4, <1>5

LEMMA CloseTypes ==
  TypeOK /\ Close => /\ socket' \in Attempt \cup {None} /\ closedByUser' \in BOOLEAN
                     /\ ws' \in [Attempt -> {"none", "opening", "open", "closed"}]
                     /\ reported' \in BOOLEAN /\ monitor' \in BOOLEAN
                     /\ pc' = pc /\ caller' = caller /\ silent' = silent
                     /\ launched' = launched
  BY CloseSocketTypes DEF Close

LEMMA OvertakesTypes == TypeOK /\ Overtakes => disturbed' \in BOOLEAN
  BY Zenon DEF TypeOK, Overtakes

LEMMA InvalidateTypes ==
  TypeOK /\ Invalidate /\ expired' = expired /\ endings' \in Nat => TypeOK'
  <1> SUFFICES ASSUME TypeOK, Invalidate, expired' = expired, endings' \in Nat PROVE TypeOK'
    OBVIOUS
  <1>1. Close /\ disturbed' \in BOOLEAN
    BY OvertakesTypes DEF Invalidate
  <1>2. closers' \in Nat
    BY DEF Invalidate, TypeOK
  <1>3. /\ session' = FALSE /\ pairingRequired' = TRUE /\ state' = "disconnected"
        /\ busy' = busy /\ forgetting' = forgetting
    BY DEF Invalidate
  <1> QED
    BY <1>1, <1>2, <1>3, CloseTypes DEF TypeOK

(* The steps of the user, of the pairing and of the end of a session. *)
LEMMA CallTypes ==
  ASSUME TypeOK, NEW c \in Attempt, Launch(c) \/ Paired(c) \/ Reconnect(c) \/ Lose(c)
  PROVE  TypeOK'
  <1> USE DEF transport, manager, ending
  <1>1. CASE Launch(c)
    BY <1>1, BeginTypes, OvertakesTypes DEF Launch, TypeOK, States, Steps
  <1>2. CASE Paired(c)
    <2>1. disturbed' \in BOOLEAN
      BY <1>2, Zenon DEF Paired, TypeOK
    <2> QED
      BY <1>2, <2>1, BeginTypes DEF Paired, TypeOK, States, Steps
  <1>3. CASE Reconnect(c)
    BY <1>3, BeginTypes, OvertakesTypes DEF Reconnect, TypeOK, States, Steps
  <1>4. CASE Lose(c)
    BY <1>4 DEF Lose, TypeOK
  <1> QED
    BY <1>1, <1>2, <1>3, <1>4

LEMMA StepTypes == TypeOK /\ [Next]_vars => TypeOK'
  <1> SUFFICES ASSUME TypeOK, [Next]_vars PROVE TypeOK'
    OBVIOUS
  <1> USE DEF transport, attempts, manager, ending
  <1>1. CASE Pair \/ PairRefused \/ ReconnectUnpaired
    <2>1. disturbed' \in BOOLEAN
      BY <1>1, OvertakesTypes DEF Pair, PairRefused, ReconnectUnpaired, TypeOK
    <2>2. CASE Pair
      BY <2>1, <2>2 DEF Pair, TypeOK
    <2>3. CASE PairRefused
      BY <2>3 DEF PairRefused, TypeOK
    <2>4. CASE ReconnectUnpaired
      BY <2>4 DEF ReconnectUnpaired, TypeOK
    <2> QED
      BY <1>1, <2>2, <2>3, <2>4
  <1>2. CASE Forget
    <2>1. Close /\ disturbed' \in BOOLEAN
      BY <1>2, OvertakesTypes DEF Forget
    <2>2. forgetting' = "closing" /\ endings' \in Nat
      BY <1>2 DEF Forget, TypeOK
    <2> QED
      BY <1>2, <2>1, <2>2, CloseTypes DEF Forget, TypeOK
  <1>3. CASE Forgotten \/ CloseEnds
    <2>1. CASE Forgotten
      <3>1. /\ session' \in BOOLEAN /\ pairingRequired' \in BOOLEAN
            /\ state' \in States /\ forgetting' \in {"no", "closing", "clearing"}
        BY <2>1 DEF Forgotten, TypeOK, States
      <3> QED
        BY <2>1, <3>1 DEF Forgotten, TypeOK, States
    <2>2. CASE CloseEnds
      <3>1. closers' \in Nat
        BY <2>2 DEF CloseEnds, TypeOK
      <3> QED
        BY <2>2, <3>1 DEF CloseEnds, TypeOK
    <2> QED
      BY <1>3, <2>1, <2>2
  <1>4. CASE Unauthorised
    BY <1>4, InvalidateTypes DEF Unauthorised, TypeOK
  <1>5. CASE OnClose \/ Beat
    <2>1. /\ reported' \in BOOLEAN /\ monitor' \in BOOLEAN
          /\ state' \in States /\ pairingRequired' \in BOOLEAN
      BY <1>5, UnexpectedTypes DEF OnClose, Beat
    <2>2. CloseSocket
      BY <1>5 DEF OnClose, Beat
    <2>3. disturbed' \in BOOLEAN
      BY <1>5, Zenon DEF OnClose, Beat, TypeOK
    <2> QED
      BY <1>5, <2>1, <2>2, <2>3, CloseSocketTypes DEF OnClose, Beat, TypeOK, States
  <1>6. CASE BeatExpired
    <2>1. CASE closedByUser \/ reported
      <3>1. CloseSocket
        BY <1>6, <2>1 DEF BeatExpired
      <3>2. UNCHANGED <<closedByUser, reported, monitor, silent, pc, caller, state,
                        pairingRequired, session, busy, forgetting, closers,
                        endings, launched, expired, disturbed>>
        BY <1>6, <2>1 DEF BeatExpired
      <3> QED
        BY <3>1, <3>2, CloseSocketTypes DEF TypeOK
    <2>2. CASE ~(closedByUser \/ reported)
      <3>1. Invalidate /\ expired' = expired /\ endings' = endings
        BY <1>6, <2>2 DEF BeatExpired
      <3> QED
        BY <3>1, InvalidateTypes DEF TypeOK
    <2> QED
      BY <2>1, <2>2
  <1>7. CASE Quieten \/ Expire
    <2>1. CASE Quieten
      BY <2>1 DEF Quieten, TypeOK
    <2>2. CASE Expire
      BY <2>2 DEF Expire, TypeOK
    <2> QED
      BY <1>7, <2>1, <2>2
  <1>8. CASE UNCHANGED vars
    BY <1>8 DEF vars, TypeOK
  <1> QED
    BY <1>1, <1>2, <1>3, <1>4, <1>5, <1>6, <1>7, <1>8, ConnectTypes, CallTypes
       DEF Next, Continue, Timer, Settle

(* Every reachable state of the transport and of the manager has its type. *)
THEOREM TypeCorrect == Spec => []TypeOK
  BY InitTypes, StepTypes, PTL DEF Spec

-----------------------------------------------------------------------------
Undisturbed == OneAtATime /\ SocketInUse /\ OnlineThen

LEMMA InitLink == Init => LinkInv
  <1> SUFFICES ASSUME Init PROVE LinkInv
    OBVIOUS
  <1>1. UnderWay = {}
    BY DEF Init, UnderWay
  <1>2. \A c \in Attempt : ws[c] = "none" /\ pc[c] = "unused"
    BY DEF Init
  <1> QED
    BY <1>1, <1>2 DEF Init, LinkInv, Unlaunched, OneAtATime, SocketInUse, OnlineThen

(* connect() goes on after closing: one attempt is under way, as before. *)
LEMMA ClosedLink ==
  ASSUME TypeOK, LinkInv, NEW c \in Attempt, Closed(c)
  PROVE  LinkInv'
  <1>1. /\ pc[c] = "closing" /\ c \in UnderWay
        /\ pc' = [pc EXCEPT ![c] = "handshake"] /\ ws' = [ws EXCEPT ![c] = "opening"]
        /\ socket' = c /\ state' = "connecting"
        /\ closedByUser' = FALSE /\ reported' = FALSE
        /\ caller' = caller /\ monitor' = monitor /\ session' = session /\ busy' = busy
        /\ pairingRequired' = pairingRequired /\ forgetting' = forgetting
        /\ closers' = closers /\ launched' = launched /\ disturbed' = disturbed
    BY DEF Closed, Connect, ending, UnderWay
  <1>2. UnderWay' = UnderWay
    BY <1>1 DEF UnderWay, TypeOK
  <1>3. Unlaunched'
    BY <1>1 DEF LinkInv, Unlaunched
  <1>4. ASSUME ~disturbed PROVE Undisturbed'
    <2>0. OneAtATime /\ SocketInUse /\ OnlineThen
      BY <1>4 DEF LinkInv
    <2>1. OneAtATime'
      BY <1>1, <1>2, <2>0 DEF OneAtATime
    <2>2. \A d \in Attempt : d # c => pc[d] \in {"unused", "done"}
      BY <1>1, <2>0 DEF OneAtATime, UnderWay
    <2>3. session /\ socket = None
      BY <1>1, <2>0 DEF SocketInUse
    <2>4. \A d \in Attempt : ws[d] \notin {"open", "opening"}
      BY <2>0, <2>3 DEF SocketInUse, None, Attempt
    <2>5. SocketInUse'
      BY <1>1, <2>2, <2>3, <2>4 DEF SocketInUse, TypeOK
    <2>6. OnlineThen'
      BY <1>1, <2>0 DEF OnlineThen
    <2> QED
      BY <2>1, <2>5, <2>6 DEF Undisturbed
  <1> QED
    BY <1>1, <1>3, <1>4 DEF LinkInv, Undisturbed

(* The answer of the network. *)
LEMMA SettleLink ==
  ASSUME TypeOK, LinkInv, NEW c \in Attempt, Accepted(c) \/ Refused(c)
  PROVE  LinkInv'
  <1>1. /\ pc[c] = "handshake" /\ c \in UnderWay
        /\ \/ /\ ws[c] = "opening"
              /\ pc' = [pc EXCEPT ![c] = "resolved"] /\ ws' = [ws EXCEPT ![c] = "open"]
           \/ pc' = [pc EXCEPT ![c] = "rejected"] /\ ws' = [ws EXCEPT ![c] = "closed"]
        /\ socket' = socket /\ state' = state
        /\ closedByUser' = closedByUser /\ reported' = reported
        /\ caller' = caller /\ monitor' = monitor /\ session' = session /\ busy' = busy
        /\ pairingRequired' = pairingRequired /\ forgetting' = forgetting
        /\ closers' = closers /\ launched' = launched /\ disturbed' = disturbed
    BY DEF Accepted, Refused, transport, manager, ending, UnderWay
  <1>2. UnderWay' = UnderWay
    BY <1>1 DEF UnderWay, TypeOK
  <1>3. Unlaunched'
    BY <1>1 DEF LinkInv, Unlaunched
  <1>4. ASSUME ~disturbed PROVE Undisturbed'
    <2>0. OneAtATime /\ SocketInUse /\ OnlineThen
      BY <1>4 DEF LinkInv
    <2>1. OneAtATime'
      BY <1>1, <1>2, <2>0 DEF OneAtATime
    <2>2. SocketInUse'
      BY <1>1, <2>0 DEF SocketInUse, TypeOK
    <2>3. OnlineThen'
      BY <1>1, <1>2, <2>0 DEF OnlineThen, Watched
    <2> QED
      BY <2>1, <2>2, <2>3 DEF Undisturbed
  <1> QED
    BY <1>1, <1>3, <1>4 DEF LinkInv, Undisturbed

(* ONLINE: nothing has taken the socket or raised a flag meanwhile. *)
LEMMA UpLink ==
  ASSUME TypeOK, LinkInv, NEW c \in Attempt, Up(c)
  PROVE  LinkInv'
  <1>1. /\ pc[c] = "resolved" /\ c \in UnderWay
        /\ pc' = [pc EXCEPT ![c] = "done"] /\ ws' = ws
        /\ socket' = socket /\ state' = "online"
        /\ closedByUser' = closedByUser /\ reported' = reported
        /\ caller' = caller /\ monitor' = TRUE /\ session' = session
        /\ pairingRequired' = FALSE /\ forgetting' = forgetting
        /\ closers' = closers /\ launched' = launched /\ disturbed' = disturbed
        /\ busy' = (busy /\ caller[c] # "pairGateway")
    BY DEF Up, ending, UnderWay
  <1>2. Unlaunched'
    BY <1>1 DEF LinkInv, Unlaunched
  <1>3. ASSUME ~disturbed PROVE Undisturbed'
    <2>0. OneAtATime /\ SocketInUse /\ OnlineThen
      BY <1>3 DEF LinkInv
    <2>1. \A d \in UnderWay : d = c
      BY <1>1, <2>0 DEF OneAtATime
    <2>2. UnderWay' = {}
      BY <1>1, <2>1 DEF UnderWay, TypeOK
    <2>3. socket = c /\ ~reported /\ ~closedByUser /\ session
      BY <1>1, <2>0 DEF SocketInUse
    <2>4. ~busy'
      BY <1>1, <2>0 DEF OneAtATime
    <2>5. OneAtATime'
      BY <1>1, <2>2, <2>3, <2>4 DEF OneAtATime
    <2>6. SocketInUse'
      BY <1>1, <2>0, <2>1 DEF SocketInUse, TypeOK, UnderWay
    <2>7. OnlineThen'
      BY <1>1, <2>3, <2>4 DEF OnlineThen, Watched, None, Attempt
    <2> QED
      BY <2>5, <2>6, <2>7 DEF Undisturbed
  <1> QED
    BY <1>1, <1>2, <1>3 DEF LinkInv, Undisturbed

(* After closeSocketOnly no socket is in use. *)
LEMMA ClosedSocket ==
  ASSUME TypeOK, SocketInUse, CloseSocket
  PROVE  socket' = None /\ \A d \in Attempt : ws'[d] \notin {"open", "opening"}
  BY DEF CloseSocket, SocketInUse, TypeOK

(* A loss may not be reported only when the pages have left ONLINE. *)
LEMMA LossEndsOnline ==
  ASSUME TypeOK, OnlineThen, NEW caught, Unexpected(caught), UnderWay = {},
         forgetting = "no", closers = 0
  PROVE  state' # "online"
  BY DEF OnlineThen, Watched, Unexpected, Quietly

LEMMA DownLink ==
  ASSUME TypeOK, LinkInv, NEW c \in Attempt, Down(c)
  PROVE  LinkInv'
  <1>1. /\ pc[c] = "rejected" /\ c \in UnderWay /\ CloseSocket
        /\ \/ pc' = [pc EXCEPT ![c] = "done"] /\ (busy' => caller[c] # "pairGateway")
           \/ pc' = [pc EXCEPT ![c] = "throwing"]
        /\ (busy' => busy)
        /\ state' = state \/ state' = "disconnected"
        /\ pairingRequired' = pairingRequired \/ pairingRequired' = TRUE
        /\ caller' = caller /\ session' = session /\ forgetting' = forgetting
        /\ closers' = closers /\ launched' = launched /\ disturbed' = disturbed
    BY DEF Down, Unexpected, ending, UnderWay
  <1>2. Unlaunched'
    BY <1>1 DEF LinkInv, Unlaunched
  <1>3. ASSUME ~disturbed PROVE Undisturbed'
    <2>0. OneAtATime /\ SocketInUse /\ OnlineThen
      BY <1>3 DEF LinkInv
    <2>1. \A d \in Attempt : d # c => pc[d] \in {"unused", "done"}
      BY <1>1, <2>0 DEF OneAtATime, UnderWay
    <2>2. socket' = None /\ \A d \in Attempt : ws'[d] \notin {"open", "opening"}
      BY <1>1, <2>0, ClosedSocket
    <2>3. state' # "online"
      BY <1>1, <2>0 DEF SocketInUse
    <2>4. UnderWay' \subseteq UnderWay /\ (busy' => \A d \in UnderWay' : caller[d] = "pairGateway")
      BY <1>1, <2>0 DEF OneAtATime, UnderWay, TypeOK
    <2>5. forgetting = "no" /\ closers = 0 /\ (~pairingRequired => session)
      BY <1>1, <2>0 DEF OneAtATime
    <2>6. OneAtATime'
      BY <1>1, <2>0, <2>4, <2>5 DEF OneAtATime
    <2>7. SocketInUse'
      BY <1>1, <2>1, <2>2, <2>3 DEF SocketInUse, TypeOK
    <2> QED
      BY <2>3, <2>6, <2>7 DEF Undisturbed, OnlineThen
  <1> QED
    BY <1>1, <1>2, <1>3 DEF LinkInv, Undisturbed

LEMMA ThrownLink ==
  ASSUME TypeOK, LinkInv, NEW c \in Attempt, Thrown(c)
  PROVE  LinkInv'
  <1>1. /\ pc[c] = "throwing" /\ c \in UnderWay /\ pc' = [pc EXCEPT ![c] = "done"]
        /\ busy' => busy /\ caller[c] # "pairGateway"
        /\ state' = state \/ state' = "disconnected"
        /\ pairingRequired' = pairingRequired \/ pairingRequired' = TRUE
        /\ ws' = ws /\ socket' = socket /\ closedByUser' = closedByUser
        /\ reported' = reported /\ monitor' = monitor
        /\ caller' = caller /\ session' = session /\ forgetting' = forgetting
        /\ closers' = closers /\ launched' = launched /\ disturbed' = disturbed
    BY DEF Thrown, transport, ending, UnderWay
  <1>2. Unlaunched'
    BY <1>1 DEF LinkInv, Unlaunched
  <1>3. ASSUME ~disturbed PROVE Undisturbed'
    <2>0. OneAtATime /\ SocketInUse /\ OnlineThen
      BY <1>3 DEF LinkInv
    <2>1. UnderWay' = {}
      BY <1>1, <2>0 DEF OneAtATime, UnderWay, TypeOK
    <2>2. state' # "online"
      BY <1>1, <2>0 DEF SocketInUse
    <2>3. ~busy' /\ (~pairingRequired' => session')
      BY <1>1, <2>0 DEF OneAtATime
    <2>4. OneAtATime'
      BY <2>1, <2>3 DEF OneAtATime
    <2>5. SocketInUse'
      BY <1>1, <2>0, <2>2 DEF SocketInUse, TypeOK
    <2> QED
      BY <2>2, <2>4, <2>5 DEF Undisturbed, OnlineThen
  <1> QED
    BY <1>1, <1>2, <1>3 DEF LinkInv, Undisturbed

(* An undisturbed connect() begins when nothing else is under way. *)
LEMMA BeginLink ==
  ASSUME TypeOK, OneAtATime, SocketInUse, OnlineThen,
         NEW c \in Attempt, NEW by \in {"initialize", "pairGateway", "reconnect"}, Begin(c, by),
         UnderWay = {}, forgetting = "no", closers = 0, busy => by = "pairGateway",
         session', busy' = busy, forgetting' = forgetting, closers' = closers
  PROVE  Undisturbed'
  <1>1. /\ caller' = [caller EXCEPT ![c] = by]
        /\ \/ /\ socket = None /\ pc' = [pc EXCEPT ![c] = "handshake"] /\ Connect(c)
           \/ pc' = [pc EXCEPT ![c] = "closing"] /\ CloseSocket /\ state' = state
    BY DEF Begin, Connect
  <1>2. UnderWay' = {c}
    BY <1>1 DEF UnderWay, TypeOK
  <1>3. \A d \in Attempt : pc[d] \in {"unused", "done"}
    BY DEF UnderWay
  <1>4. caller'[c] = by
    BY <1>1 DEF TypeOK
  <1>5. OneAtATime'
    BY <1>2, <1>4 DEF OneAtATime
  <1>6. CASE socket = None /\ pc' = [pc EXCEPT ![c] = "handshake"] /\ Connect(c)
    <2>1. \A d \in Attempt : ws[d] \notin {"open", "opening"}
      BY <1>6 DEF SocketInUse, None, Attempt
    <2>2. SocketInUse'
      BY <1>3, <1>6, <2>1 DEF SocketInUse, Connect, TypeOK
    <2>3. OnlineThen'
      BY <1>6 DEF OnlineThen, Connect
    <2> QED
      BY <1>5, <2>2, <2>3 DEF Undisturbed
  <1>7. CASE pc' = [pc EXCEPT ![c] = "closing"] /\ CloseSocket /\ state' = state
    <2>1. socket' = None /\ \A d \in Attempt : ws'[d] \notin {"open", "opening"}
      BY <1>7, ClosedSocket
    <2>2. SocketInUse'
      BY <1>3, <1>7, <2>1 DEF SocketInUse, TypeOK
    <2>3. OnlineThen'
      BY <1>2, <1>7 DEF OnlineThen
    <2> QED
      BY <1>5, <2>2, <2>3 DEF Undisturbed
  <1> QED
    BY <1>1, <1>6, <1>7

LEMMA CallLink ==
  ASSUME TypeOK, LinkInv, NEW c \in Attempt, Launch(c) \/ Paired(c) \/ Reconnect(c)
  PROVE  LinkInv'
  <1>1. Unlaunched'
    <2>1. CASE Launch(c)
      BY <2>1 DEF Launch, Unlaunched
    <2>2. CASE Paired(c)
      BY <2>2 DEF Paired, LinkInv, Unlaunched
    <2>3. CASE Reconnect(c)
      BY <2>3 DEF Reconnect, Unlaunched
    <2> QED
      BY <2>1, <2>2, <2>3
  <1>2. ASSUME ~disturbed' PROVE Undisturbed'
    <2>1. CASE Launch(c)
      <3>1. ~disturbed /\ ~Occupied
        BY <1>2, <2>1 DEF Launch, Overtakes
      <3>2. /\ Begin(c, "initialize") /\ session' = session /\ busy' = busy
            /\ forgetting' = forgetting /\ closers' = closers /\ ~launched
        BY <2>1 DEF Launch, ending
      <3>3. OneAtATime /\ SocketInUse /\ OnlineThen /\ session
        BY <3>1, <3>2 DEF LinkInv, Unlaunched
      <3>4. UnderWay = {} /\ forgetting = "no" /\ closers = 0 /\ ~busy
        BY <3>1 DEF Occupied, TypeOK
      <3> QED
        BY <3>2, <3>3, <3>4, BeginLink
    <2>2. CASE Paired(c)
      <3>1. ~disturbed /\ UnderWay = {} /\ forgetting = "no" /\ closers = 0
        <4>1. ~(disturbed \/ UnderWay # {} \/ forgetting # "no" \/ closers > 0)
          BY <1>2, <2>2, Zenon DEF Paired
        <4> QED
          BY <4>1 DEF TypeOK
      <3>2. /\ Begin(c, "pairGateway") /\ session' = TRUE /\ busy' = busy
            /\ forgetting' = forgetting /\ closers' = closers
        BY <2>2 DEF Paired, ending
      <3>3. OneAtATime /\ SocketInUse /\ OnlineThen
        BY <3>1 DEF LinkInv
      <3> QED
        BY <3>1, <3>2, <3>3, BeginLink
    <2>3. CASE Reconnect(c)
      <3>1. ~disturbed /\ ~Occupied
        BY <1>2, <2>3 DEF Reconnect, Overtakes
      <3>2. /\ Begin(c, "reconnect") /\ session' = session /\ busy' = busy
            /\ forgetting' = forgetting /\ closers' = closers /\ session
        BY <2>3 DEF Reconnect, ending
      <3>3. OneAtATime /\ SocketInUse /\ OnlineThen
        BY <3>1 DEF LinkInv
      <3>4. UnderWay = {} /\ forgetting = "no" /\ closers = 0 /\ ~busy
        BY <3>1 DEF Occupied, TypeOK
      <3> QED
        BY <3>2, <3>3, <3>4, BeginLink
    <2> QED
      BY <2>1, <2>2, <2>3
  <1> QED
    BY <1>1, <1>2 DEF LinkInv, Undisturbed

(* The pairing page: what it starts is known to be alone. *)
LEMMA PairLink ==
  ASSUME TypeOK, LinkInv, Pair \/ PairRefused \/ ReconnectUnpaired
  PROVE  LinkInv'
  <1> USE DEF transport, attempts, ending
  <1>1. /\ pc' = pc /\ ws' = ws /\ caller' = caller /\ socket' = socket
        /\ closedByUser' = closedByUser /\ reported' = reported /\ monitor' = monitor
        /\ session' = session /\ forgetting' = forgetting /\ closers' = closers
        /\ launched' = launched
    BY DEF Pair, PairRefused, ReconnectUnpaired
  <1>2. /\ Pair => launched /\ busy' = TRUE /\ state' = "authenticating"
                   /\ pairingRequired' = pairingRequired
        /\ PairRefused => busy' = FALSE /\ state' = "disconnected" /\ pairingRequired' = TRUE
        /\ ReconnectUnpaired => /\ ~pairingRequired /\ ~session /\ busy' = busy
                                /\ pairingRequired' = TRUE
    BY DEF Pair, PairRefused, ReconnectUnpaired
  <1>3. UnderWay' = UnderWay
    BY <1>1 DEF UnderWay
  <1>4. Unlaunched'
    BY <1>1, <1>2 DEF LinkInv, Unlaunched
  <1>5. ASSUME ~disturbed' PROVE Undisturbed'
    <2>1. CASE Pair
      <3>1. ~disturbed /\ ~Occupied
        BY <1>5, <2>1 DEF Pair, Overtakes
      <3>2. UnderWay = {} /\ forgetting = "no" /\ closers = 0
        BY <3>1 DEF Occupied, TypeOK
      <3>3. OneAtATime /\ SocketInUse
        BY <3>1 DEF LinkInv
      <3>4. OneAtATime'
        BY <1>1, <1>2, <1>3, <2>1, <3>2, <3>3 DEF OneAtATime
      <3>5. SocketInUse'
        BY <1>1, <1>2, <2>1, <3>3 DEF SocketInUse
      <3> QED
        BY <1>2, <2>1, <3>4, <3>5 DEF Undisturbed, OnlineThen
    <2>2. CASE PairRefused
      <3>1. ~disturbed
        BY <1>5, <2>2 DEF PairRefused
      <3>2. OneAtATime /\ SocketInUse
        BY <3>1 DEF LinkInv
      <3>3. OneAtATime'
        BY <1>1, <1>2, <1>3, <2>2, <3>2 DEF OneAtATime
      <3>4. SocketInUse'
        BY <1>1, <1>2, <2>2, <3>2 DEF SocketInUse
      <3> QED
        BY <1>2, <2>2, <3>3, <3>4 DEF Undisturbed, OnlineThen
    <2>3. CASE ReconnectUnpaired
      BY <1>2, <1>5, <2>3 DEF ReconnectUnpaired, LinkInv, OneAtATime
    <2> QED
      BY <2>1, <2>2, <2>3
  <1> QED
    BY <1>4, <1>5 DEF LinkInv, Undisturbed

(* close() when nothing is under way. *)
LEMMA CloseLink ==
  ASSUME TypeOK, OneAtATime, SocketInUse, Close, UnderWay = {}, ~busy, busy' = busy,
         ~pairingRequired' => session'
  PROVE  OneAtATime' /\ SocketInUse' /\ UnderWay' = {} /\ ~busy'
  <1>1. pc' = pc /\ CloseSocket
    BY DEF Close
  <1>2. UnderWay' = {}
    BY <1>1 DEF UnderWay
  <1>3. \A d \in Attempt : pc[d] \in {"unused", "done"}
    BY DEF UnderWay
  <1>4. socket' = None /\ \A d \in Attempt : ws'[d] \notin {"open", "opening"}
    BY <1>1, ClosedSocket
  <1>5. OneAtATime'
    BY <1>2 DEF OneAtATime
  <1>6. SocketInUse'
    BY <1>1, <1>3, <1>4 DEF SocketInUse
  <1> QED
    BY <1>2, <1>5, <1>6

LEMMA InvalidateLink ==
  ASSUME TypeOK, LinkInv, Invalidate, launched
  PROVE  LinkInv'
  <1>1. /\ session' = FALSE /\ pairingRequired' = TRUE /\ state' = "disconnected" /\ Close
        /\ Overtakes /\ busy' = busy /\ launched' = launched
    BY DEF Invalidate, Close
  <1>2. ASSUME ~disturbed' PROVE Undisturbed'
    <2>1. ~disturbed /\ ~Occupied
      BY <1>1, <1>2 DEF Overtakes
    <2>2. UnderWay = {} /\ ~busy /\ OneAtATime /\ SocketInUse
      BY <2>1 DEF Occupied, LinkInv
    <2>3. OneAtATime' /\ SocketInUse' /\ ~busy'
      BY <1>1, <2>2, CloseLink
    <2> QED
      BY <1>1, <2>3 DEF Undisturbed, OnlineThen
  <1> QED
    BY <1>1, <1>2 DEF LinkInv, Undisturbed, Unlaunched

LEMMA ForgetLink ==
  ASSUME TypeOK, LinkInv, Forget
  PROVE  LinkInv'
  <1>1. /\ launched /\ forgetting' = "closing" /\ Close /\ Overtakes /\ launched' = launched
        /\ busy' = busy /\ session' = session /\ pairingRequired' = pairingRequired
    BY DEF Forget, Close, manager
  <1>2. ASSUME ~disturbed' PROVE Undisturbed'
    <2>1. ~disturbed /\ ~Occupied
      BY <1>1, <1>2 DEF Overtakes
    <2>2. UnderWay = {} /\ ~busy /\ OneAtATime /\ SocketInUse
      BY <2>1 DEF Occupied, LinkInv
    <2>3. ~pairingRequired' => session'
      BY <1>1, <2>2 DEF OneAtATime
    <2>4. OneAtATime' /\ SocketInUse' /\ ~busy'
      BY <1>1, <2>2, <2>3, CloseLink
    <2> QED
      BY <1>1, <2>4 DEF Undisturbed, OnlineThen
  <1> QED
    BY <1>1, <1>2 DEF LinkInv, Undisturbed, Unlaunched

(* What ends leaves ONLINE behind. *)
LEMMA EndLink ==
  ASSUME TypeOK, LinkInv, Forgotten \/ CloseEnds
  PROVE  LinkInv'
  <1>1. /\ pc' = pc /\ ws' = ws /\ caller' = caller /\ socket' = socket
        /\ closedByUser' = closedByUser /\ reported' = reported /\ monitor' = monitor
        /\ busy' = busy /\ launched' = launched /\ disturbed' = disturbed
        /\ state' # "online"
        /\ forgetting # "no" \/ closers # 0
    BY DEF Forgotten, CloseEnds, transport, attempts
  <1>2. (session' = session /\ pairingRequired' = pairingRequired) \/ pairingRequired' = TRUE
    BY DEF Forgotten, CloseEnds
  <1>3. Unlaunched'
    BY <1>1 DEF LinkInv, Unlaunched
  <1>4. ASSUME ~disturbed PROVE Undisturbed'
    <2>1. OneAtATime /\ SocketInUse /\ OnlineThen
      BY <1>4 DEF LinkInv
    <2>2. UnderWay = {} /\ ~busy
      BY <1>1, <2>1 DEF OneAtATime
    <2>3. UnderWay' = {} /\ \A d \in Attempt : pc[d] \in {"unused", "done"}
      BY <1>1, <2>2 DEF UnderWay
    <2>4. OneAtATime'
      BY <1>1, <1>2, <2>1, <2>2, <2>3 DEF OneAtATime
    <2>5. SocketInUse'
      BY <1>1, <2>1, <2>3 DEF SocketInUse
    <2> QED
      BY <1>1, <2>4, <2>5 DEF Undisturbed, OnlineThen
  <1> QED
    BY <1>1, <1>3, <1>4 DEF LinkInv, Undisturbed

(* A loss that is noticed: by its event or by the monitor. *)
LEMMA LossLink ==
  ASSUME TypeOK, LinkInv, OnClose \/ Beat
  PROVE  LinkInv'
  <1>1. /\ Unexpected(FALSE) /\ CloseSocket
        /\ closedByUser' = closedByUser /\ pc' = pc /\ caller' = caller
        /\ session' = session /\ busy' = busy /\ forgetting' = forgetting
        /\ closers' = closers /\ launched' = launched
    BY DEF OnClose, Beat, ending
  <1>2. /\ state' = state \/ state' = "disconnected"
        /\ pairingRequired' = pairingRequired \/ pairingRequired' = TRUE
        /\ pairingRequired => pairingRequired'
        /\ monitor' => monitor
    BY <1>1 DEF Unexpected
  <1>3. Unlaunched'
    <2>1. ASSUME ~launched
          PROVE  /\ session /\ ~monitor /\ ~busy /\ forgetting = "no" /\ closers = 0
                 /\ pairingRequired /\ \A c \in Attempt : pc[c] = "unused"
      BY <2>1 DEF LinkInv, Unlaunched
    <2> QED
      BY <1>1, <1>2, <2>1 DEF Unlaunched
  <1>4. UnderWay' = UnderWay
    BY <1>1 DEF UnderWay
  <1>5. ASSUME ~disturbed' PROVE Undisturbed'
    <2>1. ~disturbed /\ (Beat => UnderWay = {})
      <3>1. CASE OnClose /\ ~Beat
        BY <1>5, <3>1 DEF OnClose
      <3>2. CASE Beat
        BY <1>5, <3>2, Zenon DEF Beat
      <3> QED
        BY <3>1, <3>2
    <2>2. OneAtATime /\ SocketInUse /\ OnlineThen
      BY <2>1 DEF LinkInv
    <2>3. \A d \in Attempt : pc[d] \notin {"handshake", "resolved"}
      <3>1. CASE Beat
        BY <2>1, <3>1 DEF UnderWay
      <3>2. CASE OnClose
        BY <2>2, <3>2 DEF OnClose, SocketInUse
      <3> QED
        BY <3>1, <3>2
    <2>4. socket' = None /\ \A d \in Attempt : ws'[d] \notin {"open", "opening"}
      BY <1>1, <2>2, ClosedSocket
    <2>5. OneAtATime'
      BY <1>1, <1>2, <1>4, <2>2 DEF OneAtATime
    <2>6. SocketInUse'
      BY <1>1, <1>2, <2>2, <2>3, <2>4 DEF SocketInUse
    <2>7. UnderWay = {} /\ forgetting = "no" /\ closers = 0 => state' # "online"
      BY <1>1, <2>2, LossEndsOnline
    <2>8. OnlineThen'
      BY <1>1, <1>2, <1>4, <2>2, <2>7 DEF OnlineThen
    <2> QED
      BY <2>5, <2>6, <2>8 DEF Undisturbed
  <1> QED
    BY <1>3, <1>5 DEF LinkInv, Undisturbed

LEMMA BeatExpiredLink ==
  ASSUME TypeOK, LinkInv, BeatExpired
  PROVE  LinkInv'
  <1>1. monitor /\ launched
    BY DEF BeatExpired, LinkInv, Unlaunched
  <1>2. CASE ~Quietly
    BY <1>1, <1>2, InvalidateLink DEF BeatExpired, Quietly
  <1>3. CASE Quietly
    <2>1. /\ CloseSocket /\ closedByUser' = closedByUser /\ reported' = reported
          /\ monitor' = monitor /\ pc' = pc /\ caller' = caller /\ forgetting' = forgetting
          /\ closers' = closers /\ launched' = launched /\ disturbed' = disturbed
          /\ state' = state /\ pairingRequired' = pairingRequired /\ session' = session
          /\ busy' = busy
      BY <1>3 DEF BeatExpired, Quietly, manager
    <2>2. UnderWay' = UnderWay
      BY <2>1 DEF UnderWay
    <2>3. ASSUME ~disturbed PROVE Undisturbed'
      <3>1. OneAtATime /\ SocketInUse /\ OnlineThen
        BY <2>3 DEF LinkInv
      <3>2. socket' = None /\ \A d \in Attempt : ws'[d] \notin {"open", "opening"}
        BY <2>1, <3>1, ClosedSocket
      <3>3. \A d \in Attempt : pc[d] \notin {"handshake", "resolved"}
        BY <1>3, <3>1 DEF SocketInUse, Quietly
      <3>4. OneAtATime'
        BY <2>1, <2>2, <3>1 DEF OneAtATime
      <3>5. SocketInUse'
        BY <2>1, <3>1, <3>2, <3>3 DEF SocketInUse
      <3>6. OnlineThen'
        BY <1>3, <2>1, <2>2, <3>1 DEF OnlineThen, Watched, Quietly
      <3> QED
        BY <3>4, <3>5, <3>6 DEF Undisturbed
    <2> QED
      BY <1>1, <2>1, <2>3 DEF LinkInv, Undisturbed, Unlaunched
  <1> QED
    BY <1>2, <1>3

(* What the network and the clock do does not touch the fields. *)
LEMMA WorldLink ==
  ASSUME TypeOK, LinkInv,
         (\E c \in Attempt : Lose(c)) \/ Quieten \/ Expire \/ UNCHANGED vars
  PROVE  LinkInv'
  <1>1. /\ pc' = pc /\ caller' = caller /\ socket' = socket
        /\ closedByUser' = closedByUser /\ reported' = reported /\ monitor' = monitor
        /\ session' = session /\ forgetting' = forgetting /\ closers' = closers
        /\ launched' = launched /\ disturbed' = disturbed /\ state' = state
        /\ pairingRequired' = pairingRequired /\ busy' = busy
    BY DEF Lose, Quieten, Expire, vars, transport, attempts, manager, ending
  <1>2. \A d \in Attempt : ws'[d] = ws[d] \/ (ws[d] = "open" /\ ws'[d] = "closed")
    BY DEF Lose, Quieten, Expire, vars, attempts, TypeOK
  <1>3. UnderWay' = UnderWay
    BY <1>1 DEF UnderWay
  <1>4. OneAtATime => OneAtATime'
    BY <1>1, <1>3 DEF OneAtATime
  <1>5. SocketInUse => SocketInUse'
    BY <1>1, <1>2 DEF SocketInUse
  <1>6. OnlineThen => OnlineThen'
    BY <1>1, <1>3 DEF OnlineThen, Watched
  <1>7. Unlaunched => Unlaunched'
    BY <1>1 DEF Unlaunched
  <1> QED
    BY <1>1, <1>4, <1>5, <1>6, <1>7 DEF LinkInv

LEMMA StepLink == TypeOK /\ LinkInv /\ [Next]_vars => LinkInv'
  <1> SUFFICES ASSUME TypeOK, LinkInv, [Next]_vars PROVE LinkInv'
    OBVIOUS
  <1>1. CASE Unauthorised
    BY <1>1, InvalidateLink DEF Unauthorised
  <1>2. CASE \E c \in Attempt : Closed(c) \/ Up(c) \/ Down(c) \/ Thrown(c)
    BY <1>2, ClosedLink, UpLink, DownLink, ThrownLink
  <1>3. CASE \E c \in Attempt : Launch(c) \/ Paired(c) \/ Reconnect(c) \/ Lose(c)
    BY <1>3, CallLink, WorldLink
  <1> QED
    BY <1>1, <1>2, <1>3, ClosedLink, SettleLink, UpLink, DownLink, ThrownLink, CallLink, PairLink,
       ForgetLink, EndLink, LossLink, BeatExpiredLink, WorldLink
       DEF Next, Continue, Timer, Settle

LEMMA LinkInvariant == Spec => [](TypeOK /\ LinkInv)
  BY InitTypes, InitLink, StepTypes, StepLink, PTL DEF Spec

(* The pages show ONLINE over a connection that is watched, as long as no  *)
(* connect or close is overtaken.  The invariant: one thing is under way   *)
(* at a time, so nobody takes the socket or raises a flag before it is up. *)
THEOREM LinkIsWatched == Spec => []OnlineIsWatched
  <1>1. TypeOK /\ LinkInv => OnlineIsWatched
    BY DEF LinkInv, OnlineThen, OnlineIsWatched, Occupied, TypeOK
  <1> QED
    BY <1>1, LinkInvariant, PTL

(* And then every connection is the one the transport knows of. *)
THEOREM NoSocketIsLeft == Spec => []NoStraySocket
  <1>1. LinkInv => NoStraySocket
    BY DEF LinkInv, SocketInUse, NoStraySocket
  <1> QED
    BY <1>1, LinkInvariant, PTL

-----------------------------------------------------------------------------
(* AppCommands. *)

LEMMA CommandsInitTypes == CommandsInit => CommandsTypeOK
  <1> SUFFICES ASSUME CommandsInit PROVE CommandsTypeOK
    OBVIOUS
  <1>1. device \in Seq(Device)
    BY DEF CommandsInit
  <1> QED
    BY <1>1 DEF CommandsInit, CommandsTypeOK

LEMMA SubmitTypes ==
  ASSUME CommandsTypeOK, NEW d \in Device, Submit(d)
  PROVE  CommandsTypeOK'
  <1>1. /\ device' = Append(device, d) /\ Len(device') = Len(device) + 1 /\ device' \in Seq(Device)
        /\ Len(device) \in Nat
    BY DEF CommandsTypeOK, Submit
  <1>2. Commands' = Commands \cup {Len(device) + 1}
    BY <1>1 DEF Commands
  <1>3. /\ pending' \subseteq Device /\ sending' \subseteq Commands'
        /\ unanswered' \subseteq Commands' /\ stale' \subseteq Commands'
    BY <1>2 DEF CommandsTypeOK, Submit
  <1>4. /\ resolved' \subseteq Commands' /\ rejected' \subseteq Commands'
        /\ waiting' \subseteq Commands' /\ coming' \subseteq Commands'
        /\ online' \in BOOLEAN /\ hasSocket' \in BOOLEAN
    BY <1>2 DEF CommandsTypeOK, Submit, link
  <1> QED
    BY <1>1, <1>3, <1>4 DEF CommandsTypeOK

LEMMA Types == CommandsTypeOK /\ [CommandsNext]_commandVars => CommandsTypeOK'
  <1> SUFFICES ASSUME CommandsTypeOK, [CommandsNext]_commandVars PROVE CommandsTypeOK'
    OBVIOUS
  <1> USE DEF Commands, link, sends, answer
  <1>1. ASSUME NEW m \in 1 .. Len(device), SendSettles(m) PROVE CommandsTypeOK'
    BY <1>1 DEF SendSettles, CommandsTypeOK
  <1>2. ASSUME NEW m \in 1 .. Len(device), Sent(m) \/ NotSent(m) PROVE CommandsTypeOK'
    BY <1>2 DEF Sent, NotSent, CommandsTypeOK
  <1>3. ASSUME NEW m \in 1 .. Len(device), Answer(m) PROVE CommandsTypeOK'
    BY <1>3 DEF Answer, CommandsTypeOK
  <1>4. ASSUME NEW m \in 1 .. Len(device), Result(m) PROVE CommandsTypeOK'
    BY <1>4 DEF Result, Finish, CommandsTypeOK
  <1>5. ASSUME NEW m \in 1 .. Len(device), TimeUp(m) PROVE CommandsTypeOK'
    BY <1>5 DEF TimeUp, Finish, CommandsTypeOK
  <1>6. CASE Dial \/ Shown \/ ShutLink
    BY <1>6 DEF Dial, Shown, ShutLink, SocketReplaced, CommandsTypeOK
  <1>7. CASE LinkLost
    BY <1>7 DEF LinkLost, Clear, SocketReplaced, Awaited, CommandsTypeOK
  <1>8. CASE ForgetReleases
    BY <1>8 DEF ForgetReleases, Awaited, CommandsTypeOK
  <1>9. CASE UNCHANGED commandVars
    BY <1>9 DEF commandVars, CommandsTypeOK
  <1> QED
    BY <1>1, <1>2, <1>3, <1>4, <1>5, <1>6, <1>7, <1>8, <1>9, SubmitTypes DEF CommandsNext

(* Every reachable state is well typed. *)
THEOREM CommandsTypeCorrect == CommandsSpec => []CommandsTypeOK
  BY CommandsInitTypes, Types, PTL DEF CommandsSpec

-----------------------------------------------------------------------------
(* What is under way of a device when commands only move ...               *)
LEMMA NothingEnds ==
  ASSUME PendingInv, OnePlace', Awaited' \cup waiting' = Awaited \cup waiting,
         device' = device, pending' = pending, stale' = stale
  PROVE  PendingInv'
  <1>1. \A d \in Device : Underway(d)' = Underway(d)
    BY DEF Underway
  <1> QED
    BY <1>1 DEF PendingInv, StaleTogether, PendingIsUnderway

(* ... and when one of them ends and releases its device.                  *)
LEMMA OneEnds ==
  ASSUME PendingInv, OnePlace', NEW m \in Awaited \cup waiting,
         Awaited' \cup waiting' = (Awaited \cup waiting) \ {m},
         device' = device, pending' = pending \ {device[m]}, stale' = stale
  PROVE  PendingInv'
  <1>1. \A d \in Device : Underway(d)' = Underway(d) \ {m}
    BY DEF Underway
  <1>2. ASSUME NEW d \in Device, d # device[m]
        PROVE  Underway(d)' = Underway(d) /\ (d \in pending' <=> d \in pending)
    BY <1>1, <1>2 DEF Underway
  <1>3. ASSUME NEW d \in Device, d = device[m]
        PROVE  m \in Underway(d) /\ d \notin pending'
    BY <1>3 DEF Underway
  <1>4. StaleTogether'
    BY <1>1 DEF PendingInv, StaleTogether
  <1>5. ASSUME NEW d \in Device, Underway(d)' \cap stale = {}
        PROVE  (d \in pending' <=> Underway(d)' # {}) /\ \A k, n \in Underway(d)' : k = n
    <2>1. CASE d # device[m]
      BY <1>2, <1>5, <2>1 DEF PendingInv, PendingIsUnderway
    <2>2. CASE d = device[m] /\ Underway(d) \cap stale = {}
      <3>1. m \in Underway(d) /\ d \notin pending' /\ \A k, n \in Underway(d) : k = n
        BY <1>3, <2>2 DEF PendingInv, PendingIsUnderway
      <3> QED
        BY <1>1, <3>1
    <2>3. CASE d = device[m] /\ Underway(d) \cap stale # {}
      <3>1. Underway(d) \subseteq stale /\ d \notin pending'
        BY <1>3, <2>3 DEF PendingInv, StaleTogether
      <3> QED
        BY <1>1, <1>5, <3>1
    <2> QED
      BY <2>1, <2>2, <2>3
  <1> QED
    BY <1>4, <1>5 DEF PendingInv, PendingIsUnderway

(* ... and when every device is released: what is left is stale.           *)
LEMMA AllReleased ==
  ASSUME PendingInv, OnePlace', Awaited' \cup waiting' \subseteq stale',
         device' = device, pending' = {}
  PROVE  PendingInv'
  <1>1. \A d \in Device : Underway(d)' \subseteq stale'
    BY DEF Underway
  <1> QED
    BY <1>1 DEF PendingInv, StaleTogether, PendingIsUnderway

(* A new command: its device was not pending, so nothing of it is under    *)
(* way but stale commands, which it joins.                                 *)
LEMMA SubmitKeeps ==
  ASSUME CommandsTypeOK, PendingInv, NEW d \in Device, Submit(d)
  PROVE  PendingInv'
  <1>1. PICK m : m = Len(device) + 1
    OBVIOUS
  <1>2. /\ device' = Append(device, d) /\ pending' = pending \cup {d} /\ d \notin pending
        /\ sending' = sending \cup {m} /\ resolved' = resolved /\ rejected' = rejected
        /\ waiting' = waiting
        /\ stale' = IF Underway(d) # {} THEN stale \cup {m} ELSE stale
    BY <1>1 DEF Submit
  <1>3. /\ m \notin Commands /\ device'[m] = d
        /\ \A k \in Commands : device'[k] = device[k]
    BY <1>1, <1>2 DEF CommandsTypeOK, Commands
  <1>4. Awaited \cup waiting \subseteq Commands /\ stale \subseteq Commands
    BY DEF CommandsTypeOK, Awaited
  <1>5. Awaited' \cup waiting' = Awaited \cup waiting \cup {m}
    BY <1>2 DEF Awaited
  <1>6. OnePlace'
    BY <1>2, <1>3, <1>4 DEF PendingInv, OnePlace, Awaited
  <1>7. \A e \in Device : Underway(e)' = IF e = d THEN Underway(e) \cup {m} ELSE Underway(e)
    BY <1>3, <1>4, <1>5 DEF Underway
  <1>8. \A e \in Device : Underway(e) \subseteq Commands
    BY <1>4 DEF Underway
  <1>9. ASSUME NEW e \in Device, e # d
        PROVE  Underway(e)' = Underway(e) /\ Underway(e) \cap stale' = Underway(e) \cap stale
               /\ (e \in pending' <=> e \in pending)
    BY <1>2, <1>3, <1>7, <1>8, <1>9
  <1>10. Underway(d) # {} => Underway(d) \subseteq stale
    BY <1>2 DEF PendingInv, StaleTogether, PendingIsUnderway
  <1>11. CASE Underway(d) = {}
    <2>1. Underway(d)' = {m} /\ stale' = stale /\ m \notin stale /\ d \in pending'
      BY <1>2, <1>3, <1>4, <1>7, <1>11
    <2>2. StaleTogether'
      BY <1>9, <2>1 DEF PendingInv, StaleTogether
    <2>3. PendingIsUnderway'
      BY <1>9, <2>1 DEF PendingInv, PendingIsUnderway
    <2> QED
      BY <1>6, <2>2, <2>3 DEF PendingInv
  <1>12. CASE Underway(d) # {}
    <2>1. Underway(d)' \subseteq stale' /\ Underway(d)' # {}
      BY <1>2, <1>7, <1>10, <1>12
    <2>2. StaleTogether'
      BY <1>9, <2>1 DEF PendingInv, StaleTogether
    <2>3. PendingIsUnderway'
      BY <1>9, <2>1 DEF PendingInv, PendingIsUnderway
    <2> QED
      BY <1>6, <2>2, <2>3 DEF PendingInv
  <1> QED
    BY <1>11, <1>12

LEMMA StepKeeps == CommandsTypeOK /\ PendingInv /\ [CommandsNext]_commandVars => PendingInv'
  <1> SUFFICES ASSUME CommandsTypeOK, PendingInv, [CommandsNext]_commandVars PROVE PendingInv'
    OBVIOUS
  <1> USE DEF link, sends, answer
  <1>0. OnePlace
    BY DEF PendingInv
  <1>1. ASSUME NEW m \in 1 .. Len(device), SendSettles(m) PROVE PendingInv'
    <2>1. OnePlace' /\ Awaited' \cup waiting' = Awaited \cup waiting
      BY <1>0, <1>1 DEF SendSettles, OnePlace, Awaited
    <2> QED
      BY <1>1, <2>1, NothingEnds DEF SendSettles
  <1>2. ASSUME NEW m \in 1 .. Len(device), Sent(m) PROVE PendingInv'
    <2>1. OnePlace' /\ Awaited' \cup waiting' = Awaited \cup waiting
      BY <1>0, <1>2 DEF Sent, OnePlace, Awaited
    <2> QED
      BY <1>2, <2>1, NothingEnds DEF Sent
  <1>3. ASSUME NEW m \in 1 .. Len(device), NotSent(m) PROVE PendingInv'
    <2>1. /\ OnePlace' /\ m \in Awaited \cup waiting
          /\ Awaited' \cup waiting' = (Awaited \cup waiting) \ {m}
      BY <1>0, <1>3 DEF NotSent, OnePlace, Awaited
    <2> QED
      BY <1>3, <2>1, OneEnds DEF NotSent
  <1>4. ASSUME NEW m \in 1 .. Len(device), Finish(m), UNCHANGED <<device, sends, stale>>
        PROVE  PendingInv'
    <2>1. CASE m \in waiting
      <3>1. OnePlace' /\ Awaited' \cup waiting' = (Awaited \cup waiting) \ {m}
        BY <1>0, <1>4, <2>1 DEF Finish, OnePlace, Awaited
      <3> QED
        BY <1>4, <2>1, <3>1, OneEnds DEF Finish
    <2>2. CASE m \notin waiting
      <3>1. OnePlace' /\ Awaited' \cup waiting' = Awaited \cup waiting
        BY <1>0, <1>4, <2>2 DEF Finish, OnePlace, Awaited
      <3> QED
        BY <1>4, <2>2, <3>1, NothingEnds DEF Finish
    <2> QED
      BY <2>1, <2>2
  <1>5. ASSUME NEW m \in 1 .. Len(device), Result(m) \/ TimeUp(m) PROVE PendingInv'
    BY <1>4, <1>5 DEF Result, TimeUp
  <1>6. CASE LinkLost
    <2>1. OnePlace' /\ Awaited' \cup waiting' \subseteq stale'
      BY <1>0, <1>6 DEF LinkLost, Clear, OnePlace, Awaited
    <2> QED
      BY <1>6, <2>1, AllReleased DEF LinkLost, Clear
  <1>7. CASE ForgetReleases
    <2>1. OnePlace' /\ Awaited' \cup waiting' \subseteq stale'
      BY <1>0, <1>7 DEF ForgetReleases, OnePlace, Awaited
    <2> QED
      BY <1>7, <2>1, AllReleased DEF ForgetReleases
  <1>8. ASSUME UNCHANGED <<pending, device, sends, waiting, stale>> PROVE PendingInv'
    BY <1>0, <1>8, NothingEnds DEF OnePlace, Awaited
  <1>9. ASSUME NEW m \in 1 .. Len(device), Answer(m) PROVE PendingInv'
    BY <1>8, <1>9 DEF Answer
  <1>10. CASE Dial \/ Shown \/ ShutLink \/ UNCHANGED commandVars
    BY <1>8, <1>10 DEF Dial, Shown, ShutLink, commandVars
  <1> QED
    BY <1>1, <1>2, <1>3, <1>5, <1>6, <1>7, <1>9, <1>10, SubmitKeeps DEF CommandsNext

(* A device is disabled exactly while its one command is under way         *)
(* (submitRaw, finishPending and clearAllCommandTimeouts of                *)
(* DeviceManager.ets), but for commands whose device was released under    *)
(* them.                                                                   *)
THEOREM PendingMeansUnderway == CommandsSpec => []PendingIsUnderway
  <1>1. CommandsInit => CommandsTypeOK /\ PendingInv
    BY CommandsInitTypes DEF CommandsInit, PendingInv, OnePlace, StaleTogether, PendingIsUnderway, Underway, Awaited
  <1>2. CommandsTypeOK /\ PendingInv /\ [CommandsNext]_commandVars => CommandsTypeOK' /\ PendingInv'
    BY Types, StepKeeps
  <1>3. PendingInv => PendingIsUnderway
    BY DEF PendingInv
  <1> QED
    BY <1>1, <1>2, <1>3, PTL DEF CommandsSpec

=============================================================================
