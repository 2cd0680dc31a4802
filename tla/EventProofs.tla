----------------------------- MODULE EventProofs -----------------------------
(***************************************************************************)
(* Proofs about the way of an event, from the gateway to the app's copy.   *)
(* DeviceSync: its type invariant, that subscribing before asking leaves   *)
(* no gap, and that versions alone bring the app's copy to the truth when  *)
(* no old snapshot comes in last.  EventStreams, from the line on: its     *)
(* type invariant, that whoever is there stays subscribed, that a slow     *)
(* client keeps the newest events and gets none after its session, and     *)
(* that an online broker has been given the newest state.                  *)
(***************************************************************************)
EXTENDS DeviceSync, EventStreams, SequenceTheorems, TLAPS

LEMMA CopyTypes == Absent \in Copy /\ Idle \in Call
  BY DEF Absent, Copy, Idle, Call

LEMMA LaterTypes ==
  ASSUME NEW m \in Nat, NEW n \in Nat
  PROVE  Later(m, n) \in Nat /\ m <= Later(m, n) /\ n <= Later(m, n)
  BY DEF Later

LEMMA HeadTypes ==
  ASSUME TypeOK, wire # <<>>
  PROVE  Head(wire) \in Event /\ Head(wire).copy \in Copy /\ Head(wire).copy.moment \in Nat
  <1>1. wire \in Seq(Event)
    BY DEF TypeOK
  <1>2. Head(wire) \in Event
    BY <1>1
  <1> QED
    BY <1>2 DEF Event, Copy

LEMMA InitTypes == Init => TypeOK
  <1> SUFFICES ASSUME Init PROVE TypeOK
    OBVIOUS
  <1>1. device \in Copy
    BY DEF Init, Copy
  <1>2. refresh \in [Refresh -> Call] /\ view \in Copy /\ store \in Copy
    BY CopyTypes DEF Init
  <1>3. /\ wire \in Seq(Event) /\ casting \subseteq Event /\ abandoned \subseteq Nat
        /\ link \in {"down", "opening", "up"}
    BY DEF Init
  <1>4. /\ seen \in Nat /\ synced \in BOOLEAN /\ overwritten \in BOOLEAN
        /\ session \in {"none", "held", "refused"}
        /\ forgetting \in {"no", "closed", "unpaired", "cleared"}
        /\ removals \in Nat /\ drops \in Nat
    BY DEF Init
  <1> QED
    BY <1>1, <1>2, <1>3, <1>4 DEF TypeOK

LEMMA GatewayTypes ==
  TypeOK /\ (Change \/ Register \/ Delete \/ \E e \in casting : Cast(e) \/ Abandon(e))
    => TypeOK'
  <1> SUFFICES ASSUME TypeOK PROVE
        (Change \/ Register \/ Delete \/ \E e \in casting : Cast(e) \/ Abandon(e)) => TypeOK'
    OBVIOUS
  <1> USE DEF linkVars, appVars
  <1>1. /\ device \in Copy /\ casting \subseteq Event /\ wire \in Seq(Event)
        /\ abandoned \subseteq Nat /\ removals \in Nat
    BY DEF TypeOK
  <1>2. device.moment \in Nat /\ device.version \in Nat /\ device.moment + 1 \in Nat
    BY <1>1 DEF Copy
  <1>3. ASSUME NEW type \in {"state.changed", "device.removed"}, NEW v \in Nat,
               Announce(type, v)
        PROVE  device' \in Copy /\ casting' \subseteq Event
    <2>1. [version |-> v, moment |-> device.moment + 1] \in Copy
      BY <1>2 DEF Copy
    <2> QED
      BY <1>1, <1>3, <2>1 DEF Announce, Event
  <1>4. CASE Change
    <2>1. device.version + 1 \in Nat
      BY <1>2
    <2>2. device' \in Copy /\ casting' \subseteq Event
      BY <1>3, <1>4, <2>1 DEF Change
    <2> QED
      BY <1>4, <2>2 DEF Change, TypeOK
  <1>5. CASE Register
    <2>1. device' \in Copy /\ casting' \subseteq Event
      BY <1>3, <1>5 DEF Register
    <2> QED
      BY <1>5, <2>1 DEF Register, TypeOK
  <1>6. CASE Delete
    <2>1. device' \in Copy /\ casting' \subseteq Event
      BY <1>3, <1>6 DEF Delete
    <2>2. removals' \in Nat
      BY <1>1, <1>6 DEF Delete
    <2> QED
      BY <1>6, <2>1, <2>2 DEF Delete, TypeOK
  <1>7. ASSUME NEW e \in casting, Cast(e) PROVE TypeOK'
    <2>1. wire' \in Seq(Event) /\ casting' \subseteq Event
      BY <1>1, <1>7 DEF Cast
    <2> QED
      BY <1>7, <2>1 DEF Cast, TypeOK
  <1>8. ASSUME NEW e \in casting, Abandon(e) PROVE TypeOK'
    <2>1. e.copy.moment \in Nat
      BY <1>1, <1>8 DEF Event, Copy
    <2>2. abandoned' \subseteq Nat /\ casting' \subseteq Event
      BY <1>1, <1>8, <2>1 DEF Abandon
    <2> QED
      BY <1>8, <2>2 DEF Abandon, TypeOK
  <1> QED
    BY <1>4, <1>5, <1>6, <1>7, <1>8

(* What ends a connection keeps its types. *)
LEMMA CutTypes ==
  ASSUME TypeOK
  PROVE  /\ Outdated => refresh' \in [Refresh -> Call]
         /\ CutOff => wire' \in Seq(Event) /\ link' = "down" /\ synced' = FALSE
  <1>1. refresh \in [Refresh -> Call] /\ <<>> \in Seq(Event)
    BY DEF TypeOK
  <1>2. ASSUME NEW r \in Refresh PROVE [refresh[r] EXCEPT !.fresh = FALSE] \in Call
    BY <1>1 DEF Call
  <1> QED
    BY <1>1, <1>2 DEF Outdated, CutOff

LEMMA LinkTypes == TypeOK /\ (Accept \/ Drop \/ Hear \/ Restart) => TypeOK'
  <1> SUFFICES ASSUME TypeOK PROVE (Accept \/ Drop \/ Hear \/ Restart) => TypeOK'
    OBVIOUS
  <1> USE DEF gatewayVars, appVars
  <1>1. /\ wire \in Seq(Event) /\ refresh \in [Refresh -> Call] /\ seen \in Nat
        /\ view \in Copy /\ store \in Copy /\ drops \in Nat /\ <<>> \in Seq(Event)
    BY DEF TypeOK
  <1>2. CASE Accept
    BY <1>2 DEF Accept, TypeOK
  <1>3. CASE Drop
    <2>1. refresh' \in [Refresh -> Call] /\ wire' \in Seq(Event) /\ link' = "down" /\ synced' = FALSE
      BY <1>3, CutTypes DEF Drop
    <2>2. drops' \in Nat
      BY <1>1, <1>3 DEF Drop
    <2> QED
      BY <1>3, <2>1, <2>2 DEF Drop, TypeOK, sessionVars
  <1>4. CASE Hear
    <2>1. Head(wire) \in Event /\ Tail(wire) \in Seq(Event)
      BY <1>1, <1>4 DEF Hear
    <2>2. Head(wire).copy \in Copy /\ Head(wire).copy.moment \in Nat
      BY <2>1 DEF Event, Copy
    <2>3. view' \in Copy
      BY <1>1, <1>4, <2>2 DEF Hear, Heard
    <2>4. seen' \in Nat
      BY <1>1, <1>4, <2>2, LaterTypes DEF Hear
    <2> QED
      BY <1>4, <2>1, <2>3, <2>4 DEF Hear, TypeOK, sessionVars
  <1>5. CASE Restart
    <2>1. /\ refresh' \in [Refresh -> Call] /\ drops' \in Nat
          /\ wire' \in Seq(Event) /\ link' = "down" /\ synced' = FALSE
      BY <1>1, <1>5, CopyTypes, CutTypes DEF Restart
    <2>2. view' \in Copy /\ seen' \in Nat
      BY <1>1, <1>5 DEF Restart, Copy
    <2>3. session' \in {"none", "held", "refused"} /\ forgetting' = "no"
      BY <1>5 DEF Restart, StoredSession, TypeOK
    <2> QED
      BY <1>5, <2>1, <2>2, <2>3 DEF Restart, TypeOK
  <1> QED
    BY <1>2, <1>3, <1>4, <1>5

LEMMA SessionTypes == TypeOK /\ SessionStep => TypeOK'
  <1> SUFFICES ASSUME TypeOK, SessionStep PROVE TypeOK'
    OBVIOUS
  <1>1. /\ refresh \in [Refresh -> Call] /\ drops \in Nat /\ drops + 1 \in Nat
        /\ Absent \in Copy
    BY CopyTypes DEF TypeOK
  <1>2. ASSUME NEW over \in {{}} \cup {{r} : r \in Refresh}, Unauthorised(over) PROVE TypeOK'
    <2>1. ASSUME NEW r \in Refresh
          PROVE  (IF r \in over THEN Idle ELSE [refresh[r] EXCEPT !.fresh = FALSE]) \in Call
      BY <1>1, CopyTypes DEF Call
    <2>2. refresh' \in [Refresh -> Call] /\ wire' \in Seq(Event) /\ link' = "down" /\ synced' = FALSE
      BY <1>2, <2>1, CutTypes DEF Unauthorised
    <2> QED
      BY <1>1, <1>2, <2>2 DEF Unauthorised, TypeOK, gatewayVars
  <1>3. CASE ForgetCloses
    <2>1. refresh' \in [Refresh -> Call] /\ wire' \in Seq(Event) /\ link' = "down" /\ synced' = FALSE
      BY <1>3, CutTypes DEF ForgetCloses
    <2> QED
      BY <1>1, <1>3, <2>1 DEF ForgetCloses, TypeOK, gatewayVars
  <1>4. CASE ForgetsSession
    BY <1>4 DEF ForgetsSession, TypeOK, gatewayVars, linkVars
  <1>5. CASE ForgetsSnapshot
    BY <1>1, <1>5 DEF ForgetsSnapshot, TypeOK, gatewayVars, linkVars
  <1>6. CASE Forgotten
    <2>1. refresh' \in [Refresh -> Call]
      BY <1>6, CutTypes DEF Forgotten
    <2> QED
      BY <1>1, <1>6, <2>1 DEF Forgotten, TypeOK, gatewayVars, linkVars
  <1>7. CASE Pair
    <2>1. refresh' \in [Refresh -> Call] /\ wire' \in Seq(Event) /\ link' = "down" /\ synced' = FALSE
      BY <1>7, CutTypes DEF Pair
    <2> QED
      BY <1>1, <1>7, <2>1 DEF Pair, TypeOK, gatewayVars
  <1> QED
    BY <1>2, <1>3, <1>4, <1>5, <1>6, <1>7 DEF SessionStep

LEMMA RefreshTypes ==
  ASSUME TypeOK, NEW r \in Refresh,
         Online(r) \/ Start(r) \/ Snapshot(r) \/ Apply(r) \/ Save(r) \/ Fail(r)
  PROVE  TypeOK'
  <1> USE DEF gatewayVars, linkVars, appVars, sessionVars
  <1>1. /\ refresh \in [Refresh -> Call] /\ seen \in Nat /\ device \in Copy
        /\ view \in Copy /\ store \in Copy /\ synced \in BOOLEAN
    BY DEF TypeOK
  <1>2. /\ refresh[r].data \in Copy /\ refresh[r].data.moment \in Nat
        /\ refresh[r].fresh \in BOOLEAN
    BY <1>1 DEF Call, Copy
  <1>3. ASSUME Ask(r) PROVE refresh' \in [Refresh -> Call]
    BY <1>1, <1>3, CopyTypes DEF Ask, Call, Idle
  <1>4. CASE Online(r)
    BY <1>1, <1>3, <1>4 DEF Online, TypeOK
  <1>5. CASE Start(r)
    BY <1>3, <1>5 DEF Start, TypeOK
  <1>6. CASE Snapshot(r)
    <2>1. refresh' \in [Refresh -> Call]
      BY <1>1, <1>6 DEF Snapshot, Call
    <2> QED
      BY <1>6, <2>1 DEF Snapshot, TypeOK
  <1>7. CASE Apply(r)
    <2>1. refresh' \in [Refresh -> Call]
      BY <1>1, <1>7 DEF Apply, Call
    <2>2. seen' \in Nat /\ view' \in Copy
      BY <1>1, <1>2, <1>7, LaterTypes DEF Apply
    <2>3. synced' \in BOOLEAN /\ overwritten' \in BOOLEAN
      BY <1>1, <1>2, <1>7 DEF Apply
    <2> QED
      BY <1>7, <2>1, <2>2, <2>3 DEF Apply, TypeOK
  <1>8. CASE Save(r)
    <2>1. refresh' \in [Refresh -> Call] /\ store' \in Copy
      BY <1>1, <1>2, <1>8, CopyTypes DEF Save
    <2> QED
      BY <1>8, <2>1 DEF Save, TypeOK
  <1>9. CASE Fail(r)
    <2>1. refresh' \in [Refresh -> Call]
      BY <1>1, <1>9, CopyTypes DEF Fail
    <2> QED
      BY <1>9, <2>1 DEF Fail, TypeOK
  <1> QED
    BY <1>4, <1>5, <1>6, <1>7, <1>8, <1>9

LEMMA NextTypes == TypeOK /\ [Next]_vars => TypeOK'
  <1>1. ASSUME TypeOK, UNCHANGED vars PROVE TypeOK'
    BY <1>1 DEF vars, gatewayVars, linkVars, appVars, TypeOK
  <1> QED
    BY <1>1, GatewayTypes, LinkTypes, SessionTypes, RefreshTypes DEF Next

(* Every reachable state of the gateway, the link and the app is well      *)
(* typed.                                                                  *)
THEOREM TypeCorrect == Spec => []TypeOK
  BY InitTypes, NextTypes, PTL DEF Spec

-----------------------------------------------------------------------------
(* What was on its way is still on its way, or has been heard. *)
LEMMA StillReached ==
  ASSUME TypeOK, TypeOK', NEW CONSTANT b \in Nat, NEW CONSTANT c \in Nat, b <= c,
         AllReach(b), link # "down",
         \/ Change \/ Register \/ Delete \/ \E e \in casting : Cast(e) \/ Abandon(e)
         \/ Hear /\ Head(wire).copy.moment <= c
         \/ UNCHANGED <<device, casting, abandoned, wire>>
  PROVE  AllReach(c)'
  <1>1. /\ device.moment \in Nat /\ wire \in Seq(Event) /\ casting \subseteq Event
        /\ abandoned \subseteq Nat /\ device'.moment \in Nat
    BY DEF TypeOK, Copy
  <1>2. ASSUME NEW m \in 1 .. device.moment PROVE Reaches(m, b) /\ m \in Nat
    BY <1>1, <1>2 DEF AllReach
  <1>3. ASSUME NEW type, NEW v, Announce(type, v), UNCHANGED <<abandoned, wire>>
        PROVE  AllReach(c)'
    <2>1. device'.moment = device.moment + 1
      BY <1>3 DEF Announce
    <2>2. /\ casting \subseteq casting'
          /\ \E e \in casting' : e.copy.moment = device'.moment
      <3>1. casting' = casting \cup {[type |-> type, copy |-> device']}
        BY <1>3 DEF Announce
      <3>2. [type |-> type, copy |-> device'].copy.moment = device'.moment
        OBVIOUS
      <3> QED
        BY <3>1, <3>2
    <2>3. ASSUME NEW m \in 1 .. device'.moment PROVE Reaches(m, c)'
      <3>1. CASE m = device'.moment
        BY <2>2, <3>1 DEF Reaches
      <3>2. CASE m # device'.moment
        <4>1. m \in 1 .. device.moment
          BY <1>1, <2>1, <2>3, <3>2
        <4>2. Reaches(m, b) /\ m \in Nat
          BY <1>2, <4>1
        <4> QED
          BY <1>3, <2>2, <4>2 DEF Reaches
      <3> QED
        BY <3>1, <3>2
    <2> QED
      BY <2>3 DEF AllReach
  <1>4. CASE Change
    BY <1>3, <1>4 DEF Change, linkVars
  <1>5. CASE Register
    BY <1>3, <1>5 DEF Register, linkVars
  <1>6. CASE Delete
    BY <1>3, <1>6 DEF Delete, linkVars
  <1>7. ASSUME NEW e \in casting, Cast(e) PROVE AllReach(c)'
    <2>1. /\ UNCHANGED <<device, abandoned>> /\ casting' = casting \ {e}
          /\ wire' = Append(wire, e) /\ e \in Event
      BY <1>1, <1>7 DEF Cast
    <2>2. /\ Len(wire) \in Nat /\ Len(wire') = Len(wire) + 1
          /\ wire'[Len(wire) + 1] = e
          /\ \A i \in 1 .. Len(wire) : wire'[i] = wire[i]
      BY <1>1, <2>1
    <2>3. ASSUME NEW m \in 1 .. device'.moment PROVE Reaches(m, c)'
      <3>1. Reaches(m, b) /\ m \in Nat
        BY <1>2, <2>1, <2>3
      <3>2. CASE e.copy.moment = m
        <4>1. Len(wire) + 1 \in 1 .. Len(wire')
          BY <2>2
        <4> QED
          BY <2>2, <3>2, <4>1 DEF Reaches
      <3>3. CASE \E i \in 1 .. Len(wire) : wire[i].copy.moment = m
        <4>1. PICK i \in 1 .. Len(wire) : wire[i].copy.moment = m
          BY <3>3
        <4>2. i \in 1 .. Len(wire') /\ wire'[i].copy.moment = m
          BY <2>2, <4>1
        <4> QED
          BY <4>2 DEF Reaches
      <3>4. CASE m <= b \/ m \in abandoned
        BY <2>1, <3>1, <3>4 DEF Reaches
      <3>5. CASE \E f \in casting : f.copy.moment = m /\ f # e
        BY <2>1, <3>5 DEF Reaches
      <3> QED
        BY <3>1, <3>2, <3>3, <3>4, <3>5 DEF Reaches
    <2> QED
      BY <2>3 DEF AllReach
  <1>8. ASSUME NEW e \in casting, Abandon(e) PROVE AllReach(c)'
    <2>1. /\ UNCHANGED <<device, wire>> /\ casting' = casting \ {e}
          /\ abandoned' = abandoned \cup {e.copy.moment}
      BY <1>8 DEF Abandon, linkVars
    <2>2. ASSUME NEW m \in 1 .. device'.moment PROVE Reaches(m, c)'
      <3>1. Reaches(m, b) /\ m \in Nat
        BY <1>2, <2>1, <2>2
      <3> QED
        BY <2>1, <3>1 DEF Reaches
    <2> QED
      BY <2>2 DEF AllReach
  <1>9. CASE Hear /\ Head(wire).copy.moment <= c
    <2>1. /\ UNCHANGED <<device, casting, abandoned>> /\ wire # <<>>
          /\ wire' = Tail(wire)
      BY <1>9 DEF Hear, gatewayVars
    <2>2. /\ Len(wire) \in Nat \ {0} /\ Len(wire') = Len(wire) - 1 /\ Head(wire) = wire[1]
          /\ \A i \in 1 .. Len(wire') : wire'[i] = wire[i + 1]
      BY <1>1, <2>1
    <2>3. ASSUME NEW m \in 1 .. device'.moment PROVE Reaches(m, c)'
      <3>1. Reaches(m, b) /\ m \in Nat
        BY <1>2, <2>1, <2>3
      <3>2. CASE \E i \in 1 .. Len(wire) : wire[i].copy.moment = m
        <4>1. PICK i \in 1 .. Len(wire) : wire[i].copy.moment = m
          BY <3>2
        <4>2. CASE i = 1
          BY <1>9, <2>2, <4>1, <4>2 DEF Reaches
        <4>3. CASE i # 1
          <5>1. i - 1 \in 1 .. Len(wire') /\ (i - 1) + 1 = i
            BY <2>2, <4>1, <4>3
          <5>2. wire'[i - 1].copy.moment = m
            BY <2>2, <4>1, <5>1
          <5> QED
            BY <5>1, <5>2 DEF Reaches
        <4> QED
          BY <4>2, <4>3
      <3> QED
        BY <2>1, <3>1, <3>2 DEF Reaches
    <2> QED
      BY <2>3 DEF AllReach
  <1>10. CASE UNCHANGED <<device, casting, abandoned, wire>>
    <2>1. ASSUME NEW m \in 1 .. device'.moment PROVE Reaches(m, c)'
      <3>1. Reaches(m, b) /\ m \in Nat
        BY <1>2, <1>10, <2>1
      <3> QED
        BY <1>10, <3>1 DEF Reaches
    <2> QED
      BY <2>1 DEF AllReach
  <1> QED
    BY <1>4, <1>5, <1>6, <1>7, <1>8, <1>9, <1>10

(* The moments the app will have been told of. *)
Base(r) == Later(seen, refresh[r].data.moment)

LEMMA BaseTypes ==
  ASSUME TypeOK, NEW r \in Refresh
  PROVE  refresh[r].data.moment \in Nat /\ Base(r) \in Nat /\ seen \in Nat /\ seen <= Base(r)
  <1>1. refresh[r].data.moment \in Nat /\ seen \in Nat
    BY DEF TypeOK, Call, Copy
  <1> QED
    BY <1>1, LaterTypes DEF Base

(* A step that keeps the refreshes and what has been seen, but for an      *)
(* event that is heard.                                                    *)
LEMMA GatewayKeepsSync ==
  ASSUME TypeOK, TypeOK', SyncInv,
         \/ Change \/ Register \/ Delete \/ \E e \in casting : Cast(e) \/ Abandon(e)
         \/ Hear
  PROVE  SyncInv'
  <1>1. /\ UNCHANGED <<refresh, synced, link>> /\ seen' \in Nat
        /\ seen \in Nat /\ refresh \in [Refresh -> Call]
    BY DEF Change, Register, Delete, Cast, Abandon, Hear, linkVars, appVars, gatewayVars, TypeOK
  <1>2. seen <= seen' /\ (Hear => Head(wire).copy.moment <= seen')
    <2>1. CASE Hear
      <3>1. Head(wire).copy.moment \in Nat
        BY <2>1, HeadTypes DEF Hear
      <3> QED
        BY <1>1, <2>1, <3>1, LaterTypes DEF Hear
    <2>2. CASE UNCHANGED seen /\ ~Hear
      BY <1>1, <2>2
    <2>3. CASE ~Hear
      BY <1>1, <2>2, <2>3 DEF Change, Register, Delete, Cast, Abandon, appVars
    <2> QED
      BY <2>1, <2>3
  <1>3. synced' => link' = "up" /\ AllReach(seen)'
    <2>1. SUFFICES ASSUME synced PROVE link = "up" /\ AllReach(seen)'
      BY <1>1
    <2>2. link = "up" /\ AllReach(seen)
      BY <2>1 DEF SyncInv
    <2>3. PICK b \in Nat : b = seen
      BY <1>1
    <2>4. PICK c \in Nat : c = seen'
      BY <1>1
    <2>5. AllReach(b)
      BY <2>2, <2>3
    <2>6. AllReach(c)'
      BY <1>2, <2>2, <2>3, <2>4, <2>5, StillReached
    <2> QED
      BY <2>2, <2>4, <2>6 DEF AllReach, Reaches
  <1>4. ASSUME NEW r \in Refresh, refresh[r].fresh PROVE link' = "up"
    BY <1>1, <1>4 DEF SyncInv
  <1>5. ASSUME NEW r \in Refresh, refresh[r].fresh, refresh[r].at = "answered"
        PROVE  AllReach(Base(r))'
    <2>1. link = "up" /\ AllReach(Base(r))
      BY <1>5 DEF SyncInv, Base
    <2>2. PICK d \in Nat : d = refresh[r].data.moment
      BY BaseTypes
    <2>3. PICK b \in Nat : b = Base(r)
      BY BaseTypes
    <2>4. b = Later(seen, d) /\ Base(r)' = Later(seen', d)
      BY <1>1, <2>2, <2>3 DEF Base
    <2>5. Later(seen, d) <= Later(seen', d) /\ Later(seen', d) \in Nat /\ seen' <= Later(seen', d)
      BY <1>1, <1>2 DEF Later
    <2>6. PICK c \in Nat : c = Later(seen', d)
      BY <2>5
    <2>7. b <= c /\ (Hear => Head(wire).copy.moment <= c)
      <3>1. Hear => Head(wire).copy.moment \in Nat
        BY HeadTypes DEF Hear
      <3>2. Hear => Head(wire).copy.moment <= c
        BY <1>1, <1>2, <2>5, <2>6, <3>1
      <3> QED
        BY <2>4, <2>5, <2>6, <3>2
    <2>8. AllReach(b)
      BY <2>1, <2>3
    <2>9. AllReach(c)'
      BY <2>1, <2>7, <2>8, StillReached
    <2>10. Base(r)' = c
      BY <2>4, <2>6
    <2> QED
      BY <2>9, <2>10 DEF AllReach, Reaches
  <1> QED
    BY <1>1, <1>3, <1>4, <1>5 DEF SyncInv, Base

(* A step of a refresh, of the link or of the app's process. *)
LEMMA AppKeepsSync ==
  ASSUME TypeOK, TypeOK', SyncInv,
         \/ Accept \/ Drop \/ Restart
         \/ \E r \in Refresh : Online(r) \/ Start(r) \/ Snapshot(r) \/ Apply(r) \/ Save(r) \/ Fail(r)
  PROVE  SyncInv'
  <1>1. /\ refresh \in [Refresh -> Call] /\ seen \in Nat /\ seen' \in Nat
        /\ device.moment \in Nat /\ refresh' \in [Refresh -> Call]
    BY DEF TypeOK, Copy
  <1>2. UNCHANGED <<device, casting, abandoned>>
    BY DEF Accept, Drop, Restart, Online, Start, Snapshot, Apply, Save, Fail, gatewayVars
  <1>3. CASE Accept
    <2>1. ~synced /\ \A r \in Refresh : ~refresh[r].fresh
      BY <1>3 DEF Accept, SyncInv
    <2> QED
      BY <1>3, <2>1 DEF Accept, SyncInv, appVars
  <1>4. CASE Drop
    <2>1. ~synced' /\ \A r \in Refresh : ~refresh'[r].fresh
      BY <1>1, <1>4 DEF Drop, CutOff, Outdated, Call
    <2> QED
      BY <2>1 DEF SyncInv
  <1>5. CASE Restart
    <2>1. ~synced' /\ \A r \in Refresh : ~refresh'[r].fresh
      BY <1>5 DEF Restart, CutOff, Idle
    <2> QED
      BY <2>1 DEF SyncInv
  <1>6. ASSUME NEW b \in Nat, NEW c \in Nat, b <= c, AllReach(b), link # "down",
               UNCHANGED wire
        PROVE  AllReach(c)'
    BY <1>2, <1>6, StillReached
  (* A refresh that starts, fails or is done owes nothing. *)
  <1>7. ASSUME NEW r \in Refresh,
               UNCHANGED <<synced, seen, wire>>, link = "up" => link' = "up",
               refresh' = [refresh EXCEPT ![r] = refresh'[r]],
               refresh'[r].fresh => link' = "up", refresh'[r].at # "answered"
        PROVE  SyncInv'
    <2>1. synced' => link' = "up" /\ AllReach(seen)'
      <3>1. SUFFICES ASSUME synced PROVE link' = "up" /\ AllReach(seen)'
        BY <1>7
      <3>2. link = "up" /\ AllReach(seen)
        BY <3>1 DEF SyncInv
      <3> QED
        BY <1>2, <1>7, <3>2 DEF AllReach, Reaches
    <2>2. ASSUME NEW q \in Refresh, refresh'[q].fresh PROVE link' = "up"
      <3>1. CASE q = r
        BY <1>7, <2>2, <3>1
      <3>2. CASE q # r
        <4>1. refresh'[q] = refresh[q]
          BY <1>1, <1>7, <3>2
        <4> QED
          BY <1>7, <2>2, <4>1 DEF SyncInv
      <3> QED
        BY <3>1, <3>2
    <2>3. ASSUME NEW q \in Refresh, refresh'[q].fresh, refresh'[q].at = "answered"
          PROVE  AllReach(Base(q))'
      <3>1. refresh'[q] = refresh[q]
        BY <1>1, <1>7, <2>3
      <3>2. AllReach(Base(q))
        BY <2>3, <3>1 DEF SyncInv, Base
      <3>3. Base(q)' = Base(q)
        BY <1>7, <3>1 DEF Base
      <3> QED
        BY <1>2, <1>7, <3>2, <3>3 DEF AllReach, Reaches
    <2> QED
      BY <2>1, <2>2, <2>3 DEF SyncInv, Base
  <1>8. ASSUME NEW r \in Refresh, Online(r) PROVE SyncInv'
    <2>0. /\ link = "opening" /\ link' = "up" /\ ~synced /\ \A q \in Refresh : ~refresh[q].fresh
          /\ UNCHANGED <<synced, seen, wire>>
      BY <1>8 DEF Online, SyncInv, appVars
    <2>1. CASE session = "held"
      <3>1. /\ refresh' = [refresh EXCEPT ![r] = refresh'[r]] /\ refresh'[r].at = "asked"
        BY <1>1, <1>8, <2>1 DEF Online, Ask, Idle
      <3> QED
        BY <1>7, <2>0, <3>1
    <2>2. CASE session # "held"
      <3>1. refresh' = refresh
        BY <1>8, <2>2 DEF Online
      <3> QED
        BY <2>0, <3>1 DEF SyncInv
    <2> QED
      BY <2>1, <2>2
  <1>9. ASSUME NEW r \in Refresh, Start(r) PROVE SyncInv'
    <2>1. /\ refresh' = [refresh EXCEPT ![r] = refresh'[r]] /\ refresh'[r].at = "asked"
          /\ refresh'[r].fresh => link' = "up"
      BY <1>1, <1>9 DEF Start, Ask, Idle
    <2> QED
      BY <1>7, <1>9, <2>1 DEF Start, appVars
  <1>10. ASSUME NEW r \in Refresh, Save(r) PROVE SyncInv'
    <2>1. /\ refresh' = [refresh EXCEPT ![r] = refresh'[r]] /\ refresh'[r] = Idle
      <3>1. refresh' = [refresh EXCEPT ![r] = Idle]
        BY <1>10 DEF Save
      <3>2. refresh'[r] = Idle
        BY <1>1, <3>1
      <3> QED
        BY <3>1, <3>2
    <2>2. ~refresh'[r].fresh /\ refresh'[r].at # "answered"
      BY <2>1 DEF Idle
    <2>3. UNCHANGED <<synced, seen, wire, link>>
      BY <1>10 DEF Save, linkVars
    <2> QED
      BY <1>7, <2>1, <2>2, <2>3
  <1>11. ASSUME NEW r \in Refresh, Fail(r) PROVE SyncInv'
    <2>1. /\ refresh' = [refresh EXCEPT ![r] = refresh'[r]] /\ refresh'[r] = Idle
      <3>1. refresh' = [refresh EXCEPT ![r] = Idle]
        BY <1>11 DEF Fail
      <3>2. refresh'[r] = Idle
        BY <1>1, <3>1
      <3> QED
        BY <3>1, <3>2
    <2>2. ~refresh'[r].fresh /\ refresh'[r].at # "answered"
      BY <2>1 DEF Idle
    <2>3. UNCHANGED <<synced, seen, wire, link>>
      BY <1>11 DEF Fail, linkVars, appVars
    <2> QED
      BY <1>7, <2>1, <2>2, <2>3
  <1>12. ASSUME NEW r \in Refresh, Snapshot(r) PROVE SyncInv'
    <2>1. /\ UNCHANGED <<link, wire, seen, synced>>
          /\ \A q \in Refresh : q # r => refresh'[q] = refresh[q]
          /\ refresh'[r].fresh = refresh[r].fresh /\ refresh'[r].data = device
      BY <1>1, <1>12 DEF Snapshot, linkVars, appVars, Call
    <2>2. synced' => link' = "up" /\ AllReach(seen)'
      BY <1>2, <2>1 DEF SyncInv, AllReach, Reaches
    <2>3. ASSUME NEW q \in Refresh, refresh'[q].fresh PROVE link' = "up"
      BY <2>1, <2>3 DEF SyncInv
    <2>4. ASSUME NEW q \in Refresh, refresh'[q].fresh, refresh'[q].at = "answered"
          PROVE  AllReach(Base(q))'
      <3>1. CASE q = r
        <4>1. Base(q)' = Later(seen, device.moment) /\ device.moment <= Base(q)'
          BY <1>1, <2>1, <3>1, LaterTypes DEF Base
        <4>2. Base(q)' \in Nat
          BY <1>1, <4>1, LaterTypes
        <4>3. ASSUME NEW m \in 1 .. device'.moment PROVE m <= Base(q)'
          BY <1>1, <1>2, <4>1, <4>2, <4>3
        <4> QED
          BY <4>3 DEF AllReach, Reaches
      <3>2. CASE q # r
        <4>1. AllReach(Base(q)) /\ Base(q)' = Base(q)
          BY <2>1, <2>4, <3>2 DEF SyncInv, Base
        <4> QED
          BY <1>2, <2>1, <4>1 DEF AllReach, Reaches
      <3> QED
        BY <3>1, <3>2
    <2> QED
      BY <2>2, <2>3, <2>4 DEF SyncInv, Base
  <1>13. ASSUME NEW r \in Refresh, Apply(r) PROVE SyncInv'
    <2>1. /\ UNCHANGED <<link, wire>> /\ seen' = Base(r) /\ refresh[r].at = "answered"
          /\ synced' = (synced \/ refresh[r].fresh)
          /\ \A q \in Refresh : q # r => refresh'[q] = refresh[q]
          /\ refresh'[r].fresh = refresh[r].fresh /\ refresh'[r].at = "saving"
      BY <1>1, <1>13 DEF Apply, linkVars, Base, Call
    <2>2. seen <= seen'
      BY <2>1, BaseTypes
    <2>3. synced' => link' = "up" /\ AllReach(seen)'
      <3>1. SUFFICES ASSUME synced \/ refresh[r].fresh PROVE link' = "up" /\ AllReach(seen)'
        BY <2>1
      <3>2. link = "up" /\ (AllReach(seen) \/ AllReach(Base(r)))
        BY <2>1, <3>1 DEF SyncInv, Base
      <3>3. PICK b \in Nat : b = seen
        BY <1>1
      <3>4. PICK c \in Nat : c = seen'
        BY <1>1
      <3>5. b <= c /\ c <= c /\ (AllReach(b) \/ AllReach(c))
        BY <2>1, <2>2, <3>2, <3>3, <3>4
      <3>6. AllReach(c)'
        BY <1>6, <2>1, <3>2, <3>5
      <3> QED
        BY <2>1, <3>2, <3>4, <3>6 DEF AllReach, Reaches
    <2>4. ASSUME NEW q \in Refresh, refresh'[q].fresh PROVE link' = "up"
      BY <2>1, <2>4 DEF SyncInv
    <2>5. ASSUME NEW q \in Refresh, refresh'[q].fresh, refresh'[q].at = "answered"
          PROVE  AllReach(Base(q))'
      <3>1. refresh'[q] = refresh[q] /\ link = "up" /\ AllReach(Base(q))
        BY <2>1, <2>5 DEF SyncInv, Base
      <3>2. PICK d \in Nat : d = refresh[q].data.moment
        BY BaseTypes
      <3>3. Base(q) = Later(seen, d) /\ Base(q)' = Later(seen', d)
        BY <3>1, <3>2 DEF Base
      <3>4. Later(seen, d) <= Later(seen', d)
        BY <1>1, <2>2 DEF Later
      <3>5. PICK b \in Nat : b = Later(seen, d)
        BY <1>1, LaterTypes
      <3>6. PICK c \in Nat : c = Later(seen', d)
        BY <1>1, LaterTypes
      <3>7. b <= c /\ AllReach(b)
        BY <3>1, <3>3, <3>4, <3>5, <3>6
      <3>8. AllReach(c)'
        BY <1>6, <2>1, <3>1, <3>7
      <3>9. Base(q)' = c
        BY <3>3, <3>6
      <3> QED
        BY <3>8, <3>9 DEF AllReach, Reaches
    <2> QED
      BY <2>3, <2>4, <2>5 DEF SyncInv, Base
  <1> QED
    BY <1>3, <1>4, <1>5, <1>8, <1>9, <1>10, <1>11, <1>12, <1>13

(* What happens to the session ends the connection or leaves it alone.     *)
LEMMA SessionKeepsSync ==
  ASSUME TypeOK, TypeOK', SyncInv, SessionStep
  PROVE  SyncInv'
  <1>1. refresh \in [Refresh -> Call]
    BY DEF TypeOK
  <1>2. ASSUME ~synced', \A r \in Refresh : ~refresh'[r].fresh PROVE SyncInv'
    BY <1>2 DEF SyncInv
  <1>3. ASSUME Outdated PROVE \A r \in Refresh : ~refresh'[r].fresh
    BY <1>1, <1>3 DEF Outdated, Call
  <1>4. ASSUME NEW over \in {{}} \cup {{r} : r \in Refresh}, Unauthorised(over) PROVE SyncInv'
    <2>1. ~synced' /\ \A r \in Refresh : ~refresh'[r].fresh
      BY <1>1, <1>4 DEF Unauthorised, CutOff, Call, Idle
    <2> QED
      BY <1>2, <2>1
  <1>5. CASE ForgetCloses
    BY <1>2, <1>3, <1>5 DEF ForgetCloses, CutOff
  <1>6. CASE ForgetsSession \/ ForgetsSnapshot
    <2>1. UNCHANGED <<device, casting, abandoned, link, wire, refresh, seen, synced>>
      BY <1>6 DEF ForgetsSession, ForgetsSnapshot, gatewayVars, linkVars
    <2> QED
      BY <2>1 DEF SyncInv, AllReach, Reaches
  <1>7. CASE Forgotten
    BY <1>2, <1>3, <1>7 DEF Forgotten
  <1>8. CASE Pair
    BY <1>2, <1>3, <1>8 DEF Pair, CutOff
  <1> QED
    BY <1>4, <1>5, <1>6, <1>7, <1>8 DEF SessionStep

LEMMA InitSync == Init => SyncInv
  BY DEF Init, SyncInv, Idle

LEMMA NextSync == TypeOK /\ TypeOK' /\ SyncInv /\ [Next]_vars => SyncInv'
  <1> SUFFICES ASSUME TypeOK, TypeOK', SyncInv, [Next]_vars PROVE SyncInv'
    OBVIOUS
  <1>1. CASE UNCHANGED vars
    BY <1>1 DEF vars, gatewayVars, linkVars, appVars, SyncInv, AllReach, Reaches
  <1> QED
    BY <1>1, GatewayKeepsSync, AppKeepsSync, SessionKeepsSync DEF Next

(* Subscribing before asking leaves no gap: when nothing is under way, the *)
(* app knows of every change whose event was not abandoned, for any number *)
(* of overlapping refreshes, drops and restarts.                           *)
THEOREM NoChangeIsMissed == Spec => []OnlyAbandonedIsUnseen
  <1>1. TypeOK /\ SyncInv => OnlyAbandonedIsUnseen
    <2> SUFFICES ASSUME TypeOK, SyncInv, Quiet, synced, NEW m \in 1 .. device.moment
                 PROVE  m <= seen \/ m \in abandoned
      BY DEF OnlyAbandonedIsUnseen
    <2>1. Reaches(m, seen)
      BY DEF SyncInv, AllReach
    <2>2. casting = {} /\ Len(wire) = 0
      BY DEF Quiet
    <2> QED
      BY <2>1, <2>2 DEF Reaches
  <1> QED
    BY <1>1, TypeCorrect, InitSync, NextSync, PTL DEF Spec

-----------------------------------------------------------------------------
(* A later moment keeps older copies genuine. *)
LEMMA GenuineLater ==
  ASSUME NEW c \in Copy, NEW m \in Nat, NEW n \in Nat, m <= n, Genuine(c, m)
  PROVE  Genuine(c, n)
  BY DEF Genuine, Copy

LEMMA GatewayKeepsGenuine ==
  ASSUME TypeOK, TypeOK', GenuineInv,
         Change \/ Register \/ Delete \/ \E e \in casting : Cast(e) \/ Abandon(e)
  PROVE  GenuineInv'
  <1>1. UNCHANGED <<view, store, seen, overwritten, refresh>>
    BY DEF Change, Register, Delete, Cast, Abandon, appVars
  <1>2. /\ device \in Copy /\ casting \subseteq Event /\ wire \in Seq(Event)
        /\ removals \in Nat /\ seen \in Nat /\ view \in Copy /\ store \in Copy
        /\ \A r \in Refresh : refresh[r].data \in Copy
        /\ \A i \in 1 .. Len(wire) : wire[i] \in Event
    BY DEF TypeOK, Call
  <1>3. device.moment \in Nat /\ device.version \in Nat /\ \A e \in Event : e.copy \in Copy
    BY <1>2 DEF Copy, Event
  <1>4. CASE Delete
    <2>1. removals' # 0
      BY <1>2, <1>4 DEF Delete
    <2> QED
      BY <2>1 DEF GenuineInv
  <1>5. ASSUME ~Delete, removals = 0 => AllGenuine' PROVE GenuineInv'
    <2>1. UNCHANGED removals
      BY <1>5 DEF Change, Register, Cast, Abandon
    <2> QED
      BY <1>1, <1>5, <2>1 DEF GenuineInv
  (* A change or a registration. *)
  <1>6. ASSUME NEW v \in Nat, Announce("state.changed", v), UNCHANGED wire,
               v = device.moment + 1, removals = 0
        PROVE  AllGenuine'
    <2>1. /\ AllGenuine /\ device' = [version |-> v, moment |-> device.moment + 1]
          /\ casting' = casting \cup {[type |-> "state.changed", copy |-> device']}
      BY <1>6 DEF GenuineInv, Announce
    <2>2. PICK n \in Nat : n = device.moment + 1 /\ device.moment <= n
      BY <1>3
    <2>3. device'.moment = n /\ device'.version = n
      BY <1>6, <2>1, <2>2
    <2>4. ASSUME NEW c \in Copy, Genuine(c, device.moment) PROVE Genuine(c, n)
      BY <1>3, <2>2, <2>4, GenuineLater
    <2>5. Genuine(view, n) /\ Genuine(store, n) /\ \A r \in Refresh : Genuine(refresh[r].data, n)
      BY <1>2, <2>1, <2>4 DEF AllGenuine
    <2>6. seen <= n
      BY <1>2, <1>3, <2>1, <2>2 DEF AllGenuine
    <2>7. ASSUME NEW e \in casting' PROVE e.type = "state.changed" /\ Genuine(e.copy, n)
      <3>1. CASE e \in casting
        BY <1>2, <1>3, <2>1, <2>4, <3>1 DEF AllGenuine
      <3>2. CASE e = [type |-> "state.changed", copy |-> device']
        BY <2>2, <2>3, <3>2 DEF Genuine
      <3> QED
        BY <2>1, <3>1, <3>2
    <2>8. ASSUME NEW i \in 1 .. Len(wire)
          PROVE  wire[i].type = "state.changed" /\ Genuine(wire[i].copy, n)
      BY <1>2, <1>3, <2>1, <2>4, <2>8 DEF AllGenuine
    <2> QED
      BY <1>1, <1>6, <2>3, <2>5, <2>6, <2>7, <2>8 DEF AllGenuine
  <1>7. CASE Change
    <2>1. removals = 0 => device.version + 1 \in Nat /\ device.version + 1 = device.moment + 1
      BY <1>3 DEF GenuineInv, AllGenuine
    <2>2. Announce("state.changed", device.version + 1) /\ UNCHANGED wire
      BY <1>7 DEF Change, linkVars
    <2>3. removals = 0 => AllGenuine'
      BY <1>6, <2>1, <2>2
    <2>4. ~Delete
      BY <1>2, <1>7 DEF Change, Delete
    <2> QED
      BY <1>5, <2>3, <2>4
  <1>8. CASE Register
    <2>1. removals = 0 => device.moment + 1 = 1
      BY <1>3, <1>8 DEF GenuineInv, AllGenuine, Register, Here
    <2>2. Announce("state.changed", 1) /\ UNCHANGED wire
      BY <1>8 DEF Register, linkVars
    <2>3. removals = 0 => AllGenuine'
      BY <1>6, <2>1, <2>2
    <2>4. ~Delete
      BY <1>2, <1>8 DEF Register, Delete
    <2> QED
      BY <1>5, <2>3, <2>4
  <1>9. ASSUME NEW e \in casting, Cast(e) PROVE GenuineInv'
    <2>1. /\ UNCHANGED device /\ casting' \subseteq casting /\ e \in Event
          /\ wire' = wire \/ wire' = Append(wire, e)
      BY <1>2, <1>9 DEF Cast
    <2>2. ASSUME AllGenuine, NEW i \in 1 .. Len(wire')
          PROVE  wire'[i].type = "state.changed" /\ Genuine(wire'[i].copy, device.moment)
      <3>1. wire'[i] = e \/ (i \in 1 .. Len(wire) /\ wire'[i] = wire[i])
        BY <1>2, <2>1, <2>2
      <3> QED
        BY <2>2, <3>1 DEF AllGenuine
    <2>3. removals = 0 => AllGenuine'
      <3>1. SUFFICES ASSUME AllGenuine PROVE AllGenuine'
        BY DEF GenuineInv
      <3>2. \A f \in casting' : f.type = "state.changed" /\ Genuine(f.copy, device.moment)
        BY <2>1, <3>1 DEF AllGenuine
      <3> QED
        BY <1>1, <2>1, <2>2, <3>1, <3>2 DEF AllGenuine
    <2>4. ~Delete
      BY <1>2, <1>9 DEF Cast, Delete
    <2> QED
      BY <1>5, <2>3, <2>4
  <1>10. ASSUME NEW e \in casting, Abandon(e) PROVE GenuineInv'
    <2>1. UNCHANGED <<device, wire>> /\ casting' \subseteq casting
      BY <1>10 DEF Abandon, linkVars
    <2>2. removals = 0 => AllGenuine'
      BY <1>1, <2>1 DEF GenuineInv, AllGenuine
    <2>3. ~Delete
      BY <1>2, <1>10 DEF Abandon, Delete
    <2> QED
      BY <1>5, <2>2, <2>3
  <1> QED
    BY <1>4, <1>7, <1>8, <1>9, <1>10

LEMMA AppKeepsGenuine ==
  ASSUME TypeOK, TypeOK', GenuineInv,
         \/ Accept \/ Drop \/ Hear \/ Restart
         \/ \E r \in Refresh : Online(r) \/ Start(r) \/ Snapshot(r) \/ Apply(r) \/ Save(r) \/ Fail(r)
  PROVE  GenuineInv'
  <1>1. UNCHANGED <<device, casting, removals>>
    BY DEF Accept, Drop, Hear, Restart, Online, Start, Snapshot, Apply, Save, Fail, gatewayVars
  <1>2. /\ wire \in Seq(Event) /\ refresh \in [Refresh -> Call] /\ seen \in Nat
        /\ view \in Copy /\ store \in Copy /\ device.moment \in Nat
    BY DEF TypeOK, Copy
  <1>3. Genuine(Absent, device.moment) /\ Idle.data = Absent
    BY <1>2 DEF Genuine, Absent, Idle
  <1>4. SUFFICES ASSUME removals = 0, AllGenuine, ~overwritten => view.moment = seen
                 PROVE  AllGenuine' /\ (~overwritten' => view'.moment = seen')
    BY <1>1 DEF GenuineInv
  (* What a step must keep besides the copies of the gateway. *)
  <1>5. ASSUME \A r \in Refresh : Genuine(refresh'[r].data, device.moment),
               wire' = wire \/ wire' = <<>>,
               Genuine(view', device.moment), Genuine(store', device.moment),
               seen' <= device.moment
        PROVE  AllGenuine'
    <2>1. \A i \in 1 .. Len(wire') : wire'[i].type = "state.changed"
                                     /\ Genuine(wire'[i].copy, device.moment)
      BY <1>4, <1>5 DEF AllGenuine
    <2> QED
      BY <1>1, <1>4, <1>5, <2>1 DEF AllGenuine
  <1>6. /\ Genuine(view, device.moment) /\ Genuine(store, device.moment)
        /\ seen <= device.moment /\ Genuine(device, device.moment)
        /\ \A r \in Refresh : Genuine(refresh[r].data, device.moment)
    BY <1>2, <1>4 DEF AllGenuine, Genuine
  <1>7. CASE Accept
    BY <1>4, <1>5, <1>6, <1>7 DEF Accept, appVars
  <1>8. CASE Drop
    <2>1. \A r \in Refresh : refresh'[r].data = refresh[r].data
      BY <1>2, <1>8 DEF Drop, Outdated, Call
    <2>2. UNCHANGED <<view, store, seen, overwritten>> /\ wire' = <<>>
      BY <1>8 DEF Drop, CutOff
    <2> QED
      BY <1>4, <1>5, <1>6, <2>1, <2>2
  <1>9. CASE Hear
    <2>1. wire # <<>> /\ Len(wire) \in Nat \ {0} /\ Head(wire) = wire[1]
      BY <1>2, <1>9 DEF Hear
    <2>2. PICK e \in Event : e = Head(wire)
      BY <2>1, HeadTypes
    <2>3. /\ e.type = "state.changed" /\ Genuine(e.copy, device.moment)
          /\ e.copy.moment \in Nat /\ e.copy.version \in Nat
      BY <1>4, <2>1, <2>2 DEF AllGenuine, Event, Copy
    <2>4. /\ view' = Heard(e) /\ seen' = Later(seen, e.copy.moment)
          /\ UNCHANGED <<store, refresh, overwritten>> /\ wire' = Tail(wire)
      BY <1>9, <2>2 DEF Hear
    <2>5. Genuine(view', device.moment) /\ seen' <= device.moment
      BY <1>2, <1>6, <2>3, <2>4 DEF Heard, Later, Genuine
    <2>6. view.moment \in Nat /\ view.version \in Nat /\ view.version = view.moment
      BY <1>2, <1>6 DEF Copy, Genuine
    <2>7. ~overwritten' => view'.moment = seen'
      <3>1. SUFFICES ASSUME view.moment = seen PROVE view'.moment = seen'
        BY <1>4, <2>4
      <3>2. e.copy.version = e.copy.moment
        BY <2>3 DEF Genuine
      <3>3. CASE e.copy.version > view.version \/ ~Here(view)
        BY <1>2, <2>3, <2>4, <2>6, <3>1, <3>2, <3>3 DEF Heard, Later, Here
      <3>4. CASE ~(e.copy.version > view.version) /\ Here(view)
        BY <1>2, <2>3, <2>4, <2>6, <3>1, <3>2, <3>4 DEF Heard, Later
      <3> QED
        BY <3>3, <3>4
    <2>8. ASSUME NEW i \in 1 .. Len(wire')
          PROVE  wire'[i].type = "state.changed" /\ Genuine(wire'[i].copy, device.moment)
      <3>1. i + 1 \in 1 .. Len(wire) /\ wire'[i] = wire[i + 1]
        BY <1>2, <2>1, <2>4, <2>8
      <3> QED
        BY <1>4, <3>1 DEF AllGenuine
    <2> QED
      BY <1>1, <1>4, <1>6, <2>4, <2>5, <2>7, <2>8 DEF AllGenuine
  <1>10. CASE Restart
    <2>1. /\ refresh' = [r \in Refresh |-> Idle] /\ wire' = <<>> /\ view' = store
          /\ seen' = store.moment /\ UNCHANGED store
      BY <1>10 DEF Restart, CutOff
    <2>2. seen' <= device.moment
      BY <1>6, <2>1 DEF Genuine
    <2> QED
      BY <1>3, <1>5, <1>6, <2>1, <2>2
  <1>11. ASSUME NEW r \in Refresh, Online(r) \/ Start(r) \/ Snapshot(r) \/ Fail(r)
         PROVE  AllGenuine' /\ (~overwritten' => view'.moment = seen')
    <2>1. UNCHANGED <<view, store, seen, overwritten, wire>>
      BY <1>11 DEF Online, Start, Snapshot, Fail, appVars, linkVars
    <2>2. ASSUME NEW q \in Refresh PROVE Genuine(refresh'[q].data, device.moment)
      <3>1. CASE q # r
        <4>1. refresh'[q] = refresh[q]
          BY <1>2, <1>11, <3>1 DEF Online, Start, Snapshot, Fail, Ask
        <4> QED
          BY <1>6, <4>1
      <3>2. CASE q = r /\ Snapshot(r)
        <4>1. refresh'[r].data = device
          BY <1>2, <3>2 DEF Snapshot, Call
        <4> QED
          BY <1>6, <3>2, <4>1
      <3>3. CASE q = r /\ ~Snapshot(r)
        <4>1. \/ refresh' = refresh
              \/ refresh' = [refresh EXCEPT ![r] = Idle]
              \/ refresh' = [refresh EXCEPT ![r] = [Idle EXCEPT !.at = "asked",
                                                               !.fresh = link' = "up"]]
          BY <1>11, <3>3 DEF Online, Start, Fail, Ask
        <4>2. [Idle EXCEPT !.at = "asked", !.fresh = link' = "up"].data = Absent
          BY DEF Idle
        <4>3. refresh'[r].data = Absent \/ refresh'[r] = refresh[r]
          BY <1>2, <1>3, <4>1, <4>2
        <4> QED
          BY <1>3, <1>6, <3>3, <4>3
      <3> QED
        BY <3>1, <3>2, <3>3
    <2> QED
      BY <1>4, <1>5, <1>6, <2>1, <2>2
  <1>12. ASSUME NEW r \in Refresh, Apply(r)
         PROVE  AllGenuine' /\ (~overwritten' => view'.moment = seen')
    <2>1. PICK d \in Copy : d = refresh[r].data
      BY <1>2 DEF Call
    <2>2. d.moment \in Nat /\ Genuine(d, device.moment)
      BY <1>6, <2>1 DEF Copy
    <2>3. /\ view' = d /\ seen' = Later(seen, d.moment) /\ overwritten' = (d.moment < seen)
          /\ UNCHANGED <<store, wire>>
      BY <1>12, <2>1 DEF Apply, linkVars
    <2>4. \A q \in Refresh : refresh'[q].data = refresh[q].data
      BY <1>2, <1>12 DEF Apply, Call
    <2>5. seen' <= device.moment /\ (~overwritten' => view'.moment = seen')
      BY <1>2, <1>6, <2>2, <2>3 DEF Later, Genuine
    <2> QED
      BY <1>5, <1>6, <2>2, <2>3, <2>4, <2>5
  <1>13. ASSUME NEW r \in Refresh, Save(r)
         PROVE  AllGenuine' /\ (~overwritten' => view'.moment = seen')
    <2>1. /\ store' \in {store, refresh[r].data}
          /\ UNCHANGED <<view, seen, overwritten, wire>>
      BY <1>13 DEF Save, linkVars
    <2>2. ASSUME NEW q \in Refresh PROVE Genuine(refresh'[q].data, device.moment)
      <3>1. refresh'[q] = Idle \/ refresh'[q] = refresh[q]
        BY <1>2, <1>13 DEF Save
      <3> QED
        BY <1>3, <1>6, <3>1
    <2> QED
      BY <1>4, <1>5, <1>6, <2>1, <2>2
  <1> QED
    BY <1>7, <1>8, <1>9, <1>10, <1>11, <1>12, <1>13

(* Forgetting leaves no copy but those of refreshes that are under way.    *)
LEMMA SessionKeepsGenuine ==
  ASSUME TypeOK, GenuineInv, SessionStep
  PROVE  GenuineInv'
  <1>1. /\ UNCHANGED <<device, casting, removals>> /\ (wire' = wire \/ wire' = <<>>)
        /\ \/ view' = view /\ seen' = seen /\ overwritten' = overwritten
           \/ view' = Absent /\ seen' = 0
        /\ store' = store \/ store' = Absent
    <2>1. CASE \E over \in {{}} \cup {{r} : r \in Refresh} : Unauthorised(over)
      BY <2>1 DEF Unauthorised, CutOff, gatewayVars
    <2>2. CASE ForgetCloses \/ Pair
      BY <2>2 DEF ForgetCloses, Pair, CutOff, gatewayVars
    <2>3. CASE ForgetsSession \/ ForgetsSnapshot \/ Forgotten
      BY <2>3 DEF ForgetsSession, ForgetsSnapshot, Forgotten, gatewayVars, linkVars
    <2> QED
      BY <2>1, <2>2, <2>3 DEF SessionStep
  <1>2. refresh \in [Refresh -> Call] /\ device.moment \in Nat
    BY DEF TypeOK, Copy
  <1>3. Genuine(Absent, device.moment) /\ Idle.data = Absent /\ Absent.moment = 0
    BY <1>2 DEF Genuine, Absent, Idle
  <1>4. ASSUME NEW r \in Refresh PROVE refresh'[r].data = refresh[r].data \/ refresh'[r] = Idle
    <2>1. ASSUME NEW over, Unauthorised(over)
          PROVE  refresh'[r].data = refresh[r].data \/ refresh'[r] = Idle
      BY <1>2, <2>1 DEF Unauthorised, Call
    <2>2. CASE Outdated
      BY <1>2, <2>2 DEF Outdated, Call
    <2>3. CASE UNCHANGED refresh
      BY <2>3
    <2> QED
      BY <2>1, <2>2, <2>3
         DEF SessionStep, ForgetCloses, ForgetsSession, ForgetsSnapshot, Forgotten, Pair
  <1>5. SUFFICES ASSUME removals = 0, AllGenuine, ~overwritten => view.moment = seen
                 PROVE  AllGenuine' /\ (~overwritten' => view'.moment = seen')
    BY <1>1 DEF GenuineInv
  <1>6. \A r \in Refresh : Genuine(refresh'[r].data, device.moment)
    BY <1>3, <1>4, <1>5 DEF AllGenuine
  <1>7. /\ Genuine(view', device.moment) /\ Genuine(store', device.moment)
        /\ seen' <= device.moment /\ (~overwritten' => view'.moment = seen')
    BY <1>1, <1>2, <1>3, <1>5 DEF AllGenuine
  <1>8. \A i \in 1 .. Len(wire') : wire'[i].type = "state.changed"
                                   /\ Genuine(wire'[i].copy, device.moment)
    BY <1>1, <1>5 DEF AllGenuine
  <1> QED
    BY <1>1, <1>5, <1>6, <1>7, <1>8 DEF AllGenuine

LEMMA InitGenuine == Init => GenuineInv
  BY DEF Init, GenuineInv, AllGenuine, Genuine, Absent, Idle

LEMMA NextGenuine == TypeOK /\ TypeOK' /\ GenuineInv /\ [Next]_vars => GenuineInv'
  <1> SUFFICES ASSUME TypeOK, TypeOK', GenuineInv, [Next]_vars PROVE GenuineInv'
    OBVIOUS
  <1>1. CASE UNCHANGED vars
    BY <1>1 DEF vars, gatewayVars, linkVars, appVars, GenuineInv, AllGenuine
  <1> QED
    BY <1>1, GatewayKeepsGenuine, AppKeepsGenuine, SessionKeepsGenuine DEF Next

(* Versions suffice: while the device is not removed and no old snapshot   *)
(* came in last, the app shows the truth once nothing is under way.        *)
THEOREM VersionsSuffice == Spec => []CurrentUnlessOverwritten
  <1>1. TypeOK /\ SyncInv /\ GenuineInv => CurrentUnlessOverwritten
    <2> SUFFICES ASSUME TypeOK, SyncInv, GenuineInv, Quiet, synced,
                        device.moment \notin abandoned, removals = 0, ~overwritten
                 PROVE  view = device
      BY DEF CurrentUnlessOverwritten
    <2>1. /\ device \in Copy /\ view \in Copy /\ seen \in Nat
          /\ device.moment \in Nat /\ view.moment \in Nat
      BY DEF TypeOK, Copy
    <2>2. /\ view.moment = seen /\ seen <= device.moment
          /\ view.version = view.moment /\ device.version = device.moment
      BY DEF GenuineInv, AllGenuine, Genuine
    <2>3. casting = {} /\ Len(wire) = 0 /\ AllReach(seen)
      BY DEF Quiet, SyncInv
    <2>4. device.moment <= seen
      <3>1. CASE device.moment = 0
        BY <2>1, <3>1
      <3>2. CASE device.moment # 0
        <4>1. device.moment \in 1 .. device.moment
          BY <2>1, <3>2
        <4>2. Reaches(device.moment, seen)
          BY <2>3, <4>1 DEF AllReach
        <4> QED
          BY <2>3, <4>2 DEF Reaches
      <3> QED
        BY <3>1, <3>2
    <2>5. view.moment = device.moment /\ view.version = device.version
      BY <2>1, <2>2, <2>4
    <2> QED
      BY <2>1, <2>5 DEF Copy
  <1> QED
    BY <1>1, TypeCorrect, InitSync, NextSync, InitGenuine, NextGenuine, PTL DEF Spec

-----------------------------------------------------------------------------
(* EventStreams. *)

(* What Keep makes of a queue: its newest events and the new one. *)
LEMMA KeepKeeps ==
  ASSUME NEW s \in Seq(Nat), Len(s) <= QueueSize, NEW e \in Nat
  PROVE  /\ Keep(s, e) \in Seq(Nat) /\ Keep(s, e) # <<>>
         /\ Len(Keep(s, e)) = IF Len(s) = QueueSize THEN QueueSize ELSE Len(s) + 1
         /\ Keep(s, e)[Len(Keep(s, e))] = e
         /\ \A i \in 1 .. Len(Keep(s, e)) - 1 :
              Keep(s, e)[i] = IF Len(s) = QueueSize THEN s[i + 1] ELSE s[i]
  <1>1. QueueSize \in Nat /\ QueueSize > 0 /\ Len(s) \in Nat
    BY QueueHolds
  <1>2. ASSUME NEW t \in Seq(Nat)
        PROVE  /\ Append(t, e) \in Seq(Nat) /\ Append(t, e) # <<>>
               /\ Len(Append(t, e)) = Len(t) + 1 /\ Append(t, e)[Len(t) + 1] = e
               /\ \A i \in 1 .. Len(t) : Append(t, e)[i] = t[i]
    OBVIOUS
  <1>3. ASSUME Len(s) = QueueSize
        PROVE  /\ Tail(s) \in Seq(Nat) /\ Len(Tail(s)) = QueueSize - 1
               /\ \A i \in 1 .. QueueSize - 1 : Tail(s)[i] = s[i + 1]
    <2>1. s # <<>>
      BY <1>1, <1>3
    <2> QED
      BY <1>3, <2>1, HeadTailProperties, Zenon
  <1>4. CASE Len(s) = QueueSize
    <2>1. Keep(s, e) = Append(Tail(s), e)
      BY <1>4 DEF Keep
    <2>2. Len(Keep(s, e)) = QueueSize /\ Keep(s, e)[QueueSize] = e
      BY <1>1, <1>2, <1>3, <1>4, <2>1
    <2>3. \A i \in 1 .. QueueSize - 1 : Keep(s, e)[i] = s[i + 1]
      BY <1>1, <1>2, <1>3, <1>4, <2>1
    <2> QED
      BY <1>2, <1>3, <1>4, <2>1, <2>2, <2>3
  <1>5. CASE Len(s) # QueueSize
    <2>1. Keep(s, e) = Append(s, e)
      BY <1>5 DEF Keep
    <2> QED
      BY <1>1, <1>2, <1>5, <2>1
  <1> QED
    BY <1>4, <1>5

-----------------------------------------------------------------------------
LEMMA FeedInitTypes == FeedInit => FeedTypeOK
  <1> SUFFICES ASSUME FeedInit PROVE FeedTypeOK
    OBVIOUS
  <1>1. PICK audience \in Audiences :
          /\ sinks = audience \cap {"mqtt"}
          /\ socket = [w \in Sockets |-> IF w \in audience THEN "new" ELSE "gone"]
          /\ peer = [p \in Peers |-> IF p \in audience THEN "reads" ELSE "dead"]
          /\ stream = (IF "sse" \in audience THEN "off" ELSE "over")
    BY DEF FeedInit
  <1>2. Resting \in Broadcasts
    BY DEF Resting, Broadcasts
  <1>3. /\ running \in BOOLEAN /\ now \in Nat /\ version \in Nat
        /\ task \in [Tasks -> Broadcasts] /\ deadline \in Int
        /\ queue \in Seq(Nat) /\ recent \in Seq(Nat)
    BY <1>2 DEF FeedInit
  <1>4. bridge \in Bridges /\ published \in Nat \cup {None} /\ taken \in Nat \cup {None}
    BY DEF FeedInit, Bridges
  <1> QED
    BY <1>1, <1>3, <1>4 DEF FeedTypeOK, Subscribers

(* A task that has a subscriber to await has an event. *)
LEMMA TaskTypes ==
  ASSUME FeedTypeOK, NEW t \in Tasks
  PROVE  /\ task \in [Tasks -> Broadcasts] /\ Resting \in Broadcasts
         /\ task[t].left \subseteq Subscribers \cup {"start"} /\ task[t].failed \subseteq Sockets
         /\ task[t].event \in Nat \cup {None} /\ (task[t].left # {} => task[t].event \in Nat)
         /\ \A left \in SUBSET (Subscribers \cup {"start"}), failed \in SUBSET Sockets :
              task[t].event \in Nat =>
                [event |-> task[t].event, left |-> left, failed |-> failed] \in Broadcasts
  <1>1. task \in [Tasks -> Broadcasts] /\ task[t] \in Broadcasts
    BY DEF FeedTypeOK
  <1>2. Resting \in Broadcasts /\ Resting = [event |-> None, left |-> {}, failed |-> {}]
    BY DEF Resting, Broadcasts
  <1>3. \/ task[t] = Resting
        \/ task[t] \in [event : Nat, left : SUBSET (Subscribers \cup {"start"}), failed : SUBSET Sockets]
    BY <1>1 DEF Broadcasts
  <1>4. /\ task[t].left \subseteq Subscribers \cup {"start"} /\ task[t].failed \subseteq Sockets
        /\ task[t].event \in Nat \cup {None} /\ (task[t].left # {} => task[t].event \in Nat)
    BY <1>2, <1>3
  <1> QED
    BY <1>1, <1>2, <1>4 DEF Broadcasts

(* A task that begins a broadcast. *)
LEMMA FreshTask ==
  ASSUME NEW e, NEW l
  PROVE  [Resting EXCEPT !.event = e, !.left = l] = [event |-> e, left |-> l, failed |-> {}]
  <1>1. Resting \in [event : {None}, left : {{}}, failed : {{}}]
    BY DEF Resting
  <1> DEFINE new == [Resting EXCEPT !.event = e, !.left = l]
  <1>2. new \in [event : {e}, left : {l}, failed : {{}}]
    BY <1>1
  <1> HIDE DEF new
  <1>3. new.event = e /\ new.left = l /\ new.failed = {}
    BY <1>2
  <1>4. new = [event |-> new.event, left |-> new.left, failed |-> new.failed]
    BY <1>2
  <1>5. new = [event |-> e, left |-> l, failed |-> {}]
    BY <1>3, <1>4
  <1> QED
    BY <1>5 DEF new

LEMMA AwaitedTypes ==
  ASSUME FeedTypeOK, NEW t \in Tasks, NEW s \in task[t].left
  PROVE  /\ Awaited(t, s) \in [Tasks -> Broadcasts]
         /\ \A w \in Sockets : [Awaited(t, s) EXCEPT ![t].failed = @ \cup {w}] \in [Tasks -> Broadcasts]
  <1>1. task \in [Tasks -> Broadcasts] /\ task[t].event \in Nat /\ task[t] \in Broadcasts
    BY TaskTypes
  <1>2. task[t] \in [event : Nat, left : SUBSET (Subscribers \cup {"start"}), failed : SUBSET Sockets]
    BY <1>1 DEF Broadcasts, Resting, None
  <1>3. [task[t] EXCEPT !.left = @ \ {s}] \in
          [event : Nat, left : SUBSET (Subscribers \cup {"start"}), failed : SUBSET Sockets]
    BY <1>2
  <1>4. Awaited(t, s) = [task EXCEPT ![t] = [task[t] EXCEPT !.left = @ \ {s}]]
    BY DEF Awaited
  <1>5. Awaited(t, s) \in [Tasks -> Broadcasts] /\ Awaited(t, s)[t] = [task[t] EXCEPT !.left = @ \ {s}]
    BY <1>1, <1>3, <1>4 DEF Broadcasts
  <1>6. ASSUME NEW w \in Sockets
        PROVE  [Awaited(t, s) EXCEPT ![t].failed = @ \cup {w}] \in [Tasks -> Broadcasts]
    <2> DEFINE next == [task[t] EXCEPT !.left = @ \ {s}]
    <2>1. [next EXCEPT !.failed = @ \cup {w}] \in Broadcasts
      BY <1>3 DEF Broadcasts
    <2>2. [Awaited(t, s) EXCEPT ![t].failed = @ \cup {w}]
            = [Awaited(t, s) EXCEPT ![t] = [next EXCEPT !.failed = @ \cup {w}]]
      BY <1>5
    <2> HIDE DEF next
    <2> QED
      BY <1>5, <2>1, <2>2
  <1> QED
    BY <1>5, <1>6

(* What awaiting a subscriber does to the tasks, field by field. *)
LEMMA AwaitedDoes ==
  ASSUME FeedTypeOK, NEW t \in Tasks, NEW s
  PROVE  /\ \A o \in Tasks : /\ Awaited(t, s)[o].event = task[o].event
                             /\ Awaited(t, s)[o].failed = task[o].failed
                             /\ Awaited(t, s)[o].left = task[o].left \ (IF o = t THEN {s} ELSE {})
  <1>1. task \in [Tasks -> Broadcasts] /\ \A o \in Tasks : task[o] \in Broadcasts
    BY DEF FeedTypeOK
  <1>2. \A o \in Tasks : task[o] = [event |-> task[o].event, left |-> task[o].left, failed |-> task[o].failed]
    BY <1>1 DEF Broadcasts, Resting
  <1>3. Awaited(t, s)[t] = [task[t] EXCEPT !.left = @ \ {s}] /\ \A o \in Tasks \ {t} : Awaited(t, s)[o] = task[o]
    BY <1>1 DEF Awaited
  <1>4. [task[t] EXCEPT !.left = @ \ {s}]
          = [event |-> task[t].event, left |-> task[t].left \ {s}, failed |-> task[t].failed]
    <2>1. task[t] = [event |-> task[t].event, left |-> task[t].left, failed |-> task[t].failed]
      BY <1>2
    <2> QED
      BY <2>1
  <1>5. /\ Awaited(t, s)[t].event = task[t].event /\ Awaited(t, s)[t].failed = task[t].failed
        /\ Awaited(t, s)[t].left = task[t].left \ {s}
    BY <1>3, <1>4
  <1> QED
    BY <1>3, <1>5

LEMMA BroadcastTypes ==
  ASSUME FeedTypeOK, NEW t \in Tasks, ChangeState(t) \/ Broadcast(t)
  PROVE  FeedTypeOK'
  <1> USE DEF netVars, streamVars, mqttVars
  <1>1. /\ task \in [Tasks -> Broadcasts] /\ sinks \subseteq Subscribers /\ version \in Nat
        /\ queue \in Seq(Nat) /\ recent \in Seq(Nat) /\ published \in Nat \cup {None}
    BY DEF FeedTypeOK
  <1>2. CASE ChangeState(t)
    <2>1. version + 1 \in Nat
      BY <1>1
    <2>2. [Resting EXCEPT !.event = version + 1, !.left = {"start"}]
            = [event |-> version + 1, left |-> {"start"}, failed |-> {}]
      BY FreshTask
    <2>3. [Resting EXCEPT !.event = version + 1, !.left = {"start"}] \in Broadcasts
      BY <2>1, <2>2 DEF Broadcasts
    <2>4. task' \in [Tasks -> Broadcasts] /\ version' \in Nat
      BY <1>1, <1>2, <2>1, <2>3 DEF ChangeState
    <2> QED
      BY <1>2, <2>4 DEF ChangeState, FeedTypeOK
  <1>3. CASE Begin(t)
    <2>1. task[t] = [event |-> task[t].event, left |-> task[t].left, failed |-> task[t].failed]
      BY <1>1 DEF Broadcasts, Resting
    <2>2. [task[t] EXCEPT !.left = sinks]
            = [event |-> task[t].event, left |-> sinks, failed |-> task[t].failed]
      BY <2>1
    <2>3. /\ task[t].event \in Nat /\ task[t].failed \in SUBSET Sockets
          /\ sinks \in SUBSET (Subscribers \cup {"start"})
      BY <1>1, <1>3, TaskTypes DEF Begin
    <2>4. [event |-> task[t].event, left |-> sinks, failed |-> task[t].failed] \in Broadcasts
      BY <2>3, TaskTypes
    <2>5. task' \in [Tasks -> Broadcasts]
      BY <1>1, <1>3, <2>2, <2>4 DEF Begin
    <2> QED
      BY <1>3, <2>5 DEF Begin, FeedTypeOK
  <1>4. CASE Put(t)
    <2>1. task' \in [Tasks -> Broadcasts] /\ task[t].event \in Nat
      BY <1>4, TaskTypes, AwaitedTypes DEF Put
    <2>2. queue' \in Seq(Nat) /\ recent' \in Seq(Nat)
      BY <1>1, <1>4, <2>1, QueueHolds DEF Put, Keep
    <2> QED
      BY <1>4, <2>1, <2>2 DEF Put, FeedTypeOK
  <1>5. CASE PublishEvent(t)
    <2>1. task' \in [Tasks -> Broadcasts] /\ task[t].event \in Nat
      BY <1>5, TaskTypes, AwaitedTypes DEF PublishEvent
    <2>2. published' \in Nat \cup {None}
      BY <1>1, <1>5, <2>1 DEF PublishEvent, Told
    <2> QED
      BY <1>5, <2>1, <2>2 DEF PublishEvent, FeedTypeOK
  <1>6. CASE Finish(t)
    <2>1. task' \in [Tasks -> Broadcasts] /\ sinks' \subseteq Subscribers
      BY <1>1, <1>6, TaskTypes DEF Finish
    <2> QED
      BY <1>6, <2>1 DEF Finish, FeedTypeOK
  <1>7. ASSUME NEW w \in Sockets, Send(t, w) PROVE FeedTypeOK'
    <2>1. task' \in [Tasks -> Broadcasts]
      BY <1>7, AwaitedTypes DEF Send
    <2> QED
      BY <1>7, <2>1 DEF Send, FeedTypeOK
  <1>8. ASSUME NEW w \in Sockets, SendFails(t, w) PROVE FeedTypeOK'
    <2>1. task' \in [Tasks -> Broadcasts]
      BY <1>8, AwaitedTypes DEF SendFails
    <2> QED
      BY <1>8, <2>1 DEF SendFails, FeedTypeOK
  <1> QED
    BY <1>2, <1>3, <1>4, <1>5, <1>6, <1>7, <1>8 DEF Broadcast

LEMMA StreamTypes ==
  ASSUME FeedTypeOK, Subscribe \/ Stream \/ Pass
  PROVE  FeedTypeOK'
  <1> USE DEF netVars, mqttVars
  <1>1. /\ now \in Nat /\ sinks \subseteq Subscribers /\ queue \in Seq(Nat) /\ deadline \in Int
        /\ Beat \in Nat /\ ExpiresAt \in Int
    BY ClockIs DEF FeedTypeOK
  <1>2. CASE Subscribe
    BY <1>1, <1>2 DEF Subscribe, FeedTypeOK, Subscribers
  <1>3. CASE Yield
    BY <1>3 DEF Yield, FeedTypeOK
  <1>4. CASE EndDead \/ CheckEnds
    BY <1>1, <1>4 DEF EndDead, CheckEnds, End, FeedTypeOK
  <1>5. CASE Wait
    <2>1. deadline' \in Int
      BY <1>1, <1>5 DEF Wait
    <2> QED
      BY <1>5, <2>1 DEF Wait, FeedTypeOK
  <1>6. CASE Take
    <2>1. taken' \in Nat /\ queue' \in Seq(Nat)
      BY <1>1, <1>6 DEF Take
    <2> QED
      BY <1>6, <2>1 DEF Take, FeedTypeOK
  <1>7. CASE TimeOut
    BY <1>7 DEF TimeOut, FeedTypeOK
  <1>8. CASE Pass
    <2>1. now' \in Nat
      BY <1>1, <1>8 DEF Pass
    <2> QED
      BY <1>8, <2>1 DEF Pass, FeedTypeOK, streamVars
  <1> QED
    BY <1>2, <1>3, <1>4, <1>5, <1>6, <1>7, <1>8 DEF Stream

LEMMA MqttTypes ==
  ASSUME FeedTypeOK, Mqtt \/ HeartbeatDue
  PROVE  FeedTypeOK'
  <1> USE DEF netVars, streamVars, mqttVars
  <1>1. /\ task \in [Tasks -> Broadcasts] /\ Resting \in Broadcasts /\ sinks \subseteq Subscribers
        /\ version \in Nat /\ published \in Nat \cup {None} /\ bridge \in Bridges
    BY TaskTypes DEF FeedTypeOK, Tasks
  <1>2. /\ bridge = [connects |-> bridge.connects, online |-> bridge.online, held |-> bridge.held]
        /\ bridge.connects \in Nat /\ bridge.held \in Nat \cup {None}
    BY <1>1 DEF Bridges
  <1>3. bridge.online \in BOOLEAN /\ bridge.connects + 1 \in Nat
    BY <1>1, <1>2 DEF Bridges
  <1>4. CASE OnConnect
    <2>1. bridge' \in Bridges
      BY <1>1, <1>3, <1>4 DEF OnConnect, Bridges
    <2> QED
      BY <1>4, <2>1 DEF OnConnect, FeedTypeOK
  <1>5. CASE PublishSnapshot
    <2>1. bridge' \in Bridges
      BY <1>1, <1>5 DEF PublishSnapshot, Bridges
    <2>2. published' \in Nat \cup {None}
      BY <1>1, <1>2, <1>5 DEF PublishSnapshot, Told
    <2> QED
      BY <1>5, <2>1, <2>2 DEF PublishSnapshot, FeedTypeOK
  <1>6. CASE OnDisconnect
    <2>1. bridge' \in Bridges
      BY <1>1, <1>6 DEF OnDisconnect, Bridges
    <2> QED
      BY <1>6, <2>1 DEF OnDisconnect, FeedTypeOK
  <1>7. CASE Stop
    <2>1. bridge' \in Bridges
      BY <1>1, <1>7 DEF Stop, Bridges
    <2>2. task' \in [Tasks -> Broadcasts] /\ sinks' \subseteq Subscribers
      BY <1>1, <1>7 DEF Stop
    <2> QED
      BY <1>7, <2>1, <2>2 DEF Stop, FeedTypeOK
  <1>8. CASE HeartbeatDue
    <2>1. [Resting EXCEPT !.event = Beats, !.left = sinks] = [event |-> Beats, left |-> sinks, failed |-> {}]
      BY FreshTask
    <2>2. [Resting EXCEPT !.event = Beats, !.left = sinks] \in Broadcasts
      BY <1>1, <2>1 DEF Broadcasts, Beats
    <2>3. task' \in [Tasks -> Broadcasts]
      BY <1>1, <1>8, <2>2 DEF HeartbeatDue
    <2> QED
      BY <1>8, <2>3 DEF HeartbeatDue, FeedTypeOK
  <1> QED
    BY <1>4, <1>5, <1>6, <1>7, <1>8 DEF Mqtt

LEMMA NetTypes ==
  ASSUME FeedTypeOK,
         \/ \E w \in Sockets : AcceptSocket(w) \/ Greet(w) \/ Leave(w)
         \/ \E p \in Peers : Stall(p) \/ Unstall(p)
  PROVE  FeedTypeOK'
  <1> USE DEF streamVars, mqttVars
  <1>1. /\ sinks \subseteq Subscribers /\ socket \in [Sockets -> {"new", "greeting", "open", "gone"}]
        /\ peer \in [Peers -> {"reads", "stalls", "steady", "dead"}]
    BY DEF FeedTypeOK
  <1>2. ASSUME NEW w \in Sockets, AcceptSocket(w) PROVE FeedTypeOK'
    BY <1>1, <1>2 DEF AcceptSocket, FeedTypeOK, Subscribers
  <1>3. ASSUME NEW w \in Sockets, Greet(w) PROVE FeedTypeOK'
    BY <1>1, <1>3 DEF Greet, FeedTypeOK
  <1>4. ASSUME NEW w \in Sockets, Leave(w) PROVE FeedTypeOK'
    BY <1>1, <1>4 DEF Leave, FeedTypeOK
  <1>5. ASSUME NEW p \in Peers, Stall(p) PROVE FeedTypeOK'
    BY <1>1, <1>5 DEF Stall, FeedTypeOK
  <1>6. ASSUME NEW p \in Peers, Unstall(p) PROVE FeedTypeOK'
    BY <1>1, <1>6 DEF Unstall, FeedTypeOK
  <1> QED
    BY <1>2, <1>3, <1>4, <1>5, <1>6

(* Every variable of the streams has its type in every reachable state. *)
THEOREM FeedTypeCorrect == FeedSpec => []FeedTypeOK
  <1>1. FeedTypeOK /\ [FeedNext]_feedVars => FeedTypeOK'
    <2> SUFFICES ASSUME FeedTypeOK, [FeedNext]_feedVars PROVE FeedTypeOK'
      OBVIOUS
    <2>1. CASE UNCHANGED feedVars
      BY <2>1 DEF feedVars, netVars, streamVars, mqttVars, FeedTypeOK
    <2> QED
      BY <2>1, BroadcastTypes, StreamTypes, MqttTypes, NetTypes DEF FeedNext
  <1> QED
    BY <1>1, FeedInitTypes, PTL DEF FeedSpec

-----------------------------------------------------------------------------
(* What each step does to the tasks: the others stay as they are. *)
LEMMA TaskSteps ==
  ASSUME FeedTypeOK, NEW t \in Tasks
  PROVE  /\ ChangeState(t) => task'[t].event = version + 1 /\ task'[t].left = {"start"} /\ task'[t].failed = {}
         /\ Begin(t) => /\ task'[t].event = task[t].event /\ task'[t].left = sinks
                        /\ task'[t].failed = task[t].failed
         /\ Finish(t) => task'[t].event = None /\ task'[t].left = {} /\ task'[t].failed = {}
         /\ HeartbeatDue => /\ task'["heartbeat"].event = Beats /\ task'["heartbeat"].left = sinks
                            /\ task'["heartbeat"].failed = {}
         /\ ChangeState(t) \/ Begin(t) \/ Finish(t) => \A o \in Tasks \ {t} : task'[o] = task[o]
         /\ HeartbeatDue => \A o \in Tasks \ {"heartbeat"} : task'[o] = task[o]
  <1>1. task \in [Tasks -> Broadcasts] /\ "heartbeat" \in Tasks
    BY DEF FeedTypeOK, Tasks
  <1>2. ASSUME ChangeState(t)
        PROVE  task'[t].event = version + 1 /\ task'[t].left = {"start"} /\ task'[t].failed = {}
    <2>1. task'[t] = [Resting EXCEPT !.event = version + 1, !.left = {"start"}]
      BY <1>1, <1>2 DEF ChangeState
    <2> QED
      BY <2>1, FreshTask
  <1>3. ASSUME Begin(t)
        PROVE  task'[t].event = task[t].event /\ task'[t].left = sinks /\ task'[t].failed = task[t].failed
    <2>1. task[t] = [event |-> task[t].event, left |-> task[t].left, failed |-> task[t].failed]
      BY <1>1 DEF Broadcasts, Resting
    <2>2. [task[t] EXCEPT !.left = sinks]
            = [event |-> task[t].event, left |-> sinks, failed |-> task[t].failed]
      BY <2>1
    <2>3. task'[t] = [task[t] EXCEPT !.left = sinks]
      BY <1>1, <1>3 DEF Begin
    <2> QED
      BY <2>2, <2>3
  <1>4. ASSUME Finish(t) PROVE task'[t].event = None /\ task'[t].left = {} /\ task'[t].failed = {}
    BY <1>1, <1>4 DEF Finish, Resting
  <1>5. ASSUME HeartbeatDue
        PROVE  /\ task'["heartbeat"].event = Beats /\ task'["heartbeat"].left = sinks
               /\ task'["heartbeat"].failed = {}
    <2>1. task'["heartbeat"] = [Resting EXCEPT !.event = Beats, !.left = sinks]
      BY <1>1, <1>5 DEF HeartbeatDue
    <2> QED
      BY <2>1, FreshTask
  <1>6. ChangeState(t) \/ Begin(t) \/ Finish(t) => \A o \in Tasks \ {t} : task'[o] = task[o]
    BY <1>1 DEF ChangeState, Begin, Finish
  <1>7. HeartbeatDue => \A o \in Tasks \ {"heartbeat"} : task'[o] = task[o]
    BY <1>1 DEF HeartbeatDue
  <1> QED
    BY <1>2, <1>3, <1>4, <1>5, <1>6, <1>7

LEMMA SendFailsDoes ==
  ASSUME FeedTypeOK, NEW t \in Tasks, NEW w \in Sockets, SendFails(t, w)
  PROVE  /\ task'[t].event = task[t].event /\ task'[t].left = task[t].left \ {w}
         /\ task'[t].failed = task[t].failed \cup {w}
         /\ \A o \in Tasks \ {t} : task'[o] = task[o]
  <1> DEFINE next == [event |-> task[t].event, left |-> task[t].left \ {w}, failed |-> task[t].failed]
  <1>1. task \in [Tasks -> Broadcasts]
    BY DEF FeedTypeOK
  <1>2. task[t] = [event |-> task[t].event, left |-> task[t].left, failed |-> task[t].failed]
    BY <1>1 DEF Broadcasts, Resting
  <1>3. [task[t] EXCEPT !.left = @ \ {w}] = next
    BY <1>2
  <1>4. Awaited(t, w) \in [Tasks -> Broadcasts]
    BY AwaitedTypes DEF SendFails
  <1>5. Awaited(t, w)[t] = next /\ \A o \in Tasks \ {t} : Awaited(t, w)[o] = task[o]
    BY <1>1, <1>3 DEF Awaited
  <1>6. task' = [Awaited(t, w) EXCEPT ![t].failed = @ \cup {w}]
    BY DEF SendFails
  <1> HIDE DEF next
  <1>7. task'[t] = [next EXCEPT !.failed = @ \cup {w}] /\ \A o \in Tasks \ {t} : task'[o] = task[o]
    BY <1>4, <1>5, <1>6
  <1> QED
    BY <1>7 DEF next

-----------------------------------------------------------------------------
(* A step that changes no sink, connection or peer, and lets a task wait   *)
(* for nobody new, keeps who is there subscribed.                          *)
LEMMA TasksOnly ==
  ASSUME FeedTypeOK, OpenIsSubscribed, FailedIsLost,
         UNCHANGED <<sinks, socket, peer, stream, bridge>>,
         \A t \in Tasks : /\ task'[t].left \subseteq task[t].left \cup sinks \cup {"start"}
                         /\ task'[t].failed \subseteq task[t].failed
  PROVE  OpenIsSubscribed' /\ FailedIsLost'
  <1>1. \A w \in Sockets : w # "start"
    BY SocketNames
  <1>2. OpenIsSubscribed'
    BY DEF OpenIsSubscribed, Open, Dead
  <1>3. \A w \in Sockets, t \in Tasks : w \in sinks \cup task'[t].left => socket[w] # "new"
    BY <1>1 DEF FailedIsLost
  <1>4. \A t \in Tasks : \A w \in task'[t].failed : socket[w] = "gone" \/ (socket[w] # "new" /\ Dead(w))
    BY DEF FailedIsLost
  <1> QED
    BY <1>2, <1>3, <1>4 DEF FailedIsLost, Dead

LEMMA BroadcastKeepsSinks ==
  ASSUME FeedTypeOK, OpenIsSubscribed, FailedIsLost,
         NEW t \in Tasks, ChangeState(t) \/ Broadcast(t) \/ HeartbeatDue
  PROVE  OpenIsSubscribed' /\ FailedIsLost'
  <1> USE DEF netVars, streamVars, mqttVars
  <1>1. "heartbeat" \in Tasks
    BY DEF Tasks
  <1>2. CASE ChangeState(t)
    BY <1>2, TaskSteps, TasksOnly DEF ChangeState
  <1>3. CASE HeartbeatDue
    BY <1>1, <1>3, TaskSteps, TasksOnly DEF HeartbeatDue
  <1>4. CASE Begin(t)
    BY <1>4, TaskSteps, TasksOnly DEF Begin
  <1>5. CASE Put(t)
    <2>1. task' = Awaited(t, "sse")
      BY <1>5 DEF Put
    <2> QED
      BY <1>5, <2>1, AwaitedDoes, TasksOnly DEF Put
  <1>6. CASE PublishEvent(t)
    <2>1. task' = Awaited(t, "mqtt")
      BY <1>6 DEF PublishEvent
    <2> QED
      BY <1>6, <2>1, AwaitedDoes, TasksOnly DEF PublishEvent
  <1>7. ASSUME NEW w \in Sockets, Send(t, w) PROVE OpenIsSubscribed' /\ FailedIsLost'
    <2>1. task' = Awaited(t, w)
      BY <1>7 DEF Send
    <2> QED
      BY <1>7, <2>1, AwaitedDoes, TasksOnly DEF Send
  <1>8. ASSUME NEW w \in Sockets, SendFails(t, w) PROVE OpenIsSubscribed' /\ FailedIsLost'
    <2>1. UNCHANGED <<sinks, socket, peer, stream, bridge>> /\ socket[w] # "new"
      BY <1>8 DEF SendFails, FailedIsLost
    <2>2. socket[w] = "gone" \/ Dead(w)
      BY <1>8, <2>1 DEF SendFails, Open, FeedTypeOK
    <2>3. OpenIsSubscribed'
      BY <2>1 DEF OpenIsSubscribed, Open, Dead
    <2>4. \A v \in Sockets, o \in Tasks : v \in sinks \cup task'[o].left => socket[v] # "new"
      BY <1>8, SendFailsDoes DEF FailedIsLost
    <2>5. \A o \in Tasks : \A v \in task'[o].failed : socket[v] = "gone" \/ (socket[v] # "new" /\ Dead(v))
      BY <1>8, <2>1, <2>2, SendFailsDoes DEF FailedIsLost
    <2> QED
      BY <2>1, <2>3, <2>4, <2>5 DEF FailedIsLost, Dead
  <1>9. CASE Finish(t)
    <2>1. UNCHANGED <<socket, peer, stream, bridge>> /\ sinks' = sinks \ task[t].failed
      BY <1>9 DEF Finish
    <2>2. task[t].failed \subseteq Sockets /\ "sse" \notin Sockets /\ "mqtt" \notin Sockets
      BY TaskTypes, SocketNames
    <2>3. \A w \in Sockets : Open(w) /\ ~Dead(w) => w \notin task[t].failed
      BY DEF FailedIsLost, Open
    <2>4. OpenIsSubscribed'
      BY <2>1, <2>2, <2>3 DEF OpenIsSubscribed, Open, Dead
    <2>5. \A w \in Sockets, o \in Tasks : w \in sinks' \cup task'[o].left => socket[w] # "new"
      BY <1>9, <2>1, TaskSteps DEF FailedIsLost
    <2>6. \A o \in Tasks : \A w \in task'[o].failed : socket[w] = "gone" \/ (socket[w] # "new" /\ Dead(w))
      BY <1>9, TaskSteps DEF FailedIsLost
    <2> QED
      BY <2>1, <2>4, <2>5, <2>6 DEF FailedIsLost, Dead
  <1> QED
    BY <1>2, <1>3, <1>4, <1>5, <1>6, <1>7, <1>8, <1>9 DEF Broadcast

(* Connections only go forward, and a peer that died stays dead. *)
LEMMA NetKeepsSinks ==
  ASSUME FeedTypeOK, OpenIsSubscribed, FailedIsLost,
         \/ \E w \in Sockets : AcceptSocket(w) \/ Greet(w) \/ Leave(w)
         \/ \E p \in Peers : Stall(p) \/ Unstall(p)
  PROVE  OpenIsSubscribed' /\ FailedIsLost'
  <1> USE DEF streamVars, mqttVars
  <1>1. /\ socket \in [Sockets -> {"new", "greeting", "open", "gone"}]
        /\ peer \in [Peers -> {"reads", "stalls", "steady", "dead"}] /\ Sockets \subseteq Peers
        /\ \A w \in Sockets : w # "sse" /\ w # "mqtt"
        /\ \A t \in Tasks : task[t].failed \subseteq Sockets
    BY TaskTypes, SocketNames DEF FeedTypeOK, Peers
  <1>2. ASSUME NEW w \in Sockets, AcceptSocket(w) PROVE OpenIsSubscribed' /\ FailedIsLost'
    <2>1. OpenIsSubscribed'
      BY <1>1, <1>2 DEF AcceptSocket, OpenIsSubscribed, Open, Dead
    <2>2. FailedIsLost'
      BY <1>1, <1>2 DEF AcceptSocket, FailedIsLost, Dead
    <2> QED
      BY <2>1, <2>2
  <1>3. ASSUME NEW w \in Sockets, Greet(w) PROVE OpenIsSubscribed' /\ FailedIsLost'
    <2>1. OpenIsSubscribed'
      BY <1>1, <1>3 DEF Greet, OpenIsSubscribed, Open, Dead
    <2>2. FailedIsLost'
      BY <1>1, <1>3 DEF Greet, FailedIsLost, Dead
    <2> QED
      BY <2>1, <2>2
  <1>4. ASSUME NEW w \in Sockets, Leave(w) PROVE OpenIsSubscribed' /\ FailedIsLost'
    <2>1. OpenIsSubscribed'
      BY <1>1, <1>4 DEF Leave, OpenIsSubscribed, Open, Dead
    <2>2. FailedIsLost'
      BY <1>1, <1>4 DEF Leave, FailedIsLost, Dead
    <2> QED
      BY <2>1, <2>2
  <1>5. ASSUME NEW p \in Peers, Stall(p) \/ Unstall(p) PROVE OpenIsSubscribed' /\ FailedIsLost'
    <2>1. /\ UNCHANGED <<task, sinks, socket, stream, bridge>>
          /\ \A w \in Peers : Dead(w) => peer'[w] = "dead"
      BY <1>1, <1>5 DEF Stall, Unstall, Dead
    <2>2. OpenIsSubscribed'
      BY <1>1, <2>1 DEF OpenIsSubscribed, Open, Dead
    <2>3. FailedIsLost'
      BY <1>1, <2>1 DEF FailedIsLost, Dead
    <2> QED
      BY <2>2, <2>3
  <1> QED
    BY <1>2, <1>3, <1>4, <1>5

LEMMA OthersKeepSinks ==
  ASSUME FeedTypeOK, OpenIsSubscribed, FailedIsLost,
         Subscribe \/ Stream \/ Mqtt \/ Pass \/ UNCHANGED feedVars
  PROVE  OpenIsSubscribed' /\ FailedIsLost'
  <1> USE DEF netVars, streamVars, mqttVars
  <1>1. \A w \in Sockets : w # "sse" /\ w # "mqtt"
    BY SocketNames
  <1>2. CASE Subscribe
    BY <1>1, <1>2 DEF Subscribe, OpenIsSubscribed, FailedIsLost, Open, Dead
  <1>3. CASE Yield \/ Wait \/ Take \/ TimeOut
    <2>1. UNCHANGED <<sinks, task, socket, peer, bridge>> /\ "sse" \in sinks
      BY <1>3 DEF Yield, Wait, Take, TimeOut, OpenIsSubscribed
    <2> QED
      BY <2>1 DEF OpenIsSubscribed, FailedIsLost, Open, Dead
  <1>4. CASE EndDead \/ CheckEnds
    <2>1. End
      BY <1>4 DEF EndDead, CheckEnds
    <2> QED
      BY <1>1, <2>1 DEF End, OpenIsSubscribed, FailedIsLost, Open, Dead
  <1>5. CASE OnConnect \/ PublishSnapshot \/ OnDisconnect
    <2>1. UNCHANGED <<sinks, task, socket, peer, stream>> /\ (bridge'.online => "mqtt" \in sinks)
      <3>1. bridge \in Bridges
        BY DEF FeedTypeOK
      <3>2. bridge = [connects |-> bridge.connects, online |-> bridge.online, held |-> bridge.held]
        BY <3>1 DEF Bridges
      <3>3. CASE OnConnect
        BY <3>3 DEF OnConnect
      <3>4. CASE PublishSnapshot
        BY <3>2, <3>4 DEF PublishSnapshot, OpenIsSubscribed
      <3>5. CASE OnDisconnect
        BY <3>2, <3>5 DEF OnDisconnect, OpenIsSubscribed
      <3> QED
        BY <1>5, <3>3, <3>4, <3>5
    <2> QED
      BY <2>1 DEF OpenIsSubscribed, FailedIsLost, Open, Dead
  <1>6. CASE Stop
    <2>1. /\ UNCHANGED <<socket, peer, stream>> /\ sinks' = sinks \ {"mqtt"} /\ bridge'.online = FALSE
          /\ \A t \in Tasks : task'[t] = task[t] \/ task'[t] = Resting
      <3>1. bridge \in Bridges /\ task \in [Tasks -> Broadcasts]
        BY DEF FeedTypeOK
      <3> QED
        BY <1>6, <3>1 DEF Stop, Bridges
    <2>2. OpenIsSubscribed'
      BY <1>1, <2>1 DEF OpenIsSubscribed, Open, Dead
    <2>3. \A t \in Tasks : task'[t].left \subseteq task[t].left /\ task'[t].failed \subseteq task[t].failed
      BY <2>1 DEF Resting
    <2> QED
      BY <2>1, <2>2, <2>3 DEF FailedIsLost, Dead
  <1>7. CASE Pass \/ UNCHANGED feedVars
    BY <1>7 DEF Pass, feedVars, OpenIsSubscribed, FailedIsLost, Open, Dead
  <1> QED
    BY <1>2, <1>3, <1>4, <1>5, <1>6, <1>7 DEF Stream, Mqtt

(* Whoever fails during whichever broadcast, a connection that is open and *)
(* whose peer lives stays among the sinks.                                 *)
THEOREM StaysSubscribed == FeedSpec => []OpenIsSubscribed
  <1> DEFINE Inv == OpenIsSubscribed /\ FailedIsLost
  <1>1. FeedInit => Inv
    <2> SUFFICES ASSUME FeedInit PROVE Inv
      OBVIOUS
    <2>1. /\ task = [t \in Tasks |-> Resting] /\ sinks \subseteq {"mqtt"} /\ bridge.online = FALSE
          /\ \A w \in Sockets : socket[w] \in {"new", "gone"} /\ w # "mqtt"
          /\ stream \in {"off", "over"}
      BY SocketNames DEF FeedInit
    <2> QED
      BY <2>1 DEF OpenIsSubscribed, FailedIsLost, Open, Resting
  <1>2. FeedTypeOK /\ Inv /\ [FeedNext]_feedVars => Inv'
    BY BroadcastKeepsSinks, NetKeepsSinks, OthersKeepSinks DEF FeedNext, Tasks
  <1>3. Inv => OpenIsSubscribed
    OBVIOUS
  <1> QED
    BY <1>1, <1>2, <1>3, FeedTypeCorrect, PTL DEF FeedSpec

-----------------------------------------------------------------------------
(* Only the sink of the stream and the stream itself touch the queue. *)
LEMMA QueueSteps ==
  ASSUME FeedNext
  PROVE  (\E t \in Tasks : Put(t)) \/ Take \/ UNCHANGED <<queue, recent, taken>>
  <1> USE DEF netVars, streamVars, mqttVars
  <1>1. ASSUME NEW t \in Tasks, ChangeState(t) \/ Begin(t) \/ PublishEvent(t) \/ Finish(t)
        PROVE  UNCHANGED <<queue, recent, taken>>
    BY <1>1 DEF ChangeState, Begin, PublishEvent, Finish
  <1>2. ASSUME NEW t \in Tasks, NEW w \in Sockets, Send(t, w) \/ SendFails(t, w)
        PROVE  UNCHANGED <<queue, recent, taken>>
    BY <1>2 DEF Send, SendFails
  <1>3. ASSUME HeartbeatDue \/ Subscribe \/ Mqtt \/ Pass PROVE UNCHANGED <<queue, recent, taken>>
    BY <1>3 DEF HeartbeatDue, Subscribe, Mqtt, OnConnect, PublishSnapshot, OnDisconnect, Stop, Pass
  <1>4. ASSUME Yield \/ EndDead \/ CheckEnds \/ Wait \/ TimeOut PROVE UNCHANGED <<queue, recent, taken>>
    BY <1>4 DEF Yield, EndDead, CheckEnds, End, Wait, TimeOut
  <1>5. ASSUME NEW w \in Sockets, AcceptSocket(w) \/ Greet(w) \/ Leave(w)
        PROVE  UNCHANGED <<queue, recent, taken>>
    BY <1>5 DEF AcceptSocket, Greet, Leave
  <1>6. ASSUME NEW p \in Peers, Stall(p) \/ Unstall(p) PROVE UNCHANGED <<queue, recent, taken>>
    BY <1>6 DEF Stall, Unstall
  <1> QED
    BY <1>1, <1>2, <1>3, <1>4, <1>5, <1>6 DEF FeedNext, Broadcast, Stream

LEMMA PutKeepsNewest ==
  ASSUME FeedTypeOK, NewestIsKept, RecentIsBounded, NEW t \in Tasks, Put(t)
  PROVE  NewestIsKept' /\ RecentIsBounded'
  <1> DEFINE e == task[t].event
             q == Keep(queue, e)
             r == Keep(recent, e)
  <1>1. /\ queue \in Seq(Nat) /\ recent \in Seq(Nat) /\ e \in Nat /\ QueueSize \in Nat /\ QueueSize > 0
        /\ Len(queue) \in Nat /\ Len(recent) \in Nat
    BY TaskTypes, QueueHolds DEF Put, FeedTypeOK
  <1>2. /\ Len(queue) <= QueueSize /\ Len(recent) <= QueueSize /\ Len(queue) <= Len(recent)
        /\ \A i \in 1 .. Len(queue) : queue[i] = recent[Len(recent) - Len(queue) + i]
    BY DEF NewestIsKept, RecentIsBounded
  <1>3. /\ q \in Seq(Nat) /\ q # <<>> /\ q[Len(q)] = e
        /\ Len(q) = IF Len(queue) = QueueSize THEN QueueSize ELSE Len(queue) + 1
        /\ \A i \in 1 .. Len(q) - 1 : q[i] = IF Len(queue) = QueueSize THEN queue[i + 1] ELSE queue[i]
    BY <1>1, <1>2, KeepKeeps
  <1>4. /\ r \in Seq(Nat) /\ r[Len(r)] = e
        /\ Len(r) = IF Len(recent) = QueueSize THEN QueueSize ELSE Len(recent) + 1
        /\ \A i \in 1 .. Len(r) - 1 : r[i] = IF Len(recent) = QueueSize THEN recent[i + 1] ELSE recent[i]
    BY <1>1, <1>2, KeepKeeps
  <1>5. queue' = q /\ recent' = r
    BY DEF Put
  <1> HIDE DEF e, q, r
  <1>6. Len(q) <= QueueSize /\ Len(r) <= QueueSize /\ Len(q) <= Len(r) /\ Len(q) \in Nat /\ Len(r) \in Nat
    BY <1>1, <1>2, <1>3, <1>4
  <1>7. ASSUME NEW i \in 1 .. Len(q) PROVE q[i] = r[Len(r) - Len(q) + i]
    <2>1. CASE i = Len(q)
      BY <1>3, <1>4, <1>6, <2>1
    <2>2. CASE i < Len(q) /\ Len(queue) = QueueSize
      <3>1. q[i] = queue[i + 1] /\ i + 1 \in 1 .. Len(queue) /\ Len(recent) = QueueSize
        BY <1>1, <1>2, <1>3, <2>2
      <3>2. queue[i + 1] = recent[i + 1] /\ r[i] = recent[i + 1] /\ Len(r) = Len(q)
        BY <1>1, <1>2, <1>3, <1>4, <2>2, <3>1
      <3> QED
        BY <1>6, <3>1, <3>2
    <2>3. CASE i < Len(q) /\ Len(queue) # QueueSize
      <3>1. Len(q) = Len(queue) + 1
        BY <1>3, <2>3
      <3>2. i \in 1 .. Len(q) - 1 /\ i \in 1 .. Len(queue)
        BY <1>1, <2>3, <3>1
      <3>3. q[i] = queue[i] /\ queue[i] = recent[Len(recent) - Len(queue) + i]
        BY <1>2, <1>3, <2>3, <3>2
      <3>4. CASE Len(recent) = QueueSize
        <4>1. Len(r) - Len(q) + i \in 1 .. Len(r) - 1
          BY <1>1, <1>2, <1>4, <1>6, <3>1, <3>2, <3>4
        <4>2. r[Len(r) - Len(q) + i] = recent[Len(r) - Len(q) + i + 1]
          BY <1>4, <3>4, <4>1
        <4>3. Len(r) - Len(q) + i + 1 = Len(recent) - Len(queue) + i
          BY <1>1, <1>4, <3>1, <3>4
        <4> QED
          BY <3>3, <4>2, <4>3
      <3>5. CASE Len(recent) # QueueSize
        <4>1. Len(r) - Len(q) + i \in 1 .. Len(r) - 1
          BY <1>1, <1>2, <1>4, <1>6, <3>1, <3>2, <3>5
        <4>2. r[Len(r) - Len(q) + i] = recent[Len(r) - Len(q) + i]
          BY <1>4, <3>5, <4>1
        <4>3. Len(r) - Len(q) + i = Len(recent) - Len(queue) + i
          BY <1>1, <1>4, <3>1, <3>5
        <4> QED
          BY <3>3, <4>2, <4>3
      <3> QED
        BY <3>4, <3>5
    <2> QED
      BY <1>6, <2>1, <2>2, <2>3
  <1> QED
    BY <1>3, <1>5, <1>6, <1>7 DEF NewestIsKept, RecentIsBounded

LEMMA TakeKeepsNewest ==
  ASSUME FeedTypeOK, NewestIsKept, RecentIsBounded, Take
  PROVE  NewestIsKept' /\ RecentIsBounded'
  <1>1. /\ queue \in Seq(Nat) /\ recent \in Seq(Nat) /\ queue # <<>> /\ QueueSize \in Nat
        /\ Len(queue) \in Nat /\ Len(recent) \in Nat /\ Len(queue) > 0
    BY QueueHolds DEF Take, FeedTypeOK
  <1>2. /\ Len(queue) <= QueueSize /\ Len(queue) <= Len(recent)
        /\ \A i \in 1 .. Len(queue) : queue[i] = recent[Len(recent) - Len(queue) + i]
    BY DEF NewestIsKept
  <1>3. queue' = Tail(queue) /\ recent' = recent /\ taken' = queue[1]
    BY <1>1 DEF Take
  <1>4. /\ Tail(queue) \in Seq(Nat) /\ Len(Tail(queue)) = Len(queue) - 1
        /\ \A i \in 1 .. Len(queue) - 1 : Tail(queue)[i] = queue[i + 1]
    <2> DEFINE q == queue
    <2>1. q \in Seq(Nat) /\ q # <<>>
      BY <1>1
    <2> HIDE DEF q
    <2>2. /\ Tail(q) \in Seq(Nat) /\ Len(Tail(q)) = Len(q) - 1
          /\ \A i \in 1 .. Len(Tail(q)) : Tail(q)[i] = q[i + 1]
      BY <2>1, HeadTailProperties, Zenon
    <2> QED
      BY <2>2 DEF q
  <1>5. Len(queue') <= QueueSize /\ Len(queue') <= Len(recent')
    BY <1>1, <1>2, <1>3, <1>4
  <1>6. ASSUME NEW i \in 1 .. Len(queue')
        PROVE  queue'[i] = recent'[Len(recent') - Len(queue') + i]
    <2>1. i \in 1 .. Len(queue) - 1 /\ i + 1 \in 1 .. Len(queue)
      BY <1>1, <1>3, <1>4
    <2>2. queue'[i] = recent[Len(recent) - Len(queue) + (i + 1)]
      BY <1>2, <1>3, <1>4, <2>1
    <2>3. Len(recent') - Len(queue') + i = Len(recent) - Len(queue) + (i + 1)
      BY <1>1, <1>3, <1>4, <2>1
    <2> QED
      BY <1>3, <2>2, <2>3
  <1>7. ASSUME queue' = <<>> PROVE taken' = Last(recent)
    <2>1. Len(queue) = 1
      <3>1. Len(queue') = Len(queue) - 1
        BY <1>3, <1>4, Zenon
      <3>2. Len(queue') = 0
        BY <1>7
      <3> QED
        BY <1>1, <3>1, <3>2
    <2>2. queue[1] = recent[Len(recent) - Len(queue) + 1] /\ Len(recent) - Len(queue) + 1 = Len(recent)
      BY <1>1, <1>2, <2>1
    <2> QED
      BY <1>3, <2>2 DEF Last
  <1>8. queue' = <<>> /\ recent' # <<>> => taken' = Last(recent')
    BY <1>3, <1>7
  <1> QED
    BY <1>3, <1>5, <1>6, <1>8 DEF NewestIsKept, RecentIsBounded

(* What an SSE client has not been given is the newest of what was put:    *)
(* slowness costs old events only.                                         *)
THEOREM SlowClientsKeepNewest == FeedSpec => []NewestIsKept
  <1> DEFINE Inv == NewestIsKept /\ RecentIsBounded
  <1>1. FeedInit => Inv
    BY QueueHolds DEF FeedInit, NewestIsKept, RecentIsBounded
  <1>2. FeedTypeOK /\ Inv /\ [FeedNext]_feedVars => Inv'
    <2> SUFFICES ASSUME FeedTypeOK, Inv, [FeedNext]_feedVars PROVE Inv'
      OBVIOUS
    <2>1. CASE UNCHANGED <<queue, recent, taken>>
      BY <2>1 DEF NewestIsKept, RecentIsBounded, Last
    <2>2. CASE UNCHANGED feedVars
      BY <2>1, <2>2 DEF feedVars, streamVars
    <2> QED
      BY <2>1, <2>2, QueueSteps, PutKeepsNewest, TakeKeepsNewest
  <1>3. Inv => NewestIsKept
    OBVIOUS
  <1> QED
    BY <1>1, <1>2, <1>3, FeedTypeCorrect, PTL DEF FeedSpec

-----------------------------------------------------------------------------
LEMMA WaitsEndInTime == FeedSpec => []WaitEndsInTime
  <1>1. FeedInit => WaitEndsInTime
    BY DEF FeedInit, WaitEndsInTime
  <1>2. FeedTypeOK /\ WaitEndsInTime /\ [FeedNext]_feedVars => WaitEndsInTime'
    <2> SUFFICES ASSUME FeedTypeOK, WaitEndsInTime, [FeedNext]_feedVars PROVE WaitEndsInTime'
      OBVIOUS
    <2> USE DEF netVars, streamVars, mqttVars
    <2>1. now \in Nat /\ deadline \in Int /\ Beat \in Nat /\ ExpiresAt \in Int
      BY ClockIs DEF FeedTypeOK
    <2>2. CASE UNCHANGED <<now, stream, deadline>>
      BY <2>2 DEF WaitEndsInTime
    <2>3. CASE Subscribe \/ Yield \/ EndDead \/ CheckEnds \/ Take \/ TimeOut
      BY <2>3 DEF Subscribe, Yield, EndDead, CheckEnds, End, Take, TimeOut, WaitEndsInTime
    <2>4. CASE Wait
      BY <2>1, <2>4 DEF Wait, WaitEndsInTime
    <2>5. CASE Pass
      BY <2>1, <2>5 DEF Pass, WaitEndsInTime
    <2>6. ASSUME NEW t \in Tasks, ChangeState(t) \/ Broadcast(t) PROVE UNCHANGED <<now, stream, deadline>>
      BY <2>6 DEF ChangeState, Broadcast, Begin, Put, PublishEvent, Finish, Send, SendFails
    <2>7. CASE HeartbeatDue \/ Mqtt
      BY <2>2, <2>7 DEF HeartbeatDue, Mqtt, OnConnect, PublishSnapshot, OnDisconnect, Stop
    <2>8. ASSUME NEW w \in Sockets, AcceptSocket(w) \/ Greet(w) \/ Leave(w)
          PROVE  UNCHANGED <<now, stream, deadline>>
      BY <2>8 DEF AcceptSocket, Greet, Leave
    <2>9. ASSUME NEW p \in Peers, Stall(p) \/ Unstall(p) PROVE UNCHANGED <<now, stream, deadline>>
      BY <2>9 DEF Stall, Unstall
    <2>10. CASE UNCHANGED feedVars
      BY <2>2, <2>10 DEF feedVars
    <2> QED
      BY <2>2, <2>3, <2>4, <2>5, <2>6, <2>7, <2>8, <2>9, <2>10 DEF FeedNext, Stream
  <1> QED
    BY <1>1, <1>2, FeedTypeCorrect, PTL DEF FeedSpec

(* A stream takes no event from its queue once its session has ended: the  *)
(* wait for it is cut at the end of the session.  Said of the clock that   *)
(* times the wait, and of the taking only: the yield of an event taken in  *)
(* time may come later.                                                    *)
THEOREM EventsEndWithSession == FeedSpec => NothingAfterExpiry
  <1>1. FeedTypeOK /\ WaitEndsInTime /\ [FeedNext]_feedVars => [taken' # taken => now <= ExpiresAt]_feedVars
    <2> SUFFICES ASSUME FeedTypeOK, WaitEndsInTime, FeedNext, taken' # taken PROVE now <= ExpiresAt
      BY DEF feedVars, streamVars
    <2>1. ASSUME NEW t \in Tasks, Put(t) PROVE taken' = taken
      BY <2>1 DEF Put
    <2>2. Take
      BY <2>1, QueueSteps
    <2> QED
      BY <2>2, ClockIs DEF Take, WaitEndsInTime, FeedTypeOK
  <1> QED
    BY <1>1, FeedTypeCorrect, WaitsEndInTime, PTL DEF FeedSpec, NothingAfterExpiry

-----------------------------------------------------------------------------
LEMMA BrokerTypes ==
  ASSUME FeedTypeOK
  PROVE  /\ version \in Nat /\ published \in Nat \cup {-1} /\ bridge.held \in Nat \cup {-1}
         /\ bridge = [connects |-> bridge.connects, online |-> bridge.online, held |-> bridge.held]
         /\ \A t \in Tasks : task[t].event \in Nat \cup {-1}
  <1>1. bridge \in Bridges
    BY DEF FeedTypeOK
  <1> QED
    BY <1>1, TaskTypes DEF FeedTypeOK, Bridges, None

(* A step that only shortens what tasks have left, and not by the bridge,  *)
(* keeps the newest state under way.                                       *)
LEMMA OthersAwaited ==
  ASSUME NewestIsUnderway, UNCHANGED <<version, published, bridge>>,
         \A t \in Tasks : /\ task'[t].event = task[t].event
                         /\ {"start", "mqtt"} \cap task[t].left \subseteq task'[t].left
  PROVE  NewestIsUnderway'
  <1>1. ASSUME NEW t \in Tasks, Underway(t)
        PROVE  task'[t].event = version /\ task'[t].event # Beats /\ {"start", "mqtt"} \cap task'[t].left # {}
    BY <1>1 DEF Underway
  <1>2. \A t \in Tasks : task'[t].event <= version
    BY DEF NewestIsUnderway
  <1>3. bridge.online => \/ published = version \/ bridge.held = version
                         \/ \E t \in Tasks : /\ task'[t].event = version /\ task'[t].event # Beats
                                            /\ {"start", "mqtt"} \cap task'[t].left # {}
    BY <1>1 DEF NewestIsUnderway
  <1> QED
    BY <1>2, <1>3 DEF NewestIsUnderway, Underway

LEMMA BroadcastKeepsUnderway ==
  ASSUME FeedTypeOK, OpenIsSubscribed, NewestIsUnderway,
         NEW t \in Tasks, ChangeState(t) \/ Broadcast(t)
  PROVE  NewestIsUnderway'
  <1> USE DEF netVars, streamVars, mqttVars
  <1>1. /\ version \in Nat /\ published \in Nat \cup {-1} /\ bridge.held \in Nat \cup {-1}
        /\ published <= version /\ bridge.held <= version
        /\ \A o \in Tasks : task[o].event \in Nat \cup {-1} /\ task[o].event <= version
    BY BrokerTypes DEF NewestIsUnderway
  <1>2. CASE ChangeState(t)
    <2>1. /\ version' = version + 1 /\ UNCHANGED <<published, bridge>>
          /\ task'[t].event = version + 1 /\ task'[t].left = {"start"}
          /\ \A o \in Tasks \ {t} : task'[o] = task[o]
      BY <1>2, TaskSteps DEF ChangeState
    <2>2. Underway(t)'
      BY <1>1, <2>1 DEF Underway, Beats
    <2>3. \A o \in Tasks : task'[o].event <= version + 1
      BY <1>1, <2>1
    <2>4. published <= version + 1 /\ bridge.held <= version + 1
      BY <1>1
    <2> QED
      BY <2>1, <2>2, <2>3, <2>4 DEF NewestIsUnderway
  <1>3. CASE Begin(t)
    <2>1. /\ UNCHANGED <<version, published, bridge>> /\ task[t].left = {"start"}
          /\ task'[t].event = task[t].event /\ task'[t].left = sinks
          /\ \A o \in Tasks \ {t} : task'[o] = task[o]
      BY <1>3, TaskSteps DEF Begin
    <2>2. \A o \in Tasks : task'[o].event <= version
      BY <1>1, <2>1
    <2>3. ASSUME bridge.online, NEW o \in Tasks, Underway(o) PROVE Underway(o)'
      <3>1. "mqtt" \in sinks
        BY <2>3 DEF OpenIsSubscribed
      <3> QED
        BY <2>1, <2>3, <3>1 DEF Underway
    <2> QED
      BY <2>1, <2>2, <2>3 DEF NewestIsUnderway
  <1>4. CASE Put(t)
    <2>1. task' = Awaited(t, "sse") /\ UNCHANGED <<version, published, bridge>>
      BY <1>4 DEF Put
    <2> QED
      BY <2>1, AwaitedDoes, OthersAwaited
  <1>5. CASE PublishEvent(t)
    <2>1. /\ task' = Awaited(t, "mqtt") /\ UNCHANGED <<version, bridge>> /\ "mqtt" \in task[t].left
          /\ task[t].event # Beats => Told(task[t].event)
          /\ task[t].event = Beats => published' = published
      BY <1>5 DEF PublishEvent
    <2>2. published <= published' /\ published' <= version
      BY <1>1, <2>1 DEF Told
    <2>3. task[t].event = version /\ task[t].event # Beats => published' = version
      BY <1>1, <2>1 DEF Told
    <2>4. \A o \in Tasks : task'[o].event = task[o].event /\ (o # t => task'[o].left = task[o].left)
      <3>1. \A o \in Tasks : /\ task'[o].event = task[o].event
                             /\ task'[o].left = task[o].left \ (IF o = t THEN {"mqtt"} ELSE {})
        BY <2>1, AwaitedDoes
      <3>2. \A o \in Tasks : o # t => task'[o].left = task[o].left \ {}
        BY <3>1
      <3>3. \A o \in Tasks : task[o].left \ {} = task[o].left
        OBVIOUS
      <3> QED
        BY <3>1, <3>2, <3>3
    <2>5. \A o \in Tasks : Underway(o) => published' = version \/ Underway(o)'
      BY <2>1, <2>3, <2>4 DEF Underway
    <2>6. published = version => published' = version
      BY <1>1, <2>1, <2>2 DEF Told
    <2>7. \A o \in Tasks : task'[o].event <= version
      BY <1>1, <2>4
    <2> QED
      BY <1>1, <2>1, <2>2, <2>5, <2>6, <2>7 DEF NewestIsUnderway
  <1>6. CASE Finish(t)
    <2>1. /\ UNCHANGED <<version, published, bridge>> /\ task[t].left = {} /\ task'[t].event = -1
          /\ \A o \in Tasks \ {t} : task'[o] = task[o]
      BY <1>6, TaskSteps DEF Finish, None
    <2>2. \A o \in Tasks : Underway(o) => Underway(o)'
      BY <2>1 DEF Underway
    <2>3. \A o \in Tasks : task'[o].event <= version
      BY <1>1, <2>1
    <2> QED
      BY <2>1, <2>2, <2>3 DEF NewestIsUnderway
  <1>7. ASSUME NEW w \in Sockets, Send(t, w) PROVE NewestIsUnderway'
    <2>1. task' = Awaited(t, w) /\ UNCHANGED <<version, published, bridge>> /\ w \notin {"start", "mqtt"}
      BY <1>7, SocketNames DEF Send
    <2> QED
      BY <2>1, AwaitedDoes, OthersAwaited
  <1>8. ASSUME NEW w \in Sockets, SendFails(t, w) PROVE NewestIsUnderway'
    <2>1. UNCHANGED <<version, published, bridge>> /\ w \notin {"start", "mqtt"}
      BY <1>8, SocketNames DEF SendFails
    <2> QED
      BY <1>8, <2>1, SendFailsDoes, OthersAwaited
  <1> QED
    BY <1>2, <1>3, <1>4, <1>5, <1>6, <1>7, <1>8 DEF Broadcast

LEMMA MqttKeepsUnderway ==
  ASSUME FeedTypeOK, NewestIsUnderway, Mqtt \/ HeartbeatDue
  PROVE  NewestIsUnderway'
  <1> USE DEF netVars, streamVars, mqttVars
  <1>1. /\ version \in Nat /\ published \in Nat \cup {-1} /\ bridge.held \in Nat \cup {-1}
        /\ published <= version /\ bridge.held <= version
        /\ \A o \in Tasks : task[o].event \in Nat \cup {-1} /\ task[o].event <= version
        /\ bridge = [connects |-> bridge.connects, online |-> bridge.online, held |-> bridge.held]
    BY BrokerTypes DEF NewestIsUnderway
  <1>2. CASE OnConnect
    <2>1. UNCHANGED <<version, task, published>> /\ bridge'.held = version
      BY <1>1, <1>2 DEF OnConnect
    <2> QED
      BY <1>1, <2>1 DEF NewestIsUnderway, Underway
  <1>3. CASE PublishSnapshot
    <2>1. /\ UNCHANGED <<version, task>> /\ bridge'.held = -1 /\ bridge'.online = bridge.online
          /\ Told(bridge.held)
      BY <1>1, <1>3 DEF PublishSnapshot, None
    <2>2. published' <= version /\ (published = version \/ bridge.held = version => published' = version)
      BY <1>1, <2>1 DEF Told
    <2>3. bridge'.held <= version
      BY <1>1, <2>1
    <2> QED
      BY <1>1, <2>1, <2>2, <2>3 DEF NewestIsUnderway, Underway
  <1>4. CASE OnDisconnect
    <2>1. UNCHANGED <<version, task, published>> /\ bridge'.online = FALSE /\ bridge'.held = bridge.held
      BY <1>1, <1>4 DEF OnDisconnect
    <2> QED
      BY <1>1, <2>1 DEF NewestIsUnderway
  <1>5. CASE Stop
    <2>1. UNCHANGED <<version, published>> /\ bridge'.online = FALSE /\ bridge'.held = bridge.held
      BY <1>1, <1>5 DEF Stop
    <2>2. task \in [Tasks -> Broadcasts]
      BY DEF FeedTypeOK
    <2>3. \A o \in Tasks : task'[o] = task[o] \/ task'[o] = Resting
      BY <1>5, <2>2 DEF Stop
    <2>4. \A o \in Tasks : task'[o].event <= version
      BY <1>1, <2>3 DEF Resting, None
    <2> QED
      BY <1>1, <2>1, <2>4 DEF NewestIsUnderway
  <1>6. CASE HeartbeatDue
    <2>1. /\ UNCHANGED <<version, published, bridge>> /\ ~Pending("heartbeat") /\ "heartbeat" \in Tasks
          /\ task'["heartbeat"].event = 0
          /\ \A o \in Tasks \ {"heartbeat"} : task'[o] = task[o]
      BY <1>6, TaskSteps DEF HeartbeatDue, Tasks, Beats
    <2>2. ~Underway("heartbeat")
      BY <1>1, <2>1 DEF Underway, Pending, None
    <2>3. \A o \in Tasks : Underway(o) => Underway(o)'
      BY <2>1, <2>2 DEF Underway
    <2>4. \A o \in Tasks : task'[o].event <= version
      BY <1>1, <2>1
    <2> QED
      BY <1>1, <2>1, <2>3, <2>4 DEF NewestIsUnderway
  <1> QED
    BY <1>2, <1>3, <1>4, <1>5, <1>6 DEF Mqtt

LEMMA OthersKeepUnderway ==
  ASSUME NewestIsUnderway,
         \/ Subscribe \/ Stream \/ Pass \/ UNCHANGED feedVars
         \/ \E w \in Sockets : AcceptSocket(w) \/ Greet(w) \/ Leave(w)
         \/ \E p \in Peers : Stall(p) \/ Unstall(p)
  PROVE  NewestIsUnderway'
  <1> USE DEF netVars, streamVars, mqttVars
  <1>1. UNCHANGED <<version, task, published, bridge>>
    <2>1. ASSUME NEW w \in Sockets, AcceptSocket(w) \/ Greet(w) \/ Leave(w)
          PROVE  UNCHANGED <<version, task, published, bridge>>
      BY <2>1 DEF AcceptSocket, Greet, Leave
    <2>2. ASSUME NEW p \in Peers, Stall(p) \/ Unstall(p) PROVE UNCHANGED <<version, task, published, bridge>>
      BY <2>2 DEF Stall, Unstall
    <2>3. ASSUME Stream PROVE UNCHANGED <<version, task, published, bridge>>
      BY <2>3 DEF Stream, Yield, EndDead, CheckEnds, End, Wait, Take, TimeOut
    <2>4. ASSUME Subscribe \/ Pass \/ UNCHANGED feedVars PROVE UNCHANGED <<version, task, published, bridge>>
      BY <2>4 DEF Subscribe, Pass, feedVars
    <2> QED
      BY <2>1, <2>2, <2>3, <2>4
  <1> QED
    BY <1>1 DEF NewestIsUnderway, Underway

(* While the broker is connected and nothing is under way, it has the      *)
(* newest state: the snapshot of on_connect and the events of broadcast    *)
(* leave no gap between them.                                              *)
THEOREM BrokerKnowsNewest == FeedSpec => []BrokerIsTold
  <1>1. FeedInit => NewestIsUnderway
    <2> SUFFICES ASSUME FeedInit PROVE NewestIsUnderway
      OBVIOUS
    <2>1. /\ version = 0 /\ published = -1 /\ bridge.held = -1 /\ bridge.online = FALSE
          /\ task = [t \in Tasks |-> Resting]
      BY DEF FeedInit, None
    <2>2. \A t \in Tasks : task[t].event = -1
      BY <2>1 DEF Resting, None
    <2> QED
      BY <2>1, <2>2 DEF NewestIsUnderway
  <1>2. FeedTypeOK /\ OpenIsSubscribed /\ NewestIsUnderway /\ [FeedNext]_feedVars => NewestIsUnderway'
    BY BroadcastKeepsUnderway, MqttKeepsUnderway, OthersKeepUnderway DEF FeedNext
  <1>3. FeedTypeOK /\ NewestIsUnderway => BrokerIsTold
    BY BrokerTypes DEF NewestIsUnderway, BrokerIsTold, Underway, Pending, None
  <1> QED
    BY <1>1, <1>2, <1>3, FeedTypeCorrect, StaysSubscribed, PTL DEF FeedSpec

=============================================================================
