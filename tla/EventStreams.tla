---------------------------- MODULE EventStreams ----------------------------
(***************************************************************************)
(* How the gateway's events reach their subscribers: GatewayService's      *)
(* broadcast with its telemetry and heartbeat tasks (service.py), the      *)
(* WebSocket and SSE routes (app.py) and MqttBridge (mqtt_transport.py).   *)
(* A broadcast is a loop over the sinks that were there when it began; it  *)
(* awaits each of them, so a WebSocket whose peer does not read holds the  *)
(* loop.  Several tasks broadcast at once.  An event is the version of one *)
(* device; 0 is a heartbeat.  Whether a command's answer goes out before   *)
(* its events is in DeviceSync, sessions and their clocks in Sessions.     *)
(***************************************************************************)
EXTENDS Integers, Sequences, FiniteSets

CONSTANTS
  Sockets,      \* WebSocket connections
  Audiences,    \* the sets of subscribers that may come, one per behaviour
  QueueSize,    \* 64, the queue of an SSE stream
  Beat,         \* 15 seconds
  ExpiresAt,    \* when the session of the SSE stream ends
  MaxTime, MaxVersion, MaxConnects   \* bounds of the model

Subscribers == Sockets \cup {"sse", "mqtt"}

ASSUME QueueHolds  == QueueSize \in Nat \ {0}
ASSUME AudienceIs  == Audiences \subseteq SUBSET Subscribers
ASSUME SocketNames == Sockets \cap {"sse", "mqtt", "start"} = {}
ASSUME ClockIs     == Beat \in Nat /\ ExpiresAt \in Int

VARIABLES
  running,    \* stop has not been called
  now,
  version,    \* stateVersion of the device
  task,       \* what each task broadcasts, and the sinks it has yet to await
  sinks,      \* GatewayService._sinks
  socket,     \* how far each WebSocket route has come
  peer,       \* what the other end does: it reads, stalls or is dead
  stream,     \* how far _sse_event_stream has come
  deadline,   \* when its wait_for gives up
  queue,      \* its queue
  taken,      \* history: what it took last
  recent,     \* history: what was put last, at most QueueSize events
  bridge,     \* MqttBridge: connections made, online or not, what paho's thread holds
  published   \* history: the newest state given to the broker

netVars    == <<socket, peer>>
streamVars == <<stream, deadline, queue, taken, recent>>
mqttVars   == <<bridge, published>>
feedVars == <<running, now, version, task, sinks, netVars, streamVars, mqttVars>>

None  == -1
Beats == 0
Tasks == {"telemetry", "heartbeat", "handler"}
Peers == Sockets \cup {"sse"}
Resting  == [event |-> None, left |-> {}, failed |-> {}]

Dead(p)    == peer[p] = "dead"
Reads(p)   == peer[p] \in {"reads", "steady"}
Open(w)    == socket[w] \in {"greeting", "open"}
Pending(t) == task[t].event # None

-----------------------------------------------------------------------------
(* The bridge's sink is there before the first request (start); a          *)
(* subscriber outside the audience never comes.                            *)
FeedInit ==
  \E audience \in Audiences :
    /\ running = TRUE /\ now = 0 /\ version = 0 /\ task = [t \in Tasks |-> Resting]
    /\ sinks = audience \cap {"mqtt"}
    /\ socket = [w \in Sockets |-> IF w \in audience THEN "new" ELSE "gone"]
    /\ peer = [p \in Peers |-> IF p \in audience THEN "reads" ELSE "dead"]
    /\ stream = (IF "sse" \in audience THEN "off" ELSE "over")
    /\ deadline = 0 /\ queue = <<>> /\ taken = None /\ recent = <<>>
    /\ bridge = [connects |-> 0, online |-> FALSE, held |-> None] /\ published = None

(* The telemetry loop or a handler has changed the device and built its    *)
(* event; in the loop's case on another thread, so that it may begin to    *)
(* broadcast later.                                                        *)
ChangeState(t) ==
  /\ running /\ ~Pending(t) /\ t # "heartbeat" /\ version < MaxVersion
  /\ version' = version + 1
  /\ task' = [task EXCEPT ![t] = [Resting EXCEPT !.event = version + 1, !.left = {"start"}]]
  /\ UNCHANGED <<running, now, sinks, netVars, streamVars, mqttVars>>

HeartbeatDue ==
  /\ running /\ ~Pending("heartbeat")
  /\ task' = [task EXCEPT !["heartbeat"] = [Resting EXCEPT !.event = Beats, !.left = sinks]]
  /\ UNCHANGED <<running, now, version, sinks, netVars, streamVars, mqttVars>>

(* broadcast: the tuple of the sinks that are there now. *)
Begin(t) ==
  /\ Pending(t) /\ task[t].left = {"start"}
  /\ task' = [task EXCEPT ![t].left = sinks]
  /\ UNCHANGED <<running, now, version, sinks, netVars, streamVars, mqttVars>>

Awaited(t, s) == [task EXCEPT ![t].left = @ \ {s}]

(* A WebSocket sink sends, or its connection is closed; while the peer     *)
(* stalls the task waits.                                                  *)
Send(t, w) ==
  /\ w \in task[t].left /\ Open(w) /\ Reads(w)
  /\ task' = Awaited(t, w)
  /\ UNCHANGED <<running, now, version, sinks, netVars, streamVars, mqttVars>>

SendFails(t, w) ==
  /\ w \in task[t].left /\ (Dead(w) \/ ~Open(w))
  /\ task' = [Awaited(t, w) EXCEPT ![t].failed = @ \cup {w}]
  /\ UNCHANGED <<running, now, version, sinks, netVars, streamVars, mqttVars>>

Last(s) == s[Len(s)]

Keep(s, e) == IF Len(s) = QueueSize THEN Append(Tail(s), e) ELSE Append(s, e)

(* Seeded fault: a full queue turns the new event away. *)
PutDroppingNew(t) ==
  /\ "sse" \in task[t].left
  /\ queue' = IF Len(queue) = QueueSize THEN queue ELSE Append(queue, task[t].event)
  /\ recent' = Keep(recent, task[t].event)
  /\ task' = Awaited(t, "sse")
  /\ UNCHANGED <<running, now, version, sinks, netVars, stream, deadline, taken, mqttVars>>

(* The sink of an SSE stream: a full queue loses its oldest event. *)
Put(t) ==
  /\ "sse" \in task[t].left
  /\ queue' = Keep(queue, task[t].event) /\ recent' = Keep(recent, task[t].event)
  /\ task' = Awaited(t, "sse")
  /\ UNCHANGED <<running, now, version, sinks, netVars, stream, deadline, taken, mqttVars>>

Told(e) == published' = IF e > published THEN e ELSE published

(* MqttBridge.publish_event.  paho keeps what it is given in order, also   *)
(* while it is offline.                                                    *)
PublishEvent(t) ==
  /\ "mqtt" \in task[t].left /\ task' = Awaited(t, "mqtt")
  /\ IF task[t].event # Beats THEN Told(task[t].event) ELSE UNCHANGED published
  /\ UNCHANGED <<running, now, version, sinks, netVars, streamVars, bridge>>

(* Seeded faults: sinks that fail are kept; one that fails ends them all.  *)
FinishKeeping(t) ==
  /\ Pending(t) /\ task[t].left = {}
  /\ task' = [task EXCEPT ![t] = Resting]
  /\ UNCHANGED <<running, now, version, sinks, netVars, streamVars, mqttVars>>

FinishForAll(t) ==
  /\ Pending(t) /\ task[t].left = {}
  /\ sinks' = IF task[t].failed = {} THEN sinks ELSE {}
  /\ task' = [task EXCEPT ![t] = Resting]
  /\ UNCHANGED <<running, now, version, netVars, streamVars, mqttVars>>

(* The end of broadcast discards the sinks that failed.                    *)
Finish(t) ==
  /\ Pending(t) /\ task[t].left = {}
  /\ sinks' = sinks \ task[t].failed
  /\ task' = [task EXCEPT ![t] = Resting]
  /\ UNCHANGED <<running, now, version, netVars, streamVars, mqttVars>>

-----------------------------------------------------------------------------
(* The WebSocket route: the sink is there before the first heartbeat, and  *)
(* the try that removes it comes after.                                    *)
AcceptSocket(w) ==
  /\ socket[w] = "new"
  /\ socket' = [socket EXCEPT ![w] = "greeting"] /\ sinks' = sinks \cup {w}
  /\ UNCHANGED <<running, now, version, task, peer, streamVars, mqttVars>>

Greet(w) ==
  /\ socket[w] = "greeting" /\ (Reads(w) \/ Dead(w))
  /\ socket' = [socket EXCEPT ![w] = IF Dead(w) THEN "gone" ELSE "open"]
  /\ UNCHANGED <<running, now, version, task, sinks, peer, streamVars, mqttVars>>

(* WebSocketDisconnect, or the session has ended; finally removes the sink. *)
Leave(w) ==
  /\ socket[w] = "open"
  /\ socket' = [socket EXCEPT ![w] = "gone"] /\ sinks' = sinks \ {w}
  /\ UNCHANGED <<running, now, version, task, peer, streamVars, mqttVars>>

(* A peer stops reading (once in a behaviour); it reads again, or the      *)
(* server's ping finds it dead.                                            *)
Stall(p) ==
  /\ peer[p] = "reads" /\ peer' = [peer EXCEPT ![p] = "stalls"]
  /\ UNCHANGED <<running, now, version, task, sinks, socket, streamVars, mqttVars>>

Unstall(p) ==
  /\ peer[p] = "stalls" /\ \E end \in {"steady", "dead"} : peer' = [peer EXCEPT ![p] = end]
  /\ UNCHANGED <<running, now, version, task, sinks, socket, streamVars, mqttVars>>

-----------------------------------------------------------------------------
(* _sse_event_stream.  Each yield waits for the client to take it.         *)
Subscribe ==
  /\ stream = "off" /\ now < ExpiresAt
  /\ stream' = "yield" /\ sinks' = sinks \cup {"sse"}
  /\ UNCHANGED <<running, now, version, task, netVars, deadline, queue, taken, recent, mqttVars>>

Yield ==
  /\ stream = "yield" /\ Reads("sse") /\ stream' = "check"
  /\ UNCHANGED <<running, now, version, task, sinks, netVars, deadline, queue, taken, recent, mqttVars>>

End ==
  /\ stream' = "over" /\ sinks' = sinks \ {"sse"}
  /\ UNCHANGED <<running, now, version, task, netVars, deadline, queue, taken, recent, mqttVars>>

EndDead   == stream = "yield" /\ Dead("sse") /\ End
CheckEnds == stream = "check" /\ (Dead("sse") \/ now >= ExpiresAt) /\ End

(* Seeded fault: the wait for an event does not look at the session.       *)
WaitLong ==
  /\ stream = "check" /\ ~Dead("sse") /\ now < ExpiresAt
  /\ stream' = "wait" /\ deadline' = now + Beat
  /\ UNCHANGED <<running, now, version, task, sinks, netVars, queue, taken, recent, mqttVars>>

Wait ==
  /\ stream = "check" /\ ~Dead("sse") /\ now < ExpiresAt
  /\ stream' = "wait"
  /\ deadline' = IF now + Beat < ExpiresAt THEN now + Beat ELSE ExpiresAt
  /\ UNCHANGED <<running, now, version, task, sinks, netVars, queue, taken, recent, mqttVars>>

Take ==
  /\ stream = "wait" /\ queue # <<>>
  /\ stream' = "yield" /\ taken' = Head(queue) /\ queue' = Tail(queue)
  /\ UNCHANGED <<running, now, version, task, sinks, netVars, deadline, recent, mqttVars>>

TimeOut ==
  /\ stream = "wait" /\ queue = <<>> /\ now >= deadline
  /\ stream' = "yield"
  /\ UNCHANGED <<running, now, version, task, sinks, netVars, deadline, queue, taken, recent, mqttVars>>

-----------------------------------------------------------------------------
(* Seeded fault: a reconnect relies on what was published before.          *)
OnConnectQuiet ==
  /\ running /\ "mqtt" \in sinks /\ ~bridge.online /\ bridge.connects < MaxConnects
  /\ bridge' = [bridge EXCEPT !.connects = @ + 1, !.online = TRUE]
  /\ UNCHANGED <<running, now, version, task, sinks, netVars, streamVars, published>>

(* _on_connect, in paho's thread: a snapshot first, then its publication.  *)
OnConnect ==
  /\ running /\ "mqtt" \in sinks /\ ~bridge.online /\ bridge.connects < MaxConnects
  /\ bridge' = [bridge EXCEPT !.connects = @ + 1, !.online = TRUE, !.held = version]
  /\ UNCHANGED <<running, now, version, task, sinks, netVars, streamVars, published>>

PublishSnapshot ==
  /\ bridge.held # None /\ Told(bridge.held)
  /\ bridge' = [bridge EXCEPT !.held = None]
  /\ UNCHANGED <<running, now, version, task, sinks, netVars, streamVars>>

OnDisconnect ==
  /\ bridge.online /\ bridge.held = None
  /\ bridge' = [bridge EXCEPT !.online = FALSE]
  /\ UNCHANGED <<running, now, version, task, sinks, netVars, streamVars, published>>

(* stop: the bridge's sink goes and loop_stop joins paho's thread, then    *)
(* the two loops are cancelled wherever they wait.                         *)
Stop ==
  /\ running /\ bridge.held = None
  /\ running' = FALSE /\ sinks' = sinks \ {"mqtt"}
  /\ task' = [task EXCEPT !["telemetry"] = Resting, !["heartbeat"] = Resting]
  /\ bridge' = [bridge EXCEPT !.online = FALSE]
  /\ UNCHANGED <<now, version, netVars, streamVars, published>>

Pass ==
  /\ stream \notin {"off", "over"} /\ now < MaxTime /\ (stream = "wait" => now < deadline)
  /\ now' = now + 1
  /\ UNCHANGED <<running, version, task, sinks, netVars, streamVars, mqttVars>>

Broadcast(t) == \/ Begin(t) \/ Put(t) \/ PublishEvent(t) \/ Finish(t)
                \/ \E w \in Sockets : Send(t, w) \/ SendFails(t, w)
Stream == Yield \/ EndDead \/ CheckEnds \/ Wait \/ Take \/ TimeOut
Mqtt   == OnConnect \/ PublishSnapshot \/ OnDisconnect \/ Stop

FeedNext == \/ \E t \in Tasks : ChangeState(t) \/ Broadcast(t)
        \/ HeartbeatDue \/ Subscribe \/ Stream \/ Mqtt \/ Pass
        \/ \E w \in Sockets : AcceptSocket(w) \/ Greet(w) \/ Leave(w)
        \/ \E p \in Peers : Stall(p) \/ Unstall(p)

FeedSpec == FeedInit /\ [][FeedNext]_feedVars

(* Tasks run, heartbeats come, and a peer does not stall for ever: the     *)
(* server's ping ends it.                                                  *)
FairFeedSpec ==
  /\ FeedSpec /\ WF_feedVars(HeartbeatDue)
  /\ \A t \in Tasks : WF_feedVars(Broadcast(t))
  /\ \A w \in Sockets : WF_feedVars(Unstall(w))

-----------------------------------------------------------------------------
Broadcasts == {Resting} \cup [event : Nat, left : SUBSET (Subscribers \cup {"start"}),
                              failed : SUBSET Sockets]
Bridges    == [connects : Nat, online : BOOLEAN, held : Nat \cup {None}]

FeedTypeOK ==
  /\ running \in BOOLEAN /\ now \in Nat /\ version \in Nat
  /\ task \in [Tasks -> Broadcasts] /\ sinks \subseteq Subscribers
  /\ socket \in [Sockets -> {"new", "greeting", "open", "gone"}]
  /\ peer \in [Peers -> {"reads", "stalls", "steady", "dead"}]
  /\ stream \in {"off", "yield", "check", "wait", "over"} /\ deadline \in Int
  /\ queue \in Seq(Nat) /\ recent \in Seq(Nat) /\ taken \in Nat \cup {None}
  /\ bridge \in Bridges /\ published \in Nat \cup {None}

(* A connection that is open and whose peer lives is subscribed, whoever   *)
(* else fails during whichever broadcast.                                  *)
OpenIsSubscribed ==
  /\ \A w \in Sockets : Open(w) /\ ~Dead(w) => w \in sinks
  /\ stream \in {"yield", "check", "wait"} => "sse" \in sinks
  /\ bridge.online => "mqtt" \in sinks

(* What an SSE client has not been given is the newest of what was put: a  *)
(* slow client loses old events only, one that has drained its queue has   *)
(* seen the last.                                                          *)
NewestIsKept ==
  /\ Len(queue) <= QueueSize /\ Len(queue) <= Len(recent)
  /\ \A i \in 1 .. Len(queue) : queue[i] = recent[Len(recent) - Len(queue) + i]
  /\ queue = <<>> /\ recent # <<>> => taken = Last(recent)

(* While the broker is connected and nothing is under way, it has been     *)
(* given the newest state: on_connect's snapshot and the events leave no   *)
(* gap between them.                                                       *)
BrokerIsTold ==
  bridge.online /\ bridge.held = None /\ (\A t \in Tasks : ~Pending(t)) => published = version

(* Why they hold.  A socket is awaited only after it was accepted, and one *)
(* that failed does not come back before the end of the broadcast.         *)
FailedIsLost ==
  /\ \A w \in Sockets, t \in Tasks : w \in sinks \cup task[t].left => socket[w] # "new"
  /\ \A t \in Tasks : \A w \in task[t].failed : socket[w] = "gone" \/ (socket[w] # "new" /\ Dead(w))

(* A newest state that an online bridge has not published is held by       *)
(* paho's thread or has yet to be handed over by a broadcast.              *)
Underway(t) == task[t].event = version /\ task[t].event # Beats /\ {"start", "mqtt"} \cap task[t].left # {}
NewestIsUnderway ==
  /\ published <= version /\ bridge.held <= version /\ \A t \in Tasks : task[t].event <= version
  /\ bridge.online => published = version \/ bridge.held = version \/ \E t \in Tasks : Underway(t)

(* The wait of the stream is over before its session is. *)
WaitEndsInTime == stream = "wait" => now <= deadline /\ deadline <= ExpiresAt

(* The histories are as long as the queue at most. *)
RecentIsBounded == Len(recent) <= QueueSize

FeedInv == OpenIsSubscribed /\ FailedIsLost /\ NewestIsKept /\ RecentIsBounded
           /\ NewestIsUnderway /\ WaitEndsInTime

(* The sink of a connection that is gone is discarded, also when the first *)
(* heartbeat could not be sent and no finally removed it.                  *)
LostSinksAreDropped == \A w \in Sockets : socket[w] = "gone" ~> w \notin sinks \/ ~running

(* The stream takes no event from its queue after its session has ended,   *)
(* by the clock the wait is timed with; an event taken in time may be      *)
(* yielded later (wait_for in event_stream of app.py).                     *)
NothingAfterExpiry == [][taken' # taken => now <= ExpiresAt]_feedVars
=============================================================================
