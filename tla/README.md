# DevControl: models, checks and proofs

DevControl is an OpenHarmony app that controls smart-home devices through a
gateway of its own.  This directory holds TLA+ modules translated from its
source, TLC configurations that check them on small instances, and proofs that
TLAPS checks for every value of the constants.  Paths below are relative to
`src/`; `GW/` stands for `VirtualGateway/devcontrol_gateway/` and `ETS/` for
`DevControl/entry/src/main/ets/`.

## 1. The system

| Component | State | Operations | Talks to |
|---|---|---|---|
| Session registry (`GW/security.py`) | pairing code and its expiry, failures and lockout of each source, sessions by credential digest; all in memory | `pair`, `authenticate`, `pairing_code`, rotation | every route of `GW/app.py` |
| Command pipeline (`GW/service.py`, `process_command`) | `_command_lock`, nonce cache, result cache | prune, replay checks, decrypt, execute in a worker thread, cache, audit | registry, storage, all transports |
| Device registry and drivers (`GW/registry.py`, `GW/drivers.py`) | one dictionary per device with `stateVersion`, injected delay and failure; pending alerts | `execute`, `tick`, `inject_fault`, `public_device`, scenes | storage; called from three threads without a lock |
| Rooms and provisioning (`GW/registry.py`, `GW/service.py`, `GW/security.py`) | rooms, registered devices, the provisioning key | `create_room`, `register_provisioned`, `remove_provisioned`, `issue`, `verify` | storage, QR tool |
| Telemetry and heartbeat (`GW/service.py`) | two tasks | `tick` in a worker thread, broadcast, prune history | registry, sinks |
| Transports (`GW/app.py`, `GW/mqtt_transport.py`) | a sink per WebSocket, a queue of 64 per SSE client, an MQTT client | command and event routes, retained state | service |
| Storage (`GW/storage.py`) | SQLite tables of audit, alerts, history | inserts and queries | - |
| Admin interface (`GW/app.py`) | admin token | faults, environment, device proofs | registry |
| App link (`ETS/service/WssGatewayTransport.ets`, `ETS/model/DeviceManager.ets`) | socket, `closedByUser`, `disconnectionReported`, monitor timer; connection state, `pairingRequired`, session | `connect`, `reconnect`, `close`, `pairGateway`, `forgetGateway`, socket events, 45 s monitor | gateway, pages |
| App copy of the devices (`DeviceManager.ets`, `DeviceSnapshotStore.ets`) | `devices`, stored snapshot, whether there is a session | `refreshAll`, `applyDevice`, `device.removed`, `forgetGateway` | gateway |
| App commands (`DeviceManager.ets`) | pending devices, messages and timers | `submitRaw`, `handleCommandResult`, timeouts | link |
| App stores (`GatewaySessionStore`, `SmartRuleStore`, `PairingPreferenceStore`) | HUKS-sealed session, rules, last address | save, restore, clear | platform |
| App pages, device model, registration form | layout and tables | - | `DeviceManager` |
| Native core (`cpp/src/protocol_core.cpp`) | none | seal, redact, ids | platform crypto |
| Signing administration (`SigningAdmin/`, `VirtualGateway/scripts/`) | CA key and certificate files, a gateway's key and request, staged rotation | initialise, sign, stage, finalise | files |
| QR generation (`QRgeneration/`) | none | sign and draw a code | gateway, files |

What is hard here, and what has to be true:

* **Commands** are retried by clients, delivered late or twice, refused and
  then retried, across pruned caches, a wall clock that is stepped, a failed
  audit write and a restart.  A command runs at most once, everyone who retries
  is told the first result, a verdict is final and true, the audit table agrees.
* **Sessions** live on two clocks.  Guesses are rationed over any window, a
  code pairs once, a credential that was refused stays refused, no connection
  waits for a message beyond its session.
* **Devices** are changed by a command thread, a telemetry thread and the event
  loop, none of which locks.  Clients still have to converge on the truth, an
  armed door has to be locked, an empty room has to get dark, a scene's answer
  has to be true of each device.
* **Rooms and devices** are looked at and then written on a worker thread, while
  others ask for the same, records fail and the gateway restarts.
* **Events** go to sinks that stall, die or connect in the middle of a broadcast.
* **The app's copy** is fed by snapshots and events that overtake each other,
  while its session is refused, forgotten or made anew.
* **The app's link** is one object that several callbacks steer; its shown
  state must not part from the connection.
* **The app's commands** are awaited in three places at once: the send, the
  result and the timer.  No device may stay disabled.
* **Trust** is a set of files written one by one by tools that may be
  interrupted; no gateway may be left with a certificate the app does not trust.

## 2. Modules

| Module | Models | Composes |
|---|---|---|
| `CommandContract` | what the command path promises about one message | - |
| `CommandPipeline` | `process_command` with its lock, caches, callers and faults | implements `CommandContract` |
| `Sessions` | `SessionRegistry` and the life of a WebSocket connection | registry, WebSocket handler |
| `DoorLock` | `DoorLockDriver` under `DeviceRegistry`, three threads | driver, registry, telemetry, broadcast |
| `Appliances` | light and its automation, air conditioner, humidifier, bath heater, curtain, sensor, scenes | drivers, registry, telemetry, faults |
| `Catalogue` | rooms, registration, removal, labels, the audit log and its pages | routes, service lock, registry, provisioning, QR tool, storage |
| `EventStreams` | `broadcast`, WebSocket and SSE sinks, heartbeats, MQTT | service tasks, routes, bridge |
| `DeviceSync` | gateway broadcasts, snapshots, the app's copy and store, its session | gateway tasks, WebSocket, `DeviceManager` |
| `GatewayLink` | `WssGatewayTransport` and the part of `DeviceManager` that steers it | transport, manager, pages |
| `AppCommands` | `submitRaw`, `sendCommand`, results, timers | manager, transport |
| `SigningAdmin` | the CA tool, the gateway's request script, the operators' order | tools, files, App releases |
| `MC*` | names and values for symmetric constants | |
| `*Proofs` | theorems about the module they are named after | `AppProofs`: `GatewayLink` and `AppCommands`; `EventProofs`: `DeviceSync` and `EventStreams` |

Definitions under a comment that begins "Seeded fault" are plausible mistakes in
the operation beside them.  No specification uses them; put in its place, each
makes the property of that hazard fail.

### CommandPipeline

A client seals an envelope (`Send`), the network delivers it any number of
times, whole or damaged (`Deliver`), and it queues for `_command_lock`
(`queue`, its head is the holder).  The event loop runs `process_command`
without a pause except while the worker thread executes, so the critical
section is at most three steps: `Retry`, `Refuse` or `Admit` first, `Execute` in
the thread, `Finish` last.  The audit row of a result or of a refusal may fail
(`FinishUnaudited`, `RefuseUnaudited`): the result is cached by then, the lock is
released, and whoever asked gets no answer.  Every entry of the section prunes,
so `nonceCache` and `resultCache` are read through `Forgotten`.  `now` is the
monotonic clock that the caches use, `now + offset` the wall clock that
timestamps and sessions use; `StepClock` moves the offset within `ClockStep`.
`Restart` empties what is in memory.  Cryptography is ideal: an envelope opens
exactly when it is what was sealed for that session.

### Sessions

Actions are the branches of `pair` (`PairLocked`, `PairWrong`, `Pair`), the
page that shows the code (`ShowCode`), `authenticate` for a request and for a
WebSocket and a restart.  A connection is closed, waits for a message until its
`deadline`, or is `Busy` with its greeting or with a command, which no timer
bounds (`GW/app.py:465-473`).  It becomes busy by `Connect` and `Message`, waits
again by `Resume`, and ends by `MessageRefused`, `TimeOut` or `Disconnect`.  The
deadline is on the monotonic clock, computed from the wall clock as
`remaining_seconds` does.  `refused` is history: credentials that `authenticate`
refused and thereby revoked.  `dismissed` are those whose connection the timer
closed with `AUTH_FAILED`, which revokes nothing.

### DoorLock

A step is what one thread does between two points where the interpreter may
switch.  `pc` holds where each thread is: the command thread checks the version,
sleeps an injected delay, drives, arms; the telemetry thread reads the deadline,
then the clock, locks, writes its audit row, touches; the event loop injects
faults and takes snapshots.  A published state carries the version that
`public_device` read.  `latest` collects every state published with the highest
version: a client keeps the first of them that reaches it, so it may hold any.
Three writes may fail between a touch and its event: the tick's audit row
(`TickAuditFails`), a command's (`CommandAuditFails`, which also stands for a
WebSocket that is gone when its answer is sent) and an alert (`AlertFails`).
`owed` is history: the version of the last event lost that way.

### Appliances

The same threads over the other drivers, statement by statement where a switch
would be seen.  A device or a scene is submitted (`Submit`, `SubmitScene`) and
the worker takes its steps (`CommandStep`), the telemetry worker visits one
device after the other (`TickStep`), the event loop injects faults and readings,
and removes devices (`LoopStep`).  `event` is history, a device as of its last
touch, and `carrier` says where that event is: with a thread, leaving for the
clients, told, or lost.  A command's event leaves only when the whole of
`process_command` has come through (`Answer`, `AnswerScene`, `Send`).  A failed
audit row, a device deleted under its scene and an answer to a WebSocket that is
gone drop it (`AnswerFails`), and so do a temperature that the adapter refuses
after it was assigned (`AirEncode`) and an exception in a tick (`Dies`).
Temperatures are tenths of a degree and `Drift` is the walk of
`EnvironmentDriver.tick` with its rounding; the noise is any of its values.
The telemetry loop dies of an exception that leaves it (`alive`), as the code's
does.  A home is the set of devices it has, one of a type.  `plan` holds the
numbers of the scene's steps that are left and `todo` the devices the tick has
yet to visit; both are taken in the code's order (`Fetch`, `First`).
`automatic`, a field of the light, is history: automation has switched it on
since the last manual command.

### Catalogue

A request is authenticated and waits for the lock (`Ask`, `Enter`), the worker
looks (`Look`, `Refuse`) and then writes (`CreateRoom`, `Register`, `Delete`),
the loop records and unlocks (`Finish`, or `FinishFails` when the record raises),
and then, without the lock, awaits the subscriber (`Announce`).  `unheard` is
history: devices whose event was lost with their record, or overtaken by that of
their earlier removal.  A label is a
declaration and a proof; the QR tool is given a proof or asks for one, so any
combination gets printed.  `reader` is a client that follows the cursor of
`get_logs` while records are appended.  `boot` is where the log stood when the
gateway started.

### EventStreams

A broadcast (`Broadcast`) of what has changed (`ChangeState`) is the loop over
the sinks that were there when it began; `task` holds what each task
broadcasts and the sinks it has yet to await.  A WebSocket is accepted, greeted by a first
heartbeat, subscribed, and left by `finally`; an SSE generator yields, checks its
session and waits; paho's thread runs `on_connect` and `on_disconnect` beside
the loop.  `recent` is history: what was put into the SSE queue.  A peer may
stall and then either reads again or is found dead.

### DeviceSync

One removable device, since devices do not touch one another.  Each change is a
`moment` (history); the program sees only versions, which start again at 1 when
a device is registered anew.  `casting` holds events that gateway tasks have
built and not yet sent, in any order; `wire` is one WebSocket; `refresh` holds
the `refreshAll` calls that overlap.  `session` is what `DeviceManager` holds;
`forgetting` is how far `forgetGateway` has come, which awaits the close and each
of the two stores and stops no refresh that is under way.

### GatewayLink

An attempt is one call of `connect()` and the socket it makes.  Its `pc` follows
the awaits: `closing` the old socket, `handshake`, then the answer that is
queued (`resolved`, `rejected`), and for a failure `throwing` while the socket
that is there is closed.  Without a socket nothing is awaited and the steps are
one.  What is queued runs before what is awaited later (`Queued`); only what was
queued earlier, a timer or a tap, may come between an answer and its
continuation.  `disturbed` is history: some connect or close has been overtaken
by another call or by the monitor.  The guards of `Launch`, `Pair`, `Reconnect`
and `Forget` are the conditions under which the pages offer them (`Index.ets:63`
and `:138`, `SettingsTab.ets:59` and `:578`, `PairingPage.ets:59`).

### AppCommands

A command is at one place at a time: its send is under way (`sending`), has been
settled and its continuation waits (`resolved`, `rejected`), or the entry and its
timer stand (`waiting`).  `unanswered` are those the gateway has, `coming` the
results on the link.  The link is what `DeviceManager` is told of it, in any
order.  `stale` is history: commands whose device was released under them.

### SigningAdmin

`Work` is what the operators do next in the order of `SigningAdmin/README.md`:
create, stage, have requests made and signed, release Apps, finalise.  A tool
that writes several files, or one that it first empties (`Sign`, `WriteSigned`),
is in `job` between the writes, where `Interrupted` may end it; running it again
starts over.  `Generate` obeys `existing_path_guard` alone: with `--force` a
gateway gets a new key at any time, also beside an old request or certificate.
`outdated` is history: gateways whose key is newer than their certificate; `torn`:
those whose last generation was interrupted.  The tools are used one at a time.
A key is a number that is never used twice, a bundle the set of its CAs.

## 3. Runs

| Run | Checks | Bounds, and why they are enough |
|---|---|---|
| `pipeline_faults` | `AtMostOnce`, `ImplementsContract` | one message, windows of 1 and 4 ticks, which is the limit a clock step of one tick asks for; seven moments, so that every entry is forgotten within the run; a queue of two, one restart, one failed audit write of a result or a refusal |
| `pipeline_queue` | `RetrySeesFirstResult`, `AuditTellsTheTruth`, `EveryRequestAnswered` | two messages that share a nonce in a queue of two, windows of 1 and 2 ticks at their limit, four moments, one restart, one failed audit write |
| `sessions` | `GuessesAreRationed`, `CodesPairOnce`, `RefusedForGood`, `ConnectionsEndWithSession`, `EveryConnectionCloses` | two guesses, two credentials, one of which opens a WebSocket, lifetimes of two ticks, pairing at three moments and time until the last connection must be closed, a clock stepped by one tick, one restart; a code may be drawn twice |
| `door_converge` | `ClientsConverge`, `ArmedDoorLocks` | two commands or faults against a telemetry thread that never stops, two delays, failing audit and alert writes |
| `appliances` | `LitLightShines`, `ChangesAreTold`, `SceneIsTrue`, `CurtainArrives`, `EmptyRoomGoesDark`, `RoomReachesTarget` | three homes that together have every type and every interaction (sensor with light, sensor with air conditioner, curtain with panels), two commands, a fault, a reading and a deletion against the telemetry thread, failing storage |
| `appliances_absence` | `OutAfterAbsence`, violated | a light, a sensor, a command and three readings |
| `catalogue` | `DevicesAreCertified`, `RoomsDiffer`, `LogExplainsRegistry`, `RegisteredIsTold`, `PagesAreComplete`, `KeptAsRegistered` | two clients at once, two labels, three records read in pages of one, two versions of a device that commands or the tick change, one restart, one failed record |
| `event_streams` | `OpenIsSubscribed`, `NewestIsKept`, `BrokerIsTold`, `NothingAfterExpiry`, `LostSinksAreDropped` | two WebSockets with or without SSE and MQTT, three tasks, a queue of two that overflows, two versions, two connections, a session that expires within the run |
| `device_sync` | `OnlyAbandonedIsUnseen`, `CurrentUnlessOverwritten` | two overlapping refreshes, three changes (enough for a removal and a new registration), two drops, refusals, forgettings or restarts, one lost event |
| `gateway_link` | `OnlineIsWatched`, `NoStraySocket`, `LossIsNoticed`, `ConnectingEnds` | three connects, so that a third meets what two left behind; two ends of the session |
| `app_commands` | `PendingIsUnderway`, `PendingEnds` | two devices and three commands, so that one device is commanded again while another waits |
| `signing_admin` | `TrustKept`, `CertificatesFit`, `RolloutEnds` | two gateways, so that one is renewed and one is not; three interruptions, one key or certificate that is replaced although it was complete; a first deployment or a rotation |

Constants that end in `Max...` only bound a model, and `MaxFailures` of
`Sessions` is the code's own limit.  Deadlock is not checked: where time and calls
are bounded a behaviour may come to rest, and the liveness properties say what
must have happened by then.  Symmetry is used where no liveness is checked.

The type invariants and the strengthening invariants (`ReplayInv`, `VerdictInv`,
`RetryInv`, `RationInv`, `SyncInv`, `GenuineInv`, `LinkInv`, `ConvergeInv`,
`RolloutInv`, `CatalogueInv`, `LogInv`, `ReaderInv`, `PendingInv`, `GrantInv`,
`WaitInv`, `FeedInv`, `PlacesFit`, `AllAreTold`, `CarriersRun`, `SceneInv`) are proved (section 4), so no run
repeats them; each may be added to its configuration as an INVARIANT.

### Fairness

* `CommandPipeline`: the event loop and the worker run, time passes.  Clients
  need not send and the network need not deliver.
* `Sessions`: time passes, the loop runs a timer that is due, and a greeting or a
  command ends: the lock is granted in order and a delay is five seconds at most.
* `DoorLock`, `Appliances`: the telemetry thread is scheduled and time passes;
  in `DoorLock` every thread.  Nobody has to call.
* `EventStreams`: heartbeats come, a broadcast goes on, and a peer that stalls
  does not stall for ever, since the server pings it.  Nobody has to connect.
* `GatewayLink`: continuations and timers run, a handshake settles (the platform
  times it out), and 45 seconds without a message pass on a dead socket.  The
  `close` event is *not* assumed to come: a peer can vanish silently, and the
  monitor is there for that.
* `AppCommands`: the platform settles a send, continuations and timers run.  The
  gateway need not answer and the link need not come back.
* `SigningAdmin`: the operators go on.  Interruptions are bounded, not fair.

## 4. Proofs

Each theorem holds for every value of the constants that satisfies the named
assumptions of its module.

| Theorem | From | Argument |
|---|---|---|
| `CommandPipelineProofs!TypeCorrect` | `WindowsAreDurations` | inductive as it stands |
| `CommandPipelineProofs!RanIsUnacceptable`, `ExecutesAtMostOnce` | `NoCredentialIsNone`, also `WindowsOverlap`: the idempotency window is at least two timestamp windows and two clock steps (the code: 300 s and 2 * 30 s) | `ReplayInv`: a message that ran is remembered with a time its timestamp cannot exceed by more than a window and a step, or is stale for good, or its session died.  `AtMostOnce` alone is not inductive: forgetting a nonce must imply staleness |
| `CommandPipelineProofs!VerdictsAreFinal`, `CommandPathImplementsContract` | also `ClientsNotFarAhead`: a client's clock is not more than 270 s ahead | `VerdictInv`, the same for results.  Without that assumption a refused message may become acceptable once its refusal is forgotten |
| `CommandPipelineProofs!RetriesSeeFirstResult` | `WindowsAreDurations` | `RetryInv`: a first result stays cached until its window is over or its session is dead, and who has passed the replay check found nothing cached |
| `CommandPipelineProofs!AuditIsTruthful` | as for `VerdictsAreFinal` | `RowsAreOfSent`: a row is about a message that was sent; with `VerdictInv` each row says what was decided |
| `SessionsProofs!TypeCorrect`, `PairingIsRationed`, `RefusalsAreFinal` | `LimitsArePositive` | `RationInv`: the failures counted are the last guesses, all made after the lock of the guess before them ended.  `RefusalsAreFinal` is about what `authenticate` refused, which it revokes; section 5 has the credentials that the timer dismissed |
| `SessionsProofs!CodesAreUsedOnce`, `ConnectionsAreBounded` | `LimitsArePositive` | `GrantInv`: a grant spent the code that was shown; `WaitInv`: the timer of a connection that waits is not later than the end of its session by more than the clock was stepped |
| `DoorLockProofs!TypeCorrect`, `LockConverges` | `DelaysArePositive` | `ConvergeInv`: a version that is not published is being read or owed, and a lock that is being changed will be touched |
| `CatalogueProofs!TypeCorrect`, `DevicesCertified`, `RoomsStayDifferent`, `RegisteredAreTold`, `KeepsRegistration` | `ClientNames`; `SignedAbroad`: no other gateway has this one's key | `CatalogueInv`: who is past the lock holds it, so what the worker saw is still so when it writes; a device nobody was told of is one whose registration is being recorded or announced, or one that is `unheard` |
| `CatalogueProofs!LogIsTrue` | the same | `LogInv`: the log is right about every device but the one that is being recorded |
| `CatalogueProofs!PagesComplete` | `PagesHold`: a page has room for a record | `ReaderInv`: what has been read runs from the newest record down to the cursor |
| `EventProofs!TypeCorrect`, `NoChangeIsMissed`, `VersionsSuffice` | none | `SyncInv`: every moment up to now is seen, under way, or abandoned; `GenuineInv`: without removals a version is a moment |
| `EventProofs!FeedTypeCorrect`, `EventsEndWithSession` | `QueueHolds`, `AudienceIs`, `SocketNames`, `ClockIs` | `WaitEndsInTime`: the wait for an event is over before the session is, and time does not pass over the end of a wait.  It is about taking from the queue, by the clock that times the wait; the `yield` may come later |
| `EventProofs!StaysSubscribed` | the same | `FailedIsLost`: a sink that failed is one that is gone, or dead, and a socket is awaited only after it was accepted.  Without it a broadcast that began earlier might discard a sink of a connection that is open |
| `EventProofs!SlowClientsKeepNewest` | the same | `RecentIsBounded`: the history is no longer than the queue, so that both lose their oldest event together |
| `EventProofs!BrokerKnowsNewest` | the same | `NewestIsUnderway`: while the bridge is online the newest state is published, held by paho's thread, or has yet to be handed over by a broadcast, and nothing is newer than the state |
| `AppProofs!TypeCorrect`, `LinkIsWatched`, `NoSocketIsLeft` | `MaxAttemptsIsNat` | `LinkInv`: undisturbed, one thing is under way at a time, the attempt under way owns the socket with its flags clear, and the pages leave ONLINE before it closes |
| `AppProofs!CommandsTypeCorrect`, `PendingMeansUnderway` | none | `PendingInv`: a device that is not stale is disabled exactly by the one command that is under way for it |
| `AppliancesProofs!TypeCorrect` | `HomesAre`: homes are of the kinds there are; `ValuesAre`: what is asked and injected are numbers | inductive as it stands; it holds that the brightness a light goes back to is not zero, also while the tick carries it |
| `AppliancesProofs!NoDarkLightIsOn` | the same | inductive with the types: each command and the automation restore a brightness before they leave the light |
| `AppliancesProofs!ClientsAreTold` | the same | `PlacesFit`: where a thread is tells which device it changes, so its touch is of that device; `AllAreTold`: the property also for devices that have been deleted, which a thread may still hold; `CarriersRun`: who has an event is at work |
| `AppliancesProofs!ScenesTellTheTruth` | the same | `SceneInv`: each step of a scene is left, in hand or done, or its device has failed; what a step asked for holds from its last write on, because only the command thread writes what scenes ask for, but for the light |
| `AppliancesProofs!CurtainNearsTarget` | the same | the move is cut at the target that was read |
| `AppliancesProofs!ReadingNearsTarget` | none | arithmetic: over a gap of more than a degree 8 % exceed noise and rounding together |
| `SigningAdminProofs!TypeCorrect`, `TrustIsKept`, `CertificatesAlwaysFit` | none | `RolloutInv`: key and certificate of a CA and of a gateway belong together but for the files a tool is about to write, a generation that was torn and keys made since; the bundle on disk and the one that is published hold every CA that a gateway's certificate needs |

The refinement proof maps `runs` to `executed` and `verdict` to the first result
decided for a message; each step of the pipeline is `Run`, `Decide` or a stutter.

Only model-checked: the liveness properties (`EveryRequestAnswered`,
`EveryConnectionCloses`, `ArmedDoorLocks`, `CurtainArrives`, `EmptyRoomGoesDark`,
`RoomReachesTarget`, `LostSinksAreDropped`, `LossIsNoticed`, `ConnectingEnds`,
`PendingEnds`, `RolloutEnds`).  They need fairness and ENABLED, and some of
them an induction over a queue or a distance, which are beyond the prover.
`CurtainNearsTarget` and `ReadingNearsTarget` prove what the liveness
of `CurtainArrives` and `RoomReachesTarget` rests on, for all values: that every
tick that moves comes nearer and none overshoots.  Every safety and action
property that a passing run checks is a theorem.

## 5. Where the code and its documents part

One run finds a violation:

* `OutAfterAbsence` (`appliances_absence`): `_noPresenceSince` is cleared only
  when somebody is there and it is dark (`GW/drivers.py:243`).  In the trace one
  tick sees nobody, a later one sees somebody in the bright room, and the next
  one with nobody switches the light off at once; `docs/设计文档.md:786` says that
  the light stays on until nobody was there for the delay.  Absence is counted
  as the ticks saw it (`empty`): who comes and goes between two ticks does not
  end it.

Nine more are stated in the modules and are false of the code.  Added to the
configuration named, TLC shows the counterexample:

* `ActsOnExpectedVersion` (`DoorLock_converge.cfg`, PROPERTY): the version is
  compared before the command's delay (`GW/registry.py:222`);
  `docs/设计文档.md:608` promises `STATE_CONFLICT`.
* `NeverRollsBack` (`DeviceSync_sync.cfg`, PROPERTY): `refreshAll` replaces the
  copy without comparing versions (`ETS/model/DeviceManager.ets:303`);
  `docs/设计文档.md:807` says that the app does not roll back.
* `EveryChangeIsTold` (`DeviceSync_sync.cfg`, INVARIANT): the WebSocket handler
  answers before it broadcasts (`GW/app.py:471`); when the answer cannot be sent
  nobody is told.  `VirtualGateway/protocol/README.md:14` says that every command
  is broadcast.
* `SilenceEndsOnline` (`GatewayLink_link.cfg`, PROPERTY): during a reconnect the
  old monitor goes on.  When it reports the loss and closes the new socket while
  the answer of the handshake is queued, `connect()` still goes ONLINE, over no
  socket and with its loss already reported
  (`ETS/service/WssGatewayTransport.ets:327`).  `docs/设计文档.md:304` promises that
  45 silent seconds end ONLINE.

* `DismissedForGood` (`Sessions_life.cfg`, INVARIANT): the idle timer answers
  `AUTH_FAILED` (`GW/app.py:460`) and leaves the session where it is; when the
  wall clock is set back the credential is accepted again.
* `ClientsAlwaysConverge` (`DoorLock_converge.cfg`, INVARIANT) and
  `ChangesAreAlwaysTold` (`Appliances_home.cfg`, INVARIANT): an exception between
  a change and its broadcast loses the event (`GW/service.py:283` and `:301`,
  `GW/registry.py:357`, `GW/app.py:471`), and nobody is told until the next
  change.
* `RegisteredIsAlwaysTold` (`Catalogue_rooms.cfg`, INVARIANT): broadcasts run
  without the lock (`GW/app.py:345` and `:358`), so the removal of a device may be
  sent after its new registration.
* `NewCertificatesFit` (`SigningAdmin_rollout.cfg`, INVARIANT): the key is
  replaced before the request (`generate_gateway_csr.py:75`); an interruption
  leaves the old request beside the new key, and the certificate signed for it
  does not fit.

The others are seen in the models as exemptions of a property or as reachable
states:

* A result that comes before the promise of its send continues finds no entry.
  The entry that follows ends in `COMMAND_TIMEOUT` (`DeviceManager.ets:877`)
  although the gateway answered in time (`docs/设计文档.md:804`).
* `forgetGateway` (`DeviceManager.ets:217`) and a loss during an awaited send
  (`:1028`) release the devices and leave a timer or a continuation behind, which
  may release the device of a newer command (`docs/用户文档.md:133`: controls are
  disabled while a command is processed).  `PendingIsUnderway` exempts such a
  device until what was under way has ended.
* A refresh that is under way when a gateway is forgotten shows its snapshot and
  stores it again (`DeviceManager.ets:309`).  `initialize` shows the stored copy
  also when there is no session.
* A manual command that falls between the automation's look at the override and
  its write is undone (`GW/drivers.py:236`; `docs/设计文档.md:787`: the manual
  command wins).  The same window lies between its look at `enabled` and its
  write (`GW/drivers.py:229`): automation that has been switched off meanwhile
  still switches a light on that an away scene has just reported as off.
  `SceneIsTrue` exempts exactly a light that is `automatic`.
* The air conditioner is assigned before its adapter encodes, so a refused
  command has changed the device without a new version (`GW/drivers.py:504`;
  `docs/设计文档.md:322`: a refused command changes nothing).
* An exception in `tick` ends the telemetry task until the gateway is restarted,
  and the events of that tick are lost (`GW/service.py:105`).  A WebSocket that
  stalls holds the task that broadcasts to it.
* The session is authenticated before the command waits for the lock and is not
  looked at again (`GW/app.py:466`; `docs/设计文档.md:718`).  Pairing again leaves
  the older credential valid until it expires (`GW/security.py:356`).
* A device that is registered again starts at version 1, and the telemetry loop
  may tell of a device after its removal (`GW/registry.py:161`,
  `GW/service.py:105`).
* A retained MQTT topic may go back to the older of a snapshot and an event that
  cross, and is not cleared when a device is removed
  (`GW/mqtt_transport.py:152`).

## 6. Abstractions

* Payloads, names, texts and cryptographic bytes are model values; sealing and
  signing are ideal.
* Time is in ticks; a tick is whatever unit makes the windows small.
* `DoorLock` has no level of the battery and no text of an alert or an audit row:
  a write happens or raises.
* `Appliances` leaves out humidity, fan speed, brand and the text of a frame: no
  decision reads them.  Injected delay and failure are in `DoorLock`; here any
  command may be refused before it starts (`Fail`).
* `EventStreams` carries the version of one device.  A peer stalls at most once.
  A command that comes by MQTT is a `ChangeState` there and a message of
  `CommandPipeline`; it is not followed through both.
* `DeviceSync` has one WebSocket and one device; clearing a store does not fail.
* `GatewayLink` has no requests over HTTPS: a refresh that is refused with
  `AUTH_FAILED` is `Unauthorised`.  The socket's `error` and `close` events have
  the same effect and are one action.  An attempt to reconnect that finds the
  session expired changes nothing but the error text and is left out.
* `AppCommands` takes the calls of its listener in any order, more than
  `GatewayLink` makes.
* `SigningAdmin` leaves out names, terms and the review of a request: a
  certificate is the key it certifies and the CA that signed it.

## 7. Not modelled, and what would come next

* Command line, options and TLS identity of the gateway: files that are read
  once at start.
* `RequestBodyLimitMiddleware`, the HTML of the admin pages, the briefing text and
  the validation of a request's fields: they keep no state.
* SQL text, alerts, history and its pruning: plain rows behind one lock.
* Pages, components, device model and registration form of the app: layout,
  parsing and tables.  The conditions under which a page offers a call are guards
  of `GatewayLink`.
* The native core: cryptography of the platform.
* Rules, preferences and the sealing of the stored session: single writes that
  meet no other step, but for those that `DeviceSync` has.

Next, in this order: the automatic rules of the app against the commands they
submit; `AppCommands` over `GatewayLink` in place of any order of calls; an
abstract device (every change has a new version, a refused command changes
nothing) that the drivers implement or fail to; the step-by-step lemmas under the
liveness properties (what each fair action brings nearer), as for the curtain.
