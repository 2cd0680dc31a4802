----------------------------- MODULE AppCommands -----------------------------
(***************************************************************************)
(* The commands of the App (DeviceManager.ets): a device is pending from   *)
(* the tap until its result, its timer, a failed send or the loss of the   *)
(* link releases it.  sendCommand (WssGatewayTransport.ets) is awaited, so *)
(* results, losses and other commands come before its continuation.        *)
(*                                                                         *)
(* The link is what DeviceManager is told of it, in any order; how it gets *)
(* there is in GatewayLink, what the gateway does in CommandPipeline.      *)
(***************************************************************************)
EXTENDS Integers, Sequences

CONSTANTS
  Device,        \* what a command may name, scenes among them
  MaxCommands    \* a bound of the model

VARIABLES
  online,      \* isOnline()
  hasSocket,   \* WssGatewayTransport.socket is there
  pending,     \* pendingDeviceIds
  device,      \* history: the device of each command, in the order of taps
  sending,     \* commands whose socket.send has not settled,
  resolved,    \* has resolved or
  rejected,    \* has failed, and submitRaw has not gone on
  waiting,     \* keys of pendingByMessage, and of timeoutByMessage
  unanswered,  \* commands the gateway can answer over the socket in use
  coming,      \* results that are on their way over it
  stale        \* history: commands whose device was released under them, or
               \* was taken while such a command was under way

link        == <<online, hasSocket>>
sends       == <<sending, resolved, rejected>>
answer      == <<unanswered, coming>>
commandVars == <<link, pending, device, sends, waiting, answer, stale>>

Awaited     == sending \cup resolved \cup rejected
Underway(d) == {m \in Awaited \cup waiting : device[m] = d}

CommandsInit ==
  /\ online = FALSE /\ hasSocket = FALSE /\ pending = {} /\ device = <<>>
  /\ sending = {} /\ resolved = {} /\ rejected = {} /\ waiting = {}
  /\ unanswered = {} /\ coming = {} /\ stale = {}

-----------------------------------------------------------------------------
(* submitRaw up to its await.  Offline, for a pending device or without a  *)
(* socket it changes nothing but the error.                                *)
Submit(d) ==
  LET m == Len(device) + 1 IN
    /\ Len(device) < MaxCommands /\ online /\ hasSocket /\ d \notin pending
    /\ device' = Append(device, d) /\ pending' = pending \cup {d}
    /\ sending' = sending \cup {m} /\ unanswered' = unanswered \cup {m}
    /\ stale' = IF Underway(d) # {} THEN stale \cup {m} ELSE stale
    /\ UNCHANGED <<link, resolved, rejected, waiting, coming>>

(* The promise of socket.send settles. *)
SendSettles(m) ==
  /\ m \in sending /\ sending' = sending \ {m}
  /\ \/ resolved' = resolved \cup {m} /\ UNCHANGED rejected
     \/ rejected' = rejected \cup {m} /\ UNCHANGED resolved
  /\ UNCHANGED <<link, pending, device, waiting, answer, stale>>

(* The entry and its timer, whatever has happened in between ... *)
Sent(m) ==
  /\ m \in resolved /\ resolved' = resolved \ {m}
  /\ waiting' = waiting \cup {m}
  /\ UNCHANGED <<link, pending, device, sending, rejected, answer, stale>>

(* Seeded fault: the catch leaves the device to a timer that never was. *)
NotSentKeeping(m) ==
  /\ m \in rejected /\ rejected' = rejected \ {m}
  /\ UNCHANGED <<link, pending, device, sending, resolved, waiting, answer, stale>>

(* ... or the catch. *)
NotSent(m) ==
  /\ m \in rejected /\ rejected' = rejected \ {m}
  /\ pending' = pending \ {device[m]}
  /\ UNCHANGED <<link, device, sending, resolved, waiting, answer, stale>>

(* The gateway answers over the socket the command came by; it may do so   *)
(* before the promise of the send has settled.                             *)
Answer(m) ==
  /\ m \in unanswered /\ unanswered' = unanswered \ {m} /\ coming' = coming \cup {m}
  /\ UNCHANGED <<link, pending, device, sends, waiting, stale>>

(* Seeded fault: a result releases the device it names. *)
FinishNamed(m) ==
  /\ pending' = pending \ {device[m]} /\ waiting' = waiting \ {m}

(* finishPending: only an entry that is there releases its device.         *)
Finish(m) ==
  /\ pending' = (IF m \in waiting THEN pending \ {device[m]} ELSE pending)
  /\ waiting' = waiting \ {m}

(* handleCommandResult, of a message on the socket that is in use. *)
Result(m) ==
  /\ m \in coming /\ coming' = coming \ {m} /\ Finish(m)
  /\ UNCHANGED <<link, device, sends, unanswered, stale>>

TimeUp(m) ==
  /\ m \in waiting /\ Finish(m)
  /\ UNCHANGED <<link, device, sends, answer, stale>>

-----------------------------------------------------------------------------
(* Messages of a socket that is not in use are dropped. *)
SocketReplaced == unanswered' = {} /\ coming' = {}

(* connect() and close(), and onConnectionStateChanged with CONNECTING,    *)
(* ONLINE or CLOSED.  None of them touches a command.                      *)
Dial ==
  /\ hasSocket' = TRUE /\ online' = FALSE /\ SocketReplaced
  /\ UNCHANGED <<pending, device, sends, waiting, stale>>

Shown ==
  /\ online' = ~online
  /\ UNCHANGED <<hasSocket, pending, device, sends, waiting, answer, stale>>

ShutLink ==
  /\ hasSocket /\ hasSocket' = FALSE /\ SocketReplaced
  /\ UNCHANGED <<online, pending, device, sends, waiting, stale>>

(* clearAllCommandTimeouts: what is being sent is not among it.            *)
Clear == pending' = {} /\ waiting' = {} /\ stale' = stale \cup Awaited

(* DISCONNECTED, or invalidateSession after AUTH_FAILED: of a result, of a  *)
(* refresh, or of the session that sendCommand finds expired.              *)
LinkLost ==
  /\ hasSocket' = FALSE /\ online' = FALSE /\ SocketReplaced /\ Clear
  /\ UNCHANGED <<device, sends>>

(* forgetGateway, after its awaits: the entries and their timers stay.     *)
ForgetReleases ==
  /\ online' = FALSE /\ pending' = {} /\ stale' = stale \cup Awaited \cup waiting
  /\ UNCHANGED <<hasSocket, device, sends, waiting, answer>>

CommandsNext ==
  \/ \E d \in Device : Submit(d)
  \/ \E m \in 1 .. Len(device) :
       SendSettles(m) \/ Sent(m) \/ NotSent(m) \/ Answer(m) \/ Result(m) \/ TimeUp(m)
  \/ Dial \/ Shown \/ ShutLink \/ LinkLost \/ ForgetReleases

CommandsSpec == CommandsInit /\ [][CommandsNext]_commandVars

(* The platform settles a send, continuations and timers run.  The gateway *)
(* need not answer and the link need not come back.                        *)
FairCommandsSpec ==
  /\ CommandsSpec
  /\ \A m \in 1 .. MaxCommands :
       /\ WF_commandVars(SendSettles(m)) /\ WF_commandVars(Sent(m) \/ NotSent(m))
       /\ WF_commandVars(TimeUp(m))

-----------------------------------------------------------------------------
Commands == 1 .. Len(device)

CommandsTypeOK ==
  /\ online \in BOOLEAN /\ hasSocket \in BOOLEAN
  /\ pending \subseteq Device /\ device \in Seq(Device)
  /\ sending \subseteq Commands /\ resolved \subseteq Commands /\ rejected \subseteq Commands
  /\ waiting \subseteq Commands /\ unanswered \subseteq Commands /\ coming \subseteq Commands
  /\ stale \subseteq Commands

(* A device is disabled exactly while its command is under way, and there  *)
(* is one such command at most: also when results overtake sends, come     *)
(* after their timer or are lost with a socket.  (Exempt are commands      *)
(* whose device was released while their send was awaited, or by           *)
(* forgetGateway, until they and those that joined them have ended.)       *)
PendingIsUnderway ==
  \A d \in Device : Underway(d) \cap stale = {} =>
    (d \in pending <=> Underway(d) # {}) /\ \A m, n \in Underway(d) : m = n

(* No device stays disabled: every pending device is released (the timer   *)
(* of five seconds, the catch, the loss), though answers may never come.   *)
PendingEnds == \A d \in Device : d \in pending ~> d \notin pending

-----------------------------------------------------------------------------
(* Why: a command is at one place, and stale commands are among themselves. *)
OnePlace ==
  /\ sending \cap (resolved \cup rejected \cup waiting) = {}
  /\ resolved \cap (rejected \cup waiting) = {} /\ rejected \cap waiting = {}

StaleTogether ==
  \A d \in Device : Underway(d) \cap stale # {} => Underway(d) \subseteq stale

PendingInv == OnePlace /\ StaleTogether /\ PendingIsUnderway
=============================================================================
