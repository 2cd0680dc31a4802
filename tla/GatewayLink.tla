------------------------------ MODULE GatewayLink ------------------------------
(***************************************************************************)
(* The app's one link to its gateway: WssGatewayTransport owns the socket, *)
(* the flags and the heartbeat monitor, DeviceManager the connection state *)
(* that every page reads.  Whatever awaits may be overtaken: the page's    *)
(* onPageShow, the two buttons of the settings, the monitor's timer and    *)
(* the answers of the network all run between two steps of a connect().    *)
(*                                                                         *)
(* An Attempt is one call of connect(), with the socket it makes, numbered *)
(* in the order of the calls.                                              *)
(***************************************************************************)
EXTENDS Integers

CONSTANTS MaxAttempts, MaxEndings       \* bounds of the model

ASSUME MaxAttemptsIsNat == MaxAttempts \in Nat

Attempt == 1 .. MaxAttempts
None    == 0                            \* this.socket is null

VARIABLES
  socket, closedByUser, reported, monitor, \* WssGatewayTransport's fields
  ws, silent,    \* each attempt's socket; no message for 45 seconds
  pc, caller,    \* how far each attempt is, and who called it
  state, pairingRequired, session, busy,   \* DeviceManager's fields
  forgetting,    \* how far forgetGateway is
  closers,       \* close() calls of invalidateSession that have not ended
  launched, expired, endings,
  disturbed      \* history: a connect or a close was overtaken by another step

transport == <<socket, closedByUser, reported, monitor>>
attempts  == <<ws, pc, caller>>
manager   == <<state, pairingRequired, session, busy>>
ending    == <<forgetting, closers, endings>>
vars == <<transport, attempts, manager, ending, silent, launched, expired, disturbed>>

Dead      == \A c \in Attempt : c = socket => ws[c] # "open"
UnderWay  == {c \in Attempt : pc[c] \notin {"unused", "done"}}
Queued    == \E c \in Attempt : pc[c] \in {"resolved", "rejected"}
Occupied  == UnderWay # {} \/ busy \/ forgetting # "no" \/ closers > 0
Overtakes == disturbed' = (disturbed \/ Occupied)

-----------------------------------------------------------------------------
Init ==
  /\ socket = None /\ closedByUser = FALSE /\ reported = FALSE /\ monitor = FALSE
  /\ ws = [c \in Attempt |-> "none"] /\ silent = FALSE
  /\ pc = [c \in Attempt |-> "unused"] /\ caller = [c \in Attempt |-> "nobody"]
  /\ state = "disconnected" /\ pairingRequired = TRUE /\ busy = FALSE
  /\ session \in BOOLEAN             \* GatewaySessionStore.restore()
  /\ forgetting = "no" /\ closers = 0 /\ endings = 0
  /\ launched = ~session /\ expired = FALSE /\ disturbed = FALSE

(* closeSocketOnly, up to its await. *)
CloseSocket ==
  /\ socket' = None
  /\ ws' = [c \in Attempt |-> IF c = socket THEN "closed" ELSE ws[c]]

(* handleUnexpectedDisconnect: once for each connection, and not when the  *)
(* app itself closed it; after it, perhaps, the catch of a caller that goes *)
(* back to pairing.                                                        *)
Quietly == closedByUser \/ reported
Unexpected(caught) ==
  /\ reported' = (reported \/ ~closedByUser) /\ monitor' = (monitor /\ Quietly)
  /\ IF Quietly /\ ~caught
     THEN UNCHANGED <<state, pairingRequired>>
     ELSE state' = "disconnected" /\ pairingRequired' = TRUE

(* Seeded fault: a new connection inherits that the last loss was told. *)
ConnectReported(c) ==
  /\ closedByUser' = FALSE /\ state' = "connecting"
  /\ socket' = c /\ ws' = [ws EXCEPT ![c] = "opening"]
  /\ pc' = [pc EXCEPT ![c] = "handshake"] /\ UNCHANGED reported

(* Seeded fault: a new connection inherits that the app closed the last. *)
ConnectClosed(c) ==
  /\ reported' = FALSE /\ state' = "connecting"
  /\ socket' = c /\ ws' = [ws EXCEPT ![c] = "opening"]
  /\ pc' = [pc EXCEPT ![c] = "handshake"] /\ UNCHANGED closedByUser

(* connect() up to the handshake: the flags are cleared, and the new       *)
(* socket takes the place of whichever is there by now.                    *)
Connect(c) ==
  /\ closedByUser' = FALSE /\ reported' = FALSE /\ state' = "connecting"
  /\ socket' = c /\ ws' = [ws EXCEPT ![c] = "opening"]
  /\ pc' = [pc EXCEPT ![c] = "handshake"]

(* Seeded fault: connect() leaves the socket that is there to itself. *)
BeginOver(c, by) ==
  /\ pc[c] = "unused" /\ \A d \in 1 .. c - 1 : pc[d] # "unused"
  /\ caller' = [caller EXCEPT ![c] = by]
  /\ Connect(c) /\ UNCHANGED <<monitor, silent>>

(* A socket that is there is closed first, and the closing is awaited. *)
Begin(c, by) ==
  /\ pc[c] = "unused" /\ \A d \in 1 .. c - 1 : pc[d] # "unused"
  /\ caller' = [caller EXCEPT ![c] = by]
  /\ \/ socket = None /\ Connect(c)
     \/ /\ socket # None /\ closedByUser' = TRUE /\ CloseSocket
        /\ pc' = [pc EXCEPT ![c] = "closing"] /\ UNCHANGED <<reported, state>>
  /\ UNCHANGED <<monitor, silent>>

Closed(c) ==
  /\ pc[c] = "closing" /\ ~Queued /\ Connect(c)
  /\ UNCHANGED <<caller, monitor, silent, pairingRequired, session, busy, ending,
                 launched, expired, disturbed>>

(* The network accepts or refuses: the promise settles and the rest of     *)
(* connect() is queued.  What was queued earlier, a timer or a tap, may    *)
(* still come before it; what is awaited later does not (Queued).          *)
Accepted(c) ==
  /\ pc[c] = "handshake" /\ ws[c] = "opening"
  /\ pc' = [pc EXCEPT ![c] = "resolved"] /\ ws' = [ws EXCEPT ![c] = "open"]
  /\ UNCHANGED <<caller, transport, manager, ending, silent, launched, expired, disturbed>>

Refused(c) ==
  /\ pc[c] = "handshake"
  /\ pc' = [pc EXCEPT ![c] = "rejected"] /\ ws' = [ws EXCEPT ![c] = "closed"]
  /\ UNCHANGED <<caller, transport, manager, ending, silent, launched, expired, disturbed>>

(* connect() after its await: ONLINE, whatever happened to the socket. *)
Up(c) ==
  /\ pc[c] = "resolved" /\ pc' = [pc EXCEPT ![c] = "done"]
  /\ state' = "online" /\ pairingRequired' = FALSE
  /\ monitor' = TRUE /\ silent' = FALSE
  /\ busy' = (busy /\ caller[c] # "pairGateway")
  /\ UNCHANGED <<socket, closedByUser, reported, ws, caller, session, ending,
                 launched, expired, disturbed>>

(* The catch of connect(): it closes whatever socket is there, awaits that, *)
(* and throws.  Of its callers, initialize and pairGateway go back to      *)
(* pairing, reconnect only keeps the error.                                *)
Down(c) ==
  LET thrown == socket = None IN
    /\ pc[c] = "rejected"
    /\ pc' = [pc EXCEPT ![c] = IF thrown THEN "done" ELSE "throwing"]
    /\ Unexpected(thrown /\ caller[c] # "reconnect") /\ CloseSocket
    /\ busy' = (busy /\ ~(thrown /\ caller[c] = "pairGateway"))
    /\ UNCHANGED <<closedByUser, caller, session, ending, silent, launched, expired, disturbed>>

Thrown(c) ==
  /\ pc[c] = "throwing" /\ ~Queued /\ pc' = [pc EXCEPT ![c] = "done"]
  /\ IF caller[c] = "reconnect"
     THEN UNCHANGED <<state, pairingRequired>>
     ELSE state' = "disconnected" /\ pairingRequired' = TRUE
  /\ busy' = (busy /\ caller[c] # "pairGateway")
  /\ UNCHANGED <<transport, ws, caller, session, ending, silent, launched, expired, disturbed>>

-----------------------------------------------------------------------------
(* initialize with a session that was stored. *)
Launch(c) ==
  /\ ~launched /\ launched' = TRUE /\ pairingRequired' = FALSE
  /\ Begin(c, "initialize") /\ Overtakes
  /\ UNCHANGED <<session, busy, ending, expired>>

(* The pairing page: pairGateway asks the gateway. *)
Pair ==
  /\ launched /\ pairingRequired /\ ~busy
  /\ busy' = TRUE /\ state' = "authenticating" /\ Overtakes
  /\ UNCHANGED <<transport, attempts, pairingRequired, session, ending, silent, launched, expired>>

PairRefused ==
  /\ busy /\ \A c \in UnderWay : caller[c] # "pairGateway"
  /\ busy' = FALSE /\ state' = "disconnected" /\ pairingRequired' = TRUE
  /\ UNCHANGED <<transport, attempts, session, ending, silent, launched, expired, disturbed>>

(* It is paired: the new session is stored and connects. *)
Paired(c) ==
  /\ busy /\ \A d \in UnderWay : caller[d] # "pairGateway"
  /\ session' = TRUE /\ expired' = FALSE /\ pairingRequired' = FALSE
  /\ Begin(c, "pairGateway")
  /\ disturbed' = (disturbed \/ UnderWay # {} \/ forgetting # "no" \/ closers > 0)
  /\ UNCHANGED <<busy, ending, launched>>

(* onPageShow when the link is not up, or the button of the settings. *)
Reconnect(c) ==
  /\ launched /\ ~pairingRequired /\ session /\ ~expired
  /\ Begin(c, "reconnect") /\ Overtakes
  /\ UNCHANGED <<pairingRequired, session, busy, ending, launched, expired>>

ReconnectUnpaired ==
  /\ ~pairingRequired /\ ~session /\ pairingRequired' = TRUE
  /\ UNCHANGED <<transport, attempts, state, session, busy, ending, silent,
                 launched, expired, disturbed>>

(* close(), up to its await.  Without a socket nothing is awaited; the     *)
(* model lets other steps come first then too.                             *)
Close ==
  /\ closedByUser' = TRUE /\ reported' = TRUE /\ monitor' = FALSE /\ CloseSocket
  /\ UNCHANGED <<pc, caller, silent, launched>>

(* forgetGateway: close(), clear the stores, then the fields. *)
Forget ==
  /\ launched /\ ~pairingRequired /\ forgetting = "no"
  /\ endings < MaxEndings /\ endings' = endings + 1
  /\ forgetting' = "closing" /\ Close /\ Overtakes
  /\ UNCHANGED <<manager, closers, expired>>

Forgotten ==
  /\ forgetting # "no" /\ ~Queued
  /\ \/ /\ forgetting = "closing" /\ forgetting' = "clearing" /\ state' = "closed"
        /\ UNCHANGED <<session, pairingRequired>>
     \/ /\ forgetting = "clearing" /\ forgetting' = "no" /\ state' = "disconnected"
        /\ session' = FALSE /\ pairingRequired' = TRUE
  /\ UNCHANGED <<transport, attempts, busy, closers, endings, silent,
                 launched, expired, disturbed>>

(* invalidateSession starts a close() and does not wait for it. *)
Invalidate ==
  /\ session' = FALSE /\ pairingRequired' = TRUE /\ state' = "disconnected"
  /\ closers' = closers + 1 /\ Close /\ Overtakes
  /\ UNCHANGED <<busy, forgetting>>

(* A refresh is answered with AUTH_FAILED. *)
Unauthorised ==
  /\ session /\ launched /\ endings < MaxEndings /\ endings' = endings + 1
  /\ Invalidate /\ UNCHANGED expired

CloseEnds ==
  /\ closers > 0 /\ ~Queued /\ closers' = closers - 1 /\ state' = "closed"
  /\ UNCHANGED <<transport, attempts, pairingRequired, session, busy, forgetting, endings,
                 silent, launched, expired, disturbed>>

-----------------------------------------------------------------------------
(* The peer or the network ends a connection; nobody need be told. *)
Lose(c) ==
  /\ ws[c] = "open" /\ ws' = [ws EXCEPT ![c] = "closed"]
  /\ UNCHANGED <<pc, caller, transport, manager, ending, silent, launched, expired, disturbed>>

(* The 'close' or 'error' event of the socket that is in use: it comes     *)
(* after what was queued before it.                                        *)
OnClose ==
  /\ socket # None /\ ws[socket] = "closed" /\ pc[socket] # "resolved"
  /\ Unexpected(FALSE) /\ CloseSocket
  /\ UNCHANGED <<closedByUser, pc, caller, session, busy, ending, silent,
                 launched, expired, disturbed>>

(* 45 seconds without a message. *)
Quieten ==
  /\ Dead /\ ~silent /\ silent' = TRUE
  /\ UNCHANGED <<transport, attempts, manager, ending, launched, expired, disturbed>>

(* The monitor's timer.  It goes on during a reconnect. *)
Beat ==
  /\ monitor /\ ~expired /\ silent
  /\ Unexpected(FALSE) /\ CloseSocket
  /\ disturbed' = (disturbed \/ UnderWay # {})
  /\ UNCHANGED <<closedByUser, pc, caller, session, busy, ending, silent, launched, expired>>

BeatExpired ==
  /\ monitor /\ expired
  /\ IF closedByUser \/ reported
     THEN CloseSocket /\ UNCHANGED <<closedByUser, reported, monitor, pc, caller, manager,
                                     forgetting, closers, silent, launched, disturbed>>
     ELSE Invalidate
  /\ UNCHANGED <<endings, expired>>

Expire ==
  /\ launched /\ ~expired /\ expired' = TRUE
  /\ UNCHANGED <<transport, attempts, manager, ending, silent, launched, disturbed>>

(* What the app does with what it has been given. *)
Continue ==
  \/ \E c \in Attempt : Closed(c) \/ Up(c) \/ Down(c) \/ Thrown(c)
  \/ Forgotten \/ CloseEnds
Timer == Beat \/ BeatExpired
Settle == \E c \in Attempt : Accepted(c) \/ Refused(c)

Next ==
  \/ Continue \/ Timer \/ Settle
  \/ \E c \in Attempt : Launch(c) \/ Paired(c) \/ Reconnect(c) \/ Lose(c)
  \/ Pair \/ PairRefused \/ ReconnectUnpaired \/ Forget \/ Unauthorised
  \/ OnClose \/ Quieten \/ Expire

Spec == Init /\ [][Next]_vars

(* Continuations and timers run, a handshake settles, and 45 seconds       *)
(* without a message pass.  Nothing is assumed of the user, of the peer,   *)
(* or of the events of a socket.                                           *)
FairSpec ==
  /\ Spec /\ WF_vars(Settle) /\ WF_vars(Timer) /\ WF_vars(Quieten)
  /\ \A c \in Attempt : WF_vars(Closed(c) \/ Up(c) \/ Down(c) \/ Thrown(c))
  /\ WF_vars(Forgotten) /\ WF_vars(CloseEnds)

-----------------------------------------------------------------------------
TypeOK ==
  /\ socket \in Attempt \cup {None}
  /\ closedByUser \in BOOLEAN /\ reported \in BOOLEAN /\ monitor \in BOOLEAN
  /\ ws \in [Attempt -> {"none", "opening", "open", "closed"}] /\ silent \in BOOLEAN
  /\ pc \in [Attempt -> {"unused", "closing", "handshake", "resolved", "rejected",
                         "throwing", "done"}]
  /\ caller \in [Attempt -> {"nobody", "initialize", "pairGateway", "reconnect"}]
  /\ state \in {"disconnected", "authenticating", "connecting", "online", "closed"}
  /\ pairingRequired \in BOOLEAN /\ session \in BOOLEAN /\ busy \in BOOLEAN
  /\ forgetting \in {"no", "closing", "clearing"} /\ closers \in Nat /\ endings \in Nat
  /\ launched \in BOOLEAN /\ expired \in BOOLEAN /\ disturbed \in BOOLEAN

(* There is a socket, its loss can be reported, the monitor watches it. *)
Watched ==
  socket # None /\ monitor /\ ~reported /\ ~closedByUser /\ ~pairingRequired

(* While no connect or close has been overtaken: when nothing is under way *)
(* and the pages show ONLINE, the connection is watched.                   *)
OnlineIsWatched == ~disturbed /\ ~Occupied /\ state = "online" => Watched

(* And no connection outlives the transport's knowledge of it. *)
NoStraySocket == ~disturbed => \A c \in Attempt : ws[c] = "open" => c = socket

(* Why: undisturbed, one thing is under way at a time; the socket in use is *)
(* the one of the attempt under way, with its flags clear; and the pages   *)
(* leave ONLINE before it is closed.                                       *)
Unlaunched ==
  ~launched => session /\ ~monitor /\ ~busy /\ forgetting = "no" /\ closers = 0
               /\ pairingRequired /\ \A c \in Attempt : pc[c] = "unused"
OneAtATime ==
  /\ \A c, d \in UnderWay : c = d
  /\ busy => \A c \in UnderWay : caller[c] = "pairGateway"
  /\ UnderWay # {} \/ busy => forgetting = "no" /\ closers = 0
  /\ ~pairingRequired => session
SocketInUse ==
  \A c \in Attempt :
    /\ ws[c] \in {"open", "opening"} => socket = c
    /\ pc[c] = "handshake" => ws[c] = "opening"
    /\ pc[c] \in {"handshake", "resolved"} => socket = c /\ ~reported /\ ~closedByUser /\ session
    /\ pc[c] = "closing" => session /\ socket = None
    /\ pc[c] \in {"handshake", "resolved", "rejected", "throwing"} => state # "online"
OnlineThen ==
  /\ busy => state # "online"
  /\ state = "online" /\ UnderWay = {} /\ forgetting = "no" /\ closers = 0 => Watched
LinkInv == Unlaunched /\ (~disturbed => OneAtATime /\ SocketInUse /\ OnlineThen)

(* A connection that is lost without a word is noticed: within the 45      *)
(* seconds of the monitor the pages leave ONLINE, unless a connect was     *)
(* overtaken.                                                              *)
LossIsNoticed == (state = "online" /\ Dead) ~> (state # "online" \/ disturbed)

(* However calls overtake one another, CONNECTING does not stay for ever. *)
ConnectingEnds == state = "connecting" ~> state # "connecting"

(* The design document: after 45 seconds without a message the app marks   *)
(* the connection as offline.  A connect that is overtaken can leave       *)
(* ONLINE without a socket and with its loss already reported.             *)
SilenceEndsOnline == (state = "online" /\ Dead) ~> state # "online"
=============================================================================
