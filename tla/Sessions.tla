------------------------------- MODULE Sessions -------------------------------
(***************************************************************************)
(* SessionRegistry of VirtualGateway/devcontrol_gateway/security.py, and   *)
(* the WebSocket handler of app.py that keeps a connection no longer than  *)
(* the session it was opened with: pairing codes that expire and rotate,   *)
(* wrong guesses that lock a source out, credentials with a lifetime.      *)
(*                                                                         *)
(* Codes and lockouts live on the monotonic clock, credentials on the      *)
(* wall clock, the connection's idle timer on the monotonic clock again.   *)
(***************************************************************************)
EXTENDS Integers, Sequences

CONSTANTS
  Source,           \* addresses that clients pair from
  Client,           \* clientIds
  Code,             \* six-digit pairing codes
  Credential,       \* credentials; random, so none is issued twice
  Listener,         \* those whose client opens a WebSocket
  PairingLifetime,  \* PAIRING_LIFETIME_SECONDS
  LockTime,         \* LOCK_SECONDS
  MaxFailures,      \* MAX_FAILURES
  CredentialTtl,    \* credential_ttl_seconds
  ClockStep,        \* how far time.time() may be from time.monotonic()
  MaxTime,          \* bound of the model: when pairing stops
  MaxRestarts       \* bound of the model

ASSUME LimitsArePositive ==
  /\ PairingLifetime \in Nat \ {0} /\ LockTime \in Nat \ {0}
  /\ MaxFailures \in Nat \ {0} /\ CredentialTtl \in Nat \ {0} /\ ClockStep \in Nat

VARIABLES
  now,            \* time.monotonic()
  offset,         \* time.time() - time.monotonic()
  code,           \* _pairing_code
  codeExpiresAt,  \* _pairing_expires_at
  draw,           \* history: how many codes have been drawn
  failures,       \* PairAttempt.failures
  lockedUntil,    \* PairAttempt.locked_until
  guesses,        \* history: times of a source's wrong guesses since it paired
  sessions,       \* keys of _sessions
  owner,          \* ClientSession.client_id of every issued credential
  expiresAt,      \* ClientSession.expires_at of every issued credential
  grants,         \* history: with which draw, how old, a credential was issued
  refused,        \* history: credentials that authenticate() refused
  dismissed,      \* history: credentials that an idle timer answered AUTH_FAILED
  deadline,       \* when a credential's idle connection times out, Busy or Closed
  restarts

clockVars == <<now, offset>>
codeVars  == <<code, codeExpiresAt, draw>>
guessVars == <<failures, lockedUntil, guesses>>
grantVars == <<owner, expiresAt, grants>>
vars == <<clockVars, codeVars, guessVars, sessions, grantVars, refused,
          dismissed, deadline, restarts>>

Closed == -1   \* no connection
Busy   == -2   \* a greeting or a message is under way, and no timer runs
Grant  == [draw : Nat, age : Nat]
wall   == now + offset
issued == DOMAIN grants

-----------------------------------------------------------------------------
(* rotate_pairing_code: any code but the one it replaces. *)
Rotate(old) ==
  /\ code' \in Code \ {old}
  /\ codeExpiresAt' = now + PairingLifetime
CodeExpired == now >= codeExpiresAt

(* _rotate_if_expired: the code an attempt is compared with.               *)
UsableCodes ==
  IF CodeExpired
  THEN {[code |-> c, draw |-> draw + 1, drawnAt |-> now] : c \in Code \ {code}}
  ELSE {[code |-> code, draw |-> draw, drawnAt |-> codeExpiresAt - PairingLifetime]}

Keep(usable) ==
  /\ code' = usable.code /\ draw' = usable.draw
  /\ codeExpiresAt' = usable.drawnAt + PairingLifetime

Live(c) == c \in sessions /\ wall < expiresAt[c]

(* Seeded fault: an expired session is refused but not revoked. *)
RefuseOnly(c) ==
  /\ c \in issued /\ ~Live(c)
  /\ refused' = refused \cup {c}
  /\ UNCHANGED sessions

(* authenticate() raising AUTH_FAILED: an expired session is revoked. *)
Refuse(c) ==
  /\ c \in issued /\ ~Live(c)
  /\ refused' = refused \cup {c}
  /\ sessions' = sessions \ {c}

-----------------------------------------------------------------------------
Init ==
  /\ now = 0 /\ offset = 0
  /\ code \in Code /\ codeExpiresAt = PairingLifetime /\ draw = 0
  /\ failures = [s \in Source |-> 0] /\ lockedUntil = [s \in Source |-> 0]
  /\ guesses = [s \in Source |-> <<>>]
  /\ sessions = {} /\ owner = <<>> /\ expiresAt = <<>> /\ grants = <<>>
  /\ refused = {} /\ dismissed = {} /\ deadline = [c \in Credential |-> Closed]
  /\ restarts = 0

(* pair() from a locked source: RATE_LIMITED without a look at the code.   *)
PairLocked(s) ==
  /\ now <= MaxTime
  /\ lockedUntil[s] > now
  /\ \E usable \in UsableCodes : Keep(usable)
  /\ UNCHANGED <<clockVars, guessVars, sessions, grantVars, refused, dismissed,
                 deadline, restarts>>

(* Seeded fault: the failure that locks a source is counted one late. *)
PairWrongLate(s) ==
  /\ now <= MaxTime
  /\ lockedUntil[s] <= now
  /\ \E usable \in UsableCodes, guess \in Code :
       guess # usable.code /\ Keep(usable)
  /\ guesses' = [guesses EXCEPT ![s] = Append(@, now)]
  /\ IF failures[s] >= MaxFailures
     THEN /\ failures' = [failures EXCEPT ![s] = 0]
          /\ lockedUntil' = [lockedUntil EXCEPT ![s] = now + LockTime]
     ELSE /\ failures' = [failures EXCEPT ![s] = @ + 1]
          /\ UNCHANGED lockedUntil
  /\ UNCHANGED <<clockVars, sessions, grantVars, refused, dismissed, deadline,
                 restarts>>

(* pair() with a wrong code; the last failure allowed locks the source.    *)
PairWrong(s) ==
  /\ now <= MaxTime
  /\ lockedUntil[s] <= now
  /\ \E usable \in UsableCodes, guess \in Code :
       guess # usable.code /\ Keep(usable)
  /\ guesses' = [guesses EXCEPT ![s] = Append(@, now)]
  /\ IF failures[s] + 1 >= MaxFailures
     THEN /\ failures' = [failures EXCEPT ![s] = 0]
          /\ lockedUntil' = [lockedUntil EXCEPT ![s] = now + LockTime]
     ELSE /\ failures' = [failures EXCEPT ![s] = @ + 1]
          /\ UNCHANGED lockedUntil
  /\ UNCHANGED <<clockVars, sessions, grantVars, refused, dismissed, deadline,
                 restarts>>

(* Seeded fault: a code that was used is not replaced. *)
PairNotRotating(s, client, c) ==
  /\ now <= MaxTime
  /\ lockedUntil[s] <= now
  /\ c \notin issued
  /\ \E usable \in UsableCodes :
       /\ grants' = [k \in issued \cup {c} |->
                       IF k = c THEN [draw |-> usable.draw, age |-> now - usable.drawnAt]
                                ELSE grants[k]]
       /\ Keep(usable)
  /\ failures' = [failures EXCEPT ![s] = 0]
  /\ lockedUntil' = [lockedUntil EXCEPT ![s] = 0]
  /\ guesses' = [guesses EXCEPT ![s] = <<>>]
  /\ sessions' = sessions \cup {c}
  /\ owner' = [k \in issued \cup {c} |-> IF k = c THEN client ELSE owner[k]]
  /\ expiresAt' = [k \in issued \cup {c} |->
                     IF k = c THEN wall + CredentialTtl ELSE expiresAt[k]]
  /\ UNCHANGED <<clockVars, refused, dismissed, deadline, restarts>>

(* pair() with the right code: a new credential, and the code is used up.  *)
Pair(s, client, c) ==
  /\ now <= MaxTime
  /\ lockedUntil[s] <= now
  /\ c \notin issued
  /\ \E usable \in UsableCodes :
       /\ grants' = [k \in issued \cup {c} |->
                       IF k = c THEN [draw |-> usable.draw, age |-> now - usable.drawnAt]
                                ELSE grants[k]]
       /\ Rotate(usable.code) /\ draw' = usable.draw + 1
  /\ failures' = [failures EXCEPT ![s] = 0]
  /\ lockedUntil' = [lockedUntil EXCEPT ![s] = 0]
  /\ guesses' = [guesses EXCEPT ![s] = <<>>]
  /\ sessions' = sessions \cup {c}
  /\ owner' = [k \in issued \cup {c} |-> IF k = c THEN client ELSE owner[k]]
  /\ expiresAt' = [k \in issued \cup {c} |->
                     IF k = c THEN wall + CredentialTtl ELSE expiresAt[k]]
  /\ UNCHANGED <<clockVars, refused, dismissed, deadline, restarts>>

(* The pairing_code property, read by the maintenance page. *)
ShowCode ==
  /\ now <= MaxTime
  /\ CodeExpired
  /\ \E usable \in UsableCodes : Keep(usable)
  /\ UNCHANGED <<clockVars, guessVars, sessions, grantVars, refused, dismissed,
                 deadline, restarts>>

(* A request with a credential that authenticate() no longer accepts. *)
RequestRefused(c) ==
  /\ Refuse(c)
  /\ UNCHANGED <<clockVars, codeVars, guessVars, grantVars, dismissed, deadline,
                 restarts>>

(* Seeded fault: the idle timer gets a session's lifetime, not its rest. *)
IdleLifetime(c) == now + CredentialTtl

(* receive_json is given the session's remaining seconds. *)
IdleDeadline(c) == now + (expiresAt[c] - wall)

Waiting(c) == deadline[c] \notin {Closed, Busy}

(* The life of a connection: only its own deadline changes with it.        *)
Set(c, d) ==
  /\ deadline' = [deadline EXCEPT ![c] = d]
  /\ UNCHANGED <<clockVars, codeVars, guessVars, sessions, grantVars, refused,
                 dismissed, restarts>>

(* The WebSocket handler accepts a connection and sends its greeting.      *)
Connect(c) ==
  /\ c \in Listener \cap issued /\ Live(c)
  /\ deadline[c] = Closed
  /\ Set(c, Busy)

(* The handler authenticates again and waits for a message, for as long as *)
(* the session has left.                                                   *)
Resume(c) ==
  /\ deadline[c] = Busy /\ Live(c)
  /\ Set(c, IdleDeadline(c))

(* A message on a live session: its command waits for the lock, is carried *)
(* out, answered and broadcast, however long that takes.                   *)
Message(c) ==
  /\ Waiting(c) /\ Live(c)
  /\ Set(c, Busy)

(* The session died before the message came, or while one was handled: the *)
(* connection is closed with 4401.                                         *)
MessageRefused(c) ==
  /\ deadline[c] # Closed
  /\ Refuse(c)
  /\ deadline' = [deadline EXCEPT ![c] = Closed]
  /\ UNCHANGED <<clockVars, codeVars, guessVars, grantVars, dismissed, restarts>>

(* Seeded fault: the timer authenticates first and gives up when it fails. *)
TimeOutUnlessExpired(c) ==
  /\ Waiting(c) /\ now >= deadline[c] /\ Live(c)
  /\ Set(c, Closed)

(* The idle timer closes the connection with 4401, AUTH_FAILED, and leaves *)
(* the session where it is.                                                *)
TimeOut(c) ==
  /\ Waiting(c) /\ now >= deadline[c]
  /\ deadline' = [deadline EXCEPT ![c] = Closed]
  /\ dismissed' = dismissed \cup {c}
  /\ UNCHANGED <<clockVars, codeVars, guessVars, sessions, grantVars, refused,
                 restarts>>

(* The peer goes, or a command's handler raises. *)
Disconnect(c) ==
  /\ deadline[c] # Closed
  /\ Set(c, Closed)

(* The registry lives in memory: a restart forgets sessions and lockouts.  *)
Restart ==
  /\ restarts < MaxRestarts
  /\ restarts' = restarts + 1
  /\ code' \in Code /\ codeExpiresAt' = now + PairingLifetime /\ draw' = draw + 1
  /\ failures' = [s \in Source |-> 0] /\ lockedUntil' = [s \in Source |-> 0]
  /\ guesses' = [s \in Source |-> <<>>]
  /\ sessions' = {}
  /\ deadline' = [c \in Credential |-> Closed]
  /\ UNCHANGED <<clockVars, grantVars, refused, dismissed>>

(* Timers run on time: the clock does not pass a due one.  The model's     *)
(* time ends with the last connected session's, after MaxTime.             *)
Tick ==
  /\ \/ now < MaxTime \/ \E c \in Credential : Waiting(c)
     \/ \E c \in issued : deadline[c] = Busy /\ now < expiresAt[c] + ClockStep
  /\ \A c \in Credential : Waiting(c) => now < deadline[c]
  /\ now' = now + 1
  /\ UNCHANGED <<offset, codeVars, guessVars, sessions, grantVars, refused,
                 dismissed, deadline, restarts>>

StepClock ==
  /\ \E o \in -ClockStep .. ClockStep : o # offset /\ offset' = o
  /\ UNCHANGED <<now, codeVars, guessVars, sessions, grantVars, refused,
                 dismissed, deadline, restarts>>

Next ==
  \/ \E s \in Source :
       \/ PairLocked(s) \/ PairWrong(s)
       \/ \E client \in Client, c \in Credential : Pair(s, client, c)
  \/ ShowCode
  \/ \E c \in Credential :
       \/ RequestRefused(c) \/ Connect(c) \/ Resume(c) \/ Message(c)
       \/ MessageRefused(c) \/ TimeOut(c) \/ Disconnect(c)
  \/ Restart \/ Tick \/ StepClock

Spec == Init /\ [][Next]_vars

(* Time passes, the event loop runs its timers, and a greeting or a        *)
(* command is done in the end.                                             *)
Continue(c) == deadline[c] = Busy /\ (Resume(c) \/ MessageRefused(c))
FairSpec ==
  /\ Spec /\ WF_vars(Tick)
  /\ \A c \in Credential : WF_vars(TimeOut(c)) /\ WF_vars(Continue(c))

-----------------------------------------------------------------------------
TypeOK ==
  /\ now \in Nat /\ offset \in -ClockStep .. ClockStep
  /\ code \in Code /\ draw \in Nat
  /\ codeExpiresAt \in PairingLifetime .. now + PairingLifetime
  /\ failures \in [Source -> 0 .. MaxFailures - 1] /\ lockedUntil \in [Source -> Nat]
  /\ guesses \in [Source -> Seq(Nat)]
  /\ issued \subseteq Credential /\ sessions \subseteq issued
  /\ owner \in [issued -> Client] /\ expiresAt \in [issued -> Int]
  /\ grants \in [issued -> Grant]
  /\ refused \subseteq issued /\ dismissed \subseteq Credential
  /\ deadline \in [Credential -> Int]
  /\ restarts \in Nat

(* However a source times its attempts, no LockTime holds more than        *)
(* MaxFailures of its wrong guesses (failures and locked_until of pair).   *)
GuessesAreRationed ==
  \A s \in Source : \A i \in 1 .. Len(guesses[s]) :
    i + MaxFailures <= Len(guesses[s]) =>
      guesses[s][i + MaxFailures] - guesses[s][i] >= LockTime

(* Why: the failures counted are the last guesses, made after the lock     *)
(* that the guess before them set, and guesses are in order.               *)
RationInv ==
  \A s \in Source : LET g == guesses[s] f == failures[s] n == Len(guesses[s]) IN
    /\ f <= n
    /\ \A i \in 1 .. n : g[i] <= now
    /\ \A i, j \in 1 .. n : i <= j => g[i] <= g[j]
    /\ f < n => lockedUntil[s] = g[n - f] + LockTime

(* A pairing code issues one credential at most, within its lifetime and   *)
(* not after the code was replaced (rotation on success and on expiry).    *)
CodesPairOnce ==
  \A c, d \in issued :
    /\ grants[c].age < PairingLifetime
    /\ grants[c].draw = grants[d].draw => c = d

(* A credential that authenticate() once refused is never accepted again,  *)
(* even when the wall clock is set back before its expiry: what has        *)
(* expired is revoked.                                                     *)
RefusedForGood == \A c \in refused : ~Live(c)

(* Not so for a credential that the idle timer answered AUTH_FAILED: the   *)
(* timer revokes nothing, and a wall clock set back makes it live again.   *)
(* The formula is false of the code.                                       *)
DismissedForGood == \A c \in dismissed : ~Live(c)

(* No connection waits for a message longer than its session lasts, up to  *)
(* what the wall clock was stepped since (remaining_seconds, wait_for).    *)
(* While a message is handled no timer runs.                               *)
ConnectionsEndWithSession ==
  \A c \in issued : Waiting(c) => wall <= expiresAt[c] + 2 * ClockStep

(* Every connection is closed in the end, however many messages it carries. *)
EveryConnectionCloses == \A c \in Credential : deadline[c] # Closed ~> deadline[c] = Closed
=============================================================================
