--------------------------- MODULE SessionsProofs ---------------------------
(***************************************************************************)
(* Proofs about Sessions: its type invariant, that no source gets more     *)
(* than MaxFailures wrong guesses into any LockTime, and that a credential *)
(* once refused is refused for good, for all limits.                       *)
(***************************************************************************)
EXTENDS Sessions, TLAPS

LEMMA InitTypes == Init => TypeOK
  BY LimitsArePositive DEF Init, TypeOK, Closed, issued, Grant

(* The code an attempt is compared with has been drawn by now. *)
LEMMA UsableTypes ==
  ASSUME TypeOK, NEW u \in UsableCodes
  PROVE  /\ u.code \in Code /\ u.draw \in Nat
         /\ u.drawnAt \in 0 .. now
         /\ u.drawnAt + PairingLifetime \in PairingLifetime .. now + PairingLifetime
  <1>1. /\ PairingLifetime \in Nat /\ now \in Nat /\ draw \in Nat /\ code \in Code
        /\ codeExpiresAt \in PairingLifetime .. now + PairingLifetime
    BY LimitsArePositive DEF TypeOK
  <1>2. CASE CodeExpired
    <2>1. PICK c \in Code : u = [code |-> c, draw |-> draw + 1, drawnAt |-> now]
      BY <1>2 DEF UsableCodes
    <2> QED
      BY <1>1, <2>1
  <1>3. CASE ~CodeExpired
    BY <1>1, <1>3 DEF UsableCodes
  <1> QED
    BY <1>2, <1>3

LEMMA KeepTypes ==
  ASSUME TypeOK, NEW u \in UsableCodes, Keep(u)
  PROVE  /\ code' \in Code /\ draw' \in Nat
         /\ codeExpiresAt' \in PairingLifetime .. now + PairingLifetime
  BY UsableTypes DEF Keep

LEMMA StepTypes == TypeOK /\ [Next]_vars => TypeOK'
  <1> SUFFICES ASSUME TypeOK, [Next]_vars PROVE TypeOK'
    OBVIOUS
  <1> USE DEF clockVars, codeVars, guessVars, grantVars
  <1>0. /\ now \in Nat /\ PairingLifetime \in Nat /\ LockTime \in Nat
        /\ MaxFailures \in Nat \ {0} /\ CredentialTtl \in Nat /\ ClockStep \in Nat
    BY LimitsArePositive DEF TypeOK
  <1>1. ASSUME NEW s \in Source, PairLocked(s) PROVE TypeOK'
    BY <1>1, KeepTypes DEF PairLocked, TypeOK, issued
  <1>2. ASSUME NEW s \in Source, PairWrong(s) PROVE TypeOK'
    <2>1. /\ code' \in Code /\ draw' \in Nat
          /\ codeExpiresAt' \in PairingLifetime .. now + PairingLifetime
      BY <1>2, KeepTypes DEF PairWrong
    <2>2. guesses' \in [Source -> Seq(Nat)]
      BY <1>0, <1>2 DEF PairWrong, TypeOK
    <2>3. /\ failures' \in [Source -> 0 .. MaxFailures - 1]
          /\ lockedUntil' \in [Source -> Nat]
      <3>1. /\ failures \in [Source -> 0 .. MaxFailures - 1]
            /\ lockedUntil \in [Source -> Nat] /\ failures[s] \in Nat
        BY <1>0 DEF TypeOK
      <3>2. CASE failures[s] + 1 >= MaxFailures
        <4>1. /\ failures' = [failures EXCEPT ![s] = 0]
              /\ lockedUntil' = [lockedUntil EXCEPT ![s] = now + LockTime]
          BY <1>2, <3>2 DEF PairWrong
        <4>2. 0 \in 0 .. MaxFailures - 1 /\ now + LockTime \in Nat
          BY <1>0
        <4> QED
          BY <3>1, <4>1, <4>2
      <3>3. CASE ~(failures[s] + 1 >= MaxFailures)
        <4>1. /\ failures' = [failures EXCEPT ![s] = failures[s] + 1]
              /\ lockedUntil' = lockedUntil
          BY <1>2, <3>3 DEF PairWrong
        <4>2. failures[s] + 1 \in 0 .. MaxFailures - 1
          BY <1>0, <3>1, <3>3
        <4> QED
          BY <3>1, <4>1, <4>2
      <3> QED
        BY <3>2, <3>3
    <2>4. UNCHANGED <<now, offset, sessions, owner, expiresAt, grants, refused,
                      dismissed, deadline, restarts>>
      BY <1>2 DEF PairWrong
    <2> QED
      BY <2>1, <2>2, <2>3, <2>4 DEF TypeOK, issued
  <1>3. ASSUME NEW s \in Source, NEW client \in Client, NEW c \in Credential,
               Pair(s, client, c)
        PROVE  TypeOK'
    <2>1. PICK u \in UsableCodes :
            /\ grants' = [k \in issued \cup {c} |->
                            IF k = c THEN [draw |-> u.draw, age |-> now - u.drawnAt]
                                     ELSE grants[k]]
            /\ Rotate(u.code) /\ draw' = u.draw + 1
      BY <1>3 DEF Pair
    <2>2. [draw |-> u.draw, age |-> now - u.drawnAt] \in Grant
      BY <1>0, UsableTypes DEF Grant
    <2>3. issued' = issued \cup {c} /\ grants' \in [issued \cup {c} -> Grant]
      BY <2>1, <2>2 DEF TypeOK, issued
    <2>4. /\ code' \in Code /\ draw' \in Nat
          /\ codeExpiresAt' \in PairingLifetime .. now + PairingLifetime
      BY <1>0, <2>1, UsableTypes DEF Rotate
    <2>5. wall + CredentialTtl \in Int
      BY <1>0 DEF wall, TypeOK
    <2>6. /\ owner' \in [issued \cup {c} -> Client]
          /\ expiresAt' \in [issued \cup {c} -> Int]
      BY <1>3, <2>5 DEF Pair, TypeOK
    <2>7. /\ failures' \in [Source -> 0 .. MaxFailures - 1]
          /\ lockedUntil' \in [Source -> Nat]
          /\ guesses' \in [Source -> Seq(Nat)]
      BY <1>0, <1>3 DEF Pair, TypeOK
    <2> QED
      BY <1>3, <2>3, <2>4, <2>6, <2>7 DEF Pair, TypeOK
  <1>4. CASE ShowCode
    BY <1>4, KeepTypes DEF ShowCode, TypeOK, issued
  <1>5. ASSUME NEW c \in Credential, Refuse(c)
        PROVE  sessions' \subseteq issued /\ refused' \subseteq issued
    BY <1>5 DEF Refuse, TypeOK
  <1>6. ASSUME NEW c \in Credential, RequestRefused(c) PROVE TypeOK'
    BY <1>5, <1>6 DEF RequestRefused, TypeOK, issued
  <1>7. ASSUME NEW c \in Credential, NEW d \in Int, Set(c, d) PROVE TypeOK'
    BY <1>7 DEF Set, TypeOK, issued
  <1>8. ASSUME NEW c \in Credential, Connect(c) \/ Message(c) \/ Disconnect(c) PROVE TypeOK'
    BY <1>7, <1>8 DEF Connect, Message, Disconnect, Busy, Closed
  <1>81. ASSUME NEW c \in Credential, Resume(c) PROVE TypeOK'
    <2>1. IdleDeadline(c) \in Int
      BY <1>0, <1>81 DEF Resume, Live, IdleDeadline, wall, TypeOK
    <2> QED
      BY <1>7, <1>81, <2>1 DEF Resume
  <1>9. ASSUME NEW c \in Credential, MessageRefused(c) PROVE TypeOK'
    BY <1>5, <1>9 DEF MessageRefused, TypeOK, issued, Closed
  <1>91. ASSUME NEW c \in Credential, TimeOut(c) PROVE TypeOK'
    BY <1>91 DEF TimeOut, TypeOK, issued, Closed
  <1>10. CASE Restart
    <2>1. /\ code' \in Code /\ draw' \in Nat
          /\ codeExpiresAt' \in PairingLifetime .. now' + PairingLifetime
          /\ restarts' \in Nat
      BY <1>0, <1>10 DEF Restart, clockVars, TypeOK
    <2>2. /\ failures' \in [Source -> 0 .. MaxFailures - 1]
          /\ lockedUntil' \in [Source -> Nat]
          /\ guesses' \in [Source -> Seq(Nat)]
          /\ deadline' \in [Credential -> Int]
      BY <1>0, <1>10 DEF Restart, Closed
    <2>3. /\ sessions' = {} /\ grants' = grants /\ refused' = refused
          /\ dismissed' = dismissed
          /\ owner' = owner /\ expiresAt' = expiresAt
          /\ now' = now /\ offset' = offset
      BY <1>10 DEF Restart, clockVars, grantVars
    <2> QED
      BY <2>1, <2>2, <2>3 DEF TypeOK, issued
  <1>11. CASE Tick \/ StepClock
    <2>1. CASE Tick
      <3>1. now' = now + 1
        BY <2>1 DEF Tick
      <3>2. now' \in Nat /\ codeExpiresAt \in PairingLifetime .. now' + PairingLifetime
        BY <1>0, <3>1 DEF TypeOK
      <3>3. UNCHANGED <<offset, codeVars, guessVars, sessions, grantVars, refused,
                        dismissed, deadline, restarts>>
        BY <2>1 DEF Tick
      <3>4. UNCHANGED <<offset, code, codeExpiresAt, draw, failures, lockedUntil,
                        guesses, sessions, owner, expiresAt, grants, refused,
                        dismissed, deadline, restarts>>
        BY <3>3 DEF codeVars, guessVars, grantVars
      <3> QED
        BY <3>2, <3>4 DEF TypeOK, issued
    <2>2. CASE StepClock
      BY <1>0, <2>2 DEF StepClock, TypeOK, issued
    <2> QED
      BY <1>11, <2>1, <2>2
  <1>12. CASE UNCHANGED vars
    BY <1>12 DEF vars, TypeOK, issued
  <1> QED
    BY <1>1, <1>2, <1>3, <1>4, <1>6, <1>8, <1>81, <1>9, <1>91, <1>10, <1>11, <1>12 DEF Next

(* Every reachable state of SessionRegistry and its connections is well    *)
(* typed: no source has MaxFailures failures pending, no code is older     *)
(* than the clock.                                                         *)
THEOREM TypeCorrect == Spec => []TypeOK
  BY InitTypes, StepTypes, PTL DEF Spec

-----------------------------------------------------------------------------
(* A step that is not a guess leaves the counting alone, or time passes. *)
LEMMA IdleRation ==
  ASSUME TypeOK, RationInv, GuessesAreRationed,
         UNCHANGED <<failures, lockedUntil, guesses>>, now' \in Nat, now <= now'
  PROVE  RationInv' /\ GuessesAreRationed'
  <1>1. GuessesAreRationed'
    BY DEF GuessesAreRationed
  <1>2. ASSUME NEW s \in Source, NEW i \in 1 .. Len(guesses[s])
        PROVE  guesses[s][i] <= now'
    <2>1. guesses[s][i] \in Nat /\ guesses[s][i] <= now /\ now \in Nat
      BY DEF TypeOK, RationInv
    <2> QED
      BY <2>1
  <1> QED
    BY <1>1, <1>2 DEF RationInv

(* A source that has paired starts from nothing. *)
LEMMA FreshRation ==
  ASSUME TypeOK, RationInv, GuessesAreRationed, NEW S \in SUBSET Source,
         failures'    = [s \in Source |-> IF s \in S THEN 0 ELSE failures[s]],
         lockedUntil' = [s \in Source |-> IF s \in S THEN 0 ELSE lockedUntil[s]],
         guesses'     = [s \in Source |-> IF s \in S THEN <<>> ELSE guesses[s]],
         now' = now
  PROVE  RationInv' /\ GuessesAreRationed'
  BY DEF RationInv, GuessesAreRationed

(* A wrong guess is made after the lock of the guess MaxFailures before it. *)
LEMMA GuessRation ==
  ASSUME TypeOK, RationInv, GuessesAreRationed, NEW s \in Source, PairWrong(s)
  PROVE  RationInv' /\ GuessesAreRationed'
  <1> DEFINE g == guesses[s]
             n == Len(guesses[s])
             f == failures[s]
             h == Append(g, now)
  <1>0. /\ MaxFailures \in Nat \ {0} /\ LockTime \in Nat /\ now \in Nat
        /\ g \in Seq(Nat) /\ f \in 0 .. MaxFailures - 1 /\ n \in Nat
        /\ lockedUntil[s] \in Nat
    BY LimitsArePositive DEF TypeOK
  <1>1. /\ f <= n
        /\ \A i \in 1 .. n : g[i] <= now
        /\ \A i, j \in 1 .. n : i <= j => g[i] <= g[j]
        /\ f < n => lockedUntil[s] = g[n - f] + LockTime
    BY DEF RationInv
  <1>2. /\ now' = now /\ guesses' = [guesses EXCEPT ![s] = h]
        /\ lockedUntil[s] <= now
        /\ IF f + 1 >= MaxFailures
             THEN /\ failures' = [failures EXCEPT ![s] = 0]
                  /\ lockedUntil' = [lockedUntil EXCEPT ![s] = now + LockTime]
             ELSE /\ failures' = [failures EXCEPT ![s] = f + 1]
                  /\ lockedUntil' = lockedUntil
    BY DEF PairWrong, clockVars
  <1>3. /\ h \in Seq(Nat) /\ Len(h) = n + 1 /\ h[n + 1] = now
        /\ \A i \in 1 .. n : h[i] = g[i] /\ g[i] \in Nat
    BY <1>0
  <1>4. /\ guesses'[s] = h
        /\ \A t \in Source \ {s} : /\ guesses'[t] = guesses[t]
                                  /\ failures'[t] = failures[t]
                                  /\ lockedUntil'[t] = lockedUntil[t]
        /\ IF f + 1 >= MaxFailures
             THEN failures'[s] = 0 /\ lockedUntil'[s] = now + LockTime
             ELSE failures'[s] = f + 1 /\ lockedUntil'[s] = lockedUntil[s]
    BY <1>2 DEF TypeOK
  <1> HIDE DEF g, n, f, h
  <1>5. /\ \A i \in 1 .. n + 1 : h[i] <= now
        /\ \A i, j \in 1 .. n + 1 : i <= j => h[i] <= h[j]
    <2>1. ASSUME NEW i \in 1 .. n + 1 PROVE h[i] <= now /\ h[i] \in Nat
      <3>1. CASE i \in 1 .. n
        BY <1>1, <1>3, <3>1
      <3>2. CASE i = n + 1
        BY <1>0, <1>3, <3>2
      <3> QED
        BY <1>0, <3>1, <3>2
    <2>2. ASSUME NEW i \in 1 .. n + 1, NEW j \in 1 .. n + 1, i <= j
          PROVE  h[i] <= h[j]
      <3>1. CASE j \in 1 .. n
        <4>1. i \in 1 .. n
          BY <1>0, <2>2, <3>1
        <4> QED
          BY <1>1, <1>3, <2>2, <3>1, <4>1
      <3>2. CASE j = n + 1
        BY <1>3, <2>1, <3>2
      <3> QED
        BY <1>0, <3>1, <3>2
    <2> QED
      BY <2>1, <2>2
  <1>6. ASSUME NEW i \in 1 .. n + 1, i + MaxFailures <= n + 1
        PROVE  h[i + MaxFailures] - h[i] >= LockTime
    <2>1. CASE i + MaxFailures <= n
      <3>1. i \in 1 .. n /\ i + MaxFailures \in 1 .. n
        BY <1>0, <2>1
      <3>2. g[i + MaxFailures] - g[i] >= LockTime
        BY <2>1, <3>1 DEF GuessesAreRationed, g, n
      <3> QED
        BY <1>3, <3>1, <3>2
    <2>2. CASE i + MaxFailures = n + 1
      <3>1. i \in 1 .. n /\ n - f \in 1 .. n /\ i <= n - f
        BY <1>0, <2>2
      <3>2. g[i] <= g[n - f] /\ lockedUntil[s] = g[n - f] + LockTime
        BY <1>0, <1>1, <3>1
      <3>3. g[i] \in Nat /\ g[n - f] \in Nat /\ h[i] = g[i]
        BY <1>3, <3>1
      <3> QED
        <4>1. h[i + MaxFailures] = now /\ lockedUntil[s] <= now
          BY <1>2, <1>3, <2>2
        <4>2. g[n - f] + LockTime <= now
          BY <3>2, <4>1
        <4>3. now - g[i] >= LockTime
          BY <1>0, <3>2, <3>3, <4>2
        <4> QED
          BY <3>3, <4>1, <4>3
    <2> QED
      BY <1>0, <1>6, <2>1, <2>2
  <1>7. GuessesAreRationed'
    <2> SUFFICES ASSUME NEW t \in Source, NEW i \in 1 .. Len(guesses'[t]),
                        i + MaxFailures <= Len(guesses'[t])
                 PROVE  guesses'[t][i + MaxFailures] - guesses'[t][i] >= LockTime
      BY DEF GuessesAreRationed
    <2>1. CASE t = s
      BY <1>3, <1>4, <1>6, <2>1
    <2>2. CASE t # s
      BY <1>4, <2>2 DEF GuessesAreRationed
    <2> QED
      BY <2>1, <2>2
  <1>8. failures'[s] < n + 1 => lockedUntil'[s] = h[n + 1 - failures'[s]] + LockTime
    <2>1. CASE f + 1 >= MaxFailures
      BY <1>0, <1>3, <1>4, <2>1
    <2>2. CASE ~(f + 1 >= MaxFailures)
      <3>1. n + 1 - (f + 1) = n - f
        BY <1>0
      <3>2. f < n => n - f \in 1 .. n
        BY <1>0
      <3> QED
        <4>1. failures'[s] = f + 1 /\ lockedUntil'[s] = lockedUntil[s]
          BY <1>4, <2>2
        <4>2. f + 1 < n + 1 => f < n
          BY <1>0
        <4>3. f < n => lockedUntil[s] = h[n - f] + LockTime
          BY <1>1, <1>3, <3>2
        <4> QED
          BY <3>1, <4>1, <4>2, <4>3
    <2> QED
      BY <2>1, <2>2
  <1>9. failures'[s] <= n + 1 /\ failures'[s] \in Nat
    BY <1>0, <1>1, <1>4
  <1>10. RationInv'
    <2> SUFFICES ASSUME NEW t \in Source
                 PROVE  /\ failures'[t] <= Len(guesses'[t])
                        /\ \A i \in 1 .. Len(guesses'[t]) : guesses'[t][i] <= now'
                        /\ \A i, j \in 1 .. Len(guesses'[t]) :
                             i <= j => guesses'[t][i] <= guesses'[t][j]
                        /\ failures'[t] < Len(guesses'[t]) =>
                             lockedUntil'[t] =
                               guesses'[t][Len(guesses'[t]) - failures'[t]] + LockTime
      BY DEF RationInv
    <2>1. CASE t = s
      <3>1. guesses'[t] = h /\ Len(guesses'[t]) = n + 1 /\ now' = now
        BY <1>2, <1>3, <1>4, <2>1
      <3> QED
        <4>1. /\ failures'[t] <= n + 1 /\ failures'[t] \in Nat
              /\ failures'[t] < n + 1 => lockedUntil'[t] = h[n + 1 - failures'[t]] + LockTime
          BY <1>8, <1>9, <2>1
        <4>2. /\ \A i \in 1 .. n + 1 : h[i] <= now'
              /\ \A i, j \in 1 .. n + 1 : i <= j => h[i] <= h[j]
          BY <1>5, <3>1
        <4>3. failures'[t] < Len(guesses'[t]) =>
                lockedUntil'[t] = guesses'[t][Len(guesses'[t]) - failures'[t]] + LockTime
          <5>1. Len(guesses'[t]) - failures'[t] = n + 1 - failures'[t]
            BY <1>0, <3>1, <4>1
          <5> QED
            BY <1>0, <3>1, <4>1, <5>1
        <4>4. \A i \in 1 .. Len(guesses'[t]) : guesses'[t][i] <= now'
          BY <3>1, <4>2
        <4>5. \A i, j \in 1 .. Len(guesses'[t]) :
                i <= j => guesses'[t][i] <= guesses'[t][j]
          BY <3>1, <4>2
        <4>6. failures'[t] <= Len(guesses'[t])
          BY <3>1, <4>1
        <4> QED
          BY <4>3, <4>4, <4>5, <4>6
    <2>2. CASE t # s
      BY <1>2, <1>4, <2>2 DEF RationInv
    <2> QED
      BY <2>1, <2>2
  <1> QED
    BY <1>7, <1>10

LEMMA InitRation == Init => RationInv /\ GuessesAreRationed
  BY LimitsArePositive DEF Init, RationInv, GuessesAreRationed

LEMMA StepRation ==
  TypeOK /\ RationInv /\ GuessesAreRationed /\ [Next]_vars
    => RationInv' /\ GuessesAreRationed'
  <1> SUFFICES ASSUME TypeOK, RationInv, GuessesAreRationed, [Next]_vars
               PROVE  RationInv' /\ GuessesAreRationed'
    OBVIOUS
  <1>0. now \in Nat
    BY DEF TypeOK
  <1>1. ASSUME NEW s \in Source, NEW client \in Client, NEW c \in Credential,
               Pair(s, client, c)
        PROVE  RationInv' /\ GuessesAreRationed'
    <2>1. /\ now' = now
          /\ failures'    = [t \in Source |-> IF t \in {s} THEN 0 ELSE failures[t]]
          /\ lockedUntil' = [t \in Source |-> IF t \in {s} THEN 0 ELSE lockedUntil[t]]
          /\ guesses'     = [t \in Source |-> IF t \in {s} THEN <<>> ELSE guesses[t]]
      BY <1>1 DEF Pair, TypeOK, clockVars
    <2> QED
      BY <2>1, FreshRation
  <1>2. CASE Restart
    <2>1. /\ now' = now
          /\ failures'    = [t \in Source |-> IF t \in Source THEN 0 ELSE failures[t]]
          /\ lockedUntil' = [t \in Source |-> IF t \in Source THEN 0 ELSE lockedUntil[t]]
          /\ guesses'     = [t \in Source |-> IF t \in Source THEN <<>> ELSE guesses[t]]
      BY <1>2 DEF Restart, clockVars
    <2> QED
      BY <2>1, FreshRation
  <1>3. CASE Tick
    <2>1. now' \in Nat /\ now <= now' /\ UNCHANGED <<failures, lockedUntil, guesses>>
      BY <1>0, <1>3 DEF Tick, guessVars
    <2> QED
      BY <2>1, IdleRation
  <1>4. ASSUME UNCHANGED <<now, guessVars>> PROVE RationInv' /\ GuessesAreRationed'
    BY <1>0, <1>4, IdleRation DEF guessVars
  <1>5. ASSUME NEW s \in Source, PairLocked(s) PROVE UNCHANGED <<now, guessVars>>
    BY <1>5 DEF PairLocked, clockVars
  <1>6. CASE ShowCode \/ StepClock \/ UNCHANGED vars
    BY <1>4, <1>6 DEF ShowCode, StepClock, vars, clockVars
  <1>7. ASSUME NEW c \in Credential,
               \/ RequestRefused(c) \/ Connect(c) \/ Resume(c) \/ Message(c)
               \/ MessageRefused(c) \/ TimeOut(c) \/ Disconnect(c)
        PROVE  UNCHANGED <<now, guessVars>>
    BY <1>7 DEF RequestRefused, Connect, Resume, Message, MessageRefused, TimeOut,
                Disconnect, Set, clockVars
  <1> QED
    BY <1>1, <1>2, <1>3, <1>4, <1>5, <1>6, <1>7, GuessRation DEF Next

(* However a source times its attempts, no LockTime holds more than        *)
(* MaxFailures of its wrong guesses, until it pairs or the gateway         *)
(* restarts.  The invariant says why: what is counted was guessed after    *)
(* the lock set by the guess before it.                                    *)
THEOREM PairingIsRationed == Spec => []GuessesAreRationed
  <1>1. Init => TypeOK /\ RationInv /\ GuessesAreRationed
    BY InitTypes, InitRation
  <1>2. TypeOK /\ RationInv /\ GuessesAreRationed /\ [Next]_vars
          => TypeOK' /\ RationInv' /\ GuessesAreRationed'
    BY StepTypes, StepRation
  <1> QED
    BY <1>1, <1>2, PTL DEF Spec

-----------------------------------------------------------------------------
(* What has been refused has no session, which is why it is not live. *)
RefusedInv == refused \cap sessions = {}

LEMMA StepRefused == TypeOK /\ RefusedInv /\ [Next]_vars => RefusedInv'
  <1> SUFFICES ASSUME TypeOK, RefusedInv, [Next]_vars PROVE RefusedInv'
    OBVIOUS
  <1>1. ASSUME NEW s \in Source, NEW client \in Client, NEW c \in Credential,
               Pair(s, client, c)
        PROVE  RefusedInv'
    <2>1. /\ c \notin issued /\ refused' = refused /\ sessions' = sessions \cup {c}
      BY <1>1 DEF Pair
    <2> QED
      BY <2>1 DEF RefusedInv, TypeOK
  <1>2. ASSUME NEW c \in Credential, RequestRefused(c) \/ MessageRefused(c)
        PROVE  RefusedInv'
    BY <1>2 DEF RequestRefused, MessageRefused, Refuse, RefusedInv
  <1>3. CASE Restart
    BY <1>3 DEF Restart, RefusedInv
  <1>4. ASSUME UNCHANGED <<refused, sessions>> PROVE RefusedInv'
    BY <1>4 DEF RefusedInv
  <1>5. ASSUME NEW s \in Source, PairLocked(s) \/ PairWrong(s)
        PROVE  UNCHANGED <<refused, sessions>>
    BY <1>5 DEF PairLocked, PairWrong
  <1>6. ASSUME NEW c \in Credential,
               Connect(c) \/ Resume(c) \/ Message(c) \/ TimeOut(c) \/ Disconnect(c)
        PROVE  UNCHANGED <<refused, sessions>>
    BY <1>6 DEF Connect, Resume, Message, TimeOut, Disconnect, Set
  <1>7. CASE ShowCode \/ Tick \/ StepClock \/ UNCHANGED vars
    BY <1>4, <1>7 DEF ShowCode, Tick, StepClock, vars
  <1> QED
    BY <1>1, <1>2, <1>3, <1>4, <1>5, <1>6, <1>7 DEF Next

(* A credential that authenticate() once refused is never accepted again,  *)
(* however the wall clock is stepped: refusing it revoked its session.     *)
(* A credential that only an idle timer answered AUTH_FAILED may be.       *)
THEOREM RefusalsAreFinal == Spec => []RefusedForGood
  <1>1. Init => TypeOK /\ RefusedInv
    BY InitTypes DEF Init, RefusedInv
  <1>2. TypeOK /\ RefusedInv /\ [Next]_vars => TypeOK' /\ RefusedInv'
    BY StepTypes, StepRefused
  <1>3. RefusedInv => RefusedForGood
    BY DEF RefusedInv, RefusedForGood, Live
  <1> QED
    BY <1>1, <1>2, <1>3, PTL DEF Spec

-----------------------------------------------------------------------------
(* A credential was issued for a code that has been replaced since.        *)
GrantInv == CodesPairOnce /\ \A c \in issued : grants[c].draw < draw

LEMMA UsableAge ==
  ASSUME TypeOK, NEW u \in UsableCodes
  PROVE  u.draw >= draw /\ now - u.drawnAt < PairingLifetime
  <1>1. /\ PairingLifetime \in Nat \ {0} /\ now \in Nat /\ draw \in Nat /\ codeExpiresAt \in Int
    BY LimitsArePositive DEF TypeOK
  <1>2. CASE CodeExpired
    <2>1. u.draw = draw + 1 /\ u.drawnAt = now
      BY <1>2 DEF UsableCodes
    <2> QED
      BY <1>1, <2>1
  <1>3. CASE ~CodeExpired
    <2>1. u.draw = draw /\ u.drawnAt = codeExpiresAt - PairingLifetime /\ now < codeExpiresAt
      BY <1>1, <1>3 DEF UsableCodes, CodeExpired
    <2> QED
      BY <1>1, <2>1
  <1> QED
    BY <1>2, <1>3

LEMMA GrantsKept ==
  ASSUME TypeOK, GrantInv, UNCHANGED grants, draw' \in Nat, draw' >= draw
  PROVE  GrantInv'
  <1>1. issued' = issued /\ draw \in Nat
    BY DEF TypeOK, issued
  <1>2. \A c \in issued : grants[c].draw \in Nat
    BY DEF TypeOK, Grant
  <1>3. \A c \in issued : grants[c].draw < draw'
    BY <1>1, <1>2 DEF GrantInv
  <1> QED
    BY <1>1, <1>3 DEF GrantInv, CodesPairOnce

LEMMA PairGrants ==
  ASSUME TypeOK, GrantInv, NEW s \in Source, NEW client \in Client, NEW c \in Credential,
         Pair(s, client, c)
  PROVE  GrantInv'
  <1>1. PICK u \in UsableCodes :
          /\ grants' = [k \in issued \cup {c} |->
                          IF k = c THEN [draw |-> u.draw, age |-> now - u.drawnAt] ELSE grants[k]]
          /\ draw' = u.draw + 1
    BY DEF Pair
  <1>2. c \notin issued /\ draw \in Nat /\ u.draw \in Nat
    BY UsableTypes DEF Pair, TypeOK
  <1>3. u.draw >= draw /\ now - u.drawnAt < PairingLifetime
    BY UsableAge
  <1>4. /\ issued' = issued \cup {c} /\ \A k \in issued : grants'[k] = grants[k]
        /\ grants'[c].draw = u.draw /\ grants'[c].age = now - u.drawnAt
    BY <1>1, <1>2 DEF issued
  <1>5. \A k \in issued : grants[k].draw \in Nat /\ grants[k].draw < draw
    BY DEF GrantInv, TypeOK, Grant
  <1>6. \A k \in issued' : grants'[k].draw < draw'
    BY <1>1, <1>2, <1>3, <1>4, <1>5
  <1>7. \A k \in issued : grants'[k].draw # grants'[c].draw
    BY <1>2, <1>3, <1>4, <1>5
  <1>8. \A k \in issued' : grants'[k].age < PairingLifetime
    BY <1>3, <1>4 DEF GrantInv, CodesPairOnce
  <1>9. \A k, l \in issued' : grants'[k].draw = grants'[l].draw => k = l
    BY <1>4, <1>7 DEF GrantInv, CodesPairOnce
  <1> QED
    BY <1>6, <1>8, <1>9 DEF GrantInv, CodesPairOnce

LEMMA StepGrants == TypeOK /\ GrantInv /\ [Next]_vars => GrantInv'
  <1> SUFFICES ASSUME TypeOK, GrantInv, [Next]_vars PROVE GrantInv'
    OBVIOUS
  <1>0. draw \in Nat
    BY DEF TypeOK
  <1>1. ASSUME NEW u \in UsableCodes, Keep(u), UNCHANGED grants PROVE GrantInv'
    <2>1. draw' = u.draw /\ u.draw \in Nat /\ u.draw >= draw
      BY <1>1, UsableTypes, UsableAge DEF Keep
    <2> QED
      BY <1>1, <2>1, GrantsKept
  <1>2. ASSUME NEW s \in Source, PairLocked(s) PROVE GrantInv'
    BY <1>1, <1>2 DEF PairLocked, grantVars
  <1>3. ASSUME NEW s \in Source, PairWrong(s) PROVE GrantInv'
    BY <1>1, <1>3 DEF PairWrong, grantVars
  <1>4. CASE ShowCode
    BY <1>1, <1>4 DEF ShowCode, grantVars
  <1>5. CASE Restart
    <2>1. draw' = draw + 1 /\ UNCHANGED grants
      BY <1>5 DEF Restart, grantVars
    <2> QED
      BY <1>0, <2>1, GrantsKept
  <1>6. CASE UNCHANGED <<codeVars, grantVars>>
    <2>1. draw' = draw /\ UNCHANGED grants
      BY <1>6 DEF codeVars, grantVars
    <2> QED
      BY <1>0, <2>1, GrantsKept
  <1>7. ASSUME NEW c \in Credential,
               \/ RequestRefused(c) \/ Connect(c) \/ Resume(c) \/ Message(c)
               \/ MessageRefused(c) \/ TimeOut(c) \/ Disconnect(c)
        PROVE  UNCHANGED <<codeVars, grantVars>>
    BY <1>7 DEF RequestRefused, Connect, Resume, Message, MessageRefused, TimeOut,
                Disconnect, Set
  <1>8. CASE Tick \/ StepClock \/ UNCHANGED vars
    BY <1>6, <1>8 DEF Tick, StepClock, vars
  <1> QED
    BY <1>2, <1>3, <1>4, <1>5, <1>6, <1>7, <1>8, PairGrants DEF Next

(* A pairing code issues one credential at most, within its lifetime and   *)
(* before it is replaced (rotation on success and on expiry in pair).      *)
THEOREM CodesAreUsedOnce == Spec => []CodesPairOnce
  <1>1. Init => TypeOK /\ GrantInv
    BY InitTypes DEF Init, GrantInv, CodesPairOnce, issued
  <1>2. TypeOK /\ GrantInv /\ [Next]_vars => TypeOK' /\ GrantInv'
    BY StepTypes, StepGrants
  <1>3. GrantInv => CodesPairOnce
    BY DEF GrantInv
  <1> QED
    BY <1>1, <1>2, <1>3, PTL DEF Spec

-----------------------------------------------------------------------------
(* The idle timer of a waiting connection was set when its session was     *)
(* live, and time does not pass it by.                                     *)
WaitInv ==
  \A c \in Credential : Waiting(c) =>
    c \in issued /\ now <= deadline[c] /\ deadline[c] <= expiresAt[c] + ClockStep

LEMMA StepWaits == TypeOK /\ WaitInv /\ [Next]_vars => WaitInv'
  <1> SUFFICES ASSUME TypeOK, WaitInv, [Next]_vars, NEW e \in Credential, Waiting(e)'
               PROVE  e \in issued' /\ now' <= deadline'[e]
                      /\ deadline'[e] <= expiresAt'[e] + ClockStep
    BY DEF WaitInv
  <1>0. /\ now \in Int /\ ClockStep \in Int /\ offset \in Int /\ -ClockStep <= offset
        /\ \A c \in Credential : deadline[c] \in Int
        /\ \A c \in issued : expiresAt[c] \in Int
    BY LimitsArePositive DEF TypeOK
  <1>1. ASSUME NEW s \in Source, NEW client \in Client, NEW c \in Credential,
               Pair(s, client, c)
        PROVE  /\ deadline' = deadline /\ now' = now
               /\ \A k \in issued : k \in issued' /\ expiresAt'[k] = expiresAt[k]
    BY <1>1 DEF Pair, clockVars, issued
  <1>2. ASSUME NEW c \in Credential, Resume(c)
        PROVE  e \in issued' /\ now' <= deadline'[e]
               /\ deadline'[e] <= expiresAt'[e] + ClockStep
    <2>1. /\ now' = now /\ grants' = grants /\ expiresAt' = expiresAt
          /\ deadline' = [deadline EXCEPT ![c] = IdleDeadline(c)] /\ Live(c)
      BY <1>2 DEF Resume, Set, clockVars, grantVars
    <2>2. c \in issued
      BY <2>1 DEF Live, TypeOK
    <2>3. CASE e = c
      <3>1. deadline'[e] = now + (expiresAt[c] - (now + offset)) /\ now + offset < expiresAt[c]
        BY <2>1, <2>3 DEF IdleDeadline, Live, wall, TypeOK
      <3>2. now <= deadline'[e] /\ deadline'[e] <= expiresAt[e] + ClockStep
        BY <1>0, <2>2, <2>3, <3>1
      <3> QED
        BY <2>1, <2>2, <2>3, <3>2 DEF issued
    <2>4. CASE e # c
      <3>1. deadline'[e] = deadline[e]
        BY <2>1, <2>4 DEF TypeOK
      <3> QED
        BY <2>1, <3>1 DEF WaitInv, Waiting, issued
    <2> QED
      BY <2>3, <2>4
  <1>3. ASSUME NEW c \in Credential,
               \/ Connect(c) \/ Message(c) \/ MessageRefused(c) \/ TimeOut(c)
               \/ Disconnect(c)
        PROVE  /\ now' = now /\ grants' = grants /\ expiresAt' = expiresAt
               /\ deadline'[e] = deadline[e]
    <2>1. /\ now' = now /\ grants' = grants /\ expiresAt' = expiresAt
          /\ \E d \in {Closed, Busy} : deadline' = [deadline EXCEPT ![c] = d]
      BY <1>3 DEF Connect, Message, MessageRefused, TimeOut, Disconnect, Set, clockVars,
                  grantVars
    <2>2. deadline'[e] \notin {Closed, Busy}
      BY DEF Waiting
    <2> QED
      BY <2>1, <2>2 DEF TypeOK
  <1>4. CASE Restart
    BY <1>4 DEF Restart, Waiting
  <1>5. CASE Tick
    <2>1. /\ now' = now + 1 /\ deadline' = deadline /\ grants' = grants /\ expiresAt' = expiresAt
          /\ \A c \in Credential : Waiting(c) => now < deadline[c]
      BY <1>5 DEF Tick, grantVars
    <2>2. Waiting(e) /\ now < deadline[e]
      BY <2>1 DEF Waiting
    <2> QED
      BY <1>0, <2>1, <2>2 DEF WaitInv, issued
  <1>6. ASSUME UNCHANGED <<now, deadline, grantVars>>
        PROVE  e \in issued' /\ now' <= deadline'[e]
               /\ deadline'[e] <= expiresAt'[e] + ClockStep
    BY <1>6 DEF WaitInv, Waiting, issued, grantVars
  <1>7. ASSUME NEW s \in Source, PairLocked(s) \/ PairWrong(s)
        PROVE  UNCHANGED <<now, deadline, grantVars>>
    BY <1>7 DEF PairLocked, PairWrong, clockVars
  <1>8. ASSUME NEW c \in Credential, RequestRefused(c)
        PROVE  UNCHANGED <<now, deadline, grantVars>>
    BY <1>8 DEF RequestRefused, clockVars
  <1>9. CASE ShowCode \/ StepClock \/ UNCHANGED vars
    BY <1>6, <1>9 DEF ShowCode, StepClock, vars, clockVars
  <1> QED
    BY <1>1, <1>2, <1>3, <1>4, <1>5, <1>6, <1>7, <1>8, <1>9 DEF Next, WaitInv, Waiting, issued

(* No connection waits for a message longer than its session lasts, up to  *)
(* what the wall clock was stepped since its timer was set                 *)
(* (remaining_seconds, wait_for in app.py).                                *)
THEOREM ConnectionsAreBounded == Spec => []ConnectionsEndWithSession
  <1>1. Init => TypeOK /\ WaitInv
    BY InitTypes DEF Init, WaitInv, Waiting
  <1>2. TypeOK /\ WaitInv /\ [Next]_vars => TypeOK' /\ WaitInv'
    BY StepTypes, StepWaits
  <1>3. TypeOK /\ WaitInv => ConnectionsEndWithSession
    <2> SUFFICES ASSUME TypeOK, WaitInv, NEW c \in issued, Waiting(c)
                 PROVE  wall <= expiresAt[c] + 2 * ClockStep
      BY DEF ConnectionsEndWithSession
    <2>1. /\ now \in Int /\ ClockStep \in Int /\ offset \in Int /\ offset <= ClockStep
          /\ deadline[c] \in Int /\ expiresAt[c] \in Int
      BY LimitsArePositive DEF TypeOK
    <2>2. now <= deadline[c] /\ deadline[c] <= expiresAt[c] + ClockStep
      BY DEF WaitInv, TypeOK
    <2> QED
      BY <2>1, <2>2 DEF wall
  <1> QED
    BY <1>1, <1>2, <1>3, PTL DEF Spec
=============================================================================
