------------------------ MODULE CommandPipelineProofs ------------------------
(***************************************************************************)
(* Theorems about CommandPipeline for every set of credentials, messages   *)
(* and nonces, every window and every bound that satisfy its assumptions:  *)
(* a message runs at most once, a retry is told the first result, the      *)
(* audit table tells the truth, and the command path implements            *)
(* CommandContract, whose verdicts are truthful and final.                 *)
(***************************************************************************)
EXTENDS CommandPipeline, TLAPS

(* What the lock's holder is, and what is left of the queue behind it. *)
LEMMA HolderIsRequest ==
  ASSUME queue \in Seq(Request), queue # <<>>
  PROVE  /\ holder \in Request
         /\ Tail(queue) \in Seq(Request)
  BY DEF holder

LEMMA KeysOfHolder ==
  ASSUME NEW r \in Request
  PROVE  /\ KeyOf(r) \in CacheKey /\ NonceOf(r) \in NonceKey
         /\ r.msg \in Message /\ r.cred \in Credential
  BY DEF Request, KeyOf, NonceOf, CacheKey, NonceKey

(* Pruning keeps the shape of the caches. *)
LEMMA PruningTypes ==
  ASSUME TypeOK
  PROVE  /\ PrunedNonces \in [NonceKey -> Nat \cup {NotCached}]
         /\ PrunedResults \in [CacheKey -> Entry]
  BY DEF TypeOK, PrunedNonces, PrunedResults, NoEntry, Entry, NotCached

(* Caching a result keeps the types of the cache and of the history. *)
LEMMA CacheResultTypes ==
  ASSUME TypeOK, NEW r \in Request, NEW result \in Result,
         NEW results \in [CacheKey -> Entry],
         CacheResult(r, result, results)
  PROVE  /\ resultCache' \in [CacheKey -> Entry]
         /\ firstResult' \in [CacheKey -> Entry]
  <1>1. [at |-> now, result |-> result] \in Entry
    BY DEF TypeOK, Entry
  <1> QED
    BY <1>1 DEF TypeOK, CacheResult

LEMMA AnswerTypes ==
  ASSUME TypeOK, queue # <<>>, NEW result \in Result \cup {"none"}, Answer(holder, result)
  PROVE  /\ queue' \in Seq(Request)
         /\ reply' \in [key : CacheKey \cup {<<>>}, result : Result \cup {"none"}, at : Int]
  BY HolderIsRequest, KeysOfHolder DEF TypeOK, Answer

LEMMA CacheAndAuditTypes ==
  ASSUME TypeOK, queue # <<>>, NEW result \in Result,
         NEW results \in [CacheKey -> Entry],
         CacheAndAudit(holder, result, results)
  PROVE  /\ resultCache' \in [CacheKey -> Entry]
         /\ firstResult' \in [CacheKey -> Entry]
         /\ queue' \in Seq(Request)
         /\ reply' \in [key : CacheKey \cup {<<>>}, result : Result \cup {"none"}, at : Int]
         /\ audit' \subseteq [key : CacheKey, result : Result]
  <1>1. holder \in Request
    BY HolderIsRequest DEF TypeOK
  <1>2. /\ resultCache' \in [CacheKey -> Entry]
        /\ firstResult' \in [CacheKey -> Entry]
    BY <1>1, CacheResultTypes DEF CacheAndAudit
  <1>3. audit' \subseteq [key : CacheKey, result : Result]
    BY <1>1, KeysOfHolder DEF CacheAndAudit, TypeOK
  <1> QED
    BY <1>2, <1>3, AnswerTypes DEF CacheAndAudit

LEMMA InitTypes == Init => TypeOK
  BY WindowsAreDurations
     DEF Init, TypeOK, NoEntry, Entry, NotCached, Sealed

LEMMA StepTypes == TypeOK /\ [Next]_vars => TypeOK'
  <1> SUFFICES ASSUME TypeOK, [Next]_vars PROVE TypeOK'
    OBVIOUS
  <1> USE DEF TypeOK, clockVars, sessionVars, cacheVars, answerVars, faultVars
  <1>1. ASSUME NEW c \in Credential, Pair(c) PROVE TypeOK'
    BY <1>1, WindowsAreDurations DEF Pair, wall
  <1>2. ASSUME NEW c \in Credential, Expire(c) PROVE TypeOK'
    BY <1>2 DEF Expire
  <1>3. ASSUME NEW m \in Message, Send(m) PROVE TypeOK'
    <2>1. PICK c \in issued, n \in Nonce, skew \in -ClientSkew .. ClientSkew :
             sent' = [sent EXCEPT ![m] = [cred |-> c, nonce |-> n, ts |-> wall + skew]]
      BY <1>3 DEF Send
    <2>2. [cred |-> c, nonce |-> n, ts |-> wall + skew] \in Sealed
      BY WindowsAreDurations DEF Sealed, wall
    <2> QED
      BY <1>3, <2>1, <2>2 DEF Send
  <1>4. ASSUME NEW m \in Message, Deliver(m) PROVE TypeOK'
    <2>1. sent[m] \in Sealed
      BY <1>4 DEF Deliver, SealedBy
    <2>2. PICK intact \in BOOLEAN :
             queue' = Append(queue, [cred |-> sent[m].cred, msg |-> m,
                        nonce |-> sent[m].nonce, ts |-> sent[m].ts, intact |-> intact])
      BY <1>4 DEF Deliver
    <2>3. [cred |-> sent[m].cred, msg |-> m, nonce |-> sent[m].nonce,
           ts |-> sent[m].ts, intact |-> intact] \in Request
      BY <2>1 DEF Sealed, Request
    <2> QED
      BY <1>4, <2>2, <2>3 DEF Deliver
  <1>5. CASE Retry
    <2>1. queue # <<>> /\ holder \in Request /\ KeyOf(holder) \in CacheKey
      BY <1>5, HolderIsRequest, KeysOfHolder DEF Retry, Holding
    <2>2. PrunedResults[KeyOf(holder)].result \in Result \cup {"none"}
      BY <2>1, PruningTypes DEF Entry
    <2>3. /\ queue' \in Seq(Request)
          /\ reply' \in [key : CacheKey \cup {<<>>}, result : Result \cup {"none"}, at : Int]
      BY <1>5, <2>1, <2>2, AnswerTypes DEF Retry
    <2> QED
      BY <1>5, <2>3, PruningTypes DEF Retry
  <1>6. CASE Refuse
    <2>1. PICK result \in Refusals : CacheAndAudit(holder, result, PrunedResults)
      BY <1>6 DEF Refuse, Refusals
    <2> QED
      BY <1>6, <2>1, CacheAndAuditTypes, PruningTypes DEF Refuse, Holding, Result
  <1>a. CASE RefuseUnaudited
    <2>1. PICK result \in Refusals : CacheResult(holder, result, PrunedResults)
      BY <1>a DEF RefuseUnaudited, Refusals
    <2>2. queue # <<>> /\ holder \in Request /\ result \in Result
      BY <1>a, HolderIsRequest DEF RefuseUnaudited, Holding, Result
    <2>3. resultCache' \in [CacheKey -> Entry] /\ firstResult' \in [CacheKey -> Entry]
      BY <2>1, <2>2, CacheResultTypes, PruningTypes
    <2>4. nonceCache' \in [NonceKey -> Nat \cup {NotCached}]
      BY <1>a, PruningTypes DEF RefuseUnaudited
    <2>5. queue' \in Seq(Request)
      <3>1. queue' = Tail(queue) /\ queue \in Seq(Request)
        BY <1>a DEF RefuseUnaudited
      <3> HIDE DEF TypeOK
      <3> QED
        BY <2>2, <3>1
    <2>6. auditFailures' \in Nat
      <3>1. auditFailures' = auditFailures + 1 /\ auditFailures \in Nat
        BY <1>a DEF RefuseUnaudited
      <3> QED
        BY <3>1
    <2>7. UNCHANGED <<clockVars, sessionVars, sent, stage, outcome, executed, reply,
                      audit, restarts>>
      BY <1>a DEF RefuseUnaudited
    <2> QED
      BY <2>3, <2>4, <2>5, <2>6, <2>7
  <1>7. CASE Admit
    BY <1>7, HolderIsRequest, KeysOfHolder, PruningTypes
       DEF Admit, Holding, Result, Refusals
  <1>8. CASE Execute
    BY <1>8, HolderIsRequest, KeysOfHolder
       DEF Execute, Holding, Result
  <1>9. CASE Finish
    BY <1>9, CacheAndAuditTypes DEF Finish, Holding
  <1>10. CASE FinishUnaudited
    BY <1>10, HolderIsRequest, CacheResultTypes DEF FinishUnaudited, Holding
  <1>11. CASE Restart
    BY <1>11 DEF Restart, NoEntry, Entry, NotCached
  <1>12. CASE Tick
    BY <1>12 DEF Tick
  <1>13. CASE StepClock
    BY <1>13 DEF StepClock
  <1>14. CASE UNCHANGED vars
    BY <1>14 DEF vars
  <1> QED
    BY <1>1, <1>2, <1>3, <1>4, <1>5, <1>6, <1>a, <1>7, <1>8, <1>9, <1>10, <1>11,
       <1>12, <1>13, <1>14 DEF Next

(* Every value of every variable is of its type: the state of the command  *)
(* path never leaves the domains the source gives it.                      *)
THEOREM TypeCorrect == Spec => []TypeOK
  BY InitTypes, StepTypes, PTL DEF Spec

-----------------------------------------------------------------------------
(* A clock within ClockStep of the monotonic one: what is stale for good   *)
(* is not timely now.                                                      *)
LEMMA StaleIsNotTimely ==
  ASSUME TypeOK, NEW ts \in Int, PermanentlyStale(ts)
  PROVE  ~Timely(ts)
  BY WindowsAreDurations DEF TypeOK, PermanentlyStale, Timely, wall

(* The windows overlap: once a nonce is forgotten, no timestamp accepted   *)
(* with it is acceptable any more.                                         *)
LEMMA ForgottenIsStale ==
  ASSUME TypeOK, NEW m \in Message, SealedBy(m), Remembered(m),
         Forgotten(nonceCache[<<sent[m].cred, sent[m].nonce>>])
  PROVE  PermanentlyStale(sent[m].ts)
  <1>1. sent[m] \in Sealed /\ <<sent[m].cred, sent[m].nonce>> \in NonceKey
    BY DEF TypeOK, SealedBy, Sealed, NonceKey
  <1>2. nonceCache[<<sent[m].cred, sent[m].nonce>>] \in Nat \cup {NotCached}
    BY <1>1 DEF TypeOK
  <1> QED
    BY <1>1, <1>2, WindowsAreDurations, WindowsOverlap
       DEF Forgotten, Remembered, PermanentlyStale, TypeOK, Sealed, NotCached

(* An unacceptable message stays so while its sealed envelope, the caches' *)
(* other entries and the clock go on: what a step may do to it is to prune *)
(* the nonce, to record it again once pruned, to let time pass or to       *)
(* shorten the queue.                                                      *)
LEMMA UnacceptableIsStable ==
  ASSUME TypeOK, TypeOK', NEW m \in Message, SealedBy(m), Unacceptable(m),
         sent'[m] = sent[m], now' >= now,
         LET k == <<sent[m].cred, sent[m].nonce>>
         IN  \/ nonceCache'[k] \in {nonceCache[k], PrunedNonces[k]}
             \/ PrunedNonces[k] = NotCached,
         Gone(sent[m].cred) => Gone(sent[m].cred)'
  PROVE  Unacceptable(m)'
  <1> DEFINE k == <<sent[m].cred, sent[m].nonce>>
  <1>1. sent[m] \in Sealed /\ k \in NonceKey
    BY DEF TypeOK, SealedBy, Sealed, NonceKey
  <1>2. CASE Gone(sent[m].cred)
    BY <1>2 DEF Unacceptable, Gone
  <1>3. CASE PermanentlyStale(sent[m].ts)
    <2>1. /\ now \in Int /\ now' \in Int /\ sent[m].ts \in Int
          /\ ClockStep \in Int /\ TimestampWindow \in Int
      BY <1>1, WindowsAreDurations DEF TypeOK, Sealed
    <2>2. now' - ClockStep - sent[m].ts > TimestampWindow
      BY <1>3, <2>1 DEF PermanentlyStale
    <2> QED
      BY <2>2 DEF Unacceptable, PermanentlyStale
  <1>4. CASE Remembered(m) /\ ~PermanentlyStale(sent[m].ts)
    <2>1. ~Forgotten(nonceCache[k])
      BY <1>4, ForgottenIsStale
    <2>2. PrunedNonces[k] = nonceCache[k]
      BY <1>1, <2>1 DEF PrunedNonces
    <2>3. nonceCache[k] \in Nat /\ sent[m].ts <= nonceCache[k] + ClockStep + TimestampWindow
      BY <1>1, <1>4 DEF Remembered, TypeOK, NotCached
    <2>4. nonceCache'[k] = nonceCache[k]
      BY <2>2, <2>3 DEF NotCached
    <2> QED
      BY <1>4, <2>4 DEF Remembered, Unacceptable
  <1> QED
    BY <1>2, <1>3, <1>4 DEF Unacceptable

(* No step admits a request of a session that died with the process. *)
LEMMA GoneIsStable ==
  ASSUME TypeOK, [Next]_vars, NEW c, Gone(c)
  PROVE  Gone(c)'
  <1> USE DEF Gone, TypeOK, clockVars, sessionVars, cacheVars, answerVars, faultVars
  <1>1. ASSUME queue # <<>>, queue' = Tail(queue), UNCHANGED sessionVars
        PROVE  Gone(c)'
    BY <1>1
  <1>2. ASSUME NEW m \in Message, Deliver(m) PROVE Gone(c)'
    BY <1>2 DEF Deliver
  <1>3. CASE Retry
    BY <1>1, <1>3 DEF Retry, Holding, Answer
  <1>4. CASE Refuse \/ RefuseUnaudited
    BY <1>1, <1>4 DEF Refuse, RefuseUnaudited, Holding, CacheAndAudit, Answer
  <1>5. CASE Finish
    BY <1>1, <1>5 DEF Finish, Holding, CacheAndAudit, Answer
  <1>6. CASE FinishUnaudited
    BY <1>1, <1>6 DEF FinishUnaudited, Holding
  <1>7. CASE Restart
    BY <1>7 DEF Restart
  <1>8. CASE \/ \E d \in Credential : Pair(d) \/ Expire(d)
             \/ \E m \in Message : Send(m)
             \/ Admit \/ Execute \/ Tick \/ StepClock \/ UNCHANGED vars
    BY <1>8 DEF Pair, Expire, Send, Admit, Execute, Tick, StepClock, vars
  <1> QED
    BY <1>2, <1>3, <1>4, <1>5, <1>6, <1>7, <1>8 DEF Next

(* Every step keeps what is unacceptable unacceptable; a restart, which    *)
(* forgets every nonce, forgets every session with it.                     *)
LEMMA StepKeepsUnacceptable ==
  ASSUME TypeOK, TypeOK', [Next]_vars, NEW m \in Message, SealedBy(m),
         sent[m].cred \in issued, Unacceptable(m)
  PROVE  Unacceptable(m)'
  <1> USE DEF clockVars, sessionVars, cacheVars, answerVars, faultVars
  <1> DEFINE k == <<sent[m].cred, sent[m].nonce>>
  <1>1. sent[m] \in Sealed /\ k \in NonceKey /\ now \in Nat
    BY DEF TypeOK, SealedBy, Sealed, NonceKey
  <1>2. Gone(sent[m].cred) => Gone(sent[m].cred)'
    <2>1. sent'[m] = sent[m]
      BY DEF Next, vars, Pair, Expire, Send, Deliver, Retry, Refuse, RefuseUnaudited, Admit,
             Execute, Finish, FinishUnaudited, Restart, Tick, StepClock, TypeOK
    <2> QED
      BY <2>1, GoneIsStable DEF Gone
  <1>3. CASE Restart
    <2>1. sent' = sent /\ issued' = issued /\ sessions' = {} /\ queue' = <<>>
      BY <1>3 DEF Restart
    <2> QED
      BY <2>1 DEF Unacceptable, Gone
  <1>4. ASSUME NEW n \in Message, Send(n) PROVE Unacceptable(m)'
    <2>1. sent'[m] = sent[m]
      BY <1>4 DEF Send, TypeOK
    <2>2. now' = now /\ nonceCache' = nonceCache
      BY <1>4 DEF Send
    <2> QED
      BY <1>1, <1>2, <2>1, <2>2, UnacceptableIsStable
  <1>5. CASE Retry \/ Refuse \/ RefuseUnaudited
    <2>1. sent' = sent /\ now' = now /\ nonceCache' = PrunedNonces
      BY <1>5 DEF Retry, Refuse, RefuseUnaudited
    <2> QED
      BY <1>1, <1>2, <2>1, UnacceptableIsStable
  <1>6. CASE Admit
    <2>1. NonceOf(holder) \in NonceKey
      BY <1>6, HolderIsRequest, KeysOfHolder DEF Admit, Holding, TypeOK
    <2>2. nonceCache'[k] = PrunedNonces[k] \/ PrunedNonces[k] = NotCached
      BY <1>1, <1>6, <2>1, PruningTypes DEF Admit
    <2> QED
      BY <1>1, <1>2, <1>6, <2>2, UnacceptableIsStable DEF Admit
  <1>7. CASE Tick
    BY <1>1, <1>2, <1>7, UnacceptableIsStable DEF Tick
  <1>8. CASE \/ \E d \in Credential : Pair(d) \/ Expire(d)
             \/ \E n \in Message : Deliver(n)
             \/ Execute \/ Finish \/ FinishUnaudited \/ StepClock \/ UNCHANGED vars
    <2>1. sent' = sent /\ now' = now /\ nonceCache' = nonceCache
      BY <1>8 DEF Pair, Expire, Deliver, Execute, Finish, FinishUnaudited,
                  StepClock, vars
    <2> QED
      BY <1>1, <1>2, <2>1, UnacceptableIsStable
  <1> QED
    BY <1>3, <1>4, <1>5, <1>6, <1>7, <1>8 DEF Next

LEMMA InitReplayInv == Init => ReplayInv
  BY DEF Init, ReplayInv, SealedBy

(* The heart of the argument: what the nonce check lets through has not    *)
(* run, because what has run is unacceptable.                              *)
LEMMA AdmittedIsFresh ==
  ASSUME TypeOK, ReplayInv, Admit, Decrypts(holder)
  PROVE  /\ SealedBy(holder.msg)
         /\ executed[holder.msg] = 0
         /\ Remembered(holder.msg)'
  <1> DEFINE m == holder.msg
             k == <<sent[m].cred, sent[m].nonce>>
  <1>1. /\ holder \in Request /\ m \in Message /\ queue # <<>>
        /\ NonceOf(holder) \in NonceKey /\ holder.cred \in Credential
    BY HolderIsRequest, KeysOfHolder DEF TypeOK, Admit, Holding
  <1>2. /\ sent[m].cred = holder.cred /\ sent[m].nonce = holder.nonce
        /\ sent[m].ts = holder.ts /\ k = NonceOf(holder)
    BY DEF Decrypts, NonceOf
  <1>3. SealedBy(m)
    BY <1>1, <1>2, NoCredentialIsNone DEF SealedBy, Unsent
  <1>4. sent[m].ts \in Int
    BY <1>1, <1>2 DEF Request
  <1>5. Timely(sent[m].ts) /\ PrunedNonces[k] = NotCached
    BY <1>2 DEF Admit
  <1>6. ~PermanentlyStale(sent[m].ts)
    BY <1>4, <1>5, StaleIsNotTimely
  <1>7. ~Remembered(m)
    <2>1. SUFFICES ASSUME Remembered(m) PROVE FALSE
      OBVIOUS
    <2>2. ~Forgotten(nonceCache[k])
      BY <1>1, <1>3, <1>6, <2>1, ForgottenIsStale
    <2> QED
      BY <1>1, <1>2, <1>5, <2>1, <2>2 DEF PrunedNonces, Remembered
  <1>8. ~Gone(sent[m].cred)
    BY <1>1, <1>2 DEF Gone, holder, TypeOK
  <1>9. executed[m] = 0
    BY <1>1, <1>6, <1>7, <1>8 DEF ReplayInv, Unacceptable
  <1>10. Remembered(m)'
    <2>1. sent' = sent /\ holder' = holder /\ nonceCache'[k] = now
      BY <1>1, <1>2, PruningTypes DEF Admit, holder
    <2>2. sent[m].ts <= now + ClockStep + TimestampWindow
      BY <1>4, <1>5, WindowsAreDurations DEF Timely, wall, TypeOK
    <2> QED
      BY <2>1, <2>2 DEF Remembered, TypeOK, NotCached
  <1> QED
    BY <1>3, <1>9, <1>10

(* Envelopes keep their session, and sessions are never un-issued. *)
LEMMA StepKeepsSealed ==
  ASSUME TypeOK, [Next]_vars, NEW m \in Message
  PROVE  /\ SealedBy(m) => sent'[m] = sent[m]
         /\ issued \subseteq issued'
         /\ SealedBy(m)' /\ ~SealedBy(m) => sent'[m].cred \in issued
  <1> USE DEF clockVars, sessionVars, SealedBy
  <1>1. ASSUME NEW n \in Message, Send(n)
        PROVE  /\ SealedBy(m) => sent'[m] = sent[m]
               /\ issued' = issued
               /\ SealedBy(m)' /\ ~SealedBy(m) => sent'[m].cred \in issued
    BY <1>1 DEF Send, TypeOK
  <1>2. CASE \/ \E c \in Credential : Pair(c) \/ Expire(c)
             \/ \E n \in Message : Deliver(n)
             \/ Retry \/ Refuse \/ RefuseUnaudited \/ Admit \/ Execute \/ Finish
             \/ FinishUnaudited \/ Restart \/ Tick \/ StepClock \/ UNCHANGED vars
    <2>1. sent' = sent /\ issued \subseteq issued'
      BY <1>2 DEF Pair, Expire, Deliver, Retry, Refuse, RefuseUnaudited, Admit, Execute, Finish,
                  FinishUnaudited, Restart, Tick, StepClock, vars
    <2> QED
      BY <2>1
  <1> QED
    BY <1>1, <1>2 DEF Next

LEMMA StepReplayInv == TypeOK /\ TypeOK' /\ ReplayInv /\ [Next]_vars => ReplayInv'
  <1> SUFFICES ASSUME TypeOK, TypeOK', ReplayInv, [Next]_vars PROVE ReplayInv'
    OBVIOUS
  <1> USE DEF clockVars, sessionVars, cacheVars, answerVars, faultVars
  <1>1. \A m \in Message : SealedBy(m)' => (sent[m].cred \in issued)'
    BY StepKeepsSealed DEF ReplayInv
  <1>2. \A m \in Message : executed[m] # 0 => SealedBy(m)' /\ Unacceptable(m)'
    BY StepKeepsSealed, StepKeepsUnacceptable DEF ReplayInv, SealedBy
  <1>3. ASSUME NEW m \in Message, Deliver(m) PROVE ReplayInv'
    <2>1. PICK r \in Request : queue' = Append(queue, r)
      <3>1. sent[m] \in Sealed
        BY <1>3 DEF Deliver, SealedBy, TypeOK
      <3> QED
        BY <1>3, <3>1 DEF Deliver, Sealed, Request
    <2>2. queue' # <<>> /\ (queue # <<>> => holder' = holder)
      BY <2>1 DEF holder, TypeOK
    <2>3. UNCHANGED <<sent, stage, nonceCache, executed>>
      BY <1>3 DEF Deliver
    <2> QED
      BY <1>1, <1>2, <2>2, <2>3 DEF ReplayInv, Decrypts, Remembered
  <1>4. ASSUME NEW n \in Message, Send(n) PROVE ReplayInv'
    <2>1. UNCHANGED <<queue, stage, nonceCache, executed>> /\ holder' = holder
      BY <1>4 DEF Send, holder
    <2>2. stage = "execute" => holder.msg \in Message /\ SealedBy(holder.msg)
      BY HolderIsRequest, KeysOfHolder, NoCredentialIsNone
         DEF ReplayInv, TypeOK, Decrypts, SealedBy, Unsent
    <2>3. stage = "execute" => sent'[holder.msg] = sent[holder.msg]
      BY <2>2, StepKeepsSealed
    <2> QED
      BY <1>1, <1>2, <2>1, <2>3 DEF ReplayInv, Decrypts, Remembered
  <1>5. CASE Retry \/ Refuse \/ RefuseUnaudited
    <2>1. UNCHANGED <<sent, stage, executed>> /\ stage = "check"
      BY <1>5 DEF Retry, Refuse, RefuseUnaudited, Holding
    <2> QED
      BY <1>1, <1>2, <2>1 DEF ReplayInv
  <1>6. CASE Admit
    <2>1. UNCHANGED <<sent, queue, executed>> /\ holder' = holder
      BY <1>6 DEF Admit, holder
    <2>2. stage' = "execute" => Decrypts(holder)
      BY <1>6 DEF Admit
    <2>3. queue # <<>>
      BY <1>6 DEF Admit, Holding
    <2> QED
      BY <1>1, <1>2, <1>6, <2>1, <2>2, <2>3, AdmittedIsFresh DEF ReplayInv, Decrypts
  <1>7. CASE Execute
    <2>1. UNCHANGED <<sent, queue, nonceCache>> /\ stage' = "finish"
      BY <1>7 DEF Execute
    <2>2. holder.msg \in Message /\ executed[holder.msg] = 0
      BY <1>7, HolderIsRequest, KeysOfHolder DEF Execute, Holding, ReplayInv, TypeOK
    <2>3. ASSUME NEW m \in Message, m = holder.msg
          PROVE  SealedBy(m) /\ Remembered(m)'
      <3>1. Decrypts(holder) /\ Remembered(holder.msg) /\ holder.cred \in Credential
        BY <1>7, HolderIsRequest, KeysOfHolder DEF Execute, Holding, ReplayInv, TypeOK
      <3> QED
        BY <2>1, <2>3, <3>1, NoCredentialIsNone
           DEF Decrypts, SealedBy, Unsent, Remembered
    <2>4. executed' = [executed EXCEPT ![holder.msg] = 1]
      BY <1>7, <2>2 DEF Execute, TypeOK
    <2>5. ASSUME NEW m \in Message, executed'[m] # 0
          PROVE  executed'[m] = 1 /\ SealedBy(m)' /\ Unacceptable(m)'
      <3>1. CASE m = holder.msg
        BY <2>1, <2>2, <2>3, <2>4, <3>1 DEF TypeOK, SealedBy, Unacceptable
      <3>2. CASE m # holder.msg
        BY <1>2, <2>4, <2>5, <3>2 DEF ReplayInv, TypeOK
      <3> QED
        BY <3>1, <3>2
    <2> QED
      BY <1>1, <1>7, <2>1, <2>5 DEF ReplayInv, Execute, Holding
  <1>8. CASE Finish \/ FinishUnaudited \/ Restart
    <2>1. stage' = "check" /\ UNCHANGED <<sent, executed>>
      BY <1>8 DEF Finish, FinishUnaudited, Restart
    <2> QED
      BY <1>1, <1>2, <2>1 DEF ReplayInv
  <1>9. CASE \/ \E c \in Credential : Pair(c) \/ Expire(c)
             \/ Tick \/ StepClock \/ UNCHANGED vars
    <2>1. UNCHANGED <<sent, queue, stage, nonceCache, executed>>
      BY <1>9 DEF Pair, Expire, Tick, StepClock, vars
    <2> QED
      BY <1>1, <1>2, <2>1 DEF ReplayInv, Decrypts, Remembered, holder
  <1> QED
    BY <1>3, <1>4, <1>5, <1>6, <1>7, <1>8, <1>9 DEF Next

(* What ran stays unacceptable for ever after: the nonce check, the two    *)
(* windows and the life of a session cover every later copy.               *)
THEOREM RanIsUnacceptable == Spec => []ReplayInv
  BY InitTypes, StepTypes, InitReplayInv, StepReplayInv, PTL DEF Spec

(* No command reaches the devices twice, however often its envelope is     *)
(* delivered, with any stepping of the clock up to ClockStep, any restart  *)
(* and any failed audit write in between (process_command).                *)
THEOREM ExecutesAtMostOnce == Spec => []AtMostOnce
  <1>1. ReplayInv => AtMostOnce
    BY DEF ReplayInv, AtMostOnce
  <1> QED
    BY <1>1, RanIsUnacceptable, PTL

-----------------------------------------------------------------------------
(* The holder of the lock is the request of a sealed envelope. *)
LEMMA HolderIsSealed ==
  ASSUME TypeOK, VerdictInv, queue # <<>>
  PROVE  /\ holder \in Request /\ holder.msg \in Message /\ holder.cred \in Credential
         /\ SealedBy(holder.msg) /\ sent[holder.msg].cred = holder.cred
         /\ sent[holder.msg].ts = holder.ts /\ sent[holder.msg].ts \in Int
         /\ KeyOf(holder) = <<sent[holder.msg].cred, holder.msg>>
         /\ KeyOf(holder) \in CacheKey
         /\ ~Gone(holder.cred)
  <1>1. holder \in Request /\ holder = queue[1] /\ 1 \in 1 .. Len(queue)
    BY HolderIsRequest DEF TypeOK, holder
  <1>2. /\ SealedBy(holder.msg)
        /\ sent[holder.msg] = [cred |-> holder.cred, nonce |-> holder.nonce, ts |-> holder.ts]
    BY <1>1 DEF VerdictInv, QueueIsSealed
  <1> QED
    BY <1>1, <1>2, KeysOfHolder DEF KeyOf, Gone, Request

(* The clocks: what the result cache forgets is stale for good. *)
LEMMA ConcludedIsStable ==
  ASSUME TypeOK, TypeOK', NEW m \in Message, SealedBy(m),
         sent'[m] = sent[m], now' >= now,
         sent[m].ts <= now + ClockStep + ClientSkew,
         LET k == <<sent[m].cred, m>>
         IN  \/ resultCache'[k] \in {resultCache[k], PrunedResults[k]}
             \/ resultCache'[k].at = now,
         \/ Concluded(m)
         \/ resultCache'[<<sent[m].cred, m>>].at = now,
         Gone(sent[m].cred) => Gone(sent[m].cred)'
  PROVE  Concluded(m)'
  <1> DEFINE k == <<sent[m].cred, m>>
  <1>1. /\ sent[m] \in Sealed /\ sent[m].ts \in Int /\ k \in CacheKey
        /\ now \in Int /\ now >= 0 /\ now' \in Int
    BY DEF TypeOK, SealedBy, Sealed, CacheKey
  <1>2. CASE resultCache'[k].at = now
    <2>1. resultCache'[k] # NoEntry
      BY <1>1, <1>2 DEF NoEntry, NotCached
    <2> QED
      BY <1>1, <1>2, <2>1 DEF Concluded
  <1>3. CASE Gone(sent[m].cred)
    BY <1>3 DEF Concluded, Gone
  <1>4. CASE PermanentlyStale(sent[m].ts)
    <2>1. PermanentlyStale(sent[m].ts)'
      BY <1>1, <1>4, WindowsAreDurations DEF PermanentlyStale
    <2> QED
      BY <2>1 DEF Concluded
  <1>5. CASE /\ resultCache[k] # NoEntry
             /\ sent[m].ts <= resultCache[k].at + ClockStep + ClientSkew
             /\ resultCache'[k] \in {resultCache[k], PrunedResults[k]}
             /\ ~PermanentlyStale(sent[m].ts)
    <2>1. resultCache[k].at \in Int
      BY <1>1 DEF TypeOK, Entry
    <2>2. ~Forgotten(resultCache[k].at)
      BY <1>1, <1>5, <2>1, WindowsAreDurations, ClientsNotFarAhead
         DEF Forgotten, PermanentlyStale
    <2>3. resultCache'[k] = resultCache[k]
      BY <1>1, <1>5, <2>2 DEF PrunedResults
    <2> QED
      BY <1>5, <2>3 DEF Concluded
  <1> QED
    BY <1>2, <1>3, <1>4, <1>5 DEF Concluded

(* A concluded message is neither cached nor acceptable: the check under   *)
(* the lock does not admit it again.                                       *)
LEMMA AdmittedIsOpen ==
  ASSUME TypeOK, VerdictInv, Admit
  PROVE  Verdict(holder.msg) = "open"
  <1> DEFINE m == holder.msg
             k == <<sent[m].cred, m>>
  <1>1. queue # <<>> /\ Timely(holder.ts) /\ PrunedResults[KeyOf(holder)] = NoEntry
    BY DEF Admit, Holding
  <1>2. /\ ~PermanentlyStale(sent[m].ts) /\ ~Gone(sent[m].cred)
        /\ sent[m].ts \in Int /\ now \in Int
    BY <1>1, HolderIsSealed, StaleIsNotTimely DEF TypeOK, SealedBy
  <1>3. SUFFICES ASSUME Concluded(m) PROVE FALSE
    BY <1>1, HolderIsSealed DEF VerdictInv, DecidedIsConcluded
  <1>4. /\ resultCache[k] # NoEntry /\ resultCache[k].at \in Int
        /\ sent[m].ts <= resultCache[k].at + ClockStep + ClientSkew
    BY <1>1, <1>2, <1>3, HolderIsSealed DEF Concluded, TypeOK, Entry
  <1>5. Forgotten(resultCache[k].at)
    BY <1>1, <1>4, HolderIsSealed DEF PrunedResults
  <1> QED
    BY <1>2, <1>4, <1>5, WindowsAreDurations, ClientsNotFarAhead
       DEF Forgotten, PermanentlyStale

(* Caching a result decides an open verdict and changes no other. *)
LEMMA CachingDecides ==
  ASSUME TypeOK, VerdictInv, queue # <<>>, sent' = sent,
         NEW result \in Result, NEW results, CacheResult(holder, result, results)
  PROVE  /\ \A m \in Message : m # holder.msg => Verdict(m)' = Verdict(m)
         /\ Verdict(holder.msg) # "open" => firstResult' = firstResult
         /\ Verdict(holder.msg) = "open" =>
              firstResult' = [firstResult EXCEPT ![KeyOf(holder)] =
                                [at |-> now, result |-> result]]
  <1>1. /\ KeyOf(holder) = <<sent[holder.msg].cred, holder.msg>>
        /\ KeyOf(holder) \in CacheKey /\ SealedBy(holder.msg)
    BY HolderIsSealed
  <1>2. Verdict(holder.msg) = "open" <=> firstResult[KeyOf(holder)] = NoEntry
    BY <1>1 DEF Verdict, FirstOf
  <1>3. ASSUME NEW m \in Message, m # holder.msg PROVE Verdict(m)' = Verdict(m)
    <2>1. SealedBy(m) => firstResult'[<<sent[m].cred, m>>] = firstResult[<<sent[m].cred, m>>]
      BY <1>1, <1>3 DEF CacheResult, TypeOK, KeyOf, CacheKey, SealedBy, Sealed
    <2> QED
      BY <2>1 DEF Verdict, FirstOf, SealedBy
  <1> QED
    BY <1>1, <1>2, <1>3 DEF CacheResult

LEMMA CachingDecidesHolder ==
  ASSUME TypeOK, VerdictInv, queue # <<>>, sent' = sent,
         NEW result \in Result, NEW results, CacheResult(holder, result, results),
         NEW h \in Message, h = holder.msg
  PROVE  /\ Verdict(h) # "open" => Verdict(h)' = Verdict(h)
         /\ Verdict(h) = "open" =>
              Verdict(h)' = IF result \in Executions THEN "ran" ELSE "refused"
  <1>1. /\ SealedBy(h) /\ KeyOf(holder) \in CacheKey
        /\ KeyOf(holder) = <<sent[h].cred, h>>
    BY HolderIsSealed
  <1>2. ASSUME Verdict(h) = "open"
        PROVE  Verdict(h)' = IF result \in Executions THEN "ran" ELSE "refused"
    <2>1. firstResult'[<<sent[h].cred, h>>] = [at |-> now, result |-> result]
      BY <1>1, <1>2, CachingDecides DEF TypeOK
    <2>2. [at |-> now, result |-> result] # NoEntry
      BY DEF NoEntry, NotCached, TypeOK
    <2> QED
      BY <1>1, <2>1, <2>2 DEF Verdict, FirstOf, SealedBy
  <1>3. Verdict(h) # "open" => Verdict(h)' = Verdict(h)
    BY <1>1, CachingDecides DEF Verdict, FirstOf, SealedBy
  <1> QED
    BY <1>2, <1>3

LEMMA TimeAdvances == ASSUME TypeOK, [Next]_vars PROVE now' >= now
  <1> USE DEF clockVars
  <1>1. CASE Tick
    BY <1>1 DEF Tick, TypeOK
  <1>2. CASE \/ \E c \in Credential : Pair(c) \/ Expire(c)
             \/ \E n \in Message : Send(n) \/ Deliver(n)
             \/ Retry \/ Refuse \/ RefuseUnaudited \/ Admit \/ Execute \/ Finish
             \/ FinishUnaudited \/ Restart \/ StepClock \/ UNCHANGED vars
    <2>1. now' = now
      BY <1>2 DEF Pair, Expire, Send, Deliver, Retry, Refuse, RefuseUnaudited, Admit, Execute,
                  Finish, FinishUnaudited, Restart, StepClock, vars
    <2> QED
      BY <2>1 DEF TypeOK
  <1> QED
    BY <1>1, <1>2 DEF Next

(* A sealed envelope is older than the client's and the gateway's clock    *)
(* errors allow, and stays the same.                                       *)
LEMMA StepSkewIsBounded ==
  ASSUME TypeOK, TypeOK', SkewIsBounded, [Next]_vars PROVE SkewIsBounded'
  <1> USE DEF clockVars, sessionVars
  <1>0. now \in Int /\ offset \in -ClockStep .. ClockStep /\ now' >= now /\ now' \in Int
    BY TimeAdvances DEF TypeOK
  <1>1. ASSUME NEW n \in Message, Send(n) PROVE SkewIsBounded'
    <2>1. PICK skew \in -ClientSkew .. ClientSkew :
             \E c \in issued, nonce \in Nonce :
               sent' = [sent EXCEPT ![n] = [cred |-> c, nonce |-> nonce, ts |-> wall + skew]]
      BY <1>1 DEF Send
    <2>2. sent'[n].ts = wall + skew /\ \A m \in Message \ {n} : sent'[m] = sent[m]
      BY <2>1 DEF TypeOK
    <2>3. now' = now
      BY <1>1 DEF Send
    <2>4. wall + skew <= now + ClockStep + ClientSkew
      BY <1>0, WindowsAreDurations DEF wall
    <2> QED
      BY <2>2, <2>3, <2>4 DEF SkewIsBounded, SealedBy
  <1>2. CASE \/ \E c \in Credential : Pair(c) \/ Expire(c)
             \/ \E n \in Message : Deliver(n)
             \/ Retry \/ Refuse \/ RefuseUnaudited \/ Admit \/ Execute \/ Finish
             \/ FinishUnaudited \/ Restart \/ Tick \/ StepClock \/ UNCHANGED vars
    <2>1. sent' = sent
      BY <1>2 DEF Pair, Expire, Deliver, Retry, Refuse, RefuseUnaudited, Admit, Execute, Finish,
                  FinishUnaudited, Restart, Tick, StepClock, vars
    <2>2. ASSUME NEW m \in Message, SealedBy(m)
          PROVE  sent[m].ts <= now' + ClockStep + ClientSkew
      <3>1. sent[m].ts \in Int /\ sent[m].ts <= now + ClockStep + ClientSkew
        BY <2>2 DEF SkewIsBounded, TypeOK, SealedBy, Sealed
      <3> QED
        BY <1>0, <3>1, WindowsAreDurations
    <2> QED
      BY <2>1, <2>2 DEF SkewIsBounded, SealedBy
  <1> QED
    BY <1>1, <1>2 DEF Next

LEMMA StepQueueIsSealed ==
  ASSUME TypeOK, QueueIsSealed, [Next]_vars PROVE QueueIsSealed'
  <1> USE DEF sessionVars
  <1>1. ASSUME NEW m \in Message, Deliver(m) PROVE QueueIsSealed'
    <2>1. sent[m] \in Sealed /\ sent' = sent
      BY <1>1 DEF Deliver, SealedBy, TypeOK
    <2>2. PICK r \in Request :
             /\ queue' = Append(queue, r) /\ r.msg = m /\ SealedBy(m)
             /\ r.cred = sent[m].cred /\ r.nonce = sent[m].nonce /\ r.ts = sent[m].ts
      BY <1>1, <2>1 DEF Deliver, Sealed, Request
    <2>3. sent[m] = [cred |-> r.cred, nonce |-> r.nonce, ts |-> r.ts]
      BY <2>1, <2>2 DEF Sealed
    <2>4. ASSUME NEW i \in 1 .. Len(queue')
          PROVE  queue'[i] = r \/ (i \in 1 .. Len(queue) /\ queue'[i] = queue[i])
      BY <2>2 DEF TypeOK
    <2>5. ASSUME NEW i \in 1 .. Len(queue')
          PROVE  SealedBy(queue'[i].msg)
                 /\ sent[queue'[i].msg] = [cred |-> queue'[i].cred, nonce |-> queue'[i].nonce,
                                           ts |-> queue'[i].ts]
      <3>1. CASE queue'[i] = r
        BY <2>2, <2>3, <3>1
      <3>2. CASE i \in 1 .. Len(queue) /\ queue'[i] = queue[i]
        BY <3>2 DEF QueueIsSealed
      <3> QED
        BY <2>4, <3>1, <3>2
    <2> QED
      BY <2>1, <2>5, Zenon DEF QueueIsSealed, SealedBy
  <1>2. ASSUME queue # <<>>, queue' = Tail(queue), sent' = sent PROVE QueueIsSealed'
    <2>1. \A i \in 1 .. Len(queue') : i + 1 \in 1 .. Len(queue) /\ queue'[i] = queue[i + 1]
      BY <1>2 DEF TypeOK
    <2> QED
      BY <1>2, <2>1 DEF QueueIsSealed, SealedBy
  <1>3. CASE Retry \/ Refuse \/ RefuseUnaudited \/ Finish \/ FinishUnaudited
    BY <1>2, <1>3 DEF Retry, Refuse, RefuseUnaudited, Finish, FinishUnaudited,
                      Holding, CacheAndAudit, Answer
  <1>4. CASE Restart
    BY <1>4 DEF Restart, QueueIsSealed
  <1>5. ASSUME NEW n \in Message, Send(n) PROVE QueueIsSealed'
    <2>1. queue' = queue /\ \A m \in Message : SealedBy(m) => sent'[m] = sent[m]
      BY <1>5 DEF Send, TypeOK
    <2>2. ASSUME NEW i \in 1 .. Len(queue)
          PROVE  /\ SealedBy(queue[i].msg)
                 /\ sent'[queue[i].msg] = sent[queue[i].msg]
      <3>1. queue[i] \in Request
        BY DEF TypeOK
      <3> QED
        BY <2>1, <3>1 DEF QueueIsSealed, Request
    <2> QED
      BY <2>1, <2>2 DEF QueueIsSealed, SealedBy
  <1>6. CASE \/ \E c \in Credential : Pair(c) \/ Expire(c)
             \/ Admit \/ Execute \/ Tick \/ StepClock \/ UNCHANGED vars
    <2>1. queue' = queue /\ sent' = sent
      BY <1>6 DEF Pair, Expire, Admit, Execute, Tick, StepClock, vars
    <2> QED
      BY <2>1 DEF QueueIsSealed, SealedBy
  <1> QED
    BY <1>1, <1>3, <1>4, <1>5, <1>6 DEF Next

(* Every step that writes the result cache writes the present time. *)
LEMMA StepKeepsConcluded ==
  ASSUME TypeOK, TypeOK', ReplayInv, VerdictInv, [Next]_vars,
         NEW m \in Message, SealedBy(m), Concluded(m)
  PROVE  Concluded(m)'
  <1> USE DEF cacheVars
  <1> DEFINE k == <<sent[m].cred, m>>
  <1>1. /\ sent'[m] = sent[m] /\ now' >= now
        /\ sent[m].ts <= now + ClockStep + ClientSkew
        /\ k \in CacheKey
        /\ (Gone(sent[m].cred) => Gone(sent[m].cred)')
    <2>1. sent'[m] = sent[m]
      BY StepKeepsSealed
    <2>2. k \in CacheKey
      BY DEF TypeOK, SealedBy, Sealed, CacheKey
    <2> QED
      BY <2>1, <2>2, TimeAdvances, GoneIsStable DEF VerdictInv, SkewIsBounded, Gone
  <1>2. ASSUME \/ resultCache'[k] \in {resultCache[k], PrunedResults[k]}
               \/ resultCache'[k].at = now
        PROVE  Concluded(m)'
    BY <1>1, <1>2, ConcludedIsStable
  <1>3. ASSUME NEW result, NEW results \in [CacheKey -> Entry], queue # <<>>,
               CacheResult(holder, result, results),
               results[k] \in {resultCache[k], PrunedResults[k]}
        PROVE  Concluded(m)'
    <2>1. KeyOf(holder) \in CacheKey
      BY <1>3, HolderIsSealed
    <2> QED
      BY <1>1, <1>2, <1>3, <2>1 DEF CacheResult
  <1>4. CASE Restart
    <2>1. sent' = sent /\ issued' = issued /\ sessions' = {} /\ queue' = <<>>
      BY <1>4 DEF Restart
    <2> QED
      BY <2>1 DEF Concluded, Gone, ReplayInv
  <1>5. CASE Retry \/ Admit
    BY <1>2, <1>5 DEF Retry, Admit
  <1>6. CASE Refuse \/ RefuseUnaudited
    BY <1>3, <1>6, PruningTypes DEF Refuse, RefuseUnaudited, Holding, CacheAndAudit
  <1>7. CASE Finish \/ FinishUnaudited
    BY <1>3, <1>7 DEF Finish, FinishUnaudited, Holding, CacheAndAudit, TypeOK
  <1>8. CASE \/ \E c \in Credential : Pair(c) \/ Expire(c)
             \/ \E n \in Message : Send(n) \/ Deliver(n)
             \/ Execute \/ Tick \/ StepClock \/ UNCHANGED vars
    <2>1. resultCache' = resultCache
      BY <1>8 DEF Pair, Expire, Send, Deliver, Execute, Tick, StepClock, vars
    <2> QED
      BY <1>2, <2>1
  <1> QED
    BY <1>4, <1>5, <1>6, <1>7, <1>8 DEF Next

(* What a step that decides the holder's verdict does to every verdict. *)
LEMMA DecidingStep ==
  ASSUME TypeOK, TypeOK', ReplayInv, VerdictInv, [Next]_vars,
         queue # <<>>, sent' = sent,
         NEW result \in Result, NEW results \in [CacheKey -> Entry],
         CacheResult(holder, result, results),
         executed' = executed, stage' = "check", queue' = Tail(queue),
         Verdict(holder.msg) = "open" =>
           (executed[holder.msg] = 1 <=> result \in Executions)
  PROVE  /\ VerdictsAreOfSent' /\ DecidedIsConcluded' /\ VerdictsAreTrue'
         /\ RanIsDecided' /\ HolderIsOpen'
  <1>0. PICK h \in Message : h = holder.msg
    BY HolderIsSealed
  <1>1. /\ h \in Message /\ SealedBy(h) /\ KeyOf(holder) \in CacheKey
        /\ KeyOf(holder) = <<sent[h].cred, h>> /\ holder.msg = h
        /\ KeyOf(holder) = <<holder.cred, h>> /\ sent[h].cred = holder.cred
    BY <1>0, HolderIsSealed DEF KeyOf
  <1>2. \A m \in Message : m # h => Verdict(m)' = Verdict(m)
    BY <1>0, CachingDecides
  <1>3. Verdict(h) # "open" => Verdict(h)' = Verdict(h)
    BY <1>0, CachingDecidesHolder
  <1>4. Verdict(h) = "open" =>
          Verdict(h)' = IF result \in Executions THEN "ran" ELSE "refused"
    BY <1>0, CachingDecidesHolder
  <1>5. VerdictsAreOfSent'
    <2>1. ASSUME NEW c \in Credential, NEW m \in Message,
                 firstResult'[<<c, m>>] # NoEntry
          PROVE  SealedBy(m)' /\ sent'[m].cred = c
      <3>1. CASE <<c, m>> = KeyOf(holder)
        BY <1>1, <3>1 DEF SealedBy
      <3>2. CASE <<c, m>> # KeyOf(holder)
        <4>1. firstResult'[<<c, m>>] = firstResult[<<c, m>>]
          BY <3>2, CachingDecides DEF TypeOK, CacheKey
        <4> QED
          BY <2>1, <4>1 DEF VerdictInv, VerdictsAreOfSent, SealedBy
      <3> QED
        BY <3>1, <3>2
    <2> QED
      BY <2>1 DEF VerdictsAreOfSent
  <1>6. DecidedIsConcluded'
    <2>1. ASSUME NEW m \in Message, Verdict(m)' # "open" PROVE Concluded(m)'
      <3>1. CASE Verdict(m) # "open"
        BY <3>1, StepKeepsConcluded
           DEF VerdictInv, DecidedIsConcluded, Verdict
      <3>2. CASE m = h
        <4>1. resultCache'[<<sent[h].cred, h>>].at = now
          BY <1>1 DEF CacheResult
        <4>2. sent[h].ts <= now + ClockStep + ClientSkew
          BY <1>1 DEF VerdictInv, SkewIsBounded
        <4>3. Gone(sent[h].cred) => Gone(sent[h].cred)'
          BY <1>1, HolderIsSealed
        <4> QED
          BY <1>1, <3>2, <4>1, <4>2, <4>3, TimeAdvances, ConcludedIsStable
      <3> QED
        BY <1>2, <2>1, <3>1, <3>2
    <2> QED
      BY <2>1 DEF DecidedIsConcluded
  <1>7. VerdictsAreTrue'
    BY <1>1, <1>2, <1>3, <1>4 DEF VerdictInv, VerdictsAreTrue
  <1>8. RanIsDecided'
    <2>1. ASSUME NEW m \in Message, executed'[m] = 1, Verdict(m)' = "open"
          PROVE  Gone(sent[m].cred)'
      <3>1. m # h /\ Verdict(m) = "open" /\ executed[m] = 1
        BY <1>2, <1>3, <1>4, <2>1
      <3>2. Gone(sent[m].cred)
        BY <1>1, <3>1 DEF VerdictInv, RanIsDecided, Settled
      <3> QED
        BY <3>2, GoneIsStable DEF Gone
    <2> QED
      BY <2>1 DEF RanIsDecided
  <1>9. HolderIsOpen'
    BY DEF HolderIsOpen
  <1> QED
    BY <1>5, <1>6, <1>7, <1>8, <1>9

(* Steps that decide nothing keep every verdict. *)
LEMMA VerdictsKept ==
  ASSUME TypeOK, VerdictInv, [Next]_vars, firstResult' = firstResult,
         NEW m \in Message
  PROVE  Verdict(m)' = Verdict(m)
  <1>1. CASE SealedBy(m)
    BY <1>1, StepKeepsSealed DEF Verdict, FirstOf, SealedBy
  <1>2. CASE ~SealedBy(m)
    <2>1. Verdict(m) = "open"
      BY <1>2 DEF Verdict
    <2>2. CASE SealedBy(m)'
      <3>1. sent'[m].cred \in Credential
        BY <1>2, <2>2, StepKeepsSealed DEF TypeOK
      <3>2. firstResult[<<sent'[m].cred, m>>] = NoEntry
        BY <1>2, <3>1 DEF VerdictInv, VerdictsAreOfSent
      <3> QED
        BY <2>1, <3>2 DEF Verdict, FirstOf
    <2> QED
      BY <2>1, <2>2 DEF Verdict
  <1> QED
    BY <1>1, <1>2

LEMMA QuietStep ==
  ASSUME TypeOK, TypeOK', ReplayInv, VerdictInv, [Next]_vars,
         firstResult' = firstResult
  PROVE  VerdictsAreOfSent' /\ DecidedIsConcluded'
  <1>1. VerdictsAreOfSent'
    BY StepKeepsSealed DEF VerdictInv, VerdictsAreOfSent, SealedBy
  <1>2. DecidedIsConcluded'
    BY VerdictsKept, StepKeepsConcluded
       DEF VerdictInv, DecidedIsConcluded, Verdict
  <1> QED
    BY <1>1, <1>2

(* Under the lock, before anything of it ran, an open message has not run. *)
LEMMA OpenHolderHasNotRun ==
  ASSUME TypeOK, VerdictInv, queue # <<>>, stage = "check",
         Verdict(holder.msg) = "open"
  PROVE  executed[holder.msg] # 1
  BY HolderIsSealed DEF VerdictInv, RanIsDecided, Settled

LEMMA InitVerdictInv == Init => VerdictInv
  <1> SUFFICES ASSUME Init PROVE VerdictInv
    OBVIOUS
  <1>1. \A m \in Message : Verdict(m) = "open"
    BY DEF Init, Verdict, SealedBy
  <1> QED
    BY <1>1 DEF Init, VerdictInv, QueueIsSealed, SkewIsBounded, VerdictsAreOfSent,
                DecidedIsConcluded, VerdictsAreTrue, RanIsDecided, HolderIsOpen,
                SealedBy, CacheKey

LEMMA StepVerdictInv ==
  TypeOK /\ TypeOK' /\ ReplayInv /\ VerdictInv /\ [Next]_vars => VerdictInv'
  <1> SUFFICES ASSUME TypeOK, TypeOK', ReplayInv, VerdictInv, [Next]_vars
               PROVE  VerdictInv'
    OBVIOUS
  <1> USE DEF clockVars, sessionVars, cacheVars, answerVars, faultVars
  <1>1. QueueIsSealed' /\ SkewIsBounded'
    BY StepQueueIsSealed, StepSkewIsBounded DEF VerdictInv
  <1>2. CASE Refuse \/ RefuseUnaudited
    <2>1. PICK result \in Refusals :
            CacheResult(holder, result, PrunedResults) /\ queue' = Tail(queue)
      BY <1>2 DEF Refuse, RefuseUnaudited, Refusals, CacheAndAudit, Answer
    <2>2. /\ queue # <<>> /\ sent' = sent /\ executed' = executed
          /\ stage = "check" /\ stage' = "check"
      BY <1>2 DEF Refuse, RefuseUnaudited, Holding
    <2>3. result \in Result /\ result \notin Executions
      BY DEF Result, Refusals, Executions
    <2>4. CacheResult(holder, result, PrunedResults) /\ queue' = Tail(queue)
      BY <2>1
    <2> QED
      BY <1>1, <2>2, <2>3, <2>4, OpenHolderHasNotRun, PruningTypes, DecidingStep
         DEF VerdictInv
  <1>3. CASE Finish \/ FinishUnaudited
    <2>1. /\ queue # <<>> /\ sent' = sent /\ executed' = executed
          /\ stage = "finish" /\ stage' = "check"
          /\ CacheResult(holder, outcome, resultCache) /\ queue' = Tail(queue)
      BY <1>3 DEF Finish, FinishUnaudited, Holding, CacheAndAudit, Answer
    <2>2. outcome \in Result /\ resultCache \in [CacheKey -> Entry]
      BY <2>1 DEF TypeOK
    <2>3. executed[holder.msg] = 1 <=> outcome \in Executions
      BY <2>1 DEF VerdictInv, HolderIsOpen
    <2> QED
      BY <1>1, <2>1, <2>2, <2>3, DecidingStep DEF VerdictInv
  <1>4. ASSUME firstResult' = firstResult,
               VerdictsAreTrue', RanIsDecided', HolderIsOpen'
        PROVE  VerdictInv'
    BY <1>1, <1>4, QuietStep DEF VerdictInv
  <1>5. ASSUME firstResult' = firstResult, executed' = executed
        PROVE  /\ VerdictsAreTrue'
               /\ \A m \in Message : Verdict(m)' = Verdict(m)
               /\ (stage = "check" => RanIsDecided')
    <2>1. \A m \in Message : Verdict(m)' = Verdict(m)
      BY <1>5, VerdictsKept
    <2>2. VerdictsAreTrue'
      BY <1>5, <2>1 DEF VerdictInv, VerdictsAreTrue
    <2>3. ASSUME stage = "check", NEW m \in Message, executed[m] = 1,
                 Verdict(m) = "open"
          PROVE  Gone(sent[m].cred)'
      <3>1. Gone(sent[m].cred) /\ sent'[m] = sent[m]
        BY <2>3, StepKeepsSealed DEF VerdictInv, RanIsDecided, Settled, ReplayInv
      <3> QED
        BY <3>1, GoneIsStable DEF Gone
    <2> QED
      BY <1>5, <2>1, <2>2, <2>3 DEF RanIsDecided
  <1>6. ASSUME firstResult' = firstResult, executed' = executed,
               stage' = stage, outcome' = outcome,
               stage # "check" => holder' = holder
        PROVE  VerdictInv'
    <2>1. ASSUME NEW m \in Message, executed[m] = 1, Verdict(m) = "open"
          PROVE  ~Settled(m)' \/ Gone(sent[m].cred)'
      <3>1. CASE ~Settled(m)
        BY <1>6, <3>1 DEF Settled
      <3>2. CASE Gone(sent[m].cred)
        <4>1. sent'[m] = sent[m]
          BY <2>1, StepKeepsSealed DEF ReplayInv
        <4> QED
          BY <3>2, <4>1, GoneIsStable DEF Gone
      <3> QED
        BY <2>1, <3>1, <3>2 DEF VerdictInv, RanIsDecided
    <2>2. RanIsDecided'
      BY <1>5, <1>6, <2>1 DEF RanIsDecided
    <2>3. HolderIsOpen'
      <3>1. stage # "check" => holder.msg \in Message
        BY HolderIsSealed DEF ReplayInv
      <3> QED
        BY <1>5, <1>6, <3>1 DEF VerdictInv, HolderIsOpen
    <2> QED
      BY <1>4, <1>5, <1>6, <2>2, <2>3
  <1>7. CASE Retry
    <2>1. /\ firstResult' = firstResult /\ executed' = executed
          /\ stage = "check" /\ stage' = "check"
      BY <1>7 DEF Retry, Holding
    <2> QED
      BY <1>4, <1>5, <2>1 DEF HolderIsOpen
  <1>8. CASE Admit
    <2>1. /\ firstResult' = firstResult /\ executed' = executed /\ stage = "check"
          /\ queue # <<>> /\ holder' = holder
      BY <1>8 DEF Admit, Holding, holder
    <2>2. Verdict(holder.msg) = "open" /\ executed[holder.msg] # 1 /\ holder.msg \in Message
      BY <1>8, <2>1, AdmittedIsOpen, OpenHolderHasNotRun, HolderIsSealed
    <2>3. stage' = "finish" => outcome' \notin Executions
      BY <1>8 DEF Admit, Executions
    <2> QED
      BY <1>4, <1>5, <2>1, <2>2, <2>3 DEF HolderIsOpen
  <1>9. CASE Execute
    <2>1. PICK h \in Message : h = holder.msg
      BY <1>9, HolderIsSealed DEF Execute, Holding
    <2>2. /\ firstResult' = firstResult /\ stage = "execute" /\ stage' = "finish"
          /\ executed[h] = 0 /\ executed' = [executed EXCEPT ![h] = 1]
          /\ holder' = holder /\ outcome' \in Executions /\ Verdict(h) = "open"
      <3>1. /\ firstResult' = firstResult /\ stage = "execute" /\ stage' = "finish"
            /\ queue' = queue /\ outcome' \in Executions
            /\ executed' = [executed EXCEPT ![h] = executed[h] + 1]
        BY <1>9, <2>1 DEF Execute, Holding
      <3>2. executed[h] = 0
        BY <2>1, <3>1 DEF ReplayInv
      <3>3. Verdict(h) = "open"
        BY <2>1, <3>1 DEF VerdictInv, HolderIsOpen
      <3>4. executed' = [executed EXCEPT ![h] = 1]
        BY <3>1, <3>2
      <3>5. holder' = holder
        BY <3>1 DEF holder
      <3> QED
        BY <3>1, <3>2, <3>3, <3>4, <3>5
    <2>3. \A m \in Message : Verdict(m)' = Verdict(m)
      BY <2>2, VerdictsKept
    <2>4. VerdictsAreTrue'
      BY <2>2, <2>3 DEF VerdictInv, VerdictsAreTrue, TypeOK
    <2>5. HolderIsOpen'
      BY <2>1, <2>2, <2>3 DEF HolderIsOpen, TypeOK
    <2>6. ASSUME NEW m \in Message, executed'[m] = 1, Verdict(m) = "open"
          PROVE  ~Settled(m)' \/ Gone(sent[m].cred)'
      <3>1. CASE m = h
        BY <2>1, <2>2, <3>1 DEF Settled
      <3>2. CASE m # h
        <4>1. Gone(sent[m].cred) /\ sent'[m] = sent[m]
          BY <2>2, <2>6, <3>2, StepKeepsSealed
             DEF VerdictInv, RanIsDecided, Settled, ReplayInv, TypeOK
        <4> QED
          BY <4>1, GoneIsStable DEF Gone
      <3> QED
        BY <3>1, <3>2
    <2>7. RanIsDecided'
      BY <2>3, <2>6 DEF RanIsDecided
    <2> QED
      BY <1>4, <2>2, <2>4, <2>5, <2>7
  <1>10. CASE Restart
    <2>1. /\ firstResult' = firstResult /\ executed' = executed /\ stage' = "check"
          /\ sent' = sent /\ issued' = issued /\ sessions' = {} /\ queue' = <<>>
      BY <1>10 DEF Restart
    <2>2. RanIsDecided'
      BY <1>5, <2>1 DEF RanIsDecided, ReplayInv, Gone
    <2> QED
      BY <1>4, <1>5, <2>1, <2>2 DEF HolderIsOpen
  <1>11. ASSUME NEW n \in Message, Deliver(n) PROVE VerdictInv'
    <2>1. sent[n] \in Sealed /\ queue \in Seq(Request)
      BY <1>11 DEF Deliver, SealedBy, TypeOK
    <2>2. PICK r \in Request : queue' = Append(queue, r)
      BY <1>11, <2>1 DEF Deliver, Sealed, Request
    <2>3. stage # "check" => holder' = holder
      BY <2>1, <2>2 DEF ReplayInv, holder
    <2> QED
      BY <1>6, <1>11, <2>3 DEF Deliver
  <1>12. CASE \/ \E c \in Credential : Pair(c) \/ Expire(c)
              \/ \E n \in Message : Send(n)
              \/ Tick \/ StepClock \/ UNCHANGED vars
    <2>1. UNCHANGED <<firstResult, executed, stage, outcome, queue>>
      BY <1>12 DEF Pair, Expire, Send, Tick, StepClock, vars
    <2> QED
      BY <1>6, <2>1 DEF holder
  <1> QED
    BY <1>2, <1>3, <1>7, <1>8, <1>9, <1>10, <1>11, <1>12 DEF Next

(* Verdicts are truthful and outlive the caches that gave them: what has   *)
(* been decided can be neither run nor decided otherwise.                  *)
THEOREM VerdictsAreFinal == Spec => []VerdictInv
  BY InitTypes, StepTypes, InitReplayInv, StepReplayInv, InitVerdictInv,
     StepVerdictInv, PTL DEF Spec

-----------------------------------------------------------------------------
LEMMA InitContract == Init => Contract!Init
  <1> SUFFICES ASSUME Init PROVE Contract!Init
    OBVIOUS
  <1>1. \A m \in Message : Verdict(m) = "open"
    BY DEF Init, Verdict, SealedBy
  <1> QED
    BY <1>1 DEF Init, Contract!Init

(* Caching a result is deciding, unless the message had its verdict. *)
LEMMA CachingIsDeciding ==
  ASSUME TypeOK, VerdictInv, queue # <<>>, sent' = sent, executed' = executed,
         NEW result \in Result, NEW results, CacheResult(holder, result, results),
         Verdict(holder.msg) = "open" =>
           (executed[holder.msg] = 1 <=> result \in Executions)
  PROVE  [Contract!Next]_<<executed, [m \in Message |-> Verdict(m)]>>
  <1>1. PICK h \in Message : h = holder.msg
    BY HolderIsSealed
  <1>2. \A m \in Message : m # h => Verdict(m)' = Verdict(m)
    BY <1>1, CachingDecides
  <1>3. CASE Verdict(h) = "open"
    <2>1. Verdict(h)' = IF executed[h] = 1 THEN "ran" ELSE "refused"
      BY <1>1, <1>3, CachingDecidesHolder
    <2>2. Contract!Decide(h)
      BY <1>2, <1>3, <2>1 DEF Contract!Decide
    <2> QED
      BY <2>2 DEF Contract!Next
  <1>4. CASE Verdict(h) # "open"
    <2>1. \A m \in Message : Verdict(m)' = Verdict(m)
      BY <1>1, <1>2, <1>4, CachingDecidesHolder
    <2> QED
      BY <2>1
  <1> QED
    BY <1>3, <1>4

(* Every step of the command path is a step of the contract or a stutter.  *)
LEMMA StepContract ==
  ASSUME TypeOK, ReplayInv, VerdictInv, [Next]_vars
  PROVE  [Contract!Next]_<<executed, [m \in Message |-> Verdict(m)]>>
  <1> USE DEF clockVars, sessionVars, cacheVars, answerVars, faultVars
  <1>1. CASE Refuse \/ RefuseUnaudited
    <2>1. PICK result \in Refusals : CacheResult(holder, result, PrunedResults)
      BY <1>1 DEF Refuse, RefuseUnaudited, Refusals, CacheAndAudit
    <2>2. /\ queue # <<>> /\ sent' = sent /\ executed' = executed
          /\ stage = "check"
      BY <1>1 DEF Refuse, RefuseUnaudited, Holding
    <2>3. result \in Result /\ result \notin Executions
      BY DEF Result, Refusals, Executions
    <2> QED
      BY <2>1, <2>2, <2>3, OpenHolderHasNotRun, CachingIsDeciding
  <1>2. CASE Finish \/ FinishUnaudited
    <2>1. /\ queue # <<>> /\ sent' = sent /\ executed' = executed
          /\ stage = "finish" /\ CacheResult(holder, outcome, resultCache)
      BY <1>2 DEF Finish, FinishUnaudited, Holding, CacheAndAudit
    <2>2. outcome \in Result
      BY <2>1 DEF TypeOK
    <2>3. executed[holder.msg] = 1 <=> outcome \in Executions
      BY <2>1 DEF VerdictInv, HolderIsOpen
    <2> QED
      BY <2>1, <2>2, <2>3, CachingIsDeciding
  <1>3. CASE Execute
    <2>1. PICK h \in Message : h = holder.msg
      BY <1>3, HolderIsSealed DEF Execute, Holding
    <2>2. /\ firstResult' = firstResult /\ stage = "execute"
          /\ executed' = [executed EXCEPT ![h] = executed[h] + 1]
      BY <1>3, <2>1 DEF Execute, Holding
    <2>3. executed[h] = 0 /\ Verdict(h) = "open"
      BY <2>1, <2>2 DEF ReplayInv, VerdictInv, HolderIsOpen
    <2>4. \A m \in Message : Verdict(m)' = Verdict(m)
      BY <2>2, VerdictsKept
    <2>5. Contract!Run(h)
      BY <2>2, <2>3, <2>4 DEF Contract!Run
    <2> QED
      BY <2>5 DEF Contract!Next
  <1>4. CASE \/ \E c \in Credential : Pair(c) \/ Expire(c)
             \/ \E n \in Message : Send(n) \/ Deliver(n)
             \/ Retry \/ Admit \/ Restart \/ Tick \/ StepClock \/ UNCHANGED vars
    <2>1. firstResult' = firstResult /\ executed' = executed
      BY <1>4 DEF Pair, Expire, Send, Deliver, Retry, Admit, Restart, Tick,
                  StepClock, vars
    <2> QED
      BY <2>1, VerdictsKept
  <1> QED
    BY <1>1, <1>2, <1>3, <1>4 DEF Next

(* process_command implements the contract of CommandContract: one run at  *)
(* most, one truthful verdict, and nothing after it.                       *)
THEOREM CommandPathImplementsContract == Spec => ImplementsContract
  <1>1. TypeOK /\ ReplayInv /\ VerdictInv /\ [Next]_vars
          => [Contract!Next]_<<executed, [m \in Message |-> Verdict(m)]>>
    BY StepContract
  <1> QED
    BY <1>1, InitContract, TypeCorrect, RanIsUnacceptable, VerdictsAreFinal, PTL
       DEF Spec, ImplementsContract, Contract!Spec

(* What has been decided first and is cached, or out of its window, or of  *)
(* a dead session, stays so while the cache is kept or pruned.             *)
LEMMA FirstStaysWhen ==
  ASSUME TypeOK, TypeOK', NEW k \in CacheKey, FirstStays(k), now' >= now,
         issued \subseteq issued', Gone(k[1]) => Gone(k[1])',
         firstResult'[k] = firstResult[k],
         resultCache'[k] \in {resultCache[k], PrunedResults[k]}
  PROVE  FirstStays(k)'
  <1>a. now \in Nat /\ now' \in Nat /\ IdempotencyWindow \in Nat
    BY WindowsAreDurations, Zenon DEF TypeOK
  <1>b. firstResult[k] \in Entry /\ resultCache[k] \in Entry
    BY Zenon DEF TypeOK
  <1>c. firstResult[k].at \in Int /\ resultCache[k].at \in Int
    BY <1>b DEF Entry
  <1>1. /\ now \in Int /\ now' \in Int /\ IdempotencyWindow \in Int
        /\ firstResult[k].at \in Int /\ resultCache[k].at \in Int
    BY <1>a, <1>c
  <1>2. PrunedResults[k] = IF Forgotten(resultCache[k].at) THEN NoEntry ELSE resultCache[k]
    BY DEF PrunedResults
  <1>3. CASE resultCache'[k] = resultCache[k]
    BY <1>1, <1>3 DEF FirstStays
  <1>4. CASE resultCache'[k] = NoEntry /\ Forgotten(resultCache[k].at)
    <2>1. resultCache[k].at < now - IdempotencyWindow
      BY <1>4 DEF Forgotten
    <2> QED
      BY <1>1, <2>1 DEF FirstStays
  <1> QED
    BY <1>2, <1>3, <1>4

LEMMA RetryHolder ==
  ASSUME TypeOK, RetryInv, queue # <<>>
  PROVE  /\ holder \in Request /\ KeyOf(holder) \in CacheKey
         /\ KeyOf(holder)[1] = holder.cred /\ holder.cred \in issued
         /\ ~Gone(KeyOf(holder)[1])
  <1>1. holder \in Request /\ holder = queue[1] /\ 1 \in 1 .. Len(queue)
    BY HolderIsRequest DEF TypeOK, holder
  <1>2. KeyOf(holder) \in CacheKey /\ KeyOf(holder)[1] = holder.cred
    BY <1>1, KeysOfHolder DEF KeyOf
  <1> QED
    BY <1>1, <1>2 DEF RetryInv, Gone

(* Caching a result that the cache did not know: it is the first, or the   *)
(* first one's window is over.                                             *)
LEMMA CachingKeepsFirst ==
  ASSUME TypeOK, TypeOK', RetryInv, queue # <<>>, NEW result \in Result,
         NEW results \in [CacheKey -> Entry],
         \A k \in CacheKey : results[k] \in {resultCache[k], PrunedResults[k]},
         results[KeyOf(holder)] = NoEntry, CacheResult(holder, result, results),
         now' = now, issued' = issued, \A c : Gone(c) => Gone(c)'
  PROVE  /\ \A k \in CacheKey : FirstStays(k)' /\ (resultCache'[k] # NoEntry => firstResult'[k] # NoEntry)
         /\ \A k \in CacheKey : firstResult[k] # NoEntry => firstResult'[k] = firstResult[k]
         /\ firstResult'[KeyOf(holder)] # NoEntry
         /\ now <= firstResult'[KeyOf(holder)].at + IdempotencyWindow =>
              firstResult'[KeyOf(holder)].result = result
  <1>1. PICK h \in CacheKey : h = KeyOf(holder)
    BY RetryHolder
  <1>2. ~Gone(h[1]) /\ h[1] \in issued
    BY <1>1, RetryHolder
  <1>3. PICK e : e = [at |-> now, result |-> result]
    OBVIOUS
  <1>4. e # NoEntry /\ e.at = now /\ e.result = result
    BY <1>3 DEF NoEntry, Result, Executions, Refusals
  <1>5. /\ resultCache' = [results EXCEPT ![h] = e]
        /\ firstResult' = IF firstResult[h] = NoEntry THEN [firstResult EXCEPT ![h] = e] ELSE firstResult
    BY <1>1, <1>3 DEF CacheResult
  <1>6. resultCache'[h] = e /\ \A k \in CacheKey : k # h => resultCache'[k] = results[k]
    BY <1>5
  <1>7. /\ \A k \in CacheKey : k # h => firstResult'[k] = firstResult[k]
        /\ firstResult[h] # NoEntry => firstResult'[h] = firstResult[h]
        /\ firstResult[h] = NoEntry => firstResult'[h] = e
    BY <1>5 DEF TypeOK
  <1>8. /\ now \in Int /\ IdempotencyWindow \in Nat /\ firstResult[h].at \in Int
        /\ resultCache[h].at \in Int
    <2>1. firstResult[h] \in Entry /\ resultCache[h] \in Entry /\ now \in Nat
      BY DEF TypeOK
    <2> QED
      BY <2>1, WindowsAreDurations DEF Entry
  <1>9. firstResult[h] # NoEntry => firstResult[h].at + IdempotencyWindow < now /\ firstResult[h].at <= now
    <2>1. FirstStays(h)
      BY DEF RetryInv
    <2>2. CASE resultCache[h] = NoEntry
      BY <1>2, <2>1, <2>2 DEF FirstStays
    <2>3. CASE resultCache[h] # NoEntry
      <3>1. PrunedResults[h] = NoEntry
        BY <1>1, <2>3
      <3>2. Forgotten(resultCache[h].at)
        BY <2>3, <3>1 DEF PrunedResults
      <3>3. resultCache[h].at < now - IdempotencyWindow
        BY <3>2 DEF Forgotten
      <3> QED
        BY <1>2, <1>8, <2>1, <3>3 DEF FirstStays
    <2> QED
      BY <2>2, <2>3
  <1>10. FirstStays(h)'
    <2>1. CASE firstResult[h] = NoEntry
      <3>1. firstResult'[h] = e /\ resultCache'[h] = e
        BY <1>6, <1>7, <2>1
      <3> QED
        BY <1>2, <1>4, <1>8, <3>1 DEF FirstStays
    <2>2. CASE firstResult[h] # NoEntry
      <3>1. firstResult'[h] = firstResult[h]
        BY <1>7, <2>2
      <3> QED
        BY <1>2, <1>9, <2>2, <3>1 DEF FirstStays
    <2> QED
      BY <2>1, <2>2
  <1>11. ASSUME NEW k \in CacheKey, k # h
         PROVE  FirstStays(k)' /\ (resultCache'[k] # NoEntry => firstResult'[k] # NoEntry)
    <2>1. resultCache'[k] \in {resultCache[k], PrunedResults[k]} /\ firstResult'[k] = firstResult[k]
      BY <1>6, <1>7, <1>11
    <2>2. FirstStays(k) /\ (resultCache[k] # NoEntry => firstResult[k] # NoEntry)
      BY DEF RetryInv
    <2>3. FirstStays(k)'
      BY <1>8, <2>1, <2>2, FirstStaysWhen
    <2>4. resultCache'[k] # NoEntry => resultCache[k] # NoEntry
      BY <2>1 DEF PrunedResults
    <2> QED
      BY <2>1, <2>2, <2>3, <2>4
  <1>12. firstResult'[h] # NoEntry
    BY <1>4, <1>7
  <1>13. now <= firstResult'[h].at + IdempotencyWindow => firstResult'[h].result = result
    <2>1. CASE firstResult[h] = NoEntry
      BY <1>4, <1>7, <2>1
    <2>2. CASE firstResult[h] # NoEntry
      BY <1>7, <1>8, <1>9, <2>2
    <2> QED
      BY <2>1, <2>2
  <1> QED
    BY <1>1, <1>7, <1>10, <1>11, <1>12, <1>13

(* The answer that is given agrees with the first result; others keep.     *)
LEMMA AnswerSeesFirst ==
  ASSUME TypeOK, TypeOK', RetryInv, queue # <<>>, NEW result, Answer(holder, result),
         firstResult'[KeyOf(holder)] # NoEntry,
         now <= firstResult'[KeyOf(holder)].at + IdempotencyWindow =>
           firstResult'[KeyOf(holder)].result = result
  PROVE  /\ reply'.result # "none" => reply'.key \in CacheKey /\ firstResult'[reply'.key] # NoEntry
         /\ RetrySeesFirstResult'
  <1>1. reply'.key = KeyOf(holder) /\ reply'.at = now /\ reply'.result = result
    BY DEF Answer
  <1>2. KeyOf(holder) \in CacheKey
    BY RetryHolder
  <1> QED
    BY <1>1, <1>2 DEF RetrySeesFirstResult

LEMMA SameAnswer ==
  ASSUME TypeOK, RetryInv, reply' = reply,
         \A k \in CacheKey : firstResult[k] # NoEntry => firstResult'[k] = firstResult[k]
  PROVE  /\ reply'.result # "none" => reply'.key \in CacheKey /\ firstResult'[reply'.key] # NoEntry
         /\ RetrySeesFirstResult'
  <1>1. reply.result # "none" =>
          reply.key \in CacheKey /\ firstResult'[reply.key] = firstResult[reply.key]
          /\ firstResult[reply.key] # NoEntry
    BY DEF RetryInv
  <1> QED
    BY <1>1 DEF RetryInv, RetrySeesFirstResult

LEMMA QueueCreds ==
  ASSUME TypeOK, RetryInv, [Next]_vars
  PROVE  \A i \in 1 .. Len(queue') : queue'[i].cred \in issued'
  <1> USE DEF clockVars, sessionVars, cacheVars, answerVars, faultVars
  <1>0. queue \in Seq(Request) /\ \A i \in 1 .. Len(queue) : queue[i].cred \in issued
    BY DEF TypeOK, RetryInv
  <1>1. ASSUME NEW m \in Message, Deliver(m) PROVE \A i \in 1 .. Len(queue') : queue'[i].cred \in issued'
    <2>1. issued' = issued /\ sent[m].cred \in issued
      BY <1>1 DEF Deliver, TypeOK
    <2>2. PICK r : r.cred = sent[m].cred /\ queue' = Append(queue, r)
      BY <1>1 DEF Deliver
    <2> QED
      BY <1>0, <2>1, <2>2
  <1>2. ASSUME queue # <<>>, queue' = Tail(queue), issued' = issued
        PROVE  \A i \in 1 .. Len(queue') : queue'[i].cred \in issued'
    BY <1>0, <1>2
  <1>3. CASE Retry \/ Refuse \/ RefuseUnaudited
    BY <1>2, <1>3 DEF Retry, Refuse, RefuseUnaudited, Holding, CacheAndAudit, Answer
  <1>4. CASE Finish \/ FinishUnaudited
    BY <1>2, <1>4 DEF Finish, FinishUnaudited, Holding, CacheAndAudit, Answer
  <1>5. CASE Restart
    BY <1>5 DEF Restart
  <1>6. CASE \/ \E d \in Credential : Pair(d) \/ Expire(d)
             \/ \E m \in Message : Send(m)
             \/ Admit \/ Execute \/ Tick \/ StepClock \/ UNCHANGED vars
    <2>1. queue' = queue /\ issued \subseteq issued'
      BY <1>6 DEF Pair, Expire, Send, Admit, Execute, Tick, StepClock, vars
    <2> QED
      BY <1>0, <2>1
  <1> QED
    BY <1>1, <1>3, <1>4, <1>5, <1>6 DEF Next

(* A step that keeps the history, and keeps or prunes the cache.           *)
LEMMA CacheKept ==
  ASSUME TypeOK, TypeOK', RetryInv, [Next]_vars, firstResult' = firstResult,
         \A k \in CacheKey : resultCache'[k] \in {resultCache[k], PrunedResults[k]}
  PROVE  \A k \in CacheKey : FirstStays(k)' /\ (resultCache'[k] # NoEntry => firstResult'[k] # NoEntry)
  <1>1. now' >= now
    BY TimeAdvances
  <1>2. issued \subseteq issued'
    BY DEF Next, Pair, Expire, Send, Deliver, Retry, Refuse, RefuseUnaudited, Admit, Execute, Finish,
           FinishUnaudited, Restart, Tick, StepClock, vars, sessionVars
  <1>3. ASSUME NEW k \in CacheKey PROVE FirstStays(k)'
    BY <1>1, <1>2, GoneIsStable, FirstStaysWhen DEF RetryInv
  <1>4. ASSUME NEW k \in CacheKey, resultCache'[k] # NoEntry PROVE firstResult'[k] # NoEntry
    BY <1>4 DEF RetryInv, PrunedResults
  <1> QED
    BY <1>3, <1>4

LEMMA StepRetryInv ==
  ASSUME TypeOK, TypeOK', RetryInv, [Next]_vars PROVE RetryInv'
  <1> USE DEF clockVars, sessionVars, cacheVars, answerVars, faultVars
  <1> DEFINE Goal == /\ \A k \in CacheKey : FirstStays(k)' /\ (resultCache'[k] # NoEntry => firstResult'[k] # NoEntry)
                     /\ stage' # "check" => queue' # <<>> /\ resultCache'[KeyOf(holder)'] = NoEntry
                     /\ reply'.result # "none" => reply'.key \in CacheKey /\ firstResult'[reply'.key] # NoEntry
                     /\ RetrySeesFirstResult'
  <1>1. ASSUME Retry PROVE Goal
    <2>1. /\ queue # <<>> /\ stage' = "check" /\ firstResult' = firstResult /\ resultCache' = PrunedResults
          /\ PrunedResults[KeyOf(holder)] # NoEntry
          /\ Answer(holder, PrunedResults[KeyOf(holder)].result)
      BY <1>1 DEF Retry, Holding
    <2>2. PICK h \in CacheKey : h = KeyOf(holder)
      BY <2>1, RetryHolder
    <2>3. PrunedResults[h] = resultCache[h] /\ resultCache[h] # NoEntry
      BY <2>1, <2>2 DEF PrunedResults
    <2>4. firstResult[h] # NoEntry /\ FirstStays(h) /\ ~Gone(h[1])
      BY <2>1, <2>2, <2>3, RetryHolder DEF RetryInv
    <2>5. now <= firstResult[h].at + IdempotencyWindow => firstResult[h].result = PrunedResults[h].result
      <3>1. now \in Int /\ IdempotencyWindow \in Int /\ firstResult[h].at \in Int
        BY WindowsAreDurations DEF TypeOK, Entry
      <3> QED
        BY <2>3, <2>4, <3>1 DEF FirstStays
    <2>6. /\ reply'.result # "none" => reply'.key \in CacheKey /\ firstResult'[reply'.key] # NoEntry
          /\ RetrySeesFirstResult'
      BY <2>1, <2>2, <2>4, <2>5, AnswerSeesFirst
    <2>7. \A k \in CacheKey : FirstStays(k)' /\ (resultCache'[k] # NoEntry => firstResult'[k] # NoEntry)
      BY <2>1, CacheKept
    <2> QED
      BY <2>1, <2>6, <2>7
  <1>2. ASSUME NEW result \in Refusals, queue # <<>>, stage' = "check", now' = now,
               issued' = issued, PrunedResults[KeyOf(holder)] = NoEntry,
               CacheResult(holder, result, PrunedResults),
               Answer(holder, result) \/ reply' = reply
        PROVE  Goal
    <2>1. result \in Result /\ PrunedResults \in [CacheKey -> Entry]
      BY PruningTypes DEF Result
    <2>2. /\ \A k \in CacheKey : FirstStays(k)' /\ (resultCache'[k] # NoEntry => firstResult'[k] # NoEntry)
          /\ \A k \in CacheKey : firstResult[k] # NoEntry => firstResult'[k] = firstResult[k]
          /\ firstResult'[KeyOf(holder)] # NoEntry
          /\ now <= firstResult'[KeyOf(holder)].at + IdempotencyWindow =>
               firstResult'[KeyOf(holder)].result = result
      BY <1>2, <2>1, GoneIsStable, CachingKeepsFirst
    <2>3. /\ reply'.result # "none" => reply'.key \in CacheKey /\ firstResult'[reply'.key] # NoEntry
          /\ RetrySeesFirstResult'
      <3>1. CASE Answer(holder, result)
        BY <1>2, <2>1, <2>2, <3>1, AnswerSeesFirst
      <3>2. CASE reply' = reply
        BY <2>2, <3>2, SameAnswer
      <3> QED
        BY <1>2, <3>1, <3>2
    <2> QED
      BY <1>2, <2>2, <2>3
  <1>b. ASSUME Refuse \/ RefuseUnaudited PROVE Goal
    <2>1. PICK result \in Refusals :
            /\ CacheResult(holder, result, PrunedResults)
            /\ Answer(holder, result) \/ reply' = reply
      BY <1>b DEF Refuse, RefuseUnaudited, Refusals, CacheAndAudit
    <2>2. /\ queue # <<>> /\ stage' = "check" /\ now' = now /\ issued' = issued
          /\ PrunedResults[KeyOf(holder)] = NoEntry
      BY <1>b DEF Refuse, RefuseUnaudited, Holding
    <2> QED
      BY <1>2, <2>1, <2>2
  <1>3. ASSUME Admit PROVE Goal
    <2>1. /\ queue # <<>> /\ queue' = queue /\ firstResult' = firstResult /\ reply' = reply
          /\ resultCache' = PrunedResults /\ PrunedResults[KeyOf(holder)] = NoEntry
      BY <1>3 DEF Admit, Holding
    <2>2. \A k \in CacheKey : FirstStays(k)' /\ (resultCache'[k] # NoEntry => firstResult'[k] # NoEntry)
      BY <2>1, CacheKept
    <2>3. resultCache'[KeyOf(holder)'] = NoEntry
      BY <2>1 DEF KeyOf, holder
    <2>4. /\ reply'.result # "none" => reply'.key \in CacheKey /\ firstResult'[reply'.key] # NoEntry
          /\ RetrySeesFirstResult'
      BY <2>1, SameAnswer
    <2> QED
      BY <2>1, <2>2, <2>3, <2>4
  <1>4. ASSUME Finish \/ FinishUnaudited
        PROVE  /\ queue # <<>> /\ stage' = "check" /\ now' = now /\ issued' = issued
               /\ outcome \in Result /\ CacheResult(holder, outcome, resultCache)
               /\ \A k \in CacheKey : FirstStays(k)' /\ (resultCache'[k] # NoEntry => firstResult'[k] # NoEntry)
               /\ \A k \in CacheKey : firstResult[k] # NoEntry => firstResult'[k] = firstResult[k]
               /\ firstResult'[KeyOf(holder)] # NoEntry
               /\ now <= firstResult'[KeyOf(holder)].at + IdempotencyWindow =>
                    firstResult'[KeyOf(holder)].result = outcome
    <2>1. /\ queue # <<>> /\ stage = "finish" /\ stage' = "check" /\ now' = now /\ issued' = issued
          /\ CacheResult(holder, outcome, resultCache)
      BY <1>4 DEF Finish, FinishUnaudited, Holding, CacheAndAudit
    <2>2. outcome \in Result /\ resultCache \in [CacheKey -> Entry]
      BY <2>1 DEF TypeOK
    <2>3. resultCache[KeyOf(holder)] = NoEntry
      BY <2>1 DEF RetryInv
    <2> QED
      BY <2>1, <2>2, <2>3, GoneIsStable, CachingKeepsFirst
  <1>5. ASSUME Finish PROVE Goal
    <2>1. Answer(holder, outcome)
      BY <1>5 DEF Finish, CacheAndAudit
    <2> QED
      BY <1>4, <1>5, <2>1, AnswerSeesFirst
  <1>6. ASSUME FinishUnaudited PROVE Goal
    <2>1. reply' = reply
      BY <1>6 DEF FinishUnaudited
    <2> QED
      BY <1>4, <1>6, <2>1, SameAnswer
  <1>7. ASSUME Restart PROVE Goal
    <2>1. /\ stage' = "check" /\ firstResult' = firstResult /\ reply' = reply /\ issued' = issued
          /\ now' = now /\ sessions' = {} /\ queue' = <<>> /\ resultCache' = [k \in CacheKey |-> NoEntry]
      BY <1>7 DEF Restart
    <2>2. ASSUME NEW k \in CacheKey PROVE FirstStays(k)' /\ resultCache'[k] = NoEntry
      <3>1. firstResult[k] # NoEntry => k[1] \in issued /\ firstResult[k].at <= now
        BY DEF RetryInv, FirstStays
      <3>2. firstResult[k] # NoEntry => Gone(k[1])'
        BY <2>1, <3>1 DEF Gone
      <3> QED
        BY <2>1, <3>1, <3>2 DEF FirstStays
    <2>3. /\ reply'.result # "none" => reply'.key \in CacheKey /\ firstResult'[reply'.key] # NoEntry
          /\ RetrySeesFirstResult'
      BY <2>1, SameAnswer
    <2> QED
      BY <2>1, <2>2, <2>3
  <1>8. ASSUME \/ \E c \in Credential : Pair(c) \/ Expire(c)
               \/ \E m \in Message : Send(m) \/ Deliver(m)
               \/ Execute \/ Tick \/ StepClock \/ UNCHANGED vars
        PROVE  Goal
    <2>1. resultCache' = resultCache /\ firstResult' = firstResult /\ reply' = reply
      BY <1>8 DEF Pair, Expire, Send, Deliver, Execute, Tick, StepClock, vars
    <2>2. stage' # "check" => stage # "check"
      BY <1>8 DEF Pair, Expire, Send, Deliver, Execute, Holding, Tick, StepClock, vars
    <2>3. queue # <<>> => queue' # <<>> /\ Head(queue') = Head(queue)
      <3>1. ASSUME NEW m \in Message, Deliver(m), queue # <<>>
            PROVE  queue' # <<>> /\ Head(queue') = Head(queue)
        BY <3>1 DEF Deliver, TypeOK
      <3>2. (\E m \in Message : Deliver(m)) \/ queue' = queue
        BY <1>8 DEF Pair, Expire, Send, Execute, Tick, StepClock, vars
      <3> QED
        BY <3>1, <3>2
    <2>4. stage' # "check" => queue' # <<>> /\ resultCache'[KeyOf(holder)'] = NoEntry
      BY <2>1, <2>2, <2>3 DEF RetryInv, KeyOf, holder
    <2>5. \A k \in CacheKey : FirstStays(k)' /\ (resultCache'[k] # NoEntry => firstResult'[k] # NoEntry)
      BY <2>1, CacheKept
    <2>6. /\ reply'.result # "none" => reply'.key \in CacheKey /\ firstResult'[reply'.key] # NoEntry
          /\ RetrySeesFirstResult'
      BY <2>1, SameAnswer
    <2> QED
      BY <2>4, <2>5, <2>6
  <1>9. Goal
    BY <1>1, <1>b, <1>3, <1>5, <1>6, <1>7, <1>8 DEF Next
  <1> QED
    BY <1>9, QueueCreds DEF RetryInv

(* Whoever asks again within the window of a message's first result is     *)
(* told that result (_result_cache under _command_lock), for every window  *)
(* and across pruning, clock steps, failed audits and restarts.            *)
THEOREM RetriesSeeFirstResult == Spec => []RetrySeesFirstResult
  <1>1. Init => RetryInv
    BY DEF Init, RetryInv, FirstStays, RetrySeesFirstResult
  <1>2. RetryInv => RetrySeesFirstResult
    BY DEF RetryInv
  <1> QED
    BY <1>1, <1>2, InitTypes, StepTypes, StepRetryInv, PTL DEF Spec

LEMMA StepRowsAreOfSent ==
  ASSUME TypeOK, VerdictInv, RowsAreOfSent, [Next]_vars
  PROVE  RowsAreOfSent'
  <1> USE DEF clockVars, sessionVars, cacheVars, answerVars, faultVars
  <1>1. ASSUME NEW row \in audit
        PROVE  row.key[2] \in Message /\ SealedBy(row.key[2])' /\ sent'[row.key[2]].cred = row.key[1]
    <2>1. row.key[2] \in Message /\ SealedBy(row.key[2]) /\ sent[row.key[2]].cred = row.key[1]
      BY DEF TypeOK, CacheKey, RowsAreOfSent
    <2> QED
      BY <2>1, StepKeepsSealed DEF SealedBy
  <1>2. ASSUME queue # <<>>, sent' = sent, NEW result,
               audit' = audit \cup {[key |-> KeyOf(holder), result |-> result]}
        PROVE  RowsAreOfSent'
    <2>1. PICK new : new = [key |-> KeyOf(holder), result |-> result]
      OBVIOUS
    <2>2. new.key[1] = holder.cred /\ new.key[2] = holder.msg
      BY <2>1 DEF KeyOf
    <2>3. SealedBy(new.key[2])' /\ sent'[new.key[2]].cred = new.key[1]
      BY <1>2, <2>2, HolderIsSealed DEF SealedBy
    <2>4. audit' = audit \cup {new}
      BY <1>2, <2>1
    <2> QED
      BY <1>1, <2>3, <2>4 DEF RowsAreOfSent
  <1>3. ASSUME audit' = audit PROVE RowsAreOfSent'
    BY <1>1, <1>3 DEF RowsAreOfSent
  <1>4. CASE Refuse
    BY <1>2, <1>4 DEF Refuse, Holding, CacheAndAudit
  <1>5. CASE Finish
    BY <1>2, <1>5 DEF Finish, Holding, CacheAndAudit
  <1>6. CASE \/ \E c \in Credential : Pair(c) \/ Expire(c)
             \/ \E n \in Message : Send(n) \/ Deliver(n)
             \/ Retry \/ RefuseUnaudited \/ Admit \/ Execute \/ FinishUnaudited \/ Restart
             \/ Tick \/ StepClock \/ UNCHANGED vars
    <2>1. audit' = audit
      BY <1>6 DEF Pair, Expire, Send, Deliver, Retry, RefuseUnaudited, Admit, Execute,
                  FinishUnaudited, Restart, Tick, StepClock, vars
    <2> QED
      BY <1>3, <2>1
  <1> QED
    BY <1>4, <1>5, <1>6 DEF Next

(* A row claims the execution of its message and of no other.              *)
LEMMA RowClaims ==
  ASSUME NEW k, NEW key, NEW result, audit' = audit \cup {[key |-> key, result |-> result]}
  PROVE  (\E row \in audit' : row.key = k /\ row.result \in Executions)
         <=> (\E row \in audit : row.key = k /\ row.result \in Executions)
             \/ (key = k /\ result \in Executions)
  <1>1. PICK new : new = [key |-> key, result |-> result]
    OBVIOUS
  <1>2. audit' = audit \cup {new} /\ new.key = key /\ new.result = result
    BY <1>1
  <1> QED
    BY <1>2

(* The audit row of a message that runs is written at the end of its       *)
(* critical section, and refusals claim nothing.                           *)
LEMMA StepAudit ==
  ASSUME TypeOK, TypeOK', ReplayInv, VerdictInv, VerdictInv', RowsAreOfSent,
         AuditTellsTheTruth, [Next]_vars
  PROVE  AuditTellsTheTruth'
  <1> USE DEF clockVars, sessionVars, cacheVars, answerVars, faultVars
  <1> DEFINE Claimed(m) == \E row \in audit : row.key = <<sent[m].cred, m>> /\ row.result \in Executions
  <1> SUFFICES ASSUME restarts' = 0, auditFailures' = 0, NEW m \in Message, SealedBy(m)'
               PROVE  Claimed(m)' <=> executed'[m] > 0 /\ Settled(m)'
    BY DEF AuditTellsTheTruth
  <1>1. restarts = 0 /\ auditFailures = 0 /\ ~Restart /\ ~FinishUnaudited /\ ~RefuseUnaudited
    <2>1. restarts' = restarts + 1 \/ restarts' = restarts
      BY DEF Next, Pair, Expire, Send, Deliver, Retry, Refuse, RefuseUnaudited, Admit, Execute, Finish,
             FinishUnaudited, Restart, Tick, StepClock, vars
    <2>2. auditFailures' = auditFailures + 1 \/ auditFailures' = auditFailures
      BY DEF Next, Pair, Expire, Send, Deliver, Retry, Refuse, RefuseUnaudited, Admit, Execute, Finish,
             FinishUnaudited, Restart, Tick, StepClock, vars
    <2>3. restarts \in Nat /\ auditFailures \in Nat
      BY DEF TypeOK
    <2>4. restarts = 0 /\ auditFailures = 0
      BY <2>1, <2>2, <2>3
    <2> QED
      BY <2>4 DEF Restart, FinishUnaudited, RefuseUnaudited
  <1>2. \A n \in Message : SealedBy(n) => (Claimed(n) <=> executed[n] > 0 /\ Settled(n))
    BY <1>1 DEF AuditTellsTheTruth
  <1>3. ASSUME SealedBy(m), sent'[m] = sent[m], executed'[m] = executed[m], Settled(m)' <=> Settled(m),
               audit' = audit
        PROVE  Claimed(m)' <=> executed'[m] > 0 /\ Settled(m)'
    BY <1>2, <1>3
  <1>a. ASSUME NEW result, sent' = sent,
               audit' = audit \cup {[key |-> KeyOf(holder), result |-> result]}
        PROVE  Claimed(m)' <=> \/ Claimed(m)
                               \/ KeyOf(holder) = <<sent[m].cred, m>> /\ result \in Executions
    <2>1. PICK k : k = <<sent[m].cred, m>>
      OBVIOUS
    <2>2. PICK key : key = KeyOf(holder)
      OBVIOUS
    <2>3. audit' = audit \cup {[key |-> key, result |-> result]}
      BY <1>a, <2>2
    <2>4. (\E row \in audit' : row.key = k /\ row.result \in Executions)
          <=> (\E row \in audit : row.key = k /\ row.result \in Executions)
              \/ (key = k /\ result \in Executions)
      BY <2>3, RowClaims, Zenon
    <2> QED
      BY <1>a, <2>1, <2>2, <2>4
  <1>4. ASSUME NEW n \in Message, Send(n)
        PROVE  Claimed(m)' <=> executed'[m] > 0 /\ Settled(m)'
    <2>1. audit' = audit /\ executed' = executed /\ stage' = stage /\ queue' = queue
      BY <1>4 DEF Send
    <2>2. CASE SealedBy(m)
      <3>1. sent'[m] = sent[m] /\ (Settled(m)' <=> Settled(m))
        BY <2>1, <2>2, StepKeepsSealed DEF Settled, holder
      <3> QED
        BY <1>3, <2>1, <2>2, <3>1
    <2>3. CASE ~SealedBy(m)
      <3>1. executed[m] = 0
        BY <2>3 DEF ReplayInv
      <3>2. \A row \in audit : row.key[2] # m
        BY <2>3 DEF RowsAreOfSent
      <3> QED
        BY <2>1, <3>1, <3>2
    <2> QED
      BY <2>2, <2>3
  <1>5. ASSUME NEW n \in Message, Deliver(n)
        PROVE  Claimed(m)' <=> executed'[m] > 0 /\ Settled(m)'
    <2>1. /\ audit' = audit /\ executed' = executed /\ stage' = stage /\ sent' = sent
          /\ queue # <<>> => Head(queue') = Head(queue)
      BY <1>5 DEF Deliver, TypeOK
    <2>2. Settled(m)' <=> Settled(m)
      BY <2>1 DEF Settled, holder, ReplayInv
    <2> QED
      BY <1>3, <2>1, <2>2 DEF SealedBy
  <1>6. CASE \/ \E c \in Credential : Pair(c) \/ Expire(c)
             \/ Tick \/ StepClock \/ UNCHANGED vars
    <2>1. /\ audit' = audit /\ executed' = executed /\ stage' = stage /\ sent' = sent
          /\ queue' = queue
      BY <1>6 DEF Pair, Expire, Tick, StepClock, vars
    <2> QED
      BY <1>3, <2>1 DEF Settled, holder, SealedBy
  <1>7. CASE Retry
    <2>1. /\ audit' = audit /\ executed' = executed /\ stage = "check" /\ stage' = stage /\ sent' = sent
      BY <1>7 DEF Retry, Holding
    <2> QED
      BY <1>3, <2>1 DEF Settled, SealedBy
  <1>8. CASE Refuse
    <2>1. PICK result \in Refusals :
            audit' = audit \cup {[key |-> KeyOf(holder), result |-> result]}
      BY <1>8 DEF Refuse, CacheAndAudit, Refusals
    <2>2. executed' = executed /\ stage = "check" /\ stage' = stage /\ sent' = sent
      BY <1>8 DEF Refuse, Holding
    <2>3. result \notin Executions
      BY DEF Refusals, Executions
    <2>4. Claimed(m)' <=> Claimed(m)
      BY <1>a, <2>1, <2>2, <2>3
    <2> QED
      BY <1>2, <2>2, <2>4 DEF Settled, SealedBy
  <1>9. CASE Admit
    <2>1. /\ audit' = audit /\ executed' = executed /\ stage = "check" /\ sent' = sent
          /\ queue' = queue
          /\ stage' = "execute" \/ (stage' = "finish" /\ outcome' = "undecryptable")
      BY <1>9 DEF Admit, Holding
    <2>2. CASE stage' = "execute" \/ holder.msg # m
      BY <1>3, <2>1, <2>2 DEF Settled, SealedBy, holder
    <2>3. CASE stage' = "finish" /\ outcome' = "undecryptable" /\ holder.msg = m
      <3>1. ~(executed'[m] = 1)
        BY <2>1, <2>3 DEF VerdictInv, HolderIsOpen, Executions, holder
      <3>2. executed[m] = 0 \/ executed[m] = 1
        BY DEF ReplayInv
      <3>3. ~Claimed(m)
        BY <1>2, <2>1, <3>1, <3>2 DEF SealedBy
      <3> QED
        BY <2>1, <2>3, <3>1, <3>2, <3>3
    <2> QED
      BY <2>1, <2>2, <2>3
  <1>10. CASE Execute
    <2>1. /\ audit' = audit /\ stage = "execute" /\ stage' = "finish" /\ sent' = sent /\ queue' = queue
          /\ executed' = [executed EXCEPT ![holder.msg] = @ + 1]
      BY <1>10 DEF Execute, Holding
    <2>2. CASE holder.msg # m
      <3>1. executed'[m] = executed[m] /\ (Settled(m)' <=> Settled(m))
        BY <2>1, <2>2 DEF Settled, holder, TypeOK
      <3> QED
        BY <1>3, <2>1, <3>1 DEF SealedBy
    <2>3. CASE holder.msg = m
      <3>1. ~Settled(m)' /\ executed[m] = 0
        BY <2>1, <2>3 DEF Settled, holder, ReplayInv
      <3>2. ~Claimed(m)
        BY <1>2, <2>1, <3>1 DEF SealedBy
      <3> QED
        BY <2>1, <3>1, <3>2
    <2> QED
      BY <2>2, <2>3
  <1>11. CASE Finish
    <2>1. /\ queue # <<>> /\ stage = "finish" /\ stage' = "check" /\ sent' = sent /\ executed' = executed
          /\ audit' = audit \cup {[key |-> KeyOf(holder), result |-> outcome]}
      BY <1>11 DEF Finish, Holding, CacheAndAudit
    <2>2. Settled(m)'
      BY <2>1 DEF Settled
    <2>3. CASE holder.msg # m
      <3>1. KeyOf(holder) # <<sent[m].cred, m>> /\ Settled(m)
        BY <2>3 DEF KeyOf, Settled
      <3>2. Claimed(m)' <=> Claimed(m)
        BY <1>a, <2>1, <3>1
      <3> QED
        BY <1>2, <2>1, <2>2, <3>1, <3>2 DEF SealedBy
    <2>4. CASE holder.msg = m
      <3>1. KeyOf(holder) = <<sent[m].cred, m>>
        BY <2>1, <2>4, HolderIsSealed
      <3>2. ~Claimed(m)
        BY <1>2, <2>1, <2>4 DEF Settled, SealedBy
      <3>3. Claimed(m)' <=> outcome \in Executions
        BY <1>a, <2>1, <3>1, <3>2
      <3>4. outcome \in Executions <=> executed[m] = 1
        BY <2>1, <2>4 DEF VerdictInv, HolderIsOpen
      <3>5. executed[m] = 0 \/ executed[m] = 1
        BY DEF ReplayInv
      <3> QED
        BY <2>1, <2>2, <3>3, <3>4, <3>5
    <2> QED
      BY <2>3, <2>4
  <1> QED
    BY <1>1, <1>4, <1>5, <1>6, <1>7, <1>8, <1>9, <1>10, <1>11 DEF Next

(* The audit table says what ran, for every number of messages and every   *)
(* window: a row claims an execution exactly for the messages that ran and *)
(* whose critical section is over (_audit of process_command), as long as  *)
(* no restart and no failed write came between the two.                    *)
THEOREM AuditIsTruthful == Spec => []AuditTellsTheTruth
  <1>1. Init => AuditTellsTheTruth /\ RowsAreOfSent
    BY DEF Init, AuditTellsTheTruth, RowsAreOfSent, SealedBy
  <1> QED
    BY <1>1, InitTypes, StepTypes, InitReplayInv, StepReplayInv, InitVerdictInv,
       StepVerdictInv, StepRowsAreOfSent, StepAudit, PTL DEF Spec
=============================================================================
