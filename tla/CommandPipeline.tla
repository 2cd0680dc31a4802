--------------------------- MODULE CommandPipeline ---------------------------
(***************************************************************************)
(* The gateway's command path: GatewayService.process_command of           *)
(* VirtualGateway/devcontrol_gateway/service.py, the session check that    *)
(* precedes it (security.py, SessionRegistry) and what surrounds it:       *)
(* clients that seal envelopes, transports that deliver them late, twice   *)
(* or damaged, clocks that drift, audit writes that fail and a gateway     *)
(* process that restarts with empty memory.                                *)
(*                                                                         *)
(* One command holds the asyncio lock from its replay check to its audit   *)
(* row.  The event loop is free only while the worker thread executes, so  *)
(* the critical section is three steps: Admit (or a refusal), Execute (the *)
(* thread) and Finish.                                                     *)
(***************************************************************************)
EXTENDS Integers, Sequences

CONSTANTS
  Credential,         \* client credentials; pairing never issues one twice
  Message,            \* messageIds chosen by clients
  Nonce,              \* AES-GCM nonces chosen by clients
  TimestampWindow,    \* TIMESTAMP_WINDOW_MS, in ticks
  IdempotencyWindow,  \* IDEMPOTENCY_WINDOW_SECONDS, in ticks
  CredentialTtl,      \* credential_ttl_seconds, in ticks
  ClockStep,          \* how far time.time() may be from time.monotonic()
  ClientSkew,         \* how far a client's clock may be from the gateway's
  MaxTime, MaxQueue, MaxRestarts, MaxAuditFailures   \* bounds of the model

(* Windows are durations; nothing else is needed to run the gateway.       *)
ASSUME WindowsAreDurations ==
  /\ TimestampWindow \in Nat /\ IdempotencyWindow \in Nat
  /\ CredentialTtl \in Nat \ {0} /\ ClockStep \in Nat /\ ClientSkew \in Nat

(* An unsent message is no envelope of any session. *)
ASSUME NoCredentialIsNone == "none" \notin Credential

(* What makes forgetting safe: a nonce outlives every timestamp with which *)
(* its envelope could still be accepted, on a clock that may be stepped.   *)
(* The code has 300 s against 2 * 30 s.                                    *)
ASSUME WindowsOverlap ==
  IdempotencyWindow >= 2 * TimestampWindow + 2 * ClockStep

(* What makes a refusal final: a client's clock is not so far ahead that   *)
(* its envelope becomes acceptable after its refusal is forgotten (270 s). *)
ASSUME ClientsNotFarAhead ==
  IdempotencyWindow >= TimestampWindow + ClientSkew + 2 * ClockStep

VARIABLES
  now,            \* time.monotonic()
  offset,         \* time.time() - time.monotonic()
  issued,         \* credentials handed out by pair() since ever
  sessions,       \* keys of SessionRegistry._sessions
  expiresAt,      \* ClientSession.expires_at of every issued credential
  sent,           \* the envelope a client sealed for a messageId
  queue,          \* requests at _command_lock, the holder first
  stage,          \* how far the holder of the lock has come
  outcome,        \* result built for the holder, not yet cached
  nonceCache,     \* GatewayService._nonce_cache
  resultCache,    \* GatewayService._result_cache
  executed,       \* history: calls of DeviceRegistry.execute per message
  firstResult,    \* history: first result decided for a (session, message)
  reply,          \* the last answer given
  audit,          \* rows of the audit table
  restarts, auditFailures

clockVars   == <<now, offset>>
sessionVars == <<issued, sessions, expiresAt>>
cacheVars   == <<nonceCache, resultCache>>
answerVars  == <<firstResult, reply>>
faultVars   == <<restarts, auditFailures>>
vars == <<clockVars, sessionVars, sent, queue, stage, outcome, cacheVars,
          executed, answerVars, audit, faultVars>>

NotCached  == -1
Unsent     == [cred |-> "none", nonce |-> "none", ts |-> 0]
Executions == {"ok", "error"}
Refusals   == {"stale", "nonce reused", "undecryptable"}
Result     == Executions \cup Refusals

NonceKey == Credential \X Nonce
CacheKey == Credential \X Message
Sealed   == [cred : Credential, nonce : Nonce, ts : Int]
Request  == [cred : Credential, msg : Message, nonce : Nonce, ts : Int,
             intact : BOOLEAN]
Entry    == [at : Int, result : Result \cup {"none"}]
NoEntry  == [at |-> NotCached, result |-> "none"]

wall   == now + offset
holder == Head(queue)
KeyOf(r)    == <<r.cred, r.msg>>
NonceOf(r)  == <<r.cred, r.nonce>>
SealedBy(m) == sent[m] # Unsent

-----------------------------------------------------------------------------
(* Seeded fault: the caches forget after a timestamp window.               *)
ForgottenEarly(at) == at < now - TimestampWindow

(* _prune_security_windows: what is older than the window is forgotten.    *)
Forgotten(at) == at < now - IdempotencyWindow
PrunedNonces  ==
  [k \in NonceKey |-> IF Forgotten(nonceCache[k]) THEN NotCached ELSE nonceCache[k]]
PrunedResults ==
  [k \in CacheKey |-> IF Forgotten(resultCache[k].at) THEN NoEntry ELSE resultCache[k]]

(* abs(now_ms() - envelope.timestamp) <= TIMESTAMP_WINDOW_MS *)
Timely(ts) == wall - ts <= TimestampWindow /\ ts - wall <= TimestampWindow

(* AESGCM.decrypt under the session's key with canonical_aad: it succeeds  *)
(* only on the very bytes the client sealed in this session.               *)
Decrypts(r) ==
  r.intact /\ sent[r.msg] = [cred |-> r.cred, nonce |-> r.nonce, ts |-> r.ts]

(* The answer for the lock's holder; the lock goes to the next in line     *)
(* (asyncio.Lock is first in, first out).                                  *)
Answer(r, result) ==
  /\ reply' = [key |-> KeyOf(r), result |-> result, at |-> now]
  /\ queue' = Tail(queue)

(* Seeded fault: only executions are worth caching. *)
CacheOnlyExecutions(r, result, results) ==
  /\ resultCache' = IF result \in Executions
                    THEN [results EXCEPT ![KeyOf(r)] = [at |-> now, result |-> result]]
                    ELSE results
  /\ firstResult' = IF firstResult[KeyOf(r)] = NoEntry
                    THEN [firstResult EXCEPT ![KeyOf(r)] =
                            [at |-> now, result |-> result]]
                    ELSE firstResult

(* _cache_result, on what pruning left of the cache. *)
CacheResult(r, result, results) ==
  /\ resultCache' = [results EXCEPT ![KeyOf(r)] = [at |-> now, result |-> result]]
  /\ firstResult' = IF firstResult[KeyOf(r)] = NoEntry
                    THEN [firstResult EXCEPT ![KeyOf(r)] =
                            [at |-> now, result |-> result]]
                    ELSE firstResult

(* Seeded fault: refusals and results are cached but not audited. *)
CacheWithoutAudit(r, result, results) ==
  /\ CacheResult(r, result, results)
  /\ Answer(r, result)
  /\ UNCHANGED audit

CacheAndAudit(r, result, results) ==
  /\ CacheResult(r, result, results)
  /\ audit' = audit \cup {[key |-> KeyOf(r), result |-> result]}
  /\ Answer(r, result)

-----------------------------------------------------------------------------
Init ==
  /\ now = 0 /\ offset = 0
  /\ issued = {} /\ sessions = {} /\ expiresAt = [c \in Credential |-> 0]
  /\ sent = [m \in Message |-> Unsent]
  /\ queue = <<>> /\ stage = "check" /\ outcome = "none"
  /\ nonceCache = [k \in NonceKey |-> NotCached]
  /\ resultCache = [k \in CacheKey |-> NoEntry]
  /\ executed = [m \in Message |-> 0]
  /\ firstResult = [k \in CacheKey |-> NoEntry]
  /\ reply = [key |-> <<>>, result |-> "none", at |-> NotCached]
  /\ audit = {}
  /\ restarts = 0 /\ auditFailures = 0

(* SessionRegistry.pair, on success: a new random credential. *)
Pair(c) ==
  /\ c \notin issued
  /\ issued' = issued \cup {c}
  /\ sessions' = sessions \cup {c}
  /\ expiresAt' = [expiresAt EXCEPT ![c] = wall + CredentialTtl]
  /\ UNCHANGED <<clockVars, sent, queue, stage, outcome, cacheVars, executed,
                 answerVars, audit, faultVars>>

(* A client seals a command; its clock may be off and nothing prevents it  *)
(* from drawing a nonce again.                                             *)
Send(m) ==
  /\ ~SealedBy(m)
  /\ \E c \in issued, n \in Nonce, skew \in -ClientSkew .. ClientSkew :
        sent' = [sent EXCEPT ![m] = [cred |-> c, nonce |-> n, ts |-> wall + skew]]
  /\ UNCHANGED <<clockVars, sessionVars, queue, stage, outcome, cacheVars,
                 executed, answerVars, audit, faultVars>>

(* A transport hands a copy of a sealed envelope over, intact or not, any  *)
(* number of times (client retry, MQTT QoS 1 redelivery): authenticate()   *)
(* accepts its credential and the request queues for the lock.             *)
Deliver(m) ==
  /\ SealedBy(m)
  /\ Len(queue) < MaxQueue
  /\ sent[m].cred \in sessions
  /\ wall < expiresAt[sent[m].cred]
  /\ \E intact \in BOOLEAN :
        queue' = Append(queue, [cred |-> sent[m].cred, msg |-> m,
                                nonce |-> sent[m].nonce, ts |-> sent[m].ts,
                                intact |-> intact])
  /\ UNCHANGED <<clockVars, sessionVars, sent, stage, outcome, cacheVars,
                 executed, answerVars, audit, faultVars>>

(* authenticate() meets an expired session: revoke and AUTH_FAILED. *)
Expire(c) ==
  /\ c \in sessions
  /\ wall >= expiresAt[c]
  /\ sessions' = sessions \ {c}
  /\ UNCHANGED <<clockVars, issued, expiresAt, sent, queue, stage, outcome,
                 cacheVars, executed, answerVars, audit, faultVars>>

Holding(s) == queue # <<>> /\ stage = s

(* Seeded fault: the early return forgets to release the lock. *)
RetryKeepingTheLock ==
  /\ Holding("check")
  /\ PrunedResults[KeyOf(holder)] # NoEntry
  /\ reply' = [key |-> KeyOf(holder), at |-> now,
               result |-> PrunedResults[KeyOf(holder)].result]
  /\ nonceCache' = PrunedNonces
  /\ resultCache' = PrunedResults
  /\ UNCHANGED <<clockVars, sessionVars, sent, queue, stage, outcome, executed,
                 firstResult, audit, faultVars>>

(* A messageId answered within the window: the cached result, no audit. *)
Retry ==
  /\ Holding("check")
  /\ PrunedResults[KeyOf(holder)] # NoEntry
  /\ Answer(holder, PrunedResults[KeyOf(holder)].result)
  /\ nonceCache' = PrunedNonces
  /\ resultCache' = PrunedResults
  /\ UNCHANGED <<clockVars, sessionVars, sent, stage, outcome, executed,
                 firstResult, audit, faultVars>>

(* The two refusals before decryption are cached and audited like results. *)
Refuse ==
  /\ Holding("check")
  /\ PrunedResults[KeyOf(holder)] = NoEntry
  /\ \/ ~Timely(holder.ts) /\ CacheAndAudit(holder, "stale", PrunedResults)
     \/ /\ Timely(holder.ts)
        /\ PrunedNonces[NonceOf(holder)] # NotCached
        /\ CacheAndAudit(holder, "nonce reused", PrunedResults)
  /\ nonceCache' = PrunedNonces
  /\ UNCHANGED <<clockVars, sessionVars, sent, stage, outcome, executed, faultVars>>

(* record_audit raises for a refusal: it is cached, but never answered. *)
RefuseUnaudited ==
  /\ Holding("check")
  /\ PrunedResults[KeyOf(holder)] = NoEntry
  /\ auditFailures < MaxAuditFailures
  /\ auditFailures' = auditFailures + 1
  /\ \/ ~Timely(holder.ts) /\ CacheResult(holder, "stale", PrunedResults)
     \/ /\ Timely(holder.ts)
        /\ PrunedNonces[NonceOf(holder)] # NotCached
        /\ CacheResult(holder, "nonce reused", PrunedResults)
  /\ queue' = Tail(queue)
  /\ nonceCache' = PrunedNonces
  /\ UNCHANGED <<clockVars, sessionVars, sent, stage, outcome, executed, reply,
                 audit, restarts>>

(* The nonce is recorded before decryption, whether or not it succeeds. *)
Admit ==
  /\ Holding("check")
  /\ PrunedResults[KeyOf(holder)] = NoEntry
  /\ Timely(holder.ts)
  /\ PrunedNonces[NonceOf(holder)] = NotCached
  /\ nonceCache' = [PrunedNonces EXCEPT ![NonceOf(holder)] = now]
  /\ resultCache' = PrunedResults
  /\ IF Decrypts(holder)
     THEN stage' = "execute" /\ UNCHANGED outcome
     ELSE stage' = "finish" /\ outcome' = "undecryptable"
  /\ UNCHANGED <<clockVars, sessionVars, sent, queue, executed, answerVars,
                 audit, faultVars>>

(* DeviceRegistry.execute in the worker thread, the event loop running on. *)
Execute ==
  /\ Holding("execute")
  /\ executed' = [executed EXCEPT ![holder.msg] = @ + 1]
  /\ outcome' \in Executions
  /\ stage' = "finish"
  /\ UNCHANGED <<clockVars, sessionVars, sent, queue, cacheVars, answerVars,
                 audit, faultVars>>

(* Back on the event loop: cache, audit, answer, release. *)
Finish ==
  /\ Holding("finish")
  /\ CacheAndAudit(holder, outcome, resultCache)
  /\ stage' = "check" /\ outcome' = "none"
  /\ UNCHANGED <<clockVars, sessionVars, sent, nonceCache, executed, faultVars>>

(* record_audit raises (a locked or full database): the result is cached,  *)
(* the lock released, the client gets no answer.                           *)
FinishUnaudited ==
  /\ Holding("finish")
  /\ auditFailures < MaxAuditFailures
  /\ auditFailures' = auditFailures + 1
  /\ CacheResult(holder, outcome, resultCache)
  /\ queue' = Tail(queue)
  /\ stage' = "check" /\ outcome' = "none"
  /\ UNCHANGED <<clockVars, sessionVars, sent, nonceCache, executed, reply,
                 audit, restarts>>

(* The process restarts: sessions, caches and waiting requests are gone,   *)
(* the audit table stays.                                                  *)
Restart ==
  /\ restarts < MaxRestarts
  /\ restarts' = restarts + 1
  /\ sessions' = {}
  /\ queue' = <<>> /\ stage' = "check" /\ outcome' = "none"
  /\ nonceCache' = [k \in NonceKey |-> NotCached]
  /\ resultCache' = [k \in CacheKey |-> NoEntry]
  /\ UNCHANGED <<clockVars, issued, expiresAt, sent, executed, answerVars,
                 audit, auditFailures>>

Tick ==
  /\ now < MaxTime
  /\ now' = now + 1
  /\ UNCHANGED <<offset, sessionVars, sent, queue, stage, outcome, cacheVars,
                 executed, answerVars, audit, faultVars>>

(* The wall clock is stepped (NTP, a user), never beyond ClockStep. *)
StepClock ==
  /\ \E o \in -ClockStep .. ClockStep : o # offset /\ offset' = o
  /\ UNCHANGED <<now, sessionVars, sent, queue, stage, outcome, cacheVars,
                 executed, answerVars, audit, faultVars>>

Next ==
  \/ \E c \in Credential : Pair(c) \/ Expire(c)
  \/ \E m \in Message : Send(m) \/ Deliver(m)
  \/ Retry \/ Refuse \/ RefuseUnaudited \/ Admit \/ Execute
  \/ Finish \/ FinishUnaudited
  \/ Restart \/ Tick \/ StepClock

Spec == Init /\ [][Next]_vars

(* The event loop runs what is ready and the worker thread returns: driver *)
(* calls are finite and a command delay is at most five seconds.           *)
FairSpec ==
  Spec /\ WF_vars(Retry \/ Refuse \/ Admit) /\ WF_vars(Execute) /\ WF_vars(Finish)

-----------------------------------------------------------------------------
TypeOK ==
  /\ now \in Nat /\ offset \in -ClockStep .. ClockStep
  /\ issued \subseteq Credential /\ sessions \subseteq issued
  /\ expiresAt \in [Credential -> Int]
  /\ sent \in [Message -> Sealed \cup {Unsent}]
  /\ queue \in Seq(Request)
  /\ stage \in {"check", "execute", "finish"}
  /\ outcome \in IF stage = "finish" THEN Result ELSE {"none"}
  /\ nonceCache \in [NonceKey -> Nat \cup {NotCached}]
  /\ resultCache \in [CacheKey -> Entry]
  /\ executed \in [Message -> Nat]
  /\ firstResult \in [CacheKey -> Entry]
  /\ reply \in [key : CacheKey \cup {<<>>}, result : Result \cup {"none"}, at : Int]
  /\ audit \subseteq [key : CacheKey, result : Result]
  /\ restarts \in Nat /\ auditFailures \in Nat

(* A command reaches the devices at most once, however often it is         *)
(* delivered, across pruned caches, stepped clocks, failed audits and      *)
(* restarts (process_command).                                             *)
AtMostOnce == \A m \in Message : executed[m] <= 1

(* Why: a message that ran stays unacceptable.  Its nonce is remembered    *)
(* with a time that its timestamp cannot exceed by more than a window and  *)
(* a clock step, or its timestamp is out of the window for good, or its    *)
(* session died with the process and no request of it is left.             *)
PermanentlyStale(ts) == now - ClockStep - ts > TimestampWindow
Remembered(m) ==
  LET at == nonceCache[<<sent[m].cred, sent[m].nonce>>]
  IN  at # NotCached /\ sent[m].ts <= at + ClockStep + TimestampWindow
Gone(c) ==
  /\ c \in issued /\ c \notin sessions
  /\ \A i \in 1 .. Len(queue) : queue[i].cred # c
Unacceptable(m) ==
  Remembered(m) \/ PermanentlyStale(sent[m].ts) \/ Gone(sent[m].cred)

(* What has run cannot be accepted again, and what the worker thread is    *)
(* about to run has not run (the nonce check under the lock).              *)
ReplayInv ==
  /\ stage # "check" => queue # <<>>
  /\ \A m \in Message : SealedBy(m) => sent[m].cred \in issued
  /\ stage = "execute" =>
       Decrypts(holder) /\ executed[holder.msg] = 0 /\ Remembered(holder.msg)
  /\ \A m \in Message : executed[m] # 0 =>
       executed[m] = 1 /\ SealedBy(m) /\ Unacceptable(m)

(* Whoever asks within the idempotency window of a message's first result  *)
(* is told that result, be it a refusal and even if the first answer never *)
(* left the gateway (_result_cache).                                       *)
RetrySeesFirstResult ==
  reply.result # "none" =>
    LET first == firstResult[reply.key]
    IN  reply.at <= first.at + IdempotencyWindow => reply.result = first.result

(* Why: the first result stays cached until its window is over, or its     *)
(* session died with the process; and whoever holds the lock past its      *)
(* replay check found nothing cached.                                      *)
FirstStays(k) ==
  LET first == firstResult[k]  cached == resultCache[k] IN
    first # NoEntry =>
      /\ k[1] \in issued /\ first.at <= now
      /\ \/ Gone(k[1])
         \/ first.at + IdempotencyWindow < now
         \/ cached # NoEntry /\ cached.at >= first.at /\ cached.result = first.result
RetryInv ==
  /\ \A i \in 1 .. Len(queue) : queue[i].cred \in issued
  /\ \A k \in CacheKey : FirstStays(k) /\ (resultCache[k] # NoEntry => firstResult[k] # NoEntry)
  /\ stage # "check" => queue # <<>> /\ resultCache[KeyOf(holder)] = NoEntry
  /\ reply.result # "none" => reply.key \in CacheKey /\ firstResult[reply.key] # NoEntry
  /\ RetrySeesFirstResult

(* The verdict on a message, as the gateway first decided it. *)
FirstOf(m) == firstResult[<<sent[m].cred, m>>]
Verdict(m) ==
  IF ~SealedBy(m) \/ FirstOf(m) = NoEntry THEN "open"
  ELSE IF FirstOf(m).result \in Executions THEN "ran" ELSE "refused"

Contract == INSTANCE CommandContract WITH
  runs <- executed, verdict <- [m \in Message |-> Verdict(m)]

(* The command path implements the contract: the first result decided for  *)
(* a message says whether it ran, and a message once refused never runs,   *)
(* because its envelope is stale before its refusal is forgotten.          *)
ImplementsContract == Contract!Spec

(* Why: what has been decided is in the result cache, with a time that no  *)
(* client's timestamp exceeds by more than its skew and a clock step, or   *)
(* it is stale for good, or its session is gone; and only the holder of    *)
(* the lock, or a victim of a restart, can have run without a verdict.     *)
Concluded(m) ==
  LET at == resultCache[<<sent[m].cred, m>>].at
  IN  \/ /\ resultCache[<<sent[m].cred, m>>] # NoEntry
         /\ sent[m].ts <= at + ClockStep + ClientSkew
      \/ PermanentlyStale(sent[m].ts)
      \/ Gone(sent[m].cred)
Settled(m) == ~(stage = "finish" /\ holder.msg = m)
QueueIsSealed ==
  \A i \in 1 .. Len(queue) : LET r == queue[i] IN
    SealedBy(r.msg) /\ sent[r.msg] = [cred |-> r.cred, nonce |-> r.nonce, ts |-> r.ts]
SkewIsBounded ==
  \A m \in Message : SealedBy(m) => sent[m].ts <= now + ClockStep + ClientSkew
VerdictsAreOfSent ==
  \A c \in Credential, m \in Message :
    firstResult[<<c, m>>] # NoEntry => SealedBy(m) /\ sent[m].cred = c
DecidedIsConcluded == \A m \in Message : Verdict(m) # "open" => Concluded(m)
VerdictsAreTrue ==
  \A m \in Message : Verdict(m) # "open" => (executed[m] = 1 <=> Verdict(m) = "ran")
RanIsDecided ==
  \A m \in Message : executed[m] = 1 /\ Verdict(m) = "open" =>
    ~Settled(m) \/ Gone(sent[m].cred)
HolderIsOpen ==
  /\ stage # "check" => Verdict(holder.msg) = "open"
  /\ stage = "finish" => (executed[holder.msg] = 1 <=> outcome \in Executions)
VerdictInv ==
  /\ QueueIsSealed /\ SkewIsBounded /\ VerdictsAreOfSent /\ DecidedIsConcluded
  /\ VerdictsAreTrue /\ RanIsDecided /\ HolderIsOpen

(* The audit table says what happened: a row claims an execution only for  *)
(* a message that ran, and a message that ran has its row once its result  *)
(* is cached (_audit after execute, under one lock); a restart or a failed *)
(* write between the two is exempt.                                        *)
AuditTellsTheTruth ==
  restarts = 0 /\ auditFailures = 0 =>
  \A m \in Message : SealedBy(m) =>
    (\E row \in audit : row.key = <<sent[m].cred, m>> /\ row.result \in Executions)
      <=> (executed[m] > 0 /\ Settled(m))

(* Why: rows are of messages that were sealed.                             *)
RowsAreOfSent == \A row \in audit : SealedBy(row.key[2]) /\ sent[row.key[2]].cred = row.key[1]

(* Every request that queued for the lock is answered: the lock is handed  *)
(* on in order and its holder always releases it, unless the gateway ends. *)
Waiting(k)  == \E i \in 1 .. Len(queue) : KeyOf(queue[i]) = k
EveryRequestAnswered ==
  \A k \in CacheKey : Waiting(k) ~> firstResult[k] # NoEntry \/ restarts > 0
=============================================================================
