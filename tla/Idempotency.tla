---------------------------- MODULE Idempotency ----------------------------
(***************************************************************************)
(* IdempotencyInterceptor and the Redis keys it uses (through              *)
(* AppCacheService.get, set and setIfNotExists).                           *)
(*                                                                         *)
(* Several calls with the same Idempotency-Key arrive at any moment, on    *)
(* any instance of the API; Redis is shared by all of them.  Each action   *)
(* is one Redis command, or the handler taking effect, or the handler      *)
(* failing.  Time is counted by what is left of each key's TTL and by how  *)
(* long each handler has been running, so the model needs no bound on the  *)
(* clock.  A call without the header passes through and touches nothing    *)
(* here; a blank one is a 400 that touches nothing either.                 *)
(***************************************************************************)
EXTENDS Naturals

CONSTANTS
    Attempts,    \* calls that carry an Idempotency-Key, each made once
    Keys,        \* the keys
    LockTtl,     \* LOCK_TTL_SECONDS
    ResultTtl,   \* RESULT_TTL_SECONDS
    MaxInFlight, \* longest time from the claim of a key to the end of the call
                 \* (bound; the interceptor sets no timeout on the handler)
    RedisFails,  \* whether a Redis command, or the process, may fail
    Sentinel,    \* LOCK_SENTINEL
    None         \* no value; not yet answered

ASSUME TtlAssumption ==
    /\ LockTtl \in Nat \ {0} /\ ResultTtl \in Nat \ {0} /\ MaxInFlight \in Nat
ASSUME ValueAssumption ==
    /\ Sentinel \notin Attempts /\ None \notin Attempts /\ Sentinel # None
    /\ None \notin Keys /\ RedisFails \in BOOLEAN

VARIABLES
    redis,    \* redis[k]: value and remaining TTL of idempotency:k
    call,     \* call[a]: state of the call a
    ran,      \* the calls whose handler took effect
    expired   \* history: the calls whose stored result reached its TTL

vars == <<redis, call, ran, expired>>
-----------------------------------------------------------------------------
Absent == [val |-> None, ttl |-> 0]

\* The calls whose handler is running or whose result is being stored.
InHandler(a) == call[a].pc \in {"handling", "storing"}

Init ==
    /\ redis = [k \in Keys |-> Absent]
    /\ call = [a \in Attempts |-> [pc |-> "new", key |-> None, age |-> 0,
                                   result |-> None]]
    /\ ran = {}
    /\ expired = {}

\* The mutant looks under a key of another request.
Get_AnyKey(a, k) ==
    /\ call[a].pc = "new"
    /\ \E j \in Keys :
         \/ /\ redis[j].val \in Attempts
            /\ call' = [call EXCEPT ![a].pc = "replied", ![a].key = k,
                                    ![a].result = redis[j].val]
         \/ /\ redis[j].val = Sentinel
            /\ call' = [call EXCEPT ![a].pc = "conflict", ![a].key = k]
         \/ /\ redis[j].val = None \/ RedisFails
            /\ call' = [call EXCEPT ![a].pc = "claim", ![a].key = k]
    /\ UNCHANGED <<redis, ran, expired>>

\* claimOrReplay, first command: cache.get.  A result is replayed, the sentinel
\* is a 409, no value (which is what cache.get also answers when Redis fails)
\* leads to the claim.
Get(a, k) ==
    /\ call[a].pc = "new"
    /\ \/ /\ redis[k].val \in Attempts
          /\ call' = [call EXCEPT ![a].pc = "replied", ![a].key = k,
                                  ![a].result = redis[k].val]
       \/ /\ redis[k].val = Sentinel
          /\ call' = [call EXCEPT ![a].pc = "conflict", ![a].key = k]
       \/ /\ redis[k].val = None \/ RedisFails
          /\ call' = [call EXCEPT ![a].pc = "claim", ![a].key = k]
    /\ UNCHANGED <<redis, ran, expired>>

Lock == [val |-> Sentinel, ttl |-> LockTtl]

\* claimOrReplay, second command: SET key sentinel EX LockTtl NX.  The mutants:
\* a SET without NX, and one that only a lock refuses.
Claim_NoNX(a) ==
    /\ call[a].pc = "claim"
    /\ redis' = [redis EXCEPT ![call[a].key] = Lock]
    /\ call' = [call EXCEPT ![a].pc = "handling"]
    /\ UNCHANGED <<ran, expired>>
Claim_OverResult(a) ==
    /\ call[a].pc = "claim"
    /\ redis[call[a].key].val # Sentinel
    /\ redis' = [redis EXCEPT ![call[a].key] = Lock]
    /\ call' = [call EXCEPT ![a].pc = "handling"]
    /\ UNCHANGED <<ran, expired>>
Claim(a) ==
    /\ call[a].pc = "claim"
    /\ LET k == call[a].key IN
       IF redis[k].val = None
       THEN /\ redis' = [redis EXCEPT ![k] = Lock]
            /\ call' = [call EXCEPT ![a].pc = "handling"]
       ELSE /\ call' = [call EXCEPT ![a].pc = "conflict"]
            /\ UNCHANGED redis
    /\ UNCHANGED <<ran, expired>>

\* The connection is lost before SET NX is answered.  ioredis sends the command
\* again and the key its own first attempt has set refuses it: a 409, with a
\* lock nobody holds.
ClaimResent(a) ==
    /\ RedisFails
    /\ call[a].pc = "claim" /\ redis[call[a].key].val = None
    /\ redis' = [redis EXCEPT ![call[a].key] = Lock]
    /\ call' = [call EXCEPT ![a].pc = "conflict"]
    /\ UNCHANGED <<ran, expired>>

\* next.handle(): the handler takes effect (its transaction commits).
Commit(a) ==
    /\ call[a].pc = "handling"
    /\ ran' = ran \cup {a}
    /\ call' = [call EXCEPT ![a].pc = "storing"]
    /\ UNCHANGED <<redis, expired>>

\* next.handle() fails without effect: a validation error, a 409 of the
\* handler's own, a rolled back transaction.  Nobody deletes the lock.
Throw(a) ==
    /\ call[a].pc = "handling"
    /\ call' = [call EXCEPT ![a].pc = "failed", ![a].age = 0]
    /\ UNCHANGED <<redis, ran, expired>>

\* cache.set(redisKey, result, RESULT_TTL_SECONDS), then the answer.  The
\* mutant releases the key where the result should be stored.
Store_Release(a) ==
    /\ call[a].pc = "storing"
    /\ redis' = [redis EXCEPT ![call[a].key] = Absent]
    /\ call' = [call EXCEPT ![a].pc = "replied", ![a].age = 0, ![a].result = a]
    /\ UNCHANGED <<ran, expired>>
Store(a) ==
    /\ call[a].pc = "storing"
    /\ redis' = [redis EXCEPT ![call[a].key] = [val |-> a, ttl |-> ResultTtl]]
    /\ call' = [call EXCEPT ![a].pc = "replied", ![a].age = 0, ![a].result = a]
    /\ UNCHANGED <<ran, expired>>

\* The result is stored but the process stops, or the connection is gone for
\* good, before the call is answered.
StoreUnanswered(a) ==
    /\ RedisFails
    /\ call[a].pc = "storing"
    /\ redis' = [redis EXCEPT ![call[a].key] = [val |-> a, ttl |-> ResultTtl]]
    /\ call' = [call EXCEPT ![a].pc = "failed", ![a].age = 0]
    /\ UNCHANGED <<ran, expired>>

\* A Redis command fails (it is a 500, except in cache.get) or the process
\* stops; what was done stays done.
Fail(a) ==
    /\ RedisFails
    /\ call[a].pc \in {"claim", "handling", "storing"}
    /\ call' = [call EXCEPT ![a].pc = "failed", ![a].age = 0]
    /\ UNCHANGED <<redis, ran, expired>>

\* One second passes: TTLs run down, Redis drops a key whose TTL is over.  (The
\* mutant: a lock set without a TTL.)
Elapse_LockForever(e) ==
    IF e.val = Sentinel THEN e ELSE IF e.ttl > 1 THEN [e EXCEPT !.ttl = @ - 1] ELSE Absent
Elapse(e) == IF e.ttl > 1 THEN [e EXCEPT !.ttl = @ - 1] ELSE Absent

Tick ==
    /\ \A a \in Attempts : InHandler(a) => call[a].age < MaxInFlight
    /\ redis' = [k \in Keys |-> Elapse(redis[k])]
    /\ call' = [a \in Attempts |->
                  IF InHandler(a) THEN [call[a] EXCEPT !.age = @ + 1] ELSE call[a]]
    /\ expired' = expired \cup {a \in Attempts :
                     \E k \in Keys : redis[k] = [val |-> a, ttl |-> 1]}
    /\ UNCHANGED ran

Next ==
    \/ Tick
    \/ \E a \in Attempts :
         \/ \E k \in Keys : Get(a, k)
         \/ Claim(a) \/ ClaimResent(a)
         \/ Commit(a) \/ Throw(a)
         \/ Store(a) \/ StoreUnanswered(a)
         \/ Fail(a)

Spec == Init /\ [][Next]_vars

\* Clocks run, and a handler that runs comes to an end.
Fairness ==
    /\ WF_vars(Tick)
    /\ \A a \in Attempts : WF_vars(Commit(a) \/ Throw(a)) /\ WF_vars(Store(a))

FairSpec == Spec /\ Fairness
-----------------------------------------------------------------------------
Status == {"new", "claim", "handling", "storing", "replied", "conflict", "failed"}

TypeOK ==
    /\ redis \in [Keys -> [val : Attempts \cup {Sentinel, None}, ttl : Nat]]
    /\ call \in [Attempts -> [pc : Status, key : Keys \cup {None},
                              age : 0..MaxInFlight, result : Attempts \cup {None}]]
    /\ ran \subseteq Attempts
    /\ expired \subseteq Attempts

\* The lock is a lock: no two handlers run for one key at the same time,
\* however the GETs and SET NXs of the calls interleave.  It needs handlers
\* that end before the lock's TTL (MaxInFlight < LockTtl).
Exclusive ==
    \A a, b \in Attempts :
        InHandler(a) /\ InHandler(b) /\ call[a].key = call[b].key => a = b

\* Of two calls with one key that both took effect and stored their result,
\* one was over, its result gone after its full TTL, before the other ran.
RepeatedOnlyAfterExpiry ==
    \A a, b \in ran :
        /\ a # b /\ call[a].key = call[b].key
        /\ call[a].pc = "replied" /\ call[b].pc = "replied"
        => a \in expired \/ b \in expired

\* A replayed answer is the result of a call with the same key that really
\* took effect: never the sentinel, never the result of another key.
ReplayFaithful ==
    \A a \in Attempts : call[a].pc = "replied" =>
        call[a].result \in ran /\ call[call[a].result].key = call[a].key

\* A key is never locked for good: with clocks that run, the lock of a handler
\* that failed, or of a process that died, goes away.
KeyFreed == \A k \in Keys : redis[k].val = Sentinel ~> redis[k].val # Sentinel

\* The execution a key remembers: the one being stored, or the one stored.
StoringFor(k) == {a \in Attempts : call[a].pc = "storing" /\ call[a].key = k}
Memory ==
    [k \in Keys |->
       IF StoringFor(k) # {} THEN CHOOSE a \in StoringFor(k) : TRUE
       ELSE IF redis[k].val \in Attempts THEN redis[k].val ELSE None]

Promise == INSTANCE AtMostOnce WITH
    memory <- Memory, executed <- ran, given <- [a \in Attempts |-> call[a].result],
    over <- expired

\* The interceptor keeps the promise of an idempotency key, failing Redis
\* commands included, for handlers that end before the lock's TTL.
KeepsPromise == Promise!Spec
=============================================================================
