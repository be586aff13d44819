------------------------- MODULE IdempotencyProofs -------------------------
(***************************************************************************)
(* Theorems about Idempotency, for every set of calls and keys and every   *)
(* pair of TTLs, and about IdempotentPosts, its composition with           *)
(* Registration.  Those that need handlers that end before the lock's TTL  *)
(* say so with the hypothesis Timely.                                      *)
(***************************************************************************)
EXTENDS IdempotentPosts, TLAPS

Timely == MaxInFlight < LockTtl

Values == Attempts \cup {Sentinel, None}
CallType == [pc : Status, key : Keys \cup {None}, age : 0..MaxInFlight,
             result : Attempts \cup {None}]

(***************************************************************************)
(* What needs no hypothesis: types, and where results come from.           *)
(***************************************************************************)
Sources ==
    /\ \A k \in Keys : redis[k].val \in Attempts =>
         redis[k].val \in ran /\ call[redis[k].val].key = k
    /\ \A a \in Attempts :
         /\ call[a].pc # "new" => call[a].key \in Keys
         /\ call[a].pc \in {"new", "claim", "handling"} => a \notin ran
         /\ call[a].pc = "storing" => a \in ran
         /\ call[a].pc = "replied" =>
              call[a].result \in ran /\ call[call[a].result].key = call[a].key

SInv == TypeOK /\ Sources

LEMMA ElapseType ==
    ASSUME NEW e \in [val : Values, ttl : Nat]
    PROVE  /\ Elapse(e) \in [val : Values, ttl : Nat]
           /\ Elapse(e).val \in {e.val, None}
  BY DEF Elapse, Absent, Values

LEMMA SInvInit == Init => SInv
  BY TtlAssumption, ValueAssumption
  DEF Init, SInv, TypeOK, Sources, Absent, Status

LEMMA SInvNext == SInv /\ [Next]_vars => SInv'
  <1> SUFFICES ASSUME SInv, [Next]_vars PROVE SInv'
    OBVIOUS
  <1> USE TtlAssumption, ValueAssumption DEF SInv
  <1>1. CASE UNCHANGED vars
    BY <1>1 DEF vars, TypeOK, Sources
  <1>2. CASE Tick
    <2>1. redis' \in [Keys -> [val : Values, ttl : Nat]]
      BY <1>2, ElapseType DEF Tick, TypeOK, Values
    <2>2. call' \in [Attempts -> CallType]
      <3> SUFFICES ASSUME NEW a \in Attempts PROVE call'[a] \in CallType
        BY <1>2 DEF Tick
      <3>1. CASE InHandler(a)
        BY <1>2, <3>1 DEF Tick, TypeOK, CallType
      <3>2. CASE ~InHandler(a)
        BY <1>2, <3>2 DEF Tick, TypeOK, CallType
      <3> QED
        BY <3>1, <3>2
    <2>3. \A a \in Attempts : /\ call'[a].pc = call[a].pc /\ call'[a].key = call[a].key
                              /\ call'[a].result = call[a].result
      BY <1>2 DEF Tick, TypeOK
    <2>4. \A k \in Keys : redis'[k].val \in {redis[k].val, None}
      BY <1>2, ElapseType DEF Tick, TypeOK, Values
    <2>5. TypeOK'
      BY <1>2, <2>1, <2>2 DEF Tick, TypeOK, Values, CallType
    <2>6. Sources'
      BY <1>2, <2>3, <2>4 DEF Tick, TypeOK, Sources
    <2> QED
      BY <2>5, <2>6
  <1>3. ASSUME NEW a \in Attempts, NEW k \in Keys, Get(a, k) PROVE SInv'
    <2>1. redis' = redis /\ ran' = ran /\ expired' = expired
      BY <1>3 DEF Get
    <2>2. CASE redis[k].val \in Attempts
               /\ call' = [call EXCEPT ![a].pc = "replied", ![a].key = k,
                                       ![a].result = redis[k].val]
      BY <1>3, <2>1, <2>2 DEF Get, TypeOK, Sources, Status
    <2>3. CASE call' = [call EXCEPT ![a].pc = "conflict", ![a].key = k]
      BY <1>3, <2>1, <2>3 DEF Get, TypeOK, Sources, Status
    <2>4. CASE call' = [call EXCEPT ![a].pc = "claim", ![a].key = k]
      BY <1>3, <2>1, <2>4 DEF Get, TypeOK, Sources, Status
    <2> QED
      BY <1>3, <2>2, <2>3, <2>4 DEF Get
  <1>4. ASSUME NEW a \in Attempts, Claim(a) \/ ClaimResent(a) PROVE SInv'
    <2>1. PICK s \in {"handling", "conflict"} :
            /\ call' = [call EXCEPT ![a].pc = s]
            /\ redis' = redis \/ redis' = [redis EXCEPT ![call[a].key] = Lock]
            /\ call[a].pc = "claim" /\ ran' = ran /\ expired' = expired
      BY <1>4 DEF Claim, ClaimResent
    <2>2. TypeOK'
      BY <2>1 DEF TypeOK, Status, Lock
    <2>3. Sources'
      BY <2>1 DEF TypeOK, Sources, Status, Lock
    <2> QED
      BY <2>2, <2>3
  <1>5. ASSUME NEW a \in Attempts, Commit(a) PROVE SInv'
    BY <1>5 DEF Commit, TypeOK, Sources, Status
  <1>6. ASSUME NEW a \in Attempts, Throw(a) \/ Fail(a) PROVE SInv'
    <2>1. /\ call' = [call EXCEPT ![a].pc = "failed", ![a].age = 0]
          /\ call[a].pc \in {"claim", "handling", "storing"}
          /\ UNCHANGED <<redis, ran, expired>>
      BY <1>6 DEF Throw, Fail
    <2>2. TypeOK'
      <3>1. \A x \in CallType : [x EXCEPT !.pc = "failed", !.age = 0] \in CallType
        <4>1. 0 \in 0..MaxInFlight /\ "failed" \in Status
          BY DEF Status
        <4> QED
          BY <4>1 DEF CallType
      <3>2. call' \in [Attempts -> CallType]
        BY <2>1, <3>1 DEF TypeOK, CallType
      <3> QED
        BY <2>1, <3>2 DEF TypeOK, CallType
    <2>3. \A b \in Attempts :
            /\ call'[b].key = call[b].key /\ call'[b].result = call[b].result
            /\ IF b = a THEN call'[b].pc = "failed" ELSE call'[b].pc = call[b].pc
      BY <2>1 DEF TypeOK
    <2>4. \A k \in Keys : redis'[k].val \in Attempts =>
            redis'[k].val \in ran' /\ call'[redis'[k].val].key = k
      BY <2>1, <2>3 DEF Sources
    <2>5. \A b \in Attempts :
            /\ call'[b].pc # "new" => call'[b].key \in Keys
            /\ call'[b].pc \in {"new", "claim", "handling"} => b \notin ran'
            /\ call'[b].pc = "storing" => b \in ran'
      BY <2>1, <2>3 DEF Sources
    <2>6. \A b \in Attempts : call'[b].pc = "replied" =>
            call'[b].result \in ran' /\ call'[call'[b].result].key = call'[b].key
      BY <2>1, <2>3 DEF Sources, TypeOK
    <2>7. Sources'
      BY <2>4, <2>5, <2>6 DEF Sources
    <2> QED
      BY <2>2, <2>7
  <1>7. ASSUME NEW a \in Attempts, Store(a) \/ StoreUnanswered(a) PROVE SInv'
    <2> DEFINE k == call[a].key
    <2>1. /\ call[a].pc = "storing" /\ k \in Keys /\ a \in ran
          /\ redis' = [redis EXCEPT ![k] = [val |-> a, ttl |-> ResultTtl]]
          /\ UNCHANGED <<ran, expired>>
      BY <1>7 DEF Store, StoreUnanswered, Sources
    <2>2. \/ call' = [call EXCEPT ![a].pc = "replied", ![a].age = 0, ![a].result = a]
          \/ call' = [call EXCEPT ![a].pc = "failed", ![a].age = 0]
      BY <1>7 DEF Store, StoreUnanswered
    <2>3. TypeOK'
      BY <2>1, <2>2 DEF TypeOK, Status
    <2>4. Sources'
      BY <2>1, <2>2 DEF TypeOK, Sources
    <2> QED
      BY <2>3, <2>4
  <1> QED
    BY <1>1, <1>2, <1>3, <1>4, <1>5, <1>6, <1>7 DEF Next

\* Every variable keeps its type.
THEOREM IdempotencyTypeCorrect == Spec => []TypeOK
  <1>1. Spec => []SInv
    BY SInvInit, SInvNext, PTL DEF Spec
  <1> QED
    BY <1>1, PTL DEF SInv

\* What is replayed was produced by a handler that ran for the same key,
\* however slow the handlers are and whatever fails.
THEOREM ReplaysAreFaithful == Spec => []ReplayFaithful
  <1>1. SInv => ReplayFaithful
    BY DEF SInv, Sources, ReplayFaithful
  <1> QED
    BY <1>1, SInvInit, SInvNext, PTL DEF Spec

-----------------------------------------------------------------------------
\* What Redis holds under a key: nothing, a lock, or a result, each with the time
\* it has left.
TimesInv ==
    \A k \in Keys :
      \/ redis[k] = Absent
      \/ redis[k].val = Sentinel /\ redis[k].ttl \in 1..LockTtl
      \/ redis[k].val \in Attempts /\ redis[k].ttl \in 1..ResultTtl

\* Nothing prolongs a lock, and every second shortens it.
RunsDown ==
    \A k \in Keys : redis[k].val = Sentinel /\ redis'[k].val = Sentinel =>
        /\ redis'[k].ttl <= redis[k].ttl
        /\ Tick => redis'[k].ttl = redis[k].ttl - 1

LEMMA ElapseTimes ==
    ASSUME NEW e \in [val : Values, ttl : Nat], NEW n \in Nat, e.ttl \in 1..n
    PROVE  \/ Elapse(e) = Absent
           \/ /\ Elapse(e).val = e.val /\ Elapse(e).ttl = e.ttl - 1
              /\ Elapse(e).ttl \in 1..n
  BY DEF Elapse

LEMMA TimesStep ==
    ASSUME SInv, TimesInv, [Next]_vars
    PROVE  TimesInv' /\ RunsDown
  <1> USE TtlAssumption, ValueAssumption
  <1>t. redis \in [Keys -> [val : Values, ttl : Nat]]
    BY DEF SInv, TypeOK, Values
  <1>1. CASE Tick
    <2> SUFFICES ASSUME NEW k \in Keys
                 PROVE  /\ \/ redis'[k] = Absent
                           \/ redis'[k].val = Sentinel /\ redis'[k].ttl \in 1..LockTtl
                           \/ redis'[k].val \in Attempts /\ redis'[k].ttl \in 1..ResultTtl
                        /\ redis[k].val = Sentinel /\ redis'[k].val = Sentinel =>
                             redis'[k].ttl <= redis[k].ttl /\ redis'[k].ttl = redis[k].ttl - 1
      BY DEF TimesInv, RunsDown
    <2>1. redis'[k] = Elapse(redis[k]) /\ redis[k] \in [val : Values, ttl : Nat]
      BY <1>1, <1>t DEF Tick
    <2>2. CASE redis[k] = Absent
      BY <2>1, <2>2 DEF Elapse, Absent
    <2>3. CASE redis[k].val = Sentinel /\ redis[k].ttl \in 1..LockTtl
      BY <2>1, <2>3, ElapseTimes DEF Absent
    <2>4. CASE redis[k].val \in Attempts /\ redis[k].ttl \in 1..ResultTtl
      BY <2>1, <2>4, ElapseTimes DEF Absent
    <2> QED
      BY <2>2, <2>3, <2>4 DEF TimesInv
  <1>2. ASSUME NEW a \in Attempts, Claim(a) \/ ClaimResent(a)
        PROVE  TimesInv' /\ RunsDown
    <2>1. call[a].key \in Keys
      BY <1>2 DEF Claim, ClaimResent, SInv, Sources
    <2>2. \/ redis' = redis
          \/ redis[call[a].key].val = None /\ redis' = [redis EXCEPT ![call[a].key] = Lock]
      BY <1>2 DEF Claim, ClaimResent
    <2> QED
      BY <1>1, <1>t, <2>1, <2>2 DEF TimesInv, RunsDown, Lock
  <1>3. ASSUME NEW a \in Attempts, Store(a) \/ StoreUnanswered(a)
        PROVE  TimesInv' /\ RunsDown
    <2>1. /\ redis' = [redis EXCEPT ![call[a].key] = [val |-> a, ttl |-> ResultTtl]]
          /\ call[a].key \in Keys
      BY <1>3 DEF Store, StoreUnanswered, SInv, Sources
    <2> QED
      BY <1>1, <1>t, <2>1 DEF TimesInv, RunsDown
  <1>4. CASE redis' = redis
    BY <1>1, <1>4, <1>t DEF TimesInv, RunsDown
  <1> QED
    BY <1>1, <1>2, <1>3, <1>4 DEF Next, vars, Get, Commit, Throw, Fail

\* LOCK_TTL_SECONDS of idempotency.interceptor.ts:
\* no lock outlasts its TTL, whoever has set it, died with it or been refused by
\* it: it never has more left than LockTtl, no step prolongs it, and every second
\* takes one away, however slow handlers are and whatever fails.
THEOREM LocksRunDown == Spec => []TimesInv /\ [][RunsDown]_vars
  <1>1. Init => SInv /\ TimesInv
    BY SInvInit DEF Init, TimesInv
  <1>2. SInv /\ TimesInv /\ [Next]_vars => (SInv /\ TimesInv)' /\ RunsDown
    BY SInvNext, TimesStep
  <1> QED
    BY <1>1, <1>2, PTL DEF Spec

-----------------------------------------------------------------------------
(***************************************************************************)
(* The lock.  While a handler runs its key holds the sentinel, and the     *)
(* time the lock has left and the time the handler has run add up to the   *)
(* lock's TTL: that is why a handler that ends in time never meets another *)
(* holder, and why it never overwrites a result.                           *)
(***************************************************************************)
LockInv ==
    /\ Exclusive
    /\ \A a \in Attempts : InHandler(a) =>
         /\ redis[call[a].key].val = Sentinel
         /\ redis[call[a].key].ttl + call[a].age = LockTtl
    /\ \A a \in Attempts : ~InHandler(a) => call[a].age = 0
    /\ \A k \in Keys : redis[k].val \in Attempts => call[redis[k].val].pc \in {"replied", "failed"}
    /\ \A a \in ran : call[a].pc = "replied" /\ a \notin expired =>
         redis[call[a].key].val = a /\ redis[call[a].key].ttl \in Nat \ {0}

LInv == SInv /\ LockInv

LEMMA LInvInit == Init => LInv
  BY SInvInit, ValueAssumption DEF Init, LInv, LockInv, Exclusive, InHandler, Absent

LEMMA LInvNext ==
    ASSUME Timely, LInv, [Next]_vars
    PROVE  LInv'
  <1> USE TtlAssumption, ValueAssumption DEF LInv
  <1>0. SInv'
    BY SInvNext
  <1>t. /\ redis \in [Keys -> [val : Values, ttl : Nat]]
        /\ call \in [Attempts -> CallType] /\ ran \subseteq Attempts
        /\ \A a \in Attempts : call[a].pc # "new" => call[a].key \in Keys
        /\ \A a \in ran : call[a].key \in Keys
    BY DEF SInv, TypeOK, Values, CallType, Sources
  <1>1. CASE UNCHANGED vars
    BY <1>0, <1>1 DEF vars, LockInv, Exclusive, InHandler
  <1>2. CASE Tick
    <2>1. \A a \in Attempts :
            /\ call'[a].pc = call[a].pc /\ call'[a].key = call[a].key
            /\ call'[a].age = IF InHandler(a) THEN call[a].age + 1 ELSE call[a].age
      BY <1>2, <1>t DEF Tick, CallType
    <2>2. \A k \in Keys :
            /\ redis[k].ttl > 1 => /\ redis'[k].val = redis[k].val
                                   /\ redis'[k].ttl = redis[k].ttl - 1
            /\ ~(redis[k].ttl > 1) => redis'[k].val = None
      BY <1>2, <1>t DEF Tick, Elapse, Absent
    <2>3. \A a \in Attempts : InHandler(a) =>
            /\ redis'[call[a].key].val = Sentinel
            /\ redis'[call[a].key].ttl + call'[a].age = LockTtl
      <3> SUFFICES ASSUME NEW a \in Attempts, InHandler(a)
                   PROVE  /\ redis'[call[a].key].val = Sentinel
                          /\ redis'[call[a].key].ttl + call'[a].age = LockTtl
        OBVIOUS
      <3>1. call[a].key \in Keys
        BY <1>t DEF InHandler
      <3>2. call[a].age \in Nat /\ call[a].age < MaxInFlight
        BY <1>2, <1>t DEF Tick, CallType
      <3>3. /\ redis[call[a].key].val = Sentinel
            /\ redis[call[a].key].ttl + call[a].age = LockTtl
        BY DEF LockInv
      <3>4. redis[call[a].key].ttl \in Nat
        BY <1>t, <3>1
      <3>5. redis[call[a].key].ttl > 1
        BY <3>2, <3>3, <3>4 DEF Timely
      <3>6. /\ redis'[call[a].key].val = redis[call[a].key].val
            /\ redis'[call[a].key].ttl = redis[call[a].key].ttl - 1
        BY <1>t, <2>2, <3>1, <3>5
      <3> QED
        BY <2>1, <3>2, <3>3, <3>4, <3>6
    <2>4. \A a \in ran : call[a].pc = "replied" /\ a \notin expired' =>
            redis'[call[a].key].val = a /\ redis'[call[a].key].ttl \in Nat \ {0}
      <3> SUFFICES ASSUME NEW a \in ran, call[a].pc = "replied", a \notin expired'
                   PROVE  redis'[call[a].key].val = a /\ redis'[call[a].key].ttl \in Nat \ {0}
        OBVIOUS
      <3>1. call[a].key \in Keys /\ a \in Attempts /\ a \notin expired
        BY <1>2, <1>t DEF Tick
      <3>2. redis[call[a].key].val = a /\ redis[call[a].key].ttl \in Nat \ {0}
        BY <3>1 DEF LockInv
      <3>3. redis[call[a].key].ttl # 1
        <4> SUFFICES ASSUME redis[call[a].key].ttl = 1 PROVE FALSE
          OBVIOUS
        <4>1. redis[call[a].key] = [val |-> a, ttl |-> 1]
          BY <1>t, <3>1, <3>2
        <4>2. a \in expired'
          BY <1>2, <3>1, <4>1 DEF Tick
        <4> QED
          BY <4>2
      <3>4. redis[call[a].key].ttl > 1
        BY <3>2, <3>3
      <3>5. /\ redis'[call[a].key].val = redis[call[a].key].val
            /\ redis'[call[a].key].ttl = redis[call[a].key].ttl - 1
        BY <1>t, <2>2, <3>1, <3>4
      <3> QED
        BY <3>2, <3>4, <3>5
    <2>5. \A k \in Keys : redis'[k].val \in Attempts => redis'[k].val = redis[k].val
      BY <2>2
    <2>6. ran' = ran
      BY <1>2 DEF Tick
    <2>7. \A a \in Attempts : InHandler(a)' = InHandler(a)
      BY <2>1 DEF InHandler
    <2> QED
      BY <1>0, <1>t, <2>1, <2>3, <2>4, <2>5, <2>6 DEF LockInv, Exclusive, InHandler
  <1>3. ASSUME NEW a \in Attempts, NEW k \in Keys, Get(a, k) PROVE LInv'
    <2>1. /\ UNCHANGED <<redis, ran, expired>> /\ call[a].pc = "new" /\ a \notin ran
          /\ call'[a].pc \in {"replied", "conflict", "claim"}
          /\ call'[a].age = call[a].age
          /\ \A b \in Attempts : b # a => call'[b] = call[b]
      BY <1>3, <1>t DEF Get, SInv, Sources, CallType
    <2>2. \A j \in Keys : redis[j].val # a
      BY <2>1 DEF SInv, Sources
    <2> QED
      BY <1>0, <1>t, <2>1, <2>2 DEF LockInv, Exclusive, InHandler
  <1>4. ASSUME NEW a \in Attempts, Claim(a) \/ ClaimResent(a) PROVE LInv'
    <2> DEFINE k == call[a].key
    <2>1. /\ UNCHANGED <<ran, expired>> /\ call[a].pc = "claim" /\ a \notin ran /\ k \in Keys
          /\ call'[a].pc \in {"handling", "conflict"}
          /\ call'[a].age = call[a].age /\ call'[a].key = k
          /\ \A b \in Attempts : b # a => call'[b] = call[b]
      BY <1>4, <1>t DEF Claim, ClaimResent, SInv, Sources, CallType
    <2>2. \/ redis' = redis /\ call'[a].pc = "conflict"
          \/ redis[k].val = None /\ redis' = [redis EXCEPT ![k] = Lock]
      BY <1>4, <1>t DEF Claim, ClaimResent, CallType
    <2>3. \A j \in Keys : redis[j].val # a
      BY <2>1 DEF SInv, Sources
    <2>4. call[a].age = 0
      BY <2>1 DEF LockInv, InHandler
    <2>5. CASE redis' = redis /\ call'[a].pc = "conflict"
      BY <1>0, <1>t, <2>1, <2>3, <2>4, <2>5 DEF LockInv, Exclusive, InHandler
    <2>6. CASE redis[k].val = None /\ redis' = [redis EXCEPT ![k] = Lock]
      <3>1. \A b \in Attempts : InHandler(b) => call[b].key # k
        BY <2>6 DEF LockInv
      <3>2. \A b \in ran : call[b].pc = "replied" /\ b \notin expired => call[b].key # k
        BY <1>t, <2>6 DEF LockInv
      <3>3. /\ redis'[k].val = Sentinel /\ redis'[k].ttl = LockTtl
            /\ \A j \in Keys : j # k => redis'[j] = redis[j]
        BY <1>t, <2>1, <2>6 DEF Lock
      <3> QED
        BY <1>0, <1>t, <2>1, <2>3, <2>4, <3>1, <3>2, <3>3 DEF LockInv, Exclusive, InHandler
    <2> QED
      BY <2>2, <2>5, <2>6
  <1>5. ASSUME NEW a \in Attempts, Commit(a) PROVE LInv'
    <2>1. /\ UNCHANGED <<redis, expired>> /\ call[a].pc = "handling" /\ ran' = ran \cup {a}
          /\ call'[a].pc = "storing" /\ call'[a].age = call[a].age
          /\ call'[a].key = call[a].key
          /\ \A b \in Attempts : b # a => call'[b] = call[b]
      BY <1>5, <1>t DEF Commit, CallType
    <2>2. \A b \in Attempts : InHandler(b)' <=> InHandler(b)
      BY <2>1 DEF InHandler
    <2>3. \A b \in Attempts : call'[b].key = call[b].key /\ call'[b].age = call[b].age
      BY <2>1
    <2>4. Exclusive'
      BY <2>2, <2>3 DEF LockInv, Exclusive
    <2>5. \A b \in ran' : call'[b].pc = "replied" => b \in ran /\ call[b].pc = "replied"
      BY <1>t, <2>1
    <2>6. \A k \in Keys : redis[k].val \in Attempts => redis[k].val # a
      BY <2>1 DEF LockInv
    <2>7. \A k \in Keys : redis'[k].val \in Attempts =>
            call'[redis'[k].val].pc \in {"replied", "failed"}
      BY <2>1, <2>6 DEF LockInv
    <2>8. \A b \in Attempts :
            /\ InHandler(b)' => /\ redis'[call'[b].key].val = Sentinel
                               /\ redis'[call'[b].key].ttl + call'[b].age = LockTtl
            /\ ~InHandler(b)' => call'[b].age = 0
      BY <2>1, <2>2, <2>3 DEF LockInv
    <2>9. \A b \in ran' : call'[b].pc = "replied" /\ b \notin expired' =>
            redis'[call'[b].key].val = b /\ redis'[call'[b].key].ttl \in Nat \ {0}
      BY <1>t, <2>1, <2>3, <2>5 DEF LockInv
    <2> HIDE DEF LInv
    <2>10. LockInv'
      BY <2>4, <2>7, <2>8, <2>9 DEF LockInv
    <2> QED
      BY <1>0, <2>10 DEF LInv
  <1>6. ASSUME NEW a \in Attempts, Throw(a) \/ Fail(a) PROVE LInv'
    <2>1. /\ UNCHANGED <<redis, ran, expired>> /\ call'[a].pc = "failed"
          /\ call'[a].age = 0 /\ call'[a].key = call[a].key
          /\ call[a].pc \in {"claim", "handling", "storing"}
          /\ \A b \in Attempts : b # a => call'[b] = call[b]
      BY <1>6, <1>t DEF Throw, Fail, CallType
    <2>2. \A b \in Attempts : InHandler(b)' => InHandler(b) /\ b # a
      BY <2>1 DEF InHandler
    <2>3. \A b \in Attempts : call'[b].key = call[b].key /\ (b # a => call'[b].age = call[b].age)
      BY <2>1
    <2>4. Exclusive'
      BY <2>2, <2>3 DEF LockInv, Exclusive
    <2>5. \A b \in Attempts : InHandler(b)' =>
            /\ redis'[call'[b].key].val = Sentinel
            /\ redis'[call'[b].key].ttl + call'[b].age = LockTtl
      BY <2>1, <2>2, <2>3 DEF LockInv
    <2>6. \A b \in Attempts : ~InHandler(b)' => call'[b].age = 0
      BY <2>1 DEF LockInv, InHandler
    <2>7. \A k \in Keys : redis'[k].val \in Attempts =>
            call'[redis'[k].val].pc \in {"replied", "failed"}
      BY <2>1 DEF LockInv
    <2>8. \A b \in ran' : call'[b].pc = "replied" => b \in ran /\ call[b].pc = "replied"
      BY <1>t, <2>1
    <2>9. \A b \in ran' : call'[b].pc = "replied" /\ b \notin expired' =>
            redis'[call'[b].key].val = b /\ redis'[call'[b].key].ttl \in Nat \ {0}
      BY <1>t, <2>1, <2>3, <2>8 DEF LockInv
    <2> HIDE DEF LInv
    <2>10. LockInv'
      BY <2>4, <2>5, <2>6, <2>7, <2>9 DEF LockInv
    <2> QED
      BY <1>0, <2>10 DEF LInv
  <1>7. ASSUME NEW a \in Attempts, Store(a) \/ StoreUnanswered(a) PROVE LInv'
    <2> DEFINE k == call[a].key
    <2>1. /\ UNCHANGED <<ran, expired>> /\ call[a].pc = "storing" /\ k \in Keys
          /\ call'[a].pc \in {"replied", "failed"}
          /\ call'[a].age = 0 /\ call'[a].key = k
          /\ \A b \in Attempts : b # a => call'[b] = call[b]
          /\ redis'[k].val = a /\ redis'[k].ttl = ResultTtl
          /\ \A j \in Keys : j # k => redis'[j] = redis[j]
      BY <1>7, <1>t DEF Store, StoreUnanswered, CallType
    <2>2. redis[k].val = Sentinel
      BY <2>1 DEF LockInv, InHandler
    <2>3. \A b \in Attempts : b # a /\ InHandler(b) => call[b].key # k
      BY <2>1 DEF LockInv, Exclusive, InHandler
    <2>4. \A b \in ran : call[b].pc = "replied" /\ b \notin expired => call[b].key # k
      BY <1>t, <2>2 DEF LockInv
    <2>5. \A b \in Attempts : InHandler(b)' => InHandler(b) /\ b # a /\ call[b].key # k
      BY <2>1, <2>3 DEF InHandler
    <2>6. Exclusive'
      BY <2>1, <2>5 DEF LockInv, Exclusive
    <2>7. \A b \in Attempts :
            /\ InHandler(b)' => /\ redis'[call'[b].key].val = Sentinel
                               /\ redis'[call'[b].key].ttl + call'[b].age = LockTtl
            /\ ~InHandler(b)' => call'[b].age = 0
      BY <1>t, <2>1, <2>5 DEF LockInv, InHandler
    <2>8. \A j \in Keys : redis'[j].val \in Attempts =>
            call'[redis'[j].val].pc \in {"replied", "failed"}
      BY <2>1 DEF LockInv
    <2>9. \A b \in ran' : call'[b].pc = "replied" /\ b \notin expired' =>
            redis'[call'[b].key].val = b /\ redis'[call'[b].key].ttl \in Nat \ {0}
      BY <1>t, <2>1, <2>4 DEF LockInv
    <2> HIDE DEF LInv
    <2>10. LockInv'
      BY <2>6, <2>7, <2>8, <2>9 DEF LockInv
    <2> QED
      BY <1>0, <2>10 DEF LInv
  <1> QED
    BY <1>1, <1>2, <1>3, <1>4, <1>5, <1>6, <1>7 DEF Next

\* Handlers that end before the lock's TTL never run two at a time for one key,
\* with any number of instances of the API and any interleaving of their GETs
\* and SET NXs.
THEOREM LockExcludes ==
    ASSUME Timely
    PROVE  Spec => []Exclusive
  <1>1. LInv /\ [Next]_vars => LInv'
    BY LInvNext
  <1>2. LInv => Exclusive
    BY DEF LInv, LockInv
  <1> QED
    BY <1>1, <1>2, LInvInit, PTL DEF Spec

\* Under the same hypothesis a call that stored its result is not repeated
\* until that result has been kept for its full TTL, whatever fails.
THEOREM NoEarlyRepeat ==
    ASSUME Timely
    PROVE  Spec => []RepeatedOnlyAfterExpiry
  <1>1. LInv /\ [Next]_vars => LInv'
    BY LInvNext
  <1>2. LInv => RepeatedOnlyAfterExpiry
    BY DEF LInv, LockInv, RepeatedOnlyAfterExpiry
  <1> QED
    BY <1>1, <1>2, LInvInit, PTL DEF Spec

-----------------------------------------------------------------------------
(***************************************************************************)
(* The promise.  The memory of a key is the call that is storing its       *)
(* result, of which the lock leaves only one, or the result in Redis.      *)
(***************************************************************************)
GivenInv ==
    /\ \A a \in Attempts : call[a].pc # "replied" => call[a].result = None
    /\ \A k \in Keys : redis[k].val \in Attempts => redis[k].ttl > 0

PInv == LInv /\ GivenInv

LEMMA PInvInit == Init => PInv
  BY LInvInit, ValueAssumption DEF Init, PInv, GivenInv, Absent

LEMMA PInvNext ==
    ASSUME Timely, PInv, [Next]_vars
    PROVE  PInv'
  <1> USE TtlAssumption, ValueAssumption DEF PInv
  <1>0. LInv'
    BY LInvNext
  <1>t. /\ redis \in [Keys -> [val : Values, ttl : Nat]]
        /\ call \in [Attempts -> CallType]
        /\ \A a \in Attempts : call[a].pc # "new" => call[a].key \in Keys
    BY DEF LInv, SInv, TypeOK, Values, CallType, Sources
  <1> SUFFICES GivenInv'
    BY <1>0
  <1>1. CASE UNCHANGED vars
    BY <1>1 DEF vars, GivenInv
  <1>2. CASE Tick
    <2>1. \A a \in Attempts : call'[a].pc = call[a].pc /\ call'[a].result = call[a].result
      BY <1>2, <1>t DEF Tick, CallType
    <2>2. \A k \in Keys : redis'[k].val \in Attempts => redis'[k].ttl > 0
      BY <1>2, <1>t DEF Tick, Elapse, Absent
    <2> QED
      BY <2>1, <2>2 DEF GivenInv
  <1>3. ASSUME NEW a \in Attempts, NEW k \in Keys, Get(a, k) PROVE GivenInv'
    BY <1>3, <1>t DEF Get, GivenInv, CallType
  <1>4. ASSUME NEW a \in Attempts,
               Claim(a) \/ ClaimResent(a) \/ Commit(a) \/ Throw(a) \/ Fail(a)
        PROVE GivenInv'
    <2>1. /\ call[a].pc \in {"claim", "handling", "storing"}
          /\ call'[a].pc # "replied" /\ call'[a].result = call[a].result
          /\ \A b \in Attempts : b # a => call'[b] = call[b]
      BY <1>4, <1>t DEF Claim, ClaimResent, Commit, Throw, Fail, CallType
    <2>2. redis' = redis \/ redis' = [redis EXCEPT ![call[a].key] = Lock]
      BY <1>4 DEF Claim, ClaimResent, Commit, Throw, Fail
    <2>3. \A k \in Keys : redis'[k] = redis[k] \/ redis'[k] = Lock
      BY <2>2, <1>t
    <2>4. \A k \in Keys : redis'[k].val \in Attempts => redis'[k].ttl > 0
      BY <2>3 DEF GivenInv, Lock
    <2> QED
      BY <2>1, <2>4 DEF GivenInv
  <1>5. ASSUME NEW a \in Attempts, Store(a) \/ StoreUnanswered(a) PROVE GivenInv'
    <2>1. \A b \in Attempts : b # a => call'[b] = call[b]
      BY <1>5, <1>t DEF Store, StoreUnanswered
    <2>2. call'[a].pc # "replied" => call'[a].result = None
      BY <1>5, <1>t DEF Store, StoreUnanswered, GivenInv, CallType
    <2>3. \A k \in Keys : redis'[k] = redis[k] \/ redis'[k].ttl = ResultTtl
      BY <1>5, <1>t DEF Store, StoreUnanswered
    <2> QED
      BY <2>1, <2>2, <2>3 DEF GivenInv
  <1> QED
    BY <1>1, <1>2, <1>3, <1>4, <1>5 DEF Next

\* The memory of a key, in the three states it can be in.
LEMMA MemoryStoring ==
    ASSUME LInv, NEW k \in Keys, NEW a \in StoringFor(k)
    PROVE  StoringFor(k) = {a} /\ Memory[k] = a
  <1>1. StoringFor(k) = {a}
    BY DEF LInv, LockInv, Exclusive, InHandler, StoringFor
  <1> QED
    BY <1>1 DEF Memory

LEMMA MemoryStored ==
    ASSUME NEW k \in Keys, StoringFor(k) = {}
    PROVE  Memory[k] = IF redis[k].val \in Attempts THEN redis[k].val ELSE None
  BY DEF Memory

\* A key whose holder is not storing remembers what Redis has.
LEMMA MemoryRead ==
    ASSUME LInv, NEW k \in Keys, redis[k].val # Sentinel
    PROVE  Memory[k] = redis[k].val
  <1>1. StoringFor(k) = {}
    BY DEF LInv, LockInv, StoringFor, InHandler
  <1>2. redis[k].val \in Attempts \cup {None}
    BY DEF LInv, SInv, TypeOK
  <1> QED
    BY <1>1, <1>2, MemoryStored

\* A step that neither changes who is storing for a key nor what result Redis
\* has for it leaves its memory as it is.
LEMMA MemorySame ==
    ASSUME NEW k \in Keys, StoringFor(k)' = StoringFor(k),
           \/ redis'[k].val = redis[k].val
           \/ redis[k].val \notin Attempts /\ redis'[k].val \notin Attempts
    PROVE  Memory'[k] = Memory[k]
  <1>1. CASE StoringFor(k) # {}
    BY <1>1 DEF Memory
  <1>2. CASE StoringFor(k) = {}
    BY <1>2 DEF Memory
  <1> QED
    BY <1>1, <1>2

\* What a step of the interceptor is for the promise: an execution, an answer,
\* a loss, an expiry, or nothing.
LEMMA PromiseStep ==
    ASSUME Timely, PInv, [Next]_vars
    PROVE  [Promise!Next]_(Promise!vars)
  <1> USE TtlAssumption, ValueAssumption DEF PInv
  <1> DEFINE Given == [a \in Attempts |-> call[a].result]
  <1>t. /\ redis \in [Keys -> [val : Values, ttl : Nat]]
        /\ call \in [Attempts -> CallType]
        /\ \A a \in Attempts : call[a].pc # "new" => call[a].key \in Keys
    BY DEF LInv, SInv, TypeOK, Values, CallType, Sources
  <1>s. Memory' = Memory /\ ran' = ran /\ Given' = Given /\ expired' = expired
          => [Promise!Next]_(Promise!vars)
    BY DEF Promise!vars
  <1>m. /\ Memory = [k \in Keys |-> Memory[k]]
        /\ Memory' = [k \in Keys |-> Memory'[k]]
    BY DEF Memory
  <1>n. \A a \in Attempts, k \in Keys : Promise!Answer(a, k) => [Promise!Next]_(Promise!vars)
    BY DEF Promise!Next
  <1>1. CASE UNCHANGED vars
    BY <1>1, <1>s DEF vars, Memory, StoringFor
  <1>2. CASE Tick
    <2> DEFINE K == {k \in Keys : redis[k].val \in Attempts /\ redis[k].ttl = 1}
    <2>1. \A a \in Attempts : /\ call'[a].pc = call[a].pc /\ call'[a].key = call[a].key
                              /\ call'[a].result = call[a].result
      BY <1>2, <1>t DEF Tick, CallType
    <2>2. \A k \in Keys : StoringFor(k)' = StoringFor(k)
      BY <2>1 DEF StoringFor
    <2>3. ASSUME NEW k \in Keys
          PROVE  Memory'[k] = IF k \in K THEN None ELSE Memory[k]
      <3>1. CASE StoringFor(k) # {}
        <4>1. PICK a \in StoringFor(k) : TRUE
          BY <3>1
        <4>2. redis[k].val = Sentinel
          BY <4>1 DEF LInv, LockInv, StoringFor, InHandler
        <4>3. Memory'[k] = Memory[k]
          <5>1. StoringFor(k)' = StoringFor(k)
            BY <2>2
          <5> QED
            BY <3>1, <5>1 DEF Memory
        <4> QED
          BY <4>2, <4>3
      <3>2. CASE StoringFor(k) = {}
        <4>1. Memory[k] = IF redis[k].val \in Attempts THEN redis[k].val ELSE None
          BY <3>2, MemoryStored
        <4>2. Memory'[k] = IF redis'[k].val \in Attempts THEN redis'[k].val ELSE None
          BY <2>2, <3>2 DEF Memory
        <4>3. redis'[k].val = IF redis[k].ttl > 1 THEN redis[k].val ELSE None
          BY <1>2, <1>t DEF Tick, Elapse, Absent
        <4>4. redis[k].val \in Attempts => redis[k].ttl > 0 /\ redis[k].ttl \in Nat
          BY <1>t DEF GivenInv
        <4>5. k \in K <=> redis[k].val \in Attempts /\ ~(redis[k].ttl > 1)
          BY <1>t, <4>4
        <4> QED
          BY <4>1, <4>2, <4>3, <4>5
      <3> QED
        BY <3>1, <3>2
    <2>4. \A k \in K : Memory[k] = redis[k].val
      BY MemoryRead
    <2>5. expired' = expired \cup {Memory[k] : k \in K}
      <3>1. {a \in Attempts : \E k \in Keys : redis[k] = [val |-> a, ttl |-> 1]}
              = {redis[k].val : k \in K}
        BY <1>t
      <3> QED
        BY <1>2, <2>4, <3>1 DEF Tick
    <2>6. Memory' = [k \in Keys |-> IF k \in K THEN None ELSE Memory[k]]
      BY <2>3 DEF Memory
    <2>7. ran' = ran /\ Given' = Given
      BY <1>2, <2>1 DEF Tick
    <2>8. Promise!Expire(K)
      BY <2>5, <2>6, <2>7 DEF Promise!Expire
    <2>9. K \in SUBSET Keys
      OBVIOUS
    <2> QED
      BY <2>8, <2>9 DEF Promise!Next
  <1>3. ASSUME NEW a \in Attempts, NEW k \in Keys, Get(a, k)
        PROVE  [Promise!Next]_(Promise!vars)
    <2>1. /\ UNCHANGED <<redis, ran, expired>>
          /\ call[a].pc = "new" /\ call[a].result = None
          /\ \A b \in Attempts : b # a => call'[b] = call[b]
          /\ call'[a].pc # "storing"
      BY <1>3, <1>t DEF Get, GivenInv, CallType
    <2>2. Memory' = Memory
      <3>1. \A j \in Keys : StoringFor(j)' = StoringFor(j)
        BY <2>1 DEF StoringFor
      <3> QED
        BY <2>1, <3>1, <1>m, MemorySame
    <2>3. CASE redis[k].val \in Attempts /\ call'[a].result = redis[k].val
      <3>1. Memory[k] = redis[k].val
        BY <2>3, MemoryRead
      <3>2. Given' = [Given EXCEPT ![a] = Memory[k]]
        BY <2>1, <2>3, <3>1
      <3>3. Promise!Answer(a, k)
        BY <2>1, <2>2, <2>3, <3>1, <3>2 DEF Promise!Answer
      <3> QED
        BY <3>3, <1>n
    <2>4. CASE call'[a].result = call[a].result
      <3>1. Given' = Given
        BY <2>1, <2>4
      <3> QED
        BY <2>1, <2>2, <3>1, <1>s
    <2>5. \/ redis[k].val \in Attempts /\ call'[a].result = redis[k].val
          \/ call'[a].result = call[a].result
      BY <1>3, <1>t DEF Get, CallType
    <2> QED
      BY <2>3, <2>4, <2>5
  <1>4. ASSUME NEW a \in Attempts, Claim(a) \/ ClaimResent(a)
        PROVE  [Promise!Next]_(Promise!vars)
    <2>1. /\ UNCHANGED <<ran, expired>> /\ call[a].pc = "claim" /\ call[a].key \in Keys
          /\ call'[a].pc \in {"handling", "conflict"} /\ call'[a].result = call[a].result
          /\ \A b \in Attempts : b # a => call'[b] = call[b]
      BY <1>4, <1>t DEF Claim, ClaimResent, CallType
    <2>2. \A k \in Keys : \/ redis'[k].val = redis[k].val
                          \/ redis[k].val = None /\ redis'[k].val = Sentinel
      BY <1>4, <1>t DEF Claim, ClaimResent, Lock
    <2>3. Memory' = Memory
      <3>1. \A j \in Keys : StoringFor(j)' = StoringFor(j)
        BY <2>1 DEF StoringFor
      <3> QED
        BY <2>2, <3>1, <1>m, MemorySame
    <2>4. Given' = Given
      BY <2>1
    <2> QED
      BY <2>1, <2>3, <2>4, <1>s
  <1>5. ASSUME NEW a \in Attempts, Commit(a)
        PROVE  [Promise!Next]_(Promise!vars)
    <2>0. PICK k \in Keys : call[a].key = k
      BY <1>5, <1>t DEF Commit
    <2>1. /\ UNCHANGED <<redis, expired>> /\ call[a].pc = "handling" /\ ran' = ran \cup {a}
          /\ call'[a].pc = "storing" /\ call'[a].key = k /\ call[a].key = k
          /\ call'[a].result = call[a].result
          /\ \A b \in Attempts : b # a => call'[b] = call[b]
      BY <1>5, <1>t, <2>0 DEF Commit, CallType
    <2>2. k \in Keys /\ a \notin ran /\ redis[k].val = Sentinel
      BY <1>t, <2>1 DEF LInv, SInv, Sources, LockInv, InHandler
    <2>3. StoringFor(k) = {}
      BY <2>1 DEF LInv, LockInv, Exclusive, InHandler, StoringFor
    <2>4. Memory[k] = None
      BY <2>2, <2>3, MemoryStored
    <2>6. Memory'[k] = a
      <3>1. StoringFor(k)' = {a}
        BY <2>1, <2>3 DEF StoringFor
      <3> QED
        BY <2>2, <3>1 DEF Memory
    <2>7. ASSUME NEW j \in Keys, j # k
          PROVE  Memory'[j] = Memory[j]
      <3>1. StoringFor(j)' = StoringFor(j)
        BY <2>1, <2>7 DEF StoringFor
      <3> QED
        BY <2>1, <3>1, MemorySame
    <2>8. Memory' = [Memory EXCEPT ![k] = a]
      BY <2>2, <2>6, <2>7, <1>m
    <2>9. Given' = Given
      BY <2>1
    <2>10. Promise!Execute(a, k)
      BY <2>1, <2>2, <2>4, <2>8, <2>9 DEF Promise!Execute
    <2> QED
      BY <2>2, <2>10 DEF Promise!Next
  <1>6. ASSUME NEW a \in Attempts, Throw(a) \/ Fail(a)
        PROVE  [Promise!Next]_(Promise!vars)
    <2>0. PICK k \in Keys : call[a].key = k
      BY <1>6, <1>t DEF Throw, Fail
    <2>1. /\ UNCHANGED <<redis, ran, expired>> /\ call'[a].pc = "failed"
          /\ call[a].pc \in {"claim", "handling", "storing"} /\ call[a].key = k
          /\ call'[a].result = call[a].result /\ call[a].result = None
          /\ \A b \in Attempts : b # a => call'[b] = call[b]
      BY <1>6, <1>t, <2>0 DEF Throw, Fail, GivenInv, CallType
    <2>2. Given' = Given
      BY <2>1
    <2>3. CASE call[a].pc # "storing"
      <3>1. Memory' = Memory
        <4>1. \A j \in Keys : StoringFor(j)' = StoringFor(j)
          BY <2>1, <2>3 DEF StoringFor
        <4> QED
          BY <2>1, <4>1, <1>m, MemorySame
      <3> QED
        BY <2>1, <2>2, <3>1, <1>s
    <2>4. CASE call[a].pc = "storing"
      <3>1. a \in StoringFor(k) /\ StoringFor(k) = {a} /\ Memory[k] = a
        BY <2>1, <2>4, MemoryStoring DEF StoringFor
      <3>2. redis[k].val = Sentinel
        BY <2>1, <2>4 DEF LInv, LockInv, InHandler
      <3>3. Memory'[k] = None
        <4>1. StoringFor(k)' = {}
          BY <2>1, <3>1 DEF StoringFor
        <4> QED
          BY <2>1, <3>2, <4>1 DEF Memory
      <3>4. ASSUME NEW j \in Keys, j # k
            PROVE  Memory'[j] = Memory[j]
        <4>1. StoringFor(j)' = StoringFor(j)
          BY <2>1, <3>4 DEF StoringFor
        <4> QED
          BY <2>1, <4>1, MemorySame
      <3>5. Memory' = [Memory EXCEPT ![k] = None]
        BY <2>1, <3>3, <3>4, <1>m
      <3>6. Promise!Lose(k)
        BY <2>1, <2>2, <3>1, <3>5 DEF Promise!Lose
      <3> QED
        BY <2>1, <3>6 DEF Promise!Next
    <2> QED
      BY <2>3, <2>4
  <1>7. ASSUME NEW a \in Attempts, Store(a) \/ StoreUnanswered(a)
        PROVE  [Promise!Next]_(Promise!vars)
    <2>0. PICK k \in Keys : call[a].key = k
      BY <1>7, <1>t DEF Store, StoreUnanswered
    <2>1. /\ UNCHANGED <<ran, expired>> /\ call[a].pc = "storing" /\ call[a].key = k
          /\ call'[a].pc \in {"replied", "failed"} /\ call[a].result = None
          /\ \A b \in Attempts : b # a => call'[b] = call[b]
          /\ redis'[k].val = a
          /\ \A j \in Keys : j # k => redis'[j] = redis[j]
      BY <1>7, <1>t, <2>0 DEF Store, StoreUnanswered, GivenInv, CallType
    <2>2. a \in StoringFor(k) /\ StoringFor(k) = {a} /\ Memory[k] = a
      BY <2>1, MemoryStoring DEF StoringFor
    <2>3. Memory'[k] = a
      <3>1. StoringFor(k)' = {}
        BY <2>1, <2>2 DEF StoringFor
      <3> QED
        BY <2>1, <3>1 DEF Memory
    <2>4. ASSUME NEW j \in Keys, j # k
          PROVE  Memory'[j] = Memory[j]
      <3>1. StoringFor(j)' = StoringFor(j)
        BY <2>1, <2>4 DEF StoringFor
      <3> QED
        BY <2>1, <2>4, <3>1, MemorySame
    <2>5. Memory' = Memory
      BY <2>2, <2>3, <2>4, <1>m
    <2>6. CASE Store(a)
      <3>1. Given' = [Given EXCEPT ![a] = Memory[k]]
        BY <1>t, <2>1, <2>2, <2>6 DEF Store, CallType
      <3>2. Promise!Answer(a, k)
        BY <2>1, <2>2, <2>5, <3>1 DEF Promise!Answer
      <3> QED
        BY <3>2, <1>n
    <2>7. CASE StoreUnanswered(a)
      <3>1. Given' = Given
        BY <1>t, <2>7 DEF StoreUnanswered, CallType
      <3> QED
        BY <2>1, <2>5, <3>1, <1>s
    <2> QED
      BY <1>7, <2>6, <2>7
  <1> QED
    BY <1>1, <1>2, <1>3, <1>4, <1>5, <1>6, <1>7 DEF Next

\* The interceptor implements AtMostOnce: with handlers that end before the
\* lock's TTL, whatever fails and however many calls share a key, nobody is ever
\* given anything but the result of the one execution its key remembers.
THEOREM PromiseIsKept ==
    ASSUME Timely
    PROVE  Spec => KeepsPromise
  <1>1. Init => Promise!Init
    BY ValueAssumption DEF Init, Absent, Memory, StoringFor, Promise!Init
  <1>2. PInv /\ [Next]_vars => PInv'
    BY PInvNext
  <1>3. PInv /\ [Next]_vars => [Promise!Next]_(Promise!vars)
    BY PromiseStep
  <1> QED
    BY <1>1, <1>2, <1>3, PInvInit, PTL DEF Spec, KeepsPromise, Promise!Spec

-----------------------------------------------------------------------------
(***************************************************************************)
(* The two routes behind the interceptor.  The composition does to the     *)
(* interceptor what Idempotency allows, and to the accounts what           *)
(* Registration allows.  That anything at all relates the two is LinkInv:  *)
(* the registrations that took effect are the calls that made an account.  *)
(***************************************************************************)
LEMMA StepOfInterceptor == [PostNext]_postVars => [Next]_vars
  <1> SUFFICES ASSUME PostNext PROVE Next \/ UNCHANGED vars
    BY DEF postVars, vars
  <1>1. CASE Second
    BY <1>1 DEF Second, Next
  <1>2. ASSUME NEW a \in Attempts, Before(a) PROVE Next
    BY <1>2 DEF Before, Begins, Next
  <1>3. ASSUME NEW a \in Attempts, Project(a) \/ ProjectLost(a) PROVE Next
    BY <1>3 DEF Project, ProjectLost, Next
  <1>4. ASSUME NEW a \in Attempts, Within(a) \/ StartsAdd(a) \/ Job(a) PROVE UNCHANGED vars
    BY <1>4 DEF Within, StartsAdd, Job
  <1>5. ASSUME NEW a \in Attempts, Throws(a) \/ Commits(a) \/ Returns(a) \/ Dies(a) PROVE Next
    BY <1>5 DEF Throws, Commits, Returns, Dies, Next
  <1> QED
    BY <1>1, <1>2, <1>3, <1>4, <1>5 DEF PostNext

LEMMA StepOfAccounts == [PostNext]_postVars => [Account!Next]_accounts
  <1> SUFFICES ASSUME PostNext PROVE Account!Next \/ UNCHANGED accounts
    BY DEF postVars
  <1>1. CASE Second
    BY <1>1 DEF Second
  <1>2. ASSUME NEW a \in Attempts, Before(a) \/ Project(a) \/ ProjectLost(a)
        PROVE  UNCHANGED accounts
    BY <1>2 DEF Before, Project, ProjectLost
  <1>3. ASSUME NEW a \in Attempts, Within(a) \/ Throws(a) PROVE Account!Next
    <2>1. Account!FindByEmail(a, Address) \/ Account!Insert(a) \/ Account!InsertRefused(a)
            \/ Account!UpdateHash(a) \/ Account!Abort(a)
      BY <1>3 DEF Within, Throws
    <2>2. Account!Step(a)
      BY <2>1 DEF Account!Step
    <2> QED
      BY <2>2 DEF Account!Next
  <1>4. ASSUME NEW a \in Attempts, Commits(a) \/ StartsAdd(a) \/ Returns(a) PROVE Account!Next
    <2>1. Account!Step(a)
      BY <1>4 DEF Commits, StartsAdd, Returns, Account!Step
    <2> QED
      BY <2>1 DEF Account!Next
  <1>5. ASSUME NEW a \in Attempts, Dies(a) PROVE Account!Next \/ UNCHANGED accounts
    BY <1>5 DEF Dies, Account!Next, Account!Step
  <1>6. ASSUME NEW a \in Attempts, Job(a) PROVE Account!Next
    BY <1>6 DEF Job, Account!Next
  <1> QED
    BY <1>1, <1>2, <1>3, <1>4, <1>5, <1>6 DEF PostNext

\* Whatever the handlers do, the interceptor around them is that of Idempotency.
THEOREM PostsAreIdempotent == PostSpec => Spec
  <1>1. PostInit => Init
    BY DEF PostInit
  <1> QED
    BY <1>1, StepOfInterceptor, PTL DEF PostSpec, Spec

\* Whatever the interceptor does, the registrations behind it are those of
\* Registration.
THEOREM PostsRegister == PostSpec => Account!Spec
  <1>1. PostInit => Account!Init
    BY DEF PostInit
  <1>2. [PostNext]_postVars => [Account!Next]_(Account!vars)
    BY StepOfAccounts DEF accounts, Account!vars
  <1> QED
    BY <1>1, <1>2, PTL DEF PostSpec, Account!Spec
-----------------------------------------------------------------------------
(***************************************************************************)
(* What one address is worth: at most one row has it, or one transaction.  *)
(* Whoever meets the other's row is refused, whoever meets its transaction *)
(* waits (Registration's KeyInv, for the address all of them want).        *)
(***************************************************************************)
AccountInv ==
    /\ Account!TypeOK
    /\ \A a \in Attempts :
         /\ reg[a].pc # "new" => reg[a].email = Address
         /\ tx[a] # None <=> reg[a].pc \in {"inserted", "updated"}
         /\ tx[a] # None => tx[a].id = a
    /\ \A a, b \in Attempts : tx[a] # None /\ tx[b] # None => a = b
    /\ \A a \in Attempts : tx[a] # None => table = {}
    /\ \A p, q \in table : p.id = q.id

\* A registration is a call with a key of a registration, and the accounts are
\* those of the registrations that took effect.
LinkInv ==
    /\ \A a \in Attempts : reg[a].pc # "new" => Registers(a)
    /\ Makers = {a \in ran : Registers(a)}

\* A call has a key from its GET on, and took effect only if it is past that.
RanInv ==
    /\ \A a \in Attempts : call[a].pc = "new" => call[a].key = None
    /\ \A a \in ran : call[a].pc \in {"storing", "replied", "failed"}

PostInv == SInv /\ RanInv /\ AccountInv /\ LinkInv

LEMMA PostInvInit == PostInit => PostInv
  <1> SUFFICES ASSUME PostInit PROVE PostInv
    OBVIOUS
  <1> USE PostsAssumption, ValueAssumption DEF PostInit
  <1>1. SInv
    BY SInvInit
  <1>2. RanInv
    BY DEF Init, RanInv
  <1>3. AccountInv
    BY DEF Account!Init, AccountInv, Account!TypeOK, Account!Status
  <1>4. LinkInv
    BY DEF Account!Init, Init, LinkInv, Makers
  <1> QED
    BY <1>1, <1>2, <1>3, <1>4 DEF PostInv

\* A call keeps the key it has come with.
LEMMA KeysKept ==
    ASSUME SInv, [Next]_vars
    PROVE  \A a \in Attempts : call[a].pc # "new" => call'[a].key = call[a].key
  <1>t. call \in [Attempts -> CallType]
    BY DEF SInv, TypeOK, CallType
  <1>1. CASE UNCHANGED vars
    BY <1>1 DEF vars
  <1>2. CASE Tick
    BY <1>2, <1>t DEF Tick, CallType
  <1>3. ASSUME NEW a \in Attempts, NEW k \in Keys, Get(a, k)
        PROVE  \A b \in Attempts : call[b].pc # "new" => call'[b].key = call[b].key
    BY <1>3, <1>t DEF Get, CallType
  <1>4. ASSUME NEW a \in Attempts,
               \/ Claim(a) \/ ClaimResent(a) \/ Commit(a) \/ Throw(a)
               \/ Store(a) \/ StoreUnanswered(a) \/ Fail(a)
        PROVE  \A b \in Attempts : call'[b].key = call[b].key
    BY <1>4, <1>t DEF Claim, ClaimResent, Commit, Throw, Store, StoreUnanswered, Fail, CallType
  <1> QED
    BY <1>1, <1>2, <1>3, <1>4 DEF Next

LEMMA RanInvNext ==
    ASSUME SInv, RanInv, [Next]_vars
    PROVE  RanInv'
  <1> USE ValueAssumption
  <1>t. /\ call \in [Attempts -> CallType] /\ ran \subseteq Attempts
        /\ \A a \in Attempts : call[a].pc \in {"new", "claim", "handling"} => a \notin ran
    BY DEF SInv, TypeOK, CallType, Sources
  <1>1. CASE UNCHANGED vars
    BY <1>1 DEF vars, RanInv
  <1>2. CASE Tick
    <2>1. \A a \in Attempts : call'[a].pc = call[a].pc /\ call'[a].key = call[a].key
      BY <1>2, <1>t DEF Tick, CallType
    <2> QED
      BY <1>2, <1>t, <2>1 DEF Tick, RanInv
  <1>3. ASSUME NEW a \in Attempts, NEW k \in Keys, Get(a, k) PROVE RanInv'
    <2>1. /\ a \notin ran /\ ran' = ran /\ call'[a].pc # "new"
          /\ \A b \in Attempts \ {a} : call'[b] = call[b]
      BY <1>3, <1>t DEF Get, CallType
    <2> QED
      BY <2>1, <1>t DEF RanInv
  <1>4. ASSUME NEW a \in Attempts,
               \/ Claim(a) \/ ClaimResent(a) \/ Commit(a) \/ Throw(a)
               \/ Store(a) \/ StoreUnanswered(a) \/ Fail(a)
        PROVE  RanInv'
    <2>1. \/ /\ call'[a].pc \in {"handling", "conflict"}
             /\ ran' = ran /\ a \notin ran
          \/ /\ call'[a].pc \in {"storing", "replied", "failed"}
             /\ ran' \in {ran, ran \cup {a}}
      BY <1>4, <1>t
      DEF Claim, ClaimResent, Commit, Throw, Store, StoreUnanswered, Fail, CallType
    <2>2. \A b \in Attempts \ {a} : call'[b] = call[b]
      BY <1>4, <1>t
      DEF Claim, ClaimResent, Commit, Throw, Store, StoreUnanswered, Fail
    <2> QED
      BY <2>1, <2>2, <1>t DEF RanInv
  <1> QED
    BY <1>1, <1>2, <1>3, <1>4 DEF Next

\* A step of the registration a changes the state of a alone.
LEMMA GotoReg ==
    ASSUME AccountInv, NEW a \in Attempts, NEW pc \in Account!Status, Account!Goto(a, pc)
    PROVE  /\ reg' \in [Attempts -> [pc : Account!Status, email : {Address} \cup {None}]]
           /\ reg'[a].pc = pc /\ reg'[a].email = reg[a].email
           /\ \A b \in Attempts \ {a} : reg'[b] = reg[b]
  BY DEF AccountInv, Account!TypeOK, Account!Goto

LEMMA AccountInvNext ==
    ASSUME AccountInv, [Account!Next]_accounts
    PROVE  AccountInv'
  <1> USE PostsAssumption DEF Account!Status, Account!Done
  <1>t. /\ tx \in [Attempts -> Account!Rows \cup {None}] /\ None \notin Account!Rows
        /\ \A p \in table : p.email = Address
    BY DEF AccountInv, Account!TypeOK, Account!Rows
  <1>1. CASE UNCHANGED accounts
    BY <1>1 DEF accounts, AccountInv, Account!TypeOK
  <1>2. ASSUME NEW a \in Attempts, Account!FindByEmail(a, Address) PROVE AccountInv'
    BY <1>2 DEF Account!FindByEmail, AccountInv, Account!TypeOK
  <1>3. ASSUME NEW a \in Attempts, Account!Insert(a) PROVE AccountInv'
    <2> DEFINE r == [id |-> a, email |-> reg[a].email, hash |-> FALSE]
    <2>1. /\ reg[a].pc = "hashing" /\ reg[a].email = Address
          /\ table' = table /\ mail' = mail /\ tx' = [tx EXCEPT ![a] = r]
          /\ \A p \in table : p.email # Address
          /\ \A b \in Attempts \ {a} : tx[b] # None => tx[b].email # Address
      BY <1>3 DEF Account!Insert, Account!Taken, Account!Pending, AccountInv
    <2>2. table = {} /\ \A b \in Attempts \ {a} : tx[b] = None
      BY <1>t, <2>1 DEF Account!Rows
    <2>3. r \in Account!Rows /\ r.id = a
      BY <2>1 DEF Account!Rows
    <2>4. /\ reg' \in [Attempts -> [pc : Account!Status, email : {Address} \cup {None}]]
          /\ reg'[a].pc = "inserted" /\ reg'[a].email = Address
          /\ \A b \in Attempts \ {a} : reg'[b] = reg[b]
      BY <1>3, <2>1, GotoReg DEF Account!Insert
    <2> HIDE DEF r
    <2>5. /\ tx' \in [Attempts -> Account!Rows \cup {None}]
          /\ tx'[a] = r /\ \A b \in Attempts \ {a} : tx'[b] = tx[b]
      BY <1>t, <2>1, <2>3
    <2> QED
      BY <1>t, <2>1, <2>2, <2>3, <2>4, <2>5 DEF AccountInv, Account!TypeOK
  <1>4. ASSUME NEW a \in Attempts, Account!UpdateHash(a) PROVE AccountInv'
    <2>1. /\ reg[a].pc = "inserted" /\ table' = table /\ mail' = mail
          /\ tx[a] \in Account!Rows /\ tx[a] # None
          /\ tx' = [tx EXCEPT ![a] = [tx[a] EXCEPT !.hash = TRUE]]
      BY <1>4, <1>t DEF Account!UpdateHash, AccountInv
    <2>2. /\ reg' \in [Attempts -> [pc : Account!Status, email : {Address} \cup {None}]]
          /\ reg'[a].pc = "updated" /\ reg'[a].email = reg[a].email
          /\ \A b \in Attempts \ {a} : reg'[b] = reg[b]
      BY <1>4, GotoReg DEF Account!UpdateHash
    <2>3. /\ [tx[a] EXCEPT !.hash = TRUE] \in Account!Rows
          /\ [tx[a] EXCEPT !.hash = TRUE].id = tx[a].id
      BY <2>1 DEF Account!Rows
    <2>4. /\ tx' \in [Attempts -> Account!Rows \cup {None}]
          /\ tx'[a] # None /\ tx'[a].id = tx[a].id
          /\ \A b \in Attempts \ {a} : tx'[b] = tx[b]
      BY <1>t, <2>1, <2>3
    <2> QED
      BY <1>t, <2>1, <2>2, <2>4 DEF AccountInv, Account!TypeOK
  <1>5. ASSUME NEW a \in Attempts, Account!Commit(a) \/ Account!CommitUnanswered(a)
        PROVE  AccountInv'
    <2>1. /\ reg[a].pc = "updated" /\ tx[a] # None /\ tx[a] \in Account!Rows
          /\ table = {} /\ table' = {tx[a]} /\ mail' = mail
          /\ tx' = [tx EXCEPT ![a] = None]
      BY <1>5, <1>t DEF Account!Commit, Account!CommitUnanswered, AccountInv
    <2>2. /\ reg' \in [Attempts -> [pc : Account!Status, email : {Address} \cup {None}]]
          /\ reg'[a].pc \in {"committed", "failed"} /\ reg'[a].email = reg[a].email
          /\ \A b \in Attempts \ {a} : reg'[b] = reg[b]
      BY <1>5, GotoReg DEF Account!Commit, Account!CommitUnanswered
    <2>3. \A b \in Attempts : tx'[b] = None
      BY <1>t, <2>1 DEF AccountInv
    <2>4. Account!TypeOK'
      <3>1. tx' \in [Attempts -> Account!Rows \cup {None}]
        BY <1>t, <2>1
      <3>2. table' \subseteq Account!Rows
        BY <2>1
      <3> QED
        BY <2>1, <2>2, <3>1, <3>2 DEF AccountInv, Account!TypeOK
    <2>5. \A b \in Attempts : /\ reg'[b].pc # "new" => reg'[b].email = Address
                              /\ reg'[b].pc \notin {"inserted", "updated"}
      BY <2>1, <2>2 DEF AccountInv
    <2> QED
      BY <2>1, <2>3, <2>4, <2>5 DEF AccountInv
  <1>6. ASSUME NEW a \in Attempts, Account!InsertRefused(a) \/ Account!Abort(a)
        PROVE  AccountInv'
    <2>1. /\ table' = table /\ mail' = mail /\ reg[a].pc \in {"hashing", "inserted", "updated"}
          /\ tx' \in [Attempts -> Account!Rows \cup {None}]
          /\ tx'[a] = None /\ \A b \in Attempts \ {a} : tx'[b] = tx[b]
      BY <1>6, <1>t DEF Account!InsertRefused, Account!Abort, AccountInv
    <2>2. /\ reg' \in [Attempts -> [pc : Account!Status, email : {Address} \cup {None}]]
          /\ reg'[a].pc \in {"conflict", "failed"} /\ reg'[a].email = reg[a].email
          /\ \A b \in Attempts \ {a} : reg'[b] = reg[b]
      BY <1>6, GotoReg DEF Account!InsertRefused, Account!Abort
    <2> QED
      BY <1>t, <2>1, <2>2 DEF AccountInv, Account!TypeOK
  <1>7. ASSUME NEW a \in Attempts,
               Account!StartAdd(a) \/ Account!Reply(a) \/ Account!Crash(a)
        PROVE  AccountInv'
    <2>1. /\ reg[a].pc \in {"committed", "returned"} /\ table' = table /\ tx' = tx
          /\ mail' \in [Attempts -> {"none", "adding", "queued", "lost"}]
      BY <1>7 DEF Account!StartAdd, Account!Reply, Account!Crash, AccountInv, Account!TypeOK
    <2>2. /\ reg' \in [Attempts -> [pc : Account!Status, email : {Address} \cup {None}]]
          /\ reg'[a].pc \in {"returned", "replied", "failed"} /\ reg'[a].email = reg[a].email
          /\ \A b \in Attempts \ {a} : reg'[b] = reg[b]
      BY <1>7, GotoReg DEF Account!StartAdd, Account!Reply, Account!Crash
    <2> QED
      BY <2>1, <2>2 DEF AccountInv, Account!TypeOK
  <1>8. ASSUME NEW a \in Attempts, Account!Added(a) \/ Account!AddFails(a)
        PROVE  AccountInv'
    BY <1>8 DEF Account!Added, Account!AddFails, AccountInv, Account!TypeOK
  <1> QED
    BY <1>1, <1>2, <1>3, <1>4, <1>5, <1>6, <1>7, <1>8 DEF Account!Next, Account!Step

\* A call whose handler is register's is past its GET, and stays a registration.
LEMMA RegistersKept ==
    ASSUME SInv, RanInv, [Next]_vars, NEW a \in Attempts
    PROVE  /\ Registers(a) => Registers(a)' /\ call[a].pc # "new"
           /\ call[a].pc # "new" => (Registers(a)' <=> Registers(a))
  BY KeysKept, PostsAssumption, ValueAssumption DEF Registers, RanInv

\* What a step does to who has taken effect: nothing, or one more.
LEMMA RanStep ==
    ASSUME SInv, [Next]_vars
    PROVE  ran' = ran \/ \E a \in Attempts : Commit(a)
  BY DEF Next, vars, Tick, Get, Claim, ClaimResent, Throw, Store, StoreUnanswered, Fail

LEMMA LinkInvNext ==
    ASSUME PostInv, [PostNext]_postVars
    PROVE  LinkInv'
  <1>0. [Next]_vars
    BY StepOfInterceptor
  <1>1. SInv /\ RanInv /\ AccountInv /\ LinkInv
    BY DEF PostInv
  <1>2. \A a \in Attempts : Registers(a) => Registers(a)'
    BY <1>0, <1>1, RegistersKept
  <1>3. \A a \in ran : a \in Attempts /\ call[a].pc # "new"
    BY <1>1 DEF RanInv, SInv, TypeOK
  <1>4. \A a \in ran : Registers(a)' <=> Registers(a)
    BY <1>0, <1>1, <1>3, RegistersKept
  <1>5. ASSUME table' = table, ran' = ran
        PROVE  Makers' = {a \in ran' : Registers(a)'}
    BY <1>1, <1>4, <1>5 DEF LinkInv, Makers
  <1>6. ASSUME reg' = reg, table' = table, ran' = ran PROVE LinkInv'
    BY <1>1, <1>2, <1>5, <1>6 DEF LinkInv
  \* A step of the registration a, before its COMMIT or after it.
  <1>7. ASSUME NEW a \in Attempts, NEW pc, reg' = [reg EXCEPT ![a].pc = pc],
               reg[a].pc # "new", table' = table, ran' = ran
        PROVE  LinkInv'
    <2>1. \A b \in Attempts : reg'[b].pc # "new" => reg[b].pc # "new"
      BY <1>1, <1>7 DEF AccountInv, Account!TypeOK
    <2> QED
      BY <1>1, <1>2, <1>5, <1>7, <2>1 DEF LinkInv
  <1>8. CASE Second \/ UNCHANGED postVars
    BY <1>6, <1>8 DEF Second, Tick, postVars, vars, accounts
  <1>9. ASSUME NEW a \in Attempts, Before(a) PROVE LinkInv'
    BY <1>6, <1>9 DEF Before, Begins, accounts, Get, Claim, ClaimResent
  <1>10. ASSUME NEW a \in Attempts, Project(a) \/ ProjectLost(a) PROVE LinkInv'
    <2>1. CASE Commit(a)
      <3>1. ~Registers(a) /\ call[a].pc = "handling" /\ ran' = ran \cup {a}
            /\ table' = table /\ reg' = reg
        BY <1>10, <2>1 DEF Project, ProjectLost, accounts, Commit, StoreUnanswered, Fail
      <3>2. ~Registers(a)'
        BY <1>0, <1>1, <3>1, RegistersKept
      <3>3. Makers' = {b \in ran' : Registers(b)'}
        BY <1>1, <1>4, <3>1, <3>2 DEF LinkInv, Makers
      <3> QED
        BY <1>1, <1>2, <3>1, <3>3 DEF LinkInv
    <2>2. CASE ~Commit(a)
      BY <1>6, <1>10, <2>2
      DEF Project, ProjectLost, accounts, Throw, Store, StoreUnanswered, Fail
    <2> QED
      BY <2>1, <2>2
  <1>11. ASSUME NEW a \in Attempts, Within(a) \/ Throws(a) PROVE LinkInv'
    <2>1. Registers(a) /\ ran' = ran
      BY <1>11 DEF Within, Throws, vars, Throw
    <2>2. table' = table /\ \A b \in Attempts \ {a} : reg'[b] = reg[b]
      BY <1>1, <1>11
      DEF Within, Throws, Account!FindByEmail, Account!Insert, Account!UpdateHash,
          Account!InsertRefused, Account!Abort, Account!Goto, AccountInv, Account!TypeOK
    <2> QED
      BY <1>1, <1>2, <1>5, <2>1, <2>2 DEF LinkInv
  <1>12. ASSUME NEW a \in Attempts, Commits(a) PROVE LinkInv'
    <2>1. /\ reg[a].pc = "updated" /\ table' = table \cup {tx[a]} /\ ran' = ran \cup {a}
          /\ tx[a].id = a
          /\ \A b \in Attempts \ {a} : reg'[b] = reg[b]
      BY <1>1, <1>12
      DEF Commits, Account!Commit, Account!CommitUnanswered, Account!Goto, Commit, AccountInv,
          Account!TypeOK
    <2>2. Registers(a)'
      BY <1>1, <1>2, <2>1 DEF LinkInv
    <2>3. Makers' = Makers \cup {a}
      BY <2>1 DEF Makers
    <2>4. Makers' = {b \in ran' : Registers(b)'}
      BY <1>1, <1>4, <2>1, <2>2, <2>3 DEF LinkInv
    <2> QED
      BY <1>1, <1>2, <2>1, <2>2, <2>4 DEF LinkInv
  <1>13. ASSUME NEW a \in Attempts, StartsAdd(a) \/ Returns(a) \/ (Account!Crash(a) /\ Fail(a))
         PROVE  LinkInv'
    <2>1. /\ reg[a].pc # "new" /\ table' = table /\ ran' = ran
          /\ \E pc \in {"returned", "replied", "failed"} : reg' = [reg EXCEPT ![a].pc = pc]
      BY <1>13
      DEF StartsAdd, Returns, Account!StartAdd, Account!Reply, Account!Crash, Account!Goto,
          vars, Store, StoreUnanswered, Fail
    <2> QED
      BY <1>7, <2>1
  <1>14. ASSUME NEW a \in Attempts, Job(a) \/ (UNCHANGED accounts /\ Fail(a))
         PROVE  LinkInv'
    BY <1>6, <1>14 DEF Job, Account!Added, Account!AddFails, vars, accounts, Fail
  <1>15. ASSUME NEW a \in Attempts, Dies(a) PROVE LinkInv'
    BY <1>13, <1>14, <1>15 DEF Dies
  <1> QED
    BY <1>8, <1>9, <1>10, <1>11, <1>12, <1>13, <1>14, <1>15 DEF PostNext

LEMMA PostInvNext == PostInv /\ [PostNext]_postVars => PostInv'
  <1> SUFFICES ASSUME PostInv, [PostNext]_postVars PROVE PostInv'
    OBVIOUS
  <1>1. [Next]_vars /\ [Account!Next]_accounts
    BY StepOfInterceptor, StepOfAccounts
  <1>2. SInv' /\ RanInv' /\ AccountInv'
    BY <1>1, SInvNext, RanInvNext, AccountInvNext DEF PostInv
  <1> QED
    BY <1>2, LinkInvNext DEF PostInv

\* Who is answered with an account is answered with the one there is, however
\* registrations are repeated, whatever fails, however slow the handlers are and
\* whatever Redis has forgotten.
THEOREM AnswersAreTheAccount == PostSpec => []AnsweredWithTheAccount
  <1>1. PostInv => AnsweredWithTheAccount
    <2> SUFFICES ASSUME PostInv, NEW a \in Attempts, Registers(a), call[a].pc = "replied"
                 PROVE  Makers = {call[a].result}
      BY DEF AnsweredWithTheAccount
    <2>1. call[a].result \in ran /\ call[call[a].result].key = call[a].key
      BY DEF PostInv, SInv, Sources
    <2>2. call[a].result \in Makers
      BY <2>1 DEF PostInv, LinkInv, Registers
    <2>3. \A m, n \in Makers : m = n
      BY DEF PostInv, AccountInv, Makers
    <2> QED
      BY <2>2, <2>3
  <1> QED
    BY <1>1, PostInvInit, PostInvNext, PTL DEF PostSpec

\* With handlers that end before the lock's TTL, a client is refused for an
\* account of its own only if the request that made it died before it answered,
\* or its result has expired: while that request runs it has the lock, and
\* until its result expires the key has it.
THEOREM OwnConflictsAreExplained ==
    ASSUME Timely
    PROVE  PostSpec => OwnConflictExplained
  <1> DEFINE Explained ==
        \A a \in Attempts : reg[a].pc # "conflict" /\ reg'[a].pc = "conflict" =>
          \A b \in Makers : call[b].key = call[a].key =>
            call[b].pc = "failed" \/ b \in expired
  <1>1. ASSUME PostInv, LInv, [PostNext]_postVars PROVE [Explained]_postVars
    <2> SUFFICES ASSUME NEW a \in Attempts, reg[a].pc # "conflict", reg'[a].pc = "conflict",
                        NEW b \in Makers, call[b].key = call[a].key,
                        call[b].pc # "failed", b \notin expired
                 PROVE  FALSE
      OBVIOUS
    <2>1. reg \in [Attempts -> [pc : Account!Status, email : {Address} \cup {None}]]
      BY <1>1 DEF PostInv, AccountInv, Account!TypeOK
    <2>2. PICK c \in Attempts : Throws(c) /\ c = a
      <3>1. ASSUME NEW c \in Attempts, Within(c) \/ Throws(c)
            PROVE  reg'[c].pc = "conflict" => Throws(c)
        BY <3>1 DEF Within
      <3>2. ASSUME NEW c \in Attempts, Within(c) \/ Throws(c), c # a PROVE FALSE
        BY <2>1, <3>2
        DEF Within, Throws, Account!FindByEmail, Account!Insert, Account!UpdateHash,
            Account!InsertRefused, Account!Abort, Account!Goto
      <3>3. ASSUME NEW c \in Attempts,
                   \/ Commits(c) \/ StartsAdd(c) \/ Returns(c) \/ Dies(c) \/ Job(c)
                   \/ Before(c) \/ Project(c) \/ ProjectLost(c)
            PROVE  FALSE
        BY <2>1, <3>3
        DEF Commits, StartsAdd, Returns, Dies, Job, Before, Project, ProjectLost, accounts,
            Account!Commit, Account!CommitUnanswered, Account!StartAdd, Account!Reply,
            Account!Crash, Account!Added, Account!AddFails, Account!Goto
      <3>4. ~Second /\ ~UNCHANGED postVars
        BY DEF Second, postVars, accounts
      <3> QED
        BY <1>1, <3>1, <3>2, <3>3, <3>4 DEF PostNext
    <2>3. call[a].pc = "handling"
      BY <2>2 DEF Throws, Throw
    <2>4. b \in ran /\ b \in Attempts /\ call[b].pc \in {"storing", "replied"}
      BY <1>1 DEF PostInv, LinkInv, RanInv, SInv, TypeOK
    <2>5. redis[call[a].key].val = Sentinel
      BY <1>1, <2>3 DEF LInv, LockInv, InHandler
    <2>6. CASE call[b].pc = "storing"
      BY <1>1, <2>3, <2>4, <2>6 DEF LInv, LockInv, Exclusive, InHandler
    <2>7. CASE call[b].pc = "replied"
      BY <1>1, <2>4, <2>5, <2>7, ValueAssumption DEF LInv, LockInv
    <2> QED
      BY <2>4, <2>6, <2>7
  <1>2. LInv /\ [PostNext]_postVars => LInv'
    BY StepOfInterceptor, LInvNext
  <1>3. PostInit => LInv
    BY LInvInit DEF PostInit
  <1> QED
    BY <1>1, <1>2, <1>3, PostInvInit, PostInvNext, PTL DEF PostSpec, OwnConflictExplained

\* The interceptor keeps its promise around its two handlers.
THEOREM PostsKeepPromise ==
    ASSUME Timely
    PROVE  PostSpec => KeepsPromise /\ [](Exclusive /\ RepeatedOnlyAfterExpiry /\ ReplayFaithful)
  BY PostsAreIdempotent, PromiseIsKept, LockExcludes, NoEarlyRepeat, ReplaysAreFaithful, PTL
=============================================================================
