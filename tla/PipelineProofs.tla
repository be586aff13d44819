--------------------------- MODULE PipelineProofs ---------------------------
(***************************************************************************)
(* Theorems about Pipeline, for any number of clients and requests, any    *)
(* limits and any ttl.                                                     *)
(*                                                                         *)
(* The throttlers forget: a count expires, and a block that ends drops all *)
(* the counts of its key; and they remember too much, when the end of a    *)
(* block stops the timers of others.  The inductive invariant says what    *)
(* they still know while no block is on: all they let on in the last ttl,  *)
(* and nothing older than a refusal; and that a block began with a limit   *)
(* of requests let on since the block before, and let nothing on since.    *)
(***************************************************************************)
EXTENDS Pipeline, FiniteSetTheorems, TLAPS

Keys == Clients \X Routes

\* Throttler n has let request q of client and route k on, in the requests rq.
Crossed(rq, n, k, q) ==
    /\ rq[q].stage # "idle" /\ <<rq[q].client, rq[q].route>> = k
    /\ ~Skips(k[2], n) /\ rq[q].by \in {None, "auth"} \ {n}

\* Those it let on in the d ticks that end with t.
Within(rq, n, k, t, d) ==
    {q \in Requests : Crossed(rq, n, k, q) /\ rq[q].time <= t /\ t < rq[q].time + d}

\* Throttler n has refused request p of client and route k.
Refused(rq, n, k, p) ==
    p \in Requests /\ rq[p].by = n /\ <<rq[p].client, rq[p].route>> = k

\* The requests it let on after p came.
After(rq, n, k, p) == {x \in Requests : p < x /\ Crossed(rq, n, k, x)}

\* A request that has arrived has a client, a route and a time; only such a
\* request is counted, refused or inside, inside the status is 200; and requests
\* arrive in their order.
Stamped ==
    /\ \A q \in Requests :
         /\ req[q].stage # "idle" => Key(q) \in Keys /\ req[q].time <= now
         /\ req[q].stage = "idle" =>
              req[q].by = None /\ \A n \in Throttlers : q \notin hits[n]
         /\ req[q].stage = "inside" => req[q].status = 200
    /\ \A p, q \in Requests : p < q /\ req[p].stage = "idle" => req[q].stage = "idle"

\* While no block is on, a throttler counts all it let on in the last ttl, and
\* nothing but requests it let on after it last refused one.
LiveInv ==
    \A n \in Throttlers, k \in Keys : until[n][k] = 0 =>
        /\ ~Skips(k[2], n) => Within(req, n, k, now, Ttl) \subseteq hits[n]
        /\ \A x \in hits[n] : Key(x) = k =>
             Crossed(req, n, k, x) /\ \A p : Refused(req, n, k, p) => p < x

\* A block began when a limit of requests had been let on, in all and after each
\* refusal of an earlier block, and nothing was let on since.
BegunAt(n, k, b) ==
    /\ until[n][k] = b + Ttl
    /\ \A p \in 0..MaxRequests :
         p = 0 \/ (Refused(req, n, k, p) /\ req[p].time < b) =>
           Cardinality(After(req, n, k, p)) >= Limit(n)
    /\ \A q \in Requests : Crossed(req, n, k, q) => req[q].time <= b
BlockInv ==
    \A n \in Throttlers, k \in Keys :
        until[n][k] # 0 => \E b \in 0..now : BegunAt(n, k, b)

\* The conjuncts of TypeOK.
ReqType == [stage : Stages, client : Clients \cup {None}, route : Routes \cup {None},
            time : 0..MaxTime, by : Throttlers \cup {None}, status : Statuses \cup {None}]
StoreType ==
    /\ hits \in [Throttlers -> SUBSET Requests]
    /\ lasting \in [Throttlers -> SUBSET Requests]
    /\ until \in [Throttlers -> [Keys -> 0..(MaxTime + Ttl)]]
BaseType == now \in 0..MaxTime /\ req \in [Requests -> ReqType] /\ StoreType

PInv == BaseType /\ Stamped /\ LiveInv /\ BlockInv

LEMMA LetOnIsCrossed ==
    /\ \A n, k, q : LetOn(n, k, q) <=> Crossed(req, n, k, q)
    /\ \A n, k, q : LetOn(n, k, q)' <=> Crossed(req', n', k', q')
  BY DEF LetOn, Crossed, Key

LEMMA RequestsFinite ==
    /\ IsFiniteSet(Requests) /\ Cardinality(Requests) = MaxRequests
    /\ \A S \in SUBSET Requests : IsFiniteSet(S) /\ Cardinality(S) \in 0..MaxRequests
<1>1. IsFiniteSet(Requests) /\ Cardinality(Requests) = MaxRequests
  BY PipelineAssumption, FS_Interval DEF Requests
<1>2. \A S \in SUBSET Requests : IsFiniteSet(S) /\ Cardinality(S) <= MaxRequests
  BY <1>1, FS_Subset
<1> QED
  BY <1>1, <1>2, FS_CardinalityType, PipelineAssumption

LEMMA WithinFinite ==
    ASSUME NEW rq, NEW n, NEW k, NEW t, NEW d
    PROVE  /\ Within(rq, n, k, t, d) \subseteq Requests
           /\ IsFiniteSet(Within(rq, n, k, t, d))
           /\ Cardinality(Within(rq, n, k, t, d)) \in Nat
<1>1. Within(rq, n, k, t, d) \subseteq Requests
  BY DEF Within
<1> QED
  BY <1>1, RequestsFinite, PipelineAssumption

LEMMA AfterFinite ==
    ASSUME NEW rq, NEW n, NEW k, NEW p
    PROVE  IsFiniteSet(After(rq, n, k, p)) /\ Cardinality(After(rq, n, k, p)) \in Nat
<1>1. After(rq, n, k, p) \subseteq Requests
  BY DEF After
<1> QED
  BY <1>1, RequestsFinite, PipelineAssumption

LEMMA Limits ==
    /\ \A n \in Throttlers : Limit(n) \in Nat \ {0} /\ Documented[n] = Limit(n)
  BY PipelineAssumption DEF Limit, Documented, Throttlers

-----------------------------------------------------------------------------
\* A step that changes what a request is doing and nothing of what the
\* throttlers know.
Onward ==
    /\ UNCHANGED <<now, hits, lasting, until>>
    /\ req' \in [Requests -> ReqType]
    /\ \A q \in Requests :
         /\ req'[q].client = req[q].client /\ req'[q].route = req[q].route
         /\ req'[q].time = req[q].time /\ req'[q].by = req[q].by
         /\ req'[q].stage = "idle" <=> req[q].stage = "idle"
         /\ req'[q].stage = "inside" => req'[q].status = 200

\* What the four steps of a request have in common.
LEMMA Ended ==
    ASSUME PInv, NEW r \in Requests, req[r].stage # "idle",
           UNCHANGED <<now, hits, lasting, until>>, req' \in [Requests -> ReqType],
           \A q \in Requests : q # r => req'[q] = req[q],
           req'[r].client = req[r].client, req'[r].route = req[r].route,
           req'[r].time = req[r].time, req'[r].by = req[r].by,
           req'[r].stage # "idle", req'[r].stage = "inside" => req'[r].status = 200
    PROVE  Onward
<1>1. ASSUME NEW q \in Requests
      PROVE  /\ req'[q].client = req[q].client /\ req'[q].route = req[q].route
             /\ req'[q].time = req[q].time /\ req'[q].by = req[q].by
             /\ req'[q].stage = "idle" <=> req[q].stage = "idle"
             /\ req'[q].stage = "inside" => req'[q].status = 200
  <2>1. CASE q = r
    BY <2>1
  <2>2. CASE q # r
    BY <2>2 DEF PInv, Stamped
  <2> QED
    BY <2>1, <2>2
<1> QED
  BY <1>1 DEF Onward

LEMMA StepOnward ==
    ASSUME PInv, NEW r \in Requests, Admit(r) \/ Deny(r) \/ Return(r) \/ Throw(r)
    PROVE  Onward
<1>1. 200 \in Statuses /\ 401 \in Statuses /\ HandlerErrors \subseteq Statuses
  BY DEF Statuses
<1>2. req \in [Requests -> ReqType] /\ req[r] \in ReqType
  BY DEF PInv, BaseType
<1>3. req[r].stage # "idle" /\ UNCHANGED <<now, hits, lasting, until>>
  BY DEF Admit, Deny, Return, Throw
<1>4. CASE Admit(r)
  <2>1. PICK s \in Statuses : s = 200
    BY <1>1
  <2>2. req' = [req EXCEPT ![r] = [@ EXCEPT !.stage = "inside", !.status = s]]
    BY <1>4, <2>1 DEF Admit
  <2>3. \A x \in ReqType : LET y == [x EXCEPT !.stage = "inside", !.status = s] IN
          /\ y \in ReqType /\ y.stage = "inside" /\ y.status = s
          /\ y.client = x.client /\ y.route = x.route /\ y.time = x.time /\ y.by = x.by
    BY DEF ReqType, Stages
  <2>4. /\ req'[r] = [req[r] EXCEPT !.stage = "inside", !.status = s]
        /\ \A q \in Requests : q # r => req'[q] = req[q]
    BY <1>2, <2>2
  <2>5. req' \in [Requests -> ReqType]
    BY <1>2, <2>2, <2>3
  <2>6. /\ req'[r].stage = "inside" /\ req'[r].status = s
        /\ req'[r].client = req[r].client /\ req'[r].route = req[r].route
        /\ req'[r].time = req[r].time /\ req'[r].by = req[r].by
    BY <1>2, <2>3, <2>4
  <2>7. req'[r].stage # "idle" /\ (req'[r].stage = "inside" => req'[r].status = 200)
    BY <2>1, <2>6
  <2> QED
    BY <1>3, <2>4, <2>5, <2>6, <2>7, Ended
<1>5. CASE Deny(r)
  <2>1. PICK s \in Statuses : s = 401
    BY <1>1
  <2>2. req' = [req EXCEPT ![r] = [@ EXCEPT !.stage = "refused", !.status = s]]
    BY <1>5, <2>1 DEF Deny
  <2>3. \A x \in ReqType : LET y == [x EXCEPT !.stage = "refused", !.status = s] IN
          /\ y \in ReqType /\ y.stage = "refused" /\ y.status = s
          /\ y.client = x.client /\ y.route = x.route /\ y.time = x.time /\ y.by = x.by
    BY DEF ReqType, Stages
  <2>4. /\ req'[r] = [req[r] EXCEPT !.stage = "refused", !.status = s]
        /\ \A q \in Requests : q # r => req'[q] = req[q]
    BY <1>2, <2>2
  <2>5. req' \in [Requests -> ReqType]
    BY <1>2, <2>2, <2>3
  <2>6. /\ req'[r].stage = "refused" /\ req'[r].status = s
        /\ req'[r].client = req[r].client /\ req'[r].route = req[r].route
        /\ req'[r].time = req[r].time /\ req'[r].by = req[r].by
    BY <1>2, <2>3, <2>4
  <2>7. req'[r].stage # "idle" /\ (req'[r].stage = "inside" => req'[r].status = 200)
    BY <2>1, <2>6
  <2> QED
    BY <1>3, <2>4, <2>5, <2>6, <2>7, Ended
<1>6. CASE Return(r)
  <2>1. req' = [req EXCEPT ![r].stage = "answered"]
    BY <1>6 DEF Return
  <2>2. \A x \in ReqType : LET y == [x EXCEPT !.stage = "answered"] IN
          /\ y \in ReqType /\ y.stage = "answered"
          /\ y.client = x.client /\ y.route = x.route /\ y.time = x.time /\ y.by = x.by
    BY DEF ReqType, Stages
  <2>3. /\ req'[r] = [req[r] EXCEPT !.stage = "answered"]
        /\ \A q \in Requests : q # r => req'[q] = req[q]
    BY <1>2, <2>1
  <2>4. req' \in [Requests -> ReqType]
    BY <1>2, <2>1, <2>2
  <2>5. /\ req'[r].stage = "answered"
        /\ req'[r].client = req[r].client /\ req'[r].route = req[r].route
        /\ req'[r].time = req[r].time /\ req'[r].by = req[r].by
    BY <1>2, <2>2, <2>3
  <2> QED
    BY <1>3, <2>3, <2>4, <2>5, Ended
<1>7. CASE Throw(r)
  <2>1. PICK s \in HandlerErrors :
          req' = [req EXCEPT ![r] = [@ EXCEPT !.stage = "answered", !.status = s]]
    BY <1>7 DEF Throw
  <2>2. s \in Statuses
    BY <1>1
  <2>3. \A x \in ReqType : LET y == [x EXCEPT !.stage = "answered", !.status = s] IN
          /\ y \in ReqType /\ y.stage = "answered"
          /\ y.client = x.client /\ y.route = x.route /\ y.time = x.time /\ y.by = x.by
    BY <2>2 DEF ReqType, Stages
  <2>4. /\ req'[r] = [req[r] EXCEPT !.stage = "answered", !.status = s]
        /\ \A q \in Requests : q # r => req'[q] = req[q]
    BY <1>2, <2>1
  <2>5. req' \in [Requests -> ReqType]
    BY <1>2, <2>1, <2>3
  <2>6. /\ req'[r].stage = "answered"
        /\ req'[r].client = req[r].client /\ req'[r].route = req[r].route
        /\ req'[r].time = req[r].time /\ req'[r].by = req[r].by
    BY <1>2, <2>3, <2>4
  <2> QED
    BY <1>3, <2>4, <2>5, <2>6, Ended
<1> QED
  BY <1>4, <1>5, <1>6, <1>7

\* A step that leaves client, route, time and refusal of all requests leaves the
\* sets of those let on.
LEMMA SameRequests ==
    ASSUME \A q \in Requests :
             /\ req'[q].client = req[q].client /\ req'[q].route = req[q].route
             /\ req'[q].time = req[q].time /\ req'[q].by = req[q].by
             /\ req'[q].stage = "idle" <=> req[q].stage = "idle"
    PROVE  \A n, k :
             /\ \A q \in Requests : Crossed(req', n, k, q) <=> Crossed(req, n, k, q)
             /\ \A t, d : Within(req', n, k, t, d) = Within(req, n, k, t, d)
             /\ \A p : Refused(req', n, k, p) <=> Refused(req, n, k, p)
             /\ \A p : After(req', n, k, p) = After(req, n, k, p)
<1>1. \A n, k : \A q \in Requests : Crossed(req', n, k, q) <=> Crossed(req, n, k, q)
  BY DEF Crossed
<1>2. ASSUME NEW n, NEW k, NEW t, NEW d
      PROVE  Within(req', n, k, t, d) = Within(req, n, k, t, d)
  BY <1>1 DEF Within
<1>3. \A n, k, p : Refused(req', n, k, p) <=> Refused(req, n, k, p)
  BY DEF Refused
<1>4. \A n, k, p : After(req', n, k, p) = After(req, n, k, p)
  BY <1>1 DEF After
<1> QED
  BY <1>1, <1>2, <1>3, <1>4

LEMMA OnwardKeeps ==
    ASSUME PInv, Onward
    PROVE  PInv'
<1>1. \A n, k :
        /\ \A q \in Requests : Crossed(req', n, k, q) <=> Crossed(req, n, k, q)
        /\ \A t, d : Within(req', n, k, t, d) = Within(req, n, k, t, d)
        /\ \A p : Refused(req', n, k, p) <=> Refused(req, n, k, p)
        /\ \A p : After(req', n, k, p) = After(req, n, k, p)
  BY SameRequests DEF Onward
<1>2. BaseType'
  BY DEF Onward, PInv, BaseType, StoreType
<1>3. Stamped'
  BY DEF Onward, PInv, Stamped, Key
<1>4. LiveInv'
  <2> SUFFICES ASSUME NEW n \in Throttlers, NEW k \in Keys, until[n][k] = 0
               PROVE  /\ ~Skips(k[2], n) => Within(req', n, k, now, Ttl) \subseteq hits[n]
                      /\ \A x \in hits[n] : Key(x)' = k =>
                           Crossed(req', n, k, x) /\ \A p : Refused(req', n, k, p) => p < x
    BY DEF LiveInv, Onward
  <2>1. hits[n] \subseteq Requests
    BY DEF PInv, BaseType, StoreType
  <2>2. \A x \in Requests : Key(x)' = Key(x)
    BY DEF Key, Onward
  <2> QED
    BY <1>1, <2>1, <2>2 DEF PInv, LiveInv
<1>5. BlockInv'
  <2> SUFFICES ASSUME NEW n \in Throttlers, NEW k \in Keys, until'[n][k] # 0
               PROVE  \E b \in 0..now' : BegunAt(n, k, b)'
    BY DEF BlockInv
  <2>1. now' = now /\ until' = until /\ \A q \in Requests : req'[q].time = req[q].time
    BY DEF Onward
  <2>2. PICK b \in 0..now : BegunAt(n, k, b)
    BY <2>1 DEF PInv, BlockInv
  <2>3. BegunAt(n, k, b)'
    BY <1>1, <2>1, <2>2 DEF BegunAt, Limit, Refused
  <2> QED
    BY <2>1, <2>3
<1> QED
  BY <1>2, <1>3, <1>4, <1>5 DEF PInv

LEMMA TickKeeps ==
    ASSUME PInv, Tick
    PROVE  PInv'
<1>1. /\ now' = now + 1 /\ now' \in 0..MaxTime /\ now \in Nat
      /\ req' = req /\ hits' = hits /\ lasting' = lasting /\ until' = until
  BY PipelineAssumption DEF Tick, PInv, BaseType
<1>2. \A q \in Requests : req[q].time \in Nat
  BY PipelineAssumption DEF PInv, BaseType, ReqType
<1>3. BaseType' /\ Stamped'
  BY <1>1, <1>2 DEF PInv, BaseType, StoreType, Stamped, Key
<1>4. LiveInv'
  <2> SUFFICES ASSUME NEW n \in Throttlers, NEW k \in Keys, until[n][k] = 0
               PROVE  /\ ~Skips(k[2], n) => Within(req, n, k, now + 1, Ttl) \subseteq hits[n]
                      /\ \A x \in hits[n] : Key(x) = k =>
                           Crossed(req, n, k, x) /\ \A p : Refused(req, n, k, p) => p < x
    BY <1>1 DEF LiveInv, Key
  <2>1. \A q \in Requests : Crossed(req, n, k, q) => req[q].time <= now
    BY DEF PInv, Stamped, Crossed
  <2>2. Within(req, n, k, now + 1, Ttl) \subseteq Within(req, n, k, now, Ttl)
    BY <1>1, <1>2, <2>1, PipelineAssumption DEF Within
  <2> QED
    BY <2>2 DEF PInv, LiveInv
<1>5. BlockInv'
  <2> SUFFICES ASSUME NEW n \in Throttlers, NEW k \in Keys, until[n][k] # 0
               PROVE  \E b \in 0..now' : BegunAt(n, k, b)'
    BY <1>1 DEF BlockInv
  <2>1. PICK b \in 0..now : BegunAt(n, k, b)
    BY DEF PInv, BlockInv
  <2>2. BegunAt(n, k, b)' /\ b \in 0..now'
    BY <1>1, <2>1 DEF BegunAt, Limit
  <2> QED
    BY <2>2
<1> QED
  BY <1>3, <1>4, <1>5 DEF PInv

LEMMA InitHolds == Init => PInv
<1> SUFFICES ASSUME Init PROVE PInv
  OBVIOUS
<1>1. /\ now = 0
      /\ \A q \in Requests : req[q] = [stage |-> "idle", client |-> None, route |-> None,
                                       time |-> 0, by |-> None, status |-> None]
      /\ \A n \in Throttlers : hits[n] = {} /\ lasting[n] = {}
      /\ \A n \in Throttlers, k \in Keys : until[n][k] = 0
  BY DEF Init, Keys
<1>2. BaseType
  <2>1. [stage |-> "idle", client |-> None, route |-> None,
         time |-> 0, by |-> None, status |-> None] \in ReqType
    BY PipelineAssumption DEF ReqType, Stages
  <2>2. req \in [Requests -> ReqType]
    BY <2>1 DEF Init
  <2>3. now \in 0..MaxTime /\ 0 \in 0..(MaxTime + Ttl)
    BY <1>1, PipelineAssumption
  <2> QED
    BY <2>2, <2>3 DEF BaseType, StoreType, Init, Keys
<1>3. Stamped
  BY <1>1 DEF Stamped
<1>4. \A n, k : \A q \in Requests : ~Crossed(req, n, k, q)
  BY <1>1 DEF Crossed
<1>5. LiveInv
  BY <1>1, <1>4 DEF LiveInv, Within
<1>6. BlockInv
  BY <1>1 DEF BlockInv
<1> QED
  BY <1>2, <1>3, <1>5, <1>6 DEF PInv
-----------------------------------------------------------------------------
\* A request arrives: what it finds, and whom it passes.
Arrived(q, k) ==
    /\ k \in Keys /\ req[q].stage = "idle" /\ now' = now
    /\ \A p \in Requests : p # q => req'[p] = req[p]
    /\ req'[q].stage \in {"guards", "refused"} /\ Key(q)' = k
    /\ req'[q].time = now /\ req'[q].by = RefusedBy(k)

LEMMA ArrivesAs ==
    ASSUME PInv, NEW q \in Requests, NEW c \in Clients, NEW r \in Routes, Arrive(q, c, r)
    PROVE  Arrived(q, <<c, r>>) /\ req' \in [Requests -> ReqType]
<1> DEFINE k == <<c, r>>
           y == [stage  |-> IF RefusedBy(k) = None THEN "guards" ELSE "refused",
                 client |-> c, route |-> r, time |-> now, by |-> RefusedBy(k),
                 status |-> IF RefusedBy(k) = None THEN None ELSE 429]
<1>1. req' = [req EXCEPT ![q] = y] /\ req[q].stage = "idle" /\ now' = now
  BY DEF Arrive
<1>2. req \in [Requests -> ReqType] /\ now \in 0..MaxTime
  BY DEF PInv, BaseType
<1>3. RefusedBy(k) \in Throttlers \cup {None}
  BY DEF RefusedBy, Asked
<1>4. (IF RefusedBy(k) = None THEN None ELSE 429) \in Statuses \cup {None}
  BY DEF Statuses
<1>5. y \in ReqType
  BY <1>2, <1>3, <1>4 DEF ReqType, Stages
<1>6. req' \in [Requests -> ReqType] /\ req'[q] = y /\ \A p \in Requests : p # q => req'[p] = req[p]
  <2> HIDE DEF y
  <2> QED
    BY <1>1, <1>2, <1>5
<1>7. k \in Keys
  BY DEF Keys
<1>8. /\ y.stage \in {"guards", "refused"} /\ y.client = c /\ y.route = r
      /\ y.time = now /\ y.by = RefusedBy(k)
  OBVIOUS
<1>9. <<req'[q].client, req'[q].route>> = k
  BY <1>6, <1>8
<1> QED
  BY <1>1, <1>6, <1>7, <1>8, <1>9 DEF Arrived, Key

\* The guard stops at the first throttler that refuses.
LEMMA FirstRefuses ==
    ASSUME NEW k
    PROVE  /\ RefusedBy(k) # None => RefusedBy(k) \in Asked(k) /\ ~LetsOn(RefusedBy(k), k)
           /\ \A n \in Throttlers :
                (~Skips(k[2], n) /\ RefusedBy(k) \in {None, "auth"} \ {n})
                  <=> (n \in Asked(k) /\ LetsOn(n, k))
<1>1. None \notin Throttlers /\ Asked(k) \subseteq Throttlers
  BY PipelineAssumption DEF Throttlers, Asked
<1>2. RefusedBy(k) # None => RefusedBy(k) \in Asked(k) /\ ~LetsOn(RefusedBy(k), k)
  BY DEF RefusedBy
<1>3. RefusedBy(k) = None => \A n \in Asked(k) : LetsOn(n, k)
  <2>1. ASSUME \E n \in Asked(k) : ~LetsOn(n, k)
        PROVE  RefusedBy(k) \in Asked(k)
    BY <2>1 DEF RefusedBy
  <2> QED
    BY <1>1, <2>1
<1>4. /\ "default" \in Asked(k) <=> ~Skips(k[2], "default")
      /\ "auth" \in Asked(k) <=> Skips(k[2], "default") \/ LetsOn("default", k)
      /\ ~Skips(k[2], "auth")
  BY DEF Asked, Throttlers, Skips
<1>5. "default" # "auth" /\ Throttlers = {"default", "auth"}
  BY DEF Throttlers
<1> QED
  BY <1>1, <1>2, <1>3, <1>4, <1>5

\* What the arrival of q changes in the sets of requests let on.
LEMMA ArrivalCrosses ==
    ASSUME PInv, NEW q \in Requests, NEW k, Arrived(q, k), NEW n \in Throttlers, NEW j
    PROVE  /\ Crossed(req', n, j, q) <=> j = k /\ n \in Asked(k) /\ LetsOn(n, k)
           /\ ~Crossed(req, n, j, q)
           /\ \A p \in Requests : p # q => (Crossed(req', n, j, p) <=> Crossed(req, n, j, p))
           /\ \A p \in Requests : Crossed(req, n, j, p) => req[p].time <= now /\ p < q
<1>1. /\ <<req'[q].client, req'[q].route>> = k /\ req'[q].stage # "idle"
      /\ req'[q].by = RefusedBy(k) /\ req[q].stage = "idle"
      /\ \A p \in Requests : p # q => req'[p] = req[p]
  BY DEF Arrived, Key
<1>2. Crossed(req', n, j, q) <=> j = k /\ n \in Asked(k) /\ LetsOn(n, k)
  BY <1>1, FirstRefuses DEF Crossed
<1>3. /\ ~Crossed(req, n, j, q)
      /\ \A p \in Requests : p # q => (Crossed(req', n, j, p) <=> Crossed(req, n, j, p))
  BY <1>1 DEF Crossed
<1>4. \A p \in Requests : Crossed(req, n, j, p) => req[p].time <= now /\ p < q
  <2>1. \A p \in Requests : req[p].stage # "idle" => p < q
    BY <1>1 DEF PInv, Stamped, Requests
  <2> QED
    BY <2>1 DEF Crossed, PInv, Stamped
<1> QED
  BY <1>2, <1>3, <1>4

\* What it changes in the sets of those refused.
LEMMA ArrivalRefused ==
    ASSUME PInv, NEW q \in Requests, NEW k, Arrived(q, k), NEW n \in Throttlers, NEW j
    PROVE  /\ Refused(req', n, j, q) <=> j = k /\ RefusedBy(k) = n
           /\ \A p : p # q => (Refused(req', n, j, p) <=> Refused(req, n, j, p))
           /\ \A p : Refused(req, n, j, p) => p \in Requests /\ p < q
<1>1. /\ <<req'[q].client, req'[q].route>> = k
      /\ req'[q].by = RefusedBy(k) /\ req[q].stage = "idle"
      /\ \A p \in Requests : p # q => req'[p] = req[p]
  BY DEF Arrived, Key
<1>2. /\ Refused(req', n, j, q) <=> j = k /\ RefusedBy(k) = n
      /\ \A p : p # q => (Refused(req', n, j, p) <=> Refused(req, n, j, p))
  BY <1>1 DEF Refused
<1>3. ASSUME NEW p, Refused(req, n, j, p)
      PROVE  p \in Requests /\ p < q
  <2>1. p \in Requests /\ req[p].by # None
    BY <1>3, PipelineAssumption DEF Refused, Throttlers
  <2> QED
    BY <1>1, <2>1 DEF PInv, Stamped, Requests
<1> QED
  BY <1>2, <1>3

LEMMA ArrivalWithin ==
    ASSUME PInv, NEW q \in Requests, NEW k, Arrived(q, k), NEW n \in Throttlers, NEW j,
           NEW t, NEW d
    PROVE  /\ ~Crossed(req', n, j, q) => Within(req', n, j, t, d) = Within(req, n, j, t, d)
           /\ Within(req, n, j, t, d) \subseteq Within(req', n, j, t, d)
           /\ Within(req', n, j, t, d) \subseteq Within(req, n, j, t, d) \cup {q}
           /\ q \in Within(req', n, j, t, d) =>
                Crossed(req', n, j, q) /\ now <= t /\ t < now + d
           /\ Crossed(req', n, j, q) /\ now <= t /\ t < now + d =>
                q \in Within(req', n, j, t, d)
<1>1. /\ ~Crossed(req, n, j, q) /\ req'[q].time = now
      /\ \A p \in Requests : p # q => req'[p] = req[p]
      /\ \A p \in Requests : p # q => (Crossed(req', n, j, p) <=> Crossed(req, n, j, p))
  BY ArrivalCrosses DEF Arrived
<1> QED
  BY <1>1 DEF Within

LEMMA ArrivalAfter ==
    ASSUME PInv, NEW q \in Requests, NEW k, Arrived(q, k), NEW n \in Throttlers, NEW j,
           NEW p, NEW L \in Nat, Cardinality(After(req, n, j, p)) >= L
    PROVE  Cardinality(After(req', n, j, p)) >= L
<1>1. After(req, n, j, p) \subseteq After(req', n, j, p)
  BY ArrivalCrosses DEF After
<1>2. Cardinality(After(req, n, j, p)) <= Cardinality(After(req', n, j, p))
  BY <1>1, AfterFinite, FS_Subset
<1> QED
  BY <1>2, AfterFinite

\* A throttler that refuses the next request of k while no block of k is on has
\* let a limit of them on since any it refused.
LEMMA FullCount ==
    ASSUME PInv, NEW n \in Throttlers, NEW k \in Keys, until[n][k] = 0, ~LetsOn(n, k),
           NEW p, p = 0 \/ Refused(req, n, k, p)
    PROVE  Cardinality(After(req, n, k, p)) >= Limit(n)
<1>1. Live(n, k) \subseteq After(req, n, k, p)
  <2>1. \A x \in Requests : x > 0
    BY DEF Requests
  <2>2. \A x \in Live(n, k) :
          x \in Requests /\ Crossed(req, n, k, x) /\ \A y : Refused(req, n, k, y) => y < x
    BY DEF Live, Counted, PInv, LiveInv
  <2> QED
    BY <2>1, <2>2 DEF After
<1>2. IsFiniteSet(After(req, n, k, p)) /\ Cardinality(After(req, n, k, p)) \in Nat
  BY AfterFinite
<1>3. Cardinality(Live(n, k)) <= Cardinality(After(req, n, k, p)) /\ Cardinality(Live(n, k)) \in Nat
  BY <1>1, <1>2, FS_Subset, FS_CardinalityType
<1>4. ~(Cardinality(Live(n, k)) < Limit(n)) /\ Limit(n) \in Nat
  BY Limits DEF LetsOn
<1> QED
  BY <1>2, <1>3, <1>4

LEMMA ArriveKeeps ==
    ASSUME PInv, NEW q \in Requests, NEW c \in Clients, NEW r \in Routes, Arrive(q, c, r)
    PROVE  PInv'
<1> DEFINE k == <<c, r>>
<1>1. Arrived(q, k) /\ req' \in [Requests -> ReqType] /\ k \in Keys
  BY ArrivesAs DEF Keys
<1>2. /\ now \in 0..MaxTime /\ now' = now /\ now \in Nat
      /\ hits \in [Throttlers -> SUBSET Requests]
      /\ lasting \in [Throttlers -> SUBSET Requests]
      /\ until \in [Throttlers -> [Keys -> 0..(MaxTime + Ttl)]]
      /\ req \in [Requests -> ReqType]
  BY <1>1, PipelineAssumption DEF Arrived, PInv, BaseType, StoreType
<1>3. /\ \A n \in Throttlers : hits'[n] = IF n \in Asked(k) THEN HitsAfter(n, q, k) ELSE hits[n]
      /\ \A n \in Throttlers : until'[n] = IF n \in Asked(k)
                                           THEN [until[n] EXCEPT ![k] = BlockAfter(n, k)]
                                           ELSE until[n]
  BY DEF Arrive
<1>4. ASSUME NEW n \in Throttlers
      PROVE  /\ until[n][k] > now \/ until[n][k] \in 1..now \/ until[n][k] = 0
             /\ until[n][k] \in 0..(MaxTime + Ttl)
             /\ BlockAfter(n, k) \in 0..(MaxTime + Ttl)
             /\ HitsAfter(n, q, k) \subseteq Requests
             /\ HitsAfter(n, q, k) \subseteq hits[n] \cup {q}
             /\ \A p \in hits[n] : Key(p) # k => p \in HitsAfter(n, q, k)
             /\ LastingAfter(n, k) \subseteq Requests
  <2>1. until[n][k] \in 0..(MaxTime + Ttl) /\ hits[n] \subseteq Requests
    BY <1>1, <1>2
  <2>2. until[n][k] > now \/ until[n][k] \in 1..now \/ until[n][k] = 0
    BY <1>2, <2>1, PipelineAssumption
  <2>3. BlockAfter(n, k) \in 0..(MaxTime + Ttl)
    BY <1>2, <2>1, <2>2, PipelineAssumption DEF BlockAfter
  <2>4. /\ HitsAfter(n, q, k) \subseteq hits[n] \cup {q}
        /\ \A p \in hits[n] : Key(p) # k => p \in HitsAfter(n, q, k)
    BY <1>2, <2>1, <2>2 DEF HitsAfter
  <2>5. LastingAfter(n, k) \subseteq Requests
    BY <1>2 DEF LastingAfter
  <2> QED
    BY <2>1, <2>2, <2>3, <2>4, <2>5
<1>5. BaseType'
  <2>1. hits' \in [Throttlers -> SUBSET Requests]
    BY <1>2, <1>4 DEF Arrive
  <2>2. until' \in [Throttlers -> [Keys -> 0..(MaxTime + Ttl)]]
    <3>1. ASSUME NEW n \in Throttlers
          PROVE  until'[n] \in [Keys -> 0..(MaxTime + Ttl)]
      <4>1. until[n] \in [Keys -> 0..(MaxTime + Ttl)]
        BY <1>2
      <4>2. BlockAfter(n, k) \in 0..(MaxTime + Ttl)
        BY <1>4
      <4>3. until'[n] = [until[n] EXCEPT ![k] = BlockAfter(n, k)] \/ until'[n] = until[n]
        BY <1>3
      <4> HIDE DEF k
      <4> QED
        BY <4>1, <4>2, <4>3
    <3>2. until' = [n \in Throttlers |-> until'[n]]
      BY DEF Arrive
    <3> QED
      BY <3>1, <3>2
  <2>3. lasting' \in [Throttlers -> SUBSET Requests]
    BY <1>2, <1>4 DEF Arrive
  <2> QED
    BY <1>1, <1>2, <2>1, <2>2, <2>3 DEF BaseType, StoreType
<1>6. Stamped'
  <2>1. ASSUME NEW p \in Requests
        PROVE  /\ req'[p].stage # "idle" => Key(p)' \in Keys /\ req'[p].time <= now'
               /\ req'[p].stage = "idle" =>
                    req'[p].by = None /\ \A n \in Throttlers : p \notin hits'[n]
               /\ req'[p].stage = "inside" => req'[p].status = 200
    <3>1. CASE p = q
      <4>1. req'[q].stage \in {"guards", "refused"} /\ Key(q)' = k /\ req'[q].time = now
        BY <1>1 DEF Arrived
      <4>2. now <= now' /\ k \in Keys
        BY <1>1, <1>2
      <4> HIDE DEF k
      <4> QED
        BY <3>1, <4>1, <4>2
    <3>2. CASE p # q
      <4>1. req'[p] = req[p] /\ Key(p)' = Key(p)
        BY <1>1, <3>2 DEF Arrived, Key
      <4>2. \A n \in Throttlers : p \in hits'[n] => p \in hits[n]
        BY <1>3, <1>4, <3>2
      <4> QED
        BY <1>2, <4>1, <4>2 DEF PInv, Stamped
    <3> QED
      BY <3>1, <3>2
  <2>2. ASSUME NEW p \in Requests, NEW x \in Requests, p < x, req'[p].stage = "idle"
        PROVE  req'[x].stage = "idle"
    <3>1. p # q /\ req[p].stage = "idle"
      BY <1>1, <2>2 DEF Arrived
    <3>2. x # q
      BY <2>2, <3>1 DEF Arrive
    <3> QED
      BY <1>1, <2>2, <3>1, <3>2 DEF Arrived, PInv, Stamped
  <2> QED
    BY <2>1, <2>2 DEF Stamped
\* A throttler not asked, and any throttler for another client or route.
<1>7. ASSUME NEW n \in Throttlers, NEW j \in Keys, n \notin Asked(k) \/ j # k
      PROVE  /\ until'[n][j] = until[n][j] /\ ~Crossed(req', n, j, q) /\ ~Refused(req', n, j, q)
             /\ \A p \in hits'[n] : Key(p)' = j => p \in hits[n] /\ Key(p) = j
             /\ \A p \in hits[n] : Key(p) = j => p \in hits'[n]
  <2>1. until'[n][j] = until[n][j]
    BY <1>1, <1>2, <1>3, <1>7
  <2>2. ~Crossed(req', n, j, q)
    BY <1>1, <1>7, ArrivalCrosses
  <2>3. ~Refused(req', n, j, q)
    BY <1>1, <1>7, ArrivalRefused, FirstRefuses, PipelineAssumption DEF Throttlers
  <2>4. \A p \in Requests : p # q => Key(p)' = Key(p)
    BY <1>1 DEF Arrived, Key
  <2>5. q \notin hits[n] /\ hits[n] \subseteq Requests /\ hits'[n] \subseteq Requests
    BY <1>1, <1>2, <1>5 DEF Arrived, PInv, Stamped, BaseType, StoreType
  <2>6. ASSUME NEW p \in hits'[n], Key(p)' = j
        PROVE  p \in hits[n] /\ Key(p) = j
    <3>1. p # q
      BY <1>1, <1>3, <1>7, <2>5, <2>6 DEF Arrived
    <3>2. p \in hits[n]
      BY <1>3, <1>4, <2>6, <3>1
    <3> QED
      BY <2>4, <2>5, <2>6, <3>1, <3>2
  <2>7. ASSUME NEW p \in hits[n], Key(p) = j
        PROVE  p \in hits'[n]
    BY <1>3, <1>4, <1>7, <2>7
  <2> QED
    BY <2>1, <2>2, <2>3, <2>6, <2>7
<1>8. LiveInv'
  <2> SUFFICES ASSUME NEW n \in Throttlers, NEW j \in Keys, until'[n][j] = 0
               PROVE  /\ ~Skips(j[2], n) => Within(req', n, j, now, Ttl) \subseteq hits'[n]
                      /\ \A x \in hits'[n] : Key(x)' = j =>
                           Crossed(req', n, j, x) /\ \A p : Refused(req', n, j, p) => p < x
    BY <1>2 DEF LiveInv
  <2>1. CASE n \notin Asked(k) \/ j # k
    <3>1. /\ until[n][j] = 0 /\ ~Crossed(req', n, j, q) /\ ~Refused(req', n, j, q)
          /\ \A p \in hits'[n] : Key(p)' = j => p \in hits[n] /\ Key(p) = j
          /\ \A p \in hits[n] : Key(p) = j => p \in hits'[n]
      BY <1>7, <2>1
    <3>2. ASSUME ~Skips(j[2], n), NEW x \in Within(req', n, j, now, Ttl)
          PROVE  x \in hits'[n]
      <4>1. x \in Within(req, n, j, now, Ttl)
        BY <1>1, <3>1, <3>2, ArrivalWithin
      <4>2. x \in hits[n] /\ Key(x) = j
        BY <3>1, <3>2, <4>1 DEF PInv, LiveInv, Within, Crossed, Key
      <4> QED
        BY <3>1, <4>2
    <3>3. ASSUME NEW x \in hits'[n], Key(x)' = j
          PROVE  Crossed(req', n, j, x) /\ \A p : Refused(req', n, j, p) => p < x
      <4>1. x \in hits[n] /\ Key(x) = j /\ x \in Requests
        BY <1>2, <3>1, <3>3
      <4>2. Crossed(req, n, j, x) /\ \A p : Refused(req, n, j, p) => p < x
        BY <3>1, <4>1 DEF PInv, LiveInv
      <4>3. Crossed(req', n, j, x)
        BY <1>1, <4>1, <4>2, ArrivalCrosses
      <4>4. \A p : Refused(req', n, j, p) => Refused(req, n, j, p)
        BY <1>1, <3>1, ArrivalRefused
      <4> QED
        BY <4>2, <4>3, <4>4
    <3> QED
      BY <3>2, <3>3
  <2>2. CASE n \in Asked(k) /\ j = k
    <3>1. until'[n][k] = BlockAfter(n, k) /\ hits'[n] = HitsAfter(n, q, k)
      BY <1>1, <1>2, <1>3, <2>2
    <3>2. ~(until[n][k] > now)
      BY <1>2, <1>4, <2>2, <3>1 DEF BlockAfter
    <3>3. LetsOn(n, k)
      BY <1>2, <1>4, <2>2, <3>1, <3>2, PipelineAssumption DEF BlockAfter, LetsOn
    <3>4. Crossed(req', n, k, q) /\ ~Refused(req', n, k, q)
      BY <1>1, <2>2, <3>3, ArrivalCrosses, ArrivalRefused, FirstRefuses,
         PipelineAssumption DEF Throttlers
    <3>5. \A p : Refused(req', n, k, p) => Refused(req, n, k, p) /\ p < q
      BY <1>1, <3>4, ArrivalRefused
    <3>6. Within(req', n, k, now, Ttl) \subseteq Within(req, n, k, now, Ttl) \cup {q}
      BY <1>1, ArrivalWithin
    <3>7. CASE until[n][k] = 0
      <4>1. hits'[n] = hits[n] \cup {q} /\ hits[n] \subseteq Requests
        BY <1>2, <3>1, <3>7 DEF HitsAfter
      <4>2. ~Skips(k[2], n) => Within(req, n, k, now, Ttl) \subseteq hits[n]
        BY <1>1, <3>7 DEF PInv, LiveInv
      <4>3. ASSUME NEW x \in hits'[n], Key(x)' = k
            PROVE  Crossed(req', n, k, x) /\ \A p : Refused(req', n, k, p) => p < x
        <5>1. CASE x = q
          BY <3>4, <3>5, <5>1
        <5>2. CASE x # q
          <6>1. x \in hits[n] /\ x \in Requests /\ Key(x) = k
            BY <1>1, <4>1, <4>3, <5>2 DEF Arrived, Key
          <6>2. Crossed(req, n, k, x) /\ \A p : Refused(req, n, k, p) => p < x
            BY <1>1, <3>7, <6>1 DEF PInv, LiveInv
          <6>3. Crossed(req', n, k, x)
            BY <1>1, <5>2, <6>1, <6>2, ArrivalCrosses
          <6> QED
            BY <3>5, <6>2, <6>3
        <5> QED
          BY <5>1, <5>2
      <4> HIDE DEF k
      <4> QED
        BY <2>2, <3>6, <4>1, <4>2, <4>3
    <3>8. CASE until[n][k] \in 1..now
      <4>1. hits'[n] = {p \in hits[n] : Key(p) # k} \cup {q} /\ hits[n] \subseteq Requests
        BY <1>2, <3>1, <3>8 DEF HitsAfter
      <4>2. PICK b \in 0..now : BegunAt(n, k, b)
        BY <1>1, <1>2, <3>8 DEF PInv, BlockInv
      <4>3. Within(req, n, k, now, Ttl) = {}
        <5>1. ASSUME NEW p \in Requests, Crossed(req, n, k, p)
              PROVE  ~(now < req[p].time + Ttl)
          <6>1. req[p].time <= b /\ until[n][k] = b + Ttl
            BY <4>2, <5>1 DEF BegunAt
          <6>2. until[n][k] <= now
            BY <1>2, <3>8
          <6>3. req[p].time \in 0..MaxTime
            BY <1>2 DEF ReqType
          <6> QED
            BY <1>2, <4>2, <6>1, <6>2, <6>3, PipelineAssumption
        <5> QED
          BY <5>1 DEF Within
      <4>4. ASSUME NEW x \in hits'[n], Key(x)' = k
            PROVE  x = q
        BY <1>1, <4>1, <4>4 DEF Arrived, Key
      <4> HIDE DEF k
      <4> QED
        BY <2>2, <3>4, <3>5, <3>6, <4>1, <4>3, <4>4
    <3> QED
      BY <1>4, <3>2, <3>7, <3>8
  <2> QED
    BY <2>1, <2>2
<1>9. BlockInv'
  <2> SUFFICES ASSUME NEW n \in Throttlers, NEW j \in Keys, until'[n][j] # 0
               PROVE  \E b \in 0..now : BegunAt(n, j, b)'
    BY <1>2 DEF BlockInv
  <2>0. Limit(n) \in Nat /\ req'[q].time = now
    BY <1>1, Limits DEF Arrived
  <2>1. ASSUME until'[n][j] = until[n][j], ~Crossed(req', n, j, q)
        PROVE  \E b \in 0..now : BegunAt(n, j, b)'
    <3>1. PICK b \in 0..now : BegunAt(n, j, b)
      BY <2>1 DEF PInv, BlockInv
    <3>2. ASSUME NEW p \in 0..MaxRequests,
                 p = 0 \/ (Refused(req', n, j, p) /\ req'[p].time < b)
          PROVE  Cardinality(After(req', n, j, p)) >= Limit(n)
      <4>1. p = 0 \/ (Refused(req, n, j, p) /\ req[p].time < b)
        <5>1. CASE p = q
          BY <1>2, <2>0, <3>1, <3>2, <5>1
        <5>2. CASE p # q
          BY <1>1, <3>2, <5>2, ArrivalRefused DEF Arrived, Refused
        <5> QED
          BY <5>1, <5>2
      <4>2. Cardinality(After(req, n, j, p)) >= Limit(n)
        BY <3>1, <4>1 DEF BegunAt
      <4> QED
        BY <1>1, <2>0, <4>2, ArrivalAfter
    <3>3. \A p \in Requests : Crossed(req', n, j, p) => req'[p].time <= b
      BY <1>1, <2>1, <3>1, ArrivalCrosses DEF BegunAt, Arrived
    <3> QED
      BY <2>1, <3>1, <3>2, <3>3 DEF BegunAt, Limit
  <2>2. CASE n \notin Asked(k) \/ j # k
    BY <1>7, <2>1, <2>2
  <2>3. CASE n \in Asked(k) /\ j = k
    <3>1. until'[n][k] = BlockAfter(n, k)
      BY <1>1, <1>2, <1>3, <2>3
    <3>2. CASE until[n][k] > now
      <4>1. until'[n][k] = until[n][k] /\ ~LetsOn(n, k)
        BY <1>2, <1>4, <3>1, <3>2 DEF BlockAfter, LetsOn
      <4> QED
        BY <1>1, <2>1, <2>3, <4>1, ArrivalCrosses
    <3>3. CASE until[n][k] = 0
      <4>1. until'[n][k] = now + Ttl /\ ~LetsOn(n, k)
        BY <1>2, <2>3, <3>1, <3>3, PipelineAssumption DEF BlockAfter
      <4>2. ~Crossed(req', n, k, q)
        BY <1>1, <4>1, ArrivalCrosses
      <4>3. ASSUME NEW p \in 0..MaxRequests,
                   p = 0 \/ (Refused(req', n, k, p) /\ req'[p].time < now)
            PROVE  Cardinality(After(req', n, k, p)) >= Limit(n)
        <5>1. p = 0 \/ Refused(req, n, k, p)
          <6>1. CASE p = q
            BY <1>2, <2>0, <4>3, <6>1
          <6>2. CASE p # q
            BY <1>1, <4>3, <6>2, ArrivalRefused
          <6> QED
            BY <6>1, <6>2
        <5>2. Cardinality(After(req, n, k, p)) >= Limit(n)
          BY <1>1, <3>3, <4>1, <5>1, FullCount
        <5> QED
          BY <1>1, <2>0, <5>2, ArrivalAfter
      <4>4. \A p \in Requests : Crossed(req', n, k, p) => req'[p].time <= now
        BY <1>1, <4>2, ArrivalCrosses DEF Arrived
      <4>5. PICK b \in 0..now : b = now
        BY <1>2
      <4>6. BegunAt(n, k, b)'
        BY <4>1, <4>3, <4>4, <4>5 DEF BegunAt, Limit
      <4> QED
        BY <2>3, <4>6
    <3>4. CASE until[n][k] \in 1..now
      BY <1>2, <1>4, <2>3, <3>1, <3>4 DEF BlockAfter
    <3> QED
      BY <1>4, <3>2, <3>3, <3>4
  <2> QED
    BY <2>2, <2>3
<1> QED
  BY <1>5, <1>6, <1>8, <1>9 DEF PInv
-----------------------------------------------------------------------------
\* A step of the system: a request arrives, or none does and the throttlers
\* know what they knew.
LEMMA Steps ==
    ASSUME PInv, [Next]_vars
    PROVE  \/ \E q \in Requests, c \in Clients, r \in Routes : Arrive(q, c, r)
           \/ Tick \/ Onward
<1>1. CASE \E r \in Requests : Admit(r) \/ Deny(r) \/ Return(r) \/ Throw(r)
  BY <1>1, StepOnward
<1>2. CASE UNCHANGED vars
  BY <1>2 DEF vars, Onward, PInv, BaseType, Stamped
<1> QED
  BY <1>1, <1>2 DEF Next

LEMMA Keeps == Spec => []PInv
<1>1. ASSUME PInv, [Next]_vars PROVE PInv'
  BY <1>1, Steps, ArriveKeeps, TickKeeps, OnwardKeeps
<1> QED
  BY <1>1, InitHolds, PTL DEF Spec

\* What a throttler lets on was not let on to the limit in the last ttl.
LEMMA RoomForOne ==
    ASSUME PInv, NEW n \in Throttlers, NEW k \in Keys, n \in Asked(k), LetsOn(n, k)
    PROVE  Cardinality(Within(req, n, k, now, Ttl)) < Limit(n)
<1>1. CASE until[n][k] = 0 /\ Cardinality(Live(n, k)) < Limit(n)
  <2>1. Within(req, n, k, now, Ttl) \subseteq Live(n, k)
    BY <1>1 DEF PInv, LiveInv, Asked, Live, Counted, Within, Crossed, Key
  <2>2. IsFiniteSet(Live(n, k)) /\ Cardinality(Live(n, k)) \in Nat
    BY RequestsFinite, PipelineAssumption DEF Live
  <2>3. Cardinality(Within(req, n, k, now, Ttl)) <= Cardinality(Live(n, k))
    BY <2>1, <2>2, FS_Subset
  <2> QED
    BY <1>1, <2>2, <2>3, WithinFinite, Limits
<1>2. CASE until[n][k] \in 1..now
  <2>1. now \in Nat /\ req \in [Requests -> ReqType] /\ until[n][k] <= now /\ until[n][k] # 0
    BY <1>2, PipelineAssumption DEF PInv, BaseType
  <2>2. PICK b \in 0..now : BegunAt(n, k, b)
    BY <2>1 DEF PInv, BlockInv
  <2>3. ASSUME NEW p \in Requests, Crossed(req, n, k, p)
        PROVE  ~(now < req[p].time + Ttl)
    <3>1. req[p].time <= b /\ until[n][k] = b + Ttl
      BY <2>2, <2>3 DEF BegunAt
    <3>2. req[p].time \in 0..MaxTime
      BY <2>1 DEF ReqType
    <3> QED
      BY <2>1, <2>2, <3>1, <3>2, PipelineAssumption
  <2>4. Within(req, n, k, now, Ttl) = {}
    BY <2>3 DEF Within
  <2> QED
    BY <2>4, FS_EmptySet, Limits
<1> QED
  BY <1>1, <1>2 DEF LetsOn

\* What a throttler refuses comes after a limit of requests it let on: in all, and
\* since any it refused a ttl before.
LEMMA RefusedAfterLimit ==
    ASSUME PInv, NEW n \in Throttlers, NEW k \in Keys, n \in Asked(k), ~LetsOn(n, k),
           NEW p \in 0..MaxRequests,
           p = 0 \/ (Refused(req, n, k, p) /\ req[p].time + Ttl <= now)
    PROVE  Cardinality(After(req, n, k, p)) >= Limit(n)
<1>1. now \in Nat /\ until[n][k] \in 0..(MaxTime + Ttl) /\ req \in [Requests -> ReqType]
  BY PipelineAssumption DEF PInv, BaseType, StoreType
<1>2. until[n][k] = 0 \/ until[n][k] > now
  BY <1>1, PipelineAssumption DEF LetsOn
<1>3. CASE until[n][k] = 0
  BY <1>3, FullCount
<1>4. CASE until[n][k] > now
  <2>1. until[n][k] # 0
    BY <1>1, <1>4
  <2>2. PICK b \in 0..now : BegunAt(n, k, b)
    BY <2>1 DEF PInv, BlockInv
  <2>3. p # 0 => req[p].time \in 0..MaxTime
    BY <1>1 DEF Refused, ReqType
  <2>4. p # 0 => req[p].time < b
    BY <1>1, <1>4, <2>2, <2>3, PipelineAssumption DEF BegunAt
  <2> QED
    BY <2>2, <2>4 DEF BegunAt
<1> QED
  BY <1>2, <1>3, <1>4

\* In no period of a ttl does a client get more requests past a throttler, on
\* one route, than its limit (ThrottlerGuard): what WindowHolds checks on a few
\* requests holds for any number, any limits and any ttl.
THEOREM WindowAlwaysHolds == Spec => []WindowHolds
<1>1. Init => WindowHolds
  <2> SUFFICES ASSUME Init, NEW n \in Throttlers, NEW k \in Clients \X Routes, NEW t \in 0..MaxTime
               PROVE  Cardinality(Within(req, n, k, t, Ttl)) <= Limit(n)
    BY LetOnIsCrossed, Limits DEF WindowHolds, Within
  <2>1. Within(req, n, k, t, Ttl) = {}
    BY DEF Init, Within, Crossed
  <2> QED
    BY <2>1, FS_EmptySet, Limits
<1>2. ASSUME PInv, WindowHolds, [Next]_vars PROVE WindowHolds'
  <2> SUFFICES ASSUME NEW n \in Throttlers, NEW j \in Clients \X Routes, NEW t \in 0..MaxTime
               PROVE  Cardinality(Within(req', n, j, t, Ttl)) <= Limit(n)
    BY LetOnIsCrossed, Limits DEF WindowHolds, Documented, Within
  <2>1. Cardinality(Within(req, n, j, t, Ttl)) <= Limit(n)
    BY <1>2, LetOnIsCrossed, Limits DEF WindowHolds, Within
  <2>2. CASE \E q \in Requests, c \in Clients, r \in Routes : Arrive(q, c, r)
    <3>1. PICK q \in Requests, c \in Clients, r \in Routes : Arrive(q, c, r)
      BY <2>2
    <3> DEFINE k == <<c, r>>
    <3>2. Arrived(q, k) /\ k \in Keys
      BY <1>2, <3>1, ArrivesAs DEF Keys
    <3> HIDE DEF k
    <3>3. CASE q \notin Within(req', n, j, t, Ttl)
      <4>1. Within(req', n, j, t, Ttl) = Within(req, n, j, t, Ttl)
        BY <1>2, <3>2, <3>3, ArrivalWithin
      <4> QED
        BY <2>1, <4>1
    <3>4. CASE q \in Within(req', n, j, t, Ttl)
      <4>1. Crossed(req', n, j, q) /\ now <= t
        BY <1>2, <3>2, <3>4, ArrivalWithin
      <4>2. j = k /\ n \in Asked(k) /\ LetsOn(n, k)
        BY <1>2, <3>2, <4>1, ArrivalCrosses
      <4>3. Cardinality(Within(req, n, k, now, Ttl)) < Limit(n)
        BY <1>2, <3>2, <4>2, RoomForOne
      <4>4. Within(req, n, k, t, Ttl) \subseteq Within(req, n, k, now, Ttl)
        <5>1. now \in Nat /\ \A p \in Requests : req[p].time \in 0..MaxTime
          BY <1>2, PipelineAssumption DEF PInv, BaseType, ReqType
        <5>2. \A p \in Requests : Crossed(req, n, k, p) => req[p].time <= now
          BY <1>2, <3>2, ArrivalCrosses
        <5> QED
          BY <4>1, <5>1, <5>2, PipelineAssumption DEF Within
      <4>5. Cardinality(Within(req, n, k, t, Ttl)) <= Cardinality(Within(req, n, k, now, Ttl))
        BY <4>4, WithinFinite, FS_Subset
      <4>6. Cardinality(Within(req, n, k, t, Ttl) \cup {q}) <= Cardinality(Within(req, n, k, t, Ttl)) + 1
        <5> DEFINE W == Within(req, n, k, t, Ttl)
        <5>1. IsFiniteSet(W) /\ Cardinality(W) \in Nat
          BY WithinFinite
        <5> HIDE DEF W
        <5>2. Cardinality(W \cup {q}) = Cardinality(W) \/ Cardinality(W \cup {q}) = Cardinality(W) + 1
          BY <5>1, FS_AddElement
        <5>3. Cardinality(W \cup {q}) <= Cardinality(W) + 1
          BY <5>1, <5>2
        <5> QED
          BY <5>3 DEF W
      <4>7. /\ IsFiniteSet(Within(req, n, k, t, Ttl) \cup {q})
            /\ Within(req', n, k, t, Ttl) \subseteq Within(req, n, k, t, Ttl) \cup {q}
        BY <1>2, <3>2, WithinFinite, FS_AddElement, ArrivalWithin
      <4>8. Cardinality(Within(req', n, k, t, Ttl)) <= Cardinality(Within(req, n, k, t, Ttl) \cup {q})
        BY <4>7, FS_Subset
      <4>9. Cardinality(Within(req, n, k, t, Ttl) \cup {q}) \in Nat
        BY <4>7, FS_CardinalityType
      <4> QED
        BY <4>2, <4>3, <4>5, <4>6, <4>8, <4>9, WithinFinite, Limits
    <3> QED
      BY <3>3, <3>4
  <2>3. CASE Tick \/ Onward
    <3>1. Within(req', n, j, t, Ttl) = Within(req, n, j, t, Ttl)
      BY <2>3, SameRequests DEF Tick, Onward
    <3> QED
      BY <2>1, <3>1
  <2> QED
    BY <1>2, <2>2, <2>3, Steps
<1> QED
  BY <1>1, <1>2, Keeps, PTL DEF Spec

\* Throttler n refuses q, and p is the start or a refusal a ttl before q.
Precedes(rq, p, q) ==
    p = 0 \/ (p < q /\ Refused(rq, rq[q].by, <<rq[q].client, rq[q].route>>, p)
              /\ rq[p].time + Ttl <= rq[q].time)

\* The requests of q's client and route that came after p and before q and were
\* let on by the throttler that refused q.
Between(rq, p, q) ==
    {x \in Requests : /\ p < x /\ x < q
                      /\ Crossed(rq, rq[q].by, <<rq[q].client, rq[q].route>>, x)}

LEMMA BetweenFinite ==
    ASSUME NEW rq, NEW p, NEW q
    PROVE  IsFiniteSet(Between(rq, p, q)) /\ Cardinality(Between(rq, p, q)) \in Nat
<1>1. Between(rq, p, q) \subseteq Requests
  BY DEF Between
<1> QED
  BY <1>1, RequestsFinite, PipelineAssumption

Earned ==
    \A q \in Requests, p \in 0..MaxRequests :
        req[q].by # None /\ Precedes(req, p, q) =>
            Cardinality(Between(req, p, q)) >= Limit(req[q].by)

\* Earned is RefusalEarned in the terms of the invariant.
LEMMA EarnedMeans == ASSUME PInv, Earned PROVE RefusalEarned
<1> SUFFICES ASSUME NEW q \in Requests, NEW p \in 0..MaxRequests, req[q].by # None,
                    p # 0 => /\ p < q /\ req[p].by = req[q].by /\ Key(p) = Key(q)
                             /\ req[p].time + Ttl <= req[q].time
             PROVE  Cardinality({x \in Requests : p < x /\ x < q /\ LetOn(req[q].by, Key(q), x)})
                        >= Documented[req[q].by]
  BY DEF RefusalEarned
<1>1. req[q].by \in Throttlers
  BY DEF PInv, BaseType, ReqType
<1>2. Precedes(req, p, q)
  BY PipelineAssumption DEF Precedes, Refused, Key, Requests
<1>3. Between(req, p, q) = {x \in Requests : p < x /\ x < q /\ LetOn(req[q].by, Key(q), x)}
  BY LetOnIsCrossed DEF Between, Key
<1>4. Documented[req[q].by] = Limit(req[q].by)
  BY <1>1, Limits
<1> QED
  BY <1>2, <1>3, <1>4 DEF Earned

\* A throttler refuses a client only after a full limit of that client's own
\* requests on that route, and only after a full limit of new ones once a refusal
\* is a ttl old: nobody else's requests are held against it, whichever timers the
\* end of another's block stops (ThrottlerGuard).
THEOREM RefusalsAreEarned == Spec => []RefusalEarned
<1>1. PInv /\ Earned => RefusalEarned
  BY EarnedMeans
<1>2. Init => Earned
  BY DEF Init, Earned
<1>3. ASSUME PInv, PInv', Earned, [Next]_vars PROVE Earned'
  <2>2. ASSUME NEW q \in Requests, NEW c \in Clients, NEW r \in Routes, Arrive(q, c, r)
        PROVE  Earned'
    <3> DEFINE k == <<c, r>>
    <3>1. Arrived(q, k) /\ k \in Keys
      BY <1>3, <2>2, ArrivesAs DEF Keys
    <3> HIDE DEF k
    <3> SUFFICES ASSUME NEW y \in Requests, NEW p \in 0..MaxRequests,
                        req'[y].by # None, Precedes(req', p, y)
                 PROVE  Cardinality(Between(req', p, y)) >= Limit(req'[y].by)
      BY DEF Earned, Limit
    <3>2. req'[y].by \in Throttlers
      BY <1>3 DEF PInv, BaseType, ReqType
    <3>3. CASE y = q
      <4>1. PICK n \in Throttlers : n = req'[y].by
        BY <3>2
      <4>2. n = RefusedBy(k) /\ <<req'[y].client, req'[y].route>> = k /\ req'[y].time = now
        BY <3>1, <3>3, <4>1 DEF Arrived, Key
      <4>3. n \in Asked(k) /\ ~LetsOn(n, k)
        BY <4>1, <4>2, FirstRefuses
      <4>4. p = 0 \/ (Refused(req, n, k, p) /\ req[p].time + Ttl <= now)
        <5>1. CASE p = 0
          BY <5>1
        <5>2. CASE p # 0
          <6>1. p < y /\ Refused(req', n, k, p) /\ req'[p].time + Ttl <= now
            BY <4>1, <4>2, <5>2 DEF Precedes
          <6>2. p # q
            BY <3>3, <6>1 DEF Requests
          <6> QED
            BY <1>3, <3>1, <6>1, <6>2, ArrivalRefused DEF Arrived, Refused
        <5> QED
          BY <5>1, <5>2
      <4>5. Cardinality(After(req, n, k, p)) >= Limit(n)
        BY <1>3, <3>1, <4>3, <4>4, RefusedAfterLimit
      <4>6. After(req, n, k, p) \subseteq Between(req', p, y)
        BY <1>3, <3>1, <3>3, <4>1, <4>2, ArrivalCrosses DEF After, Between
      <4>7. Cardinality(After(req, n, k, p)) <= Cardinality(Between(req', p, y))
        BY <4>6, BetweenFinite, FS_Subset
      <4> QED
        BY <4>1, <4>5, <4>7, AfterFinite, BetweenFinite, Limits
    <3>4. CASE y # q
      <4>1. req'[y] = req[y]
        BY <3>1, <3>4 DEF Arrived
      <4>2. PICK n \in Throttlers : n = req[y].by
        BY <3>2, <4>1
      <4>3. y < q
        <5>1. req[y].by # None
          BY <3>2, <4>1, PipelineAssumption DEF Throttlers
        <5> QED
          BY <1>3, <3>1, <5>1 DEF Arrived, PInv, Stamped, Requests
      <4>4. Precedes(req, p, y)
        <5>1. CASE p = 0
          BY <5>1 DEF Precedes
        <5>2. CASE p # 0
          <6>1. p < y /\ p \in Requests
            BY <5>2 DEF Precedes, Refused
          <6>2. p # q
            BY <4>3, <6>1 DEF Requests
          <6>3. req'[p] = req[p]
            BY <3>1, <6>1, <6>2 DEF Arrived
          <6> QED
            BY <4>1, <5>2, <6>3 DEF Precedes, Refused
        <5> QED
          BY <5>1, <5>2
      <4>5. Cardinality(Between(req, p, y)) >= Limit(n)
        BY <1>3, <4>1, <4>2, <4>4 DEF Earned
      <4>6. Between(req, p, y) \subseteq Between(req', p, y)
        <5>1. \A x \in Requests : x # q => req'[x] = req[x]
          BY <3>1 DEF Arrived
        <5>2. \A x \in Requests : x < y => x # q
          BY <4>3 DEF Requests
        <5> QED
          BY <4>1, <5>1, <5>2 DEF Between, Crossed
      <4>7. Cardinality(Between(req, p, y)) <= Cardinality(Between(req', p, y))
        BY <4>6, BetweenFinite, FS_Subset
      <4> QED
        BY <4>1, <4>2, <4>5, <4>7, BetweenFinite, Limits
    <3> QED
      BY <3>3, <3>4
  <2>3. ASSUME Tick \/ Onward PROVE Earned'
    <3>1. /\ \A n, k : /\ \A x \in Requests : Crossed(req', n, k, x) <=> Crossed(req, n, k, x)
                       /\ \A p : Refused(req', n, k, p) <=> Refused(req, n, k, p)
          /\ \A q \in Requests :
               /\ req'[q].by = req[q].by /\ req'[q].time = req[q].time
               /\ req'[q].client = req[q].client /\ req'[q].route = req[q].route
      BY <2>3, SameRequests DEF Tick, Onward
    <3>2. \A p : \A q \in Requests : Precedes(req', p, q) <=> Precedes(req, p, q)
      BY <3>1 DEF Precedes, Refused
    <3>3. \A p : \A q \in Requests : Between(req', p, q) = Between(req, p, q)
      BY <3>1 DEF Between
    <3> QED
      BY <1>3, <3>1, <3>2, <3>3 DEF Earned, Limit
  <2> QED
    BY <1>3, <2>2, <2>3, Steps
<1> QED
  BY <1>1, <1>2, <1>3, Keeps, PTL DEF Spec

-----------------------------------------------------------------------------
\* The requests answered on route r, and what the metrics say of them: all that
\* was answered was answered with success.
AnsweredOn(rq, r) == {q \in Requests : rq[q].route = r /\ rq[q].stage = "answered"}
Counts ==
    /\ counter \in [Routes -> [Statuses -> Nat]]
    /\ \A r \in Routes, s \in Statuses :
          counter[r][s] = IF r = "scrape" \/ s # 200 THEN 0
                          ELSE Cardinality(AnsweredOn(req, r))

LEMMA CountStep ==
    ASSUME PInv, Counts, NEW q \in Requests, req[q].stage = "inside", Count(q),
           \A p \in Requests : p # q => req'[p] = req[p],
           req'[q].stage = "answered", req'[q].route = req[q].route
    PROVE  Counts'
<1> DEFINE e == req[q].route
<1>1. e \in Routes /\ req[q].status = 200 /\ 200 \in Statuses
  <2>1. Key(q) \in Clients \X Routes /\ req[q].status = 200
    BY DEF PInv, Stamped, Keys
  <2> QED
    BY <2>1 DEF Key, Statuses
<1>2. \A r : r # e => AnsweredOn(req', r) = AnsweredOn(req, r)
  BY DEF AnsweredOn
<1>3. AnsweredOn(req', e) = AnsweredOn(req, e) \cup {q} /\ q \notin AnsweredOn(req, e)
  BY DEF AnsweredOn
<1>4. IsFiniteSet(AnsweredOn(req, e))
  BY RequestsFinite DEF AnsweredOn
<1>5. Cardinality(AnsweredOn(req', e)) = Cardinality(AnsweredOn(req, e)) + 1
  BY <1>3, <1>4, FS_AddElement
<1>6. CASE e = "scrape"
  <2>1. counter' = counter
    BY <1>6 DEF Count
  <2> QED
    BY <1>2, <1>6, <2>1 DEF Counts
<1>7. CASE e # "scrape"
  <2>1. PICK s \in Statuses : s = 200 /\ req[q].status = s
    BY <1>1
  <2>2. counter' = [counter EXCEPT ![e][s] = @ + 1]
    BY <1>7, <2>1 DEF Count
  <2> HIDE DEF e
  <2>3. /\ counter'[e][s] = counter[e][s] + 1 /\ counter[e][s] \in Nat
        /\ \A x \in Statuses : x # s => counter'[e][x] = counter[e][x]
        /\ \A r \in Routes : r # e => counter'[r] = counter[r]
        /\ counter' \in [Routes -> [Statuses -> Nat]]
    BY <1>1, <2>2 DEF Counts
  <2>4. counter[e][s] = Cardinality(AnsweredOn(req, e))
    BY <1>1, <1>7, <2>1 DEF Counts
  <2>5. ASSUME NEW r \in Routes, NEW x \in Statuses
        PROVE  counter'[r][x] = IF r = "scrape" \/ x # 200 THEN 0
                                ELSE Cardinality(AnsweredOn(req', r))
    <3>1. CASE r # e
      BY <1>2, <2>3, <3>1 DEF Counts
    <3>2. CASE r = e /\ x # s
      <4>1. x # 200 /\ counter[r][x] = 0
        BY <2>1, <3>2 DEF Counts
      <4> QED
        BY <2>3, <3>2, <4>1
    <3>3. CASE r = e /\ x = s
      BY <1>5, <1>7, <2>1, <2>3, <2>4, <3>3
    <3> QED
      BY <3>1, <3>2, <3>3
  <2> QED
    BY <2>3, <2>5 DEF Counts
<1> QED
  BY <1>6, <1>7

LEMMA CountsKept == Spec => []Counts
<1>1. Init => Counts
  <2> SUFFICES ASSUME Init PROVE Counts
    OBVIOUS
  <2>1. \A r : AnsweredOn(req, r) = {}
    BY DEF Init, AnsweredOn
  <2> QED
    BY <2>1, FS_EmptySet DEF Init, Counts
<1>2. ASSUME PInv, Counts, [Next]_vars PROVE Counts'
  <2>1. req \in [Requests -> ReqType]
    BY <1>2 DEF PInv, BaseType
  <2>2. ASSUME counter' = counter,
               \A q \in Requests : /\ req'[q].stage = "answered" <=> req[q].stage = "answered"
                                   /\ req[q].stage = "answered" => req'[q].route = req[q].route
        PROVE  Counts'
    <3>1. \A r : AnsweredOn(req', r) = AnsweredOn(req, r)
      BY <2>2 DEF AnsweredOn
    <3> QED
      BY <1>2, <2>2, <3>1 DEF Counts
  <2>3. ASSUME NEW q \in Requests, NEW c \in Clients, NEW r \in Routes, Arrive(q, c, r)
        PROVE  Counts'
    <3>1. Arrived(q, <<c, r>>) /\ counter' = counter
      BY <1>2, <2>3, ArrivesAs DEF Arrive
    <3> QED
      BY <2>2, <3>1 DEF Arrived
  <2>4. ASSUME NEW q \in Requests, Admit(q) \/ Deny(q) PROVE Counts'
    <3>1. /\ counter' = counter /\ req[q].stage = "guards"
          /\ \A p \in Requests : p # q => req'[p] = req[p]
          /\ req'[q].stage # "answered"
      <4>1. CASE Admit(q)
        BY <2>1, <4>1 DEF Admit, ReqType
      <4>2. CASE Deny(q)
        BY <2>1, <4>2 DEF Deny, ReqType
      <4> QED
        BY <2>4, <4>1, <4>2
    <3> QED
      BY <2>2, <3>1
  <2>5. ASSUME NEW q \in Requests, Return(q) \/ Throw(q) PROVE Counts'
    <3>1. /\ req[q].stage = "inside" /\ Count(q)
          /\ \A p \in Requests : p # q => req'[p] = req[p]
          /\ req'[q].stage = "answered" /\ req'[q].route = req[q].route
      <4>1. CASE Return(q)
        BY <2>1, <4>1 DEF Return, ReqType
      <4>2. CASE Throw(q)
        <5>1. PICK s \in HandlerErrors :
                req' = [req EXCEPT ![q] = [@ EXCEPT !.stage = "answered", !.status = s]]
          BY <4>2 DEF Throw
        <5>2. req[q].stage = "inside" /\ Count(q)
          BY <4>2 DEF Throw
        <5> QED
          BY <2>1, <5>1, <5>2 DEF ReqType
      <4> QED
        BY <2>5, <4>1, <4>2
    <3> QED
      BY <1>2, <3>1, CountStep
  <2>6. CASE Tick \/ UNCHANGED vars
    BY <2>2, <2>6 DEF Tick, vars
  <2> QED
    BY <1>2, <2>3, <2>4, <2>5, <2>6 DEF Next
<1> QED
  BY <1>1, <1>2, Keeps, PTL DEF Spec

\* Every reachable state of requests, throttlers and metrics has its type; no
\* counter passes the number of requests.
THEOREM PipelineTypeCorrect == Spec => []TypeOK
<1>1. ASSUME PInv, Counts PROVE TypeOK
  <2>1. \A r : Cardinality(AnsweredOn(req, r)) \in 0..MaxRequests
    BY RequestsFinite DEF AnsweredOn
  <2>2. \A r \in Routes, s \in Statuses : counter[r][s] \in 0..MaxRequests
    BY <1>1, <2>1, PipelineAssumption DEF Counts
  <2>3. counter \in [Routes -> [Statuses -> 0..MaxRequests]]
    BY <1>1, <2>2 DEF Counts
  <2> QED
    BY <1>1, <2>3 DEF TypeOK, PInv, BaseType, StoreType, ReqType, Keys
<1> QED
  BY <1>1, Keeps, CountsKept, PTL
=============================================================================
