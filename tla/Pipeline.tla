------------------------------ MODULE Pipeline ------------------------------
(***************************************************************************)
(* What every HTTP request passes on its way through app.module.ts: the    *)
(* two throttlers of ThrottlerGuard, JwtAuthGuard and the guards of the    *)
(* route, MetricsInterceptor around pipes and handler, and, when anything  *)
(* throws, HttpExceptionFilter.                                            *)
(*                                                                         *)
(* Requests of all clients share the throttlers' counts and the Prometheus *)
(* counter of one process.  The store of the throttlers is in memory, so   *)
(* that a request passes both without another in between; its guards and   *)
(* its handler wait for databases and hashes and overlap with others.      *)
(*                                                                         *)
(* Routes stand for the kinds there are: "probe" is GET /health/*,         *)
(* "scrape" GET /metrics, "login" POST /auth/login and /auth/register,     *)
(* whose @Throttle repeats the limit that holds anyway, and "api" the rest.*)
(***************************************************************************)
EXTENDS Naturals, FiniteSets

CONSTANTS
    MaxRequests,   \* bound: requests are 1..MaxRequests, in order of arrival
    Clients,       \* IP addresses
    Routes,        \* the kinds of routes they ask for
    HandlerErrors, \* statuses a handler's exceptions are mapped to
    DefaultLimit,  \* limit of the throttler "default" (100)
    AuthLimit,     \* limit of the throttler "auth" (10)
    Ttl,           \* ttl of both throttlers (60 s), in ticks
    MaxTime,       \* bound on the clock
    None           \* no client, no status, no throttler

ASSUME PipelineAssumption ==
    /\ MaxRequests \in Nat /\ MaxTime \in Nat
    /\ DefaultLimit \in Nat \ {0} /\ AuthLimit \in Nat \ {0} /\ Ttl \in Nat \ {0}
    /\ Routes \subseteq {"probe", "scrape", "login", "api"}
    /\ HandlerErrors \subseteq {400, 403, 404, 409, 500, 503}
    /\ None \notin Clients \cup Routes \cup {"default", "auth"}

VARIABLES
    now,     \* the clock
    req,     \* req[q]: stage, client, route, time it arrived, throttler that
             \* refused it, res.statusCode
    hits,    \* hits[n]: requests throttler n has counted, each for Ttl
    lasting, \* lasting[n]: those whose count does not expire any more
    until,   \* until[n][k]: end of the block of client and route k, 0 if none
    counter  \* http_requests_total by route and status_code

vars == <<now, req, hits, lasting, until, counter>>

Requests   == 1..MaxRequests
Throttlers == {"default", "auth"}
Statuses   == {200, 401, 429} \cup HandlerErrors
-----------------------------------------------------------------------------
\* ThrottlerModule.forRoot.  The mutant leaves the limit of auth out.
Limit_OfDefault(n) == DefaultLimit
Limit(n) == IF n = "default" THEN DefaultLimit ELSE AuthLimit

\* @SkipThrottle() without an argument means { default: true }: of the named
\* throttlers it skips the one called "default".
Exempt == {"probe", "scrape"}
Skips(r, n) == r \in Exempt /\ n = "default"

Key(q) == <<req[q].client, req[q].route>>

\* Throttler n has counted p, and no timer has taken the count back.
Counted(n, p) == p \in hits[n] /\ (p \in lasting[n] \/ now < req[p].time + Ttl)

\* The requests of client and route k that throttler n counts at present.  The
\* mutants take the client, or the route, for the key.
Live_AllRoutes(n, k) == {p \in Requests : Counted(n, p) /\ req[p].client = k[1]}
Live_AllClients(n, k) == {p \in Requests : Counted(n, p) /\ req[p].route = k[2]}
Live(n, k) == {p \in Requests : Counted(n, p) /\ Key(p) = k}

\* Throttler n lets the next request of k on: it is within the limit, or the
\* block it started has ended.
LetsOn(n, k) ==
    \/ until[n][k] = 0 /\ Cardinality(Live(n, k)) < Limit(n)
    \/ until[n][k] \in 1..now

\* The guard asks the throttlers in order and stops at the first that refuses.
Asked(k) ==
    {n \in Throttlers : /\ ~Skips(k[2], n)
                        /\ n = "auth" => Skips(k[2], "default") \/ LetsOn("default", k)}
RefusedBy(k) ==
    IF \E n \in Asked(k) : ~LetsOn(n, k) THEN CHOOSE n \in Asked(k) : ~LetsOn(n, k) ELSE None

\* What asking n about request q of k leaves in its store: nothing while a
\* block is on; q alone when one has ended; else q too, and a block if q is one
\* too many.
HitsAfter(n, q, k) ==
    CASE until[n][k] > now       -> hits[n]
      [] until[n][k] \in 1..now  -> {p \in hits[n] : Key(p) # k} \cup {q}
      [] until[n][k] = 0         -> hits[n] \cup {q}
\* The end of a block of k stops the timers of all counts of n, so that those of
\* other clients and routes stay until a block of their own ends.
LastingAfter(n, k) ==
    IF until[n][k] \in 1..now THEN {p \in Requests : Counted(n, p) /\ Key(p) # k}
    ELSE lasting[n]
BlockAfter(n, k) ==
    CASE until[n][k] > now       -> until[n][k]
      [] until[n][k] \in 1..now  -> 0
      [] until[n][k] = 0         -> IF LetsOn(n, k) THEN 0 ELSE now + Ttl
-----------------------------------------------------------------------------
Init ==
    /\ now = 0
    /\ req = [q \in Requests |-> [stage |-> "idle", client |-> None, route |-> None,
                                  time |-> 0, by |-> None, status |-> None]]
    /\ hits = [n \in Throttlers |-> {}]
    /\ lasting = [n \in Throttlers |-> {}]
    /\ until = [n \in Throttlers |-> [k \in Clients \X Routes |-> 0]]
    /\ counter = [r \in Routes |-> [s \in Statuses |-> 0]]

\* Request q of client c on route r comes in; ThrottlerGuard counts it and lets
\* it on to the other guards, or the filter answers 429.
Arrive(q, c, r) ==
    LET k == <<c, r>>
        by == RefusedBy(k)
    IN  /\ req[q].stage = "idle"
        /\ \A p \in Requests : p < q => req[p].stage # "idle"
        /\ req' = [req EXCEPT ![q] = [stage  |-> IF by = None THEN "guards" ELSE "refused",
                                      client |-> c, route |-> r, time |-> now, by |-> by,
                                      status |-> IF by = None THEN None ELSE 429]]
        /\ hits' = [n \in Throttlers |-> IF n \in Asked(k) THEN HitsAfter(n, q, k) ELSE hits[n]]
        /\ lasting' = [n \in Throttlers |->
                          IF n \in Asked(k) THEN LastingAfter(n, k) ELSE lasting[n]]
        /\ until' = [n \in Throttlers |->
                        IF n \in Asked(k) THEN [until[n] EXCEPT ![k] = BlockAfter(n, k)]
                        ELSE until[n]]
        /\ UNCHANGED <<now, counter>>

\* JwtAuthGuard and the guards of the route let q on: it is @Public() or its
\* token or credentials are good.  Nest sets the status of success and calls
\* the interceptors: MetricsInterceptor starts its timer.
Admit(q) ==
    /\ req[q].stage = "guards"
    /\ req' = [req EXCEPT ![q] = [@ EXCEPT !.stage = "inside", !.status = 200]]
    /\ UNCHANGED <<now, hits, lasting, until, counter>>

\* JwtAuthGuard, or LocalAuthGuard on login, refuses q: no interceptor sees it,
\* the filter answers 401.
Deny(q) ==
    /\ req[q].stage = "guards" /\ req[q].route \notin Exempt
    /\ req' = [req EXCEPT ![q] = [@ EXCEPT !.stage = "refused", !.status = 401]]
    /\ UNCHANGED <<now, hits, lasting, until, counter>>

\* finalize() in MetricsInterceptor, which the route /metrics bypasses: the
\* counter of the status that res has at this moment.
Count(q) ==
    counter' = IF req[q].route = "scrape" THEN counter
               ELSE [counter EXCEPT ![req[q].route][req[q].status] = @ + 1]

\* The handler returns and TransformInterceptor's envelope is sent with the
\* status res has.
Return(q) ==
    /\ req[q].stage = "inside"
    /\ req' = [req EXCEPT ![q].stage = "answered"]
    /\ Count(q)
    /\ UNCHANGED <<now, hits, lasting, until>>

\* The handler, or the validation before it, throws.  The observable ends, so
\* finalize() runs, with the status res still has; only then does
\* HttpExceptionFilter classify the exception and answer.
Throw(q) ==
    /\ req[q].stage = "inside"
    /\ \E s \in HandlerErrors :
          req' = [req EXCEPT ![q] = [@ EXCEPT !.stage = "answered", !.status = s]]
    /\ Count(q)
    /\ UNCHANGED <<now, hits, lasting, until>>

Tick ==
    /\ now < MaxTime /\ now' = now + 1
    /\ UNCHANGED <<req, hits, lasting, until, counter>>

Next ==
    \/ Tick
    \/ \E q \in Requests :
          \/ \E c \in Clients, r \in Routes : Arrive(q, c, r)
          \/ Admit(q) \/ Deny(q) \/ Return(q) \/ Throw(q)

Spec == Init /\ [][Next]_vars
-----------------------------------------------------------------------------
Stages == {"idle", "guards", "inside", "answered", "refused"}

\* Type correctness: a record per request, a count and a block per throttler,
\* client and route, a counter per route and status.
TypeOK ==
    /\ now \in 0..MaxTime
    /\ req \in [Requests -> [stage : Stages, client : Clients \cup {None},
                             route : Routes \cup {None}, time : 0..MaxTime,
                             by : Throttlers \cup {None}, status : Statuses \cup {None}]]
    /\ hits \in [Throttlers -> SUBSET Requests]
    /\ lasting \in [Throttlers -> SUBSET Requests]
    /\ until \in [Throttlers -> [Clients \X Routes -> 0..(MaxTime + Ttl)]]
    /\ counter \in [Routes -> [Statuses -> 0..MaxRequests]]

\* The limits as app.module.ts documents them.
Documented == [default |-> DefaultLimit, auth |-> AuthLimit]

\* Throttler n has let request q of client and route k on: no throttler refused
\* q, or one that is asked after n.
LetOn(n, k, q) ==
    /\ req[q].stage # "idle" /\ Key(q) = k
    /\ ~Skips(k[2], n) /\ req[q].by \in {None, "auth"} \ {n}

\* In no period as long as the ttl does a client get more requests past a
\* throttler, on one route, than its limit, whatever overlaps, whatever a block
\* that ends forgets and whichever timers it stops: this is what bounds how many
\* passwords can be tried (app.module.ts, the comment on ThrottlerGuard).
WindowHolds ==
    \A n \in Throttlers, k \in Clients \X Routes, t \in 0..MaxTime :
        Cardinality({q \in Requests : /\ LetOn(n, k, q)
                                      /\ req[q].time <= t /\ t < req[q].time + Ttl})
            <= Documented[n]

\* A throttler refuses a client only after it has let its full limit of requests
\* of that very client on that very route on, and, once a refusal is a ttl old,
\* only after a full limit of new ones.  Others may make the counts of this
\* client last, by the end of a block of theirs, so that the limit is not one per
\* ttl; but none of their requests is ever held against it.
RefusalEarned ==
    \A q \in Requests, p \in 0..MaxRequests :
        /\ req[q].by # None
        /\ p # 0 => /\ p < q /\ req[p].by = req[q].by /\ Key(p) = Key(q)
                    /\ req[p].time + Ttl <= req[q].time
        => Cardinality({x \in Requests : p < x /\ x < q /\ LetOn(req[q].by, Key(q), x)})
               >= Documented[req[q].by]

\* The throttlers that app.module.ts, health.controller.ts and metrics.controller.ts
\* announce for a route: auth for login and register, default for all but the
\* probes and the scraper, which skip rate limiting.
Announced(r) ==
    {n \in Throttlers : IF n = "auth" THEN r = "login" ELSE r \notin Exempt}

\* What these comments say of refusals: only a throttler announced for a route
\* refuses a request there.
RefusedAsAnnounced ==
    \A q \in Requests : req[q].by # None => req[q].by \in Announced(req[q].route)

\* What metrics.service.ts says of http_requests_total: the requests by route and
\* by the status code they were answered with (all but those for /metrics, which
\* MetricsInterceptor leaves out).
CountedAsAnswered ==
    \A r \in Routes \ {"scrape"}, s \in Statuses :
        counter[r][s] = Cardinality({q \in Requests : /\ req[q].stage = "answered"
                                                      /\ req[q].route = r
                                                      /\ req[q].status = s})
=============================================================================
