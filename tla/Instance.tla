------------------------------ MODULE Instance ------------------------------
(***************************************************************************)
(* One API container: the process from its start (settings, bootstrap of   *)
(* main.ts, the first connection to Postgres of database.module.ts) to its *)
(* end (a failed bootstrap, a crash, a graceful stop), which Docker starts *)
(* again; the Redis client it holds meanwhile; and its readiness probe     *)
(* (health.controller.ts), which asks Postgres and Redis at one time and   *)
(* does not answer before both have.                                       *)
(*                                                                         *)
(* Each probe sends one PING: the commands of RedisClient are the probes.  *)
(***************************************************************************)
EXTENDS Config, RedisClient

CONSTANTS
    Environments,  \* settings the container may have been given
    MaxStops       \* bound: crashes and stops

ASSUME StopsAssumption == MaxStops \in Nat

VARIABLES
    env,    \* the .env file and the process environment
    db,     \* whether Postgres can be reached: "up" or "down"
    proc,   \* the process: pc, failed tries to connect to Postgres, ticks to the
            \* next one; history: ticks since its start, why the last one ended
    stops,  \* crashes and stops so far
    probe   \* probe[p]: state, what the database check said, the code answered;
            \* history: what was seen reachable since the probe began

vars == <<redis, client, cmd, since, env, db, proc, stops, probe>>

Probes == Commands
-----------------------------------------------------------------------------
\* database.module.ts: retryAttempts, and retryDelay in ticks.
RetryAttempts == 5
RetryDelay == 15

NoProbe == [st |-> "none", db |-> "pending", code |-> 0, sawDb |-> FALSE, sawRedis |-> FALSE]

Init ==
    /\ ClientInit
    /\ env \in Environments
    /\ db \in {"up", "down"}
    /\ proc = [pc |-> "off", tries |-> 0, timer |-> 0, age |-> 0, why |-> "new"]
    /\ stops = 0
    /\ probe = [p \in Probes |-> NoProbe]

Goto(pc) == proc' = [proc EXCEPT !.pc = pc]

Ends(why) ==
    /\ Gone
    /\ proc' = [proc EXCEPT !.pc = "off", !.why = why]
    /\ probe' = [p \in Probes |-> NoProbe]
    /\ UNCHANGED <<env, db>>

\* validateEnv throws: the process exits before it binds a port.
Refuse ==
    /\ proc.pc = "off" /\ proc.why # "env" /\ ~Accepts(Merged(env))
    /\ proc' = [proc EXCEPT !.why = "env"]
    /\ UNCHANGED <<redis, client, cmd, since, env, db, stops, probe>>

\* NestFactory.create: the providers are created, the Redis client at once, the
\* database connection when Postgres answers.  The mutant is a container without
\* a restart policy.
Start_NoRestart ==
    /\ proc.pc = "off" /\ proc.why = "new" /\ Accepts(Merged(env))
    /\ proc' = [pc |-> "booting", tries |-> 0, timer |-> 0, age |-> 0, why |-> "none"]
    /\ Create
    /\ UNCHANGED <<env, db, stops, probe>>
Start ==
    /\ proc.pc = "off" /\ Accepts(Merged(env))
    /\ proc' = [pc |-> "booting", tries |-> 0, timer |-> 0, age |-> 0, why |-> "none"]
    /\ Create
    /\ UNCHANGED <<env, db, stops, probe>>

Connect ==
    /\ proc.pc = "booting" /\ proc.timer = 0 /\ db = "up"
    /\ proc' = [pc |-> "created", tries |-> 0, timer |-> 0, age |-> 0, why |-> "none"]
    /\ UNCHANGED <<redis, client, cmd, since, env, db, stops, probe>>

\* Postgres cannot be reached: the try is repeated after retryDelay.
Refused ==
    /\ proc.pc = "booting" /\ proc.timer = 0 /\ db = "down"
    /\ proc.tries + 1 < RetryAttempts
    /\ proc' = [proc EXCEPT !.tries = @ + 1, !.timer = RetryDelay]
    /\ UNCHANGED <<redis, client, cmd, since, env, db, stops, probe>>

\* The last try has failed: bootstrap().catch exits.  The mutant makes one try
\* fewer.
BootFails_OneFewer ==
    /\ proc.pc = "booting" /\ proc.timer = 0 /\ db = "down"
    /\ proc.tries + 2 >= RetryAttempts
    /\ Ends("db")
    /\ UNCHANGED stops
BootFails ==
    /\ proc.pc = "booting" /\ proc.timer = 0 /\ db = "down"
    /\ proc.tries + 1 >= RetryAttempts
    /\ Ends("db")
    /\ UNCHANGED stops

\* app.listen.
Listen ==
    /\ proc.pc = "created"
    /\ Goto("listening")
    /\ UNCHANGED <<redis, client, cmd, since, env, db, stops, probe>>

Crash ==
    /\ proc.pc # "off" /\ stops < MaxStops
    /\ stops' = stops + 1
    /\ Ends("crash")

\* enableShutdownHooks: after SIGTERM no connection is accepted, the requests
\* on their way are answered, and the process ends.
Sigterm ==
    /\ proc.pc = "listening" /\ stops < MaxStops
    /\ stops' = stops + 1
    /\ Goto("draining")
    /\ UNCHANGED <<redis, client, cmd, since, env, db, probe>>

Drained ==
    /\ proc.pc = "draining" /\ \A p \in Probes : probe[p].st # "checking"
    /\ Ends("signal")
    /\ UNCHANGED stops
-----------------------------------------------------------------------------
\* GET /health/ready: both checks are started.
Ask(p) == probe' = [probe EXCEPT ![p] = [st |-> "checking", db |-> "pending", code |-> 0,
                                         sawDb |-> db = "up",
                                         sawRedis |-> client.status = "ready"]]
Ready(p) ==
    /\ proc.pc = "listening" /\ probe[p].st # "checking"
    /\ Send(p)
    /\ Ask(p)
    /\ UNCHANGED <<env, db, proc, stops>>

\* TypeOrmHealthIndicator.pingCheck, which fails when it takes longer than 1 s.
PingCheck(p) ==
    /\ probe[p].st = "checking" /\ probe[p].db = "pending"
    /\ probe' = [probe EXCEPT ![p].db = db]
    /\ UNCHANGED <<redis, client, cmd, since, env, db, proc, stops>>

\* Whether RedisHealthIndicator.isHealthy returns rather than throws.  The mutant
\* returns what it has in the catch.
IsHealthy_Caught(p) == cmd[p].st \in {"ok", "error"}
IsHealthy(p) == cmd[p].st = "ok"

\* All checks have an outcome; the heap is above its limit, or below.
Respond(p) ==
    /\ probe[p].st = "checking" /\ probe[p].db # "pending"
    /\ Taken(p)
    /\ \E heapBelow \in BOOLEAN :
         probe' = [probe EXCEPT ![p] =
                     [@ EXCEPT !.st = "answered",
                               !.code = IF probe[p].db = "up" /\ IsHealthy(p) /\ heapBelow
                                        THEN 200 ELSE 503]]
    /\ UNCHANGED <<env, db, proc, stops>>
-----------------------------------------------------------------------------
\* What the probes on their way now see.
See(field) ==
    probe' = [p \in Probes |-> IF probe[p].st = "checking"
                               THEN [probe[p] EXCEPT ![field] = TRUE] ELSE probe[p]]

Reconnect == DialOk /\ See("sawRedis") /\ UNCHANGED <<env, db, proc, stops>>

ClientStep ==
    /\ \/ DialFails \/ Redial \/ Drop
       \/ \E p \in Probes : Answer(p)
       \/ RedisFails \/ RedisReturns
    /\ UNCHANGED <<env, db, proc, stops, probe>>

DbFails ==
    /\ db = "up" /\ db' = "down"
    /\ UNCHANGED <<redis, client, cmd, since, env, proc, stops, probe>>

DbReturns ==
    /\ db = "down" /\ db' = "up"
    /\ See("sawDb")
    /\ UNCHANGED <<redis, client, cmd, since, env, proc, stops>>

\* 200 ms pass; a try to connect to Postgres that is due goes first.
Tick ==
    /\ proc.pc = "booting" => proc.timer > 0
    /\ ClientTick
    /\ proc' = IF proc.pc = "booting" THEN [proc EXCEPT !.timer = @ - 1, !.age = @ + 1]
                                      ELSE proc
    /\ UNCHANGED <<env, db, stops, probe>>

Next ==
    \/ Refuse \/ Start \/ Connect \/ Refused \/ BootFails \/ Listen
    \/ Crash \/ Sigterm \/ Drained
    \/ \E p \in Probes : Ready(p) \/ PingCheck(p) \/ Respond(p)
    \/ Reconnect \/ ClientStep \/ DbFails \/ DbReturns \/ Tick

Spec == Init /\ [][Next]_vars

\* Docker starts a process that ended (restart: unless-stopped); timers run and
\* connections are tried.  Nothing is assumed of Postgres, Redis or the probes.
FairSpec ==
    /\ Spec
    /\ WF_vars(Start) /\ WF_vars(Connect) /\ WF_vars(Refused) /\ WF_vars(BootFails)
    /\ WF_vars(Listen) /\ WF_vars(Drained) /\ WF_vars(Tick)
    /\ WF_vars(Reconnect) /\ WF_vars(ClientStep /\ ~UNCHANGED client)
    /\ \A p \in Probes : /\ WF_vars(PingCheck(p)) /\ WF_vars(Respond(p))
                         /\ WF_vars(ClientStep /\ cmd[p].st = "sent" /\ cmd'[p].st = "ok")
-----------------------------------------------------------------------------
TypeOK ==
    /\ ClientTypeOK
    /\ env \in Environments
    /\ db \in {"up", "down"}
    /\ proc \in [pc : {"off", "booting", "created", "listening", "draining"},
                 tries : 0..(RetryAttempts - 1), timer : 0..RetryDelay, age : Nat,
                 why : {"new", "none", "env", "db", "crash", "signal"}]
    /\ stops \in 0..MaxStops
    /\ probe \in [Probes -> [st : {"none", "checking", "answered"},
                             db : {"pending", "up", "down"}, code : {0, 200, 503},
                             sawDb : BOOLEAN, sawRedis : BOOLEAN]]

\* "handles the common Docker race condition where the API container starts
\* before postgres is ready": the bootstrap fails for want of Postgres no earlier
\* than 12 s after it began, so that a delay of less never costs a restart.
BootPatience == proc.why = "db" => proc.age >= 60

\* A probe is told 200 only if Postgres was reachable, and this process's own
\* client connected, at some time after the probe began: never by a result of an
\* earlier probe or life, and never again by a process whose client gave up,
\* however healthy Redis is by then.
ReadyMeansUsable ==
    \A p \in Probes : probe[p].code = 200 => probe[p].sawDb /\ probe[p].sawRedis

\* What a listening process uses as a port is the port that was validated: the
\* default that || gives never takes the place of a value the schema accepted.
PortAsValidated ==
    proc.pc = "listening" => Configuration(env).port = Coerced(Merged(env)).port

\* Once Postgres and Redis stay reachable, the process is listening and connected
\* again and again, without anyone's help, unless its client has given up: the
\* one failure that only a restart mends.
Usable == proc.pc = "listening" /\ client.status = "ready"
Heals ==
    Accepts(Merged(env)) /\ <>[](redis = "up" /\ db = "up")
        => []<>(Usable \/ client.status = "end")
=============================================================================
