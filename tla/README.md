# A TLA+ model of nestjs-platform-starter

This directory holds TLA+ modules for the parts of the API (`src/apps/api`) whose
correctness depends on what overlaps with what: refresh-token sessions, the
idempotency interceptor, registration and the seed script, projects, the
welcome-email queue, the request pipeline, and the life of a container with its
connections to Postgres and Redis. TLC checks small instances of them; TLAPS proves
every safety property of the passing runs for any number of requests, users, keys and rows.

Paths below are relative to `src/apps/api/src/` unless they start with `src/`.

## 1. The system

The API is a NestJS process on Node.js, or several of them behind a balancer. A
request runs alone between two `await`s and overlaps with everything else at each
of them. Processes share Postgres (through TypeORM), Redis (through ioredis), and
the BullMQ queues, which live in Redis on a connection of their own. There is no
lock in the process and no explicit row lock in the database: what the program
relies on are single SQL statements, one transaction (registration), one unique
index (`users.email`) and `SET NX`.

### Components

| Component | State it keeps | Operations | Talks to |
|---|---|---|---|
| Auth sessions (`modules/auth`) | `users.refresh_token_hash`; the tokens clients hold | login, refresh (rotation, reuse detection), logout | users, bcryptjs, JWT |
| Users (`modules/users`) | the `users` row | PATCH /users/me, `updateRefreshToken`, look-ups | TypeORM |
| Registration (`auth.service.ts` `register`) | a `users` row, a transaction, a job | check, hash, INSERT, UPDATE, COMMIT, add job | users, queue, filter |
| Idempotency (`common/interceptors/idempotency.interceptor.ts`) | Redis keys `idempotency:*` with a TTL | claim or replay, run handler, store | cache service; wraps POST /auth/register and POST /projects |
| Cache service (`infra/cache/cache.service.ts`) | none | get (swallows errors), set, setIfNotExists | Redis client |
| Redis client (`infra/cache/cache.module.ts`) | the connection, its tries, the commands that wait | connect, retry, give up, reject waiting commands | Redis |
| Projects (`modules/projects`) | the `projects` table | create, list, read, PATCH, DELETE | TypeORM |
| Email queue (`infra/queue`) | jobs, attempts, worker locks | add, process, retry, fail | BullMQ, email provider |
| Retry util (`common/utils/retry.util.ts`) | local loop state | `withRetry` | email processor |
| Notification queue | none | logs | nobody adds to it |
| Exception filter, metrics, transform, request id, logger | per request | classify, count, wrap | every request |
| Rate limiting (`app.module.ts`) | counters per client, route and throttler, in memory | guard | every request |
| Health (`infra/health`) | none | liveness, readiness | database, Redis client, heap |
| Config (`config`) | the settings, read once at start | validate, coerce, read | .env file, environment |
| Bootstrap, database module (`main.ts`, `infra/database`) | the process, the first connection | start, retry, listen, stop | config, Postgres, Docker |
| Seed script (`infra/database/seeds`) | rows of `users` and `projects` | run by hand, again and again | database |
| Migration | the tables | run by hand | database |

### What is hard about it

- *Stale entities.* TypeORM's `save(entity)` selects the row and then updates every
  column in which the entity, read some statements earlier, differs from it. A column
  that somebody else changed in between is written back (PATCH /users/me,
  PATCH /projects/:id), and an entity whose row is gone is inserted again.
- *Check, slow hash, act.* bcrypt takes tens to hundreds of milliseconds between the
  read and the write of refresh and of register.
- *What bcrypt sees.* bcryptjs digests 72 bytes. Two refresh tokens of one user share
  their header and the claim `sub`, about a hundred bytes.
- *Locks with a TTL.* The claim of an idempotency key lasts 30 s and is neither
  renewed nor released when the handler fails.
- *Failures between two stores.* Effect done, result not stored; row committed, job
  not added; hash stored, answer lost; commands ioredis sends twice.
- *Things that are tried a few times and then never again*: the first connection to
  Postgres (5 tries, then the process exits and Docker starts it again) and every
  outage of Redis (10 tries, then the client is dead while the process lives on).
- *A script that is several transactions* and takes the first of them as the sign that
  all were made (the seed), in a database others write to.
- *Settings that are read twice*, once by the schema and once as text.
- *Two nested levels of retry* around the email provider, with workers that lose jobs.

### What correctness means, component by component

- Sessions: a logout ends the session; a rotated token is dead; a pair that is handed
  out works; nobody's session ends up in somebody else's row.
- Idempotency: one handler at a time per key, one effect per key as long as its result
  is remembered, replays are the result of that effect, no key is locked for good.
- Registration: one account per address, none half made, 409 only for an account that
  exists, a welcome only for an account that stays, everybody is answered.
- Seed: its projects belong to its own accounts, it is there once, it ends.
- Projects: only the owner's requests change a project, a deleted project stays
  deleted, PATCH changes what it is asked to change.
- Instance: short outages cost nothing, no request waits for Redis without end,
  readiness tells the truth, the container is usable again by itself, and the settings
  in use are those that were written and validated.
- Pipeline: in no period of a ttl does a client get past a limit, nobody is refused for
  what others send, a limit holds where it is announced, and the metrics count the
  status that was sent.
- Email queue: calls of the provider are bounded, completed means sent, failed means
  that everything was tried, every job settles.

## 2. Modules

| Module | What it is |
|---|---|
| `TypeOrm` | the two operators that say what `Repository.save` writes; external |
| `Sessions` | login, refresh, logout, PATCH /users/me on the `users` row |
| `SessionsProofs` | its theorems |
| `AtMostOnce` | what an idempotency key promises, with no clock, lock or cache |
| `Idempotency` | the interceptor and its Redis keys; shown to implement `AtMostOnce` |
| `IdempotencyProofs` | its theorems, and those of `IdempotentPosts` |
| `AtomicAccounts` | what a registration promises: one step, whole or not at all |
| `Registration`, `RegistrationProofs` | `register`, its transaction and its job; shown to implement `AtomicAccounts` |
| `Seed`, `SeedProofs` | runs of `npm run seed`, in the database of `Registration`, which it extends |
| `IdempotentPosts` | the two routes of the interceptor: POST /auth/register (`Registration`) and POST /projects behind `Idempotency` |
| `Projects`, `ProjectsProofs` | POST, PATCH and DELETE of `/projects` |
| `Pipeline`, `PipelineProofs` | throttlers, guards, metrics and exception filter around every request |
| `Delivery` | what the queue promises of one email, with no tries, runs, locks or workers |
| `EmailQueue`, `EmailQueueProofs` | BullMQ as configured, `EmailProcessor`, `withRetry`; shown to implement `Delivery` |
| `RedisClient` | the shared ioredis client and the commands that wait for it |
| `Config` | settings from their text to what the program reads |
| `Instance`, `InstanceProofs` | one container: process, first connection, readiness probe, built from `Config` and the actions of `RedisClient`; the theorems about both |
| `MC*` | instances for TLC: symmetry, the settings of `MCInstance` |

Operators whose name has a suffix (`Claim_NoNX`, `Insert_NoIndex`, ...) are wrong
variants of the operator that follows them: a missing guard, a swapped order, a
forgotten reset. Putting one in the place of its original makes TLC report the
property it is listed with in `PROJECT.json`; that is how each property is known to
depend on the code.

### Sessions

`row[u]` holds the columns of `users` that these requests write (`name`,
`refresh_token_hash`); `req[r]` is a request with its local variables; `held` are the
refresh tokens clients have. One action is the code between two database calls:

- login: `LoginRead` (LocalStrategy, `validateUser`), `LoginSign` and `StoreHash`
  (`issueTokenPair`), `Reply`;
- refresh: `RefreshRead` (guard, `findById`), then `RefreshSign`, `StoreHash`, `Reply`,
  or `RefreshMismatch` and `RefreshClear`;
- logout: `LogoutStart`, `LogoutStore`;
- PATCH /users/me: `PatchRead` (`findById`, `Object.assign`), `PatchDiff` and
  `PatchStore` (the SELECT and the UPDATE of `save`);
- `Fail`: a failing statement, a stopped process or a lost answer ends a request
  anywhere, and what it stored stays stored.

A token is its claims `sub` and `iat`, `iat` in seconds; signatures are not modelled,
since only signed tokens pass the guards. `Bcrypt` keeps of a token what its first
`BcryptBytes` bytes determine. `ended` and `superseded` are history variables: they
record logouts, and tokens replaced by a login or refresh, that *no other request of
the user overlapped*. `LogoutHolds` says that such a logout holds whatever overlaps
later, `PairUsable` that overlapping logins and refreshes do not cost each other their
pairs: with 72 bytes the hash any of them stores matches the token of every other, and
only a request that leaves the row without a hash can make a pair useless. `superseded`
is there for `SupersededNeverAccepted`, which the code violates. What overlapping a
logout does is shown by `RefreshNeverReopens`; a PATCH /users/me that read the row before
a logout and saves after it opens the session again in the same way.

### Idempotency and AtMostOnce

`redis[k]` is a value (sentinel, or the result of a call) with its remaining TTL.
A call does `Get`, `Claim` (`SET NX`), `Commit` (the handler's effect) or `Throw`, and
`Store`. `ClaimResent` is ioredis repeating a `SET NX` whose answer was lost,
`StoreUnanswered` and `Fail` are crashes and failing commands; `get` turns a failure
into "no value", which is a disjunct of `Get`. `Tick` lets a second pass for all TTLs
and for handlers, which `MaxInFlight` bounds: the interceptor itself sets no limit.

`AtMostOnce` knows only the remembered execution of a key. `Execute` needs a key with
none, `Answer` gives its result, `Expire` forgets it after its time, and `Lose` forgets
early an execution that never answered its own call. `KeepsPromise` maps the memory to
the call that is storing its result or to the result in Redis.

### Registration and AtomicAccounts

`table` are the committed rows, `tx[a]` the row of an open transaction, `call[a]` the
call, `mail[a]` the fire-and-forget `emailsQueue.add`. Postgres makes the INSERT of an
address wait for another open transaction that has inserted it (the action is not
enabled) and refuses it (23505, mapped to 409 by the filter) when that one commits.
`Abort` is a rollback at any statement, `CommitUnanswered` a COMMIT that takes effect
without an answer, `Crash` the end of the process after it.

`AtomicAccounts` has no statements: `Create` makes a whole account if the address is free
at that moment, and `Tell` says what has become of a request. `RegisterIsAtomic` maps
`Commit` and `CommitUnanswered` to `Create` and the ends of a call to `Tell`; a call that
is told "taken" or "failed" gets no account afterwards.

### Seed

`Seed` extends `Registration`: runs of the seed and registrations write one table under
one unique index. `seed[s]` is a run with the number of accounts it has saved. Each
`userRepo.save` is a transaction that opens, inserts and commits within one action
(`Saved`, or `Unanswered` when the answer of its COMMIT is lost); it waits for a
registration that has inserted the address, as an INSERT of a registration does.
`projects` holds the runs whose one `projectRepo.save` committed. `SeedFails` stops a
run anywhere, `SaveRefused` is the unique violation that ends it.

The header of `seed.ts` says "Idempotent". What holds is `SeedIdempotent`: a complete
seed is never added to. "Seed data already present" (`seed.ts:33`) is less than it says:
the administrator that makes a run skip may have been registered through the API, its
run may still be at work, or may have failed, and then, by `AbandonedStays`, no rerun
ever completes it.

### IdempotentPosts

It extends `Idempotency` and holds an instance of `Registration`, whose call is `reg`. A
request is a call of the interceptor and, with a key of `RegisterKeys`, of `register` too;
every action is a pair of their actions or one of them alone. While the interceptor's call
is "handling" the handler runs (`Within`, `Throws`), its COMMIT is the effect (`Commits`),
what it returns is stored and answered (`Returns`); `Dies` is a failure before the handler
or past the COMMIT. POST /projects is one INSERT (`Project`, `ProjectLost`). All clients
register one address, so that they meet.

### RedisClient

`client` is ioredis's status, the number of its tries and its timer; `cmd[c]` a command,
with the ticks it has waited. A tick is 200 ms, the unit of `retryStrategy`. `Closed` is
what happens each time a connection closes or cannot be opened: `retryStrategy(times)`
gives a delay or null, and at every fourth try (`maxRetriesPerRequest + 1`) the commands
that wait are rejected. ioredis sends commands whose answer was lost again
(`autoResendUnfulfilledCommands`), so they wait like the others. Connecting and the
ready check are one step; a try takes up to `MaxDial` ticks. `since` is a history
variable.

Two things the comment above `retryStrategy` says differ from it, neither of them a
property here: the delays grow linearly, not exponentially, and the cap of 5 s is never
reached, since the tenth delay is 2 s.

### Instance and Config

`proc` is the process of a container: `off`, `booting` (NestFactory.create, until Postgres
answers), `created`, `listening`, `draining` (after SIGTERM). `Refuse` is a start with
settings that are not valid, `Refused` and `BootFails` are the tries of TypeORM's module,
`Ends` empties what dies with the process, and `Start` is also Docker's
`restart: unless-stopped` (`src/infra/docker-compose.yml:61`). A probe (`Ready`) sends a
PING on the shared client and starts the database check; `PingCheck` is its outcome,
`Respond` the answer once both are there. The heap check may say either. A try to
connect to Postgres fails at once; one that times out only makes bootstraps longer.

`Config` follows a setting from the .env file and the environment (`Merged`), through the
schema (`Accepts`, `Coerced`), to what `configuration()` reads (`Configuration`), one
variable of each kind: a required text, a number that must be positive, one that need
not be, a flag. @nestjs/config writes coerced values back into `process.env` where the
variable was missing there, so a flag of the file is compared in its coerced form.

### Projects

`row[p]` is a project or None; `creator[p]` is who created it, which nothing writes
again; `name` and `description` stand for all fields of the
body (`status` is written like them). `FindOne` is the 404 and 403 check; `PatchRead`,
`PatchSelect`, `PatchUpdate` and `PatchInsert` are the statements of a PATCH,
`RemoveRead` and `RemoveDelete` those of a DELETE. `deleted` records DELETEs that no
other request on the project overlapped. `OwnerWrites` is about every change of a row,
the second INSERT of a deleted project by a late PATCH included: its request is the
creator's, although it checked the owner on an entity whose row is gone.

### EmailQueue and Delivery

`job[j]` is BullMQ's job (state, attemptsMade, times stalled, the worker that holds its
lock), `run[w]` what a worker executes and the try `withRetry` is in. A worker that is
too slow (`Stall`) or dies (`Die`) loses its job; the slow one may go on, and what it
does at the end (`Complete`, `Throw`) is ignored because the lock is no longer its own.
The provider is a stub in the repository; it is modelled as the call that the comment
around it asks for, which may fail.

`Delivery` counts for each job how often its email was accepted and how often the job was
taken away from a worker. `Complete` needs an accepted email, `GiveUp` no more than one
for each time the job was taken away (none, if it never was), and `Accept` never passes
one more than that. `KeepsDelivery` maps `SendOk` to `Accept`, `Stall` to `TakeAway` and
the last `Complete` or `Throw` to the outcome.

### Pipeline

`req[q]` is a request with its client, route and `res.statusCode`; `hits`, `lasting` and
`until` are the store of `@nestjs/throttler`: a count per throttler, client and route
whose entries last one ttl, those whose timer was stopped, and the end of a block.
`counter` is `http_requests_total`. Routes are of four kinds, "login" among them, where
alone the throttler `auth` is announced.

The source of `@nestjs/throttler` is not part of the repository. Its in-memory store is
modelled as version 6 is known to behave: one request too many starts a block of a ttl;
the first request after it empties the count of its own client and route, and stops the
timers of *all* counts of that throttler, so that the counts of other clients and routes
last until a block of their own ends. A client can thus be refused for requests of its
own that are older than a ttl, because of another one's block; `RefusalEarned` says what
remains: no request of anybody else is ever counted against it, and each block costs a
full limit of its own requests. With a store that does not stop those timers fewer
requests are refused; nothing in `WindowHolds` or `RefusalEarned` depends on it.

`Arrive` is ThrottlerGuard with both throttlers (the store is in memory and nothing else
runs between them), `Admit` and `Deny` the other guards, `Return` and `Throw` the end of
the handler: first `finalize()` of MetricsInterceptor, then the answer or
HttpExceptionFilter. Nest runs pipes inside the interceptors, so a failed validation is a
`Throw`.

## 3. What the runs check

| Run | Result | What it shows |
|---|---|---|
| `sessions_hold` | holds | with the 72 bytes bcrypt digests: a clean logout holds, pairs stay usable through overlapping logins and refreshes, a clean PATCH keeps the session, and the reuse branch is never entered |
| `sessions_whole` | holds | rows hold only digests of tokens of their own user, seen with a digest that tells all tokens apart, so that the reuse branch runs as well |
| `sessions_old_token` | violated | with 72 bytes a rotated token is still accepted |
| `sessions_logout_race` | violated | a refresh that compared before a logout stores after it |
| `idempotency_holds` | holds | mutual exclusion, no early repeat, faithful replay, the refinement, keys are freed; repeated registrations are answered with the one account there is, and a 409 for one's own account means an answer was lost or expired |
| `accounts_hold` | holds | registrations among runs of the seed: unique addresses, the refinement of `AtomicAccounts`, justified 409s, welcomes, seeds that are never added to, everyone answered |
| `projects_safe` | holds | only the creator's requests change, delete or bring back a project; clean deletes are permanent, clean PATCHes partial |
| `instance_holds` | holds | patience of the bootstrap and of the Redis client, no command waits too long, 200 means usable, validated ports, the container heals unless its client gave up |
| `pipeline_holds` | holds | limits hold in every window, and a refusal takes a full limit of the client's own requests, whatever blocks of others do to the counts |
| `throttle_announced` | violated | the throttler `auth`, announced for login and register, refuses requests elsewhere: in the trace a health probe, which `@SkipThrottle()` exempts from `default` only |
| `metrics_status` | violated | a request that fails in its handler is counted with the status of success |
| `email_queue_holds` | holds | bounded calls, failed means tried, a duplicate only for a lost job, the refinement of `Delivery`, settles |

The violated properties state what a comment of the repository says; `PROJECT.json`
quotes each line under `findings`.

The save of a stale entity is why the properties of PATCH and DELETE are about requests
that nothing overlapped (`clean`, `deleted`). With overlap they do not hold, and the
hazards say so: a PATCH that read the project before a DELETE inserts it again after its
204 (`projects.controller.ts:89`: "Delete a project permanently."), a PATCH writes the
old value of a field it does not supply over another one's new value
(`update-project.dto.ts:5`: "only supplied fields are applied on PATCH"), and
PATCH /users/me writes an old `refresh_token_hash` back when a login, refresh or logout
overlaps it. `OwnerWrites` holds through all of it.

The flags: `z.coerce.boolean` takes every text but the empty one for true. A flag that
the shell or Docker sets is compared as it was written and is right; one that only the
.env file sets is not, so `DATABASE_SYNCHRONIZE=false` of a .env file synchronizes the
schema (`.env.example:13`: "keep false in production"). `FlagsMisread` proves for which
settings exactly. `PortAsValidated` holds because the schema excludes 0 for a port;
`REDIS_TTL=0` is accepted and becomes 3600, and nothing reads it.

`Heals` has the exception it needs: a client that gave up is never replaced. It can
happen in the bootstrap already, where ten tries end (11 s) before Postgres's five do
(12 s): the process then listens, its liveness is fine, and its readiness answers 503 for
good. A process that ended is started again by Docker; one that an operator stopped with
`docker stop` is not, and is outside of `Heals`. A PING waits 5.4 s for a client that
cannot connect, more if the tries time out (`Longest`), so a readiness probe with a
shorter timeout gets no answer at all. The bound is about commands that wait for a
connection: one that was sent on a connection whose other side has silently gone waits
until TCP notices.

Two more things the models make precise. When the process stops, or Redis fails,
between an effect and its stored result, a retry after the lock's TTL has the effect
again, or, at POST /auth/register, a 409 for the client's own account;
`RepeatedOnlyAfterExpiry` is about stored results for that reason, and `AtMostOnce` has
the action `Lose`, which permits that second effect. A handler that fails leaves its key
answering 409 with nothing in flight until the lock ends (`KeyFreed`).

### Bounds

- Sessions: three slots (a request, one that overlaps it and one that comes after, or a
  third that overlaps both), one user for the properties of a session, two users and
  two slots for provenance; two clock ticks give three generations of tokens, enough
  for a token, its successor and a login in between. `TokenDiffersAt` is 106, the byte
  of a signed refresh token in which the digits of `iat` begin, and `BcryptBytes` is 72,
  as in bcryptjs, but for `sessions_whole`: there it is 128, which makes provenance the
  sharper statement (the hash must come from the very token) and reaches the branch that
  is dead with 72. `Provenance` and `LogoutEnds` are proved for any digest.
- Idempotency: three requests (a holder, a rival, a late retry) with two keys of
  registrations and one of projects; `Plans` has one way to share the keys out for each
  that there is up to renaming. TTLs of 2 and 3 stand for 30 s and 24 h: what matters is
  that a handler (1) ends before the lock and that the lock ends before the result.
- Accounts: two registrations and three runs of the seed on the seed's three addresses:
  one writer waits for another while a third comes after both, and a rerun meets what an
  interrupted run and a registration left.
- Instance: one crash or stop, so that a process has a predecessor; one probe, which is
  asked again and again (probes do not affect each other); a dial of one tick; the
  configured 10 and 5 tries with their delays; every kind of setting in the few texts
  that tell the kinds apart. Outages are not bounded.
- Projects: three slots, two users, one project, two values per field. Projects do not
  affect each other, and the proofs cover any number.
- Pipeline: limits 2 (`default`) and 1 (`auth`) in the place of 100 and 10, a ttl of two
  ticks and five instants; five requests of two clients on login, where both throttlers
  apply: enough for one client to pass, be refused and end its block while a request of
  the other is counted, and for the other to be refused because of it. Routes are keys
  like clients, and the proofs cover all of them; the violation runs need three requests
  of one client.
- Email queue: the configured 3 runs of 3 tries and BullMQ's default of one stall, with
  three workers on two jobs, so that a stale and a current run of a job coexist with
  a third worker.

Runs do not check for deadlock: slots, calls and jobs are finite, and a system that has
served them all stops.

### Fairness

- Idempotency: the clock advances, and a handler that runs commits or throws and its
  result is stored or fails. This is what makes locks end; nothing is assumed of calls.
- Registration and Seed: Postgres answers and the process, or the script, runs on for a
  call that is not aborted.
  Nothing is assumed of the queue: an `add` that hangs delays nobody, and the wrong
  variant that awaits it is caught.
- Instance: Docker starts a process that ended, timers run, connections are tried and
  answers arrive while the other side is up. Nothing is assumed of Postgres, Redis, the
  orchestrator or the probes; `Heals` is about the time after the last outage.
- Email queue: the provider answers or fails (`simulateSend` always settles), timers
  fire, a worker takes a waiting job, and BullMQ's stalled check finds the job of a
  dead worker. Workers may die and lose jobs at any time; `MaxStalled` ends that.

## 4. What is proved

All theorems are for arbitrary constants under the named assumptions of the modules.

- `SessionsProofs`: `TypeCorrect`, `Provenance`, `LogoutEnds`, and three theorems about
  what bcrypt's limit does when the digest ends before `iat`: `ReuseUndetected` (the
  mismatch branch is dead code), `OldTokensStayGood` (every token ever signed for a user
  matches whatever hash the row holds, so that rotation retires none) and
  `PairsAreUsable`. `IInv` adds to the properties that requests which overlap know it
  (`CleanInv`), that what a request will store is a digest of a token of its user
  (`ProvInv`), and that after a clean logout nothing is in flight that could store a hash
  except a later login (`EndedInv`). `PairsAreUsable` and `CleanPatchesKeepSessions` need
  `AloneInv`: while a request nobody overlapped is under way, the row is what it read or
  stored.
- `IdempotencyProofs`: `IdempotencyTypeCorrect`, `ReplaysAreFaithful`, and, assuming
  `MaxInFlight < LockTtl`, `LockExcludes`, `NoEarlyRepeat` and `PromiseIsKept`
  (the refinement of `AtMostOnce`). The invariant ties a running handler's age to the
  remaining TTL of its lock: while it runs its sentinel is in Redis, so nobody else can
  claim. The refinement takes from it that one call at most is storing for a key.
  `LocksRunDown` needs no such assumption: nothing prolongs a lock and every second
  shortens it, which is what `KeyFreed` rests on.
- `IdempotencyProofs` goes on to `IdempotentPosts`. Each of its steps is a step of the
  interceptor (`PostsAreIdempotent`) and one of `Registration` (`PostsRegister`), or leaves
  that part alone, so what is proved of `Idempotency` holds of it (`PostsKeepPromise`).
  What it says of both parts together rests on `LinkInv` (the accounts are those of the
  registrations whose handler took effect) and `RanInv` (which is only past the claim). `AnswersAreTheAccount` needs no bound on the handlers, because the
  unique index does what the lock fails to do; `OwnConflictsAreExplained` needs it. A
  theorem of `RegistrationProofs` cannot be cited through the instance, so `AccountInv`
  is proved again here, for the one address.
- `RegistrationProofs`: all safety properties of `Registration` alone. The invariant
  says that the addresses of committed rows and open transactions are pairwise different
  and that a transaction is open exactly between INSERT and COMMIT. `RegistrationIsAtomic`
  is the refinement of `AtomicAccounts`: until its COMMIT a call's row is its own
  transaction's, for an address nobody else can commit, and what the call is told comes
  from a row that is committed for good.
- `SeedProofs`: the same among any number of runs of the seed (a run's rows do not
  disturb that invariant; `SeedKeepsAtomicity` maps its saves to `Add`), and the safety
  properties of the seed. The argument is
  that every row of a run comes with the administrator's (`SavedInv`), which the unique
  index gives to one run only (`OneRun`): no other run gets past its first save.
  `WaitsAreShort` is the safety part of `NobodyWaitsForever`: whoever is waited for is
  between its INSERT and its COMMIT and waits for nobody.
- `InstanceProofs`: `GivesUpLate` and `NoCommandHangs` of `RedisClient` (the number of
  tries and the timer are tied to the time since the client was ready, and the wait of a
  command to the tries since the last flush). The lemma `InstanceRefines` lifts them to
  every instance, whose steps move its client by `RedisClient`'s actions or not at all;
  type correctness, `BootIsPatient`
  (tries are `RetryDelay` apart), `ReadinessIsReal` (what a probe has been told it was
  told while it waited) and `PortsAreValidated`. `FlagsMisread` says for exactly which
  settings a flag is not what was written.
  `OutagesAreDecided` and `BootIsDecided` are the other ends of the first and of
  `BootIsPatient`: within 11 s and eleven tries the client is ready or has given up
  (`OutageInv`: the delays and tries so far are all that has passed), and within 12 s a
  bootstrap has connected or ends. TLC reaches both limits. They are the safety part of
  `Heals`: what is left to fairness is that timers run and due steps are taken.
- `ProjectsProofs`: type correctness, `CleanDeletesHold`, and the action property
  `OnlyOwnersWrite`. The invariant carries findOne's check to the later statement: the
  owner of a project's row and of every entity copy of it is its creator (`CreatorInv`),
  and so is the user of every request that is past its check, whether or not the row is
  still there. `CleanPatchesArePartial` adds that a PATCH nobody overlapped finds
  the row as its findOne did (`PatchInv`).
- `EmailQueueProofs`: `CallsAreBounded`, `CompletedIsSent`, `FailedIsTried`,
  `AckedAtMostOnce` and `DeliveryIsKept`, the refinement. Of these the two that count over workers keep an account for each job: calls
  made and calls left to its runs (the pairs of a worker and a try, `Left`) are paid for
  by its runs, and emails accepted plus workers that lost the job and may still have one
  accepted (`Stale`) by its stalls. The second account is also the guard of `Accept` and
  `GiveUp` in `Delivery`.
- `PipelineProofs`: type correctness, `WindowAlwaysHolds` and `RefusalsAreEarned`, for
  any routes. The throttlers forget: counts expire, and the end of a block drops all
  counts of its key and stops the timers of the others. The invariant says what is left
  of the truth: with no block on, the counts of a key include the requests let on in the
  last ttl, and all of them were let on after its last refusal (`LiveInv`); a
  block began with a full window and has let nothing on since (`BlockInv`), so that when
  it ends, a ttl later, the forgotten requests are out of every window still to come, and
  the next block needs a full limit of new ones.

Type invariants, `SeedWhole`, `NoHalfAccount` and `CompletedMeansSent` are proved and not
run: the last two are contained in the refinements `RegisterIsAtomic` and `KeepsDelivery`,
which are.

Only model-checked: the liveness properties `KeyFreed`, `NobodyWaitsForever`, `Heals` and
`Settles`, since liveness under fairness and ENABLED are beyond the prover. The violated
properties are, of course, not theorems.

## 5. What is not modelled

- Cryptography, password checks, validation of bodies: inputs are valid ones, since a
  request refused with 400 or 401 changes nothing.
- `is_active` is a constant: nothing in `src` writes it.
- Response envelope, request id, logging, Swagger, decorators, the duration histogram:
  no state that requests share, or none that anything depends on.
- A restart, which empties the throttlers' store and the counters, and several processes,
  which have one each.
- Notification queue: nobody adds jobs and its handler only logs.
- CORS, validation pipe and Swagger of the bootstrap; TLS, pool and logging options of the
  database module: wiring without later effect on what is modelled.
- What a synchronized schema does to the tables; several containers in one run.
- `UsersService.create`, `AppCacheService.del`, `exists` and `ttl`: no caller.
- Delays of `withRetry` and of the backoff are waits of any length.

## 6. Plan

Done: `Sessions`, `Idempotency` with `AtMostOnce`, `Registration` with `AtomicAccounts`
and `Seed`, `IdempotentPosts`, `Projects`, `EmailQueue` with `Delivery`, `Pipeline`,
`Instance` with `RedisClient` and `Config`, and the proofs of every safety property and
every refinement that the passing runs check. What would come next: the safety part of
`Settles` (what a step towards the end costs), an abstract specification of a session for
requests that do not overlap, and projects and sessions of one user in one model.
