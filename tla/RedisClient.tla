---------------------------- MODULE RedisClient ----------------------------
(***************************************************************************)
(* The Redis client the process shares (cache.module.ts): an ioredis       *)
(* connection with the retryStrategy and maxRetriesPerRequest configured   *)
(* there, and the commands waiting for it.                                 *)
(*                                                                         *)
(* ioredis asks retryStrategy for a delay each time a connection closes or *)
(* cannot be opened; the number of tries goes back to 0 when one is ready. *)
(* A command given meanwhile waits in the client's offline queue, and so   *)
(* does one whose answer was lost, to be sent again.  At every fourth try  *)
(* (maxRetriesPerRequest + 1) all that wait are rejected.                  *)
(*                                                                         *)
(* A tick is 200 ms, the unit of retryStrategy.                            *)
(***************************************************************************)
EXTENDS Naturals

CONSTANTS
    Commands,  \* commands that may be on their way at one time
    MaxDial    \* ticks after which opening a connection is given up

ASSUME DialAssumption == MaxDial \in Nat

VARIABLES
    redis,   \* whether Redis can be reached: "up" or "down"
    client,  \* status, number of tries, and the ticks its timer has left
             \* ("reconnecting") or has run ("connecting")
    cmd,     \* cmd[c]: state of the command c, and the ticks it has waited
    since    \* history: ticks since the client was ready, or was created

clientVars == <<redis, client, cmd, since>>
-----------------------------------------------------------------------------
MaxTries == 10
MaxRetriesPerRequest == 3

\* retryStrategy(times): whether it returns null, and otherwise the delay, which
\* is min(times * 200, 5000) ms.
GivesUp(times) == times > MaxTries
Delay(times) == IF times < 25 THEN times ELSE 25

\* Whether the try is one at which waiting commands are rejected.  The mutant is
\* the setting the queues' connections have (queue.module.ts).
FlushDue_Null(times) == FALSE
FlushDue(times) == times % (MaxRetriesPerRequest + 1) = 0

Idle == [st |-> "idle", wait |-> 0]
NotRunning == [status |-> "off", tries |-> 0, timer |-> 0]

\* What waits is rejected; what was sent waits for the next connection.
Flush(q) == [c \in Commands |-> IF q[c].st = "queued" THEN [st |-> "error", wait |-> 0]
                                                      ELSE q[c]]
Requeue(q) == [c \in Commands |-> IF q[c].st = "sent" THEN [st |-> "queued", wait |-> 0]
                                                      ELSE q[c]]
Resend(q) == [c \in Commands |-> IF q[c].st = "queued" THEN [st |-> "sent", wait |-> 0]
                                                       ELSE q[c]]

ClientInit ==
    /\ redis \in {"up", "down"}
    /\ client = NotRunning
    /\ cmd = [c \in Commands |-> Idle]
    /\ since = 0

\* The connection has closed, or could not be opened.
Closed(q) ==
    LET times == client.tries + 1
    IN  \/ /\ GivesUp(times)
           /\ client' = [status |-> "end", tries |-> times, timer |-> 0]
           /\ cmd' = Flush(q)
        \/ /\ ~GivesUp(times)
           /\ client' = [status |-> "reconnecting", tries |-> times, timer |-> Delay(times)]
           /\ cmd' = IF FlushDue(times) THEN Flush(q) ELSE q

\* lazyConnect is off: the factory's new Redis(...) connects at once.
Create ==
    /\ client.status = "off"
    /\ client' = [status |-> "connecting", tries |-> 0, timer |-> 0]
    /\ since' = 0
    /\ UNCHANGED <<redis, cmd>>

\* The connection is open and the ready check has passed.  The mutant goes on
\* counting tries.
DialOk_SameTries ==
    /\ client.status = "connecting" /\ redis = "up"
    /\ client' = [client EXCEPT !.status = "ready", !.timer = 0]
    /\ cmd' = Resend(cmd)
    /\ since' = 0
    /\ UNCHANGED redis
DialOk ==
    /\ client.status = "connecting" /\ redis = "up"
    /\ client' = [status |-> "ready", tries |-> 0, timer |-> 0]
    /\ cmd' = Resend(cmd)
    /\ since' = 0
    /\ UNCHANGED redis

DialFails ==
    /\ client.status = "connecting" /\ redis = "down"
    /\ Closed(cmd)
    /\ UNCHANGED <<redis, since>>

Redial ==
    /\ client.status = "reconnecting" /\ client.timer = 0
    /\ client' = [client EXCEPT !.status = "connecting"]
    /\ UNCHANGED <<redis, cmd, since>>

\* A connection that was ready closes.
Drop ==
    /\ client.status = "ready" /\ redis = "down"
    /\ Closed(Requeue(cmd))
    /\ UNCHANGED <<redis, since>>

\* sendCommand: a client that has ended rejects it at once.
Send(c) ==
    /\ client.status # "off" /\ cmd[c].st = "idle"
    /\ cmd' = [cmd EXCEPT ![c].st = CASE client.status = "ready" -> "sent"
                                      [] client.status = "end" -> "error"
                                      [] OTHER -> "queued"]
    /\ UNCHANGED <<redis, client, since>>

Answer(c) ==
    /\ client.status = "ready" /\ redis = "up" /\ cmd[c].st = "sent"
    /\ cmd' = [cmd EXCEPT ![c].st = "ok"]
    /\ UNCHANGED <<redis, client, since>>

\* The caller has taken the result.
Taken(c) ==
    /\ cmd[c].st \in {"ok", "error"}
    /\ cmd' = [cmd EXCEPT ![c] = Idle]
    /\ UNCHANGED <<redis, client, since>>

\* The process is gone, and the client with it.
Gone ==
    /\ client.status # "off"
    /\ client' = NotRunning
    /\ cmd' = [c \in Commands |-> Idle]
    /\ since' = 0
    /\ UNCHANGED redis

RedisFails ==
    /\ redis = "up" /\ redis' = "down"
    /\ UNCHANGED <<client, cmd, since>>

RedisReturns ==
    /\ redis = "down" /\ redis' = "up"
    /\ UNCHANGED <<client, cmd, since>>

Disconnected == client.status \in {"connecting", "reconnecting"}

\* 200 ms pass, unless a timer of the client is due.
ClientTick ==
    /\ client.status = "reconnecting" => client.timer > 0
    /\ client.status = "connecting" => client.timer < MaxDial
    /\ client' = CASE client.status = "reconnecting" -> [client EXCEPT !.timer = @ - 1]
                   [] client.status = "connecting" -> [client EXCEPT !.timer = @ + 1]
                   [] OTHER -> client
    /\ cmd' = [c \in Commands |-> IF cmd[c].st = "queued" THEN [cmd[c] EXCEPT !.wait = @ + 1]
                                                          ELSE cmd[c]]
    /\ since' = IF Disconnected THEN since + 1 ELSE since
    /\ UNCHANGED redis

ClientNext ==
    \/ Create \/ DialOk \/ DialFails \/ Redial \/ Drop \/ Gone
    \/ \E c \in Commands : Send(c) \/ Answer(c) \/ Taken(c)
    \/ RedisFails \/ RedisReturns \/ ClientTick

ClientSpec == ClientInit /\ [][ClientNext]_clientVars
-----------------------------------------------------------------------------
ClientTypeOK ==
    /\ redis \in {"up", "down"}
    /\ client \in [status : {"off", "connecting", "ready", "reconnecting", "end"},
                   tries : 0..(MaxTries + 1), timer : Nat]
    /\ cmd \in [Commands -> [st : {"idle", "queued", "sent", "ok", "error"}, wait : Nat]]
    /\ since \in Nat

\* The client gives up, for good, no earlier than 11 s after it was last ready,
\* whatever Redis does meanwhile (cache.module.ts retryStrategy: the delays of
\* ten tries).  Shorter outages never end it.
GiveUpTakesTime == client.status = "end" => since >= 55

\* "Fail commands quickly when disconnected rather than queuing indefinitely":
\* a waiting command is rejected after 5.4 s at most where connections are
\* refused at once, with the time of three tries (or four) more where they time out.
\* It is the way between two flushes, which the numbers of tries set.
Longest == IF MaxDial > 5 THEN 22 + 4 * MaxDial ELSE 27 + 3 * MaxDial
CommandsFailFast == \A c \in Commands : cmd[c].st = "queued" => cmd[c].wait <= Longest
=============================================================================
