--------------------------- MODULE InstanceProofs ---------------------------
(***************************************************************************)
(* Proofs about RedisClient and about Instance, for any number of probes   *)
(* (commands), any settings, any MaxDial and any number of stops.          *)
(*                                                                         *)
(* First the client: it gives up no earlier than 11 s after it was last    *)
(* ready, and no command waits longer than Longest.  Both count ticks      *)
(* between two events, so the inductive invariant says, for each number of *)
(* tries, how many have passed at least since the client was ready, and at *)
(* most since waiting commands were last flushed.  A second invariant      *)
(* bounds the former from above: no outage is undecided for longer than    *)
(* 11 s and eleven tries.                                                  *)
(*                                                                         *)
(* Then the instance: what it does to its client is what RedisClient       *)
(* allows, so these theorems hold of every instance; and a readiness probe *)
(* that is told 200 was told so by this process's connections, while it    *)
(* waited.                                                                 *)
(***************************************************************************)
EXTENDS Instance, TLAPS

\* The tries of each status, and the range of its timer.
Shape ==
    /\ client.status \in {"off", "ready"} => client.tries = 0
    /\ client.status = "reconnecting" => client.tries \in 1..10 /\ client.timer <= client.tries
    /\ client.status = "connecting" => client.tries \in 0..10 /\ client.timer <= MaxDial
    /\ \A c \in Commands : /\ cmd[c].st = "queued" => Disconnected
                           /\ cmd[c].st # "queued" => cmd[c].wait = 0

\* After n tries: `total' is the sum of the n delays, `part' that of the delays
\* since the last flush, `dials' the time of the tries since then.
At(n, total, part, dials) ==
    client.tries = n =>
      /\ client.status = "reconnecting" =>
           /\ since + client.timer >= total
           /\ \A c \in Commands : cmd[c].st = "queued" => cmd[c].wait + client.timer <= part + dials
      /\ client.status = "connecting" =>
           /\ since >= total
           /\ \A c \in Commands : cmd[c].st = "queued" => cmd[c].wait <= part + dials + client.timer

Positions ==
    /\ At(0, 0, 0, 0)
    /\ At(1, 1, 1, MaxDial)
    /\ At(2, 3, 3, 2 * MaxDial)
    /\ At(3, 6, 6, 3 * MaxDial)
    /\ At(4, 10, 4, 0)
    /\ At(5, 15, 9, MaxDial)
    /\ At(6, 21, 15, 2 * MaxDial)
    /\ At(7, 28, 22, 3 * MaxDial)
    /\ At(8, 36, 8, 0)
    /\ At(9, 45, 17, MaxDial)
    /\ At(10, 55, 27, 2 * MaxDial)

ClientIInv == ClientTypeOK /\ Shape /\ Positions /\ GiveUpTakesTime

LEMMA Constants == MaxTries = 10 /\ MaxRetriesPerRequest + 1 = 4
  BY DEF MaxTries, MaxRetriesPerRequest

\* What closedHandler decides for each number of tries.
LEMMA Decisions ==
    ASSUME NEW n \in 1..11
    PROVE  /\ GivesUp(n) <=> n = 11
           /\ FlushDue(n) <=> n \in {4, 8}
           /\ Delay(n) = n
  <1>1. GivesUp(n) <=> n = 11
    BY Constants DEF GivesUp
  <1>2. FlushDue(n) <=> n \in {4, 8}
    BY Constants DEF FlushDue
  <1>3. Delay(n) = n
    BY DEF Delay
  <1>. QED  BY <1>1, <1>2, <1>3

LEMMA InitInductive == ClientInit => ClientIInv
  BY DialAssumption, Constants
  DEF ClientInit, ClientIInv, ClientTypeOK, Shape, Positions, At, GiveUpTakesTime,
      NotRunning, Idle, Disconnected
-----------------------------------------------------------------------------
CmdStates == [st : {"idle", "queued", "sent", "ok", "error"}, wait : Nat]

\* What a connection that closes has to bring along at its n-th try.
Before(q, n, total, waited) ==
    client.tries = n =>
      /\ since >= total
      /\ \A c \in Commands : q[c].st = "queued" => q[c].wait <= waited

Late(q) ==
    /\ \A c \in Commands : q[c].st # "queued" => q[c].wait = 0
    /\ Before(q, 0, 0, MaxDial)
    /\ Before(q, 1, 1, 1 + 2 * MaxDial)
    /\ Before(q, 2, 3, 3 + 3 * MaxDial)
    /\ Before(q, 3, 6, 6 + 4 * MaxDial)
    /\ Before(q, 4, 10, 4 + MaxDial)
    /\ Before(q, 5, 15, 9 + 2 * MaxDial)
    /\ Before(q, 6, 21, 15 + 3 * MaxDial)
    /\ Before(q, 7, 28, 22 + 4 * MaxDial)
    /\ Before(q, 8, 36, 8 + MaxDial)
    /\ Before(q, 9, 45, 17 + 2 * MaxDial)
    /\ Before(q, 10, 55, 27 + 3 * MaxDial)

\* closeHandler, called with commands that have not waited too long.
LEMMA ClosedInductive ==
    ASSUME ClientTypeOK, NEW q \in [Commands -> CmdStates],
           client.tries \in 0..10, Late(q),
           Closed(q), UNCHANGED <<redis, since>>
    PROVE  ClientIInv'
  <1> DEFINE times == client.tries + 1
  <1>1. times \in 1..11
    OBVIOUS
  <1>2. /\ Flush(q) \in [Commands -> CmdStates]
        /\ \A c \in Commands : Flush(q)[c].st # "queued" /\ Flush(q)[c].wait = 0
    BY DEF Flush, CmdStates, Late
  <1>3. CASE GivesUp(times)
    <2>1. /\ client' = [status |-> "end", tries |-> times, timer |-> 0]
          /\ cmd' = Flush(q)
      BY <1>3 DEF Closed
    <2>2. times = 11 /\ client.tries = 10
      BY <1>1, <1>3, Decisions
    <2>3. since >= 55
      BY <2>2 DEF Late, Before
    <2> QED
      BY <1>2, <2>1, <2>2, <2>3, Constants
      DEF ClientIInv, ClientTypeOK, Shape, Positions, At, GiveUpTakesTime, Disconnected, CmdStates
  <1>4. CASE ~GivesUp(times)
    <2>1. /\ client' = [status |-> "reconnecting", tries |-> times, timer |-> Delay(times)]
          /\ cmd' = IF FlushDue(times) THEN Flush(q) ELSE q
      BY <1>4 DEF Closed
    <2>2. times \in 1..10 /\ Delay(times) = times /\ (FlushDue(times) <=> times \in {4, 8})
      BY <1>1, <1>4, Decisions
    <2>3. cmd' \in [Commands -> CmdStates]
      BY <1>2, <2>1
    <2>4. ClientTypeOK'
      BY <2>1, <2>2, <2>3, Constants DEF ClientTypeOK, CmdStates
    <2>5. Shape' /\ GiveUpTakesTime'
      <3>1. \A c \in Commands : cmd'[c].st # "queued" => cmd'[c].wait = 0
        BY <1>2, <2>1 DEF Late
      <3> QED  BY <2>1, <2>2, <3>1 DEF Shape, GiveUpTakesTime, Disconnected
    <2>6. ASSUME times \in {4, 8} PROVE Positions'
      <3>1. \A c \in Commands : cmd'[c].st # "queued"
        BY <1>2, <2>1, <2>2, <2>6
      <3> QED  BY <2>1, <2>2, <2>6, <3>1, DialAssumption DEF Positions, At, Late, Before, ClientTypeOK
    <2>7. ASSUME times \notin {4, 8} PROVE Positions'
      <3>1. cmd' = q
        BY <2>1, <2>2, <2>7
      <3> QED  BY <2>1, <2>2, <2>7, <3>1, DialAssumption
               DEF Positions, At, Late, Before, ClientTypeOK, CmdStates
    <2> QED  BY <2>4, <2>5, <2>6, <2>7 DEF ClientIInv
  <1> QED  BY <1>3, <1>4
-----------------------------------------------------------------------------
LEMMA DialFailsInductive == ClientIInv /\ DialFails => ClientIInv'
  <1> SUFFICES ASSUME ClientIInv, DialFails PROVE ClientIInv'
    OBVIOUS
  <1>1. client.tries \in 0..10 /\ client.timer <= MaxDial
    BY DEF DialFails, ClientIInv, Shape
  <1>2. cmd \in [Commands -> CmdStates] /\ ClientTypeOK
    BY DEF ClientIInv, ClientTypeOK, CmdStates
  <1>3. Late(cmd)
    <2>1. client.status = "connecting" /\ client.timer \in Nat /\ since \in Nat
      BY DEF DialFails, ClientIInv, ClientTypeOK
    <2>2. \A c \in Commands : cmd[c].st # "queued" => cmd[c].wait = 0
      BY DEF ClientIInv, Shape
    <2> QED  BY <1>1, <1>2, <2>1, <2>2, DialAssumption
             DEF ClientIInv, Positions, At, Late, Before, CmdStates
  <1> QED  BY <1>1, <1>2, <1>3, ClosedInductive DEF DialFails

LEMMA DropInductive == ClientIInv /\ Drop => ClientIInv'
  <1> SUFFICES ASSUME ClientIInv, Drop PROVE ClientIInv'
    OBVIOUS
  <1>1. client.tries = 0
    BY DEF Drop, ClientIInv, Shape
  <1>2. Requeue(cmd) \in [Commands -> CmdStates] /\ ClientTypeOK
    BY DEF ClientIInv, ClientTypeOK, CmdStates, Requeue
  <1>3. \A c \in Commands : Requeue(cmd)[c].wait = 0
    BY DEF Drop, ClientIInv, ClientTypeOK, Shape, Disconnected, Requeue
  <1>4. Late(Requeue(cmd))
    BY <1>1, <1>3, DialAssumption DEF ClientIInv, ClientTypeOK, Late, Before
  <1> QED  BY <1>1, <1>2, <1>4, ClosedInductive DEF Drop

\* The timer of the client runs, with the waits and the history of the client.
LEMMA TickInductive == ClientIInv /\ ClientTick => ClientIInv'
  <1> SUFFICES ASSUME ClientIInv, ClientTick PROVE ClientIInv'
    OBVIOUS
  <1> USE DialAssumption
  <1>1. cmd \in [Commands -> CmdStates] /\ since \in Nat /\ client.timer \in Nat
    BY DEF ClientIInv, ClientTypeOK, CmdStates
  <1>2. cmd' \in [Commands -> CmdStates]
    BY <1>1 DEF ClientTick, CmdStates
  <1>3. \A c \in Commands : /\ cmd'[c].st = cmd[c].st
                            /\ cmd[c].st = "queued" => cmd'[c].wait = cmd[c].wait + 1
                            /\ cmd[c].st # "queued" => cmd'[c].wait = cmd[c].wait
    BY <1>1 DEF ClientTick, CmdStates
  <1>4. CASE client.status = "reconnecting"
    <2>1. /\ client.timer > 0 /\ client' = [client EXCEPT !.timer = @ - 1]
          /\ since' = since + 1 /\ redis' = redis
      BY <1>4 DEF ClientTick, Disconnected
    <2>2. /\ client'.status = client.status /\ client'.tries = client.tries
          /\ client'.timer = client.timer - 1 /\ client'.timer \in Nat
      BY <1>1, <2>1 DEF ClientIInv, ClientTypeOK
    <2>3. ClientTypeOK'
      BY <1>1, <1>2, <2>1, <2>2 DEF ClientIInv, ClientTypeOK, CmdStates
    <2>4. Shape' /\ GiveUpTakesTime'
      BY <1>1, <1>3, <1>4, <2>2 DEF ClientIInv, Shape, GiveUpTakesTime, Disconnected
    <2>5. Positions'
      BY <1>1, <1>3, <1>4, <2>1, <2>2 DEF ClientIInv, Positions, At, CmdStates
    <2> QED  BY <2>3, <2>4, <2>5 DEF ClientIInv
  <1>5. CASE client.status = "connecting"
    <2>1. /\ client.timer < MaxDial /\ client' = [client EXCEPT !.timer = @ + 1]
          /\ since' = since + 1 /\ redis' = redis
      BY <1>5 DEF ClientTick, Disconnected
    <2>2. /\ client'.status = client.status /\ client'.tries = client.tries
          /\ client'.timer = client.timer + 1 /\ client'.timer \in Nat
      BY <1>1, <2>1 DEF ClientIInv, ClientTypeOK
    <2>3. ClientTypeOK'
      BY <1>1, <1>2, <2>1, <2>2 DEF ClientIInv, ClientTypeOK, CmdStates
    <2>4. Shape' /\ GiveUpTakesTime'
      BY <1>1, <1>3, <1>5, <2>1, <2>2 DEF ClientIInv, Shape, GiveUpTakesTime, Disconnected
    <2>5. Positions'
      BY <1>1, <1>3, <1>5, <2>1, <2>2 DEF ClientIInv, Positions, At, CmdStates
    <2> QED  BY <2>3, <2>4, <2>5 DEF ClientIInv
  <1>6. CASE ~Disconnected
    <2>1. client' = client /\ since' = since /\ redis' = redis
      BY <1>6 DEF ClientTick, Disconnected
    <2> QED
      BY <1>1, <1>2, <1>3, <1>6, <2>1
      DEF ClientIInv, ClientTypeOK, Shape, Positions, At, GiveUpTakesTime, Disconnected, CmdStates
  <1> QED  BY <1>4, <1>5, <1>6 DEF Disconnected

LEMMA StepInductive == ClientIInv /\ [ClientNext]_clientVars => ClientIInv'
  <1> SUFFICES ASSUME ClientIInv, [ClientNext]_clientVars PROVE ClientIInv'
    OBVIOUS
  <1> USE DialAssumption, Constants
  <1>1. cmd \in [Commands -> CmdStates]
    BY DEF ClientIInv, ClientTypeOK, CmdStates
  <1>2. CASE Create
    BY <1>1, <1>2 DEF Create, ClientIInv, ClientTypeOK, Shape, Positions, At, GiveUpTakesTime,
                      Disconnected, CmdStates
  <1>3. CASE DialOk
    <2>1. /\ Resend(cmd) \in [Commands -> CmdStates]
          /\ \A c \in Commands : Resend(cmd)[c].st # "queued" /\ Resend(cmd)[c].wait = 0
      BY <1>1 DEF Resend, CmdStates, ClientIInv, Shape
    <2> QED  BY <1>3, <2>1 DEF DialOk, ClientIInv, ClientTypeOK, Shape, Positions, At,
                               GiveUpTakesTime, Disconnected, CmdStates
  <1>4. CASE DialFails
    BY <1>4, DialFailsInductive
  <1>5. CASE Redial
    <2>1. /\ client.timer = 0 /\ client.tries \in 1..10
          /\ client' = [client EXCEPT !.status = "connecting"]
          /\ UNCHANGED <<redis, cmd, since>>
      BY <1>5 DEF Redial, ClientIInv, Shape
    <2>2. client'.status = "connecting" /\ client'.tries = client.tries /\ client'.timer = 0
      BY <2>1 DEF ClientIInv, ClientTypeOK
    <2>3. ClientTypeOK'
      BY <2>1 DEF ClientIInv, ClientTypeOK
    <2>4. Shape' /\ GiveUpTakesTime'
      BY <1>5, <2>1, <2>2 DEF Redial, ClientIInv, Shape, GiveUpTakesTime, Disconnected
    <2>5. Positions'
      BY <1>1, <1>5, <2>1, <2>2 DEF Redial, ClientIInv, ClientTypeOK, Positions, At, CmdStates
    <2> QED  BY <2>3, <2>4, <2>5 DEF ClientIInv
  <1>6. CASE Drop
    BY <1>6, DropInductive
  <1>7. CASE Gone
    BY <1>7 DEF Gone, NotRunning, Idle, ClientIInv, ClientTypeOK, Shape, Positions, At,
                GiveUpTakesTime, Disconnected
  <1>8. ASSUME NEW c \in Commands, Send(c) PROVE ClientIInv'
    <2>1. /\ cmd[c].st = "idle" /\ UNCHANGED <<redis, client, since>>
          /\ cmd' = [cmd EXCEPT ![c].st = CASE client.status = "ready" -> "sent"
                                            [] client.status = "end" -> "error"
                                            [] OTHER -> "queued"]
          /\ client.status # "off"
      BY <1>8 DEF Send
    <2>2. cmd' \in [Commands -> CmdStates]
      BY <1>1, <2>1 DEF CmdStates
    <2>3. /\ cmd'[c].wait = 0 /\ cmd'[c].st # "idle"
          /\ cmd'[c].st = "queued" => Disconnected
          /\ \A d \in Commands \ {c} : cmd'[d] = cmd[d]
      BY <1>1, <2>1 DEF ClientIInv, ClientTypeOK, Shape, Disconnected, CmdStates
    <2>4. ClientTypeOK' /\ GiveUpTakesTime'
      BY <2>1, <2>2 DEF ClientIInv, ClientTypeOK, GiveUpTakesTime, CmdStates
    <2>5. Shape'
      BY <2>1, <2>2, <2>3 DEF ClientIInv, Shape, Disconnected
    <2>6. Positions'
      BY <1>1, <2>1, <2>2, <2>3 DEF ClientIInv, ClientTypeOK, Shape, Positions, At, CmdStates
    <2> QED  BY <2>4, <2>5, <2>6 DEF ClientIInv
  <1>9. ASSUME NEW c \in Commands, Answer(c) \/ Taken(c) PROVE ClientIInv'
    <2>1. UNCHANGED <<redis, client, since>>
      BY <1>9 DEF Answer, Taken
    <2>2. /\ cmd' \in [Commands -> CmdStates]
          /\ cmd'[c].st # "queued" /\ cmd'[c].wait = 0
          /\ \A d \in Commands \ {c} : cmd'[d] = cmd[d]
      BY <1>1, <1>9 DEF Answer, Taken, Idle, CmdStates, ClientIInv, Shape
    <2>3. ClientTypeOK' /\ GiveUpTakesTime'
      BY <2>1, <2>2 DEF ClientIInv, ClientTypeOK, GiveUpTakesTime, CmdStates
    <2>4. Shape'
      BY <2>1, <2>2 DEF ClientIInv, Shape, Disconnected
    <2>5. \A d \in Commands : cmd'[d].st = "queued" => cmd[d].st = "queued" /\ cmd'[d] = cmd[d]
      BY <2>2
    <2>6. Positions'
      BY <2>1, <2>5 DEF ClientIInv, Positions, At
    <2> QED  BY <2>3, <2>4, <2>6 DEF ClientIInv
  <1>10. CASE RedisFails \/ RedisReturns
    BY <1>1, <1>10 DEF RedisFails, RedisReturns, ClientIInv, ClientTypeOK, Shape, Positions, At,
                       GiveUpTakesTime, Disconnected
  <1>11. CASE ClientTick
    BY <1>11, TickInductive
  <1>12. CASE UNCHANGED clientVars
    BY <1>1, <1>12 DEF clientVars, ClientIInv, ClientTypeOK, Shape, Positions, At,
                       GiveUpTakesTime, Disconnected
  <1> QED
    BY <1>2, <1>3, <1>4, <1>5, <1>6, <1>7, <1>8, <1>9, <1>10, <1>11, <1>12 DEF ClientNext
-----------------------------------------------------------------------------
\* The waits of the invariant, at their ends, are those of Longest.
LEMMA NoLongWait == ClientIInv => CommandsFailFast
  <1> SUFFICES ASSUME ClientIInv, NEW c \in Commands, cmd[c].st = "queued"
               PROVE  cmd[c].wait <= Longest
    BY DEF CommandsFailFast
  <1> USE DialAssumption
  <1>1. /\ client.status \in {"connecting", "reconnecting"} /\ client.tries \in 0..10
        /\ client.timer \in Nat /\ cmd[c].wait \in Nat
        /\ client.status = "connecting" => client.timer <= MaxDial
    BY DEF ClientIInv, ClientTypeOK, Shape, Disconnected
  <1>2. cmd[c].wait <= 22 + 4 * MaxDial \/ cmd[c].wait <= 27 + 3 * MaxDial
    BY <1>1 DEF ClientIInv, Positions, At
  <1> QED  BY <1>1, <1>2 DEF Longest

LEMMA ClientInductive == ClientSpec => []ClientIInv
  BY InitInductive, StepInductive, PTL DEF ClientSpec

\* Type correctness of RedisClient.
THEOREM ClientTypeCorrect == ClientSpec => []ClientTypeOK
  BY ClientInductive, PTL DEF ClientIInv

\* The client gives up no earlier than 11 s after it was last ready.
THEOREM GivesUpLate == ClientSpec => []GiveUpTakesTime
  BY ClientInductive, PTL DEF ClientIInv

\* No command waits for a lost connection longer than Longest.
THEOREM NoCommandHangs == ClientSpec => []CommandsFailFast
  BY ClientInductive, NoLongWait, PTL

\* The most that has passed since the client was ready: after n tries, the n
\* delays and the time of the n failed tries (of a try under way, its timer).
Upto(n, total, dials) ==
    client.tries = n =>
      /\ client.status = "reconnecting" => since + client.timer <= total + dials
      /\ client.status = "connecting" => since <= total + dials + client.timer

Limits ==
    /\ Upto(0, 0, 0)
    /\ Upto(1, 1, MaxDial)
    /\ Upto(2, 3, 2 * MaxDial)
    /\ Upto(3, 6, 3 * MaxDial)
    /\ Upto(4, 10, 4 * MaxDial)
    /\ Upto(5, 15, 5 * MaxDial)
    /\ Upto(6, 21, 6 * MaxDial)
    /\ Upto(7, 28, 7 * MaxDial)
    /\ Upto(8, 36, 8 * MaxDial)
    /\ Upto(9, 45, 9 * MaxDial)
    /\ Upto(10, 55, 10 * MaxDial)

\* A lost connection is either made again or given up within 11 s and the time of
\* eleven tries: the client does not try for ever.
DecidedInTime == Disconnected => since <= 55 + 11 * MaxDial

OutageInv == Limits /\ (client.status \in {"off", "ready"} => since = 0)

LEMMA OutageInit == ClientInit => OutageInv
  BY DialAssumption DEF ClientInit, OutageInv, Limits, Upto, NotRunning

LEMMA OutageStep == ClientIInv /\ OutageInv /\ [ClientNext]_clientVars => OutageInv'
  <1> SUFFICES ASSUME ClientIInv, OutageInv, [ClientNext]_clientVars PROVE OutageInv'
    OBVIOUS
  <1> USE DialAssumption
  <1>1. ClientTypeOK /\ Shape
    BY DEF ClientIInv
  <1>2. CASE DialFails \/ Drop
    <2>1. client.tries \in 0..10 /\ since \in Nat /\ client.timer \in Nat /\ since' = since
      BY <1>1, <1>2 DEF DialFails, Drop, Shape, ClientTypeOK
    <2>2. \/ client.status = "connecting" /\ client.timer <= MaxDial
          \/ client.tries = 0 /\ since = 0
      BY <1>1, <1>2 DEF DialFails, Drop, Shape, OutageInv
    <2>3. /\ client'.status \in {"reconnecting", "end"}
          /\ client'.status = "reconnecting" => /\ client'.tries = client.tries + 1
                                                /\ client'.timer = client.tries + 1
      <3>1. client.tries + 1 \in 1..11
        BY <2>1
      <3>2. Delay(client.tries + 1) = client.tries + 1
        BY <3>1, Decisions
      <3> QED  BY <1>2, <3>2 DEF DialFails, Drop, Closed
    <2> QED  BY <2>1, <2>2, <2>3 DEF OutageInv, Limits, Upto
  <1>3. CASE Create \/ DialOk \/ Gone
    BY <1>3 DEF Create, DialOk, Gone, NotRunning, OutageInv, Limits, Upto
  <1>4. CASE Redial
    <2>1. /\ client'.status = "connecting" /\ client.status = "reconnecting"
          /\ client'.tries = client.tries /\ since' = since
          /\ client'.timer = 0 /\ client.timer = 0 /\ since \in Nat
      BY <1>1, <1>4 DEF Redial, ClientTypeOK
    <2> QED  BY <2>1 DEF OutageInv, Limits, Upto
  <1>5. CASE ClientTick
    <2>0. since \in Nat /\ client.timer \in Nat
      BY <1>1 DEF ClientTypeOK
    <2>1. CASE client.status = "reconnecting"
      <3>1. /\ client'.status = "reconnecting" /\ client'.tries = client.tries
            /\ client'.timer = client.timer - 1 /\ since' = since + 1
        BY <1>1, <1>5, <2>1 DEF ClientTick, Disconnected, ClientTypeOK
      <3> QED  BY <2>0, <2>1, <3>1 DEF OutageInv, Limits, Upto
    <2>2. CASE client.status = "connecting"
      <3>1. /\ client'.status = "connecting" /\ client'.tries = client.tries
            /\ client'.timer = client.timer + 1 /\ since' = since + 1
        BY <1>1, <1>5, <2>2 DEF ClientTick, Disconnected, ClientTypeOK
      <3> QED  BY <2>0, <2>2, <3>1 DEF OutageInv, Limits, Upto
    <2>3. CASE ~Disconnected
      BY <1>5, <2>3 DEF ClientTick, Disconnected, OutageInv, Limits, Upto
    <2> QED  BY <2>1, <2>2, <2>3 DEF Disconnected
  <1>6. CASE UNCHANGED <<client, since>>
    BY <1>6 DEF OutageInv, Limits, Upto
  <1>7. \/ DialFails \/ Drop \/ Create \/ DialOk \/ Gone \/ Redial \/ ClientTick
        \/ UNCHANGED <<client, since>>
    BY DEF ClientNext, clientVars, Send, Answer, Taken, RedisFails, RedisReturns
  <1> QED  BY <1>2, <1>3, <1>4, <1>5, <1>6, <1>7

LEMMA OutageLimit == ClientIInv /\ OutageInv => DecidedInTime
  <1> SUFFICES ASSUME ClientIInv, OutageInv, Disconnected PROVE since <= 55 + 11 * MaxDial
    BY DEF DecidedInTime
  <1>1. /\ client.status \in {"connecting", "reconnecting"} /\ client.tries \in 0..10
        /\ client.timer \in Nat /\ since \in Nat
        /\ client.status = "connecting" => client.timer <= MaxDial
    BY DEF Disconnected, ClientIInv, ClientTypeOK, Shape
  <1> QED  BY <1>1, DialAssumption DEF OutageInv, Limits, Upto

\* No outage leaves the client trying for longer than 11 s and eleven tries
\* (retryStrategy of cache.module.ts): by then it is ready, or has given up.
THEOREM OutagesAreDecided == ClientSpec => []DecidedInTime
  BY ClientInductive, OutageInit, OutageStep, OutageLimit, PTL DEF ClientSpec
-----------------------------------------------------------------------------
\* Each step is a step of the client or none.
LEMMA StepRefines == [Next]_vars => [ClientNext]_clientVars
  <1> SUFFICES ASSUME [Next]_vars PROVE [ClientNext]_clientVars
    OBVIOUS
  <1>1. CASE Refuse \/ Connect \/ Refused \/ Listen \/ Sigterm \/ DbFails \/ DbReturns
    BY <1>1 DEF Refuse, Connect, Refused, Listen, Sigterm, DbFails, DbReturns, clientVars
  <1>2. CASE Start
    BY <1>2 DEF Start, ClientNext
  <1>3. CASE BootFails \/ Crash \/ Drained
    BY <1>3 DEF BootFails, Crash, Drained, Ends, ClientNext
  <1>4. ASSUME NEW p \in Probes, Ready(p) \/ PingCheck(p) \/ Respond(p)
        PROVE  [ClientNext]_clientVars
    BY <1>4 DEF Ready, PingCheck, Respond, Probes, ClientNext, clientVars
  <1>5. CASE Reconnect
    BY <1>5 DEF Reconnect, ClientNext
  <1>6. CASE ClientStep
    BY <1>6 DEF ClientStep, Probes, ClientNext
  <1>7. CASE Tick
    BY <1>7 DEF Tick, ClientNext
  <1>8. CASE UNCHANGED vars
    BY <1>8 DEF vars, clientVars
  <1> QED  BY <1>1, <1>2, <1>3, <1>4, <1>5, <1>6, <1>7, <1>8 DEF Next

\* An instance moves its client by RedisClient's own steps, so that what is proved
\* of the client holds of the client of every instance.
LEMMA InstanceRefines == Spec => ClientSpec
  <1>1. Init => ClientInit
    BY DEF Init
  <1> QED  BY <1>1, StepRefines, PTL DEF Spec, ClientSpec

\* In every instance, a client that gave up had been unable to connect for 11 s.
THEOREM InstanceGivesUpLate == Spec => []GiveUpTakesTime
  BY InstanceRefines, GivesUpLate, PTL

\* In every instance, no command, nor any readiness probe's PING, waits for a
\* lost connection longer than Longest.
THEOREM NoProbeHangs == Spec => []CommandsFailFast
  BY InstanceRefines, NoCommandHangs, PTL

\* In every instance, an outage of Redis is decided within the same time.
THEOREM InstanceOutagesAreDecided == Spec => []DecidedInTime
  BY InstanceRefines, OutagesAreDecided, PTL
-----------------------------------------------------------------------------
\* The tries of a bootstrap are RetryDelay apart.
Paced ==
    /\ proc.pc = "booting" => /\ proc.age + proc.timer = RetryDelay * proc.tries
                              /\ proc.why = "none"
    /\ BootPatience

\* What a probe has been told so far it has been told while it waited.
Witnessed(p) ==
    probe[p].st = "checking" =>
      /\ db = "up" \/ probe[p].db = "up" => probe[p].sawDb
      /\ client.status = "ready" \/ cmd[p].st = "ok" => probe[p].sawRedis
      /\ probe[p].code = 0

IInv == TypeOK /\ Paced /\ ReadyMeansUsable /\ \A p \in Probes : Witnessed(p)

ProcStates == [pc : {"off", "booting", "created", "listening", "draining"},
               tries : 0..(RetryAttempts - 1), timer : 0..RetryDelay, age : Nat,
               why : {"new", "none", "env", "db", "crash", "signal"}]
ProbeStates == [st : {"none", "checking", "answered"}, db : {"pending", "up", "down"},
                code : {0, 200, 503}, sawDb : BOOLEAN, sawRedis : BOOLEAN]

LEMMA Numbers == RetryAttempts = 5 /\ RetryDelay = 15
  BY DEF RetryAttempts, RetryDelay

LEMMA InstanceInit == Init => IInv
  <1> SUFFICES ASSUME Init PROVE IInv
    OBVIOUS
  <1>1. ClientTypeOK
    BY InitInductive DEF Init, ClientIInv
  <1>2. TypeOK
    BY <1>1, Numbers, StopsAssumption DEF Init, TypeOK, NoProbe
  <1> QED  BY <1>2 DEF Init, IInv, Paced, BootPatience, ReadyMeansUsable, Witnessed, NoProbe

\* The client's part of the type invariant, of any step.
LEMMA ClientTypes == ClientIInv /\ [Next]_vars => ClientTypeOK'
  BY StepRefines, StepInductive DEF ClientIInv

\* The process: its bootstrap and its ends.
LEMMA LifeInductive ==
    ASSUME IInv, ClientTypeOK',
           Refuse \/ Start \/ Connect \/ Refused \/ BootFails \/ Listen \/ Crash \/ Sigterm \/ Drained
    PROVE  IInv'
  <1> USE Numbers, StopsAssumption
  <1>1. /\ proc \in ProcStates /\ probe \in [Probes -> ProbeStates]
        /\ env \in Environments /\ db \in {"up", "down"} /\ stops \in 0..MaxStops
    BY DEF IInv, TypeOK, ProcStates, ProbeStates
  <1>2. NoProbe \in ProbeStates
    BY DEF NoProbe, ProbeStates
  <1>3. UNCHANGED <<env, db>> /\ stops' \in 0..MaxStops
    BY <1>1 DEF Refuse, Start, Connect, Refused, BootFails, Listen, Crash, Sigterm, Drained, Ends
  <1>4. proc' \in ProcStates /\ Paced'
    <2>1. CASE Refuse \/ Start \/ Connect
      BY <1>1, <2>1 DEF IInv, Paced, BootPatience, ProcStates, Refuse, Start, Connect
    <2>2. CASE Refused
      <3>1. /\ proc.pc = "booting" /\ proc.timer = 0 /\ proc.tries + 1 < 5 /\ proc.why = "none"
            /\ proc' = [proc EXCEPT !.tries = @ + 1, !.timer = 15]
        BY <2>2 DEF Refused, IInv, Paced
      <3>2. /\ proc'.pc = "booting" /\ proc'.why = "none" /\ proc'.age = proc.age
            /\ proc'.timer = 15 /\ proc'.tries = proc.tries + 1
        BY <1>1, <3>1 DEF ProcStates
      <3>3. proc' \in ProcStates
        <4>1. proc.tries + 1 \in 0..(RetryAttempts - 1) /\ 15 \in 0..RetryDelay
          BY <1>1, <3>1 DEF ProcStates
        <4> QED  BY <1>1, <3>1, <4>1 DEF ProcStates
      <3> QED  BY <1>1, <3>1, <3>2, <3>3 DEF IInv, Paced, BootPatience, ProcStates
    <2>3. CASE BootFails
      <3>1. /\ proc.pc = "booting" /\ proc.timer = 0 /\ proc.tries = 4
            /\ proc' = [proc EXCEPT !.pc = "off", !.why = "db"]
        <4>1. proc.tries \in 0..4
          BY <1>1 DEF ProcStates
        <4> QED  BY <2>3, <4>1 DEF BootFails, Ends
      <3>2. proc.age >= 60
        BY <1>1, <3>1 DEF IInv, Paced, ProcStates
      <3>3. proc'.pc = "off" /\ proc'.why = "db" /\ proc'.age = proc.age /\ proc' \in ProcStates
        BY <1>1, <3>1 DEF ProcStates
      <3> QED  BY <3>2, <3>3 DEF Paced, BootPatience
    <2>4. CASE Listen \/ Crash \/ Sigterm \/ Drained
      <3>1. PICK pc \in {"off", "listening", "draining"}, why \in {"none", "crash", "signal", proc.why} :
              proc' = [proc EXCEPT !.pc = pc, !.why = why]
        BY <1>1, <2>4 DEF Listen, Crash, Sigterm, Drained, Ends, Goto, ProcStates
      <3>2. proc'.pc = pc /\ proc'.why = why /\ proc'.age = proc.age /\ proc' \in ProcStates
        BY <1>1, <3>1 DEF ProcStates
      <3> QED  BY <3>1, <3>2 DEF IInv, Paced, BootPatience
    <2> QED  BY <2>1, <2>2, <2>3, <2>4
  <1>5. CASE UNCHANGED probe /\ UNCHANGED cmd /\ (client'.status = "ready" => client.status = "ready")
    BY <1>1, <1>3, <1>4, <1>5
    DEF IInv, TypeOK, ReadyMeansUsable, Witnessed, ProcStates, ProbeStates
  <1>6. CASE probe' = [p \in Probes |-> NoProbe]
    BY <1>1, <1>2, <1>3, <1>4, <1>6
    DEF IInv, TypeOK, ReadyMeansUsable, Witnessed, ProcStates, ProbeStates, NoProbe
  <1>7. \/ UNCHANGED probe /\ UNCHANGED cmd /\ (client'.status = "ready" => client.status = "ready")
        \/ probe' = [p \in Probes |-> NoProbe]
    BY DEF Refuse, Start, Create, Connect, Refused, BootFails, Listen, Crash, Sigterm, Drained, Ends
  <1> QED  BY <1>5, <1>6, <1>7

\* What the checks of a probe find.
LEMMA ProbeInductive ==
    ASSUME IInv, ClientTypeOK', NEW p \in Probes, Ready(p) \/ PingCheck(p) \/ Respond(p)
    PROVE  IInv'
  <1>1. /\ proc \in ProcStates /\ probe \in [Probes -> ProbeStates]
        /\ env \in Environments /\ db \in {"up", "down"} /\ stops \in 0..MaxStops
    BY DEF IInv, TypeOK, ProcStates, ProbeStates
  <1>2. UNCHANGED <<env, db, proc, stops, client>>
    BY DEF Ready, PingCheck, Respond, Send, Taken
  <1>3. /\ probe' \in [Probes -> ProbeStates]
        /\ \A q \in Probes \ {p} : probe'[q] = probe[q] /\ cmd'[q] = cmd[q]
    <2>1. cmd \in [Commands -> [st : {"idle", "queued", "sent", "ok", "error"}, wait : Nat]]
      BY DEF IInv, TypeOK, ClientTypeOK
    <2>2. \A q \in Probes \ {p} : cmd'[q] = cmd[q]
      <3>1. \/ UNCHANGED cmd
            \/ \E st : cmd' = [cmd EXCEPT ![p].st = st]
            \/ cmd' = [cmd EXCEPT ![p] = Idle]
        BY DEF Ready, Send, PingCheck, Respond, Taken
      <3> QED  BY <2>1, <3>1 DEF Probes
    <2>3. PICK new \in ProbeStates : probe' = [probe EXCEPT ![p] = new]
      <3>0. probe[p] \in ProbeStates
        BY <1>1
      <3>1. CASE Ready(p)
        <4> DEFINE new == [st |-> "checking", db |-> "pending", code |-> 0,
                           sawDb |-> db = "up", sawRedis |-> client.status = "ready"]
        <4>1. (db = "up") \in BOOLEAN /\ (client.status = "ready") \in BOOLEAN
          OBVIOUS
        <4>2. new \in ProbeStates
          BY <4>1 DEF ProbeStates
        <4> QED  BY <3>1, <4>2 DEF Ready, Ask
      <3>2. CASE PingCheck(p)
        <4>1. [probe[p] EXCEPT !.db = db] \in ProbeStates
          BY <1>1, <3>0 DEF ProbeStates
        <4> QED  BY <3>2, <4>1 DEF PingCheck
      <3>3. CASE Respond(p)
        <4>1. PICK heapBelow \in BOOLEAN :
                probe' = [probe EXCEPT ![p] =
                            [probe[p] EXCEPT !.st = "answered",
                                      !.code = IF probe[p].db = "up" /\ IsHealthy(p) /\ heapBelow
                                               THEN 200 ELSE 503]]
          BY <1>1, <3>3 DEF Respond
        <4>2. [probe[p] EXCEPT !.st = "answered"] \in ProbeStates
          BY <3>0 DEF ProbeStates
        <4>3. \A r \in ProbeStates, code \in {200, 503} : [r EXCEPT !.code = code] \in ProbeStates
          BY DEF ProbeStates
        <4>4. \A code : [probe[p] EXCEPT !.st = "answered", !.code = code]
                           = [[probe[p] EXCEPT !.st = "answered"] EXCEPT !.code = code]
          OBVIOUS
        <4>5. \A code \in {200, 503} :
                [probe[p] EXCEPT !.st = "answered", !.code = code] \in ProbeStates
          BY <4>2, <4>3, <4>4, ZenonT(60)
        <4>6. PICK code \in {200, 503} :
                probe' = [probe EXCEPT ![p] = [probe[p] EXCEPT !.st = "answered", !.code = code]]
          BY <4>1, ZenonT(60)
        <4> QED  BY <1>1, <4>5, <4>6, ZenonT(60)
      <3> QED  BY <3>1, <3>2, <3>3
    <2> QED  BY <1>1, <2>2, <2>3
  <1>4. Witnessed(p)' /\ (probe'[p].code = 200 => probe'[p].sawDb /\ probe'[p].sawRedis)
    <2>1. CASE Ready(p)
      <3>1. probe'[p] = [st |-> "checking", db |-> "pending", code |-> 0,
                         sawDb |-> db = "up", sawRedis |-> client.status = "ready"]
        BY <1>1, <2>1 DEF Ready, Ask
      <3>2. cmd'[p].st # "ok"
        <4>1. PICK st \in {"sent", "error", "queued"} : cmd' = [cmd EXCEPT ![p].st = st]
          BY <2>1 DEF Ready, Send
        <4>2. cmd[p] \in [st : {"idle", "queued", "sent", "ok", "error"}, wait : Nat]
              /\ cmd'[p] = [cmd[p] EXCEPT !.st = st]
          BY <4>1 DEF IInv, TypeOK, ClientTypeOK, Probes
        <4> QED  BY <4>2
      <3>3. /\ probe'[p].db = "pending" /\ probe'[p].code = 0
            /\ db = "up" => probe'[p].sawDb
            /\ client.status = "ready" => probe'[p].sawRedis
        <4>1. /\ probe'[p].db = "pending" /\ probe'[p].code = 0
              /\ probe'[p].sawDb = (db = "up") /\ probe'[p].sawRedis = (client.status = "ready")
          <5>1. \A a, b \in BOOLEAN :
                  LET r == [st |-> "checking", db |-> "pending", code |-> 0,
                            sawDb |-> a, sawRedis |-> b]
                  IN  r.db = "pending" /\ r.code = 0 /\ r.sawDb = a /\ r.sawRedis = b
            OBVIOUS
          <5>2. (db = "up") \in BOOLEAN /\ (client.status = "ready") \in BOOLEAN
            OBVIOUS
          <5> QED  BY <3>1, <5>1, <5>2, Zenon
        <4> QED  BY <4>1
      <3> QED  BY <1>2, <3>2, <3>3 DEF Witnessed
    <2>2. CASE PingCheck(p)
      <3>1. probe' = [probe EXCEPT ![p].db = db] /\ cmd' = cmd
        BY <2>2 DEF PingCheck
      <3> QED  BY <1>1, <1>2, <2>2, <3>1
               DEF PingCheck, Witnessed, IInv, ReadyMeansUsable, ProbeStates
    <2>3. CASE Respond(p)
      <3>1. PICK heapBelow \in BOOLEAN :
              probe' = [probe EXCEPT ![p] =
                          [probe[p] EXCEPT !.st = "answered",
                                    !.code = IF probe[p].db = "up" /\ IsHealthy(p) /\ heapBelow
                                             THEN 200 ELSE 503]]
        BY <1>1, <2>3 DEF Respond
      <3>2. /\ probe'[p].st = "answered"
            /\ probe'[p].sawDb = probe[p].sawDb /\ probe'[p].sawRedis = probe[p].sawRedis
            /\ probe'[p].code = 200 => probe[p].db = "up" /\ cmd[p].st = "ok"
        BY <1>1, <3>1 DEF ProbeStates, IsHealthy
      <3> QED  BY <2>3, <3>2, ZenonT(60) DEF Respond, Witnessed, IInv
    <2> QED  BY <2>1, <2>2, <2>3
  <1>5. TypeOK' /\ Paced'
    BY <1>1, <1>2, <1>3 DEF IInv, TypeOK, Paced, BootPatience, ProcStates, ProbeStates
  <1>6. ReadyMeansUsable' /\ \A q \in Probes : Witnessed(q)'
    BY <1>2, <1>3, <1>4 DEF IInv, ReadyMeansUsable, Witnessed
  <1> QED  BY <1>5, <1>6 DEF IInv

\* Postgres, Redis and time.
LEMMA WorldInductive ==
    ASSUME IInv, ClientTypeOK', Reconnect \/ ClientStep \/ DbFails \/ DbReturns \/ Tick
    PROVE  IInv'
  <1>1. /\ proc \in ProcStates /\ probe \in [Probes -> ProbeStates]
        /\ env \in Environments /\ db \in {"up", "down"} /\ stops \in 0..MaxStops
    BY DEF IInv, TypeOK, ProcStates, ProbeStates
  <1>2. CASE Reconnect \/ DbReturns
    <2>1. PICK field \in {"sawDb", "sawRedis"} :
            /\ probe' = [p \in Probes |-> IF probe[p].st = "checking"
                                          THEN [probe[p] EXCEPT ![field] = TRUE] ELSE probe[p]]
            /\ field = "sawDb" => client' = client /\ cmd' = cmd
            /\ field = "sawRedis" => db' = db /\ \A p \in Probes : cmd'[p].st = "ok" => cmd[p].st = "ok"
      BY <1>2 DEF Reconnect, DbReturns, See, DialOk, Resend, Probes
    <2>2. /\ probe' \in [Probes -> ProbeStates]
          /\ \A p \in Probes : /\ probe'[p].st = probe[p].st /\ probe'[p].db = probe[p].db
                               /\ probe'[p].code = probe[p].code
                               /\ probe[p].sawDb => probe'[p].sawDb
                               /\ probe[p].sawRedis => probe'[p].sawRedis
                               /\ probe[p].st = "checking" /\ field = "sawDb" => probe'[p].sawDb
                               /\ probe[p].st = "checking" /\ field = "sawRedis" => probe'[p].sawRedis
      <3>1. CASE field = "sawDb"
        <4>1. \A r \in ProbeStates : LET n == [r EXCEPT !.sawDb = TRUE]
                                     IN  /\ n \in ProbeStates /\ n.st = r.st /\ n.db = r.db
                                         /\ n.code = r.code /\ n.sawDb /\ (r.sawRedis => n.sawRedis)
          BY ZenonT(60) DEF ProbeStates
        <4>2. \A p \in Probes : /\ probe[p] \in ProbeStates
                                /\ probe'[p] = IF probe[p].st = "checking"
                                               THEN [probe[p] EXCEPT !.sawDb = TRUE] ELSE probe[p]
          BY <1>1, <2>1, <3>1
        <4>3. probe' \in [Probes -> ProbeStates]
          BY <2>1, <4>1, <4>2
        <4> QED  BY <3>1, <4>1, <4>2, <4>3
      <3>2. CASE field = "sawRedis"
        <4>1. \A r \in ProbeStates : LET n == [r EXCEPT !.sawRedis = TRUE]
                                     IN  /\ n \in ProbeStates /\ n.st = r.st /\ n.db = r.db
                                         /\ n.code = r.code /\ n.sawRedis /\ (r.sawDb => n.sawDb)
          BY ZenonT(60) DEF ProbeStates
        <4>2. \A p \in Probes : /\ probe[p] \in ProbeStates
                                /\ probe'[p] = IF probe[p].st = "checking"
                                               THEN [probe[p] EXCEPT !.sawRedis = TRUE] ELSE probe[p]
          BY <1>1, <2>1, <3>2
        <4>3. probe' \in [Probes -> ProbeStates]
          BY <2>1, <4>1, <4>2
        <4> QED  BY <3>2, <4>1, <4>2, <4>3
      <3> QED  BY <2>1, <3>1, <3>2
    <2>3. UNCHANGED <<env, proc, stops>> /\ db' \in {"up", "down"}
      BY <1>1, <1>2 DEF Reconnect, DbReturns
    <2>4. TypeOK' /\ Paced'
      BY <1>1, <2>2, <2>3 DEF IInv, TypeOK, Paced, BootPatience, ProcStates, ProbeStates
    <2>5. ReadyMeansUsable'
      BY <2>2 DEF IInv, ReadyMeansUsable
    <2>6. \A p \in Probes : Witnessed(p)'
      <3>1. CASE field = "sawDb"
        BY <2>1, <2>2, <3>1 DEF IInv, Witnessed
      <3>2. CASE field = "sawRedis"
        BY <2>1, <2>2, <3>2 DEF IInv, Witnessed
      <3> QED  BY <2>1, <3>1, <3>2
    <2> QED  BY <2>4, <2>5, <2>6 DEF IInv
  <1>3. CASE ClientStep \/ DbFails \/ Tick
    <2>1. UNCHANGED <<env, stops, probe>> /\ db' \in {"up", "down"} /\ (db' = "up" => db = "up")
      BY <1>1, <1>3 DEF ClientStep, DbFails, Tick
    <2>2. client'.status = "ready" => client.status = "ready"
      BY <1>3 DEF ClientStep, DbFails, Tick, DialFails, Drop, Closed, Redial, Answer, RedisFails,
                  RedisReturns, ClientTick, IInv, TypeOK, ClientTypeOK
    <2>3. \A p \in Probes : cmd'[p].st = "ok" => cmd[p].st = "ok" \/ client.status = "ready"
      <3> USE DEF Probes
      <3>1. cmd \in [Commands -> [st : {"idle", "queued", "sent", "ok", "error"}, wait : Nat]]
        BY DEF IInv, TypeOK, ClientTypeOK
      <3>2. CASE ClientStep /\ (DialFails \/ Drop)
        BY <3>1, <3>2 DEF DialFails, Drop, Closed, Flush, Requeue
      <3>3. CASE (ClientStep /\ (Redial \/ RedisFails \/ RedisReturns)) \/ DbFails
        BY <3>3 DEF Redial, RedisFails, RedisReturns, DbFails
      <3>4. CASE ClientStep /\ \E p \in Probes : Answer(p)
        BY <3>4 DEF Answer
      <3>5. CASE Tick
        BY <3>1, <3>5 DEF Tick, ClientTick
      <3> QED  BY <1>3, <3>2, <3>3, <3>4, <3>5 DEF ClientStep
    <2>4. proc' \in ProcStates /\ Paced'
      <3>1. CASE proc' = proc
        BY <1>1, <3>1 DEF IInv, Paced, BootPatience
      <3>2. CASE Tick /\ proc.pc = "booting"
        <4>1. /\ proc.timer \in 1..RetryDelay /\ proc.why = "none"
              /\ proc' = [proc EXCEPT !.timer = proc.timer - 1, !.age = proc.age + 1]
          BY <1>1, <3>2, Numbers DEF Tick, IInv, Paced, ProcStates
        <4>2. /\ proc'.pc = proc.pc /\ proc'.why = proc.why /\ proc'.tries = proc.tries
              /\ proc'.timer = proc.timer - 1 /\ proc'.age = proc.age + 1
          BY <1>1, <4>1 DEF ProcStates
        <4>3. proc.timer - 1 \in 0..RetryDelay /\ proc.age + 1 \in Nat
          BY <1>1, <4>1, Numbers DEF ProcStates
        <4>4. proc' \in ProcStates
          BY <1>1, <4>1, <4>3 DEF ProcStates
        <4>5. proc'.age + proc'.timer = proc.age + proc.timer
          BY <1>1, <4>1, <4>2, Numbers DEF ProcStates
        <4> QED  BY <3>2, <4>1, <4>2, <4>4, <4>5 DEF IInv, Paced, BootPatience
      <3> QED  BY <1>3, <3>1, <3>2 DEF ClientStep, DbFails, Tick
    <2> QED
      BY <1>1, <2>1, <2>2, <2>3, <2>4
      DEF IInv, TypeOK, ReadyMeansUsable, Witnessed, ProcStates, ProbeStates
  <1> QED  BY <1>2, <1>3

LEMMA InstanceStep == IInv /\ ClientIInv /\ [Next]_vars => IInv'
  <1> SUFFICES ASSUME IInv, ClientIInv, [Next]_vars PROVE IInv'
    OBVIOUS
  <1>1. ClientTypeOK'
    BY ClientTypes
  <1>2. CASE UNCHANGED vars
    BY <1>1, <1>2 DEF vars, IInv, TypeOK, Paced, BootPatience, ReadyMeansUsable, Witnessed
  <1> QED
    BY <1>1, <1>2, LifeInductive, ProbeInductive, WorldInductive DEF Next

LEMMA InstanceInductive == Spec => []IInv
  <1>1. Spec => []ClientIInv
    BY InstanceRefines, ClientInductive, PTL
  <1> QED  BY <1>1, InstanceInit, InstanceStep, PTL DEF Spec

\* Type correctness of Instance.
THEOREM InstanceTypeCorrect == Spec => []TypeOK
  BY InstanceInductive, PTL DEF IInv

\* A bootstrap that fails for want of Postgres has waited 12 s for it.
THEOREM BootIsPatient == Spec => []BootPatience
  BY InstanceInductive, PTL DEF IInv, Paced

\* And no bootstrap waits for Postgres longer than that: by then it has connected,
\* or its process ends and is started again (retryAttempts of database.module.ts).
THEOREM BootIsDecided == Spec => [](proc.pc = "booting" => proc.age <= 60)
  <1>1. IInv => (proc.pc = "booting" => proc.age <= 60)
    <2> SUFFICES ASSUME IInv, proc.pc = "booting" PROVE proc.age <= 60
      OBVIOUS
    <2>1. proc.age \in Nat /\ proc.timer \in Nat /\ proc.tries \in 0..4
      BY Numbers DEF IInv, TypeOK
    <2> QED  BY <2>1, Numbers DEF IInv, Paced
  <1> QED  BY <1>1, InstanceInductive, PTL

\* A probe told 200 saw Postgres reachable and this process's client connected.
THEOREM ReadinessIsReal == Spec => []ReadyMeansUsable
  BY InstanceInductive, PTL DEF IInv
-----------------------------------------------------------------------------
\* The port in use is the port that was validated, for any settings.
THEOREM PortsAreValidated == Spec => []PortAsValidated
  <1> DEFINE Started == proc.pc # "off" => Accepts(Merged(env))
  <1>1. Init => Started
    BY DEF Init
  <1>2. IInv /\ Started /\ [Next]_vars => Started'
    <2> SUFFICES ASSUME IInv, Started, [Next]_vars PROVE Started'
      OBVIOUS
    <2>0. proc \in ProcStates
      BY DEF IInv, TypeOK, ProcStates
    <2>1. CASE Refuse \/ Start \/ Connect \/ Refused
      BY <2>0, <2>1 DEF Refuse, Start, Connect, Refused, ProcStates
    <2>2. CASE BootFails \/ Crash \/ Drained
      BY <2>0, <2>2 DEF BootFails, Crash, Drained, Ends, ProcStates
    <2>3. CASE Listen \/ Sigterm
      BY <2>0, <2>3 DEF Listen, Sigterm, Goto, ProcStates
    <2>4. CASE Tick
      BY <2>0, <2>4 DEF Tick, ProcStates
    <2>5. CASE Reconnect \/ ClientStep \/ DbFails \/ DbReturns \/ UNCHANGED vars
      BY <2>5 DEF Reconnect, ClientStep, DbFails, DbReturns, vars
    <2>6. ASSUME NEW p \in Probes, Ready(p) \/ PingCheck(p) \/ Respond(p) PROVE Started'
      BY <2>6 DEF Ready, PingCheck, Respond
    <2> QED  BY <2>1, <2>2, <2>3, <2>4, <2>5, <2>6 DEF Next
  <1>3. Accepts(Merged(env)) => Configuration(env).port = Coerced(Merged(env)).port
    <2>1. ASSUME NEW raw, Accepts(raw) PROVE Coerced(raw).port # 0
      <3>1. Coerced(raw).port = IF raw["port"] = "unset" THEN DefaultPort ELSE Number(raw["port"])
        BY DEF Coerced
      <3>2. raw["port"] = "unset" \/ Number(raw["port"]) > 0
        BY <2>1 DEF Accepts
      <3>3. Number(raw["port"]) \in Nat
        BY DEF Number
      <3> QED  BY <3>1, <3>2, <3>3 DEF DefaultPort
    <2>2. Configuration(env).port = OrDefault(Coerced(Merged(env)).port, DefaultPort)
      BY DEF Configuration
    <2> QED  BY <2>1, <2>2 DEF OrDefault
  <1>4. Started => PortAsValidated
    BY <1>3 DEF PortAsValidated
  <1> QED  BY <1>1, <1>2, <1>4, InstanceInductive, PTL DEF Spec
-----------------------------------------------------------------------------
\* z.coerce.boolean of env.schema.ts, as configuration.ts reads it: the flag in
\* use differs from the flag as written for exactly these settings:
\* one that the shell does not set and for which the file has a text other than
\* "true" and the empty one, and then it is on, however it was written.
THEOREM FlagsMisread ==
    ASSUME NEW e \in [file : Raw, shell : Raw]
    PROVE  LET written == Merged(e)["flag"] = "true"
               wrong == e.shell["flag"] = "unset" /\ e.file["flag"] \notin {"unset", "", "true"}
           IN  /\ Configuration(e).flag # written <=> wrong
               /\ wrong => Configuration(e).flag
  BY Zenon DEF Raw, Settings, Configuration, Merged, Coerced
=============================================================================
