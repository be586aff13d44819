-------------------------- MODULE EmailQueueProofs --------------------------
(***************************************************************************)
(* Theorems about EmailQueue, for any number of jobs and workers and any   *)
(* number of runs, tries and stalls.                                       *)
(***************************************************************************)
EXTENDS EmailQueue, FiniteSetTheorems, TLAPS

-----------------------------------------------------------------------------
Running(w) == run[w].pc # "idle"

\* A job that is not settled has a run left, and only an active one is locked.
JobInv ==
    \A j \in Jobs :
      /\ job[j].state \in {"none", "wait", "active", "delayed"} =>
           job[j].made < MaxAttempts /\ job[j].stalled <= MaxStalled
      /\ job[j].state = "active" <=> job[j].lock \in Workers

\* A worker runs a job, in a try that withRetry allows.
RunInv ==
    \A w \in Workers : Running(w) =>
      /\ run[w].job \in Jobs /\ run[w].try \in 1..MaxTries
      /\ run[w].pc = "sleep" => run[w].try < MaxTries
      /\ run[w].job \notin WelcomeJobs => run[w].pc = "done"

TInv == TypeOK /\ JobInv /\ RunInv

\* The conjuncts of TypeOK.
JobType ==
    job \in [Jobs -> [state : JobStates, made : 0..MaxAttempts,
                      stalled : 0..(MaxStalled + 1), lock : Workers \cup {None}]]
RunType ==
    run \in [Workers -> [pc : {"idle", "send", "sleep", "done", "throw"},
                         job : Jobs \cup {None}, try : 0..MaxTries]]
MailsType == mails \in [Jobs -> [calls : Nat, acked : Nat]]

LEMMA TypeParts ==
    /\ TypeOK <=> JobType /\ RunType /\ MailsType
    /\ TypeOK' <=> JobType' /\ RunType' /\ MailsType'
  BY DEF TypeOK, JobType, RunType, MailsType

\* The run of job j ends in state s.
LEMMA JobEnds ==
    ASSUME JobType, NEW j \in Jobs, NEW s \in JobStates,
           job[j].made + 1 \in 0..MaxAttempts,
           job' = [job EXCEPT ![j].state = s, ![j].made = @ + 1, ![j].lock = None]
    PROVE  JobType'
<1>1. job[j] \in [state : JobStates, made : 0..MaxAttempts,
                  stalled : 0..(MaxStalled + 1), lock : Workers \cup {None}]
  BY DEF JobType
<1>2. [job[j] EXCEPT !.state = s, !.made = @ + 1, !.lock = None]
        \in [state : JobStates, made : 0..MaxAttempts,
             stalled : 0..(MaxStalled + 1), lock : Workers \cup {None}]
  BY <1>1
<1>3. job' = [job EXCEPT ![j] = [job[j] EXCEPT !.state = s, !.made = @ + 1, !.lock = None]]
  BY <1>1 DEF JobType
<1>4. QED
  BY <1>2, <1>3 DEF JobType

\* A worker is done with its run.
LEMMA Stops ==
    ASSUME TInv, NEW w \in Workers, run' = [run EXCEPT ![w] = Idle]
    PROVE  /\ RunType' /\ RunInv'
           /\ \A v \in Workers : run'[v] = IF v = w THEN Idle ELSE run[v]
<1>1. \A v \in Workers : run'[v] = IF v = w THEN Idle ELSE run[v]
  BY TypeParts DEF TInv, RunType
<1>2. Idle \in [pc : {"idle", "send", "sleep", "done", "throw"},
               job : Jobs \cup {None}, try : 0..MaxTries]
  BY EmailQueueAssumption DEF Idle
<1>3. RunType'
  BY <1>2, TypeParts DEF TInv, RunType
<1>4. RunInv'
  <2> SUFFICES ASSUME NEW v \in Workers, Running(v)'
               PROVE  /\ run'[v].job \in Jobs /\ run'[v].try \in 1..MaxTries
                      /\ run'[v].pc = "sleep" => run'[v].try < MaxTries
                      /\ run'[v].job \notin WelcomeJobs => run'[v].pc = "done"
    BY DEF RunInv
  <2>1. v # w /\ run'[v] = run[v]
    BY <1>1 DEF Running, Idle
  <2>2. Running(v)
    BY <2>1 DEF Running
  <2>3. QED
    BY <2>1, <2>2 DEF TInv, RunInv
<1>5. QED
  BY <1>1, <1>3, <1>4

LEMMA InitT == Init => TInv
  BY EmailQueueAssumption
  DEF Init, TInv, TypeOK, JobInv, RunInv, Running, Idle, JobStates

LEMMA NextT ==
    ASSUME TInv, [Next]_vars
    PROVE  TInv'
<1> USE EmailQueueAssumption DEF TInv
<1>1. ASSUME NEW j \in Jobs, Add(j) \/ Promote(j)
      PROVE  TInv'
  <2>1. /\ job' = [job EXCEPT ![j].state = "wait"]
        /\ job[j].state \in {"none", "delayed"}
        /\ UNCHANGED <<run, mails>>
    BY <1>1 DEF Add, Promote
  <2>2. TypeOK' /\ RunInv'
    BY <2>1 DEF TypeOK, RunInv, Running, JobStates
  <2>3. JobInv'
    BY <2>1 DEF TypeOK, JobInv, JobStates
  <2>4. QED
    BY <2>2, <2>3
<1>2. ASSUME NEW j \in Jobs, Stall(j)
      PROVE  TInv'
  BY <1>2 DEF Stall, TypeOK, JobInv, RunInv, Running, JobStates
<1>3. ASSUME NEW w \in Workers, NEW j \in Jobs, Take(w, j)
      PROVE  TInv'
  BY <1>3 DEF Take, TypeOK, JobInv, RunInv, Running, JobStates
<1>4. ASSUME NEW w \in Workers, SendOk(w)
      PROVE  TInv'
  BY <1>4 DEF SendOk, TypeOK, JobInv, RunInv, Running
<1>5. ASSUME NEW w \in Workers, SendFails(w)
      PROVE  TInv'
  <2>1. /\ run[w].job \in Jobs /\ run[w].try \in 1..MaxTries
        /\ run[w].job \in WelcomeJobs
        /\ AfterError(run[w].try) \in {"throw", "sleep"}
        /\ AfterError(run[w].try) = "sleep" => run[w].try < MaxTries
    BY <1>5 DEF SendFails, AfterError, RunInv, Running
  <2>2. TypeOK'
    <3>1. run' \in [Workers -> [pc : {"idle", "send", "sleep", "done", "throw"},
                                job : Jobs \cup {None}, try : 0..MaxTries]]
      BY <1>5, <2>1 DEF SendFails, TypeOK
    <3>2. mails' \in [Jobs -> [calls : Nat, acked : Nat]]
      BY <1>5, <2>1 DEF SendFails, TypeOK
    <3>3. QED
      BY <1>5, <3>1, <3>2 DEF SendFails, TypeOK
  <2>3. RunInv'
    BY <1>5, <2>1 DEF SendFails, TypeOK, RunInv, Running
  <2>4. JobInv'
    BY <1>5 DEF SendFails, JobInv
  <2>5. QED
    BY <2>2, <2>3, <2>4
<1>6. ASSUME NEW w \in Workers, Wake(w)
      PROVE  TInv'
  BY <1>6 DEF Wake, TypeOK, JobInv, RunInv, Running
<1>7. ASSUME NEW w \in Workers, Complete(w)
      PROVE  TInv'
  <2> DEFINE j == run[w].job
  <2>1. /\ run' = [run EXCEPT ![w] = Idle] /\ mails' = mails
        /\ j \in Jobs
    BY <1>7 DEF Complete, RunInv, Running
  <2>2. RunType' /\ RunInv' /\ MailsType'
    BY <2>1, Stops, TypeParts DEF MailsType
  <2>3. CASE job[j].lock # w
    <3>1. job' = job
      BY <1>7, <2>3 DEF Complete
    <3>2. JobType' /\ JobInv'
      BY <3>1, TypeParts DEF JobType, JobInv
    <3>3. QED
      BY <2>2, <3>2, TypeParts
  <2>4. CASE job[j].lock = w
    <3>1. job[j].made \in Nat /\ job[j].made < MaxAttempts
      BY <2>1, <2>4 DEF TypeOK, JobInv
    <3>2. job' = [job EXCEPT ![j].state = "completed", ![j].made = @ + 1, ![j].lock = None]
      BY <1>7, <2>4 DEF Complete
    <3>3. JobType'
      <4>1. "completed" \in JobStates /\ job[j].made + 1 \in 0..MaxAttempts
        BY <3>1 DEF JobStates
      <4>2. QED
        BY <2>1, <3>2, <4>1, TypeParts, JobEnds
    <3>4. JobInv'
      <4>1. \A i \in Jobs : i # j => job'[i] = job[i]
        BY <2>1, <3>2, TypeParts DEF JobType
      <4>2. job'[j].state = "completed" /\ job'[j].lock = None
        BY <2>1, <3>2, TypeParts DEF JobType
      <4>3. QED
        BY <4>1, <4>2 DEF JobInv
    <3>5. QED
      BY <2>2, <3>3, <3>4, TypeParts
  <2>5. QED
    BY <2>3, <2>4
<1>8. ASSUME NEW w \in Workers, Throw(w)
      PROVE  TInv'
  <2> DEFINE j == run[w].job
             state == IF LastRun(job[j].made) THEN "failed" ELSE "delayed"
  <2>1. /\ run' = [run EXCEPT ![w] = Idle] /\ mails' = mails
        /\ j \in Jobs
    BY <1>8 DEF Throw, RunInv, Running
  <2>2. RunType' /\ RunInv' /\ MailsType'
    BY <2>1, Stops, TypeParts DEF MailsType
  <2>3. CASE job[j].lock # w
    <3>1. job' = job
      BY <1>8, <2>3 DEF Throw
    <3>2. JobType' /\ JobInv'
      BY <3>1, TypeParts DEF JobType, JobInv
    <3>3. QED
      BY <2>2, <3>2, TypeParts
  <2>4. CASE job[j].lock = w
    <3>1. job[j].made \in Nat /\ job[j].made < MaxAttempts /\ job[j].stalled <= MaxStalled
      BY <2>1, <2>4 DEF TypeOK, JobInv
    <3>2. job' = [job EXCEPT ![j].state = state, ![j].made = @ + 1, ![j].lock = None]
      BY <1>8, <2>4 DEF Throw
    <3>3. /\ state \in {"failed", "delayed"}
          /\ state = "delayed" => job[j].made + 1 < MaxAttempts
      BY <3>1 DEF LastRun
    <3> HIDE DEF state
    <3>4. JobType'
      <4>1. state \in JobStates /\ job[j].made + 1 \in 0..MaxAttempts
        BY <3>1, <3>3 DEF JobStates
      <4>2. QED
        BY <2>1, <3>2, <4>1, TypeParts, JobEnds
    <3>5. JobInv'
      <4>1. \A i \in Jobs : i # j => job'[i] = job[i]
        BY <2>1, <3>2, TypeParts DEF JobType
      <4>2. job'[j].state = state /\ job'[j].lock = None
        BY <2>1, <3>2, TypeParts DEF JobType
      <4>3. job'[j].made = job[j].made + 1 /\ job'[j].stalled = job[j].stalled
        BY <2>1, <3>2, TypeParts DEF JobType
      <4>4. QED
        BY <3>1, <3>3, <4>1, <4>2, <4>3 DEF JobInv
    <3>6. QED
      BY <2>2, <3>4, <3>5, TypeParts
  <2>5. QED
    BY <2>3, <2>4
<1>9. ASSUME NEW w \in Workers, Die(w)
      PROVE  TInv'
  <2>1. RunType' /\ RunInv'
    BY <1>9, Stops DEF Die
  <2>2. JobType' /\ MailsType' /\ JobInv'
    BY <1>9, TypeParts DEF Die, JobType, MailsType, JobInv
  <2>3. QED
    BY <2>1, <2>2, TypeParts
<1>10. CASE UNCHANGED vars
  BY <1>10 DEF vars, TypeOK, JobInv, RunInv, Running
<1>11. QED
  BY <1>1, <1>2, <1>3, <1>4, <1>5, <1>6, <1>7, <1>8, <1>9, <1>10 DEF Next

\* Type correctness: among it, that no job has more runs or stalls than are
\* configured.
THEOREM EmailQueueTypeCorrect == Spec => []TypeOK
<1>1. TInv => TypeOK
  BY DEF TInv
<1>2. QED
  BY InitT, NextT, <1>1, PTL DEF Spec

-----------------------------------------------------------------------------
\* A welcome email is done, in its worker or in its job, once it is sent.
SentInv ==
    /\ \A w \in Workers :
         run[w].pc = "done" /\ run[w].job \in WelcomeJobs => mails[run[w].job].acked > 0
    /\ CompletedMeansSent

LEMMA InitSent == Init => SentInv
  BY EmailQueueAssumption DEF Init, SentInv, CompletedMeansSent, Idle

LEMMA NextSent ==
    ASSUME TInv, SentInv, [Next]_vars
    PROVE  SentInv'
<1> USE EmailQueueAssumption DEF SentInv, CompletedMeansSent
<1>1. ASSUME NEW j \in Jobs, Add(j) \/ Promote(j) \/ Stall(j)
      PROVE  SentInv'
  BY <1>1 DEF Add, Promote, Stall, TInv, TypeOK
<1>2. ASSUME NEW w \in Workers, NEW j \in Jobs, Take(w, j)
      PROVE  SentInv'
  BY <1>2 DEF Take, TInv, TypeOK
<1>3. ASSUME NEW w \in Workers, SendOk(w)
      PROVE  SentInv'
  <2>1. run[w].job \in Jobs
    BY <1>3 DEF SendOk, TInv, RunInv, Running
  <2>2. \A j \in Jobs : mails'[j].acked >= mails[j].acked /\ mails[j].acked \in Nat
    BY <1>3, <2>1 DEF SendOk, TInv, TypeOK
  <2>3. mails'[run[w].job].acked > 0
    BY <1>3, <2>1 DEF SendOk, TInv, TypeOK
  <2>4. mails' \in [Jobs -> [calls : Nat, acked : Nat]]
    BY <1>3, <2>1 DEF SendOk, TInv, TypeOK
  <2>5. QED
    BY <1>3, <2>2, <2>3, <2>4 DEF SendOk, TInv, TypeOK
<1>4. ASSUME NEW w \in Workers, SendFails(w)
      PROVE  SentInv'
  <2>1. run[w].job \in Jobs /\ AfterError(run[w].try) \in {"throw", "sleep"}
    BY <1>4 DEF SendFails, AfterError, TInv, RunInv, Running
  <2>2. \A j \in Jobs : mails'[j].acked = mails[j].acked
    BY <1>4, <2>1 DEF SendFails, TInv, TypeOK
  <2>3. QED
    BY <1>4, <2>1, <2>2 DEF SendFails, TInv, TypeOK
<1>5. ASSUME NEW w \in Workers, Wake(w) \/ Die(w)
      PROVE  SentInv'
  BY <1>5 DEF Wake, Die, Idle, TInv, TypeOK
<1>6. ASSUME NEW w \in Workers, Complete(w)
      PROVE  SentInv'
  <2>1. mails' = mails /\ run[w].job \in Jobs
    BY <1>6 DEF Complete, TInv, RunInv, Running
  <2>2. \A v \in Workers : run'[v] = IF v = w THEN Idle ELSE run[v]
    BY <1>6, Stops DEF Complete
  <2>3. \A i \in Jobs : job'[i].state = "completed" => job[i].state = "completed" \/ i = run[w].job
    BY <1>6, <2>1 DEF Complete, TInv, TypeOK
  <2>4. run[w].job \in WelcomeJobs => mails[run[w].job].acked > 0
    BY <1>6 DEF Complete
  <2>5. QED
    BY <2>1, <2>2, <2>3, <2>4 DEF Idle
<1>7. ASSUME NEW w \in Workers, Throw(w)
      PROVE  SentInv'
  <2>1. mails' = mails /\ run[w].job \in Jobs
    BY <1>7 DEF Throw, TInv, RunInv, Running
  <2>2. \A v \in Workers : run'[v] = IF v = w THEN Idle ELSE run[v]
    BY <1>7, Stops DEF Throw
  <2>3. \A i \in Jobs : job'[i].state = "completed" => job[i].state = "completed"
    BY <1>7, <2>1 DEF Throw, TInv, TypeOK
  <2>4. QED
    BY <2>1, <2>2, <2>3 DEF Idle
<1>8. CASE UNCHANGED vars
  BY <1>8 DEF vars
<1>9. QED
  BY <1>1, <1>2, <1>3, <1>4, <1>5, <1>6, <1>7, <1>8 DEF Next

\* A welcome email reported as completed was accepted by the provider, in
\* whatever run, and however often the job was taken away from a worker.
THEOREM CompletedIsSent == Spec => []CompletedMeansSent
<1>1. Init => TInv /\ SentInv
  BY InitT, InitSent
<1>2. TInv /\ SentInv /\ [Next]_vars => (TInv /\ SentInv)'
  BY NextT, NextSent
<1>3. SentInv => CompletedMeansSent
  BY DEF SentInv
<1>4. QED
  BY <1>1, <1>2, <1>3, PTL DEF Spec

-----------------------------------------------------------------------------
LEMMA Product ==
    ASSUME NEW m \in Nat, NEW n \in Nat
    PROVE  m * n \in Nat /\ (m + 1) * n = m * n + n
  OBVIOUS

\* The calls worker w has made in the run it is in, while it makes more.
Made(w) == IF run[w].pc = "send" THEN run[w].try - 1 ELSE run[w].try

\* A job that never stalled is run by the worker that holds its lock, if by any,
\* and the calls made for it are those of its full runs and of this one.
NeverStalled(j) ==
    /\ \A w \in Workers : Running(w) /\ run[w].job = j => job[j].lock = w
    /\ job[j].state \in {"none", "wait", "delayed", "failed"} =>
         mails[j].calls = job[j].made * MaxTries
    /\ job[j].state = "failed" => job[j].made = MaxAttempts
    /\ \A w \in Workers : run[w].pc \in {"send", "sleep", "throw"} /\ run[w].job = j =>
         mails[j].calls = job[j].made * MaxTries + Made(w)
    /\ \A w \in Workers : run[w].pc = "throw" /\ run[w].job = j => run[w].try = MaxTries

TriedInv == \A j \in Jobs : job[j].stalled = 0 => NeverStalled(j)

LEMMA InitTried == Init => TriedInv
  BY EmailQueueAssumption DEF Init, TriedInv, NeverStalled, Running, Idle

LEMMA NextTried ==
    ASSUME TInv, TriedInv, [Next]_vars
    PROVE  TriedInv'
<1> USE EmailQueueAssumption DEF TriedInv, NeverStalled, Running, Made
<1>1. ASSUME NEW j \in Jobs, Add(j) \/ Promote(j)
      PROVE  TriedInv'
  <2> SUFFICES ASSUME NEW i \in Jobs, job'[i].stalled = 0
               PROVE  NeverStalled(i)'
    OBVIOUS
  <2>1. /\ run' = run /\ mails' = mails
        /\ job[i].stalled = 0 /\ job'[i].made = job[i].made /\ job'[i].lock = job[i].lock
        /\ job'[i].state = job[i].state \/ job[i].state \in {"none", "delayed"}
        /\ job'[i].state = "failed" => job[i].state = "failed"
    BY <1>1 DEF Add, Promote, TInv, TypeOK
  <2>2. NeverStalled(i)
    BY <2>1
  <2>3. QED
    BY <2>1, <2>2
<1>2. ASSUME NEW j \in Jobs, Stall(j)
      PROVE  TriedInv'
  BY <1>2 DEF Stall, TInv, TypeOK
<1>3. ASSUME NEW w \in Workers, NEW j \in Jobs, Take(w, j)
      PROVE  TriedInv'
  <2> SUFFICES ASSUME NEW i \in Jobs, job'[i].stalled = 0
               PROVE  NeverStalled(i)'
    OBVIOUS
  <2>1. job[i].stalled = 0
    BY <1>3 DEF Take, TInv, TypeOK
  <2>2. CASE i # j
    BY <1>3, <2>1, <2>2 DEF Take, TInv, TypeOK
  <2>3. CASE i = j
    <3>1. \A v \in Workers : ~(Running(v) /\ run[v].job = j)
      BY <1>3, <2>1, <2>3 DEF Take, TInv, JobInv
    <3>2. job[j].made * MaxTries \in Nat
      BY Product DEF TInv, TypeOK
    <3>3. QED
      BY <1>3, <2>1, <2>3, <3>1, <3>2 DEF Take, TInv, TypeOK
  <2>4. QED
    BY <2>2, <2>3
<1>4. ASSUME NEW w \in Workers, SendOk(w) \/ SendFails(w) \/ Wake(w)
      PROVE  TriedInv'
  <2> DEFINE j == run[w].job
  <2> SUFFICES ASSUME NEW i \in Jobs, job'[i].stalled = 0
               PROVE  NeverStalled(i)'
    OBVIOUS
  <2>1. /\ job' = job /\ job[i].stalled = 0
        /\ j \in Jobs /\ run[w].try \in 1..MaxTries
        /\ \A v \in Workers \ {w} : run'[v] = run[v]
        /\ run'[w].job = j /\ Running(w) /\ Running(w)'
    BY <1>4 DEF SendOk, SendFails, Wake, AfterError, TInv, TypeOK, RunInv
  <2>2. CASE i # j
    <3>1. mails'[i] = mails[i]
      BY <1>4, <2>1, <2>2 DEF SendOk, SendFails, Wake, TInv, TypeOK
    <3>2. QED
      BY <2>1, <2>2, <3>1
  <2>3. CASE i = j
    <3>1. /\ job[j].lock = w /\ \A v \in Workers \ {w} : ~(Running(v) /\ run[v].job = j)
          /\ job[j].state = "active"
      BY <2>1, <2>3 DEF TInv, JobInv
    <3>2. mails[j].calls = job[j].made * MaxTries + Made(w) /\ job[j].made * MaxTries \in Nat
      BY <1>4, <2>1, <2>3, Product DEF SendOk, SendFails, Wake, TInv, TypeOK
    <3>3. /\ run'[w].pc \in {"send", "sleep", "throw"} =>
               mails'[j].calls = job[j].made * MaxTries + Made(w)'
          /\ run'[w].pc = "throw" => run'[w].try = MaxTries
      <4>1. CASE SendOk(w)
        BY <4>1 DEF SendOk, TInv, TypeOK
      <4>2. CASE SendFails(w)
        BY <4>2, <2>1, <3>2 DEF SendFails, AfterError, TInv, TypeOK
      <4>3. CASE Wake(w)
        BY <4>3, <2>1, <3>2 DEF Wake, TInv, TypeOK
      <4>4. QED
        BY <1>4, <4>1, <4>2, <4>3
    <3>4. QED
      BY <2>1, <2>3, <3>1, <3>3
  <2>4. QED
    BY <2>2, <2>3
<1>5. ASSUME NEW w \in Workers, Complete(w)
      PROVE  TriedInv'
  <2> SUFFICES ASSUME NEW i \in Jobs, job'[i].stalled = 0
               PROVE  NeverStalled(i)'
    OBVIOUS
  <2>1. /\ mails' = mails /\ job[i].stalled = 0 /\ run[w].job \in Jobs
        /\ \A v \in Workers : run'[v] = IF v = w THEN Idle ELSE run[v]
    BY <1>5 DEF Complete, TInv, TypeOK, RunInv
  <2>2. NeverStalled(i)
    BY <2>1
  <2>3. CASE job'[i] = job[i]
    BY <2>1, <2>2, <2>3 DEF Idle
  <2>4. CASE job'[i] # job[i]
    <3>1. i = run[w].job /\ job[i].lock = w /\ job'[i].state = "completed"
      BY <1>5, <2>1, <2>4 DEF Complete, TInv, TypeOK
    <3>2. \A v \in Workers : run'[v].pc = "idle" \/ run'[v].job # i
      BY <2>1, <2>2, <3>1 DEF Idle
    <3>3. QED
      BY <3>1, <3>2
  <2>5. QED
    BY <2>3, <2>4
<1>6. ASSUME NEW w \in Workers, Throw(w)
      PROVE  TriedInv'
  <2> DEFINE j == run[w].job
  <2> SUFFICES ASSUME NEW i \in Jobs, job'[i].stalled = 0
               PROVE  NeverStalled(i)'
    OBVIOUS
  <2>1. /\ mails' = mails /\ job[i].stalled = 0 /\ j \in Jobs
        /\ \A v \in Workers : run'[v] = IF v = w THEN Idle ELSE run[v]
    <3>1. mails' = mails /\ j \in Jobs
      BY <1>6 DEF Throw, TInv, RunInv
    <3>2. \A v \in Workers : run'[v] = IF v = w THEN Idle ELSE run[v]
      BY <1>6, Stops DEF Throw
    <3>3. job'[i].stalled = job[i].stalled
      BY <1>6, <3>1 DEF Throw, TInv, TypeOK
    <3>4. QED
      BY <3>1, <3>2, <3>3
  <2>2. CASE i # j
    <3>1. job'[i] = job[i]
      BY <1>6, <2>1, <2>2 DEF Throw, TInv, TypeOK
    <3>2. NeverStalled(i)
      BY <2>1
    <3>3. \A v \in Workers : run'[v].pc = "idle" \/ run'[v] = run[v]
      BY <2>1 DEF Idle
    <3>4. \A v \in Workers : run'[v].pc # "idle" /\ run'[v].job = i => job'[i].lock = v
      BY <3>1, <3>2, <3>3
    <3>5. \A v \in Workers : run'[v].pc \in {"send", "sleep", "throw"} /\ run'[v].job = i =>
            mails'[i].calls = job'[i].made * MaxTries + Made(v)'
      <4> SUFFICES ASSUME NEW v \in Workers,
                          run'[v].pc \in {"send", "sleep", "throw"}, run'[v].job = i
                   PROVE  mails'[i].calls = job'[i].made * MaxTries + Made(v)'
        OBVIOUS
      <4>1. run'[v] = run[v]
        BY <3>3
      <4>2. QED
        BY <2>1, <3>1, <3>2, <4>1
    <3>6. \A v \in Workers : run'[v].pc = "throw" /\ run'[v].job = i => run'[v].try = MaxTries
      BY <3>2, <3>3
    <3>7. /\ job'[i].state \in {"none", "wait", "delayed", "failed"} =>
                mails'[i].calls = job'[i].made * MaxTries
          /\ job'[i].state = "failed" => job'[i].made = MaxAttempts
      BY <2>1, <3>1, <3>2
    <3>8. QED
      BY <3>4, <3>5, <3>6, <3>7
  <2>3. CASE i = j
    <3>a. run[w].pc = "throw" /\ j \in Jobs /\ job[j].stalled = 0
      BY <1>6, <2>1, <2>3 DEF Throw
    <3>b. NeverStalled(j)
      BY <3>a
    <3>1. job[j].lock = w /\ \A v \in Workers \ {w} : ~(Running(v) /\ run[v].job = j)
      BY <3>a, <3>b
    <3>2. mails[j].calls = job[j].made * MaxTries + MaxTries
      BY <3>a, <3>b
    <3>3. /\ job'[j].made = job[j].made + 1
          /\ job'[j].state = "failed" => job[j].made + 1 >= MaxAttempts
          /\ job[j].made \in Nat /\ job[j].made < MaxAttempts
      BY <1>6, <2>1, <3>1 DEF Throw, LastRun, TInv, TypeOK, JobInv
    <3>4. (job[j].made + 1) * MaxTries = job[j].made * MaxTries + MaxTries
      BY <3>3, Product
    <3>5. \A v \in Workers : run'[v].pc # "idle" => run'[v].job # i
      BY <2>1, <2>3, <3>1 DEF Idle
    <3>6. \A v \in Workers : run'[v].pc \notin {"send", "sleep", "throw"} \/ run'[v].job # i
      BY <3>5
    <3>7. mails'[i].calls = job'[i].made * MaxTries
      BY <2>1, <2>3, <3>2, <3>3, <3>4
    <3>8. job'[i].state = "failed" => job'[i].made = MaxAttempts
      BY <2>3, <3>3
    <3>9. QED
      BY <3>5, <3>6, <3>7, <3>8
  <2>4. QED
    BY <2>2, <2>3
<1>7. ASSUME NEW w \in Workers, Die(w)
      PROVE  TriedInv'
  BY <1>7 DEF Die, Idle, TInv, TypeOK
<1>8. CASE UNCHANGED vars
  BY <1>8 DEF vars
<1>9. QED
  BY <1>1, <1>2, <1>3, <1>4, <1>5, <1>6, <1>7, <1>8 DEF Next

\* A job that never stalled is failed only after every try of every run that is
\* configured: withRetry and BullMQ lose none between them.
THEOREM FailedIsTried == Spec => []FailedMeansTried
<1>1. Init => TInv /\ TriedInv
  BY InitT, InitTried
<1>2. TInv /\ TriedInv /\ [Next]_vars => (TInv /\ TriedInv)'
  BY NextT, NextTried
<1>3. TriedInv => FailedMeansTried
  BY DEF TriedInv, NeverStalled, FailedMeansTried
<1>4. QED
  BY <1>1, <1>2, <1>3, PTL DEF Spec

-----------------------------------------------------------------------------
\* The workers that may still have an email of j accepted although the job was
\* taken away from them.
Stale(j) == {w \in Workers : /\ run[w].job = j /\ run[w].pc \in {"send", "sleep"}
                             /\ job[j].lock # w}

\* The holder of the job's lock has not had its email accepted.
Unsent(j) == run[job[j].lock].job = j /\ run[job[j].lock].pc \in {"send", "sleep", "throw"}

\* What the runs that ended, or lost the job, may have had accepted; one more
\* for a run that is done, died or may be done.
Settled(j) == job[j].state = "completed" \/ (job[j].state = "active" /\ ~Unsent(j))

AckedInv ==
    \A j \in Jobs :
      mails[j].acked + Cardinality(Stale(j)) <= job[j].stalled + (IF Settled(j) THEN 1 ELSE 0)

LEMMA StaleFinite ==
    ASSUME NEW j
    PROVE  IsFiniteSet(Stale(j)) /\ Cardinality(Stale(j)) \in Nat
  BY EmailQueueAssumption, FS_Subset, FS_CardinalityType DEF Stale

LEMMA FewerStale ==
    ASSUME NEW j, NEW S, S \subseteq Stale(j)
    PROVE  Cardinality(S) \in Nat /\ Cardinality(S) <= Cardinality(Stale(j))
  BY StaleFinite, FS_Subset, FS_CardinalityType

LEMMA InitAcked == Init => AckedInv
<1> SUFFICES ASSUME Init, NEW j \in Jobs
             PROVE  mails[j].acked + Cardinality(Stale(j)) <= job[j].stalled
                      + (IF Settled(j) THEN 1 ELSE 0)
  BY DEF AckedInv
<1>1. Stale(j) = {}
  BY DEF Init, Idle, Stale
<1>2. mails[j].acked = 0 /\ job[j].stalled = 0
  BY DEF Init
<1>3. QED
  BY <1>1, <1>2, FS_EmptySet

\* What a step that is neither an acceptance nor a stall must do to a job: make
\* no worker stale for it, and not lose that it is settled.
LEMMA Quiet ==
    ASSUME TInv, AckedInv, NEW j \in Jobs,
           Stale(j)' \subseteq Stale(j), Settled(j) => Settled(j)',
           mails'[j].acked = mails[j].acked, job'[j].stalled = job[j].stalled
    PROVE  mails'[j].acked + Cardinality(Stale(j)')
             <= job'[j].stalled + (IF Settled(j)' THEN 1 ELSE 0)
<1>1. Cardinality(Stale(j)') \in Nat /\ Cardinality(Stale(j)') <= Cardinality(Stale(j))
  BY FewerStale
<1>2. /\ mails[j].acked \in Nat /\ job[j].stalled \in Nat
      /\ mails[j].acked + Cardinality(Stale(j)) <= job[j].stalled
           + (IF Settled(j) THEN 1 ELSE 0)
  BY EmailQueueAssumption DEF TInv, TypeOK, AckedInv
<1>3. Cardinality(Stale(j)) \in Nat
  BY StaleFinite
<1>4. QED
  BY <1>1, <1>2, <1>3

LEMMA NextAcked ==
    ASSUME TInv, AckedInv, [Next]_vars
    PROVE  AckedInv'
<1> SUFFICES ASSUME NEW i \in Jobs
             PROVE  mails'[i].acked + Cardinality(Stale(i)')
                      <= job'[i].stalled + (IF Settled(i)' THEN 1 ELSE 0)
  BY DEF AckedInv
<1> USE EmailQueueAssumption
<1>1. ASSUME NEW j \in Jobs, Add(j) \/ Promote(j)
      PROVE  /\ Stale(i)' \subseteq Stale(i)
             /\ Settled(i) => Settled(i)'
             /\ mails'[i].acked = mails[i].acked /\ job'[i].stalled = job[i].stalled
  <2>1. /\ job'[i].lock = job[i].lock /\ job'[i].stalled = job[i].stalled
        /\ job[i].state \in {"active", "completed"} => job'[i].state = job[i].state
        /\ run' = run /\ mails' = mails
    BY <1>1 DEF Add, Promote, TInv, TypeOK
  <2>2. QED
    BY <2>1 DEF Stale, Settled, Unsent
<1>2. ASSUME NEW w \in Workers, NEW j \in Jobs, Take(w, j)
      PROVE  /\ Stale(i)' \subseteq Stale(i)
             /\ Settled(i) => Settled(i)'
             /\ mails'[i].acked = mails[i].acked /\ job'[i].stalled = job[i].stalled
  <2>1. job'[i].stalled = job[i].stalled /\ mails' = mails /\ ~Running(w)
    BY <1>2 DEF Take, Running, TInv, TypeOK
  <2>2. Stale(i)' \subseteq Stale(i)
    <3>1. CASE i = j
      BY <1>2, <3>1 DEF Take, Stale, TInv, TypeOK, JobInv
    <3>2. CASE i # j
      BY <1>2, <3>2 DEF Take, Stale, TInv, TypeOK
    <3>3. QED
      BY <3>1, <3>2
  <2>3. Settled(i) => Settled(i)'
    BY <1>2 DEF Take, Settled, Unsent, TInv, TypeOK, JobInv
  <2>4. QED
    BY <2>1, <2>2, <2>3
<1>3. ASSUME NEW w \in Workers, SendFails(w) \/ Wake(w) \/ Die(w)
      PROVE  /\ Stale(i)' \subseteq Stale(i)
             /\ Settled(i) => Settled(i)'
             /\ mails'[i].acked = mails[i].acked /\ job'[i].stalled = job[i].stalled
  <2>1. job' = job /\ \A v \in Workers \ {w} : run'[v] = run[v]
    BY <1>3 DEF SendFails, Wake, Die, TInv, TypeOK
  <2>2. mails'[i].acked = mails[i].acked
    <3>1. CASE SendFails(w)
      <4>1. run[w].job \in Jobs
        BY <3>1 DEF SendFails, TInv, RunInv, Running
      <4>2. QED
        BY <3>1, <4>1 DEF SendFails, TInv, TypeOK
    <3>2. CASE Wake(w) \/ Die(w)
      BY <3>2 DEF Wake, Die
    <3>3. QED
      BY <1>3, <3>1, <3>2
  <2>3. /\ run'[w].job = i /\ run'[w].pc \in {"send", "sleep"} =>
             run[w].job = i /\ run[w].pc \in {"send", "sleep"}
        /\ run'[w].job = i /\ run'[w].pc \in {"send", "sleep", "throw"} =>
             run[w].job = i /\ run[w].pc \in {"send", "sleep", "throw"}
    BY <1>3 DEF SendFails, Wake, Die, Idle, TInv, TypeOK
  <2>4. Stale(i)' \subseteq Stale(i)
    BY <2>1, <2>3 DEF Stale
  <2>5. Settled(i) => Settled(i)'
    BY <2>1, <2>3 DEF Settled, Unsent, TInv, JobInv
  <2>6. QED
    BY <2>1, <2>2, <2>4, <2>5
<1>4. ASSUME NEW w \in Workers, Complete(w) \/ Throw(w)
      PROVE  /\ Stale(i)' \subseteq Stale(i)
             /\ Settled(i) => Settled(i)'
             /\ mails'[i].acked = mails[i].acked /\ job'[i].stalled = job[i].stalled
  <2>1. /\ run[w].job \in Jobs /\ run[w].pc \in {"done", "throw"}
        /\ run' = [run EXCEPT ![w] = Idle] /\ mails' = mails
    BY <1>4 DEF Complete, Throw, TInv, RunInv, Running
  <2>2. /\ job[run[w].job].lock # w \/ i # run[w].job => job'[i] = job[i]
        /\ job'[i].stalled = job[i].stalled
    BY <1>4, <2>1 DEF Complete, Throw, TInv, TypeOK
  <2>3. CASE job[run[w].job].lock # w \/ i # run[w].job
    BY <2>1, <2>2, <2>3 DEF Stale, Settled, Unsent, Idle, TInv, TypeOK, JobInv
  <2>4. CASE job[run[w].job].lock = w /\ i = run[w].job
    <3>1. Stale(i)' \subseteq Stale(i)
      BY <2>1, <2>4 DEF Stale, Idle, TInv, TypeOK
    <3>2. CASE Complete(w)
      BY <3>1, <3>2, <2>1, <2>2, <2>4 DEF Complete, Settled, TInv, TypeOK
    <3>3. CASE Throw(w)
      BY <3>1, <3>3, <2>1, <2>2, <2>4 DEF Throw, Settled, Unsent, TInv, TypeOK, JobInv
    <3>4. QED
      BY <1>4, <3>2, <3>3
  <2>5. QED
    BY <2>3, <2>4
<1>5. ASSUME NEW j \in Jobs, Stall(j)
      PROVE  mails'[i].acked + Cardinality(Stale(i)')
               <= job'[i].stalled + (IF Settled(i)' THEN 1 ELSE 0)
  <2>1. CASE i # j
    <3>1. job'[i] = job[i] /\ run' = run /\ mails' = mails
      BY <1>5, <2>1 DEF Stall, TInv, TypeOK
    <3>2. QED
      BY <3>1, Quiet DEF Stale, Settled, Unsent
  <2>2. CASE i = j
    <3> DEFINE h == job[j].lock
    <3>1. /\ job[j].state = "active" /\ h \in Workers /\ run' = run /\ mails' = mails
          /\ job'[j].stalled = job[j].stalled + 1
      BY <1>5 DEF Stall, TInv, TypeOK, JobInv
    <3>2. Cardinality(Stale(j)') \in Nat /\ Cardinality(Stale(j)')
            <= Cardinality(Stale(j)) + (IF Unsent(j) THEN 1 ELSE 0)
      <4>1. CASE Unsent(j)
        <5>1. Stale(j)' \subseteq Stale(j) \cup {h}
          BY <3>1 DEF Stale
        <5>2. /\ IsFiniteSet(Stale(j) \cup {h})
              /\ Cardinality(Stale(j) \cup {h}) <= Cardinality(Stale(j)) + 1
          <6>1. IsFiniteSet(Stale(j)) /\ Cardinality(Stale(j)) \in Nat
            BY StaleFinite
          <6>2. Cardinality(Stale(j) \cup {h}) =
                  IF h \in Stale(j) THEN Cardinality(Stale(j)) ELSE Cardinality(Stale(j)) + 1
            BY <6>1, FS_AddElement
          <6>3. QED
            BY <6>1, <6>2, FS_AddElement
        <5>3. QED
          BY <4>1, <5>1, <5>2, StaleFinite, FS_Subset, FS_CardinalityType
      <4>2. CASE ~Unsent(j)
        <5>1. Stale(j)' \subseteq Stale(j)
          BY <3>1, <4>2 DEF Stale, Unsent
        <5>2. QED
          BY <4>2, <5>1, FewerStale, StaleFinite
      <4>3. QED
        BY <4>1, <4>2
    <3>3. /\ mails[j].acked \in Nat /\ job[j].stalled \in Nat
          /\ mails[j].acked + Cardinality(Stale(j))
               <= job[j].stalled + (IF Unsent(j) THEN 0 ELSE 1)
      BY <3>1 DEF TInv, TypeOK, AckedInv, Settled
    <3>4. Cardinality(Stale(j)) \in Nat
      BY StaleFinite
    <3>5. mails[j].acked + Cardinality(Stale(j)') <= job[j].stalled + 1
      BY <3>2, <3>3, <3>4
    <3>6. QED
      BY <2>2, <3>1, <3>2, <3>3, <3>5
  <2>3. QED
    BY <2>1, <2>2
<1>6. ASSUME NEW w \in Workers, SendOk(w)
      PROVE  mails'[i].acked + Cardinality(Stale(i)')
               <= job'[i].stalled + (IF Settled(i)' THEN 1 ELSE 0)
  <2> DEFINE j == run[w].job
  <2>1. /\ j \in Jobs /\ job' = job /\ run[w].pc = "send"
        /\ run' = [run EXCEPT ![w].pc = "done"]
    BY <1>6 DEF SendOk, TInv, RunInv, Running
  <2>2. Stale(i)' = Stale(i) \ {w}
    BY <2>1 DEF Stale, TInv, TypeOK
  <2>3. Settled(i) => Settled(i)'
    BY <2>1 DEF Settled, Unsent, TInv, TypeOK, JobInv
  <2>4. CASE i # j
    <3>1. mails'[i] = mails[i]
      BY <1>6, <2>1, <2>4 DEF SendOk, TInv, TypeOK
    <3>2. QED
      BY <2>1, <2>2, <2>3, <3>1, Quiet
  <2>5. CASE i = j
    <3>1. /\ mails'[i].acked = mails[i].acked + 1 /\ mails[i].acked \in Nat
          /\ job[i].stalled \in Nat
          /\ mails[i].acked + Cardinality(Stale(i))
               <= job[i].stalled + (IF Settled(i) THEN 1 ELSE 0)
      BY <1>6, <2>1, <2>5 DEF SendOk, TInv, TypeOK, AckedInv
    <3>2. Cardinality(Stale(i)) \in Nat
      BY StaleFinite
    <3>3. CASE job[i].lock = w
      <4>1. Stale(i)' = Stale(i)
        BY <2>2, <3>3 DEF Stale
      <4>2. ~Settled(i) /\ Settled(i)'
        BY <2>1, <2>5, <3>3 DEF Settled, Unsent, TInv, TypeOK, JobInv
      <4>3. QED
        BY <2>1, <3>1, <3>2, <4>1, <4>2
    <3>4. CASE job[i].lock # w
      <4>1. Cardinality(Stale(i)') = Cardinality(Stale(i)) - 1
        <5>1. w \in Stale(i)
          BY <2>1, <2>5, <3>4 DEF Stale
        <5>2. IsFiniteSet(Stale(i)) /\ Stale(i)' = Stale(i) \ {w}
          BY <2>2, StaleFinite
        <5>3. QED
          BY <5>1, <5>2, FS_RemoveElement
      <4>2. QED
        BY <2>1, <2>3, <3>1, <3>2, <4>1
    <3>5. QED
      BY <3>3, <3>4
  <2>6. QED
    BY <2>4, <2>5
<1>7. CASE UNCHANGED vars
  <2>1. job' = job /\ run' = run /\ mails' = mails
    BY <1>7 DEF vars
  <2>2. QED
    BY <2>1, Quiet DEF Stale, Settled, Unsent
<1>8. QED
  BY <1>1, <1>2, <1>3, <1>4, <1>5, <1>6, <1>7, Quiet DEF Next

\* The provider accepts a second email for a job only after the job was taken
\* away from a worker, and one more for each time it was.
THEOREM AckedAtMostOnce == Spec => []AckedOnce
<1>1. Init => TInv /\ AckedInv
  BY InitT, InitAcked
<1>2. TInv /\ AckedInv /\ [Next]_vars => (TInv /\ AckedInv)'
  BY NextT, NextAcked
<1>3. TInv /\ AckedInv => AckedOnce
  <2> SUFFICES ASSUME TInv, AckedInv, NEW j \in Jobs
               PROVE  mails[j].acked <= 1 + job[j].stalled
    BY DEF AckedOnce
  <2>1. /\ mails[j].acked \in Nat /\ job[j].stalled \in Nat
        /\ mails[j].acked + Cardinality(Stale(j)) <= job[j].stalled
             + (IF Settled(j) THEN 1 ELSE 0)
    BY EmailQueueAssumption DEF TInv, TypeOK, AckedInv
  <2>2. Cardinality(Stale(j)) \in Nat
    BY StaleFinite
  <2>3. QED
    BY <2>1, <2>2
<1>4. QED
  BY <1>1, <1>2, <1>3, PTL DEF Spec

-----------------------------------------------------------------------------
\* The calls for j that the runs in progress may still make, each as its worker
\* and its try.
Left(j) == {c \in Workers \X (1..MaxTries) :
              /\ run[c[1]].job = j
              /\ \/ run[c[1]].pc = "send" /\ c[2] >= run[c[1]].try
                 \/ run[c[1]].pc = "sleep" /\ c[2] > run[c[1]].try}

\* The runs of j so far: those that ended, those that stalled, the present one.
Runs(j) == job[j].made + job[j].stalled + (IF job[j].state = "active" THEN 1 ELSE 0)

\* Calls made and calls left are paid for by the runs of the job.
CallsInv ==
    \A j \in Jobs :
      /\ Runs(j) <= MaxRuns
      /\ mails[j].calls + Cardinality(Left(j)) <= Runs(j) * MaxTries

LEMMA LeftFinite ==
    ASSUME NEW j
    PROVE  IsFiniteSet(Left(j)) /\ Cardinality(Left(j)) \in Nat
<1>1. IsFiniteSet(1..MaxTries)
  BY EmailQueueAssumption, FS_Interval
<1>2. IsFiniteSet(Workers \X (1..MaxTries))
  BY <1>1, EmailQueueAssumption, FS_Product
<1>3. Left(j) \in SUBSET (Workers \X (1..MaxTries))
  BY DEF Left
<1>4. QED
  BY <1>2, <1>3, FS_Subset, FS_CardinalityType

LEMMA FewerLeft ==
    ASSUME NEW j, NEW S, S \subseteq Left(j)
    PROVE  Cardinality(S) \in Nat /\ Cardinality(S) <= Cardinality(Left(j))
  BY LeftFinite, FS_Subset, FS_CardinalityType

LEMMA InitCalls == Init => CallsInv
<1> SUFFICES ASSUME Init, NEW j \in Jobs
             PROVE  /\ Runs(j) <= MaxRuns
                    /\ mails[j].calls + Cardinality(Left(j)) <= Runs(j) * MaxTries
  BY DEF CallsInv
<1>1. Left(j) = {}
  BY DEF Init, Idle, Left
<1>2. mails[j].calls = 0 /\ Runs(j) = 0
  BY DEF Init, Runs
<1>3. QED
  BY <1>1, <1>2, FS_EmptySet, EmailQueueAssumption DEF MaxRuns

\* A step that makes no call and starts no run leaves the account as it is.
LEMMA NoCall ==
    ASSUME TInv, CallsInv, NEW j \in Jobs,
           Left(j)' \subseteq Left(j), Runs(j)' = Runs(j), mails'[j].calls = mails[j].calls
    PROVE  /\ Runs(j)' <= MaxRuns
           /\ mails'[j].calls + Cardinality(Left(j)') <= Runs(j)' * MaxTries
<1>1. Cardinality(Left(j)') \in Nat /\ Cardinality(Left(j)') <= Cardinality(Left(j))
  BY FewerLeft
<1>2. /\ mails[j].calls \in Nat /\ Runs(j) \in Nat
      /\ Runs(j) <= MaxRuns /\ mails[j].calls + Cardinality(Left(j)) <= Runs(j) * MaxTries
  BY EmailQueueAssumption DEF TInv, TypeOK, CallsInv, Runs
<1>3. Cardinality(Left(j)) \in Nat /\ Runs(j) * MaxTries \in Nat
  BY <1>2, LeftFinite, Product, EmailQueueAssumption
<1>4. QED
  BY <1>1, <1>2, <1>3

\* A call uses up one of those that were left, whether it is the last or not.
LEMMA OneCall ==
    ASSUME TInv, CallsInv, NEW w \in Workers, SendOk(w) \/ SendFails(w), NEW i \in Jobs
    PROVE  /\ Runs(i)' <= MaxRuns
           /\ mails'[i].calls + Cardinality(Left(i)') <= Runs(i)' * MaxTries
<1> DEFINE j == run[w].job
           c == <<w, run[w].try>>
<1>1. /\ j \in Jobs /\ run[w].try \in 1..MaxTries /\ run[w].pc = "send"
      /\ job' = job /\ Runs(i)' = Runs(i)
      /\ \A v \in Workers \ {w} : run'[v] = run[v]
      /\ run'[w].job = j /\ run'[w].try = run[w].try /\ run'[w].pc # "send"
  BY DEF SendOk, SendFails, AfterError, TInv, TypeOK, RunInv, Running, Runs
<1>2. Left(i)' \subseteq Left(i) \ {c}
  BY <1>1 DEF Left
<1>3. CASE i # j
  <2>1. mails'[i].calls = mails[i].calls
    BY <1>1, <1>3 DEF SendOk, SendFails, TInv, TypeOK
  <2>2. QED
    BY <1>1, <1>2, <2>1, NoCall
<1>4. CASE i = j
  <2>1. /\ mails'[i].calls = mails[i].calls + 1 /\ mails[i].calls \in Nat
    BY <1>1, <1>4 DEF SendOk, SendFails, TInv, TypeOK
  <2>2. Cardinality(Left(i)') \in Nat /\ Cardinality(Left(i)') <= Cardinality(Left(i)) - 1
    <3>1. c \in Left(i)
      BY <1>1, <1>4 DEF Left
    <3>2. IsFiniteSet(Left(i) \ {c}) /\ Cardinality(Left(i) \ {c}) = Cardinality(Left(i)) - 1
      BY <3>1, LeftFinite, FS_RemoveElement
    <3>3. QED
      BY <1>2, <3>2, FS_Subset, FS_CardinalityType
  <2>3. Runs(i) <= MaxRuns /\ mails[i].calls + Cardinality(Left(i)) <= Runs(i) * MaxTries
    BY DEF CallsInv
  <2>4. Cardinality(Left(i)) \in Nat /\ Runs(i) * MaxTries \in Nat
    <3>1. Runs(i) \in Nat
      BY EmailQueueAssumption DEF TInv, TypeOK, Runs
    <3>2. QED
      BY <3>1, LeftFinite, Product, EmailQueueAssumption
  <2>5. QED
    BY <1>1, <2>1, <2>2, <2>3, <2>4
<1>5. QED
  BY <1>3, <1>4

\* A worker that takes the job adds a run, and with it at most MaxTries calls.
LEMMA OneRun ==
    ASSUME TInv, CallsInv, NEW w \in Workers, NEW j \in Jobs, Take(w, j)
    PROVE  /\ Runs(j)' <= MaxRuns
           /\ mails'[j].calls + Cardinality(Left(j)') <= Runs(j)' * MaxTries
<1> DEFINE Run == {w} \X (1..MaxTries)
<1>1. Left(j)' \subseteq Left(j) \cup Run
  BY DEF Take, Left, TInv, TypeOK
<1>2. IsFiniteSet(Run) /\ Cardinality(Run) = MaxTries
  <2>1. IsFiniteSet(1..MaxTries) /\ Cardinality(1..MaxTries) = MaxTries
    BY EmailQueueAssumption, FS_Interval
  <2>2. IsFiniteSet({w}) /\ Cardinality({w}) = 1
    BY FS_Singleton
  <2>3. IsFiniteSet(Run) /\ Cardinality(Run) = Cardinality({w}) * Cardinality(1..MaxTries)
    BY <2>1, <2>2, FS_Product
  <2>4. QED
    BY <2>1, <2>2, <2>3, EmailQueueAssumption
<1>3. Cardinality(Left(j)') \in Nat /\ Cardinality(Left(j)') <= Cardinality(Left(j)) + MaxTries
  <2>1. Cardinality(Left(j) \cap Run) \in Nat
    BY FewerLeft
  <2>2. /\ IsFiniteSet(Left(j) \cup Run)
        /\ Cardinality(Left(j) \cup Run) =
             Cardinality(Left(j)) + Cardinality(Run) - Cardinality(Left(j) \cap Run)
    BY <1>2, LeftFinite, FS_Union
  <2>3. Cardinality(Left(j) \cup Run) <= Cardinality(Left(j)) + MaxTries
    BY <1>2, <2>1, <2>2, LeftFinite, EmailQueueAssumption
  <2>4. Cardinality(Left(j)') \in Nat /\ Cardinality(Left(j)') <= Cardinality(Left(j) \cup Run)
    BY <1>1, <2>2, FS_Subset, FS_CardinalityType
  <2>5. QED
    BY <1>2, <2>1, <2>2, <2>3, <2>4, LeftFinite, EmailQueueAssumption
<1>4. /\ Runs(j) \in Nat /\ Runs(j)' = Runs(j) + 1 /\ Runs(j) + 1 <= MaxRuns
      /\ mails'[j].calls = mails[j].calls /\ mails[j].calls \in Nat
  BY EmailQueueAssumption DEF Take, Runs, MaxRuns, TInv, TypeOK, JobInv
<1>5. (Runs(j) + 1) * MaxTries = Runs(j) * MaxTries + MaxTries /\ Runs(j) * MaxTries \in Nat
  BY <1>4, Product, EmailQueueAssumption
<1>6. mails[j].calls + Cardinality(Left(j)) <= Runs(j) * MaxTries /\ Cardinality(Left(j)) \in Nat
  BY LeftFinite DEF CallsInv
<1>7. QED
  BY <1>3, <1>4, <1>5, <1>6, EmailQueueAssumption

LEMMA NextCalls ==
    ASSUME TInv, CallsInv, [Next]_vars
    PROVE  CallsInv'
<1> SUFFICES ASSUME NEW i \in Jobs
             PROVE  /\ Runs(i)' <= MaxRuns
                    /\ mails'[i].calls + Cardinality(Left(i)') <= Runs(i)' * MaxTries
  BY DEF CallsInv
<1> DEFINE Same == /\ Left(i)' \subseteq Left(i)
                   /\ Runs(i)' = Runs(i) /\ mails'[i].calls = mails[i].calls
<1> USE EmailQueueAssumption
<1>1. ASSUME NEW j \in Jobs, Add(j) \/ Promote(j) \/ Stall(j)
      PROVE  Same
  <2>1. run' = run /\ mails' = mails
    BY <1>1 DEF Add, Promote, Stall
  <2>2. Runs(i)' = Runs(i)
    <3>1. CASE Add(j) \/ Promote(j)
      BY <3>1 DEF Add, Promote, Runs, TInv, TypeOK
    <3>2. CASE Stall(j)
      BY <3>2 DEF Stall, Runs, TInv, TypeOK
    <3>3. QED
      BY <1>1, <3>1, <3>2
  <2>3. QED
    BY <2>1, <2>2 DEF Left
<1>2. ASSUME NEW w \in Workers, NEW j \in Jobs, Take(w, j), i # j
      PROVE  Same
  BY <1>2 DEF Take, Left, Runs, TInv, TypeOK
<1>3. ASSUME NEW w \in Workers, Wake(w) \/ Die(w)
      PROVE  Same
  BY <1>3 DEF Wake, Die, Idle, Left, Runs, TInv, TypeOK
<1>4. ASSUME NEW w \in Workers, Complete(w) \/ Throw(w)
      PROVE  Same
  <2>1. /\ run' = [run EXCEPT ![w] = Idle] /\ mails' = mails
        /\ run[w].job \in Jobs /\ run[w].pc \in {"done", "throw"}
    BY <1>4 DEF Complete, Throw, TInv, RunInv, Running
  <2>2. Left(i)' \subseteq Left(i)
    BY <2>1 DEF Left, Idle, TInv, TypeOK
  <2>3. CASE job[run[w].job].lock # w \/ i # run[w].job
    BY <1>4, <2>1, <2>2, <2>3 DEF Complete, Throw, Runs, TInv, TypeOK
  <2>4. CASE job[run[w].job].lock = w /\ i = run[w].job
    <3>1. /\ job[i].state = "active" /\ job'[i].state # "active"
          /\ job'[i].made = job[i].made + 1 /\ job'[i].stalled = job[i].stalled
      BY <1>4, <2>1, <2>4 DEF Complete, Throw, TInv, TypeOK, JobInv
    <3>2. QED
      BY <2>1, <2>2, <3>1 DEF Runs, TInv, TypeOK
  <2>5. QED
    BY <2>3, <2>4
<1>5. CASE UNCHANGED vars
  BY <1>5, NoCall DEF vars, Left, Runs
<1>6. Same => /\ Runs(i)' <= MaxRuns
              /\ mails'[i].calls + Cardinality(Left(i)') <= Runs(i)' * MaxTries
  BY NoCall
<1> HIDE DEF Same
<1>7. CASE \E w \in Workers : SendOk(w) \/ SendFails(w)
  BY <1>7, OneCall
<1>8. CASE \E w \in Workers, j \in Jobs : Take(w, j)
  <2>1. PICK w \in Workers, j \in Jobs : Take(w, j)
    BY <1>8
  <2>2. QED
    BY <1>2, <1>6, <2>1, OneRun
<1>9. QED
  BY <1>1, <1>3, <1>4, <1>5, <1>6, <1>7, <1>8 DEF Next

\* The two levels of retry multiply, and failures of the provider, lost locks and
\* dying workers add no more than their runs: the bound on the calls of the
\* provider holds for any number of workers.
THEOREM CallsAreBounded == Spec => []CallsBounded
<1>1. Init => TInv /\ CallsInv
  BY InitT, InitCalls
<1>2. TInv /\ CallsInv /\ [Next]_vars => (TInv /\ CallsInv)'
  BY NextT, NextCalls
<1>3. TInv /\ CallsInv => CallsBounded
  <2> SUFFICES ASSUME TInv, CallsInv, NEW j \in Jobs
               PROVE  mails[j].calls <= MaxRuns * MaxTries
    BY DEF CallsBounded
  <2>1. /\ mails[j].calls \in Nat /\ Runs(j) \in Nat /\ Runs(j) <= MaxRuns
        /\ mails[j].calls + Cardinality(Left(j)) <= Runs(j) * MaxTries
    BY EmailQueueAssumption DEF TInv, TypeOK, CallsInv, Runs
  <2>2. Cardinality(Left(j)) \in Nat /\ Runs(j) * MaxTries \in Nat
    BY <2>1, LeftFinite, Product, EmailQueueAssumption
  <2>3. Runs(j) * MaxTries <= MaxRuns * MaxTries /\ MaxRuns * MaxTries \in Nat
    BY <2>1, EmailQueueAssumption DEF MaxRuns
  <2>4. QED
    BY <2>1, <2>2, <2>3
<1>4. QED
  BY <1>1, <1>2, <1>3, PTL DEF Spec
-----------------------------------------------------------------------------
(***************************************************************************)
(* The refinement of Delivery: what a run, its tries and its lock do is    *)
(* one of Delivery's steps for its job, or none.                           *)
(***************************************************************************)
\* A worker runs a job that was added.
FreshInv == \A w \in Workers : Running(w) => job[run[w].job].state # "none"

LEMMA InitFresh == Init => FreshInv
  BY DEF Init, FreshInv, Running, Idle

LEMMA NextFresh ==
    ASSUME TInv, FreshInv, [Next]_vars
    PROVE  FreshInv'
<1>1. \A j \in Jobs : job[j].state # "none" => job'[j].state # "none"
  <2>1. ASSUME NEW j \in Jobs, Add(j) \/ Promote(j) \/ Stall(j)
        PROVE  \A i \in Jobs : job[i].state # "none" => job'[i].state # "none"
    <3>1. \A i \in Jobs \ {j} : job'[i] = job[i]
      BY <2>1 DEF Add, Promote, Stall, TInv, TypeOK
    <3>2. job'[j].state \in {"wait", "failed"}
      BY <2>1 DEF Add, Promote, Stall, TInv, TypeOK
    <3>3. QED
      BY <3>1, <3>2
  <2>2. ASSUME NEW w \in Workers, NEW j \in Jobs, Take(w, j)
        PROVE  \A i \in Jobs : job[i].state # "none" => job'[i].state # "none"
    BY <2>2 DEF Take, TInv, TypeOK
  <2>3. ASSUME NEW w \in Workers, Complete(w) \/ Throw(w)
        PROVE  \A i \in Jobs : job[i].state # "none" => job'[i].state # "none"
    BY <2>3 DEF Complete, Throw, TInv, TypeOK
  <2>4. ASSUME job' = job
        PROVE  \A i \in Jobs : job[i].state # "none" => job'[i].state # "none"
    BY <2>4
  <2>5. QED
    BY <2>1, <2>2, <2>3, <2>4 DEF Next, vars, SendOk, SendFails, Wake, Die
<1>2. ASSUME NEW w \in Workers, NEW j \in Jobs, Take(w, j)
      PROVE  FreshInv'
  <2>1. /\ run'[w].job = j /\ job'[j].state = "active"
        /\ \A v \in Workers \ {w} : run'[v] = run[v]
    BY <1>2 DEF Take, TInv, TypeOK
  <2>2. QED
    BY <1>1, <2>1 DEF FreshInv, Running, TInv, RunInv
<1>3. ASSUME \A w \in Workers : Running(w)' => Running(w) /\ run'[w].job = run[w].job
      PROVE  FreshInv'
  BY <1>1, <1>3 DEF FreshInv, TInv, RunInv
<1>4. ASSUME NEW w \in Workers, SendOk(w) \/ SendFails(w) \/ Wake(w)
      PROVE  FreshInv'
  <2>1. \A v \in Workers : v # w => run'[v] = run[v]
    BY <1>4 DEF SendOk, SendFails, Wake, TInv, TypeOK
  <2>2. run[w].pc # "idle" /\ run'[w].job = run[w].job
    BY <1>4 DEF SendOk, SendFails, Wake, TInv, TypeOK
  <2>3. \A v \in Workers : Running(v)' => Running(v) /\ run'[v].job = run[v].job
    BY <2>1, <2>2 DEF Running
  <2>4. QED
    BY <1>3, <2>3
<1>5. ASSUME NEW w \in Workers, Complete(w) \/ Throw(w) \/ Die(w)
      PROVE  FreshInv'
  <2>1. run' = [run EXCEPT ![w] = Idle]
    BY <1>5 DEF Complete, Throw, Die
  <2>2. QED
    BY <1>3, <2>1 DEF Idle, Running, TInv, TypeOK
<1>6. ASSUME run' = run
      PROVE  FreshInv'
  BY <1>3, <1>6 DEF Running
<1>7. QED
  BY <1>2, <1>4, <1>5, <1>6 DEF Next, vars, Add, Promote, Stall

LEMMA InitDelivery == Init => Promise!Init
  BY DEF Init, Promise!Init, Outcome

LEMMA Unseen ==
    ASSUME \A j \in Jobs : /\ Outcome(job'[j].state) = Outcome(job[j].state)
                           /\ mails'[j].acked = mails[j].acked
                           /\ job'[j].stalled = job[j].stalled
    PROVE  UNCHANGED Promise!vars
  BY DEF Promise!vars

\* One job has another outcome.
LEMMA Turns ==
    ASSUME NEW j \in Jobs, NEW s,
           \A i \in Jobs : Outcome(job'[i].state) = IF i = j THEN s ELSE Outcome(job[i].state)
    PROVE  [i \in Jobs |-> Outcome(job'[i].state)] =
             [[i \in Jobs |-> Outcome(job[i].state)] EXCEPT ![j] = s]
  OBVIOUS

\* The job j ends.
LEMMA Ends ==
    ASSUME TInv, NEW j \in Jobs, NEW s \in {"completed", "failed"}, mails' = mails,
           job' = [job EXCEPT ![j].state = s, ![j].made = @ + 1, ![j].lock = None]
    PROVE  /\ [i \in Jobs |-> Outcome(job'[i].state)] =
                 [[i \in Jobs |-> Outcome(job[i].state)] EXCEPT ![j] = s]
           /\ UNCHANGED <<[i \in Jobs |-> mails[i].acked], [i \in Jobs |-> job[i].stalled]>>
<1>1. \A i \in Jobs : /\ job'[i].state = IF i = j THEN s ELSE job[i].state
                      /\ job'[i].stalled = job[i].stalled
  BY DEF TInv, TypeOK
<1>2. Outcome(s) = s
  BY DEF Outcome
<1>3. [i \in Jobs |-> Outcome(job'[i].state)] =
        [[i \in Jobs |-> Outcome(job[i].state)] EXCEPT ![j] = s]
  <2>1. \A i \in Jobs : Outcome(job'[i].state) = IF i = j THEN s ELSE Outcome(job[i].state)
    <3> SUFFICES ASSUME NEW i \in Jobs
                 PROVE  Outcome(job'[i].state) = IF i = j THEN s ELSE Outcome(job[i].state)
      OBVIOUS
    <3>1. CASE i = j
      <4>1. job'[i].state = s
        BY <1>1, <3>1
      <4>2. QED
        BY <1>2, <3>1, <4>1
    <3>2. CASE i # j
      <4>1. job'[i].state = job[i].state
        BY <1>1, <3>2
      <4>2. QED
        BY <3>2, <4>1
    <3>3. QED
      BY <3>1, <3>2
  <2>2. QED
    BY <2>1, Turns
<1>4. [i \in Jobs |-> job'[i].stalled] = [i \in Jobs |-> job[i].stalled]
  BY <1>1
<1>5. QED
  BY <1>3, <1>4

LEMMA DeliveryStep ==
    ASSUME TInv, SentInv, FreshInv, AckedInv, AckedInv', [Next]_vars
    PROVE  [Promise!Next]_(Promise!vars)
<1> USE EmailQueueAssumption
<1>1. ASSUME NEW j \in Jobs, Add(j)
      PROVE  Promise!Begin(j)
  <2>1. \A i \in Jobs : /\ job'[i].state = IF i = j THEN "wait" ELSE job[i].state
                        /\ job'[i].stalled = job[i].stalled
    BY <1>1 DEF Add, TInv, TypeOK
  <2>2. job[j].state = "none" /\ mails' = mails
    BY <1>1 DEF Add
  <2>3. [i \in Jobs |-> Outcome(job'[i].state)] =
          [[i \in Jobs |-> Outcome(job[i].state)] EXCEPT ![j] = "pending"]
    BY <2>1 DEF Outcome
  <2>4. QED
    BY <2>1, <2>2, <2>3 DEF Promise!Begin, Outcome
<1>2. ASSUME NEW j \in Jobs, Promote(j)
      PROVE  UNCHANGED Promise!vars
  BY <1>2, Unseen DEF Promote, Outcome, TInv, TypeOK
<1>3. ASSUME NEW j \in Jobs, NEW w \in Workers, Take(w, j)
      PROVE  UNCHANGED Promise!vars
  BY <1>3, Unseen DEF Take, Outcome, TInv, TypeOK
<1>4. ASSUME NEW j \in Jobs, Stall(j)
      PROVE  Promise!TakeAway(j)
  <2>1. /\ job[j].state = "active" /\ mails' = mails
        /\ \A i \in Jobs \ {j} : job'[i] = job[i]
        /\ job'[j].stalled = job[j].stalled + 1 /\ job'[j].state \in {"wait", "failed"}
    BY <1>4 DEF Stall, TInv, TypeOK
  <2>2. [i \in Jobs |-> job'[i].stalled] =
          [[i \in Jobs |-> job[i].stalled] EXCEPT ![j] = @ + 1]
    BY <2>1
  <2>3. \/ [i \in Jobs |-> Outcome(job'[i].state)] = [i \in Jobs |-> Outcome(job[i].state)]
        \/ [i \in Jobs |-> Outcome(job'[i].state)] =
             [[i \in Jobs |-> Outcome(job[i].state)] EXCEPT ![j] = "failed"]
    BY <2>1 DEF Outcome
  <2>4. QED
    BY <2>1, <2>2, <2>3 DEF Promise!TakeAway, Promise!Pending, Outcome
<1>5. ASSUME NEW w \in Workers, SendOk(w)
      PROVE  \E j \in Jobs : Promise!Accept(j)
  <2>1. PICK j \in Jobs :
          /\ j = run[w].job /\ j \in WelcomeJobs /\ job' = job
          /\ mails' = [mails EXCEPT ![j] = [calls |-> @.calls + 1, acked |-> @.acked + 1]]
    BY <1>5 DEF SendOk, TInv, RunInv, Running
  <2>2. /\ \A i \in Jobs : mails'[i].acked = IF i = j THEN mails[j].acked + 1 ELSE mails[i].acked
        /\ mails[j].acked \in Nat /\ job[j].stalled \in Nat
    BY <2>1 DEF TInv, TypeOK
  <2>3. mails[j].acked < job[j].stalled + (IF job[j].state = "failed" THEN 0 ELSE 1)
    <3>1. Cardinality(Stale(j)') \in Nat
      <4>1. IsFiniteSet(Stale(j)')
        BY FS_Subset DEF Stale
      <4>2. QED
        BY <4>1, FS_CardinalityType
    <3>2. mails'[j].acked + Cardinality(Stale(j)')
            <= job'[j].stalled + (IF Settled(j)' THEN 1 ELSE 0)
      BY DEF AckedInv
    <3>3. job[j].state = "failed" => ~Settled(j)'
      BY <2>1 DEF Settled
    <3>4. QED
      BY <2>1, <2>2, <3>1, <3>2, <3>3
  <2>4. Outcome(job[j].state) # "none"
    BY <1>5, <2>1 DEF SendOk, FreshInv, Running, Outcome
  <2>5. [i \in Jobs |-> mails'[i].acked] = [[i \in Jobs |-> mails[i].acked] EXCEPT ![j] = @ + 1]
    BY <2>2
  <2>6. Outcome(job[j].state) = "failed" <=> job[j].state = "failed"
    BY DEF Outcome
  <2>7. Promise!Accept(j)
    BY <2>1, <2>3, <2>4, <2>5, <2>6 DEF Promise!Accept
  <2>8. QED
    BY <2>7
<1>6. ASSUME NEW w \in Workers, SendFails(w) \/ Wake(w) \/ Die(w)
      PROVE  UNCHANGED Promise!vars
  <2>1. run[w].pc = "send" => run[w].job \in Jobs
    BY DEF TInv, RunInv, Running
  <2>2. job' = job /\ \A j \in Jobs : mails'[j].acked = mails[j].acked
    BY <1>6, <2>1 DEF SendFails, Wake, Die, TInv, TypeOK
  <2>3. QED
    BY <2>2, Unseen
<1>7. ASSUME NEW w \in Workers, Complete(w)
      PROVE  Promise!Complete(run[w].job) \/ UNCHANGED Promise!vars
  <2> DEFINE j == run[w].job
  <2>1. /\ j \in Jobs /\ mails' = mails
        /\ j \in WelcomeJobs => mails[j].acked > 0
    BY <1>7 DEF Complete, TInv, RunInv, Running, SentInv
  <2>2. CASE job[j].lock # w
    BY <1>7, <2>1, <2>2, Unseen DEF Complete
  <2>3. CASE job[j].lock = w
    <3>1. job' = [job EXCEPT ![j].state = "completed", ![j].made = @ + 1, ![j].lock = None]
      BY <1>7, <2>3 DEF Complete
    <3>2. job[j].state = "active"
      BY <2>1, <2>3 DEF TInv, JobInv
    <3>3. QED
      BY <2>1, <3>1, <3>2, Ends DEF Promise!Complete, Promise!Pending, Outcome
  <2>4. QED
    BY <2>2, <2>3
<1>8. ASSUME NEW w \in Workers, Throw(w)
      PROVE  Promise!GiveUp(run[w].job) \/ UNCHANGED Promise!vars
  <2> DEFINE j == run[w].job
  <2>1. j \in Jobs /\ mails' = mails /\ run[w].pc = "throw"
    BY <1>8 DEF Throw, TInv, RunInv, Running
  <2>2. CASE job[j].lock # w
    BY <1>8, <2>1, <2>2, Unseen DEF Throw
  <2>3. CASE job[j].lock = w
    <3>1. job[j].state = "active"
      BY <2>1, <2>3 DEF TInv, JobInv
    <3>2. mails[j].acked <= job[j].stalled
      <4>1. ~Settled(j)
        BY <2>1, <2>3, <3>1 DEF Settled, Unsent
      <4>2. /\ Cardinality(Stale(j)) \in Nat /\ mails[j].acked \in Nat
            /\ job[j].stalled \in Nat
        BY <2>1, StaleFinite DEF TInv, TypeOK
      <4>3. mails[j].acked + Cardinality(Stale(j)) <= job[j].stalled
        BY <2>1, <4>1, <4>2 DEF AckedInv
      <4>4. QED
        BY <4>2, <4>3
    <3>3. CASE LastRun(job[j].made)
      <4>1. job' = [job EXCEPT ![j].state = "failed", ![j].made = @ + 1, ![j].lock = None]
        BY <1>8, <2>3, <3>3 DEF Throw
      <4>2. QED
        BY <2>1, <3>1, <3>2, <4>1, Ends DEF Promise!GiveUp, Promise!Pending, Outcome
    <3>4. CASE ~LastRun(job[j].made)
      <4>1. \A i \in Jobs : /\ job'[i].state = IF i = j THEN "delayed" ELSE job[i].state
                            /\ job'[i].stalled = job[i].stalled
        BY <1>8, <2>1, <2>3, <3>4 DEF Throw, TInv, TypeOK
      <4>2. QED
        BY <2>1, <3>1, <4>1, Unseen DEF Outcome
    <3>5. QED
      BY <3>3, <3>4
  <2>4. QED
    BY <2>2, <2>3
<1>9. ASSUME UNCHANGED vars
      PROVE  UNCHANGED Promise!vars
  BY <1>9, Unseen DEF vars
<1>10. Promise!Next \/ UNCHANGED Promise!vars
  <2>1. ASSUME NEW j \in Jobs, Add(j) \/ Promote(j) \/ Stall(j)
        PROVE  Promise!Next \/ UNCHANGED Promise!vars
    BY <1>1, <1>2, <1>4, <2>1 DEF Promise!Next
  <2>2. ASSUME NEW w \in Workers, SendOk(w)
        PROVE  Promise!Next
    BY <1>5, <2>2 DEF Promise!Next
  <2>3. ASSUME NEW w \in Workers, Complete(w) \/ Throw(w)
        PROVE  Promise!Next \/ UNCHANGED Promise!vars
    <3>1. run[w].job \in Jobs
      BY <2>3 DEF Complete, Throw, TInv, RunInv, Running
    <3>2. QED
      BY <1>7, <1>8, <2>3, <3>1 DEF Promise!Next
  <2>4. QED
    BY <1>3, <1>6, <1>9, <2>1, <2>2, <2>3 DEF Next
<1>11. QED
  BY <1>10

\* Retries, lost locks and dying workers amount to a delivery that costs at most
\* one email more for each time the job was taken away, for any number of workers.
THEOREM DeliveryIsKept == Spec => KeepsDelivery
<1> DEFINE DInv == TInv /\ SentInv /\ FreshInv /\ AckedInv
<1>1. Init => DInv
  BY InitT, InitSent, InitFresh, InitAcked
<1>2. DInv /\ [Next]_vars => DInv'
  BY NextT, NextSent, NextFresh, NextAcked
<1>3. DInv /\ DInv' /\ [Next]_vars => [Promise!Next]_(Promise!vars)
  BY DeliveryStep
<1>4. QED
  BY <1>1, <1>2, <1>3, InitDelivery, PTL DEF Spec, KeepsDelivery, Promise!Spec
=============================================================================
