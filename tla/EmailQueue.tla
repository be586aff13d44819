----------------------------- MODULE EmailQueue -----------------------------
(***************************************************************************)
(* The queue "emails": EmailProcessor, the withRetry loop around the call  *)
(* of the email provider, and BullMQ as queue.module.ts configures it.     *)
(*                                                                         *)
(* Two levels of retry are nested: withRetry repeats a failing send within *)
(* one run of the processor, BullMQ runs the processor again after a run   *)
(* that threw.  BullMQ promises at least one run, not one: a worker that   *)
(* does not renew its lock in time loses the job to another worker and may *)
(* itself go on.  The provider is the stub simulateSend, which its comment *)
(* asks to replace; it is modelled as the call it stands for, which may    *)
(* fail.                                                                   *)
(***************************************************************************)
EXTENDS Naturals, FiniteSets

CONSTANTS
    Jobs,        \* jobs that are ever added
    WelcomeJobs, \* those whose name is welcome-email
    Workers,     \* runs at a time: concurrency (5) times processes
    MaxAttempts, \* defaultJobOptions.attempts
    MaxTries,    \* attempts passed to withRetry
    MaxStalled,  \* BullMQ's maxStalledCount (not configured: 1)
    None         \* no worker, no job

ASSUME EmailQueueAssumption ==
    /\ MaxAttempts \in Nat \ {0} /\ MaxTries \in Nat \ {0} /\ MaxStalled \in Nat
    /\ WelcomeJobs \subseteq Jobs
    /\ None \notin Workers /\ None \notin Jobs
    /\ IsFiniteSet(Workers)

VARIABLES
    job,   \* job[j]: state, attemptsMade, times stalled, worker with the lock
    run,   \* run[w]: what worker w is executing, and the try withRetry is in
    mails  \* history: mails[j]: calls of the provider and calls answered
           \* with success

vars == <<job, run, mails>>
-----------------------------------------------------------------------------
Idle == [pc |-> "idle", job |-> None, try |-> 0]

Init ==
    /\ job = [j \in Jobs |-> [state |-> "none", made |-> 0, stalled |-> 0, lock |-> None]]
    /\ run = [w \in Workers |-> Idle]
    /\ mails = [j \in Jobs |-> [calls |-> 0, acked |-> 0]]

\* emailsQueue.add.
Add(j) ==
    /\ job[j].state = "none"
    /\ job' = [job EXCEPT ![j].state = "wait"]
    /\ UNCHANGED <<run, mails>>

\* A worker takes the job and calls process, which dispatches on its name: an
\* unknown one is skipped with a warning.
Take(w, j) ==
    /\ run[w].pc = "idle" /\ job[j].state = "wait"
    /\ job' = [job EXCEPT ![j].state = "active", ![j].lock = w]
    /\ run' = [run EXCEPT ![w] = [pc |-> IF j \in WelcomeJobs THEN "send" ELSE "done",
                                  job |-> j, try |-> 1]]
    /\ UNCHANGED mails

\* The provider has sent the email and says so: withRetry returns.  The mutant
\* has lost the return: the loop goes on.
SendOk_NoReturn(w) ==
    /\ run[w].pc = "send"
    /\ mails' = [mails EXCEPT ![run[w].job] =
                   [calls |-> @.calls + 1, acked |-> @.acked + 1]]
    /\ run' = [run EXCEPT ![w].pc = IF run[w].try = MaxTries THEN "done" ELSE "sleep"]
    /\ UNCHANGED job
SendOk(w) ==
    /\ run[w].pc = "send"
    /\ mails' = [mails EXCEPT ![run[w].job] =
                   [calls |-> @.calls + 1, acked |-> @.acked + 1]]
    /\ run' = [run EXCEPT ![w].pc = "done"]
    /\ UNCHANGED job

\* The loop's answer to an error in try n.  The mutants: one try more, one
\* fewer, and a loop that ends without throwing lastError.
AfterError_More(n) == IF n > MaxTries THEN "throw" ELSE "sleep"
AfterError_Fewer(n) == IF n >= MaxTries - 1 THEN "throw" ELSE "sleep"
AfterError_NoThrow(n) == IF n = MaxTries THEN "done" ELSE "sleep"
AfterError(n) == IF n = MaxTries THEN "throw" ELSE "sleep"

\* The provider answers with an error, or not in time.
SendFails(w) ==
    /\ run[w].pc = "send"
    /\ mails' = [mails EXCEPT ![run[w].job].calls = @ + 1]
    /\ run' = [run EXCEPT ![w].pc = AfterError(run[w].try)]
    /\ UNCHANGED job

\* withRetry wakes up for the next try.  The mutant's sleep never resolves.
Wake_Never(w) == FALSE
Wake(w) ==
    /\ run[w].pc = "sleep"
    /\ run' = [run EXCEPT ![w].pc = "send", ![w].try = @ + 1]
    /\ UNCHANGED <<job, mails>>

\* process returns: the job is completed, unless its lock is another's by now.
Complete(w) ==
    /\ run[w].pc = "done"
    /\ job' = IF job[run[w].job].lock # w THEN job
              ELSE [job EXCEPT ![run[w].job].state = "completed", ![run[w].job].made = @ + 1,
                               ![run[w].job].lock = None]
    /\ run' = [run EXCEPT ![w] = Idle]
    /\ UNCHANGED mails

\* Whether the run that throws after `made` earlier ones was the last.
LastRun(made) == made + 1 >= MaxAttempts

\* process throws: the job waits for its backoff, or is failed.
Throw(w) ==
    LET j == run[w].job IN
    /\ run[w].pc = "throw"
    /\ job' = IF job[j].lock # w THEN job
              ELSE [job EXCEPT ![j].state = IF LastRun(job[j].made) THEN "failed" ELSE "delayed",
                               ![j].made = @ + 1, ![j].lock = None]
    /\ run' = [run EXCEPT ![w] = Idle]
    /\ UNCHANGED mails

\* The backoff is over.
Promote(j) ==
    /\ job[j].state = "delayed"
    /\ job' = [job EXCEPT ![j].state = "wait"]
    /\ UNCHANGED <<run, mails>>

\* The lock of an active job has expired: its worker is gone, or its event loop
\* was blocked.  The job waits again, or fails when it stalled too often.
Stall(j) ==
    /\ job[j].state = "active"
    /\ job' = [job EXCEPT ![j].stalled = @ + 1, ![j].lock = None,
                          ![j].state = IF job[j].stalled = MaxStalled THEN "failed" ELSE "wait"]
    /\ UNCHANGED <<run, mails>>

\* The process of a worker dies; another one takes its place.
Die(w) ==
    /\ run[w].pc # "idle"
    /\ run' = [run EXCEPT ![w] = Idle]
    /\ UNCHANGED <<job, mails>>

Abandoned(j) == job[j].state = "active" /\ run[job[j].lock].job # j

Next ==
    \/ \E j \in Jobs : Add(j) \/ Promote(j) \/ Stall(j)
    \/ \E w \in Workers :
         \/ \E j \in Jobs : Take(w, j)
         \/ SendOk(w) \/ SendFails(w) \/ Wake(w) \/ Complete(w) \/ Throw(w) \/ Die(w)

Spec == Init /\ [][Next]_vars

\* The provider answers one way or the other, timers fire, workers that live
\* take jobs, and BullMQ's check finds the job of a worker that is gone.
FairSpec ==
    /\ Spec
    /\ \A j \in Jobs : WF_vars(Promote(j)) /\ WF_vars(Abandoned(j) /\ Stall(j))
    /\ \A w \in Workers :
         WF_vars(SendOk(w) \/ SendFails(w) \/ Wake(w) \/ Complete(w) \/ Throw(w))
    /\ \A j \in Jobs : WF_vars(\E w \in Workers : Take(w, j))
-----------------------------------------------------------------------------
JobStates == {"none", "wait", "active", "delayed", "completed", "failed"}

\* Runs of one job: those that end, and those that stall.
MaxRuns == MaxAttempts + MaxStalled

TypeOK ==
    /\ job \in [Jobs -> [state : JobStates, made : 0..MaxAttempts,
                         stalled : 0..(MaxStalled + 1), lock : Workers \cup {None}]]
    /\ run \in [Workers -> [pc : {"idle", "send", "sleep", "done", "throw"},
                            job : Jobs \cup {None}, try : 0..MaxTries]]
    /\ mails \in [Jobs -> [calls : Nat, acked : Nat]]

\* The two levels of retry multiply, and that is all they do: no failure of the
\* provider or of a worker makes more calls for one job.
CallsBounded == \A j \in Jobs : mails[j].calls <= MaxRuns * MaxTries

\* A welcome email that is reported as completed was accepted by the provider.
CompletedMeansSent ==
    \A j \in WelcomeJobs : job[j].state = "completed" => mails[j].acked > 0

\* A job is given up only when every try of every run was used, unless it was
\* taken away from a worker or its worker died.
FailedMeansTried ==
    \A j \in Jobs : job[j].state = "failed" /\ job[j].stalled = 0 =>
        mails[j].calls = MaxAttempts * MaxTries

\* Retrying adds nothing to what was acknowledged: the provider accepts a second
\* email for one job only after the job was taken away from a worker, and one
\* more for each time it was.
AckedOnce == \A j \in Jobs : mails[j].acked <= 1 + job[j].stalled

Outcome(state) == IF state \in {"wait", "active", "delayed"} THEN "pending" ELSE state

Promise == INSTANCE Delivery WITH
    outcome <- [j \in Jobs |-> Outcome(job[j].state)],
    accepted <- [j \in Jobs |-> mails[j].acked],
    taken <- [j \in Jobs |-> job[j].stalled]

\* The two levels of retry, the locks that expire and the workers that die
\* amount to a delivery: a job that no worker lost is completed with one accepted
\* email or failed with none, and nothing is sent for it afterwards; what was
\* lost costs at most one email more, each time (email.processor.ts, "Two-level
\* retry").
KeepsDelivery == Promise!Spec

\* Every job that was added is completed or failed in the end, whatever the
\* provider answers and as long as workers do not die again and again.
Settles ==
    \A j \in Jobs : job[j].state = "wait" ~> job[j].state \in {"completed", "failed"}
=============================================================================
