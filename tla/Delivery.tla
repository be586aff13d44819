------------------------------ MODULE Delivery ------------------------------
(***************************************************************************)
(* What the queue promises of one email, with no tries, runs, locks or     *)
(* workers: the email of a job that is completed was accepted, that of one *)
(* that failed was not, and it was accepted once.  Each time the job was   *)
(* taken away from a worker may have cost one acceptance more, and nothing *)
(* else does.  Contract: the comments on the two levels of retry in        *)
(* EmailProcessor and on the job options in QueueModule.                   *)
(***************************************************************************)
EXTENDS Naturals

CONSTANTS Jobs,        \* jobs
          WelcomeJobs  \* those with an email

VARIABLES outcome,   \* outcome[j]: "none", "pending", "completed" or "failed"
          accepted,  \* accepted[j]: how often the provider accepted its email
          taken      \* taken[j]: how often it was taken away from a worker

vars == <<outcome, accepted, taken>>

Init ==
    /\ outcome = [j \in Jobs |-> "none"]
    /\ accepted = [j \in Jobs |-> 0]
    /\ taken = [j \in Jobs |-> 0]

Pending(j) == outcome[j] = "pending"

Begin(j) ==
    /\ outcome[j] = "none"
    /\ outcome' = [outcome EXCEPT ![j] = "pending"]
    /\ UNCHANGED <<accepted, taken>>

\* A worker that lost the job may have its email accepted after the outcome.
Accept(j) ==
    /\ j \in WelcomeJobs /\ outcome[j] # "none"
    /\ accepted[j] < taken[j] + (IF outcome[j] = "failed" THEN 0 ELSE 1)
    /\ accepted' = [accepted EXCEPT ![j] = @ + 1]
    /\ UNCHANGED <<outcome, taken>>

TakeAway(j) ==
    /\ Pending(j)
    /\ taken' = [taken EXCEPT ![j] = @ + 1]
    /\ outcome' \in {outcome, [outcome EXCEPT ![j] = "failed"]}
    /\ UNCHANGED accepted

Complete(j) ==
    /\ Pending(j) /\ (j \in WelcomeJobs => accepted[j] > 0)
    /\ outcome' = [outcome EXCEPT ![j] = "completed"]
    /\ UNCHANGED <<accepted, taken>>

GiveUp(j) ==
    /\ Pending(j) /\ accepted[j] <= taken[j]
    /\ outcome' = [outcome EXCEPT ![j] = "failed"]
    /\ UNCHANGED <<accepted, taken>>

Next ==
    \E j \in Jobs : Begin(j) \/ Accept(j) \/ TakeAway(j) \/ Complete(j) \/ GiveUp(j)

Spec == Init /\ [][Next]_vars
=============================================================================
