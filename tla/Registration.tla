---------------------------- MODULE Registration ----------------------------
(***************************************************************************)
(* POST /auth/register: AuthService.register, the Postgres transaction it  *)
(* opens, and the welcome-email job it adds to the queue without waiting.  *)
(*                                                                         *)
(* The check for an existing account (findByEmail) and the INSERT are two  *)
(* statements with a slow bcrypt hash between them, so registrations of    *)
(* one address overlap; what keeps addresses apart is the unique index.    *)
(* An INSERT whose key another open transaction has inserted waits for     *)
(* that transaction: here its action is not enabled meanwhile.             *)
(***************************************************************************)
EXTENDS Naturals

CONSTANTS
    Attempts,  \* calls of POST /auth/register; a row's id is that of its call
    SeedRuns,  \* runs of the seed script, which adds accounts too (module Seed)
    Emails,    \* addresses
    DbFails,   \* whether a statement, a COMMIT, or the process, may fail
    None       \* no row, no address

ASSUME RegistrationAssumption ==
    /\ None \notin Emails /\ DbFails \in BOOLEAN
    /\ None \notin [id : Attempts \cup SeedRuns, email : Emails, hash : BOOLEAN]

VARIABLES
    table,  \* the committed rows of users: id, email, has a refresh-token hash
    tx,     \* tx[a]: the uncommitted row of a's transaction
    call,   \* call[a]: state of the call a
    mail    \* mail[a]: state of emailsQueue.add for the account of a

vars == <<table, tx, call, mail>>
-----------------------------------------------------------------------------
Taken(e) == \E row \in table : row.email = e

\* An open transaction other than a's has inserted the address e.
Pending(a, e) == \E b \in Attempts \ {a} : tx[b] # None /\ tx[b].email = e

Init ==
    /\ table = {}
    /\ tx = [a \in Attempts |-> None]
    /\ call = [a \in Attempts |-> [pc |-> "new", email |-> None]]
    /\ mail = [a \in Attempts |-> "none"]

Goto(a, pc) == call' = [call EXCEPT ![a].pc = pc]

\* usersService.findByEmail: an account that exists is a 409, otherwise the
\* password is hashed.
FindByEmail(a, e) ==
    /\ call[a].pc = "new"
    /\ call' = [call EXCEPT ![a] = [pc |-> IF Taken(e) THEN "conflict" ELSE "hashing",
                                    email |-> e]]
    /\ UNCHANGED <<table, tx, mail>>

\* manager.save(user): the INSERT, in a new transaction.  The mutants: a column
\* without a unique index, and an INSERT outside the transaction.
Insert_NoIndex(a) ==
    /\ call[a].pc = "hashing"
    /\ tx' = [tx EXCEPT ![a] = [id |-> a, email |-> call[a].email, hash |-> FALSE]]
    /\ Goto(a, "inserted")
    /\ UNCHANGED <<table, mail>>
Insert_Autocommit(a) ==
    /\ call[a].pc = "hashing"
    /\ ~Taken(call[a].email) /\ ~Pending(a, call[a].email)
    /\ tx' = [tx EXCEPT ![a] = [id |-> a, email |-> call[a].email, hash |-> FALSE]]
    /\ table' = table \cup {tx'[a]}
    /\ Goto(a, "inserted")
    /\ UNCHANGED mail
Insert(a) ==
    /\ call[a].pc = "hashing"
    /\ ~Taken(call[a].email) /\ ~Pending(a, call[a].email)
    /\ tx' = [tx EXCEPT ![a] = [id |-> a, email |-> call[a].email, hash |-> FALSE]]
    /\ Goto(a, "inserted")
    /\ UNCHANGED <<table, mail>>

\* The unique index refuses the row (23505): the transaction is rolled back and
\* HttpExceptionFilter answers 409.  The mutant does not wait for the other
\* transaction to end.
InsertRefused_NoWait(a) ==
    /\ call[a].pc = "hashing"
    /\ Taken(call[a].email) \/ Pending(a, call[a].email)
    /\ Goto(a, "conflict")
    /\ UNCHANGED <<table, tx, mail>>
InsertRefused(a) ==
    /\ call[a].pc = "hashing"
    /\ Taken(call[a].email)
    /\ Goto(a, "conflict")
    /\ UNCHANGED <<table, tx, mail>>

\* The pair is signed, its refresh token hashed, and the hash is set in the row
\* the transaction has inserted.
UpdateHash(a) ==
    /\ call[a].pc = "inserted"
    /\ tx' = [tx EXCEPT ![a].hash = TRUE]
    /\ Goto(a, "updated")
    /\ UNCHANGED <<table, mail>>

\* COMMIT.  The mutant answers without starting the job.
Commit_NoJob(a) ==
    /\ call[a].pc = "updated"
    /\ table' = table \cup {tx[a]}
    /\ tx' = [tx EXCEPT ![a] = None]
    /\ Goto(a, "returned")
    /\ UNCHANGED mail
Commit(a) ==
    /\ call[a].pc = "updated"
    /\ table' = table \cup {tx[a]}
    /\ tx' = [tx EXCEPT ![a] = None]
    /\ Goto(a, "committed")
    /\ UNCHANGED mail

\* COMMIT takes effect, but the connection or the process is gone before its
\* answer: a 500, or nothing at all, for an account that exists.
CommitUnanswered(a) ==
    /\ DbFails
    /\ call[a].pc = "updated"
    /\ table' = table \cup {tx[a]}
    /\ tx' = [tx EXCEPT ![a] = None]
    /\ Goto(a, "failed")
    /\ UNCHANGED mail

\* A statement fails or the connection or the process is gone: rolled back.
\* The mutant commits what the transaction has done so far.
Abort_Commits(a) ==
    /\ DbFails
    /\ call[a].pc \in {"hashing", "inserted", "updated"}
    /\ table' = IF tx[a] = None THEN table ELSE table \cup {tx[a]}
    /\ tx' = [tx EXCEPT ![a] = None]
    /\ Goto(a, "failed")
    /\ UNCHANGED mail
Abort(a) ==
    /\ DbFails
    /\ call[a].pc \in {"hashing", "inserted", "updated"}
    /\ tx' = [tx EXCEPT ![a] = None]
    /\ Goto(a, "failed")
    /\ UNCHANGED <<table, mail>>

\* The transaction has returned: the job's add is started and nobody waits for
\* it.  The mutant starts it as soon as the row is inserted.
StartAdd_Early(a) ==
    /\ call[a].pc \in {"inserted", "updated", "committed"} /\ mail[a] = "none"
    /\ mail' = [mail EXCEPT ![a] = "adding"]
    /\ call' = IF call[a].pc = "committed" THEN [call EXCEPT ![a].pc = "returned"] ELSE call
    /\ UNCHANGED <<table, tx>>
StartAdd(a) ==
    /\ call[a].pc = "committed"
    /\ mail' = [mail EXCEPT ![a] = "adding"]
    /\ Goto(a, "returned")
    /\ UNCHANGED <<table, tx>>

\* The client receives its 201 and the pair.  The mutant waits for the job.
Reply_AfterAdd(a) ==
    /\ call[a].pc = "returned" /\ mail[a] = "queued"
    /\ Goto(a, "replied")
    /\ UNCHANGED <<table, tx, mail>>
Reply(a) ==
    /\ call[a].pc = "returned"
    /\ Goto(a, "replied")
    /\ UNCHANGED <<table, tx, mail>>

\* The job is in the queue: before the answer, after it, or never, since a
\* failing add is only logged.
Added(a) ==
    /\ mail[a] = "adding"
    /\ mail' = [mail EXCEPT ![a] = "queued"]
    /\ UNCHANGED <<table, tx, call>>

AddFails(a) ==
    /\ mail[a] = "adding"
    /\ mail' = [mail EXCEPT ![a] = "lost"]
    /\ UNCHANGED <<table, tx, call>>

\* The process is gone after the COMMIT: no answer; an add that has not started
\* never will.
Crash(a) ==
    /\ DbFails
    /\ call[a].pc \in {"committed", "returned"}
    /\ Goto(a, "failed")
    /\ UNCHANGED <<table, tx, mail>>

Step(a) ==
    \/ \E e \in Emails : FindByEmail(a, e)
    \/ Insert(a) \/ InsertRefused(a) \/ UpdateHash(a)
    \/ Commit(a) \/ CommitUnanswered(a) \/ Abort(a) \/ Crash(a)
    \/ StartAdd(a) \/ Reply(a)

Next == \E a \in Attempts : Step(a) \/ Added(a) \/ AddFails(a)

Spec == Init /\ [][Next]_vars

\* Postgres answers, or the connection fails; the process runs on.  Nothing is
\* assumed of the queue.
Goes(a) == \/ Insert(a) \/ InsertRefused(a) \/ UpdateHash(a) \/ Commit(a)
           \/ StartAdd(a) \/ Reply(a)

FairSpec == Spec /\ \A a \in Attempts : WF_vars(Goes(a))
-----------------------------------------------------------------------------
Rows == [id : Attempts \cup SeedRuns, email : Emails, hash : BOOLEAN]
Done == {"replied", "conflict", "failed"}
Status == {"new", "hashing", "inserted", "updated", "committed", "returned"} \cup Done

TypeOK ==
    /\ table \subseteq Rows
    /\ tx \in [Attempts -> Rows \cup {None}]
    /\ call \in [Attempts -> [pc : Status, email : Emails \cup {None}]]
    /\ mail \in [Attempts -> {"none", "adding", "queued", "lost"}]

\* However registrations of one address overlap, one account has it: the gap
\* between findByEmail and the INSERT is closed by the index (user.entity.ts).
UniqueEmail == \A p, q \in table : p.email = q.email => p = q

\* No failure, at any statement, leaves an account without the hash of the
\* session it was registered with: "a partial failure cannot leave the row
\* without a valid session state" (auth.service.ts register).
NoHalfAccount == \A row \in table : row.id \in Attempts => row.hash

\* Whoever is told that the address is taken can rely on it: an account with
\* that address is there, whatever became of the registration it collided with.
ConflictJustified == \A a \in Attempts : call[a].pc = "conflict" => Taken(call[a].email)

\* No welcome email is promised to an account that a rollback takes back.
WelcomeOnlyCommitted ==
    \A a \in Attempts : mail[a] # "none" => \E row \in table : row.id = a

\* The only accounts that get no welcome email are those whose registration was
\* interrupted, or is about to go on, and those whose job Redis lost: a call
\* that was answered 201 has at least begun to add the job (auth.service.ts
\* register, which adds it after the COMMIT and without an outbox).
WelcomeBegun ==
    \A a \in Attempts : mail[a] = "none" /\ (\E row \in table : row.id = a)
        => call[a].pc \in {"committed", "failed"}

Told(pc) == CASE pc = "replied" -> "created" [] pc = "conflict" -> "taken"
              [] pc = "failed" -> "failed" [] OTHER -> None

Atomic == INSTANCE AtomicAccounts WITH
    Callers <- Attempts, Scripts <- SeedRuns, accounts <- table,
    wanted <- [a \in Attempts |-> call[a].email],
    told <- [a \in Attempts |-> Told(call[a].pc)]

\* A registration is atomic: its statements, the slow hashes between them, its
\* waiting for others and its failures at any of them amount to one step that
\* makes a whole account or none, and who is told that it failed gets no account
\* afterwards (auth.service.ts register, "a partial failure ... cannot leave the
\* row without a valid session state").
RegisterIsAtomic == Atomic!Spec

\* Every registration is answered, or fails, whatever the queue does and however
\* many transactions wait for one address.
RegisterAnswered == \A a \in Attempts : call[a].pc = "hashing" ~> call[a].pc \in Done
=============================================================================
