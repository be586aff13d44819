--------------------------- MODULE IdempotentPosts ---------------------------
(***************************************************************************)
(* IdempotencyInterceptor around the two handlers it is wired to: POST     *)
(* /auth/register, which is Registration, and POST /projects, whose one    *)
(* INSERT nothing refuses.  A request a is the call a of Idempotency and,  *)
(* with a key of RegisterKeys, also the call a of Registration: the        *)
(* handler runs while the interceptor's call is "handling", its effect is  *)
(* the COMMIT, and what it returns is stored before it is answered.        *)
(*                                                                         *)
(* A key belongs to one client and one intention: it is used for           *)
(* registrations or for projects, and every registration here wants the    *)
(* same address, since those of different addresses do not meet.           *)
(***************************************************************************)
EXTENDS Idempotency

CONSTANTS
    RegisterKeys, \* the keys of registrations
    Address,      \* the address they register
    Plans         \* bound: the keys requests may have

ASSUME PostsAssumption ==
    /\ RegisterKeys \subseteq Keys /\ Plans \subseteq [Attempts -> Keys]
    /\ None # Address /\ None \notin [id : Attempts, email : {Address}, hash : BOOLEAN]

VARIABLES table, tx, reg, mail  \* Registration, whose call is reg

\* What fails is the process, Redis or Postgres.
Account == INSTANCE Registration WITH
               call <- reg, SeedRuns <- {}, Emails <- {Address}, DbFails <- RedisFails

accounts == <<table, tx, reg, mail>>
postVars == <<vars, accounts>>

Registers(a) == call[a].key \in RegisterKeys

PostInit == Init /\ Account!Init

\* claimOrReplay, before either handler.
Begins(a, k) ==
    /\ \E plan \in Plans : /\ plan[a] = k
                           /\ \A b \in Attempts : call[b].pc = "new" \/ call[b].key = plan[b]
    /\ Get(a, k)
Before(a) ==
    /\ (\E k \in Keys : Begins(a, k)) \/ Claim(a) \/ ClaimResent(a)
    /\ UNCHANGED accounts

\* ProjectsController.create: its INSERT commits or fails, and its result is
\* stored and answered or lost.
Project(a) ==
    /\ ~Registers(a) /\ UNCHANGED accounts
    /\ Commit(a) \/ Throw(a) \/ Store(a)
ProjectLost(a) ==
    /\ ~Registers(a) /\ UNCHANGED accounts
    /\ StoreUnanswered(a) \/ Fail(a)

\* AuthService.register up to its COMMIT, while nothing ends it.
Within(a) ==
    /\ Registers(a) /\ call[a].pc = "handling"
    /\ Account!FindByEmail(a, Address) \/ Account!Insert(a) \/ Account!UpdateHash(a)
    /\ reg'[a].pc # "conflict"
    /\ UNCHANGED vars

\* It throws: the address is taken, or the transaction is rolled back.  The
\* interceptor does not catch it, and the lock stays.
Throws(a) ==
    /\ Registers(a)
    /\ Account!FindByEmail(a, Address) \/ Account!InsertRefused(a) \/ Account!Abort(a)
    /\ reg'[a].pc \in {"conflict", "failed"}
    /\ Throw(a)

\* The account exists from here on.
Commits(a) == (Account!Commit(a) \/ Account!CommitUnanswered(a)) /\ Commit(a)

StartsAdd(a) == Account!StartAdd(a) /\ UNCHANGED vars

\* It returns its pair, and the interceptor stores it and answers.  The mutant
\* returns without waiting for the transaction.
Returns_Unawaited(a) ==
    /\ Registers(a) /\ call[a].pc = "handling" /\ reg[a].pc = "updated"
    /\ redis' = [redis EXCEPT ![call[a].key] = [val |-> a, ttl |-> ResultTtl]]
    /\ call' = [call EXCEPT ![a].pc = "replied", ![a].age = 0, ![a].result = a]
    /\ UNCHANGED <<ran, expired, accounts>>
Returns(a) == Account!Reply(a) /\ (Store(a) \/ StoreUnanswered(a))

\* The request dies: before the register handler has begun, or past the COMMIT.
Dies(a) ==
    /\ Registers(a)
    /\ \/ reg[a].pc \in {"new", "failed"} /\ UNCHANGED accounts
       \/ Account!Crash(a)
    /\ Fail(a)

\* The queue takes the welcome job, or does not, at any time.
Job(a) == (Account!Added(a) \/ Account!AddFails(a)) /\ UNCHANGED vars

Second == Tick /\ UNCHANGED accounts

PostNext ==
    \/ Second
    \/ \E a \in Attempts :
         \/ Before(a) \/ Project(a) \/ ProjectLost(a)
         \/ Within(a) \/ Throws(a) \/ Commits(a) \/ StartsAdd(a) \/ Returns(a)
         \/ Dies(a) \/ Job(a)

PostSpec == PostInit /\ [][PostNext]_postVars

\* Clocks run, and a handler that runs comes to an end, be it that of a lost
\* connection.
Goes(a) ==
    \/ Project(a) \/ Within(a) \/ Throws(a) \/ Commits(a) \/ StartsAdd(a) \/ Returns(a)
    \/ reg[a].pc = "failed" /\ Dies(a)
PostFairSpec ==
    /\ PostSpec /\ WF_postVars(Second)
    /\ \A a \in Attempts : WF_postVars(Goes(a))
-----------------------------------------------------------------------------
\* The calls that made the accounts.
Makers == {row.id : row \in table}

\* However registrations are repeated, whatever fails, and whichever results
\* and locks have expired: who is answered, at first or on a repetition, is
\* answered with the one account there is (README, "safe to retry POST/PATCH
\* without side effects").  Redis never remembers what Postgres took back, and
\* what Redis forgets the unique index remembers.
AnsweredWithTheAccount ==
    \A a \in Attempts : Registers(a) /\ call[a].pc = "replied" => Makers = {call[a].result}

\* A client is told that its address is in use by an account of its own only if
\* the request that made it died before it answered, or if its result has
\* expired (AuthService.register behind the interceptor).
OwnConflictExplained ==
    [][\A a \in Attempts : reg[a].pc # "conflict" /\ reg'[a].pc = "conflict" =>
         \A b \in Makers : call[b].key = call[a].key =>
             call[b].pc = "failed" \/ b \in expired]_postVars
=============================================================================
