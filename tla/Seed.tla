-------------------------------- MODULE Seed --------------------------------
(***************************************************************************)
(* `npm run seed` (seed.ts), in the database the API is serving: runs that *)
(* overlap, crash and are repeated, among registrations (Registration) of  *)
(* the same addresses.                                                     *)
(*                                                                         *)
(* A run is not one transaction: each repository.save is one of its own,   *)
(* three for the accounts and one for all four projects, and a run takes   *)
(* the first account for the sign that an earlier run did all of them.     *)
(***************************************************************************)
EXTENDS Registration, Sequences

CONSTANTS AdminEmail, AliceEmail, BobEmail  \* the addresses of the seed

ASSUME SeedAssumption ==
    /\ {AdminEmail, AliceEmail, BobEmail} \subseteq Emails
    /\ AdminEmail # AliceEmail /\ AdminEmail # BobEmail /\ AliceEmail # BobEmail
    /\ SeedRuns \cap Attempts = {}

VARIABLES
    seed,     \* seed[s]: state of the run s, and how many accounts it has saved
    projects  \* the runs whose four projects are in the table projects

seedVars == <<table, tx, call, mail, seed, projects>>
-----------------------------------------------------------------------------
\* In the order in which they are saved.
Accounts == <<AdminEmail, AliceEmail, BobEmail>>

SeedInit ==
    /\ Init
    /\ seed = [s \in SeedRuns |-> [pc |-> "new", saved |-> 0]]
    /\ projects = {}

\* userRepo.findOne of the administrator: it is there, and the run does nothing.
FindAdmin(s) ==
    /\ seed[s].pc = "new"
    /\ seed' = [seed EXCEPT ![s].pc = IF Taken(AdminEmail) THEN "skipped" ELSE "saving"]
    /\ UNCHANGED <<table, tx, call, mail, projects>>

\* The account the run saves next.
Saving(s) == seed[s].pc = "saving" /\ seed[s].saved < Len(Accounts)
Account(s) == [id |-> s, email |-> Accounts[seed[s].saved + 1], hash |-> FALSE]

\* The INSERT and the COMMIT of one userRepo.save, which waits for transactions
\* that have inserted the address.  The mutants: a column without a unique index,
\* and a save that keeps an account that is there already.
SaveUser_NoIndex(s) ==
    /\ Saving(s)
    /\ table' = table \cup {Account(s)}
    /\ UNCHANGED <<tx, call, mail, projects>>
SaveUser_OrKeep(s) ==
    /\ Saving(s)
    /\ \A a \in Attempts : tx[a] # None => tx[a].email # Account(s).email
    /\ table' = IF Taken(Account(s).email) THEN table ELSE table \cup {Account(s)}
    /\ UNCHANGED <<tx, call, mail, projects>>
SaveUser(s) ==
    /\ Saving(s)
    /\ \A a \in Attempts : tx[a] # None => tx[a].email # Account(s).email
    /\ ~Taken(Account(s).email)
    /\ table' = table \cup {Account(s)}
    /\ UNCHANGED <<tx, call, mail, projects>>

Saved(s) == SaveUser(s) /\ seed' = [seed EXCEPT ![s].saved = @ + 1]

\* The unique index refuses the account: the run exits.
SaveRefused(s) ==
    /\ Saving(s) /\ Taken(Account(s).email)
    /\ seed' = [seed EXCEPT ![s].pc = "failed"]
    /\ UNCHANGED <<table, tx, call, mail, projects>>

\* projectRepo.save of the four projects, in one transaction.
SaveProjects(s) ==
    /\ seed[s].pc = "saving" /\ seed[s].saved = Len(Accounts)
    /\ projects' = projects \cup {s}
    /\ UNCHANGED <<table, tx, call, mail>>

Seeded(s) == SaveProjects(s) /\ seed' = [seed EXCEPT ![s].pc = "seeded"]

\* A COMMIT takes effect, and the connection is gone before its answer.
Unanswered(s) ==
    /\ DbFails
    /\ SaveUser(s) \/ SaveProjects(s)
    /\ seed' = [seed EXCEPT ![s].pc = "failed"]

\* A statement fails, or the script is stopped: the transaction it is in is
\* rolled back, those before it are not.
SeedFails(s) ==
    /\ DbFails /\ seed[s].pc \in {"new", "saving"}
    /\ seed' = [seed EXCEPT ![s].pc = "failed"]
    /\ UNCHANGED <<table, tx, call, mail, projects>>

SeedStep(s) == FindAdmin(s) \/ Saved(s) \/ SaveRefused(s) \/ Seeded(s)

SeedNext ==
    \/ Next /\ UNCHANGED <<seed, projects>>
    \/ \E s \in SeedRuns : SeedStep(s) \/ Unanswered(s) \/ SeedFails(s)

SeedSpec == SeedInit /\ [][SeedNext]_seedVars

\* The fairness of Registration; a run of the seed goes on unless it fails.
SeedFairSpec ==
    /\ SeedSpec
    /\ \A a \in Attempts : WF_vars(Goes(a) /\ UNCHANGED <<seed, projects>>)
    /\ \A s \in SeedRuns : WF_seedVars(SeedStep(s))
-----------------------------------------------------------------------------
SeedTypeOK ==
    /\ TypeOK
    /\ seed \in [SeedRuns -> [pc : {"new", "saving", "seeded", "skipped", "failed"},
                              saved : 0..Len(Accounts)]]
    /\ projects \subseteq SeedRuns

\* The demo projects belong to the accounts their own run created: never to
\* somebody who registered alice's or bob's address meanwhile, never to an
\* account of another run (seed.ts, ownerId).
SeedWhole ==
    \A s \in projects, i \in DOMAIN Accounts :
      \E row \in table : row.id = s /\ row.email = Accounts[i]

\* "Idempotent": once the seed is complete, no run adds anything to it, those
\* included that found no administrator and were overtaken.
SeedRows == {row \in table : row.id \in SeedRuns}
SeedIdempotent == [][projects # {} => UNCHANGED <<projects, SeedRows>>]_seedVars

\* What a failed run leaves behind nobody completes: while its administrator is
\* there without projects, none are ever added ("make reset first to reseed").
Abandoned(s) ==
    /\ seed[s].pc = "failed" /\ s \notin projects
    /\ \E row \in table : row.id = s
AbandonedStays == [][(\E s \in SeedRuns : Abandoned(s)) => UNCHANGED projects]_seedVars

\* Registrations and runs of the seed wait for each other's inserts, but not for
\* ever: every registration is answered and every run of the seed ends.
SeedEnds == \A s \in SeedRuns :
    seed[s].pc = "saving" ~> seed[s].pc \in {"seeded", "failed"}
NobodyWaitsForever == RegisterAnswered /\ SeedEnds
=============================================================================
