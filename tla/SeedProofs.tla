----------------------------- MODULE SeedProofs -----------------------------
(***************************************************************************)
(* Proofs about Seed, for any number of registrations and of runs of the   *)
(* seed script in one database.                                            *)
(*                                                                         *)
(* What Registration guarantees holds among runs of the seed too, since a  *)
(* run adds no account whose address a row or a transaction has.  And the  *)
(* run that saved the administrator's address is the only one that gets    *)
(* past it, which makes the other accounts and the projects its own.       *)
(***************************************************************************)
EXTENDS Seed, RegistrationProofs

Progress == {"new", "saving", "seeded", "skipped", "failed"}

\* A run has saved what it says, and at most one account it did not hear of.
SavedInv ==
    /\ \A s \in SeedRuns, i \in 1..3 :
         i <= seed[s].saved => \E row \in table : row.id = s /\ row.email = Accounts[i]
    /\ \A row \in table :
         row.id \in SeedRuns =>
           /\ seed[row.id].pc \in {"saving", "seeded", "failed"}
           /\ \/ seed[row.id].saved > 0
              \/ seed[row.id].pc = "failed"
           /\ \E p \in table : p.id = row.id /\ p.email = AdminEmail

\* The projects come last.
ProjectsInv ==
    \A s \in SeedRuns :
      /\ s \in projects => seed[s].saved = 3 /\ seed[s].pc \in {"seeded", "failed"}
      /\ seed[s].pc = "seeded" => s \in projects
      /\ seed[s].pc = "new" => seed[s].saved = 0

SIInv == IInv /\ SeedTypeOK /\ SavedInv /\ ProjectsInv
-----------------------------------------------------------------------------
LEMMA Three ==
    /\ Len(Accounts) = 3
    /\ Accounts[1] = AdminEmail /\ Accounts[2] = AliceEmail /\ Accounts[3] = BobEmail
    /\ \A i \in 1..3 : Accounts[i] \in Emails
    /\ \A i, j \in 1..3 : Accounts[i] = Accounts[j] => i = j
  BY SeedAssumption DEF Accounts

LEMMA SeedInitEstablishes == SeedInit => SIInv
  BY InitEstablishes, Three
  DEF SeedInit, Init, SIInv, SeedTypeOK, IInv, SavedInv, ProjectsInv

\* What a run changes of its own state.
LEMMA SeedEffect ==
    ASSUME SIInv, NEW s \in SeedRuns, NEW pc \in Progress, seed' = [seed EXCEPT ![s].pc = pc]
    PROVE  /\ seed' \in [SeedRuns -> [pc : Progress, saved : 0..3]]
           /\ seed'[s].pc = pc /\ seed'[s].saved = seed[s].saved
           /\ \A t \in SeedRuns \ {s} : seed'[t] = seed[t]
  BY Three DEF SIInv, SeedTypeOK, Progress

\* Registration's invariant does not mind a new account of a run.
LEMMA AccountAdded ==
    ASSUME SIInv, NEW s \in SeedRuns, SaveUser(s)
    PROVE  /\ IInv' /\ Account(s).id = s /\ Account(s).email = Accounts[seed[s].saved + 1]
           /\ seed[s].saved + 1 \in 1..3
  <1>1. seed[s].saved \in 0..2 /\ seed[s].saved + 1 \in 1..3
    BY Three DEF SIInv, SeedTypeOK, SaveUser, Saving
  <1> DEFINE row == Account(s)
  <1>2. /\ row.id = s /\ row.email = Accounts[seed[s].saved + 1] /\ row.email \in Emails
        /\ row \in Rows /\ s \notin Attempts
    BY <1>1, Three, SeedAssumption DEF Account, Rows
  <1>3. /\ table' = table \cup {row} /\ UNCHANGED <<tx, call, mail>>
        /\ ~Taken(row.email) /\ \A a \in Attempts : tx[a] # None => tx[a].email # row.email
    BY DEF SaveUser
  <1> HIDE DEF row
  <1>4. TypeOK' /\ TxInv'
    BY <1>2, <1>3 DEF SIInv, IInv, TypeOK, TxInv
  <1>5. KeyInv'
    BY <1>2, <1>3 DEF SIInv, IInv, KeyInv, UniqueEmail, Taken
  <1>6. NoHalfAccount' /\ ConflictJustified' /\ CommittedInv' /\ BegunInv'
    BY <1>2, <1>3 DEF SIInv, IInv, NoHalfAccount, ConflictJustified, CommittedInv, BegunInv, Taken
  <1> QED  BY <1>1, <1>2, <1>4, <1>5, <1>6 DEF IInv, row

\* A step that leaves the table users alone.
LEMMA TableKept ==
    ASSUME SIInv, UNCHANGED <<table, tx, call, mail>> PROVE IInv'
  BY DEF SIInv, IInv, TypeOK, TxInv, KeyInv, NoHalfAccount, ConflictJustified, CommittedInv,
         BegunInv, UniqueEmail, Taken

LEMMA FindAdminStep == ASSUME SIInv, NEW s \in SeedRuns, FindAdmin(s) PROVE SIInv'
  <1>1. IInv'
    BY TableKept DEF FindAdmin
  <1>2. PICK pc \in {"skipped", "saving"} :
          seed' = [seed EXCEPT ![s].pc = pc]
    BY DEF FindAdmin
  <1>3. seed[s].pc = "new" /\ table' = table /\ projects' = projects /\ pc \in Progress
    BY <1>2 DEF FindAdmin, Progress
  <1>4. /\ seed' \in [SeedRuns -> [pc : Progress, saved : 0..3]]
        /\ seed'[s].pc = pc /\ seed'[s].saved = seed[s].saved
        /\ \A t \in SeedRuns \ {s} : seed'[t] = seed[t]
    BY <1>2, <1>3, SeedEffect
  <1>5. SeedTypeOK'
    BY <1>1, <1>3, <1>4, Three DEF SIInv, SeedTypeOK, IInv, Progress
  <1>6. SavedInv'
    BY <1>3, <1>4 DEF SIInv, SavedInv
  <1>7. ProjectsInv'
    BY <1>2, <1>3, <1>4 DEF SIInv, ProjectsInv
  <1> QED  BY <1>1, <1>5, <1>6, <1>7 DEF SIInv

\* An account is saved, and the run hears of it or not.
LEMMA SaveUserStep ==
    ASSUME SIInv, NEW s \in SeedRuns, SaveUser(s),
           \/ seed' = [seed EXCEPT ![s].saved = @ + 1]
           \/ seed' = [seed EXCEPT ![s].pc = "failed"]
    PROVE  SIInv'
  <1> DEFINE n == seed[s].saved
             row == Account(s)
  <1>1. /\ IInv' /\ row.id = s /\ row.email = Accounts[n + 1] /\ n + 1 \in 1..3
    BY AccountAdded
  <1>2. /\ seed \in [SeedRuns -> [pc : Progress, saved : 0..3]] /\ n \in 0..3
        /\ seed[s].pc = "saving" /\ table' = table \cup {row} /\ projects' = projects
    BY Three DEF SIInv, SeedTypeOK, Progress, SaveUser, Saving
  <1>3. /\ seed' \in [SeedRuns -> [pc : Progress, saved : 0..3]]
        /\ \A t \in SeedRuns \ {s} : seed'[t] = seed[t]
        /\ \/ seed'[s].pc = "saving" /\ seed'[s].saved = n + 1
           \/ seed'[s].pc = "failed" /\ seed'[s].saved = n
    <2>1. CASE seed' = [seed EXCEPT ![s].saved = @ + 1]
      <3>1. n + 1 \in 0..3
        BY <1>1
      <3> QED  BY <1>2, <2>1, <3>1
    <2>2. CASE seed' = [seed EXCEPT ![s].pc = "failed"]
      BY <1>2, <2>2 DEF Progress
    <2> QED  BY <2>1, <2>2
  <1> HIDE DEF n, row
  <1>4. SeedTypeOK'
    BY <1>1, <1>2, <1>3, Three DEF SIInv, SeedTypeOK, IInv, Progress
  <1>5. \E p \in table' : p.id = s /\ p.email = AdminEmail
    <2>1. CASE n = 0
      BY <1>1, <1>2, <2>1, Three
    <2>2. CASE n # 0
      BY <1>2, <2>2, Three DEF SIInv, SavedInv, n
    <2> QED  BY <2>1, <2>2
  <1>6. SavedInv'
    <2>1. \A t \in SeedRuns, i \in 1..3 :
            i <= seed'[t].saved => \E p \in table' : p.id = t /\ p.email = Accounts[i]
      <3> SUFFICES ASSUME NEW t \in SeedRuns, NEW i \in 1..3, i <= seed'[t].saved
                   PROVE  \E p \in table' : p.id = t /\ p.email = Accounts[i]
        OBVIOUS
      <3>1. CASE i <= seed[t].saved
        BY <1>2, <3>1 DEF SIInv, SavedInv
      <3>2. CASE ~(i <= seed[t].saved)
        <4>1. t = s /\ i = n + 1
          BY <1>2, <1>3, <3>2 DEF n
        <4> QED  BY <1>1, <1>2, <4>1
      <3> QED  BY <3>1, <3>2
    <2>2. \A q \in table' :
            q.id \in SeedRuns =>
              /\ seed'[q.id].pc \in {"saving", "seeded", "failed"}
              /\ seed'[q.id].saved > 0 \/ seed'[q.id].pc = "failed"
              /\ \E p \in table' : p.id = q.id /\ p.email = AdminEmail
      <3> SUFFICES ASSUME NEW q \in table', q.id \in SeedRuns
                   PROVE  /\ seed'[q.id].pc \in {"saving", "seeded", "failed"}
                          /\ seed'[q.id].saved > 0 \/ seed'[q.id].pc = "failed"
                          /\ \E p \in table' : p.id = q.id /\ p.email = AdminEmail
        OBVIOUS
      <3>1. CASE q.id = s
        BY <1>2, <1>3, <1>5, <3>1
      <3>2. CASE q.id # s
        <4>1. q \in table /\ seed'[q.id] = seed[q.id]
          BY <1>1, <1>2, <1>3, <3>2
        <4> QED  BY <1>2, <4>1 DEF SIInv, SavedInv
      <3> QED  BY <3>1, <3>2
    <2> QED  BY <2>1, <2>2 DEF SavedInv
  <1>7. ProjectsInv'
    BY <1>2, <1>3 DEF SIInv, ProjectsInv
  <1> QED  BY <1>1, <1>4, <1>6, <1>7 DEF SIInv

\* The projects are saved, and the run hears of it or not.
LEMMA SaveProjectsStep ==
    ASSUME SIInv, NEW s \in SeedRuns, SaveProjects(s), NEW pc \in {"seeded", "failed"},
           seed' = [seed EXCEPT ![s].pc = pc]
    PROVE  SIInv'
  <1>1. IInv'
    BY TableKept DEF SaveProjects
  <1>2. /\ seed[s].pc = "saving" /\ seed[s].saved = 3 /\ table' = table
        /\ projects' = projects \cup {s} /\ pc \in Progress
    BY Three DEF SaveProjects, Progress
  <1>3. /\ seed' \in [SeedRuns -> [pc : Progress, saved : 0..3]]
        /\ seed'[s].pc = pc /\ seed'[s].saved = seed[s].saved
        /\ \A t \in SeedRuns \ {s} : seed'[t] = seed[t]
    BY <1>2, SeedEffect
  <1>4. SeedTypeOK'
    BY <1>1, <1>2, <1>3, Three DEF SIInv, SeedTypeOK, IInv, Progress
  <1>5. SavedInv'
    BY <1>2, <1>3 DEF SIInv, SavedInv
  <1>6. ProjectsInv'
    BY <1>2, <1>3 DEF SIInv, ProjectsInv
  <1> QED  BY <1>1, <1>4, <1>5, <1>6 DEF SIInv

LEMMA FailStep ==
    ASSUME SIInv, NEW s \in SeedRuns, SaveRefused(s) \/ SeedFails(s) PROVE SIInv'
  <1>1. IInv'
    BY TableKept DEF SaveRefused, SeedFails
  <1>2. /\ seed[s].pc \in {"new", "saving"} /\ table' = table /\ projects' = projects
        /\ seed' = [seed EXCEPT ![s].pc = "failed"] /\ "failed" \in Progress
    BY DEF SaveRefused, SeedFails, Saving, Progress
  <1>3. /\ seed' \in [SeedRuns -> [pc : Progress, saved : 0..3]]
        /\ seed'[s].pc = "failed" /\ seed'[s].saved = seed[s].saved
        /\ \A t \in SeedRuns \ {s} : seed'[t] = seed[t]
    BY <1>2, SeedEffect
  <1>4. SeedTypeOK'
    BY <1>1, <1>2, <1>3, Three DEF SIInv, SeedTypeOK, IInv, Progress
  <1>5. SavedInv'
    BY <1>2, <1>3 DEF SIInv, SavedInv
  <1>6. ProjectsInv'
    BY <1>2, <1>3 DEF SIInv, ProjectsInv
  <1> QED  BY <1>1, <1>4, <1>5, <1>6 DEF SIInv

\* A registration's row is not a run's.
LEMMA RegistrationStep == ASSUME SIInv, Next, UNCHANGED <<seed, projects>> PROVE SIInv'
  <1>1. IInv'
    BY NextPreserves DEF SIInv
  <1>2. table \subseteq table' /\ \A row \in table' \ table : row.id \in Attempts
    BY DEF Next, Step, FindByEmail, Insert, InsertRefused, UpdateHash, Commit, CommitUnanswered,
           Abort, Crash, StartAdd, Reply, Added, AddFails, SIInv, IInv, TypeOK, TxInv
  <1>3. SeedTypeOK' /\ ProjectsInv'
    BY <1>1 DEF SIInv, SeedTypeOK, IInv, ProjectsInv
  <1>4. SavedInv'
    BY <1>2, SeedAssumption DEF SIInv, SavedInv
  <1> QED  BY <1>1, <1>3, <1>4 DEF SIInv

LEMMA SeedPreserves == SIInv /\ [SeedNext]_seedVars => SIInv'
  <1> SUFFICES ASSUME SIInv, [SeedNext]_seedVars PROVE SIInv'
    OBVIOUS
  <1>1. CASE Next /\ UNCHANGED <<seed, projects>>
    BY <1>1, RegistrationStep
  <1>2. ASSUME NEW s \in SeedRuns, SeedStep(s) \/ Unanswered(s) \/ SeedFails(s) PROVE SIInv'
    BY <1>2, FindAdminStep, SaveUserStep, SaveProjectsStep, FailStep
    DEF SeedStep, Saved, Seeded, Unanswered
  <1>3. CASE UNCHANGED seedVars
    <2>1. IInv'
      BY <1>3, TableKept DEF seedVars
    <2> QED  BY <1>3, <2>1 DEF seedVars, SIInv, SeedTypeOK, IInv, SavedInv, ProjectsInv
  <1> QED  BY <1>1, <1>2, <1>3 DEF SeedNext

THEOREM SeedInvariant == SeedSpec => []SIInv
  BY SeedInitEstablishes, SeedPreserves, PTL DEF SeedSpec
-----------------------------------------------------------------------------
\* Type correctness of Seed.
THEOREM SeedTypeCorrect == SeedSpec => []SeedTypeOK
  BY SeedInvariant, PTL DEF SIInv

\* One account per address, runs of the seed among the registrations included.
THEOREM OneAccountAmongSeeds == SeedSpec => []UniqueEmail
  <1>1. SIInv => UniqueEmail
    BY DEF SIInv, IInv, KeyInv
  <1> QED  BY SeedInvariant, <1>1, PTL

\* What a registration promises it keeps among runs of the seed.
THEOREM RegistrationAmongSeeds ==
    SeedSpec => [](NoHalfAccount /\ ConflictJustified /\ WelcomeOnlyCommitted /\ WelcomeBegun)
  <1>1. SIInv => NoHalfAccount /\ ConflictJustified /\ WelcomeOnlyCommitted /\ WelcomeBegun
    BY DEF SIInv, IInv, CommittedInv, BegunInv, WelcomeOnlyCommitted, WelcomeBegun
  <1> QED  BY SeedInvariant, <1>1, PTL

\* The demo projects have all three accounts of the run that made them.
LEMMA Whole == SIInv => SeedWhole
  BY Three DEF SIInv, SeedTypeOK, SavedInv, ProjectsInv, SeedWhole

THEOREM SeedsAreWhole == SeedSpec => []SeedWhole
  BY SeedInvariant, Whole, PTL

\* Whose administrator it is, that run alone saves accounts and projects.
LEMMA OneRun ==
    ASSUME SIInv, NEW s \in SeedRuns, NEW t \in SeedRuns,
           \E row \in table : row.id = s, SaveUser(t) \/ SaveProjects(t)
    PROVE  t = s
  <1>1. PICK p \in table : p.id = s /\ p.email = AdminEmail
    BY DEF SIInv, SavedInv
  <1>2. CASE SaveUser(t) /\ seed[t].saved = 0
    BY <1>1, <1>2, AccountAdded, Three DEF SaveUser, Taken
  <1>3. CASE seed[t].saved > 0
    <2>1. 1 \in 1..3 /\ 1 <= seed[t].saved
      BY <1>3 DEF SIInv, SeedTypeOK
    <2>2. PICK q \in table : q.id = t /\ q.email = AdminEmail
      BY <2>1, Three DEF SIInv, SavedInv
    <2> QED  BY <1>1, <2>2 DEF SIInv, IInv, KeyInv, UniqueEmail
  <1>4. seed[t].saved \in 0..3 /\ (SaveProjects(t) => seed[t].saved = 3)
    BY Three DEF SIInv, SeedTypeOK, SaveProjects
  <1> QED  BY <1>2, <1>3, <1>4

\* What may add to the seed.
LEMMA SeedWrites ==
    ASSUME SIInv, [SeedNext]_seedVars
    PROVE  \/ UNCHANGED <<projects, SeedRows>>
           \/ \E t \in SeedRuns : SaveUser(t) /\ UNCHANGED projects
           \/ \E t \in SeedRuns : SaveProjects(t) /\ UNCHANGED table
  <1>1. CASE Next /\ UNCHANGED <<seed, projects>>
    <2>1. table \subseteq table' /\ \A row \in table' \ table : row.id \in Attempts
      BY <1>1 DEF Next, Step, FindByEmail, Insert, InsertRefused, UpdateHash, Commit,
             CommitUnanswered, Abort, Crash, StartAdd, Reply, Added, AddFails, SIInv, IInv,
             TypeOK, TxInv
    <2> QED  BY <1>1, <2>1, SeedAssumption DEF SeedRows
  <1>2. ASSUME NEW s \in SeedRuns, FindAdmin(s) \/ SaveRefused(s) \/ SeedFails(s)
        PROVE  UNCHANGED <<projects, SeedRows>>
    BY <1>2 DEF FindAdmin, SaveRefused, SeedFails, SeedRows
  <1>3. ASSUME NEW s \in SeedRuns, Saved(s) \/ Seeded(s) \/ Unanswered(s)
        PROVE  (SaveUser(s) /\ UNCHANGED projects) \/ (SaveProjects(s) /\ UNCHANGED table)
    <2>1. SaveUser(s) => UNCHANGED projects
      BY DEF SaveUser
    <2>2. SaveProjects(s) => UNCHANGED table
      BY DEF SaveProjects
    <2> QED  BY <1>3, <2>1, <2>2 DEF Saved, Seeded, Unanswered
  <1>4. CASE UNCHANGED seedVars
    BY <1>4 DEF seedVars, SeedRows
  <1> QED  BY <1>1, <1>2, <1>3, <1>4 DEF SeedNext, SeedStep

\* Once the seed is complete no run adds anything to it.
THEOREM SeedAddsOnce == SeedSpec => SeedIdempotent
  <1>1. SIInv /\ [SeedNext]_seedVars
          => [projects # {} => UNCHANGED <<projects, SeedRows>>]_seedVars
    <2> SUFFICES ASSUME SIInv, [SeedNext]_seedVars, NEW s \in projects
                 PROVE  UNCHANGED <<projects, SeedRows>>
      OBVIOUS
    <2>1. /\ s \in SeedRuns /\ seed[s].pc # "saving"
          /\ \E row \in table : row.id = s
      BY Whole, Three DEF SIInv, SeedTypeOK, ProjectsInv, SeedWhole
    <2>2. ASSUME NEW t \in SeedRuns, SaveUser(t) \/ SaveProjects(t) PROVE FALSE
      BY <2>1, <2>2, OneRun DEF SaveUser, SaveProjects, Saving
    <2> QED  BY <2>2, SeedWrites
  <1> QED  BY SeedInvariant, <1>1, PTL DEF SeedSpec, SeedIdempotent

\* What a failed run left, nobody completes.
THEOREM NobodyCompletes == SeedSpec => AbandonedStays
  <1>1. SIInv /\ [SeedNext]_seedVars
          => [(\E s \in SeedRuns : Abandoned(s)) => UNCHANGED projects]_seedVars
    <2> SUFFICES ASSUME SIInv, [SeedNext]_seedVars, NEW s \in SeedRuns, Abandoned(s)
                 PROVE  UNCHANGED projects
      OBVIOUS
    <2>1. ASSUME NEW t \in SeedRuns, SaveProjects(t) PROVE FALSE
      BY <2>1, OneRun DEF Abandoned, SaveProjects
    <2> QED  BY <2>1, SeedWrites
  <1> QED  BY SeedInvariant, <1>1, PTL DEF SeedSpec, AbandonedStays
-----------------------------------------------------------------------------
\* Registrations are atomic among runs of the seed too, and each account of a
\* run is one step of its own, on an address that is free.
LEMMA AtomicSeedStep == SIInv /\ [SeedNext]_seedVars => [Atomic!Next]_(Atomic!vars)
  <1> SUFFICES ASSUME SIInv, [SeedNext]_seedVars PROVE Atomic!Next \/ UNCHANGED Atomic!vars
    OBVIOUS
  <1>1. CASE Next /\ UNCHANGED <<seed, projects>>
    BY <1>1, AtomicNext DEF SIInv
  <1>2. ASSUME UNCHANGED <<table, call>> PROVE UNCHANGED Atomic!vars
    BY <1>2 DEF Atomic!vars
  <1>3. ASSUME NEW s \in SeedRuns, SaveUser(s) PROVE Atomic!Next
    <2>1. /\ Account(s) = [id |-> s, email |-> Account(s).email, hash |-> FALSE]
          /\ Account(s).email \in Emails
      BY <1>3, AccountAdded, Three DEF Account
    <2>2. /\ table' = table \cup {Account(s)} /\ UNCHANGED call
          /\ ~Taken(Account(s).email)
      BY <1>3 DEF SaveUser
    <2>3. Atomic!Free(Account(s).email)
      BY <2>2 DEF Atomic!Free, Taken
    <2>4. Atomic!Add(s, Account(s).email)
      BY <2>1, <2>2, <2>3 DEF Atomic!Add
    <2> QED  BY <1>3, <2>1, <2>4 DEF Atomic!Next
  <1>4. ASSUME NEW s \in SeedRuns,
               FindAdmin(s) \/ SaveRefused(s) \/ SeedFails(s) \/ SaveProjects(s)
        PROVE  UNCHANGED <<table, call>>
    BY <1>4 DEF FindAdmin, SaveRefused, SeedFails, SaveProjects
  <1> QED
    BY <1>1, <1>2, <1>3, <1>4
    DEF SeedNext, SeedStep, Saved, Seeded, Unanswered, seedVars

THEOREM SeedKeepsAtomicity == SeedSpec => RegisterIsAtomic
  <1>1. SeedInit => Atomic!Init
    BY AtomicInit DEF SeedInit
  <1> QED
    BY <1>1, SeedInitEstablishes, SeedPreserves, AtomicSeedStep, PTL
    DEF SeedSpec, RegisterIsAtomic, Atomic!Spec

\* An INSERT waits for the transaction that has inserted its address.
RegistrationWaits(a, b) ==
    call[a].pc = "hashing" /\ b # a /\ tx[b] # None /\ tx[b].email = call[a].email
RunWaits(s, b) == Saving(s) /\ tx[b] # None /\ tx[b].email = Account(s).email

\* Nobody waits in a circle, or behind somebody who waits: whoever is waited for
\* is between its INSERT and its COMMIT, and needs nothing that others hold.
THEOREM WaitsAreShort ==
    SeedSpec => [](\A b, c \in Attempts :
        (\E a \in Attempts : RegistrationWaits(a, b)) \/ (\E s \in SeedRuns : RunWaits(s, b))
          => call[b].pc \in {"inserted", "updated"} /\ ~RegistrationWaits(b, c))
  <1>1. SIInv => \A b, c \in Attempts :
          (\E a \in Attempts : RegistrationWaits(a, b)) \/ (\E s \in SeedRuns : RunWaits(s, b))
            => call[b].pc \in {"inserted", "updated"} /\ ~RegistrationWaits(b, c)
    BY DEF SIInv, IInv, TxInv, RegistrationWaits, RunWaits
  <1> QED  BY SeedInvariant, <1>1, PTL
=============================================================================
