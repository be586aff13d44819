------------------------- MODULE RegistrationProofs -------------------------
(***************************************************************************)
(* What Registration guarantees for any number of registrations, on any    *)
(* addresses, with failures of the database or without.                    *)
(*                                                                         *)
(* The inductive invariant says what the unique index and the transaction  *)
(* are worth together: the addresses of committed rows and of open         *)
(* transactions are all different, and a transaction is open exactly while *)
(* its call is between INSERT and COMMIT.                                  *)
(***************************************************************************)
EXTENDS Registration, TLAPS

\* a's transaction holds a's row, and it is open between INSERT and COMMIT.
TxInv ==
    \A a \in Attempts :
        /\ IF call[a].pc = "new" THEN call[a].email = None ELSE call[a].email \in Emails
        /\ tx[a] # None <=> call[a].pc \in {"inserted", "updated"}
        /\ tx[a] # None => tx[a].id = a /\ tx[a].email = call[a].email
        /\ call[a].pc = "updated" => tx[a].hash

\* No address is held twice: by two rows, two transactions, or one of each.
KeyInv ==
    /\ UniqueEmail
    /\ \A a \in Attempts : tx[a] # None => ~Taken(tx[a].email)
    /\ \A a, b \in Attempts :
         tx[a] # None /\ tx[b] # None /\ tx[a].email = tx[b].email => a = b

\* Whoever was committed has a row, and so has everyone a job is added for.
CommittedInv ==
    \A a \in Attempts :
        call[a].pc \in {"committed", "returned", "replied"} \/ mail[a] # "none" =>
            \E row \in table : row.id = a

\* Whoever has a row was committed, and whoever was answered has begun the job.
BegunInv ==
    \A a \in Attempts :
        /\ (\E row \in table : row.id = a) =>
             call[a].pc \in {"committed", "returned", "replied", "failed"}
        /\ call[a].pc \in {"returned", "replied"} => mail[a] # "none"

IInv ==
    /\ TypeOK /\ TxInv /\ KeyInv
    /\ NoHalfAccount /\ ConflictJustified /\ CommittedInv /\ BegunInv

-----------------------------------------------------------------------------
LEMMA InitEstablishes == Init => IInv
BY RegistrationAssumption
   DEF Init, IInv, TypeOK, TxInv, KeyInv, NoHalfAccount, ConflictJustified, CommittedInv,
       BegunInv, UniqueEmail, Status, Done

-----------------------------------------------------------------------------
\* What Goto leaves of a well-typed call.
LEMMA GotoEffect ==
    ASSUME TypeOK, NEW a \in Attempts, NEW pc \in Status, Goto(a, pc)
    PROVE  /\ call' \in [Attempts -> [pc : Status, email : Emails \cup {None}]]
           /\ call'[a].pc = pc /\ call'[a].email = call[a].email
           /\ \A b \in Attempts \ {a} : call'[b] = call[b]
BY DEF TypeOK, Goto

LEMMA FindByEmailStep ==
    ASSUME IInv, NEW a \in Attempts, NEW e \in Emails, FindByEmail(a, e) PROVE IInv'
<1> USE RegistrationAssumption DEF FindByEmail, IInv
<1>1. /\ call' \in [Attempts -> [pc : Status, email : Emails \cup {None}]]
      /\ call[a].pc = "new" /\ call'[a].pc \in {"conflict", "hashing"}
      /\ call'[a].pc = "conflict" => Taken(e)
      /\ call'[a].email = e
      /\ \A b \in Attempts \ {a} : call'[b] = call[b]
  BY DEF TypeOK, Status, Done
<1>2. TypeOK' BY <1>1 DEF TypeOK
<1>3. TxInv' BY <1>1 DEF TxInv
<1>4. KeyInv' BY DEF KeyInv, UniqueEmail, Taken
<1>5. NoHalfAccount' BY DEF NoHalfAccount
<1>6. ConflictJustified' BY <1>1 DEF ConflictJustified, Taken
<1>7. CommittedInv' /\ BegunInv' BY <1>1 DEF CommittedInv, BegunInv
<1> QED BY <1>2, <1>3, <1>4, <1>5, <1>6, <1>7

LEMMA InsertStep == ASSUME IInv, NEW a \in Attempts, Insert(a) PROVE IInv'
<1> DEFINE r == [id |-> a, email |-> call[a].email, hash |-> FALSE]
<1> USE RegistrationAssumption
<1>1. /\ call[a].pc = "hashing" /\ ~Taken(call[a].email) /\ ~Pending(a, call[a].email)
      /\ tx' = [tx EXCEPT ![a] = r] /\ table' = table /\ mail' = mail
  BY DEF Insert
<1>2. /\ call' \in [Attempts -> [pc : Status, email : Emails \cup {None}]]
      /\ call'[a].pc = "inserted" /\ call'[a].email = call[a].email
      /\ \A b \in Attempts \ {a} : call'[b] = call[b]
  BY GotoEffect DEF Insert, IInv, Status
<1>3. call[a].email \in Emails BY <1>1 DEF IInv, TxInv
<1>4. /\ r \in Rows /\ r # None /\ r.id = a /\ r.email = call[a].email
      /\ tx'[a] = r /\ \A b \in Attempts \ {a} : tx'[b] = tx[b]
  <2>1. r \in Rows /\ r.id = a /\ r.email = call[a].email BY <1>3 DEF Rows
  <2>2. r # None BY <2>1 DEF Rows, RegistrationAssumption
  <2>3. tx \in [Attempts -> Rows \cup {None}] BY DEF IInv, TypeOK
  <2> HIDE DEF r
  <2>4. tx'[a] = r /\ \A b \in Attempts \ {a} : tx'[b] = tx[b] BY <1>1, <2>3
  <2> QED BY <2>1, <2>2, <2>4
<1>5. TypeOK' BY <1>1, <1>2, <1>4 DEF IInv, TypeOK
<1> HIDE DEF r
<1>6. TxInv' BY <1>1, <1>2, <1>3, <1>4 DEF IInv, TxInv
<1>7. KeyInv' BY <1>1, <1>4 DEF IInv, KeyInv, UniqueEmail, Taken, Pending
<1>8. NoHalfAccount' /\ ConflictJustified' /\ CommittedInv' /\ BegunInv'
  BY <1>1, <1>2 DEF IInv, NoHalfAccount, ConflictJustified, CommittedInv, BegunInv, Taken
<1> QED BY <1>5, <1>6, <1>7, <1>8 DEF IInv

LEMMA InsertRefusedStep == ASSUME IInv, NEW a \in Attempts, InsertRefused(a) PROVE IInv'
<1>1. /\ call[a].pc = "hashing" /\ Taken(call[a].email)
      /\ tx' = tx /\ table' = table /\ mail' = mail
  BY DEF InsertRefused
<1>2. /\ call' \in [Attempts -> [pc : Status, email : Emails \cup {None}]]
      /\ call'[a].pc = "conflict" /\ call'[a].email = call[a].email
      /\ \A b \in Attempts \ {a} : call'[b] = call[b]
  BY GotoEffect DEF InsertRefused, IInv, Status, Done
<1>3. TypeOK' /\ TxInv' BY <1>1, <1>2 DEF IInv, TypeOK, TxInv
<1>4. KeyInv' /\ NoHalfAccount'
  BY <1>1 DEF IInv, KeyInv, NoHalfAccount, UniqueEmail, Taken
<1>5. ConflictJustified' /\ CommittedInv' /\ BegunInv'
  BY <1>1, <1>2 DEF IInv, ConflictJustified, CommittedInv, BegunInv, Taken
<1> QED BY <1>3, <1>4, <1>5 DEF IInv

LEMMA UpdateHashStep == ASSUME IInv, NEW a \in Attempts, UpdateHash(a) PROVE IInv'
<1>1. /\ call[a].pc = "inserted" /\ table' = table /\ mail' = mail
      /\ tx' = [tx EXCEPT ![a].hash = TRUE]
  BY DEF UpdateHash
<1>2. /\ call' \in [Attempts -> [pc : Status, email : Emails \cup {None}]]
      /\ call'[a].pc = "updated" /\ call'[a].email = call[a].email
      /\ \A b \in Attempts \ {a} : call'[b] = call[b]
  BY GotoEffect DEF UpdateHash, IInv, Status
<1>3. tx[a] \in Rows /\ tx[a] # None BY <1>1 DEF IInv, TypeOK, TxInv
<1>4. /\ tx'[a] \in Rows /\ tx'[a] # None
      /\ tx'[a].id = tx[a].id /\ tx'[a].email = tx[a].email /\ tx'[a].hash = TRUE
      /\ \A b \in Attempts \ {a} : tx'[b] = tx[b]
  BY <1>1, <1>3, RegistrationAssumption DEF IInv, TypeOK, Rows
<1>5. TypeOK'
  <2>1. tx' \in [Attempts -> Rows \cup {None}] BY <1>1, <1>4 DEF IInv, TypeOK
  <2> QED BY <1>1, <1>2, <2>1 DEF IInv, TypeOK
<1>6. TxInv' BY <1>1, <1>2, <1>3, <1>4 DEF IInv, TxInv
<1>7. KeyInv' BY <1>1, <1>3, <1>4 DEF IInv, KeyInv, UniqueEmail, Taken
<1>8. NoHalfAccount' /\ ConflictJustified' /\ CommittedInv' /\ BegunInv'
  BY <1>1, <1>2 DEF IInv, NoHalfAccount, ConflictJustified, CommittedInv, BegunInv, Taken
<1> QED BY <1>5, <1>6, <1>7, <1>8 DEF IInv

\* COMMIT, whether or not its answer arrives: the row moves to the table.
LEMMA CommitStep ==
    ASSUME IInv, NEW a \in Attempts, Commit(a) \/ CommitUnanswered(a) PROVE IInv'
<1>1. /\ call[a].pc = "updated" /\ table' = table \cup {tx[a]}
      /\ tx' = [tx EXCEPT ![a] = None] /\ mail' = mail
  BY DEF Commit, CommitUnanswered
<1>2. /\ call' \in [Attempts -> [pc : Status, email : Emails \cup {None}]]
      /\ call'[a].pc \in {"committed", "failed"} /\ call'[a].email = call[a].email
      /\ \A b \in Attempts \ {a} : call'[b] = call[b]
  BY GotoEffect DEF Commit, CommitUnanswered, IInv, Status, Done
<1>3. tx[a] \in Rows /\ tx[a] # None /\ tx[a].id = a /\ tx[a].hash
  BY <1>1 DEF IInv, TypeOK, TxInv
<1>4. /\ tx' \in [Attempts -> Rows \cup {None}]
      /\ tx'[a] = None /\ \A b \in Attempts \ {a} : tx'[b] = tx[b]
  BY <1>1 DEF IInv, TypeOK
<1>5. TypeOK' BY <1>1, <1>2, <1>3, <1>4 DEF IInv, TypeOK
<1>6. TxInv' BY <1>1, <1>2, <1>4 DEF IInv, TxInv
<1>7. KeyInv' BY <1>1, <1>3, <1>4 DEF IInv, KeyInv, UniqueEmail, Taken
<1>8. NoHalfAccount' BY <1>1, <1>3 DEF IInv, NoHalfAccount
<1>9. ConflictJustified' /\ CommittedInv'
  BY <1>1, <1>2, <1>3 DEF IInv, ConflictJustified, CommittedInv, Taken
<1>10. BegunInv'
  BY <1>1, <1>2, <1>3 DEF IInv, BegunInv
<1> QED BY <1>5, <1>6, <1>7, <1>8, <1>9, <1>10 DEF IInv

LEMMA AbortStep == ASSUME IInv, NEW a \in Attempts, Abort(a) PROVE IInv'
<1>1. /\ call[a].pc \in {"hashing", "inserted", "updated"} /\ table' = table
      /\ tx' = [tx EXCEPT ![a] = None] /\ mail' = mail
  BY DEF Abort
<1>2. /\ call' \in [Attempts -> [pc : Status, email : Emails \cup {None}]]
      /\ call'[a].pc = "failed" /\ call'[a].email = call[a].email
      /\ \A b \in Attempts \ {a} : call'[b] = call[b]
  BY GotoEffect DEF Abort, IInv, Status, Done
<1>3. /\ tx' \in [Attempts -> Rows \cup {None}]
      /\ tx'[a] = None /\ \A b \in Attempts \ {a} : tx'[b] = tx[b]
  BY <1>1 DEF IInv, TypeOK
<1>4. TypeOK' BY <1>1, <1>2, <1>3 DEF IInv, TypeOK
<1>5. TxInv' BY <1>1, <1>2, <1>3 DEF IInv, TxInv
<1>6. KeyInv' BY <1>1, <1>3 DEF IInv, KeyInv, UniqueEmail, Taken
<1>7. NoHalfAccount' /\ ConflictJustified' /\ CommittedInv' /\ BegunInv'
  BY <1>1, <1>2 DEF IInv, NoHalfAccount, ConflictJustified, CommittedInv, BegunInv, Taken
<1> QED BY <1>4, <1>5, <1>6, <1>7 DEF IInv

\* The steps of a call after its COMMIT touch neither rows nor transactions.
LEMMA AfterCommitStep ==
    ASSUME IInv, NEW a \in Attempts, StartAdd(a) \/ Reply(a) \/ Crash(a) PROVE IInv'
<1>1. /\ call[a].pc \in {"committed", "returned"} /\ table' = table /\ tx' = tx
      /\ mail' = mail \/ mail' = [mail EXCEPT ![a] = "adding"]
  BY DEF StartAdd, Reply, Crash
<1>2. /\ call' \in [Attempts -> [pc : Status, email : Emails \cup {None}]]
      /\ call'[a].pc \in {"returned", "replied", "failed"}
      /\ call'[a].email = call[a].email
      /\ \A b \in Attempts \ {a} : call'[b] = call[b]
  BY GotoEffect DEF StartAdd, Reply, Crash, IInv, Status, Done
<1>3. TypeOK' BY <1>1, <1>2 DEF IInv, TypeOK
<1>4. TxInv' BY <1>1, <1>2 DEF IInv, TxInv
<1>5. KeyInv' /\ NoHalfAccount'
  BY <1>1 DEF IInv, KeyInv, NoHalfAccount, UniqueEmail, Taken
<1>6. ConflictJustified' BY <1>1, <1>2 DEF IInv, ConflictJustified, Taken
<1>7. CommittedInv' BY <1>1, <1>2 DEF IInv, TypeOK, CommittedInv
<1>8. call'[a].pc \in {"returned", "replied"} => mail'[a] # "none"
  BY <1>1, <1>2 DEF StartAdd, Reply, Crash, Goto, IInv, TypeOK, BegunInv
<1>9. BegunInv' BY <1>1, <1>2, <1>8 DEF IInv, TypeOK, BegunInv
<1> QED BY <1>3, <1>4, <1>5, <1>6, <1>7, <1>9 DEF IInv

LEMMA AddStep == ASSUME IInv, NEW a \in Attempts, Added(a) \/ AddFails(a) PROVE IInv'
<1>1. /\ mail[a] = "adding" /\ table' = table /\ tx' = tx /\ call' = call
      /\ \E m \in {"queued", "lost"} : mail' = [mail EXCEPT ![a] = m]
  BY DEF Added, AddFails
<1>2. TypeOK' /\ CommittedInv' /\ BegunInv' BY <1>1 DEF IInv, TypeOK, CommittedInv, BegunInv
<1>3. TxInv' /\ KeyInv' /\ NoHalfAccount' /\ ConflictJustified'
  BY <1>1 DEF IInv, TxInv, KeyInv, NoHalfAccount, ConflictJustified, UniqueEmail, Taken
<1> QED BY <1>2, <1>3 DEF IInv

LEMMA NextPreserves == IInv /\ [Next]_vars => IInv'
<1> SUFFICES ASSUME IInv, [Next]_vars PROVE IInv'
  OBVIOUS
<1>1. CASE Next
  <2>1. PICK a \in Attempts : Step(a) \/ Added(a) \/ AddFails(a) BY <1>1 DEF Next
  <2> QED BY <2>1, FindByEmailStep, InsertStep, InsertRefusedStep, UpdateHashStep,
             CommitStep, AbortStep, AfterCommitStep, AddStep DEF Step
<1>2. CASE UNCHANGED vars
  BY <1>2 DEF vars, IInv, TypeOK, TxInv, KeyInv, NoHalfAccount, ConflictJustified,
              CommittedInv, BegunInv, UniqueEmail, Taken
<1> QED BY <1>1, <1>2

\* Registration never leaves the inductive invariant.
THEOREM RegistrationInvariant == Spec => []IInv
BY InitEstablishes, NextPreserves, PTL DEF Spec

-----------------------------------------------------------------------------
\* Type correctness of Registration.
THEOREM RegistrationTypeCorrect == Spec => []TypeOK
<1>1. IInv => TypeOK BY DEF IInv
<1> QED BY RegistrationInvariant, <1>1, PTL

\* One account per address, for any number of overlapping registrations: the
\* check of findByEmail plays no part in it.
THEOREM OneAccountPerEmail == Spec => []UniqueEmail
<1>1. IInv => UniqueEmail BY DEF IInv, KeyInv
<1> QED BY RegistrationInvariant, <1>1, PTL

\* No account without its session's hash, wherever a registration fails.
THEOREM AccountsAreWhole == Spec => []NoHalfAccount
<1>1. IInv => NoHalfAccount BY DEF IInv
<1> QED BY RegistrationInvariant, <1>1, PTL

\* Whoever is told 409 has met a committed account.
THEOREM ConflictsAreReal == Spec => []ConflictJustified
<1>1. IInv => ConflictJustified BY DEF IInv
<1> QED BY RegistrationInvariant, <1>1, PTL

\* A welcome job is only ever added for an account that stays.
THEOREM WelcomeIsForAccounts == Spec => []WelcomeOnlyCommitted
<1>1. IInv => WelcomeOnlyCommitted BY DEF IInv, CommittedInv, WelcomeOnlyCommitted
<1> QED BY RegistrationInvariant, <1>1, PTL

\* An account without a welcome job is one whose registration was interrupted.
THEOREM WelcomesAreBegun == Spec => []WelcomeBegun
<1>1. IInv => WelcomeBegun BY DEF IInv, BegunInv, WelcomeBegun
<1> QED BY RegistrationInvariant, <1>1, PTL
-----------------------------------------------------------------------------
(***************************************************************************)
(* Atomicity.  The COMMIT is the one step of a registration; everything    *)
(* before it is nothing to the accounts and everything after it only tells *)
(* what it did.  That the address is still free at the COMMIT, long after  *)
(* findByEmail, is KeyInv: it is the transaction that has it.              *)
(***************************************************************************)
Wanted == [a \in Attempts |-> call[a].email]
Answers == [a \in Attempts |-> Told(call[a].pc)]

LEMMA AtomicInit == Init => Atomic!Init
BY DEF Init, Atomic!Init, Told

\* What a move of a call is to the abstraction: an answer, if there is one.
LEMMA AnswerMoves ==
    ASSUME IInv, NEW a \in Attempts, NEW pc \in Status, Goto(a, pc)
    PROVE  /\ Wanted' = Wanted /\ Answers' = [Answers EXCEPT ![a] = Told(pc)]
           /\ call[a].pc # "new" => Wanted[a] # None
<1>1. /\ call'[a].pc = pc /\ call'[a].email = call[a].email
      /\ \A b \in Attempts \ {a} : call'[b] = call[b]
  BY GotoEffect DEF IInv
<1>2. Wanted' = Wanted BY <1>1 DEF Wanted
<1>3. Answers' = [Answers EXCEPT ![a] = Told(pc)] BY <1>1 DEF Answers
<1>4. call[a].pc # "new" => Wanted[a] # None
  BY RegistrationAssumption DEF Wanted, IInv, TxInv
<1> QED BY <1>2, <1>3, <1>4

LEMMA AtomicStep ==
    ASSUME IInv, NEW a \in Attempts, Step(a) PROVE Atomic!Next \/ UNCHANGED Atomic!vars
<1> USE DEF Status, Done
<1>a. Atomic!Tell(a) \/ Atomic!Create(a) => Atomic!Next BY DEF Atomic!Next
<1>b. ASSUME table' = table, Wanted' = Wanted, Answers' = Answers
      PROVE  UNCHANGED Atomic!vars
  BY <1>b DEF Wanted, Answers, Atomic!vars
<1>c. ASSUME call[a].pc \notin Done PROVE Answers[a] = None
  BY <1>c DEF Answers, Told
<1>1. ASSUME NEW e \in Emails, FindByEmail(a, e) PROVE Atomic!Next
  <2>1. /\ table' = table /\ call[a].pc = "new"
        /\ call' = [call EXCEPT ![a] = [pc |-> IF Taken(e) THEN "conflict" ELSE "hashing",
                                        email |-> e]]
    BY <1>1 DEF FindByEmail
  <2>2. Wanted' = [Wanted EXCEPT ![a] = e]
    BY <2>1 DEF IInv, TypeOK, Wanted
  <2>3. Answers' = [Answers EXCEPT ![a] = IF Taken(e) THEN "taken" ELSE None]
    BY <2>1 DEF IInv, TypeOK, Answers, Told
  <2>4. Answers[a] = None BY <1>c, <2>1
  <2>5. Wanted[a] = None
    BY <2>1 DEF IInv, TxInv, Wanted
  <2>6. Atomic!Ask(a, e)
    <3>1. CASE Taken(e)
      BY <2>1, <2>2, <2>3, <2>5, <3>1 DEF Atomic!Ask, Atomic!Free, Taken, Wanted, Answers
    <3>2. CASE ~Taken(e)
      <4>1. Answers' = Answers BY <2>3, <2>4, <3>2 DEF Answers
      <4> QED BY <2>1, <2>2, <2>5, <4>1 DEF Atomic!Ask, Wanted, Answers
    <3> QED BY <3>1, <3>2
  <2> QED BY <2>6 DEF Atomic!Next
<1>2. ASSUME Insert(a) \/ UpdateHash(a) \/ StartAdd(a) PROVE UNCHANGED Atomic!vars
  <2>1. PICK pc \in {"inserted", "updated", "returned"} : Goto(a, pc)
    BY <1>2 DEF Insert, UpdateHash, StartAdd
  <2>2. table' = table /\ call[a].pc \notin Done
    BY <1>2 DEF Insert, UpdateHash, StartAdd
  <2>3. Wanted' = Wanted /\ Answers' = [Answers EXCEPT ![a] = None]
    BY <2>1, AnswerMoves DEF Told
  <2>4. Answers' = Answers BY <1>c, <2>2, <2>3 DEF Answers
  <2> QED BY <1>b, <2>2, <2>3, <2>4
<1>3. ASSUME InsertRefused(a) PROVE Atomic!Next
  <2>1. /\ table' = table /\ call[a].pc = "hashing" /\ Taken(call[a].email)
        /\ Goto(a, "conflict")
    BY <1>3 DEF InsertRefused
  <2>2. /\ Wanted' = Wanted /\ Answers' = [Answers EXCEPT ![a] = "taken"]
        /\ Wanted[a] # None /\ Answers[a] = None
    BY <1>c, <2>1, AnswerMoves DEF Told
  <2>3. \E row \in table : row.email = Wanted[a] /\ row.id # a
    BY <2>1 DEF IInv, BegunInv, Taken, Wanted
  <2>4. Atomic!Tell(a)
    BY <2>1, <2>2, <2>3 DEF Atomic!Tell, Atomic!Open, Wanted, Answers
  <2> QED BY <1>a, <2>4
<1>4. ASSUME Commit(a) \/ CommitUnanswered(a) PROVE Atomic!Next
  <2>1. /\ call[a].pc = "updated" /\ table' = table \cup {tx[a]}
        /\ Goto(a, "committed") \/ Goto(a, "failed")
    BY <1>4 DEF Commit, CommitUnanswered
  <2>2. /\ tx[a] \in Rows /\ tx[a] # None
        /\ tx[a].id = a /\ tx[a].email = call[a].email /\ tx[a].hash = TRUE
    BY <2>1 DEF IInv, TypeOK, TxInv, Rows
  <2>3. tx[a] = [id |-> a, email |-> Wanted[a], hash |-> TRUE]
    BY <2>2 DEF Rows, Wanted
  <2>4. ~Taken(call[a].email) /\ \A row \in table : row.id # a
    BY <2>1, <2>2 DEF IInv, KeyInv, BegunInv
  <2>5. /\ Wanted' = Wanted /\ Wanted[a] # None /\ Answers[a] = None
        /\ Answers' \in {[Answers EXCEPT ![a] = None], [Answers EXCEPT ![a] = "failed"]}
    BY <1>c, <2>1, AnswerMoves DEF Told
  <2>6. [Answers EXCEPT ![a] = None] = Answers BY <2>5 DEF Answers
  <2>7. Atomic!Free(Wanted[a]) BY <2>4 DEF Atomic!Free, Taken, Wanted
  <2>8. Atomic!Create(a)
    BY <2>1, <2>3, <2>4, <2>5, <2>6, <2>7 DEF Atomic!Create, Atomic!Open, Wanted, Answers
  <2> QED BY <1>a, <2>8
<1>5. ASSUME Abort(a) \/ Crash(a) PROVE Atomic!Next
  <2>1. table' = table /\ call[a].pc \notin Done \cup {"new"} /\ Goto(a, "failed")
    BY <1>5 DEF Abort, Crash
  <2>2. /\ Wanted' = Wanted /\ Answers' = [Answers EXCEPT ![a] = "failed"]
        /\ Wanted[a] # None /\ Answers[a] = None
    BY <1>c, <2>1, AnswerMoves DEF Told
  <2>3. Atomic!Tell(a)
    BY <2>1, <2>2 DEF Atomic!Tell, Atomic!Open, Wanted, Answers
  <2> QED BY <1>a, <2>3
<1>6. ASSUME Reply(a) PROVE Atomic!Next
  <2>1. table' = table /\ call[a].pc = "returned" /\ Goto(a, "replied")
    BY <1>6 DEF Reply
  <2>2. /\ Wanted' = Wanted /\ Answers' = [Answers EXCEPT ![a] = "created"]
        /\ Wanted[a] # None /\ Answers[a] = None
    BY <1>c, <2>1, AnswerMoves DEF Told
  <2>3. \E row \in table : row.id = a
    BY <2>1 DEF IInv, CommittedInv
  <2>4. Atomic!Tell(a)
    BY <2>1, <2>2, <2>3 DEF Atomic!Tell, Atomic!Open, Wanted, Answers
  <2> QED BY <1>a, <2>4
<1> QED BY <1>1, <1>2, <1>3, <1>4, <1>5, <1>6 DEF Step

LEMMA AtomicNext == IInv /\ [Next]_vars => [Atomic!Next]_(Atomic!vars)
<1> SUFFICES ASSUME IInv, [Next]_vars PROVE Atomic!Next \/ UNCHANGED Atomic!vars
  OBVIOUS
<1>1. ASSUME NEW a \in Attempts, Step(a) PROVE Atomic!Next \/ UNCHANGED Atomic!vars
  BY <1>1, AtomicStep
<1>2. ASSUME UNCHANGED <<table, call>> PROVE UNCHANGED Atomic!vars
  BY <1>2 DEF Atomic!vars
<1> QED BY <1>1, <1>2 DEF Next, Added, AddFails, vars

\* A registration, with its statements, its slow hashes, its waiting and its
\* failures at any of them, amounts to one step.
THEOREM RegistrationIsAtomic == Spec => RegisterIsAtomic
BY InitEstablishes, NextPreserves, AtomicInit, AtomicNext, PTL
   DEF Spec, RegisterIsAtomic, Atomic!Spec
=============================================================================
