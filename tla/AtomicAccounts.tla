--------------------------- MODULE AtomicAccounts ---------------------------
(***************************************************************************)
(* What POST /auth/register promises, with no transaction, index or hash:  *)
(* a registration is one step that makes a whole account, if the address   *)
(* is free at that moment, and is told what that step did, now or later;   *)
(* or it is told that somebody else has the address, or that it failed,    *)
(* and then makes no account any more.  Contract: the comment in           *)
(* AuthService.register on the partial failure, and the unique column      *)
(* email of UserEntity.                                                    *)
(***************************************************************************)
CONSTANTS Callers, \* registrations
          Scripts, \* others that add accounts
          Emails,  \* addresses
          None     \* no address, not told yet

VARIABLES accounts, \* the accounts: id of their maker, email, has a session
          wanted,   \* wanted[a]: the address a asks for
          told      \* told[a]: "created", "taken" or "failed"

vars == <<accounts, wanted, told>>

Init ==
    /\ accounts = {}
    /\ wanted = [a \in Callers |-> None]
    /\ told = [a \in Callers |-> None]

Free(e) == \A acc \in accounts : acc.email # e
Open(a) == wanted[a] # None /\ told[a] = None

\* Registration a asks for the address e, and may be refused at once.
Ask(a, e) ==
    /\ wanted[a] = None
    /\ wanted' = [wanted EXCEPT ![a] = e]
    /\ \/ UNCHANGED told
       \/ ~Free(e) /\ told' = [told EXCEPT ![a] = "taken"]
    /\ UNCHANGED accounts

\* The one step of a registration; its answer may be lost with it.
Create(a) ==
    /\ Open(a) /\ Free(wanted[a]) /\ \A acc \in accounts : acc.id # a
    /\ accounts' = accounts \cup {[id |-> a, email |-> wanted[a], hash |-> TRUE]}
    /\ told' \in {told, [told EXCEPT ![a] = "failed"]}
    /\ UNCHANGED wanted

\* A registration is told what has become of it.
Tell(a) ==
    /\ Open(a)
    /\ \/ /\ \E acc \in accounts : acc.id = a
          /\ told' = [told EXCEPT ![a] = "created"]
       \/ /\ \E acc \in accounts : acc.email = wanted[a] /\ acc.id # a
          /\ told' = [told EXCEPT ![a] = "taken"]
       \/ told' = [told EXCEPT ![a] = "failed"]
    /\ UNCHANGED <<accounts, wanted>>

\* A script adds an account, which nobody has a session with.
Add(s, e) ==
    /\ Free(e)
    /\ accounts' = accounts \cup {[id |-> s, email |-> e, hash |-> FALSE]}
    /\ UNCHANGED <<wanted, told>>

Next ==
    \/ \E a \in Callers : (\E e \in Emails : Ask(a, e)) \/ Create(a) \/ Tell(a)
    \/ \E s \in Scripts, e \in Emails : Add(s, e)

Spec == Init /\ [][Next]_vars
=============================================================================
