----------------------------- MODULE AtMostOnce -----------------------------
(***************************************************************************)
(* What an idempotency key promises, with no clock, lock or cache: as long *)
(* as an execution for a key is remembered there is no other execution for *)
(* it, and whoever is given a result is given that of the remembered one.  *)
(* Contract: src/apps/api/src/common/interceptors/idempotency.interceptor. *)
(***************************************************************************)
CONSTANTS Attempts,  \* calls, each made once
          Keys,      \* idempotency keys
          None       \* no execution, no answer

VARIABLES memory,    \* memory[k]: the execution remembered for k, or None
          executed,  \* the calls whose handler took effect
          given,     \* given[a]: the execution whose result answers a, or None
          over       \* the executions that were remembered for their full time

vars == <<memory, executed, given, over>>

Init ==
    /\ memory = [k \in Keys |-> None]
    /\ executed = {}
    /\ given = [a \in Attempts |-> None]
    /\ over = {}

\* The handler of call a takes effect.
Execute(a, k) ==
    /\ a \notin executed /\ memory[k] = None
    /\ executed' = executed \cup {a}
    /\ memory' = [memory EXCEPT ![k] = a]
    /\ UNCHANGED <<given, over>>

\* Call a is answered with the remembered result.
Answer(a, k) ==
    /\ given[a] = None /\ memory[k] # None
    /\ given' = [given EXCEPT ![a] = memory[k]]
    /\ UNCHANGED <<memory, executed, over>>

\* The time of the keys in K is over.
Expire(K) ==
    /\ memory' = [k \in Keys |-> IF k \in K THEN None ELSE memory[k]]
    /\ over' = over \cup {memory[k] : k \in K}
    /\ UNCHANGED <<executed, given>>

\* An execution that has not answered its own call may be forgotten early.
Lose(k) ==
    /\ memory[k] # None /\ given[memory[k]] = None
    /\ memory' = [memory EXCEPT ![k] = None]
    /\ UNCHANGED <<executed, given, over>>

Next ==
    \/ \E a \in Attempts, k \in Keys : Execute(a, k) \/ Answer(a, k)
    \/ \E K \in SUBSET Keys : Expire(K)
    \/ \E k \in Keys : Lose(k)

Spec == Init /\ [][Next]_vars
=============================================================================
