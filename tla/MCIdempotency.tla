--------------------------- MODULE MCIdempotency ---------------------------
(***************************************************************************)
(* Instance of IdempotentPosts for TLC: three requests, two keys of        *)
(* registrations and one of projects.  Requests are interchangeable and so *)
(* are the keys of registrations, but a liveness property rules out        *)
(* SYMMETRY; the plans are one for each way to share keys out.             *)
(***************************************************************************)
EXTENDS IdempotentPosts, Sequences

CONSTANTS k1, k2, p1

Requests == 1..3
KeyPlans == {<<k1, k1, k1>>, <<k1, k1, k2>>, <<k1, k1, p1>>,
             <<k1, k2, p1>>, <<k1, p1, p1>>, <<p1, p1, p1>>}
=============================================================================
