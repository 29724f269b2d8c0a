------------------------------- MODULE Requests -------------------------------
(***************************************************************************)
(* What the models of the smaller components share.  A worker is a request *)
(* slot of the API; the models keep, in a variable of their own, a record  *)
(* for each worker whose field pc names the SQL statement it runs next.    *)
(* "idle" is a slot without a request.                                     *)
(***************************************************************************)
EXTENDS Integers, FiniteSets

CONSTANTS Workers, Tenants

(* A worker has a request in progress. *)
Busy(reqs, r) == reqs[r].pc # "idle"

(* The records of the other requests in progress. *)
InProgress(reqs, r) == {reqs[q] : q \in {p \in Workers \ {r} : Busy(reqs, p)}}
=============================================================================
