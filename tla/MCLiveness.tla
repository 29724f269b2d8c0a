------------------------------ MODULE MCLiveness ------------------------------
(***************************************************************************)
(* Liveness of requests, in two instances: overlapping requests on a clock *)
(* that stands still, and one request at a time, of the other kinds, on a  *)
(* clock that passes the retention.  Only what arrives and the environment *)
(* are restricted, never a step of a request, of which fairness speaks.    *)
(***************************************************************************)
EXTENDS AuthSession

VARIABLE part
liveVars == <<vars, part>>

Busy(reqs) == {r \in Workers : reqs[r].pc \notin Resting}
PartOps == [crowd |-> {"login", "refresh", "logout", "logoutAll", "changePassword"},
            alone |-> {"login", "refresh", "access", "terminate", "terminateAll"}]

LiveInit == Init /\ part \in {"crowd", "alone"}
LiveNext ==
    /\ Next /\ UNCHANGED part
    /\ \A r \in Busy(req') : req'[r].op \in PartOps[part]
    /\ part = "crowd" => UNCHANGED now
    /\ part = "alone" => Cardinality(Busy(req')) <= 1 /\ UNCHANGED active

(* The fairness of AuthSession.FairSpec. *)
LiveSpec == /\ LiveInit /\ [][LiveNext]_liveVars
            /\ \A r \in Workers : SF_vars(Step(r))
=============================================================================
