------------------------------ MODULE MCSessions ------------------------------
(***************************************************************************)
(* The sessions of users, in two instances: two concurrent requests of two *)
(* users over two sessions (on a clock that stands still once the second   *)
(* is open), and one request at a time, of any kind, over one session on a *)
(* clock that passes the retention (with three tokens it stops earlier).   *)
(***************************************************************************)
EXTENDS AuthSession, SessionsInTurn, TLC

Symmetry == Permutations(Workers) \cup Permutations(Users)

(* The users that have done something so far, and the requests of which    *)
(* something is left, their answers included.                              *)
UsedUsers == {u \in Users : \/ ~active[u] \/ pw[u] > 0 \/ bareUntil[u] > 0
                            \/ \E r \in Workers : req[r].user = u
                            \/ \E s \in SesIds : ses[s].owner = u}
Remembered == {r \in Workers : req[r] # Idle}

ConcurrentOps == {"login", "refresh", "logoutAll", "terminate", "terminateAll", "changePassword", "none"}

SessionsNext ==
    /\ TurnNext
    /\ part = "concurrent" =>
          /\ lastTok' <= 2 /\ now' <= 2 /\ (lastSes' = 2 => now' = 1)
          /\ \A r \in Workers : req'[r].op \in ConcurrentOps
          /\ UNCHANGED active /\ sesRows \subseteq sesRows' /\ tokRows \subseteq tokRows'
    /\ part = "sequential" =>
          /\ lastSes' <= 1 /\ Cardinality(Remembered') <= 1 /\ Cardinality(UsedUsers') <= 1
          /\ lastTok' <= 2 \/ now' <= 2
SessionsSpec == TurnInit /\ [][SessionsNext]_<<vars, part>>
=============================================================================
