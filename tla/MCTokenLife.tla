----------------------------- MODULE MCTokenLife -----------------------------
(***************************************************************************)
(* One session's tokens, in two instances: up to three tokens on a clock   *)
(* that does not pass the retention, where every expired row is still      *)
(* there, or two tokens on a longer one, with the periodic cleanup.        *)
(* Requests overlap there until the second token has expired.              *)
(***************************************************************************)
EXTENDS AuthSession, TLC

Symmetry == Permutations(Workers) \cup Permutations(Users)

VARIABLE part

TokensInit == Init /\ part \in {"rotation", "cleanup"}
TokensNext ==
    /\ Next /\ UNCHANGED part
    /\ part = "rotation" => now' <= 3 /\ (lastTok' = 3 => now' <= 2)
    /\ part = "cleanup" => /\ lastTok' <= 2
                           /\ lastTok' = 2 /\ now' > 2 => Cardinality({r \in Workers : req'[r] # Idle}) <= 1
TokensSpec == TokensInit /\ [][TokensNext]_<<vars, part>>
=============================================================================
