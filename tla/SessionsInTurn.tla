---------------------------- MODULE SessionsInTurn ----------------------------
(***************************************************************************)
(* What sessions and refresh tokens gain when requests do not overlap: the *)
(* rules a client assumes that waits for each answer before it asks again. *)
(* `part' names the way requests come and stays what it was at first.      *)
(***************************************************************************)
EXTENDS AuthSession

VARIABLE part

Underway == {r \in Workers : req[r].pc \notin Resting}
OneAtATime == \A q, r \in Underway : q = r

TurnInit == Init /\ part \in {"concurrent", "sequential"}
TurnNext == Next /\ UNCHANGED part /\ (part = "sequential" => OneAtATime')
TurnSpec == TurnInit /\ [][TurnNext]_<<vars, part>>

(* Without concurrent requests a token is used once, ... *)
OneTimeUseInTurn == part = "sequential" => OneTimeUse
(* ... there is one usable token of a session at a time, ... *)
SingleLiveTokenInTurn == part = "sequential" => SingleLiveToken
(* ... and no session opened with a former password stays open. *)
OldPasswordSessionsClosedInTurn == part = "sequential" => OldPasswordSessionsClosed

(* The rules on rotation: under concurrent requests the chain of tokens is *)
(* consistent, and in turn a token is used once and one is usable.         *)
RotationInTurn == RotationConsistent /\ OneTimeUseInTurn /\ SingleLiveTokenInTurn
=============================================================================
