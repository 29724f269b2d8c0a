---------------------------- MODULE SessionPromise ----------------------------
(***************************************************************************)
(* What the session subsystem promises the rest of the API, with no        *)
(* tokens, no transactions and no clock: a session is opened once, closed  *)
(* for good, and everything granted in its name was granted to a request   *)
(* that was admitted while the session was open.                           *)
(***************************************************************************)
CONSTANTS Sessions, Workers, None

VARIABLES
    status,   \* status[s]: "unborn", "open", "closed", then "purged"
    holds,    \* holds[r]: the session request r was admitted under, or None
    granted   \* granted[r]: the session whose grant r last received, or None

promiseVars == <<status, holds, granted>>

PromiseInit ==
    /\ status = [s \in Sessions |-> "unborn"]
    /\ holds = [r \in Workers |-> None]
    /\ granted = [r \in Workers |-> None]

Becomes(S, st) == status' = [s \in Sessions |-> IF s \in S THEN st ELSE status[s]]
Opened(S) == \A s \in S : status[s] = "open"

(* A login opens a session nobody has had before. *)
Login(r, s) ==
    /\ status[s] = "unborn" /\ holds[r] = None
    /\ Becomes({s}, "open")
    /\ granted' = [granted EXCEPT ![r] = s]
    /\ UNCHANGED holds

(* A request is admitted under an open session only. *)
Admit(r, s) ==
    /\ status[s] = "open" /\ holds[r] = None
    /\ holds' = [holds EXCEPT ![r] = s]
    /\ UNCHANGED <<status, granted>>

(* An admitted request succeeds, closing any open sessions it was asked to. *)
Grant(r, S) ==
    /\ holds[r] # None
    /\ Opened(S) /\ Becomes(S, "closed")
    /\ granted' = [granted EXCEPT ![r] = holds[r]]
    /\ holds' = [holds EXCEPT ![r] = None]

Refuse(r) ==
    /\ holds[r] # None
    /\ holds' = [holds EXCEPT ![r] = None]
    /\ UNCHANGED <<status, granted>>

(* The client has its answer and may ask again. *)
Forget(r) ==
    /\ granted[r] # None
    /\ granted' = [granted EXCEPT ![r] = None]
    /\ UNCHANGED <<status, holds>>

Expire(S) == Opened(S) /\ Becomes(S, "closed") /\ UNCHANGED <<holds, granted>>

Purge(S) ==
    /\ \A s \in S : status[s] = "closed"
    /\ Becomes(S, "purged")
    /\ UNCHANGED <<holds, granted>>

PromiseNext ==
    \/ \E r \in Workers, s \in Sessions : Login(r, s) \/ Admit(r, s)
    \/ \E r \in Workers, S \in SUBSET Sessions : Grant(r, S)
    \/ \E r \in Workers : Refuse(r) \/ Forget(r)
    \/ \E S \in SUBSET Sessions : Expire(S) \/ Purge(S)

PromiseSpec == PromiseInit /\ [][PromiseNext]_promiseVars

=============================================================================
