----------------------------- MODULE LoginLockout -----------------------------
(***************************************************************************)
(* The attempts recorded in login_attempts and what they decide, within    *)
(* one window (both thresholds look back 30 minutes).  A login asks for a  *)
(* captcha after some failures and is refused after more; a failed one     *)
(* inserts its row and answers 401 by an exception, on which get_db rolls  *)
(* the request's transaction back.                                         *)
(***************************************************************************)
EXTENDS Requests, Functions

CONSTANTS
    Emails, Ips,
    CaptchaEnabled, CaptchaThreshold,
    MAX_LOGIN_ATTEMPTS,
    MaxLogins              \* bound on the logins of an address in the window

ASSUME LockoutAssumption ==
    /\ CaptchaEnabled \in BOOLEAN /\ CaptchaThreshold \in Nat
    /\ MAX_LOGIN_ATTEMPTS \in Nat \ {0} /\ MaxLogins \in Nat
    /\ Emails # {} /\ Ips # {} /\ IsFiniteSet(Ips) /\ IsFiniteSet(Workers)

VARIABLES
    failures,      \* rows of login_attempts with success = FALSE, by address and IP
    successes,     \* with success = TRUE, by address
    refused,       \* history: passwords refused with a 401
    tried,         \* history: logins begun
    oreq

lockoutVars == <<failures, successes, refused, tried, oreq>>

OIdle == [pc |-> "idle", email |-> CHOOSE e \in Emails : TRUE, ip |-> CHOOSE i \in Ips : TRUE,
          known |-> FALSE]
LoginRequest == [pc : {"idle", "captcha", "locked", "authenticate", "failed", "record"},
                 email : Emails, ip : Ips,
                 known : BOOLEAN]     \* the password is the account's

OBecome(r, q) == oreq' = [oreq EXCEPT ![r] = q]
OKeep == UNCHANGED <<failures, successes, refused, tried>>

LockoutInit ==
    /\ failures = [e \in Emails |-> [i \in Ips |-> 0]]
    /\ successes = [e \in Emails |-> 0]
    /\ refused = [e \in Emails |-> 0] /\ tried = [e \in Emails |-> 0]
    /\ oreq = [r \in Workers |-> OIdle]

-----------------------------------------------------------------------------
Login(r, e, i, known) ==
    /\ ~Busy(oreq, r) /\ tried[e] < MaxLogins
    /\ tried' = [tried EXCEPT ![e] = @ + 1]
    /\ OBecome(r, [pc |-> IF CaptchaEnabled THEN "captcha" ELSE "locked",
                   email |-> e, ip |-> i, known |-> known])
    /\ UNCHANGED <<failures, successes, refused>>

(* is_captcha_required counts the failures of the address and, apart, those *)
(* from the IP; is_locked_out those of the address.                        *)
FailuresOf(e) == SumFunctionOnSet(failures[e], Ips)
FailuresFrom(i) == SumFunctionOnSet([e \in Emails |-> failures[e][i]], Emails)
CaptchaRequired(q) ==
    FailuresOf(q.email) >= CaptchaThreshold \/ FailuresFrom(q.ip) >= CaptchaThreshold

(* Without a valid captcha the answer is that one is required. *)
CheckCaptcha(r) ==
    /\ oreq[r].pc = "captcha"
    /\ \/ OBecome(r, [oreq[r] EXCEPT !.pc = "locked"])
       \/ CaptchaRequired(oreq[r]) /\ OBecome(r, OIdle)
    /\ OKeep

(* AccountLockedError is answered 423. *)
CheckLocked(r) ==
    /\ oreq[r].pc = "locked"
    /\ OBecome(r, IF FailuresOf(oreq[r].email) >= MAX_LOGIN_ATTEMPTS THEN OIdle
                  ELSE [oreq[r] EXCEPT !.pc = "authenticate"])
    /\ OKeep

(* A known password opens a session; with MFA it only yields the token of  *)
(* the second step, and nothing is recorded.                               *)
Authenticate(r) ==
    LET q == oreq[r] IN
    /\ q.pc = "authenticate"
    /\ \/ ~q.known /\ OBecome(r, [q EXCEPT !.pc = "failed"])
       \/ q.known /\ OBecome(r, [q EXCEPT !.pc = "record"])
       \/ q.known /\ OBecome(r, OIdle)
    /\ OKeep

(* The row of the failure is inserted, the answer is an HTTPException, and *)
(* the row goes with the rollback: no failure is ever counted.             *)
RefuseLogin(r) ==
    /\ oreq[r].pc = "failed"
    /\ refused' = [refused EXCEPT ![oreq[r].email] = @ + 1]
    /\ OBecome(r, OIdle)
    /\ UNCHANGED <<failures, successes, tried>>

AcceptLogin(r) ==
    /\ oreq[r].pc = "record"
    /\ successes' = [successes EXCEPT ![oreq[r].email] = @ + 1]
    /\ OBecome(r, OIdle)
    /\ UNCHANGED <<failures, refused, tried>>

OAbort(r) == Busy(oreq, r) /\ OBecome(r, OIdle) /\ OKeep

OArrive(r) == \E e \in Emails, i \in Ips, known \in BOOLEAN : Login(r, e, i, known)
OStep(r) ==
    \/ CheckCaptcha(r) \/ CheckLocked(r) \/ Authenticate(r)
    \/ RefuseLogin(r) \/ AcceptLogin(r)

LockoutNext == \E r \in Workers : OArrive(r) \/ OStep(r) \/ OAbort(r)

LockoutSpec == LockoutInit /\ [][LockoutNext]_lockoutVars

-----------------------------------------------------------------------------
(* What MAX_LOGIN_ATTEMPTS promises: once that many passwords of an        *)
(* address were refused in the window, only the logins already in progress *)
(* can have another one refused.                                           *)
LockedAfterFailures ==
    \A e \in Emails : refused[e] < MAX_LOGIN_ATTEMPTS + Cardinality(Workers)
=============================================================================
