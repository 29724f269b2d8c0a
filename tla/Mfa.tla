--------------------------------- MODULE Mfa ---------------------------------
(***************************************************************************)
(* The second factor of one user: the TOTP secret row, its anti-replay     *)
(* window, the recovery codes and the lockout counter.  Rows belong to the *)
(* request's transaction (one SQL statement per step, visible at commit);  *)
(* the counter lives in Redis, outside of it, and survives a rollback.     *)
(*                                                                         *)
(* Row locks are left out: here they only delay a writer, and each write   *)
(* is a column assignment or a deletion that a later writer repeats.       *)
(*                                                                         *)
(* Time is counted in TOTP windows of 30 seconds; the TOTP code of window  *)
(* w is represented by w, and a code of no window by 0.                    *)
(***************************************************************************)
EXTENDS Requests

CONSTANTS
    MaxFails,    \* MAX_FAILED_ATTEMPTS (5)
    LockLife,    \* LOCKOUT_MINUTES, in windows (60)
    Batch,       \* RECOVERY_CODES_COUNT (10)
    MaxCodes,    \* bound on the recovery codes ever created
    MaxTime,     \* bound on the clock
    Ops          \* the operations of this instance

VerifyOps == {"login", "verify", "disable", "regenerate"}
AllOps == VerifyOps \cup {"setup", "enable", "recover"}

ASSUME MfaAssumption ==
    /\ Ops \subseteq AllOps
    /\ IsFiniteSet(Workers)
    /\ MaxFails \in Nat \ {0} /\ LockLife \in Nat \ {0}
    /\ Batch \in Nat \ {0} /\ MaxCodes \in Nat /\ MaxTime \in Nat \ {0}

TOTP_WINDOW == 1

Codes == 1..MaxCodes
Windows == 0..(MaxTime + TOTP_WINDOW)

VARIABLES
    now,
    configured, enabled, lastWin,   \* the row of mfa_secrets; 0: no window used yet
    rows,       \* recovery codes in mfa_recovery_codes
    spent,      \* how often each was consumed (used_at is set when not 0)
    lastCode,   \* codes created so far
    fails, failsUntil,   \* Redis: the counter and its expiry
    alone,      \* history: no two requests have overlapped so far
    lastTotp,   \* history: the TOTP code accepted last, while alone
    req

db == <<configured, enabled, lastWin, rows, spent, lastCode>>
redis == <<fails, failsUntil>>
history == <<alone, lastTotp>>
vars == <<now, db, redis, history, req>>

Resting == {"idle", "ok"}
Pcs == Resting \cup {"stRead", "stAgain", "stUpdate", "enCheck", "enabled", "lock", "check", "count", "reset",
                     "snap", "rcRead", "rcMark", "commit"}
Request == [pc : Pcs, op : AllOps \cup {"none"},
            totp : Windows, code : 0..MaxCodes,  \* what the client presents (totp: until
                                                 \* verified, then a history while alone)
            seenEn : BOOLEAN, seenWin : 0..MaxTime,  \* the row as this request loaded it
            cur : 0..MaxTime,                        \* last_totp_window to write
            wDel : SUBSET Codes,                     \* codes its DELETE covers
            marks : BOOLEAN,     \* it has the code's row to mark
            late : BOOLEAN]      \* history: the code was dead when the request arrived

Idle == [pc |-> "idle", op |-> "none", totp |-> 0, code |-> 0, seenEn |-> FALSE,
         seenWin |-> 0, cur |-> 0, wDel |-> {}, marks |-> FALSE, late |-> FALSE]

Failures == IF now < failsUntil THEN fails ELSE 0
(* Deleted or used. *)
Dead(c) == c \notin rows \/ spent[c] # 0
InTolerance(w) == w # 0 /\ now - TOTP_WINDOW <= w /\ w <= now + TOTP_WINDOW

Become(r, rec) == req' = [req EXCEPT ![r] = rec]
Goto(r, pc) == Become(r, [req[r] EXCEPT !.pc = pc])
Fail(r) == Become(r, Idle)
Succeed(r) == Become(r, [Idle EXCEPT !.pc = "ok"])

Init ==
    /\ now = 1
    /\ configured = FALSE /\ enabled = FALSE /\ lastWin = 0
    /\ rows = {} /\ spent = [c \in Codes |-> 0] /\ lastCode = 0
    /\ fails = 0 /\ failsUntil = 0
    /\ lastTotp = 0
    /\ alone = TRUE
    /\ req = [r \in Workers |-> Idle]

-----------------------------------------------------------------------------
FirstPc == [setup |-> "stRead", enable |-> "enCheck", login |-> "lock", verify |-> "enabled",
            disable |-> "enabled", regenerate |-> "enabled", recover |-> "enabled"]

Begin(r, op, w, c) ==
    /\ req[r].pc \in Resting
    /\ w = 0 \/ op \in VerifyOps \cup {"enable"}
    /\ c = 0 \/ op = "recover"
    /\ c <= lastCode
    /\ Become(r, [Idle EXCEPT !.pc = FirstPc[op], !.op = op, !.totp = w, !.code = c,
                               !.late = c # 0 /\ Dead(c)])
    /\ alone' = (alone /\ \A q \in Workers : req[q].pc \in Resting)
    /\ lastTotp' = IF alone' THEN lastTotp ELSE 0
    /\ UNCHANGED <<now, db, redis>>

(* setup_mfa: a secret that is configured and not enabled is shown again. *)
SetupRead(r) ==
    /\ req[r].pc = "stRead"
    /\ \/ enabled /\ Fail(r)
       \/ configured /\ ~enabled /\ Succeed(r)
       \/ ~configured /\ Goto(r, "stAgain")
    /\ UNCHANGED <<now, db, redis, history>>

(* create_or_update looks for the row again before it inserts one. *)
SetupAgain(r) ==
    /\ req[r].pc = "stAgain"
    /\ IF configured
         THEN Become(r, [req[r] EXCEPT !.pc = "stUpdate", !.seenEn = enabled])
         ELSE Goto(r, "commit")
    /\ UNCHANGED <<now, db, redis, history>>

(* The first read of the row: verify and recover only ask whether MFA is   *)
(* enabled; disable and regenerate keep the object they loaded.            *)
ReadEnabled(r) ==
    /\ req[r].pc = "enabled"
    /\ \/ ~enabled /\ Fail(r)
       \/ /\ enabled
          /\ IF req[r].op = "recover"
               THEN Goto(r, "rcRead")
               ELSE Become(r, [req[r] EXCEPT !.pc = "lock", !.seenWin = lastWin])
    /\ UNCHANGED <<now, db, redis, history>>

(* Mutant of CheckLockout: the count is not compared. *)
CheckLockoutSkipped(r) ==
    /\ req[r].pc = "lock"
    /\ Goto(r, "check")
    /\ UNCHANGED <<now, db, redis, history>>

CheckLockout(r) ==
    /\ req[r].pc = "lock"
    /\ IF Failures >= MaxFails THEN Fail(r) ELSE Goto(r, "check")
    /\ UNCHANGED <<now, db, redis, history>>

(* These two hold the row they loaded first, so verify_totp sees it again. *)
KeepsRow == {"disable", "regenerate"}

(* The anti-replay test compares the current window, not the code's. *)
VerifyTotp(r) ==
    LET kept == req[r].op \in KeepsRow
        last == IF kept THEN req[r].seenWin ELSE lastWin
    IN
    /\ req[r].pc = "check"
    /\ IF (kept \/ enabled) /\ last < now /\ InTolerance(req[r].totp)
         THEN Become(r, [req[r] EXCEPT !.pc = "reset", !.seenWin = 0, !.cur = now,
                                       !.totp = IF alone THEN @ ELSE 0])
         ELSE Become(r, [Idle EXCEPT !.pc = "count"])
    /\ UNCHANGED <<now, db, redis, history>>

(* INCR and EXPIRE in one MULTI; the request then fails and rolls back. *)
RecordFailure(r) ==
    /\ req[r].pc = "count"
    /\ fails' = Failures + 1 /\ failsUntil' = now + LockLife
    /\ Fail(r)
    /\ UNCHANGED <<now, db, history>>

ResetFailures(r) ==
    /\ req[r].pc = "reset"
    /\ fails' = 0 /\ failsUntil' = 0
    /\ Goto(r, IF req[r].op \in {"login", "verify"} THEN "commit" ELSE "snap")
    /\ UNCHANGED <<now, db, history>>

(* enable_mfa: no anti-replay and no lockout, the secret need only exist. *)
EnableCheck(r) ==
    /\ req[r].pc = "enCheck"
    /\ IF configured /\ InTolerance(req[r].totp)
         THEN Become(r, [req[r] EXCEPT !.pc = "snap", !.totp = 0, !.seenEn = enabled])
         ELSE Fail(r)
    /\ UNCHANGED <<now, db, redis, history>>

(* Mutant of SnapshotCodes: the old codes are left in place. *)
SnapshotNothing(r) ==
    /\ req[r].pc = "snap"
    /\ Goto(r, "commit")
    /\ UNCHANGED <<now, db, redis, history>>

(* delete_all_for_user: one DELETE, of the rows it sees when it starts. *)
SnapshotCodes(r) ==
    /\ req[r].pc = "snap"
    /\ Become(r, [req[r] EXCEPT !.pc = "commit", !.wDel = rows])
    /\ UNCHANGED <<now, db, redis, history>>

(* Mutant of RecoverRead: the codes of former batches are found too. *)
RecoverReadDeleted(r) ==
    /\ req[r].pc = "rcRead"
    /\ IF req[r].code # 0 /\ spent[req[r].code] = 0
         THEN Goto(r, "rcMark")
         ELSE Fail(r)
    /\ UNCHANGED <<now, db, redis, history>>

(* A code is looked for among the unused ones, *)
RecoverRead(r) ==
    /\ req[r].pc = "rcRead"
    /\ IF req[r].code \in rows /\ spent[req[r].code] = 0
         THEN Goto(r, "rcMark")
         ELSE Fail(r)
    /\ UNCHANGED <<now, db, redis, history>>

(* and its row read again to be marked.  When it is gone by then nothing   *)
(* is marked, and the code is accepted all the same.                       *)
RecoverMark(r) ==
    /\ req[r].pc = "rcMark"
    /\ Become(r, [req[r] EXCEPT !.pc = "commit", !.marks = req[r].code \in rows])
    /\ UNCHANGED <<now, db, redis, history>>

-----------------------------------------------------------------------------
(* user_id is the primary key: a second insert waits, then is refused. *)
CommitSetup(r) ==
    /\ req[r].pc = "commit" /\ req[r].op = "setup"
    /\ configured' = TRUE
    /\ IF configured THEN Fail(r) ELSE Succeed(r)
    /\ UNCHANGED <<now, enabled, lastWin, rows, spent, lastCode, redis, history>>

(* A row another request inserted meanwhile gets the new secret; enabled   *)
(* is reset when it was read as set.                                       *)
CommitSecret(r) ==
    /\ req[r].pc = "stUpdate"
    /\ enabled' = (enabled /\ ~req[r].seenEn)
    /\ Succeed(r)
    /\ UNCHANGED <<now, configured, lastWin, rows, spent, lastCode, redis, history>>

(* Only the columns that differ from the loaded object are written. *)
WriteSecret(r) ==
    /\ enabled' = CASE req[r].op = "disable" -> FALSE
                    [] req[r].op = "enable" -> enabled \/ ~req[r].seenEn
                    [] OTHER -> enabled
    /\ lastWin' = IF req[r].op \in VerifyOps THEN req[r].cur ELSE lastWin
    /\ lastTotp' = IF alone /\ req[r].op \in VerifyOps THEN req[r].totp ELSE lastTotp

WriteCodes(r) ==
    IF req[r].op \in {"enable", "regenerate"}
    THEN /\ lastCode' = lastCode + Batch
         /\ rows' = (rows \ req[r].wDel) \cup (lastCode + 1)..(lastCode + Batch)
    ELSE rows' = rows \ req[r].wDel /\ UNCHANGED lastCode

NewCodes(r) == IF req[r].op \in {"enable", "regenerate"} THEN Batch ELSE 0

CommitVerified(r) ==
    /\ req[r].pc = "commit" /\ req[r].op \in VerifyOps \cup {"enable"}
    /\ lastCode + NewCodes(r) <= MaxCodes
    /\ WriteSecret(r) /\ WriteCodes(r)
    /\ Succeed(r)
    /\ UNCHANGED <<now, configured, spent, redis, alone>>

NoRoom(r) ==
    /\ req[r].pc = "commit" /\ lastCode + NewCodes(r) > MaxCodes
    /\ Fail(r)
    /\ UNCHANGED <<now, db, redis, history>>

(* The mark is flushed by the commit: UPDATE ... WHERE id, which raises    *)
(* StaleDataError when the row is gone.                                    *)
CommitRecover(r) ==
    LET c == req[r].code IN
    /\ req[r].pc = "commit" /\ req[r].op = "recover"
    /\ \/ /\ req[r].marks /\ c \in rows
          /\ spent' = [spent EXCEPT ![c] = IF @ = 0 THEN 1 ELSE 2] /\ Succeed(r)
       \/ req[r].marks /\ c \notin rows /\ Fail(r) /\ UNCHANGED spent
       \/ ~req[r].marks /\ Succeed(r) /\ UNCHANGED spent
    /\ UNCHANGED <<now, configured, enabled, lastWin, rows, lastCode, redis, history>>

(* The process dies or the client goes away; what Redis counted stays. *)
Crash(r) ==
    /\ req[r].pc \notin Resting
    /\ Fail(r)
    /\ UNCHANGED <<now, db, redis, history>>

Tick ==
    /\ now < MaxTime
    /\ now' = now + 1
    /\ UNCHANGED <<db, redis, history, req>>

-----------------------------------------------------------------------------
Step(r) ==
    \/ SetupRead(r) \/ SetupAgain(r) \/ CommitSecret(r)
    \/ ReadEnabled(r) \/ CheckLockout(r) \/ VerifyTotp(r) \/ RecordFailure(r)
    \/ ResetFailures(r) \/ EnableCheck(r) \/ SnapshotCodes(r)
    \/ RecoverRead(r) \/ RecoverMark(r)
    \/ CommitSetup(r) \/ CommitVerified(r) \/ NoRoom(r) \/ CommitRecover(r)

Arrive(r) == \E op \in Ops, w \in Windows, c \in 0..MaxCodes : Begin(r, op, w, c)

Next == Tick \/ \E r \in Workers : Arrive(r) \/ Step(r) \/ Crash(r)

Spec == Init /\ [][Next]_vars

-----------------------------------------------------------------------------
TypeOK ==
    /\ now \in 1..MaxTime
    /\ configured \in BOOLEAN /\ enabled \in BOOLEAN /\ lastWin \in 0..MaxTime
    /\ rows \subseteq Codes /\ spent \in [Codes -> 0..2] /\ lastCode \in 0..MaxCodes
    /\ fails \in Nat /\ failsUntil \in 0..(MaxTime + LockLife)
    /\ lastTotp \in Windows /\ alone \in BOOLEAN
    /\ req \in [Workers -> Request]

(* "Lockout apres 5 echecs consecutifs": the count is read before the code *)
(* is verified and incremented after it, so requests in flight overrun it, *)
(* but by no more than the requests the server runs at once.               *)
GuessesBounded == Failures <= MaxFails - 1 + Cardinality(Workers)

(* "Invalide tous les anciens codes": a recovery code that was deleted or  *)
(* used when the request arrived is not accepted, and one that is accepted *)
(* is deleted or used from then on, whatever overlaps.  A code deleted or  *)
(* used while the request is under way may still be accepted.              *)
CodeDiesWithUse ==
    [][\A r \in Workers, c \in Codes :
          /\ req[r].pc = "commit" /\ req[r].op = "recover" /\ req[r].code = c
          /\ req'[r].pc = "ok"
          => ~req[r].late /\ Dead(c)']_vars

(* As long as requests do not overlap, recovery codes exist exactly while  *)
(* MFA is enabled, one batch of them, and each is consumed once at most;   *)
(* crashes between two statements included.                                *)
CodesOfOneBatch ==
    alone => /\ enabled <=> rows # {}
             /\ Cardinality(rows) <= Batch
             /\ \A c \in Codes : spent[c] <= 1

(* As long as requests do not overlap, one TOTP verification at most       *)
(* succeeds in a window of 30 seconds.                                     *)
OneAcceptancePerWindow ==
    [][\A r \in Workers :
          alone /\ req[r].pc = "commit" /\ req[r].op \in VerifyOps /\ req'[r].pc = "ok" =>
             lastWin' > lastWin]_vars

(* "Protection anti-replay empeche la reutilisation d'un code TOTP": the   *)
(* code accepted last is not accepted again, requests made one at a time.  *)
TotpCodeOnce ==
    [][\A r \in Workers :
          alone /\ req[r].pc = "commit" /\ req[r].op \in VerifyOps /\ req'[r].pc = "ok" =>
             req[r].totp # lastTotp]_vars

(* The second factor is consistent: the parts above. *)
FactorConsistent == TypeOK /\ CodesOfOneBatch

(* What no step of a verification or a recovery does. *)
FactorSteps == CodeDiesWithUse /\ OneAcceptancePerWindow
=============================================================================
