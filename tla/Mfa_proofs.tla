------------------------------ MODULE Mfa_proofs ------------------------------
(***************************************************************************)
(* Proofs about Mfa, for any number of concurrent requests, any lockout    *)
(* threshold and duration, and any bound on codes and time.                *)
(***************************************************************************)
EXTENDS Mfa, FiniteSetTheorems, TLAPS

(* The requests that may still record a failure: past the lockout check    *)
(* and not yet answered by the verification.                               *)
GuessPcs == {"check", "count"}
Guessing == {r \in Workers : req[r].pc \in GuessPcs}

(* Each failure on record was preceded by a lockout check that allowed it, *)
(* and the requests still guessing will add one each at most.              *)
LockoutInv == Failures + Cardinality(Guessing) <= MaxFails - 1 + Cardinality(Workers)

LEMMA IdleType == Idle \in Request /\ Idle.pc = "idle" /\ Idle.op = "none"
BY MfaAssumption DEF Idle, Request, Pcs, Resting, Windows, Codes, TOTP_WINDOW

LEMMA InitType == Init => TypeOK
<1> SUFFICES ASSUME Init PROVE TypeOK
  OBVIOUS
<1>1. req \in [Workers -> Request]
  BY IdleType DEF Init
<1>2. spent \in [Codes -> 0..2]
  BY DEF Init
<1>3. /\ now \in 1..MaxTime /\ lastWin \in 0..MaxTime /\ lastTotp \in Windows
      /\ lastCode \in 0..MaxCodes /\ failsUntil \in 0..(MaxTime + LockLife)
  BY MfaAssumption DEF Init, Windows, TOTP_WINDOW
<1>4. rows \subseteq Codes /\ fails \in Nat /\ alone \in BOOLEAN
      /\ configured \in BOOLEAN /\ enabled \in BOOLEAN
  BY DEF Init
<1> QED BY <1>1, <1>2, <1>3, <1>4 DEF TypeOK

(* One worker's record is replaced, the others are left alone. *)
LEMMA Moved ==
    ASSUME TypeOK, NEW r \in Workers, NEW x, x \in Request, Become(r, x)
    PROVE  /\ req' \in [Workers -> Request] /\ req'[r] = x
           /\ \A q \in Workers : q # r => req'[q] = req[q]
BY DEF Become, TypeOK

(* The steps that only move a request leave the state well typed. *)
LEMMA LocalType ==
    ASSUME TypeOK, NEW r \in Workers, NEW x, x \in Request, Become(r, x),
           UNCHANGED <<now, db, redis>>,
           UNCHANGED history \/ (alone' \in BOOLEAN /\ lastTotp' \in Windows)
    PROVE  TypeOK'
BY Moved DEF TypeOK, db, redis, history

LEMMA FailuresType == TypeOK => Failures \in Nat
BY DEF TypeOK, Failures

(* The records a step can give a request. *)
LEMMA Records ==
    ASSUME TypeOK, NEW r \in Workers
    PROVE  /\ req[r] \in Request
           /\ \A pc \in Pcs : [req[r] EXCEPT !.pc = pc] \in Request
           /\ [Idle EXCEPT !.pc = "ok"] \in Request
           /\ [Idle EXCEPT !.pc = "count"] \in Request
BY IdleType DEF TypeOK, Request, Pcs, Resting

(* What the reading steps write into a record. *)
LEMMA Updated ==
    ASSUME NEW x \in Request, NEW w \in 0..MaxTime, NEW t \in Windows, NEW b \in BOOLEAN,
           NEW S \in SUBSET Codes
    PROVE  /\ [x EXCEPT !.pc = "stUpdate", !.seenEn = b] \in Request
           /\ [x EXCEPT !.pc = "lock", !.seenWin = w] \in Request
           /\ [x EXCEPT !.pc = "snap", !.totp = 0, !.seenEn = b] \in Request
           /\ [x EXCEPT !.pc = "commit", !.wDel = S] \in Request
           /\ [x EXCEPT !.pc = "reset", !.seenWin = 0, !.cur = w, !.totp = t] \in Request
           /\ [x EXCEPT !.pc = "commit", !.marks = b] \in Request
<1>1. 0 \in 0..MaxTime /\ 0 \in Windows
  BY MfaAssumption DEF Windows, TOTP_WINDOW
<1>2. [x EXCEPT !.pc = "stUpdate", !.seenEn = b] \in Request
  BY DEF Request, Pcs
<1>3. [x EXCEPT !.pc = "lock", !.seenWin = w] \in Request
  BY DEF Request, Pcs
<1>4. [x EXCEPT !.pc = "snap", !.totp = 0, !.seenEn = b] \in Request
  BY <1>1 DEF Request, Pcs
<1>5. [x EXCEPT !.pc = "commit", !.wDel = S] \in Request
  BY DEF Request, Pcs
<1>6. [x EXCEPT !.pc = "reset", !.seenWin = 0, !.cur = w, !.totp = t] \in Request
  BY <1>1 DEF Request, Pcs
<1>7. [x EXCEPT !.pc = "commit", !.marks = b] \in Request
  BY DEF Request, Pcs
<1> QED BY <1>2, <1>3, <1>4, <1>5, <1>6, <1>7

LEMMA Marked ==
    ASSUME NEW x \in Request, NEW S
    PROVE  [x EXCEPT !.pc = "commit", !.marks = x.code \in S] \in Request
<1>1. [x EXCEPT !.pc = "commit", !.marks = TRUE] \in Request
  BY DEF Request, Pcs
<1>2. [x EXCEPT !.pc = "commit", !.marks = FALSE] \in Request
  BY DEF Request, Pcs
<1>3. CASE x.code \in S
  <2>1. (x.code \in S) = TRUE
    BY <1>3
  <2> QED BY <1>1, <2>1
<1>4. CASE x.code \notin S
  <2>1. (x.code \in S) = FALSE
    BY <1>4
  <2> QED BY <1>2, <2>1
<1> QED BY <1>3, <1>4

LEMMA UpdatedPc ==
    ASSUME NEW x \in Request, NEW y, NEW w, NEW b, NEW S,
           \/ y = Idle
           \/ y = [x EXCEPT !.pc = "commit"] \/ y = [x EXCEPT !.pc = "rcRead"]
           \/ y = [x EXCEPT !.pc = "stUpdate", !.seenEn = b]
           \/ y = [x EXCEPT !.pc = "lock", !.seenWin = w]
           \/ y = [x EXCEPT !.pc = "snap", !.totp = 0, !.seenEn = b]
           \/ y = [x EXCEPT !.pc = "commit", !.wDel = S]
           \/ y = [x EXCEPT !.pc = "commit", !.marks = b]
    PROVE  y.pc \in {"idle", "commit", "rcRead", "stUpdate", "lock", "snap"}
<1>1. CASE y = Idle
  BY <1>1, IdleType
<1>2. CASE y = [x EXCEPT !.pc = "commit"] \/ y = [x EXCEPT !.pc = "rcRead"]
  BY <1>2 DEF Request
<1>3. CASE y = [x EXCEPT !.pc = "stUpdate", !.seenEn = b]
  BY <1>3 DEF Request
<1>4. CASE y = [x EXCEPT !.pc = "lock", !.seenWin = w]
  BY <1>4 DEF Request
<1>5. CASE y = [x EXCEPT !.pc = "snap", !.totp = 0, !.seenEn = b]
  BY <1>5 DEF Request
<1>6. CASE y = [x EXCEPT !.pc = "commit", !.wDel = S]
  BY <1>6 DEF Request
<1>7. CASE y = [x EXCEPT !.pc = "commit", !.marks = b]
  BY <1>7 DEF Request
<1> QED BY <1>1, <1>2, <1>3, <1>4, <1>5, <1>6, <1>7

LEMMA BeginType ==
    ASSUME TypeOK, NEW r \in Workers, NEW op \in Ops, NEW w \in Windows,
           NEW c \in 0..MaxCodes, Begin(r, op, w, c)
    PROVE  TypeOK'
<1> DEFINE x == [Idle EXCEPT !.pc = FirstPc[op], !.op = op, !.totp = w, !.code = c,
                             !.late = c # 0 /\ Dead(c)]
<1>1. op \in AllOps /\ FirstPc[op] \in Pcs
  BY MfaAssumption DEF AllOps, VerifyOps, FirstPc, Pcs
<1>2. x \in Request
  BY <1>1, IdleType DEF Request
<1>3. alone' \in BOOLEAN /\ lastTotp' \in Windows
  BY MfaAssumption DEF Begin, TypeOK, Windows, TOTP_WINDOW
<1>4. Become(r, x) /\ UNCHANGED <<now, db, redis>>
  BY DEF Begin
<1> HIDE DEF x
<1> QED BY <1>2, <1>3, <1>4, LocalType

(* The steps that only read: the guards, the lockout, the code. *)
Reading(r) ==
    \/ SetupRead(r) \/ SetupAgain(r) \/ ReadEnabled(r) \/ CheckLockout(r)
    \/ VerifyTotp(r) \/ EnableCheck(r) \/ SnapshotCodes(r) \/ RecoverRead(r)
    \/ RecoverMark(r) \/ NoRoom(r) \/ Crash(r)

LEMMA ReadingRecord ==
    ASSUME TypeOK, NEW r \in Workers, Reading(r)
    PROVE  /\ UNCHANGED <<now, db, redis, history>>
           /\ \E x \in Request : Become(r, x)
<1> USE Records, IdleType DEF Fail, Succeed, Goto
<1>0. /\ now \in 0..MaxTime /\ rows \in SUBSET Codes
      /\ \A t \in Windows : (IF alone THEN t ELSE 0) \in Windows
      /\ req[r].totp \in Windows
  BY MfaAssumption DEF TypeOK, Windows, TOTP_WINDOW, Request
<1>1. UNCHANGED <<now, db, redis, history>>
  BY DEF Reading, SetupRead, SetupAgain, ReadEnabled, CheckLockout, VerifyTotp, EnableCheck,
     SnapshotCodes, RecoverRead, RecoverMark, NoRoom, Crash
<1>2. CASE SetupRead(r) \/ CheckLockout(r) \/ RecoverRead(r) \/ NoRoom(r) \/ Crash(r)
  BY <1>2 DEF SetupRead, CheckLockout, RecoverRead, NoRoom, Crash, Pcs
<1>3. CASE SetupAgain(r)
  <2>1. [req[r] EXCEPT !.pc = "stUpdate", !.seenEn = enabled] \in Request
    BY Updated, <1>0 DEF TypeOK
  <2> QED BY <1>3, <2>1 DEF SetupAgain, Pcs
<1>4. CASE ReadEnabled(r)
  <2>1. [req[r] EXCEPT !.pc = "lock", !.seenWin = lastWin] \in Request
    BY Updated, <1>0 DEF TypeOK
  <2> QED BY <1>4, <2>1 DEF ReadEnabled, Pcs
<1>5. CASE VerifyTotp(r)
  <2>1. [req[r] EXCEPT !.pc = "reset", !.seenWin = 0, !.cur = now,
                       !.totp = IF alone THEN @ ELSE 0] \in Request
    BY Updated, <1>0 DEF TypeOK
  <2> QED BY <1>5, <2>1 DEF VerifyTotp
<1>6. CASE EnableCheck(r)
  <2>1. [req[r] EXCEPT !.pc = "snap", !.totp = 0, !.seenEn = enabled] \in Request
    BY Updated, <1>0 DEF TypeOK
  <2> QED BY <1>6, <2>1 DEF EnableCheck
<1>7. CASE SnapshotCodes(r)
  <2>1. [req[r] EXCEPT !.pc = "commit", !.wDel = rows] \in Request
    BY Updated, <1>0 DEF TypeOK
  <2> QED BY <1>7, <2>1 DEF SnapshotCodes
<1>8. CASE RecoverMark(r)
  <2>1. [req[r] EXCEPT !.pc = "commit", !.marks = req[r].code \in rows] \in Request
    BY Marked
  <2> QED BY <1>8, <2>1 DEF RecoverMark
<1> QED BY <1>1, <1>2, <1>3, <1>4, <1>5, <1>6, <1>7, <1>8 DEF Reading

LEMMA CommitType ==
    ASSUME TypeOK, NEW r \in Workers,
           CommitSetup(r) \/ CommitSecret(r) \/ CommitVerified(r) \/ CommitRecover(r)
    PROVE  TypeOK'
<1>1. req' \in [Workers -> Request]
  BY Records, IdleType, Moved
     DEF CommitSetup, CommitSecret, CommitVerified, CommitRecover, Fail, Succeed
<1>2. CASE CommitSetup(r) \/ CommitSecret(r)
  BY <1>1, <1>2 DEF CommitSetup, CommitSecret, TypeOK, redis, history
<1>3. CASE CommitRecover(r)
  BY <1>1, <1>3 DEF CommitRecover, TypeOK, redis, history
<1>4. CASE CommitVerified(r)
  <2>1. enabled' \in BOOLEAN /\ lastWin' \in 0..MaxTime /\ lastTotp' \in Windows
    BY <1>4, Records DEF CommitVerified, WriteSecret, TypeOK, Request
  <2>2. rows' \subseteq Codes /\ lastCode' \in 0..MaxCodes
    <3>1. rows \subseteq Codes /\ lastCode \in 0..MaxCodes
      BY DEF TypeOK
    <3>2. CASE req[r].op \in {"enable", "regenerate"}
      <4>1. lastCode + Batch <= MaxCodes
        BY <1>4, <3>2 DEF CommitVerified, NewCodes
      <4>2. (lastCode + 1)..(lastCode + Batch) \subseteq Codes /\ lastCode + Batch \in 0..MaxCodes
        BY <3>1, <4>1, MfaAssumption DEF Codes
      <4> QED BY <1>4, <3>1, <3>2, <4>2 DEF CommitVerified, WriteCodes
    <3>3. CASE req[r].op \notin {"enable", "regenerate"}
      BY <1>4, <3>1, <3>3 DEF CommitVerified, WriteCodes
    <3> QED BY <3>2, <3>3
  <2> QED BY <1>1, <1>4, <2>1, <2>2 DEF CommitVerified, TypeOK, redis
<1> QED BY <1>2, <1>3, <1>4

LEMMA RedisType ==
    ASSUME TypeOK, NEW r \in Workers, RecordFailure(r) \/ ResetFailures(r)
    PROVE  TypeOK'
<1>1. req' \in [Workers -> Request]
  BY Records, IdleType, Moved DEF RecordFailure, ResetFailures, Fail, Goto, Pcs
<1>2. fails' \in Nat /\ failsUntil' \in 0..(MaxTime + LockLife)
  BY FailuresType, MfaAssumption DEF RecordFailure, ResetFailures, TypeOK
<1> QED BY <1>1, <1>2 DEF RecordFailure, ResetFailures, TypeOK, db, history

LEMMA NextType == TypeOK /\ [Next]_vars => TypeOK'
<1> SUFFICES ASSUME TypeOK, [Next]_vars PROVE TypeOK'
  OBVIOUS
<1>1. CASE UNCHANGED vars
  BY <1>1 DEF vars, db, redis, history, TypeOK
<1>2. CASE Tick
  BY <1>2, MfaAssumption DEF Tick, db, redis, history, TypeOK
<1>3. ASSUME NEW r \in Workers, Arrive(r) PROVE TypeOK'
  BY <1>3, BeginType DEF Arrive
<1>4. ASSUME NEW r \in Workers, Reading(r) PROVE TypeOK'
  BY <1>4, ReadingRecord, LocalType
<1>5. ASSUME NEW r \in Workers, Step(r) \/ Crash(r) PROVE TypeOK'
  BY <1>4, <1>5, CommitType, RedisType DEF Step, Reading
<1> QED BY <1>1, <1>2, <1>3, <1>5 DEF Next

(* TypeOK: no request, crash or tick takes the second factor's rows and    *)
(* counter out of their types.                                             *)
THEOREM TypeCorrect == Spec => []TypeOK
BY InitType, NextType, PTL DEF Spec

-----------------------------------------------------------------------------
LEMMA GuessingFinite ==
    ASSUME NEW T, T \subseteq Workers
    PROVE  /\ IsFiniteSet(T) /\ Cardinality(T) \in Nat /\ Cardinality(Workers) \in Nat
           /\ Cardinality(T) <= Cardinality(Workers)
           /\ \A S \in SUBSET T : Cardinality(S) \in Nat /\ Cardinality(S) <= Cardinality(T)
           /\ \A r \in T : Cardinality(T \ {r}) = Cardinality(T) - 1
<1>1. IsFiniteSet(Workers)
  BY MfaAssumption
<1>2. IsFiniteSet(T) /\ Cardinality(T) <= Cardinality(Workers)
  BY <1>1, FS_Subset
<1>3. \A S \in SUBSET T : IsFiniteSet(S) /\ Cardinality(S) <= Cardinality(T)
  BY <1>2, FS_Subset
<1>4. \A r \in T : Cardinality(T \ {r}) = Cardinality(T) - 1
  BY <1>2, FS_RemoveElement
<1> QED BY <1>1, <1>2, <1>3, <1>4, FS_CardinalityType

(* A step that does not add to the count and lets no request begin to      *)
(* guess keeps the bound.                                                  *)
LEMMA NoMoreGuessing ==
    ASSUME TypeOK, TypeOK', LockoutInv, Guessing' \subseteq Guessing, Failures' <= Failures
    PROVE  LockoutInv'
<1>1. Guessing \subseteq Workers
  BY DEF Guessing
<1>2. Cardinality(Guessing') \in Nat /\ Cardinality(Guessing') <= Cardinality(Guessing)
      /\ Cardinality(Guessing) \in Nat /\ Cardinality(Workers) \in Nat
  BY <1>1, GuessingFinite
<1>3. Failures \in Nat /\ Failures' \in Nat
  BY FailuresType DEF TypeOK, Failures
<1> QED BY <1>2, <1>3, MfaAssumption DEF LockoutInv

(* One request moves on, and not to the verification. *)
LEMMA MovedOn ==
    ASSUME TypeOK, NEW r \in Workers, NEW x \in Request, Become(r, x),
           x.pc \in GuessPcs => req[r].pc \in GuessPcs
    PROVE  Guessing' \subseteq Guessing
BY Moved DEF Guessing

LEMMA ReadingGuesses ==
    ASSUME TypeOK, NEW r \in Workers,
           Reading(r) \/ CommitSetup(r) \/ CommitSecret(r) \/ CommitVerified(r)
             \/ CommitRecover(r) \/ Arrive(r) \/ ResetFailures(r),
           ~(CheckLockout(r) /\ Failures < MaxFails)
    PROVE  Guessing' \subseteq Guessing
<1> USE Records, IdleType DEF Fail, Succeed, Goto, GuessPcs
<1>1. CASE Arrive(r)
  <2>1. PICK op \in Ops, w \in Windows, c \in 0..MaxCodes : Begin(r, op, w, c)
    BY <1>1 DEF Arrive
  <2>2. FirstPc[op] \notin GuessPcs
    BY MfaAssumption DEF AllOps, VerifyOps, FirstPc
  <2>3. req'[r].pc \notin GuessPcs /\ \A q \in Workers : q # r => req'[q] = req[q]
    BY <2>1, <2>2, IdleType DEF Begin, Become, TypeOK, Request
  <2> QED BY <2>3 DEF Guessing
<1>2. ASSUME NEW x \in Request, Become(r, x), x.pc \in GuessPcs => req[r].pc \in GuessPcs
      PROVE  Guessing' \subseteq Guessing
  BY <1>2, MovedOn
<1>3. ASSUME Fail(r) \/ Succeed(r) PROVE Guessing' \subseteq Guessing
  <2>1. [Idle EXCEPT !.pc = "ok"].pc \notin GuessPcs /\ Idle.pc \notin GuessPcs
    BY DEF Request
  <2> QED BY <1>2, <1>3, <2>1
<1>4. ASSUME NEW pc \in Pcs \ GuessPcs, Goto(r, pc) PROVE Guessing' \subseteq Guessing
  <2>1. [req[r] EXCEPT !.pc = pc].pc = pc
    BY DEF Request
  <2> QED BY <1>2, <1>4, <2>1
<1>5. CASE \/ SetupRead(r) \/ CheckLockout(r) \/ RecoverRead(r) \/ NoRoom(r) \/ Crash(r)
           \/ CommitSetup(r) \/ CommitSecret(r) \/ CommitVerified(r) \/ CommitRecover(r)
           \/ ResetFailures(r)
  <2>1. /\ "stAgain" \in Pcs \ GuessPcs /\ "commit" \in Pcs \ GuessPcs
        /\ "snap" \in Pcs \ GuessPcs /\ "rcMark" \in Pcs \ GuessPcs
    BY DEF Pcs
  <2>2. CheckLockout(r) => Failures >= MaxFails
    BY FailuresType, MfaAssumption
  <2> HIDE DEF Fail, Succeed, Goto, GuessPcs
  <2> QED BY <1>3, <1>4, <1>5, <2>1, <2>2
          DEF SetupRead, CheckLockout, RecoverRead, NoRoom, Crash, CommitSetup, CommitSecret,
              CommitVerified, CommitRecover, ResetFailures
<1>6. CASE \/ SetupAgain(r) \/ ReadEnabled(r) \/ VerifyTotp(r) \/ EnableCheck(r)
           \/ SnapshotCodes(r) \/ RecoverMark(r)
  <2>1. PICK x \in Request : Become(r, x)
    BY <1>6, ReadingRecord DEF Reading
  <2>2. req'[r] = x /\ req[r] \in Request
    BY <2>1, Moved
  <2>3. x.pc \in GuessPcs => req[r].pc \in GuessPcs
    <3>1. CASE VerifyTotp(r)
      BY <3>1 DEF VerifyTotp
    <3>2. CASE ~VerifyTotp(r)
      <4>1. \/ Fail(r)
            \/ Goto(r, "commit") \/ Goto(r, "rcRead")
            \/ Become(r, [req[r] EXCEPT !.pc = "stUpdate", !.seenEn = enabled])
            \/ Become(r, [req[r] EXCEPT !.pc = "lock", !.seenWin = lastWin])
            \/ Become(r, [req[r] EXCEPT !.pc = "snap", !.totp = 0, !.seenEn = enabled])
            \/ Become(r, [req[r] EXCEPT !.pc = "commit", !.wDel = rows])
            \/ Become(r, [req[r] EXCEPT !.pc = "commit", !.marks = req[r].code \in rows])
        BY <1>6, <3>2 DEF SetupAgain, ReadEnabled, EnableCheck, SnapshotCodes, RecoverMark
      <4>2. \A y : Become(r, y) => x = y
        BY <2>2 DEF Become, TypeOK
      <4>3. \/ x = Idle
            \/ x = [req[r] EXCEPT !.pc = "commit"] \/ x = [req[r] EXCEPT !.pc = "rcRead"]
            \/ x = [req[r] EXCEPT !.pc = "stUpdate", !.seenEn = enabled]
            \/ x = [req[r] EXCEPT !.pc = "lock", !.seenWin = lastWin]
            \/ x = [req[r] EXCEPT !.pc = "snap", !.totp = 0, !.seenEn = enabled]
            \/ x = [req[r] EXCEPT !.pc = "commit", !.wDel = rows]
            \/ x = [req[r] EXCEPT !.pc = "commit", !.marks = req[r].code \in rows]
        BY <4>1, <4>2
      <4>4. x.pc \in {"idle", "commit", "rcRead", "stUpdate", "lock", "snap"}
        BY <2>2, <4>3, UpdatedPc
      <4> QED BY <4>4
    <3> QED BY <3>1, <3>2
  <2> QED BY <1>2, <2>1, <2>3
<1> QED BY <1>1, <1>5, <1>6 DEF Reading

LEMMA NextLockout == TypeOK /\ LockoutInv /\ [Next]_vars => LockoutInv'
<1> SUFFICES ASSUME TypeOK, LockoutInv, [Next]_vars PROVE LockoutInv'
  OBVIOUS
<1>1. TypeOK' /\ Guessing \subseteq Workers /\ Guessing' \subseteq Workers
  BY NextType DEF Guessing
<1>2. Failures \in Nat /\ Failures' \in Nat
  BY <1>1, FailuresType DEF TypeOK, Failures
<1>3. CASE Tick \/ UNCHANGED vars
  <2>1. Guessing' = Guessing
    BY <1>3 DEF Tick, vars, Guessing
  <2>2. Failures' <= Failures
    BY <1>3, <1>2 DEF Tick, vars, redis, Failures, TypeOK
  <2> QED BY <1>1, <2>1, <2>2, NoMoreGuessing
<1>4. ASSUME NEW r \in Workers, CheckLockout(r), Failures < MaxFails PROVE LockoutInv'
  <2>1. Failures' = Failures
    BY <1>4 DEF CheckLockout, redis, Failures
  <2>2. Cardinality(Guessing') \in Nat /\ Cardinality(Workers) \in Nat
        /\ Cardinality(Guessing') <= Cardinality(Workers)
    BY <1>1, GuessingFinite
  <2> QED BY <1>2, <1>4, <2>1, <2>2, MfaAssumption DEF LockoutInv
<1>5. ASSUME NEW r \in Workers, RecordFailure(r) PROVE LockoutInv'
  <2>1. Failures' = Failures + 1
    BY <1>5, <1>2, MfaAssumption DEF RecordFailure, Failures, TypeOK
  <2>2. r \in Guessing
    BY <1>5 DEF RecordFailure, Guessing, GuessPcs
  <2>3. Guessing' = Guessing \ {r}
    <3>1. req'[r] = Idle /\ \A q \in Workers : q # r => req'[q] = req[q]
      BY <1>5, IdleType, Moved DEF RecordFailure, Fail
    <3> QED BY <3>1, IdleType DEF Guessing, GuessPcs
  <2>4. Cardinality(Guessing') = Cardinality(Guessing) - 1 /\ Cardinality(Guessing) \in Nat
        /\ Cardinality(Workers) \in Nat
    BY <1>1, <2>2, <2>3, GuessingFinite
  <2> QED BY <1>2, <2>1, <2>4, MfaAssumption DEF LockoutInv
<1>6. ASSUME NEW r \in Workers,
             Reading(r) \/ CommitSetup(r) \/ CommitSecret(r) \/ CommitVerified(r)
               \/ CommitRecover(r) \/ Arrive(r) \/ ResetFailures(r),
             ~(CheckLockout(r) /\ Failures < MaxFails)
      PROVE  LockoutInv'
  <2>1. Guessing' \subseteq Guessing
    BY <1>6, ReadingGuesses
  <2>2. Failures' <= Failures
    <3>1. CASE ResetFailures(r)
      BY <3>1, <1>2 DEF ResetFailures, Failures
    <3>2. CASE Reading(r)
      BY <3>2, <1>2, ReadingRecord DEF redis, Failures
    <3>3. CASE \/ CommitSetup(r) \/ CommitSecret(r) \/ CommitVerified(r) \/ CommitRecover(r)
      BY <3>3, <1>2 DEF CommitSetup, CommitSecret, CommitVerified, CommitRecover, redis, Failures
    <3>4. CASE Arrive(r)
      BY <3>4, <1>2 DEF Arrive, Begin, redis, Failures
    <3> QED BY <1>6, <3>1, <3>2, <3>3, <3>4
  <2> QED BY <1>1, <2>1, <2>2, NoMoreGuessing
<1> QED BY <1>3, <1>4, <1>5, <1>6 DEF Next, Step, Reading

(* GuessesBounded: the lockout of 5 failures is overrun by no more than    *)
(* the requests that were past the check when the last one was counted,    *)
(* whatever the threshold and however many requests run at once.           *)
THEOREM LockoutHolds == Spec => []GuessesBounded
<1>1. Init => LockoutInv
  <2> SUFFICES ASSUME Init PROVE LockoutInv
    OBVIOUS
  <2>1. Failures = 0
    BY DEF Init, Failures
  <2>2. Guessing = {}
    BY DEF Init, Guessing, GuessPcs, Idle
  <2>3. Cardinality(Guessing) = 0 /\ Cardinality(Workers) \in Nat
    BY <2>2, FS_EmptySet, FS_CardinalityType, MfaAssumption
  <2> QED BY <2>1, <2>3, MfaAssumption DEF LockoutInv
<1>2. TypeOK /\ LockoutInv => GuessesBounded
  <2> SUFFICES ASSUME TypeOK, LockoutInv PROVE GuessesBounded
    OBVIOUS
  <2>1. Cardinality(Guessing) \in Nat /\ Cardinality(Workers) \in Nat
    BY GuessingFinite DEF Guessing
  <2> QED BY <2>1, FailuresType, MfaAssumption DEF LockoutInv, GuessesBounded
<1> QED BY <1>1, <1>2, InitType, NextType, NextLockout, PTL DEF Spec

-----------------------------------------------------------------------------
(* The factor of a user whose requests come one at a time.  Which          *)
(* statement a request runs next tells its operation; what it has read of  *)
(* the row and of the codes stays true, since nobody else writes.          *)
OwnPc(q) ==
    /\ q.pc \in {"stRead", "stAgain", "stUpdate"} => q.op = "setup"
    /\ q.pc = "enCheck" => q.op = "enable"
    /\ q.pc = "enabled" => q.op \in {"verify", "recover"} \cup KeepsRow
    /\ q.pc \in {"lock", "check", "reset"} => q.op \in VerifyOps
    /\ q.pc = "snap" => q.op \in KeepsRow \cup {"enable"}
    /\ q.pc \in {"rcRead", "rcMark"} => q.op = "recover"
    /\ q.op \in {"login", "verify"} => q.wDel = {}
FactorWork(q) ==
    /\ q.pc # "stUpdate" /\ (q.pc = "stAgain" => ~configured)
    /\ q.pc \in {"lock", "check"} /\ q.op \in KeepsRow => q.seenWin = lastWin
    /\ q.pc \in {"lock", "check", "reset", "snap", "commit"} /\ q.op \in KeepsRow => enabled
    /\ q.pc \in {"reset", "snap", "commit"} /\ q.op \in VerifyOps => q.cur > lastWin
    /\ q.pc \in {"snap", "commit"} /\ q.op = "enable" => q.seenEn = enabled
    /\ q.pc = "commit" /\ q.op \in KeepsRow \cup {"enable"} => q.wDel = rows
    /\ q.pc \in {"rcMark", "commit"} /\ q.op = "recover" => spent[q.code] = 0
OneAtATime ==
    alone => \A p, o \in Workers : p # o => req[p].pc \in Resting \/ req[o].pc \in Resting
FactorInv ==
    /\ TypeOK /\ OneAtATime /\ CodesOfOneBatch
    /\ \A r \in Workers : OwnPc(req[r]) /\ (alone => FactorWork(req[r]))

(* A request in progress takes a step: the others rest, or the history of  *)
(* overlaps has been lost.                                                 *)
LEMMA FactorGoesOn ==
    ASSUME FactorInv, NEW r \in Workers, NEW x \in Request, Become(r, x), req[r].pc \notin Resting,
           UNCHANGED alone, TypeOK', CodesOfOneBatch', OwnPc(x), alone => FactorWork(x)'
    PROVE  FactorInv'
<1>1. req'[r] = x /\ \A q \in Workers : q # r => req'[q] = req[q]
  BY Moved DEF FactorInv
<1>2. OneAtATime'
  <2> SUFFICES ASSUME alone, NEW p \in Workers, NEW o \in Workers, p # o
               PROVE  req'[p].pc \in Resting \/ req'[o].pc \in Resting
    BY DEF OneAtATime
  <2>1. req[p].pc \in Resting \/ req[o].pc \in Resting
    BY DEF FactorInv, OneAtATime
  <2> QED BY <1>1, <2>1
<1>3. ASSUME NEW o \in Workers PROVE OwnPc(req'[o])
  BY <1>1 DEF FactorInv
<1>4. ASSUME NEW o \in Workers, alone PROVE FactorWork(req[o])'
  <2>1. CASE o = r
    BY <1>1, <1>4, <2>1 DEF FactorWork
  <2>2. CASE o # r
    <3>1. req'[o].pc \in Resting
      BY <1>1, <1>4, <2>2 DEF FactorInv, OneAtATime
    <3> QED BY <3>1 DEF FactorWork, Resting
  <2> QED BY <2>1, <2>2
<1> QED BY <1>2, <1>3, <1>4 DEF FactorInv, OwnPc

(* The step writes neither to the rows nor to the history. *)
LEMMA FactorLocal ==
    ASSUME FactorInv, NEW r \in Workers, NEW x \in Request, Become(r, x), req[r].pc \notin Resting,
           UNCHANGED <<db, history>>, TypeOK', OwnPc(x), alone => FactorWork(x)
    PROVE  FactorInv'
<1>1. UNCHANGED <<configured, enabled, lastWin, rows, spent, lastCode, alone, lastTotp>>
  BY DEF db, history
<1>2. CodesOfOneBatch'
  BY <1>1 DEF FactorInv, CodesOfOneBatch
<1>3. alone => FactorWork(x)'
  BY <1>1 DEF FactorWork
<1> QED BY <1>1, <1>2, <1>3, FactorGoesOn

(* Whoever rests keeps nothing. *)
LEMMA FactorResting ==
    ASSUME NEW x \in Request, x.pc \in Resting \cup {"count"}, x.op = "none"
    PROVE  OwnPc(x) /\ FactorWork(x) /\ FactorWork(x)'
BY DEF OwnPc, FactorWork, Resting, KeepsRow, VerifyOps

LEMMA RestingRecords ==
    /\ Idle \in Request /\ Idle.pc \in Resting /\ Idle.op = "none"
    /\ [Idle EXCEPT !.pc = "ok"] \in Request /\ [Idle EXCEPT !.pc = "ok"].pc \in Resting
    /\ [Idle EXCEPT !.pc = "ok"].op = "none"
    /\ [Idle EXCEPT !.pc = "count"] \in Request /\ [Idle EXCEPT !.pc = "count"].pc = "count"
    /\ [Idle EXCEPT !.pc = "count"].op = "none"
<1>1. Idle.wDel = {} /\ Idle \in Request /\ Idle.pc = "idle" /\ Idle.op = "none"
  BY IdleType DEF Idle
<1>2. "ok" \in Pcs /\ "count" \in Pcs
  BY DEF Pcs, Resting
<1> QED BY <1>1, <1>2 DEF Request, Resting

LEMMA FactorInitial == Init => FactorInv
<1> SUFFICES ASSUME Init PROVE FactorInv
  OBVIOUS
<1>1. /\ req = [r \in Workers |-> Idle] /\ ~enabled /\ rows = {} /\ spent = [c \in Codes |-> 0]
  BY DEF Init
<1>2. TypeOK
  BY InitType
<1>3. OwnPc(Idle) /\ FactorWork(Idle)
  BY RestingRecords, FactorResting
<1>4. CodesOfOneBatch
  BY <1>1, FS_EmptySet, MfaAssumption DEF CodesOfOneBatch
<1> QED BY <1>1, <1>2, <1>3, <1>4, RestingRecords DEF FactorInv, OneAtATime

(* A request arrives. *)
LEMMA FactorBegins ==
    ASSUME FactorInv, NEW r \in Workers, NEW op \in Ops, NEW w \in Windows, NEW c \in 0..MaxCodes,
           Begin(r, op, w, c)
    PROVE  FactorInv'
<1>1. PICK x \in Request :
          x = [Idle EXCEPT !.pc = FirstPc[op], !.op = op, !.totp = w, !.code = c,
                           !.late = c # 0 /\ Dead(c)]
  <2>1. op \in AllOps /\ FirstPc[op] \in Pcs
    BY MfaAssumption DEF AllOps, VerifyOps, FirstPc, Pcs
  <2> QED BY <2>1, IdleType DEF Request
<1>2. /\ op \in AllOps /\ x.op = op /\ x.pc = FirstPc[op] /\ x.wDel = {}
      /\ x.pc = "lock" => op = "login"
      /\ x.pc \in {"stRead", "enCheck", "lock", "enabled"}
  <2>1. op \in AllOps
    BY MfaAssumption
  <2>2. Idle \in Request /\ Idle.wDel = {}
    BY IdleType DEF Idle
  <2>3. x.op = op /\ x.pc = FirstPc[op] /\ x.wDel = {}
    BY <1>1, <2>2 DEF Request
  <2> QED BY <2>1, <2>3 DEF AllOps, VerifyOps, FirstPc
<1>3. /\ Become(r, x) /\ alone' \in BOOLEAN /\ (alone' => alone)
      /\ alone' => \A q \in Workers : req[q].pc \in Resting
      /\ UNCHANGED <<configured, enabled, lastWin, rows, spent, lastCode>>
  BY <1>1 DEF Begin, db, FactorInv, TypeOK
<1>4. req'[r] = x /\ \A q \in Workers : q # r => req'[q] = req[q]
  BY <1>3, Moved DEF FactorInv
<1>5. TypeOK'
  BY BeginType DEF FactorInv
<1>6. OneAtATime'
  BY <1>3, <1>4 DEF OneAtATime
<1>7. CodesOfOneBatch'
  BY <1>3 DEF FactorInv, CodesOfOneBatch
<1>8. OwnPc(x) /\ FactorWork(x)'
  BY <1>2 DEF OwnPc, FactorWork, FirstPc, AllOps, VerifyOps, KeepsRow
<1>9. ASSUME NEW o \in Workers PROVE OwnPc(req'[o]) /\ (alone' => FactorWork(req[o])')
  <2>1. CASE o = r
    BY <1>4, <1>8, <2>1 DEF FactorWork
  <2>2. CASE o # r
    BY <1>3, <1>4, <2>2 DEF FactorInv, FactorWork
  <2> QED BY <2>1, <2>2
<1> QED BY <1>5, <1>6, <1>7, <1>9 DEF FactorInv, OwnPc

(* What a request reads stays so while it is alone. *)
LEMMA FactorReads ==
    ASSUME FactorInv, NEW r \in Workers, Reading(r)
    PROVE  FactorInv'
<1> DEFINE q == req[r]
<1>0. /\ q \in Request /\ OwnPc(q) /\ (alone => FactorWork(q))
      /\ UNCHANGED <<now, db, redis, history>> /\ TypeOK'
  BY Records, ReadingRecord, LocalType DEF FactorInv
<1>1. q.pc \notin Resting
  BY DEF Reading, SetupRead, SetupAgain, ReadEnabled, CheckLockout, VerifyTotp, EnableCheck,
     SnapshotCodes, RecoverRead, RecoverMark, NoRoom, Crash, Resting
<1>2. Fail(r) => FactorInv'
  <2> SUFFICES ASSUME Fail(r) PROVE FactorInv'
    OBVIOUS
  <2> QED BY <1>0, <1>1, RestingRecords, FactorResting, FactorLocal DEF Fail
<1>3. Succeed(r) => FactorInv'
  <2> SUFFICES ASSUME Succeed(r) PROVE FactorInv'
    OBVIOUS
  <2> QED BY <1>0, <1>1, RestingRecords, FactorResting, FactorLocal DEF Succeed
<1>4. ASSUME NEW pc \in Pcs, Goto(r, pc), pc \in {"stAgain", "check", "commit", "rcRead", "rcMark"},
             pc = "stAgain" => q.pc = "stRead" /\ ~configured,
             pc = "check" => q.pc = "lock",
             pc = "commit" => q.pc = "stAgain",
             pc = "rcMark" => q.pc = "rcRead" /\ spent[q.code] = 0,
             pc = "rcRead" => q.pc = "enabled" /\ q.op = "recover"
      PROVE  FactorInv'
  <2>1. PICK x \in Request : x = [q EXCEPT !.pc = pc]
    BY <1>0, Records DEF FactorInv
  <2>2. /\ Become(r, x) /\ x.pc = pc /\ x.op = q.op /\ x.code = q.code /\ x.wDel = q.wDel
        /\ x.seenWin = q.seenWin
    BY <1>0, <1>4, <2>1 DEF Goto, Request
  <2>3. OwnPc(x)
    BY <1>0, <1>4, <2>2 DEF OwnPc
  <2>4. alone => FactorWork(x)
    BY <1>0, <1>4, <2>2 DEF OwnPc, FactorWork, KeepsRow, VerifyOps
  <2> QED BY <1>0, <1>1, <2>2, <2>3, <2>4, FactorLocal
<1>5. CASE SetupRead(r)
  BY <1>2, <1>3, <1>4, <1>5 DEF SetupRead, Pcs
<1>6. CASE SetupAgain(r)
  <2>1. CASE Goto(r, "commit")
    BY <1>4, <1>6, <2>1 DEF SetupAgain, Pcs, Resting
  <2>2. CASE configured /\ Become(r, [q EXCEPT !.pc = "stUpdate", !.seenEn = enabled])
    <3>1. PICK x \in Request : x = [q EXCEPT !.pc = "stUpdate", !.seenEn = enabled]
      BY <1>0, Updated, MfaAssumption DEF FactorInv, TypeOK, Windows, TOTP_WINDOW
    <3>2. x.pc = "stUpdate" /\ x.op = q.op /\ x.wDel = q.wDel /\ Become(r, x) /\ q.pc = "stAgain"
      BY <1>0, <1>6, <2>2, <3>1 DEF Request, SetupAgain
    <3>3. OwnPc(x) /\ ~alone
      BY <1>0, <2>2, <3>2 DEF OwnPc, FactorWork
    <3> QED BY <1>0, <1>1, <3>2, <3>3, FactorLocal
  <2> QED BY <1>6, <2>1, <2>2 DEF SetupAgain
<1>7. CASE ReadEnabled(r)
  <2>1. CASE Fail(r)
    BY <1>2, <2>1
  <2>2. CASE q.op = "recover" /\ Goto(r, "rcRead")
    BY <1>4, <1>7, <2>2 DEF ReadEnabled, Pcs
  <2>3. CASE enabled /\ q.op # "recover" /\ Become(r, [q EXCEPT !.pc = "lock", !.seenWin = lastWin])
    <3>1. PICK x \in Request : x = [q EXCEPT !.pc = "lock", !.seenWin = lastWin]
      BY <1>0, Updated, MfaAssumption DEF FactorInv, TypeOK, Windows, TOTP_WINDOW
    <3>2. /\ x.pc = "lock" /\ x.op = q.op /\ x.wDel = q.wDel /\ x.seenWin = lastWin
          /\ Become(r, x) /\ q.pc = "enabled"
      BY <1>0, <1>7, <2>3, <3>1 DEF Request, ReadEnabled
    <3>3. OwnPc(x)
      BY <1>0, <2>3, <3>2 DEF OwnPc, VerifyOps, KeepsRow
    <3>4. FactorWork(x)
      BY <2>3, <3>2 DEF FactorWork, VerifyOps, KeepsRow
    <3> QED BY <1>0, <1>1, <3>2, <3>3, <3>4, FactorLocal
  <2> QED BY <1>7, <2>1, <2>2, <2>3 DEF ReadEnabled
<1>8. CASE CheckLockout(r)
  BY <1>2, <1>4, <1>8 DEF CheckLockout, Pcs
<1>9. CASE VerifyTotp(r)
  <2> DEFINE last == IF q.op \in KeepsRow THEN q.seenWin ELSE lastWin
             t == IF alone THEN q.totp ELSE 0
  <2>1. CASE Become(r, [Idle EXCEPT !.pc = "count"])
    BY <1>0, <1>1, <2>1, RestingRecords, FactorResting, FactorLocal
  <2>2. CASE last < now /\ Become(r, [q EXCEPT !.pc = "reset", !.seenWin = 0, !.cur = now, !.totp = t])
    <3>0. now \in 0..MaxTime /\ t \in Windows /\ lastWin \in Nat
      BY <1>0, MfaAssumption DEF FactorInv, TypeOK, Request, Windows, TOTP_WINDOW
    <3>1. PICK x \in Request :
              x = [q EXCEPT !.pc = "reset", !.seenWin = 0, !.cur = now, !.totp = t]
      BY <1>0, <3>0, Updated
    <3>2. /\ x.pc = "reset" /\ x.op = q.op /\ x.wDel = q.wDel /\ x.cur = now
          /\ Become(r, x) /\ q.pc = "check"
      BY <1>0, <1>9, <2>2, <3>1 DEF Request, VerifyTotp
    <3>3. OwnPc(x)
      BY <1>0, <3>2 DEF OwnPc
    <3>4. alone => last = lastWin /\ now > lastWin
      BY <1>0, <2>2, <3>0, <3>2 DEF FactorWork
    <3>5. alone => FactorWork(x)
      BY <1>0, <3>2, <3>4 DEF FactorWork, OwnPc, VerifyOps, KeepsRow
    <3> HIDE DEF t, last
    <3> QED BY <1>0, <1>1, <3>2, <3>3, <3>5, FactorLocal
  <2> QED BY <1>9, <2>1, <2>2 DEF VerifyTotp
<1>10. CASE EnableCheck(r)
  <2>1. CASE Become(r, [q EXCEPT !.pc = "snap", !.totp = 0, !.seenEn = enabled])
    <3>1. PICK x \in Request : x = [q EXCEPT !.pc = "snap", !.totp = 0, !.seenEn = enabled]
      BY <1>0, Updated, MfaAssumption DEF FactorInv, TypeOK, Windows, TOTP_WINDOW
    <3>2. /\ x.pc = "snap" /\ x.op = "enable" /\ x.wDel = q.wDel /\ x.seenEn = enabled
          /\ Become(r, x)
      BY <1>0, <1>10, <2>1, <3>1 DEF Request, EnableCheck, OwnPc
    <3>3. OwnPc(x)
      BY <3>2 DEF OwnPc
    <3>4. FactorWork(x)
      BY <3>2 DEF FactorWork, VerifyOps, KeepsRow
    <3> QED BY <1>0, <1>1, <3>2, <3>3, <3>4, FactorLocal
  <2> QED BY <1>2, <1>10, <2>1 DEF EnableCheck
<1>11. CASE SnapshotCodes(r)
  <2>1. PICK x \in Request : x = [q EXCEPT !.pc = "commit", !.wDel = rows]
    BY <1>0, Updated, MfaAssumption DEF FactorInv, TypeOK, Windows, TOTP_WINDOW
  <2>2. /\ x.pc = "commit" /\ x.op = q.op /\ x.wDel = rows /\ x.cur = q.cur /\ x.seenEn = q.seenEn
        /\ Become(r, x) /\ q.pc = "snap"
    BY <1>0, <1>11, <2>1 DEF Request, SnapshotCodes
  <2>3. OwnPc(x)
    BY <1>0, <2>2 DEF OwnPc, KeepsRow
  <2>4. alone => FactorWork(x)
    BY <1>0, <2>2 DEF FactorWork, OwnPc, KeepsRow
  <2> QED BY <1>0, <1>1, <2>2, <2>3, <2>4, FactorLocal
<1>12. CASE RecoverRead(r)
  BY <1>2, <1>4, <1>12 DEF RecoverRead, Pcs, Resting
<1>13. CASE NoRoom(r) \/ Crash(r)
  BY <1>2, <1>13 DEF NoRoom, Crash
<1>14. CASE RecoverMark(r)
  <2>1. PICK x \in Request : x = [q EXCEPT !.pc = "commit", !.marks = q.code \in rows]
    BY <1>0, Marked
  <2>2. /\ x.pc = "commit" /\ x.op = q.op /\ x.wDel = q.wDel /\ x.code = q.code
        /\ Become(r, x) /\ q.pc = "rcMark"
    BY <1>0, <1>14, <2>1 DEF Request, RecoverMark
  <2>3. OwnPc(x)
    BY <1>0, <2>2 DEF OwnPc
  <2>4. alone => FactorWork(x)
    BY <1>0, <2>2 DEF FactorWork, OwnPc, KeepsRow, VerifyOps
  <2> QED BY <1>0, <1>1, <2>2, <2>3, <2>4, FactorLocal
<1> QED BY <1>5, <1>6, <1>7, <1>8, <1>9, <1>10, <1>11, <1>12, <1>13, <1>14 DEF Reading

LEMMA FactorCounts ==
    ASSUME FactorInv, NEW r \in Workers, RecordFailure(r) \/ ResetFailures(r)
    PROVE  FactorInv'
<1>0. TypeOK' /\ UNCHANGED <<db, history>> /\ req[r].pc \notin Resting
  BY RedisType DEF FactorInv, RecordFailure, ResetFailures, Resting
<1>1. CASE RecordFailure(r)
  BY <1>0, <1>1, RestingRecords, FactorResting, FactorLocal DEF RecordFailure, Fail
<1>2. CASE ResetFailures(r)
  <2> DEFINE pc == IF req[r].op \in {"login", "verify"} THEN "commit" ELSE "snap"
  <2>1. PICK x \in Request : x = [req[r] EXCEPT !.pc = pc]
    BY Records DEF FactorInv, Pcs
  <2>2. /\ Become(r, x) /\ x.pc = pc /\ x.op = req[r].op /\ x.wDel = req[r].wDel
        /\ x.cur = req[r].cur /\ req[r].pc = "reset"
    BY <1>2, <2>1, Records DEF ResetFailures, Goto, FactorInv, Request
  <2>3. OwnPc(x)
    BY <2>2 DEF FactorInv, OwnPc, VerifyOps, KeepsRow
  <2>4. alone => FactorWork(x)
    BY <2>2 DEF FactorInv, OwnPc, FactorWork, VerifyOps, KeepsRow
  <2> QED BY <1>0, <2>2, <2>3, <2>4, FactorLocal
<1> QED BY <1>1, <1>2

(* The commits: a deactivation leaves no code, an activation and a         *)
(* regeneration one batch, and a recovery spends a code that was not.      *)
LEMMA FactorCommits ==
    ASSUME FactorInv, NEW r \in Workers,
           CommitSetup(r) \/ CommitSecret(r) \/ CommitVerified(r) \/ CommitRecover(r)
    PROVE  FactorInv'
<1> DEFINE q == req[r]
<1>0. TypeOK' /\ q \in Request /\ OwnPc(q) /\ (alone => FactorWork(q)) /\ q.pc \notin Resting
      /\ UNCHANGED alone
  BY CommitType, Records
     DEF FactorInv, CommitSetup, CommitSecret, CommitVerified, CommitRecover, Resting, history
<1>1. (Fail(r) \/ Succeed(r)) /\ CodesOfOneBatch' => FactorInv'
  BY <1>0, RestingRecords, FactorResting, FactorGoesOn DEF Fail, Succeed
<1>2. CASE CommitSetup(r)
  <2>1. UNCHANGED <<enabled, rows, spent, alone>>
    BY <1>2 DEF CommitSetup, history
  <2> QED BY <1>1, <1>2, <2>1 DEF CommitSetup, FactorInv, CodesOfOneBatch
<1>3. CASE CommitSecret(r)
  <2>1. ~alone /\ UNCHANGED alone
    BY <1>0, <1>3 DEF FactorWork, CommitSecret
  <2> QED BY <1>1, <1>3, <2>1 DEF CommitSecret, CodesOfOneBatch
<1>4. CASE CommitVerified(r)
  <2>1. /\ q.pc = "commit" /\ q.op \in VerifyOps \cup {"enable"} /\ UNCHANGED <<spent, alone>>
        /\ Succeed(r)
    BY <1>4 DEF CommitVerified
  <2>2. alone => (enabled' <=> rows' # {}) /\ Cardinality(rows') <= Batch
    <3> SUFFICES ASSUME alone PROVE (enabled' <=> rows' # {}) /\ Cardinality(rows') <= Batch
      OBVIOUS
    <3>1. /\ enabled <=> rows # {}
          /\ Cardinality(rows) <= Batch
      BY DEF FactorInv, CodesOfOneBatch
    <3>2. CASE q.op \in {"login", "verify"}
      <4>1. enabled' = enabled /\ rows' = rows
        BY <1>0, <1>4, <2>1, <3>2 DEF CommitVerified, WriteSecret, WriteCodes, OwnPc
      <4> QED BY <3>1, <4>1
    <3>3. CASE q.op = "disable"
      <4>1. q.wDel = rows
        BY <1>0, <2>1, <3>3 DEF FactorWork, KeepsRow
      <4>2. ~enabled' /\ rows' = {}
        BY <1>4, <3>3, <4>1 DEF CommitVerified, WriteSecret, WriteCodes
      <4> QED BY <4>2, FS_EmptySet, MfaAssumption
    <3>4. CASE q.op \in {"enable", "regenerate"}
      <4>1. q.wDel = rows
        BY <1>0, <2>1, <3>4 DEF FactorWork, KeepsRow
      <4>2. enabled'
        BY <1>0, <1>4, <2>1, <3>4 DEF CommitVerified, WriteSecret, FactorWork, KeepsRow, FactorInv, TypeOK
      <4>3. rows' = (lastCode + 1)..(lastCode + Batch)
        BY <1>4, <3>4, <4>1 DEF CommitVerified, WriteCodes
      <4>4. lastCode \in Nat /\ Batch \in Nat /\ Batch >= 1
        BY MfaAssumption DEF FactorInv, TypeOK
      <4>5. lastCode + 1 \in rows'
        BY <4>3, <4>4
      <4>6. Cardinality(rows') = Batch
        BY <4>3, <4>4, FS_Interval
      <4> QED BY <4>2, <4>4, <4>5, <4>6
    <3> QED BY <2>1, <3>2, <3>3, <3>4 DEF VerifyOps
  <2>3. CodesOfOneBatch'
    BY <2>1, <2>2 DEF FactorInv, CodesOfOneBatch
  <2> QED BY <1>1, <2>1, <2>3
<1>5. CASE CommitRecover(r)
  <2>1. q.pc = "commit" /\ q.op = "recover" /\ UNCHANGED <<enabled, rows, alone>>
    BY <1>5 DEF CommitRecover, history
  <2>2. (alone => \A c \in Codes : spent'[c] <= 1) /\ (Fail(r) \/ Succeed(r))
    <3>1. CASE (Fail(r) \/ Succeed(r)) /\ UNCHANGED spent
      BY <3>1 DEF FactorInv, CodesOfOneBatch
    <3>2. CASE /\ Succeed(r) /\ q.code \in rows
               /\ spent' = [spent EXCEPT ![q.code] = IF @ = 0 THEN 1 ELSE 2]
      <4>1. alone => spent[q.code] = 0
        BY <1>0, <2>1 DEF FactorWork
      <4>2. spent \in [Codes -> 0..2] /\ rows \subseteq Codes
        BY DEF FactorInv, TypeOK
      <4> QED BY <3>2, <4>1, <4>2 DEF FactorInv, CodesOfOneBatch
    <3> QED BY <1>5, <3>1, <3>2 DEF CommitRecover
  <2> QED BY <1>1, <2>1, <2>2 DEF FactorInv, CodesOfOneBatch
<1> QED BY <1>2, <1>3, <1>4, <1>5

LEMMA FactorStep ==
    ASSUME FactorInv, [Next]_vars
    PROVE  FactorInv'
<1>1. CASE UNCHANGED vars \/ Tick
  <2>1. TypeOK'
    BY NextType DEF FactorInv
  <2>2. UNCHANGED <<configured, enabled, lastWin, rows, spent, lastCode, alone, req>>
    BY <1>1 DEF vars, Tick, db, redis, history
  <2> QED BY <2>1, <2>2 DEF FactorInv, OneAtATime, CodesOfOneBatch, OwnPc, FactorWork
<1>2. ASSUME NEW r \in Workers, Arrive(r) PROVE FactorInv'
  BY <1>2, FactorBegins DEF Arrive
<1>3. ASSUME NEW r \in Workers, Step(r) \/ Crash(r) PROVE FactorInv'
  BY <1>3, FactorReads, FactorCounts, FactorCommits DEF Step, Reading
<1> QED BY <1>1, <1>2, <1>3 DEF Next

(* Requests made one at a time, crashes between two statements included:   *)
(* recovery codes exist exactly while the factor is enabled, one batch of  *)
(* them, each consumed once at most (services/mfa.py).                     *)
THEOREM FactorStaysConsistent == Spec => []FactorConsistent
<1>1. Init => FactorInv
  BY FactorInitial
<1>2. FactorInv /\ [Next]_vars => FactorInv'
  BY FactorStep
<1>3. FactorInv => FactorConsistent
  BY DEF FactorInv, FactorConsistent
<1> QED BY <1>1, <1>2, <1>3, PTL DEF Spec

(* Each step moves one request. *)
LEMMA MovesOne ==
    ASSUME NEW r \in Workers, Arrive(r) \/ Step(r) \/ Crash(r)
    PROVE  \E x : Become(r, x)
BY DEF Arrive, Begin, Step, SetupRead, SetupAgain, CommitSecret, ReadEnabled, CheckLockout,
   VerifyTotp, RecordFailure, ResetFailures, EnableCheck, SnapshotCodes, RecoverRead, RecoverMark,
   CommitSetup, CommitVerified, NoRoom, CommitRecover, Crash, Fail, Succeed, Goto

(* A request that comes to rest was the one to move. *)
LEMMA WhoMoved ==
    ASSUME FactorInv, [Next]_vars, NEW r \in Workers, req[r].pc = "commit",
           req[r].op \in VerifyOps \cup {"recover"}, req'[r].pc = "ok"
    PROVE  CommitVerified(r) \/ CommitRecover(r)
<1>1. CASE UNCHANGED vars \/ Tick
  BY <1>1 DEF vars, Tick
<1>2. ASSUME NEW o \in Workers, Arrive(o) \/ Step(o) \/ Crash(o), o # r PROVE FALSE
  <2>1. PICK x : Become(o, x)
    BY <1>2, MovesOne
  <2>2. req'[r] = req[r]
    BY <1>2, <2>1 DEF Become, FactorInv, TypeOK
  <2> QED BY <2>2
<1>3. CASE Arrive(r) \/ Step(r) \/ Crash(r)
  <2>1. Fail(r) => req'[r].pc = "idle"
    BY IdleType, Moved DEF Fail, FactorInv
  <2> QED BY <1>3, <2>1 DEF Arrive, Begin, Step, SetupRead, SetupAgain, CommitSecret, ReadEnabled,
       CheckLockout, VerifyTotp, RecordFailure, ResetFailures, EnableCheck, SnapshotCodes,
       RecoverRead, RecoverMark, CommitSetup, NoRoom, Crash, Resting, VerifyOps
<1> QED BY <1>1, <1>2, <1>3 DEF Next

-----------------------------------------------------------------------------
(* A recovery code.  No step brings a deleted or used code back, so a      *)
(* request that came too late finds none; and what is accepted without     *)
(* being marked is gone.                                                   *)
RecoveryWork(q) ==
    q.op = "recover" =>
        /\ q.code <= lastCode
        /\ q.late => q.code # 0 /\ Dead(q.code)
        /\ q.pc \in {"rcMark", "commit"} => ~q.late
        /\ q.pc = "commit" /\ ~q.marks => q.code \notin rows
RecoveryInv == \A r \in Workers : RecoveryWork(req[r])

(* Codes are numbered as they are created: none comes back. *)
LEMMA CodesOnlyDie ==
    ASSUME TypeOK, [Next]_vars
    PROVE  /\ lastCode \in Nat /\ lastCode' \in Nat /\ lastCode <= lastCode'
           /\ \A c \in 0..MaxCodes : c <= lastCode /\ c \notin rows => c \notin rows'
           /\ \A c \in Codes : spent[c] # 0 => spent'[c] # 0
<1>1. lastCode \in Nat /\ rows \subseteq Codes /\ spent \in [Codes -> 0..2] /\ lastCode' \in Nat
  BY NextType, MfaAssumption DEF TypeOK
<1>2. ASSUME NEW r \in Workers, CommitVerified(r)
      PROVE  /\ lastCode <= lastCode' /\ UNCHANGED spent
             /\ \A c \in 0..MaxCodes : c <= lastCode /\ c \notin rows => c \notin rows'
  <2>1. CASE req[r].op \in {"enable", "regenerate"}
    <3>1. /\ lastCode' = lastCode + Batch /\ UNCHANGED spent
          /\ rows' = (rows \ req[r].wDel) \cup (lastCode + 1)..(lastCode + Batch)
      BY <1>2, <2>1 DEF CommitVerified, WriteCodes
    <3>2. lastCode <= lastCode'
      BY <1>1, <3>1, MfaAssumption
    <3>3. \A c \in 0..MaxCodes : c <= lastCode => c \notin (lastCode + 1)..(lastCode + Batch)
      BY <1>1, MfaAssumption
    <3> QED BY <3>1, <3>2, <3>3
  <2>2. CASE req[r].op \notin {"enable", "regenerate"}
    BY <1>1, <1>2, <2>2 DEF CommitVerified, WriteCodes
  <2> QED BY <2>1, <2>2
<1>3. ASSUME NEW r \in Workers, CommitRecover(r)
      PROVE  UNCHANGED <<rows, lastCode>> /\ \A c \in Codes : spent[c] # 0 => spent'[c] # 0
  BY <1>1, <1>3 DEF CommitRecover
<1>4. \/ UNCHANGED <<rows, spent, lastCode>>
      \/ \E r \in Workers : CommitVerified(r) \/ CommitRecover(r)
  <2>1. ASSUME NEW r \in Workers, Reading(r) PROVE UNCHANGED <<rows, spent, lastCode>>
    BY <2>1, ReadingRecord DEF db
  <2>2. ASSUME NEW r \in Workers, Arrive(r) PROVE UNCHANGED <<rows, spent, lastCode>>
    BY <2>2 DEF Arrive, Begin, db
  <2>3. ASSUME NEW r \in Workers, RecordFailure(r) \/ ResetFailures(r) \/ CommitSetup(r) \/ CommitSecret(r)
        PROVE  UNCHANGED <<rows, spent, lastCode>>
    BY <2>3 DEF RecordFailure, ResetFailures, CommitSetup, CommitSecret, db
  <2>4. CASE UNCHANGED vars \/ Tick
    BY <2>4 DEF vars, Tick, db
  <2> QED BY <2>1, <2>2, <2>3, <2>4 DEF Next, Step, Reading
<1> QED BY <1>1, <1>2, <1>3, <1>4

(* Some code or none: what a request presents. *)
LEMMA StaysDead ==
    ASSUME TypeOK, [Next]_vars, NEW c \in 0..MaxCodes, c # 0, c <= lastCode, Dead(c)
    PROVE  Dead(c)'
<1>1. c \in Codes
  BY MfaAssumption DEF Codes
<1> QED BY <1>1, CodesOnlyDie DEF Dead

(* Whoever does not move keeps what it knows. *)
LEMMA RecoveryWaits ==
    ASSUME TypeOK, [Next]_vars, NEW q \in Request, RecoveryWork(q)
    PROVE  RecoveryWork(q)'
<1> SUFFICES ASSUME q.op = "recover" PROVE RecoveryWork(q)'
  BY DEF RecoveryWork
<1>1. /\ q.code \in 0..MaxCodes /\ q.code \in Nat /\ q.code <= lastCode
      /\ q.late => q.code # 0 /\ Dead(q.code)
      /\ q.pc \in {"rcMark", "commit"} => ~q.late
      /\ q.pc = "commit" /\ ~q.marks => q.code \notin rows
  BY MfaAssumption DEF RecoveryWork, Request
<1>2. lastCode \in Nat /\ lastCode' \in Nat /\ lastCode <= lastCode'
      /\ (q.code \notin rows => q.code \notin rows')
  BY <1>1, CodesOnlyDie
<1>3. q.late => Dead(q.code)'
  BY <1>1, StaysDead
<1>4. q.code <= lastCode'
  BY <1>1, <1>2
<1> QED BY <1>1, <1>2, <1>3, <1>4 DEF RecoveryWork

(* A request that reads. *)
LEMMA RecoveryReads ==
    ASSUME FactorInv, NEW r \in Workers, Reading(r), RecoveryWork(req[r])
    PROVE  RecoveryWork(req[r])'
<1> DEFINE q == req[r]
<1>1. TypeOK /\ q \in Request /\ OwnPc(q) /\ UNCHANGED <<rows, spent, lastCode>>
  BY Records, ReadingRecord DEF db, FactorInv
<1>2. \A x : Become(r, x) => req'[r] = x
  BY <1>1 DEF Become, TypeOK
<1>3. Fail(r) \/ Succeed(r) => req'[r].op = "none"
  BY <1>2, RestingRecords DEF Fail, Succeed
<1>4. \A pc \in Pcs : Goto(r, pc) =>
         req'[r].pc = pc /\ req'[r].op = q.op /\ req'[r].code = q.code /\ req'[r].late = q.late
  BY <1>1, <1>2 DEF Goto, Request
<1>5. CASE q.op # "recover"
  <2>1. req'[r].op \in {"none", q.op}
    <3>1. CASE SetupRead(r) \/ CheckLockout(r) \/ RecoverRead(r) \/ NoRoom(r) \/ Crash(r)
      BY <1>3, <1>4, <3>1 DEF SetupRead, CheckLockout, RecoverRead, NoRoom, Crash, Pcs
    <3>2. CASE SetupAgain(r)
      <4>1. [q EXCEPT !.pc = "stUpdate", !.seenEn = enabled].op = q.op
        BY <1>1 DEF Request
      <4> QED BY <1>2, <1>4, <3>2, <4>1 DEF SetupAgain, Pcs
    <3>3. CASE ReadEnabled(r)
      <4>1. [q EXCEPT !.pc = "lock", !.seenWin = lastWin].op = q.op
        BY <1>1 DEF Request
      <4> QED BY <1>2, <1>3, <1>4, <3>3, <4>1 DEF ReadEnabled, Pcs
    <3>4. CASE VerifyTotp(r)
      <4>1. [q EXCEPT !.pc = "reset", !.seenWin = 0, !.cur = now,
                      !.totp = IF alone THEN @ ELSE 0].op = q.op
        BY <1>1 DEF Request
      <4> QED BY <1>2, <3>4, <4>1, RestingRecords DEF VerifyTotp
    <3>5. CASE EnableCheck(r)
      <4>1. [q EXCEPT !.pc = "snap", !.totp = 0, !.seenEn = enabled].op = q.op
        BY <1>1 DEF Request
      <4> QED BY <1>2, <1>3, <3>5, <4>1 DEF EnableCheck
    <3>6. CASE SnapshotCodes(r)
      <4>1. [q EXCEPT !.pc = "commit", !.wDel = rows].op = q.op
        BY <1>1 DEF Request
      <4> QED BY <1>2, <3>6, <4>1 DEF SnapshotCodes
    <3>7. CASE RecoverMark(r)
      <4>1. [q EXCEPT !.pc = "commit", !.marks = q.code \in rows].op = q.op
        BY <1>1 DEF Request
      <4> QED BY <1>2, <3>7, <4>1 DEF RecoverMark
    <3> QED BY <3>1, <3>2, <3>3, <3>4, <3>5, <3>6, <3>7 DEF Reading
  <2> QED BY <1>5, <2>1 DEF RecoveryWork
<1>6. CASE q.op = "recover"
  <2>1. ReadEnabled(r) \/ RecoverRead(r) \/ RecoverMark(r) \/ Fail(r)
    BY <1>1, <1>6 DEF Reading, OwnPc, VerifyOps, KeepsRow, SetupRead, SetupAgain, CheckLockout,
       VerifyTotp, EnableCheck, SnapshotCodes, NoRoom, Crash
  <2>2. CASE Fail(r)
    BY <1>3, <2>2 DEF RecoveryWork
  <2>3. CASE ReadEnabled(r) /\ ~Fail(r)
    <3>1. Goto(r, "rcRead") /\ "rcRead" \in Pcs
      BY <1>6, <2>3 DEF ReadEnabled, Pcs
    <3>2. /\ req'[r].pc = "rcRead" /\ req'[r].op = q.op /\ req'[r].code = q.code
          /\ req'[r].late = q.late
      BY <1>4, <3>1
    <3> QED BY <1>1, <3>2 DEF RecoveryWork, Dead
  <2>4. CASE RecoverRead(r) /\ ~Fail(r)
    <3>1. Goto(r, "rcMark") /\ "rcMark" \in Pcs /\ ~Dead(q.code)
      BY <2>4 DEF RecoverRead, Pcs, Dead
    <3>2. /\ req'[r].pc = "rcMark" /\ req'[r].op = q.op /\ req'[r].code = q.code
          /\ req'[r].late = q.late
      BY <1>4, <3>1
    <3> QED BY <1>1, <1>6, <3>1, <3>2 DEF RecoveryWork
  <2>5. CASE RecoverMark(r)
    <3>1. q.pc = "rcMark" /\ req'[r] = [q EXCEPT !.pc = "commit", !.marks = q.code \in rows]
      BY <1>2, <2>5 DEF RecoverMark
    <3>2. /\ req'[r].pc = "commit" /\ req'[r].op = q.op /\ req'[r].code = q.code
          /\ req'[r].late = q.late /\ req'[r].marks = (q.code \in rows)
      BY <1>1, <3>1 DEF Request
    <3> QED BY <1>1, <1>6, <3>1, <3>2 DEF RecoveryWork, Dead
  <2> QED BY <2>1, <2>2, <2>3, <2>4, <2>5
<1> QED BY <1>5, <1>6

(* A request that arrives, writes or answers. *)
LEMMA RecoveryMoves ==
    ASSUME FactorInv, [Next]_vars, NEW r \in Workers, Arrive(r) \/ (Step(r) /\ ~Reading(r))
    PROVE  RecoveryWork(req[r])'
<1>1. TypeOK /\ req[r] \in Request /\ OwnPc(req[r])
  BY Records DEF FactorInv
<1>2. \A x : Become(r, x) => req'[r] = x
  BY <1>1 DEF Become, TypeOK
<1>3. Fail(r) \/ Succeed(r) => req'[r].op = "none"
  BY <1>2, RestingRecords DEF Fail, Succeed
<1>4. CASE Arrive(r)
  <2>1. PICK op \in Ops, w \in Windows, c \in 0..MaxCodes : Begin(r, op, w, c)
    BY <1>4 DEF Arrive
  <2>2. /\ c <= lastCode /\ UNCHANGED <<rows, spent, lastCode>>
        /\ req'[r] = [Idle EXCEPT !.pc = FirstPc[op], !.op = op, !.totp = w, !.code = c,
                                  !.late = c # 0 /\ Dead(c)]
    BY <1>2, <2>1 DEF Begin, db
  <2>3. /\ req'[r].pc = FirstPc[op] /\ req'[r].code = c /\ req'[r].op = op
        /\ req'[r].late = (c # 0 /\ Dead(c))
    BY <2>2, IdleType DEF Request
  <2>4. FirstPc[op] \notin {"rcMark", "commit"}
    BY MfaAssumption DEF FirstPc, AllOps, VerifyOps
  <2> QED BY <2>2, <2>3, <2>4 DEF RecoveryWork, Dead
<1>5. CASE ResetFailures(r)
  <2>1. req'[r] = [req[r] EXCEPT !.pc = IF req[r].op \in {"login", "verify"} THEN "commit" ELSE "snap"]
    BY <1>2, <1>5 DEF ResetFailures, Goto
  <2>2. req'[r].op = req[r].op
    BY <1>1, <2>1 DEF Request
  <2>3. req[r].op # "recover"
    BY <1>1, <1>5 DEF ResetFailures, OwnPc, VerifyOps
  <2> QED BY <2>2, <2>3 DEF RecoveryWork
<1>6. CASE RecordFailure(r) \/ CommitSetup(r) \/ CommitSecret(r) \/ CommitVerified(r) \/ CommitRecover(r)
  BY <1>3, <1>6
     DEF RecordFailure, CommitSetup, CommitSecret, CommitVerified, CommitRecover, RecoveryWork
<1> QED BY <1>4, <1>5, <1>6 DEF Step, Reading

LEMMA RecoveryStep ==
    ASSUME FactorInv, RecoveryInv, [Next]_vars
    PROVE  RecoveryInv'
<1>1. TypeOK
  BY DEF FactorInv
<1>2. CASE UNCHANGED vars \/ Tick
  <2>1. UNCHANGED <<rows, spent, lastCode, req>>
    BY <1>2 DEF vars, Tick, db
  <2> QED BY <2>1 DEF RecoveryInv, RecoveryWork, Dead
<1>3. ASSUME NEW o \in Workers, Arrive(o) \/ Step(o) \/ Crash(o), NEW r \in Workers
      PROVE  RecoveryWork(req[r])'
  <2>1. RecoveryWork(req[r]) /\ req[r] \in Request
    BY Records, <1>1 DEF RecoveryInv
  <2>2. CASE r = o
    <3>1. CASE Reading(o)
      BY <2>1, <2>2, <3>1, RecoveryReads
    <3>2. CASE ~Reading(o)
      BY <1>3, <2>2, <3>2, RecoveryMoves DEF Reading
    <3> QED BY <3>1, <3>2
  <2>3. CASE r # o
    <3>1. req'[r] = req[r]
      BY <1>1, <1>3, <2>3, MovesOne DEF Become, TypeOK
    <3>2. PICK q \in Request : q = req[r]
      BY <2>1
    <3>3. RecoveryWork(q)'
      BY <1>1, <2>1, <3>2, RecoveryWaits
    <3> QED BY <3>1, <3>2, <3>3 DEF RecoveryWork
  <2> QED BY <2>2, <2>3
<1> QED BY <1>2, <1>3 DEF Next, RecoveryInv

(* A recovery code deleted or used before a request arrived is not         *)
(* accepted from it, whatever overlaps, and one that is accepted is dead   *)
(* from then on (services/mfa.py verify_recovery_code); and requests made  *)
(* one at a time have one verification accepted in a window (verify_totp). *)
THEOREM FactorStepsHold == Spec => FactorSteps
<1>1. Init => FactorInv /\ RecoveryInv
  <2>1. Init => RecoveryInv
    BY RestingRecords DEF Init, RecoveryInv, RecoveryWork
  <2> QED BY <2>1, FactorInitial
<1>2. FactorInv /\ RecoveryInv /\ [Next]_vars => (FactorInv /\ RecoveryInv)'
  BY FactorStep, RecoveryStep
<1>3. FactorInv /\ RecoveryInv /\ [Next]_vars
        => [\A r \in Workers, c \in Codes :
              /\ req[r].pc = "commit" /\ req[r].op = "recover" /\ req[r].code = c
              /\ req'[r].pc = "ok"
              => ~req[r].late /\ Dead(c)']_vars
  <2> SUFFICES ASSUME FactorInv, RecoveryInv, [Next]_vars, NEW r \in Workers, NEW c \in Codes,
                      req[r].pc = "commit", req[r].op = "recover", req[r].code = c,
                      req'[r].pc = "ok"
               PROVE  ~req[r].late /\ Dead(c)'
    OBVIOUS
  <2>1. CommitRecover(r)
    BY WhoMoved DEF CommitVerified, VerifyOps
  <2>2. RecoveryWork(req[r]) /\ TypeOK
    BY DEF RecoveryInv, FactorInv
  <2>3. ~req[r].late /\ (~req[r].marks => c \notin rows)
    BY <2>2 DEF RecoveryWork
  <2>4. ~Fail(r)
    BY <2>2, IdleType, Moved DEF Fail
  <2>5. UNCHANGED rows
    BY <2>1 DEF CommitRecover
  <2>6. CASE ~req[r].marks
    BY <2>3, <2>5, <2>6 DEF Dead
  <2>7. CASE req[r].marks
    <3>1. spent' = [spent EXCEPT ![c] = IF @ = 0 THEN 1 ELSE 2]
      BY <2>1, <2>4, <2>7 DEF CommitRecover
    <3>2. spent'[c] # 0
      BY <2>2, <3>1 DEF TypeOK
    <3> QED BY <2>3, <3>2 DEF Dead
  <2> QED BY <2>6, <2>7
<1>4. FactorInv /\ [Next]_vars
        => [\A r \in Workers :
              alone /\ req[r].pc = "commit" /\ req[r].op \in VerifyOps /\ req'[r].pc = "ok" =>
                 lastWin' > lastWin]_vars
  <2> SUFFICES ASSUME FactorInv, [Next]_vars, NEW r \in Workers, alone, req[r].pc = "commit",
                      req[r].op \in VerifyOps, req'[r].pc = "ok"
               PROVE  lastWin' > lastWin
    OBVIOUS
  <2>1. req[r].cur > lastWin
    BY DEF FactorInv, FactorWork
  <2>2. lastWin' = req[r].cur
    BY WhoMoved DEF CommitVerified, CommitRecover, WriteSecret, VerifyOps
  <2> QED BY <2>1, <2>2
<1>5. Spec => CodeDiesWithUse
  BY <1>1, <1>2, <1>3, PTL DEF Spec, CodeDiesWithUse
<1>6. Spec => OneAcceptancePerWindow
  BY <1>1, <1>2, <1>4, PTL DEF Spec, OneAcceptancePerWindow
<1> QED BY <1>5, <1>6 DEF FactorSteps
=============================================================================
