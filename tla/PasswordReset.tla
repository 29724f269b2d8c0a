----------------------------- MODULE PasswordReset -----------------------------
(***************************************************************************)
(* Password reset by a link sent by mail.  A request counts the tokens of  *)
(* the user's last hour, then inserts one.  A confirmation loads the token *)
(* and tests it, marks it used by an UPDATE of its row, marks the other    *)
(* unused tokens of the user, closes the user's sessions, and writes the   *)
(* password when its transaction commits.  Each UPDATE waits for rows that *)
(* another transaction has written; two that wait for each other are a     *)
(* deadlock, and PostgreSQL aborts one.                                    *)
(***************************************************************************)
EXTENDS Requests

CONSTANTS
    Users,
    MAX_REQUESTS_PER_HOUR, HOUR,    \* HOUR in ticks; a token lives as long
    MaxTokens, MaxChanges, MaxClock \* bounds

ASSUME ResetAssumption ==
    /\ IsFiniteSet(Workers) /\ Users # {}
    /\ MAX_REQUESTS_PER_HOUR \in Nat \ {0} /\ HOUR \in Nat \ {0}
    /\ MaxTokens \in Nat /\ MaxChanges \in Nat /\ MaxClock \in Nat

TokenIds == 1..MaxTokens
Versions == 0..MaxChanges
Times == 0..MaxClock
ResetToken == [user : Users, at : Times, used : BOOLEAN, password : Versions]

VARIABLES
    tokens, lastToken,   \* password_reset_tokens; password: the one it was asked against
    password,            \* number of times the password of each user was reset
    sessions,            \* open sessions: the user and the password they began with
    clock,
    inTurn,               \* history: users none of whose requests have overlapped
    sreq

resetDb == <<tokens, lastToken, password, sessions>>
resetVars == <<resetDb, clock, inTurn, sreq>>

Unissued == [user |-> CHOOSE u \in Users : TRUE, at |-> 0, used |-> TRUE, password |-> 0]
SIdle == [pc |-> "idle", user |-> CHOOSE u \in Users : TRUE, id |-> 0, at |-> 0,
          locked |-> {}, closed |-> {}, late |-> FALSE]
ResetRequest ==
    [pc : {"idle", "count", "insert", "validate", "use", "others", "sessions", "commit"},
     user : Users, id : 0..MaxTokens, at : Times,
     locked : SUBSET TokenIds,                \* rows marked in this transaction
     closed : SUBSET (Users \X Versions),     \* sessions its UPDATE covers
     late : BOOLEAN]                          \* history: the token was dead on arrival

SBecome(r, q) == sreq' = [sreq EXCEPT ![r] = q]
SFail(r) == SBecome(r, SIdle) /\ UNCHANGED <<resetDb, clock, inTurn>>
SKeep == UNCHANGED <<resetDb, clock, inTurn>>

ResetInit ==
    /\ tokens = [i \in TokenIds |-> Unissued] /\ lastToken = 0
    /\ password = [u \in Users |-> 0] /\ sessions = {}
    /\ clock = 0
    /\ inTurn = [u \in Users |-> TRUE]
    /\ sreq = [r \in Workers |-> SIdle]

Live(i) == ~tokens[i].used /\ tokens[i].at + HOUR > clock
TokensOf(u) == {i \in 1..lastToken : tokens[i].user = u}
Recent(u) == {i \in TokensOf(u) : tokens[i].at >= clock - HOUR}

-----------------------------------------------------------------------------
SBegin(r, q) ==
    /\ ~Busy(sreq, r)
    /\ SBecome(r, q)
    /\ inTurn' = [inTurn EXCEPT ![q.user] = @ /\ \A o \in InProgress(sreq, r) : o.user # q.user]
    /\ UNCHANGED <<resetDb, clock>>

(* created_at is the time at which the transaction began. *)
AskReset(r, u) == SBegin(r, [SIdle EXCEPT !.pc = "count", !.user = u, !.at = clock])

Confirm(r, i) ==
    SBegin(r, [SIdle EXCEPT !.pc = "validate", !.user = tokens[i].user, !.id = i,
                            !.late = ~Live(i)])

(* A login, here a single step; see AuthSession. *)
OpenedSession(u) ==
    /\ sessions' = sessions \cup {<<u, password[u]>>}
    /\ UNCHANGED <<tokens, lastToken, password, clock, sreq>>
    /\ inTurn' = [inTurn EXCEPT ![u] = @ /\ \A r \in Workers : Busy(sreq, r) => sreq[r].user # u]

(* Mutant of CanRequestReset: one link too many passes the test. *)
CanRequestResetOneMore(r) ==
    LET q == sreq[r] IN
    /\ q.pc = "count"
    /\ SBecome(r, IF Cardinality(Recent(q.user)) <= MAX_REQUESTS_PER_HOUR
                    THEN [q EXCEPT !.pc = "insert"] ELSE SIdle)
    /\ SKeep

(* RateLimitExceeded is caught: the answer is the same. *)
CanRequestReset(r) ==
    LET q == sreq[r] IN
    /\ q.pc = "count"
    /\ SBecome(r, IF Cardinality(Recent(q.user)) < MAX_REQUESTS_PER_HOUR
                    THEN [q EXCEPT !.pc = "insert"] ELSE SIdle)
    /\ SKeep

CreateResetToken(r) ==
    LET q == sreq[r] IN
    /\ q.pc = "insert" /\ lastToken < MaxTokens
    /\ lastToken' = lastToken + 1
    /\ tokens' = [tokens EXCEPT ![lastToken + 1] =
                     [user |-> q.user, at |-> q.at, used |-> FALSE, password |-> password[q.user]]]
    /\ SBecome(r, SIdle)
    /\ UNCHANGED <<password, sessions, clock, inTurn>>

(* Any invalid token is answered 400. *)
ValidateToken(r) ==
    LET q == sreq[r] IN
    /\ q.pc = "validate"
    /\ SBecome(r, IF Live(q.id) THEN [q EXCEPT !.pc = "use"] ELSE SIdle)
    /\ SKeep

(* Another transaction has written one of these rows. *)
Written(r, rows) == \E o \in InProgress(sreq, r) : o.locked \cap rows # {}

(* use_token marks the object that validate_token loaded. *)
UseToken(r) ==
    LET q == sreq[r] IN
    /\ q.pc = "use" /\ ~Written(r, {q.id})
    /\ SBecome(r, [q EXCEPT !.pc = "others", !.locked = {q.id}])
    /\ SKeep

(* invalidate_all_for_user *)
InvalidateAll(r) ==
    LET q == sreq[r]
        unused == {i \in TokensOf(q.user) : ~tokens[i].used}
    IN
    /\ q.pc = "others" /\ ~Written(r, unused)
    /\ SBecome(r, [q EXCEPT !.pc = "sessions", !.locked = @ \cup unused])
    /\ SKeep

(* invalidate_all_sessions *)
CloseSessions(r) ==
    LET q == sreq[r] IN
    /\ q.pc = "sessions"
    /\ SBecome(r, [q EXCEPT !.pc = "commit", !.closed = {s \in sessions : s[1] = q.user}])
    /\ SKeep

CommitReset(r) ==
    LET q == sreq[r] IN
    /\ q.pc = "commit" /\ password[q.user] < MaxChanges
    /\ tokens' = [i \in TokenIds |-> IF i \in q.locked THEN [tokens[i] EXCEPT !.used = TRUE]
                                     ELSE tokens[i]]
    /\ password' = [password EXCEPT ![q.user] = @ + 1]
    /\ sessions' = sessions \ q.closed
    /\ SBecome(r, SIdle)
    /\ UNCHANGED <<lastToken, clock, inTurn>>

(* The end of the connection or of the process, or a deadlock. *)
SAbort(r) == Busy(sreq, r) /\ SFail(r)

Hour == clock < MaxClock /\ clock' = clock + 1 /\ UNCHANGED <<resetDb, inTurn, sreq>>

SArrive(r) == (\E u \in Users : AskReset(r, u)) \/ (\E i \in 1..lastToken : Confirm(r, i))
SStep(r) ==
    \/ CanRequestReset(r) \/ CreateResetToken(r) \/ ValidateToken(r) \/ UseToken(r)
    \/ InvalidateAll(r) \/ CloseSessions(r) \/ CommitReset(r)

ResetNext ==
    \/ \E r \in Workers : SArrive(r) \/ SStep(r) \/ SAbort(r)
    \/ \E u \in Users : OpenedSession(u)
    \/ Hour

ResetSpec == ResetInit /\ [][ResetNext]_resetVars

-----------------------------------------------------------------------------
(* Every variable has its type. *)
ResetTypeOK ==
    /\ tokens \in [TokenIds -> ResetToken] /\ lastToken \in 0..MaxTokens
    /\ password \in [Users -> Versions] /\ sessions \subseteq Users \X Versions
    /\ clock \in Times
    /\ inTurn \in [Users -> BOOLEAN] /\ sreq \in [Workers -> ResetRequest]

(* However many ask at once, the links of an hour exceed the limit by the  *)
(* requests that can be between the count and the insert, no more.         *)
LinksBounded ==
    \A u \in Users : Cardinality(Recent(u)) < MAX_REQUESTS_PER_HOUR + Cardinality(Workers)

(* A link that was used, replaced by a reset or expired when it was opened *)
(* never changes the password, whatever else is going on.                  *)
NoLateReset == \A r \in Workers : sreq[r].late => sreq[r].pc \in {"idle", "validate"}

(* A reset by a user whose requests come one at a time leaves nothing of   *)
(* before: the links that still work were asked for, and the sessions that *)
(* are open began, after it.                                               *)
ResetStartsAfresh ==
    \A u \in Users : inTurn[u] =>
        /\ \A i \in TokensOf(u) : Live(i) => tokens[i].password = password[u]
        /\ \A s \in sessions : s[1] = u => s[2] = password[u]

(* Resets by link are bounded, timely and final: the parts above. *)
ResetsConsistent == ResetTypeOK /\ LinksBounded /\ NoLateReset /\ ResetStartsAfresh
=============================================================================
