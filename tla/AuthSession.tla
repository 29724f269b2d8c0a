----------------------------- MODULE AuthSession -----------------------------
(***************************************************************************)
(* Sessions and refresh tokens of the MassaCorp API, as concurrent HTTP    *)
(* requests see them.  Every request runs in one PostgreSQL transaction    *)
(* (READ COMMITTED, get_db: commit when the handler returns, rollback on   *)
(* any exception).  A request is a worker that takes one step per SQL      *)
(* statement: a read sees what is committed, a write stays in the worker's *)
(* own record (and locks its row) until the worker commits.                *)
(*                                                                         *)
(* Time is coarse: Tick moves `now', and lifetimes are numbers of ticks.   *)
(* Row identifiers are handed out in commit order; 0 is SQL's NULL.        *)
(***************************************************************************)
EXTENDS Integers, FiniteSets

CONSTANTS
    Users, NoUser,
    Workers,          \* requests the server can run at the same time
    MaxSessions,      \* rows ever inserted in `sessions'
    MaxTokens,        \* rows ever inserted in `refresh_tokens'
    MaxTime, MaxPw,   \* bounds on the clock and on password changes
    AccessLife, RefreshLife, SessionLife,    \* 15 minutes, 7 days, 30 days
    Retention,        \* revoked sessions are kept 90 days
    Ops               \* the operations of this instance

AllOps == {"login", "refresh", "access", "logout", "logoutAll", "terminate",
           "terminateAll", "changePassword", "admin", "cleanup", "crash"}

ASSUME ConstantsAssumption ==
    /\ NoUser \notin Users
    /\ MaxSessions \in Nat /\ MaxTokens \in Nat /\ MaxTime \in Nat \ {0} /\ MaxPw \in Nat
    /\ AccessLife \in Nat /\ RefreshLife \in Nat /\ SessionLife \in Nat
    /\ Retention \in Nat
    /\ AccessLife < RefreshLife /\ RefreshLife < SessionLife
    /\ SessionLife < Retention
    /\ Ops \subseteq AllOps

SesIds == 1..MaxSessions
TokIds == 1..MaxTokens
Times  == 0..(MaxTime + SessionLife)

VARIABLES
    now,
    active,      \* users.is_active
    pw,          \* users.password_hash, as a version number
    sesRows,     \* primary keys in `sessions'
    ses,         \* the content of the session rows
    tokRows,     \* primary keys in `refresh_tokens'
    tok,         \* their content; it outlives a deleted row, as the client's JWT does
    blackRows,   \* primary keys in `revoked_tokens' (the blacklist)
    lastSes, lastTok,   \* identifiers handed out so far
    bareUntil,   \* per user, the last expiry of an access token with no session
    req          \* what each worker is doing

tables == <<sesRows, ses, tokRows, tok, blackRows, lastSes, lastTok, bareUntil>>
vars == <<now, active, pw, tables, req>>

-----------------------------------------------------------------------------
(* A session row; access is the last expiry of an access token that names  *)
(* it (the token itself is a signed JWT held by the client).               *)
SessionRow == [owner : Users \cup {NoUser}, absExp : Times, revokedAt : Times,
               access : Times, pwOf : 0..MaxPw]

(* A refresh token row.  next is replaced_by_jti; from is a history field: *)
(* the token whose rotation produced this one.                             *)
TokenRow == [ses : 0..MaxSessions, exp : Times, used : BOOLEAN,
             next : 0..MaxTokens, from : 0..MaxTokens]

(* Where a request can stand.  "idle" is a refused or rolled back request, *)
(* "ok" a granted one, "bare" a refresh answered without any session.      *)
Resting  == {"idle", "ok", "bare"}
Entering == {"liStore", "rfCheck", "rfReplay", "rfRevoke", "rfReplayed", "rfSession",
             "rfUser", "rfRotate", "rfMark", "rfStore", "auSession", "auUser"}
Acting   == {"loLoad", "loRevoke", "loSession", "loFlush", "laList", "laTokens",
             "laSessions", "tmLoad", "tmFlush", "taSessions", "pwUpdate", "pwSessions",
             "commit"}
Pcs == Resting \cup Entering \cup Acting

Request ==
    [pc : Pcs, op : AllOps \cup {"none"}, user : Users \cup {NoUser},
     ses : 0..MaxSessions,         \* session of the credentials, once checked
     tok : 0..MaxTokens,           \* refresh token presented
     target : 0..MaxSessions,      \* session_id of the body or path
     oldUsed : BOOLEAN,            \* used_at as this transaction read it
     pwSeen : 0..MaxPw,            \* password_hash as login read it
     wTok : SUBSET TokIds,         \* uncommitted: used_at set
     wBlk : SUBSET TokIds,         \* uncommitted: rows of the blacklist
     wSes : SUBSET SesIds,         \* uncommitted: revoked_at set
     horizon : 0..MaxSessions,     \* sessions listed by revoke_all_for_user
     late : BOOLEAN]               \* history: its credentials were dead at arrival

Idle == [pc |-> "idle", op |-> "none", user |-> NoUser, ses |-> 0, tok |-> 0,
         target |-> 0, oldUsed |-> FALSE, pwSeen |-> 0, wTok |-> {}, wBlk |-> {},
         wSes |-> {}, horizon |-> 0, late |-> FALSE]

(* Session.is_active on a committed row. *)
Open(s) == s \in sesRows /\ ses[s].revokedAt = 0 /\ now < ses[s].absExp

TokensOf(u, upTo) == {t \in tokRows : tok[t].ses <= upTo /\ ses[tok[t].ses].owner = u}
SessionsOf(u) == {s \in sesRows : ses[s].owner = u}

(* Rows another transaction has written and not yet committed. *)
TokLocked(T, r) == \E q \in Workers \ {r} : (req[q].wTok \cup req[q].wBlk) \cap T # {}
SesLocked(S, r) == \E q \in Workers \ {r} : req[q].wSes \cap S # {}
UserLocked(u, r) == \E q \in Workers \ {r} : /\ req[q].op = "changePassword"
                                             /\ req[q].pc \in {"pwSessions", "commit"}
                                             /\ req[q].user = u

At(r, pc) == req[r].pc = pc
(* The rest of what worker r remembers of its request. *)
Become(r, rec) == req' = [req EXCEPT ![r] = rec]
Goto(r, pc) == Become(r, [req[r] EXCEPT !.pc = pc])
(* An exception in the handler: get_db rolls the transaction back. *)
Fail(r) == Become(r, Idle)
(* Mutant of Settle: the transaction is answered and never closed. *)
SettleHolding(r, outcome) == Goto(r, outcome)

(* The request is over; ses and late stay as its outcome. *)
Settle(r, outcome) ==
    Become(r, [Idle EXCEPT !.pc = outcome, !.ses = req[r].ses,
                               !.late = req[r].late])

Init ==
    /\ now = 1
    /\ active = [u \in Users |-> TRUE]
    /\ pw = [u \in Users |-> 0]
    /\ sesRows = {} /\ tokRows = {} /\ blackRows = {}
    /\ ses = [s \in SesIds |-> [owner |-> NoUser, absExp |-> 0, revokedAt |-> 0,
                                access |-> 0, pwOf |-> 0]]
    /\ tok = [t \in TokIds |-> [ses |-> 0, exp |-> 0, used |-> FALSE,
                                next |-> 0, from |-> 0]]
    /\ lastSes = 0 /\ lastTok = 0
    /\ bareUntil = [u \in Users |-> 0]
    /\ req = [r \in Workers |-> Idle]

-----------------------------------------------------------------------------
(* Login: authenticate reads the user row and checks the password; then    *)
(* the session and its first refresh token are inserted and committed.     *)
(* update_last_login writes the user row, so the insert waits for a        *)
(* password change of the same user that is not committed yet.             *)
BeginLogin(r, u) ==
    /\ "login" \in Ops /\ req[r].pc \in Resting
    /\ active[u]
    /\ Become(r, [Idle EXCEPT !.pc = "liStore", !.op = "login",
                                  !.user = u, !.pwSeen = pw[u]])
    /\ UNCHANGED <<now, active, pw, tables>>

OpenSession(r, s, t) ==
    /\ s <= MaxSessions /\ t <= MaxTokens
    /\ sesRows' = sesRows \cup {s} /\ tokRows' = tokRows \cup {t}
    /\ ses' = [ses EXCEPT ![s] =
          [owner |-> req[r].user, absExp |-> now + SessionLife, revokedAt |-> 0,
           access |-> now + AccessLife, pwOf |-> req[r].pwSeen]]
    /\ tok' = [tok EXCEPT ![t] =
          [ses |-> s, exp |-> now + RefreshLife, used |-> FALSE, next |-> 0, from |-> 0]]
    /\ lastSes' = s /\ lastTok' = t
    /\ Become(r, [Idle EXCEPT !.pc = "ok", !.ses = s])
    /\ UNCHANGED <<blackRows, bareUntil>>

NoRoom(r, s, t) ==
    /\ s > MaxSessions \/ t > MaxTokens
    /\ Fail(r)
    /\ UNCHANGED tables

LoginStore(r) ==
    /\ At(r, "liStore")
    /\ ~UserLocked(req[r].user, r)
    /\ OpenSession(r, lastSes + 1, lastTok + 1) \/ NoRoom(r, lastSes + 1, lastTok + 1)
    /\ UNCHANGED <<now, active, pw>>

-----------------------------------------------------------------------------
(* Refresh.  The JWT is decoded (signature, exp) before any SQL. *)
BeginRefresh(r, t) ==
    /\ "refresh" \in Ops /\ req[r].pc \in Resting
    /\ t <= lastTok /\ now < tok[t].exp
    /\ Become(r, [Idle EXCEPT !.pc = "rfCheck", !.op = "refresh", !.tok = t,
                       !.user = ses[tok[t].ses].owner, 
                       !.late = tok[t].used \/ ~Open(tok[t].ses)])
    /\ UNCHANGED <<now, active, pw, tables>>

(* is_token_revoked: the blacklist, then RefreshTokenRepository.is_valid. *)
RefreshCheck(r) ==
    LET t == req[r].tok IN
    /\ At(r, "rfCheck")
    /\ IF t \notin blackRows /\ t \in tokRows /\ ~tok[t].used /\ now < tok[t].exp
         THEN Goto(r, "rfReplay")
         ELSE Fail(r)
    /\ UNCHANGED <<now, active, pw, tables>>

(* detect_token_replay reads the row again.  A used token here means that  *)
(* another request used it since is_token_revoked: every token of the user *)
(* is revoked (revoke_all_for_user lists the user's sessions first), then  *)
(* TokenReplayDetectedError makes get_db roll back.                        *)
RefreshReplay(r) ==
    LET t == req[r].tok IN
    /\ At(r, "rfReplay")
    /\ IF t \in tokRows /\ tok[t].used
         THEN Become(r, [req[r] EXCEPT !.pc = "rfRevoke", !.horizon = lastSes])
         ELSE Goto(r, "rfSession")
    /\ UNCHANGED <<now, active, pw, tables>>

RefreshRevoke(r) ==
    LET T == {t \in TokensOf(req[r].user, req[r].horizon) : ~tok[t].used} IN
    /\ At(r, "rfRevoke")
    /\ ~TokLocked(T, r)
    /\ Become(r, [req[r] EXCEPT !.pc = "rfReplayed", !.wTok = T])
    /\ UNCHANGED <<now, active, pw, tables>>

RefreshReplayed(r) ==
    /\ At(r, "rfReplayed")
    /\ Fail(r)
    /\ UNCHANGED <<now, active, pw, tables>>

(* Mutant of RefreshSession: the session of the token is not checked. *)
RefreshSessionUnchecked(r) ==
    LET t == req[r].tok IN
    /\ At(r, "rfSession")
    /\ Become(r, [req[r] EXCEPT !.pc = "rfUser", !.ses = tok[t].ses, !.oldUsed = tok[t].used])
    /\ UNCHANGED <<now, active, pw, tables>>

(* Step 3: the row is loaded once more and kept (old_token), so the values *)
(* read here are the ones the rotation sees.  A row that cleanup removed   *)
(* since RefreshCheck leaves session_id None and skips the session check.  *)
RefreshSession(r) ==
    LET t == req[r].tok
        s == tok[t].ses
    IN
    /\ At(r, "rfSession")
    /\ \/ t \notin tokRows /\ Goto(r, "rfUser")
       \/ /\ t \in tokRows /\ Open(s)
          /\ Become(r, [req[r] EXCEPT !.pc = "rfUser", !.ses = s, !.oldUsed = tok[t].used])
       \/ t \in tokRows /\ ~Open(s) /\ Fail(r)
    /\ UNCHANGED <<now, active, pw, tables>>

RefreshUser(r) ==
    /\ At(r, "rfUser")
    /\ IF active[req[r].user] THEN Goto(r, "rfRotate") ELSE Fail(r)
    /\ UNCHANGED <<now, active, pw, tables>>

(* rotate_refresh_token: get_by_jti answers with the object of step 3 (its *)
(* used_at as it was then), or None when the row is gone.                  *)
RefreshRotate(r) ==
    /\ At(r, "rfRotate")
    /\ \/ req[r].tok \notin tokRows /\ Goto(r, "rfStore")
       \/ req[r].tok \in tokRows /\ req[r].oldUsed /\ Fail(r)
       \/ req[r].tok \in tokRows /\ ~req[r].oldUsed /\ Goto(r, "rfMark")
    /\ UNCHANGED <<now, active, pw, tables>>

(* Mutant of RefreshMark: the rotated token is not marked. *)
RefreshMarkSkipped(r) ==
    /\ At(r, "rfMark")
    /\ Goto(r, "rfStore")
    /\ UNCHANGED <<now, active, pw, tables>>

(* mark_as_used and flush: UPDATE ... WHERE jti = :jti, whatever used_at   *)
(* is by now; a row that disappeared raises StaleDataError.                *)
RefreshMark(r) ==
    LET t == req[r].tok IN
    /\ At(r, "rfMark")
    /\ ~TokLocked({t}, r)
    /\ IF t \in tokRows
         THEN Become(r, [req[r] EXCEPT !.pc = "rfStore", !.wTok = {t}])
         ELSE Fail(r)
    /\ UNCHANGED <<now, active, pw, tables>>

(* store_refresh_token when there is a session (its foreign key must still *)
(* hold), and commit.  Without one the new tokens are answered unstored.   *)
StoreNothing(r) ==
    /\ req[r].ses = 0
    /\ bareUntil' = [bareUntil EXCEPT ![req[r].user] = now + AccessLife]
    /\ Settle(r, "bare")
    /\ UNCHANGED <<sesRows, ses, tokRows, tok, blackRows, lastSes, lastTok>>

(* Mutant of StoreSuccessor: the session row is written back as it was read. *)
StoreSuccessorWhole(r, new) ==
    LET s == req[r].ses IN
    /\ s \in sesRows /\ new <= MaxTokens
    /\ tokRows' = tokRows \cup {new} /\ lastTok' = new
    /\ tok' = [tok EXCEPT ![new] = [ses |-> s, exp |-> now + RefreshLife, used |-> FALSE,
                                   next |-> 0, from |-> req[r].tok],
                         ![req[r].tok].used = TRUE, ![req[r].tok].next = new]
    /\ ses' = [ses EXCEPT ![s].access = now + AccessLife, ![s].revokedAt = 0]
    /\ Settle(r, "ok")
    /\ UNCHANGED <<sesRows, blackRows, lastSes, bareUntil>>

StoreSuccessor(r, new) ==
    LET s == req[r].ses IN
    /\ s \in sesRows /\ new <= MaxTokens
    /\ tokRows' = tokRows \cup {new} /\ lastTok' = new
    /\ tok' = [t \in TokIds |->
          IF t = new
          THEN [ses |-> s, exp |-> now + RefreshLife, used |-> FALSE,
                next |-> 0, from |-> req[r].tok]
          ELSE IF t \in req[r].wTok THEN [tok[t] EXCEPT !.used = TRUE, !.next = new]
          ELSE tok[t]]
    /\ ses' = [ses EXCEPT ![s].access = now + AccessLife]
    /\ Settle(r, "ok")
    /\ UNCHANGED <<sesRows, blackRows, lastSes, bareUntil>>

StoreRefused(r, new) ==
    /\ req[r].ses # 0
    /\ req[r].ses \notin sesRows \/ new > MaxTokens
    /\ Fail(r)
    /\ UNCHANGED tables

RefreshStore(r) ==
    /\ At(r, "rfStore")
    /\ StoreNothing(r) \/ StoreSuccessor(r, lastTok + 1) \/ StoreRefused(r, lastTok + 1)
    /\ UNCHANGED <<now, active, pw>>

-----------------------------------------------------------------------------
(* Requests with an access token: get_current_user, then the operation.    *)
(* The token names session s; a logout body may name a refresh token t and *)
(* a session d, the path of a termination names d.                         *)
AccessOps == {"access", "logout", "logoutAll", "terminate", "terminateAll", "changePassword"}

BeginAuth(r, op, s, t, d) ==
    /\ op \in Ops /\ req[r].pc \in Resting
    /\ s <= lastSes /\ now < ses[s].access
    /\ t = 0 \/ (op = "logout" /\ t <= lastTok)
    /\ d <= lastSes /\ (op = "terminate" => d # 0)
    /\ d = 0 \/ op \in {"logout", "terminate"}
    /\ Become(r, [Idle EXCEPT !.pc = "auSession", !.op = op, !.user = ses[s].owner, !.ses = s,
                       !.tok = t, !.target = d, !.late = ~Open(s)])
    /\ UNCHANGED <<now, active, pw, tables>>

(* An access token without the session_id claim: no session is checked. *)
BeginAuthBare(r, u) ==
    /\ "access" \in Ops /\ req[r].pc \in Resting
    /\ now < bareUntil[u]
    /\ Become(r, [Idle EXCEPT !.pc = "auUser", !.op = "access", !.user = u])
    /\ UNCHANGED <<now, active, pw, tables>>

(* Mutant of AuthSession: get_current_user trusts the token alone. *)
AuthSessionSkipped(r) ==
    /\ At(r, "auSession")
    /\ Goto(r, "auUser")
    /\ UNCHANGED <<now, active, pw, tables>>

AuthSession(r) ==
    /\ At(r, "auSession")
    /\ IF Open(req[r].ses) THEN Goto(r, "auUser") ELSE Fail(r)
    /\ UNCHANGED <<now, active, pw, tables>>

FirstStep == [access |-> "commit", logout |-> "loLoad", logoutAll |-> "laList",
              terminate |-> "tmLoad", terminateAll |-> "taSessions",
              changePassword |-> "pwUpdate"]

(* The user row is read (and kept by the ORM session) here. *)
AuthUser(r) ==
    LET u == req[r].user IN
    /\ At(r, "auUser")
    /\ IF active[u]
         THEN Goto(r, FirstStep[req[r].op])
         ELSE Fail(r)
    /\ UNCHANGED <<now, active, pw, tables>>

-----------------------------------------------------------------------------
(* Logout of one session.  revoke_refresh_token loads the row... *)
LogoutLoad(r) ==
    /\ At(r, "loLoad")
    /\ Goto(r, IF req[r].tok \in tokRows THEN "loRevoke" ELSE "loSession")
    /\ UNCHANGED <<now, active, pw, tables>>

(* Mutant of LogoutRevoke: the token is blacklisted and not marked used. *)
LogoutRevokeUnmarked(r) ==
    LET t == req[r].tok IN
    /\ At(r, "loRevoke")
    /\ ~TokLocked({t}, r)
    /\ Become(r, [req[r] EXCEPT !.pc = "loSession", !.wBlk = {t} \ blackRows])
    /\ UNCHANGED <<now, active, pw, tables>>

(* ... marks it used and flushes it with the new blacklist row.  A jti     *)
(* already in the blacklist is an IntegrityError, and add_to_blacklist     *)
(* rolls the whole transaction back before it goes on.  A row removed in   *)
(* between raises StaleDataError, or only the blacklist row is written.    *)
LogoutRevoke(r) ==
    LET t == req[r].tok IN
    /\ At(r, "loRevoke")
    /\ ~TokLocked({t}, r)
    /\ \/ /\ t \in blackRows
          /\ Become(r, [req[r] EXCEPT !.pc = "loSession", !.wTok = {}, !.wBlk = {}])
       \/ /\ t \notin blackRows
          /\ Become(r, [req[r] EXCEPT !.pc = "loSession", !.wTok = {t} \cap tokRows,
                                !.wBlk = {t}])
       \/ t \notin tokRows /\ Fail(r)
    /\ UNCHANGED <<now, active, pw, tables>>

(* Mutant of LogoutSession: the flush of the session is forgotten. *)
LogoutSessionForgotten(r) ==
    /\ At(r, "loSession")
    /\ Goto(r, "commit")
    /\ UNCHANGED <<now, active, pw, tables>>

(* invalidate_session with the caller's user_id: nothing when not found. *)
LogoutSession(r) ==
    /\ At(r, "loSession")
    /\ Goto(r, IF req[r].target \in SessionsOf(req[r].user) THEN "loFlush" ELSE "commit")
    /\ UNCHANGED <<now, active, pw, tables>>

(* Logout everywhere: revoke_all_for_user (the list of sessions, then the  *)
(* bulk update of their tokens), then invalidate_all_sessions.             *)
LogoutAllList(r) ==
    /\ At(r, "laList")
    /\ Become(r, [req[r] EXCEPT !.pc = "laTokens", !.horizon = lastSes])
    /\ UNCHANGED <<now, active, pw, tables>>

LogoutAllTokens(r) ==
    LET T == {t \in TokensOf(req[r].user, req[r].horizon) : ~tok[t].used} IN
    /\ At(r, "laTokens")
    /\ ~TokLocked(T, r)
    /\ Become(r, [req[r] EXCEPT !.pc = "laSessions", !.wTok = T])
    /\ UNCHANGED <<now, active, pw, tables>>

(* invalidate_all_sessions(user, keep): one bulk UPDATE of the open rows. *)
BulkRevoke(r, keep) ==
    LET S == {s \in SessionsOf(req[r].user) : ses[s].revokedAt = 0} \ keep IN
    /\ ~SesLocked(S, r)
    /\ Become(r, [req[r] EXCEPT !.pc = "commit", !.wSes = S])
    /\ UNCHANGED <<now, active, pw, tables>>

(* Mutant of LogoutAllSessions: the session of the caller is spared. *)
LogoutAllOthers(r) == At(r, "laSessions") /\ BulkRevoke(r, {req[r].ses})
LogoutAllSessions(r) == At(r, "laSessions") /\ BulkRevoke(r, {})

(* DELETE /sessions keeps the session of the access token. *)
TerminateAll(r) == At(r, "taSessions") /\ BulkRevoke(r, {req[r].ses})

(* change_password compares the current password with the hash read by     *)
(* get_current_user (the caller knows it, or is refused), writes the user  *)
(* row and so locks it, then closes every session: the endpoint names none *)
(* to keep.  MaxPw bounds the number of changes.                           *)
PasswordUpdate(r) ==
    LET u == req[r].user IN
    /\ At(r, "pwUpdate")
    /\ ~UserLocked(u, r)
    /\ \/ pw[u] < MaxPw /\ Goto(r, "pwSessions")
       \/ Fail(r)
    /\ UNCHANGED <<now, active, pw, tables>>

(* Mutant of PasswordSessions: the session of the caller is spared. *)
PasswordOtherSessions(r) == At(r, "pwSessions") /\ BulkRevoke(r, {req[r].ses})
PasswordSessions(r) == At(r, "pwSessions") /\ BulkRevoke(r, {})

(* DELETE /sessions/{id}: 404 when not the caller's, 400 when not active. *)
TerminateLoad(r) ==
    LET d == req[r].target IN
    /\ At(r, "tmLoad")
    /\ IF d \in SessionsOf(req[r].user) /\ Open(d) THEN Goto(r, "tmFlush") ELSE Fail(r)
    /\ UNCHANGED <<now, active, pw, tables>>

(* The dirty session object is flushed: UPDATE by primary key. *)
FlushRevoke(r) ==
    LET d == req[r].target IN
    /\ req[r].pc \in {"loFlush", "tmFlush"}
    /\ ~SesLocked({d}, r)
    /\ IF d \in sesRows
         THEN Become(r, [req[r] EXCEPT !.pc = "commit", !.wSes = {d}])
         ELSE Fail(r)
    /\ UNCHANGED <<now, active, pw, tables>>

(* The handler returned: the transaction's writes become visible at once. *)
Commit(r) ==
    /\ At(r, "commit")
    /\ pw' = IF req[r].op = "changePassword"
               THEN [pw EXCEPT ![req[r].user] = @ + 1] ELSE pw
    /\ tok' = [t \in TokIds |-> [tok[t] EXCEPT !.used = @ \/ t \in req[r].wTok]]
    /\ blackRows' = blackRows \cup req[r].wBlk
    /\ ses' = [s \in SesIds |->
                 IF s \in req[r].wSes THEN [ses[s] EXCEPT !.revokedAt = now] ELSE ses[s]]
    /\ Settle(r, "ok")
    /\ UNCHANGED <<now, active, sesRows, tokRows, lastSes, lastTok, bareUntil>>

(* The process dies or the client goes away: nothing was committed. *)
Crash(r) ==
    /\ "crash" \in Ops /\ req[r].pc \notin Resting
    /\ Fail(r)
    /\ UNCHANGED <<now, active, pw, tables>>

-----------------------------------------------------------------------------
(* An administrator deactivates or reactivates an account. *)
SetActive(u) ==
    /\ "admin" \in Ops
    /\ active' = [active EXCEPT ![u] = ~@]
    /\ UNCHANGED <<now, pw, tables, req>>

(* tasks/cleanup.py: three deletes, each committed on its own, each of     *)
(* them waiting for the rows it deletes.                                   *)
CleanupTokens ==
    LET T == {t \in tokRows : tok[t].exp < now} IN
    /\ "cleanup" \in Ops /\ T # {}
    /\ \A r \in Workers : req[r].wTok \cap T = {}
    /\ tokRows' = tokRows \ T
    /\ UNCHANGED <<now, active, pw, sesRows, ses, tok, blackRows, lastSes, lastTok, bareUntil, req>>

CleanupBlacklist ==
    LET T == {t \in blackRows : tok[t].exp < now} IN
    /\ "cleanup" \in Ops /\ T # {}
    /\ blackRows' = blackRows \ T
    /\ UNCHANGED <<now, active, pw, sesRows, ses, tokRows, tok, lastSes, lastTok, bareUntil, req>>

(* refresh_tokens.session_id is ON DELETE CASCADE. *)
CleanupSessions ==
    LET S == {s \in sesRows : ses[s].revokedAt # 0 /\ ses[s].revokedAt < now - Retention}
        T == {t \in tokRows : tok[t].ses \in S}
    IN
    /\ "cleanup" \in Ops /\ S # {}
    /\ \A r \in Workers : req[r].wSes \cap S = {} /\ req[r].wTok \cap T = {}
    /\ sesRows' = sesRows \ S /\ tokRows' = tokRows \ T
    /\ UNCHANGED <<now, active, pw, ses, tok, blackRows, lastSes, lastTok, bareUntil, req>>

Tick ==
    /\ now < MaxTime
    /\ now' = now + 1
    /\ UNCHANGED <<active, pw, tables, req>>

-----------------------------------------------------------------------------
Arrive(r) ==
    \/ \E u \in Users : BeginLogin(r, u) \/ BeginAuthBare(r, u)
    \/ \E t \in TokIds : BeginRefresh(r, t)
    \/ \E op \in AccessOps, s \in SesIds, t \in 0..MaxTokens, d \in 0..MaxSessions :
          BeginAuth(r, op, s, t, d)

Step(r) ==
    \/ LoginStore(r)
    \/ RefreshCheck(r) \/ RefreshReplay(r) \/ RefreshRevoke(r) \/ RefreshReplayed(r)
    \/ RefreshSession(r) \/ RefreshUser(r) \/ RefreshRotate(r) \/ RefreshMark(r)
    \/ RefreshStore(r)
    \/ AuthSession(r) \/ AuthUser(r)
    \/ LogoutLoad(r) \/ LogoutRevoke(r) \/ LogoutSession(r)
    \/ LogoutAllList(r) \/ LogoutAllTokens(r) \/ LogoutAllSessions(r)
    \/ TerminateAll(r) \/ PasswordUpdate(r) \/ PasswordSessions(r) \/ TerminateLoad(r)
    \/ FlushRevoke(r) \/ Commit(r)

Environment == \/ \E u \in Users : SetActive(u)
               \/ CleanupTokens \/ CleanupBlacklist \/ CleanupSessions \/ Tick

Next == Environment \/ \E r \in Workers : Arrive(r) \/ Step(r) \/ Crash(r)

Spec == Init /\ [][Next]_vars

(* Every request the server runs is executed; PostgreSQL queues waiters on *)
(* a row, so a request that waits for a lock gets its turn.  Clients,      *)
(* administrators, the cleanup and the clock owe nothing.                  *)
FairSpec == Spec /\ \A r \in Workers : SF_vars(Step(r))

-----------------------------------------------------------------------------
TypeOK ==
    /\ now \in 1..MaxTime
    /\ active \in [Users -> BOOLEAN] /\ pw \in [Users -> 0..MaxPw]
    /\ sesRows \subseteq SesIds /\ tokRows \subseteq TokIds /\ blackRows \subseteq TokIds
    /\ ses \in [SesIds -> SessionRow] /\ tok \in [TokIds -> TokenRow]
    /\ lastSes \in 0..MaxSessions /\ lastTok \in 0..MaxTokens
    /\ bareUntil \in [Users -> Times]
    /\ req \in [Workers -> Request]

(* A stored token always has its session row (the deletes never leave an   *)
(* orphan); the token that replaced another belongs to the same session    *)
(* and was produced by it; a token still stored that has a successor is    *)
(* marked used: no interleaving of rotations, logouts and cleanups splits  *)
(* the two halves of a rotation.                                           *)
RotationConsistent ==
    /\ \A t \in tokRows : tok[t].ses \in sesRows
    /\ \A t \in 1..lastTok :
          /\ tok[t].next # 0 => /\ tok[t].used
                                /\ tok[tok[t].next].ses = tok[t].ses
                                /\ tok[tok[t].next].from = t
          /\ tok[t].from \in tokRows => tok[tok[t].from].used

(* The cleanup may drop a blacklist row only because nothing depends on it *)
(* any more: whatever the rollback inside add_to_blacklist undid, a        *)
(* blacklisted token that is still stored is also marked used.             *)
BlacklistRedundant == \A t \in blackRows \cap tokRows : tok[t].used

(* get_current_user and refresh_tokens are a check made before the work it *)
(* protects.  However the two are interleaved with other requests, a       *)
(* request whose session was closed, or whose refresh token was used, when *)
(* it arrived is never granted anything in the name of that session.       *)
NoLateGrant == \A r \in Workers : req[r].pc = "ok" => ~req[r].late

(* A closed session stays closed and a used token stays used, although     *)
(* every write is an ORM object flushed from an older read.                *)
RevocationIsFinal ==
    [][/\ \A s \in 1..lastSes : ~Open(s) => ~Open(s)'
       /\ \A t \in 1..lastTok : tok[t].used => tok'[t].used]_vars

(* "Revoquer toutes les sessions": when logout everywhere has answered,    *)
(* no session that existed when it listed them is open, concurrent         *)
(* rotations and terminations included.                                    *)
LogoutAllClosesEverything ==
    [][\A r \in Workers :
          req[r].pc = "commit" /\ req[r].op = "logoutAll" /\ req'[r].pc = "ok" =>
             \A s \in 1..req[r].horizon : ses[s].owner = req[r].user => ~Open(s)']_vars

(* Terminating and logging out close sessions of the caller only, whatever *)
(* session identifier the body or the path names.                          *)
ClosesOwnOnly ==
    [][\A s \in 1..lastSes : ses[s].revokedAt # ses'[s].revokedAt =>
          \E r \in Workers : req[r].pc = "commit" /\ req[r].user = ses[s].owner]_vars

(* A logout that named its refresh token and its session leaves neither    *)
(* usable, even when the rollback inside add_to_blacklist threw its own    *)
(* writes away (somebody else's logout of the same token then did it).     *)
LogoutLeavesNothing ==
    [][\A r \in Workers :
          req[r].pc = "commit" /\ req[r].op = "logout" /\ req'[r].pc = "ok" =>
             /\ \A t \in TokIds : t = req[r].tok => t \notin tokRows' \/ tok'[t].used
             /\ \A s \in SesIds : s = req[r].target /\ ses[s].owner = req[r].user
                                 => ~Open(s)']_vars

(* Every request ends: a row lock is always released, and the order in     *)
(* which the handlers take their locks cannot make them wait for each      *)
(* other for ever.                                                         *)
RequestsEnd == \A r \in Workers : req[r].pc \notin Resting ~> req[r].pc \in Resting

(* "Le refresh token est a usage unique": no token is rotated twice. *)
OneTimeUse == \A t1, t2 \in 1..lastTok :
                 tok[t1].from = tok[t2].from /\ tok[t1].from # 0 => t1 = t2

(* A session never has two refresh tokens that a client could still use. *)
SingleLiveToken == \A t1, t2 \in tokRows :
    ~tok[t1].used /\ ~tok[t2].used /\ tok[t1].ses = tok[t2].ses => t1 = t2

(* "Toutes les sessions sont revoquees apres changement de mot de passe":  *)
(* no open session was opened with a password that is no longer valid.     *)
OldPasswordSessionsClosed == \A s \in sesRows : Open(s) => ses[s].pwOf = pw[ses[s].owner]

(* "Attaque detectee! Revoquer tous les tokens de l'utilisateur": once the *)
(* detection of a replayed token has answered, the user has no usable      *)
(* refresh token among the sessions it listed.                             *)
ReplayRevokesAll ==
    [][\A r \in Workers :
          req[r].pc = "rfReplayed" /\ req'[r].pc \in Resting =>
             \A t \in TokensOf(req[r].user, req[r].horizon) : tok'[t].used]_vars

-----------------------------------------------------------------------------
(* Refinement: what the rest of the API sees of a session and a request. *)
Status == [s \in SesIds |->
             IF s > lastSes THEN "unborn" ELSE IF Open(s) THEN "open"
             ELSE IF s \in sesRows THEN "closed" ELSE "purged"]
Holds == [r \in Workers |->
            IF req[r].pc \notin Resting /\ req[r].pc # "auSession" THEN req[r].ses ELSE 0]
Granted == [r \in Workers |-> IF req[r].pc = "ok" THEN req[r].ses ELSE 0]

Promise == INSTANCE SessionPromise WITH
    Sessions <- SesIds, None <- 0, status <- Status, holds <- Holds, granted <- Granted

(* The rotation, logout and cleanup code, with all its transactions, keeps *)
(* the promise of SessionPromise.                                          *)
ImplementsPromise == Promise!PromiseSpec

(* The tokens on record are consistent: the parts above. *)
TokensConsistent == TypeOK /\ RotationConsistent /\ BlacklistRedundant

(* Who closes sessions closes all that were asked for and no others. *)
ClosesAllOfOwn == LogoutAllClosesEverything /\ ClosesOwnOnly
=============================================================================
