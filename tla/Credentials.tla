------------------------------- MODULE Credentials -------------------------------
(***************************************************************************)
(* The password of one user, as the hash in the user's row: logins that    *)
(* verify it and migrate a bcrypt hash to Argon2id, the second step of a   *)
(* login with a second factor, changes and resets.                         *)
(*                                                                         *)
(* A password is a version: 1 the first, each change and reset sets the    *)
(* next.  A request loads the row, verifies what it loaded, and writes     *)
(* what it computed from it; its UPDATE waits for another's commit.        *)
(* AuthSession has the sessions' own rows and tokens, PasswordReset the    *)
(* tokens of a reset, Mfa the second factor's codes.                       *)
(***************************************************************************)
EXTENDS Requests

CONSTANTS
    FirstAlgorithm,   \* of the hash the user's row has at first
    MaxPasswords, MaxOpened   \* bounds on passwords ever set, sessions ever opened

Algorithms == {"argon2id", "bcrypt"}
ASSUME CredentialsAssumption ==
    FirstAlgorithm \in Algorithms /\ MaxPasswords \in Nat \ {0} /\ MaxOpened \in Nat

Passwords == 1..MaxPasswords
Hash == [of : Passwords, algorithm : Algorithms]

VARIABLES
    stored,      \* password_hash
    set,         \* passwords ever set
    secondFactor,   \* a second factor is enabled
    vouchers,    \* mfa_session tokens given, not expired: the password of each
    opened,      \* sessions, number -> the password it was opened with and how
    lastOpened,
    latest,      \* history: the password that the last change or reset set
    undisturbed, \* history: no login has migrated a hash that was replaced meanwhile
    inTurn,      \* history: no change or reset has overlapped a login
    wreq

credentialDb == <<stored, set, secondFactor, vouchers, opened, lastOpened>>
credentialHistory == <<latest, undisturbed, inTurn>>
credentialVars == <<credentialDb, credentialHistory, wreq>>

FirstHash == [of |-> 1, algorithm |-> FirstAlgorithm]
(* with: the password presented, or that the token of a first step stands  *)
(* for; new: the password whose hash it has written, 0 for none.           *)
WIdle == [pc |-> "idle", op |-> "none", with |-> 0, seen |-> FirstHash, new |-> 0, by |-> 0]

CredentialsInit ==
    /\ stored = FirstHash
    /\ set = 1 /\ secondFactor \in BOOLEAN
    /\ vouchers = {} /\ opened = <<>> /\ lastOpened = 0
    /\ latest = 1 /\ undisturbed = TRUE /\ inTurn = TRUE
    /\ wreq = [r \in Workers |-> WIdle]

WBecome(r, q) == wreq' = [wreq EXCEPT ![r] = q]
WFail(r) == WBecome(r, WIdle) /\ UNCHANGED <<credentialDb, credentialHistory>>

(* Another request has written the row and not committed. *)
UserLocked(r) == \E o \in InProgress(wreq, r) : o.pc \in {"session", "close"} /\ o.new # 0

-----------------------------------------------------------------------------
Replacing == {"change", "reset"}

(* A client presents a password (login), the token of a first step, the    *)
(* present password within a session, or a reset token with a new one.     *)
WArrive(r) ==
    /\ ~Busy(wreq, r)
    /\ \/ \E p \in 1..set : WBecome(r, [WIdle EXCEPT !.pc = "load", !.op = "login", !.with = p])
       \/ \E v \in vouchers : WBecome(r, [WIdle EXCEPT !.pc = "session", !.op = "second", !.with = v])
       \/ \E s \in DOMAIN opened, p \in 1..set :
             WBecome(r, [WIdle EXCEPT !.pc = "load", !.op = "change", !.with = p, !.by = s])
       \/ WBecome(r, [WIdle EXCEPT !.pc = "load", !.op = "reset"])
    /\ inTurn' = (inTurn /\ \A o \in InProgress(wreq, r) :
                      (o.op \in Replacing) = (wreq'[r].op \in Replacing))
    /\ UNCHANGED <<credentialDb, latest, undisturbed>>

verify_password(password, hash) == password = hash.of
needs_rehash(hash) == hash.algorithm = "bcrypt"
hash_password(password) == [of |-> password, algorithm |-> "argon2id"]

(* The row is loaded; get_current_user has found the session of a change.  *)
LoadHash(r) ==
    LET q == wreq[r] IN
    /\ q.pc = "load"
    /\ IF q.op = "change" => q.by \in DOMAIN opened
       THEN WBecome(r, [q EXCEPT !.pc = "verify", !.seen = stored])
       ELSE WBecome(r, WIdle)
    /\ UNCHANGED <<credentialDb, credentialHistory>>

(* authenticate (verify_and_rehash), change_password, and reset_password,  *)
(* which verifies no password.                                             *)
Verify(r) ==
    LET q == wreq[r] IN
    /\ q.pc = "verify"
    /\ WBecome(r,
          IF q.op # "reset" /\ ~verify_password(q.with, q.seen) THEN WIdle
          ELSE IF q.op # "login" THEN [q EXCEPT !.pc = "write"]
          ELSE IF needs_rehash(q.seen) THEN [q EXCEPT !.pc = "rehash"]
          ELSE [q EXCEPT !.pc = "session"])
    /\ UNCHANGED <<credentialDb, credentialHistory>>

(* update_password flushes the UPDATE, which waits for the row.            *)
Rehash(r) ==
    LET q == wreq[r] IN
    /\ q.pc = "rehash" /\ ~UserLocked(r)
    /\ WBecome(r, [q EXCEPT !.pc = "session", !.new = q.with])
    /\ UNCHANGED <<credentialDb, credentialHistory>>

WritePassword(r) ==
    LET q == wreq[r] IN
    /\ q.pc = "write" /\ ~UserLocked(r) /\ set < MaxPasswords
    /\ set' = set + 1
    /\ WBecome(r, [q EXCEPT !.pc = "close", !.new = set + 1])
    /\ UNCHANGED <<stored, secondFactor, vouchers, opened, lastOpened, credentialHistory>>

(* A session of one more number, opened with password p. *)
OpenedWith(p, second) ==
    /\ lastOpened < MaxOpened /\ lastOpened' = lastOpened + 1
    /\ opened' = [s \in DOMAIN opened \cup {lastOpened'} |->
                     IF s = lastOpened' THEN [with |-> p, second |-> second] ELSE opened[s]]

(* The login ends with a token for the second step, or a session; its      *)
(* commit brings the new hash with it.                                     *)
OpenSession(r) ==
    LET q == wreq[r] IN
    /\ q.pc = "session" /\ q.op = "login"
    /\ IF secondFactor
       THEN vouchers' = vouchers \cup {q.with} /\ UNCHANGED <<opened, lastOpened>>
       ELSE ~UserLocked(r) /\ OpenedWith(q.with, FALSE) /\ UNCHANGED vouchers   \* update_last_login
    /\ stored' = IF q.new = 0 THEN stored ELSE hash_password(q.new)
    /\ undisturbed' = (undisturbed /\ (q.new # 0 => stored.of = q.seen.of))
    /\ WBecome(r, WIdle)
    /\ UNCHANGED <<set, secondFactor, latest, inTurn>>

(* The second step knows the password by its token only.  The token is not *)
(* consumed: until it expires it opens further sessions.                   *)
CompleteMfaLogin(r) ==
    LET q == wreq[r] IN
    /\ q.pc = "session" /\ q.op = "second" /\ ~UserLocked(r)
    /\ OpenedWith(q.with, TRUE)
    /\ WBecome(r, WIdle)
    /\ UNCHANGED <<stored, set, secondFactor, vouchers, credentialHistory>>

(* Mutant of CloseOpened: the sessions that are open stay. *)
CloseNone(r) ==
    /\ wreq[r].pc = "close"
    /\ stored' = hash_password(wreq[r].new) /\ latest' = wreq[r].new
    /\ WBecome(r, WIdle)
    /\ UNCHANGED <<set, secondFactor, vouchers, opened, lastOpened, undisturbed, inTurn>>

(* The sessions that are committed are closed, then the commit. *)
CloseOpened(r) ==
    /\ wreq[r].pc = "close"
    /\ stored' = hash_password(wreq[r].new) /\ latest' = wreq[r].new
    /\ opened' = <<>>
    /\ WBecome(r, WIdle)
    /\ UNCHANGED <<set, secondFactor, vouchers, lastOpened, undisturbed, inTurn>>

(* A request that fails rolls back; a token of the second step expires. *)
WAbort(r) == Busy(wreq, r) /\ WFail(r)
VoucherExpires ==
    /\ \E v \in vouchers : vouchers' = vouchers \ {v}
    /\ UNCHANGED <<stored, set, secondFactor, opened, lastOpened, credentialHistory, wreq>>

CredentialsNext ==
    \/ \E r \in Workers :
          WArrive(r) \/ LoadHash(r) \/ Verify(r) \/ Rehash(r) \/ WritePassword(r)
          \/ OpenSession(r) \/ CompleteMfaLogin(r) \/ CloseOpened(r) \/ WAbort(r)
    \/ VoucherExpires

-----------------------------------------------------------------------------
(* The password in force is the one that the last change or reset set,     *)
(* whatever logins overlap it, unless one migrated a bcrypt hash that was  *)
(* replaced after it was loaded.                                           *)
PasswordInForce == undisturbed => stored.of = latest

(* A bcrypt hash is the first one, never one written since. *)
BcryptIsFirst == stored.algorithm = "bcrypt" => stored = FirstHash /\ latest = 1

(* The sessions in use were opened with the password in force, but for     *)
(* those of a second step, as long as no change or reset overlaps a login. *)
OpenedWithLatest ==
    inTurn => \A s \in DOMAIN opened : opened[s].with = latest \/ opened[s].second

CredentialsConsistent == PasswordInForce /\ BcryptIsFirst /\ OpenedWithLatest

CredentialsSpec == CredentialsInit /\ [][CredentialsNext]_credentialVars
=============================================================================
