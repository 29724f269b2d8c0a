-------------------------------- MODULE Accounts --------------------------------
(***************************************************************************)
(* The users of a tenant: registration, administration, deletion and       *)
(* anonymization (GDPR).  A request authenticates its user, loads the user *)
(* it is about, and writes the columns that differ from what it loaded.    *)
(* Nothing in the database keeps an address unique.  audit_log refuses     *)
(* every UPDATE, also the one by which its foreign key would forget a      *)
(* deleted user.                                                           *)
(***************************************************************************)
EXTENDS Requests

CONSTANTS
    Addresses, Anonymous,     \* Anonymous stands for deleted_<id>@anonymized.local
    MaxUsers                  \* bound on the rows of users

ASSUME AccountsAssumption == Anonymous \notin Addresses /\ MaxUsers \in Nat \ {0}

UserIds == 1..MaxUsers
User == [address : Addresses \cup {Anonymous}, active : BOOLEAN, admin : BOOLEAN,
         password : BOOLEAN]     \* password: one that can be matched

VARIABLES
    userRows, users, lastUser,
    open,           \* users with an open session
    logged,         \* users named by rows of audit_log
    collided,       \* history: addresses whose registrations overlapped
    calm,           \* history: no two administrations overlapped, none of oneself by update_user
    out,            \* history: anonymized, and not activated since
    single,         \* history: no request overlapped an anonymization of the user
    refusedErasures,  \* history: users whose deletion audit_log refused
    ureq

usersDb == <<userRows, users, lastUser, open, logged>>
usersHistory == <<collided, calm, out, single, refusedErasures>>
usersVars == <<usersDb, usersHistory, ureq>>

Creations == {"register", "create"}
Guarded == {"deactivate", "delete", "erase", "anonymize"}       \* not of oneself
Administrations == Guarded \cup {"create", "activate", "update"}
UserOps == Creations \cup Administrations \cup {"login", "password"}

Unborn == [address |-> Anonymous, active |-> FALSE, admin |-> FALSE, password |-> FALSE]
UIdle == [pc |-> "idle", op |-> "login", by |-> 0, on |-> 0, address |-> Anonymous,
          attr |-> "active", to |-> TRUE, seen |-> Unborn, closes |-> FALSE]
UserRequest ==
    [pc : {"idle", "auth", "check", "insert", "load", "write", "sessions", "commit", "open"},
     op : UserOps, by : 0..MaxUsers, on : 0..MaxUsers, address : Addresses \cup {Anonymous},
     attr : {"active", "admin"}, to : BOOLEAN,     \* the column an update sets
     seen : User,                                  \* the row as it was loaded, while it matters
     closes : BOOLEAN]                             \* the sessions that its UPDATE covers

UBecome(r, q) == ureq' = [ureq EXCEPT ![r] = q]
UGoto(r, pc) == UBecome(r, [ureq[r] EXCEPT !.pc = pc])
UFail(r) == UBecome(r, UIdle) /\ UNCHANGED <<usersDb, usersHistory>>
UKeep == UNCHANGED <<usersDb, usersHistory>>

(* The first administrator has logged in. *)
AccountsInit ==
    /\ lastUser = 1 /\ userRows = {1}
    /\ \E a \in Addresses : users = [u \in UserIds |->
          IF u = 1 THEN [address |-> a, active |-> TRUE, admin |-> TRUE, password |-> TRUE]
          ELSE Unborn]
    /\ open = {1} /\ logged = {1}
    /\ collided = {} /\ calm = TRUE /\ out = {} /\ single = UserIds /\ refusedErasures = {}
    /\ ureq = [r \in Workers |-> UIdle]

-----------------------------------------------------------------------------
UBegin(r, q) ==
    LET others == InProgress(ureq, r)
        on(o) == IF o.op \in {"login", "password"} THEN o.by ELSE o.on
    IN
    /\ ~Busy(ureq, r)
    /\ UBecome(r, q)
    /\ collided' = collided \cup {a \in Addresses : q.op \in Creations /\ q.address = a
                         /\ \E o \in others : o.op \in Creations /\ o.address = a}
    /\ calm' = (calm /\ ~(/\ q.op \in Administrations
                          /\ \/ \E o \in others : o.op \in Administrations
                             \/ q.op = "update" /\ q.on = q.by))
    /\ single' = single \ {u \in UserIds : on(q) = u /\ \E o \in others :
                              on(o) = u /\ "anonymize" \in {o.op, q.op}}
    /\ UNCHANGED <<usersDb, out, refusedErasures>>

UArrive(r) ==
    \/ \E a \in Addresses : UBegin(r, [UIdle EXCEPT !.pc = "check", !.op = "register", !.address = a])
    \/ \E a \in Addresses, u \in open, b \in BOOLEAN :
          UBegin(r, [UIdle EXCEPT !.pc = "auth", !.op = "create", !.by = u, !.address = a, !.to = b])
    \/ \E u \in open, o \in 1..lastUser, op \in Administrations \ {"create"},
          attr \in {"active", "admin"}, b \in BOOLEAN :
          /\ op # "update" => attr = "active" /\ b = (op = "activate")
          /\ UBegin(r, [UIdle EXCEPT !.pc = "auth", !.op = op, !.by = u, !.on = o,
                                     !.attr = attr, !.to = b])
    \/ \E u \in open : UBegin(r, [UIdle EXCEPT !.pc = "auth", !.op = "password", !.by = u, !.on = u])
    \/ \E u \in userRows : UBegin(r, [UIdle EXCEPT !.pc = "load", !.op = "login", !.by = u, !.on = u])

(* get_current_user, with a token of an open session, and get_current_superuser. *)
Authenticated(r) ==
    LET q == ureq[r]
        granted == /\ q.by \in userRows \cap open /\ users[q.by].active
                   /\ q.op \in Administrations => users[q.by].admin
    IN
    /\ q.pc = "auth"
    /\ UBecome(r, IF ~granted THEN UIdle ELSE
                  [q EXCEPT !.pc = IF q.op = "create" THEN "check" ELSE "load",
                            !.seen = IF q.on = q.by THEN users[q.by] ELSE Unborn])
    /\ UKeep

CheckEmail(r) ==
    /\ ureq[r].pc = "check"
    /\ UBecome(r, IF \E u \in userRows : users[u].address = ureq[r].address THEN UIdle
                  ELSE [ureq[r] EXCEPT !.pc = "insert"])
    /\ UKeep

(* An administrator may create another; who registers is an active user. *)
InsertUser(r) ==
    LET q == ureq[r] IN
    /\ q.pc = "insert" /\ lastUser < MaxUsers
    /\ lastUser' = lastUser + 1 /\ userRows' = userRows \cup {lastUser + 1}
    /\ users' = [users EXCEPT ![lastUser + 1] =
          [address |-> q.address, active |-> TRUE, admin |-> q.op = "create" /\ q.to,
           password |-> TRUE]]
    /\ UBecome(r, UIdle)
    /\ UNCHANGED <<open, logged, usersHistory>>

(* One's own row stays as it was authenticated. *)
Loaded(q) == IF q.op # "login" /\ q.on = q.by THEN q.seen ELSE users[q.on]

(* The request that has loaded u. *)
WithUser(q, u) == [q EXCEPT !.seen = IF q.op \in {"update", "activate", "deactivate"} THEN u ELSE Unborn,
                            !.pc = IF q.op = "login" THEN "open" ELSE "write"]

(* The row, and the refusals: of oneself, of a wrong password, of an       *)
(* inactive user's login.                                                  *)
LoadUser(r) ==
    LET q == ureq[r]  u == Loaded(q) IN
    /\ q.pc = "load"
    /\ IF \/ q.on \notin userRows
          \/ q.op \in Guarded /\ q.on = q.by
          \/ q.op \in {"login", "password"} /\ ~u.password
          \/ q.op = "login" /\ ~u.active
       THEN UBecome(r, UIdle)
       ELSE UBecome(r, WithUser(q, u))
    /\ UKeep

(* Another transaction has written the row of u. *)
Written(r, u) == \E o \in InProgress(ureq, r) : o.on = u /\ o.pc \in {"sessions", "commit"}

(* Login inserts the session and its line of audit_log. *)
OpenedSession(r) ==
    LET q == ureq[r] IN
    /\ q.pc = "open" /\ q.on \in userRows
    /\ open' = open \cup {q.on} /\ logged' = logged \cup {q.on}
    /\ UBecome(r, UIdle)
    /\ UNCHANGED <<userRows, users, lastUser, usersHistory>>

(* Mutant of WriteColumn: the row is written as it was loaded. *)
WriteColumnWhole(row, q) == [q.seen EXCEPT ![q.attr] = q.to]

(* What the UPDATE makes of a row. *)
WriteColumn(row, q) == IF q.seen[q.attr] = q.to THEN row ELSE [row EXCEPT ![q.attr] = q.to]

(* update_user, activate, deactivate, all but update_user with a line of   *)
(* audit_log; change_password writes a new hash.                           *)
WriteUser(r) ==
    LET q == ureq[r]
        new == IF q.op = "password" THEN [users[q.on] EXCEPT !.password = TRUE]
               ELSE WriteColumn(users[q.on], q)
    IN
    /\ q.pc = "write" /\ q.op \in {"update", "activate", "deactivate", "password"}
    /\ q.on \in userRows /\ ~Written(r, q.on)
    /\ users' = [users EXCEPT ![q.on] = new]
    /\ logged' = logged \cup (IF q.op = "update" THEN {} ELSE {q.by})
    /\ out' = out \ (IF q.op # "password" /\ q.attr = "active" /\ q.to /\ ~q.seen.active THEN {q.on} ELSE {})
    /\ UBecome(r, UIdle)
    /\ UNCHANGED <<userRows, lastUser, open, collided, calm, single, refusedErasures>>

(* delete_user and delete_user_data, whose MFA rows and sessions go with   *)
(* the user; the line of audit_log is the administrator's.                 *)
DeleteUser(r) ==
    LET q == ureq[r] IN
    /\ q.pc = "write" /\ q.op \in {"delete", "erase"} /\ ~Written(r, q.on)
    /\ q.on \in userRows \ logged
    /\ userRows' = userRows \ {q.on} /\ open' = open \ {q.on}
    /\ logged' = logged \cup {q.by}
    /\ UBecome(r, UIdle)
    /\ UNCHANGED <<users, lastUser, usersHistory>>

(* audit_log_immutable_fn raises. *)
RefuseDeletion(r) ==
    LET q == ureq[r] IN
    /\ q.pc = "write" /\ q.op \in {"delete", "erase"} /\ ~Written(r, q.on)
    /\ q.on \in userRows \cap logged
    /\ refusedErasures' = refusedErasures \cup (IF q.op = "erase" THEN {q.on} ELSE {})
    /\ UBecome(r, UIdle)
    /\ UNCHANGED <<usersDb, collided, calm, out, single>>

(* A row that is gone is not found, or its UPDATE fails. *)
RowGone(r) == ureq[r].pc \in {"write", "open"} /\ ureq[r].on \notin userRows /\ UFail(r)

(* anonymize_user_data: the row, then the sessions, then the commit. *)
WriteAnonymous(r) ==
    LET q == ureq[r] IN
    /\ q.pc = "write" /\ q.op = "anonymize" /\ q.on \in userRows /\ ~Written(r, q.on)
    /\ UGoto(r, "sessions") /\ UKeep

CloseSessions(r) ==
    /\ ureq[r].pc = "sessions"
    /\ UBecome(r, [ureq[r] EXCEPT !.pc = "commit", !.closes = ureq[r].on \in open])
    /\ UKeep

CommitAnonymous(r) ==
    LET q == ureq[r] IN
    /\ q.pc = "commit"
    /\ users' = [users EXCEPT ![q.on].address = Anonymous, ![q.on].password = FALSE,
                              ![q.on].active = FALSE]
    /\ open' = IF q.closes THEN open \ {q.on} ELSE open
    /\ logged' = logged \cup {q.by}
    /\ out' = out \cup {q.on}
    /\ UBecome(r, UIdle)
    /\ UNCHANGED <<userRows, lastUser, collided, calm, single, refusedErasures>>

(* The end of the connection or of the process. *)
UAbort(r) == Busy(ureq, r) /\ UFail(r)

UStep(r) ==
    \/ Authenticated(r) \/ CheckEmail(r) \/ InsertUser(r) \/ LoadUser(r) \/ OpenedSession(r)
    \/ WriteUser(r) \/ DeleteUser(r) \/ RefuseDeletion(r) \/ RowGone(r)
    \/ WriteAnonymous(r) \/ CloseSessions(r) \/ CommitAnonymous(r)

AccountsNext == \E r \in Workers : UArrive(r) \/ UStep(r) \/ UAbort(r)

AccountsSpec == AccountsInit /\ [][AccountsNext]_usersVars

-----------------------------------------------------------------------------
(* Every variable has its type. *)
AccountsTypeOK ==
    /\ lastUser \in 0..MaxUsers /\ userRows \subseteq 1..lastUser /\ users \in [UserIds -> User]
    /\ open \subseteq UserIds /\ logged \subseteq UserIds
    /\ collided \subseteq Addresses /\ calm \in BOOLEAN
    /\ out \subseteq UserIds /\ single \subseteq UserIds /\ refusedErasures \subseteq UserIds
    /\ ureq \in [Workers -> UserRequest]

(* Two users have one address only if it was registered twice at once: the *)
(* comment of models/user.py on an index of the database does not hold.    *)
EmailOnce ==
    \A u, v \in userRows :
        users[u].address = users[v].address => u = v \/ users[u].address \in collided \cup {Anonymous}

(* Administrators who act one at a time, and do not give up their own      *)
(* rights, never leave the tenant without one.                             *)
AdminRemains == calm => \E u \in userRows : users[u].active /\ users[u].admin

(* Whatever else is going on, a user who was anonymized stays inactive and *)
(* without address until an administrator activates the account; if        *)
(* nothing overlapped, nobody has a session or a password for it either.   *)
AnonymizedStaysOut ==
    \A u \in out \cap userRows :
        /\ ~users[u].active /\ users[u].address = Anonymous
        /\ u \in single => u \notin open /\ ~users[u].password

(* What the endpoint of article 17 promises: an existing user that an      *)
(* administrator erases is erased.                                         *)
ErasureNeverRefused == refusedErasures = {}

(* Users, addresses and administrators are as the operations say. *)
AccountsConsistent == AccountsTypeOK /\ EmailOnce /\ AdminRemains /\ AnonymizedStaysOut
=============================================================================
