--------------------------------- MODULE Roles ---------------------------------
(***************************************************************************)
(* Roles, their permissions and their assignment to users, as RBACService  *)
(* keeps them (no endpoint calls what changes them).  A role belongs to a  *)
(* tenant or, without one, to all; requests name it by its code.  The      *)
(* UNIQUE constraint on tenant and code says nothing of roles without      *)
(* tenant.                                                                 *)
(***************************************************************************)
EXTENDS Requests

CONSTANTS
    Global,               \* in place of the tenant of a role of all tenants
    RoleCodes, Permissions, Members,
    MaxRoles              \* bound on the roles ever made

ASSUME RolesAssumption ==
    Global \notin Tenants /\ RoleCodes # {} /\ Members # {} /\ MaxRoles \in Nat

RoleIds == 1..MaxRoles
Role == [tenant : Tenants \cup {Global}, code : RoleCodes, system : BOOLEAN]

VARIABLES
    roleRows, roles, lastRole,
    granted,      \* role_permissions: those of each role
    held,         \* user_roles: how long each user has each role
    asked,        \* history: permissions that the last update of a role asked for
    unraced,      \* history: roles none of whose updates overlapped
    doubled,      \* history: codes of roles that were created at once, or for a tenant before all
    bare,         \* history: <<user, role>> revoked with no assignment to the user since
    preq

rolesDb == <<roleRows, roles, lastRole, granted, held>>
rolesHistory == <<asked, unraced, doubled, bare>>
roleVars == <<rolesDb, rolesHistory, preq>>

Terms == {"forever", "later", "past"}
RoleOps == {"create", "update", "delete", "assign", "revoke", "revokeAll", "cleanup"}
PIdle == [pc |-> "idle", op |-> "cleanup", tenant |-> Global, code |-> CHOOSE c \in RoleCodes : TRUE,
          user |-> CHOOSE u \in Members : TRUE, role |-> 0, term |-> "forever", perms |-> {},
          covered |-> {}, row |-> "none"]
RoleRequest ==
    [pc : {"idle", "check", "insert", "load", "delete", "commit", "find", "look", "write"},
     op : RoleOps, tenant : Tenants \cup {Global}, code : RoleCodes, user : Members,
     role : 0..MaxRoles, term : Terms, perms : SUBSET Permissions,
     covered : SUBSET Permissions,     \* those that the DELETE covers, and locks
     row : {"none", "there", "gone"}]   \* the assignment that was loaded, deleted since or not

PBecome(r, q) == preq' = [preq EXCEPT ![r] = q]
PGoto(r, pc) == PBecome(r, [preq[r] EXCEPT !.pc = pc])
(* The end of a request that has deleted the assignments of pairs.         *)
PForget(r, pairs) ==
    preq' = [o \in Workers |->
        IF o = r THEN PIdle
        ELSE IF preq[o].row = "there" /\ <<preq[o].user, preq[o].role>> \in pairs
             THEN [preq[o] EXCEPT !.row = "gone"] ELSE preq[o]]
PKeep == UNCHANGED <<rolesDb, rolesHistory>>
PFail(r) == PBecome(r, PIdle) /\ PKeep

RolesInit ==
    /\ roleRows = {} /\ lastRole = 0
    /\ roles = [i \in RoleIds |-> [tenant |-> Global, code |-> PIdle.code, system |-> FALSE]]
    /\ granted = [i \in RoleIds |-> {}]
    /\ held = [p \in Members \X RoleIds |-> "none"]
    /\ asked = granted /\ unraced = RoleIds /\ doubled = {} /\ bare = {}
    /\ preq = [r \in Workers |-> PIdle]

-----------------------------------------------------------------------------
(* RoleRepository.get_by_code; of several the database returns any. *)
Named(code, t) == {i \in roleRows : roles[i].code = code /\ roles[i].tenant \in {t, Global}}

(* get_user_permission_codes *)
PermissionsOf(u) == UNION {granted[i] : i \in {j \in roleRows : held[u, j] \in {"forever", "later"}}}

(* create_role, and initialize_default_roles, whose roles are Global. *)
PBegin(r, q) ==
    LET others == InProgress(preq, r) IN
    /\ ~Busy(preq, r)
    /\ PBecome(r, q)
    /\ unraced' = unraced \ {i \in RoleIds : q.op = "update" /\ q.role = i
                               /\ \E o \in others : o.op = "update" /\ o.role = i}
    /\ doubled' = doubled \cup {c \in RoleCodes : q.op = "create" /\ q.code = c
                               /\ \/ \E o \in others : o.op = "create" /\ o.code = c
                                  \/ q.tenant = Global /\ \E i \in roleRows : roles[i].code = c}
    /\ bare' = bare \ {p \in bare : q.op = "assign" /\ p[1] = q.user}
    /\ UNCHANGED <<rolesDb, asked>>

PArrive(r) ==
    \/ \E t \in Tenants \cup {Global}, c \in RoleCodes, ps \in SUBSET Permissions :
          PBegin(r, [PIdle EXCEPT !.pc = "check", !.op = "create", !.tenant = t, !.code = c, !.perms = ps])
    \/ \E i \in 1..lastRole, ps \in SUBSET Permissions :
          PBegin(r, [PIdle EXCEPT !.pc = "load", !.op = "update", !.role = i, !.perms = ps])
    \/ \E i \in 1..lastRole : PBegin(r, [PIdle EXCEPT !.pc = "load", !.op = "delete", !.role = i])
    \/ \E t \in Tenants \cup {Global}, c \in RoleCodes, u \in Members, term \in Terms :
          PBegin(r, [PIdle EXCEPT !.pc = "find", !.op = "assign", !.tenant = t, !.code = c,
                                  !.user = u, !.term = term])
    \/ \E t \in Tenants \cup {Global}, c \in RoleCodes, u \in Members :
          PBegin(r, [PIdle EXCEPT !.pc = "find", !.op = "revoke", !.tenant = t, !.code = c, !.user = u])
    \/ \E u \in Members : PBegin(r, [PIdle EXCEPT !.pc = "write", !.op = "revokeAll", !.user = u])
    \/ PBegin(r, [PIdle EXCEPT !.pc = "write"])

CheckCode(r) ==
    /\ preq[r].pc = "check"
    /\ IF Named(preq[r].code, preq[r].tenant) # {} THEN PBecome(r, PIdle) ELSE PGoto(r, "insert")
    /\ PKeep

(* uq_role_tenant_code refuses a second role of the tenant. *)
InsertRole(r, system) ==
    LET q == preq[r] IN
    /\ q.pc = "insert" /\ lastRole < MaxRoles
    /\ system => q.tenant = Global
    /\ q.tenant = Global \/ \A i \in Named(q.code, q.tenant) : roles[i].tenant = Global
    /\ lastRole' = lastRole + 1 /\ roleRows' = roleRows \cup {lastRole + 1}
    /\ roles' = [roles EXCEPT ![lastRole + 1] = [tenant |-> q.tenant, code |-> q.code,
                                                 system |-> system]]
    /\ granted' = [granted EXCEPT ![lastRole + 1] = q.perms]
    /\ asked' = [asked EXCEPT ![lastRole + 1] = q.perms]
    /\ PBecome(r, PIdle)
    /\ UNCHANGED <<held, unraced, doubled, bare>>

(* A system role is not touched. *)
LoadRole(r) ==
    LET q == preq[r] IN
    /\ q.pc = "load"
    /\ IF q.role \notin roleRows \/ roles[q.role].system THEN PBecome(r, PIdle)
       ELSE PGoto(r, IF q.op = "update" THEN "delete" ELSE "write")
    /\ PKeep

(* Rows of role_permissions that another transaction has deleted. *)
LockedPermissions(r, i) ==
    UNION {o.covered : o \in {p \in InProgress(preq, r) : p.role = i /\ p.pc = "commit"}}

(* Mutant of DeletePermissions: the old permissions stay. *)
DeletePermissionsKept(r) ==
    LET q == preq[r] IN
    /\ q.pc = "delete"
    /\ PBecome(r, [q EXCEPT !.pc = "commit"])
    /\ PKeep

(* set_role_permissions: the DELETE waits for another's. *)
DeletePermissions(r) ==
    LET q == preq[r] IN
    /\ q.pc = "delete" /\ granted[q.role] \cap LockedPermissions(r, q.role) = {}
    /\ PBecome(r, [q EXCEPT !.pc = "commit",
                            !.covered = IF q.role \in roleRows THEN granted[q.role] ELSE {}])
    /\ PKeep

(* uq_role_permission and the foreign key may refuse the INSERTs. *)
CommitPermissions(r) ==
    LET q == preq[r]  left == granted[q.role] \ q.covered IN
    /\ q.pc = "commit" /\ q.role \in roleRows /\ left \cap q.perms = {}
    /\ granted' = [granted EXCEPT ![q.role] = left \cup q.perms]
    /\ asked' = [asked EXCEPT ![q.role] = q.perms]
    /\ PBecome(r, PIdle)
    /\ UNCHANGED <<roleRows, roles, lastRole, held, unraced, doubled, bare>>

(* The permissions and the assignments go with the role. *)
DeleteRole(r) ==
    LET i == preq[r].role IN
    /\ preq[r].pc = "write" /\ preq[r].op = "delete"
    /\ LockedPermissions(r, i) = {}
    /\ roleRows' = roleRows \ {i}
    /\ granted' = [granted EXCEPT ![i] = {}]
    /\ held' = [p \in Members \X RoleIds |-> IF p[2] = i THEN "none" ELSE held[p]]
    /\ PForget(r, Members \X {i})
    /\ UNCHANGED <<roles, lastRole, rolesHistory>>

FindRole(r) ==
    /\ preq[r].pc = "find"
    /\ \/ \E i \in Named(preq[r].code, preq[r].tenant) :
             PBecome(r, [preq[r] EXCEPT !.pc = "look", !.role = i])
       \/ Named(preq[r].code, preq[r].tenant) = {} /\ PBecome(r, PIdle)
    /\ PKeep

(* The assignment, if there is one. *)
LookUpHeld(r) ==
    LET q == preq[r]  has == held[q.user, q.role] # "none" IN
    /\ q.pc = "look"
    /\ PBecome(r, IF q.op = "revoke" /\ ~has THEN PIdle ELSE [q EXCEPT !.pc = "write", !.row = IF has THEN "there" ELSE "none"])
    /\ PKeep

(* A role that the user has keeps its term unless a date is given: also    *)
(* one that has expired.                                                   *)
ExtendRole(r) ==
    LET q == preq[r] IN
    /\ q.pc = "write" /\ q.op = "assign" /\ q.row # "none"
    /\ q.row = "there" \/ q.term = "forever"
    /\ held' = IF q.term = "forever" THEN held ELSE [held EXCEPT ![<<q.user, q.role>>] = q.term]
    /\ PBecome(r, PIdle)
    /\ UNCHANGED <<roleRows, roles, lastRole, granted, rolesHistory>>

(* uq_user_role refuses a second assignment. *)
AssignRole(r) ==
    LET q == preq[r] IN
    /\ q.pc = "write" /\ q.op = "assign" /\ q.row = "none"
    /\ q.role \in roleRows /\ held[q.user, q.role] = "none"
    /\ held' = [held EXCEPT ![<<q.user, q.role>>] = q.term]
    /\ PBecome(r, PIdle)
    /\ UNCHANGED <<roleRows, roles, lastRole, granted, rolesHistory>>

(* Nothing is left of the pairs that a revocation has deleted. *)
Bared(r, pairs) ==
    bare \cup {p \in pairs : ~\E o \in InProgress(preq, r) : o.op = "assign" /\ o.user = p[1]}

(* The DELETE of a row that is gone deletes nothing and only warns. *)
RevokeRole(r) ==
    LET q == preq[r]
        deleted == IF q.row = "there" THEN {<<q.user, q.role>>} ELSE {}
    IN
    /\ q.pc = "write" /\ q.op = "revoke"
    /\ held' = [p \in Members \X RoleIds |-> IF p \in deleted THEN "none" ELSE held[p]]
    /\ bare' = Bared(r, deleted)
    /\ PForget(r, deleted)
    /\ UNCHANGED <<roleRows, roles, lastRole, granted, asked, unraced, doubled>>

RevokeAllRoles(r) ==
    LET q == preq[r]  all == {p \in Members \X RoleIds : p[1] = q.user} IN
    /\ q.pc = "write" /\ q.op = "revokeAll"
    /\ held' = [p \in Members \X RoleIds |-> IF p \in all THEN "none" ELSE held[p]]
    /\ bare' = Bared(r, all)
    /\ PForget(r, all)
    /\ UNCHANGED <<roleRows, roles, lastRole, granted, asked, unraced, doubled>>

(* cleanup_expired *)
CleanUpRoles(r) ==
    /\ preq[r].pc = "write" /\ preq[r].op = "cleanup"
    /\ held' = [p \in Members \X RoleIds |-> IF held[p] = "past" THEN "none" ELSE held[p]]
    /\ PForget(r, {p \in Members \X RoleIds : held[p] = "past"})
    /\ UNCHANGED <<roleRows, roles, lastRole, granted, rolesHistory>>

(* A constraint, the database or the client: get_db rolls back. *)
PAbort(r) == Busy(preq, r) /\ PFail(r)

RoleExpires(p) ==
    /\ held[p] = "later" /\ held' = [held EXCEPT ![p] = "past"]
    /\ UNCHANGED <<roleRows, roles, lastRole, granted, rolesHistory, preq>>

PStep(r) ==
    \/ CheckCode(r) \/ (\E system \in BOOLEAN : InsertRole(r, system))
    \/ LoadRole(r) \/ DeletePermissions(r) \/ CommitPermissions(r) \/ DeleteRole(r)
    \/ FindRole(r) \/ LookUpHeld(r) \/ ExtendRole(r) \/ AssignRole(r)
    \/ RevokeRole(r) \/ RevokeAllRoles(r) \/ CleanUpRoles(r)

RolesNext ==
    \/ \E r \in Workers : PArrive(r) \/ PStep(r) \/ PAbort(r)
    \/ \E p \in Members \X RoleIds : RoleExpires(p)

RolesSpec == RolesInit /\ [][RolesNext]_roleVars

-----------------------------------------------------------------------------
(* Every variable has its type. *)
RolesTypeOK ==
    /\ lastRole \in 0..MaxRoles /\ roleRows \subseteq 1..lastRole /\ roles \in [RoleIds -> Role]
    /\ granted \in [RoleIds -> SUBSET Permissions] /\ asked \in [RoleIds -> SUBSET Permissions]
    /\ held \in [Members \X RoleIds -> Terms \cup {"none"}]
    /\ unraced \subseteq RoleIds /\ doubled \subseteq RoleCodes /\ bare \subseteq Members \X RoleIds
    /\ preq \in [Workers -> RoleRequest]

(* A code means one role to a tenant, its own or one of all, unless roles  *)
(* of the code were created at once, or the role of all came second.       *)
CodeNamesOneRole ==
    \A t \in Tenants, c \in RoleCodes \ doubled : Cardinality(Named(c, t)) <= 1

(* The permissions of a role are those its last update asked for, whatever *)
(* else is going on, unless two updates of the role overlapped.            *)
PermissionsAsked == \A i \in roleRows \cap unraced : granted[i] = asked[i]

(* Who lost a role, or all of them, has no permission by it until somebody *)
(* starts to assign a role again.                                          *)
RevokedGrantsNothing ==
    /\ \A p \in bare : held[p] = "none"
    /\ \A u \in Members : ({u} \X RoleIds) \subseteq bare => PermissionsOf(u) = {}

(* Roles mean one thing and give what was asked for. *)
RolesConsistent == RolesTypeOK /\ CodeNamesOneRole /\ PermissionsAsked /\ RevokedGrantsNothing
=============================================================================
