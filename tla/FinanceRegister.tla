---------------------------- MODULE FinanceRegister ----------------------------
(***************************************************************************)
(* What the finance ledger refers to: entities, vendors and accounts with  *)
(* a code of their own (the IBAN of an account), and the members of an     *)
(* entity.  A code is looked for before the row is written; only entities  *)
(* have a unique index.  An IBAN is put in capitals before it is looked    *)
(* for, the other codes after; one that equals what the account has        *)
(* already is written as the client wrote it.                              *)
(***************************************************************************)
EXTENDS Requests

CONSTANTS
    Written, Capitals,    \* codes as clients write them; Capitals[c]: upper()
    Entities, Users,
    MaxRows               \* bound on the rows of a kind ever created

ASSUME RegisterAssumption ==
    /\ Capitals \in [Written -> Written] /\ \A c \in Written : Capitals[Capitals[c]] = Capitals[c]
    /\ Written # {} /\ MaxRows \in Nat

RowKinds == {"entity", "vendor", "account"}
RowIds == 1..MaxRows

VARIABLES
    rowsOf,       \* rows in use of each kind
    created,      \* rows ever created of each kind
    codeOf,       \* their code
    members,      \* finance_entity_members: <<entity, user>>
    defaults,     \* those with is_default
    single,       \* history: kinds and users without overlapping requests
    small,        \* history: kinds whose codes were written otherwise than in capitals
    greq

registerDb == <<rowsOf, created, codeOf, members, defaults>>
registerVars == <<registerDb, single, small, greq>>

GIdle == [pc |-> "idle", op |-> "none", on |-> "entity", id |-> 0,
          code |-> CHOOSE c \in Written : TRUE, member |-> <<>>, default |-> FALSE, cleared |-> {},
          raw |-> FALSE]
RegisterRequest ==
    [pc : {"idle", "row", "lookup", "clear", "commit"},
     op : {"none", "create", "update", "delete", "add", "remove"},
     on : RowKinds \cup Users, id : 0..MaxRows, code : Written,
     member : {<<>>} \cup (Entities \X Users), default : BOOLEAN,
     cleared : SUBSET (Entities \X Users),   \* rows that set_default's UPDATE covers
     raw : BOOLEAN]                          \* whether the code is written as it came

GBecome(r, q) == greq' = [greq EXCEPT ![r] = q]
GFail(r) == GBecome(r, GIdle) /\ UNCHANGED <<registerDb, single, small>>
GKeep == UNCHANGED <<registerDb, single, small>>

RegisterInit ==
    /\ rowsOf = [k \in RowKinds |-> {}] /\ created = [k \in RowKinds |-> 0]
    /\ codeOf = [k \in RowKinds |-> [i \in RowIds |-> CHOOSE c \in Written : TRUE]]
    /\ members = {} /\ defaults = {}
    /\ single = [x \in RowKinds \cup Users |-> TRUE] /\ small = {}
    /\ greq = [r \in Workers |-> GIdle]

-----------------------------------------------------------------------------
GBegin(r, q) ==
    /\ ~Busy(greq, r)
    /\ GBecome(r, q)
    /\ single' = [single EXCEPT ![q.on] = @ /\ \A o \in InProgress(greq, r) : o.on # q.on]
    /\ small' = small \cup {k \in RowKinds : k = q.on /\ q.op \in {"create", "update"}
                                           /\ Capitals[q.code] # q.code}
    /\ UNCHANGED registerDb

GArrive(r) ==
    \/ \E k \in RowKinds, c \in Written :
          GBegin(r, [GIdle EXCEPT !.pc = "lookup", !.op = "create", !.on = k, !.code = c])
    \/ \E k \in RowKinds, i \in RowIds, c \in Written :
          /\ i <= created[k]
          /\ GBegin(r, [GIdle EXCEPT !.pc = "row", !.op = "update", !.on = k, !.id = i, !.code = c])
    \/ \E i \in RowIds :
          /\ i <= created["vendor"]
          /\ GBegin(r, [GIdle EXCEPT !.pc = "row", !.op = "delete", !.on = "vendor", !.id = i])
    \/ \E e \in Entities, u \in Users, d \in BOOLEAN :
          GBegin(r, [GIdle EXCEPT !.pc = "lookup", !.op = "add", !.on = u, !.member = <<e, u>>,
                                  !.default = d])
    \/ \E e \in Entities, u \in Users :
          GBegin(r, [GIdle EXCEPT !.pc = "lookup", !.op = "remove", !.on = u, !.member = <<e, u>>])

(* What is looked for: create_account and update_account fold the IBAN     *)
(* first, create_entity, create_vendor and update_vendor only what they    *)
(* write.                                                                  *)
Sought(q) == IF q.on = "account" THEN Capitals[q.code] ELSE q.code

Taken(q) == \E i \in rowsOf[q.on] : codeOf[q.on][i] = Sought(q)

(* get_vendor, get_account, get_entity; a code that stays is not looked    *)
(* for, and not written when it does not change.                           *)
LoadRow(r) ==
    LET q == greq[r] IN
    /\ q.pc = "row"
    /\ GBecome(r, IF q.id \notin rowsOf[q.on] THEN GIdle
                  ELSE IF q.op = "delete" THEN [q EXCEPT !.pc = "commit"]
                  ELSE IF q.code = codeOf[q.on][q.id] THEN GIdle
                  ELSE IF Sought(q) = codeOf[q.on][q.id]
                         THEN [q EXCEPT !.pc = "commit", !.raw = TRUE]
                  ELSE [q EXCEPT !.pc = "lookup"])
    /\ GKeep

(* The 409 answers of DuplicateIBANError, VendorCodeExistsError and        *)
(* EntityCodeExistsError.                                                  *)
LookUpCode(r) ==
    LET q == greq[r] IN
    /\ q.pc = "lookup" /\ q.op \in {"create", "update"}
    /\ GBecome(r, IF Taken(q) THEN GIdle ELSE [q EXCEPT !.pc = "commit"])
    /\ GKeep

(* The unique index of finance_entities; a row that is gone updates nothing. *)
CommitCode(r) ==
    LET q == greq[r]
        id == IF q.op = "create" THEN created[q.on] + 1 ELSE q.id
        code == IF q.raw THEN q.code ELSE Capitals[q.code]
    IN
    /\ q.pc = "commit" /\ q.op \in {"create", "update"} /\ id \in RowIds
    /\ q.on = "entity" => \A i \in rowsOf["entity"] \ {id} : codeOf["entity"][i] # code
    /\ codeOf' = [codeOf EXCEPT ![q.on][id] = code]
    /\ IF q.op = "create"
         THEN /\ rowsOf' = [rowsOf EXCEPT ![q.on] = @ \cup {id}]
              /\ created' = [created EXCEPT ![q.on] = id]
         ELSE UNCHANGED <<rowsOf, created>>
    /\ GBecome(r, GIdle)
    /\ UNCHANGED <<members, defaults, single, small>>

(* delete_vendor, of a vendor without invoices (see FinanceInvoices). *)
DeleteRow(r) ==
    LET q == greq[r] IN
    /\ q.pc = "commit" /\ q.op = "delete"
    /\ rowsOf' = [rowsOf EXCEPT ![q.on] = @ \ {q.id}]
    /\ GBecome(r, GIdle)
    /\ UNCHANGED <<created, codeOf, members, defaults, single, small>>

(* add_member and remove_member look for the row; a member who is one      *)
(* already only gets a new role.                                           *)
LookUpMember(r) ==
    LET q == greq[r]  found == q.member \in members IN
    /\ q.pc = "lookup" /\ q.op \in {"add", "remove"}
    /\ GBecome(r, IF found = (q.op = "add") THEN GIdle
                  ELSE [q EXCEPT !.pc = IF q.default THEN "clear" ELSE "commit"])
    /\ GKeep

(* Mutant of ClearDefaults: the default of other entities stays. *)
ClearDefaultsOfEntity(r) ==
    LET q == greq[r] IN
    /\ q.pc = "clear"
    /\ GBecome(r, [q EXCEPT !.pc = "commit", !.cleared = {q.member}])
    /\ GKeep

(* set_default: an UPDATE of the rows of the user. *)
ClearDefaults(r) ==
    LET q == greq[r] IN
    /\ q.pc = "clear"
    /\ GBecome(r, [q EXCEPT !.pc = "commit", !.cleared = {m \in members : m[2] = q.member[2]}])
    /\ GKeep

(* The unique index on entity and user fails the second insert (GAbort). *)
CommitMember(r) ==
    LET q == greq[r] IN
    /\ q.pc = "commit" /\ q.op = "add" /\ q.member \notin members
    /\ members' = members \cup {q.member}
    /\ defaults' = (defaults \ q.cleared) \cup (IF q.default THEN {q.member} ELSE {})
    /\ GBecome(r, GIdle)
    /\ UNCHANGED <<rowsOf, created, codeOf, single, small>>

RemoveMember(r) ==
    LET q == greq[r] IN
    /\ q.pc = "commit" /\ q.op = "remove"
    /\ members' = members \ {q.member} /\ defaults' = defaults \ {q.member}
    /\ GBecome(r, GIdle)
    /\ UNCHANGED <<rowsOf, created, codeOf, single, small>>

GAbort(r) == Busy(greq, r) /\ GFail(r)

GStep(r) ==
    \/ LoadRow(r) \/ LookUpCode(r) \/ CommitCode(r) \/ DeleteRow(r)
    \/ LookUpMember(r) \/ ClearDefaults(r) \/ CommitMember(r) \/ RemoveMember(r)

RegisterNext == \E r \in Workers : GArrive(r) \/ GStep(r) \/ GAbort(r)

RegisterSpec == RegisterInit /\ [][RegisterNext]_registerVars

-----------------------------------------------------------------------------
RegisterTypeOK ==
    /\ rowsOf \in [RowKinds -> SUBSET RowIds] /\ created \in [RowKinds -> 0..MaxRows]
    /\ codeOf \in [RowKinds -> [RowIds -> Written]]
    /\ members \subseteq Entities \X Users /\ defaults \subseteq members
    /\ single \in [RowKinds \cup Users -> BOOLEAN] /\ small \subseteq RowKinds
    /\ greq \in [Workers -> RegisterRequest]

SameCode(k) == \E i, j \in rowsOf[k] : i # j /\ codeOf[k][i] = codeOf[k][j]

(* A code names one row: of an entity always, of a vendor or an account as *)
(* long as requests on them come one at a time and their codes are written *)
(* in capitals.                                                            *)
CodesDistinct ==
    /\ ~SameCode("entity")
    /\ \A k \in RowKinds : single[k] /\ k \notin small => ~SameCode(k)

(* A user whose requests come one at a time has at most one default entity. *)
OneDefault ==
    \A u \in Users : single[u] => \A m, n \in defaults : m[2] = u /\ n[2] = u => m = n

(* What VendorCodeExistsError promises: requests one at a time, a vendor's *)
(* code exists once.                                                       *)
VendorCodeOnce == single["vendor"] => ~SameCode("vendor")

(* The reference data keep their codes and defaults apart. *)
RegisterConsistent == RegisterTypeOK /\ CodesDistinct /\ OneDefault
=============================================================================
