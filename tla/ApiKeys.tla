-------------------------------- MODULE ApiKeys --------------------------------
(***************************************************************************)
(* The API keys of app/services/api_key.py: created and revoked by the     *)
(* users of a tenant, validated, limited and logged for a machine.  No     *)
(* endpoint calls the second half; a use calls validate_key_with_scope,    *)
(* which returns the key the others ask for, then enforce_rate_limit, then *)
(* log_usage, in one transaction.  validate_key flushes last_used_at: the  *)
(* UPDATE holds the row until the transaction ends, and so uses of one key *)
(* are counted one after the other.                                        *)
(***************************************************************************)
EXTENDS Requests

CONSTANTS
    Scopes, AdminOf,      \* AdminOf[s]: the scope <resource>:admin of s
    MaxKeys,              \* bound on the keys ever made
    Limit                 \* rate_limit_requests

ASSUME KeysAssumption ==
    /\ Tenants # {} /\ Scopes # {}
    /\ MaxKeys \in Nat /\ Limit \in Nat \ {0} /\ AdminOf \in [Scopes -> Scopes]

KeyIds == 1..MaxKeys
Everything == Scopes      \* "*", and the keys without scopes
Key == [tenant : Tenants, scopes : SUBSET Scopes, revoked : BOOLEAN,
        expiry : {"never", "later", "past"}, old : BOOLEAN]

VARIABLES
    keyRows, keys, lastKey,
    recent,       \* api_key_usage: rows of each key in the window
    condemned,    \* history: keys whose revocation was committed
    kreq

keysDb == <<keyRows, keys, lastKey, recent>>
keyVars == <<keysDb, condemned, kreq>>

KIdle == [pc |-> "idle", op |-> "use", key |-> 0, tenant |-> CHOOSE t \in Tenants : TRUE,
          scope |-> CHOOSE s \in Scopes : TRUE, seen |-> FALSE, late |-> FALSE]
KeyRequest ==
    [pc : {"idle", "validate", "touch", "enforce", "log", "load", "revoke", "sweep"},
     op : {"use", "revoke", "revokeAll", "cleanup"}, key : 0..MaxKeys, tenant : Tenants,
     scope : Scopes,
     seen : BOOLEAN,      \* revoked, as it was loaded
     late : BOOLEAN]      \* history: arrived after the revocation of its key

KBecome(r, q) == kreq' = [kreq EXCEPT ![r] = q]
KGoto(r, pc) == KBecome(r, [kreq[r] EXCEPT !.pc = pc])
KFail(r) == KBecome(r, KIdle) /\ UNCHANGED <<keysDb, condemned>>
KKeep == UNCHANGED <<keysDb, condemned>>

KeysInit ==
    /\ keyRows = {} /\ lastKey = 0
    /\ keys = [k \in KeyIds |-> [tenant |-> KIdle.tenant, scopes |-> {}, revoked |-> FALSE,
                                 expiry |-> "never", old |-> FALSE]]
    /\ recent = [k \in KeyIds |-> 0]
    /\ condemned = {}
    /\ kreq = [r \in Workers |-> KIdle]

-----------------------------------------------------------------------------
(* APIKey.is_valid, and APIKey.has_scope. *)
IsValid(k) == ~keys[k].revoked /\ keys[k].expiry # "past"
HasScope(k, s) == s \in keys[k].scopes \/ AdminOf[s] \in keys[k].scopes

(* A transaction that has flushed last_used_at of the key. *)
Locked(r, k) == \E q \in InProgress(kreq, r) : q.key = k /\ q.pc \in {"enforce", "log"}

(* One INSERT; a date of expiry in the past is accepted. *)
CreateKey(t, scopes, expiry) ==
    /\ lastKey < MaxKeys
    /\ lastKey' = lastKey + 1 /\ keyRows' = keyRows \cup {lastKey + 1}
    /\ keys' = [keys EXCEPT ![lastKey + 1] = [tenant |-> t, scopes |-> scopes, revoked |-> FALSE,
                                              expiry |-> expiry, old |-> FALSE]]
    /\ UNCHANGED <<recent, condemned, kreq>>

KBegin(r, q) == ~Busy(kreq, r) /\ KBecome(r, [q EXCEPT !.late = q.key \in condemned]) /\ KKeep

KArrive(r) ==
    \/ \E k \in 1..lastKey, s \in Scopes :
          KBegin(r, [KIdle EXCEPT !.pc = "validate", !.key = k, !.scope = s])
    \/ \E k \in 1..lastKey, t \in Tenants :
          KBegin(r, [KIdle EXCEPT !.pc = "load", !.op = "revoke", !.key = k, !.tenant = t])
    \/ \E t \in Tenants : KBegin(r, [KIdle EXCEPT !.pc = "sweep", !.op = "revokeAll", !.tenant = t])
    \/ KBegin(r, [KIdle EXCEPT !.pc = "sweep", !.op = "cleanup"])

ValidateKey(r) ==
    LET k == kreq[r].key IN
    /\ kreq[r].pc = "validate"
    /\ IF k \in keyRows /\ IsValid(k)
       THEN KBecome(r, [kreq[r] EXCEPT !.pc = "touch", !.seen = keys[k].revoked])
       ELSE KBecome(r, KIdle)
    /\ KKeep

(* Mutant of Touch: the row is written as it was loaded. *)
TouchWhole(r) ==
    LET q == kreq[r] IN
    /\ q.pc = "touch" /\ q.key \in keyRows /\ ~Locked(r, q.key)
    /\ keys' = [keys EXCEPT ![q.key].revoked = q.seen]
    /\ KGoto(r, "enforce")
    /\ UNCHANGED <<keyRows, lastKey, recent, condemned>>

(* update_last_used: no column but last_used_at is written. *)
Touch(r) ==
    LET q == kreq[r] IN
    /\ q.pc = "touch" /\ q.key \in keyRows /\ ~Locked(r, q.key)
    /\ KGoto(r, "enforce") /\ KKeep

(* The scope of the key, and the rows of the window. *)
EnforceRateLimit(r) ==
    LET q == kreq[r] IN
    /\ q.pc = "enforce"
    /\ IF HasScope(q.key, q.scope) /\ recent[q.key] < Limit THEN KGoto(r, "log") ELSE KBecome(r, KIdle)
    /\ KKeep

LogUsage(r) ==
    /\ kreq[r].pc = "log" /\ kreq[r].key \in keyRows
    /\ recent' = [recent EXCEPT ![kreq[r].key] = @ + 1]
    /\ KBecome(r, KIdle)
    /\ UNCHANGED <<keyRows, keys, lastKey, condemned>>

(* revoke_api_key: unknown, of another tenant, or revoked already. *)
LoadKey(r) ==
    LET q == kreq[r] IN
    /\ q.pc = "load"
    /\ IF q.key \in keyRows /\ keys[q.key].tenant = q.tenant /\ ~keys[q.key].revoked
       THEN KGoto(r, "revoke") ELSE KBecome(r, KIdle)
    /\ KKeep

RevokeKey(r) ==
    LET q == kreq[r] IN
    /\ q.pc = "revoke" /\ q.key \in keyRows /\ ~Locked(r, q.key)
    /\ keys' = [keys EXCEPT ![q.key].revoked = TRUE]
    /\ condemned' = condemned \cup {q.key}
    /\ KBecome(r, KIdle)
    /\ UNCHANGED <<keyRows, lastKey, recent>>

(* revoke_all_by_tenant, one UPDATE. *)
RevokeAll(r) ==
    LET all == {k \in keyRows : keys[k].tenant = kreq[r].tenant} IN
    /\ kreq[r].pc = "sweep" /\ kreq[r].op = "revokeAll"
    /\ \A k \in all : ~keys[k].revoked => ~Locked(r, k)
    /\ keys' = [k \in KeyIds |-> [keys[k] EXCEPT !.revoked = @ \/ k \in all]]
    /\ condemned' = condemned \cup all
    /\ KBecome(r, KIdle)
    /\ UNCHANGED <<keyRows, lastKey, recent>>

(* cleanup_expired: keys revoked or expired for 90 days, with their usage. *)
CleanUpKeys(r) ==
    LET old == {k \in keyRows : keys[k].old} IN
    /\ kreq[r].pc = "sweep" /\ kreq[r].op = "cleanup"
    /\ \A k \in old : ~Locked(r, k)
    /\ keyRows' = keyRows \ old
    /\ recent' = [k \in KeyIds |-> IF k \in old THEN 0 ELSE recent[k]]
    /\ KBecome(r, KIdle)
    /\ UNCHANGED <<keys, lastKey, condemned>>

(* The key is gone.  update_last_used, which selects it again, returns     *)
(* False, and validate_key goes on with the key it had loaded; revoke does *)
(* nothing; the usage row refers to no key, and get_db rolls back.         *)
KeyGone(r) ==
    /\ kreq[r].key \notin keyRows
    /\ \/ kreq[r].pc = "touch" /\ KGoto(r, "enforce") /\ KKeep
       \/ kreq[r].pc \in {"revoke", "log"} /\ KFail(r)

KAbort(r) == Busy(kreq, r) /\ KFail(r)

(* Time: a key expires, becomes old enough, or a use leaves the window. *)
KeyTime(k) ==
    /\ k \in keyRows
    /\ \/ keys[k].expiry = "later" /\ keys' = [keys EXCEPT ![k].expiry = "past"] /\ UNCHANGED recent
       \/ ~IsValid(k) /\ keys' = [keys EXCEPT ![k].old = TRUE] /\ UNCHANGED recent
       \/ recent[k] > 0 /\ recent' = [recent EXCEPT ![k] = @ - 1] /\ UNCHANGED keys
    /\ UNCHANGED <<keyRows, lastKey, condemned, kreq>>

KStep(r) ==
    \/ ValidateKey(r) \/ Touch(r) \/ EnforceRateLimit(r) \/ LogUsage(r)
    \/ LoadKey(r) \/ RevokeKey(r) \/ RevokeAll(r) \/ CleanUpKeys(r) \/ KeyGone(r)

KeysNext ==
    \/ \E t \in Tenants, scopes \in {Everything} \cup {{s} : s \in Scopes}, e \in {"never", "later", "past"} :
          CreateKey(t, scopes, e)
    \/ \E r \in Workers : KArrive(r) \/ KStep(r) \/ KAbort(r)
    \/ \E k \in KeyIds : KeyTime(k)

KeysSpec == KeysInit /\ [][KeysNext]_keyVars

-----------------------------------------------------------------------------
(* Every variable has its type. *)
KeysTypeOK ==
    /\ lastKey \in 0..MaxKeys /\ keyRows \subseteq 1..lastKey /\ keys \in [KeyIds -> Key]
    /\ recent \in [KeyIds -> Nat] /\ condemned \subseteq KeyIds
    /\ kreq \in [Workers -> KeyRequest]

(* A key that was revoked, alone or with all of its tenant, stays revoked  *)
(* whatever uses of it were in progress.                                   *)
KeysStayRevoked == \A k \in condemned \cap keyRows : keys[k].revoked

(* A machine that presents a key after its revocation gets nowhere: the    *)
(* key is neither marked as used nor is a use logged.                      *)
NoLateUse == \A r \in Workers : kreq[r].late => kreq[r].pc \notin {"touch", "enforce", "log"}

(* The window never holds more uses of a key than its limit, however many  *)
(* requests present it at once.                                            *)
UsesWithinLimit == \A k \in KeyIds : recent[k] <= Limit

(* A key works until it is revoked and within its limit, and not after. *)
KeysConsistent == KeysTypeOK /\ KeysStayRevoked /\ NoLateUse /\ UsesWithinLimit
=============================================================================
