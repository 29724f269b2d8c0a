------------------------------- MODULE MCAccess -------------------------------
(***************************************************************************)
(* Users, their passwords, API keys and roles, of which each behaviour     *)
(* steps through one (part) with some of its operations.                   *)
(***************************************************************************)
EXTENDS Accounts, Credentials, ApiKeys, Roles, TLC

CONSTANTS ra, rr
MCAdminOf == ra :> ra @@ rr :> ra

UserParts == "enrol" :> {"register", "create", "login", "delete", "erase", "password"}
          @@ "leave" :> {"create", "login", "anonymize", "activate"}
          @@ "govern" :> {"create", "login", "deactivate", "activate", "update"}
RoleParts == "permissions" :> {"create", "update", "delete"}
          @@ "assignments" :> {"create", "delete", "assign", "revoke", "revokeAll", "cleanup"}

VARIABLE part
mcVars == <<part, usersVars, credentialVars, keyVars, roleVars>>
Parts == {"passwords", "keys"} \cup DOMAIN UserParts \cup DOMAIN RoleParts
MCInit ==
    /\ AccountsInit /\ CredentialsInit /\ KeysInit /\ RolesInit
    /\ part \in Parts

(* Of the operations, and with the inputs, of a part. *)
Restricted(reqs, ops) == \A r \in Workers : Busy(reqs, r) => reqs[r].op \in ops

(* A user that an administrator creates is another administrator, and no   *)
(* other request is under way.                                             *)
CreatedAlone == \A r, q \in Workers :
    ureq'[r].op = "create" /\ Busy(ureq', r) => ureq'[r].to /\ (q # r => ~Busy(ureq', q))

MCNext ==
    /\ UNCHANGED part
    /\ \/ /\ part \in DOMAIN UserParts /\ AccountsNext /\ Restricted(ureq', UserParts[part])
          /\ part # "enrol" => CreatedAlone
          /\ UNCHANGED <<credentialVars, keyVars, roleVars>>
       \/ /\ part = "keys" /\ KeysNext
          /\ \A k \in 1..lastKey' : keys'[k].scopes = (IF k = 1 THEN {rr} ELSE Everything)
          /\ UNCHANGED <<usersVars, credentialVars, roleVars>>
       \/ /\ part \in DOMAIN RoleParts /\ RolesNext /\ Restricted(preq', RoleParts[part])
          /\ part = "assignments" => \A r \in Workers : preq'[r].tenant = Global /\ preq'[r].term # "past"
          /\ UNCHANGED <<usersVars, credentialVars, keyVars>>
       \/ part = "passwords" /\ CredentialsNext /\ UNCHANGED <<usersVars, keyVars, roleVars>>
MCSpec == MCInit /\ [][MCNext]_mcVars
Symmetry == Permutations(Workers) \cup Permutations(Addresses)
=============================================================================
