----------------------------- MODULE OAuthSignIn -----------------------------
(***************************************************************************)
(* Sign-in through OAuth providers.  Redis holds the state of each flow    *)
(* and the registrations waiting for a name; both are read and deleted by  *)
(* two commands, which a rollback of the request's transaction does not    *)
(* undo.  An identity at a provider is linked to the user who has its      *)
(* address, or registers a user without a password.  A user may unlink an  *)
(* identity who keeps another way to sign in.                              *)
(***************************************************************************)
EXTENDS Requests

CONSTANTS
    Identities, Provider,     \* accounts at providers; Provider[i]
    Name,                     \* Name[i]: the address of the user it would register
    Mailed,                   \* identities whose provider tells the address
    Nobody,                   \* no address, no identity
    MaxFlows, MaxLinks, MaxAccounts   \* bounds on states and registrations, links, users

ASSUME OAuthAssumption ==
    /\ Identities # {} /\ Nobody \notin Identities /\ \A i \in Identities : Name[i] # Nobody
    /\ MaxFlows \in Nat /\ MaxLinks \in Nat /\ MaxAccounts \in Nat

Names == {Name[i] : i \in Identities}
Providers == {Provider[i] : i \in Identities}
Flows == 1..MaxFlows
LinkIds == 1..MaxLinks
AccountIds == 1..MaxAccounts

VARIABLES
    states, lastState,     \* oauth:state keys in Redis
    waiting, lastWaiting,  \* oauth:session keys in Redis, and the identity of each
    accounts, lastAccount, \* the address of each user
    passwords,             \* the users who have a password
    links, lastLink,       \* oauth_accounts
    passed,                \* history: times each state was accepted
    registered,            \* history: users each identity registered since it was unlinked
    unraced,                 \* history: states no two callbacks raced for
    calm,                  \* history: users whose unlink requests never overlapped
    areq

oauthRedis == <<states, lastState, waiting, lastWaiting>>
oauthDb == <<accounts, lastAccount, passwords, links, lastLink>>
oauthHistory == <<passed, registered, unraced, calm>>
oauthVars == <<oauthRedis, oauthDb, oauthHistory, areq>>

AnyIdentity == CHOOSE i \in Identities : TRUE
Unlinked == [identity |-> AnyIdentity, user |-> 0]
AIdle == [pc |-> "idle", flow |-> 0, identity |-> AnyIdentity, user |-> 0, link |-> 0]
OAuthRequest ==
    [pc : {"idle", "getState", "delState", "lookUp", "address", "login", "link",
           "getSession", "delSession", "check", "create", "find", "others", "delete"},
     flow : 0..MaxFlows, identity : Identities, user : 0..MaxAccounts, link : 0..MaxLinks]

ABecome(r, q) == areq' = [areq EXCEPT ![r] = q]

OAuthInit ==
    /\ states = {} /\ lastState = 0
    /\ waiting = [f \in Flows |-> Nobody] /\ lastWaiting = 0
    /\ lastAccount \in 0..MaxAccounts /\ passwords = 1..lastAccount
    /\ accounts \in [AccountIds -> Names \cup {Nobody}]
    /\ \A u \in AccountIds : accounts[u] # Nobody <=> u <= lastAccount
    /\ links = [l \in LinkIds |-> Unlinked] /\ lastLink = 0
    /\ passed = [f \in Flows |-> 0] /\ registered = [i \in Identities |-> 0]
    /\ unraced = [f \in Flows |-> TRUE] /\ calm = [u \in AccountIds |-> TRUE]
    /\ areq = [r \in Workers |-> AIdle]

Registered == 1..lastAccount
WithAddress(n) == {u \in Registered : accounts[u] = n}
LinksOf(u) == {l \in LinkIds : links[l].user = u}
LinkOf(i) == {l \in LinkIds : links[l].user # 0 /\ links[l].identity = i}

-----------------------------------------------------------------------------
ABegin(r, q) ==
    /\ ~Busy(areq, r)
    /\ ABecome(r, q)
    /\ unraced' = [f \in Flows |-> unraced[f] /\ ~(/\ f = q.flow /\ q.pc = "getState"
          /\ \E o \in InProgress(areq, r) : o.flow = f /\ o.pc \in {"getState", "delState"})]
    /\ calm' = [u \in AccountIds |-> calm[u] /\ ~(/\ u = q.user /\ q.pc = "find"
          /\ \E o \in InProgress(areq, r) : o.user = u /\ o.pc \in {"find", "others", "delete"})]
    /\ UNCHANGED <<oauthRedis, oauthDb, passed, registered>>

(* oauth_authorize and link_account: generate_state. *)
Authorize ==
    /\ lastState < MaxFlows
    /\ lastState' = lastState + 1 /\ states' = states \cup {lastState + 1}
    /\ UNCHANGED <<waiting, lastWaiting, oauthDb, oauthHistory, areq>>

AArrive(r) ==
    \/ \E f \in 1..lastState : ABegin(r, [AIdle EXCEPT !.pc = "getState", !.flow = f])
    \/ \E f \in 1..lastWaiting : ABegin(r, [AIdle EXCEPT !.pc = "getSession", !.flow = f])
    \/ \E u \in Registered, l \in LinkIds :
          \* get_by_user_and_provider looks among the links of the provider
          ABegin(r, [AIdle EXCEPT !.pc = "find", !.user = u, !.link = l])

GetState(r) ==
    LET q == areq[r] IN
    /\ q.pc = "getState"
    /\ ABecome(r, IF q.flow \in states THEN [q EXCEPT !.pc = "delState"] ELSE AIdle)
    /\ UNCHANGED <<oauthRedis, oauthDb, oauthHistory>>

(* The provider then says who signs in, or fails (AAbort). *)
DeleteState(r) ==
    LET q == areq[r] IN
    /\ q.pc = "delState"
    /\ states' = states \ {q.flow}
    /\ passed' = [passed EXCEPT ![q.flow] = @ + 1]
    /\ \E i \in Identities : ABecome(r, [q EXCEPT !.pc = "lookUp", !.identity = i, !.flow = 0])
    /\ UNCHANGED <<lastState, waiting, lastWaiting, oauthDb, registered, unraced, calm>>

(* get_by_provider_user *)
LookUpIdentity(r) ==
    LET q == areq[r] IN
    /\ q.pc = "lookUp"
    /\ IF LinkOf(q.identity) = {} THEN ABecome(r, [q EXCEPT !.pc = "address"])
       ELSE \E l \in LinkOf(q.identity) :
               ABecome(r, [q EXCEPT !.pc = "login", !.user = links[l].user, !.link = l])
    /\ UNCHANGED <<oauthRedis, oauthDb, oauthHistory>>

(* The tokens of the link are updated; when the link is gone by then the   *)
(* update finds nothing, and the sign-in goes on without it.               *)
SignIn(r) ==
    /\ areq[r].pc = "login"
    /\ ABecome(r, AIdle)
    /\ UNCHANGED <<oauthRedis, oauthDb, oauthHistory>>

(* The user with the address of the identity, or a registration to wait    *)
(* for.                                                                    *)
LookUpAddress(r) ==
    LET q == areq[r]  n == Name[q.identity] IN
    /\ q.pc = "address"
    /\ IF q.identity \in Mailed /\ WithAddress(n) # {}
         THEN /\ \E u \in WithAddress(n) : ABecome(r, [q EXCEPT !.pc = "link", !.user = u])
              /\ UNCHANGED <<waiting, lastWaiting>>
         ELSE /\ lastWaiting < MaxFlows
              /\ lastWaiting' = lastWaiting + 1
              /\ waiting' = [waiting EXCEPT ![lastWaiting + 1] = q.identity]
              /\ ABecome(r, AIdle)
    /\ UNCHANGED <<states, lastState, oauthDb, oauthHistory>>

(* The unique constraint on provider, provider user and tenant. *)
InsertLink(r, u) ==
    /\ LinkOf(areq[r].identity) = {} /\ lastLink < MaxLinks
    /\ lastLink' = lastLink + 1
    /\ links' = [links EXCEPT ![lastLink + 1] = [identity |-> areq[r].identity, user |-> u]]

LinkByAddress(r) ==
    /\ areq[r].pc = "link"
    /\ InsertLink(r, areq[r].user)
    /\ ABecome(r, AIdle)
    /\ UNCHANGED <<oauthRedis, accounts, lastAccount, passwords, oauthHistory>>

GetSession(r) ==
    LET q == areq[r] IN
    /\ q.pc = "getSession"
    /\ ABecome(r, IF waiting[q.flow] = Nobody THEN AIdle
                  ELSE [q EXCEPT !.pc = "delSession", !.identity = waiting[q.flow]])
    /\ UNCHANGED <<oauthRedis, oauthDb, oauthHistory>>

DeleteSession(r) ==
    LET q == areq[r] IN
    /\ q.pc = "delSession"
    /\ waiting' = [waiting EXCEPT ![q.flow] = Nobody]
    /\ ABecome(r, [q EXCEPT !.pc = "check", !.flow = 0])
    /\ UNCHANGED <<states, lastState, lastWaiting, oauthDb, oauthHistory>>

CheckAddress(r) ==
    LET q == areq[r] IN
    /\ q.pc = "check"
    /\ ABecome(r, IF q.identity \in Mailed /\ WithAddress(Name[q.identity]) # {} THEN AIdle
                  ELSE [q EXCEPT !.pc = "create"])
    /\ UNCHANGED <<oauthRedis, oauthDb, oauthHistory>>

InsertUser(n) ==
    /\ lastAccount < MaxAccounts /\ lastAccount' = lastAccount + 1
    /\ accounts' = [accounts EXCEPT ![lastAccount + 1] = n]
    /\ UNCHANGED passwords

(* The user, whose address no constraint keeps unique, then the link. *)
CreateUser(r) ==
    LET i == areq[r].identity IN
    /\ areq[r].pc = "create"
    /\ InsertUser(Name[i]) /\ InsertLink(r, lastAccount + 1)
    /\ registered' = [registered EXCEPT ![i] = @ + 1]
    /\ ABecome(r, AIdle)
    /\ UNCHANGED <<oauthRedis, passed, unraced, calm>>

(* unlink_account *)
FindLink(r) ==
    LET q == areq[r] IN
    /\ q.pc = "find"
    /\ ABecome(r, IF links[q.link].user = q.user THEN [q EXCEPT !.pc = "others"] ELSE AIdle)
    /\ UNCHANGED <<oauthRedis, oauthDb, oauthHistory>>

(* Mutant of OtherWays: a second account at the same provider counts.      *)
OtherWaysAny(r) ==
    LET q == areq[r] IN
    /\ q.pc = "others"
    /\ ABecome(r, IF q.user \in passwords \/ LinksOf(q.user) # {}
                    THEN [q EXCEPT !.pc = "delete"] ELSE AIdle)
    /\ UNCHANGED <<oauthRedis, oauthDb, oauthHistory>>

(* A password, or an account at another provider. *)
OtherWays(r) ==
    LET q == areq[r]
        provider(l) == Provider[links[l].identity]
    IN
    /\ q.pc = "others"
    /\ ABecome(r, IF \/ q.user \in passwords
                     \/ \E l \in LinksOf(q.user) : provider(l) # provider(q.link)
                    THEN [q EXCEPT !.pc = "delete"] ELSE AIdle)
    /\ UNCHANGED <<oauthRedis, oauthDb, oauthHistory>>

(* A row that is gone already deletes nothing. *)
Unlink(r) ==
    LET l == areq[r].link IN
    /\ areq[r].pc = "delete"
    /\ links' = [links EXCEPT ![l].user = 0]
    /\ registered' = [registered EXCEPT ![links[l].identity] = 0]
    /\ ABecome(r, AIdle)
    /\ UNCHANGED <<oauthRedis, accounts, lastAccount, passwords, lastLink, passed, unraced, calm>>

(* An OAuthError, the end of the connection or of the process: a rollback, *)
(* but what was deleted from Redis stays deleted.                          *)
AAbort(r) ==
    /\ Busy(areq, r) /\ ABecome(r, AIdle)
    /\ UNCHANGED <<oauthRedis, oauthDb, oauthHistory>>

(* STATE_TTL and SESSION_TTL *)
Expire ==
    /\ \/ \E f \in states : states' = states \ {f} /\ UNCHANGED waiting
       \/ \E f \in Flows : /\ waiting[f] # Nobody
                           /\ waiting' = [waiting EXCEPT ![f] = Nobody] /\ UNCHANGED states
    /\ UNCHANGED <<lastState, lastWaiting, oauthDb, oauthHistory, areq>>

AStep(r) ==
    \/ GetState(r) \/ DeleteState(r) \/ LookUpIdentity(r) \/ SignIn(r) \/ LookUpAddress(r)
    \/ LinkByAddress(r) \/ GetSession(r) \/ DeleteSession(r) \/ CheckAddress(r) \/ CreateUser(r)
    \/ FindLink(r) \/ OtherWays(r) \/ Unlink(r)

OAuthNext == Authorize \/ Expire \/ \E r \in Workers : AArrive(r) \/ AStep(r) \/ AAbort(r)

OAuthSpec == OAuthInit /\ [][OAuthNext]_oauthVars

-----------------------------------------------------------------------------
(* Every variable has its type. *)
OAuthTypeOK ==
    /\ states \subseteq Flows /\ lastState \in 0..MaxFlows
    /\ waiting \in [Flows -> Identities \cup {Nobody}] /\ lastWaiting \in 0..MaxFlows
    /\ accounts \in [AccountIds -> Names \cup {Nobody}] /\ lastAccount \in 0..MaxAccounts
    /\ passwords \subseteq AccountIds
    /\ links \in [LinkIds -> [identity : Identities, user : 0..MaxAccounts]]
    /\ lastLink \in 0..MaxLinks
    /\ passed \in [Flows -> Nat] /\ registered \in [Identities -> Nat]
    /\ unraced \in [Flows -> BOOLEAN] /\ calm \in [AccountIds -> BOOLEAN] /\ areq \in [Workers -> OAuthRequest]

(* However many registrations of an identity wait and overlap, they create *)
(* one user, to whom the identity is linked, until it is unlinked.          *)
OneUserPerIdentity ==
    \A i \in Identities :
        registered[i] <= Cardinality(LinkOf(i)) /\ Cardinality(LinkOf(i)) <= 1

(* The state of a flow is accepted once, unless two callbacks race for it. *)
StateOnce == \A f \in Flows : unraced[f] => passed[f] <= 1

(* A user who unlinks one identity at a time keeps a way to sign in.       *)
KeepsSignIn ==
    \A u \in Registered : calm[u] => u \in passwords \/ LinksOf(u) # {}

(* An identity leads to one user, a flow is taken once, and nobody is shut *)
(* out by unlinking: the parts above.                                      *)
OAuthConsistent == OAuthTypeOK /\ OneUserPerIdentity /\ StateOnce /\ KeepsSignIn
=============================================================================
