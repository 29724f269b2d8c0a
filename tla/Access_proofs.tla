----------------------------- MODULE Access_proofs -----------------------------
(***************************************************************************)
(* Proofs about API keys, roles, users and their passwords, for any number *)
(* of concurrent requests, of tenants and of rows.                         *)
(***************************************************************************)
EXTENDS ApiKeys, Roles, Accounts, Credentials, FiniteSetTheorems, TLAPS

(* The other requests in progress, of any component. *)
LEMMA InProgressFacts ==
    ASSUME NEW reqs, NEW r, NEW q \in Workers, q # r, reqs[q].pc # "idle"
    PROVE  reqs[q] \in InProgress(reqs, r)
BY DEF InProgress, Busy

-----------------------------------------------------------------------------
(* API keys.  A use that has flushed last_used_at holds the row of its key *)
(* until it ends, so what it read of the window stays true of the key.  A  *)
(* use that found the row gone holds nothing, and no row comes back.       *)
Holding == {"enforce", "log"}
KeyWork(q) ==
    /\ q.late => q.key \in condemned /\ q.pc \notin {"touch", "enforce", "log"}
    /\ q.pc \in {"touch", "enforce", "log"} => q.key \in 1..lastKey
    /\ q.pc = "log" => recent[q.key] < Limit
KeysInv ==
    /\ KeysTypeOK /\ condemned \subseteq 1..lastKey
    /\ KeysStayRevoked /\ UsesWithinLimit
    /\ \A r \in Workers : KeyWork(kreq[r])
    /\ \A r, q \in Workers : kreq[r].pc \in Holding /\ kreq[q].pc \in Holding
                             /\ kreq[r].key = kreq[q].key /\ kreq[r].key \in keyRows => r = q

LEMMA KIdleType == KIdle \in KeyRequest /\ KIdle.pc = "idle" /\ KIdle.late = FALSE /\ KIdle.key = 0
BY KeysAssumption DEF KIdle, KeyRequest

LEMMA KMoved ==
    ASSUME KeysTypeOK, NEW r \in Workers, NEW x \in KeyRequest, KBecome(r, x)
    PROVE  /\ kreq' \in [Workers -> KeyRequest] /\ kreq'[r] = x
           /\ \A q \in Workers : q # r => kreq'[q] = kreq[q]
BY DEF KBecome, KeysTypeOK

LEMMA KRanges ==
    ASSUME KeysTypeOK
    PROVE  /\ lastKey \in Nat /\ 1..lastKey \subseteq KeyIds /\ keyRows \subseteq KeyIds
           /\ \A k \in keyRows : keys[k] \in Key
BY KeysAssumption DEF KeysTypeOK, KeyIds

LEMMA KIdled ==
    ASSUME KeysTypeOK, NEW r \in Workers, KBecome(r, KIdle)
    PROVE  kreq' \in [Workers -> KeyRequest]
BY KMoved, KIdleType

LEMMA KUnlocked ==
    ASSUME NEW r \in Workers, NEW k, ~Locked(r, k), NEW q \in Workers, q # r,
           kreq[q].pc \in Holding
    PROVE  kreq[q].key # k
BY InProgressFacts DEF Locked, Holding

(* A request takes a step that writes no row. *)
LEMMA KLocal ==
    ASSUME KeysInv, NEW r \in Workers, NEW x \in KeyRequest, KBecome(r, x), KKeep,
           KeyWork(x),
           x.pc \in Holding => \/ kreq[r].pc \in Holding /\ x.key = kreq[r].key
                               \/ ~Locked(r, x.key)
                               \/ x.key \notin keyRows
    PROVE  KeysInv'
<1>1. /\ kreq' \in [Workers -> KeyRequest] /\ kreq'[r] = x
      /\ \A q \in Workers : q # r => kreq'[q] = kreq[q]
  BY KMoved DEF KeysInv
<1>2. UNCHANGED <<keyRows, keys, lastKey, recent, condemned>>
  BY DEF KKeep, keysDb
<1>3. KeysTypeOK' /\ (condemned \subseteq 1..lastKey)' /\ KeysStayRevoked' /\ UsesWithinLimit'
  BY <1>1, <1>2 DEF KeysInv, KeysTypeOK, KeysStayRevoked, UsesWithinLimit, IsValid
<1>4. \A q \in Workers : KeyWork(kreq[q])'
  BY <1>1, <1>2 DEF KeysInv, KeyWork
<1>5. ASSUME NEW p \in Workers, NEW q \in Workers, kreq'[p].pc \in Holding,
             kreq'[q].pc \in Holding, kreq'[p].key = kreq'[q].key, kreq'[p].key \in keyRows
      PROVE  p = q
  <2>1. ASSUME NEW o \in Workers, o # r, kreq[o].pc \in Holding, x.pc \in Holding,
               kreq[o].key = x.key, x.key \in keyRows
        PROVE  FALSE
    <3>1. CASE ~Locked(r, x.key)
      BY <2>1, <3>1, KUnlocked
    <3>2. CASE kreq[r].pc \in Holding /\ x.key = kreq[r].key
      BY <2>1, <3>2 DEF KeysInv
    <3> QED BY <2>1, <3>1, <3>2
  <2>2. CASE p = r \/ q = r
    BY <1>1, <1>5, <2>1, <2>2
  <2>3. CASE p # r /\ q # r
    BY <1>1, <1>5, <2>3 DEF KeysInv
  <2> QED BY <2>2, <2>3
<1> QED BY <1>2, <1>3, <1>4, <1>5 DEF KeysInv

(* A request ends with a write. *)
LEMMA KEnds ==
    ASSUME KeysInv, NEW r \in Workers, KBecome(r, KIdle),
           KeysTypeOK', (condemned \subseteq 1..lastKey)', KeysStayRevoked', UsesWithinLimit',
           condemned \subseteq condemned', keyRows' \subseteq keyRows, lastKey' = lastKey,
           \A q \in Workers : q # r /\ kreq[q].pc = "log" /\ recent[kreq[q].key] < Limit
                             => recent'[kreq[q].key] < Limit
    PROVE  KeysInv'
<1>1. /\ kreq'[r] = KIdle
      /\ \A q \in Workers : q # r => kreq'[q] = kreq[q]
  BY KMoved, KIdleType DEF KeysInv
<1>2. ASSUME NEW q \in Workers PROVE KeyWork(kreq[q])'
  <2>1. CASE q = r
    BY <1>1, <2>1, KIdleType DEF KeyWork
  <2>2. CASE q # r
    <3>1. kreq[q].pc = "log" => recent[kreq[q].key] < Limit
      BY DEF KeysInv, KeyWork
    <3>2. kreq[q].pc = "log" => recent'[kreq[q].key] < Limit
      BY <3>1, <2>2
    <3> QED BY <1>1, <2>2, <3>2 DEF KeyWork, KeysInv
  <2> QED BY <2>1, <2>2
<1>3. \A p, q \in Workers : kreq'[p].pc \in Holding /\ kreq'[q].pc \in Holding
                            /\ kreq'[p].key = kreq'[q].key /\ kreq'[p].key \in keyRows' => p = q
  BY <1>1, KIdleType DEF KeysInv, Holding
<1> QED BY <1>2, <1>3 DEF KeysInv

LEMMA KInit == KeysInit => KeysInv
<1> SUFFICES ASSUME KeysInit PROVE KeysInv
  OBVIOUS
<1>1. keys \in [KeyIds -> Key]
  <2>1. KIdle.tenant \in Tenants
    BY KIdleType DEF KeyRequest
  <2> QED BY <2>1 DEF KeysInit, Key
<1>2. recent \in [KeyIds -> Nat] /\ UsesWithinLimit
  BY KeysAssumption DEF KeysInit, UsesWithinLimit
<1>3. kreq \in [Workers -> KeyRequest]
  BY KIdleType DEF KeysInit
<1>5. KeysTypeOK
  <2>1. lastKey \in 0..MaxKeys /\ keyRows = {} /\ condemned = {}
    BY KeysAssumption DEF KeysInit
  <2> QED BY <1>1, <1>2, <1>3, <2>1 DEF KeysTypeOK
<1>6. KeysStayRevoked /\ condemned \subseteq 1..lastKey
  BY DEF KeysInit, KeysStayRevoked
<1>4. \A r \in Workers : kreq[r] = KIdle
  BY DEF KeysInit
<1> QED BY <1>2, <1>5, <1>6, <1>4, KIdleType DEF KeysInv, KeyWork, Holding

LEMMA KArrives ==
    ASSUME KeysInv, NEW r \in Workers, KArrive(r)
    PROVE  KeysInv'
<1>0. \A k \in 1..lastKey : k \in 0..MaxKeys
  BY KeysAssumption DEF KeysInv, KeysTypeOK
<1>1. ASSUME NEW q \in KeyRequest, q.pc \in {"validate", "load", "sweep"}, KBegin(r, q)
      PROVE  KeysInv'
  <2> DEFINE x == [q EXCEPT !.late = q.key \in condemned]
  <2>1. /\ x \in KeyRequest /\ x.pc = q.pc /\ x.key = q.key
        /\ x.late <=> q.key \in condemned
    <3> DEFINE b == q.key \in condemned
    <3>1. b \in BOOLEAN
      OBVIOUS
    <3> HIDE DEF b
    <3>2. LET y == [q EXCEPT !.late = b]
          IN  y \in KeyRequest /\ y.pc = q.pc /\ y.key = q.key /\ (y.late <=> b)
      BY <3>1 DEF KeyRequest
    <3> QED BY <3>2 DEF b
  <2>2. KBecome(r, x) /\ KKeep
    BY <1>1 DEF KBegin
  <2> HIDE DEF x
  <2>3. KeyWork(x)
    BY <1>1, <2>1 DEF KeyWork
  <2> QED BY <1>1, <2>1, <2>2, <2>3, KLocal DEF Holding
<1>2. ASSUME NEW k \in 1..lastKey, NEW s \in Scopes,
             KBegin(r, [KIdle EXCEPT !.pc = "validate", !.key = k, !.scope = s])
      PROVE  KeysInv'
  <2> DEFINE q == [KIdle EXCEPT !.pc = "validate", !.key = k, !.scope = s]
  <2>1. q \in KeyRequest /\ q.pc = "validate"
    BY <1>0, KIdleType DEF KeyRequest
  <2>2. KBegin(r, q)
    BY <1>2
  <2> HIDE DEF q
  <2> QED BY <1>1, <2>1, <2>2
<1>3. ASSUME NEW k \in 1..lastKey, NEW t \in Tenants,
             KBegin(r, [KIdle EXCEPT !.pc = "load", !.op = "revoke", !.key = k, !.tenant = t])
      PROVE  KeysInv'
  <2> DEFINE q == [KIdle EXCEPT !.pc = "load", !.op = "revoke", !.key = k, !.tenant = t]
  <2>1. q \in KeyRequest /\ q.pc = "load"
    BY <1>0, KIdleType DEF KeyRequest
  <2>2. KBegin(r, q)
    BY <1>3
  <2> HIDE DEF q
  <2> QED BY <1>1, <2>1, <2>2
<1>4. ASSUME NEW t \in Tenants,
             KBegin(r, [KIdle EXCEPT !.pc = "sweep", !.op = "revokeAll", !.tenant = t])
      PROVE  KeysInv'
  <2> DEFINE q == [KIdle EXCEPT !.pc = "sweep", !.op = "revokeAll", !.tenant = t]
  <2>1. q \in KeyRequest /\ q.pc = "sweep"
    BY <1>0, KIdleType DEF KeyRequest
  <2>2. KBegin(r, q)
    BY <1>4
  <2> HIDE DEF q
  <2> QED BY <1>1, <2>1, <2>2
<1>5. CASE KBegin(r, [KIdle EXCEPT !.pc = "sweep", !.op = "cleanup"])
  <2> DEFINE q == [KIdle EXCEPT !.pc = "sweep", !.op = "cleanup"]
  <2>1. q \in KeyRequest /\ q.pc = "sweep"
    BY KIdleType DEF KeyRequest
  <2>2. KBegin(r, q)
    BY <1>5
  <2> HIDE DEF q
  <2> QED BY <1>1, <2>1, <2>2
<1> QED BY <1>2, <1>3, <1>4, <1>5 DEF KArrive

LEMMA KFails ==
    ASSUME KeysInv, NEW r \in Workers, KBecome(r, KIdle), KKeep
    PROVE  KeysInv'
BY KLocal, KIdleType DEF KeyWork, Holding

(* A step that only moves the request on. *)
LEMMA KGoes ==
    ASSUME KeysInv, NEW r \in Workers, NEW pc, KGoto(r, pc), KKeep,
           pc \in {"enforce", "log", "revoke"},
           pc = "log" => recent[kreq[r].key] < Limit,
           (~kreq[r].late /\ kreq[r].key \in 1..lastKey) \/ pc = "revoke",
           pc \in Holding => \/ kreq[r].pc \in Holding \/ ~Locked(r, kreq[r].key)
                             \/ kreq[r].key \notin keyRows
    PROVE  KeysInv'
<1> DEFINE x == [kreq[r] EXCEPT !.pc = pc]
<1>1. /\ x \in KeyRequest /\ x.pc = pc /\ x.key = kreq[r].key /\ x.late = kreq[r].late
      /\ KBecome(r, x)
  BY DEF KeysInv, KeysTypeOK, KeyRequest, KGoto
<1> HIDE DEF x
<1>2. KeyWork(x)
  BY <1>1 DEF KeysInv, KeyWork
<1> QED BY <1>1, <1>2, KLocal

LEMMA KUse ==
    ASSUME KeysInv, NEW r \in Workers, ValidateKey(r) \/ Touch(r) \/ EnforceRateLimit(r) \/ LoadKey(r)
    PROVE  KeysInv'
<1>1. CASE ValidateKey(r)
  <2> DEFINE x == [kreq[r] EXCEPT !.pc = "touch", !.seen = keys[kreq[r].key].revoked]
  <2>1. CASE KBecome(r, x) /\ kreq[r].key \in keyRows /\ IsValid(kreq[r].key)
    <3>1. /\ keys[kreq[r].key].revoked = FALSE /\ kreq[r].key \notin condemned
          /\ kreq[r].key \in 1..lastKey
      BY <2>1, KRanges DEF IsValid, KeysInv, KeysStayRevoked, Key, KeysTypeOK
    <3>2. x \in KeyRequest /\ x.pc = "touch" /\ x.key = kreq[r].key /\ x.late = kreq[r].late
      BY <3>1 DEF KeysInv, KeysTypeOK, KeyRequest
    <3> HIDE DEF x
    <3>3. KeyWork(x)
      BY <3>1, <3>2 DEF KeysInv, KeyWork
    <3> QED BY <1>1, <2>1, <3>2, <3>3, KLocal DEF ValidateKey, Holding
  <2>2. CASE KBecome(r, KIdle)
    BY <1>1, <2>2, KFails DEF ValidateKey
  <2> QED BY <1>1, <2>1, <2>2 DEF ValidateKey
<1>2. CASE Touch(r)
  <2>1. ~kreq[r].late /\ kreq[r].key \in 1..lastKey
    BY <1>2 DEF Touch, KeysInv, KeyWork
  <2> QED BY <1>2, <2>1, KGoes DEF Touch
<1>3. CASE EnforceRateLimit(r)
  <2>1. ~kreq[r].late /\ kreq[r].pc \in Holding /\ kreq[r].key \in 1..lastKey
    BY <1>3 DEF EnforceRateLimit, KeysInv, KeyWork, Holding
  <2> QED BY <1>3, <2>1, KGoes, KFails DEF EnforceRateLimit
<1>4. CASE LoadKey(r)
  BY <1>4, KGoes, KFails DEF LoadKey, Holding
<1> QED BY <1>1, <1>2, <1>3, <1>4

(* The use of a key that is gone holds no row, and logs nothing. *)
LEMMA KGones ==
    ASSUME KeysInv, NEW r \in Workers, KeyGone(r)
    PROVE  KeysInv'
<1>1. CASE kreq[r].pc = "touch" /\ KGoto(r, "enforce") /\ KKeep
  <2>1. ~kreq[r].late /\ kreq[r].key \in 1..lastKey
    BY <1>1 DEF KeysInv, KeyWork
  <2> QED BY <1>1, <2>1, KGoes DEF KeyGone
<1>2. CASE KFail(r)
  BY <1>2, KFails DEF KFail, KKeep
<1> QED BY <1>1, <1>2 DEF KeyGone

LEMMA KLogs ==
    ASSUME KeysInv, NEW r \in Workers, LogUsage(r)
    PROVE  KeysInv'
<1> DEFINE k == kreq[r].key
<1>0. k \in keyRows /\ k \in KeyIds
  BY KRanges DEF LogUsage, KeysInv
<1>1. /\ recent[k] < Limit /\ UNCHANGED <<keyRows, keys, lastKey, condemned>>
      /\ recent' = [recent EXCEPT ![k] = @ + 1] /\ KBecome(r, KIdle)
  BY DEF LogUsage, KeysInv, KeyWork
<1>2. recent' \in [KeyIds -> Nat]
  <2>1. \A j \in KeyIds : recent'[j] \in Nat
    BY <1>1 DEF KeysInv, KeysTypeOK
  <2>2. recent' = [j \in KeyIds |-> recent'[j]]
    BY <1>1 DEF KeysInv, KeysTypeOK
  <2> QED BY <2>1, <2>2
<1>3. UsesWithinLimit'
  BY <1>0, <1>1, KeysAssumption DEF KeysInv, KeysTypeOK, UsesWithinLimit
<1>4. KeysTypeOK' /\ KeysStayRevoked' /\ (condemned \subseteq 1..lastKey)'
  BY <1>1, <1>2, KMoved, KIdleType DEF KeysInv, KeysTypeOK, KeysStayRevoked
<1>5. \A q \in Workers : q # r /\ kreq[q].pc = "log" => kreq[q].key # k
  BY <1>0 DEF KeysInv, Holding, LogUsage
<1>6. \A q \in Workers : q # r /\ kreq[q].pc = "log" /\ recent[kreq[q].key] < Limit
                          => recent'[kreq[q].key] < Limit
  BY <1>1, <1>5 DEF KeysInv, KeysTypeOK, KeyWork
<1> HIDE DEF k
<1> QED BY <1>1, <1>3, <1>4, <1>6, KEnds

LEMMA KRevokes ==
    ASSUME KeysInv, NEW r \in Workers, RevokeKey(r) \/ RevokeAll(r) \/ CleanUpKeys(r)
    PROVE  KeysInv'
<1>1. CASE RevokeKey(r)
  <2>1. /\ UNCHANGED <<keyRows, lastKey, recent>> /\ KBecome(r, KIdle) /\ kreq[r].key \in keyRows
        /\ keys' = [keys EXCEPT ![kreq[r].key].revoked = TRUE]
        /\ condemned' = condemned \cup {kreq[r].key}
    BY <1>1 DEF RevokeKey
  <2>2. keys' \in [KeyIds -> Key] /\ \A k \in KeyIds :
           keys'[k].revoked <=> keys[k].revoked \/ k = kreq[r].key
    <3>1. \A k \in KeyIds : keys[k] \in Key /\
             keys'[k] = IF k = kreq[r].key THEN [keys[k] EXCEPT !.revoked = TRUE] ELSE keys[k]
      BY <2>1 DEF KeysInv, KeysTypeOK
    <3>2. keys' = [k \in KeyIds |-> keys'[k]]
      BY <2>1 DEF KeysInv, KeysTypeOK
    <3>3. ASSUME NEW k \in KeyIds
          PROVE  keys'[k] \in Key /\ (keys'[k].revoked <=> keys[k].revoked \/ k = kreq[r].key)
      <4>1. CASE k = kreq[r].key
        <5>1. keys[k] \in Key /\ keys'[k] = [keys[k] EXCEPT !.revoked = TRUE]
          BY <3>1, <4>1
        <5> QED BY <4>1, <5>1 DEF Key
      <4>2. CASE k # kreq[r].key
        BY <3>1, <4>2
      <4> QED BY <4>1, <4>2
    <3> QED BY <3>2, <3>3
  <2>3. KeysTypeOK' /\ KeysStayRevoked' /\ UsesWithinLimit' /\ (condemned \subseteq 1..lastKey)'
    BY <2>1, <2>2, KIdled, KRanges DEF KeysInv, KeysTypeOK, KeysStayRevoked, UsesWithinLimit
  <2> QED BY <2>1, <2>3, KEnds
<1>2. CASE RevokeAll(r)
  <2> DEFINE all == {k \in keyRows : keys[k].tenant = kreq[r].tenant}
  <2>1. /\ UNCHANGED <<keyRows, lastKey, recent>> /\ KBecome(r, KIdle)
        /\ keys' = [k \in KeyIds |-> [keys[k] EXCEPT !.revoked = @ \/ k \in all]]
        /\ condemned' = condemned \cup all /\ all \subseteq keyRows
    BY <1>2 DEF RevokeAll
  <2> HIDE DEF all
  <2>2. keys' \in [KeyIds -> Key] /\ \A k \in KeyIds :
           keys'[k].revoked <=> keys[k].revoked \/ k \in all
    <3>1. \A k \in KeyIds : keys[k] \in Key /\ (keys[k].revoked \/ k \in all) \in BOOLEAN
      BY DEF KeysInv, KeysTypeOK, Key
    <3>2. \A k \in KeyIds : keys'[k] = [keys[k] EXCEPT !.revoked = keys[k].revoked \/ k \in all]
      BY <2>1
    <3>3. keys' = [k \in KeyIds |-> keys'[k]]
      BY <2>1
    <3>4. ASSUME NEW k \in KeyIds
          PROVE  keys'[k] \in Key /\ (keys'[k].revoked <=> keys[k].revoked \/ k \in all)
      <4> DEFINE b == keys[k].revoked \/ k \in all
      <4>1. b \in BOOLEAN /\ keys[k] \in Key /\ keys'[k] = [keys[k] EXCEPT !.revoked = b]
        BY <3>1, <3>2
      <4> HIDE DEF b
      <4>2. keys'[k] \in Key /\ (keys'[k].revoked <=> b)
        BY <4>1, SMTT(20) DEF Key
      <4> QED BY <4>2 DEF b
    <3> QED BY <3>3, <3>4
  <2>3. KeysTypeOK' /\ KeysStayRevoked' /\ UsesWithinLimit' /\ (condemned \subseteq 1..lastKey)'
    BY <2>1, <2>2, KIdled, KRanges DEF KeysInv, KeysTypeOK, KeysStayRevoked, UsesWithinLimit
  <2> QED BY <2>1, <2>3, KEnds
<1>3. CASE CleanUpKeys(r)
  <2> DEFINE old == {k \in keyRows : keys[k].old}
  <2>1. /\ UNCHANGED <<keys, lastKey, condemned>> /\ KBecome(r, KIdle)
        /\ keyRows' = keyRows \ old
        /\ recent' = [k \in KeyIds |-> IF k \in old THEN 0 ELSE recent[k]]
    BY <1>3 DEF CleanUpKeys, KeysInv, KeysTypeOK, KeyIds
  <2>2. \A q \in Workers : q # r /\ kreq[q].pc = "log" => kreq[q].key \notin old
    BY <1>3, KUnlocked DEF CleanUpKeys, Holding
  <2> HIDE DEF old
  <2>5. recent' \in [KeyIds -> Nat] /\ UsesWithinLimit'
    BY <2>1, KeysAssumption DEF KeysInv, KeysTypeOK, UsesWithinLimit
  <2>3. KeysTypeOK' /\ KeysStayRevoked' /\ UsesWithinLimit' /\ (condemned \subseteq 1..lastKey)'
    BY <2>1, <2>5, KIdled DEF KeysInv, KeysTypeOK, KeysStayRevoked
  <2>4. \A q \in Workers : q # r /\ kreq[q].pc = "log" /\ recent[kreq[q].key] < Limit
                          => recent'[kreq[q].key] < Limit
    BY <2>1, <2>2, KRanges DEF KeysInv, KeysTypeOK, KeyWork
  <2> QED BY <2>1, <2>3, <2>4, KEnds
<1> QED BY <1>1, <1>2, <1>3

(* Nobody's step: a key is created, or time passes for one. *)
LEMMA KElsewhere ==
    ASSUME KeysInv, UNCHANGED <<condemned, kreq>>,
           \/ \E t \in Tenants, scopes \in {Everything} \cup {{s} : s \in Scopes},
                 e \in {"never", "later", "past"} : CreateKey(t, scopes, e)
           \/ \E k \in KeyIds : KeyTime(k)
    PROVE  KeysInv'
<1>1. ASSUME KeysTypeOK', KeysStayRevoked', UsesWithinLimit', lastKey <= lastKey',
             \A k \in 1..lastKey : k \in keyRows' => k \in keyRows,
             \A q \in Workers : recent[kreq[q].key] < Limit => recent'[kreq[q].key] < Limit
      PROVE  KeysInv'
  <2>1. (condemned \subseteq 1..lastKey)'
    BY <1>1 DEF KeysInv, KeysTypeOK
  <2>2. \A q \in Workers : KeyWork(kreq[q])'
    BY <1>1 DEF KeysInv, KeyWork, KeysTypeOK
  <2>3. \A p, q \in Workers :
           kreq'[p].pc \in Holding /\ kreq'[q].pc \in Holding
           /\ kreq'[p].key = kreq'[q].key /\ kreq'[p].key \in keyRows' => p = q
    BY <1>1 DEF KeysInv, KeyWork, Holding
  <2> QED BY <1>1, <2>1, <2>2, <2>3 DEF KeysInv
<1>2. ASSUME NEW t \in Tenants, NEW scopes \in SUBSET Scopes, NEW e \in {"never", "later", "past"},
             CreateKey(t, scopes, e)
      PROVE  KeysInv'
  <2> DEFINE k == lastKey + 1
  <2>1. /\ k \in KeyIds /\ k \notin condemned /\ lastKey' = k /\ keyRows' = keyRows \cup {k}
        /\ keys' = [keys EXCEPT ![k] = [tenant |-> t, scopes |-> scopes, revoked |-> FALSE,
                                         expiry |-> e, old |-> FALSE]]
        /\ UNCHANGED recent
    BY <1>2, KeysAssumption DEF CreateKey, KeysInv, KeysTypeOK, KeyIds
  <2>2. keys' \in [KeyIds -> Key] /\ \A j \in KeyIds : j # k => keys'[j] = keys[j]
    <3>1. [tenant |-> t, scopes |-> scopes, revoked |-> FALSE, expiry |-> e, old |-> FALSE] \in Key
      BY DEF Key
    <3> QED BY <2>1, <3>1 DEF KeysInv, KeysTypeOK
  <2>3. KeysTypeOK' /\ lastKey <= lastKey'
    <3>1. lastKey' \in 0..MaxKeys /\ lastKey <= lastKey' /\ keyRows' \subseteq 1..lastKey'
      BY <2>1, KRanges DEF KeysInv, KeysTypeOK, KeyIds
    <3> QED BY <2>1, <2>2, <3>1 DEF KeysInv, KeysTypeOK
  <2>4. KeysStayRevoked' /\ UsesWithinLimit'
    BY <2>1, <2>2 DEF KeysInv, KeysTypeOK, KeysStayRevoked, UsesWithinLimit, KeyIds
  <2>5. \A j \in 1..lastKey : j \in keyRows' => j \in keyRows
    BY <2>1, KRanges DEF KeysInv
  <2> QED BY <1>1, <2>1, <2>3, <2>4, <2>5
<1>3. ASSUME NEW k \in KeyIds, KeyTime(k)
      PROVE  KeysInv'
  <2>1. UNCHANGED <<keyRows, lastKey>>
    BY <1>3 DEF KeyTime
  <2>2. CASE UNCHANGED recent /\ (keys' = [keys EXCEPT ![k].expiry = "past"]
                                   \/ keys' = [keys EXCEPT ![k].old = TRUE])
    <3>1. keys' \in [KeyIds -> Key] /\ \A j \in KeyIds : keys'[j].revoked <=> keys[j].revoked
      <4>1. \A j \in KeyIds :
               /\ keys[j] \in Key
               /\ \/ keys'[j] = keys[j]
                  \/ keys'[j] = [keys[j] EXCEPT !.expiry = "past"]
                  \/ keys'[j] = [keys[j] EXCEPT !.old = TRUE]
        BY <2>2 DEF KeysInv, KeysTypeOK
      <4>2. keys' = [j \in KeyIds |-> keys'[j]]
        BY <2>2 DEF KeysInv, KeysTypeOK
      <4>3. ASSUME NEW j \in KeyIds PROVE keys'[j] \in Key /\ (keys'[j].revoked <=> keys[j].revoked)
        <5>1. CASE keys'[j] = [keys[j] EXCEPT !.expiry = "past"]
          <6>1. keys[j] \in Key
            BY <4>1
          <6> QED BY <5>1, <6>1 DEF Key
        <5>2. CASE keys'[j] = [keys[j] EXCEPT !.old = TRUE]
          <6>1. keys[j] \in Key
            BY <4>1
          <6> QED BY <5>2, <6>1 DEF Key
        <5> QED BY <4>1, <5>1, <5>2
      <4> QED BY <4>2, <4>3
    <3>2. KeysTypeOK' /\ KeysStayRevoked' /\ UsesWithinLimit' /\ lastKey <= lastKey'
      BY <2>1, <2>2, <3>1 DEF KeysInv, KeysTypeOK, KeysStayRevoked, UsesWithinLimit, KeyIds
    <3> QED BY <1>1, <2>1, <2>2, <3>2
  <2>3. CASE UNCHANGED keys /\ recent[k] > 0 /\ recent' = [recent EXCEPT ![k] = @ - 1]
    <3>1. recent' \in [KeyIds -> Nat] /\ \A j \in KeyIds : recent'[j] <= recent[j]
      BY <2>3 DEF KeysInv, KeysTypeOK
    <3>2. \A j : recent[j] < Limit => recent'[j] < Limit
      BY <2>3, KeysAssumption DEF KeysInv, KeysTypeOK
    <3>3. KeysTypeOK' /\ KeysStayRevoked' /\ lastKey <= lastKey'
      BY <2>1, <2>3, <3>1 DEF KeysInv, KeysTypeOK, KeysStayRevoked
    <3>4. UsesWithinLimit'
      BY <3>1, KeysAssumption DEF KeysInv, KeysTypeOK, UsesWithinLimit
    <3> QED BY <1>1, <2>1, <3>2, <3>3, <3>4
  <2> QED BY <1>3, <2>2, <2>3 DEF KeyTime
<1> QED BY <1>2, <1>3 DEF Everything

(* A key is usable until it is revoked, for no more than its limit, and by *)
(* nobody who presents it later: whatever validations, revocations and     *)
(* cleanups overlap, for any number of keys and requests.                  *)
THEOREM KeysWork == KeysSpec => []KeysConsistent
<1>1. KeysInv /\ [KeysNext]_keyVars => KeysInv'
  <2> SUFFICES ASSUME KeysInv, [KeysNext]_keyVars PROVE KeysInv'
    OBVIOUS
  <2>1. CASE UNCHANGED keyVars
    BY <2>1 DEF keyVars, keysDb, KeysInv, KeysTypeOK, KeysStayRevoked, UsesWithinLimit, KeyWork
  <2>2. ASSUME NEW r \in Workers, KArrive(r) \/ KStep(r) \/ KAbort(r)
        PROVE  KeysInv'
    <3>1. CASE KAbort(r)
      BY <3>1, KFails DEF KAbort, KFail, KKeep
    <3> QED BY <2>2, <3>1, KArrives, KUse, KGones, KLogs, KRevokes DEF KStep
  <2>3. CASE \/ \E t \in Tenants, scopes \in {Everything} \cup {{s} : s \in Scopes},
                    e \in {"never", "later", "past"} : CreateKey(t, scopes, e)
             \/ \E k \in KeyIds : KeyTime(k)
    BY <2>3, KElsewhere DEF CreateKey, KeyTime
  <2> QED BY <2>1, <2>2, <2>3 DEF KeysNext
<1>2. KeysInv => KeysConsistent
  BY DEF KeysInv, KeysConsistent, NoLateUse, KeyWork
<1> QED BY <1>1, <1>2, KInit, PTL DEF KeysSpec

-----------------------------------------------------------------------------
(* Roles.  What a request has found out of the tables still holds when it  *)
(* writes, unless the history says that another one overlapped it.         *)
OpAtPc(q) ==
    /\ q.pc = "idle" => q.op = "cleanup"
    /\ q.pc \in {"check", "insert"} => q.op = "create"
    /\ q.pc = "load" => q.op \in {"update", "delete"}
    /\ q.pc \in {"delete", "commit"} => q.op = "update"
    /\ q.pc \in {"find", "look"} => q.op \in {"assign", "revoke"}
    /\ q.pc = "write" => q.op \in {"delete", "assign", "revoke", "revokeAll", "cleanup"}
RoleWork(q) ==
    /\ OpAtPc(q)
    /\ q.role \in 0..lastRole
    /\ q.pc \in {"look", "write"} /\ q.op \in {"assign", "revoke"} => q.role \in RoleIds
    /\ q.op = "create" /\ q.tenant = Global /\ q.code \notin doubled =>
          \A i \in roleRows : roles[i].code # q.code
    /\ q.pc = "insert" /\ q.code \notin doubled => Named(q.code, q.tenant) = {}
    /\ q.pc = "commit" /\ q.role \in roleRows \cap unraced => granted[q.role] \subseteq q.covered
    /\ q.op = "assign" => \A p \in bare : p[1] # q.user

(* No two roles that one tenant sees have a code that was not doubled. *)
CodesApart ==
    \A i, j \in roleRows : i # j /\ roles[i].code = roles[j].code /\ roles[i].code \notin doubled =>
        roles[i].tenant # Global /\ roles[j].tenant # Global /\ roles[i].tenant # roles[j].tenant
BareHoldsNothing == \A p \in bare : held[p] = "none"
RoleTables == CodesApart /\ PermissionsAsked /\ BareHoldsNothing

(* What the history says of two requests. *)
Overlap(p, q) ==
    /\ p.op = "create" /\ q.op = "create" /\ p.code = q.code => p.code \in doubled
    /\ p.op = "update" /\ q.op = "update" /\ p.role = q.role => p.role \notin unraced

RolesInv ==
    /\ RolesTypeOK /\ RoleTables
    /\ \A r \in Workers : RoleWork(preq[r])
    /\ \A r, o \in Workers : r # o => Overlap(preq[r], preq[o])

LEMMA PIdleType ==
    PIdle \in RoleRequest /\ PIdle.pc = "idle" /\ PIdle.op = "cleanup" /\ PIdle.role = 0
BY RolesAssumption DEF PIdle, RoleRequest, RoleOps, Terms

LEMMA PRanges ==
    ASSUME RolesTypeOK
    PROVE  /\ lastRole \in Nat /\ 0 \in 0..lastRole
           /\ 1..lastRole \subseteq RoleIds /\ 1..lastRole \subseteq 0..lastRole
           /\ roleRows \subseteq 1..lastRole /\ roleRows \subseteq RoleIds
           /\ 0..lastRole \subseteq 0..MaxRoles
BY RolesAssumption DEF RolesTypeOK, RoleIds

LEMMA PMoved ==
    ASSUME RolesTypeOK, NEW r \in Workers, NEW x \in RoleRequest, PBecome(r, x)
    PROVE  /\ preq' \in [Workers -> RoleRequest] /\ preq'[r] = x
           /\ \A q \in Workers : q # r => preq'[q] = preq[q]
BY DEF PBecome, RolesTypeOK

(* A request takes a step that writes no row. *)
LEMMA PLocal ==
    ASSUME RolesInv, NEW r \in Workers, NEW x \in RoleRequest, PBecome(r, x), PKeep,
           RoleWork(x),
           x.op = "create" => preq[r].op = "create" /\ x.code = preq[r].code,
           x.op = "update" => preq[r].op = "update" /\ x.role = preq[r].role
    PROVE  RolesInv'
<1>1. /\ preq' \in [Workers -> RoleRequest] /\ preq'[r] = x
      /\ \A q \in Workers : q # r => preq'[q] = preq[q]
  BY PMoved DEF RolesInv
<1>2. UNCHANGED <<roleRows, roles, lastRole, granted, held, asked, unraced, doubled, bare>>
  BY DEF PKeep, rolesDb, rolesHistory
<1>3. RolesTypeOK' /\ RoleTables'
  BY <1>1, <1>2 DEF RolesInv, RolesTypeOK, RoleTables, CodesApart, PermissionsAsked, BareHoldsNothing
<1>4. \A q \in RoleRequest : RoleWork(q) => RoleWork(q)'
  BY <1>2 DEF RoleWork, Named
<1>5. \A q \in Workers : RoleWork(preq[q])'
  <2> TAKE q \in Workers
  <2>1. RoleWork(preq[q])' <=> RoleWork(preq'[q])
    BY <1>2 DEF RoleWork, Named
  <2>2. RoleWork(preq'[q])
    BY <1>1 DEF RolesInv
  <2> QED BY <2>1, <2>2
<1>6. ASSUME NEW p \in Workers, NEW q \in Workers, p # q
      PROVE  Overlap(preq[p], preq[q])'
  <2>1. Overlap(preq[p], preq[q])
    BY <1>6 DEF RolesInv
  <2>2. CASE p = r
    BY <1>1, <1>2, <1>6, <2>1, <2>2 DEF Overlap
  <2>3. CASE q = r
    BY <1>1, <1>2, <1>6, <2>1, <2>3 DEF Overlap
  <2>4. CASE p # r /\ q # r
    BY <1>1, <1>2, <2>1, <2>4 DEF Overlap
  <2> QED BY <2>2, <2>3, <2>4
<1> QED BY <1>3, <1>5, <1>6 DEF RolesInv

LEMMA PFails ==
    ASSUME RolesInv, NEW r \in Workers, PBecome(r, PIdle), PKeep
    PROVE  RolesInv'
<1>1. RoleWork(PIdle)
  BY PIdleType, PRanges DEF RoleWork, OpAtPc, RolesInv
<1> QED BY <1>1, PIdleType, PLocal
LEMMA PInit == RolesInit => RolesInv
<1> SUFFICES ASSUME RolesInit PROVE RolesInv
  OBVIOUS
<1>1. roles \in [RoleIds -> Role]
  BY PIdleType DEF RolesInit, Role, RoleRequest
<1>2. /\ roleRows = {} /\ lastRole = 0 /\ doubled = {} /\ bare = {} /\ unraced = RoleIds
      /\ granted = [i \in RoleIds |-> {}] /\ asked = granted
      /\ held = [p \in Members \X RoleIds |-> "none"] /\ preq = [r \in Workers |-> PIdle]
  BY DEF RolesInit
<1>3. RolesTypeOK
  <2>1. lastRole \in 0..MaxRoles /\ granted \in [RoleIds -> SUBSET Permissions]
        /\ held \in [Members \X RoleIds -> Terms \cup {"none"}]
        /\ preq \in [Workers -> RoleRequest]
    BY <1>2, RolesAssumption, PIdleType
  <2> QED BY <1>1, <1>2, <2>1 DEF RolesTypeOK
<1>4. RoleTables
  BY <1>2 DEF RoleTables, CodesApart, PermissionsAsked, BareHoldsNothing
<1>5. RoleWork(PIdle) /\ Overlap(PIdle, PIdle)
  BY <1>2, PIdleType DEF RoleWork, OpAtPc, Overlap
<1> QED BY <1>2, <1>3, <1>4, <1>5 DEF RolesInv

(* A request arrives, and the history takes note of what it overlaps. *)
LEMMA PBegins ==
    ASSUME RolesInv, NEW r \in Workers, NEW x \in RoleRequest, PBegin(r, x),
           x.pc \in {"check", "load", "find", "write"}, OpAtPc(x), x.role \in 0..lastRole,
           ~(x.pc = "write" /\ x.op \in {"assign", "revoke"})
    PROVE  RolesInv'
<1>1. /\ preq' \in [Workers -> RoleRequest] /\ preq'[r] = x
      /\ \A q \in Workers : q # r => preq'[q] = preq[q]
  BY PMoved DEF RolesInv, PBegin
<1>2. /\ UNCHANGED <<roleRows, roles, lastRole, granted, held, asked>>
      /\ unraced' \subseteq unraced /\ doubled \subseteq doubled' /\ bare' \subseteq bare
      /\ doubled' \subseteq RoleCodes
  BY DEF PBegin, rolesDb, RolesInv, RolesTypeOK
<1>3. RolesTypeOK' /\ RoleTables'
  BY <1>1, <1>2 DEF RolesInv, RolesTypeOK, RoleTables, CodesApart, PermissionsAsked, BareHoldsNothing
<1>4. ASSUME NEW q \in Workers PROVE RoleWork(preq[q])'
  <2>1. CASE q # r
    <3>1. RoleWork(preq[q])
      BY DEF RolesInv
    <3> QED BY <1>1, <1>2, <2>1, <3>1 DEF RoleWork, OpAtPc, Named
  <2>2. CASE q = r
    <3>1. x.op = "create" /\ x.tenant = Global /\ x.code \notin doubled' =>
             \A i \in roleRows : roles[i].code # x.code
      BY DEF PBegin, RoleRequest
    <3>2. x.op = "assign" => \A p \in bare' : p[1] # x.user
      BY DEF PBegin
    <3> QED BY <1>1, <1>2, <2>2, <3>1, <3>2 DEF RoleWork, OpAtPc
  <2> QED BY <2>1, <2>2
<1>5. ASSUME NEW o \in Workers, o # r
      PROVE  /\ x.op = "create" /\ preq[o].op = "create" /\ x.code = preq[o].code => x.code \in doubled'
             /\ x.op = "update" /\ preq[o].op = "update" /\ x.role = preq[o].role => x.role \notin unraced'
  <2>1. preq[o].op \in {"create", "update"} => preq[o] \in InProgress(preq, r)
    BY <1>5, InProgressFacts DEF RolesInv, RoleWork, OpAtPc
  <2>2. x.code \in RoleCodes /\ (x.role \in unraced => x.role \in RoleIds)
    BY DEF RoleRequest, RolesInv, RolesTypeOK
  <2> QED BY <2>1, <2>2 DEF PBegin
<1>6. ASSUME NEW p \in Workers, NEW q \in Workers, p # q
      PROVE  Overlap(preq[p], preq[q])'
  <2>1. Overlap(preq[p], preq[q])
    BY <1>6 DEF RolesInv
  <2>2. CASE p = r
    BY <1>1, <1>5, <1>6, <2>2 DEF Overlap
  <2>3. CASE q = r
    BY <1>1, <1>5, <1>6, <2>3 DEF Overlap
  <2>4. CASE p # r /\ q # r
    BY <1>1, <1>2, <2>1, <2>4 DEF Overlap
  <2> QED BY <2>2, <2>3, <2>4
<1> QED BY <1>3, <1>4, <1>6 DEF RolesInv

LEMMA PArrives ==
    ASSUME RolesInv, NEW r \in Workers, PArrive(r)
    PROVE  RolesInv'
<1>0. 0 \in 0..lastRole /\ \A i \in 1..lastRole : i \in 0..lastRole /\ i \in 0..MaxRoles
  BY PRanges DEF RolesInv
<1>1. ASSUME NEW x, x \in RoleRequest, PBegin(r, x), x.pc \in {"check", "load", "find", "write"},
             OpAtPc(x), x.role \in 0..lastRole, ~(x.pc = "write" /\ x.op \in {"assign", "revoke"})
      PROVE  RolesInv'
  BY <1>1, PBegins
<1>2. ASSUME NEW t \in Tenants \cup {Global}, NEW c \in RoleCodes, NEW ps \in SUBSET Permissions,
             PBegin(r, [PIdle EXCEPT !.pc = "check", !.op = "create", !.tenant = t, !.code = c, !.perms = ps])
      PROVE  RolesInv'
  <2> DEFINE x == [PIdle EXCEPT !.pc = "check", !.op = "create", !.tenant = t, !.code = c, !.perms = ps]
  <2>1. x \in RoleRequest /\ x.pc = "check" /\ x.op = "create" /\ x.role = 0
    BY PIdleType DEF RoleRequest, RoleOps
  <2>2. PBegin(r, x)
    BY <1>2
  <2> HIDE DEF x
  <2> QED BY <1>0, <1>1, <2>1, <2>2 DEF OpAtPc
<1>3. ASSUME NEW i \in 1..lastRole, NEW ps \in SUBSET Permissions,
             PBegin(r, [PIdle EXCEPT !.pc = "load", !.op = "update", !.role = i, !.perms = ps])
      PROVE  RolesInv'
  <2> DEFINE x == [PIdle EXCEPT !.pc = "load", !.op = "update", !.role = i, !.perms = ps]
  <2>1. x \in RoleRequest /\ x.pc = "load" /\ x.op = "update" /\ x.role = i
    BY <1>0, PIdleType DEF RoleRequest, RoleOps
  <2>2. PBegin(r, x)
    BY <1>3
  <2> HIDE DEF x
  <2> QED BY <1>0, <1>1, <2>1, <2>2 DEF OpAtPc
<1>4. ASSUME NEW i \in 1..lastRole,
             PBegin(r, [PIdle EXCEPT !.pc = "load", !.op = "delete", !.role = i])
      PROVE  RolesInv'
  <2> DEFINE x == [PIdle EXCEPT !.pc = "load", !.op = "delete", !.role = i]
  <2>1. x \in RoleRequest /\ x.pc = "load" /\ x.op = "delete" /\ x.role = i
    BY <1>0, PIdleType DEF RoleRequest, RoleOps
  <2>2. PBegin(r, x)
    BY <1>4
  <2> HIDE DEF x
  <2> QED BY <1>0, <1>1, <2>1, <2>2 DEF OpAtPc
<1>5. ASSUME NEW t \in Tenants \cup {Global}, NEW c \in RoleCodes, NEW u \in Members, NEW term \in Terms,
             PBegin(r, [PIdle EXCEPT !.pc = "find", !.op = "assign", !.tenant = t, !.code = c,
                                     !.user = u, !.term = term])
      PROVE  RolesInv'
  <2> DEFINE x == [PIdle EXCEPT !.pc = "find", !.op = "assign", !.tenant = t, !.code = c,
                                !.user = u, !.term = term]
  <2>1. x \in RoleRequest /\ x.pc = "find" /\ x.op = "assign" /\ x.role = 0
    BY PIdleType DEF RoleRequest, RoleOps
  <2>2. PBegin(r, x)
    BY <1>5
  <2> HIDE DEF x
  <2> QED BY <1>0, <1>1, <2>1, <2>2 DEF OpAtPc
<1>6. ASSUME NEW t \in Tenants \cup {Global}, NEW c \in RoleCodes, NEW u \in Members,
             PBegin(r, [PIdle EXCEPT !.pc = "find", !.op = "revoke", !.tenant = t, !.code = c, !.user = u])
      PROVE  RolesInv'
  <2> DEFINE x == [PIdle EXCEPT !.pc = "find", !.op = "revoke", !.tenant = t, !.code = c, !.user = u]
  <2>1. x \in RoleRequest /\ x.pc = "find" /\ x.op = "revoke" /\ x.role = 0
    BY PIdleType DEF RoleRequest, RoleOps
  <2>2. PBegin(r, x)
    BY <1>6
  <2> HIDE DEF x
  <2> QED BY <1>0, <1>1, <2>1, <2>2 DEF OpAtPc
<1>7. ASSUME NEW u \in Members,
             PBegin(r, [PIdle EXCEPT !.pc = "write", !.op = "revokeAll", !.user = u])
      PROVE  RolesInv'
  <2> DEFINE x == [PIdle EXCEPT !.pc = "write", !.op = "revokeAll", !.user = u]
  <2>1. x \in RoleRequest /\ x.pc = "write" /\ x.op = "revokeAll" /\ x.role = 0
    BY PIdleType DEF RoleRequest, RoleOps
  <2>2. PBegin(r, x)
    BY <1>7
  <2> HIDE DEF x
  <2> QED BY <1>0, <1>1, <2>1, <2>2 DEF OpAtPc
<1>8. CASE PBegin(r, [PIdle EXCEPT !.pc = "write"])
  <2> DEFINE x == [PIdle EXCEPT !.pc = "write"]
  <2>1. x \in RoleRequest /\ x.pc = "write" /\ x.op = "cleanup" /\ x.role = 0
    BY PIdleType DEF RoleRequest, RoleOps
  <2>2. PBegin(r, x)
    BY <1>8
  <2> HIDE DEF x
  <2> QED BY <1>0, <1>1, <2>1, <2>2 DEF OpAtPc
<1> QED BY <1>2, <1>3, <1>4, <1>5, <1>6, <1>7, <1>8 DEF PArrive
(* The records that reading steps leave. *)
LEMMA PReads ==
    ASSUME RolesInv, NEW r \in Workers,
           CheckCode(r) \/ LoadRole(r) \/ FindRole(r) \/ LookUpHeld(r) \/ DeletePermissions(r)
    PROVE  RolesInv'
<1> DEFINE q == preq[r]
<1>0. q \in RoleRequest /\ RoleWork(q) /\ PKeep
  BY DEF RolesInv, RolesTypeOK, CheckCode, LoadRole, FindRole, LookUpHeld, DeletePermissions
<1>1. ASSUME NEW x \in RoleRequest, PBecome(r, x), RoleWork(x), x.op = q.op,
             x.code = q.code, x.op = "update" => x.role = q.role
      PROVE  RolesInv'
  BY <1>0, <1>1, PLocal
<1>2. CASE CheckCode(r)
  <2> DEFINE x == [q EXCEPT !.pc = "insert"]
  <2>1. CASE Named(q.code, q.tenant) = {} /\ PBecome(r, x)
    <3>1. /\ x \in RoleRequest /\ x.pc = "insert" /\ x.op = q.op /\ x.code = q.code /\ x.role = q.role
          /\ x.tenant = q.tenant /\ q.pc = "check"
      BY <1>0, <1>2 DEF RoleRequest, CheckCode
    <3> HIDE DEF x, q
    <3>2. RoleWork(x)
      BY <1>0, <2>1, <3>1 DEF RoleWork, OpAtPc
    <3> QED BY <1>1, <2>1, <3>1, <3>2
  <2> QED BY <1>0, <1>2, <2>1, PFails DEF CheckCode, PGoto
<1>3. CASE LoadRole(r)
  <2>1. ASSUME NEW pc, pc = (IF q.op = "update" THEN "delete" ELSE "write"), PGoto(r, pc)
        PROVE  RolesInv'
    <3> DEFINE x == [q EXCEPT !.pc = pc]
    <3>1. /\ x \in RoleRequest /\ x.pc = pc /\ x.op = q.op /\ x.code = q.code /\ x.role = q.role
          /\ x.tenant = q.tenant /\ q.pc = "load" /\ PBecome(r, x)
      BY <1>0, <1>3, <2>1 DEF RoleRequest, LoadRole, PGoto
    <3> HIDE DEF x, q
    <3>2. RoleWork(x)
      BY <1>0, <2>1, <3>1 DEF RoleWork, OpAtPc
    <3> QED BY <1>1, <3>1, <3>2
  <2> QED BY <1>0, <1>3, <2>1, PFails DEF LoadRole
<1>4. CASE FindRole(r)
  <2>1. ASSUME NEW i \in Named(q.code, q.tenant), PBecome(r, [q EXCEPT !.pc = "look", !.role = i])
        PROVE  RolesInv'
    <3> DEFINE x == [q EXCEPT !.pc = "look", !.role = i]
    <3>1. i \in roleRows /\ i \in RoleIds /\ i \in 0..lastRole /\ i \in 0..MaxRoles
      BY PRanges DEF Named, RolesInv
    <3>2. /\ x \in RoleRequest /\ x.pc = "look" /\ x.op = q.op /\ x.code = q.code /\ x.role = i
          /\ x.user = q.user /\ q.pc = "find" /\ PBecome(r, x)
      BY <1>0, <1>4, <2>1, <3>1 DEF RoleRequest, FindRole
    <3> HIDE DEF x, q
    <3>3. RoleWork(x)
      BY <1>0, <3>1, <3>2 DEF RoleWork, OpAtPc
    <3> QED BY <1>0, <1>1, <3>2, <3>3 DEF RoleWork, OpAtPc
  <2> QED BY <1>0, <1>4, <2>1, PFails DEF FindRole
<1>5. CASE LookUpHeld(r)
  <2>1. ASSUME NEW row \in {"there", "none"}, PBecome(r, [q EXCEPT !.pc = "write", !.row = row])
        PROVE  RolesInv'
    <3> DEFINE x == [q EXCEPT !.pc = "write", !.row = row]
    <3>1. /\ x \in RoleRequest /\ x.pc = "write" /\ x.op = q.op /\ x.code = q.code /\ x.role = q.role
          /\ x.user = q.user /\ q.pc = "look" /\ PBecome(r, x)
      BY <1>0, <1>5, <2>1 DEF RoleRequest, LookUpHeld
    <3> HIDE DEF x, q
    <3>2. RoleWork(x)
      BY <1>0, <3>1 DEF RoleWork, OpAtPc
    <3> QED BY <1>1, <3>1, <3>2
  <2> QED BY <1>0, <1>5, <2>1, PFails DEF LookUpHeld
<1>6. CASE DeletePermissions(r)
  <2>1. ASSUME NEW C \in SUBSET Permissions, q.role \in roleRows => C = granted[q.role],
               PBecome(r, [q EXCEPT !.pc = "commit", !.covered = C])
        PROVE  RolesInv'
    <3> DEFINE x == [q EXCEPT !.pc = "commit", !.covered = C]
    <3>1. /\ x \in RoleRequest /\ x.pc = "commit" /\ x.op = q.op /\ x.code = q.code /\ x.role = q.role
          /\ x.covered = C /\ q.pc = "delete" /\ PBecome(r, x)
      BY <1>0, <1>6, <2>1 DEF RoleRequest, DeletePermissions
    <3> HIDE DEF x, q
    <3>2. RoleWork(x)
      BY <1>0, <2>1, <3>1 DEF RoleWork, OpAtPc
    <3> QED BY <1>1, <3>1, <3>2
  <2>2. q.role \in roleRows => granted[q.role] \in SUBSET Permissions
    BY PRanges DEF RolesInv, RolesTypeOK
  <2>3. PICK C : C = IF q.role \in roleRows THEN granted[q.role] ELSE {}
    OBVIOUS
  <2> QED BY <1>6, <2>1, <2>2, <2>3 DEF DeletePermissions
<1> QED BY <1>2, <1>3, <1>4, <1>5, <1>6

(* Another request's record, of which at most row is written. *)
SameButRow(p, q) ==
    /\ p.pc = q.pc /\ p.op = q.op /\ p.tenant = q.tenant /\ p.code = q.code /\ p.user = q.user
    /\ p.role = q.role /\ p.covered = q.covered

(* A request ends with a write: the tables are well formed, and what the   *)
(* others have found out still holds.                                      *)
LEMMA PSettles ==
    ASSUME RolesInv, NEW r \in Workers, RolesTypeOK', RoleTables', UNCHANGED <<unraced, doubled>>,
           preq'[r] = PIdle,
           \A o \in Workers : o # r => SameButRow(preq'[o], preq[o]),
           \A o \in Workers, q \in RoleRequest : o # r /\ q = preq[o] /\ RoleWork(q) => RoleWork(q)'
    PROVE  RolesInv'
<1>1. ASSUME NEW o \in Workers PROVE RoleWork(preq[o])'
  <2>1. CASE o # r
    <3>1. PICK q \in RoleRequest : q = preq[o]
      BY DEF RolesInv, RolesTypeOK
    <3>2. RoleWork(q)'
      BY <2>1, <3>1 DEF RolesInv
    <3>3. SameButRow(preq'[o], q)
      BY <2>1, <3>1
    <3> QED BY <3>2, <3>3 DEF RoleWork, OpAtPc, SameButRow, Named
  <2>2. CASE o = r
    <3>1. 0 \in 0..lastRole'
      BY RolesAssumption DEF RolesTypeOK
    <3> QED BY <2>2, <3>1, PIdleType DEF RoleWork, OpAtPc
  <2> QED BY <2>1, <2>2
<1>2. ASSUME NEW p \in Workers, NEW o \in Workers, p # o
      PROVE  Overlap(preq[p], preq[o])'
  <2>1. CASE p = r \/ o = r
    BY <2>1, PIdleType DEF Overlap
  <2>2. CASE p # r /\ o # r
    <3>1. Overlap(preq[p], preq[o])
      BY <1>2 DEF RolesInv
    <3> QED BY <2>2, <3>1 DEF Overlap, SameButRow
  <2> QED BY <2>1, <2>2
<1> QED BY <1>1, <1>2 DEF RolesInv

LEMMA PForgets ==
    ASSUME RolesInv, NEW r \in Workers, NEW pairs, PForget(r, pairs)
    PROVE  /\ preq' \in [Workers -> RoleRequest] /\ preq'[r] = PIdle
           /\ \A o \in Workers : o # r => SameButRow(preq'[o], preq[o])
<1>1. ASSUME NEW o \in Workers, o # r
      PROVE  preq'[o] \in RoleRequest /\ SameButRow(preq'[o], preq[o])
  <2>1. preq[o] \in RoleRequest
    BY DEF RolesInv, RolesTypeOK
  <2>2. preq'[o] = preq[o] \/ preq'[o] = [preq[o] EXCEPT !.row = "gone"]
    BY <1>1 DEF PForget
  <2>3. CASE preq'[o] = preq[o]
    BY <2>1, <2>3 DEF SameButRow
  <2>4. CASE preq'[o] = [preq[o] EXCEPT !.row = "gone"]
    BY <2>1, <2>4 DEF SameButRow, RoleRequest
  <2> QED BY <2>2, <2>3, <2>4
<1>2. preq'[r] = PIdle
  BY DEF PForget
<1>3. preq' = [o \in Workers |-> preq'[o]]
  BY DEF PForget
<1> QED BY <1>1, <1>2, <1>3, PIdleType

LEMMA PEnds ==
    ASSUME RolesInv, NEW r \in Workers, PBecome(r, PIdle)
    PROVE  /\ preq' \in [Workers -> RoleRequest] /\ preq'[r] = PIdle
           /\ \A o \in Workers : o # r => SameButRow(preq'[o], preq[o])
BY PMoved, PIdleType DEF RolesInv, SameButRow

LEMMA PInserts ==
    ASSUME RolesInv, NEW r \in Workers, NEW system \in BOOLEAN, InsertRole(r, system)
    PROVE  RolesInv'
<1> DEFINE q == preq[r]
           t == q.tenant
           c == q.code
<1>0. /\ q \in RoleRequest /\ RoleWork(q) /\ q.pc = "insert" /\ q.op = "create"
      /\ t \in Tenants \cup {Global} /\ c \in RoleCodes /\ q.perms \in SUBSET Permissions
  BY DEF RolesInv, RolesTypeOK, InsertRole, RoleWork, OpAtPc, RoleRequest
<1>1. PICK k \in RoleIds : k = lastRole + 1
  BY RolesAssumption DEF InsertRole, RolesInv, RolesTypeOK, RoleIds
<1>2. /\ lastRole' = k /\ roleRows' = roleRows \cup {k} /\ k \notin roleRows /\ k \notin 0..lastRole
      /\ roles' = [roles EXCEPT ![k] = [tenant |-> t, code |-> c, system |-> system]]
      /\ granted' = [granted EXCEPT ![k] = q.perms]
      /\ asked' = [asked EXCEPT ![k] = q.perms]
      /\ PBecome(r, PIdle) /\ UNCHANGED <<held, unraced, doubled, bare>>
  BY <1>1, PRanges DEF InsertRole, RolesInv
<1> HIDE DEF q, t, c
<1>3. /\ roles' \in [RoleIds -> Role] /\ roles'[k].tenant = t /\ roles'[k].code = c
      /\ \A i \in roleRows : roles'[i] = roles[i]
  <2>1. [tenant |-> t, code |-> c, system |-> system] \in Role
    BY <1>0 DEF Role
  <2> QED BY <1>1, <1>2, <2>1, PRanges DEF RolesInv, RolesTypeOK
<1>4. RolesTypeOK'
  <2>1. k \in 1..MaxRoles /\ lastRole \in Nat /\ roleRows \subseteq 1..lastRole
    BY <1>1, PRanges DEF RolesInv, RolesTypeOK, RoleIds
  <2>a. lastRole' \in 0..MaxRoles
    BY <1>1, <1>2, <2>1, PRanges
  <2>b. roleRows' \subseteq 1..lastRole'
    BY <1>1, <1>2, <2>1
  <2>2. granted' \in [RoleIds -> SUBSET Permissions] /\ asked' \in [RoleIds -> SUBSET Permissions]
    BY <1>0, <1>2 DEF RolesInv, RolesTypeOK
  <2> QED BY <1>2, <1>3, <2>a, <2>b, <2>2, PEnds DEF RolesInv, RolesTypeOK
<1>5. c \notin doubled => \A i \in roleRows : roles[i].code = c =>
         t # Global /\ roles[i].tenant # Global /\ roles[i].tenant # t
  <2> SUFFICES ASSUME c \notin doubled, NEW i \in roleRows, roles[i].code = c
               PROVE  t # Global /\ roles[i].tenant # Global /\ roles[i].tenant # t
    OBVIOUS
  <2>1. t # Global
    BY <1>0 DEF RoleWork, c, t
  <2>2. roles[i].tenant \notin {t, Global}
    BY <1>0 DEF RoleWork, Named, c, t
  <2> QED BY <2>1, <2>2
<1>6. CodesApart'
  <2> SUFFICES ASSUME NEW i \in roleRows', NEW j \in roleRows', i # j,
                      roles'[i].code = roles'[j].code, roles'[i].code \notin doubled
               PROVE  roles'[i].tenant # Global /\ roles'[j].tenant # Global
                      /\ roles'[i].tenant # roles'[j].tenant
    BY <1>2 DEF CodesApart
  <2>1. CASE i = k
    BY <1>2, <1>3, <1>5, <2>1
  <2>2. CASE j = k
    BY <1>2, <1>3, <1>5, <2>2
  <2>3. CASE i # k /\ j # k
    BY <1>2, <1>3, <2>3 DEF RolesInv, RoleTables, CodesApart
  <2> QED BY <2>1, <2>2, <2>3
<1>7. PermissionsAsked' /\ BareHoldsNothing'
  <2>1. \A i \in RoleIds : /\ i = k => granted'[i] = q.perms /\ asked'[i] = q.perms
                           /\ i # k => granted'[i] = granted[i] /\ asked'[i] = asked[i]
    BY <1>2 DEF RolesInv, RolesTypeOK
  <2>2. roleRows' \subseteq RoleIds
    BY <1>1, <1>2, PRanges DEF RolesInv
  <2> QED BY <1>2, <2>1, <2>2 DEF RolesInv, RoleTables, PermissionsAsked, BareHoldsNothing
<1>8. ASSUME NEW o \in Workers, NEW p \in RoleRequest, o # r, p = preq[o], RoleWork(p)
      PROVE  RoleWork(p)'
  <2>1. p.op = "create" /\ p.code = c => c \in doubled
    BY <1>0, <1>8 DEF RolesInv, Overlap, q, c
  <2>2. p.op = "create" /\ p.code \notin doubled => p.code # c
    BY <2>1
  <2>3. p.op = "create" /\ p.code \notin doubled => Named(p.code, p.tenant)' = Named(p.code, p.tenant)
    BY <1>2, <1>3, <2>2 DEF Named
  <2>4. \A i \in roleRows' : i = k \/ i \in roleRows
    BY <1>2
  <2>5. p.role \in 0..lastRole' /\ p.role # k
    BY <1>1, <1>2, <1>8, PRanges DEF RoleWork, RolesInv
  <2>6. p.role \in roleRows' => p.role \in roleRows /\ granted'[p.role] = granted[p.role]
    BY <1>2, <2>5, PRanges DEF RolesInv, RolesTypeOK
  <2>7. OpAtPc(p)'
    BY <1>8 DEF RoleWork, OpAtPc
  <2>8. p.pc = "insert" => p.op = "create"
    BY <2>7 DEF OpAtPc
  <2>9. p.op = "create" /\ p.tenant = Global /\ p.code \notin doubled' =>
           \A i \in roleRows' : roles'[i].code # p.code
    BY <1>2, <1>3, <1>8, <2>2, <2>4 DEF RoleWork
  <2> QED BY <1>2, <1>8, <2>3, <2>5, <2>6, <2>7, <2>8, <2>9 DEF RoleWork
<1>9. RoleTables' /\ preq'[r] = PIdle
      /\ \A o \in Workers : o # r => SameButRow(preq'[o], preq[o])
  BY <1>2, <1>6, <1>7, PEnds DEF RoleTables
<1> QED BY <1>2, <1>4, <1>8, <1>9, PSettles

LEMMA PCommits ==
    ASSUME RolesInv, NEW r \in Workers, CommitPermissions(r)
    PROVE  RolesInv'
<1> DEFINE q == preq[r]
           new == (granted[q.role] \ q.covered) \cup q.perms
<1>1. /\ q.pc = "commit" /\ q.op = "update" /\ q.role \in roleRows /\ q.role \in RoleIds
      /\ q.perms \in SUBSET Permissions
      /\ q.role \in unraced => new = q.perms
  <2>1. q \in RoleRequest /\ RoleWork(q)
    BY DEF RolesInv, RolesTypeOK
  <2> QED BY <2>1, PRanges DEF RolesInv, RoleRequest, RoleWork, OpAtPc, CommitPermissions
<1>2. /\ granted' = [granted EXCEPT ![q.role] = new] /\ new \in SUBSET Permissions
      /\ asked' = [asked EXCEPT ![q.role] = q.perms]
      /\ PBecome(r, PIdle)
      /\ UNCHANGED <<roleRows, roles, lastRole, held, unraced, doubled, bare>>
  BY <1>1 DEF CommitPermissions, RolesInv, RolesTypeOK
<1> HIDE DEF q, new
<1>3. RolesTypeOK'
  <2>1. granted' \in [RoleIds -> SUBSET Permissions] /\ asked' \in [RoleIds -> SUBSET Permissions]
    BY <1>1, <1>2 DEF RolesInv, RolesTypeOK
  <2> QED BY <1>2, <2>1, PEnds DEF RolesInv, RolesTypeOK
<1>4. RoleTables'
  <2>1. PermissionsAsked'
    <3>1. \A i \in RoleIds : /\ i = q.role => granted'[i] = new /\ asked'[i] = q.perms
                             /\ i # q.role => granted'[i] = granted[i] /\ asked'[i] = asked[i]
      BY <1>2 DEF RolesInv, RolesTypeOK
    <3> QED BY <1>1, <1>2, <3>1, PRanges DEF RolesInv, RoleTables, PermissionsAsked
  <2> QED BY <1>2, <2>1 DEF RolesInv, RoleTables, CodesApart, BareHoldsNothing
<1>5. ASSUME NEW o \in Workers, NEW p \in RoleRequest, o # r, p = preq[o], RoleWork(p)
      PROVE  RoleWork(p)'
  <2>1. p.pc = "commit" /\ p.role \in roleRows \cap unraced => p.role # q.role
    BY <1>1, <1>5 DEF RolesInv, Overlap, RoleWork, OpAtPc, q
  <2>2. p.pc = "commit" /\ p.role \in roleRows \cap unraced => granted'[p.role] = granted[p.role]
    BY <1>2, <2>1, PRanges DEF RolesInv, RolesTypeOK
  <2> QED BY <1>2, <1>5, <2>2 DEF RoleWork, OpAtPc, Named
<1> QED BY <1>2, <1>3, <1>4, <1>5, PEnds, PSettles

LEMMA PDeletes ==
    ASSUME RolesInv, NEW r \in Workers, DeleteRole(r)
    PROVE  RolesInv'
<1>1. PICK i : i = preq[r].role
  OBVIOUS
<1>2. /\ roleRows' = roleRows \ {i}
      /\ granted' = [granted EXCEPT ![i] = {}]
      /\ held' = [p \in Members \X RoleIds |-> IF p[2] = i THEN "none" ELSE held[p]]
      /\ PForget(r, Members \X {i})
      /\ UNCHANGED <<roles, lastRole, asked, unraced, doubled, bare>>
  BY <1>1 DEF DeleteRole, rolesHistory
<1>3. RolesTypeOK'
  <2>1. granted' \in [RoleIds -> SUBSET Permissions]
        /\ held' \in [Members \X RoleIds -> Terms \cup {"none"}]
    BY <1>2 DEF RolesInv, RolesTypeOK
  <2>2. roleRows' \subseteq 1..lastRole
    BY <1>2 DEF RolesInv, RolesTypeOK
  <2> QED BY <1>2, <2>1, <2>2, PForgets DEF RolesInv, RolesTypeOK
<1>4. RoleTables'
  <2>1. \A j \in roleRows' : j \in roleRows /\ granted'[j] = granted[j]
    BY <1>2, PRanges DEF RolesInv, RolesTypeOK
  <2>2. BareHoldsNothing'
    BY <1>2 DEF RolesInv, RolesTypeOK, RoleTables, BareHoldsNothing
  <2> QED BY <1>2, <2>1, <2>2 DEF RolesInv, RoleTables, CodesApart, PermissionsAsked
<1>5. ASSUME NEW o \in Workers, NEW p \in RoleRequest, o # r, p = preq[o], RoleWork(p)
      PROVE  RoleWork(p)'
  <2>1. \A j \in roleRows' : j \in roleRows /\ granted'[j] = granted[j]
    BY <1>2, PRanges DEF RolesInv, RolesTypeOK
  <2> QED BY <1>2, <1>5, <2>1 DEF RoleWork, OpAtPc, Named
<1> QED BY <1>2, <1>3, <1>4, <1>5, PForgets, PSettles

(* The assignments are written, and no pair that was bared. *)
LEMMA PHolds ==
    ASSUME RolesInv, NEW r \in Workers,
           UNCHANGED <<roleRows, roles, lastRole, granted, rolesHistory>>,
           held' \in [Members \X RoleIds -> Terms \cup {"none"}],
           \A p \in bare : held'[p] = "none",
           preq' \in [Workers -> RoleRequest], preq'[r] = PIdle,
           \A o \in Workers : o # r => SameButRow(preq'[o], preq[o])
    PROVE  RolesInv'
<1>1. UNCHANGED <<asked, unraced, doubled, bare>>
  BY DEF rolesHistory
<1>2. RolesTypeOK' /\ RoleTables'
  BY <1>1 DEF RolesInv, RolesTypeOK, RoleTables, CodesApart, PermissionsAsked, BareHoldsNothing
<1>3. \A p \in RoleRequest : RoleWork(p) => RoleWork(p)'
  BY <1>1 DEF RoleWork, OpAtPc, Named
<1> QED BY <1>1, <1>2, <1>3, PSettles

LEMMA PAssigns ==
    ASSUME RolesInv, NEW r \in Workers, ExtendRole(r) \/ AssignRole(r) \/ CleanUpRoles(r)
    PROVE  RolesInv'
<1> DEFINE q == preq[r]
<1>0. q \in RoleRequest /\ RoleWork(q)
  BY DEF RolesInv, RolesTypeOK
<1>1. UNCHANGED <<roleRows, roles, lastRole, granted, rolesHistory>>
  BY DEF ExtendRole, AssignRole, CleanUpRoles
<1>2. ASSUME q.op = "assign", held' = [held EXCEPT ![<<q.user, q.role>>] = q.term] \/ held' = held,
             PBecome(r, PIdle)
      PROVE  RolesInv'
  <2>1. held' \in [Members \X RoleIds -> Terms \cup {"none"}]
    BY <1>0, <1>2 DEF RolesInv, RolesTypeOK, RoleRequest
  <2>2. \A p \in bare : p # <<q.user, q.role>>
    BY <1>0, <1>2 DEF RoleWork
  <2>3. \A p \in bare : held'[p] = "none"
    BY <1>2, <2>2 DEF RolesInv, RolesTypeOK, RoleTables, BareHoldsNothing
  <2> QED BY <1>1, <1>2, <2>1, <2>3, PEnds, PHolds
<1>3. CASE ExtendRole(r) \/ AssignRole(r)
  BY <1>2, <1>3 DEF ExtendRole, AssignRole
<1>4. CASE CleanUpRoles(r)
  <2>1. /\ held' = [p \in Members \X RoleIds |-> IF held[p] = "past" THEN "none" ELSE held[p]]
        /\ PForget(r, {p \in Members \X RoleIds : held[p] = "past"})
    BY <1>4 DEF CleanUpRoles
  <2>2. held' \in [Members \X RoleIds -> Terms \cup {"none"}]
    BY <2>1 DEF RolesInv, RolesTypeOK
  <2>3. \A p \in bare : held'[p] = "none"
    BY <2>1 DEF RolesInv, RolesTypeOK, RoleTables, BareHoldsNothing
  <2> QED BY <1>1, <2>1, <2>2, <2>3, PForgets, PHolds
<1> QED BY <1>3, <1>4

LEMMA PRevokes ==
    ASSUME RolesInv, NEW r \in Workers, RevokeRole(r) \/ RevokeAllRoles(r)
    PROVE  RolesInv'
<1>1. ASSUME NEW pairs \in SUBSET (Members \X RoleIds),
             held' = [p \in Members \X RoleIds |-> IF p \in pairs THEN "none" ELSE held[p]],
             bare' = Bared(r, pairs), PForget(r, pairs),
             UNCHANGED <<roleRows, roles, lastRole, granted, asked, unraced, doubled>>
      PROVE  RolesInv'
  <2>1. held' \in [Members \X RoleIds -> Terms \cup {"none"}] /\ bare' \subseteq Members \X RoleIds
    BY <1>1 DEF RolesInv, RolesTypeOK, Bared
  <2>2. \A p \in bare' : p \in bare \/ p \in pairs
    BY <1>1 DEF Bared
  <2>3. BareHoldsNothing'
    BY <1>1, <2>1, <2>2 DEF RolesInv, RoleTables, BareHoldsNothing
  <2>4. RolesTypeOK' /\ RoleTables'
    BY <1>1, <2>1, <2>3, PForgets DEF RolesInv, RolesTypeOK, RoleTables, CodesApart, PermissionsAsked
  <2>5. ASSUME NEW o \in Workers, NEW p \in RoleRequest, o # r, p = preq[o], RoleWork(p)
        PROVE  RoleWork(p)'
    <3>1. p.op = "assign" => p \in InProgress(preq, r)
      BY <2>5, InProgressFacts DEF RoleWork, OpAtPc
    <3>2. p.op = "assign" => \A b \in bare' : b[1] # p.user
      BY <1>1, <2>5, <3>1 DEF Bared, RoleWork
    <3> QED BY <1>1, <2>5, <3>2 DEF RoleWork, OpAtPc, Named
  <2> QED BY <1>1, <2>4, <2>5, PForgets, PSettles
<1>2. CASE RevokeRole(r)
  <2> DEFINE pairs == IF preq[r].row = "there" THEN {<<preq[r].user, preq[r].role>>} ELSE {}
  <2>1. RoleWork(preq[r]) /\ preq[r].user \in Members
    BY DEF RolesInv, RolesTypeOK, RoleRequest
  <2>2. pairs \in SUBSET (Members \X RoleIds)
    BY <1>2, <2>1 DEF RevokeRole, RoleWork
  <2>3. /\ held' = [p \in Members \X RoleIds |-> IF p \in pairs THEN "none" ELSE held[p]]
        /\ bare' = Bared(r, pairs) /\ PForget(r, pairs)
        /\ UNCHANGED <<roleRows, roles, lastRole, granted, asked, unraced, doubled>>
    BY <1>2 DEF RevokeRole
  <2> HIDE DEF pairs
  <2> QED BY <1>1, <2>2, <2>3
<1>3. CASE RevokeAllRoles(r)
  <2> DEFINE pairs == {p \in Members \X RoleIds : p[1] = preq[r].user}
  <2>1. /\ held' = [p \in Members \X RoleIds |-> IF p \in pairs THEN "none" ELSE held[p]]
        /\ bare' = Bared(r, pairs) /\ PForget(r, pairs) /\ pairs \in SUBSET (Members \X RoleIds)
        /\ UNCHANGED <<roleRows, roles, lastRole, granted, asked, unraced, doubled>>
    BY <1>3 DEF RevokeAllRoles
  <2> HIDE DEF pairs
  <2> QED BY <1>1, <2>1
<1> QED BY <1>2, <1>3

LEMMA PExpires ==
    ASSUME RolesInv, NEW p \in Members \X RoleIds, RoleExpires(p)
    PROVE  RolesInv'
<1>1. UNCHANGED <<roleRows, roles, lastRole, granted, asked, unraced, doubled, bare, preq>>
  BY DEF RoleExpires, rolesHistory
<1>2. held' \in [Members \X RoleIds -> Terms \cup {"none"}] /\ \A b \in bare : held'[b] = "none"
  BY DEF RoleExpires, RolesInv, RolesTypeOK, RoleTables, BareHoldsNothing, Terms
<1>3. RolesTypeOK' /\ RoleTables'
  BY <1>1, <1>2 DEF RolesInv, RolesTypeOK, RoleTables, CodesApart, PermissionsAsked, BareHoldsNothing
<1> QED BY <1>1, <1>3 DEF RolesInv, RoleWork, OpAtPc, Overlap, Named

LEMMA CodesNameOne == RolesInv => CodeNamesOneRole
<1> SUFFICES ASSUME RolesInv, NEW t \in Tenants, NEW c \in RoleCodes \ doubled
             PROVE  Cardinality(Named(c, t)) <= 1
  BY DEF CodeNamesOneRole
<1>1. \A i, j \in Named(c, t) : i = j
  BY DEF Named, RolesInv, RoleTables, CodesApart
<1>2. CASE Named(c, t) = {}
  BY <1>2, FS_EmptySet
<1>3. ASSUME NEW i \in Named(c, t) PROVE Cardinality(Named(c, t)) <= 1
  <2>1. Named(c, t) = {i}
    BY <1>1
  <2>2. Cardinality({i}) = 1
    BY FS_Singleton
  <2> QED BY <2>1, <2>2
<1> QED BY <1>2, <1>3

(* A code means one role, a role has the permissions last asked for, and a *)
(* revoked assignment gives nothing, but for the overlaps that the history *)
(* names; for any number of roles, users and requests.                     *)
THEOREM RolesMeanWhatWasAsked == RolesSpec => []RolesConsistent
<1>1. RolesInv /\ [RolesNext]_roleVars => RolesInv'
  <2> SUFFICES ASSUME RolesInv, [RolesNext]_roleVars PROVE RolesInv'
    OBVIOUS
  <2>1. CASE UNCHANGED roleVars
    BY <2>1 DEF roleVars, rolesDb, rolesHistory, RolesInv, RolesTypeOK, RoleTables, CodesApart,
                PermissionsAsked, BareHoldsNothing, RoleWork, OpAtPc, Overlap, Named
  <2>2. ASSUME NEW r \in Workers, PArrive(r) \/ PStep(r) \/ PAbort(r)
        PROVE  RolesInv'
    <3>1. CASE PAbort(r)
      BY <3>1, PFails DEF PAbort, PFail
    <3> QED BY <2>2, <3>1, PArrives, PReads, PInserts, PCommits, PDeletes, PAssigns, PRevokes DEF PStep
  <2> QED BY <2>1, <2>2, PExpires DEF RolesNext
<1>2. RolesInv => RolesConsistent
  <2> SUFFICES ASSUME RolesInv PROVE RevokedGrantsNothing
    BY CodesNameOne DEF RolesInv, RolesConsistent, RoleTables
  <2>1. ASSUME NEW u \in Members, {u} \X RoleIds \subseteq bare
        PROVE  PermissionsOf(u) = {}
    <3>1. \A j \in roleRows : held[<<u, j>>] = "none"
      BY <2>1, PRanges DEF RolesInv, RoleTables, BareHoldsNothing
    <3> QED BY <3>1 DEF PermissionsOf
  <2> QED BY <2>1 DEF RevokedGrantsNothing, RolesInv, RoleTables, BareHoldsNothing
<1> QED BY <1>1, <1>2, PInit, PTL DEF RolesSpec

-----------------------------------------------------------------------------
(* Users.  Administrations that do not overlap find their administrator in *)
(* place; a creation finds its address free; a login or a change of        *)
(* password that no anonymization overlaps is not of somebody anonymized.  *)
OpOfStep(q) ==
    /\ q.op # "register" => q.by \in UserIds
    /\ q.op = "activate" => q.attr = "active" /\ q.to
    /\ q.op \in {"login", "password"} => q.on = q.by
    /\ q.op \in Creations => q.address \in Addresses /\ q.on = 0
    /\ q.op \notin Creations => q.on \in 1..lastUser
    /\ q.pc \in {"check", "insert"} => q.op \in Creations
    /\ q.pc = "open" => q.op = "login"
    /\ q.pc \in {"sessions", "commit"} => q.op = "anonymize"
    /\ q.pc \in {"write", "sessions", "commit"} /\ q.op \in Guarded => q.on # q.by
InCharge(q) ==
    calm /\ q.op \in Administrations =>
        /\ q.op = "update" => q.on # q.by
        /\ q.pc # "auth" => q.by \in userRows /\ users[q.by].active /\ users[q.by].admin
AddressFree(q) ==
    q.pc = "insert" /\ q.address \notin collided => \A u \in userRows : users[u].address # q.address
StillIn(q) == \/ q.pc = "open"
              \/ q.op = "password" /\ q.pc \in {"load", "write"}
UserWork(q) ==
    q.pc # "idle" =>
        /\ OpOfStep(q) /\ InCharge(q) /\ AddressFree(q)
        /\ StillIn(q) /\ q.on \in single => q.on \notin out
        /\ q.pc = "commit" /\ q.on \in single => (q.closes <=> q.on \in open)
Beside(p, q) ==
    p.pc # "idle" /\ q.pc # "idle" =>
        /\ p.op \in Creations /\ q.op \in Creations /\ p.address = q.address => p.address \in collided
        /\ p.op \in Administrations /\ q.op \in Administrations => ~calm
        /\ "anonymize" \in {p.op, q.op} /\ p.on = q.on => p.on \notin single
UserTables == EmailOnce /\ AdminRemains /\ AnonymizedStaysOut
UsersInv ==
    /\ AccountsTypeOK /\ out \cup open \subseteq 1..lastUser /\ UserTables
    /\ \A r \in Workers : UserWork(ureq[r])
    /\ \A r, o \in Workers : r # o => Beside(ureq[r], ureq[o])

LEMMA UIdleType ==
    /\ UIdle \in UserRequest /\ Unborn \in User
    /\ UIdle.pc = "idle" /\ UIdle.op = "login" /\ UIdle.on = 0
BY AccountsAssumption
   DEF UIdle, Unborn, UserRequest, User, UserOps, Creations, Administrations, Guarded

LEMMA URanges ==
    ASSUME AccountsTypeOK
    PROVE  /\ lastUser \in Nat /\ 1..lastUser \subseteq UserIds /\ userRows \subseteq 1..lastUser
           /\ userRows \subseteq UserIds /\ 0..lastUser \subseteq 0..MaxUsers
           /\ \A u \in UserIds : users[u] \in User
           /\ \A r \in Workers : ureq[r] \in UserRequest
BY AccountsAssumption DEF AccountsTypeOK, UserIds

LEMMA UMoved ==
    ASSUME AccountsTypeOK, NEW r \in Workers, NEW x \in UserRequest, UBecome(r, x)
    PROVE  /\ ureq' \in [Workers -> UserRequest] /\ ureq'[r] = x
           /\ \A q \in Workers : q # r => ureq'[q] = ureq[q]
BY DEF UBecome, AccountsTypeOK

(* What two requests in progress exclude stays excluded while they go on.  *)
LEMMA UBeside ==
    ASSUME UsersInv, NEW r \in Workers, NEW x \in UserRequest, UBecome(r, x),
           UNCHANGED <<collided, calm, single>>,
           x.pc # "idle" => /\ ureq[r].pc # "idle" /\ x.op = ureq[r].op
                            /\ x.address = ureq[r].address /\ x.on = ureq[r].on
    PROVE  \A p, q \in Workers : p # q => Beside(ureq[p], ureq[q])'
<1>1. /\ ureq'[r] = x
      /\ \A q \in Workers : q # r => ureq'[q] = ureq[q]
  BY UMoved DEF UsersInv
<1> SUFFICES ASSUME NEW p \in Workers, NEW q \in Workers, p # q
             PROVE  Beside(ureq[p], ureq[q])'
  OBVIOUS
<1>2. Beside(ureq[p], ureq[q])
  BY DEF UsersInv
<1>3. CASE p = r
  BY <1>1, <1>2, <1>3 DEF Beside
<1>4. CASE q = r
  BY <1>1, <1>2, <1>4 DEF Beside
<1>5. CASE p # r /\ q # r
  BY <1>1, <1>2, <1>5 DEF Beside
<1> QED BY <1>3, <1>4, <1>5

(* A request takes a step that writes no row. *)
LEMMA ULocal ==
    ASSUME UsersInv, NEW r \in Workers, NEW x \in UserRequest, UBecome(r, x), UKeep, UserWork(x),
           x.pc # "idle" => /\ ureq[r].pc # "idle" /\ x.op = ureq[r].op
                            /\ x.address = ureq[r].address /\ x.on = ureq[r].on
    PROVE  UsersInv'
<1>1. /\ ureq' \in [Workers -> UserRequest] /\ ureq'[r] = x
      /\ \A q \in Workers : q # r => ureq'[q] = ureq[q]
  BY UMoved DEF UsersInv
<1>2. UNCHANGED <<userRows, users, lastUser, open, logged, collided, calm, out, single, refusedErasures>>
  BY DEF UKeep, usersDb, usersHistory
<1>3. AccountsTypeOK' /\ (out \cup open \subseteq 1..lastUser)' /\ UserTables'
  BY <1>1, <1>2
     DEF UsersInv, AccountsTypeOK, UserTables, EmailOnce, AdminRemains, AnonymizedStaysOut
<1>4. ASSUME NEW q \in Workers PROVE UserWork(ureq[q])'
  <2>1. UserWork(ureq[q])' <=> UserWork(ureq'[q])
    BY <1>2 DEF UserWork, OpOfStep, InCharge, AddressFree, StillIn
  <2>2. UserWork(ureq'[q])
    BY <1>1 DEF UsersInv
  <2> QED BY <2>1, <2>2
<1>5. \A p, q \in Workers : p # q => Beside(ureq[p], ureq[q])'
  BY <1>2, UBeside
<1> QED BY <1>3, <1>4, <1>5 DEF UsersInv

LEMMA UFails ==
    ASSUME UsersInv, NEW r \in Workers, UBecome(r, UIdle), UKeep
    PROVE  UsersInv'
BY UIdleType, ULocal DEF UserWork

(* A request ends with a write. *)
LEMMA UEnds ==
    ASSUME UsersInv, NEW r \in Workers, UBecome(r, UIdle), UNCHANGED <<collided, calm, single>>,
           lastUser' \in 0..MaxUsers, userRows' \subseteq 1..lastUser', users' \in [UserIds -> User],
           logged' \subseteq UserIds, refusedErasures' \subseteq UserIds,
           out' \cup open' \subseteq 1..lastUser', UserTables',
           \A o \in Workers : \A q \in UserRequest :
               o # r /\ q = ureq[o] /\ UserWork(q) => UserWork(q)'
    PROVE  UsersInv'
<1>1. /\ ureq' \in [Workers -> UserRequest] /\ ureq'[r] = UIdle
      /\ \A q \in Workers : q # r => ureq'[q] = ureq[q]
  BY UMoved, UIdleType DEF UsersInv
<1>2. AccountsTypeOK'
  <2>1. out' \subseteq UserIds /\ open' \subseteq UserIds
    BY AccountsAssumption DEF UserIds
  <2> QED BY <1>1, <2>1 DEF UsersInv, AccountsTypeOK
<1>3. ASSUME NEW o \in Workers PROVE UserWork(ureq[o])'
  <2>1. CASE o = r
    BY <1>1, <2>1, UIdleType DEF UserWork
  <2>2. CASE o # r
    <3>1. PICK q \in UserRequest : q = ureq[o]
      BY URanges DEF UsersInv
    <3>2. UserWork(q)'
      BY <2>2, <3>1 DEF UsersInv
    <3>3. ureq'[o] = q
      BY <1>1, <2>2, <3>1
    <3> QED BY <3>2, <3>3 DEF UserWork, OpOfStep, InCharge, AddressFree, StillIn
  <2> QED BY <2>1, <2>2
<1>4. \A p, q \in Workers : p # q => Beside(ureq[p], ureq[q])'
  BY UBeside, UIdleType
<1> QED BY <1>2, <1>3, <1>4 DEF UsersInv

LEMMA UInit == AccountsInit => UsersInv
<1> SUFFICES ASSUME AccountsInit PROVE UsersInv
  OBVIOUS
<1>1. PICK a \in Addresses : users = [u \in UserIds |->
          IF u = 1 THEN [address |-> a, active |-> TRUE, admin |-> TRUE, password |-> TRUE]
          ELSE Unborn]
  BY DEF AccountsInit
<1>2. /\ lastUser = 1 /\ userRows = {1} /\ open = {1} /\ logged = {1}
      /\ collided = {} /\ calm = TRUE /\ out = {} /\ single = UserIds /\ refusedErasures = {}
      /\ ureq = [r \in Workers |-> UIdle]
  BY DEF AccountsInit
<1>3. users \in [UserIds -> User]
  <2>1. [address |-> a, active |-> TRUE, admin |-> TRUE, password |-> TRUE] \in User
    BY DEF User
  <2> QED BY <1>1, <2>1, UIdleType
<1>4. 1 \in UserIds /\ 1 \in 0..MaxUsers
  BY AccountsAssumption DEF UserIds
<1>5. AccountsTypeOK
  BY <1>2, <1>3, <1>4, UIdleType DEF AccountsTypeOK
<1>6. UserTables
  BY <1>1, <1>2, <1>4 DEF UserTables, EmailOnce, AdminRemains, AnonymizedStaysOut
<1>7. UserWork(UIdle) /\ Beside(UIdle, UIdle)
  BY UIdleType DEF UserWork, Beside
<1> QED BY <1>2, <1>5, <1>6, <1>7 DEF UsersInv

(* A request arrives, and the history takes note of what it overlaps. *)
LEMMA UBegins ==
    ASSUME UsersInv, NEW r \in Workers, NEW x \in UserRequest, UBegin(r, x), OpOfStep(x),
           x.pc \in {"auth", "check", "load"},
           x.op \in Administrations \cup {"password"} => x.pc = "auth"
    PROVE  UsersInv'
<1>1. /\ ureq' \in [Workers -> UserRequest] /\ ureq'[r] = x
      /\ \A q \in Workers : q # r => ureq'[q] = ureq[q]
  BY UMoved DEF UsersInv, UBegin
<1>2. UNCHANGED <<userRows, users, lastUser, open, logged, out, refusedErasures>>
  BY DEF UBegin, usersDb
<1>3. /\ collided \subseteq collided' /\ collided' \subseteq Addresses /\ (calm' => calm)
      /\ calm' \in BOOLEAN /\ single' \subseteq single
  BY DEF UBegin, UsersInv, AccountsTypeOK
<1>4. AccountsTypeOK' /\ (out \cup open \subseteq 1..lastUser)' /\ UserTables'
  <2>1. AccountsTypeOK' /\ (out \cup open \subseteq 1..lastUser)'
    BY <1>1, <1>2, <1>3 DEF UsersInv, AccountsTypeOK
  <2>2. EmailOnce' /\ AdminRemains' /\ AnonymizedStaysOut'
    BY <1>2, <1>3 DEF UsersInv, UserTables, EmailOnce, AdminRemains, AnonymizedStaysOut
  <2> QED BY <2>1, <2>2 DEF UserTables
<1>5. ASSUME NEW o \in Workers PROVE UserWork(ureq[o])'
  <2>1. CASE o = r
    <3>1. OpOfStep(x)'
      BY <1>2 DEF OpOfStep
    <3>2. calm' /\ x.op = "update" => x.on # x.by
      BY DEF UBegin, Administrations
    <3>3. InCharge(x)' /\ AddressFree(x)'
      BY <3>2 DEF InCharge, AddressFree
    <3>4. ~StillIn(x) /\ x.pc # "commit"
      BY DEF StillIn
    <3>5. UserWork(x)'
      BY <3>1, <3>3, <3>4 DEF UserWork, StillIn
    <3> QED BY <1>1, <2>1, <3>5
             DEF UserWork, OpOfStep, InCharge, AddressFree, StillIn
  <2>2. CASE o # r
    <3>1. PICK q \in UserRequest : q = ureq[o]
      BY URanges DEF UsersInv
    <3>2. UserWork(q)
      BY <3>1 DEF UsersInv
    <3>3. UserWork(q)'
      BY <3>2, <1>2, <1>3 DEF UserWork, OpOfStep, InCharge, AddressFree, StillIn
    <3>4. ureq'[o] = q
      BY <1>1, <2>2, <3>1
    <3> QED BY <3>3, <3>4 DEF UserWork, OpOfStep, InCharge, AddressFree, StillIn
  <2> QED BY <2>1, <2>2
<1>6. ASSUME NEW o \in Workers, o # r, NEW q \in UserRequest, q = ureq[o]
      PROVE  Beside(q, x)' /\ Beside(x, q)'
  <2> SUFFICES ASSUME q.pc # "idle"
               PROVE  /\ q.op \in Creations /\ x.op \in Creations /\ q.address = x.address
                            => q.address \in collided'
                      /\ q.op \in Administrations /\ x.op \in Administrations => ~calm'
                      /\ "anonymize" \in {q.op, x.op} /\ q.on = x.on => q.on \notin single'
    BY DEF Beside
  <2>1. q \in InProgress(ureq, r) /\ OpOfStep(q)
    BY <1>6, InProgressFacts DEF UsersInv, UserWork
  <2>2. q.op \in Creations /\ x.op \in Creations /\ q.address = x.address
          => q.address \in collided'
    BY <2>1 DEF UBegin, OpOfStep
  <2>3. q.op \in Administrations /\ x.op \in Administrations => ~calm'
    BY <2>1 DEF UBegin
  <2>4. ASSUME "anonymize" \in {q.op, x.op}, q.on = x.on, q.on \in single'
        PROVE  FALSE
    <3>1. /\ (IF q.op \in {"login", "password"} THEN q.by ELSE q.on) = q.on
          /\ (IF x.op \in {"login", "password"} THEN x.by ELSE x.on) = q.on
      BY <2>1, <2>4 DEF OpOfStep
    <3>2. q.on \in UserIds
      BY <1>3, <2>4 DEF UsersInv, AccountsTypeOK
    <3> QED BY <2>1, <2>4, <3>1, <3>2 DEF UBegin
  <2> QED BY <2>2, <2>3, <2>4
<1>7. ASSUME NEW p \in Workers, NEW q \in Workers, p # q
      PROVE  Beside(ureq[p], ureq[q])'
  <2>1. ureq[p] \in UserRequest /\ ureq[q] \in UserRequest /\ Beside(ureq[p], ureq[q])
    BY <1>7, URanges DEF UsersInv
  <2>2. CASE p = r
    <3>1. PICK y \in UserRequest : y = ureq[q]
      BY <2>1
    <3>2. Beside(x, y)' /\ ureq'[q] = y /\ ureq'[p] = x
      BY <1>1, <1>6, <1>7, <2>2, <3>1
    <3> QED BY <3>2 DEF Beside
  <2>3. CASE q = r
    <3>1. PICK y \in UserRequest : y = ureq[p]
      BY <2>1
    <3>2. Beside(y, x)' /\ ureq'[p] = y /\ ureq'[q] = x
      BY <1>1, <1>6, <1>7, <2>3, <3>1
    <3> QED BY <3>2 DEF Beside
  <2>4. CASE p # r /\ q # r
    BY <1>1, <1>3, <2>1, <2>4 DEF Beside
  <2> QED BY <2>2, <2>3, <2>4
<1> QED BY <1>4, <1>5, <1>7 DEF UsersInv

LEMMA UArrives ==
    ASSUME UsersInv, NEW r \in Workers, UArrive(r)
    PROVE  UsersInv'
<1>0. /\ open \subseteq 1..lastUser /\ 1..lastUser \subseteq UserIds /\ UserIds \subseteq 0..MaxUsers /\ 0 \in 0..MaxUsers
      /\ userRows \subseteq 1..lastUser /\ 1..lastUser \subseteq 0..MaxUsers
  BY URanges, AccountsAssumption DEF UsersInv, AccountsTypeOK, UserIds
<1>1. ASSUME NEW a \in Addresses,
             UBegin(r, [UIdle EXCEPT !.pc = "check", !.op = "register", !.address = a])
      PROVE  UsersInv'
  <2> DEFINE x == [UIdle EXCEPT !.pc = "check", !.op = "register", !.address = a]
  <2>1. x \in UserRequest /\ x.pc = "check" /\ x.op = "register" /\ x.address = a /\ x.on = 0
    BY UIdleType DEF UserRequest, UserOps, Creations
  <2>2. OpOfStep(x)
    BY <1>0, <2>1 DEF OpOfStep, Creations, Guarded
  <2> HIDE DEF x
  <2> QED BY <1>1, <2>1, <2>2, UBegins DEF Administrations, Guarded, x
<1>2. ASSUME NEW a \in Addresses, NEW u \in open, NEW b \in BOOLEAN,
             UBegin(r, [UIdle EXCEPT !.pc = "auth", !.op = "create", !.by = u, !.address = a, !.to = b])
      PROVE  UsersInv'
  <2> DEFINE x == [UIdle EXCEPT !.pc = "auth", !.op = "create", !.by = u, !.address = a, !.to = b]
  <2>1. x \in UserRequest /\ x.pc = "auth" /\ x.op = "create" /\ x.by = u /\ x.address = a /\ x.on = 0
    BY UIdleType, <1>0 DEF UserRequest, UserOps, Creations
  <2>2. OpOfStep(x)
    BY <1>0, <2>1 DEF OpOfStep, Creations, Guarded
  <2> HIDE DEF x
  <2> QED BY <1>2, <2>1, <2>2, UBegins DEF x
<1>3. ASSUME NEW u \in open, NEW o \in 1..lastUser, NEW op \in Administrations \ {"create"},
             NEW attr \in {"active", "admin"}, NEW b \in BOOLEAN,
             op # "update" => attr = "active" /\ b = (op = "activate"),
             UBegin(r, [UIdle EXCEPT !.pc = "auth", !.op = op, !.by = u, !.on = o,
                                     !.attr = attr, !.to = b])
      PROVE  UsersInv'
  <2> DEFINE x == [UIdle EXCEPT !.pc = "auth", !.op = op, !.by = u, !.on = o,
                                !.attr = attr, !.to = b]
  <2>1. /\ x \in UserRequest /\ x.pc = "auth" /\ x.op = op /\ x.on = o /\ x.by = u
        /\ x.attr = attr /\ x.to = b
    BY UIdleType, <1>0 DEF UserRequest, UserOps
  <2>2. OpOfStep(x)
    BY <1>0, <1>3, <2>1 DEF OpOfStep, Creations, Administrations, Guarded
  <2> HIDE DEF x
  <2> QED BY <1>3, <2>1, <2>2, UBegins DEF x
<1>4. ASSUME NEW u \in open,
             UBegin(r, [UIdle EXCEPT !.pc = "auth", !.op = "password", !.by = u, !.on = u])
      PROVE  UsersInv'
  <2> DEFINE x == [UIdle EXCEPT !.pc = "auth", !.op = "password", !.by = u, !.on = u]
  <2>1. x \in UserRequest /\ x.pc = "auth" /\ x.op = "password" /\ x.by = u /\ x.on = u
    BY UIdleType, <1>0 DEF UserRequest, UserOps
  <2>2. OpOfStep(x)
    BY <1>0, <2>1 DEF OpOfStep, Creations, Guarded
  <2> HIDE DEF x
  <2> QED BY <1>4, <2>1, <2>2, UBegins DEF x
<1>5. ASSUME NEW u \in userRows,
             UBegin(r, [UIdle EXCEPT !.pc = "load", !.op = "login", !.by = u, !.on = u])
      PROVE  UsersInv'
  <2> DEFINE x == [UIdle EXCEPT !.pc = "load", !.op = "login", !.by = u, !.on = u]
  <2>1. x \in UserRequest /\ x.pc = "load" /\ x.op = "login" /\ x.by = u /\ x.on = u
    BY UIdleType, <1>0 DEF UserRequest, UserOps
  <2>2. OpOfStep(x)
    BY <1>0, <2>1 DEF OpOfStep, Creations, Guarded
  <2> HIDE DEF x
  <2> QED BY <1>5, <2>1, <2>2, UBegins DEF Administrations, Creations, Guarded, x
<1> QED BY <1>1, <1>2, <1>3, <1>4, <1>5 DEF UArrive

LEMMA UAuthenticates ==
    ASSUME UsersInv, NEW r \in Workers, Authenticated(r)
    PROVE  UsersInv'
<1> DEFINE q == ureq[r]
           admitted == /\ q.by \in userRows \cap open /\ users[q.by].active
                       /\ q.op \in Administrations => users[q.by].admin
           x == [q EXCEPT !.pc = IF q.op = "create" THEN "check" ELSE "load",
                          !.seen = IF q.on = q.by THEN users[q.by] ELSE Unborn]
<1>1. /\ q \in UserRequest /\ q.pc = "auth" /\ UserWork(q) /\ UKeep
      /\ UBecome(r, IF ~admitted THEN UIdle ELSE x)
  BY URanges DEF Authenticated, UsersInv
<1>2. CASE ~admitted
  BY <1>1, <1>2, UFails
<1>3. CASE admitted
  <2>1. users[q.by] \in User
    BY <1>3, URanges DEF UsersInv
  <2>2. /\ x \in UserRequest /\ x.pc = (IF q.op = "create" THEN "check" ELSE "load")
        /\ x.op = q.op /\ x.on = q.on /\ x.by = q.by /\ x.address = q.address
        /\ x.attr = q.attr /\ x.to = q.to
    BY <1>1, <2>1, UIdleType DEF UserRequest
  <2>3. OpOfStep(x)
    BY <1>1, <2>2 DEF OpOfStep, UserWork, Creations
  <2>4. InCharge(x) /\ AddressFree(x)
    BY <1>1, <1>3, <2>2 DEF InCharge, AddressFree, UserWork
  <2>5. StillIn(x) => x.on \notin out
    BY <1>1, <1>3, <2>2 DEF StillIn, UserWork, OpOfStep, UsersInv, UserTables, AnonymizedStaysOut
  <2>6. UserWork(x)
    BY <2>2, <2>3, <2>4, <2>5 DEF UserWork
  <2>7. UBecome(r, x)
    BY <1>1, <1>3
  <2> QED BY <1>1, <2>2, <2>6, <2>7, ULocal
<1> QED BY <1>2, <1>3

LEMMA UChecks ==
    ASSUME UsersInv, NEW r \in Workers, CheckEmail(r)
    PROVE  UsersInv'
<1> DEFINE q == ureq[r]
           taken == \E u \in userRows : users[u].address = q.address
           x == [q EXCEPT !.pc = "insert"]
<1>1. /\ q \in UserRequest /\ q.pc = "check" /\ UserWork(q) /\ UKeep
      /\ UBecome(r, IF taken THEN UIdle ELSE x)
  BY URanges DEF CheckEmail, UsersInv
<1>2. CASE taken
  BY <1>1, <1>2, UFails
<1>3. CASE ~taken
  <2>1. /\ x \in UserRequest /\ x.pc = "insert"
        /\ x.op = q.op /\ x.on = q.on /\ x.by = q.by /\ x.address = q.address
        /\ x.attr = q.attr /\ x.to = q.to
    BY <1>1 DEF UserRequest
  <2>2. OpOfStep(x) /\ InCharge(x)
    BY <1>1, <2>1 DEF OpOfStep, InCharge, UserWork
  <2>3. AddressFree(x) /\ ~StillIn(x)
    BY <1>3, <2>1 DEF AddressFree, StillIn
  <2>4. UserWork(x) /\ UBecome(r, x)
    BY <1>1, <1>3, <2>1, <2>2, <2>3 DEF UserWork
  <2> QED BY <1>1, <2>1, <2>4, ULocal
<1> QED BY <1>2, <1>3

LEMMA ULoads ==
    ASSUME UsersInv, NEW r \in Workers, LoadUser(r)
    PROVE  UsersInv'
<1> DEFINE q == ureq[r]
           u == Loaded(q)
           refused == \/ q.on \notin userRows
                      \/ q.op \in Guarded /\ q.on = q.by
                      \/ q.op \in {"login", "password"} /\ ~u.password
                      \/ q.op = "login" /\ ~u.active
           x == WithUser(q, u)
<1>1. /\ q \in UserRequest /\ q.pc = "load" /\ UserWork(q) /\ UKeep
      /\ UBecome(r, IF refused THEN UIdle ELSE x)
  BY URanges DEF LoadUser, UsersInv
<1>2. CASE refused
  BY <1>1, <1>2, UFails
<1>3. CASE ~refused
  <2>1. u \in User /\ (q.op = "login" => u = users[q.on])
    BY <1>1, <1>3, URanges DEF Loaded, UsersInv, UserRequest
  <2>2. /\ x \in UserRequest /\ x.pc = (IF q.op = "login" THEN "open" ELSE "write")
        /\ x.op = q.op /\ x.on = q.on /\ x.by = q.by /\ x.address = q.address
        /\ x.attr = q.attr /\ x.to = q.to
    BY <1>1, <2>1, UIdleType DEF WithUser, UserRequest
  <2>3. OpOfStep(x) /\ InCharge(x) /\ AddressFree(x)
    BY <1>1, <1>3, <2>2 DEF OpOfStep, InCharge, AddressFree, UserWork
  <2>4. StillIn(x) /\ x.on \in single => x.on \notin out
    <3>1. CASE q.op = "login"
      BY <1>3, <2>1, <2>2, <3>1 DEF UsersInv, UserTables, AnonymizedStaysOut
    <3>2. CASE q.op # "login"
      BY <1>1, <2>2, <3>2 DEF StillIn, UserWork
    <3> QED BY <3>1, <3>2
  <2>5. UserWork(x) /\ UBecome(r, x)
    BY <1>1, <1>3, <2>2, <2>3, <2>4 DEF UserWork
  <2> QED BY <1>1, <2>2, <2>5, ULocal
<1> QED BY <1>2, <1>3

LEMMA UAnonymizes ==
    ASSUME UsersInv, NEW r \in Workers, WriteAnonymous(r) \/ CloseSessions(r)
    PROVE  UsersInv'
<1> DEFINE q == ureq[r]
           c == q.on \in open
           x == [q EXCEPT !.pc = "sessions"]
           y == [q EXCEPT !.pc = "commit", !.closes = c]
<1>1. q \in UserRequest /\ UserWork(q) /\ c \in BOOLEAN
  BY URanges DEF UsersInv
<1>2. CASE WriteAnonymous(r)
  <2>1. q.pc = "write" /\ q.op = "anonymize" /\ UBecome(r, x) /\ UKeep
    BY <1>2 DEF WriteAnonymous, UGoto
  <2>2. /\ x \in UserRequest /\ x.pc = "sessions"
        /\ x.op = q.op /\ x.on = q.on /\ x.by = q.by /\ x.address = q.address
        /\ x.attr = q.attr /\ x.to = q.to
    BY <1>1 DEF UserRequest
  <2>3. OpOfStep(x) /\ InCharge(x) /\ AddressFree(x) /\ ~StillIn(x)
    BY <1>1, <2>1, <2>2 DEF OpOfStep, InCharge, AddressFree, StillIn, UserWork, Creations
  <2>4. UserWork(x)
    BY <2>2, <2>3 DEF UserWork
  <2> QED BY <2>1, <2>2, <2>4, ULocal
<1>3. CASE CloseSessions(r)
  <2>1. q.pc = "sessions" /\ q.op = "anonymize" /\ UBecome(r, y) /\ UKeep
    BY <1>1, <1>3 DEF CloseSessions, UserWork, OpOfStep
  <2>2. /\ y \in UserRequest /\ y.pc = "commit" /\ (y.closes <=> c)
        /\ y.op = q.op /\ y.on = q.on /\ y.by = q.by /\ y.address = q.address
        /\ y.attr = q.attr /\ y.to = q.to
    BY <1>1 DEF UserRequest
  <2>3. OpOfStep(y) /\ InCharge(y) /\ AddressFree(y) /\ ~StillIn(y)
    BY <1>1, <2>1, <2>2 DEF OpOfStep, InCharge, AddressFree, StillIn, UserWork, Creations
  <2>4. UserWork(y)
    BY <2>2, <2>3 DEF UserWork
  <2> QED BY <2>1, <2>2, <2>4, ULocal
<1> QED BY <1>2, <1>3

LEMMA UInserts ==
    ASSUME UsersInv, NEW r \in Workers, InsertUser(r)
    PROVE  UsersInv'
<1> DEFINE q == ureq[r]
<1>1. PICK n \in UserIds : n = lastUser + 1
  BY AccountsAssumption DEF InsertUser, UsersInv, AccountsTypeOK, UserIds
<1> DEFINE row == [address |-> q.address, active |-> TRUE, admin |-> q.op = "create" /\ q.to,
                   password |-> TRUE]
<1>2. /\ q \in UserRequest /\ q.pc = "insert" /\ UserWork(q) /\ UBecome(r, UIdle)
      /\ lastUser' = n /\ userRows' = userRows \cup {n} /\ users' = [users EXCEPT ![n] = row]
      /\ UNCHANGED <<open, logged, collided, calm, out, single, refusedErasures>>
  BY <1>1, URanges DEF InsertUser, UsersInv, usersHistory
<1>3. row \in User /\ row.address = q.address
  BY <1>2 DEF User, UserRequest
<1>4. /\ users' \in [UserIds -> User] /\ users'[n].address = q.address
      /\ \A u \in userRows : u # n /\ users'[u] = users[u]
  BY <1>1, <1>2, <1>3, URanges DEF UsersInv, AccountsTypeOK
<1> HIDE DEF q, row
<1>5. /\ lastUser' \in 0..MaxUsers /\ userRows' \subseteq 1..lastUser' /\ n \notin out
      /\ 1..lastUser \subseteq 1..lastUser'
  BY <1>1, <1>2, URanges DEF UsersInv, AccountsTypeOK, UserIds
<1>6. EmailOnce'
  <2>1. \A u \in userRows : users[u].address = q.address => q.address \in collided
    BY <1>2 DEF UserWork, AddressFree
  <2> QED BY <1>2, <1>4, <2>1 DEF UsersInv, UserTables, EmailOnce
<1>7. AdminRemains' /\ AnonymizedStaysOut'
  BY <1>2, <1>4, <1>5 DEF UsersInv, UserTables, AdminRemains, AnonymizedStaysOut
<1>8. ASSUME NEW o \in Workers, NEW p \in UserRequest, o # r, p = ureq[o], UserWork(p)
      PROVE  UserWork(p)'
  <2> SUFFICES ASSUME p.pc # "idle" PROVE UserWork(p)'
    BY DEF UserWork
  <2>1. Beside(p, q)
    BY <1>8 DEF UsersInv, q
  <2>2. OpOfStep(p)' /\ InCharge(p)'
    BY <1>2, <1>4, <1>5, <1>8 DEF UserWork, OpOfStep, InCharge
  <2>3. AddressFree(p)'
    BY <1>2, <1>4, <1>8, <2>1 DEF UserWork, AddressFree, OpOfStep, Beside
  <2> QED BY <1>2, <1>8, <2>2, <2>3 DEF UserWork, StillIn
<1>9. (out \cup open)' \subseteq 1..lastUser' /\ logged' \subseteq UserIds /\ refusedErasures' \subseteq UserIds
  BY <1>2, <1>5 DEF UsersInv, AccountsTypeOK
<1> QED BY <1>2, <1>4, <1>5, <1>6, <1>7, <1>8, <1>9, UEnds DEF UserTables

LEMMA UOpens ==
    ASSUME UsersInv, NEW r \in Workers, OpenedSession(r)
    PROVE  UsersInv'
<1> DEFINE q == ureq[r]
<1>1. /\ q \in UserRequest /\ q.pc = "open" /\ UserWork(q) /\ UBecome(r, UIdle)
      /\ q.on \in userRows /\ open' = open \cup {q.on} /\ logged' = logged \cup {q.on}
      /\ UNCHANGED <<userRows, users, lastUser, collided, calm, out, single, refusedErasures>>
  BY URanges DEF OpenedSession, UsersInv, usersHistory
<1>2. q.on \in 1..lastUser /\ q.on \in UserIds
  BY <1>1, URanges DEF UsersInv
<1>3. EmailOnce' /\ AdminRemains'
  BY <1>1 DEF UsersInv, UserTables, EmailOnce, AdminRemains
<1>4. q.on \in single => q.on \notin out
  BY <1>1 DEF UserWork, StillIn
<1> HIDE DEF q
<1>5. AnonymizedStaysOut'
  BY <1>1, <1>4 DEF UsersInv, UserTables, AnonymizedStaysOut
<1>6. ASSUME NEW o \in Workers, NEW p \in UserRequest, o # r, p = ureq[o], UserWork(p)
      PROVE  UserWork(p)'
  <2> SUFFICES ASSUME p.pc # "idle" PROVE UserWork(p)'
    BY DEF UserWork
  <2>1. Beside(p, q)
    BY <1>6 DEF UsersInv, q
  <2>2. OpOfStep(p)' /\ InCharge(p)' /\ AddressFree(p)'
    BY <1>1, <1>6 DEF UserWork, OpOfStep, InCharge, AddressFree
  <2>3. p.pc = "commit" /\ p.on \in single => p.on # q.on
    BY <1>1, <1>6, <2>1 DEF UserWork, OpOfStep, Beside
  <2> QED BY <1>1, <1>6, <2>2, <2>3 DEF UserWork, StillIn
<1>7. /\ (out \cup open)' \subseteq 1..lastUser' /\ logged' \subseteq UserIds
      /\ refusedErasures' \subseteq UserIds /\ users' \in [UserIds -> User]
      /\ lastUser' \in 0..MaxUsers /\ userRows' \subseteq 1..lastUser'
  BY <1>1, <1>2 DEF UsersInv, AccountsTypeOK
<1> QED BY <1>1, <1>3, <1>5, <1>6, <1>7, UEnds DEF UserTables

(* A column that an UPDATE sets is the activity or the rights of the user. *)
LEMMA UColumn ==
    ASSUME NEW row \in User, NEW q \in UserRequest
    PROVE  /\ WriteColumn(row, q) \in User
           /\ WriteColumn(row, q).address = row.address
           /\ WriteColumn(row, q).password <=> row.password
           /\ q.attr = "active" => (WriteColumn(row, q).admin <=> row.admin)
           /\ q.attr = "admin" => (WriteColumn(row, q).active <=> row.active)
           /\ q.attr = "active" /\ (~row.active \/ q.to)
                => (WriteColumn(row, q).active <=> row.active \/ (q.to /\ ~q.seen.active))
           /\ q.attr = "active" /\ q.to /\ row.active => WriteColumn(row, q).active
<1>1. CASE q.attr = "active"
  BY <1>1 DEF WriteColumn, User, UserRequest
<1>2. CASE q.attr = "admin"
  BY <1>2 DEF WriteColumn, User, UserRequest
<1> QED BY <1>1, <1>2 DEF UserRequest

LEMMA UWrites ==
    ASSUME UsersInv, NEW r \in Workers, WriteUser(r)
    PROVE  UsersInv'
<1> DEFINE q == ureq[r]
           old == users[q.on]
           new == IF q.op = "password" THEN [old EXCEPT !.password = TRUE]
                  ELSE WriteColumn(old, q)
           back == q.op # "password" /\ q.attr = "active" /\ q.to /\ ~q.seen.active
<1>1. /\ q \in UserRequest /\ q.pc = "write" /\ UserWork(q) /\ UBecome(r, UIdle)
      /\ q.op \in {"update", "activate", "deactivate", "password"}
      /\ q.on \in userRows /\ users' = [users EXCEPT ![q.on] = new]
      /\ logged' = logged \cup (IF q.op = "update" THEN {} ELSE {q.by})
      /\ out' = out \ (IF back THEN {q.on} ELSE {})
      /\ UNCHANGED <<userRows, lastUser, open, collided, calm, single, refusedErasures>>
  BY URanges DEF WriteUser, UsersInv
<1>2. old \in User /\ q.on \in UserIds /\ q.by \in 0..MaxUsers /\ q.attr \in {"active", "admin"}
  BY <1>1, URanges DEF UsersInv, UserRequest
<1>3. /\ new \in User /\ new.address = old.address
      /\ q.op = "password" => (new.active <=> old.active) /\ (new.admin <=> old.admin)
      /\ q.op # "password" => (new.password <=> old.password)
      /\ q.op = "activate" /\ old.active /\ old.admin => new.active /\ new.admin
      /\ ~old.active /\ ~back => ~new.active
  <2>1. CASE q.op = "password"
    BY <1>2, <2>1 DEF User
  <2>2. CASE q.op # "password"
    BY <1>1, <1>2, <2>2, UColumn DEF UserWork, OpOfStep
  <2> QED BY <2>1, <2>2
<1> HIDE DEF new
<1>4. /\ users' \in [UserIds -> User] /\ users'[q.on] = new
      /\ \A u \in userRows : u # q.on => users'[u] = users[u]
      /\ \A u \in userRows : users'[u].address = users[u].address
  BY <1>1, <1>2, <1>3, URanges DEF UsersInv, AccountsTypeOK
<1>5. EmailOnce'
  BY <1>1, <1>4 DEF UsersInv, UserTables, EmailOnce
<1>6. AdminRemains'
  <2> SUFFICES ASSUME calm PROVE \E u \in userRows : users'[u].active /\ users'[u].admin
    BY <1>1 DEF AdminRemains
  <2>1. CASE q.op = "password"
    BY <1>1, <1>3, <1>4, <2>1 DEF UsersInv, UserTables, AdminRemains
  <2>2. CASE q.op # "password"
    <3>1. q.by \in userRows /\ users[q.by].active /\ users[q.by].admin
      BY <1>1, <2>2 DEF UserWork, InCharge, Administrations, Guarded
    <3>2. q.on = q.by => q.op = "activate"
      BY <1>1, <2>2 DEF UserWork, InCharge, OpOfStep, Administrations, Guarded
    <3> QED BY <1>3, <1>4, <3>1, <3>2
  <2> QED BY <2>1, <2>2
<1>7. AnonymizedStaysOut'
  <2> SUFFICES ASSUME NEW u \in out' \cap userRows
               PROVE  /\ ~users'[u].active /\ users'[u].address = Anonymous
                      /\ u \in single => u \notin open /\ ~users'[u].password
    BY <1>1 DEF AnonymizedStaysOut
  <2>1. u \in out /\ (u = q.on => ~back)
    BY <1>1
  <2>2. /\ ~users[u].active /\ users[u].address = Anonymous
        /\ u \in single => u \notin open /\ ~users[u].password
    BY <2>1 DEF UsersInv, UserTables, AnonymizedStaysOut
  <2>3. q.op = "password" /\ u = q.on => u \notin single
    BY <1>1, <2>1 DEF UserWork, StillIn
  <2> QED BY <1>3, <1>4, <2>1, <2>2, <2>3
<1>b. q.by \in UserIds
  BY <1>1 DEF UserWork, OpOfStep
<1> HIDE DEF q, old, back
<1>8. ASSUME NEW o \in Workers, NEW p \in UserRequest, o # r, p = ureq[o], UserWork(p)
      PROVE  UserWork(p)'
  <2> SUFFICES ASSUME p.pc # "idle" PROVE UserWork(p)'
    BY DEF UserWork
  <2>1. Beside(p, q)
    BY <1>8 DEF UsersInv, q
  <2>2. OpOfStep(p)' /\ AddressFree(p)'
    BY <1>1, <1>4, <1>8 DEF UserWork, OpOfStep, AddressFree
  <2>3. InCharge(p)'
    <3>1. calm /\ p.op \in Administrations => q.op = "password"
      BY <1>1, <2>1 DEF Beside, Administrations, Guarded
    <3>2. calm /\ p.op \in Administrations =>
            \A u \in userRows : /\ users'[u].active <=> users[u].active
                                /\ users'[u].admin <=> users[u].admin
      BY <1>3, <1>4, <3>1 DEF old
    <3> QED BY <1>1, <1>8, <3>2 DEF UserWork, InCharge
  <2> QED BY <1>1, <1>8, <2>2, <2>3 DEF UserWork, StillIn
<1>9. /\ (out \cup open)' \subseteq 1..lastUser' /\ refusedErasures' \subseteq UserIds
      /\ lastUser' \in 0..MaxUsers /\ userRows' \subseteq 1..lastUser' /\ logged' \subseteq UserIds
  BY <1>1, <1>b DEF UsersInv, AccountsTypeOK
<1> QED BY <1>1, <1>4, <1>5, <1>6, <1>7, <1>8, <1>9, UEnds DEF UserTables

LEMMA UDeletes ==
    ASSUME UsersInv, NEW r \in Workers, DeleteUser(r)
    PROVE  UsersInv'
<1> DEFINE q == ureq[r]
<1>1. /\ q \in UserRequest /\ q.pc = "write" /\ q.op \in {"delete", "erase"} /\ UserWork(q)
      /\ UBecome(r, UIdle) /\ q.on \in userRows
      /\ userRows' = userRows \ {q.on} /\ open' = open \ {q.on} /\ logged' = logged \cup {q.by}
      /\ UNCHANGED <<users, lastUser, collided, calm, out, single, refusedErasures>>
  BY URanges DEF DeleteUser, UsersInv, usersHistory
<1>2. q.by \in UserIds /\ q.by # q.on /\ q.op \in Administrations
  BY <1>1 DEF UserWork, OpOfStep, Guarded, Creations, Administrations
<1>3. EmailOnce' /\ AnonymizedStaysOut'
  BY <1>1 DEF UsersInv, UserTables, EmailOnce, AnonymizedStaysOut
<1>4. AdminRemains'
  BY <1>1, <1>2 DEF UserWork, InCharge, AdminRemains
<1> HIDE DEF q
<1>5. ASSUME NEW o \in Workers, NEW p \in UserRequest, o # r, p = ureq[o], UserWork(p)
      PROVE  UserWork(p)'
  <2> SUFFICES ASSUME p.pc # "idle" PROVE UserWork(p)'
    BY DEF UserWork
  <2>1. Beside(p, q)
    BY <1>5 DEF UsersInv, q
  <2>2. OpOfStep(p)' /\ AddressFree(p)'
    BY <1>1, <1>5 DEF UserWork, OpOfStep, AddressFree
  <2>3. InCharge(p)'
    BY <1>1, <1>2, <2>1 DEF InCharge, Beside
  <2>4. p.pc = "commit" /\ p.on \in single => p.on # q.on
    BY <1>1, <1>5, <2>1 DEF UserWork, OpOfStep, Beside
  <2> QED BY <1>1, <1>5, <2>2, <2>3, <2>4 DEF UserWork, StillIn
<1>6. /\ (out \cup open)' \subseteq 1..lastUser' /\ logged' \subseteq UserIds
      /\ refusedErasures' \subseteq UserIds /\ users' \in [UserIds -> User]
      /\ lastUser' \in 0..MaxUsers /\ userRows' \subseteq 1..lastUser'
  BY <1>1, <1>2 DEF UsersInv, AccountsTypeOK
<1> QED BY <1>1, <1>3, <1>4, <1>5, <1>6, UEnds DEF UserTables

LEMMA URefuses ==
    ASSUME UsersInv, NEW r \in Workers, RefuseDeletion(r)
    PROVE  UsersInv'
<1>1. /\ ureq[r].on \in userRows /\ UBecome(r, UIdle)
      /\ refusedErasures' \subseteq refusedErasures \cup {ureq[r].on}
      /\ UNCHANGED <<userRows, users, lastUser, open, logged, collided, calm, out, single>>
  BY DEF RefuseDeletion, usersDb
<1>2. UserTables'
  BY <1>1 DEF UsersInv, UserTables, EmailOnce, AdminRemains, AnonymizedStaysOut
<1>3. \A p \in UserRequest : UserWork(p) => UserWork(p)'
  BY <1>1 DEF UserWork, OpOfStep, InCharge, AddressFree, StillIn
<1>4. /\ (out \cup open)' \subseteq 1..lastUser' /\ logged' \subseteq UserIds
      /\ refusedErasures' \subseteq UserIds /\ users' \in [UserIds -> User]
      /\ lastUser' \in 0..MaxUsers /\ userRows' \subseteq 1..lastUser'
  BY <1>1, URanges DEF UsersInv, AccountsTypeOK
<1> QED BY <1>1, <1>2, <1>3, <1>4, UEnds

LEMMA UCommits ==
    ASSUME UsersInv, NEW r \in Workers, CommitAnonymous(r)
    PROVE  UsersInv'
<1> DEFINE q == ureq[r]
           new == [users[q.on] EXCEPT !.address = Anonymous, !.password = FALSE, !.active = FALSE]
<1>1. /\ q \in UserRequest /\ q.pc = "commit" /\ UserWork(q) /\ UBecome(r, UIdle)
      /\ open' = IF q.closes THEN open \ {q.on} ELSE open
      /\ logged' = logged \cup {q.by} /\ out' = out \cup {q.on}
      /\ users' = [users EXCEPT ![q.on].address = Anonymous, ![q.on].password = FALSE,
                                ![q.on].active = FALSE]
      /\ UNCHANGED <<userRows, lastUser, collided, calm, single, refusedErasures>>
  BY URanges DEF CommitAnonymous, UsersInv
<1>2. /\ q.op = "anonymize" /\ q.on \in 1..lastUser /\ q.on \in UserIds /\ q.by \in UserIds
      /\ q.by # q.on /\ q.op \in Administrations
  BY <1>1, URanges DEF UserWork, OpOfStep, Guarded, Creations, Administrations, UsersInv
<1>3. new \in User /\ ~new.active /\ ~new.password /\ new.address = Anonymous
  <2>1. users[q.on] \in User
    BY <1>2, URanges DEF UsersInv
  <2> QED BY <2>1 DEF User
<1>4. users' = [users EXCEPT ![q.on] = new]
  BY <1>1, <1>2 DEF UsersInv, AccountsTypeOK
<1>5. q.on \in single => q.on \notin open'
  BY <1>1 DEF UserWork
<1>6. AdminRemains'
  BY <1>1, <1>2, <1>4, URanges DEF UserWork, InCharge, AdminRemains, UsersInv, AccountsTypeOK
<1> HIDE DEF new, q
<1>7. /\ users' \in [UserIds -> User] /\ users'[q.on] = new
      /\ \A u \in userRows : u # q.on => users'[u] = users[u]
  BY <1>2, <1>3, <1>4, URanges DEF UsersInv, AccountsTypeOK
<1>a. \A u \in userRows : users'[u].address = users[u].address \/ users'[u].address = Anonymous
  <2> TAKE u \in userRows
  <2>1. CASE u = q.on
    <3>1. users'[u] = new
      BY <1>7, <2>1
    <3> QED BY <1>3, <3>1
  <2>2. CASE u # q.on
    BY <1>7, <2>2
  <2> QED BY <2>1, <2>2
<1>b. UNCHANGED <<userRows, collided>> /\ EmailOnce
  BY <1>1 DEF UsersInv, UserTables
<1>8. EmailOnce'
  BY <1>a, <1>b DEF EmailOnce
<1>9. AnonymizedStaysOut'
  <2> SUFFICES ASSUME NEW u \in out' \cap userRows
               PROVE  /\ ~users'[u].active /\ users'[u].address = Anonymous
                      /\ u \in single => u \notin open' /\ ~users'[u].password
    BY <1>1 DEF AnonymizedStaysOut
  <2>1. CASE u = q.on
    BY <1>3, <1>5, <1>7, <2>1
  <2>2. CASE u # q.on
    <3>1. u \in out /\ users'[u] = users[u] /\ (u \in open' => u \in open)
      BY <1>1, <1>7, <2>2
    <3> QED BY <3>1 DEF UsersInv, UserTables, AnonymizedStaysOut
  <2> QED BY <2>1, <2>2
<1>10. ASSUME NEW o \in Workers, NEW p \in UserRequest, o # r, p = ureq[o], UserWork(p)
       PROVE  UserWork(p)'
  <2> SUFFICES ASSUME p.pc # "idle" PROVE UserWork(p)'
    BY DEF UserWork
  <2>1. Beside(p, q)
    BY <1>10 DEF UsersInv, q
  <2>2. OpOfStep(p)'
    BY <1>1, <1>10 DEF UserWork, OpOfStep
  <2>3. AddressFree(p)'
    BY <1>1, <1>a, <1>10, AccountsAssumption DEF UserWork, AddressFree, OpOfStep
  <2>4. InCharge(p)'
    BY <1>1, <1>2, <2>1 DEF InCharge, Beside
  <2>5. p.on \in single => p.on # q.on
    BY <1>1, <1>2, <2>1 DEF Beside
  <2> QED BY <1>1, <1>10, <2>2, <2>3, <2>4, <2>5 DEF UserWork, StillIn
<1>11. /\ (out \cup open)' \subseteq 1..lastUser' /\ logged' \subseteq UserIds
       /\ refusedErasures' \subseteq UserIds
       /\ lastUser' \in 0..MaxUsers /\ userRows' \subseteq 1..lastUser'
  BY <1>1, <1>2 DEF UsersInv, AccountsTypeOK
<1> QED BY <1>1, <1>6, <1>7, <1>8, <1>9, <1>10, <1>11, UEnds DEF UserTables

(* Addresses are not doubled but by overlapping registrations, an          *)
(* administrator remains, and who is anonymized stays out, whatever        *)
(* requests of whatever users overlap (app/services/user.py, gdpr.py).     *)
THEOREM UsersStayConsistent == AccountsSpec => []AccountsConsistent
<1>1. AccountsInit => UsersInv
  BY UInit
<1>2. UsersInv /\ [AccountsNext]_usersVars => UsersInv'
  <2> SUFFICES ASSUME UsersInv, [AccountsNext]_usersVars PROVE UsersInv'
    OBVIOUS
  <2>1. ASSUME NEW r \in Workers, UStep(r) PROVE UsersInv'
    BY <2>1, UAuthenticates, UChecks, UInserts, ULoads, UOpens, UWrites, UDeletes, URefuses,
       UFails, UAnonymizes, UCommits DEF UStep, RowGone, UFail, UKeep
  <2>2. ASSUME NEW r \in Workers, UArrive(r) PROVE UsersInv'
    BY <2>2, UArrives
  <2>3. ASSUME NEW r \in Workers, UAbort(r) PROVE UsersInv'
    BY <2>3, UFails DEF UAbort, UFail, UKeep
  <2>4. CASE UNCHANGED usersVars
    <3>1. UNCHANGED <<userRows, users, lastUser, open, logged, collided, calm, out, single,
                      refusedErasures, ureq>>
      BY <2>4 DEF usersVars, usersDb, usersHistory
    <3>2. AccountsTypeOK' /\ UserTables'
      BY <3>1 DEF UsersInv, AccountsTypeOK, UserTables, EmailOnce, AdminRemains, AnonymizedStaysOut
    <3> QED BY <3>1, <3>2
         DEF UsersInv, UserWork, OpOfStep, InCharge, AddressFree, StillIn, Beside
  <2> QED BY <2>1, <2>2, <2>3, <2>4 DEF AccountsNext
<1>3. UsersInv => AccountsConsistent
  BY DEF UsersInv, UserTables, AccountsConsistent
<1> QED BY <1>1, <1>2, <1>3, PTL DEF AccountsSpec

-----------------------------------------------------------------------------
(* The password.  A login in progress has verified the hash it loaded, and *)
(* that hash is of the password in force unless a change overlaps it.      *)
PasswordRequest ==
    [pc : {"idle", "load", "verify", "rehash", "write", "session", "close"},
     op : {"none", "login", "second", "change", "reset"}, with : 0..MaxPasswords,
     seen : Hash, new : 0..MaxPasswords, by : 0..MaxOpened]
PasswordTypes ==
    /\ stored \in Hash /\ set \in Passwords /\ latest \in Passwords /\ vouchers \subseteq Passwords
    /\ lastOpened \in 0..MaxOpened /\ DOMAIN opened \subseteq 1..lastOpened
    /\ inTurn \in BOOLEAN /\ undisturbed \in BOOLEAN
    /\ wreq \in [Workers -> PasswordRequest]
PasswordWork(q) ==
    /\ q.pc = "rehash" => q.op = "login"
    /\ q.pc \in {"load", "verify"} => q.op \in Replacing \cup {"login"}
    /\ q.pc \in {"write", "close"} => q.op \in Replacing
    /\ q.pc = "close" => q.new # 0
    /\ q.op = "login" /\ q.pc \in {"rehash", "session"} => q.with = q.seen.of
    /\ q.op = "login" /\ q.new # 0 => q.new = q.with
    /\ inTurn /\ q.op = "login" /\ q.pc \in {"verify", "rehash", "session"} => q.seen.of = latest
Kinds(p, q) ==
    inTurn /\ p.pc # "idle" /\ q.pc # "idle" => (p.op \in Replacing <=> q.op \in Replacing)
PasswordTables ==
    CredentialsConsistent /\ (inTurn => stored.of = latest)
PasswordInv ==
    /\ PasswordTypes /\ PasswordTables
    /\ \A r \in Workers : PasswordWork(wreq[r])
    /\ \A r, o \in Workers : r # o => Kinds(wreq[r], wreq[o])

LEMMA WIdleType ==
    WIdle \in PasswordRequest /\ WIdle.pc = "idle" /\ WIdle.op = "none" /\ WIdle.new = 0
BY CredentialsAssumption DEF WIdle, PasswordRequest, FirstHash, Hash, Passwords

LEMMA WRanges ==
    ASSUME PasswordTypes
    PROVE  /\ lastOpened \in Nat /\ Passwords \subseteq 0..MaxPasswords
           /\ 1..set \subseteq Passwords /\ DOMAIN opened \subseteq 0..MaxOpened
           /\ \A r \in Workers : wreq[r] \in PasswordRequest
BY CredentialsAssumption DEF PasswordTypes, Passwords

LEMMA WMoved ==
    ASSUME PasswordTypes, NEW r \in Workers, NEW x \in PasswordRequest, WBecome(r, x)
    PROVE  /\ wreq' \in [Workers -> PasswordRequest] /\ wreq'[r] = x
           /\ \A q \in Workers : q # r => wreq'[q] = wreq[q]
BY DEF WBecome, PasswordTypes

(* The requests after a step of r that leaves the histories of overlaps,   *)
(* when what the others know of the password stays true.                   *)
LEMMA WGoesOn ==
    ASSUME PasswordInv, NEW r \in Workers, NEW x \in PasswordRequest, WBecome(r, x),
           UNCHANGED inTurn, PasswordWork(x)',
           x.pc # "idle" => wreq[r].pc # "idle" /\ x.op = wreq[r].op,
           \A o \in Workers : \A q \in PasswordRequest :
               o # r /\ q = wreq[o] /\ PasswordWork(q) => PasswordWork(q)'
    PROVE  /\ wreq' \in [Workers -> PasswordRequest]
           /\ \A o \in Workers : PasswordWork(wreq[o])'
           /\ \A p, o \in Workers : p # o => Kinds(wreq[p], wreq[o])'
<1>1. /\ wreq' \in [Workers -> PasswordRequest] /\ wreq'[r] = x
      /\ \A q \in Workers : q # r => wreq'[q] = wreq[q]
  BY WMoved DEF PasswordInv
<1>2. ASSUME NEW o \in Workers PROVE PasswordWork(wreq[o])'
  <2>1. CASE o = r
    BY <1>1, <2>1 DEF PasswordWork
  <2>2. CASE o # r
    <3>1. PICK q \in PasswordRequest : q = wreq[o]
      BY WRanges DEF PasswordInv
    <3>2. PasswordWork(q)' /\ wreq'[o] = q
      BY <1>1, <2>2, <3>1 DEF PasswordInv
    <3> QED BY <3>2 DEF PasswordWork
  <2> QED BY <2>1, <2>2
<1>3. ASSUME NEW p \in Workers, NEW o \in Workers, p # o
      PROVE  Kinds(wreq[p], wreq[o])'
  <2>1. Kinds(wreq[p], wreq[o])
    BY <1>3 DEF PasswordInv
  <2>2. CASE p = r
    BY <1>1, <1>3, <2>1, <2>2 DEF Kinds
  <2>3. CASE o = r
    BY <1>1, <1>3, <2>1, <2>3 DEF Kinds
  <2>4. CASE p # r /\ o # r
    BY <1>1, <2>1, <2>4 DEF Kinds
  <2> QED BY <2>2, <2>3, <2>4
<1> QED BY <1>1, <1>2, <1>3

(* A request takes a step that writes no row. *)
LEMMA WLocal ==
    ASSUME PasswordInv, NEW r \in Workers, NEW x \in PasswordRequest, WBecome(r, x),
           UNCHANGED <<credentialDb, credentialHistory>>, PasswordWork(x),
           x.pc # "idle" => wreq[r].pc # "idle" /\ x.op = wreq[r].op
    PROVE  PasswordInv'
<1>1. UNCHANGED <<stored, set, vouchers, opened, lastOpened, latest, undisturbed, inTurn>>
  BY DEF credentialDb, credentialHistory
<1>2. PasswordWork(x)' /\ \A q \in PasswordRequest : PasswordWork(q) => PasswordWork(q)'
  BY <1>1 DEF PasswordWork
<1>3. /\ wreq' \in [Workers -> PasswordRequest]
      /\ \A o \in Workers : PasswordWork(wreq[o])'
      /\ \A p, o \in Workers : p # o => Kinds(wreq[p], wreq[o])'
  BY <1>1, <1>2, WGoesOn
<1>4. PasswordTypes' /\ PasswordTables'
  BY <1>1, <1>3 DEF PasswordInv, PasswordTypes, PasswordTables, CredentialsConsistent,
     PasswordInForce, BcryptIsFirst, OpenedWithLatest
<1> QED BY <1>3, <1>4 DEF PasswordInv

LEMMA WFails ==
    ASSUME PasswordInv, NEW r \in Workers, WFail(r)
    PROVE  PasswordInv'
BY WIdleType, WLocal DEF PasswordWork, WFail

LEMMA WInit == CredentialsInit => PasswordInv
<1> SUFFICES ASSUME CredentialsInit PROVE PasswordInv
  OBVIOUS
<1>1. /\ stored = FirstHash /\ set = 1 /\ vouchers = {} /\ opened = <<>> /\ lastOpened = 0
      /\ latest = 1 /\ undisturbed = TRUE /\ inTurn = TRUE /\ wreq = [r \in Workers |-> WIdle]
  BY DEF CredentialsInit
<1>2. FirstHash \in Hash /\ FirstHash.of = 1 /\ 1 \in Passwords /\ DOMAIN opened = {}
  BY <1>1, CredentialsAssumption DEF FirstHash, Hash, Passwords
<1>3. PasswordTypes
  BY <1>1, <1>2, WIdleType, CredentialsAssumption DEF PasswordTypes
<1>4. PasswordTables
  BY <1>1, <1>2 DEF PasswordTables, CredentialsConsistent, PasswordInForce, BcryptIsFirst,
     OpenedWithLatest
<1>5. PasswordWork(WIdle) /\ Kinds(WIdle, WIdle)
  BY WIdleType DEF PasswordWork, Kinds
<1> QED BY <1>1, <1>3, <1>4, <1>5 DEF PasswordInv

(* A request arrives, and the history takes note of what it overlaps. *)
LEMMA WArrives ==
    ASSUME PasswordInv, NEW r \in Workers, WArrive(r)
    PROVE  PasswordInv'
<1>1. /\ UNCHANGED <<stored, set, vouchers, opened, lastOpened, latest, undisturbed>>
      /\ inTurn' = (inTurn /\ \A o \in InProgress(wreq, r) :
                        (o.op \in Replacing) = (wreq'[r].op \in Replacing))
  BY DEF WArrive, credentialDb
<1>2. PICK x \in PasswordRequest :
          /\ WBecome(r, x) /\ x.new = 0
          /\ \/ x.pc = "load" /\ x.op \in {"login", "change", "reset"}
             \/ x.pc = "session" /\ x.op = "second"
  <2>1. CASE \E p \in 1..set : WBecome(r, [WIdle EXCEPT !.pc = "load", !.op = "login", !.with = p])
    <3>1. PICK p \in 1..set : WBecome(r, [WIdle EXCEPT !.pc = "load", !.op = "login", !.with = p])
      BY <2>1
    <3> DEFINE x == [WIdle EXCEPT !.pc = "load", !.op = "login", !.with = p]
    <3>2. x \in PasswordRequest /\ x.new = 0 /\ x.pc = "load" /\ x.op = "login"
      BY WIdleType, WRanges DEF PasswordInv, PasswordRequest
    <3> QED BY <3>1, <3>2
  <2>2. CASE \E v \in vouchers :
                WBecome(r, [WIdle EXCEPT !.pc = "session", !.op = "second", !.with = v])
    <3>1. PICK v \in vouchers :
              WBecome(r, [WIdle EXCEPT !.pc = "session", !.op = "second", !.with = v])
      BY <2>2
    <3> DEFINE x == [WIdle EXCEPT !.pc = "session", !.op = "second", !.with = v]
    <3>2. x \in PasswordRequest /\ x.new = 0 /\ x.pc = "session" /\ x.op = "second"
      BY WIdleType, WRanges DEF PasswordInv, PasswordTypes, PasswordRequest
    <3> QED BY <3>1, <3>2
  <2>3. CASE \E s \in DOMAIN opened, p \in 1..set :
                WBecome(r, [WIdle EXCEPT !.pc = "load", !.op = "change", !.with = p, !.by = s])
    <3>1. PICK s \in DOMAIN opened, p \in 1..set :
              WBecome(r, [WIdle EXCEPT !.pc = "load", !.op = "change", !.with = p, !.by = s])
      BY <2>3
    <3> DEFINE x == [WIdle EXCEPT !.pc = "load", !.op = "change", !.with = p, !.by = s]
    <3>2. x \in PasswordRequest /\ x.new = 0 /\ x.pc = "load" /\ x.op = "change"
      BY WIdleType, WRanges DEF PasswordInv, PasswordRequest
    <3> QED BY <3>1, <3>2
  <2>4. CASE WBecome(r, [WIdle EXCEPT !.pc = "load", !.op = "reset"])
    <3> DEFINE x == [WIdle EXCEPT !.pc = "load", !.op = "reset"]
    <3>2. x \in PasswordRequest /\ x.new = 0 /\ x.pc = "load" /\ x.op = "reset"
      BY WIdleType DEF PasswordRequest
    <3> QED BY <2>4, <3>2
  <2> QED BY <2>1, <2>2, <2>3, <2>4 DEF WArrive
<1>3. /\ wreq' \in [Workers -> PasswordRequest] /\ wreq'[r] = x
      /\ \A q \in Workers : q # r => wreq'[q] = wreq[q]
  BY <1>2, WMoved DEF PasswordInv
<1>4. inTurn' \in BOOLEAN /\ (inTurn' => inTurn)
  BY <1>1 DEF PasswordInv, PasswordTypes
<1>5. PasswordTypes' /\ PasswordTables'
  <2>1. PasswordTypes'
    BY <1>1, <1>3, <1>4 DEF PasswordInv, PasswordTypes
  <2>2. PasswordTables'
    BY <1>1, <1>4 DEF PasswordInv, PasswordTables, CredentialsConsistent,
       PasswordInForce, BcryptIsFirst, OpenedWithLatest
  <2> QED BY <2>1, <2>2
<1>6. ASSUME NEW o \in Workers PROVE PasswordWork(wreq[o])'
  <2>1. CASE o = r
    BY <1>2, <1>3, <2>1 DEF PasswordWork, Replacing
  <2>2. CASE o # r
    <3>1. PasswordWork(wreq[o]) /\ wreq'[o] = wreq[o]
      BY <1>3, <2>2 DEF PasswordInv
    <3> QED BY <1>1, <1>4, <3>1 DEF PasswordWork
  <2> QED BY <2>1, <2>2
<1>7. ASSUME NEW p \in Workers, NEW o \in Workers, p # o
      PROVE  Kinds(wreq[p], wreq[o])'
  <2>1. Kinds(wreq[p], wreq[o])
    BY <1>7 DEF PasswordInv
  <2>2. CASE p = r
    <3>1. wreq'[o] = wreq[o] /\ (wreq[o].pc # "idle" => wreq[o] \in InProgress(wreq, r))
      BY <1>3, <1>7, <2>2, InProgressFacts
    <3> QED BY <1>1, <1>3, <2>2, <3>1 DEF Kinds
  <2>3. CASE o = r
    <3>1. wreq'[p] = wreq[p] /\ (wreq[p].pc # "idle" => wreq[p] \in InProgress(wreq, r))
      BY <1>3, <1>7, <2>3, InProgressFacts
    <3> QED BY <1>1, <1>3, <2>3, <3>1 DEF Kinds
  <2>4. CASE p # r /\ o # r
    BY <1>3, <1>4, <2>1, <2>4 DEF Kinds
  <2> QED BY <2>2, <2>3, <2>4
<1> QED BY <1>5, <1>6, <1>7 DEF PasswordInv

(* A request loads, verifies, writes without a commit. *)
LEMMA WSteps ==
    ASSUME PasswordInv, NEW r \in Workers, LoadHash(r) \/ Verify(r) \/ Rehash(r)
    PROVE  PasswordInv'
<1> DEFINE q == wreq[r]
<1>1. q \in PasswordRequest /\ PasswordWork(q) /\ stored \in Hash /\ PasswordTables
  BY WRanges DEF PasswordInv, PasswordTypes
<1>2. CASE LoadHash(r)
  <2> DEFINE x == [q EXCEPT !.pc = "verify", !.seen = stored]
  <2>1. /\ q.pc = "load" /\ UNCHANGED <<credentialDb, credentialHistory>>
        /\ WBecome(r, x) \/ WBecome(r, WIdle)
    BY <1>2 DEF LoadHash
  <2>2. /\ x \in PasswordRequest /\ x.pc = "verify" /\ x.op = q.op /\ x.seen = stored
        /\ x.new = q.new /\ x.with = q.with
    BY <1>1 DEF PasswordRequest
  <2>3. PasswordWork(x)
    BY <1>1, <2>1, <2>2 DEF PasswordWork, PasswordTables
  <2> HIDE DEF x
  <2> QED BY <2>1, <2>2, <2>3, WLocal, WFails DEF WFail
<1>3. CASE Verify(r)
  <2> DEFINE y == IF q.op # "login" THEN [q EXCEPT !.pc = "write"]
                  ELSE IF needs_rehash(q.seen) THEN [q EXCEPT !.pc = "rehash"]
                  ELSE [q EXCEPT !.pc = "session"]
  <2>1. /\ q.pc = "verify" /\ UNCHANGED <<credentialDb, credentialHistory>>
        /\ \/ WBecome(r, WIdle)
           \/ WBecome(r, y) /\ (q.op = "reset" \/ q.with = q.seen.of)
    BY <1>3 DEF Verify, verify_password
  <2>2. /\ y \in PasswordRequest /\ y.op = q.op /\ y.seen = q.seen /\ y.new = q.new
        /\ y.with = q.with /\ y.pc \in {"write", "rehash", "session"}
        /\ y.pc = "write" <=> q.op # "login"
    BY <1>1 DEF PasswordRequest
  <2> HIDE DEF y
  <2>3. CASE WBecome(r, WIdle)
    BY <2>1, <2>3, WFails DEF WFail
  <2>4. CASE WBecome(r, y) /\ (q.op = "reset" \/ q.with = q.seen.of)
    <3>1. q.op # "login" => q.op \in Replacing
      BY <1>1, <2>1 DEF PasswordRequest, PasswordWork, Replacing
    <3>2. PasswordWork(y)
      BY <1>1, <2>1, <2>2, <2>4, <3>1 DEF PasswordWork
    <3> QED BY <2>1, <2>2, <2>4, <3>2, WLocal
  <2> QED BY <2>1, <2>3, <2>4
<1>4. CASE Rehash(r)
  <2> DEFINE x == [q EXCEPT !.pc = "session", !.new = q.with]
  <2>1. q.pc = "rehash" /\ UNCHANGED <<credentialDb, credentialHistory>> /\ WBecome(r, x)
    BY <1>4 DEF Rehash
  <2>2. /\ x \in PasswordRequest /\ x.pc = "session" /\ x.op = q.op /\ x.seen = q.seen
        /\ x.new = q.with /\ x.with = q.with
    BY <1>1 DEF PasswordRequest
  <2>3. PasswordWork(x)
    BY <1>1, <2>1, <2>2 DEF PasswordWork
  <2> HIDE DEF x
  <2> QED BY <2>1, <2>2, <2>3, WLocal
<1> QED BY <1>2, <1>3, <1>4

LEMMA WWrites ==
    ASSUME PasswordInv, NEW r \in Workers, WritePassword(r)
    PROVE  PasswordInv'
<1> DEFINE q == wreq[r]
<1>1. PICK n \in Passwords : n = set + 1
  BY CredentialsAssumption DEF PasswordInv, PasswordTypes, Passwords, WritePassword
<1>3. PICK x \in PasswordRequest : x = [q EXCEPT !.pc = "close", !.new = n]
  BY <1>1, WRanges DEF PasswordRequest, PasswordInv
<1>2. /\ q \in PasswordRequest /\ q.pc = "write" /\ PasswordWork(q) /\ WBecome(r, x) /\ set' = n
      /\ UNCHANGED <<stored, vouchers, opened, lastOpened, latest, undisturbed, inTurn>>
  BY <1>1, <1>3, WRanges DEF WritePassword, PasswordInv, credentialHistory
<1>a. x.pc = "close" /\ x.op = q.op /\ x.new = n /\ n # 0
  BY <1>1, <1>2, <1>3, CredentialsAssumption DEF PasswordRequest, Passwords
<1>4. PasswordWork(x)'
  BY <1>2, <1>a DEF PasswordWork, Replacing
<1>5. \A p \in PasswordRequest : PasswordWork(p) => PasswordWork(p)'
  BY <1>2 DEF PasswordWork
<1>6. /\ wreq' \in [Workers -> PasswordRequest]
      /\ \A o \in Workers : PasswordWork(wreq[o])'
      /\ \A p, o \in Workers : p # o => Kinds(wreq[p], wreq[o])'
  BY <1>2, <1>a, <1>4, <1>5, WGoesOn
<1>7. PasswordTypes' /\ PasswordTables'
  BY <1>2, <1>6 DEF PasswordInv, PasswordTypes, PasswordTables, CredentialsConsistent,
     PasswordInForce, BcryptIsFirst, OpenedWithLatest
<1> QED BY <1>6, <1>7 DEF PasswordInv

(* One more session keeps the others. *)
LEMMA WOpened ==
    ASSUME PasswordTypes, NEW p, NEW second, OpenedWith(p, second)
    PROVE  /\ lastOpened' \in 0..MaxOpened /\ DOMAIN opened' \subseteq 1..lastOpened'
           /\ \A s \in DOMAIN opened' :
                 \/ s \in DOMAIN opened /\ opened'[s] = opened[s]
                 \/ opened'[s] = [with |-> p, second |-> second]
<1>1. PICK n \in 1..MaxOpened : n = lastOpened + 1
  BY CredentialsAssumption DEF PasswordTypes, OpenedWith
<1>2. /\ lastOpened' = n /\ lastOpened \in Nat
      /\ opened' = [s \in DOMAIN opened \cup {n} |->
                       IF s = n THEN [with |-> p, second |-> second] ELSE opened[s]]
  BY <1>1, WRanges DEF OpenedWith
<1>3. DOMAIN opened' = DOMAIN opened \cup {n}
  BY <1>2
<1>4. DOMAIN opened \subseteq 1..n
  BY <1>1, <1>2 DEF PasswordTypes
<1> QED BY <1>1, <1>2, <1>3, <1>4

(* A login's commit: a migrated hash is of the password that it verified. *)
LEMMA WLogsIn ==
    ASSUME PasswordInv, NEW r \in Workers, OpenSession(r)
    PROVE  PasswordInv'
<1> DEFINE q == wreq[r]
<1>1. /\ q \in PasswordRequest /\ q.pc = "session" /\ q.op = "login" /\ PasswordWork(q)
      /\ \/ vouchers' = vouchers \cup {q.with} /\ UNCHANGED <<opened, lastOpened>>
         \/ OpenedWith(q.with, FALSE) /\ UNCHANGED vouchers
      /\ stored' = IF q.new = 0 THEN stored ELSE hash_password(q.new)
      /\ undisturbed' = (undisturbed /\ (q.new # 0 => stored.of = q.seen.of))
      /\ WBecome(r, WIdle) /\ UNCHANGED <<set, latest, inTurn>>
  BY WRanges DEF OpenSession, PasswordInv
<1>2. q.with = q.seen.of /\ q.seen \in Hash /\ q.with \in Passwords
  BY <1>1 DEF PasswordWork, PasswordRequest, Hash
<1>3. /\ stored' \in Hash
      /\ \/ stored' = stored
         \/ stored'.of = q.seen.of /\ stored'.algorithm = "argon2id"
            /\ (undisturbed' => stored.of = q.seen.of)
  <2>1. CASE q.new = 0
    BY <1>1, <2>1 DEF PasswordInv, PasswordTypes
  <2>2. CASE q.new # 0
    <3>1. q.new = q.with /\ stored' = hash_password(q.with)
      BY <1>1, <2>2 DEF PasswordWork
    <3>2. hash_password(q.with) \in Hash /\ hash_password(q.with).of = q.with
          /\ hash_password(q.with).algorithm = "argon2id"
      BY <1>2 DEF hash_password, Hash, Algorithms
    <3> QED BY <1>1, <1>2, <2>2, <3>1, <3>2
  <2> QED BY <2>1, <2>2
<1>4. inTurn => q.seen.of = latest
  BY <1>1 DEF PasswordWork
<1>5. /\ lastOpened' \in 0..MaxOpened /\ DOMAIN opened' \subseteq 1..lastOpened'
      /\ \A s \in DOMAIN opened' :
            \/ s \in DOMAIN opened /\ opened'[s] = opened[s]
            \/ opened'[s].with = q.with
  <2>1. CASE OpenedWith(q.with, FALSE)
    <3>1. /\ lastOpened' \in 0..MaxOpened /\ DOMAIN opened' \subseteq 1..lastOpened'
          /\ \A s \in DOMAIN opened' :
                \/ s \in DOMAIN opened /\ opened'[s] = opened[s]
                \/ opened'[s] = [with |-> q.with, second |-> FALSE]
      BY <2>1, WOpened DEF PasswordInv
    <3>2. [with |-> q.with, second |-> FALSE].with = q.with
      OBVIOUS
    <3> QED BY <3>1, <3>2
  <2>2. CASE UNCHANGED <<opened, lastOpened>>
    BY <2>2 DEF PasswordInv, PasswordTypes
  <2> QED BY <1>1, <2>1, <2>2
<1>6. undisturbed' \in BOOLEAN /\ (undisturbed' => undisturbed) /\ vouchers' \subseteq Passwords
  BY <1>1, <1>2 DEF PasswordInv, PasswordTypes
<1> HIDE DEF q
<1>7. \A p \in PasswordRequest : PasswordWork(p) => PasswordWork(p)'
  BY <1>1 DEF PasswordWork
<1>8. /\ wreq' \in [Workers -> PasswordRequest]
      /\ \A o \in Workers : PasswordWork(wreq[o])'
      /\ \A p, o \in Workers : p # o => Kinds(wreq[p], wreq[o])'
  <2>1. PasswordWork(WIdle)'
    BY WIdleType DEF PasswordWork
  <2> QED BY <1>1, <1>7, <2>1, WIdleType, WGoesOn
<1>9. PasswordTypes'
  BY <1>1, <1>3, <1>5, <1>6, <1>8 DEF PasswordInv, PasswordTypes
<1>10. PasswordTables'
  <2>1. PasswordInForce' /\ (inTurn => stored.of = latest)'
    BY <1>1, <1>3, <1>4, <1>6 DEF PasswordInv, PasswordTables, CredentialsConsistent, PasswordInForce
  <2>2. BcryptIsFirst'
    BY <1>1, <1>3 DEF PasswordInv, PasswordTables, CredentialsConsistent, BcryptIsFirst
  <2>3. OpenedWithLatest'
    BY <1>1, <1>2, <1>4, <1>5
       DEF PasswordInv, PasswordTables, CredentialsConsistent, OpenedWithLatest
  <2> QED BY <2>1, <2>2, <2>3 DEF PasswordTables, CredentialsConsistent
<1> QED BY <1>8, <1>9, <1>10 DEF PasswordInv

LEMMA WSecond ==
    ASSUME PasswordInv, NEW r \in Workers, CompleteMfaLogin(r)
    PROVE  PasswordInv'
<1>1. /\ OpenedWith(wreq[r].with, TRUE) /\ WBecome(r, WIdle)
      /\ UNCHANGED <<stored, set, vouchers, latest, undisturbed, inTurn>>
  BY DEF CompleteMfaLogin, credentialHistory
<1>2. /\ lastOpened' \in 0..MaxOpened /\ DOMAIN opened' \subseteq 1..lastOpened'
      /\ \A s \in DOMAIN opened' :
            \/ s \in DOMAIN opened /\ opened'[s] = opened[s]
            \/ opened'[s].second
  <2>1. /\ lastOpened' \in 0..MaxOpened /\ DOMAIN opened' \subseteq 1..lastOpened'
        /\ \A s \in DOMAIN opened' :
              \/ s \in DOMAIN opened /\ opened'[s] = opened[s]
              \/ opened'[s] = [with |-> wreq[r].with, second |-> TRUE]
    BY <1>1, WOpened DEF PasswordInv
  <2>2. [with |-> wreq[r].with, second |-> TRUE].second
    OBVIOUS
  <2> QED BY <2>1, <2>2
<1>3. PasswordWork(WIdle)' /\ \A p \in PasswordRequest : PasswordWork(p) => PasswordWork(p)'
  BY <1>1, WIdleType DEF PasswordWork
<1>4. /\ wreq' \in [Workers -> PasswordRequest]
      /\ \A o \in Workers : PasswordWork(wreq[o])'
      /\ \A p, o \in Workers : p # o => Kinds(wreq[p], wreq[o])'
  BY <1>1, <1>3, WIdleType, WGoesOn
<1>5. PasswordTypes'
  BY <1>1, <1>2, <1>4 DEF PasswordInv, PasswordTypes
<1>6. PasswordTables'
  BY <1>1, <1>2 DEF PasswordInv, PasswordTables, CredentialsConsistent,
     PasswordInForce, BcryptIsFirst, OpenedWithLatest
<1> QED BY <1>4, <1>5, <1>6 DEF PasswordInv

(* A change or reset ends with the sessions that it closes.  When all come *)
(* in turn, no login that has verified the former password is under way.   *)
LEMMA WCloses ==
    ASSUME PasswordInv, NEW r \in Workers, CloseOpened(r)
    PROVE  PasswordInv'
<1> DEFINE q == wreq[r]
<1>1. /\ q \in PasswordRequest /\ q.pc = "close" /\ PasswordWork(q)
      /\ stored' = hash_password(q.new) /\ latest' = q.new /\ opened' = <<>> /\ WBecome(r, WIdle)
      /\ UNCHANGED <<set, vouchers, lastOpened, undisturbed, inTurn>>
  BY WRanges DEF CloseOpened, PasswordInv
<1>2. q.op \in Replacing /\ q.new \in Passwords
  BY <1>1, CredentialsAssumption DEF PasswordWork, PasswordRequest, Passwords
<1>3. stored' \in Hash /\ stored'.of = latest' /\ stored'.algorithm # "bcrypt" /\ latest' \in Passwords
  BY <1>1, <1>2 DEF hash_password, Hash, Algorithms
<1> HIDE DEF q
<1>4. ASSUME NEW o \in Workers, NEW p \in PasswordRequest, o # r, p = wreq[o], PasswordWork(p)
      PROVE  PasswordWork(p)'
  <2>1. Kinds(p, q)
    BY <1>4 DEF PasswordInv, q
  <2>2. inTurn => ~(p.op = "login" /\ p.pc \in {"verify", "rehash", "session"})
    BY <1>1, <1>2, <2>1 DEF Kinds, Replacing
  <2> QED BY <1>1, <1>4, <2>2 DEF PasswordWork
<1>5. /\ wreq' \in [Workers -> PasswordRequest]
      /\ \A o \in Workers : PasswordWork(wreq[o])'
      /\ \A p, o \in Workers : p # o => Kinds(wreq[p], wreq[o])'
  <2>1. PasswordWork(WIdle)'
    BY WIdleType DEF PasswordWork
  <2> QED BY <1>1, <1>4, <2>1, WIdleType, WGoesOn
<1>6. DOMAIN opened' = {}
  BY <1>1
<1>7. PasswordTypes'
  BY <1>1, <1>3, <1>5, <1>6 DEF PasswordInv, PasswordTypes
<1>8. PasswordTables'
  BY <1>1, <1>3, <1>6 DEF PasswordTables, CredentialsConsistent,
     PasswordInForce, BcryptIsFirst, OpenedWithLatest
<1> QED BY <1>5, <1>7, <1>8 DEF PasswordInv

(* The password in force is the last that was set, a bcrypt hash is the    *)
(* first one, and the sessions in use were opened with the password in     *)
(* force, however logins, changes and resets overlap (app/services/auth.py,*)
(* password_reset.py).                                                     *)
THEOREM PasswordsStayConsistent == CredentialsSpec => []CredentialsConsistent
<1>1. CredentialsInit => PasswordInv
  BY WInit
<1>2. PasswordInv /\ [CredentialsNext]_credentialVars => PasswordInv'
  <2> SUFFICES ASSUME PasswordInv, [CredentialsNext]_credentialVars PROVE PasswordInv'
    OBVIOUS
  <2>1. ASSUME NEW r \in Workers,
               WArrive(r) \/ LoadHash(r) \/ Verify(r) \/ Rehash(r) \/ WritePassword(r)
               \/ OpenSession(r) \/ CompleteMfaLogin(r) \/ CloseOpened(r) \/ WAbort(r)
        PROVE  PasswordInv'
    BY <2>1, WArrives, WSteps, WWrites, WLogsIn, WSecond, WCloses, WFails DEF WAbort
  <2>2. ASSUME UNCHANGED <<stored, set, opened, lastOpened, latest, undisturbed, inTurn, wreq>>,
               vouchers' \subseteq vouchers
        PROVE  PasswordInv'
    <3>1. PasswordTypes' /\ PasswordTables'
      BY <2>2 DEF PasswordInv, PasswordTypes, PasswordTables, CredentialsConsistent,
         PasswordInForce, BcryptIsFirst, OpenedWithLatest
    <3> QED BY <2>2, <3>1 DEF PasswordInv, PasswordWork, Kinds
  <2>3. CASE VoucherExpires
    BY <2>2, <2>3 DEF VoucherExpires, credentialHistory
  <2>4. CASE UNCHANGED credentialVars
    BY <2>2, <2>4 DEF credentialVars, credentialDb, credentialHistory
  <2> QED BY <2>1, <2>3, <2>4 DEF CredentialsNext
<1>3. PasswordInv => CredentialsConsistent
  BY DEF PasswordInv, PasswordTables
<1> QED BY <1>1, <1>2, <1>3, PTL DEF CredentialsSpec
=============================================================================
