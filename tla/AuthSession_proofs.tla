-------------------------- MODULE AuthSession_proofs --------------------------
(***************************************************************************)
(* Proofs about AuthSession, for any number of users, concurrent requests, *)
(* rows and ticks.                                                         *)
(***************************************************************************)
EXTENDS AuthSession, TLAPS

(* Rows are numbered below the counters, and every row ever inserted names *)
(* an owner, every token a session.                                        *)
Allocated ==
    /\ sesRows \subseteq 1..lastSes /\ tokRows \subseteq 1..lastTok
    /\ \A s \in 1..lastSes : ses[s].owner \in Users
    /\ \A t \in 1..lastTok : tok[t].ses \in 1..lastSes

RefreshPcs == {"rfCheck", "rfReplay", "rfRevoke", "rfReplayed", "rfSession", "rfUser",
               "rfRotate", "rfMark", "rfStore"}

(* What the program counter of a request x says of its other fields. *)
ControlOf(x) ==
    /\ x.pc \notin Resting => x.user \in Users
    /\ x.pc \in {"auSession", "auUser"} => x.op \in AccessOps
    /\ x.pc = "auSession" => x.ses \in 1..lastSes
    /\ x.pc \in RefreshPcs => x.tok \in 1..lastTok /\ x.op = "refresh"
    /\ x.pc = "loRevoke" => x.tok \in TokIds
    /\ x.pc \in {"pwUpdate", "pwSessions"} => x.op = "changePassword"
    /\ x.op = "changePassword" =>
          x.pc \in Resting \cup {"auSession", "auUser", "pwUpdate", "pwSessions", "commit"}
Control == \A r \in Workers : ControlOf(req[r])

(* The row lock of `users': one password change at a time holds it, and    *)
(* the bound on changes was checked under it.                              *)
HoldsUser(x) == x.op = "changePassword" /\ x.pc \in {"pwSessions", "commit"}
PasswordLock ==
    /\ \A r \in Workers : HoldsUser(req[r]) => pw[req[r].user] < MaxPw
    /\ \A q, r \in Workers :
          HoldsUser(req[q]) /\ HoldsUser(req[r]) /\ req[q].user = req[r].user => q = r

TypeInv == TypeOK /\ Allocated /\ Control /\ PasswordLock

LEMMA IdleType == Idle \in Request /\ Idle.pc = "idle" /\ Idle.op = "none"
BY ConstantsAssumption DEF Idle, Request, Pcs, Resting, SesIds, TokIds

LEMMA InitTypeInv == Init => TypeInv
<1> SUFFICES ASSUME Init PROVE TypeInv
  OBVIOUS
<1>1. TypeOK
  <2>1. req \in [Workers -> Request]
    BY IdleType DEF Init
  <2>2. ses \in [SesIds -> SessionRow] /\ tok \in [TokIds -> TokenRow]
    BY ConstantsAssumption DEF Init, SessionRow, TokenRow, Times
  <2> QED BY <2>1, <2>2, ConstantsAssumption DEF Init, TypeOK, Times
<1>2. Allocated
  BY DEF Init, Allocated
<1>3. Control /\ PasswordLock
  BY IdleType DEF Init, Control, ControlOf, PasswordLock, HoldsUser, Resting, RefreshPcs
<1> QED BY <1>1, <1>2, <1>3 DEF TypeInv

(* One worker's record is replaced, the others are left alone. *)
LEMMA Moved ==
    ASSUME req \in [Workers -> Request], NEW r \in Workers, NEW x \in Request, Become(r, x)
    PROVE  /\ req' \in [Workers -> Request] /\ req'[r] = x
           /\ \A q \in Workers : q # r => req'[q] = req[q]
BY DEF Become

(* A step that writes no table keeps the invariant as soon as the new      *)
(* record is well formed and takes no lock another request holds.          *)
LEMMA LocalStep ==
    ASSUME TypeInv, NEW r \in Workers, NEW x \in Request, Become(r, x),
           UNCHANGED <<now, active, pw, tables>>,
           ControlOf(x),
           HoldsUser(x) => /\ pw[x.user] < MaxPw
                           /\ \A q \in Workers \ {r} :
                                 HoldsUser(req[q]) => req[q].user # x.user
    PROVE  TypeInv'
<1>1. /\ req' \in [Workers -> Request] /\ req'[r] = x
      /\ \A q \in Workers : q # r => req'[q] = req[q]
  BY Moved DEF TypeInv, TypeOK
<1>2. TypeOK'
  BY <1>1 DEF TypeInv, TypeOK, tables
<1>3. Allocated'
  BY DEF TypeInv, Allocated, tables
<1>4. Control'
  BY <1>1 DEF TypeInv, Control, ControlOf, tables
<1>5. PasswordLock'
  BY <1>1 DEF TypeInv, PasswordLock, tables
<1> QED BY <1>2, <1>3, <1>4, <1>5 DEF TypeInv

LEMMA FailStep ==
    ASSUME TypeInv, NEW r \in Workers, Fail(r), UNCHANGED <<now, active, pw, tables>>
    PROVE  TypeInv'
<1>1. ControlOf(Idle) /\ ~HoldsUser(Idle)
  BY IdleType DEF ControlOf, HoldsUser, Resting, RefreshPcs
<1> QED BY <1>1, IdleType, LocalStep DEF Fail

(* Moving on inside the handler: the program counter alone changes. *)
LEMMA GotoStep ==
    ASSUME TypeInv, NEW r \in Workers, NEW p \in Pcs \ Resting, Goto(r, p),
           UNCHANGED <<now, active, pw, tables>>,
           req[r].pc \notin Resting,
           p # "auSession", p \in {"auUser"} => req[r].op \in AccessOps,
           p \in RefreshPcs => req[r].pc \in RefreshPcs,
           p = "loRevoke" => req[r].tok \in TokIds,
           p \in {"pwUpdate", "pwSessions"} => req[r].op = "changePassword",
           req[r].op = "changePassword" =>
              p \in {"auUser", "pwUpdate", "pwSessions", "commit"},
           HoldsUser([req[r] EXCEPT !.pc = p]) =>
                 /\ pw[req[r].user] < MaxPw
                 /\ \A q \in Workers \ {r} : HoldsUser(req[q]) => req[q].user # req[r].user
    PROVE  TypeInv'
<1> DEFINE x == [req[r] EXCEPT !.pc = p]
<1>1. /\ x \in Request /\ x.pc = p /\ x.op = req[r].op /\ x.user = req[r].user
      /\ x.ses = req[r].ses /\ x.tok = req[r].tok
  BY DEF TypeInv, TypeOK, Request
<1>2. ControlOf(x)
  BY <1>1 DEF TypeInv, Control, ControlOf
<1>3. Become(r, x)
  BY DEF Goto
<1> HIDE DEF x
<1> QED BY <1>1, <1>2, <1>3, LocalStep DEF x

-----------------------------------------------------------------------------
(* The steps of a handler that only move on or give up. *)
LEMMA RefreshReads ==
    ASSUME TypeInv, NEW r \in Workers,
           \/ RefreshCheck(r) \/ RefreshReplayed(r) \/ RefreshUser(r) \/ RefreshRotate(r)
    PROVE  TypeInv'
<1>1. CASE Fail(r) /\ UNCHANGED <<now, active, pw, tables>>
  BY <1>1, FailStep
<1>2. CASE \E p \in {"rfReplay", "rfRotate", "rfStore", "rfMark"} :
              Goto(r, p) /\ UNCHANGED <<now, active, pw, tables>>
  <2>1. req[r].pc \in RefreshPcs /\ req[r].op # "changePassword"
    BY DEF TypeInv, Control, ControlOf, RefreshCheck, RefreshReplayed, RefreshUser,
           RefreshRotate, At, RefreshPcs
  <2>2. PICK p \in {"rfReplay", "rfRotate", "rfStore", "rfMark"} :
           Goto(r, p) /\ UNCHANGED <<now, active, pw, tables>>
    BY <1>2
  <2>3. p \in Pcs \ Resting /\ ~HoldsUser([req[r] EXCEPT !.pc = p])
    BY <2>1 DEF Pcs, Resting, Entering, HoldsUser, TypeInv, TypeOK, Request
  <2> QED BY <2>1, <2>2, <2>3, GotoStep DEF Resting, RefreshPcs
<1> QED
  BY <1>1, <1>2 DEF RefreshCheck, RefreshReplayed, RefreshUser, RefreshRotate

(* The steps of a refresh that remember what they read or write. *)
LEMMA RefreshMoves ==
    ASSUME TypeInv, NEW r \in Workers,
           RefreshReplay(r) \/ RefreshRevoke(r) \/ RefreshSession(r) \/ RefreshMark(r)
    PROVE  TypeInv'
<1>1. /\ req[r].pc \in RefreshPcs /\ req[r].op = "refresh" /\ req[r].user \in Users
      /\ req[r].tok \in 1..lastTok /\ req[r] \in Request
      /\ UNCHANGED <<now, active, pw, tables>>
  BY DEF TypeInv, TypeOK, Control, ControlOf, RefreshReplay, RefreshRevoke, RefreshSession,
         RefreshMark, At, RefreshPcs, Resting
<1>2. CASE Fail(r)
  BY <1>1, <1>2, FailStep
<1>3. ASSUME NEW x \in Request, Become(r, x), x.pc \in RefreshPcs, x.op = "refresh",
             x.user = req[r].user, x.tok = req[r].tok
      PROVE  TypeInv'
  <2>1. ControlOf(x) /\ ~HoldsUser(x)
    BY <1>1, <1>3 DEF ControlOf, HoldsUser, RefreshPcs, Resting
  <2> QED BY <1>1, <1>3, <2>1, LocalStep
<1>4. CASE \E p \in {"rfSession", "rfUser"} : Goto(r, p)
  <2>1. PICK p \in {"rfSession", "rfUser"} : Goto(r, p)
    BY <1>4
  <2> DEFINE x == [req[r] EXCEPT !.pc = p]
  <2>2. x \in Request /\ x.pc = p /\ x.op = req[r].op /\ x.user = req[r].user /\ x.tok = req[r].tok
    BY <1>1, <2>1 DEF Request, Pcs, Entering
  <2>3. Become(r, x)
    BY <2>1 DEF Goto
  <2> HIDE DEF x
  <2> QED BY <1>1, <1>3, <2>1, <2>2, <2>3 DEF RefreshPcs
<1>5. CASE Become(r, [req[r] EXCEPT !.pc = "rfRevoke", !.horizon = lastSes])
  <2> DEFINE x == [req[r] EXCEPT !.pc = "rfRevoke", !.horizon = lastSes]
  <2>1. /\ x \in Request /\ x.pc = "rfRevoke" /\ x.op = req[r].op
        /\ x.user = req[r].user /\ x.tok = req[r].tok
    BY <1>1 DEF Request, Pcs, Entering, TypeInv, TypeOK
  <2> HIDE DEF x
  <2> QED BY <1>1, <1>3, <1>5, <2>1 DEF RefreshPcs, x
<1>6. ASSUME NEW T \in SUBSET TokIds, NEW p \in {"rfReplayed", "rfStore"},
             Become(r, [req[r] EXCEPT !.pc = p, !.wTok = T])
      PROVE  TypeInv'
  <2> DEFINE x == [req[r] EXCEPT !.pc = p, !.wTok = T]
  <2>1. /\ x \in Request /\ x.pc = p /\ x.op = req[r].op
        /\ x.user = req[r].user /\ x.tok = req[r].tok
    BY <1>1 DEF Request, Pcs, Entering
  <2> HIDE DEF x
  <2> QED BY <1>1, <1>3, <1>6, <2>1 DEF RefreshPcs, x
<1>7. CASE RefreshReplay(r)
  BY <1>2, <1>4, <1>5, <1>7 DEF RefreshReplay
<1>8. CASE RefreshRevoke(r)
  <2>1. {t \in TokensOf(req[r].user, req[r].horizon) : ~tok[t].used} \in SUBSET TokIds
    BY DEF TypeInv, TypeOK, TokensOf
  <2> QED BY <1>6, <1>8, <2>1 DEF RefreshRevoke
<1>9. CASE RefreshSession(r)
  <2> DEFINE t == req[r].tok
             s == tok[t].ses
             x == [req[r] EXCEPT !.pc = "rfUser", !.ses = s, !.oldUsed = tok[t].used]
  <2>1. CASE Become(r, x)
    <3>1. tok[t] \in TokenRow
      BY <1>1, ConstantsAssumption DEF TypeInv, TypeOK, TokIds
    <3>2. s \in 0..MaxSessions /\ tok[t].used \in BOOLEAN
      BY <3>1 DEF TokenRow
    <3> HIDE DEF s
    <3>3. /\ x \in Request /\ x.pc = "rfUser" /\ x.op = req[r].op
          /\ x.user = req[r].user /\ x.tok = req[r].tok
      BY <1>1, <3>2 DEF Request, Pcs, Entering
    <3> HIDE DEF x
    <3> QED BY <1>1, <1>3, <2>1, <3>3 DEF RefreshPcs
  <2> QED BY <1>2, <1>4, <1>9, <2>1 DEF RefreshSession
<1>10. CASE RefreshMark(r)
  <2>1. {req[r].tok} \in SUBSET TokIds
    BY <1>1, ConstantsAssumption DEF TypeInv, TypeOK, TokIds
  <2> QED BY <1>2, <1>6, <1>10, <2>1 DEF RefreshMark
<1> QED BY <1>7, <1>8, <1>9, <1>10


-----------------------------------------------------------------------------
(* The arrival of a request. *)
LEMMA Arrivals ==
    ASSUME TypeInv, NEW r \in Workers, Arrive(r)
    PROVE  TypeInv'
<1>1. ASSUME NEW x \in Request, Become(r, x), UNCHANGED <<now, active, pw, tables>>,
             x.pc \in {"liStore", "rfCheck", "auSession", "auUser"},
             ControlOf(x)
      PROVE  TypeInv'
  <2>1. ~HoldsUser(x)
    BY <1>1 DEF HoldsUser
  <2> QED BY <1>1, <2>1, LocalStep
<1>2. ASSUME NEW u \in Users, BeginLogin(r, u)
      PROVE  TypeInv'
  <2> DEFINE x == [Idle EXCEPT !.pc = "liStore", !.op = "login", !.user = u, !.pwSeen = pw[u]]
  <2>1. pw[u] \in 0..MaxPw
    BY DEF TypeInv, TypeOK
  <2>2. x \in Request /\ x.pc = "liStore" /\ x.op = "login" /\ x.user = u
    BY IdleType, <2>1 DEF Request, Pcs, Entering, AllOps
  <2>3. Become(r, x) /\ UNCHANGED <<now, active, pw, tables>>
    BY <1>2 DEF BeginLogin
  <2> HIDE DEF x
  <2>4. ControlOf(x)
    BY <2>2 DEF ControlOf, RefreshPcs
  <2> QED BY <1>1, <2>2, <2>3, <2>4
<1>3. ASSUME NEW u \in Users, BeginAuthBare(r, u)
      PROVE  TypeInv'
  <2> DEFINE x == [Idle EXCEPT !.pc = "auUser", !.op = "access", !.user = u]
  <2>1. x \in Request /\ x.pc = "auUser" /\ x.op = "access" /\ x.user = u
    BY IdleType DEF Request, Pcs, Entering, AllOps
  <2>2. Become(r, x) /\ UNCHANGED <<now, active, pw, tables>>
    BY <1>3 DEF BeginAuthBare
  <2> HIDE DEF x
  <2>3. ControlOf(x)
    BY <2>1 DEF ControlOf, RefreshPcs, AccessOps
  <2> QED BY <1>1, <2>1, <2>2, <2>3
<1>4. ASSUME NEW t \in TokIds, BeginRefresh(r, t)
      PROVE  TypeInv'
  <2> DEFINE dead == tok[t].used \/ ~Open(tok[t].ses)
             u == ses[tok[t].ses].owner
             x == [Idle EXCEPT !.pc = "rfCheck", !.op = "refresh", !.tok = t,
                               !.user = u, !.late = dead]
  <2>1. t \in 1..lastTok /\ t \in 0..MaxTokens
    BY <1>4, ConstantsAssumption DEF BeginRefresh, TypeInv, TypeOK, TokIds
  <2>2. u \in Users
    BY <2>1 DEF TypeInv, Allocated
  <2>3. dead \in BOOLEAN
    OBVIOUS
  <2>4. Become(r, x) /\ UNCHANGED <<now, active, pw, tables>>
    BY <1>4 DEF BeginRefresh
  <2> HIDE DEF dead, u
  <2>5. x \in Request /\ x.pc = "rfCheck" /\ x.op = "refresh" /\ x.user = u /\ x.tok = t
    BY IdleType, <2>1, <2>2, <2>3 DEF Request, Pcs, Entering, AllOps
  <2> HIDE DEF x
  <2>6. ControlOf(x)
    BY <2>1, <2>2, <2>5 DEF ControlOf, RefreshPcs
  <2> QED BY <1>1, <2>4, <2>5, <2>6
<1>5. ASSUME NEW op \in AccessOps, NEW s \in SesIds, NEW t \in 0..MaxTokens,
             NEW d \in 0..MaxSessions, BeginAuth(r, op, s, t, d)
      PROVE  TypeInv'
  <2> DEFINE dead == ~Open(s)
             u == ses[s].owner
             x == [Idle EXCEPT !.pc = "auSession", !.op = op, !.user = u, !.ses = s,
                               !.tok = t, !.target = d, !.late = dead]
  <2>1. s \in 1..lastSes /\ s \in 0..MaxSessions
    BY <1>5, ConstantsAssumption DEF BeginAuth, TypeInv, TypeOK, SesIds
  <2>2. u \in Users
    BY <2>1 DEF TypeInv, Allocated
  <2>3. dead \in BOOLEAN
    OBVIOUS
  <2>4. Become(r, x) /\ UNCHANGED <<now, active, pw, tables>>
    BY <1>5 DEF BeginAuth
  <2> HIDE DEF dead, u
  <2>5. x \in Request /\ x.pc = "auSession" /\ x.op = op /\ x.user = u /\ x.ses = s
    BY IdleType, <2>1, <2>2, <2>3, ZenonT(60) DEF Request, Pcs, Entering, AllOps, AccessOps
  <2> HIDE DEF x
  <2>6. ControlOf(x)
    BY <2>1, <2>2, <2>5 DEF ControlOf, RefreshPcs
  <2> QED BY <1>1, <2>4, <2>5, <2>6
<1> QED BY <1>2, <1>3, <1>4, <1>5 DEF Arrive

(* get_current_user and the reads of the authenticated handlers. *)
LEMMA HandlerReads ==
    ASSUME TypeInv, NEW r \in Workers,
           \/ AuthSession(r) \/ AuthUser(r) \/ LogoutLoad(r) \/ LogoutSession(r)
           \/ TerminateLoad(r) \/ PasswordUpdate(r)
    PROVE  TypeInv'
<1>1. UNCHANGED <<now, active, pw, tables>> /\ req[r] \in Request /\ ControlOf(req[r])
  BY DEF AuthSession, AuthUser, LogoutLoad, LogoutSession, TerminateLoad, PasswordUpdate,
         TypeInv, TypeOK, Control
<1>2. CASE Fail(r)
  BY <1>1, <1>2, FailStep
<1>3. ASSUME NEW p \in {"loRevoke", "loSession", "loFlush", "tmFlush", "commit"},
             req[r].pc \in {"loLoad", "loSession", "tmLoad"}, Goto(r, p),
             p = "loRevoke" => req[r].tok \in TokIds
      PROVE  TypeInv'
  <2>1. p \in Pcs \ Resting /\ req[r].op # "changePassword"
    BY <1>1, <1>3 DEF ControlOf, Pcs, Resting, Acting
  <2>2. ~HoldsUser([req[r] EXCEPT !.pc = p])
    BY <1>1, <2>1 DEF HoldsUser, Request
  <2> QED BY <1>1, <1>3, <2>1, <2>2, GotoStep DEF Resting, RefreshPcs
<1>4. CASE AuthSession(r)
  <2>1. CASE Goto(r, "auUser")
    <3>1. req[r].pc = "auSession" /\ req[r].op \in AccessOps
      BY <1>1, <1>4 DEF AuthSession, At, ControlOf
    <3>2. ~HoldsUser([req[r] EXCEPT !.pc = "auUser"]) /\ "auUser" \in Pcs \ Resting
      BY <1>1 DEF HoldsUser, Request, Pcs, Resting, Entering
    <3> QED BY <1>1, <2>1, <3>1, <3>2, GotoStep DEF Resting, RefreshPcs
  <2> QED BY <1>2, <1>4, <2>1 DEF AuthSession
<1>5. CASE AuthUser(r)
  <2>1. CASE Goto(r, FirstStep[req[r].op])
    <3> DEFINE p == FirstStep[req[r].op]
    <3>1. req[r].pc = "auUser" /\ req[r].op \in AccessOps
      BY <1>1, <1>5 DEF AuthUser, At, ControlOf
    <3>2. /\ p \in Acting
          /\ req[r].op = "changePassword" <=> p = "pwUpdate"
          /\ p # "pwSessions"
      BY <3>1 DEF FirstStep, AccessOps, Acting
    <3>3. ~HoldsUser([req[r] EXCEPT !.pc = p]) /\ p \in Pcs \ Resting
      BY <1>1, <3>2 DEF HoldsUser, Request, Pcs, Resting, Acting
    <3>4. req[r].pc \notin Resting /\ p \notin RefreshPcs /\ p \notin {"auSession", "auUser", "loRevoke"}
      BY <3>1 DEF FirstStep, AccessOps, RefreshPcs, Resting
    <3>5. Goto(r, p)
      BY <2>1
    <3> HIDE DEF p
    <3> QED BY <1>1, <3>1, <3>2, <3>3, <3>4, <3>5, GotoStep
  <2> QED BY <1>2, <1>5, <2>1 DEF AuthUser
<1>6. CASE LogoutLoad(r)
  <2>1. req[r].tok \in tokRows => req[r].tok \in TokIds
    BY DEF TypeInv, TypeOK
  <2> QED BY <1>3, <1>6, <2>1 DEF LogoutLoad, At
<1>7. CASE LogoutSession(r)
  BY <1>3, <1>7 DEF LogoutSession, At
<1>8. CASE TerminateLoad(r)
  BY <1>2, <1>3, <1>8 DEF TerminateLoad, At
<1>9. CASE PasswordUpdate(r)
  <2>1. CASE Goto(r, "pwSessions") /\ pw[req[r].user] < MaxPw
    <3>1. req[r].pc = "pwUpdate" /\ req[r].op = "changePassword"
      BY <1>1, <1>9 DEF PasswordUpdate, At, ControlOf
    <3>2. \A q \in Workers \ {r} : HoldsUser(req[q]) => req[q].user # req[r].user
      BY <1>9 DEF PasswordUpdate, UserLocked, HoldsUser
    <3>3. "pwSessions" \in Pcs \ Resting
      BY DEF Pcs, Resting, Acting
    <3> QED BY <1>1, <2>1, <3>1, <3>2, <3>3, GotoStep DEF Resting, RefreshPcs
  <2> QED BY <1>2, <1>9, <2>1 DEF PasswordUpdate
<1> QED BY <1>4, <1>5, <1>6, <1>7, <1>8, <1>9


(* The statements that write: their effect waits in the worker's record. *)
LEMMA HandlerWrites ==
    ASSUME TypeInv, NEW r \in Workers,
           \/ LogoutRevoke(r) \/ LogoutAllList(r) \/ LogoutAllTokens(r)
           \/ LogoutAllSessions(r) \/ TerminateAll(r) \/ PasswordSessions(r)
           \/ FlushRevoke(r)
    PROVE  TypeInv'
<1>1. UNCHANGED <<now, active, pw, tables>> /\ req[r] \in Request /\ ControlOf(req[r])
  BY DEF LogoutRevoke, LogoutAllList, LogoutAllTokens, LogoutAllSessions, TerminateAll,
         PasswordSessions, FlushRevoke, BulkRevoke, TypeInv, TypeOK, Control
<1>2. CASE Fail(r)
  BY <1>1, <1>2, FailStep
<1>3. ASSUME NEW x \in Request, Become(r, x), x.pc \in {"loSession", "laTokens", "laSessions"},
             req[r].pc \in {"loRevoke", "laList", "laTokens"},
             x.op = req[r].op, x.user = req[r].user
      PROVE  TypeInv'
  <2>1. ControlOf(x) /\ ~HoldsUser(x)
    BY <1>1, <1>3 DEF ControlOf, HoldsUser, RefreshPcs, Resting
  <2> QED BY <1>1, <1>3, <2>1, LocalStep
<1>4. ASSUME NEW x \in Request, Become(r, x), x.pc = "commit",
             req[r].pc \in {"laSessions", "taSessions", "pwSessions", "loFlush", "tmFlush"},
             x.op = req[r].op, x.user = req[r].user
      PROVE  TypeInv'
  <2>1. ControlOf(x)
    BY <1>1, <1>4 DEF ControlOf, RefreshPcs, Resting
  <2>2. HoldsUser(x) => HoldsUser(req[r])
    BY <1>1, <1>4 DEF ControlOf, HoldsUser, Resting
  <2>3. HoldsUser(x) => /\ pw[x.user] < MaxPw
                        /\ \A q \in Workers \ {r} : HoldsUser(req[q]) => req[q].user # x.user
    BY <1>4, <2>2 DEF TypeInv, PasswordLock
  <2> QED BY <1>1, <1>4, <2>1, <2>3, LocalStep
<1>5. CASE LogoutRevoke(r)
  <2>1. ASSUME NEW T \in SUBSET TokIds, NEW B \in SUBSET TokIds,
               Become(r, [req[r] EXCEPT !.pc = "loSession", !.wTok = T, !.wBlk = B])
        PROVE  TypeInv'
    <3> DEFINE x == [req[r] EXCEPT !.pc = "loSession", !.wTok = T, !.wBlk = B]
    <3>1. x \in Request /\ x.pc = "loSession" /\ x.op = req[r].op /\ x.user = req[r].user
      BY <1>1 DEF Request, Pcs, Acting
    <3> HIDE DEF x
    <3> QED BY <1>3, <1>5, <2>1, <3>1 DEF x, LogoutRevoke, At
  <2>2. {req[r].tok} \in SUBSET TokIds /\ ({req[r].tok} \cap tokRows) \in SUBSET TokIds
    BY <1>1, <1>5 DEF ControlOf, LogoutRevoke, At
  <2> QED BY <1>2, <1>5, <2>1, <2>2 DEF LogoutRevoke
<1>6. CASE LogoutAllList(r)
  <2> DEFINE x == [req[r] EXCEPT !.pc = "laTokens", !.horizon = lastSes]
  <2>1. x \in Request /\ x.pc = "laTokens" /\ x.op = req[r].op /\ x.user = req[r].user
    BY <1>1 DEF Request, Pcs, Acting, TypeInv, TypeOK
  <2> HIDE DEF x
  <2> QED BY <1>3, <1>6, <2>1 DEF x, LogoutAllList, At
<1>7. CASE LogoutAllTokens(r)
  <2> DEFINE T == {t \in TokensOf(req[r].user, req[r].horizon) : ~tok[t].used}
             x == [req[r] EXCEPT !.pc = "laSessions", !.wTok = T]
  <2>1. T \in SUBSET TokIds
    BY DEF TypeInv, TypeOK, TokensOf
  <2>2. Become(r, x)
    BY <1>7 DEF LogoutAllTokens
  <2> HIDE DEF T
  <2>3. x \in Request /\ x.pc = "laSessions" /\ x.op = req[r].op /\ x.user = req[r].user
    BY <1>1, <2>1 DEF Request, Pcs, Acting
  <2> HIDE DEF x
  <2> QED BY <1>3, <1>7, <2>2, <2>3 DEF LogoutAllTokens, At
<1>8. ASSUME NEW S \in SUBSET SesIds, Become(r, [req[r] EXCEPT !.pc = "commit", !.wSes = S]),
             req[r].pc \in {"laSessions", "taSessions", "pwSessions", "loFlush", "tmFlush"}
      PROVE  TypeInv'
  <2> DEFINE x == [req[r] EXCEPT !.pc = "commit", !.wSes = S]
  <2>1. x \in Request /\ x.pc = "commit" /\ x.op = req[r].op /\ x.user = req[r].user
    BY <1>1 DEF Request, Pcs, Acting
  <2> HIDE DEF x
  <2> QED BY <1>4, <1>8, <2>1 DEF x
<1>9. ASSUME NEW keep, BulkRevoke(r, keep), req[r].pc \in {"laSessions", "taSessions", "pwSessions"}
      PROVE  TypeInv'
  <2>1. ({s \in SessionsOf(req[r].user) : ses[s].revokedAt = 0} \ keep) \in SUBSET SesIds
    BY DEF TypeInv, TypeOK, SessionsOf
  <2> QED BY <1>8, <1>9, <2>1 DEF BulkRevoke
<1>10. CASE FlushRevoke(r)
  <2>1. req[r].target \in sesRows => {req[r].target} \in SUBSET SesIds
    BY DEF TypeInv, TypeOK
  <2> QED BY <1>2, <1>8, <1>10, <2>1 DEF FlushRevoke
<1> QED
  BY <1>5, <1>6, <1>7, <1>9, <1>10 DEF LogoutAllSessions, TerminateAll, PasswordSessions, At


-----------------------------------------------------------------------------
(* The commits that insert rows or publish what a request wrote. *)
LEMMA OpenSessionTypeInv ==
    ASSUME TypeInv, NEW r \in Workers, NEW s, s = lastSes + 1, NEW t, t = lastTok + 1,
           OpenSession(r, s, t), req[r].user \in Users, UNCHANGED <<now, active, pw>>
    PROVE  TypeInv'
<1> DEFINE x == [Idle EXCEPT !.pc = "ok", !.ses = s]
<1>1. s \in SesIds /\ s \in 0..MaxSessions /\ t \in TokIds
  BY ConstantsAssumption DEF OpenSession, TypeInv, TypeOK, SesIds, TokIds
<1>2. x \in Request /\ x.pc = "ok" /\ x.op = "none"
  BY IdleType, <1>1 DEF Request, Pcs, Resting
<1>3. Become(r, x)
  BY DEF OpenSession
<1> HIDE DEF x
<1>4. /\ req' \in [Workers -> Request] /\ req'[r] = x
      /\ \A q \in Workers : q # r => req'[q] = req[q]
  BY <1>2, <1>3, Moved DEF TypeInv, TypeOK
<1>5. ses' \in [SesIds -> SessionRow] /\ tok' \in [TokIds -> TokenRow]
  <2>1. /\ now + SessionLife \in Times /\ now + AccessLife \in Times
        /\ now + RefreshLife \in Times /\ 0 \in Times
    BY ConstantsAssumption DEF TypeInv, TypeOK, Times
  <2>2. [owner |-> req[r].user, absExp |-> now + SessionLife, revokedAt |-> 0,
         access |-> now + AccessLife, pwOf |-> req[r].pwSeen] \in SessionRow
    BY <2>1 DEF SessionRow, Request, TypeInv, TypeOK
  <2>3. [ses |-> s, exp |-> now + RefreshLife, used |-> FALSE, next |-> 0, from |-> 0]
           \in TokenRow
    BY <1>1, <2>1, ConstantsAssumption DEF TokenRow
  <2> QED BY <1>1, <2>2, <2>3 DEF OpenSession, TypeInv, TypeOK
<1>6. TypeOK'
  <2>1. s \in 0..MaxSessions /\ t \in 0..MaxTokens
    BY <1>1, ConstantsAssumption DEF TokIds
  <2>2. sesRows' \subseteq SesIds /\ tokRows' \subseteq TokIds /\ blackRows' \subseteq TokIds
    BY <1>1 DEF OpenSession, TypeInv, TypeOK
  <2> QED BY <1>4, <1>5, <2>1, <2>2 DEF OpenSession, TypeInv, TypeOK
<1>7. Allocated'
  <2>1. /\ 1..lastSes \subseteq SesIds /\ 1..lastTok \subseteq TokIds
        /\ s \notin 1..lastSes /\ t \notin 1..lastTok
        /\ 1..s = 1..lastSes \cup {s} /\ 1..t = 1..lastTok \cup {t}
    BY ConstantsAssumption DEF TypeInv, TypeOK, SesIds, TokIds
  <2>2. /\ ses'[s].owner = req[r].user /\ tok'[t].ses = s
        /\ \A z \in 1..lastSes : ses'[z] = ses[z]
        /\ \A z \in 1..lastTok : tok'[z] = tok[z]
    BY <1>1, <2>1 DEF OpenSession, TypeInv, TypeOK
  <2>3. sesRows' \subseteq 1..s /\ tokRows' \subseteq 1..t
    BY <2>1 DEF OpenSession, TypeInv, Allocated
  <2> QED BY <2>1, <2>2, <2>3 DEF OpenSession, TypeInv, Allocated
<1>8. Control'
  <2>1. 1..lastSes \subseteq 1..lastSes' /\ 1..lastTok \subseteq 1..lastTok'
    BY DEF OpenSession, TypeInv, TypeOK
  <2>2. \A q \in Workers : ControlOf(req[q])'
    BY <1>2, <1>4, <2>1 DEF TypeInv, Control, ControlOf, Resting, RefreshPcs
  <2> QED BY <2>2 DEF Control
<1>9. PasswordLock'
  BY <1>2, <1>4 DEF TypeInv, PasswordLock, HoldsUser
<1> QED BY <1>6, <1>7, <1>8, <1>9 DEF TypeInv

LEMMA LoginStoreTypeInv ==
    ASSUME TypeInv, NEW r \in Workers, LoginStore(r)
    PROVE  TypeInv'
<1>1. req[r].user \in Users /\ UNCHANGED <<now, active, pw>>
  BY DEF TypeInv, Control, ControlOf, LoginStore, At, Resting
<1>2. CASE NoRoom(r, lastSes + 1, lastTok + 1)
  BY <1>1, <1>2, FailStep DEF NoRoom
<1>3. CASE OpenSession(r, lastSes + 1, lastTok + 1)
  BY <1>1, <1>3, OpenSessionTypeInv
<1> QED BY <1>2, <1>3 DEF LoginStore

(* The record a finished request leaves behind. *)
LEMMA Settled ==
    ASSUME TypeInv, NEW r \in Workers, NEW p \in {"ok", "bare"}, Settle(r, p)
    PROVE  /\ req' \in [Workers -> Request] /\ req'[r].pc = p /\ req'[r].op = "none"
           /\ req'[r].ses = req[r].ses /\ req'[r].late = req[r].late
           /\ \A q \in Workers : q # r => req'[q] = req[q]
<1> DEFINE x == [Idle EXCEPT !.pc = p, !.ses = req[r].ses, !.late = req[r].late]
<1>1. /\ x \in Request /\ x.pc = p /\ x.op = "none"
      /\ x.ses = req[r].ses /\ x.late = req[r].late
  BY IdleType DEF Request, Pcs, Resting, TypeInv, TypeOK
<1>2. Become(r, x)
  BY DEF Settle
<1> HIDE DEF x
<1> QED BY <1>1, <1>2, Moved DEF TypeInv, TypeOK

LEMMA StoreSuccessorTypeInv ==
    ASSUME TypeInv, NEW r \in Workers, NEW new, new = lastTok + 1,
           StoreSuccessor(r, new), UNCHANGED <<now, active, pw>>
    PROVE  TypeInv'
<1>1. /\ req' \in [Workers -> Request] /\ req'[r].pc = "ok" /\ req'[r].op = "none"
      /\ \A q \in Workers : q # r => req'[q] = req[q]
  BY Settled DEF StoreSuccessor
<1>2. /\ new \in TokIds /\ new \in 0..MaxTokens /\ req[r] \in Request
      /\ req[r].ses \in sesRows /\ req[r].ses \in 1..lastSes /\ req[r].ses \in SesIds
  <2>1. new \in TokIds /\ new \in 0..MaxTokens
    <3>1. new <= MaxTokens
      BY DEF StoreSuccessor
    <3> QED BY <3>1, ConstantsAssumption DEF TypeInv, TypeOK, TokIds
  <2>2. req[r] \in Request /\ req[r].ses \in sesRows
    BY DEF StoreSuccessor, TypeInv, TypeOK
  <2> QED BY <2>1, <2>2 DEF TypeInv, TypeOK, Allocated
<1>3. now + RefreshLife \in Times /\ now + AccessLife \in Times
  BY ConstantsAssumption DEF TypeInv, TypeOK, Times
<1>4. \A t \in TokIds : /\ tok'[t] \in TokenRow
                        /\ tok'[t].ses = IF t = new THEN req[r].ses ELSE tok[t].ses
  <2> TAKE t \in TokIds
  <2>1. tok[t] \in TokenRow
    BY DEF TypeInv, TypeOK
  <2>2. CASE t = new
    <3>1. tok'[t] = [ses |-> req[r].ses, exp |-> now + RefreshLife, used |-> FALSE,
                     next |-> 0, from |-> req[r].tok]
      BY <2>2 DEF StoreSuccessor
    <3> QED BY <1>2, <1>3, <2>2, <3>1, ConstantsAssumption DEF TokenRow, Request
  <2>3. CASE t # new /\ t \in req[r].wTok
    <3>1. tok'[t] = [tok[t] EXCEPT !.used = TRUE, !.next = new]
      BY <2>3 DEF StoreSuccessor
    <3> QED BY <1>2, <2>1, <2>3, <3>1 DEF TokenRow
  <2>4. CASE t # new /\ t \notin req[r].wTok
    BY <2>1, <2>4 DEF StoreSuccessor
  <2> QED BY <2>2, <2>3, <2>4
<1>5. tok' \in [TokIds -> TokenRow]
  BY <1>4 DEF StoreSuccessor
<1>6. /\ ses' \in [SesIds -> SessionRow]
      /\ \A z \in SesIds : ses'[z].owner = ses[z].owner
  BY <1>2, <1>3, ZenonT(60) DEF StoreSuccessor, TypeInv, TypeOK, SessionRow
<1>7. TypeOK'
  BY <1>1, <1>2, <1>5, <1>6 DEF StoreSuccessor, TypeInv, TypeOK
<1>8. Allocated'
  <2>1. 1..lastSes \subseteq SesIds /\ 1..new \subseteq TokIds
    BY <1>2, ConstantsAssumption DEF TypeInv, TypeOK, SesIds, TokIds
  <2>2. tokRows' \subseteq 1..new
    <3>1. 1..new = 1..lastTok \cup {new}
      BY ConstantsAssumption DEF TypeInv, TypeOK
    <3> QED BY <3>1 DEF StoreSuccessor, TypeInv, Allocated
  <2>3. \A t \in 1..new : t # new => t \in 1..lastTok
    BY DEF TypeInv, TypeOK
  <2>4. \A t \in 1..new : tok'[t].ses \in 1..lastSes
    BY <1>2, <1>4, <2>1, <2>3 DEF TypeInv, Allocated
  <2> QED BY <1>6, <2>1, <2>2, <2>4 DEF StoreSuccessor, TypeInv, Allocated
<1>9. Control'
  <2>1. 1..lastTok \subseteq 1..new
    BY DEF TypeInv, TypeOK
  <2> QED BY <1>1, <2>1 DEF StoreSuccessor, TypeInv, Control, ControlOf, Resting, RefreshPcs
<1>10. PasswordLock'
  BY <1>1 DEF TypeInv, PasswordLock, HoldsUser
<1> QED BY <1>7, <1>8, <1>9, <1>10 DEF TypeInv

LEMMA RefreshStoreTypeInv ==
    ASSUME TypeInv, NEW r \in Workers, RefreshStore(r)
    PROVE  TypeInv'
<1>1. UNCHANGED <<now, active, pw>>
  BY DEF RefreshStore
<1>2. CASE StoreRefused(r, lastTok + 1)
  BY <1>1, <1>2, FailStep DEF StoreRefused
<1>3. CASE StoreSuccessor(r, lastTok + 1)
  BY <1>1, <1>3, StoreSuccessorTypeInv
<1>4. CASE StoreNothing(r)
  <2>1. /\ req' \in [Workers -> Request] /\ req'[r].pc = "bare" /\ req'[r].op = "none"
        /\ \A q \in Workers : q # r => req'[q] = req[q]
    BY <1>4, Settled DEF StoreNothing
  <2>2. now + AccessLife \in Times
    BY ConstantsAssumption DEF TypeInv, TypeOK, Times
  <2>3. TypeOK'
    BY <1>1, <1>4, <2>1, <2>2 DEF StoreNothing, TypeInv, TypeOK
  <2>4. Allocated'
    BY <1>1, <1>4 DEF StoreNothing, TypeInv, Allocated
  <2>5. Control'
    BY <1>4, <2>1 DEF StoreNothing, TypeInv, Control, ControlOf, Resting, RefreshPcs
  <2>6. PasswordLock'
    BY <1>1, <2>1 DEF TypeInv, PasswordLock, HoldsUser
  <2> QED BY <2>3, <2>4, <2>5, <2>6 DEF TypeInv
<1> QED BY <1>2, <1>3, <1>4 DEF RefreshStore

LEMMA CommitTypeInv ==
    ASSUME TypeInv, NEW r \in Workers, Commit(r)
    PROVE  TypeInv'
<1>1. /\ req' \in [Workers -> Request] /\ req'[r].pc = "ok" /\ req'[r].op = "none"
      /\ \A q \in Workers : q # r => req'[q] = req[q]
  BY Settled DEF Commit
<1>2. /\ \A t \in TokIds : tok'[t] \in TokenRow /\ tok'[t].ses = tok[t].ses
      /\ tok' \in [TokIds -> TokenRow]
  <2>1. \A t \in TokIds : tok[t] \in TokenRow
    BY DEF TypeInv, TypeOK
  <2>2. \A t \in TokIds : (tok[t].used \/ t \in req[r].wTok) \in BOOLEAN
    OBVIOUS
  <2> QED BY <2>1, <2>2 DEF Commit, TokenRow
<1>3. /\ \A s \in SesIds : ses'[s] \in SessionRow /\ ses'[s].owner = ses[s].owner
      /\ ses' \in [SesIds -> SessionRow]
  <2>1. \A s \in SesIds : ses[s] \in SessionRow
    BY DEF TypeInv, TypeOK
  <2>2. now \in Times
    BY ConstantsAssumption DEF TypeInv, TypeOK, Times
  <2> QED BY <2>1, <2>2 DEF Commit, SessionRow
<1>4. pw' \in [Users -> 0..MaxPw]
  <2>1. CASE req[r].op = "changePassword"
    <3>1. HoldsUser(req[r])
      BY <2>1 DEF Commit, At, HoldsUser
    <3>2. pw[req[r].user] < MaxPw
      BY <3>1 DEF TypeInv, PasswordLock
    <3>3. req[r].user \in Users
      BY DEF Commit, At, TypeInv, Control, ControlOf, Resting
    <3>4. pw[req[r].user] + 1 \in 0..MaxPw
      BY <3>2, <3>3, ConstantsAssumption DEF TypeInv, TypeOK
    <3> QED BY <2>1, <3>4 DEF Commit, TypeInv, TypeOK
  <2>2. CASE req[r].op # "changePassword"
    BY <2>2 DEF Commit, TypeInv, TypeOK
  <2> QED BY <2>1, <2>2
<1>5. blackRows' \subseteq TokIds
  BY DEF Commit, TypeInv, TypeOK, Request
<1>6. TypeOK'
  BY <1>1, <1>2, <1>3, <1>4, <1>5 DEF Commit, TypeInv, TypeOK
<1>7. Allocated'
  <2>1. 1..lastSes \subseteq SesIds /\ 1..lastTok \subseteq TokIds
    BY ConstantsAssumption DEF TypeInv, TypeOK, SesIds, TokIds
  <2> QED BY <1>2, <1>3, <2>1 DEF Commit, TypeInv, Allocated
<1>8. Control'
  BY <1>1 DEF Commit, TypeInv, Control, ControlOf, Resting, RefreshPcs
<1>9. PasswordLock'
  <2>1. \A q \in Workers : HoldsUser(req'[q]) => q # r /\ HoldsUser(req[q]) /\ req'[q] = req[q]
    BY <1>1 DEF HoldsUser
  <2>2. \A q \in Workers : HoldsUser(req'[q]) => pw'[req'[q].user] = pw[req[q].user]
    <3> SUFFICES ASSUME NEW q \in Workers, HoldsUser(req'[q])
                 PROVE  pw'[req'[q].user] = pw[req[q].user]
      OBVIOUS
    <3>1. q # r /\ HoldsUser(req[q]) /\ req'[q] = req[q]
      BY <2>1
    <3>2. CASE req[r].op = "changePassword"
      <4>1. HoldsUser(req[r])
        BY <3>2 DEF Commit, At, HoldsUser
      <4>2. req[q].user # req[r].user
        BY <3>1, <4>1 DEF TypeInv, PasswordLock
      <4>3. req[q].user \in Users
        BY <3>1 DEF TypeInv, Control, ControlOf, HoldsUser, Resting
      <4> QED BY <3>1, <3>2, <4>2, <4>3 DEF Commit, TypeInv, TypeOK
    <3>3. CASE req[r].op # "changePassword"
      BY <3>1, <3>3 DEF Commit
    <3> QED BY <3>2, <3>3
  <2> QED BY <2>1, <2>2 DEF TypeInv, PasswordLock, HoldsUser
<1> QED BY <1>6, <1>7, <1>8, <1>9 DEF TypeInv

LEMMA EnvironmentTypeInv ==
    ASSUME TypeInv, Environment
    PROVE  TypeInv'
<1>1. CASE \E u \in Users : SetActive(u)
  BY <1>1 DEF SetActive, tables, TypeInv, TypeOK, Allocated, Control, ControlOf, PasswordLock
<1>2. CASE CleanupTokens
  BY <1>2 DEF CleanupTokens, TypeInv, TypeOK, Allocated, Control, ControlOf, PasswordLock
<1>3. CASE CleanupBlacklist
  BY <1>3 DEF CleanupBlacklist, TypeInv, TypeOK, Allocated, Control, ControlOf, PasswordLock
<1>4. CASE CleanupSessions
  <2>1. sesRows' \subseteq sesRows /\ tokRows' \subseteq tokRows
    BY <1>4 DEF CleanupSessions
  <2>2. UNCHANGED <<now, active, pw, ses, tok, blackRows, lastSes, lastTok, bareUntil, req>>
    BY <1>4 DEF CleanupSessions
  <2> QED BY <2>1, <2>2 DEF TypeInv, TypeOK, Allocated, Control, ControlOf, PasswordLock
<1>5. CASE Tick
  BY <1>5, ConstantsAssumption DEF Tick, tables, TypeInv, TypeOK, Allocated, Control, ControlOf, PasswordLock
<1> QED BY <1>1, <1>2, <1>3, <1>4, <1>5 DEF Environment

LEMMA NextTypeInv == TypeInv /\ [Next]_vars => TypeInv'
<1> SUFFICES ASSUME TypeInv, [Next]_vars PROVE TypeInv'
  OBVIOUS
<1>1. CASE Environment
  BY <1>1, EnvironmentTypeInv
<1>2. ASSUME NEW r \in Workers, Arrive(r) PROVE TypeInv'
  BY <1>2, Arrivals
<1>3. ASSUME NEW r \in Workers, Step(r) PROVE TypeInv'
  BY <1>3, LoginStoreTypeInv, RefreshReads, RefreshMoves, RefreshStoreTypeInv, HandlerReads,
     HandlerWrites, CommitTypeInv DEF Step
<1>4. ASSUME NEW r \in Workers, Crash(r) PROVE TypeInv'
  BY <1>4, FailStep DEF Crash
<1>5. CASE UNCHANGED vars
  BY <1>5 DEF vars, tables, TypeInv, TypeOK, Allocated, Control, ControlOf, PasswordLock
<1> QED BY <1>1, <1>2, <1>3, <1>4, <1>5 DEF Next

(* Every reachable state is well typed: in particular the identifiers, the *)
(* clock and the password versions stay within their tables' ranges.       *)
THEOREM TypeCorrect == Spec => []TypeOK
<1>1. TypeInv => TypeOK
  BY DEF TypeInv
<1> QED BY <1>1, InitTypeInv, NextTypeInv, PTL DEF Spec

-----------------------------------------------------------------------------
(* What no step undoes: rows keep their owner and their session, deadlines *)
(* do not move, a deleted row does not return and NULL columns that were   *)
(* set stay set.                                                           *)
Monotone ==
    /\ now <= now'
    /\ \A s \in 1..lastSes :
          /\ s \in sesRows' => s \in sesRows
          /\ ses'[s].absExp = ses[s].absExp /\ ses'[s].owner = ses[s].owner
          /\ ses[s].revokedAt # 0 => ses'[s].revokedAt # 0
    /\ \A t \in 1..lastTok :
          /\ tok'[t].ses = tok[t].ses
          /\ tok[t].used => tok'[t].used
    /\ lastSes <= lastSes' /\ lastTok <= lastTok'

LEMMA QuietMonotone ==
    ASSUME TypeInv, UNCHANGED <<now, tables>>
    PROVE  Monotone
BY DEF Monotone, tables, TypeInv, TypeOK

(* Only the two stores and the commit of a request write tables. *)
LEMMA QuietSteps ==
    ASSUME TypeInv, NEW r \in Workers, Step(r) \/ Arrive(r) \/ Crash(r),
           ~LoginStore(r), ~RefreshStore(r), ~Commit(r)
    PROVE  UNCHANGED <<now, tables>>
<1>1. CASE Arrive(r) \/ Crash(r)
  BY <1>1 DEF Arrive, Crash, BeginLogin, BeginAuthBare, BeginRefresh, BeginAuth
<1>2. CASE Step(r)
  BY <1>2 DEF Step, RefreshCheck, RefreshReplay, RefreshRevoke, RefreshReplayed, RefreshSession,
     RefreshUser, RefreshRotate, RefreshMark, AuthSession, AuthUser, LogoutLoad, LogoutRevoke,
     LogoutSession, LogoutAllList, LogoutAllTokens, LogoutAllSessions, TerminateAll,
     PasswordUpdate, PasswordSessions, TerminateLoad, FlushRevoke, BulkRevoke
<1> QED BY <1>1, <1>2

LEMMA LoginStoreMonotone ==
    ASSUME TypeInv, NEW r \in Workers, LoginStore(r)
    PROVE  Monotone
<1>1. now' = now
  BY DEF LoginStore
<1>2. CASE NoRoom(r, lastSes + 1, lastTok + 1)
  BY <1>1, <1>2, QuietMonotone DEF NoRoom
<1>3. CASE OpenSession(r, lastSes + 1, lastTok + 1)
  <2>1. /\ now \in Nat /\ lastSes \in Nat /\ lastTok \in Nat
        /\ lastSes + 1 \notin 1..lastSes /\ lastTok + 1 \notin 1..lastTok
        /\ 1..lastSes \subseteq SesIds /\ 1..lastTok \subseteq TokIds
    BY ConstantsAssumption DEF TypeInv, TypeOK, SesIds, TokIds
  <2>2. /\ \A s \in 1..lastSes : ses'[s] = ses[s] /\ (s \in sesRows' => s \in sesRows)
        /\ \A t \in 1..lastTok : tok'[t] = tok[t]
    BY <1>3, <2>1 DEF OpenSession, TypeInv, TypeOK
  <2>3. lastSes' = lastSes + 1 /\ lastTok' = lastTok + 1
    BY <1>3 DEF OpenSession
  <2> QED BY <1>1, <2>1, <2>2, <2>3 DEF Monotone
<1> QED BY <1>2, <1>3 DEF LoginStore

LEMMA RefreshStoreMonotone ==
    ASSUME TypeInv, NEW r \in Workers, RefreshStore(r)
    PROVE  Monotone
<1>1. now' = now /\ now \in Nat /\ lastSes \in Nat /\ lastTok \in Nat
  BY ConstantsAssumption DEF RefreshStore, TypeInv, TypeOK
<1>2. CASE StoreRefused(r, lastTok + 1)
  BY <1>1, <1>2, QuietMonotone DEF StoreRefused
<1>3. CASE StoreNothing(r)
  BY <1>1, <1>3 DEF StoreNothing, Monotone
<1>4. CASE StoreSuccessor(r, lastTok + 1)
  <2>1. 1..lastSes \subseteq SesIds /\ 1..lastTok \subseteq TokIds /\ lastTok + 1 \notin 1..lastTok
    BY ConstantsAssumption DEF TypeInv, TypeOK, SesIds, TokIds
  <2>2. \A t \in 1..lastTok : tok'[t].ses = tok[t].ses /\ (tok[t].used => tok'[t].used)
    <3> TAKE t \in 1..lastTok
    <3>1. tok'[t] = IF t \in req[r].wTok
                      THEN [tok[t] EXCEPT !.used = TRUE, !.next = lastTok + 1] ELSE tok[t]
      BY <1>4, <2>1 DEF StoreSuccessor
    <3>2. tok[t] \in TokenRow
      BY <2>1 DEF TypeInv, TypeOK
    <3> QED BY <3>1, <3>2 DEF TokenRow
  <2>3. \A s \in 1..lastSes : /\ ses'[s].absExp = ses[s].absExp /\ ses'[s].owner = ses[s].owner
                              /\ ses'[s].revokedAt = ses[s].revokedAt
    BY <1>4, <2>1 DEF StoreSuccessor, TypeInv, TypeOK, SessionRow
  <2>4. sesRows' = sesRows /\ lastSes' = lastSes /\ lastTok' = lastTok + 1
    BY <1>4 DEF StoreSuccessor
  <2> QED BY <1>1, <2>2, <2>3, <2>4 DEF Monotone
<1> QED BY <1>2, <1>3, <1>4 DEF RefreshStore

LEMMA CommitMonotone ==
    ASSUME TypeInv, NEW r \in Workers, Commit(r)
    PROVE  Monotone
<1>1. /\ UNCHANGED <<now, sesRows, lastSes, lastTok>>
      /\ now \in Nat /\ now # 0 /\ lastSes \in Nat /\ lastTok \in Nat
  BY ConstantsAssumption DEF Commit, TypeInv, TypeOK
<1>2. 1..lastSes \subseteq SesIds /\ 1..lastTok \subseteq TokIds
  BY ConstantsAssumption DEF TypeInv, TypeOK, SesIds, TokIds
<1>3. \A s \in 1..lastSes : /\ ses'[s].absExp = ses[s].absExp /\ ses'[s].owner = ses[s].owner
                            /\ ses[s].revokedAt # 0 => ses'[s].revokedAt # 0
  BY <1>1, <1>2 DEF Commit, TypeInv, TypeOK, SessionRow
<1>4. \A t \in 1..lastTok : tok'[t].ses = tok[t].ses /\ (tok[t].used => tok'[t].used)
  <2> TAKE t \in 1..lastTok
  <2>1. tok'[t] = [tok[t] EXCEPT !.used = @ \/ t \in req[r].wTok]
    BY <1>2 DEF Commit
  <2>2. tok[t] \in TokenRow
    BY <1>2 DEF TypeInv, TypeOK
  <2> QED BY <2>1, <2>2 DEF TokenRow
<1> QED BY <1>1, <1>3, <1>4 DEF Monotone

LEMMA NextMonotone ==
    ASSUME TypeInv, [Next]_vars
    PROVE  Monotone
<1>1. CASE Environment
  <2>1. now \in Nat /\ lastSes \in Nat /\ lastTok \in Nat
    BY ConstantsAssumption DEF TypeInv, TypeOK
  <2> QED
    BY <1>1, <2>1 DEF Environment, SetActive, CleanupTokens, CleanupBlacklist, CleanupSessions,
       Tick, tables, Monotone
<1>2. ASSUME NEW r \in Workers, Arrive(r) \/ Step(r) \/ Crash(r)
      PROVE  Monotone
  BY <1>2, QuietSteps, QuietMonotone, LoginStoreMonotone, RefreshStoreMonotone, CommitMonotone
<1>3. CASE UNCHANGED vars
  BY <1>3, QuietMonotone DEF vars
<1> QED BY <1>1, <1>2, <1>3 DEF Next

LEMMA MonotoneCloses ==
    ASSUME TypeInv, TypeInv', Monotone, NEW s \in 1..lastSes, ~Open(s)
    PROVE  ~Open(s)'
<1>1. s \in SesIds /\ ses[s].absExp \in Int /\ now \in Int
  BY ConstantsAssumption DEF TypeInv, TypeOK, SesIds, SessionRow, Times
<1>2. now' \in Int /\ now <= now'
  BY ConstantsAssumption DEF TypeInv, TypeOK, Monotone
<1>3. /\ s \in sesRows' => s \in sesRows
      /\ ses'[s].absExp = ses[s].absExp
      /\ ses[s].revokedAt # 0 => ses'[s].revokedAt # 0
  BY DEF Monotone
<1> QED BY <1>1, <1>2, <1>3 DEF Open

(* RevocationIsFinal: a session that is revoked, expired or purged never   *)
(* opens again and a used refresh token never becomes unused, whatever the *)
(* requests in flight read before.                                         *)
THEOREM RevocationFinal == Spec => RevocationIsFinal
<1> DEFINE A == /\ \A s \in 1..lastSes : ~Open(s) => ~Open(s)'
                /\ \A t \in 1..lastTok : tok[t].used => tok'[t].used
<1>1. TypeInv /\ [Next]_vars => A
  BY NextTypeInv, NextMonotone, MonotoneCloses DEF Monotone
<1>2. TypeInv /\ [Next]_vars => [A]_vars
  BY <1>1
<1> QED BY <1>2, InitTypeInv, NextTypeInv, PTL DEF Spec, RevocationIsFinal

-----------------------------------------------------------------------------
(* NoLateGrant is not inductive: what it needs is where a request whose    *)
(* credentials were already dead when it arrived can still be.             *)
LateOf(x) ==
    /\ x.pc \in {"rfCheck", "rfReplay", "rfRevoke", "rfReplayed", "rfSession"} => x.ses = 0
    /\ x.late =>
          /\ x.pc \notin Acting \cup {"ok", "liStore", "auUser"}
          /\ x.pc = "rfCheck" => tok[x.tok].used \/ ~Open(tok[x.tok].ses)
          /\ x.pc \in {"rfReplay", "rfRevoke", "rfReplayed", "rfSession"} =>
                ~Open(tok[x.tok].ses)
          /\ x.pc \in {"rfUser", "rfRotate", "rfMark", "rfStore"} => x.ses = 0
          /\ x.pc = "auSession" => ~Open(x.ses)
LateInv == \A r \in Workers : LateOf(req[r])

(* A request's situation does not improve while others run. *)
LEMMA LateStable ==
    ASSUME TypeInv, TypeInv', Monotone, NEW x \in Request, ControlOf(x), LateOf(x)
    PROVE  LateOf(x)'
<1>1. x.pc \in RefreshPcs => /\ x.tok \in 1..lastTok /\ tok[x.tok].ses \in 1..lastSes
                             /\ tok'[x.tok].ses = tok[x.tok].ses
                             /\ tok[x.tok].used => tok'[x.tok].used
                             /\ ~Open(tok[x.tok].ses) => ~Open(tok[x.tok].ses)'
  <2> SUFFICES ASSUME x.pc \in RefreshPcs
               PROVE  /\ x.tok \in 1..lastTok /\ tok[x.tok].ses \in 1..lastSes
                      /\ tok'[x.tok].ses = tok[x.tok].ses
                      /\ tok[x.tok].used => tok'[x.tok].used
                      /\ ~Open(tok[x.tok].ses) => ~Open(tok[x.tok].ses)'
    OBVIOUS
  <2>1. x.tok \in 1..lastTok /\ tok[x.tok].ses \in 1..lastSes
    BY DEF ControlOf, TypeInv, Allocated
  <2>2. /\ tok'[x.tok].ses = tok[x.tok].ses
        /\ tok[x.tok].used => tok'[x.tok].used
    BY <2>1 DEF Monotone
  <2> DEFINE s == tok[x.tok].ses
  <2>3. ASSUME ~Open(s) PROVE ~Open(s)'
    <3>1. PICK z \in 1..lastSes : z = s
      BY <2>1
    <3>2. ~Open(z)
      BY <2>3, <3>1
    <3>3. ~Open(z)'
      BY <3>2, MonotoneCloses
    <3> QED BY <2>2, <3>1, <3>3 DEF Open
  <2> QED BY <2>1, <2>2, <2>3
<1>2. x.pc = "auSession" => (~Open(x.ses) => ~Open(x.ses)')
  BY MonotoneCloses DEF ControlOf
<1> QED BY <1>1, <1>2 DEF LateOf, RefreshPcs

(* So only the request that moves has to be looked at. *)
LEMMA LateFrame ==
    ASSUME TypeInv, TypeInv', Monotone, LateInv, NEW r \in Workers,
           \A q \in Workers : q # r => req'[q] = req[q],
           LateOf(req[r])'
    PROVE  LateInv'
<1>1. ASSUME NEW q \in Workers, q # r PROVE LateOf(req[q])'
  <2>1. req'[q] = req[q]
    BY <1>1
  <2>2. PICK x \in Request : x = req[q]
    BY DEF TypeInv, TypeOK
  <2>3. LateOf(x)'
    BY <2>2, LateStable DEF TypeInv, Control, LateInv
  <2> QED BY <2>1, <2>2, <2>3 DEF LateOf
<1> QED BY <1>1 DEF LateInv

(* The record of the worker after each kind of step. *)
LEMMA GotoFields ==
    ASSUME TypeInv, NEW r \in Workers, NEW p \in Pcs, Goto(r, p)
    PROVE  /\ req'[r].pc = p /\ req'[r].ses = req[r].ses /\ req'[r].tok = req[r].tok
           /\ req'[r].late = req[r].late
           /\ \A q \in Workers : q # r => req'[q] = req[q]
BY DEF Goto, Become, TypeInv, TypeOK, Request

LEMMA FailFields ==
    ASSUME TypeInv, NEW r \in Workers, Fail(r)
    PROVE  /\ req'[r].pc = "idle" /\ req'[r].late = FALSE
           /\ \A q \in Workers : q # r => req'[q] = req[q]
BY DEF Fail, Become, Idle, TypeInv, TypeOK

LEMMA FailLate ==
    ASSUME TypeInv, TypeInv', Monotone, LateInv, NEW r \in Workers, Fail(r)
    PROVE  LateInv'
<1>1. LateOf(req[r])'
  BY FailFields DEF LateOf
<1> QED BY <1>1, FailFields, LateFrame

LEMMA ArriveLate ==
    ASSUME TypeInv, TypeInv', Monotone, LateInv, NEW r \in Workers, Arrive(r)
    PROVE  LateInv'
<1>1. /\ \A q \in Workers : q # r => req'[q] = req[q]
      /\ UNCHANGED <<now, tables>>
  <2>1. \E x : Become(r, x)
    BY DEF Arrive, BeginLogin, BeginAuthBare, BeginRefresh, BeginAuth
  <2>2. \A q \in Workers : q # r => req'[q] = req[q]
    BY <2>1 DEF Become, TypeInv, TypeOK
  <2>3. UNCHANGED <<now, tables>>
    BY DEF Arrive, BeginLogin, BeginAuthBare, BeginRefresh, BeginAuth
  <2> QED BY <2>2, <2>3
<1>2. CASE \E u \in Users : BeginLogin(r, u) \/ BeginAuthBare(r, u)
  <2>1. req'[r].late = FALSE /\ req'[r].pc \in {"liStore", "auUser"}
    <3>1. PICK u \in Users : BeginLogin(r, u) \/ BeginAuthBare(r, u)
      BY <1>2
    <3>2. CASE BeginLogin(r, u)
      BY <3>2 DEF BeginLogin, Become, Idle, TypeInv, TypeOK
    <3>3. CASE BeginAuthBare(r, u)
      BY <3>3 DEF BeginAuthBare, Become, Idle, TypeInv, TypeOK
    <3> QED BY <3>1, <3>2, <3>3
  <2>2. LateOf(req[r])'
    BY <2>1 DEF LateOf
  <2> QED BY <1>1, <2>2, LateFrame
<1>3. CASE \E t \in TokIds : BeginRefresh(r, t)
  <2>1. PICK t \in TokIds : BeginRefresh(r, t)
    BY <1>3
  <2>2. /\ req'[r].pc = "rfCheck" /\ req'[r].tok = t /\ req'[r].ses = 0
        /\ req'[r].late => tok[t].used \/ ~Open(tok[t].ses)
    BY <2>1 DEF BeginRefresh, Become, Idle, TypeInv, TypeOK
  <2>3. LateOf(req[r])'
    BY <1>1, <2>2 DEF LateOf, Open, tables, Acting
  <2> QED BY <1>1, <2>3, LateFrame
<1>4. CASE \E op \in AccessOps, s \in SesIds, t \in 0..MaxTokens, d \in 0..MaxSessions :
              BeginAuth(r, op, s, t, d)
  <2>1. PICK op \in AccessOps, s \in SesIds, t \in 0..MaxTokens, d \in 0..MaxSessions :
           BeginAuth(r, op, s, t, d)
    BY <1>4
  <2>2. /\ req'[r].pc = "auSession" /\ req'[r].ses = s
        /\ req'[r].late => ~Open(s)
    BY <2>1 DEF BeginAuth, Become, Idle, TypeInv, TypeOK
  <2>3. LateOf(req[r])'
    BY <1>1, <2>2 DEF LateOf, Open, tables, Acting
  <2> QED BY <1>1, <2>3, LateFrame
<1> QED BY <1>2, <1>3, <1>4 DEF Arrive

(* The checks of refresh_tokens stop a late request one after the other.   *)
LEMMA RefreshLate ==
    ASSUME TypeInv, TypeInv', Monotone, LateInv, NEW r \in Workers,
           \/ RefreshCheck(r) \/ RefreshReplay(r) \/ RefreshRevoke(r) \/ RefreshReplayed(r)
           \/ RefreshSession(r) \/ RefreshUser(r) \/ RefreshRotate(r) \/ RefreshMark(r)
    PROVE  LateInv'
<1>1. LateOf(req[r]) /\ req[r] \in Request
  BY DEF LateInv, TypeInv, TypeOK
<1>2. CASE Fail(r)
  BY <1>2, FailLate
<1>3. UNCHANGED <<now, tables>>
  BY DEF RefreshCheck, RefreshReplay, RefreshRevoke, RefreshReplayed, RefreshSession,
         RefreshUser, RefreshRotate, RefreshMark
<1>4. ASSUME /\ req'[r].pc \in RefreshPcs /\ req'[r].tok = req[r].tok
             /\ req'[r].late = req[r].late
             /\ \A q \in Workers : q # r => req'[q] = req[q],
             \/ /\ req[r].pc = "rfCheck" /\ req'[r].pc = "rfReplay" /\ ~tok[req[r].tok].used
                /\ req'[r].ses = req[r].ses
             \/ /\ req[r].pc \in {"rfReplay", "rfRevoke"} /\ req'[r].ses = req[r].ses
                /\ req'[r].pc \in {"rfRevoke", "rfReplayed", "rfSession"}
             \/ /\ req[r].pc = "rfSession" /\ req'[r].pc = "rfUser"
                /\ req'[r].ses = req[r].ses \/ Open(tok[req[r].tok].ses)
             \/ /\ req[r].pc \in {"rfUser", "rfRotate", "rfMark"} /\ req'[r].ses = req[r].ses
                /\ req'[r].pc \in {"rfRotate", "rfMark", "rfStore"}
      PROVE  LateInv'
  <2>1. LateOf(req[r])'
    BY <1>1, <1>3, <1>4 DEF LateOf, Open, tables, Acting, RefreshPcs
  <2> QED BY <1>4, <2>1, LateFrame
<1>5. {"rfReplay", "rfRevoke", "rfReplayed", "rfSession", "rfUser", "rfRotate", "rfMark",
       "rfStore"} \subseteq Pcs \cap RefreshPcs
  BY DEF Pcs, Entering, RefreshPcs
<1>6. CASE RefreshCheck(r)
  BY <1>2, <1>4, <1>5, <1>6, GotoFields DEF RefreshCheck, At
<1>7. CASE RefreshReplay(r)
  <2>1. CASE Become(r, [req[r] EXCEPT !.pc = "rfRevoke", !.horizon = lastSes])
    <3>1. /\ req'[r].pc = "rfRevoke" /\ req'[r].ses = req[r].ses /\ req'[r].tok = req[r].tok
          /\ req'[r].late = req[r].late
          /\ \A q \in Workers : q # r => req'[q] = req[q]
      BY <1>1, <2>1 DEF Become, Request, TypeInv, TypeOK
    <3> QED BY <1>4, <1>5, <1>7, <3>1 DEF RefreshReplay, At
  <2>2. CASE Goto(r, "rfSession")
    BY <1>4, <1>5, <1>7, <2>2, GotoFields DEF RefreshReplay, At
  <2> QED BY <1>7, <2>1, <2>2 DEF RefreshReplay
<1>8. CASE RefreshRevoke(r)
  <2>1. /\ req'[r].pc = "rfReplayed" /\ req'[r].ses = req[r].ses /\ req'[r].tok = req[r].tok
        /\ req'[r].late = req[r].late
        /\ \A q \in Workers : q # r => req'[q] = req[q]
    BY <1>1, <1>8 DEF RefreshRevoke, Become, Request, TypeInv, TypeOK
  <2> QED BY <1>4, <1>5, <1>8, <2>1 DEF RefreshRevoke, At
<1>9. CASE RefreshReplayed(r)
  BY <1>2, <1>9 DEF RefreshReplayed
<1>10. CASE RefreshSession(r)
  <2> DEFINE s == tok[req[r].tok].ses
  <2>1. CASE Become(r, [req[r] EXCEPT !.pc = "rfUser", !.ses = s, !.oldUsed = tok[req[r].tok].used])
             /\ Open(s)
    <3>1. /\ req'[r].pc = "rfUser" /\ req'[r].tok = req[r].tok
          /\ req'[r].late = req[r].late
          /\ \A q \in Workers : q # r => req'[q] = req[q]
      BY <1>1, <2>1 DEF Become, Request, TypeInv, TypeOK
    <3> QED BY <1>4, <1>5, <1>10, <2>1, <3>1 DEF RefreshSession, At
  <2>2. CASE Goto(r, "rfUser")
    BY <1>4, <1>5, <1>10, <2>2, GotoFields DEF RefreshSession, At
  <2> QED BY <1>2, <1>10, <2>1, <2>2 DEF RefreshSession
<1>11. CASE RefreshUser(r)
  BY <1>2, <1>4, <1>5, <1>11, GotoFields DEF RefreshUser, At
<1>12. CASE RefreshRotate(r)
  BY <1>2, <1>4, <1>5, <1>12, GotoFields DEF RefreshRotate, At
<1>13. CASE RefreshMark(r)
  <2>1. CASE Become(r, [req[r] EXCEPT !.pc = "rfStore", !.wTok = {req[r].tok}])
    <3>1. /\ req'[r].pc = "rfStore" /\ req'[r].ses = req[r].ses /\ req'[r].tok = req[r].tok
          /\ req'[r].late = req[r].late
          /\ \A q \in Workers : q # r => req'[q] = req[q]
      BY <1>1, <2>1 DEF Become, Request, TypeInv, TypeOK
    <3> QED BY <1>4, <1>5, <1>13, <3>1 DEF RefreshMark, At
  <2> QED BY <1>2, <1>13, <2>1 DEF RefreshMark
<1> QED BY <1>6, <1>7, <1>8, <1>9, <1>10, <1>11, <1>12, <1>13

(* Nothing but the session check of get_current_user admits a request, and *)
(* what follows it is never late.                                          *)
LEMMA HandlerLate ==
    ASSUME TypeInv, TypeInv', Monotone, LateInv, NEW r \in Workers,
           \/ AuthSession(r) \/ AuthUser(r) \/ LogoutLoad(r) \/ LogoutRevoke(r)
           \/ LogoutSession(r) \/ LogoutAllList(r) \/ LogoutAllTokens(r)
           \/ LogoutAllSessions(r) \/ TerminateAll(r) \/ PasswordUpdate(r)
           \/ PasswordSessions(r) \/ TerminateLoad(r) \/ FlushRevoke(r)
    PROVE  LateInv'
<1>1. LateOf(req[r]) /\ req[r] \in Request /\ ControlOf(req[r])
  BY DEF LateInv, TypeInv, TypeOK, Control
<1>2. CASE Fail(r)
  BY <1>2, FailLate
<1>3. ASSUME /\ req'[r].pc \in Acting \cup {"auUser"} /\ req'[r].late = FALSE
             /\ \A q \in Workers : q # r => req'[q] = req[q]
      PROVE  LateInv'
  <2>1. LateOf(req[r])'
    BY <1>3 DEF LateOf, Acting
  <2> QED BY <1>3, <2>1, LateFrame
<1>4. CASE AuthSession(r)
  <2>1. CASE Goto(r, "auUser") /\ Open(req[r].ses)
    <3>1. req[r].late = FALSE
      BY <1>1, <1>4, <2>1 DEF LateOf, AuthSession, At, Request
    <3>2. "auUser" \in Pcs
      BY DEF Pcs, Entering
    <3> QED BY <1>3, <2>1, <3>1, <3>2, GotoFields
  <2> QED BY <1>2, <1>4, <2>1 DEF AuthSession
<1>5. CASE ~AuthSession(r) /\ ~Fail(r)
  <2>1. req[r].late = FALSE
    BY <1>1, <1>5 DEF LateOf, Request, AuthUser, LogoutLoad, LogoutRevoke, LogoutSession,
       LogoutAllList, LogoutAllTokens, LogoutAllSessions, TerminateAll, PasswordUpdate,
       PasswordSessions, TerminateLoad, FlushRevoke, At, Acting
  <2>2. ASSUME NEW p \in Acting, Goto(r, p)
        PROVE  LateInv'
    <3>1. p \in Pcs
      BY DEF Pcs
    <3> QED BY <1>3, <2>1, <2>2, <3>1, GotoFields
  <2>3. ASSUME NEW x, x.pc \in Acting, x.late = FALSE, Become(r, x)
        PROVE  LateInv'
    BY <1>3, <2>3 DEF Become, TypeInv, TypeOK
  <2>4. CASE AuthUser(r)
    <3>1. FirstStep[req[r].op] \in Acting
      BY <1>1, <2>4 DEF AuthUser, At, ControlOf, FirstStep, AccessOps, Acting
    <3> QED BY <1>5, <2>2, <2>4, <3>1 DEF AuthUser
  <2>5. CASE LogoutLoad(r) \/ LogoutSession(r) \/ PasswordUpdate(r) \/ TerminateLoad(r)
    <3>1. \E p \in Acting : Goto(r, p)
      BY <1>5, <2>5 DEF LogoutLoad, LogoutSession, PasswordUpdate, TerminateLoad, Acting
    <3> QED BY <2>2, <3>1
  <2>6. CASE LogoutRevoke(r)
    <3>1. ASSUME NEW T, NEW B, Become(r, [req[r] EXCEPT !.pc = "loSession", !.wTok = T, !.wBlk = B])
          PROVE  LateInv'
      <4> DEFINE x == [req[r] EXCEPT !.pc = "loSession", !.wTok = T, !.wBlk = B]
      <4>1. x.pc \in Acting /\ x.late = FALSE
        BY <1>1, <2>1 DEF Request, Acting
      <4> HIDE DEF x
      <4> QED BY <2>3, <3>1, <4>1 DEF x
    <3> QED BY <1>5, <2>6, <3>1 DEF LogoutRevoke
  <2>7. CASE LogoutAllList(r)
    <3> DEFINE x == [req[r] EXCEPT !.pc = "laTokens", !.horizon = lastSes]
    <3>1. x.pc \in Acting /\ x.late = FALSE /\ Become(r, x)
      BY <1>1, <2>1, <2>7 DEF LogoutAllList, Request, Acting
    <3> HIDE DEF x
    <3> QED BY <2>3, <3>1
  <2>8. CASE LogoutAllTokens(r)
    <3>1. PICK T : Become(r, [req[r] EXCEPT !.pc = "laSessions", !.wTok = T])
      BY <2>8 DEF LogoutAllTokens
    <3> DEFINE x == [req[r] EXCEPT !.pc = "laSessions", !.wTok = T]
    <3>2. x.pc \in Acting /\ x.late = FALSE
      BY <1>1, <2>1 DEF Request, Acting
    <3> HIDE DEF x
    <3> QED BY <2>3, <3>1, <3>2 DEF x
  <2>9. CASE LogoutAllSessions(r) \/ TerminateAll(r) \/ PasswordSessions(r) \/ FlushRevoke(r)
    <3>1. PICK S : Become(r, [req[r] EXCEPT !.pc = "commit", !.wSes = S])
      <4>1. ASSUME NEW keep, BulkRevoke(r, keep)
            PROVE  \E S : Become(r, [req[r] EXCEPT !.pc = "commit", !.wSes = S])
        BY <4>1 DEF BulkRevoke
      <4>2. CASE FlushRevoke(r)
        BY <1>5, <4>2 DEF FlushRevoke
      <4> QED BY <2>9, <4>1, <4>2 DEF LogoutAllSessions, TerminateAll, PasswordSessions
    <3> DEFINE x == [req[r] EXCEPT !.pc = "commit", !.wSes = S]
    <3>2. x.pc \in Acting /\ x.late = FALSE
      BY <1>1, <2>1 DEF Request, Acting
    <3> HIDE DEF x
    <3> QED BY <2>3, <3>1, <3>2 DEF x
  <2> QED BY <1>5, <2>4, <2>5, <2>6, <2>7, <2>8, <2>9
<1> QED BY <1>2, <1>4, <1>5

LEMMA GrantLate ==
    ASSUME TypeInv, TypeInv', Monotone, LateInv, NEW r \in Workers,
           LoginStore(r) \/ RefreshStore(r) \/ Commit(r)
    PROVE  LateInv'
<1>1. LateOf(req[r]) /\ req[r] \in Request
  BY DEF LateInv, TypeInv, TypeOK
<1>2. CASE Fail(r)
  BY <1>2, FailLate
<1>3. ASSUME /\ req'[r].pc \in {"ok", "bare"}
             /\ req'[r].pc = "ok" => ~req'[r].late
             /\ \A q \in Workers : q # r => req'[q] = req[q]
      PROVE  LateInv'
  <2>1. LateOf(req[r])'
    BY <1>3 DEF LateOf, Acting
  <2> QED BY <1>3, <2>1, LateFrame
<1>4. CASE LoginStore(r) /\ ~Fail(r)
  <2> DEFINE x == [Idle EXCEPT !.pc = "ok", !.ses = lastSes + 1]
  <2>1. Become(r, x)
    BY <1>4 DEF LoginStore, NoRoom, OpenSession
  <2>2. x.pc = "ok" /\ x.late = FALSE
    BY DEF Idle
  <2> HIDE DEF x
  <2>3. req'[r] = x /\ \A q \in Workers : q # r => req'[q] = req[q]
    BY <2>1 DEF Become, TypeInv, TypeOK
  <2> QED BY <1>3, <2>2, <2>3
<1>5. CASE RefreshStore(r) /\ ~Fail(r)
  <2>1. CASE StoreNothing(r)
    BY <1>3, <2>1, Settled DEF StoreNothing
  <2>2. CASE StoreSuccessor(r, lastTok + 1)
    <3>1. req[r].ses # 0
      <4>1. req[r].ses \in sesRows
        BY <2>2 DEF StoreSuccessor
      <4> QED BY <4>1 DEF TypeInv, Allocated
    <3>2. ~req[r].late
      BY <1>1, <1>5, <3>1 DEF LateOf, RefreshStore, At
    <3> QED BY <1>3, <2>2, <3>2, Settled DEF StoreSuccessor
  <2> QED BY <1>5, <2>1, <2>2 DEF RefreshStore, StoreRefused
<1>6. CASE Commit(r)
  <2>1. ~req[r].late
    BY <1>1, <1>6 DEF LateOf, Commit, At, Acting
  <2> QED BY <1>3, <1>6, <2>1, Settled DEF Commit
<1> QED BY <1>2, <1>4, <1>5, <1>6

LEMMA NextLate == TypeInv /\ LateInv /\ [Next]_vars => LateInv'
<1> SUFFICES ASSUME TypeInv, LateInv, [Next]_vars PROVE LateInv'
  OBVIOUS
<1>1. TypeInv' /\ Monotone
  BY NextTypeInv, NextMonotone
<1>2. CASE req' = req
  <2>1. ASSUME NEW r \in Workers PROVE LateOf(req[r])'
    <3>1. PICK x \in Request : x = req[r]
      BY DEF TypeInv, TypeOK
    <3>2. LateOf(x)'
      BY <1>1, <3>1, LateStable DEF TypeInv, Control, LateInv
    <3> QED BY <1>2, <3>1, <3>2 DEF LateOf
  <2> QED BY <2>1 DEF LateInv
<1>3. CASE Environment \/ UNCHANGED vars
  BY <1>2, <1>3 DEF Environment, SetActive, CleanupTokens, CleanupBlacklist, CleanupSessions,
     Tick, vars
<1>4. ASSUME NEW r \in Workers, Arrive(r) \/ Step(r) \/ Crash(r)
      PROVE  LateInv'
  BY <1>1, <1>4, ArriveLate, RefreshLate, HandlerLate, GrantLate, FailLate DEF Step, Crash
<1> QED BY <1>3, <1>4 DEF Next

(* NoLateGrant: whatever runs between the checks of a request and its      *)
(* commit, a request whose session was closed or whose refresh token was   *)
(* used when it arrived is granted nothing in the name of that session.    *)
THEOREM LateRequestsRefused == Spec => []NoLateGrant
<1>1. Init => LateInv
  BY DEF Init, LateInv, LateOf, Idle
<1>2. LateInv => NoLateGrant
  BY DEF LateInv, LateOf, NoLateGrant
<1> QED BY <1>1, <1>2, InitTypeInv, NextTypeInv, NextLate, PTL DEF Spec
=============================================================================
