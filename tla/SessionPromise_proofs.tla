------------------------ MODULE SessionPromise_proofs ------------------------
(***************************************************************************)
(* AuthSession implements SessionPromise, keeps its token tables           *)
(* consistent and closes what it was asked to close: for any number of     *)
(* users, concurrent requests, rows and ticks.                             *)
(*                                                                         *)
(* The facts of AuthSession_proofs (TypeInv, Monotone) are about tables    *)
(* and program counters.  Here they are joined by what a request has       *)
(* gathered on its way (WorkOf) and by how the rows of a rotation refer to *)
(* each other (Chained); and, where requests do not overlap, by what the   *)
(* only one has read (LoneWork).                                           *)
(***************************************************************************)
EXTENDS AuthSession_proofs, SessionsInTurn

(* The handler each program counter belongs to. *)
HandlerOp == [loLoad |-> "logout", loRevoke |-> "logout", loSession |-> "logout",
              loFlush |-> "logout", laList |-> "logoutAll", laTokens |-> "logoutAll",
              laSessions |-> "logoutAll", tmLoad |-> "terminate", tmFlush |-> "terminate",
              taSessions |-> "terminateAll", pwUpdate |-> "changePassword",
              pwSessions |-> "changePassword"]

BeforeSession == {"liStore", "rfCheck", "rfReplay", "rfRevoke", "rfReplayed", "rfSession"}
AfterSession  == {"rfUser", "rfRotate", "rfMark", "rfStore"}

(* The identifiers a request carries are those of rows inserted before. *)
Known(x) == x.tok \in 0..lastTok /\ x.target \in 0..lastSes /\ x.horizon \in 0..lastSes

(* Which session a request acts for. *)
ActsFor(x) ==
    /\ x.pc \in BeforeSession => x.ses = 0
    /\ x.pc \in AfterSession => x.ses = 0 \/ x.ses = tok[x.tok].ses
    /\ x.pc = "auUser" => x.ses # 0 \/ x.op = "access"
    /\ x.pc \in Acting => x.ses # 0 \/ (x.pc = "commit" /\ x.wSes = {})
    /\ x.pc \in {"auSession", "auUser"} => x.op \in AccessOps /\ x.wSes = {}
    /\ x.pc \in DOMAIN HandlerOp => x.op = HandlerOp[x.pc]

Own(s, u) == s \in 1..lastSes /\ ses[s].owner = u

(* The sessions a request is about to close are its user's. *)
ClosesOwn(x) ==
    /\ \A s \in x.wSes : Own(s, x.user)
    /\ x.pc \in {"loFlush", "tmFlush"} => Own(x.target, x.user)

(* What the request has written, or found written, so far. *)
TokenDead(t, x) == t \notin tokRows \/ tok[t].used \/ t \in x.wTok
Written(x) ==
    /\ x.wBlk \subseteq 1..lastTok
    /\ \A t \in x.wBlk : TokenDead(t, x)
    /\ x.wBlk # {} => x.op = "logout"
    /\ x.pc \in RefreshPcs \ {"rfReplayed", "rfStore"} => x.wTok = {}
    /\ x.pc = "rfStore" => x.wTok \subseteq {x.tok} /\ (x.tok \in tokRows => x.tok \in x.wTok)
    /\ x.op = "logout" /\ x.pc \in {"loSession", "loFlush", "commit"} =>
          TokenDead(x.tok, x)
    /\ x.op = "logout" /\ x.pc = "commit" =>
          x.target \in x.wSes \/ x.target \notin sesRows \/ ses[x.target].owner # x.user
    /\ x.op = "logoutAll" /\ x.pc = "commit" =>
          \A s \in 1..x.horizon : ses[s].owner = x.user => s \in x.wSes \/ ~Open(s)

WorkOf(x) == Known(x) /\ ActsFor(x) /\ ClosesOwn(x) /\ Written(x)
WorkInv == \A r \in Workers : WorkOf(req[r])

(* RotationConsistent is inductive with the ranges of the references and   *)
(* the blacklist.                                                          *)
Chained ==
    /\ RotationConsistent /\ BlacklistRedundant
    /\ blackRows \subseteq 1..lastTok
    /\ \A t \in 1..lastTok : tok[t].next \in 0..lastTok /\ tok[t].from \in 0..lastTok

LEMMA Ranges ==
    ASSUME TypeInv
    PROVE  /\ now \in Nat /\ now # 0 /\ lastSes \in Nat /\ lastTok \in Nat
           /\ lastSes \in 0..MaxSessions /\ lastTok \in 0..MaxTokens
           /\ 1..lastSes \subseteq SesIds /\ 1..lastTok \subseteq TokIds
           /\ sesRows \subseteq 1..lastSes /\ tokRows \subseteq 1..lastTok
           /\ 0 \notin sesRows /\ 0 \notin tokRows
BY ConstantsAssumption DEF TypeInv, TypeOK, Allocated, SesIds, TokIds

(* A deleted token row does not return either. *)
Steady == Monotone /\ \A t \in 1..lastTok : t \in tokRows' => t \in tokRows

LEMMA NextSteady ==
    ASSUME TypeInv, [Next]_vars
    PROVE  Steady
<1>1. CASE UNCHANGED tokRows
  BY <1>1, NextMonotone DEF Steady
<1>2. CASE Environment
  BY <1>2, NextMonotone DEF Environment, SetActive, CleanupTokens, CleanupBlacklist,
     CleanupSessions, Tick, tables, Steady
<1>3. ASSUME NEW r \in Workers, Arrive(r) \/ Step(r) \/ Crash(r)
      PROVE  Steady
  <2>1. CASE ~LoginStore(r) /\ ~RefreshStore(r) /\ ~Commit(r)
    BY <1>1, <1>3, <2>1, QuietSteps DEF tables
  <2>2. CASE LoginStore(r)
    BY <1>1, <2>2, Ranges, NextMonotone DEF LoginStore, OpenSession, NoRoom, tables, Steady
  <2>3. CASE RefreshStore(r)
    <3>1. tokRows' \subseteq tokRows \cup {lastTok + 1}
      BY <2>3 DEF RefreshStore, StoreNothing, StoreSuccessor, StoreRefused, tables
    <3>2. lastTok + 1 \notin 1..lastTok
      BY Ranges
    <3> QED BY <3>1, <3>2, NextMonotone DEF Steady
  <2>4. CASE Commit(r)
    BY <1>1, <2>4 DEF Commit
  <2> QED BY <2>1, <2>2, <2>3, <2>4
<1> QED BY <1>1, <1>2, <1>3 DEF Next, vars, tables

-----------------------------------------------------------------------------
(* What a request has gathered stays true while others run. *)
LEMMA DeadStays ==
    ASSUME TypeInv, TypeInv', Steady, NEW x, NEW t \in 0..lastTok, TokenDead(t, x)
    PROVE  TokenDead(t, x)'
<1>1. CASE t = 0
  <2>1. 0 \notin tokRows'
    BY Ranges DEF TypeInv, Allocated
  <2> QED BY <1>1, <2>1 DEF TokenDead
<1>2. CASE t # 0
  <2>1. t \in 1..lastTok
    BY <1>2, Ranges
  <2>2. (t \in tokRows' => t \in tokRows) /\ (tok[t].used => tok'[t].used)
    BY <2>1 DEF Steady, Monotone
  <2> QED BY <2>2 DEF TokenDead
<1> QED BY <1>1, <1>2

LEMMA WorkStable ==
    ASSUME TypeInv, TypeInv', Steady, NEW x \in Request, ControlOf(x), WorkOf(x)
    PROVE  WorkOf(x)'
<1>1. /\ lastSes \in Nat /\ lastTok \in Nat /\ lastSes' \in Nat /\ lastTok' \in Nat
      /\ lastSes <= lastSes' /\ lastTok <= lastTok'
  BY Ranges, TypeInv' DEF Steady, Monotone, TypeInv, TypeOK
<1>2. Known(x)'
  BY <1>1 DEF WorkOf, Known
<1>3. ActsFor(x)'
  <2>1. x.pc \in AfterSession => x.tok \in 1..lastTok
    BY DEF ControlOf, AfterSession, RefreshPcs
  <2>2. x.pc \in AfterSession => tok'[x.tok].ses = tok[x.tok].ses
    BY <2>1 DEF Steady, Monotone
  <2> QED BY <2>2 DEF WorkOf, ActsFor
<1>4. \A s \in 0..lastSes : Own(s, x.user) => Own(s, x.user)'
  BY <1>1 DEF Own, Steady, Monotone
<1>5. ClosesOwn(x)'
  <2>1. \A s : Own(s, x.user) => s \in 0..lastSes
    BY <1>1 DEF Own
  <2> QED BY <1>4, <2>1 DEF WorkOf, ClosesOwn
<1>6. Written(x)'
  <2>1. x.wBlk \subseteq 1..lastTok' /\ \A t \in x.wBlk : TokenDead(t, x)'
    <3>1. \A t \in x.wBlk : t \in 0..lastTok /\ TokenDead(t, x)
      BY <1>1 DEF WorkOf, Written
    <3>2. x.wBlk \subseteq 1..lastTok
      BY DEF WorkOf, Written
    <3> QED BY <1>1, <3>1, <3>2, DeadStays
  <2>2. x.pc = "rfStore" => x.wTok \subseteq {x.tok} /\ (x.tok \in tokRows' => x.tok \in x.wTok)
    <3>1. x.pc = "rfStore" => x.tok \in 1..lastTok
      BY DEF ControlOf, RefreshPcs
    <3> QED BY <3>1 DEF WorkOf, Written, Steady
  <2>3. TokenDead(x.tok, x) => TokenDead(x.tok, x)'
    BY DeadStays DEF WorkOf, Known
  <2>4. /\ x.target \notin sesRows => x.target \notin sesRows'
        /\ x.target \in sesRows => ses'[x.target].owner = ses[x.target].owner
    <3>1. 0 \notin sesRows'
      BY DEF TypeInv, Allocated
    <3>2. x.target \in 1..lastSes \/ x.target = 0
      BY <1>1 DEF WorkOf, Known
    <3> QED BY <3>1, <3>2, Ranges DEF Steady, Monotone
  <2>5. \A s \in 1..x.horizon : /\ ses'[s].owner = ses[s].owner
                                /\ ~Open(s) => ~Open(s)'
    <3> SUFFICES ASSUME NEW s \in 1..x.horizon
                 PROVE  ses'[s].owner = ses[s].owner /\ (~Open(s) => ~Open(s)')
      OBVIOUS
    <3>1. s \in 1..lastSes
      BY <1>1 DEF WorkOf, Known
    <3> QED BY <3>1, MonotoneCloses DEF Steady, Monotone
  <2> QED BY <2>1, <2>2, <2>3, <2>4, <2>5 DEF WorkOf, Written
<1> QED BY <1>2, <1>3, <1>5, <1>6 DEF WorkOf

LEMMA WorkFrame ==
    ASSUME TypeInv, TypeInv', Steady, WorkInv, NEW r \in Workers,
           \A q \in Workers : q # r => req'[q] = req[q],
           WorkOf(req[r])'
    PROVE  WorkInv'
<1>1. ASSUME NEW q \in Workers, q # r PROVE WorkOf(req[q])'
  <2>1. req'[q] = req[q]
    BY <1>1
  <2>2. PICK x \in Request : x = req[q]
    BY DEF TypeInv, TypeOK
  <2>3. WorkOf(x)'
    BY <2>2, WorkStable DEF TypeInv, Control, WorkInv
  <2> QED BY <2>1, <2>2, <2>3
<1> QED BY <1>1 DEF WorkInv

(* A step that writes no table: the new record is judged in the old state. *)
LEMMA WorkQuiet ==
    ASSUME TypeInv, TypeInv', Steady, WorkInv, NEW r \in Workers, NEW x,
           Become(r, x), UNCHANGED <<now, tables>>, WorkOf(x)
    PROVE  WorkInv'
<1>1. req'[r] = x /\ \A q \in Workers : q # r => req'[q] = req[q]
  BY DEF Become, TypeInv, TypeOK
<1>2. WorkOf(x)'
  BY DEF tables, WorkOf, Known, ActsFor, ClosesOwn, Own, Written, TokenDead, Open
<1>3. WorkOf(req[r])'
  BY <1>1, <1>2
<1> QED BY <1>1, <1>3, WorkFrame

(* A request at rest has nothing in hand. *)
AtRest(x) == /\ x.pc \in Resting /\ x.op = "none" /\ x.tok = 0 /\ x.target = 0 /\ x.horizon = 0
             /\ x.wTok = {} /\ x.wBlk = {} /\ x.wSes = {}

LEMMA RestWorks ==
    ASSUME TypeInv, NEW x, AtRest(x)
    PROVE  WorkOf(x)
BY Ranges DEF AtRest, Resting, WorkOf, Known, ActsFor, ClosesOwn, Written, BeforeSession,
   AfterSession, Acting, HandlerOp, RefreshPcs

LEMMA FailWork ==
    ASSUME TypeInv, TypeInv', Steady, WorkInv, NEW r \in Workers, Fail(r),
           UNCHANGED <<now, tables>>
    PROVE  WorkInv'
<1>1. AtRest(Idle)
  BY DEF AtRest, Idle, Resting
<1> QED BY <1>1, RestWorks, WorkQuiet DEF Fail

(* A request that commits leaves its record at rest. *)
LEMMA RestingWork ==
    ASSUME TypeInv, TypeInv', Steady, WorkInv, NEW r \in Workers, NEW x, AtRest(x), Become(r, x)
    PROVE  WorkInv'
<1>1. req'[r] = x /\ \A q \in Workers : q # r => req'[q] = req[q]
  BY DEF Become, TypeInv, TypeOK
<1>2. WorkOf(req[r])'
  <2>1. AtRest(req'[r])
    BY <1>1
  <2>2. AtRest(req[r])'
    BY <2>1 DEF AtRest
  <2>3. lastTok' \in Nat /\ lastSes' \in Nat
    BY ConstantsAssumption DEF TypeInv, TypeOK
  <2> QED BY <2>2, <2>3 DEF AtRest, Resting, WorkOf, Known, ActsFor, ClosesOwn, Written, BeforeSession,
             AfterSession, Acting, HandlerOp, RefreshPcs
<1> QED BY <1>1, <1>2, WorkFrame

-----------------------------------------------------------------------------
(* WorkInv, one group of steps at a time. *)
LEMMA ArriveWork ==
    ASSUME TypeInv, TypeInv', Steady, WorkInv, NEW r \in Workers, Arrive(r)
    PROVE  WorkInv'
<1>0. UNCHANGED <<now, tables>>
  BY DEF Arrive, BeginLogin, BeginAuthBare, BeginRefresh, BeginAuth
<1>1. ASSUME NEW x, Become(r, x), Known(x), x.wTok = {}, x.wBlk = {}, x.wSes = {},
             \/ x.pc \in {"liStore", "rfCheck"} /\ x.ses = 0
             \/ x.pc = "auUser" /\ x.op = "access"
             \/ x.pc = "auSession" /\ x.op \in AccessOps
      PROVE  WorkInv'
  <2>1. WorkOf(x)
    BY <1>1 DEF WorkOf, ActsFor, ClosesOwn, Written, BeforeSession, AfterSession, Acting,
       HandlerOp, AccessOps, RefreshPcs
  <2> QED BY <1>0, <1>1, <2>1, WorkQuiet
<1>2. ASSUME NEW u \in Users, BeginLogin(r, u)
      PROVE  WorkInv'
  <2> DEFINE x == [Idle EXCEPT !.pc = "liStore", !.op = "login", !.user = u, !.pwSeen = pw[u]]
  <2>1. /\ x.pc = "liStore" /\ x.ses = 0 /\ x.tok = 0 /\ x.target = 0 /\ x.horizon = 0
        /\ x.wTok = {} /\ x.wBlk = {} /\ x.wSes = {}
    BY DEF Idle
  <2>2. Become(r, x)
    BY <1>2 DEF BeginLogin
  <2> HIDE DEF x
  <2> QED BY <1>1, <2>1, <2>2, Ranges DEF Known
<1>3. ASSUME NEW u \in Users, BeginAuthBare(r, u)
      PROVE  WorkInv'
  <2> DEFINE x == [Idle EXCEPT !.pc = "auUser", !.op = "access", !.user = u]
  <2>1. /\ x.pc = "auUser" /\ x.op = "access" /\ x.tok = 0 /\ x.target = 0 /\ x.horizon = 0
        /\ x.wTok = {} /\ x.wBlk = {} /\ x.wSes = {}
    BY DEF Idle
  <2>2. Become(r, x)
    BY <1>3 DEF BeginAuthBare
  <2> HIDE DEF x
  <2> QED BY <1>1, <2>1, <2>2, Ranges DEF Known
<1>4. ASSUME NEW t \in TokIds, BeginRefresh(r, t)
      PROVE  WorkInv'
  <2> DEFINE u == ses[tok[t].ses].owner
             dead == tok[t].used \/ ~Open(tok[t].ses)
             x == [Idle EXCEPT !.pc = "rfCheck", !.op = "refresh", !.tok = t,
                               !.user = u, !.late = dead]
  <2>1. Become(r, x) /\ t \in 0..lastTok
    BY <1>4, Ranges DEF BeginRefresh, TokIds
  <2> HIDE DEF u, dead
  <2>2. /\ x.pc = "rfCheck" /\ x.ses = 0 /\ x.tok = t /\ x.target = 0 /\ x.horizon = 0
        /\ x.wTok = {} /\ x.wBlk = {} /\ x.wSes = {}
    BY DEF Idle
  <2> HIDE DEF x
  <2> QED BY <1>1, <2>1, <2>2, Ranges DEF Known
<1>5. ASSUME NEW op \in AccessOps, NEW s \in SesIds, NEW t \in 0..MaxTokens,
             NEW d \in 0..MaxSessions, BeginAuth(r, op, s, t, d)
      PROVE  WorkInv'
  <2> DEFINE u == ses[s].owner
             dead == ~Open(s)
             x == [Idle EXCEPT !.pc = "auSession", !.op = op, !.user = u, !.ses = s,
                               !.tok = t, !.target = d, !.late = dead]
  <2>1. Become(r, x)
    BY <1>5 DEF BeginAuth
  <2>2. t \in 0..lastTok /\ d \in 0..lastSes
    BY <1>5, Ranges, ConstantsAssumption DEF BeginAuth
  <2> HIDE DEF u, dead
  <2>3. /\ x.pc = "auSession" /\ x.op = op /\ x.tok = t /\ x.target = d /\ x.horizon = 0
        /\ x.wTok = {} /\ x.wBlk = {} /\ x.wSes = {}
    BY DEF Idle
  <2> HIDE DEF x
  <2> QED BY <1>1, <2>1, <2>2, <2>3, Ranges DEF Known
<1> QED BY <1>2, <1>3, <1>4, <1>5 DEF Arrive

LEMMA RefreshWork ==
    ASSUME TypeInv, TypeInv', Steady, WorkInv, NEW r \in Workers,
           \/ RefreshCheck(r) \/ RefreshReplay(r) \/ RefreshRevoke(r) \/ RefreshReplayed(r)
           \/ RefreshSession(r) \/ RefreshUser(r) \/ RefreshRotate(r) \/ RefreshMark(r)
    PROVE  WorkInv'
<1>1. /\ UNCHANGED <<now, tables>> /\ req[r] \in Request /\ WorkOf(req[r])
      /\ ControlOf(req[r]) /\ req[r].pc \in RefreshPcs
  BY DEF WorkInv, TypeInv, TypeOK, Control, RefreshCheck, RefreshReplay, RefreshRevoke,
     RefreshReplayed, RefreshSession, RefreshUser, RefreshRotate, RefreshMark, At, RefreshPcs
<1>2. CASE Fail(r)
  BY <1>1, <1>2, FailWork
<1>3. ASSUME NEW x \in Request, Become(r, x), x.op = "refresh", Known(x),
             x.wSes = req[r].wSes, x.wBlk = req[r].wBlk, x.user = req[r].user,
             \/ x.pc \in BeforeSession /\ x.ses = 0
             \/ x.pc \in AfterSession /\ (x.ses = 0 \/ x.ses = tok[x.tok].ses),
             \/ x.pc = "rfReplayed"
             \/ x.pc = "rfStore" /\ x.wTok \subseteq {x.tok} /\ (x.tok \in tokRows => x.tok \in x.wTok)
             \/ x.wTok = {} /\ x.pc # "rfStore"
      PROVE  WorkInv'
  <2>1. ActsFor(x)
    BY <1>3 DEF ActsFor, BeforeSession, AfterSession, Acting, HandlerOp
  <2>2. ClosesOwn(x)
    BY <1>1, <1>3 DEF WorkOf, ClosesOwn, BeforeSession, AfterSession
  <2>3. Written(x)
    <3>1. x.wBlk = {}
      BY <1>1, <1>3 DEF WorkOf, Written, ControlOf
    <3> QED BY <1>3, <3>1 DEF Written, TokenDead, BeforeSession, AfterSession
  <2> QED BY <1>1, <1>3, <2>1, <2>2, <2>3, WorkQuiet DEF WorkOf
<1>4. ASSUME NEW p \in RefreshPcs, Goto(r, p),
             req[r].pc \notin {"rfReplayed", "rfStore"},
             \/ p \in BeforeSession \ {"rfReplayed"} /\ req[r].pc \in BeforeSession
             \/ p \in AfterSession /\ req[r].pc \in AfterSession
             \/ p \in AfterSession /\ req[r].ses = 0,
             p = "rfStore" => req[r].tok \notin tokRows
      PROVE  WorkInv'
  <2> DEFINE x == [req[r] EXCEPT !.pc = p]
  <2>1. /\ x \in Request /\ x.pc = p /\ x.op = req[r].op /\ x.ses = req[r].ses
        /\ x.tok = req[r].tok /\ x.target = req[r].target /\ x.horizon = req[r].horizon
        /\ x.wSes = req[r].wSes /\ x.wBlk = req[r].wBlk /\ x.wTok = req[r].wTok
        /\ x.user = req[r].user
    BY <1>1 DEF Request, Pcs, Entering, RefreshPcs
  <2>2. Become(r, x)
    BY <1>4 DEF Goto
  <2> HIDE DEF x
  <2>3. x.op = "refresh" /\ Known(x)
    BY <1>1, <2>1 DEF ControlOf, WorkOf, Known
  <2>4. x.wTok = {}
    BY <1>1, <1>4, <2>1 DEF WorkOf, Written
  <2>5. \/ x.pc \in BeforeSession /\ x.ses = 0
        \/ x.pc \in AfterSession /\ (x.ses = 0 \/ x.ses = tok[x.tok].ses)
    BY <1>1, <1>4, <2>1 DEF WorkOf, ActsFor
  <2> QED BY <1>3, <1>4, <2>1, <2>2, <2>3, <2>4, <2>5
<1>5. CASE RefreshCheck(r)
  BY <1>2, <1>4, <1>5 DEF RefreshCheck, At, BeforeSession, RefreshPcs
<1>6. CASE RefreshReplay(r)
  <2> DEFINE x == [req[r] EXCEPT !.pc = "rfRevoke", !.horizon = lastSes]
  <2>1. CASE Become(r, x)
    <3>1. /\ x \in Request /\ x.pc = "rfRevoke" /\ x.op = req[r].op /\ x.ses = req[r].ses
          /\ x.tok = req[r].tok /\ x.target = req[r].target /\ x.horizon = lastSes
          /\ x.wSes = req[r].wSes /\ x.wBlk = req[r].wBlk /\ x.wTok = req[r].wTok
          /\ x.user = req[r].user
      BY <1>1, Ranges DEF Request, Pcs, Entering
    <3> HIDE DEF x
    <3>2. x.op = "refresh" /\ Known(x) /\ x.ses = 0 /\ x.wTok = {}
      BY <1>1, <1>6, <3>1, Ranges DEF ControlOf, WorkOf, Known, ActsFor, Written, BeforeSession,
         RefreshReplay, At
    <3> QED BY <1>3, <2>1, <3>1, <3>2 DEF BeforeSession
  <2>2. CASE Goto(r, "rfSession")
    BY <1>4, <1>6, <2>2 DEF RefreshReplay, At, BeforeSession, RefreshPcs
  <2> QED BY <1>6, <2>1, <2>2 DEF RefreshReplay
<1>7. ASSUME NEW T \in SUBSET TokIds,
             \/ req[r].pc = "rfRevoke" /\ Become(r, [req[r] EXCEPT !.pc = "rfReplayed", !.wTok = T])
             \/ /\ req[r].pc = "rfMark" /\ T = {req[r].tok}
                /\ Become(r, [req[r] EXCEPT !.pc = "rfStore", !.wTok = T])
      PROVE  WorkInv'
  <2> DEFINE p == IF req[r].pc = "rfRevoke" THEN "rfReplayed" ELSE "rfStore"
             x == [req[r] EXCEPT !.pc = p, !.wTok = T]
  <2>1. /\ x \in Request /\ x.pc = p /\ x.op = req[r].op /\ x.ses = req[r].ses
        /\ x.tok = req[r].tok /\ x.target = req[r].target /\ x.horizon = req[r].horizon
        /\ x.wSes = req[r].wSes /\ x.wBlk = req[r].wBlk /\ x.wTok = T
        /\ x.user = req[r].user
    BY <1>1 DEF Request, Pcs, Entering
  <2>2. Become(r, x)
    BY <1>7
  <2> HIDE DEF x
  <2>3. x.op = "refresh" /\ Known(x)
    BY <1>1, <2>1 DEF ControlOf, WorkOf, Known
  <2>4. \/ x.pc \in BeforeSession /\ x.ses = 0
        \/ x.pc \in AfterSession /\ (x.ses = 0 \/ x.ses = tok[x.tok].ses)
    BY <1>1, <1>7, <2>1 DEF WorkOf, ActsFor, BeforeSession, AfterSession
  <2> QED BY <1>3, <1>7, <2>1, <2>2, <2>3, <2>4
<1>8. CASE RefreshRevoke(r)
  <2>1. {t \in TokensOf(req[r].user, req[r].horizon) : ~tok[t].used} \in SUBSET TokIds
    BY DEF TypeInv, TypeOK, TokensOf
  <2> QED BY <1>7, <1>8, <2>1 DEF RefreshRevoke, At
<1>9. CASE RefreshReplayed(r)
  BY <1>2, <1>9 DEF RefreshReplayed
<1>10. CASE RefreshSession(r)
  <2> DEFINE s == tok[req[r].tok].ses
             u == tok[req[r].tok].used
             x == [req[r] EXCEPT !.pc = "rfUser", !.ses = s, !.oldUsed = u]
  <2>1. CASE Become(r, x)
    <3>1. s \in 0..MaxSessions /\ u \in BOOLEAN
      <4>1. req[r].tok \in TokIds
        BY <1>1, Ranges DEF ControlOf
      <4> QED BY <4>1 DEF TypeInv, TypeOK, TokenRow
    <3> DEFINE y == [req[r] EXCEPT !.pc = "rfUser", !.ses = s, !.oldUsed = u]
    <3> HIDE DEF s, u
    <3>2. /\ y \in Request /\ y.pc = "rfUser" /\ y.op = req[r].op /\ y.ses = s
          /\ y.tok = req[r].tok /\ y.target = req[r].target /\ y.horizon = req[r].horizon
          /\ y.wSes = req[r].wSes /\ y.wBlk = req[r].wBlk /\ y.wTok = req[r].wTok
          /\ y.user = req[r].user
      BY <1>1, <3>1 DEF Request, Pcs, Entering
    <3>3. Become(r, y)
      BY <2>1
    <3> HIDE DEF y, x
    <3>4. y.op = "refresh" /\ Known(y) /\ y.wTok = {}
      BY <1>1, <1>10, <3>2 DEF ControlOf, WorkOf, Known, Written, RefreshSession, At
    <3>5. y.ses = tok[y.tok].ses
      BY <3>2 DEF s
    <3> QED BY <1>3, <3>2, <3>3, <3>4, <3>5 DEF AfterSession
  <2>2. CASE Goto(r, "rfUser")
    <3>1. req[r].ses = 0
      BY <1>1, <1>10 DEF WorkOf, ActsFor, RefreshSession, At, BeforeSession
    <3> QED BY <1>4, <1>10, <2>2, <3>1 DEF RefreshSession, At, AfterSession, RefreshPcs
  <2> QED BY <1>2, <1>10, <2>1, <2>2 DEF RefreshSession
<1>11. CASE RefreshUser(r)
  BY <1>2, <1>4, <1>11 DEF RefreshUser, At, AfterSession, RefreshPcs
<1>12. CASE RefreshRotate(r)
  BY <1>2, <1>4, <1>12 DEF RefreshRotate, At, AfterSession, RefreshPcs
<1>13. CASE RefreshMark(r)
  <2>1. {req[r].tok} \in SUBSET TokIds
    BY <1>1, Ranges DEF ControlOf
  <2> QED BY <1>2, <1>7, <1>13, <2>1 DEF RefreshMark, At
<1> QED BY <1>5, <1>6, <1>8, <1>9, <1>10, <1>11, <1>12, <1>13

LEMMA HandlerWork ==
    ASSUME TypeInv, TypeInv', Steady, WorkInv, BlacklistRedundant, NEW r \in Workers,
           \/ AuthSession(r) \/ AuthUser(r) \/ LogoutLoad(r) \/ LogoutRevoke(r)
           \/ LogoutSession(r) \/ LogoutAllList(r) \/ LogoutAllTokens(r)
           \/ LogoutAllSessions(r) \/ TerminateAll(r) \/ PasswordUpdate(r)
           \/ PasswordSessions(r) \/ TerminateLoad(r) \/ FlushRevoke(r)
    PROVE  WorkInv'
<1>1. /\ UNCHANGED <<now, tables>> /\ req[r] \in Request /\ WorkOf(req[r])
      /\ ControlOf(req[r])
  BY DEF WorkInv, TypeInv, TypeOK, Control, AuthSession, AuthUser, LogoutLoad, LogoutRevoke,
     LogoutSession, LogoutAllList, LogoutAllTokens, LogoutAllSessions, TerminateAll, PasswordUpdate,
     PasswordSessions, TerminateLoad, FlushRevoke, BulkRevoke
<1>2. CASE Fail(r)
  BY <1>1, <1>2, FailWork
<1>3. ASSUME NEW x \in Request, Become(r, x), Known(x), x.pc \in Acting, x.ses # 0,
             x.pc \in DOMAIN HandlerOp => x.op = HandlerOp[x.pc],
             ClosesOwn(x), Written(x)
      PROVE  WorkInv'
  <2>1. ActsFor(x)
    BY <1>3 DEF ActsFor, BeforeSession, AfterSession, Acting
  <2> QED BY <1>1, <1>3, <2>1, WorkQuiet DEF WorkOf
<1>4. ASSUME NEW p \in Acting, Goto(r, p), req[r].ses # 0,
             p \in DOMAIN HandlerOp => req[r].op = HandlerOp[p],
             p \in {"loFlush", "tmFlush"} => Own(req[r].target, req[r].user),
             req[r].op = "logout" /\ p \in {"loSession", "loFlush", "commit"} =>
                TokenDead(req[r].tok, req[r]),
             req[r].op = "logout" /\ p = "commit" =>
                req[r].target \notin sesRows \/ ses[req[r].target].owner # req[r].user,
             p = "commit" => req[r].op # "logoutAll"
      PROVE  WorkInv'
  <2> DEFINE x == [req[r] EXCEPT !.pc = p]
  <2>1. /\ x \in Request /\ x.pc = p /\ x.op = req[r].op /\ x.ses = req[r].ses
        /\ x.tok = req[r].tok /\ x.target = req[r].target /\ x.horizon = req[r].horizon
        /\ x.wSes = req[r].wSes /\ x.wBlk = req[r].wBlk /\ x.wTok = req[r].wTok
        /\ x.user = req[r].user
    BY <1>1 DEF Request, Pcs
  <2>2. Become(r, x)
    BY <1>4 DEF Goto
  <2> HIDE DEF x
  <2>3. Known(x) /\ ClosesOwn(x)
    BY <1>1, <1>4, <2>1 DEF WorkOf, Known, ClosesOwn
  <2>4. Written(x)
    BY <1>1, <1>4, <2>1 DEF WorkOf, Written, TokenDead, Acting, RefreshPcs
  <2> QED BY <1>3, <1>4, <2>1, <2>2, <2>3, <2>4
<1>5. CASE AuthSession(r)
  <2>1. CASE Goto(r, "auUser")
    <3> DEFINE x == [req[r] EXCEPT !.pc = "auUser"]
    <3>1. /\ x.pc = "auUser" /\ x.op = req[r].op /\ x.ses = req[r].ses
          /\ x.tok = req[r].tok /\ x.target = req[r].target /\ x.horizon = req[r].horizon
          /\ x.wSes = req[r].wSes /\ x.wBlk = req[r].wBlk /\ x.wTok = req[r].wTok
          /\ x.user = req[r].user /\ Become(r, x)
      BY <1>1, <2>1 DEF Request, Goto
    <3> HIDE DEF x
    <3>2. req[r].ses # 0
      BY <1>1, <1>5 DEF ControlOf, AuthSession, At
    <3>3. ActsFor(x)
      BY <1>1, <1>5, <3>1, <3>2 DEF WorkOf, ActsFor, AuthSession, At, BeforeSession, AfterSession,
         Acting, HandlerOp
    <3>4. Known(x) /\ ClosesOwn(x) /\ Written(x)
      BY <1>1, <1>5, <3>1 DEF WorkOf, Known, ClosesOwn, Written, TokenDead, RefreshPcs
    <3> QED BY <1>1, <3>1, <3>3, <3>4, WorkQuiet DEF WorkOf
  <2> QED BY <1>2, <1>5, <2>1 DEF AuthSession
<1>6. CASE AuthUser(r)
  <2> DEFINE p == FirstStep[req[r].op]
  <2>1. req[r].pc = "auUser" /\ req[r].op \in AccessOps
    BY <1>1, <1>6 DEF AuthUser, At, ControlOf
  <2>2. CASE Goto(r, p) /\ req[r].op = "access"
    <3> DEFINE x == [req[r] EXCEPT !.pc = "commit"]
    <3>1. p = "commit"
      BY <2>2 DEF FirstStep
    <3>2. /\ x.pc = "commit" /\ x.op = req[r].op /\ x.ses = req[r].ses
          /\ x.tok = req[r].tok /\ x.target = req[r].target /\ x.horizon = req[r].horizon
          /\ x.wSes = req[r].wSes /\ x.wBlk = req[r].wBlk /\ x.wTok = req[r].wTok
          /\ x.user = req[r].user /\ Become(r, x)
      BY <1>1, <2>2, <3>1 DEF Request, Goto
    <3> HIDE DEF x
    <3>3. x.wSes = {}
      BY <1>1, <2>1, <3>2 DEF WorkOf, ActsFor
    <3>4. WorkOf(x)
      BY <1>1, <2>2, <3>2, <3>3 DEF WorkOf, ActsFor, Known, ClosesOwn, Written, TokenDead,
         BeforeSession, AfterSession, HandlerOp, RefreshPcs
    <3> QED BY <1>1, <3>2, <3>4, WorkQuiet
  <2>3. CASE Goto(r, p) /\ req[r].op # "access"
    <3>1. /\ p \in {"loLoad", "laList", "tmLoad", "taSessions", "pwUpdate"}
          /\ req[r].op = HandlerOp[p]
      BY <2>1, <2>3 DEF FirstStep, AccessOps, HandlerOp
    <3>2. req[r].ses # 0
      BY <1>1, <2>1, <2>3 DEF WorkOf, ActsFor
    <3>3. Goto(r, p) /\ p \in Acting
      BY <2>3, <3>1 DEF Acting
    <3> HIDE DEF p
    <3> QED BY <1>4, <3>1, <3>2, <3>3
  <2> QED BY <1>2, <1>6, <2>2, <2>3 DEF AuthUser
<1>7. ASSUME req[r].pc \in Acting \ {"commit"}
      PROVE  req[r].ses # 0
  BY <1>1, <1>7 DEF WorkOf, ActsFor
<1>8. ASSUME req[r].pc \in DOMAIN HandlerOp
      PROVE  req[r].op = HandlerOp[req[r].pc]
  BY <1>1, <1>8 DEF WorkOf, ActsFor
<1>9. CASE LogoutLoad(r)
  <2>1. req[r].pc = "loLoad" /\ req[r].op = "logout" /\ req[r].ses # 0
    BY <1>7, <1>8, <1>9 DEF LogoutLoad, At, HandlerOp, Acting
  <2>2. req[r].tok \notin tokRows => TokenDead(req[r].tok, req[r])
    BY DEF TokenDead
  <2> QED BY <1>4, <1>9, <2>1, <2>2 DEF LogoutLoad, HandlerOp, Acting
<1>10. CASE LogoutRevoke(r)
  <2>1. /\ req[r].pc = "loRevoke" /\ req[r].op = "logout" /\ req[r].ses # 0
        /\ req[r].tok \in TokIds /\ req[r].tok \in 0..lastTok
    BY <1>1, <1>7, <1>8, <1>10 DEF LogoutRevoke, At, HandlerOp, Acting, WorkOf, Known, ControlOf
  <2>2. ASSUME NEW T \in SUBSET TokIds, NEW B \in SUBSET TokIds,
               Become(r, [req[r] EXCEPT !.pc = "loSession", !.wTok = T, !.wBlk = B]),
               B \subseteq {req[r].tok},
               req[r].tok \notin tokRows \/ tok[req[r].tok].used \/ req[r].tok \in T
        PROVE  WorkInv'
    <3> DEFINE x == [req[r] EXCEPT !.pc = "loSession", !.wTok = T, !.wBlk = B]
    <3>1. /\ x \in Request /\ x.pc = "loSession" /\ x.op = req[r].op /\ x.ses = req[r].ses
          /\ x.tok = req[r].tok /\ x.target = req[r].target /\ x.horizon = req[r].horizon
          /\ x.wSes = req[r].wSes /\ x.wBlk = B /\ x.wTok = T
          /\ x.user = req[r].user
      BY <1>1 DEF Request, Pcs, Acting
    <3>0. Become(r, x)
      BY <2>2
    <3> HIDE DEF x
    <3>2. Known(x) /\ ClosesOwn(x)
      BY <1>1, <3>1 DEF WorkOf, Known, ClosesOwn
    <3>3. x.wBlk \subseteq 1..lastTok
      BY <2>1, <2>2, <3>1, Ranges DEF TokIds
    <3>4. Written(x)
      BY <2>1, <2>2, <3>1, <3>3 DEF Written, TokenDead, RefreshPcs
    <3> QED BY <1>3, <2>1, <3>0, <3>1, <3>2, <3>4 DEF Acting, HandlerOp
  <2>3. CASE /\ req[r].tok \in blackRows
             /\ Become(r, [req[r] EXCEPT !.pc = "loSession", !.wTok = {}, !.wBlk = {}])
    <3>1. req[r].tok \in tokRows => tok[req[r].tok].used
      BY <2>3 DEF BlacklistRedundant
    <3> QED BY <2>2, <2>3, <3>1
  <2>4. CASE Become(r, [req[r] EXCEPT !.pc = "loSession", !.wTok = {req[r].tok} \cap tokRows,
                                      !.wBlk = {req[r].tok}])
    BY <2>1, <2>2, <2>4
  <2> QED BY <1>2, <1>10, <2>3, <2>4 DEF LogoutRevoke
<1>11. CASE LogoutSession(r)
  <2>1. /\ req[r].pc = "loSession" /\ req[r].op = "logout" /\ req[r].ses # 0
        /\ TokenDead(req[r].tok, req[r])
    BY <1>1, <1>7, <1>8, <1>11 DEF LogoutSession, At, HandlerOp, Acting, WorkOf, Written
  <2>2. /\ req[r].target \in SessionsOf(req[r].user) => Own(req[r].target, req[r].user)
        /\ req[r].target \notin SessionsOf(req[r].user) =>
              req[r].target \notin sesRows \/ ses[req[r].target].owner # req[r].user
    BY Ranges DEF SessionsOf, Own
  <2> QED BY <1>4, <1>11, <2>1, <2>2 DEF LogoutSession, HandlerOp, Acting
<1>12. CASE LogoutAllList(r)
  <2> DEFINE x == [req[r] EXCEPT !.pc = "laTokens", !.horizon = lastSes]
  <2>1. req[r].pc = "laList" /\ req[r].op = "logoutAll" /\ req[r].ses # 0 /\ Become(r, x)
    BY <1>7, <1>8, <1>12 DEF LogoutAllList, At, HandlerOp, Acting
  <2>2. /\ x \in Request /\ x.pc = "laTokens" /\ x.op = req[r].op /\ x.ses = req[r].ses
        /\ x.tok = req[r].tok /\ x.target = req[r].target /\ x.horizon = lastSes
        /\ x.wSes = req[r].wSes /\ x.wBlk = req[r].wBlk /\ x.wTok = req[r].wTok
        /\ x.user = req[r].user
    BY <1>1, Ranges DEF Request, Pcs, Acting
  <2> HIDE DEF x
  <2>3. Known(x) /\ ClosesOwn(x) /\ Written(x)
    BY <1>1, <2>1, <2>2, Ranges DEF WorkOf, Known, ClosesOwn, Written, RefreshPcs, TokenDead
  <2> QED BY <1>3, <2>1, <2>2, <2>3 DEF Acting, HandlerOp
<1>13. CASE LogoutAllTokens(r)
  <2> DEFINE T == {t \in TokensOf(req[r].user, req[r].horizon) : ~tok[t].used}
             x == [req[r] EXCEPT !.pc = "laSessions", !.wTok = T]
  <2>1. req[r].pc = "laTokens" /\ req[r].op = "logoutAll" /\ req[r].ses # 0 /\ Become(r, x)
    BY <1>7, <1>8, <1>13 DEF LogoutAllTokens, At, HandlerOp, Acting
  <2>2. T \in SUBSET TokIds
    BY DEF TypeInv, TypeOK, TokensOf
  <2> HIDE DEF T
  <2>3. /\ x \in Request /\ x.pc = "laSessions" /\ x.op = req[r].op /\ x.ses = req[r].ses
        /\ x.tok = req[r].tok /\ x.target = req[r].target /\ x.horizon = req[r].horizon
        /\ x.wSes = req[r].wSes /\ x.wBlk = req[r].wBlk /\ x.wTok = T
        /\ x.user = req[r].user
    BY <1>1, <2>2 DEF Request, Pcs, Acting
  <2> HIDE DEF x
  <2>4. Known(x) /\ ClosesOwn(x) /\ Written(x)
    BY <1>1, <2>1, <2>3 DEF WorkOf, Known, ClosesOwn, Written, RefreshPcs
  <2> QED BY <1>3, <2>1, <2>3, <2>4 DEF Acting, HandlerOp
<1>14. ASSUME NEW S \in SUBSET SesIds, Become(r, [req[r] EXCEPT !.pc = "commit", !.wSes = S]),
              req[r].pc \in {"laSessions", "taSessions", "pwSessions", "loFlush", "tmFlush"},
              \A s \in S : Own(s, req[r].user),
              req[r].op = "logout" => req[r].target \in S,
              req[r].op = "logoutAll" =>
                 \A s \in 1..req[r].horizon : ses[s].owner = req[r].user => s \in S \/ ~Open(s)
       PROVE  WorkInv'
  <2> DEFINE x == [req[r] EXCEPT !.pc = "commit", !.wSes = S]
  <2>1. /\ x \in Request /\ x.pc = "commit" /\ x.op = req[r].op /\ x.ses = req[r].ses
        /\ x.tok = req[r].tok /\ x.target = req[r].target /\ x.horizon = req[r].horizon
        /\ x.wSes = S /\ x.wBlk = req[r].wBlk /\ x.wTok = req[r].wTok
        /\ x.user = req[r].user
    BY <1>1 DEF Request, Pcs, Acting
  <2>2. req[r].ses # 0 /\ req[r].op = HandlerOp[req[r].pc]
    BY <1>7, <1>8, <1>14 DEF Acting, HandlerOp
  <2>3. Become(r, x)
    BY <1>14
  <2> HIDE DEF x
  <2>4. Known(x) /\ ClosesOwn(x)
    BY <1>1, <1>14, <2>1 DEF WorkOf, Known, ClosesOwn
  <2>5. x.op = "logout" => TokenDead(x.tok, x)
    BY <1>1, <1>14, <2>1, <2>2 DEF WorkOf, Written, TokenDead, HandlerOp
  <2>6. Written(x)
    BY <1>1, <1>14, <2>1, <2>5 DEF WorkOf, Written, TokenDead, RefreshPcs
  <2> QED BY <1>3, <2>1, <2>2, <2>3, <2>4, <2>6 DEF Acting, HandlerOp
<1>15. ASSUME NEW keep, BulkRevoke(r, keep),
              req[r].pc \in {"laSessions", "taSessions", "pwSessions"},
              req[r].pc = "laSessions" => keep = {}
       PROVE  WorkInv'
  <2> DEFINE S == {s \in SessionsOf(req[r].user) : ses[s].revokedAt = 0} \ keep
  <2>1. S \in SUBSET SesIds /\ \A s \in S : Own(s, req[r].user)
    BY Ranges DEF SessionsOf, Own
  <2>2. req[r].op = HandlerOp[req[r].pc]
    BY <1>8, <1>15 DEF HandlerOp
  <2>3. req[r].op # "logout" /\ (req[r].op = "logoutAll" => req[r].pc = "laSessions")
    BY <1>15, <2>2 DEF HandlerOp
  <2>4. req[r].op = "logoutAll" =>
           \A s \in 1..req[r].horizon : ses[s].owner = req[r].user => s \in S \/ ~Open(s)
    BY <1>15, <2>3 DEF SessionsOf, Open
  <2>5. Become(r, [req[r] EXCEPT !.pc = "commit", !.wSes = S])
    BY <1>15 DEF BulkRevoke
  <2> HIDE DEF S
  <2> QED BY <1>14, <1>15, <2>1, <2>3, <2>4, <2>5
<1>16. CASE LogoutAllSessions(r) \/ TerminateAll(r) \/ PasswordSessions(r)
  BY <1>15, <1>16 DEF LogoutAllSessions, TerminateAll, PasswordSessions, At
<1>17. CASE PasswordUpdate(r)
  <2>1. req[r].pc = "pwUpdate" /\ req[r].op = "changePassword" /\ req[r].ses # 0
    BY <1>7, <1>8, <1>17 DEF PasswordUpdate, At, HandlerOp, Acting
  <2> QED BY <1>2, <1>4, <1>17, <2>1 DEF PasswordUpdate, HandlerOp, Acting
<1>18. CASE TerminateLoad(r)
  <2>1. req[r].pc = "tmLoad" /\ req[r].op = "terminate" /\ req[r].ses # 0
    BY <1>7, <1>8, <1>18 DEF TerminateLoad, At, HandlerOp, Acting
  <2>2. req[r].target \in SessionsOf(req[r].user) => Own(req[r].target, req[r].user)
    BY Ranges DEF SessionsOf, Own
  <2> QED BY <1>2, <1>4, <1>18, <2>1, <2>2 DEF TerminateLoad, HandlerOp, Acting
<1>19. CASE FlushRevoke(r)
  <2>1. CASE Become(r, [req[r] EXCEPT !.pc = "commit", !.wSes = {req[r].target}])
             /\ req[r].target \in sesRows
    <3>1. Own(req[r].target, req[r].user) /\ {req[r].target} \in SUBSET SesIds
      BY <1>1, <1>19, <2>1, Ranges DEF FlushRevoke, WorkOf, ClosesOwn
    <3>2. req[r].op # "logoutAll"
      BY <1>8, <1>19 DEF FlushRevoke, HandlerOp
    <3> QED BY <1>14, <1>19, <2>1, <3>1, <3>2 DEF FlushRevoke
  <2> QED BY <1>2, <1>19, <2>1 DEF FlushRevoke
<1> QED BY <1>5, <1>6, <1>9, <1>10, <1>11, <1>12, <1>13, <1>16, <1>17, <1>18, <1>19

LEMMA SettleRests ==
    ASSUME NEW r \in Workers, NEW p \in Resting, Settle(r, p)
    PROVE  \E x : AtRest(x) /\ Become(r, x)
<1> DEFINE x == [Idle EXCEPT !.pc = p, !.ses = req[r].ses, !.late = req[r].late]
<1>1. AtRest(x) /\ Become(r, x)
  BY DEF AtRest, Idle, Settle
<1> QED BY <1>1

LEMMA GrantWork ==
    ASSUME TypeInv, TypeInv', Steady, WorkInv, NEW r \in Workers,
           LoginStore(r) \/ RefreshStore(r) \/ Commit(r)
    PROVE  WorkInv'
<1>1. \E x : AtRest(x) /\ Become(r, x)
  <2>1. CASE Fail(r)
    <3>1. AtRest(Idle)
      BY DEF AtRest, Idle, Resting
    <3> QED BY <2>1, <3>1 DEF Fail
  <2>2. CASE OpenSession(r, lastSes + 1, lastTok + 1)
    <3> DEFINE s == lastSes + 1
               x == [Idle EXCEPT !.pc = "ok", !.ses = s]
    <3>1. AtRest(x) /\ Become(r, x)
      BY <2>2 DEF AtRest, Idle, Resting, OpenSession
    <3> QED BY <3>1
  <2>3. CASE Settle(r, "ok") \/ Settle(r, "bare")
    BY <2>3, SettleRests DEF Resting
  <2> QED BY <2>1, <2>2, <2>3 DEF LoginStore, NoRoom, RefreshStore, StoreNothing, StoreSuccessor,
             StoreRefused, Commit
<1> QED BY <1>1, RestingWork

LEMMA NextWork ==
    ASSUME TypeInv, WorkInv, BlacklistRedundant, [Next]_vars
    PROVE  WorkInv'
<1>1. TypeInv' /\ Steady
  BY NextTypeInv, NextSteady
<1>2. CASE req' = req
  <2>1. ASSUME NEW r \in Workers PROVE WorkOf(req[r])'
    <3>1. PICK x \in Request : x = req[r]
      BY DEF TypeInv, TypeOK
    <3>2. WorkOf(x)'
      BY <1>1, <3>1, WorkStable DEF TypeInv, Control, WorkInv
    <3> QED BY <1>2, <3>1, <3>2
  <2> QED BY <2>1 DEF WorkInv
<1>3. CASE Environment \/ UNCHANGED vars
  BY <1>2, <1>3 DEF Environment, SetActive, CleanupTokens, CleanupBlacklist, CleanupSessions,
     Tick, vars
<1>4. ASSUME NEW r \in Workers, Arrive(r) \/ Step(r) \/ Crash(r)
      PROVE  WorkInv'
  BY <1>1, <1>4, ArriveWork, RefreshWork, HandlerWork, GrantWork, FailWork DEF Step, Crash, tables
<1> QED BY <1>3, <1>4 DEF Next

-----------------------------------------------------------------------------
(* The chain of rotations, one writer at a time. *)
LEMMA ChainQuiet ==
    ASSUME Chained, UNCHANGED tables
    PROVE  Chained'
BY DEF tables, Chained, RotationConsistent, BlacklistRedundant

LEMMA LoginChain ==
    ASSUME TypeInv, Chained, NEW r \in Workers, LoginStore(r)
    PROVE  Chained'
<1>1. CASE NoRoom(r, lastSes + 1, lastTok + 1)
  BY <1>1, ChainQuiet DEF NoRoom
<1>2. CASE OpenSession(r, lastSes + 1, lastTok + 1)
  <2> DEFINE s == lastSes + 1
             t == lastTok + 1
  <2>1. s \in SesIds /\ t \in TokIds /\ t \notin 1..lastTok /\ 1..t = 1..lastTok \cup {t}
    BY <1>2, Ranges DEF OpenSession, SesIds, TokIds
  <2>2. /\ tok'[t].ses = s /\ tok'[t].next = 0 /\ tok'[t].from = 0
        /\ \A z \in 1..lastTok : tok'[z] = tok[z]
        /\ sesRows' = sesRows \cup {s} /\ tokRows' = tokRows \cup {t}
        /\ blackRows' = blackRows /\ lastTok' = t
    BY <1>2, <2>1 DEF OpenSession, TypeInv, TypeOK
  <2> HIDE DEF s, t
  <2>3. RotationConsistent'
    <3>1. \A z \in tokRows' : tok'[z].ses \in sesRows'
      BY <2>2, Ranges DEF Chained, RotationConsistent
    <3>2. \A z \in 1..lastTok :
             /\ tok'[z].next # 0 => /\ tok'[z].used
                                    /\ tok'[tok'[z].next].ses = tok'[z].ses
                                    /\ tok'[tok'[z].next].from = z
             /\ tok'[z].from \in tokRows' => tok'[tok'[z].from].used
      <4> TAKE z \in 1..lastTok
      <4>1. tok[z].next \in 0..lastTok /\ tok[z].from \in 0..lastTok
        BY DEF Chained
      <4>2. tok[z].next # 0 => tok'[tok[z].next] = tok[tok[z].next]
        BY <2>2, <4>1
      <4>3. tok[z].from \in tokRows' => tok[z].from \in tokRows /\ tok'[tok[z].from] = tok[tok[z].from]
        BY <2>1, <2>2, <4>1, Ranges DEF t
      <4> QED BY <2>2, <4>2, <4>3 DEF Chained, RotationConsistent
    <3>3. tok'[t].from \notin tokRows'
      BY <2>1, <2>2, Ranges DEF t
    <3> QED BY <2>1, <2>2, <3>1, <3>2, <3>3 DEF RotationConsistent
  <2>4. blackRows' \subseteq 1..lastTok' /\ BlacklistRedundant'
    BY <2>1, <2>2, Ranges DEF Chained, BlacklistRedundant
  <2>5. \A z \in 1..lastTok' : tok'[z].next \in 0..lastTok' /\ tok'[z].from \in 0..lastTok'
    BY <2>1, <2>2, Ranges DEF Chained, t
  <2> QED BY <2>3, <2>4, <2>5 DEF Chained
<1> QED BY <1>1, <1>2 DEF LoginStore

LEMMA RefreshChain ==
    ASSUME TypeInv, WorkInv, Chained, NEW r \in Workers, RefreshStore(r)
    PROVE  Chained'
<1>1. CASE StoreRefused(r, lastTok + 1)
  BY <1>1, ChainQuiet DEF StoreRefused
<1>2. CASE StoreNothing(r)
  BY <1>2 DEF StoreNothing, Chained, RotationConsistent, BlacklistRedundant
<1>3. CASE StoreSuccessor(r, lastTok + 1)
  <2> DEFINE new == lastTok + 1
             old == req[r].tok
             W == req[r].wTok
  <2>0. lastTok + 1 <= MaxTokens
    BY <1>3 DEF StoreSuccessor
  <2>1. new \in TokIds /\ new \notin 1..lastTok /\ 1..new = 1..lastTok \cup {new}
    BY <2>0, Ranges, ConstantsAssumption DEF TokIds
  <2>2. /\ old \in 1..lastTok
        /\ old \in tokRows => old \in W
        /\ W \subseteq {old} /\ req[r].ses \in sesRows /\ req[r].ses = tok[old].ses
    <3>1. req[r].pc = "rfStore" /\ req[r].ses \in sesRows
      BY <1>3 DEF RefreshStore, StoreSuccessor, At
    <3>2. WorkOf(req[r]) /\ ControlOf(req[r])
      BY DEF WorkInv, TypeInv, Control
    <3> QED BY <3>1, <3>2, Ranges DEF WorkOf, ActsFor, Written, AfterSession, ControlOf, RefreshPcs
  <2>3. /\ tok'[new].ses = req[r].ses /\ tok'[new].next = 0 /\ tok'[new].from = old
        /\ \A z \in 1..lastTok :
              /\ tok'[z].ses = tok[z].ses /\ tok'[z].from = tok[z].from
              /\ tok'[z].used <=> (z \in W \/ tok[z].used)
              /\ tok'[z].next = IF z \in W THEN new ELSE tok[z].next
    <3>1. tok'[new] = [ses |-> req[r].ses, exp |-> now + RefreshLife, used |-> FALSE,
                       next |-> 0, from |-> req[r].tok]
      BY <1>3, <2>1 DEF StoreSuccessor
    <3>2. ASSUME NEW z \in 1..lastTok
          PROVE  /\ tok'[z].ses = tok[z].ses /\ tok'[z].from = tok[z].from
                 /\ tok'[z].used <=> (z \in W \/ tok[z].used)
                 /\ tok'[z].next = IF z \in W THEN new ELSE tok[z].next
      <4>1. z \in TokIds /\ z # new
        BY <2>1, Ranges
      <4>2. tok[z] \in TokenRow
        BY <4>1 DEF TypeInv, TypeOK
      <4>3. tok'[z] = IF z \in W THEN [tok[z] EXCEPT !.used = TRUE, !.next = new] ELSE tok[z]
        BY <1>3, <4>1 DEF StoreSuccessor
      <4> QED BY <4>2, <4>3 DEF TokenRow
    <3> QED BY <3>1, <3>2
  <2>4. /\ sesRows' = sesRows /\ tokRows' = tokRows \cup {new}
        /\ blackRows' = blackRows /\ lastTok' = new
    BY <1>3 DEF StoreSuccessor
  <2>5. new \notin tokRows /\ new \in Nat /\ new # 0 /\ lastTok < new
    BY Ranges
  <2> HIDE DEF new, old, W
  <2>6. RotationConsistent'
    <3>1. \A z \in tokRows' : tok'[z].ses \in sesRows'
      BY <2>2, <2>3, <2>4, Ranges DEF Chained, RotationConsistent
    <3>2. \A z \in 1..lastTok :
             /\ tok'[z].next # 0 => /\ tok'[z].used
                                    /\ tok'[tok'[z].next].ses = tok'[z].ses
                                    /\ tok'[tok'[z].next].from = z
             /\ tok'[z].from \in tokRows' => tok'[tok'[z].from].used
      <4> TAKE z \in 1..lastTok
      <4>1. tok[z].next \in 0..lastTok /\ tok[z].from \in 0..lastTok
        BY DEF Chained
      <4>2. /\ tok[z].next # 0 => /\ tok[z].used /\ tok[tok[z].next].ses = tok[z].ses
                                  /\ tok[tok[z].next].from = z
            /\ tok[z].from \in tokRows => tok[tok[z].from].used
        BY DEF Chained, RotationConsistent
      <4>3. tok'[z].from \in tokRows' => tok'[tok'[z].from].used
        <5>1. tok[z].from \in tokRows' => tok[z].from \in tokRows
          BY <2>4, <2>5, <4>1, Ranges
        <5> QED BY <2>3, <4>2, <5>1, Ranges
      <4>4. CASE z \in W
        <5>1. z = old
          BY <2>2, <4>4
        <5> QED BY <2>2, <2>3, <4>3, <4>4, <5>1
      <4>5. CASE z \notin W
        <5>1. tok[z].next # 0 => tok[z].next \in 1..lastTok
          BY <4>1, Ranges
        <5> QED BY <2>3, <4>2, <4>3, <4>5, <5>1
      <4> QED BY <4>4, <4>5
    <3>3. tok'[new].from \in tokRows' => tok'[tok'[new].from].used
      BY <2>1, <2>2, <2>3, <2>4
    <3> QED BY <2>1, <2>3, <2>4, <3>1, <3>2, <3>3 DEF RotationConsistent
  <2>7. blackRows' \subseteq 1..lastTok' /\ BlacklistRedundant'
    BY <2>1, <2>3, <2>4, Ranges DEF Chained, BlacklistRedundant
  <2>8. \A z \in 1..lastTok' : tok'[z].next \in 0..lastTok' /\ tok'[z].from \in 0..lastTok'
    <3>1. 0..lastTok \subseteq 0..new /\ 1..lastTok \subseteq 0..new /\ new \in 0..new
      BY <2>5, Ranges
    <3>2. tok'[new].next \in 0..new /\ tok'[new].from \in 0..new
      BY <2>2, <2>3, <2>5, <3>1
    <3>3. \A z \in 1..lastTok : tok'[z].next \in 0..new /\ tok'[z].from \in 0..new
      BY <2>3, <3>1 DEF Chained
    <3> QED BY <2>1, <2>4, <3>2, <3>3
  <2> QED BY <2>6, <2>7, <2>8 DEF Chained
<1> QED BY <1>1, <1>2, <1>3 DEF RefreshStore

LEMMA CommitChain ==
    ASSUME TypeInv, WorkInv, Chained, NEW r \in Workers, Commit(r)
    PROVE  Chained'
<1>1. \A z \in TokIds : /\ tok'[z].ses = tok[z].ses /\ tok'[z].from = tok[z].from
                        /\ tok'[z].next = tok[z].next
                        /\ tok'[z].used <=> (tok[z].used \/ z \in req[r].wTok)
  <2> TAKE z \in TokIds
  <2>1. tok'[z] = [tok[z] EXCEPT !.used = @ \/ z \in req[r].wTok]
    BY DEF Commit
  <2>2. tok[z] \in TokenRow
    BY DEF TypeInv, TypeOK
  <2> QED BY <2>1, <2>2 DEF TokenRow
<1>2. /\ sesRows' = sesRows /\ tokRows' = tokRows /\ lastTok' = lastTok
      /\ blackRows' = blackRows \cup req[r].wBlk
  BY DEF Commit
<1>3. /\ req[r].wBlk \subseteq 1..lastTok
      /\ \A t \in req[r].wBlk : t \notin tokRows \/ tok[t].used \/ t \in req[r].wTok
  BY DEF WorkInv, WorkOf, Written, TokenDead
<1>4. RotationConsistent'
  <2>1. \A z \in tokRows' : tok'[z].ses \in sesRows'
    BY <1>1, <1>2, Ranges DEF Chained, RotationConsistent
  <2>2. \A z \in 1..lastTok :
           /\ tok'[z].next # 0 => /\ tok'[z].used
                                  /\ tok'[tok'[z].next].ses = tok'[z].ses
                                  /\ tok'[tok'[z].next].from = z
           /\ tok'[z].from \in tokRows' => tok'[tok'[z].from].used
    <3> TAKE z \in 1..lastTok
    <3>1. tok[z].next # 0 => tok[z].next \in TokIds
      BY Ranges DEF Chained
    <3>2. z \in TokIds /\ (tok[z].from \in tokRows => tok[z].from \in TokIds)
      BY Ranges
    <3>3. /\ tok[z].next # 0 => /\ tok[z].used /\ tok[tok[z].next].ses = tok[z].ses
                                /\ tok[tok[z].next].from = z
          /\ tok[z].from \in tokRows => tok[tok[z].from].used
      BY DEF Chained, RotationConsistent
    <3> QED BY <1>1, <1>2, <3>1, <3>2, <3>3, ZenonT(60)
  <2> QED BY <1>2, <2>1, <2>2 DEF RotationConsistent
<1>5. BlacklistRedundant'
  BY <1>1, <1>2, <1>3, Ranges DEF Chained, BlacklistRedundant
<1>6. blackRows' \subseteq 1..lastTok'
  BY <1>2, <1>3 DEF Chained
<1>7. \A z \in 1..lastTok' : tok'[z].next \in 0..lastTok' /\ tok'[z].from \in 0..lastTok'
  BY <1>1, <1>2, Ranges DEF Chained
<1> QED BY <1>4, <1>5, <1>6, <1>7 DEF Chained

LEMMA EnvironmentChain ==
    ASSUME TypeInv, Chained, Environment
    PROVE  Chained'
<1>1. CASE (\E u \in Users : SetActive(u)) \/ Tick
  BY <1>1, ChainQuiet DEF SetActive, Tick
<1>2. CASE CleanupTokens
  BY <1>2 DEF CleanupTokens, Chained, RotationConsistent, BlacklistRedundant
<1>3. CASE CleanupBlacklist
  BY <1>3 DEF CleanupBlacklist, Chained, RotationConsistent, BlacklistRedundant
<1>4. CASE CleanupSessions
  BY <1>4 DEF CleanupSessions, Chained, RotationConsistent, BlacklistRedundant
<1> QED BY <1>1, <1>2, <1>3, <1>4 DEF Environment

LEMMA NextChain ==
    ASSUME TypeInv, WorkInv, Chained, [Next]_vars
    PROVE  Chained'
<1>1. CASE Environment
  BY <1>1, EnvironmentChain
<1>2. ASSUME NEW r \in Workers, Arrive(r) \/ Step(r) \/ Crash(r)
      PROVE  Chained'
  <2>1. CASE ~LoginStore(r) /\ ~RefreshStore(r) /\ ~Commit(r)
    BY <1>2, <2>1, QuietSteps, ChainQuiet
  <2> QED BY <2>1, LoginChain, RefreshChain, CommitChain
<1>3. CASE UNCHANGED vars
  BY <1>3, ChainQuiet DEF vars
<1> QED BY <1>1, <1>2, <1>3 DEF Next

-----------------------------------------------------------------------------
(* What is true in every reachable state. *)
SafeInv == TypeInv /\ WorkInv /\ Chained

LEMMA InitSafe == Init => SafeInv
<1> SUFFICES ASSUME Init PROVE SafeInv
  OBVIOUS
<1>1. TypeInv
  BY InitTypeInv
<1>2. WorkInv
  <2>1. AtRest(Idle)
    BY DEF AtRest, Idle, Resting
  <2> QED BY <1>1, <2>1, RestWorks DEF Init, WorkInv
<1>3. Chained
  BY DEF Init, Chained, RotationConsistent, BlacklistRedundant
<1> QED BY <1>1, <1>2, <1>3 DEF SafeInv

LEMMA NextSafe == SafeInv /\ [Next]_vars => SafeInv'
BY NextTypeInv, NextWork, NextChain DEF SafeInv, Chained

(* TokensConsistent: no interleaving of rotations, logouts, terminations   *)
(* and cleanups splits the two halves of a rotation, leaves a token        *)
(* without its session or a blacklisted one usable.                        *)
THEOREM TokensStayConsistent == Spec => []TokensConsistent
<1>1. SafeInv => TokensConsistent
  BY DEF SafeInv, TypeInv, Chained, TokensConsistent
<1> QED BY <1>1, InitSafe, NextSafe, PTL DEF Spec

-----------------------------------------------------------------------------
(* A step is of the environment or of one worker. *)
LEMMA OneMoves ==
    ASSUME NEW r \in Workers, Arrive(r) \/ Step(r) \/ Crash(r)
    PROVE  \E x : Become(r, x)
<1>1. CASE Arrive(r)
  BY <1>1 DEF Arrive, BeginLogin, BeginAuthBare, BeginRefresh, BeginAuth
<1>2. CASE Crash(r)
  BY <1>2 DEF Crash, Fail
<1>3. CASE \/ LoginStore(r) \/ RefreshCheck(r) \/ RefreshReplay(r) \/ RefreshRevoke(r)
           \/ RefreshReplayed(r) \/ RefreshSession(r) \/ RefreshUser(r) \/ RefreshRotate(r)
           \/ RefreshMark(r) \/ RefreshStore(r)
  BY <1>3 DEF LoginStore, OpenSession, NoRoom, RefreshCheck, RefreshReplay, RefreshRevoke,
     RefreshReplayed, RefreshSession, RefreshUser, RefreshRotate, RefreshMark, RefreshStore,
     StoreNothing, StoreSuccessor, StoreRefused, Goto, Fail, Settle
<1>4. CASE \/ AuthSession(r) \/ AuthUser(r) \/ LogoutLoad(r) \/ LogoutRevoke(r)
           \/ LogoutSession(r) \/ LogoutAllList(r) \/ LogoutAllTokens(r)
           \/ LogoutAllSessions(r) \/ TerminateAll(r) \/ PasswordUpdate(r)
           \/ PasswordSessions(r) \/ TerminateLoad(r) \/ FlushRevoke(r) \/ Commit(r)
  BY <1>4 DEF AuthSession, AuthUser, LogoutLoad, LogoutRevoke, LogoutSession, LogoutAllList,
     LogoutAllTokens, LogoutAllSessions, TerminateAll, PasswordUpdate, PasswordSessions,
     TerminateLoad, FlushRevoke, BulkRevoke, Commit, Goto, Fail, Settle
<1> QED BY <1>1, <1>2, <1>3, <1>4 DEF Step

(* What is granted after "commit" was granted by the commit. *)
LEMMA CommitGrants ==
    ASSUME TypeInv, [Next]_vars, NEW r \in Workers, req[r].pc = "commit", req'[r].pc = "ok"
    PROVE  Commit(r)
<1>1. ~Environment /\ ~UNCHANGED vars
  BY DEF Environment, SetActive, CleanupTokens, CleanupBlacklist, CleanupSessions, Tick, vars
<1>2. PICK q \in Workers : Arrive(q) \/ Step(q) \/ Crash(q)
  BY <1>1 DEF Next
<1>3. q = r
  <2>1. PICK x : Become(q, x)
    BY <1>2, OneMoves
  <2> QED BY <2>1 DEF Become, TypeInv, TypeOK
<1>4. ~Arrive(r)
  BY DEF Arrive, BeginLogin, BeginAuthBare, BeginRefresh, BeginAuth, Resting
<1>5. ~Crash(r)
  BY FailFields DEF Crash
<1>6. Step(r)
  BY <1>2, <1>3, <1>4, <1>5
<1> QED
  BY <1>6 DEF Step, At, LoginStore, RefreshCheck, RefreshReplay, RefreshRevoke, RefreshReplayed,
     RefreshSession, RefreshUser, RefreshRotate, RefreshMark, RefreshStore, AuthSession, AuthUser,
     LogoutLoad, LogoutRevoke, LogoutSession, LogoutAllList, LogoutAllTokens, LogoutAllSessions,
     TerminateAll, PasswordUpdate, PasswordSessions, TerminateLoad, FlushRevoke

LEMMA CommitCloses ==
    ASSUME TypeInv, NEW r \in Workers, Commit(r), NEW s \in req[r].wSes
    PROVE  ~Open(s)'
<1>1. s \in SesIds /\ now # 0
  BY Ranges DEF TypeInv, TypeOK, Request
<1>2. ses'[s] = [ses[s] EXCEPT !.revokedAt = now] /\ ses[s] \in SessionRow
  BY <1>1 DEF Commit, TypeInv, TypeOK
<1>3. ses'[s].revokedAt = now
  BY <1>2 DEF SessionRow
<1> QED BY <1>1, <1>3 DEF Open

(* LogoutLeavesNothing: the refresh token and the session that a logout    *)
(* named are dead when it answers, even when the rollback inside           *)
(* add_to_blacklist threw its own writes away.                             *)
THEOREM LogoutIsComplete == Spec => LogoutLeavesNothing
<1> DEFINE A == \A r \in Workers :
          req[r].pc = "commit" /\ req[r].op = "logout" /\ req'[r].pc = "ok" =>
             /\ \A t \in TokIds : t = req[r].tok => t \notin tokRows' \/ tok'[t].used
             /\ \A s \in SesIds : s = req[r].target /\ ses[s].owner = req[r].user
                                 => ~Open(s)'
<1>1. SafeInv /\ [Next]_vars => A
  <2> SUFFICES ASSUME SafeInv, [Next]_vars, NEW r \in Workers,
                      req[r].pc = "commit", req[r].op = "logout", req'[r].pc = "ok"
               PROVE  /\ \A t \in TokIds : t = req[r].tok => t \notin tokRows' \/ tok'[t].used
                      /\ \A s \in SesIds : s = req[r].target /\ ses[s].owner = req[r].user
                                          => ~Open(s)'
    OBVIOUS
  <2>1. Commit(r) /\ WorkOf(req[r]) /\ TypeInv /\ TypeInv' /\ Monotone
    BY CommitGrants, NextTypeInv, NextMonotone DEF SafeInv, WorkInv
  <2>2. /\ TokenDead(req[r].tok, req[r])
        /\ req[r].target \in req[r].wSes \/ req[r].target \notin sesRows
           \/ ses[req[r].target].owner # req[r].user
    BY <2>1 DEF WorkOf, Written
  <2>3. ASSUME NEW t \in TokIds, t = req[r].tok
        PROVE  t \notin tokRows' \/ tok'[t].used
    <3>1. tok'[t] = [tok[t] EXCEPT !.used = @ \/ t \in req[r].wTok] /\ tok[t] \in TokenRow
      BY <2>1 DEF Commit, TypeInv, TypeOK
    <3>2. tok'[t].used <=> (tok[t].used \/ t \in req[r].wTok)
      BY <3>1 DEF TokenRow
    <3>3. tokRows' = tokRows
      BY <2>1 DEF Commit
    <3> QED BY <2>2, <2>3, <3>2, <3>3 DEF TokenDead
  <2>4. ASSUME NEW s \in SesIds, s = req[r].target, ses[s].owner = req[r].user
        PROVE  ~Open(s)'
    <3>1. CASE s \in req[r].wSes
      BY <2>1, <3>1, CommitCloses
    <3>2. CASE s \notin sesRows
      BY <2>1, <3>2 DEF Commit, Open
    <3> QED BY <2>2, <2>4, <3>1, <3>2
  <2> QED BY <2>3, <2>4
<1>2. SafeInv /\ [Next]_vars => [A]_vars
  BY <1>1
<1> QED BY <1>2, InitSafe, NextSafe, PTL DEF Spec, LogoutLeavesNothing

LEMMA LogoutAllCloses == Spec => LogoutAllClosesEverything
<1> DEFINE A == \A r \in Workers :
          req[r].pc = "commit" /\ req[r].op = "logoutAll" /\ req'[r].pc = "ok" =>
             \A s \in 1..req[r].horizon : ses[s].owner = req[r].user => ~Open(s)'
<1>1. SafeInv /\ [Next]_vars => A
  <2> SUFFICES ASSUME SafeInv, [Next]_vars, NEW r \in Workers,
                      req[r].pc = "commit", req[r].op = "logoutAll", req'[r].pc = "ok",
                      NEW s \in 1..req[r].horizon, ses[s].owner = req[r].user
               PROVE  ~Open(s)'
    OBVIOUS
  <2>1. Commit(r) /\ WorkOf(req[r]) /\ TypeInv /\ TypeInv' /\ Monotone
    BY CommitGrants, NextTypeInv, NextMonotone DEF SafeInv, WorkInv
  <2>2. s \in req[r].wSes \/ ~Open(s)
    BY <2>1 DEF WorkOf, Written
  <2>3. s \in 1..lastSes
    BY <2>1, Ranges DEF WorkOf, Known
  <2> QED BY <2>1, <2>2, <2>3, CommitCloses, MonotoneCloses
<1>2. SafeInv /\ [Next]_vars => [A]_vars
  BY <1>1
<1> QED BY <1>2, InitSafe, NextSafe, PTL DEF Spec, LogoutAllClosesEverything

LEMMA OnlyOwnClosed == Spec => ClosesOwnOnly
<1> DEFINE A == \A s \in 1..lastSes : ses[s].revokedAt # ses'[s].revokedAt =>
                    \E r \in Workers : req[r].pc = "commit" /\ req[r].user = ses[s].owner
<1>1. SafeInv /\ [Next]_vars => A
  <2> SUFFICES ASSUME SafeInv, [Next]_vars, NEW s \in 1..lastSes,
                      ses[s].revokedAt # ses'[s].revokedAt
               PROVE  \E r \in Workers : req[r].pc = "commit" /\ req[r].user = ses[s].owner
    OBVIOUS
  <2>1. TypeInv /\ WorkInv /\ s \in SesIds /\ s # lastSes + 1 /\ ses[s] \in SessionRow
    BY Ranges DEF SafeInv, TypeInv, TypeOK
  <2>2. ses' # ses
    OBVIOUS
  <2>3. PICK r \in Workers : Arrive(r) \/ Step(r) \/ Crash(r)
    BY <2>2 DEF Next, Environment, SetActive, CleanupTokens, CleanupBlacklist, CleanupSessions,
       Tick, vars, tables
  <2>4. CASE LoginStore(r)
    <3>1. ses'[s] = ses[s]
      BY <2>1, <2>2, <2>4 DEF LoginStore, OpenSession, NoRoom, tables, TypeInv, TypeOK
    <3> QED BY <3>1
  <2>5. CASE RefreshStore(r)
    <3>1. ses' = [ses EXCEPT ![req[r].ses].access = now + AccessLife]
      BY <2>2, <2>5 DEF RefreshStore, StoreNothing, StoreSuccessor, StoreRefused, tables
    <3>2. ses'[s].revokedAt = ses[s].revokedAt
      BY <2>1, <3>1 DEF SessionRow, TypeInv, TypeOK
    <3> QED BY <3>2
  <2>6. CASE Commit(r)
    <3>1. s \in req[r].wSes
      BY <2>1, <2>6 DEF Commit
    <3>2. Own(s, req[r].user)
      BY <2>1, <3>1 DEF WorkInv, WorkOf, ClosesOwn
    <3> QED BY <2>6, <3>2 DEF Own, Commit, At
  <2> QED BY <2>1, <2>2, <2>3, <2>4, <2>5, <2>6, QuietSteps DEF tables
<1>2. SafeInv /\ [Next]_vars => [A]_vars
  BY <1>1
<1> QED BY <1>2, InitSafe, NextSafe, PTL DEF Spec, ClosesOwnOnly

(* ClosesAllOfOwn: logout everywhere closes every session it listed, and   *)
(* no request closes a session of another user.                            *)
THEOREM ClosesAllAndOwn == Spec => ClosesAllOfOwn
BY LogoutAllCloses, OnlyOwnClosed DEF ClosesAllOfOwn

-----------------------------------------------------------------------------
(* The refinement of SessionPromise.  Held and granted sessions depend on  *)
(* the worker's record alone, the status of a session on the tables alone. *)
HeldBy(x) == IF x.pc \notin Resting /\ x.pc # "auSession" THEN x.ses ELSE 0
GrantedTo(x) == IF x.pc = "ok" THEN x.ses ELSE 0
StatusOf(s) == IF s > lastSes THEN "unborn" ELSE IF Open(s) THEN "open"
               ELSE IF s \in sesRows THEN "closed" ELSE "purged"

LEMMA Shown ==
    /\ Status = [s \in SesIds |-> StatusOf(s)]
    /\ Holds = [r \in Workers |-> HeldBy(req[r])]
    /\ Granted = [r \in Workers |-> GrantedTo(req[r])]
BY DEF Status, StatusOf, Holds, HeldBy, Granted, GrantedTo

LEMMA MoveShows ==
    ASSUME TypeInv, NEW r \in Workers, NEW x, Become(r, x)
    PROVE  /\ Holds[r] = HeldBy(req[r]) /\ Granted[r] = GrantedTo(req[r])
           /\ Holds' = [Holds EXCEPT ![r] = HeldBy(x)]
           /\ Granted' = [Granted EXCEPT ![r] = GrantedTo(x)]
<1>1. req'[r] = x /\ \A q \in Workers : q # r => req'[q] = req[q]
  BY DEF Become, TypeInv, TypeOK
<1>2. Holds' = [q \in Workers |-> HeldBy(req'[q])] /\ Granted' = [q \in Workers |-> GrantedTo(req'[q])]
  BY DEF Holds, HeldBy, Granted, GrantedTo
<1>3. Holds' = [Holds EXCEPT ![r] = HeldBy(x)]
  BY <1>1, <1>2, Shown
<1>4. Granted' = [Granted EXCEPT ![r] = GrantedTo(x)]
  BY <1>1, <1>2, Shown
<1> QED BY <1>3, <1>4, Shown

(* The tables as a session's status sees them. *)
LEMMA StatusKept ==
    ASSUME UNCHANGED <<now, sesRows, lastSes>>,
           \A s \in SesIds : ses'[s].revokedAt = ses[s].revokedAt /\ ses'[s].absExp = ses[s].absExp
    PROVE  Status' = Status
<1>1. \A s \in SesIds : Open(s)' <=> Open(s)
  BY DEF Open
<1> QED BY <1>1 DEF Status

PromiseStep == [Promise!PromiseNext]_(Promise!promiseVars)

(* A step that writes no session: the record of the worker says which step *)
(* of the promise it is.                                                   *)
LEMMA RecordStep ==
    ASSUME SafeInv, NEW r \in Workers, NEW x, Become(r, x), Status' = Status,
           \/ HeldBy(x) = HeldBy(req[r]) /\ GrantedTo(x) = GrantedTo(req[r])
           \/ HeldBy(x) = HeldBy(req[r]) /\ GrantedTo(x) = 0
           \/ HeldBy(x) = 0 /\ GrantedTo(x) = GrantedTo(req[r])
           \/ /\ HeldBy(req[r]) = 0 /\ Open(HeldBy(x)) /\ GrantedTo(x) = GrantedTo(req[r])
           \/ HeldBy(req[r]) # 0 /\ HeldBy(x) = 0 /\ GrantedTo(x) = HeldBy(req[r])
    PROVE  PromiseStep
<1>1. /\ Holds[r] = HeldBy(req[r]) /\ Granted[r] = GrantedTo(req[r])
      /\ Holds' = [Holds EXCEPT ![r] = HeldBy(x)]
      /\ Granted' = [Granted EXCEPT ![r] = GrantedTo(x)]
  BY MoveShows DEF SafeInv
<1>2. Holds = [Holds EXCEPT ![r] = Holds[r]] /\ Granted = [Granted EXCEPT ![r] = Granted[r]]
  BY Shown
<1>3. CASE HeldBy(x) = HeldBy(req[r]) /\ GrantedTo(x) = GrantedTo(req[r])
  BY <1>1, <1>2, <1>3 DEF PromiseStep, Promise!promiseVars
<1>4. CASE HeldBy(x) = HeldBy(req[r]) /\ GrantedTo(x) = 0 /\ GrantedTo(req[r]) # 0
  <2>1. Promise!Forget(r)
    BY <1>1, <1>2, <1>4 DEF Promise!Forget
  <2> QED BY <2>1 DEF PromiseStep, Promise!PromiseNext
<1>5. CASE HeldBy(x) = 0 /\ HeldBy(req[r]) # 0 /\ GrantedTo(x) = GrantedTo(req[r])
  <2>1. Promise!Refuse(r)
    BY <1>1, <1>2, <1>5 DEF Promise!Refuse
  <2> QED BY <2>1 DEF PromiseStep, Promise!PromiseNext
<1>6. CASE HeldBy(req[r]) = 0 /\ Open(HeldBy(x)) /\ GrantedTo(x) = GrantedTo(req[r])
  <2> DEFINE s == HeldBy(x)
  <2>1. s \in SesIds /\ s \in 1..lastSes
    BY <1>6, Ranges DEF SafeInv, Open
  <2>2. Status[s] = "open"
    BY <1>6, <2>1, Ranges DEF Status, SafeInv
  <2>3. Promise!Admit(r, s)
    BY <1>1, <1>2, <1>6, <2>2 DEF Promise!Admit
  <2> QED BY <2>1, <2>3 DEF PromiseStep, Promise!PromiseNext
<1>7. CASE HeldBy(req[r]) # 0 /\ HeldBy(x) = 0 /\ GrantedTo(x) = HeldBy(req[r])
  <2>1. Status = [s \in SesIds |-> IF s \in {} THEN "closed" ELSE Status[s]]
    BY Shown
  <2>2. Promise!Grant(r, {})
    BY <1>1, <1>7, <2>1 DEF Promise!Grant, Promise!Opened, Promise!Becomes
  <2> QED BY <2>2 DEF PromiseStep, Promise!PromiseNext
<1> QED BY <1>3, <1>4, <1>5, <1>6, <1>7

LEMMA QuietPromise ==
    ASSUME SafeInv, NEW r \in Workers, Step(r) \/ Arrive(r) \/ Crash(r),
           ~LoginStore(r), ~RefreshStore(r), ~Commit(r)
    PROVE  PromiseStep
<1>1. Status' = Status
  BY QuietSteps, StatusKept DEF SafeInv, tables
<1>2. ActsFor(req[r]) /\ ControlOf(req[r]) /\ req[r] \in Request
  BY DEF SafeInv, WorkInv, WorkOf, TypeInv, TypeOK, Control
<1>3. CASE Arrive(r)
  <2>1. req[r].pc \in Resting
    BY <1>3 DEF Arrive, BeginLogin, BeginAuthBare, BeginRefresh, BeginAuth
  <2>2. \E x : Become(r, x) /\ x.pc \in {"liStore", "auUser", "rfCheck", "auSession"}
                           /\ (x.ses = 0 \/ x.pc = "auSession")
    <3>1. ASSUME NEW u \in Users, BeginLogin(r, u)
          PROVE  \E x : Become(r, x) /\ x.pc = "liStore" /\ x.ses = 0
      <4> DEFINE x == [Idle EXCEPT !.pc = "liStore", !.op = "login", !.user = u, !.pwSeen = pw[u]]
      <4>1. x.pc = "liStore" /\ x.ses = 0
        BY DEF Idle
      <4>2. Become(r, x)
        BY <3>1 DEF BeginLogin
      <4> HIDE DEF x
      <4> QED BY <4>1, <4>2
    <3>2. ASSUME NEW u \in Users, BeginAuthBare(r, u)
          PROVE  \E x : Become(r, x) /\ x.pc = "auUser" /\ x.ses = 0
      <4> DEFINE x == [Idle EXCEPT !.pc = "auUser", !.op = "access", !.user = u]
      <4>1. x.pc = "auUser" /\ x.ses = 0
        BY DEF Idle
      <4>2. Become(r, x)
        BY <3>2 DEF BeginAuthBare
      <4> HIDE DEF x
      <4> QED BY <4>1, <4>2
    <3>3. ASSUME NEW t \in TokIds, BeginRefresh(r, t)
          PROVE  \E x : Become(r, x) /\ x.pc = "rfCheck" /\ x.ses = 0
      <4> DEFINE x == [Idle EXCEPT !.pc = "rfCheck", !.op = "refresh", !.tok = t,
                         !.user = ses[tok[t].ses].owner,
                         !.late = tok[t].used \/ ~Open(tok[t].ses)]
      <4>1. x.pc = "rfCheck" /\ x.ses = 0
        BY DEF Idle
      <4>2. Become(r, x)
        BY <3>3 DEF BeginRefresh
      <4> HIDE DEF x
      <4> QED BY <4>1, <4>2
    <3>4. ASSUME NEW op, NEW s, NEW t, NEW d, BeginAuth(r, op, s, t, d)
          PROVE  \E x : Become(r, x) /\ x.pc = "auSession"
      <4> DEFINE x == [Idle EXCEPT !.pc = "auSession", !.op = op, !.user = ses[s].owner,
                         !.ses = s, !.tok = t, !.target = d, !.late = ~Open(s)]
      <4>1. x.pc = "auSession"
        BY DEF Idle
      <4>2. Become(r, x)
        BY <3>4 DEF BeginAuth
      <4> HIDE DEF x
      <4> QED BY <4>1, <4>2
    <3> QED BY <1>3, <3>1, <3>2, <3>3, <3>4 DEF Arrive
  <2>3. PICK x : /\ Become(r, x) /\ x.pc \in {"liStore", "auUser", "rfCheck", "auSession"}
                 /\ x.ses = 0 \/ x.pc = "auSession"
    BY <2>2
  <2>4. HeldBy(req[r]) = 0 /\ HeldBy(x) = 0 /\ GrantedTo(x) = 0
    BY <2>1, <2>3 DEF HeldBy, GrantedTo, Resting
  <2> QED BY <1>1, <2>3, <2>4, RecordStep
<1>4. CASE Fail(r) /\ req[r].pc \notin Resting
  <2>1. HeldBy(Idle) = 0 /\ GrantedTo(Idle) = 0 /\ GrantedTo(req[r]) = 0
    BY <1>4 DEF HeldBy, GrantedTo, Idle, Resting
  <2> QED BY <1>1, <1>4, <2>1, RecordStep DEF Fail
<1>5. ASSUME NEW x, Become(r, x), req[r].pc \notin Resting \cup {"auSession"},
             x.pc \notin Resting \cup {"auSession"},
             x.ses = req[r].ses \/ (req[r].ses = 0 /\ Open(x.ses))
      PROVE  PromiseStep
  <2>1. HeldBy(x) = x.ses /\ HeldBy(req[r]) = req[r].ses /\ GrantedTo(x) = 0 /\ GrantedTo(req[r]) = 0
    BY <1>5 DEF HeldBy, GrantedTo, Resting
  <2> QED BY <1>1, <1>5, <2>1, RecordStep
<1>6. ASSUME NEW p, p \notin Resting \cup {"auSession"}, Goto(r, p),
             req[r].pc \notin Resting \cup {"auSession"}
      PROVE  PromiseStep
  <2> DEFINE x == [req[r] EXCEPT !.pc = p]
  <2>1. x.pc = p /\ x.ses = req[r].ses /\ Become(r, x)
    BY <1>2, <1>6 DEF Request, Goto
  <2> HIDE DEF x
  <2> QED BY <1>5, <1>6, <2>1
<1>7. CASE Crash(r)
  BY <1>4, <1>7 DEF Crash
<1>8. CASE RefreshCheck(r) \/ RefreshReplayed(r) \/ RefreshUser(r) \/ RefreshRotate(r)
  BY <1>4, <1>6, <1>8 DEF RefreshCheck, RefreshReplayed, RefreshUser, RefreshRotate, At, Resting
<1>9. CASE RefreshReplay(r)
  <2>1. CASE Become(r, [req[r] EXCEPT !.pc = "rfRevoke", !.horizon = lastSes])
    BY <1>2, <1>5, <1>9, <2>1 DEF RefreshReplay, At, Resting, Request
  <2> QED BY <1>6, <1>9, <2>1 DEF RefreshReplay, At, Resting
<1>10. CASE RefreshRevoke(r)
  BY <1>2, <1>5, <1>10 DEF RefreshRevoke, At, Resting, Request
<1>11. CASE RefreshMark(r)
  <2>1. CASE Become(r, [req[r] EXCEPT !.pc = "rfStore", !.wTok = {req[r].tok}])
    BY <1>2, <1>5, <1>11, <2>1 DEF RefreshMark, At, Resting, Request
  <2> QED BY <1>4, <1>11, <2>1 DEF RefreshMark, At, Resting
<1>12. CASE RefreshSession(r)
  <2> DEFINE s == tok[req[r].tok].ses
             x == [req[r] EXCEPT !.pc = "rfUser", !.ses = s, !.oldUsed = tok[req[r].tok].used]
  <2>1. CASE Become(r, x) /\ Open(s)
    <3>1. req[r].pc = "rfSession" /\ req[r].ses = 0
      BY <1>2, <1>12 DEF RefreshSession, At, ActsFor, BeforeSession
    <3>2. x.pc = "rfUser" /\ x.ses = s
      BY <1>2 DEF Request
    <3> HIDE DEF x, s
    <3> QED BY <1>5, <2>1, <3>1, <3>2 DEF Resting
  <2> QED BY <1>4, <1>6, <1>12, <2>1 DEF RefreshSession, At, Resting
<1>13. CASE AuthSession(r)
  <2>1. CASE Goto(r, "auUser") /\ Open(req[r].ses)
    <3> DEFINE x == [req[r] EXCEPT !.pc = "auUser"]
    <3>1. x.pc = "auUser" /\ x.ses = req[r].ses /\ Become(r, x)
      BY <1>2, <2>1 DEF Request, Goto
    <3> HIDE DEF x
    <3>2. HeldBy(req[r]) = 0 /\ HeldBy(x) = req[r].ses /\ GrantedTo(x) = 0 /\ GrantedTo(req[r]) = 0
      BY <1>13, <3>1 DEF AuthSession, At, HeldBy, GrantedTo, Resting
    <3> QED BY <1>1, <2>1, <3>1, <3>2, RecordStep
  <2> QED BY <1>4, <1>13, <2>1 DEF AuthSession, At, Resting
<1>14. CASE AuthUser(r)
  <2>1. req[r].pc = "auUser" /\ req[r].op \in AccessOps
    BY <1>2, <1>14 DEF AuthUser, At, ControlOf
  <2>2. FirstStep[req[r].op] \notin Resting \cup {"auSession"}
    BY <2>1 DEF FirstStep, AccessOps, Resting
  <2> QED BY <1>4, <1>6, <1>14, <2>1, <2>2 DEF AuthUser, Resting
<1>15. CASE LogoutLoad(r) \/ LogoutSession(r) \/ PasswordUpdate(r) \/ TerminateLoad(r)
  BY <1>4, <1>6, <1>15 DEF LogoutLoad, LogoutSession, PasswordUpdate, TerminateLoad, At, Resting
<1>16. CASE LogoutRevoke(r)
  <2>1. ASSUME NEW T, NEW B, Become(r, [req[r] EXCEPT !.pc = "loSession", !.wTok = T, !.wBlk = B])
        PROVE  PromiseStep
    BY <1>2, <1>5, <1>16, <2>1 DEF LogoutRevoke, At, Resting, Request
  <2> QED BY <1>4, <1>16, <2>1 DEF LogoutRevoke, At, Resting
<1>17. CASE LogoutAllList(r)
  BY <1>2, <1>5, <1>17 DEF LogoutAllList, At, Resting, Request
<1>18. CASE LogoutAllTokens(r)
  BY <1>2, <1>5, <1>18 DEF LogoutAllTokens, At, Resting, Request
<1>19. CASE LogoutAllSessions(r) \/ TerminateAll(r) \/ PasswordSessions(r) \/ FlushRevoke(r)
  <2>1. /\ req[r].pc \notin Resting \cup {"auSession"}
        /\ Fail(r) \/ \E S : Become(r, [req[r] EXCEPT !.pc = "commit", !.wSes = S])
    BY <1>19 DEF LogoutAllSessions, TerminateAll, PasswordSessions, FlushRevoke, BulkRevoke, At, Resting
  <2>2. ASSUME NEW S, Become(r, [req[r] EXCEPT !.pc = "commit", !.wSes = S])
        PROVE  PromiseStep
    BY <1>2, <1>5, <2>1, <2>2 DEF Resting, Request
  <2> QED BY <1>4, <2>1, <2>2
<1> QED BY <1>3, <1>7, <1>8, <1>9, <1>10, <1>11, <1>12, <1>13, <1>14, <1>15, <1>16, <1>17, <1>18,
           <1>19 DEF Step

LEMMA LoginPromise ==
    ASSUME SafeInv, SafeInv', NEW r \in Workers, LoginStore(r)
    PROVE  PromiseStep
<1>1. req[r].pc = "liStore" /\ req[r].ses = 0 /\ now' = now
  BY DEF LoginStore, At, SafeInv, WorkInv, WorkOf, ActsFor, BeforeSession
<1>2. HeldBy(req[r]) = 0 /\ GrantedTo(req[r]) = 0
  BY <1>1 DEF HeldBy, GrantedTo
<1>3. CASE NoRoom(r, lastSes + 1, lastTok + 1)
  <2>1. HeldBy(Idle) = 0 /\ GrantedTo(Idle) = 0
    BY DEF HeldBy, GrantedTo, Idle
  <2>2. Status' = Status
    BY <1>1, <1>3, StatusKept DEF NoRoom, tables
  <2> QED BY <1>2, <1>3, <2>1, <2>2, RecordStep DEF NoRoom, Fail
<1>4. ASSUME NEW s \in Nat, s = lastSes + 1, OpenSession(r, s, lastTok + 1)
      PROVE  PromiseStep
  <2> DEFINE x == [Idle EXCEPT !.pc = "ok", !.ses = s]
  <2>1. Become(r, x) /\ HeldBy(x) = 0 /\ GrantedTo(x) = s
    <3>1. x.pc = "ok" /\ x.ses = s
      BY DEF Idle
    <3>2. Become(r, x)
      BY <1>4 DEF OpenSession
    <3> HIDE DEF x
    <3> QED BY <3>1, <3>2 DEF HeldBy, GrantedTo, Resting
  <2>2. s \in SesIds /\ s \notin 1..lastSes /\ lastSes' = s /\ sesRows' = sesRows \cup {s}
        /\ \A z \in SesIds : z # s => ses'[z] = ses[z]
    BY <1>4, Ranges DEF OpenSession, SesIds, SafeInv, TypeInv, TypeOK
  <2>3. ses'[s].revokedAt = 0 /\ ses'[s].absExp = now + SessionLife /\ now \in Nat
    BY <1>4, <2>2, Ranges DEF OpenSession, SafeInv, TypeInv, TypeOK
  <2>4. Open(s)'
    <3>1. now < now + SessionLife
      BY <2>3, ConstantsAssumption
    <3>2. s \in sesRows'
      BY <2>2
    <3> QED BY <1>1, <2>3, <3>1, <3>2 DEF Open
  <2>5. \A z \in SesIds : z # s => StatusOf(z)' = StatusOf(z)
    <3> SUFFICES ASSUME NEW z \in SesIds, z # s PROVE StatusOf(z)' = StatusOf(z)
      OBVIOUS
    <3>1. ses'[z] = ses[z] /\ (z \in sesRows' <=> z \in sesRows)
      BY <2>2
    <3>2. Open(z)' <=> Open(z)
      BY <1>1, <3>1 DEF Open
    <3>3. z > s <=> z > lastSes
      BY <1>4, Ranges DEF SafeInv, SesIds
    <3>4. lastSes' = s
      BY <2>2
    <3> QED BY <3>1, <3>2, <3>3, <3>4 DEF StatusOf
  <2>6. StatusOf(s)' = "open" /\ StatusOf(s) = "unborn"
    <3>1. s > lastSes /\ ~(s > lastSes)'
      BY <1>4, <2>2, Ranges DEF SafeInv
    <3> QED BY <2>4, <3>1 DEF StatusOf
  <2>7. Status' = [z \in SesIds |-> StatusOf(z)']
    BY DEF Status, StatusOf
  <2> HIDE DEF x
  <2>8. Promise!Login(r, s)
    <3>1. Status[s] = "unborn" /\ Holds[r] = 0
      BY <1>2, <2>2, <2>6, Shown
    <3>2. Status' = [z \in SesIds |-> IF z \in {s} THEN "open" ELSE Status[z]]
      BY <2>2, <2>5, <2>6, <2>7, Shown
    <3>3. Granted' = [Granted EXCEPT ![r] = s] /\ Holds' = Holds
      BY <1>2, <2>1, MoveShows, Shown DEF SafeInv
    <3> QED BY <3>1, <3>2, <3>3 DEF Promise!Login, Promise!Becomes
  <2> QED BY <2>2, <2>8 DEF PromiseStep, Promise!PromiseNext
<1>5. lastSes + 1 \in Nat
  BY Ranges DEF SafeInv
<1> QED BY <1>3, <1>4, <1>5 DEF LoginStore

LEMMA RefreshPromise ==
    ASSUME SafeInv, SafeInv', NEW r \in Workers, RefreshStore(r)
    PROVE  PromiseStep
<1>1. /\ req[r].pc = "rfStore" /\ now' = now
      /\ HeldBy(req[r]) = req[r].ses /\ GrantedTo(req[r]) = 0
  BY DEF RefreshStore, At, HeldBy, GrantedTo, Resting
<1>2. Status' = Status
  <2>1. UNCHANGED <<sesRows, lastSes>>
    BY DEF RefreshStore, StoreNothing, StoreSuccessor, StoreRefused, tables
  <2>2. \/ ses' = ses
        \/ ses' = [ses EXCEPT ![req[r].ses] = [@ EXCEPT !.access = now + AccessLife]]
    BY DEF RefreshStore, StoreNothing, StoreSuccessor, StoreRefused, tables
  <2>3. \A s \in SesIds : ses'[s].revokedAt = ses[s].revokedAt /\ ses'[s].absExp = ses[s].absExp
    <3> SUFFICES ASSUME NEW s \in SesIds, ses' # ses
                 PROVE  ses'[s].revokedAt = ses[s].revokedAt /\ ses'[s].absExp = ses[s].absExp
      OBVIOUS
    <3>1. ses \in [SesIds -> SessionRow]
      BY DEF SafeInv, TypeInv, TypeOK
    <3>2. CASE s = req[r].ses
      <4>1. ses'[s] = [ses[s] EXCEPT !.access = now + AccessLife]
        BY <2>2, <3>1, <3>2
      <4> QED BY <3>1, <4>1 DEF SessionRow
    <3>3. CASE s # req[r].ses
      BY <2>2, <3>1, <3>3
    <3> QED BY <3>2, <3>3
  <2> QED BY <1>1, <2>1, <2>3, StatusKept
<1>3. CASE StoreNothing(r)
  <2> DEFINE x == [Idle EXCEPT !.pc = "bare", !.ses = req[r].ses, !.late = req[r].late]
  <2>1. Become(r, x) /\ HeldBy(x) = 0 /\ GrantedTo(x) = 0 /\ HeldBy(req[r]) = 0
    BY <1>1, <1>3 DEF StoreNothing, Settle, HeldBy, GrantedTo, Resting, Idle
  <2> QED BY <1>1, <1>2, <2>1, RecordStep
<1>4. CASE StoreSuccessor(r, lastTok + 1)
  <2> DEFINE x == [Idle EXCEPT !.pc = "ok", !.ses = req[r].ses, !.late = req[r].late]
  <2>1. Become(r, x) /\ HeldBy(x) = 0 /\ GrantedTo(x) = req[r].ses
    BY <1>4 DEF StoreSuccessor, Settle, HeldBy, GrantedTo, Resting, Idle
  <2>2. req[r].ses # 0
    BY <1>4, Ranges DEF StoreSuccessor, SafeInv
  <2> QED BY <1>1, <1>2, <2>1, <2>2, RecordStep
<1>5. CASE StoreRefused(r, lastTok + 1)
  <2>1. HeldBy(Idle) = 0 /\ GrantedTo(Idle) = 0
    BY DEF HeldBy, GrantedTo, Idle
  <2> QED BY <1>1, <1>2, <1>5, <2>1, RecordStep DEF StoreRefused, Fail
<1> QED BY <1>3, <1>4, <1>5 DEF RefreshStore

(* The commit of a request grants it and closes the open sessions among    *)
(* those it revoked.                                                       *)
LEMMA CommitPromise ==
    ASSUME SafeInv, SafeInv', NEW r \in Workers, Commit(r)
    PROVE  PromiseStep
<1> DEFINE x == [Idle EXCEPT !.pc = "ok", !.ses = req[r].ses, !.late = req[r].late]
           S == {s \in req[r].wSes : Open(s)}
<1>1. /\ Become(r, x) /\ HeldBy(x) = 0 /\ GrantedTo(x) = req[r].ses
      /\ HeldBy(req[r]) = req[r].ses /\ GrantedTo(req[r]) = 0
  BY DEF Commit, At, Settle, HeldBy, GrantedTo, Resting, Idle
<1>2. UNCHANGED <<now, sesRows, lastSes>> /\ S \subseteq SesIds
  BY DEF Commit, SafeInv, TypeInv, TypeOK, Request
<1>3. \A s \in SesIds : s \notin req[r].wSes => ses'[s] = ses[s]
  BY DEF Commit
<1>4. CASE req[r].ses = 0
  <2>1. req[r].wSes = {}
    BY <1>4 DEF Commit, At, SafeInv, WorkInv, WorkOf, ActsFor, Acting
  <2>2. Status' = Status
    BY <1>2, <1>3, <2>1, StatusKept
  <2> QED BY <1>1, <1>4, <2>2, RecordStep
<1>5. CASE req[r].ses # 0
  <2>1. \A s \in S : StatusOf(s) = "open" /\ StatusOf(s)' = "closed"
    <3> SUFFICES ASSUME NEW s \in S PROVE StatusOf(s) = "open" /\ StatusOf(s)' = "closed"
      OBVIOUS
    <3>1. s \in sesRows /\ s \in 1..lastSes /\ Open(s)
      BY Ranges DEF Open, SafeInv
    <3>2. ~Open(s)'
      BY CommitCloses DEF SafeInv
    <3>3. ~(s > lastSes)
      BY <3>1, Ranges DEF SafeInv
    <3> QED BY <1>2, <3>1, <3>2, <3>3 DEF StatusOf
  <2>2. \A s \in SesIds : s \notin S => StatusOf(s)' = StatusOf(s)
    <3> SUFFICES ASSUME NEW s \in SesIds, s \notin S PROVE StatusOf(s)' = StatusOf(s)
      OBVIOUS
    <3>1. Open(s)' <=> Open(s)
      <4>1. CASE s \in req[r].wSes
        BY <4>1, CommitCloses DEF SafeInv
      <4>2. CASE s \notin req[r].wSes
        BY <1>2, <1>3, <4>2 DEF Open
      <4> QED BY <4>1, <4>2
    <3> QED BY <1>2, <3>1 DEF StatusOf
  <2>3. Status' = [s \in SesIds |-> StatusOf(s)']
    BY DEF Status, StatusOf
  <2>4. /\ Holds[r] = req[r].ses
        /\ Holds' = [Holds EXCEPT ![r] = 0] /\ Granted' = [Granted EXCEPT ![r] = req[r].ses]
    BY <1>1, MoveShows DEF SafeInv
  <2> HIDE DEF x, S
  <2>5. Status' = [s \in SesIds |-> IF s \in S THEN "closed" ELSE Status[s]]
    BY <1>2, <2>1, <2>2, <2>3, Shown
  <2>6. \A s \in S : Status[s] = "open"
    BY <1>2, <2>1, Shown
  <2>7. Promise!Grant(r, S)
    BY <1>5, <2>4, <2>5, <2>6 DEF Promise!Grant, Promise!Opened, Promise!Becomes
  <2> QED BY <1>2, <2>7 DEF PromiseStep, Promise!PromiseNext
<1> QED BY <1>4, <1>5

(* Time expires sessions, the cleanup purges closed ones.                  *)
LEMMA EnvironmentPromise ==
    ASSUME SafeInv, SafeInv', Monotone, Environment
    PROVE  PromiseStep
<1>1. UNCHANGED <<Holds, Granted>>
  BY DEF Environment, SetActive, CleanupTokens, CleanupBlacklist, CleanupSessions, Tick, Holds, Granted
<1>2. CASE UNCHANGED <<now, sesRows, ses, lastSes>>
  <2>1. Status' = Status
    BY <1>2, StatusKept
  <2> QED BY <1>1, <2>1 DEF PromiseStep, Promise!promiseVars
<1>3. Status' = [s \in SesIds |-> StatusOf(s)']
  BY DEF Status, StatusOf
<1>4. CASE Tick
  <2> DEFINE S == {s \in SesIds : Open(s) /\ ~Open(s)'}
  <2>1. UNCHANGED <<sesRows, ses, lastSes>>
    BY <1>4 DEF Tick, tables
  <2>2. \A s \in S : StatusOf(s) = "open" /\ StatusOf(s)' = "closed"
    BY <2>1, Ranges DEF StatusOf, Open, SafeInv
  <2>3. \A s \in SesIds : s \notin S => StatusOf(s)' = StatusOf(s)
    <3> SUFFICES ASSUME NEW s \in SesIds, s \notin S PROVE StatusOf(s)' = StatusOf(s)
      OBVIOUS
    <3>1. Open(s)' => Open(s)
      <4>1. CASE s \in 1..lastSes
        BY <4>1, MonotoneCloses DEF SafeInv
      <4>2. CASE s \notin 1..lastSes
        BY <2>1, <4>2, Ranges DEF Open, SafeInv
      <4> QED BY <4>1, <4>2
    <3> QED BY <2>1, <3>1 DEF StatusOf
  <2> HIDE DEF S
  <2>4. Promise!Expire(S)
    <3>1. S \subseteq SesIds
      BY DEF S
    <3>2. Status' = [s \in SesIds |-> IF s \in S THEN "closed" ELSE Status[s]]
      BY <1>3, <2>2, <2>3, <3>1, Shown
    <3>3. \A s \in S : Status[s] = "open"
      BY <2>2, <3>1, Shown
    <3> QED BY <1>1, <3>2, <3>3 DEF Promise!Expire, Promise!Opened, Promise!Becomes
  <2>5. S \in SUBSET SesIds
    BY DEF S
  <2> QED BY <2>4, <2>5 DEF PromiseStep, Promise!PromiseNext
<1>5. CASE CleanupSessions
  <2> DEFINE S == {s \in sesRows : ses[s].revokedAt # 0 /\ ses[s].revokedAt < now - Retention}
  <2>1. UNCHANGED <<now, ses, lastSes>> /\ sesRows' = sesRows \ S /\ S \subseteq SesIds
    BY <1>5 DEF CleanupSessions, SafeInv, TypeInv, TypeOK
  <2>2. \A s \in S : StatusOf(s) = "closed" /\ StatusOf(s)' = "purged"
    BY <2>1, Ranges DEF StatusOf, Open, SafeInv
  <2>3. \A s \in SesIds : s \notin S => StatusOf(s)' = StatusOf(s)
    BY <2>1 DEF StatusOf, Open
  <2> HIDE DEF S
  <2>4. Promise!Purge(S)
    <3>1. Status' = [s \in SesIds |-> IF s \in S THEN "purged" ELSE Status[s]]
      BY <1>3, <2>1, <2>2, <2>3, Shown
    <3>2. \A s \in S : Status[s] = "closed"
      BY <2>1, <2>2, Shown
    <3> QED BY <1>1, <3>1, <3>2 DEF Promise!Purge, Promise!Becomes
  <2> QED BY <2>1, <2>4 DEF PromiseStep, Promise!PromiseNext
<1> QED BY <1>2, <1>4, <1>5 DEF Environment, SetActive, CleanupTokens, CleanupBlacklist, tables

LEMMA InitPromise == Init => Promise!PromiseInit
<1> SUFFICES ASSUME Init PROVE Promise!PromiseInit
  OBVIOUS
<1>1. Status = [s \in SesIds |-> "unborn"]
  BY DEF Init, Status, SesIds
<1>2. Holds = [r \in Workers |-> 0] /\ Granted = [r \in Workers |-> 0]
  BY DEF Init, Holds, Granted, Idle, Resting
<1> QED BY <1>1, <1>2 DEF Promise!PromiseInit

(* ImplementsPromise: every step of the requests, the clock and the        *)
(* cleanup is one step of SessionPromise, or none.  A session is opened    *)
(* once and closed for good, and what is granted in its name is granted to *)
(* a request that was admitted while it was open.                          *)
THEOREM PromiseKept == Spec => ImplementsPromise
<1>1. SafeInv /\ [Next]_vars => [Promise!PromiseNext]_(Promise!promiseVars)
  <2> SUFFICES ASSUME SafeInv, [Next]_vars PROVE PromiseStep
    BY DEF PromiseStep
  <2>1. SafeInv' /\ Monotone
    BY NextSafe, NextMonotone DEF SafeInv
  <2>2. CASE UNCHANGED vars
    BY <2>2 DEF vars, tables, Status, Open, Holds, Granted, PromiseStep, Promise!promiseVars
  <2>3. CASE Environment
    BY <2>1, <2>3, EnvironmentPromise
  <2>4. ASSUME NEW r \in Workers, Arrive(r) \/ Step(r) \/ Crash(r) PROVE PromiseStep
    BY <2>1, <2>4, QuietPromise, LoginPromise, RefreshPromise, CommitPromise
  <2> QED BY <2>2, <2>3, <2>4 DEF Next
<1> QED BY <1>1, InitPromise, InitSafe, NextSafe, PTL DEF Spec, ImplementsPromise, Promise!PromiseSpec
-----------------------------------------------------------------------------
(* Requests in turn.  What the only request under way has read still       *)
(* holds: login the password, a refresh its token unused, not rotated yet  *)
(* and, once its session is loaded, the only usable one of it; a change of *)
(* password at its commit has listed every open session of the user.       *)
Rotating == {"rfReplay", "rfSession", "rfUser", "rfRotate", "rfMark", "rfStore"}
Usable(t) == t \in tokRows /\ ~tok[t].used
LoneWork(x) ==
    /\ x.pc = "liStore" => x.pwSeen = pw[x.user]
    /\ x.pc \in Rotating =>
          ~tok[x.tok].used /\ \A n \in 1..lastTok : tok[n].from # x.tok
    /\ x.pc \in AfterSession /\ x.ses # 0 =>
          \A t \in tokRows : Usable(t) /\ tok[t].ses = x.ses => t = x.tok
    /\ x.pc = "commit" /\ x.op = "changePassword" =>
          \A s \in sesRows : ses[s].owner = x.user /\ ses[s].revokedAt = 0 => s \in x.wSes

(* Unlike Open, this does not depend on the clock. *)
PasswordsCurrent == \A s \in sesRows : ses[s].revokedAt = 0 => ses[s].pwOf = pw[ses[s].owner]

InTurn == /\ OneAtATime /\ \A r \in Workers : LoneWork(req[r])
          /\ OneTimeUse /\ SingleLiveToken /\ PasswordsCurrent
TurnInv == SafeInv /\ (part = "sequential" => InTurn)

LEMMA RestLone ==
    ASSUME NEW x, x.pc \in Resting
    PROVE  LoneWork(x)
BY DEF LoneWork, Resting, Rotating, AfterSession

(* A step that writes no table. *)
LEMMA LocalInTurn ==
    ASSUME TypeInv, InTurn, OneAtATime', NEW r \in Workers, NEW x, Become(r, x), LoneWork(x),
           UNCHANGED <<now, active, pw, tables>>
    PROVE  InTurn'
<1>1. req'[r] = x /\ \A q \in Workers : q # r => req'[q] = req[q]
  BY DEF Become, TypeInv, TypeOK
<1>2. \A q \in Workers : LoneWork(req'[q])
  BY <1>1 DEF InTurn
<1>3. ASSUME NEW q \in Workers
      PROVE  LoneWork(req[q])'
  BY <1>2 DEF LoneWork, Usable, tables
<1>4. OneTimeUse' /\ SingleLiveToken' /\ PasswordsCurrent'
  BY DEF InTurn, OneTimeUse, SingleLiveToken, PasswordsCurrent, tables
<1> QED BY <1>3, <1>4 DEF InTurn

LEMMA FailInTurn ==
    ASSUME TypeInv, InTurn, OneAtATime', NEW r \in Workers, Fail(r),
           UNCHANGED <<now, active, pw, tables>>
    PROVE  InTurn'
BY LocalInTurn, RestLone, IdleType DEF Fail, Resting

LEMMA ArriveInTurn ==
    ASSUME TypeInv, InTurn, OneAtATime', NEW r \in Workers, Arrive(r)
    PROVE  InTurn'
<1>0. UNCHANGED <<now, active, pw, tables>>
  BY DEF Arrive, BeginLogin, BeginAuthBare, BeginRefresh, BeginAuth
<1>1. PICK x : /\ Become(r, x) /\ x.pc \in {"liStore", "rfCheck", "auUser", "auSession"}
               /\ x.pc = "liStore" => x.pwSeen = pw[x.user]
  <2>1. ASSUME NEW u \in Users, BeginLogin(r, u)
        PROVE  \E x : /\ Become(r, x) /\ x.pc \in {"liStore", "rfCheck", "auUser", "auSession"}
                      /\ x.pc = "liStore" => x.pwSeen = pw[x.user]
    <3> DEFINE x == [Idle EXCEPT !.pc = "liStore", !.op = "login", !.user = u, !.pwSeen = pw[u]]
    <3>1. x.pc = "liStore" /\ x.user = u /\ x.pwSeen = pw[u]
      BY DEF Idle
    <3>2. Become(r, x)
      BY <2>1 DEF BeginLogin
    <3> HIDE DEF x
    <3> QED BY <3>1, <3>2
  <2>2. CASE \E u \in Users : BeginAuthBare(r, u)
    <3> PICK u \in Users : BeginAuthBare(r, u)
      BY <2>2
    <3>1. [Idle EXCEPT !.pc = "auUser", !.op = "access", !.user = u].pc = "auUser"
      BY DEF Idle
    <3> QED BY <3>1 DEF BeginAuthBare
  <2>3. CASE \E t \in TokIds : BeginRefresh(r, t)
    <3> PICK t \in TokIds : BeginRefresh(r, t)
      BY <2>3
    <3>1. PICK u, l : Become(r, [Idle EXCEPT !.pc = "rfCheck", !.op = "refresh", !.tok = t,
                                            !.user = u, !.late = l])
      BY DEF BeginRefresh
    <3>2. [Idle EXCEPT !.pc = "rfCheck", !.op = "refresh", !.tok = t,
                       !.user = u, !.late = l].pc = "rfCheck"
      BY DEF Idle
    <3> QED BY <3>1, <3>2
  <2>4. CASE \E op \in AccessOps, s \in SesIds, t \in 0..MaxTokens, d \in 0..MaxSessions :
                BeginAuth(r, op, s, t, d)
    <3> PICK op \in AccessOps, s \in SesIds, t \in 0..MaxTokens, d \in 0..MaxSessions :
                BeginAuth(r, op, s, t, d)
      BY <2>4
    <3>1. PICK u, l : Become(r, [Idle EXCEPT !.pc = "auSession", !.op = op, !.user = u,
                                 !.ses = s, !.tok = t, !.target = d, !.late = l])
      BY DEF BeginAuth
    <3>2. [Idle EXCEPT !.pc = "auSession", !.op = op, !.user = u,
                       !.ses = s, !.tok = t, !.target = d, !.late = l].pc = "auSession"
      BY DEF Idle
    <3> QED BY <3>1, <3>2
  <2> QED BY <2>1, <2>2, <2>3, <2>4 DEF Arrive
<1>2. LoneWork(x)
  BY <1>1 DEF LoneWork, Rotating, AfterSession
<1> QED BY <1>0, <1>1, <1>2, LocalInTurn

LEMMA RefreshInTurn ==
    ASSUME SafeInv, InTurn, OneAtATime', NEW r \in Workers,
           \/ RefreshCheck(r) \/ RefreshReplay(r) \/ RefreshRevoke(r) \/ RefreshReplayed(r)
           \/ RefreshSession(r) \/ RefreshUser(r) \/ RefreshRotate(r) \/ RefreshMark(r)
    PROVE  InTurn'
<1> DEFINE z == req[r]
           t == req[r].tok
<1>0. UNCHANGED <<now, active, pw, tables>> /\ TypeInv /\ z \in Request
  BY DEF RefreshCheck, RefreshReplay, RefreshRevoke, RefreshReplayed, RefreshSession,
     RefreshUser, RefreshRotate, RefreshMark, SafeInv, TypeInv, TypeOK
<1>1. LoneWork(z) /\ WorkOf(z)
  BY DEF InTurn, SafeInv, WorkInv
<1>2. ASSUME NEW x, Become(r, x), x.pc \in {"rfRevoke", "rfReplayed"}
      PROVE  InTurn'
  <2>1. LoneWork(x)
    BY <1>2 DEF LoneWork, Rotating, AfterSession
  <2> QED BY <1>0, <1>2, <2>1, LocalInTurn
<1>3. ASSUME NEW p \in {"rfSession", "rfUser", "rfRotate", "rfMark", "rfStore"}, Goto(r, p),
             z.pc \in Rotating,
             p # "rfSession" => z.ses = 0 \/ z.pc \in AfterSession
      PROVE  InTurn'
  <2>1. PICK x : x = [z EXCEPT !.pc = p]
    OBVIOUS
  <2>2. x.pc = p /\ x.tok = t /\ x.ses = z.ses
    BY <1>0, <2>1 DEF Request
  <2>3. LoneWork(x)
    BY <1>1, <1>3, <2>2 DEF LoneWork, Rotating, AfterSession
  <2> QED BY <1>0, <1>3, <2>1, <2>3, LocalInTurn DEF Goto
<1>4. CASE RefreshCheck(r)
  <2>1. CASE Fail(r)
    BY <1>0, <2>1, FailInTurn
  <2>2. CASE Goto(r, "rfReplay") /\ t \in tokRows /\ ~tok[t].used
    <3>1. PICK x : x = [z EXCEPT !.pc = "rfReplay"]
      OBVIOUS
    <3>2. x.pc = "rfReplay" /\ x.tok = t
      BY <1>0, <3>1 DEF Request
    <3>3. \A n \in 1..lastTok : tok[n].from # t
      BY <2>2 DEF SafeInv, Chained, RotationConsistent
    <3>4. LoneWork(x)
      BY <2>2, <3>2, <3>3 DEF LoneWork, AfterSession
    <3> QED BY <1>0, <2>2, <3>1, <3>4, LocalInTurn DEF Goto
  <2> QED BY <1>4, <2>1, <2>2 DEF RefreshCheck
<1>5. CASE RefreshReplay(r)
  <2>1. CASE Goto(r, "rfSession")
    BY <1>3, <1>5, <2>1 DEF RefreshReplay, At, Rotating
  <2>2. CASE Become(r, [z EXCEPT !.pc = "rfRevoke", !.horizon = lastSes])
    <3>1. [z EXCEPT !.pc = "rfRevoke", !.horizon = lastSes].pc = "rfRevoke"
      BY <1>0 DEF Request
    <3> QED BY <1>2, <2>2, <3>1
  <2> QED BY <1>5, <2>1, <2>2 DEF RefreshReplay
<1>6. CASE RefreshRevoke(r)
  <2>1. PICK T : Become(r, [z EXCEPT !.pc = "rfReplayed", !.wTok = T])
    BY <1>6 DEF RefreshRevoke
  <2>2. [z EXCEPT !.pc = "rfReplayed", !.wTok = T].pc = "rfReplayed"
    BY <1>0 DEF Request
  <2> QED BY <1>2, <2>1, <2>2
<1>7. CASE RefreshReplayed(r)
  BY <1>0, <1>7, FailInTurn DEF RefreshReplayed
<1>8. CASE RefreshSession(r)
  <2>1. z.pc = "rfSession" /\ z.ses = 0
    BY <1>1, <1>8 DEF RefreshSession, At, WorkOf, ActsFor, BeforeSession
  <2>2. CASE Goto(r, "rfUser")
    BY <1>3, <2>1, <2>2 DEF Rotating
  <2>3. CASE Fail(r)
    BY <1>0, <2>3, FailInTurn
  <2>4. CASE /\ t \in tokRows
             /\ Become(r, [z EXCEPT !.pc = "rfUser", !.ses = tok[t].ses, !.oldUsed = tok[t].used])
    <3>1. PICK x : x = [z EXCEPT !.pc = "rfUser", !.ses = tok[t].ses, !.oldUsed = tok[t].used]
      OBVIOUS
    <3>2. x.pc = "rfUser" /\ x.tok = t /\ x.ses = tok[t].ses
      BY <1>0, <3>1 DEF Request
    <3>3. ~tok[t].used /\ \A n \in 1..lastTok : tok[n].from # t
      BY <1>1, <2>1 DEF LoneWork, Rotating
    <3>4. \A n \in tokRows : Usable(n) /\ tok[n].ses = tok[t].ses => n = t
      BY <2>4, <3>3 DEF InTurn, SingleLiveToken, Usable
    <3>5. LoneWork(x)
      BY <3>2, <3>3, <3>4 DEF LoneWork
    <3> QED BY <1>0, <2>4, <3>1, <3>5, LocalInTurn
  <2> QED BY <1>8, <2>2, <2>3, <2>4 DEF RefreshSession
<1>9. CASE RefreshUser(r)
  <2>1. CASE Fail(r)
    BY <1>0, <2>1, FailInTurn
  <2> QED BY <1>3, <1>9, <2>1 DEF RefreshUser, At, Rotating, AfterSession
<1>10. CASE RefreshRotate(r)
  <2>1. CASE Fail(r)
    BY <1>0, <2>1, FailInTurn
  <2> QED BY <1>3, <1>10, <2>1 DEF RefreshRotate, At, Rotating, AfterSession
<1>11. CASE RefreshMark(r)
  <2>1. CASE Fail(r)
    BY <1>0, <2>1, FailInTurn
  <2>2. CASE Become(r, [z EXCEPT !.pc = "rfStore", !.wTok = {t}])
    <3>1. PICK x : x = [z EXCEPT !.pc = "rfStore", !.wTok = {t}]
      OBVIOUS
    <3>2. x.pc = "rfStore" /\ x.tok = t /\ x.ses = z.ses /\ z.pc = "rfMark"
      BY <1>0, <1>11, <3>1 DEF Request, RefreshMark, At
    <3>3. LoneWork(x)
      BY <1>1, <3>2 DEF LoneWork, Rotating, AfterSession
    <3> QED BY <1>0, <2>2, <3>1, <3>3, LocalInTurn
  <2> QED BY <1>11, <2>1, <2>2 DEF RefreshMark
<1> QED BY <1>4, <1>5, <1>6, <1>7, <1>8, <1>9, <1>10, <1>11

LEMMA HandlerInTurn ==
    ASSUME SafeInv, InTurn, OneAtATime', NEW r \in Workers,
           \/ AuthSession(r) \/ AuthUser(r) \/ LogoutLoad(r) \/ LogoutRevoke(r)
           \/ LogoutSession(r) \/ LogoutAllList(r) \/ LogoutAllTokens(r)
           \/ LogoutAllSessions(r) \/ TerminateAll(r) \/ PasswordUpdate(r)
           \/ PasswordSessions(r) \/ TerminateLoad(r) \/ FlushRevoke(r)
    PROVE  InTurn'
<1> DEFINE z == req[r]
<1>1. UNCHANGED <<now, active, pw, tables>> /\ TypeInv /\ z \in Request /\ ActsFor(z)
  BY DEF SafeInv, WorkInv, WorkOf, TypeInv, TypeOK, AuthSession, AuthUser, LogoutLoad,
     LogoutRevoke, LogoutSession, LogoutAllList, LogoutAllTokens, LogoutAllSessions,
     TerminateAll, PasswordUpdate, PasswordSessions, TerminateLoad, FlushRevoke, BulkRevoke
<1>2. CASE Fail(r)
  BY <1>1, <1>2, FailInTurn
<1>3. ASSUME NEW x, Become(r, x), x.pc \in Acting \cup {"auUser"},
             x.pc = "commit" => x.op # "changePassword"
      PROVE  InTurn'
  <2>1. LoneWork(x)
    BY <1>3 DEF LoneWork, Acting, Rotating, AfterSession
  <2> QED BY <1>1, <1>3, <2>1, LocalInTurn
<1>4. ASSUME NEW p \in Acting \cup {"auUser"}, Goto(r, p), p = "commit" => z.op # "changePassword"
      PROVE  InTurn'
  <2>1. PICK x : x = [z EXCEPT !.pc = p]
    OBVIOUS
  <2>2. x.pc = p /\ x.op = z.op
    BY <1>1, <2>1 DEF Request
  <2> QED BY <1>3, <1>4, <2>1, <2>2 DEF Goto
<1>5. CASE AuthSession(r)
  BY <1>2, <1>4, <1>5 DEF AuthSession
<1>6. CASE AuthUser(r)
  <2>1. z.op \in AccessOps
    BY <1>1, <1>6 DEF AuthUser, At, ActsFor
  <2>2. /\ FirstStep[z.op] \in Acting
        /\ FirstStep[z.op] = "commit" => z.op # "changePassword"
    BY <2>1 DEF FirstStep, AccessOps, Acting
  <2> QED BY <1>2, <1>4, <1>6, <2>2 DEF AuthUser
<1>7. CASE LogoutLoad(r) \/ LogoutAllList(r) \/ LogoutAllTokens(r) \/ PasswordUpdate(r) \/ TerminateLoad(r)
  <2>1. CASE LogoutAllList(r)
    <3>1. [z EXCEPT !.pc = "laTokens", !.horizon = lastSes].pc = "laTokens"
      BY <1>1 DEF Request
    <3> QED BY <1>3, <2>1, <3>1 DEF LogoutAllList, Acting
  <2>2. CASE LogoutAllTokens(r)
    <3>1. PICK T : Become(r, [z EXCEPT !.pc = "laSessions", !.wTok = T])
      BY <2>2 DEF LogoutAllTokens
    <3>2. [z EXCEPT !.pc = "laSessions", !.wTok = T].pc = "laSessions"
      BY <1>1 DEF Request
    <3> QED BY <1>3, <3>1, <3>2 DEF Acting
  <2>3. CASE LogoutLoad(r)
    BY <1>4, <2>3 DEF LogoutLoad, Acting
  <2>4. CASE PasswordUpdate(r) \/ TerminateLoad(r)
    BY <1>2, <1>4, <2>4 DEF PasswordUpdate, TerminateLoad, Acting
  <2> QED BY <1>7, <2>1, <2>2, <2>3, <2>4
<1>8. CASE LogoutRevoke(r)
  <2>1. CASE Fail(r)
    BY <1>2, <2>1
  <2>2. CASE \E T, B : Become(r, [z EXCEPT !.pc = "loSession", !.wTok = T, !.wBlk = B])
    <3> PICK T, B : Become(r, [z EXCEPT !.pc = "loSession", !.wTok = T, !.wBlk = B])
      BY <2>2
    <3>1. [z EXCEPT !.pc = "loSession", !.wTok = T, !.wBlk = B].pc = "loSession"
      BY <1>1 DEF Request
    <3> QED BY <1>3, <3>1 DEF Acting
  <2> QED BY <1>8, <2>1, <2>2 DEF LogoutRevoke
<1>9. CASE LogoutSession(r)
  <2>1. z.op = "logout"
    BY <1>1, <1>9 DEF LogoutSession, At, ActsFor, HandlerOp
  <2> QED BY <1>4, <1>9, <2>1 DEF LogoutSession, Acting
<1>10. ASSUME NEW S, Become(r, [z EXCEPT !.pc = "commit", !.wSes = S]), z.op # "changePassword"
       PROVE  InTurn'
  <2>1. PICK x : x = [z EXCEPT !.pc = "commit", !.wSes = S]
    OBVIOUS
  <2>2. x.pc = "commit" /\ x.op = z.op
    BY <1>1, <2>1 DEF Request
  <2> QED BY <1>3, <1>10, <2>1, <2>2 DEF Acting
<1>11. CASE LogoutAllSessions(r) \/ TerminateAll(r)
  <2>1. z.op # "changePassword"
    BY <1>1, <1>11 DEF LogoutAllSessions, TerminateAll, At, ActsFor, HandlerOp
  <2> QED BY <1>10, <1>11, <2>1 DEF LogoutAllSessions, TerminateAll, BulkRevoke
<1>12. CASE FlushRevoke(r)
  <2>1. z.op # "changePassword"
    BY <1>1, <1>12 DEF FlushRevoke, ActsFor, HandlerOp
  <2> QED BY <1>2, <1>10, <1>12, <2>1 DEF FlushRevoke
<1>13. CASE PasswordSessions(r)
  <2> DEFINE S == {s \in SessionsOf(z.user) : ses[s].revokedAt = 0} \ {}
  <2>1. PICK x : x = [z EXCEPT !.pc = "commit", !.wSes = S]
    OBVIOUS
  <2>2. x.pc = "commit" /\ x.user = z.user /\ x.wSes = S
    BY <1>1, <2>1 DEF Request
  <2>3. LoneWork(x)
    BY <2>2 DEF LoneWork, SessionsOf, Rotating, AfterSession
  <2> QED BY <1>1, <1>13, <2>1, <2>3, LocalInTurn DEF PasswordSessions, BulkRevoke
<1> QED BY <1>5, <1>6, <1>7, <1>8, <1>9, <1>11, <1>12, <1>13

(* When the request under way ends, none is left. *)
LEMMA NoneLeft ==
    ASSUME TypeInv, InTurn, NEW r \in Workers, req[r].pc \notin Resting,
           NEW x, x.pc \in Resting, Become(r, x)
    PROVE  OneAtATime' /\ \A q \in Workers : LoneWork(req[q])'
<1>1. \A q \in Workers : req'[q].pc \in Resting
  BY DEF Become, TypeInv, TypeOK, InTurn, OneAtATime, Underway
<1>2. OneAtATime'
  BY <1>1 DEF OneAtATime, Underway
<1>3. ASSUME NEW q \in Workers
      PROVE  LoneWork(req[q])'
  BY <1>1 DEF LoneWork, Resting, Rotating, AfterSession
<1> QED BY <1>2, <1>3

LEMMA LoginInTurn ==
    ASSUME SafeInv, InTurn, OneAtATime', NEW r \in Workers, LoginStore(r)
    PROVE  InTurn'
<1>1. TypeInv /\ UNCHANGED <<now, active, pw>> /\ req[r].pc = "liStore" /\ LoneWork(req[r])
  BY DEF SafeInv, LoginStore, At, InTurn
<1>2. CASE NoRoom(r, lastSes + 1, lastTok + 1)
  BY <1>1, <1>2, FailInTurn DEF NoRoom
<1>3. CASE OpenSession(r, lastSes + 1, lastTok + 1)
  <2>1. PICK s, t : s = lastSes + 1 /\ t = lastTok + 1
    OBVIOUS
  <2>2. /\ s \in SesIds /\ t \in TokIds /\ s \notin 1..lastSes /\ t \notin 1..lastTok
        /\ 1..t = 1..lastTok \cup {t} /\ 1..s = 1..lastSes \cup {s}
    BY <1>1, <1>3, <2>1, Ranges DEF OpenSession, SesIds, TokIds
  <2>3. /\ tok'[t].ses = s /\ tok'[t].from = 0
        /\ \A n \in 1..lastTok : tok'[n] = tok[n]
        /\ ses'[s].owner = req[r].user /\ ses'[s].pwOf = req[r].pwSeen
        /\ \A n \in 1..lastSes : ses'[n] = ses[n]
        /\ sesRows' = sesRows \cup {s} /\ tokRows' = tokRows \cup {t} /\ lastTok' = t
    BY <1>1, <1>3, <2>1, <2>2 DEF OpenSession, TypeInv, TypeOK
  <2>4. OneAtATime' /\ \A q \in Workers : LoneWork(req[q])'
    <3>1. PICK x : x = [Idle EXCEPT !.pc = "ok", !.ses = s]
      OBVIOUS
    <3>2. x.pc = "ok" /\ Become(r, x)
      BY <1>3, <2>1, <3>1 DEF OpenSession, Idle
    <3> QED BY <1>1, <3>2, NoneLeft DEF Resting
  <2>5. OneTimeUse'
    BY <2>2, <2>3 DEF InTurn, OneTimeUse
  <2>6. SingleLiveToken'
    <3>1. \A n \in tokRows : n \in 1..lastTok /\ tok[n].ses # s
      BY <1>1, <2>2 DEF TypeInv, Allocated
    <3> QED BY <2>3, <3>1 DEF InTurn, SingleLiveToken
  <2>7. PasswordsCurrent'
    BY <1>1, <2>3, Ranges DEF InTurn, PasswordsCurrent, LoneWork
  <2> QED BY <2>4, <2>5, <2>6, <2>7 DEF InTurn
<1> QED BY <1>2, <1>3 DEF LoginStore

LEMMA SettleNoneLeft ==
    ASSUME TypeInv, InTurn, NEW r \in Workers, req[r].pc \notin Resting,
           NEW p \in Resting, Settle(r, p)
    PROVE  OneAtATime' /\ \A q \in Workers : LoneWork(req[q])'
<1>1. PICK x : x = [Idle EXCEPT !.pc = p, !.ses = req[r].ses, !.late = req[r].late]
  OBVIOUS
<1>2. x.pc = p /\ Become(r, x)
  BY <1>1 DEF Settle, Idle
<1> QED BY <1>2, NoneLeft

LEMMA StoreInTurn ==
    ASSUME SafeInv, InTurn, OneAtATime', NEW r \in Workers, RefreshStore(r)
    PROVE  InTurn'
<1> DEFINE z == req[r]
<1>1. /\ TypeInv /\ UNCHANGED <<now, active, pw>> /\ z.pc = "rfStore" /\ LoneWork(z) /\ WorkOf(z)
      /\ z.tok \in 1..lastTok
  BY DEF SafeInv, RefreshStore, At, InTurn, WorkInv, TypeInv, Control, ControlOf, RefreshPcs
<1>2. CASE StoreRefused(r, lastTok + 1)
  BY <1>1, <1>2, FailInTurn DEF StoreRefused
<1>3. CASE StoreNothing(r)
  <2>1. OneAtATime' /\ \A q \in Workers : LoneWork(req[q])'
    BY <1>1, <1>3, SettleNoneLeft DEF StoreNothing, Resting
  <2>2. OneTimeUse' /\ SingleLiveToken' /\ PasswordsCurrent'
    BY <1>1, <1>3 DEF StoreNothing, InTurn, OneTimeUse, SingleLiveToken, PasswordsCurrent
  <2> QED BY <2>1, <2>2 DEF InTurn
<1>4. CASE StoreSuccessor(r, lastTok + 1)
  <2>1. PICK new : new = lastTok + 1
    OBVIOUS
  <2>2. new \in TokIds /\ new \notin 1..lastTok /\ 1..new = 1..lastTok \cup {new}
    <3>1. new <= MaxTokens
      BY <1>4, <2>1 DEF StoreSuccessor
    <3> QED BY <1>1, <2>1, <3>1, Ranges, ConstantsAssumption DEF TokIds
  <2>3. /\ tok'[new].ses = z.ses /\ tok'[new].from = z.tok
        /\ \A n \in 1..lastTok : /\ tok'[n].ses = tok[n].ses /\ tok'[n].from = tok[n].from
                                 /\ tok'[n].used <=> tok[n].used \/ n \in z.wTok
        /\ sesRows' = sesRows /\ tokRows' = tokRows \cup {new} /\ lastTok' = new
    <3>1. /\ tok'[new].ses = z.ses /\ tok'[new].from = z.tok
          /\ sesRows' = sesRows /\ tokRows' = tokRows \cup {new} /\ lastTok' = new
      BY <1>4, <2>1, <2>2 DEF StoreSuccessor
    <3>2. ASSUME NEW n \in 1..lastTok
          PROVE  /\ tok'[n].ses = tok[n].ses /\ tok'[n].from = tok[n].from
                 /\ tok'[n].used <=> tok[n].used \/ n \in z.wTok
      <4>1. n \in TokIds /\ n # new /\ tok[n] \in TokenRow
        BY <1>1, <2>2, Ranges DEF TypeInv, TypeOK
      <4>2. tok'[n] = IF n \in z.wTok THEN [tok[n] EXCEPT !.used = TRUE, !.next = new] ELSE tok[n]
        BY <1>4, <2>1, <4>1 DEF StoreSuccessor
      <4> QED BY <4>1, <4>2 DEF TokenRow
    <3> QED BY <3>1, <3>2
  <2>4. \A s \in SesIds : /\ ses'[s].revokedAt = ses[s].revokedAt /\ ses'[s].pwOf = ses[s].pwOf
                          /\ ses'[s].owner = ses[s].owner
    BY <1>1, <1>4 DEF StoreSuccessor, TypeInv, TypeOK, SessionRow
  <2>5. OneAtATime' /\ \A q \in Workers : LoneWork(req[q])'
    BY <1>1, <1>4, SettleNoneLeft DEF StoreSuccessor, Resting
  <2>6. OneTimeUse'
    BY <1>1, <2>2, <2>3 DEF InTurn, OneTimeUse, LoneWork, Rotating
  <2>7. SingleLiveToken'
    <3>1. z.ses # 0 /\ (z.tok \in tokRows => z.tok \in z.wTok)
      BY <1>1, <1>4, Ranges DEF StoreSuccessor, WorkOf, Written
    <3>2. ASSUME NEW n \in tokRows, ~tok'[n].used
          PROVE  tok'[n].ses # z.ses
      <4>1. n \in 1..lastTok /\ n \notin z.wTok /\ n # z.tok
        BY <1>1, <2>3, <3>1, <3>2, Ranges
      <4> QED BY <1>1, <2>3, <3>1, <3>2, <4>1 DEF LoneWork, Usable, AfterSession
    <3>3. ASSUME NEW n \in tokRows, NEW m \in tokRows, ~tok'[n].used, ~tok'[m].used,
                 tok'[n].ses = tok'[m].ses
          PROVE  n = m
      BY <1>1, <2>3, <3>3, Ranges DEF InTurn, SingleLiveToken
    <3> QED BY <2>3, <3>2, <3>3 DEF SingleLiveToken
  <2>8. PasswordsCurrent'
    BY <1>1, <2>3, <2>4, Ranges DEF InTurn, PasswordsCurrent
  <2> QED BY <2>5, <2>6, <2>7, <2>8 DEF InTurn
<1> QED BY <1>2, <1>3, <1>4 DEF RefreshStore

LEMMA CommitInTurn ==
    ASSUME SafeInv, InTurn, NEW r \in Workers, Commit(r)
    PROVE  InTurn'
<1> DEFINE z == req[r]
<1>1. TypeInv /\ z.pc = "commit" /\ LoneWork(z) /\ UNCHANGED <<sesRows, tokRows, lastTok>>
  BY DEF SafeInv, Commit, At, InTurn
<1>2. \A t \in TokIds : /\ tok'[t].ses = tok[t].ses /\ tok'[t].from = tok[t].from
                        /\ tok[t].used => tok'[t].used
  BY <1>1 DEF Commit, TypeInv, TypeOK, TokenRow
<1>3. \A s \in SesIds : /\ ses'[s].pwOf = ses[s].pwOf /\ ses'[s].owner = ses[s].owner
                        /\ ses'[s].revokedAt = IF s \in z.wSes THEN now ELSE ses[s].revokedAt
  BY <1>1 DEF Commit, TypeInv, TypeOK, SessionRow
<1>4. OneAtATime' /\ \A q \in Workers : LoneWork(req[q])'
  BY <1>1, SettleNoneLeft DEF Commit, Resting
<1>5. OneTimeUse' /\ SingleLiveToken'
  BY <1>1, <1>2, Ranges DEF InTurn, OneTimeUse, SingleLiveToken
<1>6. PasswordsCurrent'
  <2>1. ASSUME NEW s \in sesRows, ses'[s].revokedAt = 0
        PROVE  ses'[s].pwOf = pw'[ses'[s].owner]
    <3>1. s \in SesIds /\ s \in 1..lastSes
      BY <1>1, Ranges
    <3>2. s \notin z.wSes /\ ses[s].revokedAt = 0
      BY <1>1, <1>3, <2>1, <3>1, Ranges
    <3>3. ses[s].owner \in Users
      BY <1>1, <3>1 DEF TypeInv, Allocated
    <3>4. pw'[ses[s].owner] = pw[ses[s].owner]
      <4>1. CASE z.op = "changePassword"
        <5>1. ses[s].owner # z.user
          BY <1>1, <3>2, <4>1 DEF LoneWork
        <5> QED BY <3>3, <4>1, <5>1, <1>1 DEF Commit, TypeInv, TypeOK
      <4>2. CASE z.op # "changePassword"
        BY <4>2 DEF Commit
      <4> QED BY <4>1, <4>2
    <3> QED BY <1>3, <3>1, <3>2, <3>4 DEF InTurn, PasswordsCurrent
  <2> QED BY <1>1, <2>1 DEF PasswordsCurrent
<1> QED BY <1>4, <1>5, <1>6 DEF InTurn

LEMMA EnvironmentInTurn ==
    ASSUME InTurn, Environment \/ UNCHANGED vars
    PROVE  InTurn'
<1>1. /\ UNCHANGED <<req, pw, ses, tok, lastTok>>
      /\ sesRows' \subseteq sesRows /\ tokRows' \subseteq tokRows
  BY DEF Environment, SetActive, CleanupTokens, CleanupBlacklist, CleanupSessions, Tick, vars, tables
<1>2. OneAtATime'
  BY <1>1 DEF InTurn, OneAtATime, Underway
<1>3. ASSUME NEW r \in Workers
      PROVE  LoneWork(req[r])'
  <2>1. LoneWork(req[r])
    BY DEF InTurn
  <2> QED BY <1>1, <2>1 DEF LoneWork, Usable
<1>4. OneTimeUse' /\ SingleLiveToken' /\ PasswordsCurrent'
  BY <1>1 DEF InTurn, OneTimeUse, SingleLiveToken, PasswordsCurrent
<1> QED BY <1>2, <1>3, <1>4 DEF InTurn

LEMMA NextInTurn ==
    ASSUME SafeInv, InTurn, Next \/ UNCHANGED vars, OneAtATime'
    PROVE  InTurn'
<1>1. ASSUME NEW r \in Workers, Arrive(r) \/ Step(r) \/ Crash(r)
      PROVE  InTurn'
  BY <1>1, ArriveInTurn, RefreshInTurn, HandlerInTurn, LoginInTurn, StoreInTurn, CommitInTurn,
     FailInTurn DEF Step, Crash, SafeInv
<1> QED BY <1>1, EnvironmentInTurn DEF Next

LEMMA TurnInvariant == TurnSpec => []TurnInv
<1>1. TurnInit => TurnInv
  <2> SUFFICES ASSUME TurnInit PROVE TurnInv
    OBVIOUS
  <2>1. SafeInv /\ lastTok = 0 /\ tokRows = {} /\ sesRows = {}
    BY InitSafe DEF TurnInit, Init
  <2>2. \A r \in Workers : req[r].pc \in Resting
    BY IdleType DEF TurnInit, Init, Resting
  <2>3. OneAtATime /\ \A r \in Workers : LoneWork(req[r])
    BY <2>2, RestLone DEF OneAtATime, Underway
  <2>4. OneTimeUse /\ SingleLiveToken /\ PasswordsCurrent
    BY <2>1 DEF OneTimeUse, SingleLiveToken, PasswordsCurrent
  <2> QED BY <2>1, <2>3, <2>4 DEF TurnInv, InTurn
<1>2. TurnInv /\ [TurnNext]_<<vars, part>> => TurnInv'
  <2> SUFFICES ASSUME TurnInv, [TurnNext]_<<vars, part>> PROVE TurnInv'
    OBVIOUS
  <2>1. [Next]_vars /\ part' = part
    BY DEF TurnNext
  <2>2. SafeInv'
    BY <2>1, NextSafe DEF TurnInv
  <2>3. ASSUME part = "sequential" PROVE InTurn'
    <3>1. CASE TurnNext
      BY <2>3, <3>1, NextInTurn DEF TurnNext, TurnInv
    <3>2. CASE UNCHANGED <<vars, part>>
      <4>1. UNCHANGED vars
        BY <3>2
      <4> QED BY <2>3, <4>1, EnvironmentInTurn DEF TurnInv
    <3> QED BY <3>1, <3>2
  <2> QED BY <2>1, <2>2, <2>3 DEF TurnInv
<1> QED BY <1>1, <1>2, PTL DEF TurnSpec

(* RotationInTurn: the chain of rotations is consistent whatever overlaps, *)
(* and requests that come in turn rotate a token once and leave one usable *)
(* token of a session, however the cleanup and the clock run between their *)
(* statements.                                                             *)
THEOREM RotatesOnceInTurn == TurnSpec => []RotationInTurn
<1>1. TurnInv => RotationInTurn
  BY DEF TurnInv, SafeInv, Chained, InTurn, RotationInTurn, OneTimeUseInTurn, SingleLiveTokenInTurn
<1> QED BY <1>1, TurnInvariant, PTL

(* OldPasswordSessionsClosedInTurn: no session of a former password stays  *)
(* open when the change of password and the logins do not overlap.         *)
THEOREM PasswordEndsSessionsInTurn == TurnSpec => []OldPasswordSessionsClosedInTurn
<1>1. TurnInv => OldPasswordSessionsClosedInTurn
  BY DEF TurnInv, InTurn, PasswordsCurrent, OldPasswordSessionsClosedInTurn,
     OldPasswordSessionsClosed, Open
<1> QED BY <1>1, TurnInvariant, PTL
=============================================================================
