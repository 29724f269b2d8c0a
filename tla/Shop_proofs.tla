------------------------------ MODULE Shop_proofs ------------------------------
(***************************************************************************)
(* Proofs about the orders to suppliers, the restaurant's stock, menu and  *)
(* charges, for any number of requests, orders, lines, ingredients and     *)
(* dishes, any recipes and thresholds, and about the scripts that fill     *)
(* tables from another program's.  The parts share no state.               *)
(***************************************************************************)
EXTENDS SupplyOrder, RestaurantStock, Restaurant, Migrations, Sums, SequenceTheorems, FiniteSetTheorems,
        TLAPS

(***************************************************************************)
(* Orders to suppliers.                                                    *)
(***************************************************************************)
LEMMA OrderIdle == OIdle \in OrderRequest /\ OIdle.pc = "idle" /\ OIdle.op = "none" /\ OIdle.o = 0
BY SupplyAssumption DEF OIdle, OrderRequest, OrderPcs, SupplyOrderStatus

LEMMA RowTypes == NewOrder \in OrderRow /\ NoLine \in LineRow
BY SupplyAssumption DEF NewOrder, NoLine, OrderRow, LineRow, SupplyOrderStatus

LEMMA TvaType == ASSUME NEW ht \in 0..MaxTotal PROVE Tva(ht) \in 0..MaxTotal
BY SupplyAssumption DEF Tva

LEMMA InitOrderType == OrderInit => OrderTypeOK
BY OrderIdle, RowTypes, SupplyAssumption DEF OrderInit, OrderTypeOK, Orders, Lines

(* One request's record is replaced, the others are left alone. *)
LEMMA OrderMoved ==
    ASSUME OrderTypeOK, NEW r \in Workers, NEW x, x \in OrderRequest, OBecome(r, x)
    PROVE  /\ oreq' \in [Workers -> OrderRequest] /\ oreq'[r] = x
           /\ \A q \in Workers : q # r => oreq'[q] = oreq[q]
BY DEF OBecome, OrderTypeOK

(* The steps that arrive at, read or leave the rows without writing them. *)
OrderReading(r) ==
    \/ LoadOrder(r) \/ ReadLine(r) \/ FlushLine(r) \/ FlushReceived(r)
    \/ Refresh(r) \/ Recalculate(r) \/ OCrash(r)

(* What such a step makes of the request. *)
SameOrIdle(x, r) ==
    \/ x = OIdle
    \/ x \in OrderRequest /\ x.op = oreq[r].op /\ x.o = oreq[r].o /\ x.l = oreq[r].l

LEMMA OrderReadingRecord ==
    ASSUME OrderTypeOK, NEW r \in Workers, OrderReading(r)
    PROVE  /\ UNCHANGED <<tables, orderHistory>> /\ oreq[r].pc # "idle"
           /\ \E x : SameOrIdle(x, r) /\ OBecome(r, x)
<1> USE DEF OFail, OGoto, SameOrIdle
<1>0. oreq[r] \in OrderRequest /\ lineRows \subseteq Lines
  BY SupplyAssumption DEF OrderTypeOK, Lines
<1>1. CASE LoadOrder(r)
  <2>1. CASE OFail(r)
    BY <1>1, <2>1 DEF LoadOrder
  <2>2. CASE ~OFail(r)
    <3> DEFINE op == oreq[r].op
               next == IF op \in {"updateLine", "deleteLine"} THEN "line"
                       ELSE IF op \in {"addLine", "receive"} THEN "flush" ELSE "commit"
    <3>1. PICK M \in (IF op = "receive" THEN SUBSET lineRows ELSE {{}}) :
             OBecome(r, [oreq[r] EXCEPT !.pc = next, !.marks = M,
                        !.seen = IF op = "update" THEN order[oreq[r].o].statut ELSE @])
      BY <1>1, <2>2 DEF LoadOrder
    <3>2. M \subseteq Lines /\ next \in OrderPcs
      BY <1>0, <3>1 DEF OrderPcs
    <3>3. order[oreq[r].o].statut \in SupplyOrderStatus
      <4>1. oreq[r].o \in orderRows
        BY <1>1, <2>2 DEF LoadOrder
      <4>2. orderRows \subseteq Orders
        BY SupplyAssumption DEF OrderTypeOK, Orders
      <4> QED BY <4>1, <4>2 DEF OrderTypeOK, OrderRow
    <3> HIDE DEF next
    <3>4. [oreq[r] EXCEPT !.pc = next, !.marks = M,
              !.seen = IF op = "update" THEN order[oreq[r].o].statut ELSE @] \in OrderRequest
      BY <1>0, <3>2, <3>3 DEF OrderRequest
    <3> QED BY <1>0, <1>1, <3>1, <3>4 DEF LoadOrder, OrderRequest
  <2> QED BY <2>1, <2>2
<1>2. CASE ReadLine(r) \/ OCrash(r)
  BY <1>0, <1>2 DEF ReadLine, OCrash, OrderRequest, OrderPcs
<1>3. CASE FlushLine(r)
  BY <1>0, <1>3 DEF FlushLine, OrderRequest, OrderPcs
<1>4. CASE FlushReceived(r)
  <2>1. oreq[r].marks \cap lineRows \in SUBSET Lines
    BY <1>0
  <2> QED BY <1>0, <1>4, <2>1 DEF FlushReceived, OrderRequest, OrderPcs
<1>5. CASE Refresh(r)
  <2>1. CASE OFail(r)
    BY <1>5, <2>1 DEF Refresh
  <2>2. CASE ~OFail(r)
    <3>1. oreq[r].o \in Orders
      BY <1>5, <2>2, SupplyAssumption DEF Refresh, OrderTypeOK, Orders
    <3>2. order[oreq[r].o].ht \in 0..MaxTotal /\ order[oreq[r].o].tva \in 0..MaxTotal
      BY <3>1 DEF OrderTypeOK, OrderRow
    <3> QED BY <1>0, <1>5, <2>2, <3>2 DEF Refresh, OrderRequest, OrderPcs
  <2> QED BY <2>1, <2>2
<1>6. CASE Recalculate(r)
  BY <1>0, <1>6, TvaType DEF Recalculate, OrderRequest, OrderPcs
<1> QED BY <1>1, <1>2, <1>3, <1>4, <1>5, <1>6 DEF OrderReading

LEMMA CreateOrderType ==
    ASSUME OrderTypeOK, NEW n \in 0..MaxLines, NEW worth \in [1..n -> NewAmounts],
           CreateOrder(n, worth)
    PROVE  OrderTypeOK'
<1> DEFINE o == lastOrder + 1
           new == (lastLine + 1)..(lastLine + n)
<1>1. o \in Orders /\ lastOrder' = o /\ orderRows' \subseteq 1..lastOrder'
  BY SupplyAssumption DEF CreateOrder, OrderTypeOK, Orders
<1>2. lastLine' \in 0..MaxLines /\ lineRows' \subseteq 1..lastLine'
  BY SupplyAssumption DEF CreateOrder, OrderTypeOK
<1>3. order' \in [Orders -> OrderRow]
  <2>1. PICK ht \in 0..MaxTotal :
           order' = [order EXCEPT ![o] = [statut |-> "en_attente", ht |-> ht, tva |-> Tva(ht)]]
    BY DEF CreateOrder
  <2> QED BY <2>1, TvaType DEF OrderTypeOK, OrderRow, SupplyOrderStatus
<1>4. line' \in [Lines -> LineRow]
  <2>1. \A l \in new : worth[l - lastLine] \in Nat
    <3>1. \A l \in new : l - lastLine \in 1..n
      BY DEF OrderTypeOK
    <3>2. \A i \in 1..n : worth[i] \in Nat
      BY SupplyAssumption
    <3> QED BY <3>1, <3>2
  <2>2. \A l \in new : [order |-> o, amount |-> worth[l - lastLine]] \in LineRow
    BY <1>1, <2>1, SupplyAssumption DEF LineRow, Orders
  <2> QED BY <2>2 DEF CreateOrder, OrderTypeOK
<1> QED BY <1>1, <1>2, <1>3, <1>4 DEF CreateOrder, OrderTypeOK, orderHistory, Orders

LEMMA BeginOrderType ==
    ASSUME OrderTypeOK, NEW r \in Workers, OArrive(r)
    PROVE  /\ OrderTypeOK' /\ UNCHANGED tables
           /\ \E op \in OrderOps, x \in OrderRequest :
                 /\ OBecome(r, x) /\ x.pc = "load" /\ x.op = op /\ x.o \in 1..lastOrder
                 /\ x.l <= lastLine /\ (op = "addLine" => x.l = 0)
                 /\ statusAlone' = (statusAlone /\ ~(op \in StatusOps /\ OBusy(StatusOps)))
                 /\ linesAlone' = (linesAlone /\ ~(op \in LineOps /\ OBusy(LineOps)))
<1>1. PICK op \in OrderOps, o \in 1..lastOrder, l \in 0..lastLine, a \in Nat,
           to \in SupplyOrderStatus : OBegin(r, op, o, l, a, to) /\ (op = "addLine" => l = 0)
  BY SupplyAssumption DEF OArrive, OrderTypeOK, SupplyOrderStatus
<1> DEFINE x == [OIdle EXCEPT !.pc = "load", !.op = op, !.o = o, !.l = l, !.amount = a, !.to = to]
<1>2. o \in 0..MaxOrders /\ l \in 0..MaxLines
  BY SupplyAssumption DEF OrderTypeOK
<1>3. x \in OrderRequest /\ x.pc = "load" /\ x.op = op /\ x.o = o /\ x.l = l
  BY <1>2, OrderIdle, ZenonT(60) DEF OrderRequest, OrderPcs
<1>4. /\ OBecome(r, x) /\ UNCHANGED tables
      /\ statusAlone' = (statusAlone /\ ~(op \in StatusOps /\ OBusy(StatusOps)))
      /\ linesAlone' = (linesAlone /\ ~(op \in LineOps /\ OBusy(LineOps)))
      /\ linesAlone' \in BOOLEAN /\ statusAlone' \in BOOLEAN
  BY <1>1 DEF OBegin, OrderTypeOK
<1> HIDE DEF x
<1>5. OrderTypeOK'
  BY <1>3, <1>4, OrderMoved DEF OrderTypeOK, tables
<1>6. l <= lastLine
  BY DEF OrderTypeOK
<1> QED BY <1>1, <1>3, <1>4, <1>5, <1>6

LEMMA CommitOrderType ==
    ASSUME OrderTypeOK, NEW r \in Workers, CommitLine(r) \/ CommitStatus(r) \/ CommitDelete(r)
    PROVE  OrderTypeOK' /\ OBecome(r, OIdle) /\ oreq[r].pc = "commit"
<1>0. /\ oreq[r] \in OrderRequest /\ orderRows \subseteq Orders
      /\ OBecome(r, OIdle) /\ oreq[r].pc = "commit"
  BY SupplyAssumption
     DEF OrderTypeOK, Orders, CommitLine, CommitStatus, CommitDelete, OFail, OSucceed
<1>1. oreq' \in [Workers -> OrderRequest]
  BY <1>0, OrderIdle, OrderMoved
<1>2. ASSUME CommitLine(r) PROVE OrderTypeOK'
  <2>1. order' \in [Orders -> OrderRow]
    <3>1. CASE UNCHANGED order
      BY <3>1 DEF OrderTypeOK
    <3>2. CASE oreq[r].o \in orderRows /\ WriteTotals(r)
      <4>1. order[oreq[r].o] \in OrderRow /\ oreq[r].ht \in 0..MaxTotal
            /\ oreq[r].tva \in 0..MaxTotal
        BY <1>0, <3>2 DEF OrderTypeOK, OrderRequest
      <4> QED BY <3>2, <4>1 DEF WriteTotals, OrderTypeOK, OrderRow
    <3> QED BY <1>2, <3>1, <3>2 DEF CommitLine
  <2>2. lineRows' \subseteq 1..lastLine' /\ lastLine' \in 0..MaxLines
        /\ line' \in [Lines -> LineRow]
    <3>1. CASE UNCHANGED <<lineRows, line, lastLine>>
      BY <3>1 DEF OrderTypeOK
    <3>2. CASE WriteLine(r) /\ oreq[r].op = "addLine"
      <4>1. [order |-> oreq[r].o, amount |-> oreq[r].amount] \in LineRow
        BY <1>0 DEF OrderRequest, LineRow
      <4> QED BY <3>2, <4>1, SupplyAssumption DEF WriteLine, OrderTypeOK
    <3>3. CASE WriteLine(r) /\ oreq[r].op = "updateLine"
      <4>1. oreq[r].amount \in Nat
        BY <1>0 DEF OrderRequest
      <4>2. [line EXCEPT ![oreq[r].l].amount = oreq[r].amount] \in [Lines -> LineRow]
        BY <4>1 DEF OrderTypeOK, LineRow
      <4> QED BY <3>3, <4>2 DEF WriteLine, OrderTypeOK
    <3>4. CASE WriteLine(r) /\ oreq[r].op = "deleteLine"
      BY <3>4, RowTypes DEF WriteLine, OrderTypeOK
    <3> QED BY <1>2, <3>1, <3>2, <3>3, <3>4 DEF CommitLine, LineOps
  <2> QED BY <1>1, <1>2, <2>1, <2>2 DEF CommitLine, OrderTypeOK, orderHistory
<1>3. ASSUME CommitStatus(r) PROVE OrderTypeOK'
  <2>1. order' \in [Orders -> OrderRow]
    <3>1. CASE UNCHANGED order
      BY <3>1 DEF OrderTypeOK
    <3>2. CASE ~UNCHANGED order
      <4>1. oreq[r].o \in Orders /\ Target(r) \in SupplyOrderStatus
        BY <1>0, <1>3, <3>2 DEF CommitStatus, Target, StatusOps, OrderRequest, SupplyOrderStatus
      <4>2. order[oreq[r].o] \in OrderRow
        BY <4>1 DEF OrderTypeOK
      <4> QED BY <1>3, <3>2, <4>1, <4>2 DEF CommitStatus, OrderTypeOK, OrderRow
    <3> QED BY <3>1, <3>2
  <2> QED BY <1>1, <1>3, <2>1 DEF CommitStatus, OrderTypeOK, orderHistory
<1>4. ASSUME CommitDelete(r) PROVE OrderTypeOK'
  BY <1>1, <1>4, RowTypes DEF CommitDelete, OrderTypeOK, orderHistory
<1> QED BY <1>0, <1>2, <1>3, <1>4

LEMMA NextOrderType == OrderTypeOK /\ [OrderNext]_orderVars => OrderTypeOK'
<1> SUFFICES ASSUME OrderTypeOK, [OrderNext]_orderVars PROVE OrderTypeOK'
  OBVIOUS
<1>1. CASE UNCHANGED orderVars
  BY <1>1 DEF orderVars, tables, orderHistory, OrderTypeOK
<1>2. ASSUME NEW r \in Workers, OrderReading(r) PROVE OrderTypeOK'
  <2>1. PICK x : SameOrIdle(x, r) /\ OBecome(r, x)
    BY <1>2, OrderReadingRecord
  <2>2. oreq' \in [Workers -> OrderRequest]
    BY <2>1, OrderIdle, OrderMoved DEF SameOrIdle
  <2> QED BY <1>2, <2>2, OrderReadingRecord DEF OrderTypeOK, tables, orderHistory
<1>3. ASSUME NEW r \in Workers, OStep(r) PROVE OrderTypeOK'
  BY <1>2, <1>3, CommitOrderType DEF OStep, OrderReading
<1> QED BY <1>1, <1>2, <1>3, CreateOrderType, BeginOrderType DEF OrderNext, OrderReading

(* TypeOK: no mix of requests writes a total that its column cannot hold,  *)
(* a status that does not exist or a row with a number not handed out.     *)
THEOREM OrderTypeCorrect == OrderSpec => []OrderTypeOK
BY InitOrderType, NextOrderType, PTL DEF OrderSpec

-----------------------------------------------------------------------------
LEMMA NextOrphan == OrderTypeOK /\ NoOrphanLine /\ [OrderNext]_orderVars => NoOrphanLine'
<1> SUFFICES ASSUME OrderTypeOK, NoOrphanLine, [OrderNext]_orderVars PROVE NoOrphanLine'
  OBVIOUS
<1>1. CASE UNCHANGED tables
  BY <1>1 DEF tables, NoOrphanLine
<1>2. ASSUME NEW n \in 0..MaxLines, NEW worth \in [1..n -> NewAmounts], CreateOrder(n, worth)
      PROVE  NoOrphanLine'
  <2> DEFINE new == (lastLine + 1)..(lastLine + n)
  <2>1. lineRows' = lineRows \cup new /\ orderRows' = orderRows \cup {lastOrder + 1}
    BY <1>2 DEF CreateOrder
  <2>2. new \subseteq Lines /\ lineRows \subseteq Lines /\ lineRows \cap new = {}
    BY <1>2, SupplyAssumption DEF CreateOrder, OrderTypeOK, Lines
  <2>3. \A l \in new : line'[l].order = lastOrder + 1
    BY <1>2, <2>2 DEF CreateOrder
  <2>4. \A l \in lineRows : line'[l] = line[l]
    BY <1>2, <2>2 DEF CreateOrder
  <2> QED BY <2>1, <2>3, <2>4 DEF NoOrphanLine
<1>3. ASSUME NEW r \in Workers, CommitLine(r), ~UNCHANGED tables PROVE NoOrphanLine'
  <2>1. /\ oreq[r].o \in orderRows /\ orderRows' = orderRows /\ WriteLine(r) /\ oreq[r].op \in LineOps
        /\ lineRows \subseteq 1..lastLine /\ lastLine \in Nat /\ line \in [Lines -> LineRow]
    BY <1>3 DEF CommitLine, tables, OrderTypeOK
  <2>2. CASE oreq[r].op = "addLine"
    <3>1. lineRows' = lineRows \cup {lastLine + 1} /\ lastLine + 1 \in Lines
      BY <2>1, <2>2, SupplyAssumption DEF WriteLine, Lines
    <3>2. line' = [line EXCEPT ![lastLine + 1] = [order |-> oreq[r].o, amount |-> oreq[r].amount]]
      BY <2>2, <2>1 DEF WriteLine
    <3>3. line'[lastLine + 1].order = oreq[r].o
      BY <2>1, <3>1, <3>2
    <3>4. \A l \in lineRows : l \in Lines /\ l # lastLine + 1
      BY <2>1, SupplyAssumption DEF OrderTypeOK, Lines
    <3>5. \A l \in lineRows : line'[l] = line[l]
      BY <2>1, <3>2, <3>4
    <3> QED BY <2>1, <3>1, <3>3, <3>5 DEF NoOrphanLine
  <2>3. CASE oreq[r].op = "updateLine"
    <3>1. \A l \in Lines : line'[l].order = line[l].order
      BY <2>1, <2>3 DEF WriteLine, LineRow
    <3>2. lineRows' = lineRows /\ lineRows \subseteq Lines
      BY <2>1, <2>3, SupplyAssumption DEF WriteLine, OrderTypeOK, Lines
    <3> QED BY <2>1, <3>1, <3>2 DEF NoOrphanLine
  <2>4. CASE oreq[r].op = "deleteLine"
    <3>1. lineRows' = lineRows \ {oreq[r].l} /\ line' = [line EXCEPT ![oreq[r].l] = NoLine]
      BY <2>1, <2>4 DEF WriteLine
    <3>2. \A l \in lineRows' : l \in lineRows /\ l \in Lines /\ l # oreq[r].l
      BY <3>1, SupplyAssumption DEF OrderTypeOK, Lines
    <3>3. \A l \in lineRows' : line'[l] = line[l]
      BY <2>1, <3>1, <3>2
    <3> QED BY <2>1, <3>2, <3>3 DEF NoOrphanLine
  <2> QED BY <2>1, <2>2, <2>3, <2>4 DEF LineOps
<1>4. ASSUME NEW r \in Workers, CommitStatus(r) PROVE NoOrphanLine'
  BY <1>4 DEF CommitStatus, NoOrphanLine
<1>5. ASSUME NEW r \in Workers, CommitDelete(r) PROVE NoOrphanLine'
  <2>1. /\ lineRows' = lineRows \ LinesOf(oreq[r].o) /\ orderRows' = orderRows \ {oreq[r].o}
        /\ \A l \in lineRows' : line'[l] = line[l]
    BY <1>5, SupplyAssumption DEF CommitDelete, OrderTypeOK, Lines
  <2> QED BY <2>1 DEF NoOrphanLine, LinesOf
<1> QED BY <1>1, <1>2, <1>3, <1>4, <1>5, OrderReadingRecord, BeginOrderType DEF OrderNext, OStep, OrderReading, orderVars

(* NoOrphanLine: whatever order is deleted while a line is being added to  *)
(* it, every line keeps its order.                                         *)
THEOREM LinesKeepTheirOrder == OrderSpec => []NoOrphanLine
<1>1. OrderInit => NoOrphanLine
  BY DEF OrderInit, NoOrphanLine
<1> QED BY <1>1, NextOrphan, OrderTypeCorrect, PTL DEF OrderSpec

-----------------------------------------------------------------------------
(* A request past its check of the status can rely on what it saw, until   *)
(* another request on the status overlaps it; and no request names an      *)
(* order still to be created.                                              *)
OnStatus(q) == oreq[q].pc # "idle" /\ oreq[q].op \in StatusOps
Relies(q) ==
    OnStatus(q) /\ oreq[q].pc # "load" /\ oreq[q].o \in orderRows =>
        order[oreq[q].o].statut \in From[oreq[q].op]
OneOnStatus == \A p, q \in Workers : OnStatus(p) /\ OnStatus(q) => p = q

StatusInv ==
    /\ \A q \in Workers : oreq[q].o <= lastOrder
    /\ statusAlone => OneOnStatus /\ \A q \in Workers : Relies(q)

(* What a step of the request r leaves of the invariant. *)
LEMMA StatusStep ==
    ASSUME OrderTypeOK, StatusInv, NEW r \in Workers, NEW x, SameOrIdle(x, r), OBecome(r, x),
           oreq[r].pc # "idle", statusAlone' = statusAlone, lastOrder' = lastOrder,
           statusAlone => Relies(r)',
           statusAlone => \A q \in Workers \ {r} : OnStatus(q) =>
               /\ oreq[q].o \in orderRows' => oreq[q].o \in orderRows
               /\ oreq[q].o \in orderRows => order'[oreq[q].o].statut = order[oreq[q].o].statut
    PROVE  StatusInv'
<1>1. /\ oreq'[r] = x /\ \A q \in Workers : q # r => oreq'[q] = oreq[q]
      /\ lastOrder \in Nat
  BY OrderMoved, OrderIdle DEF SameOrIdle, OrderTypeOK
<1>2. \A q \in Workers : oreq'[q].o <= lastOrder'
  BY <1>1, OrderIdle DEF SameOrIdle, StatusInv
<1>3. \A q \in Workers : OnStatus(q)' => OnStatus(q)
  BY <1>1, OrderIdle DEF SameOrIdle, OnStatus
<1>4. statusAlone => OneOnStatus'
  BY <1>3 DEF StatusInv, OneOnStatus
<1>5. ASSUME statusAlone, NEW q \in Workers PROVE Relies(q)'
  <2>1. CASE q # r
    BY <1>1, <1>5, <2>1 DEF StatusInv, Relies, OnStatus
  <2> QED BY <1>5, <2>1
<1> QED BY <1>2, <1>4, <1>5 DEF StatusInv

LEMMA ReadingStatus ==
    ASSUME OrderTypeOK, StatusInv, NEW r \in Workers, OrderReading(r)
    PROVE  StatusInv'
<1>1. PICK x : SameOrIdle(x, r) /\ OBecome(r, x)
  BY OrderReadingRecord
<1>2. UNCHANGED <<orderRows, order, lastOrder, statusAlone>> /\ oreq[r].pc # "idle"
  BY OrderReadingRecord DEF tables, orderHistory
<1>3. oreq'[r] = x
  BY <1>1, OrderIdle, OrderMoved DEF SameOrIdle
<1>4. ASSUME statusAlone PROVE Relies(r)'
  <2>1. CASE oreq[r].pc # "load"
    BY <1>1, <1>2, <1>3, <1>4, <2>1, OrderIdle DEF StatusInv, Relies, OnStatus, SameOrIdle
  <2>2. CASE oreq[r].pc = "load"
    <3>1. CASE OFail(r)
      BY <1>3, <3>1, OrderIdle, OrderMoved DEF OFail, Relies, OnStatus
    <3>2. CASE ~OFail(r)
      <4>1. LoadOrder(r)
        BY <2>2, <3>2 DEF OrderReading, LoadOrder, ReadLine, FlushLine, FlushReceived, Refresh,
           Recalculate, OCrash
      <4>2. oreq[r].o \in orderRows /\ order[oreq[r].o].statut \in From[oreq[r].op]
        BY <3>2, <4>1 DEF LoadOrder
      <4> QED BY <1>1, <1>2, <1>3, <4>2, OrderIdle DEF Relies, OnStatus, SameOrIdle
    <3> QED BY <3>1, <3>2
  <2> QED BY <2>1, <2>2
<1> QED BY <1>1, <1>2, <1>4, StatusStep

LEMMA CommitStatusInv ==
    ASSUME OrderTypeOK, StatusInv, NEW r \in Workers,
           CommitLine(r) \/ CommitStatus(r) \/ CommitDelete(r)
    PROVE  StatusInv'
<1>1. OBecome(r, OIdle) /\ SameOrIdle(OIdle, r) /\ oreq[r].pc # "idle" /\ oreq'[r] = OIdle
  BY CommitOrderType, OrderIdle, OrderMoved DEF SameOrIdle
<1>2. UNCHANGED <<lastOrder, statusAlone>> /\ orderRows' \subseteq orderRows
  BY DEF CommitLine, CommitStatus, CommitDelete, orderHistory
<1>3. Relies(r)'
  BY <1>1, OrderIdle DEF Relies, OnStatus
<1>4. ASSUME statusAlone, NEW q \in Workers \ {r}, OnStatus(q), oreq[q].o \in orderRows
      PROVE  order'[oreq[q].o].statut = order[oreq[q].o].statut
  <2>1. ~OnStatus(r)
    BY <1>4 DEF StatusInv, OneOnStatus
  <2>2. CommitLine(r)
    BY <1>1, <2>1 DEF OnStatus, CommitStatus, CommitDelete, StatusOps
  <2>3. orderRows \subseteq Orders
    BY SupplyAssumption DEF OrderTypeOK, Orders
  <2> QED BY <1>4, <2>2, <2>3 DEF CommitLine, WriteTotals, OrderTypeOK
<1> QED BY <1>1, <1>2, <1>3, <1>4, StatusStep

LEMMA NextStatus == OrderTypeOK /\ StatusInv /\ [OrderNext]_orderVars => StatusInv'
<1> SUFFICES ASSUME OrderTypeOK, StatusInv, [OrderNext]_orderVars PROVE StatusInv'
  OBVIOUS
<1>1. CASE UNCHANGED orderVars
  BY <1>1 DEF orderVars, tables, orderHistory, StatusInv, OneOnStatus, Relies, OnStatus
<1>2. ASSUME NEW n \in 0..MaxLines, NEW worth \in [1..n -> NewAmounts], CreateOrder(n, worth)
      PROVE  StatusInv'
  <2>1. UNCHANGED <<oreq, statusAlone>> /\ lastOrder' = lastOrder + 1 /\ lastOrder \in Nat
        /\ orderRows' = orderRows \cup {lastOrder'}
    BY <1>2 DEF CreateOrder, orderHistory, OrderTypeOK
  <2>2. \A q \in Workers : oreq[q].o \in Nat /\ oreq[q].o # lastOrder' /\ oreq[q].o <= lastOrder'
    BY <2>1 DEF StatusInv, OrderTypeOK, OrderRequest
  <2>3. \A o \in orderRows : order'[o] = order[o]
    BY <1>2, SupplyAssumption DEF CreateOrder, OrderTypeOK, Orders
  <2> QED BY <2>1, <2>2, <2>3 DEF StatusInv, OneOnStatus, Relies, OnStatus
<1>3. ASSUME NEW r \in Workers, OArrive(r) PROVE StatusInv'
  <2>1. PICK op \in OrderOps, x \in OrderRequest :
           /\ OBecome(r, x) /\ x.pc = "load" /\ x.op = op /\ x.o \in 1..lastOrder
           /\ statusAlone' = (statusAlone /\ ~(op \in StatusOps /\ OBusy(StatusOps)))
    BY <1>3, BeginOrderType
  <2>2. UNCHANGED <<orderRows, order, lastOrder>>
    BY <1>3, BeginOrderType DEF tables
  <2>3. oreq'[r] = x /\ \A q \in Workers : q # r => oreq'[q] = oreq[q]
    BY <2>1, OrderMoved
  <2>4. \A q \in Workers : oreq'[q].o <= lastOrder'
    BY <2>1, <2>2, <2>3 DEF StatusInv, OrderTypeOK
  <2>5. statusAlone' => OneOnStatus'
    BY <2>1, <2>3 DEF StatusInv, OneOnStatus, OnStatus, OBusy
  <2>6. statusAlone' => \A q \in Workers : Relies(q)'
    BY <2>1, <2>2, <2>3 DEF StatusInv, Relies, OnStatus
  <2> QED BY <2>4, <2>5, <2>6 DEF StatusInv
<1> QED BY <1>1, <1>2, <1>3, ReadingStatus, CommitStatusInv DEF OrderNext, OStep, OrderReading

LEMMA StepFinal ==
    ASSUME OrderTypeOK, StatusInv, [OrderNext]_orderVars, statusAlone, NEW o \in orderRows
    PROVE  /\ order[o].statut \in Terminal => order'[o].statut = order[o].statut
           /\ o \notin orderRows' => order[o].statut = "en_attente"
<1>0. o \in Orders /\ o <= lastOrder
  BY SupplyAssumption DEF OrderTypeOK, Orders
<1>1. CASE UNCHANGED tables
  BY <1>1 DEF tables
<1>2. ASSUME NEW n \in 0..MaxLines, NEW worth \in [1..n -> NewAmounts], CreateOrder(n, worth)
      PROVE  order'[o] = order[o] /\ o \in orderRows'
  BY <1>0, <1>2 DEF CreateOrder, OrderTypeOK
<1>3. ASSUME NEW r \in Workers, CommitLine(r)
      PROVE  order'[o].statut = order[o].statut /\ o \in orderRows'
  BY <1>0, <1>3 DEF CommitLine, WriteTotals, OrderTypeOK
<1>4. ASSUME NEW r \in Workers, CommitStatus(r) \/ CommitDelete(r), o = oreq[r].o
      PROVE  order[o].statut \in From[oreq[r].op]
  <2>1. OnStatus(r) /\ oreq[r].pc # "load"
    BY <1>4 DEF CommitStatus, CommitDelete, OnStatus, StatusOps
  <2> QED BY <1>4, <2>1 DEF StatusInv, Relies
<1>5. ASSUME NEW r \in Workers, CommitStatus(r)
      PROVE  /\ order[o].statut \in Terminal => order'[o].statut = order[o].statut
             /\ o \in orderRows'
  <2>1. CASE o = oreq[r].o
    <3>1. order[o].statut \notin Terminal
      BY <1>4, <1>5, <2>1 DEF CommitStatus, StatusOps, From, Terminal
    <3> QED BY <1>5, <3>1 DEF CommitStatus
  <2>2. CASE o # oreq[r].o
    BY <1>0, <1>5, <2>2 DEF CommitStatus, OrderTypeOK
  <2> QED BY <2>1, <2>2
<1>6. ASSUME NEW r \in Workers, CommitDelete(r)
      PROVE  /\ order[o].statut \in Terminal => order'[o].statut = order[o].statut
             /\ o \notin orderRows' => order[o].statut = "en_attente"
  <2>1. CASE o = oreq[r].o
    <3>1. oreq[r].op = "delete"
      BY <1>6 DEF CommitDelete
    <3>2. order[o].statut = "en_attente"
      BY <1>4, <1>6, <2>1, <3>1 DEF From
    <3> QED BY <3>2 DEF Terminal
  <2>2. CASE o # oreq[r].o
    BY <1>0, <1>6, <2>2 DEF CommitDelete, OrderTypeOK
  <2> QED BY <2>1, <2>2
<1> QED BY <1>1, <1>2, <1>3, <1>5, <1>6, OrderReadingRecord, BeginOrderType DEF OrderNext, OStep, OrderReading, orderVars

(* TerminalIsFinal: as long as requests on the status do not overlap, a    *)
(* delivered or cancelled order stays so and only a waiting one is         *)
(* deleted, whatever edits of lines and crashes run alongside.             *)
THEOREM TerminalFinal == OrderSpec => TerminalIsFinal
<1>1. OrderInit => StatusInv
  BY OrderIdle DEF OrderInit, StatusInv, OneOnStatus, Relies, OnStatus
<1>2. OrderTypeOK /\ StatusInv /\ [OrderNext]_orderVars
        => [statusAlone => \A o \in orderRows :
              /\ order[o].statut \in Terminal => order'[o].statut = order[o].statut
              /\ o \notin orderRows' => order[o].statut = "en_attente"]_orderVars
  BY StepFinal
<1> QED BY <1>1, <1>2, NextStatus, OrderTypeCorrect, PTL DEF OrderSpec, TerminalIsFinal

-----------------------------------------------------------------------------
(* What a request that edits lines without company can rely on at each     *)
(* statement: the line it found is still one of the order, the totals it   *)
(* read are those on record, and the totals it computed are those that the *)
(* lines will have.  Its order may be deleted meanwhile.                   *)
OnLines(q) == oreq[q].pc # "idle" /\ oreq[q].op \in LineOps
OneOnLines == \A p, q \in Workers : OnLines(p) /\ OnLines(q) => p = q

TotalAfter(q) ==
    LET rest == SumOf(LinesOf(oreq[q].o) \ {oreq[q].l})
    IN  IF oreq[q].op = "deleteLine" THEN rest ELSE rest + oreq[q].amount

LineFound(q) ==
    oreq[q].op # "addLine" /\ oreq[q].pc \in {"flush", "refresh", "sum", "commit"} =>
        oreq[q].l \in LinesOf(oreq[q].o)
LineWork(q) ==
    OnLines(q) /\ oreq[q].o \in orderRows =>
        /\ LineFound(q)
        /\ oreq[q].pc \in {"refresh", "sum", "commit"} => oreq[q].had
        /\ oreq[q].pc \in {"sum", "commit"} =>
              oreq[q].oldHt = order[oreq[q].o].ht /\ oreq[q].oldTva = order[oreq[q].o].tva
        /\ oreq[q].pc = "commit" =>
              oreq[q].ht = TotalAfter(q) /\ oreq[q].tva = Tva(oreq[q].ht)
LineNumbers == \A q \in Workers :
    /\ oreq[q].o <= lastOrder /\ oreq[q].l <= lastLine
    /\ oreq[q].op = "addLine" => oreq[q].l = 0

LineInv ==
    /\ LineNumbers
    /\ linesAlone => OneOnLines /\ TotalsOfLines /\ \A q \in Workers : LineWork(q)

LEMMA LinesFinite == ASSUME NEW T \in SUBSET Lines PROVE IsFiniteSet(T)
<1>1. IsFiniteSet(1..MaxLines)
  BY FS_Interval, SupplyAssumption
<1> QED BY <1>1, FS_Subset DEF Lines

LEMMA SumType ==
    ASSUME OrderTypeOK, NEW T \in SUBSET Lines
    PROVE  SumOf(T) \in Nat
<1> DEFINE f == [l \in Lines |-> line[l].amount]
<1>1. \A l \in T : f[l] \in Nat
  BY DEF OrderTypeOK, LineRow
<1> HIDE DEF f
<1>2. SumFunctionOnSet(f, T) \in Nat
  BY <1>1, LinesFinite, SumNat
<1> QED BY <1>2 DEF SumOf, f

(* The lines of T are worth the same before and after the step. *)
LEMMA SumKept ==
    ASSUME NEW T \in SUBSET Lines, \A l \in T : line'[l].amount = line[l].amount
    PROVE  SumOf(T)' = SumOf(T)
<1>1. PICK f, g : f = [l \in Lines |-> line[l].amount] /\ g = [l \in Lines |-> line'[l].amount]
  OBVIOUS
<1>2. \A l \in T : f[l] = g[l]
  BY <1>1
<1>3. SumFunctionOnSet(f, T) = SumFunctionOnSet(g, T)
  BY <1>2, LinesFinite, SumSame
<1> QED BY <1>1, <1>3 DEF SumOf

(* One line more, in the state after the step. *)
LEMMA SumOfMore ==
    ASSUME OrderTypeOK', NEW T \in SUBSET Lines, NEW l \in Lines \ T
    PROVE  SumOf(T \cup {l})' = line'[l].amount + SumOf(T)'
<1>1. PICK f : f = [k \in Lines |-> line'[k].amount]
  OBVIOUS
<1>2. \A k \in T \cup {l} : f[k] \in Int
  BY <1>1 DEF OrderTypeOK, LineRow
<1>3. SumFunctionOnSet(f, T \cup {l}) = f[l] + SumFunctionOnSet(f, T)
  BY <1>2, LinesFinite, SumAdd
<1> QED BY <1>1, <1>3 DEF SumOf

(* Steps that leave the totals and the lines of the orders as they are;    *)
(* orders may come with their lines, and go with them.                     *)
KeptOrders ==
    /\ lastOrder <= lastOrder' /\ lastLine <= lastLine'
    /\ \A o \in orderRows' : o \in orderRows \/ o > lastOrder
    /\ \A o \in orderRows \cap orderRows' :
          /\ LinesOf(o)' = LinesOf(o)
          /\ order'[o].ht = order[o].ht /\ order'[o].tva = order[o].tva
    /\ \A l \in lineRows \cap lineRows' : line'[l] = line[l]

LEMMA KeptSums ==
    ASSUME OrderTypeOK, KeptOrders, NEW o \in orderRows \cap orderRows',
           NEW T \in SUBSET LinesOf(o)
    PROVE  SumOf(T)' = SumOf(T)
<1>1. T \subseteq Lines /\ T \subseteq lineRows
  BY SupplyAssumption DEF LinesOf, OrderTypeOK, Lines
<1>2. T \subseteq lineRows'
  BY DEF KeptOrders, LinesOf
<1> QED BY <1>1, <1>2, SumKept DEF KeptOrders

LEMMA KeptTotals ==
    ASSUME OrderTypeOK, KeptOrders, NEW o \in orderRows \cap orderRows',
           order[o].ht = SumOf(LinesOf(o)) /\ order[o].tva = Tva(order[o].ht)
    PROVE  order'[o].ht = SumOf(LinesOf(o))' /\ order'[o].tva = Tva(order'[o].ht)
<1>1. PICK T : T = LinesOf(o)
  OBVIOUS
<1>2. SumOf(T)' = SumOf(T)
  BY <1>1, KeptSums
<1>3. LinesOf(o)' = T
  BY <1>1 DEF KeptOrders
<1>4. SumOf(LinesOf(o))' = SumOf(T)'
  BY <1>3 DEF SumOf
<1> QED BY <1>1, <1>2, <1>4 DEF KeptOrders, Tva

LEMMA KeptWork ==
    ASSUME OrderTypeOK, KeptOrders, LineNumbers, NEW q \in Workers, oreq'[q] = oreq[q], LineWork(q)
    PROVE  LineWork(q)'
<1> SUFFICES ASSUME OnLines(q)', oreq'[q].o \in orderRows' PROVE LineWork(q)'
  BY DEF LineWork
<1>1. PICK x \in OrderRequest : x = oreq[q]
  BY DEF OrderTypeOK
<1>2. OnLines(q) /\ x.o \in orderRows \cap orderRows'
  BY <1>1, SupplyAssumption DEF OnLines, KeptOrders, LineNumbers, OrderTypeOK, OrderRequest
<1>3. LinesOf(x.o)' = LinesOf(x.o)
  BY <1>2 DEF KeptOrders
<1>4. TotalAfter(q)' = TotalAfter(q)
  <2>1. PICK T : T = LinesOf(x.o) \ {x.l}
    OBVIOUS
  <2>2. SumOf(T)' = SumOf(T)
    BY <1>2, <2>1, KeptSums
  <2>3. TotalAfter(q) = IF x.op = "deleteLine" THEN SumOf(T) ELSE SumOf(T) + x.amount
    BY <1>1, <2>1 DEF TotalAfter
  <2>4. TotalAfter(q)' = IF x.op = "deleteLine" THEN SumOf(T)' ELSE SumOf(T)' + x.amount
    BY <1>1, <1>3, <2>1 DEF TotalAfter, SumOf
  <2> QED BY <2>2, <2>3, <2>4
<1> QED BY <1>1, <1>2, <1>3, <1>4 DEF LineWork, LineFound, KeptOrders, Tva

LEMMA OrderBecomes ==
    ASSUME OrderTypeOK, NEW r \in Workers, NEW x, OBecome(r, x)
    PROVE  oreq'[r] = x
BY DEF OBecome, OrderTypeOK

(* A request's own statements, up to its commit. *)
LEMMA ReadingWork ==
    ASSUME OrderTypeOK, NEW r \in Workers, OrderReading(r), LineWork(r)
    PROVE  LineWork(r)'
<1>0. /\ UNCHANGED <<tables, orderHistory>> /\ oreq[r].pc # "idle" /\ oreq[r] \in OrderRequest
      /\ UNCHANGED <<orderRows, order, lineRows, line>>
  BY OrderReadingRecord DEF OrderTypeOK, tables
<1>1. CASE OFail(r)
  <2>1. oreq'[r] = OIdle
    BY <1>1, OrderIdle, OrderMoved DEF OFail
  <2> QED BY <2>1, OrderIdle DEF LineWork, OnLines
<1>2. CASE ~OFail(r)
  <2>1. PICK x : SameOrIdle(x, r) /\ OBecome(r, x)
    BY OrderReadingRecord
  <2>2. oreq'[r] = x /\ x # OIdle /\ x \in OrderRequest /\ x.op = oreq[r].op
        /\ x.o = oreq[r].o /\ x.l = oreq[r].l
    BY <1>2, <2>1, OrderIdle, OrderMoved DEF SameOrIdle, OFail
  <2> SUFFICES ASSUME x.op \in LineOps, x.o \in orderRows PROVE LineWork(r)'
    BY <1>0, <2>2 DEF LineWork, OnLines
  <2>3. /\ LinesOf(x.o)' = LinesOf(x.o) /\ UNCHANGED <<orderRows, order>>
        /\ \A T : SumOf(T)' = SumOf(T)
    BY <1>0 DEF LinesOf, SumOf
  <2>4. OnLines(r) /\ oreq[r].o \in orderRows
    BY <1>0, <2>2 DEF OnLines
  <2>5. CASE LoadOrder(r)
    <3>1. PICK M : OBecome(r, [oreq[r] EXCEPT
                 !.pc = IF oreq[r].op \in {"updateLine", "deleteLine"} THEN "line"
                        ELSE IF oreq[r].op \in {"addLine", "receive"} THEN "flush" ELSE "commit",
                 !.marks = M,
                 !.seen = IF oreq[r].op = "update" THEN order[oreq[r].o].statut ELSE @])
      BY <1>2, <2>5 DEF LoadOrder
    <3>2. x.pc = IF x.op \in {"updateLine", "deleteLine"} THEN "line" ELSE "flush"
      BY <1>0, <2>2, <3>1, OrderBecomes, ZenonT(60) DEF OrderRequest, LineOps
    <3> QED BY <2>2, <3>2 DEF LineWork, LineFound, LineOps
  <2>6. CASE ReadLine(r)
    <3>1. x.pc = "flush" /\ x.l \in LinesOf(x.o)
      BY <1>0, <1>2, <2>2, <2>6 DEF ReadLine, OGoto, OBecome, OrderTypeOK, OrderRequest, LinesOf
    <3> QED BY <2>2, <2>3, <3>1 DEF LineWork, LineFound
  <2>7. CASE FlushLine(r)
    <3>0. PICK y : /\ y = [oreq[r] EXCEPT !.pc = "refresh",
                               !.had = oreq[r].op = "addLine" \/ oreq[r].l \in lineRows]
                   /\ OBecome(r, y)
      BY <1>2, <2>7 DEF FlushLine
    <3>a. x = y
      BY <2>2, <3>0, OrderBecomes
    <3>1. x.pc = "refresh" /\ (x.had <=> x.op = "addLine" \/ x.l \in lineRows) /\ oreq[r].pc = "flush"
      BY <1>0, <2>2, <2>7, <3>0, <3>a DEF FlushLine, OrderRequest
    <3>2. x.op # "addLine" => x.l \in LinesOf(x.o)
      BY <2>2, <2>4, <3>1 DEF LineWork, LineFound
    <3> QED BY <2>2, <2>3, <3>1, <3>2 DEF LineWork, LineFound, LinesOf
  <2>8. CASE Refresh(r)
    <3>1. /\ x.pc = "sum" /\ x.oldHt = order[x.o].ht /\ x.oldTva = order[x.o].tva
          /\ x.had = oreq[r].had /\ oreq[r].pc = "refresh"
      <4>1. PICK y : /\ y = [oreq[r] EXCEPT !.pc = "sum", !.oldHt = order[oreq[r].o].ht,
                                            !.oldTva = order[oreq[r].o].tva]
                     /\ OBecome(r, y)
        BY <1>2, <2>8 DEF Refresh
      <4>2. x = y
        BY <2>2, <4>1, OrderBecomes
      <4>3. oreq[r].pc = "refresh"
        BY <2>8 DEF Refresh
      <4>4. /\ y.pc = "sum" /\ y.oldHt = order[oreq[r].o].ht /\ y.oldTva = order[oreq[r].o].tva
            /\ y.had = oreq[r].had
        BY <1>0, <4>1 DEF OrderRequest
      <4> QED BY <2>2, <4>2, <4>3, <4>4
    <3>2. /\ x.op # "addLine" => x.l \in LinesOf(x.o)
          /\ x.had
      BY <2>2, <2>4, <3>1 DEF LineWork, LineFound
    <3> QED BY <2>2, <2>3, <3>1, <3>2 DEF LineWork, LineFound
  <2>9. CASE Recalculate(r)
    <3>1. oreq[r].had /\ oreq[r].pc = "sum"
      BY <2>4, <2>9 DEF LineWork, Recalculate
    <3>2. /\ x.pc = "commit" /\ x.oldHt = oreq[r].oldHt /\ x.oldTva = oreq[r].oldTva
          /\ x.had = oreq[r].had /\ x.amount = oreq[r].amount
          /\ x.tva = Tva(x.ht) /\ x.ht = TotalAfter(r)
      <4>1. PICK y : /\ y = [oreq[r] EXCEPT !.pc = "commit", !.ht = TotalAfter(r),
                                            !.tva = Tva(TotalAfter(r))]
                     /\ OBecome(r, y)
        BY <1>2, <2>9, <3>1 DEF Recalculate, TotalAfter
      <4>2. x = y
        BY <2>2, <4>1, OrderBecomes
      <4> QED BY <1>0, <2>2, <4>1, <4>2 DEF OrderRequest
    <3>3. TotalAfter(r)' = TotalAfter(r)
      <4>1. PICK T : T = LinesOf(x.o) \ {x.l}
        OBVIOUS
      <4>2. SumOf(T)' = SumOf(T)
        BY <2>3
      <4>3. TotalAfter(r) = IF x.op = "deleteLine" THEN SumOf(T) ELSE SumOf(T) + x.amount
        BY <2>2, <3>2, <4>1 DEF TotalAfter
      <4>4. TotalAfter(r)' = IF x.op = "deleteLine" THEN SumOf(T)' ELSE SumOf(T)' + x.amount
        BY <2>2, <2>3, <4>1 DEF TotalAfter, SumOf
      <4> QED BY <4>2, <4>3, <4>4
    <3>4. Tva(x.ht)' = Tva(x.ht) /\ Tva(oreq[r].ht)' = Tva(x.ht)
      BY <2>2 DEF Tva
    <3>5. /\ x.op # "addLine" => x.l \in LinesOf(x.o)
          /\ x.oldHt = order[x.o].ht /\ x.oldTva = order[x.o].tva
      BY <2>2, <2>4, <3>1, <3>2 DEF LineWork, LineFound
    <3> QED BY <2>2, <2>3, <3>1, <3>2, <3>3, <3>4, <3>5 DEF LineWork, LineFound
  <2>10. ~FlushReceived(r) /\ ~OCrash(r)
    BY <1>2, <2>2 DEF FlushReceived, OCrash, LineOps
  <2> QED BY <2>5, <2>6, <2>7, <2>8, <2>9, <2>10 DEF OrderReading
<1> QED BY <1>1, <1>2

(* The steps that keep the orders' lines and totals. *)
LEMMA StatusKeeps ==
    ASSUME OrderTypeOK, NEW r \in Workers, CommitStatus(r) \/ CommitDelete(r)
    PROVE  KeptOrders
<1>0. /\ orderRows \subseteq Orders /\ lineRows \subseteq Lines /\ lastOrder \in Nat /\ lastLine \in Nat
      /\ UNCHANGED <<lastOrder, lastLine>>
  BY SupplyAssumption DEF OrderTypeOK, Orders, Lines, CommitStatus, CommitDelete
<1>1. CASE CommitStatus(r)
  <2>1. \A o \in Orders : order'[o].ht = order[o].ht /\ order'[o].tva = order[o].tva
    BY <1>0, <1>1 DEF CommitStatus, OrderTypeOK
  <2> QED BY <1>0, <1>1, <2>1 DEF CommitStatus, KeptOrders, LinesOf
<1>2. CASE CommitDelete(r)
  <2>1. /\ orderRows' = orderRows \ {oreq[r].o} /\ lineRows' = lineRows \ LinesOf(oreq[r].o)
        /\ \A l \in lineRows' : line'[l] = line[l]
        /\ \A o \in Orders : o # oreq[r].o => order'[o] = order[o]
    BY <1>0, <1>2 DEF CommitDelete, OrderTypeOK
  <2>2. \A o : o # oreq[r].o => LinesOf(o)' = LinesOf(o)
    BY <2>1 DEF LinesOf
  <2> QED BY <1>0, <2>1, <2>2 DEF KeptOrders
<1> QED BY <1>1, <1>2

LEMMA QuietKeeps == OrderTypeOK /\ UNCHANGED tables => KeptOrders
BY DEF tables, KeptOrders, LinesOf, OrderTypeOK

(* The commit of an edit of lines, without company. *)
LEMMA CommitLineTotals ==
    ASSUME OrderTypeOK, OrderTypeOK', LineNumbers, NEW r \in Workers, CommitLine(r), LineWork(r),
           \A o \in orderRows : order[o].ht = SumOf(LinesOf(o)) /\ order[o].tva = Tva(order[o].ht)
    PROVE  \A o \in orderRows' :
              order'[o].ht = SumOf(LinesOf(o))' /\ order'[o].tva = Tva(order'[o].ht)
<1>1. CASE UNCHANGED tables
  BY <1>1, QuietKeeps, KeptTotals DEF tables
<1> SUFFICES ASSUME ~UNCHANGED tables, NEW o \in orderRows'
             PROVE  order'[o].ht = SumOf(LinesOf(o))' /\ order'[o].tva = Tva(order'[o].ht)
  BY <1>1
<1>2. PICK x \in OrderRequest : x = oreq[r]
  BY DEF OrderTypeOK
<1>3. /\ orderRows' = orderRows /\ x.o \in orderRows /\ WriteTotals(r) /\ WriteLine(r)
      /\ x.op \in LineOps /\ x.pc = "commit" /\ OnLines(r)
      /\ orderRows \subseteq Orders /\ lineRows \subseteq Lines /\ lineRows' \subseteq Lines
      /\ line \in [Lines -> LineRow] /\ lastLine \in 0..MaxLines /\ lineRows \subseteq 1..lastLine
  BY <1>2, SupplyAssumption DEF CommitLine, tables, OrderTypeOK, OnLines, Orders, Lines
<1>4. /\ x.op # "addLine" => x.l \in lineRows /\ line[x.l].order = x.o
      /\ x.op = "addLine" => x.l \notin lineRows
      /\ x.had /\ x.oldHt = order[x.o].ht /\ x.oldTva = order[x.o].tva
      /\ x.ht = TotalAfter(r) /\ x.tva = Tva(x.ht)
  BY <1>2, <1>3 DEF LineWork, LineFound, LinesOf, LineNumbers
<1> DEFINE new == lastLine + 1
           T == LinesOf(x.o) \ {x.l}
<1>5. \A l \in lineRows \ {x.l} : l \in lineRows' /\ line'[l] = line[l]
  BY <1>2, <1>3, <1>4, SupplyAssumption DEF WriteLine, Lines
<1>6. CASE o # x.o
  <2>1. order'[o] = order[o]
    BY <1>2, <1>3, <1>6 DEF WriteTotals, OrderTypeOK
  <2>2. LinesOf(o) \subseteq Lines /\ x.l \notin LinesOf(o)
    BY <1>3, <1>4, <1>6 DEF LinesOf
  <2>3. LinesOf(o)' = LinesOf(o)
    <3>1. LinesOf(o) \subseteq LinesOf(o)'
      BY <1>5, <2>2 DEF LinesOf
    <3>2. ASSUME NEW l \in LinesOf(o)' PROVE l \in LinesOf(o)
      <4>1. CASE l \in lineRows \ {x.l}
        BY <1>5, <4>1 DEF LinesOf
      <4>2. CASE l \notin lineRows
        BY <1>2, <1>3, <1>6, <4>2, SupplyAssumption DEF LinesOf, WriteLine, Lines
      <4>3. CASE l = x.l /\ l \in lineRows
        BY <1>2, <1>3, <1>4, <1>6, <4>3, SupplyAssumption DEF LinesOf, WriteLine, Lines, LineRow
      <4> QED BY <4>1, <4>2, <4>3
    <3> QED BY <3>1, <3>2
  <2>4. PICK S : S = LinesOf(o)
    OBVIOUS
  <2>5. SumOf(S)' = SumOf(S)
    <3>1. S \in SUBSET Lines /\ \A l \in S : l \in lineRows \ {x.l}
      BY <2>2, <2>4 DEF LinesOf
    <3>2. \A l \in S : line'[l].amount = line[l].amount
      BY <1>5, <3>1
    <3> QED BY <3>1, <3>2, SumKept
  <2>6. SumOf(LinesOf(o))' = SumOf(S)'
    BY <2>3, <2>4 DEF SumOf
  <2> QED BY <1>3, <2>1, <2>4, <2>5, <2>6 DEF Tva
<1>7. CASE o = x.o
  <2>1. order'[o].ht = x.ht /\ order'[o].tva = x.tva
    BY <1>2, <1>3, <1>4, <1>7 DEF WriteTotals, OrderTypeOK, OrderRow
  <2>2. PICK S : S = T
    OBVIOUS
  <2>3. S \in SUBSET Lines /\ \A l \in S : l \in lineRows \ {x.l}
    BY <1>3, <2>2 DEF LinesOf
  <2>4. SumOf(S)' = SumOf(S) /\ SumOf(S) \in Nat
    <3>1. \A l \in S : line'[l].amount = line[l].amount
      BY <1>5, <2>3
    <3> QED BY <2>3, <3>1, SumKept, SumType
  <2>5. x.ht = IF x.op = "deleteLine" THEN SumOf(S) ELSE SumOf(S) + x.amount
    BY <1>2, <1>4, <2>2 DEF TotalAfter
  <2>6. S \subseteq LinesOf(o)'
    BY <1>5, <1>7, <2>2, <2>3 DEF LinesOf
  <2>7. SumOf(LinesOf(o))' = x.ht
    <3>1. CASE x.op = "addLine"
      <4>1. /\ lineRows' = lineRows \cup {new} /\ new \in Lines \ lineRows
            /\ line'[new].order = x.o /\ line'[new].amount = x.amount
        BY <1>2, <1>3, <3>1, SupplyAssumption DEF WriteLine, Lines
      <4>2. LinesOf(o)' = S \cup {new}
        BY <1>4, <1>5, <1>7, <2>2, <2>6, <3>1, <4>1 DEF LinesOf
      <4>3. PICK n : n = new
        OBVIOUS
      <4>4. SumOf(S \cup {n})' = line'[n].amount + SumOf(S)'
        BY <2>3, <4>1, <4>3, SumOfMore
      <4>5. SumOf(LinesOf(o))' = SumOf(S \cup {n})'
        BY <4>2, <4>3 DEF SumOf
      <4> QED BY <1>2, <2>4, <2>5, <3>1, <4>1, <4>3, <4>4, <4>5 DEF OrderRequest
    <3>2. CASE x.op = "updateLine"
      <4>1. lineRows' = lineRows /\ line' = [line EXCEPT ![x.l].amount = x.amount]
        BY <1>2, <1>3, <1>4, <3>2 DEF WriteLine
      <4>2. x.l \in Lines /\ line'[x.l].order = x.o /\ line'[x.l].amount = x.amount
        BY <1>3, <1>4, <3>2, <4>1 DEF LineRow
      <4>3. LinesOf(o)' = S \cup {x.l}
        BY <1>4, <1>5, <1>7, <2>2, <2>6, <3>2, <4>1, <4>2 DEF LinesOf
      <4>4. SumOf(S \cup {x.l})' = line'[x.l].amount + SumOf(S)'
        BY <2>3, <4>2, SumOfMore
      <4>5. SumOf(LinesOf(o))' = SumOf(S \cup {x.l})'
        BY <4>3 DEF SumOf
      <4> QED BY <1>2, <2>4, <2>5, <3>2, <4>2, <4>4, <4>5 DEF OrderRequest
    <3>3. CASE x.op = "deleteLine"
      <4>1. lineRows' = lineRows \ {x.l}
        BY <1>2, <1>3, <3>3 DEF WriteLine
      <4>2. LinesOf(o)' = S
        BY <1>5, <1>7, <2>2, <2>6, <4>1 DEF LinesOf
      <4>3. SumOf(LinesOf(o))' = SumOf(S)'
        BY <4>2 DEF SumOf
      <4> QED BY <2>4, <2>5, <3>3, <4>3
    <3> QED BY <1>3, <3>1, <3>2, <3>3 DEF LineOps
  <2> QED BY <1>4, <2>1, <2>7 DEF Tva
<1> QED BY <1>6, <1>7

(* An order that is created has the totals of its lines. *)
LEMMA CreateTotals ==
    ASSUME OrderTypeOK, OrderTypeOK', NoOrphanLine,
           NEW n \in 0..MaxLines, NEW worth \in [1..n -> NewAmounts], CreateOrder(n, worth)
    PROVE  /\ KeptOrders /\ lastOrder' = lastOrder + 1
           /\ \A o \in orderRows' \ orderRows :
                 order'[o].ht = SumOf(LinesOf(o))' /\ order'[o].tva = Tva(order'[o].ht)
<1> DEFINE first == lastOrder + 1
           new == (lastLine + 1)..(lastLine + n)
           value == [l \in new |-> worth[l - lastLine]]
<1>a. /\ orderRows' = orderRows \cup {first} /\ lastOrder' = first
      /\ order' = [order EXCEPT ![first] =
            [statut |-> "en_attente", ht |-> SumFunctionOnSet(value, new),
             tva |-> Tva(SumFunctionOnSet(value, new))]]
      /\ lineRows' = lineRows \cup new /\ lastLine' = lastLine + n
      /\ line' = [l \in Lines |->
            IF l \in new THEN [order |-> first, amount |-> worth[l - lastLine]] ELSE line[l]]
  BY DEF CreateOrder
<1>b. PICK o, N, h : o = first /\ N = new /\ h = value
  OBVIOUS
<1>0. /\ o = lastOrder + 1 /\ N = (lastLine + 1)..(lastLine + n)
      /\ \A l \in N : h[l] = worth[l - lastLine]
  BY <1>b
<1> HIDE DEF first, new, value
<1>1. /\ lastOrder \in Nat /\ lastLine \in Nat /\ o \in Orders /\ N \subseteq Lines
      /\ orderRows \subseteq 1..lastOrder /\ lineRows \subseteq 1..lastLine /\ lineRows \subseteq Lines
      /\ order \in [Orders -> OrderRow]
  BY <1>0, SupplyAssumption DEF CreateOrder, OrderTypeOK, Orders, Lines
<1>2. /\ orderRows' = orderRows \cup {o} /\ lastOrder' = o
      /\ order' = [order EXCEPT ![o] = [statut |-> "en_attente", ht |-> SumFunctionOnSet(h, N),
                                        tva |-> Tva(SumFunctionOnSet(h, N))]]
      /\ lineRows' = lineRows \cup N /\ lastLine' = lastLine + n
      /\ line' = [l \in Lines |-> IF l \in N THEN [order |-> o, amount |-> worth[l - lastLine]]
                                             ELSE line[l]]
  BY <1>a, <1>b
<1>3. \A l \in lineRows : l \notin N /\ line'[l] = line[l]
  BY <1>0, <1>1, <1>2
<1>4. \A l \in N : line'[l].order = o /\ line'[l].amount = h[l]
  BY <1>0, <1>1, <1>2
<1>5. \A p \in orderRows : p # o /\ order'[p] = order[p] /\ LinesOf(p)' = LinesOf(p)
  <2>1. \A p \in orderRows : p # o /\ p \in Orders
    BY <1>0, <1>1, SupplyAssumption DEF OrderTypeOK, Orders
  <2>2. \A p \in orderRows : order'[p] = order[p]
    BY <1>1, <1>2, <2>1
  <2>3. \A p \in orderRows : LinesOf(p)' = LinesOf(p)
    BY <1>2, <1>3, <1>4, <2>1 DEF LinesOf
  <2> QED BY <2>1, <2>2, <2>3
<1>6. KeptOrders
  BY <1>0, <1>1, <1>2, <1>3, <1>5 DEF KeptOrders
<1>7. LinesOf(o)' = N
  <2>1. ASSUME NEW l \in lineRows PROVE line'[l].order # o
    <3>1. line[l].order \in 1..lastOrder /\ line'[l] = line[l]
      BY <1>1, <1>3 DEF NoOrphanLine
    <3> QED BY <1>0, <1>1, <3>1
  <2> QED BY <1>2, <1>4, <2>1 DEF LinesOf
<1>8. PICK S, f, g : S = N /\ f = [l \in Lines |-> line'[l].amount] /\ g = h
  OBVIOUS
<1>9. SumFunctionOnSet(f, S) = SumFunctionOnSet(g, S)
  <2>1. IsFiniteSet(S)
    BY <1>1, <1>8, LinesFinite
  <2>2. \A l \in S : f[l] = g[l]
    BY <1>1, <1>4, <1>8
  <2> QED BY <2>1, <2>2, SumSame
<1>10. SumOf(LinesOf(o))' = SumFunctionOnSet(h, N)
  <2>1. SumOf(LinesOf(o))' = SumFunctionOnSet(f, S)
    BY <1>7, <1>8 DEF SumOf
  <2> QED BY <1>8, <1>9, <2>1
<1>11. order'[o].ht = SumFunctionOnSet(h, N) /\ order'[o].tva = Tva(order'[o].ht)
  BY <1>1, <1>2 DEF Tva
<1>12. \A p \in orderRows' \ orderRows : p = o
  BY <1>2
<1> QED BY <1>0, <1>2, <1>6, <1>10, <1>11, <1>12

(* What a step of the request r that keeps the orders leaves of the        *)
(* invariant.                                                              *)
LEMMA LineStep ==
    ASSUME OrderTypeOK, OrderTypeOK', LineInv, KeptOrders, NEW r \in Workers, NEW x, oreq'[r] = x,
           \A q \in Workers : q # r => oreq'[q] = oreq[q],
           x.o <= lastOrder', x.l <= lastLine', x.op = "addLine" => x.l = 0,
           linesAlone' => linesAlone /\ OneOnLines' /\ LineWork(r)',
           orderRows' \subseteq orderRows
    PROVE  LineInv'
<1>1. LineNumbers'
  <2>1. ASSUME NEW q \in Workers
        PROVE  /\ oreq'[q].o <= lastOrder' /\ oreq'[q].l <= lastLine'
               /\ oreq'[q].op = "addLine" => oreq'[q].l = 0
    <3>1. CASE q = r
      BY <3>1
    <3>2. CASE q # r
      <4>1. /\ oreq[q].o \in Int /\ oreq[q].l \in Int /\ lastOrder \in Int /\ lastLine \in Int
            /\ lastOrder' \in Int /\ lastLine' \in Int
            /\ oreq'[q] = oreq[q]
        BY <3>2, SupplyAssumption DEF OrderTypeOK, OrderRequest
      <4>2. /\ oreq[q].o <= lastOrder /\ oreq[q].l <= lastLine
            /\ oreq[q].op = "addLine" => oreq[q].l = 0
        BY DEF LineInv, LineNumbers
      <4>3. lastOrder <= lastOrder' /\ lastLine <= lastLine'
        BY DEF KeptOrders
      <4> QED BY <4>1, <4>2, <4>3
    <3> QED BY <3>1, <3>2
  <2> QED BY <2>1 DEF LineNumbers
<1>2. ASSUME linesAlone' PROVE TotalsOfLines'
  BY <1>2, KeptTotals DEF LineInv, TotalsOfLines
<1>3. ASSUME linesAlone', NEW q \in Workers PROVE LineWork(q)'
  BY <1>3, KeptWork DEF LineInv
<1> QED BY <1>1, <1>2, <1>3 DEF LineInv

LEMMA NextLines ==
    OrderTypeOK /\ OrderTypeOK' /\ NoOrphanLine /\ LineInv /\ [OrderNext]_orderVars => LineInv'
<1> SUFFICES ASSUME OrderTypeOK, OrderTypeOK', NoOrphanLine, LineInv, [OrderNext]_orderVars
             PROVE  LineInv'
  OBVIOUS
<1>1. CASE UNCHANGED orderVars
  <2>1. KeptOrders /\ UNCHANGED <<oreq, linesAlone, orderRows, lastOrder, lastLine>>
    BY <1>1, QuietKeeps DEF orderVars, tables, orderHistory
  <2>2. linesAlone => TotalsOfLines' /\ \A q \in Workers : LineWork(q)'
    BY <2>1, KeptTotals, KeptWork DEF LineInv, TotalsOfLines
  <2> QED BY <2>1, <2>2 DEF LineInv, LineNumbers, OneOnLines, OnLines
<1>2. ASSUME NEW n \in 0..MaxLines, NEW worth \in [1..n -> NewAmounts], CreateOrder(n, worth)
      PROVE  LineInv'
  <2>1. UNCHANGED <<oreq, linesAlone>>
    BY <1>2 DEF CreateOrder, orderHistory
  <2>2. /\ KeptOrders /\ lastOrder <= lastOrder' /\ lastLine <= lastLine'
        /\ \A o \in orderRows' \ orderRows :
              order'[o].ht = SumOf(LinesOf(o))' /\ order'[o].tva = Tva(order'[o].ht)
    BY <1>2, CreateTotals DEF KeptOrders
  <2>3. linesAlone => TotalsOfLines'
    BY <2>1, <2>2, KeptTotals DEF LineInv, TotalsOfLines
  <2>4. linesAlone => \A q \in Workers : LineWork(q)'
    BY <2>1, <2>2, KeptWork DEF LineInv
  <2>5. LineNumbers'
    <3>1. ASSUME NEW q \in Workers PROVE oreq[q].o \in Int /\ oreq[q].l \in Int
      <4>1. oreq[q] \in OrderRequest
        BY DEF OrderTypeOK
      <4> QED BY <4>1 DEF OrderRequest
    <3>2. lastOrder \in Int /\ lastLine \in Int /\ lastOrder' \in Int /\ lastLine' \in Int
      BY DEF OrderTypeOK
    <3> QED BY <2>1, <2>2, <3>1, <3>2 DEF LineInv, LineNumbers
  <2> QED BY <2>1, <2>3, <2>4, <2>5 DEF LineInv, OneOnLines, OnLines
<1>3. ASSUME NEW r \in Workers, OArrive(r) PROVE LineInv'
  <2>1. PICK op \in OrderOps, x \in OrderRequest :
           /\ OBecome(r, x) /\ x.pc = "load" /\ x.op = op /\ x.o \in 1..lastOrder
           /\ x.l <= lastLine /\ (op = "addLine" => x.l = 0)
           /\ linesAlone' = (linesAlone /\ ~(op \in LineOps /\ OBusy(LineOps)))
    BY <1>3, BeginOrderType
  <2>2. UNCHANGED tables /\ UNCHANGED <<orderRows, lastOrder, lastLine>> /\ KeptOrders
    BY <1>3, BeginOrderType, QuietKeeps DEF tables
  <2>3. oreq'[r] = x /\ \A q \in Workers : q # r => oreq'[q] = oreq[q]
    BY <2>1, OrderMoved
  <2>4. linesAlone' => OneOnLines'
    BY <2>1, <2>3 DEF LineInv, OneOnLines, OnLines, OBusy
  <2>5. LineWork(r)'
    BY <2>1, <2>3 DEF LineWork, LineFound
  <2>6. x.o <= lastOrder
    BY <2>1 DEF OrderTypeOK
  <2> QED BY <2>1, <2>2, <2>3, <2>4, <2>5, <2>6, LineStep
<1>4. ASSUME NEW r \in Workers, oreq[r].pc # "idle", NEW x, SameOrIdle(x, r), OBecome(r, x),
             UNCHANGED linesAlone
      PROVE  /\ oreq'[r] = x /\ \A q \in Workers : q # r => oreq'[q] = oreq[q]
             /\ x.o <= lastOrder /\ x.l <= lastLine /\ (x.op = "addLine" => x.l = 0)
             /\ linesAlone' => OneOnLines'
  <2>1. oreq'[r] = x /\ \A q \in Workers : q # r => oreq'[q] = oreq[q]
    BY <1>4, OrderIdle, OrderMoved DEF SameOrIdle
  <2>2. x.o <= lastOrder /\ x.l <= lastLine /\ (x.op = "addLine" => x.l = 0)
    <3>1. CASE x = OIdle
      BY <3>1, SupplyAssumption DEF OIdle, OrderTypeOK
    <3> QED BY <1>4, <3>1 DEF SameOrIdle, LineInv, LineNumbers
  <2>3. \A q \in Workers : OnLines(q)' => OnLines(q)
    BY <1>4, <2>1, OrderIdle DEF OnLines, SameOrIdle, LineOps
  <2> QED BY <1>4, <2>1, <2>2, <2>3 DEF LineInv, OneOnLines
<1>5. ASSUME NEW r \in Workers, OrderReading(r) PROVE LineInv'
  <2>1. PICK x : SameOrIdle(x, r) /\ OBecome(r, x)
    BY <1>5, OrderReadingRecord
  <2>2. /\ UNCHANGED <<orderRows, lastOrder, lastLine, linesAlone>> /\ oreq[r].pc # "idle"
        /\ KeptOrders
    BY <1>5, OrderReadingRecord, QuietKeeps DEF tables, orderHistory
  <2>3. linesAlone => LineWork(r)'
    BY <1>5, ReadingWork DEF LineInv
  <2> QED BY <1>4, <2>1, <2>2, <2>3, LineStep
<1>6. ASSUME NEW r \in Workers, CommitStatus(r) \/ CommitDelete(r) PROVE LineInv'
  <2>1. OBecome(r, OIdle) /\ SameOrIdle(OIdle, r) /\ oreq[r].pc # "idle" /\ KeptOrders
    BY <1>6, CommitOrderType, StatusKeeps DEF SameOrIdle
  <2>2. UNCHANGED <<lastOrder, lastLine, linesAlone>> /\ orderRows' \subseteq orderRows
    BY <1>6 DEF CommitStatus, CommitDelete, orderHistory
  <2>3. oreq'[r] = OIdle
    BY <2>1, <2>2, <1>4
  <2>4. LineWork(r)'
    BY <2>3, OrderIdle DEF LineWork, OnLines
  <2> QED BY <1>4, <2>1, <2>2, <2>4, LineStep
<1>7. ASSUME NEW r \in Workers, CommitLine(r) PROVE LineInv'
  <2>1. OBecome(r, OIdle) /\ SameOrIdle(OIdle, r) /\ oreq[r].pc # "idle"
    BY <1>7, CommitOrderType DEF SameOrIdle
  <2>2. UNCHANGED <<orderRows, lastOrder, linesAlone>> /\ OnLines(r)
    BY <1>7 DEF CommitLine, orderHistory, OnLines, LineOps
  <2>3. /\ oreq'[r] = OIdle /\ \A q \in Workers : q # r => oreq'[q] = oreq[q]
        /\ linesAlone' => OneOnLines'
    BY <2>1, <2>2, <1>4
  <2>4. lastLine <= lastLine' /\ lastLine \in Int /\ lastLine' \in Int
    BY <1>7 DEF CommitLine, WriteLine, OrderTypeOK
  <2>5. LineNumbers'
    <3>1. ASSUME NEW q \in Workers
          PROVE  /\ oreq'[q].o <= lastOrder' /\ oreq'[q].l <= lastLine'
                 /\ oreq'[q].op = "addLine" => oreq'[q].l = 0
      <4>1. CASE q = r
        BY <2>2, <2>3, <2>4, <4>1 DEF OIdle, OrderTypeOK
      <4>2. CASE q # r
        <5>1. oreq[q].l \in Int /\ oreq'[q] = oreq[q]
          BY <2>3, <4>2 DEF OrderTypeOK, OrderRequest
        <5> QED BY <2>2, <2>4, <5>1 DEF LineInv, LineNumbers
      <4> QED BY <4>1, <4>2
    <3> QED BY <3>1 DEF LineNumbers
  <2>6. linesAlone => TotalsOfLines'
    <3>1. linesAlone => LineWork(r) /\ LineNumbers
      BY DEF LineInv
    <3> QED BY <1>7, <3>1, CommitLineTotals DEF LineInv, TotalsOfLines
  <2>7. linesAlone => \A q \in Workers : LineWork(q)'
    BY <2>2, <2>3, OrderIdle DEF LineInv, OneOnLines, LineWork, OnLines
  <2> QED BY <2>2, <2>3, <2>5, <2>6, <2>7 DEF LineInv
<1> QED BY <1>1, <1>2, <1>3, <1>5, <1>6, <1>7 DEF OrderNext, OStep, OrderReading

(* OrderConsistent: the totals of an order are those of its lines as long  *)
(* as edits of lines do not overlap, whatever status changes, receptions   *)
(* and deletions run alongside, for any orders and lines.                  *)
THEOREM TotalsStayThoseOfLines == OrderSpec => []OrderConsistent
<1>1. OrderInit => LineInv
  BY OrderIdle, SupplyAssumption DEF OrderInit, LineInv, LineNumbers, OneOnLines, OnLines, TotalsOfLines,
     LineWork, OIdle
<1>2. LineInv /\ OrderTypeOK => OrderConsistent
  BY DEF LineInv, OrderConsistent, TotalsOfLines
<1>3. OrderSpec => []LineInv
  BY <1>1, NextLines, OrderTypeCorrect, LinesKeepTheirOrder, PTL DEF OrderSpec
<1> QED BY <1>2, <1>3, OrderTypeCorrect, PTL

(***************************************************************************)
(* The restaurant's stock.                                                 *)
(***************************************************************************)
LEMMA QuantityType == 0 \in Quantities /\ Quantities \subseteq Int
BY StockAssumption DEF Quantities

LEMMA IdleType ==
    /\ Idle \in Request /\ Idle.pc = "idle" /\ Idle.todo = <<>> /\ Idle.plat = <<>>
    /\ Idle.q = [i \in Ingredients |-> 0]
BY QuantityType DEF Idle, Request, Pcs

LEMMA InitType == Init => TypeOK
BY IdleType, QuantityType, StockAssumption DEF Init, TypeOK

(* Replacing the record of one request keeps the others' types. *)
LEMMA BecomeType ==
    ASSUME TypeOK, NEW r \in Workers, NEW rec \in Request,
           rec.pc \in {"insert", "write"} => rec.todo # <<>>, Become(r, rec)
    PROVE  /\ req' \in [Workers -> Request]
           /\ \A p \in Workers : req'[p].pc \in {"insert", "write"} => req'[p].todo # <<>>
           /\ \A p \in Workers : req'[p] = IF p = r THEN rec ELSE req[p]
BY DEF TypeOK, Become

LEMMA FailType == ASSUME TypeOK, NEW r \in Workers, Fail(r) PROVE TypeOK'
<1>1. Become(r, Idle) /\ UNCHANGED <<db, history>>
  BY DEF Fail
<1>2. req' \in [Workers -> Request]
      /\ \A p \in Workers : req'[p].pc \in {"insert", "write"} => req'[p].todo # <<>>
  BY <1>1, IdleType, BecomeType
<1> QED
  BY <1>1, <1>2 DEF TypeOK, db, history

(* The moves of some ingredients are of the kind and quantities given. *)
LEMMA MovesType ==
    ASSUME NEW A \in SUBSET Ingredients, NEW kind \in Kinds, NEW n,
           \A i \in A : n[i] \in Nat, NEW moves \in MovesOf(A, kind, n)
    PROVE  moves \in Seq(Move) /\ \A j \in DOMAIN moves : moves[j].kind = kind
<1>1. IsFiniteSet(A)
  BY StockAssumption, FS_Subset
<1>2. Cardinality(A) \in Nat
  BY <1>1, FS_CardinalityType
<1>3. PICK s \in SetToSeqs(A) :
        moves = [j \in DOMAIN s |-> [i |-> s[j], kind |-> kind, n |-> n[s[j]]]]
  BY DEF MovesOf
<1>4. s \in [1..Cardinality(A) -> A]
  BY <1>3 DEF SetToSeqs
<1>5. \A j \in DOMAIN s : [i |-> s[j], kind |-> kind, n |-> n[s[j]]] \in Move
  BY <1>4 DEF Move
<1>6. moves \in [1..Cardinality(A) -> Move]
  BY <1>3, <1>4, <1>5
<1>7. moves \in Seq(Move)
  BY <1>2, <1>6, IsASeq
<1>8. \A j \in DOMAIN moves : moves[j].kind = kind
  BY <1>3
<1> QED
  BY <1>7, <1>8

-----------------------------------------------------------------------------
(* What NeverBelowZero rests on: only a dish on record as served takes     *)
(* without looking, and until one is, every quantity a request works with  *)
(* is a quantity that was in stock.                                        *)
Unserved == \A p \in Plats : served[p] = 0
NoSale(x) == x.plat = <<>> => \A j \in DOMAIN x.todo : x.todo[j].kind # "vente"
Positive(x) == x.plat = <<>> => \A i \in Ingredients : x.q[i] >= 0
StockInv ==
    /\ \A r \in Workers : NoSale(req[r])
    /\ Unserved => /\ \A i \in Ingredients : qty[i] >= 0
                   /\ \A r \in Workers : Positive(req[r])

(* A record that a step within a transaction may leave. *)
Fits(x) ==
    /\ x \in Request /\ (x.pc \in {"insert", "write"} => x.todo # <<>>)
    /\ NoSale(x) /\ (Unserved => Positive(x))

LEMMA IdleFits == Fits(Idle)
BY IdleType DEF Fits, NoSale, Positive

LEMMA BecomeFits ==
    ASSUME TypeOK, StockInv, NEW r \in Workers, NEW x, Fits(x), Become(r, x),
           UNCHANGED <<db, history>>
    PROVE  TypeOK' /\ StockInv'
<1>1. /\ req' \in [Workers -> Request]
      /\ \A p \in Workers : req'[p].pc \in {"insert", "write"} => req'[p].todo # <<>>
      /\ \A p \in Workers : req'[p] = IF p = r THEN x ELSE req[p]
  BY BecomeType DEF Fits
<1>2. TypeOK'
  BY <1>1 DEF TypeOK, db, history
<1>3. Unserved' <=> Unserved
  BY DEF Unserved, db
<1>4. \A p \in Workers : NoSale(req[p])' /\ (Unserved => Positive(req[p])')
  BY <1>1 DEF StockInv, Fits, NoSale, Positive
<1>5. StockInv'
  BY <1>3, <1>4 DEF StockInv, db
<1> QED
  BY <1>2, <1>5

LEMMA ListLowFits ==
    ASSUME TypeOK, StockInv, NEW r \in Workers, ListLow(r)
    PROVE  \E x : Fits(x) /\ Become(r, x) /\ UNCHANGED <<db, history>>
<1> DEFINE missing == [i \in Ingredients |-> Ordered(Seuil[i] - qty[i])]
           low(A) == {i \in A \cap stockRows : Seuil[i] # 0 /\ qty[i] < Seuil[i]}
           q(A) == [i \in Ingredients |-> IF i \in A \cap stockRows THEN qty[i] ELSE 0]
<1>1. PICK A \in {{i} : i \in Ingredients} \cup {Ingredients} :
        \E moves \in MovesOf(low(A), "transfert", missing) :
            Become(r, [req[r] EXCEPT !.pc = "read", !.todo = moves,
                                     !.loaded = A \cap stockRows, !.q = q(A)])
  BY DEF ListLow
<1>2. PICK moves \in MovesOf(low(A), "transfert", missing) :
            Become(r, [req[r] EXCEPT !.pc = "read", !.todo = moves,
                                     !.loaded = A \cap stockRows, !.q = q(A)])
  BY <1>1
<1>3. low(A) \subseteq Ingredients
  BY <1>1
<1>4. \A i \in low(A) : missing[i] \in Nat
  <2> SUFFICES ASSUME NEW i \in low(A) PROVE missing[i] \in Nat
    OBVIOUS
  <2>1. i \in Ingredients /\ qty[i] \in Int /\ Seuil[i] \in Nat /\ qty[i] < Seuil[i]
    BY <1>3, QuantityType, StockAssumption DEF TypeOK
  <2> QED
    BY <2>1 DEF Ordered
<1>5. moves \in Seq(Move) /\ \A j \in DOMAIN moves : moves[j].kind = "transfert"
  <2>1. "transfert" \in Kinds
    BY DEF Kinds
  <2> HIDE DEF low, missing
  <2> QED
    BY <1>2, <1>3, <1>4, <2>1, MovesType
<1>6. q(A) \in [Ingredients -> Quantities]
  BY QuantityType DEF TypeOK
<1>7. Unserved => \A i \in Ingredients : q(A)[i] >= 0
  BY DEF StockInv
<1> DEFINE x == [req[r] EXCEPT !.pc = "read", !.todo = moves,
                               !.loaded = A \cap stockRows, !.q = q(A)]
<1>8. req[r] \in Request
  BY DEF TypeOK
<1>9. x \in Request /\ x.pc = "read" /\ x.todo = moves /\ x.q = q(A)
  <2> HIDE DEF q
  <2> QED
    BY <1>1, <1>5, <1>6, <1>8 DEF Request, Pcs, TypeOK
<1>10. Fits(x)
  BY <1>5, <1>7, <1>9 DEF Fits, NoSale, Positive
<1> QED
  BY <1>2, <1>10 DEF ListLow

(* Going on to the next move. *)
LEMMA NextMoveFits ==
    ASSUME NEW x \in Request, x.todo # <<>>, NoSale(x), Unserved => Positive(x)
    PROVE  Fits(NextMove(x))
<1> DEFINE y == NextMove(x)
<1>1. x.todo \in Seq(Move)
  BY DEF Request
<1>2. /\ Tail(x.todo) \in Seq(Move)
      /\ \A j \in DOMAIN Tail(x.todo) : Tail(x.todo)[j] = x.todo[j + 1] /\ j + 1 \in DOMAIN x.todo
  BY <1>1, HeadTailProperties, LenProperties
<1>3. y = [x EXCEPT !.pc = "read", !.todo = Tail(x.todo)]
  BY DEF NextMove
<1>4. y \in Request /\ y.pc = "read" /\ y.todo = Tail(x.todo) /\ y.plat = x.plat /\ y.q = x.q
  BY <1>2, <1>3 DEF Request, Pcs
<1>5. NoSale(y) /\ (Unserved => Positive(y))
  BY <1>2, <1>4 DEF NoSale, Positive
<1> QED
  BY <1>4, <1>5 DEF Fits

LEMMA MovingType ==
    ASSUME TypeOK, StockInv, NEW r \in Workers, req[r].todo # <<>>
    PROVE  /\ req[r] \in Request /\ NoSale(req[r]) /\ (Unserved => Positive(req[r]))
           /\ Moving(r) \in Move
           /\ req[r].plat = <<>> => Moving(r).kind # "vente"
<1>1. req[r] \in Request /\ NoSale(req[r]) /\ (Unserved => Positive(req[r]))
  BY DEF TypeOK, StockInv
<1>2. req[r].todo \in Seq(Move)
  BY <1>1 DEF Request
<1>3. Moving(r) \in Move /\ Moving(r) = req[r].todo[1] /\ 1 \in DOMAIN req[r].todo
  BY <1>2, HeadTailProperties, EmptySeq, LenProperties DEF Moving
<1> QED
  BY <1>1, <1>3 DEF NoSale

LEMMA ReadStockFits ==
    ASSUME TypeOK, StockInv, NEW r \in Workers, ReadStock(r)
    PROVE  \E x : Fits(x) /\ Become(r, x) /\ UNCHANGED <<db, history>>
<1> DEFINE m == Moving(r)
           staying == [req[r] EXCEPT !.pc = "write"]
           read == [req[r] EXCEPT !.pc = "write", !.loaded = @ \cup {m.i}, !.q[m.i] = qty[m.i]]
           insert == [req[r] EXCEPT !.pc = "insert"]
<1>1. req[r].todo # <<>> /\ UNCHANGED <<db, history>>
  BY DEF ReadStock
<1>2. /\ req[r] \in Request /\ NoSale(req[r]) /\ (Unserved => Positive(req[r]))
      /\ m \in Move
  BY <1>1, MovingType
<1>3. m.i \in Ingredients
  BY <1>2 DEF Move
<1>4. CASE Become(r, Idle)
  BY <1>1, <1>4, IdleFits
<1>5. CASE Become(r, NextMove(req[r]))
  BY <1>1, <1>2, <1>5, NextMoveFits
<1>6. CASE Become(r, staying)
  <2>1. Fits(staying)
    BY <1>1, <1>2 DEF Fits, NoSale, Positive, Request, Pcs
  <2> QED
    BY <1>1, <1>6, <2>1
<1>7. CASE Become(r, read)
  <2>1. req[r].q \in [Ingredients -> Quantities] /\ qty[m.i] \in Quantities
    BY <1>2, <1>3 DEF Request, TypeOK
  <2>2. /\ read = [req[r] EXCEPT !.pc = "write", !.loaded = req[r].loaded \cup {m.i},
                                 !.q = [req[r].q EXCEPT ![m.i] = qty[m.i]]]
        /\ [req[r].q EXCEPT ![m.i] = qty[m.i]] \in [Ingredients -> Quantities]
    BY <1>2, <1>3, <2>1 DEF Request
  <2>3. /\ read \in Request /\ read.pc = "write" /\ read.todo = req[r].todo
        /\ read.plat = req[r].plat /\ read.q = [req[r].q EXCEPT ![m.i] = qty[m.i]]
    BY <1>2, <1>3, <2>2 DEF Request, Pcs
  <2>4. Unserved => Positive(read)
    BY <1>2, <1>3, <2>1, <2>3 DEF StockInv, Positive
  <2>5. Fits(read)
    BY <1>1, <1>2, <2>3, <2>4 DEF Fits, NoSale
  <2> QED
    BY <1>1, <1>7, <2>5
<1>8. CASE Become(r, insert)
  <2>1. Fits(insert)
    BY <1>1, <1>2 DEF Fits, NoSale, Positive, Request, Pcs
  <2> QED
    BY <1>1, <1>8, <2>1
<1> QED
  BY <1>4, <1>5, <1>6, <1>7, <1>8 DEF ReadStock

LEMMA InsertStockFits ==
    ASSUME TypeOK, StockInv, NEW r \in Workers, InsertStock(r)
    PROVE  \E x : Fits(x) /\ Become(r, x) /\ UNCHANGED <<db, history>>
<1> DEFINE i == Moving(r).i
           x == [req[r] EXCEPT !.pc = "write", !.new = @ \cup {i}, !.loaded = @ \cup {i}]
<1>1. req[r].todo # <<>> /\ UNCHANGED <<db, history>>
  BY DEF InsertStock, TypeOK
<1>2. /\ req[r] \in Request /\ NoSale(req[r]) /\ (Unserved => Positive(req[r]))
      /\ i \in Ingredients
  BY <1>1, MovingType DEF Move
<1>3. CASE Become(r, Idle)
  BY <1>1, <1>3, IdleFits
<1>4. CASE Become(r, x)
  <2>1. Fits(x)
    BY <1>1, <1>2 DEF Fits, NoSale, Positive, Request, Pcs
  <2> QED
    BY <1>1, <1>4, <2>1
<1> QED
  BY <1>3, <1>4 DEF InsertStock, Insert

LEMMA WriteMoveFits ==
    ASSUME TypeOK, StockInv, NEW r \in Workers, WriteMove(r)
    PROVE  \E x : Fits(x) /\ Become(r, x) /\ UNCHANGED <<db, history>>
<1> DEFINE m == Moving(r)
           old == req[r].q[m.i]
           v == Moved(m, old)
<1>1. req[r].todo # <<>> /\ UNCHANGED <<db, history>>
  BY DEF WriteMove, TypeOK
<1>2. /\ req[r] \in Request /\ NoSale(req[r]) /\ (Unserved => Positive(req[r]))
      /\ m \in Move /\ (req[r].plat = <<>> => m.kind # "vente")
  BY <1>1, MovingType
<1>3. /\ m.i \in Ingredients /\ m.n \in Nat /\ m.kind \in Kinds /\ old \in Int
      /\ req[r].q \in [Ingredients -> Quantities]
  BY <1>2, QuantityType DEF Move, Request
<1>4. CASE Become(r, Idle)
  BY <1>1, <1>4, IdleFits
<1>5. CASE Become(r, NextMove(req[r]))
  BY <1>1, <1>2, <1>5, NextMoveFits
<1>6. CASE ~Short(r) /\ v \in Quantities /\ Write(r)
  <2>1. PICK W \in SUBSET (req[r].wrote \cup {m.i}) :
          Become(r, NextMove([req[r] EXCEPT !.q[m.i] = v, !.wrote = W,
                                            !.gain[m.i] = @ + Signed(m)]))
    BY <1>6 DEF Write
  <2> DEFINE y == [req[r] EXCEPT !.q[m.i] = v, !.wrote = W, !.gain[m.i] = @ + Signed(m)]
             q2 == [req[r].q EXCEPT ![m.i] = v]
             g2 == [req[r].gain EXCEPT ![m.i] = @ + Signed(m)]
  <2>2. q2 \in [Ingredients -> Quantities]
    BY <1>3, <1>6
  <2>3. g2 \in [Ingredients -> Int]
    <3>1. req[r].gain \in [Ingredients -> Int] /\ Signed(m) \in Int
      BY <1>2, <1>3 DEF Request, Signed
    <3> QED
      BY <1>3, <3>1
  <2>4. W \subseteq Ingredients
    BY <1>2, <1>3 DEF Request
  <2>5. /\ y \in Request /\ y.todo = req[r].todo /\ y.plat = req[r].plat /\ y.q = q2
    <3>1. y = [req[r] EXCEPT !.q = q2, !.wrote = W, !.gain = g2]
      BY <1>2 DEF Request
    <3> HIDE DEF q2, g2, y
    <3> QED
      BY <1>2, <2>2, <2>3, <2>4, <3>1 DEF Request
  <2>6. ASSUME Unserved PROVE Positive(y)
    <3> SUFFICES ASSUME req[r].plat = <<>> PROVE \A i \in Ingredients : q2[i] >= 0
      BY <2>5 DEF Positive
    <3>1. /\ \A i \in Ingredients : req[r].q[i] >= 0
          /\ m.kind \in {"entree", "transfert", "sortie", "perte", "inventaire"}
      BY <1>2, <1>3, <2>6 DEF Positive, Kinds
    <3>2. m.kind \in {"sortie", "perte"} => old >= m.n
      BY <1>3, <1>6 DEF Short
    <3>3. v >= 0
      BY <1>3, <3>1, <3>2 DEF Moved
    <3> QED
      BY <1>3, <3>1, <3>3
  <2>7. NoSale(y)
    BY <1>2, <2>5 DEF NoSale
  <2> HIDE DEF y
  <2>8. Fits(NextMove(y))
    BY <1>1, <2>5, <2>6, <2>7, NextMoveFits
  <2> QED
    BY <1>1, <2>1, <2>8 DEF y
<1> QED
  BY <1>4, <1>5, <1>6 DEF WriteMove

-----------------------------------------------------------------------------
(* A request arrives with moves of the kinds its operation makes. *)
LEMMA BeginSafe ==
    ASSUME TypeOK, StockInv, NEW r \in Workers, NEW op \in Ops, NEW todo \in Seq(Move),
           NEW plat \in {<<>>} \cup (Plats \X Portions), Begin(r, op, todo, plat),
           plat = <<>> => \A j \in DOMAIN todo : todo[j].kind # "vente"
    PROVE  TypeOK' /\ StockInv'
<1> DEFINE pc == IF op = "replenish" THEN "list" ELSE "read"
           x == [Idle EXCEPT !.pc = pc, !.op = op, !.todo = todo, !.plat = plat]
<1>1. Become(r, x) /\ UNCHANGED db
  BY DEF Begin
<1>2. /\ x \in Request /\ x.pc \in {"list", "read"} /\ x.todo = todo /\ x.plat = plat
      /\ x.q = [i \in Ingredients |-> 0]
  BY IdleType DEF Request, Pcs, Idle
<1>3. Fits(x)
  BY <1>2 DEF Fits, NoSale, Positive
<1>4. alone' \in BOOLEAN /\ book' \in [Ingredients -> Int]
  BY DEF Begin, TypeOK
<1> HIDE DEF x
<1>5. /\ req' \in [Workers -> Request]
      /\ \A p \in Workers : req'[p].pc \in {"insert", "write"} => req'[p].todo # <<>>
      /\ \A p \in Workers : req'[p] = IF p = r THEN x ELSE req[p]
  BY <1>1, <1>3, BecomeType DEF Fits
<1>6. TypeOK'
  BY <1>1, <1>4, <1>5 DEF TypeOK, db
<1>7. Unserved' <=> Unserved
  BY <1>1 DEF Unserved, db
<1>8. \A p \in Workers : NoSale(req[p])' /\ (Unserved => Positive(req[p])')
  BY <1>3, <1>5 DEF StockInv, Fits, NoSale, Positive
<1>9. StockInv'
  BY <1>1, <1>7, <1>8 DEF StockInv, db
<1> QED
  BY <1>6, <1>9

LEMMA ArriveSafe ==
    ASSUME TypeOK, StockInv, NEW r \in Workers, Arrive(r) PROVE TypeOK' /\ StockInv'
<1>1. /\ \A n \in Amounts : n \in Nat
      /\ \A k \in Portions : k \in Nat
      /\ Kinds = {"entree", "transfert", "sortie", "perte", "vente", "inventaire"}
  BY StockAssumption DEF Kinds
<1>2. ASSUME NEW op \in Ops, NEW i \in Ingredients, NEW kind \in Kinds \ {"vente"}, NEW n \in Nat,
             Begin(r, op, <<[i |-> i, kind |-> kind, n |-> n]>>, <<>>)
      PROVE  TypeOK' /\ StockInv'
  <2> DEFINE todo == <<[i |-> i, kind |-> kind, n |-> n]>>
  <2>1. todo \in Seq(Move) /\ \A j \in DOMAIN todo : todo[j].kind # "vente"
    BY <1>2 DEF Move
  <2> HIDE DEF todo
  <2> QED
    BY <1>2, <2>1, BeginSafe DEF todo
<1>3. CASE \E op \in Ops \cap {"entree", "sortie", "perte"}, i \in Ingredients, n \in Amounts :
              Begin(r, op, <<[i |-> i, kind |-> op, n |-> n]>>, <<>>)
  BY <1>1, <1>2, <1>3
<1>4. CASE \E op \in Ops \cap {"adjust"}, i \in Ingredients, n \in Amounts \cup {0} :
              Begin(r, op, <<[i |-> i, kind |-> "inventaire", n |-> n]>>, <<>>)
  BY <1>1, <1>2, <1>4
<1>5. CASE \E op \in Ops \cap {"transfer"}, i \in Ingredients, n \in Amounts :
              Begin(r, op, <<[i |-> i, kind |-> "transfert", n |-> n]>>, <<>>)
  BY <1>1, <1>2, <1>5
<1>6. CASE \E op \in Ops \cap {"bulk"}, i, j \in Ingredients, n \in Amounts :
              Begin(r, op, <<[i |-> i, kind |-> "transfert", n |-> n],
                             [i |-> j, kind |-> "transfert", n |-> n]>>, <<>>)
  <2>1. PICK op \in Ops \cap {"bulk"}, i \in Ingredients, j \in Ingredients, n \in Amounts :
              Begin(r, op, <<[i |-> i, kind |-> "transfert", n |-> n],
                             [i |-> j, kind |-> "transfert", n |-> n]>>, <<>>)
    BY <1>6
  <2> DEFINE todo == <<[i |-> i, kind |-> "transfert", n |-> n],
                       [i |-> j, kind |-> "transfert", n |-> n]>>
  <2>2. todo \in Seq(Move) /\ \A k \in DOMAIN todo : todo[k].kind # "vente"
    BY <1>1, <2>1 DEF Move
  <2> HIDE DEF todo
  <2> QED
    BY <2>1, <2>2, BeginSafe DEF todo
<1>7. CASE \E op \in Ops \cap {"replenish"} : Begin(r, op, <<>>, <<>>)
  <2>1. <<>> \in Seq(Move) /\ DOMAIN <<>> = {}
    BY EmptySeq
  <2> QED
    BY <1>7, <2>1, BeginSafe
<1>8. ASSUME NEW p \in Plats, NEW k \in Portions, NEW kind \in Kinds,
             NEW moves \in OfPlat(p, k, kind)
      PROVE  moves \in Seq(Move) /\ \A j \in DOMAIN moves : moves[j].kind = kind
  <2> DEFINE A == {i \in Ingredients : Recipe[p][i] > 0}
             n == [i \in Ingredients |-> k * Recipe[p][i]]
  <2>1. \A i \in A : n[i] \in Nat
    BY <1>1, StockAssumption
  <2>2. moves \in MovesOf(A, kind, n)
    BY <1>8 DEF OfPlat
  <2>3. A \in SUBSET Ingredients
    OBVIOUS
  <2> HIDE DEF A, n
  <2> QED
    BY <2>1, <2>2, <2>3, MovesType
<1>9. CASE \E p \in Plats, k \in Portions, op \in Ops \cap {"serve"} :
              \E moves \in OfPlat(p, k, "vente") : Begin(r, op, moves, <<p, k>>)
  BY <1>1, <1>8, <1>9, BeginSafe
<1>10. CASE \E p \in Plats, k \in Portions, op \in Ops \cap {"waste"} :
              \E moves \in OfPlat(p, k, "perte") : Begin(r, op, moves, <<>>)
  BY <1>1, <1>8, <1>10, BeginSafe
<1> QED
  BY <1>3, <1>4, <1>5, <1>6, <1>7, <1>9, <1>10 DEF Arrive

-----------------------------------------------------------------------------
LEMMA FailSafe == ASSUME TypeOK, StockInv, NEW r \in Workers, Fail(r) PROVE TypeOK' /\ StockInv'
BY IdleFits, BecomeFits DEF Fail

LEMMA CommitSafe == ASSUME TypeOK, StockInv, NEW r \in Workers, Commit(r) PROVE TypeOK' /\ StockInv'
<1> DEFINE plat == req[r].plat
<1>1. req[r] \in Request /\ (plat # <<>> => plat[1] \in Plats /\ plat[2] \in Portions)
  BY DEF TypeOK, Request
<1>0. plat # <<>> => /\ served[plat[1]] \in Nat
                     /\ plat[2] \in Nat /\ plat[2] > 0
  <2>1. MaxServed \in Nat /\ \A k \in Portions : k \in Nat /\ k > 0
    BY StockAssumption
  <2> QED
    BY <1>1, <2>1 DEF TypeOK
<1>2. Become(r, Idle)
  BY DEF Commit
<1>3. /\ req' \in [Workers -> Request]
      /\ \A p \in Workers : req'[p].pc \in {"insert", "write"} => req'[p].todo # <<>>
      /\ \A p \in Workers : req'[p] = IF p = r THEN Idle ELSE req[p]
  BY <1>2, IdleFits, BecomeType DEF Fits
<1>4. /\ req[r].q \in [Ingredients -> Quantities] /\ req[r].gain \in [Ingredients -> Int]
      /\ req[r].new \subseteq Ingredients
  BY <1>1 DEF Request
<1>5. stockRows' \subseteq Ingredients /\ qty' \in [Ingredients -> Quantities]
  BY <1>4 DEF Commit, TypeOK
<1>6. book' \in [Ingredients -> Int] /\ alone' \in BOOLEAN
  BY <1>4 DEF Commit, TypeOK
<1>7. served' \in [Plats -> 0..MaxServed] /\ taken' \in [Ingredients -> Int]
  <2>1. CASE plat = <<>>
    BY <2>1 DEF Commit, TypeOK
  <2>2. CASE plat # <<>>
    <3>1. /\ served' = [served EXCEPT ![plat[1]] = @ + plat[2]]
          /\ taken' = [i \in Ingredients |-> taken[i] - req[r].gain[i]]
          /\ served[plat[1]] + plat[2] <= MaxServed
      BY <2>2 DEF Commit, Room
    <3>2. served[plat[1]] + plat[2] \in 0..MaxServed
      BY <1>0, <2>2, <3>1, StockAssumption
    <3>3. served' \in [Plats -> 0..MaxServed]
      BY <1>1, <2>2, <3>1, <3>2 DEF TypeOK
    <3>4. taken' \in [Ingredients -> Int]
      BY <1>4, <3>1 DEF TypeOK
    <3> QED
      BY <3>3, <3>4
  <2> QED
    BY <2>1, <2>2
<1>8. TypeOK'
  BY <1>3, <1>5, <1>6, <1>7 DEF TypeOK
<1>9. Unserved' => Unserved /\ plat = <<>>
  <2>1. CASE plat = <<>>
    BY <2>1 DEF Commit, Unserved
  <2>2. CASE plat # <<>>
    <3>1. served' = [served EXCEPT ![plat[1]] = @ + plat[2]]
      BY <2>2 DEF Commit
    <3>2. served'[plat[1]] = served[plat[1]] + plat[2] /\ plat[1] \in Plats
      BY <1>1, <2>2, <3>1 DEF TypeOK
    <3>3. served'[plat[1]] # 0
      BY <1>0, <2>2, <3>2
    <3> QED
      BY <3>2, <3>3 DEF Unserved
  <2> QED
    BY <2>1, <2>2
<1>10. \A p \in Workers : NoSale(req[p])' /\ (Unserved => Positive(req[p])')
  BY <1>3, IdleFits DEF StockInv, Fits, NoSale, Positive
<1>11. ASSUME Unserved' PROVE \A i \in Ingredients : qty'[i] >= 0
  BY <1>1, <1>9, <1>11 DEF StockInv, Positive, Commit
<1>12. StockInv'
  BY <1>9, <1>10, <1>11 DEF StockInv
<1> QED
  BY <1>8, <1>12

LEMMA StepSafe == TypeOK /\ StockInv /\ [Next]_vars => TypeOK' /\ StockInv'
<1> SUFFICES ASSUME TypeOK, StockInv, [Next]_vars PROVE TypeOK' /\ StockInv'
  OBVIOUS
<1>1. CASE UNCHANGED vars
  BY <1>1 DEF vars, db, history, TypeOK, StockInv, Unserved, NoSale, Positive
<1>2. ASSUME NEW r \in Workers, Arrive(r) PROVE TypeOK' /\ StockInv'
  BY <1>2, ArriveSafe
<1>3. ASSUME NEW r \in Workers, ListLow(r) \/ ReadStock(r) \/ InsertStock(r) \/ WriteMove(r)
      PROVE  TypeOK' /\ StockInv'
  BY <1>3, ListLowFits, ReadStockFits, InsertStockFits, WriteMoveFits, BecomeFits
<1>4. ASSUME NEW r \in Workers, Deadlock(r) \/ NoRoom(r) \/ Crash(r) PROVE TypeOK' /\ StockInv'
  BY <1>4, FailSafe DEF Deadlock, NoRoom, Crash
<1>5. ASSUME NEW r \in Workers, Commit(r) PROVE TypeOK' /\ StockInv'
  BY <1>5, CommitSafe
<1> QED
  BY <1>1, <1>2, <1>3, <1>4, <1>5 DEF Next, Step

LEMMA InitSafe == Init => TypeOK /\ StockInv
BY InitType, IdleFits DEF Init, StockInv, Fits, Unserved, NoSale, Positive

(* Stocks, sales and requests keep their types: no interleaving of          *)
(* requests stores a quantity outside the column (services/restaurant).    *)
THEOREM StockTypeCorrect == Spec => []TypeOK
<1>1. TypeOK /\ StockInv /\ [Next]_vars => (TypeOK /\ StockInv)'
  BY StepSafe
<1> QED
  BY InitSafe, <1>1, PTL DEF Spec

(* remove_stock without allow_negative never leaves less than nothing,      *)
(* even if another request changes the row between its check and its       *)
(* write, as long as no dish has been served.                              *)
THEOREM StockNeverBelowZero == Spec => []NeverBelowZero
<1>1. TypeOK /\ StockInv /\ [Next]_vars => (TypeOK /\ StockInv)'
  BY StepSafe
<1>2. TypeOK /\ StockInv => NeverBelowZero
  BY DEF TypeOK, StockInv, Unserved, NeverBelowZero
<1> QED
  BY InitSafe, <1>1, <1>2, PTL DEF Spec

-----------------------------------------------------------------------------
(* What StockConsistent rests on.  The movements of a dish are those of    *)
(* its recipe, each left to make or already made: none is skipped, for a   *)
(* sale does not look at the quantity and a move that fails ends the       *)
(* request.  A request that is alone works with quantities that are those  *)
(* in stock plus its own movements; the one move of an inventory gives     *)
(* both the quantity and the count.                                        *)
InMoves(s) == {s[j].i : j \in DOMAIN s}
Distinct(s) == \A j, l \in DOMAIN s : s[j].i = s[l].i => j = l

Share(plat, i) == plat[2] * Recipe[plat[1]][i]
SalesWork(x) == x.plat # <<>> =>
    /\ x.pc # "list" /\ Distinct(x.todo)
    /\ \A j \in DOMAIN x.todo : x.todo[j].kind = "vente" /\ x.todo[j].n = Share(x.plat, x.todo[j].i)
    /\ \A i \in Ingredients :
          /\ i \in InMoves(x.todo) => x.gain[i] = 0
          /\ i \notin InMoves(x.todo) => x.gain[i] = -Share(x.plat, i)

Counted(x, i) ==
    IF x.todo # <<>> THEN i = Head(x.todo).i /\ x.q[i] = qty[i] /\ x.gain[i] = 0 /\ i \notin x.wrote
    ELSE x.q[i] = x.gain[i] /\ (i \notin x.wrote => x.q[i] = qty[i])
AccountWork(x) ==
    /\ x.loaded \subseteq stockRows \cup x.new
    /\ \A i \in Ingredients \ x.loaded : x.gain[i] = 0 /\ x.q[i] = 0 /\ i \notin x.wrote
    /\ x.pc = "list" => x.op = "replenish" /\ x.loaded = {}
    /\ x.pc = "insert" => Head(x.todo).i \notin stockRows \cup x.loaded
    /\ x.pc = "write" => Head(x.todo).i \in x.loaded
    /\ x.op # "adjust" =>
          /\ \A j \in DOMAIN x.todo : x.todo[j].kind # "inventaire"
          /\ \A i \in x.loaded : /\ x.q[i] = qty[i] + x.gain[i]
                                 /\ i \notin x.wrote => x.gain[i] = 0
    /\ x.op = "adjust" =>
          /\ Len(x.todo) <= 1 /\ \A j \in DOMAIN x.todo : x.todo[j].kind = "inventaire"
          /\ \A i \in x.loaded : Counted(x, i)

(* A record that fits the database it works on. *)
Accounts(x) ==
    /\ SalesWork(x)
    /\ alone /\ x.pc # "idle" => AccountWork(x)

OneAlone == \A p, q \in Workers : req[p].pc # "idle" /\ req[q].pc # "idle" => p = q
AccountInv ==
    /\ ServedTaken /\ \A r \in Workers : Accounts(req[r])
    /\ alone => OneAlone /\ \A i \in Ingredients :
                   qty[i] = book[i] /\ (i \notin stockRows => qty[i] = 0)

LEMMA TailMoves ==
    ASSUME NEW s \in Seq(Move), s # <<>>
    PROVE  /\ Head(s) \in Move /\ Head(s).i \in InMoves(s) /\ 1 \in DOMAIN s /\ Head(s) = s[1]
           /\ Tail(s) \in Seq(Move)
           /\ \A j \in DOMAIN Tail(s) : Tail(s)[j] = s[j + 1] /\ j + 1 \in DOMAIN s
           /\ Len(s) <= 1 => Tail(s) = <<>>
           /\ Distinct(s) => Distinct(Tail(s)) /\ InMoves(Tail(s)) = InMoves(s) \ {Head(s).i}
<1>1. /\ s \in Seq(Move) /\ Len(s) \in Nat /\ DOMAIN s = 1..Len(s) /\ Len(s) > 0 /\ Head(s) = s[1]
      /\ Tail(s) \in Seq(Move) /\ Len(Tail(s)) = Len(s) - 1 /\ DOMAIN Tail(s) = 1..(Len(s) - 1)
  BY HeadTailProperties, EmptySeq, LenProperties
<1>2. \A j \in DOMAIN Tail(s) : Tail(s)[j] = s[j + 1] /\ j + 1 \in DOMAIN s
  BY <1>1, HeadTailProperties
<1>3. 1 \in DOMAIN s /\ Head(s) \in Move /\ Head(s).i \in InMoves(s)
  BY <1>1 DEF InMoves
<1>4. Len(s) <= 1 => Tail(s) = <<>>
  BY <1>1, EmptySeq
<1>5. ASSUME Distinct(s) PROVE Distinct(Tail(s)) /\ InMoves(Tail(s)) = InMoves(s) \ {Head(s).i}
  <2>1. Distinct(Tail(s))
    <3> SUFFICES ASSUME NEW j \in DOMAIN Tail(s), NEW l \in DOMAIN Tail(s), Tail(s)[j].i = Tail(s)[l].i
                 PROVE  j = l
      BY DEF Distinct
    <3>1. j + 1 = l + 1
      BY <1>2, <1>5 DEF Distinct
    <3> QED BY <1>1, <3>1
  <2>2. ASSUME NEW i \in InMoves(Tail(s)) PROVE i \in InMoves(s) \ {Head(s).i}
    <3>1. PICK j \in DOMAIN Tail(s) : i = s[j + 1].i /\ j + 1 \in DOMAIN s /\ j \in Nat /\ j > 0
      BY <1>1, <1>2 DEF InMoves
    <3>2. j + 1 # 1
      BY <3>1
    <3>3. i # s[1].i
      BY <1>3, <1>5, <3>1, <3>2 DEF Distinct
    <3> QED BY <1>1, <3>1, <3>3 DEF InMoves
  <2>3. ASSUME NEW i \in InMoves(s) \ {Head(s).i} PROVE i \in InMoves(Tail(s))
    <3>1. PICK j \in DOMAIN s : i = s[j].i
      BY DEF InMoves
    <3>2. j # 1
      BY <1>1, <3>1
    <3>3. j - 1 \in DOMAIN Tail(s) /\ (j - 1) + 1 = j
      BY <1>1, <3>1, <3>2
    <3> QED BY <1>2, <3>1, <3>3 DEF InMoves
  <2> QED BY <2>1, <2>2, <2>3
<1> QED BY <1>1, <1>2, <1>3, <1>4, <1>5

(* Each ingredient of A is moved once. *)
LEMMA MovesEach ==
    ASSUME NEW A \in SUBSET Ingredients, NEW kind \in Kinds, NEW n, NEW moves \in MovesOf(A, kind, n)
    PROVE  /\ Distinct(moves) /\ InMoves(moves) = A
           /\ \A j \in DOMAIN moves : moves[j].kind = kind /\ moves[j].n = n[moves[j].i]
<1>1. IsFiniteSet(A)
  BY StockAssumption, FS_Subset
<1> DEFINE D == 1..Cardinality(A)
<1>2. Cardinality(A) \in Nat /\ IsFiniteSet(D) /\ Cardinality(D) = Cardinality(A)
  BY <1>1, FS_CardinalityType, FS_Interval
<1>3. PICK s \in SetToSeqs(A) :
        moves = [j \in DOMAIN s |-> [i |-> s[j], kind |-> kind, n |-> n[s[j]]]]
  BY DEF MovesOf
<1>4. s \in [D -> A] /\ \A j, l \in D : j # l => s[j] # s[l]
  BY <1>3 DEF SetToSeqs
<1>5. s \in Surjection(D, A)
  <2>1. s \in Injection(D, A)
    BY <1>4 DEF Injection, IsInjective
  <2> QED BY <1>1, <1>2, <2>1, FS_Injection
<1>6. \A i \in A : \E j \in D : s[j] = i
  BY <1>5 DEF Surjection
<1> HIDE DEF D
<1>7. DOMAIN moves = D /\ \A j \in D : moves[j] = [i |-> s[j], kind |-> kind, n |-> n[s[j]]]
  BY <1>3, <1>4
<1>8. InMoves(moves) = A
  BY <1>4, <1>6, <1>7 DEF InMoves
<1> QED BY <1>4, <1>7, <1>8 DEF Distinct

LEMMA MovesOfKind ==
    ASSUME NEW A, NEW kind, NEW n, NEW moves \in MovesOf(A, kind, n)
    PROVE  \A j \in DOMAIN moves : moves[j].kind = kind
BY DEF MovesOf

-----------------------------------------------------------------------------
LEMMA IdleAccounts == Accounts(Idle)
BY IdleType DEF Accounts, SalesWork

LEMMA BecomeAccounts ==
    ASSUME TypeOK, AccountInv, NEW r \in Workers, NEW x, Accounts(x), Become(r, x),
           x.pc # "idle" => req[r].pc # "idle", UNCHANGED <<db, history>>
    PROVE  AccountInv'
<1>1. \A p \in Workers : req'[p] = IF p = r THEN x ELSE req[p]
  BY DEF Become, TypeOK
<1>2. UNCHANGED <<stockRows, qty, served, taken, book, alone>>
  BY DEF db, history
<1>3. ServedTaken'
  BY <1>2 DEF AccountInv, ServedTaken
<1>4. ASSUME NEW p \in Workers PROVE Accounts(req[p])'
  <2>1. Accounts(req'[p])
    BY <1>1, <1>4 DEF AccountInv
  <2> QED BY <1>2, <2>1 DEF Accounts, SalesWork, AccountWork, Counted
<1>5. alone => OneAlone'
  BY <1>1 DEF AccountInv, OneAlone
<1> QED BY <1>2, <1>3, <1>4, <1>5 DEF AccountInv

LEMMA ListLowAccounts ==
    ASSUME TypeOK, AccountInv, NEW r \in Workers, ListLow(r)
    PROVE  \E x : Accounts(x) /\ Become(r, x) /\ req[r].pc # "idle" /\ UNCHANGED <<db, history>>
<1> DEFINE missing == [i \in Ingredients |-> Ordered(Seuil[i] - qty[i])]
           low(A) == {i \in A \cap stockRows : Seuil[i] # 0 /\ qty[i] < Seuil[i]}
           q(A) == [i \in Ingredients |-> IF i \in A \cap stockRows THEN qty[i] ELSE 0]
<1>1. PICK A \in {{i} : i \in Ingredients} \cup {Ingredients} :
        \E moves \in MovesOf(low(A), "transfert", missing) :
            Become(r, [req[r] EXCEPT !.pc = "read", !.todo = moves,
                                     !.loaded = A \cap stockRows, !.q = q(A)])
  BY DEF ListLow
<1>2. PICK moves \in MovesOf(low(A), "transfert", missing) :
            Become(r, [req[r] EXCEPT !.pc = "read", !.todo = moves,
                                     !.loaded = A \cap stockRows, !.q = q(A)])
  BY <1>1
<1> DEFINE x == [req[r] EXCEPT !.pc = "read", !.todo = moves, !.loaded = A \cap stockRows, !.q = q(A)]
<1>3. \A j \in DOMAIN moves : moves[j].kind = "transfert"
  BY <1>2, MovesOfKind
<1>4. req[r] \in Request /\ req[r].pc = "list" /\ UNCHANGED <<db, history>>
  BY DEF TypeOK, ListLow
<1>5. /\ x.pc = "read" /\ x.todo = moves /\ x.loaded = A \cap stockRows /\ x.q = q(A)
      /\ x.plat = req[r].plat /\ x.op = req[r].op /\ x.wrote = req[r].wrote
      /\ x.new = req[r].new /\ x.gain = req[r].gain
  BY <1>4 DEF Request
<1>6. Accounts(req[r])
  BY DEF AccountInv
<1>7. SalesWork(x)
  BY <1>4, <1>5, <1>6 DEF Accounts, SalesWork
<1>8. ASSUME alone PROVE AccountWork(x)
  <2>1. /\ req[r].op = "replenish" /\ req[r].loaded = {}
        /\ \A i \in Ingredients : req[r].gain[i] = 0 /\ i \notin req[r].wrote
    BY <1>4, <1>6, <1>8 DEF Accounts, AccountWork
  <2>2. \A i \in Ingredients : q(A)[i] = IF i \in A \cap stockRows THEN qty[i] ELSE 0
    OBVIOUS
  <2>3. \A i \in A \cap stockRows : i \in Ingredients /\ qty[i] \in Int
    BY QuantityType DEF TypeOK
  <2> HIDE DEF q, x
  <2>4. \A i \in x.loaded : x.q[i] = qty[i] + x.gain[i]
    BY <1>5, <2>1, <2>2, <2>3
  <2> QED BY <1>3, <1>5, <2>1, <2>2, <2>4 DEF AccountWork
<1> HIDE DEF x
<1> QED BY <1>2, <1>4, <1>5, <1>7, <1>8 DEF Accounts, x

(* A move that is skipped is not of a sale nor of an inventory. *)
LEMMA SkipAccounts ==
    ASSUME NEW x \in Request, Accounts(x), x.pc \notin {"idle", "list"}, x.todo # <<>>,
           Head(x.todo).kind \notin {"vente", "inventaire"}
    PROVE  Accounts(NextMove(x)) /\ NextMove(x).pc # "idle"
<1> DEFINE y == NextMove(x)
<1>1. x.todo \in Seq(Move)
  BY DEF Request
<1>2. /\ y.pc = "read" /\ y.todo = Tail(x.todo) /\ y.plat = x.plat /\ y.op = x.op /\ y.q = x.q
      /\ y.loaded = x.loaded /\ y.new = x.new /\ y.wrote = x.wrote /\ y.gain = x.gain
  BY DEF NextMove, Request
<1>3. /\ 1 \in DOMAIN x.todo /\ Head(x.todo) = x.todo[1]
      /\ \A j \in DOMAIN Tail(x.todo) : Tail(x.todo)[j] = x.todo[j + 1] /\ j + 1 \in DOMAIN x.todo
  BY <1>1, TailMoves
<1> HIDE DEF y
<1>4. SalesWork(y)
  BY <1>2, <1>3 DEF Accounts, SalesWork
<1>5. ASSUME alone PROVE AccountWork(y)
  <2>1. AccountWork(x)
    BY <1>5 DEF Accounts
  <2>2. x.op # "adjust"
    BY <1>3, <2>1 DEF AccountWork
  <2> QED BY <1>2, <1>3, <2>1, <2>2 DEF AccountWork
<1> QED BY <1>2, <1>4, <1>5 DEF Accounts, y

LEMMA ReadStockAccounts ==
    ASSUME TypeOK, AccountInv, NEW r \in Workers, ReadStock(r)
    PROVE  \E x : Accounts(x) /\ Become(r, x) /\ req[r].pc # "idle" /\ UNCHANGED <<db, history>>
<1> DEFINE m == Moving(r)
           staying == [req[r] EXCEPT !.pc = "write"]
           read == [req[r] EXCEPT !.pc = "write", !.loaded = @ \cup {m.i}, !.q[m.i] = qty[m.i]]
           insert == [req[r] EXCEPT !.pc = "insert"]
<1>1. req[r].pc = "read" /\ req[r].todo # <<>> /\ UNCHANGED <<db, history>>
  BY DEF ReadStock
<1>2. req[r] \in Request /\ Accounts(req[r]) /\ req[r].todo \in Seq(Move)
  BY DEF TypeOK, AccountInv, Request
<1>3. m \in Move /\ m = Head(req[r].todo) /\ 1 \in DOMAIN req[r].todo /\ m = req[r].todo[1]
      /\ m.i \in Ingredients
  BY <1>1, <1>2, TailMoves DEF Moving, Move
<1>4. CASE Become(r, Idle)
  BY <1>1, <1>4, IdleAccounts
<1>5. CASE m.kind = "transfert" /\ Become(r, NextMove(req[r]))
  BY <1>1, <1>2, <1>3, <1>5, SkipAccounts
<1>6. CASE m.i \in req[r].loaded /\ Become(r, staying)
  <2>1. /\ staying.pc = "write" /\ staying.todo = req[r].todo /\ staying.plat = req[r].plat
        /\ staying.op = req[r].op /\ staying.q = req[r].q /\ staying.loaded = req[r].loaded
        /\ staying.new = req[r].new /\ staying.wrote = req[r].wrote /\ staying.gain = req[r].gain
    BY <1>2 DEF Request
  <2> HIDE DEF staying
  <2>2. SalesWork(staying)
    BY <1>1, <1>2, <2>1 DEF Accounts, SalesWork
  <2>3. alone => AccountWork(staying)
    BY <1>1, <1>2, <1>3, <1>6, <2>1 DEF Accounts, AccountWork, Counted
  <2> QED BY <1>1, <1>6, <2>1, <2>2, <2>3 DEF Accounts
<1>7. CASE m.i \in stockRows \ req[r].loaded /\ Become(r, read)
  <2>1. read = [req[r] EXCEPT !.pc = "write", !.loaded = req[r].loaded \cup {m.i},
                              !.q = [req[r].q EXCEPT ![m.i] = qty[m.i]]]
    BY <1>2 DEF Request
  <2>2. /\ read.pc = "write" /\ read.todo = req[r].todo /\ read.plat = req[r].plat
        /\ read.op = req[r].op /\ read.q = [req[r].q EXCEPT ![m.i] = qty[m.i]]
        /\ read.loaded = req[r].loaded \cup {m.i}
        /\ read.new = req[r].new /\ read.wrote = req[r].wrote /\ read.gain = req[r].gain
    BY <1>2, <2>1 DEF Request
  <2>3. \A i \in Ingredients : read.q[i] = IF i = m.i THEN qty[m.i] ELSE req[r].q[i]
    BY <1>2, <2>2 DEF Request
  <2>4. qty[m.i] \in Int
    BY <1>3, QuantityType DEF TypeOK
  <2> HIDE DEF read
  <2>5. SalesWork(read)
    BY <1>1, <1>2, <2>2 DEF Accounts, SalesWork
  <2>6. ASSUME alone PROVE AccountWork(read)
    <3>1. AccountWork(req[r])
      BY <1>1, <1>2, <2>6 DEF Accounts
    <3>2. /\ read.loaded \subseteq stockRows \cup read.new
          /\ \A i \in Ingredients \ read.loaded : read.gain[i] = 0 /\ read.q[i] = 0 /\ i \notin read.wrote
      BY <1>7, <2>2, <2>3, <3>1 DEF AccountWork
    <3>3. ASSUME req[r].op # "adjust", NEW i \in read.loaded
          PROVE  read.q[i] = qty[i] + read.gain[i] /\ (i \notin read.wrote => read.gain[i] = 0)
      <4>1. i \in Ingredients
        BY <1>2, <1>3, <2>2 DEF Request
      <4>2. CASE i = m.i
        <5>1. read.gain[i] = 0
          BY <1>3, <1>7, <2>2, <3>1, <4>2 DEF AccountWork
        <5> QED BY <2>3, <2>4, <4>1, <4>2, <5>1
      <4>3. CASE i # m.i
        BY <2>2, <2>3, <3>1, <3>3, <4>1, <4>3 DEF AccountWork
      <4> QED BY <4>2, <4>3
    <3>4. ASSUME req[r].op = "adjust", NEW i \in read.loaded PROVE Counted(read, i)
      <4>1. i \in Ingredients
        BY <1>2, <1>3, <2>2 DEF Request
      <4>2. i = m.i
        BY <1>1, <1>3, <2>2, <3>1, <3>4 DEF AccountWork, Counted
      <4>3. read.gain[i] = 0 /\ i \notin read.wrote
        BY <1>3, <1>7, <2>2, <3>1, <4>2 DEF AccountWork
      <4> QED BY <1>1, <1>3, <2>2, <2>3, <4>1, <4>2, <4>3 DEF Counted
    <3>5. Head(read.todo).i \in read.loaded /\ read.pc \notin {"list", "insert"}
      BY <1>3, <2>2
    <3>6. read.op # "adjust" =>
            /\ \A j \in DOMAIN read.todo : read.todo[j].kind # "inventaire"
            /\ \A i \in read.loaded : /\ read.q[i] = qty[i] + read.gain[i]
                                      /\ i \notin read.wrote => read.gain[i] = 0
      BY <2>2, <3>1, <3>3 DEF AccountWork
    <3>7. read.op = "adjust" =>
            /\ Len(read.todo) <= 1 /\ \A j \in DOMAIN read.todo : read.todo[j].kind = "inventaire"
            /\ \A i \in read.loaded : Counted(read, i)
      BY <2>2, <3>1, <3>4 DEF AccountWork
    <3> QED BY <3>2, <3>5, <3>6, <3>7 DEF AccountWork
  <2> QED BY <1>1, <1>7, <2>2, <2>5, <2>6 DEF Accounts
<1>8. CASE m.i \notin stockRows \cup req[r].loaded /\ Become(r, insert)
  <2>1. /\ insert.pc = "insert" /\ insert.todo = req[r].todo /\ insert.plat = req[r].plat
        /\ insert.op = req[r].op /\ insert.q = req[r].q /\ insert.loaded = req[r].loaded
        /\ insert.new = req[r].new /\ insert.wrote = req[r].wrote /\ insert.gain = req[r].gain
    BY <1>2 DEF Request
  <2> HIDE DEF insert
  <2>2. SalesWork(insert)
    BY <1>1, <1>2, <2>1 DEF Accounts, SalesWork
  <2>3. alone => AccountWork(insert)
    BY <1>1, <1>2, <1>3, <1>8, <2>1 DEF Accounts, AccountWork, Counted
  <2> QED BY <1>1, <1>8, <2>1, <2>2, <2>3 DEF Accounts
<1> QED
  BY <1>4, <1>5, <1>6, <1>7, <1>8 DEF ReadStock

LEMMA InsertStockAccounts ==
    ASSUME TypeOK, AccountInv, NEW r \in Workers, InsertStock(r)
    PROVE  \E x : Accounts(x) /\ Become(r, x) /\ req[r].pc # "idle" /\ UNCHANGED <<db, history>>
<1> DEFINE i == Moving(r).i
           x == [req[r] EXCEPT !.pc = "write", !.new = @ \cup {i}, !.loaded = @ \cup {i}]
<1>1. req[r].pc = "insert" /\ req[r].todo # <<>> /\ UNCHANGED <<db, history>>
  BY DEF InsertStock, TypeOK
<1>2. req[r] \in Request /\ Accounts(req[r]) /\ req[r].todo \in Seq(Move)
  BY DEF TypeOK, AccountInv, Request
<1>3. i = Head(req[r].todo).i /\ i \in Ingredients
  BY <1>1, <1>2, TailMoves DEF Moving, Move
<1>4. CASE Become(r, Idle)
  BY <1>1, <1>4, IdleAccounts
<1>5. CASE Become(r, x)
  <2>1. /\ x.pc = "write" /\ x.todo = req[r].todo /\ x.plat = req[r].plat /\ x.op = req[r].op
        /\ x.q = req[r].q /\ x.loaded = req[r].loaded \cup {i} /\ x.new = req[r].new \cup {i}
        /\ x.wrote = req[r].wrote /\ x.gain = req[r].gain
    BY <1>2 DEF Request
  <2> HIDE DEF x
  <2>2. SalesWork(x)
    BY <1>1, <1>2, <2>1 DEF Accounts, SalesWork
  <2>3. ASSUME alone PROVE AccountWork(x)
    <3>1. AccountWork(req[r])
      BY <1>1, <1>2, <2>3 DEF Accounts
    <3>2. i \notin stockRows /\ i \notin req[r].loaded /\ qty[i] = 0
      BY <1>1, <1>3, <2>3, <3>1 DEF AccountWork, AccountInv
    <3>3. req[r].gain[i] = 0 /\ req[r].q[i] = 0 /\ i \notin req[r].wrote
      BY <1>3, <3>1, <3>2 DEF AccountWork
    <3>4. req[r].op = "adjust" => Counted(x, i)
      BY <1>1, <1>3, <2>1, <3>2, <3>3 DEF Counted
    <3>5. /\ x.loaded \subseteq stockRows \cup x.new
          /\ \A j \in Ingredients \ x.loaded : x.gain[j] = 0 /\ x.q[j] = 0 /\ j \notin x.wrote
          /\ Head(x.todo).i \in x.loaded /\ x.pc \notin {"list", "insert"}
      BY <1>3, <2>1, <3>1 DEF AccountWork
    <3>6. x.op # "adjust" =>
            /\ \A j \in DOMAIN x.todo : x.todo[j].kind # "inventaire"
            /\ \A j \in x.loaded : x.q[j] = qty[j] + x.gain[j] /\ (j \notin x.wrote => x.gain[j] = 0)
      BY <2>1, <3>1, <3>2, <3>3 DEF AccountWork
    <3>7. x.op = "adjust" =>
            /\ Len(x.todo) <= 1 /\ \A j \in DOMAIN x.todo : x.todo[j].kind = "inventaire"
            /\ \A j \in req[r].loaded : Counted(req[r], j)
      BY <2>1, <3>1 DEF AccountWork
    <3>8. x.op = "adjust" => \A j \in x.loaded : Counted(x, j)
      BY <2>1, <3>4, <3>7 DEF Counted
    <3> QED BY <3>5, <3>6, <3>7, <3>8 DEF AccountWork
  <2> QED BY <1>1, <1>5, <2>1, <2>2, <2>3 DEF Accounts
<1> QED
  BY <1>4, <1>5 DEF InsertStock, Insert

LEMMA WriteAccounts ==
    ASSUME TypeOK, AccountInv, NEW r \in Workers, req[r].pc = "write", Write(r)
    PROVE  \E x : Accounts(x) /\ x.pc # "idle" /\ Become(r, x)
<1> DEFINE m == Moving(r)
           v == Moved(m, req[r].q[m.i])
<1>1. req[r].todo # <<>> /\ req[r] \in Request /\ Accounts(req[r]) /\ req[r].todo \in Seq(Move)
  BY DEF TypeOK, AccountInv, Request
<1>2. /\ m \in Move /\ m = Head(req[r].todo) /\ 1 \in DOMAIN req[r].todo /\ m = req[r].todo[1]
      /\ m.i \in Ingredients /\ m.n \in Int /\ m.kind \in Kinds
  <2>1. m \in Move /\ m = Head(req[r].todo) /\ 1 \in DOMAIN req[r].todo /\ m = req[r].todo[1]
    BY <1>1, TailMoves DEF Moving
  <2>2. \A n \in Nat : n \in Int
    OBVIOUS
  <2> HIDE DEF m
  <2> QED BY <2>1, <2>2 DEF Move
<1>3. PICK W : /\ W \in IF m.kind = "inventaire" /\ v = req[r].q[m.i]
                        THEN {req[r].wrote, req[r].wrote \cup {m.i}} ELSE {req[r].wrote \cup {m.i}}
               /\ Become(r, NextMove([req[r] EXCEPT !.q[m.i] = v, !.wrote = W,
                                                    !.gain[m.i] = @ + Signed(m)]))
  BY DEF Write
<1> DEFINE x == NextMove([req[r] EXCEPT !.q[m.i] = v, !.wrote = W, !.gain[m.i] = @ + Signed(m)])
           q2 == [req[r].q EXCEPT ![m.i] = v]
           g2 == [req[r].gain EXCEPT ![m.i] = @ + Signed(m)]
<1>4. /\ x.pc = "read" /\ x.todo = Tail(req[r].todo) /\ x.plat = req[r].plat /\ x.op = req[r].op
      /\ x.q = q2 /\ x.loaded = req[r].loaded /\ x.new = req[r].new /\ x.wrote = W /\ x.gain = g2
  <2>1. x = [req[r] EXCEPT !.q = q2, !.wrote = W, !.gain = g2, !.pc = "read", !.todo = Tail(req[r].todo)]
    BY <1>1 DEF NextMove, Request
  <2> HIDE DEF q2, g2, x
  <2> QED BY <1>1, <2>1 DEF Request
<1>5. /\ \A i \in Ingredients : q2[i] = IF i = m.i THEN v ELSE req[r].q[i]
      /\ \A i \in Ingredients : g2[i] = IF i = m.i THEN req[r].gain[i] + Signed(m) ELSE req[r].gain[i]
      /\ req[r].q[m.i] \in Int /\ qty[m.i] \in Int /\ req[r].gain[m.i] \in Int
  BY <1>1, <1>2, QuantityType DEF Request, TypeOK
<1> HIDE DEF q2, g2, x
<1>6. /\ Tail(req[r].todo) \in Seq(Move)
      /\ \A j \in DOMAIN x.todo : x.todo[j] = req[r].todo[j + 1] /\ j + 1 \in DOMAIN req[r].todo
      /\ Len(req[r].todo) <= 1 => x.todo = <<>>
      /\ Distinct(req[r].todo) => /\ Distinct(x.todo)
                                  /\ InMoves(x.todo) = InMoves(req[r].todo) \ {m.i}
      /\ m.i \in InMoves(req[r].todo)
  BY <1>1, <1>2, <1>4, TailMoves
<1>7. SalesWork(x)
  <2> SUFFICES ASSUME req[r].plat # <<>> PROVE SalesWork(x)
    BY <1>4 DEF SalesWork
  <2>1. SalesWork(req[r])
    BY <1>1 DEF Accounts
  <2>2. m.kind = "vente" /\ m.n = Share(req[r].plat, m.i) /\ Distinct(req[r].todo) /\ req[r].gain[m.i] = 0
    BY <1>2, <1>6, <2>1 DEF SalesWork
  <2>3. Signed(m) = -m.n
    BY <2>2 DEF Signed
  <2>4. ASSUME NEW i \in Ingredients
        PROVE  /\ i \in InMoves(x.todo) => x.gain[i] = 0
               /\ i \notin InMoves(x.todo) => x.gain[i] = -Share(x.plat, i)
    <3>1. CASE i = m.i
      <4>1. i \notin InMoves(x.todo) /\ x.plat = req[r].plat
        BY <1>4, <1>6, <2>2, <3>1
      <4>2. x.gain[i] = 0 + Signed(m)
        BY <1>2, <1>4, <1>5, <2>2, <3>1
      <4> QED BY <1>2, <2>2, <2>3, <3>1, <4>1, <4>2
    <3>2. CASE i # m.i
      BY <1>4, <1>5, <1>6, <2>1, <2>2, <3>2 DEF SalesWork
    <3> QED BY <3>1, <3>2
  <2> QED BY <1>4, <1>6, <2>1, <2>2, <2>4 DEF SalesWork
<1>8. ASSUME alone PROVE AccountWork(x)
  <2>1. AccountWork(req[r])
    BY <1>1, <1>8 DEF Accounts
  <2>2. m.i \in req[r].loaded /\ \A i \in req[r].loaded : i \in Ingredients
    BY <1>1, <1>2, <2>1 DEF AccountWork, Request
  <2>3. \A i \in Ingredients : i # m.i => (i \in W <=> i \in req[r].wrote)
    BY <1>3
  <2>4. /\ x.loaded \subseteq stockRows \cup x.new
        /\ \A i \in Ingredients \ x.loaded : x.gain[i] = 0 /\ x.q[i] = 0 /\ i \notin x.wrote
    BY <1>4, <1>5, <2>1, <2>2, <2>3, ZenonT(60) DEF AccountWork
  <2>5. ASSUME req[r].op # "adjust"
        PROVE  /\ \A j \in DOMAIN x.todo : x.todo[j].kind # "inventaire"
               /\ \A i \in x.loaded : x.q[i] = qty[i] + x.gain[i] /\ (i \notin x.wrote => x.gain[i] = 0)
    <3>1. m.kind # "inventaire" /\ req[r].q[m.i] = qty[m.i] + req[r].gain[m.i] /\ m.i \in W
      BY <1>2, <1>3, <2>1, <2>2, <2>5 DEF AccountWork
    <3>2. v = qty[m.i] + (req[r].gain[m.i] + Signed(m))
      <4>1. v = req[r].q[m.i] + Signed(m) /\ Signed(m) \in Int
        <5>1. PICK a, n \in Int : a = req[r].q[m.i] /\ n = m.n
          BY <1>2, <1>5
        <5>2. CASE m.kind \in {"entree", "transfert"}
          BY <5>1, <5>2 DEF Moved, Signed
        <5>3. CASE m.kind \in {"sortie", "perte", "vente"}
          <6>1. v = a - n /\ Signed(m) = -n
            BY <5>1, <5>3 DEF Moved, Signed
          <6> QED BY <5>1, <6>1
        <5> QED BY <1>2, <3>1, <5>2, <5>3 DEF Kinds
      <4> QED BY <1>5, <3>1, <4>1
    <3>3. \A j \in DOMAIN x.todo : x.todo[j].kind # "inventaire"
      BY <1>6, <2>1, <2>5 DEF AccountWork
    <3>4. x.q[m.i] = qty[m.i] + x.gain[m.i] /\ m.i \in x.wrote
      BY <1>2, <1>4, <1>5, <3>1, <3>2
    <3>5. ASSUME NEW i \in x.loaded, i # m.i
          PROVE  x.q[i] = qty[i] + x.gain[i] /\ (i \notin x.wrote => x.gain[i] = 0)
      <4>1. i \in req[r].loaded /\ i \in Ingredients
        BY <1>4, <2>2, <3>5
      <4>2. req[r].q[i] = qty[i] + req[r].gain[i] /\ (i \notin req[r].wrote => req[r].gain[i] = 0)
        BY <2>1, <2>5, <4>1 DEF AccountWork
      <4> QED BY <1>4, <1>5, <2>3, <3>5, <4>1, <4>2
    <3> QED BY <3>3, <3>4, <3>5
  <2>6. ASSUME req[r].op = "adjust" PROVE x.todo = <<>> /\ \A i \in x.loaded : Counted(x, i)
    <3>1. /\ m.kind = "inventaire" /\ Len(req[r].todo) <= 1
          /\ \A i \in req[r].loaded : Counted(req[r], i)
      BY <1>2, <2>1, <2>6 DEF AccountWork
    <3>2. /\ \A i \in req[r].loaded : i = m.i
          /\ req[r].q[m.i] = qty[m.i] /\ req[r].gain[m.i] = 0 /\ m.i \notin req[r].wrote
      BY <1>1, <1>2, <2>2, <3>1 DEF Counted
    <3>3. v = m.n /\ Signed(m) = m.n /\ (m.i \notin W => v = qty[m.i])
      BY <1>3, <3>1, <3>2 DEF Moved, Signed
    <3>4. x.todo = <<>> /\ \A i \in x.loaded : i = m.i
      BY <1>4, <1>6, <3>1, <3>2
    <3>5. x.q[m.i] = v /\ x.gain[m.i] = 0 + Signed(m) /\ x.wrote = W
      BY <1>2, <1>4, <1>5, <3>2
    <3>6. x.q[m.i] = x.gain[m.i] /\ (m.i \notin x.wrote => x.q[m.i] = qty[m.i])
      BY <1>2, <3>3, <3>5
    <3> QED BY <3>4, <3>6 DEF Counted
  <2>7. x.op = "adjust" => Len(x.todo) <= 1 /\ \A j \in DOMAIN x.todo : x.todo[j].kind = "inventaire"
    <3>1. DOMAIN <<>> = {} /\ Len(<<>>) = 0
      BY EmptySeq
    <3>2. x.op = "adjust" => x.todo = <<>>
      BY <1>4, <2>6
    <3> QED BY <3>1, <3>2
  <2> QED BY <1>4, <2>4, <2>5, <2>6, <2>7 DEF AccountWork
<1> QED BY <1>3, <1>4, <1>7, <1>8 DEF Accounts, x

LEMMA WriteMoveAccounts ==
    ASSUME TypeOK, AccountInv, NEW r \in Workers, WriteMove(r)
    PROVE  \E x : Accounts(x) /\ Become(r, x) /\ req[r].pc # "idle" /\ UNCHANGED <<db, history>>
<1>1. req[r].pc = "write" /\ UNCHANGED <<db, history>>
  BY DEF WriteMove
<1>2. req[r].todo # <<>> /\ req[r] \in Request /\ Accounts(req[r])
  BY <1>1 DEF TypeOK, AccountInv
<1>3. CASE Become(r, Idle)
  BY <1>1, <1>3, IdleAccounts
<1>4. CASE Short(r) /\ Become(r, NextMove(req[r]))
  <2>1. Head(req[r].todo).kind \in {"sortie", "perte"}
    BY <1>4 DEF Short, Moving
  <2> QED BY <1>1, <1>2, <1>4, <2>1, SkipAccounts
<1>5. CASE Write(r)
  BY <1>1, <1>5, WriteAccounts
<1> QED
  BY <1>3, <1>4, <1>5 DEF WriteMove

-----------------------------------------------------------------------------
(* A request arrives without having moved anything. *)
LEMMA BeginAccounts ==
    ASSUME TypeOK, AccountInv, NEW r \in Workers, NEW op \in Ops, NEW todo, NEW plat,
           Begin(r, op, todo, plat),
           op = "replenish" => plat = <<>>,
           plat # <<>> =>
              /\ Distinct(todo)
              /\ \A j \in DOMAIN todo : todo[j].kind = "vente" /\ todo[j].n = Share(plat, todo[j].i)
              /\ \A i \in Ingredients : i \notin InMoves(todo) => Share(plat, i) = 0,
           op = "adjust" => Len(todo) <= 1 /\ \A j \in DOMAIN todo : todo[j].kind = "inventaire",
           op # "adjust" => \A j \in DOMAIN todo : todo[j].kind # "inventaire"
    PROVE  AccountInv'
<1> DEFINE pc == IF op = "replenish" THEN "list" ELSE "read"
           x == [Idle EXCEPT !.pc = pc, !.op = op, !.todo = todo, !.plat = plat]
<1>1. /\ Become(r, x) /\ UNCHANGED db /\ req[r].pc = "idle"
      /\ alone' = (alone /\ \A q \in Workers \ {r} : req[q].pc = "idle")
      /\ alone' => UNCHANGED book
  BY DEF Begin
<1>2. /\ x.pc = pc /\ x.op = op /\ x.todo = todo /\ x.plat = plat
      /\ x.loaded = {} /\ x.new = {} /\ x.wrote = {}
      /\ \A i \in Ingredients : x.gain[i] = 0 /\ x.q[i] = 0
  BY DEF Idle
<1> HIDE DEF x
<1>3. SalesWork(x)
  BY <1>2 DEF SalesWork
<1>4. AccountWork(x)
  BY <1>2 DEF AccountWork
<1>5. \A p \in Workers : req'[p] = IF p = r THEN x ELSE req[p]
  BY <1>1 DEF Become, TypeOK
<1>6. UNCHANGED <<stockRows, qty, served, taken>>
  BY <1>1 DEF db
<1>7. PICK z : z = x
  OBVIOUS
<1>8. \A p \in Workers : req'[p] = IF p = r THEN z ELSE req[p]
  BY <1>5, <1>7
<1>9. SalesWork(z) /\ AccountWork(z)
  BY <1>3, <1>4, <1>7
<1>10. ASSUME NEW p \in Workers PROVE Accounts(req[p])'
  <2>1. SalesWork(req'[p]) /\ (alone' /\ req'[p].pc # "idle" => AccountWork(req'[p]))
    BY <1>1, <1>8, <1>9 DEF AccountInv, Accounts
  <2> QED BY <1>6, <2>1 DEF Accounts, SalesWork, AccountWork, Counted
<1>11. alone' => OneAlone'
  BY <1>1, <1>8, ZenonT(60) DEF OneAlone
<1>12. ServedTaken'
  BY <1>6 DEF AccountInv, ServedTaken
<1> QED BY <1>1, <1>6, <1>10, <1>11, <1>12 DEF AccountInv

LEMMA OfPlatMoves ==
    ASSUME NEW p \in Plats, NEW k \in Portions, NEW kind \in Kinds, NEW moves \in OfPlat(p, k, kind)
    PROVE  /\ Distinct(moves) /\ <<p, k>> # <<>>
           /\ \A j \in DOMAIN moves : moves[j].kind = kind /\ moves[j].n = Share(<<p, k>>, moves[j].i)
           /\ \A i \in Ingredients : i \notin InMoves(moves) => Share(<<p, k>>, i) = 0
<1> DEFINE A == {i \in Ingredients : Recipe[p][i] > 0}
           n == [i \in Ingredients |-> k * Recipe[p][i]]
<1>1. A \in SUBSET Ingredients /\ moves \in MovesOf(A, kind, n)
  BY DEF OfPlat
<1>2. /\ Distinct(moves) /\ InMoves(moves) = A
      /\ \A j \in DOMAIN moves : moves[j].kind = kind /\ moves[j].n = n[moves[j].i]
  <2> HIDE DEF A, n
  <2> QED BY <1>1, MovesEach
<1>3. \A i \in Ingredients : n[i] = Share(<<p, k>>, i)
  BY DEF Share
<1>4. \A i \in Ingredients : i \notin A => Share(<<p, k>>, i) = 0
  BY StockAssumption DEF Share
<1>5. \A j \in DOMAIN moves : moves[j].i \in Ingredients
  BY <1>1, <1>2 DEF InMoves
<1> HIDE DEF A, n
<1> QED BY <1>2, <1>3, <1>4, <1>5

LEMMA ArriveAccounts ==
    ASSUME TypeOK, AccountInv, NEW r \in Workers, Arrive(r) PROVE AccountInv'
<1>1. CASE \E op \in Ops \cap {"entree", "sortie", "perte"}, i \in Ingredients, n \in Amounts :
              Begin(r, op, <<[i |-> i, kind |-> op, n |-> n]>>, <<>>)
  BY <1>1, BeginAccounts
<1>2. CASE \E op \in Ops \cap {"adjust"}, i \in Ingredients, n \in Amounts \cup {0} :
              Begin(r, op, <<[i |-> i, kind |-> "inventaire", n |-> n]>>, <<>>)
  <2>1. PICK op \in Ops \cap {"adjust"}, i \in Ingredients, n \in Amounts \cup {0} :
              Begin(r, op, <<[i |-> i, kind |-> "inventaire", n |-> n]>>, <<>>)
    BY <1>2
  <2> DEFINE todo == <<[i |-> i, kind |-> "inventaire", n |-> n]>>
  <2>2. Len(todo) <= 1 /\ \A j \in DOMAIN todo : todo[j].kind = "inventaire"
    OBVIOUS
  <2> HIDE DEF todo
  <2> QED BY <2>1, <2>2, BeginAccounts DEF todo
<1>3. CASE \E op \in Ops \cap {"transfer"}, i \in Ingredients, n \in Amounts :
              Begin(r, op, <<[i |-> i, kind |-> "transfert", n |-> n]>>, <<>>)
  BY <1>3, BeginAccounts
<1>4. CASE \E op \in Ops \cap {"bulk"}, i, j \in Ingredients, n \in Amounts :
              Begin(r, op, <<[i |-> i, kind |-> "transfert", n |-> n],
                             [i |-> j, kind |-> "transfert", n |-> n]>>, <<>>)
  BY <1>4, BeginAccounts
<1>5. CASE \E op \in Ops \cap {"replenish"} : Begin(r, op, <<>>, <<>>)
  BY <1>5, BeginAccounts
<1>6. CASE \E p \in Plats, k \in Portions, op \in Ops \cap {"serve"} :
              \E moves \in OfPlat(p, k, "vente") : Begin(r, op, moves, <<p, k>>)
  <2>1. "vente" \in Kinds
    BY DEF Kinds
  <2> QED BY <1>6, <2>1, OfPlatMoves, BeginAccounts
<1>7. CASE \E p \in Plats, k \in Portions, op \in Ops \cap {"waste"} :
              \E moves \in OfPlat(p, k, "perte") : Begin(r, op, moves, <<>>)
  <2>1. PICK p \in Plats, k \in Portions, op \in Ops \cap {"waste"} :
           \E moves \in OfPlat(p, k, "perte") : Begin(r, op, moves, <<>>)
    BY <1>7
  <2>2. PICK moves \in OfPlat(p, k, "perte") : Begin(r, op, moves, <<>>)
    BY <2>1
  <2>3. \A j \in DOMAIN moves : moves[j].kind # "inventaire"
    BY <2>2, MovesOfKind DEF OfPlat
  <2> QED BY <2>1, <2>2, <2>3, BeginAccounts
<1> QED
  BY <1>1, <1>2, <1>3, <1>4, <1>5, <1>6, <1>7 DEF Arrive

-----------------------------------------------------------------------------
(* A sale adds its portions and the movements of its recipe. *)
LEMMA CommitTaken ==
    ASSUME TypeOK, AccountInv, NEW r \in Workers, Commit(r) PROVE ServedTaken'
<1> DEFINE plat == req[r].plat
<1>1. req[r] \in Request /\ SalesWork(req[r]) /\ req[r].todo = <<>>
  BY DEF TypeOK, AccountInv, Accounts, Commit
<1>2. CASE plat = <<>>
  BY <1>2 DEF Commit, AccountInv, ServedTaken
<1>3. CASE plat # <<>>
  <2>1. plat[1] \in Plats /\ plat[2] \in Portions
    BY <1>1, <1>3 DEF Request
  <2>2. PICK p \in Plats, k \in Nat : p = plat[1] /\ k = plat[2]
    BY <2>1, StockAssumption
  <2>3. /\ served' = [served EXCEPT ![p] = served[p] + k]
        /\ taken' = [i \in Ingredients |-> taken[i] - req[r].gain[i]]
    BY <1>3, <2>2 DEF Commit
  <2>4. \A i \in Ingredients : req[r].gain[i] = -(k * Recipe[p][i])
    <3>1. InMoves(<<>>) = {}
      BY DEF InMoves
    <3> QED BY <1>1, <1>3, <2>2, <3>1 DEF SalesWork, Share
  <2>5. served \in [Plats -> Nat] /\ Recipe \in [Plats -> [Ingredients -> Nat]] /\ IsFiniteSet(Plats)
    BY StockAssumption DEF TypeOK
  <2> SUFFICES ASSUME NEW i \in Ingredients
               PROVE  taken'[i] = SumFunctionOnSet([c \in Plats |-> served'[c] * Recipe[c][i]], Plats)
    BY DEF ServedTaken
  <2> DEFINE f == [c \in Plats |-> served[c] * Recipe[c][i]]
             g == [c \in Plats |-> served'[c] * Recipe[c][i]]
  <2>6. \A c \in Plats : f[c] \in Int /\ g[c] \in Int
    <3> SUFFICES ASSUME NEW c \in Plats PROVE f[c] \in Int /\ g[c] \in Int
      OBVIOUS
    <3>1. served[c] \in Int /\ served'[c] \in Int /\ Recipe[c][i] \in Int
      BY <2>3, <2>5
    <3> QED BY <3>1
  <2>7. \A c \in Plats \ {p} : g[c] = f[c]
    BY <2>3, <2>5
  <2>8. g[p] = f[p] + k * Recipe[p][i]
    <3>1. served'[p] = served[p] + k /\ served[p] \in Int /\ k \in Int /\ Recipe[p][i] \in Int
      BY <2>3, <2>5
    <3> QED BY <3>1
  <2>9. taken[i] = SumFunctionOnSet(f, Plats)
    BY DEF AccountInv, ServedTaken
  <2> HIDE DEF f, g
  <2>10. SumFunctionOnSet(g, Plats) = SumFunctionOnSet(f, Plats) - f[p] + g[p]
    BY <2>5, <2>6, <2>7, SumChange
  <2>11. taken'[i] = taken[i] + k * Recipe[p][i] /\ k * Recipe[p][i] \in Int /\ taken[i] \in Int
    <3>1. Recipe[p][i] \in Int /\ taken[i] \in Int
      BY <2>5 DEF TypeOK
    <3> QED BY <2>3, <2>4, <3>1
  <2> QED BY <2>6, <2>8, <2>9, <2>10, <2>11 DEF g
<1> QED BY <1>2, <1>3

LEMMA CommitAccounts ==
    ASSUME TypeOK, AccountInv, NEW r \in Workers, Commit(r) PROVE AccountInv'
<1>1. req[r] \in Request /\ Accounts(req[r]) /\ req[r].todo = <<>> /\ req[r].pc = "read"
  BY DEF TypeOK, AccountInv, Commit
<1>2. \A p \in Workers : req'[p] = IF p = r THEN Idle ELSE req[p]
  BY DEF Commit, Become, TypeOK
<1>3. ASSUME NEW p \in Workers PROVE SalesWork(req[p])'
  <2>1. SalesWork(req'[p])
    BY <1>2, IdleAccounts DEF AccountInv, Accounts
  <2> QED BY <2>1 DEF SalesWork
<1>4. UNCHANGED alone
  BY DEF Commit
<1>5. ASSUME alone, NEW p \in Workers PROVE req'[p].pc = "idle"
  BY <1>1, <1>2, <1>5, IdleType DEF AccountInv, OneAlone
<1>6. ASSUME alone, NEW i \in Ingredients
      PROVE  qty'[i] = book'[i] /\ (i \notin stockRows' => qty'[i] = 0)
  <2>1. AccountWork(req[r]) /\ qty[i] = book[i] /\ (i \notin stockRows => qty[i] = 0)
    BY <1>1, <1>6 DEF Accounts, AccountInv
  <2>2. /\ stockRows' = stockRows \cup req[r].new
        /\ qty'[i] = IF i \in req[r].wrote THEN req[r].q[i] ELSE qty[i]
        /\ book'[i] = IF req[r].op = "adjust" /\ i \in req[r].loaded THEN req[r].gain[i]
                      ELSE book[i] + req[r].gain[i]
    BY <1>6 DEF Commit
  <2>3. book[i] \in Int /\ req[r].gain[i] \in Int
    BY <1>1 DEF TypeOK, Request
  <2>4. CASE i \notin req[r].loaded
    BY <2>1, <2>2, <2>3, <2>4 DEF AccountWork
  <2>5. CASE i \in req[r].loaded /\ req[r].op # "adjust"
    <3>1. /\ req[r].q[i] = book[i] + req[r].gain[i]
          /\ i \notin req[r].wrote => req[r].gain[i] = 0
          /\ i \in stockRows \cup req[r].new
      BY <2>1, <2>5 DEF AccountWork
    <3> QED BY <2>1, <2>2, <2>3, <2>5, <3>1
  <2>6. CASE i \in req[r].loaded /\ req[r].op = "adjust"
    BY <1>1, <2>1, <2>2, <2>3, <2>6 DEF AccountWork, Counted
  <2> QED BY <2>4, <2>5, <2>6
<1> QED BY <1>3, <1>4, <1>5, <1>6, CommitTaken DEF AccountInv, Accounts, OneAlone

LEMMA NextAccounts == TypeOK /\ AccountInv /\ [Next]_vars => AccountInv'
<1> SUFFICES ASSUME TypeOK, AccountInv, [Next]_vars PROVE AccountInv'
  OBVIOUS
<1>1. CASE UNCHANGED vars
  <2>1. UNCHANGED <<stockRows, qty, served, taken, book, alone, req>>
    BY <1>1 DEF vars, db, history
  <2>2. ServedTaken'
    BY <2>1 DEF AccountInv, ServedTaken
  <2>3. \A r \in Workers : Accounts(req[r])'
    BY <2>1 DEF AccountInv, Accounts, SalesWork, AccountWork, Counted
  <2> QED BY <2>1, <2>2, <2>3 DEF AccountInv, OneAlone
<1>2. ASSUME NEW r \in Workers, Arrive(r) PROVE AccountInv'
  BY <1>2, ArriveAccounts
<1>3. ASSUME NEW r \in Workers, ListLow(r) \/ ReadStock(r) \/ InsertStock(r) \/ WriteMove(r)
      PROVE  AccountInv'
  <2>1. \E x : Accounts(x) /\ Become(r, x) /\ req[r].pc # "idle" /\ UNCHANGED <<db, history>>
    BY <1>3, ListLowAccounts, ReadStockAccounts, InsertStockAccounts, WriteMoveAccounts
  <2> QED BY <2>1, BecomeAccounts
<1>4. ASSUME NEW r \in Workers, Deadlock(r) \/ NoRoom(r) \/ Crash(r) PROVE AccountInv'
  BY <1>4, IdleAccounts, IdleType, BecomeAccounts DEF Deadlock, NoRoom, Crash, Fail
<1>5. ASSUME NEW r \in Workers, Commit(r) PROVE AccountInv'
  BY <1>5, CommitAccounts
<1> QED
  BY <1>1, <1>2, <1>3, <1>4, <1>5 DEF Next, Step

LEMMA InitAccounts == Init => AccountInv
<1> SUFFICES ASSUME Init PROVE AccountInv
  OBVIOUS
<1>1. \A r \in Workers : req[r] = Idle
  BY DEF Init
<1>2. ASSUME NEW i \in Ingredients
      PROVE  taken[i] = SumFunctionOnSet([p \in Plats |-> served[p] * Recipe[p][i]], Plats)
  <2> DEFINE f == [p \in Plats |-> served[p] * Recipe[p][i]]
             none == [p \in Plats |-> 0]
  <2>1. \A p \in Plats : f[p] = 0
    BY StockAssumption DEF Init
  <2>2. SumFunctionOnSet(f, Plats) = 0
    BY <2>1, StockAssumption, SumZero
  <2> QED BY <2>2 DEF Init
<1>3. ServedTaken
  BY <1>2 DEF ServedTaken
<1> QED BY <1>1, <1>3, IdleAccounts, IdleType DEF Init, AccountInv, OneAlone

(* The stock is what its movements and the sales say: every sale on record *)
(* has all the movements of its recipe, in any interleaving of requests    *)
(* and failures, and without overlap every quantity is the last inventory  *)
(* plus the movements since (services/restaurant/stock.py and              *)
(* services/restaurant/consumption.py).                                    *)
THEOREM StockIsWhatMovementsSay == Spec => []StockConsistent
<1>1. TypeOK /\ AccountInv => StockConsistent
  BY DEF TypeOK, AccountInv, StockConsistent, MovementsAccount
<1>2. Spec => []AccountInv
  BY InitAccounts, NextAccounts, StockTypeCorrect, PTL DEF Spec
<1> QED BY <1>1, <1>2, StockTypeCorrect, PTL

(***************************************************************************)
(* The restaurant's menu.  Until two requests have overlapped, the one     *)
(* under way is the only one, and what it has loaded is on record; after   *)
(* that only the types are left, and that rows are numbered in turn, so    *)
(* that no new ingredient takes the place of an archived one.              *)
(***************************************************************************)
IngredientRow == [name : Names, active : BOOLEAN]
LinkRow == [ingredient : Nat, produit : Produits, primary : BOOLEAN]
RecipeLine == IngredientIds \X Nat
MenuRequest ==
    [pc : {"idle", "name", "write", "delete", "line"}, op : AllMenuOps \cup {"none"}, on : Nat,
     list : SUBSET IngredientIds, todo : SUBSET IngredientIds, twice : BOOLEAN,
     rows : SUBSET (Nat \cup RecipeLine), gone : SUBSET RecipeLine, new : SUBSET RecipeLine,
     name : Names \cup {<<>>}, loaded : {<<>>} \cup IngredientRow \cup LinkRow,
     produit : Produits \cup {<<>>}, primary : BOOLEAN]

OnIngredient == {"updateIngredient", "deactivateIngredient"}
OnDish == {"setLines", "addLine", "removeLine", "deactivateDish"}
Rewrites == {"setLines", "addLine", "removeLine", "createDish"}

MenuTarget(q) ==
    /\ q.pc = "idle" => q = MIdle
    /\ q.pc # "idle" => q.op # "none"
    /\ q.pc = "name" => q.op \in {"createIngredient", "updateIngredient"}
    /\ q.pc = "delete" => q.op \in {"setLines", "removeLine"}
    /\ q.pc = "line" => q.op \in Rewrites
    /\ q.op \in OnIngredient => q.on \in Known(ingredients)
    /\ q.op \in OnDish => q.on \in Known(dishes)
    /\ q.op = "createIngredient" => q.on = 0
    /\ q.op \in {"createIngredient", "updateIngredient"} => q.name \in Names
    /\ q.op = "createLink" => q.produit \in Produits

MenuTypeOK ==
    /\ \E n \in Nat : ingredients \in [1..n -> IngredientRow]
    /\ \E n \in Nat : dishes \in [1..n -> BOOLEAN] /\ recipe \in [1..n -> [IngredientIds -> Nat]]
    /\ lastLink \in Nat /\ lastRecipeLine \in Nat
    /\ Known(links) \subseteq 1..lastLink /\ links \in [Known(links) -> LinkRow]
    /\ mreq \in [Workers -> MenuRequest]
    /\ \A r \in Workers : MenuTarget(mreq[r])

(* What a request has loaded and written, as long as it is alone. *)
PrimariesOf(i) == {l \in LinksOf(i) : links[l].primary}
MenuReads(q) ==
    /\ q.op \in {"createIngredient", "updateIngredient"} /\ q.pc = "write" =>
          Namesakes(q) \subseteq {q.on}
    /\ q.op \in Rewrites =>
          /\ q.todo \subseteq q.list
          /\ {x[1] : x \in q.new} = q.list \ q.todo /\ \A x \in q.new : x[2] # 0
          /\ q.pc # "line" => q.gone = {}
    /\ q.op = "setLines" => q.rows = RecipeLines(q.on) /\ (q.pc = "line" => q.gone = q.rows)
    /\ q.op = "removeLine" =>
          /\ q.list = {} /\ (q.pc = "line" => q.gone = q.rows)
          /\ \E i \in IngredientIds : recipe[q.on][i] # 0 /\ q.rows = {<<i, recipe[q.on][i]>>}
    /\ q.op \in {"addLine", "createDish"} => q.gone = {}
    /\ q.op = "createLink" =>
          /\ \A l \in LinksOf(q.on) : links[l].produit # q.produit
          /\ q.rows = PrimariesOf(q.on)
    /\ q.op = "updateLink" =>
          /\ q.on \in Known(links) /\ q.loaded = links[q.on]
          /\ q.rows = PrimariesOf(links[q.on].ingredient)

OneRequest == \A p, q \in Workers : Busy(mreq, p) /\ Busy(mreq, q) => p = q

MenuInv ==
    /\ MenuTypeOK
    /\ menuInTurn => /\ OneRequest /\ \A r \in Workers : MenuReads(mreq[r])
                     /\ Known(dishes) \subseteq Known(asked)
    /\ MenuInTurn

LEMMA MenuIdle == MIdle \in MenuRequest /\ MIdle.pc = "idle" /\ MIdle.op = "none"
BY DEF MIdle, MenuRequest

LEMMA MenuIdleFits == MenuTarget(MIdle) /\ MenuReads(MIdle)
BY MenuIdle DEF MenuTarget, MenuReads, Rewrites, OnIngredient, OnDish

LEMMA MenuTypes ==
    ASSUME MenuTypeOK, NEW r \in Workers
    PROVE  mreq[r] \in MenuRequest /\ MenuTarget(mreq[r])
BY DEF MenuTypeOK

(* The next number of a numbered table. *)
LEMMA NumberNext ==
    ASSUME NEW S, NEW n \in Nat, NEW f \in [1..n -> S]
    PROVE  NextId(f) = n + 1 /\ Known(f) = 1..n
BY FS_Interval DEF NextId, Known

(* The table of ingredients with a new one. *)
LEMMA IngredientAdded ==
    ASSUME NEW n \in Nat, ingredients \in [1..n -> IngredientRow], NEW name \in Names,
           ingredients' = With(ingredients, NextId(ingredients), [name |-> name, active |-> TRUE])
    PROVE  /\ ingredients' \in [1..(n + 1) -> IngredientRow]
           /\ ingredients'[n + 1].name = name
           /\ \A i \in 1..n : ingredients'[i] = ingredients[i]
<1>1. PICK k, S, row : /\ k = n + 1 /\ k \in Nat /\ S = IngredientRow /\ row \in S
                       /\ row = [name |-> name, active |-> TRUE]
  <2>1. [name |-> name, active |-> TRUE] \in IngredientRow
    BY DEF IngredientRow
  <2>2. n + 1 \in Nat
    OBVIOUS
  <2> QED BY <2>1, <2>2
<1>2. row.name = name
  BY <1>1
<1>3. NextId(ingredients) = k
  BY <1>1, NumberNext
<1>4. ingredients' = With(ingredients, k, row)
  BY <1>1, <1>3
<1>5. ingredients \in [1..n -> S]
  BY <1>1
<1>6. /\ With(ingredients, k, row) \in [1..k -> S] /\ With(ingredients, k, row)[k] = row
      /\ \A x \in 1..n : With(ingredients, k, row)[x] = ingredients[x]
  <2>1. k = n + 1 /\ row \in S
    BY <1>1
  <2>2. DOMAIN ingredients = 1..n /\ 1..k = (1..n) \cup {k} /\ k \notin 1..n
    BY <1>5, <2>1
  <2> QED BY <1>5, <2>1, <2>2 DEF With
<1> QED BY <1>1, <1>2, <1>4, <1>6

(* The record of one request changes, and the number of the next line. *)
LEMMA MenuReadStep ==
    ASSUME MenuInv, NEW r \in Workers, NEW x \in MenuRequest, MBecome(r, x), MenuTarget(x),
           menuInTurn => MenuReads(x), x.pc # "idle" => Busy(mreq, r),
           UNCHANGED <<ingredients, dishes, recipe, links, lastLink, asked, menuInTurn>>,
           lastRecipeLine' \in Nat
    PROVE  MenuInv'
<1>1. /\ mreq' \in [Workers -> MenuRequest] /\ mreq'[r] = x
      /\ \A q \in Workers : q # r => mreq'[q] = mreq[q]
  BY DEF MBecome, MenuInv, MenuTypeOK
<1>2. \A q \in Workers : MenuTarget(mreq[q])'
  <2>1. \A q \in Workers : MenuTarget(mreq'[q])
    BY <1>1 DEF MenuInv, MenuTypeOK
  <2> QED BY <2>1 DEF MenuTarget, Known
<1>3. MenuTypeOK'
  BY <1>1, <1>2 DEF MenuInv, MenuTypeOK, Known
<1>4. menuInTurn' => \A q \in Workers : MenuReads(mreq[q])'
  <2>1. menuInTurn => \A q \in Workers : MenuReads(mreq'[q])
    BY <1>1 DEF MenuInv
  <2> QED BY <2>1 DEF MenuReads, Namesakes, RecipeLines, PrimariesOf, LinksOf, Known
<1>5. menuInTurn' => OneRequest'
  BY <1>1 DEF MenuInv, OneRequest, Busy
<1>6. MenuInTurn' /\ (menuInTurn' => Known(dishes)' \subseteq Known(asked)')
  BY DEF MenuInv, MenuInTurn, NamesOnce, RecipeAsAsked, OnePrimary, Known, RecipeLines
<1> QED BY <1>3, <1>4, <1>5, <1>6 DEF MenuInv

LEMMA MFailStep ==
    ASSUME MenuInv, NEW r \in Workers, MFail(r)
    PROVE  MenuInv'
BY MenuIdle, MenuIdleFits, MenuReadStep DEF MFail, MEnd, MKeep, menuDb, menuHistory, MenuInv, MenuTypeOK

(* A request that commits was the only one, if it was in turn. *)
LEMMA MenuDone ==
    ASSUME MenuInv, NEW r \in Workers, Busy(mreq, r), MEnd(r), menuInTurn' = menuInTurn,
           Known(ingredients) \subseteq Known(ingredients'), Known(dishes) \subseteq Known(dishes')
    PROVE  /\ mreq' \in [Workers -> MenuRequest] /\ \A q \in Workers : MenuTarget(mreq[q])'
           /\ menuInTurn' => OneRequest' /\ \A q \in Workers : MenuReads(mreq[q])'
<1>1. /\ mreq' \in [Workers -> MenuRequest] /\ mreq'[r] = MIdle
      /\ \A q \in Workers : q # r => mreq'[q] = mreq[q]
  BY MenuIdle DEF MEnd, MBecome, MenuInv, MenuTypeOK
<1>2. \A q \in Workers : MenuTarget(mreq[q])'
  <2>1. \A q \in Workers : MenuTarget(mreq'[q])
    BY <1>1, MenuIdleFits DEF MenuInv, MenuTypeOK
  <2> QED BY <2>1 DEF MenuTarget, Known
<1>3. ASSUME menuInTurn, NEW q \in Workers PROVE mreq'[q] = MIdle
  BY <1>1, <1>3 DEF MenuInv, OneRequest, Busy, MenuTypeOK, MenuTarget
<1>4. menuInTurn' => OneRequest'
  BY <1>3, MenuIdle DEF OneRequest, Busy
<1>5. ASSUME menuInTurn, NEW q \in Workers PROVE MenuReads(mreq[q])'
  <2>1. mreq'[q] = MIdle
    BY <1>3, <1>5
  <2> QED BY <2>1, MenuIdle DEF MenuReads, Rewrites
<1> QED BY <1>1, <1>2, <1>4, <1>5

LEMMA MenuStartStep ==
    ASSUME MenuInv, NEW r \in Workers, ~Busy(mreq, r), NEW op, NEW q, MStart(r, op, q),
           NEW x \in MenuRequest, x = [q EXCEPT !.op = op], MenuTarget(x),
           menuInTurn => MenuReads(x)
    PROVE  MenuInv'
<1>1. /\ mreq' \in [Workers -> MenuRequest] /\ mreq'[r] = x
      /\ \A p \in Workers : p # r => mreq'[p] = mreq[p]
  BY DEF MStart, MBecome, MenuInv, MenuTypeOK
<1>2. UNCHANGED <<ingredients, dishes, recipe, lastRecipeLine, links, lastLink, asked>>
  BY DEF MStart, menuDb
<1>3. menuInTurn' = (menuInTurn /\ InProgress(mreq, r) = {})
  BY DEF MStart
<1>4. \A p \in Workers : MenuTarget(mreq[p])'
  <2>1. \A p \in Workers : MenuTarget(mreq'[p])
    BY <1>1 DEF MenuInv, MenuTypeOK
  <2> QED BY <1>2, <2>1 DEF MenuTarget, Known
<1>5. MenuTypeOK'
  BY <1>1, <1>2, <1>4 DEF MenuInv, MenuTypeOK, Known
<1>6. menuInTurn' => \A p \in Workers : MenuReads(mreq[p])'
  <2>1. menuInTurn' => \A p \in Workers : MenuReads(mreq'[p])
    BY <1>1, <1>3 DEF MenuInv
  <2> QED BY <1>2, <2>1 DEF MenuReads, Namesakes, RecipeLines, PrimariesOf, LinksOf, Known
<1>7. menuInTurn' => \A p \in Workers \ {r} : ~Busy(mreq, p)
  BY <1>3 DEF InProgress
<1>8. menuInTurn' => OneRequest'
  BY <1>1, <1>7 DEF OneRequest, Busy
<1>9. MenuInTurn' /\ (menuInTurn' => Known(dishes)' \subseteq Known(asked)')
  <2>1. NamesOnce' /\ OnePrimary' /\ (menuInTurn' => Known(dishes)' \subseteq Known(asked)')
    BY <1>2, <1>3 DEF MenuInv, MenuInTurn, NamesOnce, OnePrimary, Known
  <2>2. \A d : RecipeLines(d)' = RecipeLines(d)
    BY <1>2 DEF RecipeLines
  <2>3. RecipeAsAsked'
    BY <1>2, <1>3, <2>2 DEF MenuInv, MenuInTurn, RecipeAsAsked, Known
  <2> QED BY <2>1, <2>3 DEF MenuInTurn
<1> QED BY <1>5, <1>6, <1>8, <1>9 DEF MenuInv

LEMMA RecipeLinesType ==
    ASSUME MenuTypeOK, NEW d \in Known(dishes)
    PROVE  recipe[d] \in [IngredientIds -> Nat] /\ RecipeLines(d) \in SUBSET RecipeLine
<1>1. recipe[d] \in [IngredientIds -> Nat]
  BY DEF MenuTypeOK, Known
<1> QED BY <1>1 DEF RecipeLines, RecipeLine

(* The first row that a request loads. *)
LEMMA StartIngredient ==
    ASSUME MenuInv, NEW r \in Workers, ~Busy(mreq, r),
           CreateIngredient(r) \/ UpdateIngredient(r) \/ DeactivateIngredient(r)
    PROVE  MenuInv'
<1>1. ASSUME NEW n \in Names,
             MStart(r, "createIngredient", [MIdle EXCEPT !.pc = "name", !.name = n])
      PROVE  MenuInv'
  <2> DEFINE q == [MIdle EXCEPT !.pc = "name", !.name = n]
             x == [q EXCEPT !.op = "createIngredient"]
  <2>1. /\ x \in MenuRequest /\ x.pc = "name" /\ x.op = "createIngredient" /\ x.on = 0 /\ x.name = n
    BY MenuIdle DEF MenuRequest, AllMenuOps, MIdle
  <2>2. MStart(r, "createIngredient", q)
    BY <1>1
  <2> HIDE DEF x
  <2>3. MenuTarget(x) /\ MenuReads(x)
    BY <2>1 DEF MenuTarget, MenuReads, Rewrites, OnIngredient, OnDish
  <2> QED BY <2>1, <2>2, <2>3, MenuStartStep DEF x
<1>2. ASSUME NEW i \in Known(ingredients), NEW n \in Names,
             MStart(r, "updateIngredient",
               [MIdle EXCEPT !.pc = IF n = ingredients[i].name THEN "write" ELSE "name",
                             !.on = i, !.name = n, !.loaded = ingredients[i]])
      PROVE  MenuInv'
  <2> DEFINE q == [MIdle EXCEPT !.pc = IF n = ingredients[i].name THEN "write" ELSE "name",
                                !.on = i, !.name = n, !.loaded = ingredients[i]]
             x == [q EXCEPT !.op = "updateIngredient"]
  <2>1. ingredients[i] \in IngredientRow /\ i \in Nat
    BY DEF MenuInv, MenuTypeOK, Known
  <2>2. /\ x \in MenuRequest /\ x.pc \in {"name", "write"} /\ x.op = "updateIngredient"
        /\ x.on = i /\ x.name = n /\ (x.pc = "write" => n = ingredients[i].name)
    BY <2>1, MenuIdle DEF MenuRequest, AllMenuOps
  <2>3. MStart(r, "updateIngredient", q)
    BY <1>2
  <2> HIDE DEF x
  <2>4. MenuTarget(x)
    BY <2>2 DEF MenuTarget, OnIngredient, OnDish
  <2>5. menuInTurn => MenuReads(x)
    <3>1. menuInTurn /\ x.pc = "write" => Namesakes(x) \subseteq {i}
      BY <2>2 DEF Namesakes, MenuInv, MenuInTurn, NamesOnce
    <3> QED BY <2>2, <3>1 DEF MenuReads, Rewrites
  <2> QED BY <2>2, <2>3, <2>4, <2>5, MenuStartStep DEF x
<1>3. ASSUME NEW i \in Known(ingredients),
             MStart(r, "deactivateIngredient",
               [MIdle EXCEPT !.pc = "write", !.on = i, !.loaded = ingredients[i]])
      PROVE  MenuInv'
  <2> DEFINE q == [MIdle EXCEPT !.pc = "write", !.on = i, !.loaded = ingredients[i]]
             x == [q EXCEPT !.op = "deactivateIngredient"]
  <2>1. ingredients[i] \in IngredientRow /\ i \in Nat
    BY DEF MenuInv, MenuTypeOK, Known
  <2>2. x \in MenuRequest /\ x.pc = "write" /\ x.op = "deactivateIngredient" /\ x.on = i
    BY <2>1, MenuIdle DEF MenuRequest, AllMenuOps
  <2>3. MStart(r, "deactivateIngredient", q)
    BY <1>3
  <2> HIDE DEF x
  <2>4. MenuTarget(x) /\ MenuReads(x)
    BY <2>2 DEF MenuTarget, MenuReads, Rewrites, OnIngredient, OnDish
  <2> QED BY <2>2, <2>3, <2>4, MenuStartStep DEF x
<1> QED BY <1>1, <1>2, <1>3 DEF CreateIngredient, UpdateIngredient, DeactivateIngredient

LEMMA StartRecipe ==
    ASSUME MenuInv, NEW r \in Workers, ~Busy(mreq, r),
           CreateDish(r) \/ SetLines(r) \/ AddLine(r) \/ RemoveLine(r)
    PROVE  MenuInv'
<1>1. ASSUME NEW L \in SUBSET IngredientIds, NEW t \in {FALSE, Cardinality(L) = 1},
             MStart(r, "createDish", [MIdle EXCEPT !.pc = "line", !.list = L, !.todo = L, !.twice = t])
      PROVE  MenuInv'
  <2> DEFINE q == [MIdle EXCEPT !.pc = "line", !.list = L, !.todo = L, !.twice = t]
             x == [q EXCEPT !.op = "createDish"]
  <2>1. t \in BOOLEAN
    BY <1>1
  <2>2. /\ x \in MenuRequest /\ x.pc = "line" /\ x.op = "createDish" /\ x.list = L /\ x.todo = L
        /\ x.new = {} /\ x.gone = {}
    BY <2>1, MenuIdle DEF MenuRequest, AllMenuOps, MIdle
  <2>3. MStart(r, "createDish", q)
    BY <1>1
  <2> HIDE DEF x
  <2>4. MenuTarget(x) /\ MenuReads(x)
    BY <2>2 DEF MenuTarget, MenuReads, Rewrites, OnIngredient, OnDish
  <2> QED BY <2>2, <2>3, <2>4, MenuStartStep DEF x
<1>2. ASSUME NEW d \in Known(dishes), NEW L \in SUBSET IngredientIds,
             NEW t \in {FALSE, Cardinality(L) = 1},
             MStart(r, "setLines", [MIdle EXCEPT !.pc = "delete", !.on = d, !.list = L, !.todo = L,
                                                 !.twice = t, !.rows = RecipeLines(d)])
      PROVE  MenuInv'
  <2> DEFINE q == [MIdle EXCEPT !.pc = "delete", !.on = d, !.list = L, !.todo = L,
                                !.twice = t, !.rows = RecipeLines(d)]
             x == [q EXCEPT !.op = "setLines"]
  <2>0. t \in BOOLEAN /\ d \in Nat
    <3>1. t \in BOOLEAN
      BY <1>2
    <3>2. d \in Nat
      BY DEF MenuInv, MenuTypeOK, Known
    <3> QED BY <3>1, <3>2
  <2>1. RecipeLines(d) \in SUBSET RecipeLine
    BY RecipeLinesType DEF MenuInv
  <2>2. /\ x \in MenuRequest /\ x.pc = "delete" /\ x.op = "setLines" /\ x.on = d
        /\ x.list = L /\ x.todo = L /\ x.new = {} /\ x.gone = {} /\ x.rows = RecipeLines(d)
    BY <2>0, <2>1, MenuIdle DEF MenuRequest, AllMenuOps, MIdle
  <2>3. MStart(r, "setLines", q)
    BY <1>2
  <2> HIDE DEF x
  <2>4. MenuTarget(x) /\ MenuReads(x)
    BY <2>2 DEF MenuTarget, MenuReads, Rewrites, OnIngredient, OnDish
  <2> QED BY <2>2, <2>3, <2>4, MenuStartStep DEF x
<1>3. ASSUME NEW d \in Known(dishes), NEW i \in IngredientIds,
             MStart(r, "addLine", [MIdle EXCEPT !.pc = "line", !.on = d, !.list = {i}, !.todo = {i}])
      PROVE  MenuInv'
  <2> DEFINE q == [MIdle EXCEPT !.pc = "line", !.on = d, !.list = {i}, !.todo = {i}]
             x == [q EXCEPT !.op = "addLine"]
  <2>1. d \in Nat
    BY DEF MenuInv, MenuTypeOK, Known
  <2>2. /\ x \in MenuRequest /\ x.pc = "line" /\ x.op = "addLine" /\ x.on = d
        /\ x.list = {i} /\ x.todo = {i} /\ x.new = {} /\ x.gone = {}
    BY <2>1, MenuIdle DEF MenuRequest, AllMenuOps, MIdle
  <2>3. MStart(r, "addLine", q)
    BY <1>3
  <2> HIDE DEF x
  <2>4. MenuTarget(x) /\ MenuReads(x)
    BY <2>2 DEF MenuTarget, MenuReads, Rewrites, OnIngredient, OnDish
  <2> QED BY <2>2, <2>3, <2>4, MenuStartStep DEF x
<1>4. ASSUME NEW d \in Known(dishes), NEW i \in IngredientIds, recipe[d][i] # 0,
             MStart(r, "removeLine", [MIdle EXCEPT !.pc = "delete", !.on = d,
                                                   !.rows = {<<i, recipe[d][i]>>}])
      PROVE  MenuInv'
  <2> DEFINE q == [MIdle EXCEPT !.pc = "delete", !.on = d, !.rows = {<<i, recipe[d][i]>>}]
             x == [q EXCEPT !.op = "removeLine"]
  <2>1. d \in Nat /\ <<i, recipe[d][i]>> \in RecipeLine
    BY RecipeLinesType DEF MenuInv, MenuTypeOK, Known, RecipeLine
  <2>2. /\ x \in MenuRequest /\ x.pc = "delete" /\ x.op = "removeLine" /\ x.on = d
        /\ x.list = {} /\ x.todo = {} /\ x.new = {} /\ x.gone = {} /\ x.rows = {<<i, recipe[d][i]>>}
    BY <2>1, MenuIdle DEF MenuRequest, AllMenuOps, MIdle
  <2>3. MStart(r, "removeLine", q)
    BY <1>4
  <2> HIDE DEF x
  <2>4. MenuTarget(x)
    BY <2>2 DEF MenuTarget, Rewrites, OnIngredient, OnDish
  <2>5. MenuReads(x)
    BY <1>4, <2>2 DEF MenuReads, Rewrites
  <2> QED BY <2>2, <2>3, <2>4, <2>5, MenuStartStep DEF x
<1> QED BY <1>1, <1>2, <1>3, <1>4 DEF CreateDish, SetLines, AddLine, RemoveLine

LEMMA LinksNumbered == ASSUME MenuTypeOK, NEW l \in Known(links)
                       PROVE  l \in Nat /\ links[l] \in LinkRow
BY DEF MenuTypeOK

LEMMA StartLink ==
    ASSUME MenuInv, NEW r \in Workers, ~Busy(mreq, r),
           DeactivateDish(r) \/ CreateLink(r) \/ UpdateLink(r) \/ DeleteLink(r)
    PROVE  MenuInv'
<1>1. ASSUME NEW d \in Known(dishes),
             MStart(r, "deactivateDish", [MIdle EXCEPT !.pc = "write", !.on = d])
      PROVE  MenuInv'
  <2> DEFINE q == [MIdle EXCEPT !.pc = "write", !.on = d]
             x == [q EXCEPT !.op = "deactivateDish"]
  <2>1. d \in Nat
    BY DEF MenuInv, MenuTypeOK, Known
  <2>2. x \in MenuRequest /\ x.pc = "write" /\ x.op = "deactivateDish" /\ x.on = d
    BY <2>1, MenuIdle DEF MenuRequest, AllMenuOps
  <2>3. MStart(r, "deactivateDish", q)
    BY <1>1
  <2> HIDE DEF x
  <2>4. MenuTarget(x) /\ MenuReads(x)
    BY <2>2 DEF MenuTarget, MenuReads, Rewrites, OnIngredient, OnDish
  <2> QED BY <2>2, <2>3, <2>4, MenuStartStep DEF x
<1>2. ASSUME NEW i \in Known(ingredients), NEW p \in Produits, NEW b \in BOOLEAN,
             \A l \in LinksOf(i) : links[l].produit # p,
             MStart(r, "createLink",
                  [MIdle EXCEPT !.pc = "write", !.on = i, !.produit = p, !.primary = b,
                                !.rows = {l \in LinksOf(i) : links[l].primary}])
      PROVE  MenuInv'
  <2> DEFINE q == [MIdle EXCEPT !.pc = "write", !.on = i, !.produit = p, !.primary = b,
                                !.rows = {l \in LinksOf(i) : links[l].primary}]
             x == [q EXCEPT !.op = "createLink"]
  <2>1. i \in Nat /\ {l \in LinksOf(i) : links[l].primary} \in SUBSET Nat
    BY LinksNumbered DEF MenuInv, MenuTypeOK, Known, LinksOf
  <2>2. /\ x \in MenuRequest /\ x.pc = "write" /\ x.op = "createLink" /\ x.on = i /\ x.produit = p
        /\ x.rows = {l \in LinksOf(i) : links[l].primary}
    BY <2>1, MenuIdle DEF MenuRequest, AllMenuOps
  <2>3. MStart(r, "createLink", q)
    BY <1>2
  <2> HIDE DEF x
  <2>4. MenuTarget(x)
    BY <2>2 DEF MenuTarget, OnIngredient, OnDish
  <2>5. MenuReads(x)
    BY <1>2, <2>2 DEF MenuReads, Rewrites, PrimariesOf
  <2> QED BY <2>2, <2>3, <2>4, <2>5, MenuStartStep DEF x
<1>3. ASSUME NEW l \in Known(links), NEW b \in BOOLEAN,
             MStart(r, "updateLink",
               [MIdle EXCEPT !.pc = "write", !.on = l, !.primary = b, !.loaded = links[l],
                             !.rows = {k \in LinksOf(links[l].ingredient) : links[k].primary}])
      PROVE  MenuInv'
  <2> DEFINE rows == {k \in LinksOf(links[l].ingredient) : links[k].primary}
             q == [MIdle EXCEPT !.pc = "write", !.on = l, !.primary = b, !.loaded = links[l], !.rows = rows]
             x == [q EXCEPT !.op = "updateLink"]
  <2>1. l \in Nat /\ links[l] \in LinkRow /\ rows \in SUBSET Nat
    BY LinksNumbered DEF MenuInv, LinksOf
  <2>2. MStart(r, "updateLink", q)
    BY <1>3
  <2>3. rows = PrimariesOf(links[l].ingredient)
    BY DEF PrimariesOf
  <2> HIDE DEF rows
  <2>4. /\ x \in MenuRequest /\ x.pc = "write" /\ x.op = "updateLink" /\ x.on = l /\ x.loaded = links[l]
        /\ x.rows = rows
    BY <2>1, MenuIdle DEF MenuRequest, AllMenuOps
  <2> HIDE DEF x
  <2>5. MenuTarget(x)
    BY <2>4 DEF MenuTarget, OnIngredient, OnDish
  <2>6. MenuReads(x)
    BY <2>3, <2>4 DEF MenuReads, Rewrites
  <2> QED BY <2>2, <2>4, <2>5, <2>6, MenuStartStep DEF x
<1>4. ASSUME NEW l \in Known(links), MStart(r, "deleteLink", [MIdle EXCEPT !.pc = "write", !.on = l])
      PROVE  MenuInv'
  <2> DEFINE q == [MIdle EXCEPT !.pc = "write", !.on = l]
             x == [q EXCEPT !.op = "deleteLink"]
  <2>1. l \in Nat
    BY LinksNumbered DEF MenuInv
  <2>2. x \in MenuRequest /\ x.pc = "write" /\ x.op = "deleteLink" /\ x.on = l
    BY <2>1, MenuIdle DEF MenuRequest, AllMenuOps
  <2>3. MStart(r, "deleteLink", q)
    BY <1>4
  <2> HIDE DEF x
  <2>4. MenuTarget(x) /\ MenuReads(x)
    BY <2>2 DEF MenuTarget, MenuReads, Rewrites, OnIngredient, OnDish
  <2> QED BY <2>2, <2>3, <2>4, MenuStartStep DEF x
<1> QED BY <1>1, <1>2, <1>3, <1>4 DEF DeactivateDish, CreateLink, UpdateLink, DeleteLink

LEMMA LookUpNameStep ==
    ASSUME MenuInv, NEW r \in Workers, LookUpName(r)
    PROVE  MenuInv'
<1> DEFINE q == mreq[r]
           x == [q EXCEPT !.pc = "write"]
<1>1. q \in MenuRequest /\ MenuTarget(q) /\ q.pc = "name" /\ MKeep
  BY MenuTypes DEF LookUpName, MenuInv
<1>2. CASE MBecome(r, MIdle)
  BY <1>1, <1>2, MFailStep DEF MFail, MEnd
<1>3. CASE Namesakes(q) \ {q.on} = {} /\ MBecome(r, x)
  <2>1. /\ x \in MenuRequest /\ x.pc = "write" /\ x.op = q.op /\ x.on = q.on /\ x.name = q.name
        /\ x.produit = q.produit
    BY <1>1 DEF MenuRequest
  <2>2. Namesakes(x) \subseteq {x.on}
    BY <1>3, <2>1 DEF Namesakes
  <2>3. Busy(mreq, r)
    BY <1>1 DEF Busy
  <2> HIDE DEF x
  <2>4. MenuTarget(x)
    BY <1>1, <2>1 DEF MenuTarget, Rewrites, OnIngredient, OnDish
  <2>5. MenuReads(x)
    BY <1>1, <2>1, <2>2 DEF MenuReads, MenuTarget, Rewrites
  <2> QED BY <1>1, <1>3, <2>1, <2>3, <2>4, <2>5, MenuReadStep DEF MKeep, menuDb, menuHistory, MenuInv, MenuTypeOK
<1> QED BY <1>2, <1>3 DEF LookUpName

LEMMA DeleteLinesStep ==
    ASSUME MenuInv, NEW r \in Workers, DeleteLines(r)
    PROVE  MenuInv'
<1> DEFINE q == mreq[r]
           gone == q.rows \cap RecipeLines(q.on)
           x == [q EXCEPT !.pc = "line", !.gone = gone]
<1>1. q \in MenuRequest /\ MenuTarget(q) /\ q.pc = "delete" /\ MKeep /\ MBecome(r, x) /\ Busy(mreq, r)
  BY MenuTypes DEF DeleteLines, MenuInv, Busy
<1>2. q.op \in {"setLines", "removeLine"} /\ q.on \in Known(dishes)
  BY <1>1 DEF MenuTarget, OnDish
<1>3. gone \in SUBSET RecipeLine
  BY <1>2, RecipeLinesType DEF MenuInv
<1>4. menuInTurn => MenuReads(q)
  BY DEF MenuInv
<1>5. menuInTurn => gone = q.rows
  <2>1. CASE q.op = "setLines"
    BY <1>4, <2>1 DEF MenuReads
  <2>2. CASE q.op = "removeLine"
    BY <1>4, <2>2 DEF MenuReads, RecipeLines
  <2> QED BY <1>2, <2>1, <2>2
<1> HIDE DEF gone
<1>6. /\ x \in MenuRequest /\ x.pc = "line" /\ x.op = q.op /\ x.on = q.on /\ x.gone = gone
      /\ x.list = q.list /\ x.todo = q.todo /\ x.new = q.new /\ x.rows = q.rows
  BY <1>1, <1>3 DEF MenuRequest
<1> HIDE DEF x
<1>7. MenuTarget(x)
  BY <1>2, <1>6 DEF MenuTarget, Rewrites, OnIngredient, OnDish
<1>8. menuInTurn => MenuReads(x)
  BY <1>2, <1>4, <1>5, <1>6 DEF MenuReads, Rewrites
<1> QED BY <1>1, <1>6, <1>7, <1>8, MenuReadStep DEF MKeep, menuDb, menuHistory, MenuInv, MenuTypeOK

LEMMA InsertLineStep ==
    ASSUME MenuInv, NEW r \in Workers, NEW i \in IngredientIds, InsertLine(r, i)
    PROVE  MenuInv'
<1>1. PICK q \in MenuRequest : q = mreq[r]
  BY MenuTypes DEF MenuInv
<1>2. CASE MFail(r)
  BY <1>2, MFailStep
<1>3. PICK n \in Nat : n = lastRecipeLine + 1 /\ n # 0
  BY DEF MenuInv, MenuTypeOK
<1>5. PICK z \in RecipeLine : z = <<i, n>> /\ z[1] = i /\ z[2] = n
  <2>1. <<i, n>> \in RecipeLine
    BY <1>3 DEF RecipeLine
  <2>2. <<i, n>>[1] = i /\ <<i, n>>[2] = n
    OBVIOUS
  <2> QED BY <2>1, <2>2
<1> DEFINE x == [q EXCEPT !.todo = q.todo \ {i}, !.new = q.new \cup {z}]
<1>4. CASE /\ lastRecipeLine' = n /\ MBecome(r, x)
           /\ UNCHANGED <<ingredients, stocked, dishes, recipe, links, lastLink, menuHistory>>
  <2>1. q.pc = "line" /\ i \in q.todo /\ MenuTarget(q) /\ Busy(mreq, r)
    BY <1>1, MenuTypes DEF InsertLine, MenuInv, Busy
  <2>2. /\ x \in MenuRequest /\ x.pc = q.pc /\ x.op = q.op /\ x.on = q.on /\ x.gone = q.gone
        /\ x.list = q.list /\ x.todo = q.todo \ {i} /\ x.new = q.new \cup {z} /\ x.rows = q.rows
    BY DEF MenuRequest
  <2> HIDE DEF x
  <2>3. q.op \in Rewrites
    BY <2>1 DEF MenuTarget
  <2>4. MenuTarget(x)
    BY <2>1, <2>2, <2>3 DEF MenuTarget, Rewrites, OnIngredient, OnDish
  <2>5. menuInTurn => MenuReads(x)
    <3> SUFFICES ASSUME menuInTurn PROVE MenuReads(x)
      OBVIOUS
    <3>1. MenuReads(q)
      BY <1>1 DEF MenuInv
    <3>2. q.todo \subseteq q.list /\ {y[1] : y \in q.new} = q.list \ q.todo /\ \A y \in q.new : y[2] # 0
      BY <2>3, <3>1 DEF MenuReads
    <3>3. {y[1] : y \in x.new} = {y[1] : y \in q.new} \cup {i}
      BY <1>5, <2>2
    <3>4. {y[1] : y \in x.new} = x.list \ x.todo
      BY <2>1, <2>2, <3>2, <3>3
    <3>5. \A y \in x.new : y[2] # 0
      BY <1>3, <1>5, <2>2, <3>2
    <3>6. x.todo \subseteq x.list
      BY <2>2, <3>2
    <3> QED BY <2>1, <2>2, <2>3, <3>1, <3>4, <3>5, <3>6 DEF MenuReads, Rewrites
  <2> QED BY <1>3, <1>4, <2>1, <2>2, <2>4, <2>5, MenuReadStep DEF menuHistory
<1> QED BY <1>1, <1>2, <1>3, <1>4, <1>5 DEF InsertLine

(* An ingredient is saved: what was archived stays so. *)
LEMMA SaveIngredientStep ==
    ASSUME MenuInv, NEW r \in Workers, SaveIngredient(r)
    PROVE  MenuInv'
<1>1. PICK q \in MenuRequest : q = mreq[r]
  BY MenuTypes DEF MenuInv
<1>2. /\ q.pc = "write" /\ Busy(mreq, r) /\ MenuTarget(q) /\ MEnd(r)
      /\ UNCHANGED <<dishes, recipe, lastRecipeLine, links, lastLink, asked, menuInTurn>>
  BY <1>1, MenuTypes DEF SaveIngredient, MenuInv, Busy, menuHistory
<1>3. menuInTurn => MenuReads(q)
  BY <1>1 DEF MenuInv
<1>4. PICK n \in Nat : ingredients \in [1..n -> IngredientRow]
  BY DEF MenuInv, MenuTypeOK
<1>5. menuInTurn => \A i, j \in 1..n : ingredients[i].name = ingredients[j].name => i = j
  BY <1>4 DEF MenuInv, MenuInTurn, NamesOnce, Known
<1> DEFINE Fine == /\ \E m \in Nat : n <= m /\ ingredients' \in [1..m -> IngredientRow]
                   /\ menuInTurn => \A i, j \in Known(ingredients') :
                          ingredients'[i].name = ingredients'[j].name => i = j
<1>6. ASSUME q.op = "createIngredient" PROVE Fine
  <2>1. /\ q.name \in Names
        /\ ingredients' = With(ingredients, NextId(ingredients), [name |-> q.name, active |-> TRUE])
    BY <1>1, <1>2, <1>6 DEF MenuTarget, SaveIngredient
  <2>2. PICK k \in Nat : k = n + 1
    OBVIOUS
  <2>3. /\ ingredients' \in [1..k -> IngredientRow] /\ ingredients'[k].name = q.name
        /\ \A i \in 1..n : ingredients'[i] = ingredients[i]
    BY <1>4, <2>1, <2>2, IngredientAdded
  <2>4. menuInTurn => \A i \in 1..n : ingredients[i].name # q.name
    BY <1>2, <1>3, <1>4, <1>6 DEF MenuReads, MenuTarget, Namesakes, Known
  <2>5. menuInTurn => \A i, j \in 1..k : ingredients'[i].name = ingredients'[j].name => i = j
    <3>1. \A i \in 1..k : i \in 1..n \/ i = k
      BY <2>2
    <3> QED BY <1>5, <2>3, <2>4, <3>1
  <2> QED BY <2>2, <2>3, <2>5 DEF Known
<1>7. ASSUME q.op \in OnIngredient PROVE Fine
  <2>1. q.on \in 1..n
    BY <1>2, <1>4, <1>7 DEF MenuTarget, Known
  <2>2. /\ ingredients' \in [1..n -> IngredientRow]
        /\ \A i \in 1..n : i # q.on => ingredients'[i].name = ingredients[i].name
        /\ ingredients'[q.on].name \in {ingredients[q.on].name} \cup (IF q.op = "updateIngredient" THEN {q.name} ELSE {})
    <3>1. CASE q.op = "updateIngredient"
      <4>1. q.name \in Names
        BY <1>2, <3>1 DEF MenuTarget
      <4>2. ingredients' \in {ingredients, [ingredients EXCEPT ![q.on].name = q.name]}
        BY <1>1, <3>1 DEF SaveIngredient
      <4> QED BY <1>4, <2>1, <3>1, <4>1, <4>2 DEF IngredientRow
    <3>2. CASE q.op = "deactivateIngredient"
      <4>1. ingredients' \in {ingredients, [ingredients EXCEPT ![q.on].active = FALSE]}
        BY <1>1, <3>2 DEF SaveIngredient
      <4> QED BY <1>4, <2>1, <3>2, <4>1 DEF IngredientRow
    <3> QED BY <1>7, <3>1, <3>2 DEF OnIngredient
  <2>3. menuInTurn /\ q.op = "updateIngredient" => \A i \in 1..n : ingredients[i].name = q.name => i = q.on
    BY <1>2, <1>3, <1>4 DEF MenuReads, Namesakes, Known
  <2>4. ASSUME menuInTurn, NEW i \in 1..n, NEW j \in 1..n, ingredients'[i].name = ingredients'[j].name, i # j
        PROVE  FALSE
    <3>1. ASSUME NEW k \in 1..n, k # q.on PROVE ingredients'[k].name # ingredients'[q.on].name
      BY <1>5, <2>1, <2>2, <2>3, <2>4, <3>1
    <3>2. i # q.on /\ j # q.on
      BY <2>4, <3>1
    <3> QED BY <1>5, <2>2, <2>4, <3>2
  <2> QED BY <2>2, <2>4 DEF Known
<1>8. Fine
  BY <1>1, <1>6, <1>7 DEF SaveIngredient, OnIngredient
<1> HIDE DEF Fine
<1>9. PICK m \in Nat : n <= m /\ ingredients' \in [1..m -> IngredientRow]
  BY <1>8 DEF Fine
<1>10. Known(ingredients) \subseteq Known(ingredients')
  BY <1>4, <1>9 DEF Known
<1>11. /\ mreq' \in [Workers -> MenuRequest] /\ \A p \in Workers : MenuTarget(mreq[p])'
       /\ menuInTurn' => OneRequest' /\ \A p \in Workers : MenuReads(mreq[p])'
  BY <1>2, <1>10, MenuDone
<1>12. MenuTypeOK'
  BY <1>2, <1>9, <1>11 DEF MenuInv, MenuTypeOK, Known
<1>13. NamesOnce'
  BY <1>2, <1>8 DEF Fine, NamesOnce, Known
<1>14. RecipeAsAsked' /\ OnePrimary' /\ (menuInTurn' => Known(dishes)' \subseteq Known(asked)')
  BY <1>2 DEF MenuInv, MenuInTurn, RecipeAsAsked, OnePrimary, Known, RecipeLines
<1> QED BY <1>11, <1>12, <1>13, <1>14 DEF MenuInv, MenuInTurn

(* The recipe of a dish once a request commits is what was asked for. *)
LEMMA RewrittenAsAsked ==
    ASSUME MenuTypeOK, NEW q \in MenuRequest, q.op \in Rewrites, MenuReads(q), q.todo = {}, q.pc = "line",
           NEW old \in [IngredientIds -> Nat], NEW was,
           q.op = "createDish" => \A i \in IngredientIds : old[i] = 0,
           q.op # "createDish" => old = recipe[q.on] /\ was = {i \in IngredientIds : old[i] # 0}
    PROVE  /\ Rewritten(q, old) \in [IngredientIds -> Nat]
           /\ {i \in IngredientIds : Rewritten(q, old)[i] # 0}
                = CASE q.op = "addLine" -> was \cup q.list
                    [] q.op = "removeLine" -> was \ {x[1] : x \in q.rows}
                    [] OTHER -> q.list
<1> DEFINE there(i) == \E x \in q.new : x[1] = i
           part(i) == CHOOSE x \in q.new : x[1] = i
           new == Rewritten(q, old)
<1>1. /\ {x[1] : x \in q.new} = q.list /\ (\A x \in q.new : x[2] # 0)
      /\ q.new \subseteq RecipeLine /\ q.list \subseteq IngredientIds
  BY DEF MenuReads, MenuRequest
<1>2. ASSUME NEW i \in IngredientIds, i \in q.list
      PROVE  there(i) /\ part(i)[2] \in Nat /\ part(i)[2] # 0
  <2>1. there(i)
    BY <1>1, <1>2
  <2>2. part(i) \in q.new
    BY <2>1
  <2> QED BY <1>1, <2>1, <2>2 DEF RecipeLine
<1>3. ASSUME NEW i \in IngredientIds, i \notin q.list PROVE ~there(i)
  BY <1>1, <1>3
<1>4. ASSUME NEW i \in IngredientIds
      PROVE  new[i] = IF there(i) THEN part(i)[2] ELSE IF <<i, old[i]>> \in q.gone THEN 0 ELSE old[i]
  BY DEF Rewritten
<1>5. new = [i \in IngredientIds |-> new[i]]
  BY DEF Rewritten
<1> HIDE DEF there, part, new
<1>6. \A i \in IngredientIds : /\ i \in q.list => new[i] \in Nat /\ new[i] # 0
                               /\ i \notin q.list => new[i] = IF <<i, old[i]>> \in q.gone THEN 0 ELSE old[i]
  BY <1>2, <1>3, <1>4
<1>7. new \in [IngredientIds -> Nat]
  <2>1. ASSUME NEW i \in IngredientIds PROVE new[i] \in Nat
    <3>1. CASE i \in q.list
      BY <1>6, <3>1
    <3>2. CASE i \notin q.list
      <4>1. new[i] = 0 \/ new[i] = old[i]
        BY <1>6, <3>2
      <4> QED BY <4>1
    <3> QED BY <3>1, <3>2
  <2> QED BY <1>5, <2>1
<1>8. CASE q.op = "addLine"
  <2>1. q.gone = {}
    BY <1>8 DEF MenuReads
  <2>2. {i \in IngredientIds : new[i] # 0} = was \cup q.list
    BY <1>1, <1>6, <1>8, <2>1
  <2> QED BY <1>7, <1>8, <2>2 DEF new
<1>9. CASE q.op = "removeLine"
  <2>1. q.list = {} /\ q.gone = q.rows
    BY <1>9 DEF MenuReads
  <2>2. PICK j \in IngredientIds : old[j] # 0 /\ q.rows = {<<j, old[j]>>}
    BY <1>9 DEF MenuReads
  <2>3. {x[1] : x \in q.rows} = {j}
    BY <2>2
  <2>4. {i \in IngredientIds : new[i] # 0} = was \ {j}
    BY <1>6, <1>9, <2>1, <2>2
  <2> QED BY <1>7, <1>9, <2>3, <2>4 DEF new
<1>10. CASE q.op = "setLines"
  <2>1. q.gone = RecipeLines(q.on)
    BY <1>10 DEF MenuReads
  <2>2. \A i \in IngredientIds : old[i] # 0 => <<i, old[i]>> \in q.gone
    BY <1>10, <2>1 DEF RecipeLines
  <2>3. \A i \in IngredientIds : new[i] # 0 <=> i \in q.list
    BY <1>6, <2>2
  <2>4. {i \in IngredientIds : new[i] # 0} = q.list
    BY <1>1, <2>3
  <2> QED BY <1>7, <1>10, <2>4 DEF new
<1>11. CASE q.op = "createDish"
  <2>1. q.gone = {}
    BY <1>11 DEF MenuReads
  <2>2. {i \in IngredientIds : new[i] # 0} = q.list
    BY <1>1, <1>6, <1>11, <2>1
  <2> QED BY <1>7, <1>11, <2>2 DEF new
<1> QED BY <1>8, <1>9, <1>10, <1>11 DEF Rewrites

LEMMA LinesOfDish ==
    ASSUME NEW f
    PROVE  {x[1] : x \in {<<i, f[i]>> : i \in {j \in IngredientIds : f[j] # 0}}}
             = {i \in IngredientIds : f[i] # 0}
<1>1. ASSUME NEW i \in IngredientIds, f[i] # 0
      PROVE  i \in {x[1] : x \in {<<k, f[k]>> : k \in {j \in IngredientIds : f[j] # 0}}}
  <2>1. <<i, f[i]>> \in {<<k, f[k]>> : k \in {j \in IngredientIds : f[j] # 0}} /\ <<i, f[i]>>[1] = i
    BY <1>1
  <2> QED BY <2>1
<1>2. ASSUME NEW x \in {<<k, f[k]>> : k \in {j \in IngredientIds : f[j] # 0}}
      PROVE  x[1] \in {i \in IngredientIds : f[i] # 0}
  OBVIOUS
<1> QED BY <1>1, <1>2

LEMMA CommitRecipeStep ==
    ASSUME MenuInv, NEW r \in Workers, CommitRecipe(r)
    PROVE  MenuInv'
<1>1. PICK q \in MenuRequest : q = mreq[r]
  BY MenuTypes DEF MenuInv
<1>2. q.pc = "line" /\ q.todo = {} /\ Busy(mreq, r) /\ MenuTarget(q)
  BY <1>1, MenuTypes DEF CommitRecipe, MenuInv, Busy
<1>3. menuInTurn => MenuReads(q)
  BY <1>1 DEF MenuInv
<1>4. q.op \in Rewrites
  BY <1>2 DEF MenuTarget
<1>5. PICK n \in Nat : dishes \in [1..n -> BOOLEAN] /\ recipe \in [1..n -> [IngredientIds -> Nat]]
  BY DEF MenuInv, MenuTypeOK
<1>6. CASE MFail(r)
  BY <1>6, MFailStep
<1> DEFINE create == q.op = "createDish"
<1>7. PICK d : d = IF create THEN NextId(dishes) ELSE q.on
  OBVIOUS
<1>8. PICK old : old = IF create THEN [i \in IngredientIds |-> 0] ELSE recipe[d]
  OBVIOUS
<1>9. PICK m \in Nat : n <= m /\ d \in 1..m /\ 1..m = 1..n \cup {d}
                       /\ (create => m = n + 1 /\ d = n + 1) /\ (~create => m = n /\ d = q.on)
  <2>1. CASE create
    <3>1. d = n + 1
      BY <1>5, <1>7, <2>1, NumberNext
    <3>2. n + 1 \in Nat /\ 1..(n + 1) = 1..n \cup {n + 1}
      OBVIOUS
    <3> QED BY <2>1, <3>1, <3>2
  <2>2. CASE ~create
    <3>1. d = q.on /\ d \in 1..n
      BY <1>2, <1>4, <1>5, <1>7, <2>2 DEF Rewrites, MenuTarget, OnDish, Known
    <3> QED BY <2>2, <3>1
  <2> QED BY <2>1, <2>2
<1>10. old \in [IngredientIds -> Nat]
  BY <1>5, <1>8, <1>9
<1>11. PICK new : new = Rewritten(q, old)
  OBVIOUS
<1>12. new \in [IngredientIds -> Nat]
  <2>1. ASSUME NEW i \in IngredientIds PROVE new[i] \in Nat
    <3>1. CASE \E x \in q.new : x[1] = i
      <4>1. (CHOOSE x \in q.new : x[1] = i) \in RecipeLine
        BY <3>1 DEF MenuRequest
      <4> QED BY <1>11, <3>1, <4>1 DEF Rewritten, RecipeLine
    <3>2. CASE ~ \E x \in q.new : x[1] = i
      BY <1>10, <1>11, <3>2 DEF Rewritten
    <3> QED BY <3>1, <3>2
  <2> QED BY <1>11, <2>1 DEF Rewritten
<1>13. CASE /\ dishes' = IF create THEN With(dishes, d, TRUE) ELSE dishes
            /\ recipe' = With(recipe, d, new)
            /\ asked' = IF menuInTurn THEN With(asked, d, AskedFor(q)) ELSE asked
            /\ MEnd(r)
            /\ UNCHANGED <<ingredients, stocked, lastRecipeLine, links, lastLink, menuInTurn>>
  <2>1. dishes' \in [1..m -> BOOLEAN]
    <3>1. CASE create
      BY <1>5, <1>9, <1>13, <3>1 DEF With
    <3>2. CASE ~create
      BY <1>5, <1>9, <1>13, <3>2
    <3> QED BY <3>1, <3>2
  <2>2. /\ recipe' \in [1..m -> [IngredientIds -> Nat]] /\ recipe'[d] = new
        /\ \A e \in 1..m : e # d => e \in 1..n /\ recipe'[e] = recipe[e]
    BY <1>5, <1>9, <1>12, <1>13 DEF With
  <2>3. Known(dishes) \subseteq Known(dishes') /\ Known(dishes') = 1..m
    BY <1>5, <1>9, <2>1 DEF Known
  <2>4. /\ mreq' \in [Workers -> MenuRequest] /\ \A p \in Workers : MenuTarget(mreq[p])'
        /\ menuInTurn' => OneRequest' /\ \A p \in Workers : MenuReads(mreq[p])'
    BY <1>2, <1>13, <2>3, MenuDone
  <2>5. MenuTypeOK'
    BY <1>13, <2>1, <2>2, <2>4 DEF MenuInv, MenuTypeOK, Known
  <2>6. ASSUME menuInTurn
        PROVE  Known(dishes') \subseteq Known(asked')
               /\ \A e \in 1..m : {i \in IngredientIds : recipe'[e][i] # 0} = asked'[e]
    <3>1. 1..n \subseteq DOMAIN asked
      BY <1>5, <2>6 DEF MenuInv, Known
    <3>2. \A e \in 1..n : {i \in IngredientIds : recipe[e][i] # 0} = asked[e]
      <4>1. \A e \in 1..n : {x[1] : x \in RecipeLines(e)} = asked[e]
        BY <1>5, <2>6 DEF MenuInv, MenuInTurn, RecipeAsAsked, Known
      <4> QED BY <4>1, LinesOfDish DEF RecipeLines
    <3>3. /\ DOMAIN asked' = DOMAIN asked \cup {d} /\ asked'[d] = AskedFor(q)
          /\ \A e \in DOMAIN asked : e # d => asked'[e] = asked[e]
      BY <1>13, <2>6 DEF With
    <3>4. {i \in IngredientIds : new[i] # 0} = AskedFor(q)
      <4>1. create => \A i \in IngredientIds : old[i] = 0
        BY <1>8
      <4>2. ~create => old = recipe[q.on] /\ asked[q.on] = {i \in IngredientIds : old[i] # 0}
        BY <1>8, <1>9, <3>2
      <4>3. PICK was : was = asked[q.on]
        OBVIOUS
      <4>4. {i \in IngredientIds : Rewritten(q, old)[i] # 0}
                = CASE q.op = "addLine" -> was \cup q.list
                    [] q.op = "removeLine" -> was \ {x[1] : x \in q.rows}
                    [] OTHER -> q.list
        BY <1>2, <1>3, <1>4, <1>10, <2>6, <4>1, <4>2, <4>3, RewrittenAsAsked DEF MenuInv
      <4> QED BY <1>11, <4>3, <4>4 DEF AskedFor
    <3>5. \A e \in 1..m : {i \in IngredientIds : recipe'[e][i] # 0} = asked'[e]
      BY <2>2, <3>1, <3>2, <3>3, <3>4
    <3>6. DOMAIN asked \subseteq DOMAIN asked' /\ 1..m \subseteq DOMAIN asked'
      BY <1>9, <3>1, <3>3
    <3> QED BY <2>3, <3>5, <3>6 DEF Known
  <2>7. RecipeAsAsked'
    <3>1. ASSUME NEW e PROVE {x[1] : x \in RecipeLines(e)'} = {i \in IngredientIds : recipe'[e][i] # 0}
      BY LinesOfDish DEF RecipeLines
    <3> QED BY <1>13, <2>3, <2>6, <3>1 DEF RecipeAsAsked, Known
  <2>8. NamesOnce' /\ OnePrimary'
    BY <1>13 DEF MenuInv, MenuInTurn, NamesOnce, OnePrimary, Known
  <2> QED BY <1>13, <2>4, <2>5, <2>6, <2>7, <2>8 DEF MenuInv, MenuInTurn, Known
<1> QED BY <1>1, <1>6, <1>7, <1>8, <1>11, <1>13 DEF CommitRecipe

LEMMA SaveDishStep ==
    ASSUME MenuInv, NEW r \in Workers, SaveDish(r)
    PROVE  MenuInv'
<1>1. /\ Busy(mreq, r) /\ MEnd(r) /\ dishes' = [dishes EXCEPT ![mreq[r].on] = FALSE]
      /\ UNCHANGED <<ingredients, recipe, lastRecipeLine, links, lastLink, asked, menuInTurn>>
  BY DEF SaveDish, Busy, menuHistory
<1>2. PICK n \in Nat : dishes \in [1..n -> BOOLEAN] /\ recipe \in [1..n -> [IngredientIds -> Nat]]
  BY DEF MenuInv, MenuTypeOK
<1>3. dishes' \in [1..n -> BOOLEAN] /\ Known(dishes') = Known(dishes)
  BY <1>1, <1>2 DEF Known
<1>4. /\ mreq' \in [Workers -> MenuRequest] /\ \A p \in Workers : MenuTarget(mreq[p])'
      /\ menuInTurn' => OneRequest' /\ \A p \in Workers : MenuReads(mreq[p])'
  BY <1>1, <1>3, MenuDone
<1>5. MenuTypeOK'
  BY <1>1, <1>2, <1>3, <1>4 DEF MenuInv, MenuTypeOK, Known
<1>6. MenuInTurn' /\ (menuInTurn' => Known(dishes)' \subseteq Known(asked)')
  BY <1>1, <1>3 DEF MenuInv, MenuInTurn, NamesOnce, RecipeAsAsked, OnePrimary, Known, RecipeLines
<1> QED BY <1>4, <1>5, <1>6 DEF MenuInv

(* A link that a request clears is the same link, and not primary. *)
LEMMA UnsetRows ==
    ASSUME MenuTypeOK, NEW q
    PROVE  /\ Unset(q) \in [Known(links) -> LinkRow]
           /\ \A l \in Known(links) :
                 /\ Unset(q)[l].ingredient = links[l].ingredient /\ Unset(q)[l].produit = links[l].produit
                 /\ Unset(q)[l].primary = (IF l \in Cleared(q) THEN FALSE ELSE links[l].primary)
<1>1. ASSUME NEW l \in Known(links)
      PROVE  /\ Unset(q)[l] \in LinkRow
             /\ Unset(q)[l].ingredient = links[l].ingredient /\ Unset(q)[l].produit = links[l].produit
             /\ Unset(q)[l].primary = (IF l \in Cleared(q) THEN FALSE ELSE links[l].primary)
  <2>1. links[l] \in LinkRow
    BY LinksNumbered
  <2> QED BY <2>1 DEF Unset, LinkRow
<1> QED BY <1>1 DEF Unset

(* The links change, and with them no ingredient and no dish. *)
LEMMA LinksChange ==
    ASSUME MenuInv, NEW r \in Workers, Busy(mreq, r), MEnd(r),
           UNCHANGED <<ingredients, stocked, dishes, recipe, lastRecipeLine, menuHistory>>,
           lastLink' \in Nat, Known(links') \subseteq 1..lastLink', links' \in [Known(links') -> LinkRow],
           OnePrimary'
    PROVE  MenuInv'
<1>1. UNCHANGED <<ingredients, dishes, recipe, lastRecipeLine, asked, menuInTurn>>
  BY DEF menuHistory
<1>2. /\ mreq' \in [Workers -> MenuRequest] /\ \A p \in Workers : MenuTarget(mreq[p])'
      /\ menuInTurn' => OneRequest' /\ \A p \in Workers : MenuReads(mreq[p])'
  BY <1>1, MenuDone
<1>3. MenuTypeOK'
  BY <1>1, <1>2 DEF MenuInv, MenuTypeOK, Known
<1>4. NamesOnce' /\ RecipeAsAsked' /\ (menuInTurn' => Known(dishes)' \subseteq Known(asked)')
  BY <1>1 DEF MenuInv, MenuInTurn, NamesOnce, RecipeAsAsked, Known, RecipeLines
<1> QED BY <1>2, <1>3, <1>4 DEF MenuInv, MenuInTurn

LEMMA SaveNewLinkStep ==
    ASSUME MenuInv, NEW r \in Workers, SaveNewLink(r)
    PROVE  MenuInv'
<1>1. PICK q \in MenuRequest : q = mreq[r]
  BY MenuTypes DEF MenuInv
<1>2. q.pc = "write" /\ q.op = "createLink" /\ Busy(mreq, r) /\ MenuTarget(q)
  BY <1>1, MenuTypes DEF SaveNewLink, MenuInv, Busy
<1>3. CASE MFail(r)
  BY <1>3, MFailStep
<1>4. PICK n \in Nat : n = lastLink + 1 /\ n \notin Known(links) /\ Known(links) \cup {n} \subseteq 1..n
  BY DEF MenuInv, MenuTypeOK
<1>5. PICK row \in LinkRow :
          /\ row = [ingredient |-> q.on, produit |-> q.produit, primary |-> q.primary]
          /\ row.ingredient = q.on /\ row.produit = q.produit /\ row.primary = q.primary
  <2>1. q.on \in Nat /\ q.produit \in Produits /\ q.primary \in BOOLEAN
    BY <1>2 DEF MenuRequest, MenuTarget
  <2>2. [ingredient |-> q.on, produit |-> q.produit, primary |-> q.primary] \in LinkRow
    BY <2>1 DEF LinkRow
  <2> QED BY <2>2
<1>6. PICK unset \in [Known(links) -> LinkRow] :
          /\ unset = Unset(q)
          /\ \A l \in Known(links) :
                /\ unset[l].ingredient = links[l].ingredient /\ unset[l].produit = links[l].produit
                /\ unset[l].primary = (IF l \in Cleared(q) THEN FALSE ELSE links[l].primary)
  BY UnsetRows DEF MenuInv
<1>7. CASE /\ lastLink' = n /\ links' = With(unset, n, row) /\ MEnd(r)
           /\ UNCHANGED <<ingredients, stocked, dishes, recipe, lastRecipeLine, menuHistory>>
  <2>1. /\ links' \in [Known(links) \cup {n} -> LinkRow] /\ links'[n] = row
        /\ \A l \in Known(links) : links'[l] = unset[l]
    BY <1>4, <1>7 DEF With
  <2>2. ASSUME menuInTurn, NEW k \in Known(links), NEW l \in Known(links), k # l,
               links[k].ingredient = links[l].ingredient
        PROVE  links[k].produit # links[l].produit /\ ~(links[k].primary /\ links[l].primary)
    BY <2>2 DEF MenuInv, MenuInTurn, OnePrimary
  <2>3. ASSUME menuInTurn, NEW l \in Known(links), links[l].ingredient = q.on
        PROVE  links[l].produit # q.produit /\ ~(q.primary /\ unset[l].primary)
    <3>1. MenuReads(q)
      BY <1>1, <2>3 DEF MenuInv
    <3>2. l \in LinksOf(q.on)
      BY <2>3 DEF LinksOf
    <3>3. links[l].primary => l \in q.rows
      BY <1>2, <3>1, <3>2 DEF MenuReads, PrimariesOf
    <3>4. q.primary => Cleared(q) = q.rows
      BY <1>2 DEF Cleared
    <3> QED BY <1>2, <1>6, <3>1, <3>2, <3>3, <3>4 DEF MenuReads
  <2>4. OnePrimary'
    <3> SUFFICES ASSUME menuInTurn, NEW k \in Known(links) \cup {n}, NEW l \in Known(links) \cup {n},
                        k # l, links'[k].ingredient = links'[l].ingredient
                 PROVE  links'[k].produit # links'[l].produit /\ ~(links'[k].primary /\ links'[l].primary)
      BY <1>7, <2>1 DEF OnePrimary, Known, menuHistory
    <3>1. CASE k # n /\ l # n
      <4>1. k \in Known(links) /\ l \in Known(links) /\ links'[k] = unset[k] /\ links'[l] = unset[l]
        BY <2>1, <3>1
      <4>2. links[k].ingredient = links[l].ingredient
        BY <1>6, <4>1
      <4>3. /\ unset[k].primary => links[k].primary
            /\ unset[l].primary => links[l].primary
        BY <1>6, <4>1
      <4>4. links[k].produit # links[l].produit /\ ~(links[k].primary /\ links[l].primary)
        BY <2>2, <4>1, <4>2
      <4>5. links'[k].produit # links'[l].produit
        BY <1>6, <4>1, <4>4
      <4> QED BY <4>1, <4>3, <4>4, <4>5
    <3>2. CASE k = n
      <4>1. l \in Known(links) /\ links'[k] = row /\ links'[l] = unset[l]
        BY <2>1, <3>2
      <4>2. links[l].ingredient = q.on
        <5>1. unset[l].ingredient = q.on
          BY <1>5, <4>1
        <5> QED BY <1>6, <4>1, <5>1
      <4>3. links[l].produit # q.produit /\ ~(q.primary /\ unset[l].primary)
        BY <2>3, <4>1, <4>2
      <4>4. unset[l].produit # row.produit /\ ~(row.primary /\ unset[l].primary)
        BY <1>5, <1>6, <4>1, <4>3
      <4> QED BY <4>1, <4>4
    <3>3. CASE l = n
      <4>1. k \in Known(links) /\ links'[l] = row /\ links'[k] = unset[k]
        BY <2>1, <3>3
      <4>2. links[k].ingredient = q.on
        <5>1. unset[k].ingredient = q.on
          BY <1>5, <4>1
        <5> QED BY <1>6, <4>1, <5>1
      <4>3. links[k].produit # q.produit /\ ~(q.primary /\ unset[k].primary)
        BY <2>3, <4>1, <4>2
      <4>4. unset[k].produit # row.produit /\ ~(row.primary /\ unset[k].primary)
        BY <1>5, <1>6, <4>1, <4>3
      <4> QED BY <4>1, <4>4
    <3> QED BY <3>1, <3>2, <3>3
  <2>5. Known(links') = Known(links) \cup {n}
    BY <2>1 DEF Known
  <2> QED BY <1>2, <1>4, <1>7, <2>1, <2>4, <2>5, LinksChange
<1> QED BY <1>1, <1>3, <1>4, <1>5, <1>6, <1>7 DEF SaveNewLink

LEMMA SaveLinkStep ==
    ASSUME MenuInv, NEW r \in Workers, SaveLink(r)
    PROVE  MenuInv'
<1>1. PICK q \in MenuRequest : q = mreq[r]
  BY MenuTypes DEF MenuInv
<1>2. q.pc = "write" /\ q.op = "updateLink" /\ Busy(mreq, r)
  BY <1>1 DEF SaveLink, Busy
<1>3. CASE MFail(r)
  BY <1>3, MFailStep
<1>4. PICK changed : changed = Cleared(q) \cup (IF q.primary # q.loaded.primary THEN {q.on} ELSE {})
  OBVIOUS
<1>5. PICK unset \in [Known(links) -> LinkRow] :
          /\ unset = Unset(q)
          /\ \A l \in Known(links) :
                /\ unset[l].ingredient = links[l].ingredient /\ unset[l].produit = links[l].produit
                /\ unset[l].primary = (IF l \in Cleared(q) THEN FALSE ELSE links[l].primary)
  BY UnsetRows DEF MenuInv
<1>6. CASE /\ links' = [l \in Known(links) |->
                          IF l = q.on /\ l \in changed THEN [links[l] EXCEPT !.primary = q.primary] ELSE unset[l]]
           /\ MEnd(r)
           /\ UNCHANGED <<ingredients, stocked, dishes, recipe, lastRecipeLine, lastLink, menuHistory>>
  <2>1. ASSUME NEW l \in Known(links)
        PROVE  /\ links'[l] \in LinkRow
               /\ links'[l].ingredient = links[l].ingredient /\ links'[l].produit = links[l].produit
               /\ links'[l].primary = IF l = q.on /\ l \in changed THEN q.primary ELSE unset[l].primary
    <3>1. links[l] \in LinkRow /\ unset[l] \in LinkRow /\ q.primary \in BOOLEAN
      BY <1>1, LinksNumbered DEF MenuInv, MenuRequest
    <3>2. links'[l] = IF l = q.on /\ l \in changed THEN [links[l] EXCEPT !.primary = q.primary] ELSE unset[l]
      BY <1>6
    <3>3. [links[l] EXCEPT !.primary = q.primary] \in LinkRow
      BY <3>1 DEF LinkRow
    <3> QED BY <1>5, <3>1, <3>2, <3>3 DEF LinkRow
  <2>2. links' \in [Known(links) -> LinkRow] /\ Known(links') = Known(links)
    <3>1. DOMAIN links' = Known(links) /\ links' = [l \in DOMAIN links' |-> links'[l]]
      BY <1>6
    <3> QED BY <2>1, <3>1 DEF Known
  <2>3. ASSUME menuInTurn
        PROVE  /\ q.on \in Known(links) /\ links'[q.on].primary = q.primary
               /\ \A l \in Known(links) : l # q.on =>
                     /\ links'[l].primary => links[l].primary
                     /\ q.primary /\ links[l].ingredient = links[q.on].ingredient => ~links'[l].primary
    <3>1. /\ q.on \in Known(links) /\ q.loaded = links[q.on]
          /\ q.rows = PrimariesOf(links[q.on].ingredient)
      BY <1>1, <1>2, <2>3 DEF MenuInv, MenuReads
    <3>2. Cleared(q) = IF q.primary THEN q.rows \ {q.on} ELSE {}
      BY <1>2 DEF Cleared
    <3>3. links[q.on].primary \in BOOLEAN /\ q.primary \in BOOLEAN
      BY <1>1, <3>1, LinksNumbered DEF MenuInv, MenuRequest, LinkRow
    <3>4. links'[q.on].primary = q.primary
      <4>1. q.on \notin Cleared(q) /\ unset[q.on].primary = links[q.on].primary
        BY <1>5, <3>1, <3>2
      <4>2. q.on \in changed <=> q.primary # links[q.on].primary
        BY <1>4, <3>1, <4>1
      <4> QED BY <2>1, <3>1, <4>1, <4>2
    <3>5. ASSUME NEW l \in Known(links), l # q.on PROVE links'[l].primary => links[l].primary
      BY <1>5, <2>1, <3>5
    <3>6. ASSUME NEW l \in Known(links), l # q.on, q.primary,
                 links[l].ingredient = links[q.on].ingredient
          PROVE  ~links'[l].primary
      <4>1. links[l].primary => l \in Cleared(q)
        BY <3>1, <3>2, <3>6 DEF PrimariesOf, LinksOf
      <4> QED BY <1>5, <2>1, <3>6, <4>1
    <3> QED BY <3>1, <3>4, <3>5, <3>6
  <2>4. OnePrimary'
    <3> SUFFICES ASSUME menuInTurn, NEW k \in Known(links), NEW l \in Known(links),
                        k # l, links'[k].ingredient = links'[l].ingredient
                 PROVE  links'[k].produit # links'[l].produit /\ ~(links'[k].primary /\ links'[l].primary)
      BY <1>6, <2>2 DEF OnePrimary, Known, menuHistory
    <3>1. links[k].produit # links[l].produit /\ ~(links[k].primary /\ links[l].primary)
      BY <2>1 DEF MenuInv, MenuInTurn, OnePrimary
    <3>2. ~(links'[k].primary /\ links'[l].primary)
      <4>1. CASE k # q.on /\ l # q.on
        BY <2>3, <3>1, <4>1
      <4>2. CASE k = q.on
        BY <2>1, <2>3, <4>2
      <4>3. CASE l = q.on
        BY <2>1, <2>3, <4>3
      <4> QED BY <4>1, <4>2, <4>3
    <3> QED BY <2>1, <3>1, <3>2
  <2>5. lastLink' \in Nat /\ Known(links') \subseteq 1..lastLink'
    BY <1>6, <2>2 DEF MenuInv, MenuTypeOK
  <2> QED BY <1>2, <1>6, <2>2, <2>4, <2>5, LinksChange
<1> QED BY <1>1, <1>3, <1>4, <1>5, <1>6 DEF SaveLink

LEMMA RemoveLinkStep ==
    ASSUME MenuInv, NEW r \in Workers, RemoveLink(r)
    PROVE  MenuInv'
<1>1. PICK left : left = Known(links) \ {mreq[r].on}
  OBVIOUS
<1>2. /\ Busy(mreq, r) /\ MEnd(r) /\ links' = [l \in left |-> links[l]]
      /\ UNCHANGED <<ingredients, stocked, dishes, recipe, lastRecipeLine, lastLink, menuHistory>>
  BY <1>1 DEF RemoveLink, Busy
<1>3. links' \in [left -> LinkRow] /\ Known(links') = left /\ \A l \in left : links'[l] = links[l]
  BY <1>1, <1>2, LinksNumbered DEF MenuInv, Known
<1>4. OnePrimary'
  BY <1>1, <1>2, <1>3 DEF MenuInv, MenuInTurn, OnePrimary, Known, menuHistory
<1>5. lastLink' \in Nat /\ Known(links') \subseteq 1..lastLink'
  BY <1>1, <1>2, <1>3 DEF MenuInv, MenuTypeOK
<1> QED BY <1>2, <1>3, <1>4, <1>5, LinksChange

-----------------------------------------------------------------------------
LEMMA MenuInitInv == MenuInit => MenuInv
<1> SUFFICES ASSUME MenuInit PROVE MenuInv
  OBVIOUS
<1>1. Known(ingredients) = {} /\ Known(dishes) = {} /\ Known(links) = {} /\ 1..0 = {}
  BY DEF MenuInit, Known
<1>2. MenuTypeOK
  <2>1. ingredients \in [1..0 -> IngredientRow] /\ dishes \in [1..0 -> BOOLEAN]
        /\ recipe \in [1..0 -> [IngredientIds -> Nat]] /\ links \in [Known(links) -> LinkRow]
    BY <1>1 DEF MenuInit, Known
  <2>2. mreq \in [Workers -> MenuRequest] /\ \A r \in Workers : mreq[r] = MIdle
    BY MenuIdle DEF MenuInit
  <2> QED BY <1>1, <2>1, <2>2, MenuIdleFits DEF MenuTypeOK, MenuInit
<1>3. OneRequest /\ \A r \in Workers : MenuReads(mreq[r])
  BY MenuIdle, MenuIdleFits DEF OneRequest, Busy, MenuInit
<1>4. MenuInTurn
  BY <1>1 DEF MenuInTurn, NamesOnce, RecipeAsAsked, OnePrimary
<1> QED BY <1>1, <1>2, <1>3, <1>4 DEF MenuInv

LEMMA MenuStepInv == MenuInv /\ [MenuNext]_menuVars => MenuInv'
<1> SUFFICES ASSUME MenuInv, [MenuNext]_menuVars PROVE MenuInv'
  OBVIOUS
<1>1. ASSUME NEW r \in Workers, MStep(r) PROVE MenuInv'
  <2>1. CASE MArrive(r)
    BY <2>1, StartIngredient, StartRecipe, StartLink DEF MArrive
  <2>2. CASE MAbort(r) \/ MDeadlock(r)
    BY <2>2, MFailStep DEF MAbort, MDeadlock
  <2>3. CASE LookUpName(r) \/ SaveIngredient(r)
    BY <2>3, LookUpNameStep, SaveIngredientStep
  <2>4. CASE DeleteLines(r) \/ (\E i \in IngredientIds : InsertLine(r, i)) \/ CommitRecipe(r) \/ SaveDish(r)
    BY <2>4, DeleteLinesStep, InsertLineStep, CommitRecipeStep, SaveDishStep
  <2>5. CASE SaveNewLink(r) \/ SaveLink(r) \/ RemoveLink(r)
    BY <2>5, SaveNewLinkStep, SaveLinkStep, RemoveLinkStep
  <2> QED BY <1>1, <2>1, <2>2, <2>3, <2>4, <2>5 DEF MStep
<1>2. CASE UNCHANGED menuVars
  <2>1. UNCHANGED <<ingredients, dishes, recipe, lastRecipeLine, links, lastLink, asked, menuInTurn, mreq>>
    BY <1>2 DEF menuVars, menuDb, menuHistory
  <2> QED BY <2>1 DEF MenuInv, MenuTypeOK, MenuTarget, MenuReads, OneRequest, Busy, MenuInTurn, NamesOnce,
                      RecipeAsAsked, OnePrimary, Known, RecipeLines, PrimariesOf, LinksOf, Namesakes
<1> QED BY <1>1, <1>2 DEF MenuNext

LEMMA MenuAlways == MenuSpec => []MenuInv
BY MenuInitInv, MenuStepInv, PTL DEF MenuSpec

(* One ingredient at most is archived or changed by a step, and a new one  *)
(* takes a number that none had.                                           *)
LEMMA ArchivedStep ==
    ASSUME MenuInv, MenuNext
    PROVE  \A i \in Known(ingredients) : ~ingredients[i].active => ~ingredients'[i].active
<1> SUFFICES ASSUME NEW i \in Known(ingredients), ~ingredients[i].active PROVE ~ingredients'[i].active
  OBVIOUS
<1>1. PICK n \in Nat : ingredients \in [1..n -> IngredientRow]
  BY DEF MenuInv, MenuTypeOK
<1>2. i \in 1..n /\ ingredients[i] \in IngredientRow
  BY <1>1 DEF Known
<1>3. ASSUME NEW r \in Workers, SaveIngredient(r) PROVE ~ingredients'[i].active
  <2>1. PICK q \in MenuRequest : q = mreq[r]
    BY MenuTypes DEF MenuInv
  <2>2. MenuTarget(q)
    BY <2>1, MenuTypes DEF MenuInv
  <2>3. CASE q.op = "createIngredient"
    <3>1. /\ q.name \in Names
          /\ ingredients' = With(ingredients, NextId(ingredients), [name |-> q.name, active |-> TRUE])
      BY <1>3, <2>1, <2>2, <2>3 DEF MenuTarget, SaveIngredient
    <3>2. ingredients'[i] = ingredients[i]
      BY <1>1, <1>2, <3>1, IngredientAdded
    <3> QED BY <3>2
  <2>4. CASE q.op = "updateIngredient"
    <3>1. ingredients' \in {ingredients, [ingredients EXCEPT ![q.on].name = q.name]}
      BY <1>3, <2>1, <2>4 DEF SaveIngredient
    <3> QED BY <1>1, <1>2, <3>1 DEF IngredientRow
  <2>5. CASE q.op = "deactivateIngredient"
    <3>1. ingredients' \in {ingredients, [ingredients EXCEPT ![q.on].active = FALSE]}
      BY <1>3, <2>1, <2>5 DEF SaveIngredient
    <3> QED BY <1>1, <1>2, <3>1 DEF IngredientRow
  <2> QED BY <1>3, <2>1, <2>3, <2>4, <2>5 DEF SaveIngredient
<1>4. ASSUME NEW r \in Workers, MStep(r), ~SaveIngredient(r) PROVE UNCHANGED ingredients
  <2>1. CASE MArrive(r)
    BY <2>1 DEF MArrive, CreateIngredient, UpdateIngredient, DeactivateIngredient, CreateDish,
                DeactivateDish, SetLines, AddLine, RemoveLine, CreateLink, UpdateLink, DeleteLink, MStart, menuDb
  <2>2. CASE MAbort(r) \/ MDeadlock(r) \/ LookUpName(r) \/ DeleteLines(r)
    BY <2>2 DEF MAbort, MDeadlock, LookUpName, DeleteLines, MFail, MKeep, menuDb
  <2>3. CASE (\E j \in IngredientIds : InsertLine(r, j)) \/ CommitRecipe(r) \/ SaveDish(r)
    BY <2>3 DEF InsertLine, CommitRecipe, SaveDish, MFail, MKeep, menuDb
  <2>4. CASE SaveNewLink(r) \/ SaveLink(r) \/ RemoveLink(r)
    BY <2>4 DEF SaveNewLink, SaveLink, RemoveLink, MFail, MKeep, menuDb
  <2> QED BY <1>4, <2>1, <2>2, <2>3, <2>4 DEF MStep
<1> QED BY <1>3, <1>4 DEF MenuNext

(* An ingredient that was archived stays so, whatever the updates under    *)
(* way had loaded before (update of restaurant_ingredient.py writes the    *)
(* columns that differ).                                                   *)
THEOREM ArchivedForGood == MenuSpec => ArchivedStays
<1>1. MenuInv /\ [MenuNext]_menuVars
      => [\A i \in Known(ingredients) : ~ingredients[i].active => ~ingredients'[i].active]_menuVars
  BY ArchivedStep
<1> QED BY <1>1, MenuAlways, PTL DEF MenuSpec, ArchivedStays

-----------------------------------------------------------------------------
(***************************************************************************)
(* The charges.  The columns that an update writes are those that it       *)
(* changes, and it compares the end with the start that it loaded: as long *)
(* as no update has moved the start, that is the start on record.          *)
(***************************************************************************)
ChargeFields == {"montant", "frequency", "date_debut", "date_fin", "is_active"}
ChargeRequest == [pc : {"idle", "load", "write"}, on : Nat, fields : SUBSET ChargeFields,
                  given : Charge \cup {NoCharge}, seen : Charge \cup {NoCharge}]
ChargesTypeOK ==
    /\ today \in Days /\ lastCharge \in Nat /\ charges \in [1..lastCharge -> Charge]
    /\ moved \subseteq 1..lastCharge /\ lastCharge <= MaxCharges
    /\ hreq \in [Workers -> ChargeRequest]
ChargeWork(q) ==
    /\ q.pc # "idle" => q.on \in 1..lastCharge /\ q.given \in Charge
    /\ q.pc = "write" => /\ q.seen \in Charge
                         /\ q.on \notin moved => q.seen.date_debut = charges[q.on].date_debut
ChargesInv == ChargesTypeOK /\ EndUnlessMoved /\ \A r \in Workers : ChargeWork(hreq[r])

LEMMA HIdleType == HIdle \in ChargeRequest /\ ChargeWork(HIdle)
BY DEF HIdle, ChargeRequest, ChargeWork

LEMMA ChargeBecomes ==
    ASSUME ChargesInv, NEW r \in Workers, NEW x \in ChargeRequest, ChargeWork(x), HBecome(r, x), HKeep
    PROVE  ChargesInv'
<1>1. /\ hreq' \in [Workers -> ChargeRequest] /\ hreq'[r] = x
      /\ \A q \in Workers : q # r => hreq'[q] = hreq[q]
  BY DEF HBecome, ChargesInv, ChargesTypeOK
<1>2. UNCHANGED <<today, charges, lastCharge, moved>>
  BY DEF HKeep
<1>3. \A q \in Workers : ChargeWork(hreq'[q])
  BY <1>1 DEF ChargesInv
<1>4. ChargesTypeOK'
  BY <1>1, <1>2 DEF ChargesInv, ChargesTypeOK
<1>5. EndUnlessMoved'
  BY <1>2 DEF ChargesInv, EndUnlessMoved
<1> QED BY <1>2, <1>3, <1>4, <1>5 DEF ChargesInv, ChargeWork

(* A record with the five columns, each of its type, is a charge. *)
LEMMA ColumnsMake ==
    ASSUME NEW f, f = [k \in ChargeFields |-> f[k]],
           f["montant"] \in Montants, f["frequency"] \in Frequencies, f["date_debut"] \in Days,
           f["date_fin"] \in 0..MaxDay, f["is_active"] \in BOOLEAN
    PROVE  f \in Charge
BY DEF Charge, ChargeFields

LEMMA ColumnsOf ==
    ASSUME NEW c \in Charge
    PROVE  /\ DOMAIN c = ChargeFields /\ c = [k \in ChargeFields |-> c[k]]
           /\ c["montant"] \in Montants /\ c["frequency"] \in Frequencies /\ c["date_debut"] \in Days
           /\ c["date_fin"] \in 0..MaxDay /\ c["is_active"] \in BOOLEAN
           /\ c.date_debut = c["date_debut"] /\ c.date_fin = c["date_fin"]
BY DEF Charge, ChargeFields

(* One charge with some of its columns as another has them. *)
LEMMA ColumnsMixed ==
    ASSUME NEW c \in Charge, NEW d \in Charge, NEW F
    PROVE  [k \in ChargeFields |-> IF k \in F THEN d[k] ELSE c[k]] \in Charge
<1> DEFINE f == [k \in ChargeFields |-> IF k \in F THEN d[k] ELSE c[k]]
<1>1. \A k \in ChargeFields : f[k] \in {c[k], d[k]}
  OBVIOUS
<1>2. f = [k \in ChargeFields |-> f[k]]
  OBVIOUS
<1> HIDE DEF f
<1>3. /\ f["montant"] \in Montants /\ f["frequency"] \in Frequencies /\ f["date_debut"] \in Days
      /\ f["date_fin"] \in 0..MaxDay /\ f["is_active"] \in BOOLEAN
  BY <1>1, ColumnsOf DEF ChargeFields
<1>4. f \in Charge
  BY <1>2, <1>3, ColumnsMake
<1> QED BY <1>4 DEF f

LEMMA CreateChargeStep == ASSUME ChargesInv, CreateCharge PROVE ChargesInv'
<1>1. PICK c \in Charge : Valid(c) /\ charges' = Append(charges, c)
  BY DEF CreateCharge
<1>2. UNCHANGED <<today, moved, hreq>> /\ lastCharge' = lastCharge + 1 /\ lastCharge < MaxCharges
  BY DEF CreateCharge
<1>3. lastCharge \in Nat /\ charges \in [1..lastCharge -> Charge] /\ Len(charges) = lastCharge
      /\ charges \in Seq(Charge)
  <2>1. lastCharge \in Nat /\ charges \in [1..lastCharge -> Charge]
    BY DEF ChargesInv, ChargesTypeOK
  <2>2. charges \in Seq(Charge)
    BY <2>1, SeqDef
  <2>3. DOMAIN charges = 1..Len(charges) /\ Len(charges) \in Nat
    BY <2>2, LenProperties
  <2> QED BY <2>1, <2>2, <2>3
<1>4. /\ charges' \in [1..lastCharge' -> Charge] /\ charges'[lastCharge'] = c
      /\ \A k \in 1..lastCharge : charges'[k] = charges[k]
  <2>1. /\ Append(charges, c) \in Seq(Charge) /\ Len(Append(charges, c)) = Len(charges) + 1
        /\ \A k \in 1..Len(charges) : Append(charges, c)[k] = charges[k]
        /\ Append(charges, c)[Len(charges) + 1] = c
    BY <1>3, AppendProperties
  <2>2. charges' \in [1..Len(charges') -> Charge]
    BY <1>1, <2>1, LenProperties, ElementOfSeq
  <2> QED BY <1>1, <1>2, <1>3, <2>1, <2>2
<1>5. ChargesTypeOK'
  BY <1>2, <1>3, <1>4, ChargesAssumption DEF ChargesInv, ChargesTypeOK
<1>6. EndUnlessMoved'
  <2>1. \A k \in 1..lastCharge' : k \in 1..lastCharge \/ k = lastCharge'
    BY <1>2, <1>3
  <2> QED BY <1>1, <1>2, <1>4, <2>1 DEF ChargesInv, EndUnlessMoved
<1>7. \A r \in Workers : ChargeWork(hreq[r])'
  <2>1. \A k \in 1..lastCharge : k \in 1..lastCharge' /\ charges'[k].date_debut = charges[k].date_debut
    BY <1>2, <1>3, <1>4
  <2> QED BY <1>2, <2>1 DEF ChargesInv, ChargeWork
<1> QED BY <1>5, <1>6, <1>7 DEF ChargesInv

LEMMA ChargeRequestStep ==
    ASSUME ChargesInv, NEW r \in Workers, UpdateArrives(r) \/ DeactivateArrives(r) \/ LoadCharge(r)
    PROVE  ChargesInv'
<1>1. \A c \in 1..lastCharge : c \in Nat /\ charges[c] \in Charge
  BY DEF ChargesInv, ChargesTypeOK
<1>2. ASSUME NEW c \in 1..lastCharge, NEW F \in SUBSET ChargeFields, NEW g \in Charge,
             HBecome(r, [HIdle EXCEPT !.pc = "load", !.on = c, !.fields = F, !.given = g]), HKeep
      PROVE  ChargesInv'
  <2> DEFINE x == [HIdle EXCEPT !.pc = "load", !.on = c, !.fields = F, !.given = g]
  <2>1. x \in ChargeRequest /\ x.pc = "load" /\ x.on = c /\ x.given = g
    BY <1>1 DEF HIdle, ChargeRequest
  <2> HIDE DEF x
  <2>2. ChargeWork(x)
    BY <2>1 DEF ChargeWork
  <2> QED BY <1>2, <2>1, <2>2, ChargeBecomes DEF x
<1>3. CASE UpdateArrives(r)
  <2>1. PICK c \in 1..lastCharge, F \in {{"montant", "frequency"}} \cup SUBSET {"date_debut", "date_fin"},
             g \in Charge :
                 HBecome(r, [HIdle EXCEPT !.pc = "load", !.on = c, !.fields = F, !.given = g])
    BY <1>3 DEF UpdateArrives
  <2>2. F \in SUBSET ChargeFields
    BY DEF ChargeFields
  <2> QED BY <1>2, <1>3, <2>1, <2>2 DEF UpdateArrives
<1>4. CASE DeactivateArrives(r)
  <2>1. PICK c \in 1..lastCharge :
                 HBecome(r, [HIdle EXCEPT !.pc = "load", !.on = c, !.fields = {"is_active"},
                                          !.given = [NoCharge EXCEPT !.is_active = FALSE]])
    BY <1>4 DEF DeactivateArrives
  <2>2. NoCharge \in Charge
    BY <1>1, <2>1 DEF NoCharge
  <2>3. PICK g : g = [NoCharge EXCEPT !.is_active = FALSE]
    OBVIOUS
  <2>4. g \in Charge
    BY <2>2, <2>3 DEF Charge
  <2>5. {"is_active"} \in SUBSET ChargeFields
    BY DEF ChargeFields
  <2> QED BY <1>2, <1>4, <2>1, <2>3, <2>4, <2>5 DEF DeactivateArrives
<1>5. CASE LoadCharge(r)
  <2>1. PICK q \in ChargeRequest : q = hreq[r]
    BY DEF ChargesInv, ChargesTypeOK
  <2>2. PICK c : c = charges[q.on]
    OBVIOUS
  <2> DEFINE x == [q EXCEPT !.pc = "write", !.seen = c]
  <2>3. HBecome(r, x) /\ HKeep /\ q.pc = "load" /\ ChargeWork(q)
    BY <1>5, <2>1, <2>2 DEF LoadCharge, ChargesInv
  <2>4. q.on \in 1..lastCharge /\ c \in Charge /\ q.given \in Charge
    BY <1>1, <2>2, <2>3 DEF ChargeWork
  <2>5. x \in ChargeRequest /\ x.pc = "write" /\ x.on = q.on /\ x.given = q.given /\ x.seen = c
    BY <2>4 DEF ChargeRequest
  <2> HIDE DEF x
  <2>6. ChargeWork(x)
    BY <2>2, <2>4, <2>5 DEF ChargeWork
  <2> QED BY <2>3, <2>5, <2>6, ChargeBecomes
<1> QED BY <1>3, <1>4, <1>5

LEMMA WriteChargeStep ==
    ASSUME ChargesInv, NEW r \in Workers, WriteCharge(r)
    PROVE  ChargesInv'
<1>1. PICK q \in ChargeRequest : q = hreq[r]
  BY DEF ChargesInv, ChargesTypeOK
<1>2. /\ HBecome(r, HIdle) /\ UNCHANGED <<today, lastCharge>> /\ q.pc = "write" /\ ChargeWork(q)
  BY <1>1 DEF WriteCharge, ChargesInv
<1>3. q.on \in 1..lastCharge /\ q.seen \in Charge /\ q.given \in Charge /\ charges[q.on] \in Charge
      /\ lastCharge \in Nat
  BY <1>2 DEF ChargeWork, ChargesInv, ChargesTypeOK
<1>4. PICK new : new = [f \in DOMAIN q.seen |-> IF f \in q.fields THEN q.given[f] ELSE q.seen[f]]
  OBVIOUS
<1>5. new \in Charge
  <2>1. PICK s, g, F : s = q.seen /\ g = q.given /\ F = q.fields /\ s \in Charge /\ g \in Charge
    BY <1>3
  <2>2. new = [k \in DOMAIN s |-> IF k \in F THEN g[k] ELSE s[k]]
    BY <1>4, <2>1
  <2>3. DOMAIN s = ChargeFields
    BY <2>1, ColumnsOf
  <2>4. new = [k \in ChargeFields |-> IF k \in F THEN g[k] ELSE s[k]]
    BY <2>2, <2>3
  <2> QED BY <2>1, <2>4, ColumnsMixed
<1>6. PICK changed : changed = {f \in DOMAIN new : new[f] # q.seen[f]}
  OBVIOUS
<1>7. CASE Refused(q.fields, new) /\ UNCHANGED <<charges, moved>>
  BY <1>2, <1>7, HIdleType, ChargeBecomes DEF HKeep
<1>8. CASE /\ ~Refused(q.fields, new)
           /\ charges' = [charges EXCEPT ![q.on] =
                  [f \in DOMAIN charges[q.on] |-> IF f \in changed THEN new[f] ELSE charges[q.on][f]]]
           /\ moved' = IF "date_debut" \in changed THEN moved \cup {q.on} ELSE moved
  <2>1. PICK c : c = [f \in DOMAIN charges[q.on] |-> IF f \in changed THEN new[f] ELSE charges[q.on][f]]
    OBVIOUS
  <2>2. c \in Charge
    <3>1. PICK d \in Charge : d = charges[q.on]
      BY <1>3
    <3>2. c = [f \in DOMAIN d |-> IF f \in changed THEN new[f] ELSE d[f]]
      BY <2>1, <3>1
    <3>3. DOMAIN d = ChargeFields
      BY <3>1, ColumnsOf
    <3>4. c = [k \in ChargeFields |-> IF k \in changed THEN new[k] ELSE d[k]]
      BY <3>2, <3>3
    <3> QED BY <1>5, <3>1, <3>4, ColumnsMixed
  <2>3. /\ charges' \in [1..lastCharge -> Charge] /\ charges'[q.on] = c
        /\ \A k \in 1..lastCharge : k # q.on => charges'[k] = charges[k]
    BY <1>3, <1>8, <2>1, <2>2 DEF ChargesInv, ChargesTypeOK
  <2>4. /\ hreq' \in [Workers -> ChargeRequest] /\ hreq'[r] = HIdle
        /\ \A p \in Workers : p # r => hreq'[p] = hreq[p]
    BY <1>2, HIdleType DEF HBecome, ChargesInv, ChargesTypeOK
  <2>5. ChargesTypeOK'
    BY <1>2, <1>3, <1>8, <2>3, <2>4 DEF ChargesInv, ChargesTypeOK
  <2>6. /\ moved \subseteq moved'
        /\ q.on \notin moved' => /\ q.on \notin moved /\ new.date_debut = q.seen.date_debut
                                 /\ c.date_debut = charges[q.on].date_debut
    <3>1. "date_debut" \notin changed => new["date_debut"] = q.seen["date_debut"]
      BY <1>5, <1>6, ColumnsOf DEF ChargeFields
    <3>2. "date_debut" \notin changed => c["date_debut"] = charges[q.on]["date_debut"]
      BY <1>3, <2>1, ColumnsOf DEF ChargeFields
    <3> QED BY <1>3, <1>5, <1>8, <2>2, <3>1, <3>2, ColumnsOf
  <2>7. ASSUME q.on \notin moved' PROVE Valid(c)
    <3>1. Valid(charges[q.on]) /\ q.seen.date_debut = charges[q.on].date_debut
      BY <1>2, <1>3, <2>6, <2>7 DEF ChargesInv, EndUnlessMoved, ChargeWork
    <3>2. c.date_fin = IF "date_fin" \in changed THEN new.date_fin ELSE charges[q.on].date_fin
      BY <1>3, <1>5, <2>1, <2>2, ColumnsOf DEF ChargeFields
    <3>3. "date_fin" \in changed => "date_fin" \in q.fields
      BY <1>3, <1>4, <1>6
    <3>4. CASE "date_fin" \in changed
      BY <1>8, <2>6, <2>7, <3>1, <3>2, <3>3, <3>4 DEF Refused, Valid
    <3>5. CASE "date_fin" \notin changed
      BY <2>6, <2>7, <3>1, <3>2, <3>5 DEF Valid
    <3> QED BY <3>4, <3>5
  <2>8. EndUnlessMoved'
    BY <1>2, <1>3, <2>3, <2>6, <2>7 DEF ChargesInv, EndUnlessMoved
  <2>9. ASSUME NEW p \in Workers PROVE ChargeWork(hreq[p])'
    <3>1. CASE p = r
      BY <2>4, <3>1, HIdleType DEF ChargeWork, HIdle
    <3>2. CASE p # r
      <4>1. hreq'[p] = hreq[p] /\ ChargeWork(hreq[p])
        BY <2>4, <3>2 DEF ChargesInv
      <4>2. \A k \in 1..lastCharge : k \notin moved' =>
                k \notin moved /\ charges'[k].date_debut = charges[k].date_debut
        BY <2>3, <2>6
      <4> QED BY <1>2, <4>1, <4>2 DEF ChargeWork
    <3> QED BY <3>1, <3>2
  <2> QED BY <2>5, <2>8, <2>9 DEF ChargesInv
<1> QED BY <1>1, <1>4, <1>6, <1>7, <1>8 DEF WriteCharge

LEMMA ChargesInitInv == ChargesInit => ChargesInv
<1> SUFFICES ASSUME ChargesInit PROVE ChargesInv
  OBVIOUS
<1>1. 1..0 = {} /\ 1 \in Days /\ 0 <= MaxCharges
  BY ChargesAssumption DEF Days
<1>2. <<>> \in [1..0 -> Charge]
  OBVIOUS
<1>3. hreq \in [Workers -> ChargeRequest] /\ \A r \in Workers : hreq[r] = HIdle
  BY HIdleType DEF ChargesInit
<1>4. ChargesTypeOK
  BY <1>1, <1>2, <1>3 DEF ChargesTypeOK, ChargesInit
<1> QED BY <1>1, <1>3, <1>4, HIdleType DEF ChargesInv, EndUnlessMoved, ChargesInit

LEMMA ChargesStepInv == ChargesInv /\ [ChargesNext]_chargeVars => ChargesInv'
<1> SUFFICES ASSUME ChargesInv, [ChargesNext]_chargeVars PROVE ChargesInv'
  OBVIOUS
<1>1. CASE CreateCharge
  BY <1>1, CreateChargeStep
<1>2. CASE NextDay
  <2>1. today' \in Days /\ UNCHANGED <<charges, lastCharge, moved, hreq>>
    BY <1>2, ChargesAssumption DEF NextDay, ChargesInv, ChargesTypeOK, Days
  <2> QED BY <2>1 DEF ChargesInv, ChargesTypeOK, EndUnlessMoved, ChargeWork
<1>3. ASSUME NEW r \in Workers,
             UpdateArrives(r) \/ DeactivateArrives(r) \/ LoadCharge(r) \/ WriteCharge(r)
      PROVE  ChargesInv'
  BY <1>3, ChargeRequestStep, WriteChargeStep
<1>4. CASE UNCHANGED chargeVars
  BY <1>4 DEF chargeVars, ChargesInv, ChargesTypeOK, EndUnlessMoved, ChargeWork
<1> QED BY <1>1, <1>2, <1>3, <1>4 DEF ChargesNext

(* The months of a year come to less than the year, by less than 12 cents  *)
(* for a charge.                                                           *)
LEMMA MonthsOfCharge ==
    ASSUME NEW c \in Charge, c.frequency # "PONCTUEL"
    PROVE  /\ MontantMensuel(c) \in Nat /\ PerYear(c) \in Nat
           /\ PerYear(c) - 12 <= 12 * MontantMensuel(c) /\ 12 * MontantMensuel(c) <= PerYear(c)
<1>1. c.montant \in Nat /\ c.frequency \in {"MENSUEL", "TRIMESTRIEL", "ANNUEL"}
  BY ChargesAssumption DEF Charge
<1>2. PICK m \in Nat : m = c.montant
  BY <1>1
<1>3. CASE c.frequency = "MENSUEL"
  BY <1>2, <1>3 DEF MontantMensuel, PerYear
<1>4. CASE c.frequency = "TRIMESTRIEL"
  <2>1. MontantMensuel(c) = m \div 3 /\ PerYear(c) = 4 * m
    BY <1>2, <1>4 DEF MontantMensuel, PerYear
  <2> QED BY <2>1
<1>5. CASE c.frequency = "ANNUEL"
  <2>1. MontantMensuel(c) = m \div 12 /\ PerYear(c) = m
    BY <1>2, <1>5 DEF MontantMensuel, PerYear
  <2> QED BY <2>1
<1> QED BY <1>1, <1>3, <1>4, <1>5

(* Sums of terms, each of which is short of another's twelfth by less      *)
(* than one.                                                               *)
LEMMA SumOfMonths ==
    ASSUME NEW f, NEW g, NEW S, IsFiniteSet(S),
           \A x \in S : /\ f[x] \in Nat /\ g[x] \in Nat
                        /\ g[x] - 12 <= 12 * f[x] /\ 12 * f[x] <= g[x]
    PROVE  /\ SumFunctionOnSet(g, S) - 12 * Cardinality(S) <= 12 * SumFunctionOnSet(f, S)
           /\ 12 * SumFunctionOnSet(f, S) <= SumFunctionOnSet(g, S)
<1> DEFINE Fine(T) == /\ SumFunctionOnSet(g, T) - 12 * Cardinality(T) <= 12 * SumFunctionOnSet(f, T)
                      /\ 12 * SumFunctionOnSet(f, T) <= SumFunctionOnSet(g, T)
           P == {T \in SUBSET S : Fine(T)}
<1>1. {} \in P
  BY SumEmpty, FS_EmptySet
<1>2. ASSUME NEW T \in SUBSET S, T # {}, \A x \in T : T \ {x} \in P PROVE T \in P
  <2>1. PICK x \in T : TRUE
    BY <1>2
  <2>2. PICK R : R = T \ {x}
    OBVIOUS
  <2>3. IsFiniteSet(T) /\ IsFiniteSet(R) /\ R \in P /\ R \subseteq S
    BY <1>2, <2>2, FS_Subset
  <2>4. PICK n \in Nat : n = Cardinality(R) /\ Cardinality(T) = n + 1
    BY <2>2, <2>3, FS_RemoveElement, FS_CardinalityType
  <2>5. /\ SumFunctionOnSet(f, T) = f[x] + SumFunctionOnSet(f, R)
        /\ SumFunctionOnSet(g, T) = g[x] + SumFunctionOnSet(g, R)
    BY <2>2, <2>3, SumTake
  <2>6. SumFunctionOnSet(f, R) \in Nat /\ SumFunctionOnSet(g, R) \in Nat
    BY <2>3, SumNat
  <2>7. PICK a, b, u, v \in Nat : a = f[x] /\ b = g[x] /\ u = SumFunctionOnSet(f, R) /\ v = SumFunctionOnSet(g, R)
    BY <2>6
  <2>8. b - 12 <= 12 * a /\ 12 * a <= b /\ v - 12 * n <= 12 * u /\ 12 * u <= v
    BY <2>3, <2>4, <2>7
  <2>9. (b + v) - 12 * (n + 1) <= 12 * (a + u) /\ 12 * (a + u) <= b + v
    BY <2>8
  <2> QED BY <2>4, <2>5, <2>7, <2>9
<1>3. \A T \in SUBSET S : T \in P
  <2> HIDE DEF P
  <2> QED BY <1>1, <1>2, SubsetInduction
<1> QED BY <1>3

LEMMA YearFromMonths == ChargesTypeOK => ProjectionOfYear
<1> SUFFICES ASSUME ChargesTypeOK, \A c \in Current : charges[c].frequency # "PONCTUEL"
             PROVE  ProjectionOfYear
  BY DEF ProjectionOfYear
<1> DEFINE f == [c \in ChargeIds |-> MontantMensuel(charges[c])]
           g == [c \in ChargeIds |-> PerYear(charges[c])]
<1>1. Current \subseteq 1..lastCharge /\ Current \subseteq ChargeIds /\ IsFiniteSet(1..lastCharge)
  BY FS_Interval, ChargesAssumption DEF Current, ChargesTypeOK, ChargeIds
<1>2. IsFiniteSet(Current)
  BY <1>1, FS_Subset
<1>3. ASSUME NEW c \in Current
      PROVE  f[c] \in Nat /\ g[c] \in Nat /\ g[c] - 12 <= 12 * f[c] /\ 12 * f[c] <= g[c]
  <2>1. charges[c] \in Charge
    BY <1>1 DEF ChargesTypeOK
  <2>2. f[c] = MontantMensuel(charges[c]) /\ g[c] = PerYear(charges[c])
    BY <1>1
  <2> QED BY <2>1, <2>2, MonthsOfCharge
<1> HIDE DEF f, g
<1>4. /\ SumFunctionOnSet(g, Current) - 12 * Cardinality(Current) <= 12 * SumFunctionOnSet(f, Current)
      /\ 12 * SumFunctionOnSet(f, Current) <= SumFunctionOnSet(g, Current)
  BY <1>2, <1>3, SumOfMonths
<1> QED BY <1>4 DEF ProjectionOfYear, TotalAnnuel, TotalMensuel, f, g

LEMMA ChargesAlways == ChargesSpec => []ChargesInv
BY ChargesInitInv, ChargesStepInv, PTL DEF ChargesSpec

(* The menu and the charges of a restaurant: names, recipes and links are  *)
(* those asked for for as long as no two requests overlap, whatever fails  *)
(* or waits; a charge ends after it starts unless its start was moved, and *)
(* the projection of a year is within 12 cents a charge of what is due.    *)
THEOREM RestaurantStaysConsistent == RestaurantSpec => []RestaurantConsistent
<1>1. ChargesInv => ChargesConsistent
  BY YearFromMonths DEF ChargesInv, ChargesConsistent
<1>2. MenuInv => MenuInTurn
  BY DEF MenuInv
<1> QED BY <1>1, <1>2, MenuAlways, ChargesAlways, PTL DEF RestaurantSpec, RestaurantConsistent


(***************************************************************************)
(* The restaurant's scripts.  As long as no two have overlapped, the names *)
(* a script has read are those on record, unless a request has changed     *)
(* them; the seed's ids are one for each ingredient; and what a migration  *)
(* has emptied stays so, while the ids it keeps are of rows that are there.*)
(***************************************************************************)
SeedTypes ==
    /\ lastFood \in Nat /\ lastPlat \in Nat
    /\ DOMAIN foods \subseteq 1..lastFood /\ DOMAIN plats \subseteq 1..lastPlat
    /\ \A x \in comps : x[1] \in 1..lastPlat
    /\ fromSeed = [food |-> fromSeed.food, plat |-> fromSeed.plat]
    /\ fromFile = [food |-> fromFile.food, plat |-> fromFile.plat, lines |-> fromFile.lines]
    /\ sreq = [r \in Workers |-> sreq[r]]

SeedRows ==
    /\ DOMAIN fromSeed.food \subseteq DOMAIN foods /\ DOMAIN fromSeed.plat \subseteq DOMAIN plats
    /\ \A d \in DOMAIN fromSeed.plat : plats[d] = fromSeed.plat[d] /\ plats[d] \in DOMAIN Template
    /\ DOMAIN fromFile.plat \subseteq 1..lastPlat

OneIdEach(ids) ==
    DOMAIN ids = TemplateIngredients /\ \A t, u \in TemplateIngredients : ids[t] = ids[u] => t = u
IdsOf(ids, file, table, from) ==
    /\ DOMAIN ids = DOMAIN file
    /\ \A n \in DOMAIN ids : ids[n] \in DOMAIN table /\ ids[n] \in DOMAIN from /\ from[ids[n]] = n

ScriptReads(q) ==
    /\ q.pc = "seed ingredients" /\ uncrossed => q.names = Lowered(foods)
    /\ q.pc \in {"read dishes", "seed dishes"} /\ uncrossed => OneIdEach(q.ids)
    /\ q.pc = "seed dishes" => q.names = Lowered(plats)
    /\ q.pc \in {"migrate ingredients", "migrate dishes", "migrate lines"} =>
          comps = {} /\ ~migrated /\ DOMAIN fromSeed.plat = {}
    /\ q.pc \in {"migrate dishes", "migrate lines"} => IdsOf(q.ids, FileIngredients, foods, fromFile.food)
    /\ q.pc = "migrate lines" => IdsOf(q.map, FileDishes, plats, fromFile.plat)

OneScript == scriptAlone =>
    /\ \A p, r \in Workers : Busy(sreq, p) /\ Busy(sreq, r) => p = r
    /\ \A r \in Workers : ScriptReads(sreq[r])

SeedInv == SeedTypes /\ SeedRows /\ OneScript /\ SampleOnce /\ MigratedWhole

(* The rows of a finite set have the next ids, each its own. *)
LEMMA NumberingIsOne ==
    ASSUME NEW S, IsFiniteSet(S), NEW last \in Nat
    PROVE  /\ Cardinality(S) \in Nat
           /\ Numbering(S, last) \in [S -> last + 1 .. last + Cardinality(S)]
           /\ \A x, y \in S : Numbering(S, last)[x] = Numbering(S, last)[y] => x = y
<1> DEFINE n == Cardinality(S)
<1>1. n \in Nat /\ ExistsBijection(1..n, S)
  BY FS_CardinalityType
<1>2. PICK h \in Bijection(1..n, S) : TRUE
  BY <1>1 DEF ExistsBijection
<1>3. h \in [1..n -> S] /\ \A x \in S : \E k \in 1..n : h[k] = x
  BY <1>2 DEF Bijection, Injection, Surjection
<1> HIDE DEF n
<1> DEFINE at(x) == CHOOSE k \in 1..n : h[k] = x
<1>4. \A x \in S : at(x) \in 1..n /\ h[at(x)] = x
  BY <1>3
<1> HIDE DEF at
<1>5. \E f \in [S -> last + 1 .. last + n] : \A x, y \in S : f[x] = f[y] => x = y
  <2> DEFINE f == [x \in S |-> last + at(x)]
  <2>1. f \in [S -> last + 1 .. last + n]
    BY <1>1, <1>4
  <2>2. ASSUME NEW x \in S, NEW y \in S, f[x] = f[y] PROVE x = y
    <3>1. at(x) = at(y)
      BY <1>1, <1>4, <2>2
    <3> QED BY <1>4, <3>1
  <2> HIDE DEF f
  <2> QED BY <2>1, <2>2
<1>6. /\ Numbering(S, last) \in [S -> last + 1 .. last + n]
      /\ \A x, y \in S : Numbering(S, last)[x] = Numbering(S, last)[y] => x = y
  BY <1>5 DEF Numbering, n
<1> QED BY <1>1, <1>6 DEF n

LEMMA RowsAreThose ==
    ASSUME NEW S, NEW f, DOMAIN f = S, \A x, y \in S : f[x] = f[y] => x = y
    PROVE  /\ \A k \in DOMAIN RowsAt(f) : \E x \in S : f[x] = k
           /\ \A x \in S : f[x] \in DOMAIN RowsAt(f)
           /\ \A x \in S : RowsAt(f)[f[x]] = x
BY DEF RowsAt

(* Rows with the ids that come next join a table that has none of them. *)
Joins(rows, table, last, n) ==
    /\ DOMAIN Merged(table, rows) = DOMAIN table \cup DOMAIN rows
    /\ DOMAIN Merged(table, rows) \subseteq 1..last + n
    /\ \A k \in DOMAIN rows : k \notin 1..last /\ k \in 1..last + n
    /\ \A k \in DOMAIN table : Merged(table, rows)[k] = table[k]
    /\ \A k \in DOMAIN rows : Merged(table, rows)[k] = rows[k]
    /\ last + n \in Nat
LEMMA TableGrows ==
    ASSUME NEW S, IsFiniteSet(S), NEW last \in Nat, NEW table, DOMAIN table \subseteq 1..last,
           NEW rows, \A k \in DOMAIN rows : \E x \in S : Numbering(S, last)[x] = k
    PROVE  Joins(rows, table, last, Cardinality(S))
<1>1. /\ Cardinality(S) \in Nat
      /\ \A x \in S : Numbering(S, last)[x] \in last + 1 .. last + Cardinality(S)
  BY NumberingIsOne
<1>2. \A k \in DOMAIN rows : k \in last + 1 .. last + Cardinality(S)
  BY <1>1
<1>3. \A k \in last + 1 .. last + Cardinality(S) : k \notin 1..last /\ k \in 1..last + Cardinality(S)
  BY <1>1
<1>4. 1..last \subseteq 1..last + Cardinality(S)
  BY <1>1
<1>5. /\ DOMAIN Merged(table, rows) = DOMAIN table \cup DOMAIN rows
      /\ \A k \in DOMAIN rows : Merged(table, rows)[k] = rows[k]
      /\ \A k \in DOMAIN table : k \notin DOMAIN rows => Merged(table, rows)[k] = table[k]
  BY DEF Merged
<1> QED BY <1>1, <1>2, <1>3, <1>4, <1>5 DEF Joins

(* What an INSERT of a set of rows numbers and adds. *)
Inserts(f, S, rows, table, last) ==
    /\ DOMAIN f = S /\ \A x, y \in S : f[x] = f[y] => x = y
    /\ \A k \in DOMAIN rows : \E x \in S : f[x] = k
    /\ \A x \in S : f[x] \in DOMAIN rows
    /\ Joins(rows, table, last, Cardinality(S))

LEMMA InsertsRows ==
    ASSUME NEW S, IsFiniteSet(S), NEW last \in Nat, NEW table, DOMAIN table \subseteq 1..last,
           NEW f, f = Numbering(S, last), NEW rows, DOMAIN rows = DOMAIN RowsAt(f)
    PROVE  /\ Inserts(f, S, rows, table, last)
           /\ \A x \in S : RowsAt(f)[f[x]] = x
<1>1. DOMAIN f = S /\ \A x, y \in S : f[x] = f[y] => x = y
  BY NumberingIsOne
<1>2. /\ \A k \in DOMAIN rows : \E x \in S : f[x] = k
      /\ \A x \in S : f[x] \in DOMAIN rows
      /\ \A x \in S : RowsAt(f)[f[x]] = x
  BY <1>1, RowsAreThose
<1>3. \A k \in DOMAIN rows : \E x \in S : Numbering(S, last)[x] = k
  BY <1>2
<1>4. Joins(rows, table, last, Cardinality(S))
  BY <1>3, TableGrows
<1> QED BY <1>1, <1>2, <1>4 DEF Inserts

LinesOfOne(d, ids, T) == {<<d, ids[t]>> : t \in T}
LEMMA LinesOfPlat ==
    ASSUME NEW T, IsFiniteSet(T), NEW d, NEW ids, \A t, u \in T : ids[t] = ids[u] => t = u
    PROVE  Cardinality(LinesOfOne(d, ids, T)) = Cardinality(T)
<1> DEFINE U == LinesOfOne(d, ids, T)
           h == [t \in T |-> <<d, ids[t]>>]
<1>1. h \in [T -> U] /\ \A y \in U : \E t \in T : h[t] = y
  BY DEF LinesOfOne
<1>2. \A t, u \in T : h[t] = h[u] => t = u
  OBVIOUS
<1> HIDE DEF h, U
<1>3. h \in Bijection(T, U)
  BY <1>1, <1>2 DEF Bijection, Injection, Surjection, IsInjective
<1>4. ExistsBijection(T, U)
  BY <1>3 DEF ExistsBijection
<1>5. Cardinality(U) = Cardinality(T)
  BY <1>4, FS_Bijection
<1> QED BY <1>5 DEF U

LEMMA InitSeed == SeedInit => SeedInv
<1> SUFFICES ASSUME SeedInit PROVE SeedInv
  OBVIOUS
<1>1. DOMAIN foods = {} /\ DOMAIN plats = {} /\ comps = {} /\ ~migrated
  BY DEF SeedInit
<1>2. DOMAIN fromSeed.food = {} /\ DOMAIN fromSeed.plat = {} /\ DOMAIN fromFile.plat = {}
  BY DEF SeedInit
<1>3. sreq = [r \in Workers |-> sreq[r]] /\ \A r \in Workers : sreq[r].pc = "idle"
  BY DEF SeedInit, SIdle
<1>4. SeedTypes
  BY <1>1, <1>3 DEF SeedInit, SeedTypes
<1>5. SeedRows
  BY <1>1, <1>2 DEF SeedRows
<1>6. OneScript
  BY <1>3 DEF OneScript, ScriptReads, Busy
<1>7. SampleOnce /\ MigratedWhole
  BY <1>1, <1>2 DEF SampleOnce, MigratedWhole
<1> QED BY <1>4, <1>5, <1>6, <1>7 DEF SeedInv

(* The step of a script that was under way: the others are at rest as long *)
(* as scripts have not overlapped.                                         *)
LEMMA StepOfScript ==
    ASSUME SeedInv, NEW r \in Workers, Busy(sreq, r), NEW x, SBecome(r, x),
           scriptAlone' = scriptAlone, scriptAlone => ScriptReads(x)'
    PROVE  OneScript' /\ (sreq = [p \in Workers |-> sreq[p]])'
<1>1. /\ sreq' = [p \in Workers |-> sreq'[p]] /\ sreq'[r] = x
      /\ \A p \in Workers \ {r} : sreq'[p] = sreq[p]
  BY DEF SBecome, SeedInv, SeedTypes
<1>2. ASSUME scriptAlone
      PROVE  \A p \in Workers \ {r} : sreq'[p].pc = "idle"
  BY <1>1, <1>2 DEF SeedInv, OneScript, Busy
<1>3. ASSUME scriptAlone', NEW p \in Workers PROVE ScriptReads(sreq[p])'
  <2>1. CASE p = r
    BY <1>1, <1>3, <2>1
  <2>2. CASE p # r
    <3>1. sreq'[p].pc = "idle"
      BY <1>2, <1>3, <2>2
    <3> QED BY <3>1 DEF ScriptReads
  <2> QED BY <2>1, <2>2
<1>4. scriptAlone' => \A p, q \in Workers : Busy(sreq', p) /\ Busy(sreq', q) => p = q
  BY <1>2 DEF Busy
<1> QED BY <1>1, <1>3, <1>4 DEF OneScript, Busy

(* One that begins. *)
LEMMA StartOfScript ==
    ASSUME SeedInv, NEW r \in Workers, NEW x, SBecome(r, x),
           scriptAlone' = (scriptAlone /\ InProgress(sreq, r) = {}), scriptAlone' => ScriptReads(x)'
    PROVE  OneScript' /\ (sreq = [p \in Workers |-> sreq[p]])'
<1>1. /\ sreq' = [p \in Workers |-> sreq'[p]] /\ sreq'[r] = x
      /\ \A p \in Workers \ {r} : sreq'[p] = sreq[p]
  BY DEF SBecome, SeedInv, SeedTypes
<1>2. ASSUME scriptAlone'
      PROVE  \A p \in Workers \ {r} : sreq'[p].pc = "idle"
  BY <1>1, <1>2 DEF InProgress, Busy
<1>3. ASSUME scriptAlone', NEW p \in Workers PROVE ScriptReads(sreq[p])'
  <2>1. CASE p = r
    BY <1>1, <1>3, <2>1
  <2>2. CASE p # r
    <3>1. sreq'[p].pc = "idle"
      BY <1>2, <1>3, <2>2
    <3> QED BY <3>1 DEF ScriptReads
  <2> QED BY <2>1, <2>2
<1>4. scriptAlone' => \A p, q \in Workers : Busy(sreq', p) /\ Busy(sreq', q) => p = q
  BY <1>2 DEF Busy
<1> QED BY <1>1, <1>3, <1>4 DEF OneScript, Busy

LEMMA MigratedSame ==
    ASSUME MigratedWhole, scriptAlone' => scriptAlone, comps' = comps, fromFile' = fromFile, migrated' = migrated
    PROVE  MigratedWhole'
BY DEF MigratedWhole

LEMMA SampleSame ==
    ASSUME SampleOnce, scriptAlone' => scriptAlone, uncrossed' => uncrossed,
           comps' = comps, fromSeed' = fromSeed, foods' = foods
    PROVE  SampleOnce'
BY DEF SampleOnce

LEMMA BeginsSeed ==
    ASSUME SeedInv, NEW r \in Workers, StartSeed(r)
    PROVE  SeedInv'
<1>1. PICK x : x = [SIdle EXCEPT !.pc = "seed ingredients", !.names = Lowered(foods)]
  OBVIOUS
<1>2. x.pc = "seed ingredients" /\ x.names = Lowered(foods)
  BY <1>1 DEF SIdle
<1>3. /\ SBecome(r, x) /\ scriptAlone' = (scriptAlone /\ InProgress(sreq, r) = {})
      /\ UNCHANGED <<foods, plats, comps, lastFood, lastPlat, fromSeed, fromFile, migrated, uncrossed>>
  BY <1>1 DEF StartSeed, seedDb
<1>4. ScriptReads(x)'
  BY <1>2, <1>3 DEF ScriptReads, Lowered
<1>5. OneScript' /\ (sreq = [p \in Workers |-> sreq[p]])'
  BY <1>3, <1>4, StartOfScript
<1>6. SampleOnce' /\ MigratedWhole'
  BY <1>3, SampleSame, MigratedSame DEF SeedInv
<1>7. SeedTypes' /\ SeedRows'
  BY <1>3, <1>5 DEF SeedInv, SeedTypes, SeedRows
<1> QED BY <1>5, <1>6, <1>7 DEF SeedInv

LEMMA BeginsMigration ==
    ASSUME SeedInv, NEW r \in Workers, ClearSampleData(r)
    PROVE  SeedInv'
<1>1. PICK x : x = [SIdle EXCEPT !.pc = "migrate ingredients"]
  OBVIOUS
<1>2. x.pc = "migrate ingredients"
  BY <1>1 DEF SIdle
<1>3. /\ SBecome(r, x) /\ scriptAlone' = (scriptAlone /\ InProgress(sreq, r) = {})
      /\ UNCHANGED <<lastFood, lastPlat, uncrossed>> /\ ~migrated' /\ comps' = {}
  BY <1>1 DEF ClearSampleData
<1>4. /\ DOMAIN foods' = {} /\ DOMAIN plats' = {}
      /\ fromSeed' = [food |-> fromSeed'.food, plat |-> fromSeed'.plat]
      /\ fromFile' = [food |-> fromFile'.food, plat |-> fromFile'.plat, lines |-> fromFile'.lines]
      /\ DOMAIN fromSeed'.food = {} /\ DOMAIN fromSeed'.plat = {} /\ DOMAIN fromFile'.plat = {}
  <2>1. fromSeed' = [food |-> <<>>, plat |-> <<>>] /\ fromFile' = [food |-> <<>>, plat |-> <<>>, lines |-> <<>>]
    BY DEF ClearSampleData
  <2>2. foods' = <<>> /\ plats' = <<>>
    BY DEF ClearSampleData
  <2>3. fromSeed'.food = <<>> /\ fromSeed'.plat = <<>> /\ fromFile'.plat = <<>>
    BY <2>1
  <2>4. /\ fromSeed' = [food |-> fromSeed'.food, plat |-> fromSeed'.plat]
        /\ fromFile' = [food |-> fromFile'.food, plat |-> fromFile'.plat, lines |-> fromFile'.lines]
    BY <2>1
  <2> QED BY <2>2, <2>3, <2>4
<1>5. ScriptReads(x)'
  BY <1>2, <1>3, <1>4 DEF ScriptReads
<1>6. OneScript' /\ (sreq = [p \in Workers |-> sreq[p]])'
  BY <1>3, <1>5, StartOfScript
<1>7. SeedTypes'
  BY <1>3, <1>4, <1>6 DEF SeedInv, SeedTypes
<1>8. SeedRows' /\ SampleOnce' /\ MigratedWhole'
  BY <1>3, <1>4 DEF SeedRows, SampleOnce, MigratedWhole
<1> QED BY <1>6, <1>7, <1>8 DEF SeedInv

LEMMA SeedsIngredients ==
    ASSUME SeedInv, NEW r \in Workers, SeedIngredients(r)
    PROVE  SeedInv'
<1> DEFINE q == sreq[r]
           known == {t \in TemplateIngredients : LowerCase[t] \in q.names}
           there(t) == {i \in DOMAIN foods : LowerCase[foods[i]] = LowerCase[t]}
           found == {t \in known : there(t) # {}}
           S == TemplateIngredients \ known
           f == Numbering(S, lastFood)
           rows == RowsAt(f)
<1>1. PICK g \in [found -> DOMAIN foods] :
         /\ \A t \in found : g[t] \in there(t)
         /\ foods' = Merged(foods, rows)
         /\ fromSeed' = [fromSeed EXCEPT !.food = Merged(@, rows)]
         /\ lastFood' = lastFood + Cardinality(DOMAIN f)
         /\ SBecome(r, [SIdle EXCEPT !.pc = "read dishes", !.ids = Merged(f, g)])
  BY DEF SeedIngredients
<1>2. /\ q.pc = "seed ingredients"
      /\ UNCHANGED <<plats, comps, lastPlat, fromFile, migrated, scriptAlone, uncrossed>>
  BY DEF SeedIngredients
<1>3. IsFiniteSet(S) /\ lastFood \in Nat /\ DOMAIN foods \subseteq 1..lastFood
  BY SeedAssumption, FS_Subset DEF SeedInv, SeedTypes
<1>4. /\ f \in [S -> lastFood + 1 .. lastFood + Cardinality(S)]
      /\ \A t, u \in S : f[t] = f[u] => t = u
  BY <1>3, NumberingIsOne
<1>5. /\ \A k \in DOMAIN rows : \E t \in S : f[t] = k
      /\ \A t \in S : f[t] \in DOMAIN rows /\ rows[f[t]] = t
      /\ DOMAIN f = S
  <2> HIDE DEF f, S
  <2>1. DOMAIN f = S
    BY <1>4
  <2> QED BY <1>4, <2>1, RowsAreThose
<1>6. /\ DOMAIN foods' = DOMAIN foods \cup DOMAIN rows
      /\ DOMAIN foods' \subseteq 1..lastFood' /\ lastFood' \in Nat
      /\ \A k \in DOMAIN rows : k \notin 1..lastFood
      /\ \A k \in DOMAIN foods : foods'[k] = foods[k]
      /\ \A k \in DOMAIN rows : foods'[k] = rows[k]
  <2>1. lastFood' = lastFood + Cardinality(S) /\ foods' = Merged(foods, rows)
    BY <1>1, <1>5
  <2> HIDE DEF S, rows
  <2>2. \A k \in DOMAIN rows : \E t \in S : Numbering(S, lastFood)[t] = k
    BY <1>5
  <2> HIDE DEF f
  <2>3. Joins(rows, foods, lastFood, Cardinality(S))
    BY <1>3, <2>2, TableGrows
  <2> QED BY <2>1, <2>3 DEF Joins
<1>7. /\ fromSeed' = [food |-> fromSeed'.food, plat |-> fromSeed'.plat]
      /\ fromSeed'.plat = fromSeed.plat /\ fromSeed'.food = Merged(fromSeed.food, rows)
  BY <1>1 DEF SeedInv, SeedTypes
<1>8. /\ DOMAIN fromSeed'.food = DOMAIN fromSeed.food \cup DOMAIN rows
      /\ \A k \in DOMAIN rows : fromSeed'.food[k] = rows[k]
      /\ \A k \in DOMAIN fromSeed.food : k \notin DOMAIN rows /\ fromSeed'.food[k] = fromSeed.food[k]
  <2>1. \A k \in DOMAIN fromSeed.food : k \notin DOMAIN rows
    BY <1>3, <1>6 DEF SeedInv, SeedRows
  <2> QED BY <1>7, <2>1 DEF Merged
<1>9. ASSUME scriptAlone, uncrossed
      PROVE  \A i \in DOMAIN foods : LowerCase[foods[i]] \in q.names
  BY <1>2, <1>9 DEF SeedInv, OneScript, ScriptReads, Lowered
<1>10. ASSUME scriptAlone, uncrossed
       PROVE  OneIdEach(Merged(f, g))
  <2>1. q.names = Lowered(foods)
    BY <1>2, <1>10 DEF SeedInv, OneScript, ScriptReads
  <2>2. found = known
    BY <2>1 DEF Lowered
  <2>3. DOMAIN f = S /\ DOMAIN g = known
    BY <1>1, <1>4, <2>2
  <2>4. DOMAIN Merged(f, g) = TemplateIngredients
    BY <2>3 DEF Merged
  <2>5. /\ \A t \in known : Merged(f, g)[t] = g[t]
        /\ \A t \in S : Merged(f, g)[t] = f[t]
    BY <2>3 DEF Merged
  <2>6. \A t \in known, u \in S : g[t] # f[u]
    BY <1>1, <1>3, <1>4, <1>5, <1>6, <2>2
  <2>7. \A t, u \in known : g[t] = g[u] => t = u
    BY <1>1, <2>2, SeedAssumption
  <2> HIDE DEF S, known, f
  <2>8. \A t \in TemplateIngredients : t \in known \/ t \in S
    BY DEF S
  <2> QED BY <1>4, <2>4, <2>5, <2>6, <2>7, <2>8 DEF OneIdEach
<1>11. PICK x : x = [SIdle EXCEPT !.pc = "read dishes", !.ids = Merged(f, g)]
  OBVIOUS
<1>12. x.pc = "read dishes" /\ x.ids = Merged(f, g)
  BY <1>11 DEF SIdle
<1> HIDE DEF q, S, f, rows, known
<1>13. scriptAlone => ScriptReads(x)'
  BY <1>2, <1>10, <1>12 DEF ScriptReads, OneIdEach
<1>14. OneScript' /\ (sreq = [p \in Workers |-> sreq[p]])'
  BY <1>1, <1>2, <1>11, <1>13, StepOfScript DEF q, Busy
<1>15. SeedTypes'
  BY <1>2, <1>6, <1>7, <1>14 DEF SeedInv, SeedTypes
<1>16. SeedRows'
  BY <1>2, <1>6, <1>7, <1>8 DEF SeedInv, SeedRows
<1>17. SampleOnce'
  <2>1. ASSUME scriptAlone, uncrossed, NEW i \in DOMAIN fromSeed'.food, NEW j \in DOMAIN fromSeed'.food,
               fromSeed'.food[i] = fromSeed'.food[j], foods'[i] = foods'[j]
        PROVE  i = j
    <3>1. ASSUME NEW k \in DOMAIN fromSeed.food, NEW l \in DOMAIN rows PROVE foods'[k] # foods'[l]
      <4>1. foods'[k] = foods[k] /\ k \in DOMAIN foods
        BY <1>6 DEF SeedInv, SeedRows
      <4>2. LowerCase[foods'[k]] \in q.names
        BY <1>9, <2>1, <4>1
      <4>3. foods'[l] = rows[l] /\ rows[l] \in S
        BY <1>5, <1>6
      <4>4. LowerCase[foods'[l]] \notin q.names
        BY <4>3 DEF S, known
      <4> QED BY <4>2, <4>4
    <3>2. CASE i \in DOMAIN rows /\ j \in DOMAIN rows
      BY <1>5, <1>8, <2>1, <3>2
    <3>3. CASE i \in DOMAIN fromSeed.food /\ j \in DOMAIN fromSeed.food
      BY <1>6, <1>8, <2>1, <3>3 DEF SeedInv, SeedRows, SampleOnce
    <3> QED BY <1>8, <2>1, <3>1, <3>2, <3>3
  <2> QED BY <1>2, <1>7, <2>1 DEF SeedInv, SampleOnce
<1>18. MigratedWhole'
  BY <1>2, MigratedSame DEF SeedInv
<1> QED BY <1>14, <1>15, <1>16, <1>17, <1>18 DEF SeedInv

LEMMA ReadsPlats ==
    ASSUME SeedInv, NEW r \in Workers, ReadPlats(r)
    PROVE  SeedInv'
<1>1. PICK x : x = [SIdle EXCEPT !.pc = "seed dishes", !.names = Lowered(plats), !.ids = sreq[r].ids]
  OBVIOUS
<1>2. x.pc = "seed dishes" /\ x.names = Lowered(plats) /\ x.ids = sreq[r].ids
  BY <1>1 DEF SIdle
<1>3. /\ SBecome(r, x) /\ sreq[r].pc = "read dishes"
      /\ UNCHANGED <<foods, plats, comps, lastFood, lastPlat, fromSeed, fromFile, migrated,
                     scriptAlone, uncrossed>>
  BY <1>1 DEF ReadPlats, seedDb, seedHistory
<1>4. scriptAlone => ScriptReads(x)'
  BY <1>2, <1>3 DEF SeedInv, OneScript, ScriptReads, Lowered, OneIdEach
<1>5. OneScript' /\ (sreq = [p \in Workers |-> sreq[p]])'
  BY <1>3, <1>4, StepOfScript DEF Busy
<1>6. SampleOnce' /\ MigratedWhole'
  BY <1>3, SampleSame, MigratedSame DEF SeedInv
<1>7. SeedTypes' /\ SeedRows'
  BY <1>3, <1>5 DEF SeedInv, SeedTypes, SeedRows
<1> QED BY <1>5, <1>6, <1>7 DEF SeedInv

LEMMA SeedsPlats ==
    ASSUME SeedInv, NEW r \in Workers, SeedPlats(r)
    PROVE  SeedInv'
<1> DEFINE q == sreq[r]
           N == {d \in DOMAIN Template : LowerCase[d] \notin q.names}
<1>1. PICK S : S = N
  OBVIOUS
<1>2. PICK f : f = Numbering(S, lastPlat)
  OBVIOUS
<1>3. PICK rows : rows = RowsAt(f)
  OBVIOUS
<1>4. PICK L : L = SeedLines(f, q.ids)
  OBVIOUS
<1>5. /\ q.pc = "seed dishes" /\ SBecome(r, SIdle)
      /\ IF {x[2] : x \in L} \subseteq DOMAIN foods
         THEN /\ plats' = Merged(plats, rows) /\ comps' = comps \cup L
              /\ fromSeed' = [fromSeed EXCEPT !.plat = Merged(@, rows)]
              /\ lastPlat' = lastPlat + Cardinality(S)
         ELSE UNCHANGED <<plats, comps, lastPlat, fromSeed>>
      /\ UNCHANGED <<foods, lastFood, fromFile, migrated, scriptAlone, uncrossed>>
  BY <1>1, <1>2, <1>3, <1>4 DEF SeedPlats
<1>6. ScriptReads(SIdle)'
  BY DEF ScriptReads, SIdle
<1>7. OneScript' /\ (sreq = [p \in Workers |-> sreq[p]])'
  BY <1>5, <1>6, StepOfScript DEF Busy
<1>8. CASE UNCHANGED <<plats, comps, lastPlat, fromSeed>>
  <2>1. SampleOnce' /\ MigratedWhole'
    BY <1>5, <1>8, SampleSame, MigratedSame DEF SeedInv
  <2>2. SeedTypes' /\ SeedRows'
    BY <1>5, <1>7, <1>8 DEF SeedInv, SeedTypes, SeedRows
  <2> QED BY <1>7, <2>1, <2>2 DEF SeedInv
<1>9. CASE {x[2] : x \in L} \subseteq DOMAIN foods
  <2>1. /\ plats' = Merged(plats, rows) /\ comps' = comps \cup L
        /\ fromSeed' = [fromSeed EXCEPT !.plat = Merged(@, rows)]
        /\ lastPlat' = lastPlat + Cardinality(S)
    BY <1>5, <1>9
  <2>2. IsFiniteSet(S) /\ lastPlat \in Nat /\ DOMAIN plats \subseteq 1..lastPlat /\ S \subseteq DOMAIN Template
    BY <1>1, SeedAssumption, FS_Subset DEF SeedInv, SeedTypes
  <2>3. Inserts(f, S, rows, plats, lastPlat) /\ \A d \in S : rows[f[d]] = d
    BY <1>2, <1>3, <2>2, InsertsRows
  <2>4. /\ DOMAIN plats' = DOMAIN plats \cup DOMAIN rows
        /\ DOMAIN plats' \subseteq 1..lastPlat' /\ lastPlat' \in Nat /\ 1..lastPlat \subseteq 1..lastPlat'
        /\ \A k \in DOMAIN rows : k \notin 1..lastPlat /\ k \in 1..lastPlat'
        /\ \A k \in DOMAIN plats : plats'[k] = plats[k]
        /\ \A k \in DOMAIN rows : plats'[k] = rows[k]
    <3>1. Joins(rows, plats, lastPlat, Cardinality(S)) /\ Cardinality(S) \in Nat
      BY <2>2, <2>3, FS_CardinalityType DEF Inserts
    <3>2. 1..lastPlat \subseteq 1..lastPlat + Cardinality(S)
      BY <2>2, <3>1
    <3> QED BY <2>1, <3>1, <3>2 DEF Joins
  <2>5. /\ fromSeed' = [food |-> fromSeed'.food, plat |-> fromSeed'.plat]
        /\ fromSeed'.food = fromSeed.food /\ fromSeed'.plat = Merged(fromSeed.plat, rows)
    BY <2>1 DEF SeedInv, SeedTypes
  <2>6. /\ DOMAIN fromSeed'.plat = DOMAIN fromSeed.plat \cup DOMAIN rows
        /\ \A k \in DOMAIN rows : fromSeed'.plat[k] = rows[k]
        /\ \A k \in DOMAIN fromSeed.plat : k \notin DOMAIN rows /\ fromSeed'.plat[k] = fromSeed.plat[k]
    <3>1. \A k \in DOMAIN fromSeed.plat : k \notin DOMAIN rows
      BY <2>2, <2>4 DEF SeedInv, SeedRows
    <3> QED BY <2>5, <3>1 DEF Merged
  <2>7. \A k \in DOMAIN rows : rows[k] \in S /\ f[rows[k]] = k
    BY <2>3 DEF Inserts
  <2>8. \A x \in L : x[1] \in DOMAIN rows
    BY <1>4, <2>3 DEF SeedLines, Inserts
  <2>9. SeedTypes'
    BY <1>5, <1>7, <2>1, <2>4, <2>5, <2>8 DEF SeedInv, SeedTypes
  <2>10. SeedRows'
    BY <1>5, <2>2, <2>4, <2>5, <2>6, <2>7 DEF SeedInv, SeedRows
  <2>11. ASSUME scriptAlone, NEW d \in DOMAIN fromSeed'.plat, NEW e \in DOMAIN fromSeed'.plat,
                fromSeed'.plat[d] = fromSeed'.plat[e], uncrossed
         PROVE  d = e
    <3>1. q.names = Lowered(plats)
      BY <1>5, <2>11 DEF SeedInv, OneScript, ScriptReads
    <3>2. ASSUME NEW k \in DOMAIN fromSeed.plat, NEW l \in DOMAIN rows
          PROVE  fromSeed'.plat[k] # fromSeed'.plat[l]
      <4>1. fromSeed'.plat[k] = plats[k] /\ k \in DOMAIN plats
        BY <2>6 DEF SeedInv, SeedRows
      <4>2. LowerCase[fromSeed'.plat[k]] \in q.names
        BY <3>1, <4>1 DEF Lowered
      <4>3. LowerCase[fromSeed'.plat[l]] \notin q.names
        BY <1>1, <2>6, <2>7
      <4> QED BY <4>2, <4>3
    <3>3. CASE d \in DOMAIN rows /\ e \in DOMAIN rows
      BY <2>6, <2>7, <2>11, <3>3
    <3>4. CASE d \in DOMAIN fromSeed.plat /\ e \in DOMAIN fromSeed.plat
      BY <2>6, <2>11, <3>4 DEF SeedInv, SampleOnce
    <3> QED BY <2>6, <2>11, <3>2, <3>3, <3>4
  <2>12. ASSUME scriptAlone, uncrossed, NEW d \in DOMAIN fromSeed'.plat
         PROVE  Cardinality({x \in comps' : x[1] = d}) = Cardinality(Template[fromSeed'.plat[d]])
    <3>1. CASE d \in DOMAIN fromSeed.plat
      <4>1. \A x \in L : x[1] # d
        BY <2>6, <2>8, <3>1
      <4>2. {x \in comps' : x[1] = d} = {x \in comps : x[1] = d}
        BY <2>1, <4>1
      <4> QED BY <2>6, <2>12, <3>1, <4>2 DEF SeedInv, SampleOnce
    <3>2. CASE d \in DOMAIN rows
      <4> DEFINE s == rows[d]
                 T == Template[s]
      <4>1. s \in S /\ d = f[s] /\ fromSeed'.plat[d] = s
        BY <2>6, <2>7, <3>2
      <4>2. OneIdEach(q.ids)
        BY <1>5, <2>12 DEF SeedInv, OneScript, ScriptReads
      <4>3. T \subseteq TemplateIngredients /\ IsFiniteSet(T)
        <5>1. T \subseteq TemplateIngredients
          BY <2>2, <4>1 DEF TemplateIngredients
        <5> QED BY <5>1, SeedAssumption, FS_Subset
      <4>4. {x \in comps' : x[1] = d} = LinesOfOne(d, q.ids, T)
        <5>1. \A x \in comps : x[1] # d
          BY <2>4, <3>2 DEF SeedInv, SeedTypes
        <5>2. ASSUME NEW x \in L, x[1] = d PROVE x \in LinesOfOne(d, q.ids, T)
          <6>1. PICK y \in S \X DOMAIN q.ids : y[2] \in Template[y[1]] /\ x = <<f[y[1]], q.ids[y[2]]>>
            BY <1>4, <2>3 DEF SeedLines, Inserts
          <6>2. y[1] = s
            BY <2>3, <4>1, <5>2, <6>1 DEF Inserts
          <6> QED BY <5>2, <6>1, <6>2 DEF LinesOfOne
        <5>3. ASSUME NEW t \in T PROVE <<d, q.ids[t]>> \in L
          <6>1. <<s, t>> \in S \X DOMAIN q.ids
            BY <4>1, <4>2, <4>3 DEF OneIdEach
          <6> QED BY <1>4, <2>3, <4>1, <6>1 DEF SeedLines, Inserts
        <5> QED BY <2>1, <5>1, <5>2, <5>3 DEF LinesOfOne
      <4>5. Cardinality(LinesOfOne(d, q.ids, T)) = Cardinality(T)
        <5>1. \A t, u \in T : q.ids[t] = q.ids[u] => t = u
          BY <4>2, <4>3 DEF OneIdEach
        <5>2. PICK ids, U : ids = q.ids /\ U = T
          OBVIOUS
        <5>3. Cardinality(LinesOfOne(d, ids, U)) = Cardinality(U)
          BY <4>3, <5>1, <5>2, LinesOfPlat
        <5> QED BY <5>2, <5>3
      <4> QED BY <4>1, <4>4, <4>5
    <3> QED BY <2>6, <2>12, <3>1, <3>2
  <2>13. SampleOnce'
    BY <1>5, <2>5, <2>11, <2>12 DEF SeedInv, SampleOnce
  <2>14. MigratedWhole'
    <3>1. {y \in comps' : y[1] \in DOMAIN fromFile.plat} = {y \in comps : y[1] \in DOMAIN fromFile.plat}
      BY <2>1, <2>4, <2>8 DEF SeedInv, SeedRows
    <3>2. MigratedWhole /\ UNCHANGED <<fromFile, migrated, scriptAlone>>
      BY <1>5 DEF SeedInv
    <3> QED BY ONLY <3>1, <3>2 DEF MigratedWhole
  <2> QED BY <1>7, <2>9, <2>10, <2>13, <2>14 DEF SeedInv
<1> QED BY <1>5, <1>8, <1>9

LEMMA MigratesIngredients ==
    ASSUME SeedInv, NEW r \in Workers, MigrateIngredients(r)
    PROVE  SeedInv'
<1>1. PICK S, f : S = DOMAIN FileIngredients /\ f = Numbering(S, lastFood)
  OBVIOUS
<1>2. PICK rows : rows = NamesOf(FileIngredients, RowsAt(f))
  OBVIOUS
<1>3. PICK x : x = [SIdle EXCEPT !.pc = "migrate dishes", !.ids = f]
  OBVIOUS
<1>4. x.pc = "migrate dishes" /\ x.ids = f
  BY <1>3 DEF SIdle
<1>5. /\ sreq[r].pc = "migrate ingredients" /\ SBecome(r, x)
      /\ foods' = Merged(foods, rows) /\ fromFile' = [fromFile EXCEPT !.food = RowsAt(f)]
      /\ lastFood' = lastFood + Cardinality(DOMAIN f)
      /\ UNCHANGED <<plats, comps, lastPlat, fromSeed, migrated, scriptAlone, uncrossed>>
  BY <1>1, <1>2, <1>3 DEF MigrateIngredients
<1>6. IsFiniteSet(S) /\ lastFood \in Nat /\ DOMAIN foods \subseteq 1..lastFood
  BY <1>1, SeedAssumption DEF SeedInv, SeedTypes
<1>7. DOMAIN rows = DOMAIN RowsAt(f)
  BY <1>2 DEF NamesOf
<1>8. Inserts(f, S, rows, foods, lastFood) /\ \A n \in S : RowsAt(f)[f[n]] = n
  BY <1>1, <1>6, <1>7, InsertsRows
<1>9. /\ DOMAIN foods' = DOMAIN foods \cup DOMAIN rows
      /\ DOMAIN foods' \subseteq 1..lastFood' /\ lastFood' \in Nat
      /\ \A k \in DOMAIN foods : foods'[k] = foods[k]
  BY <1>5, <1>8 DEF Inserts, Joins
<1>10. /\ fromFile' = [food |-> fromFile'.food, plat |-> fromFile'.plat, lines |-> fromFile'.lines]
       /\ fromFile'.food = RowsAt(f) /\ fromFile'.plat = fromFile.plat
  BY <1>5 DEF SeedInv, SeedTypes
<1>11. IdsOf(f, FileIngredients, foods', fromFile'.food)
  BY <1>1, <1>7, <1>8, <1>9, <1>10 DEF IdsOf, Inserts
<1>12. scriptAlone => comps = {} /\ ~migrated /\ DOMAIN fromSeed.plat = {}
  BY <1>5 DEF SeedInv, OneScript, ScriptReads
<1>13. scriptAlone => ScriptReads(x)'
  BY <1>4, <1>5, <1>11, <1>12 DEF ScriptReads, IdsOf
<1>14. OneScript' /\ (sreq = [p \in Workers |-> sreq[p]])'
  BY <1>5, <1>13, StepOfScript DEF Busy
<1>15. SeedTypes' /\ SeedRows'
  BY <1>5, <1>9, <1>10, <1>14 DEF SeedInv, SeedTypes, SeedRows
<1>16. SampleOnce'
  <2>1. \A i \in DOMAIN fromSeed.food : foods'[i] = foods[i]
    BY <1>9 DEF SeedInv, SeedRows
  <2>2. SampleOnce /\ UNCHANGED <<comps, fromSeed, scriptAlone, uncrossed>>
    BY <1>5 DEF SeedInv
  <2> QED BY ONLY <2>1, <2>2 DEF SampleOnce
<1>17. MigratedWhole'
  BY <1>5, <1>12 DEF MigratedWhole
<1> QED BY <1>14, <1>15, <1>16, <1>17 DEF SeedInv

LEMMA MigratesPlats ==
    ASSUME SeedInv, NEW r \in Workers, MigratePlats(r)
    PROVE  SeedInv'
<1>1. PICK S, f : S = DOMAIN FileDishes /\ f = Numbering(S, lastPlat)
  OBVIOUS
<1>2. PICK rows : rows = NamesOf(FileDishes, RowsAt(f))
  OBVIOUS
<1>3. PICK x : x = [SIdle EXCEPT !.pc = "migrate lines", !.ids = sreq[r].ids, !.map = f]
  OBVIOUS
<1>4. x.pc = "migrate lines" /\ x.ids = sreq[r].ids /\ x.map = f
  BY <1>3 DEF SIdle
<1>5. /\ sreq[r].pc = "migrate dishes" /\ SBecome(r, x)
      /\ plats' = Merged(plats, rows) /\ fromFile' = [fromFile EXCEPT !.plat = RowsAt(f)]
      /\ lastPlat' = lastPlat + Cardinality(DOMAIN f)
      /\ UNCHANGED <<foods, comps, lastFood, fromSeed, migrated, scriptAlone, uncrossed>>
  BY <1>1, <1>2, <1>3 DEF MigratePlats
<1>6. IsFiniteSet(S) /\ lastPlat \in Nat /\ DOMAIN plats \subseteq 1..lastPlat
  BY <1>1, SeedAssumption DEF SeedInv, SeedTypes
<1>7. DOMAIN rows = DOMAIN RowsAt(f)
  BY <1>2 DEF NamesOf
<1>8. Inserts(f, S, rows, plats, lastPlat) /\ \A n \in S : RowsAt(f)[f[n]] = n
  BY <1>1, <1>6, <1>7, InsertsRows
<1>9. /\ DOMAIN plats' = DOMAIN plats \cup DOMAIN rows
      /\ DOMAIN plats' \subseteq 1..lastPlat' /\ lastPlat' \in Nat /\ 1..lastPlat \subseteq 1..lastPlat'
      /\ \A k \in DOMAIN plats : plats'[k] = plats[k]
      /\ DOMAIN rows \subseteq 1..lastPlat'
  <2>1. DOMAIN f = S /\ Joins(rows, plats, lastPlat, Cardinality(S)) /\ Cardinality(S) \in Nat
    BY <1>6, <1>8, FS_CardinalityType DEF Inserts
  <2>2. 1..lastPlat \subseteq 1..lastPlat + Cardinality(S)
    BY <1>6, <2>1
  <2> QED BY <1>5, <2>1, <2>2 DEF Joins
<1>10. /\ fromFile' = [food |-> fromFile'.food, plat |-> fromFile'.plat, lines |-> fromFile'.lines]
       /\ fromFile'.plat = RowsAt(f) /\ fromFile'.food = fromFile.food
  BY <1>5 DEF SeedInv, SeedTypes
<1>11. IdsOf(f, FileDishes, plats', fromFile'.plat)
  BY <1>1, <1>7, <1>8, <1>9, <1>10 DEF IdsOf, Inserts
<1>12. scriptAlone => /\ comps = {} /\ ~migrated /\ DOMAIN fromSeed.plat = {}
                      /\ IdsOf(x.ids, FileIngredients, foods, fromFile.food)
  BY <1>4, <1>5 DEF SeedInv, OneScript, ScriptReads
<1>13. scriptAlone => ScriptReads(x)'
  BY <1>4, <1>5, <1>10, <1>11, <1>12 DEF ScriptReads, IdsOf
<1>14. OneScript' /\ (sreq = [p \in Workers |-> sreq[p]])'
  BY <1>5, <1>13, StepOfScript DEF Busy
<1>15. SeedTypes'
  BY <1>5, <1>9, <1>10, <1>14 DEF SeedInv, SeedTypes
<1>16. SeedRows'
  BY <1>5, <1>7, <1>9, <1>10 DEF SeedInv, SeedRows
<1>17. SampleOnce' /\ MigratedWhole'
  BY <1>5, <1>12, SampleSame DEF SeedInv, MigratedWhole
<1> QED BY <1>14, <1>15, <1>16, <1>17 DEF SeedInv

LEMMA MigratesCompositions ==
    ASSUME SeedInv, NEW r \in Workers, MigrateCompositions(r)
    PROVE  SeedInv'
<1> DEFINE q == sreq[r]
<1>1. PICK L \in FileLines :
         LET mapped == {k \in DOMAIN L : L[k][1] \in DOMAIN q.map /\ L[k][2] \in DOMAIN q.ids}
             lineAt(k) == <<q.map[L[k][1]], q.ids[L[k][2]]>>
             refused == \/ \E k \in mapped : lineAt(k)[1] \notin DOMAIN plats \/ lineAt(k)[2] \notin DOMAIN foods
                        \/ \E j, k \in mapped : j # k /\ L[j] = L[k]
         IN /\ comps' = IF refused THEN comps ELSE comps \cup {lineAt(k) : k \in mapped}
            /\ fromFile' = [fromFile EXCEPT !.lines = L]
  BY DEF MigrateCompositions
<1> DEFINE mapped == {k \in DOMAIN L : L[k][1] \in DOMAIN q.map /\ L[k][2] \in DOMAIN q.ids}
           lineAt(k) == <<q.map[L[k][1]], q.ids[L[k][2]]>>
<1>2. /\ q.pc = "migrate lines" /\ migrated' = TRUE /\ SBecome(r, SIdle)
      /\ UNCHANGED <<foods, plats, lastFood, lastPlat, fromSeed, scriptAlone, uncrossed>>
  BY DEF MigrateCompositions
<1>3. \A x \in comps' : x \in comps \/ \E k \in mapped : x = lineAt(k) /\ lineAt(k)[1] \in DOMAIN plats
  BY <1>1
<1>4. /\ fromFile' = [food |-> fromFile'.food, plat |-> fromFile'.plat, lines |-> fromFile'.lines]
      /\ fromFile'.food = fromFile.food /\ fromFile'.plat = fromFile.plat /\ fromFile'.lines = L
  BY <1>1 DEF SeedInv, SeedTypes
<1>5. ScriptReads(SIdle)'
  BY DEF ScriptReads, SIdle
<1>6. OneScript' /\ (sreq = [p \in Workers |-> sreq[p]])'
  BY <1>2, <1>5, StepOfScript DEF Busy
<1>7. \A x \in comps' : x[1] \in 1..lastPlat
  BY <1>3 DEF SeedInv, SeedTypes
<1>8. SeedTypes' /\ SeedRows'
  BY <1>2, <1>4, <1>6, <1>7 DEF SeedInv, SeedTypes, SeedRows
<1>9. ASSUME scriptAlone
      PROVE  /\ comps = {} /\ DOMAIN fromSeed.plat = {}
             /\ IdsOf(q.ids, FileIngredients, foods, fromFile.food)
             /\ IdsOf(q.map, FileDishes, plats, fromFile.plat)
  BY <1>2, <1>9 DEF SeedInv, OneScript, ScriptReads
<1>10. SampleOnce'
  <2>1. SampleOnce /\ UNCHANGED <<foods, fromSeed, scriptAlone, uncrossed>> /\ (scriptAlone => DOMAIN fromSeed.plat = {})
    BY <1>2, <1>9 DEF SeedInv
  <2> QED BY ONLY <2>1 DEF SampleOnce
<1>11. MigratedWhole'
  <2> DEFINE known == {k \in DOMAIN L : L[k][1] \in DOMAIN FileDishes /\ L[k][2] \in DOMAIN FileIngredients}
             once == \A j, k \in known : L[j] = L[k] => j = k
             recipes == {<<fromFile.plat[x[1]], fromFile.food[x[2]]>> :
                            x \in {y \in comps' : y[1] \in DOMAIN fromFile.plat}}
  <2>1. ASSUME scriptAlone
        PROVE  recipes = IF once THEN {L[k] : k \in known} ELSE {}
    <3>1. mapped = known
      BY <1>9, <2>1 DEF IdsOf
    <3>2. \A k \in known : lineAt(k)[1] \in DOMAIN plats /\ lineAt(k)[2] \in DOMAIN foods
      BY <1>9, <2>1 DEF IdsOf
    <3>3. comps' = IF once THEN {lineAt(k) : k \in known} ELSE {}
      BY <1>1, <1>9, <2>1, <3>1, <3>2
    <3>4. ASSUME NEW k \in known
          PROVE  /\ lineAt(k)[1] \in DOMAIN fromFile.plat
                 /\ <<fromFile.plat[lineAt(k)[1]], fromFile.food[lineAt(k)[2]]>> = L[k]
      <4>1. L[k] \in Nat \X Nat
        BY SeedAssumption
      <4>2. L[k] = <<L[k][1], L[k][2]>>
        BY <4>1
      <4>3. /\ lineAt(k)[1] \in DOMAIN fromFile.plat
            /\ fromFile.plat[lineAt(k)[1]] = L[k][1] /\ fromFile.food[lineAt(k)[2]] = L[k][2]
        BY <1>9, <2>1 DEF IdsOf
      <4> QED BY <4>2, <4>3
    <3> HIDE DEF known, lineAt, once
    <3>5. CASE ~once
      BY <3>3, <3>5
    <3>6. CASE once
      BY <3>3, <3>4, <3>6
    <3> QED BY <3>5, <3>6
  <2>2. /\ fromFile'.plat = fromFile.plat /\ fromFile'.food = fromFile.food /\ fromFile'.lines = L
        /\ scriptAlone' = scriptAlone
    BY <1>2, <1>4
  <2> QED BY <2>1, <2>2 DEF MigratedWhole
<1> QED BY <1>6, <1>8, <1>10, <1>11 DEF SeedInv

(* A request gives a new row, or one that is there, a name nobody has. *)
LEMMA ApiSteps ==
    ASSUME SeedInv, ApiStep
    PROVE  SeedInv'
<1>1. /\ uncrossed' = (uncrossed /\ \A r \in Workers : ~Busy(sreq, r))
      /\ UNCHANGED <<plats, comps, lastPlat, fromSeed, fromFile, migrated, scriptAlone, sreq>>
  BY DEF ApiStep
<1>2. /\ DOMAIN foods \subseteq DOMAIN foods' /\ DOMAIN foods' \subseteq 1..lastFood' /\ lastFood' \in Nat
      /\ \A i, j \in DOMAIN foods : foods'[i] = foods'[j] /\ i # j => foods[i] = foods[j]
  <2>1. PICK n : /\ n \notin {foods[i] : i \in DOMAIN foods}
                 /\ \/ /\ lastFood' = lastFood + 1
                       /\ foods' = Merged(foods, [k \in {lastFood'} |-> n])
                    \/ /\ \E i \in DOMAIN foods : foods' = [foods EXCEPT ![i] = n]
                       /\ UNCHANGED lastFood
    BY DEF ApiStep
  <2>2. lastFood \in Nat /\ DOMAIN foods \subseteq 1..lastFood
    BY DEF SeedInv, SeedTypes
  <2>3. CASE lastFood' = lastFood + 1 /\ foods' = Merged(foods, [k \in {lastFood'} |-> n])
    <3>1. DOMAIN foods' = DOMAIN foods \cup {lastFood'}
      BY <2>3 DEF Merged
    <3>2. lastFood' \in Nat /\ 1..lastFood' = 1..lastFood \cup {lastFood'} /\ lastFood' \notin 1..lastFood
      BY <2>2, <2>3
    <3>3. \A i \in DOMAIN foods : foods'[i] = foods[i]
      BY <2>2, <2>3, <3>2 DEF Merged
    <3> QED BY <2>2, <3>1, <3>2, <3>3
  <2>4. CASE (\E i \in DOMAIN foods : foods' = [foods EXCEPT ![i] = n]) /\ UNCHANGED lastFood
    <3>1. PICK i \in DOMAIN foods : foods' = [foods EXCEPT ![i] = n]
      BY <2>4
    <3>2. DOMAIN foods' = DOMAIN foods /\ foods'[i] = n /\ \A j \in DOMAIN foods : j # i => foods'[j] = foods[j]
      BY <3>1
    <3> QED BY <2>1, <2>2, <2>4, <3>2
  <2> QED BY <2>1, <2>3, <2>4
<1>3. SeedTypes' /\ SeedRows'
  BY <1>1, <1>2 DEF SeedInv, SeedTypes, SeedRows
<1>4. OneScript'
  <2>1. ASSUME scriptAlone, NEW r \in Workers PROVE ScriptReads(sreq[r])'
    <3>1. PICK q : q = sreq[r]
      OBVIOUS
    <3>2. q = sreq'[r] /\ ScriptReads(q)
      BY <1>1, <2>1, <3>1 DEF SeedInv, OneScript
    <3>3. uncrossed' => q.pc = "idle"
      BY <1>1, <3>1 DEF Busy
    <3>4. Lowered(plats)' = Lowered(plats)
      BY <1>1 DEF Lowered
    <3>5. /\ q.pc \in {"migrate dishes", "migrate lines"} => IdsOf(q.ids, FileIngredients, foods', fromFile'.food)
          /\ q.pc = "migrate lines" => IdsOf(q.map, FileDishes, plats', fromFile'.plat)
      BY <1>1, <1>2, <3>2 DEF ScriptReads, IdsOf
    <3>6. /\ q.pc = "seed dishes" => q.names = Lowered(plats)'
          /\ q.pc \in {"migrate ingredients", "migrate dishes", "migrate lines"} =>
                comps' = {} /\ ~migrated' /\ DOMAIN fromSeed'.plat = {}
      BY <1>1, <3>2, <3>4 DEF ScriptReads
    <3>7. q = sreq'[r]
      BY <3>2
    <3> QED BY <3>3, <3>5, <3>6, <3>7 DEF ScriptReads
  <2> QED BY <1>1, <2>1 DEF SeedInv, OneScript, Busy
<1>5. SampleOnce'
  <2>1. ASSUME NEW i \in DOMAIN fromSeed.food, NEW j \in DOMAIN fromSeed.food, foods'[i] = foods'[j], i # j
        PROVE  foods[i] = foods[j]
    BY <1>2, <2>1 DEF SeedInv, SeedRows
  <2>2. SampleOnce /\ UNCHANGED <<comps, fromSeed, scriptAlone>> /\ (uncrossed' => uncrossed)
    BY <1>1 DEF SeedInv
  <2> QED BY ONLY <2>1, <2>2 DEF SampleOnce
<1>6. MigratedWhole'
  BY <1>1, MigratedSame DEF SeedInv
<1> QED BY <1>3, <1>4, <1>5, <1>6 DEF SeedInv

LEMMA CutsOff ==
    ASSUME SeedInv, NEW r \in Workers, CutOff(r)
    PROVE  SeedInv'
<1>1. /\ Busy(sreq, r) /\ SBecome(r, SIdle)
      /\ UNCHANGED <<foods, plats, comps, lastFood, lastPlat, fromSeed, fromFile, migrated,
                     scriptAlone, uncrossed>>
  BY DEF CutOff, seedDb, seedHistory
<1>2. ScriptReads(SIdle)'
  BY DEF ScriptReads, SIdle
<1>3. OneScript' /\ (sreq = [p \in Workers |-> sreq[p]])'
  BY <1>1, <1>2, StepOfScript
<1>4. SampleOnce' /\ MigratedWhole'
  BY <1>1, SampleSame, MigratedSame DEF SeedInv
<1>5. SeedTypes' /\ SeedRows'
  BY <1>1, <1>3 DEF SeedInv, SeedTypes, SeedRows
<1> QED BY <1>3, <1>4, <1>5 DEF SeedInv

LEMMA NextSeed == SeedInv /\ [SeedNext]_seedVars => SeedInv'
<1> SUFFICES ASSUME SeedInv, [SeedNext]_seedVars PROVE SeedInv'
  OBVIOUS
<1>1. CASE UNCHANGED seedVars
  <2>1. UNCHANGED <<foods, plats, comps, lastFood, lastPlat, fromSeed, fromFile, migrated, scriptAlone,
                    uncrossed, sreq>>
    BY <1>1 DEF seedVars, seedDb, seedHistory
  <2>2. SampleOnce' /\ MigratedWhole'
    BY <2>1, SampleSame, MigratedSame DEF SeedInv
  <2>3. SeedTypes' /\ SeedRows'
    BY <2>1 DEF SeedInv, SeedTypes, SeedRows
  <2>4. \A q : ScriptReads(q) => ScriptReads(q)'
    BY <2>1 DEF ScriptReads, Lowered
  <2>5. ASSUME scriptAlone, NEW r \in Workers PROVE ScriptReads(sreq[r])'
    <3>1. PICK q : q = sreq[r]
      OBVIOUS
    <3>2. q = sreq'[r] /\ ScriptReads(q)
      BY <2>1, <2>5, <3>1 DEF SeedInv, OneScript
    <3>3. ScriptReads(q)' /\ q = sreq'[r]
      BY <2>4, <3>2
    <3> QED BY <3>3
  <2>6. OneScript'
    BY <2>1, <2>5 DEF SeedInv, OneScript, Busy
  <2> QED BY <2>2, <2>3, <2>6 DEF SeedInv
<1>2. CASE SeedNext
  BY <1>2, BeginsSeed, BeginsMigration, SeedsIngredients, ReadsPlats, SeedsPlats, MigratesIngredients,
     MigratesPlats, MigratesCompositions, ApiSteps, CutsOff DEF SeedNext
<1> QED BY <1>1, <1>2

(***************************************************************************)
(* The backup's products.  What a script has gone through is in its codes  *)
(* (existing), so the product it inserts is the first of its code; and     *)
(* codes it knows of are on record or its own, until a recalculation.      *)
(***************************************************************************)
BackupCodes == Codes \cup Bought \cup DOMAIN Backup
BackupRequest ==
    [pc : {"idle", "insert"}, k : 0..Len(Backup), existing : SUBSET BackupCodes,
     new : SUBSET DOMAIN Backup, broken : BOOLEAN, stale : BOOLEAN]
FirstOf(k) == \A j \in 1..k - 1 : Backup[j].orphan \/ EanOf(j) # EanOf(k)

GoesThrough(q) ==
    /\ q.pc = "idle" => q = BIdle
    /\ ~q.broken =>
          /\ \A j \in 1..q.k : Backup[j].orphan \/ EanOf(j) \in q.existing
          /\ \A k \in q.new : EanOf(k) \notin DOMAIN sold /\ FirstOf(k)
          /\ ~q.stale => q.existing \subseteq DOMAIN sold \cup {EanOf(k) : k \in q.new}
ApartFrom(p, q) ==
    ~p.broken /\ ~q.broken => \A j \in p.new, k \in q.new : EanOf(j) # EanOf(k)

BackupInv ==
    /\ bpreq \in [Workers -> BackupRequest] /\ DOMAIN sold \subseteq BackupCodes
    /\ kept => \A k \in DOMAIN Backup : Backup[k].orphan \/ EanOf(k) \in DOMAIN sold
    /\ \A e \in DOMAIN sold : sold[e] # NoProduct =>
          sold[e] \in DOMAIN Backup /\ EanOf(sold[e]) = e /\ FirstOf(sold[e])
    /\ \A r \in Workers : GoesThrough(bpreq[r])
    /\ \A p, r \in Workers : p # r => ApartFrom(bpreq[p], bpreq[r])

(* The code of a product: its principal barcode, if it has one. *)
LEMMA CodeOf ==
    ASSUME NEW k \in DOMAIN Backup
    PROVE  /\ EanOf(k) \in BackupCodes
           /\ LET b == Backup[k].barcodes IN
              (\E j \in DOMAIN b : b[j].principal) => \E j \in DOMAIN b : b[j].principal /\ b[j].code = EanOf(k)
<1> DEFINE b == Backup[k].barcodes
           P == {j \in DOMAIN b : b[j].principal}
<1>1. Backup[k] \in [orphan : BOOLEAN, barcodes : Seq([code : Codes, principal : BOOLEAN])]
  <2> DEFINE R == [orphan : BOOLEAN, barcodes : Seq([code : Codes, principal : BOOLEAN])]
  <2>1. Backup \in Seq(R)
    BY BackupAssumption
  <2> HIDE DEF R
  <2>2. Backup[k] \in R
    BY <2>1
  <2> QED BY <2>2 DEF R
<1>2. b \in Seq([code : Codes, principal : BOOLEAN])
  BY <1>1
<1>3. CASE b = <<>>
  <2>1. EanOf(k) = k /\ DOMAIN b = {}
    BY <1>3 DEF EanOf
  <2> QED BY <2>1 DEF BackupCodes
<1>4. CASE b # <<>>
  <2> DEFINE c == IF P = {} THEN 1 ELSE CHOOSE m \in P : \A i \in P : m <= i
  <2>1. EanOf(k) = b[c].code
    BY <1>4 DEF EanOf
  <2>2. P \subseteq Nat /\ P \subseteq DOMAIN b /\ 1 \in DOMAIN b
    BY <1>2, <1>4
  <2>3. P # {} => c \in P
    <3>1. P # {} => \E m \in P : \A i \in P : m <= i
      BY <2>2, LeastNatural
    <3> QED BY <3>1
  <2> HIDE DEF c
  <2>4. c \in DOMAIN b /\ (P # {} => b[c].principal)
    <3>1. CASE P = {}
      BY <2>2, <3>1 DEF c
    <3> QED BY <2>2, <2>3, <3>1
  <2>5. b[c].code \in Codes
    <3> DEFINE R == [code : Codes, principal : BOOLEAN]
    <3>1. b \in Seq(R)
      BY <1>2
    <3> HIDE DEF R, b
    <3>2. b[c] \in R
      BY <2>4, <3>1
    <3> QED BY <3>2 DEF R
  <2> QED BY <2>1, <2>4, <2>5 DEF BackupCodes
<1> QED BY <1>3, <1>4

LEMMA BIdleType == BIdle \in BackupRequest /\ GoesThrough(BIdle) /\ BIdle.new = {}
<1>1. BIdle \in BackupRequest /\ BIdle.new = {} /\ BIdle.existing = {} /\ BIdle.k = 0
  BY BackupAssumption DEF BIdle, BackupRequest
<1> QED BY <1>1 DEF GoesThrough

LEMMA InitBackup == BackupInit => BackupInv
<1> SUFFICES ASSUME BackupInit PROVE BackupInv
  OBVIOUS
<1>1. \A r \in Workers : bpreq[r] = BIdle
  BY DEF BackupInit
<1> QED BY <1>1, BIdleType DEF BackupInit, BackupInv, ApartFrom

LEMMA ReadBackup ==
    ASSUME BackupInv, NEW r \in Workers, ReadExisting(r)
    PROVE  BackupInv'
<1>1. PICK x : x = [BIdle EXCEPT !.pc = "insert", !.existing = DOMAIN sold]
  OBVIOUS
<1>2. /\ x.pc = "insert" /\ x.k = 0 /\ x.existing = DOMAIN sold /\ x.new = {}
      /\ ~x.broken /\ ~x.stale /\ x \in BackupRequest
  <2>1. /\ x.pc = "insert" /\ x.k = 0 /\ x.existing = DOMAIN sold /\ x.new = {}
        /\ ~x.broken /\ ~x.stale
    BY <1>1 DEF BIdle
  <2>2. x \in BackupRequest
    BY <1>1, BIdleType DEF BackupRequest, BackupInv
  <2> QED BY <2>1, <2>2
<1>3. /\ bpreq' = [bpreq EXCEPT ![r] = x] /\ UNCHANGED <<sold, kept>>
  BY <1>1 DEF ReadExisting, BBecome
<1>4. /\ bpreq' \in [Workers -> BackupRequest] /\ bpreq'[r] = x
      /\ \A q \in Workers \ {r} : bpreq'[q] = bpreq[q]
  BY <1>2, <1>3 DEF BackupInv
<1>5. GoesThrough(x)
  BY <1>2 DEF GoesThrough
<1>6. \A q \in Workers : GoesThrough(bpreq'[q])
  BY <1>4, <1>5 DEF BackupInv
<1>7. \A q \in Workers : GoesThrough(bpreq[q])'
  BY <1>3, <1>6 DEF GoesThrough
<1>8. \A p, q \in Workers : p # q => ApartFrom(bpreq'[p], bpreq'[q])
  <2>1. \A y : ApartFrom(x, y) /\ ApartFrom(y, x)
    BY <1>2 DEF ApartFrom
  <2> QED BY <1>4, <2>1 DEF BackupInv
<1> QED BY <1>3, <1>4, <1>7, <1>8 DEF BackupInv, ApartFrom

LEMMA InsertBackup ==
    ASSUME BackupInv, NEW r \in Workers, InsertProduct(r)
    PROVE  BackupInv'
<1> DEFINE q == bpreq[r]
           k == q.k + 1
           e == EanOf(k)
           skipped == Backup[k].orphan \/ e \in q.existing
           refused == q.broken \/ e \in DOMAIN sold
<1>1. PICK x : x = IF skipped THEN [q EXCEPT !.k = k]
                   ELSE IF refused THEN [q EXCEPT !.k = k, !.broken = TRUE]
                   ELSE [q EXCEPT !.k = k, !.existing = @ \cup {e}, !.new = @ \cup {k}]
  OBVIOUS
<1>2. /\ q \in BackupRequest /\ GoesThrough(q) /\ q.pc = "insert"
      /\ Len(Backup) \in Nat /\ DOMAIN Backup = 1..Len(Backup) /\ k \in DOMAIN Backup /\ q.k \in Nat
  BY BackupAssumption DEF BackupInv, InsertProduct, BackupRequest
<1>3. bpreq' = [bpreq EXCEPT ![r] = x] /\ UNCHANGED <<sold, kept>>
  BY <1>1 DEF InsertProduct, BBecome
<1>4. e \in BackupCodes
  BY <1>2, CodeOf
<1>5. x \in BackupRequest /\ x.pc = "insert" /\ x.k = k /\ x.stale = q.stale
  <2>1. k \in 0..Len(Backup) /\ q.existing \cup {e} \subseteq BackupCodes /\ q.new \cup {k} \subseteq DOMAIN Backup
    BY <1>2, <1>4 DEF BackupRequest
  <2> HIDE DEF k, e
  <2>2. CASE skipped
    BY <1>1, <1>2, <2>1, <2>2 DEF BackupRequest
  <2>3. CASE ~skipped /\ refused
    BY <1>1, <1>2, <2>1, <2>3 DEF BackupRequest
  <2>4. CASE ~skipped /\ ~refused
    BY <1>1, <1>2, <2>1, <2>4 DEF BackupRequest
  <2> QED BY <2>2, <2>3, <2>4
<1>6. ASSUME ~x.broken
      PROVE  /\ ~q.broken
             /\ IF skipped THEN x.existing = q.existing /\ x.new = q.new
                ELSE /\ e \notin DOMAIN sold
                     /\ x.existing = q.existing \cup {e} /\ x.new = q.new \cup {k}
  BY <1>1, <1>2, <1>6 DEF BackupRequest
<1>7. GoesThrough(x)
  <2> SUFFICES ASSUME ~x.broken
               PROVE  /\ \A j \in 1..x.k : Backup[j].orphan \/ EanOf(j) \in x.existing
                      /\ \A j \in x.new : EanOf(j) \notin DOMAIN sold /\ FirstOf(j)
                      /\ ~x.stale => x.existing \subseteq DOMAIN sold \cup {EanOf(j) : j \in x.new}
    BY <1>5 DEF GoesThrough
  <2>1. /\ \A j \in 1..q.k : Backup[j].orphan \/ EanOf(j) \in q.existing
        /\ \A j \in q.new : EanOf(j) \notin DOMAIN sold /\ FirstOf(j)
        /\ ~q.stale => q.existing \subseteq DOMAIN sold \cup {EanOf(j) : j \in q.new}
    BY <1>2, <1>6 DEF GoesThrough
  <2>2. 1..x.k = 1..q.k \cup {k} /\ k - 1 = q.k
    BY <1>2, <1>5
  <2>3. \A j \in 1..x.k : Backup[j].orphan \/ EanOf(j) \in x.existing
    BY <1>6, <2>1, <2>2
  <2>4. ~skipped => FirstOf(k)
    BY <2>1, <2>2 DEF FirstOf
  <2>5. \A j \in x.new : EanOf(j) \notin DOMAIN sold /\ FirstOf(j)
    BY <1>6, <2>1, <2>4
  <2>6. ~x.stale => x.existing \subseteq DOMAIN sold \cup {EanOf(j) : j \in x.new}
    BY <1>5, <1>6, <2>1
  <2> QED BY <2>3, <2>5, <2>6
<1>8. ASSUME NEW p \in Workers, p # r
      PROVE  ApartFrom(bpreq[p], x) /\ ApartFrom(x, bpreq[p])
  <2> SUFFICES ASSUME ~bpreq[p].broken, ~x.broken
               PROVE  \A i \in bpreq[p].new, j \in x.new : EanOf(i) # EanOf(j)
    BY DEF ApartFrom
  <2>1. \A i \in bpreq[p].new, j \in q.new : EanOf(i) # EanOf(j)
    BY <1>6, <1>8 DEF BackupInv, ApartFrom
  <2>2. CASE skipped
    BY <1>6, <2>1, <2>2
  <2>3. CASE ~skipped
    <3>1. \A o \in InProgress(bpreq, r) : o.broken \/ \A i \in o.new : EanOf(i) # e
      BY <1>6, <2>3 DEF InsertProduct
    <3>2. bpreq[p].new = {} \/ bpreq[p] \in InProgress(bpreq, r)
      BY <1>8, BIdleType DEF InProgress, Busy, BackupInv, GoesThrough
    <3>3. \A i \in bpreq[p].new : EanOf(i) # e
      BY <3>1, <3>2
    <3> QED BY <1>6, <2>1, <2>3, <3>3
  <2> QED BY <2>2, <2>3
<1> HIDE DEF q, k, e, skipped, refused
<1>9. /\ bpreq' \in [Workers -> BackupRequest] /\ bpreq'[r] = x
      /\ \A p \in Workers \ {r} : bpreq'[p] = bpreq[p]
  BY <1>3, <1>5 DEF BackupInv
<1>10. \A p \in Workers : GoesThrough(bpreq'[p])
  BY <1>7, <1>9 DEF BackupInv
<1>11. \A p \in Workers : GoesThrough(bpreq[p])'
  BY <1>3, <1>10 DEF GoesThrough
<1>12. \A p, o \in Workers : p # o => ApartFrom(bpreq'[p], bpreq'[o])
  BY <1>8, <1>9 DEF BackupInv
<1> QED BY <1>3, <1>9, <1>11, <1>12 DEF BackupInv, ApartFrom

LEMMA CommitBackup ==
    ASSUME BackupInv, NEW r \in Workers, CommitMigration(r)
    PROVE  BackupInv'
<1> DEFINE q == bpreq[r]
           new == IF q.broken THEN {} ELSE q.new
           codes == {EanOf(i) : i \in new}
<1>1. /\ q \in BackupRequest /\ GoesThrough(q) /\ q.k = Len(Backup)
      /\ DOMAIN Backup = 1..Len(Backup) /\ new \subseteq DOMAIN Backup
  BY BackupAssumption DEF BackupInv, CommitMigration, BackupRequest
<1>2. /\ sold' = [e \in DOMAIN sold \cup codes |->
                    IF e \in codes THEN CHOOSE i \in new : EanOf(i) = e ELSE sold[e]]
      /\ kept' = (kept \/ ~(q.broken \/ q.stale))
      /\ bpreq' = [bpreq EXCEPT ![r] = BIdle]
  BY DEF CommitMigration, BBecome
<1>3. /\ bpreq' \in [Workers -> BackupRequest] /\ bpreq'[r] = BIdle
      /\ \A p \in Workers \ {r} : bpreq'[p] = bpreq[p]
  BY <1>2, BIdleType DEF BackupInv
<1>4. DOMAIN sold' = DOMAIN sold \cup codes
  BY <1>2
<1>5. codes \subseteq BackupCodes
  BY <1>1, CodeOf
<1>6. \A i \in new : FirstOf(i) /\ EanOf(i) \notin DOMAIN sold
  BY <1>1 DEF GoesThrough
<1>7. ASSUME kept', NEW i \in DOMAIN Backup
      PROVE  Backup[i].orphan \/ EanOf(i) \in DOMAIN sold'
  <2>1. CASE kept
    BY <1>4, <2>1 DEF BackupInv
  <2>2. CASE ~q.broken /\ ~q.stale
    <3>1. Backup[i].orphan \/ EanOf(i) \in q.existing
      BY <1>1, <2>2 DEF GoesThrough
    <3>2. q.existing \subseteq DOMAIN sold \cup codes
      BY <1>1, <2>2 DEF GoesThrough
    <3> QED BY <1>4, <3>1, <3>2
  <2> QED BY <1>2, <1>7, <2>1, <2>2
<1>8. ASSUME NEW e \in DOMAIN sold', sold'[e] # NoProduct
      PROVE  sold'[e] \in DOMAIN Backup /\ EanOf(sold'[e]) = e /\ FirstOf(sold'[e])
  <2>1. CASE e \in codes
    <3>1. \E i \in new : EanOf(i) = e
      BY <2>1
    <3>2. sold'[e] \in new /\ EanOf(sold'[e]) = e
      BY <1>2, <1>4, <2>1, <3>1
    <3> QED BY <1>1, <1>6, <3>2
  <2>2. CASE e \notin codes
    <3>1. e \in DOMAIN sold /\ sold'[e] = sold[e]
      BY <1>2, <1>4, <2>2
    <3> QED BY <1>8, <3>1 DEF BackupInv
  <2> QED BY <2>1, <2>2
<1>9. ASSUME NEW p \in Workers, p # r PROVE GoesThrough(bpreq[p])'
  <2>1. GoesThrough(bpreq[p]) /\ ApartFrom(bpreq[p], q)
    BY <1>9 DEF BackupInv
  <2>2. ~bpreq[p].broken => \A i \in bpreq[p].new : EanOf(i) \notin codes
    BY <2>1 DEF ApartFrom
  <2>3. PICK o : o = bpreq[p]
    OBVIOUS
  <2>4. o = bpreq'[p]
    BY <1>3, <1>9, <2>3
  <2> HIDE DEF codes
  <2>5. /\ o.pc = "idle" => o = BIdle
        /\ ~o.broken =>
             /\ \A j \in 1..o.k : Backup[j].orphan \/ EanOf(j) \in o.existing
             /\ \A i \in o.new : EanOf(i) \notin DOMAIN sold' /\ FirstOf(i)
             /\ ~o.stale => o.existing \subseteq DOMAIN sold' \cup {EanOf(i) : i \in o.new}
    BY <1>4, <2>1, <2>2, <2>3 DEF GoesThrough
  <2> QED BY <2>4, <2>5 DEF GoesThrough
<1>10. GoesThrough(bpreq[r])'
  <2>1. PICK o : o = BIdle
    OBVIOUS
  <2>2. o = bpreq'[r] /\ o.k = 0 /\ o.new = {} /\ o.existing = {} /\ o = BIdle
    BY <1>3, <2>1 DEF BIdle
  <2> QED BY <2>2 DEF GoesThrough
<1> HIDE DEF q, new, codes
<1>11. \A p, o \in Workers : p # o => ApartFrom(bpreq'[p], bpreq'[o])
  <2>1. \A y : ApartFrom(BIdle, y) /\ ApartFrom(y, BIdle)
    BY BIdleType DEF ApartFrom
  <2> QED BY <1>3, <2>1 DEF BackupInv
<1>12. DOMAIN sold' \subseteq BackupCodes
  BY <1>4, <1>5 DEF BackupInv
<1> QED BY <1>3, <1>7, <1>8, <1>9, <1>10, <1>11, <1>12 DEF BackupInv, ApartFrom

LEMMA RecalculatedBackup ==
    ASSUME BackupInv, Recalculated
    PROVE  BackupInv'
<1>1. /\ sold' = [e \in Bought |-> NoProduct] /\ ~kept' /\ DOMAIN sold' = Bought
      /\ bpreq' = [r \in Workers |-> [bpreq[r] EXCEPT !.stale = Busy(bpreq, r)]]
      /\ \A r \in Workers : ~bpreq[r].broken => \A i \in bpreq[r].new : EanOf(i) \notin Bought
  BY DEF Recalculated
<1>2. ASSUME NEW r \in Workers
      PROVE  /\ bpreq'[r] \in BackupRequest /\ GoesThrough(bpreq[r])'
             /\ bpreq'[r].new = bpreq[r].new /\ bpreq'[r].broken = bpreq[r].broken
  <2>1. bpreq[r] \in BackupRequest /\ GoesThrough(bpreq[r])
    BY DEF BackupInv
  <2>2. PICK x : x = [bpreq[r] EXCEPT !.stale = Busy(bpreq, r)]
    OBVIOUS
  <2>3. /\ x \in BackupRequest /\ x = bpreq'[r] /\ x.pc = bpreq[r].pc /\ x.k = bpreq[r].k
        /\ x.existing = bpreq[r].existing /\ x.new = bpreq[r].new /\ x.broken = bpreq[r].broken
        /\ x.stale = (bpreq[r].pc # "idle")
    BY <1>1, <2>1, <2>2 DEF BackupRequest, Busy
  <2>4. ASSUME x.pc = "idle" PROVE x = BIdle
    <3>1. bpreq[r] = BIdle /\ Busy(bpreq, r) = FALSE
      BY <2>1, <2>3, <2>4 DEF GoesThrough, Busy
    <3>2. x = [BIdle EXCEPT !.stale = FALSE]
      BY <2>2, <3>1
    <3> QED BY <3>2 DEF BIdle
  <2>5. ~x.broken =>
           /\ \A j \in 1..x.k : Backup[j].orphan \/ EanOf(j) \in x.existing
           /\ \A i \in x.new : EanOf(i) \notin DOMAIN sold' /\ FirstOf(i)
           /\ ~x.stale => x.existing = {}
    BY <1>1, <2>1, <2>3, <2>4 DEF GoesThrough, BIdle
  <2>6. GoesThrough(bpreq[r])'
    BY <2>3, <2>4, <2>5 DEF GoesThrough
  <2> QED BY <2>3, <2>6
<1>3. bpreq' \in [Workers -> BackupRequest]
  BY <1>1, <1>2
<1>4. \A p, r \in Workers : p # r => ApartFrom(bpreq'[p], bpreq'[r])
  BY <1>2 DEF BackupInv, ApartFrom
<1> QED BY <1>1, <1>2, <1>3, <1>4 DEF BackupInv, ApartFrom, BackupCodes

LEMMA CutOffBackup ==
    ASSUME BackupInv, NEW r \in Workers, MigrationCutOff(r)
    PROVE  BackupInv'
<1>1. bpreq' = [bpreq EXCEPT ![r] = BIdle] /\ UNCHANGED <<sold, kept>>
  BY DEF MigrationCutOff, BBecome
<1>2. /\ bpreq' \in [Workers -> BackupRequest] /\ bpreq'[r] = BIdle
      /\ \A q \in Workers \ {r} : bpreq'[q] = bpreq[q]
  BY <1>1, BIdleType DEF BackupInv
<1>3. \A q \in Workers : GoesThrough(bpreq'[q])
  BY <1>2, BIdleType DEF BackupInv
<1>4. \A q \in Workers : GoesThrough(bpreq[q])'
  BY <1>1, <1>3 DEF GoesThrough
<1>5. \A p, q \in Workers : p # q => ApartFrom(bpreq'[p], bpreq'[q])
  <2>1. \A y : ApartFrom(BIdle, y) /\ ApartFrom(y, BIdle)
    BY BIdleType DEF ApartFrom
  <2> QED BY <1>2, <2>1 DEF BackupInv
<1> QED BY <1>1, <1>2, <1>4, <1>5 DEF BackupInv, ApartFrom

LEMMA NextBackup == BackupInv /\ [BackupNext]_backupVars => BackupInv'
<1> SUFFICES ASSUME BackupInv, [BackupNext]_backupVars PROVE BackupInv'
  OBVIOUS
<1>1. CASE UNCHANGED backupVars
  BY <1>1 DEF backupVars, BackupInv, GoesThrough, ApartFrom
<1>2. CASE BackupNext
  BY <1>2, ReadBackup, InsertBackup, CommitBackup, RecalculatedBackup, CutOffBackup DEF BackupNext
<1> QED BY <1>1, <1>2

LEMMA BackupKept == BackupInv => BackupConsistent
<1> SUFFICES ASSUME BackupInv PROVE BackupConsistent
  OBVIOUS
<1>1. BackupWhole
  BY DEF BackupInv, BackupWhole, FirstOf
<1>2. PrincipalCode
  BY CodeOf DEF BackupInv, PrincipalCode
<1> QED BY <1>1, <1>2 DEF BackupConsistent

(* MigrationsConsistent: run in turn, the restaurant's scripts put each     *)
(* sample there once, with its whole recipe, and end with the recipes of   *)
(* the file; and however it overlaps and is cut off, the backup's script   *)
(* leaves under each code of its own the first product that has it.        *)
THEOREM MigrationsStayConsistent == MigrationsSpec => []MigrationsConsistent
<1>1. SeedInv => SeedConsistent
  BY DEF SeedInv, SeedConsistent
<1>2. SeedSpec => []SeedConsistent
  BY <1>1, InitSeed, NextSeed, PTL DEF SeedSpec
<1>3. BackupSpec => []BackupConsistent
  BY InitBackup, NextBackup, BackupKept, PTL DEF BackupSpec
<1> QED BY <1>2, <1>3, PTL DEF MigrationsSpec, MigrationsConsistent
=============================================================================
