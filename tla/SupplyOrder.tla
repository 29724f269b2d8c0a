----------------------------- MODULE SupplyOrder -----------------------------
(***************************************************************************)
(* Orders to suppliers and their lines: life cycle and totals.  A request  *)
(* reads the order, then (for a line) the line, flushes what it changed,   *)
(* reads the order and its lines again, and commits; one step per SQL      *)
(* statement.  What is flushed locks its row until the commit and is       *)
(* visible to the others from then on only.                                *)
(*                                                                         *)
(* A line is its amount, quantity x unit price in cents.  The quantities   *)
(* recorded by a reception are left out (nothing reads them), not the      *)
(* locks their UPDATE takes.                                               *)
(***************************************************************************)
EXTENDS Requests, Functions

CONSTANTS
    MaxOrders, MaxLines,   \* rows ever inserted
    LineAmounts, NewAmounts,  \* what a line, and a new line, can be worth
    MaxTotal,              \* what a BIGINT column holds
    OrderOps               \* the operations of this instance

LineOps == {"addLine", "updateLine", "deleteLine"}
StatusOps == {"update", "confirm", "ship", "receive", "cancel", "delete"}

ASSUME SupplyAssumption ==
    /\ MaxOrders \in Nat /\ MaxLines \in Nat /\ MaxTotal \in Nat
    /\ LineAmounts \subseteq Nat \ {0} /\ NewAmounts \subseteq Nat \ {0}
    /\ OrderOps \subseteq LineOps \cup StatusOps

SupplyOrderStatus == {"en_attente", "confirmee", "expediee", "livree", "annulee"}
Terminal == {"livree", "annulee"}
Orders == 1..MaxOrders
Lines == 1..MaxLines

VARIABLES
    orderRows, order,      \* primary keys of supply_orders, and their content
    lineRows, line,        \* the same for supply_order_lines
    lastOrder, lastLine,   \* identifiers handed out so far
    linesAlone,    \* history: no two requests on lines have overlapped
    statusAlone,   \* history: no two requests on an order's status have
    oreq

tables == <<orderRows, order, lineRows, line, lastOrder, lastLine>>
orderHistory == <<linesAlone, statusAlone>>
orderVars == <<tables, orderHistory, oreq>>

OrderRow == [statut : SupplyOrderStatus, ht : 0..MaxTotal, tva : 0..MaxTotal]
LineRow == [order : 0..MaxOrders, amount : Nat]
NewOrder == [statut |-> "en_attente", ht |-> 0, tva |-> 0]
NoLine == [order |-> 0, amount |-> 0]

OrderPcs == {"idle", "load", "line", "flush", "refresh", "sum", "commit"}
OrderRequest ==
           [pc : OrderPcs, op : OrderOps \cup {"none"},
            o : 0..MaxOrders, l : 0..MaxLines, amount : Nat, to : SupplyOrderStatus,
            seen : SupplyOrderStatus,    \* statut as update_order loaded it
            had : BOOLEAN,               \* the line was there when it was flushed
            marks : SUBSET Lines,        \* lines whose reception is recorded
            oldHt : 0..MaxTotal, oldTva : 0..MaxTotal,   \* totals as db.refresh read them
            ht : 0..MaxTotal, tva : 0..MaxTotal]         \* totals as recalculate_totals set them

OIdle == [pc |-> "idle", op |-> "none", o |-> 0, l |-> 0, amount |-> 0, to |-> "en_attente",
         seen |-> "en_attente", had |-> FALSE, marks |-> {}, oldHt |-> 0, oldTva |-> 0,
         ht |-> 0, tva |-> 0]

OBecome(r, rec) == oreq' = [oreq EXCEPT ![r] = rec]
OGoto(r, pc) == OBecome(r, [oreq[r] EXCEPT !.pc = pc])
OFail(r) == OBecome(r, OIdle)
OSucceed(r) == OBecome(r, OIdle)

(* montant_tva = int(montant_ht * 0.20) *)
Tva(ht) == ht \div 5
LinesOf(o) == {l \in lineRows : line[l].order = o}
SumOf(S) == SumFunctionOnSet([l \in Lines |-> line[l].amount], S)

OrderInit ==
    /\ orderRows = {} /\ lineRows = {} /\ lastOrder = 0 /\ lastLine = 0
    /\ order = [o \in Orders |-> NewOrder]
    /\ line = [l \in Lines |-> NoLine]
    /\ linesAlone = TRUE /\ statusAlone = TRUE
    /\ oreq = [r \in Workers |-> OIdle]

-----------------------------------------------------------------------------
(* Nobody sees the order and its lines before they are committed. *)
CreateOrder(n, worth) ==
    LET o == lastOrder + 1
        new == (lastLine + 1)..(lastLine + n)
        ht == SumFunctionOnSet([l \in new |-> worth[l - lastLine]], new)
    IN
    /\ o <= MaxOrders /\ lastLine + n <= MaxLines /\ ht \in 0..MaxTotal
    /\ orderRows' = orderRows \cup {o} /\ lastOrder' = o
    /\ order' = [order EXCEPT ![o] = [statut |-> "en_attente", ht |-> ht, tva |-> Tva(ht)]]
    /\ lineRows' = lineRows \cup new /\ lastLine' = lastLine + n
    /\ line' = [l \in Lines |->
          IF l \in new THEN [order |-> o, amount |-> worth[l - lastLine]]
                       ELSE line[l]]
    /\ UNCHANGED <<orderHistory, oreq>>

OBusy(kind) == \E q \in Workers : oreq[q].pc # "idle" /\ oreq[q].op \in kind

OBegin(r, op, o, l, a, to) ==
    /\ oreq[r].pc = "idle"
    /\ OBecome(r, [OIdle EXCEPT !.pc = "load", !.op = op, !.o = o, !.l = l, !.amount = a,
                              !.to = to])
    /\ linesAlone' = (linesAlone /\ ~(op \in LineOps /\ OBusy(LineOps)))
    /\ statusAlone' = (statusAlone /\ ~(op \in StatusOps /\ OBusy(StatusOps)))
    /\ UNCHANGED tables

(* From which status each operation is accepted. *)
From == [update |-> SupplyOrderStatus \ Terminal, cancel |-> SupplyOrderStatus \ Terminal,
         confirm |-> {"en_attente"}, ship |-> {"confirmee"},
         receive |-> {"confirmee", "expediee"}, delete |-> {"en_attente"},
         addLine |-> {"en_attente", "confirmee"}, updateLine |-> SupplyOrderStatus,
         deleteLine |-> {"en_attente", "confirmee"}]

(* Mutant of LoadOrder: the status is not looked at. *)
LoadOrderUnchecked(r) ==
    LET o == oreq[r].o
        op == oreq[r].op
        next == IF op \in {"updateLine", "deleteLine"} THEN "line"
                ELSE IF op \in {"addLine", "receive"} THEN "flush" ELSE "commit"
    IN
    /\ oreq[r].pc = "load"
    /\ \/ o \notin orderRows /\ OFail(r)
       \/ /\ o \in orderRows
          /\ \E M \in (IF op = "receive" THEN SUBSET lineRows ELSE {{}}) :
                OBecome(r, [oreq[r] EXCEPT !.pc = next, !.marks = M,
                                      !.seen = IF op = "update" THEN order[o].statut ELSE @])
    /\ UNCHANGED <<tables, orderHistory>>

(* A reception names the lines it received, or marks those of the order;   *)
(* the line identifiers of the body are taken as they are.                 *)
LoadOrder(r) ==
    LET o == oreq[r].o
        op == oreq[r].op
        next == IF op \in {"updateLine", "deleteLine"} THEN "line"
                ELSE IF op \in {"addLine", "receive"} THEN "flush" ELSE "commit"
    IN
    /\ oreq[r].pc = "load"
    /\ \/ (o \notin orderRows \/ order[o].statut \notin From[op]) /\ OFail(r)
       \/ /\ o \in orderRows /\ order[o].statut \in From[op]
          /\ \E M \in (IF op = "receive" THEN SUBSET lineRows ELSE {{}}) :
                OBecome(r, [oreq[r] EXCEPT !.pc = next, !.marks = M,
                                      !.seen = IF op = "update" THEN order[o].statut ELSE @])
    /\ UNCHANGED <<tables, orderHistory>>

ReadLine(r) ==
    LET l == oreq[r].l IN
    /\ oreq[r].pc = "line"
    /\ IF l \in lineRows /\ line[l].order = oreq[r].o THEN OGoto(r, "flush") ELSE OFail(r)
    /\ UNCHANGED <<tables, orderHistory>>

-----------------------------------------------------------------------------
(* Row locks: a line that is flushed, and the order that a new line        *)
(* references, until the commit.                                           *)
HoldsLine(q, l) ==
    /\ oreq[q].pc \in {"refresh", "sum", "commit"}
    /\ (oreq[q].op \in {"updateLine", "deleteLine"} /\ l = oreq[q].l) \/ l \in oreq[q].marks
HoldsOrder(q, o) ==
    oreq[q].op = "addLine" /\ oreq[q].pc \in {"refresh", "sum", "commit"} /\ oreq[q].o = o

(* The line is inserted (its order must exist), updated or deleted.  A     *)
(* line that is gone is skipped, or fails when it went after being found.  *)
FlushLine(r) ==
    LET l == oreq[r].l IN
    /\ oreq[r].pc = "flush" /\ oreq[r].op \in LineOps
    /\ \A q \in Workers \ {r} : ~HoldsLine(q, l)
    /\ \/ oreq[r].op = "addLine" /\ oreq[r].o \notin orderRows /\ OFail(r)
       \/ oreq[r].op = "updateLine" /\ l \notin lineRows /\ OFail(r)
       \/ /\ oreq[r].op = "addLine" => oreq[r].o \in orderRows
          /\ OBecome(r, [oreq[r] EXCEPT !.pc = "refresh",
                                      !.had = oreq[r].op = "addLine" \/ l \in lineRows])
    /\ UNCHANGED <<tables, orderHistory>>

FlushReceived(r) ==
    /\ oreq[r].pc = "flush" /\ oreq[r].op = "receive"
    /\ \A q \in Workers \ {r}, l \in oreq[r].marks : ~HoldsLine(q, l)
    /\ \/ OBecome(r, [oreq[r] EXCEPT !.pc = "commit", !.marks = @ \cap lineRows])
       \/ ~(oreq[r].marks \subseteq lineRows) /\ OFail(r)
    /\ UNCHANGED <<tables, orderHistory>>

(* db.refresh(order) *)
Refresh(r) ==
    LET o == oreq[r].o IN
    /\ oreq[r].pc = "refresh"
    /\ IF o \in orderRows
         THEN OBecome(r, [oreq[r] EXCEPT !.pc = "sum", !.oldHt = order[o].ht,
                                       !.oldTva = order[o].tva])
         ELSE OFail(r)
    /\ UNCHANGED <<tables, orderHistory>>

(* Mutant of Recalculate: the deleted line is still counted. *)
RecalculateDeleted(r) ==
    LET rest == SumOf(LinesOf(oreq[r].o) \ (IF oreq[r].op = "updateLine" THEN {oreq[r].l} ELSE {}))
        ht == IF oreq[r].had /\ oreq[r].op # "deleteLine" THEN rest + oreq[r].amount ELSE rest
    IN
    /\ oreq[r].pc = "sum"
    /\ IF ht \in 0..MaxTotal
         THEN OBecome(r, [oreq[r] EXCEPT !.pc = "commit", !.ht = ht, !.tva = Tva(ht)])
         ELSE OFail(r)
    /\ UNCHANGED <<tables, orderHistory>>

(* recalculate_totals: the committed lines, with the transaction's own     *)
(* change.  A total that the column cannot hold fails the request.         *)
Recalculate(r) ==
    LET rest == SumOf(LinesOf(oreq[r].o) \ {oreq[r].l})
        ht == IF oreq[r].had /\ oreq[r].op # "deleteLine" THEN rest + oreq[r].amount ELSE rest
    IN
    /\ oreq[r].pc = "sum"
    /\ IF ht \in 0..MaxTotal
         THEN OBecome(r, [oreq[r] EXCEPT !.pc = "commit", !.ht = ht, !.tva = Tva(ht)])
         ELSE OFail(r)
    /\ UNCHANGED <<tables, orderHistory>>

(* Only the totals that differ from the refreshed ones are written. *)
WriteTotals(r) ==
    order' = [order EXCEPT ![oreq[r].o] =
        [statut |-> @.statut, ht |-> IF oreq[r].ht # oreq[r].oldHt THEN oreq[r].ht ELSE @.ht,
         tva |-> IF oreq[r].tva # oreq[r].oldTva THEN oreq[r].tva ELSE @.tva]]

WriteLine(r) ==
    LET l == oreq[r].l
        new == lastLine + 1
    IN
    \/ /\ oreq[r].op = "addLine" /\ new <= MaxLines
       /\ lineRows' = lineRows \cup {new} /\ lastLine' = new
       /\ line' = [line EXCEPT ![new] = [order |-> oreq[r].o, amount |-> oreq[r].amount]]
    \/ /\ oreq[r].op = "updateLine"
       /\ line' = IF oreq[r].had THEN [line EXCEPT ![l].amount = oreq[r].amount] ELSE line
       /\ UNCHANGED <<lineRows, lastLine>>
    \/ /\ oreq[r].op = "deleteLine"
       /\ lineRows' = lineRows \ {l} /\ line' = [line EXCEPT ![l] = NoLine]
       /\ UNCHANGED lastLine

CommitLine(r) ==
    /\ oreq[r].pc = "commit" /\ oreq[r].op \in LineOps
    /\ \/ oreq[r].o \in orderRows /\ WriteTotals(r) /\ WriteLine(r) /\ OSucceed(r)
       \/ /\ \/ oreq[r].o \notin orderRows
             \/ oreq[r].op = "addLine" /\ lastLine = MaxLines
          /\ OFail(r)
          /\ UNCHANGED <<order, lineRows, line, lastLine>>
    /\ UNCHANGED <<orderRows, lastOrder, orderHistory>>

-----------------------------------------------------------------------------
Target(r) == CASE oreq[r].op = "update" -> oreq[r].to
               [] oreq[r].op = "confirm" -> "confirmee"
               [] oreq[r].op = "ship" -> "expediee"
               [] oreq[r].op = "receive" -> "livree"
               [] oreq[r].op = "cancel" -> "annulee"

(* Mutant of CommitStatus: the totals are written back as they were read. *)
CommitStatusWhole(r) ==
    LET o == oreq[r].o IN
    /\ oreq[r].pc = "commit" /\ oreq[r].op \in StatusOps \ {"delete"}
    /\ o \in orderRows
    /\ order' = [order EXCEPT ![o] = [statut |-> Target(r), ht |-> oreq[r].oldHt,
                                      tva |-> oreq[r].oldTva]]
    /\ OSucceed(r)
    /\ UNCHANGED <<orderRows, lineRows, line, lastOrder, lastLine, orderHistory>>

(* UPDATE by primary key; a status equal to the loaded one is not written, *)
(* and an order that is gone ends the request with an error.               *)
CommitStatus(r) ==
    LET o == oreq[r].o IN
    /\ oreq[r].pc = "commit" /\ oreq[r].op \in StatusOps \ {"delete"}
    /\ \/ /\ o \in orderRows
          /\ order' = IF oreq[r].op = "update" /\ Target(r) = oreq[r].seen THEN order
                      ELSE [order EXCEPT ![o] = [statut |-> Target(r), ht |-> @.ht,
                                                 tva |-> @.tva]]
          /\ OSucceed(r)
       \/ o \notin orderRows /\ OFail(r) /\ UNCHANGED order
    /\ UNCHANGED <<orderRows, lineRows, line, lastOrder, lastLine, orderHistory>>

(* Mutant of CommitDelete: the lines are left behind. *)
CommitDeleteOnly(r) ==
    /\ oreq[r].pc = "commit" /\ oreq[r].op = "delete"
    /\ orderRows' = orderRows \ {oreq[r].o}
    /\ OSucceed(r)
    /\ UNCHANGED <<order, lineRows, line, lastOrder, lastLine, orderHistory>>

(* The lines go with their order (ON DELETE CASCADE). *)
CommitDelete(r) ==
    LET o == oreq[r].o IN
    /\ oreq[r].pc = "commit" /\ oreq[r].op = "delete"
    /\ \A q \in Workers \ {r} : ~HoldsOrder(q, o) /\ \A l \in LinesOf(o) : ~HoldsLine(q, l)
    /\ orderRows' = orderRows \ {o} /\ lineRows' = lineRows \ LinesOf(o)
    /\ line' = [l \in Lines |-> IF l \in LinesOf(o) THEN NoLine ELSE line[l]]
    /\ order' = [order EXCEPT ![o] = NewOrder]
    /\ OSucceed(r)
    /\ UNCHANGED <<lastOrder, lastLine, orderHistory>>

OCrash(r) ==
    /\ oreq[r].pc # "idle"
    /\ OFail(r)
    /\ UNCHANGED <<tables, orderHistory>>

-----------------------------------------------------------------------------
OStep(r) ==
    \/ LoadOrder(r) \/ ReadLine(r) \/ FlushLine(r) \/ FlushReceived(r) \/ Refresh(r)
    \/ Recalculate(r) \/ CommitLine(r) \/ CommitStatus(r) \/ CommitDelete(r)

OArrive(r) ==
    \E op \in OrderOps, o \in 1..lastOrder :
    \E l \in IF op \in {"updateLine", "deleteLine"} THEN 1..lastLine ELSE {0},
       a \in IF op = "addLine" THEN NewAmounts
              ELSE IF op = "updateLine" THEN LineAmounts ELSE {0},
       to \in IF op = "update" THEN SupplyOrderStatus ELSE {"en_attente"} :
        OBegin(r, op, o, l, a, to)

OrderNext == \/ \E n \in 0..MaxLines : \E worth \in [1..n -> NewAmounts] : CreateOrder(n, worth)
        \/ \E r \in Workers : OArrive(r) \/ OStep(r) \/ OCrash(r)

OrderSpec == OrderInit /\ [][OrderNext]_orderVars

-----------------------------------------------------------------------------
OrderTypeOK ==
    /\ orderRows \subseteq 1..lastOrder /\ lineRows \subseteq 1..lastLine
    /\ lastOrder \in 0..MaxOrders /\ lastLine \in 0..MaxLines
    /\ order \in [Orders -> OrderRow] /\ line \in [Lines -> LineRow]
    /\ linesAlone \in BOOLEAN /\ statusAlone \in BOOLEAN
    /\ oreq \in [Workers -> OrderRequest]

(* Whatever is deleted under a request, a line always has its order. *)
NoOrphanLine == \A l \in lineRows : line[l].order \in orderRows

(* "Recalcule les totaux a partir des lignes": as long as the edits of     *)
(* lines do not overlap one another, the totals of an order are those of   *)
(* its lines, although receptions, status changes and deletions of the     *)
(* same orders run in between.                                             *)
TotalsOfLines ==
    linesAlone => \A o \in orderRows : /\ order[o].ht = SumOf(LinesOf(o))
                                       /\ order[o].tva = Tva(order[o].ht)

(* "Ne pas modifier les commandes livrees ou annulees": as long as status  *)
(* changes do not overlap one another, a delivered or cancelled order      *)
(* stays so, and only an order still waiting is deleted.                   *)
TerminalIsFinal ==
    [][statusAlone => \A o \in orderRows :
          /\ order[o].statut \in Terminal => order'[o].statut = order[o].statut
          /\ o \notin orderRows' => order[o].statut = "en_attente"]_orderVars

(* An order on record has its type and the totals of its lines. *)
OrderConsistent == OrderTypeOK /\ TotalsOfLines
=============================================================================
