---------------------------- MODULE SupplierImports ----------------------------
(***************************************************************************)
(* The purchases of a tenant from one supplier: invoices imported from a   *)
(* file, the aggregate of each product recomputed from their lines, the    *)
(* EAN a user gives a product, and the synchronisation of the aggregates   *)
(* with the product dimension.  METRO keeps an invoice it has already;     *)
(* TAIYAT and EUROCIEL delete it and import it again.                      *)
(*                                                                         *)
(* A line is the product it names.  An invoice that cannot be read is      *)
(* skipped: before it was inserted ("before"), after some lines ("within"),*)
(* or by an error of the database ("flush"), which ends the transaction of *)
(* the whole file.  A file names an invoice once.                          *)
(***************************************************************************)
EXTENDS Requests

CONSTANTS
    Products,     \* an EAN (METRO) or a normalised designation
    InvoiceNos,
    Files,        \* the files that clients send
    MaxInvoices,  \* bound on the invoice rows ever inserted
    MaxRuns,      \* bound on the recalculations that insert rows
    MaxCount      \* bound on the nb_achats of dim_produit

Faults == {"none", "before", "within", "flush"}
Content == [lines : SUBSET Products, fault : Faults]

ASSUME ImportsAssumption ==
    /\ MaxInvoices \in Nat /\ MaxRuns \in Nat /\ MaxCount \in Nat
    /\ IsFiniteSet(Products) /\ InvoiceNos # {} /\ IsFiniteSet(InvoiceNos)
    /\ \A f \in Files : \E N \in SUBSET InvoiceNos : f \in [N -> Content]

InvoiceRow == [id : 0..MaxInvoices, lines : SUBSET Products]   \* id 0: no row
Aggregate == [run : 0..MaxRuns,            \* the recalculation that inserted it; 0: no row
              n : 0..Cardinality(InvoiceNos),               \* nb_achats
              ean : BOOLEAN,               \* an EAN is set
              link : {"none", "own", "ean"},   \* dim_produit_id: the row of which key
              sorted : BOOLEAN]            \* famille, categorie, sous_categorie
NoRow == [id |-> 0, lines |-> {}]
NoAggregate == [run |-> 0, n |-> 0, ean |-> FALSE, link |-> "none", sorted |-> FALSE]
(* Key of dim_produit: the EAN of a product (run 0), or one made of a row's id. *)
DimKeys == Products \X (0..MaxRuns)

VARIABLES
    keeps,                 \* the supplier is METRO
    invoices, lastInvoice, \* <supplier>_facture with the lines of each
    aggregates, lastRun,   \* <supplier>_produit_agregat
    dims,                  \* nb_achats in dim_produit; 0: no row
    inTurn,                \* history: no two recalculations have overlapped
    owed,                  \* history: a recalculation has failed, or a request has been cut off
    areq

importDb == <<invoices, lastInvoice, aggregates, lastRun, dims>>
importHistory == <<inTurn, owed>>
importVars == <<keeps, importDb, importHistory, areq>>

AIdle == [pc |-> "idle", op |-> "none", todo |-> <<>>, on |-> CHOOSE n \in InvoiceNos : TRUE,
          seen |-> 0, gone |-> {}, new |-> [n \in InvoiceNos |-> NoRow], rows |-> {},
          aggs |-> [p \in Products |-> NoAggregate], left |-> {}]

ABecome(r, q) == areq' = [areq EXCEPT ![r] = q]
AEnd(r) == ABecome(r, AIdle)
AKeep == UNCHANGED <<keeps, importDb, importHistory>>
AFail(r) == AEnd(r) /\ AKeep

ImportsInit ==
    /\ keeps \in BOOLEAN
    /\ invoices = [n \in InvoiceNos |-> NoRow] /\ lastInvoice = 0
    /\ aggregates = [p \in Products |-> NoAggregate] /\ lastRun = 0
    /\ dims = [k \in DimKeys |-> 0]
    /\ inTurn = TRUE /\ owed = FALSE
    /\ areq = [r \in Workers |-> AIdle]

-----------------------------------------------------------------------------
(* The requests.  METRO has the first two only.  An EAN is set on the row  *)
(* that the request loads, or cleared.                                     *)
ImportFile(r) == \E f \in Files : ABecome(r, [AIdle EXCEPT !.pc = "look", !.op = "import", !.todo = f])
Recalculate(r) == ABecome(r, [AIdle EXCEPT !.pc = "start", !.op = "recalculate"])
UpdateProductEan(r) ==
    \E p \in Products, e \in {0, 1} :
        /\ ~keeps /\ aggregates[p].run # 0
        /\ ABecome(r, [AIdle EXCEPT !.pc = "ean", !.op = "ean", !.left = {p}, !.seen = e,
                                    !.aggs[p].run = aggregates[p].run])
SyncToDimProduit(r) == ~keeps /\ ABecome(r, [AIdle EXCEPT !.pc = "sync", !.op = "sync"])

AArrive(r) ==
    /\ ~Busy(areq, r)
    /\ ImportFile(r) \/ Recalculate(r) \/ UpdateProductEan(r) \/ SyncToDimProduit(r)
    /\ AKeep

-----------------------------------------------------------------------------
(* The import of a file: its invoices in the file's order, then a commit.  *)
Done(q, n) == [q EXCEPT !.pc = "look", !.todo = [m \in DOMAIN q.todo \ {n} |-> q.todo[m]]]

(* Mutant of LookUpInvoice: METRO replaces too. *)
LookUpInvoiceReplacing(r, n) ==
    LET q == areq[r] IN
    /\ q.pc = "look" /\ n \in DOMAIN q.todo
    /\ ABecome(r, IF invoices[n].id # 0
                  THEN [q EXCEPT !.pc = "delete", !.on = n, !.seen = invoices[n].id]
                  ELSE [q EXCEPT !.pc = "insert", !.on = n])
    /\ AKeep

LookUpInvoice(r, n) ==
    LET q == areq[r] IN
    /\ q.pc = "look" /\ n \in DOMAIN q.todo
    /\ LET known == invoices[n].id # 0 IN
       \/ known /\ keeps /\ ABecome(r, Done(q, n))
       \/ known /\ ~keeps /\ ABecome(r, [q EXCEPT !.pc = "delete", !.on = n, !.seen = invoices[n].id])
       \/ ~known /\ ABecome(r, [q EXCEPT !.pc = "insert", !.on = n])
    /\ AKeep

(* The DELETE of an invoice waits for that of another request; a row that  *)
(* is gone then is not missed.                                             *)
DeleteInvoice(r) ==
    LET q == areq[r] IN
    /\ q.pc = "delete"
    /\ \A o \in InProgress(areq, r) : q.seen \notin o.gone
    /\ ABecome(r, [q EXCEPT !.pc = "insert",
                            !.gone = @ \cup ({q.seen} \cap {invoices[q.on].id})])
    /\ AKeep

(* The unique number: the INSERT waits for a row of this number that       *)
(* another request inserts or deletes, and fails on a committed one.       *)
NumberHeld(r, n) == \E o \in InProgress(areq, r) : o.new[n].id # 0 \/ (invoices[n].id # 0 /\ invoices[n].id \in o.gone)
Duplicate(r, n) == invoices[n].id \notin {0} \cup areq[r].gone
LinesRead(c) == IF c.fault = "within" THEN {L \in SUBSET c.lines : L # c.lines} ELSE {c.lines}

SkipInvoice(r) ==
    LET q == areq[r] IN
    /\ q.pc = "insert" /\ q.todo[q.on].fault = "before"
    /\ ABecome(r, Done(q, q.on))
    /\ AKeep

InsertInvoice(r) ==
    LET q == areq[r] IN
    /\ q.pc = "insert" /\ q.todo[q.on].fault # "before"
    /\ ~NumberHeld(r, q.on)
    /\ IF Duplicate(r, q.on) \/ q.todo[q.on].fault = "flush"
       THEN AFail(r)
       ELSE /\ lastInvoice < MaxInvoices /\ lastInvoice' = lastInvoice + 1
            /\ \E L \in LinesRead(q.todo[q.on]) :
                  ABecome(r, Done([q EXCEPT !.new[q.on] = [id |-> lastInvoice', lines |-> L]], q.on))
            /\ UNCHANGED <<keeps, invoices, aggregates, lastRun, dims, importHistory>>

(* Two imports each wait for a row of the other, and PostgreSQL ends one.  *)
WaitsFor(q, o) ==
    \/ q.pc = "delete" /\ q.seen \in o.gone
    \/ /\ q.pc = "insert" /\ q.todo[q.on].fault # "before"
       /\ o.new[q.on].id # 0 \/ (invoices[q.on].id # 0 /\ invoices[q.on].id \in o.gone)
ADeadlock(r) ==
    /\ \E o \in InProgress(areq, r) : WaitsFor(areq[r], o) /\ WaitsFor(o, areq[r])
    /\ AFail(r)

(* Mutant of CommitImport: the aggregates are not recalculated. *)
CommitImportAlone(r) ==
    LET q == areq[r] IN
    /\ q.pc = "look" /\ q.todo = <<>>
    /\ invoices' = [n \in InvoiceNos |->
                      IF q.new[n].id # 0 THEN q.new[n]
                      ELSE IF invoices[n].id \in q.gone THEN NoRow ELSE invoices[n]]
    /\ AEnd(r)
    /\ UNCHANGED <<keeps, lastInvoice, aggregates, lastRun, dims, importHistory>>

CommitImport(r) ==
    LET q == areq[r] IN
    /\ q.pc = "look" /\ q.todo = <<>>
    /\ invoices' = [n \in InvoiceNos |->
                      IF q.new[n].id # 0 THEN q.new[n]
                      ELSE IF invoices[n].id \in q.gone THEN NoRow ELSE invoices[n]]
    /\ ABecome(r, [AIdle EXCEPT !.pc = "start", !.op = "import"])
    /\ UNCHANGED <<keeps, lastInvoice, aggregates, lastRun, dims, importHistory>>

-----------------------------------------------------------------------------
(* A recalculation: the aggregates its DELETE sees, the DELETE, the INSERT *)
(* of what the lines sum to, the commit.                                   *)
Recalculating == {"delete rows", "insert rows", "commit rows"}
Purchases(p) == Cardinality({n \in InvoiceNos : p \in invoices[n].lines})
Summed(k) == [p \in Products |->
    IF Purchases(p) = 0 THEN NoAggregate
    ELSE [NoAggregate EXCEPT !.run = k, !.n = Purchases(p), !.sorted = keeps]]

(* A row of an aggregate: its product and the recalculation it comes from. *)
RowsOf(f) == {<<p, f[p].run>> : p \in {q \in Products : f[q].run # 0}}

StartRecalculation(r) ==
    /\ areq[r].pc = "start"
    /\ ABecome(r, [areq[r] EXCEPT !.pc = "delete rows", !.rows = RowsOf(aggregates)])
    /\ inTurn' = (inTurn /\ \A o \in InProgress(areq, r) : o.pc \notin Recalculating)
    /\ UNCHANGED <<keeps, importDb, owed>>

(* Rows a request has deleted: a writer waits for the end of its transaction. *)
RowHeld(r, x) == \E o \in InProgress(areq, r) : o.pc \in Recalculating \ {"delete rows"} /\ x \in o.rows

(* The DELETE waits for rows that another request deletes. *)
DeleteAggregates(r) ==
    LET q == areq[r] IN
    /\ q.pc = "delete rows"
    /\ \A x \in q.rows : ~RowHeld(r, x)
    /\ ABecome(r, [q EXCEPT !.pc = "insert rows", !.rows = @ \cap RowsOf(aggregates)])
    /\ AKeep

(* The INSERT .. SELECT fails when a product has a row that the DELETE did *)
(* not see, and waits while one is inserted or deleted by another request. *)
InsertAggregates(r) ==
    LET q == areq[r]
        new == Summed(lastRun + 1)
        clash(f) == {p \in Products : new[p].run # 0 /\ f[p].run # 0 /\ <<p, f[p].run>> \notin q.rows}
    IN
    /\ q.pc = "insert rows"
    /\ \A o \in InProgress(areq, r) : o.pc = "commit rows" => clash(o.aggs) = {}
    /\ \A p \in clash(aggregates) : ~RowHeld(r, <<p, aggregates[p].run>>)
    /\ IF clash(aggregates) # {}
       THEN AEnd(r) /\ owed' = TRUE /\ UNCHANGED <<keeps, importDb, inTurn>>
       ELSE /\ lastRun < MaxRuns /\ lastRun' = lastRun + 1
            /\ ABecome(r, [q EXCEPT !.pc = "commit rows", !.aggs = new])
            /\ UNCHANGED <<keeps, invoices, lastInvoice, aggregates, dims, importHistory>>

CommitAggregates(r) ==
    LET q == areq[r] IN
    /\ q.pc = "commit rows"
    /\ aggregates' = [p \in Products |->
                        IF q.aggs[p].run # 0 THEN q.aggs[p]
                        ELSE IF <<p, aggregates[p].run>> \in q.rows THEN NoAggregate ELSE aggregates[p]]
    /\ ABecome(r, IF keeps THEN AIdle ELSE [AIdle EXCEPT !.pc = "load rows", !.op = q.op])
    /\ UNCHANGED <<keeps, invoices, lastInvoice, lastRun, dims, importHistory>>

(* TAIYAT and EUROCIEL then give every aggregate its category, in a second *)
(* transaction; an UPDATE of a row that is gone is an error.               *)
LoadAggregates(r) ==
    /\ areq[r].pc = "load rows"
    /\ ABecome(r, [areq[r] EXCEPT !.pc = "sort", !.rows = {x \in RowsOf(aggregates) : ~aggregates[x[1]].sorted}])
    /\ AKeep

SortAggregates(r) ==
    LET q == areq[r] IN
    /\ q.pc = "sort" /\ \A x \in q.rows : ~RowHeld(r, x)
    /\ IF q.rows \subseteq RowsOf(aggregates)
       THEN /\ aggregates' = [p \in Products |-> IF <<p, aggregates[p].run>> \in q.rows
                                                 THEN [aggregates[p] EXCEPT !.sorted = TRUE] ELSE aggregates[p]]
            /\ AEnd(r)
            /\ UNCHANGED <<keeps, invoices, lastInvoice, lastRun, dims, importHistory>>
       ELSE AFail(r)

-----------------------------------------------------------------------------
(* The EAN of a product is written on the row loaded, or not at all. *)
SetProductEan(r) ==
    LET q == areq[r] IN
    /\ q.pc = "ean"
    /\ \E p \in q.left :
          LET x == <<p, q.aggs[p].run>> IN
          /\ ~RowHeld(r, x)
          /\ IF x \in RowsOf(aggregates)
             THEN /\ aggregates' = [aggregates EXCEPT ![p].ean = (q.seen = 1)]
                  /\ AEnd(r)
                  /\ UNCHANGED <<keeps, invoices, lastInvoice, lastRun, dims, importHistory>>
             ELSE AFail(r)

-----------------------------------------------------------------------------
(* The synchronisation: every aggregate is looked up in dim_produit by its *)
(* EAN, or by one made of its id; its count is added, or a row inserted.   *)
DimKey(q, p) == IF q.aggs[p].ean THEN <<p, 0>> ELSE <<p, q.aggs[p].run>>

StartSync(r) ==
    /\ areq[r].pc = "sync"
    /\ ABecome(r, [areq[r] EXCEPT !.pc = "product", !.aggs = aggregates,
                                  !.left = {x[1] : x \in RowsOf(aggregates)}])
    /\ AKeep

(* Products left to look up; a product in rows was found, with the count   *)
(* it had then; the others in new are inserted at the end.                 *)
SyncProduct(r, p) ==
    LET q == areq[r] IN
    /\ q.pc = "product" /\ p \in q.left
    /\ ABecome(r, [q EXCEPT !.left = @ \ {p}, !.rows = @ \cup {<<p, dims[DimKey(q, p)]>>}])
    /\ AKeep

CommitSync(r) ==
    LET q == areq[r]
        link(p) == IF q.aggs[p].ean THEN "ean" ELSE "own"
        missing == {x \in q.rows : /\ <<x[1], q.aggs[x[1]].run>> \notin RowsOf(aggregates)
                                   /\ q.aggs[x[1]].link # link(x[1])}
    IN
    /\ q.pc = "product" /\ q.left = {}
    /\ \A x \in q.rows : ~RowHeld(r, <<x[1], q.aggs[x[1]].run>>)
    /\ IF missing # {} \/ \E x \in q.rows : x[2] = 0 /\ dims[DimKey(q, x[1])] # 0
       THEN AFail(r)
       ELSE /\ dims' = [k \in DimKeys |->
                          IF \E x \in q.rows : DimKey(q, x[1]) = k
                          THEN q.aggs[k[1]].n + (CHOOSE x \in q.rows : x[1] = k[1])[2] ELSE dims[k]]
            /\ \A k \in DimKeys : dims'[k] <= MaxCount
            /\ aggregates' = [p \in Products |->
                                IF <<p, q.aggs[p].run>> \in RowsOf(aggregates)
                                THEN [aggregates[p] EXCEPT !.link = link(p)] ELSE aggregates[p]]
            /\ AEnd(r)
            /\ UNCHANGED <<keeps, invoices, lastInvoice, lastRun, importHistory>>

-----------------------------------------------------------------------------
AAbort(r) ==
    /\ Busy(areq, r) /\ AEnd(r)
    /\ owed' = TRUE /\ UNCHANGED <<keeps, importDb, inTurn>>

AStep(r) ==
    \/ AArrive(r) \/ AAbort(r) \/ ADeadlock(r)
    \/ \E n \in InvoiceNos : LookUpInvoice(r, n)
    \/ DeleteInvoice(r) \/ SkipInvoice(r) \/ InsertInvoice(r) \/ CommitImport(r)
    \/ StartRecalculation(r) \/ DeleteAggregates(r) \/ InsertAggregates(r) \/ CommitAggregates(r)
    \/ LoadAggregates(r) \/ SortAggregates(r) \/ SetProductEan(r)
    \/ StartSync(r) \/ (\E p \in Products : SyncProduct(r, p)) \/ CommitSync(r)

ImportsNext == \E r \in Workers : AStep(r)

(* METRO never changes an invoice it has. *)
KeptInvoices ==
    [][\A n \in InvoiceNos : keeps /\ invoices[n].id # 0 => invoices'[n] = invoices[n]]_importVars

(* At rest the aggregates count the lines of the invoices on record, when  *)
(* every recalculation so far has ended well and none has overlapped       *)
(* another.  Overlapping ones do no harm where invoices are kept.          *)
AggregatesUpToDate ==
    /\ \A r \in Workers : ~Busy(areq, r)
    /\ ~owed /\ (keeps \/ inTurn)
    => \A p \in Products : aggregates[p].n = Purchases(p)

(* At rest every aggregate has its category, unless a request was cut off  *)
(* or a recalculation failed, however recalculations overlap.              *)
CategoriesComplete ==
    (\A r \in Workers : ~Busy(areq, r)) /\ ~owed
    => \A x \in RowsOf(aggregates) : aggregates[x[1]].sorted

(* An aggregate linked to the product dimension is linked to a row that is *)
(* there, the one of its own key or of its EAN.                            *)
LinkedProductExists ==
    \A p \in Products :
        /\ aggregates[p].link = "own" => dims[<<p, aggregates[p].run>>] > 0
        /\ aggregates[p].link = "ean" => dims[<<p, 0>>] > 0

(* The purchases and the dimension agree with the invoices on record. *)
ImportsConsistent == AggregatesUpToDate /\ CategoriesComplete /\ LinkedProductExists

(* A recalculation leaves the EAN that a user gave a product: "Ces         *)
(* produits peuvent etre enrichis manuellement avec leur EAN".             *)
ManualEanKept ==
    [][\A p \in Products :
         aggregates[p].ean /\ aggregates'[p].run \notin {0, aggregates[p].run} => aggregates'[p].ean]_importVars

ImportsSpec == ImportsInit /\ [][ImportsNext]_importVars
=============================================================================
