---------------------------- MODULE FinanceInvoices ----------------------------
(***************************************************************************)
(* Supplier invoices, their payments, and the vendors they belong to.  An  *)
(* invoice is identified by its vendor and number, which a unique index    *)
(* protects; payments are only ever added, so their total is kept.  A      *)
(* payment loads the invoice, then its payments, compares, inserts itself, *)
(* sums the payments in SQL, its own included, and writes the status when  *)
(* it differs from the one loaded.                                         *)
(***************************************************************************)
EXTENDS Requests

CONSTANTS
    Vendors, Numbers,
    Ttc,             \* montant_ttc of an invoice
    Payments,        \* amounts paid (the service accepts negative ones)
    MaxPaid          \* bound on the absolute total of the payments of an invoice

ASSUME InvoicesAssumption ==
    /\ Vendors # {} /\ Numbers # {}
    /\ Ttc \in Nat \ {0} /\ Payments \subseteq Int /\ MaxPaid \in Nat

Invoices == Vendors \X Numbers
Statuses == {"EN_ATTENTE", "PARTIELLE", "PAYEE", "ANNULEE"}
Totals == -MaxPaid..MaxPaid

VARIABLES
    vendorRows, invoiceRows,
    invoice,     \* status and total of the payments of each invoice
    apart,       \* history: invoices none of whose requests have overlapped
    refunded,    \* history: a payment of 0 or less is on record
    ireq

invoiceDb == <<vendorRows, invoiceRows, invoice>>
invoiceVars == <<invoiceDb, apart, refunded, ireq>>

Unpaid == [status |-> "EN_ATTENTE", paid |-> 0]
IIdle == [pc |-> "idle", op |-> "none", inv |-> CHOOSE i \in Invoices : TRUE, amount |-> 0,
          seen |-> "EN_ATTENTE", status |-> "EN_ATTENTE"]
InvoiceRequest ==
    [pc : {"idle", "check", "load", "payments", "sum", "commit"},
     op : {"none", "create", "pay", "cancel", "vendor"}, inv : Invoices,
     amount : Payments \cup {0},
     seen : Statuses,     \* status of the object loaded
     status : Statuses]   \* and as the handler left it

IBecome(r, q) == ireq' = [ireq EXCEPT ![r] = q]
IFail(r) == IBecome(r, IIdle) /\ UNCHANGED <<invoiceDb, apart, refunded>>
IKeep == UNCHANGED <<invoiceDb, apart, refunded>>

InvoicesInit ==
    /\ vendorRows = Vendors /\ invoiceRows = {}
    /\ invoice = [i \in Invoices |-> Unpaid]
    /\ apart = [i \in Invoices |-> TRUE] /\ refunded = FALSE
    /\ ireq = [r \in Workers |-> IIdle]

-----------------------------------------------------------------------------
IBegin(r, op, pc, i, n) ==
    /\ ~Busy(ireq, r)
    /\ IBecome(r, [IIdle EXCEPT !.op = op, !.pc = pc, !.inv = i, !.amount = n])
    /\ apart' = [apart EXCEPT ![i] =
          @ /\ ~(op \in {"pay", "cancel"}
                 /\ \E o \in InProgress(ireq, r) : o.inv = i /\ o.op \in {"pay", "cancel"})]
    /\ UNCHANGED <<invoiceDb, refunded>>

IArrive(r) ==
    \E i \in Invoices :
       \/ IBegin(r, "create", "check", i, 0)
       \/ IBegin(r, "vendor", "load", i, 0)
       \/ IBegin(r, "cancel", "load", i, 0)
       \/ \E n \in Payments : IBegin(r, "pay", "load", i, n)

(* create_invoice: check_duplicate, then the insert. *)
CheckDuplicate(r) ==
    /\ ireq[r].pc = "check"
    /\ IBecome(r, IF ireq[r].inv \in invoiceRows THEN IIdle ELSE [ireq[r] EXCEPT !.pc = "commit"])
    /\ IKeep

(* The unique index and the foreign key to the vendor hold, or the insert  *)
(* fails (IAbort).                                                         *)
CommitInvoice(r) ==
    /\ ireq[r].pc = "commit" /\ ireq[r].op = "create"
    /\ ireq[r].inv \notin invoiceRows /\ ireq[r].inv[1] \in vendorRows
    /\ invoiceRows' = invoiceRows \cup {ireq[r].inv}
    /\ invoice' = [invoice EXCEPT ![ireq[r].inv] = Unpaid]
    /\ IBecome(r, IIdle)
    /\ UNCHANGED <<vendorRows, apart, refunded>>

(* get_invoice and get_vendor; a cancelled or paid invoice takes no payment. *)
LoadInvoice(r) ==
    LET q == ireq[r]  status == invoice[q.inv].status IN
    /\ q.pc = "load" /\ q.op \in {"pay", "cancel"}
    /\ IBecome(r, IF q.inv \notin invoiceRows
                     \/ (q.op = "pay" /\ status \in {"ANNULEE", "PAYEE"}) THEN IIdle
                  ELSE [q EXCEPT !.pc = "payments", !.seen = status, !.status = status])
    /\ IKeep

LoadVendor(r) ==
    /\ ireq[r].pc = "load" /\ ireq[r].op = "vendor"
    /\ IBecome(r, IF ireq[r].inv[1] \notin vendorRows THEN IIdle
                  ELSE [ireq[r] EXCEPT !.pc = "commit"])
    /\ IKeep

(* amount_remaining and amount_paid, of the payments loaded with the row.  *)
LoadPayments(r) ==
    LET q == ireq[r]  paid == invoice[q.inv].paid IN
    /\ q.pc = "payments"
    /\ IBecome(r, IF q.op = "pay"
                    THEN IF q.amount > Ttc - paid THEN IIdle ELSE [q EXCEPT !.pc = "sum"]
                    ELSE IF paid > 0 THEN IIdle
                    ELSE [q EXCEPT !.pc = "commit", !.status = "ANNULEE"])
    /\ IKeep

(* _update_invoice_status *)
StatusOf(paid) == CASE paid >= Ttc -> "PAYEE"
                    [] paid > 0 /\ paid < Ttc -> "PARTIELLE"
                    [] paid <= 0 -> "EN_ATTENTE"

(* Mutant of SumPayments: the payment counts twice, in the relation and in *)
(* the sum.                                                                *)
SumPaymentsTwice(r) ==
    LET q == ireq[r] IN
    /\ q.pc = "sum"
    /\ IBecome(r, [q EXCEPT !.pc = "commit", !.status = StatusOf(invoice[q.inv].paid + 2 * q.amount)])
    /\ IKeep

SumPayments(r) ==
    LET q == ireq[r] IN
    /\ q.pc = "sum"
    /\ IBecome(r, [q EXCEPT !.pc = "commit", !.status = StatusOf(invoice[q.inv].paid + q.amount)])
    /\ IKeep

(* The payment, if this is one, and the status when it is to be written.   *)
CommitStatus(r) ==
    LET q == ireq[r]  paid == invoice[q.inv].paid + q.amount IN
    /\ q.pc = "commit" /\ q.op \in {"pay", "cancel"} /\ paid \in Totals
    /\ invoice' = [invoice EXCEPT ![q.inv].paid = paid,
                                  ![q.inv].status = IF q.status # q.seen THEN q.status ELSE @]
    /\ refunded' = (refunded \/ (q.op = "pay" /\ q.amount <= 0))
    /\ IBecome(r, IIdle)
    /\ UNCHANGED <<vendorRows, invoiceRows, apart>>

(* delete_vendor: ON DELETE RESTRICT. *)
CommitVendor(r) ==
    /\ ireq[r].pc = "commit" /\ ireq[r].op = "vendor"
    /\ \A n \in Numbers : <<ireq[r].inv[1], n>> \notin invoiceRows
    /\ vendorRows' = vendorRows \ {ireq[r].inv[1]}
    /\ IBecome(r, IIdle)
    /\ UNCHANGED <<invoiceRows, invoice, apart, refunded>>

IAbort(r) == Busy(ireq, r) /\ IFail(r)

IStep(r) ==
    \/ CheckDuplicate(r) \/ CommitInvoice(r) \/ LoadInvoice(r) \/ LoadVendor(r)
    \/ LoadPayments(r) \/ SumPayments(r) \/ CommitStatus(r) \/ CommitVendor(r)

InvoicesNext == \E r \in Workers : IArrive(r) \/ IStep(r) \/ IAbort(r)

InvoicesSpec == InvoicesInit /\ [][InvoicesNext]_invoiceVars

-----------------------------------------------------------------------------
InvoicesTypeOK ==
    /\ vendorRows \subseteq Vendors /\ invoiceRows \subseteq Invoices
    /\ invoice \in [Invoices -> [status : Statuses, paid : Totals]]
    /\ apart \in [Invoices -> BOOLEAN] /\ refunded \in BOOLEAN
    /\ ireq \in [Workers -> InvoiceRequest]

(* Whatever happens to a vendor while an invoice is entered, an invoice    *)
(* belongs to a vendor.                                                    *)
InvoiceHasVendor == \A i \in invoiceRows : i[1] \in vendorRows

(* As long as the payments and cancellations of an invoice come one at a   *)
(* time, it is never overpaid, its status is the one its payments give it, *)
(* and it is cancelled only with nothing paid.                             *)
StatusOfPayments ==
    \A i \in invoiceRows : apart[i] =>
        /\ invoice[i].paid <= Ttc
        /\ invoice[i].status = IF invoice[i].status = "ANNULEE" /\ invoice[i].paid <= 0
                                 THEN "ANNULEE" ELSE StatusOf(invoice[i].paid)

(* Even when they overlap, an invoice marked as paid is paid, if nothing   *)
(* was refunded: a status may lag behind the payments, never run ahead.    *)
PaidIsPaid ==
    ~refunded => \A i \in invoiceRows :
                    invoice[i].status = "PAYEE" => invoice[i].paid >= Ttc

(* An invoice agrees with its vendor and its payments. *)
InvoicesConsistent == InvoicesTypeOK /\ InvoiceHasVendor /\ StatusOfPayments /\ PaidIsPaid
=============================================================================
