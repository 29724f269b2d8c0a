---------------------------- MODULE BackupMigration ----------------------------
(***************************************************************************)
(* The script that puts the products of the former program's backup among  *)
(* METRO's aggregates: one transaction, with an INSERT for each product    *)
(* whose code is not there.  It catches the error of an INSERT, but then   *)
(* PostgreSQL refuses the others and keeps nothing at the COMMIT.  A       *)
(* recalculation of the aggregates (SupplierImports) is one step here.     *)
(***************************************************************************)
EXTENDS Requests, Sequences

CONSTANTS
    Backup,      \* the products of the backup, in order
    Bought,      \* codes of METRO's invoices
    NoProduct,
    MaxScripts   \* bound on the times the script and a recalculation begin

(* A product: orphan (its name starts with $), and its barcodes in order,  *)
(* whose codes fit the column.                                             *)
CodesOf(k) == {Backup[k].barcodes[j].code : j \in DOMAIN Backup[k].barcodes}
Codes == UNION {CodesOf(k) : k \in DOMAIN Backup}
ASSUME BackupAssumption ==
    /\ MaxScripts \in Nat
    /\ Backup \in Seq([orphan : BOOLEAN, barcodes : Seq([code : Codes, principal : BOOLEAN])])
    /\ DOMAIN Backup \cap (Codes \cup Bought \cup {NoProduct}) = {}

VARIABLES
    sold,       \* metro_produit_agregat, code -> product of the backup, or NoProduct if bought
    scripts,    \* scripts and recalculations begun
    kept,       \* history: the script ran without a refused INSERT, and no recalculation since it began
    bpreq
backupVars == <<sold, scripts, kept, bpreq>>

(* k: products gone through; existing: codes read at the start or inserted *)
(* since; new: rows inserted; broken: an INSERT was refused; stale: a      *)
(* recalculation has ended since the codes were read.                      *)
BIdle == [pc |-> "idle", k |-> 0, existing |-> {}, new |-> {}, broken |-> FALSE, stale |-> FALSE]

BackupInit ==
    /\ sold = [e \in {} |-> NoProduct] /\ scripts = 0 /\ kept = FALSE
    /\ bpreq = [r \in Workers |-> BIdle]

BBecome(r, q) == bpreq' = [bpreq EXCEPT ![r] = q]

(* Mutant of EanOf: the first barcode, principal or not. *)
EanFirst(k) == IF Backup[k].barcodes = <<>> THEN k ELSE Backup[k].barcodes[1].code

(* The principal barcode, else the first; a product without barcodes has a *)
(* code made of its number, which stands for it here.                      *)
EanOf(k) ==
    LET codes == Backup[k].barcodes
        principal == {j \in DOMAIN codes : codes[j].principal}
        first == CHOOSE j \in principal : \A i \in principal : j <= i
    IN IF codes = <<>> THEN k
       ELSE codes[IF principal = {} THEN 1 ELSE first].code

-----------------------------------------------------------------------------
ReadExisting(r) ==
    /\ ~Busy(bpreq, r) /\ scripts < MaxScripts /\ scripts' = scripts + 1
    /\ BBecome(r, [BIdle EXCEPT !.pc = "insert", !.existing = DOMAIN sold])
    /\ UNCHANGED <<sold, kept>>

(* The next product: skipped, or inserted.  The INSERT waits for another   *)
(* that has the code and is not committed, and is refused if it is there.  *)
InsertProduct(r) ==
    LET q == bpreq[r]
        k == q.k + 1
        e == EanOf(k)
        skipped == Backup[k].orphan \/ e \in q.existing
        refused == q.broken \/ e \in DOMAIN sold
    IN
    /\ q.pc = "insert" /\ k <= Len(Backup)
    /\ \/ skipped \/ q.broken
       \/ \A o \in InProgress(bpreq, r) : o.broken \/ \A p \in o.new : EanOf(p) # e
    /\ BBecome(r, IF skipped THEN [q EXCEPT !.k = k]
                  ELSE IF refused THEN [q EXCEPT !.k = k, !.broken = TRUE]
                  ELSE [q EXCEPT !.k = k, !.existing = @ \cup {e}, !.new = @ \cup {k}])
    /\ UNCHANGED <<sold, scripts, kept>>

CommitMigration(r) ==
    LET q == bpreq[r]
        new == IF q.broken THEN {} ELSE q.new
        codes == {EanOf(k) : k \in new}
    IN
    /\ q.pc = "insert" /\ q.k = Len(Backup)
    /\ sold' = [e \in DOMAIN sold \cup codes |->
                  IF e \in codes THEN CHOOSE k \in new : EanOf(k) = e ELSE sold[e]]
    /\ kept' = (kept \/ ~(q.broken \/ q.stale))
    /\ BBecome(r, BIdle) /\ UNCHANGED scripts

(* recalculer_agregats deletes the rows and inserts those of the invoices. *)
Recalculated ==
    /\ scripts < MaxScripts /\ scripts' = scripts + 1
    /\ ~ \E r \in Workers : ~bpreq[r].broken /\ \E k \in bpreq[r].new : EanOf(k) \in Bought
    /\ sold' = [e \in Bought |-> NoProduct]
    /\ kept' = FALSE
    /\ bpreq' = [r \in Workers |-> [bpreq[r] EXCEPT !.stale = Busy(bpreq, r)]]

MigrationCutOff(r) == Busy(bpreq, r) /\ BBecome(r, BIdle) /\ UNCHANGED <<sold, scripts, kept>>

BackupNext ==
    \/ Recalculated
    \/ \E r \in Workers : ReadExisting(r) \/ InsertProduct(r) \/ CommitMigration(r) \/ MigrationCutOff(r)

-----------------------------------------------------------------------------
(* When the script has run without a refused INSERT, and no recalculation  *)
(* since it began, whatever else was cut off, every product of the backup  *)
(* has a row with its code, or is one of those that share it: the first of *)
(* them, unless METRO sells it.                                            *)
BackupWhole ==
    /\ kept => \A k \in DOMAIN Backup : Backup[k].orphan \/ EanOf(k) \in DOMAIN sold
    /\ \A e \in DOMAIN sold : sold[e] # NoProduct =>
          \A k \in 1..sold[e] - 1 : Backup[k].orphan \/ EanOf(k) # e

(* The row has the product's principal barcode if it has one. *)
PrincipalCode ==
    \A e \in DOMAIN sold : sold[e] # NoProduct =>
        LET b == Backup[sold[e]].barcodes
        IN (\E j \in DOMAIN b : b[j].principal) => \E j \in DOMAIN b : b[j].principal /\ b[j].code = e

BackupConsistent == BackupWhole /\ PrincipalCode

BackupSpec == BackupInit /\ [][BackupNext]_backupVars
=============================================================================
