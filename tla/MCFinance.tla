------------------------------- MODULE MCFinance -------------------------------
(***************************************************************************)
(* The finance components, the purchases and the scripts that load or link *)
(* what was purchased, side by side.  No row of one that several write is  *)
(* another's, so each behaviour steps through one of them (part):          *)
(* creations and cancellations of transactions on two accounts, the lines  *)
(* of transactions, invoices, the codes of one kind of row, members, the   *)
(* imports of the API, or one of the scripts; those that link products run *)
(* beside METRO's recalculations (links) or another supplier's (others).   *)
(***************************************************************************)
EXTENDS FinanceLedger, FinanceInvoices, FinanceRegister, SupplierImports,
        InvoiceUpload, MetroJsonImport, ProductLinks, Migrations, EurocielCatalogue, TLC

CONSTANTS t1, t2, a1, a2, v1, ab, AB, p1, p2, oil, m1, m2, o1, o2, rice, RICE, stew, n1, n2
MCOwner == a1 :> t1 @@ a2 :> t2
MCInitial == a1 :> 0 @@ a2 :> 0

MCCapitals == ab :> AB @@ AB :> AB
MCPayments == {-1, 1, 2}

Purchase(L, f) == [lines |-> L, fault |-> f]
MCFiles == {1 :> Purchase({p1}, "none"), 1 :> Purchase({p2}, "before"),
            2 :> Purchase({p1, p2}, "within"),
            (1 :> Purchase({p2}, "none")) @@ (2 :> Purchase({p1}, "flush"))}

(* A scan of two invoices; one with a page that names none, and an invoice *)
(* without lines; and a newer one of the same invoices.                    *)
P(n, l) == [no |-> n, page |-> 1, of |-> 1, lines |-> l]
MCScans == <<<<P(1, 1), P(2, 1)>>, <<P(1, 1), P(2, 0), P(3, 1), P(0, 1)>>,
             <<P(3, 1), P(2, 1), P(1, 1), P(0, 1)>>>>

(* One ingredient, whose best article METRO sells for one of the scripts   *)
(* and another supplier for the other; the numbers of METRO's two articles *)
(* in dim_produit are those of its aggregates, exchanged.                  *)
MCDimNumber == m1 :> 2 @@ m2 :> 1
MCKeywords == oil :> {m1, m2}
MCFound == oil :> ("auto" :> <<m1, o1>> @@ "auto2" :> <<o1, m2>>)

(* A dish of two ingredients, one of whose names is written in two ways;   *)
(* files of its recipe with a dish that is unknown and with a line twice.  *)
MCTemplate == stew :> {rice, oil}
MCLowerCase == rice :> rice @@ RICE :> rice @@ oil :> oil @@ stew :> stew
MCFileIngredients == 1 :> rice @@ 2 :> oil
MCFileDishes == 1 :> stew
MCFileLines == {<<<<1, 1>>, <<1, 2>>, <<2, 1>>>>, <<<<1, 1>>, <<1, 2>>, <<1, 1>>>>}

(* Two products that share a code, which is the principal one of the first *)
(* only, one without code, an orphan, and one METRO does not sell.         *)
Barcode(c, p) == [code |-> c, principal |-> p]
Kept(b) == [orphan |-> FALSE, barcodes |-> b]
MCBackup == <<Kept(<<Barcode(101, FALSE), Barcode(102, TRUE)>>), Kept(<<Barcode(102, FALSE)>>), Kept(<<>>),
              [orphan |-> TRUE, barcodes |-> <<Barcode(103, TRUE)>>], Kept(<<Barcode(104, FALSE)>>)>>

(* Catalogues with a reference before the first name, one on two pages and *)
(* fewer names than references.                                            *)
Printing(k, x) == [kind |-> k, says |-> x]
PageOf(f, l) == [form |-> f, lines |-> l]
MCPdfs == {<<PageOf("standard", <<Printing("row", 1), Printing("name", n1), Printing("row", 1), Printing("row", 2)>>),
             PageOf("ref", <<Printing("name", n2), Printing("ref", 2), Printing("name", n1), Printing("ref", 3)>>)>>,
           <<PageOf("volailles", <<Printing("name", n2), Printing("row", 2), Printing("name", n1),
                                   Printing("ref", 2), Printing("ref", 3)>>)>>}

VARIABLE part
loadVars == <<uploadVars, jsonVars>>
scriptVars == <<linkVars, seedVars, backupVars, catalogueVars>>
financeVars == <<ledgerVars, invoiceVars, registerVars, importVars>>
mcVars == <<part, financeVars, loadVars, scriptVars>>
Parts == {"ledger", "lines", "invoices", "members", "import", "catalogue", "upload", "json",
          "links", "others", "seed", "backup", "eurociel"} \cup RowKinds
MCInit ==
    /\ LedgerInit /\ InvoicesInit /\ RegisterInit /\ ImportsInit /\ UploadInit /\ JsonInit
    /\ LinksInit /\ SeedInit /\ BackupInit /\ CatalogueInit
    /\ part \in Parts
    /\ part # "import" => keeps = (part # "catalogue")

(* Once two scripts or requests overlap, none begins; a synchronization of *)
(* prices and a deletion are alone, and the first price set is the last.   *)
(* One supplier of the two has more than one article recalculated.         *)
LinksRestricted ==
    /\ ~oneAtATime => \A r \in Workers : ~Busy(preq, r) => preq'[r] = preq[r]
    /\ \A r, q \in Workers : q # r /\ preq'[r].op = "sync" => ~Busy(preq', q)
    /\ ~oneAtATime => DOMAIN made \subseteq DOMAIN made'
    /\ priced[oil] = NoArticle
    /\ part = "links" => numbers'[o2] = 0 /\ \A s \in Suppliers : lastNumber'[s] <= 2
    /\ part = "others" => lastNumber'["METRO"] = 0
SeedRestricted ==
    ~(scriptAlone /\ uncrossed) => \A r \in Workers : ~Busy(sreq, r) => sreq'[r] = sreq[r]
(* What the requests of a part do.  The second account receives money, of  *)
(* its own tenant's requests.                                              *)
Restricted ==
    /\ part = "ledger" => \A r \in Workers :
          /\ lreq'[r].op # "categorize"
          /\ lreq'[r].tx.acc = a2 => lreq'[r].tx.tenant = t2 /\ lreq'[r].tx.dir = "IN"
    /\ part = "lines" => lastTx' < MaxTx /\ \A r \in Workers : lreq'[r].op # "cancel" /\ lreq'[r].tx.acc = a1
    /\ part \in RowKinds => \A r \in Workers : greq'[r].on = part \/ ~Busy(greq', r)
    /\ part = "members" => \A r \in Workers : greq'[r].op \in {"none", "add", "remove"}
    /\ part = "import" => lastRun' <= 1 /\ \A r \in Workers : areq'[r].op \in {"none", "import", "recalculate"}
    /\ part = "catalogue" =>
          /\ lastRun' = 2 => Cardinality({r \in Workers : Busy(areq', r)}) <= 1
          /\ lastInvoice' <= 1 /\ \A f \in {areq'[r].todo : r \in Workers} :
                                        f \in {<<>>, 1 :> Purchase({p1}, "none")}

MCNext ==
    /\ UNCHANGED part
    /\ \/ part \in {"ledger", "lines"} /\ LedgerNext /\ UNCHANGED <<invoiceVars, registerVars, importVars, loadVars, scriptVars>>
       \/ part = "invoices" /\ InvoicesNext /\ UNCHANGED <<ledgerVars, registerVars, importVars, loadVars, scriptVars>>
       \/ part \in {"members"} \cup RowKinds /\ RegisterNext /\ UNCHANGED <<ledgerVars, invoiceVars, importVars, loadVars, scriptVars>>
       \/ part \in {"import", "catalogue"} /\ ImportsNext /\ UNCHANGED <<ledgerVars, invoiceVars, registerVars, loadVars, scriptVars>>
       \/ part = "upload" /\ UploadNext /\ UNCHANGED <<financeVars, jsonVars, scriptVars>>
       \/ part = "json" /\ JsonNext /\ UNCHANGED <<financeVars, uploadVars, scriptVars>>
       \/ part \in {"links", "others"} /\ LinksNext /\ LinksRestricted /\ UNCHANGED <<financeVars, loadVars, seedVars, backupVars, catalogueVars>>
       \/ part = "seed" /\ SeedNext /\ SeedRestricted /\ UNCHANGED <<financeVars, loadVars, linkVars, backupVars, catalogueVars>>
       \/ part = "backup" /\ BackupNext /\ UNCHANGED <<financeVars, loadVars, linkVars, seedVars, catalogueVars>>
       \/ part = "eurociel" /\ CatalogueNext /\ UNCHANGED <<financeVars, loadVars, linkVars, seedVars, backupVars>>
    /\ Restricted
MCSpec == MCInit /\ [][MCNext]_mcVars
Symmetry == Permutations(Workers)

(* Each edition of the catalogue lists the references of its PDF, and each *)
(* invoice file is read page by page and line by line (FilesReadWhole,     *)
(* which speaks of every document and of no variable, so it is evaluated   *)
(* in a few states).                                                       *)
PdfsReadWhole ==
    /\ CatalogueConsistent
    /\ editions = 1 /\ imported = 0 => FilesReadWhole
=============================================================================
