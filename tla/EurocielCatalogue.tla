-------------------------- MODULE EurocielCatalogue --------------------------
(***************************************************************************)
(* The catalogue of EUROCIEL: the script that reads its PDF into a file,   *)
(* and the one that replaces the rows of a tenant by those of the file, in *)
(* one transaction.                                                        *)
(*                                                                         *)
(* A page is a sequence of printed lines: a name in capitals, a reference  *)
(* with its size and weight on one line, "REF :" with a reference, or a    *)
(* line that nothing reads.  What a line says beside the reference is left *)
(* out, and so is page_source, which an update leaves as it was.           *)
(***************************************************************************)
EXTENDS Requests, SequencesExt

CONSTANTS
    Pdfs,        \* the catalogues: sequences of pages, each with the page's form and its lines
    Refs,        \* references of products
    NoRef,
    MaxEditions  \* bound on the files ever written, and on the imports

ASSUME CatalogueAssumption == MaxEditions \in Nat /\ NoRef \notin Refs

VARIABLES
    file,       \* the file: products read, in order; none before the first extraction
    editions,   \* files written so far
    imported,   \* imports begun so far
    offered,    \* rows of eurociel_catalogue_produit, reference -> name and the import that inserted it
    last,       \* history: the products of the file imported last
    soloImport, \* history: no two imports have overlapped
    creq
catalogueVars == <<file, editions, imported, offered, last, soloImport, creq>>

(* by: which import; load: the products of the file; todo: those left to   *)
(* insert; seen: rows that the DELETE sees; gone: those it deleted; new:   *)
(* rows inserted or updated.                                               *)
CIdle == [pc |-> "idle", by |-> 0, load |-> <<>>, todo |-> <<>>, seen |-> {}, gone |-> {}, new |-> <<>>]

CatalogueInit ==
    /\ file = <<>> /\ editions = 0 /\ imported = 0
    /\ offered = <<>> /\ last = <<>> /\ soloImport = TRUE
    /\ creq = [r \in Workers |-> CIdle]

-----------------------------------------------------------------------------
(* The name printed last before line k of a page, 0 before the first.      *)
NameBefore(page, k) ==
    LET names == {j \in 1..k - 1 : page[j].kind = "name"}
    IN IF names = {} THEN 0 ELSE CHOOSE j \in names : \A i \in names : i <= j

LinesOf(page, kind) == SelectSeq([k \in DOMAIN page |-> k], LAMBDA k : page[k].kind = kind)
Product(page, k, n) == [ref |-> page[k].says, name |-> n]

(* Standard pages, and the volailles: a row belongs to the last name; rows *)
(* before the first name are passed over.                                  *)
ExtractStandard(page) ==
    LET rows == SelectSeq(LinesOf(page, "row"), LAMBDA k : NameBefore(page, k) # 0)
    IN [i \in DOMAIN rows |-> Product(page, rows[i], page[NameBefore(page, rows[i])].says)]

(* Mutant of ExtractRefQte: the names are counted from the second on.      *)
ExtractRefQteShifted(page) ==
    LET refs == LinesOf(page, "ref")
        names == LinesOf(page, "name")
    IN [i \in DOMAIN refs |->
          Product(page, refs[i], IF i + 1 <= Len(names) THEN page[names[i + 1]].says ELSE NoRef)]

(* Pages of "REF :" lines: the first reference has the first name of the   *)
(* page, the second the second; one without a name has its reference.      *)
ExtractRefQte(page) ==
    LET refs == LinesOf(page, "ref")
        names == LinesOf(page, "name")
    IN [i \in DOMAIN refs |->
          Product(page, refs[i], IF i <= Len(names) THEN page[names[i]].says ELSE NoRef)]

(* A page by its number, each reference kept where it comes first.         *)
OncePerRef(products) ==
    LET first == SelectSeq([i \in DOMAIN products |-> i],
                           LAMBDA i : \A j \in 1..i - 1 : products[j].ref # products[i].ref)
    IN [k \in DOMAIN first |-> products[first[k]]]

ExtractPage(form, page) ==
    OncePerRef(CASE form = "standard" -> ExtractStandard(page)
                 [] form = "ref" -> ExtractRefQte(page) \o ExtractStandard(page)
                 [] form = "volailles" -> ExtractStandard(page) \o ExtractRefQte(page))

(* A reference of two pages is in the file twice.                          *)
ExtractPages(pdf, n) == FlattenSeq([p \in 1..n |-> ExtractPage(pdf[p].form, pdf[p].lines)])

(* The script writes the file.  An error on a page ends the extraction,    *)
(* but the products of the pages before it are still exported.             *)
ExtractCatalogue ==
    /\ editions < MaxEditions /\ editions' = editions + 1
    /\ \E pdf \in Pdfs : \E n \in 0..Len(pdf) : file' = ExtractPages(pdf, n)
    /\ UNCHANGED <<imported, offered, last, soloImport, creq>>

-----------------------------------------------------------------------------
CBecome(r, q) == creq' = [creq EXCEPT ![r] = q]

(* import_catalog loads the file, and its DELETE begins: it sees the rows  *)
(* committed so far.                                                       *)
RowsOffered == {<<x, offered[x].by>> : x \in DOMAIN offered}
LoadCatalogue(r) ==
    /\ ~Busy(creq, r) /\ editions > 0
    /\ imported < MaxEditions /\ imported' = imported + 1
    /\ CBecome(r, [CIdle EXCEPT !.pc = "delete", !.by = imported', !.load = file, !.seen = RowsOffered])
    /\ soloImport' = (soloImport /\ InProgress(creq, r) = {})
    /\ UNCHANGED <<file, editions, offered, last>>

(* The DELETE waits for a row that another import deletes or updates, and  *)
(* deletes the rows it saw that are there still.                           *)
HeldByOther(r, x) == \E o \in InProgress(creq, r) : x \in DOMAIN o.new \cup {y[1] : y \in o.gone}
DeleteCatalogue(r) ==
    LET q == creq[r] IN
    /\ q.pc = "delete"
    /\ \A x \in q.seen \cap RowsOffered : ~HeldByOther(r, x[1])
    /\ CBecome(r, [q EXCEPT !.pc = "insert", !.todo = q.load, !.gone = q.seen \cap RowsOffered])
    /\ UNCHANGED <<file, editions, imported, offered, last, soloImport>>

(* INSERT ... ON CONFLICT DO UPDATE waits for a row that another import    *)
(* inserts or deletes, and updates one committed meanwhile.                *)
UpsertProduct(r) ==
    LET q == creq[r]
        p == Head(q.todo)
        by == IF p.ref \in DOMAIN q.new THEN q.new[p.ref].by
              ELSE IF p.ref \in DOMAIN offered /\ <<p.ref, offered[p.ref].by>> \notin q.gone
              THEN offered[p.ref].by ELSE q.by
    IN
    /\ q.pc = "insert" /\ q.todo # <<>> /\ ~HeldByOther(r, p.ref)
    /\ CBecome(r, [q EXCEPT !.todo = Tail(@),
                            !.new = [x \in DOMAIN @ \cup {p.ref} |->
                                       IF x = p.ref THEN [name |-> p.name, by |-> by] ELSE @[x]]])
    /\ UNCHANGED <<file, editions, imported, offered, last, soloImport>>

CommitCatalogue(r) ==
    LET q == creq[r]
        rest == {x \in DOMAIN offered : <<x, offered[x].by>> \notin q.gone}
    IN
    /\ q.pc = "insert" /\ q.todo = <<>>
    /\ offered' = [x \in rest \cup DOMAIN q.new |-> IF x \in DOMAIN q.new THEN q.new[x] ELSE offered[x]]
    /\ last' = q.load
    /\ CBecome(r, CIdle) /\ UNCHANGED <<file, editions, imported, soloImport>>

(* An import that fails, or is ended for a deadlock, rolls back. *)
RollBackCatalogue(r) ==
    Busy(creq, r) /\ CBecome(r, CIdle) /\ UNCHANGED <<file, editions, imported, offered, last, soloImport>>

CatalogueNext ==
    \/ ExtractCatalogue
    \/ \E r \in Workers :
          \/ LoadCatalogue(r) \/ DeleteCatalogue(r) \/ UpsertProduct(r) \/ CommitCatalogue(r)
          \/ RollBackCatalogue(r)

-----------------------------------------------------------------------------
(* The catalogue is that of the file imported last, whatever imports were  *)
(* cut off: its references and no other, each with the name the file gives *)
(* it last, as long as no two imports overlap.                             *)
CatalogueOfFile ==
    soloImport =>
        /\ DOMAIN offered = {last[k].ref : k \in DOMAIN last}
        /\ \A x \in DOMAIN offered :
              \E k \in DOMAIN last :
                 /\ last[k].ref = x /\ offered[x].name = last[k].name
                 /\ \A j \in DOMAIN last : last[j].ref = x => j <= k

(* Where every "REF :" of a page has a name of its own printed just before *)
(* it and the page has no other names, a product read has that name.       *)
OwnNames(page) == \A k \in DOMAIN page :
    /\ page[k].kind = "ref" => k > 1 /\ page[k - 1].kind = "name"
    /\ page[k].kind = "name" => k < Len(page) /\ page[k + 1].kind = "ref"

NamesAsPrinted ==
    editions > 0 => \A pdf \in Pdfs : \A p \in DOMAIN pdf :
        LET page == pdf[p].lines IN
        OwnNames(page) => \A x \in Range(ExtractPage(pdf[p].form, page)) :
            \E k \in DOMAIN page : page[k].says = x.ref /\ page[k].kind = "ref"
                                   /\ page[NameBefore(page, k)].says = x.name

CatalogueConsistent == CatalogueOfFile /\ NamesAsPrinted

CatalogueSpec == CatalogueInit /\ [][CatalogueNext]_catalogueVars
=============================================================================
