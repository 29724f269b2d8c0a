----------------------------- MODULE InvoiceFiles -----------------------------
(***************************************************************************)
(* What the extractors make of the PDF files of invoices.  EUROCIEL reads  *)
(* a file page by page: a page that names another invoice opens it, and    *)
(* the others continue the current one.  TAIYAT first cuts a file at each  *)
(* first page and takes as many pages as that page announces; a piece is   *)
(* then one invoice.  METRO has one invoice per file and reads its lines   *)
(* under the section titles.                                               *)
(*                                                                         *)
(* A page is [no, page, of, lines]: the invoice number it names, or        *)
(* NoNumber; what its footer says; and its articles, whose identity is     *)
(* their place.  Every definition is a function of a document.             *)
(***************************************************************************)
EXTENDS Integers, Sequences, FiniteSets
LOCAL INSTANCE SequencesExt

CONSTANTS
    DocNumbers,     \* invoice numbers
    NoNumber,
    MaxPages,    \* bound on the pages of a document, and on the lines of a text
    Categories, NoCategory

ASSUME InvoiceFilesAssumption == NoNumber \notin DocNumbers /\ NoCategory \notin Categories /\ MaxPages \in Nat

Page == [no : DocNumbers \cup {NoNumber}, page : 1..2, of : 1..2, lines : 0..1]
Articles(doc, i) == {i} \X (1..doc[i].lines)

-----------------------------------------------------------------------------
(* EUROCIEL.  An invoice without lines is not kept. *)
Keep(out, cur) == IF cur.lines = {} THEN out ELSE Append(out, cur)
NoInvoice == [no |-> NoNumber, lines |-> {}]

(* Mutant of Opens: every page that names an invoice opens one. *)
OpensAlways(s, page) == page.no # NoNumber

Opens(s, page) == page.no # NoNumber /\ page.no # s.cur.no
ReadPage(doc) ==
    LET Read(s, i) ==
          LET t == IF Opens(s, doc[i])
                   THEN [out |-> Keep(s.out, s.cur), cur |-> [no |-> doc[i].no, lines |-> {}]]
                   ELSE s
          IN  IF t.cur.no = NoNumber THEN t
              ELSE [t EXCEPT !.cur.lines = @ \cup Articles(doc, i)]
    IN  FoldLeft(Read, [out |-> <<>>, cur |-> NoInvoice], [i \in DOMAIN doc |-> i])
EurocielInvoices(doc) == LET s == ReadPage(doc) IN Keep(s.out, s.cur)

-----------------------------------------------------------------------------
(* TAIYAT: the pieces of a document, in the order of their first pages.  A *)
(* piece is written to a file named after its number, and replaces one of  *)
(* that name.                                                              *)
FirstPages(doc) == {i \in DOMAIN doc : doc[i].no # NoNumber /\ doc[i].page = 1}
LastPage(doc, i) == i + doc[i].of - 1
Piece(doc, i) == {j \in DOMAIN doc : i <= j /\ j <= LastPage(doc, i)}

SplitFiles(doc) ==
    {[no |-> doc[i].no, pages |-> Piece(doc, i)] :
        i \in {k \in FirstPages(doc) : \A m \in FirstPages(doc) : doc[m].no = doc[k].no => m <= k}}

(* The text of a piece is one invoice, with the number that it names first. *)
TaiyatInvoices(doc) ==
    {[no |-> f.no, lines |-> UNION {Articles(doc, i) : i \in f.pages}] : f \in SplitFiles(doc)}

-----------------------------------------------------------------------------
(* The articles of EUROCIEL.  What decides which pattern reads a line: a   *)
(* word of totals and headings in it, a designation of ten characters, the *)
(* VAT code ("spaced" is C0 * 7), the sign of the amount.  A line that no  *)
(* pattern reads is left out.                                              *)
EurocielLine == [word : BOOLEAN, long : BOOLEAN, code : {"none", "spaced", "plain"}, negative : BOOLEAN]
ReadBy(l) ==
    IF l.word THEN "ignored"
    ELSE IF l.code # "none" /\ ~l.negative THEN "RE_LIGNE"
    ELSE IF l.long THEN "RE_LIGNE_LONG"
    ELSE IF l.code # "spaced" /\ ~l.negative THEN "RE_LIGNE_ALT"
    ELSE "unread"

(* The columns of the line that become weight, unit price and amount. *)
NoColumn == "none"
Columns(l) == IF ReadBy(l) = "RE_LIGNE_ALT"
              THEN [poids |-> NoColumn, prix |-> "poids", montant |-> "prix"]
              ELSE [poids |-> "poids", prix |-> "prix", montant |-> "montant"]

-----------------------------------------------------------------------------
(* METRO.  A line is a section title ("*** CAVE") or begins with a heading *)
(* word; or begins with a digit, and is then an article, a fee or a line   *)
(* that cannot be read: no EAN, an excluded word, or an article without    *)
(* price or amount.  The category is that of the last title; without one,  *)
(* that of the article's regie, if it has one.                             *)
MetroKinds == {"title", "article", "fee", "unread", "text"}
MetroLine == [kind : MetroKinds, cat : Categories \cup {NoCategory}]

(* The title's category, or the regie's. *)
Category(s, l) == IF s.cat # NoCategory THEN s.cat ELSE IF l.kind = "article" THEN l.cat ELSE NoCategory
ReadLine(s, l) ==
    CASE l.kind = "title" -> [s EXCEPT !.cat = l.cat]
      [] l.kind \in {"article", "fee"} ->
            [s EXCEPT !.lignes = Append(@, [fee |-> l.kind = "fee", cat |-> Category(s, l)])]
      [] l.kind = "unread" -> [s EXCEPT !.echec = @ + 1]
      [] OTHER -> s
MetroInvoice(text) == FoldLeft(ReadLine, [cat |-> NoCategory, lignes |-> <<>>, echec |-> 0], text)

-----------------------------------------------------------------------------
(* Documents of whole invoices, each with its pages in order. *)
Whole(doc) ==
    /\ \A i \in DOMAIN doc :
          /\ doc[i].no # NoNumber /\ doc[i].page <= doc[i].of
          /\ doc[i].page = 1 =>
                \A k \in 1..(doc[i].of - 1) :
                    /\ i + k \in DOMAIN doc
                    /\ doc[i + k] = [doc[i + k] EXCEPT !.no = doc[i].no, !.page = 1 + k, !.of = doc[i].of]
          /\ doc[i].page > 1 =>
                i > 1 /\ doc[i - 1].no = doc[i].no /\ doc[i - 1].page = doc[i].page - 1
                      /\ doc[i - 1].of = doc[i].of
    /\ \A i, j \in FirstPages(doc) : doc[i].no = doc[j].no => i = j
Printed(doc, n) == UNION {Articles(doc, i) : i \in {k \in DOMAIN doc : doc[k].no = n}}

Documents == UNION {[1..n -> Page] : n \in 0..MaxPages}

(* From a document of whole invoices EUROCIEL gets those with lines, each  *)
(* once and with its lines, and from any document it takes no article      *)
(* twice and loses none that follows a number.                             *)
EurocielWhole ==
    \A doc \in Documents :
        LET out == EurocielInvoices(doc)
            taken == UNION {out[k].lines : k \in DOMAIN out}
        IN  /\ Whole(doc) =>
                 {out[k] : k \in DOMAIN out} =
                     {[no |-> n, lines |-> Printed(doc, n)] :
                         n \in {m \in DocNumbers : Printed(doc, m) # {}}}
            /\ \A j, k \in DOMAIN out : j # k => out[j].lines \cap out[k].lines = {}
            /\ taken = UNION {Articles(doc, i) :
                                i \in {k \in DOMAIN doc : \E j \in 1..k : doc[j].no # NoNumber}}

(* From a document of whole invoices TAIYAT gets each with its lines. *)
TaiyatWhole ==
    \A doc \in Documents :
        Whole(doc) => TaiyatInvoices(doc) = {[no |-> doc[i].no, lines |-> Printed(doc, doc[i].no)] :
                                               i \in DOMAIN doc}

(* Every text of METRO lines up to the bound: the articles come in their   *)
(* order, each under the last title before it, and the lines that begin    *)
(* with a digit are either there or counted as failed.                     *)
MetroTexts == UNION {[1..n -> {l \in MetroLine : l.kind = "title" => l.cat # NoCategory}] :
                        n \in 0..MaxPages}
LastTitle(text, i) == LET before == {k \in 1..(i - 1) : text[k].kind = "title"}
                      IN  IF before = {} THEN NoCategory
                          ELSE text[CHOOSE k \in before : \A m \in before : m <= k].cat
MetroCategories ==
    \A text \in MetroTexts :
        LET read == MetroInvoice(text)
            kept == {i \in DOMAIN text : text[i].kind \in {"article", "fee"}}
            rank(i) == Cardinality({k \in kept : k <= i})
        IN  /\ Len(read.lignes) = Cardinality(kept)
            /\ read.echec = Cardinality({i \in DOMAIN text : text[i].kind = "unread"})
            /\ \A i \in kept :
                  LET l == read.lignes[rank(i)] title == LastTitle(text, i) IN
                  /\ l.fee = (text[i].kind = "fee")
                  /\ l.cat = IF title # NoCategory \/ l.fee THEN title ELSE text[i].cat

(* No pattern reads a EUROCIEL line that ends with its VAT code one column *)
(* off: the price and the amount are those printed.  Of a line without the *)
(* code and with a short designation, RE_LIGNE_ALT takes the weight for    *)
(* the price.                                                              *)
ReadAsPrinted ==
    \A l \in EurocielLine :
        l.code # "none" /\ ReadBy(l) \notin {"ignored", "unread"} =>
            Columns(l).prix = "prix" /\ Columns(l).montant = "montant"

(* The pages and the lines of the three suppliers' files are read whole, a *)
(* line that a pattern reads under its invoice or title.  A line that none *)
(* reads is left out.                                                      *)
FilesReadWhole == EurocielWhole /\ TaiyatWhole /\ MetroCategories /\ ReadAsPrinted
=============================================================================
