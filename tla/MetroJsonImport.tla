---------------------------- MODULE MetroJsonImport ----------------------------
(***************************************************************************)
(* The script that loads a JSON file of METRO invoices into the warehouse. *)
(* It commits the row of an invoice before its lines, and an error in the  *)
(* lines rolls back those only.  The process can die between commits and   *)
(* be run again.                                                           *)
(***************************************************************************)
EXTENDS Integers, FiniteSets, Functions

CONSTANTS
    Bills,       \* invoice numbers
    Places,      \* positions of a line; the EAN of a line is its place
    MaxImports   \* bound on the runs

ASSUME FilesAssumption == IsFiniteSet(Bills) /\ IsFiniteSet(Places)
ASSUME JsonAssumption == MaxImports \in Nat

Lines == Bills \X Places

VARIABLES
    jRow,      \* dwh.metro_facture: invoices with a row
    jLines,    \* dwh.metro_ligne: how often a line is there
    jSum,      \* dwh.metro_produit_agregat: nb_achats of each EAN
    jRuns,     \* runs so far
    jDone,     \* history: the invoices of a run that ended and did not report them
    jproc      \* the process: its file, invoices to come, and the current one

jsonVars == <<jRow, jLines, jSum, jRuns, jDone, jproc>>
JIdle == [pc |-> "idle", file |-> {}, todo |-> {}, on |-> CHOOSE i \in Bills : TRUE, bad |-> {}, erreurs |-> {}]

JsonInit ==
    /\ jRow = {} /\ jLines = [l \in Lines |-> 0] /\ jSum = [p \in Places |-> 0]
    /\ jRuns = 0 /\ jDone = {} /\ jproc = JIdle

(* A run on a file of some invoices; the insert of a line of the bad ones  *)
(* is refused by the database.                                             *)
StartImport ==
    /\ jproc.pc = "idle" /\ jRuns < MaxImports /\ jRuns' = jRuns + 1
    /\ \E file \in SUBSET Bills \ {{}} : \E bad \in SUBSET file :
          jproc' = [JIdle EXCEPT !.pc = "facture", !.file = file, !.todo = file,
                                    !.bad = bad]
    /\ UNCHANGED <<jRow, jLines, jSum, jDone>>

(* The row of the next invoice, unless it has one; a commit. *)
ImportFacture ==
    /\ jproc.pc = "facture"
    /\ \E i \in jproc.todo :
          /\ jRow' = jRow \cup {i}
          /\ jproc' = [jproc EXCEPT !.pc = "lignes", !.todo = @ \ {i}, !.on = i]
    /\ UNCHANGED <<jLines, jSum, jRuns, jDone>>

(* Mutant of ImportLignes: the lines before the refused one stay. *)
ImportLignesKept ==
    /\ jproc.pc = "lignes"
    /\ LET failed == jproc.on \in jproc.bad
           in(l) == l[1] = jproc.on /\ (failed => l[2] = CHOOSE p \in Places : TRUE)
       IN
       /\ jLines' = [l \in Lines |-> IF in(l) THEN jLines[l] + 1 ELSE jLines[l]]
       /\ jproc' = [jproc EXCEPT !.pc = "facture",
                                 !.erreurs = IF failed THEN @ \cup {jproc.on} ELSE @]
    /\ UNCHANGED <<jRow, jSum, jRuns, jDone>>

(* Its lines; a commit, or a rollback and an entry in stats['erreurs']. *)
ImportLignes ==
    /\ jproc.pc = "lignes"
    /\ LET failed == jproc.on \in jproc.bad IN
       /\ jLines' = [l \in Lines |-> IF l[1] = jproc.on /\ ~failed THEN jLines[l] + 1 ELSE jLines[l]]
       /\ jproc' = [jproc EXCEPT !.pc = "facture",
                                 !.erreurs = IF failed THEN @ \cup {jproc.on} ELSE @]
    /\ UNCHANGED <<jRow, jSum, jRuns, jDone>>

(* Lines on record with an EAN. *)
LinesWith(p) == SumFunctionOnSet([i \in Bills |-> jLines[<<i, p>>]], Bills)

(* The aggregates, deleted and computed again from the lines; the end. *)
RecalculerAgregats ==
    /\ jproc.pc = "facture" /\ jproc.todo = {}
    /\ jSum' = [p \in Places |-> LinesWith(p)]
    /\ jDone' = jDone \cup (jproc.file \ jproc.erreurs)
    /\ jproc' = JIdle
    /\ UNCHANGED <<jRow, jLines, jRuns>>

(* The process or its connection ends. *)
ImportDies == jproc.pc # "idle" /\ jproc' = JIdle /\ UNCHANGED <<jRow, jLines, jSum, jRuns, jDone>>

JsonNext == StartImport \/ ImportFacture \/ ImportLignes \/ RecalculerAgregats \/ ImportDies
JsonSpec == JsonInit /\ [][JsonNext]_jsonVars

-----------------------------------------------------------------------------
(* The units of a line.  calculer_colisage_depuis_montant compares the     *)
(* amount with that of a pack of one; a pack that the designation names    *)
(* replaces a computed pack of one.  Prices and amounts are in cents.      *)
RoundedQuotient(m, d) ==
    LET f == m \div d   r == m % d IN
    IF 2 * r < d \/ (2 * r = d /\ f % 2 = 0) THEN f ELSE f + 1
Colisage(quantite, prix, montant) ==
    IF quantite <= 0 \/ prix <= 0 \/ montant = quantite * prix THEN 1
    ELSE LET c == RoundedQuotient(montant, quantite * prix) IN IF c < 1 THEN 1 ELSE c
LinePack(quantite, prix, montant, named) ==
    LET c == Colisage(quantite, prix, montant) IN IF named > 1 /\ c = 1 THEN named ELSE c

-----------------------------------------------------------------------------
(* The variables have their types. *)
JsonTypeOK ==
    /\ jRow \subseteq Bills /\ jLines \in [Lines -> 0..MaxImports] /\ jRuns \in 0..MaxImports
    /\ \A p \in Places : jSum[p] \in Nat
    /\ jDone \subseteq Bills
    /\ jproc.pc \in {"idle", "facture", "lignes"} /\ jproc.todo \cup jproc.bad \subseteq jproc.file
    /\ jproc.erreurs \subseteq jproc.bad /\ (jproc.pc = "lignes" => jproc.on \in jRow)

(* An invoice that a run has not reported as an error is there with all    *)
(* its lines, though runs before may have died between the commit of its   *)
(* row and that of its lines; and it never has a part of them.             *)
ImportedWhole ==
    \A i \in Bills :
        /\ i \in jDone => i \in jRow /\ \A p \in Places : jLines[<<i, p>>] > 0
        /\ \A p, q \in Places : jLines[<<i, p>>] = jLines[<<i, q>>]

(* The aggregates lag behind the lines when a run dies, and never count    *)
(* more than there are.                                                    *)
AggregatesBehind == \A p \in Places : jSum[p] <= LinesWith(p)

(* The units computed for a line whose amount is within half a unit price  *)
(* per piece of quantity of those of some pack are the units of that pack, *)
(* unless the designation names a pack where the amount is that of one.    *)
PackOfAmount ==
    \A quantite \in 1..3, prix \in 1..4, pack \in 1..4, off \in -5..5, named \in {1, 6} :
        LET montant == quantite * prix * pack + off IN
        (2 * off < quantite * prix /\ -2 * off < quantite * prix) =>
            LinePack(quantite, prix, montant, named) = (IF pack = 1 /\ named > 1 THEN named ELSE pack)

(* What is in the warehouse is what the files and their lines say. *)
JsonConsistent == JsonTypeOK /\ ImportedWhole /\ AggregatesBehind /\ PackOfAmount
=============================================================================
