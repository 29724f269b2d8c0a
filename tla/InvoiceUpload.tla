----------------------------- MODULE InvoiceUpload -----------------------------
(***************************************************************************)
(* The script that extracts the invoices of EUROCIEL from a file and posts *)
(* them to the API in batches.  The API replaces an invoice it has.  A     *)
(* batch that is refused is logged, and the script goes on; when the       *)
(* connection breaks the script ends, whether the batch was committed or   *)
(* not.  The script is then run again, on the same file or another.        *)
(***************************************************************************)
EXTENDS InvoiceFiles
LOCAL INSTANCE SequencesExt
LOCAL INSTANCE FiniteSetsExt

CONSTANTS
    Scans,       \* the documents that the script is run on
    BatchSize,
    MaxUploads   \* bound on the runs

ASSUME UploadAssumption == BatchSize \in Nat \ {0} /\ MaxUploads \in Nat

VARIABLES
    stored,    \* dwh.eurociel_facture with its lines: number -> <<document, articles>>
    uploads,   \* runs so far
    clean,     \* history: the last run that ended posted every batch of its file
    uproc      \* the script: its document, and the invoices still to post

uploadVars == <<stored, uploads, clean, uproc>>
Absent == <<0, {}>>
UIdle == [pc |-> "idle", scan |-> 1, todo |-> <<>>, refused |-> FALSE]

UploadInit == /\ stored = [n \in DocNumbers |-> Absent] /\ uploads = 0 /\ clean = 0 /\ uproc = UIdle

(* A run on a document with invoices; documents without end the script. *)
StartUpload ==
    /\ uproc.pc = "idle" /\ uploads < MaxUploads /\ uploads' = uploads + 1
    /\ \E k \in DOMAIN Scans :
          /\ EurocielInvoices(Scans[k]) # <<>>
          /\ uproc' = [pc |-> "post", scan |-> k, todo |-> EurocielInvoices(Scans[k]), refused |-> FALSE]
    /\ clean' = 0 /\ UNCHANGED stored

Batch == SubSeq(uproc.todo, 1, Min({BatchSize, Len(uproc.todo)}))

(* Mutant of Imported: an invoice that is stored is kept. *)
ImportedOnce == FoldLeft(LAMBDA db, f : IF db[f.no] = Absent
                                        THEN [db EXCEPT ![f.no] = <<uproc.scan, f.lines>>] ELSE db,
                         stored, Batch)

(* One commit of the API: each invoice of the batch, in its order, deletes *)
(* the stored one of its number.  An answer 200 has stored them all: the   *)
(* values this script writes convert, and an insertion that fails does so  *)
(* in a flush, after which the session refuses the commit (answer 500).    *)
Imported == FoldLeft(LAMBDA db, f : [db EXCEPT ![f.no] = <<uproc.scan, f.lines>>], stored, Batch)

Rest == SubSeq(uproc.todo, Len(Batch) + 1, Len(uproc.todo))

PostBatch ==
    /\ uproc.pc = "post" /\ uproc.todo # <<>>
    /\ stored' = Imported
    /\ uproc' = [uproc EXCEPT !.todo = Rest]
    /\ UNCHANGED <<uploads, clean>>
(* An answer other than 200: refused before the commit, or the             *)
(* recalculation that the endpoint runs after the commit failed.           *)
BatchRefused ==
    /\ uproc.pc = "post" /\ uproc.todo # <<>>
    /\ stored' \in {stored, Imported}
    /\ uproc' = [uproc EXCEPT !.todo = Rest, !.refused = TRUE]
    /\ UNCHANGED <<uploads, clean>>
ConnectionBreaks ==
    /\ uproc.pc = "post"
    /\ stored' \in {stored, Imported}
    /\ uproc' = UIdle
    /\ UNCHANGED <<uploads, clean>>
EndUpload ==
    /\ uproc.pc = "post" /\ uproc.todo = <<>>
    /\ clean' = IF uproc.refused THEN 0 ELSE uproc.scan
    /\ uproc' = UIdle
    /\ UNCHANGED <<stored, uploads>>

UploadNext == StartUpload \/ PostBatch \/ BatchRefused \/ ConnectionBreaks \/ EndUpload
UploadSpec == UploadInit /\ [][UploadNext]_uploadVars

-----------------------------------------------------------------------------
(* The variables have their types: no invoice without lines is stored. *)
UploadTypeOK ==
    /\ \A n \in DocNumbers : stored[n] = Absent \/ (stored[n][1] \in DOMAIN Scans /\ stored[n][2] # {})
    /\ uploads \in 0..MaxUploads /\ clean \in {0} \cup DOMAIN Scans
    /\ uproc.pc \in {"idle", "post"} /\ uproc.scan \in DOMAIN Scans

(* After a run that ended without a refused batch every invoice of its     *)
(* file is stored as this file has it, whatever runs before it had left.   *)
UploadComplete ==
    clean # 0 =>
        \A f \in Range(EurocielInvoices(Scans[clean])) :
            stored[f.no] \in {<<clean, g.lines>> : g \in {h \in Range(EurocielInvoices(Scans[clean])) :
                                                               h.no = f.no}}

(* The stored invoices are those of the files. *)
UploadConsistent == UploadTypeOK /\ UploadComplete
=============================================================================
