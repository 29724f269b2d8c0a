----------------------------- MODULE FinanceLedger -----------------------------
(***************************************************************************)
(* Accounts and transactions of app/services/finance.  A transaction is    *)
(* inserted, then the balance of its account is loaded, changed in Python  *)
(* and written; a cancellation loads the transaction, then the account,    *)
(* and reverts the balance.  The balance is written whatever the row holds *)
(* by then.  A transaction may name an account of another tenant: the      *)
(* foreign key is satisfied and the tenant's query finds no account.       *)
(***************************************************************************)
EXTENDS Requests, Functions

CONSTANTS
    Accounts, Owner,     \* Owner[a]: the tenant of account a
    Initial,             \* Initial[a]: initial_balance
    Amounts,             \* what clients ask for (the schema wants them positive)
    MaxBalance,          \* range of a BIGINT column
    MaxTx, MaxBatches    \* bounds on the transactions and categorizations ever made

ASSUME LedgerAssumption ==
    /\ MaxBalance \in Nat /\ MaxTx \in Nat /\ MaxBatches \in Nat
    /\ Owner \in [Accounts -> Tenants] /\ Initial \in [Accounts -> -MaxBalance..MaxBalance]
    /\ Amounts \subseteq Nat \ {0}

Directions == {"IN", "OUT", "TRANSFER"}
TxIds == 1..MaxTx
Batches == 1..MaxBatches
Balances == -MaxBalance..MaxBalance
Transaction == [tenant : Tenants, acc : Accounts, dir : Directions, amount : Amounts,
                status : {"CONFIRMED", "CANCELLED"}]

VARIABLES
    balance,      \* current_balance
    txs, lastTx,  \* finance_transactions, rows 1..lastTx
    lines,        \* finance_transaction_lines: the batches that wrote those of each
    lastBatch,
    book,         \* history: Initial plus the effect of the rows committed so far
    quiet,        \* history: accounts none of whose requests have overlapped
    calm,         \* history: transactions none of whose categorizations have
    lreq

ledgerDb == <<balance, txs, lastTx, lines, lastBatch>>
ledgerVars == <<ledgerDb, book, quiet, calm, lreq>>

NoTx == [tenant |-> CHOOSE t \in Tenants : TRUE, acc |-> CHOOSE a \in Accounts : TRUE,
         dir |-> "TRANSFER", amount |-> 0, status |-> "CANCELLED"]
LIdle == [pc |-> "idle", op |-> "none", tx |-> NoTx, id |-> 0, seen |-> 0,
          writes |-> FALSE, covered |-> {}]
LPcs == {"idle", "load", "account", "commit", "delete"}
LedgerRequest ==
    [pc : LPcs, op : {"none", "create", "cancel", "categorize"},
     tx : Transaction \cup {NoTx},        \* the transaction inserted or loaded
     id : 0..MaxTx, seen : Balances,      \* current_balance as loaded
     writes : BOOLEAN,                    \* whether the balance is to be written
     covered : SUBSET Batches]            \* lines that the DELETE covers

(* FinanceTransaction.signed_amount as the balance sees it. *)
Signed(t) == CASE t.dir = "IN" -> t.amount [] t.dir = "OUT" -> -t.amount
               [] t.dir = "TRANSFER" -> 0

LBecome(r, q) == lreq' = [lreq EXCEPT ![r] = q]
LFail(r) == LBecome(r, LIdle) /\ UNCHANGED <<ledgerDb, book, quiet, calm>>

LedgerInit ==
    /\ balance = Initial /\ book = Initial
    /\ txs = [i \in TxIds |-> NoTx] /\ lastTx = 0
    /\ lines = [i \in TxIds |-> {}] /\ lastBatch = 0
    /\ quiet = [a \in Accounts |-> TRUE] /\ calm = [i \in TxIds |-> TRUE]
    /\ lreq = [r \in Workers |-> LIdle]

-----------------------------------------------------------------------------
LBegin(r, q) ==
    /\ ~Busy(lreq, r)
    /\ LBecome(r, q)
    /\ quiet' = [a \in Accounts |->
          quiet[a] /\ ~(a = q.tx.acc /\ q.op # "categorize"
                        /\ \E o \in InProgress(lreq, r) : o.tx.acc = a /\ o.op # "categorize")]
    /\ calm' = [i \in TxIds |->
          calm[i] /\ ~(i = q.id /\ q.op = "categorize"
                       /\ \E o \in InProgress(lreq, r) : o.id = i /\ o.op = "categorize")]
    /\ UNCHANGED <<ledgerDb, book>>

(* The transaction and its lines, if any, are inserted first. *)
CreateTransaction(r, t, a, dir, n) ==
    LBegin(r, [LIdle EXCEPT !.pc = "account", !.op = "create",
                            !.tx = [tenant |-> t, acc |-> a, dir |-> dir, amount |-> n,
                                    status |-> "CONFIRMED"]])

(* get_transaction, filtered by tenant. *)
CancelTransaction(r, t, i) ==
    /\ txs[i].tenant = t
    /\ LBegin(r, [LIdle EXCEPT !.pc = "load", !.op = "cancel", !.id = i, !.tx = txs[i]])

CategorizeTransaction(r, t, i) ==
    /\ txs[i].tenant = t
    /\ LBegin(r, [LIdle EXCEPT !.pc = "delete", !.op = "categorize", !.id = i, !.tx = txs[i]])

LArrive(r) ==
    \/ \E t \in Tenants, a \in Accounts, dir \in Directions, n \in Amounts :
          CreateTransaction(r, t, a, dir, n)
    \/ \E t \in Tenants, i \in 1..lastTx :
          CancelTransaction(r, t, i) \/ CategorizeTransaction(r, t, i)

(* Mutant of LoadTransaction: a cancelled one is cancelled again. *)
LoadTransactionAnyStatus(r) ==
    /\ lreq[r].pc = "load"
    /\ LBecome(r, [lreq[r] EXCEPT !.pc = "account"])
    /\ UNCHANGED <<ledgerDb, book, quiet, calm>>

(* A transaction already cancelled is returned as it is. *)
LoadTransaction(r) ==
    /\ lreq[r].pc = "load"
    /\ LBecome(r, IF txs[lreq[r].id].status = "CANCELLED" THEN LIdle
                  ELSE [lreq[r] EXCEPT !.pc = "account"])
    /\ UNCHANGED <<ledgerDb, book, quiet, calm>>

(* An account of another tenant is not found, and nothing is written. *)
LoadAccount(r) ==
    LET t == lreq[r].tx IN
    /\ lreq[r].pc = "account"
    /\ LBecome(r, [lreq[r] EXCEPT !.pc = "commit", !.seen = balance[t.acc],
                                  !.writes = t.dir # "TRANSFER" /\ Owner[t.acc] = t.tenant])
    /\ UNCHANGED <<ledgerDb, book, quiet, calm>>

NewBalance(q) == IF q.op = "create" THEN q.seen + Signed(q.tx) ELSE q.seen - Signed(q.tx)

(* What a transaction of tenant t is worth to its account. *)
Effect(t) == IF t.status = "CONFIRMED" /\ Owner[t.acc] = t.tenant THEN Signed(t) ELSE 0

WriteBalance(r) ==
    LET q == lreq[r] IN
    /\ q.writes => NewBalance(q) \in Balances
    /\ balance' = IF q.writes THEN [balance EXCEPT ![q.tx.acc] = NewBalance(q)] ELSE balance

CommitCreate(r) ==
    LET q == lreq[r] IN
    /\ q.pc = "commit" /\ q.op = "create" /\ lastTx < MaxTx
    /\ WriteBalance(r)
    /\ lastTx' = lastTx + 1 /\ txs' = [txs EXCEPT ![lastTx + 1] = q.tx]
    /\ book' = [book EXCEPT ![q.tx.acc] = @ + Effect(q.tx)]
    /\ LBecome(r, LIdle)
    /\ UNCHANGED <<lines, lastBatch, quiet, calm>>

(* Mutant of CommitCancel: the balance is reverted, the status stays. *)
CommitCancelKeepsStatus(r) ==
    LET q == lreq[r] IN
    /\ q.pc = "commit" /\ q.op = "cancel"
    /\ WriteBalance(r)
    /\ book' = [book EXCEPT ![q.tx.acc] = @ - Effect(txs[q.id])]
    /\ LBecome(r, LIdle)
    /\ UNCHANGED <<txs, lastTx, lines, lastBatch, quiet, calm>>

CommitCancel(r) ==
    LET q == lreq[r] IN
    /\ q.pc = "commit" /\ q.op = "cancel"
    /\ WriteBalance(r)
    /\ txs' = [txs EXCEPT ![q.id].status = "CANCELLED"]
    /\ book' = [book EXCEPT ![q.tx.acc] = @ - Effect(txs[q.id])]
    /\ LBecome(r, LIdle)
    /\ UNCHANGED <<lastTx, lines, lastBatch, quiet, calm>>

(* categorize_transaction: the DELETE covers the lines committed by then.  *)
DeleteLines(r) ==
    /\ lreq[r].pc = "delete"
    /\ LBecome(r, [lreq[r] EXCEPT !.pc = "commit", !.covered = lines[lreq[r].id]])
    /\ UNCHANGED <<ledgerDb, book, quiet, calm>>

CommitLines(r) ==
    LET q == lreq[r] IN
    /\ q.pc = "commit" /\ q.op = "categorize" /\ lastBatch < MaxBatches
    /\ lastBatch' = lastBatch + 1
    /\ lines' = [lines EXCEPT ![q.id] = (@ \ q.covered) \cup {lastBatch + 1}]
    /\ LBecome(r, LIdle)
    /\ UNCHANGED <<balance, txs, lastTx, book, quiet, calm>>

(* The client or the process goes away, the column overflows, or a bound   *)
(* of the model is reached: get_db rolls back.                             *)
LAbort(r) == Busy(lreq, r) /\ LFail(r)

LStep(r) ==
    \/ LoadTransaction(r) \/ LoadAccount(r) \/ DeleteLines(r)
    \/ CommitCreate(r) \/ CommitCancel(r) \/ CommitLines(r)

LedgerNext == \E r \in Workers : LArrive(r) \/ LStep(r) \/ LAbort(r)

LedgerSpec == LedgerInit /\ [][LedgerNext]_ledgerVars

-----------------------------------------------------------------------------
(* Every variable has its type, and a balance stays in its column.         *)
LedgerTypeOK ==
    /\ balance \in [Accounts -> Balances] /\ book \in [Accounts -> Int]
    /\ txs \in [TxIds -> Transaction \cup {NoTx}] /\ lastTx \in 0..MaxTx
    /\ \A i \in 1..lastTx : txs[i] \in Transaction
    /\ lines \in [TxIds -> SUBSET Batches] /\ lastBatch \in 0..MaxBatches
    /\ quiet \in [Accounts -> BOOLEAN] /\ calm \in [TxIds -> BOOLEAN]
    /\ lreq \in [Workers -> LedgerRequest]

(* Creations and cancellations on other accounts, whatever their tenant,   *)
(* leave an account whose own requests come one at a time in agreement     *)
(* with what was committed on it: a balance is moved by its tenant alone,  *)
(* once by each transaction and back once by its cancellation.             *)
BalanceKept == \A a \in Accounts : quiet[a] => balance[a] = book[a]

(* And what was committed on it is what its transactions say: cancelled    *)
(* ones and those of other tenants count for nothing.                      *)
BookOfTransactions ==
    \A a \in Accounts :
        quiet[a] => book[a] = Initial[a] + SumFunctionOnSet([i \in TxIds |-> Effect(txs[i])],
                                                            {i \in 1..lastTx : txs[i].acc = a})

(* The lines of a transaction are those of its last categorization, as     *)
(* long as its categorizations come one at a time.                         *)
LastCategorization == \A i \in TxIds : calm[i] => Cardinality(lines[i]) <= 1

(* The accounts, the transactions and their lines agree. *)
LedgerConsistent == LedgerTypeOK /\ BookOfTransactions /\ LastCategorization
=============================================================================
