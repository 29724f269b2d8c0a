---------------------------- MODULE Finance_proofs ----------------------------
(***************************************************************************)
(* Proofs about the finance components: the ledger of accounts and         *)
(* transactions, supplier invoices and their payments, the reference data  *)
(* with codes of their own, the script that loads METRO's invoices, the    *)
(* purchases imported by the API and the links to suppliers' products.     *)
(* They share no state.                                                    *)
(***************************************************************************)
EXTENDS FinanceLedger, FinanceInvoices, FinanceRegister, MetroJsonImport, SupplierImports, ProductLinks,
        Sums, FiniteSetTheorems, TLAPS

(***************************************************************************)
(* The ledger.  A request on an account that is quiet is alone on it, so   *)
(* the balance it loaded is the one it changes, and a transaction it       *)
(* cancels is confirmed until it commits.  That a balance is the book      *)
(* needs this; that the book is the sum of the transactions does not.      *)
(***************************************************************************)
OnAccount(q, a) == q.pc # "idle" /\ q.op # "categorize" /\ q.tx.acc = a
OnTransaction(q, i) == q.pc # "idle" /\ q.op = "categorize" /\ q.id = i

OfTransaction(q) ==
    /\ q.op # "none" /\ q.tx \in Transaction
    /\ q.op = "create" => q.pc \in {"account", "commit"} /\ q.tx.status = "CONFIRMED"
    /\ q.op = "cancel" => q.pc \in {"load", "account", "commit"}
    /\ q.op = "categorize" => q.pc \in {"delete", "commit"}
    /\ q.op # "create" => /\ q.id \in 1..lastTx
                          /\ txs[q.id].tenant = q.tx.tenant /\ txs[q.id].acc = q.tx.acc
                          /\ txs[q.id].dir = q.tx.dir /\ txs[q.id].amount = q.tx.amount
    /\ q.op # "categorize" /\ q.pc = "commit" =>
          (q.writes <=> q.tx.dir # "TRANSFER" /\ Owner[q.tx.acc] = q.tx.tenant)

(* What it has loaded, as long as it is alone. *)
LedgerReads(q) ==
    /\ q.op # "categorize" /\ quiet[q.tx.acc] =>
          /\ q.op = "cancel" /\ q.pc # "load" => txs[q.id].status = "CONFIRMED"
          /\ q.pc = "commit" => q.seen = balance[q.tx.acc]
    /\ q.op = "categorize" /\ calm[q.id] /\ q.pc = "commit" => q.covered = lines[q.id]

LedgerRecord(q) == q.pc # "idle" => OfTransaction(q) /\ LedgerReads(q)

Alone ==
    /\ \A a \in Accounts, p, q \in Workers :
          quiet[a] /\ OnAccount(lreq[p], a) /\ OnAccount(lreq[q], a) => p = q
    /\ \A i \in TxIds, p, q \in Workers :
          calm[i] /\ OnTransaction(lreq[p], i) /\ OnTransaction(lreq[q], i) => p = q

TxsOf(a) == {i \in 1..lastTx : txs[i].acc = a}
BookIsSum == \A a \in Accounts :
    book[a] = Initial[a] + SumFunctionOnSet([i \in TxIds |-> Effect(txs[i])], TxsOf(a))

LedgerInv ==
    /\ \A r \in Workers : LedgerRecord(lreq[r])
    /\ Alone /\ BookIsSum /\ BalanceKept /\ LastCategorization

LEMMA LIdleType == LIdle \in LedgerRequest /\ LIdle.pc = "idle"
BY LedgerAssumption DEF LIdle, LedgerRequest, LPcs, Balances

LEMMA BalancesInt == Balances \subseteq Int /\ 0 \in Balances
BY LedgerAssumption DEF Balances

LEMMA SignedInt == ASSUME NEW t \in Transaction PROVE Signed(t) \in Int /\ Effect(t) \in Int
<1>1. t.amount \in Int /\ t.dir \in Directions
  <2>1. t.amount \in Amounts /\ t.dir \in Directions
    BY DEF Transaction
  <2>2. Amounts \subseteq Int
    BY LedgerAssumption
  <2> QED BY <2>1, <2>2
<1>2. Signed(t) \in Int
  BY <1>1 DEF Signed, Directions
<1> QED BY <1>2 DEF Effect

LEMMA LedgerMoved ==
    ASSUME LedgerTypeOK, NEW r \in Workers, NEW x \in LedgerRequest, LBecome(r, x)
    PROVE  /\ lreq' \in [Workers -> LedgerRequest] /\ lreq'[r] = x
           /\ \A q \in Workers : q # r => lreq'[q] = lreq[q]
BY DEF LBecome, LedgerTypeOK

(* A step within a transaction, that only reads. *)
LEMMA LedgerReadStep ==
    ASSUME LedgerTypeOK, LedgerInv, NEW r \in Workers, NEW x \in LedgerRequest, LBecome(r, x),
           UNCHANGED <<ledgerDb, book, quiet, calm>>, LedgerRecord(x),
           x.pc # "idle" => /\ lreq[r].pc # "idle" /\ x.op = lreq[r].op
                            /\ x.tx = lreq[r].tx /\ x.id = lreq[r].id
    PROVE  LedgerTypeOK' /\ LedgerInv'
<1>1. /\ lreq' \in [Workers -> LedgerRequest] /\ lreq'[r] = x
      /\ \A q \in Workers : q # r => lreq'[q] = lreq[q]
  BY LedgerMoved
<1>2. UNCHANGED <<balance, txs, lastTx, lines, lastBatch, book, quiet, calm>>
  BY DEF ledgerDb
<1>3. LedgerTypeOK'
  BY <1>1, <1>2 DEF LedgerTypeOK
<1>4. ASSUME NEW q \in Workers PROVE LedgerRecord(lreq[q])'
  <2>1. LedgerRecord(lreq'[q])
    BY <1>1 DEF LedgerInv
  <2> QED BY <1>2, <2>1 DEF LedgerRecord, OfTransaction, LedgerReads
<1>5. /\ \A q \in Workers, a \in Accounts : OnAccount(lreq'[q], a) => OnAccount(lreq[q], a)
      /\ \A q \in Workers, i \in TxIds : OnTransaction(lreq'[q], i) => OnTransaction(lreq[q], i)
  BY <1>1 DEF OnAccount, OnTransaction
<1>6. Alone'
  BY <1>2, <1>5 DEF LedgerInv, Alone, OnAccount, OnTransaction
<1>7. BookIsSum' /\ BalanceKept' /\ LastCategorization'
  BY <1>2 DEF LedgerInv, BookIsSum, BalanceKept, LastCategorization, TxsOf
<1> QED BY <1>3, <1>4, <1>6, <1>7 DEF LedgerInv

LEMMA LFailStep ==
    ASSUME LedgerTypeOK, LedgerInv, NEW r \in Workers, LFail(r)
    PROVE  LedgerTypeOK' /\ LedgerInv'
BY LIdleType, LedgerReadStep DEF LFail, LedgerRecord

LEMMA LoadTransactionStep ==
    ASSUME LedgerTypeOK, LedgerInv, NEW r \in Workers, LoadTransaction(r)
    PROVE  LedgerTypeOK' /\ LedgerInv'
<1> DEFINE x == [lreq[r] EXCEPT !.pc = "account"]
<1>1. /\ lreq[r] \in LedgerRequest /\ lreq[r].pc = "load" /\ LedgerRecord(lreq[r])
      /\ UNCHANGED <<ledgerDb, book, quiet, calm>>
  BY DEF LoadTransaction, LedgerTypeOK, LedgerInv
<1>2. CASE LBecome(r, LIdle)
  BY <1>1, <1>2, LFailStep DEF LFail
<1>3. CASE txs[lreq[r].id].status # "CANCELLED" /\ LBecome(r, x)
  <2>1. x \in LedgerRequest /\ x.pc = "account" /\ x.op = lreq[r].op /\ x.tx = lreq[r].tx /\ x.id = lreq[r].id
    BY <1>1 DEF LedgerRequest, LPcs
  <2>2. lreq[r].op = "cancel" /\ OfTransaction(lreq[r])
    BY <1>1 DEF LedgerRecord, OfTransaction, LedgerRequest
  <2>3. txs[lreq[r].id].status = "CONFIRMED"
    <3>1. txs[lreq[r].id] \in Transaction
      BY <2>2 DEF OfTransaction, LedgerTypeOK
    <3> QED BY <1>3, <3>1 DEF Transaction
  <2> HIDE DEF x
  <2>4. LedgerRecord(x)
    BY <2>1, <2>2, <2>3 DEF LedgerRecord, OfTransaction, LedgerReads
  <2> QED BY <1>1, <1>3, <2>1, <2>4, LedgerReadStep
<1> QED BY <1>2, <1>3 DEF LoadTransaction

LEMMA LoadAccountStep ==
    ASSUME LedgerTypeOK, LedgerInv, NEW r \in Workers, LoadAccount(r)
    PROVE  LedgerTypeOK' /\ LedgerInv'
<1> DEFINE t == lreq[r].tx
           w == t.dir # "TRANSFER" /\ Owner[t.acc] = t.tenant
           x == [lreq[r] EXCEPT !.pc = "commit", !.seen = balance[t.acc], !.writes = w]
<1>1. /\ lreq[r] \in LedgerRequest /\ lreq[r].pc = "account" /\ LedgerRecord(lreq[r])
      /\ UNCHANGED <<ledgerDb, book, quiet, calm>> /\ LBecome(r, x)
  BY DEF LoadAccount, LedgerTypeOK, LedgerInv
<1>2. OfTransaction(lreq[r]) /\ LedgerReads(lreq[r]) /\ lreq[r].op # "categorize"
  BY <1>1 DEF LedgerRecord, OfTransaction
<1>3. t.acc \in Accounts /\ balance[t.acc] \in Balances
  BY <1>2 DEF OfTransaction, Transaction, LedgerTypeOK
<1>4. x \in LedgerRequest /\ x.pc = "commit" /\ x.op = lreq[r].op /\ x.tx = t /\ x.id = lreq[r].id
      /\ x.seen = balance[t.acc] /\ (x.writes <=> w)
  <2> HIDE DEF w
  <2>1. w \in BOOLEAN
    BY DEF w
  <2> QED BY <1>1, <1>3, <2>1 DEF LedgerRequest, LPcs
<1> HIDE DEF x
<1>5. LedgerRecord(x)
  BY <1>1, <1>2, <1>4 DEF LedgerRecord, OfTransaction, LedgerReads
<1> QED BY <1>1, <1>4, <1>5, LedgerReadStep

LEMMA DeleteLinesStep ==
    ASSUME LedgerTypeOK, LedgerInv, NEW r \in Workers, DeleteLines(r)
    PROVE  LedgerTypeOK' /\ LedgerInv'
<1> DEFINE x == [lreq[r] EXCEPT !.pc = "commit", !.covered = lines[lreq[r].id]]
<1>1. /\ lreq[r] \in LedgerRequest /\ lreq[r].pc = "delete" /\ LedgerRecord(lreq[r])
      /\ UNCHANGED <<ledgerDb, book, quiet, calm>> /\ LBecome(r, x)
  BY DEF DeleteLines, LedgerTypeOK, LedgerInv
<1>2. OfTransaction(lreq[r]) /\ lreq[r].op = "categorize" /\ lreq[r].id \in TxIds
  <2>1. OfTransaction(lreq[r])
    BY <1>1 DEF LedgerRecord
  <2>2. lreq[r].op = "categorize"
    BY <1>1, <2>1 DEF OfTransaction, LedgerRequest
  <2>3. lreq[r].id \in 1..lastTx /\ lastTx \in 0..MaxTx
    BY <2>1, <2>2 DEF OfTransaction, LedgerTypeOK
  <2> QED BY <2>1, <2>2, <2>3, LedgerAssumption DEF TxIds
<1>3. lines[lreq[r].id] \in SUBSET Batches
  BY <1>2 DEF LedgerTypeOK
<1>4. x \in LedgerRequest /\ x.pc = "commit" /\ x.op = lreq[r].op /\ x.tx = lreq[r].tx
      /\ x.id = lreq[r].id /\ x.covered = lines[x.id]
  BY <1>1, <1>3 DEF LedgerRequest, LPcs
<1> HIDE DEF x
<1>5. LedgerRecord(x)
  BY <1>2, <1>4 DEF LedgerRecord, OfTransaction, LedgerReads
<1> QED BY <1>1, <1>4, <1>5, LedgerReadStep

(* A request arrives; from then on an account or a transaction on which    *)
(* another one is under way is not quiet.                                  *)
LEMMA LBeginStep ==
    ASSUME LedgerTypeOK, LedgerInv, NEW r \in Workers, NEW x \in LedgerRequest, LBegin(r, x),
           OfTransaction(x), x.pc \in {"account", "load", "delete"},
           x.op = "cancel" => x.pc = "load"
    PROVE  LedgerTypeOK' /\ LedgerInv'
<1>1. /\ lreq' \in [Workers -> LedgerRequest] /\ lreq'[r] = x
      /\ \A q \in Workers : q # r => lreq'[q] = lreq[q]
  BY LedgerMoved DEF LBegin
<1>2. UNCHANGED <<balance, txs, lastTx, lines, lastBatch, book>>
  BY DEF LBegin, ledgerDb
<1>3. quiet' \in [Accounts -> BOOLEAN] /\ calm' \in [TxIds -> BOOLEAN]
  BY DEF LBegin, LedgerTypeOK
<1>4. /\ \A a \in Accounts : quiet'[a] => quiet[a]
      /\ \A i \in TxIds : calm'[i] => calm[i]
  BY DEF LBegin
<1>5. LedgerTypeOK'
  BY <1>1, <1>2, <1>3 DEF LedgerTypeOK
<1>6. ASSUME NEW q \in Workers PROVE LedgerRecord(lreq[q])'
  <2>1. CASE q = r
    BY <1>1, <1>2, <2>1 DEF LedgerRecord, OfTransaction, LedgerReads
  <2>2. CASE q # r
    <3> SUFFICES ASSUME lreq[q].pc # "idle" PROVE (OfTransaction(lreq[q]) /\ LedgerReads(lreq[q]))'
      BY <1>1, <2>2 DEF LedgerRecord
    <3>1. OfTransaction(lreq[q]) /\ LedgerReads(lreq[q]) /\ lreq'[q] = lreq[q]
      BY <1>1, <2>2 DEF LedgerInv, LedgerRecord
    <3>2. lreq[q].tx.acc \in Accounts /\ (lreq[q].op = "categorize" => lreq[q].id \in TxIds)
      <4>1. lastTx \in 0..MaxTx /\ MaxTx \in Nat
        BY LedgerAssumption DEF LedgerTypeOK
      <4> QED BY <3>1, <4>1 DEF OfTransaction, Transaction, TxIds
    <3> QED BY <1>2, <1>4, <3>1, <3>2 DEF OfTransaction, LedgerReads
  <2> QED BY <2>1, <2>2
<1>7. ASSUME NEW a \in Accounts, quiet'[a], OnAccount(x, a), NEW q \in Workers, q # r
      PROVE  ~OnAccount(lreq[q], a)
  <2> SUFFICES ASSUME OnAccount(lreq[q], a) PROVE FALSE
    OBVIOUS
  <2>1. lreq[q] \in InProgress(lreq, r)
    BY <1>7 DEF InProgress, Busy, OnAccount
  <2> QED BY <1>7, <2>1 DEF LBegin, OnAccount
<1>8. ASSUME NEW i \in TxIds, calm'[i], OnTransaction(x, i), NEW q \in Workers, q # r
      PROVE  ~OnTransaction(lreq[q], i)
  <2> SUFFICES ASSUME OnTransaction(lreq[q], i) PROVE FALSE
    OBVIOUS
  <2>1. lreq[q] \in InProgress(lreq, r)
    BY <1>8 DEF InProgress, Busy, OnTransaction
  <2> QED BY <1>8, <2>1 DEF LBegin, OnTransaction
<1>9. ASSUME NEW a \in Accounts, NEW p \in Workers, NEW q \in Workers, quiet'[a],
             OnAccount(lreq'[p], a), OnAccount(lreq'[q], a)
      PROVE  p = q
  BY <1>1, <1>4, <1>7, <1>9 DEF LedgerInv, Alone
<1>10. ASSUME NEW i \in TxIds, NEW p \in Workers, NEW q \in Workers, calm'[i],
              OnTransaction(lreq'[p], i), OnTransaction(lreq'[q], i)
       PROVE  p = q
  BY <1>1, <1>4, <1>8, <1>10 DEF LedgerInv, Alone
<1>11. Alone'
  BY <1>9, <1>10 DEF Alone, OnAccount, OnTransaction
<1>12. BookIsSum' /\ BalanceKept' /\ LastCategorization'
  BY <1>2, <1>4 DEF LedgerInv, BookIsSum, BalanceKept, LastCategorization, TxsOf
<1> QED BY <1>5, <1>6, <1>11, <1>12 DEF LedgerInv

LEMMA LArriveStep ==
    ASSUME LedgerTypeOK, LedgerInv, NEW r \in Workers, LArrive(r)
    PROVE  LedgerTypeOK' /\ LedgerInv'
<1>1. ASSUME NEW t \in Tenants, NEW a \in Accounts, NEW dir \in Directions, NEW n \in Amounts,
             CreateTransaction(r, t, a, dir, n)
      PROVE  LedgerTypeOK' /\ LedgerInv'
  <2> DEFINE tx == [tenant |-> t, acc |-> a, dir |-> dir, amount |-> n, status |-> "CONFIRMED"]
             x == [LIdle EXCEPT !.pc = "account", !.op = "create", !.tx = tx]
  <2>1. tx \in Transaction /\ tx.status = "CONFIRMED"
    BY DEF Transaction
  <2>2. LBegin(r, x)
    BY <1>1 DEF CreateTransaction
  <2> HIDE DEF tx
  <2>3. x \in LedgerRequest /\ x.pc = "account" /\ x.op = "create" /\ x.tx = tx
    BY <2>1, LIdleType DEF LedgerRequest, LPcs
  <2> HIDE DEF x
  <2>4. OfTransaction(x)
    BY <2>1, <2>3 DEF OfTransaction
  <2> QED BY <2>2, <2>3, <2>4, LBeginStep
<1>2. ASSUME NEW i \in 1..lastTx, NEW op \in {"cancel", "categorize"}, NEW pc,
             pc = IF op = "cancel" THEN "load" ELSE "delete",
             LBegin(r, [LIdle EXCEPT !.pc = pc, !.op = op, !.id = i, !.tx = txs[i]])
      PROVE  LedgerTypeOK' /\ LedgerInv'
  <2> DEFINE x == [LIdle EXCEPT !.pc = pc, !.op = op, !.id = i, !.tx = txs[i]]
  <2>1. txs[i] \in Transaction /\ i \in 0..MaxTx
    <3>1. lastTx \in 0..MaxTx /\ MaxTx \in Nat
      BY LedgerAssumption DEF LedgerTypeOK
    <3> QED BY <3>1 DEF LedgerTypeOK
  <2>2. x \in LedgerRequest /\ x.pc = pc /\ x.op = op /\ x.tx = txs[i] /\ x.id = i
    BY <1>2, <2>1, LIdleType DEF LedgerRequest, LPcs
  <2>3. LBegin(r, x)
    BY <1>2
  <2> HIDE DEF x
  <2>4. OfTransaction(x)
    BY <1>2, <2>1, <2>2 DEF OfTransaction
  <2> QED BY <1>2, <2>2, <2>3, <2>4, LBeginStep
<1>3. ASSUME NEW t \in Tenants, NEW i \in 1..lastTx, CancelTransaction(r, t, i) \/ CategorizeTransaction(r, t, i)
      PROVE  LedgerTypeOK' /\ LedgerInv'
  BY <1>2, <1>3 DEF CancelTransaction, CategorizeTransaction
<1> QED BY <1>1, <1>3 DEF LArrive

-----------------------------------------------------------------------------
(* What the requests that did not commit are left with. *)
LEMMA OthersKept ==
    ASSUME LedgerTypeOK, LedgerInv, NEW r \in Workers, LBecome(r, LIdle), UNCHANGED <<quiet, calm>>,
           lastTx <= lastTx', lastTx' \in Nat,
           \A i \in 1..lastTx : /\ txs'[i].tenant = txs[i].tenant /\ txs'[i].acc = txs[i].acc
                                /\ txs'[i].dir = txs[i].dir /\ txs'[i].amount = txs[i].amount,
           \A q \in Workers \ {r} : OfTransaction(lreq[q]) /\ lreq[q].pc # "idle" => LedgerReads(lreq[q])'
    PROVE  /\ lreq' \in [Workers -> LedgerRequest] /\ Alone'
           /\ \A q \in Workers : LedgerRecord(lreq[q])'
<1>1. /\ lreq' \in [Workers -> LedgerRequest] /\ lreq'[r] = LIdle
      /\ \A q \in Workers : q # r => lreq'[q] = lreq[q]
  BY LIdleType, LedgerMoved
<1>2. /\ \A q \in Workers, a \in Accounts : OnAccount(lreq'[q], a) => OnAccount(lreq[q], a)
      /\ \A q \in Workers, i \in TxIds : OnTransaction(lreq'[q], i) => OnTransaction(lreq[q], i)
  BY <1>1, LIdleType DEF OnAccount, OnTransaction
<1>3. Alone'
  BY <1>2 DEF LedgerInv, Alone, OnAccount, OnTransaction
<1>4. ASSUME NEW q \in Workers PROVE LedgerRecord(lreq[q])'
  <2>1. CASE q = r
    BY <1>1, <2>1, LIdleType DEF LedgerRecord
  <2>2. CASE q # r
    <3> SUFFICES ASSUME lreq[q].pc # "idle" PROVE (OfTransaction(lreq[q]) /\ LedgerReads(lreq[q]))'
      BY <1>1, <2>2 DEF LedgerRecord
    <3>1. OfTransaction(lreq[q]) /\ lreq'[q] = lreq[q]
      BY <1>1, <2>2 DEF LedgerInv, LedgerRecord
    <3>2. 1..lastTx \subseteq 1..lastTx'
      BY DEF LedgerTypeOK
    <3>3. OfTransaction(lreq[q])'
      BY <3>1, <3>2 DEF OfTransaction
    <3> QED BY <2>2, <3>1, <3>3
  <2> QED BY <2>1, <2>2
<1> QED BY <1>1, <1>3, <1>4

LEMMA TxsFinite == ASSUME LedgerTypeOK, NEW a PROVE IsFiniteSet(TxsOf(a))
<1>1. IsFiniteSet(1..lastTx)
  BY FS_Interval DEF LedgerTypeOK
<1>2. TxsOf(a) \subseteq 1..lastTx
  BY DEF TxsOf
<1> QED BY <1>1, <1>2, FS_Subset

(* The balance written is the one loaded, moved by the transaction. *)
LEMMA WriteBalanceStep ==
    ASSUME LedgerTypeOK, LedgerInv, NEW r \in Workers, WriteBalance(r), lreq[r].pc = "commit",
           lreq[r].op \in {"create", "cancel"}
    PROVE  /\ balance' \in [Accounts -> Balances]
           /\ \A a \in Accounts : a # lreq[r].tx.acc => balance'[a] = balance[a]
           /\ lreq[r].op = "cancel" /\ quiet[lreq[r].tx.acc] => txs[lreq[r].id].status = "CONFIRMED"
           /\ quiet[lreq[r].tx.acc] =>
                 balance'[lreq[r].tx.acc] =
                     IF lreq[r].op = "create" THEN balance[lreq[r].tx.acc] + Effect(lreq[r].tx)
                     ELSE balance[lreq[r].tx.acc] - Effect(txs[lreq[r].id])
<1> DEFINE q == lreq[r]
<1>1. OfTransaction(q) /\ LedgerReads(q) /\ q \in LedgerRequest
  BY DEF LedgerInv, LedgerRecord, LedgerTypeOK
<1>2. q.tx \in Transaction /\ q.tx.acc \in Accounts
  BY <1>1 DEF OfTransaction, Transaction
<1>3. balance' \in [Accounts -> Balances]
  BY <1>2 DEF WriteBalance, LedgerTypeOK
<1>4. \A a \in Accounts : a # q.tx.acc => balance'[a] = balance[a]
  BY <1>2 DEF WriteBalance, LedgerTypeOK
<1>5. Signed(q.tx) \in Int /\ balance[q.tx.acc] \in Int
  BY <1>2, SignedInt, BalancesInt DEF LedgerTypeOK
<1>6. ASSUME quiet[q.tx.acc]
      PROVE  /\ q.seen = balance[q.tx.acc]
             /\ q.op = "cancel" => txs[q.id].status = "CONFIRMED"
  BY <1>1, <1>6 DEF LedgerReads
<1>7. q.writes <=> q.tx.dir # "TRANSFER" /\ Owner[q.tx.acc] = q.tx.tenant
  BY <1>1 DEF OfTransaction
<1>8. ASSUME quiet[q.tx.acc]
      PROVE  balance'[q.tx.acc] = IF q.op = "create" THEN balance[q.tx.acc] + Effect(q.tx)
                                  ELSE balance[q.tx.acc] - Effect(txs[q.id])
  <2>1. q.tx.dir = "TRANSFER" => Signed(q.tx) = 0
    BY DEF Signed
  <2>2. q.op = "create" => Effect(q.tx) = IF q.writes THEN Signed(q.tx) ELSE 0
    BY <1>1, <1>7, <2>1 DEF OfTransaction, Effect
  <2>3. q.op = "cancel" => Effect(txs[q.id]) = IF q.writes THEN Signed(q.tx) ELSE 0
    <3> SUFFICES ASSUME q.op = "cancel"
                 PROVE  Effect(txs[q.id]) = IF q.writes THEN Signed(q.tx) ELSE 0
      OBVIOUS
    <3>1. Signed(txs[q.id]) = Signed(q.tx)
      BY <1>1 DEF OfTransaction, Signed
    <3>2. Effect(txs[q.id]) = IF Owner[q.tx.acc] = q.tx.tenant THEN Signed(q.tx) ELSE 0
      BY <1>1, <1>6, <1>8, <3>1 DEF OfTransaction, Effect
    <3> QED BY <1>7, <2>1, <3>2
  <2>4. q.writes => balance'[q.tx.acc] = IF q.op = "create" THEN balance[q.tx.acc] + Signed(q.tx)
                                         ELSE balance[q.tx.acc] - Signed(q.tx)
    BY <1>2, <1>6, <1>8 DEF WriteBalance, NewBalance, LedgerTypeOK
  <2>5. ~q.writes => balance'[q.tx.acc] = balance[q.tx.acc]
    BY DEF WriteBalance
  <2>6. CASE q.writes
    BY <2>2, <2>3, <2>4, <2>6
  <2>7. CASE ~q.writes
    BY <1>5, <2>2, <2>3, <2>5, <2>7
  <2> QED BY <2>6, <2>7
<1> QED BY <1>3, <1>4, <1>6, <1>8

LEMMA CommitCreateStep ==
    ASSUME LedgerTypeOK, LedgerInv, NEW r \in Workers, CommitCreate(r)
    PROVE  LedgerTypeOK' /\ LedgerInv'
<1> DEFINE q == lreq[r]
           n == lastTx + 1
<1>1. /\ q.pc = "commit" /\ q.op = "create" /\ lastTx < MaxTx /\ WriteBalance(r) /\ LBecome(r, LIdle)
      /\ lastTx' = n /\ txs' = [txs EXCEPT ![n] = q.tx]
      /\ book' = [book EXCEPT ![q.tx.acc] = book[q.tx.acc] + Effect(q.tx)]
      /\ UNCHANGED <<lines, lastBatch, quiet, calm>>
  BY DEF CommitCreate
<1>2. OfTransaction(q) /\ q.tx \in Transaction /\ q.tx.acc \in Accounts /\ Effect(q.tx) \in Int
  BY <1>1, SignedInt DEF LedgerInv, LedgerRecord, OfTransaction, Transaction
<1>3. /\ lastTx \in Nat /\ n \in Nat /\ n \in 0..MaxTx /\ n \in TxIds /\ n \notin 1..lastTx
      /\ 1..n = 1..lastTx \cup {n} /\ 1..lastTx \subseteq TxIds
  <2>1. lastTx \in Nat /\ lastTx < MaxTx /\ MaxTx \in Nat
    BY <1>1, LedgerAssumption DEF LedgerTypeOK
  <2>2. 1..(lastTx + 1) = 1..lastTx \cup {lastTx + 1}
    BY <2>1
  <2> QED BY <2>1, <2>2 DEF TxIds
<1>4. /\ txs' \in [TxIds -> Transaction \cup {NoTx}] /\ txs'[n] = q.tx
      /\ \A i \in TxIds : i # n => txs'[i] = txs[i]
  BY <1>1, <1>2, <1>3 DEF LedgerTypeOK
<1>5. \A i \in 1..lastTx : txs'[i] = txs[i] /\ txs[i] \in Transaction
  BY <1>3, <1>4 DEF LedgerTypeOK
<1>6. \A i \in 1..lastTx' : txs'[i] \in Transaction
  BY <1>1, <1>2, <1>3, <1>4, <1>5
<1>7. book' \in [Accounts -> Int] /\ book'[q.tx.acc] = book[q.tx.acc] + Effect(q.tx)
      /\ \A a \in Accounts : a # q.tx.acc => book'[a] = book[a]
  BY <1>1, <1>2 DEF LedgerTypeOK
<1>8. /\ balance' \in [Accounts -> Balances]
      /\ \A a \in Accounts : a # q.tx.acc => balance'[a] = balance[a]
      /\ quiet[q.tx.acc] => balance'[q.tx.acc] = balance[q.tx.acc] + Effect(q.tx)
  BY <1>1, WriteBalanceStep
<1>9. ASSUME NEW p \in Workers \ {r}, OfTransaction(lreq[p]), lreq[p].pc # "idle"
      PROVE  LedgerReads(lreq[p])'
  <2>1. LedgerReads(lreq[p]) /\ lreq'[p] = lreq[p] /\ lreq[p].tx.acc \in Accounts
    BY <1>1, <1>9 DEF LedgerInv, LedgerRecord, LBecome, LedgerTypeOK, OfTransaction, Transaction
  <2>2. ASSUME lreq[p].op # "categorize", quiet[lreq[p].tx.acc]
        PROVE  balance'[lreq[p].tx.acc] = balance[lreq[p].tx.acc]
    <3>1. lreq[p].tx.acc # q.tx.acc
      BY <1>1, <1>2, <1>9, <2>2 DEF LedgerInv, Alone, OnAccount
    <3> QED BY <1>8, <2>1, <3>1
  <2>3. lreq[p].op # "create" => txs'[lreq[p].id] = txs[lreq[p].id]
    BY <1>5, <1>9 DEF OfTransaction
  <2> QED BY <1>1, <2>1, <2>2, <2>3 DEF LedgerReads
<1>10. /\ lreq' \in [Workers -> LedgerRequest] /\ Alone'
       /\ \A p \in Workers : LedgerRecord(lreq[p])'
  <2>1. lastTx <= lastTx' /\ lastTx' \in Nat
    BY <1>1, <1>3
  <2> QED BY <1>1, <1>5, <1>9, <2>1, OthersKept
<1>11. LedgerTypeOK'
  BY <1>1, <1>3, <1>4, <1>6, <1>7, <1>8, <1>10 DEF LedgerTypeOK
<1>12. ASSUME NEW a \in Accounts
       PROVE  book'[a] = Initial[a] + SumFunctionOnSet([i \in TxIds |-> Effect(txs'[i])], TxsOf(a)')
  <2> DEFINE f == [i \in TxIds |-> Effect(txs[i])]
             g == [i \in TxIds |-> Effect(txs'[i])]
             S == TxsOf(a)
  <2>1. \A i \in 1..lastTx : g[i] = f[i] /\ f[i] \in Int
    BY <1>3, <1>5, SignedInt
  <2>2. g[n] = Effect(q.tx)
    BY <1>3, <1>4
  <2>3. /\ S \subseteq 1..lastTx /\ n \notin S /\ IsFiniteSet(S)
        /\ TxsOf(a)' = IF a = q.tx.acc THEN S \cup {n} ELSE S
    <3>1. TxsOf(a)' = {i \in 1..lastTx \cup {n} : txs'[i].acc = a}
      BY <1>1, <1>3 DEF TxsOf
    <3> QED BY <1>3, <1>4, <1>5, <3>1, TxsFinite DEF TxsOf
  <2>4. book[a] = Initial[a] + SumFunctionOnSet(f, S)
    BY DEF LedgerInv, BookIsSum
  <2>5. Initial[a] \in Int /\ book[a] \in Int
    BY LedgerAssumption DEF LedgerTypeOK
  <2> HIDE DEF f, g, S, n
  <2>6. SumFunctionOnSet(g, S) = SumFunctionOnSet(f, S) /\ SumFunctionOnSet(f, S) \in Int
    BY <2>1, <2>3, SumSame, SumInt
  <2>7. CASE a = q.tx.acc
    <3>1. SumFunctionOnSet(g, S \cup {n}) = g[n] + SumFunctionOnSet(g, S)
      <4>1. \A i \in S \cup {n} : g[i] \in Int
        BY <1>2, <2>1, <2>2, <2>3
      <4> QED BY <2>3, <4>1, SumAdd
    <3> QED BY <1>2, <1>7, <2>2, <2>3, <2>4, <2>5, <2>6, <2>7, <3>1 DEF g
  <2>8. CASE a # q.tx.acc
    BY <1>7, <2>3, <2>4, <2>6, <2>8 DEF g
  <2> QED BY <2>7, <2>8
<1>13. BookIsSum'
  BY <1>12 DEF BookIsSum
<1>14. BalanceKept' /\ LastCategorization'
  BY <1>1, <1>2, <1>7, <1>8 DEF LedgerInv, BalanceKept, LastCategorization
<1> QED BY <1>10, <1>11, <1>13, <1>14 DEF LedgerInv

LEMMA CommitCancelStep ==
    ASSUME LedgerTypeOK, LedgerInv, NEW r \in Workers, CommitCancel(r)
    PROVE  LedgerTypeOK' /\ LedgerInv'
<1> DEFINE q == lreq[r]
<1>1. /\ q.pc = "commit" /\ q.op = "cancel" /\ WriteBalance(r) /\ LBecome(r, LIdle)
      /\ txs' = [txs EXCEPT ![q.id].status = "CANCELLED"]
      /\ book' = [book EXCEPT ![q.tx.acc] = book[q.tx.acc] - Effect(txs[q.id])]
      /\ UNCHANGED <<lastTx, lines, lastBatch, quiet, calm>>
  BY DEF CommitCancel
<1>2. /\ OfTransaction(q) /\ q.tx \in Transaction /\ q.tx.acc \in Accounts
      /\ q.id \in 1..lastTx /\ txs[q.id] \in Transaction /\ txs[q.id].acc = q.tx.acc
      /\ Effect(txs[q.id]) \in Int
  <2>1. OfTransaction(q)
    BY <1>1 DEF LedgerInv, LedgerRecord
  <2>2. q.id \in 1..lastTx /\ txs[q.id] \in Transaction
    BY <1>1, <2>1 DEF OfTransaction, LedgerTypeOK
  <2> QED BY <1>1, <2>1, <2>2, SignedInt DEF OfTransaction, Transaction
<1>3. lastTx \in Nat /\ 1..lastTx \subseteq TxIds
  BY LedgerAssumption DEF LedgerTypeOK, TxIds
<1>4. PICK t : t = [txs[q.id] EXCEPT !.status = "CANCELLED"]
  OBVIOUS
<1>5. /\ t \in Transaction /\ t.status = "CANCELLED" /\ t.acc = txs[q.id].acc
      /\ t.tenant = txs[q.id].tenant /\ t.dir = txs[q.id].dir /\ t.amount = txs[q.id].amount
  BY <1>2, <1>4 DEF Transaction
<1>6. /\ txs' \in [TxIds -> Transaction \cup {NoTx}] /\ txs'[q.id] = t
      /\ \A i \in TxIds : i # q.id => txs'[i] = txs[i]
  <2>1. txs' = [txs EXCEPT ![q.id] = t]
    BY <1>1, <1>4
  <2>2. q.id \in TxIds
    BY <1>2, <1>3
  <2> QED BY <1>5, <2>1, <2>2 DEF LedgerTypeOK
<1>7. \A i \in 1..lastTx : /\ txs'[i] \in Transaction /\ txs[i] \in Transaction
                           /\ txs'[i].tenant = txs[i].tenant /\ txs'[i].acc = txs[i].acc
                           /\ txs'[i].dir = txs[i].dir /\ txs'[i].amount = txs[i].amount
  BY <1>3, <1>5, <1>6 DEF LedgerTypeOK
<1>8. book' \in [Accounts -> Int] /\ book'[q.tx.acc] = book[q.tx.acc] - Effect(txs[q.id])
      /\ \A a \in Accounts : a # q.tx.acc => book'[a] = book[a]
  BY <1>1, <1>2 DEF LedgerTypeOK
<1>9. /\ balance' \in [Accounts -> Balances]
      /\ \A a \in Accounts : a # q.tx.acc => balance'[a] = balance[a]
      /\ quiet[q.tx.acc] => balance'[q.tx.acc] = balance[q.tx.acc] - Effect(txs[q.id])
  BY <1>1, WriteBalanceStep
<1>10. ASSUME NEW p \in Workers \ {r}, OfTransaction(lreq[p]), lreq[p].pc # "idle"
       PROVE  LedgerReads(lreq[p])'
  <2>1. LedgerReads(lreq[p]) /\ lreq'[p] = lreq[p] /\ lreq[p].tx.acc \in Accounts
    BY <1>1, <1>10 DEF LedgerInv, LedgerRecord, LBecome, LedgerTypeOK, OfTransaction, Transaction
  <2>2. ASSUME lreq[p].op # "categorize", quiet[lreq[p].tx.acc]
        PROVE  /\ balance'[lreq[p].tx.acc] = balance[lreq[p].tx.acc]
               /\ lreq[p].op = "cancel" => txs'[lreq[p].id] = txs[lreq[p].id]
    <3>1. lreq[p].tx.acc # q.tx.acc
      BY <1>1, <1>2, <1>10, <2>2 DEF LedgerInv, Alone, OnAccount
    <3>2. lreq[p].op = "cancel" => lreq[p].id \in TxIds /\ lreq[p].id # q.id
      BY <1>2, <1>3, <1>10, <3>1 DEF OfTransaction
    <3> QED BY <1>6, <1>9, <2>1, <3>1, <3>2
  <2> QED BY <1>1, <2>1, <2>2 DEF LedgerReads
<1>11. /\ lreq' \in [Workers -> LedgerRequest] /\ Alone'
       /\ \A p \in Workers : LedgerRecord(lreq[p])'
  <2>1. lastTx <= lastTx' /\ lastTx' \in Nat
    BY <1>1, <1>3
  <2> QED BY <1>1, <1>7, <1>10, <2>1, OthersKept
<1>12. LedgerTypeOK'
  BY <1>1, <1>6, <1>7, <1>8, <1>9, <1>11 DEF LedgerTypeOK
<1>13. ASSUME NEW a \in Accounts
       PROVE  book'[a] = Initial[a] + SumFunctionOnSet([i \in TxIds |-> Effect(txs'[i])], TxsOf(a)')
  <2> DEFINE f == [i \in TxIds |-> Effect(txs[i])]
             g == [i \in TxIds |-> Effect(txs'[i])]
             S == TxsOf(a)
  <2>1. \A i \in 1..lastTx : g[i] \in Int /\ f[i] \in Int
    BY <1>3, <1>7, SignedInt
  <2>2. g[q.id] = 0 /\ f[q.id] = Effect(txs[q.id]) /\ \A i \in 1..lastTx : i # q.id => g[i] = f[i]
    <3>1. Effect(t) = 0
      BY <1>5 DEF Effect
    <3> QED BY <1>2, <1>3, <1>6, <3>1
  <2>3. S \subseteq 1..lastTx /\ IsFiniteSet(S) /\ TxsOf(a)' = S /\ (q.id \in S <=> a = q.tx.acc)
    <3>1. TxsOf(a)' = {i \in 1..lastTx : txs'[i].acc = a}
      BY <1>1 DEF TxsOf
    <3> QED BY <1>2, <1>7, <3>1, TxsFinite DEF TxsOf
  <2>4. book[a] = Initial[a] + SumFunctionOnSet(f, S)
    BY DEF LedgerInv, BookIsSum
  <2>5. Initial[a] \in Int /\ book[a] \in Int
    BY LedgerAssumption DEF LedgerTypeOK
  <2> HIDE DEF f, g, S
  <2>6. SumFunctionOnSet(f, S) \in Int
    BY <2>1, <2>3, SumInt
  <2>7. CASE a = q.tx.acc
    <3>1. SumFunctionOnSet(g, S) = SumFunctionOnSet(f, S) - f[q.id] + g[q.id]
      <4>1. q.id \in S /\ \A i \in S : f[i] \in Int /\ g[i] \in Int
        BY <2>1, <2>3, <2>7
      <4>2. \A i \in S \ {q.id} : g[i] = f[i]
        BY <2>2, <2>3
      <4> QED BY <2>3, <4>1, <4>2, SumChange
    <3> QED BY <1>2, <1>8, <2>2, <2>3, <2>4, <2>5, <2>6, <2>7, <3>1 DEF g
  <2>8. CASE a # q.tx.acc
    <3>1. \A i \in S : f[i] = g[i]
      BY <2>2, <2>3, <2>8
    <3>2. SumFunctionOnSet(g, S) = SumFunctionOnSet(f, S)
      BY <2>3, <3>1, SumSame
    <3> QED BY <1>8, <2>3, <2>4, <2>8, <3>2 DEF g
  <2> QED BY <2>7, <2>8
<1>14. BookIsSum'
  BY <1>13 DEF BookIsSum
<1>15. BalanceKept' /\ LastCategorization'
  BY <1>1, <1>2, <1>8, <1>9 DEF LedgerInv, BalanceKept, LastCategorization
<1> QED BY <1>11, <1>12, <1>14, <1>15 DEF LedgerInv

(* A batch of lines replaces those that its DELETE covered. *)
LEMMA CommitLinesStep ==
    ASSUME LedgerTypeOK, LedgerInv, NEW r \in Workers, CommitLines(r)
    PROVE  LedgerTypeOK' /\ LedgerInv'
<1> DEFINE q == lreq[r]
           b == lastBatch + 1
<1>1. /\ q.pc = "commit" /\ q.op = "categorize" /\ lastBatch < MaxBatches /\ LBecome(r, LIdle)
      /\ lastBatch' = b /\ lines' = [lines EXCEPT ![q.id] = (lines[q.id] \ q.covered) \cup {b}]
      /\ UNCHANGED <<balance, txs, lastTx, book, quiet, calm>>
  BY DEF CommitLines
<1>2. b \in 0..MaxBatches /\ b \in Batches
  BY <1>1, LedgerAssumption DEF LedgerTypeOK, Batches
<1>3. OfTransaction(q) /\ LedgerReads(q) /\ q.id \in TxIds
  <2>1. OfTransaction(q) /\ LedgerReads(q)
    BY <1>1 DEF LedgerInv, LedgerRecord
  <2>2. q.id \in 1..lastTx /\ lastTx \in 0..MaxTx
    BY <1>1, <2>1 DEF OfTransaction, LedgerTypeOK
  <2> QED BY <2>1, <2>2, LedgerAssumption DEF TxIds
<1>4. lines' \in [TxIds -> SUBSET Batches]
  BY <1>1, <1>2, <1>3 DEF LedgerTypeOK
<1>5. ASSUME NEW p \in Workers \ {r}, OfTransaction(lreq[p]), lreq[p].pc # "idle"
      PROVE  LedgerReads(lreq[p])'
  <2>1. LedgerReads(lreq[p]) /\ lreq'[p] = lreq[p]
    BY <1>1, <1>5 DEF LedgerInv, LedgerRecord, LBecome, LedgerTypeOK
  <2>2. ASSUME lreq[p].op = "categorize", calm[lreq[p].id] PROVE lines'[lreq[p].id] = lines[lreq[p].id]
    <3>1. lreq[p].id \in TxIds
      <4>1. lreq[p].id \in 1..lastTx /\ lastTx \in 0..MaxTx
        BY <1>5, <2>2 DEF OfTransaction, LedgerTypeOK
      <4> QED BY <4>1, LedgerAssumption DEF TxIds
    <3>2. lreq[p].id # q.id
      BY <1>1, <1>3, <1>5, <2>2, <3>1 DEF LedgerInv, Alone, OnTransaction
    <3> QED BY <1>1, <3>1, <3>2 DEF LedgerTypeOK
  <2> QED BY <1>1, <2>1, <2>2 DEF LedgerReads
<1>6. /\ lreq' \in [Workers -> LedgerRequest] /\ Alone'
      /\ \A p \in Workers : LedgerRecord(lreq[p])'
  <2>1. lastTx <= lastTx' /\ lastTx' \in Nat
    BY <1>1 DEF LedgerTypeOK
  <2> QED BY <1>1, <1>5, <2>1, OthersKept
<1>7. LedgerTypeOK'
  BY <1>1, <1>2, <1>4, <1>6 DEF LedgerTypeOK
<1>8. ASSUME NEW i \in TxIds, calm[i] PROVE Cardinality(lines'[i]) <= 1
  <2>1. CASE i = q.id
    <3>1. lines'[i] = {b}
      BY <1>1, <1>3, <1>8, <2>1 DEF LedgerReads, LedgerTypeOK
    <3>2. Cardinality({b}) = 1
      BY FS_Singleton
    <3> QED BY <3>1, <3>2
  <2>2. CASE i # q.id
    BY <1>1, <1>8, <2>2 DEF LedgerInv, LastCategorization, LedgerTypeOK
  <2> QED BY <2>1, <2>2
<1>9. BookIsSum' /\ BalanceKept' /\ LastCategorization'
  BY <1>1, <1>8 DEF LedgerInv, BookIsSum, BalanceKept, LastCategorization, TxsOf
<1> QED BY <1>6, <1>7, <1>9 DEF LedgerInv

LEMMA LedgerStep == LedgerTypeOK /\ LedgerInv /\ [LedgerNext]_ledgerVars => LedgerTypeOK' /\ LedgerInv'
<1> SUFFICES ASSUME LedgerTypeOK, LedgerInv, [LedgerNext]_ledgerVars
             PROVE  LedgerTypeOK' /\ LedgerInv'
  OBVIOUS
<1>1. CASE UNCHANGED ledgerVars
  <2>1. UNCHANGED <<balance, txs, lastTx, lines, lastBatch, book, quiet, calm, lreq>>
    BY <1>1 DEF ledgerVars, ledgerDb
  <2>2. \A r \in Workers : LedgerRecord(lreq[r])'
    BY <2>1 DEF LedgerInv, LedgerRecord, OfTransaction, LedgerReads
  <2>3. Alone' /\ BookIsSum' /\ BalanceKept' /\ LastCategorization'
    BY <2>1 DEF LedgerInv, Alone, OnAccount, OnTransaction, BookIsSum, TxsOf, BalanceKept, LastCategorization
  <2> QED BY <2>1, <2>2, <2>3 DEF LedgerTypeOK, LedgerInv
<1>2. ASSUME NEW r \in Workers, LArrive(r) PROVE LedgerTypeOK' /\ LedgerInv'
  BY <1>2, LArriveStep
<1>3. ASSUME NEW r \in Workers, LStep(r) \/ LAbort(r) PROVE LedgerTypeOK' /\ LedgerInv'
  BY <1>3, LoadTransactionStep, LoadAccountStep, DeleteLinesStep, CommitCreateStep,
     CommitCancelStep, CommitLinesStep, LFailStep DEF LStep, LAbort
<1> QED BY <1>1, <1>2, <1>3 DEF LedgerNext

LEMMA InitLedger == LedgerInit => LedgerTypeOK /\ LedgerInv
<1> SUFFICES ASSUME LedgerInit PROVE LedgerTypeOK /\ LedgerInv
  OBVIOUS
<1>1. lastTx = 0 /\ 1..lastTx = {} /\ \A r \in Workers : lreq[r] = LIdle
  BY DEF LedgerInit
<1>2. LedgerTypeOK
  BY <1>1, LIdleType, BalancesInt, LedgerAssumption DEF LedgerInit, LedgerTypeOK, Balances
<1>3. ASSUME NEW a \in Accounts
      PROVE  book[a] = Initial[a] + SumFunctionOnSet([i \in TxIds |-> Effect(txs[i])], TxsOf(a))
  <2>1. TxsOf(a) = {} /\ Initial[a] \in Int
    BY <1>1, LedgerAssumption DEF TxsOf
  <2> QED BY <2>1, SumEmpty DEF LedgerInit
<1>4. LastCategorization
  BY FS_EmptySet DEF LedgerInit, LastCategorization
<1>5. Alone /\ \A r \in Workers : LedgerRecord(lreq[r])
  BY <1>1, LIdleType DEF Alone, OnAccount, OnTransaction, LedgerRecord
<1> QED BY <1>2, <1>3, <1>4, <1>5 DEF LedgerInit, LedgerInv, BookIsSum, BalanceKept

LEMMA LedgerInvariant == LedgerSpec => [](LedgerTypeOK /\ LedgerInv)
BY InitLedger, LedgerStep, PTL DEF LedgerSpec

(* A balance is moved once by each transaction of the account's tenant and *)
(* back once by its cancellation, however requests on other accounts       *)
(* interleave with those of this one (app/services/finance/account.py and  *)
(* transaction.py).                                                        *)
THEOREM BalancesFollowCommits == LedgerSpec => []BalanceKept
<1>1. LedgerTypeOK /\ LedgerInv => BalanceKept
  BY DEF LedgerInv
<1> QED BY <1>1, LedgerInvariant, PTL

(* What was committed on an account is the sum of its transactions that    *)
(* are neither cancelled nor another tenant's, and the lines of a          *)
(* transaction are those of one categorization.                            *)
THEOREM LedgerStaysConsistent == LedgerSpec => []LedgerConsistent
<1>1. LedgerTypeOK /\ LedgerInv => LedgerConsistent
  <2>1. BookIsSum => BookOfTransactions
    <3> SUFFICES ASSUME BookIsSum, NEW a \in Accounts, quiet[a]
                 PROVE  book[a] = Initial[a] + SumFunctionOnSet([i \in TxIds |-> Effect(txs[i])],
                                                                {i \in 1..lastTx : txs[i].acc = a})
      BY DEF BookOfTransactions
    <3>1. TxsOf(a) = {i \in 1..lastTx : txs[i].acc = a}
      BY DEF TxsOf
    <3>2. book[a] = Initial[a] + SumFunctionOnSet([i \in TxIds |-> Effect(txs[i])], TxsOf(a))
      BY DEF BookIsSum
    <3> QED BY <3>1, <3>2
  <2> QED BY <2>1 DEF LedgerInv, LedgerConsistent
<1> QED BY <1>1, LedgerInvariant, PTL

(***************************************************************************)
(* Supplier invoices.  A request on an invoice that is apart is alone on   *)
(* it, so the status and the payments it loaded are those it changes.  A   *)
(* status that runs ahead of the payments needs no such history: payments  *)
(* only add up until one of 0 or less is on record.                        *)
(***************************************************************************)
OnInvoice(q, i) == q.pc # "idle" /\ q.op \in {"pay", "cancel"} /\ q.inv = i

Settling(q) == q.op \in {"pay", "cancel"} /\ q.pc \in {"payments", "sum", "commit"}
InvoiceShape(q) ==
    /\ q.pc = "check" => q.op = "create"
    /\ q.pc = "payments" => q.op \in {"pay", "cancel"}
    /\ q.pc = "sum" => q.op = "pay"
    /\ q.op = "cancel" => q.amount = 0
    /\ Settling(q) => q.inv \in invoiceRows
    /\ q.op = "pay" /\ Settling(q) => q.seen \notin {"ANNULEE", "PAYEE"}
    /\ q.op = "cancel" /\ q.pc = "commit" => q.status = "ANNULEE"
    /\ q.pc \in {"payments", "sum"} => q.status = q.seen
    /\ q.op = "pay" /\ q.pc = "commit" => q.status # "ANNULEE"

InvoiceReads(q) ==
    /\ apart[q.inv] /\ Settling(q) =>
          /\ q.seen = invoice[q.inv].status
          /\ q.op = "pay" /\ q.pc # "payments" => q.amount <= Ttc - invoice[q.inv].paid
          /\ q.op = "pay" /\ q.pc = "commit" => q.status = StatusOf(invoice[q.inv].paid + q.amount)
          /\ q.op = "cancel" /\ q.pc = "commit" => invoice[q.inv].paid <= 0
    /\ ~refunded /\ q.op = "pay" /\ q.pc = "commit" /\ q.status = "PAYEE" =>
          invoice[q.inv].paid + q.amount >= Ttc

InvoiceAlone == \A i \in Invoices, p, q \in Workers :
    apart[i] /\ OnInvoice(ireq[p], i) /\ OnInvoice(ireq[q], i) => p = q

InvoiceInv ==
    /\ \A r \in Workers : InvoiceShape(ireq[r]) /\ InvoiceReads(ireq[r])
    /\ InvoiceAlone /\ InvoiceHasVendor /\ StatusOfPayments /\ PaidIsPaid

LEMMA IIdleType == IIdle \in InvoiceRequest /\ IIdle.pc = "idle" /\ IIdle.op = "none"
<1>1. \E i : i \in Invoices
  <2>1. PICK v \in Vendors, n \in Numbers : TRUE
    BY InvoicesAssumption
  <2>2. <<v, n>> \in Invoices
    BY DEF Invoices
  <2> QED BY <2>2
<1>2. (CHOOSE i \in Invoices : TRUE) \in Invoices
  BY <1>1
<1> QED BY <1>2 DEF IIdle, InvoiceRequest, Statuses

LEMMA IIdleReads == InvoiceShape(IIdle) /\ InvoiceReads(IIdle)
BY IIdleType DEF InvoiceShape, InvoiceReads, Settling, IIdle

LEMMA InvoiceTypes ==
    ASSUME InvoicesTypeOK, NEW i \in Invoices
    PROVE  invoice[i] \in [status : Statuses, paid : Totals] /\ invoice[i].paid \in Int
           /\ invoice[i].status \in Statuses
BY InvoicesAssumption DEF InvoicesTypeOK, Totals

LEMMA AmountInt == ASSUME InvoicesTypeOK, NEW r \in Workers
                   PROVE  ireq[r] \in InvoiceRequest /\ ireq[r].amount \in Int /\ ireq[r].inv \in Invoices
<1>1. ireq[r] \in InvoiceRequest
  BY DEF InvoicesTypeOK
<1>2. ireq[r].amount \in Payments \cup {0} /\ ireq[r].inv \in Invoices
  BY <1>1 DEF InvoiceRequest
<1>3. Payments \cup {0} \subseteq Int
  BY InvoicesAssumption
<1> QED BY <1>1, <1>2, <1>3

LEMMA StatusOfType ==
    ASSUME NEW n \in Int
    PROVE  /\ StatusOf(n) \in {"EN_ATTENTE", "PARTIELLE", "PAYEE"}
           /\ StatusOf(n) = "PAYEE" <=> n >= Ttc
<1>1. CASE n >= Ttc
  BY <1>1, InvoicesAssumption DEF StatusOf
<1>2. CASE n > 0 /\ n < Ttc
  BY <1>2, InvoicesAssumption DEF StatusOf
<1>3. CASE n <= 0
  BY <1>3, InvoicesAssumption DEF StatusOf
<1> QED BY <1>1, <1>2, <1>3, InvoicesAssumption

(* Only the record of one request changes. *)
LEMMA InvoiceReadStep ==
    ASSUME InvoicesTypeOK, InvoiceInv, NEW r \in Workers, NEW x \in InvoiceRequest, IBecome(r, x), IKeep,
           InvoiceShape(x), InvoiceReads(x),
           x.pc # "idle" => ireq[r].pc # "idle" /\ x.op = ireq[r].op /\ x.inv = ireq[r].inv
    PROVE  InvoicesTypeOK' /\ InvoiceInv'
<1>1. /\ ireq' \in [Workers -> InvoiceRequest] /\ ireq'[r] = x
      /\ \A q \in Workers : q # r => ireq'[q] = ireq[q]
  BY DEF IBecome, InvoicesTypeOK
<1>2. UNCHANGED <<vendorRows, invoiceRows, invoice, apart, refunded>>
  BY DEF IKeep, invoiceDb
<1>3. InvoicesTypeOK'
  BY <1>1, <1>2 DEF InvoicesTypeOK
<1>4. ASSUME NEW q \in Workers PROVE (InvoiceShape(ireq[q]) /\ InvoiceReads(ireq[q]))'
  <2>1. InvoiceShape(ireq'[q]) /\ InvoiceReads(ireq'[q])
    BY <1>1 DEF InvoiceInv
  <2> QED BY <1>2, <2>1 DEF InvoiceShape, InvoiceReads, Settling
<1>5. \A q \in Workers, i \in Invoices : OnInvoice(ireq'[q], i) => OnInvoice(ireq[q], i)
  BY <1>1 DEF OnInvoice
<1>6. InvoiceAlone'
  BY <1>2, <1>5 DEF InvoiceInv, InvoiceAlone, OnInvoice
<1>7. InvoiceHasVendor' /\ StatusOfPayments' /\ PaidIsPaid'
  BY <1>2 DEF InvoiceInv, InvoiceHasVendor, StatusOfPayments, PaidIsPaid
<1> QED BY <1>3, <1>4, <1>6, <1>7 DEF InvoiceInv

LEMMA IFailStep ==
    ASSUME InvoicesTypeOK, InvoiceInv, NEW r \in Workers, IBecome(r, IIdle), IKeep
    PROVE  InvoicesTypeOK' /\ InvoiceInv'
BY IIdleType, IIdleReads, InvoiceReadStep

LEMMA CheckDuplicateStep ==
    ASSUME InvoicesTypeOK, InvoiceInv, NEW r \in Workers, CheckDuplicate(r) \/ LoadVendor(r)
    PROVE  InvoicesTypeOK' /\ InvoiceInv'
<1> DEFINE x == [ireq[r] EXCEPT !.pc = "commit"]
<1>1. ireq[r] \in InvoiceRequest /\ ireq[r].pc \in {"check", "load"} /\ IKeep
  BY AmountInt DEF CheckDuplicate, LoadVendor
<1>2. CASE IBecome(r, IIdle)
  BY <1>1, <1>2, IFailStep
<1>3. CASE IBecome(r, x) /\ ireq[r].op \notin {"pay", "cancel"}
  <2>1. x \in InvoiceRequest /\ x.pc = "commit" /\ x.op = ireq[r].op /\ x.inv = ireq[r].inv
    BY <1>1 DEF InvoiceRequest
  <2>2. InvoiceShape(x) /\ InvoiceReads(x)
    BY <1>3, <2>1 DEF InvoiceShape, InvoiceReads, Settling
  <2> QED BY <1>1, <1>3, <2>1, <2>2, InvoiceReadStep
<1>4. ireq[r].op \in {"pay", "cancel"} => ireq[r].pc # "check"
  BY DEF InvoiceInv, InvoiceShape
<1> QED BY <1>2, <1>3, <1>4 DEF CheckDuplicate, LoadVendor

LEMMA LoadInvoiceStep ==
    ASSUME InvoicesTypeOK, InvoiceInv, NEW r \in Workers, LoadInvoice(r)
    PROVE  InvoicesTypeOK' /\ InvoiceInv'
<1> DEFINE q == ireq[r]
           status == invoice[q.inv].status
           x == [q EXCEPT !.pc = "payments", !.seen = status, !.status = status]
<1>1. q \in InvoiceRequest /\ q.pc = "load" /\ q.op \in {"pay", "cancel"} /\ IKeep /\ status \in Statuses
      /\ InvoiceShape(q)
  BY AmountInt, InvoiceTypes DEF LoadInvoice, InvoiceInv
<1>2. CASE IBecome(r, IIdle)
  BY <1>1, <1>2, IFailStep
<1>3. CASE /\ IBecome(r, x) /\ q.inv \in invoiceRows
           /\ q.op = "pay" => status \notin {"ANNULEE", "PAYEE"}
  <2>1. /\ x \in InvoiceRequest /\ x.pc = "payments" /\ x.op = q.op /\ x.inv = q.inv
        /\ x.seen = status /\ x.status = status /\ x.amount = q.amount
    BY <1>1 DEF InvoiceRequest
  <2> HIDE DEF x
  <2>2. InvoiceShape(x) /\ InvoiceReads(x)
    BY <1>1, <1>3, <2>1 DEF InvoiceShape, InvoiceReads, Settling
  <2> QED BY <1>1, <1>3, <2>1, <2>2, InvoiceReadStep
<1> QED BY <1>2, <1>3 DEF LoadInvoice

LEMMA LoadPaymentsStep ==
    ASSUME InvoicesTypeOK, InvoiceInv, NEW r \in Workers, LoadPayments(r)
    PROVE  InvoicesTypeOK' /\ InvoiceInv'
<1> DEFINE q == ireq[r]
           paid == invoice[q.inv].paid
           pays == [q EXCEPT !.pc = "sum"]
           cancels == [q EXCEPT !.pc = "commit", !.status = "ANNULEE"]
<1>1. /\ q \in InvoiceRequest /\ q.pc = "payments" /\ q.op \in {"pay", "cancel"} /\ IKeep
      /\ InvoiceShape(q) /\ InvoiceReads(q) /\ paid \in Int /\ q.amount \in Int
  BY AmountInt, InvoiceTypes DEF LoadPayments, InvoiceInv, InvoiceShape
<1>2. CASE IBecome(r, IIdle)
  BY <1>1, <1>2, IFailStep
<1>3. CASE q.op = "pay" /\ ~(q.amount > Ttc - paid) /\ IBecome(r, pays)
  <2>1. /\ pays \in InvoiceRequest /\ pays.pc = "sum" /\ pays.op = q.op /\ pays.inv = q.inv
        /\ pays.seen = q.seen /\ pays.status = q.status /\ pays.amount = q.amount
    BY <1>1 DEF InvoiceRequest
  <2> HIDE DEF pays
  <2>2. q.amount <= Ttc - paid
    BY <1>1, <1>3, InvoicesAssumption
  <2>3. InvoiceShape(pays) /\ InvoiceReads(pays)
    BY <1>1, <1>3, <2>1, <2>2 DEF InvoiceShape, InvoiceReads, Settling
  <2> QED BY <1>1, <1>3, <2>1, <2>3, InvoiceReadStep
<1>4. CASE q.op = "cancel" /\ ~(paid > 0) /\ IBecome(r, cancels)
  <2>1. /\ cancels \in InvoiceRequest /\ cancels.pc = "commit" /\ cancels.op = q.op /\ cancels.inv = q.inv
        /\ cancels.seen = q.seen /\ cancels.status = "ANNULEE" /\ cancels.amount = q.amount
    BY <1>1 DEF InvoiceRequest, Statuses
  <2> HIDE DEF cancels
  <2>2. paid <= 0
    BY <1>1, <1>4
  <2>3. InvoiceShape(cancels) /\ InvoiceReads(cancels)
    BY <1>1, <1>4, <2>1, <2>2 DEF InvoiceShape, InvoiceReads, Settling
  <2> QED BY <1>1, <1>4, <2>1, <2>3, InvoiceReadStep
<1> QED BY <1>1, <1>2, <1>3, <1>4 DEF LoadPayments

LEMMA SumPaymentsStep ==
    ASSUME InvoicesTypeOK, InvoiceInv, NEW r \in Workers, SumPayments(r)
    PROVE  InvoicesTypeOK' /\ InvoiceInv'
<1> DEFINE q == ireq[r]
           total == invoice[q.inv].paid + q.amount
           x == [q EXCEPT !.pc = "commit", !.status = StatusOf(total)]
<1>1. /\ q \in InvoiceRequest /\ q.pc = "sum" /\ IKeep /\ IBecome(r, x)
      /\ InvoiceShape(q) /\ InvoiceReads(q) /\ q.op = "pay" /\ total \in Int
  BY AmountInt, InvoiceTypes DEF SumPayments, InvoiceInv, InvoiceShape
<1>2. StatusOf(total) \in Statuses \ {"ANNULEE"} /\ (StatusOf(total) = "PAYEE" => total >= Ttc)
  BY <1>1, StatusOfType DEF Statuses
<1>3. /\ x \in InvoiceRequest /\ x.pc = "commit" /\ x.op = q.op /\ x.inv = q.inv
      /\ x.seen = q.seen /\ x.status = StatusOf(total) /\ x.amount = q.amount
  <2> HIDE DEF total
  <2> QED BY <1>1, <1>2 DEF InvoiceRequest
<1> HIDE DEF x
<1>4. InvoiceShape(x) /\ InvoiceReads(x)
  BY <1>1, <1>2, <1>3 DEF InvoiceShape, InvoiceReads, Settling
<1> QED BY <1>1, <1>3, <1>4, InvoiceReadStep

LEMMA IArriveStep ==
    ASSUME InvoicesTypeOK, InvoiceInv, NEW r \in Workers, IArrive(r)
    PROVE  InvoicesTypeOK' /\ InvoiceInv'
<1>1. PICK i \in Invoices, op \in {"create", "vendor", "cancel", "pay"}, pc \in {"check", "load"},
           n \in Payments \cup {0} :
        /\ IBegin(r, op, pc, i, n)
        /\ pc = "check" => op = "create"
        /\ op = "cancel" => n = 0
  BY DEF IArrive
<1> DEFINE x == [IIdle EXCEPT !.op = op, !.pc = pc, !.inv = i, !.amount = n]
<1>2. x \in InvoiceRequest /\ x.pc = pc /\ x.op = op /\ x.inv = i /\ x.amount = n
  BY IIdleType DEF InvoiceRequest
<1>3. /\ ireq' \in [Workers -> InvoiceRequest] /\ ireq'[r] = x
      /\ \A q \in Workers : q # r => ireq'[q] = ireq[q]
  BY <1>1, <1>2 DEF IBegin, IBecome, InvoicesTypeOK
<1>4. UNCHANGED <<vendorRows, invoiceRows, invoice, refunded>>
  BY <1>1 DEF IBegin, invoiceDb
<1>5. apart' = [apart EXCEPT ![i] =
          apart[i] /\ ~(op \in {"pay", "cancel"}
                        /\ \E o \in InProgress(ireq, r) : o.inv = i /\ o.op \in {"pay", "cancel"})]
  BY <1>1 DEF IBegin
<1>6. apart' \in [Invoices -> BOOLEAN] /\ \A j \in Invoices : apart'[j] => apart[j]
  BY <1>5 DEF InvoicesTypeOK
<1>7. InvoicesTypeOK'
  BY <1>3, <1>4, <1>6 DEF InvoicesTypeOK
<1> HIDE DEF x
<1>8. ASSUME NEW q \in Workers PROVE (InvoiceShape(ireq[q]) /\ InvoiceReads(ireq[q]))'
  <2>1. CASE q = r
    BY <1>1, <1>2, <1>3, <1>4, <2>1 DEF InvoiceShape, InvoiceReads, Settling
  <2>2. CASE q # r
    <3>1. InvoiceShape(ireq[q]) /\ InvoiceReads(ireq[q]) /\ ireq'[q] = ireq[q] /\ ireq[q].inv \in Invoices
      BY <1>3, <2>2, AmountInt DEF InvoiceInv
    <3> QED BY <1>4, <1>6, <3>1 DEF InvoiceShape, InvoiceReads, Settling
  <2> QED BY <2>1, <2>2
<1>9. ASSUME apart'[i], OnInvoice(x, i), NEW q \in Workers, q # r PROVE ~OnInvoice(ireq[q], i)
  <2> SUFFICES ASSUME OnInvoice(ireq[q], i) PROVE FALSE
    OBVIOUS
  <2>1. ireq[q] \in InProgress(ireq, r)
    BY <1>9 DEF InProgress, Busy, OnInvoice
  <2> QED BY <1>2, <1>5, <1>9, <2>1 DEF OnInvoice, InvoicesTypeOK
<1>10. ASSUME NEW j \in Invoices, NEW p \in Workers, NEW q \in Workers, apart'[j],
              OnInvoice(ireq'[p], j), OnInvoice(ireq'[q], j)
       PROVE  p = q
  <2>1. OnInvoice(x, j) => j = i
    BY <1>2 DEF OnInvoice
  <2> QED BY <1>3, <1>6, <1>9, <1>10, <2>1 DEF InvoiceInv, InvoiceAlone
<1>11. InvoiceAlone'
  BY <1>10 DEF InvoiceAlone, OnInvoice
<1>12. InvoiceHasVendor' /\ StatusOfPayments' /\ PaidIsPaid'
  BY <1>4, <1>6 DEF InvoiceInv, InvoiceHasVendor, StatusOfPayments, PaidIsPaid, InvoicesTypeOK
<1> QED BY <1>7, <1>8, <1>11, <1>12 DEF InvoiceInv

(* An invoice not on record is nobody's to settle, so its new record       *)
(* disturbs no request.                                                    *)
LEMMA CommitInvoiceStep ==
    ASSUME InvoicesTypeOK, InvoiceInv, NEW r \in Workers, CommitInvoice(r)
    PROVE  InvoicesTypeOK' /\ InvoiceInv'
<1>1. PICK j \in Invoices : j = ireq[r].inv
  BY AmountInt
<1>2. /\ j \notin invoiceRows /\ j[1] \in vendorRows /\ invoiceRows' = invoiceRows \cup {j}
      /\ invoice' = [invoice EXCEPT ![j] = Unpaid]
      /\ vendorRows' = vendorRows /\ apart' = apart /\ refunded' = refunded
  BY <1>1 DEF CommitInvoice
<1>3. /\ ireq' \in [Workers -> InvoiceRequest] /\ ireq'[r] = IIdle
      /\ \A q \in Workers : q # r => ireq'[q] = ireq[q]
  BY IIdleType DEF CommitInvoice, IBecome, InvoicesTypeOK
<1>4. Unpaid \in [status : Statuses, paid : Totals]
  BY InvoicesAssumption DEF Unpaid, Statuses, Totals
<1>5. /\ invoice' \in [Invoices -> [status : Statuses, paid : Totals]] /\ invoice'[j] = Unpaid
      /\ \A i \in Invoices : i # j => invoice'[i] = invoice[i]
  BY <1>2, <1>4 DEF InvoicesTypeOK
<1>6. InvoicesTypeOK'
  BY <1>2, <1>3, <1>5 DEF InvoicesTypeOK
<1>7. ASSUME NEW q \in Workers PROVE (InvoiceShape(ireq[q]) /\ InvoiceReads(ireq[q]))'
  <2>1. CASE ireq'[q] = IIdle
    BY <2>1, IIdleType DEF InvoiceShape, InvoiceReads, Settling
  <2>2. CASE ireq'[q] = ireq[q]
    <3>1. InvoiceShape(ireq[q]) /\ InvoiceReads(ireq[q]) /\ ireq[q].inv \in Invoices
      BY AmountInt DEF InvoiceInv
    <3>2. Settling(ireq[q]) => ireq[q].inv # j
      BY <1>2, <3>1 DEF InvoiceShape
    <3>3. Settling(ireq[q]) => invoice'[ireq[q].inv] = invoice[ireq[q].inv]
      BY <1>5, <3>1, <3>2
    <3>4. InvoiceShape(ireq[q])'
      BY <1>2, <2>2, <3>1 DEF InvoiceShape, Settling
    <3>5. InvoiceReads(ireq[q])'
      BY <1>2, <2>2, <3>1, <3>3 DEF InvoiceReads, Settling
    <3> QED BY <3>4, <3>5
  <2> QED BY <1>3, <2>1, <2>2
<1>8. InvoiceAlone'
  BY <1>2, <1>3, IIdleType DEF InvoiceInv, InvoiceAlone, OnInvoice
<1>9. InvoiceHasVendor'
  BY <1>2 DEF InvoiceInv, InvoiceHasVendor
<1>10. Unpaid.paid = 0 /\ Unpaid.status = "EN_ATTENTE" /\ StatusOf(0) = "EN_ATTENTE"
  BY InvoicesAssumption DEF Unpaid, StatusOf
<1>11. ASSUME NEW i \in invoiceRows', apart'[i]
       PROVE  /\ invoice'[i].paid <= Ttc
              /\ invoice'[i].status = IF invoice'[i].status = "ANNULEE" /\ invoice'[i].paid <= 0
                                       THEN "ANNULEE" ELSE StatusOf(invoice'[i].paid)
  <2>1. CASE i = j
    BY <1>5, <1>10, <2>1, InvoicesAssumption
  <2>2. CASE i # j
    <3>1. i \in invoiceRows /\ i \in Invoices /\ apart[i]
      BY <1>2, <1>11, <2>2 DEF InvoicesTypeOK
    <3> QED BY <1>5, <2>2, <3>1 DEF InvoiceInv, StatusOfPayments
  <2> QED BY <2>1, <2>2
<1>12. StatusOfPayments'
  BY <1>11 DEF StatusOfPayments, StatusOf
<1>13. PaidIsPaid'
  BY <1>2, <1>5, <1>10 DEF InvoiceInv, PaidIsPaid, InvoicesTypeOK
<1> QED BY <1>6, <1>7, <1>8, <1>9, <1>12, <1>13 DEF InvoiceInv

LEMMA CommitVendorStep ==
    ASSUME InvoicesTypeOK, InvoiceInv, NEW r \in Workers, CommitVendor(r)
    PROVE  InvoicesTypeOK' /\ InvoiceInv'
<1>1. PICK j \in Invoices : j = ireq[r].inv
  BY AmountInt
<1>2. /\ \A n \in Numbers : <<j[1], n>> \notin invoiceRows
      /\ vendorRows' = vendorRows \ {j[1]} /\ invoiceRows' = invoiceRows
      /\ invoice' = invoice /\ apart' = apart /\ refunded' = refunded
  BY <1>1 DEF CommitVendor
<1>3. /\ ireq' \in [Workers -> InvoiceRequest] /\ ireq'[r] = IIdle
      /\ \A q \in Workers : q # r => ireq'[q] = ireq[q]
  BY IIdleType DEF CommitVendor, IBecome, InvoicesTypeOK
<1>4. InvoicesTypeOK'
  BY <1>2, <1>3 DEF InvoicesTypeOK
<1>5. ASSUME NEW q \in Workers PROVE (InvoiceShape(ireq[q]) /\ InvoiceReads(ireq[q]))'
  <2>1. InvoiceShape(ireq'[q]) /\ InvoiceReads(ireq'[q])
    BY <1>3, IIdleReads DEF InvoiceInv
  <2> QED BY <1>2, <2>1 DEF InvoiceShape, InvoiceReads, Settling
<1>6. InvoiceAlone'
  BY <1>2, <1>3, IIdleType DEF InvoiceInv, InvoiceAlone, OnInvoice
<1>7. ASSUME NEW i \in invoiceRows PROVE i[1] # j[1]
  <2>1. i \in Vendors \X Numbers
    BY DEF InvoicesTypeOK, Invoices
  <2>2. i = <<i[1], i[2]>> /\ i[2] \in Numbers
    BY <2>1
  <2> QED BY <1>2, <2>2
<1>8. InvoiceHasVendor'
  BY <1>2, <1>7 DEF InvoiceInv, InvoiceHasVendor
<1>9. StatusOfPayments' /\ PaidIsPaid'
  BY <1>2 DEF InvoiceInv, StatusOfPayments, PaidIsPaid
<1> QED BY <1>4, <1>5, <1>6, <1>8, <1>9 DEF InvoiceInv

(* The one write that moves payments.  Whoever else has a request on the   *)
(* invoice, the invoice is not apart, and while nothing is refunded the    *)
(* total only grows under it.                                              *)
LEMMA CommitStatusStep ==
    ASSUME InvoicesTypeOK, InvoiceInv, NEW r \in Workers, CommitStatus(r)
    PROVE  InvoicesTypeOK' /\ InvoiceInv'
<1>1. PICK q \in InvoiceRequest : q = ireq[r]
  BY AmountInt
<1>2. PICK j \in Invoices : j = q.inv
  BY <1>1, AmountInt
<1>3. PICK n \in Int : n = q.amount
  BY <1>1, AmountInt
<1>4. PICK old \in [status : Statuses, paid : Totals] : old = invoice[j] /\ old.paid \in Int
  BY InvoiceTypes
<1> DEFINE status == IF q.status # q.seen THEN q.status ELSE old.status
<1>5. PICK new \in [status : Statuses, paid : Totals] :
         new.paid = old.paid + n /\ new.status = status /\ invoice' = [invoice EXCEPT ![j] = new]
         /\ new.paid \in Int
  <2>1. old.paid + n \in Totals
    BY <1>1, <1>2, <1>3, <1>4 DEF CommitStatus
  <2>2. status \in Statuses
    BY <1>4 DEF InvoiceRequest
  <2>3. invoice' = [invoice EXCEPT ![j].paid = old.paid + n, ![j].status = status]
    BY <1>1, <1>2, <1>3, <1>4 DEF CommitStatus
  <2>4. invoice' = [invoice EXCEPT ![j] = [old EXCEPT !.paid = old.paid + n, !.status = status]]
    BY <1>4, <2>3 DEF InvoicesTypeOK
  <2> DEFINE new == [old EXCEPT !.paid = old.paid + n, !.status = status]
  <2> HIDE DEF status
  <2>5. new \in [status : Statuses, paid : Totals] /\ new.paid = old.paid + n /\ new.status = status
    BY <2>1, <2>2
  <2>6. new.paid \in Int
    BY <1>4, <2>5
  <2> QED BY <2>4, <2>5, <2>6
<1>6. /\ q.pc = "commit" /\ q.op \in {"pay", "cancel"}
      /\ refunded' = (refunded \/ (q.op = "pay" /\ n <= 0))
      /\ vendorRows' = vendorRows /\ invoiceRows' = invoiceRows /\ apart' = apart
  BY <1>1, <1>3 DEF CommitStatus
<1>7. /\ ireq' \in [Workers -> InvoiceRequest] /\ ireq'[r] = IIdle
      /\ \A o \in Workers : o # r => ireq'[o] = ireq[o]
  BY IIdleType DEF CommitStatus, IBecome, InvoicesTypeOK
<1>8. /\ invoice' \in [Invoices -> [status : Statuses, paid : Totals]] /\ invoice'[j] = new
      /\ \A i \in Invoices : i # j => invoice'[i] = invoice[i]
  BY <1>5 DEF InvoicesTypeOK
<1>9. InvoicesTypeOK'
  BY <1>6, <1>7, <1>8 DEF InvoicesTypeOK
<1>10. InvoiceShape(q) /\ InvoiceReads(q)
  BY <1>1 DEF InvoiceInv
<1>11. /\ Settling(q) /\ j \in invoiceRows
       /\ q.op = "cancel" => n = 0 /\ q.status = "ANNULEE"
       /\ q.op = "pay" => q.status # "ANNULEE"
  BY <1>2, <1>3, <1>6, <1>10 DEF InvoiceShape, Settling
<1>12. ~refunded' => n >= 0
  <2>1. CASE q.op = "cancel"
    BY ONLY <1>11, <2>1
  <2>2. CASE q.op = "pay" /\ ~(n <= 0)
    BY <1>3, <2>2
  <2> QED BY <1>6, <2>1, <2>2
<1>13. ASSUME NEW o \in Workers PROVE (InvoiceShape(ireq[o]) /\ InvoiceReads(ireq[o]))'
  <2>1. CASE o = r
    BY <1>7, <2>1, IIdleType DEF InvoiceShape, InvoiceReads, Settling
  <2>2. CASE o # r
    <3>1. PICK p \in InvoiceRequest : p = ireq[o]
      BY AmountInt
    <3>2. InvoiceShape(p) /\ InvoiceReads(p) /\ ireq'[o] = p /\ p.inv \in Invoices /\ p.amount \in Int
      BY <1>7, <2>2, <3>1, AmountInt DEF InvoiceInv
    <3>3. InvoiceShape(p)'
      BY <1>6, <3>2 DEF InvoiceShape, Settling
    <3>4. CASE p.inv # j
      <4>1. invoice'[p.inv] = invoice[p.inv] /\ (~refunded' => ~refunded)
        BY <1>6, <1>8, <3>2, <3>4
      <4>2. InvoiceReads(p)'
        BY <1>6, <3>2, <4>1 DEF InvoiceReads, Settling
      <4> QED BY <3>2, <3>3, <4>2 DEF InvoiceShape, InvoiceReads, Settling
    <3>5. CASE p.inv = j
      <4>1. Settling(p) => OnInvoice(p, j)
        BY <3>5 DEF Settling, OnInvoice
      <4>2. ~(apart[j] /\ Settling(p))
        <5>1. OnInvoice(q, j)
          BY <1>2, <1>6 DEF OnInvoice
        <5> QED BY <1>1, <2>2, <3>1, <4>1, <5>1 DEF InvoiceInv, InvoiceAlone
      <4>3. ~refunded' /\ p.op = "pay" /\ p.pc = "commit" /\ p.status = "PAYEE" =>
              new.paid + p.amount >= Ttc
        <5> SUFFICES ASSUME ~refunded', p.op = "pay", p.pc = "commit", p.status = "PAYEE"
                     PROVE  new.paid + p.amount >= Ttc
          OBVIOUS
        <5>1. old.paid + p.amount >= Ttc
          BY <1>4, <1>6, <3>2, <3>5 DEF InvoiceReads
        <5> QED BY <1>4, <1>5, <1>12, <3>2, <5>1, InvoicesAssumption
      <4>4. InvoiceReads(p)'
        BY <1>6, <1>8, <3>5, <4>2, <4>3 DEF InvoiceReads, Settling
      <4> QED BY <3>2, <3>3, <4>4 DEF InvoiceShape, InvoiceReads, Settling
    <3> QED BY <3>4, <3>5
  <2> QED BY <2>1, <2>2
<1>14. InvoiceAlone'
  BY <1>6, <1>7, IIdleType DEF InvoiceInv, InvoiceAlone, OnInvoice
<1>15. InvoiceHasVendor'
  BY <1>6 DEF InvoiceInv, InvoiceHasVendor
<1>16. apart[j] => /\ new.paid <= Ttc
                   /\ new.status = IF new.status = "ANNULEE" /\ new.paid <= 0
                                     THEN "ANNULEE" ELSE StatusOf(new.paid)
  <2> SUFFICES ASSUME apart[j]
               PROVE  /\ new.paid <= Ttc
                      /\ new.status = IF new.status = "ANNULEE" /\ new.paid <= 0
                                        THEN "ANNULEE" ELSE StatusOf(new.paid)
    OBVIOUS
  <2>1. q.seen = old.status
    BY <1>2, <1>4, <1>10, <1>11 DEF InvoiceReads
  <2>2. CASE q.op = "pay"
    <3>1. n <= Ttc - old.paid /\ q.status = StatusOf(old.paid + n)
      BY <1>2, <1>3, <1>4, <1>6, <1>10, <1>11, <2>2 DEF InvoiceReads
    <3>2. new.paid <= Ttc
      BY <1>4, <1>5, <3>1, InvoicesAssumption
    <3>3. new.status = StatusOf(new.paid) /\ new.status # "ANNULEE"
      BY <1>5, <1>11, <2>1, <2>2, <3>1
    <3> QED BY <3>2, <3>3
  <2>3. CASE q.op = "cancel"
    <3>1. old.paid <= 0 /\ new.paid = old.paid
      BY <1>2, <1>4, <1>5, <1>6, <1>10, <1>11, <2>3 DEF InvoiceReads
    <3>2. new.status = "ANNULEE"
      BY <1>5, <1>11, <2>1, <2>3
    <3> QED BY <1>4, <3>1, <3>2, InvoicesAssumption
  <2> QED BY <1>6, <2>2, <2>3
<1>17. StatusOfPayments'
  <2>1. ASSUME NEW i \in invoiceRows, apart[i]
        PROVE  /\ invoice'[i].paid <= Ttc
               /\ invoice'[i].status = IF invoice'[i].status = "ANNULEE" /\ invoice'[i].paid <= 0
                                         THEN "ANNULEE" ELSE StatusOf(invoice'[i].paid)
    <3>1. i \in Invoices
      BY DEF InvoicesTypeOK
    <3>2. CASE i = j
      BY <1>8, <1>16, <2>1, <3>2
    <3>3. CASE i # j
      BY <1>8, <2>1, <3>1, <3>3 DEF InvoiceInv, StatusOfPayments
    <3> QED BY <3>2, <3>3
  <2> QED BY <1>6, <2>1 DEF StatusOfPayments, StatusOf
<1>18. ~refunded' /\ new.status = "PAYEE" => new.paid >= Ttc
  <2> SUFFICES ASSUME ~refunded', new.status = "PAYEE" PROVE new.paid >= Ttc
    OBVIOUS
  <2>1. CASE q.status # q.seen
    BY <1>2, <1>3, <1>4, <1>5, <1>6, <1>10, <1>11, <2>1 DEF InvoiceReads
  <2>2. CASE q.status = q.seen
    <3>1. old.status = "PAYEE"
      BY <1>5, <2>2
    <3>2. old.paid >= Ttc
      BY <1>4, <1>6, <1>11, <3>1 DEF InvoiceInv, PaidIsPaid
    <3> QED BY <1>4, <1>5, <1>12, <3>2, InvoicesAssumption
  <2> QED BY <2>1, <2>2
<1>19. PaidIsPaid'
  <2>1. ASSUME NEW i \in invoiceRows, ~refunded', invoice'[i].status = "PAYEE"
        PROVE  invoice'[i].paid >= Ttc
    <3>1. i \in Invoices
      BY DEF InvoicesTypeOK
    <3>2. CASE i = j
      BY <1>8, <1>18, <2>1, <3>2
    <3>3. CASE i # j
      BY <1>6, <1>8, <2>1, <3>1, <3>3 DEF InvoiceInv, PaidIsPaid
    <3> QED BY <3>2, <3>3
  <2> QED BY <1>6, <2>1 DEF PaidIsPaid
<1> QED BY <1>9, <1>13, <1>14, <1>15, <1>17, <1>19 DEF InvoiceInv

LEMMA InvoicesStart == InvoicesInit => InvoicesTypeOK /\ InvoiceInv
<1> SUFFICES ASSUME InvoicesInit PROVE InvoicesTypeOK /\ InvoiceInv
  OBVIOUS
<1>1. Unpaid \in [status : Statuses, paid : Totals]
  BY InvoicesAssumption DEF Unpaid, Statuses, Totals
<1>2. InvoicesTypeOK
  BY <1>1, IIdleType DEF InvoicesInit, InvoicesTypeOK
<1>3. \A r \in Workers : ireq[r] = IIdle
  BY DEF InvoicesInit
<1>4. InvoiceAlone
  BY <1>3, IIdleType DEF InvoiceAlone, OnInvoice
<1>5. InvoiceHasVendor /\ StatusOfPayments /\ PaidIsPaid
  BY DEF InvoicesInit, InvoiceHasVendor, StatusOfPayments, PaidIsPaid
<1> QED BY <1>2, <1>3, <1>4, <1>5, IIdleReads DEF InvoiceInv

LEMMA InvoicesStepwise ==
    ASSUME InvoicesTypeOK, InvoiceInv, [InvoicesNext]_invoiceVars
    PROVE  InvoicesTypeOK' /\ InvoiceInv'
<1>1. ASSUME NEW r \in Workers, IArrive(r) \/ IStep(r) \/ IAbort(r)
      PROVE  InvoicesTypeOK' /\ InvoiceInv'
  <2>1. CASE IAbort(r)
    BY <2>1, IFailStep DEF IAbort, IFail, IKeep
  <2>2. CASE IArrive(r)
    BY <2>2, IArriveStep
  <2>3. CASE IStep(r)
    BY <2>3, CheckDuplicateStep, CommitInvoiceStep, LoadInvoiceStep, LoadPaymentsStep, SumPaymentsStep,
       CommitStatusStep, CommitVendorStep DEF IStep
  <2> QED BY <1>1, <2>1, <2>2, <2>3
<1>2. CASE UNCHANGED invoiceVars
  <2>1. UNCHANGED <<vendorRows, invoiceRows, invoice, apart, refunded, ireq>>
    BY <1>2 DEF invoiceVars, invoiceDb
  <2>2. InvoicesTypeOK'
    BY <2>1 DEF InvoicesTypeOK
  <2>3. \A r \in Workers : (InvoiceShape(ireq[r]) /\ InvoiceReads(ireq[r]))'
    BY <2>1 DEF InvoiceInv, InvoiceShape, InvoiceReads, Settling
  <2>4. InvoiceAlone' /\ InvoiceHasVendor' /\ StatusOfPayments' /\ PaidIsPaid'
    BY <2>1 DEF InvoiceInv, InvoiceAlone, OnInvoice, InvoiceHasVendor, StatusOfPayments, PaidIsPaid
  <2> QED BY <2>2, <2>3, <2>4 DEF InvoiceInv
<1> QED BY <1>1, <1>2 DEF InvoicesNext

(* An invoice always belongs to a vendor; one that is settled a request at *)
(* a time is never overpaid and has the status its payments give it; and   *)
(* until a payment of 0 or less is on record, one marked paid is paid,     *)
(* however its payments overlap (services/finance/invoice.py,              *)
(* record_payment, _update_invoice_status, cancel_invoice).                *)
THEOREM InvoicesStayConsistent == InvoicesSpec => []InvoicesConsistent
<1>1. InvoicesInit => InvoicesTypeOK /\ InvoiceInv
  BY InvoicesStart
<1>2. (InvoicesTypeOK /\ InvoiceInv) /\ [InvoicesNext]_invoiceVars => (InvoicesTypeOK /\ InvoiceInv)'
  BY InvoicesStepwise
<1>3. InvoicesTypeOK /\ InvoiceInv => InvoicesConsistent
  BY DEF InvoiceInv, InvoicesConsistent
<1> QED BY <1>1, <1>2, <1>3, PTL DEF InvoicesSpec

(***************************************************************************)
(* The reference data.  A request on rows of a kind, or on a user, that    *)
(* are single is alone on them; and where codes are in capitals, a code is *)
(* looked for as it is written.                                            *)
(***************************************************************************)
OfCode(q) == q.op \in {"create", "update"}
OfMember(q) == q.op \in {"add", "remove"}
RegisterShape(q) == q.pc # "idle" =>
    /\ q.op # "none"
    /\ OfCode(q) => q.on \in RowKinds
    /\ q.op = "update" => q.id \in RowIds
    /\ q.op = "delete" => q.on = "vendor" /\ q.pc \in {"row", "commit"}
    /\ OfMember(q) => /\ q.member \in Entities \X Users /\ q.on = q.member[2]
                      /\ \A m \in q.cleared : m[2] = q.on
                      /\ q.pc \in {"lookup", "clear", "commit"}
    /\ OfCode(q) => q.pc \in {"row", "lookup", "commit"} /\ (q.pc # "commit" => ~q.raw)
    /\ OfCode(q) /\ Capitals[q.code] # q.code => q.on \in small

RegisterReads(q) == q.pc = "commit" /\ single[q.on] =>
    /\ OfCode(q) /\ q.on \notin small =>
          ~q.raw /\ \A i \in rowsOf[q.on] : codeOf[q.on][i] # q.code
    /\ q.op = "add" /\ q.default => q.cleared = {m \in members : m[2] = q.on}

OnRows(q, x) == q.pc # "idle" /\ q.on = x
RegisterAlone == \A x \in RowKinds \cup Users, p, q \in Workers :
    single[x] /\ OnRows(greq[p], x) /\ OnRows(greq[q], x) => p = q

RegisterInv ==
    /\ \A r \in Workers : RegisterShape(greq[r]) /\ RegisterReads(greq[r])
    /\ RegisterAlone /\ CodesDistinct /\ OneDefault

LEMMA GIdleType == GIdle \in RegisterRequest /\ GIdle.pc = "idle"
<1>1. (CHOOSE c \in Written : TRUE) \in Written
  BY RegisterAssumption
<1>2. "entity" \in RowKinds /\ 0 \in 0..MaxRows
  BY RegisterAssumption DEF RowKinds
<1> QED BY <1>1, <1>2 DEF GIdle, RegisterRequest

LEMMA GIdleReads == RegisterShape(GIdle) /\ RegisterReads(GIdle)
BY GIdleType DEF RegisterShape, RegisterReads

LEMMA RegisterTypes ==
    ASSUME RegisterTypeOK, NEW r \in Workers
    PROVE  /\ greq[r] \in RegisterRequest /\ greq[r].on \in RowKinds \cup Users
           /\ greq[r].code \in Written /\ greq[r].raw \in BOOLEAN /\ greq[r].default \in BOOLEAN
           /\ greq[r].op \in {"none", "create", "update", "delete", "add", "remove"}
<1>1. greq[r] \in RegisterRequest
  BY DEF RegisterTypeOK
<1> QED BY <1>1 DEF RegisterRequest

(* Only the record of one request changes. *)
LEMMA RegisterReadStep ==
    ASSUME RegisterTypeOK, RegisterInv, NEW r \in Workers, NEW x \in RegisterRequest, GBecome(r, x), GKeep,
           RegisterShape(x), RegisterReads(x),
           x.pc # "idle" => greq[r].pc # "idle" /\ x.on = greq[r].on
    PROVE  RegisterTypeOK' /\ RegisterInv'
<1>1. /\ greq' \in [Workers -> RegisterRequest] /\ greq'[r] = x
      /\ \A q \in Workers : q # r => greq'[q] = greq[q]
  BY DEF GBecome, RegisterTypeOK
<1>2. UNCHANGED <<rowsOf, created, codeOf, members, defaults, single, small>>
  BY DEF GKeep, registerDb
<1>3. RegisterTypeOK'
  BY <1>1, <1>2 DEF RegisterTypeOK
<1>4. ASSUME NEW q \in Workers PROVE (RegisterShape(greq[q]) /\ RegisterReads(greq[q]))'
  <2>1. RegisterShape(greq'[q]) /\ RegisterReads(greq'[q])
    BY <1>1 DEF RegisterInv
  <2> QED BY <1>2, <2>1 DEF RegisterShape, RegisterReads, OfCode, OfMember
<1>5. \A q \in Workers, y \in RowKinds \cup Users : OnRows(greq'[q], y) => OnRows(greq[q], y)
  BY <1>1 DEF OnRows
<1>6. RegisterAlone'
  BY <1>2, <1>5 DEF RegisterInv, RegisterAlone, OnRows
<1>7. CodesDistinct' /\ OneDefault'
  BY <1>2 DEF RegisterInv, CodesDistinct, OneDefault, SameCode
<1> QED BY <1>3, <1>4, <1>6, <1>7 DEF RegisterInv

LEMMA GFailStep ==
    ASSUME RegisterTypeOK, RegisterInv, NEW r \in Workers, GBecome(r, GIdle), GKeep
    PROVE  RegisterTypeOK' /\ RegisterInv'
BY GIdleType, GIdleReads, RegisterReadStep

LEMMA LoadRowStep ==
    ASSUME RegisterTypeOK, RegisterInv, NEW r \in Workers, LoadRow(r)
    PROVE  RegisterTypeOK' /\ RegisterInv'
<1> DEFINE q == greq[r]
           found == [q EXCEPT !.pc = "commit"]
           raw == [q EXCEPT !.pc = "commit", !.raw = TRUE]
           looks == [q EXCEPT !.pc = "lookup"]
<1>1. /\ q \in RegisterRequest /\ q.pc = "row" /\ GKeep /\ RegisterShape(q)
  BY RegisterTypes DEF LoadRow, RegisterInv
<1>2. ~OfMember(q) /\ q.op # "none" /\ (q.op # "delete" => OfCode(q))
  BY <1>1, RegisterTypes DEF RegisterShape, OfMember, OfCode
<1>3. CASE GBecome(r, GIdle)
  BY <1>1, <1>3, GFailStep
<1>4. CASE q.op = "delete" /\ GBecome(r, found)
  <2>1. found \in RegisterRequest /\ found.pc = "commit" /\ found.op = q.op /\ found.on = q.on
    BY <1>1 DEF RegisterRequest
  <2> HIDE DEF found
  <2>2. RegisterShape(found) /\ RegisterReads(found)
    BY <1>1, <1>4, <2>1 DEF RegisterShape, RegisterReads, OfCode, OfMember
  <2> QED BY <1>1, <1>4, <2>1, <2>2, RegisterReadStep
<1>5. CASE /\ q.op # "delete" /\ q.code # codeOf[q.on][q.id] /\ Sought(q) = codeOf[q.on][q.id]
           /\ GBecome(r, raw)
  <2>1. /\ raw \in RegisterRequest /\ raw.pc = "commit" /\ raw.op = q.op /\ raw.on = q.on
        /\ raw.id = q.id /\ raw.code = q.code
    BY <1>1 DEF RegisterRequest
  <2>2. Capitals[q.code] # q.code
    BY <1>5 DEF Sought
  <2>3. q.on \in small
    BY <1>1, <1>2, <1>5, <2>2 DEF RegisterShape
  <2> HIDE DEF raw
  <2>4. RegisterShape(raw)
    BY <1>1, <1>2, <1>5, <2>1, <2>3 DEF RegisterShape, OfCode, OfMember
  <2>5. RegisterReads(raw)
    BY <1>2, <1>5, <2>1, <2>3 DEF RegisterReads, OfCode, OfMember
  <2> QED BY <1>1, <1>5, <2>1, <2>4, <2>5, RegisterReadStep
<1>6. CASE q.op # "delete" /\ GBecome(r, looks)
  <2>1. /\ looks \in RegisterRequest /\ looks.pc = "lookup" /\ looks.op = q.op /\ looks.on = q.on
        /\ looks.id = q.id /\ looks.code = q.code /\ looks.raw = q.raw
    BY <1>1 DEF RegisterRequest
  <2> HIDE DEF looks
  <2>2. RegisterShape(looks) /\ RegisterReads(looks)
    BY <1>1, <1>2, <1>6, <2>1 DEF RegisterShape, RegisterReads, OfCode, OfMember
  <2> QED BY <1>1, <1>6, <2>1, <2>2, RegisterReadStep
<1> QED BY <1>3, <1>4, <1>5, <1>6 DEF LoadRow

LEMMA LookUpCodeStep ==
    ASSUME RegisterTypeOK, RegisterInv, NEW r \in Workers, LookUpCode(r)
    PROVE  RegisterTypeOK' /\ RegisterInv'
<1> DEFINE q == greq[r]
           x == [q EXCEPT !.pc = "commit"]
<1>1. /\ q \in RegisterRequest /\ q.pc = "lookup" /\ OfCode(q) /\ GKeep /\ RegisterShape(q)
  BY RegisterTypes DEF LookUpCode, RegisterInv, OfCode
<1>2. CASE GBecome(r, GIdle)
  BY <1>1, <1>2, GFailStep
<1>3. CASE ~Taken(q) /\ GBecome(r, x)
  <2>1. /\ x \in RegisterRequest /\ x.pc = "commit" /\ x.op = q.op /\ x.on = q.on
        /\ x.id = q.id /\ x.code = q.code /\ x.raw = q.raw
    BY <1>1 DEF RegisterRequest
  <2>2. q.on \notin small => Sought(q) = q.code
    BY <1>1 DEF RegisterShape, Sought
  <2>3. q.on \notin small => \A i \in rowsOf[q.on] : codeOf[q.on][i] # q.code
    BY <1>3, <2>2 DEF Taken
  <2> HIDE DEF x
  <2>4. RegisterShape(x) /\ RegisterReads(x)
    BY <1>1, <2>1, <2>3 DEF RegisterShape, RegisterReads, OfCode, OfMember
  <2> QED BY <1>1, <1>3, <2>1, <2>4, RegisterReadStep
<1> QED BY <1>2, <1>3 DEF LookUpCode

LEMMA LookUpMemberStep ==
    ASSUME RegisterTypeOK, RegisterInv, NEW r \in Workers, LookUpMember(r)
    PROVE  RegisterTypeOK' /\ RegisterInv'
<1> DEFINE q == greq[r]
           x == [q EXCEPT !.pc = IF q.default THEN "clear" ELSE "commit"]
<1>1. /\ q \in RegisterRequest /\ q.pc = "lookup" /\ OfMember(q) /\ GKeep /\ RegisterShape(q)
  BY RegisterTypes DEF LookUpMember, RegisterInv, OfMember
<1>2. CASE GBecome(r, GIdle)
  BY <1>1, <1>2, GFailStep
<1>3. CASE GBecome(r, x)
  <2>1. /\ x \in RegisterRequest /\ x.pc \in {"clear", "commit"} /\ x.op = q.op /\ x.on = q.on
        /\ x.member = q.member /\ x.cleared = q.cleared /\ x.default = q.default
        /\ x.pc = "commit" => ~q.default
    BY <1>1 DEF RegisterRequest
  <2> HIDE DEF x
  <2>2. RegisterShape(x) /\ RegisterReads(x)
    BY <1>1, <2>1 DEF RegisterShape, RegisterReads, OfCode, OfMember
  <2> QED BY <1>1, <1>3, <2>1, <2>2, RegisterReadStep
<1> QED BY <1>2, <1>3 DEF LookUpMember

LEMMA ClearDefaultsStep ==
    ASSUME RegisterTypeOK, RegisterInv, NEW r \in Workers, ClearDefaults(r)
    PROVE  RegisterTypeOK' /\ RegisterInv'
<1> DEFINE q == greq[r]
           covered == {m \in members : m[2] = q.member[2]}
           x == [q EXCEPT !.pc = "commit", !.cleared = covered]
<1>1. q \in RegisterRequest /\ q.pc = "clear" /\ GKeep /\ RegisterShape(q) /\ GBecome(r, x)
  BY RegisterTypes DEF ClearDefaults, RegisterInv
<1>2. OfMember(q)
  BY <1>1, RegisterTypes DEF RegisterShape, OfCode, OfMember
<1>3. covered \in SUBSET (Entities \X Users) /\ q.on = q.member[2]
  BY <1>1, <1>2 DEF RegisterTypeOK, RegisterShape
<1>4. /\ x \in RegisterRequest /\ x.pc = "commit" /\ x.op = q.op /\ x.on = q.on
      /\ x.member = q.member /\ x.cleared = covered
  BY <1>1, <1>3 DEF RegisterRequest
<1> HIDE DEF x
<1>5. RegisterShape(x) /\ RegisterReads(x)
  BY <1>1, <1>2, <1>3, <1>4 DEF RegisterShape, RegisterReads, OfCode, OfMember
<1> QED BY <1>1, <1>4, <1>5, RegisterReadStep

(* What a commit leaves: its request is over, and those alone stay alone. *)
LEMMA RegisterDone ==
    ASSUME RegisterTypeOK, RegisterInv, NEW r \in Workers, GBecome(r, GIdle),
           UNCHANGED <<single, small>>
    PROVE  /\ greq' \in [Workers -> RegisterRequest] /\ greq'[r] = GIdle
           /\ \A q \in Workers : q # r => greq'[q] = greq[q]
           /\ RegisterAlone' /\ \A q \in Workers : RegisterShape(greq[q])'
<1>1. /\ greq' \in [Workers -> RegisterRequest] /\ greq'[r] = GIdle
      /\ \A q \in Workers : q # r => greq'[q] = greq[q]
  BY GIdleType DEF GBecome, RegisterTypeOK
<1>2. RegisterAlone'
  BY <1>1, GIdleType DEF RegisterInv, RegisterAlone, OnRows
<1>3. ASSUME NEW q \in Workers PROVE RegisterShape(greq[q])'
  <2>1. RegisterShape(greq'[q])
    BY <1>1, GIdleReads DEF RegisterInv
  <2> QED BY <2>1 DEF RegisterShape, OfCode, OfMember
<1> QED BY <1>1, <1>2, <1>3

(* What a request that is alone on its rows read still holds after another *)
(* changed only rows of its own.                                           *)
LEMMA OthersReads ==
    ASSUME RegisterTypeOK, RegisterInv, NEW r \in Workers, GBecome(r, GIdle),
           UNCHANGED <<single, small>>, greq[r].pc # "idle",
           \A k \in RowKinds : k # greq[r].on =>
              rowsOf'[k] \subseteq rowsOf[k] /\ codeOf'[k] = codeOf[k],
           \A u \in Users : u # greq[r].on =>
              {m \in members' : m[2] = u} = {m \in members : m[2] = u}
    PROVE  \A q \in Workers : RegisterReads(greq[q])'
<1> SUFFICES ASSUME NEW q \in Workers PROVE RegisterReads(greq[q])'
  OBVIOUS
<1>1. /\ greq'[r] = GIdle
      /\ \A o \in Workers : o # r => greq'[o] = greq[o]
  BY RegisterDone
<1>2. CASE q = r
  BY <1>1, <1>2, GIdleType DEF RegisterReads
<1>3. CASE q # r
  <2>1. PICK p \in RegisterRequest : p = greq[q]
    BY RegisterTypes
  <2>2. /\ greq'[q] = p /\ p.on \in RowKinds \cup Users /\ RegisterShape(p) /\ RegisterReads(p)
    BY <1>1, <1>3, <2>1, RegisterTypes DEF RegisterInv
  <2>3. p.pc = "commit" /\ single[p.on] => p.on # greq[r].on
    BY <1>3, <2>1, <2>2 DEF RegisterInv, RegisterAlone, OnRows
  <2>4. RegisterReads(p)'
    <3> SUFFICES ASSUME p.pc = "commit", single[p.on]
                 PROVE  /\ OfCode(p) /\ p.on \notin small =>
                              ~p.raw /\ \A i \in rowsOf'[p.on] : codeOf'[p.on][i] # p.code
                        /\ p.op = "add" /\ p.default => p.cleared = {m \in members' : m[2] = p.on}
      BY DEF RegisterReads, OfCode
    <3>1. ASSUME OfCode(p), p.on \notin small
          PROVE  ~p.raw /\ \A i \in rowsOf'[p.on] : codeOf'[p.on][i] # p.code
      <4>1. p.on \in RowKinds
        BY <2>2, <3>1 DEF RegisterShape
      <4>2. ~p.raw /\ \A i \in rowsOf[p.on] : codeOf[p.on][i] # p.code
        BY <2>2, <3>1 DEF RegisterReads
      <4>3. rowsOf'[p.on] \subseteq rowsOf[p.on] /\ codeOf'[p.on] = codeOf[p.on]
        BY <2>3, <4>1
      <4> QED BY <4>2, <4>3
    <3>2. ASSUME p.op = "add", p.default PROVE p.cleared = {m \in members' : m[2] = p.on}
      <4>1. p.on \in Users
        BY <2>2, <3>2 DEF RegisterShape, OfMember
      <4>2. p.cleared = {m \in members : m[2] = p.on}
        BY <2>2, <3>2 DEF RegisterReads
      <4> QED BY <2>3, <4>1, <4>2
    <3> QED BY <3>1, <3>2
  <2> QED BY <2>2, <2>4 DEF RegisterReads, OfCode
<1> QED BY <1>2, <1>3

LEMMA CommitCodeStep ==
    ASSUME RegisterTypeOK, RegisterInv, NEW r \in Workers, CommitCode(r)
    PROVE  RegisterTypeOK' /\ RegisterInv'
<1>1. PICK q \in RegisterRequest : q = greq[r]
  BY RegisterTypes
<1>2. RegisterShape(q) /\ RegisterReads(q) /\ q.pc = "commit" /\ OfCode(q)
  BY <1>1 DEF CommitCode, RegisterInv, OfCode
<1>3. PICK k \in RowKinds : k = q.on
  BY <1>2 DEF RegisterShape
<1>4. PICK id \in RowIds : id = IF q.op = "create" THEN created[k] + 1 ELSE q.id
  BY <1>1, <1>3 DEF CommitCode
<1>5. PICK code \in Written : code = IF q.raw THEN q.code ELSE Capitals[q.code]
  <2>1. q.code \in Written /\ Capitals[q.code] \in Written
    BY RegisterAssumption DEF RegisterRequest
  <2> QED BY <2>1
<1>6. /\ k = "entity" => \A i \in rowsOf[k] \ {id} : codeOf[k][i] # code
      /\ codeOf' = [codeOf EXCEPT ![k][id] = code]
      /\ \/ /\ rowsOf' = [rowsOf EXCEPT ![k] = rowsOf[k] \cup {id}]
            /\ created' = [created EXCEPT ![k] = id]
         \/ rowsOf' = rowsOf /\ created' = created
      /\ GBecome(r, GIdle) /\ members' = members /\ defaults' = defaults
      /\ single' = single /\ small' = small
  BY <1>1, <1>3, <1>4, <1>5 DEF CommitCode
<1>7. /\ codeOf' \in [RowKinds -> [RowIds -> Written]] /\ codeOf'[k][id] = code
      /\ \A i \in RowIds : i # id => codeOf'[k][i] = codeOf[k][i]
      /\ \A l \in RowKinds : l # k => codeOf'[l] = codeOf[l]
  BY <1>6 DEF RegisterTypeOK
<1>8. /\ rowsOf' \in [RowKinds -> SUBSET RowIds] /\ rowsOf'[k] \subseteq rowsOf[k] \cup {id}
      /\ \A l \in RowKinds : l # k => rowsOf'[l] = rowsOf[l]
  BY <1>6 DEF RegisterTypeOK
<1>9. created' \in [RowKinds -> 0..MaxRows]
  <2>1. id \in 0..MaxRows
    BY RegisterAssumption DEF RowIds
  <2> QED BY <1>6, <2>1 DEF RegisterTypeOK
<1>10. greq' \in [Workers -> RegisterRequest] /\ RegisterAlone' /\ \A o \in Workers : RegisterShape(greq[o])'
  BY <1>6, RegisterDone
<1>11. RegisterTypeOK'
  BY <1>6, <1>7, <1>8, <1>9, <1>10 DEF RegisterTypeOK
<1>12. \A o \in Workers : RegisterReads(greq[o])'
  BY <1>1, <1>2, <1>3, <1>6, <1>7, <1>8, OthersReads
<1>13. k = "entity" \/ (single[k] /\ k \notin small) =>
          \A i \in rowsOf[k] \ {id} : codeOf[k][i] # code
  <2>1. ASSUME single[k], k \notin small PROVE \A i \in rowsOf[k] : codeOf[k][i] # code
    <3>1. ~q.raw /\ \A i \in rowsOf[k] : codeOf[k][i] # q.code
      BY <1>2, <1>3, <2>1 DEF RegisterReads
    <3>2. Capitals[q.code] = q.code
      BY <1>2, <1>3, <2>1 DEF RegisterShape
    <3> QED BY <1>5, <3>1, <3>2
  <2> QED BY <1>6, <2>1
<1>14. ASSUME NEW l \in RowKinds, l = "entity" \/ (single[l] /\ l \notin small) PROVE ~SameCode(l)'
  <2>1. ~SameCode(l)
    BY <1>14 DEF RegisterInv, CodesDistinct
  <2>2. CASE l # k
    BY <1>7, <1>8, <2>1, <2>2 DEF SameCode
  <2>3. CASE l = k
    <3> SUFFICES ASSUME NEW i \in rowsOf'[k], NEW j \in rowsOf'[k], i # j, codeOf'[k][i] = codeOf'[k][j]
                 PROVE  FALSE
      BY <2>3 DEF SameCode
    <3>1. i \in RowIds /\ j \in RowIds
      BY <1>8
    <3>2. CASE i = id
      BY <1>7, <1>8, <1>13, <1>14, <2>3, <3>1, <3>2
    <3>3. CASE j = id
      BY <1>7, <1>8, <1>13, <1>14, <2>3, <3>1, <3>3
    <3>4. CASE i # id /\ j # id
      BY <1>7, <1>8, <2>1, <2>3, <3>1, <3>4 DEF SameCode
    <3> QED BY <3>2, <3>3, <3>4
  <2> QED BY <2>2, <2>3
<1>15. CodesDistinct'
  BY <1>6, <1>14 DEF CodesDistinct, RowKinds
<1>16. OneDefault'
  BY <1>6 DEF RegisterInv, OneDefault
<1> QED BY <1>10, <1>11, <1>12, <1>15, <1>16 DEF RegisterInv

LEMMA DeleteRowStep ==
    ASSUME RegisterTypeOK, RegisterInv, NEW r \in Workers, DeleteRow(r)
    PROVE  RegisterTypeOK' /\ RegisterInv'
<1>1. PICK k \in RowKinds : k = greq[r].on /\ k = "vendor"
  BY DEF DeleteRow, RegisterInv, RegisterShape, RowKinds
<1>2. /\ rowsOf' = [rowsOf EXCEPT ![k] = rowsOf[k] \ {greq[r].id}] /\ greq[r].pc = "commit"
      /\ GBecome(r, GIdle)
      /\ UNCHANGED <<created, codeOf, members, defaults, single, small>>
  BY <1>1 DEF DeleteRow
<1>3. rowsOf' \in [RowKinds -> SUBSET RowIds] /\ \A l \in RowKinds : rowsOf'[l] \subseteq rowsOf[l]
  BY <1>2 DEF RegisterTypeOK
<1>4. greq' \in [Workers -> RegisterRequest] /\ RegisterAlone' /\ \A o \in Workers : RegisterShape(greq[o])'
  BY <1>2, RegisterDone
<1>5. RegisterTypeOK'
  BY <1>2, <1>3, <1>4 DEF RegisterTypeOK
<1>6. \A o \in Workers : RegisterReads(greq[o])'
  BY <1>2, <1>3, OthersReads
<1>7. \A l \in RowKinds : ~SameCode(l) => ~SameCode(l)'
  BY <1>2, <1>3 DEF SameCode
<1>8. CodesDistinct'
  BY <1>2, <1>7 DEF RegisterInv, CodesDistinct, RowKinds
<1>9. OneDefault'
  BY <1>2 DEF RegisterInv, OneDefault
<1> QED BY <1>4, <1>5, <1>6, <1>8, <1>9 DEF RegisterInv

(* A default that a lone request sets replaces those of the user. *)
LEMMA CommitMemberStep ==
    ASSUME RegisterTypeOK, RegisterInv, NEW r \in Workers, CommitMember(r) \/ RemoveMember(r)
    PROVE  RegisterTypeOK' /\ RegisterInv'
<1>1. PICK q \in RegisterRequest : q = greq[r]
  BY RegisterTypes
<1>2. RegisterShape(q) /\ RegisterReads(q) /\ q.pc = "commit" /\ OfMember(q)
  BY <1>1 DEF CommitMember, RemoveMember, RegisterInv, OfMember
<1>3. PICK m \in Entities \X Users : m = q.member /\ q.on = m[2] /\ m[2] \in Users
  BY <1>2 DEF RegisterShape
<1>4. /\ \/ /\ q.op = "add" /\ members' = members \cup {m}
            /\ defaults' = (defaults \ q.cleared) \cup (IF q.default THEN {m} ELSE {})
         \/ q.op = "remove" /\ members' = members \ {m} /\ defaults' = defaults \ {m}
      /\ GBecome(r, GIdle)
      /\ UNCHANGED <<rowsOf, created, codeOf, single, small>>
  BY <1>1, <1>3 DEF CommitMember, RemoveMember
<1>5. members' \subseteq Entities \X Users /\ defaults' \subseteq members'
  BY <1>4 DEF RegisterTypeOK
<1>6. greq' \in [Workers -> RegisterRequest] /\ RegisterAlone' /\ \A o \in Workers : RegisterShape(greq[o])'
  BY <1>4, RegisterDone
<1>7. RegisterTypeOK'
  BY <1>4, <1>5, <1>6 DEF RegisterTypeOK
<1>8. \A u \in Users : u # m[2] => {n \in members' : n[2] = u} = {n \in members : n[2] = u}
  BY <1>4
<1>9. \A o \in Workers : RegisterReads(greq[o])'
  BY <1>1, <1>2, <1>3, <1>4, <1>8, OthersReads
<1>10. CodesDistinct'
  BY <1>4 DEF RegisterInv, CodesDistinct, SameCode
<1>11. ASSUME NEW u \in Users, single[u], NEW i \in defaults', NEW j \in defaults', i[2] = u, j[2] = u
       PROVE  i = j
  <2>1. CASE i \in defaults /\ j \in defaults
    BY <1>11, <2>1 DEF RegisterInv, OneDefault
  <2>2. CASE i \notin defaults \/ j \notin defaults
    <3>1. q.op = "add" /\ q.default /\ u = m[2] /\ defaults' = (defaults \ q.cleared) \cup {m}
      BY <1>4, <1>11, <2>2
    <3>2. q.cleared = {n \in members : n[2] = u}
      BY <1>2, <1>3, <1>11, <3>1 DEF RegisterReads
    <3>3. \A n \in defaults \ q.cleared : n[2] # u
      BY <3>2 DEF RegisterTypeOK
    <3> QED BY <1>11, <3>1, <3>3
  <2> QED BY <2>1, <2>2
<1>12. OneDefault'
  BY <1>4, <1>11 DEF OneDefault
<1> QED BY <1>6, <1>7, <1>9, <1>10, <1>12 DEF RegisterInv

LEMMA GBeginStep ==
    ASSUME RegisterTypeOK, RegisterInv, NEW r \in Workers, NEW x \in RegisterRequest, GBegin(r, x),
           x.pc # "commit", x.op # "none", ~x.raw, x.cleared = {},
           OfCode(x) => x.on \in RowKinds /\ x.pc \in {"row", "lookup"},
           x.op = "update" => x.id \in RowIds,
           x.op = "delete" => x.on = "vendor" /\ x.pc = "row",
           OfMember(x) => x.pc = "lookup" /\ x.member \in Entities \X Users /\ x.on = x.member[2]
    PROVE  RegisterTypeOK' /\ RegisterInv'
<1>1. /\ greq' \in [Workers -> RegisterRequest] /\ greq'[r] = x
      /\ \A q \in Workers : q # r => greq'[q] = greq[q]
  BY DEF GBegin, GBecome, RegisterTypeOK
<1>2. UNCHANGED <<rowsOf, created, codeOf, members, defaults>>
  BY DEF GBegin, registerDb
<1>3. PICK y \in RowKinds \cup Users : y = x.on
  BY DEF RegisterRequest
<1>4. single' = [single EXCEPT ![y] = single[y] /\ \A o \in InProgress(greq, r) : o.on # y]
  BY <1>3 DEF GBegin
<1>5. single' \in [RowKinds \cup Users -> BOOLEAN] /\ \A z \in RowKinds \cup Users : single'[z] => single[z]
  BY <1>4 DEF RegisterTypeOK
<1>6. /\ small \subseteq small' /\ small' \subseteq RowKinds
      /\ OfCode(x) /\ Capitals[x.code] # x.code => x.on \in small'
  BY DEF GBegin, OfCode, RegisterTypeOK
<1>7. RegisterTypeOK'
  BY <1>1, <1>2, <1>5, <1>6 DEF RegisterTypeOK
<1>8. ASSUME NEW q \in Workers PROVE (RegisterShape(greq[q]) /\ RegisterReads(greq[q]))'
  <2>1. CASE q = r
    BY <1>1, <1>6, <2>1 DEF RegisterShape, RegisterReads, OfCode, OfMember
  <2>2. CASE q # r
    <3>1. RegisterShape(greq[q]) /\ RegisterReads(greq[q]) /\ greq'[q] = greq[q]
          /\ greq[q].on \in RowKinds \cup Users
      BY <1>1, <2>2, RegisterTypes DEF RegisterInv
    <3>2. RegisterShape(greq[q])'
      BY <1>6, <3>1 DEF RegisterShape, OfCode, OfMember
    <3>3. RegisterReads(greq[q])'
      BY <1>2, <1>5, <1>6, <3>1 DEF RegisterReads, OfCode
    <3> QED BY <3>2, <3>3
  <2> QED BY <2>1, <2>2
<1>9. ASSUME single'[y], NEW q \in Workers, q # r PROVE ~OnRows(greq[q], y)
  <2> SUFFICES ASSUME OnRows(greq[q], y) PROVE FALSE
    OBVIOUS
  <2>1. greq[q] \in InProgress(greq, r)
    BY <1>9 DEF InProgress, Busy, OnRows
  <2> QED BY <1>4, <1>9, <2>1 DEF OnRows, RegisterTypeOK
<1>10. ASSUME NEW z \in RowKinds \cup Users, NEW p \in Workers, NEW q \in Workers, single'[z],
              OnRows(greq'[p], z), OnRows(greq'[q], z)
       PROVE  p = q
  <2>1. OnRows(x, z) => z = y
    BY <1>3 DEF OnRows
  <2> QED BY <1>1, <1>5, <1>9, <1>10, <2>1 DEF RegisterInv, RegisterAlone
<1>11. RegisterAlone'
  BY <1>10 DEF RegisterAlone, OnRows
<1>12. CodesDistinct' /\ OneDefault'
  BY <1>2, <1>5, <1>6 DEF RegisterInv, CodesDistinct, OneDefault, SameCode
<1> QED BY <1>7, <1>8, <1>11, <1>12 DEF RegisterInv

LEMMA GArriveStep ==
    ASSUME RegisterTypeOK, RegisterInv, NEW r \in Workers, GArrive(r)
    PROVE  RegisterTypeOK' /\ RegisterInv'
<1>1. /\ GIdle \in RegisterRequest /\ GIdle.cleared = {} /\ ~GIdle.raw
      /\ GIdle.on \in RowKinds /\ RowIds \subseteq 0..MaxRows
  BY GIdleType, RegisterAssumption DEF GIdle, RowKinds, RowIds
<1>2. ASSUME NEW k \in RowKinds, NEW c \in Written,
             GBegin(r, [GIdle EXCEPT !.pc = "lookup", !.op = "create", !.on = k, !.code = c])
      PROVE  RegisterTypeOK' /\ RegisterInv'
  <2> DEFINE x == [GIdle EXCEPT !.pc = "lookup", !.op = "create", !.on = k, !.code = c]
  <2>1. x \in RegisterRequest /\ x.pc = "lookup" /\ x.op = "create" /\ x.on = k /\ ~x.raw /\ x.cleared = {}
    BY <1>1 DEF RegisterRequest
  <2> HIDE DEF x
  <2> QED BY <1>2, <2>1, GBeginStep DEF OfCode, OfMember, x
<1>3. ASSUME NEW k \in RowKinds, NEW i \in RowIds, NEW c \in Written,
             GBegin(r, [GIdle EXCEPT !.pc = "row", !.op = "update", !.on = k, !.id = i, !.code = c])
      PROVE  RegisterTypeOK' /\ RegisterInv'
  <2> DEFINE x == [GIdle EXCEPT !.pc = "row", !.op = "update", !.on = k, !.id = i, !.code = c]
  <2>1. /\ x \in RegisterRequest /\ x.pc = "row" /\ x.op = "update" /\ x.on = k /\ x.id = i
        /\ ~x.raw /\ x.cleared = {}
    BY <1>1 DEF RegisterRequest
  <2>2. GBegin(r, x)
    BY <1>3
  <2> HIDE DEF x
  <2> QED BY <2>1, <2>2, GBeginStep DEF OfCode, OfMember
<1>4. ASSUME NEW i \in RowIds,
             GBegin(r, [GIdle EXCEPT !.pc = "row", !.op = "delete", !.on = "vendor", !.id = i])
      PROVE  RegisterTypeOK' /\ RegisterInv'
  <2> DEFINE x == [GIdle EXCEPT !.pc = "row", !.op = "delete", !.on = "vendor", !.id = i]
  <2>1. /\ x \in RegisterRequest /\ x.pc = "row" /\ x.op = "delete" /\ x.on = "vendor"
        /\ ~x.raw /\ x.cleared = {}
    BY <1>1 DEF RegisterRequest, RowKinds
  <2>2. GBegin(r, x)
    BY <1>4
  <2> HIDE DEF x
  <2> QED BY <2>1, <2>2, GBeginStep DEF OfCode, OfMember
<1>5. ASSUME NEW e \in Entities, NEW u \in Users, NEW d \in BOOLEAN,
             GBegin(r, [GIdle EXCEPT !.pc = "lookup", !.op = "add", !.on = u, !.member = <<e, u>>,
                                     !.default = d])
      PROVE  RegisterTypeOK' /\ RegisterInv'
  <2> DEFINE x == [GIdle EXCEPT !.pc = "lookup", !.op = "add", !.on = u, !.member = <<e, u>>,
                            !.default = d]
  <2>1. /\ x \in RegisterRequest /\ x.pc = "lookup" /\ x.op = "add" /\ x.on = u
        /\ x.member \in Entities \X Users /\ x.member[2] = u /\ ~x.raw /\ x.cleared = {}
    BY <1>1 DEF RegisterRequest
  <2>2. GBegin(r, x)
    BY <1>5
  <2> HIDE DEF x
  <2> QED BY <2>1, <2>2, GBeginStep DEF OfCode, OfMember
<1>6. ASSUME NEW e \in Entities, NEW u \in Users,
             GBegin(r, [GIdle EXCEPT !.pc = "lookup", !.op = "remove", !.on = u, !.member = <<e, u>>])
      PROVE  RegisterTypeOK' /\ RegisterInv'
  <2> DEFINE x == [GIdle EXCEPT !.pc = "lookup", !.op = "remove", !.on = u, !.member = <<e, u>>]
  <2>1. /\ x \in RegisterRequest /\ x.pc = "lookup" /\ x.op = "remove" /\ x.on = u
        /\ x.member \in Entities \X Users /\ x.member[2] = u /\ ~x.raw /\ x.cleared = {}
    BY <1>1 DEF RegisterRequest
  <2>2. GBegin(r, x)
    BY <1>6
  <2> HIDE DEF x
  <2> QED BY <2>1, <2>2, GBeginStep DEF OfCode, OfMember
<1> QED BY <1>2, <1>3, <1>4, <1>5, <1>6 DEF GArrive

LEMMA RegisterStart == RegisterInit => RegisterTypeOK /\ RegisterInv
<1> SUFFICES ASSUME RegisterInit PROVE RegisterTypeOK /\ RegisterInv
  OBVIOUS
<1>1. (CHOOSE c \in Written : TRUE) \in Written /\ 0 \in 0..MaxRows
  BY RegisterAssumption
<1>2. RegisterTypeOK
  BY <1>1, GIdleType DEF RegisterInit, RegisterTypeOK
<1>3. \A r \in Workers : greq[r] = GIdle
  BY DEF RegisterInit
<1>4. RegisterAlone
  BY <1>3, GIdleType DEF RegisterAlone, OnRows
<1>5. CodesDistinct /\ OneDefault
  BY DEF RegisterInit, CodesDistinct, OneDefault, SameCode, RowKinds
<1> QED BY <1>2, <1>3, <1>4, <1>5, GIdleReads DEF RegisterInv

LEMMA RegisterStepwise ==
    ASSUME RegisterTypeOK, RegisterInv, [RegisterNext]_registerVars
    PROVE  RegisterTypeOK' /\ RegisterInv'
<1>1. ASSUME NEW r \in Workers, GArrive(r) \/ GStep(r) \/ GAbort(r)
      PROVE  RegisterTypeOK' /\ RegisterInv'
  <2>1. CASE GAbort(r)
    BY <2>1, GFailStep DEF GAbort, GFail, GKeep
  <2>2. CASE GArrive(r)
    BY <2>2, GArriveStep
  <2>3. CASE GStep(r)
    BY <2>3, LoadRowStep, LookUpCodeStep, CommitCodeStep, DeleteRowStep, LookUpMemberStep,
       ClearDefaultsStep, CommitMemberStep DEF GStep
  <2> QED BY <1>1, <2>1, <2>2, <2>3
<1>2. CASE UNCHANGED registerVars
  <2>1. UNCHANGED <<rowsOf, created, codeOf, members, defaults, single, small, greq>>
    BY <1>2 DEF registerVars, registerDb
  <2>2. RegisterTypeOK'
    BY <2>1 DEF RegisterTypeOK
  <2>3. \A r \in Workers : (RegisterShape(greq[r]) /\ RegisterReads(greq[r]))'
    BY <2>1 DEF RegisterInv, RegisterShape, RegisterReads, OfCode, OfMember
  <2>4. RegisterAlone' /\ CodesDistinct' /\ OneDefault'
    BY <2>1 DEF RegisterInv, RegisterAlone, OnRows, CodesDistinct, OneDefault, SameCode
  <2> QED BY <2>2, <2>3, <2>4 DEF RegisterInv
<1> QED BY <1>1, <1>2 DEF RegisterNext

(* The code of an entity names one row whatever overlaps; that of a vendor *)
(* or an account does as long as the requests on them come one at a time   *)
(* and their codes are written in capitals; and a user whose requests come *)
(* one at a time has at most one default entity (services/finance/         *)
(* vendor.py, account.py, entity.py).                                      *)
THEOREM RegisterStaysConsistent == RegisterSpec => []RegisterConsistent
<1>1. RegisterInit => RegisterTypeOK /\ RegisterInv
  BY RegisterStart
<1>2. (RegisterTypeOK /\ RegisterInv) /\ [RegisterNext]_registerVars => (RegisterTypeOK /\ RegisterInv)'
  BY RegisterStepwise
<1>3. RegisterTypeOK /\ RegisterInv => RegisterConsistent
  BY DEF RegisterInv, RegisterConsistent
<1> QED BY <1>1, <1>2, <1>3, PTL DEF RegisterSpec

(***************************************************************************)
(* The script that loads a JSON file.                                      *)
(***************************************************************************)
Process == [pc : {"idle", "facture", "lignes"}, file : SUBSET Bills, todo : SUBSET Bills,
            on : Bills \cup {JIdle.on}, bad : SUBSET Bills, erreurs : SUBSET Bills]
ToCome == jproc.todo \cup (IF jproc.pc = "lignes" THEN {jproc.on} ELSE {})
Complete(i) == i \in jRow /\ \A p \in Places : jLines[<<i, p>>] > 0
JsonInv ==
    /\ jproc \in Process /\ (jproc.pc = "idle" => jproc = JIdle)
    /\ jproc.pc = "lignes" => jproc.on \in (jproc.file \cap jRow) \ jproc.todo
    /\ \A l \in Lines : jLines[l] <= IF l[1] \in ToCome THEN jRuns - 1 ELSE jRuns
    /\ \A i \in jproc.file \ (ToCome \cup jproc.erreurs) : Complete(i)
    /\ ImportedWhole /\ AggregatesBehind

(* Half a divisor around a multiple rounds to the multiple. *)
LEMMA RoundsToMultiple ==
    ASSUME NEW d \in Nat \ {0}, NEW pack \in Nat, NEW off \in Int, 2 * off < d, -2 * off < d
    PROVE  RoundedQuotient(d * pack + off, d) = pack
BY DEF RoundedQuotient

LEMMA PacksOfAmounts == PackOfAmount
<1> SUFFICES ASSUME NEW quantite \in 1..3, NEW prix \in 1..4, NEW pack \in 1..4, NEW off \in -5..5,
                    NEW named \in {1, 6}, 2 * off < quantite * prix, -2 * off < quantite * prix
             PROVE  LinePack(quantite, prix, quantite * prix * pack + off, named)
                      = (IF pack = 1 /\ named > 1 THEN named ELSE pack)
  BY DEF PackOfAmount
<1>1. PICK d \in Nat \ {0} : d = quantite * prix
  OBVIOUS
<1>2. RoundedQuotient(d * pack + off, d) = pack
  BY <1>1, RoundsToMultiple
<1>3. d * pack + off = d => pack = 1
  <2>1. CASE pack = 1
    BY <2>1
  <2>2. CASE pack >= 2
    <3>1. d * pack >= 2 * d
      BY <2>2
    <3> QED BY <1>1, <3>1
  <2> QED BY <2>1, <2>2
<1>4. Colisage(quantite, prix, d * pack + off) = pack
  BY <1>1, <1>2, <1>3 DEF Colisage
<1> QED BY <1>1, <1>4 DEF LinePack

LEMMA JIdleType ==
    /\ JIdle \in Process /\ JIdle.pc = "idle" /\ JIdle.file = {} /\ JIdle.todo = {}
    /\ JIdle.bad = {} /\ JIdle.erreurs = {}
BY DEF Process, JIdle

LEMMA ProcessTypes ==
    ASSUME JsonInv
    PROVE  /\ jproc \in Process /\ jproc.todo \subseteq Bills /\ jproc.file \subseteq Bills
           /\ jproc.erreurs \subseteq Bills /\ jproc.bad \subseteq Bills
<1>1. jproc \in Process
  BY DEF JsonInv
<1> QED BY <1>1 DEF Process

LEMMA LinesWithType ==
    ASSUME JsonTypeOK, NEW p \in Places
    PROVE  LinesWith(p) \in Nat
<1>1. \A i \in Bills : [j \in Bills |-> jLines[<<j, p>>]][i] \in Nat
  <2>1. \A i \in Bills : jLines[<<i, p>>] \in 0..MaxImports
    BY DEF JsonTypeOK, Lines
  <2> QED BY <2>1, JsonAssumption
<1> QED BY <1>1, SumNat, FilesAssumption DEF LinesWith

(* Lines are never taken away, so the aggregates stay behind. *)
LEMMA AggregatesStayBehind ==
    ASSUME JsonTypeOK, JsonInv, JsonTypeOK', jSum' = jSum, \A l \in Lines : jLines[l] <= jLines'[l]
    PROVE  AggregatesBehind'
<1> SUFFICES ASSUME NEW p \in Places PROVE jSum'[p] <= LinesWith(p)'
  BY DEF AggregatesBehind
<1> DEFINE before == [i \in Bills |-> jLines[<<i, p>>]]
           after == [i \in Bills |-> jLines'[<<i, p>>]]
<1>1. \A i \in Bills : jLines[<<i, p>>] \in 0..MaxImports /\ jLines'[<<i, p>>] \in 0..MaxImports
  BY DEF JsonTypeOK, Lines
<1>2. \A i \in Bills : before[i] \in Int /\ after[i] \in Int /\ before[i] <= after[i]
  BY <1>1, JsonAssumption DEF Lines
<1>3. LinesWith(p) = SumFunctionOnSet(before, Bills) /\ LinesWith(p)' = SumFunctionOnSet(after, Bills)
  BY DEF LinesWith
<1> HIDE DEF before, after
<1>4. SumFunctionOnSet(before, Bills) <= SumFunctionOnSet(after, Bills)
  BY <1>2, SumMonotone, FilesAssumption
<1>5. SumFunctionOnSet(before, Bills) \in Int /\ SumFunctionOnSet(after, Bills) \in Int
  BY <1>2, SumInt, FilesAssumption
<1>6. jSum[p] <= SumFunctionOnSet(before, Bills) /\ jSum[p] \in Int
  BY <1>3 DEF JsonInv, AggregatesBehind, JsonTypeOK
<1> QED BY <1>3, <1>4, <1>5, <1>6

LEMMA StartImportStep ==
    ASSUME JsonTypeOK, JsonInv, StartImport
    PROVE  JsonTypeOK' /\ JsonInv'
<1>1. PICK file \in SUBSET Bills, bad \in SUBSET Bills :
        bad \subseteq file /\ jproc' = [JIdle EXCEPT !.pc = "facture", !.file = file, !.todo = file, !.bad = bad]
  BY DEF StartImport
<1>2. /\ jproc' \in Process /\ jproc'.pc = "facture" /\ jproc'.file = file /\ jproc'.todo = file
      /\ jproc'.bad = bad /\ jproc'.erreurs = {}
  BY <1>1, JIdleType DEF Process
<1>3. /\ jproc = JIdle /\ jRuns < MaxImports /\ jRuns' = jRuns + 1
      /\ UNCHANGED <<jRow, jLines, jSum, jDone>>
  BY DEF StartImport, JsonInv
<1>4. JsonTypeOK'
  <2>1. jRuns' \in 0..MaxImports
    BY <1>3, JsonAssumption DEF JsonTypeOK
  <2>2. jproc'.todo \cup jproc'.bad \subseteq jproc'.file /\ jproc'.erreurs \subseteq jproc'.bad
    BY <1>1, <1>2
  <2> QED BY <1>2, <1>3, <2>1, <2>2 DEF JsonTypeOK
<1>5. ToCome = {} /\ ToCome' = file
  BY <1>2, <1>3, JIdleType DEF ToCome
<1>6. \A l \in Lines : jLines'[l] <= IF l[1] \in ToCome' THEN jRuns' - 1 ELSE jRuns'
  <2>1. \A l \in Lines : jLines[l] <= jRuns /\ jLines[l] \in 0..MaxImports /\ jRuns \in 0..MaxImports
    BY <1>5 DEF JsonInv, JsonTypeOK
  <2> QED BY <1>3, <2>1, JsonAssumption
<1>7. \A i \in jproc'.file \ (ToCome' \cup jproc'.erreurs) : Complete(i)'
  BY <1>2, <1>5
<1>8. ImportedWhole' /\ AggregatesBehind'
  BY <1>3 DEF JsonInv, ImportedWhole, AggregatesBehind, LinesWith
<1> QED BY <1>2, <1>4, <1>6, <1>7, <1>8 DEF JsonInv

LEMMA ImportFactureStep ==
    ASSUME JsonTypeOK, JsonInv, ImportFacture
    PROVE  JsonTypeOK' /\ JsonInv'
<1>1. PICK i \in jproc.todo :
        /\ jRow' = jRow \cup {i}
        /\ jproc' = [jproc EXCEPT !.pc = "lignes", !.todo = jproc.todo \ {i}, !.on = i]
  BY DEF ImportFacture
<1>2. jproc.pc = "facture" /\ UNCHANGED <<jLines, jSum, jRuns, jDone>>
  BY DEF ImportFacture
<1>3. /\ jproc' \in Process /\ jproc'.pc = "lignes" /\ jproc'.file = jproc.file
      /\ jproc'.todo = jproc.todo \ {i} /\ jproc'.on = i /\ jproc'.bad = jproc.bad
      /\ jproc'.erreurs = jproc.erreurs
  BY <1>1, ProcessTypes DEF Process
<1>4. i \in Bills /\ i \in jproc.file
  BY ProcessTypes DEF JsonTypeOK
<1>5. JsonTypeOK'
  BY <1>1, <1>2, <1>3, <1>4 DEF JsonTypeOK
<1>6. ToCome' = ToCome
  BY <1>2, <1>3 DEF ToCome
<1>7. \A j \in jproc'.file \ (ToCome' \cup jproc'.erreurs) : Complete(j)'
  BY <1>1, <1>2, <1>3, <1>6 DEF JsonInv, Complete
<1>8. ImportedWhole' /\ AggregatesBehind'
  BY <1>1, <1>2 DEF JsonInv, ImportedWhole, AggregatesBehind, LinesWith
<1>9. \A l \in Lines : jLines'[l] <= IF l[1] \in ToCome' THEN jRuns' - 1 ELSE jRuns'
  BY <1>2, <1>6 DEF JsonInv
<1>10. jproc'.on \in (jproc'.file \cap jRow') \ jproc'.todo
  BY <1>1, <1>3, <1>4
<1> QED BY <1>3, <1>5, <1>7, <1>8, <1>9, <1>10 DEF JsonInv

(* All the lines of the current invoice, or none. *)
LEMMA ImportLignesStep ==
    ASSUME JsonTypeOK, JsonInv, ImportLignes
    PROVE  JsonTypeOK' /\ JsonInv'
<1>1. PICK i \in Bills : i = jproc.on /\ i \in jproc.file /\ i \in jRow /\ i \notin jproc.todo
  BY ProcessTypes DEF JsonInv, ImportLignes
<1> DEFINE failed == i \in jproc.bad
<1>2. /\ jproc.pc = "lignes" /\ UNCHANGED <<jRow, jSum, jRuns, jDone>>
      /\ jLines' = [l \in Lines |-> IF l[1] = i /\ ~failed THEN jLines[l] + 1 ELSE jLines[l]]
      /\ jproc' = [jproc EXCEPT !.pc = "facture",
                                !.erreurs = IF failed THEN jproc.erreurs \cup {i} ELSE jproc.erreurs]
  BY <1>1 DEF ImportLignes
<1>3. /\ jproc' \in Process /\ jproc'.pc = "facture" /\ jproc'.file = jproc.file
      /\ jproc'.todo = jproc.todo /\ jproc'.bad = jproc.bad
      /\ jproc'.erreurs = IF failed THEN jproc.erreurs \cup {i} ELSE jproc.erreurs
  BY <1>2, ProcessTypes DEF Process
<1>4. ToCome = jproc.todo \cup {i} /\ ToCome' = jproc.todo
  BY <1>1, <1>2, <1>3 DEF ToCome
<1>5. ASSUME NEW l \in Lines
      PROVE  /\ jLines[l] \in Nat /\ jLines'[l] \in Nat /\ jLines[l] <= jLines'[l]
             /\ l[1] = i /\ ~failed => jLines'[l] = jLines[l] + 1
             /\ ~(l[1] = i /\ ~failed) => jLines'[l] = jLines[l]
             /\ jLines'[l] <= IF l[1] \in ToCome' THEN jRuns' - 1 ELSE jRuns'
             /\ jLines'[l] <= jRuns
  <2>1. jLines[l] \in Nat /\ jRuns \in Nat
    BY JsonAssumption DEF JsonTypeOK
  <2>2. jLines[l] <= IF l[1] \in ToCome THEN jRuns - 1 ELSE jRuns
    BY DEF JsonInv
  <2>3. jLines'[l] = IF l[1] = i /\ ~failed THEN jLines[l] + 1 ELSE jLines[l]
    BY <1>2
  <2>4. CASE l[1] = i
    <3>1. l[1] \in ToCome /\ l[1] \notin ToCome'
      BY <1>1, <1>4, <2>4
    <3> QED BY <1>2, <2>1, <2>2, <2>3, <2>4, <3>1
  <2>5. CASE l[1] # i
    <3>1. l[1] \in ToCome <=> l[1] \in ToCome'
      BY <1>4, <2>5
    <3> QED BY <1>2, <2>1, <2>2, <2>3, <2>5, <3>1
  <2> QED BY <2>4, <2>5
<1>6. jLines' \in [Lines -> 0..MaxImports]
  <2>1. \A l \in Lines : jLines'[l] \in 0..MaxImports
    BY <1>5, JsonAssumption DEF JsonTypeOK
  <2> QED BY <1>2, <2>1
<1>7. JsonTypeOK'
  BY <1>2, <1>3, <1>6 DEF JsonTypeOK
<1>8. ASSUME NEW j \in jproc'.file \ (ToCome' \cup jproc'.erreurs) PROVE Complete(j)'
  <2>1. j \in Bills /\ \A p \in Places : <<j, p>> \in Lines /\ <<j, p>>[1] = j
    BY <1>3, ProcessTypes DEF Lines
  <2>2. CASE j = i
    <3>1. ~failed
      BY <1>3, <1>8, <2>2
    <3>2. \A p \in Places : jLines'[<<j, p>>] > 0
      BY <1>5, <2>1, <2>2, <3>1
    <3> QED BY <1>1, <1>2, <2>2, <3>2 DEF Complete
  <2>3. CASE j # i
    <3>1. Complete(j)
      BY <1>3, <1>4, <1>8, <2>3 DEF JsonInv
    <3>2. \A p \in Places : jLines'[<<j, p>>] > 0
      BY <1>5, <2>1, <3>1 DEF Complete
    <3> QED BY <1>2, <3>1, <3>2 DEF Complete
  <2> QED BY <2>2, <2>3
<1>9. ImportedWhole'
  <2> SUFFICES ASSUME NEW j \in Bills
               PROVE  /\ j \in jDone => j \in jRow /\ \A p \in Places : jLines'[<<j, p>>] > 0
                      /\ \A p, q \in Places : jLines'[<<j, p>>] = jLines'[<<j, q>>]
    BY <1>2 DEF ImportedWhole
  <2>1. \A p \in Places : <<j, p>> \in Lines /\ <<j, p>>[1] = j
    BY DEF Lines
  <2>2. j \in jDone => j \in jRow /\ \A p \in Places : jLines[<<j, p>>] > 0
    BY DEF JsonInv, ImportedWhole
  <2>3. j \in jDone => \A p \in Places : jLines'[<<j, p>>] > 0
    BY <1>5, <2>1, <2>2
  <2>4. \A p, q \in Places : jLines[<<j, p>>] = jLines[<<j, q>>]
    BY DEF JsonInv, ImportedWhole
  <2>5. ASSUME NEW p \in Places, NEW q \in Places PROVE jLines'[<<j, p>>] = jLines'[<<j, q>>]
    BY <1>5, <2>1, <2>4
  <2> QED BY <2>2, <2>3, <2>5
<1>10. AggregatesBehind'
  BY <1>2, <1>5, <1>7, AggregatesStayBehind
<1> QED BY <1>3, <1>5, <1>7, <1>8, <1>9, <1>10 DEF JsonInv

LEMMA RecalculerStep ==
    ASSUME JsonTypeOK, JsonInv, RecalculerAgregats
    PROVE  JsonTypeOK' /\ JsonInv'
<1>1. /\ jproc.pc = "facture" /\ jproc.todo = {} /\ jproc' = JIdle
      /\ jSum' = [p \in Places |-> LinesWith(p)]
      /\ jDone' = jDone \cup (jproc.file \ jproc.erreurs)
      /\ UNCHANGED <<jRow, jLines, jRuns>>
  BY DEF RecalculerAgregats
<1>2. ToCome = {} /\ ToCome' = {}
  BY <1>1, JIdleType DEF ToCome
<1>3. \A p \in Places : jSum'[p] = LinesWith(p) /\ LinesWith(p)' = LinesWith(p) /\ LinesWith(p) \in Nat
  BY <1>1, LinesWithType DEF LinesWith
<1>4. JsonTypeOK'
  BY <1>1, <1>3, JIdleType, ProcessTypes DEF JsonTypeOK
<1>5. \A i \in jproc.file \ jproc.erreurs : Complete(i)
  BY <1>2 DEF JsonInv
<1>6. ImportedWhole'
  BY <1>1, <1>5 DEF JsonInv, ImportedWhole, Complete
<1>7. AggregatesBehind'
  BY <1>3 DEF AggregatesBehind
<1>8. \A l \in Lines : jLines'[l] <= IF l[1] \in ToCome' THEN jRuns' - 1 ELSE jRuns'
  BY <1>1, <1>2 DEF JsonInv
<1> QED BY <1>1, <1>4, <1>6, <1>7, <1>8, JIdleType DEF JsonInv

LEMMA ImportDiesStep ==
    ASSUME JsonTypeOK, JsonInv, ImportDies
    PROVE  JsonTypeOK' /\ JsonInv'
<1>1. jproc' = JIdle /\ UNCHANGED <<jRow, jLines, jSum, jRuns, jDone>>
  BY DEF ImportDies
<1>2. JsonTypeOK'
  BY <1>1, JIdleType DEF JsonTypeOK
<1>3. ToCome' = {}
  BY <1>1, JIdleType DEF ToCome
<1>4. \A l \in Lines : jLines'[l] <= jRuns'
  <2>1. \A l \in Lines : jLines[l] \in Nat /\ jRuns \in Nat
    BY JsonAssumption DEF JsonTypeOK
  <2>2. \A l \in Lines : jLines[l] <= IF l[1] \in ToCome THEN jRuns - 1 ELSE jRuns
    BY DEF JsonInv
  <2> QED BY <1>1, <2>1, <2>2
<1>5. ImportedWhole' /\ AggregatesBehind'
  BY <1>1 DEF JsonInv, ImportedWhole, AggregatesBehind, LinesWith
<1> QED BY <1>1, <1>2, <1>3, <1>4, <1>5, JIdleType DEF JsonInv

LEMMA JsonStart == JsonInit => JsonTypeOK /\ JsonInv
<1> SUFFICES ASSUME JsonInit PROVE JsonTypeOK /\ JsonInv
  OBVIOUS
<1>1. JsonTypeOK
  BY JIdleType, JsonAssumption DEF JsonInit, JsonTypeOK
<1>2. ToCome = {}
  BY JIdleType DEF ToCome, JsonInit
<1>3. \A l \in Lines : jLines[l] = 0 /\ jRuns = 0
  BY DEF JsonInit
<1>4. ImportedWhole
  <2>1. \A i \in Bills, p \in Places : <<i, p>> \in Lines
    BY DEF Lines
  <2> QED BY <1>3, <2>1 DEF JsonInit, ImportedWhole
<1>5. AggregatesBehind
  <2>1. \A p \in Places : LinesWith(p) \in Nat /\ jSum[p] = 0
    BY <1>1, LinesWithType DEF JsonInit
  <2> QED BY <2>1 DEF AggregatesBehind
<1> QED BY <1>1, <1>2, <1>3, <1>4, <1>5, JIdleType DEF JsonInv, JsonInit

LEMMA JsonStepwise ==
    ASSUME JsonTypeOK, JsonInv, [JsonNext]_jsonVars
    PROVE  JsonTypeOK' /\ JsonInv'
<1>1. CASE JsonNext
  BY <1>1, StartImportStep, ImportFactureStep, ImportLignesStep, RecalculerStep, ImportDiesStep DEF JsonNext
<1>2. CASE UNCHANGED jsonVars
  <2>1. UNCHANGED <<jRow, jLines, jSum, jRuns, jDone, jproc>>
    BY <1>2 DEF jsonVars
  <2>2. JsonTypeOK'
    BY <2>1 DEF JsonTypeOK
  <2>3. JsonInv'
    BY <2>1 DEF JsonInv, ToCome, Complete, ImportedWhole, AggregatesBehind, LinesWith
  <2> QED BY <2>2, <2>3
<1> QED BY <1>1, <1>2

(* An invoice that a run did not report as an error is in the warehouse    *)
(* with every line, wherever runs before it died; no invoice is there in   *)
(* part; the aggregates never count more than the lines; and the units of  *)
(* a line near the amount of a pack are those of the pack                  *)
(* (etl/metro/import_to_db.py).                                            *)
THEOREM JsonStaysConsistent == JsonSpec => []JsonConsistent
<1>1. JsonInit => JsonTypeOK /\ JsonInv
  BY JsonStart
<1>2. (JsonTypeOK /\ JsonInv) /\ [JsonNext]_jsonVars => (JsonTypeOK /\ JsonInv)'
  BY JsonStepwise
<1>3. JsonTypeOK /\ JsonInv => JsonConsistent
  BY PacksOfAmounts DEF JsonInv, JsonConsistent
<1> QED BY <1>1, <1>2, <1>3, PTL DEF JsonSpec
-----------------------------------------------------------------------------
(***************************************************************************)
(* The purchases.  What a request under way relies on (ImportWork), and    *)
(* what two of them cannot both have done (ImportsApart).  Where invoices  *)
(* are kept a product bought stays bought, so that of two recalculations   *)
(* past their INSERT one inserted nothing; elsewhere, in turn, one alone   *)
(* deletes rows and those it has seen are those on record.                 *)
(***************************************************************************)
Purchased(p) == \E n \in InvoiceNos : p \in invoices[n].lines
Todo == UNION {[D -> Content] : D \in SUBSET InvoiceNos}
ImportPcs == {"idle", "look", "delete", "insert", "start", "load rows", "sort", "ean", "sync", "product"} \cup Recalculating
ImportRequest == [pc : ImportPcs, op : {"none", "import", "recalculate", "ean", "sync"},
                  todo : Todo,
                  on : InvoiceNos, seen : Nat, gone : SUBSET Nat, new : [InvoiceNos -> InvoiceRow],
                  rows : SUBSET (Products \X Nat), aggs : [Products -> Aggregate], left : SUBSET Products]

(* Rows of aggregates, and those no recalculation has inserted. *)
Proper(f) == \A p \in Products : IF f[p].run = 0 THEN f[p] = NoAggregate ELSE f[p].n > 0
Empty(f) == \A p \in Products : f[p].run = 0

ImportState ==
    /\ keeps \in BOOLEAN /\ inTurn \in BOOLEAN /\ owed \in BOOLEAN
    /\ invoices \in [InvoiceNos -> InvoiceRow] /\ lastInvoice \in 0..MaxInvoices
    /\ \A n \in InvoiceNos : invoices[n].id = 0 => invoices[n].lines = {}
    /\ aggregates \in [Products -> Aggregate] /\ Proper(aggregates)
    /\ lastRun \in 0..MaxRuns /\ \A p \in Products : aggregates[p].run <= lastRun
    /\ keeps => \A p \in Products : aggregates[p].run # 0 => Purchased(p) /\ aggregates[p].sorted
    /\ dims \in [DimKeys -> Nat] /\ LinkedProductExists

InvoiceWork(q) ==
    /\ q.pc \in {"delete", "insert"} => q.on \in DOMAIN q.todo
    /\ q.pc \notin {"look", "delete", "insert"} => \A n \in InvoiceNos : q.new[n].id = 0
    /\ keeps => /\ q.pc \notin {"delete", "load rows", "sort"} /\ q.gone = {}
                /\ \A n \in InvoiceNos : q.new[n].id # 0 => invoices[n].id = 0
RowsWork(q) ==
    /\ q.pc \in Recalculating =>
          /\ \A x \in q.rows : x[2] <= lastRun
          /\ inTurn => q.rows = RowsOf(aggregates)
          /\ keeps => \A x \in q.rows : Purchased(x[1])
    /\ q.pc = "commit rows" =>
          /\ Proper(q.aggs)
          /\ \A p \in Products : /\ q.aggs[p].link = "none" /\ q.aggs[p].run <= lastRun
                                 /\ keeps /\ q.aggs[p].run # 0 =>
                                       /\ Purchased(p) /\ q.aggs[p].sorted
                                       /\ aggregates[p].run # q.aggs[p].run
          /\ keeps => \A x \in q.rows : q.aggs[x[1]].run # 0
SyncWork(q) ==
    /\ q.pc = "sync" => q.rows = {}
    /\ q.pc = "product" =>
          /\ Proper(q.aggs) /\ \A x \in q.rows : q.aggs[x[1]].run # 0
          /\ \A p \in Products : q.aggs[p].run # 0 => p \in q.left \/ \E x \in q.rows : x[1] = p
          /\ \A p \in q.left : q.aggs[p].run # 0
ImportWork(q) == InvoiceWork(q) /\ RowsWork(q) /\ SyncWork(q)

ImportsApart(q, o) ==
    /\ \A n \in InvoiceNos : q.new[n].id = 0 \/ o.new[n].id = 0
    /\ inTurn => q.pc \notin Recalculating \/ o.pc \notin Recalculating
    /\ keeps /\ o.pc = "commit rows" =>
          /\ q.pc \in Recalculating => \A p \in Products : o.aggs[p].run # 0 => <<p, o.aggs[p].run>> \notin q.rows
          /\ q.pc = "commit rows" => Empty(q.aggs) \/ Empty(o.aggs)

(* A row without a category is one that some request will sort, and a      *)
(* count that is not up to date is one that some request will replace.     *)
Sorts(q, x) == q.pc = "load rows" \/ (q.pc = "sort" /\ x \in q.rows /\ q.rows \subseteq RowsOf(aggregates))
SortedInTime ==
    ~owed => \A x \in RowsOf(aggregates) : aggregates[x[1]].sorted \/ \E r \in Workers : Sorts(areq[r], x)
WillCount(q) == q.pc \in {"start", "delete rows", "insert rows"}
HasCounted(q) == q.pc = "commit rows" /\ \A p \in Products : q.aggs[p].n = Purchases(p)
Counted ==
    /\ \A p \in Products : aggregates[p].n = Purchases(p)
    /\ \A r \in Workers : areq[r].pc = "commit rows" => Empty(areq[r].aggs) /\ areq[r].rows = {}
CountedInTime == ~owed /\ (keeps \/ inTurn) => Counted \/ \E r \in Workers : WillCount(areq[r]) \/ HasCounted(areq[r])

ImportInv ==
    /\ ImportState /\ areq \in [Workers -> ImportRequest]
    /\ \A r \in Workers : ImportWork(areq[r])
    /\ \A r, o \in Workers : r # o => ImportsApart(areq[r], areq[o])
    /\ SortedInTime /\ CountedInTime

LEMMA ImportTypes ==
    /\ AIdle \in ImportRequest /\ AIdle.pc = "idle" /\ AIdle.todo = <<>> /\ AIdle.gone = {}
    /\ AIdle.rows = {} /\ AIdle.left = {} /\ \A n \in InvoiceNos : AIdle.new[n].id = 0
    /\ NoRow \in InvoiceRow /\ NoAggregate \in Aggregate /\ NoAggregate.run = 0 /\ NoAggregate.n = 0
    /\ NoAggregate.link = "none" /\ NoRow.id = 0 /\ NoRow.lines = {}
<1>1. <<>> \in [{} -> Content]
  OBVIOUS
<1>2. <<>> \in Todo
  BY <1>1 DEF Todo
<1>3. (CHOOSE n \in InvoiceNos : TRUE) \in InvoiceNos
  BY ImportsAssumption
<1>4. NoRow \in InvoiceRow /\ NoRow.id = 0 /\ NoRow.lines = {}
  BY ImportsAssumption DEF NoRow, InvoiceRow
<1>5. /\ NoAggregate \in Aggregate /\ NoAggregate.run = 0 /\ NoAggregate.n = 0
      /\ NoAggregate.link = "none"
  BY ImportsAssumption, FS_CardinalityType DEF NoAggregate, Aggregate
<1>6. /\ [n \in InvoiceNos |-> NoRow] \in [InvoiceNos -> InvoiceRow]
      /\ [p \in Products |-> NoAggregate] \in [Products -> Aggregate]
  BY <1>4, <1>5
<1> QED BY <1>2, <1>3, <1>4, <1>5, <1>6 DEF AIdle, ImportRequest, ImportPcs

LEMMA AggregateFields ==
    ASSUME NEW a \in Aggregate
    PROVE  a.run \in 0..MaxRuns /\ a.n \in Nat /\ a.ean \in BOOLEAN /\ a.sorted \in BOOLEAN
BY FS_CardinalityType, ImportsAssumption DEF Aggregate

LEMMA TodoLess ==
    ASSUME NEW f \in Todo
    PROVE  /\ DOMAIN f \subseteq InvoiceNos /\ \A n \in DOMAIN f : f[n] \in Content
           /\ \A n : [m \in DOMAIN f \ {n} |-> f[m]] \in Todo
<1>1. PICK N \in SUBSET InvoiceNos : f \in [N -> Content]
  BY DEF Todo
<1>2. ASSUME NEW n PROVE [m \in DOMAIN f \ {n} |-> f[m]] \in Todo
  <2>1. [m \in N \ {n} |-> f[m]] \in [N \ {n} -> Content] /\ DOMAIN f = N
    BY <1>1
  <2> QED BY <2>1 DEF Todo
<1> QED BY <1>1, <1>2

(* A number of invoices that name a product is 0 if none does. *)
LEMMA PurchaseCount ==
    ASSUME NEW p \in Products
    PROVE  Purchases(p) \in 0..Cardinality(InvoiceNos) /\ (Purchases(p) = 0 <=> ~Purchased(p))
<1> DEFINE S == {n \in InvoiceNos : p \in invoices[n].lines}
<1>1. IsFiniteSet(S) /\ Cardinality(S) \in Nat /\ Cardinality(S) <= Cardinality(InvoiceNos)
      /\ Cardinality(InvoiceNos) \in Nat
  BY FS_Subset, FS_CardinalityType, ImportsAssumption
<1>2. Cardinality(S) = 0 <=> S = {}
  BY <1>1, FS_EmptySet
<1> QED BY <1>1, <1>2 DEF Purchases, Purchased

LEMMA RowFacts ==
    ASSUME NEW f
    PROVE  /\ \A y \in RowsOf(f) : /\ y[1] \in Products /\ f[y[1]].run # 0
                                   /\ y = <<y[1], f[y[1]].run>> /\ y[2] = f[y[1]].run
           /\ \A p \in Products : \A k : <<p, k>> \in RowsOf(f) <=> k # 0 /\ f[p].run = k
<1>1. ASSUME NEW y \in RowsOf(f)
      PROVE  /\ y[1] \in Products /\ f[y[1]].run # 0
             /\ y = <<y[1], f[y[1]].run>> /\ y[2] = f[y[1]].run
  <2>1. PICK p \in Products : f[p].run # 0 /\ y = <<p, f[p].run>>
    BY <1>1 DEF RowsOf
  <2> QED BY <2>1
<1>2. ASSUME NEW p \in Products, NEW k PROVE <<p, k>> \in RowsOf(f) <=> k # 0 /\ f[p].run = k
  BY DEF RowsOf
<1> QED BY <1>1, <1>2

LEMMA SameRows ==
    ASSUME NEW f, NEW g, \A p \in Products : f[p].run = g[p].run
    PROVE  RowsOf(f) = RowsOf(g)
<1>1. {p \in Products : f[p].run # 0} = {p \in Products : g[p].run # 0}
  OBVIOUS
<1>2. \A p \in {s \in Products : g[s].run # 0} : <<p, f[p].run>> = <<p, g[p].run>>
  OBVIOUS
<1> QED BY <1>1, <1>2 DEF RowsOf

LEMMA RowsStay ==
    ASSUME NEW q \in ImportRequest, RowsWork(q), keeps' = keeps, lastRun' = lastRun, inTurn' => inTurn,
           \A p \in Products : aggregates'[p].run = aggregates[p].run /\ Purchased(p)' = Purchased(p)
    PROVE  RowsWork(q)'
<1>1. \A y \in q.rows : y[1] \in Products
  BY DEF ImportRequest
<1>2. q.pc \in Recalculating =>
         /\ \A y \in q.rows : y[2] <= lastRun
         /\ inTurn' => q.rows = RowsOf(aggregates')
         /\ keeps => \A y \in q.rows : Purchased(y[1])'
  BY <1>1, SameRows DEF RowsWork
<1>3. q.pc = "commit rows" =>
         /\ Proper(q.aggs)
         /\ \A p \in Products : /\ q.aggs[p].link = "none" /\ q.aggs[p].run <= lastRun
                                /\ keeps /\ q.aggs[p].run # 0 =>
                                      /\ Purchased(p)' /\ q.aggs[p].sorted
                                      /\ aggregates'[p].run # q.aggs[p].run
         /\ keeps => \A y \in q.rows : q.aggs[y[1]].run # 0
  BY DEF RowsWork
<1> QED BY <1>2, <1>3 DEF RowsWork

(* A step of one request that leaves the invoices and the runs alone and   *)
(* changes aggregates only in their links, EANs and categories.            *)
LEMMA ALocal ==
    ASSUME ImportInv, NEW r \in Workers, NEW x \in ImportRequest,
           areq' = [areq EXCEPT ![r] = x],
           keeps' = keeps, invoices' = invoices, lastRun' = lastRun, lastInvoice' \in 0..MaxInvoices,
           inTurn' \in BOOLEAN, inTurn' => inTurn, owed' \in BOOLEAN, owed => owed',
           aggregates' \in [Products -> Aggregate],
           \A p \in Products : /\ aggregates'[p].run = aggregates[p].run
                               /\ aggregates'[p].n = aggregates[p].n
                               /\ aggregates[p].sorted => aggregates'[p].sorted
                               /\ aggregates[p].run = 0 => aggregates'[p] = aggregates[p],
           dims' \in [DimKeys -> Nat], LinkedProductExists',
           ImportWork(x), x.pc # "commit rows",
           \A o \in Workers \ {r} :
              /\ \A n \in InvoiceNos : x.new[n].id = 0 \/ areq[o].new[n].id = 0
              /\ inTurn' /\ x.pc \in Recalculating => areq[o].pc \notin Recalculating
              /\ keeps /\ areq[o].pc = "commit rows" /\ x.pc \in Recalculating =>
                    \A p \in Products : areq[o].aggs[p].run # 0 => <<p, areq[o].aggs[p].run>> \notin x.rows,
           owed' \/ /\ areq[r].pc # "commit rows" /\ (WillCount(areq[r]) => WillCount(x))
                    /\ \A y \in RowsOf(aggregates) : Sorts(areq[r], y) => aggregates'[y[1]].sorted \/ Sorts(x, y)
    PROVE  ImportInv'
<1>1. areq' \in [Workers -> ImportRequest] /\ areq'[r] = x /\ \A o \in Workers : o # r => areq'[o] = areq[o]
  BY DEF ImportInv
<1>2. RowsOf(aggregates') = RowsOf(aggregates)
  BY SameRows
<1>3. \A p \in Products : Purchases(p)' = Purchases(p) /\ Purchased(p)' = Purchased(p)
  BY DEF Purchases, Purchased
<1>4. ImportState'
  <2>1. Proper(aggregates')
    BY DEF ImportInv, ImportState, Proper
  <2> QED BY <1>3, <2>1 DEF ImportInv, ImportState
<1>5. \A q \in ImportRequest : ImportWork(q) => ImportWork(q)'
  <2>1. \A q \in ImportRequest : InvoiceWork(q) => InvoiceWork(q)'
    BY DEF InvoiceWork
  <2>2. \A q \in ImportRequest : RowsWork(q) => RowsWork(q)'
    BY <1>3, RowsStay
  <2>3. \A q \in ImportRequest : SyncWork(q) => SyncWork(q)'
    BY DEF SyncWork
  <2> QED BY <2>1, <2>2, <2>3 DEF ImportWork
<1>6. \A o \in Workers : ImportWork(areq[o])'
  BY <1>1, <1>5 DEF ImportInv
<1>7. ASSUME NEW p \in Workers, NEW o \in Workers, p # o PROVE ImportsApart(areq[p], areq[o])'
  <2>1. CASE p = r
    BY <1>1, <1>7, <2>1 DEF ImportsApart
  <2>2. CASE o = r
    BY <1>1, <1>7, <2>2 DEF ImportsApart
  <2>3. CASE p # r /\ o # r
    <3>1. ImportsApart(areq[p], areq[o])
      BY <1>7 DEF ImportInv
    <3> QED BY <1>1, <2>3, <3>1 DEF ImportsApart
  <2> QED BY <2>1, <2>2, <2>3
<1>8. SortedInTime'
  <2> SUFFICES ASSUME ~owed', NEW y \in RowsOf(aggregates)
               PROVE  aggregates'[y[1]].sorted \/ \E o \in Workers : Sorts(areq[o], y)'
    BY <1>2 DEF SortedInTime
  <2>1. CASE aggregates[y[1]].sorted
    <3>1. y[1] \in Products
      BY RowFacts
    <3> QED BY <2>1, <3>1
  <2>2. CASE \E o \in Workers : Sorts(areq[o], y)
    <3>1. PICK o \in Workers : Sorts(areq[o], y)
      BY <2>2
    <3>2. Sorts(areq'[o], y) => Sorts(areq[o], y)'
      BY <1>2 DEF Sorts
    <3> QED BY <1>1, <3>1, <3>2
  <2> QED BY <2>1, <2>2 DEF ImportInv, SortedInTime
<1>9. CountedInTime'
  <2> SUFFICES ASSUME ~owed', keeps \/ inTurn'
               PROVE  Counted' \/ \E o \in Workers : WillCount(areq'[o]) \/ HasCounted(areq[o])'
    BY DEF CountedInTime, WillCount
  <2>1. CASE Counted
    <3>1. \A p \in Products : aggregates'[p].n = Purchases(p)'
      BY <1>3, <2>1 DEF Counted
    <3>2. \A o \in Workers : areq'[o].pc = "commit rows" => Empty(areq'[o].aggs) /\ areq'[o].rows = {}
      BY <1>1, <2>1 DEF Counted
    <3> QED BY <3>1, <3>2 DEF Counted
  <2>2. CASE \E o \in Workers : WillCount(areq[o])
    BY <1>1, <2>2
  <2>3. CASE \E o \in Workers : HasCounted(areq[o])
    <3>1. PICK o \in Workers : HasCounted(areq[o])
      BY <2>3
    <3>2. o # r
      BY <3>1 DEF HasCounted
    <3>3. HasCounted(areq[o])'
      <4>1. areq'[o] = areq[o]
        BY <1>1, <3>2
      <4>2. areq[o].pc = "commit rows" /\ \A p \in Products : areq[o].aggs[p].n = Purchases(p)'
        BY <1>3, <3>1 DEF HasCounted
      <4> QED BY <4>1, <4>2 DEF HasCounted
    <3> QED BY <3>3
  <2> QED BY <2>1, <2>2, <2>3 DEF ImportInv, CountedInTime
<1> QED BY <1>1, <1>4, <1>6, <1>7, <1>8, <1>9 DEF ImportInv

(* A request that ends, or is cut off. *)
LEMMA AEnds ==
    ASSUME ImportInv, NEW r \in Workers, AEnd(r),
           UNCHANGED <<keeps, invoices, lastRun, lastInvoice, inTurn>>, owed' \in BOOLEAN, owed => owed',
           aggregates' \in [Products -> Aggregate],
           \A p \in Products : /\ aggregates'[p].run = aggregates[p].run
                               /\ aggregates'[p].n = aggregates[p].n
                               /\ aggregates[p].sorted => aggregates'[p].sorted
                               /\ aggregates[p].run = 0 => aggregates'[p] = aggregates[p],
           dims' \in [DimKeys -> Nat], LinkedProductExists',
           owed' \/ /\ areq[r].pc # "commit rows" /\ ~WillCount(areq[r])
                    /\ \A y \in RowsOf(aggregates) : Sorts(areq[r], y) => aggregates'[y[1]].sorted
    PROVE  ImportInv'
<1>1. PICK x \in ImportRequest : x = AIdle
  BY ImportTypes
<1>2. x.pc = "idle" /\ x.gone = {} /\ \A n \in InvoiceNos : x.new[n].id = 0
  BY <1>1, ImportTypes
<1>3. ImportWork(x)
  BY <1>2 DEF ImportWork, InvoiceWork, RowsWork, SyncWork, Recalculating
<1>4. areq' = [areq EXCEPT ![r] = x] /\ x.pc \notin Recalculating \cup {"commit rows"}
  BY <1>1, <1>2 DEF AEnd, ABecome, Recalculating
<1>5. lastInvoice' \in 0..MaxInvoices /\ inTurn' \in BOOLEAN
  BY DEF ImportInv, ImportState
<1> QED BY <1>2, <1>3, <1>4, <1>5, ALocal

(* A request that fails leaves everything as it was; it was not to count   *)
(* or to sort every row.                                                   *)
LEMMA AFails ==
    ASSUME ImportInv, NEW r \in Workers, AEnd(r),
           UNCHANGED <<keeps, importDb, inTurn>>, owed' \in BOOLEAN, owed => owed',
           owed' \/ /\ areq[r].pc # "commit rows" /\ ~WillCount(areq[r])
                    /\ \A y \in RowsOf(aggregates) : ~Sorts(areq[r], y)
    PROVE  ImportInv'
<1>1. /\ UNCHANGED <<keeps, invoices, lastRun, lastInvoice, inTurn>>
      /\ aggregates' \in [Products -> Aggregate] /\ aggregates' = aggregates
      /\ dims' \in [DimKeys -> Nat] /\ LinkedProductExists'
  BY DEF ImportInv, ImportState, importDb, LinkedProductExists
<1> QED BY <1>1, AEnds

(* A request goes on to x, which has done nothing to the aggregates. *)
LEMMA AGoesOn ==
    ASSUME ImportInv, NEW r \in Workers, NEW x \in ImportRequest, ABecome(r, x), AKeep,
           ImportWork(x), x.pc \notin Recalculating, areq[r].pc # "commit rows",
           x.new = areq[r].new \/ \A n \in InvoiceNos : x.new[n].id = 0,
           WillCount(areq[r]) => WillCount(x),
           \A y \in RowsOf(aggregates) : Sorts(areq[r], y) => Sorts(x, y)
    PROVE  ImportInv'
<1>1. /\ UNCHANGED <<keeps, invoices, lastRun, lastInvoice, inTurn, owed>>
      /\ aggregates' \in [Products -> Aggregate] /\ aggregates' = aggregates
      /\ dims' \in [DimKeys -> Nat] /\ LinkedProductExists'
      /\ lastInvoice' \in 0..MaxInvoices /\ inTurn' \in BOOLEAN /\ owed' \in BOOLEAN
  BY DEF ImportInv, ImportState, AKeep, importDb, importHistory, LinkedProductExists
<1>2. \A o \in Workers \ {r}, n \in InvoiceNos : x.new[n].id = 0 \/ areq[o].new[n].id = 0
  <2>1. \A o \in Workers \ {r} : ImportsApart(areq[r], areq[o])
    BY DEF ImportInv
  <2>2. \A o \in Workers \ {r}, n \in InvoiceNos : areq[r].new[n].id = 0 \/ areq[o].new[n].id = 0
    BY <2>1 DEF ImportsApart
  <2> QED BY <2>2
<1>3. areq' = [areq EXCEPT ![r] = x] /\ x.pc # "commit rows"
  BY DEF ABecome, Recalculating
<1> QED BY <1>1, <1>2, <1>3, ALocal

LEMMA AArrives ==
    ASSUME ImportInv, NEW r \in Workers, AArrive(r)
    PROVE  ImportInv'
<1>1. areq[r].pc = "idle" /\ AKeep
  BY DEF AArrive, Busy
<1>2. areq[r].pc # "commit rows" /\ ~WillCount(areq[r]) /\ \A y : ~Sorts(areq[r], y)
  BY <1>1 DEF WillCount, Sorts
<1>3. ASSUME NEW x \in ImportRequest, ABecome(r, x), x.pc \in {"look", "start", "ean", "sync"},
             x.gone = {}, x.rows = {}, \A n \in InvoiceNos : x.new[n].id = 0
      PROVE  ImportInv'
  <2>1. ImportWork(x) /\ x.pc \notin Recalculating
    BY <1>3 DEF ImportWork, InvoiceWork, RowsWork, SyncWork, Recalculating
  <2> QED BY <1>1, <1>2, <1>3, <2>1, AGoesOn
<1>4. CASE ImportFile(r)
  <2>1. PICK f \in Files : ABecome(r, [AIdle EXCEPT !.pc = "look", !.op = "import", !.todo = f])
    BY <1>4 DEF ImportFile
  <2>2. f \in Todo
    BY ImportsAssumption DEF Todo
  <2>3. PICK x : x = [AIdle EXCEPT !.pc = "look", !.op = "import", !.todo = f]
    OBVIOUS
  <2>4. /\ x \in ImportRequest /\ x.pc = "look" /\ x.gone = {} /\ x.rows = {}
        /\ \A n \in InvoiceNos : x.new[n].id = 0
    BY <2>2, <2>3, ImportTypes DEF ImportRequest, ImportPcs
  <2> QED BY <1>3, <2>1, <2>3, <2>4
<1>5. CASE Recalculate(r)
  <2>1. PICK x : x = [AIdle EXCEPT !.pc = "start", !.op = "recalculate"]
    OBVIOUS
  <2>2. /\ x \in ImportRequest /\ x.pc = "start" /\ x.gone = {} /\ x.rows = {}
        /\ \A n \in InvoiceNos : x.new[n].id = 0
    BY <2>1, ImportTypes DEF ImportRequest, ImportPcs
  <2> QED BY <1>3, <1>5, <2>1, <2>2 DEF Recalculate
<1>6. CASE UpdateProductEan(r)
  <2>1. PICK p \in Products, e \in {0, 1} :
             ABecome(r, [AIdle EXCEPT !.pc = "ean", !.op = "ean", !.left = {p}, !.seen = e,
                                      !.aggs[p].run = aggregates[p].run])
    BY <1>6 DEF UpdateProductEan
  <2>2. PICK g \in [Products -> Aggregate] : g = [AIdle.aggs EXCEPT ![p].run = aggregates[p].run]
    <3>1. AIdle.aggs \in [Products -> Aggregate] /\ aggregates[p].run \in 0..MaxRuns
      BY ImportTypes DEF ImportInv, ImportState, ImportRequest, Aggregate
    <3>2. [AIdle.aggs[p] EXCEPT !.run = aggregates[p].run] \in Aggregate
      BY <3>1 DEF Aggregate
    <3>3. [AIdle.aggs EXCEPT ![p].run = aggregates[p].run] \in [Products -> Aggregate]
      BY <3>1, <3>2
    <3> QED BY <3>3
  <2>3. PICK x : x = [AIdle EXCEPT !.pc = "ean", !.op = "ean", !.left = {p}, !.seen = e, !.aggs = g]
    OBVIOUS
  <2>4. ABecome(r, x)
    BY <2>1, <2>2, <2>3, ImportTypes DEF ImportRequest, ABecome
  <2>5. /\ x \in ImportRequest /\ x.pc = "ean" /\ x.gone = {} /\ x.rows = {}
        /\ \A n \in InvoiceNos : x.new[n].id = 0
    <3>1. e \in Nat /\ {p} \in SUBSET Products
      OBVIOUS
    <3>2. /\ x.pc = "ean" /\ x.op = "ean" /\ x.left = {p} /\ x.seen = e /\ x.aggs = g
          /\ x.gone = {} /\ x.rows = {} /\ \A n \in InvoiceNos : x.new[n].id = 0
      BY <2>3, ImportTypes DEF ImportRequest
    <3>3. x \in ImportRequest
      BY <2>2, <2>3, <3>1, ImportTypes DEF ImportRequest, ImportPcs
    <3> QED BY <3>2, <3>3
  <2> QED BY <1>3, <2>4, <2>5
<1>7. CASE SyncToDimProduit(r)
  <2>1. PICK x : x = [AIdle EXCEPT !.pc = "sync", !.op = "sync"]
    OBVIOUS
  <2>2. /\ x \in ImportRequest /\ x.pc = "sync" /\ x.gone = {} /\ x.rows = {}
        /\ \A n \in InvoiceNos : x.new[n].id = 0
    BY <2>1, ImportTypes DEF ImportRequest, ImportPcs
  <2> QED BY <1>3, <1>7, <2>1, <2>2 DEF SyncToDimProduit
<1> QED BY <1>4, <1>5, <1>6, <1>7 DEF AArrive

LEMMA DoneRequest ==
    ASSUME NEW q \in ImportRequest, NEW n
    PROVE  /\ Done(q, n) \in ImportRequest /\ Done(q, n).pc = "look" /\ Done(q, n).gone = q.gone
           /\ Done(q, n).new = q.new
<1>1. [m \in DOMAIN q.todo \ {n} |-> q.todo[m]] \in Todo
  BY TodoLess DEF ImportRequest
<1> QED BY <1>1 DEF Done, ImportRequest, ImportPcs

(* Where the invoices are those of the file, a request looks up, deletes   *)
(* and skips; only the rows that it inserts may clash with others.         *)
LEMMA ALooks ==
    ASSUME ImportInv, NEW r \in Workers,
           (\E n \in InvoiceNos : LookUpInvoice(r, n)) \/ DeleteInvoice(r) \/ SkipInvoice(r)
    PROVE  ImportInv'
<1>1. PICK q \in ImportRequest : q = areq[r]
  BY DEF ImportInv
<1>2. q.pc \in {"look", "delete", "insert"} /\ AKeep /\ ImportWork(q)
  BY <1>1 DEF LookUpInvoice, DeleteInvoice, SkipInvoice, ImportInv
<1>3. areq[r].pc # "commit rows" /\ ~WillCount(areq[r]) /\ \A y : ~Sorts(areq[r], y)
  BY <1>1, <1>2 DEF WillCount, Sorts
<1>4. ASSUME NEW x \in ImportRequest, ABecome(r, x), x.new = q.new,
             x.pc \in {"look", "delete", "insert"},
             x.pc \in {"delete", "insert"} => x.on \in DOMAIN x.todo,
             keeps => x.pc # "delete" /\ x.gone = {}
      PROVE  ImportInv'
  <2>1. ImportWork(x) /\ x.pc \notin Recalculating
    BY <1>2, <1>4 DEF ImportWork, InvoiceWork, RowsWork, SyncWork, Recalculating
  <2> QED BY <1>1, <1>2, <1>3, <1>4, <2>1, AGoesOn
<1>5. ASSUME NEW n, ABecome(r, Done(q, n)) PROVE ImportInv'
  <2>1. PICK x \in ImportRequest : x = Done(q, n) /\ x.pc = "look" /\ x.gone = q.gone /\ x.new = q.new
    BY DoneRequest
  <2>2. keeps => x.gone = {}
    BY <1>2, <2>1 DEF ImportWork, InvoiceWork
  <2> QED BY <1>4, <1>5, <2>1, <2>2
<1>6. ASSUME NEW n \in InvoiceNos, LookUpInvoice(r, n) PROVE ImportInv'
  <2>1. q.pc = "look" /\ n \in DOMAIN q.todo /\ invoices[n].id \in Nat
    <3>1. invoices[n] \in InvoiceRow
      BY DEF ImportInv, ImportState
    <3>2. invoices[n].id \in 0..MaxInvoices
      BY <3>1 DEF InvoiceRow
    <3>3. invoices[n].id \in Nat
      BY <3>2, ImportsAssumption
    <3> QED BY <1>1, <1>6, <3>3 DEF LookUpInvoice
  <2>2. keeps => q.gone = {}
    BY <1>2 DEF ImportWork, InvoiceWork
  <2>3. CASE ABecome(r, Done(q, n))
    BY <1>5, <2>3
  <2>4. CASE ~keeps /\ ABecome(r, [q EXCEPT !.pc = "delete", !.on = n, !.seen = invoices[n].id])
    <3>1. PICK x : x = [q EXCEPT !.pc = "delete", !.on = n, !.seen = invoices[n].id]
      OBVIOUS
    <3>2. x \in ImportRequest /\ x.new = q.new /\ x.pc = "delete" /\ x.on \in DOMAIN x.todo
      BY <2>1, <3>1 DEF ImportRequest, ImportPcs
    <3> QED BY <1>4, <2>4, <3>1, <3>2
  <2>5. CASE ABecome(r, [q EXCEPT !.pc = "insert", !.on = n])
    <3>1. PICK x : x = [q EXCEPT !.pc = "insert", !.on = n]
      OBVIOUS
    <3>2. /\ x \in ImportRequest /\ x.new = q.new /\ x.pc = "insert" /\ x.on \in DOMAIN x.todo
          /\ x.gone = q.gone
      BY <2>1, <3>1 DEF ImportRequest, ImportPcs
    <3> QED BY <1>4, <2>2, <2>5, <3>1, <3>2
  <2> QED BY <1>1, <1>6, <2>3, <2>4, <2>5 DEF LookUpInvoice
<1>7. CASE DeleteInvoice(r)
  <2>1. q.pc = "delete" /\ ~keeps /\ q.on \in DOMAIN q.todo
    BY <1>1, <1>2, <1>7 DEF DeleteInvoice, ImportWork, InvoiceWork
  <2>2. PICK x : x = [q EXCEPT !.pc = "insert", !.gone = @ \cup ({q.seen} \cap {invoices[q.on].id})]
    OBVIOUS
  <2>3. ABecome(r, x)
    BY <1>1, <1>7, <2>2 DEF DeleteInvoice
  <2>4. q.gone \cup ({q.seen} \cap {invoices[q.on].id}) \in SUBSET Nat
    BY DEF ImportRequest
  <2>5. x \in ImportRequest /\ x.new = q.new /\ x.pc = "insert" /\ x.on \in DOMAIN x.todo
    BY <2>1, <2>2, <2>4 DEF ImportRequest, ImportPcs
  <2> QED BY <1>4, <2>1, <2>3, <2>5
<1>8. CASE SkipInvoice(r)
  BY <1>1, <1>5, <1>8 DEF SkipInvoice
<1> QED BY <1>6, <1>7, <1>8

LEMMA ADeadlocked ==
    ASSUME ImportInv, NEW r \in Workers, ADeadlock(r)
    PROVE  ImportInv'
<1>1. areq[r].pc \in {"delete", "insert"}
  BY DEF ADeadlock, WaitsFor
<1>2. areq[r].pc # "commit rows" /\ ~WillCount(areq[r]) /\ \A y : ~Sorts(areq[r], y)
  BY <1>1 DEF WillCount, Sorts
<1>3. AEnd(r) /\ UNCHANGED <<keeps, importDb, inTurn, owed>> /\ owed' \in BOOLEAN
  BY DEF ADeadlock, AFail, AKeep, importHistory, ImportInv, ImportState
<1> QED BY <1>2, <1>3, AFails

(* The unique number of an invoice is held by one request at a time, and   *)
(* one that keeps invoices has found it free.                              *)
LEMMA AInserts ==
    ASSUME ImportInv, NEW r \in Workers, InsertInvoice(r)
    PROVE  ImportInv'
<1>1. PICK q \in ImportRequest : q = areq[r]
  BY DEF ImportInv
<1>2. /\ q.pc = "insert" /\ q.on \in DOMAIN q.todo /\ ImportWork(q) /\ ~NumberHeld(r, q.on)
      /\ keeps => q.gone = {}
  BY <1>1 DEF InsertInvoice, ImportInv, ImportWork, InvoiceWork
<1>3. areq[r].pc # "commit rows" /\ ~WillCount(areq[r]) /\ \A y : ~Sorts(areq[r], y)
  BY <1>1, <1>2 DEF WillCount, Sorts
<1>4. CASE AFail(r)
  <2>1. AEnd(r) /\ UNCHANGED <<keeps, importDb, inTurn, owed>> /\ owed' \in BOOLEAN
    BY <1>4 DEF AFail, AKeep, importHistory, ImportInv, ImportState
  <2> QED BY <1>3, <2>1, AFails
<1>5. CASE ~AFail(r)
  <2>1. PICK n \in InvoiceNos : n = q.on /\ n \in DOMAIN q.todo /\ q.todo[n] \in Content
    BY <1>2, TodoLess DEF ImportRequest
  <2>2. PICK i \in 1..MaxInvoices : i = lastInvoice + 1
    BY <1>5, ImportsAssumption DEF InsertInvoice, ImportInv, ImportState
  <2>3. PICK L \in LinesRead(q.todo[n]) :
             ABecome(r, Done([q EXCEPT !.new[n] = [id |-> i, lines |-> L]], n))
    BY <1>1, <1>5, <2>1, <2>2 DEF InsertInvoice
  <2>4. /\ lastInvoice' = i /\ ~Duplicate(r, n)
        /\ UNCHANGED <<keeps, invoices, aggregates, lastRun, dims, importHistory>>
    BY <1>1, <1>5, <2>1, <2>2 DEF InsertInvoice
  <2>5. L \in SUBSET Products
    BY <2>1 DEF LinesRead, Content
  <2>6. PICK g \in [InvoiceNos -> InvoiceRow] : g = [q.new EXCEPT ![n] = [id |-> i, lines |-> L]]
    <3>1. [id |-> i, lines |-> L] \in InvoiceRow
      BY <2>5 DEF InvoiceRow
    <3> QED BY <3>1 DEF ImportRequest
  <2>7. PICK y : y = [q EXCEPT !.new = g]
    OBVIOUS
  <2>8. y \in ImportRequest /\ y.new = g /\ y.gone = q.gone /\ y = [q EXCEPT !.new[n] = [id |-> i, lines |-> L]]
    <3>1. y \in ImportRequest /\ y.new = g /\ y.gone = q.gone
      BY <2>7 DEF ImportRequest
    <3>2. [q EXCEPT !.new = [q.new EXCEPT ![n] = [id |-> i, lines |-> L]]]
             = [q EXCEPT !.new[n] = [id |-> i, lines |-> L]]
      BY DEF ImportRequest
    <3> QED BY <2>6, <2>7, <3>1, <3>2
  <2>9. PICK x \in ImportRequest : x = Done(y, n) /\ x.pc = "look" /\ x.gone = q.gone /\ x.new = g
    <3>1. /\ Done(y, n) \in ImportRequest /\ Done(y, n).pc = "look" /\ Done(y, n).gone = y.gone
          /\ Done(y, n).new = y.new
      BY <2>8, DoneRequest
    <3> QED BY <2>8, <3>1
  <2>10. areq' = [areq EXCEPT ![r] = x]
    BY <2>3, <2>8, <2>9 DEF ABecome
  <2>11. keeps => invoices[n].id = 0
    BY <1>1, <1>2, <2>4 DEF Duplicate
  <2>12. keeps => \A m \in InvoiceNos : x.new[m].id # 0 => invoices[m].id = 0
    BY <1>2, <2>6, <2>9, <2>11 DEF ImportWork, InvoiceWork, ImportRequest
  <2>13. ImportWork(x)
    BY <1>2, <2>9, <2>12 DEF ImportWork, InvoiceWork, RowsWork, SyncWork, Recalculating
  <2>14. ASSUME NEW o \in Workers \ {r}
         PROVE  \A m \in InvoiceNos : x.new[m].id = 0 \/ areq[o].new[m].id = 0
    <3>1. areq[o].new[n].id = 0
      <4>1. CASE areq[o].pc = "idle"
        BY <4>1 DEF ImportInv, ImportWork, InvoiceWork
      <4>2. CASE areq[o].pc # "idle"
        <5>1. areq[o] \in InProgress(areq, r)
          BY <4>2 DEF InProgress, Busy
        <5> QED BY <1>2, <2>1, <5>1 DEF NumberHeld
      <4> QED BY <4>1, <4>2
    <3>2. \A m \in InvoiceNos : q.new[m].id = 0 \/ areq[o].new[m].id = 0
      BY <1>1 DEF ImportInv, ImportsApart
    <3>3. \A m \in InvoiceNos : m # n => x.new[m] = q.new[m]
      BY <2>6, <2>9 DEF ImportRequest
    <3> QED BY <3>1, <3>2, <3>3
  <2>15. /\ UNCHANGED <<keeps, invoices, lastRun, inTurn, owed>>
         /\ aggregates' \in [Products -> Aggregate] /\ aggregates' = aggregates
         /\ dims' \in [DimKeys -> Nat] /\ LinkedProductExists'
         /\ lastInvoice' \in 0..MaxInvoices /\ inTurn' \in BOOLEAN /\ owed' \in BOOLEAN
    BY <2>4, ImportsAssumption DEF ImportInv, ImportState, importHistory, LinkedProductExists
  <2>16. x.pc \notin Recalculating /\ x.pc # "commit rows"
    BY <2>9 DEF Recalculating
  <2> QED BY <1>3, <2>10, <2>13, <2>14, <2>15, <2>16, ALocal
<1> QED BY <1>4, <1>5

(* The commit of an import where invoices are kept only adds some. *)
LEMMA OnlyAdds ==
    ASSUME ImportInv, NEW r \in Workers, CommitImport(r)
    PROVE  /\ invoices' \in [InvoiceNos -> InvoiceRow]
           /\ \A n \in InvoiceNos : invoices'[n] \in {areq[r].new[n], NoRow, invoices[n]}
           /\ \A n \in InvoiceNos : invoices'[n].id = 0 => invoices'[n].lines = {}
           /\ keeps => \A n \in InvoiceNos : /\ invoices[n].id # 0 => invoices'[n] = invoices[n]
                                             /\ areq[r].new[n].id = 0 => invoices'[n] = invoices[n]
<1>1. PICK q \in ImportRequest : q = areq[r]
  BY DEF ImportInv
<1>2. invoices' = [n \in InvoiceNos |->
                      IF q.new[n].id # 0 THEN q.new[n]
                      ELSE IF invoices[n].id \in q.gone THEN NoRow ELSE invoices[n]]
  BY <1>1 DEF CommitImport
<1>3. q.new \in [InvoiceNos -> InvoiceRow] /\ invoices \in [InvoiceNos -> InvoiceRow]
      /\ \A n \in InvoiceNos : invoices[n].id = 0 => invoices[n].lines = {}
  BY DEF ImportRequest, ImportInv, ImportState
<1>4. keeps => q.gone = {} /\ \A n \in InvoiceNos : q.new[n].id # 0 => invoices[n].id = 0
  BY <1>1 DEF ImportInv, ImportWork, InvoiceWork
<1>5. \A n \in InvoiceNos : invoices'[n] \in {q.new[n], NoRow, invoices[n]}
  BY <1>2
<1>6. invoices' \in [InvoiceNos -> InvoiceRow]
  BY <1>2, <1>3, ImportTypes
<1>7. \A n \in InvoiceNos : invoices'[n].id = 0 => invoices'[n].lines = {}
  BY <1>2, <1>3, ImportTypes
<1>8. ASSUME keeps, NEW n \in InvoiceNos
      PROVE  /\ invoices[n].id # 0 => invoices'[n] = invoices[n]
             /\ q.new[n].id = 0 => invoices'[n] = invoices[n]
  BY <1>2, <1>4, <1>8
<1> QED BY <1>1, <1>5, <1>6, <1>7, <1>8

LEMMA ACommitsImport ==
    ASSUME ImportInv, NEW r \in Workers, CommitImport(r)
    PROVE  ImportInv'
<1>1. areq[r].pc = "look" /\ UNCHANGED <<keeps, lastInvoice, aggregates, lastRun, dims, inTurn, owed>>
  BY DEF CommitImport, importHistory
<1>2. PICK x : x = [AIdle EXCEPT !.pc = "start", !.op = "import"]
  OBVIOUS
<1>3. /\ x \in ImportRequest /\ x.pc = "start" /\ x.gone = {} /\ x.rows = {}
      /\ \A n \in InvoiceNos : x.new[n].id = 0
  BY <1>2, ImportTypes DEF ImportRequest, ImportPcs
<1>4. areq' \in [Workers -> ImportRequest] /\ areq'[r] = x /\ \A o \in Workers : o # r => areq'[o] = areq[o]
  BY <1>2, <1>3 DEF CommitImport, ABecome, ImportInv
<1>5. keeps => \A p \in Products : Purchased(p) => Purchased(p)'
  BY OnlyAdds DEF Purchased, ImportInv, ImportState
<1>6. ImportState'
  BY <1>1, <1>5, OnlyAdds DEF ImportInv, ImportState, LinkedProductExists
<1>7. ASSUME NEW o \in Workers PROVE ImportWork(areq[o])'
  <2>1. CASE o = r
    BY <1>3, <1>4, <2>1 DEF ImportWork, InvoiceWork, RowsWork, SyncWork, Recalculating
  <2>2. CASE o # r
    <3>1. PICK q \in ImportRequest : q = areq[o] /\ q = areq'[o]
      BY <1>4, <2>2 DEF ImportInv
    <3>2. ImportWork(q) /\ \A n \in InvoiceNos : q.new[n].id = 0 \/ areq[r].new[n].id = 0
      BY <2>2, <3>1 DEF ImportInv, ImportsApart
    <3>3. InvoiceWork(q)'
      BY <1>1, <3>2, OnlyAdds DEF ImportWork, InvoiceWork
    <3>4. \A y \in q.rows : y[1] \in Products
      BY DEF ImportRequest
    <3>5. keeps => \A y \in q.rows : Purchased(y[1]) => Purchased(y[1])'
      BY <1>5, <3>4
    <3>6. RowsWork(q)'
      BY <1>1, <1>5, <3>2, <3>5 DEF ImportWork, RowsWork
    <3>7. SyncWork(q)'
      BY <3>2 DEF ImportWork, SyncWork
    <3> QED BY <3>1, <3>3, <3>6, <3>7 DEF ImportWork
  <2> QED BY <2>1, <2>2
<1>8. ASSUME NEW p \in Workers, NEW o \in Workers, p # o PROVE ImportsApart(areq[p], areq[o])'
  <2>1. CASE p = r \/ o = r
    BY <1>1, <1>3, <1>4, <1>8, <2>1 DEF ImportsApart, Recalculating
  <2>2. CASE p # r /\ o # r
    <3>1. ImportsApart(areq[p], areq[o])
      BY <1>8 DEF ImportInv
    <3> QED BY <1>1, <1>4, <2>2, <3>1 DEF ImportsApart
  <2> QED BY <2>1, <2>2
<1>9. SortedInTime'
  <2> SUFFICES ASSUME ~owed, NEW y \in RowsOf(aggregates)
               PROVE  aggregates[y[1]].sorted \/ \E o \in Workers : Sorts(areq'[o], y)
    BY <1>1 DEF SortedInTime, Sorts
  <2>1. \A o \in Workers : Sorts(areq[o], y) => o # r
    BY <1>1 DEF Sorts
  <2> QED BY <1>4, <2>1 DEF ImportInv, SortedInTime
<1>10. CountedInTime'
  BY <1>3, <1>4 DEF CountedInTime, WillCount
<1> QED BY <1>4, <1>6, <1>7, <1>8, <1>9, <1>10 DEF ImportInv

(* A recalculation in turn is the only one that deletes rows. *)
LEMMA AStarts ==
    ASSUME ImportInv, NEW r \in Workers, StartRecalculation(r)
    PROVE  ImportInv'
<1>1. PICK q \in ImportRequest : q = areq[r]
  BY DEF ImportInv
<1>2. PICK x : x = [q EXCEPT !.pc = "delete rows", !.rows = RowsOf(aggregates)]
  OBVIOUS
<1>3. RowsOf(aggregates) \subseteq Products \X Nat
  <2>1. \A p \in Products : aggregates[p].run \in Nat
    BY AggregateFields, ImportsAssumption DEF ImportInv, ImportState
  <2> QED BY <2>1 DEF RowsOf
<1>4. /\ x \in ImportRequest /\ x.pc = "delete rows" /\ x.rows = RowsOf(aggregates) /\ x.new = q.new
      /\ x.gone = q.gone
  BY <1>2, <1>3 DEF ImportRequest, ImportPcs, Recalculating
<1>5. /\ q.pc = "start" /\ areq' = [areq EXCEPT ![r] = x]
      /\ inTurn' = (inTurn /\ \A o \in InProgress(areq, r) : o.pc \notin Recalculating)
      /\ UNCHANGED <<keeps, importDb, owed>>
  BY <1>1, <1>2 DEF StartRecalculation, ABecome
<1>6. /\ \A n \in InvoiceNos : x.new[n].id = 0
      /\ keeps => x.gone = {}
  BY <1>1, <1>4, <1>5 DEF ImportInv, ImportWork, InvoiceWork
<1>7. ImportWork(x)
  <2>1. \A y \in RowsOf(aggregates) : /\ y[1] \in Products /\ y[2] = aggregates[y[1]].run
                                      /\ aggregates[y[1]].run # 0
    BY RowFacts
  <2>2. \A y \in x.rows : y[2] <= lastRun /\ (keeps => Purchased(y[1]))
    BY <1>4, <2>1 DEF ImportInv, ImportState
  <2> QED BY <1>4, <1>6, <2>2 DEF ImportWork, InvoiceWork, RowsWork, SyncWork
<1>8. ASSUME NEW o \in Workers \ {r}
      PROVE  /\ inTurn' => areq[o].pc \notin Recalculating
             /\ keeps /\ areq[o].pc = "commit rows" =>
                   \A p \in Products : areq[o].aggs[p].run # 0 => <<p, areq[o].aggs[p].run>> \notin x.rows
  <2>1. inTurn' => areq[o].pc \notin Recalculating
    BY <1>5 DEF InProgress, Busy, Recalculating
  <2>2. ASSUME keeps, areq[o].pc = "commit rows", NEW p \in Products, areq[o].aggs[p].run # 0
        PROVE  <<p, areq[o].aggs[p].run>> \notin x.rows
    <3>1. aggregates[p].run # areq[o].aggs[p].run
      BY <2>2 DEF ImportInv, ImportWork, RowsWork
    <3>2. <<p, areq[o].aggs[p].run>> \notin RowsOf(aggregates)
      BY <3>1, RowFacts
    <3> QED BY <1>4, <3>2
  <2> QED BY <2>1, <2>2
<1>9. /\ UNCHANGED <<keeps, invoices, lastRun>> /\ inTurn' \in BOOLEAN /\ (inTurn' => inTurn)
      /\ aggregates' \in [Products -> Aggregate] /\ aggregates' = aggregates
      /\ dims' \in [DimKeys -> Nat] /\ LinkedProductExists'
      /\ lastInvoice' \in 0..MaxInvoices /\ owed' \in BOOLEAN /\ (owed => owed')
  BY <1>5 DEF ImportInv, ImportState, importDb, LinkedProductExists
<1>10. /\ areq[r].pc # "commit rows" /\ WillCount(x) /\ x.pc # "commit rows"
       /\ \A y : ~Sorts(areq[r], y)
  BY <1>1, <1>4, <1>5 DEF WillCount, Sorts
<1> QED BY <1>4, <1>5, <1>6, <1>7, <1>8, <1>9, <1>10, ALocal

LEMMA ADeletesRows ==
    ASSUME ImportInv, NEW r \in Workers, DeleteAggregates(r)
    PROVE  ImportInv'
<1>1. PICK q \in ImportRequest : q = areq[r]
  BY DEF ImportInv
<1>2. PICK x : x = [q EXCEPT !.pc = "insert rows", !.rows = @ \cap RowsOf(aggregates)]
  OBVIOUS
<1>3. /\ x \in ImportRequest /\ x.pc = "insert rows" /\ x.rows = q.rows \cap RowsOf(aggregates)
      /\ x.new = q.new /\ x.gone = q.gone
  BY <1>2 DEF ImportRequest, ImportPcs, Recalculating
<1>4. q.pc = "delete rows" /\ areq' = [areq EXCEPT ![r] = x] /\ AKeep
  BY <1>1, <1>2 DEF DeleteAggregates, ABecome
<1>5. ImportWork(q) /\ q.pc \in Recalculating
  BY <1>1, <1>4 DEF ImportInv, Recalculating
<1>6. /\ \A n \in InvoiceNos : x.new[n].id = 0
      /\ keeps => x.gone = {}
  BY <1>3, <1>4, <1>5 DEF ImportWork, InvoiceWork
<1>7. ImportWork(x)
  BY <1>3, <1>5, <1>6 DEF ImportWork, InvoiceWork, RowsWork, SyncWork
<1>8. ASSUME NEW o \in Workers \ {r}
      PROVE  /\ inTurn => areq[o].pc \notin Recalculating
             /\ keeps /\ areq[o].pc = "commit rows" =>
                   \A p \in Products : areq[o].aggs[p].run # 0 => <<p, areq[o].aggs[p].run>> \notin x.rows
  <2>1. ImportsApart(q, areq[o])
    BY <1>1 DEF ImportInv
  <2> QED BY <1>3, <1>5, <2>1 DEF ImportsApart
<1>9. /\ UNCHANGED <<keeps, invoices, lastRun, inTurn, owed>> /\ inTurn' \in BOOLEAN
      /\ aggregates' \in [Products -> Aggregate] /\ aggregates' = aggregates
      /\ dims' \in [DimKeys -> Nat] /\ LinkedProductExists'
      /\ lastInvoice' \in 0..MaxInvoices /\ owed' \in BOOLEAN
  BY <1>4 DEF ImportInv, ImportState, AKeep, importDb, importHistory, LinkedProductExists
<1>10. /\ areq[r].pc # "commit rows" /\ WillCount(x) /\ x.pc # "commit rows"
       /\ \A y : ~Sorts(areq[r], y)
  BY <1>1, <1>3, <1>4 DEF WillCount, Sorts
<1> QED BY <1>3, <1>4, <1>6, <1>7, <1>8, <1>9, <1>10, ALocal

(* What a recalculation inserts: each product that an invoice names, as    *)
(* often as they do.                                                       *)
LEMMA SummedFacts ==
    ASSUME ImportInv, NEW k \in 1..MaxRuns
    PROVE  /\ Summed(k) \in [Products -> Aggregate] /\ Proper(Summed(k))
           /\ \A p \in Products : /\ Summed(k)[p].n = Purchases(p) /\ Summed(k)[p].link = "none"
                                  /\ Summed(k)[p].run \in {0, k}
                                  /\ Summed(k)[p].run # 0 => Summed(k)[p].sorted = keeps
                                  /\ Summed(k)[p].run # 0 <=> Purchased(p)
<1>1. ASSUME NEW p \in Products
      PROVE  /\ Summed(k)[p] \in Aggregate /\ Summed(k)[p].n = Purchases(p) /\ Summed(k)[p].link = "none"
             /\ IF Purchased(p) THEN Summed(k)[p].run = k /\ Summed(k)[p].sorted = keeps
                                ELSE Summed(k)[p] = NoAggregate
  <2>1. Purchases(p) \in 0..Cardinality(InvoiceNos) /\ (Purchases(p) = 0 <=> ~Purchased(p))
    BY PurchaseCount
  <2>2. CASE Purchases(p) = 0
    BY <2>1, <2>2, ImportTypes DEF Summed
  <2>3. CASE Purchases(p) # 0
    <3>1. Summed(k)[p] = [NoAggregate EXCEPT !.run = k, !.n = Purchases(p), !.sorted = keeps]
      BY <2>3 DEF Summed
    <3>2. k \in 0..MaxRuns /\ keeps \in BOOLEAN
      BY ImportsAssumption DEF ImportInv, ImportState
    <3> QED BY <2>1, <2>3, <3>1, <3>2, ImportTypes DEF Aggregate
  <2> QED BY <2>2, <2>3
<1>2. Summed(k) \in [Products -> Aggregate]
  BY <1>1 DEF Summed
<1>3. ASSUME NEW p \in Products
      PROVE  IF Summed(k)[p].run = 0 THEN Summed(k)[p] = NoAggregate ELSE Summed(k)[p].n > 0
  <2>1. Purchases(p) \in Nat /\ (Purchased(p) => Purchases(p) > 0)
    BY PurchaseCount, FS_CardinalityType, ImportsAssumption
  <2>2. k # 0
    BY ImportsAssumption
  <2> QED BY <1>1, <2>1, <2>2, ImportTypes
<1>4. \A p \in Products : /\ Summed(k)[p].run \in {0, k}
                          /\ Summed(k)[p].run # 0 => Summed(k)[p].sorted = keeps
                          /\ Summed(k)[p].run # 0 <=> Purchased(p)
  BY <1>1, ImportTypes
<1> QED BY <1>1, <1>2, <1>3, <1>4 DEF Proper

(* Where invoices are kept the INSERT waits for any other that inserted    *)
(* rows, for its rows are none that this one has deleted.                  *)
LEMMA AInsertsRows ==
    ASSUME ImportInv, NEW r \in Workers, InsertAggregates(r)
    PROVE  ImportInv'
<1>1. PICK q \in ImportRequest : q = areq[r]
  BY DEF ImportInv
<1>2. q.pc = "insert rows" /\ q.pc \in Recalculating /\ ImportWork(q)
  BY <1>1 DEF InsertAggregates, ImportInv, Recalculating
<1> DEFINE new == Summed(lastRun + 1)
           clash(f) == {p \in Products : new[p].run # 0 /\ f[p].run # 0 /\ <<p, f[p].run>> \notin q.rows}
<1>3. CASE AEnd(r) /\ owed' = TRUE /\ UNCHANGED <<keeps, importDb, inTurn>>
  BY <1>3, AFails
<1>4. CASE /\ clash(aggregates) = {} /\ \A o \in InProgress(areq, r) : o.pc = "commit rows" => clash(o.aggs) = {}
           /\ lastRun < MaxRuns /\ lastRun' = lastRun + 1
           /\ ABecome(r, [q EXCEPT !.pc = "commit rows", !.aggs = new])
           /\ UNCHANGED <<keeps, invoices, lastInvoice, aggregates, dims, importHistory>>
  <2>1. PICK k \in 1..MaxRuns : k = lastRun + 1
    <3>1. lastRun \in 0..MaxRuns /\ MaxRuns \in Nat
      BY ImportsAssumption DEF ImportInv, ImportState
    <3>2. lastRun < MaxRuns
      BY <1>4
    <3> QED BY <3>1, <3>2
  <2>2. PICK g \in [Products -> Aggregate] :
             /\ g = new /\ Proper(g)
             /\ \A p \in Products : /\ g[p].n = Purchases(p) /\ g[p].link = "none" /\ g[p].run \in {0, k}
                                    /\ g[p].run # 0 => g[p].sorted = keeps
                                    /\ g[p].run # 0 <=> Purchased(p)
    BY <2>1, SummedFacts
  <2>3. PICK x : x = [q EXCEPT !.pc = "commit rows", !.aggs = g]
    OBVIOUS
  <2>4. /\ x \in ImportRequest /\ x.pc = "commit rows" /\ x.aggs = g /\ x.rows = q.rows
        /\ x.new = q.new /\ x.gone = q.gone
    BY <2>3 DEF ImportRequest, ImportPcs, Recalculating
  <2>5. /\ areq' \in [Workers -> ImportRequest] /\ areq'[r] = x
        /\ \A o \in Workers : o # r => areq'[o] = areq[o]
    BY <1>4, <2>2, <2>3, <2>4 DEF ABecome, ImportInv
  <2>6. UNCHANGED <<keeps, invoices, lastInvoice, aggregates, dims, inTurn, owed>> /\ lastRun' = k
    BY <1>4, <2>1 DEF importHistory
  <2>7. \A o \in Workers \ {r} : areq[o].pc = "commit rows" =>
            \A p \in Products : g[p].run # 0 /\ areq[o].aggs[p].run # 0 => <<p, areq[o].aggs[p].run>> \in q.rows
    <3>1. \A o \in Workers \ {r} : areq[o].pc = "commit rows" => areq[o] \in InProgress(areq, r)
      BY DEF InProgress, Busy
    <3> QED BY <1>4, <2>2, <3>1
  <2> HIDE DEF new, clash
  <2>8. \A p \in Products : Purchases(p)' = Purchases(p) /\ (Purchased(p)' <=> Purchased(p))
    BY <2>6 DEF Purchases, Purchased
  <2>9. \A p \in Products : aggregates[p].run \in Nat /\ aggregates[p].run <= lastRun
    BY AggregateFields, ImportsAssumption DEF ImportInv, ImportState
  <2>10. lastRun \in Nat /\ k \in Nat /\ lastRun < k /\ k \in 0..MaxRuns
    <3>1. lastRun \in Nat /\ MaxRuns \in Nat
      BY ImportsAssumption DEF ImportInv, ImportState
    <3> QED BY <2>1, <3>1
  <2>11. ImportState'
    BY <2>6, <2>8, <2>9, <2>10 DEF ImportInv, ImportState, LinkedProductExists
  <2>12. \A y \in q.rows : y[1] \in Products /\ y[2] \in Nat /\ y[2] <= lastRun
    BY <1>2 DEF ImportRequest, ImportWork, RowsWork
  <2>13. RowsWork(x)'
    <3>1. \A y \in x.rows : y[2] <= k
      <4>1. \A i \in Nat : i <= lastRun => i <= k
        BY <2>10
      <4> QED BY <2>4, <2>12, <4>1
    <3>2. inTurn => x.rows = RowsOf(aggregates)
      BY <1>2, <2>4 DEF ImportWork, RowsWork
    <3>3. keeps => \A y \in x.rows : Purchased(y[1])
      BY <1>2, <2>4 DEF ImportWork, RowsWork
    <3>4. keeps => \A y \in x.rows : Purchased(y[1])' /\ x.aggs[y[1]].run # 0
      <4>1. \A p \in Products : Purchased(p) => Purchased(p)' /\ g[p].run # 0
        BY <2>2, <2>8
      <4> QED BY <2>4, <2>12, <3>3, <4>1
    <3>5. \A p \in Products : /\ g[p].run <= k /\ aggregates[p].run # k
                              /\ g[p].run # 0 => g[p].run = k
      BY <2>2, <2>9, <2>10
    <3>6. \A p \in Products : /\ x.aggs[p].link = "none" /\ x.aggs[p].run <= k
                              /\ keeps /\ x.aggs[p].run # 0 =>
                                    /\ Purchased(p)' /\ x.aggs[p].sorted
                                    /\ aggregates[p].run # x.aggs[p].run
      BY <2>2, <2>4, <2>8, <3>5
    <3> QED BY <2>2, <2>4, <2>6, <3>1, <3>2, <3>3, <3>4, <3>6 DEF RowsWork
  <2>14. InvoiceWork(x)' /\ SyncWork(x)'
    BY <1>2, <2>4, <2>6 DEF ImportWork, InvoiceWork, SyncWork
  <2>15. ASSUME NEW o \in Workers, o # r PROVE ImportWork(areq[o])'
    <3>1. PICK z \in ImportRequest : z = areq[o] /\ z = areq'[o] /\ ImportWork(z)
      BY <2>5, <2>15 DEF ImportInv
    <3>2. \A y \in z.rows : y[1] \in Products /\ y[2] \in Nat
      BY DEF ImportRequest
    <3>3. \A p \in Products : z.aggs[p].run \in Nat
      BY AggregateFields, ImportsAssumption DEF ImportRequest
    <3>4. \A i \in Nat : i <= lastRun => i <= k
      BY <2>10
    <3>5. RowsWork(z)'
      BY <2>6, <2>8, <3>1, <3>2, <3>3, <3>4 DEF ImportWork, RowsWork
    <3>6. InvoiceWork(z)' /\ SyncWork(z)'
      BY <2>6, <3>1 DEF ImportWork, InvoiceWork, SyncWork
    <3> QED BY <3>1, <3>5, <3>6 DEF ImportWork
  <2>16. \A o \in Workers : ImportWork(areq[o])'
    BY <2>5, <2>13, <2>14, <2>15 DEF ImportWork
  <2>17. ASSUME NEW o \in Workers, o # r
         PROVE  ImportsApart(areq[r], areq[o])' /\ ImportsApart(areq[o], areq[r])'
    <3>1. PICK z \in ImportRequest : z = areq[o] /\ z = areq'[o]
      BY <2>5, <2>17 DEF ImportInv
    <3>2. ImportsApart(q, z) /\ ImportsApart(z, q) /\ ImportWork(z)
      BY <1>1, <2>17, <3>1 DEF ImportInv
    <3>3. ASSUME keeps, z.pc = "commit rows" PROVE Empty(z.aggs)
      <4> SUFFICES ASSUME NEW p \in Products, z.aggs[p].run # 0 PROVE FALSE
        BY DEF Empty
      <4>1. Purchased(p)
        BY <3>2, <3>3 DEF ImportWork, RowsWork
      <4>2. <<p, z.aggs[p].run>> \in q.rows
        BY <2>2, <2>7, <2>17, <3>1, <3>3, <4>1
      <4> QED BY <1>2, <3>2, <3>3, <4>2 DEF ImportsApart
    <3>4. ASSUME z.pc \in Recalculating, NEW p \in Products, g[p].run # 0
          PROVE  <<p, g[p].run>> \notin z.rows
      <4>1. g[p].run = k
        BY <2>2, <3>4
      <4>2. <<p, k>> \in z.rows => k <= lastRun
        BY <3>2, <3>4 DEF ImportWork, RowsWork
      <4> QED BY <2>10, <4>1, <4>2
    <3>5. inTurn => z.pc \notin Recalculating
      BY <1>2, <3>2 DEF ImportsApart
    <3>6. \A n \in InvoiceNos : x.new[n].id = 0 \/ z.new[n].id = 0
      BY <2>4, <3>2 DEF ImportsApart
    <3>7. ImportsApart(x, z)'
      BY <2>4, <2>6, <3>3, <3>5, <3>6 DEF ImportsApart, Empty
    <3>8. ImportsApart(z, x)'
      BY <2>4, <2>6, <3>3, <3>4, <3>5, <3>6 DEF ImportsApart
    <3> QED BY <2>5, <3>1, <3>7, <3>8
  <2>18. ASSUME NEW p \in Workers, NEW o \in Workers, p # o PROVE ImportsApart(areq[p], areq[o])'
    <3>1. CASE p = r \/ o = r
      BY <2>17, <2>18, <3>1
    <3>2. CASE p # r /\ o # r
      <4>1. ImportsApart(areq[p], areq[o])
        BY <2>18 DEF ImportInv
      <4> QED BY <2>5, <2>6, <3>2, <4>1 DEF ImportsApart
    <3> QED BY <3>1, <3>2
  <2>19. SortedInTime'
    <3>1. \A o \in Workers : \A y : Sorts(areq[o], y) => o # r
      BY <1>1, <1>2 DEF Sorts
    <3>2. \A o \in Workers : \A y : Sorts(areq[o], y) => Sorts(areq[o], y)'
      BY <2>5, <2>6, <3>1 DEF Sorts
    <3> QED BY <2>6, <3>2 DEF ImportInv, SortedInTime
  <2>20. CountedInTime'
    <3>1. HasCounted(x)'
      BY <2>2, <2>4, <2>8 DEF HasCounted
    <3> QED BY <2>5, <3>1 DEF CountedInTime
  <2> QED BY <2>5, <2>11, <2>16, <2>18, <2>19, <2>20 DEF ImportInv
<1>5. \/ AEnd(r) /\ owed' = TRUE /\ UNCHANGED <<keeps, importDb, inTurn>>
      \/ /\ clash(aggregates) = {} /\ \A o \in InProgress(areq, r) : o.pc = "commit rows" => clash(o.aggs) = {}
         /\ lastRun < MaxRuns /\ lastRun' = lastRun + 1
         /\ ABecome(r, [q EXCEPT !.pc = "commit rows", !.aggs = new])
         /\ UNCHANGED <<keeps, invoices, lastInvoice, aggregates, dims, importHistory>>
  BY <1>1 DEF InsertAggregates
<1> QED BY <1>3, <1>4, <1>5

(* A count that is up to date, or will be, where the rows committed are    *)
(* those counted or there were none to commit.                             *)
LEMMA ACommitsRows ==
    ASSUME ImportInv, NEW r \in Workers, CommitAggregates(r)
    PROVE  ImportInv'
<1>1. PICK q \in ImportRequest : q = areq[r]
  BY DEF ImportInv
<1>2. /\ q.pc = "commit rows" /\ q.pc \in Recalculating /\ ImportWork(q)
      /\ UNCHANGED <<keeps, invoices, lastInvoice, lastRun, dims, inTurn, owed>>
  BY <1>1 DEF CommitAggregates, ImportInv, Recalculating, importHistory
<1>3. aggregates' = [p \in Products |->
                        IF q.aggs[p].run # 0 THEN q.aggs[p]
                        ELSE IF <<p, aggregates[p].run>> \in q.rows THEN NoAggregate ELSE aggregates[p]]
  BY <1>1 DEF CommitAggregates
<1>4. PICK x \in ImportRequest :
          /\ ABecome(r, x) /\ x.pc = (IF keeps THEN "idle" ELSE "load rows") /\ x.gone = {} /\ x.rows = {}
          /\ \A n \in InvoiceNos : x.new[n].id = 0
  <2>1. CASE keeps
    BY <1>1, <2>1, ImportTypes DEF CommitAggregates
  <2>2. CASE ~keeps
    <3>1. PICK x : x = [AIdle EXCEPT !.pc = "load rows", !.op = q.op]
      OBVIOUS
    <3>2. /\ x \in ImportRequest /\ x.pc = "load rows" /\ x.gone = {} /\ x.rows = {}
          /\ \A n \in InvoiceNos : x.new[n].id = 0
      BY <3>1, ImportTypes DEF ImportRequest, ImportPcs
    <3> QED BY <1>1, <2>2, <3>1, <3>2 DEF CommitAggregates
  <2> QED BY <2>1, <2>2
<1>5. /\ areq' \in [Workers -> ImportRequest] /\ areq'[r] = x
      /\ \A o \in Workers : o # r => areq'[o] = areq[o]
  BY <1>4 DEF ABecome, ImportInv
<1>6. /\ aggregates \in [Products -> Aggregate] /\ Proper(aggregates)
      /\ q.aggs \in [Products -> Aggregate] /\ Proper(q.aggs)
      /\ \A p \in Products : /\ q.aggs[p].link = "none" /\ q.aggs[p].run <= lastRun
                             /\ keeps /\ q.aggs[p].run # 0 => Purchased(p) /\ q.aggs[p].sorted
      /\ keeps => \A y \in q.rows : Purchased(y[1]) /\ q.aggs[y[1]].run # 0
      /\ inTurn => q.rows = RowsOf(aggregates)
      /\ q.rows \subseteq Products \X Nat
  BY <1>2 DEF ImportInv, ImportState, ImportRequest, ImportWork, RowsWork
<1>7. \A p \in Products : /\ aggregates'[p] \in {q.aggs[p], NoAggregate, aggregates[p]}
                          /\ aggregates'[p] = q.aggs[p] => q.aggs[p].run # 0 \/ aggregates'[p] = NoAggregate
  <2>1. \A p \in Products : q.aggs[p].run = 0 => q.aggs[p] = NoAggregate
    BY <1>6 DEF Proper
  <2> QED BY <1>3, <2>1
<1>8. \A p \in Products : Purchases(p)' = Purchases(p) /\ (Purchased(p)' <=> Purchased(p))
  BY <1>2 DEF Purchases, Purchased
<1>9. ImportState'
  <2>1. aggregates' \in [Products -> Aggregate]
    BY <1>3, <1>6, ImportTypes
  <2>2. Proper(aggregates')
    BY <1>6, <1>7, ImportTypes DEF Proper
  <2>3. \A p \in Products : aggregates'[p].run <= lastRun
    <3>1. 0 <= lastRun /\ \A p \in Products : aggregates[p].run <= lastRun
      BY ImportsAssumption DEF ImportInv, ImportState
    <3> QED BY <1>6, <1>7, <3>1, ImportTypes
  <2>4. keeps => \A p \in Products : aggregates'[p].run # 0 => Purchased(p)' /\ aggregates'[p].sorted
    BY <1>6, <1>7, <1>8, ImportTypes DEF ImportInv, ImportState
  <2>5. LinkedProductExists'
    BY <1>2, <1>6, <1>7, ImportTypes DEF ImportInv, ImportState, LinkedProductExists
  <2> QED BY <1>2, <2>1, <2>2, <2>3, <2>4, <2>5 DEF ImportInv, ImportState
<1>10. ASSUME NEW o \in Workers \ {r}
       PROVE  /\ inTurn => areq[o].pc \notin Recalculating
              /\ keeps /\ areq[o].pc = "commit rows" => Empty(q.aggs) \/ Empty(areq[o].aggs)
  BY <1>1, <1>2 DEF ImportInv, ImportsApart
<1>11. ASSUME NEW o \in Workers PROVE ImportWork(areq[o])'
  <2>1. CASE o = r
    <3>1. ImportWork(x)'
      BY <1>2, <1>4 DEF ImportWork, InvoiceWork, RowsWork, SyncWork, Recalculating
    <3> QED BY <1>5, <2>1, <3>1 DEF ImportWork
  <2>2. CASE o # r
    <3>1. PICK z \in ImportRequest : z = areq[o] /\ z = areq'[o] /\ ImportWork(z)
      BY <1>5, <2>2 DEF ImportInv
    <3>2. \A y \in z.rows : y[1] \in Products
      BY DEF ImportRequest
    <3>3. ASSUME keeps, z.pc = "commit rows", NEW p \in Products, z.aggs[p].run # 0
          PROVE  aggregates'[p].run # z.aggs[p].run
      <4>1. aggregates[p].run # z.aggs[p].run
        BY <3>1, <3>3 DEF ImportWork, RowsWork
      <4>2. q.aggs[p].run = 0
        BY <1>10, <2>2, <3>1, <3>3 DEF Empty
      <4> QED BY <1>7, <3>3, <4>1, <4>2, ImportTypes
    <3>4. inTurn => z.pc \notin Recalculating
      BY <1>10, <2>2, <3>1
    <3>5. RowsWork(z)'
      BY <1>2, <1>8, <3>1, <3>2, <3>3, <3>4 DEF ImportWork, RowsWork, Recalculating
    <3>6. InvoiceWork(z)' /\ SyncWork(z)'
      BY <1>2, <3>1 DEF ImportWork, InvoiceWork, SyncWork
    <3> QED BY <3>1, <3>5, <3>6 DEF ImportWork
  <2> QED BY <2>1, <2>2
<1>12. ASSUME NEW p \in Workers, NEW o \in Workers, p # o PROVE ImportsApart(areq[p], areq[o])'
  <2>1. CASE p = r \/ o = r
    BY <1>2, <1>4, <1>5, <1>12, <2>1 DEF ImportsApart, Recalculating
  <2>2. CASE p # r /\ o # r
    <3>1. ImportsApart(areq[p], areq[o])
      BY <1>12 DEF ImportInv
    <3> QED BY <1>2, <1>5, <2>2, <3>1 DEF ImportsApart
  <2> QED BY <2>1, <2>2
<1>13. SortedInTime'
  <2>1. CASE keeps
    <3>1. \A y \in RowsOf(aggregates') : y[1] \in Products /\ aggregates'[y[1]].run # 0
      BY RowFacts
    <3>2. \A p \in Products : aggregates'[p].run # 0 => aggregates'[p].sorted
      BY <1>2, <1>9, <2>1 DEF ImportState
    <3> QED BY <3>1, <3>2 DEF SortedInTime
  <2>2. CASE ~keeps
    BY <1>4, <1>5, <2>2 DEF SortedInTime, Sorts
  <2> QED BY <2>1, <2>2
<1>14. CountedInTime'
  <2> SUFFICES ASSUME ~owed, keeps \/ inTurn
               PROVE  Counted' \/ \E o \in Workers : WillCount(areq'[o]) \/ HasCounted(areq[o])'
    BY <1>2 DEF CountedInTime, WillCount
  <2>1. CASE \E o \in Workers : WillCount(areq[o])
    BY <1>1, <1>2, <1>5, <2>1 DEF WillCount
  <2>2. CASE \E o \in Workers : o # r /\ HasCounted(areq[o])
    BY <1>5, <1>8, <2>2 DEF HasCounted
  <2>3. CASE HasCounted(q)
    <3>1. \A p \in Products : q.aggs[p].n = Purchases(p)
      BY <2>3 DEF HasCounted
    <3>2. \A p \in Products : q.aggs[p].run = 0 => Purchases(p) = 0 /\ ~Purchased(p)
      BY <1>6, <3>1, ImportTypes, PurchaseCount DEF Proper
    <3>3. ASSUME NEW p \in Products PROVE aggregates'[p].n = Purchases(p)
      <4>1. CASE q.aggs[p].run # 0
        BY <1>3, <3>1, <4>1
      <4>2. CASE q.aggs[p].run = 0
        <5>1. Purchases(p) = 0 /\ ~Purchased(p)
          BY <3>2, <4>2
        <5>2. aggregates'[p] = NoAggregate
          <6>1. CASE keeps
            <7>1. aggregates[p] = NoAggregate
              BY <5>1, <6>1 DEF ImportInv, ImportState, Proper
            <7> QED BY <1>3, <4>2, <7>1
          <6>2. CASE inTurn
            <7>1. aggregates[p].run # 0 => <<p, aggregates[p].run>> \in q.rows
              BY <1>6, <6>2, RowFacts
            <7> QED BY <1>3, <1>6, <4>2, <7>1 DEF Proper
          <6> QED BY <6>1, <6>2
        <5> QED BY <5>1, <5>2, ImportTypes
      <4> QED BY <4>1, <4>2
    <3>4. ASSUME NEW o \in Workers \ {r}, areq[o].pc = "commit rows"
          PROVE  Empty(areq[o].aggs) /\ areq[o].rows = {}
      <4>1. keeps
        BY <1>10, <3>4 DEF Recalculating
      <4>2. RowsWork(areq[o])
        BY DEF ImportInv, ImportWork
      <4>3. Empty(areq[o].aggs)
        <5>1. CASE Empty(q.aggs)
          BY <3>2, <3>4, <4>1, <4>2, <5>1 DEF Empty, RowsWork
        <5> QED BY <1>10, <3>4, <4>1, <5>1
      <4>4. areq[o].rows \subseteq Products \X Nat
        BY DEF ImportInv, ImportRequest
      <4>5. areq[o].rows = {}
        BY <3>4, <4>1, <4>2, <4>3, <4>4 DEF Empty, RowsWork
      <4> QED BY <4>3, <4>5
    <3> QED BY <1>4, <1>5, <1>8, <3>3, <3>4 DEF Counted
  <2>4. CASE Counted
    <3>1. q.rows = {} /\ \A p \in Products : q.aggs[p].run = 0
      BY <1>1, <1>2, <2>4 DEF Counted, Empty
    <3>2. \A p \in Products : aggregates'[p] = aggregates[p]
      BY <1>3, <3>1
    <3> QED BY <1>4, <1>5, <1>8, <2>4, <3>2 DEF Counted
  <2> QED BY <1>1, <2>1, <2>2, <2>3, <2>4 DEF ImportInv, CountedInTime
<1> QED BY <1>5, <1>9, <1>11, <1>12, <1>13, <1>14 DEF ImportInv

LEMMA AUpdates ==
    ASSUME ImportInv, NEW r \in Workers,
           LoadAggregates(r) \/ SortAggregates(r) \/ SetProductEan(r)
    PROVE  ImportInv'
<1>1. PICK q \in ImportRequest : q = areq[r]
  BY DEF ImportInv
<1>2. /\ aggregates \in [Products -> Aggregate] /\ dims \in [DimKeys -> Nat] /\ LinkedProductExists
      /\ inTurn \in BOOLEAN /\ owed \in BOOLEAN /\ keeps \in BOOLEAN
      /\ \A y \in RowsOf(aggregates) : y[1] \in Products /\ y[2] = aggregates[y[1]].run
                                       /\ y[2] # 0 /\ y = <<y[1], y[2]>>
  BY RowFacts DEF ImportInv, ImportState
<1>3. CASE LoadAggregates(r)
  <2>1. PICK x : x = [q EXCEPT !.pc = "sort", !.rows = {y \in RowsOf(aggregates) : ~aggregates[y[1]].sorted}]
    OBVIOUS
  <2>2. q.pc = "load rows" /\ ABecome(r, x) /\ AKeep
    BY <1>1, <1>3, <2>1 DEF LoadAggregates
  <2>3. RowsOf(aggregates) \subseteq Products \X Nat
    <3>1. \A p \in Products : aggregates[p].run \in Nat
      BY <1>2, AggregateFields, ImportsAssumption
    <3> QED BY <3>1 DEF RowsOf
  <2>4. {y \in RowsOf(aggregates) : ~aggregates[y[1]].sorted} \in SUBSET (Products \X Nat)
    BY <2>3
  <2>5. /\ x \in ImportRequest /\ x.pc = "sort" /\ x.new = q.new /\ x.gone = q.gone
        /\ x.rows = {y \in RowsOf(aggregates) : ~aggregates[y[1]].sorted}
    BY <2>1, <2>4 DEF ImportRequest, ImportPcs
  <2>6. ImportWork(x)
    <3>1. ImportWork(q)
      BY <1>1 DEF ImportInv
    <3> QED BY <2>2, <2>5, <3>1 DEF ImportWork, InvoiceWork, RowsWork, SyncWork, Recalculating
  <2>7. \A y \in RowsOf(aggregates) : aggregates[y[1]].sorted \/ Sorts(x, y)
    BY <2>5 DEF Sorts
  <2>8. /\ UNCHANGED <<keeps, invoices, lastRun, lastInvoice, inTurn, owed>>
        /\ aggregates' = aggregates /\ dims' = dims /\ LinkedProductExists'
        /\ lastInvoice' \in 0..MaxInvoices /\ areq' = [areq EXCEPT ![r] = x]
    <3>1. /\ UNCHANGED <<keeps, invoices, lastRun, lastInvoice, inTurn, owed>>
          /\ aggregates' = aggregates /\ dims' = dims /\ areq' = [areq EXCEPT ![r] = x]
      BY <2>2 DEF AKeep, importDb, importHistory, ABecome
    <3>2. LinkedProductExists'
      BY <1>2, <3>1 DEF LinkedProductExists
    <3>3. lastInvoice \in 0..MaxInvoices
      BY DEF ImportInv, ImportState
    <3> QED BY <3>1, <3>2, <3>3
  <2>9. \A o \in Workers \ {r}, n \in InvoiceNos : x.new[n].id = 0 \/ areq[o].new[n].id = 0
    <3>1. \A o \in Workers \ {r} : ImportsApart(q, areq[o])
      BY <1>1 DEF ImportInv
    <3> QED BY <2>5, <3>1 DEF ImportsApart
  <2>10. ~WillCount(areq[r]) /\ areq[r].pc # "commit rows" /\ x.pc \notin Recalculating /\ x.pc # "commit rows"
    BY <1>1, <2>2, <2>5 DEF WillCount, Recalculating
  <2> QED BY <1>2, <2>5, <2>6, <2>7, <2>8, <2>9, <2>10, ALocal
<1>4. CASE SortAggregates(r)
  <2>1. q.pc = "sort" /\ ~WillCount(areq[r]) /\ areq[r].pc # "commit rows"
    BY <1>1, <1>4 DEF SortAggregates, WillCount
  <2>2. CASE q.rows \subseteq RowsOf(aggregates)
    <3>1. /\ aggregates' = [p \in Products |-> IF <<p, aggregates[p].run>> \in q.rows
                                               THEN [aggregates[p] EXCEPT !.sorted = TRUE] ELSE aggregates[p]]
          /\ AEnd(r) /\ UNCHANGED <<keeps, invoices, lastInvoice, lastRun, dims, inTurn, owed>>
      BY <1>1, <1>4, <2>2 DEF SortAggregates, importHistory
    <3>2. ASSUME NEW p \in Products
          PROVE  /\ aggregates'[p] \in Aggregate /\ aggregates'[p].run = aggregates[p].run
                 /\ aggregates'[p].n = aggregates[p].n /\ aggregates'[p].link = aggregates[p].link
                 /\ aggregates[p].sorted => aggregates'[p].sorted
                 /\ aggregates[p].run = 0 => aggregates'[p] = aggregates[p]
                 /\ <<p, aggregates[p].run>> \in q.rows => aggregates'[p].sorted
      <4>1. aggregates[p] \in Aggregate
        BY <1>2
      <4>2. aggregates[p].run = 0 => <<p, aggregates[p].run>> \notin q.rows
        BY <2>2, RowFacts
      <4> QED BY <3>1, <4>1, <4>2 DEF Aggregate
    <3>3. aggregates' \in [Products -> Aggregate]
      BY <3>1, <3>2
    <3>4. LinkedProductExists'
      <4>1. \A p \in Products : /\ aggregates[p].link = "own" => dims[<<p, aggregates[p].run>>] > 0
                                /\ aggregates[p].link = "ean" => dims[<<p, 0>>] > 0
        BY <1>2 DEF LinkedProductExists
      <4>2. dims' = dims
        BY <3>1
      <4>3. \A p \in Products : /\ aggregates'[p].link = "own" => dims'[<<p, aggregates'[p].run>>] > 0
                                /\ aggregates'[p].link = "ean" => dims'[<<p, 0>>] > 0
        BY <3>2, <4>1, <4>2
      <4> QED BY <4>3 DEF LinkedProductExists
    <3>5. \A y \in RowsOf(aggregates) : Sorts(areq[r], y) => aggregates'[y[1]].sorted
      BY <1>1, <1>2, <2>1, <3>2 DEF Sorts
    <3> QED BY <1>2, <2>1, <3>1, <3>2, <3>3, <3>4, <3>5, AEnds
  <2>3. CASE ~(q.rows \subseteq RowsOf(aggregates))
    <3>1. AEnd(r) /\ UNCHANGED <<keeps, importDb, inTurn, owed>>
      BY <1>1, <1>4, <2>3 DEF SortAggregates, AFail, AKeep, importHistory
    <3>2. \A y \in RowsOf(aggregates) : ~Sorts(areq[r], y)
      BY <1>1, <2>1, <2>3 DEF Sorts
    <3> QED BY <1>2, <2>1, <3>1, <3>2, AFails
  <2> QED BY <2>2, <2>3
<1>5. CASE SetProductEan(r)
  <2>1. q.pc = "ean" /\ ~WillCount(areq[r]) /\ areq[r].pc # "commit rows" /\ \A y : ~Sorts(areq[r], y)
    BY <1>1, <1>5 DEF SetProductEan, WillCount, Sorts
  <2>2. CASE AFail(r)
    <3>1. AEnd(r) /\ UNCHANGED <<keeps, importDb, inTurn, owed>>
      BY <2>2 DEF AFail, AKeep, importHistory
    <3> QED BY <1>2, <2>1, <3>1, AFails
  <2>3. CASE ~AFail(r)
    <3>1. PICK s \in q.left : /\ <<s, q.aggs[s].run>> \in RowsOf(aggregates)
                              /\ aggregates' = [aggregates EXCEPT ![s].ean = (q.seen = 1)]
                              /\ AEnd(r)
                              /\ UNCHANGED <<keeps, invoices, lastInvoice, lastRun, dims, inTurn, owed>>
      BY <1>1, <1>5, <2>3 DEF SetProductEan, importHistory
    <3>2. s \in Products /\ aggregates[s].run # 0
      BY <3>1, RowFacts DEF ImportRequest
    <3>3. ASSUME NEW p \in Products
          PROVE  /\ aggregates'[p] \in Aggregate /\ aggregates'[p].run = aggregates[p].run
                 /\ aggregates'[p].n = aggregates[p].n /\ aggregates'[p].link = aggregates[p].link
                 /\ aggregates'[p].sorted = aggregates[p].sorted
                 /\ aggregates[p].run = 0 => aggregates'[p] = aggregates[p]
      <4>1. aggregates[p] \in Aggregate
        BY <1>2
      <4>2. aggregates'[p] = IF p = s THEN [aggregates[p] EXCEPT !.ean = (q.seen = 1)] ELSE aggregates[p]
        BY <1>2, <3>1, <3>2
      <4>3. [aggregates[p] EXCEPT !.ean = (q.seen = 1)] \in Aggregate
        BY <4>1 DEF Aggregate
      <4>4. CASE p = s
        BY <3>2, <4>1, <4>2, <4>3, <4>4 DEF Aggregate
      <4>5. CASE p # s
        BY <4>1, <4>2, <4>5
      <4> QED BY <4>4, <4>5
    <3>4. aggregates' \in [Products -> Aggregate]
      BY <1>2, <3>1, <3>3
    <3>5. LinkedProductExists'
      <4>1. \A p \in Products : /\ aggregates[p].link = "own" => dims[<<p, aggregates[p].run>>] > 0
                                /\ aggregates[p].link = "ean" => dims[<<p, 0>>] > 0
        BY <1>2 DEF LinkedProductExists
      <4>2. dims' = dims
        BY <3>1
      <4>3. \A p \in Products : /\ aggregates'[p].link = "own" => dims'[<<p, aggregates'[p].run>>] > 0
                                /\ aggregates'[p].link = "ean" => dims'[<<p, 0>>] > 0
        BY <3>3, <4>1, <4>2
      <4> QED BY <4>3 DEF LinkedProductExists
    <3>6. \A p \in Products : /\ aggregates'[p].run = aggregates[p].run
                              /\ aggregates'[p].n = aggregates[p].n
                              /\ aggregates[p].sorted => aggregates'[p].sorted
                              /\ aggregates[p].run = 0 => aggregates'[p] = aggregates[p]
      BY <3>3
    <3>7. dims' \in [DimKeys -> Nat] /\ owed' \in BOOLEAN /\ (owed => owed')
      BY <1>2, <3>1
    <3> QED BY <2>1, <3>1, <3>4, <3>5, <3>6, <3>7, AEnds
  <2> QED BY <2>2, <2>3
<1> QED BY <1>3, <1>4, <1>5

(* The synchronisation reads the row of dim_produit of every aggregate,    *)
(* and writes a count above 0 there: one was bought at least.              *)
LEMMA KeyFacts ==
    ASSUME NEW q \in ImportRequest, NEW p \in Products
    PROVE  /\ DimKey(q, p) \in DimKeys /\ DimKey(q, p)[1] = p
           /\ DimKey(q, p) = IF q.aggs[p].ean THEN <<p, 0>> ELSE <<p, q.aggs[p].run>>
<1>1. q.aggs[p].run \in 0..MaxRuns
  BY AggregateFields DEF ImportRequest
<1>2. 0 \in 0..MaxRuns
  BY ImportsAssumption
<1> QED BY <1>1, <1>2 DEF DimKey, DimKeys

LEMMA ALooksUp ==
    ASSUME ImportInv, NEW r \in Workers, StartSync(r) \/ \E p \in Products : SyncProduct(r, p)
    PROVE  ImportInv'
<1>1. PICK q \in ImportRequest : q = areq[r]
  BY DEF ImportInv
<1>2. q.pc \in {"sync", "product"} /\ AKeep /\ ImportWork(q)
  BY <1>1 DEF StartSync, SyncProduct, ImportInv
<1>3. areq[r].pc # "commit rows" /\ ~WillCount(areq[r]) /\ \A y : ~Sorts(areq[r], y)
  BY <1>1, <1>2 DEF WillCount, Sorts
<1>4. ASSUME NEW x \in ImportRequest, ABecome(r, x), x.new = q.new, x.gone = q.gone, x.pc = "product", SyncWork(x)
      PROVE  ImportInv'
  <2>1. InvoiceWork(x) /\ RowsWork(x) /\ x.pc \notin Recalculating
    BY <1>2, <1>4 DEF ImportWork, InvoiceWork, RowsWork, Recalculating
  <2> QED BY <1>1, <1>2, <1>3, <1>4, <2>1, AGoesOn DEF ImportWork
<1>5. CASE StartSync(r)
  <2>1. PICK x : x = [q EXCEPT !.pc = "product", !.aggs = aggregates, !.left = {y[1] : y \in RowsOf(aggregates)}]
    OBVIOUS
  <2>2. q.pc = "sync" /\ ABecome(r, x)
    BY <1>1, <1>5, <2>1 DEF StartSync
  <2>3. /\ {y[1] : y \in RowsOf(aggregates)} \in SUBSET Products
        /\ \A p \in {y[1] : y \in RowsOf(aggregates)} : aggregates[p].run # 0
        /\ \A p \in Products : aggregates[p].run # 0 => p \in {y[1] : y \in RowsOf(aggregates)}
    <3>1. ASSUME NEW p \in Products, aggregates[p].run # 0 PROVE p \in {y[1] : y \in RowsOf(aggregates)}
      <4>1. <<p, aggregates[p].run>> \in RowsOf(aggregates)
        BY <3>1, RowFacts
      <4> QED BY <4>1
    <3>2. \A y \in RowsOf(aggregates) : y[1] \in Products /\ aggregates[y[1]].run # 0
      BY RowFacts
    <3> QED BY <3>1, <3>2
  <2>4. aggregates \in [Products -> Aggregate] /\ Proper(aggregates)
    BY DEF ImportInv, ImportState
  <2>5. /\ x \in ImportRequest /\ x.new = q.new /\ x.gone = q.gone /\ x.pc = "product" /\ x.rows = q.rows
        /\ x.aggs = aggregates /\ x.left = {y[1] : y \in RowsOf(aggregates)}
    BY <2>1, <2>3, <2>4 DEF ImportRequest, ImportPcs
  <2>6. SyncWork(x)
    BY <1>2, <2>2, <2>3, <2>4, <2>5 DEF ImportWork, SyncWork
  <2> QED BY <1>4, <2>2, <2>5, <2>6
<1>6. ASSUME NEW p \in Products, SyncProduct(r, p) PROVE ImportInv'
  <2>1. PICK x : x = [q EXCEPT !.left = @ \ {p}, !.rows = @ \cup {<<p, dims[DimKey(q, p)]>>}]
    OBVIOUS
  <2>2. q.pc = "product" /\ p \in q.left /\ ABecome(r, x)
    BY <1>1, <1>6, <2>1 DEF SyncProduct
  <2>3. dims[DimKey(q, p)] \in Nat
    BY KeyFacts DEF ImportInv, ImportState
  <2>4. q.rows \cup {<<p, dims[DimKey(q, p)]>>} \in SUBSET (Products \X Nat) /\ q.left \ {p} \in SUBSET Products
    BY <2>3 DEF ImportRequest
  <2>5. /\ x \in ImportRequest /\ x.new = q.new /\ x.gone = q.gone /\ x.pc = "product"
        /\ x.aggs = q.aggs /\ x.left = q.left \ {p} /\ x.rows = q.rows \cup {<<p, dims[DimKey(q, p)]>>}
    BY <2>1, <2>2, <2>4 DEF ImportRequest
  <2>6. /\ Proper(q.aggs) /\ \A y \in q.rows : q.aggs[y[1]].run # 0
        /\ \A s \in Products : q.aggs[s].run # 0 => s \in q.left \/ \E y \in q.rows : y[1] = s
        /\ \A s \in q.left : q.aggs[s].run # 0
    BY <1>2, <2>2 DEF ImportWork, SyncWork
  <2>7. SyncWork(x)
    <3>1. \A y \in x.rows : q.aggs[y[1]].run # 0
      BY <2>2, <2>5, <2>6
    <3>2. ASSUME NEW s \in Products, q.aggs[s].run # 0 PROVE s \in x.left \/ \E y \in x.rows : y[1] = s
      <4>1. CASE s = p
        <5>1. <<p, dims[DimKey(q, p)]>> \in x.rows /\ <<p, dims[DimKey(q, p)]>>[1] = p
          BY <2>5
        <5> QED BY <4>1, <5>1
      <4>2. CASE s # p
        BY <2>5, <2>6, <3>2, <4>2
      <4> QED BY <4>1, <4>2
    <3> QED BY <2>5, <2>6, <3>1, <3>2 DEF SyncWork
  <2> QED BY <1>4, <2>2, <2>5, <2>7
<1> QED BY <1>5, <1>6

LEMMA ACommitsSync ==
    ASSUME ImportInv, NEW r \in Workers, CommitSync(r)
    PROVE  ImportInv'
<1>1. PICK q \in ImportRequest : q = areq[r]
  BY DEF ImportInv
<1> DEFINE link(p) == IF q.aggs[p].ean THEN "ean" ELSE "own"
<1>2. q.pc = "product" /\ q.left = {} /\ ImportWork(q)
  BY <1>1 DEF CommitSync, ImportInv
<1>3. areq[r].pc # "commit rows" /\ ~WillCount(areq[r]) /\ \A y : ~Sorts(areq[r], y)
  BY <1>1, <1>2 DEF WillCount, Sorts
<1>4. CASE AFail(r)
  <2>1. AEnd(r) /\ UNCHANGED <<keeps, importDb, inTurn, owed>> /\ owed' \in BOOLEAN
    BY <1>4 DEF AFail, AKeep, importHistory, ImportInv, ImportState
  <2> QED BY <1>3, <2>1, AFails
<1>5. CASE ~AFail(r)
  <2>1. /\ dims' = [k \in DimKeys |->
                          IF \E y \in q.rows : DimKey(q, y[1]) = k
                          THEN q.aggs[k[1]].n + (CHOOSE y \in q.rows : y[1] = k[1])[2] ELSE dims[k]]
        /\ aggregates' = [p \in Products |->
                                IF <<p, q.aggs[p].run>> \in RowsOf(aggregates)
                                THEN [aggregates[p] EXCEPT !.link = link(p)] ELSE aggregates[p]]
        /\ AEnd(r) /\ UNCHANGED <<keeps, invoices, lastInvoice, lastRun, inTurn, owed>>
    BY <1>1, <1>5, SMTT(30) DEF CommitSync, importHistory
  <2>2. /\ Proper(q.aggs) /\ \A y \in q.rows : q.aggs[y[1]].run # 0
        /\ \A s \in Products : q.aggs[s].run # 0 => \E y \in q.rows : y[1] = s
        /\ q.rows \subseteq Products \X Nat /\ q.aggs \in [Products -> Aggregate]
    BY <1>2 DEF ImportWork, SyncWork, ImportRequest
  <2>3. /\ aggregates \in [Products -> Aggregate] /\ dims \in [DimKeys -> Nat] /\ LinkedProductExists
        /\ inTurn \in BOOLEAN /\ owed \in BOOLEAN
    BY DEF ImportInv, ImportState
  <2>4. ASSUME NEW k \in DimKeys, NEW y \in q.rows, DimKey(q, y[1]) = k
        PROVE  dims'[k] \in Nat /\ dims'[k] > 0
    <3>1. y[1] \in Products /\ k[1] = y[1]
      BY <2>2, <2>4, KeyFacts
    <3>2. (CHOOSE z \in q.rows : z[1] = k[1]) \in q.rows
      BY <3>1
    <3>3. (CHOOSE z \in q.rows : z[1] = k[1])[2] \in Nat
      BY <2>2, <3>2
    <3>4. q.aggs[k[1]].n \in Nat /\ q.aggs[k[1]].n > 0
      BY <2>2, <3>1, AggregateFields DEF Proper
    <3>5. dims'[k] = q.aggs[k[1]].n + (CHOOSE z \in q.rows : z[1] = k[1])[2]
      BY <2>1, <2>4
    <3> QED BY <3>3, <3>4, <3>5
  <2>5. ASSUME NEW k \in DimKeys PROVE dims'[k] \in Nat /\ (dims[k] > 0 => dims'[k] > 0)
    <3>1. CASE \E y \in q.rows : DimKey(q, y[1]) = k
      BY <2>4, <3>1
    <3>2. CASE ~ \E y \in q.rows : DimKey(q, y[1]) = k
      BY <2>1, <2>3, <3>2
    <3> QED BY <3>1, <3>2
  <2>6. dims' \in [DimKeys -> Nat]
    <3>1. dims' = [k \in DimKeys |-> dims'[k]]
      BY <2>1
    <3> QED BY <2>5, <3>1
  <2>7. ASSUME NEW p \in Products
        PROVE  /\ aggregates'[p] \in Aggregate /\ aggregates'[p].run = aggregates[p].run
               /\ aggregates'[p].n = aggregates[p].n /\ aggregates'[p].sorted = aggregates[p].sorted
               /\ aggregates[p].run = 0 => aggregates'[p] = aggregates[p]
               /\ IF aggregates[p].run # 0 /\ q.aggs[p].run = aggregates[p].run
                  THEN aggregates'[p].link = link(p) ELSE aggregates'[p].link = aggregates[p].link
    <3>1. aggregates[p] \in Aggregate
      BY <2>3
    <3>2. <<p, q.aggs[p].run>> \in RowsOf(aggregates) <=> aggregates[p].run # 0 /\ q.aggs[p].run = aggregates[p].run
      BY RowFacts
    <3> QED BY <2>1, <3>1, <3>2 DEF Aggregate
  <2>8. aggregates' \in [Products -> Aggregate]
    BY <2>1, <2>7
  <2>9. ASSUME NEW p \in Products
        PROVE  /\ aggregates'[p].link = "own" => dims'[<<p, aggregates'[p].run>>] > 0
               /\ aggregates'[p].link = "ean" => dims'[<<p, 0>>] > 0
    <3>1. /\ aggregates[p].run \in 0..MaxRuns /\ 0 \in 0..MaxRuns
          /\ <<p, aggregates[p].run>> \in DimKeys /\ <<p, 0>> \in DimKeys
      BY <2>3, AggregateFields, ImportsAssumption DEF DimKeys
    <3>2. CASE aggregates[p].run # 0 /\ q.aggs[p].run = aggregates[p].run
      <4>1. PICK y \in q.rows : y[1] = p
        BY <2>2, <3>2
      <4>2. DimKey(q, p) \in DimKeys /\ dims'[DimKey(q, p)] > 0
        BY <2>4, <4>1, KeyFacts
      <4>3. DimKey(q, p) = IF q.aggs[p].ean THEN <<p, 0>> ELSE <<p, aggregates[p].run>>
        BY <3>2, KeyFacts
      <4> QED BY <2>7, <3>2, <4>2, <4>3
    <3>3. CASE ~(aggregates[p].run # 0 /\ q.aggs[p].run = aggregates[p].run)
      BY <2>3, <2>5, <2>7, <3>1, <3>3 DEF LinkedProductExists
    <3> QED BY <3>2, <3>3
  <2>10. LinkedProductExists'
    BY <2>9 DEF LinkedProductExists
  <2> QED BY <1>3, <2>1, <2>3, <2>6, <2>7, <2>8, <2>10, AEnds
<1> QED BY <1>4, <1>5

LEMMA AStopped ==
    ASSUME ImportInv, NEW r \in Workers, AAbort(r)
    PROVE  ImportInv'
BY AFails DEF AAbort

-----------------------------------------------------------------------------
LEMMA ImportInitial == ImportsInit => ImportInv
<1> SUFFICES ASSUME ImportsInit PROVE ImportInv
  OBVIOUS
<1>1. \A p \in Products : aggregates[p] = NoAggregate
  BY DEF ImportsInit
<1>2. ImportState
  <2>1. 0 \in 0..MaxInvoices /\ 0 \in 0..MaxRuns
    BY ImportsAssumption
  <2>2. invoices \in [InvoiceNos -> InvoiceRow] /\ \A n \in InvoiceNos : invoices[n].lines = {}
    BY ImportTypes DEF ImportsInit
  <2>3. aggregates \in [Products -> Aggregate] /\ Proper(aggregates)
    BY <1>1, ImportTypes DEF ImportsInit, Proper
  <2>4. LinkedProductExists
    BY <1>1, ImportTypes DEF LinkedProductExists
  <2>5. dims \in [DimKeys -> Nat] /\ lastRun = 0 /\ lastInvoice = 0
        /\ keeps \in BOOLEAN /\ inTurn \in BOOLEAN /\ owed \in BOOLEAN
    BY DEF ImportsInit
  <2> QED BY <1>1, <2>1, <2>2, <2>3, <2>4, <2>5, ImportTypes DEF ImportState
<1>3. areq \in [Workers -> ImportRequest] /\ \A r \in Workers : areq[r] = AIdle
  BY ImportTypes DEF ImportsInit
<1>4. ImportWork(AIdle) /\ ImportsApart(AIdle, AIdle)
  BY ImportTypes DEF ImportWork, InvoiceWork, RowsWork, SyncWork, ImportsApart, Recalculating
<1>5. SortedInTime
  <2>1. RowsOf(aggregates) = {}
    BY <1>1, RowFacts, ImportTypes
  <2> QED BY <2>1 DEF SortedInTime
<1>6. CountedInTime
  <2>1. \A p \in Products : Purchases(p) = 0
    BY PurchaseCount DEF Purchased, ImportsInit, NoRow
  <2> QED BY <1>1, <1>3, <2>1, ImportTypes DEF CountedInTime, Counted
<1> QED BY <1>2, <1>3, <1>4, <1>5, <1>6 DEF ImportInv

LEMMA ImportStep ==
    ASSUME ImportInv, [ImportsNext]_importVars
    PROVE  ImportInv'
<1>1. ASSUME NEW r \in Workers, AStep(r) PROVE ImportInv'
  BY <1>1, AArrives, AStopped, ADeadlocked, ALooks, AInserts, ACommitsImport, AStarts, ADeletesRows,
     AInsertsRows, ACommitsRows, AUpdates, ALooksUp, ACommitsSync DEF AStep
<1>2. CASE UNCHANGED importVars
  <2>1. /\ UNCHANGED <<keeps, invoices, lastInvoice, aggregates, lastRun, dims, inTurn, owed, areq>>
        /\ \A p \in Products : Purchases(p)' = Purchases(p) /\ (Purchased(p)' <=> Purchased(p))
    BY <1>2 DEF importVars, importDb, importHistory, Purchases, Purchased
  <2>2. ImportState'
    BY <2>1 DEF ImportInv, ImportState, LinkedProductExists
  <2>3. ASSUME NEW r \in Workers PROVE ImportWork(areq[r])'
    <3>1. ImportWork(areq[r]) /\ \A y \in areq[r].rows : y[1] \in Products
      BY DEF ImportInv, ImportRequest
    <3>2. \A y \in areq[r].rows : Purchased(y[1])' <=> Purchased(y[1])
      BY <2>1, <3>1
    <3>3. RowsWork(areq[r])'
      BY <2>1, <3>1, <3>2 DEF ImportWork, RowsWork
    <3> QED BY <2>1, <3>1, <3>3 DEF ImportWork, InvoiceWork, SyncWork
  <2>4. \A r, o \in Workers : r # o => ImportsApart(areq[r], areq[o])'
    BY <2>1 DEF ImportInv, ImportsApart
  <2>5. SortedInTime'
    BY <2>1 DEF ImportInv, SortedInTime, Sorts
  <2>6. CountedInTime'
    BY <2>1 DEF ImportInv, CountedInTime, Counted, HasCounted, WillCount
  <2> QED BY <2>1, <2>2, <2>3, <2>4, <2>5, <2>6 DEF ImportInv
<1> QED BY <1>1, <1>2 DEF ImportsNext

(* However imports, recalculations, EANs and synchronisations overlap: at  *)
(* rest the aggregates count the lines on record when none failed and, for *)
(* suppliers whose invoices are replaced, none overlapped; every aggregate *)
(* has its category; and what one is linked to in dim_produit is there     *)
(* (services/taiyat.py, eurociel.py, metro.py).                            *)
THEOREM PurchasesStayConsistent == ImportsSpec => []ImportsConsistent
<1>1. ImportsInit => ImportInv
  BY ImportInitial
<1>2. ImportInv /\ [ImportsNext]_importVars => ImportInv'
  BY ImportStep
<1>3. ImportInv => ImportsConsistent
  <2> SUFFICES ASSUME ImportInv PROVE ImportsConsistent
    OBVIOUS
  <2>1. AggregatesUpToDate
    <3> SUFFICES ASSUME \A r \in Workers : ~Busy(areq, r), ~owed, keeps \/ inTurn, NEW p \in Products
                 PROVE  aggregates[p].n = Purchases(p)
      BY DEF AggregatesUpToDate
    <3>1. \A r \in Workers : ~WillCount(areq[r]) /\ ~HasCounted(areq[r])
      BY DEF Busy, WillCount, HasCounted
    <3> QED BY <3>1 DEF ImportInv, CountedInTime, Counted
  <2>2. CategoriesComplete
    <3> SUFFICES ASSUME \A r \in Workers : ~Busy(areq, r), ~owed, NEW x \in RowsOf(aggregates)
                 PROVE  aggregates[x[1]].sorted
      BY DEF CategoriesComplete
    <3>1. \A r \in Workers : ~Sorts(areq[r], x)
      BY DEF Busy, Sorts
    <3> QED BY <3>1 DEF ImportInv, SortedInTime
  <2>3. LinkedProductExists
    BY DEF ImportInv, ImportState
  <2> QED BY <2>1, <2>2, <2>3 DEF ImportsConsistent
<1> QED BY <1>1, <1>2, <1>3, PTL DEF ImportsSpec

(* METRO never changes an invoice that it has: two imports that insert the *)
(* same number are kept apart by its uniqueness (services/metro.py).       *)
THEOREM InvoicesOnceKept == ImportsSpec => KeptInvoices
<1>1. ImportsInit => ImportInv
  BY ImportInitial
<1>2. ImportInv /\ [ImportsNext]_importVars => ImportInv'
  BY ImportStep
<1>3. ImportInv /\ [ImportsNext]_importVars
      => [\A n \in InvoiceNos : keeps /\ invoices[n].id # 0 => invoices'[n] = invoices[n]]_importVars
  <2> SUFFICES ASSUME ImportInv, [ImportsNext]_importVars, NEW n \in InvoiceNos, keeps, invoices[n].id # 0
               PROVE  invoices'[n] = invoices[n]
    OBVIOUS
  <2>1. CASE UNCHANGED importVars
    BY <2>1 DEF importVars, importDb
  <2>2. ASSUME NEW r \in Workers, CommitImport(r) PROVE invoices'[n] = invoices[n]
    BY <2>2, OnlyAdds
  <2>3. ASSUME NEW r \in Workers, AStep(r), ~CommitImport(r) PROVE UNCHANGED invoices
    BY <2>3 DEF AStep, AArrive, AAbort, ADeadlock, AFail, AKeep, importDb, LookUpInvoice, DeleteInvoice,
       SkipInvoice, InsertInvoice, StartRecalculation, DeleteAggregates, InsertAggregates,
       CommitAggregates, LoadAggregates, SortAggregates, SetProductEan, StartSync, SyncProduct, CommitSync
  <2> QED BY <2>1, <2>2, <2>3 DEF ImportsNext
<1> QED BY <1>1, <1>2, <1>3, PTL DEF ImportsSpec, KeptInvoices

(***************************************************************************)
(* The links to suppliers' products.  A row, and what a user has picked,   *)
(* has the number of its article until that is recalculated, and then of   *)
(* none, since numbers only grow (NamesOwn).  A script adds rows of an     *)
(* ingredient in one step, which differ from those on record and from each *)
(* other (AddsNew) as long as nothing overlaps.                            *)
(***************************************************************************)
LinkRow == [ingredient : Dishware, article : Goods, number : Nat, supplier : Suppliers,
            primary : BOOLEAN]
LinkRequest ==
    [pc : {"idle", "link", "create", "sync"}, op : Scripts \cup {"none", "seed", "create", "sync"},
     todo : SUBSET Dishware, seen : SUBSET (Dishware \X Nat \X Suppliers), new : SUBSET LinkRow,
     broken : BOOLEAN, loaded : SUBSET LinkRow, article : Goods \cup {NoArticle}, number : Nat]
LinkTypes ==
    /\ numbers \in [Goods -> Nat] /\ lastNumber \in [Suppliers -> Nat] /\ lastMade \in Nat
    /\ DOMAIN made \subseteq 1..lastMade /\ made \in [DOMAIN made -> LinkRow]
    /\ added \subseteq Dishware /\ oneAtATime \in BOOLEAN
    /\ preq \in [Workers -> LinkRequest]

NumbersGrow ==
    /\ \A a \in Goods : numbers[a] <= lastNumber[SupplierOf(a)]
    /\ \A a, b \in Goods :
          SupplierOf(a) = SupplierOf(b) /\ numbers[a] = numbers[b] /\ numbers[a] # 0 => a = b

(* Article a has, or had, number n. *)
NamesOwn(a, n) ==
    a \notin MetroGoods =>
        /\ n \in 1..lastNumber["OTHER"]
        /\ \A b \in Goods \ MetroGoods : numbers[b] = n => b = a
OwnRow(x) == x.supplier = SupplierOf(x.article) /\ NamesOwn(x.article, x.number)

Picks(q) ==
    /\ IsFiniteSet(q.new) /\ \A x \in q.new : OwnRow(x)
    /\ q.pc = "create" => /\ q.article \in Goods /\ NamesOwn(q.article, q.number)
                          /\ \E i \in Dishware : q.todo = {i}
    /\ q.pc = "link" => q.op \in Scripts \cup {"seed"}

Distinct(x, y) == KeyOf(x) # KeyOf(y) /\ ~(x.primary /\ y.primary)
AddsNew(q) ==
    q.pc = "link" =>
        /\ q.seen = {KeyOf(x) : x \in Rows}
        /\ \A x \in q.new : KeyOf(x) \notin q.seen /\ x.ingredient \notin q.todo
        /\ \A x, y \in q.new : x # y /\ x.ingredient = y.ingredient => Distinct(x, y)
        /\ q.op = "auto2" => \A i \in q.todo \cup {x.ingredient : x \in q.new} : LinksOf(i) = {}

Alone1 == oneAtATime =>
    /\ \A p, r \in Workers : Busy(preq, p) /\ Busy(preq, r) => p = r
    /\ \A r \in Workers : AddsNew(preq[r])

LinksInv ==
    /\ LinkTypes /\ NumbersGrow /\ LinksInTurn /\ Alone1
    /\ \A x \in Rows : OwnRow(x)
    /\ \A r \in Workers : Picks(preq[r])

LEMMA PIdleType == PIdle \in LinkRequest /\ PIdle.pc = "idle" /\ Picks(PIdle) /\ AddsNew(PIdle)
<1>1. PIdle \in LinkRequest /\ PIdle.pc = "idle" /\ PIdle.new = {}
  BY LinksAssumption DEF PIdle, LinkRequest
<1> QED BY <1>1, FS_EmptySet DEF Picks, AddsNew

LEMMA InitLinks == LinksInit => LinksInv
<1> SUFFICES ASSUME LinksInit PROVE LinksInv
  OBVIOUS
<1>1. DOMAIN made = {} /\ Rows = {}
  BY DEF LinksInit, Rows
<1>2. made \in [DOMAIN made -> LinkRow] /\ DOMAIN made \subseteq 1..lastMade
  BY <1>1 DEF LinksInit
<1>3. LinkTypes
  BY <1>2, PIdleType, LinksAssumption DEF LinksInit, LinkTypes
<1>4. NumbersGrow
  BY <1>3 DEF LinksInit, NumbersGrow, SupplierOf, Suppliers
<1>5. LinksInTurn /\ Alone1
  BY <1>1, PIdleType DEF LinksInit, LinksInTurn, Alone1, Busy
<1> QED BY <1>1, <1>3, <1>4, <1>5, PIdleType DEF LinksInit, LinksInv

(* One request moves, and neither the links nor the numbers do. *)
LEMMA LinkStep ==
    ASSUME LinksInv, NEW r \in Workers, NEW x \in LinkRequest, PBecome(r, x),
           UNCHANGED <<numbers, lastNumber, made, lastMade, added>>, oneAtATime' \in BOOLEAN, Picks(x),
           oneAtATime' =>
               /\ oneAtATime /\ AddsNew(x)
               /\ x.pc # "idle" => \A q \in Workers \ {r} : ~Busy(preq, q)
    PROVE  LinksInv'
<1>1. /\ preq' \in [Workers -> LinkRequest] /\ preq'[r] = x
      /\ \A q \in Workers \ {r} : preq'[q] = preq[q]
  BY DEF PBecome, LinksInv, LinkTypes
<1>2. LinkTypes'
  BY <1>1 DEF LinksInv, LinkTypes
<1>3. NumbersGrow' /\ LinksInTurn'
  BY DEF LinksInv, NumbersGrow, LinksInTurn, KeyOf
<1>4. \A y \in Rows' : OwnRow(y)'
  BY DEF LinksInv, Rows, OwnRow, NamesOwn
<1>5. \A q \in Workers : Picks(preq'[q])
  BY <1>1 DEF LinksInv
<1>6. \A q \in Workers : Picks(preq[q])'
  BY <1>5 DEF Picks, OwnRow, NamesOwn
<1>7. Alone1'
  <2>1. ASSUME oneAtATime'
        PROVE  \A p, q \in Workers : Busy(preq', p) /\ Busy(preq', q) => p = q
    BY <1>1, <2>1 DEF LinksInv, Alone1, Busy
  <2>2. ASSUME oneAtATime'
        PROVE  \A q \in Workers : AddsNew(preq'[q])
    BY <1>1, <2>2 DEF LinksInv, Alone1
  <2>3. ASSUME oneAtATime', NEW q \in Workers
        PROVE  AddsNew(preq[q])'
    BY <2>2, <2>3 DEF AddsNew, Rows, LinksOf, KeyOf, Distinct
  <2> QED BY <2>1, <2>3 DEF Alone1
<1> QED BY <1>2, <1>3, <1>4, <1>6, <1>7 DEF LinksInv

LEMMA PEndLinks ==
    ASSUME LinksInv, NEW r \in Workers, PEnd(r),
           UNCHANGED <<numbers, lastNumber, made, lastMade, added, oneAtATime>>
    PROVE  LinksInv'
BY LinkStep, PIdleType DEF PEnd, LinksInv, LinkTypes

LEMMA KeysTyped ==
    ASSUME LinksInv
    PROVE  Rows \subseteq LinkRow /\ {KeyOf(x) : x \in Rows} \subseteq Dishware \X Nat \X Suppliers
BY DEF LinksInv, LinkTypes, Rows, LinkRow, KeyOf

LEMMA ArriveLinks ==
    ASSUME LinksInv, NEW r \in Workers, PArrive(r)
    PROVE  LinksInv'
<1>1. ASSUME NEW x \in LinkRequest, PBecome(r, x), UNCHANGED <<linkDb, added>>,
             oneAtATime' = (oneAtATime /\ InProgress(preq, r) = {}),
             Picks(x), AddsNew(x)
      PROVE  LinksInv'
  <2>1. InProgress(preq, r) = {} => \A q \in Workers \ {r} : ~Busy(preq, q)
    BY DEF InProgress
  <2>2. oneAtATime' \in BOOLEAN
    BY <1>1
  <2> QED BY <1>1, <2>1, <2>2, LinkStep DEF linkDb
<1>2. CASE StartScript(r)
  <2>1. PICK op \in Scripts \cup {"seed"} :
           PStart(r, op, [PIdle EXCEPT !.pc = "link", !.todo = GetIngredients(op),
                                       !.seen = {KeyOf(x) : x \in Rows}])
    BY <1>2 DEF StartScript
  <2>2. PICK K : K = {KeyOf(x) : x \in Rows}
    OBVIOUS
  <2>3. PICK x : x = [[PIdle EXCEPT !.pc = "link", !.todo = GetIngredients(op), !.seen = K]
                        EXCEPT !.op = op]
    OBVIOUS
  <2>4. GetIngredients(op) \subseteq Dishware /\ K \subseteq Dishware \X Nat \X Suppliers
    BY <2>2, KeysTyped DEF GetIngredients
  <2>5. /\ x.pc = "link" /\ x.op = op /\ x.todo = GetIngredients(op) /\ x.seen = K /\ x.new = {}
        /\ x \in LinkRequest
    BY <2>3, <2>4, LinksAssumption DEF PIdle, LinkRequest
  <2>6. Picks(x)
    BY <2>5, FS_EmptySet DEF Picks
  <2>7. AddsNew(x)
    BY <2>2, <2>5 DEF AddsNew, GetIngredients
  <2> QED BY <1>1, <2>1, <2>2, <2>3, <2>5, <2>6, <2>7 DEF PStart
<1>3. CASE SearchProducts(r)
  <2>1. PICK a \in Goods, i \in Dishware :
           /\ a \in MetroGoods \/ numbers[a] # 0
           /\ PStart(r, "create", [PIdle EXCEPT !.pc = "create", !.todo = {i}, !.article = a,
                        !.number = IF a \in MetroGoods THEN DimNumber[a] ELSE numbers[a]])
    BY <1>3 DEF SearchProducts
  <2>2. PICK n : n = IF a \in MetroGoods THEN DimNumber[a] ELSE numbers[a]
    OBVIOUS
  <2>3. n \in Nat /\ NamesOwn(a, n)
    <3>1. CASE a \in MetroGoods
      BY <2>2, <3>1, LinksAssumption DEF NamesOwn
    <3>2. CASE a \notin MetroGoods
      BY <2>1, <2>2, <3>2 DEF NamesOwn, LinksInv, LinkTypes, NumbersGrow, SupplierOf, Suppliers
    <3> QED BY <3>1, <3>2
  <2>4. PICK x : x = [[PIdle EXCEPT !.pc = "create", !.todo = {i}, !.article = a, !.number = n]
                        EXCEPT !.op = "create"]
    OBVIOUS
  <2>5. /\ x.pc = "create" /\ x.todo = {i} /\ x.article = a /\ x.number = n /\ x.new = {}
        /\ x \in LinkRequest
    BY <2>3, <2>4 DEF PIdle, LinkRequest
  <2>6. Picks(x) /\ AddsNew(x)
    BY <2>3, <2>5, FS_EmptySet DEF Picks, AddsNew
  <2> QED BY <1>1, <2>1, <2>2, <2>4, <2>5, <2>6 DEF PStart
<1>4. CASE SyncPrices(r)
  <2>1. PICK K : K = {x \in Rows : x.primary}
    OBVIOUS
  <2>2. PICK x : x = [[PIdle EXCEPT !.pc = "sync", !.loaded = K] EXCEPT !.op = "sync"]
    OBVIOUS
  <2>3. x.pc = "sync" /\ x.new = {} /\ x \in LinkRequest
    BY <2>1, <2>2, KeysTyped, LinksAssumption DEF PIdle, LinkRequest
  <2>4. Picks(x) /\ AddsNew(x)
    BY <2>3, FS_EmptySet DEF Picks, AddsNew
  <2> QED BY <1>1, <1>4, <2>1, <2>2, <2>3, <2>4 DEF SyncPrices, PStart
<1> QED BY <1>2, <1>3, <1>4 DEF PArrive

(* A step of a script that has what it had, or new rows of one ingredient. *)
LEMMA ScriptStep ==
    ASSUME LinksInv, NEW r \in Workers, NEW x \in LinkRequest, PBecome(r, x), PKeep,
           preq[r].pc = "link", x.pc = "link", x.op = preq[r].op, x.seen = preq[r].seen,
           NEW i \in preq[r].todo, x.todo = preq[r].todo \ {i}, NEW N, IsFiniteSet(N),
           x.new = preq[r].new \cup N,
           \A y \in N : y.ingredient = i /\ OwnRow(y) /\ y \in LinkRow,
           oneAtATime => \A y \in N : KeyOf(y) \notin preq[r].seen,
           \A y, z \in N : y # z => Distinct(y, z)
    PROVE  LinksInv'
<1> DEFINE q == preq[r]
<1>1. q \in LinkRequest /\ Picks(q)
  BY DEF LinksInv, LinkTypes
<1>2. Picks(x)
  <2>1. IsFiniteSet(q.new)
    BY <1>1 DEF Picks
  <2>2. IsFiniteSet(x.new)
    <3>1. IsFiniteSet(q.new \cup N)
      BY <2>1, FS_Union
    <3> QED BY <3>1
  <2> QED BY <1>1, <2>2 DEF Picks
<1>3. ASSUME oneAtATime PROVE AddsNew(x) /\ \A p \in Workers \ {r} : ~Busy(preq, p)
  <2>1. AddsNew(q) /\ \A p \in Workers \ {r} : ~Busy(preq, p)
    BY <1>3 DEF LinksInv, Alone1, Busy
  <2>2. \A y \in x.new : KeyOf(y) \notin x.seen /\ y.ingredient \notin x.todo
    BY <1>3, <2>1 DEF AddsNew
  <2>3. ASSUME NEW y \in x.new, NEW z \in x.new, y # z, y.ingredient = z.ingredient
        PROVE  Distinct(y, z)
    BY <2>1, <2>3 DEF AddsNew
  <2>4. x.op = "auto2" =>
           \A j \in x.todo \cup {y.ingredient : y \in x.new} : LinksOf(j) = {}
    BY <2>1 DEF AddsNew
  <2> QED BY <2>1, <2>2, <2>3, <2>4 DEF AddsNew
<1> QED BY <1>2, <1>3, LinkStep DEF PKeep, linkDb, LinksInv, LinkTypes

LEMMA SeedLinks ==
    ASSUME LinksInv, NEW r \in Workers, NEW i \in Dishware, LinkEpicerieProducts(r, i)
    PROVE  LinksInv'
<1> DEFINE q == preq[r]
<1>1. q \in LinkRequest /\ Picks(q) /\ q.pc = "link" /\ i \in q.todo /\ PKeep
  BY DEF LinksInv, LinkTypes, LinkEpicerieProducts
<1>2. ASSUME NEW N, IsFiniteSet(N), N \subseteq LinkRow,
             PBecome(r, [q EXCEPT !.todo = @ \ {i}, !.new = q.new \cup N]),
             \A y \in N : y.ingredient = i /\ OwnRow(y),
             oneAtATime => \A y \in N : KeyOf(y) \notin q.seen,
             \A y, z \in N : y = z
      PROVE  LinksInv'
  <2>1. PICK x : x = [q EXCEPT !.todo = @ \ {i}, !.new = q.new \cup N]
    OBVIOUS
  <2>2. /\ x \in LinkRequest /\ x.pc = "link" /\ x.op = q.op /\ x.seen = q.seen
        /\ x.todo = q.todo \ {i} /\ x.new = q.new \cup N
    BY <1>1, <1>2, <2>1 DEF LinkRequest
  <2>3. PBecome(r, x) /\ \A y, z \in N : y # z => Distinct(y, z)
    BY <1>2, <2>1
  <2> HIDE DEF q
  <2> QED BY <1>1, <1>2, <2>2, <2>3, ScriptStep DEF q
<1>3. CASE PBecome(r, [q EXCEPT !.todo = @ \ {i}])
  <2>1. [q EXCEPT !.todo = @ \ {i}, !.new = q.new \cup {}] = [q EXCEPT !.todo = @ \ {i}]
    BY <1>1 DEF LinkRequest
  <2> QED BY <1>2, <1>3, <2>1, FS_EmptySet
<1>4. CASE \E a \in {b \in Keywords[i] : numbers[b] # 0} :
              PBecome(r, [q EXCEPT !.todo = @ \ {i},
                                  !.new = IF \E x \in LinksOf(i) : x.number = numbers[a] THEN @
                                          ELSE @ \cup {Row(i, a, numbers[a], "METRO", TRUE)}])
  <2>1. PICK a \in Keywords[i] :
              PBecome(r, [q EXCEPT !.todo = @ \ {i},
                                  !.new = IF \E x \in LinksOf(i) : x.number = numbers[a] THEN @
                                          ELSE @ \cup {Row(i, a, numbers[a], "METRO", TRUE)}])
    BY <1>4
  <2>2. PICK y : y = Row(i, a, numbers[a], "METRO", TRUE)
    OBVIOUS
  <2>3. a \in MetroGoods /\ a \in Goods /\ numbers[a] \in Nat
    BY LinksAssumption DEF LinksInv, LinkTypes
  <2>4. /\ y \in LinkRow /\ y.ingredient = i /\ y.article = a /\ y.number = numbers[a]
        /\ y.supplier = "METRO"
    BY <2>2, <2>3 DEF Row, LinkRow, Suppliers
  <2>5. OwnRow(y)
    BY <2>3, <2>4 DEF OwnRow, NamesOwn, SupplierOf
  <2>6. CASE \E x \in LinksOf(i) : x.number = numbers[a]
    BY <1>3, <2>1, <2>6
  <2>7. CASE ~ \E x \in LinksOf(i) : x.number = numbers[a]
    <3>1. ASSUME oneAtATime PROVE KeyOf(y) \notin q.seen
      <4>1. q.seen = {KeyOf(x) : x \in Rows}
        BY <1>1, <3>1 DEF LinksInv, Alone1, AddsNew
      <4> QED BY <2>4, <2>7, <4>1 DEF LinksOf, KeyOf
    <3>2. PBecome(r, [q EXCEPT !.todo = @ \ {i}, !.new = q.new \cup {y}])
      BY <2>1, <2>2, <2>7
    <3>3. IsFiniteSet({y})
      BY FS_Singleton
    <3> QED BY <1>2, <2>4, <2>5, <3>1, <3>2, <3>3
  <2> QED BY <2>6, <2>7
<1> QED BY <1>3, <1>4 DEF LinkEpicerieProducts

LEMMA BestLinks ==
    ASSUME LinksInv, NEW r \in Workers, NEW i \in Dishware, LinkBest(r, i)
    PROVE  LinksInv'
<1> DEFINE q == preq[r]
           F == Found[i][q.op]
           best == Best(q.op, i)
           row(k) == LET a == F[k] IN Row(i, a, numbers[a], SupplierOf(a), \A j \in best : k <= j)
           f == [k \in best |-> row(k)]
           N == {x \in {row(k) : k \in best} : KeyOf(x) \notin q.seen}
<1>1. q \in LinkRequest /\ q.pc = "link" /\ i \in q.todo /\ q.op \in Scripts /\ PKeep
  BY DEF LinksInv, LinkTypes, LinkBest
<1>2. F \in Seq(Goods) /\ \A j, k \in DOMAIN F : F[j] = F[k] => j = k
  BY <1>1, LinksAssumption
<1>3. best \subseteq DOMAIN F /\ \A k \in best : numbers[F[k]] # 0
  BY DEF Best
<1>4. DOMAIN F \subseteq Nat /\ IsFiniteSet(best)
  <2>1. DOMAIN F = 1..Len(F) /\ Len(F) \in Nat
    BY <1>2
  <2>2. 1 \in Int /\ Len(F) \in Int
    BY <2>1, SMT
  <2>3. IsFiniteSet(1..Len(F))
    BY ONLY <2>2, FS_Interval, SMTT(30)
  <2> QED BY <1>3, <2>1, <2>3, FS_Subset
<1> HIDE DEF best
<1>5. ASSUME NEW k \in best
      PROVE  /\ F[k] \in Goods /\ row(k) \in LinkRow /\ OwnRow(row(k)) /\ row(k).ingredient = i
             /\ row(k).number = numbers[F[k]] /\ row(k).supplier = SupplierOf(F[k])
             /\ row(k).primary <=> \A j \in best : k <= j
  <2>1. F[k] \in Goods /\ numbers[F[k]] \in Nat /\ numbers[F[k]] # 0
    BY <1>2, <1>3 DEF LinksInv, LinkTypes
  <2>2. PICK a : a = F[k]
    OBVIOUS
  <2>3. PICK b : b = \A j \in best : k <= j
    OBVIOUS
  <2>4. PICK x : x = Row(i, a, numbers[a], SupplierOf(a), b)
    OBVIOUS
  <2>5. x = row(k)
    BY <2>2, <2>3, <2>4
  <2>6. SupplierOf(a) \in Suppliers
    BY DEF SupplierOf, Suppliers
  <2>7. b \in BOOLEAN
    BY <2>3
  <2>8. /\ x \in LinkRow /\ x.ingredient = i /\ x.article = a /\ x.number = numbers[a]
        /\ x.supplier = SupplierOf(a) /\ x.primary = b
    BY <2>1, <2>2, <2>4, <2>6, <2>7 DEF Row, LinkRow
  <2>9. OwnRow(x)
    <3>1. NamesOwn(a, numbers[a])
      BY <2>1, <2>2 DEF NamesOwn, LinksInv, LinkTypes, NumbersGrow, SupplierOf, Suppliers
    <3> QED BY <2>8, <3>1 DEF OwnRow
  <2> HIDE DEF row
  <2> QED BY <2>1, <2>2, <2>3, <2>5, <2>8, <2>9
<1> HIDE DEF row
<1>6. IsFiniteSet(N)
  <2>1. f \in Surjection(best, {row(k) : k \in best})
    BY DEF Surjection
  <2>2. IsFiniteSet({row(k) : k \in best})
    BY <1>4, <2>1, FS_Surjection
  <2> QED BY <2>2, FS_Subset
<1>7. ASSUME NEW y \in N, NEW z \in N, y # z
      PROVE  Distinct(y, z)
  <2>1. PICK j \in best : y = row(j)
    OBVIOUS
  <2>2. PICK k \in best : z = row(k)
    OBVIOUS
  <2>3. j # k /\ F[j] # F[k] /\ j \in Nat /\ k \in Nat
    BY <1>2, <1>3, <1>4, <1>7, <2>1, <2>2
  <2>4. KeyOf(y) # KeyOf(z)
    BY <1>3, <1>5, <2>1, <2>2, <2>3 DEF KeyOf, LinksInv, NumbersGrow
  <2>5. ~(y.primary /\ z.primary)
    BY <1>5, <2>1, <2>2, <2>3
  <2> QED BY <2>4, <2>5 DEF Distinct
<1>8. \A y \in N : y.ingredient = i /\ OwnRow(y) /\ y \in LinkRow /\ KeyOf(y) \notin q.seen
  BY <1>5
<1>9. PBecome(r, [q EXCEPT !.todo = @ \ {i}, !.new = q.new \cup N])
  BY <1>1 DEF LinkBest, row, best
<1> HIDE DEF N, q
<1>10. PICK x : x = [q EXCEPT !.todo = @ \ {i}, !.new = q.new \cup N]
  OBVIOUS
<1>11. /\ x \in LinkRequest /\ x.pc = "link" /\ x.op = q.op /\ x.seen = q.seen
       /\ x.todo = q.todo \ {i} /\ x.new = q.new \cup N
  BY <1>1, <1>8, <1>10 DEF LinkRequest
<1> QED BY <1>1, <1>6, <1>7, <1>8, <1>9, <1>10, <1>11, ScriptStep DEF q

LEMMA PassLinks ==
    ASSUME LinksInv, NEW r \in Workers, RefuseStatement(r) \/ PassOver(r)
    PROVE  LinksInv'
<1> DEFINE q == preq[r]
<1>1. q \in LinkRequest /\ Picks(q) /\ q.pc = "link" /\ PKeep
  BY DEF LinksInv, LinkTypes, RefuseStatement, PassOver
<1>2. CASE PEnd(r)
  BY <1>1, <1>2, PEndLinks DEF PKeep, linkDb
<1>3. ASSUME NEW T, T \subseteq q.todo, NEW b \in BOOLEAN,
             PBecome(r, [q EXCEPT !.todo = T, !.broken = b])
      PROVE  LinksInv'
  <2>1. PICK x : x = [q EXCEPT !.todo = T, !.broken = b]
    OBVIOUS
  <2>2. /\ x \in LinkRequest /\ x.pc = "link" /\ x.op = q.op /\ x.seen = q.seen /\ x.todo = T
        /\ x.new = q.new
    BY <1>1, <1>3, <2>1 DEF LinkRequest
  <2>3. Picks(x)
    BY <1>1, <2>2 DEF Picks
  <2>4. ASSUME oneAtATime PROVE AddsNew(x) /\ \A p \in Workers \ {r} : ~Busy(preq, p)
    BY <1>1, <1>3, <2>2, <2>4 DEF LinksInv, Alone1, Busy, AddsNew
  <2> QED BY <1>1, <1>3, <2>1, <2>2, <2>3, <2>4, LinkStep DEF PKeep, linkDb, LinksInv, LinkTypes
<1>4. CASE RefuseStatement(r) /\ ~PEnd(r)
  <2>1. PICK i \in q.todo : PBecome(r, [q EXCEPT !.broken = TRUE, !.todo = @ \ {i}])
    BY <1>4 DEF RefuseStatement
  <2>2. [q EXCEPT !.broken = TRUE, !.todo = @ \ {i}] = [q EXCEPT !.todo = q.todo \ {i}, !.broken = TRUE]
    BY <1>1 DEF LinkRequest
  <2> QED BY <1>3, <2>1, <2>2
<1>5. CASE PassOver(r) /\ ~PEnd(r)
  <2>1. PBecome(r, [q EXCEPT !.todo = {}])
    BY <1>5 DEF PassOver
  <2>2. [q EXCEPT !.todo = {}] = [q EXCEPT !.todo = {}, !.broken = q.broken] /\ q.broken \in BOOLEAN
    BY <1>1 DEF LinkRequest
  <2> QED BY <1>3, <2>1, <2>2
<1> QED BY <1>2, <1>4, <1>5

LEMMA NumberedBijects ==
    ASSUME NEW new, IsFiniteSet(new), lastMade \in Nat
    PROVE  /\ Cardinality(new) \in Nat
           /\ Numbered(new) \in [lastMade + 1 .. lastMade + Cardinality(new) -> new]
           /\ \A x \in new : \E k \in lastMade + 1 .. lastMade + Cardinality(new) : Numbered(new)[k] = x
           /\ \A j, k \in lastMade + 1 .. lastMade + Cardinality(new) :
                 Numbered(new)[j] = Numbered(new)[k] => j = k
<1> DEFINE n == Cardinality(new)
           I == lastMade + 1 .. lastMade + n
<1>1. n \in Nat /\ ExistsBijection(1..n, new)
  BY FS_CardinalityType
<1>2. PICK g \in Bijection(1..n, new) : TRUE
  BY <1>1 DEF ExistsBijection
<1>3. g \in [1..n -> new] /\ \A x \in new : \E k \in 1..n : g[k] = x
  BY <1>2 DEF Bijection, Injection, Surjection
<1>4. \E f \in [I -> new] : \A x \in new : \E k \in DOMAIN f : f[k] = x
  <2> DEFINE f == [k \in I |-> g[k - lastMade]]
  <2>1. f \in [I -> new]
    BY <1>1, <1>3
  <2>2. ASSUME NEW x \in new
        PROVE  \E k \in DOMAIN f : f[k] = x
    <3>1. PICK k \in 1..n : g[k] = x
      BY <1>3
    <3>2. k + lastMade \in I /\ f[k + lastMade] = x
      BY <1>1, <3>1
    <3> QED BY <3>2
  <2> QED BY <2>1, <2>2
<1>5. /\ Numbered(new) \in [I -> new]
      /\ \A x \in new : \E k \in I : Numbered(new)[k] = x
  BY <1>4 DEF Numbered
<1> HIDE DEF n
<1>6. Numbered(new) \in Surjection(I, new)
  BY <1>5 DEF Surjection
<1>7. IsFiniteSet(I) /\ Cardinality(I) = n
  <2>1. lastMade + 1 \in Int /\ lastMade + n \in Int
    BY <1>1
  <2>2. /\ IsFiniteSet(I)
        /\ Cardinality(I) = IF lastMade + 1 > lastMade + n THEN 0 ELSE (lastMade + n) - (lastMade + 1) + 1
    BY <2>1, FS_Interval
  <2> QED BY <1>1, <2>2
<1>8. Numbered(new) \in Injection(I, new)
  <2>1. Cardinality(I) = Cardinality(new)
    BY <1>7 DEF n
  <2> HIDE DEF I
  <2>2. \A F \in Surjection(I, new) : F \in Injection(I, new)
    BY <1>7, <2>1, FS_SurjSameCardinalityImpliesInj
  <2> QED BY <1>6, <2>2
<1> QED BY <1>1, <1>5, <1>8 DEF Injection, IsInjective, n, I

(* When a request ends that has changed rows, nothing else is under way as *)
(* long as nothing has overlapped, and what others hold is unchanged.      *)
LEMMA EndLinks ==
    ASSUME LinksInv, NEW r \in Workers, Busy(preq, r), PEnd(r),
           UNCHANGED <<numbers, lastNumber, oneAtATime>>
    PROVE  /\ preq' \in [Workers -> LinkRequest] /\ NumbersGrow' /\ Alone1'
           /\ \A q \in Workers : Picks(preq[q])'
<1>1. /\ preq' \in [Workers -> LinkRequest] /\ preq'[r] = PIdle
      /\ \A q \in Workers \ {r} : preq'[q] = preq[q]
  BY PIdleType DEF PBecome, PEnd, LinksInv, LinkTypes
<1>2. NumbersGrow'
  BY DEF LinksInv, NumbersGrow
<1>3. \A q \in Workers : Picks(preq'[q])
  BY <1>1, PIdleType DEF LinksInv
<1>4. \A q \in Workers : Picks(preq[q])'
  BY <1>3 DEF Picks, OwnRow, NamesOwn
<1>5. ASSUME oneAtATime'
      PROVE  \A q \in Workers : preq'[q].pc = "idle"
  BY <1>1, <1>5, PIdleType DEF LinksInv, Alone1, Busy
<1>6. Alone1'
  <2>1. ASSUME oneAtATime', NEW q \in Workers
        PROVE  AddsNew(preq[q])'
    BY <1>5, <2>1 DEF AddsNew
  <2> QED BY <1>5, <2>1 DEF Alone1, Busy
<1> QED BY <1>1, <1>2, <1>4, <1>6

LEMMA InTurnPrimed ==
    ASSUME oneAtATime' =>
               \A k, l \in DOMAIN made' : k # l /\ made'[k].ingredient = made'[l].ingredient =>
                   /\ KeyOf(made'[k]) # KeyOf(made'[l])
                   /\ made'[k].ingredient \notin added' =>
                         ~(made'[k].primary /\ made'[l].primary)
    PROVE  LinksInTurn'
BY DEF LinksInTurn, KeyOf

LEMMA CommitLinks ==
    ASSUME LinksInv, NEW r \in Workers, CommitScript(r)
    PROVE  LinksInv'
<1> DEFINE q == preq[r]
           staying == IF q.broken THEN {} ELSE q.new
           n == Cardinality(staying)
           f == Numbered(staying)
           I == lastMade + 1 .. lastMade + n
<1>1. /\ q \in LinkRequest /\ Picks(q) /\ q.pc = "link" /\ PEnd(r) /\ Busy(preq, r)
      /\ q.op \in Scripts \cup {"seed"}
      /\ UNCHANGED <<numbers, lastNumber, priced, oneAtATime>> /\ LinkTypes
      /\ lastMade' = lastMade + n
      /\ made' = [k \in DOMAIN made \cup DOMAIN f |-> IF k \in DOMAIN f THEN f[k] ELSE made[k]]
      /\ added' = added \cup (IF q.op = "auto2" THEN {}
                            ELSE {i \in Dishware : LinksOf(i) # {} /\ \E x \in staying : x.ingredient = i})
  BY DEF LinksInv, LinkTypes, CommitScript, Busy, Picks
<1>2. IsFiniteSet(staying) /\ staying \subseteq q.new /\ staying \subseteq LinkRow /\ lastMade \in Nat
  BY <1>1, FS_EmptySet DEF Picks, LinkRequest, LinkTypes
<1>3. /\ n \in Nat /\ f \in [I -> staying]
      /\ \A j, k \in I : f[j] = f[k] => j = k
  BY <1>2, NumberedBijects
<1> HIDE DEF n, f, staying
<1>4. /\ DOMAIN made' = DOMAIN made \cup I /\ \A k \in I : made'[k] = f[k] /\ f[k] \in staying
      /\ \A k \in DOMAIN made : made'[k] = made[k] /\ k \notin I
  BY <1>1, <1>2, <1>3 DEF LinkTypes
<1>5. LinkTypes'
  <2>1. made' \in [DOMAIN made' -> LinkRow]
    BY <1>1, <1>2, <1>4 DEF LinkTypes
  <2>2. DOMAIN made' \subseteq 1..lastMade'
    BY <1>1, <1>2, <1>3, <1>4 DEF LinkTypes
  <2>3. added' \subseteq Dishware
    BY <1>1 DEF LinkTypes
  <2> QED BY <1>1, <1>3, <2>1, <2>2, <2>3, EndLinks DEF LinkTypes
<1>6. \A x \in Rows' : x \in Rows \/ x \in staying
  BY <1>4 DEF Rows
<1>7. \A x \in Rows' : OwnRow(x)'
  BY <1>1, <1>2, <1>6 DEF LinksInv, Picks, OwnRow, NamesOwn
<1>9. oneAtATime' = oneAtATime
  BY <1>1
<1>8. LinksInTurn'
  <2> SUFFICES ASSUME oneAtATime, NEW k \in DOMAIN made', NEW l \in DOMAIN made', k # l,
                      made'[k].ingredient = made'[l].ingredient
               PROVE  /\ KeyOf(made'[k]) # KeyOf(made'[l])
                      /\ made'[k].ingredient \notin added' => ~(made'[k].primary /\ made'[l].primary)
    BY <1>9, InTurnPrimed
  <2>1. AddsNew(q)
    BY DEF LinksInv, Alone1
  <2>2. ASSUME NEW a \in DOMAIN made, NEW x \in staying, made[a].ingredient = x.ingredient
        PROVE  KeyOf(made[a]) # KeyOf(x) /\ x.ingredient \in added'
    <3>1. made[a] \in Rows /\ made[a] \in LinksOf(x.ingredient)
      BY <2>2 DEF Rows, LinksOf
    <3>2. KeyOf(made[a]) # KeyOf(x)
      BY <1>1, <1>2, <2>1, <3>1 DEF AddsNew
    <3>3. q.op # "auto2"
      BY <1>1, <1>2, <2>1, <3>1 DEF AddsNew
    <3>4. x.ingredient \in Dishware
      BY <1>2 DEF LinkRow
    <3> QED BY <1>1, <3>1, <3>2, <3>3, <3>4
  <2>3. CASE k \in DOMAIN made /\ l \in DOMAIN made
    BY <1>1, <1>4, <2>3 DEF LinksInv, LinksInTurn
  <2>4. CASE k \in DOMAIN made /\ l \in I
    BY <1>4, <2>2, <2>4
  <2>5. CASE k \in I /\ l \in DOMAIN made
    BY <1>4, <2>2, <2>5
  <2>6. CASE k \in I /\ l \in I
    BY <1>1, <1>2, <1>3, <1>4, <2>1, <2>6 DEF AddsNew, Distinct
  <2> QED BY <1>4, <2>3, <2>4, <2>5, <2>6
<1> QED BY <1>1, <1>5, <1>7, <1>8, EndLinks DEF LinksInv

LEMMA CreateLinks ==
    ASSUME LinksInv, NEW r \in Workers, NEW b \in BOOLEAN, CreateEpicerieLink(r, b)
    PROVE  LinksInv'
<1> DEFINE q == preq[r]
           s == SupplierOf(q.article)
<1>1. /\ q \in LinkRequest /\ q.pc = "create" /\ PEnd(r) /\ Busy(preq, r) /\ LinkTypes
      /\ q.article \in Goods /\ NamesOwn(q.article, q.number)
  BY DEF LinksInv, LinkTypes, CreateEpicerieLink, Busy, Picks
<1>2. PICK i \in Dishware : i = CHOOSE j \in q.todo : TRUE
  BY <1>1 DEF LinksInv, Picks
<1>3. CASE PKeep
  BY <1>1, <1>3, PEndLinks DEF PKeep, linkDb
<1>4. CASE ~PKeep
  <2>1. /\ ~ \E x \in LinksOf(i) : KeyOf(x) = <<i, q.number, s>>
        /\ lastMade' = lastMade + 1
        /\ made' = [k \in DOMAIN made \cup {lastMade'} |->
                       IF k = lastMade' THEN Row(i, q.article, q.number, s, b)
                       ELSE IF b /\ made[k].ingredient = i THEN [made[k] EXCEPT !.primary = FALSE]
                       ELSE made[k]]
        /\ UNCHANGED <<numbers, lastNumber, oneAtATime, added>>
    BY <1>2, <1>4 DEF CreateEpicerieLink
  <2>2. PICK new : new = Row(i, q.article, q.number, s, b)
    OBVIOUS
  <2>3. /\ new \in LinkRow /\ new.ingredient = i /\ new.article = q.article
        /\ new.number = q.number /\ new.supplier = s /\ new.primary = b
    BY <1>1, <2>2 DEF Row, LinkRow, LinkRequest, SupplierOf, Suppliers
  <2>4. /\ DOMAIN made' = DOMAIN made \cup {lastMade + 1} /\ made'[lastMade + 1] = new
        /\ lastMade \in Nat /\ lastMade + 1 \notin DOMAIN made
    BY <1>1, <2>1, <2>2 DEF LinkTypes
  <2>5. ASSUME NEW k \in DOMAIN made
        PROVE  /\ made'[k] \in LinkRow /\ made'[k].ingredient = made[k].ingredient
               /\ made'[k].article = made[k].article /\ made'[k].number = made[k].number
               /\ made'[k].supplier = made[k].supplier
               /\ made'[k].primary => made[k].primary /\ ~(b /\ made[k].ingredient = i)
    <3>1. made[k] \in LinkRow /\ k # lastMade'
      BY <1>1, <2>1, <2>4 DEF LinkTypes
    <3>2. made'[k] = IF b /\ made[k].ingredient = i THEN [made[k] EXCEPT !.primary = FALSE] ELSE made[k]
      BY <2>1, <3>1
    <3> QED BY <3>1, <3>2 DEF LinkRow
  <2>6. LinkTypes'
    <3>1. made' \in [DOMAIN made' -> LinkRow]
      BY <2>1, <2>3, <2>4, <2>5
    <3>2. DOMAIN made' \subseteq 1..lastMade'
      BY <1>1, <2>1, <2>4 DEF LinkTypes
    <3> QED BY <1>1, <2>1, <2>4, <3>1, <3>2, EndLinks DEF LinkTypes
  <2>7. \A x \in Rows' : OwnRow(x)'
    <3>1. OwnRow(new)
      BY <1>1, <2>3 DEF OwnRow
    <3>2. \A k \in DOMAIN made : OwnRow(made'[k])
      BY <2>5 DEF LinksInv, OwnRow, Rows
    <3>3. \A x \in Rows' : OwnRow(x)
      BY <2>4, <3>1, <3>2 DEF Rows
    <3> QED BY <2>1, <3>3 DEF OwnRow, NamesOwn
  <2>9. oneAtATime' = oneAtATime /\ added' = added
    BY <2>1
  <2>8. LinksInTurn'
    <3> SUFFICES ASSUME oneAtATime, NEW k \in DOMAIN made', NEW l \in DOMAIN made', k # l,
                        made'[k].ingredient = made'[l].ingredient
                 PROVE  /\ KeyOf(made'[k]) # KeyOf(made'[l])
                        /\ made'[k].ingredient \notin added =>
                              ~(made'[k].primary /\ made'[l].primary)
      BY <2>9, InTurnPrimed
    <3>1. ASSUME NEW a \in DOMAIN made, made'[a].ingredient = i
          PROVE  KeyOf(made'[a]) # KeyOf(new) /\ ~(made'[a].primary /\ new.primary)
      <4>1. made[a] \in LinksOf(i)
        BY <2>5, <3>1 DEF LinksOf, Rows
      <4>2. KeyOf(made'[a]) = KeyOf(made[a]) /\ KeyOf(new) = <<i, q.number, s>>
        BY <2>3, <2>5 DEF KeyOf
      <4>3. KeyOf(made[a]) # <<i, q.number, s>>
        BY <2>1, <4>1
      <4> QED BY <2>3, <2>5, <3>1, <4>2, <4>3
    <3>2. CASE k \in DOMAIN made /\ l \in DOMAIN made
      BY <2>5, <3>2 DEF LinksInv, LinksInTurn, KeyOf
    <3>3. CASE k = lastMade + 1 /\ l \in DOMAIN made
      BY <2>3, <2>4, <3>1, <3>3
    <3>4. CASE k \in DOMAIN made /\ l = lastMade + 1
      BY <2>3, <2>4, <3>1, <3>4
    <3> QED BY <2>4, <3>2, <3>3, <3>4
  <2> QED BY <1>1, <2>1, <2>6, <2>7, <2>8, EndLinks DEF LinksInv
<1> QED BY <1>3, <1>4

LEMMA DeleteLinks ==
    ASSUME LinksInv, DeleteEpicerieLink
    PROVE  LinksInv'
<1>1. /\ DOMAIN made' \subseteq DOMAIN made /\ \A k \in DOMAIN made' : made'[k] = made[k]
      /\ made' = [k \in DOMAIN made' |-> made'[k]]
      /\ oneAtATime' = (oneAtATime /\ \A r \in Workers : ~Busy(preq, r))
      /\ UNCHANGED <<numbers, lastNumber, lastMade, priced, added, preq>>
  BY DEF DeleteEpicerieLink
<1>2. LinkTypes'
  BY <1>1 DEF LinksInv, LinkTypes
<1>3. NumbersGrow'
  BY <1>1 DEF LinksInv, NumbersGrow
<1>7. ASSUME NEW r \in Workers PROVE Picks(preq[r])'
  <2>1. Picks(preq[r])
    BY DEF LinksInv
  <2>2. PICK q : q = preq[r]
    OBVIOUS
  <2>3. q = preq'[r] /\ Picks(q)
    BY <1>1, <2>1, <2>2
  <2>4. \A x : OwnRow(x) => OwnRow(x)'
    BY <1>1 DEF OwnRow, NamesOwn
  <2>5. \A a, n : NamesOwn(a, n) => NamesOwn(a, n)'
    BY <1>1 DEF NamesOwn
  <2>6. /\ IsFiniteSet(q.new) /\ \A x \in q.new : OwnRow(x)'
        /\ q.pc = "create" => q.article \in Goods /\ NamesOwn(q.article, q.number)'
    BY <2>3, <2>4, <2>5 DEF Picks
  <2>7. /\ q.pc = "create" => \E i \in Dishware : q.todo = {i}
        /\ q.pc = "link" => q.op \in Scripts \cup {"seed"}
    BY <2>3 DEF Picks
  <2>8. q = preq'[r]
    BY <2>3
  <2> QED BY <2>6, <2>7, <2>8 DEF Picks
<1>4. LinksInTurn'
  <2>1. oneAtATime' => LinksInTurn /\ oneAtATime
    BY <1>1 DEF LinksInv
  <2>2. \A k \in DOMAIN made' : k \in DOMAIN made /\ made'[k] = made[k]
    BY <1>1
  <2>3. added' = added
    BY <1>1
  <2> QED BY ONLY <2>1, <2>2, <2>3 DEF LinksInTurn, KeyOf
<1>5. \A x \in Rows' : OwnRow(x)'
  BY <1>1 DEF LinksInv, Rows, OwnRow, NamesOwn
<1>6. Alone1'
  BY <1>1 DEF Alone1, AddsNew, Busy
<1> QED BY <1>2, <1>3, <1>4, <1>5, <1>6, <1>7 DEF LinksInv

LEMMA SyncLinks ==
    ASSUME LinksInv, NEW r \in Workers, CommitPrices(r) \/ PAbort(r)
    PROVE  LinksInv'
BY PEndLinks DEF CommitPrices, PAbort, PKeep, linkDb

LEMMA RenumberLinks ==
    ASSUME LinksInv, NEW s \in Suppliers, RenumberAggregates(s)
    PROVE  LinksInv'
<1>1. PICK A \in SUBSET {a \in Goods : SupplierOf(a) = s} :
        /\ {a \in Goods : SupplierOf(a) = s /\ numbers[a] # 0} \subseteq A /\ A # {}
        /\ lastNumber' = [lastNumber EXCEPT ![s] = @ + Cardinality(A)]
        /\ \E f \in [A -> lastNumber[s] + 1 .. lastNumber'[s]] :
              /\ \A a, b \in A : f[a] = f[b] => a = b
              /\ numbers' = [a \in Goods |-> IF a \in A THEN f[a] ELSE numbers[a]]
        /\ UNCHANGED <<made, lastMade, priced, oneAtATime, added, preq>>
  BY DEF RenumberAggregates
<1>2. PICK f \in [A -> lastNumber[s] + 1 .. lastNumber'[s]] :
         /\ \A a, b \in A : f[a] = f[b] => a = b
         /\ numbers' = [a \in Goods |-> IF a \in A THEN f[a] ELSE numbers[a]]
  BY <1>1
<1>3. Cardinality(A) \in Nat
  <2>1. A \in SUBSET Goods
    BY <1>1
  <2>2. IsFiniteSet(A)
    BY <2>1, LinksAssumption, FS_Subset
  <2> QED BY <2>2, FS_CardinalityType
<1>4. /\ lastNumber \in [Suppliers -> Nat] /\ lastNumber' \in [Suppliers -> Nat]
      /\ \A t \in Suppliers : lastNumber[t] <= lastNumber'[t]
  BY <1>1, <1>3 DEF LinksInv, LinkTypes
<1>5. ASSUME NEW a \in Goods
      PROVE  /\ numbers'[a] \in Nat /\ numbers'[a] <= lastNumber'[SupplierOf(a)]
             /\ \/ a \notin A /\ numbers'[a] = numbers[a]
                \/ SupplierOf(a) = s /\ numbers'[a] > lastNumber[s]
             /\ SupplierOf(a) = s /\ numbers[a] # 0 => a \in A
  <2>1. SupplierOf(a) \in Suppliers /\ numbers[a] \in Nat /\ numbers[a] <= lastNumber[SupplierOf(a)]
    BY DEF SupplierOf, Suppliers, LinksInv, LinkTypes, NumbersGrow
  <2>2. CASE a \in A
    <3>1. numbers'[a] = f[a] /\ f[a] \in lastNumber[s] + 1 .. lastNumber'[s] /\ SupplierOf(a) = s
      BY <1>1, <1>2, <2>2
    <3> QED BY <1>4, <2>1, <2>2, <3>1
  <2>3. CASE a \notin A
    <3>1. numbers'[a] = numbers[a]
      BY <1>2, <2>3
    <3> QED BY <1>1, <1>4, <2>1, <2>3, <3>1
  <2> QED BY <2>2, <2>3
<1>6. LinkTypes'
  BY <1>1, <1>2, <1>4, <1>5 DEF LinksInv, LinkTypes
<1>7. NumbersGrow'
  <2>1. ASSUME NEW a \in Goods, NEW b \in Goods, SupplierOf(a) = SupplierOf(b),
               numbers'[a] = numbers'[b], numbers'[a] # 0
        PROVE  a = b
    <3>1. CASE a \in A /\ b \in A
      BY <1>2, <2>1, <3>1
    <3>2. CASE a \notin A /\ b \notin A
      BY <1>2, <2>1, <3>2 DEF LinksInv, NumbersGrow
    <3>3. CASE a \in A /\ b \notin A
      BY <1>1, <1>5, <2>1, <3>3
    <3>4. CASE a \notin A /\ b \in A
      BY <1>1, <1>5, <2>1, <3>4
    <3> QED BY <3>1, <3>2, <3>3, <3>4
  <2>2. \A a \in Goods : SupplierOf(a)' = SupplierOf(a)
    BY DEF SupplierOf
  <2> QED BY <1>5, <2>1, <2>2 DEF NumbersGrow
<1>8. ASSUME NEW a, NEW n, NamesOwn(a, n)
      PROVE  NamesOwn(a, n)'
  <2> SUFFICES ASSUME a \notin MetroGoods
               PROVE  /\ n \in 1..lastNumber'["OTHER"]
                      /\ \A b \in Goods \ MetroGoods : numbers'[b] = n => b = a
    BY DEF NamesOwn
  <2>1. n \in 1..lastNumber["OTHER"] /\ \A b \in Goods \ MetroGoods : numbers[b] = n => b = a
    BY <1>8 DEF NamesOwn
  <2>2. "OTHER" \in Suppliers /\ lastNumber["OTHER"] \in Nat /\ lastNumber'["OTHER"] \in Nat
    BY <1>4 DEF Suppliers
  <2>3. n \in 1..lastNumber'["OTHER"]
    BY <1>4, <2>1, <2>2
  <2>4. ASSUME NEW b \in Goods \ MetroGoods, numbers'[b] = n
        PROVE  b = a
    <3>1. SupplierOf(b) = "OTHER"
      BY DEF SupplierOf
    <3> QED BY <1>5, <2>1, <2>2, <2>4, <3>1
  <2> QED BY <2>3, <2>4
<1>9. \A x \in Rows' : OwnRow(x)'
  BY <1>1, <1>8 DEF LinksInv, Rows, OwnRow, SupplierOf
<1>10. ASSUME NEW r \in Workers PROVE Picks(preq[r])'
  <2>1. Picks(preq[r])
    BY DEF LinksInv
  <2> QED BY <1>1, <1>8, <2>1 DEF Picks, OwnRow, SupplierOf
<1>11. LinksInTurn' /\ Alone1'
  BY <1>1 DEF LinksInv, LinksInTurn, Alone1, AddsNew, Busy, Rows, LinksOf, KeyOf, Distinct
<1> QED BY <1>6, <1>7, <1>9, <1>10, <1>11 DEF LinksInv

LEMMA NextLinks == LinksInv /\ [LinksNext]_linkVars => LinksInv'
<1> SUFFICES ASSUME LinksInv, [LinksNext]_linkVars PROVE LinksInv'
  OBVIOUS
<1>1. CASE UNCHANGED linkVars
  <2>1. UNCHANGED <<numbers, lastNumber, made, lastMade, oneAtATime, added, preq>>
    BY <1>1 DEF linkVars, linkDb
  <2> QED BY <2>1 DEF LinksInv, LinkTypes, NumbersGrow, LinksInTurn, Alone1, AddsNew, Busy, Rows,
             LinksOf, KeyOf, Distinct, OwnRow, NamesOwn, Picks
<1>2. CASE LinksNext
  BY <1>2, ArriveLinks, SeedLinks, BestLinks, PassLinks, CommitLinks, CreateLinks, DeleteLinks,
     SyncLinks, RenumberLinks DEF LinksNext
<1> QED BY <1>1, <1>2

(* LinksConsistent: an ingredient is linked once to a number and has one   *)
(* primary link at most unless seed or auto added to its links, as long as *)
(* scripts and requests do not overlap; and a link to another supplier's   *)
(* product names its article or, once that is recalculated, none.          *)
THEOREM LinksStayConsistent == LinksSpec => []LinksConsistent
<1>1. LinksInv => LinksConsistent
  <2> SUFFICES ASSUME LinksInv, NEW x \in Rows, x.supplier # "METRO"
               PROVE  Named(x.supplier, x.number) \subseteq {x.article}
    BY DEF LinksInv, LinksConsistent, LinkNamesArticle
  <2>1. x.article \notin MetroGoods /\ x.supplier = "OTHER" /\ NamesOwn(x.article, x.number)
    BY DEF LinksInv, OwnRow, SupplierOf
  <2>2. \A a \in Aggregates("OTHER", x.number) : a \in Goods \ MetroGoods /\ numbers[a] = x.number
    BY DEF Aggregates, SupplierOf
  <2> QED BY <2>1, <2>2 DEF Named, NamesOwn
<1> QED BY <1>1, InitLinks, NextLinks, PTL DEF LinksSpec
=============================================================================
