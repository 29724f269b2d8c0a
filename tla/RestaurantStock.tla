--------------------------- MODULE RestaurantStock ---------------------------
(***************************************************************************)
(* Stock of the restaurant's ingredients: movements, inventories,          *)
(* transfers from the grocery, and the dishes served or thrown away.       *)
(* A request is a list of moves; for each it loads the stock row of the    *)
(* ingredient (and inserts it when there is none), computes the new        *)
(* quantity in Python and writes it, then commits.  A written row is       *)
(* locked until then, and what an ingredient's row held when it was loaded *)
(* stays in the identity map.                                              *)
(*                                                                         *)
(* Quantities are in thousandths, the precision of the columns.            *)
(***************************************************************************)
EXTENDS Requests, Sequences, SequencesExt

CONSTANTS
    Ingredients, Linked,      \* Linked: those with a grocery product
    Plats, Recipe,            \* Recipe[p][i]: quantity of i in a portion of p
    Seuil,                    \* seuil_alerte of each ingredient, 0 for none
    Amounts, Portions,        \* what clients ask for
    MaxQty,                   \* range of a NUMERIC(10, 3) column
    MaxServed,                \* bound on the portions of a dish ever recorded
    Ops                       \* the operations of this instance

AllOps == {"entree", "sortie", "perte", "adjust", "transfer", "bulk", "replenish",
           "serve", "waste"}

ASSUME StockAssumption ==
    /\ Linked \subseteq Ingredients /\ IsFiniteSet(Ingredients) /\ IsFiniteSet(Plats)
    /\ Recipe \in [Plats -> [Ingredients -> Nat]] /\ Seuil \in [Ingredients -> Nat]
    /\ Amounts \subseteq Nat \ {0} /\ Portions \subseteq Nat \ {0}
    /\ MaxQty \in Nat /\ MaxServed \in Nat /\ Ops \subseteq AllOps

VARIABLES
    stockRows,   \* ingredients that have a row in restaurant_stock
    qty,         \* its quantity
    served,      \* portions of each dish on record as sold, offered or staff
                 \* meals, those recorded with decrement_stock
    taken,       \* what the movements of those say was taken of each ingredient
    book,        \* history: last inventory plus the signed movements since, while alone
    alone,       \* history: no two requests have overlapped
    req

db == <<stockRows, qty, served, taken>>
history == <<book, alone>>
vars == <<db, history, req>>

(* The moves of a request: what is asked of the service for an ingredient. *)
Kinds == {"entree", "transfert", "sortie", "perte", "vente", "inventaire"}
Move == [i : Ingredients, kind : Kinds, n : Nat]
Quantities == -MaxQty..MaxQty

Pcs == {"idle", "list", "read", "insert", "write"}
Request == [pc : Pcs, op : Ops \cup {"none"}, todo : Seq(Move),
            plat : {<<>>} \cup (Plats \X Portions), q : [Ingredients -> Quantities],
            loaded : SUBSET Ingredients, new : SUBSET Ingredients,
            wrote : SUBSET Ingredients, gain : [Ingredients -> Int]]
Idle == [pc |-> "idle", op |-> "none", todo |-> <<>>, plat |-> <<>>,
         q |-> [i \in Ingredients |-> 0], loaded |-> {}, new |-> {}, wrote |-> {},
         gain |-> [i \in Ingredients |-> 0]]
(* todo: the moves left; plat: dish and portions; q: quantity of the       *)
(* objects in the session, those of loaded; new, wrote: rows inserted and  *)
(* updated; gain: sum of the signed movements.                             *)

Become(r, rec) == req' = [req EXCEPT ![r] = rec]
Fail(r) == Become(r, Idle) /\ UNCHANGED <<db, history>>
Moving(r) == Head(req[r].todo)

Moved(m, q) == CASE m.kind \in {"entree", "transfert"} -> q + m.n
                 [] m.kind \in {"sortie", "perte", "vente"} -> q - m.n
                 [] m.kind = "inventaire" -> m.n

(* RestaurantStockMovement.signed_quantity; of an inventory, the count. *)
Signed(m) == IF m.kind \in {"sortie", "perte", "vente"} THEN -m.n ELSE m.n

(* deficit * Decimal("1.2"), to the thousandth *)
Ordered(deficit) == (12 * deficit + 5) \div 10

Init ==
    /\ stockRows \in SUBSET Ingredients
    /\ qty = [i \in Ingredients |-> 0] /\ book = qty
    /\ served = [p \in Plats |-> 0] /\ taken = [i \in Ingredients |-> 0]
    /\ alone = TRUE
    /\ req = [r \in Workers |-> Idle]

-----------------------------------------------------------------------------
Begin(r, op, todo, plat) ==
    /\ req[r].pc = "idle"
    /\ Become(r, [Idle EXCEPT !.pc = IF op = "replenish" THEN "list" ELSE "read",
                              !.op = op, !.todo = todo, !.plat = plat])
    /\ alone' = (alone /\ \A q \in Workers \ {r} : req[q].pc = "idle")
    /\ book' = IF alone' THEN book ELSE [i \in Ingredients |-> 0]
    /\ UNCHANGED db

(* Moves of some ingredients, in the order the database gives them. *)
MovesOf(A, kind, n) ==
    {[j \in DOMAIN s |-> [i |-> s[j], kind |-> kind, n |-> n[s[j]]]] : s \in SetToSeqs(A)}

OfPlat(p, k, kind) ==
    MovesOf({i \in Ingredients : Recipe[p][i] > 0}, kind,
            [i \in Ingredients |-> k * Recipe[p][i]])

Arrive(r) ==
    \/ \E op \in Ops \cap {"entree", "sortie", "perte"}, i \in Ingredients, n \in Amounts :
          Begin(r, op, <<[i |-> i, kind |-> op, n |-> n]>>, <<>>)
    \/ \E op \in Ops \cap {"adjust"}, i \in Ingredients, n \in Amounts \cup {0} :
          Begin(r, op, <<[i |-> i, kind |-> "inventaire", n |-> n]>>, <<>>)
    \/ \E op \in Ops \cap {"transfer"}, i \in Ingredients, n \in Amounts :
          Begin(r, op, <<[i |-> i, kind |-> "transfert", n |-> n]>>, <<>>)
    \/ \E op \in Ops \cap {"bulk"}, i, j \in Ingredients, n \in Amounts :
          Begin(r, op, <<[i |-> i, kind |-> "transfert", n |-> n],
                         [i |-> j, kind |-> "transfert", n |-> n]>>, <<>>)
    \/ \E op \in Ops \cap {"replenish"} : Begin(r, op, <<>>, <<>>)
    \/ \E p \in Plats, k \in Portions :
          \/ \E op \in Ops \cap {"serve"}, moves \in OfPlat(p, k, "vente") :
                Begin(r, op, moves, <<p, k>>)
          \/ \E op \in Ops \cap {"waste"}, moves \in OfPlat(p, k, "perte") :
                Begin(r, op, moves, <<>>)

(* auto_replenish_from_epicerie, for one ingredient or for all: the stocks  *)
(* are loaded by one query, then those below their threshold transferred.  *)
ListLow(r) ==
    /\ req[r].pc = "list"
    /\ \E A \in {{i} : i \in Ingredients} \cup {Ingredients} :
          LET low == {i \in A \cap stockRows : Seuil[i] # 0 /\ qty[i] < Seuil[i]}
              missing == [i \in Ingredients |-> Ordered(Seuil[i] - qty[i])]
          IN \E moves \in MovesOf(low, "transfert", missing) :
                Become(r, [req[r] EXCEPT
                    !.pc = "read", !.todo = moves, !.loaded = A \cap stockRows,
                    !.q = [i \in Ingredients |-> IF i \in A \cap stockRows THEN qty[i] ELSE 0]])
    /\ UNCHANGED <<db, history>>

-----------------------------------------------------------------------------
NextMove(rec) == [rec EXCEPT !.pc = "read", !.todo = Tail(@)]

(* An ingredient without a link is an error of a transfer, and skipped by  *)
(* the others; then get_or_create.                                         *)
ReadStock(r) ==
    LET m == Moving(r)
        unlinked == m.kind = "transfert" /\ m.i \notin Linked
    IN
    /\ req[r].pc = "read" /\ req[r].todo # <<>>
    /\ UNCHANGED <<db, history>>
    /\ \/ unlinked /\ Become(r, IF req[r].op = "transfer" THEN Idle ELSE NextMove(req[r]))
       \/ /\ ~unlinked /\ m.i \in req[r].loaded
          /\ Become(r, [req[r] EXCEPT !.pc = "write"])
       \/ /\ ~unlinked /\ m.i \in stockRows \ req[r].loaded
          /\ Become(r, [req[r] EXCEPT !.pc = "write", !.loaded = @ \cup {m.i},
                                      !.q[m.i] = qty[m.i]])
       \/ /\ ~unlinked /\ m.i \notin stockRows \cup req[r].loaded
          /\ Become(r, [req[r] EXCEPT !.pc = "insert"])

(* Whom a request waits for: the owner of the row, or of the key, that it  *)
(* is about to write.                                                      *)
Waits(r, q) ==
    /\ q # r
    /\ \/ req[r].pc = "insert" /\ Moving(r).i \in req[q].new
       \/ req[r].pc = "write" /\ Moving(r).i \in req[q].wrote
Free(r) == \A q \in Workers : ~Waits(r, q)

Insert(r) ==
    LET i == Moving(r).i IN
    Become(r, [req[r] EXCEPT !.pc = "write", !.new = @ \cup {i}, !.loaded = @ \cup {i}])

(* Mutant of InsertStock: the move that failed is left out. *)
InsertStockSkips(r) ==
    /\ req[r].pc = "insert" /\ Free(r)
    /\ IF Moving(r).i \in stockRows THEN Become(r, NextMove(req[r])) ELSE Insert(r)
    /\ UNCHANGED <<db, history>>

(* A duplicate key fails the flush, and with it the transaction: a caller  *)
(* that goes on cannot commit.                                             *)
InsertStock(r) ==
    /\ req[r].pc = "insert" /\ Free(r)
    /\ IF Moving(r).i \in stockRows THEN Become(r, Idle) ELSE Insert(r)
    /\ UNCHANGED <<db, history>>

Short(r) == /\ Moving(r).kind \in {"sortie", "perte"}
            /\ req[r].q[Moving(r).i] < Moving(r).n

(* The movement and the new quantity.  An inventory that finds the         *)
(* quantity and the date already there writes no row.                      *)
Write(r) ==
    LET m == Moving(r)
        v == Moved(m, req[r].q[m.i])
        W == req[r].wrote
    IN \E written \in IF m.kind = "inventaire" /\ v = req[r].q[m.i] THEN {W, W \cup {m.i}}
                      ELSE {W \cup {m.i}} :
          Become(r, NextMove([req[r] EXCEPT !.q[m.i] = v, !.wrote = written,
                                            !.gain[m.i] = @ + Signed(m)]))

(* Mutant of WriteMove: the quantity in stock is not looked at. *)
WriteMoveUnchecked(r) ==
    /\ req[r].pc = "write" /\ Free(r)
    /\ IF Moved(Moving(r), req[r].q[Moving(r).i]) \in Quantities THEN Write(r)
                                                              ELSE Become(r, Idle)
    /\ UNCHANGED <<db, history>>

(* InsufficientStockError ends a movement; the loss of a dish goes on with *)
(* its other ingredients.  A quantity that leaves the column's range fails *)
(* the flush.                                                              *)
WriteMove(r) ==
    /\ req[r].pc = "write"
    /\ \/ Short(r) /\ Become(r, IF req[r].op = "waste" THEN NextMove(req[r]) ELSE Idle)
       \/ /\ ~Short(r) /\ Free(r)
          /\ IF Moved(Moving(r), req[r].q[Moving(r).i]) \in Quantities THEN Write(r)
                                                                    ELSE Become(r, Idle)
    /\ UNCHANGED <<db, history>>

(* PostgreSQL cancels one of the transactions that wait in a circle. *)
Deadlock(r) ==
    /\ \E C \in SUBSET Workers :
          /\ r \in C
          /\ \A p \in C : (\E q \in C : Waits(p, q)) /\ (\E q \in C : Waits(q, p))
    /\ Fail(r)

Room(r) == req[r].plat # <<>> => served[req[r].plat[1]] + req[r].plat[2] <= MaxServed

Commit(r) ==
    /\ req[r].pc = "read" /\ req[r].todo = <<>> /\ Room(r)
    /\ stockRows' = stockRows \cup req[r].new
    /\ qty' = [i \in Ingredients |-> IF i \in req[r].wrote THEN req[r].q[i] ELSE qty[i]]
    /\ book' = [i \in Ingredients |->
          IF ~alone THEN 0
          ELSE IF req[r].op = "adjust" /\ i \in req[r].loaded THEN req[r].gain[i]
          ELSE book[i] + req[r].gain[i]]
    /\ IF req[r].plat = <<>> THEN UNCHANGED <<served, taken>>
       ELSE /\ served' = [served EXCEPT ![req[r].plat[1]] = @ + req[r].plat[2]]
            /\ taken' = [i \in Ingredients |-> taken[i] - req[r].gain[i]]
    /\ Become(r, Idle)
    /\ UNCHANGED alone

NoRoom(r) == req[r].pc = "read" /\ req[r].todo = <<>> /\ ~Room(r) /\ Fail(r)
Crash(r) == req[r].pc # "idle" /\ Fail(r)

-----------------------------------------------------------------------------
Step(r) ==
    \/ ListLow(r) \/ ReadStock(r) \/ InsertStock(r) \/ WriteMove(r) \/ Deadlock(r)
    \/ Commit(r) \/ NoRoom(r)

Next == \E r \in Workers : Arrive(r) \/ Step(r) \/ Crash(r)

Spec == Init /\ [][Next]_vars

-----------------------------------------------------------------------------
TypeOK ==
    /\ stockRows \subseteq Ingredients
    /\ qty \in [Ingredients -> Quantities] /\ served \in [Plats -> 0..MaxServed]
    /\ taken \in [Ingredients -> Int] /\ book \in [Ingredients -> Int] /\ alone \in BOOLEAN
    /\ req \in [Workers -> Request]
    /\ \A r \in Workers : req[r].pc \in {"insert", "write"} => req[r].todo # <<>>

(* allow_negative is for what is served only: as long as nothing is, no    *)
(* stock goes below zero, whatever updates concurrent requests lose.       *)
NeverBelowZero ==
    (\A p \in Plats : served[p] = 0) => \A i \in stockRows : qty[i] >= 0

(* Between two inventories the movements on record account for the         *)
(* quantity, as long as requests do not overlap.                           *)
MovementsAccount == alone => \A i \in stockRows : qty[i] = book[i]

(* A sale is on record with the movements of all its ingredients or not at *)
(* all, although the failure of each is caught and ignored.                *)
ServedTaken ==
    \A i \in Ingredients :
        taken[i] = SumFunctionOnSet([p \in Plats |-> served[p] * Recipe[p][i]], Plats)

(* The stock is what its movements and the sales on record say. *)
StockConsistent == TypeOK /\ MovementsAccount /\ ServedTaken
=============================================================================
