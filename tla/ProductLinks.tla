----------------------------- MODULE ProductLinks -----------------------------
(***************************************************************************)
(* The links from the restaurant's ingredients to the suppliers' products, *)
(* made through the API and by three scripts, and the prices taken along   *)
(* them.  A link holds the number of a row of the supplier's aggregates,   *)
(* which every recalculation deletes and inserts anew with new numbers     *)
(* (SupplierImports has its steps).  METRO's products have numbers of      *)
(* their own in dim_produit as well.                                       *)
(*                                                                         *)
(* What a script finds for an ingredient, its similarity and its threshold *)
(* are a list of articles, best first.  RestaurantMenu has the steps of    *)
(* the requests that create and delete a link; here each is one step.      *)
(***************************************************************************)
EXTENDS Requests, Sequences

CONSTANTS
    Dishware,        \* ingredients of the restaurant
    Goods,        \* what the suppliers sell
    MetroGoods,   \* of them, METRO's
    DimNumber,       \* article of METRO -> its number in dim_produit
    Keywords,        \* ingredient -> articles of METRO with one of the seed's keywords
    Found,           \* ingredient -> script -> the articles it finds, best first
    MaxPerRun,       \* links that a script makes for an ingredient at most
    NoArticle,
    MaxNumber, MaxMade   \* bounds on the aggregates and the links ever inserted

Scripts == {"auto", "auto2"}
ASSUME LinksAssumption ==
    /\ IsFiniteSet(Goods) /\ MetroGoods \subseteq Goods /\ NoArticle \notin Goods
    /\ DimNumber \in [MetroGoods -> Nat \ {0}]
    /\ Keywords \in [Dishware -> SUBSET MetroGoods]
    /\ Found \in [Dishware -> [Scripts -> Seq(Goods)]]
    /\ \A i \in Dishware, op \in Scripts : \A j, k \in DOMAIN Found[i][op] :
          Found[i][op][j] = Found[i][op][k] => j = k
    /\ {MaxPerRun, MaxNumber, MaxMade} \subseteq Nat

VARIABLES
    numbers,     \* article -> number of its aggregate, 0 for none
    lastNumber,  \* supplier -> last number given
    made,        \* rows of restaurant_epicerie_links, number -> row
    lastMade,
    priced,      \* ingredient -> the article whose price it has
    oneAtATime,  \* history: no script or request has overlapped another
    added,       \* history: ingredients that seed or auto linked further
    preq

linkDb == <<numbers, lastNumber, made, lastMade, priced>>
linkVars == <<linkDb, oneAtATime, added, preq>>

SupplierOf(a) == IF a \in MetroGoods THEN "METRO" ELSE "OTHER"
Suppliers == {"METRO", "OTHER"}

(* todo: ingredients left; seen: keys of the links loaded first; new: rows *)
(* inserted; broken: a statement was refused; loaded: links of a sync;     *)
(* article, number: what a user picks.                                     *)
PIdle == [pc |-> "idle", op |-> "none", todo |-> {}, seen |-> {}, new |-> {}, broken |-> FALSE,
          loaded |-> {}, article |-> NoArticle, number |-> 0]

LinksInit ==
    /\ numbers = [a \in Goods |-> 0] /\ lastNumber = [s \in Suppliers |-> 0]
    /\ made = <<>> /\ lastMade = 0
    /\ priced = [i \in Dishware |-> NoArticle]
    /\ oneAtATime = TRUE /\ added = {}
    /\ preq = [r \in Workers |-> PIdle]

PBecome(r, q) == preq' = [preq EXCEPT ![r] = q]
PEnd(r) == PBecome(r, PIdle)
PKeep == UNCHANGED <<linkDb, oneAtATime, added>>
Rows == {made[k] : k \in DOMAIN made}
LinksOf(i) == {x \in Rows : x.ingredient = i}
KeyOf(x) == <<x.ingredient, x.number, x.supplier>>
Row(i, a, n, s, p) ==
    [ingredient |-> i, article |-> a, number |-> n, supplier |-> s, primary |-> p]

(* The product that a number names: of METRO, an aggregate before one of   *)
(* dim_produit.                                                            *)
Aggregates(s, n) == {a \in Goods : SupplierOf(a) = s /\ numbers[a] = n}
Named(s, n) ==
    IF Aggregates(s, n) # {} THEN Aggregates(s, n)
    ELSE IF s = "METRO" THEN {a \in MetroGoods : DimNumber[a] = n} ELSE {}

-----------------------------------------------------------------------------
PStart(r, op, q) ==
    /\ PBecome(r, [q EXCEPT !.op = op])
    /\ oneAtATime' = (oneAtATime /\ InProgress(preq, r) = {})
    /\ UNCHANGED <<linkDb, added>>

(* A script begins: the ingredients it goes through and the links it       *)
(* compares with later.                                                    *)
GetIngredients(op) == IF op = "auto2" THEN {i \in Dishware : LinksOf(i) = {}} ELSE Dishware

StartScript(r) ==
    \E op \in Scripts \cup {"seed"} :
        PStart(r, op, [PIdle EXCEPT !.pc = "link", !.todo = GetIngredients(op),
                                    !.seen = {KeyOf(x) : x \in Rows}])

(* The user searches, and is shown numbers of dim_produit for METRO.       *)
SearchProducts(r) ==
    \E a \in Goods, i \in Dishware :
        /\ a \in MetroGoods \/ numbers[a] # 0
        /\ PStart(r, "create", [PIdle EXCEPT !.pc = "create", !.todo = {i}, !.article = a,
                                 !.number = IF a \in MetroGoods THEN DimNumber[a] ELSE numbers[a]])

SyncPrices(r) ==
    PStart(r, "sync", [PIdle EXCEPT !.pc = "sync", !.loaded = {x \in Rows : x.primary}])

PArrive(r) == ~Busy(preq, r) /\ (StartScript(r) \/ SearchProducts(r) \/ SyncPrices(r))

-----------------------------------------------------------------------------
(* The seed takes any METRO article that a keyword of the ingredient fits, *)
(* unless a link to that number is there, of whatever supplier; the column *)
(* is_primary takes its default, true.                                     *)
LinkEpicerieProducts(r, i) ==
    LET q == preq[r]
        fitting == {a \in Keywords[i] : numbers[a] # 0}
    IN
    /\ q.pc = "link" /\ q.op = "seed" /\ i \in q.todo
    /\ \/ /\ fitting = {}
          /\ PBecome(r, [q EXCEPT !.todo = @ \ {i}])
       \/ \E a \in fitting :
             PBecome(r, [q EXCEPT !.todo = @ \ {i},
                                  !.new = IF \E x \in LinksOf(i) : x.number = numbers[a] THEN @
                                          ELSE @ \cup {Row(i, a, numbers[a], "METRO", TRUE)}])
    /\ PKeep

(* auto and auto2: of the articles found, those that have an aggregate, as *)
(* places in the list, and of these the best few.                          *)
Best(op, i) ==
    LET there == {k \in DOMAIN Found[i][op] : numbers[Found[i][op][k]] # 0}
    IN {k \in there : Cardinality({j \in there : j < k}) < MaxPerRun}

(* Each of them is linked unless the links loaded at the start have it;    *)
(* the best of all is the primary link if it is new.                       *)
LinkBest(r, i) ==
    LET q == preq[r]
        best == Best(q.op, i)
        row(k) == LET a == Found[i][q.op][k] IN
                  Row(i, a, numbers[a], SupplierOf(a), \A j \in best : k <= j)
    IN
    /\ q.pc = "link" /\ q.op \in Scripts /\ i \in q.todo /\ ~q.broken
    /\ PBecome(r, [q EXCEPT !.todo = @ \ {i},
                            !.new = @ \cup {x \in {row(k) : k \in best} : KeyOf(x) \notin q.seen}])
    /\ PKeep

(* PostgreSQL refuses a statement, and every later one of the transaction. *)
(* The seed ends; create_link and the searches of auto2 catch the error.   *)
RefuseStatement(r) ==
    LET q == preq[r] IN
    /\ q.pc = "link" /\ q.todo # {} /\ ~q.broken
    /\ IF q.op = "seed" THEN PEnd(r) ELSE \E i \in q.todo : PBecome(r, [q EXCEPT !.broken = TRUE, !.todo = @ \ {i}])
    /\ PKeep

(* The next search of auto fails and ends it, auto2 goes on to the end.    *)
PassOver(r) ==
    LET q == preq[r] IN
    /\ q.pc = "link" /\ q.broken /\ q.todo # {}
    /\ IF q.op = "auto" THEN PEnd(r) ELSE PBecome(r, [q EXCEPT !.todo = {}])
    /\ PKeep

(* The numbers that new rows take. *)
Numbered(new) ==
    CHOOSE f \in [lastMade + 1 .. lastMade + Cardinality(new) -> new] :
        \A x \in new : \E k \in DOMAIN f : f[k] = x

(* COMMIT; of a transaction with a refused statement, PostgreSQL keeps     *)
(* nothing.                                                                *)
CommitScript(r) ==
    LET q == preq[r]
        kept == IF q.broken THEN {} ELSE q.new
        f == Numbered(kept)
    IN
    /\ q.pc = "link" /\ q.todo = {}
    /\ lastMade' = lastMade + Cardinality(kept) /\ lastMade' <= MaxMade
    /\ made' = [k \in DOMAIN made \cup DOMAIN f |-> IF k \in DOMAIN f THEN f[k] ELSE made[k]]
    /\ added' = added \cup (IF q.op = "auto2" THEN {}
                            ELSE {i \in Dishware : LinksOf(i) # {} /\ \E x \in kept : x.ingredient = i})
    /\ PEnd(r) /\ UNCHANGED <<numbers, lastNumber, priced, oneAtATime>>

-----------------------------------------------------------------------------
(* POST /epicerie-links with the number that the search gave, which must   *)
(* name a product; other links of the ingredient are no longer primary.    *)
CreateEpicerieLink(r, primary) ==
    LET q == preq[r]
        i == CHOOSE j \in q.todo : TRUE
        s == SupplierOf(q.article)
    IN
    /\ q.pc = "create"
    /\ IF Named(s, q.number) = {} \/ \E x \in LinksOf(i) : KeyOf(x) = <<i, q.number, s>>
       THEN PEnd(r) /\ PKeep
       ELSE /\ lastMade < MaxMade /\ lastMade' = lastMade + 1
            /\ made' = [k \in DOMAIN made \cup {lastMade'} |->
                          IF k = lastMade' THEN Row(i, q.article, q.number, s, primary)
                          ELSE IF primary /\ made[k].ingredient = i THEN [made[k] EXCEPT !.primary = FALSE]
                          ELSE made[k]]
            /\ PEnd(r) /\ UNCHANGED <<numbers, lastNumber, priced, oneAtATime, added>>

DeleteEpicerieLink ==
    /\ \E k \in DOMAIN made : made' = [j \in DOMAIN made \ {k} |-> made[j]]
    /\ oneAtATime' = (oneAtATime /\ \A r \in Workers : ~Busy(preq, r))
    /\ UNCHANGED <<numbers, lastNumber, lastMade, priced, added, preq>>

(* POST /epicerie-links/sync-prices: the price of an ingredient is that of *)
(* the product its primary link names, of any where it has two, unless the *)
(* product has no price.                                                   *)
CommitPrices(r) ==
    LET q == preq[r]
        sources(i) == UNION {Named(x.supplier, x.number) : x \in {y \in q.loaded : y.ingredient = i}}
    IN
    /\ q.pc = "sync"
    /\ \E p \in [Dishware -> Goods \cup {NoArticle}] :
          /\ \A i \in Dishware : p[i] \in sources(i) \cup {priced[i]}
          /\ priced' = p
    /\ PEnd(r) /\ UNCHANGED <<numbers, lastNumber, made, lastMade, oneAtATime, added>>

(* Mutant of RenumberAggregates: the numbers begin at 1 again. *)
RenumberFromOne(s) ==
    \E A \in SUBSET {a \in Goods : SupplierOf(a) = s} :
        /\ {a \in Goods : SupplierOf(a) = s /\ numbers[a] # 0} \subseteq A /\ A # {}
        /\ lastNumber' = [lastNumber EXCEPT ![s] = Cardinality(A)] /\ lastNumber'[s] <= MaxNumber
        /\ \E f \in [A -> 1 .. lastNumber'[s]] :
              /\ \A a, b \in A : f[a] = f[b] => a = b
              /\ numbers' = [a \in Goods |-> IF a \in A THEN f[a] ELSE numbers[a]]
        /\ UNCHANGED <<made, lastMade, priced, oneAtATime, added, preq>>

(* A recalculation of a supplier's aggregates: those that were, and the    *)
(* articles bought since, are inserted in any order.                       *)
RenumberAggregates(s) ==
    \E A \in SUBSET {a \in Goods : SupplierOf(a) = s} :
        /\ {a \in Goods : SupplierOf(a) = s /\ numbers[a] # 0} \subseteq A /\ A # {}
        /\ lastNumber' = [lastNumber EXCEPT ![s] = @ + Cardinality(A)] /\ lastNumber'[s] <= MaxNumber
        /\ \E f \in [A -> lastNumber[s] + 1 .. lastNumber'[s]] :
              /\ \A a, b \in A : f[a] = f[b] => a = b
              /\ numbers' = [a \in Goods |-> IF a \in A THEN f[a] ELSE numbers[a]]
        /\ UNCHANGED <<made, lastMade, priced, oneAtATime, added, preq>>

(* A request or a script is cut off before its commit. *)
PAbort(r) == Busy(preq, r) /\ PEnd(r) /\ PKeep

LinksNext ==
    \/ \E r \in Workers :
          \/ PArrive(r) \/ PAbort(r) \/ RefuseStatement(r) \/ PassOver(r) \/ CommitScript(r)
          \/ \E i \in Dishware : LinkEpicerieProducts(r, i) \/ LinkBest(r, i)
          \/ \E b \in BOOLEAN : CreateEpicerieLink(r, b)
          \/ CommitPrices(r)
    \/ DeleteEpicerieLink
    \/ \E s \in Suppliers : RenumberAggregates(s)

-----------------------------------------------------------------------------
(* No ingredient is linked twice to one number of one supplier, and it has *)
(* one primary link at most, unless seed or auto added to its links, as    *)
(* long as no two of scripts and requests overlap.                         *)
LinksInTurn ==
    oneAtATime => \A k, l \in DOMAIN made : k # l /\ made[k].ingredient = made[l].ingredient =>
        /\ KeyOf(made[k]) # KeyOf(made[l])
        /\ made[k].ingredient \notin added => ~(made[k].primary /\ made[l].primary)

(* A link to a product of a supplier other than METRO names the article it *)
(* was made for or, once that is recalculated, none.                       *)
LinkNamesArticle ==
    \A x \in Rows : x.supplier # "METRO" => Named(x.supplier, x.number) \subseteq {x.article}

LinksConsistent == LinksInTurn /\ LinkNamesArticle

(* The synchronisation of prices takes them from the linked products: an   *)
(* ingredient gets the price of an article that a link was made for, as    *)
(* long as nothing overlaps.                                               *)
PriceOfLinked ==
    [][oneAtATime => \A i \in Dishware : priced'[i] # priced[i] =>
          \E x \in LinksOf(i) : x.article = priced'[i]]_linkVars

LinksSpec == LinksInit /\ [][LinksNext]_linkVars
=============================================================================
