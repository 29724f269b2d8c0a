---------------------------- MODULE RestaurantMenu ----------------------------
(***************************************************************************)
(* The restaurant's ingredients, the recipes of its dishes, and the links  *)
(* from ingredients to the suppliers' products.  A request loads rows,     *)
(* tests them in Python and writes what it changed; the ORM writes changed *)
(* attributes only.  An UPDATE, the last statement before a commit, is     *)
(* taken with it.                                                          *)
(*                                                                         *)
(* A recipe is the ingredients of a dish; a quantity is not told apart.  A *)
(* change of a dish other than its recipe and its archiving changes        *)
(* nothing modelled.                                                       *)
(***************************************************************************)
EXTENDS Requests

CONSTANTS
    Names,            \* of ingredients
    Produits,         \* products of the suppliers that links name
    MaxIngredients, MaxDishes, MaxLinks,   \* bounds on the rows ever inserted
    MaxRecipeLines,         \* bound on the recipe lines ever inserted
    MenuOps           \* the operations of this instance

AllMenuOps == {"createIngredient", "updateIngredient", "deactivateIngredient", "createDish",
               "deactivateDish", "setLines", "addLine", "removeLine", "createLink",
               "updateLink", "deleteLink"}

ASSUME MenuAssumption ==
    /\ {MaxIngredients, MaxDishes, MaxLinks, MaxRecipeLines} \subseteq Nat
    /\ MenuOps \subseteq AllMenuOps

IngredientIds == 1..MaxIngredients
DishIds == 1..MaxDishes
LinkIds == 1..MaxLinks

VARIABLES
    ingredients,   \* rows of restaurant_ingredients, id -> row
    stocked,       \* ingredients with a row in restaurant_stock
    dishes,        \* rows of restaurant_plats, id -> is_active
    recipe,        \* dish -> ingredient -> id of the line, 0 for none
    lastRecipeLine,
    links,         \* rows of restaurant_epicerie_links, id -> row
    lastLink,
    asked,         \* history: the recipe that the requests answered so far asked for
    menuInTurn,    \* history: no two requests have overlapped
    mreq

menuDb == <<ingredients, stocked, dishes, recipe, lastRecipeLine, links, lastLink>>
menuHistory == <<asked, menuInTurn>>
menuVars == <<menuDb, menuHistory, mreq>>

(* on: row changed; list: ingredients to insert, todo: those left; twice:  *)
(* the list names one twice; rows: lines or links loaded; gone: lines      *)
(* deleted; new: lines inserted; name, loaded, produit, primary: what is   *)
(* asked for and what was loaded.                                          *)
MIdle == [pc |-> "idle", op |-> "none", on |-> 0, list |-> {}, todo |-> {}, twice |-> FALSE,
          rows |-> {}, gone |-> {}, new |-> {}, name |-> <<>>, loaded |-> <<>>,
          produit |-> <<>>, primary |-> FALSE]

MBecome(r, q) == mreq' = [mreq EXCEPT ![r] = q]
MEnd(r) == MBecome(r, MIdle)
MKeep == UNCHANGED <<menuDb, menuHistory>>
MFail(r) == MEnd(r) /\ MKeep

MenuInit ==
    /\ ingredients = <<>> /\ stocked = {}
    /\ dishes = <<>> /\ recipe = <<>> /\ lastRecipeLine = 0
    /\ links = <<>> /\ lastLink = 0
    /\ asked = <<>> /\ menuInTurn = TRUE
    /\ mreq = [r \in Workers |-> MIdle]

Known(f) == DOMAIN f
NextId(f) == Cardinality(DOMAIN f) + 1
With(f, k, v) == [x \in DOMAIN f \cup {k} |-> IF x = k THEN v ELSE f[x]]
RecipeLines(d) == {<<i, recipe[d][i]>> : i \in {j \in IngredientIds : recipe[d][j] # 0}}

-----------------------------------------------------------------------------
(* The requests, with the first row that each loads. *)
MStart(r, op, q) ==
    /\ op \in MenuOps
    /\ MBecome(r, [q EXCEPT !.op = op])
    /\ menuInTurn' = (menuInTurn /\ InProgress(mreq, r) = {})
    /\ UNCHANGED <<menuDb, asked>>

CreateIngredient(r) == \E n \in Names : MStart(r, "createIngredient", [MIdle EXCEPT !.pc = "name", !.name = n])
UpdateIngredient(r) ==
    \E i \in Known(ingredients), n \in Names :
        MStart(r, "updateIngredient",
               [MIdle EXCEPT !.pc = IF n = ingredients[i].name THEN "write" ELSE "name",
                             !.on = i, !.name = n, !.loaded = ingredients[i]])
DeactivateIngredient(r) ==
    \E i \in Known(ingredients) :
        MStart(r, "deactivateIngredient",
               [MIdle EXCEPT !.pc = "write", !.on = i, !.loaded = ingredients[i]])

CreateDish(r) ==
    \E L \in SUBSET IngredientIds : \E t \in {FALSE, Cardinality(L) = 1} :
        MStart(r, "createDish", [MIdle EXCEPT !.pc = "line", !.list = L, !.todo = L, !.twice = t])
DeactivateDish(r) ==
    \E d \in Known(dishes) : MStart(r, "deactivateDish", [MIdle EXCEPT !.pc = "write", !.on = d])
SetLines(r) ==
    \E d \in Known(dishes), L \in SUBSET IngredientIds : \E t \in {FALSE, Cardinality(L) = 1} :
        MStart(r, "setLines", [MIdle EXCEPT !.pc = "delete", !.on = d, !.list = L, !.todo = L,
                                            !.twice = t, !.rows = RecipeLines(d)])
AddLine(r) ==
    \E d \in Known(dishes), i \in IngredientIds :
        /\ recipe[d][i] = 0
        /\ MStart(r, "addLine", [MIdle EXCEPT !.pc = "line", !.on = d, !.list = {i}, !.todo = {i}])
RemoveLine(r) ==
    \E d \in Known(dishes), i \in IngredientIds :
        /\ recipe[d][i] # 0
        /\ MStart(r, "removeLine", [MIdle EXCEPT !.pc = "delete", !.on = d, !.rows = {<<i, recipe[d][i]>>}])

LinksOf(i) == {l \in Known(links) : links[l].ingredient = i}
CreateLink(r) ==
    \E i \in Known(ingredients), p \in Produits, b \in BOOLEAN :
        /\ \A l \in LinksOf(i) : links[l].produit # p
        /\ MStart(r, "createLink",
                  [MIdle EXCEPT !.pc = "write", !.on = i, !.produit = p, !.primary = b,
                                !.rows = {l \in LinksOf(i) : links[l].primary}])
UpdateLink(r) ==
    \E l \in Known(links), b \in BOOLEAN :
        MStart(r, "updateLink",
               [MIdle EXCEPT !.pc = "write", !.on = l, !.primary = b, !.loaded = links[l],
                             !.rows = {k \in LinksOf(links[l].ingredient) : links[k].primary}])
DeleteLink(r) ==
    \E l \in Known(links) : MStart(r, "deleteLink", [MIdle EXCEPT !.pc = "write", !.on = l])

MArrive(r) ==
    /\ ~Busy(mreq, r)
    /\ \/ CreateIngredient(r) \/ UpdateIngredient(r) \/ DeactivateIngredient(r)
       \/ CreateDish(r) \/ DeactivateDish(r) \/ SetLines(r) \/ AddLine(r) \/ RemoveLine(r)
       \/ CreateLink(r) \/ UpdateLink(r) \/ DeleteLink(r)

-----------------------------------------------------------------------------
(* Ingredients.  No index makes a name unique; the test is a query. *)
Namesakes(q) == {i \in Known(ingredients) : ingredients[i].name = q.name}

LookUpName(r) ==
    LET q == mreq[r] IN
    /\ q.pc = "name"
    /\ MBecome(r, IF Namesakes(q) \ {q.on} # {} THEN MIdle ELSE [q EXCEPT !.pc = "write"])
    /\ MKeep

(* Mutant of SaveIngredient: an update writes the row as it was loaded. *)
SaveIngredientWhole(r) ==
    LET q == mreq[r] IN
    /\ q.pc = "write" /\ q.op \in {"createIngredient", "updateIngredient", "deactivateIngredient"}
    /\ \/ /\ q.op = "createIngredient" /\ NextId(ingredients) \in IngredientIds
          /\ ingredients' = With(ingredients, NextId(ingredients), [name |-> q.name, active |-> TRUE])
          /\ stocked' = stocked \cup {NextId(ingredients)}
       \/ /\ q.op = "updateIngredient" /\ UNCHANGED stocked
          /\ ingredients' = [ingredients EXCEPT ![q.on] = [q.loaded EXCEPT !.name = q.name]]
       \/ /\ q.op = "deactivateIngredient" /\ UNCHANGED stocked
          /\ ingredients' = [ingredients EXCEPT ![q.on].active = FALSE]
    /\ MEnd(r) /\ UNCHANGED <<dishes, recipe, lastRecipeLine, links, lastLink, menuHistory>>

SaveIngredient(r) ==
    LET q == mreq[r] IN
    /\ q.pc = "write" /\ q.op \in {"createIngredient", "updateIngredient", "deactivateIngredient"}
    /\ \/ /\ q.op = "createIngredient" /\ NextId(ingredients) \in IngredientIds
          /\ ingredients' = With(ingredients, NextId(ingredients), [name |-> q.name, active |-> TRUE])
          /\ stocked' = stocked \cup {NextId(ingredients)}
       \/ /\ q.op = "updateIngredient" /\ UNCHANGED stocked
          /\ ingredients' = IF q.name = q.loaded.name THEN ingredients
                            ELSE [ingredients EXCEPT ![q.on].name = q.name]
       \/ /\ q.op = "deactivateIngredient" /\ UNCHANGED stocked
          /\ ingredients' = IF q.loaded.active THEN [ingredients EXCEPT ![q.on].active = FALSE] ELSE ingredients
    /\ MEnd(r) /\ UNCHANGED <<dishes, recipe, lastRecipeLine, links, lastLink, menuHistory>>

-----------------------------------------------------------------------------
(* Recipes: the lines loaded are deleted, those of the list inserted one   *)
(* by one, and an ingredient that is not there ends the request.           *)
(* The DELETE waits for another's of the same lines.                       *)
DeleteLines(r) ==
    LET q == mreq[r] IN
    /\ q.pc = "delete"
    /\ \A o \in InProgress(mreq, r) : q.rows \cap o.gone = {}
    /\ MBecome(r, [q EXCEPT !.pc = "line", !.gone = q.rows \cap RecipeLines(q.on)])
    /\ MKeep

(* The unique index on dish and ingredient: the INSERT waits for a line    *)
(* that another request inserts or deletes, fails on one that is there.    *)
LineHeld(r, d, i) ==
    \E o \in InProgress(mreq, r) :
        o.on = d /\ (i \in {x[1] : x \in o.new} \/ <<i, recipe[d][i]>> \in o.gone)
LineThere(q, i) ==
    i \in {x[1] : x \in q.new} \/ (<<i, recipe[q.on][i]>> \notin q.gone /\ recipe[q.on][i] # 0)

(* Mutant of InsertLine: an ingredient that is not there is passed over. *)
InsertLineSkipping(r, i) ==
    LET q == mreq[r]
        exists == q.op # "createDish"
    IN
    /\ q.pc = "line" /\ i \in q.todo
    /\ exists => ~LineHeld(r, q.on, i)
    /\ IF exists /\ i \in Known(ingredients) /\ LineThere(q, i)
       THEN MFail(r)
       ELSE /\ lastRecipeLine < MaxRecipeLines /\ lastRecipeLine' = lastRecipeLine + 1
            /\ MBecome(r, [q EXCEPT !.todo = @ \ {i},
                                    !.new = IF i \in Known(ingredients) THEN @ \cup {<<i, lastRecipeLine'>>} ELSE @])
            /\ UNCHANGED <<ingredients, stocked, dishes, recipe, links, lastLink, menuHistory>>

InsertLine(r, i) ==
    LET q == mreq[r]
        exists == q.op # "createDish"
    IN
    /\ q.pc = "line" /\ i \in q.todo
    /\ exists => ~LineHeld(r, q.on, i)
    /\ IF i \notin Known(ingredients) \/ (exists /\ LineThere(q, i))
       THEN MFail(r)
       ELSE /\ lastRecipeLine < MaxRecipeLines /\ lastRecipeLine' = lastRecipeLine + 1
            /\ MBecome(r, [q EXCEPT !.todo = @ \ {i}, !.new = @ \cup {<<i, lastRecipeLine'>>}])
            /\ UNCHANGED <<ingredients, stocked, dishes, recipe, links, lastLink, menuHistory>>

(* Two requests each wait for a line of the other, and PostgreSQL ends one. *)
MWaitsFor(q, o) ==
    \/ q.pc = "delete" /\ q.rows \cap o.gone # {}
    \/ /\ q.pc = "line" /\ q.op # "createDish" /\ o.on = q.on
       /\ \E i \in q.todo : i \in {x[1] : x \in o.new} \/ <<i, recipe[q.on][i]>> \in o.gone
MDeadlock(r) ==
    /\ \E o \in InProgress(mreq, r) : MWaitsFor(mreq[r], o) /\ MWaitsFor(o, mreq[r])
    /\ MFail(r)

(* The recipe of dish d once a request commits. *)
Rewritten(q, old) == [i \in IngredientIds |->
    IF \E x \in q.new : x[1] = i THEN (CHOOSE x \in q.new : x[1] = i)[2]
    ELSE IF <<i, old[i]>> \in q.gone THEN 0 ELSE old[i]]

AskedFor(q) ==
    CASE q.op = "addLine" -> asked[q.on] \cup q.list
      [] q.op = "removeLine" -> asked[q.on] \ {x[1] : x \in q.rows}
      [] OTHER -> q.list

(* A list that names an ingredient twice fails on the second. *)
CommitRecipe(r) ==
    LET q == mreq[r]
        d == IF q.op = "createDish" THEN NextId(dishes) ELSE q.on
        old == IF q.op = "createDish" THEN [i \in IngredientIds |-> 0] ELSE recipe[d]
    IN
    /\ q.pc = "line" /\ q.todo = {} /\ d \in DishIds
    /\ IF q.twice
       THEN MFail(r)
       ELSE /\ dishes' = IF q.op = "createDish" THEN With(dishes, d, TRUE) ELSE dishes
            /\ recipe' = With(recipe, d, Rewritten(q, old))
            /\ asked' = IF menuInTurn THEN With(asked, d, AskedFor(q)) ELSE asked
            /\ MEnd(r)
            /\ UNCHANGED <<ingredients, stocked, lastRecipeLine, links, lastLink, menuInTurn>>

SaveDish(r) ==
    /\ mreq[r].pc = "write" /\ mreq[r].op = "deactivateDish"
    /\ dishes' = [dishes EXCEPT ![mreq[r].on] = FALSE]
    /\ MEnd(r) /\ UNCHANGED <<ingredients, stocked, recipe, lastRecipeLine, links, lastLink, menuHistory>>

-----------------------------------------------------------------------------
(* Links.  What a request writes: the primary links that it loaded are no  *)
(* longer primary, then its own.  The UPDATE of a link that is gone fails. *)
Cleared(q) == IF q.primary THEN q.rows \ (IF q.op = "updateLink" THEN {q.on} ELSE {}) ELSE {}
Unset(q) == [l \in Known(links) |-> IF l \in Cleared(q) THEN [links[l] EXCEPT !.primary = FALSE] ELSE links[l]]

SaveNewLink(r) ==
    LET q == mreq[r] IN
    /\ q.pc = "write" /\ q.op = "createLink"
    /\ IF Cleared(q) \subseteq Known(links)
       THEN /\ lastLink < MaxLinks /\ lastLink' = lastLink + 1
            /\ links' = With(Unset(q), lastLink',
                             [ingredient |-> q.on, produit |-> q.produit, primary |-> q.primary])
            /\ MEnd(r) /\ UNCHANGED <<ingredients, stocked, dishes, recipe, lastRecipeLine, menuHistory>>
       ELSE MFail(r)

SaveLink(r) ==
    LET q == mreq[r]
        changed == Cleared(q) \cup (IF q.primary # q.loaded.primary THEN {q.on} ELSE {})
    IN
    /\ q.pc = "write" /\ q.op = "updateLink"
    /\ IF changed \subseteq Known(links)
       THEN /\ links' = [l \in Known(links) |->
                           IF l = q.on /\ l \in changed THEN [links[l] EXCEPT !.primary = q.primary]
                           ELSE Unset(q)[l]]
            /\ MEnd(r) /\ UNCHANGED <<ingredients, stocked, dishes, recipe, lastRecipeLine, lastLink, menuHistory>>
       ELSE MFail(r)

RemoveLink(r) ==
    LET q == mreq[r] IN
    /\ q.pc = "write" /\ q.op = "deleteLink"
    /\ links' = [l \in Known(links) \ {q.on} |-> links[l]]
    /\ MEnd(r) /\ UNCHANGED <<ingredients, stocked, dishes, recipe, lastRecipeLine, lastLink, menuHistory>>

-----------------------------------------------------------------------------
MAbort(r) == Busy(mreq, r) /\ MFail(r)

MStep(r) ==
    \/ MArrive(r) \/ MAbort(r) \/ MDeadlock(r)
    \/ LookUpName(r) \/ SaveIngredient(r)
    \/ DeleteLines(r) \/ (\E i \in IngredientIds : InsertLine(r, i)) \/ CommitRecipe(r) \/ SaveDish(r)
    \/ SaveNewLink(r) \/ SaveLink(r) \/ RemoveLink(r)

MenuNext == \E r \in Workers : MStep(r)

(* Ingredient names are distinct as long as no two requests overlap.       *)
NamesOnce ==
    menuInTurn => \A i, j \in Known(ingredients) : ingredients[i].name = ingredients[j].name => i = j

(* The recipe of a dish is what the requests answered so far ask for, and  *)
(* one that fails halfway leaves it alone, unless two requests overlap.    *)
RecipeAsAsked ==
    menuInTurn => \A d \in Known(dishes) : {x[1] : x \in RecipeLines(d)} = asked[d]

(* An ingredient has at most one primary link, the one that transfers and  *)
(* prices take, and one link to a product, unless two requests overlap.    *)
OnePrimary ==
    menuInTurn => \A k, l \in Known(links) :
        k # l /\ links[k].ingredient = links[l].ingredient
        => links[k].produit # links[l].produit /\ ~(links[k].primary /\ links[l].primary)

(* The menu of requests that come one at a time is as they ask. *)
MenuInTurn == NamesOnce /\ RecipeAsAsked /\ OnePrimary

(* An archived ingredient stays archived, whatever the updates that loaded *)
(* it before write after.                                                  *)
ArchivedStays ==
    [][\A i \in Known(ingredients) : ~ingredients[i].active => ~ingredients'[i].active]_menuVars

MenuSpec == MenuInit /\ [][MenuNext]_menuVars
=============================================================================
