-------------------------------- MODULE MCShop --------------------------------
(***************************************************************************)
(* Small instances of the grocery's orders and of the restaurant's stock,  *)
(* a dish of two ingredients, one of which the grocery sells, and of its   *)
(* menu and charges.  They share no state that several write, so each      *)
(* behaviour steps through one of them (part).                             *)
(***************************************************************************)
EXTENDS SupplyOrder, RestaurantStock, Restaurant, TLC

CONSTANTS flour, egg, cake
MCIngredients == {flour, egg}
MCLinked == {flour}
MCPlats == {cake}
MCRecipe == [p \in MCPlats |-> [i \in MCIngredients |-> 1]]
MCSeuil == flour :> 1 @@ egg :> 0

VARIABLE part
(* The operations of the restaurant's menu, in three parts. *)
PartOps == [names |-> {"createIngredient", "updateIngredient", "deactivateIngredient", "createDish", "deactivateDish"},
            recipes |-> {"createIngredient", "createDish", "setLines", "addLine", "removeLine"},
            links |-> {"createIngredient", "createLink", "updateLink", "deleteLink"}]
mcVars == <<part, orderVars, vars, menuVars, chargeVars>>
Parts == {"orders", "stock", "charges"} \cup DOMAIN PartOps
MCInit ==
    /\ OrderInit /\ Init /\ MenuInit /\ ChargesInit
    /\ part \in Parts
    /\ part # "stock" => stockRows = {}
(* The second line is added while no other request on lines is under way.  *)
SecondLineInTurn == lastLine # 0 =>
    \A r, q \in Workers : r # q /\ oreq'[r].op = "addLine" => oreq'[q].op \notin LineOps

(* The day changes between requests, and on the last they do not overlap.  *)
ChargesInTurn ==
    /\ today' # today => \A r \in Workers : ~Busy(hreq, r)
    /\ today' = MaxDay => Cardinality({r \in Workers : Busy(hreq', r)}) <= 1

MCNext ==
    /\ UNCHANGED part
    /\ \/ part = "orders" /\ OrderNext /\ SecondLineInTurn /\ UNCHANGED <<vars, menuVars, chargeVars>>
       \/ part = "stock" /\ Next /\ UNCHANGED <<orderVars, menuVars, chargeVars>>
       \/ /\ part \in DOMAIN PartOps /\ MenuNext /\ UNCHANGED <<vars, orderVars, chargeVars>>
          /\ part = "names" => \A r \in Workers : mreq'[r].list = {}
          /\ \A r \in Workers : mreq'[r].op \in {"none"} \cup PartOps[part]
       \/ part = "charges" /\ ChargesNext /\ ChargesInTurn /\ UNCHANGED <<vars, orderVars, menuVars>>
MCSpec == MCInit /\ [][MCNext]_mcVars
Symmetry == Permutations(Workers) \cup Permutations(Names)
=============================================================================
