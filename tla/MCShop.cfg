SPECIFICATION MCSpec
CONSTANTS
  Workers = {r1, r2}
  Tenants = {t1}
  MaxOrders = 1
  MaxLines = 2
  LineAmounts = {4}
  NewAmounts = {3}
  MaxTotal = 7
  OrderOps = {"addLine", "updateLine", "deleteLine", "update", "confirm", "ship", "receive", "cancel", "delete"}
  flour = flour
  egg = egg
  cake = cake
  Ingredients <- MCIngredients
  Linked <- MCLinked
  Plats <- MCPlats
  Recipe <- MCRecipe
  Seuil <- MCSeuil
  Amounts = {1}
  Portions = {1}
  MaxQty = 2
  MaxServed = 1
  Ops = {"entree", "sortie", "perte", "adjust", "transfer", "bulk", "replenish", "serve", "waste"}
  Names = {apple, pear}
  Produits = {apple, pear}
  MaxIngredients = 2
  MaxDishes = 1
  MaxLinks = 2
  MaxRecipeLines = 3
  MenuOps = {"createIngredient", "updateIngredient", "deactivateIngredient", "createDish", "deactivateDish", "setLines", "addLine", "removeLine", "createLink", "updateLink", "deleteLink"}
  MaxDay = 2
  MaxCharges = 1
  Montants = {13}
  Frequencies = {"ANNUEL", "TRIMESTRIEL"}
SYMMETRY Symmetry
CHECK_DEADLOCK FALSE
INVARIANTS
    OrderConsistent
    NoOrphanLine
    StockConsistent
    NeverBelowZero
    RestaurantConsistent
PROPERTIES
    TerminalIsFinal
    ArchivedStays
