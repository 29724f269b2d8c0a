------------------------------ MODULE Restaurant ------------------------------
(***************************************************************************)
(* The restaurant's menu beside its charges.  They share no table, and a   *)
(* step of one leaves the other alone.                                     *)
(***************************************************************************)
EXTENDS RestaurantMenu, RestaurantCharges

RestaurantSpec == MenuSpec /\ ChargesSpec

(* Of the menu and the charges: names, recipes and links are those asked   *)
(* for as long as requests do not overlap, and a charge ends after it      *)
(* starts unless its start was moved, and is projected to the year.        *)
RestaurantConsistent == MenuInTurn /\ ChargesConsistent
===============================================================================
