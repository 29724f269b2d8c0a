--------------------------- MODULE RestaurantCharges ---------------------------
(***************************************************************************)
(* The fixed charges of a restaurant: their validity and what they come to *)
(* in a month.  An update loads the charge, sets the columns it is given,  *)
(* and writes those that differ from what it loaded, in one UPDATE before  *)
(* its commit.  A charge without an end has end 0.                         *)
(***************************************************************************)
EXTENDS Requests, Sequences, Functions

CONSTANTS
    MaxDay, MaxCharges,   \* bounds on the calendar and on the charges
    Montants, Frequencies

ASSUME ChargesAssumption ==
    /\ MaxDay \in Nat \ {0} /\ MaxCharges \in Nat /\ Montants \subseteq Nat \ {0}
    /\ Frequencies \subseteq {"MENSUEL", "TRIMESTRIEL", "ANNUEL", "PONCTUEL"}

Days == 1..MaxDay
ChargeIds == 1..MaxCharges
Charge == [montant : Montants, frequency : Frequencies,
           date_debut : Days, date_fin : 0..MaxDay, is_active : BOOLEAN]

VARIABLES
    today,
    charges, lastCharge,   \* restaurant_charges
    moved,                 \* history: charges whose start an update has moved
    hreq
chargeVars == <<today, charges, lastCharge, moved, hreq>>

NoCharge == CHOOSE c \in Charge : TRUE
(* given: the columns of an update that are not None; a column that is not *)
(* given is left as it was loaded.                                         *)
HIdle == [pc |-> "idle", on |-> 0, fields |-> {}, given |-> NoCharge, seen |-> NoCharge]

ChargesInit ==
    /\ today = 1
    /\ charges = <<>> /\ lastCharge = 0 /\ moved = {}
    /\ hreq = [r \in Workers |-> HIdle]

HBecome(r, q) == hreq' = [hreq EXCEPT ![r] = q]
HKeep == UNCHANGED <<today, charges, lastCharge, moved>>
Valid(c) == c.date_fin = 0 \/ c.date_debut <= c.date_fin

-----------------------------------------------------------------------------
(* create_charge: the start is today unless it is given. *)
CreateCharge ==
    /\ lastCharge < MaxCharges /\ lastCharge' = lastCharge + 1
    /\ \E c \in Charge :
          /\ c.is_active /\ Valid(c)
          /\ charges' = Append(charges, c)
    /\ UNCHANGED <<today, moved, hreq>>

(* PATCH: a column that is null is not given, so an end is never removed.  *)
UpdateArrives(r) ==
    /\ ~Busy(hreq, r)
    /\ \E c \in 1..lastCharge, F \in {{"montant", "frequency"}} \cup SUBSET {"date_debut", "date_fin"}, g \in Charge :
          /\ F # {} /\ g.is_active /\ ("date_fin" \in F => g.date_fin # 0)
          /\ \A f \in DOMAIN g \ (F \cup {"is_active"}) : g[f] = NoCharge[f]
          /\ HBecome(r, [HIdle EXCEPT !.pc = "load", !.on = c, !.fields = F, !.given = g])
    /\ HKeep

DeactivateArrives(r) ==
    /\ ~Busy(hreq, r)
    /\ \E c \in 1..lastCharge :
          HBecome(r, [HIdle EXCEPT !.pc = "load", !.on = c, !.fields = {"is_active"},
                                   !.given = [NoCharge EXCEPT !.is_active = FALSE]])
    /\ HKeep

LoadCharge(r) ==
    /\ hreq[r].pc = "load"
    /\ HBecome(r, [hreq[r] EXCEPT !.pc = "write", !.seen = charges[hreq[r].on]])
    /\ HKeep

(* The end, when it is given, is compared with the start as this request   *)
(* has it; a start that is given is not compared with the end.             *)
Refused(fields, new) == "date_fin" \in fields /\ ~Valid(new)

(* Mutant of Refused: the end is taken as it comes. *)
RefusedNever(fields, new) == FALSE

WriteCharge(r) ==
    LET q == hreq[r]
        new == [f \in DOMAIN q.seen |-> IF f \in q.fields THEN q.given[f] ELSE q.seen[f]]
        changed == {f \in DOMAIN new : new[f] # q.seen[f]}
    IN
    /\ q.pc = "write"
    /\ IF Refused(q.fields, new) THEN UNCHANGED <<charges, moved>>
       ELSE /\ charges' = [charges EXCEPT ![q.on] =
                  [f \in DOMAIN @ |-> IF f \in changed THEN new[f] ELSE @[f]]]
            /\ moved' = IF "date_debut" \in changed THEN moved \cup {q.on} ELSE moved
    /\ HBecome(r, HIdle) /\ UNCHANGED <<today, lastCharge>>

NextDay == today < MaxDay /\ today' = today + 1 /\ UNCHANGED <<charges, lastCharge, moved, hreq>>

ChargesNext ==
    \/ CreateCharge \/ NextDay
    \/ \E r \in Workers : UpdateArrives(r) \/ DeactivateArrives(r) \/ LoadCharge(r) \/ WriteCharge(r)

-----------------------------------------------------------------------------
(* get_current, montant_mensuel, get_total_mensuel and the projection of a *)
(* year from the month.                                                    *)
Current == {c \in 1..lastCharge :
    /\ charges[c].is_active /\ charges[c].date_debut <= today
    /\ charges[c].date_fin = 0 \/ today <= charges[c].date_fin}
MontantMensuel(c) ==
    CASE c.frequency = "TRIMESTRIEL" -> c.montant \div 3
      [] c.frequency = "ANNUEL" -> c.montant \div 12
      [] OTHER -> c.montant
TotalMensuel == SumFunctionOnSet([c \in ChargeIds |-> MontantMensuel(charges[c])], Current)
TotalAnnuel == 12 * TotalMensuel

(* A charge whose start was never moved ends on its first day or later,    *)
(* whatever updates overlap.                                               *)
EndUnlessMoved == \A c \in 1..lastCharge : c \in moved \/ Valid(charges[c])

(* The projection of a year falls short of what the charges come to, those *)
(* paid once aside, by less than 12 cents for each of them, and never      *)
(* exceeds it.                                                             *)
PerYear(c) == CASE c.frequency = "MENSUEL" -> 12 * c.montant
                [] c.frequency = "TRIMESTRIEL" -> 4 * c.montant
                [] OTHER -> c.montant
ProjectionOfYear ==
    (\A c \in Current : charges[c].frequency # "PONCTUEL") =>
        LET due == SumFunctionOnSet([c \in ChargeIds |-> PerYear(charges[c])], Current)
        IN due - 12 * Cardinality(Current) <= TotalAnnuel /\ TotalAnnuel <= due

ChargesConsistent == EndUnlessMoved /\ ProjectionOfYear

(* "La date de fin doit etre apres la date de debut." *)
EndAfterStart == \A c \in 1..lastCharge : Valid(charges[c])

ChargesSpec == ChargesInit /\ [][ChargesNext]_chargeVars
=============================================================================
