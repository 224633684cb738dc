------------------------------- MODULE Market --------------------------------
(***************************************************************************)
(* What the market offers, side by side: drivers who are available          *)
(* (Presence), products in stock (Stock) and promotions (Promotions).  They *)
(* share no state, so each behaviour moves one part, chosen at the start,   *)
(* and the others stay as they are.                                         *)
(***************************************************************************)
EXTENDS StockProps

CONSTANTS Drivers, d1, VehicleTypes, car, VehicleChanges, MaxAborts,
          Promotions, Values, Minimums, Moments, Subtotals, Fees

VARIABLES
    part,    \* the part that moves
    serial,  \* do updates of one promotion follow one another?
    profiles, geo, ref, driverCalls, aborts,
    promotions, updates

presenceVars == <<profiles, geo, ref, driverCalls, aborts>>
promotionVars == <<promotions, updates>>

Av == INSTANCE PresenceProps WITH calls <- driverCalls
Pr == INSTANCE PromotionsProps WITH calls <- updates

ASSUME MarketAssumption ==
    /\ StockAssumption /\ Av!PresenceAssumption
    /\ Pr!PromotionsAssumption /\ Pr!PricesAssumption

(***************************************************************************)
(* The calls that may overlap.                                              *)
(***************************************************************************)

\* At most one update is in flight.
UpdatesAlone ==
    \A b, c \in Calls :
        updates[b].pc # "idle" /\ updates[c].pc # "idle" => b = c

(***************************************************************************)
(* One part moves.                                                          *)
(***************************************************************************)
PartInit ==
    /\ Init /\ Av!Init /\ Pr!Init
    /\ part \in {"presence", "stock", "promotions"}
    /\ serial \in IF part = "promotions" THEN BOOLEAN ELSE {FALSE}
    /\ part # "presence" => profiles[d1].vehicle = car

PresenceMoves ==
    /\ part = "presence" /\ Av!Next
    /\ UNCHANGED <<part, serial, vars, promotionVars>>

\* A merchant's call on a product is alone with it.
StockMoves ==
    /\ part = "stock" /\ Next
    /\ MerchantsAlone'
    /\ UNCHANGED <<part, serial, presenceVars, promotionVars>>

PromotionsMove ==
    /\ part = "promotions" /\ Pr!Next
    /\ serial => UpdatesAlone'
    /\ UNCHANGED <<part, serial, vars, presenceVars>>

PartNext == PresenceMoves \/ StockMoves \/ PromotionsMove

PartVars == <<part, serial, vars, presenceVars, promotionVars>>

\* The fairness of the part that moves.
PartFairness ==
    /\ \A c \in Calls :
          /\ SF_vars(part = "stock" /\ Step(c))
          /\ WF_presenceVars(part = "presence" /\ Av!Step(c))
    /\ \A d \in Drivers :
          SF_presenceVars(part = "presence" /\ \E c \in Calls : Av!LocationGet(c, d))

PartSpec == PartInit /\ [][PartNext]_PartVars /\ PartFairness

(***************************************************************************)
(* What the parts promise, with the calls that may overlap.                 *)
(***************************************************************************)

\* A driver who stays registered is found in the right set in the end
\* (updateLocation()).
RegisteredIsFound == Av!RegisteredIsFound

\* If updates follow one another, every promotion can be applied
\* (updatePromotion()).
PromotionsAreValid == serial => Pr!PromotionsAreValid

\* Whatever updates overlap, the best promotion leaves a charge between zero
\* and the full price, and none would have been better (bestPromotion()).
ChargeIsFair == Pr!ChargeIsFair

=============================================================================
