----------------------------- MODULE RentalsProps -----------------------------
(***************************************************************************)
(* What the rental service promises about units, drivers and bookings.      *)
(***************************************************************************)
EXTENDS Rentals

\* Every variable holds what the code could put there.
TypeOK ==
    /\ vehicles \in [Vehicles -> VehicleRow]
    /\ bookings \in [Bookings -> BookingRow]
    /\ calls \in [Calls -> Call]
    /\ winners \in [Bookings -> SUBSET Drivers]

(***************************************************************************)
(* The service promises what follows for requests that do not overlap on    *)
(* one booking or one vehicle; accept(), a single statement, may come at    *)
(* any time.                                                                *)
(***************************************************************************)

\* The booking a request saves, or the vehicle it books or edits.
Target(c) == IF calls[c].booking # NULL THEN calls[c].booking
             ELSE calls[c].vehicle

\* No two calls save one booking at the same time, and no two requests that
\* book or edit one vehicle overlap.
OneAtATime ==
    \A b, c \in Calls :
        b # c => Target(b) = NULL \/ Target(b) # Target(c)

\* No booking takes a unit that is not there: "Reject when every unit is
\* already held by an active booking" (rentals.service.ts:167).  An
\* administrator may still lower the quantity below what is out.
NotOversold ==
    [][\A v \in Vehicles :
          Cardinality(Active(v)') > Cardinality(Active(v)) =>
          Cardinality(Active(v)') <= vehicles[v].quantity]_vars

\* A rental under way or done is served by the driver who won it, and cash is
\* settled exactly when it is done ("mark it paid on completion",
\* rentals.service.ts:310).
RentalIsConsistent ==
    \A b \in Bookings :
        /\ bookings[b].status \in {"in_progress", "completed"} =>
               bookings[b].driver \in winners[b]
        /\ bookings[b].payment = "paid" <=>
               bookings[b].status = "completed" /\ b \in Cash

(***************************************************************************)
(* The service implements the same abstract claim as the ride service.      *)
(***************************************************************************)

Phase == [b \in Bookings |->
            CASE bookings[b].status = "none" -> "unpublished"
              [] bookings[b].status = "requested" -> "open"
              [] OTHER -> "settled"]

TheWinner(won) == IF won = {} THEN NULL ELSE CHOOSE d \in won : TRUE

Holder == [b \in Bookings |-> TheWinner(winners[b])]

Abstract == INSTANCE RideClaim
            WITH Rides <- Bookings, phase <- Phase, holder <- Holder

\* "Concurrent accepts race at the database and exactly one wins"
\* (rentals.service.ts:272), and no stale save puts a booking back on offer or
\* gives it to somebody else.
ImplementsClaim == Abstract!Spec

=============================================================================
