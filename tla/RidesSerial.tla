----------------------------- MODULE RidesSerial ------------------------------
(***************************************************************************)
(* The ride service with behaviours of two kinds: serial, when no two       *)
(* handlers work on one ride at the same time, or not.  Which one is chosen *)
(* at the start.  start(), complete() and cancel() check an entity and save *)
(* it later, so some promises are kept by serial behaviours only.           *)
(***************************************************************************)
EXTENDS RidesProps

VARIABLE serial  \* is the behaviour serial?

Working(c, r) == calls[c].ride = r \/ r \in calls[c].todo

OneAtATime ==
    \A r \in Rides : \A b, c \in Slots :
        Working(b, r) /\ Working(c, r) => b = c

EitherInit == Init /\ serial \in BOOLEAN

EitherNext ==
    /\ Next
    /\ serial => OneAtATime'
    /\ UNCHANGED serial

EitherSpec == EitherInit /\ [][EitherNext]_<<vars, serial>>

\* If calls on one ride do not overlap, its status moves along RideMoves only,
\* which is what an order that follows the ride counts on; a completed or
\* cancelled ride is over (start(), complete() and cancel()).
SerialMovesAreLegal ==
    [][serial => \A r \in Rides : LegalMove(rides[r].status, rides'[r].status)]_vars

\* If calls on one ride do not overlap, a trip under way has its driver, and
\* cash is settled exactly when the trip is done (complete()).
SerialTripIsConsistent == serial => TripIsConsistent

=============================================================================
