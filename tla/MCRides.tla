------------------------------- MODULE MCRides -------------------------------
(***************************************************************************)
(* Small instances of the ride service for TLC.                             *)
(***************************************************************************)
EXTENDS RidesProps, TLC

CONSTANTS c1, d1, d2

\* A course or moto ride offered at once, a parcel that needs a trusted driver
\* and a planned merchant delivery.
NowBookings ==
    {[client |-> c1, scheduled |-> FALSE, required |-> 0, cash |-> TRUE]}
ParcelBookings ==
    {[client |-> c1, scheduled |-> FALSE, required |-> 1, cash |-> TRUE]}
PlannedBookings ==
    {[client |-> c1, scheduled |-> TRUE, required |-> 0, cash |-> FALSE]}

\* A planned delivery of a parcel that needs a trusted driver.
DueBookings ==
    {[client |-> c1, scheduled |-> TRUE, required |-> 1, cash |-> FALSE]}

AllBookings == NowBookings \cup ParcelBookings \cup PlannedBookings

Symmetry == Permutations(Calls) \cup Permutations(Timers)

=============================================================================
