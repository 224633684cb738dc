----------------------------- MODULE OrdersProps ------------------------------
(***************************************************************************)
(* What an order promises to its customer, its merchant and its ride.       *)
(***************************************************************************)
EXTENDS Orders

\* Every variable holds what the code could put there.
TypeOK ==
    /\ orders \in [Orders -> OrderRow]
    /\ history \in [Orders -> OrderStatuses \X OrderStatuses]
    /\ rides \in [Rides -> Ride]
    /\ reached \in [Rides -> SUBSET RideStatuses]
    /\ calls \in [Calls -> Call]
    /\ aborts \in Nat

RidesOf(o) == {r \in Rides : rides[r].order = o}

\* What a ride must have gone through before its order may say so.
Evidence == [driver_assigned |-> "accepted", picked_up |-> "in_progress",
             delivered |-> "completed"]

\* However requests, listeners and stale saves interleave, an order never
\* claims a driver, a pick-up or a delivery that no ride of its own has had,
\* and never points at the ride of another order (onRideUpdated()).
NoFalseProgress ==
    \A o \in Orders :
        /\ orders[o].status \in DOMAIN Evidence =>
               \E r \in RidesOf(o) : Evidence[orders[o].status] \in reached[r]
        /\ orders[o].ride # NULL => orders[o].ride \in RidesOf(o)

(***************************************************************************)
(* One handler at a time on each order.                                     *)
(***************************************************************************)

\* The handler is working on the order, or on news of its ride.
Busy(c, o) ==
    \/ calls[c].order = o
    \/ /\ calls[c].ride # NULL
       /\ rides[calls[c].ride].order = o

Quiet(o) == \A c \in Calls : ~Busy(c, o)

\* Once no handler is at work, the order says what its ride says; after a
\* cancelled ride it keeps what it said last (orderStatusForRide()).
OrderFollowsRide ==
    \A o \in Orders : \A r \in RidesOf(o) :
        Quiet(o) =>
            CASE rides[r].status = "requested" ->
                     orders[o].status = "ready_for_pickup"
              [] rides[r].status = "accepted" ->
                     orders[o].status = "driver_assigned"
              [] rides[r].status = "in_progress" ->
                     orders[o].status = "picked_up"
              [] rides[r].status = "completed" ->
                     orders[o].status = "delivered"
              [] OTHER -> orders[o].status \in {"ready_for_pickup",
                              "driver_assigned", "picked_up"}

\* No driver is sent out for an order that is cancelled: customers cancel only
\* while it is pending, merchants only before it is ready.
CancelledHasNoRide ==
    \A o \in Orders : orders[o].status = "cancelled" => RidesOf(o) = {}

\* Every new row of the history starts where the one before it ended and is a
\* step the rules allow.
HistoryStep(last, row) ==
    row # last =>
        /\ row[1] = last[2]
        /\ \/ row = <<"none", "pending">>
           \/ row[1] \in DOMAIN Allowed /\ row[2] \in Allowed[row[1]]
           \/ row \in {<<"ready_for_pickup", "driver_assigned">>,
                       <<"driver_assigned", "picked_up">>,
                       <<"picked_up", "delivered">>}

=============================================================================
