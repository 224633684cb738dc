----------------------------- MODULE OrdersSerial -----------------------------
(***************************************************************************)
(* The orders service with behaviours of three kinds, chosen at the start:  *)
(* serial, when no two handlers work on one order at the same time, the     *)
(* listeners of its ride included; overlap, when they do; death, when       *)
(* moreover a handler may die half-way.  Handlers check an order and save   *)
(* it later, so some promises are kept by serial behaviours only.           *)
(***************************************************************************)
EXTENDS OrdersProps

VARIABLE kind

serial == kind = "serial"

OneAtATime ==
    \A o \in Orders : \A b, c \in Calls : Busy(b, o) /\ Busy(c, o) => b = c

KindInit == Init /\ kind \in {"serial", "overlap", "death"}

KindNext ==
    /\ Next
    /\ serial => OneAtATime'
    /\ kind # "death" => UNCHANGED aborts
    /\ UNCHANGED kind

KindSpec == KindInit /\ [][KindNext]_<<vars, kind>>

\* Once no handler is at work, the order says what its ride says
\* (onRideUpdated()).
SerialOrderFollowsRide == serial => OrderFollowsRide

\* No driver is sent out for an order that is cancelled (cancelByCustomer()).
SerialCancelledHasNoRide == serial => CancelledHasNoRide

\* The history tells how an order got where it is (transition()).
SerialHistoryIsAPath ==
    [][serial => \A o \in Orders : HistoryStep(history[o], history'[o])]_vars

\* When the trip is over the customer's order becomes delivered
\* (onRideUpdated()).
SerialDeliveryIsReported ==
    \A o \in Orders : \A r \in Rides :
        (serial /\ rides[r].order = o /\ rides[r].status = "completed")
            ~> orders[o].status = "delivered"

=============================================================================
