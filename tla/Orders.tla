------------------------------- MODULE Orders --------------------------------
(***************************************************************************)
(* Merchant orders (src/src/modules/orders/orders.service.ts) and the rides *)
(* that deliver them.  The customer and the merchant change an order by     *)
(* load, check, save(); from READY_FOR_PICKUP on it follows its ride        *)
(* through RIDE_UPDATED, whose listener is one more handler that nobody     *)
(* awaits.                                                                  *)
(*                                                                         *)
(* Calls are cut at every await as in module Rides, and save() is that of   *)
(* module TypeOrm.  Rides appear by their status only and move as RideMoves *)
(* allows.  Amounts, items and addresses are fixed at checkout and left     *)
(* out, as are the timestamps, which nothing reads back.                    *)
(***************************************************************************)
EXTENDS Naturals, FiniteSets, TypeOrm, RideMoves

CONSTANTS
    Orders,    \* order ids
    Rides,     \* ride ids
    Calls,     \* slots for concurrent requests and listeners
    NULL,      \* SQL NULL / undefined
    MaxAborts  \* bound: calls that fail or die half-way

ASSUME NullAssumption == NULL \notin Orders \cup Rides
ASSUME AbortsAssumption == MaxAborts \in Nat

VARIABLES
    orders,   \* the orders table: status and ride
    history,  \* each order's newest order_status_history row <<from, to>>
    rides,    \* each ride's status and the order it was requested for
    reached,  \* history: the statuses each ride has had
    calls,    \* the handlers in flight
    aborts    \* how many calls have died half-way

vars == <<orders, history, rides, reached, calls, aborts>>

OrderStatuses == {"none", "pending", "accepted", "preparing",
                  "ready_for_pickup", "driver_assigned", "picked_up",
                  "delivered", "cancelled"}
RideStatuses == {"none", "requested", "accepted", "in_progress", "completed",
                 "cancelled"}

OrderRow == [status : OrderStatuses, ride : Rides \cup {NULL}]
NoOrder == [status |-> "none", ride |-> NULL]

Ride == [status : RideStatuses, order : Orders \cup {NULL}]
NoRide == [status |-> "none", order |-> NULL]

\* Mutant of Allowed: the merchant may cancel an order that waits for a driver.
AllowedLateCancel ==
    [pending |-> {"accepted", "cancelled"},
     accepted |-> {"preparing", "cancelled"},
     preparing |-> {"ready_for_pickup", "cancelled"},
     ready_for_pickup |-> {"cancelled"}]

\* MERCHANT_TRANSITIONS
Allowed ==
    [pending |-> {"accepted", "cancelled"},
     accepted |-> {"preparing", "cancelled"},
     preparing |-> {"ready_for_pickup", "cancelled"}]

\* Mutant of Follows: the end of the trip is not reported.
FollowsUntilPickup ==
    [accepted |-> "driver_assigned", in_progress |-> "picked_up"]

\* orderStatusForRide(): undefined for the other statuses.
Follows ==
    [accepted |-> "driver_assigned", in_progress |-> "picked_up",
     completed |-> "delivered"]

(***************************************************************************)
(* A call: where it is, the order it loaded and changed (copy), the status  *)
(* that order had (from), the columns to write, and the ride update a       *)
(* listener was given.                                                      *)
(***************************************************************************)
PCs == {"idle", "ride", "find", "reload", "write", "history"}

Call == [pc : PCs, order : Orders \cup {NULL}, copy : OrderRow,
         from : OrderStatuses, dirty : SUBSET DOMAIN NoOrder,
         ride : Rides \cup {NULL}, update : RideStatuses]

Idle == [pc |-> "idle", order |-> NULL, copy |-> NoOrder, from |-> "none",
         dirty |-> {}, ride |-> NULL, update |-> "none"]

IsIdle(c) == calls[c].pc = "idle"
At(c, pc) == calls[c].pc = pc
Become(c, call) == calls' = [calls EXCEPT ![c] = call]

\* transition() up to its first await: remember the old status, set the new.
Transition(c, o, pc, status) ==
    Become(c, [Idle EXCEPT !.pc = pc, !.order = o, !.from = orders[o].status,
                           !.copy = [orders[o] EXCEPT !.status = status]])

\* checkout(): one database transaction.
Checkout(o) ==
    /\ orders[o].status = "none"
    /\ orders' = [orders EXCEPT ![o].status = "pending"]
    /\ history' = [history EXCEPT ![o] = <<"none", "pending">>]
    /\ UNCHANGED <<rides, reached, calls, aborts>>

\* cancelByCustomer()
CancelRead(c, o) ==
    /\ IsIdle(c)
    /\ orders[o].status = "pending"
    /\ Transition(c, o, "reload", "cancelled")
    /\ UNCHANGED <<orders, history, rides, reached, aborts>>

\* updateByMerchant(): check the transition; READY_FOR_PICKUP asks for a ride
\* before the order is saved.
MerchantRead(c, o, status) ==
    /\ IsIdle(c)
    /\ orders[o].status \in DOMAIN Allowed
    /\ status \in Allowed[orders[o].status]
    /\ Transition(c, o, IF status = "ready_for_pickup" THEN "ride"
                        ELSE "reload", status)
    /\ UNCHANGED <<orders, history, rides, reached, aborts>>

\* Mutant of RequestRide: the order does not remember its ride.
RequestRideForgotten(c) ==
    /\ At(c, "ride")
    /\ \E r \in Rides :
          /\ rides[r].status = "none"
          /\ rides' = [rides EXCEPT ![r].status = "requested",
                                    ![r].order = calls[c].order]
          /\ reached' = [reached EXCEPT ![r] = {"requested"}]
          /\ Become(c, [calls[c] EXCEPT !.pc = "reload"])
    /\ UNCHANGED <<orders, history, aborts>>

\* rides.request() inserts the ride and offers it to drivers, who may accept
\* it before this call goes on; order.rideId is set in memory.
RequestRide(c) ==
    /\ At(c, "ride")
    /\ \E r \in Rides :
          /\ rides[r].status = "none"
          /\ rides' = [rides EXCEPT ![r].status = "requested",
                                    ![r].order = calls[c].order]
          /\ reached' = [reached EXCEPT ![r] = {"requested"}]
          /\ Become(c, [calls[c] EXCEPT !.pc = "reload", !.copy.ride = r])
    /\ UNCHANGED <<orders, history, aborts>>

\* The ride service moves a ride and emits RIDE_UPDATED: a listener starts.
MoveRide(c, r, status) ==
    /\ IsIdle(c)
    /\ <<rides[r].status, status>> \in LegalMoves
    /\ rides' = [rides EXCEPT ![r].status = status]
    /\ reached' = [reached EXCEPT ![r] = @ \cup {status}]
    /\ Become(c, [Idle EXCEPT !.pc = "find", !.ride = r, !.update = status])
    /\ UNCHANGED <<orders, history, aborts>>

\* What onRideUpdated() does with the order it found, if any.
Follow(c, found) ==
    LET update == calls[c].update IN
    IF update \in DOMAIN Follows
       /\ \E o \in found : orders[o].status \notin {"cancelled", Follows[update]}
    THEN \E o \in found : Transition(c, o, "reload", Follows[update])
    ELSE Become(c, Idle)

\* Mutant of ListenerFind: every update moves the order one status on.
ListenerFindAdvances(c) ==
    LET after == [ready_for_pickup |-> "driver_assigned",
                  driver_assigned |-> "picked_up", picked_up |-> "delivered"]
        found == {o \in Orders : /\ orders[o].ride = calls[c].ride
                                 /\ orders[o].status \in DOMAIN after}
    IN  /\ At(c, "find")
        /\ IF found = {} THEN Become(c, Idle)
           ELSE \E o \in found :
                   Transition(c, o, "reload", after[orders[o].status])
        /\ UNCHANGED <<orders, history, rides, reached, aborts>>

\* onRideUpdated(): the order of that ride, by its ride_id.
ListenerFind(c) ==
    /\ At(c, "find")
    /\ Follow(c, {o \in Orders : orders[o].ride = calls[c].ride})
    /\ UNCHANGED <<orders, history, rides, reached, aborts>>

\* save(): the SELECT that decides which columns to write ...
SaveReload(c) ==
    /\ At(c, "reload")
    /\ Become(c, [calls[c] EXCEPT !.pc = "write",
                    !.dirty = DirtyColumns(calls[c].copy,
                                           orders[calls[c].order])])
    /\ UNCHANGED <<orders, history, rides, reached, aborts>>

\* ... the UPDATE ...
SaveWrite(c) ==
    /\ At(c, "write")
    /\ orders' = [orders EXCEPT ![calls[c].order] =
                     SavedRow(@, calls[c].copy, calls[c].dirty)]
    /\ Become(c, [calls[c] EXCEPT !.pc = "history"])
    /\ UNCHANGED <<history, rides, reached, aborts>>

\* Mutant of HistoryInsert: the old status is read after it was overwritten.
HistoryInsertLate(c) ==
    /\ At(c, "history")
    /\ history' = [history EXCEPT ![calls[c].order] =
                      <<calls[c].copy.status, calls[c].copy.status>>]
    /\ Become(c, Idle)
    /\ UNCHANGED <<orders, rides, reached, aborts>>

\* ... and the history row, in a statement of its own.
HistoryInsert(c) ==
    /\ At(c, "history")
    /\ history' = [history EXCEPT ![calls[c].order] =
                      <<calls[c].from, calls[c].copy.status>>]
    /\ Become(c, Idle)
    /\ UNCHANGED <<orders, rides, reached, aborts>>

\* A query throws, or the process dies, and the call never goes on.
Abort(c) ==
    /\ ~IsIdle(c)
    /\ aborts < MaxAborts
    /\ aborts' = aborts + 1
    /\ Become(c, Idle)
    /\ UNCHANGED <<orders, history, rides, reached>>

-----------------------------------------------------------------------------

Init ==
    /\ orders = [o \in Orders |-> NoOrder]
    /\ history = [o \in Orders |-> <<"none", "none">>]
    /\ rides = [r \in Rides |-> NoRide]
    /\ reached = [r \in Rides |-> {}]
    /\ calls = [c \in Calls |-> Idle]
    /\ aborts = 0

\* The next step of a handler in flight.
Step(c) ==
    \/ RequestRide(c) \/ ListenerFind(c)
    \/ SaveReload(c) \/ SaveWrite(c) \/ HistoryInsert(c)

Next ==
    \/ \E o \in Orders : Checkout(o)
    \/ \E c \in Calls, o \in Orders : CancelRead(c, o)
    \/ \E c \in Calls, o \in Orders, status \in OrderStatuses :
          MerchantRead(c, o, status)
    \/ \E c \in Calls, r \in Rides, status \in RideStatuses :
          MoveRide(c, r, status)
    \/ \E c \in Calls : Step(c) \/ Abort(c)

Spec == Init /\ [][Next]_vars

\* Awaited queries answer.  Nobody is obliged to press a button.
Fairness == \A c \in Calls : WF_vars(Step(c))

=============================================================================
