------------------------------- MODULE Rentals -------------------------------
(***************************************************************************)
(* The rental service (src/src/modules/rentals/rentals.service.ts): a       *)
(* catalogue of vehicles with several units each, bookings that hold one    *)
(* unit while they are active, and the drivers who serve them.              *)
(*                                                                         *)
(* As in Rides, a handler is a call with one action per stretch between two *)
(* awaits that touch shared state, and save() is the two statements of      *)
(* TypeOrm.  Dates, prices and names do not steer any handler and are left  *)
(* out; a booking's dates are not compared with those of other bookings, so *)
(* it holds its unit from the request until it is closed.                   *)
(***************************************************************************)
EXTENDS Naturals, FiniteSets, TypeOrm

CONSTANTS
    Vehicles,    \* catalogue entries
    Bookings,    \* booking ids
    Clients,     \* users who only book
    Drivers,     \* users who may also serve bookings
    Calls,       \* slots for concurrent requests
    NULL,        \* SQL NULL / undefined
    Quantities,  \* units an administrator may enter
    Cash         \* bookings paid in cash

ASSUME RentalsNullAssumption == NULL \notin Vehicles \cup Bookings \cup Clients \cup Drivers
ASSUME QuantitiesAssumption == Quantities \subseteq Nat
ASSUME CashAssumption == Cash \subseteq Bookings

VARIABLES
    vehicles,  \* the rental_vehicles table
    bookings,  \* the rental_bookings table
    calls,     \* the handlers in flight
    winners    \* history: drivers whose accept succeeded

vars == <<vehicles, bookings, calls, winners>>

Users == Clients \cup Drivers

ActiveStatuses == {"requested", "accepted", "in_progress"}
ClosedStatuses == {"completed", "cancelled"}
Statuses == ActiveStatuses \cup ClosedStatuses \cup {"none"}

VehicleRow == [quantity : Quantities, available : BOOLEAN]

\* A booking; status "none" stands for an id not inserted yet.
BookingRow == [status : Statuses, vehicle : Vehicles \cup {NULL},
               client : Users \cup {NULL}, driver : Drivers \cup {NULL},
               payment : {"pending", "paid"}]

NoBooking == [status |-> "none", vehicle |-> NULL, client |-> NULL,
              driver |-> NULL, payment |-> "pending"]

(***************************************************************************)
(* A call: where it is, the vehicle or booking it is about, the user, the   *)
(* entity it holds and the columns save() decided to write.                 *)
(***************************************************************************)
PCs == {"idle", "count", "insert", "reload", "write",
        "vehicle_reload", "vehicle_write"}

Call == [pc : PCs, vehicle : Vehicles \cup {NULL},
         booking : Bookings \cup {NULL}, user : Users \cup {NULL},
         copy : BookingRow \cup VehicleRow,
         dirty : SUBSET (DOMAIN NoBooking \cup {"quantity", "available"})]

Idle == [pc |-> "idle", vehicle |-> NULL, booking |-> NULL, user |-> NULL,
         copy |-> NoBooking, dirty |-> {}]

At(c, pc) == calls[c].pc = pc
Become(c, call) == calls' = [calls EXCEPT ![c] = call]

\* The bookings that hold a unit of the vehicle.
Active(v) == {b \in Bookings : /\ bookings[b].vehicle = v
                               /\ bookings[b].status \in ActiveStatuses}

(***************************************************************************)
(* book(): load the vehicle, count its active bookings, insert.             *)
(***************************************************************************)
BookFind(c, v, u) ==
    /\ At(c, "idle")
    /\ vehicles[v].available
    /\ Become(c, [Idle EXCEPT !.pc = "count", !.vehicle = v, !.user = u,
                              !.copy = vehicles[v]])
    /\ UNCHANGED <<vehicles, bookings, winners>>

\* Mutant of BookCount: the last unit but one.
BookCountOffByOne(c) ==
    /\ At(c, "count")
    /\ Become(c, IF Cardinality(Active(calls[c].vehicle)) > calls[c].copy.quantity
                 THEN Idle ELSE [calls[c] EXCEPT !.pc = "insert"])
    /\ UNCHANGED <<vehicles, bookings, winners>>

BookCount(c) ==
    /\ At(c, "count")
    /\ Become(c, IF Cardinality(Active(calls[c].vehicle)) >= calls[c].copy.quantity
                 THEN Idle ELSE [calls[c] EXCEPT !.pc = "insert"])
    /\ UNCHANGED <<vehicles, bookings, winners>>

BookInsert(c) ==
    /\ At(c, "insert")
    /\ \E b \in Bookings :
          /\ bookings[b].status = "none"
          /\ bookings' = [bookings EXCEPT ![b] =
                [NoBooking EXCEPT !.status = "requested",
                                  !.vehicle = calls[c].vehicle,
                                  !.client = calls[c].user]]
    /\ Become(c, Idle)
    /\ UNCHANGED <<vehicles, winners>>

(***************************************************************************)
(* accept(): one conditional UPDATE.                                        *)
(***************************************************************************)
\* Mutant of Accept: WHERE status = requested is forgotten.
AcceptAnyStatus(b, d) ==
    /\ bookings[b].status # "none"
    /\ bookings[b].driver = NULL
    /\ bookings' = [bookings EXCEPT ![b].status = "accepted", ![b].driver = d]
    /\ winners' = [winners EXCEPT ![b] = @ \cup {d}]
    /\ UNCHANGED <<vehicles, calls>>

Accept(b, d) ==
    /\ bookings[b].status = "requested"
    /\ bookings[b].driver = NULL
    /\ bookings' = [bookings EXCEPT ![b].status = "accepted", ![b].driver = d]
    /\ winners' = [winners EXCEPT ![b] = @ \cup {d}]
    /\ UNCHANGED <<vehicles, calls>>

(***************************************************************************)
(* start(), complete(), cancel(): load the row, check it, change the        *)
(* entity, save().                                                          *)
(***************************************************************************)
Loaded(c, b, entity) ==
    /\ Become(c, [Idle EXCEPT !.pc = "reload", !.booking = b, !.copy = entity])
    /\ UNCHANGED <<vehicles, bookings, winners>>

StartRead(c, b, d) ==
    /\ At(c, "idle")
    /\ bookings[b].driver = d
    /\ bookings[b].status = "accepted"
    /\ Loaded(c, b, [bookings[b] EXCEPT !.status = "in_progress"])

\* Mutant of CompleteRead: the cash is settled but the status is not set.
CompleteReadSameStatus(c, b, d) ==
    /\ At(c, "idle")
    /\ bookings[b].driver = d
    /\ bookings[b].status = "in_progress"
    /\ Loaded(c, b, [bookings[b] EXCEPT !.payment = IF b \in Cash THEN "paid" ELSE @])

CompleteRead(c, b, d) ==
    /\ At(c, "idle")
    /\ bookings[b].driver = d
    /\ bookings[b].status = "in_progress"
    /\ Loaded(c, b, [bookings[b] EXCEPT !.status = "completed",
                       !.payment = IF b \in Cash THEN "paid" ELSE @])

CancelRead(c, b, u) ==
    /\ At(c, "idle")
    /\ u \in {bookings[b].client, bookings[b].driver}
    /\ bookings[b].status \in ActiveStatuses
    /\ Loaded(c, b, [bookings[b] EXCEPT !.status = "cancelled"])

SaveReload(c) ==
    /\ At(c, "reload")
    /\ Become(c, [calls[c] EXCEPT !.pc = "write",
                    !.dirty = DirtyColumns(calls[c].copy,
                                           bookings[calls[c].booking])])
    /\ UNCHANGED <<vehicles, bookings, winners>>

SaveWrite(c) ==
    /\ At(c, "write")
    /\ bookings' = [bookings EXCEPT ![calls[c].booking] =
                       SavedRow(@, calls[c].copy, calls[c].dirty)]
    /\ Become(c, Idle)
    /\ UNCHANGED <<vehicles, winners>>

(***************************************************************************)
(* updateVehicle(): an administrator changes the units or hides the         *)
(* vehicle; the other columns of the loaded entity go along.                *)
(***************************************************************************)
UpdateVehicleRead(c, v) ==
    /\ At(c, "idle")
    /\ \E entity \in VehicleRow :
          Become(c, [Idle EXCEPT !.pc = "vehicle_reload", !.vehicle = v,
                                 !.copy = entity])
    /\ UNCHANGED <<vehicles, bookings, winners>>

UpdateVehicleReload(c) ==
    /\ At(c, "vehicle_reload")
    /\ Become(c, [calls[c] EXCEPT !.pc = "vehicle_write",
                    !.dirty = DirtyColumns(calls[c].copy,
                                           vehicles[calls[c].vehicle])])
    /\ UNCHANGED <<vehicles, bookings, winners>>

UpdateVehicleWrite(c) ==
    /\ At(c, "vehicle_write")
    /\ vehicles' = [vehicles EXCEPT ![calls[c].vehicle] =
                       SavedRow(@, calls[c].copy, calls[c].dirty)]
    /\ Become(c, Idle)
    /\ UNCHANGED <<bookings, winners>>

-----------------------------------------------------------------------------

Init ==
    /\ vehicles \in [Vehicles -> VehicleRow]
    /\ bookings = [b \in Bookings |-> NoBooking]
    /\ calls = [c \in Calls |-> Idle]
    /\ winners = [b \in Bookings |-> {}]

\* The next step of a handler in flight.
Step(c) ==
    \/ BookCount(c) \/ BookInsert(c)
    \/ SaveReload(c) \/ SaveWrite(c)
    \/ UpdateVehicleReload(c) \/ UpdateVehicleWrite(c)

\* A new request arrives.
Arrive(c) ==
    \/ \E v \in Vehicles, u \in Users : BookFind(c, v, u)
    \/ \E b \in Bookings, d \in Drivers : StartRead(c, b, d) \/ CompleteRead(c, b, d)
    \/ \E b \in Bookings, u \in Users : CancelRead(c, b, u)
    \/ \E v \in Vehicles : UpdateVehicleRead(c, v)

Next ==
    \/ \E c \in Calls : Arrive(c) \/ Step(c)
    \/ \E b \in Bookings, d \in Drivers : Accept(b, d)

Spec == Init /\ [][Next]_vars

=============================================================================
