---------------------------- MODULE RentalsProofs -----------------------------
(***************************************************************************)
(* Proofs about the rental service, for any number of vehicles, bookings,   *)
(* users and overlapping requests: the model is typed, and it implements    *)
(* the abstract claim, that a booking is taken by one driver for good.      *)
(*                                                                         *)
(* A save may be stale, so the status of a row may jump among those of a    *)
(* booking that was taken or closed.  What a save can never do is to put a  *)
(* booking back on offer: the status it writes is one of a booking under    *)
(* way or closed, and a save that leaves the status out has seen the row    *)
(* in such a status.                                                        *)
(*                                                                         *)
(* The last section adds what holds when requests on one booking or vehicle *)
(* follow one another: rentals are consistent and no unit is sold twice.    *)
(***************************************************************************)
EXTENDS RentalsProps, FiniteSetTheorems, TLAPS

\* The statuses of a booking that is not on offer any more.
Settled == {"accepted", "in_progress", "completed", "cancelled"}

\* What a call holds where it is.
Good(call) ==
    /\ call \in Call
    /\ call.pc \in {"count", "insert"} =>
           call.vehicle \in Vehicles /\ call.user \in Users
    /\ call.pc \in {"reload", "write"} =>
           /\ call.booking \in Bookings
           /\ call.copy \in BookingRow
           /\ call.copy.status \in Settled
    /\ call.pc \in {"vehicle_reload", "vehicle_write"} =>
           call.vehicle \in Vehicles /\ call.copy \in VehicleRow

\* What a save knows of the row it is about.
Informed(table, call) ==
    /\ call.pc \in {"reload", "write"} => table[call.booking].status # "none"
    /\ call.pc = "write" /\ "status" \notin call.dirty =>
           table[call.booking].status \in Settled

\* Nobody has won a booking that is on offer, and nobody wins a second time.
WonOnce(b) ==
    /\ bookings[b].status \notin Settled => winners[b] = {}
    /\ \A d, e \in winners[b] : d = e

\* The inductive invariant.
Kept ==
    /\ TypeOK
    /\ \A c \in Calls : Good(calls[c]) /\ Informed(bookings, calls[c])
    /\ \A b \in Bookings : WonOnce(b)

\* A call that has ended is in order, whatever the table holds.
LEMMA IdleIsGood == ASSUME NEW table PROVE Good(Idle) /\ Informed(table, Idle)
BY DEF Good, Informed, Idle, Call, PCs, NoBooking, BookingRow, Statuses

\* The call moves on alone.
LEMMA CallMoves ==
    ASSUME Kept, NEW c \in Calls, NEW call, Become(c, call),
           Good(call), Informed(bookings, call),
           UNCHANGED <<vehicles, bookings, winners>>
    PROVE  Kept'
<1>1. calls' \in [Calls -> Call]
    BY DEF Kept, TypeOK, Become, Good
<1>2. \A b \in Calls : calls'[b] \in {calls[b], call}
    BY DEF Kept, TypeOK, Become
<1>. QED BY <1>1, <1>2 DEF Kept, TypeOK, WonOnce

\* A row moves, and the call that moves it is done: no booking goes back.
LEMMA RowMoves ==
    ASSUME Kept, UNCHANGED calls \/ \E c \in Calls : Become(c, Idle),
           NEW b \in Bookings, NEW row \in BookingRow,
           bookings' = [bookings EXCEPT ![b] = row],
           row.status # "none",
           bookings[b].status \in Settled => row.status \in Settled,
           winners' \in [Bookings -> SUBSET Drivers],
           \A a \in Bookings \ {b} : winners'[a] = winners[a],
           row.status \notin Settled => winners'[b] = {},
           \A d, e \in winners'[b] : d = e,
           UNCHANGED vehicles
    PROVE  Kept'
<1>1. bookings' \in [Bookings -> BookingRow]
    BY DEF Kept, TypeOK
<1>2. bookings'[b] = row /\ \A a \in Bookings \ {b} : bookings'[a] = bookings[a]
    BY DEF Kept, TypeOK
<1>3. \A a \in Calls : calls'[a] \in {calls[a], Idle}
    BY DEF Become, Kept, TypeOK
<1>4. calls' \in [Calls -> Call]
    <2>1. Idle \in Call
        BY IdleIsGood DEF Good
    <2>. QED BY <2>1 DEF Become, Kept, TypeOK
<1>5. \A a \in Calls : Good(calls'[a]) /\ Informed(bookings', calls'[a])
    <2>. SUFFICES ASSUME NEW a \in Calls
                  PROVE  Good(calls'[a]) /\ Informed(bookings', calls'[a])
        OBVIOUS
    <2>1. CASE calls'[a] = Idle
        BY <2>1, IdleIsGood
    <2>2. CASE calls'[a] = calls[a]
        <3>1. Good(calls[a]) /\ Informed(bookings, calls[a])
            BY DEF Kept
        <3>2. \A x \in Bookings :
                  /\ bookings[x].status # "none" => bookings'[x].status # "none"
                  /\ bookings[x].status \in Settled =>
                         bookings'[x].status \in Settled
            BY <1>2
        <3>3. Informed(bookings', calls[a])
            BY <3>1, <3>2 DEF Good, Informed
        <3>. QED BY <2>2, <3>1, <3>3
    <2>. QED BY <1>3, <2>1, <2>2
<1>6. \A a \in Bookings : WonOnce(a)'
    <2>. SUFFICES ASSUME NEW a \in Bookings PROVE WonOnce(a)'
        OBVIOUS
    <2>1. CASE a = b
        BY <1>2, <2>1 DEF WonOnce
    <2>2. CASE a # b
        BY <1>2, <2>2 DEF WonOnce, Kept
    <2>. QED BY <2>1, <2>2
<1>. QED BY <1>1, <1>4, <1>5, <1>6 DEF Kept, TypeOK

\* What save() writes is a booking again, with the old status or the new one.
LEMMA SavedBooking ==
    ASSUME NEW row \in BookingRow, NEW copy \in BookingRow, NEW dirty
    PROVE  /\ SavedRow(row, copy, dirty) \in BookingRow
           /\ SavedRow(row, copy, dirty).status =
                  IF "status" \in dirty THEN copy.status ELSE row.status
BY DEF SavedRow, BookingRow

\* What save() writes of a vehicle is a vehicle again.
LEMMA SavedVehicle ==
    ASSUME NEW row \in VehicleRow, NEW copy \in VehicleRow, NEW dirty
    PROVE  SavedRow(row, copy, dirty) \in VehicleRow
BY DEF SavedRow, VehicleRow

(***************************************************************************)
(* What the three statements that change a booking do.                      *)
(***************************************************************************)

\* The INSERT of book(): a booking nobody has won is put on offer.
LEMMA InsertIsNew ==
    ASSUME Kept, NEW c \in Calls, BookInsert(c)
    PROVE  \E b \in Bookings, row \in BookingRow :
               /\ bookings[b].status = "none" /\ row.status = "requested"
               /\ bookings' = [bookings EXCEPT ![b] = row]
               /\ Become(c, Idle)
               /\ UNCHANGED <<vehicles, winners>>
<1>1. Good(calls[c]) /\ calls[c].pc = "insert"
    BY DEF BookInsert, At, Kept
<1>2. PICK b \in Bookings :
          /\ bookings[b].status = "none"
          /\ bookings' = [bookings EXCEPT ![b] =
                [NoBooking EXCEPT !.status = "requested",
                                  !.vehicle = calls[c].vehicle,
                                  !.client = calls[c].user]]
    BY DEF BookInsert
<1>. DEFINE row == [NoBooking EXCEPT !.status = "requested",
                                     !.vehicle = calls[c].vehicle,
                                     !.client = calls[c].user]
<1>3. row \in BookingRow /\ row.status = "requested"
    BY <1>1 DEF Good, NoBooking, BookingRow, Statuses, ActiveStatuses
<1>. QED BY <1>2, <1>3 DEF BookInsert

\* The UPDATE of save(): the booking is not on offer afterwards.
LEMMA SaveSettles ==
    ASSUME Kept, NEW c \in Calls, SaveWrite(c)
    PROVE  \E b \in Bookings, row \in BookingRow :
               /\ bookings[b].status # "none" /\ row.status \in Settled
               /\ bookings' = [bookings EXCEPT ![b] = row]
               /\ Become(c, Idle)
               /\ UNCHANGED <<vehicles, winners>>
<1>. DEFINE self == calls[c]
            row == SavedRow(bookings[self.booking], self.copy, self.dirty)
<1>1. /\ self.pc = "write" /\ Good(self) /\ Informed(bookings, self)
    BY DEF SaveWrite, At, Kept
<1>2. /\ self.booking \in Bookings /\ self.copy \in BookingRow
      /\ self.copy.status \in Settled
    BY <1>1 DEF Good
<1>3. bookings[self.booking] \in BookingRow
    BY <1>2 DEF Kept, TypeOK
<1>4. /\ row \in BookingRow
      /\ row.status = IF "status" \in self.dirty THEN self.copy.status
                      ELSE bookings[self.booking].status
    BY <1>2, <1>3, SavedBooking
<1>5. bookings[self.booking].status # "none" /\ row.status \in Settled
    BY <1>1, <1>2, <1>4 DEF Informed
<1>6. bookings' = [bookings EXCEPT ![self.booking] = row]
    BY DEF SaveWrite
<1>. HIDE DEF row
<1>. QED BY <1>2, <1>4, <1>5, <1>6 DEF SaveWrite

\* The UPDATE of accept(): a booking on offer, which nobody has won, is won.
LEMMA AcceptWins ==
    ASSUME Kept, NEW b \in Bookings, NEW d \in Drivers, Accept(b, d)
    PROVE  /\ bookings[b].status = "requested" /\ winners[b] = {}
           /\ \E row \in BookingRow :
                 /\ row.status = "accepted"
                 /\ bookings' = [bookings EXCEPT ![b] = row]
           /\ winners' = [winners EXCEPT ![b] = {d}]
           /\ UNCHANGED <<vehicles, calls>>
<1>1. bookings[b].status = "requested" /\ winners[b] = {}
    BY DEF Accept, Kept, WonOnce, Settled
<1>2. winners' = [winners EXCEPT ![b] = {d}]
    BY <1>1 DEF Accept, Kept, TypeOK
<1>. DEFINE row == [bookings[b] EXCEPT !.status = "accepted", !.driver = d]
<1>3. bookings[b] \in BookingRow
    BY DEF Kept, TypeOK
<1>4. row \in BookingRow /\ row.status = "accepted"
    BY <1>3 DEF BookingRow, Statuses, ActiveStatuses
<1>5. bookings' = [bookings EXCEPT ![b] = row]
    BY <1>3 DEF Accept, BookingRow, Kept, TypeOK
<1>. QED BY <1>1, <1>2, <1>4, <1>5 DEF Accept

(***************************************************************************)
(* Every step keeps the invariant.                                          *)
(***************************************************************************)

\* The reads of start(), complete() and cancel() keep the invariant: the status
\* they are about to save is one of a settled booking.
LEMMA LoadedKeeps ==
    ASSUME Kept, NEW c \in Calls, NEW b \in Bookings, NEW entity \in BookingRow,
           entity.status \in Settled, bookings[b].status # "none",
           Loaded(c, b, entity)
    PROVE  Kept'
<1>. DEFINE next == [Idle EXCEPT !.pc = "reload", !.booking = b, !.copy = entity]
<1>1. Good(next) /\ Informed(bookings, next)
    BY DEF Good, Informed, Idle, Call, PCs
<1>2. Become(c, next) /\ UNCHANGED <<vehicles, bookings, winners>>
    BY DEF Loaded
<1>. HIDE DEF next
<1>. QED BY <1>1, <1>2, CallMoves

\* Every request that arrives keeps the invariant (Arrive()).
LEMMA ArriveKeeps == ASSUME Kept, NEW c \in Calls, Arrive(c) PROVE Kept'
<1>1. ASSUME NEW v \in Vehicles, NEW u \in Users, BookFind(c, v, u) PROVE Kept'
    <2>. DEFINE next == [Idle EXCEPT !.pc = "count", !.vehicle = v, !.user = u,
                                     !.copy = vehicles[v]]
    <2>1. vehicles[v] \in VehicleRow
        BY DEF Kept, TypeOK
    <2>2. Good(next) /\ Informed(bookings, next)
        BY <2>1 DEF Good, Informed, Idle, Call, PCs
    <2>3. Become(c, next) /\ UNCHANGED <<vehicles, bookings, winners>>
        BY <1>1 DEF BookFind
    <2>. HIDE DEF next
    <2>. QED BY <2>2, <2>3, CallMoves
<1>2. ASSUME NEW b \in Bookings, NEW d \in Drivers, StartRead(c, b, d)
      PROVE  Kept'
    <2>. DEFINE entity == [bookings[b] EXCEPT !.status = "in_progress"]
    <2>1. entity \in BookingRow /\ entity.status \in Settled
        BY DEF Kept, TypeOK, BookingRow, Statuses, ActiveStatuses, Settled
    <2>. QED BY <1>2, <2>1, LoadedKeeps DEF StartRead
<1>3. ASSUME NEW b \in Bookings, NEW d \in Drivers, CompleteRead(c, b, d)
      PROVE  Kept'
    <2>. DEFINE entity == [bookings[b] EXCEPT !.status = "completed",
                              !.payment = IF b \in Cash THEN "paid" ELSE @]
    <2>1. entity \in BookingRow /\ entity.status \in Settled
        BY DEF Kept, TypeOK, BookingRow, Statuses, ClosedStatuses, Settled
    <2>2. bookings[b].status # "none" /\ Loaded(c, b, entity)
        BY <1>3 DEF CompleteRead
    <2>. HIDE DEF entity
    <2>. QED BY <2>1, <2>2, LoadedKeeps
<1>4. ASSUME NEW b \in Bookings, NEW u \in Users, CancelRead(c, b, u)
      PROVE  Kept'
    <2>. DEFINE entity == [bookings[b] EXCEPT !.status = "cancelled"]
    <2>1. entity \in BookingRow /\ entity.status \in Settled
        BY DEF Kept, TypeOK, BookingRow, Statuses, ClosedStatuses, Settled
    <2>. QED BY <1>4, <2>1, LoadedKeeps DEF CancelRead, ActiveStatuses
<1>5. ASSUME NEW v \in Vehicles, UpdateVehicleRead(c, v) PROVE Kept'
    <2>1. PICK entity \in VehicleRow :
              Become(c, [Idle EXCEPT !.pc = "vehicle_reload", !.vehicle = v,
                                     !.copy = entity])
        BY <1>5 DEF UpdateVehicleRead
    <2>. DEFINE next == [Idle EXCEPT !.pc = "vehicle_reload", !.vehicle = v,
                                     !.copy = entity]
    <2>2. Good(next) /\ Informed(bookings, next)
        BY DEF Good, Informed, Idle, Call, PCs
    <2>3. Become(c, next) /\ UNCHANGED <<vehicles, bookings, winners>>
        BY <1>5, <2>1 DEF UpdateVehicleRead
    <2>. HIDE DEF next
    <2>. QED BY <2>2, <2>3, CallMoves
<1>. QED BY <1>1, <1>2, <1>3, <1>4, <1>5 DEF Arrive

\* Every handler's next step keeps the invariant (Step()).
LEMMA StepKeeps == ASSUME Kept, NEW c \in Calls, Step(c) PROVE Kept'
<1>. DEFINE self == calls[c]
<1>1. Good(self) /\ Informed(bookings, self) /\ self \in Call
    BY DEF Kept, Good
<1>2. CASE BookCount(c)
    <2>. DEFINE next == [self EXCEPT !.pc = "insert"]
    <2>1. Good(next) /\ Informed(bookings, next)
        BY <1>1, <1>2 DEF BookCount, At, Good, Informed, Call, PCs
    <2>2. /\ Become(c, Idle) \/ Become(c, next)
          /\ UNCHANGED <<vehicles, bookings, winners>>
        BY <1>2 DEF BookCount
    <2>. HIDE DEF next
    <2>. QED BY <2>1, <2>2, IdleIsGood, CallMoves
<1>3. CASE BookInsert(c)
    <2>1. PICK b \in Bookings, row \in BookingRow :
              /\ bookings[b].status = "none" /\ row.status = "requested"
              /\ bookings' = [bookings EXCEPT ![b] = row]
              /\ Become(c, Idle)
              /\ UNCHANGED <<vehicles, winners>>
        BY <1>3, InsertIsNew
    <2>2. winners[b] = {}
        BY <2>1 DEF Kept, WonOnce, Settled
    <2>3. winners' \in [Bookings -> SUBSET Drivers]
        BY <2>1 DEF Kept, TypeOK
    <2>. QED BY <2>1, <2>2, <2>3, RowMoves DEF Settled
<1>4. CASE SaveReload(c)
    <2>. DEFINE dirty == DirtyColumns(self.copy, bookings[self.booking])
                next == [self EXCEPT !.pc = "write", !.dirty = dirty]
    <2>1. /\ self.pc = "reload" /\ self.booking \in Bookings
          /\ self.copy \in BookingRow /\ self.copy.status \in Settled
          /\ bookings[self.booking].status # "none"
        BY <1>1, <1>4 DEF SaveReload, At, Good, Informed
    <2>2. bookings[self.booking] \in BookingRow
        BY <2>1 DEF Kept, TypeOK
    <2>3. /\ dirty \subseteq DOMAIN NoBooking
          /\ "status" \notin dirty =>
                 bookings[self.booking].status = self.copy.status
        BY <2>2 DEF DirtyColumns, BookingRow, NoBooking
    <2>. HIDE DEF dirty
    <2>4. /\ next \in Call /\ next.pc = "write" /\ next.booking = self.booking
          /\ next.copy = self.copy /\ next.dirty = dirty
        BY <1>1, <2>3 DEF Call, PCs
    <2>5. Become(c, next) /\ UNCHANGED <<vehicles, bookings, winners>>
        BY <1>4 DEF SaveReload, dirty
    <2>. HIDE DEF next
    <2>6. Good(next) /\ Informed(bookings, next)
        BY <2>1, <2>3, <2>4 DEF Good, Informed
    <2>. QED BY <2>5, <2>6, CallMoves
<1>5. CASE SaveWrite(c)
    <2>1. PICK b \in Bookings, row \in BookingRow :
              /\ bookings[b].status # "none" /\ row.status \in Settled
              /\ bookings' = [bookings EXCEPT ![b] = row]
              /\ Become(c, Idle)
              /\ UNCHANGED <<vehicles, winners>>
        BY <1>5, SaveSettles
    <2>2. \A d, e \in winners[b] : d = e
        BY DEF Kept, WonOnce
    <2>3. winners' \in [Bookings -> SUBSET Drivers] /\ row.status # "none"
        BY <2>1 DEF Kept, TypeOK, Settled
    <2>. QED BY <2>1, <2>2, <2>3, RowMoves
<1>6. CASE UpdateVehicleReload(c)
    <2>. DEFINE dirty == DirtyColumns(self.copy, vehicles[self.vehicle])
                next == [self EXCEPT !.pc = "vehicle_write", !.dirty = dirty]
    <2>1. self.pc = "vehicle_reload" /\ self.vehicle \in Vehicles
        BY <1>1, <1>6 DEF UpdateVehicleReload, At, Good
    <2>2. vehicles[self.vehicle] \in VehicleRow
        BY <2>1 DEF Kept, TypeOK
    <2>3. dirty \subseteq {"quantity", "available"}
        BY <2>2 DEF DirtyColumns, VehicleRow
    <2>. HIDE DEF dirty
    <2>4. Good(next) /\ Informed(bookings, next)
        BY <1>1, <2>1, <2>3 DEF Good, Informed, Call, PCs
    <2>5. Become(c, next) /\ UNCHANGED <<vehicles, bookings, winners>>
        BY <1>6 DEF UpdateVehicleReload, dirty
    <2>. HIDE DEF next
    <2>. QED BY <2>4, <2>5, CallMoves
<1>7. CASE UpdateVehicleWrite(c)
    <2>1. /\ self.vehicle \in Vehicles /\ self.copy \in VehicleRow
        BY <1>1, <1>7 DEF UpdateVehicleWrite, At, Good
    <2>2. vehicles[self.vehicle] \in VehicleRow
        BY <2>1 DEF Kept, TypeOK
    <2>3. vehicles' \in [Vehicles -> VehicleRow]
        BY <1>7, <2>1, <2>2, SavedVehicle DEF UpdateVehicleWrite, Kept, TypeOK
    <2>4. Idle \in Call /\ \A b \in Calls : calls'[b] \in {calls[b], Idle}
        BY <1>7, IdleIsGood DEF UpdateVehicleWrite, Become, Kept, TypeOK, Good
    <2>5. calls' \in [Calls -> Call]
        BY <1>7, <2>4 DEF UpdateVehicleWrite, Become, Kept, TypeOK
    <2>6. UNCHANGED <<bookings, winners>>
        BY <1>7 DEF UpdateVehicleWrite
    <2>. QED BY <2>3, <2>4, <2>5, <2>6, IdleIsGood DEF Kept, TypeOK, WonOnce
<1>. QED BY <1>2, <1>3, <1>4, <1>5, <1>6, <1>7 DEF Step

\* The UPDATE of accept() keeps the invariant.
LEMMA AcceptKeeps ==
    ASSUME Kept, NEW b \in Bookings, NEW d \in Drivers, Accept(b, d)
    PROVE  Kept'
<1>1. PICK row \in BookingRow :
          /\ row.status = "accepted"
          /\ bookings' = [bookings EXCEPT ![b] = row]
    BY AcceptWins
<1>2. winners' = [winners EXCEPT ![b] = {d}] /\ UNCHANGED <<vehicles, calls>>
    BY AcceptWins
<1>3. /\ winners' \in [Bookings -> SUBSET Drivers] /\ winners'[b] = {d}
      /\ \A a \in Bookings \ {b} : winners'[a] = winners[a]
    BY <1>2 DEF Kept, TypeOK
<1>4. row.status # "none" /\ row.status \in Settled
    BY <1>1 DEF Settled
<1>. QED BY <1>1, <1>2, <1>3, <1>4, RowMoves

\* The invariant holds at the start.
LEMMA KeptInit == Init => Kept
<1>. SUFFICES ASSUME Init PROVE Kept
    OBVIOUS
<1>1. NoBooking \in BookingRow /\ NoBooking.status \notin Settled
    BY DEF NoBooking, BookingRow, Statuses, Settled
<1>2. Idle \in Call
    BY IdleIsGood DEF Good
<1>3. TypeOK
    BY <1>1, <1>2 DEF Init, TypeOK
<1>4. \A b \in Bookings : WonOnce(b)
    BY DEF Init, WonOnce
<1>5. \A c \in Calls : Good(calls[c]) /\ Informed(bookings, calls[c])
    BY IdleIsGood DEF Init
<1>. QED BY <1>3, <1>4, <1>5 DEF Kept

\* It is kept by every step, and by stuttering.
LEMMA KeptNext == Kept /\ [Next]_vars => Kept'
<1>. SUFFICES ASSUME Kept, [Next]_vars PROVE Kept'
    OBVIOUS
<1>1. CASE UNCHANGED vars
    BY <1>1 DEF vars, Kept, TypeOK, WonOnce
<1>2. CASE Next
    BY <1>2, ArriveKeeps, StepKeeps, AcceptKeeps DEF Next
<1>. QED BY <1>1, <1>2

\* So it holds always.
LEMMA KeptAlways == Spec => []Kept
BY KeptInit, KeptNext, PTL DEF Spec

\* Every variable of the model keeps its type, stale saves included.
THEOREM TypeCorrect == Spec => []TypeOK
<1>1. Kept => TypeOK
    BY DEF Kept
<1>. QED BY <1>1, KeptAlways, PTL

(***************************************************************************)
(* The refinement.                                                          *)
(***************************************************************************)

\* The steps that leave every booking and every winner alone.
LEMMA OthersLeaveBookings ==
    ASSUME NEW c \in Calls, Arrive(c) \/ Step(c),
           ~BookInsert(c), ~SaveWrite(c)
    PROVE  UNCHANGED <<bookings, winners>>
BY DEF Arrive, Step, BookFind, StartRead, CompleteRead, CancelRead, Loaded,
       UpdateVehicleRead, BookCount, SaveReload, UpdateVehicleReload,
       UpdateVehicleWrite

\* An INSERT publishes the booking.
LEMMA InsertPublishes ==
    ASSUME Kept, NEW c \in Calls, BookInsert(c)
    PROVE  \E b \in Bookings : Abstract!Publish(b)
<1>1. PICK b \in Bookings, row \in BookingRow :
          /\ bookings[b].status = "none" /\ row.status = "requested"
          /\ bookings' = [bookings EXCEPT ![b] = row]
          /\ UNCHANGED winners
    BY InsertIsNew
<1>2. /\ bookings'[b] = row
      /\ \A a \in Bookings \ {b} : bookings'[a] = bookings[a]
    BY <1>1 DEF Kept, TypeOK
<1>3. Phase' = [Phase EXCEPT ![b] = "open"]
    BY <1>1, <1>2 DEF Phase
<1>4. Phase[b] = "unpublished" /\ UNCHANGED Holder
    BY <1>1 DEF Phase, Holder
<1>. QED BY <1>3, <1>4 DEF Abstract!Publish

\* A save withdraws a booking on offer, or tells nothing new of a settled one.
LEMMA SaveWithdraws ==
    ASSUME Kept, NEW c \in Calls, SaveWrite(c)
    PROVE  \/ \E b \in Bookings : Abstract!WithdrawRide(b)
           \/ UNCHANGED <<Phase, Holder>>
<1>1. PICK b \in Bookings, row \in BookingRow :
          /\ bookings[b].status # "none" /\ row.status \in Settled
          /\ bookings' = [bookings EXCEPT ![b] = row]
          /\ UNCHANGED winners
    BY SaveSettles
<1>2. /\ bookings'[b] = row
      /\ \A a \in Bookings \ {b} : bookings'[a] = bookings[a]
    BY <1>1 DEF Kept, TypeOK
<1>3. Phase' = [Phase EXCEPT ![b] = "settled"]
    BY <1>1, <1>2 DEF Phase, Settled
<1>4. UNCHANGED Holder
    BY <1>1 DEF Holder
<1>5. CASE bookings[b].status = "requested"
    <2>1. Phase[b] = "open"
        BY <1>5 DEF Phase
    <2>. QED BY <1>3, <1>4, <2>1 DEF Abstract!WithdrawRide
<1>6. CASE bookings[b].status # "requested"
    <2>1. Phase[b] = "settled"
        BY <1>1, <1>6 DEF Phase
    <2>. QED BY <1>3, <1>4, <2>1 DEF Phase
<1>. QED BY <1>5, <1>6

\* An accept claims it.
LEMMA AcceptClaims ==
    ASSUME Kept, NEW b \in Bookings, NEW d \in Drivers, Accept(b, d)
    PROVE  Abstract!Claim(b, d)
<1>1. PICK row \in BookingRow :
          /\ row.status = "accepted"
          /\ bookings' = [bookings EXCEPT ![b] = row]
    BY AcceptWins
<1>2. /\ bookings[b].status = "requested"
      /\ winners' = [winners EXCEPT ![b] = {d}]
    BY AcceptWins
<1>3. /\ bookings'[b] = row /\ winners'[b] = {d}
      /\ \A a \in Bookings \ {b} :
            bookings'[a] = bookings[a] /\ winners'[a] = winners[a]
    BY <1>1, <1>2 DEF Kept, TypeOK
<1>4. Phase' = [Phase EXCEPT ![b] = "settled"] /\ Phase[b] = "open"
    BY <1>1, <1>2, <1>3 DEF Phase
<1>5. TheWinner({d}) = d
    BY DEF TheWinner
<1>6. Holder' = [Holder EXCEPT ![b] = d]
    BY <1>3, <1>5 DEF Holder
<1>. QED BY <1>4, <1>6 DEF Abstract!Claim

\* However requests and stale saves interleave, the service implements the
\* abstract claim: one driver takes a booking, and it is never on offer again
\* (accept(), cancel(), start() and complete()).
THEOREM Implements == Spec => ImplementsClaim
<1>1. Init => Abstract!Init
    BY DEF Init, Abstract!Init, Phase, Holder, TheWinner, NoBooking
<1>2. ASSUME Kept, [Next]_vars
      PROVE  [Abstract!Next]_<<Phase, Holder>>
    <2>1. CASE UNCHANGED <<bookings, winners>>
        BY <2>1 DEF Phase, Holder
    <2>2. ASSUME NEW c \in Calls, Arrive(c) \/ Step(c)
          PROVE  [Abstract!Next]_<<Phase, Holder>>
        <3>1. CASE BookInsert(c)
            BY <1>2, <3>1, InsertPublishes DEF Abstract!Next
        <3>2. CASE SaveWrite(c)
            BY <1>2, <3>2, SaveWithdraws DEF Abstract!Next
        <3>3. CASE ~BookInsert(c) /\ ~SaveWrite(c)
            BY <2>1, <2>2, <3>3, OthersLeaveBookings
        <3>. QED BY <3>1, <3>2, <3>3
    <2>3. ASSUME NEW b \in Bookings, NEW d \in Drivers, Accept(b, d)
          PROVE  [Abstract!Next]_<<Phase, Holder>>
        BY <1>2, <2>3, AcceptClaims DEF Abstract!Next
    <2>4. CASE UNCHANGED vars
        BY <2>1, <2>4 DEF vars
    <2>. QED BY <1>2, <2>2, <2>3, <2>4 DEF Next
<1>. QED BY <1>1, <1>2, KeptAlways, PTL DEF Spec, ImplementsClaim, Abstract!Spec

(***************************************************************************)
(* Requests on one booking or vehicle that follow one another.              *)
(*                                                                         *)
(* A request then finds the row as it left it, but for an accept() that     *)
(* came in between, and the count it took of a vehicle's bookings is still  *)
(* true, or too high, when it inserts.                                      *)
(***************************************************************************)

\* The bookings of a table that hold a unit of the vehicle.
Holding(table, v) == {b \in Bookings : /\ table[b].vehicle = v
                                       /\ table[b].status \in ActiveStatuses}

\* A booking under way has a driver who won it, and cash is settled when it is
\* done.
Fits(table, won, b) ==
    /\ table[b].status \in {"accepted", "in_progress", "completed"} =>
           table[b].driver \in won[b]
    /\ table[b].payment = "paid" <=>
           table[b].status = "completed" /\ b \in Cash

\* A save is one step ahead of its row, of which only the driver may have
\* changed, and only if the save cancels the booking.
Ahead(row, copy, b) ==
    /\ row.status \in ActiveStatuses /\ row.payment = "pending"
    /\ copy.vehicle = row.vehicle
    /\ \/ copy.status = "cancelled"
       \/ /\ copy.driver = row.driver
          /\ \/ copy.status = "in_progress" /\ row.status = "accepted"
             \/ copy.status = "completed" /\ row.status = "in_progress"
    /\ copy.payment = "paid" <=> copy.status = "completed" /\ b \in Cash

\* What a call knows of the row it saves.
Fresh(table, call) ==
    /\ call.pc \in {"reload", "write"} =>
           Ahead(table[call.booking], call.copy, call.booking)
    /\ call.pc = "write" =>
           /\ "status" \in call.dirty
           /\ call.copy.payment = "paid" => "payment" \in call.dirty

\* What a call knows of the units of the vehicle it books.
Counted(table, cars, call) ==
    /\ call.pc \in {"count", "insert", "vehicle_reload", "vehicle_write"} =>
           call.booking = NULL
    /\ call.pc \in {"count", "insert"} => call.copy = cars[call.vehicle]
    /\ call.pc = "insert" =>
           Cardinality(Holding(table, call.vehicle)) < cars[call.vehicle].quantity

\* The inductive invariant of requests that do not overlap.
Alone ==
    /\ Kept
    /\ \A b \in Bookings : Fits(bookings, winners, b)
    /\ \A c \in Calls : Fresh(bookings, calls[c]) /\ Counted(bookings, vehicles, calls[c])
    /\ \A v \in Vehicles : IsFiniteSet(Holding(bookings, v))

\* The definition of Active(), for the table of any state.
LEMMA ActiveIsHolding ==
    ASSUME NEW v
    PROVE  Active(v) = Holding(bookings, v) /\ Active(v)' = Holding(bookings', v)
BY DEF Active, Holding

\* A call that has ended knows nothing.
LEMMA IdleKnowsNothing ==
    ASSUME NEW table, NEW cars PROVE Fresh(table, Idle) /\ Counted(table, cars, Idle)
BY DEF Fresh, Counted, Idle

\* The call moves on alone.
LEMMA AloneCallMoves ==
    ASSUME Alone, Kept', NEW c \in Calls, NEW call, Become(c, call),
           Fresh(bookings, call), Counted(bookings, vehicles, call),
           UNCHANGED <<vehicles, bookings, winners>>
    PROVE  Alone'
<1>1. \A b \in Calls : calls'[b] \in {calls[b], call}
    BY DEF Alone, Kept, TypeOK, Become
<1>. QED BY <1>1 DEF Alone

\* The reads of start(), complete() and cancel() are one step ahead.
LEMMA LoadedAlone ==
    ASSUME Alone, Kept', NEW c \in Calls, NEW b \in Bookings, NEW entity,
           Ahead(bookings[b], entity, b), Loaded(c, b, entity)
    PROVE  Alone'
<1>. DEFINE next == [Idle EXCEPT !.pc = "reload", !.booking = b, !.copy = entity]
<1>1. Fresh(bookings, next) /\ Counted(bookings, vehicles, next)
    BY DEF Fresh, Counted, Idle
<1>2. Become(c, next) /\ UNCHANGED <<vehicles, bookings, winners>>
    BY DEF Loaded
<1>. HIDE DEF next
<1>. QED BY <1>1, <1>2, AloneCallMoves

\* Every request that arrives keeps the invariant (Arrive()).
LEMMA ArriveAlone == ASSUME Alone, Kept', NEW c \in Calls, Arrive(c) PROVE Alone'
<1>0. /\ \A b \in Bookings : Fits(bookings, winners, b) /\ bookings[b] \in BookingRow
      /\ Kept
    BY DEF Alone, Kept, TypeOK
<1>1. ASSUME NEW v \in Vehicles, NEW u \in Users, BookFind(c, v, u) PROVE Alone'
    <2>. DEFINE next == [Idle EXCEPT !.pc = "count", !.vehicle = v, !.user = u,
                                     !.copy = vehicles[v]]
    <2>1. Fresh(bookings, next) /\ Counted(bookings, vehicles, next)
        BY DEF Fresh, Counted, Idle
    <2>2. Become(c, next) /\ UNCHANGED <<vehicles, bookings, winners>>
        BY <1>1 DEF BookFind
    <2>. HIDE DEF next
    <2>. QED BY <2>1, <2>2, AloneCallMoves
<1>2. ASSUME NEW b \in Bookings, NEW d \in Drivers, StartRead(c, b, d)
      PROVE  Alone'
    <2>. DEFINE entity == [bookings[b] EXCEPT !.status = "in_progress"]
    <2>1. bookings[b].status = "accepted" /\ Loaded(c, b, entity)
        BY <1>2 DEF StartRead
    <2>2. Ahead(bookings[b], entity, b)
        BY <1>0, <2>1 DEF Ahead, Fits, ActiveStatuses, BookingRow
    <2>. HIDE DEF entity
    <2>. QED BY <2>1, <2>2, LoadedAlone
<1>3. ASSUME NEW b \in Bookings, NEW d \in Drivers, CompleteRead(c, b, d)
      PROVE  Alone'
    <2>. DEFINE entity == [bookings[b] EXCEPT !.status = "completed",
                              !.payment = IF b \in Cash THEN "paid" ELSE @]
    <2>1. bookings[b].status = "in_progress" /\ Loaded(c, b, entity)
        BY <1>3 DEF CompleteRead
    <2>2. Ahead(bookings[b], entity, b)
        BY <1>0, <2>1 DEF Ahead, Fits, ActiveStatuses, BookingRow
    <2>. HIDE DEF entity
    <2>. QED BY <2>1, <2>2, LoadedAlone
<1>4. ASSUME NEW b \in Bookings, NEW u \in Users, CancelRead(c, b, u)
      PROVE  Alone'
    <2>. DEFINE entity == [bookings[b] EXCEPT !.status = "cancelled"]
    <2>1. bookings[b].status \in ActiveStatuses /\ Loaded(c, b, entity)
        BY <1>4 DEF CancelRead
    <2>2. Ahead(bookings[b], entity, b)
        BY <1>0, <2>1 DEF Ahead, Fits, ActiveStatuses, BookingRow
    <2>. HIDE DEF entity
    <2>. QED BY <2>1, <2>2, LoadedAlone
<1>5. ASSUME NEW v \in Vehicles, UpdateVehicleRead(c, v) PROVE Alone'
    <2>1. PICK entity \in VehicleRow :
              Become(c, [Idle EXCEPT !.pc = "vehicle_reload", !.vehicle = v,
                                     !.copy = entity])
        BY <1>5 DEF UpdateVehicleRead
    <2>. DEFINE next == [Idle EXCEPT !.pc = "vehicle_reload", !.vehicle = v,
                                     !.copy = entity]
    <2>2. Fresh(bookings, next) /\ Counted(bookings, vehicles, next)
        BY DEF Fresh, Counted, Idle
    <2>3. Become(c, next) /\ UNCHANGED <<vehicles, bookings, winners>>
        BY <1>5, <2>1 DEF UpdateVehicleRead
    <2>. HIDE DEF next
    <2>. QED BY <2>2, <2>3, AloneCallMoves
<1>. QED BY <1>1, <1>2, <1>3, <1>4, <1>5 DEF Arrive

\* No other call saves the booking of a save, or books the vehicle of a booking
\* or an edit.
LEMMA NobodyElse ==
    ASSUME Alone, OneAtATime, NEW c \in Calls, NEW e \in Calls, e # c
    PROVE  /\ calls[c].pc = "write" /\ calls[e].pc \in {"reload", "write"} =>
                  calls[e].booking # calls[c].booking
           /\ calls[c].pc \in {"insert", "vehicle_write"}
              /\ calls[e].pc \in {"count", "insert"} =>
                  calls[e].vehicle # calls[c].vehicle
<1>1. /\ Good(calls[c]) /\ Good(calls[e])
      /\ Counted(bookings, vehicles, calls[c])
      /\ Counted(bookings, vehicles, calls[e])
      /\ Target(c) = NULL \/ Target(c) # Target(e)
    BY DEF Alone, Kept, OneAtATime
<1>. QED BY <1>1, RentalsNullAssumption DEF Good, Counted, Target

\* The INSERT of book() takes a unit that is there.
LEMMA InsertAlone ==
    ASSUME Alone, Kept', OneAtATime, NEW c \in Calls, BookInsert(c)
    PROVE  /\ Alone'
           /\ \A v \in Vehicles :
                 Cardinality(Active(v)') > Cardinality(Active(v)) =>
                 Cardinality(Active(v)') <= vehicles[v].quantity
<1>. DEFINE self == calls[c]
            v == calls[c].vehicle
<1>1. /\ self.pc = "insert" /\ Good(self) /\ Counted(bookings, vehicles, self)
      /\ v \in Vehicles
    BY DEF BookInsert, At, Alone, Kept, Good
<1>2. PICK b \in Bookings :
          /\ bookings[b].status = "none"
          /\ bookings' = [bookings EXCEPT ![b] =
                [NoBooking EXCEPT !.status = "requested",
                                  !.vehicle = calls[c].vehicle,
                                  !.client = calls[c].user]]
    BY DEF BookInsert
<1>3. /\ bookings'[b].status = "requested" /\ bookings'[b].vehicle = v
      /\ bookings'[b].payment = "pending"
      /\ \A a \in Bookings \ {b} : bookings'[a] = bookings[a]
    BY <1>2 DEF Alone, Kept, TypeOK, NoBooking
<1>4. Holding(bookings', v) = Holding(bookings, v) \cup {b}
    BY <1>2, <1>3 DEF Holding, ActiveStatuses
<1>5. \A w \in Vehicles \ {v} : Holding(bookings', w) = Holding(bookings, w)
    BY <1>2, <1>3 DEF Holding, ActiveStatuses
<1>6. b \notin Holding(bookings, v)
    BY <1>2 DEF Holding, ActiveStatuses
<1>7. IsFiniteSet(Holding(bookings, v)) /\ vehicles[v].quantity \in Nat
    BY <1>1, QuantitiesAssumption DEF Alone, Kept, TypeOK, VehicleRow
<1>8. /\ IsFiniteSet(Holding(bookings', v))
      /\ Cardinality(Holding(bookings, v)) \in Nat
      /\ Cardinality(Holding(bookings', v)) = Cardinality(Holding(bookings, v)) + 1
    BY <1>4, <1>6, <1>7, FS_AddElement, FS_CardinalityType
<1>9. Cardinality(Holding(bookings', v)) <= vehicles[v].quantity
    BY <1>1, <1>7, <1>8 DEF Counted
<1>10. ASSUME NEW w \in Vehicles
       PROVE  Cardinality(Active(w)') > Cardinality(Active(w)) =>
              Cardinality(Active(w)') <= vehicles[w].quantity
    <2>1. Cardinality(Holding(bookings, w)) \in Nat
        BY FS_CardinalityType DEF Alone
    <2>. QED BY <1>5, <1>9, <2>1, ActiveIsHolding
<1>11. \A a \in Bookings : Fits(bookings', winners', a)
    <2>1. UNCHANGED winners
        BY DEF BookInsert
    <2>. QED BY <1>3, <2>1 DEF Alone, Fits
<1>12. /\ calls'[c] = Idle /\ \A e \in Calls \ {c} : calls'[e] = calls[e]
       /\ UNCHANGED vehicles
    BY DEF BookInsert, Become, Alone, Kept, TypeOK
<1>13. ASSUME NEW e \in Calls
       PROVE  Fresh(bookings', calls'[e]) /\ Counted(bookings', vehicles', calls'[e])
    <2>1. CASE e = c
        BY <1>12, <2>1, IdleKnowsNothing
    <2>2. CASE e # c
        <3>1. /\ calls'[e] = calls[e] /\ Good(calls[e])
              /\ Fresh(bookings, calls[e]) /\ Counted(bookings, vehicles, calls[e])
            BY <1>12, <2>2 DEF Alone, Kept
        <3>2. calls[e].pc \in {"count", "insert"} =>
                  calls[e].vehicle \in Vehicles \ {v}
            BY <1>1, <2>2, <3>1, NobodyElse DEF Good
        <3>3. calls[e].pc \in {"reload", "write"} => calls[e].booking \in Bookings \ {b}
            BY <1>2, <3>1 DEF Good, Fresh, Ahead, ActiveStatuses
        <3>4. Fresh(bookings', calls[e])
            BY <1>3, <3>1, <3>3 DEF Fresh
        <3>5. Counted(bookings', vehicles', calls[e])
            BY <1>5, <1>12, <3>1, <3>2 DEF Counted
        <3>. QED BY <3>1, <3>4, <3>5
    <2>. QED BY <2>1, <2>2
<1>14. \A w \in Vehicles : IsFiniteSet(Holding(bookings', w))
    BY <1>5, <1>8 DEF Alone
<1>. QED BY <1>10, <1>11, <1>13, <1>14 DEF Alone

\* A row moves and takes no unit: what the others counted is still enough.
LEMMA AloneRowMoves ==
    ASSUME Alone, Kept', NEW b \in Bookings,
           UNCHANGED vehicles,
           \A v \in Vehicles : Holding(bookings', v) \subseteq Holding(bookings, v),
           \A a \in Bookings : Fits(bookings', winners', a),
           \A e \in Calls : \/ calls'[e] = Idle
                            \/ calls'[e] = calls[e] /\ Fresh(bookings', calls[e])
    PROVE  /\ Alone'
           /\ \A v \in Vehicles : ~(Cardinality(Active(v)') > Cardinality(Active(v)))
<1>1. ASSUME NEW v \in Vehicles
      PROVE  /\ IsFiniteSet(Holding(bookings', v))
             /\ Cardinality(Holding(bookings', v)) \in Nat
             /\ Cardinality(Holding(bookings, v)) \in Nat
             /\ Cardinality(Holding(bookings', v)) <= Cardinality(Holding(bookings, v))
    <2>1. IsFiniteSet(Holding(bookings, v))
        BY DEF Alone
    <2>2. Holding(bookings', v) \subseteq Holding(bookings, v)
        OBVIOUS
    <2>. QED BY <2>1, <2>2, FS_Subset, FS_CardinalityType
<1>2. \A v \in Vehicles : ~(Cardinality(Active(v)') > Cardinality(Active(v)))
    BY <1>1, ActiveIsHolding
<1>3. ASSUME NEW e \in Calls
      PROVE  Fresh(bookings', calls'[e]) /\ Counted(bookings', vehicles', calls'[e])
    <2>1. CASE calls'[e] = Idle
        BY <2>1, IdleKnowsNothing
    <2>2. CASE calls'[e] = calls[e] /\ Fresh(bookings', calls[e])
        <3>1. Counted(bookings, vehicles, calls[e]) /\ Good(calls[e])
            BY DEF Alone, Kept
        <3>2. calls[e].pc = "insert" =>
                 /\ calls[e].vehicle \in Vehicles
                 /\ vehicles[calls[e].vehicle].quantity \in Nat
            BY <3>1, QuantitiesAssumption DEF Good, Alone, Kept, TypeOK, VehicleRow
        <3>3. calls[e].pc = "insert" =>
                  Cardinality(Holding(bookings', calls[e].vehicle))
                      < vehicles[calls[e].vehicle].quantity
            BY <1>1, <3>1, <3>2 DEF Counted
        <3>. QED BY <2>2, <3>1, <3>3 DEF Counted
    <2>. QED BY <2>1, <2>2
<1>. QED BY <1>1, <1>2, <1>3 DEF Alone

\* What save() writes of each column.
LEMMA SavedColumns ==
    ASSUME NEW row \in BookingRow, NEW copy, NEW dirty,
           NEW col \in {"status", "vehicle", "driver", "payment"}
    PROVE  SavedRow(row, copy, dirty)[col] =
               IF col \in dirty THEN copy[col] ELSE row[col]
BY DEF SavedRow, BookingRow

\* The UPDATE of save() finds the row as the read left it.
LEMMA SaveAlone ==
    ASSUME Alone, Kept', OneAtATime, NEW c \in Calls, SaveWrite(c)
    PROVE  /\ Alone'
           /\ \A v \in Vehicles : ~(Cardinality(Active(v)') > Cardinality(Active(v)))
<1>. DEFINE self == calls[c]
            b == calls[c].booking
            saved == SavedRow(bookings[b], self.copy, self.dirty)
<1>1. /\ self.pc = "write" /\ b \in Bookings /\ bookings[b] \in BookingRow
      /\ Fresh(bookings, self) /\ Ahead(bookings[b], self.copy, b)
      /\ self.copy \in BookingRow
    BY DEF SaveWrite, At, Alone, Kept, TypeOK, Good, Fresh
<1>2. PICK row : row = saved
    OBVIOUS
<1>3. /\ row.status = self.copy.status
      /\ row.vehicle = bookings[b].vehicle
      /\ row.payment = self.copy.payment
      /\ self.copy.driver = bookings[b].driver => row.driver = bookings[b].driver
    <2>1. /\ row.status = IF "status" \in self.dirty THEN self.copy.status
                          ELSE bookings[b].status
          /\ row.vehicle = IF "vehicle" \in self.dirty THEN self.copy.vehicle
                           ELSE bookings[b].vehicle
          /\ row.driver = IF "driver" \in self.dirty THEN self.copy.driver
                          ELSE bookings[b].driver
          /\ row.payment = IF "payment" \in self.dirty THEN self.copy.payment
                           ELSE bookings[b].payment
        BY <1>1, <1>2, SavedColumns
    <2>2. self.copy.payment \in {"pending", "paid"}
        BY <1>1 DEF BookingRow
    <2>. QED BY <1>1, <2>1, <2>2 DEF Fresh, Ahead
<1>4. /\ bookings'[b] = row
      /\ \A a \in Bookings \ {b} : bookings'[a] = bookings[a]
      /\ UNCHANGED <<vehicles, winners>>
      /\ calls'[c] = Idle /\ \A e \in Calls \ {c} : calls'[e] = calls[e]
    BY <1>1, <1>2 DEF SaveWrite, Become, Alone, Kept, TypeOK
<1>. HIDE DEF saved
<1>5. bookings[b].status \in ActiveStatuses
    BY <1>1 DEF Ahead
<1>6. \A v \in Vehicles : Holding(bookings', v) \subseteq Holding(bookings, v)
    BY <1>1, <1>3, <1>4, <1>5 DEF Holding
<1>7. Fits(bookings, winners, b)
    BY <1>1 DEF Alone
<1>8. Fits(bookings', winners', b)
    BY <1>1, <1>3, <1>4, <1>7 DEF Fits, Ahead
<1>9. \A a \in Bookings : Fits(bookings', winners', a)
    <2>1. \A a \in Bookings : Fits(bookings, winners, a)
        BY DEF Alone
    <2>. QED BY <1>4, <1>8, <2>1 DEF Fits
<1>10. ASSUME NEW e \in Calls
       PROVE  \/ calls'[e] = Idle
              \/ calls'[e] = calls[e] /\ Fresh(bookings', calls[e])
    <2>1. CASE e = c
        BY <1>4, <2>1
    <2>2. CASE e # c
        <3>1. calls'[e] = calls[e] /\ Good(calls[e]) /\ Fresh(bookings, calls[e])
            BY <1>4, <2>2 DEF Alone, Kept
        <3>2. calls[e].pc \in {"reload", "write"} => calls[e].booking \in Bookings \ {b}
            BY <1>1, <2>2, <3>1, NobodyElse DEF Good
        <3>. QED BY <1>4, <3>1, <3>2 DEF Fresh
    <2>. QED BY <2>1, <2>2
<1>. QED BY <1>1, <1>4, <1>6, <1>9, <1>10, AloneRowMoves

\* The UPDATE of accept() may come between the read and the write of a cancel(),
\* which loses nothing by it.
LEMMA AcceptAlone ==
    ASSUME Alone, Kept', NEW b \in Bookings, NEW d \in Drivers, Accept(b, d)
    PROVE  /\ Alone'
           /\ \A v \in Vehicles : ~(Cardinality(Active(v)') > Cardinality(Active(v)))
<1>1. PICK row : row = [bookings[b] EXCEPT !.status = "accepted", !.driver = d]
    OBVIOUS
<1>2. bookings[b].status = "requested" /\ bookings[b] \in BookingRow
    BY DEF Accept, Alone, Kept, TypeOK
<1>3. /\ row.status = "accepted" /\ row.driver = d
      /\ row.vehicle = bookings[b].vehicle /\ row.payment = bookings[b].payment
    BY <1>1, <1>2 DEF BookingRow
<1>4. /\ bookings'[b] = row
      /\ \A a \in Bookings \ {b} : bookings'[a] = bookings[a]
      /\ d \in winners'[b]
      /\ \A a \in Bookings \ {b} : winners'[a] = winners[a]
      /\ UNCHANGED <<vehicles, calls>>
    BY <1>1, <1>2 DEF Accept, Alone, Kept, TypeOK, BookingRow
<1>5. \A v \in Vehicles : Holding(bookings', v) \subseteq Holding(bookings, v)
    BY <1>2, <1>3, <1>4 DEF Holding, ActiveStatuses
<1>6. \A a \in Bookings : Fits(bookings', winners', a)
    <2>1. \A a \in Bookings : Fits(bookings, winners, a)
        BY DEF Alone
    <2>. QED BY <1>2, <1>3, <1>4, <2>1 DEF Fits
<1>7. ASSUME NEW e \in Calls PROVE calls'[e] = calls[e] /\ Fresh(bookings', calls[e])
    <2>1. calls'[e] = calls[e] /\ Good(calls[e]) /\ Fresh(bookings, calls[e])
        BY <1>4 DEF Alone, Kept
    <2>2. CASE calls[e].pc \in {"reload", "write"} /\ calls[e].booking = b
        <3>1. Ahead(bookings[b], calls[e].copy, b)
            BY <2>1, <2>2 DEF Fresh
        <3>2. Ahead(row, calls[e].copy, b)
            BY <1>2, <1>3, <3>1 DEF Ahead, ActiveStatuses
        <3>. QED BY <1>4, <2>1, <2>2, <3>2 DEF Fresh
    <2>3. CASE calls[e].pc \in {"reload", "write"} => calls[e].booking # b
        BY <1>4, <2>1, <2>3 DEF Fresh, Good
    <2>. QED BY <2>2, <2>3
<1>. QED BY <1>4, <1>5, <1>6, <1>7, AloneRowMoves

\* Every handler's next step keeps the invariant, and none takes a unit that is
\* not there (Step()).
LEMMA StepAlone ==
    ASSUME Alone, Kept', OneAtATime, NEW c \in Calls, Step(c)
    PROVE  /\ Alone'
           /\ \A v \in Vehicles :
                 Cardinality(Active(v)') > Cardinality(Active(v)) =>
                 Cardinality(Active(v)') <= vehicles[v].quantity
<1>. DEFINE self == calls[c]
<1>0. ASSUME UNCHANGED bookings
      PROVE  \A v \in Vehicles :
                 Cardinality(Active(v)') > Cardinality(Active(v)) =>
                 Cardinality(Active(v)') <= vehicles[v].quantity
    <2>. SUFFICES ASSUME NEW v \in Vehicles
                  PROVE  ~(Cardinality(Active(v)') > Cardinality(Active(v)))
        OBVIOUS
    <2>1. Active(v)' = Active(v) /\ Cardinality(Active(v)) \in Nat
        BY <1>0, ActiveIsHolding, FS_CardinalityType DEF Alone
    <2>. QED BY <2>1
<1>1. /\ Good(self) /\ Fresh(bookings, self) /\ Counted(bookings, vehicles, self)
      /\ self \in Call
    BY DEF Alone, Kept, Good
<1>2. CASE BookCount(c)
    <2>. DEFINE next == [self EXCEPT !.pc = "insert"]
                v == calls[c].vehicle
    <2>1. self.pc = "count" /\ v \in Vehicles
        BY <1>1, <1>2 DEF BookCount, At, Good
    <2>2. /\ IsFiniteSet(Active(v)) /\ self.copy = vehicles[v]
          /\ vehicles[v].quantity \in Nat
        BY <1>1, <2>1, ActiveIsHolding, QuantitiesAssumption
        DEF Alone, Counted, Kept, TypeOK, VehicleRow
    <2>3. Cardinality(Active(v)) \in Nat
        BY <2>2, FS_CardinalityType
    <2>4. ~(Cardinality(Active(v)) >= self.copy.quantity) =>
              Fresh(bookings, next) /\ Counted(bookings, vehicles, next)
        BY <1>1, <2>1, <2>2, <2>3, ActiveIsHolding
        DEF Fresh, Counted, Call, Alone, Kept, TypeOK, Good
    <2>5. /\ \/ Become(c, Idle)
             \/ Become(c, next) /\ ~(Cardinality(Active(v)) >= self.copy.quantity)
          /\ UNCHANGED <<vehicles, bookings, winners>>
        BY <1>2 DEF BookCount
    <2>. HIDE DEF next
    <2>6. Alone'
        BY <2>4, <2>5, IdleKnowsNothing, AloneCallMoves
    <2>7. UNCHANGED bookings
        BY <2>5
    <2>. QED BY <1>0, <2>6, <2>7
<1>3. CASE BookInsert(c)
    BY <1>3, InsertAlone
<1>4. CASE SaveReload(c)
    <2>. DEFINE row == bookings[self.booking]
                dirty == DirtyColumns(self.copy, row)
                next == [self EXCEPT !.pc = "write", !.dirty = dirty]
    <2>1. /\ self.pc = "reload" /\ row \in BookingRow
          /\ Ahead(row, self.copy, self.booking)
        BY <1>1, <1>4 DEF SaveReload, At, Good, Fresh, Alone, Kept, TypeOK
    <2>2. /\ "status" \in dirty
          /\ self.copy.payment = "paid" => "payment" \in dirty
        BY <2>1 DEF DirtyColumns, BookingRow, Ahead, ActiveStatuses
    <2>. HIDE DEF dirty
    <2>3. /\ next.pc = "write" /\ next.booking = self.booking
          /\ next.copy = self.copy /\ next.dirty = dirty
        BY <1>1 DEF Call
    <2>4. Become(c, next) /\ UNCHANGED <<vehicles, bookings, winners>>
        BY <1>4 DEF SaveReload, dirty
    <2>. HIDE DEF next
    <2>5. Fresh(bookings, next) /\ Counted(bookings, vehicles, next)
        BY <2>1, <2>2, <2>3 DEF Fresh, Counted
    <2>. QED BY <1>0, <2>4, <2>5, AloneCallMoves
<1>5. CASE SaveWrite(c)
    BY <1>5, SaveAlone
<1>6. CASE UpdateVehicleReload(c)
    <2>. DEFINE dirty == DirtyColumns(self.copy, vehicles[self.vehicle])
                next == [self EXCEPT !.pc = "vehicle_write", !.dirty = dirty]
    <2>. HIDE DEF dirty
    <2>1. next.pc = "vehicle_write" /\ next.booking = NULL
        BY <1>1, <1>6 DEF UpdateVehicleReload, At, Call, Counted
    <2>2. Become(c, next) /\ UNCHANGED <<vehicles, bookings, winners>>
        BY <1>6 DEF UpdateVehicleReload, dirty
    <2>. HIDE DEF next
    <2>3. Fresh(bookings, next) /\ Counted(bookings, vehicles, next)
        BY <2>1 DEF Fresh, Counted
    <2>. QED BY <1>0, <2>2, <2>3, AloneCallMoves
<1>7. CASE UpdateVehicleWrite(c)
    <2>1. /\ self.pc = "vehicle_write" /\ self.vehicle \in Vehicles
          /\ UNCHANGED <<bookings, winners>>
          /\ calls'[c] = Idle /\ \A e \in Calls \ {c} : calls'[e] = calls[e]
          /\ \A v \in Vehicles \ {self.vehicle} : vehicles'[v] = vehicles[v]
        BY <1>1, <1>7 DEF UpdateVehicleWrite, Become, At, Good, Alone, Kept, TypeOK
    <2>2. ASSUME NEW e \in Calls
          PROVE  Fresh(bookings', calls'[e]) /\ Counted(bookings', vehicles', calls'[e])
        <3>1. CASE e = c
            BY <2>1, <3>1, IdleKnowsNothing
        <3>2. CASE e # c
            <4>1. /\ calls'[e] = calls[e] /\ Good(calls[e])
                  /\ Fresh(bookings, calls[e]) /\ Counted(bookings, vehicles, calls[e])
                BY <2>1, <3>2 DEF Alone, Kept
            <4>2. calls[e].pc \in {"count", "insert"} =>
                      calls[e].vehicle \in Vehicles \ {self.vehicle}
                BY <2>1, <3>2, <4>1, NobodyElse DEF Good
            <4>. QED BY <2>1, <4>1, <4>2 DEF Counted
        <3>. QED BY <3>1, <3>2
    <2>3. Alone'
        BY <2>1, <2>2 DEF Alone
    <2>. QED BY <1>0, <2>1, <2>3
<1>. QED BY <1>2, <1>3, <1>4, <1>5, <1>6, <1>7 DEF Step

\* The invariant holds at the start.
LEMMA AloneInit == Init => Alone
<1>. SUFFICES ASSUME Init PROVE Alone
    OBVIOUS
<1>1. \A b \in Bookings : bookings[b] = NoBooking
    BY DEF Init
<1>2. \A b \in Bookings : Fits(bookings, winners, b)
    BY <1>1 DEF Fits, NoBooking
<1>3. \A c \in Calls : Fresh(bookings, calls[c]) /\ Counted(bookings, vehicles, calls[c])
    BY IdleKnowsNothing DEF Init
<1>4. ASSUME NEW v \in Vehicles PROVE IsFiniteSet(Holding(bookings, v))
    <2>1. Holding(bookings, v) = {}
        BY <1>1 DEF Holding, NoBooking, ActiveStatuses
    <2>. QED BY <2>1, FS_EmptySet
<1>. QED BY <1>2, <1>3, <1>4, KeptInit DEF Alone

\* It is kept by every step, none of which takes a unit that is not there.
LEMMA AloneNext ==
    ASSUME Alone, OneAtATime, [Next]_vars
    PROVE  /\ Alone'
           /\ \A v \in Vehicles :
                 Cardinality(Active(v)') > Cardinality(Active(v)) =>
                 Cardinality(Active(v)') <= vehicles[v].quantity
<1>1. Kept'
    BY KeptNext DEF Alone
<1>2. ASSUME UNCHANGED bookings, NEW v \in Vehicles
      PROVE  ~(Cardinality(Active(v)') > Cardinality(Active(v)))
    <2>1. Active(v)' = Active(v) /\ Cardinality(Active(v)) \in Nat
        BY <1>2, ActiveIsHolding, FS_CardinalityType DEF Alone
    <2>. QED BY <2>1
<1>3. CASE UNCHANGED vars
    <2>1. UNCHANGED bookings /\ Alone'
        BY <1>1, <1>3 DEF vars, Alone
    <2>. QED BY <1>2, <2>1
<1>4. ASSUME NEW c \in Calls, Arrive(c) PROVE Alone' /\ UNCHANGED bookings
    <2>1. UNCHANGED bookings
        BY <1>4 DEF Arrive, BookFind, StartRead, CompleteRead, CancelRead, Loaded,
                    UpdateVehicleRead
    <2>. QED BY <1>1, <1>4, <2>1, ArriveAlone
<1>. QED BY <1>1, <1>2, <1>3, <1>4, StepAlone, AcceptAlone DEF Next

\* A rental under way or done is served by the driver who won it, and cash is
\* settled exactly when it is done, if requests on one booking follow one
\* another (start(), complete(), cancel()).
THEOREM RentalsFit == Spec /\ []OneAtATime => []RentalIsConsistent
<1>1. Alone /\ OneAtATime /\ [Next]_vars => Alone'
    BY AloneNext
<1>2. Alone => RentalIsConsistent
    BY DEF Alone, Fits, RentalIsConsistent
<1>. QED BY <1>1, <1>2, AloneInit, PTL DEF Spec

\* No booking takes a unit that is not there, if requests that book or edit one
\* vehicle follow one another (book(), updateVehicle()).
THEOREM UnitsAreThere == Spec /\ []OneAtATime => NotOversold
<1>1. Alone /\ OneAtATime /\ [Next]_vars => Alone'
    BY AloneNext
<1>2. Alone /\ OneAtATime /\ [Next]_vars =>
          [\A v \in Vehicles :
               Cardinality(Active(v)') > Cardinality(Active(v)) =>
               Cardinality(Active(v)') <= vehicles[v].quantity]_vars
    BY AloneNext
<1>. QED BY <1>1, <1>2, AloneInit, PTL DEF Spec, NotOversold

=============================================================================
