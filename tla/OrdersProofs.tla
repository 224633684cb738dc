----------------------------- MODULE OrdersProofs -----------------------------
(***************************************************************************)
(* Proofs about the orders service, for any number of orders, rides,        *)
(* overlapping requests and listeners and calls that die: the model is      *)
(* typed, and an order never claims progress no ride of its own has made.   *)
(*                                                                         *)
(* Rows are joined by stale saves column by column, so the invariant speaks *)
(* of each column alone, and of the copies that calls hold as well as of    *)
(* the rows: what a status or a ride once said truly stays true, because    *)
(* rides never forget their order or the statuses they have had.            *)
(*                                                                         *)
(* The last section adds what holds when the handlers of an order follow    *)
(* one another: the order agrees with its ride and its history is a path.   *)
(***************************************************************************)
EXTENDS OrdersSerial, TLAPS

\* A ride of the order has been through what the status claims.
Backs(trips, seen, o, status) ==
    status \in DOMAIN Evidence =>
        \E r \in Rides : trips[r].order = o /\ Evidence[status] \in seen[r]

\* The ride is one of the order's.
Owns(trips, o, ride) == ride # NULL => ride \in Rides /\ trips[ride].order = o

Truthful(trips, seen, o, row) ==
    Backs(trips, seen, o, row.status) /\ Owns(trips, o, row.ride)

\* What a call holds where it is.
Good(trips, seen, call) ==
    /\ call \in Call
    /\ call.pc \in {"ride", "reload", "write", "history"} =>
           call.order \in Orders /\ Truthful(trips, seen, call.order, call.copy)
    /\ call.pc = "find" =>
           call.ride \in Rides /\ call.update \in seen[call.ride]

\* The inductive invariant.
Kept ==
    /\ TypeOK
    /\ \A o \in Orders : Truthful(rides, reached, o, orders[o])
    /\ \A r \in Rides : rides[r].status = "none" =>
                            rides[r].order = NULL /\ reached[r] = {}
    /\ \A c \in Calls : Good(rides, reached, calls[c])

\* NULL is neither an order nor a ride.
LEMMA NullIsNoRide == \A r \in Orders \cup Rides : r # NULL
BY NullAssumption DEF NullAssumption

\* A listener's status is the one its update is the evidence of.
LEMMA FollowsEvidence ==
    \A update \in DOMAIN Follows :
        /\ Follows[update] \in OrderStatuses
        /\ Evidence[Follows[update]] = update
BY DEF Follows, Evidence, OrderStatuses

\* What a merchant chooses needs no evidence.
LEMMA AllowedClaimsNothing ==
    ASSUME NEW from \in DOMAIN Allowed, NEW status \in Allowed[from]
    PROVE  status \in OrderStatuses /\ status \notin DOMAIN Evidence
BY DEF Allowed, Evidence, OrderStatuses

\* A call that has ended is in order, whatever the rides are.
LEMMA IdleIsGood ==
    ASSUME NEW trips, NEW seen PROVE Good(trips, seen, Idle)
BY DEF Good, Idle, Call, PCs, NoOrder, OrderRow, OrderStatuses, RideStatuses

\* The call that begins a transition() of an order may do so.
LEMMA TransitionIsGood ==
    ASSUME Kept, NEW c \in Calls, NEW o \in Orders, NEW pc \in {"ride", "reload"},
           NEW status \in OrderStatuses, Backs(rides, reached, o, status),
           Transition(c, o, pc, status),
           UNCHANGED <<orders, history, rides, reached, aborts>>
    PROVE  \E call : Become(c, call) /\ Good(rides, reached, call)
<1>. DEFINE copy == [orders[o] EXCEPT !.status = status]
            call == [Idle EXCEPT !.pc = pc, !.order = o, !.from = orders[o].status,
                                 !.copy = copy]
<1>1. orders[o] \in OrderRow /\ Truthful(rides, reached, o, orders[o])
    BY DEF Kept, TypeOK
<1>2. copy \in OrderRow /\ copy.status = status /\ copy.ride = orders[o].ride
    BY <1>1 DEF OrderRow
<1>3. orders[o].status \in OrderStatuses
    BY <1>1 DEF OrderRow
<1>4. Idle \in Call
    BY IdleIsGood DEF Good
<1>5. Become(c, call)
    BY DEF Transition
<1>. HIDE DEF copy
<1>6. call \in Call /\ call.pc = pc /\ call.order = o /\ call.copy = copy
    BY <1>2, <1>3, <1>4 DEF Call, PCs
<1>7. Truthful(rides, reached, o, copy)
    BY <1>1, <1>2 DEF Truthful
<1>. HIDE DEF call
<1>8. Good(rides, reached, call)
    BY <1>6, <1>7 DEF Good
<1>. QED BY <1>5, <1>8

\* The call moves on alone.
LEMMA CallMoves ==
    ASSUME Kept, NEW c \in Calls, NEW call, Become(c, call),
           Good(rides, reached, call), UNCHANGED <<orders, rides, reached>>,
           history' \in [Orders -> OrderStatuses \X OrderStatuses], aborts' \in Nat
    PROVE  Kept'
<1>1. calls' \in [Calls -> Call]
    BY DEF Kept, TypeOK, Become, Good
<1>2. \A b \in Calls : calls'[b] \in {calls[b], call}
    BY DEF Kept, TypeOK, Become
<1>3. \A b \in Calls : Good(rides, reached, calls'[b])
    BY <1>2 DEF Kept
<1>. QED BY <1>1, <1>3 DEF Kept, TypeOK

\* Rides that remember more keep what was true.
LEMMA StaysGood ==
    ASSUME NullAssumption, NEW trips, NEW seen, NEW later, NEW more,
           \A r \in Rides : trips[r].order \in {NULL, later[r].order},
           \A r \in Rides : seen[r] \subseteq more[r]
    PROVE  /\ \A o \in Orders : \A row :
                  Truthful(trips, seen, o, row) => Truthful(later, more, o, row)
           /\ \A call : Good(trips, seen, call) => Good(later, more, call)
<1>1. ASSUME NEW o \in Orders, NEW row, Truthful(trips, seen, o, row)
      PROVE  Truthful(later, more, o, row)
    <2>1. o # NULL
        BY DEF NullAssumption
    <2>2. Backs(later, more, o, row.status)
        BY <1>1, <2>1 DEF Truthful, Backs
    <2>3. Owns(later, o, row.ride)
        BY <1>1, <2>1 DEF Truthful, Owns
    <2>. QED BY <2>2, <2>3 DEF Truthful
<1>2. ASSUME NEW call, Good(trips, seen, call) PROVE Good(later, more, call)
    BY <1>1, <1>2 DEF Good
<1>. QED BY <1>1, <1>2

\* A ride moves or appears, and with it the call that made it do so.
LEMMA OneRideMoves ==
    ASSUME NullAssumption, Kept, NEW c \in Calls, NEW call, Become(c, call),
           Good(rides', reached', call),
           NEW r \in Rides, NEW row \in Ride, NEW seen \in SUBSET RideStatuses,
           rides' = [rides EXCEPT ![r] = row],
           reached' = [reached EXCEPT ![r] = seen],
           row.status # "none", rides[r].order \in {NULL, row.order},
           reached[r] \subseteq seen,
           UNCHANGED <<orders, history, aborts>>
    PROVE  Kept'
<1>1. /\ rides' \in [Rides -> Ride] /\ rides'[r] = row
      /\ \A s \in Rides \ {r} : rides'[s] = rides[s]
      /\ reached' \in [Rides -> SUBSET RideStatuses] /\ reached'[r] = seen
      /\ \A s \in Rides \ {r} : reached'[s] = reached[s]
    BY DEF Kept, TypeOK
<1>2. /\ \A s \in Rides : rides[s].order \in {NULL, rides'[s].order}
      /\ \A s \in Rides : reached[s] \subseteq reached'[s]
    BY <1>1
<1>3. \A o \in Orders : Truthful(rides', reached', o, orders'[o])
    BY <1>2, StaysGood DEF Kept
<1>4. \A b \in Calls : Good(rides', reached', calls[b])
    BY <1>2, StaysGood DEF Kept
<1>5. \A b \in Calls : calls'[b] \in {calls[b], call}
    BY DEF Kept, TypeOK, Become
<1>6. \A b \in Calls : Good(rides', reached', calls'[b])
    BY <1>4, <1>5
<1>7. calls' \in [Calls -> Call]
    BY DEF Kept, TypeOK, Become, Good
<1>8. \A s \in Rides : rides'[s].status = "none" =>
                            rides'[s].order = NULL /\ reached'[s] = {}
    BY <1>1 DEF Kept
<1>. QED BY <1>1, <1>3, <1>6, <1>7, <1>8 DEF Kept, TypeOK

(***************************************************************************)
(* One lemma per action.                                                    *)
(***************************************************************************)

\* checkout()
LEMMA CheckoutKeeps ==
    ASSUME Kept, NEW o \in Orders, Checkout(o) PROVE Kept'
<1>1. orders[o] \in OrderRow
    BY DEF Kept, TypeOK
<1>. DEFINE row == [orders[o] EXCEPT !.status = "pending"]
<1>2. row \in OrderRow /\ row.status = "pending" /\ row.ride = orders[o].ride
    BY <1>1 DEF OrderRow, OrderStatuses
<1>3. orders' = [orders EXCEPT ![o] = row]
    BY DEF Checkout
<1>. HIDE DEF row
<1>4. orders' \in [Orders -> OrderRow]
    BY <1>2, <1>3 DEF Kept, TypeOK
<1>5. \A p \in Orders : orders'[p] = IF p = o THEN row ELSE orders[p]
    BY <1>3 DEF Kept, TypeOK
<1>6. Truthful(rides, reached, o, row)
    <2>1. Backs(rides, reached, o, "pending")
        BY DEF Backs, Evidence
    <2>. QED BY <1>2, <2>1 DEF Kept, Truthful
<1>7. \A p \in Orders : Truthful(rides, reached, p, orders'[p])
    BY <1>5, <1>6 DEF Kept
<1>8. history' \in [Orders -> OrderStatuses \X OrderStatuses]
    BY DEF Checkout, Kept, TypeOK, OrderStatuses
<1>. QED BY <1>4, <1>7, <1>8 DEF Checkout, Kept, TypeOK

\* cancelByCustomer() up to its save().
LEMMA CancelKeeps ==
    ASSUME Kept, NEW c \in Calls, NEW o \in Orders, CancelRead(c, o) PROVE Kept'
<1>1. Backs(rides, reached, o, "cancelled") /\ "cancelled" \in OrderStatuses
    BY DEF Backs, Evidence, OrderStatuses
<1>2. /\ Transition(c, o, "reload", "cancelled")
      /\ UNCHANGED <<orders, history, rides, reached, aborts>>
    BY DEF CancelRead
<1>3. PICK call : Become(c, call) /\ Good(rides, reached, call)
    BY <1>1, <1>2, TransitionIsGood
<1>. QED BY <1>2, <1>3, CallMoves DEF Kept, TypeOK

\* updateByMerchant() up to rides.request() or save().
LEMMA MerchantKeeps ==
    ASSUME Kept, NEW c \in Calls, NEW o \in Orders, NEW status \in OrderStatuses,
           MerchantRead(c, o, status)
    PROVE  Kept'
<1>1. orders[o].status \in DOMAIN Allowed /\ status \in Allowed[orders[o].status]
    BY DEF MerchantRead
<1>2. Backs(rides, reached, o, status)
    BY <1>1, AllowedClaimsNothing DEF Backs
<1>3. UNCHANGED <<orders, history, rides, reached, aborts>>
    BY DEF MerchantRead
<1>4. PICK pc \in {"ride", "reload"} : Transition(c, o, pc, status)
    BY DEF MerchantRead
<1>5. PICK call : Become(c, call) /\ Good(rides, reached, call)
    BY <1>2, <1>3, <1>4, TransitionIsGood
<1>. QED BY <1>3, <1>5, CallMoves DEF Kept, TypeOK

\* rides.request(): the ride is new and the order's.
LEMMA RequestKeeps ==
    ASSUME NullAssumption, Kept, NEW c \in Calls, RequestRide(c) PROVE Kept'
<1>. DEFINE self == calls[c]
<1>1. PICK r \in Rides :
          /\ rides[r].status = "none"
          /\ rides' = [rides EXCEPT ![r].status = "requested",
                                    ![r].order = self.order]
          /\ reached' = [reached EXCEPT ![r] = {"requested"}]
          /\ Become(c, [self EXCEPT !.pc = "reload", !.copy.ride = r])
    BY DEF RequestRide
<1>2. /\ Good(rides, reached, self) /\ self.pc = "ride" /\ self \in Call
      /\ self.order \in Orders /\ self.copy \in OrderRow
      /\ Truthful(rides, reached, self.order, self.copy)
    BY DEF RequestRide, At, Kept, Good, Call
<1>3. rides[r] \in Ride /\ rides[r].order = NULL /\ reached[r] = {}
    BY <1>1 DEF Kept, TypeOK
<1>. DEFINE row == [rides[r] EXCEPT !.status = "requested", !.order = self.order]
            copy == [self.copy EXCEPT !.ride = r]
            next == [self EXCEPT !.pc = "reload", !.copy = copy]
<1>4. row \in Ride /\ row.status = "requested" /\ row.order = self.order
    BY <1>2, <1>3 DEF Ride, RideStatuses
<1>5. copy \in OrderRow /\ copy.ride = r /\ copy.status = self.copy.status
    BY <1>2 DEF OrderRow
<1>6. rides' = [rides EXCEPT ![r] = row]
    BY <1>1
<1>7. Become(c, next)
    BY <1>1
<1>. HIDE DEF row, copy
<1>8. /\ next \in Call /\ next.pc = "reload" /\ next.order = self.order
      /\ next.copy = copy
    BY <1>2, <1>5 DEF Call, PCs
<1>. HIDE DEF next
<1>9. /\ rides'[r] = row /\ reached'[r] = {"requested"}
      /\ \A s \in Rides \ {r} : rides'[s] = rides[s] /\ reached'[s] = reached[s]
    BY <1>1, <1>6 DEF Kept, TypeOK
<1>10. Truthful(rides', reached', self.order, self.copy)
    <2>1. /\ \A s \in Rides : rides[s].order \in {NULL, rides'[s].order}
          /\ \A s \in Rides : reached[s] \subseteq reached'[s]
        BY <1>3, <1>9
    <2>. QED BY <1>2, <2>1, StaysGood
<1>11. Truthful(rides', reached', self.order, copy)
    BY <1>4, <1>5, <1>9, <1>10 DEF Truthful, Owns
<1>12. Good(rides', reached', next)
    BY <1>2, <1>8, <1>11 DEF Good
<1>13. {"requested"} \in SUBSET RideStatuses /\ row.status # "none"
    BY <1>4 DEF RideStatuses
<1>14. reached' = [reached EXCEPT ![r] = {"requested"}]
    BY <1>1
<1>15. UNCHANGED <<orders, history, aborts>>
    BY DEF RequestRide
<1>. QED BY <1>3, <1>4, <1>6, <1>7, <1>12, <1>13, <1>14, <1>15, OneRideMoves

\* The ride service moves a ride and starts a listener.
LEMMA MoveKeeps ==
    ASSUME NullAssumption, Kept, NEW c \in Calls, NEW r \in Rides,
           NEW status \in RideStatuses, MoveRide(c, r, status)
    PROVE  Kept'
<1>. DEFINE row == [rides[r] EXCEPT !.status = status]
            seen == reached[r] \cup {status}
            next == [Idle EXCEPT !.pc = "find", !.ride = r, !.update = status]
<1>1. rides[r] \in Ride /\ reached[r] \subseteq RideStatuses /\ Idle \in Call
    BY IdleIsGood DEF Kept, TypeOK, Good
<1>2. row \in Ride /\ row.status = status /\ row.order = rides[r].order
    BY <1>1 DEF Ride
<1>3. status # "none"
    BY DEF MoveRide, LegalMoves
<1>4. /\ rides' = [rides EXCEPT ![r] = row]
      /\ reached' = [reached EXCEPT ![r] = seen]
      /\ Become(c, next) /\ UNCHANGED <<orders, history, aborts>>
    BY DEF MoveRide
<1>5. seen \in SUBSET RideStatuses /\ reached[r] \subseteq seen /\ status \in seen
    BY <1>1
<1>. HIDE DEF row, seen
<1>6. next \in Call /\ next.pc = "find" /\ next.ride = r /\ next.update = status
    BY <1>1 DEF Call, PCs
<1>. HIDE DEF next
<1>7. reached'[r] = seen
    BY <1>4 DEF Kept, TypeOK
<1>8. Good(rides', reached', next)
    BY <1>5, <1>6, <1>7 DEF Good
<1>. QED BY <1>2, <1>3, <1>4, <1>5, <1>8, OneRideMoves

\* onRideUpdated(): the order found is the ride's, and the update is evidence.
LEMMA ListenerKeeps ==
    ASSUME Kept, NEW c \in Calls, ListenerFind(c) PROVE Kept'
<1>. DEFINE self == calls[c]
            found == {o \in Orders : orders[o].ride = self.ride}
<1>1. /\ self.ride \in Rides /\ self.update \in reached[self.ride]
      /\ UNCHANGED <<orders, history, rides, reached, aborts>>
      /\ Follow(c, found)
    BY DEF ListenerFind, At, Kept, Good
<1>2. history' \in [Orders -> OrderStatuses \X OrderStatuses] /\ aborts' \in Nat
    BY <1>1 DEF Kept, TypeOK
<1>3. CASE Become(c, Idle)
    BY <1>1, <1>2, <1>3, IdleIsGood, CallMoves
<1>4. ASSUME self.update \in DOMAIN Follows, NEW o \in found,
             Transition(c, o, "reload", Follows[self.update])
      PROVE  Kept'
    <2>1. rides[self.ride].order = o
        BY <1>1, NullIsNoRide DEF Kept, Truthful, Owns
    <2>2. /\ Follows[self.update] \in OrderStatuses
          /\ Evidence[Follows[self.update]] = self.update
        BY <1>4, FollowsEvidence
    <2>3. Backs(rides, reached, o, Follows[self.update])
        BY <1>1, <2>1, <2>2 DEF Backs
    <2>4. PICK call : Become(c, call) /\ Good(rides, reached, call)
        BY <1>1, <1>4, <2>2, <2>3, TransitionIsGood
    <2>. QED BY <1>1, <1>2, <2>4, CallMoves
<1>. QED BY <1>1, <1>3, <1>4 DEF Follow

\* save(): the SELECT.
LEMMA ReloadKeeps ==
    ASSUME Kept, NEW c \in Calls, SaveReload(c) PROVE Kept'
<1>. DEFINE self == calls[c]
            dirty == DirtyColumns(self.copy, orders[self.order])
            next == [self EXCEPT !.pc = "write", !.dirty = dirty]
<1>1. /\ self.pc = "reload" /\ self \in Call /\ self.order \in Orders
      /\ Truthful(rides, reached, self.order, self.copy)
    BY DEF SaveReload, At, Kept, Good
<1>2. dirty \in SUBSET DOMAIN NoOrder
    BY <1>1 DEF Kept, TypeOK, OrderRow, DirtyColumns, NoOrder
<1>3. Become(c, next) /\ UNCHANGED <<orders, history, rides, reached, aborts>>
    BY DEF SaveReload
<1>. HIDE DEF dirty
<1>4. next \in Call /\ next.pc = "write" /\ next.order = self.order
      /\ next.copy = self.copy
    BY <1>1, <1>2 DEF Call, PCs
<1>. HIDE DEF next
<1>5. Good(rides, reached, next)
    BY <1>1, <1>4 DEF Good
<1>. QED BY <1>3, <1>5, CallMoves DEF Kept, TypeOK

\* The UPDATE: each column is the row's or the copy's, and both are truthful.
LEMMA WriteKeeps ==
    ASSUME Kept, NEW c \in Calls, SaveWrite(c) PROVE Kept'
<1>. DEFINE self == calls[c]
            o == self.order
            row == SavedRow(orders[o], self.copy, self.dirty)
            next == [self EXCEPT !.pc = "history"]
<1>1. /\ self.pc = "write" /\ self \in Call /\ o \in Orders
      /\ self.copy \in OrderRow
      /\ Truthful(rides, reached, o, self.copy)
    BY DEF SaveWrite, At, Kept, Good, Call
<1>2. orders[o] \in OrderRow /\ Truthful(rides, reached, o, orders[o])
    BY <1>1 DEF Kept, TypeOK
<1>3. /\ row \in OrderRow
      /\ row.status \in {orders[o].status, self.copy.status}
      /\ row.ride \in {orders[o].ride, self.copy.ride}
    BY <1>1, <1>2 DEF SavedRow, OrderRow
<1>4. /\ orders' = [orders EXCEPT ![o] = row] /\ Become(c, next)
      /\ UNCHANGED <<history, rides, reached, aborts>>
    BY DEF SaveWrite
<1>. HIDE DEF row
<1>5. next \in Call /\ next.pc = "history" /\ next.order = o
      /\ next.copy = self.copy
    BY <1>1 DEF Call, PCs
<1>. HIDE DEF next
<1>6. Truthful(rides, reached, o, row)
    BY <1>1, <1>2, <1>3 DEF Truthful
<1>7. /\ orders' \in [Orders -> OrderRow]
      /\ \A p \in Orders : Truthful(rides, reached, p, orders'[p])
    BY <1>1, <1>3, <1>4, <1>6 DEF Kept, TypeOK
<1>8. Good(rides, reached, next)
    BY <1>1, <1>5 DEF Good
<1>9. /\ calls' \in [Calls -> Call]
      /\ \A b \in Calls : Good(rides, reached, calls'[b])
    BY <1>4, <1>5, <1>8 DEF Kept, TypeOK, Become
<1>. QED BY <1>4, <1>7, <1>9 DEF Kept, TypeOK

\* The history row.
LEMMA HistoryKeeps ==
    ASSUME Kept, NEW c \in Calls, HistoryInsert(c) PROVE Kept'
<1>1. calls[c] \in Call
    BY DEF Kept, TypeOK
<1>2. calls[c].from \in OrderStatuses /\ calls[c].copy.status \in OrderStatuses
    BY <1>1 DEF Call, OrderRow
<1>3. history' \in [Orders -> OrderStatuses \X OrderStatuses]
    BY <1>2 DEF HistoryInsert, Kept, TypeOK
<1>4. Become(c, Idle) /\ UNCHANGED <<orders, rides, reached, aborts>>
    BY DEF HistoryInsert
<1>. QED BY <1>3, <1>4, IdleIsGood, CallMoves DEF Kept, TypeOK

\* A call dies.
LEMMA AbortKeeps ==
    ASSUME Kept, NEW c \in Calls, Abort(c) PROVE Kept'
<1>1. /\ Become(c, Idle) /\ UNCHANGED <<orders, history, rides, reached>>
      /\ aborts' \in Nat
    BY DEF Abort, Kept, TypeOK
<1>. QED BY <1>1, IdleIsGood, CallMoves DEF Kept, TypeOK

(***************************************************************************)
(* The theorems.                                                            *)
(***************************************************************************)

\* The invariant holds at the start ...
LEMMA KeptInit == ASSUME Init PROVE Kept
<1>1. NoOrder \in OrderRow /\ NoRide \in Ride
    BY DEF NoOrder, OrderRow, OrderStatuses, NoRide, Ride, RideStatuses
<1>2. \A o \in Orders : Truthful(rides, reached, o, orders[o])
    BY DEF Init, Truthful, Backs, Owns, NoOrder, Evidence
<1>3. Idle \in Call
    BY IdleIsGood DEF Good
<1>4. TypeOK
    BY <1>1, <1>3 DEF Init, TypeOK, OrderStatuses
<1>5. \A r \in Rides : rides[r].order = NULL /\ reached[r] = {}
    BY DEF Init, NoRide
<1>6. \A c \in Calls : Good(rides, reached, calls[c])
    BY IdleIsGood DEF Init
<1>. QED BY <1>2, <1>4, <1>5, <1>6 DEF Kept

\* ... and every step keeps it.
LEMMA KeptNext == NullAssumption /\ Kept /\ [Next]_vars => Kept'
<1>. SUFFICES ASSUME NullAssumption, Kept, [Next]_vars PROVE Kept'
    OBVIOUS
<1>1. CASE UNCHANGED vars
    BY <1>1 DEF vars, Kept, TypeOK
<1>2. ASSUME NEW c \in Calls, Step(c) PROVE Kept'
    BY <1>2, RequestKeeps, ListenerKeeps, ReloadKeeps, WriteKeeps, HistoryKeeps
       DEF Step
<1>. QED BY <1>1, <1>2, CheckoutKeeps, CancelKeeps, MerchantKeeps, MoveKeeps,
            AbortKeeps DEF Next

\* The invariant holds in every reachable state.
LEMMA KeptAlways == Spec => []Kept
<1>1. Init => Kept
    BY KeptInit
<1>2. Kept /\ [Next]_vars => Kept'
    BY KeptNext, NullAssumption
<1>. QED BY <1>1, <1>2, PTL DEF Spec

\* Every variable of the orders model keeps its type, stale saves included.
THEOREM TypeCorrect == Spec => []TypeOK
<1>1. Kept => TypeOK
    BY DEF Kept
<1>. QED BY <1>1, KeptAlways, PTL

\* However requests, listeners and stale saves interleave and wherever they
\* die: an order never claims a driver, a pick-up or a delivery that no ride of
\* its own has had, and never points at another order's ride (onRideUpdated()).
THEOREM ProgressIsTrue == Spec => []NoFalseProgress
<1>1. Kept => NoFalseProgress
    BY DEF Kept, NoFalseProgress, Truthful, Backs, Owns, RidesOf
<1>. QED BY <1>1, KeptAlways, PTL

(***************************************************************************)
(* One handler at a time on each order.                                     *)
(*                                                                         *)
(* An order that nobody works on says what its ride says.  A handler that   *)
(* works on it found it so, and until it is done the order and its ride     *)
(* wait for it; so the invariant says, for each order, what is missing for  *)
(* it to be in that state, by the place where its handler is.               *)
(***************************************************************************)

\* What an order says while its ride is in a status.
Says ==
    {<<"requested", "ready_for_pickup">>, <<"accepted", "driver_assigned">>,
     <<"in_progress", "picked_up">>, <<"completed", "delivered">>}
    \cup {<<"cancelled", status>> :
              status \in {"ready_for_pickup", "driver_assigned", "picked_up"}}

\* The statuses of an order that has asked for no ride.
WithoutRide == {"none", "pending", "accepted", "preparing", "cancelled"}

\* The steps of an order that a handler makes.
MayFollow(from, to) ==
    \/ from \in DOMAIN Allowed /\ to \in Allowed[from]
    \/ <<from, to>> \in {<<"ready_for_pickup", "driver_assigned">>,
                         <<"driver_assigned", "picked_up">>,
                         <<"picked_up", "delivered">>}

\* The rides that were requested for the order, in any state of the table.
TripsOf(trips, o) == {r \in Rides : trips[r].order = o}

\* The row has no ride and is in a status without one, or it names its only
\* ride and says what the ride says.
Tells(trips, o, row) ==
    \/ row.status \in WithoutRide /\ row.ride = NULL /\ TripsOf(trips, o) = {}
    \/ /\ row.ride \in Rides /\ TripsOf(trips, o) = {row.ride}
       /\ <<trips[row.ride].status, row.status>> \in Says

\* Nothing is missing.
UpToDate(table, past, trips, o) ==
    Tells(trips, o, table[o]) /\ past[o][2] = table[o].status

\* The call works on the order, in any state of the rides.
About(trips, call, o) ==
    \/ call.order = o
    \/ call.ride # NULL /\ trips[call.ride].order = o

\* A call that has not written yet finds the row as it was ...
Unsaved(table, past, call) ==
    /\ table[call.order].status = call.from /\ past[call.order][2] = call.from
    /\ MayFollow(call.from, call.copy.status)

\* ... and one that has, as it left it, but for the history.
Saved(table, past, call) ==
    /\ table[call.order] = call.copy /\ past[call.order][2] = call.from
    /\ MayFollow(call.from, call.copy.status)

\* The order of a listener says what its ride said before the update.
Behind(table, past, trips, call, o) ==
    /\ o \in Orders
    /\ table[o].ride = call.ride /\ TripsOf(trips, o) = {call.ride}
    /\ trips[call.ride].status = call.update
    /\ \E was \in RideStatuses : /\ <<was, call.update>> \in LegalMoves
                                 /\ <<was, table[o].status>> \in Says
    /\ past[o][2] = table[o].status

\* What is missing, by the place where the handler is.
Missing(table, past, trips, call) ==
    /\ call.pc = "idle" => call = Idle
    /\ call.pc # "find" => call.ride = NULL
    /\ call.pc = "find" =>
           /\ call.order = NULL
           /\ Behind(table, past, trips, call, trips[call.ride].order)
    /\ call.pc = "ride" =>
           /\ Unsaved(table, past, call)
           /\ call.from = "preparing" /\ call.copy.status = "ready_for_pickup"
           /\ TripsOf(trips, call.order) = {}
    /\ call.pc \in {"reload", "write"} => Unsaved(table, past, call)
    /\ call.pc \in {"reload", "write", "history"} =>
           Tells(trips, call.order, call.copy)
    /\ call.pc = "write" =>
           SavedRow(table[call.order], call.copy, call.dirty) = call.copy
    /\ call.pc = "history" => Saved(table, past, call)

\* The inductive invariant of handlers that follow one another.
Alone ==
    /\ Kept
    /\ \A r \in Rides : rides[r].status # "none" => rides[r].order \in Orders
    /\ \A o \in Orders : \/ \E c \in Calls : About(rides, calls[c], o)
                         \/ UpToDate(orders, history, rides, o)
    /\ \A c \in Calls : Missing(orders, history, rides, calls[c])

\* A call that has ended misses nothing.
LEMMA IdleMissesNothing ==
    ASSUME NEW table, NEW past, NEW trips PROVE Missing(table, past, trips, Idle)
BY DEF Missing, Idle

\* What a call misses does not change while other orders and their rides do.
LEMMA MissingStays ==
    ASSUME NullAssumption, NEW table, NEW past, NEW trips,
           NEW newer, NEW added, NEW later, NEW o \in Orders,
           \A p \in Orders : p # o => newer[p] = table[p] /\ added[p] = past[p],
           \A r \in Rides : \/ later[r] = trips[r]
                            \/ trips[r].order \in {NULL, o} /\ later[r].order = o
    PROVE  /\ \A p \in Orders : p # o => TripsOf(later, p) = TripsOf(trips, p)
           /\ \A p \in Orders : p # o /\ UpToDate(table, past, trips, p) =>
                                UpToDate(newer, added, later, p)
           /\ \A call : \A seen :
                 Good(trips, seen, call) /\ ~About(trips, call, o)
                 /\ Missing(table, past, trips, call) =>
                     Missing(newer, added, later, call)
<1>1. \A p \in Orders : \A r \in Rides :
          p # o /\ (trips[r].order = p \/ later[r].order = p) => later[r] = trips[r]
    BY DEF NullAssumption
<1>2. \A p \in Orders : p # o => TripsOf(later, p) = TripsOf(trips, p)
    BY <1>1 DEF TripsOf
<1>3. ASSUME NEW p \in Orders, p # o, NEW row, Tells(trips, p, row)
      PROVE  Tells(later, p, row)
    <2>1. row.ride \in TripsOf(trips, p) => later[row.ride] = trips[row.ride]
        BY <1>1, <1>3 DEF TripsOf
    <2>. QED BY <1>2, <1>3, <2>1 DEF Tells
<1>4. \A p \in Orders : p # o /\ UpToDate(table, past, trips, p) =>
                        UpToDate(newer, added, later, p)
    BY <1>3 DEF UpToDate
<1>5. ASSUME NEW call, NEW seen, Good(trips, seen, call), ~About(trips, call, o),
             Missing(table, past, trips, call)
      PROVE  Missing(newer, added, later, call)
    <2>1. CASE call.pc = "find"
        <3>1. PICK p : p = trips[call.ride].order
            OBVIOUS
        <3>2. /\ call.ride \in Rides /\ call.ride # NULL /\ call.order = NULL
              /\ p \in Orders /\ p # o
              /\ Behind(table, past, trips, call, p)
            BY <1>5, <2>1, <3>1 DEF Good, Missing, Behind, About, NullAssumption
        <3>3. later[call.ride] = trips[call.ride]
            BY <1>1, <3>1, <3>2
        <3>4. Behind(newer, added, later, call, p)
            BY <1>2, <3>2, <3>3 DEF Behind
        <3>. QED BY <2>1, <3>1, <3>2, <3>3, <3>4 DEF Missing
    <2>2. CASE call.pc \in {"ride", "reload", "write", "history"}
        <3>1. call.order \in Orders /\ call.order # o
            BY <1>5, <2>2 DEF Good, About
        <3>. QED BY <1>2, <1>3, <1>5, <2>2, <3>1 DEF Missing, Unsaved, Saved
    <2>3. CASE call.pc = "idle"
        BY <1>5, <2>3 DEF Missing
    <2>. QED BY <1>5, <2>1, <2>2, <2>3 DEF Good, Call, PCs
<1>. QED BY <1>2, <1>4, <1>5

\* One order moves, and the calls that were or are about it.
LEMMA OneOrderMoves ==
    ASSUME NullAssumption, Alone, Kept', NEW o \in Orders, NEW moved \in SUBSET Calls,
           \A d \in Calls \ moved : calls'[d] = calls[d] /\ ~About(rides, calls[d], o),
           \A c \in moved : \A p \in Orders : p # o => ~About(rides, calls[c], p),
           \A c \in moved : Missing(orders', history', rides', calls'[c]),
           \A p \in Orders : p # o => orders'[p] = orders[p] /\ history'[p] = history[p],
           \A r \in Rides : \/ rides'[r] = rides[r]
                            \/ rides[r].order \in {NULL, o} /\ rides'[r].order = o,
           \/ \E c \in moved : About(rides', calls'[c], o)
           \/ UpToDate(orders', history', rides', o)
    PROVE  Alone'
<1>1. /\ \A p \in Orders : p # o /\ UpToDate(orders, history, rides, p) =>
                           UpToDate(orders', history', rides', p)
      /\ \A d \in Calls : ~About(rides, calls[d], o) =>
            Missing(orders', history', rides', calls[d])
    BY MissingStays DEF Alone, Kept
<1>2. \A c \in Calls : Missing(orders', history', rides', calls'[c])
    BY <1>1
<1>3. \A r \in Rides : rides'[r].status # "none" => rides'[r].order \in Orders
    BY DEF Alone
<1>4. ASSUME NEW p \in Orders
      PROVE  \/ \E c \in Calls : About(rides', calls'[c], p)
             \/ UpToDate(orders', history', rides', p)
    <2>1. CASE p = o
        BY <2>1
    <2>2. ASSUME p # o, NEW d \in Calls, About(rides, calls[d], p)
          PROVE  About(rides', calls'[d], p)
        <3>1. calls'[d] = calls[d]
            BY <2>2
        <3>2. CASE calls[d].order = p
            BY <3>1, <3>2 DEF About
        <3>3. CASE calls[d].ride # NULL /\ rides[calls[d].ride].order = p
            <4>1. calls[d].ride \in Rides
                BY <3>3 DEF Kept, TypeOK, Call, Alone
            <4>2. rides'[calls[d].ride] = rides[calls[d].ride]
                BY <2>2, <3>3, <4>1 DEF NullAssumption
            <4>. QED BY <3>1, <3>3, <4>2 DEF About
        <3>. QED BY <2>2, <3>2, <3>3 DEF About
    <2>3. CASE p # o /\ UpToDate(orders, history, rides, p)
        BY <1>1, <2>3
    <2>. QED BY <2>1, <2>2, <2>3 DEF Alone
<1>. QED BY <1>2, <1>3, <1>4 DEF Alone

\* The same for one call.
LEMMA OneCallMoves ==
    ASSUME NullAssumption, Alone, Kept', NEW o \in Orders, NEW c \in Calls, NEW call,
           calls'[c] = call, \A d \in Calls \ {c} : calls'[d] = calls[d],
           \A d \in Calls \ {c} : ~About(rides, calls[d], o),
           \A p \in Orders : p # o => ~About(rides, calls[c], p),
           Missing(orders', history', rides', call),
           \A p \in Orders : p # o => orders'[p] = orders[p] /\ history'[p] = history[p],
           \A r \in Rides : \/ rides'[r] = rides[r]
                            \/ rides[r].order \in {NULL, o} /\ rides'[r].order = o,
           About(rides', call, o) \/ UpToDate(orders', history', rides', o)
    PROVE  Alone'
<1>1. PICK moved \in SUBSET Calls : moved = {c}
    OBVIOUS
<1>2. /\ \A d \in Calls \ moved : calls'[d] = calls[d] /\ ~About(rides, calls[d], o)
      /\ \A b \in moved : \A p \in Orders : p # o => ~About(rides, calls[b], p)
      /\ \A b \in moved : Missing(orders', history', rides', calls'[b])
    BY <1>1
<1>3. \/ \E b \in moved : About(rides', calls'[b], o)
      \/ UpToDate(orders', history', rides', o)
    BY <1>1
<1>. QED BY <1>2, <1>3, OneOrderMoves

\* An idle call is about no order, and a call is about one order only.
LEMMA OneOrderEach ==
    ASSUME NullAssumption, Alone, NEW c \in Calls
    PROVE  /\ calls[c].pc = "idle" => \A o \in Orders : ~About(rides, calls[c], o)
           /\ \A o, p \in Orders :
                 About(rides, calls[c], o) /\ About(rides, calls[c], p) => o = p
<1>1. Missing(orders, history, rides, calls[c]) /\ Good(rides, reached, calls[c])
    BY DEF Alone, Kept
<1>2. CASE calls[c].pc = "idle"
    BY <1>1, <1>2 DEF Missing, Idle, About, NullAssumption
<1>3. CASE calls[c].pc = "find"
    BY <1>1, <1>3 DEF Missing, About, NullAssumption
<1>4. CASE calls[c].pc \notin {"idle", "find"}
    BY <1>1, <1>4 DEF Missing, About
<1>. QED BY <1>2, <1>3, <1>4

\* The handlers that are about an order are busy with it, in the same sense as
\* OneAtATime.
LEMMA NobodyElse ==
    ASSUME OneAtATime, NEW o \in Orders, NEW c \in Calls, About(rides, calls[c], o)
    PROVE  \A d \in Calls \ {c} : ~About(rides, calls[d], o)
BY DEF OneAtATime, Busy, About

\* A handler that starts on an order finds nobody at work on it.
LEMMA NobodyYet ==
    ASSUME NullAssumption, Alone, OneAtATime', NEW o \in Orders, NEW c \in Calls,
           calls[c].pc = "idle",
           \A d \in Calls \ {c} : calls'[d] = calls[d],
           \A r \in Rides : rides'[r].order = rides[r].order,
           About(rides', calls'[c], o)
    PROVE  /\ \A d \in Calls : ~About(rides, calls[d], o)
           /\ UpToDate(orders, history, rides, o)
<1>1. ASSUME NEW d \in Calls, d # c PROVE ~About(rides, calls[d], o)
    <2>1. ~About(rides', calls'[d], o)
        BY <1>1 DEF OneAtATime, Busy, About
    <2>2. calls'[d] = calls[d] /\ (calls[d].ride # NULL => calls[d].ride \in Rides)
        BY <1>1 DEF Alone, Kept, TypeOK, Call
    <2>. QED BY <2>1, <2>2 DEF About
<1>2. ~About(rides, calls[c], o)
    BY OneOrderEach
<1>. QED BY <1>1, <1>2 DEF Alone

\* The transition() of an order nobody works on misses what it should.
LEMMA TransitionAlone ==
    ASSUME NullAssumption, Alone, Kept', OneAtATime', NEW c \in Calls, NEW o \in Orders,
           NEW pc \in {"ride", "reload"}, NEW status, calls[c].pc = "idle",
           Transition(c, o, pc, status),
           UNCHANGED <<orders, history, rides, reached, aborts>>,
           MayFollow(orders[o].status, status),
           pc = "ride" => status = "ready_for_pickup",
           status = "ready_for_pickup" => pc = "ride" /\ orders[o].status = "preparing",
           status \notin WithoutRide \cup {"ready_for_pickup"} =>
               /\ orders[o].ride \in Rides /\ TripsOf(rides, o) = {orders[o].ride}
               /\ <<rides[orders[o].ride].status, status>> \in Says
    PROVE  Alone'
<1>. DEFINE call == [Idle EXCEPT !.pc = pc, !.order = o, !.from = orders[o].status,
                                 !.copy = [orders[o] EXCEPT !.status = status]]
<1>1. /\ calls'[c] = call /\ \A d \in Calls \ {c} : calls'[d] = calls[d]
    BY DEF Transition, Become, Alone, Kept, TypeOK
<1>2. /\ call.pc = pc /\ call.order = o /\ call.from = orders[o].status
      /\ call.copy = [orders[o] EXCEPT !.status = status] /\ call.ride = NULL
    BY DEF Idle
<1>3. call.copy.status = status /\ call.copy.ride = orders[o].ride
    BY <1>2 DEF Alone, Kept, TypeOK, OrderRow
<1>. HIDE DEF call
<1>4. About(rides', calls'[c], o)
    BY <1>1, <1>2 DEF About
<1>5. /\ \A d \in Calls : ~About(rides, calls[d], o)
      /\ UpToDate(orders, history, rides, o)
    BY <1>1, <1>4, NobodyYet
<1>6. Unsaved(orders, history, call)
    BY <1>2, <1>3, <1>5 DEF Unsaved, UpToDate
<1>7. status \in WithoutRide \cup {"ready_for_pickup"} => orders[o].status \in WithoutRide
    BY DEF MayFollow, WithoutRide, Allowed
<1>8. status # "ready_for_pickup" => Tells(rides, o, call.copy)
    BY <1>3, <1>5, <1>7 DEF Tells, UpToDate, Says, WithoutRide
<1>9. status = "ready_for_pickup" => TripsOf(rides, o) = {}
    BY <1>5 DEF Tells, UpToDate, Says
<1>10. Missing(orders, history, rides, call)
    BY <1>2, <1>3, <1>6, <1>8, <1>9 DEF Missing
<1>11. /\ \A d \in Calls \ {c} : calls'[d] = calls[d] /\ ~About(rides, calls[d], o)
       /\ \A p \in Orders : ~About(rides, calls[c], p)
    BY <1>1, <1>5, OneOrderEach
<1>. QED BY <1>1, <1>4, <1>10, <1>11, OneCallMoves

\* checkout(): nobody works on an order that is not there yet.
LEMMA CheckoutAlone ==
    ASSUME NullAssumption, Alone, Kept', NEW o \in Orders, Checkout(o)
    PROVE  Alone' /\ HistoryStep(history[o], history'[o])
<1>1. ASSUME NEW c \in Calls, About(rides, calls[c], o) PROVE FALSE
    <2>1. /\ Missing(orders, history, rides, calls[c]) /\ Good(rides, reached, calls[c])
          /\ orders[o].status = "none"
        BY DEF Alone, Kept, Checkout
    <2>2. calls[c].pc = "idle" \/ calls[c].pc = "find" \/ calls[c].order = o
        BY <1>1, <2>1 DEF About, Missing
    <2>3. CASE calls[c].pc = "idle"
        BY <1>1, <2>3, OneOrderEach
    <2>4. CASE calls[c].pc = "find"
        BY <1>1, <2>1, <2>4 DEF Missing, About, Behind, Says, NullAssumption
    <2>5. CASE calls[c].pc \notin {"idle", "find"} /\ calls[c].order = o
        <3>1. MayFollow("none", calls[c].copy.status)
              \/ MayFollow(calls[c].from, "none")
            BY <2>1, <2>5 DEF Missing, Unsaved, Saved, Good, Call, PCs
        <3>. QED BY <3>1 DEF MayFollow, Allowed
    <2>. QED BY <2>2, <2>3, <2>4, <2>5
<1>2. UpToDate(orders, history, rides, o) /\ orders[o].status = "none"
    BY <1>1 DEF Alone, Checkout
<1>3. /\ orders'[o].status = "pending" /\ orders'[o].ride = orders[o].ride
      /\ history'[o] = <<"none", "pending">>
      /\ \A p \in Orders : p # o => orders'[p] = orders[p] /\ history'[p] = history[p]
      /\ UNCHANGED <<rides, calls>>
    BY DEF Checkout, Alone, Kept, TypeOK, OrderRow
<1>4. UpToDate(orders', history', rides', o)
    BY <1>2, <1>3 DEF UpToDate, Tells, WithoutRide, Says
<1>5. HistoryStep(history[o], history'[o])
    BY <1>2, <1>3 DEF HistoryStep, UpToDate
<1>6. PICK moved \in SUBSET Calls : moved = {}
    OBVIOUS
<1>7. Alone'
    BY <1>1, <1>3, <1>4, <1>6, OneOrderMoves
<1>. QED BY <1>5, <1>7

\* cancelByCustomer() and updateByMerchant() up to their first await.
LEMMA ReadsAlone ==
    ASSUME NullAssumption, Alone, Kept', OneAtATime', NEW c \in Calls, NEW o \in Orders,
           NEW status \in OrderStatuses,
           MerchantRead(c, o, status)
           \/ (status = "cancelled" /\ CancelRead(c, o))
    PROVE  Alone'
<1>1. PICK pc \in {"ride", "reload"} :
          /\ Transition(c, o, pc, status)
          /\ pc = "ride" <=> status = "ready_for_pickup"
    BY DEF MerchantRead, CancelRead
<1>2. /\ orders[o].status \in DOMAIN Allowed /\ status \in Allowed[orders[o].status]
      /\ calls[c].pc = "idle" /\ UNCHANGED <<orders, history, rides, reached, aborts>>
    BY DEF MerchantRead, CancelRead, Allowed, IsIdle
<1>3. /\ MayFollow(orders[o].status, status)
      /\ status \in WithoutRide \cup {"ready_for_pickup"}
      /\ status = "ready_for_pickup" => orders[o].status = "preparing"
    BY <1>2 DEF MayFollow, Allowed, WithoutRide
<1>. QED BY <1>1, <1>2, <1>3, TransitionAlone

\* rides.request(): the order's first ride.
LEMMA RequestAlone ==
    ASSUME NullAssumption, Alone, Kept', OneAtATime, NEW c \in Calls, RequestRide(c)
    PROVE  Alone'
<1>. DEFINE self == calls[c]
<1>1. PICK r \in Rides :
          /\ rides[r].status = "none"
          /\ rides' = [rides EXCEPT ![r].status = "requested",
                                    ![r].order = self.order]
          /\ Become(c, [self EXCEPT !.pc = "reload", !.copy.ride = r])
    BY DEF RequestRide
<1>2. PICK o \in Orders : o = self.order
    BY DEF RequestRide, At, Alone, Kept, Good
<1>3. /\ self.pc = "ride" /\ self \in Call /\ self.copy \in OrderRow
      /\ Missing(orders, history, rides, self)
      /\ UNCHANGED <<orders, history>>
    BY DEF RequestRide, At, Alone, Kept, Good, Call
<1>4. /\ rides[r] \in Ride /\ rides[r].order = NULL
    BY <1>1 DEF Alone, Kept, TypeOK
<1>5. /\ rides'[r].status = "requested" /\ rides'[r].order = o
      /\ \A s \in Rides : s # r => rides'[s] = rides[s]
    BY <1>1, <1>2, <1>4 DEF Alone, Kept, TypeOK, Ride
<1>6. PICK call : call = [self EXCEPT !.pc = "reload", !.copy.ride = r]
    OBVIOUS
<1>7. /\ call.pc = "reload" /\ call.order = o /\ call.from = self.from
      /\ call.ride = self.ride
      /\ call.copy.ride = r /\ call.copy.status = self.copy.status
    BY <1>2, <1>3, <1>6 DEF Call, OrderRow
<1>8. calls'[c] = call /\ \A d \in Calls \ {c} : calls'[d] = calls[d]
    BY <1>1, <1>6 DEF Become, Alone, Kept, TypeOK
<1>9. TripsOf(rides', o) = {r}
    BY <1>2, <1>3, <1>5 DEF Missing, TripsOf
<1>10. Tells(rides', o, call.copy)
    BY <1>3, <1>5, <1>7, <1>9 DEF Missing, Tells, Says
<1>11. Missing(orders', history', rides', call)
    BY <1>2, <1>3, <1>7, <1>10 DEF Missing, Unsaved
<1>12. About(rides', call, o) /\ About(rides, self, o)
    BY <1>2, <1>7 DEF About
<1>13. /\ \A d \in Calls \ {c} : ~About(rides, calls[d], o)
       /\ \A p \in Orders : p # o => ~About(rides, self, p)
    BY <1>12, NobodyElse, OneOrderEach
<1>. QED BY <1>3, <1>4, <1>5, <1>8, <1>11, <1>12, <1>13, OneCallMoves

\* The ride service moves the only ride of an order that is up to date.
LEMMA MoveAlone ==
    ASSUME NullAssumption, Alone, Kept', OneAtATime', NEW c \in Calls, NEW r \in Rides,
           NEW status \in RideStatuses, MoveRide(c, r, status)
    PROVE  Alone'
<1>1. /\ rides[r] \in Ride /\ <<rides[r].status, status>> \in LegalMoves
      /\ calls[c].pc = "idle" /\ UNCHANGED <<orders, history>>
    BY DEF MoveRide, IsIdle, Alone, Kept, TypeOK
<1>2. rides[r].status # "none"
    BY <1>1 DEF LegalMoves
<1>3. PICK o \in Orders : o = rides[r].order
    BY <1>2 DEF Alone
<1>4. /\ rides'[r].status = status /\ rides'[r].order = o
      /\ \A s \in Rides : s # r => rides'[s] = rides[s]
    BY <1>1, <1>3 DEF MoveRide, Alone, Kept, TypeOK, Ride
<1>5. PICK call : call = [Idle EXCEPT !.pc = "find", !.ride = r, !.update = status]
    OBVIOUS
<1>6. /\ call.pc = "find" /\ call.ride = r /\ call.update = status /\ call.order = NULL
    BY <1>5 DEF Idle
<1>7. calls'[c] = call /\ \A d \in Calls \ {c} : calls'[d] = calls[d]
    BY <1>5 DEF MoveRide, Become, Alone, Kept, TypeOK
<1>8. About(rides', calls'[c], o)
    BY <1>4, <1>6, <1>7 DEF About, NullAssumption
<1>9. \A s \in Rides : rides'[s].order = rides[s].order
    BY <1>3, <1>4
<1>10. /\ \A d \in Calls : ~About(rides, calls[d], o)
       /\ UpToDate(orders, history, rides, o)
    BY <1>1, <1>7, <1>8, <1>9, NobodyYet
<1>11. r \in TripsOf(rides, o)
    BY <1>3 DEF TripsOf
<1>12. /\ orders[o].ride = r /\ TripsOf(rides, o) = {r}
       /\ <<rides[r].status, orders[o].status>> \in Says
    BY <1>10, <1>11 DEF UpToDate, Tells
<1>13. TripsOf(rides', o) = {r}
    BY <1>9, <1>12 DEF TripsOf
<1>14. Behind(orders', history', rides', call, o)
    <2>1. rides[r].status \in RideStatuses
        BY <1>1 DEF Ride
    <2>. QED BY <1>1, <1>4, <1>6, <1>10, <1>12, <1>13, <2>1 DEF Behind, UpToDate
<1>15. Missing(orders', history', rides', call)
    BY <1>4, <1>6, <1>14 DEF Missing
<1>16. \A p \in Orders : ~About(rides, calls[c], p)
    BY <1>1, OneOrderEach
<1>. QED BY <1>1, <1>3, <1>4, <1>7, <1>8, <1>10, <1>15, <1>16, OneCallMoves

\* onRideUpdated() finds the order of the ride, one update behind.
LEMMA ListenerAlone ==
    ASSUME NullAssumption, Alone, Kept', OneAtATime, NEW c \in Calls,
           ListenerFind(c)
    PROVE  Alone'
<1>. DEFINE self == calls[c]
            found == {p \in Orders : orders[p].ride = self.ride}
<1>1. /\ self.pc = "find" /\ self.ride \in Rides /\ self.update \in RideStatuses
      /\ Missing(orders, history, rides, self)
      /\ Follow(c, found) /\ UNCHANGED <<orders, history, rides, reached, aborts>>
    BY DEF ListenerFind, At, Alone, Kept, Good, Call
<1>2. PICK o \in Orders : o = rides[self.ride].order
    BY <1>1 DEF Missing, Behind
<1>3. Behind(orders, history, rides, self, o)
    BY <1>1, <1>2 DEF Missing
<1>4. found = {o}
    <2>1. \A p \in Orders : orders[p].ride = self.ride => rides[self.ride].order = p
        BY <1>1 DEF Alone, Kept, Truthful, Owns, NullAssumption
    <2>. QED BY <1>2, <1>3, <2>1 DEF Behind
<1>5. About(rides, self, o)
    BY <1>1, <1>2 DEF About, NullAssumption
<1>6. /\ \A d \in Calls \ {c} : ~About(rides, calls[d], o)
      /\ \A p \in Orders : p # o => ~About(rides, self, p)
    BY <1>5, NobodyElse, OneOrderEach
<1>7. \A d \in Calls \ {c} : calls'[d] = calls[d]
    BY <1>1 DEF Follow, Transition, Become, Alone, Kept, TypeOK
<1>8. PICK was \in RideStatuses : /\ <<was, self.update>> \in LegalMoves
                                 /\ <<was, orders[o].status>> \in Says
    BY <1>3 DEF Behind
<1>9. CASE self.update \notin DOMAIN Follows
    <2>1. self.update = "cancelled"
        BY <1>8, <1>9 DEF LegalMoves, Follows
    <2>2. <<"cancelled", orders[o].status>> \in Says
        BY <1>8 DEF LegalMoves, Says
    <2>3. UpToDate(orders, history, rides, o)
        BY <1>1, <1>3, <2>1, <2>2 DEF Behind, UpToDate, Tells
    <2>4. calls'[c] = Idle
        BY <1>1, <1>9 DEF Follow, Become, Alone, Kept, TypeOK
    <2>. QED BY <1>1, <1>6, <1>7, <2>3, <2>4, IdleMissesNothing, OneCallMoves
<1>10. CASE self.update \in DOMAIN Follows
    <2>. DEFINE to == Follows[self.update]
    <2>1. /\ orders[o].status \notin {"cancelled", to}
          /\ <<self.update, to>> \in Says /\ MayFollow(orders[o].status, to)
        BY <1>8, <1>10 DEF LegalMoves, Says, Follows, MayFollow
    <2>2. Transition(c, o, "reload", to)
        BY <1>1, <1>4, <1>10, <2>1 DEF Follow
    <2>. PICK call : call = [Idle EXCEPT !.pc = "reload", !.order = o,
                                !.from = orders[o].status,
                                !.copy = [orders[o] EXCEPT !.status = to]]
        OBVIOUS
    <2>3. /\ calls'[c] = call /\ call.pc = "reload" /\ call.order = o
          /\ call.from = orders[o].status /\ call.ride = NULL
          /\ call.copy = [orders[o] EXCEPT !.status = to]
        <3>1. calls'[c] = call
            BY <2>2 DEF Transition, Become, Alone, Kept, TypeOK
        <3>. QED BY <3>1 DEF Idle
    <2>4. call.copy.status = to /\ call.copy.ride = orders[o].ride
        BY <2>3 DEF Alone, Kept, TypeOK, OrderRow
    <2>5. Tells(rides, o, call.copy)
        BY <1>1, <1>3, <2>1, <2>4 DEF Behind, Tells
    <2>6. Missing(orders, history, rides, call)
        BY <1>3, <2>1, <2>3, <2>4, <2>5 DEF Behind, Missing, Unsaved
    <2>7. About(rides, call, o)
        BY <2>3 DEF About
    <2>. QED BY <1>1, <1>6, <1>7, <2>3, <2>6, <2>7, OneCallMoves
<1>. QED BY <1>9, <1>10

\* The SELECT of save() finds the row as the handler left it.
LEMMA ReloadAlone ==
    ASSUME NullAssumption, Alone, Kept', OneAtATime, NEW c \in Calls, SaveReload(c)
    PROVE  Alone'
<1>. DEFINE self == calls[c]
<1>1. PICK o \in Orders : o = self.order
    BY DEF SaveReload, At, Alone, Kept, Good
<1>2. /\ self.pc = "reload" /\ self \in Call /\ self.copy \in OrderRow
      /\ orders[o] \in OrderRow /\ Missing(orders, history, rides, self)
      /\ UNCHANGED <<orders, history, rides>>
    BY DEF SaveReload, At, Alone, Kept, TypeOK, Call
<1>3. PICK dirty : dirty = DirtyColumns(self.copy, orders[o])
    OBVIOUS
<1>4. SavedRow(orders[o], self.copy, dirty) = self.copy
    BY <1>2, <1>3 DEF SavedRow, DirtyColumns, OrderRow
<1>5. PICK call : call = [self EXCEPT !.pc = "write", !.dirty = dirty]
    OBVIOUS
<1>6. /\ call.pc = "write" /\ call.order = o /\ call.ride = self.ride
      /\ call.from = self.from /\ call.copy = self.copy /\ call.dirty = dirty
    BY <1>1, <1>2, <1>5 DEF Call
<1>7. calls'[c] = call /\ \A d \in Calls \ {c} : calls'[d] = calls[d]
    BY <1>1, <1>3, <1>5 DEF SaveReload, Become, Alone, Kept, TypeOK
<1>8. Missing(orders, history, rides, call)
    BY <1>1, <1>2, <1>4, <1>6 DEF Missing, Unsaved
<1>9. About(rides, self, o) /\ About(rides, call, o)
    BY <1>1, <1>6 DEF About
<1>10. /\ \A d \in Calls \ {c} : ~About(rides, calls[d], o)
       /\ \A p \in Orders : p # o => ~About(rides, self, p)
    BY <1>9, NobodyElse, OneOrderEach
<1>. QED BY <1>2, <1>7, <1>8, <1>9, <1>10, OneCallMoves

\* The UPDATE makes the row what the handler wants it to be.
LEMMA WriteAlone ==
    ASSUME NullAssumption, Alone, Kept', OneAtATime, NEW c \in Calls, SaveWrite(c)
    PROVE  Alone'
<1>. DEFINE self == calls[c]
<1>1. PICK o \in Orders : o = self.order
    BY DEF SaveWrite, At, Alone, Kept, Good
<1>2. /\ self.pc = "write" /\ self \in Call
      /\ Missing(orders, history, rides, self)
      /\ UNCHANGED <<history, rides>>
    BY DEF SaveWrite, At, Alone, Kept, TypeOK
<1>3. orders'[o] = self.copy /\ \A p \in Orders : p # o => orders'[p] = orders[p]
    BY <1>1, <1>2 DEF SaveWrite, Missing, Alone, Kept, TypeOK
<1>4. PICK call : call = [self EXCEPT !.pc = "history"]
    OBVIOUS
<1>5. /\ call.pc = "history" /\ call.order = o /\ call.ride = self.ride
      /\ call.from = self.from /\ call.copy = self.copy
    BY <1>1, <1>2, <1>4 DEF Call
<1>6. calls'[c] = call /\ \A d \in Calls \ {c} : calls'[d] = calls[d]
    BY <1>4 DEF SaveWrite, Become, Alone, Kept, TypeOK
<1>7. Missing(orders', history', rides', call)
    BY <1>1, <1>2, <1>3, <1>5 DEF Missing, Unsaved, Saved
<1>8. About(rides, self, o) /\ About(rides', call, o)
    BY <1>1, <1>5 DEF About
<1>9. /\ \A d \in Calls \ {c} : ~About(rides, calls[d], o)
      /\ \A p \in Orders : p # o => ~About(rides, self, p)
    BY <1>8, NobodyElse, OneOrderEach
<1>. QED BY <1>2, <1>3, <1>6, <1>7, <1>8, <1>9, OneCallMoves

\* A step that a handler may make is one the history may show.
LEMMA NextRow ==
    ASSUME NEW last, NEW from, NEW to, last[2] = from, MayFollow(from, to)
    PROVE  HistoryStep(last, <<from, to>>)
BY DEF HistoryStep, MayFollow

\* The history row is a step from the one before it, and nothing is missing.
LEMMA HistoryAlone ==
    ASSUME NullAssumption, Alone, Kept', OneAtATime, NEW c \in Calls, HistoryInsert(c)
    PROVE  Alone' /\ \A o \in Orders : HistoryStep(history[o], history'[o])
<1>. DEFINE self == calls[c]
<1>1. PICK o \in Orders : o = self.order
    BY DEF HistoryInsert, At, Alone, Kept, Good
<1>2. /\ self.pc = "history" /\ Missing(orders, history, rides, self)
      /\ UNCHANGED <<orders, rides>>
    BY DEF HistoryInsert, At, Alone, Kept, TypeOK
<1>3. /\ history'[o] = <<self.from, self.copy.status>>
      /\ \A p \in Orders : p # o => history'[p] = history[p]
      /\ calls'[c] = Idle /\ \A d \in Calls \ {c} : calls'[d] = calls[d]
    BY <1>1 DEF HistoryInsert, Become, Alone, Kept, TypeOK
<1>4. UpToDate(orders', history', rides', o)
    BY <1>1, <1>2, <1>3 DEF Missing, Saved, UpToDate
<1>5. About(rides, self, o)
    BY <1>1 DEF About
<1>6. /\ \A d \in Calls \ {c} : ~About(rides, calls[d], o)
      /\ \A p \in Orders : p # o => ~About(rides, self, p)
    BY <1>5, NobodyElse, OneOrderEach
<1>7. Alone'
    BY <1>2, <1>3, <1>4, <1>6, IdleMissesNothing, OneCallMoves
<1>8. \A p \in Orders : HistoryStep(history[p], history'[p])
    <2>1. HistoryStep(history[o], history'[o])
        BY <1>1, <1>2, <1>3, NextRow DEF Missing, Saved
    <2>2. \A p \in Orders : p # o => HistoryStep(history[p], history'[p])
        BY <1>3 DEF HistoryStep
    <2>. QED BY <2>1, <2>2
<1>. QED BY <1>7, <1>8

\* Every step of handlers that follow one another and do not die keeps the
\* invariant, and adds to the history what belongs there.
LEMMA AloneNext ==
    ASSUME NullAssumption, Alone, OneAtATime, OneAtATime', UNCHANGED aborts, [Next]_vars
    PROVE  Alone' /\ \A o \in Orders : HistoryStep(history[o], history'[o])
<1>1. Kept'
    BY KeptNext DEF Alone
<1>2. UNCHANGED history => \A o \in Orders : HistoryStep(history[o], history'[o])
    BY DEF HistoryStep
<1>3. CASE UNCHANGED vars
    BY <1>1, <1>2, <1>3 DEF vars, Alone
<1>4. ASSUME NEW o \in Orders, Checkout(o)
      PROVE  Alone' /\ \A p \in Orders : HistoryStep(history[p], history'[p])
    <2>1. \A p \in Orders : p # o => history'[p] = history[p]
        BY <1>4 DEF Checkout, Alone, Kept, TypeOK
    <2>. QED BY <1>1, <1>4, <2>1, CheckoutAlone DEF HistoryStep
<1>5. ASSUME NEW c \in Calls, NEW o \in Orders, CancelRead(c, o)
      PROVE  Alone' /\ UNCHANGED history
    <2>1. "cancelled" \in OrderStatuses
        BY DEF OrderStatuses
    <2>. QED BY <1>1, <1>5, <2>1, ReadsAlone DEF CancelRead
<1>6. ASSUME NEW c \in Calls, NEW o \in Orders, NEW status \in OrderStatuses,
             MerchantRead(c, o, status)
      PROVE  Alone' /\ UNCHANGED history
    BY <1>1, <1>6, ReadsAlone DEF MerchantRead
<1>7. ASSUME NEW c \in Calls, NEW r \in Rides, NEW status \in RideStatuses,
             MoveRide(c, r, status)
      PROVE  Alone' /\ UNCHANGED history
    BY <1>1, <1>7, MoveAlone DEF MoveRide
<1>8. ASSUME NEW c \in Calls, RequestRide(c) \/ ListenerFind(c) \/ SaveReload(c) \/ SaveWrite(c)
      PROVE  Alone' /\ UNCHANGED history
    BY <1>1, <1>8, RequestAlone, ListenerAlone, ReloadAlone, WriteAlone
       DEF RequestRide, ListenerFind, SaveReload, SaveWrite
<1>9. ASSUME NEW c \in Calls, Abort(c) PROVE FALSE
    BY <1>9 DEF Abort, Alone, Kept, TypeOK
<1>. QED BY <1>1, <1>2, <1>3, <1>4, <1>5, <1>6, <1>7, <1>8, <1>9, HistoryAlone
     DEF Next, Step

\* The invariant holds at the start, when no two handlers work on one order.
LEMMA AloneInit == ASSUME NullAssumption, Init PROVE Alone /\ OneAtATime
<1>1. /\ \A c \in Calls : calls[c] = Idle
      /\ \A r \in Rides : rides[r].status = "none" /\ rides[r].order = NULL
      /\ \A o \in Orders : orders[o] = NoOrder /\ history[o] = <<"none", "none">>
    BY DEF Init, NoRide
<1>2. \A o \in Orders : UpToDate(orders, history, rides, o)
    BY <1>1 DEF UpToDate, Tells, TripsOf, WithoutRide, NoOrder, NullAssumption
<1>3. OneAtATime
    BY <1>1 DEF OneAtATime, Busy, Idle, NullAssumption
<1>. QED BY <1>1, <1>2, <1>3, KeptInit, IdleMissesNothing DEF Alone

\* So it holds always in serial behaviours.
LEMMA AloneAlways == KindSpec => [](serial => Alone /\ OneAtATime)
<1>. DEFINE Inv == serial => Alone /\ OneAtATime
<1>1. KindInit => Inv
    BY AloneInit, NullAssumption DEF KindInit
<1>2. Inv /\ [KindNext]_<<vars, kind>> => Inv'
    <2>. SUFFICES ASSUME Inv, [KindNext]_<<vars, kind>>, serial' PROVE Alone' /\ OneAtATime'
        OBVIOUS
    <2>1. serial /\ Alone /\ OneAtATime
        BY DEF KindNext, serial
    <2>2. CASE UNCHANGED <<vars, kind>>
        <3>1. OneAtATime'
            BY <2>1, <2>2 DEF vars, OneAtATime, Busy
        <3>2. UNCHANGED aborts /\ [Next]_vars
            BY <2>2 DEF vars
        <3>. QED BY <2>1, <3>1, <3>2, AloneNext, NullAssumption
    <2>3. CASE KindNext
        <3>1. UNCHANGED aborts /\ Next /\ OneAtATime'
            BY <2>1, <2>3 DEF KindNext, serial
        <3>. QED BY <2>1, <3>1, AloneNext, NullAssumption
    <2>. QED BY <2>2, <2>3
<1>. QED BY <1>1, <1>2, PTL DEF KindSpec

\* When handlers follow one another and none dies, an order that nobody works on
\* says what its ride says (onRideUpdated()).
THEOREM OrdersFollowRides == KindSpec => []SerialOrderFollowsRide
<1>1. (serial => Alone /\ OneAtATime) => SerialOrderFollowsRide
    <2>. SUFFICES ASSUME Alone PROVE OrderFollowsRide
        BY DEF SerialOrderFollowsRide
    <2>. SUFFICES ASSUME NEW o \in Orders, NEW r \in RidesOf(o), Quiet(o)
                  PROVE  <<rides[r].status, orders[o].status>> \in Says
        BY DEF OrderFollowsRide, Says
    <2>1. UpToDate(orders, history, rides, o)
        BY DEF Alone, Quiet, Busy, About
    <2>2. r \in TripsOf(rides, o)
        BY DEF RidesOf, TripsOf
    <2>. QED BY <2>1, <2>2 DEF UpToDate, Tells
<1>. QED BY <1>1, AloneAlways, PTL

\* When handlers follow one another and none dies, nobody is sent out for an
\* order that is cancelled (cancelByCustomer(), updateByMerchant()).
THEOREM CancelledOrdersHaveNoRide == KindSpec => []SerialCancelledHasNoRide
<1>1. (serial => Alone /\ OneAtATime) => SerialCancelledHasNoRide
    <2>. SUFFICES ASSUME Alone, NEW o \in Orders, orders[o].status = "cancelled"
                  PROVE  TripsOf(rides, o) = {}
        BY DEF SerialCancelledHasNoRide, CancelledHasNoRide, RidesOf, TripsOf
    <2>1. CASE UpToDate(orders, history, rides, o)
        BY <2>1 DEF UpToDate, Tells, Says
    <2>2. ASSUME NEW c \in Calls, About(rides, calls[c], o)
          PROVE  TripsOf(rides, o) = {}
        <3>1. /\ Missing(orders, history, rides, calls[c])
              /\ Good(rides, reached, calls[c]) /\ calls[c].pc \in PCs
            BY DEF Alone, Kept, Good, Call
        <3>2. CASE calls[c].pc = "idle"
            BY <2>2, <3>2, OneOrderEach, NullAssumption
        <3>3. CASE calls[c].pc = "find"
            BY <2>2, <3>1, <3>3, NullAssumption
            DEF Missing, About, Behind, Says, NullAssumption
        <3>4. CASE calls[c].pc \in {"ride", "reload", "write"}
            BY <2>2, <3>1, <3>4 DEF Missing, About, Unsaved, MayFollow, Allowed
        <3>5. CASE calls[c].pc = "history"
            BY <2>2, <3>1, <3>5 DEF Missing, About, Saved, Tells, Says
        <3>. QED BY <3>1, <3>2, <3>3, <3>4, <3>5 DEF PCs
    <2>. QED BY <2>1, <2>2 DEF Alone
<1>. QED BY <1>1, AloneAlways, PTL

\* When handlers follow one another and none dies, each row of an order's history
\* starts where the last one ended and is a step the rules allow (transition()).
THEOREM HistoriesArePaths == KindSpec => SerialHistoryIsAPath
<1>1. (serial => Alone /\ OneAtATime) /\ [KindNext]_<<vars, kind>>
      => [serial => \A o \in Orders : HistoryStep(history[o], history'[o])]_vars
    <2>. SUFFICES ASSUME serial, Alone, OneAtATime, KindNext
                  PROVE  \A o \in Orders : HistoryStep(history[o], history'[o])
        OBVIOUS
    <2>1. UNCHANGED aborts /\ Next /\ OneAtATime'
        BY DEF KindNext, serial
    <2>. QED BY <2>1, AloneNext, NullAssumption
<1>. QED BY <1>1, AloneAlways, PTL DEF KindSpec, SerialHistoryIsAPath

=============================================================================
