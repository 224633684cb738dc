----------------------------- MODULE RidesProofs -----------------------------
(***************************************************************************)
(* Machine-checked proofs about the ride service, for any sets of rides,    *)
(* drivers, clients and concurrent calls.                                   *)
(***************************************************************************)
EXTENDS RidesSerial, TLAPS

(***************************************************************************)
(* Types.  Where a call stands decides which of its fields are set.         *)
(***************************************************************************)
OnRide == {"offer_find", "offer", "trust", "claim", "reserve",
           "withdraw_find", "withdraw", "reload", "write"}
ByDriver == {"trust", "claim", "reserve", "online_find", "online"}

CallOK(call) ==
    /\ call \in Call
    /\ call.pc \in OnRide => call.ride \in Rides
    /\ call.pc \in ByDriver => call.user \in Drivers

Typed == TypeOK /\ \A c \in Slots : CallOK(calls[c])

\* A slot with no call is typed.
LEMMA IdleOK == CallOK(Idle)
  BY DEF CallOK, OnRide, ByDriver, Idle, Call, PCs, NoRow, Row, Statuses,
         ActiveStatuses, ClosedStatuses

\* Moving a call to another step keeps its ride and its user.
LEMMA AtPc ==
  ASSUME NEW call \in Call, NEW pc \in PCs
  PROVE  /\ [call EXCEPT !.pc = pc] \in Call
         /\ [call EXCEPT !.pc = pc].pc = pc
         /\ [call EXCEPT !.pc = pc].ride = call.ride
         /\ [call EXCEPT !.pc = pc].user = call.user
  BY DEF Call

\* A fresh call about one ride is a call about that ride.
LEMMA StartedOn ==
  ASSUME NEW pc \in PCs, NEW ride \in Rides
  PROVE  LET new == [Idle EXCEPT !.pc = pc, !.ride = ride]
         IN  /\ new \in Call /\ new.pc = pc /\ new.ride = ride
  BY IdleOK DEF CallOK, Call

\* A step that replaces one call by a typed one keeps them all typed.
LEMMA BecomeTyped ==
  ASSUME calls \in [Slots -> Call], \A c \in Slots : CallOK(calls[c]),
         NEW c \in Slots, NEW call, CallOK(call), Become(c, call)
  PROVE  calls' \in [Slots -> Call] /\ \A b \in Slots : CallOK(calls[b])'
  BY DEF Become, CallOK

\* What a dispatch loop does next is typed, idle or dispatching.
LEMMA ContinueOK ==
  ASSUME NEW todo \in SUBSET Rides
  PROVE  CallOK(Continue(todo)) /\ Continue(todo).pc \in {"idle", "dispatch"}
<1>1. CASE todo = {}
  BY <1>1, IdleOK DEF Continue, Idle
<1>2. CASE todo # {}
  BY <1>2, IdleOK DEF Continue, CallOK, Call, OnRide, ByDriver, PCs
<1> QED BY <1>1, <1>2

\* What save() writes is a row again.
LEMMA SavedRowType ==
  ASSUME NEW row \in Row, NEW entity \in Row, NEW dirty
  PROVE  SavedRow(row, entity, dirty) \in Row
  BY DEF SavedRow, Row

\* A handler that has loaded and changed its entity is typed.
LEMMA LoadedTyped ==
  ASSUME Typed, NEW c \in Slots, NEW r \in Rides, NEW entity \in Row,
         NEW wasPending \in BOOLEAN, Loaded(c, r, entity, wasPending)
  PROVE  Typed'
<1> DEFINE call == [Idle EXCEPT !.pc = "reload", !.ride = r, !.copy = entity,
                                !.wasPending = wasPending]
<1>1. CallOK(call)
  BY IdleOK DEF CallOK, Call, PCs, ByDriver
<1>2. Become(c, call)
  BY DEF Loaded
<1>3. calls' \in [Slots -> Call] /\ \A b \in Slots : CallOK(calls[b])'
  BY <1>1, <1>2, BecomeTyped DEF Typed, TypeOK
<1> QED BY <1>3 DEF Loaded, Typed, TypeOK

\* The calls stay typed and so does everything a step of a call writes.
LEMMA StepTyped == ASSUME Typed, NEW c \in Slots, Step(c) PROVE Typed'
<1> DEFINE self == calls[c]
<1>0. CallOK(self) /\ calls \in [Slots -> Call]
  BY DEF Typed, TypeOK
<1> SUFFICES /\ \E call : CallOK(call) /\ Become(c, call)
             /\ rides' \in [Rides -> Row]
             /\ bookings' = bookings
             /\ due' = due
             /\ pool' \subseteq Drivers
             /\ offers' \in [Rides -> SUBSET Drivers]
             /\ level' = level
             /\ aborts' = aborts
             /\ winners' \in [Rides -> SUBSET Drivers]
             /\ dispatches' \in [Rides -> Nat]
  <2>1. calls' \in [Slots -> Call] /\ \A b \in Slots : CallOK(calls[b])'
    BY BecomeTyped DEF Typed, TypeOK
  <2> QED BY <2>1 DEF Typed, TypeOK
<1> USE DEF At
<1>1. CASE OfferFind(c)
  <2>1. PICK found \in Candidates :
          Become(c, [self EXCEPT !.pc = "offer",
                       !.found = {d \in found : Trusted(d, self.ride)}])
    BY <1>1 DEF OfferFind
  <2> DEFINE kept == {d \in found : Trusted(d, self.ride)}
             new == [self EXCEPT !.pc = "offer", !.found = kept]
  <2>2. kept \in SUBSET Drivers
    BY <2>1 DEF Candidates, Typed, TypeOK
  <2> HIDE DEF kept
  <2>3. new \in Call /\ new.pc = "offer" /\ new.ride = self.ride
    <3>1. self \in Call /\ "offer" \in PCs
      BY <1>0 DEF CallOK, PCs
    <3> HIDE DEF self
    <3> QED BY <2>2, <3>1 DEF Call
  <2>4. CallOK(new)
    BY <1>0, <1>1, <2>3 DEF OfferFind, CallOK, OnRide, ByDriver
  <2>5. Become(c, new)
    BY <2>1 DEF kept
  <2> QED BY <1>1, <2>4, <2>5 DEF OfferFind, Typed, TypeOK
<1>2. CASE Offer(c)
  <2>1. CallOK(Continue(self.todo))
    BY <1>0, ContinueOK DEF CallOK, Call
  <2>2. self.ride \in Rides /\ self.found \in SUBSET Drivers
    BY <1>0, <1>2 DEF Offer, CallOK, OnRide, Call
  <2> QED BY <1>2, <2>1, <2>2 DEF Offer, Typed, TypeOK
<1>3. CASE DispatchClaim(c)
  <2>0. PICK r \in self.todo :
          IF rides[r].status = "requested" /\ ~rides[r].dispatched
          THEN /\ rides' = [rides EXCEPT ![r].dispatched = TRUE]
               /\ dispatches' = [dispatches EXCEPT ![r] = @ + 1]
               /\ Become(c, [Idle EXCEPT !.pc = "offer_find", !.ride = r,
                                         !.todo = self.todo \ {r}])
          ELSE /\ Become(c, Continue(self.todo \ {r}))
               /\ UNCHANGED <<rides, dispatches>>
    BY <1>3 DEF DispatchClaim
  <2>1. r \in Rides /\ self.todo \ {r} \in SUBSET Rides
    BY <1>0 DEF CallOK, Call
  <2>2. CallOK([Idle EXCEPT !.pc = "offer_find", !.ride = r,
                            !.todo = self.todo \ {r}])
    BY <2>1, IdleOK DEF CallOK, Call, PCs, ByDriver
  <2>3. CallOK(Continue(self.todo \ {r}))
    BY <2>1, ContinueOK
  <2>4. [rides EXCEPT ![r].dispatched = TRUE] \in [Rides -> Row]
    <3>1. [rides[r] EXCEPT !.dispatched = TRUE] \in Row
      BY <2>1 DEF Row, Typed, TypeOK
    <3> QED BY <2>1, <3>1 DEF Typed, TypeOK
  <2>5. [dispatches EXCEPT ![r] = @ + 1] \in [Rides -> Nat]
    BY <2>1 DEF Typed, TypeOK
  <2> QED BY <1>3, <2>0, <2>2, <2>3, <2>4, <2>5 DEF DispatchClaim, Typed, TypeOK
<1>4. CASE AcceptTrust(c)
  <2>1. CallOK([self EXCEPT !.pc = "claim"])
    BY <1>0, <1>4, AtPc DEF AcceptTrust, CallOK, PCs, OnRide, ByDriver
  <2>2. CallOK(IF Trusted(self.user, self.ride)
               THEN [self EXCEPT !.pc = "claim"] ELSE Idle)
    BY <2>1, IdleOK
  <2> QED BY <1>4, <2>2 DEF AcceptTrust, Typed, TypeOK
<1>5. CASE AcceptClaim(c)
  <2>1. CallOK([self EXCEPT !.pc = "reserve"])
    BY <1>0, <1>5, AtPc DEF AcceptClaim, CallOK, PCs, OnRide, ByDriver
  <2>2. self.ride \in Rides /\ self.user \in Drivers
    BY <1>0, <1>5 DEF AcceptClaim, CallOK, OnRide, ByDriver
  <2>3. [rides EXCEPT ![self.ride].status = "accepted",
                      ![self.ride].driver = self.user] \in [Rides -> Row]
    <3>1. \A r \in Rides, d \in Drivers :
             [[rides[r] EXCEPT !.status = "accepted"] EXCEPT !.driver = d] \in Row
      BY DEF Row, Statuses, ActiveStatuses, Typed, TypeOK
    <3> QED BY <2>2, <3>1 DEF Typed, TypeOK
  <2>4. [winners EXCEPT ![self.ride] = @ \cup {self.user}]
          \in [Rides -> SUBSET Drivers]
    BY <2>2 DEF Typed, TypeOK
  <2> QED BY <1>5, <2>1, <2>3, <2>4, IdleOK DEF AcceptClaim, Typed, TypeOK
<1>6. CASE AcceptReserve(c)
  <2>1. CallOK([self EXCEPT !.pc = "withdraw_find"])
    BY <1>0, <1>6, AtPc DEF AcceptReserve, CallOK, PCs, OnRide, ByDriver
  <2> QED BY <1>6, <2>1 DEF AcceptReserve, Typed, TypeOK
<1>7. CASE WithdrawFind(c)
  <2>1. PICK found \in Candidates :
          Become(c, [self EXCEPT !.pc = "withdraw",
                                 !.found = found \ {self.user}])
    BY <1>7 DEF WithdrawFind
  <2> DEFINE kept == found \ {self.user}
             new == [self EXCEPT !.pc = "withdraw", !.found = kept]
  <2>2. kept \in SUBSET Drivers
    BY <2>1 DEF Candidates, Typed, TypeOK
  <2> HIDE DEF kept
  <2>3. new \in Call /\ new.pc = "withdraw" /\ new.ride = self.ride
    <3>1. self \in Call /\ "withdraw" \in PCs
      BY <1>0 DEF CallOK, PCs
    <3> HIDE DEF self
    <3> QED BY <2>2, <3>1 DEF Call
  <2>4. CallOK(new)
    BY <1>0, <1>7, <2>3 DEF WithdrawFind, CallOK, OnRide, ByDriver
  <2>5. Become(c, new)
    BY <2>1 DEF kept
  <2> QED BY <1>7, <2>4, <2>5 DEF WithdrawFind, Typed, TypeOK
<1>8. CASE Withdraw(c)
  <2>1. self.ride \in Rides
    BY <1>0, <1>8 DEF Withdraw, CallOK, OnRide
  <2> QED BY <1>8, <2>1, IdleOK DEF Withdraw, Typed, TypeOK
<1>9. CASE SaveReload(c)
  <2> DEFINE dirty == DirtyColumns(self.copy, rides[self.ride])
             new == [self EXCEPT !.pc = "write", !.dirty = dirty]
  <2>1. self.ride \in Rides
    BY <1>0, <1>9 DEF SaveReload, CallOK, OnRide
  <2>2. dirty \in SUBSET DOMAIN NoRow
    BY <2>1 DEF DirtyColumns, Row, NoRow, Typed, TypeOK
  <2>3. new \in Call /\ new.pc = "write" /\ new.ride = self.ride
    BY <1>0, <2>2 DEF CallOK, Call, PCs
  <2>4. CallOK(new)
    BY <2>1, <2>3 DEF CallOK, ByDriver
  <2> QED BY <1>9, <2>4 DEF SaveReload, Typed, TypeOK
<1>10. CASE SaveWrite(c)
  <2>1. self.ride \in Rides /\ self.copy \in Row
    BY <1>0, <1>10 DEF SaveWrite, CallOK, OnRide, Call
  <2>2. SavedRow(rides[self.ride], self.copy, self.dirty) \in Row
    BY <2>1, SavedRowType DEF Typed, TypeOK
  <2> DEFINE new == [Idle EXCEPT !.pc = "withdraw_find", !.ride = self.ride]
  <2>5. new \in Call /\ new.pc = "withdraw_find" /\ new.ride = self.ride
    BY <2>1, StartedOn DEF PCs
  <2>3. CallOK(new)
    BY <2>1, <2>5 DEF CallOK, ByDriver
  <2>4. CallOK(IF self.wasPending
               THEN [Idle EXCEPT !.pc = "withdraw_find", !.ride = self.ride]
               ELSE Idle)
    BY <2>3, IdleOK
  <2> QED BY <1>10, <2>1, <2>2, <2>4 DEF SaveWrite, Typed, TypeOK
<1>11. CASE OnlineFind(c)
  <2>1. PICK near \in SUBSET Rides :
          Become(c, IF near = {} THEN Idle
                    ELSE [self EXCEPT !.pc = "online", !.todo = near])
    BY <1>11 DEF OnlineFind
  <2> DEFINE new == [self EXCEPT !.pc = "online", !.todo = near]
  <2>2. new \in Call /\ new.pc = "online" /\ new.user = self.user
    BY <1>0, <2>1 DEF CallOK, Call, PCs
  <2>3. CallOK(IF near = {} THEN Idle ELSE new)
    BY <1>0, <1>11, <2>2, IdleOK DEF OnlineFind, CallOK, OnRide, ByDriver
  <2> QED BY <1>11, <2>1, <2>3 DEF OnlineFind, Typed, TypeOK
<1>12. CASE OnlineOffer(c)
  <2>1. PICK r \in self.todo :
          /\ offers' = IF Trusted(self.user, r)
                       THEN [offers EXCEPT ![r] = @ \cup {self.user}]
                       ELSE offers
          /\ Become(c, IF self.todo \ {r} = {} THEN Idle
                       ELSE [self EXCEPT !.todo = self.todo \ {r}])
    BY <1>12 DEF OnlineOffer
  <2> DEFINE new == [self EXCEPT !.todo = self.todo \ {r}]
  <2>2. r \in Rides /\ self.user \in Drivers
    BY <1>0, <1>12 DEF OnlineOffer, CallOK, Call, ByDriver
  <2>3. new \in Call /\ new.pc = self.pc /\ new.user = self.user
    BY <1>0 DEF CallOK, Call
  <2>4. CallOK(IF self.todo \ {r} = {} THEN Idle ELSE new)
    BY <1>0, <1>12, <2>3, IdleOK DEF OnlineOffer, CallOK, OnRide, ByDriver
  <2>5. offers' \in [Rides -> SUBSET Drivers]
    BY <2>1, <2>2 DEF Typed, TypeOK
  <2> QED BY <1>12, <2>1, <2>4, <2>5 DEF OnlineOffer, Typed, TypeOK
<1> QED BY <1>1, <1>2, <1>3, <1>4, <1>5, <1>6, <1>7, <1>8, <1>9, <1>10,
           <1>11, <1>12 DEF Step

\* A request that arrives starts a typed call.
LEMMA ArriveTyped == ASSUME Typed, NEW c \in Calls, Arrive(c) PROVE Typed'
<1>0. c \in Slots /\ calls \in [Slots -> Call]
  BY DEF Slots, Typed, TypeOK
<1>1. ASSUME NEW r \in Rides, Request(c, r) PROVE Typed'
  <2> DEFINE row == [NoRow EXCEPT !.status = "requested",
                                  !.dispatched = ~bookings[r].scheduled]
             new == [Idle EXCEPT !.pc = "offer_find", !.ride = r]
  <2>1. row \in Row
    BY BookingsAssumption
       DEF NoRow, Row, Statuses, ActiveStatuses, Typed, TypeOK
  <2>2. new \in Call /\ new.pc = "offer_find" /\ new.ride = r
    BY StartedOn DEF PCs
  <2>3. CallOK(new)
    BY <2>2 DEF CallOK, ByDriver
  <2>4. CallOK(IF bookings[r].scheduled THEN Idle ELSE new)
    BY <2>3, IdleOK
  <2>5. calls' \in [Slots -> Call] /\ \A b \in Slots : CallOK(calls[b])'
    BY <1>0, <1>1, <2>4, BecomeTyped DEF Request, Typed
  <2>6. rides' \in [Rides -> Row]
    BY <1>1, <2>1 DEF Request, Typed, TypeOK
  <2> QED BY <1>1, <2>5, <2>6 DEF Request, Typed, TypeOK
<1>2. ASSUME NEW r \in Rides, DispatchRead(c, r) PROVE Typed'
  <2>1. CallOK(Continue({r}))
    BY ContinueOK
  <2>2. calls' \in [Slots -> Call] /\ \A b \in Slots : CallOK(calls[b])'
    BY <1>0, <1>2, <2>1, BecomeTyped DEF DispatchRead, Typed
  <2> QED BY <1>2, <2>2 DEF DispatchRead, Typed, TypeOK
<1>3. ASSUME NEW r \in Rides, NEW d \in Drivers, AcceptRead(c, r, d)
      PROVE  Typed'
  <2> DEFINE pc == IF bookings[r].required > 0 THEN "trust" ELSE "claim"
             new == [Idle EXCEPT !.pc = pc, !.ride = r, !.user = d]
  <2>1. pc \in PCs
    BY DEF PCs
  <2> HIDE DEF pc
  <2>2. CallOK(new)
    BY <2>1, IdleOK DEF CallOK, Call
  <2>3. Become(c, new)
    BY <1>3 DEF AcceptRead, pc
  <2>4. calls' \in [Slots -> Call] /\ \A b \in Slots : CallOK(calls[b])'
    BY <1>0, <2>2, <2>3, BecomeTyped DEF Typed
  <2> QED BY <1>3, <2>4 DEF AcceptRead, Typed, TypeOK
<1>4. ASSUME NEW r \in Rides, NEW d \in Drivers, StartRead(c, r, d)
      PROVE  Typed'
  <2>1. [rides[r] EXCEPT !.status = "in_progress"] \in Row
    BY DEF Row, Statuses, ActiveStatuses, Typed, TypeOK
  <2> QED BY <1>0, <1>4, <2>1, LoadedTyped DEF StartRead
<1>5. ASSUME NEW r \in Rides, NEW d \in Drivers, CompleteRead(c, r, d)
      PROVE  Typed'
  <2> DEFINE payment == IF bookings[r].cash THEN "paid" ELSE rides[r].payment
             entity == [rides[r] EXCEPT !.status = "completed",
                                        !.payment = payment]
  <2>1. rides[r] \in Row
    BY DEF Typed, TypeOK
  <2>2. payment \in {"pending", "paid"}
    BY <2>1 DEF Row
  <2> HIDE DEF payment
  <2>3. entity \in Row
    BY <2>1, <2>2 DEF Row, Statuses, ClosedStatuses
  <2>4. Loaded(c, r, entity, FALSE)
    BY <1>5 DEF CompleteRead, payment
  <2> QED BY <1>0, <2>3, <2>4, LoadedTyped
<1>6. ASSUME NEW r \in Rides, NEW u \in Users, CancelRead(c, r, u)
      PROVE  Typed'
  <2> DEFINE pending == /\ rides[r].status = "requested"
                        /\ rides[r].driver = NULL
                        /\ ~Withheld(r)
             entity == [rides[r] EXCEPT !.status = "cancelled"]
  <2>1. entity \in Row
    BY DEF Row, Statuses, ClosedStatuses, Typed, TypeOK
  <2>2. pending \in BOOLEAN
    OBVIOUS
  <2>3. Loaded(c, r, entity, pending)
    BY <1>6 DEF CancelRead
  <2> HIDE DEF pending, entity
  <2> QED BY <1>0, <2>1, <2>2, <2>3, LoadedTyped
<1>7. ASSUME NEW d \in Drivers, GoOnline(c, d) PROVE Typed'
  <2> DEFINE new == [Idle EXCEPT !.pc = "online_find", !.user = d]
  <2>1. CallOK(new)
    BY IdleOK DEF CallOK, Call, PCs, OnRide
  <2>2. calls' \in [Slots -> Call] /\ \A b \in Slots : CallOK(calls[b])'
    BY <1>0, <1>7, <2>1, BecomeTyped DEF GoOnline, Typed
  <2> QED BY <1>7, <2>2 DEF GoOnline, Typed, TypeOK
<1> QED BY <1>1, <1>2, <1>3, <1>4, <1>5, <1>6, <1>7 DEF Arrive

\* Every step of the service keeps the types.
LEMMA TypedStep == Typed /\ [Next]_vars => Typed'
<1> SUFFICES ASSUME Typed, [Next]_vars PROVE Typed'
  OBVIOUS
<1>1. ASSUME NEW t \in Timers, TimerTick(t) PROVE Typed'
  <2>1. PICK batch \in SUBSET Due : Become(t, Continue(batch))
    BY <1>1 DEF TimerTick
  <2>2. CallOK(Continue(batch))
    BY <2>1, ContinueOK DEF Due, Typed, TypeOK
  <2>3. calls' \in [Slots -> Call] /\ \A b \in Slots : CallOK(calls[b])'
    BY <2>1, <2>2, BecomeTyped DEF Slots, Typed, TypeOK
  <2> QED BY <1>1, <2>3 DEF TimerTick, Typed, TypeOK
<1>2. ASSUME NEW c \in Slots, Abort(c) PROVE Typed'
  <2>1. calls' \in [Slots -> Call] /\ \A b \in Slots : CallOK(calls[b])'
    BY <1>2, IdleOK, BecomeTyped DEF Abort, Typed, TypeOK
  <2> QED BY <1>2, <2>1 DEF Abort, Typed, TypeOK
<1>3. ASSUME NEW r \in Rides, ScheduleComesDue(r) PROVE Typed'
  BY <1>3 DEF ScheduleComesDue, Typed, TypeOK
<1>4. ASSUME NEW d \in Drivers, GoOffline(d) PROVE Typed'
  BY <1>4 DEF GoOffline, Typed, TypeOK
<1>5. ASSUME NEW d \in Drivers, NEW l \in TrustLevels, TrustChange(d, l)
      PROVE  Typed'
  BY <1>5 DEF TrustChange, Typed, TypeOK
<1>6. CASE UNCHANGED vars
  BY <1>6 DEF vars, Typed, TypeOK
<1> QED BY StepTyped, ArriveTyped, <1>1, <1>2, <1>3, <1>4, <1>5, <1>6 DEF Next

\* The service starts typed.
LEMMA TypedInit == Init => Typed
<1>1. NoRow \in Row
  BY DEF NoRow, Row, Statuses
<1> QED BY <1>1, IdleOK DEF Init, Typed, TypeOK, CallOK

\* In every reachable state each variable holds a value of its type, and every
\* call in flight has the ride and the driver its next step needs.
THEOREM TypeCorrect == Spec => []TypeOK
<1>1. Init => Typed
  BY TypedInit
<1>2. Typed /\ [Next]_vars => Typed'
  BY TypedStep
<1>3. Typed => TypeOK
  BY DEF Typed
<1> QED BY <1>1, <1>2, <1>3, PTL DEF Spec

(***************************************************************************)
(* The claim.  OneWinner and the others are not inductive: a stale entity   *)
(* could write anything back.  What keeps them is what such an entity may   *)
(* hold: a status past ACCEPTED, a driver only if that driver has won, and, *)
(* when the status is not among the columns to write, a row that is past    *)
(* ACCEPTED already.                                                        *)
(***************************************************************************)
PastAccepted == {"in_progress", "completed", "cancelled"}

RideSafe(r) ==
    /\ \A d, e \in winners[r] : d = e
    /\ rides[r].driver # NULL => rides[r].driver \in winners[r]
    /\ rides[r].status \in {"none", "requested"} => winners[r] = {}
    /\ rides[r].status = "accepted" => rides[r].driver # NULL
    /\ dispatches[r] <= 1
    /\ rides[r].status \in {"none", "requested"} /\ ~rides[r].dispatched =>
           dispatches[r] = 0
    /\ bookings[r].scheduled /\ rides[r].dispatched => dispatches[r] = 1
    /\ bookings[r].scheduled /\ winners[r] # {} => dispatches[r] = 1
    /\ rides[r].status = "none" => ~rides[r].dispatched

CallSafe(c) ==
    LET call == calls[c]
        r == calls[c].ride
    IN  /\ call.pc \in {"reload", "write"} =>
              /\ call.copy.status \in PastAccepted
              /\ rides[r].status # "none"
              /\ call.copy.driver # NULL => call.copy.driver \in winners[r]
              /\ bookings[r].scheduled /\ call.copy.dispatched =>
                     dispatches[r] = 1
        /\ call.pc = "write" /\ "status" \notin call.dirty =>
              rides[r].status \in PastAccepted
        /\ call.pc \in {"trust", "claim"} =>
              /\ rides[r].status # "none"
              /\ bookings[r].scheduled => dispatches[r] = 1

Safe == /\ Typed
        /\ \A r \in Rides : RideSafe(r)
        /\ \A c \in Slots : CallSafe(c)

\* What every step keeps of a ride, whatever it does to the row.
Grows ==
    \A r \in Rides : /\ winners[r] \subseteq winners'[r]
                     /\ dispatches[r] = 1 => dispatches'[r] = 1
                     /\ rides[r].status # "none" => rides'[r].status # "none"
                     /\ rides[r].status \in PastAccepted =>
                            rides'[r].status \in PastAccepted

\* A call that did not move stays safe when rows and winners only grow.
LEMMA CallStaysSafe ==
  ASSUME Typed, NEW c \in Slots, CallSafe(c), calls'[c] = calls[c],
         Grows, bookings' = bookings
  PROVE  CallSafe(c)'
<1>1. CASE calls[c].pc \in {"reload", "write", "trust", "claim"}
  <2>1. calls[c].ride \in Rides
    BY <1>1 DEF Typed, CallOK, OnRide
  <2> QED BY <2>1 DEF CallSafe, Grows
<1>2. CASE calls[c].pc \notin {"reload", "write", "trust", "claim"}
  BY <1>2 DEF CallSafe
<1> QED BY <1>1, <1>2

\* A step of call c that leaves the rows alone only has to answer for c.
LEMMA RowsUntouched ==
  ASSUME Safe, Typed', NEW c \in Slots, NEW call, Become(c, call),
         UNCHANGED <<rides, bookings, winners, dispatches>>, CallSafe(c)'
  PROVE  Safe'
<1>1. \A r \in Rides : RideSafe(r)'
  BY DEF Safe, RideSafe
<1>2. Grows
  BY DEF Grows
<1>3. ASSUME NEW b \in Slots, b # c PROVE CallSafe(b)'
  <2>1. calls'[b] = calls[b]
    BY <1>3 DEF Become, Safe, Typed, TypeOK
  <2> QED BY <1>2, <2>1, CallStaysSafe DEF Safe
<1> QED BY <1>1, <1>3 DEF Safe

\* A call that is neither about to claim nor about to save claims nothing.
LEMMA Harmless ==
  ASSUME Typed, NEW c \in Slots, NEW call, Become(c, call),
         call.pc \notin {"reload", "write", "trust", "claim"}
  PROVE  CallSafe(c)'
<1>1. calls'[c] = call
  BY DEF Become, Typed, TypeOK
<1> QED BY <1>1 DEF CallSafe

\* A tick that goes on to its next ride is such a call.
LEMMA ContinueHarmless ==
  ASSUME NEW todo
  PROVE  Continue(todo).pc \notin {"reload", "write", "trust", "claim"}
  BY DEF Continue, Idle

\* A row step must keep its own ride safe and grow it.
LEMMA RowStep ==
  ASSUME Safe, Typed', NEW c \in Slots, NEW call, Become(c, call),
         NEW r \in Rides, bookings' = bookings,
         \A s \in Rides \ {r} : /\ rides'[s] = rides[s]
                                /\ winners'[s] = winners[s]
                                /\ dispatches'[s] = dispatches[s],
         winners[r] \subseteq winners'[r],
         dispatches[r] = 1 => dispatches'[r] = 1,
         rides'[r].status # "none",
         rides[r].status \in PastAccepted => rides'[r].status \in PastAccepted,
         RideSafe(r)', CallSafe(c)'
  PROVE  Safe'
<1>1. Grows
  BY DEF Grows
<1>2. \A s \in Rides : RideSafe(s)'
  BY DEF Safe, RideSafe
<1>3. ASSUME NEW b \in Slots, b # c PROVE CallSafe(b)'
  <2>1. calls'[b] = calls[b]
    BY <1>3 DEF Become, Safe, Typed, TypeOK
  <2> QED BY <1>1, <2>1, CallStaysSafe DEF Safe
<1> QED BY <1>2, <1>3 DEF Safe

\* The next step of a call in flight keeps every ride and call safe.
LEMMA StepSafe == ASSUME Safe, Typed', NEW c \in Slots, Step(c) PROVE Safe'
<1> DEFINE self == calls[c]
           r == calls[c].ride
           Fresh == {"reload", "write", "trust", "claim"}
<1>0. Typed /\ CallOK(self) /\ calls \in [Slots -> Call] /\ CallSafe(c)
  BY DEF Safe, Typed, TypeOK
<1>13. Idle.pc \notin Fresh
  BY DEF Idle
<1>1. CASE OfferFind(c)
  <2>1. PICK found \in Candidates :
          Become(c, [self EXCEPT !.pc = "offer",
                       !.found = {d \in found : Trusted(d, self.ride)}])
    BY <1>1 DEF OfferFind
  <2> DEFINE new == [self EXCEPT !.pc = "offer",
                       !.found = {d \in found : Trusted(d, self.ride)}]
  <2>2. new.pc \notin Fresh
    BY <1>0 DEF CallOK, Call
  <2> HIDE DEF new
  <2>3. CallSafe(c)'
    BY <1>0, <2>1, <2>2, Harmless DEF new
  <2> QED BY <1>1, <2>1, <2>3, RowsUntouched DEF OfferFind, new
<1>2. CASE Offer(c)
  BY <1>0, <1>2, ContinueHarmless, Harmless, RowsUntouched DEF Offer
<1>3. CASE AcceptTrust(c)
  <2> DEFINE new == IF Trusted(self.user, r)
                    THEN [self EXCEPT !.pc = "claim"] ELSE Idle
  <2>1. Become(c, new)
    BY <1>3 DEF AcceptTrust
  <2>2. calls'[c] = new
    BY <1>0, <2>1 DEF Become
  <2>3. UNCHANGED <<rides, bookings, winners, dispatches>>
    BY <1>3 DEF AcceptTrust
  <2>4. CallSafe(c)'
    <3>1. CASE new = Idle
      BY <1>13, <2>2, <3>1 DEF CallSafe
    <3>2. CASE new = [self EXCEPT !.pc = "claim"]
      <4>1. new.pc = "claim" /\ new.ride = r
        BY <1>0, <3>2 DEF CallOK, Call
      <4>2. self.pc = "trust"
        BY <1>3 DEF AcceptTrust, At
      <4> HIDE DEF new
      <4> QED BY <1>0, <2>2, <2>3, <4>1, <4>2 DEF CallSafe
    <3> QED BY <3>1, <3>2
  <2> QED BY <2>1, <2>3, <2>4, RowsUntouched
<1>4. CASE AcceptReserve(c)
  <2>1. [self EXCEPT !.pc = "withdraw_find"].pc \notin Fresh
    BY <1>0 DEF CallOK, Call
  <2> QED BY <1>0, <1>4, <2>1, Harmless, RowsUntouched DEF AcceptReserve
<1>5. CASE WithdrawFind(c)
  <2>1. PICK found \in Candidates :
          Become(c, [self EXCEPT !.pc = "withdraw",
                                 !.found = found \ {self.user}])
    BY <1>5 DEF WithdrawFind
  <2> DEFINE new == [self EXCEPT !.pc = "withdraw",
                                 !.found = found \ {self.user}]
  <2>2. new.pc \notin Fresh
    BY <1>0 DEF CallOK, Call
  <2> HIDE DEF new
  <2>3. CallSafe(c)'
    BY <1>0, <2>1, <2>2, Harmless DEF new
  <2> QED BY <1>5, <2>1, <2>3, RowsUntouched DEF WithdrawFind, new
<1>6. CASE Withdraw(c)
  BY <1>0, <1>13, <1>6, Harmless, RowsUntouched DEF Withdraw
<1>7. CASE OnlineFind(c)
  <2>1. PICK near \in SUBSET Rides :
          Become(c, IF near = {} THEN Idle
                    ELSE [self EXCEPT !.pc = "online", !.todo = near])
    BY <1>7 DEF OnlineFind
  <2> DEFINE new == IF near = {} THEN Idle
                    ELSE [self EXCEPT !.pc = "online", !.todo = near]
  <2>2. new.pc \notin Fresh
    BY <1>0, <1>13 DEF CallOK, Call
  <2> HIDE DEF new
  <2>3. CallSafe(c)'
    BY <1>0, <2>1, <2>2, Harmless DEF new
  <2> QED BY <1>7, <2>1, <2>3, RowsUntouched DEF OnlineFind, new
<1>8. CASE OnlineOffer(c)
  <2>1. PICK s \in self.todo :
          Become(c, IF self.todo \ {s} = {} THEN Idle
                    ELSE [self EXCEPT !.todo = self.todo \ {s}])
    BY <1>8 DEF OnlineOffer
  <2> DEFINE new == IF self.todo \ {s} = {} THEN Idle
                    ELSE [self EXCEPT !.todo = self.todo \ {s}]
  <2>2. new.pc \notin Fresh
    BY <1>0, <1>13, <1>8 DEF CallOK, Call, OnlineOffer, At
  <2> HIDE DEF new
  <2>3. CallSafe(c)'
    BY <1>0, <2>1, <2>2, Harmless DEF new
  <2> QED BY <1>8, <2>1, <2>3, RowsUntouched DEF OnlineOffer, new
<1>9. CASE SaveReload(c)
  <2> DEFINE dirty == DirtyColumns(self.copy, rides[r])
             new == [self EXCEPT !.pc = "write", !.dirty = dirty]
  <2>1. Become(c, new) /\ UNCHANGED <<rides, bookings, winners, dispatches>>
    BY <1>9 DEF SaveReload
  <2>2. r \in Rides /\ self.pc = "reload" /\ self.copy \in Row
    BY <1>0, <1>9 DEF SaveReload, At, CallOK, OnRide, Call
  <2>3. "status" \notin dirty => rides[r].status = self.copy.status
    BY <2>2 DEF DirtyColumns, Row, Typed, TypeOK, Safe
  <2> HIDE DEF dirty
  <2>4. /\ calls'[c].pc = "write" /\ calls'[c].ride = r
        /\ calls'[c].copy = self.copy /\ calls'[c].dirty = dirty
    BY <1>0, <2>1 DEF Become, CallOK, Call
  <2>5. CallSafe(c)'
    BY <1>0, <2>1, <2>2, <2>3, <2>4 DEF CallSafe
  <2> QED BY <2>1, <2>5, RowsUntouched
<1>10. CASE DispatchClaim(c)
  <2>0. PICK s \in self.todo :
          IF rides[s].status = "requested" /\ ~rides[s].dispatched
          THEN /\ rides' = [rides EXCEPT ![s].dispatched = TRUE]
               /\ dispatches' = [dispatches EXCEPT ![s] = @ + 1]
               /\ Become(c, [Idle EXCEPT !.pc = "offer_find", !.ride = s,
                                         !.todo = self.todo \ {s}])
          ELSE /\ Become(c, Continue(self.todo \ {s}))
               /\ UNCHANGED <<rides, dispatches>>
    BY <1>10 DEF DispatchClaim
  <2>1. UNCHANGED <<bookings, winners>>
    BY <1>10 DEF DispatchClaim
  <2>2. CASE ~(rides[s].status = "requested" /\ ~rides[s].dispatched)
    <3>1. Become(c, Continue(self.todo \ {s}))
          /\ UNCHANGED <<rides, dispatches>>
      BY <2>0, <2>2
    <3> QED BY <1>0, <2>1, <3>1, ContinueHarmless, Harmless, RowsUntouched
  <2>3. CASE rides[s].status = "requested" /\ ~rides[s].dispatched
    <3> DEFINE new == [Idle EXCEPT !.pc = "offer_find", !.ride = s,
                                   !.todo = self.todo \ {s}]
    <3>1. /\ rides' = [rides EXCEPT ![s].dispatched = TRUE]
          /\ dispatches' = [dispatches EXCEPT ![s] = @ + 1]
          /\ Become(c, new)
      BY <2>0, <2>3
    <3>2. s \in Rides
      BY <1>0 DEF CallOK, Call
    <3>3. new.pc \notin Fresh
      BY IdleOK DEF CallOK, Call
    <3>4. CallSafe(c)'
      <4> HIDE DEF new
      <4> QED BY <1>0, <3>1, <3>3, Harmless
    <3>5. /\ rides'[s].status = rides[s].status
          /\ rides'[s].driver = rides[s].driver
          /\ rides'[s].dispatched = TRUE
          /\ \A q \in Rides \ {s} : rides'[q] = rides[q]
      BY <3>1, <3>2 DEF Safe, Typed, TypeOK, Row
    <3>6. /\ dispatches[s] = 0 /\ dispatches'[s] = 1
          /\ \A q \in Rides \ {s} : dispatches'[q] = dispatches[q]
      BY <2>3, <3>1, <3>2 DEF Safe, Typed, TypeOK, RideSafe
    <3>7. RideSafe(s)'
      BY <2>1, <2>3, <3>2, <3>5, <3>6 DEF Safe, RideSafe
    <3> HIDE DEF new
    <3> QED BY <2>1, <2>3, <3>1, <3>2, <3>4, <3>5, <3>6, <3>7, RowStep
           DEF PastAccepted
  <2> QED BY <2>2, <2>3
<1>11. CASE AcceptClaim(c)
  <2>1. self.pc = "claim" /\ r \in Rides /\ self.user \in Drivers
    BY <1>0, <1>11 DEF AcceptClaim, At, CallOK, OnRide, ByDriver
  <2>2. UNCHANGED <<bookings, dispatches>>
    BY <1>11 DEF AcceptClaim
  <2>3. CASE ~(rides[r].status = "requested" /\ rides[r].driver = NULL)
    <3>1. Become(c, Idle) /\ UNCHANGED <<rides, winners>>
      BY <1>11, <2>3 DEF AcceptClaim
    <3> QED BY <1>0, <1>13, <2>2, <3>1, Harmless, RowsUntouched
  <2>4. CASE rides[r].status = "requested" /\ rides[r].driver = NULL
    <3> DEFINE new == [self EXCEPT !.pc = "reserve"]
    <3>1. /\ rides' = [rides EXCEPT ![r].status = "accepted",
                                    ![r].driver = self.user]
          /\ winners' = [winners EXCEPT ![r] = @ \cup {self.user}]
          /\ Become(c, new)
      BY <1>11, <2>4 DEF AcceptClaim
    <3>2. new.pc \notin Fresh
      BY <1>0 DEF CallOK, Call
    <3>3. CallSafe(c)'
      <4> HIDE DEF new
      <4> QED BY <1>0, <3>1, <3>2, Harmless
    <3>4. /\ rides'[r].status = "accepted"
          /\ rides'[r].driver = self.user
          /\ rides'[r].dispatched = rides[r].dispatched
          /\ \A q \in Rides \ {r} : rides'[q] = rides[q]
      BY <2>1, <3>1 DEF Safe, Typed, TypeOK, Row
    <3>5. /\ winners'[r] = {self.user}
          /\ winners[r] = {}
          /\ \A q \in Rides \ {r} : winners'[q] = winners[q]
      BY <2>1, <2>4, <3>1 DEF Safe, Typed, TypeOK, RideSafe
    <3>6. self.user # NULL
      BY <2>1, NullAssumption
    <3>7. bookings[r].scheduled => dispatches[r] = 1
      BY <1>0, <2>1 DEF CallSafe
    <3>8. PICK q \in Rides : q = r
      BY <2>1
    <3>9. RideSafe(q)'
      BY <2>2, <3>4, <3>5, <3>6, <3>7, <3>8 DEF Safe, RideSafe
    <3> HIDE DEF new
    <3> QED BY <2>2, <2>4, <3>1, <3>3, <3>4, <3>5, <3>8, <3>9, RowStep
           DEF PastAccepted
  <2> QED BY <2>3, <2>4
<1>12. CASE SaveWrite(c)
  <2>1. /\ self.pc = "write" /\ r \in Rides /\ self.copy \in Row
        /\ rides[r] \in Row
    BY <1>0, <1>12 DEF SaveWrite, At, CallOK, OnRide, Call, Typed, TypeOK
  <2> DEFINE new == IF self.wasPending
                    THEN [Idle EXCEPT !.pc = "withdraw_find", !.ride = r]
                    ELSE Idle
  <2>2. /\ UNCHANGED <<bookings, winners, dispatches>>
        /\ Become(c, new)
        /\ rides' = [rides EXCEPT ![r] = SavedRow(@, self.copy, self.dirty)]
    BY <1>12 DEF SaveWrite
  <2>3. new.pc \notin Fresh
    BY <1>13, IdleOK DEF CallOK, Call
  <2>4. CallSafe(c)'
    <3> HIDE DEF new
    <3> QED BY <1>0, <2>2, <2>3, Harmless
  <2>5. /\ rides'[r].status = IF "status" \in self.dirty
                              THEN self.copy.status ELSE rides[r].status
        /\ rides'[r].driver \in {self.copy.driver, rides[r].driver}
        /\ rides'[r].dispatched \in {self.copy.dispatched, rides[r].dispatched}
        /\ \A q \in Rides \ {r} : rides'[q] = rides[q]
    BY <2>1, <2>2 DEF SavedRow, Row, Safe, Typed, TypeOK
  <2>6. rides'[r].status \in PastAccepted
    BY <1>0, <2>1, <2>5 DEF CallSafe
  <2>7. /\ self.copy.driver # NULL => self.copy.driver \in winners[r]
        /\ bookings[r].scheduled /\ self.copy.dispatched => dispatches[r] = 1
    BY <1>0, <2>1 DEF CallSafe
  <2>8. PICK q \in Rides : q = r
    BY <2>1
  <2>9. RideSafe(q)'
    BY <2>2, <2>5, <2>6, <2>7, <2>8 DEF Safe, RideSafe, PastAccepted
  <2> HIDE DEF new
  <2> QED BY <2>2, <2>4, <2>5, <2>6, <2>8, <2>9, RowStep DEF PastAccepted
<1> QED BY <1>1, <1>2, <1>3, <1>4, <1>5, <1>6, <1>7, <1>8, <1>9, <1>10,
           <1>11, <1>12 DEF Step

\* A request that arrives keeps every ride and call safe.
LEMMA ArriveSafe == ASSUME Safe, Typed', NEW c \in Calls, Arrive(c) PROVE Safe'
<1> DEFINE Fresh == {"reload", "write", "trust", "claim"}
<1>0. Typed /\ c \in Slots /\ calls \in [Slots -> Call]
  BY DEF Safe, Slots, Typed, TypeOK
<1>9. Idle.pc \notin Fresh
  BY DEF Idle
<1>1. ASSUME NEW r \in Rides, Request(c, r) PROVE Safe'
  <2> DEFINE new == IF bookings[r].scheduled THEN Idle
                    ELSE [Idle EXCEPT !.pc = "offer_find", !.ride = r]
  <2>1. /\ rides[r].status = "none" /\ UNCHANGED <<bookings, winners, dispatches>>
        /\ Become(c, new)
    BY <1>1 DEF Request
  <2>2. new.pc \notin Fresh
    BY <1>9, IdleOK DEF CallOK, Call
  <2>3. CallSafe(c)'
    <3> HIDE DEF new
    <3> QED BY <1>0, <2>1, <2>2, Harmless
  <2>4. /\ rides'[r].status = "requested" /\ rides'[r].driver = NULL
        /\ rides'[r].dispatched = ~bookings[r].scheduled
        /\ \A q \in Rides \ {r} : rides'[q] = rides[q]
    BY <1>0, <1>1 DEF Request, NoRow, Typed, TypeOK
  <2>5. RideSafe(r)'
    BY <2>1, <2>4 DEF Safe, RideSafe
  <2> HIDE DEF new
  <2> QED BY <1>0, <2>1, <2>3, <2>4, <2>5, RowStep DEF PastAccepted
<1>2. ASSUME NEW r \in Rides, DispatchRead(c, r) PROVE Safe'
  BY <1>0, <1>2, ContinueHarmless, Harmless, RowsUntouched DEF DispatchRead
<1>3. ASSUME NEW r \in Rides, NEW d \in Drivers, AcceptRead(c, r, d)
      PROVE  Safe'
  <2> DEFINE pc == IF bookings[r].required > 0 THEN "trust" ELSE "claim"
             new == [Idle EXCEPT !.pc = pc, !.ride = r, !.user = d]
  <2>1. Become(c, new) /\ UNCHANGED <<rides, bookings, winners, dispatches>>
    BY <1>3 DEF AcceptRead
  <2>2. pc \in {"trust", "claim"}
    OBVIOUS
  <2> HIDE DEF pc
  <2>3. calls'[c].pc \in {"trust", "claim"} /\ calls'[c].ride = r
    BY <1>0, <2>1, <2>2, IdleOK DEF Become, CallOK, Call
  <2>4. rides[r].status # "none" /\ ~Withheld(r)
    BY <1>3 DEF AcceptRead
  <2>5. bookings[r].scheduled => dispatches[r] = 1
    BY <2>4 DEF Withheld, Safe, RideSafe
  <2>6. CallSafe(c)'
    BY <2>1, <2>3, <2>4, <2>5 DEF CallSafe
  <2> HIDE DEF new
  <2> QED BY <1>0, <2>1, <2>6, RowsUntouched
<1>4. ASSUME NEW r \in Rides, NEW entity \in Row, NEW w \in BOOLEAN,
             Loaded(c, r, entity, w), rides[r].status # "none",
             entity.status \in PastAccepted,
             entity.driver = rides[r].driver,
             entity.dispatched = rides[r].dispatched
      PROVE  Safe'
  <2> DEFINE new == [Idle EXCEPT !.pc = "reload", !.ride = r, !.copy = entity,
                                 !.wasPending = w]
  <2>1. Become(c, new) /\ UNCHANGED <<rides, bookings, winners, dispatches>>
    BY <1>4 DEF Loaded
  <2>2. /\ calls'[c].pc = "reload" /\ calls'[c].ride = r
        /\ calls'[c].copy = entity
    BY <1>0, <2>1, IdleOK DEF Become, CallOK, Call
  <2>3. CallSafe(c)'
    BY <1>4, <2>1, <2>2 DEF CallSafe, Safe, RideSafe
  <2> HIDE DEF new
  <2> QED BY <1>0, <2>1, <2>3, RowsUntouched
<1>5. ASSUME NEW r \in Rides, NEW d \in Drivers, StartRead(c, r, d)
      PROVE  Safe'
  <2> DEFINE entity == [rides[r] EXCEPT !.status = "in_progress"]
  <2>1. /\ entity \in Row /\ entity.status \in PastAccepted
        /\ entity.driver = rides[r].driver
        /\ entity.dispatched = rides[r].dispatched
    <3>1. rides[r] \in Row
      BY <1>0 DEF Typed, TypeOK
    <3> QED BY <3>1 DEF Row, Statuses, ActiveStatuses, PastAccepted
  <2>2. Loaded(c, r, entity, FALSE) /\ rides[r].status # "none"
    BY <1>5 DEF StartRead
  <2> HIDE DEF entity
  <2> QED BY <1>4, <2>1, <2>2
<1>6. ASSUME NEW r \in Rides, NEW d \in Drivers, CompleteRead(c, r, d)
      PROVE  Safe'
  <2> DEFINE payment == IF bookings[r].cash THEN "paid" ELSE rides[r].payment
             entity == [rides[r] EXCEPT !.status = "completed",
                                        !.payment = payment]
  <2>1. rides[r] \in Row
    BY <1>0 DEF Typed, TypeOK
  <2>2. payment \in {"pending", "paid"}
    BY <2>1 DEF Row
  <2> HIDE DEF payment
  <2>3. /\ entity \in Row /\ entity.status \in PastAccepted
        /\ entity.driver = rides[r].driver
        /\ entity.dispatched = rides[r].dispatched
    BY <2>1, <2>2 DEF Row, Statuses, ClosedStatuses, PastAccepted
  <2>4. Loaded(c, r, entity, FALSE) /\ rides[r].status # "none"
    BY <1>6 DEF CompleteRead, payment
  <2> HIDE DEF entity
  <2> QED BY <1>4, <2>3, <2>4
<1>7. ASSUME NEW r \in Rides, NEW u \in Users, CancelRead(c, r, u)
      PROVE  Safe'
  <2> DEFINE entity == [rides[r] EXCEPT !.status = "cancelled"]
             pending == /\ rides[r].status = "requested"
                        /\ rides[r].driver = NULL
                        /\ ~Withheld(r)
  <2>1. /\ entity \in Row /\ entity.status \in PastAccepted
        /\ entity.driver = rides[r].driver
        /\ entity.dispatched = rides[r].dispatched
    <3>1. rides[r] \in Row
      BY <1>0 DEF Typed, TypeOK
    <3> QED BY <3>1 DEF Row, Statuses, ClosedStatuses, PastAccepted
  <2>2. Loaded(c, r, entity, pending) /\ rides[r].status # "none"
    BY <1>7 DEF CancelRead, ActiveStatuses
  <2>3. pending \in BOOLEAN
    OBVIOUS
  <2> HIDE DEF entity, pending
  <2> QED BY <1>4, <2>1, <2>2, <2>3
<1>8. ASSUME NEW d \in Drivers, GoOnline(c, d) PROVE Safe'
  <2> DEFINE new == [Idle EXCEPT !.pc = "online_find", !.user = d]
  <2>1. new.pc \notin Fresh
    BY IdleOK DEF CallOK, Call
  <2>2. Become(c, new) /\ UNCHANGED <<rides, bookings, winners, dispatches>>
    BY <1>8 DEF GoOnline
  <2> HIDE DEF new
  <2> QED BY <1>0, <2>1, <2>2, Harmless, RowsUntouched
<1> QED BY <1>1, <1>2, <1>3, <1>5, <1>6, <1>7, <1>8 DEF Arrive

\* Every step of the service keeps the claim safe.
LEMMA SafeStep == Safe /\ [Next]_vars => Safe'
<1> SUFFICES ASSUME Safe, [Next]_vars PROVE Safe'
  OBVIOUS
<1>0. Typed'
  BY TypedStep DEF Safe
<1>1. ASSUME NEW t \in Timers, TimerTick(t) PROVE Safe'
  <2>1. PICK batch \in SUBSET Due : Become(t, Continue(batch))
    BY <1>1 DEF TimerTick
  <2> QED BY <1>0, <1>1, <2>1, ContinueHarmless, Harmless, RowsUntouched
          DEF TimerTick, Slots, Safe
<1>2. ASSUME NEW c \in Slots, Abort(c) PROVE Safe'
  <2>1. Idle.pc \notin {"reload", "write", "trust", "claim"}
    BY DEF Idle
  <2> QED BY <1>0, <1>2, <2>1, Harmless, RowsUntouched DEF Abort, Safe
<1>3. ASSUME UNCHANGED <<rides, bookings, calls, winners, dispatches>>
      PROVE  Safe'
  BY <1>0, <1>3 DEF Safe, RideSafe, CallSafe
<1>4. ASSUME NEW r \in Rides, ScheduleComesDue(r) PROVE Safe'
  BY <1>3, <1>4 DEF ScheduleComesDue
<1>5. ASSUME NEW d \in Drivers, GoOffline(d) PROVE Safe'
  BY <1>3, <1>5 DEF GoOffline
<1>6. ASSUME NEW d \in Drivers, NEW l \in TrustLevels, TrustChange(d, l)
      PROVE  Safe'
  BY <1>3, <1>6 DEF TrustChange
<1>7. CASE UNCHANGED vars
  BY <1>3, <1>7 DEF vars
<1> QED BY <1>0, StepSafe, ArriveSafe, <1>1, <1>2, <1>4, <1>5, <1>6, <1>7
        DEF Next

\* No ride is published and no call in flight at the start.
LEMMA SafeInit == Init => Safe
  BY TypedInit DEF Init, Safe, RideSafe, CallSafe, NoRow, Idle, PastAccepted

\* The inductive invariant of the claim holds throughout.
LEMMA SafeAlways == Spec => []Safe
  BY SafeInit, SafeStep, PTL DEF Spec

\* However many drivers accept at once and whatever stale entities are saved,
\* one driver at most is told the ride is theirs and the row names no other.
THEOREM ClaimIsExclusive == Spec => []OneWinner
<1>1. Safe => OneWinner
  BY DEF Safe, RideSafe, OneWinner
<1> QED BY <1>1, SafeAlways, PTL

\* An accepted ride always names its driver.
THEOREM AcceptedIsAssigned == Spec => []AcceptedHasDriver
<1>1. Safe => AcceptedHasDriver
  BY DEF Safe, RideSafe, AcceptedHasDriver
<1> QED BY <1>1, SafeAlways, PTL

\* A planned delivery is broadcast at most once, and never carried unless it was.
THEOREM DispatchIsOnce == Spec => [](DispatchedAtMostOnce /\ ClaimedAfterDispatch)
<1>1. Safe => DispatchedAtMostOnce /\ ClaimedAfterDispatch
  BY DEF Safe, RideSafe, DispatchedAtMostOnce, ClaimedAfterDispatch
<1> QED BY <1>1, SafeAlways, PTL

(***************************************************************************)
(* What a step does to the rows, and so what it does to who holds a ride.   *)
(***************************************************************************)
Published(r) ==
    /\ rides[r].status = "none" /\ rides'[r].status = "requested"
    /\ winners' = winners

Won(r) ==
    /\ rides[r].status = "requested" /\ rides'[r].status = "accepted"
    /\ \E d \in Drivers : winners' = [winners EXCEPT ![r] = {d}]

Finished(r) ==
    /\ rides[r].status # "none" /\ rides'[r].status \in PastAccepted
    /\ winners' = winners

SameStatus ==
    /\ \A r \in Rides : rides'[r].status = rides[r].status
    /\ winners' = winners

\* A step publishes, gives away or finishes one ride, or leaves all as they were.
LEMMA RowSteps ==
  ASSUME Safe, [Next]_vars
  PROVE  \/ SameStatus
         \/ \E r \in Rides :
               /\ Published(r) \/ Won(r) \/ Finished(r)
               /\ \A s \in Rides \ {r} : rides'[s] = rides[s]
<1> DEFINE Others(r) == \A s \in Rides \ {r} : rides'[s] = rides[s]
<1>0. rides \in [Rides -> Row] /\ \A c \in Slots : CallOK(calls[c])
  BY DEF Safe, Typed, TypeOK
<1>1. ASSUME UNCHANGED <<rides, winners>> PROVE SameStatus
  BY <1>1 DEF SameStatus
<1>2. ASSUME NEW r \in Rides, NEW c \in Calls, Request(c, r)
      PROVE  Published(r) /\ Others(r)
  BY <1>0, <1>2 DEF Request, Published, NoRow
<1>3. ASSUME NEW c \in Slots, DispatchClaim(c) PROVE SameStatus
  <2>1. winners' = winners
    BY <1>3 DEF DispatchClaim
  <2>2. PICK s \in calls[c].todo :
          rides' = [rides EXCEPT ![s].dispatched = TRUE] \/ rides' = rides
    BY <1>3 DEF DispatchClaim
  <2>3. \A r \in Rides : rides'[r].status = rides[r].status
    BY <1>0, <2>2 DEF Row
  <2> QED BY <2>1, <2>3 DEF SameStatus
<1>4. ASSUME NEW c \in Slots, AcceptClaim(c)
      PROVE  \/ SameStatus
             \/ \E r \in Rides : Won(r) /\ Others(r)
  <2> DEFINE r == calls[c].ride
             d == calls[c].user
  <2>1. r \in Rides /\ d \in Drivers
    BY <1>0, <1>4 DEF AcceptClaim, At, CallOK, OnRide, ByDriver
  <2>2. CASE ~(rides[r].status = "requested" /\ rides[r].driver = NULL)
    BY <1>1, <1>4, <2>2 DEF AcceptClaim
  <2>3. CASE rides[r].status = "requested" /\ rides[r].driver = NULL
    <3>1. /\ rides' = [rides EXCEPT ![r].status = "accepted", ![r].driver = d]
          /\ winners' = [winners EXCEPT ![r] = @ \cup {d}]
      BY <1>4, <2>3 DEF AcceptClaim
    <3>2. rides'[r].status = "accepted" /\ Others(r)
      BY <1>0, <2>1, <3>1 DEF Row
    <3>3. winners' = [winners EXCEPT ![r] = {d}]
      <4>1. winners[r] = {}
        BY <2>1, <2>3 DEF Safe, RideSafe
      <4>2. winners[r] \cup {d} = {d}
        BY <4>1
      <4> QED BY <3>1, <4>2
    <3>4. PICK q \in Rides : q = r
      BY <2>1
    <3>5. Won(q) /\ Others(q)
      BY <2>1, <2>3, <3>2, <3>3, <3>4 DEF Won
    <3> QED BY <3>5
  <2> QED BY <2>2, <2>3
<1>5. ASSUME NEW c \in Slots, SaveWrite(c)
      PROVE  \E r \in Rides : Finished(r) /\ Others(r)
  <2>1. PICK r \in Rides : r = calls[c].ride
    BY <1>0, <1>5 DEF SaveWrite, At, CallOK, OnRide
  <2>2. calls[c].copy \in Row /\ calls[c].pc = "write"
    BY <1>0, <1>5 DEF SaveWrite, At, CallOK, Call
  <2>3. /\ rides'[r].status = IF "status" \in calls[c].dirty
                              THEN calls[c].copy.status ELSE rides[r].status
        /\ Others(r)
    BY <1>0, <1>5, <2>1, <2>2 DEF SaveWrite, SavedRow, Row
  <2>4. rides'[r].status \in PastAccepted /\ rides[r].status # "none"
    BY <2>1, <2>2, <2>3 DEF Safe, CallSafe
  <2> QED BY <1>5, <2>3, <2>4 DEF SaveWrite, Finished
<1>6. ASSUME NEW c \in Slots, Step(c), ~DispatchClaim(c), ~AcceptClaim(c),
             ~SaveWrite(c)
      PROVE  SameStatus
  BY <1>1, <1>6 DEF Step, OfferFind, Offer, AcceptTrust, AcceptReserve,
       WithdrawFind, Withdraw, SaveReload, OnlineFind, OnlineOffer
<1>7. ASSUME NEW c \in Calls, Arrive(c), \A r \in Rides : ~Request(c, r)
      PROVE  SameStatus
  BY <1>1, <1>7 DEF Arrive, DispatchRead, AcceptRead, StartRead, CompleteRead,
       CancelRead, Loaded, GoOnline
<1>8. CASE \/ \E t \in Timers : TimerTick(t)
           \/ \E c \in Slots : Abort(c)
           \/ \E r \in Rides : ScheduleComesDue(r)
           \/ \E d \in Drivers : GoOffline(d)
           \/ \E d \in Drivers, l \in TrustLevels : TrustChange(d, l)
           \/ UNCHANGED vars
  BY <1>1, <1>8 DEF TimerTick, Abort, ScheduleComesDue, GoOffline,
       TrustChange, vars
<1> QED BY <1>2, <1>3, <1>4, <1>5, <1>6, <1>7, <1>8 DEF Next

\* A ride that left REQUESTED never returns to it.
THEOREM ClaimedForGood == Spec => NeverPendingAgain
<1>1. Safe /\ [Next]_vars =>
        [\A r \in Rides : rides[r].status \notin {"none", "requested"} =>
                          rides'[r].status \notin {"none", "requested"}]_vars
  BY RowSteps DEF SameStatus, Published, Won, Finished, PastAccepted
<1> QED BY <1>1, SafeAlways, PTL DEF Spec, NeverPendingAgain

\* The handlers implement the abstract claim: each of their steps publishes a
\* ride, lets one driver claim it, withdraws it, or changes nothing of it.
THEOREM Implements == Spec => ImplementsClaim
<1>1. Init => Abstract!Init
  BY DEF Init, Abstract!Init, Phase, Holder, TheWinner, NoRow
<1>2. ASSUME Safe, [Next]_vars
      PROVE  [Abstract!Next]_<<Phase, Holder>>
  <2>0. winners \in [Rides -> SUBSET Drivers]
    BY <1>2 DEF Safe, Typed, TypeOK
  <2>1. CASE SameStatus
    BY <2>1 DEF SameStatus, Phase, Holder
  <2>2. ASSUME NEW r \in Rides, \A s \in Rides \ {r} : rides'[s] = rides[s],
               Published(r)
        PROVE  Abstract!Publish(r)
    <3>1. Phase' = [Phase EXCEPT ![r] = "open"]
      BY <2>2 DEF Phase, Published
    <3> QED BY <2>2, <3>1 DEF Published, Abstract!Publish, Phase, Holder
  <2>3. ASSUME NEW r \in Rides, \A s \in Rides \ {r} : rides'[s] = rides[s],
               Won(r)
        PROVE  \E d \in Drivers : Abstract!Claim(r, d)
    <3>1. PICK d \in Drivers : winners' = [winners EXCEPT ![r] = {d}]
      BY <2>3 DEF Won
    <3>2. Phase' = [Phase EXCEPT ![r] = "settled"]
      BY <2>3 DEF Phase, Won
    <3>3. Holder' = [Holder EXCEPT ![r] = d]
      <4>1. winners'[r] = {d} /\ \A s \in Rides \ {r} : winners'[s] = winners[s]
        BY <2>0, <3>1
      <4>2. TheWinner({d}) = d
        BY DEF TheWinner
      <4> QED BY <4>1, <4>2 DEF Holder
    <3> QED BY <2>3, <3>2, <3>3 DEF Won, Abstract!Claim, Phase
  <2>4. ASSUME NEW r \in Rides, \A s \in Rides \ {r} : rides'[s] = rides[s],
               Finished(r)
        PROVE  Abstract!WithdrawRide(r) \/ UNCHANGED <<Phase, Holder>>
    <3>1. Holder' = Holder
      BY <2>4 DEF Finished, Holder
    <3>2. Phase' = [Phase EXCEPT ![r] = "settled"]
      BY <2>4 DEF Phase, Finished, PastAccepted
    <3>3. CASE rides[r].status = "requested"
      BY <3>1, <3>2, <3>3 DEF Abstract!WithdrawRide, Phase
    <3>4. CASE rides[r].status # "requested"
      <4>1. Phase[r] = "settled"
        BY <2>4, <3>4 DEF Phase, Finished
      <4> QED BY <3>1, <3>2, <4>1 DEF Phase
    <3> QED BY <3>3, <3>4
  <2> QED BY <1>2, <2>1, <2>2, <2>3, <2>4, RowSteps DEF Abstract!Next
<1> QED BY <1>1, <1>2, SafeAlways, PTL DEF Spec, ImplementsClaim, Abstract!Spec

(***************************************************************************)
(* Trust, while no driver's level moves.  The gate of accept() and the      *)
(* filters on the way to a screen are steps earlier than their effect, so   *)
(* the invariant is about the calls in between.                             *)
(***************************************************************************)
Eligible ==
    /\ \A r \in Rides : \A d \in offers[r] : Trusted(d, r)
    /\ \A c \in Slots :
          /\ calls[c].pc = "offer" =>
                 \A d \in calls[c].found : Trusted(d, calls[c].ride)
          /\ calls[c].pc = "claim" => Trusted(calls[c].user, calls[c].ride)

\* With trust levels fixed, every step keeps offers and calls eligible.
LEMMA EligibleStep ==
  ASSUME ~TrustMoves, Typed, Eligible, [Next]_vars
  PROVE  Eligible'
<1> DEFINE Gated == {"offer", "claim"}
<1>0. UNCHANGED <<level, bookings>>
  BY DEF Next, Step, OfferFind, Offer, DispatchClaim, AcceptTrust, AcceptClaim,
       AcceptReserve, WithdrawFind, Withdraw, SaveReload, SaveWrite,
       OnlineFind, OnlineOffer, Arrive, Request, DispatchRead, AcceptRead,
       StartRead, CompleteRead, CancelRead, Loaded, GoOnline, TimerTick, Abort,
       ScheduleComesDue, GoOffline, TrustChange, vars
<1>1. \A d, r : Trusted(d, r)' = Trusted(d, r)
  BY <1>0 DEF Trusted
<1>2. calls \in [Slots -> Call] /\ offers \in [Rides -> SUBSET Drivers]
      /\ \A c \in Slots : CallOK(calls[c])
  BY DEF Typed, TypeOK
\* A step of call c that adds nothing to a screen.
<1>3. ASSUME NEW c \in Slots, NEW call, Become(c, call),
             \A r \in Rides : offers'[r] \subseteq offers[r],
             call.pc \notin Gated
      PROVE  Eligible'
  <2>1. calls'[c] = call /\ \A b \in Slots \ {c} : calls'[b] = calls[b]
    BY <1>2, <1>3 DEF Become
  <2> QED BY <1>1, <1>3, <2>1 DEF Eligible
<1>4. Idle.pc \notin Gated /\ \A todo : Continue(todo).pc \notin Gated
  BY DEF Idle, Continue
<1>5. ASSUME NEW c \in Slots, OfferFind(c) PROVE Eligible'
  <2>1. PICK found \in Candidates :
          Become(c, [calls[c] EXCEPT !.pc = "offer",
                       !.found = {d \in found : Trusted(d, calls[c].ride)}])
    BY <1>5 DEF OfferFind
  <2> DEFINE kept == {d \in found : Trusted(d, calls[c].ride)}
             new == [calls[c] EXCEPT !.pc = "offer", !.found = kept]
  <2>2. \A d \in kept : Trusted(d, calls[c].ride)
    OBVIOUS
  <2>3. new.pc = "offer" /\ new.found = kept /\ new.ride = calls[c].ride
    <3> HIDE DEF kept
    <3> QED BY <1>2 DEF Call
  <2>4. calls'[c] = new /\ \A b \in Slots \ {c} : calls'[b] = calls[b]
    BY <1>2, <2>1 DEF Become
  <2> HIDE DEF kept, new
  <2> QED BY <1>1, <1>5, <2>2, <2>3, <2>4 DEF OfferFind, Eligible
<1>6. ASSUME NEW c \in Slots, Offer(c) PROVE Eligible'
  <2>1. /\ offers' = [offers EXCEPT ![calls[c].ride] = @ \cup calls[c].found]
        /\ Become(c, Continue(calls[c].todo)) /\ calls[c].pc = "offer"
    BY <1>6 DEF Offer, At
  <2>2. /\ calls'[c] = Continue(calls[c].todo)
        /\ \A b \in Slots \ {c} : calls'[b] = calls[b]
    BY <1>2, <2>1 DEF Become
  <2>3. \A r \in Rides : \A d \in offers'[r] : Trusted(d, r)
    BY <1>2, <2>1 DEF Eligible
  <2> QED BY <1>1, <1>4, <2>2, <2>3 DEF Eligible
<1>7. ASSUME NEW c \in Slots, AcceptTrust(c) PROVE Eligible'
  <2> DEFINE new == [calls[c] EXCEPT !.pc = "claim"]
  <2>1. CASE Trusted(calls[c].user, calls[c].ride)
    <3>1. Become(c, new) /\ offers' = offers
      BY <1>7, <2>1 DEF AcceptTrust
    <3>2. new.pc = "claim" /\ new.user = calls[c].user
          /\ new.ride = calls[c].ride
      BY <1>2 DEF Call
    <3>3. calls'[c] = new /\ \A b \in Slots \ {c} : calls'[b] = calls[b]
      BY <1>2, <3>1 DEF Become
    <3> HIDE DEF new
    <3> QED BY <1>1, <2>1, <3>1, <3>2, <3>3 DEF Eligible
  <2>2. CASE ~Trusted(calls[c].user, calls[c].ride)
    <3>1. Become(c, Idle) /\ offers' = offers
      BY <1>7, <2>2 DEF AcceptTrust
    <3> QED BY <1>3, <1>4, <3>1
  <2> QED BY <2>1, <2>2
<1>8. ASSUME NEW c \in Calls, NEW r \in Rides, NEW d \in Drivers,
             AcceptRead(c, r, d)
      PROVE  Eligible'
  <2> DEFINE pc == IF bookings[r].required > 0 THEN "trust" ELSE "claim"
             new == [Idle EXCEPT !.pc = pc, !.ride = r, !.user = d]
  <2>1. Become(c, new) /\ offers' = offers
    BY <1>8 DEF AcceptRead
  <2>2. pc = "claim" => Trusted(d, r)
    <3>1. bookings[r].required \in Nat /\ level[d] \in Nat
      <4>1. bookings[r] \in Bookings /\ level[d] \in TrustLevels
        BY DEF Typed, TypeOK
      <4>2. bookings[r].required \in TrustLevels
        BY <4>1, BookingsAssumption
      <4> QED BY <4>1, <4>2, LevelsAssumption
    <3> QED BY <3>1 DEF Trusted
  <2>3. pc \in {"trust", "claim"}
    OBVIOUS
  <2> HIDE DEF pc
  <2>4. new.pc = pc /\ new.ride = r /\ new.user = d
    BY IdleOK DEF CallOK, Call
  <2>5. calls'[c] = new /\ \A b \in Slots \ {c} : calls'[b] = calls[b]
    BY <1>2, <2>1 DEF Become, Slots
  <2> HIDE DEF new
  <2> QED BY <1>1, <2>1, <2>2, <2>3, <2>4, <2>5 DEF Eligible
<1>9. ASSUME NEW c \in Slots, OnlineOffer(c) PROVE Eligible'
  <2> DEFINE d == calls[c].user
  <2>1. PICK r \in calls[c].todo :
          /\ offers' = IF Trusted(d, r)
                       THEN [offers EXCEPT ![r] = @ \cup {d}] ELSE offers
          /\ Become(c, IF calls[c].todo \ {r} = {} THEN Idle
                       ELSE [calls[c] EXCEPT !.todo = calls[c].todo \ {r}])
    BY <1>9 DEF OnlineOffer
  <2> DEFINE new == IF calls[c].todo \ {r} = {} THEN Idle
                    ELSE [calls[c] EXCEPT !.todo = calls[c].todo \ {r}]
  <2>2. new.pc \notin Gated
    BY <1>2, <1>4, <1>9 DEF CallOK, Call, OnlineOffer, At
  <2>3. calls'[c] = new /\ \A b \in Slots \ {c} : calls'[b] = calls[b]
    BY <1>2, <2>1 DEF Become
  <2>4. \A s \in Rides : \A e \in offers'[s] : Trusted(e, s)
    BY <1>2, <2>1 DEF Eligible
  <2> HIDE DEF new
  <2> QED BY <1>1, <2>2, <2>3, <2>4 DEF Eligible
<1>10. ASSUME NEW c \in Slots, NEW call, Become(c, call), offers' = offers,
              call.pc \notin Gated
       PROVE  Eligible'
  BY <1>3, <1>10
<1>11. ASSUME NEW c \in Slots,
              \/ DispatchClaim(c) \/ AcceptClaim(c) \/ AcceptReserve(c)
              \/ WithdrawFind(c) \/ SaveReload(c) \/ SaveWrite(c)
              \/ OnlineFind(c) \/ Abort(c) \/ Withdraw(c)
       PROVE  Eligible'
  <2> SUFFICES \E call : /\ Become(c, call) /\ call.pc \notin Gated
                         /\ \A r \in Rides : offers'[r] \subseteq offers[r]
    BY <1>3
  <2>1. calls[c] \in Call
    BY <1>2
  <2>2. CASE DispatchClaim(c)
    <3>1. PICK r \in calls[c].todo :
            \/ Become(c, [Idle EXCEPT !.pc = "offer_find", !.ride = r,
                                      !.todo = calls[c].todo \ {r}])
            \/ Become(c, Continue(calls[c].todo \ {r}))
      BY <2>2 DEF DispatchClaim
    <3>2. [Idle EXCEPT !.pc = "offer_find", !.ride = r,
                       !.todo = calls[c].todo \ {r}].pc \notin Gated
      BY IdleOK DEF CallOK, Call
    <3> QED BY <1>4, <2>2, <3>1, <3>2 DEF DispatchClaim
  <2>3. CASE AcceptClaim(c)
    <3>1. [calls[c] EXCEPT !.pc = "reserve"].pc \notin Gated
      BY <2>1 DEF Call
    <3> QED BY <1>4, <2>3, <3>1 DEF AcceptClaim
  <2>4. CASE AcceptReserve(c)
    <3>1. [calls[c] EXCEPT !.pc = "withdraw_find"].pc \notin Gated
      BY <2>1 DEF Call
    <3> QED BY <2>4, <3>1 DEF AcceptReserve
  <2>5. CASE WithdrawFind(c)
    <3>1. PICK found : Become(c, [calls[c] EXCEPT !.pc = "withdraw",
                                                  !.found = found])
      BY <2>5 DEF WithdrawFind
    <3>2. [calls[c] EXCEPT !.pc = "withdraw", !.found = found].pc \notin Gated
      BY <2>1 DEF Call
    <3> QED BY <2>5, <3>1, <3>2 DEF WithdrawFind
  <2>6. CASE SaveReload(c)
    <3>1. PICK dirty : Become(c, [calls[c] EXCEPT !.pc = "write",
                                                  !.dirty = dirty])
      BY <2>6 DEF SaveReload
    <3>2. [calls[c] EXCEPT !.pc = "write", !.dirty = dirty].pc \notin Gated
      BY <2>1 DEF Call
    <3> QED BY <2>6, <3>1, <3>2 DEF SaveReload
  <2>7. CASE SaveWrite(c)
    <3>1. [Idle EXCEPT !.pc = "withdraw_find", !.ride = calls[c].ride].pc
            \notin Gated
      BY IdleOK DEF CallOK, Call
    <3> QED BY <1>4, <2>7, <3>1 DEF SaveWrite
  <2>8. CASE OnlineFind(c)
    <3>1. PICK near \in SUBSET Rides :
            Become(c, IF near = {} THEN Idle
                      ELSE [calls[c] EXCEPT !.pc = "online", !.todo = near])
      BY <2>8 DEF OnlineFind
    <3>2. [calls[c] EXCEPT !.pc = "online", !.todo = near].pc \notin Gated
      BY <2>1 DEF Call
    <3> QED BY <1>4, <2>8, <3>1, <3>2 DEF OnlineFind
  <2>9. CASE Abort(c)
    BY <1>4, <2>9 DEF Abort
  <2>10. CASE Withdraw(c)
    BY <1>2, <1>4, <2>10 DEF Withdraw
  <2> QED BY <1>11, <2>2, <2>3, <2>4, <2>5, <2>6, <2>7, <2>8, <2>9, <2>10
<1>12. ASSUME NEW c \in Calls, Arrive(c),
              \A r \in Rides, d \in Drivers : ~AcceptRead(c, r, d)
       PROVE  Eligible'
  <2>1. c \in Slots
    BY DEF Slots
  <2> SUFFICES \E call : Become(c, call) /\ call.pc \notin Gated /\ offers' = offers
    BY <1>10, <2>1
  <2>2. ASSUME NEW r \in Rides, Request(c, r)
        PROVE  \E call : Become(c, call) /\ call.pc \notin Gated /\ offers' = offers
    <3>1. [Idle EXCEPT !.pc = "offer_find", !.ride = r].pc \notin Gated
      BY IdleOK DEF CallOK, Call
    <3> QED BY <1>4, <2>2, <3>1 DEF Request
  <2>3. ASSUME NEW r \in Rides, NEW entity, NEW w, Loaded(c, r, entity, w)
        PROVE  \E call : Become(c, call) /\ call.pc \notin Gated /\ offers' = offers
    <3>1. [Idle EXCEPT !.pc = "reload", !.ride = r, !.copy = entity,
                       !.wasPending = w].pc \notin Gated
      BY IdleOK DEF CallOK, Call
    <3> QED BY <2>3, <3>1 DEF Loaded
  <2>4. ASSUME NEW d \in Drivers, GoOnline(c, d)
        PROVE  \E call : Become(c, call) /\ call.pc \notin Gated /\ offers' = offers
    <3>1. [Idle EXCEPT !.pc = "online_find", !.user = d].pc \notin Gated
      BY IdleOK DEF CallOK, Call
    <3> QED BY <2>4, <3>1 DEF GoOnline
  <2>5. ASSUME NEW r \in Rides, DispatchRead(c, r)
        PROVE  \E call : Become(c, call) /\ call.pc \notin Gated /\ offers' = offers
    BY <1>4, <2>5 DEF DispatchRead
  <2> QED BY <1>12, <2>2, <2>3, <2>4, <2>5
          DEF Arrive, StartRead, CompleteRead, CancelRead
<1>13. ASSUME NEW t \in Timers, TimerTick(t) PROVE Eligible'
  <2>1. PICK batch : Become(t, Continue(batch)) /\ offers' = offers
    BY <1>13 DEF TimerTick
  <2> QED BY <1>4, <1>10, <2>1 DEF Slots
<1>14. ASSUME UNCHANGED <<calls, offers>> PROVE Eligible'
  BY <1>1, <1>14 DEF Eligible
<1>15. CASE \/ \E r \in Rides : ScheduleComesDue(r)
            \/ \E d \in Drivers : GoOffline(d)
            \/ \E d \in Drivers, l \in TrustLevels : TrustChange(d, l)
            \/ UNCHANGED vars
  BY <1>14, <1>15 DEF ScheduleComesDue, GoOffline, TrustChange, vars
<1> QED BY <1>5, <1>6, <1>7, <1>8, <1>9, <1>11, <1>12, <1>13, <1>15
        DEF Next, Step

\* Whoever is shown a parcel or is about to claim it stays trusted with it.
LEMMA EligibleAlways ==
  ASSUME ~TrustMoves PROVE Spec => [](Typed /\ Eligible)
<1>1. Init => Eligible
  BY DEF Init, Eligible, Idle
<1>2. Typed /\ Eligible /\ [Next]_vars => Eligible'
  BY EligibleStep
<1> QED BY <1>1, <1>2, TypedInit, TypedStep, PTL DEF Spec

\* While trust levels stand still, only drivers trusted with a parcel see it,
\* by whichever of the three paths it reaches them (request(), the dispatch of
\* planned deliveries, handleDriverOnline()).
THEOREM ScreensRespectTrust ==
  ASSUME ~TrustMoves PROVE Spec => []OffersMeetTrust
<1>1. Eligible => OffersMeetTrust
  BY DEF Eligible, OffersMeetTrust
<1> QED BY <1>1, EligibleAlways, PTL

\* While trust levels stand still, only drivers trusted with a parcel can win
\* it, however the gate and the claim of accept() are interleaved with others.
THEOREM TrustIsRespected ==
  ASSUME ~TrustMoves PROVE Spec => WinnerIsTrusted
<1>1. Typed /\ Eligible /\ [Next]_vars =>
        [\A r \in Rides : \A d \in winners'[r] \ winners[r] : Trusted(d, r)]_vars
  <2> SUFFICES ASSUME Typed, Eligible, Next,
                      NEW r \in Rides, NEW d \in winners'[r] \ winners[r]
               PROVE  Trusted(d, r)
    OBVIOUS
  <2>1. winners \in [Rides -> SUBSET Drivers]
    BY DEF Typed, TypeOK
  <2>2. PICK c \in Slots : AcceptClaim(c)
    BY DEF Next, Step, OfferFind, Offer, DispatchClaim, AcceptTrust,
         AcceptReserve, WithdrawFind, Withdraw, SaveReload, SaveWrite,
         OnlineFind, OnlineOffer, Arrive, Request, DispatchRead, AcceptRead,
         StartRead, CompleteRead, CancelRead, Loaded, GoOnline, TimerTick,
         Abort, ScheduleComesDue, GoOffline, TrustChange
  <2>3. r = calls[c].ride /\ d = calls[c].user /\ calls[c].pc = "claim"
    BY <2>1, <2>2 DEF AcceptClaim, At
  <2> QED BY <2>3 DEF Eligible
<1> QED BY <1>1, EligibleAlways, PTL DEF Spec, WinnerIsTrusted

(***************************************************************************)
(* One call at a time on each ride.  Then the entity that start(),          *)
(* complete() or cancel() saves is still the row, one legal move on.        *)
(***************************************************************************)
Saving == {"reload", "write"}

\* What an entity about to be saved has to do with its row.
Current(call, row, booking) ==
    call.pc \in Saving =>
        /\ <<row.status, call.copy.status>> \in LegalMoves
        /\ call.copy.driver = row.driver
        /\ call.copy.payment =
               IF call.copy.status = "completed" /\ booking.cash THEN "paid"
               ELSE row.payment
        /\ call.pc = "write" => call.dirty = DirtyColumns(call.copy, row)

\* A trip under way or done has its driver, and is paid when it should be.
TripFits(row, won, booking) ==
    /\ row.status \in {"in_progress", "completed"} => row.driver \in won
    /\ row.payment = "paid" <=> row.status = "completed" /\ booking.cash

\* The inductive invariant of serial behaviours.
Alone ==
    /\ OneAtATime
    /\ \A r \in Rides : TripFits(rides[r], winners[r], bookings[r])
    /\ \A c \in Slots :
          Current(calls[c], rides[calls[c].ride], bookings[calls[c].ride])

MovesAreLegal == \A r \in Rides : LegalMove(rides[r].status, rides'[r].status)

\* A status that stays is a legal move.
LEMMA StayingIsLegal == ASSUME NEW status PROVE LegalMove(status, status)
  BY DEF LegalMove

\* A call moves on and leaves the rows alone.
LEMMA AloneCallMoves ==
  ASSUME Safe, Alone, OneAtATime', NEW c \in Slots, NEW call, Become(c, call),
         Current(call, rides[call.ride], bookings[call.ride]),
         UNCHANGED <<rides, bookings, winners>>
  PROVE  Alone' /\ MovesAreLegal
<1>1. \A b \in Slots : calls'[b] \in {calls[b], call}
  BY DEF Become, Safe, Typed, TypeOK
<1>2. \A b \in Slots :
          Current(calls'[b], rides[calls'[b].ride], bookings[calls'[b].ride])
  BY <1>1 DEF Alone
<1> QED BY <1>2, StayingIsLegal DEF Alone, MovesAreLegal

\* A call alone on its ride changes the row.
LEMMA AloneRowMoves ==
  ASSUME Safe, Alone, OneAtATime', NEW c \in Slots, NEW call, Become(c, call),
         call.pc \notin Saving,
         NEW r \in Rides, NEW row, rides' = [rides EXCEPT ![r] = row],
         UNCHANGED bookings,
         \A s \in Rides \ {r} : winners'[s] = winners[s],
         \A b \in Slots \ {c} : calls[b].pc \in Saving => calls[b].ride # r,
         TripFits(row, winners'[r], bookings[r]),
         LegalMove(rides[r].status, row.status)
  PROVE  Alone' /\ MovesAreLegal
<1>1. /\ calls'[c] = call
      /\ \A b \in Slots \ {c} : calls'[b] = calls[b]
  BY DEF Become, Safe, Typed, TypeOK
<1>2. rides'[r] = row /\ \A s \in Rides \ {r} : rides'[s] = rides[s]
  BY DEF Safe, Typed, TypeOK
<1>3. \A s \in Rides : TripFits(rides'[s], winners'[s], bookings'[s])
  BY <1>2 DEF Alone
<1>4. ASSUME NEW b \in Slots
      PROVE  Current(calls'[b], rides'[calls'[b].ride], bookings'[calls'[b].ride])
  <2>1. CASE b = c
    BY <1>1, <2>1 DEF Current
  <2>2. CASE b # c /\ calls[b].pc \in Saving
    <3>1. calls[b].ride \in Rides \ {r}
      BY <2>2 DEF Safe, Typed, CallOK, OnRide, Saving
    <3> QED BY <1>1, <1>2, <2>2, <3>1 DEF Alone
  <2>3. CASE b # c /\ calls[b].pc \notin Saving
    BY <1>1, <2>3 DEF Current
  <2> QED BY <2>1, <2>2, <2>3
<1>5. MovesAreLegal
  BY <1>2, StayingIsLegal DEF MovesAreLegal
<1> QED BY <1>3, <1>4, <1>5 DEF Alone

\* A handler has loaded the row and moved its entity one status on.
LEMMA LoadedAlone ==
  ASSUME Safe, Alone, OneAtATime', NEW c \in Slots, NEW r \in Rides,
         NEW entity, NEW wasPending, Loaded(c, r, entity, wasPending),
         <<rides[r].status, entity.status>> \in LegalMoves,
         entity.driver = rides[r].driver,
         entity.payment = IF entity.status = "completed" /\ bookings[r].cash
                          THEN "paid" ELSE rides[r].payment
  PROVE  Alone' /\ MovesAreLegal
<1> DEFINE call == [Idle EXCEPT !.pc = "reload", !.ride = r, !.copy = entity,
                                !.wasPending = wasPending]
<1>1. call.pc = "reload" /\ call.ride = r /\ call.copy = entity
  BY DEF Idle
<1>2. Become(c, call) /\ UNCHANGED <<rides, bookings, winners>>
  BY DEF Loaded
<1> HIDE DEF call
<1>3. Current(call, rides[call.ride], bookings[call.ride])
  BY <1>1 DEF Current
<1> QED BY <1>2, <1>3, AloneCallMoves

\* The requests that load a row to save it.
LEMMA ArriveAlone ==
  ASSUME Safe, Alone, OneAtATime', NEW c \in Calls, Arrive(c)
  PROVE  Alone' /\ MovesAreLegal
<1>0. c \in Slots /\ calls \in [Slots -> Call] /\ rides \in [Rides -> Row]
  BY DEF Slots, Safe, Typed, TypeOK
<1>1. ASSUME NEW r \in Rides, Request(c, r) PROVE Alone' /\ MovesAreLegal
  <2> DEFINE row == [NoRow EXCEPT !.status = "requested",
                                  !.dispatched = ~bookings[r].scheduled]
             call == IF bookings[r].scheduled THEN Idle
                     ELSE [Idle EXCEPT !.pc = "offer_find", !.ride = r]
  <2>1. call.pc \notin Saving
    BY DEF Idle, Saving
  <2>2. row.status = "requested" /\ row.payment = "pending"
    BY DEF NoRow
  <2>3. /\ Become(c, call) /\ rides' = [rides EXCEPT ![r] = row]
        /\ UNCHANGED <<bookings, winners>> /\ rides[r].status = "none"
    BY <1>1 DEF Request
  <2> HIDE DEF row, call
  <2>4. \A b \in Slots \ {c} : calls[b].pc \in Saving => calls[b].ride # r
    BY <2>3 DEF Safe, CallSafe, Saving
  <2>5. TripFits(row, winners'[r], bookings[r])
    BY <2>2 DEF TripFits
  <2>6. LegalMove(rides[r].status, row.status)
    BY <2>3 DEF LegalMove
  <2> QED BY <1>0, <2>1, <2>3, <2>4, <2>5, <2>6, AloneRowMoves
<1>2. ASSUME NEW r \in Rides, NEW d \in Drivers, StartRead(c, r, d)
      PROVE  Alone' /\ MovesAreLegal
  <2> DEFINE entity == [rides[r] EXCEPT !.status = "in_progress"]
  <2>1. /\ entity.status = "in_progress" /\ entity.driver = rides[r].driver
        /\ entity.payment = rides[r].payment
    BY <1>0 DEF Row
  <2>2. rides[r].status = "accepted" /\ Loaded(c, r, entity, FALSE)
    BY <1>2 DEF StartRead
  <2> HIDE DEF entity
  <2>3. <<rides[r].status, entity.status>> \in LegalMoves
    BY <2>1, <2>2 DEF LegalMoves
  <2> QED BY <1>0, <2>1, <2>2, <2>3, LoadedAlone
<1>3. ASSUME NEW r \in Rides, NEW d \in Drivers, CompleteRead(c, r, d)
      PROVE  Alone' /\ MovesAreLegal
  <2> DEFINE payment == IF bookings[r].cash THEN "paid" ELSE rides[r].payment
             entity == [rides[r] EXCEPT !.status = "completed",
                                        !.payment = payment]
  <2>1. /\ entity.status = "completed" /\ entity.driver = rides[r].driver
        /\ entity.payment = payment
    BY <1>0 DEF Row
  <2>2. rides[r].status = "in_progress" /\ Loaded(c, r, entity, FALSE)
    BY <1>3 DEF CompleteRead
  <2> HIDE DEF entity
  <2>3. <<rides[r].status, entity.status>> \in LegalMoves
    BY <2>1, <2>2 DEF LegalMoves
  <2> QED BY <1>0, <2>1, <2>2, <2>3, LoadedAlone
<1>4. ASSUME NEW r \in Rides, NEW u \in Users, CancelRead(c, r, u)
      PROVE  Alone' /\ MovesAreLegal
  <2> DEFINE entity == [rides[r] EXCEPT !.status = "cancelled"]
             pending == /\ rides[r].status = "requested"
                        /\ rides[r].driver = NULL
                        /\ ~Withheld(r)
  <2>1. /\ entity.status = "cancelled" /\ entity.driver = rides[r].driver
        /\ entity.payment = rides[r].payment
    BY <1>0 DEF Row
  <2>2. rides[r].status \in ActiveStatuses /\ Loaded(c, r, entity, pending)
    BY <1>4 DEF CancelRead
  <2> HIDE DEF entity, pending
  <2>3. <<rides[r].status, entity.status>> \in LegalMoves
    BY <2>1, <2>2 DEF LegalMoves, ActiveStatuses
  <2> QED BY <1>0, <2>1, <2>2, <2>3, LoadedAlone
<1>5. ASSUME NEW call, Become(c, call), call.pc \notin Saving,
             UNCHANGED <<rides, bookings, winners>>
      PROVE  Alone' /\ MovesAreLegal
  <2>1. Current(call, rides[call.ride], bookings[call.ride])
    BY <1>5 DEF Current
  <2> QED BY <1>0, <1>5, <2>1, AloneCallMoves
<1>6. ASSUME NEW r \in Rides, DispatchRead(c, r) PROVE Alone' /\ MovesAreLegal
  BY <1>5, <1>6, ContinueHarmless DEF DispatchRead, Saving
<1>7. ASSUME NEW r \in Rides, NEW d \in Drivers, AcceptRead(c, r, d)
      PROVE  Alone' /\ MovesAreLegal
  <2> DEFINE pc == IF bookings[r].required > 0 THEN "trust" ELSE "claim"
             call == [Idle EXCEPT !.pc = pc, !.ride = r, !.user = d]
  <2>1. call.pc \notin Saving
    BY DEF Idle, Saving
  <2>2. Become(c, call) /\ UNCHANGED <<rides, bookings, winners>>
    BY <1>7 DEF AcceptRead
  <2> HIDE DEF call
  <2> QED BY <1>5, <2>1, <2>2
<1>8. ASSUME NEW d \in Drivers, GoOnline(c, d) PROVE Alone' /\ MovesAreLegal
  <2> DEFINE call == [Idle EXCEPT !.pc = "online_find", !.user = d]
  <2>1. call.pc \notin Saving
    BY DEF Idle, Saving
  <2>2. Become(c, call) /\ UNCHANGED <<rides, bookings, winners>>
    BY <1>8 DEF GoOnline
  <2> HIDE DEF call
  <2> QED BY <1>5, <2>1, <2>2
<1> QED BY <1>1, <1>2, <1>3, <1>4, <1>6, <1>7, <1>8 DEF Arrive

\* Nobody else is about to save the ride that a call works on.
LEMMA NobodyElse ==
  ASSUME Safe, Alone, NEW c \in Slots, NEW r \in Rides, Working(c, r)
  PROVE  \A b \in Slots \ {c} : calls[b].pc \in Saving => calls[b].ride # r
  BY DEF Alone, OneAtATime, Working

\* The next step of a handler in flight.
LEMMA StepAlone ==
  ASSUME Safe, Safe', Alone, OneAtATime', NEW c \in Slots, Step(c)
  PROVE  Alone' /\ MovesAreLegal
<1> DEFINE self == calls[c]
<1>0. /\ calls \in [Slots -> Call] /\ rides \in [Rides -> Row]
      /\ self \in Call /\ CallOK(self)
  BY DEF Safe, Typed, TypeOK
<1>1. ASSUME NEW call, Become(c, call), call.pc \notin Saving,
             UNCHANGED <<rides, bookings, winners>>
      PROVE  Alone' /\ MovesAreLegal
  <2>1. Current(call, rides[call.ride], bookings[call.ride])
    BY <1>1 DEF Current
  <2> QED BY <1>0, <1>1, <2>1, AloneCallMoves
<1>2. \A pc \in PCs \ Saving, call \in Call :
         [call EXCEPT !.pc = pc].pc \notin Saving
  BY DEF Call
<1>3. Idle.pc \notin Saving
  BY DEF Idle, Saving
<1>4. CASE OfferFind(c)
  <2>1. PICK found \in Candidates :
          Become(c, [self EXCEPT !.pc = "offer",
                       !.found = {d \in found : Trusted(d, self.ride)}])
    BY <1>4 DEF OfferFind
  <2> DEFINE new == [self EXCEPT !.pc = "offer",
                       !.found = {d \in found : Trusted(d, self.ride)}]
  <2>2. new.pc \notin Saving
    BY <1>0 DEF Call, Saving
  <2>3. Become(c, new) /\ UNCHANGED <<rides, bookings, winners>>
    BY <1>4, <2>1 DEF OfferFind
  <2> HIDE DEF new
  <2> QED BY <1>1, <2>2, <2>3
<1>5. CASE Offer(c)
  BY <1>1, <1>5, ContinueHarmless DEF Offer, Saving
<1>6. CASE AcceptTrust(c)
  <2>1. [self EXCEPT !.pc = "claim"].pc \notin Saving
    BY <1>0 DEF Call, Saving
  <2> QED BY <1>1, <1>3, <1>6, <2>1 DEF AcceptTrust
<1>7. CASE AcceptReserve(c)
  <2>1. [self EXCEPT !.pc = "withdraw_find"].pc \notin Saving
    BY <1>0 DEF Call, Saving
  <2> QED BY <1>1, <1>7, <2>1 DEF AcceptReserve
<1>8. CASE WithdrawFind(c)
  <2>1. PICK found \in Candidates :
          Become(c, [self EXCEPT !.pc = "withdraw",
                                 !.found = found \ {self.user}])
    BY <1>8 DEF WithdrawFind
  <2> DEFINE new == [self EXCEPT !.pc = "withdraw",
                                 !.found = found \ {self.user}]
  <2>2. new.pc \notin Saving
    BY <1>0 DEF Call, Saving
  <2>3. Become(c, new) /\ UNCHANGED <<rides, bookings, winners>>
    BY <1>8, <2>1 DEF WithdrawFind
  <2> HIDE DEF new
  <2> QED BY <1>1, <2>2, <2>3
<1>9. CASE Withdraw(c)
  BY <1>1, <1>3, <1>9 DEF Withdraw
<1>10. CASE OnlineFind(c)
  <2>1. PICK near \in SUBSET Rides :
          Become(c, IF near = {} THEN Idle
                    ELSE [self EXCEPT !.pc = "online", !.todo = near])
    BY <1>10 DEF OnlineFind
  <2>2. [self EXCEPT !.pc = "online", !.todo = near].pc \notin Saving
    BY <1>0 DEF Call, Saving
  <2> QED BY <1>1, <1>3, <1>10, <2>1, <2>2 DEF OnlineFind
<1>11. CASE OnlineOffer(c)
  <2>1. PICK r \in self.todo :
          Become(c, IF self.todo \ {r} = {} THEN Idle
                    ELSE [self EXCEPT !.todo = self.todo \ {r}])
    BY <1>11 DEF OnlineOffer
  <2>2. [self EXCEPT !.todo = self.todo \ {r}].pc \notin Saving
    BY <1>0, <1>11 DEF Call, OnlineOffer, At, Saving
  <2> QED BY <1>1, <1>3, <1>11, <2>1, <2>2 DEF OnlineOffer
<1>12. CASE DispatchClaim(c)
  <2>1. PICK r \in self.todo :
          IF rides[r].status = "requested" /\ ~rides[r].dispatched
          THEN /\ rides' = [rides EXCEPT ![r].dispatched = TRUE]
               /\ Become(c, [Idle EXCEPT !.pc = "offer_find", !.ride = r,
                                         !.todo = self.todo \ {r}])
          ELSE /\ Become(c, Continue(self.todo \ {r}))
               /\ UNCHANGED rides
    BY <1>12 DEF DispatchClaim
  <2>2. r \in Rides /\ rides[r] \in Row /\ UNCHANGED <<bookings, winners>>
    BY <1>0, <1>12 DEF Call, DispatchClaim
  <2>3. CASE UNCHANGED rides /\ Become(c, Continue(self.todo \ {r}))
    BY <1>1, <2>2, <2>3, ContinueHarmless DEF Saving
  <2>4. CASE ~(UNCHANGED rides /\ Become(c, Continue(self.todo \ {r})))
    <3> DEFINE row == [rides[r] EXCEPT !.dispatched = TRUE]
               call == [Idle EXCEPT !.pc = "offer_find", !.ride = r,
                                    !.todo = self.todo \ {r}]
    <3>1. row.status = rides[r].status /\ TripFits(row, winners[r], bookings[r])
      BY <2>2 DEF Alone, TripFits, Row
    <3>2. rides' = [rides EXCEPT ![r] = row] /\ Become(c, call)
      BY <2>1, <2>4
    <3>3. call.pc \notin Saving
      BY DEF Idle, Saving
    <3>4. LegalMove(rides[r].status, row.status)
      BY <3>1, StayingIsLegal
    <3>5. \A b \in Slots \ {c} : calls[b].pc \in Saving => calls[b].ride # r
      BY <2>2, NobodyElse DEF Working
    <3> HIDE DEF row, call
    <3> QED BY <2>2, <3>1, <3>2, <3>3, <3>4, <3>5, AloneRowMoves
  <2> QED BY <2>3, <2>4
<1>13. CASE AcceptClaim(c)
  <2> DEFINE d == self.user
  <2>1. PICK r \in Rides :
          r = self.ride /\ rides[r] \in Row /\ UNCHANGED bookings
    BY <1>0, <1>13 DEF AcceptClaim, At, CallOK, OnRide
  <2>2. CASE Become(c, Idle) /\ UNCHANGED <<rides, winners>>
    BY <1>1, <1>3, <2>1, <2>2
  <2>3. CASE ~(Become(c, Idle) /\ UNCHANGED <<rides, winners>>)
    <3> DEFINE row == [rides[r] EXCEPT !.status = "accepted", !.driver = d]
               call == [self EXCEPT !.pc = "reserve"]
    <3>1. rides[r].status = "requested" /\ Become(c, call)
      BY <1>13, <2>1, <2>3 DEF AcceptClaim
    <3>2. rides' = [rides EXCEPT ![r] = row]
      <4>1. rides' = [rides EXCEPT ![r].status = "accepted", ![r].driver = d]
        BY <1>13, <2>1, <2>3 DEF AcceptClaim
      <4> QED BY <1>0, <4>1
    <3>3. row.status = "accepted" /\ row.payment = rides[r].payment
      BY <2>1 DEF Row
    <3>4. call.pc \notin Saving
      BY <1>0 DEF Call, Saving
    <3>5. \A b \in Slots \ {c} : calls[b].pc \in Saving => calls[b].ride # r
      BY <2>1, NobodyElse DEF Working
    <3>6. \A s \in Rides \ {r} : winners'[s] = winners[s]
      <4>1. winners' = [winners EXCEPT ![r] = @ \cup {d}]
        BY <1>13, <2>1, <2>3 DEF AcceptClaim
      <4> QED BY <4>1 DEF Safe, Typed, TypeOK
    <3> HIDE DEF row, call
    <3>7. TripFits(row, winners'[r], bookings[r])
      BY <2>1, <3>1, <3>3 DEF Alone, TripFits
    <3>8. LegalMove(rides[r].status, row.status)
      BY <3>1, <3>3 DEF LegalMove, LegalMoves
    <3> QED BY <2>1, <3>1, <3>2, <3>4, <3>5, <3>6, <3>7, <3>8, AloneRowMoves
  <2> QED BY <2>2, <2>3
<1>14. CASE SaveReload(c)
  <2> DEFINE row == rides[self.ride]
             dirty == DirtyColumns(self.copy, row)
             call == [self EXCEPT !.pc = "write", !.dirty = dirty]
  <2>1. /\ Become(c, call) /\ UNCHANGED <<rides, bookings, winners>>
        /\ self.pc = "reload"
    BY <1>14 DEF SaveReload, At
  <2>2. Current(self, row, bookings[self.ride])
    BY DEF Alone
  <2> HIDE DEF row, dirty
  <2>3. /\ call.pc = "write" /\ call.ride = self.ride /\ call.copy = self.copy
        /\ call.dirty = dirty
    BY <1>0 DEF Call
  <2> HIDE DEF call
  <2>4. Current(call, row, bookings[self.ride])
    BY <2>1, <2>2, <2>3 DEF Current, Saving, dirty
  <2> QED BY <2>1, <2>3, <2>4, AloneCallMoves DEF row
<1>15. CASE SaveWrite(c)
  <2> DEFINE r == self.ride
             row == SavedRow(rides[r], self.copy, self.dirty)
             call == IF self.wasPending
                     THEN [Idle EXCEPT !.pc = "withdraw_find", !.ride = r]
                     ELSE Idle
  <2>1. /\ self.pc = "write" /\ self.copy \in Row
        /\ Current(self, rides[r], bookings[r])
    BY <1>0, <1>15 DEF SaveWrite, At, Alone, Call
  <2>2. r \in Rides /\ rides[r] \in Row
    BY <1>0, <2>1 DEF CallOK, OnRide
  <2>3. /\ rides' = [rides EXCEPT ![r] = row] /\ Become(c, call)
        /\ UNCHANGED <<bookings, winners>>
    BY <1>15 DEF SaveWrite
  <2>4. /\ row.status = self.copy.status /\ row.driver = self.copy.driver
        /\ row.payment = self.copy.payment
    BY <2>1, <2>2 DEF Current, Saving, SavedRow, DirtyColumns, Row
  <2>5. call.pc \notin Saving
    BY DEF Idle, Saving
  <2>6. \A b \in Slots \ {c} : calls[b].pc \in Saving => calls[b].ride # r
    BY <2>2, NobodyElse DEF Working
  <2> HIDE DEF row, call
  <2>7. <<rides[r].status, row.status>> \in LegalMoves
    BY <2>1, <2>4 DEF Current, Saving
  <2>8. LegalMove(rides[r].status, row.status)
    BY <2>7 DEF LegalMove
  <2>9. TripFits(row, winners'[r], bookings[r])
    <3>1. TripFits(rides[r], winners[r], bookings[r]) /\ RideSafe(r)
      BY <2>2 DEF Alone, Safe
    <3>2. /\ row.driver = rides[r].driver
          /\ row.payment = IF row.status = "completed" /\ bookings[r].cash
                           THEN "paid" ELSE rides[r].payment
      BY <2>1, <2>4 DEF Current, Saving
    <3>3. row.status \in {"in_progress", "completed"} => row.driver \in winners[r]
      BY <2>7, <3>1, <3>2 DEF TripFits, RideSafe, LegalMoves
    <3>4. rides[r].payment # "paid"
      BY <2>7, <3>1 DEF TripFits, LegalMoves
    <3> QED BY <2>3, <3>2, <3>3, <3>4 DEF TripFits
  <2> HIDE DEF r
  <2> QED BY <2>2, <2>3, <2>5, <2>6, <2>8, <2>9, AloneRowMoves
<1> QED BY <1>4, <1>5, <1>6, <1>7, <1>8, <1>9, <1>10, <1>11, <1>12, <1>13,
           <1>14, <1>15 DEF Step

\* Every step of a serial behaviour keeps entities current and moves legal.
LEMMA AloneStep ==
  ASSUME Safe, Safe', Alone, OneAtATime', [Next]_vars
  PROVE  Alone' /\ MovesAreLegal
<1>1. ASSUME NEW c \in Slots, NEW call, Become(c, call), call.pc \notin Saving,
             UNCHANGED <<rides, bookings, winners>>
      PROVE  Alone' /\ MovesAreLegal
  <2>1. Current(call, rides[call.ride], bookings[call.ride])
    BY <1>1 DEF Current
  <2> QED BY <1>1, <2>1, AloneCallMoves
<1>2. ASSUME NEW t \in Timers, TimerTick(t) PROVE Alone' /\ MovesAreLegal
  <2>1. PICK batch \in SUBSET Due : Become(t, Continue(batch))
    BY <1>2 DEF TimerTick
  <2> QED BY <1>1, <1>2, <2>1, ContinueHarmless DEF TimerTick, Slots, Saving
<1>3. ASSUME NEW c \in Slots, Abort(c) PROVE Alone' /\ MovesAreLegal
  <2>1. Idle.pc \notin Saving
    BY DEF Idle, Saving
  <2> QED BY <1>1, <1>3, <2>1 DEF Abort
<1>4. ASSUME UNCHANGED <<rides, bookings, calls, winners>>
      PROVE  Alone' /\ MovesAreLegal
  BY <1>4, StayingIsLegal DEF Alone, MovesAreLegal
<1>5. CASE \/ \E r \in Rides : ScheduleComesDue(r)
           \/ \E d \in Drivers : GoOffline(d)
           \/ \E d \in Drivers, l \in TrustLevels : TrustChange(d, l)
           \/ UNCHANGED vars
  BY <1>4, <1>5 DEF ScheduleComesDue, GoOffline, TrustChange, vars
<1> QED BY <1>2, <1>3, <1>5, StepAlone, ArriveAlone DEF Next

\* At first nobody works on a ride, ...
LEMMA AloneInit == Init => Alone
<1> SUFFICES ASSUME Init PROVE Alone
  OBVIOUS
<1>1. \A c \in Slots, r \in Rides : ~Working(c, r)
  BY NullAssumption DEF Init, Working, Idle
<1> QED BY <1>1 DEF Init, Alone, OneAtATime, TripFits, Current, Saving, Idle, NoRow

\* A serial behaviour is one of the service's.
LEMMA EitherIsSpec == EitherSpec => Spec
<1>1. EitherInit => Init
  BY DEF EitherInit
<1>2. [EitherNext]_<<vars, serial>> => [Next]_vars
  BY DEF EitherNext
<1> QED BY <1>1, <1>2, PTL DEF EitherSpec, Spec

\* ... and in serial behaviours at most one call ever does.
LEMMA AloneAlways == EitherSpec => [](serial => Alone)
<1>1. EitherInit => (serial => Alone)
  BY AloneInit DEF EitherInit
<1>2. /\ Safe /\ Safe' /\ (serial => Alone)
      /\ [EitherNext]_<<vars, serial>>
      => (serial => Alone)'
  <2> SUFFICES ASSUME Safe, Safe', serial => Alone,
                      [EitherNext]_<<vars, serial>>, serial'
               PROVE  Alone'
    OBVIOUS
  <2>1. CASE EitherNext
    BY <2>1, AloneStep DEF EitherNext
  <2>2. CASE UNCHANGED <<vars, serial>>
    <3>1. OneAtATime'
      BY <2>2 DEF vars, Alone, OneAtATime, Working
    <3> QED BY <2>2, <3>1, AloneStep
  <2> QED BY <2>1, <2>2
<1> QED BY <1>1, <1>2, SafeAlways, EitherIsSpec, PTL DEF EitherSpec

\* If calls on one ride do not overlap, a trip under way or done has its driver
\* and cash is settled exactly when the trip is done (complete()).
THEOREM SerialTripsFit == EitherSpec => []SerialTripIsConsistent
<1>1. (serial => Alone) => SerialTripIsConsistent
  BY DEF Alone, TripFits, SerialTripIsConsistent, TripIsConsistent
<1> QED BY <1>1, AloneAlways, PTL

\* If calls on one ride do not overlap, its status moves along RideMoves only
\* (start(), complete() and cancel()).
THEOREM SerialMovesFollowTheRules == EitherSpec => SerialMovesAreLegal
<1>1. /\ Safe /\ Safe' /\ (serial => Alone) /\ [EitherNext]_<<vars, serial>>
      => [serial => \A r \in Rides :
                       LegalMove(rides[r].status, rides'[r].status)]_vars
  <2> SUFFICES ASSUME Safe, Safe', Alone, EitherNext, serial
               PROVE  MovesAreLegal
    BY DEF MovesAreLegal
  <2> QED BY AloneStep DEF EitherNext
<1> QED BY <1>1, SafeAlways, AloneAlways, EitherIsSpec, PTL
        DEF EitherSpec, SerialMovesAreLegal

=============================================================================
