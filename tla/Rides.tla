-------------------------------- MODULE Rides --------------------------------
(***************************************************************************)
(* The ride service (src/src/modules/rides/rides.service.ts): the rides     *)
(* table, the handlers that run over it concurrently, the pool of available *)
(* drivers that matching reads, and the offers drivers have been shown.     *)
(*                                                                         *)
(* Node runs one handler at a time but switches at every await, so a        *)
(* handler is a call with a program counter and one action per stretch of   *)
(* code between two awaits that touch shared state.  A guard of the code    *)
(* that throws before any state changed leaves no trace, so it is a         *)
(* conjunct of the action; one that throws later ends the call.             *)
(*                                                                         *)
(* Rows keep the columns some handler reads back: status, driverId,         *)
(* dispatchedAt (set or not) and paymentStatus.  The timestamps and reasons *)
(* are write-only.  What never changes after the insert is in "bookings".   *)
(***************************************************************************)
EXTENDS Naturals, FiniteSets, TypeOrm

CONSTANTS
    Rides,          \* ride ids
    Clients,        \* users who request rides
    Drivers,        \* users who accept rides
    Calls,          \* slots for concurrent HTTP requests and event listeners
    Timers,         \* slots for ticks of the scheduled-dispatch timer
    NULL,           \* SQL NULL / undefined
    Bookings,       \* what a request may ask for
    TrustLevels,    \* trust levels of drivers and requirements of parcels
    CandidateLimit, \* matching: how many nearby drivers GEOSEARCH returns
    BatchLimit,     \* "take" of the due-deliveries query
    TrustMoves,     \* may a driver's trust level change while rides run?
    MaxAborts       \* bound: calls that fail or die half-way

Slots == Calls \cup Timers

ASSUME TimersAssumption == Calls \cap Timers = {}
ASSUME NullAssumption == NULL \notin Rides \cup Clients \cup Drivers
ASSUME LevelsAssumption == TrustLevels \subseteq Nat
ASSUME BookingsAssumption ==
    Bookings \subseteq [client : Clients, scheduled : BOOLEAN,
                        required : TrustLevels, cash : BOOLEAN]
ASSUME LimitsAssumption ==
    /\ CandidateLimit \in Nat
    /\ BatchLimit \in Nat \ {0}
    /\ MaxAborts \in Nat
    /\ TrustMoves \in BOOLEAN

VARIABLES
    rides,      \* the rides table
    bookings,   \* what each ride's request asks for; fixed for good
    due,        \* scheduled rides whose scheduledAt has come
    calls,      \* the handlers in flight
    pool,       \* drivers in the availability index
    offers,     \* drivers whose screen shows the ride
    level,      \* trust level of each driver
    aborts,     \* how many calls have died half-way
    winners,    \* history: drivers whose accept succeeded
    dispatches  \* history: how often a scheduled ride was dispatched

vars == <<rides, bookings, due, calls, pool, offers, level, aborts,
          winners, dispatches>>

Users == Clients \cup Drivers

ActiveStatuses == {"requested", "accepted", "in_progress"}
ClosedStatuses == {"completed", "cancelled"}
Statuses == ActiveStatuses \cup ClosedStatuses \cup {"none"}

\* A row; status "none" stands for a ride id not inserted yet.
Row == [status : Statuses, driver : Drivers \cup {NULL},
        dispatched : BOOLEAN, payment : {"pending", "paid"}]

NoRow == [status |-> "none", driver |-> NULL,
          dispatched |-> FALSE, payment |-> "pending"]

(***************************************************************************)
(* A call: where it is, the ride and user it is about, the entity it has    *)
(* loaded, the columns save() decided to write, the candidates matching     *)
(* returned, and the rides a loop still has to visit.                       *)
(***************************************************************************)
PCs == {"idle", "offer_find", "offer", "dispatch", "trust", "claim",
        "reserve", "withdraw_find", "withdraw", "reload", "write",
        "online_find", "online"}

Call == [pc : PCs, ride : Rides \cup {NULL}, user : Drivers \cup {NULL},
         copy : Row, dirty : SUBSET DOMAIN NoRow, found : SUBSET Drivers,
         todo : SUBSET Rides, wasPending : BOOLEAN]

Idle == [pc |-> "idle", ride |-> NULL, user |-> NULL, copy |-> NoRow,
         dirty |-> {}, found |-> {}, todo |-> {}, wasPending |-> FALSE]

IsIdle(c) == calls[c].pc = "idle"
At(c, pc) == calls[c].pc = pc
Become(c, call) == calls' = [calls EXCEPT ![c] = call]

Trusted(d, r) == level[d] >= bookings[r].required

\* A ride a scheduled dispatch still has to release to drivers.
Withheld(r) == bookings[r].scheduled /\ ~rides[r].dispatched

(***************************************************************************)
(* matching.findCandidates: the nearest drivers of the index within the     *)
(* radius.  Positions move all the time and are not modelled, so any few    *)
(* members of the pool may be the answer.                                   *)
(***************************************************************************)
Candidates == {found \in SUBSET pool : Cardinality(found) <= CandidateLimit}

(***************************************************************************)
(* request(): insert the ride and, unless it is scheduled, offer it.        *)
(***************************************************************************)
Request(c, r) ==
    /\ IsIdle(c)
    /\ rides[r].status = "none"
    /\ rides' = [rides EXCEPT ![r] =
                    [NoRow EXCEPT !.status = "requested",
                                  !.dispatched = ~bookings[r].scheduled]]
    /\ Become(c, IF bookings[r].scheduled THEN Idle
                 ELSE [Idle EXCEPT !.pc = "offer_find", !.ride = r])
    /\ UNCHANGED <<bookings, due, pool, offers, level, aborts, winners, dispatches>>

\* Mutant of OfferFind: the trust filter is forgotten.
OfferFindUnfiltered(c) ==
    /\ At(c, "offer_find")
    /\ \E found \in Candidates :
          Become(c, [calls[c] EXCEPT !.pc = "offer", !.found = found])
    /\ UNCHANGED <<rides, bookings, due, pool, offers, level, aborts,
                   winners, dispatches>>

\* offerRide(): find the candidates and keep those trusted enough ...
OfferFind(c) ==
    /\ At(c, "offer_find")
    /\ \E found \in Candidates :
          Become(c, [calls[c] EXCEPT !.pc = "offer",
                     !.found = {d \in found : Trusted(d, calls[c].ride)}])
    /\ UNCHANGED <<rides, bookings, due, pool, offers, level, aborts,
                   winners, dispatches>>

\* What a dispatch loop does after one ride.
Continue(todo) ==
    IF todo = {} THEN Idle ELSE [Idle EXCEPT !.pc = "dispatch", !.todo = todo]

\* ... then emit RIDE_OFFERED, which puts the ride on their screens.
Offer(c) ==
    /\ At(c, "offer")
    /\ offers' = [offers EXCEPT ![calls[c].ride] = @ \cup calls[c].found]
    /\ Become(c, Continue(calls[c].todo))
    /\ UNCHANGED <<rides, bookings, due, pool, level, aborts,
                   winners, dispatches>>

(***************************************************************************)
(* Scheduled deliveries: a merchant may dispatch one early; every 30        *)
(* seconds the timer dispatches those that are due.  Both end in the        *)
(* conditional UPDATE of claimAndDispatchScheduled().                       *)
(***************************************************************************)
ScheduleComesDue(r) ==
    /\ rides[r].status # "none"
    /\ bookings[r].scheduled
    /\ r \notin due
    /\ due' = due \cup {r}
    /\ UNCHANGED <<rides, bookings, calls, pool, offers, level, aborts,
                   winners, dispatches>>

\* dispatchScheduled(): the checks on the loaded row.
DispatchRead(c, r) ==
    /\ IsIdle(c)
    /\ rides[r].status = "requested"
    /\ rides[r].driver = NULL
    /\ Withheld(r)
    /\ Become(c, Continue({r}))
    /\ UNCHANGED <<rides, bookings, due, pool, offers, level, aborts,
                   winners, dispatches>>

\* Mutant of Due: the comparison with scheduledAt is turned round.
DueTooEarly ==
    {r \in Rides \ due : rides[r].status = "requested" /\ ~rides[r].dispatched}

Due == {r \in due : rides[r].status = "requested" /\ ~rides[r].dispatched}

\* dispatchDueScheduled(): one tick loads a batch of due rides.
TimerTick(t) ==
    /\ IsIdle(t)
    /\ \E batch \in SUBSET Due :
          /\ batch # {}
          /\ batch = Due \/ Cardinality(batch) = BatchLimit
          /\ Cardinality(batch) <= BatchLimit
          /\ Become(t, Continue(batch))
    /\ UNCHANGED <<rides, bookings, due, pool, offers, level, aborts,
                   winners, dispatches>>

\* Mutant of DispatchClaim: the UPDATE does not ask for dispatched_at IS NULL.
DispatchClaimTwice(c) ==
    /\ At(c, "dispatch")
    /\ \E r \in calls[c].todo :
          /\ rides[r].status = "requested"
          /\ rides' = [rides EXCEPT ![r].dispatched = TRUE]
          /\ dispatches' = [dispatches EXCEPT ![r] = @ + 1]
          /\ Become(c, [Idle EXCEPT !.pc = "offer_find", !.ride = r,
                                    !.todo = calls[c].todo \ {r}])
    /\ UNCHANGED <<bookings, due, pool, offers, level, aborts, winners>>

\* UPDATE rides SET dispatched_at WHERE status = requested AND dispatched_at
\* IS NULL; only the call that changed the row goes on to offer it.
DispatchClaim(c) ==
    /\ At(c, "dispatch")
    /\ \E r \in calls[c].todo :
          LET rest == calls[c].todo \ {r} IN
          IF rides[r].status = "requested" /\ ~rides[r].dispatched
          THEN /\ rides' = [rides EXCEPT ![r].dispatched = TRUE]
               /\ dispatches' = [dispatches EXCEPT ![r] = @ + 1]
               /\ Become(c, [Idle EXCEPT !.pc = "offer_find", !.ride = r,
                                         !.todo = rest])
          ELSE /\ Become(c, Continue(rest))
               /\ UNCHANGED <<rides, dispatches>>
    /\ UNCHANGED <<bookings, due, pool, offers, level, aborts, winners>>

(***************************************************************************)
(* accept(): the trust gate on a loaded row, the atomic claim, reserving    *)
(* the driver, and withdrawing the offer from the other drivers.            *)
(***************************************************************************)

\* Mutant of AcceptRead: the trust gate is skipped.
AcceptReadUngated(c, r, d) ==
    /\ IsIdle(c)
    /\ rides[r].status # "none"
    /\ ~Withheld(r)
    /\ Become(c, [Idle EXCEPT !.pc = "claim", !.ride = r, !.user = d])
    /\ UNCHANGED <<rides, bookings, due, pool, offers, level, aborts,
                   winners, dispatches>>

AcceptRead(c, r, d) ==
    /\ IsIdle(c)
    /\ rides[r].status # "none"
    /\ ~Withheld(r)
    /\ Become(c, [Idle EXCEPT !.pc = IF bookings[r].required > 0
                                     THEN "trust" ELSE "claim",
                              !.ride = r, !.user = d])
    /\ UNCHANGED <<rides, bookings, due, pool, offers, level, aborts,
                   winners, dispatches>>

AcceptTrust(c) ==
    /\ At(c, "trust")
    /\ Become(c, IF Trusted(calls[c].user, calls[c].ride)
                 THEN [calls[c] EXCEPT !.pc = "claim"] ELSE Idle)
    /\ UNCHANGED <<rides, bookings, due, pool, offers, level, aborts,
                   winners, dispatches>>

\* Mutant of AcceptClaim: an unconditional UPDATE, the check having been made
\* on the loaded row.
AcceptClaimUnguarded(c) ==
    LET r == calls[c].ride
        d == calls[c].user
    IN  /\ At(c, "claim")
        /\ rides' = [rides EXCEPT ![r].status = "accepted", ![r].driver = d]
        /\ winners' = [winners EXCEPT ![r] = @ \cup {d}]
        /\ Become(c, [calls[c] EXCEPT !.pc = "reserve"])
        /\ UNCHANGED <<bookings, due, pool, offers, level, aborts, dispatches>>

\* Mutant of AcceptClaim: WHERE driver_id IS NULL only.
AcceptClaimAnyStatus(c) ==
    LET r == calls[c].ride
        d == calls[c].user
    IN  /\ At(c, "claim")
        /\ rides[r].driver = NULL
        /\ rides' = [rides EXCEPT ![r].status = "accepted", ![r].driver = d]
        /\ winners' = [winners EXCEPT ![r] = @ \cup {d}]
        /\ Become(c, [calls[c] EXCEPT !.pc = "reserve"])
        /\ UNCHANGED <<bookings, due, pool, offers, level, aborts, dispatches>>

\* Mutant of AcceptClaim: the UPDATE sets the status only.
AcceptClaimNoDriver(c) ==
    LET r == calls[c].ride IN
    /\ At(c, "claim")
    /\ IF rides[r].status = "requested" /\ rides[r].driver = NULL
       THEN /\ rides' = [rides EXCEPT ![r].status = "accepted"]
            /\ winners' = [winners EXCEPT ![r] = @ \cup {calls[c].user}]
            /\ Become(c, [calls[c] EXCEPT !.pc = "reserve"])
       ELSE /\ Become(c, Idle)
            /\ UNCHANGED <<rides, winners>>
    /\ UNCHANGED <<bookings, due, pool, offers, level, aborts, dispatches>>

\* UPDATE rides SET status, driver_id WHERE status = requested AND driver_id
\* IS NULL; the loser gets a Conflict.
AcceptClaim(c) ==
    LET r == calls[c].ride
        d == calls[c].user
    IN  /\ At(c, "claim")
        /\ IF rides[r].status = "requested" /\ rides[r].driver = NULL
           THEN /\ rides' = [rides EXCEPT ![r].status = "accepted",
                                          ![r].driver = d]
                /\ winners' = [winners EXCEPT ![r] = @ \cup {d}]
                /\ Become(c, [calls[c] EXCEPT !.pc = "reserve"])
           ELSE /\ Become(c, Idle)
                /\ UNCHANGED <<rides, winners>>
        /\ UNCHANGED <<bookings, due, pool, offers, level, aborts, dispatches>>

\* drivers.goOffline(driverId): the winner leaves the pool.
AcceptReserve(c) ==
    /\ At(c, "reserve")
    /\ pool' = pool \ {calls[c].user}
    /\ Become(c, [calls[c] EXCEPT !.pc = "withdraw_find"])
    /\ UNCHANGED <<rides, bookings, due, offers, level, aborts,
                   winners, dispatches>>

\* The drivers to tell are looked up afresh ...
WithdrawFind(c) ==
    /\ At(c, "withdraw_find")
    /\ \E found \in Candidates :
          Become(c, [calls[c] EXCEPT !.pc = "withdraw",
                                     !.found = found \ {calls[c].user}])
    /\ UNCHANGED <<rides, bookings, due, pool, offers, level, aborts,
                   winners, dispatches>>

\* ... and RIDE_TAKEN clears the ride from their screens.
Withdraw(c) ==
    /\ At(c, "withdraw")
    /\ offers' = [offers EXCEPT ![calls[c].ride] = @ \ calls[c].found]
    /\ Become(c, Idle)
    /\ UNCHANGED <<rides, bookings, due, pool, level, aborts,
                   winners, dispatches>>

(***************************************************************************)
(* start(), complete(), cancel(): load the row, check it, change the        *)
(* entity, save().                                                          *)
(***************************************************************************)
Loaded(c, r, entity, wasPending) ==
    /\ Become(c, [Idle EXCEPT !.pc = "reload", !.ride = r, !.copy = entity,
                              !.wasPending = wasPending])
    /\ UNCHANGED <<rides, bookings, due, pool, offers, level, aborts,
                   winners, dispatches>>

StartRead(c, r, d) ==
    /\ IsIdle(c)
    /\ rides[r].driver = d
    /\ rides[r].status = "accepted"
    /\ Loaded(c, r, [rides[r] EXCEPT !.status = "in_progress"], FALSE)

CompleteRead(c, r, d) ==
    /\ IsIdle(c)
    /\ rides[r].driver = d
    /\ rides[r].status = "in_progress"
    /\ Loaded(c, r, [rides[r] EXCEPT !.status = "completed",
                        !.payment = IF bookings[r].cash THEN "paid" ELSE @],
              FALSE)

\* Mutant of CancelRead: COMPLETED counts as active.
CancelReadCompleted(c, r, u) ==
    /\ IsIdle(c)
    /\ rides[r].status \in ActiveStatuses \cup {"completed"}
    /\ u \in {bookings[r].client, rides[r].driver}
    /\ Loaded(c, r, [rides[r] EXCEPT !.status = "cancelled"], FALSE)

\* Mutant of CancelRead: a driver who gives a ride up puts it back on offer.
CancelReadRequeues(c, r, u) ==
    /\ IsIdle(c)
    /\ rides[r].status \in ActiveStatuses
    /\ u \in {bookings[r].client, rides[r].driver}
    /\ Loaded(c, r, [rides[r] EXCEPT !.driver = NULL,
                        !.status = IF u = rides[r].driver THEN "requested"
                                   ELSE "cancelled"], FALSE)

CancelRead(c, r, u) ==
    /\ IsIdle(c)
    /\ rides[r].status \in ActiveStatuses
    /\ u \in {bookings[r].client, rides[r].driver}
    /\ Loaded(c, r, [rides[r] EXCEPT !.status = "cancelled"],
              /\ rides[r].status = "requested"
              /\ rides[r].driver = NULL
              /\ ~Withheld(r))

\* save(): the SELECT that decides which columns to write ...
SaveReload(c) ==
    /\ At(c, "reload")
    /\ Become(c, [calls[c] EXCEPT !.pc = "write",
                    !.dirty = DirtyColumns(calls[c].copy,
                                           rides[calls[c].ride])])
    /\ UNCHANGED <<rides, bookings, due, pool, offers, level, aborts,
                   winners, dispatches>>

\* ... and the UPDATE; a cancelled pending ride is then withdrawn.
SaveWrite(c) ==
    LET r == calls[c].ride IN
    /\ At(c, "write")
    /\ rides' = [rides EXCEPT ![r] =
                    SavedRow(@, calls[c].copy, calls[c].dirty)]
    /\ Become(c, IF calls[c].wasPending
                 THEN [Idle EXCEPT !.pc = "withdraw_find", !.ride = r]
                 ELSE Idle)
    /\ UNCHANGED <<bookings, due, pool, offers, level, aborts,
                   winners, dispatches>>

(***************************************************************************)
(* Drivers: going online enters the pool and emits DRIVER_ONLINE, whose     *)
(* listener offers the pending rides around (handleDriverOnline).           *)
(***************************************************************************)
GoOnline(c, d) ==
    /\ IsIdle(c)
    /\ pool' = pool \cup {d}
    /\ Become(c, [Idle EXCEPT !.pc = "online_find", !.user = d])
    /\ UNCHANGED <<rides, bookings, due, offers, level, aborts,
                   winners, dispatches>>

GoOffline(d) ==
    /\ d \in pool
    /\ pool' = pool \ {d}
    /\ UNCHANGED <<rides, bookings, due, calls, offers, level, aborts,
                   winners, dispatches>>

\* The pending rides, read once; those out of the driver's radius or class
\* are skipped, so any of them may be.
OnlineFind(c) ==
    /\ At(c, "online_find")
    /\ \E near \in SUBSET {r \in Rides : /\ rides[r].status = "requested"
                                         /\ rides[r].driver = NULL
                                         /\ ~Withheld(r)} :
          Become(c, IF near = {} THEN Idle
                    ELSE [calls[c] EXCEPT !.pc = "online", !.todo = near])
    /\ UNCHANGED <<rides, bookings, due, pool, offers, level, aborts,
                   winners, dispatches>>

OnlineOffer(c) ==
    LET d == calls[c].user IN
    /\ At(c, "online")
    /\ \E r \in calls[c].todo :
          LET rest == calls[c].todo \ {r} IN
          /\ offers' = IF Trusted(d, r)
                       THEN [offers EXCEPT ![r] = @ \cup {d}] ELSE offers
          /\ Become(c, IF rest = {} THEN Idle
                       ELSE [calls[c] EXCEPT !.todo = rest])
    /\ UNCHANGED <<rides, bookings, due, pool, level, aborts,
                   winners, dispatches>>

(***************************************************************************)
(* The environment: an administrator's decision moves a driver's trust      *)
(* level; a query or Redis command throws, or the process dies, and the     *)
(* call never reaches its next step.                                        *)
(***************************************************************************)
TrustChange(d, l) ==
    /\ TrustMoves
    /\ level' = [level EXCEPT ![d] = l]
    /\ UNCHANGED <<rides, bookings, due, calls, pool, offers, aborts,
                   winners, dispatches>>

Abort(c) ==
    /\ ~IsIdle(c)
    /\ aborts < MaxAborts
    /\ aborts' = aborts + 1
    /\ Become(c, Idle)
    /\ UNCHANGED <<rides, bookings, due, pool, offers, level,
                   winners, dispatches>>

-----------------------------------------------------------------------------

Init ==
    /\ rides = [r \in Rides |-> NoRow]
    /\ bookings \in [Rides -> Bookings]
    /\ due = {}
    /\ calls = [c \in Slots |-> Idle]
    /\ pool = {}
    /\ offers = [r \in Rides |-> {}]
    /\ level \in [Drivers -> TrustLevels]
    /\ aborts = 0
    /\ winners = [r \in Rides |-> {}]
    /\ dispatches = [r \in Rides |-> 0]

\* The next step of a handler in flight.
Step(c) ==
    \/ OfferFind(c) \/ Offer(c)
    \/ DispatchClaim(c)
    \/ AcceptTrust(c) \/ AcceptClaim(c) \/ AcceptReserve(c)
    \/ WithdrawFind(c) \/ Withdraw(c)
    \/ SaveReload(c) \/ SaveWrite(c)
    \/ OnlineFind(c) \/ OnlineOffer(c)

\* A new request arrives.
Arrive(c) ==
    \/ \E r \in Rides : Request(c, r) \/ DispatchRead(c, r)
    \/ \E r \in Rides, d \in Drivers :
          AcceptRead(c, r, d) \/ StartRead(c, r, d) \/ CompleteRead(c, r, d)
    \/ \E r \in Rides, u \in Users : CancelRead(c, r, u)
    \/ \E d \in Drivers : GoOnline(c, d)

Next ==
    \/ \E c \in Calls : Arrive(c)
    \/ \E t \in Timers : TimerTick(t)
    \/ \E c \in Slots : Step(c) \/ Abort(c)
    \/ \E r \in Rides : ScheduleComesDue(r)
    \/ \E d \in Drivers : GoOffline(d)
    \/ \E d \in Drivers, l \in TrustLevels : TrustChange(d, l)

Spec == Init /\ [][Next]_vars

(***************************************************************************)
(* Awaited queries answer and setInterval keeps firing: every call in       *)
(* flight moves on and the timer ticks.  Nothing makes a user send a        *)
(* request.                                                                 *)
(***************************************************************************)
Fairness ==
    /\ \A c \in Slots : WF_vars(Step(c))
    /\ \A t \in Timers : WF_vars(TimerTick(t))

LiveSpec == Spec /\ Fairness

=============================================================================
