------------------------------ MODULE Presence ------------------------------
(***************************************************************************)
(* Driver availability: the profile row of drivers.service.ts and the Redis *)
(* keys of driver-presence.service.ts, one geospatial set per vehicle type  *)
(* and, per driver, the key that says which of them the driver is in.       *)
(*                                                                         *)
(* Every Redis command is awaited by itself, so each is an action.  The app *)
(* sends positions on a timer of its own, a driver may tap twice, and the   *)
(* ride service takes a driver offline on accept: calls for one driver do   *)
(* overlap.  Positions are left out: a set is a set of drivers.             *)
(***************************************************************************)
EXTENDS Naturals, TypeOrm

CONSTANTS
    Drivers,
    VehicleTypes,
    Calls,          \* slots for concurrent requests
    NULL,           \* nil in Redis, undefined in the code
    VehicleChanges, \* may a driver edit the vehicle of the profile?
    MaxAborts       \* bound: calls that fail or die half-way

\* What the constants may be.
PresenceAssumption ==
    /\ NULL \notin VehicleTypes \cup Drivers
    /\ VehicleChanges \in BOOLEAN
    /\ MaxAborts \in Nat

VARIABLES
    profiles, \* driver_profiles: the columns these handlers write
    geo,      \* drivers:available:<type>
    ref,      \* driver:set:<userId>: the type of the set, or NULL
    calls,    \* the handlers in flight
    aborts    \* how many calls have died half-way

vars == <<profiles, geo, ref, calls, aborts>>

Profile == [available : BOOLEAN, vehicle : VehicleTypes]

PCs == {"idle", "reload", "write", "geoadd", "setref",
        "zrem", "del", "unavailable", "locadd"}

\* A call: where it is, its driver, the profile it loaded, the columns save()
\* decided to write, the set it works on, and whether it goes online after.
Call == [pc : PCs, driver : Drivers \cup {NULL}, copy : Profile \cup {NULL},
         dirty : SUBSET {"available", "vehicle"}, key : VehicleTypes \cup {NULL},
         online : BOOLEAN]

Idle == [pc |-> "idle", driver |-> NULL, copy |-> NULL, dirty |-> {},
         key |-> NULL, online |-> FALSE]

At(c, pc) == calls[c].pc = pc
Become(c, call) == calls' = [calls EXCEPT ![c] = call]
GoTo(c, pc) == Become(c, [calls[c] EXCEPT !.pc = pc])

(***************************************************************************)
(* DriversService.goOnline(): save the profile as available, then index the *)
(* driver under the vehicle type read with it.  KYC is approved and the     *)
(* vehicle complete; other drivers are turned away and change nothing.      *)
(***************************************************************************)
OnlineRead(c, d) ==
    /\ At(c, "idle")
    /\ Become(c, [Idle EXCEPT !.pc = "reload", !.driver = d, !.online = TRUE,
                    !.copy = [profiles[d] EXCEPT !.available = TRUE],
                    !.key = profiles[d].vehicle])
    /\ UNCHANGED <<profiles, geo, ref, aborts>>

\* KycService.updateProfile(): the driver enters another vehicle.
VehicleRead(c, d) ==
    /\ VehicleChanges
    /\ At(c, "idle")
    /\ \E type \in VehicleTypes :
          Become(c, [Idle EXCEPT !.pc = "reload", !.driver = d,
                       !.copy = [profiles[d] EXCEPT !.vehicle = type]])
    /\ UNCHANGED <<profiles, geo, ref, aborts>>

SaveReload(c) ==
    /\ At(c, "reload")
    /\ Become(c, [calls[c] EXCEPT !.pc = "write",
                    !.dirty = DirtyColumns(calls[c].copy,
                                           profiles[calls[c].driver])])
    /\ UNCHANGED <<profiles, geo, ref, aborts>>

SaveWrite(c) ==
    /\ At(c, "write")
    /\ profiles' = [profiles EXCEPT ![calls[c].driver] =
                       SavedRow(@, calls[c].copy, calls[c].dirty)]
    /\ IF calls[c].online THEN GoTo(c, "geoadd") ELSE Become(c, Idle)
    /\ UNCHANGED <<geo, ref, aborts>>

\* DriverPresenceService.goOnline(): GEOADD, then SET.
OnlineGeoadd(c) ==
    /\ At(c, "geoadd")
    /\ geo' = [geo EXCEPT ![calls[c].key] = @ \cup {calls[c].driver}]
    /\ GoTo(c, "setref")
    /\ UNCHANGED <<profiles, ref, aborts>>

OnlineSetRef(c) ==
    /\ At(c, "setref")
    /\ ref' = [ref EXCEPT ![calls[c].driver] = calls[c].key]
    /\ Become(c, Idle)
    /\ UNCHANGED <<profiles, geo, aborts>>

(***************************************************************************)
(* goOffline(): GET the reference, ZREM from that set, DEL the reference,   *)
(* then UPDATE the profile.                                                 *)
(***************************************************************************)
OfflineGet(c, d) ==
    /\ At(c, "idle")
    /\ Become(c, [Idle EXCEPT !.pc = IF ref[d] = NULL THEN "del" ELSE "zrem",
                              !.driver = d, !.key = ref[d]])
    /\ UNCHANGED <<profiles, geo, ref, aborts>>

OfflineZrem(c) ==
    /\ At(c, "zrem")
    /\ geo' = [geo EXCEPT ![calls[c].key] = @ \ {calls[c].driver}]
    /\ GoTo(c, "del")
    /\ UNCHANGED <<profiles, ref, aborts>>

OfflineDel(c) ==
    /\ At(c, "del")
    /\ ref' = [ref EXCEPT ![calls[c].driver] = NULL]
    /\ GoTo(c, "unavailable")
    /\ UNCHANGED <<profiles, geo, aborts>>

OfflineUpdate(c) ==
    /\ At(c, "unavailable")
    /\ profiles' = [profiles EXCEPT ![calls[c].driver].available = FALSE]
    /\ Become(c, Idle)
    /\ UNCHANGED <<geo, ref, aborts>>

(***************************************************************************)
(* updateLocation(): GET the reference; GEOADD, which inserts a member that *)
(* is not there.  Without a reference the request is refused.               *)
(***************************************************************************)
LocationGet(c, d) ==
    /\ At(c, "idle")
    /\ ref[d] # NULL
    /\ Become(c, [Idle EXCEPT !.pc = "locadd", !.driver = d, !.key = ref[d]])
    /\ UNCHANGED <<profiles, geo, ref, aborts>>

\* Mutant of LocationAdd: GEOADD with XX, which only moves a member.
LocationMove(c) ==
    /\ At(c, "locadd")
    /\ Become(c, Idle)
    /\ UNCHANGED <<profiles, geo, ref, aborts>>

LocationAdd(c) ==
    /\ At(c, "locadd")
    /\ geo' = [geo EXCEPT ![calls[c].key] = @ \cup {calls[c].driver}]
    /\ Become(c, Idle)
    /\ UNCHANGED <<profiles, ref, aborts>>

\* A command or query throws, or the process dies.
Abort(c) ==
    /\ ~At(c, "idle")
    /\ aborts < MaxAborts
    /\ aborts' = aborts + 1
    /\ Become(c, Idle)
    /\ UNCHANGED <<profiles, geo, ref>>

-----------------------------------------------------------------------------

Init ==
    /\ profiles \in [Drivers -> [available : {FALSE}, vehicle : VehicleTypes]]
    /\ geo = [type \in VehicleTypes |-> {}]
    /\ ref = [d \in Drivers |-> NULL]
    /\ calls = [c \in Calls |-> Idle]
    /\ aborts = 0

\* The next step of a handler in flight.
Step(c) ==
    \/ SaveReload(c) \/ SaveWrite(c)
    \/ OnlineGeoadd(c) \/ OnlineSetRef(c)
    \/ OfflineZrem(c) \/ OfflineDel(c) \/ OfflineUpdate(c)
    \/ LocationAdd(c)

Arrive(c) ==
    \E d \in Drivers :
        OnlineRead(c, d) \/ VehicleRead(c, d) \/ OfflineGet(c, d) \/ LocationGet(c, d)

Next == \E c \in Calls : Arrive(c) \/ Step(c) \/ Abort(c)

Spec == Init /\ [][Next]_vars

(***************************************************************************)
(* Awaited commands answer, and the app of a driver who counts as online    *)
(* keeps sending positions.                                                 *)
(***************************************************************************)
Fairness ==
    /\ \A c \in Calls : WF_vars(Step(c))
    /\ \A d \in Drivers : SF_vars(\E c \in Calls : LocationGet(c, d))

LiveSpec == Spec /\ Fairness

=============================================================================
