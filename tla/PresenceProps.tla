---------------------------- MODULE PresenceProps ----------------------------
(***************************************************************************)
(* What availability promises: who matching may find, and who it must.      *)
(***************************************************************************)
EXTENDS Presence

\* Every variable holds what the code could put there.
TypeOK ==
    /\ profiles \in [Drivers -> Profile]
    /\ geo \in [VehicleTypes -> SUBSET Drivers]
    /\ ref \in [Drivers -> VehicleTypes \cup {NULL}]
    /\ calls \in [Calls -> Call]
    /\ aborts \in Nat

\* No call for the driver is in flight.
Quiet(d) == \A c \in Calls : calls[c].driver # d

\* A driver who went offline is not found: "Removes a driver from
\* availability (offline or while on a trip)"
\* (driver-presence.service.ts:46).
OfflineIsGone ==
    \A d \in Drivers : Quiet(d) /\ ref[d] = NULL =>
        \A type \in VehicleTypes : d \notin geo[type]

\* A driver who stays registered is found in the right set, even if an
\* overlapping goOffline() or a call that died took the driver out of the set:
\* the next position puts the driver back (updateLocation()).
RegisteredIsFound ==
    \A d \in Drivers :
        []<>(ref[d] # NULL => d \in geo[ref[d]])

=============================================================================
