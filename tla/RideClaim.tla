------------------------------ MODULE RideClaim ------------------------------
(***************************************************************************)
(* What the ride service promises about who gets a ride, said without rows, *)
(* handlers or awaits: a ride is published once, is open until one driver   *)
(* claims it or it is withdrawn, and its holder is then settled for good    *)
(* ("The first to accept wins", rides.service.ts:87).                       *)
(***************************************************************************)
CONSTANTS Rides, Drivers, NULL

VARIABLES
    phase,   \* "unpublished", "open" or "settled"
    holder   \* the driver who claimed the ride, or NULL

Publish(r) ==
    /\ phase[r] = "unpublished"
    /\ phase' = [phase EXCEPT ![r] = "open"]
    /\ UNCHANGED holder

Claim(r, d) ==
    /\ phase[r] = "open"
    /\ phase' = [phase EXCEPT ![r] = "settled"]
    /\ holder' = [holder EXCEPT ![r] = d]

WithdrawRide(r) ==
    /\ phase[r] = "open"
    /\ phase' = [phase EXCEPT ![r] = "settled"]
    /\ UNCHANGED holder

Init ==
    /\ phase = [r \in Rides |-> "unpublished"]
    /\ holder = [r \in Rides |-> NULL]

Next == \E r \in Rides : \/ Publish(r)
                         \/ WithdrawRide(r)
                         \/ \E d \in Drivers : Claim(r, d)

Spec == Init /\ [][Next]_<<phase, holder>>

=============================================================================
