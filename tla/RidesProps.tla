----------------------------- MODULE RidesProps ------------------------------
(***************************************************************************)
(* What the ride service promises, and what it says it does and does not.   *)
(***************************************************************************)
EXTENDS Rides, RideMoves

\* Every variable holds what the code could put there.
TypeOK ==
    /\ rides \in [Rides -> Row]
    /\ bookings \in [Rides -> Bookings]
    /\ due \subseteq Rides
    /\ calls \in [Slots -> Call]
    /\ pool \subseteq Drivers
    /\ offers \in [Rides -> SUBSET Drivers]
    /\ level \in [Drivers -> TrustLevels]
    /\ aborts \in Nat
    /\ winners \in [Rides -> SUBSET Drivers]
    /\ dispatches \in [Rides -> Nat]

(***************************************************************************)
(* The claim.                                                               *)
(***************************************************************************)

\* However accepts, cancellations and stale saves interleave, at most one
\* driver is ever told the ride is theirs, and the row never names another
\* (the conditional UPDATE of accept()).
OneWinner ==
    \A r \in Rides :
        /\ \A d, e \in winners[r] : d = e
        /\ rides[r].driver # NULL => rides[r].driver \in winners[r]

\* No save() of a stale entity puts a ride back on offer: once it has left
\* REQUESTED it never returns, so the claim cannot be run twice.
NeverPendingAgain ==
    [][\A r \in Rides : rides[r].status \notin {"none", "requested"} =>
                        rides'[r].status \notin {"none", "requested"}]_vars

\* A ride that is ACCEPTED names the driver who is on the way, whatever
\* cancellations that loaded the row before the claim are still about to write.
AcceptedHasDriver ==
    \A r \in Rides : rides[r].status = "accepted" => rides[r].driver # NULL

(***************************************************************************)
(* Scheduled deliveries.                                                    *)
(***************************************************************************)

\* The merchant's "dispatch now" and overlapping timer ticks release a planned
\* delivery at most once, so drivers get one broadcast of it
\* (claimAndDispatchScheduled()).
DispatchedAtMostOnce == \A r \in Rides : dispatches[r] <= 1

\* Nobody carries a planned delivery that was not released to drivers first.
ClaimedAfterDispatch ==
    \A r \in Rides :
        bookings[r].scheduled /\ winners[r] # {} => dispatches[r] = 1

\* A planned delivery whose time has come does not stay withheld: the timer
\* releases it unless somebody cancels it, even if some ticks die half-way.
DueIsDispatched ==
    \A r \in Rides :
        (r \in due /\ rides[r].status = "requested") ~>
            (rides[r].status # "requested" \/ rides[r].dispatched)

(***************************************************************************)
(* Trust.                                                                   *)
(***************************************************************************)

\* Only drivers trusted with a parcel see it, whichever of the three paths
\* (request, dispatch, driver coming online) shows it to them.
OffersMeetTrust ==
    \A r \in Rides : \A d \in offers[r] : Trusted(d, r)

\* A driver who wins a parcel is, at that moment, trusted with it: "Checked
\* before the atomic claim so an under-trusted driver can't race to win the
\* ride" (rides.service.ts:242).
WinnerIsTrusted ==
    [][\A r \in Rides : \A d \in winners'[r] \ winners[r] : Trusted(d, r)]_vars

(***************************************************************************)
(* One call at a time.                                                      *)
(***************************************************************************)

\* Leaving a status for another one, along RideMoves or not.
LegalMove(from, to) == from \notin {"none", to} => <<from, to>> \in LegalMoves

\* A trip under way or done has its driver, and cash is settled exactly when
\* the trip is done ("Mark cash as paid on completion", rides.service.ts:351).
TripIsConsistent ==
    \A r \in Rides :
        /\ rides[r].status \in {"in_progress", "completed"} =>
               rides[r].driver \in winners[r]
        /\ rides[r].payment = "paid" <=>
               rides[r].status = "completed" /\ bookings[r].cash

(***************************************************************************)
(* The service implements the abstract claim.                               *)
(***************************************************************************)

Phase == [r \in Rides |->
            CASE rides[r].status = "none" -> "unpublished"
              [] rides[r].status = "requested" -> "open"
              [] OTHER -> "settled"]

TheWinner(won) == IF won = {} THEN NULL ELSE CHOOSE d \in won : TRUE

Holder == [r \in Rides |-> TheWinner(winners[r])]

Abstract == INSTANCE RideClaim WITH phase <- Phase, holder <- Holder

\* Every step of the handlers publishes, claims or withdraws a ride, or leaves
\* who holds it alone.
ImplementsClaim == Abstract!Spec

=============================================================================
