----------------------------- MODULE TrustProps ------------------------------
(***************************************************************************)
(* What a driver's level of trust promises.                                 *)
(***************************************************************************)
EXTENDS Trust

Quiet == \A c \in Calls : At(c, "idle")

\* What the driver's documents and sponsors are worth now.
Worth(d) ==
    IF rows[d].company # NULL /\ Vouches(rows[d].company) THEN 3
    ELSE IF rows[d].guarantor # NULL /\ Vouches(rows[d].guarantor) THEN 2
    ELSE FromDocuments(rows[d])

\* If requests and listeners follow one another, the level on which the offer
\* of a parcel depends is that of the driver's present documents and sponsors,
\* whichever of them changed last ("recomputed by TrustService on any change",
\* driver-profile.entity.ts:51), but for the drivers whom a call that failed was
\* still to refresh and none has refreshed since.
LevelIsDerived ==
    Quiet => \A d \in Drivers \ missed : rows[d].level = Worth(d)

\* However requests and stale saves interleave, nobody is approved without the
\* documents (assertComplete() in submit() and review()).
ApprovedHasDocuments ==
    \A d \in Drivers : rows[d].kyc = "approved" => Required \subseteq documents[d]

\* An approval stays, if requests follow one another: a new document or
\* vehicle does not send the driver back (submit(), reopenRejected()).
ApprovalStays(d) == rows[d].kyc = "approved" => rows'[d].kyc = "approved"

\* An assignment that names neither a guarantor nor a company leaves the driver
\* with neither ("pass neither to clear both links", assign-trust.dto.ts:4).
ClearedHasNoSponsor ==
    \A d \in cleared :
        Quiet => rows[d].guarantor = NULL /\ rows[d].company = NULL

=============================================================================
