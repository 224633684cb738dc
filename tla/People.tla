------------------------------- MODULE People --------------------------------
(***************************************************************************)
(* What the platform keeps for its users and shows them, side by side:      *)
(* rentals (Rentals), the trust in a driver and what it allows (Trust,      *)
(* TrustCaps), averages (Ratings), files (Uploads), signing in (Accounts)   *)
(* and lists (Pages).  They share no state, so each behaviour moves one     *)
(* part, chosen at the start, and the others stay as they are.              *)
(***************************************************************************)
EXTENDS RentalsProps, TrustCaps

CONSTANTS d1,
          Guarantors, Companies, Required,
          Orders, Rides, RentalTrips, Taken, Scores, Names,
          Pictures, Products, Documents, Files,
          Codes, Tokens, MaxAttempts, MaxDeaths,
          Limit, Take, Ids, Ranks, PerMilli, MaxRows

VARIABLES
    part,    \* the part that moves
    serial,  \* do its calls follow one another?
    trustRows, trustDocuments, trustCalls, cleared, missed,
    reviews, merchant, ratings, average, ratingCalls,
    fileRows, disk, fileCalls, blamed, byHand,
    redis, user, accountCalls, tally,
    listed, sources, walk

trustVars == <<trustRows, trustDocuments, trustCalls, cleared, missed>>
ratingVars == <<reviews, merchant, ratings, average, ratingCalls>>
fileVars == <<fileRows, disk, fileCalls, blamed, byHand>>
accountVars == <<redis, user, accountCalls, tally>>
pageVars == <<listed, sources, walk>>

partVars == <<part, serial, vars, caps, trustVars, ratingVars, fileVars,
              accountVars, pageVars>>

Tr == INSTANCE TrustProps WITH
          Drivers <- {d1},
          rows <- trustRows, documents <- trustDocuments, calls <- trustCalls
Ra == INSTANCE RatingsProps WITH Rentals <- RentalTrips, calls <- ratingCalls
Up == INSTANCE UploadsProps WITH rows <- fileRows, calls <- fileCalls
Ac == INSTANCE AccountsProps WITH calls <- accountCalls
Pa == INSTANCE PagesProps WITH rows <- listed

ASSUME PartsAssumption ==
    /\ Tr!TrustAssumption /\ Ra!RatingsAssumption /\ Up!UploadsAssumption
    /\ Ac!AccountsAssumption /\ Pa!PagesAssumption

ASSUME CallsAssumption == IsFiniteSet(Calls)

(***************************************************************************)
(* The calls that may overlap (those of rentals: OneAtATime).               *)
(***************************************************************************)

\* At most one of the calls is in flight.
Alone(inFlight) ==
    \A b, c \in Calls :
        inFlight[b].pc # "idle" /\ inFlight[c].pc # "idle" => b = c

(***************************************************************************)
(* One part moves.                                                          *)
(***************************************************************************)
PartInit ==
    /\ Init /\ CapsInit /\ Tr!Init /\ Ra!Init /\ Up!Init /\ Ac!Init /\ Pa!Init
    /\ part \in {"rentals", "trust", "caps", "ratings", "files", "accounts", "pages"}
    /\ serial \in IF part \in {"trust", "files", "accounts"} THEN BOOLEAN
                  ELSE {FALSE}

RentalsMove ==
    /\ part = "rentals" /\ Next
    /\ OneAtATime'
    /\ UNCHANGED <<part, serial, caps, trustVars, ratingVars, fileVars,
                   accountVars, pageVars>>

CapsMove ==
    /\ part = "caps" /\ CapsNext
    /\ UNCHANGED <<part, serial, vars, trustVars, ratingVars, fileVars,
                   accountVars, pageVars>>

TrustMoves ==
    /\ part = "trust" /\ Tr!Next
    /\ serial => Alone(trustCalls)'
    /\ UNCHANGED <<part, serial, vars, caps, ratingVars, fileVars,
                   accountVars, pageVars>>

RatingsMove ==
    /\ part = "ratings" /\ Ra!Next
    /\ Ra!EditsAlone'
    /\ UNCHANGED <<part, serial, vars, caps, trustVars, fileVars,
                   accountVars, pageVars>>

FilesMove ==
    /\ part = "files" /\ Up!Next
    /\ IF serial THEN Alone(fileCalls)' ELSE Up!EditsAlone'
    /\ UNCHANGED <<part, serial, vars, caps, trustVars, ratingVars,
                   accountVars, pageVars>>

AccountsMove ==
    /\ part = "accounts" /\ Ac!Next
    /\ serial => Alone(accountCalls)'
    /\ UNCHANGED <<part, serial, vars, caps, trustVars, ratingVars, fileVars,
                   pageVars>>

PagesMove ==
    /\ part = "pages" /\ Pa!Next
    /\ UNCHANGED <<part, serial, vars, caps, trustVars, ratingVars, fileVars,
                   accountVars>>

PartNext ==
    \/ RentalsMove \/ CapsMove \/ TrustMoves \/ RatingsMove
    \/ FilesMove \/ AccountsMove \/ PagesMove

PartSpec == PartInit /\ [][PartNext]_partVars

(***************************************************************************)
(* What the parts promise, with the calls that may overlap.                 *)
(***************************************************************************)

\* If requests and listeners follow one another, a driver's level is that of
\* the present documents and sponsors (refreshTrustLevel() after each change),
\* unless the call that was to refresh it failed.
LevelIsDerived == serial => Tr!LevelIsDerived

\* However requests interleave, nobody is approved without the documents
\* (assertComplete() in submit() and review()).
ApprovedHasDocuments == Tr!ApprovedHasDocuments

\* If requests follow one another, an approval stays (submit(),
\* reopenRejected()).
ApprovalStays ==
    [][serial => \A d \in {d1} : Tr!ApprovalStays(d)]_<<serial, trustVars>>

\* However reviews overlap and wherever the process dies, a merchant's average
\* is that of its reviews (createReview()).
MerchantMeanAgrees == Ra!MerchantMeanAgrees

\* A client's rating that no other one overtakes leaves the average that of all
\* ratings of the driver, whatever happened before (recomputeDriverAverage()).
RatingHeals == Ra!RatingHeals

\* However uploads overlap and fail, the picture a row names is on the disk,
\* but for what edits name by hand; edits do not overlap other calls on their
\* row (saveLogo(), saveCategoryImage(), saveProductImage()).
PictureExists == Up!PictureExists

\* If uploads follow one another, none leaves a file behind or loses one, but
\* for those turned down or died, whose document could not be saved, or that
\* edits name by hand (saveLogo() and the others, saveDocument()).
NoFileIsLost == serial => Up!NoFileIsLost

\* The requests that may run at the same time.
AtOnce == IF serial THEN 1 ELSE Cardinality(Calls)

\* A one-time code is accepted once and locked after too many wrong tries
\* (verifyOtp()).
CodeIsGuarded == Ac!CodeIsGuarded(AtOnce)

\* A refresh token buys one new pair each time it is issued (refresh()).
TokenIsUsedOnce == Ac!TokenIsUsedOnce(AtOnce)

\* However rows come and go and queries fail, the pages of a list are one list
\* in order (feed(), activity(), listReviews()).
PagesInOrder == Pa!PagesInOrder

\* A row that is there all the time is shown, if no query fails or is cut
\* short (feed(), activity(), listReviews()).
NoRowIsSkipped == Pa!NoRowIsSkipped

=============================================================================
