------------------------------- MODULE Ratings -------------------------------
(***************************************************************************)
(* The two averages people choose by: a merchant's, from the reviews of its *)
(* orders (src/src/modules/merchants/merchant-engagement.service.ts), and a *)
(* driver's, from the ratings of rides and of rentals                       *)
(* (src/src/modules/ratings/ratings.service.ts).                            *)
(*                                                                         *)
(* A review locks the merchant's row and recomputes the average in its      *)
(* transaction; the merchant's own edits of that row load it before and     *)
(* save() it later (module TypeOrm).  A driver's average is recomputed by   *)
(* separate statements without a transaction.                               *)
(*                                                                         *)
(* There is one merchant and one driver: nothing relates two of them.  A    *)
(* driver may also be a client of other drivers, who rate clients in the    *)
(* same tables: the average is over all that name the driver as the rated   *)
(* one, but only a client's rating recomputes it.  Ratings of anybody else  *)
(* are left out; averages are in hundredths.                                *)
(***************************************************************************)
EXTENDS Naturals, FiniteSets, FiniteSetsExt, TypeOrm

CONSTANTS
    Orders,   \* delivered orders of the merchant
    Rides,    \* completed rides on which the driver may be rated
    Rentals,  \* completed rentals likewise
    Taken,    \* those the driver took as a client, rated by who drove
    Scores,   \* 1..5 in the code
    Names,    \* values of a column the merchant edits
    Calls,    \* slots for concurrent requests
    NULL      \* not rated

Trips == Rides \cup Rentals

\* What the constants may be; rides and rentals have ids of their own.
RatingsAssumption ==
    /\ Scores \subseteq Nat
    /\ IsFiniteSet(Trips) /\ Rides \cap Rentals = {} /\ Taken \subseteq Trips
    /\ NULL \notin Nat \cup Orders \cup Trips

VARIABLES
    reviews,   \* the score of each order, in merchant_reviews
    merchant,  \* the merchant's row
    ratings,   \* the score of each trip, in ratings and rental_ratings
    average,   \* the driver's rating_avg
    calls      \* the handlers in flight

vars == <<reviews, merchant, ratings, average, calls>>

\* A call: where it is, what it rates with what score, the merchant it holds,
\* the columns to write, the sum and number of ratings it has read so far, and
\* (history) the trips that were rated right after its own rating.
Idle == [pc |-> "idle", subject |-> NULL, score |-> NULL, copy |-> NULL,
         dirty |-> {}, sum |-> 0, count |-> 0, since |-> {}]

At(c, pc) == calls[c].pc = pc
Become(c, call) == calls' = [calls EXCEPT ![c] = call]

\* An order has one review, a trip one rating of the driver.
NoReviews == [o \in Orders |-> NULL]
NoRatings == [t \in Trips |-> NULL]

Rated(scores, subjects) == {s \in subjects : scores[s] # NULL}

\* SUM(score) and COUNT(id).
SumOf(scores, subjects) ==
    MapThenSumSet(LAMBDA s : scores[s], Rated(scores, subjects))
CountOf(scores, subjects) == Cardinality(Rated(scores, subjects))

\* Number((sum / count).toFixed(2)) in hundredths, and 0 for no ratings.
Mean(sum, count) ==
    IF count = 0 THEN 0 ELSE (200 * sum + count) \div (2 * count)

MeanOf(scores, subjects) ==
    Mean(SumOf(scores, subjects), CountOf(scores, subjects))

(***************************************************************************)
(* Reviews of the merchant.                                                 *)
(***************************************************************************)
MerchantLocked == \E c \in Calls : calls[c].pc \in {"review", "commit"}

\* Mutant of ReviewBegin: the merchant is read without FOR UPDATE.
ReviewBeginUnlocked(c, o, score) ==
    /\ At(c, "idle")
    /\ Become(c, [Idle EXCEPT !.pc = "review", !.subject = o, !.score = score,
                              !.copy = merchant])
    /\ UNCHANGED <<reviews, merchant, ratings, average>>

\* createReview(): lock and read the merchant, or wait for who has it locked.
ReviewBegin(c, o, score) ==
    /\ At(c, "idle")
    /\ ~MerchantLocked
    /\ Become(c, [Idle EXCEPT !.pc = "review", !.subject = o, !.score = score,
                              !.copy = merchant])
    /\ UNCHANGED <<reviews, merchant, ratings, average>>

\* Insert the review, which is refused if the order has one, and recompute.
ReviewInsert(c) ==
    LET call == calls[c]
        all == [reviews EXCEPT ![call.subject] = call.score]
    IN  /\ At(c, "review")
        /\ Become(c, IF reviews[call.subject] # NULL THEN Idle
                     ELSE [call EXCEPT !.pc = "commit",
                             !.copy.count = CountOf(all, Orders),
                             !.copy.mean = MeanOf(all, Orders)])
        /\ UNCHANGED <<reviews, merchant, ratings, average>>

\* save() the merchant and commit, the review with it.
ReviewCommit(c) ==
    LET call == calls[c] IN
    /\ At(c, "commit")
    /\ reviews' = [reviews EXCEPT ![call.subject] = call.score]
    /\ merchant' = SavedRow(merchant, call.copy,
                            DirtyColumns(call.copy, merchant))
    /\ Become(c, Idle)
    /\ UNCHANGED <<ratings, average>>

\* The merchant's own updateStorefront(), or the administrator's update().
EditRead(c, name) ==
    /\ At(c, "idle")
    /\ Become(c, [Idle EXCEPT !.pc = "reload",
                              !.copy = [merchant EXCEPT !.name = name]])
    /\ UNCHANGED <<reviews, merchant, ratings, average>>

\* save(): the SELECT ...
EditReload(c) ==
    /\ At(c, "reload")
    /\ Become(c, [calls[c] EXCEPT !.pc = "write",
                    !.dirty = DirtyColumns(calls[c].copy, merchant)])
    /\ UNCHANGED <<reviews, merchant, ratings, average>>

\* ... and the UPDATE, which waits for a review.
EditWrite(c) ==
    /\ At(c, "write")
    /\ calls[c].dirty # {} => ~MerchantLocked
    /\ merchant' = SavedRow(merchant, calls[c].copy, calls[c].dirty)
    /\ Become(c, Idle)
    /\ UNCHANGED <<reviews, ratings, average>>

(***************************************************************************)
(* Ratings of the driver.                                                   *)
(***************************************************************************)

\* rate() and rateRental() up to the insert.
RateRead(c, t, score) ==
    /\ At(c, "idle")
    /\ ratings[t] = NULL
    /\ Become(c, [Idle EXCEPT !.pc = "insert", !.subject = t, !.score = score])
    /\ UNCHANGED <<reviews, merchant, ratings, average>>

\* The insert, refused if another call has rated the trip meanwhile; a client's
\* rating goes on to the average.
RateInsert(c) ==
    LET call == calls[c] IN
    /\ At(c, "insert")
    /\ IF ratings[call.subject] # NULL
       THEN Become(c, Idle) /\ UNCHANGED ratings
       ELSE /\ ratings' = [ratings EXCEPT ![call.subject] = call.score]
            /\ Become(c, IF call.subject \in Taken THEN Idle
                         ELSE [call EXCEPT !.pc = "sum rides",
                                 !.since = Rated(ratings', Trips)])
    /\ UNCHANGED <<reviews, merchant, average>>

\* recomputeDriverAverage(): the ratings of rides whose ratee is the driver, ...
SumRides(c) ==
    /\ At(c, "sum rides")
    /\ Become(c, [calls[c] EXCEPT !.pc = "sum rentals",
                    !.sum = SumOf(ratings, Rides),
                    !.count = CountOf(ratings, Rides)])
    /\ UNCHANGED <<reviews, merchant, ratings, average>>

\* Mutant of SumRentals: a mean of the rides alone, once there are any.
SumRentalsIfNoRides(c) ==
    /\ At(c, "sum rentals")
    /\ Become(c, IF calls[c].count > 0 THEN [calls[c] EXCEPT !.pc = "average"]
                 ELSE [calls[c] EXCEPT !.pc = "average",
                         !.sum = SumOf(ratings, Rentals),
                         !.count = CountOf(ratings, Rentals)])
    /\ UNCHANGED <<reviews, merchant, ratings, average>>

\* ... those of rentals, ...
SumRentals(c) ==
    /\ At(c, "sum rentals")
    /\ Become(c, [calls[c] EXCEPT !.pc = "average",
                    !.sum = @ + SumOf(ratings, Rentals),
                    !.count = @ + CountOf(ratings, Rentals)])
    /\ UNCHANGED <<reviews, merchant, ratings, average>>

\* ... and the update of the one column.
WriteAverage(c) ==
    /\ At(c, "average")
    /\ average' = Mean(calls[c].sum, calls[c].count)
    /\ Become(c, Idle)
    /\ UNCHANGED <<reviews, merchant, ratings>>

-----------------------------------------------------------------------------

\* The process dies: calls end where they are, transactions roll back.
Crash ==
    /\ calls' = [c \in Calls |-> Idle]
    /\ UNCHANGED <<reviews, merchant, ratings, average>>

Init ==
    /\ reviews = NoReviews
    /\ merchant \in [name : Names, count : {0}, mean : {0}]
    /\ ratings = NoRatings
    /\ average = 0
    /\ calls = [c \in Calls |-> Idle]

Next ==
    \/ \E c \in Calls, o \in Orders, score \in Scores : ReviewBegin(c, o, score)
    \/ \E c \in Calls, name \in Names : EditRead(c, name)
    \/ \E c \in Calls, t \in Trips, score \in Scores : RateRead(c, t, score)
    \/ \E c \in Calls :
          \/ ReviewInsert(c) \/ ReviewCommit(c) \/ EditReload(c) \/ EditWrite(c)
          \/ RateInsert(c) \/ SumRides(c) \/ SumRentals(c) \/ WriteAverage(c)
    \/ Crash

Spec == Init /\ [][Next]_vars

=============================================================================
