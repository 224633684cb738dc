---------------------------- MODULE RatingsProps -----------------------------
(***************************************************************************)
(* What the averages promise.                                               *)
(***************************************************************************)
EXTENDS Ratings

\* Nobody edits the merchant while another call works.
EditsAlone ==
    \A b, c \in Calls :
        calls[b].pc \in {"reload", "write"} /\ b # c => At(c, "idle")

\* Whatever reviews overlap and wherever the process dies, if the merchant's
\* edits do not overlap them: the merchant's count and average are those of
\* its reviews (createReview()).
MerchantMeanAgrees ==
    /\ merchant.count = CountOf(reviews, Orders)
    /\ merchant.mean = MeanOf(reviews, Orders)

\* Whatever ratings overlap and wherever the process died before: a client's
\* rating leaves the average that of all ratings the driver has got, on rides
\* and rentals alike, as a driver or as a client, unless another one was
\* inserted before its update (recomputeDriverAverage()).
RatingHeals ==
    [][\A c \in Calls :
          WriteAverage(c) /\ calls[c].since = Rated(ratings, Trips) =>
              average' = MeanOf(ratings', Trips)]_vars

=============================================================================
