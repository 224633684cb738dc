--------------------------- MODULE PromotionsProps ---------------------------
(***************************************************************************)
(* What promotions promise the merchant and the customer.                   *)
(***************************************************************************)
EXTENDS Promotions

CONSTANTS Subtotals, Fees  \* what orders cost

\* Amounts are whole, and a merchant has entered so many promotions.
PricesAssumption ==
    Subtotals \subseteq Nat /\ Fees \subseteq Nat /\ IsFiniteSet(Promotions)

\* If updates of one promotion do not overlap, every promotion can be applied:
\* its number fits its type and it ends after it starts, although updates set
\* single fields (updatePromotion()).
PromotionsAreValid ==
    \A p \in Promotions : promotions[p] # NULL => Valid(promotions[p])

\* Whatever updates overlap: checkout never charges a negative amount nor more
\* than the order without promotions, and no live promotion would have made
\* the order cheaper (bestPromotion()).
ChargeIsFair ==
    \A now \in Moments, subtotal \in Subtotals, fee \in Fees :
        LET best == BestDiscount(Live(now), subtotal, fee)
            charge == Charge(best, subtotal, fee)
        IN  /\ charge \in 0..(subtotal + fee)
            /\ \A row \in Live(now) :
                  subtotal >= row.minimum =>
                      charge <= Charge(Discount(row, subtotal, fee),
                                       subtotal, fee)

=============================================================================
