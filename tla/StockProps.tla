------------------------------ MODULE StockProps -----------------------------
(***************************************************************************)
(* What the stock ledger promises.                                          *)
(***************************************************************************)
EXTENDS Stock

\* The call is a merchant's and works on p, or a checkout that wants p.
Works(c, p) == calls[c].product = p \/ p \in Wanted(c)

Quiet(p) == \A c \in Calls : ~Works(c, p)

\* No merchant's call on a product overlaps another call on it.  Checkouts
\* overlap one another.
MerchantsAlone ==
    \A b, c \in Calls : \A p \in Products :
        Works(b, p) /\ Works(c, p) /\ b # c => calls[b].product = NULL

\* No unit is sold twice and no movement is missing: whenever nobody works on
\* a counted product, and none of its calls stopped before its movement, the
\* newest movement tells its stock, and all of them add up to it and to what
\* went when its tracking ended (reserveLocked() under the row locks,
\* setStock(), which records no movement then).
LedgerTellsStock ==
    \A p \in Products \ torn :
        products[p].tracked /\ Quiet(p) =>
            ledger[p] = [total |-> products[p].stock + dropped[p],
                         balance |-> products[p].stock]

\* Checkouts that want the same products do not wait for each other for ever
\* (lockProducts() locks in one order).
CheckoutEnds == \A c \in Calls : At(c, "lock") ~> At(c, "idle")

=============================================================================
