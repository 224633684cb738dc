----------------------------- MODULE Promotions ------------------------------
(***************************************************************************)
(* A merchant's promotions (src/src/modules/merchants/merchants.service.ts) *)
(* and what the best of them takes off an order at checkout                 *)
(* (src/src/modules/orders/orders.service.ts).                              *)
(*                                                                         *)
(* An update checks the promotion it loaded together with the fields it was *)
(* given and save()s it later (module TypeOrm), so two updates of one       *)
(* promotion may write a row that neither of them has checked.              *)
(*                                                                         *)
(* Amounts are whole XOF, dates are numbers.  isActive is not modelled: a   *)
(* promotion switched off is like one whose dates are over.                 *)
(***************************************************************************)
EXTENDS Integers, FiniteSets, FiniteSetsExt, TypeOrm

CONSTANTS
    Promotions,  \* promotion ids
    Calls,       \* slots for concurrent requests
    NULL,        \* a field the request does not set; no promotion
    Values,      \* discounts a merchant may enter
    Minimums,    \* minimum order amounts
    Moments      \* dates

\* What the constants may be.
PromotionsAssumption ==
    /\ Values \subseteq Nat /\ Minimums \subseteq Nat /\ Moments \subseteq Nat
    /\ NULL \notin Nat \cup Promotions

VARIABLES
    promotions,  \* the promotions table; NULL: not created yet
    calls        \* the updates in flight

vars == <<promotions, calls>>

Types == {"percentage", "fixed_amount", "free_delivery"}

Promotion == [type : Types, value : Values, minimum : Minimums,
              starts : Moments, ends : Moments]

\* validatePromotionValue(): the numbers that do not throw.
ValidValue(type, value) ==
    /\ type = "percentage" => value \in 1..100
    /\ type = "fixed_amount" => value >= 1

\* promotionDates(), and the same check in updatePromotion().
ValidDates(starts, ends) == starts < ends

Valid(row) == ValidValue(row.type, row.value) /\ ValidDates(row.starts, row.ends)

(***************************************************************************)
(* The merchant.                                                            *)
(***************************************************************************)
Idle == [pc |-> "idle", promotion |-> NULL, copy |-> NULL, dirty |-> {}]

At(c, pc) == calls[c].pc = pc
Become(c, call) == calls' = [calls EXCEPT ![c] = call]

\* createPromotion()
Create(p, row) ==
    /\ promotions[p] = NULL
    /\ Valid(row)
    /\ promotions' = [promotions EXCEPT ![p] = row]
    /\ UNCHANGED calls

Fields == {"type", "value", "minimum", "starts", "ends"}

\* What a request may set a field to.
FieldValues(field) ==
    CASE field = "type" -> Types
      [] field = "value" -> Values
      [] field = "minimum" -> Minimums
      [] OTHER -> Moments

\* Mutant of Acceptable: only the field that was given is looked at.
AcceptableField(row, field) ==
    /\ field = "type" => ValidValue(row.type, 1)
    /\ field = "value" => ValidValue(row.type, row.value)
    /\ ValidDates(row.starts, row.ends)

\* updatePromotion() checks the entity with the new field in it.
Acceptable(row, field) == Valid(row)

\* updatePromotion() up to its save(), for a request that sets one field.
UpdateRead(c, p, field, value) ==
    LET row == [promotions[p] EXCEPT ![field] = value] IN
    /\ At(c, "idle")
    /\ promotions[p] # NULL
    /\ Acceptable(row, field)
    /\ Become(c, [pc |-> "reload", promotion |-> p, copy |-> row, dirty |-> {}])
    /\ UNCHANGED promotions

\* save(): the SELECT ...
SaveReload(c) ==
    /\ At(c, "reload")
    /\ Become(c, [calls[c] EXCEPT !.pc = "write",
                    !.dirty = DirtyColumns(calls[c].copy,
                                           promotions[calls[c].promotion])])
    /\ UNCHANGED promotions

\* ... and the UPDATE.
SaveWrite(c) ==
    /\ At(c, "write")
    /\ promotions' = [promotions EXCEPT ![calls[c].promotion] =
                         SavedRow(@, calls[c].copy, calls[c].dirty)]
    /\ Become(c, Idle)

(***************************************************************************)
(* The checkout.                                                            *)
(***************************************************************************)

\* The rows bestPromotion() selects.
Live(now) ==
    {promotions[p] : p \in {q \in Promotions :
        /\ promotions[q] # NULL
        /\ promotions[q].starts <= now /\ now <= promotions[q].ends}}

Smaller(a, b) == IF a < b THEN a ELSE b

\* Mutant of OffProducts: more than the order costs.
OffProductsUncapped(row, subtotal) ==
    IF row.type = "percentage" THEN (subtotal * row.value) \div 100 ELSE row.value

\* A percentage, rounded down, or an amount; never more than the order costs.
OffProducts(row, subtotal) ==
    Smaller(subtotal, IF row.type = "percentage"
                      THEN (subtotal * row.value) \div 100 ELSE row.value)

\* What one promotion takes off the products and off the delivery.
Discount(row, subtotal, fee) ==
    IF row.type = "free_delivery" THEN [product |-> 0, delivery |-> fee]
    ELSE [product |-> OffProducts(row, subtotal), delivery |-> 0]

Total(discount) == discount.product + discount.delivery

\* One round of the loop: a promotion that takes off more becomes the best.
Better(row, best, subtotal, fee) ==
    LET discount == Discount(row, subtotal, fee) IN
    IF subtotal >= row.minimum /\ Total(discount) > Total(best)
    THEN discount ELSE best

\* bestPromotion() over the rows, which come in no particular order.
BestDiscount(rows, subtotal, fee) ==
    LET Round(row, best) == Better(row, best, subtotal, fee)
    IN  FoldSet(Round, [product |-> 0, delivery |-> 0], rows)

\* What checkout() charges.
Charge(best, subtotal, fee) ==
    subtotal - best.product + (fee - best.delivery)

-----------------------------------------------------------------------------

Init ==
    /\ promotions = [p \in Promotions |-> NULL]
    /\ calls = [c \in Calls |-> Idle]

Next ==
    \/ \E p \in Promotions, row \in Promotion : Create(p, row)
    \/ \E c \in Calls, p \in Promotions, field \in Fields :
          \E value \in FieldValues(field) : UpdateRead(c, p, field, value)
    \/ \E c \in Calls : SaveReload(c) \/ SaveWrite(c)

Spec == Init /\ [][Next]_vars

=============================================================================
