-------------------------------- MODULE Stock --------------------------------
(***************************************************************************)
(* The stock of products: the inventory ledger                              *)
(* (src/src/modules/inventory/inventory.service.ts), the checkout that      *)
(* reserves units in one database transaction                               *)
(* (src/src/modules/orders/orders.service.ts) and the merchant's edits of   *)
(* the same rows (src/src/modules/merchants/merchants.service.ts).          *)
(*                                                                         *)
(* A checkout reads the products without a lock, then locks their rows one  *)
(* by one (SELECT ... ORDER BY id FOR UPDATE) and commits or rolls back.    *)
(* Merchants load, change and save() without a lock of their own; their     *)
(* UPDATE waits for the rows a checkout has locked.  A call may fail or die *)
(* at any await: a checkout rolls back, a merchant's call leaves what it    *)
(* has saved.  Prices, the promotion and the order's other columns do not   *)
(* touch the stock and are left out.  releaseOrder() is not modelled:       *)
(* nothing calls it.                                                        *)
(***************************************************************************)
EXTENDS Integers, FiniteSets, TypeOrm

CONSTANTS
    Products,     \* product ids, which are compared
    Calls,        \* slots for concurrent requests
    NULL,         \* SQL NULL, or nothing
    MaxStock,     \* bound: units a merchant enters
    MaxDropped,   \* bound: units of a product that end with its tracking
    MaxQuantity   \* units of one product in an order (50 in the code)

\* What the constants may be.
StockAssumption ==
    /\ Products \subseteq Nat /\ IsFiniteSet(Products)
    /\ MaxStock \in Nat /\ MaxDropped \in Nat /\ MaxQuantity \in Nat \ {0}
    /\ NULL \notin Nat \cup Calls

VARIABLES
    products,  \* the products table
    ledger,    \* the sum of each product's inventory_movements, and the
               \* newest one's balance
    calls,     \* the handlers in flight
    dropped,   \* history: the units of each product that went, without a
               \* movement, when its tracking ended
    torn       \* history: products whose stock changed in a call that
               \* stopped before it recorded the movement

pasts == <<dropped, torn>>
vars == <<products, ledger, calls, pasts>>

Units == 0..MaxStock

\* A row of products as it is created.
NewProduct == [tracked |-> FALSE, stock |-> NULL, available |-> TRUE]

NoMovements == [total |-> 0, balance |-> 0]

\* One more row of inventory_movements.
Recorded(movements, delta, balance) ==
    [total |-> movements.total + delta, balance |-> balance]

Wants == [Products -> 0..MaxQuantity]
WantsNothing == [p \in Products |-> 0]

\* A checkout has what it wants and the rows it has locked, as it saw them; a
\* merchant's call the product, the entity it holds, the columns to write, and
\* the stock it remembers as the previous one.
Idle == [pc |-> "idle", wants |-> WantsNothing,
         seen |-> [p \in Products |-> NULL], product |-> NULL,
         copy |-> NewProduct, dirty |-> {}, previous |-> NULL,
         ledger |-> FALSE]

At(c, pc) == calls[c].pc = pc
Become(c, call) == calls' = [calls EXCEPT ![c] = call]

\* product.stockQuantity ?? 0
OrZero(stock) == IF stock = NULL THEN 0 ELSE stock

(***************************************************************************)
(* checkout()                                                               *)
(***************************************************************************)

Wanted(c) == {p \in Products : calls[c].wants[p] > 0}
Held(c) == {p \in Products : calls[c].seen[p] # NULL}
Locked(p) == \E c \in Calls : p \in Held(c)

\* The products as they are before the transaction: all must be on sale.
CheckoutRead(c, wants) ==
    /\ At(c, "idle")
    /\ wants # WantsNothing
    /\ \A p \in Products : wants[p] > 0 => products[p].available
    /\ Become(c, [Idle EXCEPT !.pc = "lock", !.wants = wants])
    /\ UNCHANGED <<products, ledger, pasts>>

\* Mutant of Next to lock: in the order of the request.
NextToLockAny(c, p) == p \in Wanted(c) \ Held(c)

\* lockProducts() sorts the ids.
NextToLock(c, p) ==
    /\ p \in Wanted(c) \ Held(c)
    /\ \A q \in Wanted(c) \ Held(c) : p <= q

\* Mutant of Lock: the rows are read without FOR UPDATE.
LockNothing(c, p) ==
    /\ At(c, "lock")
    /\ NextToLock(c, p)
    /\ Become(c, [calls[c] EXCEPT !.seen[p] = products[p]])
    /\ UNCHANGED <<products, ledger, pasts>>

\* A row that another transaction has locked keeps this one waiting.
Lock(c, p) ==
    /\ At(c, "lock")
    /\ NextToLock(c, p)
    /\ ~Locked(p)
    /\ Become(c, [calls[c] EXCEPT !.seen[p] = products[p]])
    /\ UNCHANGED <<products, ledger, pasts>>

\* What lockProducts() asks of a row it has locked.
InStock(row, quantity) ==
    row.tracked => row.available /\ OrZero(row.stock) >= quantity

\* All rows are locked: throw and roll back, ...
Refuse(c) ==
    /\ At(c, "lock")
    /\ Wanted(c) = Held(c)
    /\ \E p \in Wanted(c) : ~InStock(calls[c].seen[p], calls[c].wants[p])
    /\ Become(c, Idle)
    /\ UNCHANGED <<products, ledger, pasts>>

\* ... or reserve the units and commit.  The order is new, so the key of each
\* movement is too, and none is taken for a repetition.
Reserve(c) ==
    LET call == calls[c]
        Left(p) == OrZero(call.seen[p].stock) - call.wants[p]
        reserved == {p \in Held(c) : call.seen[p].tracked}
    IN  /\ At(c, "lock")
        /\ Wanted(c) = Held(c)
        /\ \A p \in Wanted(c) : InStock(call.seen[p], call.wants[p])
        /\ products' = [p \in Products |->
               IF p \in reserved THEN [products[p] EXCEPT !.stock = Left(p)]
               ELSE products[p]]
        /\ ledger' = [p \in Products |->
               IF p \in reserved
               THEN Recorded(ledger[p], -call.wants[p], Left(p))
               ELSE ledger[p]]
        /\ Become(c, Idle)
        /\ UNCHANGED pasts

(***************************************************************************)
(* The merchant.                                                            *)
(***************************************************************************)

\* setStock() up to its save(): an untracked product has no previous stock.
SetStockRead(c, p, tracked, stock) ==
    LET row == products[p] IN
    /\ At(c, "idle")
    /\ ~tracked => dropped[p] + OrZero(row.stock) <= MaxDropped
    /\ Become(c, [Idle EXCEPT
           !.pc = "reload", !.product = p, !.ledger = tracked,
           !.previous = IF row.tracked THEN OrZero(row.stock) ELSE NULL,
           !.copy = [row EXCEPT !.tracked = tracked,
                                !.stock = IF tracked THEN stock ELSE NULL]])
    /\ UNCHANGED <<products, ledger, pasts>>

\* updateProduct() (and saveProductImage(), which changes no column here).
EditRead(c, p, available) ==
    /\ At(c, "idle")
    /\ Become(c, [Idle EXCEPT !.pc = "reload", !.product = p,
                     !.copy = [products[p] EXCEPT !.available = available]])
    /\ UNCHANGED <<products, ledger, pasts>>

\* save(): the SELECT ...
SaveReload(c) ==
    /\ At(c, "reload")
    /\ Become(c, [calls[c] EXCEPT !.pc = "write",
                    !.dirty = DirtyColumns(calls[c].copy,
                                           products[calls[c].product])])
    /\ UNCHANGED <<products, ledger, pasts>>

\* The units a save takes from the row without a movement: all there were, if
\* it ends the tracking.
Untracked(row, saved) ==
    IF row.tracked /\ ~saved.tracked THEN OrZero(row.stock) ELSE 0

\* ... and the UPDATE, which waits for a checkout's lock; setStock() goes on
\* if the stock is not what it was.
SaveWrite(c) ==
    LET call == calls[c]
        row == products[call.product]
        saved == SavedRow(row, call.copy, call.dirty)
    IN  /\ At(c, "write")
        /\ call.dirty # {} => ~Locked(call.product)
        /\ products' = [products EXCEPT ![call.product] = saved]
        /\ dropped' = [dropped EXCEPT ![call.product] = @ + Untracked(row, saved)]
        /\ IF call.ledger /\ call.previous # call.copy.stock
           THEN Become(c, [call EXCEPT !.pc = "record"])
           ELSE Become(c, Idle)
        /\ UNCHANGED <<ledger, torn>>

Delta(call) == call.copy.stock - OrZero(call.previous)

\* The movement, in a statement of its own; earlier ones stay.
Record(c) ==
    LET call == calls[c] IN
    /\ At(c, "record")
    /\ ledger' = [ledger EXCEPT ![call.product] =
                     Recorded(@, Delta(call), call.copy.stock)]
    /\ Become(c, Idle)
    /\ UNCHANGED <<products, pasts>>

(***************************************************************************)
(* A query fails or the process dies: the call ends, a checkout's           *)
(* transaction rolls back.                                                  *)
(***************************************************************************)
Stop(c) ==
    /\ ~At(c, "idle")
    /\ torn' = IF At(c, "record") THEN torn \cup {calls[c].product} ELSE torn
    /\ Become(c, Idle)
    /\ UNCHANGED <<products, ledger, dropped>>

-----------------------------------------------------------------------------

Init ==
    /\ products = [p \in Products |-> NewProduct]
    /\ ledger = [p \in Products |-> NoMovements]
    /\ calls = [c \in Calls |-> Idle]
    /\ dropped = [p \in Products |-> 0]
    /\ torn = {}

\* The next step of a handler in flight.
Step(c) ==
    \/ \E p \in Products : Lock(c, p)
    \/ Refuse(c) \/ Reserve(c) \/ SaveReload(c) \/ SaveWrite(c) \/ Record(c)

Next ==
    \/ \E c \in Calls, wants \in Wants : CheckoutRead(c, wants)
    \/ \E c \in Calls, p \in Products, tracked \in BOOLEAN, stock \in Units :
          SetStockRead(c, p, tracked, stock)
    \/ \E c \in Calls, p \in Products, available \in BOOLEAN :
          EditRead(c, p, available)
    \/ \E c \in Calls : Step(c) \/ Stop(c)

Spec == Init /\ [][Next]_vars

\* Queries answer, and PostgreSQL serves those who wait for a row in turn.
Fairness == \A c \in Calls : SF_vars(Step(c))

=============================================================================
