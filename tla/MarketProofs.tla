----------------------------- MODULE MarketProofs ----------------------------
(***************************************************************************)
(* Proofs about what the market offers, for any products, quantities,       *)
(* promotions, prices and number of overlapping calls.                      *)
(*                                                                         *)
(* The stock ledger: checkouts never lock one row together, and if no       *)
(* merchant's call on a product overlaps another call on it, the movements  *)
(* of a product tell its stock and what went when its tracking ended.  The  *)
(* invariant says what a call knows: a checkout that has locked a row knows *)
(* it as it is, and so does a merchant's call, which is alone.  The ledger  *)
(* is behind only while a movement is still to be stored, by the units that *)
(* movement brings, or for good if the call stopped before it.              *)
(*                                                                         *)
(* Promotions: the loop over them finds the best one, and those that were   *)
(* updated one after another can be applied.                                *)
(***************************************************************************)
EXTENDS Market, FiniteSetTheorems, WellFoundedInduction, TLAPS

(***************************************************************************)
(* The stock ledger.                                                        *)
(***************************************************************************)


\* A row of products: a product has a number of units under tracking alone.
Row == {row \in [tracked : BOOLEAN, stock : Nat \cup {NULL},
                 available : BOOLEAN] : row.tracked <=> row.stock \in Nat}

Call == [pc : {"idle", "lock", "reload", "write", "record"},
         wants : Wants, seen : [Products -> Row \cup {NULL}],
         product : Products \cup {NULL}, copy : Row,
         dirty : SUBSET {"tracked", "stock", "available"},
         previous : Nat \cup {NULL}, ledger : BOOLEAN]

\* What a merchant's call is about to save, given the row it has read.
Prepared(row, call) ==
    IF call.ledger
    THEN call.copy.tracked /\ call.previous = row.stock
    ELSE call.copy.tracked => row.tracked /\ call.copy.stock = row.stock

\* What a call knows of the table, wherever it is.
InOrder(table, call) ==
    /\ call \in Call
    /\ call.pc \in {"idle", "lock"} => call.product = NULL
    /\ call.pc # "lock" => \A p \in Products : call.seen[p] = NULL
    /\ call.pc = "lock" =>
           \A p \in Products :
               call.seen[p] # NULL => call.wants[p] > 0 /\ call.seen[p] = table[p]
    /\ call.pc \in {"reload", "write"} =>
           call.product \in Products /\ Prepared(table[call.product], call)
    /\ call.pc = "write" =>
           call.dirty = DirtyColumns(call.copy, table[call.product])
    /\ call.pc = "record" =>
           /\ call.product \in Products
           /\ table[call.product].tracked
           /\ table[call.product].stock = call.copy.stock

\* No two checkouts have locked one row.
LocksExclude ==
    \A b, c \in Calls : b # c => Held(b) \cap Held(c) = {}

\* A movement of the product is still to be stored.
Recording(p) == \E c \in Calls : At(c, "record") /\ calls[c].product = p

\* The movements of a product add up to these units and to what was dropped.
AddUpTo(p, units) == ledger[p].total = units + dropped[p]

\* What the movements of a product say, and what they say until the one that is
\* missing is stored.
Told ==
    \A p \in Products \ torn :
        /\ ~Recording(p) =>
               /\ AddUpTo(p, OrZero(products[p].stock))
               /\ products[p].tracked => ledger[p].balance = products[p].stock
        /\ \A c \in Calls :
               At(c, "record") /\ calls[c].product = p =>
                   AddUpTo(p, OrZero(calls[c].previous))

\* The inductive invariant.
Kept ==
    /\ products \in [Products -> Row]
    /\ ledger \in [Products -> [total : Int, balance : Int]]
    /\ dropped \in [Products -> Nat]
    /\ DOMAIN calls = Calls
    /\ \A c \in Calls : InOrder(products, calls[c])
    /\ LocksExclude
    /\ Told

\* A call that has ended knows nothing.
LEMMA IdleInOrder ==
    ASSUME StockAssumption, NEW table
    PROVE  /\ InOrder(table, Idle)
           /\ Idle.pc = "idle" /\ \A p \in Products : Idle.seen[p] = NULL
<1>1. NewProduct \in Row
    BY DEF NewProduct, Row, StockAssumption
<1>2. WantsNothing \in Wants
    BY DEF WantsNothing, Wants, StockAssumption
<1>3. [p \in Products |-> NULL] \in [Products -> Row \cup {NULL}]
    OBVIOUS
<1>4. Idle \in Call
    BY <1>1, <1>2, <1>3 DEF Idle, Call
<1>. QED BY <1>4 DEF InOrder, Idle

\* It has locked nothing either.
LEMMA IdleHoldsNothing ==
    Idle.pc = "idle" /\ \A p \in Products : Idle.seen[p] = NULL
BY DEF Idle

\* What a call knows stays true if its rows do not change.
LEMMA StaysInOrder ==
    ASSUME NEW table, NEW table2, NEW call, InOrder(table, call),
           \A p \in Products :
               p = call.product \/ call.seen[p] # NULL => table2[p] = table[p]
    PROVE  InOrder(table2, call)
BY DEF InOrder

\* The call moves on alone and has no movement to store before or after.
LEMMA CallMoves ==
    ASSUME Kept, NEW c \in Calls, NEW call, Become(c, call),
           InOrder(products, call),
           call.pc # "record", calls[c].pc # "record",
           \A p \in Products : call.seen[p] # NULL =>
               \A b \in Calls : b # c => p \notin Held(b),
           UNCHANGED <<products, ledger, pasts>>
    PROVE  Kept'
<1>1. /\ DOMAIN calls' = Calls /\ calls'[c] = call
      /\ \A b \in Calls : b # c => calls'[b] = calls[b]
    BY DEF Kept, Become
<1>2. \A b \in Calls : InOrder(products, calls'[b])
    BY <1>1 DEF Kept
<1>3. LocksExclude'
    BY <1>1 DEF Kept, LocksExclude, Held
<1>4. \A p \in Products : Recording(p)' <=> Recording(p)
    BY <1>1 DEF Recording, At
<1>5. \A b \in Calls : At(b, "record")' => At(b, "record") /\ calls'[b] = calls[b]
    BY <1>1 DEF At
<1>6. Told'
    BY <1>4, <1>5 DEF Told, AddUpTo, Kept, pasts
<1>. QED BY <1>1, <1>2, <1>3, <1>6 DEF Kept, pasts

\* Of a product that a merchant's call works on, no other call knows anything.
LEMMA MerchantIsAlone ==
    ASSUME StockAssumption, Kept, MerchantsAlone,
           NEW c \in Calls, NEW p \in Products, calls[c].product = p,
           NEW b \in Calls, b # c
    PROVE  calls[b].product # p /\ calls[b].seen[p] = NULL
<1>1. ~Works(b, p)
    BY DEF MerchantsAlone, Works, StockAssumption
<1>2. calls[b].seen[p] # NULL => p \in Wanted(b)
    BY DEF Kept, InOrder, Wanted
<1>. QED BY <1>1, <1>2 DEF Works

\* A merchant's call changes the tables where no other call looks.
LEMMA OthersAgree ==
    ASSUME StockAssumption, Kept, NEW c \in Calls,
           products' \in [Products -> Row],
           ledger' \in [Products -> [total : Int, balance : Int]],
           dropped' \in [Products -> Nat],
           \A p \in Products \ {calls[c].product} : products'[p] = products[p],
           \A b \in Calls : b # c =>
               /\ calls[b].product # calls[c].product
               /\ calls[b].seen[calls[c].product] = NULL
               /\ calls'[b] = calls[b],
           DOMAIN calls' = Calls,
           InOrder(products', calls'[c]),
           \A p \in Products : calls'[c].seen[p] = NULL,
           Told'
    PROVE  Kept'
<1>1. \A b \in Calls : InOrder(products', calls'[b])
    <2>. SUFFICES ASSUME NEW b \in Calls, b # c
                  PROVE  InOrder(products', calls[b])
        OBVIOUS
    <2>1. InOrder(products, calls[b])
        BY DEF Kept
    <2>2. \A p \in Products :
              p = calls[b].product \/ calls[b].seen[p] # NULL =>
                  products'[p] = products[p]
        OBVIOUS
    <2>. QED BY <2>1, <2>2, StaysInOrder
<1>2. LocksExclude'
    BY DEF Kept, LocksExclude, Held
<1>. QED BY <1>1, <1>2 DEF Kept

(***************************************************************************)
(* The checkout.                                                            *)
(***************************************************************************)

\* A checkout locks one more row, which nobody held, and knows it as it is.
LEMMA LockKeeps ==
    ASSUME StockAssumption, Kept, NEW c \in Calls, NEW p \in Products, Lock(c, p)
    PROVE  Kept'
<1>. DEFINE self == calls[c]
            next == [self EXCEPT !.seen[p] = products[p]]
<1>1. /\ InOrder(products, self) /\ self \in Call /\ self.pc = "lock"
      /\ self.wants[p] > 0 /\ \A b \in Calls : p \notin Held(b)
    BY DEF Kept, InOrder, Lock, At, NextToLock, Wanted, Locked
<1>2. products[p] \in Row
    BY DEF Kept
<1>3. /\ next \in Call /\ next.pc = "lock" /\ next.product = self.product
      /\ next.wants = self.wants /\ next.seen[p] = products[p]
      /\ \A q \in Products \ {p} : next.seen[q] = self.seen[q]
    BY <1>1, <1>2 DEF Call
<1>4. Become(c, next) /\ UNCHANGED <<products, ledger, pasts>>
    BY DEF Lock
<1>. HIDE DEF next
<1>5. InOrder(products, next)
    BY <1>1, <1>3 DEF InOrder
<1>6. \A q \in Products : next.seen[q] # NULL =>
          \A b \in Calls : b # c => q \notin Held(b)
    BY <1>1, <1>3 DEF Kept, LocksExclude, Held
<1>. QED BY <1>1, <1>3, <1>4, <1>5, <1>6, CallMoves

\* A checkout whose rows are all locked reserves its units: stock and
\* movements change together.
LEMMA ReserveKeeps ==
    ASSUME StockAssumption, Kept, MerchantsAlone, NEW c \in Calls, Reserve(c)
    PROVE  Kept'
<1>. DEFINE self == calls[c]
            Left(p) == OrZero(self.seen[p].stock) - self.wants[p]
            reserved == {p \in Held(c) : self.seen[p].tracked}
<1>1. /\ self.pc = "lock" /\ Wanted(c) = Held(c)
      /\ InOrder(products, self) /\ self \in Call
    BY DEF Reserve, At, Kept, InOrder
<1>2. /\ products' = [p \in Products |->
             IF p \in reserved THEN [products[p] EXCEPT !.stock = Left(p)]
             ELSE products[p]]
      /\ ledger' = [p \in Products |->
             IF p \in reserved THEN Recorded(ledger[p], -self.wants[p], Left(p))
             ELSE ledger[p]]
      /\ Become(c, Idle) /\ UNCHANGED <<dropped, torn>>
    BY DEF Reserve, pasts
<1>3. ASSUME NEW p \in reserved
      PROVE  /\ p \in Products /\ products[p] \in Row /\ products[p].tracked
             /\ products[p].stock \in Nat /\ self.wants[p] \in Nat
             /\ Left(p) = products[p].stock - self.wants[p]
             /\ Left(p) \in Nat
    <2>1. p \in Products /\ self.seen[p] = products[p] /\ self.wants[p] > 0
        BY <1>1 DEF InOrder, Held
    <2>2. products[p] \in Row /\ products[p].tracked
        BY <2>1 DEF Kept
    <2>3. products[p].stock \in Nat /\ OrZero(products[p].stock) = products[p].stock
        <3>1. products[p].stock \in Nat
            BY <2>2 DEF Row
        <3>2. products[p].stock # NULL
            BY <3>1 DEF StockAssumption
        <3>. QED BY <3>1, <3>2 DEF OrZero
    <2>4. self.wants[p] \in Nat
        <3>1. self.wants \in Wants
            BY <1>1 DEF Call
        <3>. QED BY <2>1, <3>1 DEF Wants, StockAssumption
    <2>5. InStock(self.seen[p], self.wants[p])
        <3>1. \A q \in Wanted(c) : InStock(calls[c].seen[q], calls[c].wants[q])
            BY DEF Reserve
        <3>2. p \in Wanted(c)
            BY <1>1, <2>1 DEF Held
        <3>. QED BY <3>1, <3>2
    <2>6. products[p].stock >= self.wants[p]
        BY <2>1, <2>2, <2>3, <2>5 DEF InStock
    <2>. QED BY <2>1, <2>2, <2>3, <2>4, <2>6
<1>4. ASSUME NEW p \in reserved
      PROVE  /\ products'[p] = [products[p] EXCEPT !.stock = Left(p)]
             /\ products'[p] \in Row /\ products'[p].stock = Left(p)
    <2>1. products'[p] = [products[p] EXCEPT !.stock = Left(p)]
        BY <1>2, <1>3
    <2>. HIDE DEF Left
    <2>. QED BY <1>3, <2>1 DEF Row
<1>5. \A p \in Products : p \notin reserved =>
          products'[p] = products[p] /\ ledger'[p] = ledger[p]
    BY <1>2
<1>6. products' \in [Products -> Row]
    BY <1>2, <1>4, <1>5 DEF Kept
<1>7. /\ DOMAIN calls' = Calls /\ calls'[c] = Idle
      /\ \A b \in Calls : b # c => calls'[b] = calls[b]
    BY <1>2 DEF Kept, Become
<1>8. ASSUME NEW b \in Calls, b # c, NEW p \in reserved
      PROVE  calls[b].product # p /\ calls[b].seen[p] = NULL
    <2>1. p \in Products /\ p \in Held(c) /\ p \in Wanted(c)
        BY <1>1 DEF Held
    <2>2. calls[b].seen[p] = NULL
        BY <1>8, <2>1 DEF Kept, LocksExclude, Held
    <2>3. calls[b].product # p
        BY <1>8, <2>1 DEF MerchantsAlone, Works, StockAssumption
    <2>. QED BY <2>2, <2>3
<1>9. \A b \in Calls : InOrder(products', calls'[b])
    <2>. SUFFICES ASSUME NEW b \in Calls
                  PROVE  InOrder(products', calls'[b])
        OBVIOUS
    <2>1. CASE b = c
        BY <1>7, <2>1, IdleInOrder
    <2>2. CASE b # c
        <3>. HIDE DEF reserved
        <3>1. InOrder(products, calls[b])
            BY DEF Kept
        <3>2. \A p \in Products :
                  p = calls[b].product \/ calls[b].seen[p] # NULL =>
                      products'[p] = products[p]
            BY <1>5, <1>8, <2>2
        <3>3. InOrder(products', calls[b])
            BY <3>1, <3>2, StaysInOrder
        <3>. QED BY <1>7, <2>2, <3>3
    <2>. QED BY <2>1, <2>2
<1>10. LocksExclude'
    BY <1>7, IdleHoldsNothing DEF Kept, LocksExclude, Held
<1>11. ASSUME NEW p \in reserved
       PROVE  /\ Recorded(ledger[p], -self.wants[p], Left(p)) \in
                     [total : Int, balance : Int]
              /\ ~Recording(p) /\ p \notin torn =>
                     /\ AddUpTo(p, OrZero(products[p].stock))'
                     /\ ledger'[p].balance = products'[p].stock
    <2>1. PICK units, old, was, left :
              /\ units = self.wants[p] /\ old = ledger[p]
              /\ was = products[p].stock /\ left = Left(p)
        OBVIOUS
    <2>2. /\ units \in Nat /\ was \in Nat /\ left \in Nat /\ left = was - units
          /\ old \in [total : Int, balance : Int] /\ dropped[p] \in Nat
          /\ products'[p].stock = left
          /\ ledger'[p] = Recorded(old, -units, left)
          /\ OrZero(was) = was /\ OrZero(left) = left
        BY <1>2, <1>3, <1>4, <2>1 DEF Kept, OrZero, StockAssumption
    <2>. HIDE DEF Left
    <2>3. Recorded(old, -units, left) = [total |-> old.total - units, balance |-> left]
        BY <2>2 DEF Recorded
    <2>4. Recorded(old, -units, left) \in [total : Int, balance : Int]
        BY <2>2, <2>3
    <2>5. ASSUME ~Recording(p), p \notin torn
          PROVE  /\ AddUpTo(p, OrZero(products[p].stock))'
                 /\ ledger'[p].balance = products'[p].stock
        <3>1. old.total = was + dropped[p]
            BY <1>3, <2>1, <2>2, <2>5 DEF Kept, Told, AddUpTo
        <3>2. ledger'[p].total = left + dropped[p] /\ ledger'[p].balance = left
            BY <2>2, <2>3, <3>1
        <3>. QED BY <1>2, <2>2, <3>2 DEF AddUpTo
    <2>. QED BY <2>1, <2>4, <2>5
<1>12. /\ \A p \in Products : Recording(p)' <=> Recording(p)
       /\ \A b \in Calls : At(b, "record")' =>
              b # c /\ At(b, "record") /\ calls'[b] = calls[b]
    BY <1>1, <1>7, IdleInOrder DEF Recording, At
<1>13. Told'
    <2>. SUFFICES ASSUME NEW p \in Products \ torn
                  PROVE  /\ ~Recording(p)' =>
                                /\ AddUpTo(p, OrZero(products[p].stock))'
                                /\ products'[p].tracked =>
                                       ledger'[p].balance = products'[p].stock
                         /\ \A b \in Calls :
                                At(b, "record")' /\ calls'[b].product = p =>
                                    AddUpTo(p, OrZero(calls[b].previous))'
        BY <1>2 DEF Told
    <2>. HIDE DEF reserved
    <2>1. CASE p \in reserved
        <3>1. \A b \in Calls : At(b, "record")' => calls'[b].product # p
            BY <1>8, <1>12, <2>1
        <3>. QED BY <1>11, <1>12, <2>1, <3>1
    <2>2. CASE p \notin reserved
        <3>1. /\ products'[p] = products[p] /\ ledger'[p] = ledger[p]
              /\ dropped' = dropped
            BY <1>2, <1>5, <2>2
        <3>. QED BY <1>12, <3>1 DEF Kept, Told, AddUpTo
    <2>. QED BY <2>1, <2>2
<1>14. ledger' \in [Products -> [total : Int, balance : Int]]
    BY <1>2, <1>11 DEF Kept
<1>. QED BY <1>2, <1>6, <1>7, <1>9, <1>10, <1>13, <1>14 DEF Kept

(***************************************************************************)
(* The merchant.                                                            *)
(***************************************************************************)

\* A row that a call has read and changes: what it is about to save is a row.
LEMMA ReadKeeps ==
    ASSUME StockAssumption, Kept, NEW c \in Calls, At(c, "idle"),
           NEW next \in Call, Become(c, next), next.pc = "reload",
           next.product \in Products, next.seen = Idle.seen,
           Prepared(products[next.product], next),
           UNCHANGED <<products, ledger, pasts>>
    PROVE  Kept'
<1>1. \A q \in Products : next.seen[q] = NULL
    BY IdleInOrder
<1>2. InOrder(products, next)
    BY <1>1 DEF InOrder
<1>3. calls[c].pc # "record"
    BY DEF At
<1>. QED BY <1>1, <1>2, <1>3, CallMoves

\* setStock() up to its save().
LEMMA SetStockKeeps ==
    ASSUME StockAssumption, Kept, NEW c \in Calls, NEW p \in Products,
           NEW tracked \in BOOLEAN, NEW stock \in Units,
           SetStockRead(c, p, tracked, stock)
    PROVE  Kept'
<1>. DEFINE copy == [products[p] EXCEPT !.tracked = tracked,
                                        !.stock = IF tracked THEN stock ELSE NULL]
            previous == IF products[p].tracked THEN OrZero(products[p].stock)
                        ELSE NULL
            next == [Idle EXCEPT !.pc = "reload", !.product = p,
                                 !.ledger = tracked, !.previous = previous,
                                 !.copy = copy]
<1>1. products[p] \in Row /\ Idle \in Call
    BY IdleInOrder DEF Kept, InOrder
<1>2. stock \in Nat /\ NULL \notin Nat
    BY DEF Units, StockAssumption
<1>3. copy \in Row /\ copy.tracked = tracked
    BY <1>1, <1>2 DEF Row
<1>4. previous = products[p].stock /\ previous \in Nat \cup {NULL}
    BY <1>1, <1>2 DEF OrZero, Row
<1>5. At(c, "idle") /\ Become(c, next) /\ UNCHANGED <<products, ledger, pasts>>
    BY DEF SetStockRead
<1>. HIDE DEF copy, previous
<1>6. /\ next \in Call /\ next.pc = "reload" /\ next.product = p
      /\ next.ledger = tracked /\ next.previous = previous /\ next.copy = copy
      /\ next.seen = Idle.seen
    BY <1>1, <1>3, <1>4 DEF Call, Idle
<1>. HIDE DEF next
<1>7. Prepared(products[p], next)
    BY <1>3, <1>4, <1>6 DEF Prepared
<1>. QED BY <1>5, <1>6, <1>7, ReadKeeps

\* updateProduct() up to its save().
LEMMA EditKeeps ==
    ASSUME StockAssumption, Kept, NEW c \in Calls, NEW p \in Products,
           NEW available \in BOOLEAN, EditRead(c, p, available)
    PROVE  Kept'
<1>. DEFINE copy == [products[p] EXCEPT !.available = available]
            next == [Idle EXCEPT !.pc = "reload", !.product = p, !.copy = copy]
<1>1. products[p] \in Row /\ Idle \in Call
    BY IdleInOrder DEF Kept, InOrder
<1>2. /\ copy \in Row /\ copy.tracked = products[p].tracked
      /\ copy.stock = products[p].stock
    BY <1>1 DEF Row
<1>3. At(c, "idle") /\ Become(c, next) /\ UNCHANGED <<products, ledger, pasts>>
    BY DEF EditRead
<1>4. Idle.ledger = FALSE
    BY DEF Idle
<1>. HIDE DEF copy
<1>5. /\ next \in Call /\ next.pc = "reload" /\ next.product = p
      /\ next.ledger = Idle.ledger /\ next.copy = copy /\ next.seen = Idle.seen
    BY <1>1, <1>2 DEF Call, Idle
<1>. HIDE DEF next
<1>6. Prepared(products[p], next)
    BY <1>2, <1>4, <1>5 DEF Prepared
<1>. QED BY <1>3, <1>5, <1>6, ReadKeeps

\* The SELECT of save() finds the row as it was read: the call is alone.
LEMMA ReloadKeeps ==
    ASSUME StockAssumption, Kept, NEW c \in Calls, SaveReload(c)
    PROVE  Kept'
<1>. DEFINE self == calls[c]
            dirty == DirtyColumns(self.copy, products[self.product])
            next == [self EXCEPT !.pc = "write", !.dirty = dirty]
<1>1. /\ InOrder(products, self) /\ self \in Call /\ self.pc = "reload"
      /\ self.product \in Products
      /\ Prepared(products[self.product], self)
      /\ \A p \in Products : self.seen[p] = NULL
    BY DEF SaveReload, At, Kept, InOrder
<1>2. products[self.product] \in Row
    BY <1>1 DEF Kept
<1>3. dirty \subseteq {"tracked", "stock", "available"}
    BY <1>2 DEF DirtyColumns, Row
<1>4. Become(c, next) /\ UNCHANGED <<products, ledger, pasts>>
    BY DEF SaveReload
<1>5. dirty = DirtyColumns(self.copy, products[self.product])
    OBVIOUS
<1>. HIDE DEF dirty
<1>6. /\ next \in Call /\ next.pc = "write" /\ next.dirty = dirty
      /\ next.product = self.product /\ next.copy = self.copy
      /\ next.ledger = self.ledger /\ next.previous = self.previous
      /\ next.seen = self.seen
    BY <1>1, <1>3 DEF Call
<1>. HIDE DEF next
<1>7. InOrder(products, next)
    BY <1>1, <1>5, <1>6 DEF InOrder, Prepared
<1>. QED BY <1>1, <1>4, <1>6, <1>7, CallMoves

\* An UPDATE of all the columns that differ makes the row the entity.
LEMMA SavedIsCopy ==
    ASSUME NEW row \in Row, NEW copy \in Row
    PROVE  SavedRow(row, copy, DirtyColumns(copy, row)) = copy
BY DEF SavedRow, DirtyColumns, Row

\* What the UPDATE of save() does to the tables, and what it saves.
LEMMA WriteIsKnown ==
    ASSUME StockAssumption, Kept, MerchantsAlone, NEW c \in Calls, SaveWrite(c),
           NEW self, self = calls[c], NEW mine, mine = self.product,
           NEW row, row = products[mine], NEW gone, gone = Untracked(row, self.copy)
    PROVE  /\ InOrder(products, self) /\ self \in Call /\ self.pc = "write"
           /\ mine \in Products /\ Prepared(row, self)
           /\ row \in Row /\ self.copy \in Row /\ gone \in Nat
           /\ products' = [products EXCEPT ![mine] = self.copy]
           /\ dropped' = [dropped EXCEPT ![mine] = dropped[mine] + gone]
           /\ UNCHANGED <<ledger, torn>>
           /\ ~Recording(mine)
           /\ \A b \in Calls : b # c =>
                  calls[b].product # mine /\ calls[b].seen[mine] = NULL
<1>1. /\ InOrder(products, self) /\ self \in Call /\ self.pc = "write"
      /\ mine \in Products /\ Prepared(row, self)
      /\ self.dirty = DirtyColumns(self.copy, row)
    BY DEF SaveWrite, At, Kept, InOrder
<1>2. row \in Row /\ self.copy \in Row
    BY <1>1 DEF Kept, Call
<1>3. SavedRow(row, self.copy, self.dirty) = self.copy
    BY <1>1, <1>2, SavedIsCopy
<1>4. /\ products' = [products EXCEPT ![mine] = self.copy]
      /\ dropped' = [dropped EXCEPT ![mine] = dropped[mine] + gone]
      /\ UNCHANGED <<ledger, torn>>
    BY <1>3 DEF SaveWrite
<1>5. gone \in Nat
    BY <1>2 DEF Untracked, OrZero, Row
<1>6. \A b \in Calls : b # c =>
          calls[b].product # mine /\ calls[b].seen[mine] = NULL
    BY <1>1, MerchantIsAlone
<1>7. ~Recording(mine)
    BY <1>1, <1>6 DEF Recording, At
<1>. QED BY <1>1, <1>2, <1>4, <1>5, <1>6, <1>7

\* The UPDATE of save(); a counted stock that changes leaves a movement to store.
LEMMA WriteKeeps ==
    ASSUME StockAssumption, Kept, MerchantsAlone, NEW c \in Calls, SaveWrite(c)
    PROVE  Kept'
<1>1. PICK self, mine, row, gone, more :
          /\ self = calls[c] /\ mine = self.product /\ row = products[mine]
          /\ gone = Untracked(row, self.copy)
          /\ more = (self.ledger /\ self.previous # self.copy.stock)
    OBVIOUS
<1>2. PICK next : next = IF more THEN [self EXCEPT !.pc = "record"] ELSE Idle
    OBVIOUS
<1>3. /\ InOrder(products, self) /\ self \in Call /\ self.pc = "write"
      /\ mine \in Products /\ Prepared(row, self)
      /\ row \in Row /\ self.copy \in Row /\ gone \in Nat
      /\ products' = [products EXCEPT ![mine] = self.copy]
      /\ dropped' = [dropped EXCEPT ![mine] = dropped[mine] + gone]
      /\ UNCHANGED <<ledger, torn>>
      /\ ~Recording(mine)
      /\ \A b \in Calls : b # c =>
             calls[b].product # mine /\ calls[b].seen[mine] = NULL
    BY <1>1, WriteIsKnown
<1>4. Become(c, next)
    BY <1>1, <1>2 DEF SaveWrite
<1>5. /\ products' \in [Products -> Row] /\ dropped' \in [Products -> Nat]
      /\ ledger' \in [Products -> [total : Int, balance : Int]]
      /\ products'[mine] = self.copy
      /\ \A p \in Products \ {mine} :
             products'[p] = products[p] /\ dropped'[p] = dropped[p]
    BY <1>3 DEF Kept
<1>6. /\ DOMAIN calls' = Calls /\ calls'[c] = next
      /\ \A b \in Calls : b # c => calls'[b] = calls[b]
    BY <1>4 DEF Kept, Become
<1>7. more => self.copy.tracked /\ self.previous = row.stock
    BY <1>1, <1>3 DEF Prepared
<1>8. ~more /\ self.copy.tracked => row.tracked /\ self.copy.stock = row.stock
    BY <1>1, <1>3 DEF Prepared, Row, StockAssumption
<1>9. more => /\ next \in Call /\ next.pc = "record" /\ next.product = mine
              /\ next.copy = self.copy /\ next.previous = self.previous
              /\ next.seen = self.seen
    BY <1>1, <1>2, <1>3 DEF Call
<1>10. InOrder(products', next) /\ \A p \in Products : next.seen[p] = NULL
    <2>1. CASE more
        BY <1>3, <1>5, <1>7, <1>9, <2>1 DEF InOrder
    <2>2. CASE ~more
        BY <1>2, <2>2, IdleInOrder
    <2>. QED BY <2>1, <2>2
<1>11. ~more => next.pc = "idle"
    BY <1>2, IdleInOrder
<1>12. /\ \A p \in Products \ {mine} : Recording(p)' <=> Recording(p)
       /\ more => Recording(mine)'
       /\ \A b \in Calls : At(b, "record")' =>
              \/ b # c /\ At(b, "record") /\ calls'[b] = calls[b]
              \/ b = c /\ more
    BY <1>1, <1>3, <1>6, <1>9, <1>11 DEF Recording, At
<1>13. ASSUME mine \notin torn
       PROVE  /\ more => ledger[mine].total = OrZero(self.previous) + dropped'[mine]
              /\ ~more =>
                     /\ ledger[mine].total = OrZero(self.copy.stock) + dropped'[mine]
                     /\ self.copy.tracked => ledger[mine].balance = self.copy.stock
    <2>1. /\ ledger[mine].total = OrZero(row.stock) + dropped[mine]
          /\ row.tracked => ledger[mine].balance = row.stock
        BY <1>1, <1>3, <1>13 DEF Kept, Told, AddUpTo
    <2>2. /\ dropped[mine] \in Nat /\ dropped'[mine] = dropped[mine] + gone
          /\ OrZero(row.stock) \in Nat
        BY <1>3 DEF Kept, Row, OrZero
    <2>3. CASE self.copy.tracked
        <3>1. gone = 0
            BY <1>1, <2>3 DEF Untracked
        <3>2. dropped'[mine] = dropped[mine]
            BY <2>2, <3>1
        <3>. QED BY <1>7, <1>8, <2>1, <2>3, <3>2
    <2>4. CASE ~self.copy.tracked
        <3>1. OrZero(self.copy.stock) = 0
            BY <1>3, <2>4 DEF Row, OrZero
        <3>2. gone = OrZero(row.stock)
            BY <1>1, <1>3, <2>4 DEF Untracked, Row, OrZero
        <3>3. ledger[mine].total = 0 + dropped'[mine]
            BY <2>1, <2>2, <3>2
        <3>. QED BY <1>7, <2>4, <3>1, <3>3
    <2>. QED BY <2>3, <2>4
<1>14. Told'
    <2>. SUFFICES ASSUME NEW p \in Products \ torn
                  PROVE  /\ ~Recording(p)' =>
                                /\ AddUpTo(p, OrZero(products[p].stock))'
                                /\ products'[p].tracked =>
                                       ledger'[p].balance = products'[p].stock
                         /\ \A b \in Calls :
                                At(b, "record")' /\ calls'[b].product = p =>
                                    AddUpTo(p, OrZero(calls[b].previous))'
        BY <1>3 DEF Told
    <2>1. CASE p = mine
        <3>1. ledger' = ledger /\ products'[p] = self.copy
            BY <1>3, <1>5, <2>1
        <3>2. ~Recording(p)' => ~more
            BY <1>12, <2>1
        <3>3. ASSUME NEW b \in Calls, At(b, "record")', calls'[b].product = p
              PROVE  b = c /\ more
            BY <1>3, <1>6, <1>12, <2>1, <3>3 DEF At
        <3>4. more => calls'[c].previous = self.previous
            BY <1>6, <1>9
        <3>. QED BY <1>13, <2>1, <3>1, <3>2, <3>3, <3>4 DEF AddUpTo
    <2>2. CASE p # mine
        <3>1. /\ products'[p] = products[p] /\ ledger' = ledger
              /\ dropped'[p] = dropped[p]
            BY <1>3, <1>5, <2>2
        <3>2. ASSUME NEW b \in Calls, At(b, "record")', calls'[b].product = p
              PROVE  At(b, "record") /\ calls'[b] = calls[b]
            BY <1>6, <1>9, <1>12, <2>2, <3>2
        <3>3. Recording(p)' <=> Recording(p)
            BY <1>12, <2>2
        <3>. QED BY <3>1, <3>2, <3>3 DEF Kept, Told, AddUpTo
    <2>. QED BY <2>1, <2>2
<1>15. /\ mine = calls[c].product
       /\ InOrder(products', calls'[c])
       /\ \A p \in Products : calls'[c].seen[p] = NULL
    BY <1>1, <1>6, <1>10
<1>16. \A b \in Calls : b # c =>
           /\ calls[b].product # mine /\ calls[b].seen[mine] = NULL
           /\ calls'[b] = calls[b]
    BY <1>3, <1>6
<1>. QED BY <1>5, <1>6, <1>14, <1>15, <1>16, OthersAgree

\* The movement of setStock().
LEMMA RecordKeeps ==
    ASSUME StockAssumption, Kept, MerchantsAlone, NEW c \in Calls, Record(c)
    PROVE  Kept'
<1>1. PICK self, mine, stock, before, delta :
          /\ self = calls[c] /\ mine = self.product /\ stock = self.copy.stock
          /\ before = ledger[mine] /\ delta = Delta(self)
    OBVIOUS
<1>2. /\ InOrder(products, self) /\ self \in Call /\ self.pc = "record"
      /\ mine \in Products /\ products[mine].tracked
      /\ products[mine].stock = stock /\ products[mine] \in Row
    BY <1>1 DEF Record, At, Kept, InOrder
<1>3. /\ stock \in Nat /\ OrZero(stock) = stock /\ OrZero(self.previous) \in Nat
      /\ before \in [total : Int, balance : Int] /\ dropped[mine] \in Nat
    <2>1. stock \in Nat /\ self.previous \in Nat \cup {NULL}
        BY <1>1, <1>2 DEF Call, Row
    <2>2. OrZero(stock) = stock /\ OrZero(self.previous) \in Nat
        BY <2>1 DEF OrZero, StockAssumption
    <2>. QED BY <1>1, <1>2, <2>1, <2>2 DEF Kept
<1>4. delta = stock - OrZero(self.previous)
    BY <1>1 DEF Delta
<1>5. PICK after : after = [total |-> before.total + delta, balance |-> stock]
    OBVIOUS
<1>6. /\ ledger' = [ledger EXCEPT ![mine] = after]
      /\ Become(c, Idle) /\ UNCHANGED <<products, dropped, torn>>
    BY <1>1, <1>5 DEF Record, Recorded, pasts
<1>7. after \in [total : Int, balance : Int]
    BY <1>3, <1>4, <1>5
<1>8. /\ ledger' \in [Products -> [total : Int, balance : Int]]
      /\ ledger'[mine] = after
      /\ \A p \in Products \ {mine} : ledger'[p] = ledger[p]
    BY <1>2, <1>6, <1>7 DEF Kept
<1>9. \A b \in Calls : b # c =>
          calls[b].product # mine /\ calls[b].seen[mine] = NULL
    BY <1>1, <1>2, MerchantIsAlone
<1>10. /\ DOMAIN calls' = Calls /\ calls'[c] = Idle
       /\ \A b \in Calls : b # c => calls'[b] = calls[b]
    BY <1>6 DEF Kept, Become
<1>11. /\ \A p \in Products \ {mine} : Recording(p)' <=> Recording(p)
       /\ \A b \in Calls : At(b, "record")' =>
              b # c /\ At(b, "record") /\ calls'[b] = calls[b]
    BY <1>1, <1>2, <1>10, IdleInOrder DEF Recording, At
<1>12. mine \notin torn => after.total = stock + dropped[mine]
    <2>. SUFFICES ASSUME mine \notin torn PROVE after.total = stock + dropped[mine]
        OBVIOUS
    <2>1. before.total = OrZero(self.previous) + dropped[mine]
        BY <1>1, <1>2 DEF Kept, Told, AddUpTo, At
    <2>2. PICK old : old = OrZero(self.previous)
        OBVIOUS
    <2>3. (old + dropped[mine]) + (stock - old) = stock + dropped[mine]
        BY <1>3, <2>2
    <2>. QED BY <1>4, <1>5, <2>1, <2>2, <2>3
<1>13. Told'
    <2>. SUFFICES ASSUME NEW p \in Products \ torn
                  PROVE  /\ ~Recording(p)' =>
                                /\ AddUpTo(p, OrZero(products[p].stock))'
                                /\ products'[p].tracked =>
                                       ledger'[p].balance = products'[p].stock
                         /\ \A b \in Calls :
                                At(b, "record")' /\ calls'[b].product = p =>
                                    AddUpTo(p, OrZero(calls[b].previous))'
        BY <1>6 DEF Told
    <2>1. CASE p = mine
        <3>1. \A b \in Calls : At(b, "record")' => calls'[b].product # p
            BY <1>9, <1>11, <2>1
        <3>. QED BY <1>2, <1>3, <1>5, <1>6, <1>8, <1>12, <2>1, <3>1 DEF AddUpTo
    <2>2. CASE p # mine
        <3>1. /\ products' = products /\ dropped' = dropped /\ ledger'[p] = ledger[p]
            BY <1>6, <1>8, <2>2
        <3>. QED BY <1>11, <2>2, <3>1 DEF Kept, Told, AddUpTo
    <2>. QED BY <2>1, <2>2
<1>14. InOrder(products', Idle) /\ \A p \in Products : Idle.seen[p] = NULL
    BY IdleInOrder
<1>15. products' \in [Products -> Row] /\ dropped' \in [Products -> Nat]
    BY <1>6 DEF Kept
<1>. QED BY <1>1, <1>6, <1>8, <1>9, <1>10, <1>13, <1>14, <1>15, OthersAgree

\* A call that stops releases its locks; its product is torn if it had a
\* movement to store.
LEMMA StopKeeps ==
    ASSUME StockAssumption, Kept, NEW c \in Calls, Stop(c) PROVE Kept'
<1>1. /\ torn' = IF At(c, "record") THEN torn \cup {calls[c].product} ELSE torn
      /\ Become(c, Idle) /\ UNCHANGED <<products, ledger, dropped>>
    BY DEF Stop
<1>2. /\ DOMAIN calls' = Calls /\ calls'[c] = Idle
      /\ \A b \in Calls : b # c => calls'[b] = calls[b]
    BY <1>1 DEF Kept, Become
<1>3. \A b \in Calls : InOrder(products', calls'[b])
    BY <1>1, <1>2, IdleInOrder DEF Kept
<1>4. LocksExclude'
    BY <1>2, IdleHoldsNothing DEF Kept, LocksExclude, Held
<1>5. \A p \in Products \ torn' : Recording(p) => Recording(p)'
    BY <1>1, <1>2 DEF Recording, At
<1>6. \A b \in Calls : At(b, "record")' => At(b, "record") /\ calls'[b] = calls[b]
    BY <1>2, IdleInOrder DEF At
<1>7. torn \subseteq torn'
    BY <1>1
<1>8. Told'
    BY <1>1, <1>5, <1>6, <1>7 DEF Kept, Told, AddUpTo
<1>. QED BY <1>1, <1>2, <1>3, <1>4, <1>8 DEF Kept

(***************************************************************************)
(* Every step keeps the invariant.                                          *)
(***************************************************************************)

\* The invariant holds at the start.
LEMMA KeptInit == ASSUME StockAssumption, Init PROVE Kept
<1>1. NewProduct \in Row /\ OrZero(NewProduct.stock) = 0
    BY DEF NewProduct, Row, OrZero, StockAssumption
<1>2. /\ products \in [Products -> Row] /\ dropped \in [Products -> Nat]
      /\ ledger \in [Products -> [total : Int, balance : Int]]
    BY <1>1 DEF Init, NoMovements
<1>3. LocksExclude
    BY IdleHoldsNothing DEF Init, LocksExclude, Held
<1>4. Told
    <2>1. /\ \A p \in Products : OrZero(products[p].stock) = 0 /\ ~products[p].tracked
          /\ \A p \in Products : ledger[p].total = 0 /\ dropped[p] = 0
          /\ \A c \in Calls : calls[c].pc = "idle"
        BY <1>1, IdleHoldsNothing DEF Init, NoMovements, NewProduct
    <2>. QED BY <2>1 DEF Told, AddUpTo, At
<1>. QED BY <1>2, <1>3, <1>4, IdleInOrder DEF Init, Kept

\* It is kept by every step from a state in which merchants' calls are alone.
LEMMA KeptNext ==
    ASSUME StockAssumption, Kept, MerchantsAlone, [Next]_vars
    PROVE  Kept'
<1>1. CASE UNCHANGED vars
    BY <1>1 DEF vars, pasts, Kept, LocksExclude, Held, Told, AddUpTo, Recording, At
<1>2. ASSUME NEW c \in Calls, NEW wants \in Wants, CheckoutRead(c, wants)
      PROVE  Kept'
    <2>. DEFINE next == [Idle EXCEPT !.pc = "lock", !.wants = wants]
    <2>1. Idle \in Call /\ \A q \in Products : Idle.seen[q] = NULL
        BY IdleInOrder DEF InOrder
    <2>2. /\ next \in Call /\ next.pc = "lock" /\ next.product = NULL
          /\ next.seen = Idle.seen
        BY <2>1 DEF Call, Idle
    <2>3. /\ Become(c, next) /\ UNCHANGED <<products, ledger, pasts>>
          /\ calls[c].pc # "record"
        BY <1>2 DEF CheckoutRead, At
    <2>. HIDE DEF next
    <2>4. InOrder(products, next)
        BY <2>1, <2>2 DEF InOrder
    <2>. QED BY <2>1, <2>2, <2>3, <2>4, CallMoves
<1>3. ASSUME NEW c \in Calls, Refuse(c) PROVE Kept'
    <2>1. /\ Become(c, Idle) /\ UNCHANGED <<products, ledger, pasts>>
          /\ calls[c].pc # "record"
        BY <1>3 DEF Refuse, At
    <2>. QED BY <2>1, IdleInOrder, CallMoves
<1>4. ASSUME NEW c \in Calls, Step(c) PROVE Kept'
    BY <1>3, <1>4, LockKeeps, ReserveKeeps, ReloadKeeps, WriteKeeps, RecordKeeps
       DEF Step
<1>. QED BY <1>1, <1>2, <1>4, SetStockKeeps, EditKeeps, StopKeeps DEF Next

\* What it says of the tables.
LEMMA KeptTells == ASSUME StockAssumption, Kept PROVE LedgerTellsStock
<1>. SUFFICES ASSUME NEW p \in Products \ torn, products[p].tracked, Quiet(p)
              PROVE  ledger[p] = [total |-> products[p].stock + dropped[p],
                                  balance |-> products[p].stock]
    BY DEF LedgerTellsStock
<1>1. ~Recording(p)
    BY DEF Recording, Quiet, Works
<1>2. products[p] \in Row /\ ledger[p] \in [total : Int, balance : Int]
    BY DEF Kept
<1>3. products[p].stock # NULL
    BY <1>2 DEF Row, StockAssumption
<1>4. /\ ledger[p].total = products[p].stock + dropped[p]
      /\ ledger[p].balance = products[p].stock
    BY <1>1, <1>3 DEF Kept, Told, AddUpTo, OrZero
<1>. QED BY <1>2, <1>4

\* However checkouts overlap and whichever calls stop, if a merchant's call on a
\* product overlaps no other call on it: once nobody works on a product that is
\* counted, and none of its calls stopped before its movement, the movements
\* add up to the stock and to what went when the tracking ended, and the newest
\* one tells the stock (reserveLocked(), setStock()).
THEOREM LedgerIsTrue ==
    ASSUME StockAssumption
    PROVE  Spec /\ []MerchantsAlone => []LedgerTellsStock
<1>1. Init => Kept
    BY KeptInit
<1>2. Kept /\ MerchantsAlone /\ [Next]_vars => Kept'
    BY KeptNext
<1>3. Kept => LedgerTellsStock
    BY KeptTells
<1>. QED BY <1>1, <1>2, <1>3, PTL DEF Spec

(***************************************************************************)
(* Promotions.  The loop of bestPromotion() is a fold over the rows, which  *)
(* come in no particular order; what it leaves is shown for the smallest    *)
(* set of rows after which it would be wrong.                               *)
(***************************************************************************)

\* A set of numbers has a least one.
LEMMA LeastNumber ==
    ASSUME NEW T \in SUBSET Nat, T # {}
    PROVE  \E x \in T : \A y \in T : x <= y
<1>1. IsWellFoundedOn(OpToRel(<, Nat), Nat)
    BY NatLessThanWellFounded
<1>2. PICK R : R = OpToRel(<, Nat)
    OBVIOUS
<1>3. \A x, y \in Nat : x < y => <<x, y>> \in R
    BY <1>2 DEF OpToRel
<1>4. PICK x \in T : \A y \in T : ~(<<y, x>> \in R)
    BY <1>1, <1>2, WFMin
<1>5. ASSUME NEW y \in T PROVE x <= y
    <2>1. x \in Nat /\ y \in Nat /\ ~(<<y, x>> \in R)
        BY <1>4
    <2>2. ~(y < x)
        BY <1>3, <2>1
    <2>. QED BY <2>1, <2>2
<1>. QED BY <1>5

Nothing == [product |-> 0, delivery |-> 0]

\* The row that the fold comes to last.
Last(rows) == CHOOSE row \in rows : TRUE

\* The loop up to a row, given what it left before.
Round(it, rows, subtotal, fee) ==
    IF rows = {} THEN Nothing
    ELSE Pr!Better(Last(rows), it[rows \ {Last(rows)}], subtotal, fee)

\* What the loop leaves for each set of rows.
Rounds(it, all, subtotal, fee) ==
    it = [rows \in SUBSET all |-> Round(it, rows, subtotal, fee)]

\* Without its last row a set has one less.
LEMMA Rest ==
    ASSUME NEW rows, IsFiniteSet(rows), rows # {}
    PROVE  /\ Last(rows) \in rows
           /\ Cardinality(rows) \in Nat
           /\ Cardinality(rows \ {Last(rows)}) = Cardinality(rows) - 1
<1>1. Last(rows) \in rows
    BY DEF Last
<1>. QED BY <1>1, FS_CardinalityType, FS_RemoveElement

\* There is such a function for every finite set of rows, ...
LEMMA RoundsExist ==
    ASSUME NEW all, IsFiniteSet(all), NEW subtotal, NEW fee
    PROVE  \E it : Rounds(it, all, subtotal, fee)
<1>. DEFINE Upto(n) ==
                \E it : \A rows \in SUBSET all :
                    Cardinality(rows) <= n =>
                        it[rows] = Round(it, rows, subtotal, fee)
            Bad == {n \in Nat : ~Upto(n)}
<1>1. ASSUME NEW rows \in SUBSET all
      PROVE  /\ IsFiniteSet(rows) /\ Cardinality(rows) \in Nat
             /\ rows # {} =>
                  /\ Last(rows) \in rows
                  /\ Cardinality(rows \ {Last(rows)}) = Cardinality(rows) - 1
             /\ Cardinality(rows) = 0 => rows = {}
    <2>1. IsFiniteSet(rows)
        BY FS_Subset
    <2>. QED BY <2>1, Rest, FS_CardinalityType, FS_EmptySet
<1>2. Upto(0)
    <2>1. PICK it : it = [rows \in SUBSET all |-> Nothing]
        OBVIOUS
    <2>2. ASSUME NEW rows \in SUBSET all, Cardinality(rows) <= 0
          PROVE  it[rows] = Round(it, rows, subtotal, fee)
        <3>1. Cardinality(rows) \in Nat
            BY <1>1
        <3>2. Cardinality(rows) = 0
            BY <2>2, <3>1
        <3>3. rows = {}
            BY <1>1, <3>2
        <3>. QED BY <2>1, <3>3 DEF Round
    <2>. QED BY <2>2
<1>3. ASSUME NEW n \in Nat, Upto(n) PROVE Upto(n + 1)
    <2>1. PICK it : \A rows \in SUBSET all :
                       Cardinality(rows) <= n =>
                           it[rows] = Round(it, rows, subtotal, fee)
        BY <1>3
    <2>2. PICK next : next = [rows \in SUBSET all |->
                                 Round(it, rows, subtotal, fee)]
        OBVIOUS
    <2>3. ASSUME NEW rows \in SUBSET all, Cardinality(rows) <= n + 1
          PROVE  next[rows] = Round(next, rows, subtotal, fee)
        <3>1. CASE rows = {}
            BY <2>2, <3>1 DEF Round
        <3>2. CASE rows # {}
            <4>1. PICK rest : rest = rows \ {Last(rows)}
                OBVIOUS
            <4>2. rest \in SUBSET all /\ Cardinality(rest) <= n
                BY <1>1, <2>3, <3>2, <4>1
            <4>3. next[rest] = it[rest]
                BY <2>1, <2>2, <4>2
            <4>. QED BY <2>2, <3>2, <4>1, <4>3 DEF Round
        <3>. QED BY <3>1, <3>2
    <2>. QED BY <2>3
<1>4. Bad = {}
    <2>. SUFFICES ASSUME Bad # {} PROVE FALSE
        OBVIOUS
    <2>1. PICK n \in Bad : \A m \in Bad : n <= m
        <3>. HIDE DEF Upto
        <3>1. Bad \in SUBSET Nat
            OBVIOUS
        <3>. QED BY <3>1, LeastNumber
    <2>. HIDE DEF Upto
    <2>2. n \in Nat /\ n # 0 /\ ~Upto(n)
        BY <1>2
    <2>3. n - 1 \in Nat /\ n - 1 \notin Bad
        BY <2>1, <2>2
    <2>4. Upto((n - 1) + 1)
        BY <1>3, <2>3
    <2>5. (n - 1) + 1 = n
        BY <2>2
    <2>. QED BY <2>2, <2>4, <2>5
<1>5. Upto(Cardinality(all))
    <2>. HIDE DEF Upto
    <2>. QED BY <1>1, <1>4
<1>6. PICK it : \A rows \in SUBSET all :
                   Cardinality(rows) <= Cardinality(all) =>
                       it[rows] = Round(it, rows, subtotal, fee)
    BY <1>5
<1>7. \A rows \in SUBSET all : it[rows] = Round(it, rows, subtotal, fee)
    BY <1>6, FS_Subset
<1>8. PICK next : next = [rows \in SUBSET all |-> Round(it, rows, subtotal, fee)]
    OBVIOUS
<1>9. ASSUME NEW rows \in SUBSET all
      PROVE  Round(it, rows, subtotal, fee) = Round(next, rows, subtotal, fee)
    <2>1. PICK rest : rest = rows \ {Last(rows)}
        OBVIOUS
    <2>2. next[rest] = it[rest]
        BY <1>7, <1>8, <2>1
    <2>. QED BY <2>1, <2>2 DEF Round
<1>. QED BY <1>8, <1>9 DEF Rounds

\* ... and it is the one that the fold of bestPromotion() chooses.
LEMMA BestIsLast ==
    ASSUME NEW all, IsFiniteSet(all), NEW subtotal, NEW fee
    PROVE  \E it : /\ Rounds(it, all, subtotal, fee)
                   /\ Pr!BestDiscount(all, subtotal, fee) = it[all]
<1>1. PICK best : best = CHOOSE it : Rounds(it, all, subtotal, fee)
    OBVIOUS
<1>2. Rounds(best, all, subtotal, fee)
    BY <1>1, RoundsExist
<1>3. Pr!BestDiscount(all, subtotal, fee) = best[all]
    BY <1>1 DEF Rounds, Round, Last, Nothing, Pr!BestDiscount, Pr!FoldSet,
       Pr!MapThenFoldSet
<1>. QED BY <1>2, <1>3

\* What a promotion may take off.
Limits(subtotal, fee) == [product : 0..subtotal, delivery : 0..fee]

\* No row of the set takes off more.
Beats(best, rows, subtotal, fee) ==
    /\ best \in Limits(subtotal, fee)
    /\ \A row \in rows :
          subtotal >= row.minimum =>
              Pr!Total(Pr!Discount(row, subtotal, fee)) <= Pr!Total(best)

\* No promotion takes off more than the order costs.
LEMMA DiscountIsLimited ==
    ASSUME Pr!PromotionsAssumption, NEW row \in Pr!Promotion,
           NEW subtotal \in Nat, NEW fee \in Nat
    PROVE  Pr!Discount(row, subtotal, fee) \in Limits(subtotal, fee)
<1>1. row.value \in Nat
    BY DEF Pr!Promotion, Pr!PromotionsAssumption
<1>2. PICK off : off = subtotal * row.value
    OBVIOUS
<1>3. off \in Nat
    BY <1>1, <1>2
<1>4. off \div 100 \in Nat
    BY <1>3
<1>5. Pr!OffProducts(row, subtotal) \in 0..subtotal
    BY <1>1, <1>2, <1>4 DEF Pr!OffProducts, Pr!Smaller
<1>. QED BY <1>5 DEF Pr!Discount, Limits

\* A round of the loop leaves what no row takes more off than, the new one
\* included.
LEMMA RoundBeats ==
    ASSUME Pr!PromotionsAssumption, NEW rows \in SUBSET Pr!Promotion,
           NEW row \in rows, NEW subtotal \in Nat, NEW fee \in Nat, NEW best,
           Beats(best, rows \ {row}, subtotal, fee)
    PROVE  Beats(Pr!Better(row, best, subtotal, fee), rows, subtotal, fee)
<1>1. PICK off : off = Pr!Discount(row, subtotal, fee)
    OBVIOUS
<1>2. off \in Limits(subtotal, fee)
    BY <1>1, DiscountIsLimited
<1>3. PICK next : next = Pr!Better(row, best, subtotal, fee)
    OBVIOUS
<1>4. next = IF subtotal >= row.minimum /\ Pr!Total(off) > Pr!Total(best)
             THEN off ELSE best
    BY <1>1, <1>3 DEF Pr!Better
<1>5. next \in Limits(subtotal, fee) /\ best \in Limits(subtotal, fee)
    BY <1>2, <1>4 DEF Beats
<1>6. /\ Pr!Total(off) \in Int /\ Pr!Total(best) \in Int
      /\ Pr!Total(next) \in Int
    BY <1>2, <1>5 DEF Limits, Pr!Total
<1>7. Pr!Total(next) >= Pr!Total(best)
    BY <1>4, <1>6
<1>8. subtotal >= row.minimum => Pr!Total(next) >= Pr!Total(off)
    BY <1>4, <1>6
<1>9. ASSUME NEW other \in rows, subtotal >= other.minimum
      PROVE  Pr!Total(Pr!Discount(other, subtotal, fee)) <= Pr!Total(next)
    <2>1. CASE other = row
        BY <1>1, <1>6, <1>8, <1>9, <2>1
    <2>2. CASE other # row
        <3>1. PICK theirs : theirs = Pr!Discount(other, subtotal, fee)
            OBVIOUS
        <3>2. theirs \in Limits(subtotal, fee)
            BY <3>1, DiscountIsLimited
        <3>3. Pr!Total(theirs) \in Int
            BY <3>2 DEF Limits, Pr!Total
        <3>4. Pr!Total(theirs) <= Pr!Total(best)
            BY <1>9, <2>2, <3>1 DEF Beats
        <3>. QED BY <1>6, <1>7, <3>1, <3>3, <3>4
    <2>. QED BY <2>1, <2>2
<1>. QED BY <1>3, <1>5, <1>9 DEF Beats

\* The loop finds the best promotion, in whatever order the rows come.
LEMMA BestBeats ==
    ASSUME Pr!PromotionsAssumption,
           NEW all \in SUBSET Pr!Promotion, IsFiniteSet(all),
           NEW subtotal \in Nat, NEW fee \in Nat
    PROVE  Beats(Pr!BestDiscount(all, subtotal, fee), all, subtotal, fee)
<1>1. PICK it : /\ Rounds(it, all, subtotal, fee)
                /\ Pr!BestDiscount(all, subtotal, fee) = it[all]
    BY BestIsLast
<1>2. \A rows \in SUBSET all : it[rows] = Round(it, rows, subtotal, fee)
    BY <1>1 DEF Rounds
<1>. DEFINE Wrong == {rows \in SUBSET all : ~Beats(it[rows], rows, subtotal, fee)}
            Sizes == {n \in Nat : \E rows \in Wrong : Cardinality(rows) = n}
<1>3. Wrong = {}
    <2>. SUFFICES ASSUME Wrong # {} PROVE FALSE
        OBVIOUS
    <2>1. \A rows \in SUBSET all : IsFiniteSet(rows) /\ Cardinality(rows) \in Nat
        BY FS_Subset, FS_CardinalityType
    <2>2. Sizes \in SUBSET Nat /\ Sizes # {}
        BY <2>1
    <2>3. PICK n \in Sizes : \A m \in Sizes : n <= m
        <3>. HIDE DEF Sizes
        <3>. QED BY <2>2, LeastNumber
    <2>4. PICK rows \in Wrong : Cardinality(rows) = n
        OBVIOUS
    <2>5. rows \in SUBSET all /\ ~Beats(it[rows], rows, subtotal, fee)
        OBVIOUS
    <2>6. CASE rows = {}
        <3>1. it[rows] = Nothing
            BY <1>2, <2>5, <2>6 DEF Round
        <3>2. Beats(Nothing, {}, subtotal, fee)
            BY DEF Beats, Nothing, Limits
        <3>. QED BY <2>5, <2>6, <3>1, <3>2
    <2>7. CASE rows # {}
        <3>1. PICK row, rest : row = Last(rows) /\ rest = rows \ {row}
            OBVIOUS
        <3>2. row \in rows /\ Cardinality(rest) = n - 1 /\ Cardinality(rest) \in Nat
            BY <2>1, <2>4, <2>5, <2>7, <3>1, Rest
        <3>3. rest \in SUBSET all
            BY <2>5, <3>1
        <3>4. Cardinality(rest) \notin Sizes
            <4>. HIDE DEF Sizes
            <4>. QED BY <2>2, <2>3, <3>2
        <3>5. Beats(it[rest], rest, subtotal, fee)
            BY <3>2, <3>3, <3>4
        <3>6. it[rows] = Pr!Better(row, it[rest], subtotal, fee)
            BY <1>2, <2>5, <2>7, <3>1 DEF Round
        <3>. QED BY <2>5, <3>1, <3>2, <3>5, <3>6, RoundBeats
    <2>. QED BY <2>6, <2>7
<1>4. Beats(it[all], all, subtotal, fee)
    BY <1>3
<1>. QED BY <1>1, <1>4

(***************************************************************************)
(* The rows of promotions, and the updates of them.                         *)
(***************************************************************************)

\* An update that has not ended holds a row of the table.
Update(table, call) ==
    /\ call \in [pc : {"idle", "reload", "write"},
                promotion : Promotions \cup {NULL},
                copy : Pr!Promotion \cup {NULL}, dirty : SUBSET Pr!Fields]
    /\ call.pc # "idle" =>
           /\ call.promotion \in Promotions
           /\ table[call.promotion] \in Pr!Promotion
           /\ call.copy \in Pr!Promotion

\* The types of the rows, whatever updates overlap.
Rows ==
    /\ promotions \in [Promotions -> Pr!Promotion \cup {NULL}]
    /\ DOMAIN updates = Calls
    /\ \A c \in Calls : Update(promotions, updates[c])

\* What an update is about to save, if it is alone: a row that may be applied
\* and with which the table will agree.
Sound(table, call) ==
    call.pc # "idle" =>
        /\ table[call.promotion] # NULL
        /\ Pr!Valid(call.copy)
        /\ call.pc = "write" =>
               call.dirty = Pr!DirtyColumns(call.copy, table[call.promotion])

\* The promotions if updates follow one another.
AllSound ==
    /\ UpdatesAlone
    /\ Pr!PromotionsAreValid
    /\ \A c \in Calls : Sound(promotions, updates[c])

\* What is saved is a row, of old columns and new ones.
LEMMA SavedIsRow ==
    ASSUME NEW row \in Pr!Promotion, NEW copy \in Pr!Promotion, NEW dirty
    PROVE  Pr!SavedRow(row, copy, dirty) \in Pr!Promotion
BY DEF Pr!SavedRow, Pr!Promotion

\* The columns that differ are all that is missing.
LEMMA SavedIsUpdate ==
    ASSUME NEW row \in Pr!Promotion, NEW copy \in Pr!Promotion
    PROVE  Pr!SavedRow(row, copy, Pr!DirtyColumns(copy, row)) = copy
BY DEF Pr!SavedRow, Pr!DirtyColumns, Pr!Promotion

\* A field that is set leaves a row.
LEMMA FieldLeavesRow ==
    ASSUME NEW row \in Pr!Promotion, NEW field \in Pr!Fields,
           NEW value \in Pr!FieldValues(field)
    PROVE  [row EXCEPT ![field] = value] \in Pr!Promotion
<1>1. CASE field = "type"
    BY <1>1 DEF Pr!Promotion, Pr!FieldValues
<1>2. CASE field = "value"
    BY <1>2 DEF Pr!Promotion, Pr!FieldValues
<1>3. CASE field = "minimum"
    BY <1>3 DEF Pr!Promotion, Pr!FieldValues
<1>4. CASE field \in {"starts", "ends"}
    BY <1>4 DEF Pr!Promotion, Pr!FieldValues
<1>. QED BY <1>1, <1>2, <1>3, <1>4 DEF Pr!Fields

\* What the SELECT of a save() changes.
ReloadLeaves(c, next) ==
    /\ Update(promotions, next)
    /\ next.pc = "write" /\ updates[c].pc = "reload"
    /\ next.promotion = updates[c].promotion /\ next.copy = updates[c].copy
    /\ next.dirty = Pr!DirtyColumns(next.copy, promotions[next.promotion])
    /\ updates' = [updates EXCEPT ![c] = next]
    /\ promotions' = promotions

\* The SELECT leaves an update of the right type.
LEMMA ReloadIsTyped ==
    ASSUME Rows, NEW c \in Calls, Pr!SaveReload(c)
    PROVE  \E next : ReloadLeaves(c, next)
<1>1. PICK self, p, dirty :
          /\ self = updates[c] /\ p = self.promotion
          /\ dirty = Pr!DirtyColumns(self.copy, promotions[p])
    OBVIOUS
<1>2. PICK next : next = [self EXCEPT !.pc = "write", !.dirty = dirty]
    OBVIOUS
<1>3. /\ Update(promotions, self) /\ self.pc = "reload"
      /\ updates' = [updates EXCEPT ![c] = next]
      /\ promotions' = promotions
    BY <1>1, <1>2 DEF Rows, Pr!SaveReload, Pr!At, Pr!Become
<1>4. dirty \in SUBSET Pr!Fields
    BY <1>1, <1>3 DEF Update, Pr!DirtyColumns, Pr!Promotion, Pr!Fields
<1>5. /\ next.pc = "write" /\ next.promotion = p /\ next.copy = self.copy
      /\ next.dirty = dirty /\ Update(promotions, next)
    BY <1>1, <1>2, <1>3, <1>4 DEF Update
<1>. QED BY <1>1, <1>3, <1>5 DEF ReloadLeaves

\* Every step of promotions keeps the types.
LEMMA RowsNext == ASSUME Rows, Pr!Next PROVE Rows'
<1>1. ASSUME NEW p \in Promotions, NEW row \in Pr!Promotion, Pr!Create(p, row)
      PROVE  Rows'
    <2>1. /\ promotions' \in [Promotions -> Pr!Promotion \cup {NULL}]
          /\ promotions'[p] = row /\ updates' = updates
          /\ \A q \in Promotions \ {p} : promotions'[q] = promotions[q]
        BY <1>1 DEF Rows, Pr!Create
    <2>. QED BY <2>1 DEF Rows, Update
<1>2. ASSUME NEW c \in Calls, NEW p \in Promotions, NEW field \in Pr!Fields,
             NEW value \in Pr!FieldValues(field),
             Pr!UpdateRead(c, p, field, value)
      PROVE  Rows'
    <2>1. promotions[p] \in Pr!Promotion
        BY <1>2 DEF Rows, Pr!UpdateRead
    <2>2. PICK copy : copy = [promotions[p] EXCEPT ![field] = value]
        OBVIOUS
    <2>3. copy \in Pr!Promotion
        BY <2>1, <2>2, FieldLeavesRow
    <2>4. /\ updates' = [updates EXCEPT ![c] =
                 [pc |-> "reload", promotion |-> p, copy |-> copy, dirty |-> {}]]
          /\ promotions' = promotions
        BY <1>2, <2>2 DEF Pr!UpdateRead, Pr!Become
    <2>. QED BY <2>1, <2>3, <2>4 DEF Rows, Update
<1>3. ASSUME NEW c \in Calls, Pr!SaveReload(c) PROVE Rows'
    <2>1. PICK next : ReloadLeaves(c, next)
        BY <1>3, ReloadIsTyped
    <2>. QED BY <2>1 DEF Rows, Update, ReloadLeaves
<1>4. ASSUME NEW c \in Calls, Pr!SaveWrite(c) PROVE Rows'
    <2>1. PICK p, saved : /\ p = updates[c].promotion
                          /\ saved = Pr!SavedRow(promotions[p], updates[c].copy,
                                              updates[c].dirty)
        OBVIOUS
    <2>2. p \in Promotions /\ saved \in Pr!Promotion
        BY <1>4, <2>1, SavedIsRow DEF Rows, Update, Pr!SaveWrite, Pr!At
    <2>3. /\ promotions' = [promotions EXCEPT ![p] = saved]
          /\ updates' = [updates EXCEPT ![c] = Pr!Idle]
        BY <1>4, <2>1 DEF Pr!SaveWrite, Pr!Become
    <2>. QED BY <2>2, <2>3 DEF Rows, Update, Pr!Idle
<1>. QED BY <1>1, <1>2, <1>3, <1>4 DEF Pr!Next

\* And if updates follow one another, the rows that may be applied.
LEMMA SoundNext ==
    ASSUME Rows, AllSound, Pr!Next, UpdatesAlone' PROVE AllSound'
<1>1. ASSUME NEW p \in Promotions, NEW row \in Pr!Promotion, Pr!Create(p, row)
      PROVE  AllSound'
    <2>1. /\ promotions[p] = NULL /\ Pr!Valid(row)
          /\ promotions'[p] = row /\ updates' = updates
          /\ \A q \in Promotions \ {p} : promotions'[q] = promotions[q]
        BY <1>1 DEF Rows, Pr!Create
    <2>2. Pr!PromotionsAreValid'
        BY <2>1 DEF AllSound, Pr!PromotionsAreValid
    <2>3. ASSUME NEW b \in Calls PROVE Sound(promotions', updates'[b])
        <3>1. updates[b].pc # "idle" =>
                  updates[b].promotion \in Promotions \ {p}
            BY <2>1 DEF Rows, Update, AllSound, Sound
        <3>. QED BY <2>1, <3>1 DEF AllSound, Sound
    <2>. QED BY <2>2, <2>3 DEF AllSound
<1>2. ASSUME NEW c \in Calls, NEW p \in Promotions, NEW field \in Pr!Fields,
             NEW value \in Pr!FieldValues(field),
             Pr!UpdateRead(c, p, field, value)
      PROVE  AllSound'
    <2>1. PICK copy : copy = [promotions[p] EXCEPT ![field] = value]
        OBVIOUS
    <2>2. /\ updates' = [updates EXCEPT ![c] =
                 [pc |-> "reload", promotion |-> p, copy |-> copy, dirty |-> {}]]
          /\ promotions' = promotions
          /\ promotions[p] # NULL /\ Pr!Valid(copy)
        BY <1>2, <2>1 DEF Pr!UpdateRead, Pr!Become, Pr!Acceptable
    <2>3. Pr!PromotionsAreValid'
        BY <2>2 DEF AllSound, Pr!PromotionsAreValid
    <2>4. \A b \in Calls : Sound(promotions', updates'[b])
        BY <2>2 DEF AllSound, Sound, Rows
    <2>. QED BY <2>3, <2>4 DEF AllSound
<1>3. ASSUME NEW c \in Calls, Pr!SaveReload(c) PROVE AllSound'
    <2>1. PICK next : ReloadLeaves(c, next)
        BY <1>3, ReloadIsTyped
    <2>2. Pr!PromotionsAreValid'
        BY <2>1 DEF AllSound, Pr!PromotionsAreValid, ReloadLeaves
    <2>3. \A b \in Calls : Sound(promotions', updates'[b])
        BY <2>1 DEF AllSound, Sound, Rows, ReloadLeaves
    <2>. QED BY <2>2, <2>3 DEF AllSound
<1>4. ASSUME NEW c \in Calls, Pr!SaveWrite(c) PROVE AllSound'
    <2>1. PICK p, copy : p = updates[c].promotion /\ copy = updates[c].copy
        OBVIOUS
    <2>2. /\ updates[c].pc = "write" /\ updates[c].pc # "idle"
          /\ p \in Promotions /\ Pr!Valid(copy)
          /\ Pr!SavedRow(promotions[p], copy, updates[c].dirty) = copy
        BY <1>4, <2>1, SavedIsUpdate
           DEF Rows, Update, AllSound, Sound, Pr!SaveWrite, Pr!At
    <2>3. /\ promotions' = [promotions EXCEPT ![p] = copy]
          /\ updates' = [updates EXCEPT ![c] = Pr!Idle]
        BY <1>4, <2>1, <2>2 DEF Pr!SaveWrite, Pr!Become
    <2>4. Pr!PromotionsAreValid'
        BY <2>2, <2>3 DEF AllSound, Pr!PromotionsAreValid, Rows
    <2>5. ASSUME NEW b \in Calls PROVE updates'[b].pc = "idle"
        BY <2>2, <2>3 DEF AllSound, UpdatesAlone, Rows, Update, Pr!Idle
    <2>6. \A b \in Calls : Sound(promotions', updates'[b])
        BY <2>5 DEF Sound
    <2>. QED BY <2>4, <2>6 DEF AllSound
<1>. QED BY <1>1, <1>2, <1>3, <1>4 DEF Pr!Next

\* There are so many rows at a time.
LEMMA LiveIsFinite ==
    ASSUME Pr!PricesAssumption, Rows, NEW now
    PROVE  Pr!Live(now) \in SUBSET Pr!Promotion /\ IsFiniteSet(Pr!Live(now))
<1>1. Pr!Live(now) \in SUBSET Pr!Promotion
    BY DEF Rows, Pr!Live
<1>. DEFINE S == {q \in Promotions :
                    /\ promotions[q] # NULL
                    /\ promotions[q].starts <= now /\ now <= promotions[q].ends}
<1>2. IsFiniteSet(S)
    <2>1. IsFiniteSet(Promotions)
        BY DEF Pr!PricesAssumption, Pr!IsFiniteSet, IsFiniteSet
    <2>2. S \in SUBSET Promotions
        OBVIOUS
    <2>. QED BY <2>1, <2>2, FS_Subset
<1>3. Pr!Live(now) = {promotions[p] : p \in S}
    BY DEF Pr!Live
<1>. HIDE DEF S
<1>4. PICK f : f = [p \in S |-> promotions[p]]
    OBVIOUS
<1>5. f \in Surjection(S, Pr!Live(now))
    BY <1>3, <1>4 DEF Surjection
<1>. QED BY <1>1, <1>2, <1>5, FS_Surjection

\* Whatever the rows are, the best of them is fair.
LEMMA RowsAreFair ==
    ASSUME Pr!PromotionsAssumption, Pr!PricesAssumption, Rows
    PROVE  Pr!ChargeIsFair
<1>1. ASSUME NEW now \in Moments, NEW subtotal \in Subtotals, NEW fee \in Fees,
             NEW best, best = Pr!BestDiscount(Pr!Live(now), subtotal, fee)
      PROVE  /\ Pr!Charge(best, subtotal, fee) \in 0..(subtotal + fee)
             /\ \A row \in Pr!Live(now) :
                   subtotal >= row.minimum =>
                       Pr!Charge(best, subtotal, fee) <=
                           Pr!Charge(Pr!Discount(row, subtotal, fee),
                                     subtotal, fee)
    <2>1. subtotal \in Nat /\ fee \in Nat
        BY DEF Pr!PricesAssumption
    <2>2. Beats(best, Pr!Live(now), subtotal, fee)
        BY <1>1, <2>1, LiveIsFinite, BestBeats
    <2>3. best \in Limits(subtotal, fee)
        BY <2>2 DEF Beats
    <2>4. Pr!Charge(best, subtotal, fee) \in 0..(subtotal + fee)
        BY <2>1, <2>3 DEF Limits, Pr!Charge
    <2>5. ASSUME NEW row \in Pr!Live(now), subtotal >= row.minimum
          PROVE  Pr!Charge(best, subtotal, fee) <=
                     Pr!Charge(Pr!Discount(row, subtotal, fee), subtotal, fee)
        <3>1. PICK off : off = Pr!Discount(row, subtotal, fee)
            OBVIOUS
        <3>2. off \in Limits(subtotal, fee)
            BY <2>1, <3>1, LiveIsFinite, DiscountIsLimited
        <3>3. Pr!Total(off) <= Pr!Total(best)
            BY <2>2, <2>5, <3>1 DEF Beats
        <3>4. Pr!Charge(best, subtotal, fee) <= Pr!Charge(off, subtotal, fee)
            BY <2>1, <2>3, <3>2, <3>3 DEF Limits, Pr!Total, Pr!Charge
        <3>. QED BY <3>1, <3>4
    <2>. QED BY <2>4, <2>5
<1>. QED BY <1>1 DEF Pr!ChargeIsFair

(***************************************************************************)
(* The parts side by side.                                                  *)
(***************************************************************************)

\* The promotions, with the updates that may overlap.
PromotionsKept == Rows /\ (serial => AllSound)

\* They are in order at the start.
LEMMA PromotionsInit == PartInit => PromotionsKept
<1>. SUFFICES ASSUME PartInit PROVE PromotionsKept
    OBVIOUS
<1>1. /\ promotions = [p \in Promotions |-> NULL]
      /\ updates = [c \in Calls |-> Pr!Idle] /\ Pr!Idle.pc = "idle"
    BY DEF PartInit, Pr!Init, Pr!Idle
<1>2. Rows
    <2>1. Update(promotions, Pr!Idle)
        BY DEF Update, Pr!Idle
    <2>. QED BY <1>1, <2>1 DEF Rows
<1>3. AllSound
    BY <1>1 DEF AllSound, UpdatesAlone, Pr!PromotionsAreValid, Sound
<1>. QED BY <1>2, <1>3 DEF PromotionsKept

\* They stay so, whichever part moves.
LEMMA PromotionsNext == PromotionsKept /\ [PartNext]_PartVars => PromotionsKept'
<1>. SUFFICES ASSUME PromotionsKept, [PartNext]_PartVars PROVE PromotionsKept'
    OBVIOUS
<1>1. CASE UNCHANGED <<serial, promotionVars>>
    BY <1>1 DEF PromotionsKept, promotionVars, Rows, AllSound, UpdatesAlone,
       Pr!PromotionsAreValid
<1>2. CASE PromotionsMove
    <2>1. Pr!Next /\ serial' = serial /\ (serial => UpdatesAlone')
        BY <1>2 DEF PromotionsMove
    <2>. QED BY <2>1, RowsNext, SoundNext DEF PromotionsKept
<1>. QED BY <1>1, <1>2 DEF PartNext, PartVars, PresenceMoves, StockMoves

\* Whatever updates overlap: checkout never charges a negative amount nor more
\* than the order without promotions, and no live promotion would have made
\* the order cheaper, for any promotions, prices and dates (bestPromotion()).
THEOREM ChargesAreFair == PartSpec => []ChargeIsFair
<1>1. PromotionsKept => ChargeIsFair
    BY RowsAreFair, MarketAssumption DEF PromotionsKept, ChargeIsFair
<1>. QED BY <1>1, PromotionsInit, PromotionsNext, PTL DEF PartSpec

\* If updates follow one another, every promotion can be applied, although
\* each of them checks one field with the rest of the row it loaded
\* (updatePromotion()).
THEOREM PromotionsCanBeApplied == PartSpec => []PromotionsAreValid
<1>1. PromotionsKept => PromotionsAreValid
    BY DEF PromotionsKept, AllSound, PromotionsAreValid
<1>. QED BY <1>1, PromotionsInit, PromotionsNext, PTL DEF PartSpec

\* However checkouts overlap and whichever calls stop, and if merchants' calls
\* are alone with their product, the movements of a product tell its stock and
\* what went when its tracking ended, while presence and promotions have their
\* own business (reserveLocked(), setStock()).
THEOREM LedgerStaysTrue == PartSpec => []LedgerTellsStock
<1>1. PartInit => Kept /\ MerchantsAlone
    <2>. SUFFICES ASSUME PartInit PROVE Kept /\ MerchantsAlone
        OBVIOUS
    <2>1. Kept
        BY KeptInit, MarketAssumption DEF PartInit
    <2>2. \A c \in Calls : calls[c].product = NULL
        BY DEF PartInit, Init, Idle
    <2>. QED BY <2>1, <2>2 DEF MerchantsAlone
<1>2. Kept /\ MerchantsAlone /\ [PartNext]_PartVars => (Kept /\ MerchantsAlone)'
    <2>. SUFFICES ASSUME Kept, MerchantsAlone, [PartNext]_PartVars
                  PROVE  Kept' /\ MerchantsAlone'
        OBVIOUS
    <2>1. CASE UNCHANGED vars
        <3>1. MerchantsAlone'
            BY <2>1 DEF vars, MerchantsAlone, Works, Wanted
        <3>. QED BY <2>1, <3>1, KeptNext, MarketAssumption
    <2>2. CASE StockMoves
        BY <2>2, KeptNext, MarketAssumption DEF StockMoves
    <2>. QED BY <2>1, <2>2
        DEF PartNext, PartVars, PresenceMoves, PromotionsMove
<1>3. Kept => LedgerTellsStock
    BY KeptTells, MarketAssumption
<1>. QED BY <1>1, <1>2, <1>3, PTL DEF PartSpec

=============================================================================
