----------------------------- MODULE PeopleProofs -----------------------------
(***************************************************************************)
(* What the parts promise, for every number of calls, orders, codes,        *)
(* tokens, files and rows: averages (Ratings), signing in (Accounts) and    *)
(* lists (Pages) are proved here, files and trust in UploadsProofs and      *)
(* TrustProofs.  PartSpec moves one part at a time; what is proved of a     *)
(* part is carried over to it.                                              *)
(***************************************************************************)
EXTENDS People, FiniteSetTheorems, SequenceTheorems, WellFoundedInduction,
        TLAPS

(***************************************************************************)
(* Averages.  The merchant's row is locked for a review and its average is  *)
(* recomputed from the reviews in the transaction, so that a call between   *)
(* the lock and the commit knows what it is going to write; an edit has the *)
(* count and the average of the row as it is.                               *)
(***************************************************************************)
\* A row of merchants has these columns.
IsMerchant(row) ==
    row = [name |-> row.name, count |-> row.count, mean |-> row.mean]

\* The count and the average are those of the reviews.
Agrees(row, scores) ==
    /\ row.count = Ra!CountOf(scores, Orders)
    /\ row.mean = Ra!MeanOf(scores, Orders)

Locking(call) == call.pc \in {"review", "commit"}

\* What a call knows, given the merchant's row and the reviews.
Knows(row, scores, call) ==
    /\ call.pc \in {"review", "commit", "reload", "write"} =>
           IsMerchant(call.copy)
    /\ call.pc = "commit" =>
           Agrees(call.copy, [scores EXCEPT ![call.subject] = call.score])
    /\ call.pc \in {"reload", "write"} =>
           call.copy.count = row.count /\ call.copy.mean = row.mean

\* The inductive invariant.
MeanKept ==
    /\ IsMerchant(merchant) /\ Agrees(merchant, reviews)
    /\ DOMAIN ratingCalls = Calls
    /\ \A c \in Calls : Knows(merchant, reviews, ratingCalls[c])
    /\ \A b, c \in Calls :
          Locking(ratingCalls[b]) /\ Locking(ratingCalls[c]) => b = c

\* A call that has ended knows nothing.
LEMMA IdleKnowsNothing ==
    ASSUME NEW row, NEW scores
    PROVE  Knows(row, scores, Ra!Idle) /\ ~Locking(Ra!Idle)
BY DEF Knows, Ra!Idle, Locking

\* The call moves on alone, and has the lock only if it had it before or
\* nobody had it.
LEMMA RaterMoves ==
    ASSUME MeanKept, NEW c \in Calls, NEW call, Ra!Become(c, call),
           Knows(merchant, reviews, call),
           Locking(call) => Locking(ratingCalls[c]) \/ ~Ra!MerchantLocked,
           UNCHANGED <<reviews, merchant>>
    PROVE  MeanKept'
<1>1. /\ DOMAIN ratingCalls' = Calls /\ ratingCalls'[c] = call
      /\ \A b \in Calls : b # c => ratingCalls'[b] = ratingCalls[b]
    BY DEF MeanKept, Ra!Become
<1>2. \A b \in Calls : Knows(merchant, reviews, ratingCalls'[b])
    BY <1>1 DEF MeanKept
<1>3. \A a, b \in Calls :
          Locking(ratingCalls'[a]) /\ Locking(ratingCalls'[b]) => a = b
    BY <1>1 DEF MeanKept, Ra!MerchantLocked, Locking
<1>. QED BY <1>1, <1>2, <1>3 DEF MeanKept

\* createReview(): the merchant is locked and read.
LEMMA ReviewBeginKeeps ==
    ASSUME MeanKept, NEW c \in Calls, NEW o \in Orders, NEW score \in Scores,
           Ra!ReviewBegin(c, o, score)
    PROVE  MeanKept'
<1>. DEFINE next == [Ra!Idle EXCEPT !.pc = "review", !.subject = o,
                                 !.score = score, !.copy = merchant]
<1>1. next.pc = "review" /\ next.copy = merchant
    BY DEF Ra!Idle
<1>2. /\ Ra!Become(c, next) /\ ~Ra!MerchantLocked
      /\ UNCHANGED <<reviews, merchant>>
    BY DEF Ra!ReviewBegin
<1>. HIDE DEF next
<1>3. Knows(merchant, reviews, next)
    BY <1>1 DEF Knows, MeanKept
<1>. QED BY <1>2, <1>3, RaterMoves

\* The review is inserted and the average computed.
LEMMA ReviewInsertKeeps ==
    ASSUME MeanKept, NEW c \in Calls, Ra!ReviewInsert(c) PROVE MeanKept'
<1>. DEFINE self == ratingCalls[c]
            all == [reviews EXCEPT ![self.subject] = self.score]
            count == Ra!CountOf(all, Orders)
            mean == Ra!MeanOf(all, Orders)
            next == [self EXCEPT !.pc = "commit", !.copy.count = count,
                                 !.copy.mean = mean]
<1>1. self.pc = "review" /\ Locking(self) /\ IsMerchant(self.copy)
    BY DEF Ra!ReviewInsert, Ra!At, Locking, MeanKept, Knows
<1>2. UNCHANGED <<reviews, merchant>>
    BY DEF Ra!ReviewInsert
<1>3. CASE Ra!Become(c, Ra!Idle)
    BY <1>2, <1>3, IdleKnowsNothing, RaterMoves
<1>4. CASE Ra!Become(c, next)
    <2>. HIDE DEF all, count, mean
    <2>1. /\ next.pc = "commit" /\ next.subject = self.subject
          /\ next.score = self.score
          /\ next.copy = [self.copy EXCEPT !.count = count, !.mean = mean]
        OBVIOUS
    <2>. HIDE DEF next
    <2>2. IsMerchant(next.copy) /\ next.copy.count = count /\ next.copy.mean = mean
        BY <1>1, <2>1 DEF IsMerchant
    <2>3. Agrees(next.copy, [reviews EXCEPT ![next.subject] = next.score])
        BY <2>1, <2>2 DEF Agrees, all, count, mean
    <2>4. Knows(merchant, reviews, next)
        BY <2>1, <2>2, <2>3 DEF Knows
    <2>. QED BY <1>1, <1>2, <1>4, <2>4, RaterMoves
<1>. QED BY <1>3, <1>4 DEF Ra!ReviewInsert

\* An UPDATE of all the columns that differ makes the row the entity; and one
\* whose count and average are the row's leaves them alone.
LEMMA SavedMerchant ==
    ASSUME NEW row, NEW copy, NEW dirty, IsMerchant(row), IsMerchant(copy)
    PROVE  /\ Ra!SavedRow(row, copy, Ra!DirtyColumns(copy, row)) = copy
           /\ LET saved == Ra!SavedRow(row, copy, dirty)
              IN  /\ IsMerchant(saved)
                  /\ saved.count \in {row.count, copy.count}
                  /\ saved.mean \in {row.mean, copy.mean}
BY DEF Ra!SavedRow, Ra!DirtyColumns, IsMerchant

\* The commit: nobody else has the lock, and nobody edits.
LEMMA ReviewCommitKeeps ==
    ASSUME MeanKept, Ra!EditsAlone, NEW c \in Calls, Ra!ReviewCommit(c)
    PROVE  MeanKept'
<1>. DEFINE self == ratingCalls[c]
<1>1. /\ self.pc = "commit" /\ Locking(self) /\ IsMerchant(self.copy)
      /\ Agrees(self.copy, [reviews EXCEPT ![self.subject] = self.score])
    BY DEF Ra!ReviewCommit, Ra!At, Locking, MeanKept, Knows
<1>2. /\ reviews' = [reviews EXCEPT ![self.subject] = self.score]
      /\ merchant' = self.copy /\ Ra!Become(c, Ra!Idle)
    BY <1>1, SavedMerchant DEF Ra!ReviewCommit, MeanKept
<1>3. IsMerchant(merchant)' /\ Agrees(merchant', reviews')
    BY <1>1, <1>2 DEF IsMerchant
<1>4. /\ DOMAIN ratingCalls' = Calls /\ ratingCalls'[c] = Ra!Idle
      /\ \A b \in Calls : b # c => ratingCalls'[b] = ratingCalls[b]
    BY <1>2 DEF MeanKept, Ra!Become
<1>5. \A b \in Calls : b # c =>
          ratingCalls[b].pc \notin {"reload", "write", "commit"}
    BY <1>1 DEF Ra!EditsAlone, Ra!At, MeanKept, Locking
<1>6. \A b \in Calls : Knows(merchant', reviews', ratingCalls'[b])
    <2>. SUFFICES ASSUME NEW b \in Calls, b # c
                  PROVE  Knows(merchant', reviews', ratingCalls[b])
        BY <1>4, IdleKnowsNothing
    <2>1. Knows(merchant, reviews, ratingCalls[b])
        BY DEF MeanKept
    <2>. QED BY <1>5, <2>1 DEF Knows
<1>7. \A a, b \in Calls :
          Locking(ratingCalls'[a]) /\ Locking(ratingCalls'[b]) => a = b
    BY <1>4, IdleKnowsNothing DEF MeanKept
<1>. QED BY <1>3, <1>4, <1>6, <1>7 DEF MeanKept

\* updateStorefront() and update() up to save(): the columns of the reviews
\* are held as they are.
LEMMA EditReadKeeps ==
    ASSUME MeanKept, NEW c \in Calls, NEW name \in Names, Ra!EditRead(c, name)
    PROVE  MeanKept'
<1>. DEFINE copy == [merchant EXCEPT !.name = name]
            next == [Ra!Idle EXCEPT !.pc = "reload", !.copy = copy]
<1>1. /\ IsMerchant(copy) /\ copy.count = merchant.count
      /\ copy.mean = merchant.mean
    BY DEF MeanKept, IsMerchant
<1>2. Ra!Become(c, next) /\ UNCHANGED <<reviews, merchant>>
    BY DEF Ra!EditRead
<1>. HIDE DEF copy
<1>3. next.pc = "reload" /\ next.copy = copy
    BY DEF Ra!Idle
<1>. HIDE DEF next
<1>4. Knows(merchant, reviews, next) /\ ~Locking(next)
    BY <1>1, <1>3 DEF Knows, Locking
<1>. QED BY <1>2, <1>4, RaterMoves

\* The SELECT of that save() ...
LEMMA EditReloadKeeps ==
    ASSUME MeanKept, NEW c \in Calls, Ra!EditReload(c) PROVE MeanKept'
<1>. DEFINE self == ratingCalls[c]
            dirty == Ra!DirtyColumns(self.copy, merchant)
            next == [self EXCEPT !.pc = "write", !.dirty = dirty]
<1>1. self.pc = "reload" /\ Knows(merchant, reviews, self)
    BY DEF Ra!EditReload, Ra!At, MeanKept
<1>2. Ra!Become(c, next) /\ UNCHANGED <<reviews, merchant>>
    BY DEF Ra!EditReload
<1>. HIDE DEF dirty
<1>3. next.pc = "write" /\ next.copy = self.copy
    OBVIOUS
<1>. HIDE DEF next
<1>4. Knows(merchant, reviews, next) /\ ~Locking(next)
    BY <1>1, <1>3 DEF Knows, Locking
<1>. QED BY <1>2, <1>4, RaterMoves

\* ... and its UPDATE, which leaves the columns of the reviews as they are.
LEMMA EditWriteKeeps ==
    ASSUME MeanKept, NEW c \in Calls, Ra!EditWrite(c) PROVE MeanKept'
<1>. DEFINE self == ratingCalls[c]
<1>1. /\ IsMerchant(merchant) /\ IsMerchant(self.copy)
      /\ self.copy.count = merchant.count /\ self.copy.mean = merchant.mean
    BY DEF Ra!EditWrite, Ra!At, MeanKept, Knows
<1>2. /\ merchant' = Ra!SavedRow(merchant, self.copy, self.dirty)
      /\ Ra!Become(c, Ra!Idle) /\ UNCHANGED reviews
    BY DEF Ra!EditWrite
<1>3. /\ IsMerchant(merchant') /\ merchant'.count = merchant.count
      /\ merchant'.mean = merchant.mean
    BY <1>1, <1>2, SavedMerchant
<1>4. /\ DOMAIN ratingCalls' = Calls /\ ratingCalls'[c] = Ra!Idle
      /\ \A b \in Calls : b # c => ratingCalls'[b] = ratingCalls[b]
    BY <1>2 DEF MeanKept, Ra!Become
<1>5. Agrees(merchant', reviews')
    BY <1>2, <1>3 DEF MeanKept, Agrees
<1>6. \A b \in Calls : Knows(merchant', reviews', ratingCalls'[b])
    <2>. SUFFICES ASSUME NEW b \in Calls, b # c
                  PROVE  Knows(merchant', reviews, ratingCalls[b])
        BY <1>2, <1>4, IdleKnowsNothing
    <2>1. Knows(merchant, reviews, ratingCalls[b])
        BY DEF MeanKept
    <2>. QED BY <1>3, <2>1 DEF Knows
<1>7. \A a, b \in Calls :
          Locking(ratingCalls'[a]) /\ Locking(ratingCalls'[b]) => a = b
    BY <1>4, IdleKnowsNothing DEF MeanKept
<1>. QED BY <1>3, <1>4, <1>5, <1>6, <1>7 DEF MeanKept

\* rate(), rateRental() and recomputeDriverAverage() know nothing of merchants.
LEMMA RatingKeepsMean ==
    ASSUME MeanKept, NEW c \in Calls,
           \/ \E t \in Ra!Trips, score \in Scores : Ra!RateRead(c, t, score)
           \/ Ra!RateInsert(c) \/ Ra!SumRides(c) \/ Ra!SumRentals(c)
           \/ Ra!WriteAverage(c)
    PROVE  MeanKept'
<1>1. UNCHANGED <<reviews, merchant>>
    BY DEF Ra!RateRead, Ra!RateInsert, Ra!SumRides, Ra!SumRentals, Ra!WriteAverage
<1>. DEFINE Elsewhere(call) ==
                call.pc \in {"idle", "insert", "sum rides", "sum rentals", "average"}
<1>2. \E call : Ra!Become(c, call) /\ Elsewhere(call)
    <2>1. ASSUME NEW t \in Ra!Trips, NEW score \in Scores, Ra!RateRead(c, t, score)
          PROVE  \E call : Ra!Become(c, call) /\ Elsewhere(call)
        <3>. DEFINE next == [Ra!Idle EXCEPT !.pc = "insert", !.subject = t,
                                         !.score = score]
        <3>1. Ra!Become(c, next) /\ Elsewhere(next)
            BY <2>1 DEF Ra!RateRead, Ra!Idle
        <3>. QED BY <3>1
    <2>2. CASE Ra!RateInsert(c)
        <3>. DEFINE next == [ratingCalls[c] EXCEPT !.pc = "sum rides",
                                             !.since = Ra!Rated(ratings', Ra!Trips)]
        <3>1. (Ra!Become(c, Ra!Idle) \/ Ra!Become(c, next)) /\ Elsewhere(Ra!Idle)
            BY <2>2 DEF Ra!RateInsert, Ra!Idle
        <3>2. Elsewhere(next)
            OBVIOUS
        <3>. QED BY <3>1, <3>2
    <2>3. CASE Ra!SumRides(c)
        <3>. DEFINE next == [ratingCalls[c] EXCEPT !.pc = "sum rentals",
                                             !.sum = Ra!SumOf(ratings, Rides),
                                             !.count = Ra!CountOf(ratings, Rides)]
        <3>1. Ra!Become(c, next)
            BY <2>3 DEF Ra!SumRides
        <3>2. next.pc = "sum rentals"
            OBVIOUS
        <3>. HIDE DEF next
        <3>. QED BY <3>1, <3>2
    <2>4. CASE Ra!SumRentals(c)
        <3>. DEFINE next == [ratingCalls[c] EXCEPT !.pc = "average",
                                 !.sum = @ + Ra!SumOf(ratings, RentalTrips),
                                 !.count = @ + Ra!CountOf(ratings, RentalTrips)]
        <3>1. Ra!Become(c, next)
            BY <2>4 DEF Ra!SumRentals
        <3>2. next.pc = "average"
            OBVIOUS
        <3>. HIDE DEF next
        <3>. QED BY <3>1, <3>2
    <2>5. CASE Ra!WriteAverage(c)
        <3>1. Ra!Become(c, Ra!Idle) /\ Elsewhere(Ra!Idle)
            BY <2>5 DEF Ra!WriteAverage, Ra!Idle
        <3>. QED BY <3>1
    <2>. QED BY <2>1, <2>2, <2>3, <2>4, <2>5
<1>3. PICK call : Ra!Become(c, call) /\ Elsewhere(call)
    BY <1>2
<1>4. Knows(merchant, reviews, call) /\ ~Locking(call)
    BY <1>3 DEF Knows, Locking
<1>. QED BY <1>1, <1>3, <1>4, RaterMoves

\* The process dies, and no transaction goes on.
LEMMA RaterCrashKeeps == ASSUME MeanKept, Ra!Crash PROVE MeanKept'
<1>1. /\ DOMAIN ratingCalls' = Calls /\ \A c \in Calls : ratingCalls'[c] = Ra!Idle
      /\ UNCHANGED <<reviews, merchant>>
    BY DEF Ra!Crash
<1>. QED BY <1>1, IdleKnowsNothing DEF MeanKept

\* The invariant holds at the start: there are no reviews ...
LEMMA MeanKeptInit == ASSUME Ra!Init PROVE MeanKept
<1>1. IsMerchant(merchant) /\ merchant.count = 0 /\ merchant.mean = 0
    BY DEF Ra!Init, IsMerchant
<1>2. Ra!Rated(Ra!NoReviews, Orders) = {}
    BY DEF Ra!Rated, Ra!NoReviews
<1>3. Ra!CountOf(Ra!NoReviews, Orders) = 0
    BY <1>2, FS_EmptySet DEF Ra!CountOf, Ra!Cardinality, Cardinality
<1>4. Ra!MeanOf(Ra!NoReviews, Orders) = 0
    BY <1>3 DEF Ra!MeanOf, Ra!Mean
<1>5. Agrees(merchant, reviews)
    BY <1>1, <1>3, <1>4 DEF Agrees, Ra!Init
<1>. QED BY <1>1, <1>5, IdleKnowsNothing DEF MeanKept, Ra!Init

\* ... and every step from a state in which edits are alone keeps it.
LEMMA MeanKeptNext ==
    ASSUME MeanKept, Ra!EditsAlone, [Ra!Next]_Ra!vars PROVE MeanKept'
<1>1. CASE UNCHANGED Ra!vars
    BY <1>1 DEF Ra!vars, MeanKept
<1>. QED BY <1>1, ReviewBeginKeeps, ReviewInsertKeeps, ReviewCommitKeeps,
            EditReadKeeps, EditReloadKeeps, EditWriteKeeps, RatingKeepsMean,
            RaterCrashKeeps DEF Ra!Next

\* However reviews overlap and wherever the process dies, if the merchant's
\* edits overlap no other call: the merchant's count and average are those of
\* its reviews (createReview() under its row lock).
THEOREM AverageIsTrue == Ra!Spec /\ []Ra!EditsAlone => []Ra!MerchantMeanAgrees
<1>1. Ra!Init => MeanKept
    BY MeanKeptInit
<1>2. MeanKept /\ Ra!EditsAlone /\ [Ra!Next]_Ra!vars => MeanKept'
    BY MeanKeptNext
<1>3. MeanKept => Ra!MerchantMeanAgrees
    BY DEF MeanKept, Agrees, Ra!MerchantMeanAgrees
<1>. QED BY <1>1, <1>2, <1>3, PTL DEF Ra!Spec

(***************************************************************************)
(* Sums over finite sets, which a fold computes in an order of its own.     *)
(* What holds of a set if it holds of the set without one of its elements   *)
(* is shown for the smallest set of which it would not hold.                *)
(***************************************************************************)

\* A set of numbers has a least one.
LEMMA LeastNumber ==
    ASSUME NEW T \in SUBSET Nat, T # {}
    PROVE  \E x \in T : \A y \in T : x <= y
<1>1. IsWellFoundedOn(OpToRel(<, Nat), Nat)
    BY NatLessThanWellFounded
<1>2. PICK R : R = OpToRel(<, Nat)
    OBVIOUS
<1>3. \A x, y \in Nat : x < y => <<x, y>> \in R
    BY <1>2 DEF OpToRel
<1>4. PICK x \in T : \A y \in T : ~(<<y, x>> \in R)
    BY <1>1, <1>2, WFMin
<1>5. ASSUME NEW y \in T PROVE x <= y
    <2>1. x \in Nat /\ y \in Nat /\ ~(<<y, x>> \in R)
        BY <1>4
    <2>2. ~(y < x)
        BY <1>3, <2>1
    <2>. QED BY <2>1, <2>2
<1>. QED BY <1>5

\* Among finite sets one is smallest.
LEMMA SmallestSet ==
    ASSUME NEW Bad, Bad # {}, \A S \in Bad : IsFiniteSet(S)
    PROVE  \E S \in Bad : \A x \in S : S \ {x} \notin Bad
<1>. DEFINE Sizes == {Cardinality(S) : S \in Bad}
<1>1. Sizes \in SUBSET Nat /\ Sizes # {}
    BY FS_CardinalityType
<1>2. PICK n \in Sizes : \A m \in Sizes : n <= m
    <2>. HIDE DEF Sizes
    <2>. QED BY <1>1, LeastNumber
<1>3. PICK S \in Bad : Cardinality(S) = n
    OBVIOUS
<1>4. ASSUME NEW x \in S PROVE S \ {x} \notin Bad
    <2>1. IsFiniteSet(S) /\ Cardinality(S \ {x}) = n - 1
        BY <1>3, FS_RemoveElement
    <2>2. n \in Nat
        BY <1>1
    <2>3. ~(n <= n - 1)
        BY <2>2
    <2>4. n - 1 \notin Sizes
        <3>. HIDE DEF Sizes
        <3>. QED BY <1>2, <2>3
    <2>. QED BY <2>1, <2>4
<1>. QED BY <1>4

\* The element that the fold comes to last.
Some(S) == CHOOSE x \in S : TRUE

\* What the fold has for a set, given what it has for smaller ones.
AddUp(it, f, S) == IF S = {} THEN 0 ELSE f[Some(S)] + it[S \ {Some(S)}]

\* What it has for each subset.
AddsUp(it, f, all) == it = [S \in SUBSET all |-> AddUp(it, f, S)]

Sum(f, S) == Ra!MapThenSumSet(LAMBDA s : f[s], S)

\* There is such a function, ...
LEMMA SumsExist ==
    ASSUME NEW all, IsFiniteSet(all), NEW f
    PROVE  \E it : AddsUp(it, f, all)
<1>. DEFINE Upto(n) ==
                \E it : \A S \in SUBSET all :
                    Cardinality(S) <= n => it[S] = AddUp(it, f, S)
            Bad == {n \in Nat : ~Upto(n)}
<1>1. ASSUME NEW S \in SUBSET all
      PROVE  /\ IsFiniteSet(S) /\ Cardinality(S) \in Nat
             /\ S # {} =>
                  /\ Some(S) \in S
                  /\ Cardinality(S \ {Some(S)}) = Cardinality(S) - 1
             /\ Cardinality(S) = 0 => S = {}
    <2>1. IsFiniteSet(S)
        BY FS_Subset
    <2>2. S # {} => Some(S) \in S
        BY DEF Some
    <2>. QED BY <2>1, <2>2, FS_RemoveElement, FS_CardinalityType, FS_EmptySet
<1>2. Upto(0)
    <2>1. PICK it : it = [S \in SUBSET all |-> 0]
        OBVIOUS
    <2>2. ASSUME NEW S \in SUBSET all, Cardinality(S) <= 0
          PROVE  it[S] = AddUp(it, f, S)
        <3>1. Cardinality(S) \in Nat
            BY <1>1
        <3>2. Cardinality(S) = 0
            BY <2>2, <3>1
        <3>3. S = {}
            BY <1>1, <3>2
        <3>. QED BY <2>1, <3>3 DEF AddUp
    <2>. QED BY <2>2
<1>3. ASSUME NEW n \in Nat, Upto(n) PROVE Upto(n + 1)
    <2>1. PICK it : \A S \in SUBSET all :
                       Cardinality(S) <= n => it[S] = AddUp(it, f, S)
        BY <1>3
    <2>2. PICK next : next = [S \in SUBSET all |-> AddUp(it, f, S)]
        OBVIOUS
    <2>3. ASSUME NEW S \in SUBSET all, Cardinality(S) <= n + 1
          PROVE  next[S] = AddUp(next, f, S)
        <3>1. CASE S = {}
            BY <2>2, <3>1 DEF AddUp
        <3>2. CASE S # {}
            <4>1. PICK rest : rest = S \ {Some(S)}
                OBVIOUS
            <4>2. rest \in SUBSET all /\ Cardinality(rest) <= n
                BY <1>1, <2>3, <3>2, <4>1
            <4>3. next[rest] = it[rest]
                BY <2>1, <2>2, <4>2
            <4>. QED BY <2>2, <3>2, <4>1, <4>3 DEF AddUp
        <3>. QED BY <3>1, <3>2
    <2>. QED BY <2>3
<1>4. Bad = {}
    <2>. SUFFICES ASSUME Bad # {} PROVE FALSE
        OBVIOUS
    <2>1. PICK n \in Bad : \A m \in Bad : n <= m
        <3>. HIDE DEF Upto
        <3>1. Bad \in SUBSET Nat
            OBVIOUS
        <3>. QED BY <3>1, LeastNumber
    <2>. HIDE DEF Upto
    <2>2. n \in Nat /\ n # 0 /\ ~Upto(n)
        BY <1>2
    <2>3. n - 1 \in Nat /\ n - 1 \notin Bad
        BY <2>1, <2>2
    <2>4. Upto((n - 1) + 1)
        BY <1>3, <2>3
    <2>5. (n - 1) + 1 = n
        BY <2>2
    <2>. QED BY <2>2, <2>4, <2>5
<1>5. Upto(Cardinality(all))
    <2>. HIDE DEF Upto
    <2>. QED BY <1>1, <1>4
<1>6. PICK it : \A S \in SUBSET all :
                   Cardinality(S) <= Cardinality(all) => it[S] = AddUp(it, f, S)
    BY <1>5
<1>7. \A S \in SUBSET all : it[S] = AddUp(it, f, S)
    BY <1>6, FS_Subset
<1>8. PICK next : next = [S \in SUBSET all |-> AddUp(it, f, S)]
    OBVIOUS
<1>9. ASSUME NEW S \in SUBSET all PROVE AddUp(it, f, S) = AddUp(next, f, S)
    <2>1. PICK rest : rest = S \ {Some(S)}
        OBVIOUS
    <2>2. next[rest] = it[rest]
        BY <1>7, <1>8, <2>1
    <2>. QED BY <2>1, <2>2 DEF AddUp
<1>. QED BY <1>8, <1>9 DEF AddsUp

\* ... it is what the fold chooses, ...
LEMMA SumIsAddedUp ==
    ASSUME NEW all, IsFiniteSet(all), NEW f
    PROVE  \E it : AddsUp(it, f, all) /\ Sum(f, all) = it[all]
<1>1. PICK best : best = CHOOSE it : AddsUp(it, f, all)
    OBVIOUS
<1>2. AddsUp(best, f, all)
    BY <1>1, SumsExist
<1>3. Sum(f, all) = best[all]
    BY <1>1 DEF AddsUp, AddUp, Some, Sum, Ra!MapThenSumSet, Ra!MapThenFoldSet
<1>. QED BY <1>2, <1>3

\* ... and there is only one, whatever set it is a sum of.
LEMMA SumsAgree ==
    ASSUME NEW f, NEW A, NEW B, NEW it, NEW jt,
           AddsUp(it, f, A), AddsUp(jt, f, B),
           IsFiniteSet(A), NEW S \in SUBSET (A \cap B)
    PROVE  it[S] = jt[S]
<1>. DEFINE Bad == {T \in SUBSET S : it[T] # jt[T]}
<1>. SUFFICES Bad = {}
    OBVIOUS
<1>. SUFFICES ASSUME Bad # {} PROVE FALSE
    OBVIOUS
<1>1. \A T \in Bad : IsFiniteSet(T)
    BY FS_Subset
<1>2. PICK T \in Bad : \A x \in T : T \ {x} \notin Bad
    <2>. HIDE DEF Bad
    <2>. QED BY <1>1, SmallestSet
<1>3. T \in SUBSET S /\ it[T] # jt[T]
    OBVIOUS
<1>4. it[T] = AddUp(it, f, T) /\ jt[T] = AddUp(jt, f, T)
    BY <1>3 DEF AddsUp
<1>5. CASE T = {}
    BY <1>3, <1>4, <1>5 DEF AddUp
<1>6. CASE T # {}
    <2>1. PICK x : x = Some(T)
        OBVIOUS
    <2>2. x \in T
        BY <1>6, <2>1 DEF Some
    <2>3. it[T \ {x}] = jt[T \ {x}]
        BY <1>2, <1>3, <2>2
    <2>. QED BY <1>3, <1>4, <1>6, <2>1, <2>3 DEF AddUp
<1>. QED BY <1>5, <1>6

\* A sum is one of its summands and the sum of the others.
LEMMA SumOfSome ==
    ASSUME NEW f, NEW S, IsFiniteSet(S), S # {}
    PROVE  /\ Some(S) \in S /\ IsFiniteSet(S \ {Some(S)})
           /\ Sum(f, S) = f[Some(S)] + Sum(f, S \ {Some(S)})
<1>1. PICK x, rest : x = Some(S) /\ rest = S \ {x}
    OBVIOUS
<1>2. x \in S /\ IsFiniteSet(rest)
    BY <1>1, FS_Subset DEF Some
<1>3. PICK it : AddsUp(it, f, S) /\ Sum(f, S) = it[S]
    BY SumIsAddedUp
<1>4. PICK jt : AddsUp(jt, f, rest) /\ Sum(f, rest) = jt[rest]
    BY <1>2, SumIsAddedUp
<1>5. it[rest] = jt[rest]
    <2>1. rest \in SUBSET (S \cap rest)
        BY <1>1
    <2>. QED BY <1>3, <1>4, <2>1, SumsAgree
<1>6. it[S] = f[x] + it[rest]
    BY <1>1, <1>3 DEF AddsUp, AddUp
<1>. QED BY <1>1, <1>2, <1>3, <1>4, <1>5, <1>6

\* Nothing adds up to 0.
LEMMA SumOfNothing == ASSUME NEW f PROVE Sum(f, {}) = 0
<1>1. PICK it : AddsUp(it, f, {}) /\ Sum(f, {}) = it[{}]
    BY SumIsAddedUp, FS_EmptySet
<1>. QED BY <1>1 DEF AddsUp, AddUp

\* A sum of numbers is a number.
LEMMA SumIsNumber ==
    ASSUME NEW f, NEW all, IsFiniteSet(all), \A x \in all : f[x] \in Nat
    PROVE  Sum(f, all) \in Nat
<1>. DEFINE Bad == {S \in SUBSET all : Sum(f, S) \notin Nat}
<1>. SUFFICES Bad = {}
    OBVIOUS
<1>. SUFFICES ASSUME Bad # {} PROVE FALSE
    OBVIOUS
<1>1. \A S \in Bad : IsFiniteSet(S)
    BY FS_Subset
<1>2. PICK S \in Bad : \A x \in S : S \ {x} \notin Bad
    <2>. HIDE DEF Bad
    <2>. QED BY <1>1, SmallestSet
<1>3. S \in SUBSET all /\ Sum(f, S) \notin Nat /\ IsFiniteSet(S)
    BY <1>1
<1>4. S # {}
    BY <1>3, SumOfNothing
<1>5. PICK x : x = Some(S)
    OBVIOUS
<1>6. x \in S /\ Sum(f, S) = f[x] + Sum(f, S \ {x})
    BY <1>3, <1>4, <1>5, SumOfSome
<1>7. Sum(f, S \ {x}) \in Nat /\ f[x] \in Nat
    BY <1>2, <1>3, <1>6
<1>8. f[x] + Sum(f, S \ {x}) \in Nat
    BY <1>7
<1>. QED BY <1>3, <1>6, <1>8

\* The summands may be taken in any order.
LEMMA SumWithout ==
    ASSUME NEW f, NEW all, IsFiniteSet(all), \A x \in all : f[x] \in Nat,
           NEW z \in all
    PROVE  Sum(f, all) = f[z] + Sum(f, all \ {z})
<1>. DEFINE Bad == {S \in SUBSET all :
                      \E x \in S : Sum(f, S) # f[x] + Sum(f, S \ {x})}
<1>. SUFFICES Bad = {}
    OBVIOUS
<1>. SUFFICES ASSUME Bad # {} PROVE FALSE
    OBVIOUS
<1>1. \A S \in Bad : IsFiniteSet(S)
    BY FS_Subset
<1>2. PICK S \in Bad : \A x \in S : S \ {x} \notin Bad
    <2>. HIDE DEF Bad
    <2>. QED BY <1>1, SmallestSet
<1>3. S \in SUBSET all /\ IsFiniteSet(S)
    BY <1>1
<1>4. PICK x \in S : Sum(f, S) # f[x] + Sum(f, S \ {x})
    OBVIOUS
<1>5. PICK y : y = Some(S)
    OBVIOUS
<1>6. y \in S /\ Sum(f, S) = f[y] + Sum(f, S \ {y})
    BY <1>3, <1>4, <1>5, SumOfSome
<1>7. y # x
    BY <1>4, <1>6
<1>8. S \ {x} \notin Bad /\ S \ {y} \notin Bad
    BY <1>2, <1>6
<1>9. /\ Sum(f, S \ {y}) = f[x] + Sum(f, (S \ {y}) \ {x})
      /\ Sum(f, S \ {x}) = f[y] + Sum(f, (S \ {x}) \ {y})
    BY <1>3, <1>6, <1>7, <1>8
<1>10. PICK rest : rest = (S \ {y}) \ {x}
    OBVIOUS
<1>11. rest = (S \ {x}) \ {y} /\ Sum(f, rest) \in Nat
    <2>1. rest \in SUBSET all /\ IsFiniteSet(rest)
        BY <1>3, <1>10, FS_Subset
    <2>. QED BY <1>10, <2>1, SumIsNumber
<1>12. f[x] \in Nat /\ f[y] \in Nat
    BY <1>3, <1>6
<1>13. /\ Sum(f, S \ {y}) = f[x] + Sum(f, rest)
       /\ Sum(f, S \ {x}) = f[y] + Sum(f, rest)
    BY <1>9, <1>10, <1>11
<1>14. f[y] + (f[x] + Sum(f, rest)) = f[x] + (f[y] + Sum(f, rest))
    BY <1>11, <1>12
<1>15. Sum(f, S) = f[x] + Sum(f, S \ {x})
    BY <1>6, <1>13, <1>14
<1>. QED BY <1>4, <1>15

\* The sum over two sets that share nothing.
LEMMA SumOfBoth ==
    ASSUME NEW f, NEW A, NEW B, IsFiniteSet(A \cup B), A \cap B = {},
           \A x \in A \cup B : f[x] \in Nat
    PROVE  Sum(f, A \cup B) = Sum(f, A) + Sum(f, B)
<1>. DEFINE Bad == {S \in SUBSET B : Sum(f, A \cup S) # Sum(f, A) + Sum(f, S)}
<1>. SUFFICES Bad = {}
    OBVIOUS
<1>. SUFFICES ASSUME Bad # {} PROVE FALSE
    OBVIOUS
<1>1. \A S \in SUBSET (A \cup B) : IsFiniteSet(S) /\ Sum(f, S) \in Nat
    BY FS_Subset, SumIsNumber
<1>2. PICK S \in Bad : \A x \in S : S \ {x} \notin Bad
    <2>1. \A S \in Bad : IsFiniteSet(S)
        BY <1>1
    <2>. HIDE DEF Bad
    <2>. QED BY <2>1, SmallestSet
<1>3. S \in SUBSET B /\ Sum(f, A \cup S) # Sum(f, A) + Sum(f, S)
    OBVIOUS
<1>4. CASE S = {}
    <2>1. A \cup S = A
        BY <1>4
    <2>2. Sum(f, A) \in Nat
        BY <1>1
    <2>. QED BY <1>3, <1>4, <2>1, <2>2, SumOfNothing
<1>5. CASE S # {}
    <2>1. PICK x : x \in S
        BY <1>5
    <2>2. PICK rest : rest = S \ {x}
        OBVIOUS
    <2>3. Sum(f, A \cup rest) = Sum(f, A) + Sum(f, rest)
        BY <1>2, <1>3, <2>1, <2>2
    <2>4. Sum(f, S) = f[x] + Sum(f, rest)
        BY <1>1, <1>3, <2>1, <2>2, SumWithout
    <2>5. Sum(f, A \cup S) = f[x] + Sum(f, A \cup rest)
        <3>1. (A \cup S) \ {x} = A \cup rest
            BY <1>3, <2>1, <2>2
        <3>2. x \in A \cup S /\ A \cup S \in SUBSET (A \cup B)
            BY <1>3, <2>1
        <3>. QED BY <1>1, <3>1, <3>2, SumWithout
    <2>6. /\ f[x] \in Nat /\ Sum(f, A) \in Nat /\ Sum(f, rest) \in Nat
          /\ A \cup rest \in SUBSET (A \cup B)
        BY <1>1, <1>3, <2>1, <2>2
    <2>. QED BY <1>3, <2>3, <2>4, <2>5, <2>6
<1>. QED BY <1>4, <1>5

(***************************************************************************)
(* Ratings of the driver.  A call that recomputes the average knows the     *)
(* ratings it has summed so far, unless another one was inserted meanwhile. *)
(***************************************************************************)
Summing == {"sum rides", "sum rentals", "average"}

\* The sum and the number of the driver's ratings up to where a call is.
HasSummed(scores, call) ==
    /\ call.pc = "sum rentals" =>
           /\ call.sum = Ra!SumOf(scores, Rides)
           /\ call.count = Ra!CountOf(scores, Rides)
    /\ call.pc = "average" =>
           /\ call.sum = Ra!SumOf(scores, Ra!Trips)
           /\ call.count = Ra!CountOf(scores, Ra!Trips)

\* What a call knows of the ratings.
Rates(scores, call) ==
    /\ call.pc \in Summing \cup {"insert"} => DOMAIN call = DOMAIN Ra!Idle
    /\ call.pc = "insert" => call.subject \in Ra!Trips /\ call.score \in Scores
    /\ call.pc \in Summing =>
           /\ call.since \subseteq Ra!Rated(scores, Ra!Trips)
           /\ call.since = Ra!Rated(scores, Ra!Trips) => HasSummed(scores, call)

RatingsTold ==
    /\ ratings \in [Ra!Trips -> Scores \cup {NULL}]
    /\ DOMAIN ratingCalls = Calls
    /\ \A c \in Calls : Rates(ratings, ratingCalls[c])

\* Rides and rentals together are the trips.
LEMMA TripsAddUp ==
    ASSUME Ra!RatingsAssumption, NEW scores \in [Ra!Trips -> Scores \cup {NULL}]
    PROVE  /\ Ra!SumOf(scores, Ra!Trips) =
                  Ra!SumOf(scores, Rides) + Ra!SumOf(scores, RentalTrips)
           /\ Ra!CountOf(scores, Ra!Trips) =
                  Ra!CountOf(scores, Rides) + Ra!CountOf(scores, RentalTrips)
<1>1. PICK A, B : A = Ra!Rated(scores, Rides) /\ B = Ra!Rated(scores, RentalTrips)
    OBVIOUS
<1>2. Ra!Rated(scores, Ra!Trips) = A \cup B /\ A \cap B = {}
    BY <1>1 DEF Ra!Rated, Ra!Trips, Ra!RatingsAssumption
<1>3. IsFiniteSet(A \cup B) /\ IsFiniteSet(A) /\ IsFiniteSet(B)
    <2>1. IsFiniteSet(Ra!Trips)
        BY DEF Ra!RatingsAssumption, Ra!IsFiniteSet, IsFiniteSet
    <2>2. A \cup B \in SUBSET Ra!Trips /\ A \in SUBSET Ra!Trips /\ B \in SUBSET Ra!Trips
        BY <1>1 DEF Ra!Rated, Ra!Trips
    <2>. QED BY <2>1, <2>2, FS_Subset
<1>4. \A x \in A \cup B : scores[x] \in Nat
    BY <1>1 DEF Ra!Rated, Ra!Trips, Ra!RatingsAssumption
<1>5. Sum(scores, A \cup B) = Sum(scores, A) + Sum(scores, B)
    BY <1>2, <1>3, <1>4, SumOfBoth
<1>6. Cardinality(A \cup B) = Cardinality(A) + Cardinality(B)
    <2>1. Cardinality(A \cap B) = 0
        BY <1>2, FS_EmptySet
    <2>2. Cardinality(A) \in Nat /\ Cardinality(B) \in Nat
        BY <1>3, FS_CardinalityType
    <2>3. Cardinality(A \cup B) =
              Cardinality(A) + Cardinality(B) - Cardinality(A \cap B)
        BY <1>3, FS_Union
    <2>. QED BY <2>1, <2>2, <2>3
<1>7. /\ Ra!SumOf(scores, Ra!Trips) = Sum(scores, A \cup B)
      /\ Ra!SumOf(scores, Rides) = Sum(scores, A)
      /\ Ra!SumOf(scores, RentalTrips) = Sum(scores, B)
    BY <1>1, <1>2 DEF Ra!SumOf, Sum
<1>8. /\ Ra!CountOf(scores, Ra!Trips) = Cardinality(A \cup B)
      /\ Ra!CountOf(scores, Rides) = Cardinality(A)
      /\ Ra!CountOf(scores, RentalTrips) = Cardinality(B)
    BY <1>1, <1>2 DEF Ra!CountOf, Ra!Cardinality, Cardinality
<1>. QED BY <1>5, <1>6, <1>7, <1>8

\* The call moves on alone.
LEMMA RaterGoesOn ==
    ASSUME RatingsTold, NEW c \in Calls, NEW call, Ra!Become(c, call),
           Rates(ratings, call), UNCHANGED ratings
    PROVE  RatingsTold'
BY DEF RatingsTold, Ra!Become

\* Where nothing is known of ratings.
Unrelated(call) == call.pc \in {"idle", "review", "commit", "reload", "write"}

\* A call that rates nobody claims nothing of ratings.
LEMMA UnrelatedRates ==
    ASSUME NEW call, Unrelated(call), NEW scores PROVE Rates(scores, call)
BY DEF Unrelated, Rates, Summing

\* The merchant's calls know nothing of the driver's ratings.
LEMMA MerchantKeepsRatings ==
    ASSUME RatingsTold, NEW c \in Calls,
           \/ \E o \in Orders, score \in Scores : Ra!ReviewBegin(c, o, score)
           \/ \E name \in Names : Ra!EditRead(c, name)
           \/ Ra!ReviewInsert(c) \/ Ra!ReviewCommit(c)
           \/ Ra!EditReload(c) \/ Ra!EditWrite(c)
    PROVE  RatingsTold'
<1>1. UNCHANGED ratings
    BY DEF Ra!ReviewBegin, Ra!EditRead, Ra!ReviewInsert, Ra!ReviewCommit,
       Ra!EditReload, Ra!EditWrite
<1>2. Ra!Idle.pc = "idle"
    BY DEF Ra!Idle
<1>3. \E call : Ra!Become(c, call) /\ Unrelated(call)
    <2>1. ASSUME NEW o \in Orders, NEW score \in Scores, Ra!ReviewBegin(c, o, score)
          PROVE  \E call : Ra!Become(c, call) /\ Unrelated(call)
        <3>. DEFINE next == [Ra!Idle EXCEPT !.pc = "review", !.subject = o,
                                            !.score = score, !.copy = merchant]
        <3>1. Ra!Become(c, next) /\ next.pc = "review"
            BY <2>1 DEF Ra!ReviewBegin, Ra!Idle
        <3>. QED BY <3>1 DEF Unrelated
    <2>2. ASSUME NEW name \in Names, Ra!EditRead(c, name)
          PROVE  \E call : Ra!Become(c, call) /\ Unrelated(call)
        <3>. DEFINE next == [Ra!Idle EXCEPT !.pc = "reload",
                                 !.copy = [merchant EXCEPT !.name = name]]
        <3>1. Ra!Become(c, next) /\ next.pc = "reload"
            BY <2>2 DEF Ra!EditRead, Ra!Idle
        <3>. QED BY <3>1 DEF Unrelated
    <2>3. CASE Ra!ReviewInsert(c)
        <3>1. PICK self, all : /\ self = ratingCalls[c]
                               /\ all = [reviews EXCEPT ![self.subject] = self.score]
            OBVIOUS
        <3>2. PICK next : next = [self EXCEPT !.pc = "commit",
                                     !.copy.count = Ra!CountOf(all, Orders),
                                     !.copy.mean = Ra!MeanOf(all, Orders)]
            OBVIOUS
        <3>3. self.pc = "review" /\ (Ra!Become(c, Ra!Idle) \/ Ra!Become(c, next))
            BY <2>3, <3>1, <3>2 DEF Ra!ReviewInsert, Ra!At
        <3>4. next.pc \in {"review", "commit"}
            BY <3>2, <3>3
        <3>. QED BY <1>2, <3>3, <3>4 DEF Unrelated
    <2>4. CASE Ra!ReviewCommit(c) \/ Ra!EditWrite(c)
        <3>1. Ra!Become(c, Ra!Idle)
            BY <2>4 DEF Ra!ReviewCommit, Ra!EditWrite
        <3>. QED BY <1>2, <3>1 DEF Unrelated
    <2>5. CASE Ra!EditReload(c)
        <3>1. PICK self, dirty : /\ self = ratingCalls[c]
                                 /\ dirty = Ra!DirtyColumns(self.copy, merchant)
            OBVIOUS
        <3>2. PICK next : next = [self EXCEPT !.pc = "write", !.dirty = dirty]
            OBVIOUS
        <3>3. self.pc = "reload" /\ Ra!Become(c, next)
            BY <2>5, <3>1, <3>2 DEF Ra!EditReload, Ra!At
        <3>4. next.pc \in {"reload", "write"}
            BY <3>2, <3>3
        <3>. QED BY <3>3, <3>4 DEF Unrelated
    <2>. QED BY <2>1, <2>2, <2>3, <2>4, <2>5
<1>4. PICK call : Ra!Become(c, call) /\ Unrelated(call)
    BY <1>3
<1>. QED BY <1>1, <1>4, UnrelatedRates, RaterGoesOn

\* Another call's ratings are no longer all once a rating is inserted.
LEMMA RateInsertKeeps ==
    ASSUME Ra!RatingsAssumption, RatingsTold, NEW c \in Calls, Ra!RateInsert(c)
    PROVE  RatingsTold'
<1>1. PICK self, trip : self = ratingCalls[c] /\ trip = self.subject
    OBVIOUS
<1>2. /\ self.pc = "insert" /\ trip \in Ra!Trips /\ self.score \in Scores
    BY <1>1 DEF Ra!RateInsert, Ra!At, RatingsTold, Rates
<1>3. CASE ratings[trip] # NULL
    <2>1. Ra!Become(c, Ra!Idle) /\ UNCHANGED ratings
        BY <1>1, <1>3 DEF Ra!RateInsert
    <2>2. Unrelated(Ra!Idle)
        BY DEF Unrelated, Ra!Idle
    <2>. QED BY <2>1, <2>2, UnrelatedRates, RaterGoesOn
<1>4. CASE ratings[trip] = NULL
    <2>1. PICK all : all = Ra!Rated(ratings', Ra!Trips)
        OBVIOUS
    <2>2. PICK next : next = IF trip \in Taken THEN Ra!Idle
                              ELSE [self EXCEPT !.pc = "sum rides", !.since = all]
        OBVIOUS
    <2>3. /\ ratings' = [ratings EXCEPT ![trip] = self.score]
          /\ Ra!Become(c, next)
        BY <1>1, <1>4, <2>1, <2>2 DEF Ra!RateInsert
    <2>4. self.score # NULL
        BY <1>2 DEF Ra!RatingsAssumption
    <2>5. /\ ratings' \in [Ra!Trips -> Scores \cup {NULL}]
          /\ Ra!Rated(ratings, Ra!Trips) \subseteq all
          /\ trip \in all \ Ra!Rated(ratings, Ra!Trips)
        BY <1>2, <1>4, <2>1, <2>3, <2>4 DEF RatingsTold, Ra!Rated
    <2>6. /\ DOMAIN ratingCalls' = Calls
          /\ \A b \in Calls \ {c} : ratingCalls'[b] = ratingCalls[b]
          /\ ratingCalls'[c] = next
        BY <2>3 DEF RatingsTold, Ra!Become
    <2>7. Rates(ratings', next)
        <3>1. CASE trip \in Taken
            <4>1. Unrelated(next)
                BY <2>2, <3>1 DEF Unrelated, Ra!Idle
            <4>. QED BY <4>1, UnrelatedRates
        <3>2. CASE trip \notin Taken
            <4>1. DOMAIN self = DOMAIN Ra!Idle
                BY <1>1, <1>2 DEF RatingsTold, Rates
            <4>2. /\ DOMAIN next = DOMAIN Ra!Idle
                  /\ next.pc = "sum rides" /\ next.since = all
                BY <2>2, <3>2, <4>1 DEF Ra!Idle
            <4>. QED BY <2>1, <4>2 DEF Rates, Summing, HasSummed
        <3>. QED BY <3>1, <3>2
    <2>8. ASSUME NEW b \in Calls \ {c} PROVE Rates(ratings', ratingCalls[b])
        <3>1. Rates(ratings, ratingCalls[b])
            BY DEF RatingsTold
        <3>2. ratingCalls[b].pc \in Summing =>
                  /\ ratingCalls[b].since \subseteq all
                  /\ ratingCalls[b].since # all
            BY <2>5, <3>1 DEF Rates
        <3>. QED BY <2>1, <3>1, <3>2 DEF Rates
    <2>. QED BY <2>5, <2>6, <2>7, <2>8 DEF RatingsTold
<1>. QED BY <1>3, <1>4

\* rate() and recomputeDriverAverage() up to the next await.
LEMMA RateReadKeeps ==
    ASSUME RatingsTold, NEW c \in Calls, NEW t \in Ra!Trips, NEW score \in Scores,
           Ra!RateRead(c, t, score)
    PROVE  RatingsTold'
<1>1. PICK next : next = [Ra!Idle EXCEPT !.pc = "insert", !.subject = t,
                                         !.score = score]
    OBVIOUS
<1>2. Ra!Become(c, next) /\ UNCHANGED ratings
    BY <1>1 DEF Ra!RateRead
<1>3. /\ DOMAIN next = DOMAIN Ra!Idle
      /\ next.pc = "insert" /\ next.subject = t /\ next.score = score
    BY <1>1 DEF Ra!Idle
<1>4. Rates(ratings, next)
    BY <1>3 DEF Rates, Summing
<1>. QED BY <1>2, <1>4, RaterGoesOn

\* The sum over rides is that of the ratings there are, ...
LEMMA SumRidesKeeps ==
    ASSUME RatingsTold, NEW c \in Calls, Ra!SumRides(c) PROVE RatingsTold'
<1>1. PICK self, sum, count :
          /\ self = ratingCalls[c] /\ sum = Ra!SumOf(ratings, Rides)
          /\ count = Ra!CountOf(ratings, Rides)
    OBVIOUS
<1>2. PICK next : next = [self EXCEPT !.pc = "sum rentals", !.sum = sum,
                                      !.count = count]
    OBVIOUS
<1>3. /\ self.pc = "sum rides" /\ Rates(ratings, self)
      /\ Ra!Become(c, next) /\ UNCHANGED ratings
    BY <1>1, <1>2 DEF Ra!SumRides, Ra!At, RatingsTold
<1>4. DOMAIN self = DOMAIN Ra!Idle
    BY <1>3 DEF Rates, Summing
<1>5. /\ DOMAIN next = DOMAIN Ra!Idle /\ next.pc = "sum rentals"
      /\ next.sum = sum /\ next.count = count /\ next.since = self.since
    BY <1>2, <1>4 DEF Ra!Idle
<1>6. Rates(ratings, next)
    BY <1>1, <1>3, <1>5 DEF Rates, Summing, HasSummed
<1>. QED BY <1>3, <1>6, RaterGoesOn

\* ... and with that over rentals it is the sum over all trips.
LEMMA SumRentalsKeeps ==
    ASSUME Ra!RatingsAssumption, RatingsTold, NEW c \in Calls, Ra!SumRentals(c)
    PROVE  RatingsTold'
<1>1. PICK self, sum, count :
          /\ self = ratingCalls[c]
          /\ sum = self.sum + Ra!SumOf(ratings, RentalTrips)
          /\ count = self.count + Ra!CountOf(ratings, RentalTrips)
    OBVIOUS
<1>2. PICK next : next = [self EXCEPT !.pc = "average", !.sum = sum,
                                      !.count = count]
    OBVIOUS
<1>3. /\ self.pc = "sum rentals" /\ Rates(ratings, self)
      /\ Ra!Become(c, next) /\ UNCHANGED ratings
    BY <1>1, <1>2 DEF Ra!SumRentals, Ra!At, RatingsTold
<1>4. DOMAIN self = DOMAIN Ra!Idle
    BY <1>3 DEF Rates, Summing
<1>5. /\ DOMAIN next = DOMAIN Ra!Idle /\ next.pc = "average"
      /\ next.sum = sum /\ next.count = count /\ next.since = self.since
    BY <1>2, <1>4 DEF Ra!Idle
<1>6. HasSummed(ratings, self) =>
          /\ sum = Ra!SumOf(ratings, Ra!Trips)
          /\ count = Ra!CountOf(ratings, Ra!Trips)
    BY <1>1, <1>3, TripsAddUp DEF HasSummed, RatingsTold
<1>7. Rates(ratings, next)
    BY <1>3, <1>5, <1>6 DEF Rates, Summing, HasSummed
<1>. QED BY <1>3, <1>7, RaterGoesOn

\* Every step keeps what calls know of ratings.
LEMMA RatingsToldNext ==
    ASSUME Ra!RatingsAssumption, RatingsTold, [Ra!Next]_Ra!vars PROVE RatingsTold'
<1>1. CASE UNCHANGED Ra!vars
    BY <1>1 DEF Ra!vars, RatingsTold
<1>2. Unrelated(Ra!Idle)
    BY DEF Unrelated, Ra!Idle
<1>3. ASSUME NEW c \in Calls, Ra!WriteAverage(c) PROVE RatingsTold'
    BY <1>2, <1>3, UnrelatedRates, RaterGoesOn DEF Ra!WriteAverage
<1>4. CASE Ra!Crash
    BY <1>2, <1>4, UnrelatedRates DEF Ra!Crash, RatingsTold
<1>. QED BY <1>1, <1>3, <1>4, MerchantKeepsRatings, RateInsertKeeps,
            RateReadKeeps, SumRidesKeeps, SumRentalsKeeps DEF Ra!Next

\* At first nobody rates.
LEMMA RatingsToldInit == ASSUME Ra!Init PROVE RatingsTold
<1>1. Unrelated(Ra!Idle)
    BY DEF Unrelated, Ra!Idle
<1>. QED BY <1>1, UnrelatedRates DEF Ra!Init, Ra!NoRatings, RatingsTold

\* What a call that is about to write the average knows.
LEMMA AverageIsOfAll ==
    ASSUME RatingsTold, NEW c \in Calls, Ra!WriteAverage(c),
           ratingCalls[c].since = Ra!Rated(ratings, Ra!Trips)
    PROVE  average' = Ra!MeanOf(ratings', Ra!Trips)
<1>1. /\ ratingCalls[c].pc = "average" /\ Rates(ratings, ratingCalls[c])
      /\ average' = Ra!Mean(ratingCalls[c].sum, ratingCalls[c].count)
      /\ ratings' = ratings
    BY DEF Ra!WriteAverage, Ra!At, RatingsTold
<1>2. /\ ratingCalls[c].sum = Ra!SumOf(ratings, Ra!Trips)
      /\ ratingCalls[c].count = Ra!CountOf(ratings, Ra!Trips)
    BY <1>1 DEF Rates, Summing, HasSummed
<1>. QED BY <1>1, <1>2 DEF Ra!MeanOf

(***************************************************************************)
(* Signing in.  A code is set once, so that once it is accepted or locked   *)
(* it never comes back; what counts then are the calls that read it before. *)
(* A wrong try is in the counter, on its way there, or died; and the        *)
(* counter at its limit has a call that will lock the code, or one died.    *)
(***************************************************************************)

\* Where a request for a code may be, before and after the code is set.
Early == {"create", "pause", "set"}
Requesting == Early \cup {"clear", "send"}

\* Where a call is with the right code, and in issueTokens().
Accepting == {"accept"}
Issuing == {"issue", "store"}

AccountCall ==
    [pc : Requesting \cup {"idle", "accept", "count", "lock"} \cup Issuing,
     with : Codes \cup Tokens \cup {NULL}, token : Tokens \cup {NULL}]

AccountsTyped ==
    /\ redis \in [pause : BOOLEAN, code : Codes \cup {NULL}, attempts : Nat]
    /\ user \in [exists : BOOLEAN, token : Tokens \cup {NULL}]
    /\ accountCalls \in [Calls -> AccountCall]
    /\ tally \in [generated : SUBSET Codes, signed : SUBSET Tokens,
                  second : SUBSET Tokens, cleared : SUBSET Codes,
                  wrong : [Codes -> Nat], accepted : [Codes -> Nat],
                  used : [Tokens -> Nat], deaths : Nat]

\* The code has been in Redis, and no request will put it there again.
WasSet(k) ==
    /\ k \in tally.generated
    /\ \A c \in Calls : accountCalls[c].pc \in Early => accountCalls[c].with # k

\* What a call is about.
IsAbout(call) ==
    /\ call.pc \in Requesting => call.with \in tally.generated
    /\ call.pc \in Early \cup {"clear"} => call.with \notin tally.cleared
    /\ call.pc \in {"set", "clear", "send"} => redis.pause
    /\ call.pc = "clear" => redis.code \in {NULL, call.with}
    /\ call.pc \in {"accept", "count"} => call.with \in Codes /\ WasSet(call.with)
    /\ call.pc = "store" => call.token \in Tokens
    /\ call.pc = "lock" => call.with = NULL

\* Each request has a code of its own, and one at most is past the pause.
RequestsApart ==
    \A b, c \in Calls :
        /\ b # c
        /\ accountCalls[b].pc \in Requesting /\ accountCalls[c].pc \in Requesting
        => /\ accountCalls[b].with # accountCalls[c].with
           /\ \/ accountCalls[b].pc \notin {"set", "clear", "send"}
              \/ accountCalls[c].pc \notin {"set", "clear", "send"}

\* What happened to the codes and the tokens.
HistoryFits ==
    /\ redis.code # NULL => WasSet(redis.code)
    /\ \A k \in tally.cleared : WasSet(k)
    /\ \A k \in Codes : /\ k \notin tally.cleared => tally.wrong[k] = 0
                        /\ tally.accepted[k] > 0 => WasSet(k) /\ redis.code # k
    /\ \A t \in Tokens : tally.used[t] > 0 => user.token # t

\* The part of the inductive invariant that does not count calls.
Told ==
    /\ AccountsTyped
    /\ \A c \in Calls : IsAbout(accountCalls[c])
    /\ RequestsApart
    /\ HistoryFits

\* Past the pause of a minute, and in it.
PastThePause == {"set", "clear", "send"}

\* How a call may move on without disturbing the others.
MovesOn(c, call) ==
    /\ Ac!Become(c, call)
    /\ tally.generated \subseteq tally'.generated
    /\ call.pc \in Requesting =>
           \/ call.with \notin tally.generated
           \/ /\ accountCalls[c].pc \in Requesting
              /\ call.with = accountCalls[c].with
              /\ call.pc \in Early => accountCalls[c].pc \in Early
    /\ call.pc \in PastThePause =>
           ~redis.pause \/ accountCalls[c].pc \in PastThePause
    /\ redis.pause => redis'.pause \/ accountCalls[c].pc \in PastThePause
    /\ redis'.code \in {NULL, redis.code} \/ accountCalls[c].pc = "set"
    /\ \/ tally'.cleared = tally.cleared
       \/ /\ accountCalls[c].pc = "clear"
          /\ tally'.cleared = tally.cleared \cup {accountCalls[c].with}

\* The rows, the keys and the history have the types of AccountsTyped.
StoresTyped ==
    /\ redis \in [pause : BOOLEAN, code : Codes \cup {NULL}, attempts : Nat]
    /\ user \in [exists : BOOLEAN, token : Tokens \cup {NULL}]
    /\ tally \in [generated : SUBSET Codes, signed : SUBSET Tokens,
                  second : SUBSET Tokens, cleared : SUBSET Codes,
                  wrong : [Codes -> Nat], accepted : [Codes -> Nat],
                  used : [Tokens -> Nat], deaths : Nat]

\* A code that was set stays so, ...
LEMMA SetStays ==
    ASSUME Told, NEW c \in Calls, NEW call, MovesOn(c, call), NEW k, WasSet(k)
    PROVE  WasSet(k)'
BY DEF Told, AccountsTyped, WasSet, Ac!Become, MovesOn, Requesting

\* ... and what was told of calls and codes stays true when one call moves on.
LEMMA AccountMoves ==
    ASSUME Told, NEW c \in Calls, NEW call \in AccountCall, MovesOn(c, call),
           StoresTyped', IsAbout(call)', HistoryFits'
    PROVE  Told'
<1>1. /\ accountCalls' \in [Calls -> AccountCall] /\ accountCalls'[c] = call
      /\ \A b \in Calls : b # c => accountCalls'[b] = accountCalls[b]
    BY DEF Told, AccountsTyped, MovesOn, Ac!Become
<1>2. ASSUME NEW b \in Calls, b # c PROVE IsAbout(accountCalls[b])'
    <2>1. PICK other : other = accountCalls[b]
        OBVIOUS
    <2>2. IsAbout(other)
        BY <2>1 DEF Told
    <2>3. other.pc \in {"accept", "count"} => WasSet(other.with)'
        BY <2>2, SetStays DEF IsAbout
    <2>4. accountCalls[c].pc \in Requesting /\ other.pc \in Requesting =>
              /\ other.with # accountCalls[c].with
              /\ other.pc \in PastThePause => accountCalls[c].pc \notin PastThePause
        BY <1>2, <2>1 DEF Told, RequestsApart, PastThePause
    <2>5. IsAbout(other)'
        BY <2>2, <2>3, <2>4 DEF IsAbout, MovesOn, Requesting, Early, PastThePause
    <2>. QED BY <1>1, <1>2, <2>1, <2>5
<1>3. RequestsApart'
    <2>. SUFFICES ASSUME NEW b \in Calls, b # c, call.pc \in Requesting,
                         accountCalls[b].pc \in Requesting
                  PROVE  /\ accountCalls[b].with # call.with
                         /\ \/ accountCalls[b].pc \notin PastThePause
                            \/ call.pc \notin PastThePause
        BY <1>1 DEF Told, RequestsApart, PastThePause
    <2>1. accountCalls[c].pc \in Requesting =>
              /\ accountCalls[b].with # accountCalls[c].with
              /\ \/ accountCalls[b].pc \notin PastThePause
                 \/ accountCalls[c].pc \notin PastThePause
        BY DEF Told, RequestsApart, PastThePause
    <2>2. /\ accountCalls[b].with \in tally.generated
          /\ accountCalls[b].pc \in PastThePause => redis.pause
        BY DEF Told, IsAbout, PastThePause
    <2>3. accountCalls[c].pc \in PastThePause => accountCalls[c].pc \in Requesting
        BY DEF PastThePause, Requesting, Early
    <2>. QED BY <2>1, <2>2, <2>3 DEF MovesOn
<1>4. \A b \in Calls : IsAbout(accountCalls[b])'
    <2>. SUFFICES ASSUME NEW b \in Calls PROVE IsAbout(accountCalls[b])'
        OBVIOUS
    <2>1. CASE b = c
        BY <1>1, <2>1
    <2>. QED BY <1>2, <2>1
<1>. QED BY <1>1, <1>3, <1>4 DEF Told, AccountsTyped, StoresTyped

\* requestOtp() begins with a new code.
LEMMA RequestBeginTells ==
    ASSUME Ac!AccountsAssumption, Told, NEW c \in Calls, NEW k \in Codes,
           Ac!RequestBegin(c, k)
    PROVE  Told'
<1>1. PICK next : next = [Ac!Idle EXCEPT
                              !.pc = IF user.exists THEN "pause" ELSE "create",
                              !.with = k]
    OBVIOUS
<1>2. /\ next \in AccountCall /\ next.pc \in {"pause", "create"}
      /\ next.with = k /\ k \notin tally.generated
      /\ Ac!Become(c, next) /\ UNCHANGED <<redis, user>>
      /\ tally' = [tally EXCEPT !.generated = @ \cup {k}]
    BY <1>1 DEF Ac!RequestBegin, Ac!Idle, AccountCall, Requesting, Early
<1>3. MovesOn(c, next) /\ StoresTyped'
    BY <1>2 DEF Told, AccountsTyped, StoresTyped, MovesOn, Requesting,
       PastThePause
<1>4. \A j : WasSet(j) => WasSet(j)'
    BY <1>3, SetStays
<1>5. HistoryFits'
    BY <1>2, <1>4 DEF Told, AccountsTyped, HistoryFits
<1>6. k \notin tally.cleared
    BY <1>2 DEF Told, HistoryFits, WasSet
<1>7. IsAbout(next)'
    BY <1>2, <1>6 DEF Told, AccountsTyped, IsAbout, Requesting, Early
<1>. QED BY <1>2, <1>3, <1>5, <1>7, AccountMoves

\* The user is there, or the unique index refuses a second.
LEMMA CreateUserTells ==
    ASSUME Told, NEW c \in Calls, Ac!CreateUser(c)
    PROVE  Told'
<1>. DEFINE self == accountCalls[c]
<1>1. PICK next : next = IF user.exists THEN Ac!Idle
                         ELSE [self EXCEPT !.pc = "pause"]
    OBVIOUS
<1>2. /\ self \in AccountCall /\ IsAbout(self) /\ self.pc = "create"
      /\ Ac!Become(c, next) /\ UNCHANGED <<redis, tally>>
      /\ user' = [user EXCEPT !.exists = TRUE]
    BY <1>1 DEF Told, AccountsTyped, Ac!CreateUser, Ac!At
<1>3. /\ next \in AccountCall /\ next.pc \in {"idle", "pause"}
      /\ next.pc = "pause" => next.with = self.with
    BY <1>1, <1>2 DEF Ac!Idle, AccountCall, Requesting, Early
<1>4. MovesOn(c, next) /\ StoresTyped'
    BY <1>2, <1>3 DEF Told, AccountsTyped, StoresTyped, MovesOn, Requesting,
       Early, PastThePause
<1>5. \A j : WasSet(j) => WasSet(j)'
    BY <1>4, SetStays
<1>6. HistoryFits'
    BY <1>2, <1>5 DEF Told, AccountsTyped, HistoryFits
<1>7. IsAbout(next)'
    BY <1>2, <1>3 DEF IsAbout, Requesting, Early
<1>. QED BY <1>3, <1>4, <1>6, <1>7, AccountMoves

\* SET ... NX: nobody else is past the pause.
LEMMA PauseTells ==
    ASSUME Told, NEW c \in Calls, Ac!Pause(c)
    PROVE  Told'
<1>. DEFINE self == accountCalls[c]
<1>1. PICK next : next = IF redis.pause THEN Ac!Idle
                         ELSE [self EXCEPT !.pc = "set"]
    OBVIOUS
<1>2. /\ self \in AccountCall /\ IsAbout(self) /\ self.pc = "pause"
      /\ Ac!Become(c, next) /\ UNCHANGED <<user, tally>>
      /\ redis' = [redis EXCEPT !.pause = TRUE]
    BY <1>1 DEF Told, AccountsTyped, Ac!Pause, Ac!At
<1>3. /\ next \in AccountCall /\ next.pc \in {"idle", "set"}
      /\ next.pc = "set" => next.with = self.with /\ ~redis.pause
    BY <1>1, <1>2 DEF Ac!Idle, AccountCall, Requesting, Early
<1>4. StoresTyped' /\ redis'.code = redis.code /\ redis'.pause
    BY <1>2 DEF Told, AccountsTyped, StoresTyped
<1>5. MovesOn(c, next)
    BY <1>2, <1>3, <1>4 DEF MovesOn, Requesting, Early, PastThePause
<1>6. \A j : WasSet(j) => WasSet(j)'
    BY <1>5, SetStays
<1>7. HistoryFits'
    BY <1>2, <1>4, <1>6 DEF Told, AccountsTyped, HistoryFits
<1>8. IsAbout(next)'
    BY <1>2, <1>3, <1>4 DEF IsAbout, Requesting, Early
<1>. QED BY <1>3, <1>4, <1>5, <1>7, <1>8, AccountMoves

\* The code is set, for the first time and by the only call past the pause.
LEMMA SetCodeTells ==
    ASSUME Told, NEW c \in Calls, Ac!SetCode(c)
    PROVE  Told'
<1>. DEFINE self == accountCalls[c]
<1>1. PICK next : next = [self EXCEPT !.pc = "clear"]
    OBVIOUS
<1>2. /\ self \in AccountCall /\ IsAbout(self) /\ self.pc = "set"
      /\ Ac!Become(c, next) /\ UNCHANGED <<user, tally>>
      /\ redis' = [redis EXCEPT !.code = self.with]
    BY <1>1 DEF Told, AccountsTyped, Ac!SetCode, Ac!At
<1>3. next \in AccountCall /\ next.pc = "clear" /\ next.with = self.with
    BY <1>1, <1>2 DEF AccountCall, Requesting, Early
<1>4. self.with \in tally.generated /\ self.with \in Codes
    BY <1>2 DEF IsAbout, Requesting, Early, Told, AccountsTyped
<1>5. StoresTyped' /\ redis'.code = self.with /\ redis'.pause = redis.pause
    BY <1>2, <1>4 DEF Told, AccountsTyped, StoresTyped
<1>6. MovesOn(c, next)
    BY <1>2, <1>3, <1>5 DEF MovesOn, Requesting, Early, PastThePause
<1>7. \A j : WasSet(j) => WasSet(j)'
    BY <1>6, SetStays
<1>8. PICK mine : mine = self.with
    OBVIOUS
<1>9. WasSet(mine)'
    BY <1>2, <1>3, <1>4, <1>8 DEF WasSet, Told, AccountsTyped, RequestsApart,
       Ac!Become, Requesting, Early
<1>10. ~WasSet(self.with)
    BY <1>2 DEF WasSet, Early
<1>11. ASSUME NEW k \in Codes, tally.accepted[k] > 0
       PROVE  WasSet(k) /\ k # self.with
    BY <1>10, <1>11 DEF Told, HistoryFits
<1>12. HistoryFits'
    <2>1. UNCHANGED <<user, tally>>
        BY <1>2
    <2>2. /\ \A k \in tally.cleared : WasSet(k)'
          /\ \A k \in Codes : tally.accepted[k] > 0 => WasSet(k)'
        BY <1>7, <1>11 DEF Told, HistoryFits
    <2>3. /\ \A t \in Tokens : tally.used[t] > 0 => user.token # t
          /\ \A k \in Codes : k \notin tally.cleared => tally.wrong[k] = 0
        BY DEF Told, HistoryFits
    <2>. QED BY <1>5, <1>8, <1>11, <1>9, <2>1, <2>2, <2>3 DEF HistoryFits
<1>13. IsAbout(next)'
    BY <1>2, <1>3, <1>5 DEF IsAbout, Requesting, Early
<1>. QED BY <1>3, <1>5, <1>6, <1>13, <1>12, AccountMoves

\* The counter is cleared, after the call's code was set.
LEMMA ClearAttemptsTells ==
    ASSUME Told, NEW c \in Calls, Ac!ClearAttempts(c)
    PROVE  Told'
<1>. DEFINE self == accountCalls[c]
<1>1. PICK next : next = [self EXCEPT !.pc = "send"]
    OBVIOUS
<1>2. /\ self \in AccountCall /\ IsAbout(self) /\ self.pc = "clear"
      /\ Ac!Become(c, next) /\ UNCHANGED user
      /\ redis' = [redis EXCEPT !.attempts = 0]
      /\ tally' = [tally EXCEPT !.cleared = @ \cup {self.with}]
    BY <1>1 DEF Told, AccountsTyped, Ac!ClearAttempts, Ac!At
<1>3. next \in AccountCall /\ next.pc = "send" /\ next.with = self.with
    BY <1>1, <1>2 DEF AccountCall, Requesting, Early
<1>4. self.with \in tally.generated /\ self.with \in Codes
    BY <1>2 DEF IsAbout, Requesting, Early, Told, AccountsTyped
<1>5. StoresTyped' /\ redis'.code = redis.code /\ redis'.pause = redis.pause
    BY <1>2, <1>4 DEF Told, AccountsTyped, StoresTyped
<1>6. MovesOn(c, next)
    BY <1>2, <1>3, <1>5
    DEF Told, AccountsTyped, MovesOn, Requesting, Early, PastThePause
<1>7. \A j : WasSet(j) => WasSet(j)'
    BY <1>6, SetStays
<1>8. WasSet(self.with)
    BY <1>2, <1>4 DEF WasSet, Told, RequestsApart, Requesting, Early
<1>9. HistoryFits'
    BY <1>2, <1>5, <1>7, <1>8 DEF Told, AccountsTyped, HistoryFits
<1>10. IsAbout(next)'
    BY <1>2, <1>3, <1>5 DEF Told, AccountsTyped, IsAbout, Requesting, Early
<1>. QED BY <1>3, <1>5, <1>6, <1>9, <1>10, AccountMoves

\* A call ends, with the code withdrawn or as it was: the message goes out or
\* does not, the code is locked, a wrong try is counted, the handler dies.
LEMMA EndTells ==
    ASSUME Ac!AccountsAssumption, Told, NEW c \in Calls,
           Ac!Send(c) \/ Ac!SendFails(c) \/ Ac!Count(c) \/ Ac!Lock(c) \/ Ac!Die(c)
    PROVE  Told'
<1>. DEFINE self == accountCalls[c]
<1>1. \E call : /\ call \in {Ac!Idle, [Ac!Idle EXCEPT !.pc = "lock"]}
                /\ Ac!Become(c, call)
    BY DEF Ac!Send, Ac!SendFails, Ac!Count, Ac!Lock, Ac!Die
<1>2. PICK next : /\ next \in {Ac!Idle, [Ac!Idle EXCEPT !.pc = "lock"]}
                  /\ Ac!Become(c, next)
    BY <1>1
<1>3. /\ next \in AccountCall /\ next.pc \in {"idle", "lock"}
      /\ next.with = NULL
    BY <1>2 DEF Ac!Idle, AccountCall
<1>4. /\ StoresTyped' /\ UNCHANGED user
      /\ redis'.code \in {NULL, redis.code}
      /\ redis'.pause = redis.pause \/ self.pc \in PastThePause
      /\ tally'.generated = tally.generated /\ tally'.signed = tally.signed
      /\ tally'.cleared = tally.cleared /\ tally'.wrong = tally.wrong
      /\ tally'.accepted = tally.accepted /\ tally'.used = tally.used
    <2>1. StoresTyped
        BY DEF Told, AccountsTyped, StoresTyped
    <2>2. CASE Ac!Send(c)
        BY <2>1, <2>2 DEF Ac!Send, StoresTyped
    <2>3. CASE Ac!SendFails(c)
        BY <2>1, <2>3 DEF Ac!SendFails, Ac!At, StoresTyped, PastThePause
    <2>4. CASE Ac!Count(c)
        BY <2>1, <2>4 DEF Ac!Count, StoresTyped
    <2>5. CASE Ac!Lock(c)
        BY <2>1, <2>5 DEF Ac!Lock, StoresTyped
    <2>6. CASE Ac!Die(c)
        BY <2>1, <2>6 DEF Ac!Die, StoresTyped
    <2>. QED BY <2>2, <2>3, <2>4, <2>5, <2>6
<1>5. MovesOn(c, next)
    BY <1>2, <1>3, <1>4 DEF MovesOn, Requesting, Early, PastThePause
<1>6. \A j : WasSet(j) => WasSet(j)'
    BY <1>5, SetStays
<1>7. \A k \in Codes : k # NULL
    BY DEF Ac!AccountsAssumption
<1>8. HistoryFits'
    BY <1>4, <1>6, <1>7 DEF Told, HistoryFits
<1>9. IsAbout(next)'
    BY <1>3 DEF IsAbout, Requesting, Early
<1>. QED BY <1>3, <1>4, <1>5, <1>9, <1>8, AccountMoves

\* verifyOtp() reads the code.
LEMMA TryTells ==
    ASSUME Told, NEW c \in Calls, NEW guess \in Codes, Ac!Try(c, guess)
    PROVE  Told'
<1>1. PICK next : next = [Ac!Idle EXCEPT
                              !.pc = IF guess = redis.code THEN "accept"
                                     ELSE "count",
                              !.with = redis.code]
    OBVIOUS
<1>2. /\ Ac!Become(c, next) /\ UNCHANGED <<redis, user>>
      /\ redis.code \in Codes /\ WasSet(redis.code)
      /\ tally' = IF guess # redis.code /\ redis.code \in tally.cleared
                  THEN [tally EXCEPT !.wrong[redis.code] = @ + 1] ELSE tally
    BY <1>1 DEF Told, AccountsTyped, HistoryFits, Ac!Try
<1>3. /\ next \in AccountCall /\ next.pc \in {"accept", "count"}
      /\ next.with = redis.code
    BY <1>1, <1>2 DEF Ac!Idle, AccountCall
<1>4. /\ StoresTyped'
      /\ tally'.generated = tally.generated /\ tally'.signed = tally.signed
      /\ tally'.cleared = tally.cleared
      /\ tally'.accepted = tally.accepted /\ tally'.used = tally.used
      /\ \A k \in Codes : k \notin tally.cleared => tally'.wrong[k] = tally.wrong[k]
    BY <1>2 DEF Told, AccountsTyped, StoresTyped
<1>5. MovesOn(c, next)
    BY <1>2, <1>3, <1>4 DEF MovesOn, Requesting, Early, PastThePause
<1>6. \A j : WasSet(j) => WasSet(j)'
    BY <1>5, SetStays
<1>7. HistoryFits'
    BY <1>2, <1>4, <1>6 DEF Told, HistoryFits
<1>8. IsAbout(next)'
    BY <1>2, <1>3, <1>6 DEF IsAbout, Requesting, Early
<1>. QED BY <1>3, <1>4, <1>5, <1>7, <1>8, AccountMoves

\* The right code: it is withdrawn.
LEMMA AcceptTells ==
    ASSUME Ac!AccountsAssumption, Told, NEW c \in Calls, Ac!Accept(c)
    PROVE  Told'
<1>. DEFINE self == accountCalls[c]
<1>1. PICK next : next = [Ac!Idle EXCEPT !.pc = "issue"]
    OBVIOUS
<1>2. /\ Ac!Become(c, next) /\ UNCHANGED user
      /\ self.with \in Codes /\ WasSet(self.with)
      /\ redis' = [redis EXCEPT !.code = NULL, !.attempts = 0]
      /\ tally' = [tally EXCEPT !.accepted[self.with] = @ + 1]
    BY <1>1 DEF Told, IsAbout, Ac!Accept, Ac!At
<1>3. next \in AccountCall /\ next.pc = "issue" /\ next.with = NULL
    BY <1>1 DEF Ac!Idle, AccountCall, Issuing
<1>4. /\ redis' \in [pause : BOOLEAN, code : Codes \cup {NULL}, attempts : Nat]
      /\ redis'.code = NULL /\ redis'.pause = redis.pause
    BY <1>2 DEF Told, AccountsTyped
<1>5. PICK n : n = tally.accepted[self.with]
    OBVIOUS
<1>6. n \in Nat /\ tally' = [tally EXCEPT !.accepted[self.with] = n + 1]
    BY <1>2, <1>5 DEF Told, AccountsTyped
<1>7. /\ StoresTyped'
       /\ tally'.generated = tally.generated /\ tally'.signed = tally.signed
       /\ tally'.cleared = tally.cleared
       /\ tally'.wrong = tally.wrong /\ tally'.used = tally.used
       /\ \A k \in Codes : k # self.with => tally'.accepted[k] = tally.accepted[k]
    BY <1>2, <1>4, <1>6 DEF Told, AccountsTyped, StoresTyped
<1>8. MovesOn(c, next)
    BY <1>2, <1>3, <1>4, <1>7 DEF MovesOn, Requesting, Early, PastThePause
<1>9. \A j : WasSet(j) => WasSet(j)'
    BY <1>8, SetStays
<1>10. \A k \in Codes : k # NULL
    BY DEF Ac!AccountsAssumption
<1>11. HistoryFits'
    BY <1>2, <1>4, <1>9, <1>10, <1>7 DEF Told, HistoryFits
<1>12. IsAbout(next)'
    BY <1>3 DEF IsAbout, Requesting, Early
<1>. QED BY <1>3, <1>7, <1>8, <1>11, <1>12, AccountMoves

\* refresh() reads the token.
LEMMA RefreshTells ==
    ASSUME Told, NEW c \in Calls, NEW t \in Tokens, Ac!Refresh(c, t)
    PROVE  Told'
<1>1. PICK next : next = [Ac!Idle EXCEPT !.pc = "issue", !.with = t]
    OBVIOUS
<1>2. /\ Ac!Become(c, next) /\ UNCHANGED <<redis, user, tally>>
    BY <1>1 DEF Ac!Refresh
<1>3. next \in AccountCall /\ next.pc = "issue" /\ next.with = t
    BY <1>1 DEF Ac!Idle, AccountCall, Issuing
<1>4. MovesOn(c, next) /\ StoresTyped'
    BY <1>2, <1>3 DEF Told, AccountsTyped, StoresTyped, MovesOn, Requesting,
       Early, PastThePause
<1>5. \A j : WasSet(j) => WasSet(j)'
    BY <1>4, SetStays
<1>6. HistoryFits'
    BY <1>2, <1>5 DEF Told, HistoryFits
<1>7. IsAbout(next)'
    BY <1>2, <1>3 DEF IsAbout, Requesting, Early
<1>. QED BY <1>3, <1>4, <1>6, <1>7, AccountMoves

\* issueTokens(): a token is signed, ...
LEMMA SignTells ==
    ASSUME Told, NEW c \in Calls, NEW t \in Tokens, Ac!Sign(c, t) PROVE Told'
<1>1. PICK self, next : /\ self = accountCalls[c]
                        /\ next = [self EXCEPT !.pc = "store", !.token = t]
    OBVIOUS
<1>2. /\ Ac!Become(c, next) /\ UNCHANGED <<redis, user>> /\ self \in AccountCall
      /\ tally' = [tally EXCEPT !.signed = @ \cup {t}, !.second = @ \cup {t}]
    BY <1>1 DEF Told, AccountsTyped, Ac!Sign
<1>3. next \in AccountCall /\ next.pc = "store" /\ next.token = t
    BY <1>1, <1>2 DEF AccountCall, Issuing
<1>4. /\ StoresTyped'
      /\ tally'.generated = tally.generated /\ tally'.cleared = tally.cleared
      /\ tally'.wrong = tally.wrong /\ tally'.accepted = tally.accepted
      /\ tally'.used = tally.used
    BY <1>2 DEF Told, AccountsTyped, StoresTyped
<1>5. MovesOn(c, next)
    BY <1>2, <1>3, <1>4 DEF MovesOn, Requesting, Early, PastThePause
<1>6. \A j : WasSet(j) => WasSet(j)'
    BY <1>5, SetStays
<1>7. HistoryFits'
    BY <1>2, <1>4, <1>6 DEF Told, HistoryFits
<1>8. IsAbout(next)'
    BY <1>3 DEF IsAbout, Requesting, Early
<1>. QED BY <1>3, <1>4, <1>5, <1>7, <1>8, AccountMoves

\* ... and stored, in place of the one before: nobody has used it since.
LEMMA StoreTokenTells ==
    ASSUME Ac!AccountsAssumption, Told, NEW c \in Calls, Ac!StoreToken(c)
    PROVE  Told'
<1>1. PICK self, next, used : /\ self = accountCalls[c] /\ next = Ac!Idle
                              /\ used = Ac!Exchanged(self)
    OBVIOUS
<1>2. /\ Ac!Become(c, next) /\ UNCHANGED redis /\ self.token \in Tokens
      /\ user' = [user EXCEPT !.token = self.token]
      /\ tally' = [tally EXCEPT !.used = used]
    BY <1>1 DEF Told, IsAbout, Ac!StoreToken, Ac!At
<1>3. next \in AccountCall /\ next.pc = "idle"
    BY <1>1 DEF Ac!Idle, AccountCall
<1>4. used \in [Tokens -> Nat] /\ used[self.token] = 0
    BY <1>1, <1>2 DEF Told, AccountsTyped, Ac!Exchanged
<1>5. /\ user' \in [exists : BOOLEAN, token : Tokens \cup {NULL}]
      /\ user'.token = self.token
    BY <1>2 DEF Told, AccountsTyped
<1>6. /\ StoresTyped'
      /\ tally'.generated = tally.generated /\ tally'.cleared = tally.cleared
      /\ tally'.wrong = tally.wrong /\ tally'.accepted = tally.accepted
      /\ tally'.used = used
    <2>1. StoresTyped
        BY DEF Told, AccountsTyped, StoresTyped
    <2>. QED BY <1>2, <1>4, <1>5, <2>1 DEF StoresTyped
<1>7. MovesOn(c, next)
    BY <1>2, <1>3, <1>6 DEF MovesOn, Requesting, Early, PastThePause
<1>8. \A j : WasSet(j) => WasSet(j)'
    BY <1>7, SetStays
<1>9. HistoryFits'
    BY <1>2, <1>4, <1>5, <1>6, <1>8 DEF Told, HistoryFits
<1>10. IsAbout(next)'
    BY <1>3 DEF IsAbout, Requesting, Early
<1>. QED BY <1>3, <1>6, <1>7, <1>9, <1>10, AccountMoves

\* The second is over.
LEMMA TickTells == ASSUME Told, Ac!Tick PROVE Told'
<1>1. /\ UNCHANGED <<redis, user, accountCalls>>
      /\ tally' = [tally EXCEPT !.second = {}]
    BY DEF Ac!Tick
<1>2. /\ AccountsTyped'
      /\ tally'.generated = tally.generated /\ tally'.cleared = tally.cleared
      /\ tally'.wrong = tally.wrong /\ tally'.accepted = tally.accepted
      /\ tally'.used = tally.used
    BY <1>1 DEF Told, AccountsTyped
<1>3. \A j : WasSet(j) => WasSet(j)'
    BY <1>1, <1>2 DEF WasSet
<1>4. ASSUME NEW c \in Calls PROVE IsAbout(accountCalls[c])'
    <2>1. PICK call : call = accountCalls[c] /\ IsAbout(call)
        BY DEF Told
    <2>2. IsAbout(call)'
        BY <1>1, <1>2, <1>3, <2>1 DEF IsAbout
    <2>. QED BY <1>1, <2>1, <2>2
<1>5. HistoryFits'
    BY <1>1, <1>2, <1>3 DEF Told, HistoryFits
<1>. QED BY <1>1, <1>2, <1>4, <1>5 DEF Told, RequestsApart

\* Times to live run out.
LEMMA ExpireTells == ASSUME Ac!AccountsAssumption, Told, Ac!Expire PROVE Told'
<1>1. UNCHANGED <<user, accountCalls, tally>>
    BY DEF Ac!Expire
<1>2. /\ redis' \in [pause : BOOLEAN, code : Codes \cup {NULL}, attempts : Nat]
      /\ redis'.code \in {NULL, redis.code}
      /\ \/ redis'.pause = redis.pause
         \/ \A c \in Calls : accountCalls[c].pc \notin PastThePause
    <2>1. redis \in [pause : BOOLEAN, code : Codes \cup {NULL}, attempts : Nat]
        BY DEF Told, AccountsTyped
    <2>2. CASE /\ \A c \in Calls :
                     accountCalls[c].pc \notin {"set", "clear", "send"}
               /\ redis' = [redis EXCEPT !.pause = FALSE]
        BY <2>1, <2>2 DEF PastThePause
    <2>3. CASE redis' = [redis EXCEPT !.code = NULL]
        BY <2>1, <2>3
    <2>4. CASE redis' = [redis EXCEPT !.attempts = 0]
        BY <2>1, <2>4
    <2>. QED BY <2>2, <2>3, <2>4 DEF Ac!Expire
<1>3. AccountsTyped'
    BY <1>1, <1>2 DEF Told, AccountsTyped
<1>4. \A j : WasSet(j) <=> WasSet(j)'
    BY <1>1 DEF WasSet
<1>5. ASSUME NEW c \in Calls PROVE IsAbout(accountCalls[c])'
    <2>1. PICK call : call = accountCalls[c]
        OBVIOUS
    <2>2. IsAbout(call)'
        BY <1>1, <1>2, <1>4, <2>1 DEF Told, IsAbout, PastThePause
    <2>. QED BY <1>1, <2>1, <2>2
<1>6. \A k \in Codes : k # NULL
    BY DEF Ac!AccountsAssumption
<1>7. HistoryFits'
    BY <1>1, <1>2, <1>4, <1>6 DEF Told, HistoryFits
<1>. QED BY <1>1, <1>5, <1>7, <1>3 DEF Told, RequestsApart

(***************************************************************************)
(* How many calls there are at a place, when one of them moves.             *)
(***************************************************************************)
Is(call, pcs, x) == call.pc \in pcs /\ call.with = x

\* The calls at some places and about a code or token, and all calls in flight.
HowMany(pcs, x) == Cardinality({c \in Calls : Is(accountCalls[c], pcs, x)})
InFlight == Cardinality({c \in Calls : accountCalls[c].pc # "idle"})

\* Only one element comes or goes.
LEMMA OneMoves ==
    ASSUME NEW Every, IsFiniteSet(Every), NEW c \in Every,
           NEW S \in SUBSET Every, NEW T \in SUBSET Every,
           \A b \in Every : b # c => (b \in S <=> b \in T)
    PROVE  /\ Cardinality(S) \in Nat /\ Cardinality(T) \in Nat
           /\ c \notin S /\ c \in T => Cardinality(T) = Cardinality(S) + 1
           /\ c \in S /\ c \notin T => Cardinality(T) = Cardinality(S) - 1
           /\ (c \in S <=> c \in T) => Cardinality(T) = Cardinality(S)
<1>1. IsFiniteSet(S) /\ IsFiniteSet(T)
    BY FS_Subset
<1>2. Cardinality(S) \in Nat /\ Cardinality(T) \in Nat
    BY <1>1, FS_CardinalityType
<1>3. ASSUME c \notin S, c \in T PROVE Cardinality(T) = Cardinality(S) + 1
    <2>1. T = S \cup {c}
        BY <1>3
    <2>. QED BY <1>1, <1>3, <2>1, FS_AddElement
<1>4. ASSUME c \in S, c \notin T PROVE Cardinality(T) = Cardinality(S) - 1
    <2>1. S = T \cup {c}
        BY <1>4
    <2>2. Cardinality(S) = Cardinality(T) + 1
        BY <1>1, <1>4, <2>1, FS_AddElement
    <2>. QED BY <1>2, <2>2
<1>5. ASSUME c \in S <=> c \in T PROVE Cardinality(T) = Cardinality(S)
    <2>1. S = T
        BY <1>5
    <2>. QED BY <2>1
<1>. QED BY <1>2, <1>3, <1>4, <1>5

\* A step of one call changes the number at a place by one at most.
LEMMA HowManyMove ==
    ASSUME IsFiniteSet(Calls), Told, NEW c \in Calls, NEW call,
           Ac!Become(c, call), NEW pcs, NEW x
    PROVE  /\ HowMany(pcs, x) \in Nat /\ HowMany(pcs, x)' \in Nat
           /\ ~Is(accountCalls[c], pcs, x) /\ Is(call, pcs, x)
                  => HowMany(pcs, x)' = HowMany(pcs, x) + 1
           /\ Is(accountCalls[c], pcs, x) /\ ~Is(call, pcs, x)
                  => HowMany(pcs, x)' = HowMany(pcs, x) - 1
           /\ (Is(accountCalls[c], pcs, x) <=> Is(call, pcs, x))
                  => HowMany(pcs, x)' = HowMany(pcs, x)
<1>1. /\ accountCalls'[c] = call
      /\ \A b \in Calls : b # c => accountCalls'[b] = accountCalls[b]
    BY DEF Told, AccountsTyped, Ac!Become
<1>2. PICK S, T : /\ S = {b \in Calls : Is(accountCalls[b], pcs, x)}
                  /\ T = {b \in Calls : Is(accountCalls'[b], pcs, x)}
    OBVIOUS
<1>3. /\ S \in SUBSET Calls /\ T \in SUBSET Calls
      /\ c \in S <=> Is(accountCalls[c], pcs, x)
      /\ c \in T <=> Is(call, pcs, x)
      /\ \A b \in Calls : b # c => (b \in S <=> b \in T)
    BY <1>1, <1>2
<1>4. /\ Cardinality(S) \in Nat /\ Cardinality(T) \in Nat
      /\ c \notin S /\ c \in T => Cardinality(T) = Cardinality(S) + 1
      /\ c \in S /\ c \notin T => Cardinality(T) = Cardinality(S) - 1
      /\ (c \in S <=> c \in T) => Cardinality(T) = Cardinality(S)
    BY <1>3, OneMoves
<1>5. HowMany(pcs, x) = Cardinality(S) /\ HowMany(pcs, x)' = Cardinality(T)
    BY <1>2 DEF HowMany, Is
<1>. QED BY <1>3, <1>4, <1>5

\* Calls at one place are some of those in flight, ...
LEMMA SomeInFlight ==
    ASSUME IsFiniteSet(Calls), NEW table \in [Calls -> AccountCall],
           NEW pcs, "idle" \notin pcs, NEW x
    PROVE  Cardinality({c \in Calls : Is(table[c], pcs, x)})
               <= Cardinality({c \in Calls : table[c].pc # "idle"})
<1>1. IsFiniteSet({c \in Calls : table[c].pc # "idle"})
    BY FS_Subset
<1>2. {c \in Calls : Is(table[c], pcs, x)}
          \subseteq {c \in Calls : table[c].pc # "idle"}
    BY DEF Is
<1>. QED BY <1>1, <1>2, FS_Subset

\* ... and those at two are.
LEMMA MoreInFlight ==
    ASSUME IsFiniteSet(Calls), NEW table \in [Calls -> AccountCall], NEW k
    PROVE  Cardinality({c \in Calls : Is(table[c], {"lock"}, NULL)})
               + Cardinality({c \in Calls : Is(table[c], {"count"}, k)})
               <= Cardinality({c \in Calls : table[c].pc # "idle"})
<1>1. PICK S, T, U : /\ S = {c \in Calls : Is(table[c], {"lock"}, NULL)}
                     /\ T = {c \in Calls : Is(table[c], {"count"}, k)}
                     /\ U = {c \in Calls : table[c].pc # "idle"}
    OBVIOUS
<1>2. /\ IsFiniteSet(S) /\ IsFiniteSet(T) /\ IsFiniteSet(U)
    BY <1>1, FS_Subset
<1>3. S \cap T = {} /\ S \cup T \subseteq U
    BY <1>1 DEF Is
<1>4. /\ Cardinality(S \cup T)
             = Cardinality(S) + Cardinality(T) - Cardinality(S \cap T)
      /\ Cardinality(S \cup T) <= Cardinality(U)
    BY <1>2, <1>3, FS_Union, FS_Subset
<1>5. Cardinality(S \cap T) = 0
    BY <1>3, FS_EmptySet
<1>6. Cardinality(S) \in Nat /\ Cardinality(T) \in Nat /\ Cardinality(U) \in Nat
    BY <1>2, FS_CardinalityType
<1>7. Cardinality(S) + Cardinality(T) <= Cardinality(U)
    BY <1>4, <1>5, <1>6
<1>. QED BY <1>1, <1>7

(***************************************************************************)
(* Codes and tokens serve as often as calls may overlap.                    *)
(***************************************************************************)

\* Those who may still use it count as if they had.
CodesServeOnce(n) ==
    \A k \in Codes : tally.accepted[k] + HowMany(Accepting, k) <= n
TokensServeOnce(n) ==
    \A t \in Tokens : tally.used[t] + HowMany(Issuing, t) <= n

\* The counter, for the code it is about: every wrong try is in it, on its way
\* there, or died; and at its limit there is a call that locks, or one died.
TriesAreCounted ==
    \A k \in tally.cleared : redis.code = k =>
        /\ tally.wrong[k] <= redis.attempts + HowMany({"count"}, k) + tally.deaths
        /\ tally.wrong[k] <= (MaxAttempts - 1) + HowMany({"lock"}, NULL)
                                 + HowMany({"count"}, k) + tally.deaths

TriesAreFew(n) ==
    \A k \in Codes : tally.wrong[k] <= MaxAttempts + (n - 1) + tally.deaths

Counted(n) ==
    /\ CodesServeOnce(n) /\ TokensServeOnce(n)
    /\ TriesAreCounted /\ TriesAreFew(n)

\* Who may still use a code or token is in flight.
LEMMA UsersAreBusy == "idle" \notin Accepting /\ "idle" \notin Issuing
BY DEF Accepting, Issuing

\* A code or token is used by the calls that read it while it was good.
LEMMA ServesOnce ==
    ASSUME IsFiniteSet(Calls), Told, Told', NEW c \in Calls, NEW call,
           Ac!Become(c, call), NEW n \in Nat, InFlight' <= n,
           NEW pcs, "idle" \notin pcs, NEW x, NEW old \in Nat, NEW new \in Nat,
           old + HowMany(pcs, x) <= n,
           Is(call, pcs, x) => new = 0,
           ~Is(call, pcs, x) =>
               new <= old + IF Is(accountCalls[c], pcs, x) THEN 1 ELSE 0
    PROVE  new + HowMany(pcs, x)' <= n
<1>1. /\ HowMany(pcs, x) \in Nat /\ HowMany(pcs, x)' \in Nat
      /\ Is(accountCalls[c], pcs, x) /\ ~Is(call, pcs, x)
             => HowMany(pcs, x)' = HowMany(pcs, x) - 1
      /\ (Is(accountCalls[c], pcs, x) <=> Is(call, pcs, x))
             => HowMany(pcs, x)' = HowMany(pcs, x)
    BY HowManyMove
<1>2. CASE Is(call, pcs, x)
    <2>1. PICK table : table = accountCalls'
        OBVIOUS
    <2>2. table \in [Calls -> AccountCall]
        BY <2>1 DEF Told, AccountsTyped
    <2>3. PICK most : most = Cardinality({b \in Calls : table[b].pc # "idle"})
        OBVIOUS
    <2>4. Cardinality({b \in Calls : Is(table[b], pcs, x)}) <= most
        BY <2>2, <2>3, SomeInFlight
    <2>5. HowMany(pcs, x)' = Cardinality({b \in Calls : Is(table[b], pcs, x)})
        BY <2>1 DEF HowMany, Is
    <2>6. most = InFlight' /\ most \in Nat
        BY <2>1, <2>3, FS_Subset, FS_CardinalityType DEF InFlight
    <2>. QED BY <1>1, <1>2, <2>4, <2>6, <2>5
<1>3. CASE ~Is(call, pcs, x)
    BY <1>1, <1>3
<1>. QED BY <1>2, <1>3

\* The calls that lock or count, when a step leaves at most n in flight.
LEMMA FewAreTrying ==
    ASSUME IsFiniteSet(Calls), Told', NEW n \in Nat, InFlight' <= n, NEW k
    PROVE  HowMany({"lock"}, NULL)' + HowMany({"count"}, k)' <= n
<1>1. PICK table : table = accountCalls'
    OBVIOUS
<1>2. table \in [Calls -> AccountCall]
    BY <1>1 DEF Told, AccountsTyped
<1>3. PICK S, T, U : /\ S = {b \in Calls : Is(table[b], {"lock"}, NULL)}
                     /\ T = {b \in Calls : Is(table[b], {"count"}, k)}
                     /\ U = {b \in Calls : table[b].pc # "idle"}
    OBVIOUS
<1>4. Cardinality(S) + Cardinality(T) <= Cardinality(U)
    BY <1>2, <1>3, MoreInFlight
<1>5. /\ HowMany({"lock"}, NULL)' = Cardinality(S)
      /\ HowMany({"count"}, k)' = Cardinality(T)
      /\ InFlight' = Cardinality(U)
    BY <1>1, <1>3 DEF HowMany, InFlight, Is
<1>6. Cardinality(S) \in Nat /\ Cardinality(T) \in Nat /\ Cardinality(U) \in Nat
    BY <1>3, FS_Subset, FS_CardinalityType
<1>. QED BY <1>4, <1>5, <1>6

\* Steps that serve no code and no token.
LEMMA ServesNobody ==
    ASSUME IsFiniteSet(Calls), Told, Told', NEW c \in Calls, NEW call,
           Ac!Become(c, call), NEW n \in Nat, InFlight' <= n,
           CodesServeOnce(n), TokensServeOnce(n),
           tally'.accepted = tally.accepted, tally'.used = tally.used,
           call.pc \notin {"accept", "issue", "store"}
    PROVE  CodesServeOnce(n)' /\ TokensServeOnce(n)'
<1>1. ASSUME NEW k \in Codes
      PROVE  tally'.accepted[k] + HowMany(Accepting, k)' <= n
    <2>1. tally.accepted[k] \in Nat /\ tally.accepted[k] + HowMany(Accepting, k) <= n
        BY DEF CodesServeOnce, Told, AccountsTyped
    <2>2. ~Is(call, Accepting, k)
        BY DEF Is, Accepting
    <2>. QED BY <2>1, <2>2, ServesOnce, UsersAreBusy
<1>2. ASSUME NEW t \in Tokens
      PROVE  tally'.used[t] + HowMany(Issuing, t)' <= n
    <2>1. tally.used[t] \in Nat /\ tally.used[t] + HowMany(Issuing, t) <= n
        BY DEF TokensServeOnce, Told, AccountsTyped
    <2>2. ~Is(call, Issuing, t)
        BY DEF Is, Issuing
    <2>. QED BY <2>1, <2>2, ServesOnce, UsersAreBusy
<1>. QED BY <1>1, <1>2 DEF CodesServeOnce, TokensServeOnce

\* Steps that neither try a code nor touch the counter of the one there is.
LEMMA NobodyTries ==
    ASSUME Ac!AccountsAssumption, IsFiniteSet(Calls), Told, Told',
           NEW c \in Calls, NEW call, Ac!Become(c, call), NEW n \in Nat,
           TriesAreCounted, TriesAreFew(n),
           tally'.wrong = tally.wrong, tally'.deaths = tally.deaths,
           \/ redis'.code = NULL \/ redis'.code \notin tally'.cleared
           \/ /\ redis'.code = redis.code /\ redis'.attempts = redis.attempts
              /\ tally'.cleared = tally.cleared
              /\ accountCalls[c].pc \notin {"count", "lock"}
              /\ call.pc \notin {"count", "lock"}
    PROVE  TriesAreCounted' /\ TriesAreFew(n)'
<1>1. TriesAreFew(n)'
    BY DEF TriesAreFew
<1>2. ASSUME NEW k \in tally'.cleared, redis'.code = k
      PROVE  /\ tally'.wrong[k]
                    <= redis'.attempts + HowMany({"count"}, k)' + tally'.deaths
             /\ tally'.wrong[k]
                    <= (MaxAttempts - 1) + HowMany({"lock"}, NULL)'
                           + HowMany({"count"}, k)' + tally'.deaths
    <2>1. k \in Codes
        BY <1>2 DEF Told, AccountsTyped
    <2>2. k # NULL
        BY <2>1 DEF Ac!AccountsAssumption
    <2>3. /\ redis'.code = redis.code /\ redis'.attempts = redis.attempts
          /\ k \in tally.cleared
          /\ accountCalls[c].pc \notin {"count", "lock"}
          /\ call.pc \notin {"count", "lock"}
        BY <1>2, <2>2
    <2>4. /\ HowMany({"count"}, k)' = HowMany({"count"}, k)
          /\ HowMany({"lock"}, NULL)' = HowMany({"lock"}, NULL)
        BY <2>3, HowManyMove DEF Is
    <2>. QED BY <1>2, <2>3, <2>4 DEF TriesAreCounted
<1>. QED BY <1>1, <1>2 DEF TriesAreCounted

(***************************************************************************)
(* Every step keeps the counts.                                             *)
(***************************************************************************)

\* Requests for a code, and messages that go out or do not.
LEMMA RequestsKeepCount ==
    ASSUME Ac!AccountsAssumption, IsFiniteSet(Calls), Told, Told',
           NEW n \in Nat, InFlight' <= n, Counted(n), NEW c \in Calls,
           \/ \E k \in Codes : Ac!RequestBegin(c, k)
           \/ Ac!CreateUser(c) \/ Ac!Pause(c) \/ Ac!SetCode(c)
           \/ Ac!Send(c) \/ Ac!SendFails(c)
    PROVE  Counted(n)'
<1>. DEFINE self == accountCalls[c]
<1>1. StoresTyped /\ IsAbout(self)
    BY DEF Told, AccountsTyped, StoresTyped
<1>2. /\ tally'.wrong = tally.wrong /\ tally'.deaths = tally.deaths
      /\ tally'.accepted = tally.accepted /\ tally'.used = tally.used
      /\ tally'.cleared = tally.cleared
      /\ self.pc \notin {"count", "lock"}
      /\ \/ redis'.code = NULL \/ redis'.code \notin tally'.cleared
         \/ redis'.code = redis.code /\ redis'.attempts = redis.attempts
    <2>1. CASE \E k \in Codes : Ac!RequestBegin(c, k)
        BY <1>1, <2>1 DEF Ac!RequestBegin, Ac!At, StoresTyped
    <2>2. CASE Ac!CreateUser(c)
        BY <1>1, <2>2 DEF Ac!CreateUser, Ac!At, StoresTyped
    <2>3. CASE Ac!Pause(c)
        BY <1>1, <2>3 DEF Ac!Pause, Ac!At, StoresTyped
    <2>4. CASE Ac!SetCode(c)
        BY <1>1, <2>4 DEF Ac!SetCode, Ac!At, StoresTyped, IsAbout, Early
    <2>5. CASE Ac!Send(c)
        BY <1>1, <2>5 DEF Ac!Send, Ac!At, StoresTyped
    <2>6. CASE Ac!SendFails(c)
        BY <1>1, <2>6 DEF Ac!SendFails, Ac!At, StoresTyped
    <2>. QED BY <2>1, <2>2, <2>3, <2>4, <2>5, <2>6
<1>3. \E call : /\ Ac!Become(c, call)
                /\ call.pc \in {"idle", "create", "pause", "set", "clear"}
    <2>1. Ac!Idle.pc = "idle"
        BY DEF Ac!Idle
    <2>2. CASE \E k \in Codes : Ac!RequestBegin(c, k)
        <3>1. PICK k \in Codes : Ac!RequestBegin(c, k)
            BY <2>2
        <3>2. PICK next : next = [Ac!Idle EXCEPT
                                      !.pc = IF user.exists THEN "pause"
                                             ELSE "create",
                                      !.with = k]
            OBVIOUS
        <3>3. Ac!Become(c, next) /\ next.pc \in {"create", "pause"}
            BY <3>1, <3>2 DEF Ac!RequestBegin, Ac!Idle
        <3>. QED BY <3>3
    <2>3. CASE Ac!CreateUser(c) \/ Ac!Pause(c) \/ Ac!SetCode(c)
        <3>1. self \in AccountCall
            BY DEF Told, AccountsTyped
        <3>. QED BY <2>1, <2>3, <3>1 DEF Ac!CreateUser, Ac!Pause, Ac!SetCode,
                AccountCall
    <2>4. CASE Ac!Send(c) \/ Ac!SendFails(c)
        BY <2>1, <2>4 DEF Ac!Send, Ac!SendFails
    <2>. QED BY <2>2, <2>3, <2>4
<1>4. PICK call : /\ Ac!Become(c, call)
                  /\ call.pc \in {"idle", "create", "pause", "set", "clear"}
    BY <1>3
<1>5. CodesServeOnce(n)' /\ TokensServeOnce(n)'
    BY <1>2, <1>4, ServesNobody DEF Counted
<1>6. TriesAreCounted' /\ TriesAreFew(n)'
    BY <1>2, <1>4, NobodyTries DEF Counted
<1>. QED BY <1>5, <1>6 DEF Counted

\* The counter is cleared, for a code that nobody has counted a try of.
LEMMA ClearingKeepsCount ==
    ASSUME Ac!AccountsAssumption, IsFiniteSet(Calls), Told, Told',
           NEW n \in Nat, InFlight' <= n, Counted(n), NEW c \in Calls,
           Ac!ClearAttempts(c)
    PROVE  Counted(n)'
<1>1. PICK self, next : /\ self = accountCalls[c]
                        /\ next = [self EXCEPT !.pc = "send"]
    OBVIOUS
<1>2. /\ StoresTyped /\ IsAbout(self) /\ self \in AccountCall
    BY <1>1 DEF Told, AccountsTyped, StoresTyped
<1>3. /\ self.pc = "clear" /\ next.pc = "send" /\ Ac!Become(c, next)
      /\ redis' = [redis EXCEPT !.attempts = 0]
      /\ tally' = [tally EXCEPT !.cleared = @ \cup {self.with}]
    BY <1>1, <1>2 DEF Ac!ClearAttempts, Ac!At, AccountCall
<1>4. /\ tally'.wrong = tally.wrong /\ tally'.deaths = tally.deaths
      /\ tally'.accepted = tally.accepted /\ tally'.used = tally.used
      /\ tally'.cleared = tally.cleared \cup {self.with}
      /\ redis'.code = redis.code /\ redis'.attempts = 0
    BY <1>2, <1>3 DEF StoresTyped
<1>5. CodesServeOnce(n)' /\ TokensServeOnce(n)'
    BY <1>3, <1>4, ServesNobody DEF Counted
<1>6. TriesAreFew(n)'
    BY <1>4 DEF TriesAreFew, Counted
<1>7. ASSUME NEW k \in tally'.cleared, redis'.code = k
      PROVE  /\ tally'.wrong[k] = 0
             /\ tally'.deaths \in Nat /\ redis'.attempts = 0
             /\ HowMany({"count"}, k)' \in Nat /\ HowMany({"lock"}, NULL)' \in Nat
    <2>1. k \in Codes /\ tally'.deaths \in Nat
        BY <1>7 DEF Told, AccountsTyped
    <2>2. k = self.with /\ k \notin tally.cleared
        BY <1>2, <1>3, <1>4, <1>7, <2>1
        DEF IsAbout, Early, Ac!AccountsAssumption
    <2>3. tally'.wrong[k] = 0
        BY <1>4, <2>1, <2>2 DEF Told, HistoryFits
    <2>. QED BY <1>3, <1>4, <2>1, <2>3, HowManyMove
<1>8. TriesAreCounted'
    BY <1>7 DEF TriesAreCounted, Ac!AccountsAssumption
<1>. QED BY <1>5, <1>6, <1>8 DEF Counted

\* A try: the code is good, so nobody was let in with it yet; a wrong one is
\* on its way to the counter.
LEMMA TriesKeepCount ==
    ASSUME Ac!AccountsAssumption, IsFiniteSet(Calls), Told, Told',
           NEW n \in Nat, InFlight' <= n, Counted(n), NEW c \in Calls,
           NEW guess \in Codes, Ac!Try(c, guess)
    PROVE  Counted(n)'
<1>1. PICK next : next = [Ac!Idle EXCEPT
                              !.pc = IF guess = redis.code THEN "accept"
                                     ELSE "count",
                              !.with = redis.code]
    OBVIOUS
<1>2. /\ Ac!Become(c, next) /\ UNCHANGED redis /\ accountCalls[c].pc = "idle"
      /\ redis.code \in Codes
      /\ next.pc = IF guess = redis.code THEN "accept" ELSE "count"
      /\ next.with = redis.code
      /\ tally' = IF guess # redis.code /\ redis.code \in tally.cleared
                  THEN [tally EXCEPT !.wrong[redis.code] = @ + 1] ELSE tally
    BY <1>1 DEF Told, AccountsTyped, Ac!Try, Ac!Idle, Ac!At
<1>3. /\ tally'.deaths = tally.deaths /\ tally'.cleared = tally.cleared
      /\ tally'.accepted = tally.accepted /\ tally'.used = tally.used
      /\ \A k \in Codes :
            tally'.wrong[k] = IF /\ guess # redis.code /\ k = redis.code
                                 /\ k \in tally.cleared
                              THEN tally.wrong[k] + 1 ELSE tally.wrong[k]
    BY <1>2 DEF Told, AccountsTyped
<1>4. ASSUME NEW k \in Codes
      PROVE  tally'.accepted[k] + HowMany(Accepting, k)' <= n
    <2>1. tally.accepted[k] \in Nat /\ tally.accepted[k] + HowMany(Accepting, k) <= n
        BY DEF Counted, CodesServeOnce, Told, AccountsTyped
    <2>2. Is(next, Accepting, k) => tally.accepted[k] = 0
        BY <1>2, <2>1 DEF Is, Accepting, Told, HistoryFits
    <2>. QED BY <1>2, <1>3, <2>1, <2>2, ServesOnce, UsersAreBusy
<1>5. ASSUME NEW t \in Tokens
      PROVE  tally'.used[t] + HowMany(Issuing, t)' <= n
    <2>1. tally.used[t] \in Nat /\ tally.used[t] + HowMany(Issuing, t) <= n
        BY DEF Counted, TokensServeOnce, Told, AccountsTyped
    <2>2. ~Is(next, Issuing, t)
        BY <1>2 DEF Is, Issuing
    <2>. QED BY <1>2, <1>3, <2>1, <2>2, ServesOnce, UsersAreBusy
<1>6. ASSUME NEW k \in tally'.cleared, redis'.code = k
      PROVE  /\ tally'.wrong[k]
                    <= redis'.attempts + HowMany({"count"}, k)' + tally'.deaths
             /\ tally'.wrong[k]
                    <= (MaxAttempts - 1) + HowMany({"lock"}, NULL)'
                           + HowMany({"count"}, k)' + tally'.deaths
    <2>1. k \in Codes /\ k \in tally.cleared /\ k = redis.code
        BY <1>2, <1>3, <1>6
    <2>2. /\ HowMany({"count"}, k) \in Nat /\ HowMany({"lock"}, NULL) \in Nat
          /\ HowMany({"count"}, k)' = HowMany({"count"}, k)
                                        + IF guess = k THEN 0 ELSE 1
          /\ HowMany({"lock"}, NULL)' = HowMany({"lock"}, NULL)
        BY <1>2, <2>1, HowManyMove DEF Is
    <2>3. /\ tally.wrong[k] \in Nat /\ tally.deaths \in Nat
          /\ redis.attempts \in Nat /\ MaxAttempts \in Nat
          /\ redis'.attempts = redis.attempts
          /\ tally'.wrong[k] = tally.wrong[k] + IF guess = k THEN 0 ELSE 1
        BY <1>2, <1>3, <2>1 DEF Told, AccountsTyped, Ac!AccountsAssumption
    <2>4. /\ tally.wrong[k]
                 <= redis.attempts + HowMany({"count"}, k) + tally.deaths
          /\ tally.wrong[k]
                 <= (MaxAttempts - 1) + HowMany({"lock"}, NULL)
                        + HowMany({"count"}, k) + tally.deaths
        BY <2>1 DEF Counted, TriesAreCounted
    <2>. QED BY <1>3, <2>2, <2>3, <2>4
<1>7. TriesAreCounted'
    BY <1>6 DEF TriesAreCounted
<1>8. ASSUME NEW k \in Codes
      PROVE  tally'.wrong[k] <= MaxAttempts + (n - 1) + tally'.deaths
    <2>1. CASE tally'.wrong[k] = tally.wrong[k]
        BY <1>3, <2>1 DEF Counted, TriesAreFew
    <2>2. CASE tally'.wrong[k] # tally.wrong[k]
        <3>1. k \in tally'.cleared /\ redis'.code = k
            BY <1>2, <1>3, <2>2
        <3>2. HowMany({"lock"}, NULL)' + HowMany({"count"}, k)' <= n
            BY FewAreTrying
        <3>3. /\ HowMany({"count"}, k)' \in Nat /\ HowMany({"lock"}, NULL)' \in Nat
              /\ tally'.wrong[k] \in Nat /\ tally'.deaths \in Nat
              /\ MaxAttempts \in Nat
            BY <1>2, HowManyMove DEF Told, AccountsTyped, Ac!AccountsAssumption
        <3>. QED BY <1>6, <3>1, <3>2, <3>3
    <2>. QED BY <2>1, <2>2
<1>9. TriesAreFew(n)'
    BY <1>8 DEF TriesAreFew
<1>. QED BY <1>4, <1>5, <1>7, <1>9 DEF Counted, CodesServeOnce, TokensServeOnce

\* The right code: the call that was let in may not be again.
LEMMA AcceptingKeepsCount ==
    ASSUME Ac!AccountsAssumption, IsFiniteSet(Calls), Told, Told',
           NEW n \in Nat, InFlight' <= n, Counted(n), NEW c \in Calls,
           Ac!Accept(c)
    PROVE  Counted(n)'
<1>1. PICK self, next : /\ self = accountCalls[c]
                        /\ next = [Ac!Idle EXCEPT !.pc = "issue"]
    OBVIOUS
<1>2. /\ Ac!Become(c, next) /\ next.pc = "issue" /\ next.with = NULL
      /\ self.pc = "accept" /\ self.with \in Codes
      /\ redis' = [redis EXCEPT !.code = NULL, !.attempts = 0]
      /\ tally' = [tally EXCEPT !.accepted[self.with] = @ + 1]
    BY <1>1 DEF Told, IsAbout, Ac!Accept, Ac!Idle, Ac!At
<1>3. PICK new : new = [tally.accepted EXCEPT ![self.with] = @ + 1]
    OBVIOUS
<1>4. /\ tally'.wrong = tally.wrong /\ tally'.deaths = tally.deaths
      /\ tally'.used = tally.used /\ tally'.accepted = new
      /\ redis'.code = NULL
    BY <1>2, <1>3 DEF Told, AccountsTyped
<1>5. ASSUME NEW k \in Codes PROVE new[k] + HowMany(Accepting, k)' <= n
    <2>1. tally.accepted[k] \in Nat /\ tally.accepted[k] + HowMany(Accepting, k) <= n
        BY DEF Counted, CodesServeOnce, Told, AccountsTyped
    <2>2. new[k] = tally.accepted[k] + IF k = self.with THEN 1 ELSE 0
        BY <1>2, <1>3, <2>1 DEF Told, AccountsTyped
    <2>3. ~Is(next, Accepting, k) /\ (Is(self, Accepting, k) <=> k = self.with)
        BY <1>2 DEF Is, Accepting
    <2>. QED BY <1>1, <1>2, <2>1, <2>2, <2>3, ServesOnce, UsersAreBusy
<1>6. ASSUME NEW t \in Tokens
      PROVE  tally'.used[t] + HowMany(Issuing, t)' <= n
    <2>1. tally.used[t] \in Nat /\ tally.used[t] + HowMany(Issuing, t) <= n
        BY DEF Counted, TokensServeOnce, Told, AccountsTyped
    <2>2. ~Is(next, Issuing, t)
        BY <1>2 DEF Is, Ac!AccountsAssumption
    <2>. QED BY <1>2, <1>4, <2>1, <2>2, ServesOnce, UsersAreBusy
<1>7. TriesAreCounted' /\ TriesAreFew(n)'
    BY <1>2, <1>4, NobodyTries DEF Counted
<1>. QED BY <1>4, <1>5, <1>6, <1>7 DEF Counted, CodesServeOnce, TokensServeOnce

\* A wrong try reaches the counter: it leaves a call that locks the code, or
\* the counter is below its limit.
LEMMA CountingKeepsCount ==
    ASSUME Ac!AccountsAssumption, IsFiniteSet(Calls), Told, Told',
           NEW n \in Nat, InFlight' <= n, Counted(n), NEW c \in Calls,
           Ac!Count(c)
    PROVE  Counted(n)'
<1>1. PICK self, next :
          /\ self = accountCalls[c]
          /\ next = IF redis'.attempts >= MaxAttempts
                    THEN [Ac!Idle EXCEPT !.pc = "lock"] ELSE Ac!Idle
    OBVIOUS
<1>2. /\ Ac!Become(c, next) /\ UNCHANGED tally /\ self.pc = "count"
      /\ next.pc = IF redis'.attempts >= MaxAttempts THEN "lock" ELSE "idle"
      /\ next.with = NULL
      /\ redis' = [redis EXCEPT !.attempts = @ + 1]
    BY <1>1 DEF Ac!Count, Ac!Idle, Ac!At
<1>3. /\ redis'.code = redis.code /\ redis'.attempts = redis.attempts + 1
      /\ redis.attempts \in Nat
    BY <1>2 DEF Told, AccountsTyped
<1>4. CodesServeOnce(n)' /\ TokensServeOnce(n)'
    BY <1>2, ServesNobody DEF Counted
<1>5. TriesAreFew(n)'
    BY <1>2 DEF TriesAreFew, Counted
<1>6. ASSUME NEW k \in tally'.cleared, redis'.code = k
      PROVE  /\ tally'.wrong[k]
                    <= redis'.attempts + HowMany({"count"}, k)' + tally'.deaths
             /\ tally'.wrong[k]
                    <= (MaxAttempts - 1) + HowMany({"lock"}, NULL)'
                           + HowMany({"count"}, k)' + tally'.deaths
    <2>1. k \in Codes /\ k \in tally.cleared /\ k = redis.code /\ k # NULL
        BY <1>2, <1>3, <1>6 DEF Told, AccountsTyped, Ac!AccountsAssumption
    <2>2. (Is(self, {"count"}, k) <=> self.with = k) /\ ~Is(next, {"count"}, k)
        BY <1>2 DEF Is
    <2>3. /\ ~Is(self, {"lock"}, NULL)
          /\ Is(next, {"lock"}, NULL) <=> redis'.attempts >= MaxAttempts
        BY <1>2 DEF Is
    <2>4. /\ HowMany({"count"}, k) \in Nat /\ HowMany({"lock"}, NULL) \in Nat
          /\ HowMany({"count"}, k)' \in Nat
          /\ HowMany({"count"}, k)' = HowMany({"count"}, k)
                                        - IF self.with = k THEN 1 ELSE 0
          /\ HowMany({"lock"}, NULL)' = HowMany({"lock"}, NULL)
                 + IF redis'.attempts >= MaxAttempts THEN 1 ELSE 0
        BY <1>1, <1>2, <2>2, <2>3, HowManyMove
    <2>5. /\ tally.wrong[k] \in Nat /\ tally.deaths \in Nat /\ MaxAttempts \in Nat
          /\ tally'.wrong[k] = tally.wrong[k] /\ tally'.deaths = tally.deaths
        BY <1>2, <2>1 DEF Told, AccountsTyped, Ac!AccountsAssumption
    <2>6. /\ tally.wrong[k]
                 <= redis.attempts + HowMany({"count"}, k) + tally.deaths
          /\ tally.wrong[k]
                 <= (MaxAttempts - 1) + HowMany({"lock"}, NULL)
                        + HowMany({"count"}, k) + tally.deaths
        BY <2>1 DEF Counted, TriesAreCounted
    <2>7. tally'.wrong[k]
              <= redis'.attempts + HowMany({"count"}, k)' + tally'.deaths
        BY <1>3, <2>4, <2>5, <2>6
    <2>8. CASE redis'.attempts >= MaxAttempts
        BY <1>3, <2>4, <2>5, <2>6, <2>8
    <2>9. CASE ~(redis'.attempts >= MaxAttempts)
        BY <1>3, <2>4, <2>5, <2>7, <2>9
    <2>. QED BY <2>7, <2>8, <2>9
<1>7. TriesAreCounted'
    BY <1>6 DEF TriesAreCounted
<1>. QED BY <1>4, <1>5, <1>7 DEF Counted

\* The code is locked.
LEMMA LockingKeepsCount ==
    ASSUME Ac!AccountsAssumption, IsFiniteSet(Calls), Told, Told',
           NEW n \in Nat, InFlight' <= n, Counted(n), NEW c \in Calls,
           Ac!Lock(c)
    PROVE  Counted(n)'
<1>1. PICK next : next = Ac!Idle
    OBVIOUS
<1>2. /\ Ac!Become(c, next) /\ UNCHANGED tally /\ next.pc = "idle"
      /\ redis'.code = NULL
    BY <1>1 DEF Ac!Lock, Ac!Idle, Told, AccountsTyped
<1>3. CodesServeOnce(n)' /\ TokensServeOnce(n)'
    BY <1>2, ServesNobody DEF Counted
<1>4. TriesAreCounted' /\ TriesAreFew(n)'
    BY <1>2, NobodyTries DEF Counted
<1>. QED BY <1>3, <1>4 DEF Counted

\* refresh(): the token is the newest one, so nobody has used it since.
LEMMA RefreshingKeepsCount ==
    ASSUME Ac!AccountsAssumption, IsFiniteSet(Calls), Told, Told',
           NEW n \in Nat, InFlight' <= n, Counted(n), NEW c \in Calls,
           NEW t \in Tokens, Ac!Refresh(c, t)
    PROVE  Counted(n)'
<1>1. PICK next : next = [Ac!Idle EXCEPT !.pc = "issue", !.with = t]
    OBVIOUS
<1>2. /\ Ac!Become(c, next) /\ UNCHANGED <<redis, user, tally>>
      /\ next.pc = "issue" /\ next.with = t /\ user.token = t
      /\ accountCalls[c].pc = "idle"
    BY <1>1 DEF Ac!Refresh, Ac!Idle, Ac!At
<1>3. ASSUME NEW k \in Codes
      PROVE  tally'.accepted[k] + HowMany(Accepting, k)' <= n
    <2>1. tally.accepted[k] \in Nat /\ tally.accepted[k] + HowMany(Accepting, k) <= n
        BY DEF Counted, CodesServeOnce, Told, AccountsTyped
    <2>2. ~Is(next, Accepting, k)
        BY <1>2 DEF Is, Accepting
    <2>. QED BY <1>2, <2>1, <2>2, ServesOnce, UsersAreBusy
<1>4. ASSUME NEW s \in Tokens
      PROVE  tally'.used[s] + HowMany(Issuing, s)' <= n
    <2>1. tally.used[s] \in Nat /\ tally.used[s] + HowMany(Issuing, s) <= n
        BY DEF Counted, TokensServeOnce, Told, AccountsTyped
    <2>2. Is(next, Issuing, s) => tally.used[s] = 0
        BY <1>2, <2>1 DEF Is, Told, HistoryFits
    <2>. QED BY <1>2, <2>1, <2>2, ServesOnce, UsersAreBusy
<1>5. TriesAreCounted' /\ TriesAreFew(n)'
    BY <1>2, NobodyTries DEF Counted
<1>. QED BY <1>3, <1>4, <1>5 DEF Counted, CodesServeOnce, TokensServeOnce

\* issueTokens(): while it signs, the call holds on to the token it came with, ...
LEMMA SigningKeepsCount ==
    ASSUME Ac!AccountsAssumption, IsFiniteSet(Calls), Told, Told',
           NEW n \in Nat, InFlight' <= n, Counted(n), NEW c \in Calls,
           NEW t \in Tokens, Ac!Sign(c, t)
    PROVE  Counted(n)'
<1>1. PICK self, next :
          /\ self = accountCalls[c]
          /\ next = [self EXCEPT !.pc = "store", !.token = t]
    OBVIOUS
<1>2. /\ Ac!Become(c, next) /\ self.pc = "issue" /\ UNCHANGED redis
      /\ tally' = [tally EXCEPT !.signed = @ \cup {t}, !.second = @ \cup {t}]
      /\ self \in AccountCall
    BY <1>1 DEF Ac!Sign, Ac!At, Told, AccountsTyped
<1>3. next.pc = "store" /\ next.with = self.with
    BY <1>1, <1>2 DEF AccountCall
<1>4. /\ tally'.wrong = tally.wrong /\ tally'.deaths = tally.deaths
      /\ tally'.accepted = tally.accepted /\ tally'.used = tally.used
      /\ tally'.cleared = tally.cleared
    BY <1>2 DEF Told, AccountsTyped
<1>5. ASSUME NEW k \in Codes
      PROVE  tally'.accepted[k] + HowMany(Accepting, k)' <= n
    <2>1. ~Is(next, Accepting, k) /\ ~Is(self, Accepting, k)
        BY <1>2, <1>3 DEF Is, Accepting
    <2>2. HowMany(Accepting, k)' = HowMany(Accepting, k)
        BY <1>1, <1>2, <2>1, HowManyMove
    <2>. QED BY <1>4, <2>2 DEF Counted, CodesServeOnce
<1>6. ASSUME NEW s \in Tokens
      PROVE  tally'.used[s] + HowMany(Issuing, s)' <= n
    <2>1. Is(next, Issuing, s) <=> Is(self, Issuing, s)
        BY <1>2, <1>3 DEF Is, Issuing
    <2>2. HowMany(Issuing, s)' = HowMany(Issuing, s)
        BY <1>1, <1>2, <2>1, HowManyMove
    <2>. QED BY <1>4, <2>2 DEF Counted, TokensServeOnce
<1>7. TriesAreCounted' /\ TriesAreFew(n)'
    BY <1>1, <1>2, <1>3, <1>4, NobodyTries DEF Counted
<1>. QED BY <1>5, <1>6, <1>7 DEF Counted, CodesServeOnce, TokensServeOnce

\* ... which it may not use again once the new one is stored.
LEMMA StoringKeepsCount ==
    ASSUME Ac!AccountsAssumption, IsFiniteSet(Calls), Told, Told',
           NEW n \in Nat, InFlight' <= n, Counted(n), NEW c \in Calls,
           Ac!StoreToken(c)
    PROVE  Counted(n)'
<1>1. PICK self, next, new :
          /\ self = accountCalls[c] /\ next = Ac!Idle
          /\ new = Ac!Exchanged(self)
    OBVIOUS
<1>2. /\ Ac!Become(c, next) /\ next.pc = "idle" /\ self.pc = "store"
      /\ UNCHANGED redis /\ tally' = [tally EXCEPT !.used = new]
    BY <1>1 DEF Ac!StoreToken, Ac!Idle, Ac!At
<1>3. /\ tally'.wrong = tally.wrong /\ tally'.deaths = tally.deaths
      /\ tally'.accepted = tally.accepted /\ tally'.used = new
      /\ tally'.cleared = tally.cleared
    BY <1>2 DEF Told, AccountsTyped
<1>4. ASSUME NEW k \in Codes
      PROVE  tally'.accepted[k] + HowMany(Accepting, k)' <= n
    <2>1. /\ tally.accepted[k] \in Nat
          /\ tally.accepted[k] + HowMany(Accepting, k) <= n
        BY DEF Counted, CodesServeOnce, Told, AccountsTyped
    <2>2. ~Is(next, Accepting, k)
        BY <1>2 DEF Is, Accepting
    <2>. QED BY <1>2, <1>3, <2>1, <2>2, ServesOnce, UsersAreBusy
<1>5. ASSUME NEW s \in Tokens PROVE new[s] + HowMany(Issuing, s)' <= n
    <2>1. tally.used[s] \in Nat /\ tally.used[s] + HowMany(Issuing, s) <= n
        BY DEF Counted, TokensServeOnce, Told, AccountsTyped
    <2>2. /\ new[s] \in Nat
          /\ new[s] <= tally.used[s] + IF s = self.with THEN 1 ELSE 0
        BY <1>1, <2>1 DEF Ac!Exchanged
    <2>3. ~Is(next, Issuing, s) /\ (Is(self, Issuing, s) <=> s = self.with)
        BY <1>2 DEF Is, Issuing
    <2>. QED BY <1>1, <1>2, <2>1, <2>2, <2>3, ServesOnce, UsersAreBusy
<1>6. TriesAreCounted' /\ TriesAreFew(n)'
    BY <1>1, <1>2, <1>3, NobodyTries DEF Counted
<1>. QED BY <1>3, <1>4, <1>5, <1>6 DEF Counted, CodesServeOnce, TokensServeOnce

\* The second is over.
LEMMA TickingKeepsCount ==
    ASSUME Told, NEW n \in Nat, Counted(n), Ac!Tick PROVE Counted(n)'
<1>1. /\ UNCHANGED <<redis, accountCalls>>
      /\ tally'.wrong = tally.wrong /\ tally'.deaths = tally.deaths
      /\ tally'.accepted = tally.accepted /\ tally'.used = tally.used
      /\ tally'.cleared = tally.cleared
    BY DEF Ac!Tick, Told, AccountsTyped
<1>. QED BY <1>1 DEF Counted, CodesServeOnce, TokensServeOnce, TriesAreCounted,
            TriesAreFew, HowMany

\* A handler dies: the try that it counted, or the lock, is among the deaths.
LEMMA DyingKeepsCount ==
    ASSUME Ac!AccountsAssumption, IsFiniteSet(Calls), Told, Told',
           NEW n \in Nat, InFlight' <= n, Counted(n), NEW c \in Calls,
           Ac!Die(c)
    PROVE  Counted(n)'
<1>1. PICK self, next : self = accountCalls[c] /\ next = Ac!Idle
    OBVIOUS
<1>2. /\ Ac!Become(c, next) /\ UNCHANGED redis /\ next.pc = "idle"
      /\ tally' = [tally EXCEPT !.deaths = @ + 1]
    BY <1>1 DEF Ac!Die, Ac!Idle
<1>3. /\ tally'.wrong = tally.wrong /\ tally'.deaths = tally.deaths + 1
      /\ tally'.accepted = tally.accepted /\ tally'.used = tally.used
      /\ tally'.cleared = tally.cleared
      /\ tally.deaths \in Nat
    BY <1>2 DEF Told, AccountsTyped
<1>4. CodesServeOnce(n)' /\ TokensServeOnce(n)'
    BY <1>2, <1>3, ServesNobody DEF Counted
<1>5. ASSUME NEW k \in Codes
      PROVE  tally'.wrong[k] <= MaxAttempts + (n - 1) + tally'.deaths
    <2>1. /\ tally.wrong[k] \in Nat /\ MaxAttempts \in Nat
          /\ tally.wrong[k] <= MaxAttempts + (n - 1) + tally.deaths
        BY DEF Counted, TriesAreFew, Told, AccountsTyped, Ac!AccountsAssumption
    <2>. QED BY <1>3, <2>1
<1>6. ASSUME NEW k \in tally'.cleared, redis'.code = k
      PROVE  /\ tally'.wrong[k]
                    <= redis'.attempts + HowMany({"count"}, k)' + tally'.deaths
             /\ tally'.wrong[k]
                    <= (MaxAttempts - 1) + HowMany({"lock"}, NULL)'
                           + HowMany({"count"}, k)' + tally'.deaths
    <2>1. k \in Codes /\ k \in tally.cleared /\ k = redis.code
        BY <1>2, <1>3, <1>6 DEF Told, AccountsTyped
    <2>2. /\ HowMany({"count"}, k) \in Nat /\ HowMany({"lock"}, NULL) \in Nat
          /\ HowMany({"count"}, k)' = HowMany({"count"}, k)
                                        - IF Is(self, {"count"}, k) THEN 1 ELSE 0
          /\ HowMany({"lock"}, NULL)' = HowMany({"lock"}, NULL)
                 - IF Is(self, {"lock"}, NULL) THEN 1 ELSE 0
          /\ ~(Is(self, {"count"}, k) /\ Is(self, {"lock"}, NULL))
        BY <1>1, <1>2, HowManyMove DEF Is
    <2>3. /\ tally.wrong[k] \in Nat /\ MaxAttempts \in Nat
          /\ redis.attempts \in Nat /\ redis'.attempts = redis.attempts
          /\ tally'.wrong[k] = tally.wrong[k]
        BY <1>2, <1>3, <2>1 DEF Told, AccountsTyped, Ac!AccountsAssumption
    <2>4. /\ tally.wrong[k]
                 <= redis.attempts + HowMany({"count"}, k) + tally.deaths
          /\ tally.wrong[k]
                 <= (MaxAttempts - 1) + HowMany({"lock"}, NULL)
                        + HowMany({"count"}, k) + tally.deaths
        BY <2>1 DEF Counted, TriesAreCounted
    <2>. QED BY <1>3, <2>2, <2>3, <2>4
<1>. QED BY <1>4, <1>5, <1>6 DEF Counted, TriesAreCounted, TriesAreFew

\* Times to live run out: the counter goes with the code or after it.
LEMMA ExpiringKeepsCount ==
    ASSUME Ac!AccountsAssumption, Told, Told', NEW n \in Nat, Counted(n),
           Ac!Expire
    PROVE  Counted(n)'
<1>1. /\ UNCHANGED <<accountCalls, tally>>
      /\ \/ redis'.code = NULL
         \/ redis'.code = redis.code /\ redis'.attempts = redis.attempts
    BY DEF Ac!Expire, Told, AccountsTyped
<1>2. CodesServeOnce(n)' /\ TokensServeOnce(n)' /\ TriesAreFew(n)'
    BY <1>1 DEF Counted, CodesServeOnce, TokensServeOnce, TriesAreFew, HowMany
<1>3. \A k \in tally'.cleared : k # NULL
    BY DEF Told, AccountsTyped, Ac!AccountsAssumption
<1>4. TriesAreCounted'
    BY <1>1, <1>3 DEF Counted, TriesAreCounted, HowMany
<1>. QED BY <1>2, <1>4 DEF Counted

(***************************************************************************)
(* Every step of signing in.                                                *)
(***************************************************************************)
\* At first nothing has happened, ...
LEMMA ToldInit == ASSUME Ac!AccountsAssumption, Ac!Init PROVE Told
<1>1. /\ redis = [pause |-> FALSE, code |-> NULL, attempts |-> 0]
      /\ user = [exists |-> FALSE, token |-> NULL]
      /\ \A c \in Calls : accountCalls[c] = Ac!Idle
      /\ accountCalls = [c \in Calls |-> Ac!Idle]
      /\ tally = Ac!NothingHappened
    BY DEF Ac!Init
<1>2. Ac!Idle \in AccountCall /\ Ac!Idle.pc = "idle"
    BY DEF Ac!Idle, AccountCall
<1>3. AccountsTyped
    BY <1>1, <1>2 DEF AccountsTyped, Ac!NothingHappened
<1>4. /\ tally.cleared = {} /\ tally.signed = {}
      /\ \A k \in Codes : tally.wrong[k] = 0 /\ tally.accepted[k] = 0
      /\ \A t \in Tokens : tally.used[t] = 0
    BY <1>1 DEF Ac!NothingHappened
<1>5. HistoryFits
    BY <1>1, <1>4 DEF HistoryFits
<1>6. ASSUME NEW c \in Calls PROVE IsAbout(accountCalls[c])
    BY <1>1, <1>2 DEF IsAbout, Requesting, Early
<1>7. RequestsApart
    BY <1>1, <1>2 DEF RequestsApart, Requesting, Early
<1>. QED BY <1>3, <1>5, <1>6, <1>7 DEF Told

\* ... and every step of a call, and every time to live, leaves it told.
LEMMA ToldNext == ASSUME Ac!AccountsAssumption, Told, Ac!Next PROVE Told'
<1>1. ASSUME NEW c \in Calls, NEW k \in Codes,
             Ac!RequestBegin(c, k) \/ Ac!Try(c, k)
      PROVE  Told'
    BY <1>1, RequestBeginTells, TryTells
<1>2. ASSUME NEW c \in Calls, NEW t \in Tokens,
             Ac!Refresh(c, t) \/ Ac!Sign(c, t)
      PROVE  Told'
    BY <1>2, RefreshTells, SignTells
<1>3. ASSUME NEW c \in Calls,
             \/ Ac!CreateUser(c) \/ Ac!Pause(c) \/ Ac!SetCode(c)
             \/ Ac!ClearAttempts(c) \/ Ac!Send(c) \/ Ac!SendFails(c)
             \/ Ac!Accept(c) \/ Ac!Count(c) \/ Ac!Lock(c) \/ Ac!StoreToken(c)
             \/ Ac!Die(c)
      PROVE  Told'
    BY <1>3, CreateUserTells, PauseTells, SetCodeTells, ClearAttemptsTells,
       AcceptTells, StoreTokenTells, EndTells
<1>. QED BY <1>1, <1>2, <1>3, ExpireTells, TickTells DEF Ac!Next

\* At first there is nothing to count, ...
LEMMA CountedInit ==
    ASSUME Ac!AccountsAssumption, IsFiniteSet(Calls), Ac!Init,
           NEW n \in Nat
    PROVE  Counted(n)
<1>1. /\ \A c \in Calls : accountCalls[c].pc = "idle"
      /\ tally.cleared = {} /\ tally.deaths = 0
      /\ \A k \in Codes : tally.wrong[k] = 0 /\ tally.accepted[k] = 0
      /\ \A t \in Tokens : tally.used[t] = 0
    BY DEF Ac!Init, Ac!Idle, Ac!NothingHappened
<1>2. ASSUME NEW pcs, "idle" \notin pcs, NEW x PROVE HowMany(pcs, x) = 0
    <2>1. {c \in Calls : Is(accountCalls[c], pcs, x)} = {}
        BY <1>1, <1>2 DEF Is
    <2>. QED BY <2>1, FS_EmptySet DEF HowMany
<1>3. CodesServeOnce(n) /\ TokensServeOnce(n)
    <2>1. /\ \A k \in Codes : HowMany(Accepting, k) = 0
          /\ \A t \in Tokens : HowMany(Issuing, t) = 0
        BY <1>2, UsersAreBusy
    <2>. QED BY <1>1, <2>1 DEF CodesServeOnce, TokensServeOnce
<1>4. TriesAreCounted /\ TriesAreFew(n)
    BY <1>1 DEF TriesAreCounted, TriesAreFew, Ac!AccountsAssumption
<1>. QED BY <1>3, <1>4 DEF Counted

\* ... and every step counts what it does.
LEMMA CountedNext ==
    ASSUME Ac!AccountsAssumption, IsFiniteSet(Calls), Told, Told',
           NEW n \in Nat, InFlight' <= n, Counted(n), Ac!Next
    PROVE  Counted(n)'
<1>1. ASSUME NEW c \in Calls, NEW k \in Codes,
             Ac!RequestBegin(c, k) \/ Ac!Try(c, k)
      PROVE  Counted(n)'
    BY <1>1, RequestsKeepCount, TriesKeepCount
<1>2. ASSUME NEW c \in Calls, NEW t \in Tokens,
             Ac!Refresh(c, t) \/ Ac!Sign(c, t)
      PROVE  Counted(n)'
    BY <1>2, RefreshingKeepsCount, SigningKeepsCount
<1>3. ASSUME NEW c \in Calls,
             \/ Ac!CreateUser(c) \/ Ac!Pause(c) \/ Ac!SetCode(c)
             \/ Ac!ClearAttempts(c) \/ Ac!Send(c) \/ Ac!SendFails(c)
             \/ Ac!Accept(c) \/ Ac!Count(c) \/ Ac!Lock(c) \/ Ac!StoreToken(c)
             \/ Ac!Die(c)
      PROVE  Counted(n)'
    BY <1>3, RequestsKeepCount, ClearingKeepsCount, AcceptingKeepsCount,
       CountingKeepsCount, LockingKeepsCount, StoringKeepsCount, DyingKeepsCount
<1>. QED BY <1>1, <1>2, <1>3, ExpiringKeepsCount, TickingKeepsCount DEF Ac!Next

(***************************************************************************)
(* Pages.  Rows of one list are in one order, so what a query of a page has *)
(* brought can be sorted in one way; a page goes on after the last row of   *)
(* the one before, and a row that is there all the time is in a page, or    *)
(* still ahead of the cursor.                                               *)
(***************************************************************************)

\* The rows of a list.
RowsOf(list) == [source : list, rank : Ranks, id : Ids]

InOrder(seq) ==
    \A i, j \in 1..Len(seq) : i < j => Pa!Before(seq[i], seq[j])

\* compareActivityDesc() orders the rows of a list.
LEMMA BeforeIsAnOrder ==
    ASSUME Pa!PagesAssumption, NEW list \in Pa!Lists,
           NEW x \in RowsOf(list), NEW y \in RowsOf(list)
    PROVE  /\ ~Pa!Before(x, x)
           /\ x = y \/ Pa!Before(x, y) \/ Pa!Before(y, x)
           /\ \A z \in RowsOf(list) :
                  Pa!Before(x, y) /\ Pa!Before(y, z) => Pa!Before(x, z)
<1>1. ASSUME NEW w \in RowsOf(list)
      PROVE  /\ w.rank \in Nat /\ w.id \in Nat /\ w.source \in list
             /\ w = [source |-> w.source, rank |-> w.rank, id |-> w.id]
    <2>1. w.rank \in Ranks /\ w.id \in Ids /\ w.source \in list
        BY DEF RowsOf
    <2>2. Ranks \subseteq Nat /\ Ids \subseteq Nat
        BY DEF Pa!PagesAssumption
    <2>3. w = [source |-> w.source, rank |-> w.rank, id |-> w.id]
        BY DEF RowsOf
    <2>. QED BY <2>1, <2>2, <2>3
<1>2. \A s \in list : Pa!TypeOrder(s) \in Nat
    BY DEF Pa!TypeOrder
<1>3. \A s, t \in list : s = t \/ Pa!TypeOrder(s) < Pa!TypeOrder(t)
                               \/ Pa!TypeOrder(t) < Pa!TypeOrder(s)
    BY DEF Pa!TypeOrder, Pa!Lists, Pa!Timeline
<1>4. ~Pa!Before(x, x)
    BY <1>1, <1>2 DEF Pa!Before
<1>5. x = y \/ Pa!Before(x, y) \/ Pa!Before(y, x)
    <2>1. CASE x.rank # y.rank
        BY <1>1, <2>1 DEF Pa!Before
    <2>2. CASE x.rank = y.rank /\ x.source # y.source
        BY <1>1, <1>3, <2>2 DEF Pa!Before
    <2>3. CASE x.rank = y.rank /\ x.source = y.source /\ x.id # y.id
        BY <1>1, <2>3 DEF Pa!Before
    <2>. QED BY <1>1, <2>1, <2>2, <2>3
<1>6. ASSUME NEW z \in RowsOf(list), Pa!Before(x, y), Pa!Before(y, z)
      PROVE  Pa!Before(x, z)
    <2>1. /\ x.rank \in Nat /\ y.rank \in Nat /\ z.rank \in Nat
          /\ x.id \in Nat /\ y.id \in Nat /\ z.id \in Nat
          /\ Pa!TypeOrder(x.source) \in Nat /\ Pa!TypeOrder(y.source) \in Nat
          /\ Pa!TypeOrder(z.source) \in Nat
        BY <1>1, <1>2
    <2>. QED BY <1>6, <2>1 DEF Pa!Before
<1>. QED BY <1>4, <1>5, <1>6

\* Of some rows one comes last.
LEMMA LastRow ==
    ASSUME Pa!PagesAssumption, NEW list \in Pa!Lists,
           NEW S \in SUBSET RowsOf(list), IsFiniteSet(S), S # {}
    PROVE  \E x \in S : \A y \in S \ {x} : Pa!Before(y, x)
<1>. DEFINE HasLast(T) == \E x \in T : \A y \in T \ {x} : Pa!Before(y, x)
            Bad == {T \in SUBSET S : T # {} /\ ~HasLast(T)}
<1>1. SUFFICES ASSUME Bad # {} PROVE FALSE
    OBVIOUS
<1>2. \A T \in Bad : IsFiniteSet(T)
    BY FS_Subset
<1>3. PICK T \in Bad : \A x \in T : T \ {x} \notin Bad
    <2>. HIDE DEF Bad
    <2>. QED BY <1>1, <1>2, SmallestSet
<1>4. PICK x \in T : TRUE
    OBVIOUS
<1>5. CASE T \ {x} = {}
    <2>1. HasLast(T)
        BY <1>4, <1>5
    <2>. QED BY <1>3, <2>1
<1>6. CASE T \ {x} # {}
    <2>1. T \ {x} \in SUBSET S
        BY <1>3
    <2>2. HasLast(T \ {x})
        BY <1>3, <1>4, <1>6, <2>1
    <2>3. PICK y \in T \ {x} : \A z \in (T \ {x}) \ {y} : Pa!Before(z, y)
        BY <2>2
    <2>4. x \in RowsOf(list) /\ y \in RowsOf(list) /\ T \subseteq RowsOf(list)
        BY <1>3, <1>4, <2>3
    <2>5. x # y
        BY <2>3
    <2>6. CASE Pa!Before(x, y)
        <3>1. \A z \in T \ {y} : Pa!Before(z, y)
            BY <2>3, <2>6
        <3>. QED BY <1>3, <2>3, <3>1
    <2>7. CASE Pa!Before(y, x)
        <3>1. ASSUME NEW z \in T \ {x} PROVE Pa!Before(z, x)
            <4>1. z = y \/ Pa!Before(z, y)
                BY <2>3
            <4>2. z \in RowsOf(list)
                BY <2>4
            <4>. QED BY <2>4, <2>7, <4>1, <4>2, BeforeIsAnOrder
        <3>. QED BY <1>3, <1>4, <3>1
    <2>. QED BY <2>4, <2>5, <2>6, <2>7, BeforeIsAnOrder
<1>. QED BY <1>5, <1>6

\* Pages counts rows as the modules of finite sets do.
LEMMA CountsAgree ==
    ASSUME NEW S PROVE Pa!Cardinality(S) = Cardinality(S)
BY DEF Pa!Cardinality, Cardinality, Pa!IsFiniteSet, IsFiniteSet

\* There is an order to sort rows in, ...
LEMMA SortedExists ==
    ASSUME Pa!PagesAssumption, NEW list \in Pa!Lists,
           NEW S \in SUBSET RowsOf(list), IsFiniteSet(S)
    PROVE  \E seq \in [1..Cardinality(S) -> S] :
               \A i, j \in 1..Cardinality(S) : i < j => Pa!Before(seq[i], seq[j])
<1>. DEFINE Sorts(seq, n) == \A i, j \in 1..n : i < j => Pa!Before(seq[i], seq[j])
            Good(T) == \E seq \in [1..Cardinality(T) -> T] : Sorts(seq, Cardinality(T))
            Bad == {T \in SUBSET S : ~Good(T)}
<1>1. SUFFICES ASSUME Bad # {} PROVE FALSE
    OBVIOUS
<1>2. \A T \in Bad : IsFiniteSet(T)
    BY FS_Subset
<1>3. PICK T \in Bad : \A x \in T : T \ {x} \notin Bad
    <2>. HIDE DEF Bad
    <2>. QED BY <1>1, <1>2, SmallestSet
<1>4. T \in SUBSET S /\ ~Good(T) /\ IsFiniteSet(T) /\ T \in SUBSET RowsOf(list)
    BY <1>2, <1>3
<1>5. T # {}
    <2>1. SUFFICES ASSUME T = {} PROVE Good({})
        BY <1>4
    <2>2. Cardinality({}) = 0
        BY FS_EmptySet
    <2>3. [i \in 1..0 |-> 0] \in [1..0 -> {}]
        OBVIOUS
    <2>. QED BY <2>2, <2>3
<1>6. PICK x \in T : \A y \in T \ {x} : Pa!Before(y, x)
    BY <1>4, <1>5, LastRow
<1>7. PICK U : U = T \ {x}
    OBVIOUS
<1>8. PICK n : n = Cardinality(U)
    OBVIOUS
<1>9. n \in Nat /\ Cardinality(T) = n + 1
    <2>1. Cardinality(T) \in Nat
        BY <1>4, FS_CardinalityType
    <2>2. IsFiniteSet(U) /\ Cardinality(U) = Cardinality(T) - 1
        BY <1>4, <1>6, <1>7, FS_RemoveElement
    <2>3. n \in Nat
        BY <1>8, <2>2, FS_CardinalityType
    <2>. QED BY <1>8, <2>1, <2>2, <2>3
<1>10. PICK seq \in [1..n -> U] : Sorts(seq, n)
    BY <1>3, <1>4, <1>6, <1>7, <1>8
<1>11. PICK new : new = [i \in 1..(n + 1) |-> IF i <= n THEN seq[i] ELSE x]
    OBVIOUS
<1>12. new \in [1..(n + 1) -> T]
    BY <1>6, <1>7, <1>9, <1>10, <1>11
<1>13. Sorts(new, n + 1)
    <2>1. SUFFICES ASSUME NEW i \in 1..(n + 1), NEW j \in 1..(n + 1), i < j
                   PROVE  Pa!Before(new[i], new[j])
        OBVIOUS
    <2>2. i \in 1..n /\ new[i] = seq[i] /\ seq[i] \in U
        BY <1>9, <1>10, <1>11, <2>1
    <2>3. CASE j = n + 1
        <3>1. new[j] = x
            BY <1>9, <1>11, <2>3
        <3>. QED BY <1>6, <1>7, <2>2, <3>1
    <2>4. CASE j # n + 1
        <3>1. j \in 1..n /\ new[j] = seq[j]
            BY <1>9, <1>11, <2>4
        <3>. QED BY <1>10, <2>1, <2>2, <3>1
    <2>. QED BY <2>3, <2>4
<1>. QED BY <1>4, <1>9, <1>12, <1>13

\* ... and sorting brings each row once, in order.
LEMMA SortedIsInOrder ==
    ASSUME Pa!PagesAssumption, NEW list \in Pa!Lists,
           NEW S \in SUBSET RowsOf(list), IsFiniteSet(S),
           NEW sorted, sorted = Pa!Sorted(S)
    PROVE  /\ sorted \in Seq(S) /\ Len(sorted) = Cardinality(S)
           /\ InOrder(sorted)
           /\ \A row \in S : \E i \in 1..Len(sorted) : sorted[i] = row
<1>1. PICK n : n = Cardinality(S)
    OBVIOUS
<1>2. n \in Nat /\ Pa!Cardinality(S) = n
    BY <1>1, CountsAgree, FS_CardinalityType
<1>3. Pa!SetToSeqs(S) = {f \in [1..n -> S] : \A i, j \in 1..n : i # j => f[i] # f[j]}
    BY <1>2 DEF Pa!SetToSeqs
<1>4. \A x, y \in S : /\ ~Pa!Before(x, x)
                      /\ x = y \/ Pa!Before(x, y) \/ Pa!Before(y, x)
                      /\ Pa!Before(x, y) => ~Pa!Before(y, x)
    BY BeforeIsAnOrder
<1>5. PICK seq \in [1..n -> S] : \A i, j \in 1..n : i < j => Pa!Before(seq[i], seq[j])
    BY <1>1, SortedExists
<1>6. seq \in Pa!SetToSeqs(S)
    <2>1. ASSUME NEW i \in 1..n, NEW j \in 1..n, i # j PROVE seq[i] # seq[j]
        <3>1. i < j \/ j < i
            BY <1>2, <2>1
        <3>2. seq[i] \in S /\ seq[j] \in S
            BY <1>5
        <3>. QED BY <1>4, <1>5, <3>1, <3>2
    <2>. QED BY <1>3, <1>5, <2>1
<1>7. \A i, j \in DOMAIN seq : i < j => ~Pa!Before(seq[j], seq[i])
    <2>1. ASSUME NEW i \in 1..n, NEW j \in 1..n, i < j
          PROVE  ~Pa!Before(seq[j], seq[i])
        <3>1. seq[i] \in S /\ seq[j] \in S /\ Pa!Before(seq[i], seq[j])
            BY <1>5, <2>1
        <3>. QED BY <1>4, <3>1
    <2>. QED BY <1>5, <2>1
<1>8. /\ sorted \in Pa!SetToSeqs(S)
      /\ \A i, j \in DOMAIN sorted : i < j => ~Pa!Before(sorted[j], sorted[i])
    BY <1>6, <1>7 DEF Pa!Sorted
<1>9. /\ sorted \in [1..n -> S] /\ DOMAIN sorted = 1..n
      /\ \A i, j \in 1..n : i # j => sorted[i] # sorted[j]
    BY <1>3, <1>8
<1>10. sorted \in Seq(S) /\ Len(sorted) = n
    BY <1>2, <1>9
<1>11. ASSUME NEW i \in 1..n, NEW j \in 1..n, i < j
       PROVE  Pa!Before(sorted[i], sorted[j])
    <2>1. sorted[i] \in S /\ sorted[j] \in S /\ sorted[i] # sorted[j]
        BY <1>2, <1>9, <1>11
    <2>2. ~Pa!Before(sorted[j], sorted[i])
        BY <1>8, <1>9, <1>11
    <2>. QED BY <1>4, <2>1, <2>2
<1>12. \A row \in S : \E i \in 1..n : sorted[i] = row
    <2>1. sorted \in Injection(1..n, S)
        BY <1>9 DEF Injection, IsInjective
    <2>2. Cardinality(1..n) = n
        BY <1>2, FS_Interval
    <2>3. sorted \in Surjection(1..n, S)
        BY <1>1, <2>1, <2>2, FS_Injection
    <2>. QED BY <2>3 DEF Surjection
<1>. QED BY <1>1, <1>10, <1>11, <1>12 DEF InOrder

\* Of two reviews the younger is not in a later millisecond.
LEMMA MillisInOrder ==
    ASSUME Pa!PagesAssumption, NEW a \in Nat, NEW b \in Nat
    PROVE  /\ a \div PerMilli \in Nat /\ b \div PerMilli \in Nat
           /\ a \div PerMilli < b \div PerMilli => a < b
<1>1. PICK k \in Nat \ {0} : k = PerMilli
    BY DEF Pa!PagesAssumption
<1>2. PICK q \in Nat : q = a \div k
    OBVIOUS
<1>3. PICK r \in Nat : r = b \div k
    OBVIOUS
<1>4. k * r <= b
    BY <1>3
<1>5. a < k * q + k
    BY <1>2
<1>6. ASSUME q < r PROVE a < b
    <2>1. k * (q + 1) <= k * r
        BY <1>6
    <2>2. k * (q + 1) = k * q + k
        OBVIOUS
    <2>3. k * q \in Nat /\ k * r \in Nat
        OBVIOUS
    <2>. QED BY <1>4, <1>5, <2>1, <2>2, <2>3
<1>. QED BY <1>1, <1>2, <1>3, <1>6

\* What the cursor says of two rows is what their order says, but for reviews
\* of one millisecond.
LEMMA CursorKnowsMillis ==
    ASSUME Pa!PagesAssumption, NEW list \in Pa!Lists,
           NEW x \in RowsOf(list), NEW y \in RowsOf(list)
    PROVE  /\ Pa!Before(Pa!Truncated(x), Pa!Truncated(y)) =>
                  x # y /\ (Pa!Before(x, y) \/ Pa!SameMilli(x, y))
           /\ Pa!Before(x, y) =>
                  \/ Pa!Before(Pa!Truncated(x), Pa!Truncated(y))
                  \/ Pa!SameMilli(x, y)
<1>1. \A z \in RowsOf(list) : z.rank \in Nat /\ z.id \in Nat /\ z.source \in list
    BY DEF RowsOf, Pa!PagesAssumption
<1>2. \A s \in list : Pa!TypeOrder(s) \in Nat
    BY DEF Pa!TypeOrder
<1>3. CASE x.source # "review" \/ y.source # "review"
    <2>1. x.source # "review" /\ y.source # "review"
        BY <1>1, <1>3 DEF Pa!Lists, Pa!Timeline
    <2>2. Pa!Truncated(x) = x /\ Pa!Truncated(y) = y
        BY <2>1 DEF Pa!Truncated
    <2>. QED BY <2>2, BeforeIsAnOrder
<1>4. CASE x.source = "review" /\ y.source = "review"
    <2>1. PICK u : u = Pa!Truncated(x)
        OBVIOUS
    <2>2. PICK v : v = Pa!Truncated(y)
        OBVIOUS
    <2>3. /\ u.source = "review" /\ u.rank = x.rank \div PerMilli /\ u.id = x.id
          /\ v.source = "review" /\ v.rank = y.rank \div PerMilli /\ v.id = y.id
        BY <1>4, <2>1, <2>2 DEF Pa!Truncated, RowsOf
    <2>4. /\ u.rank \in Nat /\ v.rank \in Nat
          /\ u.rank < v.rank => x.rank < y.rank
          /\ v.rank < u.rank => y.rank < x.rank
        BY <1>1, <2>3, MillisInOrder
    <2>5. Pa!SameMilli(x, y) <=> u.rank = v.rank
        BY <1>4, <2>1, <2>2 DEF Pa!SameMilli
    <2>6. /\ Pa!Before(x, y) =>
                x.rank < y.rank \/ (x.rank = y.rank /\ x.id < y.id)
          /\ x.rank < y.rank => Pa!Before(x, y)
        BY <1>1, <1>2, <1>4 DEF Pa!Before
    <2>7. Pa!Before(u, v) <=>
              u.rank < v.rank \/ (u.rank = v.rank /\ u.id < v.id)
        BY <1>2, <1>4, <2>3 DEF Pa!Before, Pa!TypeOrder
    <2>8. x.rank \in Nat /\ y.rank \in Nat /\ x.id \in Nat /\ y.id \in Nat
        BY <1>1
    <2>9. Pa!Before(u, v) => x # y
        BY <2>3, <2>4, <2>7, <2>8
    <2>. QED BY <2>1, <2>2, <2>4, <2>5, <2>6, <2>7, <2>8, <2>9
<1>. QED BY <1>3, <1>4

\* Between rows of one millisecond there are only such rows.
LEMMA MillisAreTogether ==
    ASSUME Pa!PagesAssumption, NEW list \in Pa!Lists,
           NEW x \in RowsOf(list), NEW y \in RowsOf(list), NEW z \in RowsOf(list)
    PROVE  /\ Pa!SameMilli(x, y) => Pa!SameMilli(y, x)
           /\ Pa!SameMilli(x, y) /\ Pa!SameMilli(y, z) => Pa!SameMilli(x, z)
           /\ Pa!Before(x, y) /\ Pa!SameMilli(y, z) =>
                  Pa!Before(x, z) \/ (Pa!SameMilli(x, z) /\ Pa!SameMilli(x, y))
           /\ Pa!SameMilli(x, y) /\ Pa!Before(y, z) =>
                  Pa!Before(x, z) \/ Pa!SameMilli(x, z)
<1>1. \A r \in RowsOf(list) : r.rank \in Nat /\ r.id \in Nat /\ r.source \in list
    BY DEF RowsOf, Pa!PagesAssumption
<1>2. /\ Pa!SameMilli(x, y) => Pa!SameMilli(y, x)
      /\ Pa!SameMilli(x, y) /\ Pa!SameMilli(y, z) => Pa!SameMilli(x, z)
    BY DEF Pa!SameMilli
<1>3. SUFFICES ASSUME Pa!SameMilli(x, y) \/ Pa!SameMilli(y, z)
               PROVE  /\ Pa!Before(x, y) /\ Pa!SameMilli(y, z) =>
                             \/ Pa!Before(x, z)
                             \/ Pa!SameMilli(x, z) /\ Pa!SameMilli(x, y)
                      /\ Pa!SameMilli(x, y) /\ Pa!Before(y, z) =>
                             Pa!Before(x, z) \/ Pa!SameMilli(x, z)
    BY <1>2
<1>4. \A r \in {x, y, z} : r.source = "review"
    BY <1>1, <1>3 DEF Pa!SameMilli, Pa!Lists, Pa!Timeline
<1>5. \A r \in {x, y, z} : Pa!Truncated(r).rank = r.rank \div PerMilli
    BY <1>4 DEF Pa!Truncated, RowsOf
<1>6. \A r, s \in {x, y, z} :
          /\ r.rank \div PerMilli \in Nat /\ s.rank \div PerMilli \in Nat
          /\ r.rank \div PerMilli < s.rank \div PerMilli => r.rank < s.rank
    BY <1>1, MillisInOrder
<1>7. \A r, s \in {x, y, z} :
          Pa!SameMilli(r, s) <=> r.rank \div PerMilli = s.rank \div PerMilli
    BY <1>4, <1>5 DEF Pa!SameMilli
<1>8. \A r, s \in {x, y, z} :
          /\ Pa!Before(r, s) => r.rank <= s.rank
          /\ r.rank < s.rank => Pa!Before(r, s)
    BY <1>1, <1>4 DEF Pa!Before
<1>9. /\ x.rank \in Nat /\ y.rank \in Nat /\ z.rank \in Nat
    BY <1>1
<1>10. ASSUME Pa!Before(x, y), Pa!SameMilli(y, z)
       PROVE  Pa!Before(x, z) \/ (Pa!SameMilli(x, z) /\ Pa!SameMilli(x, y))
    BY <1>6, <1>7, <1>8, <1>9, <1>10
<1>11. ASSUME Pa!SameMilli(x, y), Pa!Before(y, z)
       PROVE  Pa!Before(x, z) \/ Pa!SameMilli(x, z)
    BY <1>6, <1>7, <1>8, <1>9, <1>11
<1>. QED BY <1>10, <1>11

Shown(seq, row) == \E i \in 1..Len(seq) : seq[i] = row

Ahead(cursor, row) ==
    cursor = NULL \/ Pa!Before(Pa!Truncated(cursor), Pa!Truncated(row))

\* In order, but for reviews of one millisecond.
Follows(a, b) == Pa!Before(a, b) \/ (Pa!SameMilli(a, b) /\ Pa!Crowded(a))

OneList(seq) ==
    \A i, j \in 1..Len(seq) : i < j => Follows(seq[i], seq[j])

\* Reviews stay.
Stays(row) == row.source = "review" => row \in listed

WalkTyped(w) ==
    w \in [pc : {"start", "query", "more", "done"},
           cursor : RowsOf(sources) \cup {NULL}, got : SUBSET RowsOf(sources),
           out : SUBSET sources, shown : Seq(RowsOf(sources)),
           always : SUBSET RowsOf(sources), failed : BOOLEAN, cut : BOOLEAN]

\* The next page starts after the last row that was shown.
GoesOn(w) ==
    /\ w.pc = "start" => w.shown = << >>
    /\ w.pc # "done" =>
           w.cursor = IF w.shown = << >> THEN NULL ELSE w.shown[Len(w.shown)]

\* A row that was there all the time was shown or is ahead, unless there is
\* another of its millisecond, and the queries bring it.
NoneIsSkipped(w) ==
    ~w.failed /\ ~w.cut =>
        \A row \in w.always :
            /\ \/ Pa!Crowded(row) \/ Shown(w.shown, row)
               \/ w.pc # "done" /\ Ahead(w.cursor, row)
            /\ w.pc = "query" => row.source \in w.out \/ row \in w.got

\* What the queries have brought and what was shown.
AllStay(w) ==
    /\ \A row \in w.got : Stays(row)
    /\ \A i \in 1..Len(w.shown) : Stays(w.shown[i])

Walks(w) ==
    /\ WalkTyped(w) /\ IsFiniteSet(w.got) /\ AllStay(w)
    /\ OneList(w.shown) /\ GoesOn(w)
    /\ NoneIsSkipped(w)

\* The inductive invariant.
PagesTold ==
    /\ sources \in Pa!Lists
    /\ listed \in SUBSET RowsOf(sources) /\ IsFiniteSet(listed)
    /\ Walks(walk) /\ walk.always \subseteq listed

\* Before the first page nothing was shown.
LEMMA PagesToldInit == ASSUME Pa!Init PROVE PagesTold
<1>1. walk = Pa!Start /\ listed = {} /\ sources \in Pa!Lists
    BY DEF Pa!Init
<1>2. Pa!Start.shown = << >> /\ Len(<< >>) = 0
    BY DEF Pa!Start
<1>3. WalkTyped(walk)
    BY <1>1 DEF WalkTyped, Pa!Start
<1>4. OneList(walk.shown)
    BY <1>1, <1>2 DEF OneList
<1>5. /\ GoesOn(walk) /\ NoneIsSkipped(walk) /\ walk.got = {} /\ walk.always = {}
      /\ AllStay(walk)
    BY <1>1, <1>2 DEF GoesOn, NoneIsSkipped, AllStay, Pa!Start
<1>. QED BY <1>1, <1>3, <1>4, <1>5, FS_EmptySet DEF PagesTold, Walks

\* Reviews never go, so what is in order stays in order.
LEMMA ReviewsStay ==
    ASSUME \A row \in listed : row.source = "review" => row \in listed'
    PROVE  /\ \A row : Pa!Crowded(row) => Pa!Crowded(row)'
           /\ \A a, b : Follows(a, b) => Follows(a, b)'
           /\ \A row : Stays(row) => Stays(row)'
<1>1. \A row : Pa!Crowded(row) => Pa!Crowded(row)'
    <2>1. ASSUME NEW row, Pa!Crowded(row) PROVE Pa!Crowded(row)'
        <3>1. PICK other \in listed \ {row} : Pa!SameMilli(row, other)
            BY <2>1 DEF Pa!Crowded
        <3>2. other \in listed'
            BY <3>1 DEF Pa!SameMilli
        <3>. QED BY <3>1, <3>2 DEF Pa!Crowded
    <2>. QED BY <2>1
<1>2. \A a, b : Follows(a, b) => Follows(a, b)'
    BY <1>1 DEF Follows
<1>3. \A row : Stays(row) => Stays(row)'
    BY DEF Stays
<1>. QED BY <1>1, <1>2, <1>3

\* Rows come and go: the walk forgets those that go.
LEMMA RowsComeAndGo ==
    ASSUME PagesTold, NEW row,
           \/ row \in Pa!Row /\ Pa!Appear(row)
           \/ row \in listed /\ Pa!Vanish(row)
    PROVE  PagesTold'
<1>1. PICK w : w = walk
    OBVIOUS
<1>2. /\ sources \in Pa!Lists /\ UNCHANGED sources
      /\ WalkTyped(w) /\ IsFiniteSet(w.got) /\ AllStay(w)
      /\ OneList(w.shown) /\ GoesOn(w) /\ NoneIsSkipped(w)
      /\ w.always \subseteq listed
    BY <1>1 DEF PagesTold, Walks, Pa!Appear, Pa!Vanish
<1>3. PICK gone : gone = IF Pa!Appear(row) THEN {} ELSE {row}
    OBVIOUS
<1>4. /\ listed' \in SUBSET RowsOf(sources) /\ IsFiniteSet(listed')
      /\ \A r \in listed : r \notin gone => r \in listed'
      /\ \A r \in gone : r.source # "review"
      /\ walk' = w \/ walk' = [w EXCEPT !.always = @ \ gone]
      /\ gone = {} \/ walk' = [w EXCEPT !.always = @ \ gone]
    <2>1. CASE Pa!Appear(row)
        <3>1. listed' = listed \cup {row} /\ walk' = w /\ gone = {}
            BY <1>1, <1>3, <2>1 DEF Pa!Appear
        <3>2. row \in RowsOf(sources)
            BY <2>1 DEF Pa!Row, RowsOf, PagesTold, Pa!Vanish
        <3>. QED BY <3>1, <3>2, FS_AddElement DEF PagesTold
    <2>2. CASE ~Pa!Appear(row)
        <3>1. Pa!Vanish(row) /\ gone = {row}
            BY <1>3, <2>2
        <3>2. /\ listed' = listed \ {row} /\ row.source = "merchant"
              /\ walk' = [w EXCEPT !.always = @ \ {row}]
            BY <1>1, <3>1 DEF Pa!Vanish
        <3>. QED BY <3>1, <3>2, FS_Subset DEF PagesTold
    <2>. QED BY <2>1, <2>2
<1>5. PICK new : new = walk'
    OBVIOUS
<1>6. /\ new.always = w.always \ gone
      /\ new.pc = w.pc /\ new.shown = w.shown /\ new.cursor = w.cursor
      /\ new.got = w.got /\ new.out = w.out
      /\ new.failed = w.failed /\ new.cut = w.cut
      /\ WalkTyped(new)
    BY <1>2, <1>4, <1>5 DEF WalkTyped
<1>7. /\ \A r : Pa!Crowded(r) => Pa!Crowded(r)'
      /\ \A a, b : Follows(a, b) => Follows(a, b)'
      /\ \A r : Stays(r) => Stays(r)'
    BY <1>4, ReviewsStay
<1>8. OneList(new.shown)'
    BY <1>2, <1>6, <1>7 DEF OneList
<1>9. AllStay(new)'
    BY <1>2, <1>6, <1>7 DEF AllStay
<1>10. NoneIsSkipped(new)'
    BY <1>2, <1>6, <1>7 DEF NoneIsSkipped, Ahead, Shown
<1>11. WalkTyped(new)' /\ IsFiniteSet(new.got) /\ GoesOn(new)'
    BY <1>2, <1>6 DEF WalkTyped, RowsOf, GoesOn
<1>12. new.always \subseteq listed'
    BY <1>2, <1>4, <1>6
<1>. QED BY <1>2, <1>4, <1>5, <1>8, <1>9, <1>10, <1>11, <1>12
     DEF PagesTold, Walks, WalkTyped, RowsOf, OneList, AllStay, NoneIsSkipped,
         GoesOn, Ahead, Shown, Follows, Stays

\* A step of the walk is what is left to show.
LEMMA WalkGoesOn ==
    ASSUME PagesTold, UNCHANGED <<listed, sources>>, NEW w, walk' = w,
           Walks(w), w.always \subseteq listed
    PROVE  PagesTold'
<1>1. /\ \A r : Pa!Crowded(r) <=> Pa!Crowded(r)'
      /\ \A r : Stays(r) <=> Stays(r)'
    BY DEF Pa!Crowded, Stays
<1>2. \A a, b : Follows(a, b) <=> Follows(a, b)'
    BY <1>1 DEF Follows
<1>3. OneList(w.shown)' /\ AllStay(w)' /\ NoneIsSkipped(w)'
    BY <1>1, <1>2 DEF Walks, OneList, AllStay, NoneIsSkipped, Ahead, Shown
<1>. QED BY <1>3 DEF PagesTold, Walks, WalkTyped, RowsOf, GoesOn, NoneIsSkipped,
             OneList, AllStay, Ahead, Shown, Follows, Stays

\* The queries of a page go out: every row is still to come.
LEMMA RequestTold == ASSUME PagesTold, Pa!Request PROVE PagesTold'
<1>1. PICK w : w = walk
    OBVIOUS
<1>2. PICK new : new = [w EXCEPT !.pc = "query", !.out = sources, !.got = {},
                                 !.always = IF w.pc = "start" THEN listed ELSE @]
    OBVIOUS
<1>3. /\ WalkTyped(w) /\ w.pc \in {"start", "more"} /\ walk' = new
      /\ UNCHANGED <<listed, sources>>
    BY <1>1, <1>2 DEF PagesTold, Walks, Pa!Request
<1>4. /\ new.pc = "query" /\ new.out = sources /\ new.got = {}
      /\ new.always = (IF w.pc = "start" THEN listed ELSE w.always)
      /\ new.shown = w.shown /\ new.cursor = w.cursor
      /\ new.failed = w.failed /\ new.cut = w.cut
    BY <1>2, <1>3 DEF WalkTyped
<1>5. WalkTyped(new)
    BY <1>2, <1>3 DEF WalkTyped, PagesTold
<1>6. /\ OneList(new.shown) /\ AllStay(new) /\ GoesOn(new)
      /\ IsFiniteSet(new.got)
    BY <1>1, <1>3, <1>4, FS_EmptySet DEF PagesTold, Walks, GoesOn, AllStay
<1>7. \A row \in new.always : row.source \in new.out
    BY <1>4, <1>5 DEF WalkTyped, RowsOf
<1>8. w.pc = "start" => new.cursor = NULL
    BY <1>1, <1>4 DEF PagesTold, Walks, GoesOn
<1>9. NoneIsSkipped(new)
    BY <1>1, <1>3, <1>4, <1>7, <1>8 DEF PagesTold, Walks, NoneIsSkipped, Ahead
<1>. QED BY <1>1, <1>3, <1>4, <1>5, <1>6, <1>9, WalkGoesOn
     DEF PagesTold, Walks

\* A query returns, with all rows of its source or cut, or fails.
LEMMA AnswerTold ==
    ASSUME PagesTold, NEW s \in sources, Pa!Answer(s) \/ Pa!Fail(s)
    PROVE  PagesTold'
<1>1. PICK w : w = walk
    OBVIOUS
<1>2. /\ WalkTyped(w) /\ w.pc = "query" /\ UNCHANGED <<listed, sources>>
      /\ IsFiniteSet(w.got) /\ OneList(w.shown) /\ AllStay(w)
      /\ GoesOn(w) /\ NoneIsSkipped(w)
      /\ w.always \subseteq listed
    BY <1>1 DEF PagesTold, Walks, Pa!Answer, Pa!Fail
<1>3. CASE Pa!Fail(s)
    <2>1. PICK new : new = [w EXCEPT !.out = @ \ {s}, !.failed = TRUE]
        OBVIOUS
    <2>2. walk' = new
        BY <1>1, <1>3, <2>1 DEF Pa!Fail
    <2>3. /\ new.got = w.got /\ new.shown = w.shown /\ new.always = w.always
          /\ new.failed = TRUE /\ new.pc = w.pc /\ new.cursor = w.cursor
          /\ WalkTyped(new)
        BY <1>2, <2>1 DEF WalkTyped
    <2>4. GoesOn(new) /\ NoneIsSkipped(new) /\ AllStay(new)
        BY <1>2, <2>3 DEF GoesOn, NoneIsSkipped, AllStay
    <2>. QED BY <1>2, <2>2, <2>3, <2>4, WalkGoesOn DEF Walks
<1>4. CASE Pa!Answer(s)
    <2>1. PICK found \in Pa!Selected(s) :
              walk' = [w EXCEPT
                  !.out = @ \ {s}, !.got = @ \cup found,
                  !.cut = @ \/ \E row \in listed \ found : row.source = s]
        BY <1>1, <1>4 DEF Pa!Answer
    <2>2. found \subseteq listed
        BY <2>1 DEF Pa!Selected
    <2>3. PICK short \in BOOLEAN : short <=> \E row \in listed \ found : row.source = s
        OBVIOUS
    <2>4. PICK new : new = [w EXCEPT !.out = w.out \ {s}, !.got = w.got \cup found,
                                     !.cut = w.cut \/ short]
        OBVIOUS
    <2>5. walk' = new
        BY <2>1, <2>3, <2>4
    <2>6. w.cut \in BOOLEAN /\ found \in SUBSET RowsOf(sources)
        BY <1>2, <2>2 DEF WalkTyped, PagesTold
    <2>7. /\ new.out = w.out \ {s} /\ new.got = w.got \cup found
          /\ new.shown = w.shown /\ new.always = w.always
          /\ new.pc = w.pc /\ new.cursor = w.cursor /\ new.failed = w.failed
        BY <1>2, <2>4 DEF WalkTyped
    <2>8. new.cut <=> w.cut \/ short
        BY <1>2, <2>4 DEF WalkTyped
    <2>9. WalkTyped(new)
        BY <1>2, <2>4, <2>6 DEF WalkTyped
    <2>10. IsFiniteSet(new.got)
        <3>1. IsFiniteSet(found)
            BY <2>2, FS_Subset DEF PagesTold
        <3>2. IsFiniteSet(w.got \cup found)
            BY <1>2, <3>1, FS_Union
        <3>. QED BY <2>7, <3>2
    <2>11. GoesOn(new)
        BY <1>2, <2>7 DEF GoesOn
    <2>12. NoneIsSkipped(new)
        <3>1. SUFFICES ASSUME ~new.failed, ~new.cut, NEW row \in w.always
                       PROVE  /\ \/ Pa!Crowded(row) \/ Shown(w.shown, row)
                                 \/ Ahead(w.cursor, row)
                              /\ row.source \in new.out \/ row \in new.got
            BY <1>2, <2>7 DEF NoneIsSkipped
        <3>2. ~w.failed /\ ~w.cut /\ ~short
            BY <2>7, <2>8, <3>1
        <3>3. /\ \/ Pa!Crowded(row) \/ Shown(w.shown, row)
                 \/ Ahead(w.cursor, row)
              /\ row.source \in w.out \/ row \in w.got
            BY <1>2, <3>1, <3>2 DEF NoneIsSkipped
        <3>4. row.source = s => row \in found
            BY <1>2, <2>3, <3>1, <3>2
        <3>. QED BY <2>7, <3>3, <3>4
    <2>13. AllStay(new)
        BY <1>2, <2>2, <2>7 DEF AllStay, Stays
    <2>. QED BY <1>2, <2>5, <2>7, <2>9, <2>10, <2>11, <2>12, <2>13, WalkGoesOn
         DEF Walks
<1>. QED BY <1>3, <1>4

\* The page: it goes on where the last one ended.
LEMMA ReplyTold ==
    ASSUME Pa!PagesAssumption, PagesTold, Pa!Reply PROVE PagesTold'
<1>1. PICK w : w = walk
    OBVIOUS
<1>2. /\ WalkTyped(w) /\ w.pc = "query" /\ w.out = {}
      /\ UNCHANGED <<listed, sources>> /\ sources \in Pa!Lists
      /\ IsFiniteSet(w.got) /\ OneList(w.shown) /\ AllStay(w)
      /\ GoesOn(w) /\ NoneIsSkipped(w)
      /\ w.always \subseteq listed
    BY <1>1 DEF PagesTold, Walks, Pa!Reply
<1>3. PICK after : after = Pa!AfterCursor(w.got, w.cursor)
    OBVIOUS
<1>4. PICK sorted : sorted = Pa!Sorted(after)
    OBVIOUS
<1>5. PICK page : page = SubSeq(sorted, 1, IF Limit < Len(sorted) THEN Limit
                                           ELSE Len(sorted))
    OBVIOUS
<1>6. PICK more \in BOOLEAN :
          more <=> Pa!Cardinality(after) > Len(page) /\ Len(page) > 0
    OBVIOUS
<1>7. PICK new : new = [w EXCEPT !.pc = IF more THEN "more" ELSE "done",
                                 !.cursor = IF more THEN Pa!Last(page) ELSE NULL,
                                 !.shown = w.shown \o page, !.got = {}]
    OBVIOUS
<1>8. walk' = new
    BY <1>1, <1>3, <1>4, <1>5, <1>6, <1>7 DEF Pa!Reply
<1>9. /\ after \in SUBSET RowsOf(sources) /\ IsFiniteSet(after)
      /\ \A row \in w.got : row \in after <=> Ahead(w.cursor, row)
      /\ after \subseteq w.got
    <2>1. after \subseteq w.got
        BY <1>3 DEF Pa!AfterCursor
    <2>2. w.got \in SUBSET RowsOf(sources)
        BY <1>2 DEF WalkTyped
    <2>3. \A row \in w.got : row \in after <=> Ahead(w.cursor, row)
        BY <1>3 DEF Pa!AfterCursor, Ahead
    <2>. QED BY <1>2, <2>1, <2>2, <2>3, FS_Subset
<1>10. /\ sorted \in Seq(after) /\ Len(sorted) = Cardinality(after)
       /\ InOrder(sorted)
       /\ \A row \in after : \E i \in 1..Len(sorted) : sorted[i] = row
    BY <1>2, <1>4, <1>9, SortedIsInOrder
<1>11. PICK n : n = IF Limit < Len(sorted) THEN Limit ELSE Len(sorted)
    OBVIOUS
<1>12. /\ n \in Nat /\ Len(sorted) \in Nat /\ n <= Len(sorted)
       /\ n = 0 => Len(sorted) = 0
       /\ Limit \in Nat
    BY <1>10, <1>11 DEF Pa!PagesAssumption
<1>13. /\ page \in Seq(after) /\ Len(page) = n
       /\ \A i \in 1..n : page[i] = sorted[i] /\ page[i] \in after
    <2>1. \A i \in 1..n : sorted[i] \in after
        BY <1>10, <1>12
    <2>2. /\ page \in Seq(after)
          /\ Len(page) = IF 1 <= n THEN n - 1 + 1 ELSE 0
          /\ \A i \in 1..(n - 1 + 1) : page[i] = sorted[1 + i - 1]
        BY <1>5, <1>11, <1>12, <2>1, SubSeqProperties
    <2>3. Len(page) = n
        BY <1>12, <2>2
    <2>4. \A i \in 1..n : page[i] = sorted[i]
        BY <1>12, <2>2
    <2>. QED BY <2>1, <2>2, <2>3, <2>4
<1>14. page \in Seq(RowsOf(sources)) /\ w.shown \in Seq(RowsOf(sources))
    BY <1>2, <1>9, <1>13, SeqMonotonic DEF WalkTyped
<1>15. PICK m : m = Len(w.shown)
    OBVIOUS
<1>16. m \in Nat
    BY <1>14, <1>15
<1>17. PICK shown : shown = w.shown \o page
    OBVIOUS
<1>18. /\ shown \in Seq(RowsOf(sources)) /\ Len(shown) = m + n
       /\ \A i \in 1..(m + n) :
              shown[i] = IF i <= m THEN w.shown[i] ELSE page[i - m]
    <2>1. PICK list : list = w.shown
        OBVIOUS
    <2>2. list \in Seq(RowsOf(sources)) /\ Len(list) = m
        BY <1>14, <1>15, <2>1
    <2>3. /\ list \o page \in Seq(RowsOf(sources))
          /\ Len(list \o page) = Len(list) + Len(page)
          /\ \A i \in 1..(Len(list) + Len(page)) :
                 (list \o page)[i] = IF i <= Len(list) THEN list[i]
                                     ELSE page[i - Len(list)]
        BY <1>14, <2>2, ConcatProperties
    <2>. QED BY <1>13, <1>17, <2>1, <2>2, <2>3
<1>19. more <=> n < Len(sorted)
    BY <1>6, <1>10, <1>12, <1>13, CountsAgree
<1>20. more => /\ n \in 1..n /\ Pa!Last(page) = page[n]
               /\ page[n] \in RowsOf(sources)
    BY <1>9, <1>12, <1>13, <1>19 DEF Pa!Last
<1>21. /\ new.pc = (IF more THEN "more" ELSE "done")
       /\ new.cursor = (IF more THEN page[n] ELSE NULL)
       /\ new.shown = shown /\ new.got = {} /\ new.always = w.always
       /\ new.failed = w.failed /\ new.cut = w.cut
    BY <1>2, <1>7, <1>17, <1>20 DEF WalkTyped
<1>22. WalkTyped(new)
    BY <1>2, <1>7, <1>17, <1>18, <1>20 DEF WalkTyped
<1>23. IsFiniteSet(new.got)
    BY <1>21, FS_EmptySet
<1>24. \A i \in 1..m, k \in 1..n : Follows(w.shown[i], page[k])
    <2>1. SUFFICES ASSUME NEW i \in 1..m, NEW k \in 1..n
                   PROVE  Follows(w.shown[i], page[k])
        OBVIOUS
    <2>2. /\ w.shown[i] \in RowsOf(sources) /\ w.shown[m] \in RowsOf(sources)
          /\ m \in 1..m
        BY <1>14, <1>15, <1>16
    <2>3. page[k] \in after /\ page[k] \in RowsOf(sources)
        BY <1>9, <1>13
    <2>4. w.shown # << >>
        BY <1>15, <1>16, <2>1
    <2>5. w.cursor = w.shown[m]
        BY <1>2, <1>15, <2>4 DEF GoesOn
    <2>6. w.cursor # NULL
        <3>1. NULL \notin [source : UNION Pa!Lists, rank : Ranks, id : Ids]
            BY DEF Pa!PagesAssumption
        <3>2. sources \subseteq UNION Pa!Lists
            BY <1>2
        <3>3. NULL \notin RowsOf(sources)
            BY <3>1, <3>2 DEF RowsOf
        <3>. QED BY <2>2, <2>5, <3>3
    <2>7. PICK a : a = w.shown[i]
        OBVIOUS
    <2>8. PICK b : b = page[k]
        OBVIOUS
    <2>9. PICK c : c = w.shown[m]
        OBVIOUS
    <2>10. /\ a \in RowsOf(sources) /\ b \in RowsOf(sources)
           /\ c \in RowsOf(sources) /\ Stays(b) /\ Stays(c)
        BY <1>2, <1>9, <1>15, <2>2, <2>3, <2>7, <2>8, <2>9 DEF AllStay
    <2>11. Pa!Before(Pa!Truncated(c), Pa!Truncated(b))
        BY <1>9, <2>3, <2>5, <2>6, <2>8, <2>9 DEF Ahead
    <2>12. c # b /\ (Pa!Before(c, b) \/ Pa!SameMilli(c, b))
        BY <1>2, <2>10, <2>11, CursorKnowsMillis
    <2>13. a = c \/ Follows(a, c)
        BY <1>2, <1>15, <1>16, <2>1, <2>2, <2>7, <2>9 DEF OneList
    <2>14. ASSUME NEW r \in RowsOf(sources), NEW s \in RowsOf(sources),
                  Pa!SameMilli(r, s), r # s, Stays(s)
           PROVE  Pa!Crowded(r)
        BY <2>14 DEF Pa!Crowded, Stays, Pa!SameMilli
    <2>15. CASE a = c
        BY <2>7, <2>8, <2>10, <2>12, <2>14, <2>15 DEF Follows
    <2>16. CASE Pa!Before(a, c) /\ Pa!Before(c, b)
        BY <1>2, <2>7, <2>8, <2>10, <2>16, BeforeIsAnOrder DEF Follows
    <2>17. CASE Pa!Before(a, c) /\ Pa!SameMilli(c, b)
        <3>1. Pa!Before(a, b) \/ (Pa!SameMilli(a, b) /\ Pa!SameMilli(a, c))
            BY <1>2, <2>10, <2>17, MillisAreTogether
        <3>2. a # c
            BY <1>2, <2>10, <2>17, BeforeIsAnOrder
        <3>. QED BY <2>7, <2>8, <2>10, <2>14, <3>1, <3>2 DEF Follows
    <2>18. CASE Pa!SameMilli(a, c) /\ Pa!Crowded(a)
        <3>1. Pa!Before(a, b) \/ Pa!SameMilli(a, b)
            BY <1>2, <2>10, <2>12, <2>18, MillisAreTogether
        <3>. QED BY <2>7, <2>8, <2>18, <3>1 DEF Follows
    <2>. QED BY <2>12, <2>13, <2>15, <2>16, <2>17, <2>18 DEF Follows
<1>25. OneList(shown)
    <2>1. SUFFICES ASSUME NEW i \in 1..(m + n), NEW j \in 1..(m + n), i < j
                   PROVE  Follows(shown[i], shown[j])
        BY <1>18 DEF OneList
    <2>2. CASE j <= m
        <3>1. i \in 1..m /\ j \in 1..m
            BY <1>12, <1>16, <2>1, <2>2
        <3>2. shown[i] = w.shown[i] /\ shown[j] = w.shown[j]
            BY <1>18, <2>1, <3>1
        <3>. QED BY <1>2, <1>15, <2>1, <3>1, <3>2 DEF OneList
    <2>3. CASE ~(j <= m) /\ i <= m
        <3>1. i \in 1..m /\ j - m \in 1..n
            BY <1>12, <1>16, <2>1, <2>3
        <3>2. shown[i] = w.shown[i] /\ shown[j] = page[j - m]
            BY <1>18, <2>1, <2>3
        <3>. QED BY <1>24, <3>1, <3>2
    <2>4. CASE ~(i <= m)
        <3>1. i - m \in 1..n /\ j - m \in 1..n /\ i - m < j - m
            BY <1>12, <1>16, <2>1, <2>4
        <3>2. ~(j <= m)
            BY <1>12, <1>16, <2>1, <2>4
        <3>3. shown[i] = page[i - m] /\ shown[j] = page[j - m]
            BY <1>18, <2>1, <2>4, <3>2
        <3>4. i - m \in 1..Len(sorted) /\ j - m \in 1..Len(sorted)
            BY <1>12, <3>1
        <3>5. Pa!Before(sorted[i - m], sorted[j - m])
            BY <1>10, <3>1, <3>4 DEF InOrder
        <3>. QED BY <1>13, <3>1, <3>3, <3>5 DEF Follows
    <2>. QED BY <2>2, <2>3, <2>4
<1>26. GoesOn(new)
    <2>1. SUFFICES ASSUME more
                   PROVE  shown # << >> /\ page[n] = shown[Len(shown)]
        BY <1>21 DEF GoesOn
    <2>2. n \in 1..n /\ m + n \in 1..(m + n) /\ ~(m + n <= m) /\ (m + n) - m = n
        BY <1>12, <1>16, <1>20, <2>1
    <2>3. shown[m + n] = page[n]
        BY <1>18, <2>2
    <2>. QED BY <1>18, <2>2, <2>3
<1>27. NoneIsSkipped(new)
    <2>1. SUFFICES ASSUME ~w.failed, ~w.cut, NEW row \in w.always,
                          ~Pa!Crowded(row)
                   PROVE  \/ Shown(shown, row)
                          \/ more /\ Ahead(page[n], row)
        BY <1>21 DEF NoneIsSkipped
    <2>2. /\ Shown(w.shown, row) \/ Ahead(w.cursor, row)
          /\ row \in w.got
        BY <1>2, <2>1 DEF NoneIsSkipped
    <2>3. CASE Shown(w.shown, row)
        <3>1. PICK i \in 1..m : w.shown[i] = row
            BY <1>15, <2>3 DEF Shown
        <3>2. i \in 1..(m + n) /\ i <= m
            BY <1>12, <1>16
        <3>3. shown[i] = row
            BY <1>18, <3>1, <3>2
        <3>. QED BY <1>18, <3>2, <3>3 DEF Shown
    <2>4. CASE Ahead(w.cursor, row)
        <3>1. PICK i \in 1..Len(sorted) : sorted[i] = row
            BY <1>9, <1>10, <2>2, <2>4
        <3>2. CASE i <= n
            <4>1. i \in 1..n
                BY <1>12, <3>1, <3>2
            <4>2. m + i \in 1..(m + n) /\ ~(m + i <= m) /\ (m + i) - m = i
                BY <1>12, <1>16, <4>1
            <4>3. shown[m + i] = page[i]
                BY <1>18, <4>2
            <4>4. shown[m + i] = row
                BY <1>13, <3>1, <4>1, <4>3
            <4>. QED BY <1>18, <4>2, <4>4 DEF Shown
        <3>3. CASE ~(i <= n)
            <4>1. n < i /\ n < Len(sorted)
                BY <1>12, <3>1, <3>3
            <4>2. more /\ n \in 1..n /\ n \in 1..Len(sorted)
                BY <1>12, <1>19, <1>20, <4>1
            <4>3. Pa!Before(sorted[n], sorted[i])
                BY <1>10, <3>1, <4>1, <4>2 DEF InOrder
            <4>4. PICK c : c = sorted[n]
                OBVIOUS
            <4>5. c \in after /\ c = page[n] /\ Pa!Before(c, row)
                BY <1>13, <3>1, <4>2, <4>3, <4>4
            <4>6. /\ c \in RowsOf(sources) /\ row \in RowsOf(sources)
                  /\ Stays(c)
                BY <1>2, <1>9, <2>2, <2>4, <4>5 DEF AllStay
            <4>7. c # row
                BY <1>2, <4>5, <4>6, BeforeIsAnOrder
            <4>8. ~Pa!SameMilli(c, row)
                BY <2>1, <4>6, <4>7 DEF Pa!Crowded, Pa!SameMilli, Stays
            <4>9. Pa!Before(Pa!Truncated(c), Pa!Truncated(row))
                BY <1>2, <4>5, <4>6, <4>8, CursorKnowsMillis
            <4>. QED BY <4>2, <4>5, <4>9 DEF Ahead
        <3>. QED BY <3>2, <3>3
    <2>. QED BY <2>2, <2>3, <2>4
<1>28. AllStay(new)
    <2>1. \A i \in 1..m : Stays(w.shown[i])
        BY <1>2, <1>15 DEF AllStay
    <2>2. \A k \in 1..n : Stays(page[k])
        BY <1>2, <1>9, <1>13 DEF AllStay
    <2>3. ASSUME NEW i \in 1..(m + n) PROVE Stays(shown[i])
        <3>1. CASE i <= m
            BY <1>12, <1>16, <1>18, <2>1, <3>1
        <3>2. CASE ~(i <= m)
            <4>1. i - m \in 1..n
                BY <1>12, <1>16, <3>2
            <4>. QED BY <1>18, <2>2, <3>2, <4>1
        <3>. QED BY <3>1, <3>2
    <2>. QED BY <1>18, <1>21, <2>3 DEF AllStay
<1>. QED BY <1>2, <1>8, <1>21, <1>22, <1>23, <1>25, <1>26, <1>27, <1>28,
            WalkGoesOn DEF Walks

\* Every step of a walk keeps the invariant.
LEMMA PagesToldNext ==
    ASSUME Pa!PagesAssumption, PagesTold, Pa!Next PROVE PagesTold'
<1>1. ASSUME NEW row \in Pa!Row, Pa!Appear(row) PROVE PagesTold'
    BY <1>1, RowsComeAndGo
<1>2. ASSUME NEW row \in listed, Pa!Vanish(row) PROVE PagesTold'
    BY <1>2, RowsComeAndGo
<1>3. ASSUME NEW s \in sources, Pa!Answer(s) \/ Pa!Fail(s) PROVE PagesTold'
    BY <1>3, AnswerTold
<1>. QED BY <1>1, <1>2, <1>3, RequestTold, ReplyTold DEF Pa!Next

(***************************************************************************)
(* The parts side by side.  Trust and files have proofs of their own, of    *)
(* which the modules below are instances; their specifications are those    *)
(* of the parts.  A step of one part leaves the others as they are, and the *)
(* calls that may overlap are those the invariants allow.                   *)
(***************************************************************************)
UpP == INSTANCE UploadsProofs WITH rows <- fileRows, calls <- fileCalls
TrP == INSTANCE TrustProofs WITH
           Drivers <- {d1},
           rows <- trustRows, documents <- trustDocuments, calls <- trustCalls

\* What is proved of files is proved of this part.
LEMMA FilesBegin == Up!Init => UpP!Init
BY DEF Up!Slots, Up!Idle, Up!Init, UpP!Slots, UpP!Idle, UpP!Init

\* ... and so is every step.
LEMMA FilesGo == Up!Next => UpP!Next
BY DEF Up!Slots, Up!Idle, Up!At, Up!Become, Up!Named, Up!Carried, Up!Fresh,
    Up!Upload, Up!TurnDown, Up!NotFound, Up!LoadPicture, Up!EditRead,
    Up!RemovePrevious, Up!Undo, Up!LoadDocument, Up!Insert, Up!RemoveFirst,
    Up!SaveReload, Up!AfterSave, Up!SaveWrite, Up!SaveFails, Up!Crash,
    Up!Next, Up!SavedRow, Up!DirtyColumns, UpP!Slots, UpP!Idle, UpP!At,
    UpP!Become, UpP!Named, UpP!Carried, UpP!Fresh, UpP!Upload, UpP!TurnDown,
    UpP!NotFound, UpP!LoadPicture, UpP!EditRead, UpP!RemovePrevious,
    UpP!Undo, UpP!LoadDocument, UpP!Insert, UpP!RemoveFirst, UpP!SaveReload,
    UpP!AfterSave, UpP!SaveWrite, UpP!SaveFails, UpP!Crash, UpP!Next,
    UpP!SavedRow, UpP!DirtyColumns

\* What is proved of trust is proved of this part.
LEMMA TrustBegins == Tr!Init => TrP!Init
BY DEF Tr!Sponsors, Tr!NewProfile, Tr!Idle, Tr!Init, TrP!Sponsors,
    TrP!NewProfile, TrP!Idle, TrP!Init

\* ... and so is every step.
LEMMA TrustGoes == Tr!Next => TrP!Next
BY DEF Tr!Sponsors, Tr!Idle, Tr!At, Tr!Become, Tr!Saving, Tr!Reopened,
    Tr!UpdateProfileRead, Tr!UploadRead, Tr!Store, Tr!SubmitRead,
    Tr!ReviewRead, Tr!Complete, Tr!Check, Tr!ChangeSponsorRead, Tr!Linked,
    Tr!FindReferred, Tr!Omitted, Tr!Link, Tr!AssignRead, Tr!SaveReload,
    Tr!SaveWrite, Tr!Rest, Tr!Conclude, Tr!FromDocuments, Tr!AskGuarantor,
    Tr!Grant, Tr!Owed, Tr!Die,
    Tr!RefreshRead, Tr!Vouches, Tr!ReadCompany, Tr!ReadGuarantor, Tr!Step,
    Tr!Next, Tr!SavedRow, Tr!DirtyColumns, TrP!Sponsors, TrP!Idle, TrP!At,
    TrP!Become, TrP!Saving, TrP!Reopened, TrP!UpdateProfileRead,
    TrP!UploadRead, TrP!Store, TrP!SubmitRead, TrP!ReviewRead, TrP!Complete,
    TrP!Check, TrP!ChangeSponsorRead, TrP!Linked, TrP!FindReferred,
    TrP!Omitted, TrP!Link, TrP!AssignRead, TrP!SaveReload, TrP!SaveWrite,
    TrP!Rest, TrP!Conclude, TrP!FromDocuments, TrP!AskGuarantor,
    TrP!Grant, TrP!Owed, TrP!Die,
    TrP!RefreshRead, TrP!Vouches, TrP!ReadCompany, TrP!ReadGuarantor,
    TrP!Step, TrP!Next, TrP!SavedRow, TrP!DirtyColumns

\* The constants are what the proofs assume.
LEMMA PartsAreAssumed ==
    /\ UpP!UploadsAssumption /\ TrP!TrustAssumption
    /\ Seed \in TrP!Caps /\ Amounts \subseteq Nat /\ NoCap \notin Nat
BY PartsAssumption, SeedAssumption, AmountsAssumption
DEF Caps, TrP!Caps, Levels, TrP!Levels,
    Up!UploadsAssumption, UpP!UploadsAssumption, Up!Slots, UpP!Slots,
    Tr!TrustAssumption, TrP!TrustAssumption, Tr!Sponsors, TrP!Sponsors

\* Files: what their proofs keep, with the calls that may overlap.
FilesKept ==
    /\ UpP!Kept
    /\ IF serial THEN UpP!Alone /\ UpP!Swept ELSE UpP!EditsAlone

\* At first no upload has begun, ...
LEMMA FilesKeptInit == ASSUME PartInit PROVE FilesKept
<1>1. UpP!Init
    BY FilesBegin DEF PartInit
<1>2. UpP!Kept /\ UpP!Swept
    BY <1>1, PartsAreAssumed, UpP!KeptInit, UpP!SweptInit
<1>3. \A c \in Calls : fileCalls[c].pc = "idle"
    BY <1>1 DEF UpP!Init, UpP!Idle
<1>4. UpP!Alone /\ UpP!EditsAlone
    BY <1>3 DEF UpP!Alone, UpP!EditsAlone, UpP!At
<1>. QED BY <1>2, <1>4 DEF FilesKept

\* ... and the steps of the part are those of uploads.
LEMMA FilesKeptNext == ASSUME FilesKept, [PartNext]_partVars PROVE FilesKept'
<1>1. CASE UNCHANGED <<serial, fileVars>>
    BY <1>1 DEF fileVars, FilesKept, UpP!Kept, UpP!Alone, UpP!Swept,
       UpP!EditsAlone, UpP!RowsApart, UpP!PictureExists, UpP!At, UpP!Excused
<1>2. CASE FilesMove
    <2>1. [UpP!Next]_UpP!vars /\ UNCHANGED serial
        BY <1>2, FilesGo DEF FilesMove
    <2>2. IF serial THEN UpP!Alone' ELSE UpP!EditsAlone'
        BY <1>2 DEF FilesMove, Alone, UpP!Alone, Up!EditsAlone, UpP!EditsAlone,
           Up!At, UpP!At
    <2>3. UpP!EditsAlone
        BY PartsAreAssumed, UpP!AloneEdits DEF FilesKept
    <2>4. UpP!Kept'
        BY <2>1, <2>3, PartsAreAssumed, UpP!KeptNext DEF FilesKept
    <2>5. serial => UpP!Swept'
        BY <2>1, <2>2, PartsAreAssumed, UpP!SweptNext DEF FilesKept
    <2>. QED BY <2>1, <2>2, <2>4, <2>5 DEF FilesKept
<1>. QED BY <1>1, <1>2 DEF PartNext, partVars, RentalsMove, CapsMove, TrustMoves,
            RatingsMove, AccountsMove, PagesMove

\* Trust: the same.
TrustKept == TrP!Kept /\ (serial => TrP!Alone /\ TrP!Derived)

\* At first there are no requests, ...
LEMMA TrustKeptInit == ASSUME PartInit PROVE TrustKept
<1>1. TrP!Init
    BY TrustBegins DEF PartInit
<1>2. TrP!Kept /\ TrP!Derived
    BY <1>1, PartsAreAssumed, TrP!KeptInit, TrP!DerivedInit
<1>3. \A c \in Calls : trustCalls[c].pc = "idle"
    BY <1>1 DEF TrP!Init, TrP!Idle
<1>4. TrP!Alone
    BY <1>3 DEF TrP!Alone
<1>. QED BY <1>2, <1>4 DEF TrustKept

\* ... and the steps of the part are those of trust.
LEMMA TrustKeptNext == ASSUME TrustKept, [PartNext]_partVars PROVE TrustKept'
<1>1. CASE UNCHANGED <<serial, trustVars>>
    BY <1>1 DEF trustVars, TrustKept, TrP!Kept, TrP!Alone, TrP!Derived,
       TrP!RowsTyped, TrP!ApprovedHasDocuments
<1>2. CASE TrustMoves
    <2>1. [TrP!Next]_TrP!vars /\ UNCHANGED serial /\ (serial => TrP!Alone')
        BY <1>2, TrustGoes DEF TrustMoves, Alone, TrP!Alone
    <2>2. TrP!Kept'
        BY <2>1, PartsAreAssumed, TrP!KeptNext DEF TrustKept
    <2>3. serial => TrP!Derived'
        BY <2>1, PartsAreAssumed, TrP!DerivedNext DEF TrustKept
    <2>. QED BY <2>1, <2>2, <2>3 DEF TrustKept
<1>. QED BY <1>1, <1>2 DEF PartNext, partVars, RentalsMove, CapsMove, FilesMove,
            RatingsMove, AccountsMove, PagesMove

\* Averages: the same.
RatingsKept == MeanKept /\ Ra!EditsAlone /\ RatingsTold

\* At first there are no reviews, ...
LEMMA RatingsKeptInit == ASSUME PartInit PROVE RatingsKept
<1>1. MeanKept /\ \A c \in Calls : ratingCalls[c] = Ra!Idle
    BY MeanKeptInit DEF PartInit, Ra!Init
<1>2. RatingsTold
    BY RatingsToldInit DEF PartInit
<1>. QED BY <1>1, <1>2 DEF RatingsKept, Ra!EditsAlone, Ra!At, Ra!Idle

\* ... and the steps of the part are those of ratings.
LEMMA RatingsKeptNext ==
    ASSUME RatingsKept, [PartNext]_partVars PROVE RatingsKept'
<1>1. CASE UNCHANGED ratingVars
    BY <1>1 DEF ratingVars, RatingsKept, MeanKept, Ra!EditsAlone, Ra!At,
       RatingsTold
<1>2. CASE RatingsMove
    BY <1>2, MeanKeptNext, RatingsToldNext, PartsAssumption
       DEF RatingsMove, RatingsKept
<1>. QED BY <1>1, <1>2 DEF PartNext, partVars, RentalsMove, CapsMove, FilesMove,
            TrustMoves, AccountsMove, PagesMove

\* Signing in, as a part: the calls that may overlap are all there are, or one.
AccountsKept == Told /\ Counted(AtOnce)

\* The number of calls that may overlap, and ...
LEMMA AtOnceIsANumber == AtOnce \in Nat
BY CallsAssumption, FS_CardinalityType DEF AtOnce

\* ... no step leaves more of them in flight.
LEMMA NoMoreAtOnce ==
    ASSUME serial => Alone(accountCalls)', UNCHANGED serial
    PROVE  InFlight' <= AtOnce
<1>1. PICK S : S = {c \in Calls : accountCalls'[c].pc # "idle"}
    OBVIOUS
<1>2. /\ IsFiniteSet(S) /\ Cardinality(S) \in Nat
      /\ Cardinality(S) <= Cardinality(Calls)
    BY <1>1, CallsAssumption, FS_Subset, FS_CardinalityType
<1>3. CASE ~serial
    BY <1>1, <1>2, <1>3 DEF InFlight, AtOnce
<1>4. CASE serial
    <2>1. \A b, c \in S : b = c
        BY <1>1, <1>4 DEF Alone
    <2>2. CASE S = {}
        <3>1. Cardinality(S) = 0
            BY <2>2, FS_EmptySet
        <3>. QED BY <1>1, <1>4, <3>1 DEF InFlight, AtOnce
    <2>3. CASE S # {}
        <3>1. PICK c \in S : S = {c}
            BY <2>1, <2>3
        <3>2. Cardinality(S) = 1
            BY <3>1, FS_Singleton
        <3>. QED BY <1>1, <1>4, <3>2 DEF InFlight, AtOnce
    <2>. QED BY <2>2, <2>3
<1>. QED BY <1>3, <1>4

\* The part begins with nothing told, ...
LEMMA AccountsKeptInit == ASSUME PartInit PROVE AccountsKept
BY ToldInit, CountedInit, AtOnceIsANumber, PartsAssumption, CallsAssumption
DEF PartInit, AccountsKept

\* ... and its steps are those of signing in.
LEMMA AccountsKeptNext ==
    ASSUME AccountsKept, [PartNext]_partVars PROVE AccountsKept'
<1>1. CASE UNCHANGED <<serial, accountVars>>
    <2>1. Told'
        BY <1>1 DEF accountVars, AccountsKept, Told, AccountsTyped, IsAbout, WasSet,
           RequestsApart, HistoryFits
    <2>2. AtOnce' = AtOnce /\ \A pcs, x : HowMany(pcs, x)' = HowMany(pcs, x)
        BY <1>1 DEF accountVars, HowMany, AtOnce
    <2>3. Counted(AtOnce)'
        BY <1>1, <2>2 DEF accountVars, AccountsKept, Counted, CodesServeOnce,
           TokensServeOnce, TriesAreCounted, TriesAreFew
    <2>. QED BY <1>1, <2>1, <2>3 DEF accountVars, AccountsKept
<1>2. CASE AccountsMove
    <2>1. PICK n : n = AtOnce
        OBVIOUS
    <2>2. /\ Ac!Next /\ UNCHANGED serial
          /\ (serial => Alone(accountCalls)')
        BY <1>2 DEF AccountsMove
    <2>3. n \in Nat /\ InFlight' <= n
        BY <2>1, <2>2, AtOnceIsANumber, NoMoreAtOnce
    <2>4. Told'
        BY <2>2, PartsAssumption, ToldNext DEF AccountsKept
    <2>5. Counted(n)'
        BY <2>1, <2>2, <2>3, <2>4, PartsAssumption, CallsAssumption, CountedNext
        DEF AccountsKept
    <2>6. AtOnce' = n
        BY <2>1, <2>2 DEF AtOnce
    <2>7. Counted(AtOnce)'
        BY <2>5, <2>6 DEF Counted, CodesServeOnce, TokensServeOnce, TriesAreFew
    <2>. QED BY <2>4, <2>7 DEF AccountsKept
<1>. QED BY <1>1, <1>2 DEF PartNext, partVars, RentalsMove, CapsMove, FilesMove,
            TrustMoves, RatingsMove, PagesMove

\* Pages: the steps of the part are those of a walk.
LEMMA PagesToldInParts ==
    ASSUME PagesTold, [PartNext]_partVars PROVE PagesTold'
<1>1. CASE UNCHANGED pageVars
    <2>1. UNCHANGED <<listed, sources, walk>>
        BY <1>1 DEF pageVars
    <2>2. Walks(walk) /\ walk.always \subseteq listed
        BY DEF PagesTold
    <2>. QED BY <2>1, <2>2, WalkGoesOn
<1>2. CASE PagesMove
    BY <1>2, PagesToldNext, PartsAssumption DEF PagesMove
<1>. QED BY <1>1, <1>2 DEF PartNext, partVars, RentalsMove, CapsMove, FilesMove,
            TrustMoves, RatingsMove, AccountsMove

(***************************************************************************)
(* The theorems.                                                            *)
(***************************************************************************)

\* If nobody edits a row that another call works on: wherever the process dies
\* and whichever save fails, the picture a row names is on the disk, unless an
\* edit named it or let go of it by hand, whether uploads overlap or follow one
\* another (saveLogo(), saveCategoryImage(), saveProductImage()).
THEOREM PicturesExist == PartSpec => []PictureExists
<1>1. FilesKept => PictureExists
    BY DEF FilesKept, UpP!Kept, PictureExists, Up!PictureExists,
       UpP!PictureExists
<1>. QED BY <1>1, FilesKeptInit, FilesKeptNext, PTL DEF PartSpec

\* If uploads follow one another, none leaves a file behind or loses one, but
\* for those to blame and those of edits by hand (saveLogo() and the others,
\* saveDocument()).
THEOREM NothingIsLost == PartSpec => []NoFileIsLost
<1>1. FilesKept => NoFileIsLost
    <2>. SUFFICES ASSUME FilesKept, serial PROVE Up!NoFileIsLost
        BY DEF NoFileIsLost
    <2>1. UpP!NoFileIsLost
        BY PartsAreAssumed, UpP!SweptIsClean DEF FilesKept
    <2>. QED BY <2>1 DEF Up!NoFileIsLost, UpP!NoFileIsLost, Up!At, UpP!At,
                Up!Named, UpP!Named, Up!Slots, UpP!Slots, Up!Excused, UpP!Excused
<1>. QED BY <1>1, FilesKeptInit, FilesKeptNext, PTL DEF PartSpec

\* Nobody is approved without the documents (assertComplete() in submit() and
\* review()).
THEOREM ApprovalsHaveDocuments == PartSpec => []ApprovedHasDocuments
<1>1. TrustKept => ApprovedHasDocuments
    BY DEF TrustKept, TrP!Kept, ApprovedHasDocuments, Tr!ApprovedHasDocuments,
       TrP!ApprovedHasDocuments
<1>. QED BY <1>1, TrustKeptInit, TrustKeptNext, PTL DEF PartSpec

\* If requests and listeners follow one another, a driver's level is that of
\* the present documents and sponsors (refreshTrustLevel()), unless the call
\* that was to refresh it failed.
THEOREM LevelsAreDerived == PartSpec => []LevelIsDerived
<1>1. TrustKept => LevelIsDerived
    <2>. SUFFICES ASSUME TrustKept, serial PROVE Tr!LevelIsDerived
        BY DEF LevelIsDerived
    <2>1. TrP!LevelIsDerived
        BY PartsAreAssumed, TrP!DerivedIsWorth DEF TrustKept
    <2>. QED BY <2>1 DEF Tr!LevelIsDerived, TrP!LevelIsDerived, Tr!Quiet,
                TrP!Quiet, Tr!At, TrP!At, Tr!Worth, TrP!Worth, Tr!Vouches,
                TrP!Vouches, Tr!FromDocuments, TrP!FromDocuments
<1>. QED BY <1>1, TrustKeptInit, TrustKeptNext, PTL DEF PartSpec

\* If requests follow one another, an approval stays (submit(),
\* reopenRejected()).
THEOREM ApprovalsAreForGood == PartSpec => ApprovalStays
<1>1. TrustKept /\ [PartNext]_partVars =>
          [serial => \A d \in {d1} : Tr!ApprovalStays(d)]_<<serial, trustVars>>
    <2>. SUFFICES ASSUME TrustKept, [PartNext]_partVars, serial, NEW d \in {d1}
                  PROVE  Tr!ApprovalStays(d) \/ UNCHANGED <<serial, trustVars>>
        OBVIOUS
    <2>1. CASE UNCHANGED <<serial, trustVars>>
        BY <2>1
    <2>2. CASE TrustMoves
        <3>1. TrP!Kept /\ TrP!Derived /\ [TrP!Next]_TrP!vars
            BY <2>2, TrustGoes DEF TrustMoves, TrustKept
        <3>2. TrP!ApprovalStays(d)
            BY <3>1, PartsAreAssumed, TrP!ApprovalsStay
        <3>. QED BY <3>2 DEF Tr!ApprovalStays, TrP!ApprovalStays
    <2>. QED BY <2>1, <2>2 DEF PartNext, partVars, RentalsMove, CapsMove,
                FilesMove, RatingsMove, AccountsMove, PagesMove
<1>. QED BY <1>1, TrustKeptInit, TrustKeptNext, PTL DEF PartSpec, ApprovalStays

\* Wherever the process dies and however reviews overlap, if the merchant's
\* edits overlap no other call, a merchant's count and average are those of
\* its reviews (createReview()).
THEOREM MeansAgree == PartSpec => []MerchantMeanAgrees
<1>1. RatingsKept => MerchantMeanAgrees
    BY DEF RatingsKept, MeanKept, Agrees, MerchantMeanAgrees,
       Ra!MerchantMeanAgrees
<1>. QED BY <1>1, RatingsKeptInit, RatingsKeptNext, PTL DEF PartSpec

\* Whatever ratings overlap and wherever the process died before: a client's
\* rating leaves the average that of all ratings the driver has got, as a driver
\* or as a client, unless another one was inserted before its update
\* (recomputeDriverAverage()).
THEOREM AveragesHeal == PartSpec => RatingHeals
<1>1. RatingsKept /\ [PartNext]_partVars =>
          [\A c \in Calls :
              Ra!WriteAverage(c) /\ ratingCalls[c].since = Ra!Rated(ratings, Ra!Trips)
                  => average' = Ra!MeanOf(ratings', Ra!Trips)]_Ra!vars
    BY AverageIsOfAll DEF RatingsKept
<1>. QED BY <1>1, RatingsKeptInit, RatingsKeptNext, PTL
         DEF PartSpec, RatingHeals, Ra!RatingHeals

\* Whatever expires and whoever dies, and whatever becomes of older codes, a
\* code is accepted as often as requests may overlap, and locked after
\* MaxAttempts wrong tries but for those under way or dead (requestOtp(),
\* verifyOtp()).
THEOREM CodesAreGuarded == PartSpec => []CodeIsGuarded
<1>1. AccountsKept => CodeIsGuarded
    <2>. SUFFICES ASSUME AccountsKept, NEW k \in Codes
                  PROVE  /\ tally.accepted[k] <= AtOnce
                         /\ tally.wrong[k]
                                <= MaxAttempts + (AtOnce - 1) + tally.deaths
        BY DEF CodeIsGuarded, Ac!CodeIsGuarded
    <2>1. tally.wrong[k] <= MaxAttempts + (AtOnce - 1) + tally.deaths
        BY DEF AccountsKept, Counted, TriesAreFew
    <2>2. /\ tally.accepted[k] \in Nat
          /\ tally.accepted[k] + HowMany(Accepting, k) <= AtOnce
        BY DEF AccountsKept, Counted, CodesServeOnce, Told, AccountsTyped
    <2>3. HowMany(Accepting, k) \in Nat
        BY CallsAssumption, FS_Subset, FS_CardinalityType DEF HowMany
    <2>. QED BY <2>1, <2>2, <2>3, AtOnceIsANumber
<1>. QED BY <1>1, AccountsKeptInit, AccountsKeptNext, PTL DEF PartSpec

\* Each time it is issued, a refresh token buys as many pairs as requests may
\* overlap: one, if they follow one another; tokens of one second are equal
\* (refresh(), issueTokens()).
THEOREM TokensAreUsedOnce == PartSpec => []TokenIsUsedOnce
<1>1. AccountsKept => TokenIsUsedOnce
    <2>. SUFFICES ASSUME AccountsKept, NEW t \in Tokens
                  PROVE  tally.used[t] <= AtOnce
        BY DEF TokenIsUsedOnce, Ac!TokenIsUsedOnce
    <2>1. /\ tally.used[t] \in Nat
          /\ tally.used[t] + HowMany(Issuing, t) <= AtOnce
        BY DEF AccountsKept, Counted, TokensServeOnce, Told, AccountsTyped
    <2>2. HowMany(Issuing, t) \in Nat
        BY CallsAssumption, FS_Subset, FS_CardinalityType DEF HowMany
    <2>. QED BY <2>1, <2>2, AtOnceIsANumber
<1>. QED BY <1>1, AccountsKeptInit, AccountsKeptNext, PTL DEF PartSpec

\* Whatever rows come and go and whichever queries fail, the pages together are
\* one list in order, so no row is shown twice, but for reviews of one
\* millisecond (feed(), activity(), listReviews()).
THEOREM PagesAreOneList == PartSpec => []PagesInOrder
<1>1. PartInit => PagesTold
    BY PagesToldInit DEF PartInit
<1>2. PagesTold => PagesInOrder
    <2>1. SUFFICES ASSUME PagesTold PROVE PagesInOrder
        OBVIOUS
    <2>2. DOMAIN walk.shown = 1..Len(walk.shown)
        BY <2>1 DEF PagesTold, Walks, WalkTyped
    <2>. QED BY <2>1, <2>2 DEF PagesTold, Walks, OneList, Follows, PagesInOrder,
                Pa!PagesInOrder
<1>. QED BY <1>1, <1>2, PagesToldInParts, PTL DEF PartSpec

\* A row that was there all the time is in a page when they end, if no query
\* failed and none left rows out, and it is not one of several reviews of a
\* millisecond (activity(), listReviews()).
THEOREM RowsAreShown == PartSpec => []NoRowIsSkipped
<1>1. PartInit => PagesTold
    BY PagesToldInit DEF PartInit
<1>2. PagesTold => NoRowIsSkipped
    <2>1. SUFFICES ASSUME PagesTold, walk.pc = "done", ~walk.failed, ~walk.cut,
                          NEW row \in walk.always, ~Pa!Crowded(row)
                   PROVE  row \in Pa!ToSet(walk.shown)
        BY DEF NoRowIsSkipped, Pa!NoRowIsSkipped
    <2>2. Shown(walk.shown, row)
        BY <2>1 DEF PagesTold, Walks, NoneIsSkipped
    <2>3. DOMAIN walk.shown = 1..Len(walk.shown)
        BY <2>1 DEF PagesTold, Walks, WalkTyped
    <2>. QED BY <2>2, <2>3 DEF Shown, Pa!ToSet
<1>. QED BY <1>1, <1>2, PagesToldInParts, PTL DEF PartSpec

=============================================================================
