----------------------------- MODULE TrustProofs ------------------------------
(***************************************************************************)
(* Proofs about trust.  The level that a parcel requires grows with its     *)
(* value, for every set of amounts and every history of edits of the caps;  *)
(* and no driver is approved without the documents, for any number of       *)
(* drivers, sponsors and overlapping requests, stale saves included.        *)
(*                                                                         *)
(* If requests and listeners follow one another, an approval stays and a    *)
(* level is that of the present documents and sponsors, as soon as the      *)
(* listeners are through: a call carries what the driver's row holds and    *)
(* what it has read of the sponsors, and knows which drivers are waiting.   *)
(***************************************************************************)
EXTENDS TrustProps, TrustCaps, TLAPS

\* The levels that cover an amount under the caps of the moment, as
\* getRequiredTrustLevel() collects them one after the other.
Fits(amount) == {l \in Levels : Covers(caps[l], amount)}

\* The caps table holds, for each level, an amount or no cap (updateConfig()).
CapsTyped == caps \in Caps

\* The first level of a set of levels is one of them and none comes before it
\* (the search of getRequiredTrustLevel() stops at the first that covers).
LEMMA FirstLevel ==
    ASSUME NEW S \in SUBSET Levels, S # {}
    PROVE  /\ Min(S) \in S
           /\ \A l \in S : Min(S) <= l
<1>1. PICK least \in S : \A l \in S : least <= l
    <2>1. CASE 1 \in S
        BY <2>1 DEF Levels
    <2>2. CASE 1 \notin S /\ 2 \in S
        BY <2>2 DEF Levels
    <2>3. CASE 1 \notin S /\ 2 \notin S
        <3>1. \A l \in S : l = 3
            BY <2>3 DEF Levels
        <3>2. PICK l \in S : TRUE
            OBVIOUS
        <3>. QED BY <3>1, <3>2
    <2>. QED BY <2>1, <2>2, <2>3
<1>. QED BY <1>1 DEF Min

\* getRequiredTrustLevel() always answers with one of the three levels.
LEMMA RequiredIsLevel ==
    ASSUME NEW amount
    PROVE  RequiredLevel(amount) \in Levels
<1>. DEFINE fits == Fits(amount)
<1>1. CASE fits = {}
    BY <1>1 DEF RequiredLevel, Fits, Levels
<1>2. CASE fits # {}
    <2>1. fits \in SUBSET Levels
        BY DEF Fits
    <2>2. Min(fits) \in Levels
        BY <1>2, <2>1, FirstLevel
    <2>3. RequiredLevel(amount) = Min(fits)
        BY <1>2 DEF RequiredLevel, Fits
    <2>. QED BY <2>2, <2>3
<1>. QED BY <1>1, <1>2

\* A level that covers an amount covers every smaller one.
LEMMA CoversLess ==
    ASSUME CapsTyped,
           NEW a \in Amounts, NEW b \in Amounts, a <= b,
           NEW l \in Levels, Covers(caps[l], b)
    PROVE  Covers(caps[l], a)
<1>1. caps[l] \in Amounts \cup {NoCap}
    BY DEF CapsTyped, Caps
<1>2. CASE caps[l] = NoCap
    BY <1>2 DEF Covers
<1>3. CASE caps[l] # NoCap
    <2>1. caps[l] \in Nat /\ a \in Nat /\ b \in Nat
        BY <1>1, <1>3, AmountsAssumption
    <2>2. b <= caps[l]
        BY <1>3 DEF Covers
    <2>. QED BY <2>1, <2>2 DEF Covers
<1>. QED BY <1>2, <1>3

\* In any state of the table, the required level grows with the value.
LEMMA TypedGrows ==
    ASSUME CapsTyped
    PROVE  RequiredLevelGrows
<1>. SUFFICES ASSUME NEW a \in Amounts, NEW b \in Amounts, a <= b
              PROVE  RequiredLevel(a) <= RequiredLevel(b)
    BY DEF RequiredLevelGrows
<1>1. Fits(b) \subseteq Fits(a)
    BY CoversLess DEF Fits
<1>2. CASE Fits(b) = {}
    <2>1. RequiredLevel(b) = 3
        BY <1>2 DEF RequiredLevel, Fits
    <2>2. RequiredLevel(a) \in Levels
        BY RequiredIsLevel
    <2>. QED BY <2>1, <2>2 DEF Levels
<1>3. CASE Fits(b) # {}
    <2>1. Fits(a) \in SUBSET Levels /\ Fits(b) \in SUBSET Levels /\ Fits(a) # {}
        BY <1>1, <1>3 DEF Fits
    <2>2. Min(Fits(b)) \in Fits(a)
        BY <1>1, <1>3, <2>1, FirstLevel
    <2>3. Min(Fits(a)) <= Min(Fits(b))
        BY <2>1, <2>2, FirstLevel
    <2>4. RequiredLevel(a) = Min(Fits(a)) /\ RequiredLevel(b) = Min(Fits(b))
        BY <1>3, <2>1 DEF RequiredLevel, Fits
    <2>. QED BY <2>3, <2>4
<1>. QED BY <1>2, <1>3

\* The table keeps its type under every edit of an administrator.
LEMMA CapsStayTyped == CapsSpec => []CapsTyped
<1>1. CapsInit => CapsTyped
    BY SeedAssumption DEF CapsInit, CapsTyped
<1>2. CapsTyped /\ [CapsNext]_caps => CapsTyped'
    <2>. SUFFICES ASSUME CapsTyped, [CapsNext]_caps PROVE CapsTyped'
        OBVIOUS
    <2>1. CASE CapsNext
        BY <2>1 DEF CapsNext, UpdateConfig, CapsTyped, Caps
    <2>2. CASE UNCHANGED caps
        BY <2>2 DEF CapsTyped
    <2>. QED BY <2>1, <2>2
<1>. QED BY <1>1, <1>2, PTL DEF CapsSpec

\* Whatever caps an administrator enters, in whatever order, a parcel of more
\* value never asks for less trust (getRequiredTrustLevel(), updateConfig()).
THEOREM TrustGrowsWithValue == CapsSpec => []RequiredLevelGrows
<1>1. CapsTyped => RequiredLevelGrows
    BY TypedGrows
<1>. QED BY <1>1, CapsStayTyped, PTL

(***************************************************************************)
(* Approvals.  An entity that a handler holds may be stale, but what it     *)
(* says about the review was read from the row or decided on the            *)
(* documents, and documents are never taken away.  So whatever is saved,    *)
(* and by whom, an approval has its documents.                              *)
(***************************************************************************)

Pcs == {"idle", "check", "store", "referred", "refresh", "company",
        "guarantor", "reload", "write", "grant"}

Columns == {"kyc", "filled", "guarantor", "company", "level", "verified",
            "active"}

\* What a call may hold, wherever it is.
Call == [pc : Pcs, id : Drivers \cup Sponsors \cup {NULL},
         copy : Profile \cup Sponsor \cup {NULL},
         dirty : SUBSET Columns, undefined : SUBSET Columns,
         then : {"idle", "store", "referred", "grant", "refresh"},
         todo : SUBSET Drivers,
         goal : Required \cup {NULL, "submitted", "approved", "level"}]

\* The profile is not an approval, or the driver has the documents.
Backed(docs, d, profile) ==
    profile.kyc = "approved" => Required \subseteq docs[d]

\* The entity is a driver's profile whose approval, if any, is backed by the
\* documents, or a sponsor.
Holds(docs, id, copy) ==
    \/ id \in Drivers /\ copy \in Profile /\ Backed(docs, id, copy)
    \/ id \in Sponsors /\ copy \in Sponsor

\* A call in any state the code brings it to.
Good(docs, call) ==
    /\ call \in Call
    /\ call.pc \in {"reload", "write"} => Holds(docs, call.id, call.copy)
    /\ call.pc \in {"check", "company", "guarantor"} =>
           call.id \in Drivers /\ Holds(docs, call.id, call.copy)
    /\ call.pc = "check" => call.goal \in {"submitted", "approved"}
    /\ "store" \in {call.pc, call.then} =>
           call.id \in Drivers /\ call.goal \in Required
    /\ call.pc \in {"grant", "refresh", "company", "guarantor"} =>
           call.then # "store"

\* The rows, as the tables have them.
RowsTyped ==
    /\ DOMAIN rows = Drivers \cup Sponsors
    /\ \A d \in Drivers : rows[d] \in Profile
    /\ \A s \in Sponsors : rows[s] \in Sponsor

\* The inductive invariant.
Kept ==
    /\ RowsTyped
    /\ DOMAIN documents = Drivers
    /\ DOMAIN calls = Calls
    /\ \A c \in Calls : Good(documents, calls[c])
    /\ ApprovedHasDocuments

\* A call that has ended is in order, whatever the documents are.
LEMMA IdleIsGood == ASSUME NEW docs PROVE Good(docs, Idle)
BY DEF Good, Idle, Call, Pcs

\* So is one that begins a save of an entity it may hold (save()).
LEMMA SavingIsGood ==
    ASSUME NEW docs, NEW id, NEW copy, Holds(docs, id, copy),
           NEW next \in {"idle", "referred", "grant", "refresh"}
    PROVE  Good(docs, Saving(id, copy, next))
<1>. DEFINE saving == Saving(id, copy, next)
<1>1. id \in Drivers \cup Sponsors /\ copy \in Profile \cup Sponsor
    BY DEF Holds
<1>2. /\ saving \in Call
      /\ saving.pc = "reload" /\ saving.then = next
      /\ saving.id = id /\ saving.copy = copy
    BY <1>1 DEF Saving, Idle, Call, Pcs
<1>. QED BY <1>2 DEF Good

\* The call that goes on with the next driver, or ends (refreshMany()).
LEMMA RestIsGood ==
    ASSUME NEW docs, NEW call \in Call
    PROVE  Good(docs, Rest(call)) /\ Rest(call).pc \in {"idle", "refresh"}
<1>1. CASE call.todo = {}
    BY <1>1, IdleIsGood DEF Rest, Idle
<1>2. CASE call.todo # {}
    <2>1. Rest(call) = [pc |-> "refresh", id |-> NULL, copy |-> NULL,
                        dirty |-> {}, undefined |-> {}, then |-> "idle",
                        todo |-> call.todo, goal |-> NULL]
        BY <1>2 DEF Rest, Idle
    <2>2. call.todo \subseteq Drivers
        BY DEF Call
    <2>. QED BY <2>1, <2>2 DEF Good, Call, Pcs
<1>. QED BY <1>1, <1>2

\* The call that knows the level saves it or goes on (refreshTrustLevel()).
LEMMA ConcludeIsGood ==
    ASSUME NEW docs, NEW call \in Call, NEW level \in 0..3,
           call.id \in Drivers, call.copy \in Profile,
           Backed(docs, call.id, call.copy)
    PROVE  Good(docs, Conclude(call, level))
<1>1. CASE call.copy.level = level
    BY <1>1, RestIsGood DEF Conclude
<1>2. CASE call.copy.level # level
    <2>. DEFINE copy == [call.copy EXCEPT !.level = level]
                next == Rest(call).pc
    <2>1. copy \in Profile /\ copy.kyc = call.copy.kyc
        BY DEF Profile
    <2>2. Holds(docs, call.id, copy)
        BY <2>1 DEF Holds, Backed
    <2>3. next \in {"idle", "refresh"}
        BY RestIsGood
    <2>4. Conclude(call, level) =
              [pc |-> "reload", id |-> call.id, copy |-> copy, dirty |-> {},
               undefined |-> {}, then |-> next, todo |-> call.todo,
               goal |-> "level"]
        BY <1>2 DEF Conclude, Saving, Idle
    <2>5. call.todo \subseteq Drivers
        BY DEF Call
    <2>. QED BY <2>1, <2>2, <2>3, <2>4, <2>5 DEF Good, Call, Pcs
<1>. QED BY <1>1, <1>2

\* The call asks the guarantor, or concludes without (computeTrustLevel()).
LEMMA AskIsGood ==
    ASSUME NEW docs, NEW call \in Call,
           call.id \in Drivers, call.copy \in Profile,
           Backed(docs, call.id, call.copy), call.then # "store"
    PROVE  Good(docs, AskGuarantor(call))
<1>1. CASE call.copy.guarantor # NULL
    <2>1. AskGuarantor(call) = [call EXCEPT !.pc = "guarantor"]
        BY <1>1 DEF AskGuarantor
    <2>. QED BY <2>1 DEF Good, Call, Pcs, Holds
<1>2. CASE call.copy.guarantor = NULL
    <2>1. FromDocuments(call.copy) \in 0..3
        BY DEF FromDocuments
    <2>. QED BY <1>2, <2>1, ConcludeIsGood DEF AskGuarantor
<1>. QED BY <1>1, <1>2

\* A step that only moves one call, to one in order, keeps the invariant.
LEMMA CallMoves ==
    ASSUME Kept, NEW c \in Calls, NEW call, Good(documents, call),
           Become(c, call), UNCHANGED <<rows, documents>>
    PROVE  Kept'
BY DEF Kept, RowsTyped, Become, ApprovedHasDocuments

\* What save() writes is a row of the table again, and its review is the old
\* row's or the entity's (SavedRow()).
LEMMA SavedProfile ==
    ASSUME NEW row \in Profile, NEW copy \in Profile, NEW dirty
    PROVE  /\ SavedRow(row, copy, dirty) \in Profile
           /\ SavedRow(row, copy, dirty).kyc \in {row.kyc, copy.kyc}
BY DEF SavedRow, Profile

\* What save() writes of a sponsor is a sponsor again.
LEMMA SavedSponsor ==
    ASSUME NEW row \in Sponsor, NEW copy \in Sponsor, NEW dirty
    PROVE  SavedRow(row, copy, dirty) \in Sponsor
BY DEF SavedRow, Sponsor

\* Every handler's next step keeps the invariant (Step()).
LEMMA StepKeeps ==
    ASSUME TrustAssumption, Kept, NEW c \in Calls, Step(c)
    PROVE  Kept'
<1>. DEFINE self == calls[c]
<1>1. Good(documents, self) /\ self \in Call
    BY DEF Kept, Good
<1>2. CASE Store(c)
    <2>1. self.id \in Drivers /\ documents' =
              [documents EXCEPT ![self.id] = @ \cup {self.goal}]
        BY <1>1, <1>2 DEF Store, At, Good
    <2>2. DOMAIN documents' = Drivers /\ \A d \in Drivers :
              documents[d] \subseteq documents'[d]
        BY <2>1 DEF Kept
    <2>3. \A b \in Calls : calls'[b] \in {calls[b], Idle}
        BY <1>2 DEF Store, Become, Kept
    <2>4. \A d \in Drivers : \A profile :
              Backed(documents, d, profile) => Backed(documents', d, profile)
        BY <2>2 DEF Backed
    <2>5. \A b \in Calls : Good(documents', calls[b])
        <3>. SUFFICES ASSUME NEW b \in Calls PROVE Good(documents', calls[b])
            OBVIOUS
        <3>1. Good(documents, calls[b])
            BY DEF Kept
        <3>. QED BY <2>4, <3>1 DEF Good, Holds
    <2>6. \A b \in Calls : Good(documents', calls'[b])
        BY <2>3, <2>5, IdleIsGood
    <2>7. ApprovedHasDocuments'
        BY <1>2, <2>2 DEF Store, Kept, ApprovedHasDocuments
    <2>8. RowsTyped' /\ DOMAIN calls' = Calls
        BY <1>2 DEF Store, Become, Kept, RowsTyped
    <2>. QED BY <2>2, <2>6, <2>7, <2>8 DEF Kept
<1>3. CASE Check(c)
    <2>. DEFINE copy == [self.copy EXCEPT !.kyc = self.goal]
    <2>1. self.id \in Drivers /\ Holds(documents, self.id, self.copy)
          /\ self.goal \in {"submitted", "approved"}
        BY <1>1, <1>3 DEF Check, At, Good
    <2>2. self.copy \in Profile
        BY <2>1 DEF Holds, TrustAssumption
    <2>3. copy \in Profile
        BY <2>1, <2>2 DEF Profile
    <2>4. CASE ~Complete(self.copy, documents[self.id])
        <3>1. Become(c, Idle)
            BY <1>3, <2>4 DEF Check
        <3>. QED BY <1>3, <3>1, IdleIsGood, CallMoves DEF Check
    <2>5. CASE Complete(self.copy, documents[self.id])
        <3>1. Holds(documents, self.id, copy)
            BY <2>1, <2>3, <2>5 DEF Holds, Backed, Complete
        <3>. HIDE DEF copy
        <3>2. Good(documents, Saving(self.id, copy, "idle"))
            BY <3>1, SavingIsGood
        <3>3. Good(documents, [Saving(self.id, copy, "grant")
                               EXCEPT !.todo = {self.id}])
            <4>. DEFINE saving == Saving(self.id, copy, "grant")
            <4>1. Good(documents, saving)
                BY <3>1, SavingIsGood
            <4>. HIDE DEF saving
            <4>2. Good(documents, [saving EXCEPT !.todo = {self.id}])
                BY <2>1, <4>1 DEF Good, Call
            <4>. QED BY <4>2 DEF saving
        <3>4. \/ Become(c, Saving(self.id, copy, "idle"))
              \/ Become(c, [Saving(self.id, copy, "grant")
                            EXCEPT !.todo = {self.id}])
            BY <1>3, <2>5 DEF Check, copy
        <3>. QED BY <1>3, <3>2, <3>3, <3>4, CallMoves DEF Check
    <2>. QED BY <2>4, <2>5
<1>4. CASE FindReferred(c)
    <2>. DEFINE drivers == Linked(self.id)
                next == [Idle EXCEPT !.pc = "refresh", !.todo = drivers]
    <2>1. drivers \subseteq Drivers
        BY DEF Linked
    <2>. HIDE DEF drivers
    <2>2. Good(documents, next)
        BY <2>1 DEF Good, Idle, Call, Pcs
    <2>3. Become(c, Idle) \/ Become(c, next)
        BY <1>4 DEF FindReferred, drivers
    <2>. HIDE DEF next
    <2>. QED BY <1>4, <2>2, <2>3, IdleIsGood, CallMoves DEF FindReferred
<1>5. CASE SaveReload(c)
    <2>. DEFINE dirty == DirtyColumns(self.copy, rows[self.id]) \ self.undefined
                next == [self EXCEPT !.pc = "write", !.dirty = dirty]
    <2>1. Holds(documents, self.id, self.copy) /\ self.pc = "reload"
        BY <1>1, <1>5 DEF SaveReload, At, Good
    <2>2. rows[self.id] \in Profile \/ rows[self.id] \in Sponsor
        BY <2>1 DEF Holds, Kept, RowsTyped
    <2>3. dirty \subseteq Columns
        BY <2>2 DEF DirtyColumns, Profile, Sponsor, Columns
    <2>. HIDE DEF dirty
    <2>4. Good(documents, next)
        BY <1>1, <2>1, <2>3 DEF Good, Call, Pcs
    <2>5. Become(c, next)
        BY <1>5 DEF SaveReload, dirty
    <2>. HIDE DEF next
    <2>. QED BY <1>5, <2>4, <2>5, CallMoves DEF SaveReload
<1>6. CASE SaveWrite(c)
    <2>. DEFINE new == SavedRow(rows[self.id], self.copy, self.dirty)
                next == IF self.then = "idle" THEN Idle
                        ELSE [Idle EXCEPT !.pc = self.then, !.todo = self.todo,
                                          !.goal = self.goal, !.id = self.id]
    <2>1. Holds(documents, self.id, self.copy) /\ self.id \in Drivers \cup Sponsors
        BY <1>1, <1>6 DEF SaveWrite, At, Good, Holds
    <2>2. Good(documents, next)
        BY <1>1, <2>1, IdleIsGood DEF Good, Idle, Call, Pcs
    <2>3. /\ Become(c, next)
          /\ rows' = [rows EXCEPT ![self.id] = new]
          /\ UNCHANGED documents
        BY <1>6 DEF SaveWrite
    <2>4. self.id \in Drivers =>
              /\ new \in Profile
              /\ new.kyc = "approved" => Required \subseteq documents[self.id]
        <3>. SUFFICES ASSUME self.id \in Drivers
                      PROVE  /\ new \in Profile
                             /\ new.kyc = "approved" =>
                                    Required \subseteq documents[self.id]
            OBVIOUS
        <3>1. self.copy \in Profile /\ Backed(documents, self.id, self.copy)
            BY <2>1 DEF Holds, TrustAssumption
        <3>2. rows[self.id] \in Profile
            BY DEF Kept, RowsTyped
        <3>3. new \in Profile /\ new.kyc \in {rows[self.id].kyc, self.copy.kyc}
            BY <3>1, <3>2, SavedProfile
        <3>. QED BY <3>1, <3>3 DEF Backed, Kept, ApprovedHasDocuments
    <2>5. self.id \in Sponsors => new \in Sponsor
        <3>. SUFFICES ASSUME self.id \in Sponsors PROVE new \in Sponsor
            OBVIOUS
        <3>1. self.copy \in Sponsor /\ rows[self.id] \in Sponsor
            BY <2>1 DEF Holds, TrustAssumption, Kept, RowsTyped
        <3>. QED BY <3>1, SavedSponsor
    <2>. HIDE DEF new, next
    <2>6. /\ DOMAIN rows' = Drivers \cup Sponsors
          /\ rows'[self.id] = new
          /\ \A x \in (Drivers \cup Sponsors) \ {self.id} : rows'[x] = rows[x]
        BY <2>1, <2>3 DEF Kept, RowsTyped
    <2>7. RowsTyped'
        BY <2>4, <2>5, <2>6 DEF Kept, RowsTyped
    <2>8. ApprovedHasDocuments'
        BY <2>3, <2>4, <2>6 DEF Kept, ApprovedHasDocuments
    <2>9. /\ DOMAIN calls' = Calls
          /\ \A b \in Calls : Good(documents', calls'[b])
        BY <2>2, <2>3 DEF Kept, Become
    <2>. QED BY <2>3, <2>7, <2>8, <2>9 DEF Kept
<1>7. ASSUME NEW d \in Drivers, RefreshRead(c, d) PROVE Kept'
    <2>. DEFINE next == [self EXCEPT !.pc = "company", !.id = d,
                                     !.copy = rows[d], !.todo = @ \ {d}]
    <2>1. rows[d] \in Profile /\ Backed(documents, d, rows[d])
        BY DEF Kept, RowsTyped, Backed, ApprovedHasDocuments
    <2>2. self.pc = "refresh" /\ self.then # "store"
        BY <1>1, <1>7 DEF RefreshRead, At, Good
    <2>3. /\ next \in Call /\ next.pc = "company" /\ next.id = d
          /\ next.copy = rows[d] /\ next.then # "store"
        BY <1>1, <2>1, <2>2 DEF Call, Pcs
    <2>4. Become(c, next) \/ Become(c, AskGuarantor(next))
        BY <1>7 DEF RefreshRead
    <2>. HIDE DEF next
    <2>5. Good(documents, next)
        BY <2>1, <2>3 DEF Good, Holds
    <2>6. Good(documents, AskGuarantor(next))
        BY <2>1, <2>3, AskIsGood
    <2>. QED BY <1>7, <2>4, <2>5, <2>6, CallMoves DEF RefreshRead
<1>8. CASE ReadCompany(c) \/ ReadGuarantor(c)
    <2>1. self.id \in Drivers /\ Holds(documents, self.id, self.copy)
        BY <1>1, <1>8 DEF ReadCompany, ReadGuarantor, At, Good
    <2>2. self.copy \in Profile /\ Backed(documents, self.id, self.copy)
        BY <2>1 DEF Holds, TrustAssumption
    <2>3. self.then # "store"
        BY <1>1, <1>8 DEF ReadCompany, ReadGuarantor, At, Good
    <2>4. Good(documents, AskGuarantor(self))
        BY <1>1, <2>1, <2>2, <2>3, AskIsGood
    <2>5. \A level \in 0..3 : Good(documents, Conclude(self, level))
        BY <1>1, <2>1, <2>2, ConcludeIsGood
    <2>6. FromDocuments(self.copy) \in 0..3
        BY DEF FromDocuments
    <2>7. \/ Become(c, AskGuarantor(self))
          \/ \E level \in 0..3 : Become(c, Conclude(self, level))
        BY <1>8, <2>6 DEF ReadCompany, ReadGuarantor
    <2>8. UNCHANGED <<rows, documents>>
        BY <1>8 DEF ReadCompany, ReadGuarantor
    <2>. QED BY <2>4, <2>5, <2>7, <2>8, CallMoves
<1>9. CASE Grant(c)
    <2>. DEFINE next == [self EXCEPT !.pc = "refresh"]
    <2>1. self.pc = "grant" /\ self.then # "store"
        BY <1>1, <1>9 DEF Grant, At, Good
    <2>2. Good(documents, next)
        BY <1>1, <2>1 DEF Good, Call, Pcs
    <2>3. Become(c, next) /\ UNCHANGED <<rows, documents>>
        BY <1>9 DEF Grant
    <2>. HIDE DEF next
    <2>. QED BY <2>2, <2>3, CallMoves
<1>. QED BY <1>2, <1>3, <1>4, <1>5, <1>6, <1>7, <1>8, <1>9 DEF Step

\* A call about a driver's file begins with what it read (updateProfile(),
\* saveDocument(), submit(), review(), assign()).
LEMMA DriverCallKeeps ==
    ASSUME TrustAssumption, Kept, NEW c \in Calls, NEW d \in Drivers,
           \/ \E filled \in BOOLEAN : UpdateProfileRead(c, d, filled)
           \/ \E doc \in Required : UploadRead(c, d, doc)
           \/ SubmitRead(c, d)
           \/ \E approve \in BOOLEAN : ReviewRead(c, d, approve)
           \/ \E g \in Guarantors \cup {NULL, Omitted},
                 m \in Companies \cup {NULL, Omitted} : AssignRead(c, d, g, m)
    PROVE  Kept'
<1>1. rows[d] \in Profile /\ Backed(documents, d, rows[d])
    BY DEF Kept, RowsTyped, Backed, ApprovedHasDocuments
<1>2. /\ Reopened(rows[d]) \in Profile
      /\ Reopened(rows[d]).kyc = "approved" => rows[d].kyc = "approved"
    BY <1>1 DEF Reopened, Profile
<1>3. ASSUME NEW filled \in BOOLEAN, UpdateProfileRead(c, d, filled)
      PROVE  Kept'
    <2>. DEFINE copy == [Reopened(rows[d]) EXCEPT !.filled = filled]
    <2>1. copy \in Profile /\ copy.kyc = Reopened(rows[d]).kyc
        BY <1>2 DEF Profile
    <2>2. Holds(documents, d, copy)
        BY <1>1, <1>2, <2>1 DEF Holds, Backed
    <2>. HIDE DEF copy
    <2>3. Good(documents, Saving(d, copy, "idle"))
        BY <2>2, SavingIsGood
    <2>4. Become(c, Saving(d, copy, "idle")) /\ UNCHANGED <<rows, documents>>
        BY <1>3 DEF UpdateProfileRead, copy
    <2>. QED BY <2>3, <2>4, CallMoves
<1>4. ASSUME NEW doc \in Required, UploadRead(c, d, doc)
      PROVE  Kept'
    <2>. DEFINE copy == Reopened(rows[d])
                pc == IF copy = rows[d] THEN "store" ELSE "reload"
                next == [Saving(d, copy, "store") EXCEPT !.pc = pc,
                                                         !.goal = doc]
    <2>1. Holds(documents, d, copy)
        BY <1>1, <1>2 DEF Holds, Backed
    <2>2. copy \in Profile /\ pc \in {"store", "reload"}
        BY <1>2
    <2>3. Become(c, next) /\ UNCHANGED <<rows, documents>>
        BY <1>4 DEF UploadRead
    <2>. HIDE DEF copy, pc
    <2>4. /\ next \in Call /\ next.pc = pc /\ next.id = d
          /\ next.copy = copy /\ next.then = "store" /\ next.goal = doc
        BY <2>2 DEF Saving, Idle, Call, Pcs
    <2>. HIDE DEF next
    <2>5. Good(documents, next)
        BY <2>1, <2>2, <2>4 DEF Good
    <2>. QED BY <2>3, <2>5, CallMoves
<1>5. \A goal \in {"submitted", "approved"} :
          Good(documents, [Idle EXCEPT !.pc = "check", !.id = d,
                                       !.copy = rows[d], !.goal = goal])
    BY <1>1 DEF Good, Idle, Call, Pcs, Holds
<1>6. CASE SubmitRead(c, d)
    BY <1>5, <1>6, CallMoves DEF SubmitRead
<1>7. ASSUME NEW approve \in BOOLEAN, ReviewRead(c, d, approve)
      PROVE  Kept'
    <2>. DEFINE copy == [rows[d] EXCEPT !.kyc = "rejected"]
    <2>1. Holds(documents, d, copy)
        BY <1>1 DEF Holds, Backed, Profile
    <2>. HIDE DEF copy
    <2>2. Good(documents, Saving(d, copy, "idle"))
        BY <2>1, SavingIsGood
    <2>3. /\ \/ Become(c, Saving(d, copy, "idle"))
             \/ Become(c, [Idle EXCEPT !.pc = "check", !.id = d,
                                       !.copy = rows[d], !.goal = "approved"])
          /\ UNCHANGED <<rows, documents>>
        BY <1>7 DEF ReviewRead, copy
    <2>. QED BY <1>5, <2>2, <2>3, CallMoves
<1>8. ASSUME NEW g \in Guarantors \cup {NULL, Omitted},
             NEW m \in Companies \cup {NULL, Omitted}, AssignRead(c, d, g, m)
      PROVE  Kept'
    <2>. DEFINE copy == [rows[d] EXCEPT !.guarantor = Link(@, g),
                                        !.company = Link(@, m)]
                nulls == (IF g = NULL THEN {"guarantor"} ELSE {})
                             \cup (IF m = NULL THEN {"company"} ELSE {})
                saving == Saving(d, copy, "refresh")
                next == [saving EXCEPT !.undefined = nulls, !.todo = {d}]
    <2>1. copy \in Profile /\ copy.kyc = rows[d].kyc
        BY <1>1 DEF Link, Profile
    <2>2. Holds(documents, d, copy)
        BY <1>1, <2>1 DEF Holds, Backed
    <2>3. Become(c, next) /\ UNCHANGED <<rows, documents>>
        BY <1>8 DEF AssignRead
    <2>4. nulls \subseteq Columns
        BY DEF Columns
    <2>. HIDE DEF copy, nulls
    <2>5. Good(documents, saving)
        BY <2>2, SavingIsGood
    <2>. HIDE DEF saving
    <2>6. Good(documents, next)
        BY <2>4, <2>5 DEF Good, Call
    <2>. HIDE DEF next
    <2>. QED BY <2>3, <2>6, CallMoves
<1>. QED BY <1>3, <1>4, <1>6, <1>7, <1>8

\* A change of a sponsor begins with what it read (updateCompany() and the
\* others).
LEMMA SponsorCallKeeps ==
    ASSUME TrustAssumption, Kept, NEW c \in Calls, NEW s \in Sponsors,
           NEW verified \in BOOLEAN, NEW active \in BOOLEAN,
           ChangeSponsorRead(c, s, verified, active)
    PROVE  Kept'
<1>. DEFINE copy == [verified |-> verified, active |-> active]
<1>1. Holds(documents, s, copy)
    BY DEF Holds, Sponsor
<1>. HIDE DEF copy
<1>2. Good(documents, Saving(s, copy, "referred"))
    BY <1>1, SavingIsGood
<1>3. Become(c, Saving(s, copy, "referred")) /\ UNCHANGED <<rows, documents>>
    BY DEF ChangeSponsorRead, copy
<1>. QED BY <1>2, <1>3, CallMoves

\* A call that fails leaves the rows as they are (a throw, a death).
LEMMA DieKeeps == ASSUME Kept, NEW c \in Calls, Die(c) PROVE Kept'
BY IdleIsGood, CallMoves DEF Die

\* The invariant holds at the start.
LEMMA KeptInit == ASSUME TrustAssumption, Init PROVE Kept
<1>1. NewProfile \in Profile /\ NewProfile.kyc = "pending"
    BY DEF NewProfile, Profile
<1>2. RowsTyped
    <2>1. \A s \in Sponsors : s \notin Drivers
        BY DEF TrustAssumption
    <2>2. \A s \in Sponsors :
              rows[s] = [verified |-> s \in Companies, active |-> s \in Guarantors]
        BY <2>1 DEF Init
    <2>3. \A s \in Sponsors : rows[s] \in Sponsor
        <3>. SUFFICES ASSUME NEW s \in Sponsors PROVE rows[s] \in Sponsor
            OBVIOUS
        <3>1. PICK verified \in BOOLEAN : verified <=> s \in Companies
            OBVIOUS
        <3>2. PICK active \in BOOLEAN : active <=> s \in Guarantors
            OBVIOUS
        <3>3. rows[s] = [verified |-> verified, active |-> active]
            BY <2>2, <3>1, <3>2
        <3>. QED BY <3>3 DEF Sponsor
    <2>4. DOMAIN rows = Drivers \cup Sponsors /\ \A d \in Drivers : rows[d] \in Profile
        BY <1>1 DEF Init
    <2>. QED BY <2>3, <2>4 DEF RowsTyped
<1>3. ApprovedHasDocuments
    BY <1>1 DEF Init, ApprovedHasDocuments
<1>. QED BY <1>2, <1>3, IdleIsGood DEF Kept, Init

\* The invariant is kept by every step, and by stuttering.
LEMMA KeptNext == ASSUME TrustAssumption, Kept, [Next]_vars PROVE Kept'
<1>1. CASE UNCHANGED vars
    BY <1>1 DEF vars, Kept, RowsTyped, ApprovedHasDocuments
<1>2. CASE Next
    BY <1>2, StepKeeps, DieKeeps, DriverCallKeeps, SponsorCallKeeps DEF Next
<1>. QED BY <1>1, <1>2

\* However requests, listeners and stale saves interleave, for any number of
\* drivers, sponsors, documents and calls: nobody is approved without the
\* documents (assertComplete() in submit() and review()).
THEOREM ApprovedByDocuments ==
    ASSUME TrustAssumption
    PROVE  Spec => []ApprovedHasDocuments
<1>1. Init => Kept
    BY KeptInit
<1>2. Kept /\ [Next]_vars => Kept'
    BY KeptNext
<1>3. Kept => ApprovedHasDocuments
    BY DEF Kept
<1>. QED BY <1>1, <1>2, <1>3, PTL DEF Spec

(***************************************************************************)
(* Requests and listeners that follow one another.  While one is at work    *)
(* the level of every driver is the one derived from the present rows, but  *)
(* for the drivers the call is still to refresh: those whose documents were *)
(* approved, whose sponsors were assigned, or who are linked to the sponsor *)
(* that changed.  What else it saves does not change what a level is worth. *)
(***************************************************************************)

\* Requests and listeners follow one another.
Alone ==
    \A b, c \in Calls : calls[b].pc # "idle" /\ calls[c].pc # "idle" => b = c

\* Vouches(), Worth() and Linked() in any table.
VouchesIn(table, s) == table[s].verified /\ table[s].active

WorthIn(table, d) ==
    IF table[d].company # NULL /\ VouchesIn(table, table[d].company) THEN 3
    ELSE IF table[d].guarantor # NULL /\ VouchesIn(table, table[d].guarantor)
    THEN 2 ELSE FromDocuments(table[d])

LinkedIn(table, s) ==
    {d \in Drivers : table[d].guarantor = s \/ table[d].company = s}

\* The driver's level is the one derived from the table, unless the refresh of
\* it was lost.
Sound(lost, table, d) == d \in lost \/ table[d].level = WorthIn(table, d)

\* The drivers whose level the call is still to see to.
Due(table, call) ==
    CASE call.pc = "referred" -> LinkedIn(table, call.id)
      [] call.pc \in {"grant", "refresh"} -> call.todo
      [] call.pc \in {"company", "guarantor", "reload", "write"} ->
             call.todo \cup {call.id}
      [] OTHER -> {}

\* The entity has the row's links, an approval if the row has one, and the
\* level they are worth, unless the refresh of it was lost.
Settled(lost, table, call) ==
    /\ call.copy.guarantor = table[call.id].guarantor
    /\ call.copy.company = table[call.id].company
    /\ FromDocuments(call.copy) = FromDocuments(table[call.id])
    /\ call.id \in lost \/ call.copy.level = WorthIn(table, call.id)
    /\ call.undefined = {}

\* What a save is about.
Saves(lost, table, call) ==
    /\ call.then \notin {"grant", "refresh"} => call.todo = {}
    /\ call.goal # "level" => \A d \in Drivers : Sound(lost, table, d)
    /\ call.then = "referred" <=> call.id \in Sponsors
    /\ call.id \in Drivers =>
           /\ table[call.id].kyc = "approved" => call.copy.kyc = "approved"
           /\ call.id \notin call.todo => Settled(lost, table, call)

\* What the call knows of the rows, which nobody else changes.
Follows(lost, table, call) ==
    /\ \A d \in Drivers \ Due(table, call) : Sound(lost, table, d)
    /\ call.pc \in {"check", "company", "guarantor"} =>
           call.copy = table[call.id]
    /\ call.pc = "check" => call.copy.kyc # "approved"
    /\ call.pc \in {"company", "guarantor"} => call.id \notin call.todo
    /\ call.pc = "company" => call.copy.company # NULL
    /\ call.pc = "guarantor" =>
           /\ call.copy.guarantor # NULL
           /\ ~(call.copy.company # NULL /\ VouchesIn(table, call.copy.company))
    /\ call.pc \in {"reload", "write"} => Saves(lost, table, call)
    /\ call.pc = "write" =>
           call.dirty = DirtyColumns(call.copy, table[call.id]) \ call.undefined

\* The inductive invariant, with Kept.
Derived ==
    /\ \A c \in Calls : calls[c].pc # "idle" => Follows(missed, rows, calls[c])
    /\ (\A c \in Calls : calls[c].pc = "idle") =>
           \A d \in Drivers : Sound(missed, rows, d)

\* A call that is not at work has no driver to see to.
LEMMA SoundFollows ==
    ASSUME NEW lost, NEW table, NEW call, call.pc \in {"idle", "store"},
           \A d \in Drivers : Sound(lost, table, d)
    PROVE  Follows(lost, table, call)
BY DEF Follows

\* The only call at work moves on, or ends.
LEMMA OnlyCallMoves ==
    ASSUME Kept, Alone, NEW c \in Calls, calls[c].pc # "idle",
           NEW call, Become(c, call), Follows(missed', rows', call)
    PROVE  Derived'
<1>1. /\ calls'[c] = call
      /\ \A b \in Calls : b # c => calls'[b] = calls[b] /\ calls[b].pc = "idle"
    BY DEF Kept, Become, Alone
<1>2. call.pc = "idle" => \A d \in Drivers : Sound(missed', rows', d)
    BY DEF Follows, Due
<1>. QED BY <1>1, <1>2 DEF Derived

\* A call begins when nobody is at work.
LEMMA FirstCallMoves ==
    ASSUME Kept, Derived, Alone', NEW c \in Calls, calls[c].pc = "idle",
           NEW call, Become(c, call), call.pc # "idle", UNCHANGED <<rows, missed>>,
           (\A d \in Drivers : Sound(missed, rows, d)) => Follows(missed, rows, call)
    PROVE  Derived'
<1>1. /\ calls'[c] = call
      /\ \A b \in Calls : b # c => calls'[b] = calls[b]
    BY DEF Kept, Become
<1>2. \A b \in Calls : calls[b].pc = "idle"
    BY <1>1 DEF Alone
<1>3. Follows(missed, rows, call)
    BY <1>2 DEF Derived
<1>. QED BY <1>1, <1>2, <1>3 DEF Derived

\* A save of a driver's profile that leaves alone what its level is worth.
LEMMA PlainSaveFollows ==
    ASSUME NEW lost, NEW table, NEW d \in Drivers, TrustAssumption, NEW call,
           \A e \in Drivers : Sound(lost, table, e),
           call.pc = "reload", call.id = d, call.todo = {}, call.undefined = {},
           call.then \in {"idle", "store"},
           call.copy.guarantor = table[d].guarantor,
           call.copy.company = table[d].company,
           call.copy.level = table[d].level,
           call.copy.kyc = "approved" <=> table[d].kyc = "approved"
    PROVE  Follows(lost, table, call)
<1>1. d \notin Sponsors
    BY DEF TrustAssumption
<1>2. Settled(lost, table, call)
    BY DEF Settled, Sound, FromDocuments
<1>3. Saves(lost, table, call)
    BY <1>1, <1>2 DEF Saves
<1>. QED BY <1>3 DEF Follows

\* updateProfile(), saveDocument(), submit(), review() and assign() begin.
LEMMA DriverCallDerives ==
    ASSUME TrustAssumption, Kept, Derived, Alone',
           NEW c \in Calls, NEW d \in Drivers,
           \/ \E filled \in BOOLEAN : UpdateProfileRead(c, d, filled)
           \/ \E doc \in Required : UploadRead(c, d, doc)
           \/ SubmitRead(c, d)
           \/ \E approve \in BOOLEAN : ReviewRead(c, d, approve)
           \/ \E g \in Guarantors \cup {NULL, Omitted},
                 m \in Companies \cup {NULL, Omitted} : AssignRead(c, d, g, m)
    PROVE  Derived'
<1>1. rows[d] \in Profile /\ d \notin Sponsors
    BY DEF Kept, RowsTyped, TrustAssumption
<1>2. /\ calls[c].pc = "idle" /\ UNCHANGED <<rows, missed>>
    BY DEF UpdateProfileRead, UploadRead, SubmitRead, ReviewRead, AssignRead, At
<1>. DEFINE plain(copy) ==
                /\ copy.guarantor = rows[d].guarantor
                /\ copy.company = rows[d].company
                /\ copy.level = rows[d].level
                /\ copy.kyc = "approved" <=> rows[d].kyc = "approved"
<1>3. Reopened(rows[d]) \in Profile /\ plain(Reopened(rows[d]))
    BY <1>1 DEF Reopened, Profile
<1>4. ASSUME NEW copy, plain(copy), NEW next, Become(c, next),
             next.pc = "reload", next.id = d, next.copy = copy,
             next.todo = {}, next.undefined = {}, next.then \in {"idle", "store"}
      PROVE  Derived'
    BY <1>2, <1>4, PlainSaveFollows, FirstCallMoves
<1>5. ASSUME NEW filled \in BOOLEAN, UpdateProfileRead(c, d, filled)
      PROVE  Derived'
    <2>. DEFINE copy == [Reopened(rows[d]) EXCEPT !.filled = filled]
                next == Saving(d, copy, "idle")
    <2>1. plain(copy)
        BY <1>3 DEF Profile
    <2>2. Become(c, next)
        BY <1>5 DEF UpdateProfileRead
    <2>. HIDE DEF copy, plain
    <2>3. /\ next.pc = "reload" /\ next.id = d /\ next.copy = copy
          /\ next.todo = {} /\ next.undefined = {} /\ next.then = "idle"
        BY DEF Saving, Idle
    <2>. HIDE DEF next
    <2>. QED BY <2>1, <2>2, <2>3, <1>4
<1>6. ASSUME NEW doc \in Required, UploadRead(c, d, doc)
      PROVE  Derived'
    <2>. DEFINE copy == Reopened(rows[d])
                pc == IF copy = rows[d] THEN "store" ELSE "reload"
                next == [Saving(d, copy, "store") EXCEPT !.pc = pc,
                                                         !.goal = doc]
    <2>1. plain(copy) /\ pc \in {"store", "reload"}
        BY <1>3
    <2>2. Become(c, next)
        BY <1>6 DEF UploadRead
    <2>. HIDE DEF copy, plain, pc
    <2>3. /\ next.pc = pc /\ next.id = d /\ next.copy = copy
          /\ next.todo = {} /\ next.undefined = {} /\ next.then = "store"
        BY DEF Saving, Idle
    <2>. HIDE DEF next
    <2>4. CASE pc = "reload"
        BY <2>1, <2>2, <2>3, <2>4, <1>4
    <2>5. CASE pc = "store"
        BY <1>2, <2>2, <2>3, <2>5, SoundFollows, FirstCallMoves
    <2>. QED BY <2>1, <2>4, <2>5
<1>7. ASSUME NEW goal, rows[d].kyc # "approved",
             Become(c, [Idle EXCEPT !.pc = "check", !.id = d, !.copy = rows[d],
                                    !.goal = goal])
      PROVE  Derived'
    <2>1. PICK next : next = [Idle EXCEPT !.pc = "check", !.id = d,
                                          !.copy = rows[d], !.goal = goal]
        OBVIOUS
    <2>2. Become(c, next) /\ next.pc = "check" /\ next.id = d /\ next.copy = rows[d]
        BY <1>7, <2>1 DEF Idle
    <2>3. (\A e \in Drivers : Sound(missed, rows, e)) => Follows(missed, rows, next)
        BY <1>7, <2>2 DEF Follows
    <2>. QED BY <1>2, <2>2, <2>3, FirstCallMoves
<1>8. CASE SubmitRead(c, d)
    BY <1>7, <1>8 DEF SubmitRead
<1>9. ASSUME NEW approve \in BOOLEAN, ReviewRead(c, d, approve)
      PROVE  Derived'
    <2>1. rows[d].kyc = "submitted"
        BY <1>9 DEF ReviewRead
    <2>2. CASE approve
        BY <1>7, <1>9, <2>1, <2>2 DEF ReviewRead
    <2>3. CASE ~approve
        <3>. DEFINE copy == [rows[d] EXCEPT !.kyc = "rejected"]
                    next == Saving(d, copy, "idle")
        <3>1. plain(copy)
            BY <1>1, <2>1 DEF Profile
        <3>2. Become(c, next)
            BY <1>9, <2>3 DEF ReviewRead
        <3>. HIDE DEF copy, plain
        <3>3. /\ next.pc = "reload" /\ next.id = d /\ next.copy = copy
              /\ next.todo = {} /\ next.undefined = {} /\ next.then = "idle"
            BY DEF Saving, Idle
        <3>. HIDE DEF next
        <3>. QED BY <3>1, <3>2, <3>3, <1>4
    <2>. QED BY <2>2, <2>3
<1>10. ASSUME NEW g \in Guarantors \cup {NULL, Omitted},
              NEW m \in Companies \cup {NULL, Omitted}, AssignRead(c, d, g, m)
       PROVE  Derived'
    <2>. DEFINE copy == [rows[d] EXCEPT !.guarantor = Link(@, g),
                                        !.company = Link(@, m)]
                nulls == (IF g = NULL THEN {"guarantor"} ELSE {})
                             \cup (IF m = NULL THEN {"company"} ELSE {})
                next == [Saving(d, copy, "refresh")
                         EXCEPT !.undefined = nulls, !.todo = {d}]
    <2>1. copy.kyc = rows[d].kyc
        BY <1>1 DEF Profile
    <2>2. Become(c, next)
        BY <1>10 DEF AssignRead
    <2>. HIDE DEF copy, nulls
    <2>3. /\ next.pc = "reload" /\ next.id = d /\ next.copy = copy
          /\ next.todo = {d} /\ next.then = "refresh"
        BY DEF Saving, Idle
    <2>. HIDE DEF next
    <2>4. (\A e \in Drivers : Sound(missed, rows, e)) => Saves(missed, rows, next)
        BY <1>1, <2>1, <2>3 DEF Saves
    <2>5. (\A e \in Drivers : Sound(missed, rows, e)) => Follows(missed, rows, next)
        BY <2>3, <2>4 DEF Follows
    <2>. QED BY <1>2, <2>2, <2>3, <2>5, FirstCallMoves
<1>. QED BY <1>5, <1>6, <1>8, <1>9, <1>10

\* updateCompany() and the others begin.
LEMMA SponsorCallDerives ==
    ASSUME TrustAssumption, Kept, Derived, Alone', NEW c \in Calls,
           NEW s \in Sponsors, NEW verified \in BOOLEAN, NEW active \in BOOLEAN,
           ChangeSponsorRead(c, s, verified, active)
    PROVE  Derived'
<1>. DEFINE next == Saving(s, [verified |-> verified, active |-> active],
                           "referred")
<1>1. /\ calls[c].pc = "idle" /\ Become(c, next) /\ UNCHANGED <<rows, missed>>
      /\ s \notin Drivers
    BY DEF ChangeSponsorRead, At, TrustAssumption
<1>2. /\ next.pc = "reload" /\ next.id = s /\ next.todo = {}
      /\ next.then = "referred"
    BY DEF Saving, Idle
<1>. HIDE DEF next
<1>3. (\A d \in Drivers : Sound(missed, rows, d)) => Saves(missed, rows, next)
    BY <1>1, <1>2 DEF Saves
<1>4. (\A d \in Drivers : Sound(missed, rows, d)) => Follows(missed, rows, next)
    BY <1>2, <1>3 DEF Follows
<1>. QED BY <1>1, <1>2, <1>4, FirstCallMoves

\* What is left after one driver (refreshMany()).
LEMMA RestFollows ==
    ASSUME NEW lost, NEW table, NEW call,
           \A d \in Drivers \ call.todo : Sound(lost, table, d)
    PROVE  Follows(lost, table, Rest(call))
<1>1. CASE call.todo = {}
    BY <1>1 DEF Rest, Follows, Idle
<1>2. CASE call.todo # {}
    <2>1. Rest(call).pc = "refresh" /\ Rest(call).todo = call.todo
        BY <1>2 DEF Rest, Idle
    <2>. QED BY <2>1 DEF Follows, Due
<1>. QED BY <1>1, <1>2

\* The level the call found is the one the driver's row is worth.
LEMMA ConcludeFollows ==
    ASSUME TrustAssumption, NEW lost, NEW table, NEW call, NEW level,
           call.id \in Drivers, call.copy = table[call.id],
           call.copy \in Profile, level = WorthIn(table, call.id),
           call.id \notin call.todo,
           \A d \in Drivers \ (call.todo \cup {call.id}) : Sound(lost, table, d)
    PROVE  Follows(lost, table, Conclude(call, level))
<1>1. CASE call.copy.level = level
    <2>1. Sound(lost, table, call.id)
        BY <1>1 DEF Sound
    <2>2. \A d \in Drivers \ call.todo : Sound(lost, table, d)
        BY <2>1
    <2>. QED BY <1>1, <2>2, RestFollows DEF Conclude
<1>2. CASE call.copy.level # level
    <2>. DEFINE copy == [call.copy EXCEPT !.level = level]
                next == Conclude(call, level)
    <2>1. /\ copy.guarantor = call.copy.guarantor
          /\ copy.company = call.copy.company
          /\ copy.kyc = call.copy.kyc /\ copy.level = level
        BY DEF Profile
    <2>. HIDE DEF copy
    <2>2. /\ next.pc = "reload" /\ next.id = call.id /\ next.copy = copy
          /\ next.todo = call.todo /\ next.undefined = {}
          /\ next.then = Rest(call).pc /\ next.goal = "level"
        BY <1>2 DEF Conclude, Saving, Idle, copy
    <2>3. next.then = IF call.todo = {} THEN "idle" ELSE "refresh"
        BY <2>2 DEF Rest, Idle
    <2>4. Settled(lost, table, next)
        BY <2>1, <2>2 DEF Settled, FromDocuments
    <2>5. call.id \notin Sponsors
        BY DEF TrustAssumption
    <2>6. Saves(lost, table, next)
        BY <2>1, <2>2, <2>3, <2>4, <2>5 DEF Saves
    <2>7. \A d \in Drivers \ Due(table, next) : Sound(lost, table, d)
        <3>1. Due(table, next) = call.todo \cup {call.id}
            BY <2>2 DEF Due
        <3>. QED BY <3>1
    <2>. QED BY <2>2, <2>6, <2>7 DEF Follows
<1>. QED BY <1>1, <1>2

\* The company does not count: the guarantor does, or the documents.
LEMMA AskFollows ==
    ASSUME TrustAssumption, NEW lost, NEW table, NEW call \in Call,
           call.id \in Drivers, call.copy = table[call.id],
           call.copy \in Profile, call.id \notin call.todo,
           ~(call.copy.company # NULL /\ VouchesIn(table, call.copy.company)),
           \A d \in Drivers \ (call.todo \cup {call.id}) : Sound(lost, table, d)
    PROVE  Follows(lost, table, AskGuarantor(call))
<1>1. CASE call.copy.guarantor # NULL
    <2>. DEFINE next == [call EXCEPT !.pc = "guarantor"]
    <2>1. AskGuarantor(call) = next
        BY <1>1 DEF AskGuarantor
    <2>2. /\ next.pc = "guarantor" /\ next.id = call.id
          /\ next.copy = call.copy /\ next.todo = call.todo
        BY DEF Call
    <2>. HIDE DEF next
    <2>3. Due(table, next) = call.todo \cup {call.id}
        BY <2>2 DEF Due
    <2>. QED BY <1>1, <2>1, <2>2, <2>3 DEF Follows
<1>2. CASE call.copy.guarantor = NULL
    <2>1. WorthIn(table, call.id) = FromDocuments(call.copy)
        BY <1>2 DEF WorthIn
    <2>. QED BY <1>2, <2>1, ConcludeFollows DEF AskGuarantor
<1>. QED BY <1>1, <1>2

\* The documents have been looked at.
LEMMA CheckDerives ==
    ASSUME TrustAssumption, Kept, Derived, Alone, NEW c \in Calls, Check(c)
    PROVE  Derived'
<1>. DEFINE self == calls[c]
            copy == [self.copy EXCEPT !.kyc = self.goal]
<1>1. /\ self.pc = "check" /\ self.id \in Drivers /\ self.id \notin Sponsors
      /\ self.goal \in {"submitted", "approved"} /\ UNCHANGED <<rows, missed>>
      /\ Follows(missed, rows, self) /\ self.copy = rows[self.id]
      /\ rows[self.id] \in Profile /\ rows[self.id].kyc # "approved"
    BY DEF Check, At, Kept, Good, Derived, Follows, RowsTyped, TrustAssumption
<1>2. \A d \in Drivers : Sound(missed, rows, d)
    BY <1>1 DEF Follows, Due
<1>3. /\ copy.guarantor = rows[self.id].guarantor
      /\ copy.company = rows[self.id].company
      /\ copy.level = rows[self.id].level /\ copy.kyc = self.goal
    BY <1>1 DEF Profile
<1>. HIDE DEF copy
<1>4. CASE Become(c, Idle)
    BY <1>1, <1>2, <1>4, SoundFollows, OnlyCallMoves DEF Idle
<1>5. CASE self.goal # "approved" /\ Become(c, Saving(self.id, copy, "idle"))
    <2>1. PICK next : next = Saving(self.id, copy, "idle")
        OBVIOUS
    <2>2. /\ next.pc = "reload" /\ next.id = self.id /\ next.copy = copy
          /\ next.todo = {} /\ next.undefined = {} /\ next.then = "idle"
        BY <2>1 DEF Saving, Idle
    <2>3. Follows(missed, rows, next)
        BY <1>1, <1>2, <1>3, <1>5, <2>2, PlainSaveFollows
    <2>. QED BY <1>1, <1>5, <2>1, <2>3, OnlyCallMoves
<1>6. CASE /\ self.goal = "approved"
           /\ Become(c, [Saving(self.id, copy, "grant")
                         EXCEPT !.todo = {self.id}])
    <2>1. PICK next : next = [Saving(self.id, copy, "grant")
                              EXCEPT !.todo = {self.id}]
        OBVIOUS
    <2>2. /\ next.pc = "reload" /\ next.id = self.id /\ next.copy = copy
          /\ next.todo = {self.id} /\ next.then = "grant"
        BY <2>1 DEF Saving, Idle
    <2>3. Saves(missed, rows, next)
        BY <1>1, <1>2, <1>3, <2>2 DEF Saves
    <2>4. Follows(missed, rows, next)
        BY <1>2, <2>2, <2>3 DEF Follows
    <2>. QED BY <1>1, <1>6, <2>1, <2>4, OnlyCallMoves
<1>. QED BY <1>4, <1>5, <1>6 DEF Check, copy

\* The drivers linked to the sponsor are found.
LEMMA FindReferredDerives ==
    ASSUME TrustAssumption, Kept, Derived, Alone, NEW c \in Calls,
           FindReferred(c)
    PROVE  Derived'
<1>. DEFINE self == calls[c]
            drivers == Linked(self.id)
            next == IF drivers = {} THEN Idle
                    ELSE [Idle EXCEPT !.pc = "refresh", !.todo = drivers]
<1>1. /\ self.pc = "referred" /\ UNCHANGED <<rows, missed>> /\ Become(c, next)
      /\ Follows(missed, rows, self)
    BY DEF FindReferred, At, Derived
<1>2. \A d \in Drivers \ drivers : Sound(missed, rows, d)
    BY <1>1 DEF Follows, Due, Linked, LinkedIn
<1>. HIDE DEF drivers
<1>3. CASE drivers = {}
    BY <1>1, <1>2, <1>3, SoundFollows, OnlyCallMoves DEF Idle
<1>4. CASE drivers # {}
    <2>1. next.pc = "refresh" /\ next.todo = drivers
        BY <1>4 DEF Idle
    <2>. HIDE DEF next
    <2>2. Follows(missed, rows, next)
        BY <1>2, <2>1 DEF Follows, Due
    <2>. QED BY <1>1, <2>2, OnlyCallMoves
<1>. QED BY <1>3, <1>4

\* save() reads the row again.
LEMMA SaveReloadDerives ==
    ASSUME TrustAssumption, Kept, Derived, Alone, NEW c \in Calls,
           SaveReload(c)
    PROVE  Derived'
<1>. DEFINE self == calls[c]
            dirty == DirtyColumns(self.copy, rows[self.id]) \ self.undefined
            next == [self EXCEPT !.pc = "write", !.dirty = dirty]
<1>1. /\ self \in Call /\ self.pc = "reload" /\ UNCHANGED <<rows, missed>>
      /\ Become(c, next) /\ Follows(missed, rows, self)
    BY DEF SaveReload, At, Kept, Good, Derived
<1>. HIDE DEF dirty
<1>2. /\ next.pc = "write" /\ next.id = self.id /\ next.copy = self.copy
      /\ next.dirty = dirty /\ next.undefined = self.undefined
      /\ next.then = self.then /\ next.todo = self.todo
      /\ next.goal = self.goal
    BY <1>1 DEF Call
<1>. HIDE DEF next
<1>3. Saves(missed, rows, next) /\ Due(rows, next) = Due(rows, self)
    BY <1>1, <1>2 DEF Follows, Saves, Settled, Due
<1>4. Follows(missed, rows, next)
    BY <1>1, <1>2, <1>3 DEF Follows, dirty
<1>. QED BY <1>1, <1>4, OnlyCallMoves

\* The columns of the rows other than the saved one stay, and a settled entity
\* makes its row worth what it says.
LEMMA SavedIsSound ==
    ASSUME TrustAssumption, Kept, NEW call, NEW table,
           call.id \in Drivers, call.copy \in Profile,
           call.dirty = DirtyColumns(call.copy, rows[call.id]) \ call.undefined,
           table = [rows EXCEPT ![call.id] =
                        SavedRow(rows[call.id], call.copy, call.dirty)]
    PROVE  /\ \A d \in Drivers \ {call.id} : Sound(missed, rows, d) => Sound(missed, table, d)
           /\ Settled(missed, rows, call) => Sound(missed, table, call.id)
<1>1. /\ DOMAIN rows = Drivers \cup Sponsors
      /\ \A s \in Sponsors : s # call.id
      /\ \A d \in Drivers : rows[d] \in Profile
    BY DEF Kept, RowsTyped, TrustAssumption
<1>2. \A x \in Drivers \cup Sponsors : x # call.id => table[x] = rows[x]
    BY <1>1
<1>3. \A d \in Drivers : /\ rows[d].guarantor \in Sponsors \cup {NULL}
                         /\ rows[d].company \in Sponsors \cup {NULL}
    BY <1>1 DEF Profile, Sponsors
<1>4. \A s \in Sponsors : VouchesIn(table, s) <=> VouchesIn(rows, s)
    BY <1>1, <1>2 DEF VouchesIn
<1>5. ASSUME NEW d \in Drivers, d # call.id, Sound(missed, rows, d)
      PROVE  Sound(missed, table, d)
    <2>1. table[d] = rows[d]
        BY <1>2, <1>5
    <2>2. /\ rows[d].company # NULL =>
                 (VouchesIn(table, rows[d].company)
                      <=> VouchesIn(rows, rows[d].company))
          /\ rows[d].guarantor # NULL =>
                 (VouchesIn(table, rows[d].guarantor)
                      <=> VouchesIn(rows, rows[d].guarantor))
        BY <1>3, <1>4
    <2>3. WorthIn(table, d) = WorthIn(rows, d)
        BY <2>1, <2>2 DEF WorthIn
    <2>. QED BY <2>1, <2>3, <1>5, <2>1, <2>2 DEF Sound
<1>6. ASSUME Settled(missed, rows, call) PROVE Sound(missed, table, call.id)
    <2>1. table[call.id] = SavedRow(rows[call.id], call.copy, call.dirty)
        BY <1>1
    <2>2. call.dirty = DirtyColumns(call.copy, rows[call.id])
        BY <1>6 DEF Settled
    <2>3. /\ table[call.id].guarantor = call.copy.guarantor
          /\ table[call.id].company = call.copy.company
          /\ table[call.id].level = call.copy.level
          /\ table[call.id].kyc = call.copy.kyc
        BY <1>1, <2>1, <2>2 DEF SavedRow, DirtyColumns, Profile
    <2>4. WorthIn(table, call.id) = WorthIn(rows, call.id)
        BY <1>3, <1>4, <1>6, <2>3 DEF WorthIn, Settled, FromDocuments
    <2>. QED BY <1>6, <2>3, <2>4 DEF Sound, Settled
<1>. QED BY <1>5, <1>6

\* save() writes.
LEMMA SaveWriteDerives ==
    ASSUME TrustAssumption, Kept, Derived, Alone, NEW c \in Calls,
           SaveWrite(c)
    PROVE  Derived'
<1>. DEFINE self == calls[c]
            next == IF self.then = "idle" THEN Idle
                    ELSE [Idle EXCEPT !.pc = self.then, !.todo = self.todo,
                                      !.goal = self.goal, !.id = self.id]
<1>1. /\ self \in Call /\ self.pc = "write" /\ Holds(documents, self.id, self.copy)
      /\ Follows(missed, rows, self) /\ Saves(missed, rows, self) /\ Become(c, next)
      /\ self.dirty = DirtyColumns(self.copy, rows[self.id]) \ self.undefined
      /\ rows' = [rows EXCEPT ![self.id] =
                      SavedRow(rows[self.id], self.copy, self.dirty)]
      /\ missed' = missed
    BY DEF SaveWrite, At, Kept, Good, Derived, Follows
<1>2. \A d \in Drivers \ (self.todo \cup {self.id}) : Sound(missed, rows, d)
    BY <1>1 DEF Follows, Due
<1>3. /\ next.pc = self.then
      /\ self.then # "idle" => next.id = self.id /\ next.todo = self.todo
    BY <1>1 DEF Idle, Call
<1>. HIDE DEF next
<1>4. CASE self.id \in Drivers
    <2>1. self.copy \in Profile /\ self.then # "referred"
        BY <1>1, <1>4, TrustAssumption DEF Holds, Saves, TrustAssumption
    <2>2. \A d \in Drivers \ {self.id} : Sound(missed, rows, d) => Sound(missed', rows', d)
        BY <1>1, <1>4, <2>1, SavedIsSound
    <2>3. self.id \notin self.todo => Sound(missed', rows', self.id)
        BY <1>1, <1>4, <2>1, SavedIsSound DEF Saves
    <2>4. \A d \in Drivers \ self.todo : Sound(missed', rows', d)
        BY <1>2, <2>2, <2>3
    <2>5. CASE self.then \in {"grant", "refresh"}
        BY <1>1, <1>3, <2>4, <2>5, OnlyCallMoves DEF Follows, Due
    <2>6. CASE self.then \in {"idle", "store"}
        <3>1. self.todo = {}
            BY <1>1, <2>6 DEF Saves
        <3>2. Follows(missed', rows', next)
            BY <1>3, <2>4, <2>6, <3>1, SoundFollows
        <3>. QED BY <1>1, <3>2, OnlyCallMoves
    <2>. QED BY <1>1, <2>1, <2>5, <2>6 DEF Call
<1>5. CASE self.id \in Sponsors
    <2>1. /\ self.then = "referred" /\ self.todo = {} /\ self.id \notin Drivers
        BY <1>1, <1>5, TrustAssumption DEF Saves, TrustAssumption
    <2>2. \A x \in Drivers \cup Sponsors : x # self.id => rows'[x] = rows[x]
        BY <1>1 DEF Kept, RowsTyped
    <2>3. \A d \in Drivers : /\ rows[d].guarantor \in Sponsors \cup {NULL}
                             /\ rows[d].company \in Sponsors \cup {NULL}
        BY DEF Kept, RowsTyped, Profile, Sponsors
    <2>4. ASSUME NEW d \in Drivers, d \notin LinkedIn(rows', self.id)
          PROVE  Sound(missed', rows', d)
        <3>1. rows'[d] = rows[d] /\ Sound(missed, rows, d)
            BY <1>2, <2>1, <2>2
        <3>2. rows[d].guarantor # self.id /\ rows[d].company # self.id
            BY <2>4, <3>1 DEF LinkedIn
        <3>3. /\ rows[d].guarantor # NULL =>
                     VouchesIn(rows', rows[d].guarantor)
                          = VouchesIn(rows, rows[d].guarantor)
              /\ rows[d].company # NULL =>
                     VouchesIn(rows', rows[d].company)
                          = VouchesIn(rows, rows[d].company)
            BY <2>2, <2>3, <3>2 DEF VouchesIn
        <3>4. WorthIn(rows', d) = WorthIn(rows, d)
            BY <3>1, <3>3 DEF WorthIn
        <3>. QED BY <1>1, <3>1, <3>4 DEF Sound
    <2>5. Follows(missed', rows', next)
        BY <1>3, <2>1, <2>4 DEF Follows, Due
    <2>. QED BY <1>1, <2>5, OnlyCallMoves
<1>. QED BY <1>1, <1>4, <1>5 DEF Holds

\* The next driver's profile is read.
LEMMA RefreshReadDerives ==
    ASSUME TrustAssumption, Kept, Derived, Alone, NEW c \in Calls,
           NEW d \in Drivers, RefreshRead(c, d)
    PROVE  Derived'
<1>. DEFINE self == calls[c]
            call == [self EXCEPT !.pc = "company", !.id = d, !.copy = rows[d],
                                 !.todo = @ \ {d}]
<1>1. /\ self \in Call /\ self.pc = "refresh" /\ d \in self.todo
      /\ Follows(missed, rows, self) /\ UNCHANGED rows /\ rows[d] \in Profile
      /\ missed' = missed \ {d}
      /\ Become(c, IF rows[d].company # NULL THEN call ELSE AskGuarantor(call))
    BY DEF RefreshRead, At, Kept, Good, Derived, RowsTyped
<1>2. /\ call \in Call /\ call.pc = "company" /\ call.id = d
      /\ call.copy = rows[d] /\ call.todo = self.todo \ {d}
    BY <1>1 DEF Call, Pcs
<1>. HIDE DEF call
<1>3. \A e \in Drivers \ (call.todo \cup {d}) : Sound(missed', rows, e)
    BY <1>1, <1>2 DEF Follows, Due, Sound
<1>4. CASE rows[d].company # NULL
    <2>1. Follows(missed', rows, call)
        BY <1>2, <1>3, <1>4 DEF Follows, Due
    <2>. QED BY <1>1, <1>4, <2>1, OnlyCallMoves
<1>5. CASE rows[d].company = NULL
    <2>1. Follows(missed', rows, AskGuarantor(call))
        BY <1>1, <1>2, <1>3, <1>5, AskFollows
    <2>. QED BY <1>1, <1>5, <2>1, OnlyCallMoves
<1>. QED BY <1>4, <1>5

\* The company or the guarantor is asked.
LEMMA ReadSponsorDerives ==
    ASSUME TrustAssumption, Kept, Derived, Alone, NEW c \in Calls,
           ReadCompany(c) \/ ReadGuarantor(c)
    PROVE  Derived'
<1>. DEFINE self == calls[c]
<1>1. /\ self \in Call /\ self.pc \in {"company", "guarantor"}
      /\ self.id \in Drivers /\ UNCHANGED <<rows, missed>> /\ rows[self.id] \in Profile
      /\ Follows(missed, rows, self)
    BY DEF ReadCompany, ReadGuarantor, At, Kept, Good, Derived, RowsTyped
<1>2. /\ self.copy = rows[self.id] /\ self.id \notin self.todo
      /\ \A d \in Drivers \ (self.todo \cup {self.id}) : Sound(missed, rows, d)
    BY <1>1 DEF Follows, Due
<1>3. \A s : Vouches(s) = VouchesIn(rows, s)
    BY DEF Vouches, VouchesIn
<1>4. \A level : level = WorthIn(rows, self.id) => Follows(missed, rows, Conclude(self, level))
    BY <1>1, <1>2, ConcludeFollows
<1>5. CASE ReadCompany(c)
    <2>1. self.copy.company # NULL
        BY <1>1, <1>5 DEF ReadCompany, At, Follows
    <2>2. CASE VouchesIn(rows, self.copy.company)
        <3>1. WorthIn(rows, self.id) = 3
            BY <1>2, <2>1, <2>2 DEF WorthIn
        <3>2. Become(c, Conclude(self, 3))
            BY <1>3, <1>5, <2>2 DEF ReadCompany
        <3>. QED BY <1>1, <1>4, <3>1, <3>2, OnlyCallMoves
    <2>3. CASE ~VouchesIn(rows, self.copy.company)
        <3>1. Follows(missed, rows, AskGuarantor(self))
            BY <1>1, <1>2, <2>3, AskFollows
        <3>2. Become(c, AskGuarantor(self))
            BY <1>3, <1>5, <2>3 DEF ReadCompany
        <3>. QED BY <1>1, <3>1, <3>2, OnlyCallMoves
    <2>. QED BY <2>2, <2>3
<1>6. CASE ReadGuarantor(c)
    <2>. DEFINE level == IF VouchesIn(rows, self.copy.guarantor) THEN 2
                         ELSE FromDocuments(self.copy)
    <2>1. /\ self.copy.guarantor # NULL
          /\ ~(self.copy.company # NULL /\ VouchesIn(rows, self.copy.company))
        BY <1>1, <1>6 DEF ReadGuarantor, At, Follows
    <2>2. level = WorthIn(rows, self.id)
        BY <1>2, <2>1 DEF WorthIn
    <2>3. Become(c, Conclude(self, level))
        BY <1>3, <1>6 DEF ReadGuarantor
    <2>. HIDE DEF level
    <2>. QED BY <1>1, <1>4, <2>2, <2>3, OnlyCallMoves
<1>. QED BY <1>5, <1>6

\* The document is stored, which no level depends on.
LEMMA StoreDerives ==
    ASSUME Kept, Derived, Alone, NEW c \in Calls, Store(c) PROVE Derived'
<1>1. /\ calls[c].pc = "store" /\ Become(c, Idle) /\ UNCHANGED <<rows, missed>>
    BY DEF Store, At
<1>2. \A d \in Drivers : Sound(missed, rows, d)
    BY <1>1 DEF Derived, Follows, Due
<1>. QED BY <1>1, <1>2, SoundFollows, OnlyCallMoves DEF Idle

\* The user has the driver's role, and the event is out.
LEMMA GrantDerives ==
    ASSUME Kept, Derived, Alone, NEW c \in Calls, Grant(c) PROVE Derived'
<1>. DEFINE self == calls[c]
            next == [self EXCEPT !.pc = "refresh"]
<1>1. /\ self \in Call /\ self.pc = "grant" /\ UNCHANGED <<rows, missed>>
      /\ Become(c, next) /\ Follows(missed, rows, self)
    BY DEF Grant, At, Kept, Good, Derived
<1>2. next.pc = "refresh" /\ next.todo = self.todo
    BY <1>1 DEF Call
<1>. HIDE DEF next
<1>3. Follows(missed, rows, next)
    BY <1>1, <1>2 DEF Follows, Due
<1>. QED BY <1>1, <1>3, OnlyCallMoves

\* A call that fails owes what it was still to refresh.
LEMMA DieDerives ==
    ASSUME Kept, Derived, Alone, NEW c \in Calls, Die(c) PROVE Derived'
<1>. DEFINE self == calls[c]
<1>1. /\ self \in Call /\ self.pc # "idle" /\ UNCHANGED rows /\ Become(c, Idle)
      /\ missed' = missed \cup Owed(self) /\ Follows(missed, rows, self)
    BY DEF Die, At, Kept, Good, Derived
<1>2. \A d \in Drivers \ Owed(self) : Sound(missed, rows, d)
    <2>1. CASE self.pc \in {"reload", "write"}
        <3>1. CASE self.goal = "level"
            <4>1. Owed(self) = {self.id} \cup self.todo
                BY <2>1, <3>1 DEF Owed
            <4>2. Due(rows, self) = self.todo \cup {self.id}
                BY <2>1 DEF Due
            <4>. QED BY <1>1, <4>1, <4>2 DEF Follows
        <3>2. CASE self.goal # "level"
            BY <1>1, <2>1, <3>2 DEF Follows, Saves
        <3>. QED BY <3>1, <3>2
    <2>2. CASE self.pc = "referred"
        <3>1. Owed(self) = LinkedIn(rows, self.id)
            BY <2>2 DEF Owed, Linked, LinkedIn
        <3>2. Due(rows, self) = LinkedIn(rows, self.id)
            BY <2>2 DEF Due
        <3>. QED BY <1>1, <3>1, <3>2 DEF Follows
    <2>3. CASE self.pc \in {"grant", "refresh"}
        <3>1. Owed(self) = self.todo /\ Due(rows, self) = self.todo
            BY <2>3 DEF Owed, Due
        <3>. QED BY <1>1, <3>1 DEF Follows
    <2>4. CASE self.pc \in {"company", "guarantor"}
        <3>1. /\ Owed(self) = {self.id} \cup self.todo
              /\ Due(rows, self) = self.todo \cup {self.id}
            BY <2>4 DEF Owed, Due
        <3>. QED BY <1>1, <3>1 DEF Follows
    <2>5. CASE self.pc \in {"check", "store"}
        <3>1. Due(rows, self) = {}
            BY <2>5 DEF Due
        <3>. QED BY <1>1, <3>1 DEF Follows
    <2>. QED BY <1>1, <2>1, <2>2, <2>3, <2>4, <2>5 DEF Call, Pcs
<1>3. \A d \in Drivers : Sound(missed', rows', d)
    BY <1>1, <1>2 DEF Sound, WorthIn, VouchesIn
<1>4. Follows(missed', rows', Idle)
    BY <1>3, SoundFollows DEF Idle
<1>. QED BY <1>1, <1>4, OnlyCallMoves

\* At the start nobody is trusted.
LEMMA DerivedInit == ASSUME TrustAssumption, Init PROVE Derived
<1>1. \A c \in Calls : calls[c].pc = "idle"
    BY DEF Init, Idle
<1>2. \A d \in Drivers : rows[d] = NewProfile
    BY DEF Init
<1>3. \A d \in Drivers : Sound(missed, rows, d)
    BY <1>2 DEF Sound, WorthIn, NewProfile, FromDocuments
<1>. QED BY <1>1, <1>3 DEF Derived

\* Every request leaves each level as it must be.
LEMMA DerivedNext ==
    ASSUME TrustAssumption, Kept, Derived, Alone, Alone', [Next]_vars
    PROVE  Derived'
<1>1. CASE UNCHANGED vars
    BY <1>1 DEF vars, Derived
<1>2. ASSUME NEW c \in Calls, Step(c) PROVE Derived'
    BY <1>2, StoreDerives, CheckDerives, FindReferredDerives, SaveReloadDerives,
       SaveWriteDerives, RefreshReadDerives, ReadSponsorDerives, GrantDerives
       DEF Step
<1>. QED BY <1>1, <1>2, DriverCallDerives, SponsorCallDerives, DieDerives DEF Next

\* Only save() changes a driver's row, and it takes no approval back.
LEMMA ApprovalsStay ==
    ASSUME TrustAssumption, Kept, Derived, [Next]_vars, NEW d \in Drivers
    PROVE  ApprovalStays(d)
<1>1. CASE UNCHANGED rows
    BY <1>1 DEF ApprovalStays
<1>2. ASSUME NEW c \in Calls, SaveWrite(c)
      PROVE  ApprovalStays(d)
    <2>. DEFINE self == calls[c]
    <2>1. /\ self.pc = "write" /\ Holds(documents, self.id, self.copy)
          /\ Saves(missed, rows, self)
          /\ rows' = [rows EXCEPT ![self.id] =
                          SavedRow(rows[self.id], self.copy, self.dirty)]
        BY <1>2 DEF SaveWrite, At, Kept, Good, Derived, Follows
    <2>2. rows[d] \in Profile /\ d \in DOMAIN rows
        BY DEF Kept, RowsTyped
    <2>3. CASE d = self.id
        <3>1. self.copy \in Profile
            BY <2>1, <2>3, TrustAssumption DEF Holds, TrustAssumption
        <3>2. rows'[d] = SavedRow(rows[d], self.copy, self.dirty)
            BY <2>1, <2>2, <2>3
        <3>3. rows'[d].kyc \in {rows[d].kyc, self.copy.kyc}
            BY <2>2, <3>1, <3>2, SavedProfile
        <3>. QED BY <2>1, <2>3, <3>3 DEF Saves, ApprovalStays
    <2>4. CASE d # self.id
        BY <2>1, <2>2, <2>4 DEF ApprovalStays
    <2>. QED BY <2>3, <2>4
<1>. QED BY <1>1, <1>2 DEF Next, vars, Step, Store, Check, Grant, FindReferred,
            Die, SaveReload, RefreshRead, ReadCompany, ReadGuarantor,
            UpdateProfileRead, UploadRead, SubmitRead, ReviewRead, AssignRead,
            ChangeSponsorRead

\* Once nobody works, every level is the one derived from the rows.
LEMMA DerivedIsWorth == ASSUME Derived PROVE LevelIsDerived
<1>. SUFFICES ASSUME Quiet, NEW d \in Drivers, d \notin missed
              PROVE  rows[d].level = Worth(d)
    BY DEF LevelIsDerived
<1>1. Sound(missed, rows, d)
    BY DEF Derived, Quiet, At
<1>2. Worth(d) = WorthIn(rows, d)
    BY DEF Worth, WorthIn, Vouches, VouchesIn
<1>. QED BY <1>1, <1>2 DEF Sound

\* If requests and listeners follow one another, for any number of drivers and
\* sponsors: once nobody works, each driver's level is that of the present
\* documents and sponsors (refreshTrustLevel() after each change), but for the
\* drivers whom a call that failed was to refresh.
THEOREM LevelsAreDerived ==
    ASSUME TrustAssumption PROVE Spec /\ []Alone => []LevelIsDerived
<1>1. Init => Kept /\ Derived
    BY KeptInit, DerivedInit
<1>2. Kept /\ Derived /\ Alone /\ Alone' /\ [Next]_vars => Kept' /\ Derived'
    BY KeptNext, DerivedNext
<1>3. Derived => LevelIsDerived
    BY DerivedIsWorth
<1>. QED BY <1>1, <1>2, <1>3, PTL DEF Spec

\* If requests and listeners follow one another, an approval is for good
\* (submit(), reopenRejected()).
THEOREM ApprovalIsForGood ==
    ASSUME TrustAssumption
    PROVE  Spec /\ []Alone => [][\A d \in Drivers : ApprovalStays(d)]_vars
<1>1. Init => Kept /\ Derived
    BY KeptInit, DerivedInit
<1>2. Kept /\ Derived /\ Alone /\ Alone' /\ [Next]_vars => Kept' /\ Derived'
    BY KeptNext, DerivedNext
<1>3. Kept /\ Derived /\ [Next]_vars => [\A d \in Drivers : ApprovalStays(d)]_vars
    BY ApprovalsStay
<1>. QED BY <1>1, <1>2, <1>3, PTL DEF Spec

=============================================================================
