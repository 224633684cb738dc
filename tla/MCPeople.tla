------------------------------ MODULE MCPeople -------------------------------
(***************************************************************************)
(* Small instances, in one run, of the parts of People for TLC.             *)
(***************************************************************************)
EXTENDS People, TLC

CONSTANT n1  \* a merchant's name

Symmetry == Permutations(Calls)

\* DEFAULT_CONFIGS: the last level takes any value.
SeedCaps == <<10, 20, NoCap>>

\* Parts that do not move start in one state, and of the filtered timelines
\* one stands for the others.
BoundedInit ==
    /\ PartInit
    /\ part # "rentals" =>
           \A v \in Vehicles : vehicles[v] = CHOOSE row \in VehicleRow : TRUE
    /\ part # "ratings" => merchant.name = n1
    /\ sources \in IF part = "pages"
                   THEN {{"merchant"}, {"review"}, {"ride"}, Pa!Timeline}
                   ELSE {Pa!Timeline}

\* No call is about a sponsor or assigns one, or none.
NoSponsors ==
    /\ cleared = {}
    /\ \A c \in Calls :
          /\ trustCalls[c].id \notin Tr!Sponsors
          /\ trustCalls[c].copy \in Tr!Profile =>
                 {trustCalls[c].copy.guarantor, trustCalls[c].copy.company} = {NULL}

\* One of the values nobody uses: another would do as well.
OneOf(unused) == IF unused = {} THEN {} ELSE {CHOOSE x \in unused : TRUE}

HasWon(d) == \E b \in Bookings : d \in winners[b]

\* The first driver to take a booking is d1, as another would do as well, who
\* is the only one to book.
\* When requests overlap, no sponsor is involved in those about a driver, none of
\* which leaves a level behind, and nobody dies or asks for another code
\* after the first token in those that sign in; the merchant and the driver, who
\* share nothing, are not both rated; timelines have two ids of rides, one of
\* each other kind, and reviews alone three ranks; a name typed by hand is that
\* of a file on the disk or of the next one, and one is typed at most.
BoundedNext ==
    /\ PartNext
    /\ part = "rentals" =>
           /\ ((\E d \in Drivers : HasWon(d)) => HasWon(d1))'
           /\ \A b \in Bookings : bookings'[b].client \notin Drivers \ {d1}
    /\ part = "trust" /\ ~serial => NoSponsors' /\ missed' = {}
    /\ part = "ratings" => Ra!NoReviews = reviews' \/ Ra!NoRatings = ratings'
    /\ part = "accounts" =>
           /\ ~serial => tally'.deaths = 0
           /\ ~serial /\ tally.signed # {} => tally'.generated = tally.generated
           /\ tally'.generated \subseteq tally.generated \cup
                                          OneOf(Codes \ tally.generated)
           /\ tally'.signed \subseteq tally.signed \cup
                                       OneOf(Tokens \ tally.signed)
    /\ part = "pages" =>
           \A row \in listed' :
               /\ row.source \in Pa!Timeline =>
                      row.id \in IF row.source = "ride" THEN 1..2 ELSE {1}
               /\ row.source # "review" => row.rank \in 0..1
    /\ part = "files" =>
           /\ disk' \subseteq disk \cup OneOf(Up!Fresh)
           /\ Cardinality(byHand') <= 1

BoundedSpec == BoundedInit /\ [][BoundedNext]_partVars

=============================================================================
