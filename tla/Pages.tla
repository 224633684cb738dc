-------------------------------- MODULE Pages --------------------------------
(***************************************************************************)
(* A customer walks a list page by page while rows come and go: the feed of *)
(* merchants nearby and the timeline of rides, orders and rentals           *)
(* (src/src/modules/discovery/discovery.service.ts) and a merchant's reviews *)
(* (src/src/modules/merchants/merchant-engagement.service.ts).              *)
(*                                                                         *)
(* Every page queries its sources afresh, each query bounded by a take and  *)
(* unaware of the cursor, sorts what came, drops what is not after the      *)
(* cursor and cuts the page.  Queries of one page run apart, and one that   *)
(* fails counts as empty in the feed and the timeline.                      *)
(*                                                                         *)
(* A row's rank is its place in the list's order: the rounded distance of a *)
(* merchant, or how old a row is, in milliseconds on the timeline, which is *)
(* sorted again after the queries.  Reviews are not: they come as SQL sorts *)
(* them, by microseconds, while a Date, and so the cursor, has milliseconds. *)
(***************************************************************************)
EXTENDS Naturals, FiniteSets, SequencesExt

CONSTANTS
    Limit,    \* rows of a page
    Take,     \* rows the queries of the timeline ask for (50 or 100)
    Ids,      \* ids of rows
    Ranks,    \* places in the order
    PerMilli, \* microseconds of a millisecond (1000)
    MaxRows,  \* bound: rows there are at one time
    NULL      \* no cursor

VARIABLES
    rows,      \* the rows the queries select from
    sources,   \* the sources of the list the customer walks
    walk       \* the walk

vars == <<rows, sources, walk>>

Timeline == {"food", "rental", "ride"}

\* The feed, the reviews, and the timeline with or without a filter.
Lists == {{"merchant"}, {"review"}, Timeline} \cup {{s} : s \in Timeline}

Row == [source : sources, rank : Ranks, id : Ids]

\* What the constants may be: no cursor is no row.
PagesAssumption ==
    /\ Limit \in Nat \ {0} /\ MaxRows \in Nat
    /\ Ids \subseteq Nat /\ Ranks \subseteq Nat /\ PerMilli \in Nat \ {0}
    /\ Take \in Nat \ {0}
    /\ NULL \notin [source : UNION Lists, rank : Ranks, id : Ids]

\* A source's place among types; the others are alone in their lists.
TypeOrder(s) == CASE s = "ride" -> 3 [] s = "rental" -> 2 [] OTHER -> 1

\* Where the walk is, the last row of the last page, what its queries have
\* returned and which are still out, and (history) all it was shown, the rows
\* that were there all the time, whether a query failed, and whether one left
\* rows out.
Start == [pc |-> "start", cursor |-> NULL, got |-> {}, out |-> {},
          shown |-> << >>, always |-> {}, failed |-> FALSE, cut |-> FALSE]

\* limit * 3, take, Math.min(limit + 1, 100).
TakeOf(s) ==
    CASE s = "merchant" -> 3 * Limit
      [] s = "review" -> Limit + 1
      [] OTHER -> Take

(***************************************************************************)
(* The rows.                                                                *)
(***************************************************************************)

\* A row appears anywhere in the order: a ride or order may be committed after
\* a younger one.
Appear(row) ==
    /\ Cardinality(rows) < MaxRows
    /\ \A other \in rows : other.source # row.source \/ other.id # row.id
    /\ rows' = rows \cup {row}
    /\ UNCHANGED <<sources, walk>>

\* A merchant is no longer active; the others are never deleted.
Vanish(row) ==
    /\ row.source = "merchant"
    /\ rows' = rows \ {row}
    /\ walk' = [walk EXCEPT !.always = @ \ {row}]
    /\ UNCHANGED sources

(***************************************************************************)
(* The order of the list.                                                   *)
(***************************************************************************)

\* Mutant of Before: rows of one rank are not told apart.
BeforeByRank(a, b) == a.rank < b.rank

\* compareActivityDesc(), isAfterCursor() and the feed's sort.
Before(a, b) ==
    \/ a.rank < b.rank
    \/ a.rank = b.rank /\ TypeOrder(a.source) < TypeOrder(b.source)
    \/ a.rank = b.rank /\ a.source = b.source /\ a.id < b.id

\* The row as the cursor knows it: the Date of a review has no microseconds.
Truncated(row) ==
    IF row.source = "review" THEN [row EXCEPT !.rank = @ \div PerMilli] ELSE row

\* What came, in order: the sort of the feed and of the merged timeline, and
\* that of SQL, which the reviews keep.
Sorted(found) ==
    CHOOSE list \in SetToSeqs(found) :
        \A i, j \in DOMAIN list : i < j => ~Before(list[j], list[i])

\* Mutant of AfterCursor: the row the cursor names comes again.
AfterCursorAgain(found, cursor) ==
    {row \in found :
        cursor = NULL \/ ~Before(Truncated(row), Truncated(cursor))}

AfterCursor(found, cursor) ==
    {row \in found :
        cursor = NULL \/ Before(Truncated(cursor), Truncated(row))}

(***************************************************************************)
(* A page.                                                                  *)
(***************************************************************************)

\* The queries of a page go out.
Request ==
    /\ walk.pc \in {"start", "more"}
    /\ walk' = [walk EXCEPT !.pc = "query", !.out = sources, !.got = {},
                            !.always = IF walk.pc = "start" THEN rows ELSE @]
    /\ UNCHANGED <<rows, sources>>

\* Which rows a query may leave out beyond its take: of the timeline any of the
\* last rank, as SQL does not tell them apart; of reviews the last in order; of
\* merchants any, as what the take orders them by is no distance (a Raw find
\* operator).
Leaves(in, left) ==
    CASE in.source = "merchant" -> TRUE
      [] in.source = "review" -> ~Before(left, in)
      [] OTHER -> in.rank <= left.rank

\* TAKE rows of a source.
Selected(s) ==
    LET all == {row \in rows : row.source = s}
    IN  {found \in SUBSET all :
            /\ Cardinality(found) =
                   IF Cardinality(all) < TakeOf(s) THEN Cardinality(all)
                   ELSE TakeOf(s)
            /\ \A in \in found, left \in all \ found : Leaves(in, left)}

\* A query returns.
Answer(s) ==
    /\ walk.pc = "query" /\ s \in walk.out
    /\ \E found \in Selected(s) :
          walk' = [walk EXCEPT
              !.out = @ \ {s}, !.got = @ \cup found,
              !.cut = @ \/ \E row \in rows \ found : row.source = s]
    /\ UNCHANGED <<rows, sources>>

\* settled(): a query fails and its rows are missing.
Fail(s) ==
    /\ walk.pc = "query" /\ s \in walk.out
    /\ s # "review"
    /\ walk' = [walk EXCEPT !.out = @ \ {s}, !.failed = TRUE]
    /\ UNCHANGED <<rows, sources>>

\* The page, and a cursor if rows are left.
Reply ==
    LET after == AfterCursor(walk.got, walk.cursor)
        sorted == Sorted(after)
        page == SubSeq(sorted, 1, IF Limit < Len(sorted) THEN Limit ELSE Len(sorted))
        more == Cardinality(after) > Len(page) /\ Len(page) > 0
    IN  /\ walk.pc = "query" /\ walk.out = {}
        /\ walk' = [walk EXCEPT
               !.pc = IF more THEN "more" ELSE "done",
               !.cursor = IF more THEN Last(page) ELSE NULL,
               !.shown = @ \o page, !.got = {}]
        /\ UNCHANGED <<rows, sources>>

-----------------------------------------------------------------------------

Init ==
    /\ rows = {}
    /\ sources \in Lists
    /\ walk = Start

Next ==
    \/ \E row \in Row : Appear(row)
    \/ \E row \in rows : Vanish(row)
    \/ Request
    \/ \E s \in sources : Answer(s) \/ Fail(s)
    \/ Reply

Spec == Init /\ [][Next]_vars

=============================================================================
