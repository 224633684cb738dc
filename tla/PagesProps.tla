----------------------------- MODULE PagesProps ------------------------------
(***************************************************************************)
(* What walking a list by cursor promises.                                  *)
(***************************************************************************)
EXTENDS Pages

\* Two reviews of one millisecond: their cursors tell them apart by id alone.
SameMilli(a, b) ==
    /\ a.source = "review" /\ b.source = "review"
    /\ Truncated(a).rank = Truncated(b).rank

\* There is another review of the row's millisecond.
Crowded(row) == \E other \in rows \ {row} : SameMilli(row, other)

\* Whatever rows come and go between pages and between the queries of a page,
\* and whichever queries fail: all pages together are one list in order, so
\* nothing is shown twice, but for reviews of one millisecond (feed(),
\* activity(), listReviews()).
PagesInOrder ==
    \A i, j \in DOMAIN walk.shown :
        LET a == walk.shown[i]  b == walk.shown[j]
        IN  i < j => Before(a, b) \/ (SameMilli(a, b) /\ Crowded(a))

\* A row that was there all the time is in one of the pages when they end, if
\* no query failed and none was cut short by its take, and the row is not one
\* of several reviews of a millisecond.
NoRowIsSkipped ==
    walk.pc = "done" /\ ~walk.failed /\ ~walk.cut =>
        \A row \in walk.always : Crowded(row) \/ row \in ToSet(walk.shown)

\* 'paginates via an opaque cursor without gaps or overlaps'
\* (discovery.service.spec.ts:119): a merchant that was there all the time is
\* in the feed, if no query failed.
FeedHasNoGaps ==
    walk.pc = "done" /\ ~walk.failed /\ sources = {"merchant"} =>
        walk.always \subseteq ToSet(walk.shown)

=============================================================================
