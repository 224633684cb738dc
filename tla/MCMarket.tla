------------------------------ MODULE MCMarket -------------------------------
(***************************************************************************)
(* Small instances, in one run, of the parts of Market for TLC.             *)
(***************************************************************************)
EXTENDS Market

CONSTANT p1  \* a promotion

\* Overlapping updates are of p1, which is the only promotion then, asks for
\* no minimum and keeps its dates: a promotion that ends before it starts is
\* never applied.
OnlyP1 ==
    /\ \A p \in Promotions \ {p1} : promotions[p] = NULL
    /\ \A row \in {promotions[p1]} \cup {updates[c].copy : c \in Calls} :
          row # NULL => row.minimum = 0 /\ row.starts = 1 /\ row.ends = 2

\* Nobody works on a product whose movement was lost, of which nothing is
\* promised, and the tracking of the first product alone ends with units left.
OnlyTheFirst ==
    /\ \A p \in torn : Quiet(p)
    /\ \A p, q \in Products : p < q => dropped[q] = 0

BoundedNext ==
    /\ PartNext
    /\ part = "stock" => OnlyTheFirst'
    /\ part = "promotions" /\ ~serial => OnlyP1'

BoundedSpec == PartInit /\ [][BoundedNext]_PartVars /\ PartFairness

=============================================================================
