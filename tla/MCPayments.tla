----------------------------- MODULE MCPayments -----------------------------
(***************************************************************************)
(* Small instances of the payments service for TLC.                         *)
(***************************************************************************)
EXTENDS PaymentsProps, TLC

AllNotices == {"PROCESSING", "PAID", "FAILED"}
FinalNotices == {"PAID", "FAILED"}

Symmetry == Permutations(Calls)

=============================================================================
