------------------------------ MODULE MCOrders -------------------------------
(***************************************************************************)
(* Small instances of the orders service for TLC.                           *)
(***************************************************************************)
EXTENDS OrdersSerial

CONSTANTS o1, r1, r2, k1

(***************************************************************************)
(* Handlers that overlap do so on one order, and there is one ride when one *)
(* of them dies.  The first ride requested is always r1 and the call that   *)
(* dies k1: their names do not matter.                                      *)
(***************************************************************************)
BoundedNext ==
    /\ KindNext
    /\ ~serial => \A o \in Orders \ {o1} : UNCHANGED orders[o]
    /\ kind = "death" => UNCHANGED rides[r2]
    /\ aborts' # aborts => calls'[k1] # calls[k1]
    /\ rides'[r1].status = "none" => rides'[r2].status = "none"

BoundedSpec == KindInit /\ [][BoundedNext]_<<vars, kind>> /\ Fairness

=============================================================================
