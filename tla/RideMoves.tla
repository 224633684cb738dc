------------------------------ MODULE RideMoves ------------------------------
(***************************************************************************)
(* How the status of a ride may move, as the modules that follow a ride see *)
(* it: the checks of accept(), start(), complete() and cancel() in          *)
(* rides.service.ts taken one call at a time.                               *)
(***************************************************************************)

LegalMoves ==
    {<<"requested", "accepted">>, <<"accepted", "in_progress">>,
     <<"in_progress", "completed">>}
    \cup {<<active, "cancelled">> :
              active \in {"requested", "accepted", "in_progress"}}

=============================================================================
