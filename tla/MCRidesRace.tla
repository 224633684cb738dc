----------------------------- MODULE MCRidesRace -----------------------------
(***************************************************************************)
(* The instance of the ride service in which requests race.                 *)
(***************************************************************************)
EXTENDS MCRides, RidesSerial

=============================================================================
