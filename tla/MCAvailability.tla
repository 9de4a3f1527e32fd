--------------------------- MODULE MCAvailability ---------------------------
(* The constants of Availability are given by its .cfg. *)
EXTENDS Availability
=============================================================================
