---------------------------- MODULE MCAvailability ----------------------------
(* Two regions, one with four days in its store, one with two; with a window  *)
(* of two days the first day of each store is listed and refused.             *)
EXTENDS Availability

MCDates == 1 .. 4
MCStore == [r \in Regions |-> IF r = "bay" THEN 1 .. 4 ELSE {2, 3}]
MCOrder == <<"bay", "arabian">>
=============================================================================
