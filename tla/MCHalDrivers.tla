---------------------------- MODULE MCHalDrivers ----------------------------
(* The instances of HalDrivers that TLC checks. *)
EXTENDS HalDrivers

CONSTANTS c1, c2

(* The second client breaks in on the first. *)
Ranked == [c \in Clients |-> IF c = c1 THEN 1 ELSE 2]

(* The first client uses port 1, the second one both. *)
FirstOrBoth == [c \in Clients |-> IF c = c1 THEN {1} ELSE {1, 2}]
=============================================================================
