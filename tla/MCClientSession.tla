-------------------------- MODULE MCClientSession --------------------------
(* The instances of ClientSession that TLC checks. *)
EXTENDS ClientSession

CONSTANTS c1, c2

CallOnce  == [c \in Clients |-> 1]
CallTwice == [c \in Clients |-> 2]
=============================================================================
