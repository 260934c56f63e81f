---------------------------- MODULE BoundedQueue ----------------------------
(***************************************************************************)
(* What an array in the first-in-first-out order promises its callers: a   *)
(* queue of at most capacity items.  reply is what the last call gave the  *)
(* caller: an item, or whether there was room for one.                     *)
(***************************************************************************)
EXTENDS Naturals, Sequences

CONSTANTS Data, NoData, MaxSize

VARIABLES queue, capacity, reply

Replies == Data \cup {NoData, "added", "refused", "none"}

Init ==
    /\ queue = <<>>
    /\ capacity = 0
    /\ reply = "none"

(* The queue is made anew or emptied. *)
Reset ==
    /\ queue' = <<>>
    /\ capacity' \in 0..MaxSize
    /\ reply' = "none"

Put(d) ==
    /\ Len(queue) < capacity
    /\ queue' = Append(queue, d)
    /\ reply' = "added"
    /\ UNCHANGED capacity

PutFull ==
    /\ Len(queue) = capacity
    /\ reply' = "refused"
    /\ UNCHANGED <<queue, capacity>>

(* The oldest item leaves: for the caller, or to be deleted. *)
Get ==
    /\ queue # <<>>
    /\ reply' \in {Head(queue), "none"}
    /\ queue' = Tail(queue)
    /\ UNCHANGED capacity

GetEmpty ==
    /\ queue = <<>>
    /\ reply' \in {NoData, "none"}
    /\ UNCHANGED <<queue, capacity>>

Next == Reset \/ (\E d \in Data : Put(d)) \/ PutFull \/ Get \/ GetEmpty

Spec == Init /\ [][Next]_<<queue, capacity, reply>>
=============================================================================
