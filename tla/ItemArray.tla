----------------------------- MODULE ItemArray -----------------------------
(***************************************************************************)
(* The two libraries that hold items in an array of slots: CArrayMgr, of   *)
(* the voice modules, and na_array, of the daemon and its server.  Both    *)
(* know a direct order, where an item goes into the first free slot, and   *)
(* a first-in-first-out order, where the slots are a ring.                 *)
(*                                                                         *)
(* An item has the datum the caller handed over and a delete flag: with    *)
(* it the array frees the datum when the item leaves, unless the caller    *)
(* asks for the datum.  Every call runs under the lock of the array, so it *)
(* is one step.                                                            *)
(***************************************************************************)
EXTENDS Integers, FiniteSets

CONSTANTS
    Data,       \* what callers put into the array
    NoData,     \* the null pointer
    Id,         \* the id a datum is added under, or NoId
    NoId,       \* the null pointer given for an id
    KeptId,     \* of each id, what the field of an item keeps: a long one is cut
    MaxSize,    \* bound: the largest array a caller makes
    Libs        \* the libraries looked at

ASSUME DataAssumption    == NoData \notin Data
ASSUME StringsAssumption == {"added", "refused", "none"} \cap (Data \cup {NoData}) = {}
ASSUME MaxSizeAssumption == MaxSize \in Nat
ASSUME LibsAssumption    == Libs \subseteq {"CArrayMgr", "na_array"}

VARIABLES
    lib,        \* the library the array belongs to
    order,      \* "none" before array_init and after array_term
    chk_dup,    \* the flag of array_init that is to keep the ids apart
    size,
    count,
    head,
    tail,
    items,      \* per slot
    owner,      \* of each datum: its caller, the array, "freed", or "lost"
    reply       \* what the last add or del gave the caller

vars == <<lib, order, chk_dup, size, count, head, tail, items, owner, reply>>

Items  == [data : Data, del : BOOLEAN]
NoItem == [data |-> NoData, del |-> FALSE]
AllSlots == 0..(MaxSize - 1)
Slots == 0..(size - 1)
Empty == [i \in AllSlots |-> NoItem]

TypeOK ==
    /\ lib \in Libs
    /\ order \in {"none", "DIRECT", "FIFO"}
    /\ chk_dup \in BOOLEAN
    /\ size \in 0..MaxSize
    /\ count \in 0..MaxSize
    /\ head \in 0..MaxSize
    /\ tail \in 0..MaxSize
    /\ items \in [AllSlots -> Items \cup {NoItem}]
    /\ owner \in [Data -> {"caller", "array", "freed", "lost"}]
    /\ reply \in Data \cup {NoData, "added", "refused", "none"}

Init ==
    /\ lib \in Libs
    /\ order = "none" /\ chk_dup = FALSE
    /\ size = 0 /\ count = 0 /\ head = 0 /\ tail = 0
    /\ items = Empty
    /\ owner = [d \in Data |-> "caller"]
    /\ reply = "none"

Used == {i \in Slots : items[i] # NoItem}

First(S) == {i \in S : \A j \in S : i <= j}

-----------------------------------------------------------------------------
(* What the calls are made of. *)

In(library) == lib = library /\ UNCHANGED lib

(* Mutant: the loops stop one item early. *)
Reached_early == {i \in Used : Cardinality({j \in Used : j < i}) < count - 1}

(* The loops over the used slots stop after count of them. *)
Reached == {i \in Used : Cardinality({j \in Used : j < i}) < count}

(* Who has a datum once its item left the array: the caller, when it took it or
   did not leave its deletion to the array. *)
Released(item, taken) == IF taken \/ ~item.del THEN "caller" ELSE "freed"

ReleaseAll ==
    owner' = [d \in Data |->
                IF \E i \in Reached : items[i].data = d
                THEN Released(items[CHOOSE i \in Reached : items[i].data = d], FALSE)
                ELSE owner[d]]

(* Mutant: a deletion does not count. *)
Release_uncounted(i, taken) ==
    /\ items' = [items EXCEPT ![i] = NoItem]
    /\ owner' = [owner EXCEPT ![items[i].data] = Released(items[i], taken)]
    /\ reply' = IF taken THEN items[i].data ELSE "none"
    /\ UNCHANGED count

Release(i, taken) ==
    /\ items' = [items EXCEPT ![i] = NoItem]
    /\ owner' = [owner EXCEPT ![items[i].data] = Released(items[i], taken)]
    /\ reply' = IF taken THEN items[i].data ELSE "none"
    /\ count' = count - 1

(* A deletion that finds nothing leaves the caller's pointer as it was. *)
Nothing(taken) ==
    /\ reply' = IF taken THEN NoData ELSE "none"
    /\ UNCHANGED <<order, chk_dup, size, count, head, tail, items, owner>>

Renew(n, o, dup) ==
    /\ size' = n /\ order' = o /\ chk_dup' = dup
    /\ count' = 0 /\ head' = 0 /\ tail' = 0
    /\ items' = Empty
    /\ reply' = "none"

(* Mutant: the slots are not a ring. *)
RingSlot_flat == IF head # tail \/ 0 < count THEN tail + 1 ELSE tail

(* The slot the next item goes to, or none: the first free one, or the one
   after the tail (the tail itself in an empty ring). *)
RingSlot == IF head # tail \/ 0 < count THEN (tail + 1) % size ELSE tail

FreeSlot ==
    IF order = "DIRECT" THEN First(Slots \ Used)
                        ELSE {RingSlot} \ Used

Place(i, d, del) ==
    /\ items' = [items EXCEPT ![i] = [data |-> d, del |-> del]]
    /\ owner' = [owner EXCEPT ![d] = "array"]
    /\ tail' = IF order = "FIFO" THEN i ELSE tail
    /\ count' = count + 1
    /\ reply' = "added"
    /\ UNCHANGED <<order, chk_dup, size, head>>

Refuse ==
    /\ reply' = "refused"
    /\ UNCHANGED <<order, chk_dup, size, count, head, tail, items, owner>>

(* CArrayMgr compares as many characters as the field keeps, na_array the whole
   id it is asked for, with what an item kept. *)
AskedId(d) == IF lib = "CArrayMgr" THEN KeptId[Id[d]] ELSE Id[d]

WithId(d) == {i \in Reached : KeptId[Id[items[i].data]] = AskedId(d)}

-----------------------------------------------------------------------------
(* CArrayMgr. *)

array_init(n, o, dup) ==
    /\ In("CArrayMgr")
    /\ Renew(n, o, dup)
    /\ IF order # "none" /\ 0 < size THEN ReleaseAll ELSE UNCHANGED owner

array_term ==
    /\ In("CArrayMgr")
    /\ order # "none"
    /\ Renew(0, "none", FALSE)
    /\ ReleaseAll

(* The duplicate flag is stored and not looked at. *)
array_add(d, del) ==
    /\ In("CArrayMgr")
    /\ owner[d] = "caller"
    /\ \/ /\ count = size \/ FreeSlot = {}
          /\ Refuse
       \/ /\ count # size
          /\ \E i \in FreeSlot : Place(i, d, del)

(* Mutant: the head stays where it is, as in na_array_del. *)
HeadAfterDel_unmoved == head

HeadAfterDel ==
    IF head < tail THEN head + 1
    ELSE IF head # tail THEN (head + 1) % size ELSE head

array_del(taken) ==
    /\ In("CArrayMgr")
    /\ \/ /\ count = 0 \/ (order = "FIFO" /\ head \notin Used)
          /\ Nothing(taken)
       \/ /\ count # 0 /\ order = "DIRECT" /\ Reached # {}
          /\ \E i \in First(Reached) : Release(i, taken)
          /\ UNCHANGED <<order, chk_dup, size, head, tail>>
       \/ /\ count # 0 /\ order = "FIFO" /\ head \in Used
          /\ Release(head, taken)
          /\ head' = HeadAfterDel
          /\ UNCHANGED <<order, chk_dup, size, tail>>

(* The other deletions work on the direct order; refused calls change nothing. *)
array_del_by_index(i, taken) ==
    /\ In("CArrayMgr")
    /\ order = "DIRECT" /\ i \in Used
    /\ Release(i, taken)
    /\ UNCHANGED <<order, chk_dup, size, head, tail>>

array_del_by_id(d, taken) ==
    /\ In("CArrayMgr")
    /\ order = "DIRECT" /\ Id[d] # NoId /\ WithId(d) # {}
    /\ \E i \in First(WithId(d)) : Release(i, taken)
    /\ UNCHANGED <<order, chk_dup, size, head, tail>>

array_del_all ==
    /\ In("CArrayMgr")
    /\ order # "none"
    /\ items' = [i \in AllSlots |-> IF i \in Reached THEN NoItem ELSE items[i]]
    /\ count' = 0 /\ head' = 0 /\ tail' = 0
    /\ reply' = "none"
    /\ ReleaseAll
    /\ UNCHANGED <<order, chk_dup, size>>

(* The iteration: the first slot, the slot after slot i. *)
array_get_first ==
    IF order = "FIFO" THEN {head} \cap Used
                      ELSE First(Used)

(* Mutant: the iteration ends at the last slot of the ring. *)
array_get_next_flat(i) ==
    IF order = "FIFO" THEN (IF i # tail THEN {i + 1} \cap Used ELSE {})
    ELSE First({j \in Used : j > i})

array_get_next(i) ==
    IF order = "FIFO" THEN (IF i # tail THEN {(i + 1) % size} \cap Used ELSE {})
    ELSE First({j \in Used : j > i})

-----------------------------------------------------------------------------
(* na_array: the same, but for the duplicate check of the direct order and the
   head of the ring, which no deletion moves. *)

na_array_init(n, o, dup) ==
    /\ In("na_array")
    /\ Renew(n, o, dup)
    /\ IF order # "none" THEN ReleaseAll ELSE UNCHANGED owner

na_array_term ==
    /\ In("na_array")
    /\ order # "none"
    /\ Renew(0, "none", FALSE)
    /\ ReleaseAll

(* A datum without an id is never a duplicate. *)
Duplicate(d) == order = "DIRECT" /\ chk_dup /\ Id[d] # NoId /\ WithId(d) # {}

(* Without a free slot in a ring that is not full, the call answers 0 as if it
   had stored the datum. *)
na_array_add(d, del) ==
    /\ In("na_array")
    /\ order # "none" /\ owner[d] = "caller"
    /\ \/ /\ count = size \/ Duplicate(d)
          /\ Refuse
       \/ /\ count # size /\ ~Duplicate(d)
          /\ \E i \in FreeSlot : Place(i, d, del)
       \/ /\ count # size /\ ~Duplicate(d) /\ FreeSlot = {}
          /\ owner' = [owner EXCEPT ![d] = "lost"]
          /\ reply' = "added"
          /\ UNCHANGED <<order, chk_dup, size, count, head, tail, items>>

na_array_del(taken) ==
    /\ In("na_array")
    /\ order # "none"
    /\ LET first == IF order = "DIRECT" THEN Used ELSE {head} \cap Used IN
       \/ /\ count = 0 \/ first = {}
          /\ Nothing(taken)
       \/ /\ count # 0 /\ first # {}
          /\ \E i \in First(first) : Release(i, taken)
          /\ UNCHANGED <<order, chk_dup, size, head, tail>>

na_array_del_by_index(i, taken) ==
    /\ In("na_array")
    /\ order = "DIRECT" /\ i \in Used
    /\ Release(i, taken)
    /\ UNCHANGED <<order, chk_dup, size, head, tail>>

na_array_del_by_id(d, taken) ==
    /\ In("na_array")
    /\ order = "DIRECT" /\ Id[d] # NoId /\ WithId(d) # {}
    /\ \E i \in First(WithId(d)) : Release(i, taken)
    /\ UNCHANGED <<order, chk_dup, size, head, tail>>

na_array_del_all ==
    /\ In("na_array")
    /\ order # "none"
    /\ Renew(size, order, chk_dup)
    /\ ReleaseAll

-----------------------------------------------------------------------------
Orders == {"DIRECT", "FIFO"}

CArrayMgr ==
    \/ \E n \in 0..MaxSize, o \in Orders, dup \in BOOLEAN : array_init(n, o, dup)
    \/ array_term
    \/ \E d \in Data, del \in BOOLEAN : array_add(d, del)
    \/ \E taken \in BOOLEAN : array_del(taken)
    \/ \E i \in AllSlots, taken \in BOOLEAN : array_del_by_index(i, taken)
    \/ \E d \in Data, taken \in BOOLEAN : array_del_by_id(d, taken)
    \/ array_del_all

na_array ==
    \/ \E n \in 0..MaxSize, o \in Orders, dup \in BOOLEAN : na_array_init(n, o, dup)
    \/ na_array_term
    \/ \E d \in Data, del \in BOOLEAN : na_array_add(d, del)
    \/ \E taken \in BOOLEAN : na_array_del(taken)
    \/ \E i \in AllSlots, taken \in BOOLEAN : na_array_del_by_index(i, taken)
    \/ \E d \in Data, taken \in BOOLEAN : na_array_del_by_id(d, taken)
    \/ na_array_del_all

Next == CArrayMgr \/ na_array

Spec == Init /\ [][Next]_vars

-----------------------------------------------------------------------------
(* Properties *)

(* The ring of CArrayMgr: the used slots are those from the head to the tail,
   around the end if need be, and count is how many (CArrayMgr.c:134-151 and
   259-304). *)
RingShape ==
    order = "FIFO" =>
        /\ count = 0 => head = tail /\ Used = {}
        /\ count > 0 /\ head <= tail =>
              Used = head..tail /\ count = tail - head + 1
        /\ count > 0 /\ head > tail =>
              Used = Slots \ ((tail + 1)..(head - 1)) /\ count = size - head + tail + 1

RingInv ==
    /\ TypeOK
    /\ \A i \in AllSlots \ Slots : items[i] = NoItem
    /\ order = "none" => size = 0
    /\ count <= size
    /\ size > 0 => head \in Slots /\ tail \in Slots
    /\ lib = "CArrayMgr" => RingShape

(* Every loop over the array relies on the count: it stops after that many used
   slots, and a full array is one whose count is its size. *)
CountIsUsed == count = Cardinality(Used)

(* A datum is in the array exactly when the array has it, and in one slot only:
   none is dropped without being freed or handed back, and none is freed while
   it is still found in the array.  CArrayMgr loses none on the way in either. *)
ItemsOwned ==
    \A d \in Data :
        /\ Cardinality({i \in Used : items[i].data = d})
               = IF owner[d] = "array" THEN 1 ELSE 0
        /\ owner[d] = "lost" => lib = "na_array"

(* An iteration that starts at the first item and asks for the next one until
   there is none has seen every item, and nothing else. *)
Seen[n \in 0..MaxSize] ==
    IF n = 0 THEN array_get_first
    ELSE Seen[n - 1] \cup UNION {array_get_next(i) : i \in Seen[n - 1]}

Visited == Seen[MaxSize]

IterationVisitsAll == lib = "CArrayMgr" \/ order = "DIRECT" => Visited = Used

(* na_array keeps the ids of a direct array apart when it is asked to, as far as
   ids are given and fit the field.  Any number of items may have no id, and two
   ids that are cut to the same field do not keep each other out. *)
HasWholeId(i) == Id[items[i].data] # NoId /\ KeptId[Id[items[i].data]] = Id[items[i].data]

IdsUnique ==
    lib = "na_array" /\ order = "DIRECT" /\ chk_dup =>
        \A i, j \in Used :
            HasWholeId(i) /\ HasWholeId(j) /\ Id[items[i].data] = Id[items[j].data]
                => i = j

(* In the first-in-first-out order a CArrayMgr array is a bounded queue. *)
IsQueue == lib = "CArrayMgr" /\ order = "FIFO"

SlotOf(n) == IF head + n - 1 < size THEN head + n - 1 ELSE head + n - 1 - size

QueueItems == IF IsQueue THEN [n \in 1..count |-> items[SlotOf(n)].data] ELSE <<>>
QueueSize  == IF IsQueue THEN size ELSE 0
QueueReply == IF IsQueue THEN reply ELSE "none"

Queue == INSTANCE BoundedQueue WITH
    queue <- QueueItems, capacity <- QueueSize, reply <- QueueReply

ImplementsQueue == Queue!Spec
=============================================================================
