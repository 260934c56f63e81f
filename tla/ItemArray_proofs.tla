-------------------------- MODULE ItemArray_proofs --------------------------
(***************************************************************************)
(* Proofs about ItemArray: for every set of data and every size, the slots *)
(* agree with the count and the ring keeps its shape, and the ring of      *)
(* CArrayMgr implements BoundedQueue.                                      *)
(***************************************************************************)
EXTENDS ItemArray, FiniteSetTheorems, SequenceTheorems, TLAPS

(* RingInv needs the count to be that of the used slots: the calls that empty
   the array stop after count of them. *)
ArrayInv == RingInv /\ CountIsUsed

-----------------------------------------------------------------------------
(* The next place in a ring. *)
LEMMA ModStep ==
    ASSUME NEW n \in Nat \ {0}, NEW i \in 0..(n - 1)
    PROVE  (i + 1) % n = IF i + 1 = n THEN 0 ELSE i + 1
<1>1. CASE i + 1 = n
  BY <1>1
<1>2. CASE i + 1 # n
  BY <1>2
<1> QED
  BY <1>1, <1>2

(* The used slots are finitely many. *)
LEMMA UsedFinite ==
    ASSUME TypeOK
    PROVE  /\ IsFiniteSet(Used)
           /\ Slots \subseteq AllSlots
           /\ Used = {i \in AllSlots : i < size /\ items[i] # NoItem}
<1>1. Slots \subseteq AllSlots /\ size \in Nat
  BY MaxSizeAssumption DEF TypeOK, Slots, AllSlots
<1>2. IsFiniteSet(Slots)
  BY <1>1, FS_Interval DEF Slots
<1>3. Used \in SUBSET Slots
  BY DEF Used
<1>4. IsFiniteSet(Used)
  BY <1>2, <1>3, FS_Subset
<1>5. Used = {i \in AllSlots : i < size /\ items[i] # NoItem}
  BY <1>1, MaxSizeAssumption DEF Used, Slots, AllSlots
<1> QED
  BY <1>1, <1>4, <1>5

(* A datum in a slot makes it a used one. *)
LEMMA ItemIsUsed ==
    ASSUME NEW d \in Data, NEW del \in BOOLEAN
    PROVE  /\ [data |-> d, del |-> del] \in Items
           /\ [data |-> d, del |-> del] # NoItem
<1>1. [data |-> d, del |-> del].data # NoItem.data
  BY DataAssumption DEF NoItem
<1> QED
  BY <1>1 DEF Items

(* The loops that stop after count used slots see all of them. *)
LEMMA AllReached ==
    ASSUME TypeOK, CountIsUsed
    PROVE  Reached = Used
<1> SUFFICES ASSUME NEW i \in Used
             PROVE  Cardinality({j \in Used : j < i}) < count
  BY DEF Reached
<1> DEFINE S == {j \in Used : j < i}
<1>1. IsFiniteSet(Used)
  BY UsedFinite
<1>2. S \in SUBSET Used /\ i \notin S
  BY DEF Used, Slots, TypeOK
<1>3. Cardinality(S) <= Cardinality(Used) /\ Cardinality(S) # Cardinality(Used)
  BY <1>1, <1>2, FS_Subset
<1>4. IsFiniteSet(S)
  BY <1>1, <1>2, FS_Subset
<1>5. Cardinality(S) \in Nat /\ Cardinality(Used) \in Nat
  BY <1>1, <1>4, FS_CardinalityType
<1> HIDE DEF S
<1>6. Cardinality(S) < count
  BY <1>3, <1>5 DEF CountIsUsed
<1> QED
  BY <1>6 DEF S

-----------------------------------------------------------------------------
(* An array made anew or emptied keeps the invariant. *)
LEMMA RenewKeepsInv ==
    ASSUME lib \in Libs, UNCHANGED lib,
           size' \in 0..MaxSize, order' \in {"none", "DIRECT", "FIFO"}, chk_dup' \in BOOLEAN,
           order' = "none" => size' = 0,
           count' = 0, head' = 0, tail' = 0, items' = Empty, reply' = "none",
           owner' \in [Data -> {"caller", "array", "freed", "lost"}]
    PROVE  ArrayInv'
<1>1. \A i \in AllSlots : items'[i] = NoItem
  BY DEF Empty
<1>2. TypeOK'
  BY MaxSizeAssumption DEF TypeOK, Empty
<1>3. Used' = {}
  BY <1>1, <1>2, MaxSizeAssumption DEF Used, Slots, AllSlots, TypeOK
<1>4. CountIsUsed'
  BY <1>3, FS_EmptySet DEF CountIsUsed
<1>5. RingShape'
  BY <1>3 DEF RingShape
<1>6. \A i \in AllSlots \ Slots' : items'[i] = NoItem
  BY <1>1
<1>7. size' > 0 => head' \in Slots' /\ tail' \in Slots'
  <2>1. size' \in Nat
    BY MaxSizeAssumption
  <2>2. Slots' = 0..(size' - 1)
    BY DEF Slots
  <2>3. \A n \in Nat : n > 0 => 0 \in 0..(n - 1)
    OBVIOUS
  <2> QED
    BY <2>1, <2>2, <2>3
<1>8. count' <= size'
  BY MaxSizeAssumption
<1> QED
  BY <1>2, <1>4, <1>5, <1>6, <1>7, <1>8 DEF ArrayInv, RingInv

(* What a call hands back is an owner. *)
LEMMA ReleaseAllType ==
    ASSUME TypeOK, ReleaseAll
    PROVE  owner' \in [Data -> {"caller", "array", "freed", "lost"}]
  BY DEF TypeOK, ReleaseAll, Released

(* A call that leaves the slots alone keeps the invariant. *)
LEMMA SameSlotsKeepInv ==
    ASSUME ArrayInv, UNCHANGED <<lib, order, chk_dup, size, count, head, tail, items>>,
           owner' \in [Data -> {"caller", "array", "freed", "lost"}],
           reply' \in Data \cup {NoData, "added", "refused", "none"}
    PROVE  ArrayInv'
<1>1. Used' = Used /\ Slots' = Slots
  BY DEF Used, Slots
<1>2. TypeOK'
  BY DEF ArrayInv, RingInv, TypeOK
<1>3. RingShape' = RingShape
  BY <1>1 DEF RingShape
<1> QED
  BY <1>1, <1>2, <1>3 DEF ArrayInv, RingInv, CountIsUsed

(* A datum in a free slot is one used slot more. *)
LEMMA PlaceCounts ==
    ASSUME ArrayInv, NEW d \in Data, NEW del \in BOOLEAN, NEW i \in Slots \ Used,
           Place(i, d, del)
    PROVE  /\ Used' = Used \cup {i}
           /\ Slots' = Slots
           /\ count' = count + 1
           /\ CountIsUsed'
           /\ \A j \in AllSlots \ Slots : items'[j] = NoItem
           /\ items' \in [AllSlots -> Items \cup {NoItem}]
<1> DEFINE new == [data |-> d, del |-> del]
<1>1. new \in Items /\ new # NoItem
  BY ItemIsUsed
<1>2. i \in AllSlots /\ i \in Slots /\ i \notin Used
  BY UsedFinite DEF ArrayInv, RingInv
<1> HIDE DEF new
<1>3. items' = [items EXCEPT ![i] = new] /\ items \in [AllSlots -> Items \cup {NoItem}]
  BY DEF Place, ArrayInv, RingInv, TypeOK, new
<1>4. Slots' = Slots /\ Slots \subseteq AllSlots
  BY UsedFinite DEF Place, Slots, ArrayInv, RingInv
<1>5. Used' = Used \cup {i}
  BY <1>1, <1>2, <1>3, <1>4 DEF Used
<1>6. IsFiniteSet(Used) /\ Cardinality(Used \cup {i}) = Cardinality(Used) + 1
  BY <1>2, UsedFinite, FS_AddElement DEF ArrayInv, RingInv
<1>7. count' = count + 1
  BY DEF Place
<1>8. CountIsUsed'
  BY <1>5, <1>6, <1>7 DEF CountIsUsed, ArrayInv
<1>9. \A j \in AllSlots \ Slots : items'[j] = NoItem
  BY <1>2, <1>3 DEF ArrayInv, RingInv
<1>10. items' \in [AllSlots -> Items \cup {NoItem}]
  BY <1>1, <1>3
<1> QED
  BY <1>4, <1>5, <1>7, <1>8, <1>9, <1>10

(* An item that leaves is one used slot less. *)
LEMMA ReleaseCounts ==
    ASSUME ArrayInv, NEW i \in Used, NEW taken \in BOOLEAN, Release(i, taken),
           UNCHANGED size
    PROVE  /\ Used' = Used \ {i}
           /\ Slots' = Slots
           /\ count' = count - 1 /\ count > 0
           /\ CountIsUsed'
           /\ \A j \in AllSlots \ Slots : items'[j] = NoItem
           /\ items' \in [AllSlots -> Items \cup {NoItem}]
           /\ owner' \in [Data -> {"caller", "array", "freed", "lost"}]
           /\ reply' \in Data \cup {NoData, "added", "refused", "none"}
<1>1. i \in Slots /\ i \in AllSlots /\ items[i] # NoItem /\ items[i] \in Items
  BY UsedFinite DEF Used, ArrayInv, RingInv, TypeOK
<1>2. items' = [items EXCEPT ![i] = NoItem] /\ items \in [AllSlots -> Items \cup {NoItem}]
  BY DEF Release, ArrayInv, RingInv, TypeOK
<1>3. Slots' = Slots /\ Slots \subseteq AllSlots
  BY UsedFinite DEF Slots, ArrayInv, RingInv
<1>4. Used' = Used \ {i}
  BY <1>1, <1>2, <1>3 DEF Used
<1>5. /\ IsFiniteSet(Used) /\ Cardinality(Used \ {i}) = Cardinality(Used) - 1
      /\ Cardinality(Used) \in Nat /\ Cardinality(Used \ {i}) \in Nat
  BY UsedFinite, FS_RemoveElement, FS_CardinalityType DEF ArrayInv, RingInv
<1>6. count' = count - 1 /\ count > 0
  BY <1>5 DEF Release, CountIsUsed, ArrayInv
<1>7. CountIsUsed'
  BY <1>4, <1>5, <1>6 DEF CountIsUsed, ArrayInv
<1>8. \A j \in AllSlots \ Slots : items'[j] = NoItem
  BY <1>1, <1>2 DEF ArrayInv, RingInv
<1>9. items' \in [AllSlots -> Items \cup {NoItem}]
  BY <1>2
<1>10. owner' \in [Data -> {"caller", "array", "freed", "lost"}]
  BY DEF Release, Released, ArrayInv, RingInv, TypeOK
<1>11. reply' \in Data \cup {NoData, "added", "refused", "none"}
  BY <1>1 DEF Release, Items
<1> QED
  BY <1>3, <1>4, <1>6, <1>7, <1>8, <1>9, <1>10, <1>11

-----------------------------------------------------------------------------
(* The slot a ring offers is the one after its items, and there is one unless the
   ring is full. *)
LEMMA RingOffers ==
    ASSUME ArrayInv, lib = "CArrayMgr", order = "FIFO", count # size
    PROVE  /\ FreeSlot = {RingSlot}
           /\ RingSlot \in Slots \ Used
           /\ RingSlot = IF count = 0 THEN tail
                         ELSE IF tail + 1 = size THEN 0 ELSE tail + 1
<1> USE MaxSizeAssumption
<1>1. RingShape /\ size \in Nat \ {0} /\ count \in Nat /\ count < size
  BY DEF ArrayInv, RingInv, TypeOK
<1>2. head \in 0..(size - 1) /\ tail \in 0..(size - 1)
  BY <1>1 DEF ArrayInv, RingInv, Slots
<1>3. RingSlot = IF count = 0 THEN tail ELSE IF tail + 1 = size THEN 0 ELSE tail + 1
  <2>1. (tail + 1) % size = IF tail + 1 = size THEN 0 ELSE tail + 1
    BY <1>1, <1>2, ModStep
  <2>2. count = 0 => head = tail
    BY <1>1 DEF RingShape
  <2> QED
    BY <1>1, <2>1, <2>2 DEF RingSlot
<1>4. RingSlot \in Slots
  BY <1>1, <1>2, <1>3 DEF Slots
<1>5. RingSlot \notin Used
  BY <1>1, <1>2, <1>3 DEF RingShape, Slots
<1> QED
  BY <1>3, <1>4, <1>5 DEF FreeSlot

(* Adding to a ring moves its tail and keeps its shape. *)
LEMMA PlaceKeepsRing ==
    ASSUME ArrayInv, lib = "CArrayMgr", order = "FIFO", count # size,
           NEW d \in Data, NEW del \in BOOLEAN, Place(RingSlot, d, del)
    PROVE  RingShape'
<1> USE MaxSizeAssumption
<1> DEFINE i == RingSlot
<1>1. /\ i \in Slots \ Used
      /\ i = IF count = 0 THEN tail ELSE IF tail + 1 = size THEN 0 ELSE tail + 1
  BY RingOffers
<1>2. Used' = Used \cup {i} /\ Slots' = Slots /\ count' = count + 1
  BY <1>1, PlaceCounts
<1>3. tail' = i /\ head' = head /\ size' = size /\ order' = order
  BY DEF Place
<1>4. RingShape /\ size \in Nat \ {0} /\ count \in Nat /\ count < size
  BY DEF ArrayInv, RingInv, TypeOK
<1>5. head \in 0..(size - 1) /\ tail \in 0..(size - 1)
  BY <1>4 DEF ArrayInv, RingInv, Slots
<1> HIDE DEF i
<1>6. CASE count = 0
  BY <1>1, <1>2, <1>3, <1>4, <1>5, <1>6 DEF RingShape, Slots
<1>7. CASE count # 0 /\ head <= tail /\ tail + 1 # size
  BY <1>1, <1>2, <1>3, <1>4, <1>5, <1>7 DEF RingShape, Slots
<1>8. CASE count # 0 /\ head <= tail /\ tail + 1 = size
  BY <1>1, <1>2, <1>3, <1>4, <1>5, <1>8 DEF RingShape, Slots
<1>9. CASE count # 0 /\ head > tail
  BY <1>1, <1>2, <1>3, <1>4, <1>5, <1>9 DEF RingShape, Slots
<1> QED
  BY <1>4, <1>5, <1>6, <1>7, <1>8, <1>9

(* Deleting from a ring moves its head and keeps its shape. *)
LEMMA ReleaseKeepsRing ==
    ASSUME ArrayInv, lib = "CArrayMgr", order = "FIFO", head \in Used,
           NEW taken \in BOOLEAN, Release(head, taken), head' = HeadAfterDel,
           UNCHANGED <<order, size, tail>>
    PROVE  /\ RingShape'
           /\ head' = IF count = 1 THEN head ELSE IF head + 1 = size THEN 0 ELSE head + 1
<1> USE MaxSizeAssumption
<1>1. Used' = Used \ {head} /\ Slots' = Slots /\ count' = count - 1 /\ count > 0
  BY ReleaseCounts
<1>2. RingShape /\ size \in Nat \ {0} /\ count \in Nat /\ count <= size
  BY <1>1 DEF ArrayInv, RingInv, TypeOK
<1>3. head \in 0..(size - 1) /\ tail \in 0..(size - 1)
  BY <1>2 DEF ArrayInv, RingInv, Slots
<1>4. head = tail <=> count = 1
  BY <1>1, <1>2, <1>3 DEF RingShape
<1>5. head' = IF count = 1 THEN head ELSE IF head + 1 = size THEN 0 ELSE head + 1
  BY <1>2, <1>3, <1>4, ModStep DEF HeadAfterDel
<1>6. CASE head = tail
  BY <1>1, <1>2, <1>3, <1>4, <1>5, <1>6 DEF RingShape, Slots
<1>7. CASE head < tail
  BY <1>1, <1>2, <1>3, <1>4, <1>5, <1>7 DEF RingShape, Slots
<1>8. CASE head > tail /\ head + 1 # size
  BY <1>1, <1>2, <1>3, <1>4, <1>5, <1>8 DEF RingShape, Slots
<1>9. CASE head > tail /\ head + 1 = size
  BY <1>1, <1>2, <1>3, <1>4, <1>5, <1>9 DEF RingShape, Slots
<1> QED
  BY <1>3, <1>5, <1>6, <1>7, <1>8, <1>9

-----------------------------------------------------------------------------
(* The slot an addition finds is free. *)
LEMMA FreeSlotIsFree ==
    ASSUME ArrayInv, count # size, NEW i \in FreeSlot
    PROVE  i \in Slots \ Used
<1> USE MaxSizeAssumption
<1>1. CASE order = "DIRECT"
  BY <1>1 DEF FreeSlot, First
<1>2. CASE order # "DIRECT"
  <2>1. size \in Nat \ {0} /\ count \in Nat
    BY DEF ArrayInv, RingInv, TypeOK
  <2>2. tail \in 0..(size - 1)
    BY <2>1 DEF ArrayInv, RingInv, Slots
  <2>3. (tail + 1) % size \in 0..(size - 1)
    BY <2>1, <2>2, ModStep
  <2> QED
    BY <1>2, <2>2, <2>3 DEF FreeSlot, RingSlot, Slots
<1> QED
  BY <1>1, <1>2

(* Storing a datum keeps the invariant. *)
LEMMA PlaceKeepsInv ==
    ASSUME ArrayInv, UNCHANGED lib, count # size,
           NEW d \in Data, NEW del \in BOOLEAN, NEW i \in FreeSlot, Place(i, d, del)
    PROVE  ArrayInv'
<1> USE MaxSizeAssumption
<1>1. i \in Slots \ Used
  BY FreeSlotIsFree
<1>2. /\ Used' = Used \cup {i} /\ Slots' = Slots /\ count' = count + 1
      /\ CountIsUsed'
      /\ \A j \in AllSlots \ Slots : items'[j] = NoItem
      /\ items' \in [AllSlots -> Items \cup {NoItem}]
  BY <1>1, PlaceCounts
<1>3. UNCHANGED <<lib, order, chk_dup, size, head>> /\ tail' \in {tail, i}
  BY DEF Place
<1>4. TypeOK /\ count <= size /\ i \in 0..(size - 1)
  BY <1>1 DEF ArrayInv, RingInv, Slots
<1>5. count' \in 0..MaxSize /\ count' <= size' /\ tail' \in 0..MaxSize
  BY <1>2, <1>3, <1>4 DEF TypeOK
<1>6. /\ owner' \in [Data -> {"caller", "array", "freed", "lost"}]
      /\ reply' = "added"
  BY <1>4 DEF Place, TypeOK
<1>7. TypeOK'
  BY <1>2, <1>3, <1>4, <1>5, <1>6 DEF TypeOK
<1>8. size' > 0 => head' \in Slots' /\ tail' \in Slots'
  BY <1>1, <1>2, <1>3 DEF ArrayInv, RingInv
<1>9. lib' = "CArrayMgr" => RingShape'
  <2>1. CASE lib = "CArrayMgr" /\ order = "FIFO"
    <3>1. i = RingSlot
      BY <2>1, RingOffers
    <3> QED
      BY <2>1, <3>1, PlaceKeepsRing
  <2>2. CASE order # "FIFO"
    BY <1>3, <2>2 DEF RingShape
  <2> QED
    BY <1>3, <2>1, <2>2
<1>10. order' = "none" => size' = 0
  BY <1>3 DEF ArrayInv, RingInv
<1> QED
  BY <1>2, <1>3, <1>5, <1>7, <1>8, <1>9, <1>10 DEF ArrayInv, RingInv

(* A deletion that moves no end, in an array that is no ring of CArrayMgr. *)
LEMMA ReleaseKeepsInv ==
    ASSUME ArrayInv, order = "DIRECT" \/ lib = "na_array",
           NEW i \in Used, NEW taken \in BOOLEAN, Release(i, taken),
           UNCHANGED <<lib, order, chk_dup, size, head, tail>>
    PROVE  ArrayInv'
<1> USE MaxSizeAssumption
<1>1. /\ Slots' = Slots /\ count' = count - 1 /\ count > 0
      /\ CountIsUsed'
      /\ \A j \in AllSlots \ Slots : items'[j] = NoItem
      /\ items' \in [AllSlots -> Items \cup {NoItem}]
      /\ owner' \in [Data -> {"caller", "array", "freed", "lost"}]
      /\ reply' \in Data \cup {NoData, "added", "refused", "none"}
  BY ReleaseCounts
<1>2. TypeOK /\ count <= size
  BY DEF ArrayInv, RingInv
<1>3. count' \in 0..MaxSize /\ count' <= size'
  BY <1>1, <1>2 DEF TypeOK
<1>4. TypeOK'
  BY <1>1, <1>2, <1>3 DEF TypeOK
<1>5. lib' = "CArrayMgr" => RingShape'
  BY DEF RingShape
<1> QED
  BY <1>1, <1>3, <1>4, <1>5 DEF ArrayInv, RingInv

(* A deletion from the ring of CArrayMgr. *)
LEMMA RingDelKeepsInv ==
    ASSUME ArrayInv, lib = "CArrayMgr", order = "FIFO", head \in Used,
           NEW taken \in BOOLEAN, Release(head, taken), head' = HeadAfterDel,
           UNCHANGED <<lib, order, chk_dup, size, tail>>
    PROVE  ArrayInv'
<1> USE MaxSizeAssumption
<1>1. /\ Slots' = Slots /\ count' = count - 1 /\ count > 0
      /\ CountIsUsed'
      /\ \A j \in AllSlots \ Slots : items'[j] = NoItem
      /\ items' \in [AllSlots -> Items \cup {NoItem}]
      /\ owner' \in [Data -> {"caller", "array", "freed", "lost"}]
      /\ reply' \in Data \cup {NoData, "added", "refused", "none"}
  BY ReleaseCounts
<1>2. /\ RingShape'
      /\ head' = IF count = 1 THEN head ELSE IF head + 1 = size THEN 0 ELSE head + 1
  BY ReleaseKeepsRing
<1>3. TypeOK /\ count <= size
  BY DEF ArrayInv, RingInv
<1>4. size \in Nat \ {0}
  BY <1>1, <1>3 DEF TypeOK
<1>5. head \in 0..(size - 1) /\ tail \in Slots
  BY <1>4 DEF ArrayInv, RingInv, Slots
<1>6. head' \in 0..(size - 1)
  BY <1>2, <1>4, <1>5
<1>7. count' \in 0..MaxSize /\ count' <= size' /\ head' \in 0..MaxSize
  BY <1>1, <1>3, <1>4, <1>6 DEF TypeOK
<1>8. TypeOK'
  BY <1>1, <1>3, <1>7 DEF TypeOK
<1>9. head' \in Slots' /\ tail' \in Slots'
  BY <1>1, <1>5, <1>6 DEF Slots
<1> QED
  BY <1>1, <1>2, <1>7, <1>8, <1>9 DEF ArrayInv, RingInv

-----------------------------------------------------------------------------
LEMMA InitEstablishes == Init => ArrayInv
<1> SUFFICES ASSUME Init PROVE ArrayInv
  OBVIOUS
<1> USE MaxSizeAssumption
<1>0. 0 \in 0..MaxSize
  OBVIOUS
<1>1. TypeOK
  <2>1. items \in [AllSlots -> Items \cup {NoItem}]
    BY DEF Init, Empty
  <2>2. owner \in [Data -> {"caller", "array", "freed", "lost"}]
    BY DEF Init
  <2> QED
    BY <1>0, <2>1, <2>2 DEF Init, TypeOK
<1>2. Used = {}
  BY DEF Init, Used, Slots
<1>3. CountIsUsed
  BY <1>2, FS_EmptySet DEF Init, CountIsUsed
<1>4. RingShape
  BY DEF Init, RingShape
<1>5. \A i \in AllSlots : items[i] = NoItem
  BY DEF Init, Empty
<1> QED
  BY <1>1, <1>3, <1>4, <1>5 DEF ArrayInv, RingInv, Init

LEMMA CArrayMgrKeepsInv == ArrayInv /\ CArrayMgr => ArrayInv'
<1> SUFFICES ASSUME ArrayInv, CArrayMgr PROVE ArrayInv'
  OBVIOUS
<1> USE MaxSizeAssumption
<1>0. TypeOK /\ CountIsUsed /\ lib \in Libs
  BY DEF ArrayInv, RingInv, TypeOK
<1>1. ASSUME NEW n \in 0..MaxSize, NEW o \in Orders, NEW dup \in BOOLEAN, array_init(n, o, dup)
      PROVE  ArrayInv'
  <2>1. owner' \in [Data -> {"caller", "array", "freed", "lost"}]
    BY <1>0, <1>1, ReleaseAllType DEF array_init, TypeOK
  <2> QED
    BY <1>0, <1>1, <2>1, RenewKeepsInv DEF array_init, In, Renew, Orders
<1>2. CASE array_term
  <2>1. owner' \in [Data -> {"caller", "array", "freed", "lost"}]
    BY <1>0, <1>2, ReleaseAllType DEF array_term
  <2>2. 0 \in 0..MaxSize
    OBVIOUS
  <2> QED
    BY <1>0, <1>2, <2>1, <2>2, RenewKeepsInv DEF array_term, In, Renew
<1>3. ASSUME NEW d \in Data, NEW del \in BOOLEAN, array_add(d, del)
      PROVE  ArrayInv'
  <2>1. CASE Refuse
    BY <1>0, <1>3, <2>1, SameSlotsKeepInv DEF array_add, In, Refuse, TypeOK
  <2>2. CASE count # size /\ \E i \in FreeSlot : Place(i, d, del)
    BY <1>3, <2>2, PlaceKeepsInv DEF array_add, In
  <2> QED
    BY <1>3, <2>1, <2>2 DEF array_add
<1>4. ASSUME NEW taken \in BOOLEAN, array_del(taken)
      PROVE  ArrayInv'
  <2>1. CASE Nothing(taken)
    BY <1>0, <1>4, <2>1, SameSlotsKeepInv DEF array_del, In, Nothing, TypeOK
  <2>2. CASE /\ order = "DIRECT"
             /\ \E i \in First(Reached) : Release(i, taken)
             /\ UNCHANGED <<order, chk_dup, size, head, tail>>
    BY <1>0, <1>4, <2>2, AllReached, ReleaseKeepsInv DEF array_del, In, First
  <2>3. CASE /\ order = "FIFO" /\ head \in Used
             /\ Release(head, taken)
             /\ head' = HeadAfterDel
             /\ UNCHANGED <<order, chk_dup, size, tail>>
    BY <1>4, <2>3, RingDelKeepsInv DEF array_del, In
  <2> QED
    BY <1>4, <2>1, <2>2, <2>3 DEF array_del
<1>5. ASSUME NEW i \in AllSlots, NEW taken \in BOOLEAN, array_del_by_index(i, taken)
      PROVE  ArrayInv'
  BY <1>5, ReleaseKeepsInv DEF array_del_by_index, In
<1>6. ASSUME NEW d \in Data, NEW taken \in BOOLEAN, array_del_by_id(d, taken)
      PROVE  ArrayInv'
  <2>1. PICK i \in First(WithId(d)) : Release(i, taken)
    BY <1>6 DEF array_del_by_id
  <2>2. i \in Used
    BY DEF First, WithId, Reached
  <2> QED
    BY <1>6, <2>1, <2>2, ReleaseKeepsInv DEF array_del_by_id, In
<1>7. CASE array_del_all
  <2>1. items' = Empty
    BY <1>0, <1>7, AllReached, UsedFinite DEF array_del_all, Empty, ArrayInv, RingInv, Used, Slots
  <2> QED
    BY <1>0, <1>7, <2>1, ReleaseAllType, RenewKeepsInv
      DEF array_del_all, In, ArrayInv, RingInv, TypeOK
<1> QED
  BY <1>1, <1>2, <1>3, <1>4, <1>5, <1>6, <1>7 DEF CArrayMgr

LEMMA na_arrayKeepsInv == ArrayInv /\ na_array => ArrayInv'
<1> SUFFICES ASSUME ArrayInv, na_array PROVE ArrayInv'
  OBVIOUS
<1> USE MaxSizeAssumption
<1>0. TypeOK /\ CountIsUsed /\ lib \in Libs
  BY DEF ArrayInv, RingInv, TypeOK
<1>1. ASSUME NEW n \in 0..MaxSize, NEW o \in Orders, NEW dup \in BOOLEAN, na_array_init(n, o, dup)
      PROVE  ArrayInv'
  <2>1. owner' \in [Data -> {"caller", "array", "freed", "lost"}]
    BY <1>0, <1>1, ReleaseAllType DEF na_array_init, TypeOK
  <2> QED
    BY <1>0, <1>1, <2>1, RenewKeepsInv DEF na_array_init, In, Renew, Orders
<1>2. CASE na_array_term
  <2>1. owner' \in [Data -> {"caller", "array", "freed", "lost"}]
    BY <1>0, <1>2, ReleaseAllType DEF na_array_term
  <2>2. 0 \in 0..MaxSize
    OBVIOUS
  <2> QED
    BY <1>0, <1>2, <2>1, <2>2, RenewKeepsInv DEF na_array_term, In, Renew
<1>3. ASSUME NEW d \in Data, NEW del \in BOOLEAN, na_array_add(d, del)
      PROVE  ArrayInv'
  <2>1. CASE Refuse
    BY <1>0, <1>3, <2>1, SameSlotsKeepInv DEF na_array_add, In, Refuse, TypeOK
  <2>2. CASE count # size /\ \E i \in FreeSlot : Place(i, d, del)
    BY <1>3, <2>2, PlaceKeepsInv DEF na_array_add, In
  <2>3. CASE /\ owner' = [owner EXCEPT ![d] = "lost"]
             /\ reply' = "added"
             /\ UNCHANGED <<order, chk_dup, size, count, head, tail, items>>
    BY <1>0, <1>3, <2>3, SameSlotsKeepInv DEF na_array_add, In, TypeOK
  <2> QED
    BY <1>3, <2>1, <2>2, <2>3 DEF na_array_add
<1>4. ASSUME NEW taken \in BOOLEAN, na_array_del(taken)
      PROVE  ArrayInv'
  <2>1. CASE Nothing(taken)
    BY <1>0, <1>4, <2>1, SameSlotsKeepInv DEF na_array_del, In, Nothing, TypeOK
  <2>2. CASE /\ \E i \in Used : Release(i, taken)
             /\ UNCHANGED <<order, chk_dup, size, head, tail>>
    BY <1>4, <2>2, ReleaseKeepsInv DEF na_array_del, In
  <2> QED
    BY <1>4, <2>1, <2>2 DEF na_array_del, First
<1>5. ASSUME NEW i \in AllSlots, NEW taken \in BOOLEAN, na_array_del_by_index(i, taken)
      PROVE  ArrayInv'
  BY <1>5, ReleaseKeepsInv DEF na_array_del_by_index, In
<1>6. ASSUME NEW d \in Data, NEW taken \in BOOLEAN, na_array_del_by_id(d, taken)
      PROVE  ArrayInv'
  <2>1. PICK i \in First(WithId(d)) : Release(i, taken)
    BY <1>6 DEF na_array_del_by_id
  <2>2. i \in Used
    BY DEF First, WithId, Reached
  <2> QED
    BY <1>6, <2>1, <2>2, ReleaseKeepsInv DEF na_array_del_by_id, In
<1>7. CASE na_array_del_all
  BY <1>0, <1>7, ReleaseAllType, RenewKeepsInv
    DEF na_array_del_all, In, Renew, ArrayInv, RingInv, TypeOK
<1> QED
  BY <1>1, <1>2, <1>3, <1>4, <1>5, <1>6, <1>7 DEF na_array

(* Every array keeps its invariant (CArrayMgr.c:3-478, na_array.c:30-538). *)
THEOREM ArrayInvariant == Spec => []ArrayInv
<1>1. ArrayInv /\ [Next]_vars => ArrayInv'
  <2> SUFFICES ASSUME ArrayInv, [Next]_vars PROVE ArrayInv'
    OBVIOUS
  <2>1. CASE Next
    BY <2>1, CArrayMgrKeepsInv, na_arrayKeepsInv DEF Next
  <2>2. CASE UNCHANGED vars
    BY <2>2, SameSlotsKeepInv DEF vars, ArrayInv, RingInv, TypeOK
  <2> QED
    BY <2>1, <2>2
<1> QED
  BY <1>1, InitEstablishes, PTL DEF Spec

(* The slots of the array and the ends of the ring agree (CArrayMgr.c:134-151 and
   259-304). *)
THEOREM RingInvariant == Spec => []RingInv
<1>1. ArrayInv => RingInv
  BY DEF ArrayInv
<1> QED
  BY <1>1, ArrayInvariant, PTL

(* The count that ends the loops over the array is that of its used slots. *)
THEOREM CountInvariant == Spec => []CountIsUsed
<1>1. ArrayInv => CountIsUsed
  BY DEF ArrayInv
<1> QED
  BY <1>1, ArrayInvariant, PTL

-----------------------------------------------------------------------------
(* The items of the ring, from its head on, are in distinct used slots, and the
   slot after them is the one the ring offers. *)
LEMMA SlotsOfQueue ==
    ASSUME ArrayInv, IsQueue, count > 0
    PROVE  /\ size \in Nat \ {0} /\ head \in 0..(size - 1) /\ count \in 1..size
           /\ SlotOf(1) = head
           /\ \A n \in 1..count : SlotOf(n) \in Used /\ items[SlotOf(n)].data \in Data
           /\ \A n \in 2..count : SlotOf(n) # head
           /\ count < size => SlotOf(count + 1) = IF tail + 1 = size THEN 0 ELSE tail + 1
<1> USE MaxSizeAssumption
<1>1. RingShape /\ size \in Nat \ {0} /\ count \in Nat /\ count <= size /\ TypeOK
  BY DEF ArrayInv, RingInv, TypeOK, IsQueue
<1>2. head \in 0..(size - 1) /\ tail \in 0..(size - 1)
  BY <1>1 DEF ArrayInv, RingInv, Slots
<1>3. \A n \in 1..count : SlotOf(n) \in Used
  <2>1. CASE head <= tail
    BY <1>1, <1>2, <2>1 DEF RingShape, SlotOf, IsQueue
  <2>2. CASE head > tail
    BY <1>1, <1>2, <2>2 DEF RingShape, SlotOf, IsQueue, Slots
  <2> QED
    BY <1>2, <2>1, <2>2
<1>4. \A i \in Used : items[i].data \in Data
  BY <1>1, UsedFinite DEF TypeOK, Used, Items
<1>5. \A n \in 2..count : SlotOf(n) # head
  BY <1>1, <1>2 DEF SlotOf
<1>6. SlotOf(1) = head
  BY <1>1, <1>2 DEF SlotOf
<1>7. count < size => SlotOf(count + 1) = IF tail + 1 = size THEN 0 ELSE tail + 1
  BY <1>1, <1>2 DEF RingShape, SlotOf, IsQueue
<1> QED
  BY <1>1, <1>2, <1>3, <1>4, <1>5, <1>6, <1>7

LEMMA QueueIsSeq ==
    ArrayInv /\ IsQueue =>
        /\ count \in Nat
        /\ QueueItems = [n \in 1..count |-> items[SlotOf(n)].data]
        /\ QueueItems \in Seq(Data)
        /\ Len(QueueItems) = count
<1> SUFFICES ASSUME ArrayInv, IsQueue
             PROVE  /\ count \in Nat
                    /\ QueueItems = [n \in 1..count |-> items[SlotOf(n)].data]
                    /\ QueueItems \in Seq(Data)
                    /\ Len(QueueItems) = count
  OBVIOUS
<1>1. count \in Nat
  BY MaxSizeAssumption DEF ArrayInv, RingInv, TypeOK
<1>2. QueueItems = [n \in 1..count |-> items[SlotOf(n)].data]
  BY DEF QueueItems
<1>3. \A n \in 1..count : items[SlotOf(n)].data \in Data
  <2>1. CASE count > 0
    BY <2>1, SlotsOfQueue
  <2>2. CASE count = 0
    BY <2>2
  <2> QED
    BY <1>1, <2>1, <2>2
<1>4. QueueItems \in [1..count -> Data]
  BY <1>2, <1>3
<1>5. QueueItems \in Seq(Data)
  BY <1>1, <1>4
<1>6. Len(QueueItems) = count
  BY <1>1, <1>4, <1>5
<1> QED
  BY <1>1, <1>2, <1>5, <1>6

(* What an array outside the order is to the queue, and what one is that was made
   anew or emptied. *)
LEMMA EmptyQueue ==
    ArrayInv /\ count = 0 => QueueItems = <<>> /\ QueueSize \in 0..MaxSize
<1> SUFFICES ASSUME ArrayInv, count = 0
             PROVE  QueueItems = <<>> /\ QueueSize \in 0..MaxSize
  OBVIOUS
<1>1. QueueSize \in 0..MaxSize
  BY MaxSizeAssumption DEF QueueSize, ArrayInv, RingInv, TypeOK
<1>2. CASE IsQueue
  <2>1. QueueItems \in Seq(Data) /\ Len(QueueItems) = 0
    BY <1>2, QueueIsSeq
  <2> QED
    BY <1>1, <2>1, EmptySeq
<1>3. CASE ~IsQueue
  BY <1>1, <1>3 DEF QueueItems
<1> QED
  BY <1>2, <1>3

LEMMA RenewIsReset ==
    ASSUME ArrayInv', count' = 0, reply' = "none"
    PROVE  Queue!Reset
<1>1. (QueueItems = <<>> /\ QueueSize \in 0..MaxSize)'
  <2>1. (ArrayInv /\ count = 0 => QueueItems = <<>> /\ QueueSize \in 0..MaxSize)'
    BY EmptyQueue, PTL
  <2> QED
    BY <2>1
<1>2. (QueueReply = "none")'
  BY DEF QueueReply
<1> QED
  BY <1>1, <1>2 DEF Queue!Reset

LEMMA PlaceIsPut ==
    ASSUME ArrayInv, ArrayInv', IsQueue, UNCHANGED lib, count # size,
           NEW d \in Data, NEW del \in BOOLEAN, Place(RingSlot, d, del)
    PROVE  Queue!Put(d)
<1> USE MaxSizeAssumption
<1>1. /\ UNCHANGED <<lib, order, size, head>> /\ reply' = "added" /\ count' = count + 1
      /\ items' = [items EXCEPT ![RingSlot] = [data |-> d, del |-> del]]
  BY DEF Place
<1>2. IsQueue'
  BY <1>1 DEF IsQueue
<1>3. /\ RingSlot \in Slots \ Used
      /\ RingSlot = IF count = 0 THEN tail ELSE IF tail + 1 = size THEN 0 ELSE tail + 1
  BY RingOffers DEF IsQueue
<1>4. /\ count \in Nat /\ QueueItems = [n \in 1..count |-> items[SlotOf(n)].data]
      /\ QueueItems \in Seq(Data) /\ Len(QueueItems) = count
  BY QueueIsSeq
<1>5. /\ QueueItems' = [n \in 1..count' |-> items'[SlotOf(n)'].data]
      /\ QueueItems' \in Seq(Data) /\ Len(QueueItems') = count'
  <2>1. (ArrayInv /\ IsQueue =>
            /\ count \in Nat
            /\ QueueItems = [n \in 1..count |-> items[SlotOf(n)].data]
            /\ QueueItems \in Seq(Data)
            /\ Len(QueueItems) = count)'
    BY QueueIsSeq, PTL
  <2> QED
    BY <1>2, <2>1
<1>6. \A n \in 1..(count + 1) : SlotOf(n)' = SlotOf(n)
  BY <1>1 DEF SlotOf
<1>7. RingSlot \in AllSlots /\ items \in [AllSlots -> Items \cup {NoItem}] /\ Used \subseteq AllSlots
      /\ count <= size /\ size \in Nat
  BY <1>3, UsedFinite DEF ArrayInv, RingInv, TypeOK
<1>8. SlotOf(count + 1) = RingSlot
  <2>1. CASE count = 0
    <3>1. head = tail /\ size > 0
      BY <2>1, <1>7 DEF ArrayInv, RingInv, RingShape, IsQueue
    <3>2. head \in 0..(size - 1)
      BY <1>7, <3>1 DEF ArrayInv, RingInv, Slots
    <3> QED
      BY <1>3, <1>7, <2>1, <3>1, <3>2 DEF SlotOf
  <2>2. CASE count # 0
    BY <1>3, <1>4, <1>7, <2>2, SlotsOfQueue
  <2> QED
    BY <2>1, <2>2
<1>9. items'[RingSlot].data = d
  BY <1>1, <1>7
<1>10. \A n \in 1..count : items'[SlotOf(n)] = items[SlotOf(n)]
  <2> SUFFICES ASSUME NEW n \in 1..count
               PROVE  items'[SlotOf(n)] = items[SlotOf(n)]
    OBVIOUS
  <2>1. SlotOf(n) \in Used
    BY <1>4, SlotsOfQueue
  <2> QED
    BY <1>1, <1>3, <1>7, <2>1
<1>11. \A n \in 1..(count + 1) : QueueItems'[n] = IF n = count + 1 THEN d ELSE QueueItems[n]
  BY <1>1, <1>4, <1>5, <1>6, <1>8, <1>9, <1>10
<1>12. QueueItems' = Append(QueueItems, d)
  <2>1. /\ Append(QueueItems, d) \in Seq(Data)
        /\ Len(Append(QueueItems, d)) = count + 1
        /\ \A n \in 1..(count + 1) :
              Append(QueueItems, d)[n] = IF n = count + 1 THEN d ELSE QueueItems[n]
    BY <1>4, AppendProperties
  <2> QED
    BY <1>1, <1>5, <1>11, <2>1, SeqEqual
<1>13. /\ Len(QueueItems) < QueueSize /\ QueueReply' = "added" /\ UNCHANGED QueueSize
  BY <1>1, <1>2, <1>4, <1>7 DEF QueueSize, QueueReply
<1> QED
  BY <1>12, <1>13 DEF Queue!Put

LEMMA RingDelIsGet ==
    ASSUME ArrayInv, ArrayInv', IsQueue, head \in Used,
           NEW taken \in BOOLEAN, Release(head, taken), head' = HeadAfterDel,
           UNCHANGED <<lib, order, chk_dup, size, tail>>
    PROVE  Queue!Get
<1> USE MaxSizeAssumption
<1>1. count > 0 /\ count' = count - 1
  BY ReleaseCounts
<1>2. IsQueue'
  BY DEF IsQueue
<1>3. head' = IF count = 1 THEN head ELSE IF head + 1 = size THEN 0 ELSE head + 1
  BY ReleaseKeepsRing DEF IsQueue
<1>4. /\ count \in Nat /\ QueueItems = [n \in 1..count |-> items[SlotOf(n)].data]
      /\ QueueItems \in Seq(Data) /\ Len(QueueItems) = count
  BY QueueIsSeq
<1>5. /\ QueueItems' = [n \in 1..count' |-> items'[SlotOf(n)'].data]
      /\ QueueItems' \in Seq(Data) /\ Len(QueueItems') = count'
  <2>1. (ArrayInv /\ IsQueue =>
            /\ count \in Nat
            /\ QueueItems = [n \in 1..count |-> items[SlotOf(n)].data]
            /\ QueueItems \in Seq(Data)
            /\ Len(QueueItems) = count)'
    BY QueueIsSeq, PTL
  <2> QED
    BY <1>2, <2>1
<1>6. /\ size \in Nat \ {0} /\ head \in 0..(size - 1) /\ count \in 1..size
      /\ SlotOf(1) = head
      /\ \A n \in 1..count : SlotOf(n) \in Used
      /\ \A n \in 2..count : SlotOf(n) # head
  BY <1>1, SlotsOfQueue
<1>7. \A n \in 1..(count - 1) : SlotOf(n)' = SlotOf(n + 1)
  BY <1>3, <1>6 DEF SlotOf
<1>8. /\ items' = [items EXCEPT ![head] = NoItem]
      /\ items \in [AllSlots -> Items \cup {NoItem}] /\ Used \subseteq AllSlots
      /\ reply' \in {items[head].data, "none"}
  BY UsedFinite DEF Release, ArrayInv, RingInv, TypeOK
<1>9. \A n \in 1..(count - 1) : items'[SlotOf(n + 1)] = items[SlotOf(n + 1)]
  <2> SUFFICES ASSUME NEW n \in 1..(count - 1)
               PROVE  items'[SlotOf(n + 1)] = items[SlotOf(n + 1)]
    OBVIOUS
  <2>1. n + 1 \in 2..count /\ n + 1 \in 1..count
    BY <1>4
  <2>2. SlotOf(n + 1) \in AllSlots /\ SlotOf(n + 1) # head
    BY <1>6, <1>8, <2>1
  <2> QED
    BY <1>8, <2>2
<1>10. \A n \in 1..(count - 1) : QueueItems'[n] = QueueItems[n + 1]
  <2> SUFFICES ASSUME NEW n \in 1..(count - 1)
               PROVE  QueueItems'[n] = QueueItems[n + 1]
    OBVIOUS
  <2>1. n \in 1..count' /\ n + 1 \in 1..count
    BY <1>1, <1>4
  <2>2. QueueItems'[n] = items'[SlotOf(n)'].data
    BY <1>5, <2>1
  <2>3. QueueItems[n + 1] = items[SlotOf(n + 1)].data
    BY <1>4, <2>1
  <2> QED
    BY <1>7, <1>9, <2>2, <2>3
<1>11. QueueItems # <<>>
  BY <1>1, <1>4, EmptySeq
<1>12. QueueItems' = Tail(QueueItems)
  <2>1. /\ Tail(QueueItems) \in Seq(Data)
        /\ Len(Tail(QueueItems)) = count - 1
        /\ \A n \in 1..(count - 1) : Tail(QueueItems)[n] = QueueItems[n + 1]
    BY <1>4, <1>11, HeadTailProperties
  <2> QED
    BY <1>1, <1>5, <1>10, <2>1, SeqEqual
<1>13. Head(QueueItems) = items[head].data
  BY <1>4, <1>6, <1>11
<1>14. QueueReply' \in {Head(QueueItems), "none"} /\ UNCHANGED QueueSize
  BY <1>2, <1>8, <1>13 DEF QueueReply, QueueSize
<1> QED
  BY <1>11, <1>12, <1>14 DEF Queue!Get

(* A call that changes neither the ring nor the reply is no step of the queue. *)
LEMMA SameRingStutters ==
    ASSUME ~IsQueue, UNCHANGED <<lib, order>>
    PROVE  UNCHANGED <<QueueItems, QueueSize, QueueReply>>
<1>1. ~IsQueue'
  BY DEF IsQueue
<1> QED
  BY <1>1 DEF QueueItems, QueueSize, QueueReply

LEMMA UnchangedStutters ==
    ASSUME UNCHANGED <<lib, order, size, count, head, items, reply>>
    PROVE  UNCHANGED <<QueueItems, QueueSize, QueueReply>>
<1>1. IsQueue' = IsQueue
  BY DEF IsQueue
<1>2. (\A n \in 1..count : SlotOf(n)' = SlotOf(n))
  BY DEF SlotOf
<1>3. QueueItems' = IF IsQueue THEN [n \in 1..count |-> items[SlotOf(n)'].data] ELSE <<>>
  BY <1>1 DEF QueueItems
<1>4. [n \in 1..count |-> items[SlotOf(n)'].data] = [n \in 1..count |-> items[SlotOf(n)].data]
  BY <1>2
<1>5. QueueItems' = QueueItems
  BY <1>3, <1>4 DEF QueueItems
<1> QED
  BY <1>1, <1>5 DEF QueueSize, QueueReply

(* A refused addition found the ring full, a deletion without an item found it
   empty. *)
LEMMA RefuseIsPutFull ==
    ASSUME ArrayInv, IsQueue, UNCHANGED lib, count = size, Refuse
    PROVE  Queue!PutFull
<1>1. QueueItems' = QueueItems /\ QueueSize' = QueueSize /\ QueueReply' = "refused"
  <2>1. IsQueue' /\ UNCHANGED <<lib, order, size, count, head, items>>
    BY DEF Refuse, IsQueue
  <2>2. \A n \in 1..count : SlotOf(n)' = SlotOf(n)
    BY <2>1 DEF SlotOf
  <2>3. QueueItems' = [n \in 1..count |-> items[SlotOf(n)'].data]
    BY <2>1 DEF QueueItems
  <2>4. [n \in 1..count |-> items[SlotOf(n)'].data] = [n \in 1..count |-> items[SlotOf(n)].data]
    BY <2>2
  <2>5. QueueItems' = QueueItems
    BY <2>3, <2>4 DEF QueueItems
  <2> QED
    BY <2>1, <2>5 DEF Refuse, QueueSize, QueueReply
<1>2. Len(QueueItems) = count /\ QueueSize = size
  BY QueueIsSeq DEF QueueSize
<1> QED
  BY <1>1, <1>2 DEF Queue!PutFull

LEMMA NothingIsGetEmpty ==
    ASSUME ArrayInv, ArrayInv', IsQueue, UNCHANGED lib, count = 0,
           NEW taken \in BOOLEAN, Nothing(taken)
    PROVE  Queue!GetEmpty
<1>1. IsQueue' /\ count' = 0 /\ size' = size /\ reply' \in {NoData, "none"}
  BY DEF Nothing, IsQueue
<1>2. QueueItems = <<>>
  BY EmptyQueue
<1>3. QueueItems' = <<>>
  <2>1. (ArrayInv /\ count = 0 => QueueItems = <<>> /\ QueueSize \in 0..MaxSize)'
    BY EmptyQueue, PTL
  <2> QED
    BY <1>1, <2>1
<1> QED
  BY <1>1, <1>2, <1>3 DEF Queue!GetEmpty, QueueSize, QueueReply

(* Every call on the array is a call on the queue, or none. *)
LEMMA QueueStep ==
    ASSUME ArrayInv, ArrayInv', [Next]_vars
    PROVE  [Queue!Next]_<<QueueItems, QueueSize, QueueReply>>
<1> USE DEF Queue!Next
<1>1. CASE UNCHANGED vars
  BY <1>1, UnchangedStutters DEF vars
<1>2. CASE na_array
  <2>1. lib = "na_array" /\ lib' = lib
    BY <1>2 DEF na_array, na_array_init, na_array_term, na_array_add, na_array_del,
                na_array_del_by_index, na_array_del_by_id, na_array_del_all, In
  <2>2. ~IsQueue /\ ~IsQueue'
    BY <2>1 DEF IsQueue
  <2> QED
    BY <2>2 DEF QueueItems, QueueSize, QueueReply
<1>3. ASSUME NEW n \in 0..MaxSize, NEW o \in Orders, NEW dup \in BOOLEAN, array_init(n, o, dup)
      PROVE  Queue!Next
  BY <1>3, RenewIsReset DEF array_init, Renew
<1>4. CASE array_term
  BY <1>4, RenewIsReset DEF array_term, Renew
<1>5. CASE array_del_all
  BY <1>5, RenewIsReset DEF array_del_all
<1>6. ASSUME NEW d \in Data, NEW del \in BOOLEAN, array_add(d, del), IsQueue
      PROVE  Queue!Next
  <2>1. lib = "CArrayMgr" /\ UNCHANGED lib /\ order = "FIFO"
    BY <1>6 DEF array_add, In, IsQueue
  <2>2. CASE count = size
    BY <1>6, <2>1, <2>2, RefuseIsPutFull DEF array_add
  <2>3. CASE count # size
    <3>1. FreeSlot = {RingSlot}
      BY <2>1, <2>3, RingOffers
    <3>2. Place(RingSlot, d, del)
      BY <1>6, <2>3, <3>1 DEF array_add
    <3> QED
      BY <1>6, <2>1, <2>3, <3>2, PlaceIsPut
  <2> QED
    BY <2>2, <2>3
<1>7. ASSUME NEW taken \in BOOLEAN, array_del(taken), IsQueue
      PROVE  Queue!Next
  <2>1. lib = "CArrayMgr" /\ UNCHANGED lib /\ order = "FIFO"
    BY <1>7 DEF array_del, In, IsQueue
  <2>2. CASE count = 0
    <3>1. Nothing(taken)
      BY <1>7, <2>1, <2>2 DEF array_del
    <3> QED
      BY <1>7, <2>1, <2>2, <3>1, NothingIsGetEmpty
  <2>3. CASE count # 0
    <3>1. count > 0
      BY <2>3, MaxSizeAssumption DEF ArrayInv, RingInv, TypeOK
    <3>2. head \in Used
      BY <1>7, <3>1, SlotsOfQueue
    <3>3. Release(head, taken) /\ head' = HeadAfterDel /\ UNCHANGED <<order, chk_dup, size, tail>>
      BY <1>7, <2>1, <2>3, <3>2 DEF array_del
    <3> QED
      BY <1>7, <2>1, <3>2, <3>3, RingDelIsGet
  <2> QED
    BY <2>2, <2>3
<1>8. CASE ~IsQueue /\ UNCHANGED <<lib, order>>
  BY <1>8, SameRingStutters
<1>9. ASSUME NEW d \in Data, NEW del \in BOOLEAN, array_add(d, del)
      PROVE  IsQueue \/ UNCHANGED <<lib, order>>
  BY <1>9 DEF array_add, In, Refuse, Place
<1>10. ASSUME NEW taken \in BOOLEAN, array_del(taken)
       PROVE  IsQueue \/ UNCHANGED <<lib, order>>
  BY <1>10 DEF array_del, In, Nothing
<1>11. ASSUME NEW i \in AllSlots, NEW taken \in BOOLEAN, array_del_by_index(i, taken)
       PROVE  ~IsQueue /\ UNCHANGED <<lib, order>>
  BY <1>11 DEF array_del_by_index, In, IsQueue
<1>12. ASSUME NEW d \in Data, NEW taken \in BOOLEAN, array_del_by_id(d, taken)
       PROVE  ~IsQueue /\ UNCHANGED <<lib, order>>
  BY <1>12 DEF array_del_by_id, In, IsQueue
<1>13. CASE CArrayMgr
  BY <1>3, <1>4, <1>5, <1>6, <1>7, <1>8, <1>9, <1>10, <1>11, <1>12, <1>13 DEF CArrayMgr
<1> QED
  BY <1>1, <1>2, <1>13 DEF Next

(* The first-in-first-out order of CArrayMgr is a bounded queue: items leave in
   the order they came, none is overwritten or skipped, an addition is refused
   only by a full ring and a deletion finds nothing only in an empty one
   (CArrayMgr.c:134-151 and 259-304). *)
THEOREM RingImplementsQueue == Spec => ImplementsQueue
<1>1. Init => Queue!Init
  BY DEF Init, Queue!Init, QueueItems, QueueSize, QueueReply, IsQueue
<1>2. ArrayInv /\ ArrayInv' /\ [Next]_vars => [Queue!Next]_<<QueueItems, QueueSize, QueueReply>>
  BY QueueStep
<1> QED
  BY <1>1, <1>2, ArrayInvariant, PTL DEF Spec, ImplementsQueue, Queue!Spec

-----------------------------------------------------------------------------
(* Whose the data are, without counting: a datum is in a slot exactly when the
   array owns it, and in one only; ids are apart where they are checked. *)
OwnedInv ==
    /\ ArrayInv
    /\ \A i \in Used : owner[items[i].data] = "array"
    /\ \A i, j \in Used : items[i].data = items[j].data => i = j
    /\ \A d \in Data : owner[d] = "array" => \E i \in Used : items[i].data = d
    /\ \A d \in Data : owner[d] = "lost" => lib = "na_array"
    /\ IdsUnique

LEMMA DataOfUsed == ArrayInv => \A i \in Used : i \in AllSlots /\ items[i].data \in Data
<1> SUFFICES ASSUME ArrayInv, NEW i \in Used
             PROVE  i \in AllSlots /\ items[i].data \in Data
  OBVIOUS
<1>1. i \in AllSlots /\ items[i] \in Items
  BY UsedFinite DEF ArrayInv, RingInv, TypeOK, Used
<1> QED
  BY <1>1 DEF Items

LEMMA UsedIsFinite == TypeOK => IsFiniteSet(Used)
  BY UsedFinite

LEMMA RenewKeepsOwned ==
    ASSUME OwnedInv, ArrayInv', UNCHANGED lib, count' = 0, ReleaseAll \/ (UNCHANGED owner /\ Used = {})
    PROVE  OwnedInv'
<1>1. Used' = {}
  <2>1. count' = Cardinality(Used')
    BY DEF ArrayInv, CountIsUsed
  <2>2. (TypeOK => IsFiniteSet(Used))'
    BY UsedIsFinite, PTL
  <2> QED
    BY <2>1, <2>2, FS_EmptySet DEF ArrayInv, RingInv
<1>2. Reached = Used
  BY AllReached DEF OwnedInv, ArrayInv, RingInv
<1>3. \A d \in Data : owner'[d] # "array" /\ (owner'[d] = "lost" => owner[d] = "lost")
  <2> SUFFICES ASSUME NEW d \in Data
               PROVE  owner'[d] # "array" /\ (owner'[d] = "lost" => owner[d] = "lost")
    OBVIOUS
  <2>1. CASE UNCHANGED owner /\ Used = {}
    BY <2>1 DEF OwnedInv
  <2>2. CASE ReleaseAll
    <3>1. CASE \E i \in Used : items[i].data = d
      BY <1>2, <2>2, <3>1 DEF ReleaseAll, Released
    <3>2. CASE ~\E i \in Used : items[i].data = d
      BY <1>2, <2>2, <3>2 DEF ReleaseAll, OwnedInv
    <3> QED
      BY <3>1, <3>2
  <2> QED
    BY <2>1, <2>2
<1>4. IdsUnique'
  BY <1>1 DEF IdsUnique
<1> QED
  BY <1>1, <1>3, <1>4 DEF OwnedInv

LEMMA PlaceKeepsOwned ==
    ASSUME OwnedInv, ArrayInv', UNCHANGED lib, count # size,
           NEW d \in Data, NEW del \in BOOLEAN, NEW i \in FreeSlot, Place(i, d, del),
           owner[d] = "caller",
           lib = "na_array" /\ order = "DIRECT" /\ chk_dup =>
               Id[d] = NoId \/ WithId(d) = {}
    PROVE  OwnedInv'
<1>1. i \in Slots \ Used /\ ArrayInv
  BY FreeSlotIsFree DEF OwnedInv
<1>2. Used' = Used \cup {i}
  BY <1>1, PlaceCounts
<1>3. /\ items' = [items EXCEPT ![i] = [data |-> d, del |-> del]]
      /\ items \in [AllSlots -> Items \cup {NoItem}] /\ i \in AllSlots
      /\ owner' = [owner EXCEPT ![d] = "array"]
      /\ owner \in [Data -> {"caller", "array", "freed", "lost"}]
      /\ UNCHANGED <<order, chk_dup>>
  BY <1>1, UsedFinite DEF Place, ArrayInv, RingInv, TypeOK
<1>4. \A j \in Used : j # i /\ j \in AllSlots /\ items'[j] = items[j] /\ items[j].data \in Data
  BY <1>1, <1>3, DataOfUsed
<1>5. items'[i].data = d
  BY <1>3
<1>6. \A j \in Used : items[j].data # d
  BY DEF OwnedInv
<1>7. \A e \in Data : owner'[e] = IF e = d THEN "array" ELSE owner[e]
  BY <1>3
<1>8. \A j \in Used' : owner'[items'[j].data] = "array"
  BY <1>2, <1>4, <1>5, <1>6, <1>7 DEF OwnedInv
<1>9. \A j, k \in Used' : items'[j].data = items'[k].data => j = k
  BY <1>2, <1>4, <1>5, <1>6 DEF OwnedInv
<1>10. \A e \in Data : owner'[e] = "array" => \E j \in Used' : items'[j].data = e
  BY <1>2, <1>4, <1>5, <1>7 DEF OwnedInv
<1>11. \A e \in Data : owner'[e] = "lost" => lib' = "na_array"
  BY <1>7 DEF OwnedInv
<1>12. IdsUnique'
  <2> SUFFICES ASSUME lib = "na_array", order = "DIRECT", chk_dup
               PROVE  \A j, k \in Used' :
                          HasWholeId(j)' /\ HasWholeId(k)' /\ Id[items'[j].data] = Id[items'[k].data]
                              => j = k
    BY <1>3 DEF IdsUnique
  <2>1. Reached = Used
    BY <1>1, AllReached DEF ArrayInv, RingInv
  <2>2. Id[d] # NoId => \A j \in Used : HasWholeId(j) => Id[items[j].data] # Id[d]
    BY <2>1 DEF WithId, AskedId, HasWholeId
  <2>3. /\ \A j \in Used : HasWholeId(j)' = HasWholeId(j)
        /\ HasWholeId(i)' => Id[d] # NoId
    BY <1>4, <1>5 DEF HasWholeId
  <2> QED
    BY <1>2, <1>4, <1>5, <2>2, <2>3 DEF OwnedInv, IdsUnique
<1> QED
  BY <1>8, <1>9, <1>10, <1>11, <1>12 DEF OwnedInv

LEMMA ReleaseKeepsOwned ==
    ASSUME OwnedInv, ArrayInv', UNCHANGED <<lib, order, chk_dup, size>>,
           NEW i \in Used, NEW taken \in BOOLEAN, Release(i, taken)
    PROVE  OwnedInv'
<1>1. ArrayInv /\ Used' = Used \ {i}
  BY ReleaseCounts DEF OwnedInv
<1>2. /\ items' = [items EXCEPT ![i] = NoItem]
      /\ items \in [AllSlots -> Items \cup {NoItem}]
      /\ owner' = [owner EXCEPT ![items[i].data] = Released(items[i], taken)]
      /\ owner \in [Data -> {"caller", "array", "freed", "lost"}]
  BY <1>1 DEF Release, ArrayInv, RingInv, TypeOK
<1>3. \A j \in Used : j \in AllSlots /\ items[j].data \in Data /\ (j # i => items'[j] = items[j])
  BY <1>1, <1>2, DataOfUsed
<1>4. Released(items[i], taken) \in {"caller", "freed"}
  BY DEF Released
<1>5. \A e \in Data :
         owner'[e] = IF e = items[i].data THEN Released(items[i], taken) ELSE owner[e]
  BY <1>2
<1>6. \A j \in Used' : owner'[items'[j].data] = "array"
  BY <1>1, <1>3, <1>5 DEF OwnedInv
<1>7. \A j, k \in Used' : items'[j].data = items'[k].data => j = k
  BY <1>1, <1>3 DEF OwnedInv
<1>8. \A e \in Data : owner'[e] = "array" => \E j \in Used' : items'[j].data = e
  BY <1>1, <1>3, <1>4, <1>5 DEF OwnedInv
<1>9. \A e \in Data : owner'[e] = "lost" => lib' = "na_array"
  BY <1>4, <1>5 DEF OwnedInv
<1>10. IdsUnique'
  BY <1>1, <1>3 DEF OwnedInv, IdsUnique, HasWholeId
<1> QED
  BY <1>6, <1>7, <1>8, <1>9, <1>10 DEF OwnedInv

LEMMA SameSlotsKeepOwned ==
    ASSUME OwnedInv, ArrayInv', UNCHANGED <<lib, order, chk_dup, size, items, owner>>
    PROVE  OwnedInv'
<1>1. Used' = Used
  BY DEF Used, Slots
<1>2. IdsUnique' = IdsUnique
  BY <1>1 DEF IdsUnique, HasWholeId
<1> QED
  BY <1>1, <1>2 DEF OwnedInv

LEMMA CArrayMgrKeepsOwned == OwnedInv /\ ArrayInv' /\ CArrayMgr => OwnedInv'
<1> SUFFICES ASSUME OwnedInv, ArrayInv', CArrayMgr PROVE OwnedInv'
  OBVIOUS
<1>0. ArrayInv /\ (size = 0 => Used = {}) /\ (order = "none" => size = 0)
  BY DEF OwnedInv, ArrayInv, RingInv, Used, Slots
<1>a. size # 0 => 0 < size
  BY <1>0, MaxSizeAssumption DEF ArrayInv, RingInv, TypeOK
<1>1. ASSUME NEW n \in 0..MaxSize, NEW o \in Orders, NEW dup \in BOOLEAN, array_init(n, o, dup)
      PROVE  OwnedInv'
  BY <1>0, <1>a, <1>1, RenewKeepsOwned DEF array_init, In, Renew
<1>2. CASE array_term
  BY <1>2, RenewKeepsOwned DEF array_term, In, Renew
<1>3. ASSUME NEW d \in Data, NEW del \in BOOLEAN, array_add(d, del)
      PROVE  OwnedInv'
  <2>1. CASE Refuse
    BY <1>3, <2>1, SameSlotsKeepOwned DEF array_add, In, Refuse
  <2>2. CASE count # size /\ \E i \in FreeSlot : Place(i, d, del)
    BY <1>3, <2>2, PlaceKeepsOwned DEF array_add, In
  <2> QED
    BY <1>3, <2>1, <2>2 DEF array_add
<1>4. ASSUME NEW taken \in BOOLEAN, array_del(taken)
      PROVE  OwnedInv'
  <2>1. CASE Nothing(taken)
    BY <1>4, <2>1, SameSlotsKeepOwned DEF array_del, In, Nothing
  <2>2. CASE /\ \E i \in Used : Release(i, taken)
             /\ UNCHANGED <<order, chk_dup, size>>
    BY <1>4, <2>2, ReleaseKeepsOwned DEF array_del, In
  <2>3. Reached = Used
    BY <1>0, AllReached DEF ArrayInv, RingInv
  <2> QED
    BY <1>4, <2>1, <2>2, <2>3 DEF array_del, First
<1>5. ASSUME NEW i \in AllSlots, NEW taken \in BOOLEAN, array_del_by_index(i, taken)
      PROVE  OwnedInv'
  BY <1>5, ReleaseKeepsOwned DEF array_del_by_index, In
<1>6. ASSUME NEW d \in Data, NEW taken \in BOOLEAN, array_del_by_id(d, taken)
      PROVE  OwnedInv'
  <2>1. PICK i \in First(WithId(d)) : Release(i, taken)
    BY <1>6 DEF array_del_by_id
  <2>2. i \in Used
    BY DEF First, WithId, Reached
  <2> QED
    BY <1>6, <2>1, <2>2, ReleaseKeepsOwned DEF array_del_by_id, In
<1>7. CASE array_del_all
  BY <1>7, RenewKeepsOwned DEF array_del_all, In, Renew
<1> QED
  BY <1>1, <1>2, <1>3, <1>4, <1>5, <1>6, <1>7 DEF CArrayMgr

LEMMA na_arrayKeepsOwned == OwnedInv /\ ArrayInv' /\ na_array => OwnedInv'
<1> SUFFICES ASSUME OwnedInv, ArrayInv', na_array PROVE OwnedInv'
  OBVIOUS
<1>0. ArrayInv /\ (size = 0 => Used = {}) /\ (order = "none" => size = 0)
  BY DEF OwnedInv, ArrayInv, RingInv, Used, Slots
<1>a. size # 0 => 0 < size
  BY <1>0, MaxSizeAssumption DEF ArrayInv, RingInv, TypeOK
<1>1. ASSUME NEW n \in 0..MaxSize, NEW o \in Orders, NEW dup \in BOOLEAN, na_array_init(n, o, dup)
      PROVE  OwnedInv'
  BY <1>0, <1>a, <1>1, RenewKeepsOwned DEF na_array_init, In, Renew
<1>2. CASE na_array_term
  BY <1>2, RenewKeepsOwned DEF na_array_term, In, Renew
<1>3. ASSUME NEW d \in Data, NEW del \in BOOLEAN, na_array_add(d, del)
      PROVE  OwnedInv'
  <2>1. CASE Refuse
    BY <1>3, <2>1, SameSlotsKeepOwned DEF na_array_add, In, Refuse
  <2>2. CASE count # size /\ ~Duplicate(d) /\ \E i \in FreeSlot : Place(i, d, del)
    BY <1>3, <2>2, PlaceKeepsOwned DEF na_array_add, In, Duplicate
  <2>3. CASE /\ owner' = [owner EXCEPT ![d] = "lost"]
             /\ UNCHANGED <<order, chk_dup, size, count, head, tail, items>>
    <3>1. owner[d] = "caller" /\ owner \in [Data -> {"caller", "array", "freed", "lost"}]
          /\ lib = "na_array" /\ UNCHANGED lib
      BY <1>0, <1>3 DEF na_array_add, In, ArrayInv, RingInv, TypeOK
    <3>2. \A e \in Data : owner'[e] = IF e = d THEN "lost" ELSE owner[e]
      BY <2>3, <3>1
    <3>3. Used' = Used /\ IdsUnique' = IdsUnique
      BY <2>3, <3>1 DEF Used, Slots, IdsUnique, HasWholeId
    <3>4. \A i \in Used : items[i].data \in Data
      BY <1>0, DataOfUsed
    <3> QED
      BY <2>3, <3>1, <3>2, <3>3, <3>4 DEF OwnedInv
  <2> QED
    BY <1>3, <2>1, <2>2, <2>3 DEF na_array_add
<1>4. ASSUME NEW taken \in BOOLEAN, na_array_del(taken)
      PROVE  OwnedInv'
  <2>1. CASE Nothing(taken)
    BY <1>4, <2>1, SameSlotsKeepOwned DEF na_array_del, In, Nothing
  <2>2. CASE /\ \E i \in Used : Release(i, taken)
             /\ UNCHANGED <<order, chk_dup, size, head, tail>>
    BY <1>4, <2>2, ReleaseKeepsOwned DEF na_array_del, In
  <2> QED
    BY <1>4, <2>1, <2>2 DEF na_array_del, First
<1>5. ASSUME NEW i \in AllSlots, NEW taken \in BOOLEAN, na_array_del_by_index(i, taken)
      PROVE  OwnedInv'
  BY <1>5, ReleaseKeepsOwned DEF na_array_del_by_index, In
<1>6. ASSUME NEW d \in Data, NEW taken \in BOOLEAN, na_array_del_by_id(d, taken)
      PROVE  OwnedInv'
  <2>1. PICK i \in First(WithId(d)) : Release(i, taken)
    BY <1>6 DEF na_array_del_by_id
  <2>2. i \in Used
    BY DEF First, WithId, Reached
  <2> QED
    BY <1>6, <2>1, <2>2, ReleaseKeepsOwned DEF na_array_del_by_id, In
<1>7. CASE na_array_del_all
  BY <1>7, RenewKeepsOwned DEF na_array_del_all, In, Renew
<1> QED
  BY <1>1, <1>2, <1>3, <1>4, <1>5, <1>6, <1>7 DEF na_array

LEMMA OwnedInvariant == Spec => []OwnedInv
<1>1. Init => OwnedInv
  <2> SUFFICES ASSUME Init PROVE OwnedInv
    OBVIOUS
  <2>1. Used = {}
    BY DEF Init, Used, Slots
  <2>2. \A d \in Data : owner[d] = "caller"
    BY DEF Init
  <2> QED
    BY <2>1, <2>2, InitEstablishes DEF OwnedInv, IdsUnique
<1>2. OwnedInv /\ ArrayInv' /\ [Next]_vars => OwnedInv'
  <2> SUFFICES ASSUME OwnedInv, ArrayInv', [Next]_vars PROVE OwnedInv'
    OBVIOUS
  <2>1. CASE UNCHANGED vars
    BY <2>1, SameSlotsKeepOwned DEF vars
  <2> QED
    BY <2>1, CArrayMgrKeepsOwned, na_arrayKeepsOwned DEF Next
<1> QED
  BY <1>1, <1>2, ArrayInvariant, PTL DEF Spec

(* Each datum is in one slot exactly while the array owns it: none is dropped,
   freed twice or freed while it can still be found (array_term, array_del,
   array_del_all and their na_array counterparts). *)
THEOREM DataAreOwned == Spec => []ItemsOwned
<1>1. OwnedInv => ItemsOwned
  <2> SUFFICES ASSUME OwnedInv, NEW d \in Data
               PROVE  /\ Cardinality({i \in Used : items[i].data = d})
                             = IF owner[d] = "array" THEN 1 ELSE 0
                      /\ owner[d] = "lost" => lib = "na_array"
    BY DEF ItemsOwned
  <2>1. CASE owner[d] = "array"
    <3>1. PICK i \in Used : items[i].data = d
      BY <2>1 DEF OwnedInv
    <3>2. {j \in Used : items[j].data = d} = {i}
      BY <3>1 DEF OwnedInv
    <3> QED
      BY <2>1, <3>2, FS_Singleton
  <2>2. CASE owner[d] # "array"
    <3>1. {j \in Used : items[j].data = d} = {}
      BY <2>2 DEF OwnedInv
    <3> QED
      BY <2>2, <3>1, FS_EmptySet DEF OwnedInv
  <2> QED
    BY <2>1, <2>2
<1> QED
  BY <1>1, OwnedInvariant, PTL

(* Where na_array checks ids, no two items share an id that was given and fits
   the field (na_array.c:213-224, 249-252). *)
THEOREM IdsAreUnique == Spec => []IdsUnique
<1>1. OwnedInv => IdsUnique
  BY DEF OwnedInv
<1> QED
  BY <1>1, OwnedInvariant, PTL

-----------------------------------------------------------------------------
(* Induction.  The theorems of the library take the property as an operator, *)
(* which the provers cannot instantiate; here it is a set.                  *)

LEMMA MinOf ==
    ASSUME NEW S \in SUBSET Nat, S # {}
    PROVE  \E x \in S : \A y \in S : x <= y
<1> DEFINE T == {1..n : n \in S}
<1>1. T \subseteq FiniteSubsetsOf(Nat)
  <2>1. \A n \in Nat : IsFiniteSet(1..n) /\ 1..n \subseteq Nat
    BY FS_Interval
  <2> QED
    BY <2>1 DEF FiniteSubsetsOf
<1>2. PICK t \in T : \A u \in T : <<u, t>> \notin StrictSubsetOrdering(Nat)
  <2>1. T # {}
    OBVIOUS
  <2> HIDE DEF T
  <2> QED
    BY <1>1, <2>1, FS_StrictSubsetOrderingWellFounded, WFMin
<1>3. PICK x \in S : t = 1..x
  BY <1>2
<1>4. ASSUME NEW y \in S, y < x
      PROVE  FALSE
  <2>1. 1..y \in T /\ 1..y \subseteq 1..x /\ 1..x \subseteq Nat /\ x \in 1..x /\ x \notin 1..y
    BY <1>4
  <2>2. <<1..y, 1..x>> \in StrictSubsetOrdering(Nat)
    BY <2>1 DEF StrictSubsetOrdering
  <2> QED
    BY <1>2, <1>3, <2>1, <2>2
<1> QED
  BY <1>4

LEMMA MaxOf ==
    ASSUME NEW S \in SUBSET Nat, S # {}, NEW n \in Nat, \A x \in S : x <= n
    PROVE  \E x \in S : \A y \in S : y <= x
<1> DEFINE T == {n - x : x \in S}
<1>1. T \in SUBSET Nat /\ T # {}
  <2>1. \A x \in S : n - x \in Nat
    OBVIOUS
  <2> QED
    BY <2>1
<1>2. PICK t \in T : \A u \in T : t <= u
  BY <1>1, MinOf
<1>3. PICK x \in S : t = n - x
  BY <1>2
<1> QED
  BY <1>2, <1>3

LEMMA SetInduction ==
    ASSUME NEW S, 0 \in S, \A n \in Nat : n \in S => n + 1 \in S
    PROVE  Nat \subseteq S
<1> SUFFICES ASSUME Nat \ S # {} PROVE FALSE
  OBVIOUS
<1>1. PICK x \in Nat \ S : \A y \in Nat \ S : x <= y
  BY MinOf
<1>2. x # 0 /\ x - 1 \in Nat /\ x - 1 \in S
  BY <1>1
<1> QED
  BY <1>1, <1>2

-----------------------------------------------------------------------------
(* The iteration. *)

SeenNext(seen) == seen \cup UNION {array_get_next(i) : i \in seen}

LEMMA SeenIs ==
    /\ Seen[0] = array_get_first
    /\ \A n \in 1..MaxSize : Seen[n] = SeenNext(Seen[n - 1])
<1> DEFINE S == {m \in Nat : \E f : f = [k \in 0..m |-> IF k = 0 THEN array_get_first ELSE SeenNext(f[k - 1])]}
<1>1. 0 \in S
  <2> DEFINE f == [k \in 0..0 |-> array_get_first]
  <2>1. f = [k \in 0..0 |-> IF k = 0 THEN array_get_first ELSE SeenNext(f[k - 1])]
    OBVIOUS
  <2> HIDE DEF f
  <2> QED
    BY <2>1
<1>2. ASSUME NEW m \in Nat, m \in S
      PROVE  m + 1 \in S
  <2>1. PICK f : f = [k \in 0..m |-> IF k = 0 THEN array_get_first ELSE SeenNext(f[k - 1])]
    BY <1>2
  <2> DEFINE g == [k \in 0..m + 1 |-> IF k = m + 1 THEN SeenNext(f[m]) ELSE f[k]]
  <2>2. g = [k \in 0..m + 1 |-> IF k = 0 THEN array_get_first ELSE SeenNext(g[k - 1])]
    <3>1. \A k \in 0..m + 1 : g[k] = IF k = 0 THEN array_get_first ELSE SeenNext(g[k - 1])
      <4> SUFFICES ASSUME NEW k \in 0..m + 1
                   PROVE  g[k] = IF k = 0 THEN array_get_first ELSE SeenNext(g[k - 1])
        OBVIOUS
      <4>1. CASE k = 0
        BY <2>1, <4>1
      <4>2. CASE k = m + 1
        BY <4>2
      <4>3. CASE k \in 1..m
        <5>1. f[k] = SeenNext(f[k - 1])
          BY <2>1, <4>3
        <5>2. g[k] = f[k] /\ g[k - 1] = f[k - 1]
          BY <4>3
        <5> QED
          BY <4>3, <5>1, <5>2
      <4> QED
        BY <4>1, <4>2, <4>3
    <3> QED
      BY <3>1
  <2> HIDE DEF g
  <2> QED
    BY <2>2
<1>3. Nat \subseteq S
  <2> HIDE DEF S
  <2> QED
    BY <1>1, <1>2, SetInduction
<1>4. PICK f : f = [k \in 0..MaxSize |-> IF k = 0 THEN array_get_first ELSE SeenNext(f[k - 1])]
  BY <1>3, MaxSizeAssumption
<1>5. Seen = [k \in 0..MaxSize |-> IF k = 0 THEN array_get_first ELSE SeenNext(Seen[k - 1])]
  BY <1>4, Zenon DEF Seen, SeenNext
<1> HIDE DEF S
<1> QED
  BY <1>5, MaxSizeAssumption

(* Whoever goes from a used slot to the next sees used slots only, and all  *)
(* that it had seen.                                                        *)
LEMMA SeenGrows ==
    ASSUME NEW n \in 0..MaxSize, n + 1 <= MaxSize
    PROVE  n + 1 \in 1..MaxSize /\ Seen[n + 1] = SeenNext(Seen[n])
<1>1. n + 1 \in 1..MaxSize /\ (n + 1) - 1 = n
  BY MaxSizeAssumption
<1> QED
  BY <1>1, SeenIs

LEMMA DirectVisits ==
    ASSUME ArrayInv, order # "FIFO"
    PROVE  Visited = Used
<1> USE MaxSizeAssumption
<1>1. /\ array_get_first = First(Used)
      /\ \A i \in Used : array_get_next(i) = First({j \in Used : j > i})
  BY DEF array_get_first, array_get_next
<1>2. Used \in SUBSET Nat /\ \A i \in Used : i <= MaxSize
  BY UsedFinite DEF ArrayInv, RingInv, Used, Slots, AllSlots
<1>3. \A T : First(T) \subseteq T
  BY DEF First
<1> DEFINE S == {n \in Nat : n <= MaxSize =>
                    /\ Seen[n] \subseteq Used /\ First(Used) \subseteq Seen[n]
                    /\ \A i \in Used : i <= n => i \in Seen[n]}
<1>4. 0 \in S
  <2>1. Seen[0] = First(Used)
    BY <1>1, SeenIs
  <2>2. \A i \in Used : i <= 0 => i \in First(Used)
    BY <1>2 DEF First
  <2> QED
    BY <2>1, <2>2, <1>3
<1>5. ASSUME NEW n \in Nat, n \in S
      PROVE  n + 1 \in S
  <2> SUFFICES ASSUME n + 1 <= MaxSize
               PROVE  /\ Seen[n + 1] \subseteq Used /\ First(Used) \subseteq Seen[n + 1]
                      /\ \A i \in Used : i <= n + 1 => i \in Seen[n + 1]
    OBVIOUS
  <2>1. /\ Seen[n] \subseteq Used /\ First(Used) \subseteq Seen[n]
        /\ \A i \in Used : i <= n => i \in Seen[n]
    BY <1>5
  <2>2. Seen[n + 1] = Seen[n] \cup UNION {array_get_next(i) : i \in Seen[n]}
    <3>1. n \in 0..MaxSize
      OBVIOUS
    <3> QED
      BY <3>1, SeenGrows DEF SeenNext
  <2>3. \A i \in Seen[n] : array_get_next(i) \subseteq Used
    BY <1>1, <1>3, <2>1
  <2>4. ASSUME NEW i \in Used, i <= n + 1
        PROVE  i \in Seen[n + 1]
    <3>1. CASE i <= n
      BY <2>1, <2>2, <3>1
    <3>2. CASE {j \in Used : j < i} = {}
      <4>1. i \in First(Used)
        BY <1>2, <3>2 DEF First
      <4> QED
        BY <4>1, <2>1, <2>2
    <3>3. CASE i > n /\ {j \in Used : j < i} # {}
      <4>1. i \in Nat /\ i = n + 1
        BY <1>2, <2>4, <3>3
      <4>2. PICK j \in {j \in Used : j < i} : \A k \in {k \in Used : k < i} : k <= j
        <5> DEFINE T == {k \in Used : k < i}
        <5>1. T # {}
          BY <3>3
        <5>2. \A k \in T : k \in Nat /\ k <= i
          BY <1>2, <4>1
        <5> HIDE DEF T
        <5>3. \E k \in T : \A l \in T : l <= k
          BY <4>1, <5>1, <5>2, MaxOf
        <5> QED
          BY <5>3 DEF T
      <4>3. j \in Used /\ j < i /\ j \in Nat
        BY <1>2, <4>2
      <4>4. j \in Seen[n]
        BY <2>1, <4>1, <4>3
      <4>5. i \in First({k \in Used : k > j})
        BY <1>2, <4>1, <4>2, <4>3 DEF First
      <4> QED
        BY <1>1, <2>2, <4>3, <4>4, <4>5
    <3> QED
      BY <1>2, <3>1, <3>2, <3>3
  <2> QED
    BY <2>1, <2>2, <2>3, <2>4
<1>6. Nat \subseteq S
  <2> HIDE DEF S
  <2> QED
    BY <1>4, <1>5, SetInduction
<1>7. /\ Seen[MaxSize] \subseteq Used
      /\ \A i \in Used : i <= MaxSize => i \in Seen[MaxSize]
  BY <1>6
<1> QED
  BY <1>2, <1>7 DEF Visited

LEMMA RingVisits ==
    ASSUME ArrayInv, IsQueue
    PROVE  Visited = Used
<1> USE MaxSizeAssumption
<1>0. RingShape /\ size \in Nat /\ size <= MaxSize /\ count \in Nat /\ order = "FIFO" /\ count <= size
  BY DEF ArrayInv, RingInv, TypeOK, IsQueue
<1>1. /\ array_get_first = {head} \cap Used
      /\ \A i : array_get_next(i) = IF i # tail THEN {(i + 1) % size} \cap Used ELSE {}
  BY <1>0 DEF array_get_first, array_get_next
<1> DEFINE S == {n \in Nat : n <= MaxSize =>
                    /\ Seen[n] \subseteq Used
                    /\ \A k \in 1..count : k <= n + 1 => SlotOf(k) \in Seen[n]}
<1>2. count > 0 => /\ SlotOf(1) = head /\ size \in Nat \ {0}
                   /\ head \in 0..size - 1 /\ tail \in 0..size - 1
                   /\ \A k \in 1..count : SlotOf(k) \in Used
  BY <1>0, SlotsOfQueue DEF ArrayInv, RingInv, Slots
<1>3. \A k \in 1..count : k + 1 <= count =>
          SlotOf(k) # tail /\ (SlotOf(k) + 1) % size = SlotOf(k + 1)
  <2> SUFFICES ASSUME NEW k \in 1..count, k + 1 <= count
               PROVE  SlotOf(k) # tail /\ (SlotOf(k) + 1) % size = SlotOf(k + 1)
    OBVIOUS
  <2>1. size \in Nat \ {0} /\ head \in 0..size - 1 /\ tail \in 0..size - 1 /\ count > 0
    BY <1>0, <1>2
  <2>2. SlotOf(k) \in 0..size - 1
    BY <1>0, <2>1 DEF SlotOf
  <2>3. (SlotOf(k) + 1) % size = IF SlotOf(k) + 1 = size THEN 0 ELSE SlotOf(k) + 1
    BY <2>1, <2>2, ModStep
  <2>4. SlotOf(k + 1) = IF SlotOf(k) + 1 = size THEN 0 ELSE SlotOf(k) + 1
    BY <1>0, <2>1 DEF SlotOf
  <2>5. SlotOf(k) # tail
    BY <1>0, <2>1 DEF SlotOf, RingShape
  <2> QED
    BY <2>3, <2>4, <2>5
<1>4. \A i \in Used : \E k \in 1..count : SlotOf(k) = i
  <2> SUFFICES ASSUME NEW i \in Used PROVE \E k \in 1..count : SlotOf(k) = i
    OBVIOUS
  <2>1. count > 0
    BY <1>0 DEF RingShape
  <2>2. size \in Nat \ {0} /\ head \in 0..size - 1 /\ tail \in 0..size - 1 /\ i \in 0..size - 1
    BY <1>2, <2>1 DEF Used, Slots
  <2>3. CASE i >= head
    <3>1. i - head + 1 \in 1..count /\ SlotOf(i - head + 1) = i
      <4>1. CASE head <= tail
        BY <1>0, <2>1, <2>2, <2>3, <4>1 DEF RingShape, SlotOf
      <4>2. CASE head > tail
        BY <1>0, <2>1, <2>2, <2>3, <4>2 DEF RingShape, SlotOf, Slots
      <4> QED
        BY <2>2, <4>1, <4>2
    <3> QED
      BY <3>1
  <2>4. CASE i < head
    <3>1. i - head + size + 1 \in 1..count /\ SlotOf(i - head + size + 1) = i
      <4>1. CASE head <= tail
        BY <1>0, <2>1, <2>2, <2>4, <4>1 DEF RingShape
      <4>2. CASE head > tail
        BY <1>0, <2>1, <2>2, <2>4, <4>2 DEF RingShape, SlotOf, Slots
      <4> QED
        BY <2>2, <4>1, <4>2
    <3> QED
      BY <3>1
  <2> QED
    BY <2>2, <2>3, <2>4
<1>5. 0 \in S
  <2>1. Seen[0] = {head} \cap Used
    BY <1>1, SeenIs
  <2>2. \A k \in 1..count : k <= 0 + 1 => SlotOf(k) \in {head} \cap Used
    BY <1>0, <1>2
  <2> QED
    BY <2>1, <2>2
<1>6. ASSUME NEW n \in Nat, n \in S
      PROVE  n + 1 \in S
  <2> SUFFICES ASSUME n + 1 <= MaxSize
               PROVE  /\ Seen[n + 1] \subseteq Used
                      /\ \A k \in 1..count : k <= (n + 1) + 1 => SlotOf(k) \in Seen[n + 1]
    OBVIOUS
  <2>1. Seen[n] \subseteq Used /\ \A k \in 1..count : k <= n + 1 => SlotOf(k) \in Seen[n]
    BY <1>6
  <2>2. Seen[n + 1] = Seen[n] \cup UNION {array_get_next(i) : i \in Seen[n]}
    BY SeenGrows DEF SeenNext
  <2>3. \A i \in Seen[n] : array_get_next(i) \subseteq Used
    BY <1>1
  <2>4. ASSUME NEW k \in 1..count, k <= (n + 1) + 1
        PROVE  SlotOf(k) \in Seen[n + 1]
    <3>1. CASE k <= n + 1
      BY <2>1, <2>2, <3>1
    <3>2. CASE k = n + 2
      <4>1. k - 1 \in 1..count /\ (k - 1) + 1 = k /\ k - 1 <= n + 1 /\ count > 0
        BY <1>0, <3>2
      <4>2. SlotOf(k - 1) \in Seen[n] /\ SlotOf(k) \in Used
        BY <1>2, <2>1, <4>1
      <4>3. SlotOf(k) \in array_get_next(SlotOf(k - 1))
        BY <1>1, <1>3, <4>1, <4>2
      <4> QED
        BY <2>2, <4>2, <4>3
    <3> QED
      BY <1>0, <2>4, <3>1, <3>2
  <2> QED
    BY <2>1, <2>2, <2>3, <2>4
<1>7. Nat \subseteq S
  <2> HIDE DEF S
  <2> QED
    BY <1>5, <1>6, SetInduction
<1>8. /\ Seen[MaxSize] \subseteq Used
      /\ \A k \in 1..count : k <= MaxSize + 1 => SlotOf(k) \in Seen[MaxSize]
  BY <1>7
<1> QED
  BY <1>0, <1>4, <1>8 DEF Visited

(* An iteration over a CArrayMgr array, or over a direct na_array, sees     *)
(* every item, whatever was added and deleted before, and nothing else      *)
(* (array_get_first, array_get_next).                                       *)
THEOREM IterationIsComplete == Spec => []IterationVisitsAll
<1>1. ArrayInv => IterationVisitsAll
  BY DirectVisits, RingVisits DEF IterationVisitsAll, IsQueue
<1> QED
  BY <1>1, ArrayInvariant, PTL

=============================================================================
