-------------------------- MODULE VoiceConfig_proofs --------------------------
(***************************************************************************)
(* The memory of the voice configuration: for documents, numbers of blocks *)
(* and numbers of interfaces of any size.                                  *)
(***************************************************************************)
EXTENDS VoiceConfig, FiniteSetTheorems, SequenceTheorems, TLAPS

Steps == Lists \cup {"logger", "modules", "GSM", "index", "diagnose", "loaded", "failed", "gone"}

CfgType ==
    /\ step \in Steps
    /\ array \in [Lists -> Seq(Blocks)]
    /\ inner \in [Blocks -> SUBSET Blocks]
    /\ local \in [Lists -> Blocks \cup {NoBlock}]
    /\ live \subseteq Blocks
    /\ pointsTo \in [Blocks -> Blocks \cup {NoBlock}]
    /\ definitions \subseteq Blocks /\ overwritten \subseteq Blocks

Structures == UNION {ItemsOf(l) : l \in Lists}

(* The blocks that are in no array: definitions, patterns without a route,  *)
(* and the last of those, which the local pointer still has.                *)
Astray == definitions \cup overwritten \cup ({local["patterns"]} \ {NoBlock})

(* A block that is free has nothing in its arrays: whoever gets it next     *)
(* finds them empty.                                                        *)
FreeIsEmpty == \A b \in Blocks \ live : inner[b] = {}

(* What an item holds is allocated, and no other item holds it. *)
ItemsHold ==
    /\ \A b \in Structures : Within(b) \subseteq live
    /\ \A b, c \in Structures : b # c => Within(b) \cap Within(c) = {}

ArraysApart ==
    /\ \A l \in Lists : IsInjective(array[l])
    /\ \A k, l \in Lists : k # l => ItemsOf(k) \cap ItemsOf(l) = {}

AstrayApart ==
    /\ Astray \subseteq live
    /\ \A b \in Structures : Within(b) \cap Astray = {}

(* Of the local pointers, only that of the patterns outlives its element,   *)
(* and only as long as patterns are read.                                   *)
LocalsClear ==
    /\ \A l \in Lists : local[l] # NoBlock => l = "patterns" /\ step = "patterns"
    /\ local["patterns"] \notin definitions \cup overwritten
    /\ local["patterns"] # NoBlock => inner[local["patterns"]] = {}

RoutesPoint == \A d \in Blocks : pointsTo[d] \in Channels \cup {NoBlock}

PPPsHoldNothing == \A b \in ItemsOf("PPPs") : inner[b] = {}

Held == UNION {Within(b) : b \in Structures}
AllAccounted == whole => live = Held \cup Astray

HeapInv ==
    /\ FreeIsEmpty /\ ItemsHold /\ ArraysApart /\ AstrayApart /\ LocalsClear
    /\ RoutesPoint /\ PPPsHoldNothing /\ AllAccounted

CfgInv == CfgType /\ (step # "gone" => HeapInv) /\ TermReleases

-----------------------------------------------------------------------------
(* The lists. *)

LEMMA Joined ==
    ASSUME NEW S, NEW m \in Seq(S), NEW c \in Seq(S), NEW r \in Seq(S),
           Len(m) = 4, Len(c) = 4, Len(r) = 2
    PROVE  m \o c \o r = <<m[1], m[2], m[3], m[4], c[1], c[2], c[3], c[4], r[1], r[2]>>
<1> DEFINE t == <<m[1], m[2], m[3], m[4], c[1], c[2], c[3], c[4], r[1], r[2]>>
<1>1. Len(m) + Len(c) = 8
  OBVIOUS
<1>2. /\ m \o c \in Seq(S) /\ Len(m \o c) = Len(m) + Len(c)
      /\ \A i \in 1..Len(m) + Len(c) : (m \o c)[i] = IF i <= Len(m) THEN m[i] ELSE c[i - Len(m)]
  BY ConcatProperties, Zenon
<1>3. Len(m \o c) = 8 /\ \A i \in 1..8 : (m \o c)[i] = IF i <= 4 THEN m[i] ELSE c[i - 4]
  BY <1>1, <1>2, Zenon
<1>4. Len(m \o c) + Len(r) = 10
  BY <1>3
<1>5. /\ m \o c \o r \in Seq(S) /\ Len(m \o c \o r) = Len(m \o c) + Len(r)
      /\ \A i \in 1..Len(m \o c) + Len(r) :
             (m \o c \o r)[i] = IF i <= Len(m \o c) THEN (m \o c)[i] ELSE r[i - Len(m \o c)]
  <2> DEFINE mc == m \o c
  <2>1. mc \in Seq(S)
    BY <1>2
  <2> HIDE DEF mc
  <2>2. /\ mc \o r \in Seq(S) /\ Len(mc \o r) = Len(mc) + Len(r)
        /\ \A i \in 1..Len(mc) + Len(r) :
               (mc \o r)[i] = IF i <= Len(mc) THEN mc[i] ELSE r[i - Len(mc)]
    BY <2>1, ConcatProperties, Zenon
  <2> QED
    BY <2>2 DEF mc
<1>6. Len(m \o c \o r) = 10 /\ \A i \in 1..10 : (m \o c \o r)[i] = IF i <= 8 THEN (m \o c)[i] ELSE r[i - 8]
  BY <1>3, <1>4, <1>5, Zenon
<1>7. t \in Seq(S) /\ Len(t) = 10
  <2>1. m \in [1..4 -> S] /\ c \in [1..4 -> S] /\ r \in [1..2 -> S]
    BY LenProperties
  <2>2. m[1] \in S /\ m[2] \in S /\ m[3] \in S /\ m[4] \in S
    BY <2>1
  <2>3. c[1] \in S /\ c[2] \in S /\ c[3] \in S /\ c[4] \in S /\ r[1] \in S /\ r[2] \in S
    BY <2>1
  <2> QED
    BY <2>2, <2>3
<1>8. \A i \in 1..10 : (m \o c \o r)[i] = t[i]
  BY <1>3, <1>6
<1> QED
  BY <1>5, <1>6, <1>7, <1>8, SeqEqual

LEMMA OrderIs ==
    /\ Order = <<"PPPs", "modPSTNs", "modRS232s", "modRS485s", "TCPs", "PSTNs", "RS232s", "RS485s",
                 "patterns", "depends">>
    /\ Lists = {"PPPs", "modPSTNs", "modRS232s", "modRS485s", "TCPs", "PSTNs", "RS232s", "RS485s",
                "patterns", "depends"}
    /\ Range(ModuleLists) = {"PPPs", "modPSTNs", "modRS232s", "modRS485s"}
    /\ Range(ChannelLists) = {"TCPs", "PSTNs", "RS232s", "RS485s"}
<1> DEFINE S == {"PPPs", "modPSTNs", "modRS232s", "modRS485s", "TCPs", "PSTNs", "RS232s", "RS485s",
                 "patterns", "depends"}
           m == ModuleLists
           c == ChannelLists
           r == <<"patterns", "depends">>
<1>1. m \in Seq(S) /\ c \in Seq(S) /\ r \in Seq(S)
  BY DEF ModuleLists, ChannelLists
<1>2. Len(m) = 4 /\ Len(c) = 4 /\ Len(r) = 2
  BY DEF ModuleLists, ChannelLists
<1>3. m \o c \o r = <<m[1], m[2], m[3], m[4], c[1], c[2], c[3], c[4], r[1], r[2]>>
  <2> HIDE DEF S, r
  <2> QED
    BY <1>1, <1>2, Joined
<1>4. Order = <<"PPPs", "modPSTNs", "modRS232s", "modRS485s", "TCPs", "PSTNs", "RS232s", "RS485s",
                "patterns", "depends">>
  BY <1>3 DEF Order, ModuleLists, ChannelLists
<1>5. DOMAIN Order = {1, 2, 3, 4, 5, 6, 7, 8, 9, 10}
  BY <1>4
<1>6. Lists = S
  BY <1>4, <1>5 DEF Lists, Range
<1>7. Range(ModuleLists) = {"PPPs", "modPSTNs", "modRS232s", "modRS485s"}
  <2>1. DOMAIN ModuleLists = {1, 2, 3, 4}
    BY DEF ModuleLists
  <2> QED
    BY <2>1 DEF ModuleLists, Range
<1>8. Range(ChannelLists) = {"TCPs", "PSTNs", "RS232s", "RS485s"}
  <2>1. DOMAIN ChannelLists = {1, 2, 3, 4}
    BY DEF ChannelLists
  <2> QED
    BY <2>1 DEF ChannelLists, Range
<1> QED
  BY <1>4, <1>6, <1>7, <1>8

(* After a list comes another, and the dependencies after the patterns. *)
LEMMA AfterIs ==
    /\ \A l \in Lists \ {"depends"} : After(l) \in Lists
    /\ After("patterns") = "depends"
<1>1. DOMAIN Order = 1..10 /\ \A i \in 1..10 : Order[i] \in Lists /\ (Order[i] = "depends" <=> i = 10)
  BY OrderIs
<1>2. \A l \in Lists : \E i \in DOMAIN Order : Order[i] = l
  BY Zenon DEF Lists, Range
<1>3. \A l \in Lists \ {"depends"} : After(l) \in Lists
  BY <1>1, <1>2 DEF After
<1>4. \A i \in DOMAIN Order : Order[i] = "patterns" <=> i = 9
  BY OrderIs
<1>5. (CHOOSE i \in DOMAIN Order : Order[i] = "patterns") = 9
  BY <1>1, <1>4
<1> QED
  BY <1>3, <1>5, OrderIs DEF After

(* malloc gives different blocks that were free. *)
LEMMA FreshIs ==
    ASSUME NEW n \in Nat \ {0}, Room(n)
    PROVE  Fresh(n) \in [1..n -> Blocks \ live] /\ IsInjective(Fresh(n))
<1>1. IsFiniteSet(Blocks)
  BY ConfigAssumption, FS_Interval DEF Blocks
<1>2. IsFiniteSet(Blocks \ live)
  BY <1>1, FS_Subset
<1>3. PICK f \in Bijection(1..Cardinality(Blocks \ live), Blocks \ live) : TRUE
  BY <1>2, FS_CardinalityType DEF ExistsBijection
<1>4. Cardinality(Blocks \ live) \in Nat /\ 1..n \subseteq 1..Cardinality(Blocks \ live)
  BY <1>2, FS_CardinalityType DEF Room
<1>5. /\ f \in [1..Cardinality(Blocks \ live) -> Blocks \ live]
      /\ \A a, b \in 1..Cardinality(Blocks \ live) : f[a] = f[b] => a = b
  BY <1>3 DEF Bijection, Injection, IsInjective
<1> DEFINE g == [i \in 1..n |-> f[i]]
<1>6. g \in [1..n -> Blocks \ live] /\ IsInjective(g)
  BY <1>4, <1>5 DEF IsInjective
<1> QED
  BY <1>6 DEF Fresh

(* The first of them, and the others. *)
LEMMA FreshParts ==
    ASSUME NEW n \in Nat, Room(1 + n)
    PROVE  LET bs == Fresh(1 + n)
           IN  /\ Range(bs) \subseteq Blocks \ live
               /\ Range(bs) = {bs[1]} \cup Range(Tail(bs))
               /\ bs[1] \notin Range(Tail(bs))
               /\ n = 0 => Range(Tail(bs)) = {}
<1> DEFINE bs == Fresh(1 + n)
<1>1. bs \in [1..1 + n -> Blocks \ live] /\ IsInjective(bs)
  BY FreshIs
<1> HIDE DEF bs
<1>2. bs \in Seq(Blocks \ live) /\ Len(bs) = 1 + n /\ bs # <<>>
  BY <1>1
<1>3. Tail(bs) \in Seq(Blocks \ live) /\ Len(Tail(bs)) = n /\ \A i \in 1..n : Tail(bs)[i] = bs[i + 1]
  BY <1>2
<1>4. Range(Tail(bs)) = {bs[i + 1] : i \in 1..n}
  <2>1. DOMAIN Tail(bs) = 1..n
    BY <1>3
  <2>2. {Tail(bs)[i] : i \in 1..n} = {bs[i + 1] : i \in 1..n}
    BY <1>3
  <2> QED
    BY <2>1, <2>2, Zenon DEF Range
<1>5. 1 \in 1..1 + n /\ \A i \in 1..1 + n : i = 1 \/ (i - 1 \in 1..n /\ i = (i - 1) + 1)
  OBVIOUS
<1>6. Range(bs) = {bs[1]} \cup {bs[i + 1] : i \in 1..n}
  BY <1>1, <1>5 DEF Range
<1>7. bs[1] \notin {bs[i + 1] : i \in 1..n}
  BY <1>1 DEF IsInjective
<1>8. Range(bs) \subseteq Blocks \ live
  BY <1>1 DEF Range
<1>9. n = 0 => Range(Tail(bs)) = {}
  BY <1>4
<1> QED
  BY <1>4, <1>6, <1>7, <1>8, <1>9 DEF bs

-----------------------------------------------------------------------------
(* What the steps do to the memory. *)

LEMMA Appended ==
    ASSUME NEW S, NEW s \in Seq(S), NEW b \in S
    PROVE  /\ Range(Append(s, b)) = Range(s) \cup {b}
           /\ IsInjective(s) /\ b \notin Range(s) => IsInjective(Append(s, b))
<1> DEFINE t == Append(s, b)
<1>1. Len(s) \in Nat /\ DOMAIN s = 1..Len(s)
  OBVIOUS
<1>2. DOMAIN t = 1..Len(s) + 1 /\ t[Len(s) + 1] = b /\ \A i \in 1..Len(s) : t[i] = s[i]
  BY <1>1
<1> HIDE DEF t
<1>3. 1..Len(s) + 1 = 1..Len(s) \cup {Len(s) + 1}
  BY <1>1
<1>4. Range(t) = Range(s) \cup {b}
  BY <1>1, <1>2, <1>3 DEF Range
<1>5. ASSUME IsInjective(s), b \notin Range(s) PROVE IsInjective(t)
  BY <1>1, <1>2, <1>3, <1>5 DEF Range, IsInjective
<1> QED
  BY <1>4, <1>5 DEF t

(* Whatever does not touch what is inside an item leaves it as it is. *)
LEMMA WithinStays ==
    ASSUME NEW b \in Blocks, inner \in [Blocks -> SUBSET Blocks],
           \A c \in Within(b) : inner'[c] = inner[c]
    PROVE  Within(b)' = Within(b)
  BY DEF Within

LEMMA WithinIsBlocks ==
    ASSUME NEW b \in Blocks, inner \in [Blocks -> SUBSET Blocks]
    PROVE  Within(b) \subseteq Blocks /\ b \in Within(b)
  BY DEF Within

LEMMA ItemsAreBlocks ==
    ASSUME array \in [Lists -> Seq(Blocks)]
    PROVE  /\ \A l \in Lists : ItemsOf(l) \subseteq Structures /\ ItemsOf(l) \subseteq Blocks
           /\ Structures \subseteq Blocks /\ Channels \subseteq Structures
<1>1. \A l \in Lists : ItemsOf(l) \subseteq Structures
  BY DEF Structures
<1>2. \A l \in Lists : ItemsOf(l) \subseteq Blocks
  <2> SUFFICES ASSUME NEW l \in Lists PROVE Range(array[l]) \subseteq Blocks
    BY DEF ItemsOf
  <2>1. array[l] \in Seq(Blocks)
    OBVIOUS
  <2>2. DOMAIN array[l] = 1..Len(array[l]) /\ array[l] \in [1..Len(array[l]) -> Blocks]
    BY <2>1, LenProperties
  <2> QED
    BY <2>2 DEF Range
<1>3. Channels \subseteq Structures
  BY OrderIs DEF Channels, Structures
<1> QED
  BY <1>1, <1>2, <1>3 DEF Structures

(* An item is added to a list, with blocks that were free: I are not within *)
(* it, the others are.                                                      *)
LEMMA Additions ==
    ASSUME CfgType, HeapInv,
           NEW list \in Lists, NEW S \in SUBSET (Blocks \ live), NEW I \in SUBSET S, NEW b \in S,
           array' = [array EXCEPT ![list] = Append(@, b)],
           inner' \in [Blocks -> SUBSET Blocks], \A c \in Blocks \ S : inner'[c] = inner[c],
           Within(b)' = S \ I, list = "PPPs" => inner'[b] = {},
           live' = live \cup S, definitions' = definitions \cup I,
           overwritten' = overwritten \cup ({local["patterns"]} \ {NoBlock}),
           local' = [l \in Lists |-> NoBlock],
           \A d \in Blocks : pointsTo'[d] \in {pointsTo[d], NoBlock} \cup Channels,
           whole' = whole
    PROVE  array' \in [Lists -> Seq(Blocks)] /\ HeapInv'
<1>1. /\ array \in [Lists -> Seq(Blocks)] /\ inner \in [Blocks -> SUBSET Blocks] /\ live \subseteq Blocks
      /\ b \in Blocks /\ b \notin live /\ S \subseteq Blocks
  BY DEF CfgType
<1>2. /\ array' \in [Lists -> Seq(Blocks)]
      /\ \A l \in Lists : array'[l] = IF l = list THEN Append(array[l], b) ELSE array[l]
  BY <1>1
<1>3. \A l \in Lists : ItemsOf(l)' = IF l = list THEN ItemsOf(l) \cup {b} ELSE ItemsOf(l)
  <2> SUFFICES ASSUME NEW l \in Lists
               PROVE  Range(array'[l]) = IF l = list THEN Range(array[l]) \cup {b} ELSE Range(array[l])
    BY DEF ItemsOf
  <2>1. Range(Append(array[l], b)) = Range(array[l]) \cup {b}
    BY <1>1, Appended
  <2> QED
    BY <1>2, <2>1
<1>4. Structures' = Structures \cup {b}
  BY <1>3 DEF Structures
<1>5. /\ Structures \subseteq live /\ b \notin Structures
      /\ \A l \in Lists : ItemsOf(l) \subseteq Structures
      /\ \A c \in Structures : c \in Blocks /\ Within(c) \subseteq live
  BY <1>1, ItemsAreBlocks, WithinIsBlocks DEF HeapInv, ItemsHold
<1>6. \A c \in Structures : Within(c)' = Within(c)
  BY <1>1, <1>5, WithinStays
<1>7. Within(b)' \subseteq live' /\ \A c \in Structures : Within(b)' \cap Within(c) = {}
  BY <1>5
<1>8. FreeIsEmpty'
  BY <1>1 DEF HeapInv, FreeIsEmpty, Blocks
<1>9. ItemsHold'
  <2>1. \A c \in Structures' : Within(c)' \subseteq live'
    BY <1>4, <1>5, <1>6, <1>7
  <2>2. \A c, d \in Structures : c # d => Within(c)' \cap Within(d)' = {}
    BY <1>6 DEF HeapInv, ItemsHold
  <2>3. \A c \in Structures : Within(b)' \cap Within(c)' = {}
    BY <1>6, <1>7
  <2> QED
    BY <2>1, <2>2, <2>3, <1>4 DEF ItemsHold
<1>10. ArraysApart'
  <2>1. \A l \in Lists : IsInjective(array'[l])
    <3> SUFFICES ASSUME NEW l \in Lists PROVE IsInjective(array'[l])
      OBVIOUS
    <3>1. array[l] \in Seq(Blocks) /\ IsInjective(array[l]) /\ b \notin Range(array[l])
      BY <1>1, <1>5 DEF HeapInv, ArraysApart, ItemsOf
    <3>2. IsInjective(Append(array[l], b))
      BY <3>1, <1>1, Appended
    <3> QED
      BY <3>1, <3>2, <1>2
  <2>2. \A k, l \in Lists : k # l => ItemsOf(k)' \cap ItemsOf(l)' = {}
    BY <1>3, <1>5 DEF HeapInv, ArraysApart
  <2> QED
    BY <2>1, <2>2 DEF ArraysApart
<1>11. "patterns" \in Lists /\ local'["patterns"] = NoBlock
  BY OrderIs
<1>12. Astray' = Astray \cup I
  BY <1>11 DEF Astray
<1>13. AstrayApart'
  <2>1. Astray \subseteq live /\ \A c \in Structures : Within(c) \cap Astray = {}
    BY DEF HeapInv, AstrayApart
  <2>2. Astray' \subseteq live' /\ Within(b)' \cap Astray' = {}
    BY <1>12, <2>1
  <2>3. \A c \in Structures : Within(c)' \cap Astray' = {}
    BY <1>12, <2>1, <1>5, <1>6
  <2> QED
    BY <2>2, <2>3, <1>4 DEF AstrayApart
<1>14. LocalsClear'
  <2>1. NoBlock \notin definitions' /\ NoBlock \notin overwritten'
    BY <1>1 DEF CfgType, NoBlock, Blocks
  <2> QED
    BY <1>11, <2>1 DEF LocalsClear
<1>15. RoutesPoint'
  <2>1. Channels \subseteq Channels'
    BY <1>3, OrderIs DEF Channels
  <2> QED
    BY <2>1 DEF HeapInv, RoutesPoint, Blocks, NoBlock
<1>16. PPPsHoldNothing'
  <2>1. \A c \in ItemsOf("PPPs") : c \in Blocks \ S /\ inner[c] = {}
    BY <1>5, OrderIs DEF HeapInv, PPPsHoldNothing
  <2> QED
    BY <2>1, <1>3, OrderIs DEF PPPsHoldNothing
<1>17. AllAccounted'
  <2>1. \A x : x \in Held' <=> \E c \in Structures' : x \in Within(c)'
    BY DEF Held
  <2>2. \A x : x \in Held <=> \E c \in Structures : x \in Within(c)
    BY DEF Held
  <2>3. \A x : x \in Held' <=> x \in Held \/ x \in S \ I
    BY <2>1, <2>2, <1>4, <1>6
  <2>4. whole => live = Held \cup Astray
    BY DEF HeapInv, AllAccounted
  <2>5. whole => live' = Held' \cup Astray'
    BY <2>3, <2>4, <1>12
  <2> QED
    BY <2>5 DEF AllAccounted
<1> QED
  BY <1>2, <1>8, <1>9, <1>10, <1>13, <1>14, <1>15, <1>16, <1>17 DEF HeapInv

(* The items stay what they are. *)
LEMMA ItemsStay ==
    ASSUME UNCHANGED <<array, inner>>
    PROVE  /\ \A l \in Lists : ItemsOf(l)' = ItemsOf(l)
           /\ Structures' = Structures /\ Channels' = Channels /\ Held' = Held
           /\ \A b \in Blocks : Within(b)' = Within(b)
<1>1. \A l \in Lists : ItemsOf(l)' = ItemsOf(l)
  BY DEF ItemsOf
<1>2. Structures' = Structures
  BY <1>1 DEF Structures
<1>3. Channels' = Channels
  BY <1>1, OrderIs DEF Channels
<1>4. \A b : Within(b)' = Within(b)
  BY DEF Within
<1>5. Held' = Held
  BY <1>2, <1>4 DEF Held
<1> QED
  BY <1>1, <1>2, <1>3, <1>4, <1>5

(* Blocks S that were free are allocated, I of them for a definition, and F *)
(* of them and of what the local pointer has are freed, by a function that  *)
(* leaves off, or at its end.                                               *)
LEMMA Frees ==
    ASSUME CfgType, HeapInv,
           NEW S \in SUBSET (Blocks \ live), NEW I \in SUBSET S, NEW F,
           F \subseteq S \cup {local["patterns"]}, F \cap I = {},
           UNCHANGED <<array, inner, pointsTo, overwritten>>, definitions' = definitions \cup I,
           live' = (live \cup S) \ F, local' = [l \in Lists |-> NoBlock],
           \/ whole' = FALSE
           \/ whole' = whole /\ S = {} /\ F = {local["patterns"]} \ {NoBlock}
    PROVE  HeapInv'
<1>1. /\ array \in [Lists -> Seq(Blocks)] /\ inner \in [Blocks -> SUBSET Blocks] /\ live \subseteq Blocks
      /\ S \subseteq Blocks /\ \A b \in Structures : b \in Blocks
  BY ItemsAreBlocks DEF CfgType
<1>2. /\ \A l \in Lists : ItemsOf(l)' = ItemsOf(l)
      /\ Structures' = Structures /\ Channels' = Channels /\ Held' = Held
      /\ \A b \in Structures : Within(b)' = Within(b)
  BY ItemsStay, <1>1
<1>3. "patterns" \in Lists /\ local'["patterns"] = NoBlock
  BY OrderIs
<1>4. Astray = definitions \cup overwritten \cup ({local["patterns"]} \ {NoBlock})
  BY DEF Astray
<1>5. Astray' = definitions \cup I \cup overwritten
  BY <1>3 DEF Astray
<1>6. Astray \subseteq live /\ \A b \in Structures : Within(b) \subseteq live /\ Within(b) \cap Astray = {}
  BY DEF HeapInv, ItemsHold, AstrayApart
<1>7. NoBlock \notin Blocks
  BY DEF Blocks, NoBlock
<1>8. F \cap (definitions \cup overwritten) = {} /\ \A b \in Structures : F \cap Within(b) = {}
  <2>1. local["patterns"] \notin definitions \cup overwritten
    BY DEF HeapInv, LocalsClear
  <2>2. \A b \in Structures : local["patterns"] \notin Within(b)
    BY <1>1, <1>4, <1>6, <1>7
  <2> QED
    BY <2>1, <2>2, <1>4, <1>6
<1>9. FreeIsEmpty'
  <2>1. \A b \in Blocks \ live : inner[b] = {}
    BY DEF HeapInv, FreeIsEmpty
  <2>2. local["patterns"] = NoBlock \/ inner[local["patterns"]] = {}
    BY DEF HeapInv, LocalsClear
  <2>3. \A b \in Blocks : b \notin live' => inner[b] = {}
    BY <2>1, <2>2, <1>1, <1>7
  <2> QED
    BY <2>3 DEF FreeIsEmpty, Blocks
<1>10. ItemsHold'
  BY <1>2, <1>6, <1>8 DEF HeapInv, ItemsHold
<1>11. ArraysApart'
  BY <1>2 DEF HeapInv, ArraysApart
<1>12. AstrayApart'
  <2>1. Astray' \subseteq live'
    BY <1>4, <1>5, <1>6, <1>8
  <2>2. \A b \in Structures : Within(b) \cap Astray' = {}
    BY <1>4, <1>5, <1>6
  <2> QED
    BY <2>1, <2>2, <1>2 DEF AstrayApart
<1>13. LocalsClear'
  <2>1. NoBlock \notin definitions' /\ NoBlock \notin overwritten'
    BY <1>1, <1>7 DEF CfgType
  <2> QED
    BY <1>3, <2>1 DEF LocalsClear
<1>14. RoutesPoint'
  BY <1>2 DEF HeapInv, RoutesPoint, Blocks
<1>15. PPPsHoldNothing'
  BY <1>2, OrderIs DEF HeapInv, PPPsHoldNothing
<1>16. AllAccounted'
  <2>1. ASSUME whole' = whole, S = {}, F = {local["patterns"]} \ {NoBlock}, whole
        PROVE  live' = Held' \cup Astray'
    <3>1. live = Held \cup Astray
      BY <2>1 DEF HeapInv, AllAccounted
    <3>2. Held \cap F = {}
      BY <1>8 DEF Held
    <3> QED
      BY <2>1, <3>1, <3>2, <1>2, <1>4, <1>5, <1>8
  <2> QED
    BY <2>1 DEF AllAccounted
<1> QED
  BY <1>9, <1>10, <1>11, <1>12, <1>13, <1>14, <1>15, <1>16 DEF HeapInv

(* A pattern without a route is in no array: the local pointer has it. *)
LEMMA Detached ==
    ASSUME CfgType, HeapInv,
           NEW S \in SUBSET (Blocks \ live), NEW I \in SUBSET S, NEW b \in S,
           S = {b} \cup I, b \notin I, step = "patterns", step' = step,
           UNCHANGED <<array, inner, pointsTo, whole>>,
           definitions' = definitions \cup I, live' = live \cup S,
           overwritten' = overwritten \cup ({local["patterns"]} \ {NoBlock}),
           local' = [local EXCEPT !["patterns"] = b]
    PROVE  HeapInv'
<1>1. /\ array \in [Lists -> Seq(Blocks)] /\ inner \in [Blocks -> SUBSET Blocks] /\ live \subseteq Blocks
      /\ S \subseteq Blocks /\ \A c \in Structures : c \in Blocks
      /\ local \in [Lists -> Blocks \cup {NoBlock}]
  BY ItemsAreBlocks DEF CfgType
<1>2. /\ \A l \in Lists : ItemsOf(l)' = ItemsOf(l)
      /\ Structures' = Structures /\ Channels' = Channels /\ Held' = Held
      /\ \A c \in Structures : Within(c)' = Within(c)
  BY ItemsStay, <1>1
<1>3. NoBlock \notin Blocks
  BY DEF Blocks, NoBlock
<1>4. /\ "patterns" \in Lists /\ local'["patterns"] = b /\ b # NoBlock
      /\ \A l \in Lists : local'[l] = IF l = "patterns" THEN b ELSE local[l]
  BY <1>1, <1>3, OrderIs
<1>5. Astray = definitions \cup overwritten \cup ({local["patterns"]} \ {NoBlock})
  BY DEF Astray
<1>6. Astray' = Astray \cup S
  BY <1>4, <1>5 DEF Astray
<1>7. Astray \subseteq live /\ \A c \in Structures : Within(c) \subseteq live /\ Within(c) \cap Astray = {}
  BY DEF HeapInv, ItemsHold, AstrayApart
<1>8. FreeIsEmpty'
  BY DEF HeapInv, FreeIsEmpty, Blocks
<1>9. ItemsHold'
  BY <1>2 DEF HeapInv, ItemsHold
<1>10. ArraysApart'
  BY <1>2 DEF HeapInv, ArraysApart
<1>11. AstrayApart'
  <2>1. Astray' \subseteq live'
    BY <1>6, <1>7
  <2>2. \A c \in Structures : Within(c) \cap Astray' = {}
    BY <1>6, <1>7
  <2> QED
    BY <2>1, <2>2, <1>2 DEF AstrayApart
<1>12. LocalsClear'
  <2>1. \A l \in Lists : local'[l] # NoBlock => l = "patterns" /\ step' = "patterns"
    BY <1>4 DEF HeapInv, LocalsClear
  <2>2. b \notin definitions' \cup overwritten'
    BY <1>5, <1>7
  <2>3. inner[b] = {}
    BY <1>1 DEF HeapInv, FreeIsEmpty
  <2> QED
    BY <2>1, <2>2, <2>3, <1>4 DEF LocalsClear
<1>13. RoutesPoint'
  BY <1>2 DEF HeapInv, RoutesPoint, Blocks
<1>14. PPPsHoldNothing'
  BY <1>2, OrderIs DEF HeapInv, PPPsHoldNothing
<1>15. AllAccounted'
  BY <1>2, <1>6 DEF HeapInv, AllAccounted
<1> QED
  BY <1>8, <1>9, <1>10, <1>11, <1>12, <1>13, <1>14, <1>15 DEF HeapInv

-----------------------------------------------------------------------------
(* The steps. *)

Kept == CfgType /\ HeapInv /\ step # "gone"

LEMMA Locals ==
    ASSUME CfgType, HeapInv, step # "patterns"
    PROVE  local = [l \in Lists |-> NoBlock] /\ local["patterns"] = NoBlock
<1>1. \A l \in Lists : local[l] = NoBlock
  BY DEF HeapInv, LocalsClear
<1>2. local \in [Lists -> Blocks \cup {NoBlock}] /\ "patterns" \in Lists
  BY OrderIs DEF CfgType
<1> QED
  BY <1>1, <1>2

(* What a function frees is the structure at hand. *)
LEMMA CleanUpIs ==
    ASSUME CfgType, HeapInv, NEW list \in Lists, step # "patterns" \/ list = "patterns", NEW b
    PROVE  /\ CleanUp(list, [local EXCEPT ![list] = b]) \subseteq {b} \ {NoBlock}
           /\ CleanUp(list, local) = {local["patterns"]} \ {NoBlock}
<1>1. SameFunction(list) \subseteq Lists /\ list \in SameFunction(list)
  BY OrderIs DEF SameFunction
<1>2. SameFunction("patterns") = {"patterns"}
  BY OrderIs DEF SameFunction
<1>3. local \in [Lists -> Blocks \cup {NoBlock}] /\ "patterns" \in Lists
  BY OrderIs DEF CfgType
<1>4. CASE list = "patterns"
  BY <1>2, <1>3, <1>4 DEF CleanUp
<1>5. CASE step # "patterns"
  <2>1. \A l \in Lists : local[l] = NoBlock
    BY <1>5, Locals
  <2> QED
    BY <1>1, <1>3, <2>1 DEF CleanUp
<1> QED
  BY <1>4, <1>5

LEMMA WellKeeps ==
    ASSUME Kept, NEW list \in Lists \ {"patterns"}, NEW items \in Nat, list = "PPPs" => items = 0,
           step = list, ReadsWell(list, items), UNCHANGED <<pointsTo, definitions, overwritten>>
    PROVE  Kept'
<1>1. PICK b, T :
          /\ {b} \cup T \subseteq Blocks \ live /\ b \notin T /\ (items = 0 => T = {})
          /\ array' = [array EXCEPT ![list] = Append(@, b)]
          /\ inner' = [inner EXCEPT ![b] = T]
          /\ live' = live \cup {b} \cup T /\ local' = [local EXCEPT ![list] = NoBlock]
          /\ step' = step /\ whole' = whole
  <2> DEFINE bs == Fresh(1 + items)
  <2>1. /\ Range(bs) \subseteq Blocks \ live
        /\ Range(bs) = {bs[1]} \cup Range(Tail(bs)) /\ bs[1] \notin Range(Tail(bs))
        /\ items = 0 => Range(Tail(bs)) = {}
    BY FreshParts DEF ReadsWell
  <2>2. /\ array' = [array EXCEPT ![list] = Append(@, bs[1])]
        /\ inner' = [inner EXCEPT ![bs[1]] = Range(Tail(bs))]
        /\ live' = live \cup Range(bs) /\ local' = [local EXCEPT ![list] = NoBlock]
        /\ step' = step /\ whole' = whole
    BY DEF ReadsWell, Added
  <2> HIDE DEF bs
  <2> QED
    BY <2>1, <2>2
<1>2. PICK S : S = {b} \cup T
  OBVIOUS
<1>3. /\ inner \in [Blocks -> SUBSET Blocks] /\ live \subseteq Blocks /\ step # "gone"
      /\ pointsTo \in [Blocks -> Blocks \cup {NoBlock}]
      /\ definitions \subseteq Blocks /\ overwritten \subseteq Blocks
      /\ CfgType /\ HeapInv
  BY DEF Kept, CfgType
<1>4. local = [l \in Lists |-> NoBlock] /\ local["patterns"] = NoBlock
  BY <1>3, Locals
<1>5. local' = [l \in Lists |-> NoBlock]
  BY <1>1, <1>4
<1>6. /\ inner' \in [Blocks -> SUBSET Blocks] /\ \A c \in Blocks \ S : inner'[c] = inner[c]
      /\ inner'[b] = T /\ \A c \in T : inner'[c] = {}
  <2>1. \A c \in T : inner[c] = {}
    BY <1>1, <1>3 DEF HeapInv, FreeIsEmpty
  <2> QED
    BY <1>1, <1>2, <1>3, <2>1
<1>7. Within(b)' = S
  <2>1. Within(b)' = {b} \cup inner'[b] \cup UNION {inner'[c] : c \in inner'[b]}
    BY DEF Within
  <2> QED
    BY <2>1, <1>2, <1>6
<1>8. overwritten' = overwritten \cup ({local["patterns"]} \ {NoBlock}) /\ definitions' = definitions \cup {}
  BY <1>4
<1>9. \A d \in Blocks : pointsTo'[d] \in {pointsTo[d], NoBlock} \cup Channels
  OBVIOUS
<1>10. array' \in [Lists -> Seq(Blocks)] /\ HeapInv'
  <2>1. PICK I : I = {}
    OBVIOUS
  <2>2. /\ S \in SUBSET (Blocks \ live) /\ I \in SUBSET S /\ b \in S /\ list \in Lists
        /\ Within(b)' = S \ I /\ (list = "PPPs" => inner'[b] = {})
        /\ definitions' = definitions \cup I /\ live' = live \cup S
    BY <1>1, <1>2, <1>6, <1>7, <1>8, <2>1
  <2> QED
    BY <1>1, <1>3, <1>5, <1>6, <1>8, <1>9, <2>2, Additions
<1>11. CfgType'
  <2>1. step' \in Steps /\ live' \subseteq Blocks
    BY <1>1, <1>3 DEF Steps
  <2>2. local' \in [Lists -> Blocks \cup {NoBlock}]
    BY <1>5
  <2> QED
    BY <1>3, <1>6, <1>10, <2>1, <2>2 DEF CfgType, Blocks
<1> QED
  BY <1>1, <1>3, <1>10, <1>11 DEF Kept

LEMMA FreesKeep ==
    ASSUME Kept, step' \in Steps \ {"gone"},
           NEW S \in SUBSET (Blocks \ live), NEW I \in SUBSET S, NEW F,
           F \subseteq S \cup {local["patterns"]}, F \cap I = {},
           UNCHANGED <<array, inner, pointsTo, overwritten>>, definitions' = definitions \cup I,
           live' = (live \cup S) \ F, local' = [l \in Lists |-> NoBlock],
           \/ whole' = FALSE
           \/ whole' = whole /\ S = {} /\ F = {local["patterns"]} \ {NoBlock}
    PROVE  Kept'
<1>1. CfgType /\ HeapInv
  BY DEF Kept
<1>2. HeapInv'
  BY <1>1, Frees
<1>3. CfgType'
  <2>1. live' \subseteq Blocks /\ definitions' \subseteq Blocks
    BY <1>1 DEF CfgType
  <2>2. local' \in [Lists -> Blocks \cup {NoBlock}]
    OBVIOUS
  <2> QED
    BY <1>1, <2>1, <2>2 DEF CfgType, Blocks
<1> QED
  BY <1>2, <1>3 DEF Kept

LEMMA BadlyKeeps ==
    ASSUME Kept, NEW list \in Lists \ {"patterns"}, NEW items \in Nat, NEW quiet,
           step = list, ReadsBadly(list, items, quiet), UNCHANGED <<pointsTo, definitions, overwritten>>
    PROVE  Kept'
<1>1. PICK b, S, F :
          /\ S \subseteq Blocks \ live /\ b \in S
          /\ F = CleanUp(list, [local EXCEPT ![list] = b])
          /\ live' = (live \cup S) \ F
  <2> DEFINE bs == Fresh(1 + items)
  <2>1. Range(bs) \subseteq Blocks \ live /\ bs[1] \in Range(bs)
    BY FreshParts DEF ReadsBadly
  <2>2. live' = (live \cup Range(bs)) \ CleanUp(list, [local EXCEPT ![list] = bs[1]])
    BY DEF ReadsBadly
  <2> HIDE DEF bs
  <2> QED
    BY <2>1, <2>2
<1>2. F \subseteq {b}
  BY <1>1, CleanUpIs DEF Kept
<1>3. /\ UNCHANGED <<array, inner>> /\ local' = [l \in Lists |-> NoBlock] /\ whole' = FALSE
      /\ step' \in {"patterns", "failed"}
  BY DEF ReadsBadly, LeavesOff, GoesTo
<1>4. step' \in Steps \ {"gone"}
  BY <1>3, OrderIs DEF Steps
<1>5. PICK I : I = {}
  OBVIOUS
<1>6. /\ S \in SUBSET (Blocks \ live) /\ I \in SUBSET S /\ F \cap I = {}
      /\ F \subseteq S \cup {local["patterns"]} /\ definitions' = definitions \cup I
  BY <1>1, <1>2, <1>5
<1> QED
  BY <1>1, <1>3, <1>4, <1>6, FreesKeep

(* A step that touches no memory. *)
LEMMA MovesKeep ==
    ASSUME Kept, step # "patterns", step' \in Steps \ {"gone"},
           UNCHANGED <<array, inner, live, pointsTo, definitions, overwritten>>,
           local' = local \/ local' = [l \in Lists |-> NoBlock],
           whole' = whole \/ whole' = FALSE
    PROVE  Kept'
<1>1. local = [l \in Lists |-> NoBlock] /\ local["patterns"] = NoBlock
  BY Locals DEF Kept
<1>2. PICK S : S = {}
  OBVIOUS
<1>3. /\ S \in SUBSET (Blocks \ live) /\ S \in SUBSET S /\ S \subseteq S \cup {local["patterns"]}
      /\ S \cap S = {} /\ definitions' = definitions \cup S /\ live' = (live \cup S) \ S
      /\ S = {local["patterns"]} \ {NoBlock} /\ local' = [l \in Lists |-> NoBlock]
  BY <1>1, <1>2
<1> QED
  BY <1>2, <1>3, FreesKeep

-----------------------------------------------------------------------------
(* The patterns. *)

LEMMA PatternParts ==
    ASSUME NEW iso \in 0..1, NEW route \in 0..1, NEW dest \in 0..1, dest <= route,
           Room(1 + iso + route + dest)
    PROVE  LET p == PatternBlocks(iso, route, dest)
           IN  /\ p.all \subseteq Blocks \ live
               /\ p.all = {p.pattern} \cup p.iso \cup p.route \cup p.dest
               /\ p.pattern \notin p.iso \cup p.route \cup p.dest
               /\ p.iso \cap (p.route \cup p.dest) = {} /\ p.route \cap p.dest = {}
               /\ route = 0 <=> p.route = {}
               /\ p.route = {} => p.dest = {}
<1> DEFINE n == 1 + iso + route + dest
           bs == Fresh(n)
           ofIso == {2} \cap (1..1 + iso)
           ofRoute == {2 + iso} \cap (1..1 + iso + route)
           ofDest == {3 + iso} \cap (1..1 + iso + route + dest)
<1>1. bs \in [1..n -> Blocks \ live] /\ \A i, j \in 1..n : bs[i] = bs[j] => i = j
  <2>1. n \in Nat \ {0} /\ Room(n)
    OBVIOUS
  <2>2. bs \in [1..n -> Blocks \ live] /\ IsInjective(bs)
    <3> HIDE DEF n
    <3> QED
      BY <2>1, FreshIs
  <2> QED
    BY <2>2 DEF IsInjective
<1>2. PatternBlocks(iso, route, dest) =
          [all |-> Range(bs), pattern |-> bs[1], iso |-> {bs[i] : i \in ofIso},
           route |-> {bs[i] : i \in ofRoute}, dest |-> {bs[i] : i \in ofDest}]
  BY DEF PatternBlocks
<1>3. /\ 1..n = {1} \cup ofIso \cup ofRoute \cup ofDest /\ 1 \in 1..n
      /\ 1 \notin ofIso \cup ofRoute \cup ofDest
      /\ ofIso \cap (ofRoute \cup ofDest) = {} /\ ofRoute \cap ofDest = {}
      /\ route = 0 <=> ofRoute = {}
      /\ ofRoute = {} => ofDest = {}
  <2>1. CASE iso = 0
    BY <2>1
  <2>2. CASE iso = 1
    BY <2>2
  <2> QED
    BY <2>1, <2>2
<1> HIDE DEF bs, n, ofIso, ofRoute, ofDest
<1>4. Range(bs) = {bs[i] : i \in 1..n}
  BY <1>1 DEF Range
<1>5. ofIso \subseteq 1..n /\ ofRoute \subseteq 1..n /\ ofDest \subseteq 1..n
  BY <1>3
<1>6. /\ Range(bs) \subseteq Blocks \ live
      /\ Range(bs) = {bs[1]} \cup {bs[i] : i \in ofIso} \cup {bs[i] : i \in ofRoute} \cup {bs[i] : i \in ofDest}
  BY <1>1, <1>3, <1>4
<1>7. /\ bs[1] \notin {bs[i] : i \in ofIso} \cup {bs[i] : i \in ofRoute} \cup {bs[i] : i \in ofDest}
      /\ {bs[i] : i \in ofIso} \cap ({bs[i] : i \in ofRoute} \cup {bs[i] : i \in ofDest}) = {}
      /\ {bs[i] : i \in ofRoute} \cap {bs[i] : i \in ofDest} = {}
  BY <1>1, <1>3, <1>5
<1>8. \A ofAny : {bs[i] : i \in ofAny} = {} <=> ofAny = {}
  OBVIOUS
<1> DEFINE p == PatternBlocks(iso, route, dest)
<1>9. /\ p.all = Range(bs) /\ p.pattern = bs[1] /\ p.iso = {bs[i] : i \in ofIso}
      /\ p.route = {bs[i] : i \in ofRoute} /\ p.dest = {bs[i] : i \in ofDest}
  BY <1>2
<1>10. (route = 0 <=> p.route = {}) /\ (p.route = {} => p.dest = {})
  BY <1>3, <1>8, <1>9, Zenon
<1>11. /\ p.all \subseteq Blocks \ live
       /\ p.all = {p.pattern} \cup p.iso \cup p.route \cup p.dest
       /\ p.pattern \notin p.iso \cup p.route \cup p.dest
       /\ p.iso \cap (p.route \cup p.dest) = {} /\ p.route \cap p.dest = {}
  BY <1>6, <1>7, <1>9, Zenon
<1> QED
  BY <1>10, <1>11

LEMMA PatternFailsKeep ==
    ASSUME Kept, NEW iso \in 0..1, NEW route \in 0..1, NEW dest \in 0..1, NEW atHand,
           PatternFails(iso, route, dest, atHand)
    PROVE  Kept'
<1>1. PICK b, all, I, R, D :
          /\ all \subseteq Blocks \ live /\ all = {b} \cup I \cup R \cup D
          /\ b \notin I /\ I \cap (R \cup D) = {}
          /\ live' = (live \cup all) \ ((IF atHand = "dest" THEN D ELSE {})
                                            \cup (IF atHand \in {"route", "dest"} THEN R ELSE {})
                                            \cup CleanUp("patterns", [local EXCEPT !["patterns"] = b]))
          /\ definitions' = definitions \cup I
  <2> DEFINE p == PatternBlocks(iso, route, dest)
  <2>1. /\ p.all \subseteq Blocks \ live /\ p.all = {p.pattern} \cup p.iso \cup p.route \cup p.dest
        /\ p.pattern \notin p.iso /\ p.iso \cap (p.route \cup p.dest) = {}
    BY PatternParts DEF PatternFails
  <2>2. /\ live' = (live \cup p.all) \ ((IF atHand = "dest" THEN p.dest ELSE {})
                       \cup (IF atHand \in {"route", "dest"} THEN p.route ELSE {})
                       \cup CleanUp("patterns", [local EXCEPT !["patterns"] = p.pattern]))
        /\ definitions' = definitions \cup p.iso
    BY DEF PatternFails
  <2> HIDE DEF p
  <2> QED
    BY <2>1, <2>2
<1>2. /\ UNCHANGED <<array, inner, pointsTo, overwritten>>
      /\ local' = [l \in Lists |-> NoBlock] /\ whole' = FALSE /\ step' = "failed"
  BY OrderIs DEF PatternFails, LeavesOff, GoesTo
<1>3. CleanUp("patterns", [local EXCEPT !["patterns"] = b]) \subseteq {b}
  BY CleanUpIs, OrderIs DEF Kept
<1>4. PICK F : F = (IF atHand = "dest" THEN D ELSE {}) \cup (IF atHand \in {"route", "dest"} THEN R ELSE {})
                       \cup CleanUp("patterns", [local EXCEPT !["patterns"] = b])
  OBVIOUS
<1>5. /\ F \subseteq all \cup {local["patterns"]} /\ F \cap I = {}
      /\ all \in SUBSET (Blocks \ live) /\ I \in SUBSET all
  BY <1>1, <1>3, <1>4
<1>6. step' \in Steps \ {"gone"}
  BY <1>2 DEF Steps
<1> QED
  BY <1>1, <1>2, <1>4, <1>5, <1>6, FreesKeep

LEMMA ReadPatternKeeps ==
    ASSUME Kept, NEW iso \in 0..1, NEW route \in 0..1, NEW dest \in 0..1,
           ReadPattern(iso, route, dest)
    PROVE  Kept'
<1> DEFINE p == PatternBlocks(iso, route, dest)
<1>a. /\ p.all \subseteq Blocks \ live /\ p.all = {p.pattern} \cup p.iso \cup p.route \cup p.dest
      /\ p.pattern \notin p.iso \cup p.route \cup p.dest
      /\ p.iso \cap (p.route \cup p.dest) = {} /\ p.route \cap p.dest = {}
      /\ (route = 0 <=> p.route = {}) /\ (p.route = {} => p.dest = {})
  BY PatternParts DEF ReadPattern
<1>b. /\ IF route > 0
         THEN /\ array' = [array EXCEPT !["patterns"] = Append(@, p.pattern)]
              /\ local' = [local EXCEPT !["patterns"] = NoBlock]
         ELSE local' = [local EXCEPT !["patterns"] = p.pattern] /\ UNCHANGED array
      /\ inner' = [c \in Blocks |-> IF c = p.pattern THEN p.route ELSE IF c \in p.route THEN p.dest
                                    ELSE IF c \in p.dest THEN {} ELSE inner[c]]
      /\ live' = live \cup p.all /\ definitions' = definitions \cup p.iso
  BY DEF ReadPattern, Added
<1>c. \E channel \in xml_get_channel :
          pointsTo' = [c \in Blocks |-> IF c \in p.dest THEN channel ELSE pointsTo[c]]
  BY DEF ReadPattern
<1> HIDE DEF p
<1>d. PICK channel \in xml_get_channel :
          pointsTo' = [c \in Blocks |-> IF c \in p.dest THEN channel ELSE pointsTo[c]]
  BY <1>c
<1>e. PICK b, all, I, R, D : b = p.pattern /\ all = p.all /\ I = p.iso /\ R = p.route /\ D = p.dest
  OBVIOUS
<1>1. /\ all \subseteq Blocks \ live /\ all = {b} \cup I \cup R \cup D
      /\ b \notin I \cup R \cup D /\ I \cap (R \cup D) = {} /\ R \cap D = {}
      /\ (route = 0 <=> R = {}) /\ (R = {} => D = {})
      /\ IF route > 0
         THEN /\ array' = [array EXCEPT !["patterns"] = Append(@, b)]
              /\ local' = [local EXCEPT !["patterns"] = NoBlock]
         ELSE local' = [local EXCEPT !["patterns"] = b] /\ UNCHANGED array
      /\ inner' = [c \in Blocks |-> IF c = b THEN R ELSE IF c \in R THEN D
                                    ELSE IF c \in D THEN {} ELSE inner[c]]
      /\ live' = live \cup all /\ definitions' = definitions \cup I
      /\ pointsTo' = [c \in Blocks |-> IF c \in D THEN channel ELSE pointsTo[c]]
  <2>1. /\ all \subseteq Blocks \ live /\ all = {b} \cup I \cup R \cup D
        /\ b \notin I \cup R \cup D /\ I \cap (R \cup D) = {} /\ R \cap D = {}
        /\ (route = 0 <=> R = {}) /\ (R = {} => D = {})
    BY <1>a, <1>e, Zenon
  <2>2. /\ IF route > 0
           THEN /\ array' = [array EXCEPT !["patterns"] = Append(@, b)]
                /\ local' = [local EXCEPT !["patterns"] = NoBlock]
           ELSE local' = [local EXCEPT !["patterns"] = b] /\ UNCHANGED array
        /\ live' = live \cup all /\ definitions' = definitions \cup I
    BY <1>b, <1>e, Zenon
  <2>3. /\ inner' = [c \in Blocks |-> IF c = b THEN R ELSE IF c \in R THEN D
                                      ELSE IF c \in D THEN {} ELSE inner[c]]
        /\ pointsTo' = [c \in Blocks |-> IF c \in D THEN channel ELSE pointsTo[c]]
    BY <1>b, <1>d, <1>e, Zenon
  <2> QED
    BY <2>1, <2>2, <2>3
<1>2. /\ overwritten' = overwritten \cup ({local["patterns"]} \ {NoBlock})
      /\ step = "patterns" /\ step' = step /\ whole' = whole
  BY DEF ReadPattern, Reads
<1>3. /\ CfgType /\ HeapInv /\ "patterns" \in Lists /\ step' \in Steps /\ step' # "gone"
      /\ inner \in [Blocks -> SUBSET Blocks] /\ live \subseteq Blocks
      /\ array \in [Lists -> Seq(Blocks)] /\ local \in [Lists -> Blocks \cup {NoBlock}]
      /\ pointsTo \in [Blocks -> Blocks \cup {NoBlock}]
      /\ definitions \subseteq Blocks /\ overwritten \subseteq Blocks
  BY <1>2, OrderIs DEF Kept, CfgType, Steps
<1>4. /\ inner' \in [Blocks -> SUBSET Blocks] /\ \A c \in Blocks \ all : inner'[c] = inner[c]
      /\ inner'[b] = R /\ \A c \in R : inner'[c] = D
  BY <1>1, <1>3
<1>5. Within(b)' = all \ I
  <2>1. Within(b)' = {b} \cup inner'[b] \cup UNION {inner'[c] : c \in inner'[b]}
    BY DEF Within
  <2>2. Within(b)' = {b} \cup R \cup UNION {inner'[c] : c \in R}
    BY <1>4, <2>1
  <2>3. UNION {inner'[c] : c \in R} = D
    BY <1>1, <1>4
  <2> QED
    BY <1>1, <2>2, <2>3
<1>6. /\ pointsTo' \in [Blocks -> Blocks \cup {NoBlock}]
      /\ \A d \in Blocks : pointsTo'[d] \in {pointsTo[d], NoBlock} \cup Channels
  <2>1. Channels \subseteq Blocks
    BY <1>3, ItemsAreBlocks
  <2> QED
    BY <1>1, <1>d, <1>3, <2>1 DEF xml_get_channel
<1>7. live' \subseteq Blocks /\ definitions' \subseteq Blocks /\ overwritten' \subseteq Blocks
  BY <1>1, <1>2, <1>3
<1>8. CASE route > 0
  <2>1. local' = [l \in Lists |-> NoBlock]
    <3>1. \A l \in Lists : l # "patterns" => local[l] = NoBlock
      BY <1>3 DEF HeapInv, LocalsClear
    <3> QED
      BY <1>1, <1>3, <1>8, <3>1
  <2>2. /\ all \in SUBSET (Blocks \ live) /\ I \in SUBSET all /\ b \in all
        /\ array' = [array EXCEPT !["patterns"] = Append(@, b)]
        /\ "patterns" = "PPPs" => inner'[b] = {}
    BY <1>1, <1>8
  <2>3. array' \in [Lists -> Seq(Blocks)] /\ HeapInv'
    <3>1. PICK list \in Lists : list = "patterns"
      BY <1>3
    <3>2. array' = [array EXCEPT ![list] = Append(@, b)] /\ (list = "PPPs" => inner'[b] = {})
      BY <2>2, <3>1
    <3>3. live' = live \cup all /\ definitions' = definitions \cup I
      BY <1>1
    <3> QED
      BY <1>2, <1>3, <1>4, <1>5, <1>6, <2>1, <2>2, <3>2, <3>3, Additions
  <2>4. local' \in [Lists -> Blocks \cup {NoBlock}]
    BY <2>1
  <2> QED
    BY <1>3, <1>4, <1>6, <1>7, <2>3, <2>4 DEF Kept, CfgType, Blocks
<1>9. CASE route = 0
  <2>1. /\ local' = [local EXCEPT !["patterns"] = b] /\ array' = array
        /\ all \in SUBSET (Blocks \ live) /\ I \in SUBSET all /\ b \in all
        /\ all = {b} \cup I /\ b \notin I /\ R = {} /\ D = {}
    BY <1>1, <1>9
  <2>2. inner' = inner
    <3>1. inner[b] = {}
      BY <1>1, <1>3 DEF HeapInv, FreeIsEmpty
    <3> QED
      BY <1>1, <1>3, <2>1, <3>1
  <2>3. pointsTo' = pointsTo
    BY <1>1, <1>3, <2>1
  <2>4. HeapInv'
    BY <1>1, <1>2, <1>3, <2>1, <2>2, <2>3, Detached
  <2>5. local' \in [Lists -> Blocks \cup {NoBlock}]
    BY <1>3, <2>1
  <2> QED
    BY <1>3, <1>7, <2>1, <2>2, <2>3, <2>4, <2>5 DEF Kept, CfgType, Blocks
<1> QED
  BY <1>8, <1>9

-----------------------------------------------------------------------------
(* The functions of init, then term.  When the configuration is gone, there *)
(* is no step any more.                                                     *)

LEMMA InUse ==
    ASSUME CfgInv, step # "gone"
    PROVE  Kept
  BY DEF CfgInv, Kept

LEMMA ListsInUse == "gone" \notin Lists /\ Lists \subseteq Steps /\ NoBlock \notin Blocks
  BY OrderIs DEF Steps, NoBlock, Blocks

LEMMA PPPsKeep ==
    ASSUME CfgInv, NEW sims, NEW lines, NEW fault, ReadPPP(sims, lines) \/ PPPFails(fault)
    PROVE  Kept'
<1>1. step = "PPPs" /\ "PPPs" \in Lists \ {"patterns"} /\ 0 \in Nat /\ step \in Steps
  BY OrderIs, ListsInUse DEF ReadPPP, PPPFails, Reads
<1>2. Kept /\ CfgType /\ HeapInv
  BY <1>1, InUse DEF Kept
<1>3. CASE PPPFails(fault)
  <2>1. ReadsBadly("PPPs", 0, FALSE) /\ UNCHANGED <<pointsTo, definitions, overwritten>>
    BY <1>3 DEF PPPFails, cfgData
  <2> QED
    BY <1>1, <1>2, <2>1, BadlyKeeps
<1>4. CASE ReadPPP(sims, lines)
  <2>1. UNCHANGED <<pointsTo, definitions, overwritten>>
    BY <1>4 DEF ReadPPP
  <2>2. \/ ReadsWell("PPPs", 0)
        \/ /\ local' = [local EXCEPT !["PPPs"] = NoBlock]
           /\ UNCHANGED <<step, array, inner, live, whole>>
    BY <1>4 DEF ReadPPP
  <2>3. CASE ReadsWell("PPPs", 0)
    BY <1>1, <1>2, <2>1, <2>3, WellKeeps
  <2>4. CASE /\ local' = [local EXCEPT !["PPPs"] = NoBlock]
             /\ UNCHANGED <<step, array, inner, live, whole>>
    <3>1. local' = [l \in Lists |-> NoBlock]
      BY <1>1, <1>2, <2>4, Locals
    <3> QED
      BY <1>1, <1>2, <2>1, <2>4, <3>1, MovesKeep
  <2> QED
    BY <2>2, <2>3, <2>4
<1> QED
  BY <1>3, <1>4

LEMMA UpdateIndexKeeps ==
    ASSUME CfgInv, UpdateIndex
    PROVE  Kept'
<1>1. step = "index" /\ Kept /\ CfgType /\ HeapInv
  BY InUse DEF UpdateIndex, Kept
<1>2. CleanUp("PPPs", local) = {}
  BY <1>1, CleanUpIs, Locals, OrderIs
<1>3. /\ UNCHANGED <<array, inner, live, pointsTo, definitions, overwritten>>
      /\ local' = local \/ local' = [l \in Lists |-> NoBlock]
      /\ whole' = whole \/ whole' = FALSE
      /\ step' \in {"failed", "modPSTNs"}
  BY <1>2 DEF UpdateIndex, LeavesOff, GoesTo, cfgData
<1>4. step' \in Steps \ {"gone"}
  BY <1>3, OrderIs DEF Steps
<1> QED
  BY <1>1, <1>3, <1>4, MovesKeep

LEMMA PlacesKeep ==
    ASSUME CfgInv, xml_config_logger \/ Modules \/ GSMAndOPTM \/ xml_config_diagnose
    PROVE  Kept'
<1>1. step \in {"logger", "modules", "GSM", "diagnose"}
  BY DEF xml_config_logger, Modules, GSMAndOPTM, xml_config_diagnose
<1>2. Kept
  BY <1>1, InUse
<1>3. /\ UNCHANGED <<array, inner, live, pointsTo, definitions, overwritten>>
      /\ local' = local \/ local' = [l \in Lists |-> NoBlock]
      /\ whole' = whole \/ whole' = FALSE
      /\ step' \in {"failed", "modules", "TCPs", "GSM", "PPPs", "loaded"}
  BY DEF xml_config_logger, Modules, GSMAndOPTM, xml_config_diagnose, LeavesOff, GoesTo, cfgData, cfgMemory
<1>4. step' \in Steps \ {"gone"}
  BY <1>3, OrderIs DEF Steps
<1> QED
  BY <1>1, <1>2, <1>3, <1>4, MovesKeep

LEMMA ListEndsKeeps ==
    ASSUME CfgInv, ListEnds
    PROVE  Kept'
<1>1. step \in Lists /\ Kept /\ CfgType /\ HeapInv
  BY InUse, ListsInUse DEF ListEnds, Kept
<1> DEFINE next == IF step = "PPPs" THEN "index" ELSE IF step = "depends" THEN "diagnose" ELSE After(step)
           returns == next # "index" /\ (next = "diagnose" \/ next \notin SameFunction(step))
<1>2. /\ step' = next /\ UNCHANGED <<array, inner, pointsTo, definitions, overwritten, whole>>
      /\ live' = IF returns THEN live \ CleanUp(step, local) ELSE live
      /\ local' = IF returns THEN [l \in Lists |-> NoBlock] ELSE local
  BY DEF ListEnds, GoesTo, cfgData
<1>3. next \in Steps \ {"gone"}
  BY <1>1, AfterIs, ListsInUse DEF Steps
<1>4. CleanUp(step, local) = {local["patterns"]} \ {NoBlock}
  <2>1. \A l \in Lists : step # "patterns" \/ l = "patterns" =>
            CleanUp(l, local) = {local["patterns"]} \ {NoBlock}
    BY <1>1, CleanUpIs
  <2> QED
    BY <1>1, <2>1
<1>5. CASE step # "patterns"
  <2>1. CleanUp(step, local) = {}
    BY <1>1, <1>4, <1>5, Locals
  <2>2. live' = live
    BY <1>2, <2>1
  <2> HIDE DEF next, returns
  <2> QED
    BY <1>1, <1>2, <1>3, <1>5, <2>2, MovesKeep
<1>6. CASE step = "patterns"
  <2>1. next = "depends"
    BY <1>6, AfterIs
  <2>2. returns
    BY <1>6, <2>1, OrderIs DEF SameFunction
  <2> HIDE DEF next, returns
  <2>3. PICK F : F = {local["patterns"]} \ {NoBlock}
    OBVIOUS
  <2>4. PICK S : S = {}
    OBVIOUS
  <2>5. /\ S \in SUBSET (Blocks \ live) /\ S \in SUBSET S /\ F \subseteq S \cup {local["patterns"]}
        /\ F \cap S = {} /\ definitions' = definitions \cup S /\ live' = (live \cup S) \ F
        /\ local' = [l \in Lists |-> NoBlock] /\ step' \in Steps \ {"gone"}
    BY <1>2, <1>3, <1>4, <2>2, <2>3, <2>4
  <2> QED
    BY <1>1, <1>2, <2>3, <2>4, <2>5, FreesKeep
<1> QED
  BY <1>5, <1>6

(* A list whose structures have arrays inside them or none. *)
LEMMA ChannelKeeps ==
    ASSUME CfgInv, NEW list \in Lists \ {"patterns"}, NEW items \in Nat, NEW quiet,
           list = "PPPs" => items = 0,
           ReadChannel(list, items) \/ ChannelFails(list, items, quiet)
    PROVE  Kept'
<1>1. step = list /\ Kept /\ UNCHANGED <<pointsTo, definitions, overwritten>>
  BY InUse, ListsInUse DEF ReadChannel, ChannelFails, Reads, cfgData
<1>2. CASE ReadChannel(list, items)
  <2>1. ReadsWell(list, items)
    BY <1>2 DEF ReadChannel
  <2> QED
    BY <1>1, <2>1, WellKeeps
<1>3. CASE ChannelFails(list, items, quiet)
  <2>1. ReadsBadly(list, items, quiet)
    BY <1>3 DEF ChannelFails
  <2> QED
    BY <1>1, <2>1, BadlyKeeps
<1> QED
  BY <1>2, <1>3

LEMMA TargetsKeep ==
    ASSUME CfgInv, NEW list \in Lists \ {"patterns", "PPPs"}, NEW dials \in 0..1, Targets(list, dials)
    PROVE  Kept'
<1>1. dials + 1 \in Nat /\ dials \in Nat /\ \A targets \in 0..1 : dials + targets \in Nat
  OBVIOUS
<1>2. CASE ReadChannel(list, dials + 1)
  BY <1>1, <1>2, ChannelKeeps
<1>3. CASE ChannelFails(list, dials, TRUE)
  BY <1>1, <1>3, ChannelKeeps
<1>4. CASE \E targets \in 0..1 : ChannelFails(list, dials + targets, FALSE)
  BY <1>1, <1>4, ChannelKeeps
<1> QED
  BY <1>2, <1>3, <1>4 DEF Targets

LEMMA ChannelsKeep ==
    ASSUME CfgInv, xml_config_channel
    PROVE  Kept'
<1>1. {"TCPs", "PSTNs", "RS232s", "RS485s"} \subseteq Lists \ {"patterns", "PPPs"}
  BY OrderIs
<1>2. ASSUME NEW list \in {"TCPs", "PSTNs", "RS232s", "RS485s"}, NEW items \in 0..1, NEW quiet,
             ChannelFails(list, items, quiet)
      PROVE  Kept'
  BY <1>1, <1>2, ChannelKeeps
<1>3. ASSUME NEW list \in {"TCPs", "PSTNs", "RS232s", "RS485s"}, NEW dials \in 0..1, Targets(list, dials)
      PROVE  Kept'
  BY <1>1, <1>3, TargetsKeep
<1>4. ASSUME ReadTCP PROVE Kept'
  <2>1. \/ \E fault : ChannelFails("TCPs", 0, fault)
        \/ Targets("TCPs", 0)
    BY <1>4 DEF ReadTCP, TCPAttributes, TCPFlags
  <2> QED
    BY <2>1, <1>2, <1>3
<1>5. ASSUME ReadPSTN PROVE Kept'
  <2>1. \/ \E dials \in 0..1 : ChannelFails("PSTNs", dials, FALSE)
        \/ \E dials \in 0..1 : Targets("PSTNs", dials)
    <3>1. 0 \in 0..1
      OBVIOUS
    <3>2. PSTNAttributes \/ PSTNFlags \/ PSTNDials => \E dials \in 0..1 : ChannelFails("PSTNs", dials, FALSE)
      BY <3>1, Zenon DEF PSTNAttributes, PSTNFlags, PSTNDials
    <3> QED
      BY <1>5, <3>2, Zenon DEF ReadPSTN
  <2> QED
    BY <2>1, <1>2, <1>3
<1>6. ASSUME ReadRS232 PROVE Kept'
  <2>1. 0 \in 0..1
    OBVIOUS
  <2>2. ChannelFails("RS232s", 0, FALSE) \/ Targets("RS232s", 0)
    BY <1>6 DEF ReadRS232, RS232Attributes
  <2> QED
    BY <2>1, <2>2, <1>2, <1>3
<1>7. ASSUME ReadRS485 PROVE Kept'
  <2>1. 0 \in 0..1
    OBVIOUS
  <2>2. ChannelFails("RS485s", 0, FALSE) \/ Targets("RS485s", 0)
    BY <1>7 DEF ReadRS485, RS485Attributes
  <2> QED
    BY <2>1, <2>2, <1>2, <1>3
<1> QED
  BY <1>4, <1>5, <1>6, <1>7 DEF xml_config_channel

LEMMA ModulesKeep ==
    ASSUME CfgInv, xml_config_module
    PROVE  Kept'
<1>1. {"modPSTNs", "modRS232s", "modRS485s"} \subseteq Lists \ {"patterns", "PPPs"}
  BY OrderIs
<1>2. ASSUME NEW list \in {"modPSTNs", "modRS232s", "modRS485s"}, NEW fault,
             ReadLine(list) \/ LineFails(list, fault)
      PROVE  Kept'
  BY <1>1, <1>2, ChannelKeeps DEF ReadLine, LineFails, ReadChannel, ChannelFails
<1>3. ASSUME ReadModPSTN \/ ReadModRS232 \/ ReadModRS485 PROVE Kept'
  BY <1>2, <1>3 DEF ReadModPSTN, ReadModRS232, ReadModRS485
<1>4. ASSUME Modules \/ GSMAndOPTM PROVE Kept'
  BY <1>4, PlacesKeep
<1>5. ASSUME NEW sims, NEW lines, NEW fault, ReadPPP(sims, lines) \/ PPPFails(fault) PROVE Kept'
  BY <1>5, PPPsKeep
<1> QED
  BY <1>3, <1>4, <1>5, UpdateIndexKeeps DEF xml_config_module

LEMMA PatternsKeep ==
    ASSUME CfgInv, xml_config_pattern
    PROVE  Kept'
<1>1. ASSUME NEW iso \in 0..1, NEW route \in 0..1, NEW dest \in 0..1, NEW atHand,
             ReadPattern(iso, route, dest) \/ PatternFails(iso, route, dest, atHand)
      PROVE  Kept'
  <2>1. Kept
    BY <1>1, InUse DEF ReadPattern, PatternFails, Reads
  <2> QED
    BY <1>1, <2>1, ReadPatternKeeps, PatternFailsKeep
<1>2. 0 \in 0..1 /\ 1 \in 0..1
  OBVIOUS
<1>3. \/ \E iso, route, dest \in 0..1 : ReadPattern(iso, route, dest)
      \/ \E iso, route, dest \in 0..1, atHand \in {"pattern", "route", "dest"} :
             PatternFails(iso, route, dest, atHand)
  BY <1>2 DEF xml_config_pattern, PatternTwice, PatternAttributes, Parser, Route, Dest
<1> QED
  BY <1>1, <1>3

LEMMA DependsKeep ==
    ASSUME CfgInv, xml_config_depend
    PROVE  Kept'
<1>1. "depends" \in Lists \ {"patterns"} /\ 0 \in Nat
  BY OrderIs
<1>2. ReadChannel("depends", 0) \/ ChannelFails("depends", 0, FALSE)
  BY DEF xml_config_depend, ReadChannel, ChannelFails
<1> QED
  BY <1>1, <1>2, ChannelKeeps

LEMMA TermKeeps ==
    ASSUME CfgInv, xml_config_term
    PROVE  CfgInv'
<1>1. step \in {"loaded", "failed"} /\ step' = "gone" /\ Kept
  BY InUse DEF xml_config_term, GoesTo
<1>2. /\ live' = live \ UNION {Freed(b) : b \in UNION {ItemsOf(l) : l \in Lists \ {"PPPs"}}}
      /\ array' = [l \in Lists |-> IF l = "PPPs" THEN array[l] ELSE <<>>]
      /\ UNCHANGED <<inner, local, pointsTo, definitions, overwritten, whole>>
  BY DEF xml_config_term, cfgData
<1>3. CfgType /\ HeapInv
  BY <1>1 DEF Kept
<1>4. CfgType'
  <2>1. array' \in [Lists -> Seq(Blocks)]
    BY <1>2, <1>3 DEF CfgType
  <2>2. live' \subseteq Blocks /\ step' \in Steps
    BY <1>1, <1>2, <1>3 DEF CfgType, Steps
  <2> QED
    BY <1>2, <1>3, <2>1, <2>2 DEF CfgType, Blocks
<1>5. TermReleases'
  <2> DEFINE others == UNION {ItemsOf(l) : l \in Lists \ {"PPPs"}}
  <2> SUFFICES ASSUME whole PROVE live' = ItemsOf("PPPs") \cup definitions \cup overwritten
    <3>1. ItemsOf("PPPs")' = ItemsOf("PPPs")
      BY <1>2, OrderIs DEF ItemsOf
    <3> QED
      BY <1>2, <3>1 DEF TermReleases
  <2>1. local["patterns"] = NoBlock
    BY <1>1, <1>3, Locals
  <2>2. live = Held \cup definitions \cup overwritten
    BY <1>3, <2>1 DEF HeapInv, AllAccounted, Astray
  <2>3. Structures = ItemsOf("PPPs") \cup others
    BY OrderIs DEF Structures
  <2>4. \A b \in ItemsOf("PPPs") : Within(b) = {b} /\ b \notin others
    BY <1>3, OrderIs DEF HeapInv, PPPsHoldNothing, ArraysApart, Within
  <2> HIDE DEF others
  <2>5. live' = live \ UNION {Within(b) : b \in others}
    BY <1>2 DEF Freed, others
  <2>6. \A b \in others : Within(b) \cap (ItemsOf("PPPs") \cup definitions \cup overwritten) = {}
    <3> SUFFICES ASSUME NEW b \in others
                 PROVE  Within(b) \cap (ItemsOf("PPPs") \cup definitions \cup overwritten) = {}
      OBVIOUS
    <3>1. Within(b) \cap (definitions \cup overwritten) = {}
      BY <1>3, <2>3 DEF HeapInv, AstrayApart, Astray
    <3>2. \A c \in ItemsOf("PPPs") : Within(b) \cap Within(c) = {}
      BY <1>3, <2>3, <2>4 DEF HeapInv, ItemsHold
    <3> QED
      BY <3>1, <3>2, <2>4
  <2>7. Held = ItemsOf("PPPs") \cup UNION {Within(b) : b \in others}
    BY <2>3, <2>4 DEF Held
  <2> QED
    BY <2>2, <2>5, <2>6, <2>7
<1> QED
  BY <1>1, <1>4, <1>5 DEF CfgInv

LEMMA NextKeeps ==
    ASSUME CfgInv, [CfgNext]_cfgVars
    PROVE  CfgInv'
<1>1. ASSUME xml_config_init PROVE CfgInv'
  <2>1. Kept'
    BY <1>1, PlacesKeep, ModulesKeep, ChannelsKeep, PatternsKeep, DependsKeep, ListEndsKeeps
        DEF xml_config_init
  <2> QED
    BY <2>1 DEF Kept, CfgInv, TermReleases
<1>2. ASSUME UNCHANGED cfgVars PROVE CfgInv'
  <2>1. UNCHANGED <<step, array, inner, local, live, pointsTo, definitions, overwritten, whole>>
    BY <1>2 DEF cfgVars, cfgPlace, cfgMemory, cfgData
  <2> QED
    <3>1. /\ \A l \in Lists : ItemsOf(l)' = ItemsOf(l)
          /\ Structures' = Structures /\ Channels' = Channels /\ Held' = Held /\ Astray' = Astray
          /\ \A b : Within(b)' = Within(b)
      BY <2>1, ItemsStay DEF Astray, Within
    <3>2. CfgType' <=> CfgType
      BY <2>1 DEF CfgType, Blocks
    <3>3. (FreeIsEmpty' <=> FreeIsEmpty) /\ (LocalsClear' <=> LocalsClear) /\ (AllAccounted' <=> AllAccounted)
      BY <2>1, <3>1 DEF FreeIsEmpty, LocalsClear, AllAccounted, Blocks
    <3>4. (ItemsHold' <=> ItemsHold) /\ (ArraysApart' <=> ArraysApart) /\ (AstrayApart' <=> AstrayApart)
      BY <2>1, <3>1 DEF ItemsHold, ArraysApart, AstrayApart
    <3>5. (RoutesPoint' <=> RoutesPoint) /\ (PPPsHoldNothing' <=> PPPsHoldNothing) /\ (TermReleases' <=> TermReleases)
      BY <2>1, <3>1, OrderIs DEF RoutesPoint, PPPsHoldNothing, TermReleases, Blocks
    <3> QED
      BY <2>1, <3>2, <3>3, <3>4, <3>5 DEF CfgInv, HeapInv
<1> QED
  BY <1>1, <1>2, TermKeeps DEF CfgNext

LEMMA InitKeeps ==
    ASSUME CfgInit
    PROVE  CfgInv
<1>1. /\ step = "logger" /\ live = {} /\ definitions = {} /\ overwritten = {}
      /\ array = [l \in Lists |-> <<>>] /\ local = [l \in Lists |-> NoBlock]
      /\ inner = [b \in Blocks |-> {}] /\ pointsTo = [b \in Blocks |-> NoBlock]
  BY DEF CfgInit
<1>2. CfgType
  BY <1>1 DEF CfgType, Steps
<1>3. \A l \in Lists : ItemsOf(l) = {}
  BY <1>1 DEF ItemsOf, Range
<1>4. Structures = {} /\ Astray = {} /\ Held = {}
  BY <1>1, <1>3, OrderIs DEF Structures, Astray, Held
<1>5. \A l \in Lists : IsInjective(array[l])
  BY <1>1 DEF IsInjective
<1>6. FreeIsEmpty /\ ItemsHold /\ ArraysApart /\ AstrayApart
  BY <1>1, <1>3, <1>4, <1>5 DEF FreeIsEmpty, ItemsHold, ArraysApart, AstrayApart
<1>7. LocalsClear /\ RoutesPoint /\ PPPsHoldNothing /\ AllAccounted
  BY <1>1, <1>3, <1>4, OrderIs DEF LocalsClear, RoutesPoint, PPPsHoldNothing, AllAccounted
<1> QED
  BY <1>1, <1>2, <1>6, <1>7 DEF CfgInv, HeapInv, TermReleases

(* What holds of the memory while the configuration is read and used. *)
THEOREM ConfigInvariant == CfgSpec => []CfgInv
<1>1. CfgInit => CfgInv
  BY InitKeeps
<1>2. CfgInv /\ [CfgNext]_cfgVars => CfgInv'
  BY NextKeeps
<1> QED
  BY <1>1, <1>2, PTL DEF CfgSpec

LEMMA InvGives == CfgInv => PointersAlive
<1> SUFFICES ASSUME CfgInv, step # "gone" PROVE PointersAlive
  BY DEF PointersAlive
<1>1. CfgType /\ HeapInv
  BY DEF CfgInv
<1>2. \A b \in Structures : Within(b) \subseteq Blocks
  BY <1>1, ItemsAreBlocks, WithinIsBlocks DEF CfgType
<1>3. \A b \in ItemsOf("patterns") : \A d \in Within(b) : pointsTo[d] \in Channels \cup {NoBlock}
  BY <1>1, <1>2, OrderIs DEF HeapInv, RoutesPoint, Structures
<1> QED
  BY <1>1, <1>3 DEF PointersAlive, HeapInv, ItemsHold, ArraysApart, Structures

(* PointersAlive, whatever the document and however many blocks there are:  *)
(* no function that leaves off, quietly or with an error, frees what an     *)
(* array holds, and no destination points to what is not a channel.         *)
THEOREM ConfigIsAlive == CfgSpec => []PointersAlive
  BY ConfigInvariant, InvGives, PTL

(* TermReleases likewise: what xml_config_term leaves behind is the PPPs,   *)
(* the definitions and the patterns without a route, and nothing else.      *)
THEOREM TermFreesTheRest == CfgSpec => []TermReleases
<1>1. CfgInv => TermReleases
  BY DEF CfgInv
<1> QED
  BY <1>1, ConfigInvariant, PTL
=============================================================================
