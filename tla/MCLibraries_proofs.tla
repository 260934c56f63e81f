-------------------------- MODULE MCLibraries_proofs --------------------------
(***************************************************************************)
(* The tree of a document of any size, and the libraries together.         *)
(***************************************************************************)
EXTENDS MCLibraries, ItemArray_proofs, VoiceConfig_proofs

XmlType ==
    /\ phase \in {"parse", "clear", "gone"}
    /\ started \in 0..MaxElements
    /\ within \in [Elements -> Pointer] /\ name \in [Elements -> Names]
    /\ attributes \in [Elements -> 0..MaxAttributes]
    /\ child \in [Elements -> Pointer] /\ parent \in [Elements -> Pointer]
    /\ prev \in [Elements -> Pointer] /\ next \in [Elements -> Pointer]
    /\ cur \in Pointer /\ mas \in {NULL, 1}
    /\ open \in Seq(Elements)
    /\ alive \subseteq Elements /\ valued \subseteq alive

(* The pointers lead from an element to one that has started after it. *)
Ahead == \A e \in Elements : (child[e] # NULL => child[e] > e) /\ (next[e] # NULL => next[e] > e)

(* Every element but the top hangs on the element before it among its peers, *)
(* or on its parent when there is none; and nothing else hangs there.       *)
Hangs(e) ==
    IF prev[e] # NULL
    THEN prev[e] \in alive /\ next[prev[e]] = e
    ELSE parent[e] \in alive /\ child[parent[e]] = e

Linked ==
    /\ \A e \in alive :
           /\ child[e] # NULL => child[e] \in alive /\ prev[child[e]] = NULL /\ parent[child[e]] = e
           /\ next[e] # NULL => next[e] \in alive /\ prev[next[e]] = e
           /\ e # mas => Hangs(e)
    /\ IF mas = NULL THEN alive = {} ELSE mas \in alive /\ next[mas] = NULL

(* What the document says of the pointers while it is read. *)
Kids(e) == {d \in 1..started : within[d] = e}
Later(e) == {d \in 1..started : within[d] = within[e] /\ d > e}
IsFirst(p, S) == IF S = {} THEN p = NULL ELSE p \in S /\ \A d \in S : p <= d

Read ==
    /\ alive = 1..started /\ misused = FALSE
    /\ mas = IF started = 0 THEN NULL ELSE 1
    /\ \A e \in 1..started :
           /\ parent[e] = within[e] /\ within[e] < e /\ (within[e] = NULL => e = 1)
           /\ IsFirst(child[e], Kids(e)) /\ IsFirst(next[e], Later(e))
    /\ \A e \in Elements \ (1..started) : child[e] = NULL /\ parent[e] = NULL /\ prev[e] = NULL /\ next[e] = NULL

(* The open elements stand in each other, and the last one is at hand. *)
Opened ==
    /\ \A i \in 1..Len(open) :
           open[i] \in 1..started /\ within[open[i]] = IF i = 1 THEN NULL ELSE open[i - 1]
    /\ cur = IF Len(open) = 0 THEN NULL ELSE open[Len(open)]

XmlInv ==
    /\ XmlType /\ Ahead /\ Linked
    /\ phase = "parse" => Read /\ Opened
    /\ misused => phase = "gone" /\ attributes[1] >= 2
    /\ phase = "gone" => mas = NULL

-----------------------------------------------------------------------------
(* Functions that follow the pointers, which lead ahead. *)

LEMMA ElementsAre == NULL \notin Elements /\ Elements \subseteq Nat /\ Elements \subseteq Pointer
  BY DEF Elements, NULL, Pointer

LEMMA Onward ==
    ASSUME NEW a \in Elements, NEW b \in Elements, NEW c \in Elements, a >= b, b > c
    PROVE  a > c /\ a >= c
  BY DEF Elements

LEMMA DownInduction ==
    ASSUME NEW S, \A e \in Elements : (\A d \in Elements : d > e => d \in S) => e \in S
    PROVE  Elements \subseteq S
<1> SUFFICES ASSUME Elements \ S # {} PROVE FALSE
  OBVIOUS
<1>1. Elements \ S \in SUBSET Nat /\ \A e \in Elements \ S : e <= MaxElements
  BY XmlAssumption DEF Elements
<1>2. PICK e \in Elements \ S : \A d \in Elements \ S : d <= e
  BY <1>1, XmlAssumption, MaxOf
<1>3. \A d \in Elements : d > e => d \in S
  BY <1>1, <1>2 DEF Elements
<1> QED
  BY <1>2, <1>3

(* There is a function that is h of its value one pointer ahead. *)
Defined(V, v0, h, g) == \E f \in [Pointer -> V] : f[NULL] = v0 /\ \A e \in Elements : f[e] = h[e][f[g[e]]]

LEMMA Recursion ==
    ASSUME NEW V, NEW v0 \in V, NEW h \in [Elements -> [V -> V]], NEW g \in [Elements -> Pointer],
           \A e \in Elements : g[e] = NULL \/ g[e] > e
    PROVE  Defined(V, v0, h, g)
<1> USE XmlAssumption DEF Elements, Pointer, NULL
<1> DEFINE Good(f, k) == f[NULL] = v0 /\ \A e \in Elements : e > MaxElements - k => f[e] = h[e][f[g[e]]]
           S == {k \in Nat : \E f \in [Pointer -> V] : Good(f, k)}
<1>1. 0 \in S
  <2> DEFINE f == [p \in Pointer |-> v0]
  <2>1. f \in [Pointer -> V] /\ Good(f, 0)
    OBVIOUS
  <2> QED
    BY <2>1
<1>2. ASSUME NEW k \in Nat, k \in S
      PROVE  k + 1 \in S
  <2>1. PICK f \in [Pointer -> V] : Good(f, k)
    BY <1>2
  <2> DEFINE m == MaxElements - k
  <2>2. CASE m \notin Elements
    <3>1. Good(f, k + 1)
      BY <2>1, <2>2
    <3> QED
      BY <3>1
  <2>3. CASE m \in Elements
    <3> DEFINE v == h[m][f[g[m]]]
               f1 == [f EXCEPT ![m] = v]
    <3>1. v \in V
      BY <2>3
    <3>2. f1 \in [Pointer -> V] /\ f1[m] = v /\ \A p \in Pointer : p # m => f1[p] = f[p]
      <4> HIDE DEF v
      <4> QED
        BY <2>3, <3>1
    <3>3. m # NULL /\ g[m] \in Pointer /\ g[m] # m
      BY <2>3
    <3>4. \A e \in Elements : e > m => g[e] \in Pointer /\ g[e] # m /\ e # m
      BY <2>3
    <3> HIDE DEF f1
    <3>5. f1[m] = h[m][f1[g[m]]]
      BY <3>2, <3>3
    <3>6. \A e \in Elements : e > m => f1[e] = h[e][f1[g[e]]]
      BY <2>1, <3>2, <3>4
    <3>7. \A e \in Elements : e > MaxElements - (k + 1) => e = m \/ e > m
      BY <2>3
    <3>8. Good(f1, k + 1)
      BY <2>1, <3>2, <3>3, <3>5, <3>6, <3>7
    <3> QED
      BY <3>2, <3>8
  <2> QED
    BY <2>2, <2>3
<1>3. MaxElements \in S
  <2> HIDE DEF S
  <2> QED
    BY <1>1, <1>2, SetInduction
<1>4. PICK f \in [Pointer -> V] : Good(f, MaxElements)
  BY <1>3
<1>5. \A e \in Elements : e > MaxElements - MaxElements
  OBVIOUS
<1> QED
  BY <1>4, <1>5 DEF Defined

(* What is at the end of a chain stays where the chain does. *)
LEMMA ChainEnds ==
    ASSUME NEW c, NEW g, NEW f,
           \A e \in Elements : c[e] # NULL => g[e] \in Elements /\ g[e] > e,
           \A e \in Elements : f[e] = IF c[e] = NULL THEN e ELSE f[g[e]],
           NEW R \in SUBSET Elements, \A e \in R : c[e] # NULL => g[e] \in R
    PROVE  \A e \in R : f[e] \in R /\ f[e] >= e /\ c[f[e]] = NULL /\ (c[e] # NULL => f[e] >= g[e])
<1> DEFINE S == {e \in Elements : e \in R => f[e] \in R /\ f[e] >= e /\ c[f[e]] = NULL
                                             /\ (c[e] # NULL => f[e] >= g[e])}
<1>1. ASSUME NEW e \in Elements, \A d \in Elements : d > e => d \in S
      PROVE  e \in S
  <2>1. CASE c[e] = NULL
    BY <2>1 DEF Elements
  <2>2. CASE c[e] # NULL /\ e \in R
    <3>1. g[e] \in R /\ g[e] > e /\ g[e] \in Elements /\ f[e] = f[g[e]]
      BY <2>2
    <3>2. f[g[e]] \in R /\ f[g[e]] >= g[e] /\ c[f[g[e]]] = NULL
      BY <1>1, <3>1
    <3>3. f[g[e]] >= e
      BY <3>1, <3>2, Onward
    <3> QED
      BY <3>1, <3>2, <3>3
  <2> QED
    BY <2>1, <2>2
<1>2. Elements \subseteq S
  <2> HIDE DEF S
  <2> QED
    BY <1>1, DownInduction
<1> QED
  BY <1>2

-----------------------------------------------------------------------------
(* The functions of the parser that walk the tree. *)

LEMMA Chase ==
    ASSUME NEW c, NEW g \in [Elements -> Pointer],
           \A e \in Elements : c[e] # NULL => g[e] \in Elements /\ g[e] > e,
           \A e \in Elements : c[e] = NULL => g[e] = NULL
    PROVE  \E f : f = [e \in Elements |-> IF c[e] = NULL THEN e ELSE f[g[e]]]
<1> DEFINE h == [e \in Elements |-> [v \in Pointer |-> IF c[e] = NULL THEN e ELSE v]]
<1>1. h \in [Elements -> [Pointer -> Pointer]]
  BY ElementsAre
<1>2. NULL \in Pointer /\ \A e \in Elements : g[e] = NULL \/ g[e] > e
  BY DEF Pointer
<1>3. PICK f \in [Pointer -> Pointer] : \A e \in Elements : f[e] = h[e][f[g[e]]]
  <2> HIDE DEF h
  <2>1. Defined(Pointer, NULL, h, g)
    BY <1>1, <1>2, Recursion
  <2> QED
    BY <2>1 DEF Defined
<1> DEFINE k == [e \in Elements |-> f[e]]
<1>4. \A e \in Elements : f[g[e]] \in Pointer
  BY <1>3
<1>5. \A e \in Elements : f[e] = IF c[e] = NULL THEN e ELSE f[g[e]]
  BY <1>3, <1>4
<1>6. \A e \in Elements : k[e] = IF c[e] = NULL THEN e ELSE k[g[e]]
  BY <1>5
<1>7. k = [e \in Elements |-> IF c[e] = NULL THEN e ELSE k[g[e]]]
  BY <1>6
<1> HIDE DEF k
<1> QED
  BY <1>7

LEMMA GetLastPeerElementIs ==
    ASSUME XmlType, Ahead
    PROVE  GetLastPeerElement =
               [e \in Elements |-> IF next[e] = NULL THEN e ELSE GetLastPeerElement[next[e]]]
<1>1. /\ next \in [Elements -> Pointer]
      /\ \A e \in Elements : next[e] # NULL => next[e] \in Elements /\ next[e] > e
  BY DEF XmlType, Ahead, Pointer
<1>2. \E f : f = [e \in Elements |-> IF next[e] = NULL THEN e ELSE f[next[e]]]
  BY <1>1, Chase
<1> QED
  BY <1>2, Zenon DEF GetLastPeerElement

LEMMA GetLastChildElementIs ==
    ASSUME XmlType, Ahead
    PROVE  GetLastChildElement =
               [e \in Elements |-> IF child[e] = NULL THEN e ELSE GetLastChildElement[child[e]]]
<1>1. /\ child \in [Elements -> Pointer]
      /\ \A e \in Elements : child[e] # NULL => child[e] \in Elements /\ child[e] > e
  BY DEF XmlType, Ahead, Pointer
<1>2. \E f : f = [e \in Elements |-> IF child[e] = NULL THEN e ELSE f[child[e]]]
  BY <1>1, Chase
<1> QED
  BY <1>2, Zenon DEF GetLastChildElement

(* The last peer of those of one element is one of them. *)
LEMMA LastPeerOf ==
    ASSUME XmlType, Ahead, NEW R \in SUBSET Elements, \A e \in R : next[e] # NULL => next[e] \in R
    PROVE  \A e \in R : /\ GetLastPeerElement[e] \in R /\ GetLastPeerElement[e] >= e
                        /\ next[GetLastPeerElement[e]] = NULL
<1>1. \A e \in Elements : next[e] # NULL => next[e] \in Elements /\ next[e] > e
  BY DEF XmlType, Ahead, Pointer
<1>2. \A e \in Elements :
          GetLastPeerElement[e] = IF next[e] = NULL THEN e ELSE GetLastPeerElement[next[e]]
  BY GetLastPeerElementIs
<1> QED
  BY <1>1, <1>2, ChainEnds

LEMMA LastChildOf ==
    ASSUME XmlType, Ahead, NEW R \in SUBSET Elements, \A e \in R : child[e] # NULL => child[e] \in R
    PROVE  \A e \in R : /\ GetLastChildElement[e] \in R /\ GetLastChildElement[e] >= e
                        /\ child[GetLastChildElement[e]] = NULL
                        /\ child[e] # NULL => GetLastChildElement[e] > e
<1>1. \A e \in Elements : child[e] # NULL => child[e] \in Elements /\ child[e] > e
  BY DEF XmlType, Ahead, Pointer
<1>2. \A e \in Elements :
          GetLastChildElement[e] = IF child[e] = NULL THEN e ELSE GetLastChildElement[child[e]]
  BY GetLastChildElementIs
<1>3. \A e \in R : /\ GetLastChildElement[e] \in R /\ GetLastChildElement[e] >= e
                   /\ child[GetLastChildElement[e]] = NULL
                   /\ child[e] # NULL => GetLastChildElement[e] >= child[e]
  BY <1>1, <1>2, ChainEnds
<1>4. \A e \in R : child[e] # NULL => GetLastChildElement[e] > e
  BY <1>1, <1>3, Onward
<1> QED
  BY <1>3, <1>4

(* The last element of the tree is a leaf without a later peer. *)
LEMMA LastElementOf ==
    ASSUME XmlType, Ahead, Linked, mas # NULL, child[mas] # NULL
    PROVE  LET e == GetLastElement[mas]
           IN  e \in alive /\ e # mas /\ child[e] = NULL /\ next[e] = NULL
<1> DEFINE g == [e \in Elements |-> IF child[e] = NULL THEN NULL ELSE GetLastPeerElement[GetLastChildElement[e]]]
           R == {e \in alive : next[e] = NULL}
<1>1. alive \subseteq Elements /\ \A e \in alive : (child[e] # NULL => child[e] \in alive)
                                                   /\ (next[e] # NULL => next[e] \in alive)
  BY DEF XmlType, Linked
<1>2. \A e \in Elements : child[e] # NULL => child[e] \in Elements /\ child[e] > e
  BY DEF XmlType, Ahead, Pointer
<1>3. \A e \in Elements : next[e] # NULL => next[e] \in Elements /\ next[e] > e
  BY DEF XmlType, Ahead, Pointer
<1>4. \A e \in Elements : /\ GetLastChildElement[e] \in Elements
                          /\ child[e] # NULL => GetLastChildElement[e] > e
  BY <1>2, LastChildOf
<1>5. \A e \in Elements : GetLastPeerElement[e] \in Elements /\ GetLastPeerElement[e] >= e
  BY <1>3, LastPeerOf
<1>6. g \in [Elements -> Pointer] /\ \A e \in Elements :
          /\ child[e] # NULL => g[e] \in Elements /\ g[e] > e
          /\ child[e] = NULL => g[e] = NULL
  <2>1. \A e \in Elements : child[e] # NULL => g[e] \in Elements /\ g[e] > e
    BY <1>4, <1>5, Onward
  <2> QED
    BY <2>1, ElementsAre DEF Pointer
<1>7. \E f : f = [e \in Elements |-> IF child[e] = NULL THEN e ELSE f[g[e]]]
  <2> HIDE DEF g
  <2> QED
    BY <1>6, Chase
<1>8. PICK f : f = [e \in Elements |-> IF child[e] = NULL THEN e
                                       ELSE f[GetLastPeerElement[GetLastChildElement[e]]]]
  <2>1. PICK f : f = [e \in Elements |-> IF child[e] = NULL THEN e ELSE f[g[e]]]
    BY <1>7
  <2>2. \A e \in Elements : child[e] # NULL => g[e] = GetLastPeerElement[GetLastChildElement[e]]
    OBVIOUS
  <2> HIDE DEF g
  <2> QED
    BY <2>1, <2>2
<1>9. GetLastElement = [e \in Elements |-> IF child[e] = NULL THEN e
                                ELSE GetLastElement[GetLastPeerElement[GetLastChildElement[e]]]]
  BY <1>8, Zenon DEF GetLastElement
<1>10. \A e \in Elements : GetLastElement[e] = IF child[e] = NULL THEN e ELSE GetLastElement[g[e]]
  BY <1>9
<1>11. \A e \in alive : GetLastChildElement[e] \in alive
  BY <1>1, LastChildOf
<1>12. \A e \in alive : GetLastPeerElement[e] \in alive /\ next[GetLastPeerElement[e]] = NULL
  BY <1>1, LastPeerOf
<1>13. R \in SUBSET Elements /\ \A e \in R : child[e] # NULL => g[e] \in R
  BY <1>1, <1>11, <1>12
<1>14. mas \in R
  BY DEF Linked
<1>15. /\ GetLastElement[mas] \in R /\ child[GetLastElement[mas]] = NULL
  <2> HIDE DEF g, R
  <2> QED
    BY <1>6, <1>10, <1>13, <1>14, ChainEnds
<1> QED
  BY <1>15

-----------------------------------------------------------------------------
(* The invariant, action by action. *)

LEMMA XmlInitInv == XmlInit => XmlInv
<1> SUFFICES ASSUME XmlInit PROVE XmlInv
  OBVIOUS
<1> USE DEF XmlInit
<1>1. (CHOOSE n \in Names : TRUE) \in Names
  BY XmlAssumption
<1>2. XmlType
  BY <1>1, XmlAssumption DEF XmlType, Elements, Pointer, NULL
<1>3. Ahead /\ Linked
  BY DEF Ahead, Linked
<1>4. Read /\ Opened
  BY DEF Read, Opened
<1> QED
  BY <1>2, <1>3, <1>4 DEF XmlInv

(* What the start of an element says, whichever pointers are set. *)
LEMMA Starts ==
    ASSUME XmlInv, NEW n \in Names, NEW k \in 0..MaxAttributes, fpStartElement(n, k),
           NEW e, e = started + 1
    PROVE  /\ phase = "parse" /\ phase' = "parse" /\ Read /\ Opened
           /\ e \in Elements /\ e \notin 1..started /\ started' = e /\ 1..started' = (1..started) \cup {e}
           /\ 1..started \subseteq Elements
           /\ alive' = alive \cup {e} /\ valued' = valued /\ misused' = FALSE
           /\ cur \in (1..started) \cup {NULL} /\ (cur = NULL <=> started = 0)
           /\ within' = [within EXCEPT ![e] = cur] /\ name' = [name EXCEPT ![e] = n]
           /\ attributes' = [attributes EXCEPT ![e] = k]
           /\ open' = Append(open, e) /\ cur' = e
           /\ IF cur = NULL \/ child[cur] = NULL THEN AddChildElement(e)
              ELSE AddPeerElement(e, LastChild(cur))
           /\ child[e] = NULL /\ parent[e] = NULL /\ prev[e] = NULL /\ next[e] = NULL
<1>1. phase = "parse" /\ Read /\ Opened /\ XmlType
  BY DEF fpStartElement, XmlInv
<1>2. e \in Elements /\ started \in Nat /\ started' = e
  BY <1>1 DEF fpStartElement, XmlType
<1>3. e \notin 1..started /\ 1..started' = (1..started) \cup {e} /\ 1..started \subseteq Elements
  BY <1>2, XmlAssumption DEF Elements
<1>4. /\ alive' = alive \cup {e} /\ valued' = valued /\ phase' = phase /\ misused' = misused
      /\ name' = [name EXCEPT ![e] = n] /\ attributes' = [attributes EXCEPT ![e] = k]
      /\ open' = Append(open, e)
      /\ IF cur = NULL \/ child[cur] = NULL THEN AddChildElement(e)
         ELSE AddPeerElement(e, LastChild(cur))
  BY DEF fpStartElement
<1>5. cur' = e
  BY <1>4 DEF AddChildElement, AddPeerElement
<1>6. open \in Seq(Elements) /\ Len(open) \in Nat /\ (started > 0 => Len(open) > 0)
  BY <1>1 DEF XmlType, fpStartElement, iDepth
<1>7. cur \in (1..started) \cup {NULL} /\ (cur = NULL <=> Len(open) = 0)
  BY <1>1, <1>6, <1>3, ElementsAre DEF Opened
<1>8. Len(open) = 0 <=> started = 0
  <2>1. ASSUME started = 0, Len(open) # 0
        PROVE  FALSE
    <3>1. open[1] \in 1..started
      BY <1>1, <1>6, <2>1 DEF Opened
    <3> QED
      BY <3>1, <2>1
  <2> QED
    BY <2>1, <1>6, <1>2
<1>9. within' = [within EXCEPT ![e] = cur]
  <2>1. within' = [within EXCEPT ![e] = IF open = <<>> THEN NULL ELSE open[Len(open)]]
    BY DEF fpStartElement, iDepth
  <2>2. open = <<>> <=> Len(open) = 0
    BY <1>6
  <2> QED
    BY <1>1, <2>1, <2>2 DEF Opened
<1>10. child[e] = NULL /\ parent[e] = NULL /\ prev[e] = NULL /\ next[e] = NULL /\ misused = FALSE
  BY <1>1, <1>2, <1>3 DEF Read
<1> QED
  BY <1>1, <1>2, <1>3, <1>4, <1>5, <1>7, <1>8, <1>9, <1>10

(* The elements that stand in each one, and those that come later in it. *)
LEMMA StartsAmong ==
    ASSUME XmlInv, NEW n \in Names, NEW k \in 0..MaxAttributes, fpStartElement(n, k),
           NEW e, e = started + 1
    PROVE  /\ Kids(e)' = {} /\ Later(e)' = {}
           /\ \A d \in 1..started :
                  /\ Kids(d)' = IF d = cur THEN Kids(d) \cup {e} ELSE Kids(d)
                  /\ Later(d)' = IF within[d] = cur THEN Later(d) \cup {e} ELSE Later(d)
<1>1. /\ started \in Nat /\ 1..started' = (1..started) \cup {e} /\ e \in Elements
      /\ within \in [Elements -> Pointer] /\ within' = [within EXCEPT ![e] = cur]
      /\ 1..started \subseteq Elements /\ e \notin 1..started /\ cur # e
      /\ \A d \in 1..started : within[d] < e /\ e > d /\ ~(d > e)
  <2>1. XmlType /\ Read /\ 1..started \subseteq Elements
    BY Starts DEF XmlInv
  <2>2. \A d \in 1..started : within[d] < d /\ within[d] \in Pointer
    BY <2>1 DEF Read, XmlType
  <2>3. started \in Nat
    BY <2>1 DEF XmlType
  <2>4. NULL # e /\ Pointer \subseteq Int
    BY <2>3, XmlAssumption DEF NULL, Pointer, Elements
  <2>5. \A d \in 1..started : within[d] < e /\ e > d /\ ~(d > e)
    <3> TAKE d \in 1..started
    <3>1. within[d] \in Int /\ within[d] < d
      BY <2>2, <2>4
    <3>2. d \in Int /\ d <= started
      BY <2>3
    <3> QED
      BY <3>1, <3>2, <2>3
  <2>6. within \in [Elements -> Pointer]
    BY <2>1 DEF XmlType
  <2>7. /\ e \in Elements /\ e \notin 1..started /\ 1..started' = (1..started) \cup {e}
        /\ cur \in (1..started) \cup {NULL} /\ within' = [within EXCEPT ![e] = cur]
    BY Starts
  <2> QED
    BY <2>1, <2>3, <2>4, <2>5, <2>6, <2>7
<1>2. within'[e] = cur /\ \A d \in 1..started : within'[d] = within[d]
  BY <1>1
<1>3. Kids(e)' = {}
  <2>1. \A d \in 1..started : within[d] # e
    BY <1>1 DEF Elements
  <2> QED
    BY <1>1, <1>2, <2>1 DEF Kids
<1>4. Later(e)' = {}
  BY <1>1, <1>2 DEF Later
<1>5. \A d \in 1..started : Kids(d)' = IF d = cur THEN Kids(d) \cup {e} ELSE Kids(d)
  BY <1>1, <1>2 DEF Kids
<1>6. \A d \in 1..started : Later(d)' = IF within[d] = cur THEN Later(d) \cup {e} ELSE Later(d)
  BY <1>1, <1>2 DEF Later
<1> QED
  BY <1>3, <1>4, <1>5, <1>6
(* The first element of a document. *)
LEMMA StartsTop ==
    ASSUME XmlInv, NEW n \in Names, NEW k \in 0..MaxAttributes, fpStartElement(n, k),
           NEW e, e = started + 1, cur = NULL
    PROVE  Ahead' /\ Linked' /\ Read' /\ mas' \in {NULL, 1}
           /\ child' \in [Elements -> Pointer] /\ parent' \in [Elements -> Pointer]
           /\ prev' \in [Elements -> Pointer] /\ next' \in [Elements -> Pointer]
<1>1. started = 0 /\ e = 1 /\ started' = 1 /\ 1..started = {} /\ 1..started' = {1}
  <2>1. started = 0 /\ started' = e
    BY Starts
  <2> QED
    BY <2>1
<1>2. XmlType /\ \A d \in Elements : child[d] = NULL /\ parent[d] = NULL /\ prev[d] = NULL /\ next[d] = NULL
  BY <1>1, Starts DEF Read, XmlInv
<1>3. /\ mas' = 1 /\ child' = child /\ parent' = parent /\ prev' = prev /\ next' = next
      /\ alive' = {1} /\ within'[1] = NULL /\ 1 \in Elements /\ misused' = FALSE
  <2>1. alive' = alive \cup {e} /\ alive = {} /\ within' = [within EXCEPT ![e] = cur] /\ e \in Elements
        /\ AddChildElement(e) /\ misused' = FALSE
    BY <1>1, Starts DEF Read
  <2> QED
    BY <1>1, <1>2, <2>1 DEF AddChildElement, XmlType
<1>4. Kids(1)' = {} /\ Later(1)' = {}
  BY <1>1, StartsAmong
<1>5. Ahead'
  BY <1>2, <1>3 DEF Ahead
<1>6. Linked'
  BY <1>2, <1>3, ElementsAre DEF Linked, NULL
<1>7. IsFirst(child[1], Kids(1))' /\ IsFirst(next[1], Later(1))'
  BY <1>2, <1>3, <1>4 DEF IsFirst
<1>8. Read'
  BY <1>1, <1>2, <1>3, <1>7 DEF Read, NULL
<1> QED
  BY <1>2, <1>3, <1>5, <1>6, <1>8 DEF XmlType

(* The first element that stands in another. *)
LEMMA StartsChild ==
    ASSUME XmlInv, NEW n \in Names, NEW k \in 0..MaxAttributes, fpStartElement(n, k),
           NEW e, e = started + 1, cur # NULL, child[cur] = NULL
    PROVE  Ahead' /\ Linked' /\ Read' /\ mas' \in {NULL, 1}
           /\ child' \in [Elements -> Pointer] /\ parent' \in [Elements -> Pointer]
           /\ prev' \in [Elements -> Pointer] /\ next' \in [Elements -> Pointer]
<1>1. PICK c : c = cur
  OBVIOUS
<1>2. /\ started # 0 /\ e \in Elements /\ e \notin 1..started /\ 1..started' = (1..started) \cup {e}
      /\ 1..started \subseteq Elements /\ c \in 1..started /\ c # e /\ alive' = alive \cup {e}
      /\ alive = 1..started /\ mas = 1 /\ started' = e /\ misused' = FALSE
  BY <1>1, Starts DEF Read
<1>3. XmlType /\ Ahead /\ Linked /\ Read
  BY Starts DEF XmlInv
<1>4. /\ parent' = [parent EXCEPT ![e] = c] /\ child' = [child EXCEPT ![c] = e]
      /\ mas' = mas /\ prev' = prev /\ next' = next
      /\ within' = [within EXCEPT ![e] = c]
  BY <1>1, Starts DEF AddChildElement
<1>5. /\ child' \in [Elements -> Pointer] /\ parent' \in [Elements -> Pointer]
      /\ prev' \in [Elements -> Pointer] /\ next' \in [Elements -> Pointer]
      /\ within \in [Elements -> Pointer]
  BY <1>2, <1>3, <1>4, ElementsAre DEF XmlType
<1>6. /\ parent'[e] = c /\ child'[c] = e /\ within'[e] = c
      /\ \A d \in Elements : d # e => parent'[d] = parent[d] /\ within'[d] = within[d]
      /\ \A d \in Elements : d # c => child'[d] = child[d]
      /\ child[c] = NULL /\ child[e] = NULL /\ prev[e] = NULL /\ next[e] = NULL
  <2>1. child[e] = NULL /\ prev[e] = NULL /\ next[e] = NULL
    BY Starts
  <2>2. c \in Elements
    BY <1>2
  <2>3. /\ parent'[e] = c /\ within'[e] = c
        /\ \A d \in Elements : d # e => parent'[d] = parent[d] /\ within'[d] = within[d]
    BY <1>2, <1>3, <1>4, <1>5 DEF XmlType
  <2>4. child'[c] = e /\ \A d \in Elements : d # c => child'[d] = child[d]
    BY <2>2, <1>3, <1>4 DEF XmlType
  <2> QED
    BY <1>1, <2>1, <2>3, <2>4
<1>7. e > c /\ \A d \in 1..started : d # e
  BY <1>2 DEF Elements
<1>8. Ahead'
  BY <1>2, <1>3, <1>4, <1>6, <1>7 DEF Ahead
<1>9. Linked'
  <2>1. \A d \in alive : d # e /\ d \in Elements /\ child[d] # e
    BY <1>2, <1>3, ElementsAre DEF Linked
  <2>2. ASSUME NEW d \in alive'
        PROVE  /\ child'[d] # NULL => child'[d] \in alive' /\ prev'[child'[d]] = NULL /\ parent'[child'[d]] = d
               /\ next'[d] # NULL => next'[d] \in alive' /\ prev'[next'[d]] = d
    <3>1. CASE d = e
      BY <1>2, <1>4, <1>6, <3>1
    <3>2. CASE d = c
      BY <1>2, <1>3, <1>4, <1>6, <3>2 DEF Linked
    <3>3. CASE d # e /\ d # c
      <4>1. d \in alive /\ d \in Elements
        BY <1>2, <2>1, <3>3
      <4>2. child[d] # NULL => child[d] \in Elements /\ child[d] # e
        BY <2>1, <4>1, <1>3, <1>2 DEF Linked
      <4> QED
        BY <1>2, <1>3, <1>4, <1>6, <3>3, <4>1, <4>2 DEF Linked
    <3> QED
      BY <3>1, <3>2, <3>3
  <2>3. ASSUME NEW d \in alive', d # mas'
        PROVE  Hangs(d)'
    <3>1. CASE d = e
      BY <1>2, <1>4, <1>6, <3>1 DEF Hangs
    <3>2. CASE d # e
      <4>1. d \in alive /\ d \in Elements /\ Hangs(d)
        BY <1>2, <2>1, <3>2, <2>3, <1>3, <1>4 DEF Linked
      <4>2. CASE prev[d] # NULL
        BY <4>1, <4>2, <1>2, <1>4 DEF Hangs
      <4>3. CASE prev[d] = NULL
        <5>1. parent[d] \in alive /\ child[parent[d]] = d
          BY <4>1, <4>3 DEF Hangs
        <5>2. parent[d] # c /\ parent[d] \in Elements
          BY <5>1, <1>6, <4>1, <1>2, ElementsAre
        <5>3. parent'[d] = parent[d] /\ child'[parent[d]] = d /\ prev'[d] = NULL
          BY <5>1, <5>2, <1>4, <1>6, <4>1, <4>3, <3>2
        <5> QED
          BY <5>1, <5>3, <1>2 DEF Hangs
      <4> QED
        BY <4>2, <4>3
    <3> QED
      BY <3>1, <3>2
  <2>4. mas' # NULL /\ mas' \in alive' /\ next'[mas'] = NULL
    BY <1>2, <1>3, <1>4 DEF Linked, NULL
  <2> QED
    BY <2>2, <2>3, <2>4 DEF Linked
<1>10. Read'
  <2>1. Kids(c) = {}
    <3>1. IsFirst(child[c], Kids(c)) /\ Kids(c) \subseteq Elements
      BY <1>2, <1>3 DEF Read, Kids
    <3> QED
      BY <3>1, <1>6, ElementsAre DEF IsFirst
  <2>2. \A d \in 1..started : within[d] # c
    BY <2>1 DEF Kids
  <2>3. Kids(e)' = {} /\ Later(e)' = {} /\ Kids(c)' = {e}
        /\ \A d \in 1..started : Later(d)' = Later(d) /\ (d # c => Kids(d)' = Kids(d))
    <3>1. Kids(e)' = {} /\ Later(e)' = {}
      BY StartsAmong
    <3>2. \A d \in 1..started :
                  /\ Kids(d)' = IF d = cur THEN Kids(d) \cup {e} ELSE Kids(d)
                  /\ Later(d)' = IF within[d] = cur THEN Later(d) \cup {e} ELSE Later(d)
      BY StartsAmong
    <3> QED
      BY <3>1, <3>2, <2>1, <2>2, <1>1, <1>2
  <2>4. IsFirst(child[e], Kids(e))' /\ IsFirst(next[e], Later(e))' /\ IsFirst(child[c], Kids(c))'
    BY <1>2, <1>4, <1>6, <2>3, ElementsAre DEF IsFirst
  <2>5. ASSUME NEW d \in 1..started
        PROVE  IsFirst(next[d], Later(d))' /\ (d # c => IsFirst(child[d], Kids(d))')
    BY <1>2, <1>3, <1>4, <1>6, <2>3 DEF Read, IsFirst
  <2>6. ASSUME NEW d \in 1..started'
        PROVE  parent'[d] = within'[d] /\ within'[d] < d /\ (within'[d] = NULL => d = 1)
    BY <1>2, <1>3, <1>6, <1>7, ElementsAre DEF Read
  <2>7. \A d \in Elements \ (1..started') : child'[d] = NULL /\ parent'[d] = NULL /\ prev'[d] = NULL /\ next'[d] = NULL
    BY <1>2, <1>3, <1>4, <1>6 DEF Read
  <2>8. alive' = 1..started' /\ misused' = FALSE /\ mas' = IF started' = 0 THEN NULL ELSE 1
    BY <1>2, <1>4, ElementsAre DEF NULL
  <2>9. \A d \in 1..started' : IsFirst(child[d], Kids(d))' /\ IsFirst(next[d], Later(d))'
    BY <1>2, <2>4, <2>5
  <2> QED
    BY <2>6, <2>7, <2>8, <2>9 DEF Read
<1> QED
  BY <1>2, <1>4, <1>5, <1>8, <1>9, <1>10
(* The last element that stands in another one. *)
LEMMA LastOfKids ==
    ASSUME XmlInv, phase = "parse", NEW c \in 1..started, child[c] # NULL, NEW l, l = LastChild(c)
    PROVE  /\ l \in 1..started /\ within[l] = c /\ next[l] = NULL /\ Later(l) = {}
           /\ \A d \in 1..started : within[d] = c /\ d # l => d < l /\ next[d] # NULL
<1>1. /\ XmlType /\ Ahead /\ Read /\ 1..started \subseteq Elements /\ started \in Nat
  <2>1. XmlType /\ Ahead /\ Read
    BY DEF XmlInv
  <2>2. started \in 0..MaxElements
    BY <2>1 DEF XmlType
  <2> QED
    BY <2>1, <2>2, XmlAssumption DEF Elements
<1>2. /\ IsFirst(child[c], Kids(c)) /\ Kids(c) \in SUBSET Elements /\ Kids(c) \subseteq 1..started
      /\ \A d \in Kids(c) : within[d] = c
  BY <1>1 DEF Read, Kids
<1>3. child[c] \in Kids(c)
  BY <1>2 DEF IsFirst
<1>4. ASSUME NEW d \in 1..started
      PROVE  /\ next[d] # NULL => next[d] \in Later(d)
             /\ next[d] = NULL => Later(d) = {}
  <2>1. IsFirst(next[d], Later(d)) /\ Later(d) \subseteq Elements
    BY <1>1 DEF Read, Later
  <2> QED
    BY <2>1, ElementsAre DEF IsFirst
<1>5. \A d \in Kids(c) : next[d] # NULL => next[d] \in Kids(c)
  BY <1>2, <1>4 DEF Kids, Later
<1>6. l \in Kids(c) /\ next[l] = NULL
  BY <1>1, <1>2, <1>3, <1>5, LastPeerOf DEF LastChild
<1>7. Later(l) = {}
  BY <1>2, <1>4, <1>6
<1>8. ASSUME NEW d \in 1..started, within[d] = c, d # l
      PROVE  d < l /\ next[d] # NULL
  <2>1. d \in Int /\ l \in Int /\ l \in 1..started /\ within[l] = c
    BY <1>2, <1>6
  <2>2. ~(d > l)
    BY <1>7, <1>8, <2>1 DEF Later
  <2>3. d < l
    BY <1>8, <2>1, <2>2
  <2>4. l \in Later(d)
    BY <1>8, <2>1, <2>3 DEF Later
  <2> QED
    BY <2>3, <2>4, <1>4
<1> QED
  BY <1>2, <1>6, <1>7, <1>8

(* An element that stands in another after the last that does. *)
LEMMA StartsPeer ==
    ASSUME XmlInv, NEW n \in Names, NEW k \in 0..MaxAttributes, fpStartElement(n, k),
           NEW e, e = started + 1, cur # NULL, child[cur] # NULL
    PROVE  Ahead' /\ Linked' /\ Read' /\ mas' \in {NULL, 1}
           /\ child' \in [Elements -> Pointer] /\ parent' \in [Elements -> Pointer]
           /\ prev' \in [Elements -> Pointer] /\ next' \in [Elements -> Pointer]
<1>1. PICK c : c = cur
  OBVIOUS
<1>2. /\ started # 0 /\ e \in Elements /\ e \notin 1..started /\ 1..started' = (1..started) \cup {e}
      /\ 1..started \subseteq Elements /\ c \in 1..started /\ c # e /\ alive' = alive \cup {e}
      /\ alive = 1..started /\ mas = 1 /\ started' = e /\ misused' = FALSE /\ phase = "parse"
  BY <1>1, Starts DEF Read
<1>3. XmlType /\ Ahead /\ Linked /\ Read
  BY Starts DEF XmlInv
<1>4. PICK l : l = LastChild(c)
  OBVIOUS
<1>5. /\ l \in 1..started /\ within[l] = c /\ next[l] = NULL /\ Later(l) = {} /\ l # e
      /\ \A d \in 1..started : within[d] = c /\ d # l => d < l /\ next[d] # NULL
  BY <1>1, <1>2, <1>4, LastOfKids
<1>6. parent[l] = c /\ l # mas
  <2>1. within[1] < 1 /\ within[1] \in Pointer
    BY <1>2, <1>3 DEF Read, XmlType, Elements
  <2>2. within[1] = NULL
    BY <2>1 DEF Pointer, Elements, NULL
  <2> QED
    BY <1>2, <1>3, <1>5, <2>2, <1>1 DEF Read
<1>7. /\ parent' = [parent EXCEPT ![e] = c] /\ prev' = [prev EXCEPT ![e] = l] /\ next' = [next EXCEPT ![l] = e]
      /\ mas' = mas /\ child' = child /\ within' = [within EXCEPT ![e] = c]
  <2>1. AddPeerElement(e, LastChild(cur)) /\ within' = [within EXCEPT ![e] = cur]
    BY Starts
  <2> QED
    BY <2>1, <1>1, <1>4, <1>6 DEF AddPeerElement
<1>8. /\ child' \in [Elements -> Pointer] /\ parent' \in [Elements -> Pointer]
      /\ prev' \in [Elements -> Pointer] /\ next' \in [Elements -> Pointer]
      /\ within \in [Elements -> Pointer]
  BY <1>2, <1>3, <1>5, <1>7, ElementsAre DEF XmlType
<1>9. /\ parent'[e] = c /\ within'[e] = c /\ prev'[e] = l /\ next'[l] = e
      /\ \A d \in Elements : d # e => parent'[d] = parent[d] /\ within'[d] = within[d] /\ prev'[d] = prev[d]
      /\ \A d \in Elements : d # l => next'[d] = next[d]
      /\ child[e] = NULL /\ prev[e] = NULL /\ next[e] = NULL
  <2>1. child[e] = NULL /\ prev[e] = NULL /\ next[e] = NULL
    BY Starts
  <2>2. l \in Elements
    BY <1>2, <1>5
  <2>3. /\ parent'[e] = c /\ within'[e] = c /\ prev'[e] = l
        /\ \A d \in Elements : d # e => parent'[d] = parent[d] /\ within'[d] = within[d] /\ prev'[d] = prev[d]
    BY <1>2, <1>3, <1>7, <1>8 DEF XmlType
  <2>4. next'[l] = e /\ \A d \in Elements : d # l => next'[d] = next[d]
    BY <2>2, <1>3, <1>7 DEF XmlType
  <2> QED
    BY <2>1, <2>3, <2>4
<1>10. e > l /\ e > c /\ \A d \in 1..started : d # e
  BY <1>2, <1>5 DEF Elements
<1>11. Ahead'
  BY <1>2, <1>3, <1>7, <1>9, <1>10 DEF Ahead
<1>12. Linked'
  <2>1. \A d \in alive : d # e /\ d \in Elements /\ child[d] # e /\ next[d] # e
    BY <1>2, <1>3, ElementsAre DEF Linked
  <2>2. ASSUME NEW d \in alive'
        PROVE  /\ child'[d] # NULL => child'[d] \in alive' /\ prev'[child'[d]] = NULL /\ parent'[child'[d]] = d
               /\ next'[d] # NULL => next'[d] \in alive' /\ prev'[next'[d]] = d
    <3>1. CASE d = e
      BY <1>2, <1>5, <1>7, <1>9, <3>1
    <3>2. CASE d # e
      <4>1. d \in alive /\ d \in Elements
        BY <1>2, <2>1, <3>2
      <4>2. child[d] # NULL => child[d] \in Elements /\ child[d] # e
        BY <2>1, <4>1, <1>3, <1>2 DEF Linked
      <4>3. child'[d] # NULL => child'[d] \in alive' /\ prev'[child'[d]] = NULL /\ parent'[child'[d]] = d
        BY <1>2, <1>3, <1>7, <1>9, <4>1, <4>2 DEF Linked
      <4>4. next[d] # NULL => next[d] \in Elements /\ next[d] # e
        BY <2>1, <4>1, <1>3, <1>2 DEF Linked
      <4>5. CASE d = l
        BY <4>3, <4>5, <1>9, <1>2
      <4>6. CASE d # l
        <5>1. next'[d] = next[d]
          BY <1>9, <4>1, <4>6
        <5> QED
          BY <5>1, <4>1, <4>3, <4>4, <1>2, <1>3, <1>9 DEF Linked
      <4> QED
        BY <4>5, <4>6
    <3> QED
      BY <3>1, <3>2
  <2>3. ASSUME NEW d \in alive', d # mas'
        PROVE  Hangs(d)'
    <3>1. CASE d = e
      <4>1. l # NULL
        BY <1>2, <1>5, ElementsAre
      <4> QED
        BY <1>2, <1>5, <1>9, <3>1, <4>1 DEF Hangs
    <3>2. CASE d # e
      <4>1. d \in alive /\ d \in Elements /\ Hangs(d)
        BY <1>2, <2>1, <3>2, <2>3, <1>3, <1>7 DEF Linked
      <4>2. CASE prev[d] # NULL
        <5>1. prev[d] \in alive /\ next[prev[d]] = d /\ prev'[d] = prev[d]
          BY <4>1, <4>2, <1>9, <3>2 DEF Hangs
        <5>2. prev[d] # l /\ prev[d] \in Elements
          BY <5>1, <1>5, <4>1, <1>2, ElementsAre
        <5> QED
          BY <5>1, <5>2, <4>2, <1>2, <1>9 DEF Hangs
      <4>3. CASE prev[d] = NULL
        <5>1. parent[d] \in alive /\ child[parent[d]] = d /\ parent'[d] = parent[d] /\ prev'[d] = NULL
          BY <4>1, <4>3, <1>9, <3>2 DEF Hangs
        <5> QED
          BY <5>1, <1>2, <1>7 DEF Hangs
      <4> QED
        BY <4>2, <4>3
    <3> QED
      BY <3>1, <3>2
  <2>4. mas' # NULL /\ mas' \in alive' /\ next'[mas'] = NULL
    BY <1>2, <1>3, <1>6, <1>7, <1>9 DEF Linked, NULL
  <2> QED
    BY <2>2, <2>3, <2>4 DEF Linked
<1>13. Read'
  <2>1. Kids(e)' = {} /\ Later(e)' = {}
        /\ \A d \in 1..started :
                  /\ Kids(d)' = IF d = c THEN Kids(d) \cup {e} ELSE Kids(d)
                  /\ Later(d)' = IF within[d] = c THEN Later(d) \cup {e} ELSE Later(d)
    <3>1. Kids(e)' = {} /\ Later(e)' = {}
      BY StartsAmong
    <3>2. \A d \in 1..started :
                  /\ Kids(d)' = IF d = cur THEN Kids(d) \cup {e} ELSE Kids(d)
                  /\ Later(d)' = IF within[d] = cur THEN Later(d) \cup {e} ELSE Later(d)
      BY StartsAmong
    <3> QED
      BY <3>1, <3>2, <1>1
  <2>2. next'[e] = NULL /\ child'[e] = NULL
    BY <1>2, <1>5, <1>7, <1>9
  <2>3. IsFirst(child[e], Kids(e))' /\ IsFirst(next[e], Later(e))'
    BY <2>1, <2>2 DEF IsFirst
  <2>4. \A d \in 1..started : d <= e
    BY <1>2 DEF Elements
  <2>5. ASSUME NEW d \in 1..started
        PROVE  IsFirst(child[d], Kids(d))'
    <3>1. IsFirst(child[d], Kids(d)) /\ Kids(d) \subseteq 1..started
      BY <1>3 DEF Read, Kids
    <3>2. CASE d = c
      <4>1. child[d] # NULL /\ child[d] \in Kids(d) /\ Kids(d) # {}
        BY <1>1, <3>1, <3>2 DEF IsFirst
      <4>2. child[d] <= e
        BY <4>1, <3>1, <2>4
      <4> QED
        BY <4>1, <4>2, <3>1, <3>2, <2>1, <1>7 DEF IsFirst
    <3>3. CASE d # c
      BY <3>1, <3>3, <2>1, <1>7 DEF IsFirst
    <3> QED
      BY <3>2, <3>3
  <2>6. ASSUME NEW d \in 1..started
        PROVE  IsFirst(next[d], Later(d))'
    <3>1. IsFirst(next[d], Later(d)) /\ Later(d) \subseteq 1..started /\ d \in Elements
      BY <1>2, <1>3 DEF Read, Later
    <3>2. CASE d = l
      <4>1. Later(d)' = {e} /\ next'[d] = e /\ e \in Int
        BY <1>2, <1>5, <1>9, <2>1, <3>2 DEF Elements
      <4> QED
        BY <4>1 DEF IsFirst
    <3>3. CASE d # l /\ within[d] = c
      <4>1. next[d] # NULL /\ next[d] \in Later(d) /\ Later(d) # {} /\ next'[d] = next[d]
        BY <1>5, <1>9, <3>1, <3>3 DEF IsFirst
      <4>2. next[d] <= e
        BY <4>1, <3>1, <2>4
      <4> QED
        BY <4>1, <4>2, <3>1, <3>3, <2>1 DEF IsFirst
    <3>4. CASE d # l /\ within[d] # c
      BY <3>1, <3>4, <2>1, <1>9 DEF IsFirst
    <3> QED
      BY <3>2, <3>3, <3>4
  <2>7. ASSUME NEW d \in 1..started'
        PROVE  parent'[d] = within'[d] /\ within'[d] < d /\ (within'[d] = NULL => d = 1)
    BY <1>2, <1>3, <1>9, <1>10, ElementsAre DEF Read
  <2>8. \A d \in Elements \ (1..started') : child'[d] = NULL /\ parent'[d] = NULL /\ prev'[d] = NULL /\ next'[d] = NULL
    BY <1>2, <1>3, <1>5, <1>7, <1>9 DEF Read
  <2>9. alive' = 1..started' /\ misused' = FALSE /\ mas' = IF started' = 0 THEN NULL ELSE 1
    BY <1>2, <1>7, ElementsAre DEF NULL
  <2>10. \A d \in 1..started' : IsFirst(child[d], Kids(d))' /\ IsFirst(next[d], Later(d))'
    BY <1>2, <2>3, <2>5, <2>6
  <2> QED
    BY <2>7, <2>8, <2>9, <2>10 DEF Read
<1> QED
  BY <1>2, <1>7, <1>8, <1>11, <1>12, <1>13
LEMMA StartKeeps ==
    ASSUME XmlInv, NEW n \in Names, NEW k \in 0..MaxAttributes, fpStartElement(n, k)
    PROVE  XmlInv'
<1>1. PICK e : e = started + 1
  OBVIOUS
<1>2. /\ phase' = "parse" /\ e \in Elements /\ started' = e /\ 1..started' = (1..started) \cup {e}
      /\ 1..started \subseteq Elements /\ alive' = alive \cup {e} /\ valued' = valued /\ misused' = FALSE
      /\ cur \in (1..started) \cup {NULL} /\ e \notin 1..started /\ cur' = e /\ open' = Append(open, e)
      /\ within' = [within EXCEPT ![e] = cur] /\ name' = [name EXCEPT ![e] = n]
      /\ attributes' = [attributes EXCEPT ![e] = k]
  <2>1. /\ phase' = "parse" /\ e \in Elements /\ started' = e /\ 1..started' = (1..started) \cup {e}
        /\ 1..started \subseteq Elements /\ alive' = alive \cup {e} /\ valued' = valued /\ misused' = FALSE
        /\ cur \in (1..started) \cup {NULL} /\ e \notin 1..started
    BY <1>1, Starts
  <2>2. open' = Append(open, e) /\ name' = [name EXCEPT ![e] = n]
        /\ attributes' = [attributes EXCEPT ![e] = k]
    BY <1>1 DEF fpStartElement
  <2>3. cur' = e /\ within' = [within EXCEPT ![e] = cur]
    BY <1>1, Starts
  <2> QED
    BY <2>1, <2>2, <2>3
<1>3. Ahead' /\ Linked' /\ Read' /\ mas' \in {NULL, 1}
           /\ child' \in [Elements -> Pointer] /\ parent' \in [Elements -> Pointer]
           /\ prev' \in [Elements -> Pointer] /\ next' \in [Elements -> Pointer]
  BY <1>1, StartsTop, StartsChild, StartsPeer
<1>4. XmlType /\ Opened
  BY Starts DEF XmlInv
<1>5. open' \in Seq(Elements)
  BY <1>2, <1>4 DEF XmlType
<1>6. /\ cur' \in Pointer /\ started' \in 0..MaxElements
      /\ within' \in [Elements -> Pointer] /\ name' \in [Elements -> Names]
      /\ attributes' \in [Elements -> 0..MaxAttributes]
  BY <1>2, <1>4, ElementsAre, XmlAssumption DEF XmlType, Elements, Pointer
<1>7. XmlType'
  BY <1>2, <1>3, <1>4, <1>5, <1>6 DEF XmlType
<1>8. Opened'
  <2>1. /\ open \in Seq(Elements) /\ Len(open) \in Nat /\ Len(open') = Len(open) + 1
        /\ open'[Len(open) + 1] = e /\ \A i \in 1..Len(open) : open'[i] = open[i]
    BY <1>2, <1>4 DEF XmlType
  <2>2. within'[e] = cur /\ \A d \in 1..started : within'[d] = within[d]
    BY <1>2, <1>4 DEF XmlType
  <2>3. ASSUME NEW i \in 1..Len(open)
        PROVE  open'[i] \in 1..started' /\ within'[open'[i]] = IF i = 1 THEN NULL ELSE open'[i - 1]
    <3>1. open[i] \in 1..started /\ within[open[i]] = IF i = 1 THEN NULL ELSE open[i - 1]
      BY <1>4 DEF Opened
    <3>2. i # 1 => open'[i - 1] = open[i - 1]
      BY <2>1
    <3> QED
      BY <3>1, <3>2, <2>1, <2>2, <1>2
  <2>4. within'[e] = IF Len(open) + 1 = 1 THEN NULL ELSE open'[Len(open) + 1 - 1]
    BY <2>1, <2>2, <1>4 DEF Opened
  <2>5. \A i \in 1..Len(open') : open'[i] \in 1..started' /\ within'[open'[i]] = IF i = 1 THEN NULL ELSE open'[i - 1]
    <3> TAKE i \in 1..Len(open')
    <3>1. i \in 1..Len(open) \/ i = Len(open) + 1
      BY <2>1
    <3> QED
      BY <3>1, <2>1, <2>3, <2>4, <1>2
  <2>6. cur' = IF Len(open') = 0 THEN NULL ELSE open'[Len(open')]
    BY <1>2, <2>1
  <2> QED
    BY <2>5, <2>6 DEF Opened
<1> QED
  BY <1>2, <1>3, <1>7, <1>8 DEF XmlInv

(* Nothing but phase, valued, open and cur changes. *)
LEMMA PointersStay ==
    ASSUME XmlInv, UNCHANGED <<started, within, name, attributes, child, parent, prev, next, mas, alive, misused>>
    PROVE  /\ Ahead' /\ Linked' /\ (Read => Read')
           /\ open' \in Seq(Elements) /\ cur' \in Pointer /\ phase' \in {"parse", "clear", "gone"}
              /\ valued' \subseteq alive => XmlType'
<1> USE DEF XmlInv
<1>1. Ahead'
  BY DEF Ahead
<1>2. Linked'
  BY DEF Linked, Hangs
<1>3. Read => Read'
  BY DEF Read, Kids, Later, IsFirst
<1>4. open' \in Seq(Elements) /\ cur' \in Pointer /\ phase' \in {"parse", "clear", "gone"}
              /\ valued' \subseteq alive => XmlType'
  BY DEF XmlType
<1> QED
  BY <1>1, <1>2, <1>3, <1>4

LEMMA EndKeeps == XmlInv /\ fpEndElement => XmlInv'
<1> SUFFICES ASSUME XmlInv, fpEndElement PROVE XmlInv'
  OBVIOUS
<1>1. /\ phase = "parse" /\ phase' = phase /\ XmlType /\ Read /\ Opened /\ valued' = valued
      /\ UNCHANGED <<started, within, name, attributes, child, parent, prev, next, mas, alive, misused>>
      /\ Len(open) > 0 /\ open' = SubSeq(open, 1, Len(open) - 1) /\ cur' = parent[cur]
  BY DEF XmlInv, fpEndElement, iDepth
<1>2. /\ open \in Seq(Elements) /\ Len(open) \in Nat /\ open' \in Seq(Elements) /\ Len(open') = Len(open) - 1
      /\ \A i \in 1..Len(open') : open'[i] = open[i]
  <2>1. open \in Seq(Elements) /\ Len(open) \in Nat /\ Len(open) - 1 \in 0..Len(open)
    BY <1>1 DEF XmlType
  <2>2. \A i \in 1..(Len(open) - 1) : open[i] \in Elements
    BY <2>1
  <2>3. open' = [i \in 1..(Len(open) - 1) |-> open[i]]
    BY <1>1, <2>1
  <2>4. PICK k \in Nat : k = Len(open) - 1
    BY <1>1, <2>1
  <2>5. open' = [i \in 1..k |-> open[i]] /\ \A i \in 1..k : open[i] \in Elements
    BY <2>2, <2>3, <2>4
  <2>6. open' \in Seq(Elements) /\ Len(open') = k
    BY <2>5
  <2> QED
    BY <2>1, <2>4, <2>5, <2>6
<1>3. open[Len(open)] \in 1..started /\ cur = open[Len(open)]
      /\ within[cur] = IF Len(open) = 1 THEN NULL ELSE open[Len(open) - 1]
  BY <1>1, <1>2, ElementsAre DEF Opened
<1>4. cur' = IF Len(open) = 1 THEN NULL ELSE open[Len(open) - 1]
  BY <1>1, <1>3 DEF Read
<1>5. Opened'
  <2>1. cur' = IF Len(open') = 0 THEN NULL ELSE open'[Len(open')]
    BY <1>2, <1>1, <1>4
  <2>2. ASSUME NEW i \in 1..Len(open')
        PROVE  open'[i] \in 1..started' /\ within'[open'[i]] = IF i = 1 THEN NULL ELSE open'[i - 1]
    <3>1. i \in 1..Len(open) /\ open'[i] = open[i] /\ (i # 1 => open'[i - 1] = open[i - 1])
      BY <1>1, <1>2
    <3> QED
      BY <3>1, <1>1 DEF Opened
  <2> QED
    BY <2>1, <2>2 DEF Opened
<1>6. cur' \in Pointer
  BY <1>2, <1>1, <1>4, ElementsAre DEF Pointer
<1>7. Ahead' /\ Linked' /\ Read' /\ XmlType'
  BY <1>1, <1>2, <1>6, PointersStay DEF XmlType
<1> QED
  BY <1>1, <1>5, <1>7 DEF XmlInv, Read

LEMMA TextKeeps == XmlInv /\ fpDefaultElementHandler => XmlInv'
<1> SUFFICES ASSUME XmlInv, fpDefaultElementHandler PROVE XmlInv'
  OBVIOUS
<1>1. /\ phase = "parse" /\ phase' = phase /\ XmlType /\ Read /\ Opened /\ valued' = valued \cup {cur}
      /\ UNCHANGED <<started, within, name, attributes, child, parent, prev, next, mas, alive, misused>>
      /\ Len(open) > 1 /\ open' = open /\ cur' = cur
  BY DEF XmlInv, fpDefaultElementHandler, iDepth, xmlDoc, xmlLinks
<1>2. cur \in alive
  <2>1. Len(open) \in Nat
    BY <1>1 DEF XmlType
  <2> QED
    BY <1>1, <2>1 DEF Opened, Read
<1>3. Opened'
  BY <1>1 DEF Opened
<1>4. open \in Seq(Elements) /\ cur \in Pointer /\ valued \subseteq alive /\ phase \in {"parse", "clear", "gone"}
  BY <1>1 DEF XmlType
<1>5. Ahead' /\ Linked' /\ Read' /\ XmlType'
  BY <1>1, <1>2, <1>4, PointersStay
<1> QED
  BY <1>1, <1>3, <1>5 DEF XmlInv, Read

LEMMA ParsedKeeps == XmlInv /\ ParserXml => XmlInv'
<1> SUFFICES ASSUME XmlInv, ParserXml PROVE XmlInv'
  OBVIOUS
<1>1. /\ phase = "parse" /\ phase' = "clear" /\ XmlType /\ Read /\ valued' = valued
      /\ UNCHANGED <<started, within, name, attributes, child, parent, prev, next, mas, alive, misused>>
      /\ open' = open /\ cur' = cur
  BY DEF XmlInv, ParserXml, xmlDoc, xmlLinks
<1>2. open \in Seq(Elements) /\ cur \in Pointer /\ valued \subseteq alive
  BY <1>1 DEF XmlType
<1>3. Ahead' /\ Linked' /\ XmlType'
  BY <1>1, <1>2, PointersStay
<1> QED
  BY <1>1, <1>3 DEF XmlInv, Read

(* The last element hangs on one pointer, which is the one that is freed. *)
LEMMA ClearElementKeeps == XmlInv /\ ClearElement => XmlInv'
<1> SUFFICES ASSUME XmlInv, ClearElement PROVE XmlInv'
  OBVIOUS
<1>1. /\ XmlType /\ Ahead /\ Linked /\ phase = "clear" /\ phase' = "clear" /\ misused = FALSE
      /\ UNCHANGED <<started, within, name, attributes, open, parent, prev, cur, mas>>
      /\ mas # NULL /\ child[mas] # NULL
  BY DEF XmlInv, XmlType, ClearElement, HasChild, xmlDoc
<1>2. PICK e : e = GetLastElement[mas]
  OBVIOUS
<1>3. e \in alive /\ e # mas /\ child[e] = NULL /\ next[e] = NULL
  BY <1>1, <1>2, LastElementOf
<1>4. Unlink(e) /\ valued' = valued \ {e}
  BY <1>2 DEF ClearElement
<1>5. Hangs(e) /\ alive \subseteq Elements
  BY <1>1, <1>3 DEF Linked, XmlType
<1>6. /\ alive' = alive \ {e} /\ misused' = misused
      /\ child' \in [Elements -> Pointer] /\ next' \in [Elements -> Pointer]
      /\ \A d \in Elements : (child'[d] = child[d] \/ child'[d] = NULL) /\ (next'[d] = next[d] \/ next'[d] = NULL)
      /\ \A d \in alive : (child[d] # e => child'[d] = child[d]) /\ (next[d] # e => next'[d] = next[d])
      /\ prev[e] # NULL => next'[prev[e]] = NULL
      /\ prev[e] = NULL => child'[parent[e]] = NULL
  <2>0. child \in [Elements -> Pointer] /\ next \in [Elements -> Pointer] /\ NULL \in Pointer
    BY <1>1 DEF XmlType, Pointer
  <2>1. CASE prev[e] # NULL
    <3>1. PICK p : p = prev[e]
      OBVIOUS
    <3>2. p \in Elements /\ next[p] = e
      BY <1>5, <2>1, <3>1 DEF Hangs
    <3>3. MEM_CLEAN(e) /\ next' = [next EXCEPT ![p] = NULL] /\ child' = child
      BY <1>4, <2>1, <3>1, <3>2 DEF Unlink
    <3>4. alive' = alive \ {e} /\ misused' = misused
      BY <1>1, <1>3, <3>3 DEF MEM_CLEAN
    <3> QED
      BY <2>0, <2>1, <1>5, <3>1, <3>2, <3>3, <3>4
  <2>2. CASE prev[e] = NULL
    <3>1. PICK p : p = parent[e]
      OBVIOUS
    <3>2. p \in Elements /\ child[p] = e
      BY <1>5, <2>2, <3>1 DEF Hangs
    <3>3. MEM_CLEAN(e) /\ child' = [child EXCEPT ![p] = NULL] /\ next' = next
      BY <1>4, <2>2, <3>1, <3>2 DEF Unlink
    <3>4. alive' = alive \ {e} /\ misused' = misused
      BY <1>1, <1>3, <3>3 DEF MEM_CLEAN
    <3> QED
      BY <2>0, <2>2, <1>5, <3>1, <3>2, <3>3, <3>4
  <2> QED
    BY <2>1, <2>2
<1>7. Ahead'
  BY <1>1, <1>6 DEF Ahead
<1>8. Linked'
  <2>1. ASSUME NEW d \in alive'
        PROVE  /\ child'[d] # NULL => child'[d] \in alive' /\ prev'[child'[d]] = NULL /\ parent'[child'[d]] = d
               /\ next'[d] # NULL => next'[d] \in alive' /\ prev'[next'[d]] = d
    <3>1. d \in alive /\ d \in Elements /\ d # e /\ d # NULL
      BY <1>5, <1>6, ElementsAre
    <3>2. /\ child[d] # NULL => child[d] \in alive /\ prev[child[d]] = NULL /\ parent[child[d]] = d
          /\ next[d] # NULL => next[d] \in alive /\ prev[next[d]] = d
      BY <1>1, <3>1 DEF Linked
    <3>3. e # NULL
      BY <1>3, <1>5, ElementsAre
    <3>4. child'[d] # NULL => child[d] # e /\ child'[d] = child[d]
      BY <1>6, <3>1, <3>2, <3>3
    <3>5. next'[d] # NULL => next[d] # e /\ next'[d] = next[d]
      BY <1>6, <3>1, <3>2, <3>3
    <3> QED
      BY <1>1, <1>6, <3>2, <3>4, <3>5
  <2>2. ASSUME NEW d \in alive', d # mas'
        PROVE  Hangs(d)'
    <3>1. d \in alive /\ d # e /\ Hangs(d) /\ d # NULL
      BY <1>1, <1>5, <1>6, <2>2, ElementsAre DEF Linked
    <3>2. CASE prev[d] # NULL
      <4>1. prev[d] \in alive /\ next[prev[d]] = d /\ prev[d] # e
        BY <1>3, <3>1, <3>2 DEF Hangs
      <4> QED
        BY <1>1, <1>6, <3>1, <3>2, <4>1 DEF Hangs
    <3>3. CASE prev[d] = NULL
      <4>1. parent[d] \in alive /\ child[parent[d]] = d /\ parent[d] # e
        BY <1>3, <3>1, <3>3 DEF Hangs
      <4> QED
        BY <1>1, <1>6, <3>1, <3>3, <4>1 DEF Hangs
    <3> QED
      BY <3>2, <3>3
  <2>3. mas' # NULL /\ mas' \in alive' /\ next'[mas'] = NULL
    BY <1>1, <1>3, <1>5, <1>6 DEF Linked
  <2> QED
    BY <2>1, <2>2, <2>3 DEF Linked
<1>9. XmlType'
  BY <1>1, <1>4, <1>6 DEF XmlType
<1> QED
  BY <1>1, <1>6, <1>7, <1>8, <1>9 DEF XmlInv

(* When the top has no child left, it is the last that is allocated: the   *)
(* least of the others would hang on the top.                              *)
LEMMA ClearMasterKeeps == XmlInv /\ ClearMaster => XmlInv' /\ alive' = {}
<1> SUFFICES ASSUME XmlInv, ClearMaster PROVE XmlInv' /\ alive' = {}
  OBVIOUS
<1>1. /\ XmlType /\ Ahead /\ Linked /\ phase = "clear" /\ phase' = "gone" /\ misused = FALSE
      /\ UNCHANGED <<started, within, name, attributes, open, child, parent, prev, next, cur>>
      /\ mas' = NULL /\ alive' = alive \ {mas} /\ valued' = valued \ {mas}
      /\ mas # NULL => child[mas] = NULL
      /\ misused' => mas # NULL /\ AttributesMisused(mas)
  <2>1. XmlType /\ Ahead /\ Linked /\ phase = "clear" /\ misused = FALSE
    BY DEF XmlInv, ClearMaster
  <2>2. /\ phase' = "gone"
        /\ UNCHANGED <<started, within, name, attributes, open, child, parent, prev, next, cur>>
        /\ mas' = NULL /\ alive' = alive \ {mas} /\ valued' = valued \ {mas}
        /\ mas # NULL => child[mas] = NULL
    BY DEF ClearMaster, HasChild, xmlDoc
  <2>3. misused' => mas # NULL /\ AttributesMisused(mas)
    BY <2>1 DEF ClearMaster
  <2> QED
    BY <2>1, <2>2, <2>3
<1>2. alive' = {}
  <2>1. CASE mas = NULL
    BY <1>1, <2>1 DEF Linked
  <2>2. CASE mas # NULL
    <3>1. SUFFICES ASSUME alive \ {mas} # {} PROVE FALSE
      BY <1>1
    <3>2. alive \ {mas} \in SUBSET Nat /\ alive \subseteq Elements /\ next[mas] = NULL
      BY <1>1, <2>2, ElementsAre DEF XmlType, Linked
    <3>3. PICK m \in alive \ {mas} : \A d \in alive \ {mas} : m <= d
      BY <3>1, <3>2, MinOf
    <3>4. m \in alive /\ m # mas /\ Hangs(m) /\ m # NULL
      BY <1>1, <3>2, <3>3, ElementsAre DEF Linked
    <3>5. PICK p \in alive : next[p] = m \/ child[p] = m
      BY <3>4 DEF Hangs
    <3>6. m > p
      BY <1>1, <3>2, <3>4, <3>5 DEF Ahead
    <3>7. p = mas
      <4>1. m \in Int /\ p \in Int
        BY <3>2, <3>4, <3>5, ElementsAre
      <4> QED
        BY <3>3, <3>5, <3>6, <4>1
    <3> QED
      BY <1>1, <2>2, <3>2, <3>4, <3>5, <3>7
  <2> QED
    BY <2>1, <2>2
<1>3. XmlType' /\ Ahead' /\ Linked'
  <2>1. XmlType'
    BY <1>1, <1>2 DEF XmlType, NULL
  <2> QED
    BY <1>1, <1>2, <2>1 DEF Ahead, Linked
<1>4. misused' => attributes'[1] >= 2
  BY <1>1 DEF AttributesMisused, XmlType
<1> QED
  BY <1>1, <1>2, <1>3, <1>4 DEF XmlInv

LEMMA XmlStepInv == XmlInv /\ [XmlNext]_xmlVars => XmlInv'
<1> SUFFICES ASSUME XmlInv, [XmlNext]_xmlVars PROVE XmlInv'
  OBVIOUS
<1>1. ASSUME UNCHANGED xmlVars PROVE XmlInv'
  <2>1. /\ UNCHANGED <<started, within, name, attributes, child, parent, prev, next, mas, alive, misused>>
        /\ UNCHANGED <<phase, open, cur, valued>>
    BY <1>1 DEF xmlVars, xmlDoc, xmlLinks
  <2>2. XmlType /\ (phase = "parse" => Read /\ Opened)
    BY DEF XmlInv
  <2>3. Ahead' /\ Linked' /\ (Read => Read') /\ XmlType'
    BY <2>1, <2>2, PointersStay DEF XmlType
  <2>4. Opened => Opened'
    BY <2>1 DEF Opened
  <2> QED
    BY <2>1, <2>2, <2>3, <2>4 DEF XmlInv
<1>2. ASSUME XmlNext PROVE XmlInv'
  <2>1. CASE \E n \in Names, k \in 0..MaxAttributes : fpStartElement(n, k)
    BY <2>1, StartKeeps
  <2>2. CASE ~(\E n \in Names, k \in 0..MaxAttributes : fpStartElement(n, k))
    BY <1>2, <2>2, EndKeeps, TextKeeps, ParsedKeeps, ClearElementKeeps, ClearMasterKeeps DEF XmlNext, ClearBuffer
  <2> QED
    BY <2>1, <2>2
<1> QED
  BY <1>1, <1>2

(* XmlInv holds of every document: the pointers are those of a tree whose  *)
(* elements come one after the other, and while it is read they are those  *)
(* of the document.                                                        *)
THEOREM TreeInvariant == XmlSpec => []XmlInv
<1> QED
  BY XmlInitInv, XmlStepInv, PTL DEF XmlSpec
(* FreedOnce of XmlTree: ClearBuffer frees everything once. *)
THEOREM ElementsFreedOnce == XmlSpec => []FreedOnce
<1>1. XmlInv => FreedOnce
  <2> SUFFICES ASSUME XmlInv PROVE FreedOnce
    OBVIOUS
  <2>1. phase = "gone" => alive = {} /\ valued = {}
    BY DEF XmlInv, XmlType, Linked
  <2> QED
    BY <2>1 DEF XmlInv, FreedOnce
<1> QED
  BY <1>1, TreeInvariant, PTL

-----------------------------------------------------------------------------
(* What is found along a chain of peers. *)

LEMMA TotalNamedIs ==
    ASSUME XmlType, Ahead
    PROVE  \A n \in Names :
               /\ TotalNamed[NULL][n] = 0
               /\ \A e \in Elements :
                      TotalNamed[e][n] = (IF name[e] = n THEN 1 ELSE 0) + TotalNamed[next[e]][n]
<1> DEFINE V == [Names -> Nat]
           v0 == [n \in Names |-> 0]
           h == [e \in Elements |-> [v \in V |-> [n \in Names |-> (IF name[e] = n THEN 1 ELSE 0) + v[n]]]]
<1>1. v0 \in V /\ h \in [Elements -> [V -> V]]
  OBVIOUS
<1>2. next \in [Elements -> Pointer] /\ \A e \in Elements : next[e] = NULL \/ next[e] > e
  BY DEF XmlType, Ahead
<1>3. Defined(V, v0, h, next)
  <2>1. PICK g : g = next
    OBVIOUS
  <2> HIDE DEF V, v0, h
  <2>2. Defined(V, v0, h, g)
    BY <1>1, <1>2, <2>1, Recursion
  <2> QED
    BY <2>1, <2>2
<1>4. PICK f \in [Pointer -> V] : f[NULL] = v0 /\ \A e \in Elements : f[e] = h[e][f[next[e]]]
  BY <1>3, Zenon DEF Defined
<1> DEFINE F(g) == [e \in Pointer |-> [n \in Names |-> IF e = NULL THEN 0
                     ELSE (IF name[e] = n THEN 1 ELSE 0) + g[next[e]][n]]]
<1>5. ASSUME NEW e \in Pointer
      PROVE  f[e] = [n \in Names |-> IF e = NULL THEN 0
                     ELSE (IF name[e] = n THEN 1 ELSE 0) + f[next[e]][n]]
  <2>1. CASE e = NULL
    BY <1>4, <2>1
  <2>2. CASE e # NULL
    <3>1. e \in Elements /\ f[next[e]] \in V
      BY <1>2, <1>4, <2>2 DEF Pointer
    <3> QED
      BY <1>4, <2>2, <3>1
  <2> QED
    BY <2>1, <2>2
<1>6. f = F(f)
  BY <1>4, <1>5
<1>7. TotalNamed = F(TotalNamed)
  <2>1. \E g : g = F(g)
    BY <1>6
  <2> QED
    BY <2>1, Zenon DEF TotalNamed
<1> HIDE DEF V, v0, h
<1>8. NULL \in Pointer /\ \A e \in Elements : e \in Pointer /\ e # NULL
  BY ElementsAre DEF Pointer
<1>9. \A e \in Pointer : TotalNamed[e] = [n \in Names |-> IF e = NULL THEN 0
                     ELSE (IF name[e] = n THEN 1 ELSE 0) + TotalNamed[next[e]][n]]
  BY <1>7, Zenon
<1>10. ASSUME NEW e \in Pointer, NEW n \in Names
       PROVE  TotalNamed[e][n] = IF e = NULL THEN 0 ELSE (IF name[e] = n THEN 1 ELSE 0) + TotalNamed[next[e]][n]
  <2>1. TotalNamed[e] = [m \in Names |-> IF e = NULL THEN 0
                            ELSE (IF name[e] = m THEN 1 ELSE 0) + TotalNamed[next[e]][m]]
    BY <1>9, Zenon
  <2> QED
    BY <2>1, Zenon
<1> QED
  BY <1>8, <1>10, Zenon

LEMMA FirstNamedIs ==
    ASSUME XmlType, Ahead
    PROVE  \A n \in Names :
               /\ FirstNamed[NULL][n] = NULL
               /\ \A e \in Elements :
                      FirstNamed[e][n] = IF name[e] = n THEN e ELSE FirstNamed[next[e]][n]
<1> DEFINE V == [Names -> Pointer]
           v0 == [n \in Names |-> NULL]
           h == [e \in Elements |-> [v \in V |-> [n \in Names |-> IF name[e] = n THEN e ELSE v[n]]]]
<1>1. v0 \in V /\ h \in [Elements -> [V -> V]]
  BY ElementsAre DEF Pointer
<1>2. next \in [Elements -> Pointer] /\ \A e \in Elements : next[e] = NULL \/ next[e] > e
  BY DEF XmlType, Ahead
<1>3. Defined(V, v0, h, next)
  <2>1. PICK g : g = next
    OBVIOUS
  <2> HIDE DEF V, v0, h
  <2>2. Defined(V, v0, h, g)
    BY <1>1, <1>2, <2>1, Recursion
  <2> QED
    BY <2>1, <2>2
<1>4. PICK f \in [Pointer -> V] : f[NULL] = v0 /\ \A e \in Elements : f[e] = h[e][f[next[e]]]
  BY <1>3, Zenon DEF Defined
<1> DEFINE F(g) == [e \in Pointer |-> [n \in Names |-> IF e = NULL THEN NULL
                     ELSE IF name[e] = n THEN e ELSE g[next[e]][n]]]
<1>5. ASSUME NEW e \in Pointer
      PROVE  f[e] = [n \in Names |-> IF e = NULL THEN NULL
                     ELSE IF name[e] = n THEN e ELSE f[next[e]][n]]
  <2>1. CASE e = NULL
    BY <1>4, <2>1
  <2>2. CASE e # NULL
    <3>1. e \in Elements /\ f[next[e]] \in V
      BY <1>2, <1>4, <2>2 DEF Pointer
    <3> QED
      BY <1>4, <2>2, <3>1
  <2> QED
    BY <2>1, <2>2
<1>6. f = F(f)
  BY <1>4, <1>5
<1>7. FirstNamed = F(FirstNamed)
  <2>1. \E g : g = F(g)
    BY <1>6
  <2> QED
    BY <2>1, Zenon DEF FirstNamed
<1> HIDE DEF V, v0, h
<1>8. NULL \in Pointer /\ \A e \in Elements : e \in Pointer /\ e # NULL
  BY ElementsAre DEF Pointer
<1>9. \A e \in Pointer : FirstNamed[e] = [n \in Names |-> IF e = NULL THEN NULL
                     ELSE IF name[e] = n THEN e ELSE FirstNamed[next[e]][n]]
  BY <1>7, Zenon
<1>10. ASSUME NEW e \in Pointer, NEW n \in Names
       PROVE  FirstNamed[e][n] = IF e = NULL THEN NULL ELSE IF name[e] = n THEN e ELSE FirstNamed[next[e]][n]
  <2>1. FirstNamed[e] = [m \in Names |-> IF e = NULL THEN NULL
                            ELSE IF name[e] = m THEN e ELSE FirstNamed[next[e]][m]]
    BY <1>9, Zenon
  <2> QED
    BY <2>1, Zenon
<1> QED
  BY <1>8, <1>10, Zenon

(* The peers of a name from an element on, which are those of their parent. *)
Rest(e, n) == {d \in 1..started : within[d] = within[e] /\ d >= e /\ name[d] = n}

LEMMA RestOfPeers ==
    ASSUME XmlType, Read, NEW e \in 1..started, NEW n \in Names
    PROVE  /\ next[e] = NULL => Rest(e, n) = IF name[e] = n THEN {e} ELSE {}
           /\ next[e] # NULL =>
                  /\ next[e] \in 1..started /\ next[e] > e
                  /\ Rest(e, n) = IF name[e] = n THEN Rest(next[e], n) \cup {e} ELSE Rest(next[e], n)
<1>1. e \in Int /\ IsFirst(next[e], Later(e)) /\ 1..started \subseteq Elements
  BY XmlAssumption DEF XmlType, Read, Elements
<1>2. CASE next[e] = NULL
  <2>1. Later(e) = {}
    BY <1>1, <1>2, ElementsAre DEF IsFirst, Later
  <2>2. \A d \in Rest(e, n) : d = e
    BY <1>1, <2>1 DEF Rest, Later
  <2> QED
    BY <1>1, <1>2, <2>2 DEF Rest
<1>3. CASE next[e] # NULL
  <2>1. PICK f : f = next[e]
    OBVIOUS
  <2>2. f \in 1..started /\ within[f] = within[e] /\ f > e /\ \A d \in Later(e) : f <= d
    BY <1>1, <1>3, <2>1 DEF IsFirst, Later
  <2>3. \A d \in 1..started : d \in Rest(e, n) <=> d \in Rest(f, n) \/ (d = e /\ name[e] = n)
    <3> TAKE d \in 1..started
    <3>1. d \in Int /\ f \in Int
      BY <2>2
    <3> QED
      BY <1>1, <2>2, <3>1 DEF Rest, Later
  <2>4. Rest(e, n) \subseteq 1..started /\ Rest(f, n) \subseteq 1..started
    BY DEF Rest
  <2>5. Rest(e, n) = IF name[e] = n THEN Rest(f, n) \cup {e} ELSE Rest(f, n)
    BY <2>3, <2>4
  <2> QED
    BY <1>3, <2>1, <2>2, <2>5
<1> QED
  BY <1>2, <1>3

LEMMA FoundAmongPeers ==
    ASSUME XmlType, Ahead, Read
    PROVE  \A e \in 1..started, n \in Names :
               /\ TotalNamed[e][n] = Cardinality(Rest(e, n)) /\ IsFiniteSet(Rest(e, n))
               /\ IsFirst(FirstNamed[e][n], Rest(e, n))
<1> DEFINE Right(e) == \A n \in Names :
               /\ TotalNamed[e][n] = Cardinality(Rest(e, n)) /\ IsFiniteSet(Rest(e, n))
               /\ IsFirst(FirstNamed[e][n], Rest(e, n))
           S == {e \in Elements : e \in 1..started => Right(e)}
<1>1. ASSUME NEW e \in Elements, \A d \in Elements : d > e => d \in S
      PROVE  e \in S
  <2> SUFFICES ASSUME e \in 1..started, NEW n \in Names
               PROVE  /\ TotalNamed[e][n] = Cardinality(Rest(e, n)) /\ IsFiniteSet(Rest(e, n))
                      /\ IsFirst(FirstNamed[e][n], Rest(e, n))
    OBVIOUS
  <2>1. /\ TotalNamed[NULL][n] = 0 /\ FirstNamed[NULL][n] = NULL
        /\ TotalNamed[e][n] = (IF name[e] = n THEN 1 ELSE 0) + TotalNamed[next[e]][n]
        /\ FirstNamed[e][n] = IF name[e] = n THEN e ELSE FirstNamed[next[e]][n]
    BY TotalNamedIs, FirstNamedIs
  <2>2. e \in Int
    BY DEF Elements
  <2>3. CASE next[e] = NULL
    <3>1. Rest(e, n) = IF name[e] = n THEN {e} ELSE {}
      BY <2>3, RestOfPeers
    <3>2. IsFirst(FirstNamed[e][n], Rest(e, n))
      BY <2>1, <2>2, <2>3, <3>1 DEF IsFirst
    <3>3. TotalNamed[e][n] = IF name[e] = n THEN 1 ELSE 0
      BY <2>1, <2>3
    <3> QED
      BY <3>1, <3>2, <3>3, FS_EmptySet, FS_Singleton
  <2>4. CASE next[e] # NULL
    <3>1. PICK f : f = next[e]
      OBVIOUS
    <3>2. /\ f \in 1..started /\ f > e /\ f \in Elements
          /\ Rest(e, n) = IF name[e] = n THEN Rest(f, n) \cup {e} ELSE Rest(f, n)
      <4>1. 1..started \subseteq Elements
        BY XmlAssumption DEF XmlType, Elements
      <4> QED
        BY <2>4, <3>1, <4>1, RestOfPeers
    <3>3. /\ TotalNamed[f][n] = Cardinality(Rest(f, n)) /\ IsFiniteSet(Rest(f, n))
          /\ IsFirst(FirstNamed[f][n], Rest(f, n))
      BY <1>1, <3>2
    <3>4. e \notin Rest(f, n) /\ \A d \in Rest(f, n) : e <= d
      BY <2>2, <3>2 DEF Rest
    <3>5. CASE name[e] = n
      <4>1. Rest(e, n) = Rest(f, n) \cup {e}
        BY <3>2, <3>5
      <4>2. IsFiniteSet(Rest(e, n)) /\ Cardinality(Rest(e, n)) = Cardinality(Rest(f, n)) + 1
        BY <3>3, <3>4, <4>1, FS_AddElement
      <4>3. Cardinality(Rest(f, n)) \in Nat
        BY <3>3, FS_CardinalityType
      <4>4. TotalNamed[e][n] = Cardinality(Rest(e, n))
        BY <2>1, <3>1, <3>3, <3>5, <4>2, <4>3
      <4>5. IsFirst(FirstNamed[e][n], Rest(e, n))
        BY <2>1, <2>2, <3>4, <3>5, <4>1 DEF IsFirst
      <4> QED
        BY <4>2, <4>4, <4>5
    <3>6. CASE name[e] # n
      <4>1. Cardinality(Rest(f, n)) \in Nat
        BY <3>3, FS_CardinalityType
      <4>2. TotalNamed[e][n] = TotalNamed[f][n] /\ FirstNamed[e][n] = FirstNamed[f][n]
        BY <2>1, <3>1, <3>3, <3>6, <4>1
      <4> QED
        BY <3>2, <3>3, <3>6, <4>2
    <3> QED
      BY <3>5, <3>6
  <2> QED
    BY <2>3, <2>4
<1>2. Elements \subseteq S
  <2> HIDE DEF S
  <2> QED
    BY <1>1, DownInduction
<1>3. 1..started \subseteq Elements
  BY XmlAssumption DEF XmlType, Elements
<1> QED
  BY <1>2, <1>3

LEMMA FoundInside ==
    ASSUME XmlType, Ahead, Read, NEW e \in 1..started, NEW n \in Names
    PROVE  /\ GetTotalChild(e, n) = Cardinality(Inside(e, n))
           /\ IsFirst(FindChildByName(e, n), Inside(e, n))
           /\ Inside(e, n) # {} => GetTotalSamePeer(FindChildByName(e, n)) = Cardinality(Inside(e, n))
<1>1. PICK c : c = child[e]
  OBVIOUS
<1>2. IsFirst(c, Kids(e)) /\ 1..started \subseteq Elements
  BY <1>1, XmlAssumption DEF Read, XmlType, Elements
<1>3. GetTotalChild(e, n) = TotalNamed[c][n] /\ FindChildByName(e, n) = FirstNamed[c][n]
  BY <1>1 DEF GetTotalChild, FindChildByName, GetNextChild
<1>4. CASE c = NULL
  <2>1. Kids(e) = {}
    BY <1>2, <1>4, ElementsAre DEF IsFirst, Kids
  <2>2. Inside(e, n) = {}
    BY <2>1 DEF Kids, Inside
  <2>3. TotalNamed[NULL][n] = 0 /\ FirstNamed[NULL][n] = NULL
    BY TotalNamedIs, FirstNamedIs
  <2> QED
    BY <1>3, <1>4, <2>2, <2>3, FS_EmptySet DEF IsFirst
<1>5. CASE c # NULL
  <2>1. c \in 1..started /\ within[c] = e /\ \A d \in Kids(e) : c <= d
    BY <1>2, <1>5 DEF IsFirst, Kids
  <2>2. Inside(e, n) = Rest(c, n)
    <3>1. \A d \in 1..started : within[d] = e => c <= d /\ d >= c
      <4> TAKE d \in 1..started
      <4>1. d \in Int /\ c \in Int
        BY <2>1
      <4> QED
        BY <2>1, <4>1 DEF Kids
    <3> QED
      BY <2>1, <3>1 DEF Inside, Rest
  <2>3. GetTotalChild(e, n) = Cardinality(Inside(e, n)) /\ IsFirst(FindChildByName(e, n), Inside(e, n))
    BY <1>3, <2>1, <2>2, FoundAmongPeers
  <2>4. ASSUME Inside(e, n) # {}
        PROVE  GetTotalSamePeer(FindChildByName(e, n)) = Cardinality(Inside(e, n))
    <3>1. PICK f : f = FindChildByName(e, n)
      OBVIOUS
    <3>2. f \in Inside(e, n) /\ \A d \in Inside(e, n) : f <= d
      BY <2>3, <2>4, <3>1 DEF IsFirst
    <3>3. f \in 1..started /\ within[f] = e /\ name[f] = n
      BY <3>2 DEF Inside
    <3>4. Rest(f, n) = Inside(e, n)
      <4>1. \A d \in Inside(e, n) : d \in Int /\ f \in Int /\ d >= f
        <5>1. \A d \in Inside(e, n) : d \in Int /\ f \in Int
          BY <3>3 DEF Inside
        <5> QED
          BY <3>2, <5>1
      <4> QED
        BY <3>3, <4>1 DEF Inside, Rest
    <3> QED
      BY <3>1, <3>3, <3>4, FoundAmongPeers DEF GetTotalSamePeer
  <2> QED
    BY <2>3, <2>4
<1> QED
  BY <1>4, <1>5

(* TreeIsDocument of XmlTree: while a document is read, the functions that *)
(* look for elements answer what the document says, however many elements  *)
(* it has and however they stand in each other.                            *)
THEOREM TreeIsTheDocument == XmlSpec => []TreeIsDocument
<1>1. XmlInv => TreeIsDocument
  <2> SUFFICES ASSUME XmlInv, phase = "parse", NEW e \in 1..started, NEW n \in Names
               PROVE  /\ GetTotalChild(e, n) = Cardinality(Inside(e, n))
                      /\ Inside(e, n) # {} =>
                         /\ FindChildByName(e, n) = CHOOSE d \in Inside(e, n) : \A f \in Inside(e, n) : d <= f
                         /\ GetTotalSamePeer(FindChildByName(e, n)) = Cardinality(Inside(e, n))
                      /\ parent[e] = within[e]
    BY DEF TreeIsDocument
  <2>1. XmlType /\ Ahead /\ Read
    BY DEF XmlInv
  <2>2. ASSUME Inside(e, n) # {}
        PROVE  FindChildByName(e, n) = CHOOSE d \in Inside(e, n) : \A f \in Inside(e, n) : d <= f
    <3>1. PICK f : f = FindChildByName(e, n)
      OBVIOUS
    <3>2. f \in Inside(e, n) /\ \A d \in Inside(e, n) : f <= d
      BY <2>1, <2>2, <3>1, FoundInside DEF IsFirst
    <3>3. ASSUME NEW g \in Inside(e, n), \A d \in Inside(e, n) : g <= d
          PROVE  g = f
      <4>1. g \in Int /\ f \in Int
        BY <3>2 DEF Inside
      <4> QED
        BY <3>2, <3>3, <4>1
    <3> QED
      BY <3>1, <3>2, <3>3
  <2> QED
    BY <2>1, <2>2, FoundInside DEF Read
<1> QED
  BY <1>1, TreeInvariant, PTL
-----------------------------------------------------------------------------
(* A behaviour of LibrariesSpec is one of each library: of those that stand *)
(* still, one that stutters.                                                *)
THEOREM LibrariesAreEach == LibrariesSpec => Spec /\ XmlSpec /\ CfgSpec
<1>1. LibrariesInit => Init /\ XmlInit /\ CfgInit
  BY DEF LibrariesInit
<1>2. [LibrariesNext]_<<part, vars, xmlVars, cfgVars>> => [Next]_vars
  BY DEF LibrariesNext
<1>3. [LibrariesNext]_<<part, vars, xmlVars, cfgVars>> => [XmlNext]_xmlVars
  BY DEF LibrariesNext
<1>4. [LibrariesNext]_<<part, vars, xmlVars, cfgVars>> => [CfgNext]_cfgVars
  BY DEF LibrariesNext
<1> QED
  BY <1>1, <1>2, <1>3, <1>4, PTL DEF LibrariesSpec, Spec, XmlSpec, CfgSpec

(* So all that the libraries promise holds of them together: that of the   *)
(* arrays, with their refinement of a bounded queue, that of the tree and  *)
(* that of the configuration.                                              *)
THEOREM LibrariesSafety ==
    LibrariesSpec =>
        /\ [](ItemsOwned /\ IterationVisitsAll) /\ ImplementsQueue
        /\ [](TreeIsDocument /\ FreedOnce)
        /\ [](PointersAlive /\ TermReleases)
BY LibrariesAreEach, DataAreOwned, IterationIsComplete, RingImplementsQueue, TreeIsTheDocument,
   ElementsFreedOnce, ConfigIsAlive, TermFreesTheRest, PTL
=============================================================================
