------------------------------ MODULE XmlTree ------------------------------
(***************************************************************************)
(* CXmlParser.c: the tree that the callbacks of expat build from a         *)
(* document, the functions that look for elements in it, and ClearBuffer,  *)
(* which takes it apart from its last element to its first.                *)
(*                                                                         *)
(* Elements are numbered as they start.  An attribute is only counted: the *)
(* chain of those of one element is freed with it.                         *)
(***************************************************************************)
EXTENDS Integers, FiniteSets, Sequences

CONSTANTS
    MaxElements,    \* bound: the elements of a document
    MaxAttributes,  \* bound: the attributes of an element
    Names

ASSUME XmlAssumption == MaxElements \in Nat /\ MaxAttributes \in Nat /\ Names # {}

Elements == 1..MaxElements
NULL == 0
Pointer == Elements \cup {NULL}

VARIABLES
    phase,      \* "parse", "clear" or "gone"
    started,    \* the elements that have started
    within,     \* of the document: the element in which each one stands
    name, attributes, valued,       \* pcName, the attributes, pcValue is set
    child, parent, prev, next,      \* the pointers of an stElement
    cur, mas,   \* pstCurElement and pstMasElement
    open,       \* of the document: the elements that have started and not ended; iDepth is their number
    alive,      \* the elements that are allocated
    misused     \* memory was freed twice, or read after it

xmlDoc == <<started, within, name, attributes, open>>
xmlLinks == <<child, parent, prev, next, cur, mas>>
xmlVars == <<phase, xmlDoc, valued, xmlLinks, alive, misused>>

XmlInit ==
    /\ phase = "parse" /\ started = 0
    /\ within = [e \in Elements |-> NULL]
    /\ name = [e \in Elements |-> CHOOSE n \in Names : TRUE]
    /\ attributes = within /\ valued = {}
    /\ child = within /\ parent = within /\ prev = within /\ next = within
    /\ cur = NULL /\ mas = NULL /\ open = <<>>
    /\ alive = {} /\ misused = FALSE

-----------------------------------------------------------------------------
(* The end of the chain of peers, and of first children, that starts at e. *)
GetLastPeerElement[e \in Elements] ==
    IF next[e] = NULL THEN e ELSE GetLastPeerElement[next[e]]
GetLastChildElement[e \in Elements] ==
    IF child[e] = NULL THEN e ELSE GetLastChildElement[child[e]]
GetLastElement[e \in Elements] ==
    IF child[e] = NULL THEN e
    ELSE GetLastElement[GetLastPeerElement[GetLastChildElement[e]]]

(* Mutant: a new element is put after the first child. *)
LastChild_first(e) == child[e]

(* The element after which a new peer is put. *)
LastChild(e) == GetLastPeerElement[child[e]]

AddChildElement(e) ==
    /\ cur' = e
    /\ IF cur = NULL THEN mas' = e /\ UNCHANGED <<child, parent>>
       ELSE /\ parent' = [parent EXCEPT ![e] = cur]
            /\ child' = [child EXCEPT ![cur] = e]
            /\ UNCHANGED mas
    /\ UNCHANGED <<prev, next>>

AddPeerElement(e, last) ==
    /\ parent' = [parent EXCEPT ![e] = parent[last]]
    /\ prev' = [prev EXCEPT ![e] = last]
    /\ next' = [next EXCEPT ![last] = e]
    /\ cur' = e
    /\ UNCHANGED <<child, mas>>

iDepth == Len(open)

(* A document has one element at its top. *)
fpStartElement(n, k) ==
    LET e == started + 1
    IN  /\ phase = "parse" /\ e \in Elements /\ (started > 0 => iDepth > 0)
        /\ started' = e /\ alive' = alive \cup {e}
        /\ within' = [within EXCEPT ![e] = IF open = <<>> THEN NULL ELSE open[iDepth]]
        /\ name' = [name EXCEPT ![e] = n]
        /\ attributes' = [attributes EXCEPT ![e] = k]
        /\ open' = Append(open, e)
        /\ IF cur = NULL \/ child[cur] = NULL THEN AddChildElement(e)
           ELSE AddPeerElement(e, LastChild(cur))
        /\ UNCHANGED <<phase, valued, misused>>

fpEndElement ==
    /\ phase = "parse" /\ iDepth > 0
    /\ open' = SubSeq(open, 1, iDepth - 1) /\ cur' = parent[cur]
    /\ UNCHANGED <<phase, started, within, name, attributes, valued, child, parent, prev, next, mas, alive, misused>>

(* Text between the tags; that of the top is left out. *)
fpDefaultElementHandler ==
    /\ phase = "parse" /\ iDepth > 1
    /\ valued' = valued \cup {cur}
    /\ UNCHANGED <<phase, xmlDoc, xmlLinks, alive, misused>>

(* The document ends, or an error ends it, or it was never opened. *)
ParserXml ==
    /\ phase = "parse" /\ phase' = "clear"
    /\ UNCHANGED <<xmlDoc, valued, xmlLinks, alive, misused>>

-----------------------------------------------------------------------------
(* What config.c looks for. *)
GetNextChild(e) == child[e]

(* Along the chain of peers that starts at e: how many have a name, and the *)
(* first that has it.                                                       *)
TotalNamed[e \in Pointer] ==
    [n \in Names |-> IF e = NULL THEN 0
                     ELSE (IF name[e] = n THEN 1 ELSE 0) + TotalNamed[next[e]][n]]
FirstNamed[e \in Pointer] ==
    [n \in Names |-> IF e = NULL THEN NULL
                     ELSE IF name[e] = n THEN e ELSE FirstNamed[next[e]][n]]

GetTotalChild(e, n) == TotalNamed[GetNextChild(e)][n]
GetTotalSamePeer(e) == TotalNamed[e][name[e]]
FindChildByName(e, n) == FirstNamed[GetNextChild(e)][n]

-----------------------------------------------------------------------------
(* The attributes of an element other than the top are freed one by one.    *)
(* Those of the top are not: to free the last one, the one before it is     *)
(* freed too, and read after it.                                            *)
AttributesMisused(e) == e = mas /\ attributes[e] >= 2

(* MEM_CLEAN of the pointer that e hangs on. *)
MEM_CLEAN(x) ==
    /\ alive' = alive \ {x}
    /\ misused' = (misused \/ x \notin alive)

(* Mutant: an element is taken for an only child. *)
Unlink_parent(e) ==
    MEM_CLEAN(child[parent[e]]) /\ child' = [child EXCEPT ![parent[e]] = NULL] /\ UNCHANGED next

Unlink(e) ==
    IF prev[e] # NULL
    THEN MEM_CLEAN(next[prev[e]]) /\ next' = [next EXCEPT ![prev[e]] = NULL] /\ UNCHANGED child
    ELSE MEM_CLEAN(child[parent[e]]) /\ child' = [child EXCEPT ![parent[e]] = NULL] /\ UNCHANGED next

HasChild == IF mas = NULL THEN FALSE ELSE child[mas] # NULL

ClearElement ==
    /\ phase = "clear" /\ HasChild
    /\ LET e == GetLastElement[mas]
       IN  Unlink(e) /\ valued' = valued \ {e}
    /\ UNCHANGED <<phase, xmlDoc, parent, prev, cur, mas>>

ClearMaster ==
    /\ phase = "clear" /\ ~HasChild /\ phase' = "gone"
    /\ alive' = alive \ {mas} /\ valued' = valued \ {mas} /\ mas' = NULL
    /\ misused' = (misused \/ IF mas = NULL THEN FALSE ELSE AttributesMisused(mas))
    /\ UNCHANGED <<xmlDoc, child, parent, prev, next, cur>>

ClearBuffer == ClearElement \/ ClearMaster

XmlNext ==
    \/ \E n \in Names, k \in 0..MaxAttributes : fpStartElement(n, k)
    \/ fpEndElement \/ fpDefaultElementHandler
    \/ ParserXml
    \/ ClearBuffer

XmlSpec == XmlInit /\ [][XmlNext]_xmlVars

-----------------------------------------------------------------------------
(* The tree is that of the document, at every moment of its parsing: each  *)
(* element has the children that stand in it, in their order, is told      *)
(* their number by name and finds the first of a name.                     *)
Inside(e, n) == {d \in 1..started : within[d] = e /\ name[d] = n}

TreeIsDocument ==
    phase = "parse" =>
        \A e \in 1..started, n \in Names :
            /\ GetTotalChild(e, n) = Cardinality(Inside(e, n))
            /\ Inside(e, n) # {} =>
                   /\ FindChildByName(e, n) = CHOOSE d \in Inside(e, n) : \A f \in Inside(e, n) : d <= f
                   /\ GetTotalSamePeer(FindChildByName(e, n)) = Cardinality(Inside(e, n))
            /\ parent[e] = within[e]

(* ClearBuffer frees every element and every value once and reads nothing   *)
(* that it has freed, unless the top has two attributes or more.            *)
FreedOnce ==
    /\ misused => attributes[1] >= 2
    /\ phase = "gone" => alive = {} /\ valued = {}
=============================================================================
