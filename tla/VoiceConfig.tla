---------------------------- MODULE VoiceConfig ----------------------------
(***************************************************************************)
(* config.c: xml_config_init reads the elements of the configuration into  *)
(* arrays of allocated structures, one list after the other; xml_config_   *)
(* term frees the arrays.  VOICE_Thread calls it whatever init returned.   *)
(*                                                                         *)
(* A structure is a block of memory, and so is an item of an array inside  *)
(* it.  Of the attributes there is only what can be wrong with them: an    *)
(* element has all that it must have, with values that are known, or       *)
(* reading it ends the function.                                           *)
(***************************************************************************)
EXTENDS Integers, Sequences, FiniteSets, Functions, SequencesExt, FiniteSetsExt

CONSTANTS
    MaxListed,      \* bound: the elements of all lists of a document
    MaxBlocks,      \* bound: the blocks that are in use at one time
    MobilePPPs      \* iPPP_PSTN_Base - iPPP_Mobile_Base

ASSUME ConfigAssumption == {MaxListed, MaxBlocks, MobilePPPs} \subseteq Nat

Blocks == 1..MaxBlocks
NoBlock == 0

(* The lists in the order in which they are read, and the functions that   *)
(* read them.                                                               *)
ModuleLists == <<"PPPs", "modPSTNs", "modRS232s", "modRS485s">>
ChannelLists == <<"TCPs", "PSTNs", "RS232s", "RS485s">>
Order == ModuleLists \o ChannelLists \o <<"patterns", "depends">>
Lists == Range(Order)
After(list) == Order[1 + CHOOSE i \in DOMAIN Order : Order[i] = list]
SameFunction(list) ==
    CASE list \in Range(ModuleLists) -> Range(ModuleLists)
      [] list \in Range(ChannelLists) -> Range(ChannelLists)
      [] OTHER -> {list}

VARIABLES
    step,       \* the list that is read, or where init or its caller is
    left,       \* the elements of the list that are still to be read
    listed,     \* those that the document may still have
    array,      \* per list: its array
    inner,      \* per block: the items of the arrays inside it
    local,      \* per list: the local pointer to the structure at hand
    live,       \* the blocks that are allocated
    mobile,     \* the PPPs with an APN in stSIM1 or stSIM2
    simSeen,    \* pstCfgSIM is not 0
    pointsTo,   \* per destination of a route: its channel
    definitions,\* the blocks of iso8583_init
    overwritten,\* the patterns without a route that a later one has replaced in local
    whole       \* no function has left off early

cfgPlace == <<step, left, listed>>
cfgMemory == <<array, inner, local, live>>
cfgData == <<mobile, simSeen, pointsTo, definitions, overwritten>>
cfgVars == <<cfgPlace, cfgMemory, cfgData, whole>>

CfgInit ==
    /\ step = "logger" /\ left = 0 /\ listed = MaxListed
    /\ array = [l \in Lists |-> <<>>] /\ local = [l \in Lists |-> NoBlock]
    /\ inner = [b \in Blocks |-> {}] /\ pointsTo = [b \in Blocks |-> NoBlock]
    /\ live = {} /\ definitions = {} /\ overwritten = {} /\ mobile = {}
    /\ simSeen = FALSE /\ whole = TRUE

ItemsOf(list) == Range(array[list])
Channels == UNION {ItemsOf(l) : l \in Range(ChannelLists)}

(* malloc gives n blocks that nobody has. *)
Fresh(n) == CHOOSE bs \in [1..n -> Blocks \ live] : IsInjective(bs)
Room(n) == Cardinality(Blocks \ live) >= n

-----------------------------------------------------------------------------
(* What can be wrong with an element, in the order in which it is read: an  *)
(* attribute is missing, or its value is not one that is known, or array_   *)
(* add has an item with the same id ("twice").                              *)
LoggerMust == {"file", "level", "size"}
ModuleMust == {"modem id"}
GSMMust == {"id", "modem id"}
OPTMMust == {"id", "modem id"}

PingMust == {"ip", "interval", "threshold"}
PPPMust == {"id", "modem id", "twice"}
SIMMust == {"apn"} \cup PingMust
LineMust == {"id", "dial"} \cup PingMust

DriverMust == {"id", "type", "data driver", "twice"}
FrameMust == {"baud rate", "stop bit", "data bit", "parity", "flow control"}
ModPSTNMust == DriverMust \cup {"control driver"}
ModRS232Must == DriverMust \cup FrameMust
ModRS485Must == DriverMust \cup FrameMust \cup {"control driver"}

(* One that connects needs the other side, one that listens its own port.   *)
TCPMust(mode) ==
    {"id", "mode", "type", "least workers", "most workers"} \cup
        IF mode = "C" THEN {"ip", "remote port"} ELSE {"local port"}
(* No TCP can have a crypto, since none is ever read. *)
TCPFlagsMust == {"idle workers", "drop line", "tunnel", "crypto"}
PSTNMust == {"id", "modem", "protocol", "type"}
PSTNFlagsMust == {"tunnel", "drop line"}
RS232Must == {"id", "mode"}
RS485Must == {"id", "mode"}

PatternMust == {"id", "format"}
ParserMust == {"parser", "stamp", "protocol format", "definition file"}
RouteMust == {"key", "value", "corel", "gencorel", "self"}
DestMust == {"id", "type", "weight", "congested", "threshold", "format", "cooldown", "twice"}
DependMust == {"id", "depend", "compare", "twice"}

-----------------------------------------------------------------------------
(* Going on with a list, or with what comes after the lists. *)
GoesTo(place) ==
    /\ step' = place
    /\ IF place \in Lists THEN \E n \in 0..listed : left' = n /\ listed' = listed - n
       ELSE left' = 0 /\ UNCHANGED listed

(* CleanUp of the function of a list, when the locals are ls: the pointer   *)
(* to a PSTN of the modules is forgotten.                                   *)
CleanUp(list, ls) == {ls[l] : l \in SameFunction(list) \ {"modPSTNs"}} \ {NoBlock}

(* A function of init ends early: with an error, or, as five exits of       *)
(* xml_config_channel do, without one, and init goes on.                    *)
LeavesOff(quiet) ==
    /\ whole' = FALSE
    /\ local' = [l \in Lists |-> NoBlock]
    /\ IF quiet THEN GoesTo("patterns") ELSE GoesTo("failed")

(* Mutant: the pointer to a structure is kept when it has been added. *)
Added_kept(b) == b

(* A structure was added to its array, and the local pointer is cleared. *)
Added(b) == NoBlock

(* An element that is read, with so many items in its arrays. *)
ReadsWell(list, items) ==
    LET bs == Fresh(1 + items)
    IN  /\ Room(1 + items)
        /\ array' = [array EXCEPT ![list] = Append(@, bs[1])]
        /\ inner' = [inner EXCEPT ![bs[1]] = Range(Tail(bs))]
        /\ live' = live \cup Range(bs)
        /\ local' = [local EXCEPT ![list] = Added(bs[1])]
        /\ left' = left - 1 /\ UNCHANGED <<step, listed, whole>>

(* One that is not, with so many items that are already in its arrays: the  *)
(* structure and the item at hand are freed, those items are forgotten.     *)
ReadsBadly(list, items, quiet) ==
    LET bs == Fresh(1 + items)
    IN  /\ Room(1 + items)
        /\ live' = (live \cup Range(bs)) \ CleanUp(list, [local EXCEPT ![list] = bs[1]])
        /\ LeavesOff(quiet) /\ UNCHANGED <<array, inner>>

Reads(list) == step = list /\ left > 0

-----------------------------------------------------------------------------
(* The elements of the modules. *)

(* A PPP with SIMs or lines, each with a name for its network or an empty   *)
(* one.  The pointer to the SIM at hand is not cleared between two PPPs:    *)
(* the first SIM of a later one is its stSIM2.                              *)
Filled(networks, seen) ==
    [slot \in {1, 2} |->
        LET mine == {i \in DOMAIN networks : slot = IF i = 1 /\ ~seen THEN 1 ELSE 2}
        IN  IF mine = {} THEN FALSE ELSE networks[Max(mine)]]

(* Lines are looked for when no SIM has an APN.  A PPP of neither kind is   *)
(* ignored.                                                                 *)
ReadPPP(sims, lines) ==
    LET apn == \E slot \in {1, 2} : Filled(sims, simSeen)[slot]
        dialup == ~apn /\ lines > 0
        b == Fresh(1)[1]
    IN  /\ Reads("PPPs") /\ Room(1)
        /\ simSeen' = (simSeen \/ sims # <<>>)
        /\ IF sims # <<>> \/ dialup
           THEN /\ ReadsWell("PPPs", 0)
                /\ mobile' = IF apn THEN mobile \cup {b} ELSE mobile \ {b}
           ELSE /\ left' = left - 1 /\ local' = [local EXCEPT !["PPPs"] = NoBlock]
                /\ UNCHANGED <<step, listed, array, inner, live, mobile, whole>>
        /\ UNCHANGED <<pointsTo, definitions, overwritten>>

PPPFails(fault) == Reads("PPPs") /\ ReadsBadly("PPPs", 0, FALSE) /\ UNCHANGED cfgData

(* Each PPP gets the next interface of its kind.  The mobile PPP that gets  *)
(* the last one below those of the lines is one too many.                   *)
UpdateIndex ==
    /\ step = "index"
    /\ IF Cardinality(mobile \cap ItemsOf("PPPs")) >= MobilePPPs
       THEN live' = live \ CleanUp("PPPs", local) /\ LeavesOff(FALSE)
       ELSE GoesTo("modPSTNs") /\ UNCHANGED <<local, live, whole>>
    /\ UNCHANGED <<array, inner, cfgData>>

ReadLine(list) == Reads(list) /\ ReadsWell(list, 0) /\ UNCHANGED cfgData
LineFails(list, fault) == Reads(list) /\ ReadsBadly(list, 0, FALSE) /\ UNCHANGED cfgData

ReadModPSTN == ReadLine("modPSTNs") \/ \E fault \in ModPSTNMust : LineFails("modPSTNs", fault)
ReadModRS232 == ReadLine("modRS232s") \/ \E fault \in ModRS232Must : LineFails("modRS232s", fault)
ReadModRS485 == ReadLine("modRS485s") \/ \E fault \in ModRS485Must : LineFails("modRS485s", fault)

-----------------------------------------------------------------------------
(* The channels, each with its targets and a PSTN with its numbers to dial. *)
ReadChannel(list, items) == Reads(list) /\ ReadsWell(list, items) /\ UNCHANGED cfgData
ChannelFails(list, items, quiet) == Reads(list) /\ ReadsBadly(list, items, quiet) /\ UNCHANGED cfgData

(* A channel without a target ends the function, and no error is reported.  *)
(* One with a bad target, or an id that is there already, ends it with one. *)
Targets(list, dials) ==
    \/ ReadChannel(list, dials + 1)
    \/ ChannelFails(list, dials, TRUE)
    \/ \E targets \in 0..1 : ChannelFails(list, dials + targets, FALSE)

(* So does a TCP that says nothing of idle workers. *)
TCPAttributes == \E mode \in {"C", "L"} : \E fault \in TCPMust(mode) : ChannelFails("TCPs", 0, FALSE)
TCPFlags == \E fault \in TCPFlagsMust : ChannelFails("TCPs", 0, fault = "idle workers")
ReadTCP == TCPAttributes \/ TCPFlags \/ Targets("TCPs", 0)

PSTNAttributes == \E fault \in PSTNMust : ChannelFails("PSTNs", 0, FALSE)
PSTNFlags == \E fault \in PSTNFlagsMust : ChannelFails("PSTNs", 0, FALSE)
PSTNDials == \E dials \in 0..1 : ChannelFails("PSTNs", dials, FALSE)
ReadPSTN == PSTNAttributes \/ PSTNFlags \/ PSTNDials \/ \E dials \in 0..1 : Targets("PSTNs", dials)

RS232Attributes == \E fault \in RS232Must : ChannelFails("RS232s", 0, FALSE)
ReadRS232 == RS232Attributes \/ Targets("RS232s", 0)

RS485Attributes == \E fault \in RS485Must : ChannelFails("RS485s", 0, FALSE)
ReadRS485 == RS485Attributes \/ Targets("RS485s", 0)

-----------------------------------------------------------------------------
(* A pattern with a route and a destination, or without, and the definition *)
(* of ISO 8583.  xml_get_channel looks for the id of the destination in the *)
(* TCPs, the RS232s, the RS485s and the PSTNs.                              *)
xml_get_channel == Channels \cup {NoBlock}

(* The pattern, its definition, its route and its destination. *)
PatternBlocks(iso, route, dest) ==
    LET bs == Fresh(1 + iso + route + dest)
    IN  [all |-> Range(bs), pattern |-> bs[1],
         iso |-> {bs[i] : i \in {2} \cap (1..1 + iso)},
         route |-> {bs[i] : i \in {2 + iso} \cap (1..1 + iso + route)},
         dest |-> {bs[i] : i \in {3 + iso} \cap (1..1 + iso + route + dest)}]

(* The pattern that an earlier pass has left in the local pointer is lost.  *)
ReadPattern(iso, route, dest) ==
    /\ Reads("patterns") /\ dest <= route /\ Room(1 + iso + route + dest)
    /\ LET p == PatternBlocks(iso, route, dest)
       IN  /\ IF route > 0
              THEN /\ array' = [array EXCEPT !["patterns"] = Append(@, p.pattern)]
                   /\ local' = [local EXCEPT !["patterns"] = Added(p.pattern)]
              ELSE local' = [local EXCEPT !["patterns"] = p.pattern] /\ UNCHANGED array
           /\ inner' = [b \in Blocks |-> IF b = p.pattern THEN p.route
                                         ELSE IF b \in p.route THEN p.dest
                                         ELSE IF b \in p.dest THEN {} ELSE inner[b]]
           /\ live' = live \cup p.all
           /\ definitions' = definitions \cup p.iso
           /\ \E channel \in xml_get_channel :
                  pointsTo' = [b \in Blocks |-> IF b \in p.dest THEN channel ELSE pointsTo[b]]
    /\ overwritten' = overwritten \cup ({local["patterns"]} \ {NoBlock})
    /\ left' = left - 1 /\ UNCHANGED <<step, listed, whole, mobile, simSeen>>

(* What is at hand is freed; what was added to the pattern is forgotten,    *)
(* and so is its definition.                                                *)
PatternFails(iso, route, dest, atHand) ==
    /\ Reads("patterns") /\ dest <= route /\ Room(1 + iso + route + dest)
    /\ LET p == PatternBlocks(iso, route, dest)
           freed == (IF atHand = "dest" THEN p.dest ELSE {})
                        \cup (IF atHand \in {"route", "dest"} THEN p.route ELSE {})
                        \cup CleanUp("patterns", [local EXCEPT !["patterns"] = p.pattern])
       IN  /\ live' = (live \cup p.all) \ freed
           /\ definitions' = definitions \cup p.iso
    /\ LeavesOff(FALSE) /\ UNCHANGED <<array, inner, mobile, simSeen, pointsTo, overwritten>>

PatternAttributes == \E fault \in PatternMust : PatternFails(0, 0, 0, "pattern")
Parser == \E fault \in ParserMust : PatternFails(0, 0, 0, "pattern")
Route(iso) == \E fault \in RouteMust : PatternFails(iso, 1, 0, "route")
Dest(iso) == \E fault \in DestMust : PatternFails(iso, 1, 1, "dest")
PatternTwice(iso, dest) == PatternFails(iso, 1, dest, "pattern")

xml_config_depend ==
    \/ Reads("depends") /\ ReadsWell("depends", 0) /\ UNCHANGED cfgData
    \/ \E fault \in DependMust : Reads("depends") /\ ReadsBadly("depends", 0, FALSE) /\ UNCHANGED cfgData

-----------------------------------------------------------------------------
(* The logger, then what stands before the lists of the modules.  A document *)
(* without modules is no error.                                             *)
xml_config_logger ==
    /\ step = "logger"
    /\ \/ \E fault \in LoggerMust \cup {"document", "logger"} : LeavesOff(FALSE)
       \/ GoesTo("modules") /\ UNCHANGED <<local, whole>>
    /\ UNCHANGED <<array, inner, live, cfgData>>

Modules ==
    /\ step = "modules"
    /\ \/ \E fault \in ModuleMust : LeavesOff(FALSE)
       \/ GoesTo("TCPs") /\ UNCHANGED <<local, whole>>
       \/ GoesTo("GSM") /\ UNCHANGED <<local, whole>>
    /\ UNCHANGED <<array, inner, live, cfgData>>

GSMAndOPTM ==
    /\ step = "GSM"
    /\ \/ \E fault \in GSMMust \cup OPTMMust : LeavesOff(FALSE)
       \/ GoesTo("PPPs") /\ UNCHANGED <<local, whole>>
    /\ UNCHANGED <<array, inner, live, cfgData>>

(* The end of a list, and of a function, which frees its locals too. *)
ListEnds ==
    /\ step \in Lists /\ left = 0
    /\ LET next == IF step = "PPPs" THEN "index" ELSE IF step = "depends" THEN "diagnose" ELSE After(step)
           returns == next # "index" /\ (next = "diagnose" \/ next \notin SameFunction(step))
       IN  /\ GoesTo(next)
           /\ live' = IF returns THEN live \ CleanUp(step, local) ELSE live
           /\ local' = IF returns THEN [l \in Lists |-> NoBlock] ELSE local
    /\ UNCHANGED <<array, inner, cfgData, whole>>

(* The last function has nothing that must be there. *)
xml_config_diagnose ==
    /\ step = "diagnose" /\ GoesTo("loaded")
    /\ UNCHANGED <<cfgMemory, cfgData, whole>>

xml_config_module ==
    \/ Modules \/ GSMAndOPTM
    \/ \E sims \in SeqOf(BOOLEAN, 3), lines \in 0..1 : ReadPPP(sims, lines)
    \/ \E fault \in PPPMust \cup SIMMust \cup LineMust : PPPFails(fault)
    \/ UpdateIndex
    \/ ReadModPSTN \/ ReadModRS232 \/ ReadModRS485

xml_config_channel == ReadTCP \/ ReadPSTN \/ ReadRS232 \/ ReadRS485

xml_config_pattern ==
    \/ \E iso, route, dest \in 0..1 : ReadPattern(iso, route, dest)
    \/ \E iso, dest \in 0..1 : PatternTwice(iso, dest)
    \/ PatternAttributes \/ Parser
    \/ \E iso \in 0..1 : Route(iso) \/ Dest(iso)

xml_config_init ==
    \/ xml_config_logger
    \/ xml_config_module \/ xml_config_channel \/ xml_config_pattern
    \/ xml_config_depend \/ xml_config_diagnose
    \/ ListEnds

-----------------------------------------------------------------------------
(* An item of an array, with all that the arrays inside it hold. *)
Within(b) == {b} \cup inner[b] \cup UNION {inner[c] : c \in inner[b]}

(* Mutant: the arrays inside the items are not freed. *)
Freed_item(b) == {b}

(* What is freed with an item of an array. *)
Freed(b) == Within(b)

(* The array of the PPPs is not among the arrays that are freed. *)
xml_config_term ==
    /\ step \in {"loaded", "failed"} /\ GoesTo("gone")
    /\ live' = live \ UNION {Freed(b) : b \in UNION {ItemsOf(l) : l \in Lists \ {"PPPs"}}}
    /\ array' = [l \in Lists |-> IF l = "PPPs" THEN array[l] ELSE <<>>]
    /\ UNCHANGED <<inner, local, cfgData, whole>>

CfgNext == xml_config_init \/ xml_config_term

CfgSpec == CfgInit /\ [][CfgNext]_cfgVars

-----------------------------------------------------------------------------
(* As long as the configuration is in use, every structure that one of its *)
(* arrays holds is allocated, none is in two places, and a destination     *)
(* points to a channel of the configuration, whichever function has failed.*)
PointersAlive ==
    LET items == UNION {ItemsOf(l) : l \in Lists}
    IN  step # "gone" =>
            /\ \A b \in items : Within(b) \subseteq live
            /\ \A b, c \in items : b # c => Within(b) \cap Within(c) = {}
            /\ \A l \in Lists : IsInjective(array[l])
            /\ \A k, l \in Lists : k # l => ItemsOf(k) \cap ItemsOf(l) = {}
            /\ \A b \in ItemsOf("patterns") : \A d \in Within(b) : pointsTo[d] \in Channels \cup {NoBlock}

(* A configuration that was read to its end leaves nothing behind when it  *)
(* is freed, but its PPPs, the definitions of ISO 8583 and patterns without *)
(* a route, which are in no array.                                         *)
TermReleases == step = "gone" /\ whole => live = ItemsOf("PPPs") \cup definitions \cup overwritten
=============================================================================
