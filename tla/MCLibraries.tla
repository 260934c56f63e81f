---------------------------- MODULE MCLibraries ----------------------------
(***************************************************************************)
(* The libraries and the loader of the configuration for TLC: a behaviour  *)
(* is one of an item array, of the XML tree or of the configuration; the   *)
(* others stand still.                                                     *)
(***************************************************************************)
EXTENDS ItemArray, XmlTree, VoiceConfig

CONSTANTS d1, d2, d3, d4

VARIABLE part

(* d1 and d2 are added under the same id, d3 under one that is cut to theirs,
   d4 under none. *)
SharedId == [d \in Data |-> IF d \in {d1, d2} THEN "id_1"
                            ELSE IF d = d3 THEN "id_1_and_more" ELSE "none"]

CutIds == [id \in {"id_1", "id_1_and_more", "none"} |->
              IF id = "none" THEN "" ELSE "id_1"]

LibrariesInit ==
    /\ part \in {"array", "tree", "configuration"}
    /\ Init /\ XmlInit /\ CfgInit

LibrariesNext ==
    /\ UNCHANGED part
    /\ \/ part = "array" /\ Next /\ UNCHANGED <<xmlVars, cfgVars>>
       \/ part = "tree" /\ XmlNext /\ UNCHANGED <<vars, cfgVars>>
       \/ part = "configuration" /\ CfgNext /\ UNCHANGED <<vars, xmlVars>>

LibrariesSpec == LibrariesInit /\ [][LibrariesNext]_<<part, vars, xmlVars, cfgVars>>
=============================================================================
