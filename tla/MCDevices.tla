----------------------------- MODULE MCDevices -----------------------------
(***************************************************************************)
(* The modem devices for TLC: a behaviour is one of an AT command, of the  *)
(* driver of the line modems or of the boot of the mobile modem; the       *)
(* others stand still.                                                     *)
(***************************************************************************)
EXTENDS AtCommand, HalCx930xx, ModemBoot

VARIABLE part

AnyRoom == [p \in Programs |-> 2]
UserRank == [u \in Users |-> IF u = "u1" THEN 1 ELSE 2]

devicesVars == <<part, atVars, cxVars, bootVars>>

DevicesInit ==
    /\ part \in {"command", "lines", "boot"}
    /\ AtInit /\ CxInit /\ BootInit
    /\ part # "command" => prog = "gprs" /\ ~open /\ wire = <<>> /\ owed = {}
    /\ part # "boot" => module = "uc864e" /\ ~fine /\ ~on

DevicesNext ==
    /\ UNCHANGED part
    /\ \/ part = "command" /\ AtNext /\ UNCHANGED <<cxVars, bootVars>>
       \/ part = "lines" /\ CxNext /\ UNCHANGED <<atVars, bootVars>>
       \/ part = "boot" /\ BootNext /\ UNCHANGED <<atVars, cxVars>>

(* An at_cmd and main() are threads that the system lets run. *)
DevicesSpec ==
    /\ DevicesInit /\ [][DevicesNext]_devicesVars
    /\ WF_atVars(part = "command" /\ AtCmd)
    /\ WF_bootVars(part = "boot" /\ MainStep)

(* Every AT command ends, and main() gets past the boot: the liveness of    *)
(* AtCommand and of ModemBoot, for the behaviours that are theirs.          *)
CommandEnds == part = "command" => AtCommandEnds
BootEnds == part = "boot" => ModemBootEnds
=============================================================================
