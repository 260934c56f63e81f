------------------------------ MODULE ModemBoot ------------------------------
(***************************************************************************)
(* What main() does with the modem before and while a SIM is selected: it  *)
(* opens the control port and the data port, looks at the doors, powers    *)
(* the modem, sends ATE0, and does all of it again after 5 s when a part   *)
(* fails (initial_gprs, nc_mobiled.c:121); then the checks of the SIM and  *)
(* the question for the carrier, which GprsSession has as single steps.    *)
(*                                                                         *)
(* Descriptors are numbers that the kernel gives out, the lowest free one  *)
(* first.  What the checks record of signal and registration is left out.  *)
(***************************************************************************)
EXTENDS Integers, FiniteSets, FiniteSetsExt

CONSTANTS
    Modules,    \* the kinds of modem an instance starts with
    Carriers,   \* the names of networks
    NoName

ASSUME CarriersAssumption == NoName \notin Carriers /\ Carriers # {}

Doors == {1, 2}
OK == 0
POWER_ON == 1
POWER_OFF == 2

VARIABLES
    module,     \* gprsInfo.module
    main,       \* where main() is
    tries,      \* the retries that the loop at hand has left
    again,      \* those of the loop inside it
    ctrl,       \* ctrl_port.fd_com: 0, -1 or a descriptor
    data,       \* data_port.fd_com
    connected,  \* data_port.is_connted
    opened,     \* the descriptors that the process has open
    simDoor,    \* simDoor1 and 2.simDoorState: closed when last read
    power,      \* gprsInfo.power
    on,         \* the modem has power
    carrier,    \* the carrier of the SIM in use, as a string
    moved,      \* the index i of gprs_get_carrier is not 0
    named,      \* the name the modem gave last for this question
    known,      \* it has returned OK
    fine        \* devices, a SIM and a modem that work

bootPorts == <<ctrl, data, connected, opened>>
bootModem == <<power, on>>
bootNames == <<carrier, moved, named, known>>
bootVars == <<module, main, tries, again, bootPorts, simDoor, bootModem, bootNames, fine>>

BootSteps == {"open", "doors", "power", "power_wait", "ate0", "failed"}
UpSteps == {"up", "signal", "insert", "register", "carrier", "cops_wait", "cops"}

BootInit ==
    /\ module \in Modules /\ main = "open" /\ tries = 0 /\ again = 0
    /\ ctrl = 0 /\ data = 0 /\ connected = FALSE /\ opened = {}
    /\ simDoor = [d \in Doors |-> FALSE] /\ power = 0 /\ on \in BOOLEAN
    /\ carrier = NoName /\ named = NoName /\ moved = FALSE /\ known = FALSE
    /\ fine \in BOOLEAN

(* Whether a call may succeed, and may fail. *)
May == IF fine THEN {TRUE} ELSE BOOLEAN

-----------------------------------------------------------------------------
(* The ports, as functions on p = [ctrl, data, opened, connected]. *)
Ports == [ctrl |-> ctrl, data |-> data, opened |-> opened, connected |-> connected]

Lowest(p) == Min((3..6) \ p.opened)
Open(p, ok) == IF ok THEN [fd |-> Lowest(p), opened |-> p.opened \cup {Lowest(p)}]
                     ELSE [fd |-> -1, opened |-> p.opened]

(* A descriptor that is not open stays in fd_com. *)
ctrlport_close(p) ==
    IF p.ctrl \in p.opened THEN [p EXCEPT !.ctrl = 0, !.opened = @ \ {p.ctrl}] ELSE p

ctrlport_open(p, ok) ==
    LET q == ctrlport_close(p)
    IN  [q EXCEPT !.ctrl = Open(q, ok).fd, !.opened = Open(q, ok).opened]

comport_close(p) ==
    [p EXCEPT !.data = 0, !.opened = @ \ {p.data}, !.connected = FALSE]

(* A port that cannot be set up keeps its descriptor. *)
comport_open(p, ok, setup) ==
    LET q == comport_close(p)
    IN  [q EXCEPT !.data = Open(q, ok).fd, !.opened = Open(q, ok).opened,
                  !.connected = ok /\ setup]

init_comport(p) == [p EXCEPT !.connected = FALSE]

(* The UC864E has one device for both ports. *)
open_gprs_port(p, ok, dataOk, setup) ==
    LET q == IF module = "uc864e" THEN p ELSE ctrlport_open(p, ok)
        r == comport_open(init_comport(q), dataOk, setup)
    IN  IF module # "uc864e" /\ q.ctrl = -1 THEN q
        ELSE IF ~r.connected THEN ctrlport_close(r)
        ELSE IF module = "uc864e" THEN [r EXCEPT !.ctrl = r.data] ELSE r

-----------------------------------------------------------------------------
(* initial_gprs.  Its parts fail by going back to main(), which waits for  *)
(* 5 s; what open_gprs_port returns is not looked at.                      *)
MainGoes(step, n) == main' = step /\ tries' = n
BootFails == MainGoes("failed", 0)

OpenPorts(ok, dataOk, setup) ==
    /\ main = "open" /\ MainGoes("doors", 3)
    /\ LET p == open_gprs_port(Ports, ok, dataOk, setup)
       IN  /\ ctrl' = p.ctrl /\ data' = p.data
           /\ opened' = p.opened /\ connected' = p.connected
    /\ UNCHANGED <<module, again, simDoor, bootModem, bootNames, fine>>

(* An ioctl of a descriptor that is not open fails, and leaves the state of *)
(* the door as it was read before.                                          *)
ioctl == IF ctrl \in opened THEN May ELSE {FALSE}

CheckSimDoors(first, second, closed) ==
    /\ main = "doors"
    /\ simDoor' = [d \in Doors |->
           IF (d = 1 /\ first) \/ (d = 2 /\ first /\ second) THEN closed[d] ELSE simDoor[d]]
    /\ IF \E d \in Doors : simDoor'[d] THEN MainGoes("power", 0)
       ELSE IF tries > 0 THEN MainGoes("doors", tries - 1) ELSE BootFails
    /\ UNCHANGED <<module, again, bootPorts, bootModem, bootNames, fine>>

ReadDoors ==
    \E first, second \in ioctl, closed \in [Doors -> BOOLEAN] :
        /\ fine => \E d \in Doors : closed[d]
        /\ CheckSimDoors(first, second, closed)

(* The results of send_atcmd, as AtCommand has them. *)
atcmd_results ==
    IF ~connected THEN {1} ELSE IF ~on THEN {2, 255}
    ELSE IF fine THEN {0} ELSE {0, 2, 3, 255}

(* check_gprs_power: any answer will do. *)
check_gprs_power(r) == power' = IF r \in {0, 3} THEN POWER_ON ELSE POWER_OFF

(* gprs_power_up: AT, the ioctl, and 10 s later AT once more. *)
PowerUp(wait, done, failed) ==
    \E r \in atcmd_results :
        /\ check_gprs_power(r)
        /\ IF power' = POWER_ON THEN MainGoes(done, 4) /\ UNCHANGED on
           ELSE \E works \in ioctl :
                    IF works THEN MainGoes(wait, 4) /\ \E up \in May : on' = (on \/ up)
                    ELSE MainGoes(failed, 4) /\ UNCHANGED on

Powered(wait, done, failed) ==
    /\ main = wait
    /\ \E r \in atcmd_results : check_gprs_power(r)
    /\ MainGoes(IF power' = POWER_ON THEN done ELSE failed, 4)
    /\ UNCHANGED on

(* Here a failure is FAILURE, and initial_gprs looks for POWER_OFF: it goes *)
(* on in any case.                                                          *)
BootPower ==
    /\ \/ main = "power" /\ PowerUp("power_wait", "ate0", "ate0")
       \/ Powered("power_wait", "ate0", "ate0")
    /\ UNCHANGED <<module, again, bootPorts, simDoor, bootNames, fine>>

(* ATE0 is sent once, and its result looked at four times. *)
gprs_atcmd_init ==
    /\ main = "ate0"
    /\ \E r \in atcmd_results : IF r = 0 THEN MainGoes("up", 0) ELSE BootFails
    /\ UNCHANGED <<module, again, bootPorts, simDoor, bootModem, bootNames, fine>>

(* Mutant: main() gives up when the modem could not be initialised. *)
BootAgain_never == FALSE /\ UNCHANGED bootVars

BootAgain ==
    /\ main = "failed" /\ MainGoes("open", 0)
    /\ UNCHANGED <<module, again, bootPorts, simDoor, bootModem, bootNames, fine>>

initial_gprs ==
    \/ \E ok, dataOk, setup \in May : OpenPorts(ok, dataOk, setup)
    \/ ReadDoors \/ BootPower \/ gprs_atcmd_init

-----------------------------------------------------------------------------
(* check_gprs_status: three questions, each of them repeated by its own     *)
(* function and then three times by this one.                               *)
NothingElse == UNCHANGED <<module, bootPorts, simDoor, bootModem, bootNames, fine>>

check_gprs_status ==
    /\ main = "up" /\ MainGoes("signal", 3) /\ again' = 0
    /\ NothingElse

Ask(here, n, next, m) ==
    /\ main = here
    /\ \E ok \in {r = 0 : r \in atcmd_results} :
           IF ok THEN MainGoes(next, 3) /\ again' = m
           ELSE IF again > 0 THEN MainGoes(here, tries) /\ again' = again - 1
           ELSE IF tries > 0 THEN MainGoes(here, tries - 1) /\ again' = n
           ELSE MainGoes("up", 0) /\ again' = 0
    /\ NothingElse

(* A signal of 0, 99 or more than 31 is as good as no answer. *)
check_gprs_signal == Ask("signal", 0, "insert", 1)
check_sim_insert == Ask("insert", 1, "register", 6)
check_gprs_register == Ask("register", 6, "carrier", 0)

-----------------------------------------------------------------------------
(* gprs_get_carrier for the SIM in use.  The door is asked for again. *)
StartCarrier(door) ==
    /\ main = "carrier" /\ moved' = FALSE /\ named' = NoName /\ known' = FALSE
    /\ IF ~door THEN MainGoes("up", 0) /\ UNCHANGED bootModem
       ELSE IF power = POWER_ON THEN MainGoes("cops", 4) /\ UNCHANGED bootModem
       ELSE PowerUp("cops_wait", "cops", "up")
    /\ UNCHANGED <<module, again, bootPorts, simDoor, carrier, fine>>

CarrierPower ==
    /\ Powered("cops_wait", "cops", "up")
    /\ UNCHANGED <<module, again, bootPorts, simDoor, bootNames, fine>>

(* Mutant: an answer without a name is not stored. *)
Stored_named(name) == IF moved \/ name = NoName THEN carrier ELSE name

(* The string at the start of pSim->carrier, after the modem answered with  *)
(* a name, or without one: then it ends where the index is, which moves on. *)
Stored(name) == IF moved THEN carrier ELSE name

AskCarrier ==
    /\ main = "cops"
    /\ \E r \in atcmd_results :
        \/ /\ r = 0
           /\ \E name \in Carriers \cup {NoName} :
                  named' = name /\ carrier' = Stored(name) /\ moved' = TRUE
           /\ IF carrier' # NoName THEN MainGoes("up", 0) /\ known' = TRUE
              ELSE IF tries > 0 THEN MainGoes("cops", tries - 1) /\ UNCHANGED known
              ELSE MainGoes("up", 0) /\ UNCHANGED known
        \/ /\ r # 0 /\ UNCHANGED <<moved, named, known>>
           /\ IF tries > 0 THEN MainGoes("cops", tries - 1) /\ UNCHANGED carrier
              ELSE MainGoes("up", 0) /\ carrier' = NoName
    /\ UNCHANGED <<module, again, bootPorts, simDoor, bootModem, fine>>

gprs_get_carrier ==
    (\E door \in ioctl : StartCarrier(door)) \/ CarrierPower \/ AskCarrier

-----------------------------------------------------------------------------
(* The devices and the modem begin to work, or to fail. *)
Turns ==
    /\ fine' = ~fine
    /\ UNCHANGED <<module, main, tries, again, bootPorts, simDoor, bootModem, bootNames>>

MainStep ==
    \/ initial_gprs \/ BootAgain
    \/ check_gprs_status
    \/ check_gprs_signal \/ check_sim_insert \/ check_gprs_register
    \/ gprs_get_carrier

BootNext == MainStep \/ Turns

BootSpec == BootInit /\ [][BootNext]_bootVars

-----------------------------------------------------------------------------
(* Once the devices, a SIM and the modem work, main() gets past the boot,   *)
(* whatever the passes before have left behind.                             *)
ModemBootEnds == <>[]fine => <>(main \in UpSteps)

(* A carrier that was got is the one that the modem named last, not one     *)
(* that an earlier question or another SIM has left in the record.          *)
CarrierIsNamed == known => carrier = named
=============================================================================
