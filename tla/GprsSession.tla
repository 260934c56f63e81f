---------------------------- MODULE GprsSession ----------------------------
(***************************************************************************)
(* The dial-up session of nc_mobiled: main() opens the modem and selects a *)
(* SIM, starts PPP_Thread, and waits for it when it is told to stop;       *)
(* PPP_Thread selects a SIM, then an APN, dials, records the APN that      *)
(* answered, watches the link and falls back from SIM 2 to SIM 1.          *)
(*                                                                         *)
(* pc is the place of the code that owns the GPRS_ATTR structure: main()   *)
(* before the thread exists (config, open, pick, status, create), and      *)
(* PPP_Thread after that.  mpc is the place of main() itself.              *)
(*                                                                         *)
(* What an ioctl, an AT command, a ping or a script answers is a           *)
(* nondeterministic choice.  pppd runs on its own: a dial that the thread  *)
(* gave up on may still come up, and a link may drop at any time.          *)
(***************************************************************************)
EXTENDS Naturals

CONSTANTS
    Configs,    \* what mobiled.conf may hold: sets of SIMs given a non-empty apn
    Leftover    \* links an earlier daemon process may have left up

SIM_1 == 1
SIM_2 == 2
Sims  == {SIM_1, SIM_2}

(* enum APN_FLAG: which source the APN being tried comes from. *)
APN_FLAG == {"APN_NULL", "APN_HISTORY", "APN_GPRS_CONF", "APN_APNS_CONF"}

(* What historyApnFlag records: where the APN that last answered came from. *)
HistorySource == {"APN_NULL", "APN_GPRS_CONF", "APN_APNS_CONF"}

(* The interface ppp10: the SIM that was in the slot, and the source whose user
   and password the script was given. *)
Links  == [sim : Sims, source : HistorySource \ {"APN_NULL"}]
NoLink == [sim |-> 0, source |-> "APN_NULL"]

ASSUME ConfigsAssumption  == Configs \subseteq SUBSET Sims
ASSUME LeftoverAssumption == Leftover \subseteq Links

VARIABLES
    mpc,            \* main(): "boot", "serve", "join" (the loop at 223), "done"
    end,            \* SIGTERM was received: na_proc_token answers 0
    pc,             \* place of the code that owns GPRS_ATTR
    ucGprsStatus,   \* g_stGprsStatus.ucGprsStatus
    door,           \* simDoor1/2.simDoorState: TRUE is closed, a card is in
    gprsConf,       \* SIMs whose apnGprsConf is not empty
    curSimDoorNo,   \* 0, SIM_DOOR_1 or SIM_DOOR_2
    curSimNo,       \* 0, SIM_1 or SIM_2
    sim_1_Failure,  \* 0 or 1
    slot,           \* the SIM the hardware switch connects to the modem
    apnFlag,        \* per SIM
    history,        \* per SIM, historyApnFlag: "APN_NULL" is an empty apnHistory
    apnsConf,       \* per SIM: apnApnsConf is not empty
    listed,         \* per SIM: carrier is a name that the apns table holds
    fallback,       \* iStatusFlag2 and its timer: "off", "running", "due"
    link,           \* ppp10, or NoLink
    dial            \* the call pppd is still setting up, or NoLink

mainVars == <<mpc, end, ucGprsStatus>>
simVars  == <<curSimDoorNo, curSimNo, sim_1_Failure>>
apnVars  == <<apnFlag, history, apnsConf, listed>>
vars == <<mpc, end, pc, ucGprsStatus, door, gprsConf, curSimDoorNo, curSimNo,
          sim_1_Failure, slot, apnFlag, history, apnsConf, listed, fallback,
          link, dial>>

BootPlaces   == {"config", "open", "create"}
SelectPlaces == {"pick", "status"}
ApnPlaces    == {"apn", "carrier"}
DialPlaces   == {"start", "dial", "verify"}
Places == BootPlaces \cup SelectPlaces \cup ApnPlaces \cup DialPlaces \cup
          {"top", "doors", "check", "pingerr", "noapn", "alive", "sleep",
           "exit", "gone"}

TypeOK ==
    /\ mpc \in {"boot", "serve", "join", "done"}
    /\ end \in BOOLEAN
    /\ pc \in Places
    /\ ucGprsStatus \in {"NONE", "SYS_IDLE", "PPP_BUSY"}
    /\ door \in [Sims -> BOOLEAN]
    /\ gprsConf \in SUBSET Sims
    /\ curSimDoorNo \in {0} \cup Sims
    /\ curSimNo \in {0} \cup Sims
    /\ sim_1_Failure \in {0, 1}
    /\ slot \in Sims
    /\ apnFlag \in [Sims -> APN_FLAG]
    /\ history \in [Sims -> HistorySource]
    /\ apnsConf \in [Sims -> BOOLEAN]
    /\ listed \in [Sims -> BOOLEAN]
    /\ fallback \in {"off", "running", "due"}
    /\ link \in Links \cup {NoLink}
    /\ dial \in Links \cup {NoLink}

(* nc_mobiled_term zeroes the structure; the switch and the link are as the
   last process left them. *)
Init ==
    /\ mpc = "boot" /\ end = FALSE /\ pc = "config" /\ ucGprsStatus = "NONE"
    /\ door = [s \in Sims |-> FALSE]
    /\ gprsConf = {}
    /\ curSimDoorNo = 0 /\ curSimNo = 0 /\ sim_1_Failure = 0
    /\ slot \in Sims
    /\ apnFlag = [s \in Sims |-> "APN_NULL"]
    /\ history = [s \in Sims |-> "APN_NULL"]
    /\ apnsConf = [s \in Sims |-> FALSE]
    /\ listed = [s \in Sims |-> FALSE]
    /\ fallback = "off"
    /\ link \in {NoLink} \cup Leftover
    /\ dial = NoLink

-----------------------------------------------------------------------------
(* What the modem and the scripts may do to a call of the code. *)

(* check_ppp_alive: no device, or the ping answers or not; without a current
   SIM there is no address to ping. *)
check_ppp_alive ==
    IF link = NoLink THEN {"NO_PPP_DEV_ERR"}
    ELSE IF curSimNo \in Sims THEN {"OK", "PPP_PING_ERR"}
    ELSE {"PPP_PING_ERR"}

(* ppp_term: nothing to do without a device.  Otherwise gprs-close runs, and
   the link is gone, or it stays and the second check finds it dead (OK all the
   same) or alive (ERR).  A call still being set up has no device: it goes on. *)
ppp_term ==
    IF link = NoLink THEN {[link |-> NoLink, ok |-> TRUE]}
    ELSE {[link |-> NoLink, ok |-> TRUE],
          [link |-> link, ok |-> TRUE],
          [link |-> link, ok |-> FALSE]}

(* gprs_set_sim_slot: the driver switches the SIM and resets the modem, which
   loses a call being set up. *)
SlotSet(s)  == slot' = s /\ dial' = NoLink
SlotKept    == UNCHANGED <<slot, dial>>

-----------------------------------------------------------------------------
(* main() until the thread exists. *)

nc_mobiled_config ==
    /\ pc = "config"
    /\ gprsConf' \in Configs
    /\ pc' = "open"
    /\ UNCHANGED <<mainVars, door, simVars, slot, apnVars, fallback, link, dial>>

(* initial_gprs, in the loop at label A: the doors are read (an ioctl that
   fails leaves what was read before), and with a card in and the modem
   answering the boot goes on. *)
initial_gprs ==
    /\ pc = "open"
    /\ door' \in [Sims -> BOOLEAN]
    /\ \/ pc' = "open"
       \/ /\ \E s \in Sims : door'[s]
          /\ pc' = "pick"
    /\ UNCHANGED <<mainVars, gprsConf, simVars, slot, apnVars, fallback, link, dial>>

CreateThread ==
    /\ pc = "create"
    /\ ucGprsStatus' = "SYS_IDLE"
    /\ mpc' = "serve"
    /\ pc' = "top"
    /\ UNCHANGED <<end, door, gprsConf, simVars, slot, apnVars, fallback, link, dial>>

-----------------------------------------------------------------------------
(* select_sim.  main() calls it again after a failure, the thread sleeps. *)

SelectDone(ok) ==
    pc' = IF mpc = "boot" THEN (IF ok THEN "create" ELSE "pick")
                          ELSE (IF ok THEN "apn" ELSE "sleep")

UsableDoor ==
    IF door[SIM_1] /\ sim_1_Failure # 1 THEN SIM_1
    ELSE IF door[SIM_2] THEN SIM_2 ELSE 0

(* Mutant: select_sim leaves the verdict on SIM 1 standing. *)
VerdictUsed_kept == sim_1_Failure

(* The choice of the door uses the verdict on SIM 1 up. *)
VerdictUsed == 0

(* Lines 119-147: choose a door, connect its SIM. *)
PickSim ==
    /\ pc = "pick"
    /\ curSimDoorNo' = UsableDoor
    /\ \/ /\ UsableDoor = 0
          /\ sim_1_Failure' = VerdictUsed
          /\ SelectDone(FALSE)
          /\ SlotKept
          /\ UNCHANGED curSimNo
       \/ /\ UsableDoor # 0
          /\ SlotSet(UsableDoor)
          /\ curSimNo' = UsableDoor
          /\ sim_1_Failure' = VerdictUsed
          /\ pc' = "status"
       \/ /\ UsableDoor = SIM_1
          /\ SlotKept
          /\ sim_1_Failure' = 1
          /\ pc' = "pick"
          /\ UNCHANGED curSimNo
       \/ /\ UsableDoor = SIM_2
          /\ SlotKept
          /\ sim_1_Failure' = VerdictUsed
          /\ SelectDone(FALSE)
          /\ UNCHANGED curSimNo
    /\ UNCHANGED <<mainVars, door, gprsConf, apnVars, fallback, link>>

(* Lines 158-218: check_gprs_status.  No code sets primarySimCarrier, so
   check_primary_sim answers NO_CONFIG_PRIMARY_SIM and switch_sim is not
   reached. *)
CheckSim ==
    /\ pc = "status"
    /\ \/ /\ curSimNo' = curSimDoorNo
          /\ SelectDone(TRUE)
          /\ UNCHANGED sim_1_Failure
       \/ /\ curSimDoorNo = SIM_1
          /\ sim_1_Failure' = 1
          /\ pc' = "pick"
          /\ UNCHANGED curSimNo
       \/ /\ curSimDoorNo = SIM_2
          /\ curSimNo' = 0
          /\ SelectDone(FALSE)
          /\ UNCHANGED sim_1_Failure
    /\ UNCHANGED <<mainVars, door, gprsConf, curSimDoorNo, slot, apnVars, fallback,
                   link, dial>>

-----------------------------------------------------------------------------
(* select_apn: the source the fall-through of its switch tries next.  APN_NULL
   means that none is left. *)

(* Mutant: the empty string of mobiled.conf is tried like any other APN. *)
NextSource_empty_conf(s) ==
    IF apnFlag[s] = "APN_NULL" /\ history[s] # "APN_NULL" THEN "APN_HISTORY"
    ELSE IF apnFlag[s] \in {"APN_NULL", "APN_HISTORY"} THEN "APN_GPRS_CONF"
    ELSE IF apnFlag[s] # "APN_APNS_CONF" THEN "APN_APNS_CONF" ELSE "APN_NULL"

(* Mutant: after the APN of mobiled.conf the search goes back to the history. *)
NextSource_goes_back(s) ==
    IF apnFlag[s] # "APN_HISTORY" /\ history[s] # "APN_NULL" THEN "APN_HISTORY"
    ELSE IF s \in gprsConf THEN "APN_GPRS_CONF"
    ELSE IF apnFlag[s] # "APN_APNS_CONF" THEN "APN_APNS_CONF" ELSE "APN_NULL"

NextSource(s) ==
    IF apnFlag[s] = "APN_NULL" /\ history[s] # "APN_NULL" THEN "APN_HISTORY"
    ELSE IF apnFlag[s] \in {"APN_NULL", "APN_HISTORY"} /\ s \in gprsConf
         THEN "APN_GPRS_CONF"
    ELSE IF apnFlag[s] # "APN_APNS_CONF" THEN "APN_APNS_CONF" ELSE "APN_NULL"

(* gprs_set_apn: AT+CGDCONT answers OK and the source is noted, or it does not
   and select_apn returns FAILURE with the flag as it was. *)
SetApn(s, source) ==
    \/ /\ apnFlag' = [apnFlag EXCEPT ![s] = source]
       /\ pc' = "start"
    \/ /\ UNCHANGED apnFlag
       /\ pc' = "noapn"

NoApnLeft(s) ==
    /\ apnFlag' = [apnFlag EXCEPT ![s] = "APN_NULL"]
    /\ pc' = "noapn"

SelectApn ==
    /\ pc = "apn"
    /\ \/ /\ NextSource(curSimNo) \in {"APN_HISTORY", "APN_GPRS_CONF"}
          /\ SetApn(curSimNo, NextSource(curSimNo))
       \/ /\ NextSource(curSimNo) = "APN_APNS_CONF"
          /\ pc' = "carrier"
          /\ UNCHANGED apnFlag
       \/ /\ NextSource(curSimNo) = "APN_NULL"
          /\ NoApnLeft(curSimNo)
    /\ UNCHANGED <<mainVars, door, gprsConf, simVars, slot, history, apnsConf,
                   listed, fallback, link, dial>>

(* Mutant: parse_apn_conf fills the SIM in use, and still sets curSimNo to 1. *)
FilledSim_in_use(s) == s

(* parse_apn_conf sets curSimNo to 1 and looks up and fills that SIM, whichever
   SIM select_apn is working for. *)
FilledSim(s) == SIM_1

(* The APNS_CONF source: gprs_get_carrier, then parse_apn_conf, then the APN
   of the table when the SIM has one. *)
CarrierFails ==
    /\ listed' \in {listed, [listed EXCEPT ![curSimNo] = FALSE]}
    /\ NoApnLeft(curSimNo)
    /\ UNCHANGED <<curSimNo, apnsConf>>

CarrierKnown ==
    /\ \E known \in BOOLEAN : listed' = [listed EXCEPT ![curSimNo] = known]
    /\ curSimNo' = SIM_1
    /\ \/ /\ UNCHANGED apnsConf
          /\ NoApnLeft(curSimNo)
       \/ LET s == FilledSim(curSimNo) IN
          /\ apnsConf' = [apnsConf EXCEPT ![s] = @ \/ listed'[s]]
          /\ IF apnsConf'[curSimNo] THEN SetApn(curSimNo, "APN_APNS_CONF")
                                    ELSE NoApnLeft(curSimNo)

SelectApnOfCarrier ==
    /\ pc = "carrier"
    /\ SlotSet(curSimNo) \/ SlotKept
    /\ CarrierFails \/ CarrierKnown
    /\ UNCHANGED <<mainVars, door, gprsConf, curSimDoorNo, sim_1_Failure, history,
                   fallback, link>>

(* select_apn returned a failure: SIM 1 is marked when it is the current one,
   and the other SIM is tried (544-552). *)
ApnsExhausted ==
    /\ pc = "noapn"
    /\ sim_1_Failure' = IF curSimNo = SIM_1 THEN 1 ELSE sim_1_Failure
    /\ pc' = "pick"
    /\ UNCHANGED <<mainVars, door, gprsConf, curSimDoorNo, curSimNo, slot, apnVars,
                   fallback, link, dial>>

-----------------------------------------------------------------------------
(* ppp_start and what PPP_Thread does with its outcome. *)

(* A link that is alive is used as it is; otherwise it is closed, and when that
   fails ppp_start returns without dialling. *)
ppp_start ==
    /\ pc = "start"
    /\ \/ /\ "OK" \in check_ppp_alive
          /\ pc' = "verify"
          /\ UNCHANGED link
       \/ \E t \in ppp_term :
          /\ link' = t.link
          /\ pc' = IF t.ok THEN "dial" ELSE "verify"
    /\ UNCHANGED <<mainVars, door, gprsConf, simVars, slot, apnVars, fallback, dial>>

Dialled(s) ==
    [sim |-> slot,
     source |-> IF apnFlag[s] = "APN_HISTORY" THEN history[s] ELSE apnFlag[s]]

(* The script gprs-start-pap: pppd begins to dial, unless the script fails or an
   earlier call or link still holds the port. *)
Dial ==
    /\ pc = "dial"
    /\ pc' = "verify"
    /\ \/ UNCHANGED dial
       \/ /\ link = NoLink /\ dial = NoLink
          /\ dial' = Dialled(curSimNo)
    /\ UNCHANGED <<mainVars, door, gprsConf, simVars, slot, apnVars, fallback, link>>

(* Mutant: the record keeps the flag whatever it is. *)
RecordedSource_any_flag(s) == apnFlag[s]

RecordedSource(s) ==
    IF apnFlag[s] \in {"APN_GPRS_CONF", "APN_APNS_CONF"} THEN apnFlag[s]
    ELSE history[s]

(* Lines 505-542: the link answers and its APN is recorded, or it is terminated
   and the next APN is tried. *)
Verify ==
    /\ pc = "verify"
    /\ \/ /\ "OK" \in check_ppp_alive
          /\ history' = [history EXCEPT ![curSimNo] = RecordedSource(curSimNo)]
          /\ apnFlag' = [apnFlag EXCEPT ![curSimNo] = "APN_NULL"]
          /\ pc' = "sleep"
          /\ UNCHANGED link
       \/ /\ \E t \in ppp_term : link' = t.link
          /\ pc' = "apn"
          /\ UNCHANGED <<history, apnFlag>>
    /\ UNCHANGED <<mainVars, door, gprsConf, simVars, slot, apnsConf, listed,
                   fallback, dial>>

-----------------------------------------------------------------------------
(* The loop of PPP_Thread.  g_ucWorkMode is PPP_START from line 155 of
   nc_mobiled.c on, and no code changes it. *)

(* Mutant: the loop does not ask na_proc_token. *)
TokenHeld_ignored == TRUE

TokenHeld == ~end

LoopTop ==
    /\ pc = "top"
    /\ \/ /\ ~TokenHeld
          /\ pc' = "exit"
          /\ UNCHANGED ucGprsStatus
       \/ /\ TokenHeld
          /\ ucGprsStatus = "SYS_IDLE"
          /\ ucGprsStatus' = "PPP_BUSY"
          /\ pc' = "sleep"
       \/ /\ TokenHeld
          /\ ucGprsStatus = "PPP_BUSY"
          /\ pc' = "doors"
          /\ UNCHANGED ucGprsStatus
    /\ UNCHANGED <<mpc, end, door, gprsConf, simVars, slot, apnVars, fallback, link, dial>>

CheckDoors ==
    /\ pc = "doors"
    /\ door' \in [Sims -> BOOLEAN]
    /\ pc' = "check"
    /\ UNCHANGED <<mainVars, gprsConf, simVars, slot, apnVars, fallback, link, dial>>

CheckAlive ==
    /\ pc = "check"
    /\ \/ "OK" \in check_ppp_alive /\ pc' = "alive"
       \/ "PPP_PING_ERR" \in check_ppp_alive /\ pc' = "pingerr"
       \/ "NO_PPP_DEV_ERR" \in check_ppp_alive /\ pc' = "pick"
    /\ UNCHANGED <<mainVars, door, gprsConf, simVars, slot, apnVars, fallback, link, dial>>

TermDeadLink ==
    /\ pc = "pingerr"
    /\ \E t \in ppp_term : link' = t.link
    /\ pc' = "pick"
    /\ UNCHANGED <<mainVars, door, gprsConf, simVars, slot, apnVars, fallback, dial>>

(* Mutant: the timer of the fallback starts anew on every pass. *)
FallbackTimer_again == "running"

(* The timer starts at the first pass over a live link on SIM 2, and only its
   expiry clears it: a link that is lost earlier leaves it running. *)
FallbackTimer == IF fallback = "off" THEN "running" ELSE fallback

(* The link answers.  The thresholds of check_ppp_idle are never set, so it
   answers PPP_BUSY or fails and the status stays PPP_BUSY (559-587).  On SIM 2
   with a card behind door 1 the fallback timer decides (a fallBackTime of 0 is
   over at once); its expiry terminates the link and selects a SIM (589-618). *)
LinkAlive ==
    /\ pc = "alive"
    /\ \/ /\ curSimNo = SIM_2 /\ door[SIM_1]
          /\ FallbackTimer = "running"
          /\ fallback' = FallbackTimer
          /\ pc' = "sleep"
          /\ UNCHANGED link
       \/ /\ curSimNo = SIM_2 /\ door[SIM_1]
          /\ FallbackTimer = "due" \/ fallback = "off"
          /\ fallback' = "off"
          /\ \E t \in ppp_term : link' = t.link
          /\ pc' = "pick"
       \/ /\ ~(curSimNo = SIM_2 /\ door[SIM_1])
          /\ pc' = "sleep"
          /\ UNCHANGED <<fallback, link>>
    /\ UNCHANGED <<mainVars, door, gprsConf, simVars, slot, apnVars, dial>>

Sleep ==
    /\ pc = "sleep"
    /\ pc' = "top"
    /\ UNCHANGED <<mainVars, door, gprsConf, simVars, slot, apnVars, fallback, link, dial>>

(* Lines 648-653. *)
ThreadExit ==
    /\ pc = "exit"
    /\ \E t \in ppp_term : link' = t.link
    /\ pc' = "gone"
    /\ UNCHANGED <<mainVars, door, gprsConf, simVars, slot, apnVars, fallback, dial>>

-----------------------------------------------------------------------------
(* main() after the thread was created: the serve loop, the loop that waits for
   the thread, nc_mobiled_term. *)

StopServing ==
    /\ mpc = "serve" /\ end
    /\ mpc' = "join"
    /\ UNCHANGED <<end, pc, ucGprsStatus, door, gprsConf, simVars, slot, apnVars,
                   fallback, link, dial>>

ThreadEnded == pc = "gone"

ClearContext ==
    /\ mpc = "join" /\ ThreadEnded
    /\ mpc' = "done"
    /\ UNCHANGED <<end, pc, ucGprsStatus, door, gprsConf, simVars, slot, apnVars,
                   fallback, link, dial>>

-----------------------------------------------------------------------------
(* Outside the process: SIGTERM, the clock, and pppd. *)

Sigterm ==
    /\ ~end
    /\ end' = TRUE
    /\ UNCHANGED <<mpc, ucGprsStatus, pc, door, gprsConf, simVars, slot, apnVars,
                   fallback, link, dial>>

FallbackTimePasses ==
    /\ fallback = "running"
    /\ fallback' = "due"
    /\ UNCHANGED <<mainVars, pc, door, gprsConf, simVars, slot, apnVars, link, dial>>

DialComesUp ==
    /\ dial # NoLink /\ link = NoLink
    /\ link' = dial
    /\ dial' = NoLink
    /\ UNCHANGED <<mainVars, pc, door, gprsConf, simVars, slot, apnVars, fallback>>

DialFails ==
    /\ dial # NoLink
    /\ dial' = NoLink
    /\ UNCHANGED <<mainVars, pc, door, gprsConf, simVars, slot, apnVars, fallback, link>>

LinkDrops ==
    /\ link # NoLink
    /\ link' = NoLink
    /\ UNCHANGED <<mainVars, pc, door, gprsConf, simVars, slot, apnVars, fallback, dial>>

(* The daemon has ended. *)
Ended == mpc = "done" /\ UNCHANGED vars

-----------------------------------------------------------------------------
select_sim == PickSim \/ CheckSim

select_apn == SelectApn \/ SelectApnOfCarrier

Boot == nc_mobiled_config \/ initial_gprs \/ CreateThread

PPP_Thread ==
    \/ LoopTop \/ CheckDoors \/ CheckAlive \/ TermDeadLink
    \/ select_apn \/ ApnsExhausted
    \/ ppp_start \/ Dial \/ Verify
    \/ LinkAlive \/ Sleep \/ ThreadExit

Main == StopServing \/ ClearContext

Environment == Sigterm \/ FallbackTimePasses \/ DialComesUp \/ DialFails \/ LinkDrops

Next == Boot \/ select_sim \/ PPP_Thread \/ Main \/ Environment \/ Ended

Spec == Init /\ [][Next]_vars

(* The threads are scheduled, calls return, and time passes. *)
Fairness ==
    /\ WF_vars(Boot \/ select_sim \/ PPP_Thread)
    /\ WF_vars(Main)
    /\ WF_vars(FallbackTimePasses)

FairSpec == Spec /\ Fairness

-----------------------------------------------------------------------------
(* Safety *)

(* The SIM whose APN is being selected or dialled is the one the switch connects
   to the modem.  select_sim, gprs_get_carrier and parse_apn_conf each write one
   of the two, and parse_apn_conf writes 1 whatever the SIM in use. *)
DialsSelectedSim ==
    pc \in ApnPlaces \cup DialPlaces => curSimNo = slot

(* The script is never run with the user and password arguments that ppp_start
   leaves unset: the flag names a source, and the source holds an APN. *)
DialHasCredentials ==
    pc \in DialPlaces =>
        /\ apnFlag[curSimNo] # "APN_NULL"
        /\ apnFlag[curSimNo] = "APN_HISTORY" => history[curSimNo] # "APN_NULL"
        /\ apnFlag[curSimNo] = "APN_GPRS_CONF" => curSimNo \in gprsConf
        /\ apnFlag[curSimNo] = "APN_APNS_CONF" => apnsConf[curSimNo]

(* A verdict on SIM 1 counts for the next choice of a SIM and no further: every
   other place of the thread finds the flag clear, so that SIM 1 is not passed
   over for a failure of an earlier round. *)
FailureFlagConsumed == sim_1_Failure = 1 => pc = "pick"

(* The next dial on a SIM starts at the APN that answered last: the record is of
   the SIM in the slot, is made while its link is up, and resets the search. *)
RecordsLiveSim ==
    [][\A s \in Sims : history'[s] # history[s] =>
           /\ s = slot
           /\ link # NoLink
           /\ apnFlag'[s] = "APN_NULL"]_vars

(* Within a search the sources of a SIM are tried in one direction, history,
   mobiled.conf, apns table: none is tried twice. *)
Later == {<<"APN_NULL", "APN_HISTORY">>, <<"APN_NULL", "APN_GPRS_CONF">>,
          <<"APN_NULL", "APN_APNS_CONF">>, <<"APN_HISTORY", "APN_GPRS_CONF">>,
          <<"APN_HISTORY", "APN_APNS_CONF">>, <<"APN_GPRS_CONF", "APN_APNS_CONF">>}

SourcesInOrder ==
    [][\A s \in Sims : apnFlag'[s] # apnFlag[s] =>
           apnFlag'[s] = "APN_NULL" \/ <<apnFlag[s], apnFlag'[s]>> \in Later]_vars

(* The inductive invariant: the properties above, and what they rest on. *)

(* select_sim works on the SIM behind the door it chose. *)
SimUnderTest == pc = "status" => curSimDoorNo \in Sims /\ slot = curSimDoorNo

(* A flag left from an earlier search still names a source that holds an APN,
   and no search has begun before the configuration is read. *)
FlagsNameSources ==
    \A s \in Sims :
        /\ apnFlag[s] = "APN_HISTORY" => history[s] # "APN_NULL"
        /\ apnFlag[s] = "APN_GPRS_CONF" => s \in gprsConf
        /\ apnFlag[s] = "APN_APNS_CONF" => apnsConf[s]
        /\ pc = "config" => apnFlag[s] = "APN_NULL"

(* parse_apn_conf fills SIM 1 only, so no search of SIM 2 uses the apns table. *)
NoTableApnForSim2 == ~apnsConf[SIM_2]

SessionInv ==
    /\ TypeOK
    /\ DialsSelectedSim
    /\ DialHasCredentials
    /\ FailureFlagConsumed
    /\ SimUnderTest
    /\ FlagsNameSources
    /\ NoTableApnForSim2

-----------------------------------------------------------------------------
(* Liveness *)

(* A search for an APN of one SIM ends, whatever the modem answers. *)
ApnSearchEnds == pc = "apn" ~> pc \in {"noapn", "sleep"}

(* A link on SIM 2 does not keep SIM 1 out for ever: with a card behind door 1
   it is given up for a new choice, unless that door opens or the daemon ends. *)
FallbackHappens ==
    (pc = "alive" /\ curSimNo = SIM_2 /\ door[SIM_1])
        ~> (pc \in {"pick", "gone"} \/ ~door[SIM_1])

(* SIGTERM ends the daemon once it serves, unless the thread runs out of APNs
   again and again: that inner loop does not ask for the token. *)
ShutdownUnlessSearching ==
    <>[](pc # "noapn") => ((end /\ mpc = "serve") ~> mpc = "done")

-----------------------------------------------------------------------------
(* What comments of the code say, and the code does not do. *)

(* ppp.c:482: "check the sim_door_1 sim_door_2 status always". *)
DoorsCheckedAlways ==
    (pc = "pick" /\ mpc = "serve") ~> pc \in {"doors", "gone"}

(* ppp.c:506: "If PPP is OK, record curSim'S apn / user / password", and
   gprs.h:84: "apn used last".  What is recorded is the source whose credentials the link
   was dialled with. *)
RecordsApnOfLink ==
    [][\A s \in Sims : history'[s] # history[s] =>
           link.sim = s /\ link.source = history'[s]]_vars

(* ppp.c:544: "select_apn return FAILURE ,we will try other sim again".  When
   the SIM 2 in the slot ran out of APNs, SIM 1 is not marked as the failed one. *)
TriesOtherSim ==
    [][(pc = "noapn" /\ slot = SIM_2) => sim_1_Failure' # 1]_vars
=============================================================================
