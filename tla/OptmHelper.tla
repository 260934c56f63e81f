----------------------------- MODULE OptmHelper -----------------------------
(***************************************************************************)
(* The helper thread of MOD_OPTM (mod_optm.c): it catches the events of    *)
(* the telephone, holds the port of the modem, dials, answers and hangs    *)
(* up.  Around it are the telephone with the master thread, which sets and *)
(* clears the mailboxes at any moment, the driver of the modem, as far as  *)
(* a holder of its port sees it (HalModem has the whole of it), and the    *)
(* telephone network.                                                      *)
(***************************************************************************)
EXTENDS OptmEvents

CONSTANT Modems     \* the modems of an instance: "gtm900b" and "g600", on one
                    \* port, and "uc864e", UC864E in GPRS mode, on two

VARIABLES
    modem,      \* ucModemID
    hstate,     \* stHelper.ucState
    hpc,        \* where the thread is in its pass
    flags,      \* ucEvtFlag, without RINGING and CONNECT, which nobody reads
    number,     \* stHelper.acCallID is not empty
    sid,        \* the sessions: 1 for iP1_SID, 2 for iP2_SID
    detach,     \* ucDetach
    driver,     \* "ready", "forcing" or "off"
    call,       \* the call in the modem
    left,       \* history: the helper took it for ended, and it is not
    hook,       \* the telephone is on the hook
    unseen      \* history: the last hang-up event was removed before it was caught

lineVars == <<call, left, hook>>
stateVars == <<hstate, flags, number>>
portVars == <<sid, detach, driver>>
helperOnly == <<modem, hpc, stateVars, portVars, lineVars, unseen>>
helperVars == <<helperOnly, mailVars>>

States == {"IDLE", "DIALING", "ANSWER", "ONLINE", "HANG_UP"}

(* The types, and a number only while a call is made, answered or ended. *)
HelperTypeOK ==
    /\ MailTypes
    /\ modem \in Modems
    /\ hstate \in States
    /\ hpc \in {"catch", "clear", "act", "cancel", "attach", "setup", "try", "atd", "ata", "ath"}
    /\ flags \subseteq {"OFF_HOOK", "DIAL_NO", "HANG_UP"}
    /\ {number, left, hook, unseen} \subseteq BOOLEAN
    /\ sid \subseteq {1, 2}
    /\ detach \in 0..2
    /\ driver \in {"ready", "forcing", "off"}
    /\ call \in {"none", "incoming", "dialing", "active"}

HelperInit ==
    /\ MailInit
    /\ modem \in Modems
    /\ hstate = "IDLE" /\ hpc = "catch" /\ flags = {} /\ number = FALSE
    /\ sid = {} /\ detach = 0 /\ driver \in {"ready", "off"}
    /\ call = "none" /\ left = FALSE /\ hook = TRUE /\ unseen = FALSE

(* A call is being made or is up. *)
Up == call \in {"dialing", "active"}

(* The call changes; when it is over, nothing is left of it. *)
Becomes(calls) == call' \in calls /\ left' = (left /\ call' # "none")

Goes(step) == hpc' = step
Enters(state) == hstate' = state /\ Goes("catch")

(***************************************************************************)
(* mod_optm_catch_event.  The event is looked at, and then cleared if      *)
(* there is one by then.                                                   *)
(***************************************************************************)
CatchEvent ==
    /\ hpc = "catch" /\ Goes("clear")
    /\ flags' = CASE mevent = "MCU_DIALING" -> (flags \cup {"OFF_HOOK"}) \ {"HANG_UP"}
                  [] mevent = "MCU_DIAL_NO" /\ callID -> (flags \cup {"DIAL_NO"}) \ {"HANG_UP"}
                  [] mevent = "MCU_HANG_UP" -> flags \cup {"HANG_UP"}
                  [] mevent = "MCU_CONNECT" -> flags \cup {"OFF_HOOK"}
                  [] OTHER -> flags
    /\ number' = (number \/ (mevent = "MCU_DIAL_NO" /\ callID))
    /\ UNCHANGED <<modem, hstate, portVars, lineVars, unseen, mailVars>>

ClearEvent ==
    /\ hpc = "clear" /\ Goes("act")
    /\ mevent' = NONE
    /\ unseen' = (unseen \/ (mevent = "MCU_HANG_UP" /\ "HANG_UP" \notin flags))
    /\ UNCHANGED <<modem, stateVars, portVars, lineVars, telState, callID, hevent>>

(***************************************************************************)
(* The port.                                                               *)
(***************************************************************************)
(* mod_optm_detach: without the session of the first port nothing is       *)
(* given back, but the request is forgotten.                               *)
Detached == sid' = (IF 1 \in sid THEN {} ELSE sid) /\ detach' = 0

(* The ports that mod_optm_attach takes, in this order: UC864E in GPRS mode *)
(* keeps the session of its port 1 in iP2_SID.                              *)
NextSid == IF modem = "uc864e" /\ 2 \notin sid THEN 2 ELSE 1

(* A second attach to a port that is held is refused, and the holder, which *)
(* is the helper itself, is asked to detach.                                *)
AttachAgain == modem = "uc864e" /\ 2 \in sid /\ hpc = "attach"

Attach(ok) ==
    /\ hpc = "attach"
    /\ IF AttachAgain \/ ~ok \/ driver # "ready"
       THEN Detached /\ Goes("catch")
       ELSE /\ sid' = sid \cup {NextSid} /\ UNCHANGED detach
            /\ Goes("setup")
    /\ UNCHANGED <<modem, stateVars, driver, lineVars, unseen, mailVars>>

(* The second port, if there is one, and the AT commands for the voice. *)
Setup(ok) ==
    /\ hpc = "setup"
    /\ LET all == sid \cup {1}
       IN  IF ok /\ driver # "off" /\ (sid = all \/ driver = "ready")
           THEN sid' = all /\ Goes("try") /\ UNCHANGED detach
           ELSE Detached /\ Goes("catch")
    /\ UNCHANGED <<modem, stateVars, driver, lineVars, unseen, mailVars>>

(***************************************************************************)
(* The pass through the state.                                             *)
(***************************************************************************)
(* Another module wants the port: this pass hangs up. *)
DetachRequested == hstate # "IDLE" /\ detach # 0

HangUp ==
    /\ hpc = "act" /\ (hstate = "HANG_UP" \/ DetachRequested)
    /\ hstate' = "HANG_UP" /\ Goes("ath")
    /\ hevent' = "GSM_HANG_UP"
    /\ UNCHANGED <<modem, flags, number, portVars, lineVars, unseen, mevent, telState, callID>>

(* mod_optm_ring: the line rings, or did within the last 5 s; a ring during *)
(* a payment does not count.                                                *)
mod_optm_ring == IF call = "incoming" \/ hstate = "ANSWER" THEN BOOLEAN ELSE {FALSE}

mod_optm_off_hook == flags \cap {"OFF_HOOK", "DIAL_NO"} # {}

IdlePass ==
    /\ hpc = "act" /\ hstate = "IDLE"
    /\ \E ring \in mod_optm_ring :
           IF ring THEN Enters("ANSWER") /\ UNCHANGED <<sid, detach>>
           ELSE IF mod_optm_off_hook THEN Enters("DIALING") /\ UNCHANGED <<sid, detach>>
           ELSE /\ UNCHANGED hstate
                /\ IF 1 \notin sid THEN Goes("catch") /\ UNCHANGED <<sid, detach>>
                   ELSE \/ Detached /\ Goes("catch")
                        \/ detach = 0 /\ Goes("cancel") /\ UNCHANGED <<sid, detach>>
    /\ UNCHANGED <<modem, flags, number, driver, lineVars, unseen, mailVars>>

(* "Cancel the request detach from other module": one that came since the   *)
(* test is forgotten.                                                       *)
CancelDetach ==
    /\ hpc = "cancel" /\ Goes("catch")
    /\ detach' = 0
    /\ UNCHANGED <<modem, stateVars, sid, driver, lineVars, unseen, mailVars>>

DialPass ==
    /\ hpc = "act" /\ hstate = "DIALING" /\ ~DetachRequested
    /\ Goes(IF 1 \in sid THEN "try" ELSE "attach")
    /\ UNCHANGED <<modem, stateVars, portVars, lineVars, unseen, mailVars>>

(* mod_optm_dial with the port: it waits for a number whatever happens. *)
Dial ==
    /\ hpc = "try" /\ hstate = "DIALING"
    /\ IF ~number THEN Enters("DIALING")
       ELSE IF "HANG_UP" \in flags THEN Enters("HANG_UP")
       ELSE Goes("atd") /\ UNCHANGED hstate
    /\ UNCHANGED <<modem, flags, number, portVars, lineVars, unseen, mailVars>>

(* The results of an AT command; the port of a modem that is off is closed. *)
mod_optm_at_cmd == IF driver = "off" THEN {FALSE} ELSE BOOLEAN

DialCommand ==
    /\ hpc = "atd"
    /\ \E ok \in mod_optm_at_cmd :
           /\ Enters(IF ok THEN "ONLINE" ELSE "HANG_UP")
           /\ Becomes(IF ok THEN {"dialing"}
                      ELSE IF call = "none" /\ driver # "off" THEN {"none", "dialing"} ELSE {call})
    /\ UNCHANGED <<modem, flags, number, portVars, hook, unseen, mailVars>>

(* Mutant: the ring is answered without the port. *)
AnswerPass_unattached ==
    /\ hpc = "act" /\ hstate = "ANSWER" /\ ~DetachRequested
    /\ Goes("try")
    /\ UNCHANGED <<modem, stateVars, portVars, lineVars, unseen, mailVars>>

AnswerPass ==
    /\ hpc = "act" /\ hstate = "ANSWER" /\ ~DetachRequested
    /\ \E ring \in mod_optm_ring :
           IF ring THEN Goes(IF 1 \in sid THEN "try" ELSE "attach") /\ UNCHANGED hstate
                   ELSE Enters("HANG_UP")
    /\ UNCHANGED <<modem, flags, number, portVars, lineVars, unseen, mailVars>>

(* mod_optm_answer with the port: the caller's number, the ring and, if the *)
(* telephone was lifted, the answer.                                        *)
Answer ==
    /\ hpc = "try" /\ hstate = "ANSWER"
    /\ \/ /\ number \/ TRUE \in mod_optm_at_cmd
          /\ number' \in {TRUE, number}
          /\ hevent' = "GSM_RINGING"
          /\ Goes(IF "OFF_HOOK" \in flags THEN "ata" ELSE "catch")
          /\ UNCHANGED hstate
       \/ ~number /\ Enters("HANG_UP") /\ UNCHANGED <<number, hevent>>
    /\ UNCHANGED <<modem, flags, portVars, lineVars, unseen, mevent, telState, callID>>

AnswerCommand ==
    /\ hpc = "ata"
    /\ \E ok \in mod_optm_at_cmd :
           /\ ok => call = "incoming"
           /\ Enters(IF ok THEN "ONLINE" ELSE "HANG_UP")
           /\ Becomes(IF ok THEN {"active"}
                      ELSE IF call = "incoming" THEN {"incoming", "active"} ELSE {call})
    /\ UNCHANGED <<modem, flags, number, portVars, hook, unseen, mailVars>>

(* Mutant: the flag of the hang-up is not looked at. *)
mod_optm_online_deaf ==
    /\ hpc = "act" /\ hstate = "ONLINE" /\ ~DetachRequested
    /\ Enters("ONLINE") /\ UNCHANGED hevent
    /\ UNCHANGED <<modem, flags, number, portVars, lineVars, unseen, mevent, telState, callID>>

(* mod_optm_online: the telephone was put down, the port fails, or a result *)
(* code of the modem is read, which may end the call or say it is answered. *)
mod_optm_online ==
    /\ hpc = "act" /\ hstate = "ONLINE" /\ ~DetachRequested
    /\ \/ Enters("HANG_UP") /\ UNCHANGED hevent
       \/ "HANG_UP" \notin flags /\ driver # "off"
          /\ Enters("ONLINE")
          /\ hevent' \in IF call = "active" THEN {hevent, "GSM_CONNECT"} ELSE {hevent}
    /\ UNCHANGED <<modem, flags, number, portVars, lineVars, unseen, mevent, telState, callID>>

(* The results of mod_optm_hangup, which succeeds without a port. *)
mod_optm_hangup == IF 1 \in sid THEN mod_optm_at_cmd ELSE {TRUE}

(* The calls after it has succeeded.  For G600 an ERROR to AT+MHUP counts   *)
(* as success, and then the call may be up as before.                       *)
HungUp ==
    CASE 1 \notin sid -> {call}
      [] 1 \in sid /\ modem = "g600" -> {"none", call}
      [] OTHER -> {"none"}

(* Mutant: the state is left whether the modem has hung up or not. *)
HangUpCommand_once ==
    /\ hpc = "ath"
    /\ Becomes({call, "none"})
    /\ detach' = 0 /\ number' = FALSE /\ flags' = {}
    /\ Enters("IDLE")
    /\ UNCHANGED <<modem, sid, driver, hook, unseen, mailVars>>

HangUpCommand ==
    /\ hpc = "ath"
    /\ \E ok \in mod_optm_hangup :
           IF ok
           THEN /\ call' \in HungUp
                /\ left' = (call' \in {"dialing", "active"} /\ (left \/ 1 \in sid))
                /\ detach' = IF detach = 1 THEN 0 ELSE detach
                /\ number' = FALSE /\ flags' = {}
                /\ Enters("IDLE")
           ELSE /\ Enters("HANG_UP")
                /\ Becomes({call, IF driver = "off" THEN call ELSE "none"})
                /\ UNCHANGED <<detach, number, flags>>
    /\ UNCHANGED <<modem, sid, driver, hook, unseen, mailVars>>

mod_optm_helper_body ==
    \/ CatchEvent \/ ClearEvent
    \/ \E ok \in BOOLEAN : Attach(ok) \/ Setup(ok)
    \/ HangUp \/ IdlePass \/ CancelDetach
    \/ DialPass \/ Dial \/ DialCommand
    \/ AnswerPass \/ Answer \/ AnswerCommand
    \/ mod_optm_online \/ HangUpCommand

(***************************************************************************)
(* The telephone, as the master thread passes on what it sends.            *)
(***************************************************************************)
(* The event that is posted; a hang-up event that was not caught is gone. *)
Posts(e, dial, ready) ==
    /\ mod_optm_tel_event(e, dial, ready)
    /\ unseen' = (mevent' # "MCU_HANG_UP" /\ (unseen \/ mevent = "MCU_HANG_UP"))
    /\ UNCHANGED <<modem, hpc, stateVars, portVars, call, left>>

LiftToDial == hook /\ hook' = FALSE /\ Posts("MCU_DIALING", "number", TRUE)
DialNumber(dial) == ~hook /\ UNCHANGED hook /\ Posts("MCU_DIAL_NO", dial, TRUE)
PutDown == ~hook /\ hook' = TRUE /\ Posts("MCU_HANG_UP", "number", TRUE)

(* The telephone may still act on a ring when the helper has posted more. *)
LiftToAnswer == hook /\ hook' = FALSE /\ Posts("MCU_CONNECT", "number", TRUE)
AcksRing(ready) == hook /\ UNCHANGED hook /\ Posts("MCU_RINGING", "number", ready)

(* The master sends on what the helper posted, once the telephone is free. *)
MasterTakes ==
    /\ hevent \in {"GSM_CONNECT", "GSM_HANG_UP"}
    /\ hevent' = NONE
    /\ telState' = (telState /\ hevent # "GSM_HANG_UP")
    /\ UNCHANGED <<modem, hpc, stateVars, portVars, lineVars, unseen, mevent, callID>>

(* The master opens the line to the telephone again: the number is cleared. *)
MasterReopens ==
    /\ callID /\ callID' = FALSE
    /\ UNCHANGED <<modem, hpc, stateVars, portVars, lineVars, unseen, mevent, telState, hevent>>

(***************************************************************************)
(* The driver of the modem: it asks the holder of a port, waits 5 s at     *)
(* most and switches off, and on again when nobody holds a port.           *)
(***************************************************************************)
(* Mutant: the requests are counted. *)
mod_optm_notify_counts(value) == IF sid # {} THEN detach + value ELSE detach

(* mod_optm_notify: a request does not take back the forced one. *)
mod_optm_notify(value) == IF sid # {} /\ detach < value THEN value ELSE detach

ToDriver(from, to) == driver = from /\ driver' = to

Driver ==
    /\ \/ ToDriver("ready", "ready") /\ detach' = mod_optm_notify(1) /\ UNCHANGED <<call, left>>
       \/ ToDriver("ready", "forcing") /\ detach' = mod_optm_notify(2) /\ UNCHANGED <<call, left>>
       \/ ToDriver("forcing", "off") /\ Becomes({"none"}) /\ UNCHANGED detach
       \/ ToDriver("off", "ready") /\ sid = {} /\ UNCHANGED <<detach, call, left>>
    /\ UNCHANGED <<modem, hpc, stateVars, sid, hook, unseen, mailVars>>

(* The telephone network: a call comes in, is answered at the other end, or *)
(* ends there.                                                              *)
Network ==
    /\ driver # "off"
    /\ \/ call = "none" /\ Becomes({"incoming"})
       \/ call = "dialing" /\ Becomes({"active"})
       \/ call # "none" /\ Becomes({"none"})
    /\ UNCHANGED <<modem, hpc, stateVars, portVars, hook, unseen, mailVars>>

Telephone ==
    \/ LiftToDial \/ PutDown \/ LiftToAnswer
    \/ \E dial \in Dials : DialNumber(dial)
    \/ \E ready \in BOOLEAN : AcksRing(ready)

HelperNext ==
    \/ mod_optm_helper_body
    \/ Telephone \/ MasterTakes \/ MasterReopens
    \/ Driver \/ Network

HelperSpec == HelperInit /\ [][HelperNext]_helperVars

(***************************************************************************)
(* The thread is scheduled, and a modem that can be asked again and again  *)
(* to hang up answers once that it did.                                    *)
(***************************************************************************)
HangUpWorks == HangUpCommand /\ hstate' = "IDLE"

HelperFair ==
    /\ WF_helperVars(mod_optm_helper_body)
    /\ SF_helperVars(HangUpWorks)

HelperFairSpec == HelperSpec /\ HelperFair

(* A call is made or answered only through a port that the helper holds: it *)
(* never gives the port back with a call on the line, which nobody could    *)
(* end then; but for a G600 that answers the hang-up with ERROR             *)
(* (mod_optm_detach, mod_optm_hangup).                                      *)
CallIsHeld == Up => 1 \in sid \/ left

(* A call goes on with the telephone on the hook only while the hang-up is  *)
(* on its way to the modem: in the mailbox, in the flags or in the state of *)
(* the helper; or the mailbox was written over before the helper looked, or *)
(* a G600 kept the call (mod_optm_tel_event, mod_optm_hangup).              *)
CallHasPhone ==
    Up /\ hook =>
        \/ mevent = "MCU_HANG_UP" \/ "HANG_UP" \in flags
        \/ hstate = "HANG_UP" \/ unseen \/ left

(* A telephone that was put down and stays so ends its call, whatever the   *)
(* helper was doing (mod_optm_catch_event, _dial, _online, _hangup), with   *)
(* the same two exceptions.                                                 *)
PhoneDownEndsCall == (hook /\ Up /\ ~unseen /\ ~left) ~> (~hook \/ ~Up \/ unseen \/ left)
=============================================================================
