---------------------------- MODULE MCVoice_proofs ----------------------------
(***************************************************************************)
(* The three parts of MOD_OPTM, each for itself and then in a behaviour of *)
(* VoiceSpec: the helper with its call, port and telephone, the master,    *)
(* which answers the commands of the telephone, and the file with what was *)
(* acknowledged, for every kind of modem and every set of words.           *)
(***************************************************************************)
EXTENDS MCVoice, TLAPS

(* The helper has no call, or one that a G600 kept when it was to hang up. *)
Quiet == ~Up \/ left
Dialled == {"MCU_DIALING", "MCU_DIAL_NO", "MCU_CONNECT"}
Lifted == flags \cap {"OFF_HOOK", "DIAL_NO"} # {}

(* The port is held where a command is sent that makes a call, and is given *)
(* back only where the helper has none: before the port was taken, and in   *)
(* IDLE, which is entered only when the modem said that it has hung up.     *)
PortInv ==
    /\ hpc = "attach" => 1 \notin sid
    /\ hpc = "setup" => Quiet
    /\ hpc \in {"try", "atd", "ata"} => 1 \in sid
    /\ hstate = "IDLE" => Quiet /\ hpc \in {"catch", "clear", "act", "cancel"}

(* The hang-up is on its way to the state of the helper. *)
HangUpDue == mevent = "MCU_HANG_UP" \/ "HANG_UP" \in flags \/ unseen

(* A telephone on the hook has said so after it was lifted, to whatever the *)
(* helper still has of its being lifted; and only with that does the helper *)
(* dial or answer.                                                          *)
HookInv ==
    /\ mevent \in Dialled => ~hook
    /\ hook /\ Lifted => HangUpDue
    /\ hstate = "DIALING" => Lifted
    /\ hpc = "atd" => hstate = "DIALING"
    /\ hpc = "ata" => "OFF_HOOK" \in flags
    /\ hpc = "ath" => hstate = "HANG_UP"

HelperInv == PortInv /\ HookInv /\ CallIsHeld /\ CallHasPhone

-----------------------------------------------------------------------------
(* The events that are caught change the flags only. *)
LEMMA CatchKeeps == ASSUME HelperInv, CatchEvent \/ ClearEvent PROVE HelperInv'
<1> USE DEF HelperInv, PortInv, HookInv, CallIsHeld, CallHasPhone, Quiet, Up, Lifted, HangUpDue, Goes,
        stateVars, portVars, lineVars, mailVars
<1>1. CASE CatchEvent
  <2>1. UNCHANGED <<hstate, sid, call, left, hook, unseen, mevent>> /\ hpc' = "clear"
    BY <1>1 DEF CatchEvent
  <2>2. \/ mevent \in Dialled /\ flags \subseteq flags' \cup {"HANG_UP"}
        \/ mevent \notin Dialled /\ flags \subseteq flags' /\ flags' \subseteq flags \cup {"HANG_UP"}
    BY <1>1 DEF CatchEvent, Dialled
  <2> QED
    BY <2>1, <2>2
<1>2. CASE ClearEvent
  <2>1. UNCHANGED <<hstate, flags, sid, call, left, hook>> /\ hpc' = "act"
    BY <1>2 DEF ClearEvent
  <2>2. mevent' = NONE /\ (HangUpDue => HangUpDue')
    BY <1>2, <2>1 DEF ClearEvent
  <2> QED
    BY <2>1, <2>2 DEF Dialled, NONE
<1> QED
  BY <1>1, <1>2

(* The port: taken before a call, and given back without one. *)
LEMMA PortKeeps ==
  ASSUME HelperInv, (\E ok \in BOOLEAN : Attach(ok) \/ Setup(ok)) \/ IdlePass \/ CancelDetach
  PROVE  HelperInv'
<1> USE DEF HelperInv, PortInv, HookInv, CallIsHeld, CallHasPhone, Quiet, Up, Lifted, HangUpDue, Goes, Enters,
        Detached, stateVars, portVars, lineVars, mailVars
<1>1. ASSUME NEW ok \in BOOLEAN, Attach(ok) PROVE HelperInv'
  <2>1. UNCHANGED <<hstate, flags, call, left, hook, unseen, mevent>> /\ hpc' \in {"catch", "setup"}
    BY <1>1 DEF Attach
  <2>2. Quiet /\ hstate # "IDLE"
    BY <1>1 DEF Attach
  <2> QED
    BY <2>1, <2>2
<1>2. ASSUME NEW ok \in BOOLEAN, Setup(ok) PROVE HelperInv'
  <2>1. UNCHANGED <<hstate, flags, call, left, hook, unseen, mevent>>
    BY <1>2 DEF Setup
  <2>2. Quiet /\ hstate # "IDLE"
    BY <1>2 DEF Setup
  <2>3. hpc' = "catch" \/ (hpc' = "try" /\ 1 \in sid')
    BY <1>2 DEF Setup
  <2> QED
    BY <2>1, <2>2, <2>3
<1>3. CASE IdlePass
  <2>1. UNCHANGED <<flags, call, left, hook, unseen, mevent>> /\ Quiet
    BY <1>3 DEF IdlePass
  <2>2. hpc' \in {"catch", "cancel"} /\ hstate' \in {"IDLE", "ANSWER", "DIALING"}
    BY <1>3 DEF IdlePass
  <2>3. hstate' = "DIALING" => Lifted
    BY <1>3 DEF IdlePass, mod_optm_off_hook
  <2> QED
    BY <2>1, <2>2, <2>3
<1>4. CASE CancelDetach
  BY <1>4 DEF CancelDetach
<1> QED
  BY <1>1, <1>2, <1>3, <1>4

(* The passes that make, answer and end a call. *)
LEMMA CallKeeps ==
  ASSUME HelperInv,
         \/ HangUp \/ DialPass \/ Dial \/ DialCommand
         \/ AnswerPass \/ Answer \/ AnswerCommand
         \/ mod_optm_online \/ HangUpCommand
  PROVE  HelperInv'
<1> USE DEF HelperInv, PortInv, HookInv, CallIsHeld, CallHasPhone, Quiet, Up, Lifted, HangUpDue, Goes, Enters,
        stateVars, portVars, lineVars, mailVars
<1>1. CASE HangUp
  BY <1>1 DEF HangUp
<1>2. CASE DialPass
  BY <1>2 DEF DialPass
<1>3. CASE Dial
  BY <1>3 DEF Dial
<1>4. CASE DialCommand
  <2>1. UNCHANGED <<flags, sid, hook, unseen, mevent>> /\ hpc' = "catch"
    BY <1>4 DEF DialCommand
  <2>2. hstate' \in {"ONLINE", "HANG_UP"} /\ 1 \in sid /\ Lifted
    BY <1>4 DEF DialCommand
  <2> QED
    BY <2>1, <2>2
<1>5. CASE AnswerPass
  BY <1>5 DEF AnswerPass
<1>6. CASE Answer
  BY <1>6 DEF Answer
<1>7. CASE AnswerCommand
  <2>1. UNCHANGED <<flags, sid, hook, unseen, mevent>> /\ hpc' = "catch"
    BY <1>7 DEF AnswerCommand
  <2>2. hstate' \in {"ONLINE", "HANG_UP"} /\ 1 \in sid /\ Lifted
    BY <1>7 DEF AnswerCommand
  <2> QED
    BY <2>1, <2>2
<1>8. CASE mod_optm_online
  BY <1>8 DEF mod_optm_online
<1>9. CASE HangUpCommand
  <2>1. UNCHANGED <<sid, hook, unseen, mevent>> /\ hpc' = "catch"
    BY <1>9 DEF HangUpCommand
  <2>2. \/ hstate' = "IDLE" /\ flags' = {} /\ Quiet'
        \/ hstate' = "HANG_UP" /\ flags' = flags /\ call' \in {call, "none"} /\ left' = (left /\ call' # "none")
    BY <1>9 DEF HangUpCommand, HungUp, Becomes
  <2> QED
    BY <2>1, <2>2
<1> QED
  BY <1>1, <1>2, <1>3, <1>4, <1>5, <1>6, <1>7, <1>8, <1>9

(* An event that is posted over a hang-up leaves its mark. *)
LEMMA TelephoneKeeps == ASSUME HelperInv, Telephone PROVE HelperInv'
<1> USE DEF HelperInv, PortInv, HookInv, CallIsHeld, CallHasPhone, Quiet, Up, Lifted, HangUpDue, stateVars, portVars
<1>1. ASSUME NEW e, NEW dial, NEW ready, Posts(e, dial, ready)
      PROVE  /\ UNCHANGED <<hpc, hstate, flags, sid, call, left>>
             /\ HangUpDue => HangUpDue'
             /\ mevent' \in {mevent, "MCU_HANG_UP", e}
  BY <1>1 DEF Posts, mod_optm_tel_event
<1>2. CASE LiftToDial \/ LiftToAnswer \/ \E dial \in Dials : DialNumber(dial)
  <2>1. ~hook' /\ UNCHANGED <<hpc, hstate, flags, sid, call, left>>
    <3>1. \/ LiftToDial /\ Posts("MCU_DIALING", "number", TRUE)
          \/ LiftToAnswer /\ Posts("MCU_CONNECT", "number", TRUE)
          \/ \E dial \in Dials : DialNumber(dial) /\ Posts("MCU_DIAL_NO", dial, TRUE)
      BY <1>2 DEF LiftToDial, LiftToAnswer, DialNumber
    <3>2. UNCHANGED <<hpc, hstate, flags, sid, call, left>>
      BY <1>1, <3>1
    <3>3. ASSUME NEW dial, DialNumber(dial) PROVE ~hook'
      <4>1. ~hook /\ hook' = hook
        BY <3>3 DEF DialNumber
      <4> QED
        BY <4>1
    <3>4. LiftToDial \/ LiftToAnswer => ~hook'
      BY DEF LiftToDial, LiftToAnswer
    <3> QED
      BY <1>2, <3>2, <3>3, <3>4
  <2> QED
    BY <2>1
<1>3. CASE PutDown
  <2>1. mevent' = "MCU_HANG_UP" /\ UNCHANGED <<hpc, hstate, flags, sid, call, left>>
    BY <1>3 DEF PutDown, Posts, mod_optm_tel_event
  <2> QED
    BY <2>1 DEF Dialled
<1>4. CASE \E ready \in BOOLEAN : AcksRing(ready)
  <2>1. /\ UNCHANGED <<hook, hpc, hstate, flags, sid, call, left>>
        /\ HangUpDue => HangUpDue'
        /\ mevent' \in {mevent, "MCU_HANG_UP", "MCU_RINGING"}
    BY <1>1, <1>4 DEF AcksRing
  <2> QED
    BY <2>1 DEF Dialled
<1> QED
  BY <1>2, <1>3, <1>4 DEF Telephone

(* Every step keeps the invariant. *)
LEMMA HelperNextKeeps == HelperInv /\ [HelperNext]_helperVars => HelperInv'
<1> SUFFICES ASSUME HelperInv, [HelperNext]_helperVars PROVE HelperInv'
  OBVIOUS
<1>1. ASSUME mod_optm_helper_body PROVE HelperInv'
  BY <1>1, CatchKeeps, PortKeeps, CallKeeps DEF mod_optm_helper_body
<1>2. ASSUME MasterTakes \/ MasterReopens \/ UNCHANGED helperVars PROVE HelperInv'
  BY <1>2 DEF MasterTakes, MasterReopens, helperVars, helperOnly, mailVars, stateVars, portVars, lineVars,
     HelperInv, PortInv, HookInv, CallIsHeld, CallHasPhone, Quiet, Up, Lifted, HangUpDue
<1>3. ASSUME Driver \/ Network PROVE HelperInv'
  <2>1. UNCHANGED <<hpc, hstate, flags, sid, hook, unseen, mevent>>
    BY <1>3 DEF Driver, Network, mailVars, stateVars, portVars
  <2>2. Quiet => Quiet'
    BY <1>3 DEF Driver, Network, Becomes, Quiet, Up
  <2> QED
    BY <2>1, <2>2 DEF HelperInv, PortInv, HookInv, CallIsHeld, CallHasPhone, Quiet, Up, Lifted, HangUpDue
<1> QED
  BY <1>1, <1>2, <1>3, TelephoneKeeps DEF HelperNext

(* Whatever the telephone, the driver of the modem and the network do, the  *)
(* helper keeps the call, the port and the hook in agreement.               *)
THEOREM HelperInvariant == HelperSpec => []HelperInv
<1>1. HelperInit => HelperInv
  BY DEF HelperInit, MailInit, HelperInv, PortInv, HookInv, CallIsHeld, CallHasPhone, Quiet, Up, Lifted, Dialled, NONE
<1> QED
  BY <1>1, HelperNextKeeps, PTL DEF HelperSpec

(* The helper never gives back the port of a call that it has made or       *)
(* answered, but for one that a G600 kept when it answered the hang-up with *)
(* ERROR (mod_optm_detach, mod_optm_hangup).                                *)
THEOREM CallsAreHeld == HelperSpec => []CallIsHeld
<1>1. HelperInv => CallIsHeld
  BY DEF HelperInv
<1> QED
  BY <1>1, HelperInvariant, PTL

(* A call with the telephone on the hook has a hang-up under way, or the    *)
(* mailbox was written over, or a G600 kept it (mod_optm_tel_event,         *)
(* mod_optm_catch_event, mod_optm_hangup).                                  *)
THEOREM CallsHavePhones == HelperSpec => []CallHasPhone
<1>1. HelperInv => CallHasPhone
  BY DEF HelperInv
<1> QED
  BY <1>1, HelperInvariant, PTL

-----------------------------------------------------------------------------
(* The types of the helper, in the parts that a step disturbs.             *)
HelperPlace ==
    /\ hstate \in States
    /\ hpc \in {"catch", "clear", "act", "cancel", "attach", "setup", "try", "atd", "ata", "ath"}
    /\ flags \subseteq {"OFF_HOOK", "DIAL_NO", "HANG_UP"}
    /\ number \in BOOLEAN

HelperPort ==
    /\ modem \in Modems
    /\ sid \subseteq {1, 2} /\ detach \in 0..2
    /\ driver \in {"ready", "forcing", "off"}

HelperLine ==
    /\ call \in {"none", "incoming", "dialing", "active"}
    /\ left \in BOOLEAN /\ hook \in BOOLEAN /\ unseen \in BOOLEAN

LEMMA HelperTypeParts ==
    /\ HelperTypeOK <=> MailTypes /\ HelperPlace /\ HelperPort /\ HelperLine
    /\ HelperTypeOK' <=> MailTypes' /\ HelperPlace' /\ HelperPort' /\ HelperLine'
BY DEF HelperTypeOK, HelperPlace, HelperPort, HelperLine

LEMMA MailKept == ASSUME MailTypes, UNCHANGED mailVars PROVE MailTypes'
BY DEF MailTypes, mailVars

(* An event of the telephone that is posted is one that the helper knows.  *)
LEMMA TelEventTypes ==
  ASSUME MailTypes, NEW e \in MasterEvents, NEW dial, NEW ready \in BOOLEAN,
         mod_optm_tel_event(e, dial, ready)
  PROVE  MailTypes'
<1>1. mevent' \in {mevent, e, "MCU_HANG_UP"} /\ hevent' = hevent
  BY DEF mod_optm_tel_event
<1>2. telState' \in BOOLEAN
  BY DEF mod_optm_tel_event
<1>3. callID' = (dial = "number") \/ callID' = FALSE \/ callID' = callID
  BY DEF mod_optm_tel_event
<1> QED
  BY <1>1, <1>2, <1>3 DEF MailTypes, MasterEvents

LEMMA CatchTypes ==
  ASSUME HelperTypeOK, CatchEvent \/ ClearEvent PROVE HelperTypeOK'
<1> USE DEF Goes, stateVars, portVars, lineVars, mailVars, HelperPlace, HelperPort, HelperLine
<1>1. CASE CatchEvent
  <2>1. flags' \subseteq {"OFF_HOOK", "DIAL_NO", "HANG_UP"} /\ hpc' = "clear" /\ number' \in BOOLEAN
    BY <1>1, HelperTypeParts DEF CatchEvent
  <2>2. UNCHANGED <<hstate, modem, portVars, lineVars, unseen, mailVars>>
    BY <1>1 DEF CatchEvent
  <2> QED
    BY <2>1, <2>2, MailKept, HelperTypeParts
<1>2. CASE ClearEvent
  <2>1. unseen' \in BOOLEAN /\ hpc' = "act" /\ mevent' = NONE
    BY <1>2, HelperTypeParts DEF ClearEvent
  <2>2. UNCHANGED <<modem, stateVars, portVars, lineVars, telState, callID, hevent>>
    BY <1>2 DEF ClearEvent
  <2>3. MailTypes'
    BY <2>1, <2>2, HelperTypeParts DEF MailTypes
  <2> QED
    BY <2>1, <2>2, <2>3, HelperTypeParts
<1> QED
  BY <1>1, <1>2

LEMMA PortTypes ==
  ASSUME HelperTypeOK, (\E ok \in BOOLEAN : Attach(ok) \/ Setup(ok)) \/ IdlePass \/ CancelDetach
  PROVE  HelperTypeOK'
<1> USE DEF Goes, Enters, Detached, stateVars, portVars, lineVars, HelperPlace, HelperPort, HelperLine
<1>1. UNCHANGED <<modem, flags, number, driver, lineVars, unseen, mailVars>>
  BY DEF Attach, Setup, IdlePass, CancelDetach
<1>2. hpc' \in {"catch", "setup", "try", "cancel"} /\ hstate' \in {hstate, "ANSWER", "DIALING"}
  BY DEF Attach, Setup, IdlePass, CancelDetach
<1>3. sid' \subseteq sid \cup {1, 2}
  BY DEF Attach, Setup, IdlePass, CancelDetach, NextSid
<1>4. detach' \in {detach, 0}
  BY DEF Attach, Setup, IdlePass, CancelDetach
<1> QED
  BY <1>1, <1>2, <1>3, <1>4, MailKept, HelperTypeParts DEF States

LEMMA CallTypes ==
  ASSUME HelperTypeOK,
         \/ HangUp \/ DialPass \/ Dial \/ DialCommand
         \/ AnswerPass \/ Answer \/ AnswerCommand
         \/ mod_optm_online \/ HangUpCommand
  PROVE  HelperTypeOK'
<1> USE DEF Goes, Enters, stateVars, portVars, lineVars, mailVars, HangUp, DialPass, Dial, DialCommand, AnswerPass,
        Answer, AnswerCommand, mod_optm_online, HangUpCommand
<1>1. UNCHANGED <<modem, sid, driver, hook, unseen, mevent, telState, callID>>
  OBVIOUS
<1>2. hstate' \in {hstate} \cup States
  BY DEF States
<1>3. hpc' \in {"catch", "try", "attach", "atd", "ata", "ath"}
  OBVIOUS
<1>4. flags' \in {flags, {}} /\ detach' \in {detach, 0}
  OBVIOUS
<1>5. number' = number \/ number' \in BOOLEAN
  OBVIOUS
<1>6. call' \in {call, "none", "dialing", "active", "incoming"} /\ (left' = left \/ left' \in BOOLEAN)
  BY DEF Becomes, HungUp
<1>7. hevent' \in {hevent, "GSM_HANG_UP", "GSM_RINGING", "GSM_CONNECT"}
  OBVIOUS
<1>8. MailTypes'
  BY <1>1, <1>7, HelperTypeParts DEF MailTypes, HelperEvents
<1>9. HelperPlace'
  BY <1>2, <1>3, <1>4, <1>5, HelperTypeParts DEF HelperPlace
<1>10. HelperPort' /\ HelperLine'
  BY <1>1, <1>4, <1>6, HelperTypeParts DEF HelperPort, HelperLine
<1> QED
  BY <1>8, <1>9, <1>10, HelperTypeParts

LEMMA SurroundingsTypes ==
  ASSUME HelperTypeOK, Telephone \/ MasterTakes \/ MasterReopens \/ Driver \/ Network \/ UNCHANGED helperVars
  PROVE  HelperTypeOK'
<1> USE DEF stateVars, portVars, lineVars, HelperPlace, HelperPort, HelperLine
<1>1. ASSUME NEW e \in MasterEvents, NEW dial, NEW ready \in BOOLEAN, Posts(e, dial, ready),
             hook' \in {hook, TRUE, FALSE}
      PROVE  HelperTypeOK'
  <2>1. MailTypes' /\ unseen' \in BOOLEAN
    BY <1>1, TelEventTypes, HelperTypeParts DEF Posts
  <2> QED
    BY <1>1, <2>1, HelperTypeParts DEF Posts
<1>2. ASSUME Telephone PROVE HelperTypeOK'
  <2>1. ASSUME (\E dial \in Dials : DialNumber(dial)) \/ \E ready \in BOOLEAN : AcksRing(ready) PROVE HelperTypeOK'
    BY <1>1, <2>1 DEF DialNumber, AcksRing, MasterEvents
  <2>2. ASSUME LiftToDial \/ PutDown \/ LiftToAnswer PROVE HelperTypeOK'
    BY <1>1, <2>2 DEF LiftToDial, PutDown, LiftToAnswer, MasterEvents
  <2> QED
    BY <1>2, <2>1, <2>2 DEF Telephone
<1>3. CASE MasterTakes \/ MasterReopens
  <2>1. UNCHANGED <<modem, hpc, stateVars, portVars, lineVars, unseen, mevent>>
    BY <1>3 DEF MasterTakes, MasterReopens
  <2>2. hevent' \in {hevent, NONE} /\ callID' \in {callID, FALSE} /\ (telState' = telState \/ telState' \in BOOLEAN)
    BY <1>3 DEF MasterTakes, MasterReopens
  <2>3. MailTypes'
    BY <2>1, <2>2, HelperTypeParts DEF MailTypes
  <2> QED
    BY <2>1, <2>3, HelperTypeParts
<1>4. CASE Driver \/ Network
  <2>1. UNCHANGED <<modem, hpc, stateVars, sid, hook, unseen, mailVars>>
    BY <1>4 DEF Driver, Network
  <2>2. detach' \in {detach, 1, 2} /\ driver' \in {driver, "ready", "forcing", "off"}
    BY <1>4 DEF Driver, Network, ToDriver, mod_optm_notify
  <2>3. call' \in {call, "none", "incoming", "active"} /\ (left' = left \/ left' \in BOOLEAN)
    BY <1>4 DEF Driver, Network, Becomes
  <2> QED
    BY <2>1, <2>2, <2>3, MailKept, HelperTypeParts
<1>5. CASE UNCHANGED helperVars
  BY <1>5, MailKept, HelperTypeParts DEF helperVars, helperOnly
<1> QED
  BY <1>2, <1>3, <1>4, <1>5

LEMMA HelperTypesKept == HelperTypeOK /\ [HelperNext]_helperVars => HelperTypeOK'
BY CatchTypes, PortTypes, CallTypes, SurroundingsTypes DEF HelperNext, mod_optm_helper_body

LEMMA HelperInitTypes == HelperInit => HelperTypeOK
<1> SUFFICES ASSUME HelperInit PROVE HelperTypeOK
  OBVIOUS
<1>1. MailTypes
  BY DEF HelperInit, MailInit, MailTypes
<1>2. HelperPlace
  BY DEF HelperInit, HelperPlace, States
<1>3. HelperPort
  BY DEF HelperInit, HelperPort
<1>4. HelperLine
  BY DEF HelperInit, HelperLine
<1> QED
  BY <1>1, <1>2, <1>3, <1>4, HelperTypeParts

(* The helper keeps its types for every kind of modem, the requests for its *)
(* port among them, which mod_optm_notify never counts beyond 2.            *)
THEOREM HelperTypes == HelperSpec => []HelperTypeOK
BY HelperInitTypes, HelperTypesKept, PTL DEF HelperSpec

-----------------------------------------------------------------------------
FrameInv == frame \in Received \cup {NoFrame}

(* Only receiving brings a frame, and the end of a pass takes it away. *)
LEMMA FrameKept ==
  ASSUME NEW next, NEW out, NEW again, After(next, out, again) PROVE frame' \in {frame, NoFrame}
BY DEF After, Ends, Fails

LEMMA FrameNextKeeps == FrameInv /\ [MasterNext]_masterVars => FrameInv'
<1> SUFFICES ASSUME FrameInv, [MasterNext]_masterVars PROVE FrameInv'
  OBVIOUS
<1> USE DEF FrameInv
<1>1. CASE Receive
  BY <1>1 DEF Receive, Fails
<1>2. CASE Corrupted
  BY <1>2 DEF Corrupted, Fails
<1>3. ASSUME \/ Redirects \/ StartsHandshake \/ optm_proc_handshake \/ optm_proc_idle
             \/ optm_proc_pos \/ optm_proc_close
      PROVE  FrameInv'
  <2>1. frame' \in {frame, NoFrame}
    BY <1>3, FrameKept DEF Redirects, StartsHandshake, optm_proc_handshake, optm_proc_idle, optm_proc_pos,
       optm_proc_close, Fails
  <2> QED
    BY <2>1
<1>4. ASSUME NEW ok \in BOOLEAN,
             \/ optm_proc_admin(ok) \/ optm_proc_auth(ok) \/ optm_proc_speed_dial(ok) \/ optm_proc_tel(ok)
      PROVE  FrameInv'
  <2>1. frame' \in {frame, NoFrame}
    BY <1>4, FrameKept DEF optm_proc_admin, optm_proc_auth, optm_proc_speed_dial, optm_proc_tel, TelCommand,
       TelAnswer, Fails
  <2> QED
    BY <2>1
<1>5. ASSUME (\E ok \in BOOLEAN : Reopen(ok)) \/ Look \/ ClearHelperEvent \/ HelperActs \/ NetworkModeSet
             \/ UNCHANGED masterVars
      PROVE  FrameInv'
  BY <1>5 DEF Reopen, Look, ClearHelperEvent, HelperActs, NetworkModeSet, masterVars, masterOnly
<1> QED
  BY <1>1, <1>2, <1>3, <1>4, <1>5 DEF MasterNext, mod_optm_master_body, optm_main

(* In each state the frame is one that the telephone may send, or none. *)
THEOREM FrameInvariant == MasterSpec => []FrameInv
<1>1. MasterInit => FrameInv
  BY DEF MasterInit, FrameInv
<1> QED
  BY <1>1, FrameNextKeeps, PTL DEF MasterSpec

-----------------------------------------------------------------------------
(* What a handler replies is sent before any event that waits, or the line  *)
(* fails.                                                                   *)
LEMMA RepliesFirst ==
  ASSUME NEW next, NEW out, out # NoFrame, After(next, out, FALSE) PROVE failure' \/ sent' = out
BY DEF After, Ends, Fails

Answered == failure' \/ sent' \in [class : {frame.class}, cmd : {"ACK", "NAK"}]

LEMMA ReplyAnswers ==
  ASSUME NEW next, NEW class, NEW ok \in BOOLEAN, class # NONE, frame.class = class,
         After(next, Reply(class, ok), FALSE)
  PROVE  Answered
<1>1. Reply(class, ok) \in [class : {class}, cmd : {"ACK", "NAK"}] /\ Reply(class, ok).class # NONE
  BY DEF Reply, Frame
<1>2. Reply(class, ok) # NoFrame
  BY <1>1 DEF NoFrame, Frame
<1> QED
  BY <1>1, <1>2, RepliesFirst DEF Answered

(* A command is a frame of one of the classes that reply. *)
Command == frame.class \in Replied \/ frame.cmd \in TelCommands

LEMMA CommandClass == ASSUME FrameInv, Command PROVE frame.class \in Replied \cup {"TEL", "POS"}
BY DEF FrameInv, Command, Received, Replied, TelCommands, NoFrame, Frame, NONE

(* A step of the master that takes a command in its handler answers it. *)
LEMMA StepAnswers ==
  ASSUME FrameInv, MasterNext, mpc = "loop", frame.class = proto.proc, frame' = NoFrame, Command
  PROVE  Answered
<1>1. frame.class \in Replied \cup {"TEL", "POS"} /\ frame # NoFrame
  BY CommandClass DEF Replied, NoFrame, Frame, NONE
<1>2. optm_main
  BY <1>1 DEF MasterNext, mod_optm_master_body, Reopen, Look, ClearHelperEvent, HelperActs, NetworkModeSet, masterOnly
<1>3. \/ optm_proc_pos
      \/ \E ok \in BOOLEAN :
            optm_proc_admin(ok) \/ optm_proc_auth(ok) \/ optm_proc_speed_dial(ok) \/ optm_proc_tel(ok)
  BY <1>1, <1>2 DEF optm_main, Receive, Corrupted, Redirects, StartsHandshake, optm_proc_handshake, optm_proc_idle,
     optm_proc_close, At, Replied, Classes, NONE
<1>4. CASE optm_proc_pos
  BY <1>4, ReplyAnswers DEF optm_proc_pos, Fails, Answered, NONE
<1>5. ASSUME NEW ok \in BOOLEAN, optm_proc_admin(ok) \/ optm_proc_auth(ok) \/ optm_proc_speed_dial(ok)
      PROVE  Answered
  BY <1>5, ReplyAnswers DEF optm_proc_admin, optm_proc_auth, optm_proc_speed_dial, NONE
<1>6. ASSUME NEW ok \in BOOLEAN, optm_proc_tel(ok) PROVE Answered
  <2>1. frame.class = "TEL" /\ frame.cmd \in TelCommands
    BY <1>6 DEF optm_proc_tel, Command, Replied
  <2>2. TelCommand(ok)
    BY <1>6, <2>1 DEF optm_proc_tel, TelAnswer, TelCommands
  <2> QED
    BY <2>1, <2>2, ReplyAnswers DEF TelCommand, NONE
<1> QED
  BY <1>3, <1>4, <1>5, <1>6

(* In every behaviour of the master, the telephone, the helper and the line *)
(* between them, a command that reached its handler is answered in the same *)
(* pass, or the line fails (optm_main).                                     *)
THEOREM CommandsAnswered == MasterSpec => CommandAnswered
<1> DEFINE Taken == mpc = "loop" /\ frame.class = proto.proc /\ frame' = NoFrame /\ Command
<1>1. FrameInv /\ MasterNext /\ Taken => Answered
  BY StepAnswers
<1>2. (Taken => Answered) => [(/\ mpc = "loop" /\ frame.class = proto.proc /\ frame' = NoFrame
                               /\ frame.class \in Replied \/ frame.cmd \in TelCommands)
          => (failure' \/ sent' \in [class : {frame.class}, cmd : {"ACK", "NAK"}])]_masterVars
  BY DEF Command, Answered
<1>3. FrameInv /\ [MasterNext]_masterVars =>
        [(/\ mpc = "loop" /\ frame.class = proto.proc /\ frame' = NoFrame
          /\ frame.class \in Replied \/ frame.cmd \in TelCommands)
          => (failure' \/ sent' \in [class : {frame.class}, cmd : {"ACK", "NAK"}])]_masterVars
  BY <1>1, <1>2
<1> QED
  BY <1>3, FrameInvariant, PTL DEF MasterSpec, CommandAnswered

-----------------------------------------------------------------------------
(* The types of the master: what it keeps from one pass to the next, and   *)
(* what a pass does with it.                                               *)
EventSet == [frame : Events \cup {NoFrame}, pending : BOOLEAN, timer : BOOLEAN]
ProtoSet == [proc : Classes \cup {NONE, "IDLE", "FAX", "CLOSE"}, shake : BOOLEAN, event : EventSet]

(* The clock of an event runs only while it is pending. *)
EventTyped(event) == event \in EventSet /\ (event.timer => event.pending)
ProtoTyped(p) == p \in ProtoSet /\ EventTyped(p.event)

PassType ==
    /\ failure \in BOOLEAN
    /\ mpc \in {"look", "clear", "main", "loop"}
    /\ ProtoTyped(proto)
    /\ cache \in [frame : Sent, pending : BOOLEAN]
    /\ frame \in Received \cup {NoFrame}
    /\ sent \in Sent

LEMMA MasterTypeParts ==
    /\ MasterTypeOK <=> MailTypes /\ ucState \in {"IDLE", "ONLINE"} /\ PassType
    /\ MasterTypeOK' <=> MailTypes' /\ ucState' \in {"IDLE", "ONLINE"} /\ PassType'
BY DEF MasterTypeOK, PassType, ProtoTyped, ProtoSet, EventTyped, EventSet

(* What is sent at some time: nothing, an event, or an answer. *)
LEMMA SentFrames ==
    /\ NoFrame \in Sent /\ Nak \in Sent /\ Frame("HANDSHAKE", "EXCHANGE") \in Sent
    /\ Events \subseteq Sent
    /\ \A e \in HelperEvents : Frame("TEL", e) \in Events
    /\ \A class \in Classes, ok \in BOOLEAN : Reply(class, ok) \in Sent
<1>1. \A class \in Classes, ok \in BOOLEAN : Reply(class, ok) \in Answers
  BY DEF Reply, Frame, Answers
<1> QED
  BY <1>1 DEF Sent, Events, Frame

LEMMA NoEventTyped ==
    /\ EventTyped(NoEvent)
    /\ \A again \in BOOLEAN : EventTyped([NoEvent EXCEPT !.pending = again])
BY DEF NoEvent, EventTyped, EventSet

LEMMA InitTyped == ProtoTyped(optm_init) /\ NoCache \in [frame : Sent, pending : BOOLEAN]
BY NoEventTyped, SentFrames DEF optm_init, ProtoTyped, ProtoSet, EventTyped, NoCache, Classes

LEMMA EventChanges ==
  ASSUME NEW p, ProtoTyped(p), NEW event, EventTyped(event)
  PROVE  ProtoTyped([p EXCEPT !.event = event])
BY DEF ProtoTyped, ProtoSet, EventTyped

LEMMA ProcChanges ==
  ASSUME NEW p, ProtoTyped(p), NEW proc \in Classes \cup {NONE, "IDLE", "FAX", "CLOSE"}, NEW shake \in BOOLEAN
  PROVE  /\ ProtoTyped([p EXCEPT !.proc = proc])
         /\ ProtoTyped([p EXCEPT !.proc = proc, !.shake = shake])
BY DEF ProtoTyped, ProtoSet, EventTyped

LEMMA FailsTypes == ASSUME Fails PROVE PassType'
BY InitTyped, SentFrames DEF Fails, PassType

LEMMA EndsTypes ==
  ASSUME PassType, NEW next, ProtoTyped(next), NEW out \in Sent, Ends(next, out)
  PROVE  PassType'
<1>1. CASE Fails
  BY <1>1, FailsTypes
<1>2. CASE ~Fails
  <2>1. mpc' = "look" /\ frame' = NoFrame /\ proto' = next /\ sent' = out /\ failure' = failure
    BY <1>2 DEF Ends
  <2>2. cache' = cache \/ cache' = [frame |-> out, pending |-> TRUE]
    BY <1>2 DEF Ends
  <2>3. [frame |-> out, pending |-> TRUE] \in [frame : Sent, pending : BOOLEAN]
    OBVIOUS
  <2>4. cache' \in [frame : Sent, pending : BOOLEAN]
    BY <2>2, <2>3 DEF PassType
  <2> QED
    BY <2>1, <2>4 DEF PassType
<1> QED
  BY <1>1, <1>2

LEMMA WaitsTyped ==
  ASSUME NEW event, EventTyped(event)
  PROVE  EventTyped(Waits(event))
BY DEF Waits, EventTyped, EventSet

(* What comes after a handler keeps the types, whatever the handler did. *)
LEMMA AfterTypes ==
  ASSUME PassType, NEW next, ProtoTyped(next), NEW out \in Sent, NEW again \in BOOLEAN, After(next, out, again)
  PROVE  PassType'
<1>1. CASE out = NoFrame /\ Unsent(next.event)
  <2> DEFINE after == [next EXCEPT !.proc = NONE, !.event.pending = TRUE, !.event.timer = TRUE]
  <2>1. Ends(after, next.event.frame)
    BY <1>1 DEF After
  <2>2. ProtoTyped(after)
    BY DEF ProtoTyped, ProtoSet, EventTyped, EventSet
  <2>3. next.event.frame \in Sent
    BY SentFrames DEF ProtoTyped, ProtoSet, EventSet
  <2> QED
    BY <2>1, <2>2, <2>3, EndsTypes
<1>2. CASE ~(out = NoFrame /\ Unsent(next.event))
  <2>1. PICK event \in {Waits(next.event), NoEvent} :
            LET timed == [next EXCEPT !.event = event]
            IN  IF again THEN proto' = timed /\ UNCHANGED <<failure, mpc, cache, frame, sent>>
                         ELSE Ends(timed, out)
    BY <1>2 DEF After
  <2>2. EventTyped(event)
    BY WaitsTyped, NoEventTyped DEF ProtoTyped
  <2>3. ProtoTyped([next EXCEPT !.event = event])
    BY <2>2, EventChanges
  <2>4. CASE again
    BY <2>1, <2>3, <2>4 DEF PassType
  <2>5. CASE ~again
    BY <2>1, <2>3, <2>5, EndsTypes
  <2> QED
    BY <2>4, <2>5
<1> QED
  BY <1>1, <1>2

(* An event of the helper is taken into the protocol. *)
LEMMA EventTaken ==
  ASSUME ProtoTyped(proto), NEW e \in HelperEvents, optm_event(e)
  PROVE  ProtoTyped(proto')
<1>1. Frame("TEL", e) \in Events
  BY SentFrames
<1> QED
  BY <1>1 DEF optm_event, ProtoTyped, ProtoSet, EventTyped, EventSet, Classes

LEMMA LookTypes == ASSUME MasterTypeOK, Look PROVE MasterTypeOK'
<1>1. UNCHANGED <<failure, cache, frame, mevent, callID, hevent>> /\ sent' = NoFrame /\ failure = FALSE
  BY MasterTypeParts DEF Look, PassType
<1>2. mpc' \in {mpc, "main", "clear"} /\ ucState' \in {ucState, "ONLINE", "IDLE"}
  BY DEF Look, MasterIdle, MasterOnline
<1>3. ProtoTyped(proto')
  <2>1. proto' = proto \/ \E e \in HelperEvents : optm_event(e)
    BY DEF Look, MasterIdle, MasterOnline, HelperEvents
  <2> QED
    BY <2>1, EventTaken, MasterTypeParts DEF PassType
<1>4. telState' = telState \/ telState' \in BOOLEAN
  BY DEF Look, MasterIdle, MasterOnline
<1>5. MailTypes'
  BY <1>1, <1>4, MasterTypeParts DEF MailTypes
<1>6. PassType'
  BY <1>1, <1>2, <1>3, SentFrames, MasterTypeParts DEF PassType
<1> QED
  BY <1>2, <1>5, <1>6, MasterTypeParts

LEMMA AroundTypes ==
  ASSUME MasterTypeOK,
         \/ \E ok \in BOOLEAN : Reopen(ok)
         \/ ClearHelperEvent \/ Receive \/ HelperActs \/ NetworkModeSet \/ UNCHANGED masterVars
  PROVE  MasterTypeOK'
<1>1. ASSUME NEW ok \in BOOLEAN, Reopen(ok) PROVE MasterTypeOK'
  BY <1>1, MasterTypeParts DEF Reopen, MailTypes, PassType
<1>2. CASE ClearHelperEvent
  BY <1>2, MasterTypeParts DEF ClearHelperEvent, MailTypes, PassType
<1>3. CASE Receive
  <2>1. CASE Fails
    BY <1>3, <2>1, FailsTypes, MailKept, MasterTypeParts DEF Receive
  <2>2. CASE ~Fails
    BY <1>3, <2>2, MailKept, MasterTypeParts DEF Receive, PassType
  <2> QED
    BY <2>1, <2>2
<1>4. CASE HelperActs
  BY <1>4, MasterTypeParts DEF HelperActs, MailTypes, masterOnly, PassType
<1>5. CASE NetworkModeSet
  <2>1. ProtoTyped(proto')
    BY <1>5, ProcChanges, MasterTypeParts DEF NetworkModeSet, PassType, Classes
  <2> QED
    BY <1>5, <2>1, MailKept, MasterTypeParts DEF NetworkModeSet, PassType
<1>6. CASE UNCHANGED masterVars
  BY <1>6, MailKept, MasterTypeParts DEF masterVars, masterOnly, PassType
<1> QED
  BY <1>1, <1>2, <1>3, <1>4, <1>5, <1>6

LEMMA CorruptedTypes == ASSUME MasterTypeOK, Corrupted PROVE MasterTypeOK'
<1>1. UNCHANGED <<ucState, mailVars>>
  BY DEF Corrupted
<1>2. PassType'
  <2>1. CASE Fails
    BY <2>1, FailsTypes
  <2>2. CASE ~Fails
    <3> DEFINE again == cache.pending /\ frame.cmd = "LRC"
    <3>1. /\ mpc' = "look" /\ frame' = NoFrame /\ failure' = failure
          /\ sent' = IF again THEN cache.frame ELSE Nak
          /\ cache' = [frame |-> sent', pending |-> TRUE]
          /\ proto' = [proto EXCEPT !.event = [NoEvent EXCEPT !.pending = again]]
      BY <2>2 DEF Corrupted
    <3>2. sent' \in Sent
      BY <3>1, SentFrames, MasterTypeParts DEF PassType
    <3>3. again \in BOOLEAN
      BY MasterTypeParts DEF PassType
    <3>4. ProtoTyped(proto')
      <4> HIDE DEF again
      <4> QED
        BY <3>1, <3>3, NoEventTyped, EventChanges, MasterTypeParts DEF PassType
    <3> QED
      BY <3>1, <3>2, <3>4, MasterTypeParts DEF PassType
  <2> QED
    BY <2>1, <2>2
<1> QED
  BY <1>1, <1>2, MailKept, MasterTypeParts

(* The handlers that leave the mailboxes alone. *)
LEMMA HandlerTypes ==
  ASSUME MasterTypeOK,
         \/ Redirects \/ StartsHandshake \/ optm_proc_handshake \/ optm_proc_idle \/ optm_proc_pos
         \/ \E ok \in BOOLEAN : optm_proc_admin(ok) \/ optm_proc_auth(ok) \/ optm_proc_speed_dial(ok)
  PROVE  MasterTypeOK'
<1>1. UNCHANGED <<ucState, mailVars>>
  BY DEF Redirects, StartsHandshake, optm_proc_handshake, optm_proc_idle, optm_proc_pos, optm_proc_admin,
     optm_proc_auth, optm_proc_speed_dial
<1> DEFINE Proc(p) == [proto EXCEPT !.proc = p]
           Shaken(p, shake) == [proto EXCEPT !.proc = p, !.shake = shake]
<1>2. /\ PassType /\ ProtoTyped(proto)
      /\ \A p \in Classes \cup {NONE, "IDLE", "FAX", "CLOSE"} :
             ProtoTyped(Proc(p)) /\ \A shake \in BOOLEAN : ProtoTyped(Shaken(p, shake))
  BY ProcChanges, MasterTypeParts DEF PassType
<1>3. {"HANDSHAKE", "ADMIN", "AUTH", "SPEED_DIAL", "TEL", "POS"} = Classes
  BY DEF Classes, Replied
<1>4. CASE Redirects \/ StartsHandshake
  <2>1. \E p \in {"IDLE", "HANDSHAKE"} : After(Proc(p), NoFrame, TRUE)
    BY <1>4 DEF Redirects, StartsHandshake
  <2> QED
    BY <1>1, <1>2, <1>3, <2>1, AfterTypes, SentFrames, MailKept, MasterTypeParts
<1>5. CASE optm_proc_handshake
  <2>1. \/ After(Shaken("IDLE", TRUE), NoFrame, FALSE)
        \/ After(proto, NoFrame, FALSE)
        \/ After(proto, Frame("HANDSHAKE", "EXCHANGE"), FALSE)
    BY <1>5 DEF optm_proc_handshake
  <2> QED
    BY <1>1, <1>2, <1>3, <2>1, AfterTypes, SentFrames, MailKept, MasterTypeParts
<1>6. CASE optm_proc_idle
  <2>1. frame.class \in {NONE, "UNKNOWN", "FAX"} \cup Classes
    <3>1. \A f \in Received : f.class \in {"UNKNOWN", "FAX", "CORRUPTED"} \cup Classes
      BY <1>3 DEF Received
    <3>2. NoFrame.class = NONE
      BY DEF NoFrame, Frame
    <3> QED
      BY <1>2, <1>6, <3>1, <3>2 DEF optm_proc_idle, At, PassType
  <2>2. \/ After(proto, NoFrame, FALSE)
        \/ \E p \in Classes \cup {"FAX"} : After(Proc(p), NoFrame, p # "FAX")
    BY <1>6, <2>1 DEF optm_proc_idle
  <2> QED
    BY <1>1, <1>2, <2>2, AfterTypes, SentFrames, MailKept, MasterTypeParts
<1>7. CASE optm_proc_pos
  <2>1. Fails \/ After(proto, Reply("POS", TRUE), FALSE)
    BY <1>7 DEF optm_proc_pos
  <2> QED
    BY <1>1, <1>2, <1>3, <2>1, AfterTypes, FailsTypes, SentFrames, MailKept, MasterTypeParts
<1>8. ASSUME NEW ok \in BOOLEAN, optm_proc_admin(ok) \/ optm_proc_auth(ok) \/ optm_proc_speed_dial(ok)
      PROVE  MasterTypeOK'
  <2>1. \E class \in {"ADMIN", "AUTH", "SPEED_DIAL"} :
            \/ After(Proc("IDLE"), Reply(class, ok), FALSE)
            \/ After(Shaken("HANDSHAKE", FALSE), Reply(class, ok), FALSE)
    BY <1>8 DEF optm_proc_admin, optm_proc_auth, optm_proc_speed_dial
  <2> QED
    BY <1>1, <1>2, <1>3, <2>1, AfterTypes, SentFrames, MailKept, MasterTypeParts
<1> QED
  BY <1>4, <1>5, <1>6, <1>7, <1>8

(* The handlers that post an event of the telephone. *)
LEMMA TelTypes ==
  ASSUME MasterTypeOK, optm_proc_close \/ \E ok \in BOOLEAN : optm_proc_tel(ok)
  PROVE  MasterTypeOK'
<1>1. ucState' = ucState
  BY DEF optm_proc_close, optm_proc_tel
<1> DEFINE Proc(p) == [proto EXCEPT !.proc = p]
<1>2. /\ PassType /\ MailTypes /\ ProtoTyped(proto)
      /\ \A p \in {"TEL", "IDLE", "CLOSE"} : ProtoTyped(Proc(p))
      /\ ProtoTyped([proto EXCEPT !.event = NoEvent])
  BY ProcChanges, EventChanges, NoEventTyped, MasterTypeParts DEF PassType, Classes
<1>3. ASSUME optm_proc_close PROVE MasterTypeOK'
  <2>1. mod_optm_tel_event("MCU_HANG_UP", "number", TRUE) \/ UNCHANGED mailVars
    BY <1>3 DEF optm_proc_close
  <2>2. After(Proc("IDLE"), NoFrame, TRUE)
    BY <1>3 DEF optm_proc_close
  <2> QED
    BY <1>1, <1>2, <2>1, <2>2, AfterTypes, SentFrames, TelEventTypes, MailKept, MasterTypeParts DEF MasterEvents
<1>4. ASSUME NEW ok \in BOOLEAN, TelCommand(ok) PROVE MailTypes' /\ PassType'
  <2>1. \E e \in MasterEvents, dial \in Dials : mod_optm_tel_event(e, dial, TRUE)
    <3>1. frame.cmd \in TelCommands /\ \E dial \in Dials : mod_optm_tel_event(Posted[frame.cmd], dial, TRUE)
      BY <1>4 DEF TelCommand, Dials
    <3>2. \A cmd \in TelCommands : Posted[cmd] \in MasterEvents
      <4>1. /\ Posted["DIALING"] = "MCU_DIALING" /\ Posted["DIAL_NO"] = "MCU_DIAL_NO"
            /\ Posted["HANG_UP"] = "MCU_HANG_UP" /\ Posted["CONNECT"] = "MCU_CONNECT"
        BY DEF Posted
      <4> QED
        BY <4>1 DEF TelCommands, MasterEvents
    <3> QED
      BY <3>1, <3>2
  <2>2. \E p \in {"TEL", "CLOSE"} : After(Proc(p), Reply("TEL", ok), FALSE)
    BY <1>4 DEF TelCommand
  <2> QED
    BY <1>2, <2>1, <2>2, AfterTypes, SentFrames, TelEventTypes DEF Classes
<1>5. ASSUME TelAnswer PROVE MailTypes' /\ PassType'
  <2>1. \/ Fails /\ UNCHANGED mailVars
        \/ After([proto EXCEPT !.event = NoEvent], NoFrame, FALSE)
    BY <1>5 DEF TelAnswer
  <2>2. \/ UNCHANGED mailVars
        \/ \E ready \in BOOLEAN : mod_optm_tel_event("MCU_RINGING", "number", ready)
        \/ mod_optm_tel_event("MCU_HANG_UP", "number", TRUE)
    BY <1>5 DEF TelAnswer
  <2> QED
    BY <1>2, <2>1, <2>2, AfterTypes, FailsTypes, SentFrames, TelEventTypes, MailKept DEF MasterEvents
<1>6. ASSUME NEW ok \in BOOLEAN, optm_proc_tel(ok) PROVE MailTypes' /\ PassType'
  <2>1. \/ TelCommand(ok) \/ TelAnswer
        \/ After(proto, NoFrame, FALSE) /\ UNCHANGED mailVars
    BY <1>6 DEF optm_proc_tel
  <2> QED
    BY <1>2, <1>4, <1>5, <2>1, AfterTypes, SentFrames, MailKept
<1> QED
  BY <1>1, <1>3, <1>6, MasterTypeParts

LEMMA MasterTypesKept == MasterTypeOK /\ [MasterNext]_masterVars => MasterTypeOK'
BY LookTypes, AroundTypes, CorruptedTypes, HandlerTypes, TelTypes
   DEF MasterNext, mod_optm_master_body, optm_main

LEMMA MasterInitTypes == MasterInit => MasterTypeOK
<1> SUFFICES ASSUME MasterInit PROVE MasterTypeOK
  OBVIOUS
<1>1. MailTypes
  BY DEF MasterInit, MailInit, MailTypes
<1>2. PassType
  BY InitTyped, SentFrames DEF MasterInit, PassType
<1> QED
  BY <1>1, <1>2, MasterTypeParts DEF MasterInit

(* The master keeps its types whatever the telephone sends: what it sends   *)
(* is an event or an answer, and the clock of an event runs only while the  *)
(* event is pending (optm_main).                                            *)
THEOREM MasterTypes == MasterSpec => []MasterTypeOK
BY MasterInitTypes, MasterTypesKept, PTL DEF MasterSpec

-----------------------------------------------------------------------------
(* The step at which an edit stands says what the file holds: the old text *)
(* until it is opened, the new one when it was written.  In between it is  *)
(* empty, and the copy is all there is.                                    *)
EditType == edit \in [at : {"none", "unlock", "open", "write", "lock"}, entry : Entries, copy : [Entries -> Values]]

StoreInv ==
    /\ EditType
    /\ file \in [Entries -> Values] /\ lost \in BOOLEAN
    /\ edit.at \in {"none", "unlock", "open"} /\ ~lost => file = acked
    /\ edit.at \in {"write", "lock"} /\ ~lost => edit.copy = Edited(acked)
    /\ edit.at = "lock" /\ ~lost => file = edit.copy

(* At the start the file is what was acknowledged.                         *)
LEMMA StoreInitHolds == StoreInit => StoreInv
<1> SUFFICES ASSUME StoreInit PROVE StoreInv
  OBVIOUS
<1>1. Blank \in [Entries -> Values]
  BY DEF Blank, Values
<1>2. EditType
  BY <1>1 DEF StoreInit, NoEdit, EditType, Entries
<1>3. file \in [Entries -> Values]
  <2>1. CASE present = FALSE
    BY <1>1, <2>1 DEF StoreInit
  <2>2. CASE present = TRUE
    <3>1. file \in [Entries -> {Unset, Empty, Super}]
      BY <2>2, <1>1 DEF StoreInit
    <3> QED
      BY <3>1, SuperIsAWord DEF Values
  <2> QED
    BY <2>1, <2>2 DEF StoreInit
<1> QED
  BY <1>2, <1>3 DEF StoreInv, StoreInit, NoEdit

(* The copy of an edit has the types of the file, whatever is cut. *)
LEMMA EditCopies ==
  ASSUME file \in [Entries -> Values], NEW e \in Entries, NEW word \in Values, mod_optm_edit_file(e, word)
  PROVE  EditType' /\ edit'.at = "unlock"
<1>1. PICK cut \in SUBSET (Entries \ {e}) :
          edit' = [at |-> "unlock", entry |-> e,
                   copy |-> [x \in Entries |-> IF x = e THEN word ELSE IF x \in cut THEN Unset ELSE file[x]]]
  BY DEF mod_optm_edit_file
<1>2. [x \in Entries |-> IF x = e THEN word ELSE IF x \in cut THEN Unset ELSE file[x]] \in [Entries -> Values]
  BY DEF Values
<1> QED
  BY <1>1, <1>2 DEF EditType

(* Only an edit that begins reads the file, and it begins from Idle.       *)
LEMMA EditBegins ==
  ASSUME StoreInv, NEW e \in Entries, NEW word \in Values, Idle, mod_optm_edit_file(e, word)
  PROVE  StoreInv'
<1>1. EditType' /\ edit'.at = "unlock"
  BY EditCopies DEF StoreInv
<1>2. file' = file /\ acked' = acked /\ lost' = lost
  BY DEF mod_optm_edit_file
<1>3. ~lost => file = acked
  BY DEF StoreInv, Idle
<1> QED
  BY <1>1, <1>2, <1>3 DEF StoreInv

(* An edit that is over leaves none, and the file as it was acknowledged.  *)
LEMMA NoEditIsAnEdit == NoEdit.at = "none" /\ NoEdit \in [at : {"none", "unlock", "open", "write", "lock"}, entry : Entries, copy : [Entries -> Values]]
<1>1. Blank \in [Entries -> Values]
  BY DEF Blank, Values
<1> QED
  BY <1>1 DEF NoEdit, Entries

(* Every step keeps the file and the edit in agreement.                    *)
LEMMA StoreNextKeeps == StoreInv /\ [StoreNext]_storeVars => StoreInv'
<1> SUFFICES ASSUME StoreInv, [StoreNext]_storeVars PROVE StoreInv'
  OBVIOUS
<1> USE DEF StoreInv, EditType, Edited
<1>1. ASSUME NEW word \in Words, mod_optm_admin_login(word) PROVE StoreInv'
  BY <1>1 DEF mod_optm_admin_login
<1>2. ASSUME NEW word \in Words,
             \/ mod_optm_admin_chg_pwd(word) \/ mod_optm_alt_auth_pwd(word)
             \/ mod_optm_speed_dial_add(word)
      PROVE  StoreInv'
  <2>1. Idle /\ \E e \in Entries : mod_optm_edit_file(e, word)
    BY <1>2 DEF mod_optm_admin_chg_pwd, mod_optm_alt_auth_pwd, mod_optm_speed_dial_add, Entries
  <2> QED
    BY <2>1, EditBegins DEF Values
<1>3. ASSUME mod_optm_speed_dial_del PROVE StoreInv'
  BY <1>3, EditBegins DEF mod_optm_speed_dial_del, Entries, Values
<1>4. ASSUME mod_optm_admin_logout PROVE StoreInv'
  BY <1>4 DEF mod_optm_admin_logout
<1>5. ASSUME mod_optm_script PROVE StoreInv'
  BY <1>5 DEF mod_optm_script
<1>6. ASSUME EditOpen PROVE StoreInv'
  <2>1. Blank \in [Entries -> Values]
    BY DEF Blank, Values
  <2> QED
    BY <1>6, <2>1 DEF EditOpen
<1>7. ASSUME NEW ok \in BOOLEAN, EditWrite(ok) PROVE StoreInv'
  <2>1. edit'.at = "lock" /\ edit'.copy = edit.copy /\ EditType'
    BY <1>7 DEF EditWrite
  <2>2. CASE ok
    BY <1>7, <2>1, <2>2 DEF EditWrite
  <2>3. CASE ~ok
    BY <1>7, <2>1, <2>3 DEF EditWrite
  <2> QED
    BY <2>2, <2>3
<1>8. ASSUME EditDone PROVE StoreInv'
  BY <1>8, NoEditIsAnEdit DEF EditDone
<1>9. ASSUME EditFails PROVE StoreInv'
  BY <1>9, NoEditIsAnEdit DEF EditFails
<1>10. ASSUME Stops PROVE StoreInv'
  <2>1. edit'.at = "none" /\ EditType' /\ file' = file
    BY <1>10, NoEditIsAnEdit DEF Stops
  <2>2. CASE edit.at = "lock"
    BY <1>10, <2>1, <2>2 DEF Stops
  <2>3. CASE edit.at = "write"
    BY <1>10, <2>1, <2>3 DEF Stops
  <2>4. CASE edit.at \in {"none", "unlock", "open"}
    BY <1>10, <2>1, <2>4 DEF Stops
  <2> QED
    BY <2>2, <2>3, <2>4
<1>11. ASSUME UNCHANGED storeVars PROVE StoreInv'
  BY <1>11 DEF storeVars
<1> QED
  BY <1>1, <1>2, <1>3, <1>4, <1>5, <1>6, <1>7, <1>8, <1>9, <1>10, <1>11 DEF StoreNext

(* What the telephone was told is stored is in the file, for every set of   *)
(* words, however the edits of mod_optm_edit_file fail or are cut off, but  *)
(* in the window where the file is empty, and but for a file longer than    *)
(* its buffer.                                                              *)
THEOREM AckedStored == StoreSpec => []AckedIsStored
<1>1. StoreInv => AckedIsStored
  BY DEF StoreInv, AckedIsStored, Idle
<1> QED
  BY <1>1, StoreInitHolds, StoreNextKeeps, PTL DEF StoreSpec

-----------------------------------------------------------------------------
(* The types of the file.  It is missing only until an edit has opened it,  *)
(* which the step of the edit remembers.                                    *)
StoreTyped ==
    /\ EditType
    /\ admin \in BOOLEAN /\ present \in BOOLEAN /\ lost \in BOOLEAN
    /\ file \in [Entries -> Values] /\ acked \in [Entries -> Values]
    /\ ~present => file = Blank
    /\ edit.at \in {"write", "lock"} => present

LEMMA BlankTyped == Blank \in [Entries -> Values]
BY DEF Blank, Values

LEMMA StoreInitTypes == StoreInit => StoreTyped
<1> SUFFICES ASSUME StoreInit PROVE StoreTyped
  OBVIOUS
<1>1. StoreInv
  BY StoreInitHolds
<1>2. acked = file /\ edit.at = "none"
  BY DEF StoreInit, NoEdit
<1>3. present \in BOOLEAN /\ (~present => file = Blank)
  BY DEF StoreInit
<1>4. admin \in BOOLEAN
  BY DEF StoreInit
<1> QED
  BY <1>1, <1>2, <1>3, <1>4 DEF StoreInv, StoreTyped

(* An edit that begins is of an entry, with one of the values. *)
LEMMA EditBeginsTyped ==
  ASSUME StoreTyped, NEW e \in Entries, NEW word \in Values, mod_optm_edit_file(e, word)
  PROVE  StoreTyped'
<1>1. EditType' /\ edit'.at = "unlock"
  BY EditCopies DEF StoreTyped
<1> QED
  BY <1>1 DEF mod_optm_edit_file, StoreTyped

LEMMA StoreTypesKept == StoreTyped /\ [StoreNext]_storeVars => StoreTyped'
<1> SUFFICES ASSUME StoreTyped, [StoreNext]_storeVars PROVE StoreTyped'
  OBVIOUS
<1> USE DEF StoreTyped
<1>1. ASSUME NEW word \in Words, mod_optm_admin_login(word) PROVE StoreTyped'
  <2>1. admin' \in BOOLEAN
    BY <1>1 DEF mod_optm_admin_login
  <2> QED
    BY <1>1, <2>1 DEF mod_optm_admin_login, EditType
<1>2. ASSUME \/ mod_optm_speed_dial_del
             \/ \E word \in Words : \/ mod_optm_admin_chg_pwd(word) \/ mod_optm_alt_auth_pwd(word)
                                    \/ mod_optm_speed_dial_add(word)
      PROVE  StoreTyped'
  <2>1. \E e \in Entries, word \in Values : mod_optm_edit_file(e, word)
    BY <1>2 DEF mod_optm_admin_chg_pwd, mod_optm_alt_auth_pwd, mod_optm_speed_dial_add, mod_optm_speed_dial_del,
       Entries, Values
  <2> QED
    BY <2>1, EditBeginsTyped
<1>3. CASE mod_optm_admin_logout \/ UNCHANGED storeVars
  BY <1>3 DEF mod_optm_admin_logout, EditType, storeVars
<1>4. CASE mod_optm_script \/ EditOpen
  <2>1. EditType' /\ edit'.at \in {"open", "write"} /\ (edit'.at = "write" => present')
    BY <1>4 DEF mod_optm_script, EditOpen, EditType
  <2>2. \/ UNCHANGED <<present, file>>
        \/ present' = TRUE /\ file' = Blank
    BY <1>4 DEF mod_optm_script, EditOpen
  <2>3. UNCHANGED <<admin, acked>> /\ (lost' = lost \/ lost' \in BOOLEAN)
    BY <1>4 DEF mod_optm_script, EditOpen
  <2> QED
    BY <2>1, <2>2, <2>3, BlankTyped
<1>5. ASSUME NEW ok \in BOOLEAN, EditWrite(ok) PROVE StoreTyped'
  <2>1. EditType' /\ edit'.at = "lock" /\ present' /\ present' = present
    BY <1>5 DEF EditWrite, EditType
  <2>2. file' \in [Entries -> Values] /\ (lost' = lost \/ lost' \in BOOLEAN)
    BY <1>5 DEF EditWrite, EditType
  <2> QED
    BY <1>5, <2>1, <2>2 DEF EditWrite
<1>6. CASE EditDone \/ EditFails \/ Stops
  <2>1. EditType' /\ edit'.at = "none" /\ UNCHANGED <<present, file>>
    BY <1>6, NoEditIsAnEdit DEF EditDone, EditFails, Stops, EditType
  <2>2. acked' \in [Entries -> Values]
    <3>1. Edited(acked) \in [Entries -> Values]
      BY DEF Edited, EditType
    <3> QED
      BY <1>6, <3>1 DEF EditDone, EditFails, Stops
  <2>3. admin' = admin \/ admin' \in BOOLEAN
    BY <1>6 DEF EditDone, EditFails, Stops
  <2>4. lost' = lost \/ lost' \in BOOLEAN
    BY <1>6 DEF EditDone, EditFails, Stops
  <2> QED
    BY <2>1, <2>2, <2>3, <2>4 DEF EditType
<1> QED
  BY <1>1, <1>2, <1>3, <1>4, <1>5, <1>6 DEF StoreNext

LEMMA StoreTypedIsOK == StoreTyped => StoreTypeOK
BY DEF StoreTyped, StoreTypeOK, EditType

(* The file keeps its types for every set of words; one that does not exist *)
(* has no entries, also when the program stops in the middle of an edit     *)
(* (mod_optm_edit_file).                                                    *)
THEOREM StoreTypes == StoreSpec => []StoreTypeOK
BY StoreInitTypes, StoreTypesKept, StoreTypedIsOK, PTL DEF StoreSpec

-----------------------------------------------------------------------------
(* A behaviour of VoiceSpec is one of its parts: what the others share with *)
(* it are the mailboxes.  The helper stands still while the master and the  *)
(* file are at work, and then there is no call.                             *)
VoiceInv ==
    /\ HelperTypeOK /\ MasterTypeOK /\ StoreTyped /\ StoreInv
    /\ part = "helper" => HelperInv
    /\ part # "helper" => call = "none"
    /\ part \in {"helper", "master", "store"}

LEMMA VoiceInitHolds == VoiceInit => VoiceInv
<1> SUFFICES ASSUME VoiceInit PROVE VoiceInv
  OBVIOUS
<1>1. HelperInit /\ MasterInit /\ StoreInit /\ part \in {"helper", "master", "store"}
  BY DEF VoiceInit
<1>2. HelperInv /\ call = "none"
  BY <1>1 DEF HelperInit, MailInit, HelperInv, PortInv, HookInv, CallIsHeld, CallHasPhone, Quiet, Up, Lifted, Dialled, NONE
<1> QED
  BY <1>1, <1>2, HelperInitTypes, MasterInitTypes, StoreInitTypes, StoreInitHolds DEF VoiceInv

(* The parts that stand still keep what is said of them. *)
LEMMA HelperStands ==
  ASSUME HelperTypeOK, UNCHANGED helperOnly, MailTypes' PROVE HelperTypeOK'
BY HelperTypeParts DEF helperOnly, HelperPlace, HelperPort, HelperLine, stateVars, portVars, lineVars

LEMMA MasterStands ==
  ASSUME MasterTypeOK, UNCHANGED masterOnly, MailTypes' PROVE MasterTypeOK'
BY MasterTypeParts DEF masterOnly, PassType

LEMMA StoreStands ==
  ASSUME StoreTyped, StoreInv, UNCHANGED storeVars PROVE StoreTyped' /\ StoreInv'
BY StoreTypesKept, StoreNextKeeps

LEMMA VoiceNextKeeps == VoiceInv /\ [VoiceNext]_voiceVars => VoiceInv'
<1> SUFFICES ASSUME VoiceInv, [VoiceNext]_voiceVars PROVE VoiceInv'
  OBVIOUS
<1> USE DEF VoiceInv
<1>1. CASE part = "helper" /\ part' = part /\ HelperNext /\ UNCHANGED <<masterOnly, storeVars>>
  <2>1. HelperTypeOK' /\ HelperInv'
    BY <1>1, HelperTypesKept, HelperNextKeeps
  <2>2. MasterTypeOK' /\ StoreTyped' /\ StoreInv'
    BY <1>1, <2>1, HelperTypeParts, MasterStands, StoreStands
  <2> QED
    BY <1>1, <2>1, <2>2
<1>2. CASE part = "master" /\ part' = part /\ MasterNext /\ UNCHANGED <<helperOnly, storeVars>>
  <2>1. MasterTypeOK'
    BY <1>2, MasterTypesKept
  <2>2. HelperTypeOK' /\ StoreTyped' /\ StoreInv'
    BY <1>2, <2>1, MasterTypeParts, HelperStands, StoreStands
  <2>3. call' = call
    BY <1>2 DEF helperOnly, lineVars
  <2> QED
    BY <1>2, <2>1, <2>2, <2>3
<1>3. CASE part = "store" /\ part' = part /\ StoreNext /\ UNCHANGED <<helperOnly, masterOnly, mailVars>>
  <2>1. StoreTyped' /\ StoreInv'
    BY <1>3, StoreTypesKept, StoreNextKeeps
  <2>2. HelperTypeOK' /\ MasterTypeOK'
    BY <1>3, MailKept, HelperTypeParts, HelperStands, MasterStands
  <2>3. call' = call
    BY <1>3 DEF helperOnly, lineVars
  <2> QED
    BY <1>3, <2>1, <2>2, <2>3
<1>4. CASE UNCHANGED voiceVars
  <2>1. UNCHANGED <<helperVars, masterVars, storeVars>> /\ part' = part /\ call' = call
    BY <1>4 DEF voiceVars, helperVars, masterVars, helperOnly, lineVars
  <2> QED
    BY <2>1, HelperTypesKept, HelperNextKeeps, MasterTypesKept, StoreStands
<1> QED
  BY <1>1, <1>2, <1>3, <1>4 DEF VoiceNext

(* VoiceInv holds whichever part of MOD_OPTM is at work (mod_optm.c).       *)
THEOREM VoiceInvariant == VoiceSpec => []VoiceInv
BY VoiceInitHolds, VoiceNextKeeps, PTL DEF VoiceSpec

(* The types of the helper, the master and the file hold whichever of them  *)
(* is at work, for all modems and all words (mod_optm.c, optm.c).           *)
THEOREM VoiceTypes == VoiceSpec => []VoiceTypeOK
<1>1. VoiceInv => VoiceTypeOK
  BY StoreTypedIsOK DEF VoiceInv, VoiceTypeOK
<1> QED
  BY <1>1, VoiceInvariant, PTL

(* In a behaviour of VoiceSpec, too, a call keeps its port and has a        *)
(* telephone or a hang-up under way, and the file has what was              *)
(* acknowledged, with the exceptions that the properties name               *)
(* (mod_optm_detach, mod_optm_hangup, mod_optm_tel_event,                   *)
(* mod_optm_edit_file).                                                     *)
THEOREM VoiceSafety == VoiceSpec => [](CallIsHeld /\ CallHasPhone /\ AckedIsStored)
<1>1. VoiceInv => CallIsHeld /\ CallHasPhone
  BY DEF VoiceInv, HelperInv, CallIsHeld, CallHasPhone, Up
<1>2. VoiceInv => AckedIsStored
  BY DEF VoiceInv, StoreInv, AckedIsStored, Idle
<1> QED
  BY <1>1, <1>2, VoiceInvariant, PTL
LEMMA FrameInVoice == VoiceSpec => []FrameInv
<1>1. VoiceInit => FrameInv
  BY DEF VoiceInit, MasterInit, FrameInv
<1>2. FrameInv /\ [VoiceNext]_voiceVars => FrameInv'
  <2>1. ASSUME FrameInv, UNCHANGED masterOnly PROVE FrameInv'
    BY <2>1 DEF FrameInv, masterOnly
  <2> QED
    BY <2>1, FrameNextKeeps DEF VoiceNext, voiceVars
<1> QED
  BY <1>1, <1>2, PTL DEF VoiceSpec

(* And the master answers each command, also where the helper and the file  *)
(* are at work beside it: what they change is not its frame (optm_main).    *)
THEOREM VoiceCommands == VoiceSpec => CommandAnswered
<1> DEFINE Taken == mpc = "loop" /\ frame.class = proto.proc /\ frame' = NoFrame /\ Command
<1>1. FrameInv /\ MasterNext /\ Taken => Answered
  BY StepAnswers
<1>2. ASSUME UNCHANGED masterOnly, Taken PROVE FALSE
  BY <1>2 DEF masterOnly, Command, NoFrame, Frame, NONE, Replied, TelCommands
<1>3. FrameInv /\ [VoiceNext]_voiceVars =>
        [(/\ mpc = "loop" /\ frame.class = proto.proc /\ frame' = NoFrame
          /\ frame.class \in Replied \/ frame.cmd \in TelCommands)
          => (failure' \/ sent' \in [class : {frame.class}, cmd : {"ACK", "NAK"}])]_masterVars
  <2>1. FrameInv /\ [VoiceNext]_voiceVars => (Taken => Answered)
    BY <1>1, <1>2 DEF VoiceNext, voiceVars
  <2> QED
    BY <2>1 DEF Command, Answered
<1> QED
  BY <1>3, FrameInVoice, PTL DEF VoiceSpec, CommandAnswered
=============================================================================
