------------------------------ MODULE MCVoice ------------------------------
(***************************************************************************)
(* The parts of MOD_OPTM for TLC: a behaviour is one of the helper, of the *)
(* master or of the file, each with its surroundings; the others stand     *)
(* still.  The fairness is that of OptmHelper and OptmMaster.              *)
(***************************************************************************)
EXTENDS OptmHelper, OptmMaster, OptmStore

VARIABLE part

voiceVars == <<part, helperOnly, masterOnly, storeVars, mailVars>>

VoiceInit ==
    /\ part \in {"helper", "master", "store"}
    /\ HelperInit /\ MasterInit /\ StoreInit
    /\ part # "helper" => modem = "gtm900b" /\ driver = "ready"
    /\ part # "store" => ~present

VoiceNext ==
    /\ UNCHANGED part
    /\ \/ part = "helper" /\ HelperNext /\ UNCHANGED <<masterOnly, storeVars>>
       \/ part = "master" /\ MasterNext /\ UNCHANGED <<helperOnly, storeVars>>
       \/ part = "store" /\ StoreNext /\ UNCHANGED <<helperOnly, masterOnly, mailVars>>

VoiceSpec ==
    /\ VoiceInit /\ [][VoiceNext]_voiceVars
    /\ WF_helperVars(part = "helper" /\ mod_optm_helper_body)
    /\ SF_helperVars(part = "helper" /\ HangUpWorks)
    /\ WF_masterVars(part = "master" /\ mod_optm_master_body)
    /\ SF_masterVars(part = "master" /\ Proceeds)
    /\ SF_masterVars(part = "master" /\ Elapses)

(* What the master posts, it does not read: without it its states are fewer. *)
VoiceView ==
    <<part, helperOnly, masterOnly, storeVars, telState, hevent,
      IF part = "master" THEN <<>> ELSE <<mevent, callID>>>>

(* The types of the helper, the master and the file. *)
VoiceTypeOK == HelperTypeOK /\ MasterTypeOK /\ StoreTypeOK
=============================================================================
