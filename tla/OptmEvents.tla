----------------------------- MODULE OptmEvents -----------------------------
(***************************************************************************)
(* The two mailboxes between the threads of MOD_OPTM (mod_optm.c): the     *)
(* master, which talks to the telephone over a serial line, and the        *)
(* helper, which uses the modem.  Each is one byte that the writer sets    *)
(* and the reader clears, without a lock.                                  *)
(***************************************************************************)
EXTENDS Integers

VARIABLES
    mevent,     \* stMaster.ucEvent
    telState,   \* stMaster.ucTEL_State: the telephone was last off the hook
    callID,     \* stMaster.acTEL_CallID is not empty
    hevent      \* stHelper.ucEvent

mailVars == <<mevent, telState, callID, hevent>>

NONE == "NONE"
MasterEvents == {"MCU_DIALING", "MCU_DIAL_NO", "MCU_HANG_UP", "MCU_CONNECT", "MCU_RINGING"}
Dials == {"refused", "empty", "number"}
HelperEvents == {"GSM_RINGING", "GSM_CONNECT", "GSM_HANG_UP"}

MailTypes ==
    /\ mevent \in MasterEvents \cup {NONE}
    /\ {telState, callID} \subseteq BOOLEAN
    /\ hevent \in HelperEvents \cup {NONE}

MailInit == mevent = NONE /\ telState = FALSE /\ callID = FALSE /\ hevent = NONE

(***************************************************************************)
(* mod_optm_tel_event(e).  dial is what became of a number: "refused" is a *)
(* speed dial that the file does not have, "empty" a telephone that sent   *)
(* no digits.  ready says that the telephone accepts the ring.  A number   *)
(* that was refused sets no event; a telephone that dials during a payment *)
(* is refused after the event was set.                                     *)
(***************************************************************************)
mod_optm_tel_event(e, dial, ready) ==
    /\ mevent' = CASE e = "MCU_DIAL_NO" /\ dial = "refused" -> mevent
                   [] e = "MCU_RINGING" /\ ~ready -> "MCU_HANG_UP"
                   [] OTHER -> e
    /\ telState' = (e \in {"MCU_DIALING", "MCU_DIAL_NO", "MCU_CONNECT"})
    /\ callID' = CASE e = "MCU_DIAL_NO" -> dial = "number"
                   [] e = "MCU_HANG_UP" -> FALSE
                   [] OTHER -> callID
    /\ UNCHANGED hevent
=============================================================================
