----------------------------- MODULE OptmMaster -----------------------------
(***************************************************************************)
(* The master thread of MOD_OPTM (mod_optm.c) and the protocol it speaks   *)
(* with the telephone over a serial line (optm.c).  Around it are the      *)
(* telephone, which sends what it likes, the line, which corrupts frames   *)
(* and fails, and the helper thread, which posts its events and catches    *)
(* the master's.                                                           *)
(***************************************************************************)
EXTENDS OptmEvents

VARIABLES
    ucState,    \* stMaster.ucState: "IDLE" or "ONLINE"
    failure,    \* ucFailure: the line has to be opened
    mpc,        \* where the thread is in its pass
    proto,      \* of stOPTM: ucProcState (proc), ucHandshake (shake) and
                \* stSendEvent (event)
    cache,      \* stSendCache
    frame,      \* stRecvFrame of the pass
    sent        \* the frame that the pass has sent

masterOnly == <<ucState, failure, mpc, proto, cache, frame, sent>>
masterVars == <<masterOnly, mailVars>>

Frame(class, cmd) == [class |-> class, cmd |-> cmd]
NoFrame == Frame(NONE, NONE)
Nak == Frame("CORRUPTED", "NAK")

TelCommands == {"DIALING", "DIAL_NO", "HANG_UP", "CONNECT"}
Replied == {"ADMIN", "AUTH", "SPEED_DIAL"}
Classes == Replied \cup {"HANDSHAKE", "TEL", "POS"}

(* What the telephone sends: "OTHER" is any command that is left, "LRC" a   *)
(* frame with a wrong check sum and "BAD" bytes that are no frame.          *)
Received ==
    [class : {"HANDSHAKE"}, cmd : {"ACK", "NAK", "OTHER"}]
    \cup [class : {"UNKNOWN"}, cmd : {"OTHER"}]
    \cup [class : {"ADMIN"}, cmd : {"LOGOUT", "OTHER"}]
    \cup [class : {"AUTH", "SPEED_DIAL", "FAX"}, cmd : {"OTHER"}]
    \cup [class : {"TEL"}, cmd : TelCommands \cup {"ACK", "NAK", "OTHER"}]
    \cup [class : {"POS"}, cmd : {"DIALING", "OTHER"}]
    \cup [class : {"CORRUPTED"}, cmd : {"LRC", "BAD"}]

Events == [class : {"TEL"}, cmd : HelperEvents]
Answers == [class : Classes, cmd : {"ACK", "NAK"}]
Sent == Events \cup Answers \cup {NoFrame, Nak, Frame("HANDSHAKE", "EXCHANGE")}

NoEvent == [frame |-> NoFrame, pending |-> FALSE, timer |-> FALSE]
Unsent(event) == event.frame # NoFrame /\ ~event.pending

(* The types; the clock of an event runs only while it is pending. *)
MasterTypeOK ==
    /\ MailTypes
    /\ ucState \in {"IDLE", "ONLINE"} /\ failure \in BOOLEAN
    /\ mpc \in {"look", "clear", "main", "loop"}
    /\ proto \in [proc : Classes \cup {NONE, "IDLE", "FAX", "CLOSE"}, shake : BOOLEAN, event : [frame : Events \cup {NoFrame}, pending : BOOLEAN, timer : BOOLEAN]]
    /\ proto.event.timer => proto.event.pending
    /\ cache \in [frame : Sent, pending : BOOLEAN]
    /\ frame \in Received \cup {NoFrame}
    /\ sent \in Sent

optm_init == [proc |-> "HANDSHAKE", shake |-> FALSE, event |-> NoEvent]
NoCache == [frame |-> NoFrame, pending |-> FALSE]

MasterInit ==
    /\ MailInit
    /\ ucState = "IDLE" /\ failure = TRUE /\ mpc = "look"
    /\ proto = optm_init /\ cache = NoCache
    /\ frame = NoFrame /\ sent = NoFrame

(***************************************************************************)
(* The pass of the master up to optm_main.                                 *)
(***************************************************************************)
Reopen(ok) ==
    /\ failure /\ mpc = "look"
    /\ failure' = ~ok /\ callID' = FALSE
    /\ ucState' = IF ok THEN "IDLE" ELSE ucState
    /\ UNCHANGED <<mpc, proto, cache, frame, sent, mevent, telState, hevent>>

(* An event that was not sent yet is written over; a pending one refuses. *)
optm_event(e) ==
    proto' = IF proto.event.pending THEN proto
             ELSE [proto EXCEPT !.proc = "TEL", !.event.frame = Frame("TEL", e)]

(* The telephone is rung at most every 3.5 s, and not off the hook. *)
MasterIdle ==
    /\ ucState = "IDLE" /\ UNCHANGED telState
    /\ \/ hevent \in {"GSM_CONNECT", "GSM_HANG_UP"}
          /\ ucState' = "ONLINE" /\ UNCHANGED <<mpc, proto>>
       \/ hevent = "GSM_RINGING" /\ ~telState
          /\ optm_event(hevent) /\ mpc' = "main" /\ UNCHANGED ucState
       \/ hevent \in {NONE, "GSM_RINGING"}
          /\ mpc' = "main" /\ UNCHANGED <<ucState, proto>>

MasterOnline ==
    /\ ucState = "ONLINE"
    /\ \/ hevent = "GSM_RINGING"
          /\ ucState' = "IDLE" /\ UNCHANGED <<mpc, proto, telState>>
       \/ hevent = NONE
          /\ mpc' = "main" /\ UNCHANGED <<ucState, proto, telState>>
       \/ /\ hevent \in {"GSM_CONNECT", "GSM_HANG_UP"}
          /\ optm_event(hevent)
          /\ mpc' = IF proto.event.pending THEN "main" ELSE "clear"
          /\ ucState' = IF hevent = "GSM_HANG_UP" /\ ~proto.event.pending THEN "IDLE" ELSE ucState
          /\ telState' = (telState /\ hevent # "GSM_HANG_UP")

Look ==
    /\ ~failure /\ mpc = "look"
    /\ sent' = NoFrame
    /\ MasterIdle \/ MasterOnline
    /\ UNCHANGED <<failure, cache, frame, mevent, callID, hevent>>

(* The event of the helper is cleared, or another one that came since. *)
ClearHelperEvent ==
    /\ mpc = "clear" /\ mpc' = "main"
    /\ hevent' = NONE
    /\ UNCHANGED <<ucState, failure, proto, cache, frame, sent, mevent, telState, callID>>

(***************************************************************************)
(* optm_main.                                                              *)
(***************************************************************************)
(* It fails, and the master starts the protocol afresh (optm_term and       *)
(* optm_init).                                                              *)
Fails ==
    /\ failure' = TRUE /\ mpc' = "look"
    /\ proto' = optm_init /\ cache' = NoCache
    /\ frame' = NoFrame /\ sent' = NoFrame

(* pf_raw_recv, with optm_parse of what it brought: nothing, no complete    *)
(* frame yet, or whatever the telephone may send.                           *)
Receive ==
    /\ mpc = "main"
    /\ \/ /\ mpc' = "loop"
          /\ frame' \in Received \cup {NoFrame}
          /\ UNCHANGED <<failure, proto, cache, sent>>
       \/ Fails
    /\ UNCHANGED <<ucState, mailVars>>

(* A corrupted frame drops the event and all that was received; the last    *)
(* frame is sent again, if it was complete but for its check sum.           *)
Corrupted ==
    /\ mpc = "loop" /\ frame.class = "CORRUPTED"
    /\ LET again == cache.pending /\ frame.cmd = "LRC"
       IN  \/ /\ mpc' = "look" /\ frame' = NoFrame
              /\ sent' = IF again THEN cache.frame ELSE Nak
              /\ cache' = [frame |-> sent', pending |-> TRUE]
              /\ proto' = [proto EXCEPT !.event = [NoEvent EXCEPT !.pending = again]]
              /\ UNCHANGED failure
           \/ Fails
    /\ UNCHANGED <<ucState, mailVars>>

(* The pass ends; what it has prepared is sent and kept. *)
Ends(next, out) ==
    \/ /\ mpc' = "look" /\ frame' = NoFrame
       /\ proto' = next /\ sent' = out
       /\ cache' = IF out = NoFrame THEN cache ELSE [frame |-> out, pending |-> TRUE]
       /\ UNCHANGED failure
    \/ out # NoFrame /\ Fails

(* A pending event is dropped 5 s after its clock was started. *)
TimedOut(event) == event.pending /\ event.timer
Waits_unstarted(event) == event       \* mutant: the clock is started only on sending
Waits(event) == IF event.pending THEN [event EXCEPT !.timer = TRUE] ELSE event

(* Mutant: the event goes first. *)
After_eventFirst(next, out, again) ==
    IF Unsent(next.event)
    THEN Ends([next EXCEPT !.proc = NONE, !.event.pending = TRUE, !.event.timer = TRUE], next.event.frame)
    ELSE \E event \in {Waits(next.event)} \cup (IF TimedOut(next.event) THEN {NoEvent} ELSE {}) :
             LET timed == [next EXCEPT !.event = event]
             IN  IF again THEN /\ proto' = timed
                               /\ UNCHANGED <<failure, mpc, cache, frame, sent>>
                          ELSE Ends(timed, out)

(* After a handler: an event that waits is sent, unless there is a reply,   *)
(* and the pass ends, with the frame handled or not; else the next handler  *)
(* takes the frame.                                                         *)
After(next, out, again) ==
    IF out = NoFrame /\ Unsent(next.event)
    THEN Ends([next EXCEPT !.proc = NONE, !.event.pending = TRUE, !.event.timer = TRUE], next.event.frame)
    ELSE \E event \in {Waits(next.event)} \cup (IF TimedOut(next.event) THEN {NoEvent} ELSE {}) :
             LET timed == [next EXCEPT !.event = event]
             IN  IF again THEN /\ proto' = timed
                               /\ UNCHANGED <<failure, mpc, cache, frame, sent>>
                          ELSE Ends(timed, out)

At(states) == mpc = "loop" /\ frame.class # "CORRUPTED" /\ proto.proc \in states

(* A handler whose frame is of another class passes it on. *)
Redirects ==
    /\ At(Classes) /\ frame.class # proto.proc
    /\ proto.proc = "HANDSHAKE" => frame # NoFrame
    /\ After([proto EXCEPT !.proc = "IDLE"], NoFrame, TRUE)
    /\ UNCHANGED <<ucState, mailVars>>

StartsHandshake ==
    /\ At({NONE})
    /\ After([proto EXCEPT !.proc = "HANDSHAKE"], NoFrame, TRUE)
    /\ UNCHANGED <<ucState, mailVars>>

(* optm_proc_handshake: it is asked for until it is acknowledged, if no     *)
(* other frame comes. *)
optm_proc_handshake ==
    /\ At({"HANDSHAKE"})
    /\ \/ frame = Frame("HANDSHAKE", "ACK")
          /\ After([proto EXCEPT !.proc = "IDLE", !.shake = TRUE], NoFrame, FALSE)
       \/ frame.class = "HANDSHAKE" /\ frame.cmd # "ACK"
          /\ After(proto, NoFrame, FALSE)
       \/ frame = NoFrame /\ ~proto.shake
          /\ After(proto, Frame("HANDSHAKE", "EXCHANGE"), FALSE)
       \/ frame = NoFrame      \* or it is not time yet
          /\ After(proto, NoFrame, FALSE)
    /\ UNCHANGED <<ucState, mailVars>>

(* optm_proc_idle, which is also the handler of FAX: there it runs until    *)
(* the count of 255 ends the loop.  A class that it does not know stays     *)
(* without a handler. *)
optm_proc_idle ==
    /\ At({"IDLE", "FAX"})
    /\ IF frame.class \in {NONE, "UNKNOWN"} THEN After(proto, NoFrame, FALSE)
       ELSE After([proto EXCEPT !.proc = frame.class], NoFrame, frame.class # "FAX")
    /\ UNCHANGED <<ucState, mailVars>>

Reply(class, ok) == Frame(class, IF ok THEN "ACK" ELSE "NAK")

(* optm_proc_admin, optm_proc_auth and optm_proc_speed_dial (OptmStore has  *)
(* what they do to the passwords and the numbers).                          *)
optm_proc_admin(ok) ==
    /\ At({"ADMIN"}) /\ frame.class = "ADMIN"
    /\ IF frame.cmd = "LOGOUT"
       THEN ok /\ After([proto EXCEPT !.proc = "HANDSHAKE", !.shake = FALSE], Reply("ADMIN", ok), FALSE)
       ELSE After([proto EXCEPT !.proc = "IDLE"], Reply("ADMIN", ok), FALSE)
    /\ UNCHANGED <<ucState, mailVars>>

optm_proc_auth(ok) ==
    /\ At({"AUTH"}) /\ frame.class = "AUTH"
    /\ After([proto EXCEPT !.proc = "IDLE"], Reply("AUTH", ok), FALSE)
    /\ UNCHANGED <<ucState, mailVars>>

optm_proc_speed_dial(ok) ==
    /\ At({"SPEED_DIAL"}) /\ frame.class = "SPEED_DIAL"
    /\ After([proto EXCEPT !.proc = "IDLE"], Reply("SPEED_DIAL", ok), FALSE)
    /\ UNCHANGED <<ucState, mailVars>>

(* optm_proc_tel.  ok is FALSE for a telephone that dials during a payment  *)
(* and for a speed dial that is refused.                                    *)
Posted == [DIALING |-> "MCU_DIALING", DIAL_NO |-> "MCU_DIAL_NO", HANG_UP |-> "MCU_HANG_UP", CONNECT |-> "MCU_CONNECT"]

TelCommand(ok) ==
    /\ frame.cmd \in TelCommands
    /\ frame.cmd \in {"HANG_UP", "CONNECT"} => ok
    /\ \E dial \in IF ok THEN {"empty", "number"} ELSE {"refused"} :
           mod_optm_tel_event(Posted[frame.cmd], dial, TRUE)
    /\ After([proto EXCEPT !.proc = IF frame.cmd = "HANG_UP" THEN "CLOSE" ELSE "TEL"],
             Reply("TEL", ok), FALSE)

(* The answer to the event that is pending, if there is one. *)
TelAnswer ==
    /\ frame.cmd \in {"ACK", "NAK"}
    /\ IF ~proto.event.pending THEN Fails /\ UNCHANGED mailVars
       ELSE /\ CASE proto.event.frame.cmd = "GSM_RINGING" -> mod_optm_tel_event("MCU_RINGING", "number", frame.cmd = "ACK")
                 [] proto.event.frame.cmd = "GSM_CONNECT" /\ frame.cmd = "NAK" -> mod_optm_tel_event("MCU_HANG_UP", "number", TRUE)
                 [] OTHER -> UNCHANGED mailVars
            /\ After([proto EXCEPT !.event = NoEvent], NoFrame, FALSE)

optm_proc_tel(ok) ==
    /\ At({"TEL"}) /\ frame.class = "TEL"
    /\ \/ TelCommand(ok)
       \/ ok /\ TelAnswer
       \/ ok /\ frame.cmd = "OTHER" /\ After(proto, NoFrame, FALSE) /\ UNCHANGED mailVars
    /\ UNCHANGED ucState

optm_proc_pos ==
    /\ At({"POS"}) /\ frame.class = "POS"
    /\ IF frame.cmd = "OTHER" THEN Fails
       ELSE After(proto, Reply("POS", TRUE), FALSE)
    /\ UNCHANGED <<ucState, mailVars>>

(* optm_proc_close: after the telephone was put down. *)
optm_proc_close ==
    /\ At({"CLOSE"})
    /\ IF frame.class = "TEL" THEN mod_optm_tel_event("MCU_HANG_UP", "number", TRUE) ELSE UNCHANGED mailVars
    /\ After([proto EXCEPT !.proc = "IDLE"], NoFrame, TRUE)
    /\ UNCHANGED ucState

optm_main ==
    \/ Receive \/ Corrupted
    \/ Redirects \/ StartsHandshake
    \/ optm_proc_handshake \/ optm_proc_idle
    \/ \E ok \in BOOLEAN : optm_proc_admin(ok) \/ optm_proc_auth(ok) \/ optm_proc_speed_dial(ok) \/ optm_proc_tel(ok)
    \/ optm_proc_pos \/ optm_proc_close

mod_optm_master_body ==
    \/ \E ok \in BOOLEAN : Reopen(ok)
    \/ Look \/ ClearHelperEvent \/ optm_main

(***************************************************************************)
(* The helper, and the driver of the modem.                                *)
(***************************************************************************)
HelperActs ==
    /\ \/ hevent' \in HelperEvents /\ UNCHANGED mevent
       \/ mevent # NONE /\ mevent' = NONE /\ UNCHANGED hevent
    /\ UNCHANGED <<masterOnly, telState, callID>>

(* mod_optm_notify of the driver, after it changed the mode of the network. *)
NetworkModeSet ==
    /\ proto' = [proto EXCEPT !.proc = "HANDSHAKE", !.shake = FALSE]
    /\ UNCHANGED <<ucState, failure, mpc, cache, frame, sent, mailVars>>

MasterNext ==
    \/ mod_optm_master_body
    \/ HelperActs \/ NetworkModeSet

MasterSpec == MasterInit /\ [][MasterNext]_masterVars

(***************************************************************************)
(* The thread is scheduled, the helper does not turn its event over before *)
(* every pass, and the clock of an event that is pending runs out.         *)
(***************************************************************************)
Proceeds == Look /\ mpc' # "look"

Elapses ==
    /\ mpc = "loop" /\ TimedOut(proto.event)
    /\ optm_main
    /\ ~failure' /\ proto'.event = NoEvent

MasterFair ==
    /\ WF_masterVars(mod_optm_master_body)
    /\ SF_masterVars(Proceeds)
    /\ SF_masterVars(Elapses)

MasterFairSpec == MasterSpec /\ MasterFair

(* A command that reached its handler is answered in the same pass, with an *)
(* answer of its class, although an event may wait to be sent; or the line  *)
(* fails (optm_main).                                                       *)
CommandAnswered ==
    [][ (/\ mpc = "loop" /\ frame.class = proto.proc /\ frame' = NoFrame
         /\ frame.class \in Replied \/ frame.cmd \in TelCommands)
        => (failure' \/ sent' \in [class : {frame.class}, cmd : {"ACK", "NAK"}]) ]_masterVars

(* No event is pending for ever, which would keep out all that follow: it   *)
(* is answered, or its clock runs out, also when it was sent again after a  *)
(* corrupted frame; unless the line corrupts frames again and again.        *)
EventEnds == []<>(frame.class = "CORRUPTED") \/ []<>(~proto.event.pending)

(* "Dont RING when TEL is off-hook": the ring is not sent to a telephone    *)
(* that has said, in an earlier pass or in this one, that it was lifted.    *)
RingOnlyOnHook == sent.cmd = "GSM_RINGING" => ~telState
=============================================================================
