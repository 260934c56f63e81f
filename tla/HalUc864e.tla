------------------------------ MODULE HalUc864e -----------------------------
(***************************************************************************)
(* The driver of the UC864E modem, hal_uc864e.c.  It has two data ports;   *)
(* the second one is also where the driver talks to the modem.  What       *)
(* differs from HalModem: the requests, switching on and off, and what the *)
(* thread does when no slot has a SIM.                                     *)
(***************************************************************************)
EXTENDS HalModem

(* iSID skips 0, and a holder is told its iSID: neither shows here. *)
hal_uc864e_attach(c, p, interrupt) == hal_gtm900b_attach(c, p, interrupt)
hal_uc864e_detach(c, p) == hal_gtm900b_detach(c, p)

hal_uc864e_sim_door(s) == door[s]

hal_uc864e_port(q, ok) == q \in Ports /\ Opened(q, ok)

(* The ioctls of the control port.  Giving power, and a reset of a modem    *)
(* that has it, both are to connect the slot.  An ioctl that fails only has *)
(* the control port opened again, and with the control port closed there is *)
(* none.  What the board says of the power is waited for for 10 s, after    *)
(* which it may still be there.                                             *)
hal_uc864e_power_on == askedSIM' = curSIM /\ power' \in {power, TRUE}
hal_uc864e_reset == askedSIM' = curSIM /\ power' \in {power, TRUE}
hal_uc864e_power_off(off) == power' = (power /\ ~off)

(* The request of a signal level opens the port if it is closed, and closes *)
(* it in any case, whoever has a session on it.  The lock is kept.          *)
hal_uc864e_signal(q) ==
    /\ critical_lock
    /\ hal_uc864e_port(q, FALSE)
    /\ UNCHANGED <<curSIM, got, told, reset, ready>>

(* REQ_SET_NETWORK_MODE notifies every holder; the mode is not modelled. *)
RequestMode == UNCHANGED <<curSIM, got, told, reset, ready, port>>

hal_uc864e_request(c, p) ==
    /\ session[p] = c
    /\ \/ RequestReset(c)
       \/ RequestDetach(c)
       \/ \E s \in Sims : RequestChgSim(c, s) \/ RequestSimGone(s)
       \/ \E open \in BOOLEAN : RequestPort(p, open)
       \/ \E q \in Ports : hal_uc864e_signal(q)
       \/ RequestMode
    /\ UNCHANGED <<drv, proc, askedSIM, power, seen, waitSIM, doorVars, session, claim, pc>>

(* The ports are closed and the modem is powered, or reset, which powers it *)
(* as well. *)
OnPowered ==
    /\ pc = "on" /\ pc' = "on_power"
    /\ AllClosed
    /\ IF reset THEN hal_uc864e_reset ELSE hal_uc864e_power_on
    /\ UNCHANGED <<reset, ready>>

(* The results of AT on port 2, which takes no lock here: an answer (0, 3), *)
(* none (4), other data (5), or a port that fails (2).  A modem without     *)
(* power answers nothing.                                                   *)
hal_uc864e_at_cmd == IF power THEN {0, 2, 3, 4, 5} ELSE {2, 4}

(* For 5 to 10 s after that port 2 is opened and AT sent, until it is       *)
(* answered, the port fails, or the time is over.  Only an answer leaves    *)
(* ucReset to the loop, which clears it.                                    *)
OnAnswer(opens, r) ==
    /\ pc = "on_power" /\ pc' = "door1"
    /\ AllClosed
    /\ IF opens /\ r = 0
       THEN ready' = TRUE /\ reset' = FALSE
       ELSE reset' = TRUE /\ UNCHANGED ready
    /\ UNCHANGED <<power, askedSIM>>

hal_uc864e_switch_on ==
    /\ OnPowered \/ \E opens \in BOOLEAN, r \in hal_uc864e_at_cmd : OnAnswer(opens, r)
    /\ UNCHANGED <<drv, proc, simVars, doorVars, session, told, claim>>

(* Both SIMs are out: the doors are read again at once, and the modem is    *)
(* reset before it is used.  The modem is not switched off.                 *)
BodyResample ==
    /\ pc = "both" /\ pc' = "test"
    /\ IF BothOut
       THEN /\ seen' = [s \in Sims |-> hal_uc864e_sim_door(s)]
            /\ got' = [s \in Sims |-> ~seen'[s]]
            /\ curSIM' = DefaultSim(got')
            /\ reset' = TRUE
       ELSE UNCHANGED <<seen, got, curSIM, reset>>
    /\ UNCHANGED <<drv, proc, ready, askedSIM, power, waitSIM, doorVars, portVars>>

(* hal_uc864e_switch_off, which only the end of the thread calls: the ports *)
(* are closed and the power is cut, and waited for for at most 10 s.        *)
OffPowerUc(off) ==
    /\ AfterOff
    /\ AllClosed
    /\ hal_uc864e_power_off(off)
    /\ UNCHANGED <<drv, proc, ready, reset, askedSIM, simVars, doorVars, session, told, claim>>

hal_uc864e_switch_off ==
    Off \/ (\E b \in BOOLEAN : OffWait(b) \/ OffPowerUc(b))

(* The rest of the loop is that of HalModem. *)
UcStart == BodyStart
UcTest == BodyTest
UcDoor1 == BodyDoor1
UcDoor2 == BodyDoor2

hal_uc864e_body ==
    \/ UcStart \/ UcTest
    \/ hal_uc864e_switch_on
    \/ UcDoor1 \/ UcDoor2 \/ BodyResample
    \/ hal_uc864e_switch_off

hal_uc864e_start == thread_start
hal_uc864e_close == thread_close
hal_uc864e_term == hal_gtm900b_term
=============================================================================
