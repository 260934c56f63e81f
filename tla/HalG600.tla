------------------------------- MODULE HalG600 ------------------------------
(***************************************************************************)
(* The driver of the G600 modem, hal_g600.c.  It is the text of the driver *)
(* of the GTM900B with other AT commands (AT+MHUP=16,0 for ATH, AT+MRST    *)
(* for AT%MSO) and one kind of board less, so that every operation is the  *)
(* one of HalModem.                                                        *)
(***************************************************************************)
EXTENDS HalModem

hal_g600_attach(c, p, interrupt) == hal_gtm900b_attach(c, p, interrupt)
hal_g600_detach(c, p) == hal_gtm900b_detach(c, p)
hal_g600_request(c, p) == hal_gtm900b_request(c, p)

hal_g600_at_cmd(p) == hal_gtm900b_at_cmd(p)

hal_g600_switch_on ==
    /\ \/ \E ok \in BOOLEAN : OnOpen(ok) \/ OnReset(ok)
       \/ \E r \in hal_g600_at_cmd(1) : OnAt(r) \/ OnPower(r)
       \/ \E ok \in BOOLEAN, r \in {0, 3, 4, 5} : OnBaud(ok, r)
    /\ UNCHANGED <<drv, proc, ready, simVars, doorVars, session, told, claim>>

hal_g600_get_ready(ok) == hal_gtm900b_get_ready(ok)
hal_g600_switch_off == hal_gtm900b_switch_off

G600Start == BodyStart
G600Test == BodyTest
G600Door1 == BodyDoor1
G600Door2 == BodyDoor2
G600Both == BodyBoth

hal_g600_body ==
    \/ G600Start \/ G600Test
    \/ hal_g600_switch_on \/ \E ok \in BOOLEAN : hal_g600_get_ready(ok)
    \/ G600Door1 \/ G600Door2 \/ G600Both
    \/ hal_g600_switch_off

hal_g600_start == thread_start
hal_g600_close == thread_close
hal_g600_term == hal_gtm900b_term
=============================================================================
