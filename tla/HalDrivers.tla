----------------------------- MODULE HalDrivers -----------------------------
(***************************************************************************)
(* The three modem drivers, each with the clients and the doors around it, *)
(* and what is asked of them.                                              *)
(***************************************************************************)
EXTENDS HalG600, HalUc864e

Attach(c, p, interrupt) ==
    \/ drv = "gtm900b" /\ hal_gtm900b_attach(c, p, interrupt)
    \/ drv = "g600" /\ hal_g600_attach(c, p, interrupt)
    \/ drv = "uc864e" /\ hal_uc864e_attach(c, p, interrupt)

Detach(c, p) ==
    \/ drv = "gtm900b" /\ hal_gtm900b_detach(c, p)
    \/ drv = "g600" /\ hal_g600_detach(c, p)
    \/ drv = "uc864e" /\ hal_uc864e_detach(c, p)

Request(c, p) ==
    \/ drv = "gtm900b" /\ hal_gtm900b_request(c, p)
    \/ drv = "g600" /\ hal_g600_request(c, p)
    \/ drv = "uc864e" /\ hal_uc864e_request(c, p)

Body ==
    \/ drv = "gtm900b" /\ hal_gtm900b_body
    \/ drv = "g600" /\ hal_g600_body
    \/ drv = "uc864e" /\ hal_uc864e_body

Lifecycle ==
    \/ drv = "gtm900b" /\ (hal_gtm900b_start \/ hal_gtm900b_close \/ hal_gtm900b_term)
    \/ drv = "g600" /\ (hal_g600_start \/ hal_g600_close \/ hal_g600_term)
    \/ drv = "uc864e" /\ (hal_uc864e_start \/ hal_uc864e_close \/ hal_uc864e_term)

Next ==
    \/ \E c \in Clients, p \in Ports :
           \/ \E interrupt \in BOOLEAN : Attach(c, p, interrupt)
           \/ Detach(c, p)
           \/ Request(c, p)
    \/ \E ok \in BOOLEAN : Claim(ok)
    \/ Body
    \/ Lifecycle
    \/ (\E s \in Sims : DoorMoves(s))
    \/ Tick

Spec == Init /\ [][Next]_vars

(***************************************************************************)
(* The threads run on and time passes.  Now and then a serial port opens,  *)
(* the ioctl that gives power works, and a modem that has power answers.   *)
(***************************************************************************)
ModemAnswers(step) ==
    /\ pc = step /\ Body
    /\ CASE step = "on" -> pc' # "door1" /\ (drv = "uc864e" => power')
         [] step = "on_at" -> power'
         [] step = "on_power" -> pc' = "get_ready" \/ ready'
         [] step = "get_ready" -> ready'

FairSpec ==
    /\ Spec
    /\ WF_vars(\E ok \in BOOLEAN : Claim(ok))
    /\ WF_vars(Body) /\ WF_vars(Tick)
    /\ \A step \in {"on", "on_at", "on_power", "get_ready"} : SF_vars(ModemAnswers(step))

-----------------------------------------------------------------------------
(* While the driver switches the modem on, it has the ports for itself: no  *)
(* client has a session and none is about to get one, though the lock is    *)
(* released before switch_on begins (hal_gtm900b_body: "Make sure all       *)
(* holder are detached port").                                              *)
SwitchOnAlone == pc \in OnSteps => Held = {} /\ claim = NoClaim

(* A modem that is ready has power, and a GTM900B or G600 that is ready was *)
(* switched on for the SIM that ucCurSIM names: whoever attaches does not   *)
(* talk to a modem that was set up for the other one.  It is not true of    *)
(* the UC864E: with both SIMs found gone its loop names SIM 1 and asks for  *)
(* a reset, but leaves ucReady as it is (hal_uc864e.c:1765-1796).           *)
SimInUse == ready => power /\ (drv # "uc864e" => askedSIM = curSIM)

(* Whenever a modem stops being ready, its holders are told: by a request,  *)
(* by a door, by both and by the end of the thread.  A port of a modem that *)
(* is not ready has a holder that was not told only if its attach had       *)
(* passed the test of ucReady before and ended after it.                    *)
HoldersAreTold ==
    [][\A p \in AllPorts :
           ~ready' /\ p \in Held' \ told' =>
               \/ ~ready /\ p \in Held \ told
               \/ claim # NoClaim /\ p = claim[2]]_vars

(* If the holders that are told to detach do so, the modem is ready again   *)
(* and again as long as a slot has a SIM, however it was reset, switched    *)
(* off or refused before.  One holder may keep it from that, the one that   *)
(* HoldersAreTold excepts.                                                  *)
ReadyAgain ==
    []<>(told = {})
        => []<>(ready \/ proc # "running" \/ (\A s \in Sims : ~got[s]) \/ Held \ told # {})
=============================================================================
