------------------------------ MODULE HalModem ------------------------------
(***************************************************************************)
(* The driver of the GTM900B modem, hal_gtm900b.c: the operations that its *)
(* clients call, each in a thread of the client, and the thread of the     *)
(* driver, which watches the doors of two SIM slots and switches the modem *)
(* on and off.  The build is the one with two slots.                       *)
(*                                                                         *)
(* The variables and the operations serve the other two modem drivers as   *)
(* well: HalG600 and HalUc864e say where those differ.                     *)
(*                                                                         *)
(* A session is the client that has it: iSID only counts upwards.  Time is *)
(* counted in ticks, of which the two delays of the door detection are     *)
(* RestoredAfter and RemovedAfter.                                         *)
(***************************************************************************)
EXTENDS Integers

CONSTANTS
    Clients,        \* the threads that attach to a port
    NoClient,
    Priority,       \* per client: p_ucPriority of its attach
    Wants,          \* per client: the ports it attaches to
    Drivers,        \* the drivers an instance starts with
    RestoredAfter,  \* the 500 ms after which a closed door counts
    RemovedAfter,   \* the 2000 ms after which an open door counts
    MaxMoves        \* bound: how often the doors move

ASSUME ClientsAssumption == NoClient \notin Clients /\ Priority \in [Clients -> Nat]
ASSUME DelayAssumption ==
    /\ RestoredAfter \in Nat /\ RemovedAfter \in Nat
    /\ RestoredAfter < RemovedAfter
ASSUME MovesAssumption == MaxMoves \in Nat

Sims == {1, 2}
AllPorts == {1, 2}
NoClaim == <<>>

VARIABLES
    drv,        \* the driver
    proc,       \* of the WRK_THREAD: "init", "running" while ucProcToken is set,
                \* "closing", "joined", and "gone" after _term
    ready,      \* ucReady
    reset,      \* ucReset
    askedSIM,   \* the SIM that the modem was last switched on for
    curSIM,     \* ucCurSIM
    got,        \* ucGotSIM_1 and _2
    seen,       \* ucSIM_1_Door and _2: the door was last taken to be open
    door,       \* the door is open
    moves,      \* the times a door has moved
    timer,      \* ulLastSIM_1 and _2: 0, or one more than the ticks since
    waitSIM,    \* ucWaitSIM
    power,      \* the modem is powered
    session,    \* astDataPort[].stSession
    told,       \* the ports whose holder was notified to detach
    claim,      \* the client and the port of an attach that has passed its checks
    port,       \* the serial port is open
    pc          \* where the thread of the driver is

doorVars == <<door, moves, timer>>
simVars  == <<curSIM, got, seen, waitSIM>>
modemVars == <<ready, reset, askedSIM, power>>
portVars == <<session, told, claim, port>>
vars == <<drv, proc, modemVars, simVars, doorVars, portVars, pc>>

OnSteps  == {"on", "on_at", "on_reset", "on_power", "on_baud1", "on_baud2", "get_ready"}
OffSteps == {"off", "off_wait", "off_power", "end", "end_wait", "end_power"}

(* The ports the driver has: HAL_GTM900B_MAX_DATA_PORT, or two. *)
Ports == IF drv = "uc864e" THEN {1, 2} ELSE {1}

Held == {p \in AllPorts : session[p] # NoClient}

(* The types, and only a port that is held has a holder that was notified:  *)
(* a notice dies with the session it was for.                               *)
TypeOK ==
    /\ drv \in Drivers
    /\ proc \in {"init", "running", "closing", "joined", "gone"}
    /\ {ready, reset, waitSIM, power} \subseteq BOOLEAN
    /\ {curSIM, askedSIM} \subseteq Sims
    /\ {got, seen, door} \subseteq [Sims -> BOOLEAN]
    /\ moves \in 0..MaxMoves
    /\ timer \in [Sims -> 0..(RemovedAfter + 1)]
    /\ session \in [AllPorts -> Clients \cup {NoClient}]
    /\ told \subseteq Held
    /\ claim \in {NoClaim} \cup (Clients \X Ports)
    /\ port \in [AllPorts -> BOOLEAN]
    /\ Held \subseteq Ports
    /\ pc \in {"start", "test", "door1", "door2", "both", "stopped"} \cup OnSteps \cup OffSteps

(* hal_gtm900b_init. *)
Init ==
    /\ drv \in Drivers
    /\ proc = "init" /\ pc = "start"
    /\ ready = FALSE /\ reset = FALSE
    /\ power \in BOOLEAN
    /\ curSIM = 1 /\ waitSIM = FALSE /\ askedSIM = 1
    /\ got = [s \in Sims |-> FALSE] /\ seen = [s \in Sims |-> FALSE]
    /\ door \in [Sims -> BOOLEAN] /\ moves = 0
    /\ timer = [s \in Sims |-> 0]
    /\ session = [p \in AllPorts |-> NoClient] /\ told = {} /\ claim = NoClaim
    /\ port = [p \in AllPorts |-> FALSE]

(***************************************************************************)
(* The serial ports.  Opening one may fail, which leaves it closed.        *)
(***************************************************************************)
Opened(p, ok) == port' = [port EXCEPT ![p] = ok]
AllClosed == port' = [p \in AllPorts |-> FALSE]

(* A request for port 0 is one for port 1, the only one.                   *)
hal_gtm900b_port(p, ok) == p = 1 /\ Opened(p, ok)

(* The control port: the ioctls that give the modem power and take it away. *)
(* Nothing happens when the control port is closed or the ioctl fails.      *)
hal_gtm900b_power_on == power' \in {power, TRUE}
hal_gtm900b_power_off == power' \in {power, FALSE}

(* One after the other, of which none, one or both may have done nothing.   *)
hal_gtm900b_power_cycle == power' \in BOOLEAN

(* The call that is to connect the slot of ucCurSIM.  Whether the board has *)
(* connected it is not known: with the control port closed it is not asked, *)
(* and what its ioctls answer is not looked at.  So the driver knows only   *)
(* which SIM it has switched the modem on for.                              *)
hal_gtm900b_select_sim == askedSIM' = curSIM

(* stLock is free.  Only an attach keeps it for longer than a step.         *)
critical_lock == claim = NoClaim

(* The results of an AT command of the driver: 1 when the lock is taken or  *)
(* there is no such port, 2 when it is closed, 0 and 3 for an answer, 4 for *)
(* none, 5 for other data.                                                  *)
hal_gtm900b_at_cmd(p) ==
    IF ~critical_lock THEN {1}
    ELSE IF ~port[p] THEN {2}
    ELSE IF power THEN {0, 3, 4, 5} ELSE {4}

(***************************************************************************)
(* Operations of the clients.                                              *)
(***************************************************************************)
(* An attach that breaks in on a holder only notifies it (0xA0), and one   *)
(* that is refused (0xF0, 0xA1) changes nothing.  Otherwise the lock is    *)
(* kept until Claim.                                                       *)
hal_gtm900b_attach(c, p, interrupt) ==
    /\ proc # "gone" /\ critical_lock
    /\ p \in Wants[c] /\ session[p] # c
    /\ \/ /\ session[p] # NoClient
          /\ \/ Priority[c] > Priority[session[p]]
             \/ interrupt /\ Priority[c] = Priority[session[p]]
          /\ told' = told \cup {p}
          /\ UNCHANGED claim
       \/ /\ session[p] = NoClient /\ ready
          /\ claim' = <<c, p>>
          /\ UNCHANGED told
    /\ UNCHANGED <<drv, proc, modemVars, simVars, doorVars, session, port, pc>>

Claim(ok) ==
    /\ claim # NoClaim
    /\ LET c == claim[1]  p == claim[2]
       IN  /\ Opened(p, ok)
           /\ session' = IF ok THEN [session EXCEPT ![p] = c] ELSE session
    /\ claim' = NoClaim
    /\ UNCHANGED <<drv, proc, modemVars, simVars, doorVars, told, pc>>

(* Mutant: the notice outlives the session. *)
hal_gtm900b_detach_told(c, p) ==
    /\ session[p] = c /\ critical_lock
    /\ Opened(p, FALSE)
    /\ session' = [session EXCEPT ![p] = NoClient]
    /\ UNCHANGED <<drv, proc, modemVars, simVars, doorVars, claim, told, pc>>

hal_gtm900b_detach(c, p) ==
    /\ session[p] = c /\ critical_lock
    /\ Opened(p, FALSE)
    /\ session' = [session EXCEPT ![p] = NoClient]
    /\ told' = told \ {p}
    /\ UNCHANGED <<drv, proc, modemVars, simVars, doorVars, claim, pc>>

(* No other holder has a higher priority. *)
Outranks(c) == \A p \in Held : Priority[session[p]] <= Priority[c]

(* The door of a slot as hal_gtm900b_sim_door reads it. *)
hal_gtm900b_sim_door(s) == door[s]

(* The requests of a holder.  None of them holds the lock when it changes  *)
(* the state.                                                              *)
(* Mutant: the client that asks is not told itself. *)
RequestReset_others(c) ==
    /\ Outranks(c)
    /\ reset' = TRUE /\ ready' = FALSE
    /\ told' = told \cup {p \in Held : session[p] # c}
    /\ UNCHANGED <<curSIM, got, port>>

RequestReset(c) ==
    /\ Outranks(c)
    /\ reset' = TRUE /\ ready' = FALSE /\ told' = Held
    /\ UNCHANGED <<curSIM, got, port>>

RequestDetach(c) ==
    /\ Outranks(c)
    /\ ready' = FALSE /\ told' = Held
    /\ UNCHANGED <<curSIM, got, port, reset>>

(* Mutant: the modem is not reset for the other SIM. *)
RequestChgSim_unready(c, s) ==
    /\ Outranks(c) /\ s # curSIM /\ ~hal_gtm900b_sim_door(s)
    /\ curSIM' = s
    /\ told' = Held
    /\ UNCHANGED <<got, port, reset, ready>>

RequestChgSim(c, s) ==
    /\ Outranks(c) /\ s # curSIM /\ ~hal_gtm900b_sim_door(s)
    /\ curSIM' = s
    /\ reset' = TRUE /\ ready' = FALSE /\ told' = Held
    /\ UNCHANGED <<got, port>>

RequestPort(p, open) ==
    /\ \E ok \in IF open THEN BOOLEAN ELSE {FALSE} : Opened(p, ok)
    /\ UNCHANGED <<curSIM, got, told, reset, ready>>

RequestSimGone(s) ==
    /\ got' = [got EXCEPT ![s] = FALSE]
    /\ told' = IF s = curSIM THEN Held ELSE told
    /\ UNCHANGED <<curSIM, port, reset, ready>>

hal_gtm900b_request(c, p) ==
    /\ session[p] = c
    /\ \/ RequestReset(c)
       \/ RequestDetach(c)
       \/ \E s \in Sims : RequestChgSim(c, s) \/ RequestSimGone(s)
       \/ \E open \in BOOLEAN : RequestPort(p, open)
    /\ UNCHANGED <<drv, proc, askedSIM, power, seen, waitSIM, doorVars, session, claim, pc>>

(***************************************************************************)
(* The thread of the driver.                                               *)
(***************************************************************************)
(* Default is SIM 1 if available. *)
DefaultSim(g) == IF g[1] THEN 1 ELSE IF g[2] THEN 2 ELSE 1

BodyStart ==
    /\ pc = "start" /\ proc # "init" /\ pc' = "test"
    /\ seen' = door /\ got' = [s \in Sims |-> ~door[s]]
    /\ curSIM' = DefaultSim(got')
    /\ UNCHANGED <<drv, proc, modemVars, waitSIM, doorVars, portVars>>

(* Mutant: the holders are not looked for. *)
BodyTest_held ==
    /\ pc = "test"
    /\ pc' = IF proc # "running" THEN "end"
             ELSE IF ready \/ \A s \in Sims : ~got[s] THEN "door1" ELSE "on"
    /\ UNCHANGED <<drv, proc, modemVars, simVars, doorVars, portVars>>

(* Mutant: the modem is switched on only when both slots have a SIM. *)
BodyTest_both ==
    /\ pc = "test"
    /\ \/ proc # "running" /\ pc' = "end"
       \/ /\ proc = "running"
          /\ IF ready \/ \E s \in Sims : ~got[s]
             THEN pc' = "door1"
             ELSE critical_lock /\ pc' = IF Held = {} THEN "on" ELSE "door1"
    /\ UNCHANGED <<drv, proc, modemVars, simVars, doorVars, portVars>>

(* The head of the loop: the lock is waited for, and looking for holders    *)
(* and releasing it is one step.                                            *)
BodyTest ==
    /\ pc = "test"
    /\ \/ proc # "running" /\ pc' = "end"
       \/ /\ proc = "running"
          /\ IF ready \/ \A s \in Sims : ~got[s]
             THEN pc' = "door1"
             ELSE critical_lock /\ pc' = IF Held = {} THEN "on" ELSE "door1"
    /\ UNCHANGED <<drv, proc, modemVars, simVars, doorVars, portVars>>

(* The ways out of switch_on: every port is closed. *)
OnFails == pc' = "door1" /\ AllClosed
OnWorks == pc' = "get_ready" /\ AllClosed

OnOpen(ok) ==
    /\ pc = "on" /\ hal_gtm900b_select_sim
    /\ IF ~ok THEN OnFails /\ UNCHANGED <<reset, power>>
       ELSE /\ hal_gtm900b_port(1, TRUE)
            /\ reset' = FALSE
            /\ IF reset THEN hal_gtm900b_power_off /\ pc' = "on_reset"
                        ELSE UNCHANGED power /\ pc' = "on_at"

(* After a power-off of 15 s the modem may say that it is ready, answer AT  *)
(* and ATH, or answer AT with the rest of a ppp frame.                      *)
OnReset(ok) ==
    /\ pc = "on_reset" /\ UNCHANGED <<reset, askedSIM>>
    /\ IF proc # "running" THEN OnFails /\ UNCHANGED power
       ELSE /\ hal_gtm900b_power_on /\ (ok => power')
            /\ IF ok THEN OnWorks ELSE pc' = "on_power" /\ UNCHANGED port

OnAt(r) ==
    /\ pc = "on_at" /\ UNCHANGED <<reset, askedSIM>>
    /\ IF r \in {0, 5} THEN OnWorks /\ UNCHANGED power
       ELSE hal_gtm900b_power_on /\ pc' = "on_power" /\ UNCHANGED port

OnPower(r) ==
    /\ pc = "on_power" /\ UNCHANGED <<reset, power, askedSIM>>
    /\ IF r \in {0, 5} THEN OnWorks
       ELSE IF proc = "running" THEN pc' = "on_baud1" /\ UNCHANGED port
       ELSE OnFails

(* The modem may still be at the factory's speed.  An answer of 5 leaves    *)
(* the loop as a 0 does, but is returned as it is.                          *)
OnBaud(ok, r) ==
    /\ pc \in {"on_baud1", "on_baud2"} /\ UNCHANGED <<reset, askedSIM>>
    /\ hal_gtm900b_power_cycle /\ (r # 4 => power')
    /\ IF ~ok \/ r = 5 \/ proc # "running" THEN OnFails
       ELSE IF r = 0 THEN OnWorks
       ELSE IF pc = "on_baud1" THEN pc' = "on_baud2" /\ UNCHANGED port
       ELSE OnFails

hal_gtm900b_switch_on ==
    /\ \/ \E ok \in BOOLEAN : OnOpen(ok) \/ OnReset(ok)
       \/ \E r \in hal_gtm900b_at_cmd(1) : OnAt(r) \/ OnPower(r)
       \/ \E ok \in BOOLEAN, r \in {0, 3, 4, 5} : OnBaud(ok, r)
    /\ UNCHANGED <<drv, proc, ready, simVars, doorVars, session, told, claim>>

(* The port is opened, AT&D1 sent and the port closed again; DTR is not     *)
(* changed, since the modem is not ready yet.                               *)
hal_gtm900b_get_ready(ok) ==
    /\ pc = "get_ready" /\ pc' = "door1"
    /\ AllClosed
    /\ IF ok /\ power /\ proc = "running"
       THEN ready' = TRUE /\ reset' = FALSE
       ELSE UNCHANGED <<ready, reset>>
    /\ UNCHANGED <<drv, proc, power, askedSIM, simVars, doorVars, session, told, claim>>

(* The driver's own REQ_DETACH, which passes no check of priorities. *)
DriverDetach == ready' = FALSE /\ told' = Held

(***************************************************************************)
(* Slot s is sampled.  A change of position starts the timer of the slot   *)
(* at its first sample and counts at the first one for which the timer is  *)
(* old enough; a sample that shows the known position leaves the timer as  *)
(* it is.                                                                  *)
(***************************************************************************)
Delay(s) == IF hal_gtm900b_sim_door(s) THEN RemovedAfter ELSE RestoredAfter

DoorSample(s) ==
    LET open == hal_gtm900b_sim_door(s)
        moved == open # seen[s]
        counts == moved /\ timer[s] > Delay(s)
        starts == moved /\ timer[s] = 0
    IN  /\ seen' = IF counts THEN [seen EXCEPT ![s] = open] ELSE seen
        /\ got' = IF counts THEN [got EXCEPT ![s] = ~open] ELSE got
        /\ timer' = IF counts THEN [timer EXCEPT ![s] = 0]
                    ELSE IF starts THEN [timer EXCEPT ![s] = 1] ELSE timer
        /\ IF counts /\ open /\ s = curSIM THEN DriverDetach ELSE UNCHANGED <<ready, told>>

BodyDoor1 ==
    /\ pc = "door1" /\ pc' = "door2"
    /\ DoorSample(1)
    /\ UNCHANGED <<drv, proc, reset, askedSIM, power, curSIM, waitSIM, door, moves, session, claim, port>>

BodyDoor2 ==
    /\ pc = "door2" /\ pc' = "both"
    /\ DoorSample(2)
    /\ UNCHANGED <<drv, proc, reset, askedSIM, power, curSIM, waitSIM, door, moves, session, claim, port>>

BothOut == (\A s \in Sims : ~got[s]) \/ (\A s \in Sims : seen[s])

BodyBoth ==
    /\ pc = "both"
    /\ waitSIM' = BothOut
    /\ IF BothOut
       THEN /\ IF waitSIM THEN UNCHANGED <<ready, told>> /\ pc' = "test"
                          ELSE DriverDetach /\ pc' = "off"
            /\ UNCHANGED <<curSIM, reset>>
       ELSE /\ pc' = "test"
            /\ IF waitSIM THEN curSIM' = DefaultSim(got) /\ reset' = TRUE
                          ELSE UNCHANGED <<curSIM, reset>>
            /\ UNCHANGED <<ready, told>>
    /\ UNCHANGED <<drv, proc, askedSIM, power, got, seen, doorVars, session, claim, port>>

(***************************************************************************)
(* hal_gtm900b_switch_off: the holders are notified, waited for at most 5  *)
(* s, and then the modem is switched off whether they have gone or not.    *)
(* It is called in the loop ("off") and after it ("end").                  *)
(***************************************************************************)
Off ==
    /\ \/ pc = "off" /\ pc' = "off_wait"
       \/ pc = "end" /\ pc' = "end_wait"
    /\ ready' = FALSE /\ told' = Held
    /\ UNCHANGED <<drv, proc, reset, askedSIM, power, simVars, doorVars, session, claim, port>>

OffWait(timeout) ==
    /\ \/ pc = "off_wait" /\ pc' = "off_power"
       \/ pc = "end_wait" /\ pc' = "end_power"
    /\ Held = {} \/ timeout
    /\ UNCHANGED <<drv, proc, modemVars, simVars, doorVars, portVars>>

AfterOff ==
    \/ pc = "off_power" /\ pc' = "test"
    \/ pc = "end_power" /\ pc' = "stopped"

(* The modem is told to switch itself off, and its power is cut when it     *)
(* does not answer.  A port that does not open leaves it on.                *)
OffPower(ok) ==
    /\ AfterOff
    /\ AllClosed
    /\ power' = (power /\ ~ok)
    /\ UNCHANGED <<drv, proc, ready, reset, askedSIM, simVars, doorVars, session, told, claim>>

hal_gtm900b_switch_off ==
    Off \/ (\E b \in BOOLEAN : OffWait(b) \/ OffPower(b))

hal_gtm900b_body ==
    \/ BodyStart \/ BodyTest
    \/ hal_gtm900b_switch_on \/ \E ok \in BOOLEAN : hal_gtm900b_get_ready(ok)
    \/ BodyDoor1 \/ BodyDoor2 \/ BodyBoth
    \/ hal_gtm900b_switch_off

(***************************************************************************)
(* The WRK_THREAD of the driver.  thread_close clears the token, sends a   *)
(* signal and joins the thread however long that takes; _term then closes  *)
(* the ports and clears the sessions.                                      *)
(***************************************************************************)
ThreadStep(from, to) ==
    /\ proc = from /\ proc' = to
    /\ UNCHANGED <<drv, modemVars, simVars, doorVars, portVars, pc>>

thread_start == ThreadStep("init", "running")
thread_close ==
    \/ ThreadStep("running", "closing")
    \/ pc = "stopped" /\ ThreadStep("closing", "joined")

hal_gtm900b_start == thread_start
hal_gtm900b_close == thread_close

hal_gtm900b_term ==
    /\ proc = "joined" /\ critical_lock
    /\ proc' = "gone"
    /\ AllClosed
    /\ session' = [p \in AllPorts |-> NoClient] /\ told' = {}
    /\ UNCHANGED <<drv, modemVars, simVars, doorVars, claim, pc>>

(***************************************************************************)
(* What is around the driver.                                              *)
(***************************************************************************)
DoorMoves(s) ==
    /\ moves < MaxMoves /\ moves' = moves + 1
    /\ door' = [door EXCEPT ![s] = ~@]
    /\ UNCHANGED <<drv, proc, modemVars, simVars, timer, portVars, pc>>

Tick ==
    /\ \E s \in Sims : timer[s] \in 1..RemovedAfter
    /\ timer' = [s \in Sims |-> IF timer[s] \in 1..RemovedAfter THEN timer[s] + 1 ELSE timer[s]]
    /\ UNCHANGED <<drv, proc, modemVars, simVars, door, moves, portVars, pc>>
=============================================================================
