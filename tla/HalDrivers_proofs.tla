-------------------------- MODULE HalDrivers_proofs --------------------------
(***************************************************************************)
(* What keeps a modem driver and its clients apart, for every set of       *)
(* clients, every priority and every number of moves of the doors.         *)
(***************************************************************************)
EXTENDS HalDrivers, TLAPS

(* TypeOK in the parts that an operation can disturb. *)
ThreadType ==
    /\ drv \in Drivers
    /\ proc \in {"init", "running", "closing", "joined", "gone"}
    /\ pc \in {"start", "test", "door1", "door2", "both", "stopped"} \cup OnSteps \cup OffSteps

FlagType ==
    /\ ready \in BOOLEAN /\ reset \in BOOLEAN /\ waitSIM \in BOOLEAN /\ power \in BOOLEAN
    /\ curSIM \in Sims /\ askedSIM \in Sims

DoorType ==
    /\ got \in [Sims -> BOOLEAN] /\ seen \in [Sims -> BOOLEAN] /\ door \in [Sims -> BOOLEAN]
    /\ moves \in 0..MaxMoves
    /\ timer \in [Sims -> 0..(RemovedAfter + 1)]

PortType ==
    /\ session \in [AllPorts -> Clients \cup {NoClient}]
    /\ claim \in {NoClaim} \cup (Clients \X Ports)
    /\ port \in [AllPorts -> BOOLEAN]
    /\ told \subseteq Held /\ Held \subseteq Ports

LEMMA TypeParts ==
    /\ TypeOK <=> ThreadType /\ FlagType /\ DoorType /\ PortType
    /\ TypeOK' <=> ThreadType' /\ FlagType' /\ DoorType' /\ PortType'
BY DEF TypeOK, ThreadType, FlagType, DoorType, PortType

(* Opening and closing ports leaves flags on the ports there are. *)
LEMMA PortsStay == Ports \subseteq AllPorts /\ (drv' = drv => Ports' = Ports)
BY DEF Ports, AllPorts

LEMMA OpenedType ==
  ASSUME port \in [AllPorts -> BOOLEAN], NEW p, NEW ok \in BOOLEAN, Opened(p, ok) \/ AllClosed \/ port' = port
  PROVE  port' \in [AllPorts -> BOOLEAN]
BY DEF Opened, AllClosed

LEMMA HeldStays == ASSUME session' = session PROVE Held' = Held
BY DEF Held

(* An attach takes a port that the driver has, and notifies only a holder. *)
LEMMA AttachTypes ==
  ASSUME TypeOK, NEW c \in Clients, NEW p \in Ports, NEW interrupt \in BOOLEAN,
         hal_gtm900b_attach(c, p, interrupt)
  PROVE  TypeOK'
<1> USE DEF hal_gtm900b_attach, modemVars, simVars, doorVars
<1>1. ThreadType' /\ FlagType' /\ DoorType'
  BY TypeParts DEF ThreadType, FlagType, DoorType
<1>2. Held' = Held /\ Ports' = Ports /\ p \in AllPorts
  BY PortsStay, HeldStays
<1>3. \/ told' = told \cup {p} /\ p \in Held /\ claim' = claim
      \/ told' = told /\ claim' = <<c, p>>
  BY <1>2 DEF Held
<1>4. PortType'
  BY <1>2, <1>3, TypeParts DEF PortType
<1> QED
  BY <1>1, <1>4, TypeParts

LEMMA ClaimTypes == ASSUME TypeOK, NEW ok \in BOOLEAN, Claim(ok) PROVE TypeOK'
<1> USE DEF Claim, modemVars, simVars, doorVars
<1>1. ThreadType' /\ FlagType' /\ DoorType'
  BY TypeParts DEF ThreadType, FlagType, DoorType
<1>2. PICK c \in Clients, p \in Ports : claim = <<c, p>>
  BY TypeParts DEF PortType
<1>3. c # NoClient /\ p \in AllPorts /\ Ports' = Ports
  BY PortsStay, ClientsAssumption
<1>4. session' = session \/ session' = [session EXCEPT ![p] = c]
  BY <1>2
<1>5. session' \in [AllPorts -> Clients \cup {NoClient}] /\ Held \subseteq Held' /\ Held' \subseteq Ports
  BY <1>3, <1>4, TypeParts DEF PortType, Held
<1>6. port' \in [AllPorts -> BOOLEAN]
  BY OpenedType, TypeParts DEF PortType
<1>7. PortType'
  BY <1>3, <1>5, <1>6, TypeParts DEF PortType
<1> QED
  BY <1>1, <1>7, TypeParts

LEMMA DetachTypes ==
  ASSUME TypeOK, NEW c \in Clients, NEW p \in Ports, hal_gtm900b_detach(c, p) PROVE TypeOK'
<1> USE DEF hal_gtm900b_detach, modemVars, simVars, doorVars
<1>1. ThreadType' /\ FlagType' /\ DoorType'
  BY TypeParts DEF ThreadType, FlagType, DoorType
<1>2. Ports' = Ports /\ p \in AllPorts
  BY PortsStay
<1>3. Held' = Held \ {p} /\ session' \in [AllPorts -> Clients \cup {NoClient}]
  BY <1>2, TypeParts DEF PortType, Held
<1>4. port' \in [AllPorts -> BOOLEAN]
  BY OpenedType, TypeParts DEF PortType
<1>5. PortType'
  BY <1>2, <1>3, <1>4, TypeParts DEF PortType
<1> QED
  BY <1>1, <1>5, TypeParts

(* A request notifies the holders there are, and nobody else. *)
LEMMA RequestTypes ==
  ASSUME TypeOK, NEW c \in Clients, NEW p \in Ports, hal_gtm900b_request(c, p) \/ hal_uc864e_request(c, p)
  PROVE  TypeOK'
<1>1. UNCHANGED <<drv, proc, pc, askedSIM, power, waitSIM, seen, door, moves, timer, session, claim>>
  BY DEF hal_gtm900b_request, hal_uc864e_request, doorVars
<1>2. \/ RequestReset(c) \/ RequestDetach(c) \/ RequestMode
      \/ \E s \in Sims : RequestChgSim(c, s) \/ RequestSimGone(s)
      \/ \E open \in BOOLEAN : RequestPort(p, open)
      \/ \E q \in Ports : hal_uc864e_signal(q)
  BY DEF hal_gtm900b_request, hal_uc864e_request
<1>3. ready' \in BOOLEAN /\ reset' \in BOOLEAN /\ curSIM' \in Sims
  BY <1>2, TypeParts DEF FlagType, RequestReset, RequestDetach, RequestMode, RequestChgSim, RequestSimGone,
     RequestPort, hal_uc864e_signal
<1>4. got' \in [Sims -> BOOLEAN]
  BY <1>2, TypeParts DEF DoorType, RequestReset, RequestDetach, RequestMode, RequestChgSim, RequestSimGone,
     RequestPort, hal_uc864e_signal
<1>5. told' = told \/ told' = Held
  BY <1>2 DEF RequestReset, RequestDetach, RequestMode, RequestChgSim, RequestSimGone, RequestPort, hal_uc864e_signal
<1>6. \/ port' = port
      \/ \E ok \in BOOLEAN : Opened(p, ok)
      \/ \E q \in Ports : Opened(q, FALSE)
  <2>1. ASSUME NEW open \in BOOLEAN, RequestPort(p, open) PROVE \E ok \in BOOLEAN : Opened(p, ok)
    BY <2>1 DEF RequestPort
  <2>2. ASSUME NEW q \in Ports, hal_uc864e_signal(q) PROVE Opened(q, FALSE)
    BY <2>2 DEF hal_uc864e_signal, hal_uc864e_port
  <2>3. ASSUME \/ RequestReset(c) \/ RequestDetach(c) \/ RequestMode
               \/ \E s \in Sims : RequestChgSim(c, s) \/ RequestSimGone(s)
        PROVE  port' = port
    BY <2>3 DEF RequestReset, RequestDetach, RequestMode, RequestChgSim, RequestSimGone
  <2> QED
    BY <1>2, <2>1, <2>2, <2>3
<1>7. port' \in [AllPorts -> BOOLEAN] /\ Held' = Held /\ Ports' = Ports
  BY <1>1, <1>6, OpenedType, PortsStay, HeldStays, TypeParts DEF PortType
<1> QED
  BY <1>1, <1>3, <1>4, <1>5, <1>7, TypeParts DEF ThreadType, FlagType, DoorType, PortType

(* The thread: where it may go from each of its steps, and the parts of the *)
(* state that a step on the way can change.                                 *)
LEMMA LoopTypes == ASSUME TypeOK, BodyStart \/ BodyTest PROVE TypeOK'
<1>1. CASE BodyStart
  <2>1. got' \in [Sims -> BOOLEAN] /\ curSIM' \in Sims
    BY <1>1 DEF BodyStart, DefaultSim, Sims
  <2>2. Held' = Held /\ Ports' = Ports
    BY <1>1, HeldStays, PortsStay DEF BodyStart, portVars
  <2> QED
    BY <1>1, <2>1, <2>2, TypeParts
       DEF BodyStart, ThreadType, FlagType, DoorType, PortType, modemVars, doorVars, portVars
<1>2. CASE BodyTest
  <2>1. pc' \in {"end", "door1", "on"}
    BY <1>2 DEF BodyTest
  <2>2. Held' = Held /\ Ports' = Ports
    BY <1>2, HeldStays, PortsStay DEF BodyTest, portVars
  <2> QED
    BY <1>2, <2>1, <2>2, TypeParts DEF BodyTest, ThreadType, FlagType, DoorType, PortType, modemVars, simVars,
       doorVars, portVars, OnSteps, OffSteps
<1> QED
  BY <1>1, <1>2

LEMMA SwitchOnTypes ==
  ASSUME TypeOK,
         \/ hal_gtm900b_switch_on \/ hal_g600_switch_on \/ hal_uc864e_switch_on
         \/ \E ok \in BOOLEAN : hal_gtm900b_get_ready(ok)
  PROVE  TypeOK'
<1>1. UNCHANGED <<drv, proc, simVars, doorVars, session, told, claim>>
  BY DEF hal_gtm900b_switch_on, hal_g600_switch_on, hal_uc864e_switch_on, hal_gtm900b_get_ready
<1>2. \/ \E ok \in BOOLEAN : hal_gtm900b_get_ready(ok)
      \/ ready' = ready /\ ( \/ \E ok \in BOOLEAN : OnOpen(ok) \/ OnReset(ok)
                             \/ \E r : OnAt(r) \/ OnPower(r)
                             \/ \E ok \in BOOLEAN : \E r : OnBaud(ok, r))
      \/ OnPowered
      \/ \E opens \in BOOLEAN : \E r : OnAnswer(opens, r)
  BY DEF hal_gtm900b_switch_on, hal_g600_switch_on, hal_uc864e_switch_on
<1> USE DEF FlagType, OnOpen, OnReset, OnAt, OnPower, OnBaud, OnPowered, OnAnswer, hal_gtm900b_get_ready,
        OnFails, OnWorks, hal_gtm900b_power_on, hal_gtm900b_power_off, hal_gtm900b_power_cycle, hal_gtm900b_select_sim, hal_uc864e_reset,
        hal_uc864e_power_on
<1>3. pc' \in {"door1", "get_ready", "on_at", "on_reset", "on_power", "on_baud1", "on_baud2"}
  BY <1>2
<1>4. (ready' = ready \/ ready' = TRUE) /\ (reset' = reset \/ reset' \in BOOLEAN)
  BY <1>2
<1>5. (power' = power \/ power' \in BOOLEAN) /\ (askedSIM' = askedSIM \/ askedSIM' = curSIM)
  BY <1>2
<1>6. port' = port \/ AllClosed \/ \E ok \in BOOLEAN : Opened(1, ok)
  BY <1>2 DEF hal_gtm900b_port
<1>7. port' \in [AllPorts -> BOOLEAN] /\ Held' = Held /\ Ports' = Ports
  BY <1>1, <1>6, OpenedType, HeldStays, PortsStay, TypeParts DEF PortType
<1>8. ThreadType' /\ DoorType' /\ PortType'
  BY <1>1, <1>3, <1>7, TypeParts DEF ThreadType, DoorType, PortType, simVars, doorVars, OnSteps
<1>9. FlagType'
  BY <1>1, <1>4, <1>5, TypeParts DEF simVars
<1> QED
  BY <1>8, <1>9, TypeParts

(* A sample of a door leaves the timer within the delay and one tick.       *)
LEMMA SampleTypes ==
  ASSUME TypeOK, NEW s \in Sims, DoorSample(s), UNCHANGED <<door, moves, session>>
  PROVE  /\ DoorType'
         /\ ready' \in BOOLEAN /\ told' \subseteq Held
<1> USE DEF DoorSample, hal_gtm900b_sim_door, DoorType, FlagType, PortType
<1>1. seen' \in [Sims -> BOOLEAN] /\ got' \in [Sims -> BOOLEAN]
  BY TypeParts
<1>2. 0 \in 0..(RemovedAfter + 1) /\ 1 \in 0..(RemovedAfter + 1)
  BY DelayAssumption
<1>3. timer' = timer \/ \E n \in {0, 1} : timer' = [timer EXCEPT ![s] = n]
  BY DEF DoorSample
<1>4. timer' \in [Sims -> 0..(RemovedAfter + 1)]
  BY <1>2, <1>3, TypeParts
<1>5. ready' \in BOOLEAN /\ told' \subseteq Held
  BY TypeParts DEF DriverDetach
<1> QED
  BY <1>1, <1>4, <1>5, TypeParts

LEMMA DoorsTypes == ASSUME TypeOK, BodyDoor1 \/ BodyDoor2 \/ BodyBoth \/ BodyResample PROVE TypeOK'
<1>1. UNCHANGED <<drv, proc, askedSIM, power, door, moves, session, claim, port>>
  BY DEF BodyDoor1, BodyDoor2, BodyBoth, BodyResample, doorVars, portVars
<1>2. Held' = Held /\ Ports' = Ports
  BY <1>1, HeldStays, PortsStay
<1>3. pc' \in {"door2", "both", "test", "off"}
  BY DEF BodyDoor1, BodyDoor2, BodyBoth, BodyResample
<1>4. CASE BodyDoor1 \/ BodyDoor2
  <2>1. DoorType' /\ ready' \in BOOLEAN /\ told' \subseteq Held
    BY <1>1, <1>4, SampleTypes DEF BodyDoor1, BodyDoor2, Sims
  <2>2. UNCHANGED <<reset, curSIM, waitSIM>>
    BY <1>4 DEF BodyDoor1, BodyDoor2
  <2> QED
    BY <1>1, <1>2, <1>3, <2>1, <2>2, TypeParts DEF ThreadType, FlagType, PortType, OffSteps
<1>5. CASE BodyBoth
  <2>1. (ready' = ready \/ ready' = FALSE) /\ (told' = told \/ told' = Held) /\ UNCHANGED <<got, seen, timer>>
    BY <1>5 DEF BodyBoth, DriverDetach, doorVars
  <2>2. curSIM' \in Sims /\ (reset' = reset \/ reset' = TRUE)
    BY <1>5, TypeParts DEF BodyBoth, FlagType, DefaultSim, Sims
  <2>3. waitSIM' \in BOOLEAN
    BY <1>5 DEF BodyBoth, BothOut
  <2> QED
    BY <1>1, <1>2, <1>3, <2>1, <2>2, <2>3, TypeParts DEF ThreadType, FlagType, DoorType, PortType, OffSteps
<1>6. CASE BodyResample
  <2>1. UNCHANGED <<ready, waitSIM, timer, told>>
    BY <1>6 DEF BodyResample, doorVars, portVars
  <2>2. seen' \in [Sims -> BOOLEAN] /\ got' \in [Sims -> BOOLEAN]
    BY <1>6, TypeParts DEF BodyResample, DoorType, hal_uc864e_sim_door
  <2>3. curSIM' \in Sims /\ (reset' = reset \/ reset' = TRUE)
    BY <1>6, TypeParts DEF BodyResample, FlagType, DefaultSim, Sims
  <2> QED
    BY <1>1, <1>2, <1>3, <2>1, <2>2, <2>3, TypeParts DEF ThreadType, FlagType, DoorType, PortType, OffSteps
<1> QED
  BY <1>4, <1>5, <1>6

LEMMA SwitchOffTypes == ASSUME TypeOK, hal_gtm900b_switch_off \/ hal_uc864e_switch_off PROVE TypeOK'
<1>1. Off \/ (\E b \in BOOLEAN : OffWait(b) \/ OffPower(b) \/ OffPowerUc(b))
  BY DEF hal_gtm900b_switch_off, hal_uc864e_switch_off
<1>2. /\ UNCHANGED <<drv, proc, reset, askedSIM, simVars, doorVars, session, claim>>
      /\ (ready' = ready \/ ready' = FALSE) /\ (told' = told \/ told' = Held)
  BY <1>1 DEF Off, OffWait, OffPower, OffPowerUc, modemVars, portVars
<1>3. power' = power \/ power' \in BOOLEAN
  BY <1>1 DEF Off, OffWait, OffPower, OffPowerUc, modemVars, hal_uc864e_power_off
<1>4. pc' \in OffSteps \cup {"test", "stopped"}
  BY <1>1 DEF Off, OffWait, OffPower, OffPowerUc, AfterOff, OffSteps
<1>5. port' = port \/ AllClosed
  BY <1>1 DEF Off, OffWait, OffPower, OffPowerUc, portVars
<1>6. port' \in [AllPorts -> BOOLEAN] /\ Held' = Held /\ Ports' = Ports
  BY <1>2, <1>5, OpenedType, HeldStays, PortsStay, TypeParts DEF PortType
<1> QED
  BY <1>2, <1>3, <1>4, <1>6, TypeParts DEF ThreadType, FlagType, DoorType, PortType, simVars, doorVars

LEMMA OthersTypes ==
  ASSUME TypeOK, Lifecycle \/ (\E s \in Sims : DoorMoves(s)) \/ Tick \/ UNCHANGED vars PROVE TypeOK'
<1> USE DEF modemVars, simVars, doorVars, portVars, ThreadType, FlagType, DoorType, PortType
<1>1. ASSUME NEW from, NEW to \in {"running", "closing", "joined"}, ThreadStep(from, to) PROVE TypeOK'
  BY <1>1, HeldStays, PortsStay, TypeParts DEF ThreadStep
<1>2. CASE hal_gtm900b_term
  <2>1. Held' = {} /\ session' \in [AllPorts -> Clients \cup {NoClient}]
    BY <1>2 DEF hal_gtm900b_term, Held
  <2>2. port' \in [AllPorts -> BOOLEAN]
    BY <1>2, OpenedType, TypeParts DEF hal_gtm900b_term
  <2> QED
    BY <1>2, <2>1, <2>2, PortsStay, TypeParts DEF hal_gtm900b_term
<1>3. ASSUME NEW s \in Sims, DoorMoves(s) PROVE TypeOK'
  <2>1. door' \in [Sims -> BOOLEAN]
    BY <1>3, TypeParts DEF DoorMoves
  <2>2. moves' \in 0..MaxMoves
    BY <1>3, MovesAssumption, TypeParts DEF DoorMoves
  <2> QED
    BY <1>3, <2>1, <2>2, HeldStays, PortsStay, TypeParts DEF DoorMoves
<1>4. CASE Tick
  <2>1. timer' \in [Sims -> 0..(RemovedAfter + 1)]
    BY <1>4, DelayAssumption, TypeParts DEF Tick
  <2> QED
    BY <1>4, <2>1, HeldStays, PortsStay, TypeParts DEF Tick
<1>5. CASE UNCHANGED vars
  BY <1>5, HeldStays, PortsStay, TypeParts DEF vars
<1>6. ASSUME Lifecycle
      PROVE  \/ hal_gtm900b_term
             \/ ThreadStep("init", "running") \/ ThreadStep("running", "closing") \/ ThreadStep("closing", "joined")
  BY <1>6 DEF Lifecycle, hal_gtm900b_start, hal_gtm900b_close, hal_g600_start, hal_g600_close, hal_g600_term,
     hal_uc864e_start, hal_uc864e_close, hal_uc864e_term, thread_start, thread_close
<1> QED
  BY <1>1, <1>2, <1>3, <1>4, <1>5, <1>6

LEMMA InitTypes == Init => TypeOK
<1> SUFFICES ASSUME Init PROVE TypeOK
  OBVIOUS
<1>1. Held = {}
  BY DEF Init, Held
<1>2. 0 \in 0..MaxMoves /\ 0 \in 0..(RemovedAfter + 1)
  BY MovesAssumption, DelayAssumption
<1> QED
  BY <1>1, <1>2, TypeParts DEF Init, ThreadType, FlagType, DoorType, PortType, Sims

LEMMA TypesKept == TypeOK /\ [Next]_vars => TypeOK'
<1> SUFFICES ASSUME TypeOK, [Next]_vars PROVE TypeOK'
  OBVIOUS
<1>1. ASSUME NEW c \in Clients, NEW p \in Ports,
             \/ \E interrupt \in BOOLEAN : Attach(c, p, interrupt)
             \/ Detach(c, p) \/ Request(c, p)
      PROVE  TypeOK'
  BY <1>1, AttachTypes, DetachTypes, RequestTypes DEF Attach, Detach, Request, hal_g600_attach, hal_g600_detach,
     hal_g600_request, hal_uc864e_attach, hal_uc864e_detach
<1>2. ASSUME Body PROVE TypeOK'
  BY <1>2, LoopTypes, SwitchOnTypes, DoorsTypes, SwitchOffTypes
     DEF Body, hal_gtm900b_body, hal_g600_body, hal_uc864e_body, G600Start, G600Test, G600Door1, G600Door2,
         G600Both, UcStart, UcTest, UcDoor1, UcDoor2, hal_g600_get_ready, hal_g600_switch_off
<1> QED
  BY <1>1, <1>2, ClaimTypes, OthersTypes DEF Next

(* For every set of clients, every delay and any number of moves of the     *)
(* doors: the state of a driver keeps its types, a session is on a port     *)
(* that the driver has, and only a port that is held has a holder that was  *)
(* told to detach (the notices of hal_gtm900b_attach, _request and          *)
(* _switch_off, and those of the other two drivers).                        *)
THEOREM DriverTypes == Spec => []TypeOK
BY InitTypes, TypesKept, PTL DEF Spec

-----------------------------------------------------------------------------
(* ready is set by a step of switching on and by no other: in the thread   *)
(* it is clear from the start, and again from where the modem is being     *)
(* switched off.                                                           *)
NotYet == {"start", "off_wait", "off_power", "end_wait", "end_power"}

Unused ==
    /\ pc \in OnSteps => ~ready /\ Held = {} /\ claim = NoClaim
    /\ pc \in NotYet => ~ready

(* The first step of switching on asks for the slot of ucCurSIM, and nobody *)
(* changes that before the last one.                                       *)
Connected == pc \in OnSteps \ {"on"} => askedSIM = curSIM

(* An open door is a SIM that is gone.  While the GTM900B or the G600 waits *)
(* for a SIM it is not ready, and the thread, which looks for one at the    *)
(* end of each pass, has none when it comes to the next: so it chooses      *)
(* another SIM only for a modem that is not ready.                          *)
Waits ==
    /\ \A s \in Sims : seen[s] => ~got[s]
    /\ drv # "uc864e" /\ waitSIM =>
           /\ ~ready /\ pc \notin OnSteps \cup {"start"}
           /\ pc \in OffSteps \cup {"test"} => \A s \in Sims : ~got[s]

DriverInv == Unused /\ Connected /\ Waits /\ SimInUse

-----------------------------------------------------------------------------
(* An operation of a client does not move the thread, and there is no such *)
(* operation while the thread has the modem for itself, but one that is    *)
(* refused.                                                                *)
LEMMA ClientsKeep ==
  ASSUME TypeOK, DriverInv, NEW c \in Clients, NEW p \in Ports,
         \/ \E interrupt \in BOOLEAN : Attach(c, p, interrupt)
         \/ Detach(c, p)
         \/ Request(c, p)
         \/ \E ok \in BOOLEAN : Claim(ok)
  PROVE  DriverInv'
<1> USE DEF DriverInv, Unused, Connected, Waits, SimInUse, modemVars, simVars, doorVars, portVars
<1>1. ASSUME NEW interrupt \in BOOLEAN, hal_gtm900b_attach(c, p, interrupt) PROVE DriverInv'
  BY <1>1 DEF hal_gtm900b_attach, Held
<1>2. p \in AllPorts /\ c # NoClient
  BY ClientsAssumption DEF Ports, AllPorts
<1>3. ASSUME session[p] = c PROVE pc \notin OnSteps
  BY <1>2, <1>3 DEF Held
<1>4. ASSUME hal_gtm900b_detach(c, p) PROVE DriverInv'
  BY <1>3, <1>4 DEF hal_gtm900b_detach
<1>5. ASSUME hal_gtm900b_request(c, p) PROVE DriverInv'
  <2>1. pc \notin OnSteps /\ pc' = pc
    BY <1>3, <1>5 DEF hal_gtm900b_request
  <2>2. (ready' = ready \/ ready' = FALSE) /\ power' = power /\ askedSIM' = askedSIM
    BY <1>5 DEF hal_gtm900b_request, RequestReset, RequestDetach, RequestChgSim, RequestPort, RequestSimGone
  <2>3. ready' => curSIM' = curSIM
    BY <1>5 DEF hal_gtm900b_request, RequestReset, RequestDetach, RequestChgSim, RequestPort, RequestSimGone
  <2>4. UNCHANGED <<drv, seen, waitSIM>> /\ \A s \in Sims : got'[s] => got[s]
    BY <1>5, TypeParts DEF DoorType, hal_gtm900b_request, RequestReset, RequestDetach, RequestChgSim, RequestPort, RequestSimGone
  <2>5. Unused' /\ Connected'
    BY <2>1, <2>2 DEF NotYet, OnSteps
  <2>6. Waits' /\ SimInUse'
    BY <2>1, <2>2, <2>3, <2>4
  <2> QED
    BY <2>5, <2>6
<1>6. ASSUME hal_uc864e_request(c, p) PROVE DriverInv'
  <2>1. pc \notin OnSteps /\ pc' = pc
    BY <1>3, <1>6 DEF hal_uc864e_request
  <2>2. (ready' = ready \/ ready' = FALSE) /\ power' = power /\ askedSIM' = askedSIM
    BY <1>6 DEF hal_uc864e_request, RequestReset, RequestDetach, RequestChgSim, RequestPort,
                RequestSimGone, RequestMode, hal_uc864e_signal
  <2>3. ready' => curSIM' = curSIM
    BY <1>6 DEF hal_uc864e_request, RequestReset, RequestDetach, RequestChgSim, RequestPort,
                RequestSimGone, RequestMode, hal_uc864e_signal
  <2>4. UNCHANGED <<drv, seen, waitSIM>> /\ \A s \in Sims : got'[s] => got[s]
    BY <1>6, TypeParts DEF DoorType, hal_uc864e_request, RequestReset, RequestDetach, RequestChgSim, RequestPort,
                RequestSimGone, RequestMode, hal_uc864e_signal
  <2>5. Unused' /\ Connected'
    BY <2>1, <2>2 DEF NotYet, OnSteps
  <2>6. Waits' /\ SimInUse'
    BY <2>1, <2>2, <2>3, <2>4
  <2> QED
    BY <2>5, <2>6
<1>7. ASSUME NEW ok \in BOOLEAN, Claim(ok) PROVE DriverInv'
  <2>1. pc \notin OnSteps /\ pc' = pc
    BY <1>7 DEF Claim
  <2> QED
    BY <2>1, <1>7 DEF Claim
<1> QED
  BY <1>1, <1>4, <1>5, <1>6, <1>7 DEF Attach, Detach, Request, hal_g600_attach, hal_g600_detach,
     hal_g600_request, hal_uc864e_attach, hal_uc864e_detach

-----------------------------------------------------------------------------
(* The head of the loop finds nobody, and nobody comes in after it.        *)
LEMMA LoopKeeps ==
  ASSUME TypeOK, DriverInv, BodyStart \/ BodyTest PROVE DriverInv'
<1> USE DEF DriverInv, Unused, Connected, Waits, SimInUse, modemVars, simVars, doorVars, portVars
<1>1. CASE BodyStart
  BY <1>1 DEF BodyStart, OnSteps, NotYet
<1>2. CASE BodyTest
  <2>1. pc' \in {"end", "door1", "on"}
    BY <1>2 DEF BodyTest
  <2>2. pc' = "on" => ~ready /\ Held = {} /\ claim = NoClaim
    BY <1>2 DEF BodyTest, critical_lock
  <2>3. ready' = ready /\ Held' = Held /\ claim' = claim /\ SimInUse'
    BY <1>2 DEF BodyTest, Held
  <2>4. Waits'
    BY <1>2 DEF BodyTest, OnSteps, OffSteps
  <2> QED
    BY <2>1, <2>2, <2>3, <2>4 DEF OnSteps, NotYet
<1> QED
  BY <1>1, <1>2

(* Switching on ends with a modem that has power and the right slot, or    *)
(* with none that is ready.                                                *)
LEMMA SwitchOnKeeps ==
  ASSUME TypeOK, DriverInv,
         \/ hal_gtm900b_switch_on \/ hal_g600_switch_on \/ hal_uc864e_switch_on
         \/ \E ok \in BOOLEAN : hal_gtm900b_get_ready(ok)
  PROVE  DriverInv'
<1> USE DEF DriverInv, Unused, Connected, Waits, SimInUse, simVars, doorVars, OnSteps, NotYet
<1>1. pc \in OnSteps /\ Held' = Held /\ claim' = claim /\ UNCHANGED <<drv, curSIM, waitSIM, seen, got>>
  BY DEF hal_gtm900b_switch_on, hal_g600_switch_on, hal_uc864e_switch_on, hal_gtm900b_get_ready,
         OnOpen, OnReset, OnAt, OnPower, OnBaud, OnPowered, OnAnswer, Held
<1>0. Waits'
  <2>1. drv # "uc864e" => ~waitSIM
    BY <1>1
  <2> QED
    BY <1>1, <2>1
<1>2. ASSUME NEW ok \in BOOLEAN, hal_gtm900b_get_ready(ok) PROVE DriverInv'
  BY <1>0, <1>1, <1>2 DEF hal_gtm900b_get_ready
<1>3. ASSUME hal_gtm900b_switch_on \/ hal_g600_switch_on PROVE DriverInv'
  <2>1. ready' = ready
    BY <1>3 DEF hal_gtm900b_switch_on, hal_g600_switch_on
  <2>2. ASSUME NEW ok \in BOOLEAN, OnOpen(ok) PROVE DriverInv'
    BY <1>0, <1>1, <2>1, <2>2 DEF OnOpen, OnFails, hal_gtm900b_select_sim
  <2>3. ASSUME NEW ok \in BOOLEAN, OnReset(ok) PROVE DriverInv'
    BY <1>0, <1>1, <2>1, <2>3 DEF OnReset, OnFails, OnWorks, hal_gtm900b_power_on
  <2>4. ASSUME NEW r, OnAt(r) PROVE DriverInv'
    BY <1>0, <1>1, <2>1, <2>4 DEF OnAt, OnWorks, hal_gtm900b_power_on
  <2>5. ASSUME NEW r, OnPower(r) PROVE DriverInv'
    BY <1>0, <1>1, <2>1, <2>5 DEF OnPower, OnFails, OnWorks
  <2>6. ASSUME NEW ok \in BOOLEAN, NEW r, OnBaud(ok, r) PROVE DriverInv'
    BY <1>0, <1>1, <2>1, <2>6 DEF OnBaud, OnFails, OnWorks
  <2> QED
    BY <1>3, <2>2, <2>3, <2>4, <2>5, <2>6 DEF hal_gtm900b_switch_on, hal_g600_switch_on
<1>4. ASSUME hal_uc864e_switch_on PROVE DriverInv'
  <2>1. ASSUME OnPowered PROVE DriverInv'
    BY <1>0, <1>1, <2>1 DEF OnPowered, hal_uc864e_reset, hal_uc864e_power_on
  <2>2. ASSUME NEW opens, NEW r \in hal_uc864e_at_cmd, OnAnswer(opens, r) PROVE DriverInv'
    <3>1. r = 0 => power
      BY DEF hal_uc864e_at_cmd
    <3>2. SimInUse'
      BY <1>1, <2>2, <3>1 DEF OnAnswer
    <3> QED
      BY <1>0, <1>1, <2>2, <3>2 DEF OnAnswer
  <2> QED
    BY <1>4, <2>1, <2>2 DEF hal_uc864e_switch_on
<1> QED
  BY <1>2, <1>3, <1>4

(* A door that has opened, and both of them, take the modem away; another  *)
(* SIM is chosen only for a modem that has been taken away, or by the loop *)
(* of the UC864E.                                                          *)
LEMMA DoorsKeep ==
  ASSUME TypeOK, DriverInv, BodyDoor1 \/ BodyDoor2 \/ BodyBoth \/ (drv = "uc864e" /\ BodyResample)
  PROVE  DriverInv'
<1> USE DEF DriverInv, Unused, Connected, Waits, SimInUse, doorVars, portVars, OnSteps, NotYet
<1>1. ASSUME NEW s \in Sims, DoorSample(s), Waits
      PROVE  (ready' => ready) /\ \A t \in Sims : seen'[t] => ~got'[t]
  <2>1. CASE UNCHANGED <<seen, got>>
    BY <1>1, <2>1 DEF DoorSample, DriverDetach
  <2>2. CASE /\ seen' = [seen EXCEPT ![s] = hal_gtm900b_sim_door(s)]
             /\ got' = [got EXCEPT ![s] = ~hal_gtm900b_sim_door(s)]
    <3>1. seen'[s] => ~got'[s]
      BY <2>2, TypeParts DEF DoorType
    <3>2. \A t \in Sims \ {s} : seen'[t] = seen[t] /\ got'[t] = got[t]
      BY <2>2, TypeParts DEF DoorType
    <3> QED
      BY <1>1, <3>1, <3>2 DEF DoorSample, DriverDetach
  <2> QED
    BY <1>1, <2>1, <2>2 DEF DoorSample
<1>2. CASE BodyDoor1 \/ BodyDoor2
  <2>1. (ready' => ready) /\ \A t \in Sims : seen'[t] => ~got'[t]
    BY <1>1, <1>2 DEF BodyDoor1, BodyDoor2, Sims
  <2>2. Waits'
    BY <1>2, <2>1 DEF BodyDoor1, BodyDoor2, OffSteps
  <2> QED
    BY <1>2, <2>1, <2>2 DEF BodyDoor1, BodyDoor2
<1>3. CASE BodyBoth
  <2>1. BothOut => \A s \in Sims : ~got[s]
    BY DEF BothOut
  <2>2. Waits'
    BY <1>3, <2>1 DEF BodyBoth, DriverDetach, OffSteps
  <2>3. SimInUse'
    BY <1>3 DEF BodyBoth, DriverDetach
  <2> QED
    BY <1>3, <2>2, <2>3 DEF BodyBoth, DriverDetach
<1>4. CASE drv = "uc864e" /\ BodyResample
  <2>1. CASE BothOut
    <3>1. \A s \in Sims : seen'[s] => ~got'[s]
      BY <1>4, <2>1 DEF BodyResample
    <3> QED
      BY <1>4, <3>1 DEF BodyResample
  <2>2. CASE ~BothOut
    BY <1>4, <2>2 DEF BodyResample
  <2> QED
    BY <2>1, <2>2
<1> QED
  BY <1>2, <1>3, <1>4

(* Power is cut only when the modem is not ready.                          *)
LEMMA SwitchOffKeeps ==
  ASSUME TypeOK, DriverInv, hal_gtm900b_switch_off \/ hal_uc864e_switch_off
  PROVE  DriverInv'
<1> USE DEF DriverInv, Unused, Connected, Waits, SimInUse, modemVars, simVars, doorVars, portVars, OnSteps, NotYet
<1>1. Waits'
  <2>1. UNCHANGED <<drv, seen, got, waitSIM>> /\ (ready' = ready \/ ready' = FALSE)
    BY DEF hal_gtm900b_switch_off, hal_uc864e_switch_off, Off, OffWait, OffPower, OffPowerUc
  <2>2. pc \in OffSteps /\ pc' \in OffSteps \cup {"test", "stopped"}
    BY DEF hal_gtm900b_switch_off, hal_uc864e_switch_off, Off, OffWait, OffPower, OffPowerUc, AfterOff, OffSteps
  <2> QED
    BY <2>1, <2>2 DEF OffSteps
<1>2. CASE Off
  BY <1>1, <1>2 DEF Off
<1>3. ASSUME NEW timeout, OffWait(timeout) PROVE DriverInv'
  BY <1>1, <1>3 DEF OffWait
<1>4. ASSUME NEW ok, OffPower(ok) \/ OffPowerUc(ok) PROVE DriverInv'
  BY <1>1, <1>4 DEF OffPower, OffPowerUc, AfterOff
<1> QED
  BY <1>2, <1>3, <1>4 DEF hal_gtm900b_switch_off, hal_uc864e_switch_off

(* The steps around the thread.                                            *)
LEMMA OthersKeep ==
  ASSUME TypeOK, DriverInv, Lifecycle \/ (\E s \in Sims : DoorMoves(s)) \/ Tick \/ UNCHANGED vars
  PROVE  DriverInv'
<1> USE DEF DriverInv, Unused, Connected, Waits, SimInUse, modemVars, simVars, doorVars, portVars
<1>1. CASE \E from, to : ThreadStep(from, to)
  BY <1>1 DEF ThreadStep, Held
<1>2. CASE hal_gtm900b_term
  <2>1. Held' = {}
    BY <1>2 DEF hal_gtm900b_term, Held
  <2> QED
    BY <1>2, <2>1 DEF hal_gtm900b_term
<1>3. CASE (\E s \in Sims : DoorMoves(s)) \/ Tick \/ UNCHANGED vars
  BY <1>3 DEF DoorMoves, Tick, vars, Held
<1> QED
  BY <1>1, <1>2, <1>3 DEF Lifecycle, hal_gtm900b_start, hal_gtm900b_close, hal_g600_start, hal_g600_close,
     hal_g600_term, hal_uc864e_start, hal_uc864e_close, hal_uc864e_term, thread_start, thread_close

-----------------------------------------------------------------------------
(* Every step of a driver, its clients and its doors keeps the invariant.  *)
LEMMA NextKeeps == TypeOK /\ DriverInv /\ [Next]_vars => DriverInv'
<1> SUFFICES ASSUME TypeOK, DriverInv, [Next]_vars PROVE DriverInv'
  OBVIOUS
<1>1. ASSUME NEW c \in Clients, NEW p \in Ports,
             \/ \E interrupt \in BOOLEAN : Attach(c, p, interrupt)
             \/ Detach(c, p)
             \/ Request(c, p)
      PROVE  DriverInv'
  BY <1>1, ClientsKeep
<1>2. ASSUME NEW ok \in BOOLEAN, Claim(ok) PROVE DriverInv'
  <2>1. pc \notin OnSteps /\ pc' = pc
    BY <1>2 DEF Claim, DriverInv, Unused
  <2> QED
    BY <1>2, <2>1 DEF Claim, DriverInv, Unused, Connected, Waits, SimInUse, modemVars, simVars
<1>3. ASSUME Body PROVE DriverInv'
  BY <1>3, LoopKeeps, SwitchOnKeeps, DoorsKeep, SwitchOffKeeps
     DEF Body, hal_gtm900b_body, hal_g600_body, hal_uc864e_body, G600Start, G600Test, G600Door1, G600Door2,
         G600Both, UcStart, UcTest, UcDoor1, UcDoor2, hal_g600_get_ready, hal_g600_switch_off
<1> QED
  BY <1>1, <1>2, <1>3, OthersKeep DEF Next

(* Whatever the driver, its clients, their priorities and the doors do, and *)
(* whichever ioctls of the control port fail: the thread switches the modem *)
(* on only while it has the ports for itself, a modem that is ready is      *)
(* powered, and a GTM900B or G600 that is ready was switched on for the SIM *)
(* of ucCurSIM.                                                             *)
THEOREM DriverInvariant == Spec => []DriverInv
<1>1. Init => DriverInv
  BY DEF Init, DriverInv, Unused, Connected, Waits, SimInUse, OnSteps, NotYet
<1> QED
  BY <1>1, NextKeeps, DriverTypes, PTL DEF Spec

(* No client has a session, or is about to get one, while a driver switches *)
(* its modem on (the loop of hal_gtm900b_body and of the other two).        *)
THEOREM SwitchesOnAlone == Spec => []SwitchOnAlone
<1>1. DriverInv => SwitchOnAlone
  BY DEF DriverInv, Unused, SwitchOnAlone
<1> QED
  BY <1>1, DriverInvariant, PTL

(* A modem that is ready has power, and unless it is the UC864E, whose loop *)
(* changes ucCurSIM behind a ready modem, it is set up for that SIM.        *)
THEOREM ReadyHasSim == Spec => []SimInUse
<1>1. DriverInv => SimInUse
  BY DEF DriverInv
<1> QED
  BY <1>1, DriverInvariant, PTL

-----------------------------------------------------------------------------
(* A step that leaves ready, the sessions and the notices as they are, or   *)
(* notifies every holder, or has none, makes no holder that was not told.   *)
Tells ==
    \A p \in AllPorts :
        ~ready' /\ p \in Held' \ told' =>
            \/ ~ready /\ p \in Held \ told
            \/ claim # NoClaim /\ p = claim[2]

LEMMA ToldOrSame ==
  ASSUME \/ ready' = ready /\ Held' \subseteq Held /\ told \cap Held' \subseteq told'
         \/ ready'
         \/ Held' \subseteq told'
  PROVE  Tells
BY DEF Tells

LEMMA ClientsTell ==
  ASSUME TypeOK, NEW c \in Clients, NEW p \in Ports,
         \/ \E interrupt \in BOOLEAN : Attach(c, p, interrupt)
         \/ Detach(c, p)
         \/ Request(c, p)
  PROVE  Tells
<1>1. ASSUME NEW interrupt \in BOOLEAN, hal_gtm900b_attach(c, p, interrupt) PROVE Tells
  BY <1>1, ToldOrSame, HeldStays DEF hal_gtm900b_attach, modemVars
<1>2. ASSUME hal_gtm900b_detach(c, p) PROVE Tells
  <2>1. Held' = Held \ {p}
    BY <1>2, PortsStay, TypeParts DEF hal_gtm900b_detach, PortType, Held
  <2> QED
    BY <1>2, <2>1, ToldOrSame DEF hal_gtm900b_detach, modemVars
<1>3. ASSUME hal_gtm900b_request(c, p) \/ hal_uc864e_request(c, p) PROVE Tells
  <2>1. Held' = Held
    BY <1>3, HeldStays DEF hal_gtm900b_request, hal_uc864e_request
  <2>2. (ready' = ready /\ (told' = told \/ told' = Held)) \/ told' = Held
    BY <1>3 DEF hal_gtm900b_request, hal_uc864e_request, RequestReset, RequestDetach, RequestChgSim,
       RequestSimGone, RequestPort, RequestMode, hal_uc864e_signal
  <2> QED
    BY <2>1, <2>2, ToldOrSame
<1> QED
  BY <1>1, <1>2, <1>3 DEF Attach, Detach, Request, hal_g600_attach, hal_g600_detach,
     hal_g600_request, hal_uc864e_attach, hal_uc864e_detach

(* Only the end of an attach adds a holder: the one whose test of ucReady   *)
(* is over.                                                                 *)
LEMMA ClaimTells == ASSUME TypeOK, NEW ok \in BOOLEAN, Claim(ok) PROVE Tells
<1>1. PICK c \in Clients, p \in Ports : claim = <<c, p>>
  BY TypeParts DEF Claim, PortType
<1>2. claim[2] = p /\ \A q \in AllPorts \ {p} : session'[q] = session[q]
  BY <1>1, TypeParts DEF Claim, PortType
<1>3. ready' = ready /\ told' = told
  BY DEF Claim, modemVars
<1> QED
  BY <1>2, <1>3 DEF Tells, Held, Claim

LEMMA ThreadTells ==
  ASSUME TypeOK, Body \/ Lifecycle \/ (\E s \in Sims : DoorMoves(s)) \/ Tick \/ UNCHANGED vars
  PROVE  Tells
<1> USE DEF modemVars, simVars, doorVars, portVars
<1>1. CASE hal_gtm900b_term
  BY <1>1, ToldOrSame DEF hal_gtm900b_term, Held
<1>2. ASSUME \/ (\E from, to : ThreadStep(from, to)) \/ BodyStart \/ BodyTest
             \/ (\E s \in Sims : DoorMoves(s)) \/ Tick \/ UNCHANGED vars
      PROVE  Tells
  BY <1>2, ToldOrSame, HeldStays DEF ThreadStep, BodyStart, BodyTest, DoorMoves, Tick, vars
<1>3. CASE \/ hal_gtm900b_switch_on \/ hal_g600_switch_on \/ hal_uc864e_switch_on
           \/ \E ok \in BOOLEAN : hal_gtm900b_get_ready(ok)
  <2>1. session' = session /\ told' = told /\ (ready' = ready \/ ready')
    BY <1>3 DEF hal_gtm900b_switch_on, hal_g600_switch_on, hal_uc864e_switch_on, hal_gtm900b_get_ready,
       OnPowered, OnAnswer
  <2> QED
    BY <2>1, ToldOrSame, HeldStays
<1>4. ASSUME NEW s, DoorSample(s), session' = session PROVE Tells
  BY <1>4, ToldOrSame, HeldStays DEF DoorSample, DriverDetach
<1>5. CASE BodyDoor1 \/ BodyDoor2 \/ BodyBoth \/ BodyResample
  BY <1>4, <1>5, ToldOrSame, HeldStays DEF BodyDoor1, BodyDoor2, BodyBoth, BodyResample, DriverDetach
<1>6. CASE hal_gtm900b_switch_off \/ hal_uc864e_switch_off
  <2>1. session' = session /\ (told' = Held \/ (told' = told /\ ready' = ready))
    BY <1>6 DEF hal_gtm900b_switch_off, hal_uc864e_switch_off, Off, OffWait, OffPower, OffPowerUc
  <2> QED
    BY <2>1, ToldOrSame, HeldStays
<1>7. CASE Body
  BY <1>2, <1>3, <1>5, <1>6, <1>7
     DEF Body, hal_gtm900b_body, hal_g600_body, hal_uc864e_body, G600Start, G600Test, G600Door1, G600Door2,
         G600Both, UcStart, UcTest, UcDoor1, UcDoor2, hal_g600_get_ready, hal_g600_switch_off
<1>8. CASE Lifecycle
  BY <1>1, <1>2, <1>8 DEF Lifecycle, hal_gtm900b_start, hal_gtm900b_close, hal_g600_start, hal_g600_close,
     hal_g600_term, hal_uc864e_start, hal_uc864e_close, hal_uc864e_term, thread_start, thread_close
<1> QED
  BY <1>2, <1>7, <1>8

(* However the clients, the doors and the thread interleave, a modem that   *)
(* is not ready has a holder that was not told to detach only if its attach *)
(* had passed the test of ucReady before and ended after the notices (the   *)
(* lock of hal_gtm900b_attach, which the requests do not take).             *)
THEOREM EveryHolderIsTold == Spec => HoldersAreTold
<1>1. TypeOK /\ [Next]_vars => [Tells]_vars
  BY ClientsTell, ClaimTells, ThreadTells DEF Next
<1>2. HoldersAreTold <=> [][Tells]_vars
  BY PTL DEF HoldersAreTold, Tells
<1> QED
  BY <1>1, <1>2, DriverTypes, PTL DEF Spec
=============================================================================
