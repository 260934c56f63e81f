----------------------------- MODULE HalCx930xx -----------------------------
(***************************************************************************)
(* The driver of the CX930XX line modems, hal_cx930xx.c: any number of     *)
(* slots, each with a modem, one data port and a lock, and one thread for  *)
(* all of them.  Clients attach, detach and request as in HalModem.        *)
(*                                                                         *)
(* ulLastRING is counted in ticks, of which RingHold are its 3000 ms.      *)
(* ucStatus, which nobody reads, and ucReset are left out: a modem is      *)
(* powered by being reset, so that ucReset only chooses what is logged.    *)
(***************************************************************************)
EXTENDS Integers

CONSTANTS
    SlotCount,
    Users, NoUser,
    Rank,       \* per user: p_ucPriority
    RingHold

ASSUME SlotsAssumption == SlotCount \in Nat \ {0}
ASSUME UsersAssumption == NoUser \notin Users /\ Rank \in [Users -> Nat]

(* In the order of the item array. *)
Slots == 1..SlotCount

VARIABLES
    cxproc,     \* of the WRK_THREAD, as in HalModem
    step,       \* where the thread is
    slot,       \* the slot it is at
    cxready,    \* ucReady
    holder,     \* stSession of the data port
    asked,      \* the slots whose holder was told to detach
    entering,   \* per slot: the user whose attach has passed its checks
    cxport,     \* the data port is open
    line,       \* the line of the slot rings
    ucRING,     \* of the thread, for all slots
    lastRING,   \* ulLastRING: 0, or one more than the ticks since
    rung        \* the slots whose holder was last told of a ring

cxThread == <<cxproc, step, slot>>
cxUse    == <<holder, asked, entering, cxport>>
cxRing   == <<ucRING, lastRING, rung>>
cxVars   == <<cxThread, cxready, cxUse, line, cxRing>>

cx_lock(s) == entering[s] = NoUser

(* hal_cx930xx_init, and add_slot for every slot. *)
CxInit ==
    /\ cxproc = "init" /\ step = "next" /\ slot = 1
    /\ cxready = [s \in Slots |-> FALSE]
    /\ holder = [s \in Slots |-> NoUser] /\ entering = holder
    /\ asked = {} /\ rung = {}
    /\ cxport = cxready /\ line = cxready
    /\ ucRING = FALSE /\ lastRING = 0

-----------------------------------------------------------------------------
(* hal_cx930xx_attach up to the opening of the port, and the rest of it. *)
hal_cx930xx_attach(u, s, interrupt) ==
    /\ cxproc # "gone" /\ cx_lock(s) /\ u # holder[s]
    /\ \/ /\ holder[s] # NoUser
          /\ Rank[u] > Rank[holder[s]] \/ (interrupt /\ Rank[u] = Rank[holder[s]])
          /\ asked' = asked \cup {s} /\ UNCHANGED entering
       \/ /\ holder[s] = NoUser /\ cxready[s]
          /\ entering' = [entering EXCEPT ![s] = u] /\ UNCHANGED asked
    /\ UNCHANGED <<cxThread, cxready, holder, cxport, line, cxRing>>

CxClaim(s, ok) ==
    /\ entering[s] # NoUser
    /\ cxport' = [cxport EXCEPT ![s] = ok]
    /\ holder' = IF ok THEN [holder EXCEPT ![s] = entering[s]] ELSE holder
    /\ entering' = [entering EXCEPT ![s] = NoUser]
    /\ UNCHANGED <<cxThread, cxready, asked, line, cxRing>>

hal_cx930xx_detach(u, s) ==
    /\ holder[s] = u /\ cx_lock(s)
    /\ cxport' = [cxport EXCEPT ![s] = FALSE]
    /\ holder' = [holder EXCEPT ![s] = NoUser]
    /\ asked' = asked \ {s} /\ rung' = rung \ {s}
    /\ UNCHANGED <<cxThread, cxready, entering, line, ucRING, lastRING>>

(* hal_cx930xx_port, of the one port of a slot. *)
hal_cx930xx_port(s, open) == cxport' = [cxport EXCEPT ![s] = open]

(* Who names the slot needs no session, and asks without the lock; a slot   *)
(* has one port, so that nobody outranks its holder.  DTR is not modelled.  *)
hal_cx930xx_request(s, byName) ==
    /\ byName \/ (holder[s] # NoUser /\ cx_lock(s))
    /\ \/ /\ cxready' = [cxready EXCEPT ![s] = FALSE]
          /\ asked' = IF holder[s] # NoUser THEN asked \cup {s} ELSE asked
          /\ UNCHANGED cxport
       \/ /\ \E ok \in BOOLEAN : hal_cx930xx_port(s, ok)
          /\ UNCHANGED <<cxready, asked>>
    /\ UNCHANGED <<cxThread, holder, entering, line, cxRing>>

-----------------------------------------------------------------------------
(* The thread: the next slot, or the end when the token is cleared. *)
NextSlot ==
    /\ step = "next" /\ cxproc # "init"
    /\ IF cxproc = "running"
       THEN step' = "test" /\ slot' = IF slot + 1 \in Slots THEN slot + 1 ELSE 1
       ELSE step' = "end" /\ slot' = 1
    /\ UNCHANGED <<cxproc, cxready, cxUse, line, cxRing>>

(* Mutant: the lock is not waited for. *)
TestSlot_unlocked ==
    /\ step = "test"
    /\ step' = IF ~cxready[slot] /\ holder[slot] = NoUser THEN "on" ELSE "ring"
    /\ UNCHANGED <<cxproc, slot, cxready, cxUse, line, cxRing>>

TestSlot ==
    /\ step = "test"
    /\ cxready[slot] \/ cx_lock(slot)
    /\ step' = IF ~cxready[slot] /\ holder[slot] = NoUser THEN "on" ELSE "ring"
    /\ UNCHANGED <<cxproc, slot, cxready, cxUse, line, cxRing>>

(* The results of AT: those of hal_cx930xx_at_cmd_ex in AtCommand. *)
hal_cx930xx_at_cmd == {0, 2, 3, 4, 5, 255}

(* For 10 s at most the port is opened and AT sent until it is answered (0) *)
(* or the port fails (2).  Of what it says about closing ports nothing      *)
(* happens, because hal_cx930xx_port counts them from 1.                    *)
hal_cx930xx_switch_on(opens, r) ==
    /\ step = "on" /\ step' = "ring"
    /\ cxport' = [cxport EXCEPT ![slot] = opens \/ (@ /\ cxproc # "running")]
    /\ cxready' = [cxready EXCEPT ![slot] = @ \/ (opens /\ r = 0)]
    /\ UNCHANGED <<cxproc, slot, holder, asked, entering, line, cxRing>>

(* Mutant: the holder is told of ucRING in every pass. *)
TellRing_always ==
    IF holder[slot] # NoUser
    THEN rung' = IF ucRING' THEN rung \cup {slot} ELSE rung \ {slot}
    ELSE UNCHANGED rung

(* The holder of the slot at hand is told of a change of ucRING. *)
TellRing ==
    IF ucRING' # ucRING /\ holder[slot] # NoUser
    THEN rung' = IF ucRING' THEN rung \cup {slot} ELSE rung \ {slot}
    ELSE UNCHANGED rung

(* hal_cx930xx_ring: the line of a slot that is ready.  The board may not   *)
(* report it.                                                               *)
hal_cx930xx_ring(s) == IF line[s] THEN BOOLEAN ELSE {FALSE}

(* A slot that is ready is looked at when 100 ms have passed since any slot *)
(* was.                                                                     *)
SampleRing(due) ==
    /\ step = "ring" /\ step' = "next"
    /\ IF cxready[slot] /\ due
       THEN \E rings \in hal_cx930xx_ring(slot) :
                /\ ucRING' = (rings \/ (ucRING /\ lastRING <= RingHold))
                /\ lastRING' = IF rings \/ lastRING \notin 1..RingHold THEN 1 ELSE lastRING
       ELSE UNCHANGED <<ucRING, lastRING>>
    /\ TellRing
    /\ UNCHANGED <<cxproc, slot, cxready, cxUse, line>>

(* The end of the thread: the holder of each slot is told to detach, which  *)
(* nothing waits for.  The ports stay as they are.                          *)
hal_cx930xx_switch_off ==
    /\ step = "end"
    /\ asked' = IF holder[slot] # NoUser THEN asked \cup {slot} ELSE asked
    /\ cxready' = [cxready EXCEPT ![slot] = FALSE]
    /\ IF slot + 1 \in Slots THEN slot' = slot + 1 /\ UNCHANGED step
       ELSE step' = "stopped" /\ UNCHANGED slot
    /\ UNCHANGED <<cxproc, holder, entering, cxport, line, cxRing>>

hal_cx930xx_body ==
    \/ NextSlot \/ TestSlot
    \/ \E opens \in BOOLEAN, r \in hal_cx930xx_at_cmd : hal_cx930xx_switch_on(opens, r)
    \/ \E due \in BOOLEAN : SampleRing(due)
    \/ hal_cx930xx_switch_off

CxThreadStep(from, to) ==
    /\ cxproc = from /\ cxproc' = to
    /\ UNCHANGED <<step, slot, cxready, cxUse, line, cxRing>>

hal_cx930xx_start == CxThreadStep("init", "running")
hal_cx930xx_close ==
    \/ CxThreadStep("running", "closing")
    \/ step = "stopped" /\ CxThreadStep("closing", "joined")

(* The slots are forgotten, with their sessions.  Their ports stay open. *)
hal_cx930xx_term ==
    /\ cxproc = "joined" /\ cxproc' = "gone"
    /\ holder' = [s \in Slots |-> NoUser] /\ entering' = holder'
    /\ asked' = {} /\ rung' = {}
    /\ UNCHANGED <<step, slot, cxready, cxport, line, ucRING, lastRING>>

LineChanges(s) ==
    /\ line' = [line EXCEPT ![s] = ~@]
    /\ UNCHANGED <<cxThread, cxready, cxUse, cxRing>>

CxTick ==
    /\ lastRING \in 1..RingHold /\ lastRING' = lastRING + 1
    /\ UNCHANGED <<cxThread, cxready, cxUse, line, ucRING, rung>>

CxNext ==
    \/ \E u \in Users, s \in Slots :
           \/ \E interrupt \in BOOLEAN : hal_cx930xx_attach(u, s, interrupt)
           \/ hal_cx930xx_detach(u, s)
    \/ \E s \in Slots, byName \in BOOLEAN : cxproc # "gone" /\ hal_cx930xx_request(s, byName)
    \/ \E s \in Slots, ok \in BOOLEAN : CxClaim(s, ok)
    \/ hal_cx930xx_body
    \/ hal_cx930xx_start \/ hal_cx930xx_close \/ hal_cx930xx_term
    \/ \E s \in Slots : LineChanges(s)
    \/ CxTick

CxSpec == CxInit /\ [][CxNext]_cxVars

-----------------------------------------------------------------------------
(* While the thread switches a modem on, nobody has a session on its slot   *)
(* or is about to get one (hal_cx930xx_body: "Make sure all holder are      *)
(* detached port").                                                         *)
SlotAlone == step = "on" => holder[slot] = NoUser /\ entering[slot] = NoUser

(* A holder is told of a ring only while the line of its own slot rings,    *)
(* although the thread has one ucRING for all slots.                        *)
RingFromItsLine == [][\A s \in rung' \ rung : line[s]]_cxVars
=============================================================================
