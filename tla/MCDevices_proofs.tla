--------------------------- MODULE MCDevices_proofs ---------------------------
(***************************************************************************)
(* The modem devices, each for itself and then in a behaviour of           *)
(* DevicesSpec: the line modems for any number of slots and any set of     *)
(* users, the AT command for every time-out and every room for its answer, *)
(* and the boot of the mobile modem for every set of carriers.             *)
(***************************************************************************)
EXTENDS MCDevices, SequenceTheorems, TLAPS

CxType ==
    /\ slot \in Slots
    /\ holder \in [Slots -> Users \cup {NoUser}]
    /\ entering \in [Slots -> Users \cup {NoUser}]
    /\ cxready \in [Slots -> BOOLEAN]
    /\ ucRING \in BOOLEAN

(* The slot that is switched on stays as the thread has found it: who wants *)
(* to attach finds it not ready.                                           *)
OnUnready == step = "on" => ~cxready[slot]

CxInv == CxType /\ OnUnready /\ SlotAlone

(* What the users do leaves the thread where it is. *)
LEMMA UsersKeep ==
  ASSUME CxInv, NEW s \in Slots,
         \/ \E u \in Users, interrupt \in BOOLEAN : hal_cx930xx_attach(u, s, interrupt)
         \/ \E u \in Users : hal_cx930xx_detach(u, s)
         \/ \E byName \in BOOLEAN : hal_cx930xx_request(s, byName)
         \/ \E ok \in BOOLEAN : CxClaim(s, ok)
  PROVE  CxInv'
<1> USE DEF CxInv, CxType, OnUnready, SlotAlone, cxThread, cxRing
<1>1. ASSUME NEW u \in Users, NEW interrupt \in BOOLEAN, hal_cx930xx_attach(u, s, interrupt) PROVE CxInv'
  <2>1. CxType' /\ step' = step /\ slot' = slot /\ cxready' = cxready /\ holder' = holder
    BY <1>1 DEF hal_cx930xx_attach
  <2>2. entering' = entering \/ (cxready[s] /\ entering' = [entering EXCEPT ![s] = u])
    BY <1>1 DEF hal_cx930xx_attach
  <2> QED
    BY <2>1, <2>2
<1>2. ASSUME NEW u \in Users, hal_cx930xx_detach(u, s) PROVE CxInv'
  BY <1>2 DEF hal_cx930xx_detach
<1>3. ASSUME NEW byName \in BOOLEAN, hal_cx930xx_request(s, byName) PROVE CxInv'
  <2>1. UNCHANGED <<step, slot, holder, entering, ucRING>>
    BY <1>3 DEF hal_cx930xx_request
  <2>2. cxready' = cxready \/ cxready' = [cxready EXCEPT ![s] = FALSE]
    BY <1>3 DEF hal_cx930xx_request
  <2> QED
    BY <2>1, <2>2
<1>4. ASSUME NEW ok \in BOOLEAN, CxClaim(s, ok) PROVE CxInv'
  <2>1. step' = step /\ slot' = slot /\ cxready' = cxready /\ ucRING' = ucRING /\ entering[s] # NoUser
    BY <1>4 DEF CxClaim
  <2>2. entering' = [entering EXCEPT ![s] = NoUser]
    BY <1>4 DEF CxClaim
  <2>3. holder' = holder \/ holder' = [holder EXCEPT ![s] = entering[s]]
    BY <1>4 DEF CxClaim
  <2> QED
    BY <2>1, <2>2, <2>3
<1> QED
  BY <1>1, <1>2, <1>3, <1>4

(* The thread waits for the lock before it takes a slot that is not ready. *)
LEMMA ThreadKeeps ==
  ASSUME CxInv, hal_cx930xx_body
  PROVE  CxInv'
<1> USE DEF CxInv, CxType, OnUnready, SlotAlone, cxUse
<1>0. 1 \in Slots
  BY SlotsAssumption DEF Slots
<1>1. CASE NextSlot
  BY <1>0, <1>1 DEF NextSlot, cxRing
<1>2. CASE TestSlot
  BY <1>2 DEF TestSlot, cx_lock, cxRing
<1>3. ASSUME NEW opens \in BOOLEAN, NEW r \in hal_cx930xx_at_cmd, hal_cx930xx_switch_on(opens, r) PROVE CxInv'
  BY <1>3 DEF hal_cx930xx_switch_on, cxRing
<1>4. ASSUME NEW due \in BOOLEAN, SampleRing(due) PROVE CxInv'
  <2>1. ucRING' \in BOOLEAN
    BY <1>4 DEF SampleRing
  <2> QED
    BY <1>4, <2>1 DEF SampleRing
<1>5. CASE hal_cx930xx_switch_off
  BY <1>5 DEF hal_cx930xx_switch_off, cxRing
<1> QED
  BY <1>1, <1>2, <1>3, <1>4, <1>5 DEF hal_cx930xx_body

(* Every step keeps the invariant. *)
LEMMA CxNextKeeps == CxInv /\ [CxNext]_cxVars => CxInv'
<1> SUFFICES ASSUME CxInv, [CxNext]_cxVars PROVE CxInv'
  OBVIOUS
<1> USE DEF CxInv, CxType, OnUnready, SlotAlone, cxThread, cxUse, cxRing
<1>1. CASE hal_cx930xx_start \/ hal_cx930xx_close
  <2>1. \E from, to : CxThreadStep(from, to)
    BY <1>1 DEF hal_cx930xx_start, hal_cx930xx_close
  <2> QED
    BY <2>1 DEF CxThreadStep
<1>2. CASE hal_cx930xx_term
  BY <1>2 DEF hal_cx930xx_term
<1>3. CASE (\E s \in Slots : LineChanges(s)) \/ CxTick \/ UNCHANGED cxVars
  BY <1>3 DEF LineChanges, CxTick, cxVars
<1> QED
  BY <1>1, <1>2, <1>3, UsersKeep, ThreadKeeps DEF CxNext

(* At the start no slot has a user, and the types hold from then on. *)
THEOREM CxInvariant == CxSpec => []CxInv
<1>1. CxInit => CxInv
  <2>1. 1 \in Slots
    BY SlotsAssumption DEF Slots
  <2> QED
    BY <2>1 DEF CxInit, CxInv, CxType, OnUnready, SlotAlone
<1> QED
  BY <1>1, CxNextKeeps, PTL DEF CxSpec

(* For any number of slots: nobody has a session on the slot whose modem    *)
(* the thread switches on, or is about to get one (hal_cx930xx_body).       *)
THEOREM SlotIsAlone == CxSpec => []SlotAlone
<1>1. CxInv => SlotAlone
  BY DEF CxInv
<1> QED
  BY <1>1, CxInvariant, PTL

(* For any number of slots: a holder is told of a ring only while its own   *)
(* line rings (hal_cx930xx_ring, and the ucRING that all slots share).      *)
THEOREM RingIsOfItsLine == CxSpec => RingFromItsLine
<1> DEFINE Step == \A s \in rung' \ rung : line[s]
<1>1. ASSUME CxInv, CxNext PROVE Step
  <2> USE DEF cxThread, cxUse, cxRing
  <2>1. ASSUME NEW due \in BOOLEAN, SampleRing(due) PROVE Step
    <3>1. CASE ucRING' # ucRING /\ ucRING'
      <4>1. \E rings \in hal_cx930xx_ring(slot) : rings
        BY <1>1, <2>1, <3>1 DEF SampleRing, CxInv, CxType
      <4>2. line[slot]
        BY <4>1 DEF hal_cx930xx_ring
      <4> QED
        BY <2>1, <4>2 DEF SampleRing, TellRing
    <3>2. CASE ~(ucRING' # ucRING /\ ucRING')
      <4>1. rung' = rung \/ rung' = rung \ {slot}
        BY <2>1, <3>2 DEF SampleRing, TellRing
      <4> QED
        BY <4>1
    <3> QED
      BY <3>1, <3>2
  <2>2. ASSUME \A due \in BOOLEAN : ~SampleRing(due) PROVE rung' \subseteq rung
    BY <1>1, <2>2 DEF CxNext, hal_cx930xx_attach, hal_cx930xx_detach, hal_cx930xx_request, CxClaim,
       hal_cx930xx_body, NextSlot, TestSlot, hal_cx930xx_switch_on, hal_cx930xx_switch_off, hal_cx930xx_start,
       hal_cx930xx_close, CxThreadStep, hal_cx930xx_term, LineChanges, CxTick
  <2> QED
    BY <2>1, <2>2
<1> QED
  BY <1>1, CxInvariant, PTL DEF CxSpec, RingFromItsLine

-----------------------------------------------------------------------------
(* The AT command.  What the port held when it began is of item -1, and no  *)
(* later item is: the modem is owed 0, the command before, and 1.           *)
Numbers == {-1, 0, 1}
Items == Numbers \X (Words \cup {"noise"})
Stale(item) == item[1] = -1

AtType ==
    /\ wire \in Seq(Items) /\ kept \in Seq(Items)
    /\ left \in Nat /\ backlog \in Nat
    /\ owed \subseteq {0, 1}

StaleWithin(n) == \A i \in DOMAIN wire : Stale(wire[i]) => i <= n

(* Before the old items are thrown away they are the first of the port, and *)
(* the time that is left suffices to read them; the disposal ends when none *)
(* is left, or with a port that the command will fail to write to.          *)
Disposal ==
    backlog <= Timeout /\ ~disturbed /\ token =>
        /\ at \in {"lock", "delay"} => StaleWithin(backlog)
        /\ at = "rubbish" => StaleWithin(left)
        /\ at = "send" => ~open \/ ~works \/ StaleWithin(0)
        /\ at \in {"gap", "recv"} => StaleWithin(0)
        /\ result \in {0, 3} \/ at # "done" => \A i \in DOMAIN kept : ~Stale(kept[i])

Unfinished ==
    /\ at # "done" => result = Pending
    /\ at \in {"lock", "delay", "rubbish", "send", "gap"} => kept = <<>>
    /\ at \in {"lock", "delay", "rubbish", "send", "gap", "recv", "done"}

AtInv == AtType /\ Unfinished /\ Disposal

LEMMA AtConstants == Timeout \in Nat /\ MaxBacklog \in Nat
BY TimeAssumption

LEMMA AtInitHolds == AtInit => AtInv
<1> SUFFICES ASSUME AtInit PROVE AtInv
  OBVIOUS
<1>1. PICK n \in 0..MaxBacklog : wire \in [1..n -> {Noise, <<-1, "ok">>}]
  BY DEF AtInit
<1>2. n \in Nat /\ {Noise, <<-1, "ok">>} \subseteq Items
  BY AtConstants DEF Items, Numbers, Noise, Words
<1>3. wire \in [1..n -> Items]
  BY <1>1, <1>2
<1>4. wire \in Seq(Items) /\ Len(wire) = n /\ DOMAIN wire = 1..n
  BY <1>2, <1>3
<1>5. AtType
  BY <1>2, <1>4 DEF AtInit, AtType
<1>6. Unfinished
  BY DEF AtInit, Unfinished
<1>7. Disposal
  BY <1>2, <1>4 DEF AtInit, Disposal, StaleWithin
<1> QED
  BY <1>5, <1>6, <1>7 DEF AtInv

(* What comes at the end of the port is of the command or of the one before *)
(* it, and what is read is its first item.                                  *)
LEMMA Appended ==
  ASSUME wire \in Seq(Items), NEW item \in Items, ~Stale(item), wire' = Append(wire, item), NEW n
  PROVE  /\ wire' \in Seq(Items)
         /\ StaleWithin(n) => StaleWithin(n)'
BY DEF StaleWithin

LEMMA FirstRead ==
  ASSUME wire \in Seq(Items), wire # <<>>, wire' = Tail(wire)
  PROVE  /\ Head(wire) \in Items /\ wire' \in Seq(Items)
         /\ \A n \in Nat : StaleWithin(n) => \A i \in DOMAIN wire' : Stale(wire'[i]) => i <= n - 1
         /\ StaleWithin(0) => ~Stale(Head(wire)) /\ StaleWithin(0)'
<1>1. Len(wire) \in Nat /\ Len(wire) >= 1 /\ DOMAIN wire = 1..Len(wire) /\ Head(wire) = wire[1]
  OBVIOUS
<1>2. wire' \in Seq(Items) /\ DOMAIN wire' = 1..(Len(wire) - 1)
  BY <1>1
<1>3. \A i \in DOMAIN wire' : wire'[i] = wire[i + 1] /\ i + 1 \in DOMAIN wire
  BY <1>1, <1>2
<1> QED
  BY <1>1, <1>2, <1>3 DEF StaleWithin

(* The five programs go through the same steps. *)
AtLock ==
    /\ at = "lock" /\ UNCHANGED <<portOwn, modemOwn>>
    /\ (\E r \in {1, 3} : Ends(r)) \/ \E delay \in {0, 1} : AtGoes("delay", delay)

LEMMA CommandSteps ==
  ASSUME AtCmd
  PROVE  \/ AtLock
         \/ Pause("delay", "rubbish", Timeout) \/ Pause("gap", "recv", Timeout)
         \/ ThrowRubbish
         \/ \E gap \in BOOLEAN : SendCommand(gap)
         \/ \E ends \in {4, 5, 255} : Read(ends)
<1>1. NoAnswer \in {4, 5}
  BY DEF NoAnswer
<1>2. send_atcmd_send \/ gtm900b_send \/ cx930xx_send \/ send_atcmd_recv \/ gtm900b_recv \/ cx930xx_recv
  BY DEF AtCmd, send_atcmd, hal_gtm900b_at_cmd, hal_g600_at_cmd, hal_uc864e_at_cmd, hal_cx930xx_at_cmd_ex,
     g600_send, g600_recv, uc864e_send, uc864e_recv
<1>3. CASE send_atcmd_send
  BY <1>3 DEF send_atcmd_send, AtLock
<1>4. CASE gtm900b_send
  BY <1>4 DEF gtm900b_send, AtLock, Lock
<1>5. CASE cx930xx_send
  BY <1>5 DEF cx930xx_send, AtLock, Lock
<1>6. CASE send_atcmd_recv \/ gtm900b_recv \/ cx930xx_recv
  BY <1>1, <1>6 DEF send_atcmd_recv, gtm900b_recv, cx930xx_recv
<1> QED
  BY <1>2, <1>3, <1>4, <1>5, <1>6

LEMMA SendKeeps ==
  ASSUME AtInv,
         \/ AtLock \/ Pause("delay", "rubbish", Timeout) \/ Pause("gap", "recv", Timeout)
         \/ \E gap \in BOOLEAN : SendCommand(gap)
  PROVE  AtInv'
<1> USE DEF AtInv, AtType, Unfinished, Disposal, StaleWithin, portOwn, modemOwn, Ends, AtGoes
<1>1. CASE AtLock
  <2>1. at = "lock" /\ UNCHANGED <<portOwn, modemOwn>> /\ kept' = <<>> /\ kept = <<>>
    BY <1>1 DEF AtLock
  <2>2. \/ at' = "done" /\ left' = left
        \/ at' = "delay" /\ left' \in {0, 1} /\ result' = result
    BY <1>1 DEF AtLock
  <2> QED
    BY <2>1, <2>2
<1>2. CASE Pause("delay", "rubbish", Timeout)
  <2>1. at = "delay" /\ UNCHANGED <<portOwn, modemOwn>> /\ kept' = <<>> /\ kept = <<>>
    BY <1>2 DEF Pause
  <2>2. \/ at' = "done" /\ left' = left /\ result' = 255
        \/ at' = "rubbish" /\ left' = Timeout /\ result' = result
    BY <1>2 DEF Pause
  <2>3. StaleWithin(backlog) /\ backlog <= Timeout => StaleWithin(Timeout)
    BY AtConstants
  <2> QED
    BY <2>1, <2>2, <2>3, AtConstants
<1>3. CASE Pause("gap", "recv", Timeout)
  BY <1>3, AtConstants DEF Pause
<1>4. ASSUME NEW gap \in BOOLEAN, SendCommand(gap) PROVE AtInv'
  <2>1. UNCHANGED <<portOwn, wire, noises, kept>> /\ at = "send" /\ owed' \subseteq {0, 1}
    BY <1>4 DEF SendCommand
  <2>2. CASE Sent # 0
    BY <1>4, <2>1, <2>2 DEF SendCommand
  <2>3. CASE Sent = 0
    <3>1. open /\ works
      BY <2>3 DEF Sent, comport_send, comport_send_voice
    <3>2. at' = "gap" /\ left' \in {0, 1} /\ result' = result
      BY <1>4, <2>3 DEF SendCommand
    <3> QED
      BY <2>1, <3>1, <3>2
  <2> QED
    BY <2>2, <2>3
<1> QED
  BY <1>1, <1>2, <1>3, <1>4

(* A pass of the disposal takes the first item and one tick. *)
LEMMA RubbishKeeps == ASSUME AtInv, ThrowRubbish PROVE AtInv'
<1> USE DEF AtInv, AtType, Unfinished, Disposal, portOwn, Ends, AtGoes
<1>1. at = "rubbish" /\ UNCHANGED <<portOwn, owed, noises, kept, result>>
  BY DEF ThrowRubbish
<1>2. CASE Over \/ Received # "item"
  <2>1. at' = "send" /\ left' = 0 /\ wire' = wire
    BY <1>2 DEF ThrowRubbish
  <2>2. left = 0 \/ ~token \/ ~open \/ ~works \/ wire = <<>>
    BY <1>2 DEF Over, Stopped, Received, comport_recv, comport_recv_voice
  <2> QED
    BY <1>1, <2>1, <2>2 DEF StaleWithin
<1>3. CASE ~(Over \/ Received # "item")
  <2>1. at' = "rubbish" /\ left' = left - 1 /\ wire' = Tail(wire)
    BY <1>3 DEF ThrowRubbish
  <2>2. left # 0 /\ wire # <<>>
    BY <1>3 DEF Over, Received, comport_recv, comport_recv_voice
  <2>3. StaleWithin(left) => StaleWithin(left)'
    <3>1. StaleWithin(left) => \A i \in DOMAIN wire' : Stale(wire'[i]) => i <= left - 1
      BY <2>1, <2>2, FirstRead
    <3> QED
      BY <2>1, <3>1 DEF StaleWithin
  <2>4. wire' \in Seq(Items) /\ left' \in Nat
    BY <2>1, <2>2, FirstRead
  <2> QED
    BY <1>1, <2>1, <2>3, <2>4
<1> QED
  BY <1>2, <1>3

(* A read of the answer keeps what is not stale. *)
LEMMA ReadKeeps == ASSUME AtInv, NEW ends \in {4, 5, 255}, Read(ends) PROVE AtInv'
<1> USE DEF AtInv, AtType, Unfinished, Disposal, portOwn, Ends, AtGoes
<1>1. at = "recv" /\ UNCHANGED <<portOwn, owed, noises>>
  BY DEF Read
<1>2. CASE Over /\ Ends(ends) /\ UNCHANGED wire
  BY <1>1, <1>2
<1>3. CASE ~Over /\ AtGoes("recv", left - 1) /\ UNCHANGED wire
  BY <1>1, <1>3 DEF Over, StaleWithin
<1>4. CASE /\ ~Over /\ Received = "item" /\ left' = left - 1
           /\ kept' = Append(kept, Head(wire)) /\ wire' = Tail(wire)
           /\ at' = "done" \/ UNCHANGED <<at, result>>
  <2>1. wire # <<>> /\ left # 0
    BY <1>4 DEF Over, Received, comport_recv, comport_recv_voice
  <2>2. /\ Head(wire) \in Items /\ wire' \in Seq(Items)
        /\ StaleWithin(0) => ~Stale(Head(wire)) /\ StaleWithin(0)'
    BY <1>4, <2>1, FirstRead
  <2>3. /\ kept' \in Seq(Items) /\ left' \in Nat
        /\ (\A i \in DOMAIN kept : ~Stale(kept[i])) /\ ~Stale(Head(wire))
               => \A i \in DOMAIN kept' : ~Stale(kept'[i])
    BY <1>4, <2>1, <2>2
  <2> QED
    BY <1>1, <1>4, <2>2, <2>3
<1>5. CASE /\ ~Over /\ ~Full /\ Received = "item"
           /\ kept' = Append(kept, Head(wire)) /\ wire' = Tail(wire)
           /\ left' = left - 1
           /\ CASE Matches("ok") -> at' = "done" /\ result' = 0
                [] ~Matches("ok") /\ Matches("error") -> at' = "done" /\ result' = 3
                [] OTHER -> UNCHANGED <<at, result>>
  <2> HIDE DEF AtInv
  <2>1. at' = "done" \/ UNCHANGED <<at, result>>
    BY <1>5
  <2> QED
    BY <1>4, <1>5, <2>1
<1> QED
  BY <1>2, <1>3, <1>5 DEF Read

(* What the modem and the port do. *)
LEMMA ModemKeeps ==
  ASSUME AtInv, ModemAnswers \/ ModemChats \/ PortFails \/ TokenCleared \/ Disturbed \/ UNCHANGED atVars
  PROVE  AtInv'
<1> USE DEF AtInv, AtType, Unfinished, Disposal
<1>1. ASSUME NEW item \in Items, ~Stale(item), wire' = Append(wire, item), owed' \subseteq {0, 1}, at # "done",
             UNCHANGED <<at, token, open, works, backlog, kept, left, result, disturbed>>
      PROVE  AtInv'
  <2>1. wire' \in Seq(Items)
    BY <1>1, Appended
  <2>2. /\ StaleWithin(0) => StaleWithin(0)'
        /\ StaleWithin(backlog) => StaleWithin(backlog)'
        /\ StaleWithin(left) => StaleWithin(left)'
    BY <1>1, Appended DEF StaleWithin
  <2> QED
    BY <1>1, <2>1, <2>2
<1>2. CASE ModemAnswers
  <2>1. PICK w \in Words :
            LET c == CHOOSE c \in owed : \A d \in owed : c <= d
            IN  /\ wire' = Append(wire, <<c, w>>)
                /\ owed' = IF w = "echo" THEN owed ELSE owed \ {c}
    BY <1>2 DEF ModemAnswers
  <2> DEFINE c == CHOOSE c \in owed : \A d \in owed : c <= d
  <2>2. c \in owed
    <3>1. \E m \in owed : \A d \in owed : m <= d
      <4>1. owed # {} /\ owed \subseteq {0, 1}
        BY <1>2 DEF ModemAnswers
      <4>2. (0 \in owed \/ 1 \in owed) /\ \A d \in owed : d = 0 \/ d = 1
        BY <4>1
      <4>3. CASE 0 \in owed
        BY <4>2, <4>3
      <4>4. CASE 0 \notin owed
        BY <4>2, <4>4
      <4> QED
        BY <4>3, <4>4
    <3> QED
      BY <3>1
  <2> HIDE DEF c
  <2>3. <<c, w>> \in Items /\ ~Stale(<<c, w>>)
    BY <2>2 DEF Items, Numbers, Stale
  <2>4. wire' = Append(wire, <<c, w>>) /\ owed' \subseteq {0, 1}
    BY <2>1 DEF c
  <2> QED
    BY <1>1, <1>2, <2>3, <2>4 DEF ModemAnswers
<1>3. CASE ModemChats
  <2>1. Noise \in Items /\ ~Stale(Noise)
    BY DEF Noise, Items, Numbers, Stale
  <2> QED
    BY <1>1, <1>3, <2>1 DEF ModemChats
<1>4. CASE PortFails \/ TokenCleared
  <2>1. UNCHANGED <<at, open, wire, backlog, kept, left, result, owed, disturbed>>
    BY <1>4 DEF PortFails, TokenCleared
  <2>2. (works' = works \/ works' = FALSE) /\ (token' = token \/ token' = FALSE)
    BY <1>4 DEF PortFails, TokenCleared
  <2> QED
    BY <2>1, <2>2 DEF StaleWithin
<1>5. CASE Disturbed
  BY <1>5 DEF Disturbed, StaleWithin
<1>6. CASE UNCHANGED atVars
  BY <1>6 DEF atVars, StaleWithin
<1> QED
  BY <1>2, <1>3, <1>4, <1>5, <1>6

LEMMA AtNextKeeps == AtInv /\ [AtNext]_atVars => AtInv'
BY CommandSteps, SendKeeps, RubbishKeeps, ReadKeeps, ModemKeeps DEF AtNext

(* For every time-out and every room for an answer, in gprs.c and in the    *)
(* four drivers: where an item of an earlier command may still be, and that *)
(* the time suffices to read it away.                                       *)
THEOREM AtInvariant == AtSpec => []AtInv
BY AtInitHolds, AtNextKeeps, PTL DEF AtSpec

(* The answer that a command reports was not in the port when it began, if  *)
(* its time suffices to read what is there and nothing ends the reading     *)
(* early (send_atcmd and the four at_cmd of the drivers).                   *)
THEOREM StaleIsNotTaken == AtSpec => []StaleNotTaken
<1>1. AtInv => StaleNotTaken
  BY DEF AtInv, Disposal, StaleNotTaken, Stale
<1> QED
  BY <1>1, AtInvariant, PTL

-----------------------------------------------------------------------------
(* The boot.  While the modem is asked for the carrier nothing is known     *)
(* yet, and once the index has moved the string is empty: it was stored     *)
(* first, and a name would have ended the question.                         *)
Questions == {"cops_wait", "cops"}

NameInv ==
    /\ main \in Questions => ~known
    /\ main = "cops_wait" => ~moved
    /\ main = "cops" /\ moved => carrier = NoName
    /\ CarrierIsNamed

(* The two ports have all the descriptors that are open; that of a UC864E   *)
(* is the data port's, with which the control port shares it.               *)
DescriptorsHeld == opened \subseteq IF module = "uc864e" THEN {data} ELSE {ctrl, data}

BootInv == NameInv /\ DescriptorsHeld

(* The steps that neither open a port nor ask for the carrier. *)
LEMMA ChecksKeep ==
  ASSUME BootInv,
         \/ ReadDoors \/ BootPower \/ gprs_atcmd_init \/ BootAgain \/ check_gprs_status
         \/ check_gprs_signal \/ check_sim_insert \/ check_gprs_register
         \/ Turns \/ UNCHANGED bootVars
  PROVE  BootInv'
<1> USE DEF BootInv, NameInv, DescriptorsHeld, CarrierIsNamed, bootPorts, bootNames, MainGoes, BootFails, Questions
<1>1. UNCHANGED <<module, bootPorts, bootNames>>
  BY DEF ReadDoors, CheckSimDoors, BootPower, gprs_atcmd_init, BootAgain, check_gprs_status, check_gprs_signal,
     check_sim_insert, check_gprs_register, Ask, NothingElse, Turns, bootVars
<1>2. main' \in {main, "doors", "power", "failed", "power_wait", "ate0", "up", "open", "signal", "insert",
                 "register", "carrier"}
  <2>1. CASE ReadDoors
    BY <2>1 DEF ReadDoors, CheckSimDoors
  <2>2. CASE BootPower
    BY <2>2 DEF BootPower, PowerUp, Powered
  <2>3. CASE gprs_atcmd_init \/ BootAgain \/ check_gprs_status \/ Turns \/ UNCHANGED bootVars
    BY <2>3 DEF gprs_atcmd_init, BootAgain, check_gprs_status, Turns, bootVars
  <2>4. CASE check_gprs_signal \/ check_sim_insert \/ check_gprs_register
    BY <2>4 DEF check_gprs_signal, check_sim_insert, check_gprs_register, Ask
  <2> QED
    BY <2>1, <2>2, <2>3, <2>4
<1> QED
  BY <1>1, <1>2

(* Opening the ports again closes what they had before. *)
LEMMA PortsKeep ==
  ASSUME BootInv, NEW ok \in BOOLEAN, NEW dataOk \in BOOLEAN, NEW setup \in BOOLEAN, OpenPorts(ok, dataOk, setup)
  PROVE  BootInv'
<1>1. NameInv'
  BY DEF OpenPorts, BootInv, NameInv, CarrierIsNamed, bootNames, MainGoes, Questions
<1>2. Ports = [ctrl |-> ctrl, data |-> data, opened |-> opened, connected |-> connected]
  BY DEF Ports
<1> DEFINE q == IF module = "uc864e" THEN Ports ELSE ctrlport_open(Ports, ok)
           r == comport_open(init_comport(q), dataOk, setup)
<1>3. q \in [ctrl : {q.ctrl}, data : {data}, opened : {q.opened}, connected : {q.connected}]
  BY <1>2 DEF ctrlport_open, ctrlport_close
<1>4. q.opened \subseteq IF module = "uc864e" THEN {q.data} ELSE {q.ctrl, q.data}
  BY <1>2 DEF ctrlport_open, ctrlport_close, Open, BootInv, DescriptorsHeld
<1>5. /\ r \in [ctrl : {q.ctrl}, data : {r.data}, opened : {r.opened}, connected : {r.connected}]
      /\ r.opened \subseteq (q.opened \ {q.data}) \cup {r.data}
  <2> HIDE DEF q
  <2> QED
    BY <1>3 DEF comport_open, comport_close, init_comport, Open
<1> DEFINE p == open_gprs_port(Ports, ok, dataOk, setup)
<1>6. \/ module # "uc864e" /\ p = q
      \/ p = ctrlport_close(r)
      \/ module = "uc864e" /\ p = [r EXCEPT !.ctrl = r.data]
      \/ module # "uc864e" /\ p = r
  BY DEF open_gprs_port
<1>7. p.opened \subseteq IF module = "uc864e" THEN {p.data} ELSE {p.ctrl, p.data}
  <2> HIDE DEF p, q, r
  <2>1. r.opened \subseteq IF module = "uc864e" THEN {r.data} ELSE {r.ctrl, r.data}
    BY <1>4, <1>5
  <2>2. CASE p = ctrlport_close(r)
    BY <1>5, <2>1, <2>2 DEF ctrlport_close
  <2>3. CASE module = "uc864e" /\ p = [r EXCEPT !.ctrl = r.data]
    BY <1>5, <2>1, <2>3
  <2> QED
    BY <1>4, <1>6, <2>1, <2>2, <2>3
<1> QED
  BY <1>1, <1>7 DEF OpenPorts, BootInv, DescriptorsHeld

(* The question for the carrier. *)
LEMMA CarrierKeeps == ASSUME BootInv, gprs_get_carrier PROVE BootInv'
<1> USE DEF BootInv, NameInv, DescriptorsHeld, CarrierIsNamed, bootPorts, bootNames, MainGoes, Questions
<1>1. ASSUME NEW door, StartCarrier(door) PROVE BootInv'
  <2>1. moved' = FALSE /\ known' = FALSE /\ UNCHANGED <<module, bootPorts>>
    BY <1>1 DEF StartCarrier
  <2> QED
    BY <2>1
<1>2. ASSUME CarrierPower PROVE BootInv'
  <2>1. main = "cops_wait" /\ main' \in {"cops", "up"} /\ UNCHANGED <<module, bootPorts, bootNames>>
    BY <1>2 DEF CarrierPower, Powered
  <2> QED
    BY <2>1
<1>3. ASSUME AskCarrier PROVE BootInv'
  <2>1. main = "cops" /\ main' \in {"cops", "up"} /\ UNCHANGED <<module, bootPorts>>
    BY <1>3 DEF AskCarrier
  <2>2. \/ /\ moved' = TRUE
           /\ named' = carrier' \/ (moved /\ carrier' = carrier)
           /\ IF carrier' # NoName THEN main' = "up" ELSE known' = known
        \/ /\ UNCHANGED <<moved, named, known>>
           /\ IF main' = "cops" THEN carrier' = carrier ELSE carrier' = NoName
    BY <1>3 DEF AskCarrier, Stored
  <2>3. ~known /\ (moved => carrier = NoName)
    BY <2>1
  <2> QED
    BY <2>1, <2>2, <2>3
<1> QED
  BY <1>1, <1>2, <1>3 DEF gprs_get_carrier

LEMMA BootNextKeeps == BootInv /\ [BootNext]_bootVars => BootInv'
<1>1. May \subseteq BOOLEAN
  BY DEF May
<1> QED
  BY <1>1, ChecksKeep, PortsKeep, CarrierKeeps DEF BootNext, MainStep, initial_gprs

LEMMA BootInitHolds == BootInit => BootInv
BY DEF BootInit, BootInv, NameInv, DescriptorsHeld, CarrierIsNamed, Questions

(* A carrier that was got is the one that the modem named last, for every   *)
(* set of carriers and however often the question is repeated or fails      *)
(* (gprs_get_carrier).                                                      *)
THEOREM CarrierNamed == BootSpec => []CarrierIsNamed
<1>1. BootInv => CarrierIsNamed
  BY DEF BootInv, NameInv
<1> QED
  BY <1>1, BootInitHolds, BootNextKeeps, PTL DEF BootSpec

(* However often main() starts over, and whatever parts of it fail, no      *)
(* descriptor stays open but those that the two ports have (initial_gprs,   *)
(* open_gprs_port).                                                         *)
THEOREM NoDescriptorLost == BootSpec => []DescriptorsHeld
<1>1. BootInv => DescriptorsHeld
  BY DEF BootInv
<1> QED
  BY <1>1, BootInitHolds, BootNextKeeps, PTL DEF BootSpec

-----------------------------------------------------------------------------
(* A behaviour of DevicesSpec is one of each device: of those that stand    *)
(* still, one that stutters.                                                *)
THEOREM DevicesAreEach == DevicesSpec => AtSpec /\ CxSpec /\ BootSpec
<1>1. DevicesInit => AtInit /\ CxInit /\ BootInit
  BY DEF DevicesInit
<1>2. [DevicesNext]_devicesVars => [AtNext]_atVars
  BY DEF DevicesNext, devicesVars
<1>3. [DevicesNext]_devicesVars => [CxNext]_cxVars
  BY DEF DevicesNext, devicesVars
<1>4. [DevicesNext]_devicesVars => [BootNext]_bootVars
  BY DEF DevicesNext, devicesVars
<1> QED
  BY <1>1, <1>2, <1>3, <1>4, PTL DEF DevicesSpec, AtSpec, CxSpec, BootSpec

(* So what is proved of each holds of all of them together. *)
THEOREM DevicesSafety == DevicesSpec => [](StaleNotTaken /\ SlotAlone /\ CarrierIsNamed) /\ RingFromItsLine
BY DevicesAreEach, StaleIsNotTaken, SlotIsAlone, CarrierNamed, RingIsOfItsLine, PTL
=============================================================================
