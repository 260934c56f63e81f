----------------------------- MODULE AtCommand -----------------------------
(***************************************************************************)
(* One AT command and its answer on a serial port: send_atcmd of gprs.c,   *)
(* and the at_cmd of the four voice drivers.  The command before it went   *)
(* unanswered, and its answer may still come; the modem may say other      *)
(* things as well.                                                         *)
(*                                                                         *)
(* What a modem sends comes in items: <<c, w>> is the word w of its answer *)
(* to command c, 0 for the one before and 1 for this one, and Noise is     *)
(* anything else; what was in the port when the command began is -1's.  An *)
(* item is read by one call of the recv function, which reads a byte, and  *)
(* takes one tick of the time that a loop has.                             *)
(***************************************************************************)
EXTENDS Integers, Sequences, SequencesExt

CONSTANTS
    Programs,   \* the programs an instance looks at
    Room,       \* per program: the items that fit in acRecv
    Timeout,    \* the ticks of p_ulTimeout
    MaxBacklog, \* bound: the items that wait in the port when the command begins
    MaxNoise    \* bound: the other items that the modem sends

ASSUME RoomAssumption == Room \in [Programs -> Nat \ {0}]
ASSUME TimeAssumption == {Timeout, MaxBacklog, MaxNoise} \subseteq Nat

Noise == <<0, "noise">>
Words == {"echo", "ok", "error"}

VARIABLES
    prog,       \* the program
    at,         \* where its at_cmd is
    token,      \* the caller's ucProcToken, that of its thread
    open,       \* the port is open
    works,      \* reading and writing the port works
    wire,       \* the items that the port holds
    backlog,    \* how many there were when the command began
    kept,       \* acRecv
    left,       \* the ticks that the loop still has
    result,     \* ucRet, or 0x100 before the end
    owed,       \* the commands that the modem has got and not answered
    noises,     \* the other items it has sent
    disturbed   \* a loop ended early, by the clock or by a signal

atVars == <<prog, at, token, open, works, wire, backlog, kept, left, result, owed, noises, disturbed>>

Pending == 256  \* no value of an unsigned char

(* send_atcmd has no token and no session; the others look for the port of  *)
(* the session under the lock.                                              *)
Voice == prog # "gprs"

AtInit ==
    /\ prog \in Programs /\ at = "lock"
    /\ token = TRUE /\ open \in BOOLEAN /\ works = TRUE
    /\ wire \in UNION {[1..n -> {Noise, <<-1, "ok">>}] : n \in 0..MaxBacklog}
    /\ backlog = Len(wire)
    /\ kept = <<>> /\ left = 0 /\ result = Pending
    /\ owed \in {{}, {0}} /\ noises = 0 /\ disturbed = FALSE

modemOwn == <<wire, owed, noises>>
portOwn == <<prog, open, works, backlog, token, disturbed>>

Ends(r) == at' = "done" /\ result' = r /\ UNCHANGED <<kept, left>>
AtGoes(step, ticks) == at' = step /\ left' = ticks /\ UNCHANGED <<kept, result>>

(***************************************************************************)
(* One call of the serial port.  A read waits 50 ms for a byte: that the    *)
(* time passes, that a signal comes and that the other end has hung up are  *)
(* all no byte and no error.  A command is written in pieces, and one that  *)
(* is written in part is an error.  The voice code has a copy of its own,   *)
(* which would also wait after each piece if it was told how.               *)
(***************************************************************************)
comport_recv ==
    IF ~open \/ ~works THEN "error" ELSE IF wire = <<>> THEN "none" ELSE "item"
comport_send == IF ~open THEN 2 ELSE IF ~works THEN 3 ELSE 0

comport_recv_voice == comport_recv
comport_send_voice == comport_send

Received == IF Voice THEN comport_recv_voice ELSE comport_recv
Sent == IF Voice THEN comport_send_voice ELSE comport_send

(***************************************************************************)
(* The loops of an at_cmd, which all five have.  A loop is over when its   *)
(* time is, and, in the voice drivers, when the token is cleared.          *)
(***************************************************************************)
Stopped == Voice /\ ~token
Over == left = 0 \/ Stopped

(* The pause before the command (p_ulDelay), and the one before the answer  *)
(* (p_ulGap).  Either may be 0.                                             *)
Pause(here, next, ticks) ==
    /\ at = here /\ UNCHANGED <<portOwn, modemOwn>>
    /\ IF Stopped /\ left > 0 THEN Ends(255) ELSE AtGoes(next, ticks)

(* Mutant: what waits in the port is not thrown away. *)
ThrowRubbish_none ==
    /\ at = "rubbish"
    /\ UNCHANGED <<portOwn, modemOwn>>
    /\ AtGoes("send", 0)

(* A read that finds nothing, or fails, ends the disposal of old bytes. *)
ThrowRubbish ==
    /\ at = "rubbish"
    /\ UNCHANGED <<portOwn, owed, noises>>
    /\ IF Over \/ Received # "item"
       THEN AtGoes("send", 0) /\ UNCHANGED wire
       ELSE AtGoes("rubbish", left - 1) /\ wire' = Tail(wire)

SendCommand(gap) ==
    /\ at = "send"
    /\ UNCHANGED <<portOwn, wire, noises>>
    /\ IF Sent # 0 THEN Ends(2) /\ UNCHANGED owed
       ELSE /\ AtGoes("gap", IF gap THEN 1 ELSE 0)
            /\ owed' = owed \cup {1}

(* at_match of acRecv with "OK" and with "ERROR". *)
at_match_voice(w) == \E i \in DOMAIN kept' : kept'[i][2] = w
at_match(w) == at_match_voice(w)
Matches(w) == IF Voice THEN at_match_voice(w) ELSE at_match(w)

Full == Len(kept) >= Room[prog]

(* One read of the answer.  ends is the result of the time-out. *)
Read(ends) ==
    /\ at = "recv" /\ UNCHANGED <<portOwn, owed, noises>>
    /\ \/ /\ Over /\ Ends(ends) /\ UNCHANGED wire
       \/ /\ ~Over /\ (Full \/ Received # "item")
          /\ AtGoes("recv", left - 1) /\ UNCHANGED wire
       \/ /\ ~Over /\ ~Full /\ Received = "item"
          /\ kept' = Append(kept, Head(wire)) /\ wire' = Tail(wire)
          /\ left' = left - 1
          /\ CASE Matches("ok") -> at' = "done" /\ result' = 0
               [] ~Matches("ok") /\ Matches("error") -> at' = "done" /\ result' = 3
               [] OTHER -> UNCHANGED <<at, result>>

(* The result of a time-out: the text that was kept is the command alone, or *)
(* more than that.                                                           *)
NoAnswer == IF kept = <<>> THEN 4 ELSE 5

-----------------------------------------------------------------------------
(* send_atcmd of gprs.c. *)
send_atcmd_send ==
    \/ at = "lock" /\ UNCHANGED <<portOwn, modemOwn>>
       /\ IF open THEN \E delay \in {0, 1} : AtGoes("delay", delay) ELSE Ends(1)
    \/ Pause("delay", "rubbish", Timeout)
    \/ ThrowRubbish
    \/ \E gap \in BOOLEAN : SendCommand(gap)

(* The clock is read again only by a pass that had room in acRecv: a loop   *)
(* whose acRecv got full in time neither reads nor ends.                    *)
send_atcmd_recv ==
    \/ Pause("gap", "recv", Timeout)
    \/ (~Full \/ left = 0) /\ Read(255)

send_atcmd == prog = "gprs" /\ (send_atcmd_send \/ send_atcmd_recv)

(* hal_gtm900b_at_cmd: 1 when the lock is taken. *)
Lock(busy) ==
    /\ at = "lock" /\ UNCHANGED <<portOwn, modemOwn>>
    /\ IF busy THEN Ends(1) ELSE \E delay \in {0, 1} : AtGoes("delay", delay)

gtm900b_send ==
    \/ \E busy \in BOOLEAN : Lock(busy)
    \/ Pause("delay", "rubbish", Timeout)
    \/ ThrowRubbish
    \/ \E gap \in BOOLEAN : SendCommand(gap)

(* Mutant: as in send_atcmd, time stands still once acRecv is full. *)
gtm900b_recv_spins ==
    \/ Pause("gap", "recv", Timeout)
    \/ (~Full \/ left = 0) /\ Read(IF token THEN NoAnswer ELSE 255)

gtm900b_recv ==
    \/ Pause("gap", "recv", Timeout)
    \/ Read(IF token THEN NoAnswer ELSE 255)

hal_gtm900b_at_cmd == prog = "gtm900b" /\ (gtm900b_send \/ gtm900b_recv)

(* hal_g600_at_cmd: the same text. *)
g600_send == gtm900b_send
g600_recv == gtm900b_recv
hal_g600_at_cmd == prog = "g600" /\ (g600_send \/ g600_recv)

(* hal_uc864e_at_cmd: the driver's own commands take no lock. *)
uc864e_send == gtm900b_send
uc864e_recv == gtm900b_recv
hal_uc864e_at_cmd == prog = "uc864e" /\ (uc864e_send \/ uc864e_recv)

(* hal_cx930xx_at_cmd_ex: the lock is waited for, a session without a port  *)
(* is 3, and the two ends of the time are the other way round: 255 while    *)
(* the thread runs.  No "RING" is ever cut out, since it is looked for      *)
(* in the one byte that was read last.                                      *)
cx930xx_send ==
    \/ Lock(FALSE)
    \/ at = "lock" /\ Ends(3) /\ UNCHANGED <<portOwn, modemOwn>>
    \/ Pause("delay", "rubbish", Timeout)
    \/ ThrowRubbish
    \/ \E gap \in BOOLEAN : SendCommand(gap)

cx930xx_recv ==
    \/ Pause("gap", "recv", Timeout)
    \/ Read(IF left = 0 THEN 255 ELSE NoAnswer)

hal_cx930xx_at_cmd_ex == prog = "cx930xx" /\ (cx930xx_send \/ cx930xx_recv)

AtCmd ==
    \/ send_atcmd
    \/ hal_gtm900b_at_cmd \/ hal_g600_at_cmd \/ hal_uc864e_at_cmd
    \/ hal_cx930xx_at_cmd_ex

-----------------------------------------------------------------------------
(* The modem answers its commands in order, echoes them or not, and says    *)
(* other things in between.                                                 *)
ModemAnswers ==
    /\ owed # {} /\ at # "done"
    /\ \E w \in Words :
           LET c == CHOOSE c \in owed : \A d \in owed : c <= d
           IN  /\ wire' = Append(wire, <<c, w>>)
               /\ owed' = IF w = "echo" THEN owed ELSE owed \ {c}
               /\ w = "echo" => ~Contains(wire \o kept, <<c, w>>)
    /\ UNCHANGED <<prog, at, token, open, works, backlog, kept, left, result, noises, disturbed>>

ModemChats ==
    /\ noises < MaxNoise /\ noises' = noises + 1 /\ at # "done"
    /\ wire' = Append(wire, Noise)
    /\ UNCHANGED <<prog, at, token, open, works, backlog, kept, left, result, owed, disturbed>>

PortFails ==
    /\ open /\ works /\ at # "done" /\ works' = FALSE
    /\ UNCHANGED <<prog, at, token, open, wire, backlog, kept, left, result, owed, noises, disturbed>>

(* thread_close. *)
TokenCleared ==
    /\ Voice /\ token /\ at # "done" /\ token' = FALSE
    /\ UNCHANGED <<prog, at, open, works, wire, backlog, kept, left, result, owed, noises, disturbed>>

(* The clock is set, which ends a loop; so does a signal while old bytes are *)
(* read, because a read that it interrupts looks like one that found none.   *)
Disturbed ==
    /\ ~disturbed /\ at \in {"rubbish", "recv"} /\ left > 0
    /\ disturbed' = TRUE /\ left' = 0
    /\ UNCHANGED <<prog, at, token, open, works, wire, backlog, kept, result, owed, noises>>

AtNext ==
    \/ AtCmd
    \/ ModemAnswers \/ ModemChats \/ PortFails \/ TokenCleared \/ Disturbed

AtSpec == AtInit /\ [][AtNext]_atVars

-----------------------------------------------------------------------------
(* An answer that was already in the port when the command began is not    *)
(* taken for the answer to the command, as long as the time suffices to     *)
(* read what is there and nothing ends the reading early.                   *)
StaleNotTaken ==
    result \in {0, 3} /\ backlog <= Timeout /\ ~disturbed /\ token =>
        \A i \in DOMAIN kept : kept[i][1] # -1

(* A command ends whatever the modem sends, and however much; only that of  *)
(* send_atcmd may not, once it has filled acRecv.                           *)
AtCommandEnds == <>(at = "done" \/ (prog = "gprs" /\ Full))
=============================================================================
