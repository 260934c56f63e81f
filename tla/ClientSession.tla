--------------------------- MODULE ClientSession ---------------------------
(***************************************************************************)
(* The exchange between the client library, nc_mobile, which other         *)
(* programs of the terminal call, and the server in the loop of main(),    *)
(* nc_mobiled_proc.                                                        *)
(*                                                                         *)
(* A call opens a connection of its own, sends one request, waits for one  *)
(* response and closes the connection.  The server accepts one connection  *)
(* per pass and then looks at every connection of its table once.          *)
(*                                                                         *)
(* A frame is counted in pieces: the first Frame - 1 of them hold as many  *)
(* bytes as the length field says, and the last one the two bytes by which *)
(* the frame is longer than that, since the field does not count itself.   *)
(***************************************************************************)
EXTENDS Integers, Sequences, FiniteSets

CONSTANTS
    Clients,    \* the programs that call nc_mobile, each with one NC_MOBILE
    NoConn,     \* a slot of the table that is free
    MaxCalls,   \* bound: the connections each client opens
    MaxConf     \* NC_MOBILED_MAX_CONF

Conns == UNION {{c} \X (1..MaxCalls[c]) : c \in Clients}
Slots == 0..(MaxConf - 1)
Frame == 3

ASSUME BoundsAssumption == MaxCalls \in [Clients -> Nat] /\ MaxConf \in Nat \ {0}
ASSUME NoConnAssumption == NoConn \notin Conns

VARIABLES
    cpc,        \* per client: where its call is, or "connecting" between two calls
    call,       \* per client: the connections opened so far
    polls,      \* per client: the times it has slept in the loop
    got,        \* per client: ctx->len, in pieces of the response
    ok,         \* per client: the last call returned 0
    open,       \* per connection: the client's end is open
    wire,       \* per connection: the pieces of the request sent and not received
    resp,       \* per connection: the pieces of the response sent and not received
    rlen,       \* per connection: client->rlen, kept when the client is freed
    age,        \* per connection: the passes since client->lact
    served,     \* per connection: the requests nc_mobiled_resp has answered
    listening,  \* the listening socket is open
    backlog,    \* connections the kernel holds for accept
    held,       \* connections whose descriptor the server has
    half,       \* the one in server.client->sock, whose acceptance failed half-way
    table,      \* ctx->server.clients
    spc,        \* where main() is
    cur,        \* the slots below are done in this pass
    errno,      \* of the thread of main(): "EWOULDBLOCK" or any other
    end         \* _na_signal.end

clientVars == <<cpc, call, polls, got, ok>>
connVars   == <<open, wire, resp, rlen, age, served>>
serverVars == <<listening, backlog, held, half, table, spc, cur, errno, end>>
vars == <<clientVars, connVars, serverVars>>

TypeOK ==
    /\ cpc \in [Clients -> {"idle", "connecting", "sending", "waiting", "gone"}]
    /\ call \in [Clients -> Nat] /\ \A c \in Clients : call[c] <= MaxCalls[c]
    /\ polls \in [Clients -> 0..3]
    /\ got \in [Clients -> 0..Frame]
    /\ ok \in [Clients -> BOOLEAN]
    /\ open \in [Conns -> BOOLEAN]
    /\ wire \in [Conns -> 0..Frame]
    /\ resp \in [Conns -> 0..Frame]
    /\ rlen \in [Conns -> 0..Frame]
    /\ age \in [Conns -> 0..2]
    /\ served \in [Conns -> Nat]
    /\ listening \in BOOLEAN
    /\ backlog \in Seq(Conns)
    /\ held \subseteq Conns
    /\ half \in Conns \cup {NoConn}
    /\ table \in [Slots -> Conns \cup {NoConn}]
    /\ spc \in {"top", "table", "serve", "stopped", "stuck", "null", "exited"}
    /\ cur \in 0..MaxConf
    /\ errno \in {"EWOULDBLOCK", "other"}
    /\ end \in BOOLEAN

Init ==
    /\ cpc = [c \in Clients |-> "idle"]
    /\ call = [c \in Clients |-> 0]
    /\ polls = [c \in Clients |-> 0]
    /\ got = [c \in Clients |-> 0]
    /\ ok = [c \in Clients |-> FALSE]
    /\ open = [k \in Conns |-> FALSE]
    /\ wire = [k \in Conns |-> 0]
    /\ resp = [k \in Conns |-> 0]
    /\ rlen = [k \in Conns |-> 0]
    /\ age = [k \in Conns |-> 0]
    /\ served = [k \in Conns |-> 0]
    /\ listening = FALSE
    /\ backlog = <<>>
    /\ held = {} /\ half = NoConn
    /\ table = [i \in Slots |-> NoConn]
    /\ spc = "top" /\ cur = 0
    /\ errno \in {"EWOULDBLOCK", "other"}
    /\ end = FALSE

Conn(c) == <<c, call[c]>>

Backlogged == {backlog[j] : j \in 1..Len(backlog)}

(* The server's end of a connection is open: it can still answer. *)
Alive(k) == k \in Backlogged \/ k \in held

(* nc_frame_parse finds a frame in n pieces: it has as many bytes as the length
   field says. *)
Parsed(n) == n >= Frame - 1

(* The checksum is right when the frame is whole.  When the last two bytes are
   missing, it is computed over what the buffer held before. *)
Checksums(n) == IF n = Frame THEN {TRUE} ELSE BOOLEAN

-----------------------------------------------------------------------------
(* nc_mobile *)

(* A call returns: the socket is closed, and what was not read is lost. *)
Close(c, result) ==
    /\ ok' = [ok EXCEPT ![c] = result]
    /\ open' = [open EXCEPT ![Conn(c)] = FALSE]
    /\ resp' = [resp EXCEPT ![Conn(c)] = 0]
    /\ polls' = [polls EXCEPT ![c] = 0]
    /\ got' = [got EXCEPT ![c] = 0]
    /\ UNCHANGED <<call, rlen, age, served, serverVars>>

Return(c, result) ==
    /\ cpc' = [cpc EXCEPT ![c] = "idle"]
    /\ Close(c, result)
    /\ UNCHANGED wire

(* A call opens a connection, which is established at once or pending; in the
   second case the call returns 1. *)
Connect(c) ==
    /\ cpc[c] = "idle" /\ call[c] < MaxCalls[c] /\ listening
    /\ call' = [call EXCEPT ![c] = call[c] + 1]
    /\ LET k == <<c, call[c] + 1>> IN
       /\ open' = [open EXCEPT ![k] = TRUE]
       /\ backlog' = Append(backlog, k)
    /\ \E at \in {"sending", "connecting"} : cpc' = [cpc EXCEPT ![c] = at]
    /\ ok' = [ok EXCEPT ![c] = FALSE]
    /\ UNCHANGED <<polls, got, wire, resp, rlen, age, served,
                   listening, held, half, table, spc, cur, errno, end>>

(* Nobody listens, or it is too early to try again. *)
ConnectFails(c) ==
    /\ cpc[c] = "idle"
    /\ ok' = [ok EXCEPT ![c] = FALSE]
    /\ UNCHANGED <<cpc, call, polls, got, connVars, serverVars>>

(* The next call finds the connection pending still, established, or refused. *)
ConnectAgain(c) ==
    /\ cpc[c] = "connecting"
    /\ \/ /\ cpc' = [cpc EXCEPT ![c] = "sending"]
          /\ UNCHANGED <<call, polls, got, ok, connVars, serverVars>>
       \/ ~Alive(Conn(c)) /\ Return(c, FALSE)

(* Mutant: the length is not cleared, so the request is still in the buffer. *)
Cleared_not == Frame

(* ctx->len before the first receive. *)
Cleared == 0

(* Mutant: the loop of na_sock_send does not count what it has sent. *)
Put_again(c, n) ==
    wire' = [wire EXCEPT ![Conn(c)] = IF Alive(Conn(c)) THEN n + Frame ELSE 0]

(* What is sent to a connection that is closed is lost. *)
Put(c, n) ==
    wire' = [wire EXCEPT ![Conn(c)] = IF Alive(Conn(c)) THEN n ELSE 0]

(* The request is sent, or the socket takes no more data before it is. *)
na_sock_send(c) ==
    /\ cpc[c] = "sending"
    /\ \/ /\ Put(c, Frame)
          /\ cpc' = [cpc EXCEPT ![c] = "waiting"]
          /\ got' = [got EXCEPT ![c] = Cleared]
          /\ UNCHANGED <<call, polls, ok, open, resp, rlen, age, served, serverVars>>
       \/ /\ \E n \in 0..(Frame - 1) : Put(c, n)
          /\ cpc' = [cpc EXCEPT ![c] = "idle"]
          /\ Close(c, FALSE)

(* Mutant: the loop never looks at the time. *)
TimedOut_never(c) == {FALSE}

(* Each round sleeps 5 s and the time-out is 10 s and a bit: it is over after
   the third sleep, and perhaps after the second. *)
TimedOut(c) ==
    CASE polls[c] < 2 -> {FALSE}
      [] polls[c] = 2 -> BOOLEAN
      [] polls[c] > 2 -> {TRUE}

(* A receive gives what has arrived.  From a connection that the server closed
   it fails, or gives nothing when errno still says EWOULDBLOCK. *)
PollOnce(c) ==
    /\ FALSE \in TimedOut(c)
    /\ \/ \E n \in 0..resp[Conn(c)] :
          \/ \E good \in Checksums(got[c] + n) :
                /\ Parsed(got[c] + n) /\ good
                /\ Return(c, TRUE)
          \/ /\ got[c] + n < Frame
             /\ got' = [got EXCEPT ![c] = @ + n]
             /\ resp' = [resp EXCEPT ![Conn(c)] = @ - n]
             /\ polls' = [polls EXCEPT ![c] = IF @ < 3 THEN @ + 1 ELSE @]
             /\ UNCHANGED <<cpc, call, ok, open, wire, rlen, age, served, serverVars>>
       \/ ~Alive(Conn(c)) /\ Return(c, FALSE)

Poll(c) ==
    /\ cpc[c] = "waiting"
    /\ \/ PollOnce(c)
       \/ TRUE \in TimedOut(c) /\ Return(c, FALSE)

(* The program was told to end: what is under way returns, and it calls no more. *)
LoseToken(c) ==
    /\ cpc[c] \in {"sending", "waiting"}
    /\ cpc' = [cpc EXCEPT ![c] = "gone"]
    /\ Close(c, FALSE)
    /\ UNCHANGED wire

-----------------------------------------------------------------------------
(* main() and nc_mobiled_proc *)

(* The slots na_array_get_next has still to come to. *)
UsedFrom(i) == {j \in Slots : j >= i /\ table[j] # NoConn}
First(S) == {i \in S : \A j \in S : i <= j}
Free == {i \in Slots : table[i] = NoConn}

(* Mutant: na_sock_init does not close what the structure still has. *)
Reinit_leaves == held

(* na_sock_init closes what server.client->sock still has. *)
Reinit == held \ {half}

(* Listening or accepting fails: the listening socket is closed and the whole
   pass is given up.  A connection that was accepted before that stays in
   server.client->sock. *)
ListenFails ==
    /\ spc = "top" /\ ~end
    /\ listening' = FALSE
    /\ \/ UNCHANGED <<held, half>>
       \/ /\ backlog # <<>>
          /\ half' = Head(backlog)
          /\ held' = Reinit \cup {Head(backlog)}
    /\ backlog' = <<>>
    /\ wire' = [k \in Conns |->
                   IF k \in (Backlogged \cup held) \ held' THEN 0 ELSE wire[k]]
    /\ errno' = "other"
    /\ UNCHANGED <<clientVars, open, resp, rlen, age, served, table, spc, cur, end>>

(* The first connection of the backlog goes to the first free slot, or is closed
   when there is none. *)
AcceptClient ==
    /\ spc = "top" /\ ~end
    /\ listening' = TRUE
    /\ IF backlog = <<>> THEN UNCHANGED <<wire, backlog, held, half, table>>
       ELSE /\ backlog' = Tail(backlog) /\ half' = NoConn
            /\ \/ Free = {} /\ held' = Reinit /\ UNCHANGED table
               \/ \E i \in First(Free) :
                  /\ table' = [table EXCEPT ![i] = Head(backlog)]
                  /\ held' = Reinit \cup {Head(backlog)}
            /\ wire' = [k \in Conns |->
                           IF k \in ({Head(backlog)} \cup held) \ held' THEN 0 ELSE wire[k]]
    /\ spc' = "table" /\ cur' = 0
    /\ UNCHANGED <<clientVars, open, resp, rlen, age, served, errno, end>>

PassEnds ==
    /\ spc = "table" /\ UsedFrom(cur) = {}
    /\ spc' = "top" /\ cur' = 0
    /\ UNCHANGED <<clientVars, connVars, listening, backlog, held, half,
                   table, errno, end>>

(* The socket is closed, and the slot and the client are freed. *)
Delete(i) ==
    /\ table' = [table EXCEPT ![i] = NoConn]
    /\ wire' = [wire EXCEPT ![table[i]] = 0]
    /\ held' = held \ {table[i]}

(* SIGSEGV is caught and only sets the flag, so the instruction is tried again
   for ever. *)
Segfault == spc' = "stuck" /\ end' = TRUE

Exit ==
    /\ spc' = "exited"
    /\ listening' = FALSE /\ backlog' = <<>>
    /\ held' = {} /\ half' = NoConn
    /\ wire' = [k \in Conns |-> 0]
    /\ table' = [i \in Slots |-> NoConn]

GoOn(i) == spc' = "table" /\ cur' = i + 1

(* A receive that gives something, or nothing.  Once the client closed, nothing
   is only given when errno still says EWOULDBLOCK. *)
Receive(i) ==
    LET k == table[i] IN
    \E n \in 0..wire[k] :
       /\ n = 0 => open[k] \/ errno = "EWOULDBLOCK"
       /\ wire' = [wire EXCEPT ![k] = @ - n]
       /\ rlen' = [rlen EXCEPT ![k] = @ + n]
       /\ age' = [age EXCEPT ![k] =
                     IF n > 0 \/ rlen[k] = 0 THEN 0 ELSE IF @ < 2 THEN @ + 1 ELSE @]
       /\ IF rlen[k] + n > 0 THEN spc' = "serve" /\ cur' = i ELSE GoOn(i)
       /\ UNCHANGED <<clientVars, open, resp, served, listening, backlog,
                      held, half, table, errno, end>>

(* The client is deleted, and then its rlen is read all the same.  When it is
   not zero, the request is parsed in a buffer that was freed too: nothing comes
   of it, or the process hangs in the handler of SIGSEGV, or it aborts. *)
ReceiveFails(i) ==
    LET k == table[i] IN
    /\ ~open[k]
    /\ \/ /\ Delete(i) /\ GoOn(i)
          /\ errno' \in {errno, "other"}
          /\ UNCHANGED <<listening, backlog, half, end>>
       \/ /\ rlen[k] > 0
          /\ Delete(i) /\ Segfault
          /\ UNCHANGED <<listening, backlog, half, cur, errno>>
       \/ /\ rlen[k] > 0
          /\ Exit
          /\ UNCHANGED <<cur, errno, end>>
    /\ UNCHANGED <<clientVars, open, resp, rlen, age, served>>

ProcessClient ==
    /\ spc = "table"
    /\ \E i \in First(UsedFrom(cur)) : Receive(i) \/ ReceiveFails(i)

(* Mutant: one byte more is used than the frame has. *)
Used_more(n) == IF Parsed(n) THEN Frame + 1 ELSE 0

(* What nc_frame_parse says it used: the whole frame, received or not. *)
Used(n) == IF Parsed(n) THEN Frame ELSE 0

(* Mutant: a frame that was served stays in the buffer. *)
Remaining_all(n) == n

(* client->rlen after the frame; below zero the unsigned number wraps. *)
Remaining(n) == n - Used(n)

(* Mutant: a client that sent a part of a request is never given up. *)
Expired_never(k) == {FALSE}

(* Two passes take the 10 s, and one may when the server had to wait. *)
Expired(k) ==
    CASE rlen[k] = 0 \/ age[k] = 0 \/ Used(rlen[k]) > 0 -> {FALSE}
      [] rlen[k] > 0 /\ age[k] = 1 /\ Used(rlen[k]) = 0 -> BOOLEAN
      [] rlen[k] > 0 /\ age[k] > 1 /\ Used(rlen[k]) = 0 -> {TRUE}

(* The request of a program that passed no data: revent.data is 0, and is read. *)
NoData == spc' = "null" /\ end' = TRUE

(* nc_mobiled_resp.  The process that is to end sends nothing more and says it
   did; a socket that takes no more data makes the call fail. *)
Respond(k, succeeds) ==
    /\ served' = [served EXCEPT ![k] = @ + 1]
    /\ \E n \in 0..Frame :
          /\ succeeds => n = Frame \/ end
          /\ ~succeeds => n < Frame
          /\ resp' = [resp EXCEPT ![k] = IF open[k] THEN n ELSE 0]

(* After the frame, if there was one, the rest of the buffer is moved to its
   start.  With a wrapped length that runs out of the memory. *)
Consume(i) ==
    LET k == table[i] IN
    /\ \/ /\ Remaining(rlen[k]) < 0
          /\ Segfault
          /\ UNCHANGED <<wire, rlen, age, held, table, cur>>
       \/ /\ Remaining(rlen[k]) >= 0
          /\ rlen' = [rlen EXCEPT ![k] = Remaining(@)]
          /\ age' = [age EXCEPT ![k] = IF Used(rlen[k]) > 0 THEN 0 ELSE @]
          /\ \/ TRUE \in Expired(k) /\ Delete(i)
             \/ FALSE \in Expired(k) /\ UNCHANGED <<wire, held, table>>
          /\ GoOn(i)
          /\ UNCHANGED end
    /\ UNCHANGED errno

nc_mobiled_serve ==
    /\ spc = "serve"
    /\ LET k == table[cur] IN
       \/ /\ Parsed(rlen[k]) => FALSE \in Checksums(rlen[k])
          /\ Consume(cur)
          /\ UNCHANGED <<served, resp>>
       \/ /\ Parsed(rlen[k])
          /\ NoData
          /\ UNCHANGED <<wire, resp, rlen, age, served, held, table, cur, errno>>
       \/ /\ Parsed(rlen[k])
          /\ Respond(k, TRUE)
          /\ Consume(cur)
       \/ /\ Parsed(rlen[k])
          /\ Respond(k, FALSE)
          /\ Delete(cur) /\ GoOn(cur)
          /\ errno' \in {"EWOULDBLOCK", "other"}
          /\ UNCHANGED <<rlen, age, end>>
    /\ UNCHANGED <<clientVars, open, listening, backlog, half>>

Sigterm ==
    /\ end' = TRUE
    /\ UNCHANGED <<clientVars, connVars, listening, backlog, held, half,
                   table, spc, cur, errno>>

(* The loop ends, main() waits for the other thread, and the process exits. *)
StopServing ==
    /\ \/ /\ spc = "top" /\ end
          /\ spc' = "stopped"
          /\ UNCHANGED <<wire, listening, backlog, held, half, table>>
       \/ spc = "stopped" /\ Exit
    /\ UNCHANGED <<clientVars, open, resp, rlen, age, served, cur, errno, end>>

-----------------------------------------------------------------------------
Call(c) ==
    \/ ConnectAgain(c)
    \/ na_sock_send(c)
    \/ Poll(c)

Server ==
    \/ ListenFails
    \/ AcceptClient
    \/ ProcessClient
    \/ nc_mobiled_serve
    \/ PassEnds
    \/ StopServing

Ended ==
    /\ spc \in {"stuck", "null", "exited"}
    /\ \A c \in Clients : cpc[c] = "gone"
    /\ UNCHANGED vars

Next ==
    \/ \E c \in Clients : Connect(c) \/ ConnectFails(c) \/ Call(c) \/ LoseToken(c)
    \/ Server
    \/ Sigterm
    \/ Ended

Spec == Init /\ [][Next]_vars

(* Both programs are scheduled and the calls they make return. *)
FairSpec ==
    /\ Spec
    /\ WF_vars(Server)
    /\ \A c \in Clients : WF_vars(cpc[c] \in {"sending", "waiting"} /\ Call(c))

-----------------------------------------------------------------------------
(* Properties *)

(* The server has the descriptor of a connection exactly while one slot of the
   table holds it, or server.client does after an acceptance that failed half-way,
   until the next one: through acceptance, refusal, the deletions in the middle of
   the iteration and the exit no descriptor is lost (nc_mobiled.c:498-582,
   na_sock.c:29-51 and 302). *)
TableHasHeld ==
    /\ half # NoConn => half \in held
    /\ \A i \in Slots : table[i] # NoConn => table[i] \in held \ {half}
    /\ \A k \in held \ {half} : \E i \in Slots : table[i] = k
    /\ \A i, j \in Slots : table[i] = table[j] /\ table[i] # NoConn => i = j
    /\ Backlogged \cap held = {}

(* A request is answered once at most, in whatever pieces it arrives and whenever
   the client gives up (nc_mobiled.c:351-379). *)
ServedAtMostOnce == \A k \in Conns : served[k] <= 1

(* A call that returned 0 was answered: what it parsed is not its own request,
   which it left in the same buffer, nor a response to an earlier call
   (nc_mobile.c:149-195). *)
OkMeansServed ==
    \A c \in Clients : cpc[c] = "idle" /\ ok[c] => served[Conn(c)] = 1

(* The exchange, with its pieces, time-outs, table and buffers, is a remote call:
   one at a time, answered once at most, and answered when it succeeds
   (nc_mobile.c:81-199, nc_mobiled.c:351-379). *)
Remote == INSTANCE RemoteCall WITH
    begun <- call,
    pending <- {c \in Clients : cpc[c] \in {"connecting", "sending", "waiting"}},
    answers <- served,
    succeeded <- {c \in Clients : ok[c]}

ImplementsCalls == Remote!Spec

(* The server survives every client whose requests carry data and arrive whole:
   of its three memory errors one, in "null", needs a request without data, and the
   other two, a length that wraps and a freed client that is still read, need a
   part of a request (nc_mobiled.c:371, 396 and 567). *)
Failed == spc = "stuck" \/ (spc = "exited" /\ ~end)
WholeRequestsAreSafe == Failed => \E k \in Conns : rlen[k] \in 1..(Frame - 1)

(* Every call of the library returns, whatever becomes of the server: it hangs in
   none of its loops (nc_mobile.c:163-199). *)
EveryCallReturns ==
    \A c \in Clients :
        cpc[c] \in {"sending", "waiting"} ~> cpc[c] \in {"idle", "gone"}

(* A connection that its client closed leaves the table, as long as the server
   makes passes: by the failing receive, or by the time-out when a part of a
   request was received.  Without one, the end of the connection is taken for "no
   incoming data" as long as errno says EWOULDBLOCK from an earlier call
   (nc_mobiled.c:532-584, na_sock.c:726-729).  One whose acceptance failed half-way
   waits for the next acceptance (na_sock.c:302). *)
AbandonedAreReleased ==
    []<>(spc = "table") =>
        \A k \in Conns :
            k \in held /\ ~open[k] ~>
                \/ k \notin held
                \/ k = half
                \/ errno = "EWOULDBLOCK" /\ rlen[k] = 0

(* nc_frame.c:17-18: "len - received length" and "used - parsed length": what was
   parsed was received. *)
ParsedIsReceived ==
    spc = "serve" => Used(rlen[table[cur]]) <= rlen[table[cur]]
=============================================================================
