# nc_mobiled in TLA+

`nc_mobiled` is the daemon that keeps a payment terminal connected over GPRS: it
powers a modem with two SIM slots, chooses a SIM and an APN, dials with pppd,
watches the link, falls back from the second SIM to the first, and serves local
clients over TCP. The repository also holds a voice service for a telephone on a
serial line, with drivers for four modems and a configuration of its own, which this
build compiles and does not start. These modules model the control of both, TLC
checks them on small instances and TLAPS proves the central invariants for every
value of the constants. Paths below are relative to `src/nc_mobiled/`.

## Inventory

| Component | State | Operations | Interacts with | What is hard |
|---|---|---|---|---|
| main daemon, `nc_mobiled.c` | `NC_MOBILED ctx` on the stack of main(), `g_ucWorkMode`, `g_stGprsStatus` | boot loops A and SELECT_SIM, serve loop, join loop, `nc_mobiled_term` | creates PPP_Thread on `ctx.gprs`, receives SIGTERM | life time of `ctx`, the boot loops, the order of the clean-up |
| PPP thread, `ppp/ppp.c` | flags and timers of the loop, `g_stGprsStatus` | `PPP_Thread`, `ppp_start`, `ppp_term`, `check_ppp_alive`, `check_ppp_idle` | scripts that start and stop pppd, `/proc/net/dev`, ping | pppd runs on its own; the inner loop; timers kept across SIMs |
| SIM and APN selection, `gprs/gprs.c` | `curSimNo`, `curSimDoorNo`, `sim_1_Failure`, per SIM `apnFlag`, `historyApnFlag`, APNs | `select_sim`, `select_apn`, `gprs_set_apn`, `gprs_get_carrier`, doors | driver ioctls, AT commands, `parse_apn_conf` | partial failures; state of one search seen by the next |
| modem ports and power, `gprs/gprs.c`, `comport/` | `gprsInfo.power`, two descriptors | `initial_gprs`, power up, down, reset, `send_atcmd` | driver, serial line | retries, timeouts, error codes of several kinds |
| configuration, `parse/parse_conf.c` | `config.array_sim`, `config.array_apns` | `parse_gprs_conf`, `parse_apn_conf` | item arrays | writes `curSimNo` while a search is under way |
| client library and server, `nc_mobile.c`, `nc_mobiled_proc` | a client table, a receive buffer per client | connect, request, response, timeout | TCP, frames | fragments, late answers, removal while iterating |
| item arrays, `voice/common/na_array.c`, `CArrayMgr.c` | slots, count, head, tail | add, delete, find, iterate, in direct or FIFO order | configuration, server, voice | wrap-around, empty and full |
| time, processes, locks, `voice/common/na_*.c`, `CWorker.c`, `CCriticalLock.c` | `_na_signal`, retry counters, owner of a lock | token, retry, shell, recursive lock | everything | clock changes, signals |
| SMS service, `sms/` | message store, modem ownership | SMS_API_Thread, PDU coding | PPP thread through `g_stGprsStatus` | sharing of the modem |
| voice master and helper, `voice/module/mod_optm.c` | two one-place mailboxes, states of a call | two threads | OPTM, modem driver | lost events |
| OPTM protocol, `voice/module/optm.c` | the handler at work, an event that waits, the last frame sent | one pass: receive, handle, answer or send the event | serial line, the master's mailbox | a frame, an event and a time-out in the same pass; frames that are corrupted and sent again |
| modem drivers, `voice/hal/hal_gtm900b.c`, `hal_g600.c`, `hal_uc864e.c` | readiness, SIM in use, doors and their timers, a session per data port | attach, detach, request, the thread that powers the modem | clients, serial line, control port | clients against the thread; doors that move during a power-on |
| line driver, `voice/hal/hal_cx930xx.c` | per slot a session and readiness, one ring flag | as above, slot after slot | clients, telephone lines | one thread and one flag for all slots |
| voice configuration, `voice/config/config.c` | ten arrays of allocated structures | init, list after list; term | XML tree, item arrays, `VOICE_Thread` | every exit half-way: what is freed, what is kept, what is reported |
| XML tree, `voice/common/CXmlParser.c` | linked elements, the open element | callbacks of expat, look-up, ClearBuffer | configuration | pointers that are freed and read |
| serial ports, `comport/`, `voice/common/CComPort.c` | a descriptor | open, close, read, write | AT commands | a read that finds nothing, a write in part |
| board drivers, payment formats, SMS coding, logging | | device I/O and library code | | |

`PROJECT.json` lists the same components with their status, and the places of
the code that are hard to test ("hazards") with the properties that watch them.

### The build that is modelled

The model follows what the code can reach as it is built here:

- `g_ucWorkMode` is written once, `PPP_START` at nc_mobiled.c:155, so the branch
  at ppp.c:620-641 is not reached.
- Nothing sets the thresholds of `check_ppp_idle`: no unsigned difference is
  below zero, so the status never becomes `PPP_IDLE`.
- Nothing sets `primarySimCarrier`, so `check_primary_sim` answers
  `NO_CONFIG_PRIMARY_SIM`, and gprs.c:181-197 and `switch_sim` are not reached.
- The SMS and voice threads are not created (nc_mobiled.c:172 and 174). The voice
  code is modelled as it would run if they were: it is compiled and linked, and
  `VOICE_Thread` is complete. `voice/arch.c` gives it the GTM900B driver; the other
  three are compiled as well.
- No `ARCH_*` macro is set, with which the ioctls of the voice drivers would be
  left out; those drivers are modelled with the board they were written for, the
  one with two SIM slots.

## Modules

| Module | Models |
|---|---|
| `GprsSession` | main(), PPP_Thread, select_sim, select_apn, ppp_start, ppp_term, the links pppd brings up |
| `MCGprsSession` | configurations and left-over links for TLC |
| `GprsSession_proofs` | the inductive invariant and the theorems |
| `ModemBoot` | initial_gprs, the checks of the SIM and gprs_get_carrier, which GprsSession has as single steps, in detail: descriptors, doors, power, retries |
| `AtCommand` | one AT command of each of the five programs, read by read, over a port with old answers in it |
| `ClientSession` | nc_mobile, nc_mobiled_proc, nc_mobiled_serve, nc_mobiled_resp, what na_sock and nc_frame do under them |
| `RemoteCall` | the abstract promise of the exchange: a remote call |
| `MCClientSession`, `ClientSession_proofs` | numbers of calls for TLC; the inductive invariant of the exchange, the theorems and the refinement of `RemoteCall` |
| `ItemArray` | CArrayMgr and na_array: the two item arrays, in the direct and in the first-in-first-out order |
| `BoundedQueue` | the abstract promise of an array in the first-in-first-out order |
| `ItemArray_proofs` | invariants of the arrays and the refinement of `BoundedQueue` |
| `HalModem` | the driver of the GTM900B; its operations serve the other modems too |
| `HalG600`, `HalUc864e` | the other two modem drivers, by what differs |
| `HalDrivers`, `MCHalDrivers` | the three drivers with clients and doors, and what is asked of them; instances for TLC |
| `HalCx930xx` | the driver of the line modems: any number of slots, one thread |
| `HalDrivers_proofs` | the inductive invariant of the three drivers, their types, and the theorems |
| `OptmEvents` | the two one-place mailboxes between the threads of MOD_OPTM |
| `OptmHelper` | the helper thread: port, call, hang-up |
| `OptmMaster` | the master thread and the protocol on the serial line |
| `OptmStore` | the file of passwords and speed dials, with crashes |
| `XmlTree` | CXmlParser: the tree, the look-ups, ClearBuffer |
| `VoiceConfig` | config.c: every list, every way to fail, the memory of it all |
| `MCVoice`, `MCDevices`, `MCLibraries` | parts put side by side for one run of TLC |
| `MCVoice_proofs` | the inductive invariants of the helper, the master and the file, their types, and the theorems of each and of all together |
| `MCDevices_proofs` | the same for the AT command, the line modems and the boot |
| `VoiceConfig_proofs` | the inductive invariant of the memory of the configuration and the theorems |
| `MCLibraries_proofs` | the tree of a document of any size, and the libraries together |

### GprsSession

One variable per field the properties distinguish, under the field's own name
where it has one:

| Variable | Code |
|---|---|
| `mpc`, `pc` | places of main() and of the code that owns GPRS_ATTR: main() until the thread is created, PPP_Thread after that |
| `end` | `_na_signal.end`, set by `na_proc_handler` |
| `ucGprsStatus` | `g_stGprsStatus.ucGprsStatus` |
| `door`, `curSimDoorNo`, `curSimNo`, `sim_1_Failure` | the fields of GPRS_ATTR |
| `slot` | the SIM the driver has connected to the modem |
| `gprsConf`, `apnsConf`, `history`, `listed` | whether `apnGprsConf`, `apnApnsConf`, `apnHistory` hold a name, and whether `carrier` is in the apns table |
| `apnFlag` | `sim1.apnFlag`, `sim2.apnFlag` |
| `fallback` | `iStatusFlag2` and `ulStartTime3` of PPP_Thread: off, running, due |
| `link`, `dial` | ppp10, and a call pppd is still setting up, with the SIM and the credentials it was given |

| Action | Code |
|---|---|
| `nc_mobiled_config`, `initial_gprs`, `CreateThread` | nc_mobiled.c:107-170 |
| `PickSim`, `CheckSim` | select_sim, called by main() at boot and by the thread after that |
| `SelectApn`, `SelectApnOfCarrier`, `ApnsExhausted` | select_apn and the reaction at ppp.c:544-552 |
| `ppp_start`, `Dial`, `Verify` | ppp_start before and from the script on; ppp.c:504-543 |
| `LoopTop`, `CheckDoors`, `CheckAlive`, `TermDeadLink`, `LinkAlive`, `Sleep`, `ThreadExit` | the loop of PPP_Thread |
| `StopServing`, `ClearContext` | nc_mobiled.c:176-236 |
| `Sigterm`, `FallbackTimePasses`, `DialComesUp`, `DialFails`, `LinkDrops` | the signal, the clock, pppd |

What a driver, an AT command, a ping or a script answers is a nondeterministic
choice, so the retries inside one call (for example the four AT+COPS? of
`gprs_get_carrier`) are one step with the outcomes they can have. Steps are
split wherever pppd, the signal or the other thread can change something the
code reads afterwards: `ppp_start` looks at the link in one step and dials in
another, and its caller looks again in a third. `ppp_term` answers what it can
observe: a link that is gone, one that stays and no longer answers (success all
the same), one that stays and answers. A call that is being set up has no device,
so `ppp_term` does not see it; a switch of the SIM resets the modem and loses it.

Simplifications: a reading of the doors is any pair of values (an ioctl that
fails leaves the old one, which is one of them); time is only the fallback timer
that is off, running or due; opening `/proc/net/dev` succeeds; the boot of the
modem, `initial_gprs`, is one step with its outcomes.

### ItemArray

The daemon keeps SIMs, APNs and clients in `na_array`, the voice modules their
frames and timers in `CArrayMgr`; the second is a rewriting of the first. One
module models both, `lib` says which one the array of this behaviour belongs to.

| Variable | Code |
|---|---|
| `order`, `chk_dup`, `size`, `count`, `head`, `tail` | the fields of NA_ARRAY and of CArrayMgr |
| `items` | the slots: a datum with its delete flag, or `NoItem` |
| `owner` | who has a datum now: its caller, the array, nobody because it was freed, or nobody although the caller was told it was added |
| `reply` | what the last add or delete gave the caller |

There is one action per function that changes an array, under the function's
name. Both libraries hold the lock of the array during a call, so a call is one
step and any interleaving of callers is a sequence of them. `Id` is what the caller gives
and `KeptId` what the field of the item keeps of it: `na_array` cuts an id that is longer
than the field, and looks for no duplicate of an item without an id (`NoId`).
`array_get_first` and `array_get_next` change nothing and are operators, used by `IterationVisitsAll`.
What differs between the libraries is kept apart:

- `na_array_del` never moves the head of a ring and `HeadAfterDel` of CArrayMgr does.
  A ring of na_array is therefore of little use: after one deletion `na_array_del`
  finds nothing, and when the tail meets a used slot, `na_array_add` answers 0 with
  nothing stored (`"lost"`). Every array of the repository that uses na_array is a
  direct one, so this is latent; only a ring of CArrayMgr implements the queue.
- The flag of `array_init` that keeps ids apart is enforced by na_array in the direct
  order. CArrayMgr stores it and never looks at it.
- CArrayMgr's `array_del` does not write the caller's pointer when it answers 0 for
  an empty array; the model replies `NoData`, as for a caller that cleared it.

An array with the duplicate flag is modelled as the code enforces it; the comment at
voice/common/na_array.h:63 describes the two values the other way round.

### ClientSession

Programs of the terminal link nc_mobile.c (none of them is in the repository). A
call of `nc_mobile` is a client: it opens a connection, sends one request, polls for
one response and closes the connection. The server is the loop of main() and
`nc_mobiled_proc`.

| Variable | Code |
|---|---|
| `cpc`, `call`, `polls`, `got`, `ok` | place of a call, connections opened, sleeps in the loop, `ctx->len`, "the last call returned 0" |
| `open`, `wire`, `resp` | the client's end of a connection, and what is in the kernel's buffers in each direction |
| `rlen`, `age`, `served` | `client->rlen`, the passes since `client->lact`, the requests `nc_mobiled_resp` answered |
| `listening`, `backlog`, `held`, `half` | the listening socket, its queue, the server's descriptors, and the one that an acceptance which failed half-way left in `server.client` |
| `table`, `spc`, `cur` | `server.clients` by slot, the place of main(), the slot of the iteration |
| `errno`, `end` | errno of main()'s thread, `_na_signal.end` |

| Action | Code |
|---|---|
| `Connect`, `ConnectFails`, `ConnectAgain`, `na_sock_send`, `Poll`, `LoseToken` | `nc_mobile`, from the connection to `cleanup` |
| `ListenFails`, `AcceptClient` | nc_mobiled.c:479-526 |
| `ProcessClient` (`Receive`, `ReceiveFails`), `nc_mobiled_serve` (`Respond`, `Consume`), `PassEnds` | the loop over the table, one client at a time |
| `Sigterm`, `StopServing` | the signal; the end of main() |

A frame is three pieces: two for the bytes its length field counts, one for the two
it does not. That is enough to tell "nothing", "not a frame yet", "taken for a
frame" and "whole" apart, which is all the code decides on. The checksum of a frame
that is taken too early is over what the buffer held before and may be either.

What the code does where one may not expect it, all of it in the model:

- The process catches SIGSEGV and only sets a flag (na_proc.c:120), so a memory error
  repeats the instruction for ever: `spc = "stuck"`, with the listening socket open.
- A request without data arrives whole with `revent.data` 0 (nc_mobile.c:314), and
  `nc_mobiled_resp` reads it (nc_mobiled.c:396): `NoData`, with `spc = "null"`.
- After a failed receive the client is freed and then read (nc_mobiled.c:567).
- A client that sent nothing is never timed out: the time-out is behind `rlen`.
- `na_sock_recv` looks at `errno` after a receive of length 0, which does not set it.
- `na_sock_send` returns 0 with data unsent when the process is to end.
- An accept that fails half-way leaves its descriptor open in `server.client` and gives up
  the whole pass. The next `na_sock_accept` initialises the same structure, which closes it
  (na_sock.c:302 and 29-51): it is held until then, not lost.
- The connection is closed with a reset (SO_LINGER 0), so what was sent and not
  received is lost.

Simplifications: the reset arrives with the close; the time-outs of 10 s are counted
in the sleeps of 5 s of each side; a buffer of 10240 bytes is never full with one
request in it; allocations succeed; `select` is not interrupted. The connection to
the SMS port (`flag` 1) takes the same path to another server.

### HalModem, HalG600, HalUc864e, HalDrivers

A driver is an object with a thread of its own and the operations its clients call in
theirs. One behaviour has one driver, `drv` says which.

| Variable | Code |
|---|---|
| `proc`, `pc` | `ucProcToken` and the life of the thread; its place in `hal_*_body` |
| `ready`, `reset` | `ucReady`, `ucReset` |
| `curSIM`, `got`, `seen`, `waitSIM` | `ucCurSIM`, `ucGotSIM_*`, `ucSIM_*_Door`, `ucWaitSIM` |
| `askedSIM`, `power`, `door` | the SIM the modem was last switched on for, its power, the doors |
| `timer` | `ulLastSIM_*`, in ticks |
| `session`, `port`, `told`, `claim` | the sessions and serial ports, the holders that were notified, an attach between its checks and its claim |

The operations have the functions' names (`hal_gtm900b_attach` with `Claim`,
`_detach`, `_request`, `_switch_on`, `_get_ready`, `_switch_off`, `_body`, `_start`,
`_close`, `_term`). An AT command answers anything the state of port and power
allows. An ioctl of the control port may do nothing, as with the port closed or when it
fails, whose result nobody looks at: giving and taking power may leave it as it was, and
which slot the board has really connected is not known to the driver. So the model has
only the SIM that was asked for. The text of hal_g600.c is that of hal_gtm900b.c with other commands, so
`HalG600` names the same operations; `HalUc864e` has the second port, the signal and
mode requests, its own power-on and what it does when both slots are empty.
`HalCx930xx` follows the same lines with one thread for all slots.

What the drivers do where one may not expect it, all of it in the models:

- A client that is past the test of `ucReady` gets the port after a REQ_DETACH that
  came in between, and is never told to leave.
- An answer of 5 at the factory's speed leaves the loop of the power-on like a
  success and is returned as a failure.
- The signal request of the UC864E closes a port that somebody holds, and the test at
  hal_uc864e.c:403 has `||` where `&&` is meant.
- With both slots empty the UC864E samples the doors again, names SIM 1 and asks for a
  reset with `ucReady` still set (hal_uc864e.c:1765-1796): until the reset it is offered
  as ready for a SIM that it was not switched on for.
- Taking out the SIM in use powers the modem with the empty slot again.
- `switch_off` cuts the power after 5 s whether the holders have left or not.
- In the CX930XX driver the loops that close ports count from 0 and
  `hal_cx930xx_port` from 1, so nothing is closed; `hal_cx930xx_at_cmd_ex` answers 0xFF
  on a time-out while the thread runs, and "no answer" when it is stopped; one slot
  that fails holds up all others for 10 s.

Simplifications: session numbers, DTR, the registration flag, the gating of a modem's
ring and the logs are left out; no module of the repository calls `hal_*_request`
but the driver itself.

### OptmEvents, OptmHelper, OptmMaster, OptmStore

MOD_OPTM has two threads. The master talks to the telephone over a serial line, the
helper to the modem; each posts to the other in one byte without a lock. The two
threads are checked each in an environment that does whatever the other one may,
and share `OptmEvents`.

| Variable | Code |
|---|---|
| `mevent`, `hevent`, `telState`, `callID` | `stMaster.ucEvent`, `stHelper.ucEvent`, `ucTEL_State`, `acTEL_CallID` |
| `hstate`, `hpc`, `flags`, `number` | the helper's `ucState`, its place in a pass, `ucEvtFlag`, `acCallID` |
| `sid`, `detach`, `driver` | `iP1_SID` and `iP2_SID`, `ucDetach`, the modem as a holder sees it |
| `modem`, `call`, `hook` | `ucModemID`, the call in the modem, the telephone |
| `ucState`, `failure`, `mpc`, `proto`, `cache`, `frame`, `sent` | the master, `stOPTM`, `stSendCache`, the frames of the pass |
| `admin`, `file`, `edit` | `ucAdmin`, the file, an edit between its steps |
| `unseen`, `left`, `acked`, `lost` | history |

The two halves of `mod_optm_catch_event`, looking and clearing, are two steps, and the
master posts between them. A frame is its class and command; what the bytes are is
the choice of any frame, also of a class that no handler knows, none, or a corrupted
one. `OptmStore` stops the program between any two steps of an edit, and an edit may cut
the file, which it reads into 3096 bytes (mod_optm.c:795-830).

`mod_optm_hangup` takes the ERROR that a G600 answers to AT+MHUP for success
(mod_optm.c:2233). The helper goes idle and gives the port back after 30 s, with the
call up: `left` says so until that call has ended.

What the code does where one may not expect it: the master's HANG_UP state is never
entered; a frame of class FAX runs the same handler 255 times and nothing else happens;
a HANG_UP flag that was set in IDLE cuts the next call that is answered; a helper whose hang-up
keeps failing never gives the port back, so the driver never powers the modem
again; after a logout the handshake is not asked for again when another frame comes
first; DIALING without a number is not left by a hang-up; frames behind a corrupted
one are dropped, and so is a frame whose handler passes it on in the moment an event
goes out; on a UC864E in GPRS mode an attach that fails half-way leaks the session in
`iP2_SID`. None of the properties says otherwise.

Simplifications: starting and stopping the threads, phone numbers, the data of a
payment and the log are left out.

### AtCommand, ModemBoot, HalCx930xx

`AtCommand` is the loop that `send_atcmd` and the four `hal_*_at_cmd` share, one item at
a time: throw away what is in the port, send, read until an answer matches. An
item says which command it answers, which is what the code cannot see. The five
programs differ in the lock, the token, the codes of their ends, and in
`send_atcmd`'s clock, which is only read while `acRecv` has room: with a full buffer it
never ends, the one exception in `AtCommandEnds` and `CommandEnds`.

`ModemBoot` gives the boot its descriptors: `ctrl` and `data` are numbers that the kernel
hands out, lowest first, and the UC864E has one device for both ports. The retries
of each loop are counted as in the code. It also has `check_gprs_status` and
`gprs_get_carrier`, with the index that is not reset between retries. In the code,
though not against any property: `initial_gprs` compares the result of `gprs_power_up`
with a value it never returns, so a failed power-up does not stop the boot; the result
of one ATE0 is tested four times; after an empty answer the name is stored behind a
terminator. `gprs_reset`, `gprs_power_down`, `close_gprs` and `close_gprs_port` have no
caller, and `get_gprs_poweron_uptime` reports seconds that are always 0.

### XmlTree and VoiceConfig

`XmlTree` builds the tree as the callbacks do, with the pointers `child`, `parent`, `prev`,
`next` of each element, for every document; `ClearBuffer` takes it apart and
`misused` records a block that is freed or read when it is gone. Of a top element
with two attributes or more the last but one is read after it was freed.

`VoiceConfig` goes through the lists in the order of config.c. A structure is a block;
`array` holds those that were added, `local` the pointer at hand, `live` what is
allocated. An element is read well, or fails at any attribute it must have, and
the function it is in frees what its CleanUp frees. In the code, and in the model:

- Five exits of `xml_config_channel` report no error (config.c:1599, 1744, 2080, 2225,
  2401), and init goes on with the channels it has.
- A pattern without a route is never added; its structure stays in the local pointer,
  where a later pattern overwrites it (`overwritten`).
- Nobody resets `pstCfgSIM` between two PPPs, so the first SIM of a later one is its
  second; the tenth mobile PPP is refused although an interface is left.
- `xml_config_term` does not free the PPPs; the definitions of ISO 8583 and the arrays
  inside a structure that failed are lost.
- Any element Crypto fails, since the list it refers to is compiled out.

Outside the model: `ucFlags & !FLAG` (config.c:1629, 1655, 1931, 1951) clears every flag
instead of one, the defaults of fallback and idle are the other way round for SIM
and PSTN (643-655, 834), and the flags of a route are not reset (2994-3007).

## Runs

| Run | Question | Bounds |
|---|---|---|
| `session` | Is what is dialled, recorded and judged always the SIM in the slot, in every interleaving of the threads with pppd and SIGTERM, and do the search for an APN, the fallback and the shutdown end? | no SIM or one of them configured; no link or a link of SIM 2 left over |
| `session_doors`, `session_record`, `session_othersim` | Does the code do what its comments say? It does not: see below | both SIMs configured, no left-over link |
| `client_table` | Do the table of clients and its descriptors stay in step, and do only parts of requests, and requests without data, bring the server down? | two clients, one call each, a table of two slots |
| `client_calls` | Is a request answered once, does a call return, with its own response, and are abandoned connections released? | one client, two calls, a table of one slot |
| `client_parsed` | Was what `nc_frame_parse` reports as used received? It was not | as `client_calls` |
| `hal_drivers` | Does each driver power its modem alone, for the right SIM, tell its holders, and get ready again? | two clients of different priority, one on port 1 and one on both; one movement of a door; delays of 0 and 1 tick |
| `voice` | Does a call always have its port and its telephone, is every command answered, does an event end, and is what was acknowledged in the file? | a modem of each of three kinds; two words |
| `voice_ring` | Is the telephone only rung on the hook? It is not | none |
| `devices` | Is an answer the answer to the command, does a command end; is a slot powered alone and rung from its own line; does the boot end, with the carrier's own name? | a buffer of two items, three ticks, two old items and one more; two slots and two users; four descriptors, two names |
| `libraries` | Do the arrays own what they hold, is the tree the document, and is every structure of the configuration alive while it is used and freed at the end? | arrays of 3 slots with 4 data, two under one id, one under an id that is cut to it, one under none; 4 elements with up to 2 attributes and 2 names; 3 elements in the lists, 10 blocks, 2 interfaces |

The code has exactly two SIMs, four sources of an APN and one interface, so the
session has no counter to bound: its instances differ from the general case only
in `Configs` (which sets of SIMs the configuration may hold) and `Leftover` (which
links an earlier process may leave). SIM 1 gets APNs from the table whether it is
configured or not, so that with SIM 2 configured both are dialled and each follows the
other; `session` leaves out the configuration with both, which adds a source of APNs to
SIM 1 and more than doubles the run (with `BothConfigured` it passes as well). The
theorems cover every `Configs`.

The table of clients has 256 slots in the code (`MaxConf`); a call of a client never
reuses a connection, so `MaxCalls` only bounds how many follow each other. With two
slots, two clients fill the table or leave a hole before a used slot. With one slot
and two calls of one client, the second call meets the remains of the first: its
connection in the table, its response under way, a table that is full. `age` stops
at the second pass, when the time-out is certain, and `polls` at the third sleep.

Two clients of different priority are what the drivers compare: one breaks in on the
other, or is refused. One movement of a door at any moment gives each slot its
removal or its insertion, and the other slot is empty or not from the start; the
delays only have to differ. Three slots are enough for a ring to have used slots
before and behind the end with a free one between them, and four data fill it and
leave one to refuse. Four elements make a chain of children, a chain of peers and
each in the other. Three elements in the lists are a channel, a pattern that points
to it and one more that fails or takes a pointer over; `MaxBlocks` is never reached
before `MaxListed` is, but for documents that are all patterns. The second of two
interfaces is where the mobile PPPs end.

`voice`, `devices` and `libraries` check independent parts in one run: `part` says which
one moves, and the others stand still in one state. `VoiceView` leaves out what the
master posts while only the master runs, since it never reads it.

Deadlock is checked except where something ends for good: a driver that was
terminated (`hal_drivers`), a command that has its result (`devices`), a document or a
configuration that was read and freed (`libraries`). The daemon that has ended stutters
in `Ended`.

### Properties

- `DialsSelectedSim`: three places write `curSimNo` or the slot, and
  `parse_apn_conf` writes 1 whatever the SIM in use; while an APN is selected or
  dialled the two agree.
- `DialHasCredentials`: `ppp_start` leaves the user and password pointers unset
  for one value of the flag, and a failed `select_apn` leaves a flag behind; the
  script never runs with either.
- `RecordsLiveSim`: an APN is recorded for the SIM in the slot, while its link is
  up, together with the reset of the search.
- `SourcesInOrder`: no source of APNs is tried twice or backwards in a search.
- `ApnSearchEnds`, `FallbackHappens`, `ShutdownUnlessSearching`: liveness.

- `ItemsOwned`: a datum is in one slot exactly while the array owns it, whatever
  mixture of deletions, with the datum handed back or freed, went before.
- `IterationVisitsAll`: an iteration meets every item, around the end of the ring.
- `ImplementsQueue`: CArrayMgr in the first-in-first-out order implements
  `BoundedQueue`, whose items leave in the order they came.

- `TableHasHeld`: one descriptor, one slot, through acceptance into any free slot,
  refusal, deletions in the middle of the iteration and failures half-way, which leave at
  most one that only `server.client` has.
- `WholeRequestsAreSafe`: the server has three memory errors. One needs a request without
  data and is the code's own (`"null"`); the other two need a part of a request, and no
  client that sends data and sends it whole meets them.
- `ServedAtMostOnce`, `ImplementsCalls`: in whatever pieces a request arrives and whenever
  a call gives up, it is answered once at most; and the exchange implements `RemoteCall`,
  so that a call that succeeds was answered.
- `EveryCallReturns`, `AbandonedAreReleased`: liveness of both sides.

- `SwitchOnAlone`, `SlotAlone`: the driver looks for holders under the lock and powers
  the modem after releasing it; nobody gets in between.
- `SimInUse`: requests, doors and the thread change the SIM at different moments of a
  power-on; a modem that is ready has power, and a GTM900B or G600 was switched on for the
  SIM in `ucCurSIM`. Of the UC864E only the power is said, since the second part is not
  true of it (see above).
- `HoldersAreTold`: whenever a modem stops being ready, whoever caused it, each holder is
  told, but for one whose attach had passed the test of `ucReady` before.
- `ReadyAgain`: as long as a slot has a SIM, the modem is ready again and again, if the
  holders that are told to leave do; one holder may prevent it, the one that was not told.
- `RingFromItsLine`: one `ucRING` serves all slots, and each holder still hears of its
  own line only.
- `CallIsHeld`, `CallHasPhone`, `PhoneDownEndsCall`: the helper gives its port back at
  five places and catches events in two steps; a call never loses its port, and a
  telephone that is put down ends it, unless the mailbox was written over (`unseen`) or a
  G600 kept the call (`left`).
- `CommandAnswered`, `EventEnds`: answers, events and frames that are sent again share
  one pass of the protocol.
- `AckedIsStored`: a crash or a failure at any step of an edit, but in the window in which
  the file is empty, and but for a file that an edit has cut.
- `StaleNotTaken`, `CommandEnds`: an answer that was in the port before the command is
  thrown away first, as long as the time suffices.
- `BootEnds`, `CarrierIsNamed`: whatever the passes before have left behind.
- `TreeIsDocument`, `FreedOnce`: pointers of the tree against the document.
- `PointersAlive`, `TermReleases`: every exit of the loader, with what it frees and keeps.

`TypeOK` of the session and of the clients, of the drivers and of MOD_OPTM
(`VoiceTypeOK`) also say which fields go together.

`FallbackHappens` and `ShutdownUnlessSearching` name the ways out that the code
really has: the door opening, and the inner loop that does not ask for the token.

### Where the code does not do what it says

- `DoorsCheckedAlways` (comment at ppp/ppp.c:482): after a failed `select_apn` the
  thread jumps to SELECT_SIM, behind the check of the doors and of the token, and
  can stay in that loop for ever.
- `RecordsApnOfLink` (comments at ppp/ppp.c:506 and gprs/gprs.h:84): a call that
  comes up after it was given up is recorded under the APN selected after it.
- `TriesOtherSim` (comment at ppp/ppp.c:544): `parse_apn_conf` sets `curSimNo` to 1,
  so when SIM 2 runs out of APNs, SIM 1 is marked as the failed one.
- `ParsedIsReceived` (comment at voice/common/nc_frame.c:17): a frame that misses its
  last two bytes is parsed, and more is reported as used than was received. The
  unsigned length of the client then wraps (nc_mobiled.c:371).
- `RingOnlyOnHook` (comment at voice/module/mod_optm.c:1728): the hook is looked at when
  the ring is stored, and a frame of the same pass may say that it was lifted.

### Fairness

`FairSpec` assumes that the two threads are scheduled and the calls they make
return (weak fairness of PPP_Thread with the boot, and of main()), and that the
clock reaches the fallback time. Nothing is assumed of pppd, of the modem's
answers or of the user: links may drop and calls may fail for ever.

In `ClientSession`, `FairSpec` assumes that main() is scheduled and that a call that has
sent or is sending goes on: both only make calls that return by themselves or by a
time-out. Connecting is left out: a connection may stay pending, and it is for the
program to call again. `AbandonedAreReleased` further supposes that the server makes
passes at all, since listening may fail again and again.

The drivers of `HalDrivers`: the threads run and time passes; a serial port opens now and
then, the ioctl that gives power works now and then, and a modem that has power answers
now and then (strong fairness, since the driver tries in a loop). Nothing is assumed of
the holders of a port: the helper of MOD_OPTM keeps one as long as its hang-up fails, and
leaks one on the UC864E. That those which are told do leave is the premise of `ReadyAgain`.
MOD_OPTM: the threads are scheduled; a modem that is asked to hang up again and again answers
once that it did; the helper does not post before every single pass of the master; the clock of
an event that is pending runs out. An AT command and main() are scheduled; `BootEnds`
asks for devices that work from some moment on, and takes an AT command for one
step, of which `CommandEnds` says that it ends.

## Proofs

`GprsSession_proofs` proves, for every `Configs` and `Leftover` that satisfy
`ConfigsAssumption` and `LeftoverAssumption`, that `SessionInv` is an invariant
(`SessionInvariant`), and from it the type, `DialsSelectedSim`,
`DialHasCredentials`, `FailureFlagConsumed` (the mark on SIM 1
counts for one choice), and the action properties `RecordsLiveSim` and
`SourcesInOrder`.

The properties are not inductive alone. `DialsSelectedSim` survives
`parse_apn_conf`'s assignment only because no APN of the table can be found for
SIM 2 (`NoTableApnForSim2`: the table fills SIM 1 only), so the search of SIM 2
that set `curSimNo` to 1 ends there. `DialHasCredentials` must hold for the SIM
that is not being worked on as well, since a failed search leaves its flag for a
later one (`FlagsNameSources`). `SimUnderTest` ties the slot to the door that
`select_sim` chose between its two steps. There is one lemma for the actions that
disturb a conjunct, `OtherStepsKeep` for the others, and `NextKeeps` puts them
together.

`ItemArray_proofs` proves, for every `Data`, `Id`, `MaxSize` and set of libraries:

- `ArrayInvariant`: the conjunction of `RingInv` and `CountIsUsed` is an invariant, from
  which `RingInvariant` and `CountInvariant`. Neither is inductive alone: the loops
  of a deletion stop after `count` used slots, so only a right count makes
  `Reached` all of `Used`, and only the shape of the ring says that the slot after
  the tail of a ring that is not full is free.
- `RingImplementsQueue`: `Spec => Queue!Spec`. The n-th item of the queue is in slot
  `SlotOf(n)`; the map is written without `%`, and one lemma per operation shows
  that a call of CArrayMgr is a step of the queue and a call of na_array a stutter.
- `DataAreOwned`, `IdsAreUnique` (where ids are kept apart, no two items share one that was
  given and fits the field): with
  `ArrayInvariant` as a lemma.
- `IterationIsComplete`: a loop over an array visits every item, in both orders. The set
  that the loop has visited after `n` passes is a recursive function (`Seen`), so that the
  proof is an induction. The induction theorems of the library take the property as an
  operator, which the provers cannot instantiate; `SetInduction` takes it as the set of the
  numbers that have it, and rests on `MinOf`, that a set of numbers has a least one, which
  comes from the well-foundedness of finite sets under inclusion.

`ClientSession_proofs` proves, for every set of clients, number of calls and size of the
table, that `SessionInv` is an invariant (`SessionInvariant`), and from it `TypeOK`,
`TableHasHeld`, `ServedAtMostOnce`, `OkMeansServed` and `WholeRequestsAreSafe`. It adds to
them what a connection carries in all, `CarriesOne`; that nothing was done for a
connection still in the backlog or still to be opened (`BacklogInv`, `ClientInv`), so
that a new connection starts from nothing; and `ServeInv`: between two looks at a client
its buffer holds less than the server takes for a frame, and nothing is left of a
request that was served. The last one fails once the server is stuck, which is why it
is stated only while it makes passes. There is one lemma per action, and
`ServerKeepsClients` and `LessOnTheWire` for what most steps of the server leave alone.
`ExchangeIsRemoteCall` is the refinement of `RemoteCall`, with `SessionInv` on both sides of
a step: a call is under way from its connection to its result, and every step of a client
begins it, ends it or does nothing to it (`ClientCalls`); the one step of the server that
does something is the answer, and `ServedAtMostOnce` after the step says that there was none
before (`ServerAnswers`). `OkMeansServed` is what it comes to for the program that calls.

`HalDrivers_proofs` proves, for every set of clients, every priority, every delay that
satisfies `DelayAssumption` and any number of moves of the doors, `SwitchOnAlone`,
`SimInUse` and `HoldersAreTold`. The first two need to know what the thread is doing: `ucReady` is set by the last step of
switching on and by no other, so that it is clear at every earlier one, and an attach finds
that (`Unused`); the slot is asked for at the first of those steps and `ucCurSIM` stays as
it is until the last, because only a holder of a port or the door steps of the same thread
change it (`Connected`); and a GTM900B or G600 that waits for a SIM, where the thread
chooses another one, is not ready (`Waits`). `EveryHolderIsTold` needs no invariant but the
types: it is proved step by step (`ClientsTell`, `ClaimTells`, `ThreadTells`). There is one lemma for the clients, and one for each part of the
thread: the loop, switching on, the doors, switching off.

`DriverTypes` is their type invariant, which is inductive alone; it needs `MovesAssumption`.

`MCVoice_proofs` proves of MOD_OPTM:

- `CallsAreHeld` and `CallsHavePhones`. The first rests on `PortInv`: the helper has no call,
  but one that a G600 kept (`Quiet`), in `IDLE` nor while the port is being taken, which are the only places where it is given back. The
  second rests on `HookInv`: what the mailbox or the flags say of a lifted telephone is
  either still true, or the hang-up came after it and is under way.
- `CommandsAnswered`: a reply goes before an event that waits (`RepliesFirst`), and only the
  handlers that reply can end the pass of a command (`StepAnswers`), since a frame is always
  one that the telephone may send (`FrameInv`).
- `AckedStored`, for every set of words with the super password among them
  (`SuperIsAWord`). It is not inductive: while an edit is locking the partition the file is
  the copy already and not yet what was acknowledged, so that `StoreInv` says for each step
  of an edit what the file holds, and what the copy has beside the entry that changes.
- `HelperTypes`, `MasterTypes`, `StoreTypes`: the types, for every modem. The pass of
  `optm_main` is proved handler by handler, and what `After` does to the pass once
  for all of them.
- `VoiceTypes`, `VoiceSafety`, `VoiceCommands`: the same in `VoiceSpec`, in which one part is
  at work and the others stand still but share the mailboxes. There the helper's invariant
  is not inductive, since the master posts without it, and `VoiceInv` has it only for the
  behaviours of the helper and says of the others that there is no call.

`MCDevices_proofs` proves of the AT command, the line modems and the boot:

- `StaleIsNotTaken`, for every time-out and backlog. `Disposal` says where the bytes of
  before may be at each step: they are the first ones in the port and the time that is left
  suffices to read them, until none is left or the port has failed.
- `CarrierNamed`: while a question is under way nothing is known yet, and a name from before
  another SIM was selected is not kept (`NameInv`). `NoDescriptorLost`: the descriptors that are open
  are those of the two ports, or of the one device that the UC864E has for both.
- `SlotIsAlone` and `RingIsOfItsLine`, for any number of slots and users. The slot that the
  thread has found without a holder is not ready (`OnUnready`), so that nobody attaches to
  it although its lock is free.
- `DevicesAreEach`: a behaviour of the three together is one of each, from which
  `DevicesSafety`.

`VoiceConfig_proofs` proves `ConfigIsAlive` and `TermFreesTheRest` for every number of
interfaces, blocks and listed elements that satisfies `ConfigAssumption`. `HeapInv` is what
`PointersAlive` needs to be inductive: a block that is free has empty arrays, since whoever
gets it next does not clear them (`FreeIsEmpty`); of the local pointers only that to the
last pattern outlives its element (`LocalsClear`); and what is in no array is apart from
what is (`AstrayApart`). `AllAccounted` says that nothing else is allocated, as long as nothing
has failed. The functions are proved in groups by what they do to the arrays (`Added`,
`Filled`, `UpdateIndex`, what PPPs and patterns do besides).

`MCLibraries_proofs` proves of the tree, for documents of any size and any names:

- `TreeInvariant`. The tree is the pointers only; that they are those of a tree is
  `Ahead` (a pointer leads to an element that started later) and `Linked` (each element
  but the top hangs on exactly one pointer, and `prev` and `parent` say on which).
  `Read` ties them to the document while it is read: the first child is the least of the
  elements that stand in one, and the next peer the least of those after it.
- The functions that follow pointers are recursive, and that there is such a function at
  all has to be proved: `Recursion` builds one, since the pointers lead ahead, and
  `DownInduction` proves what it returns. `ChainEnds` says it for the three functions that
  look for the end of a chain, `TotalNamedIs` and `FirstNamedIs` for the two that look for a name.
- `TreeIsTheDocument`: from `Read`, what is found along the peers of an element is what the
  document has from there on (`FoundAmongPeers`).
- `ElementsFreedOnce`: `GetLastElement` returns a leaf without a later peer
  (`LastElementOf`), so that `ClearElement` frees it and no other; and when the top has no
  child left nothing else is allocated, because the least of the others would hang on it.
- `LibrariesAreEach` and `LibrariesSafety`: the array, the tree and the configuration together,
  the refinement of the queue included.

Every invariant, and every action property that is not a liveness property, that a run
checks on an instance is thereby a theorem for all constants that satisfy the named
assumptions, stated for the specification of the run itself or for the one that it is
without its fairness. The assumptions are those of the constants of the models: bounds are
natural numbers, sets of names are not empty, the configurations are ones that
`mobiled.conf` can have.

Only model-checked: the liveness properties and the violations. Fairness and ENABLED are
out of the provers' reach.

## Not modelled

- The SMS service: its thread is not created, and the rest converts text to PDUs.
- `check_ppp_idle`, `switch_sim`, the branch of ppp.c:620-641: not reached, see above.
- The text of the configuration tables, the header of a frame and what a request asks
  for: every request that parses is answered the same way.
- `na_time_retry`, `na_proc_shell`, `na_sock_fds`, CSocket, na_network: wrappers of system
  calls, or without a caller.
- The board drivers (LED, buzzer, display), the payment message formats, the SMS coding
  and the loggers keep no state that the control modelled here depends on.
- expat is vendored and is any sequence of callbacks a document can give.

## Plan

1. That `ModemBoot` implements the single steps that GprsSession takes for it.
2. `ModemHold`: the hand-over of the modem between PPP_Thread, SMS_API_Thread and
   VOICE_Thread through `g_stGprsStatus`, if a build creates the last two.
3. The helper and the master of MOD_OPTM in one run, with the driver of `HalModem`
   instead of the three states that `OptmHelper` has for it.
