# A model of cellular-measurement

TLA+ modules, TLC configurations and TLAPS proofs for the bandwidth measurement
program of this repository: the UDP sender and receiver of `src/bidirectional/`,
the handshake and the threads around them, measurements over TCP, the server's
process from one session to the next, and the interactive server of
`src/interactive_server/` and `src/interactive_client/`.

In this file `controller.c`, `receive_bandwidth.c`, `data_generator.c`,
`server.c`, `client.c`, `send_bandwidth.c`, `bandwidth_utils.c`, `net_utils.c`,
`feedbackLogger.c` and `net_include.h` are the ones under `src/bidirectional/`.

## 1. The system

Client and server each measure both directions at once. In each direction a
sender transmits numbered packets at a rate; now and then a *burst* of
`burst_size` packets goes out at twice that rate. The receiver measures the rate
at which packets arrive and reports it: a `REPORT` when plain packets arrive
below the threshold, which lowers the sender's rate, and a `BURST_REPORT` after
each burst, which may raise it.

    data_generator --- UNIX datagrams ---> controller --- UDP ---> receive_bandwidth
          ^                                  |    ^                       |
          +---- LOCAL_START, LOCAL_CONTROL --+    +------ reports --------+

| component | source | state | operations | interacts with |
|---|---|---|---|---|
| controller | `controller.c` `control()` | sequence number, rate, two burst cursors, the burst's buffer, `data_pkt`, `kill_thread` | take in a data packet, take in a report, timeout, stop, ECHO | generator (UNIX sockets), receiver (UDP), the thread that stops it (flag) |
| rate adjustment | `controller.c` `adjustRate()` | none | one function | controller |
| receiver | `receive_bandwidth.c` | ring of arrivals, arrivals of a burst, rate and how many packets came at it, next sequence number, grace counter, `kill_thread` | one handler for each type, timeout, stop | sender (UDP) |
| data generator | `data_generator.c` | started or not, speed, timers, `stop_thread` | LOCAL_START, LOCAL_CONTROL, timeout, stop | controller |
| sender threads | `send_bandwidth.c`, `controller.c` `start_controller()` | stop flags, sockets | create, stop, join | server's main thread |
| handshake | `client.c`, `server.c` | acknowledgements and addresses of two lanes | ask, acknowledge, turn away, run, reopen | network |
| TCP mode | `send_bandwidth.c`, `receive_bandwidth.c`, the `_tcp` functions | the connection a function has accepted, what its connections hold, two `kill_thread` | accept, send, receive, report, timeout, stop, a peer that goes | network, server's main thread |
| server main loop | `server.c` `main()` | the two sockets and their descriptors, `mask` | start a session in either mode, stop, join, open again | all of the server's threads |
| feedback logger | `feedbackLogger.c` | three open files | print, forget | controller, receiver |
| time arithmetic | `bandwidth_utils.c` | none | `diffTime`, `gtTime`, conversions | generator, receiver |
| interactive server and client | `interactive_server.c`, `interactive_client.c` | table of users, last answer; the client's id | CONNECT, INTERACTIVE | network |
| not modelled | `client_main.c`, `echo_client.c`, `serializeStruct()` | see section 8 | | |

**What is hard here.** Six things run at once for each direction (generator,
controller, receiver, the thread that stops them, and two UDP paths); stop flags
are plain booleans; a burst is taken in by one event source and sent by another;
the rate that decides where the next burst starts is changed by reports that may
be old; packets are lost, repeated and reordered; clients crash, start again, and
come two at a time; the UNIX sockets between the threads are bounded and block, and
so do TCP connections; descriptors are closed and opened by several threads while
`main()` relies on their numbers.
The full list, at the lines where it bites, is `hazards` in `PROJECT.json`.

**What makes it correct.**

* Controller: every packet of the generator leaves once, in order, with a header
  that tells its place; bursts are whole; nothing is sent that was not taken in;
  the process does not abort; the rate stays within its limits, and a plain report
  never raises it, a burst report, old or repeated, not beyond 90 % of what it
  measured; the generator knows the rate; bursts end; a stop works.
* Receiver: arrays are indexed within their bounds; the time span it divides by
  is the one its packets span; a window holds one rate; a report is about one
  burst, one that is over; what arrives in order is not dropped.
* Generator: packets are on schedule, never early, none forgotten.
* Threads: no circular wait, no thread or socket left over, a stop ends both, the
  generator is asked twice only where it is slow.
* TCP: no circular wait between a client and the server; a client that is told to
  stop does; a session ends when its clients are gone.
* Server: after a session it listens again, on the sockets it watches.
* Handshake: a client that runs was served since it started; one that is refused was refused for
  another; an asker is answered; a session has the parameters that were asked for; the
  server is free again after its client is gone.
* Interactive: ids are unique; an address learnt from a drawing is its user's own;
  refusals are justified.

## 2. The modules

| module | models | state and actions in the code |
|---|---|---|
| `RateControl` | `adjustRate()` | rates are integers, `OneMbps` units to 1 Mbps; `0.9 * r` is rounded down |
| `Relay` | what the controller promises | how many packets were taken in and sent, and those that left in the last step |
| `Controller` | `control()` | the variables have the names of the code; `pc` is where the thread is: `top` of the loop, in `select`, `server` when a data packet was handled and the report is next in the same iteration |
| `ControllerRelay` | | the refinement mapping from `Controller` to `Relay` |
| `Receiver` | `receive_bandwidth()` | one action per branch of its handler; an arrival time is represented by the packet that arrived, a measured rate by the two arrivals it is measured between |
| `Link` | the UDP path | composes `Relay` (the sender), a network, and `Receiver` |
| `Handshake`, `MCHandshake` | `start_client()`, `server.c` `main()` | two *lanes*: "up" is `client_send_sk`/`server_recv_sk`, "down" the other pair; the `got_*` and `*_addr` variables are sets and functions over lanes; `sender` is how far a session's `send_bandwidth()` has come, "hung" is a `main()` whose `pthread_join()` does not return; `unserved` and `uppers` are history variables |
| `SenderThreads` | thread start, IPC, stop and join | one action per statement that another thread can see; `slow` is a history variable: the controller's second passed while the generator had the question |
| `TcpMode` | the four `_tcp` functions | a connection is a peer's; of what it carries, how much waits to be read. `up_conn` says what became of `recv_s` for each peer: `taken`, `orphan` once it is overwritten, `stray` when the function has returned since |
| `Server` | `server.c` `main()` with every thread of both modes | `fd` is the table of descriptors by who holds them, and gives out the lowest that is free; `lost` are those that stay open unheld |
| `TimeVal` | `bandwidth_utils.c` | `struct timeval` as a record |
| `Pacing` | the timers of `start_generator()` | the names of the code; `due` and `held` are history variables: when the next packet is due, and the waiting that LOCAL_CONTROLs undid since the last one |
| `Interactive`, `MCInteractive` | `interactive_server.c`, `interactive_client.c` | users, their addresses, `_connect.error`, the client's `read_mask`; a client that took a drawing for its answer is "misled" |
| `ControllerProofs`, `ControllerRelayProofs`, `LinkProofs`, `HandshakeProofs`, `ThreadsProofs`, `ServerProofs`, `PacingProofs`, `InteractiveProofs` | | theorems |

How they compose: `ControllerRelay` shows `Controller` to implement `Relay`.
`Link` then uses `Relay` in place of the controller, so the receiver is checked
against everything the controller can send without carrying the controller's
state. `Server` composes `SenderThreads` and `TcpMode`: each of its actions is one
of theirs with what it does to the descriptors, and a session has the threads of
one mode. `SenderThreads`, `TcpMode`, `Server` and `Handshake` leave out what
`Controller`, `Receiver` and `Pacing` do with the packets, and `Server` leaves out
how a session is agreed upon (`Handshake`). `Controller` in turn leaves out when the
generator sends (`Pacing`) and how it is started (`SenderThreads`).

An action is a whole iteration of the loop it stands for where no other thread
can see a state in between. `control()` handles a data packet and a report in one
iteration, and looks at the flag only at the top; between them `pc` is `server`,
and packets may arrive and the flag may be set there.

### Abstractions that matter

* **Time.** In `Controller` and `Handshake` a timeout may happen whenever the
  sockets it waits for are empty, and a late timer of the controller makes up for
  any number of packets the code's loop allows (`controller.c:346-358`). This
  allows more behaviours than the clock does. `Pacing` is where time counts.
* **Rates measured** by the receiver are not computed. Any rate of `Speeds` may
  be reported to the controller, at any time and any number of times: this covers
  late, repeated, lost and wrong reports.
* **Packets** carry the header's fields and no payload.
* `Link`'s rates may change at each packet, which covers every order of reports.
* **Uninitialised memory** in `interactive_server.c` (`users[]`) is a choice over
  initial states; in `receive_bandwidth.c:419` (`recv_s`) over the descriptors of
  `Junk`.
* **Parameters** of a session are not values: `Handshake` keeps the packet they are
  read from (`recv_params`).
* **TCP connections** hold a number of packets, and TCP's own promises (no loss, order)
  are assumed. An end that was closed shows at the other, a host that vanished does not.

## 3. The runs

Twelve runs; three of them show a disagreement between the code and what it says
of itself.

| run | question | bounds |
|---|---|---|
| `controller_paced` | Does the controller keep `Relay`'s promise, its buffer and its cursors, does the generator know the rate, and do bursts and stops end? | bursts of 5, a burst every 6 packets, 13 packets: two whole bursts and the plain packets around them; one datagram waiting on each socket; two sending rates |
| `controller_overlap` | Does the loop survive bursts that restart each other, and what raises the rate? | bursts of 4, 9 packets; three sending rates, reports of one below the minimum and of the maximum, so that they lower the rate and raise it; `INTERVAL_TIME` in use: 2 packets at the lowest rate and 6 at the highest, so bursts overlap or not as the reports go; a repeated reply of the generator |
| `link_lossy` | Does the receiver measure what it says, on a path that loses? | bursts of 3, back to back or apart, two rates, 10 packets: up to three bursts; one packet on its way when the sender acts |
| `link_hostile` | Is the receiver safe whatever arrives? | bursts of 2, 5 packets (a whole burst and what ends it, plain data or the start of another; each slot of the ring is used twice), two in flight, ECHO, late acknowledgements, START, STOP; loss, duplicates, reordering |
| `link_echo` (violated) | Is a packet of a burst, in order, ever dropped on a path that loses nothing? | bursts of 3, 5 packets |
| `handshake_lossy` | Does one client get its connection and lose it properly, and is it served each time it runs? | two starts: a first session, and what is left of it when the client comes again; two failures of the network, any number of duplicates, crashes |
| `handshake_pair` | Is a client turned away only for another? | two clients, started once each; they may quit |
| `handshake_mixed` (violated) | Does a client run only while it is served? | two clients, no failures |
| `server_sessions` | Do sessions of either mode start, stop and leave behind only what the code forgets, and does the server listen again? | sockets that queue 2 datagrams; 8 descriptors: after the standard ones and the two sockets three are free, enough for one session over TCP with two connections to the receiver and for two UDP sessions that leave logs behind, so that they also run out; two clients that send over TCP, one that receives; connections that hold a packet each way; `recv_s` uninitialised names standard input, one of the sockets, or nothing |
| `server_deaf` (violated) | Does `main()` watch its two sockets after every session? | UDP sessions only |
| `interactive_users` | Are ids and addresses right? | two clients, two ids, duplicates; one of the clients may connect again; what a client misled by a drawing does is not followed |
| `pacing` | Is the generator on schedule? | three speeds, `select()` late by up to 7 ticks, 16 ticks; seconds of 4 ticks, so that every borrow and carry occurs |

Why the bounds are enough. A burst of 4 has a first packet, a packet before the
half, the half, and a last packet, which are the four cases of the code, and with
5 a late timer can also overtake what was taken in without reaching the end; of 3 or
2 the ring of the receiver wraps several times within the run. Two bursts are
needed for a slot of the buffer that was written before, three for a receiver
that confuses one with the next. With one datagram in each queue both sockets can
be readable, which is all `select()` tells. The overlap of two clients needs
two. Limits on queues and sequence numbers stop the *environment* only; in
`Controller` a burst begun may always be completed.

`CHECK_DEADLOCK FALSE` is given where the model really stops: a controller that
returned, a client that was refused, a packet bound that was reached. It is
not checked in `server_sessions` either, whose server may have ended: there the
liveness properties say what must go on.

### Where the code and what it says differ

* `link_echo` (`BurstIsKept`). Once a second a server's sender reuses
  `data_pkt` for an ECHO (`controller.c:164`), so the ECHO has the number of the
  packet taken in last, which may still be waiting in `pkt_buffer`. The receiver
  handles an ECHO as data and advances `seq` past it; the packet of the burst with
  that number is dropped when it comes, although it is in order. In the run packets
  0 to 3 arrive, 4 begins a burst and waits, the ECHO overtakes it.
* `handshake_mixed` (`ConnectedWhenRunning`). The lanes are acknowledged
  independently (`server.c:64` and on), so of two clients that ask at once one may
  collect both acknowledgements and run while the lane down has the address of the
  other: the session receives from one and sends to the other.
* `server_deaf` (`AcceptsAgain`). `mask` is filled once (`server.c:30`). The receiver
  closes its socket, 4, when it returns; a controller that is still running and now
  prints for the first time opens `upload.txt` or `latency.txt` as 4; `clear_file_pointers()`
  forgets the file without closing it; the socket opened next is 5. `main()` goes on
  watching 3 and 4, of which 4 is a file that is always readable.

Further deviations the models keep as they are, without a run of their own:

* `controller.c:33`: `start_controller()` clears `kill_thread` when it starts, and
  `start_generator()` its own flag; a stop between `pthread_create()` and that line is
  forgotten, and the server waits in `pthread_join()`. It takes a late STOP, which makes
  `receive_bandwidth()` return at once. `SessionEnds` is therefore stated from the moment
  `control()` runs (`ControlStopped`), and in `Handshake`, where such a server is "hung",
  `ServerIsFreed` where the sender had started. The client's TCP threads
  do the same (`send_bandwidth.c:43`, `receive_bandwidth.c:430`).
* `controller.c:61`: a generator that takes more than a second to answer is asked again
  and answers twice; `control()` takes the second answer for a packet of the wrong size
  and exits. `NoIpcError` says that this is the only way there.
* `receive_bandwidth.c:139` announces that a START resets the server, and nothing is
  reset (`RecvStart`): a client that crashed and starts again within its old session is
  acknowledged on the lane up at once, and on the lane down when that session has timed
  out: it runs, and no session began for it. So does one that collects a late
  acknowledgement of its last life. `NotBeforeSession` is about clients that start outside
  a session, with no such acknowledgement on its way.
* `receive_bandwidth.c:382`: a second connection overwrites `recv_s`; the first stays
  in `mask` and is never read, so what waits there keeps `select()` from timing out and
  its client may block for ever (the exceptions of `SessionEnds` and `ClientStops`); and
  it is never closed, so it may keep the number of a socket, like a log.
* `receive_bandwidth.c:419` closes `recv_s` though it was never set.
  `AcceptsUnlessTaken` is what is left of `AcceptsAgain` with these two and the logs.
* `feedbackLogger.c:61`: up to three descriptors are lost with each session, until
  `socket()` fails and the process exits.
* `send_bandwidth.c:123`: a client that closed its end ends the server's process with
  SIGPIPE before the result of `send()` is looked at (`ended`).
* `send_bandwidth.c:78`: what `recv()` returns is read as a whole report; a stream may
  return a part.
* `server.c:122`: the parameters are those of the packet read last, whatever its type: a
  late data packet of a client whose session was cut, on the lane up, is read as
  parameters when the other lane is asked for. `ParametersAreAskedFor` is stated for
  the first session.
* `client_main.c` takes `use_tcp` and `start_client()` runs over UDP all the same.
* `controller.c:335`: the `continue` skips the reset of `timeout`, which `select()` left at
  zero: the loop spins until data come. No state of the model shows it.
* `controller.c:285` tests the type of `data_pkt`, the packet sent last, instead
  of the one received: START and STOP on the sender's socket are ignored
  (`TestedType` of `Controller`).
* `receive_bandwidth.c:203` counts a packet at the current rate before its order
  is checked, and counts ECHOs: `MeasuredAtOneRate` therefore is checked for a
  sender without ECHOs and a path that keeps the order.
* `receive_bandwidth.c:244`: an ECHO inside a burst ends it; `BurstIsOver` is
  checked without ECHOs.
* `receive_bandwidth.c:161`: what is neither START, STOP nor BURST is taken for plain data.
  So is a START_ACK or BUSY that reaches a client late: it is packet 0, and ends a burst.
  `LateReply` of `Link` sends it; the properties that hold all the same are those of
  `link_hostile`.
* `receive_bandwidth.c:247`: a burst of which one packet arrived stays open, and
  the next one's packets are added to it; `receive_bandwidth.c:276` and `:288`
  skip the advance of `seq`, and the packet just received is later marked as
  lost. `MeasuresOneBurst` and `ReceivedIsTrue` are therefore stated up to the
  first loss (`intact`).
* `data_generator.c:123` sends the packets made up for a late timer with `send()`
  on a socket that was bound and not connected: `Pacing` counts them, and they
  do not leave (`GeneratorSends` of `SenderThreads`).
* `interactive_server.c:151`: a CONNECT that is repeated takes another id.
  `interactive_client.c:39`: after a timeout the socket is no longer in
  `read_mask`, and the answer is not read. `interactive_server.c:168`: an existing user
  is answered with the error of the answer before.
* `interactive_server.c:99`: `users[]` is not initialised. Where `address_set` is garbage
  and not zero no address is ever learnt, although the comments at `:113` and `:143` say
  that drawings are sent "to each user" and that the address is set by the first one:
  what is drawn goes to a garbage address for ever (`Junk`). `AddressIsTheUsers` is about
  the addresses that are learnt.
* `interactive_client.c:51` takes whatever datagram comes for the answer to its CONNECT. A
  client that connects again may take a drawing for it, and with it another's id or none:
  it is "misled", and exempt from `IdsAreUnique`. No client of the repository connects
  again; the server has a branch for it.
* `data_generator.c:145`: each LOCAL_CONTROL makes `select()` wait the whole timeout again,
  so that a packet is late by what was waited so far (`held`), without bound.

## 4. Fairness

* `Controller!FairSpec`: the thread takes a step when it can (it is scheduled, and
  its `select()` has a timeout), and the generator generates while there is room.
  Nothing is assumed of reports or of stops.
* `Server!ServerFairSpec`: every thread that can run does (`select()` has a timeout in
  each), the server's and the clients' own, and a main thread that is ending a session goes
  on. When a session begins, when a UDP receiver returns, and when clients come, stop
  or go is left open. Weak fairness is enough: nothing but itself moves a thread past
  the statement it is at. The controller's and the TCP sender's thread share a
  conjunct, as no session has both.
* `Handshake!FairSpec`: a client's loop goes on (its `select()` has a timeout of a
  second); what is queued on a lane gets read, although duplicates may come; a
  receiver that nobody sends to times out; a session's sender gets to `control()`
  (`SenderStarts`: the generator answers), before the receiver's timeout of
  `RECV_TIMEOUT_SEC` is over. `WF(ServerReopens)` says that `pthread_join()` returns. It is
  assumed only where the sender's stop was not forgotten, where `SessionEnds` shows it of
  the threads themselves; a server whose sender was still starting may hang instead
  (`Stopped`), and then nothing is promised. Strong fairness is needed for reads
  only: a packet may be queued while its reader is busy with something else. The
  network fails at most `MaxLosses` times: with losses for ever nothing can be
  promised.

## 5. The proofs

`tlapm` checks these for every value of the constants that satisfies the
assumptions. Every safety property that a passing run checks is a theorem, and so are the
action properties and the refinement. The inductive invariants were checked with TLC on
small instances before they were proved. Constants are only restricted where the code
relies on it:

* `ParamAssumption` (`Controller`): sizes and rates are naturals, a burst has a
  packet.
* `SpeedAssumption` (`RateControl`): `min_speed` is positive and at most
  `max_speed`.
* `IntervalCoversBurst` (`ControllerRelay`, for the refinement only): at no rate
  the loop can reach a burst is due before the last one is taken in. The code
  does not check it; the comment "should make this a multiple of BURST_SIZE" in
  `net_include.h` asks for it.
* `PacingAssumption`: intervals are positive. (Above about 10 Gbps
  `speed_to_interval()` returns zero.)
* `SecondAssumption` (`TimeVal`): a second has a microsecond.
* `TcpAssumption`, `ServerAssumption`, `ThreadsAssumption`: connections and local
  sockets hold a packet, a process may have five descriptors, and finitely many peers may
  connect.
* `ReceiverAssumption`: a burst has two packets, and the grace period counts from one.
  `LinkAssumption`: rates are positive, and no burst begins inside another (the interval is
  no shorter than a burst), as the refinement shows of the sender. What the network may do
  (`MayLose`, `MayDuplicate`, `MayReorder`, `MaySignal`) is free.
* `HandshakeAssumption`, `InteractiveAssumption`: the bounds are naturals, there is an id
  to give, and the marks for "nobody" are no client's address; of clients there may be any
  number.

Some theorems have a hypothesis of their own, because without it the property fails:

* `~Strays`, that nothing else is taken for data: no ECHO (a client's sender never sends
  one) and no late acknowledgement (a server's receiver never gets one), for
  `InOrderIsKept` and `BurstIsOver`: `link_echo` and section 3 show what these do.
* `Fifo`, `~Strays` and a path that loses but neither repeats nor reorders, for
  `MeasuredAtOneRate`, `ReceivedIsTrue` and `MeasuresOneBurst`: the receiver counts a packet
  before it looks at its order.
* `Clients = {client}` for `NotBeforeSession`: `handshake_mixed` shows two clients.

**Controller.** `NoExit` is not inductive: that no packet is left to send when
plain data comes follows from how the two cursors are linked, which is
`CursorsLinked`. The invariant is

    IndInv == TypeOK /\ CursorsLinked /\ NoExit

(The other exit of the loop, on a reply of the generator that is taken for a packet, is
`NoIpcError`'s.) It is proved for both values of `INSTANT_BURST` and without any assumption on the
interval. From the same invariant and two lemmas about `adjustRate()`
(`AdjustRateInRates`, `AdjustRateRaise`) follow `GeneratorTold` and the action
property `RaisesAreEarned`.

**Refinement.** `Spec => R!Spec` needs to know what the buffer holds:

    RelayInv == IndInv /\ GeneratorTold /\ BufferIsBurst /\ SendBehindRecv

`GeneratorTold` bounds the rate, so `IntervalCoversBurst` applies and bursts do
not overlap (`NoOverlap`); `BufferIsBurst` gives the headers that leave;
`SendBehindRecv` keeps a late timer from sending what is not there. Then every
step of `Controller` is mapped: a plain packet to `Forward`, a packet of a burst
to `Burst(1, n)`, a timeout to `Burst(0, n)`, everything else to `Burst(0, 0)`,
with nothing on the wire, or a stutter.

**Link.** What protects the arrays does not depend on the network at all:

    BaseInv == TypeOK /\ SenderInv /\ NetInv /\ RingInv /\ BurstInv /\ IndicesSafe

`SenderInv` places what was sent (`Relay`'s promise) and `NetInv` says that every packet of a
burst on its way has a number within its burst, which bounds the index the receiver computes
from the header. `RingInv` says that a slot of the ring that is marked holds a packet whose
number has that remainder and lies within one turn behind `seq`, but for the packet whose
measurement was skipped. The slots a rate is measured between are therefore as many packets
apart as it is divided by (`FirstMarked`, on lemmas about `%`), which is `SpanIsTrue`, in both
prediction modes.

The others need to know how what is on the network relates to what has arrived.
`BurstIsOver` needs that bursts are whole: of two packets ever seen, on the wire or
recorded, either both belong to a burst or one comes after it (`SeenInv`). `InOrderIsKept`
needs that `seq` is never more than one above the highest packet that arrived
(`AheadInv`). On a path that keeps the order what is on its way is increasing and above all
that has arrived (`OrderInv`), so the packets that are counted at a rate are those last
sent (`MeasuredAtOneRate`); until the first loss every number between the highest one and
`sent` is on its way (`IntactInv`), so nothing is skipped in the ring (`ReceivedIsTrue`), and
a burst's first and last packet are the ones the receiver keeps (`BurstIntact`, for
`MeasuresOneBurst`).

**Handshake.** `AddressInv` says that a lane that was asked for has the address of a client,
and that a session receives from a client that was served; whoever was turned away then had
another address than that one (`TurnedAwayForAnother`). `FirstInv` is about the time before
the first session: clients do nothing but ask, so every packet the server can read is a
START, whose parameters it takes (`ParametersAreAskedFor`), and no client has more
acknowledgements than the server has lanes, which are not both; so none runs. Therefore a
client that runs follows a session. For later sessions `UnservedInv` says the same of each
client that is not served since it started: nothing on its way to it, and nothing it has
collected, acknowledges a lane that was not asked for since the sockets were opened, and the
lanes that were are not both; where both are, a session begins, and where there is only one
client that session is its own (`NotBeforeSession`).

**Interactive server.** `Claims(n, c)` is whatever speaks for the id `n` being `c`'s: a packet or
an answer on its way, the client itself unless it was misled, the address in the table. `ClaimsInv` says that
an id that is claimed was given out and that all claims agree; an id is given out once
because `num_users` is above every claim. It holds although the table's memory is arbitrary
at first. `RefusedWhenFull` needs that the error that is kept from one answer to the
next, and the answers on their way, come from a full table (`AnswersInv`).

**Pacing.** The invariant adds to the schedule what holds inside the loop that
catches up: what is left of `tmExtra` is exactly how long the next packet has been
due, and where it waits, `select()` was called at the last packet or, after LOCAL_CONTROLs,
`held` later (`Schedule`). `OnSchedule`, `NoNegativeTime` and `NeverEarly` follow.
`DiffTimeSubtracts` and `GtTimeCompares` show that `diffTime()` and `gtTime()` are
subtraction and comparison of microseconds on all normal timevals, and
`TimevalsAlwaysAgree` carries that over to every time the generator computes with.

**Server.** Everything is proved of `ServerSpec`, for any number of peers and of
descriptors, and every size of connections and queues. `ServerFairSpec`, which the run
checks, only adds fairness.

* `NeverInStandoff`: `Load(p)` counts the packets that wait for the server, the reports
  that wait for the client, and the report that is about to be sent. A packet the server
  takes becomes one report at most, and a client adds a packet only after it looked for a
  report. So the load exceeds `Capacity` by one at most while the client sends, and by two
  while it polls (`UpInv`): both directions are never full at once.
* `NothingIsLeft`: `LeftInv` says for each descriptor where its thread must be for it to
  be open. It needs that a session over TCP has no controller, and that `recv_s` is only
  open while a connection is "taken". Nothing but the logs is open when `main()` joins, so
  these are all that it forgets there (`LogsForgotten`); before, only an overwritten
  `recv_s` is (`Forgotten`).
* `AcceptsUnlessANumberIsTaken`: when the sockets are opened again everything else but the
  standard streams is closed (`LeftInv`), so the lowest free numbers are 3 and 4 unless one
  of them is lost or a number below is free (`Reopened`); until the next session nothing
  touches a descriptor (`QuietBetween`).
* `ServerTypeCorrect`: the table of descriptors has no number twice and none that is lost
  (`Table`), and each `accept()` or `socket()` that the model does not let fail finds one. That
  takes a count. `Room` is what neither logs nor standard streams hold and what is not lost,
  and `RoomInv` says that two numbers are left: a log takes one only while two sockets of the
  session are open, and those come back. During a session over TCP three are left beside one
  for each peer that may still be accepted (`Hopeful`): a connection that is overwritten
  costs one of both. The session finds these where it begins, which is a bound of the model
  (`EnoughLeft`).

**Sender threads.** The generator may be as slow as it likes. Each step of
the process is one of the sender threads or leaves them alone (`ServerTakesThreadSteps`).
`Prompt` follows the controller's question, as long as the generator was not `slow`: it is
not on its way (`Unasked`), `Asked`, `Answering` or `Answered`, never twice, and once
`control()` runs it is in no queue; so only a slow generator leads to the exit
(`NeverIpcError`). `RoomForOne` needs no such condition: the controller comes to send when it
has just found its own socket empty or made room there, and the generator, whose socket the
controller fills, sends no more than it had in hand; so one of the two queues has room
(`NeverDeadlocked`).

## 6. Checked by TLC, not proved

* Liveness (`BurstCompletes`, `StopReturns`, `SessionEnds`, `ClientStops`,
  `AskerIsAnswered`, `ServerIsFreed`): temporal reasoning under fairness is out of the prover's
  reach.
* Nothing is claimed beyond the hypotheses of a theorem: with ECHOs and late acknowledgements
  the receiver's `TypeOK`, `IndicesSafe` and `SpanIsTrue` still hold on every network, the
  rest does not; with several clients `NotBeforeSession` is not expected to hold.
* Conversely, `INSTANT_BURST = TRUE` is covered by the proofs only; the
  default of `client_main.c` is `FALSE`.

## 7. Mutants

A module's operators named in a comment "Mutant of ..." are not part of the
model. Each is a definition as a plausible mistake would have it; with it in place
of the original, the property it belongs to (`mutants` in `PROJECT.json`) fails.

## 8. Not modelled

* What the parameters of a session hold: constants of the modules. Only where they
  come from is modelled.
* The value of the EWMA and the threshold; an infinite measured rate; the speed that is
  measured over TCP, and how TCP cuts packets in pieces.
* Addresses and the names of sockets (`net_utils.c:6-47`, `addrbyname()`): they compute
  and keep no state. That `bind()` fails where a port is still taken is left out.
* What is written to the logs; `client_main.c`, `echo_client.c`, the notebook: input and
  output only. `serializeStruct()`: copies in a fixed order.

## 9. The plan

Written in this order, the behaviour that matters most first: `RateControl`,
`Controller`, `Relay` and the refinement; the proofs of these; `Receiver` and
`Link`; `Handshake`; `SenderThreads`; `TimeVal` and `Pacing` with their proofs;
`Interactive`; `TcpMode` and `Server`; the parameters of a session; the proofs of
`Server` and its sender threads, of `Link`, of `Handshake` and of `Interactive`.

Still to do:

1. Model: a restart of the interactive server, whose clients keep their ids; the
   UDP client's own sender and receiver threads and how an application stops them.
2. Abstract specifications: of the handshake (a server serves one client at a
   time), and of the interactive server (an allocation of ids).
3. Prove: `InOrderIsKept` and `BurstIsOver` with ECHOs where no burst is being sent when
   one goes out, as far as it holds; that `Handshake` and `Interactive` implement the
   specifications of 2, once these are written.
