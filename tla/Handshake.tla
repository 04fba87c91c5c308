------------------------------- MODULE Handshake --------------------------------
(***************************************************************************)
(* How clients get a connection: start_client() of client.c and the select *)
(* loop of server.c's main().                                              *)
(*                                                                         *)
(* A connection has two lanes, one for each direction of the measurement.  *)
(* A client asks on both, from two sockets, until each has been            *)
(* acknowledged.  The server notes who asked on each lane, and once both   *)
(* have been asked for it serves a session: a receiver on the lane up, a   *)
(* controller on the lane down.  The receiver decides when it ends; main() *)
(* then stops the sender's threads and waits for them.                     *)
(*                                                                         *)
(* The measurement itself is left to Link.  Of what a session sends to the *)
(* client only the answers to START matter here; of what a running client  *)
(* sends, that it is not a START.                                          *)
(***************************************************************************)
EXTENDS Naturals

CONSTANTS
  Clients,        \* addresses a client may ask from
  NoOne,          \* an address that was not set yet
  MayDuplicate,   \* the network may deliver a packet more than once
  MayQuit,        \* clients may stop or crash
  MaxLosses,      \* bound: packets the network loses, and sessions cut for that
  MaxStarts       \* bound: how often each client is started

ASSUME HandshakeAssumption ==
  /\ NoOne \notin Clients
  /\ MayDuplicate \in BOOLEAN
  /\ MayQuit \in BOOLEAN
  /\ MaxLosses \in Nat
  /\ MaxStarts \in Nat

\* "up": client_send_sk and server_recv_sk; "down": client_recv_sk and server_send_sk.
Lanes == {"up", "down"}

VARIABLES
  cpc,        \* where each client is: "off", "top" of its loop, "select", "run", "busy"
  acks,       \* got_send_ack for "up", got_recv_ack for "down"
  starts,     \* how often it was started
  spc,        \* where the server is: "accept", "session", "joining", or "hung" where
              \* it waits for threads that forgot that they were stopped
  sender,     \* its sender in a session: "starting" or "running" control(); else "off"
  got,        \* got_recv_addr for "up", got_send_addr for "down"
  recv_params,    \* the packet the session's parameters are taken from
  addr,       \* server_recv_addr for "up", server_send_addr for "down"
  unserved,   \* history: the clients that started while no session ran and no answer to
              \* them was on its way, and that both addresses of no session named since
  uppers,     \* history: the clients the lane up of some session named
  toServer, toClient,   \* packets in flight
  losses      \* how often the network failed

client_vars == <<cpc, acks, starts>>
server_vars == <<spc, sender, got, recv_params, addr, unserved, uppers>>
vars == <<client_vars, server_vars, toServer, toClient, losses>>

\* client is who it is from, or who it is for.
Packet(type, lane, client) == [type |-> type, lane |-> lane, client |-> client]
Nothing == Packet("NONE", "none", NoOne)

Init ==
  /\ cpc = [c \in Clients |-> "off"]
  /\ acks = [c \in Clients |-> {}]
  /\ starts = [c \in Clients |-> 0]
  /\ spc = "accept" /\ sender = "off"
  /\ got = {}
  /\ recv_params = Nothing
  /\ addr = [l \in Lanes |-> NoOne]
  /\ unserved = {}
  /\ uppers = {}
  /\ toServer = {}
  /\ toClient = {}
  /\ losses = 0

\* What is left in flight when the packets of read have been read.
Remaining(net, read) == IF MayDuplicate THEN {net, net \ read} ELSE {net \ read}

NetworkFails == losses < MaxLosses /\ losses' = losses + 1

--------------------------------------------------------------------------------
(* A client. *)

ClientStarts(c) ==
  /\ cpc[c] = "off"
  /\ starts[c] < MaxStarts
  /\ starts' = [starts EXCEPT ![c] = @ + 1]
  /\ cpc' = [cpc EXCEPT ![c] = "top"]
  /\ acks' = [acks EXCEPT ![c] = {}]
  /\ unserved' = IF spc # "session" /\ \A m \in toClient : m.client # c THEN unserved \cup {c} ELSE unserved
  /\ UNCHANGED <<spc, sender, got, recv_params, addr, uppers, toServer, toClient, losses>>

\* "re-send NETWORK_START packets when timeout", on the lanes not acknowledged.
ClientAsks(c) ==
  /\ cpc[c] = "top"
  /\ cpc' = [cpc EXCEPT ![c] = "select"]
  /\ toServer' = toServer \cup {Packet("START", l, c) : l \in Lanes \ acks[c]}
  /\ UNCHANGED <<acks, starts, server_vars, toClient, losses>>

ClientTimeout(c) ==
  /\ cpc[c] = "select"
  /\ cpc' = [cpc EXCEPT ![c] = "top"]
  /\ UNCHANGED <<acks, starts, server_vars, toServer, toClient, losses>>

\* Mutant of Connected: one acknowledgement is enough.
ConnectedHalf(lanes) == lanes # {}

Connected(lanes) == lanes = Lanes

\* Mutant of Readable: the other lane is taken out of the mask as well.
ReadableOnce(c, lane) ==
  {Nothing} \cup {m \in toClient : m.client = c /\ m.lane = lane /\ acks[c] = {}}

\* A lane that was acknowledged is not read again.
Readable(c, lane) ==
  {Nothing} \cup {m \in toClient : m.client = c /\ m.lane = lane /\ lane \notin acks[c]}

\* One iteration reads a packet of each lane that has one.  BUSY ends it all;
\* on the lane up, before the lane down is read.
ClientReads(c) ==
  /\ cpc[c] = "select"
  /\ \E u \in Readable(c, "up"), d \in Readable(c, "down") :
       LET read == {u, d} \ {Nothing}
           acked == {m.lane : m \in {r \in read : r.type = "START_ACK"}}
       IN  /\ read # {}
           /\ IF \E m \in read : m.type = "BUSY"
              THEN /\ cpc' = [cpc EXCEPT ![c] = "busy"]
                   /\ UNCHANGED acks
              ELSE /\ acks' = [acks EXCEPT ![c] = @ \cup acked]
                   /\ cpc' = [cpc EXCEPT ![c] = IF Connected(acks'[c]) THEN "run" ELSE "top"]
           /\ toClient' \in Remaining(toClient, read)
  /\ UNCHANGED <<starts, server_vars, toServer, losses>>

\* A connected client sends data on the lane up and reports on the lane down.
ClientRuns(c) ==
  /\ cpc[c] = "run"
  /\ \E l \in Lanes : toServer' = toServer \cup {Packet("DATA", l, c)}
  /\ UNCHANGED <<client_vars, server_vars, toClient, losses>>

\* It is stopped, or it crashes and says nothing.
ClientQuits(c) ==
  /\ MayQuit
  /\ cpc[c] \in {"top", "select", "run"}
  /\ cpc' = [cpc EXCEPT ![c] = "off"]
  /\ \/ UNCHANGED toServer
     \/ /\ cpc[c] = "run"
        /\ toServer' = toServer \cup {Packet("STOP", l, c) : l \in Lanes}
  /\ unserved' = unserved \ {c}
  /\ UNCHANGED <<acks, starts, spc, sender, got, recv_params, addr, uppers, toClient, losses>>

--------------------------------------------------------------------------------
(* The server. *)

Arrived(lane) == {Nothing} \cup {m \in toServer : m.lane = lane}

\* Mutant of BothAsked: the session starts when one lane was asked for.
OneAsked(lanes) == lanes # {}

BothAsked(lanes) == lanes = Lanes

\* One iteration of the select loop reads a packet of each lane that has one, the
\* lane up last.  The sender's address is taken from every packet, START or not, and
\* the session's parameters from the packet read last.
ServerAccepts ==
  /\ spc = "accept"
  /\ \E d \in Arrived("down"), u \in Arrived("up") :
       LET read == {d, u} \ {Nothing}
           asking == {m \in read : m.type = "START"}
       IN  /\ read # {}
           /\ got' = got \cup {m.lane : m \in asking}
           /\ addr' = [l \in Lanes |->
                        LET m == IF l = "up" THEN u ELSE d
                        IN  IF m = Nothing THEN addr[l] ELSE m.client]
           /\ toClient' = toClient \cup {Packet("START_ACK", m.lane, m.client) : m \in asking}
           /\ toServer' \in Remaining(toServer, read)
           /\ recv_params' = IF ~BothAsked(got') THEN Nothing ELSE IF u # Nothing THEN u ELSE d
  /\ IF BothAsked(got')
     THEN /\ spc' = "session" /\ sender' = "starting"
          /\ uppers' = uppers \cup {addr'["up"]}
          /\ unserved' = IF addr'["up"] = addr'["down"] THEN unserved \ {addr'["up"]} ELSE unserved
     ELSE UNCHANGED <<spc, sender, uppers, unserved>>
  /\ UNCHANGED <<client_vars, losses>>

\* send_bandwidth() has come to control(): the flags that stop its threads were cleared.
SenderStarts ==
  /\ spc = "session"
  /\ sender = "starting"
  /\ sender' = "running"
  /\ UNCHANGED <<client_vars, spc, got, recv_params, addr, unserved, uppers, toServer, toClient, losses>>

\* Where main() gets to when it stops the sender: one that still starts may clear the
\* flag, or lose the generator it waits for, and is then waited for in vain.
Stopped == IF sender = "starting" THEN {"joining", "hung"} ELSE {"joining"}

\* Mutant of Welcome: the requester is looked up on the wrong lane.
WelcomeDown(c) == c = addr["down"]

\* Who asks again is the one whose data is being received.
Welcome(c) == c = addr["up"]

\* receive_bandwidth() answers START and returns on STOP.
SessionReadsUp ==
  /\ spc = "session"
  /\ \E m \in Arrived("up") \ {Nothing} :
       /\ toServer' \in Remaining(toServer, {m})
       /\ spc' \in IF m.type = "STOP" THEN Stopped ELSE {spc}
       /\ sender' = IF m.type = "STOP" THEN "off" ELSE sender
       /\ toClient' =
            IF m.type = "START"
            THEN toClient \cup
                 {Packet(IF Welcome(m.client) THEN "START_ACK" ELSE "BUSY", "up", m.client)}
            ELSE toClient
  /\ UNCHANGED <<client_vars, got, recv_params, addr, unserved, uppers, losses>>

\* control() ignores everything but reports.
SessionReadsDown ==
  /\ (spc = "session" /\ sender = "running") \/ spc = "hung"
  /\ \E m \in Arrived("down") \ {Nothing} : toServer' \in Remaining(toServer, {m})
  /\ UNCHANGED <<client_vars, server_vars, toClient, losses>>

\* Nobody is about to send on the lane up: a client that asks does so every second.
UpIsSilent ==
  /\ Arrived("up") = {Nothing}
  /\ \A c \in Clients : ~(cpc[c] = "run" \/ (cpc[c] \in {"top", "select"} /\ "up" \notin acks[c]))

\* Mutant of SessionTimesOut: select() is given no timeout.
NeverTimesOut == FALSE /\ UNCHANGED vars

\* RECV_TIMEOUT_SEC without a packet: nobody sends, or all of it is lost.  The sender
\* has started by then.
SessionTimesOut ==
  /\ spc = "session" /\ sender = "running"
  /\ \/ UpIsSilent /\ UNCHANGED losses
     \/ NetworkFails
  /\ spc' = "joining" /\ sender' = "off"
  /\ UNCHANGED <<client_vars, got, recv_params, addr, unserved, uppers, toServer, toClient>>

\* The sender's threads have ended and were joined, both sockets opened again.
ServerReopens ==
  /\ spc = "joining"
  /\ spc' = "accept"
  /\ got' = {}
  /\ recv_params' = Nothing
  /\ UNCHANGED <<client_vars, sender, addr, unserved, uppers, toServer, toClient, losses>>

\* What a closed socket had queued is gone.
Discard ==
  /\ spc \in {"joining", "hung"}
  /\ \E m \in toServer : toServer' = toServer \ {m}
  /\ UNCHANGED <<client_vars, server_vars, toClient, losses>>

Lose ==
  /\ NetworkFails
  /\ \E m \in toServer \cup toClient :
       toServer' = toServer \ {m} /\ toClient' = toClient \ {m}
  /\ UNCHANGED <<client_vars, server_vars>>

ClientStep(c) ==
  ClientStarts(c) \/ ClientAsks(c) \/ ClientTimeout(c) \/ ClientReads(c) \/ ClientRuns(c) \/ ClientQuits(c)

ServerStep ==
  ServerAccepts \/ SenderStarts \/ SessionReadsUp \/ SessionReadsDown \/ SessionTimesOut \/ ServerReopens

Next == (\E c \in Clients : ClientStep(c)) \/ ServerStep \/ Discard \/ Lose

Spec == Init /\ [][Next]_vars

\* For fairness: what is queued on a lane gets read.
ServerEmpties(l) ==
  /\ ServerAccepts \/ SessionReadsUp \/ SessionReadsDown
  /\ \E m \in toServer \ toServer' : m.lane = l

ClientEmpties(c, l) == ClientReads(c) /\ \E m \in toClient \ toClient' : m.lane = l

Fairness ==
  /\ WF_vars(SenderStarts) /\ WF_vars(UpIsSilent /\ SessionTimesOut) /\ WF_vars(ServerReopens)
  /\ \A c \in Clients : WF_vars(ClientAsks(c)) /\ WF_vars(ClientTimeout(c))
  /\ \A l \in Lanes : SF_vars(ServerEmpties(l)) /\ \A c \in Clients : SF_vars(ClientEmpties(c, l))

FairSpec == Spec /\ Fairness

--------------------------------------------------------------------------------
(* Properties. *)

FromClients == {Packet(t, l, c) : t \in {"START", "DATA", "STOP"}, l \in Lanes, c \in Clients}

TypeOK ==
  /\ cpc \in [Clients -> {"off", "top", "select", "run", "busy"}]
  /\ acks \in [Clients -> SUBSET Lanes]
  /\ starts \in [Clients -> 0 .. MaxStarts]
  /\ spc \in {"accept", "session", "joining", "hung"}
  /\ sender \in {"off", "starting", "running"}
  /\ got \subseteq Lanes
  /\ addr \in [Lanes -> Clients \cup {NoOne}]
  /\ recv_params \in {Nothing} \cup FromClients
  /\ unserved \subseteq Clients /\ uppers \subseteq Clients
  /\ losses \in 0 .. MaxLosses
  /\ toServer \subseteq FromClients
  /\ toClient \subseteq {Packet(t, l, c) : t \in {"START_ACK", "BUSY"}, l \in Lanes, c \in Clients}

\* A client that runs was served, on both lanes, by a session that began after the
\* client started: two acknowledgements, of whatever STARTs of it were still on their
\* way, never add up to a connection that no session was started for.  Not so where it
\* started within a session, its own old one, which acknowledges the lane up and is not
\* "reset"; nor where answers to its last life were still to come.
NotBeforeSession == \A c \in unserved : cpc[c] # "run"

\* The parameters of the first session come from a START: later, data that a client
\* sent for the session before may be taken for them, if they come late on the lane up.
ParametersAreAskedFor ==
  [][spc = "accept" /\ spc' = "session" /\ uppers = {} => recv_params'.type = "START"]_vars

\* A client is turned away only for the sake of another one that was served.
TurnedAwayForAnother == \A c \in Clients : cpc[c] = "busy" => uppers \ {c, NoOne} # {}

\* "Once connected with the server, run send_bandwidth()": when a client starts
\* to run, the server is serving it.
ConnectedWhenRunning ==
  [][\A c \in Clients :
       cpc[c] # "run" /\ cpc'[c] = "run" => spc = "session" /\ addr = [l \in Lanes |-> c]]_vars

\* A client that asks gets its connection, or is turned away, unless the server hangs.
AskerIsAnswered ==
  \A c \in Clients : cpc[c] = "select" ~> cpc[c] \in {"run", "busy", "off"} \/ spc = "hung"

\* When every client is gone, and none comes, the server accepts new ones again:
\* always, if the session's sender has started by then, or is stopping and has.
Gone == \A c \in Clients : cpc[c] \in {"off", "busy"}
ServerIsFreed == Gone /\ (sender = "running" \/ spc = "joining") ~> spc = "accept" \/ ~Gone
================================================================================
