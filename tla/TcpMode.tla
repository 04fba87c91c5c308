-------------------------------- MODULE TcpMode ---------------------------------
(***************************************************************************)
(* A measurement over TCP.  The server's main thread receives              *)
(* (server_receive_bandwidth_tcp), a second thread sends                   *)
(* (server_send_bandwidth_tcp); a client has a thread for each direction   *)
(* (client_send_bandwidth_tcp, client_receive_bandwidth_tcp), which its    *)
(* user stops.                                                             *)
(*                                                                         *)
(* A connection is named by the peer that asked for it.  Of what it        *)
(* carries only how much waits to be read is kept.  Ends that are closed   *)
(* show at the other end, hosts that vanish do not.                        *)
(***************************************************************************)
EXTENDS Naturals

CONSTANTS
  UpPeers,      \* peers that may connect to the server's receiving port
  DownPeers,    \* peers that may connect to its sending port
  Capacity      \* external: packets a connection holds in each direction

ASSUME TcpAssumption == Capacity \in Nat \ {0}

VARIABLES
  tcp_recv,     \* server_receive_bandwidth_tcp(): "off", "select" or "report"
  tcp_send,     \* server_send_bandwidth_tcp(): "off", "select" or "sending"
  up_conn,      \* of each peer: "none", "queued", "taken" when it is recv_s, "orphan" when
                \* recv_s was overwritten, "stray" when the function has returned since
  upward,       \* packets that wait for the server
  reports,      \* reports that wait for the client
  send_pc,      \* the client's sender: "off", "send", "poll",
                \* "done" when it closed its end or "gone" when its host vanished
  send_kill,    \* kill_thread of send_bandwidth.c
  down_conn, downward,    \* the same for the other port
  recv_pc,      \* the client's receiver: "off", "select" or "done"
  recv_kill,    \* kill_thread of receive_bandwidth.c
  ended         \* the server's process has ended

up_vars == <<tcp_recv, up_conn, upward, reports>>
down_vars == <<tcp_send, down_conn, downward>>
client_up == <<send_pc, send_kill>>
client_down == <<recv_pc, recv_kill>>
tcp_vars == <<up_vars, down_vars, client_up, client_down, ended>>

TcpInit ==
  /\ tcp_recv = "off" /\ tcp_send = "off"
  /\ up_conn = [p \in UpPeers |-> "none"]
  /\ upward = [p \in UpPeers |-> 0]
  /\ reports = [p \in UpPeers |-> 0]
  /\ send_pc = [p \in UpPeers |-> "off"]
  /\ send_kill = [p \in UpPeers |-> FALSE]
  /\ down_conn = [p \in DownPeers |-> "none"]
  /\ downward = [p \in DownPeers |-> 0]
  /\ recv_pc = [p \in DownPeers |-> "off"]
  /\ recv_kill = [p \in DownPeers |-> FALSE]
  /\ ended = FALSE

\* recv_s of the receiver; nobody while it is uninitialised.
RecvS(p) == up_conn[p] = "taken"
NoRecvS == \A p \in UpPeers : ~RecvS(p)

Orphans == {p \in UpPeers : up_conn[p] = "orphan"}

\* A peer that closed its end, or lost it, and whose connection the server closes
\* as well, may come again.
Forget(pc, closed) == [p \in DOMAIN pc |-> IF p \in closed /\ pc[p] \in {"done", "gone"} THEN "off" ELSE pc[p]]

--------------------------------------------------------------------------------
(* The server: both ports listen. *)

ServeTcp ==
  /\ tcp_recv = "off" /\ tcp_send = "off"
  /\ tcp_recv' = "select"
  /\ tcp_send' = "select"
  /\ UNCHANGED <<up_conn, upward, reports, down_conn, downward, client_up, client_down, ended>>

QueuedUp == {p \in UpPeers : up_conn[p] = "queued"}

\* "Establish connection with sender": recv_s is overwritten, the old one stays in mask.
AcceptUp(p) ==
  /\ tcp_recv = "select"
  /\ p \in QueuedUp
  /\ up_conn' = [q \in UpPeers |-> IF q = p THEN "taken"
                                   ELSE IF RecvS(q) THEN "orphan" ELSE up_conn[q]]
  /\ UNCHANGED <<tcp_recv, upward, reports, down_vars, client_up, client_down, ended>>

\* Where a packet has arrived; a report is due or not.
ReceiveUp(p) ==
  /\ tcp_recv = "select" /\ QueuedUp = {}
  /\ RecvS(p)
  /\ upward[p] > 0
  /\ upward' = [upward EXCEPT ![p] = @ - 1]
  /\ tcp_recv' \in {"select", "report"}
  /\ UNCHANGED <<up_conn, reports, down_vars, client_up, client_down, ended>>

\* The report blocks while the connection is full.  Once the peer has closed its
\* end the result, an error, is not looked at, or it is the signal SIGPIPE.
ReportUp(p) ==
  /\ tcp_recv = "report"
  /\ RecvS(p)
  /\ tcp_recv' = "select"
  /\ \/ /\ send_pc[p] \notin {"done", "gone"} /\ reports[p] < Capacity
        /\ reports' = [reports EXCEPT ![p] = @ + 1]
        /\ UNCHANGED ended
     \/ send_pc[p] = "gone" /\ UNCHANGED <<reports, ended>>
     \/ send_pc[p] = "done" /\ ended' \in BOOLEAN /\ UNCHANGED reports
  /\ UNCHANGED <<up_conn, upward, down_vars, client_up, client_down>>

\* The function returns: recv_s and the port are closed, who waits there is reset;
\* connections that were overwritten stay open.
CloseUp ==
  LET closed == {p \in UpPeers : up_conn[p] \in {"queued", "taken"}} IN
    /\ tcp_recv' = "off"
    /\ up_conn' = [p \in UpPeers |-> IF p \in closed THEN "none"
                                     ELSE IF p \in Orphans THEN "stray" ELSE up_conn[p]]
    /\ upward' = [p \in UpPeers |-> IF p \in closed THEN 0 ELSE upward[p]]
    /\ reports' = [p \in UpPeers |-> IF p \in closed THEN 0 ELSE reports[p]]
    /\ send_pc' = Forget(send_pc, closed)
    /\ UNCHANGED <<send_kill, down_vars, client_down, ended>>

\* "TCP disconnected"
DisconnectedUp(p) ==
  /\ tcp_recv = "select" /\ QueuedUp = {}
  /\ RecvS(p)
  /\ upward[p] = 0 /\ send_pc[p] = "done"
  /\ CloseUp

ReadableUp(p) == upward[p] > 0 \/ send_pc[p] = "done"

\* select() reports every descriptor of mask, those overwritten too.
SilentUp == QueuedUp = {} /\ \A p \in UpPeers : up_conn[p] \in {"taken", "orphan"} => ~ReadableUp(p)

\* RECV_TIMEOUT_SEC without anything.
TimeoutUp ==
  /\ tcp_recv = "select"
  /\ SilentUp
  /\ CloseUp

--------------------------------------------------------------------------------
(* The server's sender thread. *)

AcceptDown(p) ==
  /\ tcp_send = "select"
  /\ down_conn[p] = "queued"
  /\ tcp_send' = "sending"
  /\ down_conn' = [down_conn EXCEPT ![p] = "taken"]
  /\ UNCHANGED <<downward, up_vars, client_up, client_down, ended>>

SendDown(p) ==
  /\ tcp_send = "sending"
  /\ down_conn[p] = "taken"
  /\ recv_pc[p] # "done"
  /\ downward[p] < Capacity
  /\ downward' = [downward EXCEPT ![p] = @ + 1]
  /\ UNCHANGED <<tcp_send, down_conn, up_vars, client_up, client_down, ended>>

CloseDown ==
  /\ tcp_send' = "off"
  /\ down_conn' = [p \in DownPeers |-> "none"]
  /\ downward' = [p \in DownPeers |-> 0]
  /\ recv_pc' = Forget(recv_pc, DownPeers)
  /\ UNCHANGED <<up_vars, client_up, recv_kill>>

\* send() fails: the peer closed its end or vanished, which TCP finds out in time, or
\* the descriptor was lost to another thread.  A peer that closed in good order costs
\* a SIGPIPE instead.
SendFails(lost) ==
  /\ tcp_send = "sending"
  /\ \/ lost /\ UNCHANGED ended
     \/ \E p \in DownPeers : down_conn[p] = "taken" /\ recv_pc[p] = "done" /\ ended' \in BOOLEAN
  /\ CloseDown

\* Two seconds without a connection, or a port lost to another thread.
TimeoutDown(lost) ==
  /\ tcp_send = "select"
  /\ lost \/ \A p \in DownPeers : down_conn[p] # "queued"
  /\ CloseDown
  /\ UNCHANGED ended

--------------------------------------------------------------------------------
(* A client. *)

Connected(conn) == ~ended /\ conn # "none"

\* Where a client's thread is after it closed its end, and after its host vanished.
Closed(conn) == IF Connected(conn) THEN "done" ELSE "off"
Vanished(conn) == IF Connected(conn) THEN "gone" ELSE "off"

\* A thread's end.  What its flag holds then is overwritten by the next one.
SenderGone(p, how) ==
  send_pc' = [send_pc EXCEPT ![p] = how] /\ send_kill' = [send_kill EXCEPT ![p] = FALSE]
ReceiverGone(p, how) ==
  recv_pc' = [recv_pc EXCEPT ![p] = how] /\ recv_kill' = [recv_kill EXCEPT ![p] = FALSE]

\* setup_tcp_socket_send() tries until the port listens; then the thread starts, and
\* clears its flag: a stop that came before is forgotten.
ConnectUp(p) ==
  /\ tcp_recv # "off" /\ ~ended
  /\ send_pc[p] = "off" /\ up_conn[p] = "none"
  /\ up_conn' = [up_conn EXCEPT ![p] = "queued"]
  /\ send_pc' = [send_pc EXCEPT ![p] = "send"]
  /\ send_kill' = [send_kill EXCEPT ![p] = FALSE]
  /\ UNCHANGED <<tcp_recv, upward, reports, down_vars, client_down, ended>>

\* send() blocks while the connection is full, and fails unseen when there is none.
ClientSends(p) ==
  /\ send_pc[p] = "send"
  /\ send_pc' = [send_pc EXCEPT ![p] = "poll"]
  /\ IF Connected(up_conn[p])
     THEN upward[p] < Capacity /\ upward' = [upward EXCEPT ![p] = @ + 1]
     ELSE UNCHANGED upward
  /\ UNCHANGED <<tcp_recv, up_conn, reports, send_kill, down_vars, client_down, ended>>

\* Mutant of ReadsReport: reports wait until the packets have been taken.
ReadsReportLate(p) == reports[p] > 0 /\ upward[p] = 0

ReadsReport(p) == reports[p] > 0

\* After a packet it takes a report, if there is one, and looks at the flag.
ClientPolls(p) ==
  /\ send_pc[p] = "poll"
  /\ reports' = IF ReadsReport(p) THEN [reports EXCEPT ![p] = @ - 1] ELSE reports
  /\ IF send_kill[p] THEN SenderGone(p, Closed(up_conn[p]))
     ELSE send_pc' = [send_pc EXCEPT ![p] = "send"] /\ UNCHANGED send_kill
  /\ UNCHANGED <<tcp_recv, up_conn, upward, down_vars, client_down, ended>>

Sending == {"send", "poll"}

stop_tcp_send_thread(p) ==
  /\ send_pc[p] \in Sending
  /\ send_kill' = [send_kill EXCEPT ![p] = TRUE]
  /\ UNCHANGED <<send_pc, up_vars, down_vars, client_down, ended>>

\* The process ends, or its host can no longer be reached.
SenderLost(p) ==
  /\ send_pc[p] \in Sending
  /\ SenderGone(p, Closed(up_conn[p])) \/ SenderGone(p, Vanished(up_conn[p]))
  /\ UNCHANGED <<up_vars, down_vars, client_down, ended>>

ConnectDown(p) ==
  /\ tcp_send # "off" /\ ~ended
  /\ recv_pc[p] = "off" /\ down_conn[p] = "none"
  /\ down_conn' = [down_conn EXCEPT ![p] = "queued"]
  /\ recv_pc' = [recv_pc EXCEPT ![p] = "select"]
  /\ recv_kill' = [recv_kill EXCEPT ![p] = FALSE]
  /\ UNCHANGED <<tcp_send, downward, up_vars, client_up, ended>>

\* Mutant of ReceiverLeaves: the flag is not looked at.
LeavesIdle(p) == FALSE

ReceiverLeaves(p) == recv_kill[p]

ClientReceives(p) ==
  /\ recv_pc[p] = "select"
  /\ downward[p] > 0
  /\ downward' = [downward EXCEPT ![p] = @ - 1]
  /\ IF ReceiverLeaves(p) THEN ReceiverGone(p, Closed(down_conn[p])) ELSE UNCHANGED client_down
  /\ UNCHANGED <<tcp_send, down_conn, up_vars, client_up, ended>>

\* "TCP disconnected", or RECV_TIMEOUT_SEC without a packet.
ReceiverReturns(p) ==
  /\ recv_pc[p] = "select"
  /\ downward[p] = 0
  /\ ReceiverGone(p, Closed(down_conn[p]))
  /\ UNCHANGED <<down_vars, up_vars, client_up, ended>>

Receiving == {"select"}

stop_tcp_recv_thread(p) ==
  /\ recv_pc[p] \in Receiving
  /\ recv_kill' = [recv_kill EXCEPT ![p] = TRUE]
  /\ UNCHANGED <<recv_pc, down_vars, up_vars, client_up, ended>>

ReceiverLost(p) ==
  /\ recv_pc[p] \in Receiving
  /\ ReceiverGone(p, Closed(down_conn[p]))
  /\ UNCHANGED <<down_vars, up_vars, client_up, ended>>

\* What a client's thread does by itself.
ClientSender(p) == ClientSends(p) \/ ClientPolls(p)

ClientReceiver(p) == ClientReceives(p) \/ ReceiverReturns(p)

\* What the user and the network do.
UpPeerActs(p) == ConnectUp(p) \/ stop_tcp_send_thread(p) \/ SenderLost(p)
DownPeerActs(p) == ConnectDown(p) \/ stop_tcp_recv_thread(p) \/ ReceiverLost(p)

TcpClients ==
  \/ \E p \in UpPeers : ClientSender(p) \/ UpPeerActs(p)
  \/ \E p \in DownPeers : ClientReceiver(p) \/ DownPeerActs(p)

--------------------------------------------------------------------------------
(* Properties. *)

TcpTypeOK ==
  /\ tcp_recv \in {"off", "select", "report"} /\ tcp_send \in {"off", "select", "sending"}
  /\ up_conn \in [UpPeers -> {"none", "queued", "taken", "orphan", "stray"}]
  /\ upward \in [UpPeers -> 0 .. Capacity] /\ reports \in [UpPeers -> 0 .. Capacity]
  /\ send_pc \in [UpPeers -> Sending \cup {"off", "done", "gone"}]
  /\ down_conn \in [DownPeers -> {"none", "queued", "taken"}]
  /\ downward \in [DownPeers -> 0 .. Capacity]
  /\ recv_pc \in [DownPeers -> Receiving \cup {"off", "done"}]
  /\ send_kill \in [UpPeers -> BOOLEAN] /\ recv_kill \in [DownPeers -> BOOLEAN]
  /\ ended \in BOOLEAN

\* The server reports on the connection it receives from, and the client sends on
\* the one it gets reports from: however full both directions are, never does each
\* wait for the other to read.
NoStandoff ==
  \A p \in UpPeers :
    ~ /\ RecvS(p) /\ tcp_recv = "report" /\ reports[p] = Capacity
      /\ send_pc[p] = "send" /\ upward[p] = Capacity

\* Clients that were told to stop and run; but one that sends on a connection the
\* server has forgotten, which nobody will read, is stuck.
ToldToStop ==
  {p \in UpPeers : send_kill[p] /\ send_pc[p] \in Sending /\ up_conn[p] \notin {"orphan", "stray"}}
    \cup {p \in DownPeers : recv_kill[p] /\ recv_pc[p] \in Receiving}

\* "Breaks out ... select for loop and stops the thread": the threads of clients
\* that are told so return, whatever their connections hold.
ClientStops == ToldToStop # {} ~> ToldToStop = {}
================================================================================
