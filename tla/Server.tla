--------------------------------- MODULE Server ---------------------------------
(***************************************************************************)
(* The server's process from one session to the next: main() of server.c   *)
(* with the threads of both modes, SenderThreads and TcpMode, and the      *)
(* descriptors they open and close.                                        *)
(*                                                                         *)
(* mask, which select() watches for START packets, is filled once, with    *)
(* the numbers of the first two sockets.  Sessions close both and open new *)
(* ones: that these have the same numbers again is left to the kernel,     *)
(* which gives out the lowest that is free.                                *)
(*                                                                         *)
(* How a session is agreed upon is Handshake's, what the receiver does     *)
(* with UDP packets Receiver's: here it returns some time.                 *)
(***************************************************************************)
EXTENDS SenderThreads, TcpMode, FiniteSets, FiniteSetsExt

CONSTANTS
  MaxFd,    \* external: descriptors a process may have
  Junk      \* what recv_s may hold uninitialised

ASSUME ServerAssumption ==
  /\ MaxFd \in Nat \ 0 .. 4
  /\ Junk \subseteq Nat
  /\ IsFiniteSet(UpPeers)

VARIABLES
  fd,       \* the descriptor each holder has open, or ClosedFd
  lost      \* descriptors that are open and that nobody holds any more

server_vars == <<fd, lost>>
all_vars == <<vars, tcp_vars, server_vars>>

ClosedFd == MaxFd
Std == {"stdin", "stdout", "stderr"}
Logs == {"upload", "latency", "download"}
Sockets == {"server_send_sk", "server_recv_sk"}
\* "up" and "down" are recv_s of server_receive_bandwidth_tcp() and of
\* server_send_bandwidth_tcp().
Holders == Std \cup Logs \cup Sockets \cup {"s_data", "s_gen", "up", "down"}

mask == {3, 4}

ServerInit ==
  /\ Init
  /\ TcpInit
  /\ fd = [h \in Holders |->
             CASE h = "stdin" -> 0 [] h = "stdout" -> 1 [] h = "stderr" -> 2
               [] h = "server_send_sk" -> 3 [] h = "server_recv_sk" -> 4
               [] OTHER -> ClosedFd]
  /\ lost = {}

Free(f, taken) == {n \in 0 .. MaxFd - 1 : n \notin taken /\ \A h \in Holders : f[h] # n}

\* socket(), accept() and fopen() take the lowest number that is free.
Opened(f, taken, h) == [f EXCEPT ![h] = Min(Free(f, taken))]

\* The open ones of some descriptors.
Numbers(hs) == {fd[h] : h \in hs} \ {ClosedFd}

CloseAll(hs) ==
  /\ fd' = [h \in Holders |-> IF h \in hs THEN ClosedFd ELSE fd[h]]
  /\ UNCHANGED lost

\* A socket that cannot be opened ends the process; else step is taken.
OpenOrExit(h, step) ==
  IF Free(fd, lost) # {}
  THEN /\ step
       /\ fd' = Opened(fd, lost, h)
       /\ UNCHANGED <<tcp_vars, lost>>
  ELSE /\ ended' = TRUE
       /\ UNCHANGED <<vars, up_vars, down_vars, client_up, client_down, server_vars>>

\* sendFeedbackUpload(), sendFeedbackLatency() and sendFeedbackDownload(): the first
\* call opens the file, and tries again where it could not.
SendFeedback(log) ==
  /\ fd' = IF fd[log] = ClosedFd /\ Free(fd, lost) # {} THEN Opened(fd, lost, log) ELSE fd
  /\ UNCHANGED lost

--------------------------------------------------------------------------------
(* The main thread. *)

Listening == {fd["server_send_sk"], fd["server_recv_sk"]} = mask

\* Bound: the clients of a session over TCP return before the next session, and a
\* session over TCP finds descriptors for all that may connect.
ClientsReturned ==
  (\A p \in UpPeers : send_pc[p] = "off") /\ (\A p \in DownPeers : recv_pc[p] = "off")
EnoughLeft == Cardinality(Free(fd, lost)) > Cardinality(UpPeers)

StartUdp ==
  /\ Listening /\ ClientsReturned
  /\ StartSender
  /\ UNCHANGED <<tcp_vars, server_vars>>

\* Both UDP sockets are closed, then both ports opened, the receiver's first.  While
\* tcp_recv is not "off" main() is in server_receive_bandwidth_tcp(), and joins next.
StartTcp ==
  /\ main = "accept"
  /\ Listening /\ ClientsReturned /\ EnoughLeft
  /\ main' = "joining"
  /\ LET closed == [fd EXCEPT !["server_send_sk"] = ClosedFd, !["server_recv_sk"] = ClosedFd]
     IN  fd' = Opened(Opened(closed, lost, "server_recv_sk"), lost, "server_send_sk")
  /\ ServeTcp
  /\ UNCHANGED <<control_vars, generator_vars, data_queue, gen_queue, lost>>

\* receive_bandwidth() prints out now and then, and returns some time.
ReceiverPrints ==
  /\ main = "serving" /\ fd["server_recv_sk"] # ClosedFd
  /\ SendFeedback("download")
  /\ UNCHANGED <<vars, tcp_vars>>

ReceiverCloses ==
  /\ main = "serving" /\ fd["server_recv_sk"] # ClosedFd
  /\ CloseAll({"server_recv_sk"})
  /\ UNCHANGED <<vars, tcp_vars>>

StopSender ==
  /\ \/ fd["server_recv_sk"] = ClosedFd /\ stop_controller_thread
     \/ stop_data_generator_thread
  /\ UNCHANGED <<tcp_vars, server_vars>>

\* Mutant of clear_file_pointers: it is not called.
KeepPointers == fd

\* "Sets all static FILE pointers to NULL": the files stay open.
clear_file_pointers == [h \in Holders |-> IF h \in Logs THEN ClosedFd ELSE fd[h]]

\* "re-open socket that was closed by controller process".  There is room: the session
\* gives back the numbers of two at least.
Reopen ==
  LET f == [h \in Holders |-> IF h \in Sockets THEN ClosedFd ELSE clear_file_pointers[h]]
      l == lost \cup Numbers({h \in Holders : f[h] = ClosedFd})
  IN  /\ fd' = Opened(Opened(f, l, "server_send_sk"), l, "server_recv_sk")
      /\ lost' = l
      /\ UNCHANGED tcp_vars

JoinAndReopen ==
  /\ tcp_recv = "off" /\ tcp_send = "off"
  /\ JoinSender
  /\ Reopen

\* server_receive_bandwidth_tcp()
ReceiveTcp ==
  /\ \/ \E p \in UpPeers :
          \/ /\ AcceptUp(p)
             /\ lost' = lost \cup Numbers({"up"})
             /\ fd' = Opened([fd EXCEPT !["up"] = ClosedFd], lost', "up")
          \/ (ReceiveUp(p) \/ ReportUp(p)) /\ UNCHANGED server_vars
          \/ DisconnectedUp(p) /\ CloseAll({"up", "server_recv_sk"})
     \/ TimeoutUp /\ ~NoRecvS /\ CloseAll({"up", "server_recv_sk"})
     \/ /\ TimeoutUp /\ NoRecvS
        /\ \E junk \in Junk :
             /\ fd' = [h \in Holders |-> IF h = "server_recv_sk" \/ fd[h] = junk THEN ClosedFd ELSE fd[h]]
             /\ lost' = lost \ {junk}
  /\ UNCHANGED vars

--------------------------------------------------------------------------------
(* The other threads. *)

\* The controller thread; where it tells a new speed it also prints it.
ControlThread ==
  \/ /\ send_bandwidth \/ AskGenerator \/ AskAgain \/ Connect \/ JoinGenerator
     /\ UNCHANGED <<tcp_vars, server_vars>>
  \/ ctl = "start" /\ OpenOrExit("s_data", start_controller)
  \/ /\ ControlIterates
     /\ UNCHANGED server_vars \/ \E log \in {"upload", "latency"} : SendFeedback(log)
     /\ UNCHANGED tcp_vars
  \/ ControlTellsSpeed /\ SendFeedback("upload") /\ UNCHANGED tcp_vars
  \/ ControlStops /\ CloseAll({"s_data", "server_send_sk"}) /\ UNCHANGED tcp_vars

DataThread ==
  \/ gen = "created" /\ OpenOrExit("s_gen", start_generator)
  \/ /\ GeneratorLoops
     /\ IF GeneratorLeaves THEN CloseAll({"s_gen"}) ELSE UNCHANGED server_vars
     /\ UNCHANGED tcp_vars
  \/ /\ GeneratorReceives \/ GeneratorReplies \/ GeneratorWakes \/ GeneratorSends
     /\ UNCHANGED <<tcp_vars, server_vars>>

\* server_send_bandwidth_tcp()
TcpSendThread ==
  /\ \/ \E p \in DownPeers :
          \/ /\ fd["server_send_sk"] # ClosedFd
             /\ AcceptDown(p)
             /\ fd' = Opened(fd, lost, "down") /\ UNCHANGED lost
          \/ fd["down"] # ClosedFd /\ SendDown(p) /\ UNCHANGED server_vars
     \/ SendFails(fd["down"] = ClosedFd) /\ CloseAll({"down", "server_send_sk"})
     \/ TimeoutDown(fd["server_send_sk"] = ClosedFd) /\ CloseAll({"server_send_sk"})
  /\ UNCHANGED vars

Running == ~ended /\ ctl # "exited"

MainThread == StartUdp \/ StartTcp \/ ReceiverPrints \/ ReceiverCloses \/ StopSender \/ JoinAndReopen \/ ReceiveTcp

ServerNext ==
  \/ Running /\ (MainThread \/ ControlThread \/ DataThread \/ TcpSendThread)
  \/ TcpClients /\ UNCHANGED <<vars, server_vars>>

ServerSpec == ServerInit /\ [][ServerNext]_all_vars

\* Threads that can run do; sessions begin, and their receiver returns, when they
\* like.  A session has a controller or server_send_bandwidth_tcp(), never both.
ServerFairSpec ==
  /\ ServerSpec
  /\ WF_all_vars(Running /\ (ControlThread \/ TcpSendThread))
  /\ WF_all_vars(Running /\ DataThread)
  /\ WF_all_vars(Running /\ ((main = "stopping" /\ StopSender) \/ JoinAndReopen \/ ReceiveTcp))
  /\ \A p \in UpPeers : WF_all_vars(ClientSender(p) /\ UNCHANGED <<vars, server_vars>>)
  /\ \A p \in DownPeers : WF_all_vars(ClientReceiver(p) /\ UNCHANGED <<vars, server_vars>>)

--------------------------------------------------------------------------------
(* Properties. *)

ServerTypeOK ==
  /\ TypeOK /\ TcpTypeOK
  /\ fd \in [Holders -> 0 .. ClosedFd]
  /\ lost \subseteq 0 .. MaxFd - 1
  /\ \A g, h \in Holders : fd[g] = fd[h] => g = h \/ fd[g] = ClosedFd

\* A session leaves open only what the code forgets: when the server accepts again
\* no thread of it runs, its logs are the only descriptors it left open just now, and
\* only the two new sockets are held.  While it runs it gives up no descriptor but
\* recv_s, where that is overwritten: whatever order the threads stopped in, none of
\* the sockets they share is forgotten.
NothingLeft ==
  [][/\ lost' \ lost \subseteq Numbers(Logs \cup {"up"})
     /\ main # "accept" /\ main' = "accept" =>
          /\ gen = "done" /\ tcp_send = "off"
          /\ lost' \ lost \subseteq Numbers(Logs)
          /\ Numbers(Holders \ (Std \cup Sockets))' = {}]_all_vars

\* "accepting new connection": after a session main() watches its two sockets.
AcceptsAgain == main = "accept" => Listening

\* It does unless another thread opened a log in the place of a socket, a connection
\* in such a place was overwritten, or recv_s was uninitialised and closed one of
\* standard input and output.
AcceptsUnlessTaken ==
  main = "accept" /\ lost \cap mask = {} /\ Numbers(Std) = {0, 1, 2} => Listening

\* A session ends once nobody takes part in it, and the server accepts the next one:
\* if control() was running when it was stopped, and unless a connection that
\* recv_s no longer names keeps select() from timing out.
ClientsGone ==
  (\A p \in UpPeers : send_pc[p] \notin Sending) /\ (\A p \in DownPeers : recv_pc[p] \notin Receiving)
ControlStopped == main = "stopping" /\ kill_thread /\ ctl \in {"control", "send_control"}

SessionEnds ==
  (ControlStopped \/ (main = "joining" /\ ctl = "done")) /\ ClientsGone
    ~> main = "accept" \/ ~ClientsGone \/ Orphans # {} \/ ~Running
================================================================================
