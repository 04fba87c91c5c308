------------------------------ MODULE ServerProofs ------------------------------
(***************************************************************************)
(* What holds of the server's process for every number of peers and of     *)
(* descriptors, and every size of queues and connections.                  *)
(***************************************************************************)
EXTENDS ThreadsProofs, FiniteSetTheorems, WellFoundedInduction

USE DEF vars, control_vars, generator_vars, tcp_vars, up_vars, down_vars,
        client_up, client_down, server_vars, all_vars

--------------------------------------------------------------------------------
(* Reports and packets of a connection. *)

\* Packets, reports, and the report that is about to be sent: each report costs a
\* packet, and the client reads one before it sends the next packet.
Load(p) == upward[p] + reports[p] + (IF RecvS(p) /\ tcp_recv = "report" THEN 1 ELSE 0)

UpType ==
  /\ tcp_recv \in {"off", "select", "report"}
  /\ up_conn \in [UpPeers -> {"none", "queued", "taken", "orphan", "stray"}]
  /\ upward \in [UpPeers -> 0 .. Capacity] /\ reports \in [UpPeers -> 0 .. Capacity]
  /\ send_pc \in [UpPeers -> Sending \cup {"off", "done", "gone"}]

UpInv ==
  /\ UpType
  /\ \A p, q \in UpPeers : RecvS(p) /\ RecvS(q) => p = q
  /\ \A p \in UpPeers :
       /\ up_conn[p] = "none" => upward[p] = 0 /\ reports[p] = 0
       /\ send_pc[p] = "send" => Load(p) <= Capacity + 1
       /\ send_pc[p] = "poll" => Load(p) <= Capacity + 2

LEMMA UpInit == TcpInit => UpInv
BY TcpAssumption DEF TcpInit, UpInv, UpType, Load, RecvS, Sending

LEMMA UpInvNoStandoff == UpInv => NoStandoff
BY TcpAssumption DEF UpInv, UpType, NoStandoff, Load

\* What the server does with the connections.
LEMMA ServerUp ==
  ASSUME UpInv,
         \/ ServeTcp \/ TimeoutUp
         \/ \E p \in UpPeers : AcceptUp(p) \/ ReceiveUp(p) \/ ReportUp(p) \/ DisconnectedUp(p)
  PROVE  UpInv'
<1> USE TcpAssumption DEF UpInv, UpType, Load, RecvS, Sending
<1>1. CASE ServeTcp
  BY <1>1 DEF ServeTcp
<1>2. ASSUME CloseUp PROVE UpInv'
  <2>1. send_pc' \in [UpPeers -> Sending \cup {"off", "done", "gone"}]
    BY <1>2 DEF CloseUp, Forget
  <2>2. \A p \in UpPeers : send_pc'[p] \in Sending => send_pc[p] = send_pc'[p]
    BY <1>2 DEF CloseUp, Forget
  <2> QED BY <1>2, <2>1, <2>2 DEF CloseUp, Orphans
<1>3. CASE TimeoutUp
  BY <1>2, <1>3 DEF TimeoutUp
<1>4. ASSUME NEW p \in UpPeers, AcceptUp(p) PROVE UpInv'
  BY <1>4 DEF AcceptUp, QueuedUp
<1>5. ASSUME NEW p \in UpPeers, ReceiveUp(p) PROVE UpInv'
  BY <1>5 DEF ReceiveUp
<1>6. ASSUME NEW p \in UpPeers, ReportUp(p) PROVE UpInv'
  BY <1>6 DEF ReportUp
<1>7. ASSUME NEW p \in UpPeers, DisconnectedUp(p) PROVE UpInv'
  BY <1>2, <1>7 DEF DisconnectedUp
<1> QED BY <1>1, <1>3, <1>4, <1>5, <1>6, <1>7

\* What clients do.
LEMMA ClientsUp ==
  ASSUME UpInv, TcpClients
  PROVE  UpInv'
<1> USE TcpAssumption DEF UpInv, UpType, Load, RecvS, Sending, TcpClients
<1>1. ASSUME NEW p \in UpPeers, ClientSends(p) PROVE UpInv'
  BY <1>1 DEF ClientSends, Connected
<1>2. ASSUME NEW p \in UpPeers, ClientPolls(p) PROVE UpInv'
  BY <1>2 DEF ClientPolls, ReadsReport, SenderGone, Closed
<1>3. ASSUME NEW p \in UpPeers, ConnectUp(p) PROVE UpInv'
  BY <1>3 DEF ConnectUp
<1>4. ASSUME NEW p \in UpPeers, stop_tcp_send_thread(p) \/ SenderLost(p) PROVE UpInv'
  BY <1>4 DEF stop_tcp_send_thread, SenderLost, SenderGone, Closed, Vanished
<1>5. ASSUME NEW p \in DownPeers, ClientReceiver(p) \/ DownPeerActs(p) PROVE UpInv'
  BY <1>5 DEF ClientReceiver, ClientReceives, ReceiverReturns, DownPeerActs, ConnectDown,
       stop_tcp_recv_thread, ReceiverLost
<1> QED BY <1>1, <1>2, <1>3, <1>4, <1>5 DEF ClientSender, UpPeerActs

\* Everything else leaves the connections of the receiver alone.
LEMMA OthersUp ==
  ASSUME UpInv, StartUdp \/ ReceiverPrints \/ ReceiverCloses \/ StopSender \/ JoinAndReopen
                \/ ControlThread \/ DataThread \/ TcpSendThread
  PROVE  UpInv'
<1>1. ASSUME UNCHANGED <<up_vars, send_pc>> PROVE UpInv'
  BY <1>1 DEF UpInv, UpType, Load, RecvS
<1>2. CASE StartUdp \/ ReceiverPrints \/ ReceiverCloses \/ StopSender \/ JoinAndReopen
  BY <1>1, <1>2 DEF StartUdp, ReceiverPrints, ReceiverCloses, StopSender, JoinAndReopen, Reopen
<1>3. CASE ControlThread \/ DataThread
  BY <1>1, <1>3 DEF ControlThread, DataThread, OpenOrExit
<1>4. CASE TcpSendThread
  BY <1>1, <1>4 DEF TcpSendThread, AcceptDown, SendDown, SendFails, TimeoutDown, CloseDown
<1> QED BY <1>2, <1>3, <1>4

LEMMA UpNext == UpInv /\ [ServerNext]_all_vars => UpInv'
<1> SUFFICES ASSUME UpInv, [ServerNext]_all_vars PROVE UpInv'
  OBVIOUS
<1>1. CASE StartTcp
  BY <1>1, ServerUp DEF StartTcp
<1>2. CASE ReceiveTcp
  BY <1>2, ServerUp DEF ReceiveTcp
<1>3. CASE TcpClients
  BY <1>3, ClientsUp
<1>4. CASE UNCHANGED all_vars
  BY <1>4 DEF UpInv, UpType, Load, RecvS
<1> QED BY <1>1, <1>2, <1>3, <1>4, OthersUp DEF ServerNext, MainThread

\* The server and a client that sends to it never each wait for the other to read,
\* whatever a connection holds and however many clients there are.
THEOREM NeverInStandoff == ServerSpec => []NoStandoff
<1>1. ServerInit => UpInv
  BY UpInit DEF ServerInit
<1>2. UpInv /\ [ServerNext]_all_vars => UpInv'
  BY UpNext
<1>3. UpInv => NoStandoff
  BY UpInvNoStandoff
<1> QED BY <1>1, <1>2, <1>3, PTL DEF ServerSpec

--------------------------------------------------------------------------------
(* Descriptors and threads. *)

Open(h) == fd[h] # ClosedFd

\* Who may have a descriptor open, by where the threads are.
LeftInv ==
  /\ DOMAIN fd = Holders /\ DOMAIN up_conn = UpPeers
  /\ main \in {"accept", "serving", "stopping", "joining"}
  /\ Open("s_data") => ctl \in {"ask", "await", "control", "send_control", "exited"}
  /\ Open("s_gen") => gen \in {"top", "select", "reply", "send"}
  /\ Open("up") => tcp_recv # "off" /\ ~NoRecvS
  /\ Open("down") => tcp_send = "sending"
  /\ Open("server_recv_sk") => main \in {"accept", "serving"} \/ tcp_recv # "off"
  /\ Open("server_send_sk") => main = "accept" \/ ctl \notin {"join", "done"} \/ tcp_send # "off"
  /\ ctl \in {"created", "done"} => gen = "done"
  /\ main = "accept" => ctl = "done" /\ \A h \in Logs : ~Open(h)
  /\ (tcp_recv # "off" \/ tcp_send # "off") => main = "joining" /\ ctl = "done"

LEMMA OpenedOthers ==
  ASSUME NEW f, DOMAIN f = Holders, NEW taken, NEW h \in Holders
  PROVE  /\ DOMAIN Opened(f, taken, h) = Holders
         /\ Opened(f, taken, h)[h] = Min(Free(f, taken))
         /\ \A g \in Holders \ {h} : Opened(f, taken, h)[g] = f[g]
BY DEF Opened

LEMMA AllHolders ==
  /\ {"stdin", "stdout", "stderr", "upload", "latency", "download", "server_send_sk",
      "server_recv_sk", "s_data", "s_gen", "up", "down"} = Holders
  /\ Logs = {"upload", "latency", "download"}
BY DEF Holders, Std, Logs, Sockets

LEMMA LeftInit == ServerInit => LeftInv
<1> SUFFICES ASSUME ServerInit PROVE LeftInv
  OBVIOUS
<1>1. DOMAIN fd = Holders /\ \A h \in {"s_data", "s_gen", "up", "down"} \cup Logs : fd[h] = ClosedFd
  <2>1. fd = [h \in Holders |-> IF h = "stdin" THEN 0 ELSE IF h = "stdout" THEN 1 ELSE IF h = "stderr" THEN 2
                ELSE IF h = "server_send_sk" THEN 3 ELSE IF h = "server_recv_sk" THEN 4 ELSE ClosedFd]
    BY Zenon DEF ServerInit
  <2> QED BY <2>1, AllHolders
<1> QED BY <1>1 DEF ServerInit, Init, TcpInit, LeftInv, Open

LEMMA LeftMain ==
  ASSUME LeftInv, MainThread
  PROVE  LeftInv'
<1> USE AllHolders DEF LeftInv, Open
<1>1. CASE StartUdp
  BY <1>1 DEF StartUdp, StartSender, NoRecvS, RecvS
<1>2. CASE StartTcp
  <2> DEFINE closed == [fd EXCEPT !["server_send_sk"] = ClosedFd, !["server_recv_sk"] = ClosedFd]
             first == Opened(closed, lost, "server_recv_sk")
  <2>1. DOMAIN closed = Holders /\ \A h \in Holders \ Sockets : closed[h] = fd[h]
    BY DEF Sockets
  <2>2. fd' = Opened(first, lost, "server_send_sk")
    BY <1>2 DEF StartTcp
  <2> HIDE DEF closed
  <2>3. DOMAIN first = Holders /\ \A h \in Holders \ Sockets : first[h] = closed[h]
    BY <2>1, OpenedOthers DEF Sockets
  <2> HIDE DEF first
  <2>4. DOMAIN fd' = Holders /\ \A h \in Holders \ Sockets : fd'[h] = first[h]
    BY <2>2, <2>3, OpenedOthers DEF Sockets
  <2>5. \A h \in Holders \ Sockets : fd'[h] = fd[h]
    BY <2>1, <2>3, <2>4
  <2> QED BY <1>2, <2>4, <2>5 DEF StartTcp, ServeTcp, NoRecvS, RecvS, Sockets
<1>3. CASE ReceiverPrints
  <2>1. DOMAIN fd' = Holders /\ \A h \in Holders \ {"download"} : fd'[h] = fd[h]
    BY <1>3, OpenedOthers DEF ReceiverPrints, SendFeedback
  <2> QED BY <1>3, <2>1 DEF ReceiverPrints, NoRecvS, RecvS
<1>4. CASE ReceiverCloses
  BY <1>4 DEF ReceiverCloses, CloseAll, NoRecvS, RecvS
<1>5. CASE StopSender
  BY <1>5 DEF StopSender, stop_controller_thread, stop_data_generator_thread, NoRecvS, RecvS
<1>6. CASE JoinAndReopen
  <2>1. /\ DOMAIN fd' = Holders
        /\ \A h \in Logs : fd'[h] = ClosedFd
        /\ \A h \in {"s_data", "s_gen", "up", "down"} : fd'[h] = fd[h]
    BY <1>6, OpenedOthers DEF JoinAndReopen, Reopen, clear_file_pointers, Sockets
  <2> QED BY <1>6, <2>1 DEF JoinAndReopen, JoinSender, Reopen, NoRecvS, RecvS
<1>7. CASE ReceiveTcp
  <2>1. main' = main /\ ctl' = ctl /\ gen' = gen
    BY <1>7 DEF ReceiveTcp
  <2>2. ASSUME NEW p \in UpPeers, AcceptUp(p), fd' = Opened([fd EXCEPT !["up"] = ClosedFd], lost', "up")
        PROVE  LeftInv'
    <3>1. DOMAIN fd' = Holders /\ \A h \in Holders \ {"up"} : fd'[h] = fd[h]
      <4> DEFINE f == [fd EXCEPT !["up"] = ClosedFd]
      <4>1. DOMAIN f = Holders /\ \A h \in Holders \ {"up"} : f[h] = fd[h]
        OBVIOUS
      <4>2. fd' = Opened(f, lost', "up")
        BY <2>2
      <4> HIDE DEF f
      <4> QED BY <4>1, <4>2, OpenedOthers
    <3> QED BY <2>1, <2>2, <3>1 DEF AcceptUp, NoRecvS, RecvS
  <2>3. ASSUME NEW p \in UpPeers, ReceiveUp(p) \/ ReportUp(p), UNCHANGED server_vars PROVE LeftInv'
    BY <2>1, <2>3 DEF ReceiveUp, ReportUp, NoRecvS, RecvS
  <2>4. ASSUME CloseUp, tcp_recv # "off", DOMAIN fd' = Holders,
               \A h \in Holders : fd'[h] = fd[h] \/ fd'[h] = ClosedFd,
               ~Open("up")', ~Open("server_recv_sk")'
        PROVE  LeftInv'
    BY <2>1, <2>4 DEF CloseUp, ClosedFd
  <2>5. ASSUME NEW p \in UpPeers, DisconnectedUp(p), CloseAll({"up", "server_recv_sk"}) PROVE LeftInv'
    BY <2>4, <2>5 DEF DisconnectedUp, CloseAll, ClosedFd
  <2>6. CASE TimeoutUp /\ ~NoRecvS /\ CloseAll({"up", "server_recv_sk"})
    BY <2>4, <2>6 DEF TimeoutUp, CloseAll, ClosedFd
  <2>7. ASSUME NEW junk \in Junk, TimeoutUp, NoRecvS,
               fd' = [h \in Holders |-> IF h = "server_recv_sk" \/ fd[h] = junk THEN ClosedFd ELSE fd[h]]
        PROVE  LeftInv'
    BY <2>4, <2>7 DEF TimeoutUp, ClosedFd
  <2> QED BY <1>7, <2>2, <2>3, <2>5, <2>6, <2>7 DEF ReceiveTcp
<1> QED BY <1>1, <1>2, <1>3, <1>4, <1>5, <1>6, <1>7 DEF MainThread

LEMMA LeftThreads ==
  ASSUME LeftInv, ControlThread \/ DataThread \/ TcpSendThread
  PROVE  LeftInv'
<1> USE AllHolders DEF LeftInv, Open, NoRecvS, RecvS
<1>1. ASSUME NEW log \in Logs, SendFeedback(log)
      PROVE  DOMAIN fd' = Holders /\ \A h \in Holders \ Logs : fd'[h] = fd[h]
  BY <1>1, OpenedOthers DEF SendFeedback
<1>2. CASE ControlThread
  <2>1. CASE (send_bandwidth \/ AskGenerator \/ AskAgain \/ Connect \/ JoinGenerator) /\ UNCHANGED <<tcp_vars, server_vars>>
    BY <2>1 DEF send_bandwidth, AskGenerator, AskAgain, Connect, JoinGenerator
  <2>2. CASE ctl = "start" /\ OpenOrExit("s_data", start_controller)
    <3>1. DOMAIN fd' = Holders /\ \A h \in Holders \ {"s_data"} : fd'[h] = fd[h]
      BY <2>2, OpenedOthers DEF OpenOrExit
    <3> QED BY <2>2, <3>1 DEF OpenOrExit, start_controller
  <2>3. CASE ControlIterates /\ UNCHANGED <<tcp_vars, server_vars>>
    BY <2>3 DEF ControlIterates
  <2>4. ASSUME NEW log \in Logs, ControlIterates \/ ControlTellsSpeed, SendFeedback(log), UNCHANGED tcp_vars
        PROVE  LeftInv'
    <3>1. DOMAIN fd' = Holders /\ \A h \in Holders \ Logs : fd'[h] = fd[h]
      BY <1>1, <2>4
    <3> QED BY <2>4, <3>1 DEF ControlIterates, ControlTellsSpeed
  <2>5. CASE ControlStops /\ CloseAll({"s_data", "server_send_sk"}) /\ UNCHANGED tcp_vars
    BY <2>5 DEF ControlStops, CloseAll
  <2> QED BY <1>2, <2>1, <2>2, <2>3, <2>4, <2>5 DEF ControlThread
<1>3. CASE DataThread
  <2>1. CASE gen = "created" /\ OpenOrExit("s_gen", start_generator)
    <3>1. DOMAIN fd' = Holders /\ \A h \in Holders \ {"s_gen"} : fd'[h] = fd[h]
      BY <2>1, OpenedOthers DEF OpenOrExit
    <3> QED BY <2>1, <3>1 DEF OpenOrExit, start_generator
  <2>2. CASE GeneratorLoops /\ GeneratorLeaves /\ CloseAll({"s_gen"}) /\ UNCHANGED tcp_vars
    BY <2>2 DEF GeneratorLoops, CloseAll
  <2>3. CASE GeneratorLoops /\ ~GeneratorLeaves /\ UNCHANGED <<tcp_vars, server_vars>>
    BY <2>3 DEF GeneratorLoops
  <2>4. CASE (GeneratorReceives \/ GeneratorReplies \/ GeneratorWakes \/ GeneratorSends) /\ UNCHANGED <<tcp_vars, server_vars>>
    BY <2>4 DEF GeneratorReceives, GeneratorReplies, GeneratorWakes, GeneratorSends
  <2> QED BY <1>3, <2>1, <2>2, <2>3, <2>4 DEF DataThread
<1>4. CASE TcpSendThread
  <2>1. ASSUME NEW p \in DownPeers, AcceptDown(p), fd' = Opened(fd, lost, "down"), UNCHANGED vars PROVE LeftInv'
    <3>1. DOMAIN fd' = Holders /\ \A h \in Holders \ {"down"} : fd'[h] = fd[h]
      BY <2>1, OpenedOthers
    <3> QED BY <2>1, <3>1 DEF AcceptDown
  <2>2. ASSUME NEW p \in DownPeers, SendDown(p), UNCHANGED <<server_vars, vars>> PROVE LeftInv'
    BY <2>2 DEF SendDown
  <2>3. ASSUME NEW l, SendFails(l), CloseAll({"down", "server_send_sk"}), UNCHANGED vars PROVE LeftInv'
    BY <2>3 DEF SendFails, CloseDown, CloseAll
  <2>4. ASSUME NEW l, TimeoutDown(l), CloseAll({"server_send_sk"}), UNCHANGED vars PROVE LeftInv'
    BY <2>4 DEF TimeoutDown, CloseDown, CloseAll
  <2> QED BY <1>4, <2>1, <2>2, <2>3, <2>4 DEF TcpSendThread
<1> QED BY <1>2, <1>3, <1>4

\* Clients touch no descriptor of the server, and no connection it has taken.
LEMMA LeftClients ==
  ASSUME LeftInv, TcpClients, UNCHANGED <<vars, server_vars>>
  PROVE  LeftInv'
<1>1. /\ tcp_recv' = tcp_recv /\ tcp_send' = tcp_send /\ DOMAIN up_conn' = UpPeers
      /\ \A p \in UpPeers : RecvS(p) => RecvS(p)'
  <2> USE DEF RecvS
  <2>1. ASSUME NEW p \in UpPeers, ClientSender(p) PROVE UNCHANGED <<tcp_recv, tcp_send, up_conn>>
    BY <2>1 DEF ClientSender, ClientSends, ClientPolls
  <2>2. ASSUME NEW p \in UpPeers, UpPeerActs(p)
        PROVE  /\ UNCHANGED <<tcp_recv, tcp_send>> /\ DOMAIN up_conn' = UpPeers
               /\ \A q \in UpPeers : RecvS(q) => RecvS(q)'
    BY <2>2 DEF LeftInv, UpPeerActs, ConnectUp, stop_tcp_send_thread, SenderLost
  <2>3. ASSUME NEW p \in DownPeers, ClientReceiver(p) \/ DownPeerActs(p)
        PROVE  UNCHANGED <<tcp_recv, tcp_send, up_conn>>
    BY <2>3 DEF ClientReceiver, ClientReceives, ReceiverReturns, DownPeerActs, ConnectDown,
         stop_tcp_recv_thread, ReceiverLost
  <2> QED BY <2>1, <2>2, <2>3 DEF TcpClients, LeftInv
<1> QED BY <1>1 DEF LeftInv, Open, NoRecvS, ClosedFd

LEMMA LeftNext == LeftInv /\ [ServerNext]_all_vars => LeftInv'
<1>1. ASSUME LeftInv, UNCHANGED all_vars PROVE LeftInv'
  BY <1>1 DEF LeftInv, Open, NoRecvS, RecvS, ClosedFd
<1> QED BY <1>1, LeftMain, LeftThreads, LeftClients DEF ServerNext

\* Only an overwritten connection, and the logs at a session's end, are forgotten.
LEMMA Forgotten ==
  ASSUME LeftInv, ServerNext, ~JoinAndReopen
  PROVE  lost' \ lost \subseteq Numbers({"up"}) /\ (main' = "accept" => main = "accept")
<1>1. CASE MainThread
  BY <1>1 DEF MainThread, StartUdp, StartSender, StartTcp, ReceiverPrints, ReceiverCloses, StopSender,
     stop_controller_thread, stop_data_generator_thread, ReceiveTcp, SendFeedback, CloseAll
<1>2. CASE ControlThread
  BY <1>2 DEF ControlThread, OpenOrExit, SendFeedback, CloseAll, send_bandwidth, start_controller, AskGenerator,
     AskAgain, Connect, ControlIterates, ControlTellsSpeed, ControlStops, JoinGenerator
<1>3. CASE DataThread
  BY <1>3 DEF DataThread, OpenOrExit, CloseAll, start_generator, GeneratorLoops, GeneratorReceives,
     GeneratorReplies, GeneratorWakes, GeneratorSends
<1>4. CASE TcpSendThread
  BY <1>4 DEF TcpSendThread, CloseAll
<1> QED BY <1>1, <1>2, <1>3, <1>4 DEF ServerNext

\* At the end of a session nothing but the logs is open; they are forgotten.
LEMMA LogsForgotten ==
  ASSUME LeftInv, JoinAndReopen
  PROVE  /\ gen = "done" /\ tcp_send = "off"
         /\ lost' \ lost \subseteq Numbers(Logs)
         /\ Numbers(Holders \ (Std \cup Sockets))' = {}
<1> USE AllHolders DEF LeftInv, Open
<1>1. /\ main = "joining" /\ ctl = "done" /\ gen = "done" /\ tcp_recv = "off" /\ tcp_send = "off"
      /\ main' = "accept"
  BY DEF JoinAndReopen, JoinSender
<1>2. \A h \in Holders \ (Std \cup Logs) : fd[h] = ClosedFd
  BY <1>1 DEF Std
<1>3. lost' \ lost \subseteq Numbers({h \in Holders : h \in Sockets \cup Logs \/ fd[h] = ClosedFd})
  BY DEF JoinAndReopen, Reopen, clear_file_pointers
<1>4. lost' \ lost \subseteq Numbers(Logs)
  <2>1. \A h \in Holders : (h \in Sockets \cup Logs \/ fd[h] = ClosedFd) /\ fd[h] # ClosedFd => h \in Logs
    BY <1>2 DEF Std, Sockets
  <2> QED BY <1>3, <2>1 DEF Numbers
<1>5. LeftInv'
  BY LeftMain DEF MainThread
<1>6. \A h \in Holders \ (Std \cup Sockets) : fd'[h] = ClosedFd
  BY <1>1, <1>5 DEF Std, Sockets, ClosedFd, JoinAndReopen, Reopen, JoinSender
<1>7. Numbers(Holders \ (Std \cup Sockets))' = {}
  BY <1>6 DEF Numbers, ClosedFd
<1> QED BY <1>1, <1>4, <1>7

\* A session that is over has no thread left, holds nothing but the sockets main()
\* opened anew, and has left open only its logs and connections whose recv_s was
\* overwritten: whatever the order in which its threads ended.
THEOREM NothingIsLeft == ServerSpec => NothingLeft
<1>1. ServerInit => LeftInv
  BY LeftInit
<1>2. LeftInv /\ [ServerNext]_all_vars => LeftInv'
  BY LeftNext
<1> DEFINE Left ==
      /\ lost' \ lost \subseteq Numbers(Logs \cup {"up"})
      /\ main # "accept" /\ main' = "accept" =>
           /\ gen = "done" /\ tcp_send = "off"
           /\ lost' \ lost \subseteq Numbers(Logs)
           /\ Numbers(Holders \ (Std \cup Sockets))' = {}
<1>3. LeftInv /\ [ServerNext]_all_vars => [Left]_all_vars
  <2> SUFFICES ASSUME LeftInv, ServerNext PROVE Left
    OBVIOUS
  <2>1. \A hs \in {Logs, {"up"}} : Numbers(hs) \subseteq Numbers(Logs \cup {"up"})
    BY DEF Numbers
  <2>2. CASE JoinAndReopen
    BY <2>1, <2>2, LogsForgotten
  <2>3. CASE ~JoinAndReopen
    BY <2>1, <2>3, Forgotten
  <2> QED BY <2>2, <2>3
<1> QED BY <1>1, <1>2, <1>3, PTL DEF ServerSpec, NothingLeft

LEMMA MinIs ==
  ASSUME NEW S, S \subseteq Nat, NEW n \in S, \A m \in 0 .. n - 1 : m \notin S
  PROVE  Min(S) = n
<1>1. \A m \in S : n <= m
  OBVIOUS
<1>2. \A k \in S : (\A m \in S : k <= m) => k = n
  BY <1>1
<1> QED BY <1>1, <1>2 DEF Min

\* The numbers that the kernel gives to the two sockets of the next session.
LEMMA Reopened ==
  ASSUME LeftInv, JoinAndReopen, lost' \cap mask = {}, Numbers(Std)' = {0, 1, 2}
  PROVE  Listening'
<1> USE AllHolders, ServerAssumption
<1> DEFINE f == [h \in Holders |-> IF h \in Sockets THEN ClosedFd ELSE clear_file_pointers[h]]
           g == Opened(f, lost', "server_send_sk")
<1>0. \A k, t : Free(k, t) \subseteq Nat
  BY DEF Free
<1>1. fd' = Opened(g, lost', "server_recv_sk")
  BY DEF JoinAndReopen, Reopen
<1>2. DOMAIN f = Holders /\ \A h \in Holders \ Std : f[h] = ClosedFd
  BY DEF JoinAndReopen, JoinSender, LeftInv, Open, clear_file_pointers, Std
<1> HIDE DEF f
<1>3. /\ DOMAIN g = Holders /\ \A h \in Holders \ {"server_send_sk"} : g[h] = f[h]
      /\ g["server_send_sk"] = Min(Free(f, lost'))
  BY <1>2, OpenedOthers
<1> HIDE DEF g
<1>4. /\ \A h \in Holders \ {"server_recv_sk"} : fd'[h] = g[h]
      /\ fd'["server_recv_sk"] = Min(Free(g, lost'))
  BY <1>1, <1>3, OpenedOthers
<1>5. \A h \in Std : f[h] = fd'[h]
  BY <1>3, <1>4 DEF Std
<1>6. /\ \A h \in Std : f[h] \in {0, 1, 2, ClosedFd}
      /\ \A n \in {0, 1, 2} : \E h \in Std : f[h] = n
  BY <1>5 DEF Numbers, ClosedFd
<1>7. 3 \in Free(f, lost') /\ \A m \in 0 .. 3 - 1 : m \notin Free(f, lost')
  BY <1>2, <1>6 DEF Free, ClosedFd, mask, Std
<1>8. g["server_send_sk"] = 3
  BY <1>3, <1>7, <1>0, MinIs
<1>9. 4 \in Free(g, lost') /\ \A m \in 0 .. 4 - 1 : m \notin Free(g, lost')
  BY <1>2, <1>3, <1>6, <1>8 DEF Free, ClosedFd, mask, Std
<1>10. fd'["server_recv_sk"] = 4 /\ fd'["server_send_sk"] = 3
  BY <1>4, <1>8, <1>9, <1>0, MinIs
<1> QED BY <1>10 DEF Listening, mask

\* Between sessions nothing touches a descriptor.
LEMMA QuietBetween ==
  ASSUME LeftInv, [ServerNext]_all_vars, main' = "accept"
  PROVE  JoinAndReopen \/ (main = "accept" /\ UNCHANGED server_vars)
<1> USE DEF LeftInv
<1>1. CASE main = "accept"
  <2>1. ctl = "done" /\ gen = "done" /\ tcp_recv = "off" /\ tcp_send = "off"
    BY <1>1
  <2>2. ~ControlThread
    BY <2>1 DEF ControlThread, send_bandwidth, AskGenerator, AskAgain, Connect, JoinGenerator,
         ControlIterates, ControlTellsSpeed, ControlStops
  <2>3. ~DataThread
    BY <2>1 DEF DataThread, GeneratorLoops, GeneratorReceives, GeneratorReplies, GeneratorWakes, GeneratorSends
  <2>4. ~TcpSendThread
    BY <2>1 DEF TcpSendThread, AcceptDown, SendDown, SendFails, TimeoutDown
  <2>5. MainThread => UNCHANGED server_vars
    <3>1. ~ReceiveTcp
      BY <2>1 DEF ReceiveTcp, AcceptUp, ReceiveUp, ReportUp, DisconnectedUp, TimeoutUp
    <3>2. ~StartUdp /\ ~StartTcp
      BY DEF StartUdp, StartSender, StartTcp
    <3> QED BY <1>1, <3>1, <3>2 DEF MainThread, ReceiverPrints, ReceiverCloses, StopSender, stop_controller_thread,
             stop_data_generator_thread, JoinAndReopen, JoinSender
  <2> QED BY <1>1, <2>2, <2>3, <2>4, <2>5 DEF ServerNext
<1>2. CASE main # "accept"
  <2>1. ~ControlThread
    BY <1>2 DEF ControlThread, send_bandwidth, AskGenerator, AskAgain, Connect, JoinGenerator,
         OpenOrExit, start_controller, ControlIterates, ControlTellsSpeed, ControlStops
  <2>2. ~DataThread
    BY <1>2 DEF DataThread, OpenOrExit, start_generator, GeneratorLoops, GeneratorReceives,
         GeneratorReplies, GeneratorWakes, GeneratorSends
  <2>3. ~TcpSendThread
    BY <1>2 DEF TcpSendThread
  <2>4. MainThread => JoinAndReopen
    BY <1>2 DEF MainThread, StartUdp, StartSender, StartTcp, ReceiverPrints, ReceiverCloses, StopSender,
         stop_controller_thread, stop_data_generator_thread, ReceiveTcp
  <2> QED BY <1>2, <2>1, <2>2, <2>3, <2>4 DEF ServerNext
<1> QED BY <1>1, <1>2

\* After a session the sockets have the numbers mask names, unless one of them, or
\* of the numbers below, was taken: for any number of descriptors and peers.
THEOREM AcceptsUnlessANumberIsTaken == ServerSpec => []AcceptsUnlessTaken
<1> DEFINE IInv == LeftInv /\ AcceptsUnlessTaken
<1>1. ServerInit => IInv
  <2> SUFFICES ASSUME ServerInit PROVE Listening
    BY LeftInit DEF AcceptsUnlessTaken
  <2>1. fd = [h \in Holders |-> IF h = "stdin" THEN 0 ELSE IF h = "stdout" THEN 1 ELSE IF h = "stderr" THEN 2
                ELSE IF h = "server_send_sk" THEN 3 ELSE IF h = "server_recv_sk" THEN 4 ELSE ClosedFd]
    BY Zenon DEF ServerInit
  <2> QED BY <2>1, AllHolders DEF Listening, mask
<1>2. IInv /\ [ServerNext]_all_vars => IInv'
  <2> SUFFICES ASSUME IInv, [ServerNext]_all_vars PROVE AcceptsUnlessTaken'
    BY LeftNext
  <2> SUFFICES ASSUME main' = "accept", lost' \cap mask = {}, Numbers(Std)' = {0, 1, 2} PROVE Listening'
    BY DEF AcceptsUnlessTaken, mask
  <2>1. CASE JoinAndReopen
    BY <2>1, Reopened
  <2>2. CASE main = "accept" /\ UNCHANGED server_vars
    BY <2>2 DEF AcceptsUnlessTaken, Listening, Numbers
  <2> QED BY <2>1, <2>2, QuietBetween
<1> QED BY <1>1, <1>2, PTL DEF ServerSpec

--------------------------------------------------------------------------------
(* Types of the threads and of the connections. *)

LEMMA ThreadTypes == TypeOK /\ [ThreadsNext]_vars => TypeOK'
<1> SUFFICES ASSUME TypeOK, [ThreadsNext]_vars PROVE TypeOK'
  OBVIOUS
<1> USE DEF TypeOK
<1>0. /\ \A m \in {"START", "DATA"} : Len(data_queue) < QueueSize =>
           Append(data_queue, m) \in Seq({"START", "DATA"}) /\ Len(Append(data_queue, m)) <= QueueSize
      /\ \A m \in {"START", "CONTROL"} : Len(gen_queue) < QueueSize =>
           Append(gen_queue, m) \in Seq({"START", "CONTROL"}) /\ Len(Append(gen_queue, m)) <= QueueSize
      /\ <<>> \in Seq({"START", "DATA"}) /\ <<>> \in Seq({"START", "CONTROL"}) /\ Len(<<>>) <= QueueSize
  BY ThreadsAssumption
<1>1. CASE MainSteps
  <2>1. CASE StartSender \/ stop_controller_thread
    BY <2>1 DEF StartSender, stop_controller_thread
  <2>2. CASE stop_data_generator_thread \/ JoinSender
    BY <2>2 DEF stop_data_generator_thread, JoinSender
  <2>3. CASE main' \in {main, "joining"} /\ UNCHANGED <<control_vars, generator_vars, data_queue, gen_queue>>
    BY <2>3
  <2> QED BY <1>1, <2>1, <2>2, <2>3 DEF MainSteps
<1>2. CASE ControlSteps
  <2>1. CASE send_bandwidth \/ AskAgain \/ JoinGenerator
    BY <2>1 DEF send_bandwidth, AskAgain, JoinGenerator
  <2>2. CASE start_controller \/ ControlStops
    BY <1>0, <2>2 DEF start_controller, ControlStops
  <2>3. CASE AskGenerator \/ ControlTellsSpeed
    <3>1. /\ ctl' \in {"await", "control"}
          /\ UNCHANGED <<main, gen, kill_thread, stop_thread, s_data, s_gen, start, slow, data_queue>>
          /\ \/ UNCHANGED gen_queue
             \/ \E m \in {"START", "CONTROL"} : Len(gen_queue) < QueueSize /\ gen_queue' = Append(gen_queue, m)
      BY <2>3 DEF AskGenerator, ControlTellsSpeed, SendTo
    <3> QED BY <1>0, <3>1
  <2>4. CASE Connect
    BY <2>4, ThreadsAssumption DEF Connect
  <2>5. CASE ControlIterates
    BY <2>5, ThreadsAssumption DEF ControlIterates, DataRead
  <2> QED BY <1>2, <2>1, <2>2, <2>3, <2>4, <2>5 DEF ControlSteps
<1>3. CASE GeneratorSteps
  <2>1. CASE start_generator \/ GeneratorLoops
    BY <1>0, <2>1 DEF start_generator, GeneratorLoops
  <2>2. CASE GeneratorReceives
    BY <2>2, ThreadsAssumption DEF GeneratorReceives
  <2>3. CASE GeneratorReplies \/ GeneratorSends
    BY <1>0, <2>3 DEF GeneratorReplies, GeneratorSends, SendTo
  <2>4. CASE GeneratorWakes
    BY <2>4 DEF GeneratorWakes
  <2> QED BY <1>3, <2>1, <2>2, <2>3, <2>4 DEF GeneratorSteps
<1>4. CASE UNCHANGED vars
  BY <1>4
<1> QED BY <1>1, <1>2, <1>3, <1>4 DEF ThreadsNext

\* What happens to the connections.
TcpNext ==
  \/ ServeTcp \/ TimeoutUp
  \/ \E p \in UpPeers : AcceptUp(p) \/ ReceiveUp(p) \/ ReportUp(p) \/ DisconnectedUp(p)
  \/ \E p \in DownPeers : AcceptDown(p) \/ SendDown(p)
  \/ \E gone \in BOOLEAN : SendFails(gone) \/ TimeoutDown(gone)
  \/ TcpClients
  \/ ended' = TRUE /\ UNCHANGED <<up_vars, down_vars, client_up, client_down>>

LEMMA ServerTakesTcpSteps == [ServerNext]_all_vars => [TcpNext]_tcp_vars
<1>1. CASE MainThread
  BY <1>1 DEF MainThread, StartUdp, StartTcp, ReceiverPrints, ReceiverCloses, StopSender,
       JoinAndReopen, Reopen, ReceiveTcp, TcpNext
<1>2. CASE ControlThread \/ DataThread
  BY <1>2 DEF ControlThread, DataThread, OpenOrExit, TcpNext
<1>3. CASE TcpSendThread
  BY <1>3 DEF TcpSendThread, TcpNext
<1> QED BY <1>1, <1>2, <1>3 DEF ServerNext, TcpNext

LEMMA TcpTypes == TcpTypeOK /\ [TcpNext]_tcp_vars => TcpTypeOK'
<1> SUFFICES ASSUME TcpTypeOK, [TcpNext]_tcp_vars PROVE TcpTypeOK'
  OBVIOUS
<1> USE TcpAssumption DEF TcpTypeOK, Sending, Receiving
<1>1. CASE ServeTcp
  BY <1>1 DEF ServeTcp
<1>2. ASSUME CloseUp PROVE TcpTypeOK'
  <2>1. send_pc' \in [UpPeers -> Sending \cup {"off", "done", "gone"}]
    BY <1>2 DEF CloseUp, Forget
  <2>2. up_conn' \in [UpPeers -> {"none", "queued", "taken", "orphan", "stray"}]
    BY <1>2 DEF CloseUp
  <2>3. upward' \in [UpPeers -> 0 .. Capacity] /\ reports' \in [UpPeers -> 0 .. Capacity]
    BY <1>2 DEF CloseUp
  <2> QED BY <1>2, <2>1, <2>2, <2>3 DEF CloseUp
<1>3. CASE TimeoutUp
  BY <1>2, <1>3 DEF TimeoutUp
<1>4. ASSUME NEW p \in UpPeers, AcceptUp(p) PROVE TcpTypeOK'
  BY <1>4 DEF AcceptUp
<1>5. ASSUME NEW p \in UpPeers, ReceiveUp(p) PROVE TcpTypeOK'
  BY <1>5 DEF ReceiveUp
<1>6. ASSUME NEW p \in UpPeers, ReportUp(p) PROVE TcpTypeOK'
  BY <1>6 DEF ReportUp
<1>7. ASSUME NEW p \in UpPeers, DisconnectedUp(p) PROVE TcpTypeOK'
  BY <1>2, <1>7 DEF DisconnectedUp
<1>8. ASSUME NEW p \in DownPeers, AcceptDown(p) \/ SendDown(p) PROVE TcpTypeOK'
  BY <1>8 DEF AcceptDown, SendDown
<1>9. ASSUME NEW gone, SendFails(gone) \/ TimeoutDown(gone) PROVE TcpTypeOK'
  <2>1. CloseDown /\ ended' \in BOOLEAN
    BY <1>9 DEF SendFails, TimeoutDown
  <2>2. recv_pc' \in [DownPeers -> Receiving \cup {"off", "done"}]
    BY <2>1 DEF CloseDown, Forget
  <2> QED BY <2>1, <2>2 DEF CloseDown
<1>10. ASSUME NEW p \in UpPeers, ClientSender(p) \/ UpPeerActs(p) PROVE TcpTypeOK'
  <2>1. CASE ClientSends(p)
    BY <2>1 DEF ClientSends
  <2>2. CASE ClientPolls(p)
    <3>1. reports' \in [UpPeers -> 0 .. Capacity]
      BY <2>2 DEF ClientPolls, ReadsReport
    <3>2. /\ send_pc' \in [UpPeers -> Sending \cup {"off", "done", "gone"}]
          /\ send_kill' \in [UpPeers -> BOOLEAN]
      BY <2>2 DEF ClientPolls, SenderGone, Closed
    <3> QED BY <2>2, <3>1, <3>2 DEF ClientPolls
  <2>3. CASE ConnectUp(p)
    BY <2>3 DEF ConnectUp
  <2>4. CASE stop_tcp_send_thread(p) \/ SenderLost(p)
    BY <2>4 DEF stop_tcp_send_thread, SenderLost, SenderGone, Closed, Vanished
  <2> QED BY <1>10, <2>1, <2>2, <2>3, <2>4 DEF ClientSender, UpPeerActs
<1>11. ASSUME NEW p \in DownPeers, ClientReceiver(p) \/ DownPeerActs(p) PROVE TcpTypeOK'
  <2>1. CASE ClientReceives(p)
    <3>1. downward' \in [DownPeers -> 0 .. Capacity]
      BY <2>1 DEF ClientReceives
    <3>2. recv_pc' \in [DownPeers -> Receiving \cup {"off", "done"}] /\ recv_kill' \in [DownPeers -> BOOLEAN]
      BY <2>1 DEF ClientReceives, ReceiverLeaves, ReceiverGone, Closed
    <3> QED BY <2>1, <3>1, <3>2 DEF ClientReceives
  <2>2. CASE ReceiverReturns(p) \/ ReceiverLost(p)
    BY <2>2 DEF ReceiverReturns, ReceiverLost, ReceiverGone, Closed
  <2>3. CASE ConnectDown(p) \/ stop_tcp_recv_thread(p)
    BY <2>3 DEF ConnectDown, stop_tcp_recv_thread
  <2> QED BY <1>11, <2>1, <2>2, <2>3 DEF ClientReceiver, DownPeerActs
<1>12. CASE ended' = TRUE /\ UNCHANGED <<up_vars, down_vars, client_up, client_down>>
  BY <1>12
<1>13. CASE UNCHANGED tcp_vars
  BY <1>13
<1> QED BY <1>1, <1>3, <1>4, <1>5, <1>6, <1>7, <1>8, <1>9, <1>10, <1>11, <1>12, <1>13 DEF TcpNext, TcpClients

--------------------------------------------------------------------------------
(* The table of descriptors. *)

LEMMA LeastIn ==
  ASSUME NEW S, S \subseteq Nat, S # {}
  PROVE  Min(S) \in S
<1> DEFINE R == OpToRel(<, Nat)
<1>1. IsWellFoundedOn(R, Nat)
  BY NatLessThanWellFounded
<1>2. \A x, y \in Nat : x < y => <<x, y>> \in R
  BY DEF OpToRel
<1> HIDE DEF R
<1>3. PICK x \in S : \A y \in S : ~ (<<y, x>> \in R)
  BY <1>1, WFMin, Zenon
<1>4. \A y \in S : x <= y
  <2> SUFFICES ASSUME NEW y \in S, ~(x <= y) PROVE FALSE
    OBVIOUS
  <2>1. x \in Nat /\ y \in Nat /\ y < x
    OBVIOUS
  <2> QED BY <1>2, <1>3, <2>1
<1>5. \E k \in S : \A y \in S : k <= y
  BY <1>4
<1> QED BY <1>5 DEF Min

\* No number is held twice, and none that is held is lost.
Table(f, taken) ==
  /\ f \in [Holders -> 0 .. ClosedFd]
  /\ \A g, h \in Holders : f[g] = f[h] => g = h \/ f[g] = ClosedFd
  /\ taken \subseteq 0 .. MaxFd - 1
  /\ \A h \in Holders : f[h] \notin taken

LEMMA OpenedTable ==
  ASSUME NEW f, NEW taken, Table(f, taken), NEW h \in Holders, Free(f, taken) # {}
  PROVE  /\ Table(Opened(f, taken, h), taken)
         /\ Opened(f, taken, h)[h] \in Free(f, taken)
         /\ \A g \in Holders \ {h} : Opened(f, taken, h)[g] = f[g]
<1> USE ServerAssumption
<1>1. Free(f, taken) \subseteq Nat
  BY DEF Free
<1>2. PICK n \in Free(f, taken) : n = Min(Free(f, taken))
  BY <1>1, LeastIn
<1>3. n \in 0 .. MaxFd - 1 /\ n \notin taken /\ \A g \in Holders : f[g] # n
  BY <1>2 DEF Free
<1>4. Opened(f, taken, h) = [f EXCEPT ![h] = n]
  BY <1>2 DEF Opened
<1> QED BY <1>2, <1>3, <1>4 DEF Table, ClosedFd

LEMMA ClosedTable ==
  ASSUME NEW f, NEW taken, Table(f, taken), NEW g, g = [h \in Holders |-> g[h]],
         \A h \in Holders : g[h] = f[h] \/ g[h] = ClosedFd
  PROVE  Table(g, taken)
<1> USE ServerAssumption
<1>1. \A h \in Holders : g[h] \in 0 .. ClosedFd /\ g[h] \notin taken
  BY DEF Table, ClosedFd
<1>2. g \in [Holders -> 0 .. ClosedFd]
  BY <1>1
<1> QED BY <1>1, <1>2 DEF Table

\* What sessions leave to each other: numbers that no log and no standard stream
\* holds, and that are not lost.
Rest(f, taken) == {n \in 0 .. MaxFd - 1 : n \notin taken /\ \A h \in Std \cup Logs : f[h] # n}
Room == Rest(fd, lost)

\* Peers for whom a descriptor has to be there.
Hopeful == {p \in UpPeers : up_conn[p] \in {"none", "queued", "taken"}}

Busy == {"created", "start", "ask", "await", "control", "send_control"}

\* A session gives back two numbers at least, and one over TCP has one for each peer
\* beside those of its ports and of the peer it sends to.  It costs a number where a log
\* is opened in the place of what the session closed: but then the session has two
\* others, its sockets or that of its controller.
RoomInv ==
  /\ Table(fd, lost)
  /\ Cardinality(Room) >= 2
  /\ tcp_recv # "off" \/ tcp_send # "off" => Cardinality(Room) >= 3 + Cardinality(Hopeful)
  /\ ctl \in Busy => Open("server_send_sk")
  /\ ctl \in {"ask", "await", "control", "send_control"} => Open("s_data")
  /\ main = "serving" =>
       ctl \in {"created", "start"} \/ (ctl \in Busy \cup {"exited"} /\ ~kill_thread)

LEMMA RestFinite ==
  ASSUME NEW f, NEW taken
  PROVE  IsFiniteSet(Rest(f, taken)) /\ Cardinality(Rest(f, taken)) \in Nat
<1>1. IsFiniteSet(0 .. MaxFd - 1)
  BY FS_Interval, ServerAssumption
<1>2. IsFiniteSet(Rest(f, taken))
  BY <1>1, FS_Subset DEF Rest
<1> QED BY <1>2, FS_CardinalityType

LEMMA HopefulFinite == IsFiniteSet(Hopeful) /\ Cardinality(Hopeful) \in Nat
<1>1. IsFiniteSet(Hopeful)
  BY FS_Subset, ServerAssumption DEF Hopeful
<1> QED BY <1>1, FS_CardinalityType

LEMMA TwoIn ==
  ASSUME NEW S, IsFiniteSet(S), NEW a \in S, NEW b \in S, a # b
  PROVE  Cardinality(S) >= 2
<1>1. IsFiniteSet(S \ {a}) /\ Cardinality(S \ {a}) = Cardinality(S) - 1
  BY FS_RemoveElement
<1>2. Cardinality(S) \in Nat /\ Cardinality(S \ {a}) \in Nat
  BY <1>1, FS_CardinalityType
<1>3. S \ {a} # {}
  OBVIOUS
<1>4. Cardinality(S \ {a}) # 0
  BY <1>1, <1>3, FS_EmptySet
<1> QED BY <1>1, <1>2, <1>4

LEMMA OneLess ==
  ASSUME NEW S, IsFiniteSet(S), NEW a
  PROVE  IsFiniteSet(S \ {a}) /\ Cardinality(S \ {a}) \in Nat /\ Cardinality(S \ {a}) >= Cardinality(S) - 1
<1>1. Cardinality(S) \in Nat
  BY FS_CardinalityType
<1>2. IsFiniteSet(S \ {a}) /\ Cardinality(S \ {a}) \in Nat
  BY FS_RemoveElement, FS_CardinalityType
<1> QED BY <1>1, <1>2, FS_RemoveElement

\* A set that has more elements than are taken from it is not empty.
LEMMA Remaining ==
  ASSUME NEW S, IsFiniteSet(S), NEW a, NEW b, NEW c, Cardinality(S) >= 4
  PROVE  \E n \in S : n \notin {a, b, c}
<1>1. PICK S1 : S1 = S \ {a}
  OBVIOUS
<1>2. PICK S2 : S2 = S1 \ {b}
  OBVIOUS
<1>3. PICK S3 : S3 = S2 \ {c}
  OBVIOUS
<1>4. Cardinality(S) \in Nat
  BY FS_CardinalityType
<1>5. IsFiniteSet(S1) /\ Cardinality(S1) \in Nat /\ Cardinality(S1) >= Cardinality(S) - 1
  BY <1>1, OneLess
<1>6. IsFiniteSet(S2) /\ Cardinality(S2) \in Nat /\ Cardinality(S2) >= Cardinality(S1) - 1
  BY <1>2, <1>5, OneLess
<1>7. IsFiniteSet(S3) /\ Cardinality(S3) \in Nat /\ Cardinality(S3) >= Cardinality(S2) - 1
  BY <1>3, <1>6, OneLess
<1>8. Cardinality(S3) # 0
  BY <1>4, <1>5, <1>6, <1>7
<1>9. S3 # {}
  BY <1>8, FS_EmptySet
<1> QED BY <1>1, <1>2, <1>3, <1>9

LEMMA RestGrows ==
  ASSUME NEW f, NEW t, t \subseteq lost, \A h \in Std \cup Logs : f[h] \in {fd[h], ClosedFd}
  PROVE  Room \subseteq Rest(f, t) /\ Cardinality(Rest(f, t)) >= Cardinality(Room)
<1>1. Room \subseteq Rest(f, t)
  BY ServerAssumption DEF Room, Rest, ClosedFd
<1> QED BY <1>1, FS_Subset, RestFinite

\* A step that opens no log and loses no number.
LEMMA RoomStays ==
  ASSUME RoomInv, Table(fd, lost)', lost' \subseteq lost,
         \A h \in Std \cup Logs : fd'[h] \in {fd[h], ClosedFd}
  PROVE  /\ Cardinality(Room') >= 2 /\ Cardinality(Room') >= Cardinality(Room)
         /\ Cardinality(Room') \in Nat /\ Cardinality(Room) \in Nat
<1>1. Cardinality(Rest(fd', lost')) >= Cardinality(Room)
  BY RestGrows
<1>2. Cardinality(Rest(fd', lost')) \in Nat /\ Cardinality(Room) \in Nat
  BY RestFinite DEF Room
<1> QED BY <1>1, <1>2 DEF RoomInv, Room

LEMMA RoomInit == ServerInit => RoomInv
<1> SUFFICES ASSUME ServerInit PROVE RoomInv
  OBVIOUS
<1> USE ServerAssumption, AllHolders
<1>1. fd = [h \in Holders |-> IF h = "stdin" THEN 0 ELSE IF h = "stdout" THEN 1 ELSE IF h = "stderr" THEN 2
              ELSE IF h = "server_send_sk" THEN 3 ELSE IF h = "server_recv_sk" THEN 4 ELSE ClosedFd]
  BY Zenon DEF ServerInit
<1>2. lost = {}
  BY DEF ServerInit
<1>3. Table(fd, lost)
  BY <1>1, <1>2 DEF Table, ClosedFd
<1>4. 3 \in Room /\ 4 \in Room
  BY <1>1, <1>2 DEF Room, Rest, ClosedFd, Std
<1>5. Cardinality(Room) >= 2
  BY <1>4, RestFinite, TwoIn DEF Room
<1> QED BY <1>3, <1>5 DEF RoomInv, ServerInit, Init, TcpInit, Busy

LEMMA RoomUnchanged ==
  RoomInv /\ UNCHANGED <<main, ctl, kill_thread, tcp_recv, tcp_send, up_conn, fd, lost>> => RoomInv'
BY DEF RoomInv, Room, Hopeful, Open, Table, Rest, ClosedFd

\* A log is opened while two other numbers are held.
LEMMA LogOpened ==
  ASSUME RoomInv, NEW log \in Logs, SendFeedback(log),
         NEW a \in Holders \ (Std \cup Logs), NEW b \in Holders \ (Std \cup Logs), a # b, Open(a), Open(b)
  PROVE  Table(fd, lost)' /\ Cardinality(Room') >= 2 /\ \A h \in Holders \ Logs : fd'[h] = fd[h]
<1> USE ServerAssumption
<1>0. log \in Holders /\ Logs \subseteq Holders /\ Std \subseteq Holders
  BY DEF Holders
<1>1. Table(fd', lost') /\ lost' = lost /\ \A h \in Holders \ Logs : fd'[h] = fd[h]
  BY <1>0, OpenedTable DEF SendFeedback, RoomInv
<1>2. \A h \in {a, b} : fd'[h] \in 0 .. MaxFd - 1 /\ fd'[h] \notin lost' /\ \A g \in Holders : g # h => fd'[g] # fd'[h]
  BY <1>1 DEF Table, Open, ClosedFd
<1>3. fd'[a] \in Rest(fd', lost') /\ fd'[b] \in Rest(fd', lost') /\ fd'[a] # fd'[b]
  BY <1>0, <1>2 DEF Rest
<1>4. Cardinality(Rest(fd', lost')) >= 2
  BY <1>3, RestFinite, TwoIn
<1> QED BY <1>1, <1>4 DEF Room

LEMMA RoomControl ==
  ASSUME RoomInv, LeftInv, ControlThread
  PROVE  RoomInv'
<1> USE AllHolders DEF Busy
<1>1. CASE (send_bandwidth \/ AskGenerator \/ AskAgain \/ Connect \/ JoinGenerator) /\ UNCHANGED <<tcp_vars, server_vars>>
  <2>1. /\ ctl' \in Busy => ctl \in Busy
        /\ ctl' \in {"ask", "await", "control", "send_control"} => ctl \in {"ask", "await", "control", "send_control"}
        /\ main' = "serving" => main = "serving" /\ ctl \notin {"join", "done", "exited"}
        /\ ctl' = "start" \/ (ctl' \in {"ask", "await", "control"} /\ ctl \in {"ask", "await"}) \/ ctl' = "done"
        /\ UNCHANGED <<main, kill_thread>>
    BY <1>1 DEF send_bandwidth, AskGenerator, AskAgain, Connect, JoinGenerator, RoomInv
  <2>2. ctl' = "done" => ctl = "join"
    BY <1>1 DEF send_bandwidth, AskGenerator, AskAgain, Connect, JoinGenerator
  <2> QED BY <1>1, <2>1, <2>2 DEF RoomInv, Room, Hopeful, Open, Table, Rest, Free, ClosedFd
<1>2. CASE ctl = "start" /\ OpenOrExit("s_data", start_controller)
  <2>1. CASE Free(fd, lost) = {}
    <3>1. UNCHANGED <<vars, up_vars, tcp_send, server_vars>>
      BY <1>2, <2>1 DEF OpenOrExit
    <3> QED BY <3>1, RoomUnchanged
  <2>2. CASE Free(fd, lost) # {}
    <3>1. Table(fd, lost)' /\ lost' = lost /\ fd'["s_data"] \in Free(fd, lost) /\ \A h \in Holders \ {"s_data"} : fd'[h] = fd[h]
      BY <1>2, <2>2, OpenedTable DEF OpenOrExit, RoomInv
    <3>2. Cardinality(Room') >= 2
      BY <3>1, RoomStays DEF Std, Logs
    <3>3. Open("s_data")' /\ Open("server_send_sk")'
      BY <1>2, <3>1, ServerAssumption DEF RoomInv, Open, Free, ClosedFd
    <3>4. start_controller /\ UNCHANGED tcp_vars
      BY <1>2, <2>2 DEF OpenOrExit
    <3> QED BY <1>2, <3>1, <3>2, <3>3, <3>4 DEF start_controller, LeftInv, RoomInv
  <2> QED BY <2>1, <2>2
<1>3. CASE ControlIterates /\ UNCHANGED <<tcp_vars, server_vars>>
  BY <1>3 DEF ControlIterates, RoomInv, Room, Hopeful, Open, Table, Rest, ClosedFd
<1>4. ASSUME NEW log \in Logs, ControlIterates \/ ControlTellsSpeed, SendFeedback(log), UNCHANGED tcp_vars
      PROVE  RoomInv'
  <2>1. ctl \in {"control", "send_control"} /\ ctl' \in {"control", "send_control", "exited"} /\ UNCHANGED <<main, kill_thread>>
    BY <1>4 DEF ControlIterates, ControlTellsSpeed
  <2>2. Open("server_send_sk") /\ Open("s_data")
    BY <2>1 DEF RoomInv
  <2>3. Table(fd, lost)' /\ Cardinality(Room') >= 2 /\ \A h \in Holders \ Logs : fd'[h] = fd[h]
    BY <1>4, <2>2, LogOpened DEF Std
  <2>4. Open("server_send_sk")' /\ Open("s_data")'
    BY <2>2, <2>3 DEF Open, ClosedFd
  <2>5. tcp_recv' = "off" /\ tcp_send' = "off"
    BY <1>4, <2>1 DEF LeftInv
  <2> QED BY <2>1, <2>3, <2>4, <2>5 DEF RoomInv
<1>5. CASE ControlStops /\ CloseAll({"s_data", "server_send_sk"}) /\ UNCHANGED tcp_vars
  <2>1. Table(fd, lost)' /\ lost' = lost /\ \A h \in Holders : fd'[h] \in {fd[h], ClosedFd}
    BY <1>5, ClosedTable DEF CloseAll, RoomInv
  <2>2. Cardinality(Room') >= 2
    BY <2>1, RoomStays DEF Holders
  <2>3. tcp_recv' = "off" /\ tcp_send' = "off" /\ main' # "serving" /\ ctl' = "join"
    BY <1>5 DEF LeftInv, RoomInv, ControlStops
  <2> QED BY <2>1, <2>2, <2>3 DEF RoomInv
<1> QED BY <1>1, <1>2, <1>3, <1>4, <1>5 DEF ControlThread

LEMMA RoomData ==
  ASSUME RoomInv, LeftInv, DataThread
  PROVE  RoomInv'
<1> USE AllHolders
<1>1. CASE gen = "created" /\ OpenOrExit("s_gen", start_generator)
  <2>1. CASE Free(fd, lost) = {}
    <3>1. UNCHANGED <<vars, up_vars, tcp_send, server_vars>>
      BY <1>1, <2>1 DEF OpenOrExit
    <3> QED BY <3>1, RoomUnchanged
  <2>2. CASE Free(fd, lost) # {}
    <3>1. Table(fd, lost)' /\ lost' = lost /\ \A h \in Holders \ {"s_gen"} : fd'[h] = fd[h]
      BY <1>1, <2>2, OpenedTable DEF OpenOrExit, RoomInv
    <3>2. Cardinality(Room') >= 2
      BY <3>1, RoomStays DEF Std, Logs
    <3>3. start_generator /\ UNCHANGED tcp_vars
      BY <1>1, <2>2 DEF OpenOrExit
    <3>4. UNCHANGED <<main, ctl, kill_thread>> /\ tcp_recv' = "off" /\ tcp_send' = "off"
      BY <1>1, <3>3 DEF start_generator, LeftInv
    <3> QED BY <3>1, <3>2, <3>4 DEF RoomInv, Open, ClosedFd
  <2> QED BY <2>1, <2>2
<1>2. CASE GeneratorLoops /\ CloseAll({"s_gen"}) /\ UNCHANGED tcp_vars
  <2>1. Table(fd, lost)' /\ lost' = lost /\ \A h \in Holders : fd'[h] \in {fd[h], ClosedFd}
    BY <1>2, ClosedTable DEF CloseAll, RoomInv
  <2>2. Cardinality(Room') >= 2
    BY <2>1, RoomStays DEF Holders
  <2>3. UNCHANGED <<main, ctl, kill_thread>> /\ tcp_recv' = "off" /\ tcp_send' = "off"
    BY <1>2 DEF GeneratorLoops, LeftInv
  <2>4. \A h \in Holders \ {"s_gen"} : fd'[h] = fd[h]
    BY <1>2 DEF CloseAll
  <2> QED BY <2>1, <2>2, <2>3, <2>4 DEF RoomInv, Open, ClosedFd
<1>3. ASSUME GeneratorLoops \/ GeneratorReceives \/ GeneratorReplies \/ GeneratorWakes \/ GeneratorSends,
             UNCHANGED <<tcp_vars, server_vars>>
      PROVE  RoomInv'
  <2>1. UNCHANGED <<main, ctl, kill_thread>>
    BY <1>3 DEF GeneratorLoops, GeneratorReceives, GeneratorReplies, GeneratorWakes, GeneratorSends
  <2> QED BY <1>3, <2>1, RoomUnchanged
<1> QED BY <1>1, <1>2, <1>3 DEF DataThread

\* While a session over TCP runs there is a number for whom it accepts: its ports, and
\* the connection of the other direction, hold three.
LEMMA FreeInTcp ==
  ASSUME NEW f, NEW taken, Cardinality(Rest(f, taken)) >= 4,
         NEW a, NEW b, NEW c,
         \A h \in Holders \ (Std \cup Logs) : f[h] \in {f[a], f[b], f[c], ClosedFd}
  PROVE  Free(f, taken) # {}
<1>1. PICK n \in Rest(f, taken) : n \notin {f[a], f[b], f[c]}
  BY RestFinite, Remaining
<1>2. n \in Free(f, taken)
  BY <1>1, ServerAssumption DEF Rest, Free, ClosedFd
<1> QED BY <1>2

LEMMA HopefulCounted ==
  ASSUME NEW p \in Hopeful
  PROVE  /\ Cardinality(Hopeful) >= 1
         /\ \A q \in Hopeful : q # p => Cardinality(Hopeful) >= 2
<1>1. Cardinality(Hopeful) # 0
  BY HopefulFinite, FS_EmptySet
<1> QED BY <1>1, HopefulFinite, TwoIn

\* A session over TCP that closes some of its descriptors.
LEMMA TcpCloses ==
  ASSUME RoomInv, LeftInv, tcp_recv # "off" \/ tcp_send # "off", UNCHANGED vars,
         Table(fd, lost)', lost' \subseteq lost,
         \A h \in Holders : fd'[h] \in {fd[h], ClosedFd}, Hopeful' = Hopeful
  PROVE  RoomInv'
<1>1. Cardinality(Room') >= 2 /\ Cardinality(Room') >= Cardinality(Room)
      /\ Cardinality(Room') \in Nat /\ Cardinality(Room) \in Nat
  BY RoomStays DEF Holders
<1>2. Cardinality(Room') >= 3 + Cardinality(Hopeful')
  BY <1>1, HopefulFinite DEF RoomInv
<1> QED BY <1>1, <1>2 DEF RoomInv, LeftInv, Busy

LEMMA RoomTcpSend ==
  ASSUME RoomInv, LeftInv, TcpSendThread
  PROVE  RoomInv'
<1> USE AllHolders
<1>1. ASSUME NEW p \in DownPeers, AcceptDown(p), fd' = Opened(fd, lost, "down"), UNCHANGED <<vars, lost>>
      PROVE  RoomInv'
  <2>1. UNCHANGED up_conn /\ tcp_send = "select" /\ ctl = "done" /\ gen = "done" /\ main = "joining"
    BY <1>1 DEF AcceptDown, LeftInv
  <2>2. /\ \A h \in {"s_data", "s_gen", "down"} : fd[h] = ClosedFd
        /\ Open("up") => \E q \in UpPeers : RecvS(q)
    BY <2>1 DEF LeftInv, Open, NoRecvS
  <2>3. Cardinality(Room) \in Nat /\ Cardinality(Hopeful) \in Nat /\ Cardinality(Room) >= 3 + Cardinality(Hopeful)
    BY <2>1, RestFinite, HopefulFinite DEF RoomInv, Room
  <2>4. Free(fd, lost) # {}
    <3>1. CASE Open("up")
      <4>1. PICK q \in UpPeers : RecvS(q)
        BY <2>2, <3>1
      <4>2. q \in Hopeful
        BY <4>1 DEF Hopeful, RecvS
      <4>3. Cardinality(Room) >= 4
        BY <2>3, <4>2, HopefulCounted
      <4>4. \A h \in Holders \ (Std \cup Logs) :
              fd[h] \in {fd["up"], fd["server_send_sk"], fd["server_recv_sk"], ClosedFd}
        BY <2>2 DEF Std, Logs
      <4> QED BY <4>3, <4>4, FreeInTcp DEF Room
    <3>2. CASE ~Open("up")
      <4>1. \A h \in Holders \ (Std \cup Logs) : fd[h] \in {fd["server_send_sk"], fd["server_recv_sk"], ClosedFd}
        BY <2>2, <3>2 DEF Std, Logs, Open
      <4>2. PICK n \in Room : n \notin {fd["server_send_sk"], fd["server_recv_sk"]}
        <5>1. IsFiniteSet(Room)
          BY RestFinite DEF Room
        <5>2. PICK S1 : S1 = Room \ {fd["server_send_sk"]}
          OBVIOUS
        <5>3. IsFiniteSet(S1) /\ Cardinality(S1) \in Nat /\ Cardinality(S1) >= Cardinality(Room) - 1
          BY <5>1, <5>2, OneLess
        <5>4. PICK S2 : S2 = S1 \ {fd["server_recv_sk"]}
          OBVIOUS
        <5>5. Cardinality(S2) \in Nat /\ Cardinality(S2) >= Cardinality(S1) - 1
          BY <5>3, <5>4, OneLess
        <5>6. S2 # {}
          BY <2>3, <5>3, <5>5, FS_EmptySet
        <5> QED BY <5>2, <5>4, <5>6
      <4>3. n \in Free(fd, lost)
        BY <4>1, <4>2, ServerAssumption DEF Room, Rest, Free, ClosedFd
      <4> QED BY <4>3
    <3> QED BY <3>1, <3>2
  <2>5. Table(fd, lost)' /\ \A h \in Holders \ {"down"} : fd'[h] = fd[h]
    BY <1>1, <2>4, OpenedTable DEF RoomInv
  <2>6. /\ Cardinality(Room') >= 2 /\ Cardinality(Room') >= Cardinality(Room)
        /\ Cardinality(Room') \in Nat
    BY <1>1, <2>5, RoomStays DEF Std, Logs
  <2>7. Hopeful' = Hopeful
    BY <2>1 DEF Hopeful
  <2>8. Cardinality(Room') >= 3 + Cardinality(Hopeful')
    BY <2>3, <2>6, <2>7
  <2> QED BY <1>1, <2>1, <2>5, <2>6, <2>8 DEF RoomInv, Busy
<1>2. ASSUME NEW p \in DownPeers, SendDown(p), UNCHANGED <<server_vars, vars>> PROVE RoomInv'
  BY <1>2, RoomUnchanged DEF SendDown
<1>3. ASSUME NEW hs, CloseAll(hs), tcp_send # "off", CloseDown, UNCHANGED vars PROVE RoomInv'
  <2>1. Table(fd, lost)' /\ lost' = lost /\ \A h \in Holders : fd'[h] \in {fd[h], ClosedFd}
    BY <1>3, ClosedTable DEF CloseAll, RoomInv
  <2>2. Hopeful' = Hopeful
    BY <1>3 DEF CloseDown, Hopeful
  <2> QED BY <1>3, <2>1, <2>2, TcpCloses
<1> QED BY <1>1, <1>2, <1>3 DEF TcpSendThread, SendFails, TimeoutDown

LEMMA RoomStartTcp ==
  ASSUME RoomInv, LeftInv, StartTcp
  PROVE  RoomInv'
<1> USE AllHolders, ServerAssumption
<1> DEFINE closed == [h \in Holders |-> IF h \in Sockets THEN ClosedFd ELSE fd[h]]
           first == Opened(closed, lost, "server_recv_sk")
           Ports == {fd["server_send_sk"], fd["server_recv_sk"]}
<1>1. /\ fd' = Opened(first, lost, "server_send_sk") /\ lost' = lost
      /\ main' = "joining" /\ ctl' = ctl /\ UNCHANGED up_conn /\ EnoughLeft /\ Ports = {3, 4}
  <2>1. [fd EXCEPT !["server_send_sk"] = ClosedFd, !["server_recv_sk"] = ClosedFd] = closed
    BY DEF LeftInv, Sockets
  <2> QED BY <2>1 DEF StartTcp, ServeTcp, Listening, mask
<1>2. ctl' = "done"
  BY <1>1 DEF StartTcp, LeftInv
<1>3. Table(closed, lost) /\ \A h \in Holders \ Sockets : closed[h] = fd[h]
  BY ClosedTable DEF RoomInv
<1>4. 3 \in Room /\ 4 \in Room
  <2>1. \A n \in {3, 4} : n \in 0 .. MaxFd - 1 /\ n # ClosedFd
    BY DEF ClosedFd
  <2>2. ASSUME NEW h \in Sockets, fd[h] \in {3, 4} PROVE fd[h] \in Room
    <3>1. h \in Holders /\ h \notin Std \cup Logs /\ Std \cup Logs \subseteq Holders
      BY <2>2 DEF Sockets, Std
    <3>2. fd[h] \notin lost /\ \A g \in Std \cup Logs : fd[g] # fd[h]
      BY <2>1, <2>2, <3>1 DEF RoomInv, Table
    <3> QED BY <2>1, <2>2, <3>2 DEF Room, Rest
  <2> QED BY <1>1, <2>2 DEF Sockets
<1>5. 3 \in Free(closed, lost) /\ 4 \in Free(closed, lost)
  <2>1. ASSUME NEW n \in Ports, NEW h \in Holders PROVE closed[h] # n
    <3>1. n \in {3, 4} /\ n # ClosedFd
      BY <1>1 DEF ClosedFd
    <3>2. CASE h \in Sockets
      BY <3>1, <3>2
    <3>3. CASE h \notin Sockets
      BY <1>3, <3>1, <3>3 DEF RoomInv, Table, Sockets
    <3> QED BY <3>2, <3>3
  <2>2. \A n \in Ports : n \in 0 .. MaxFd - 1 /\ n \notin lost
    BY <1>1, <1>4 DEF Room, Rest
  <2> HIDE DEF closed
  <2> QED BY <1>1, <2>1, <2>2 DEF Free
<1> HIDE DEF closed
<1>6. Table(first, lost) /\ \A h \in Holders \ {"server_recv_sk"} : first[h] = closed[h]
  BY <1>3, <1>5, OpenedTable
<1>7. Free(first, lost) # {}
  <2>1. PICK n \in {3, 4} : n # first["server_recv_sk"]
    OBVIOUS
  <2>2. n \in Free(closed, lost)
    BY <1>5, <2>1
  <2>3. n \in Free(first, lost)
    BY <1>6, <2>1, <2>2 DEF Free
  <2> QED BY <2>3
<1> HIDE DEF first
<1>8. Table(fd, lost)' /\ \A h \in Holders \ {"server_send_sk"} : fd'[h] = first[h]
  BY <1>1, <1>6, <1>7, OpenedTable
<1>9. \A h \in Std \cup Logs : fd'[h] = fd[h]
  BY <1>3, <1>6, <1>8 DEF Std, Logs, Sockets
<1>10. /\ Cardinality(Room') >= 2 /\ Cardinality(Room') >= Cardinality(Room)
       /\ Cardinality(Room') \in Nat /\ Cardinality(Room) \in Nat
  BY <1>1, <1>8, <1>9, RoomStays
<1>11. Cardinality(Room) >= 3 + Cardinality(Hopeful)
  <2>1. IsFiniteSet(Room)
    BY RestFinite DEF Room
  <2>2. PICK S1 : S1 = Room \ {3}
    OBVIOUS
  <2>3. PICK S2 : S2 = S1 \ {4}
    OBVIOUS
  <2>4. IsFiniteSet(S1) /\ Cardinality(S1) = Cardinality(Room) - 1
    BY <1>4, <2>1, <2>2, FS_RemoveElement
  <2>5. 4 \in S1
    BY <1>4, <2>2
  <2>6. IsFiniteSet(S2) /\ Cardinality(S2) = Cardinality(S1) - 1
    BY <2>3, <2>4, <2>5, FS_RemoveElement
  <2>7. Free(fd, lost) \subseteq S2
    <3>1. Free(fd, lost) \subseteq Room /\ 3 \notin Free(fd, lost) /\ 4 \notin Free(fd, lost)
      <4>1. Std \cup Logs \cup Sockets \subseteq Holders
        BY DEF Std, Sockets
      <4>2. Free(fd, lost) \subseteq Room
        BY <4>1 DEF Free, Room, Rest
      <4>3. \A n \in Ports : n \notin Free(fd, lost)
        BY DEF Free
      <4> QED BY <1>1, <4>2, <4>3
    <3> QED BY <2>2, <2>3, <3>1
  <2>8. IsFiniteSet(Free(fd, lost)) /\ Cardinality(Free(fd, lost)) <= Cardinality(S2)
    BY <2>6, <2>7, FS_Subset
  <2>9. Cardinality(Hopeful) <= Cardinality(UpPeers)
    BY FS_Subset DEF Hopeful
  <2>10. Cardinality(Free(fd, lost)) > Cardinality(UpPeers)
    BY <1>1 DEF EnoughLeft
  <2>11. Cardinality(Free(fd, lost)) \in Nat /\ Cardinality(UpPeers) \in Nat /\ Cardinality(Hopeful) \in Nat
    BY <2>8, HopefulFinite, FS_CardinalityType
  <2> QED BY <1>10, <2>4, <2>6, <2>8, <2>9, <2>10, <2>11
<1>12. Cardinality(Room') >= 3 + Cardinality(Hopeful')
  <2>1. Hopeful' = Hopeful
    BY <1>1 DEF Hopeful
  <2> QED BY <1>10, <1>11, <2>1, HopefulFinite
<1> QED BY <1>1, <1>2, <1>8, <1>10, <1>12 DEF RoomInv, Busy

LEMMA RoomReopen ==
  ASSUME RoomInv, LeftInv, JoinAndReopen
  PROVE  RoomInv'
<1> USE AllHolders, ServerAssumption
<1> DEFINE f == [h \in Holders |-> IF h \in Sockets THEN ClosedFd ELSE clear_file_pointers[h]]
           g == Opened(f, lost', "server_send_sk")
<1>1. /\ fd' = Opened(g, lost', "server_recv_sk")
      /\ lost' = lost \cup Numbers({h \in Holders : f[h] = ClosedFd})
      /\ main' = "accept" /\ ctl' = "done" /\ tcp_recv' = "off" /\ tcp_send' = "off"
  BY DEF JoinAndReopen, JoinSender, Reopen
<1>2. /\ \A h \in Holders : f[h] \in {fd[h], ClosedFd}
      /\ \A h \in Holders \ Std : f[h] = ClosedFd
      /\ \A h \in Holders \ (Std \cup Logs) : fd[h] = ClosedFd
  <2>1. \A h \in Holders \ (Std \cup Logs) : fd[h] = ClosedFd
    BY DEF JoinAndReopen, JoinSender, LeftInv, Open, Std, Logs, NoRecvS
  <2> QED BY <2>1 DEF clear_file_pointers
<1>3. f = [h \in Holders |-> f[h]]
  OBVIOUS
<1> HIDE DEF f
<1>4. Table(f, lost')
  <2>1. Table(f, lost)
    BY <1>2, <1>3, ClosedTable DEF RoomInv
  <2>2. lost' \subseteq 0 .. MaxFd - 1
    <3>1. \A h \in Holders : fd[h] \in 0 .. MaxFd
      BY DEF RoomInv, Table, ClosedFd
    <3>2. Numbers({h \in Holders : f[h] = ClosedFd}) \subseteq 0 .. MaxFd - 1
      BY <3>1 DEF Numbers, ClosedFd
    <3> QED BY <1>1, <3>2 DEF RoomInv, Table
  <2>3. ASSUME NEW h \in Holders PROVE f[h] \notin lost'
    <3>1. CASE f[h] = ClosedFd
      BY <2>2, <3>1 DEF ClosedFd
    <3>2. CASE f[h] # ClosedFd
      <4>1. f[h] = fd[h]
        BY <1>2, <3>2
      <4>2. f[h] \notin Numbers({k \in Holders : f[k] = ClosedFd})
        BY <3>2, <4>1 DEF Numbers, RoomInv, Table
      <4> QED BY <1>1, <2>1, <4>2 DEF Table
    <3> QED BY <3>1, <3>2
  <2> QED BY <2>1, <2>2, <2>3 DEF Table
<1>5. \A n \in Room : n \in 0 .. MaxFd - 1 /\ n \notin lost' /\ \A h \in Holders : f[h] # n
  <2> SUFFICES ASSUME NEW n \in Room PROVE n \in 0 .. MaxFd - 1 /\ n \notin lost' /\ \A h \in Holders : f[h] # n
    OBVIOUS
  <2>1. n \in 0 .. MaxFd - 1 /\ n # ClosedFd /\ n \notin lost /\ \A h \in Std \cup Logs : fd[h] # n
    BY DEF Room, Rest, ClosedFd
  <2>2. \A h \in Holders : fd[h] # n
    BY <1>2, <2>1
  <2> QED BY <1>1, <1>2, <2>1, <2>2 DEF Numbers
<1>6. Room \subseteq Free(f, lost')
  BY <1>5 DEF Free
<1>7. IsFiniteSet(Room) /\ Cardinality(Room) \in Nat /\ Cardinality(Room) >= 2
  BY RestFinite DEF Room, RoomInv
<1>8. Table(g, lost') /\ \A h \in Holders \ {"server_send_sk"} : g[h] = f[h]
  <2>1. Free(f, lost') # {}
    BY <1>6, <1>7, FS_EmptySet
  <2> QED BY <1>4, <2>1, OpenedTable
<1>9. Free(g, lost') # {}
  <2>1. PICK S1 : S1 = Room \ {g["server_send_sk"]}
    OBVIOUS
  <2>2. Cardinality(S1) \in Nat /\ Cardinality(S1) >= Cardinality(Room) - 1
    BY <1>7, <2>1, OneLess
  <2>3. S1 # {}
    BY <1>7, <2>2, FS_EmptySet
  <2>4. PICK n \in Room : n # g["server_send_sk"]
    BY <2>1, <2>3
  <2>5. n \in Free(g, lost')
    BY <1>5, <1>8, <2>4 DEF Free
  <2> QED BY <2>5
<1> HIDE DEF g
<1>10. Table(fd, lost)' /\ \A h \in Holders \ {"server_recv_sk"} : fd'[h] = g[h]
  <2>1. "server_recv_sk" \in Holders
    OBVIOUS
  <2>2. Table(Opened(g, lost', "server_recv_sk"), lost')
    BY <1>8, <1>9, <2>1, OpenedTable
  <2>3. \A h \in Holders \ {"server_recv_sk"} : Opened(g, lost', "server_recv_sk")[h] = g[h]
    BY <1>8, <1>9, <2>1, OpenedTable
  <2> QED BY <1>1, <2>2, <2>3
<1>11. Room \subseteq Rest(fd', lost')
  BY <1>5, <1>8, <1>10 DEF Rest, Std, Logs
<1>12. Cardinality(Rest(fd', lost')) >= 2
  <2>1. Cardinality(Room) <= Cardinality(Rest(fd', lost'))
    BY <1>11, RestFinite, FS_Subset
  <2> QED BY <1>7, <2>1, RestFinite
<1> QED BY <1>1, <1>10, <1>12 DEF RoomInv, Room, Busy

\* A connection that is overwritten costs a number, and a peer for whom one had to be there.
LEMMA RoomAccept ==
  ASSUME RoomInv, LeftInv, NEW p \in UpPeers, AcceptUp(p), UNCHANGED vars,
         lost' = lost \cup Numbers({"up"}),
         fd' = Opened([fd EXCEPT !["up"] = ClosedFd], lost', "up")
  PROVE  RoomInv'
<1> USE AllHolders, ServerAssumption
<1> DEFINE f == [h \in Holders |-> IF h = "up" THEN ClosedFd ELSE fd[h]]
<1>1. fd' = Opened(f, lost', "up")
  <2>1. [fd EXCEPT !["up"] = ClosedFd] = f
    BY DEF LeftInv
  <2> QED BY <2>1
<1>2. \A h \in Holders : f[h] = IF h = "up" THEN ClosedFd ELSE fd[h]
  OBVIOUS
<1>3. f = [h \in Holders |-> f[h]]
  OBVIOUS
<1> HIDE DEF f
<1>4. /\ main = "joining" /\ ctl = "done" /\ gen = "done" /\ UNCHANGED <<main, ctl, kill_thread>>
      /\ \A h \in {"s_data", "s_gen"} : fd[h] = ClosedFd
      /\ Open("up") => \E q \in UpPeers : RecvS(q)
  BY DEF AcceptUp, LeftInv, Open, NoRecvS
<1>5. /\ p \in Hopeful /\ Hopeful' \subseteq Hopeful
      /\ \A q \in UpPeers : RecvS(q) => q \in Hopeful /\ q # p /\ q \notin Hopeful'
  BY DEF Hopeful, AcceptUp, QueuedUp, RecvS
<1>6. /\ IsFiniteSet(Room) /\ Cardinality(Room) \in Nat /\ Cardinality(Room) >= 3 + Cardinality(Hopeful)
      /\ IsFiniteSet(Hopeful) /\ Cardinality(Hopeful) \in Nat /\ Cardinality(Hopeful) >= 1
      /\ IsFiniteSet(Rest(f, lost')) /\ Cardinality(Rest(f, lost')) \in Nat
      /\ IsFiniteSet(Hopeful') /\ Cardinality(Hopeful') \in Nat /\ Cardinality(Hopeful') <= Cardinality(Hopeful)
  <2>1. IsFiniteSet(Room) /\ Cardinality(Room) \in Nat
    BY RestFinite DEF Room
  <2>2. IsFiniteSet(Hopeful') /\ Cardinality(Hopeful') <= Cardinality(Hopeful)
    BY <1>5, HopefulFinite, FS_Subset
  <2>3. Cardinality(Hopeful') \in Nat
    BY <2>2, FS_CardinalityType
  <2>4. Cardinality(Room) >= 3 + Cardinality(Hopeful)
    BY DEF RoomInv, AcceptUp
  <2> QED BY <1>5, <2>1, <2>2, <2>3, <2>4, HopefulFinite, HopefulCounted, RestFinite
<1>7. /\ Cardinality(Rest(f, lost')) >= 4
      /\ Cardinality(Rest(f, lost')) >= 3 + Cardinality(Hopeful')
  <2>1. CASE ~Open("up")
    <3>1. lost' = lost
      BY <2>1 DEF Open, Numbers
    <3>2. Cardinality(Rest(f, lost')) >= Cardinality(Room)
      <4>1. \A h \in Std \cup Logs : f[h] \in {fd[h], ClosedFd}
        BY <1>2 DEF Std
      <4> QED BY <3>1, <4>1, RestGrows
    <3> QED BY <1>6, <3>2
  <2>2. CASE Open("up")
    <3>1. PICK q \in UpPeers : RecvS(q)
      BY <1>4, <2>2
    <3>2. q \in Hopeful /\ q # p /\ Hopeful' \subseteq Hopeful \ {q}
      BY <1>5, <3>1
    <3>3. Cardinality(Hopeful) >= 2
      BY <1>5, <3>2, HopefulCounted
    <3>4. Cardinality(Hopeful') <= Cardinality(Hopeful) - 1
      <4>1. IsFiniteSet(Hopeful \ {q}) /\ Cardinality(Hopeful \ {q}) = Cardinality(Hopeful) - 1
        BY <1>6, <3>2, FS_RemoveElement
      <4>2. Cardinality(Hopeful') <= Cardinality(Hopeful \ {q})
        BY <3>2, <4>1, FS_Subset
      <4> QED BY <4>1, <4>2
    <3>5. Room \ {fd["up"]} \subseteq Rest(f, lost')
      BY <1>2 DEF Room, Rest, Numbers, Std, Logs
    <3>6. IsFiniteSet(Room \ {fd["up"]}) /\ Cardinality(Room \ {fd["up"]}) \in Nat
          /\ Cardinality(Room \ {fd["up"]}) >= Cardinality(Room) - 1
      BY <1>6, OneLess
    <3>7. Cardinality(Room \ {fd["up"]}) <= Cardinality(Rest(f, lost'))
      BY <1>6, <3>5, FS_Subset
    <3> QED BY <1>6, <3>3, <3>4, <3>6, <3>7
  <2> QED BY <2>1, <2>2
<1>8. Table(f, lost')
  <2>1. Table(f, lost)
    BY <1>2, <1>3, ClosedTable DEF RoomInv
  <2>2. lost' \subseteq 0 .. MaxFd - 1
    BY DEF RoomInv, Table, Numbers, ClosedFd
  <2>3. ASSUME NEW h \in Holders PROVE f[h] \notin lost'
    <3>1. CASE f[h] = ClosedFd
      BY <2>2, <3>1 DEF ClosedFd
    <3>2. CASE f[h] # ClosedFd
      <4>1. f[h] = fd[h] /\ h # "up"
        BY <1>2, <3>2
      <4>2. f[h] \notin Numbers({"up"})
        BY <3>2, <4>1 DEF Numbers, RoomInv, Table
      <4> QED BY <2>1, <4>2 DEF Table
    <3> QED BY <3>1, <3>2
  <2> QED BY <2>1, <2>2, <2>3 DEF Table
<1>9. Free(f, lost') # {}
  <2>1. \A h \in Holders \ (Std \cup Logs) :
          f[h] \in {f["down"], f["server_send_sk"], f["server_recv_sk"], ClosedFd}
    BY <1>2, <1>4 DEF Std, Logs
  <2> QED BY <1>7, <2>1, FreeInTcp
<1>10. Table(fd', lost') /\ \A h \in Holders \ {"up"} : fd'[h] = f[h]
  <2>1. "up" \in Holders
    OBVIOUS
  <2>2. Table(Opened(f, lost', "up"), lost')
    BY <1>8, <1>9, <2>1, OpenedTable
  <2>3. \A h \in Holders \ {"up"} : Opened(f, lost', "up")[h] = f[h]
    BY <1>8, <1>9, <2>1, OpenedTable
  <2> QED BY <1>1, <2>2, <2>3
<1>11. Rest(fd', lost') = Rest(f, lost')
  BY <1>10 DEF Rest, Std, Logs
<1>12. Cardinality(Room') >= 2 /\ Cardinality(Room') >= 3 + Cardinality(Hopeful')
  BY <1>6, <1>7, <1>11 DEF Room
<1> QED BY <1>4, <1>10, <1>12 DEF RoomInv, Busy

LEMMA RoomReceiveTcp ==
  ASSUME RoomInv, LeftInv, ReceiveTcp
  PROVE  RoomInv'
<1>1. UNCHANGED vars
  BY DEF ReceiveTcp
<1>2. ASSUME NEW p \in UpPeers, AcceptUp(p), lost' = lost \cup Numbers({"up"}),
             fd' = Opened([fd EXCEPT !["up"] = ClosedFd], lost', "up")
      PROVE  RoomInv'
  BY <1>1, <1>2, RoomAccept
<1>3. ASSUME NEW p \in UpPeers, ReceiveUp(p) \/ ReportUp(p), UNCHANGED server_vars PROVE RoomInv'
  <2>1. UNCHANGED <<up_conn, tcp_send>> /\ tcp_recv # "off"
    BY <1>3 DEF ReceiveUp, ReportUp
  <2>2. Hopeful' = Hopeful /\ Table(fd, lost)' /\ \A h \in Holders : fd'[h] \in {fd[h], ClosedFd}
    BY <1>3, <2>1 DEF Hopeful, RoomInv, Table, ClosedFd
  <2> QED BY <1>1, <1>3, <2>1, <2>2, TcpCloses
<1>4. ASSUME CloseUp, tcp_recv # "off", Table(fd, lost)', lost' \subseteq lost,
             \A h \in Holders : fd'[h] \in {fd[h], ClosedFd}
      PROVE  RoomInv'
  <2>1. Hopeful' = Hopeful
    BY <1>4 DEF CloseUp, Hopeful, Orphans
  <2> QED BY <1>1, <1>4, <2>1, TcpCloses
<1>5. ASSUME NEW hs, CloseAll(hs) PROVE Table(fd, lost)' /\ lost' \subseteq lost /\ \A h \in Holders : fd'[h] \in {fd[h], ClosedFd}
  BY <1>5, ClosedTable DEF CloseAll, RoomInv
<1>6. ASSUME NEW p \in UpPeers, DisconnectedUp(p), CloseAll({"up", "server_recv_sk"}) PROVE RoomInv'
  BY <1>4, <1>5, <1>6 DEF DisconnectedUp
<1>7. CASE TimeoutUp /\ CloseAll({"up", "server_recv_sk"})
  BY <1>4, <1>5, <1>7 DEF TimeoutUp
<1>8. ASSUME NEW junk \in Junk, TimeoutUp, lost' = lost \ {junk},
             fd' = [h \in Holders |-> IF h = "server_recv_sk" \/ fd[h] = junk THEN ClosedFd ELSE fd[h]]
      PROVE  RoomInv'
  <2>1. Table(fd', lost)
    BY <1>8, ClosedTable DEF RoomInv
  <2>2. Table(fd', lost')
    BY <1>8, <2>1 DEF Table
  <2> QED BY <1>4, <1>8, <2>2 DEF TimeoutUp
<1> QED BY <1>2, <1>3, <1>6, <1>7, <1>8 DEF ReceiveTcp

LEMMA RoomMain ==
  ASSUME RoomInv, LeftInv, ctl # "exited", MainThread
  PROVE  RoomInv'
<1> USE AllHolders, ServerAssumption
<1>1. CASE StartUdp
  <2>1. Open("server_send_sk") /\ tcp_recv = "off" /\ tcp_send = "off"
    BY <1>1 DEF StartUdp, StartSender, Listening, mask, Open, ClosedFd, LeftInv
  <2>2. main' = "serving" /\ ctl' = "created" /\ UNCHANGED <<fd, lost, tcp_recv, tcp_send>>
    BY <1>1 DEF StartUdp, StartSender
  <2> QED BY <2>1, <2>2 DEF RoomInv, Room, Rest, Table, Open, ClosedFd
<1>2. CASE ReceiverPrints
  <2>1. main = "serving" /\ Open("server_recv_sk") /\ SendFeedback("download") /\ UNCHANGED <<vars, tcp_vars>>
    BY <1>2 DEF ReceiverPrints, Open
  <2>2. Open("server_send_sk")
    BY <2>1 DEF RoomInv, Busy
  <2>3. Table(fd, lost)' /\ Cardinality(Room') >= 2 /\ \A h \in Holders \ Logs : fd'[h] = fd[h]
    BY <2>1, <2>2, LogOpened DEF Std
  <2>4. tcp_recv' = "off" /\ tcp_send' = "off"
    BY <2>1 DEF LeftInv
  <2> QED BY <2>1, <2>3, <2>4 DEF RoomInv, Open, ClosedFd
<1>3. CASE ReceiverCloses
  <2>1. Table(fd, lost)' /\ lost' = lost /\ \A h \in Holders : fd'[h] \in {fd[h], ClosedFd}
    BY <1>3, ClosedTable DEF ReceiverCloses, CloseAll, RoomInv
  <2>2. Cardinality(Room') >= 2
    BY <2>1, RoomStays DEF Holders
  <2>3. \A h \in Holders \ {"server_recv_sk"} : fd'[h] = fd[h]
    BY <1>3 DEF ReceiverCloses, CloseAll
  <2>4. UNCHANGED vars /\ tcp_recv' = "off" /\ tcp_send' = "off"
    BY <1>3 DEF ReceiverCloses, LeftInv
  <2> QED BY <2>1, <2>2, <2>3, <2>4 DEF RoomInv, Open, ClosedFd
<1>4. CASE StopSender
  <2>1. main' \in {"stopping", "joining"} /\ UNCHANGED <<ctl, fd, lost, tcp_vars>>
    BY <1>4 DEF StopSender, stop_controller_thread, stop_data_generator_thread
  <2> QED BY <2>1 DEF RoomInv, Room, Rest, Table, Hopeful, Open, ClosedFd
<1> QED BY <1>1, <1>2, <1>3, <1>4, RoomStartTcp, RoomReopen, RoomReceiveTcp DEF MainThread

LEMMA RoomClients ==
  ASSUME RoomInv, LeftInv, TcpClients, UNCHANGED <<vars, server_vars>>
  PROVE  RoomInv'
<1>1. UNCHANGED <<tcp_recv, tcp_send>> /\ Hopeful' = Hopeful
  <2>1. ASSUME NEW p \in UpPeers, ClientSender(p) \/ UpPeerActs(p)
        PROVE  UNCHANGED <<tcp_recv, tcp_send>> /\ Hopeful' = Hopeful
    <3>1. CASE ConnectUp(p)
      BY <3>1 DEF ConnectUp, Hopeful, LeftInv
    <3>2. CASE ClientSender(p) \/ stop_tcp_send_thread(p) \/ SenderLost(p)
      BY <3>2 DEF ClientSender, ClientSends, ClientPolls, stop_tcp_send_thread, SenderLost, Hopeful
    <3> QED BY <2>1, <3>1, <3>2 DEF UpPeerActs
  <2>2. ASSUME NEW p \in DownPeers, ClientReceiver(p) \/ DownPeerActs(p)
        PROVE  UNCHANGED <<tcp_recv, tcp_send>> /\ Hopeful' = Hopeful
    BY <2>2 DEF ClientReceiver, ClientReceives, ReceiverReturns, DownPeerActs, ConnectDown,
         stop_tcp_recv_thread, ReceiverLost, Hopeful
  <2> QED BY <2>1, <2>2 DEF TcpClients
<1> QED BY <1>1 DEF RoomInv, Room, Rest, Table, Open, ClosedFd

LEMMA RoomNext == RoomInv /\ LeftInv /\ [ServerNext]_all_vars => RoomInv'
<1>1. UNCHANGED all_vars /\ RoomInv => RoomInv'
  BY RoomUnchanged
<1> QED BY <1>1, RoomMain, RoomControl, RoomData, RoomTcpSend, RoomClients DEF ServerNext, Running

\* No descriptor has two holders, none that is held counts as lost, and the server finds
\* one wherever main() and the TCP threads open one without a way out ("re-open socket
\* that was closed by controller process"): for any number of descriptors and of peers.
THEOREM ServerTypeCorrect == ServerSpec => []ServerTypeOK
<1> DEFINE IInv == TypeOK /\ TcpTypeOK /\ LeftInv /\ RoomInv
<1>1. ServerInit => IInv
  <2>1. Init => TypeOK
    <3> SUFFICES ASSUME Init PROVE TypeOK
      OBVIOUS
    <3>1. data_queue \in Seq({"START", "DATA"}) /\ Len(data_queue) <= QueueSize
      BY ThreadsAssumption DEF Init
    <3>2. gen_queue \in Seq({"START", "CONTROL"}) /\ Len(gen_queue) <= QueueSize
      BY ThreadsAssumption DEF Init
    <3> QED BY <3>1, <3>2 DEF Init, TypeOK
  <2>2. TcpInit => TcpTypeOK
    <3> SUFFICES ASSUME TcpInit PROVE TcpTypeOK
      OBVIOUS
    <3>1. 0 \in 0 .. Capacity
      BY TcpAssumption
    <3>2. upward \in [UpPeers -> 0 .. Capacity] /\ reports \in [UpPeers -> 0 .. Capacity]
      BY <3>1 DEF TcpInit
    <3>3. downward \in [DownPeers -> 0 .. Capacity]
      BY <3>1 DEF TcpInit
    <3>4. up_conn \in [UpPeers -> {"none", "queued", "taken", "orphan", "stray"}]
      BY DEF TcpInit
    <3>5. down_conn \in [DownPeers -> {"none", "queued", "taken"}]
      BY DEF TcpInit
    <3>6. send_pc \in [UpPeers -> Sending \cup {"off", "done", "gone"}] /\ send_kill \in [UpPeers -> BOOLEAN]
      BY DEF TcpInit
    <3>7. recv_pc \in [DownPeers -> Receiving \cup {"off", "done"}] /\ recv_kill \in [DownPeers -> BOOLEAN]
      BY DEF TcpInit
    <3> QED BY <3>2, <3>3, <3>4, <3>5, <3>6, <3>7 DEF TcpInit, TcpTypeOK
  <2>3. ServerInit => Init /\ TcpInit
    BY DEF ServerInit
  <2> QED BY <2>1, <2>2, <2>3, LeftInit, RoomInit
<1>2. IInv /\ [ServerNext]_all_vars => IInv'
  BY ThreadTypes, ServerTakesThreadSteps, TcpTypes, ServerTakesTcpSteps, LeftNext, RoomNext
<1>3. IInv => ServerTypeOK
  BY DEF ServerTypeOK, RoomInv, Table
<1> QED BY <1>1, <1>2, <1>3, PTL DEF ServerSpec

================================================================================
