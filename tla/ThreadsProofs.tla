----------------------------- MODULE ThreadsProofs ------------------------------
(***************************************************************************)
(* What holds of the server's sender threads for every size of their       *)
(* queues, and however slow they are.                                      *)
(***************************************************************************)
EXTENDS Server, TLAPS

USE DEF vars, control_vars, generator_vars

--------------------------------------------------------------------------------
(* The steps of the sender threads. *)

ControlSteps ==
  \/ send_bandwidth \/ start_controller \/ AskGenerator \/ AskAgain \/ Connect
  \/ ControlIterates \/ ControlTellsSpeed \/ ControlStops \/ JoinGenerator

GeneratorSteps ==
  \/ start_generator \/ GeneratorLoops \/ GeneratorReceives \/ GeneratorReplies
  \/ GeneratorWakes \/ GeneratorSends

MainSteps ==
  \/ StartSender \/ stop_controller_thread \/ stop_data_generator_thread \/ JoinSender
  \/ main' \in {main, "joining"} \ {"accept"} /\ UNCHANGED <<control_vars, generator_vars, data_queue, gen_queue>>

ThreadsNext == ControlSteps \/ GeneratorSteps \/ MainSteps

\* Whatever else the process does, its sender threads take their own steps.
LEMMA ServerTakesThreadSteps == [ServerNext]_all_vars => [ThreadsNext]_vars
<1>1. CASE ControlThread
  BY <1>1 DEF ControlThread, OpenOrExit, ThreadsNext, ControlSteps
<1>2. CASE DataThread
  BY <1>2 DEF DataThread, OpenOrExit, ThreadsNext, GeneratorSteps
<1>3. CASE MainThread
  BY <1>3 DEF MainThread, StartUdp, StartTcp, ReceiverPrints, ReceiverCloses, StopSender,
       JoinAndReopen, ReceiveTcp, ThreadsNext, MainSteps
<1>4. CASE TcpSendThread
  BY <1>4 DEF TcpSendThread
<1> QED BY <1>1, <1>2, <1>3, <1>4 DEF ServerNext, all_vars

--------------------------------------------------------------------------------
(* The question of the controller and its answer. *)

\* No answer, and no question, is in a queue.
NoStart(queue) == \A i \in 1 .. Len(queue) : queue[i] # "START"

QueuesType ==
  /\ ctl \in {"created", "start", "ask", "await", "control", "send_control", "join", "done", "exited"}
  /\ gen \in {"created", "top", "select", "reply", "send", "done"}
  /\ data_queue \in Seq({"START", "DATA"}) /\ Len(data_queue) <= QueueSize
  /\ gen_queue \in Seq({"START", "CONTROL"}) /\ Len(gen_queue) <= QueueSize

\* The question is not on its way, on its way, being answered, or answered.
Unasked ==
  /\ gen_queue = <<>> /\ data_queue = <<>>
  /\ gen \in {"created", "top", "select", "done"}
  /\ gen \in {"top", "select"} => ~start
Asked ==
  /\ gen_queue = <<"START">> /\ data_queue = <<>>
  /\ gen \in {"top", "select"} /\ ~start
Answering == gen_queue = <<>> /\ data_queue = <<>> /\ gen = "reply"
Answered ==
  /\ gen_queue = <<>> /\ data_queue # <<>>
  /\ \A i \in 1 .. Len(data_queue) : data_queue[i] = "START" => i = 1
  /\ gen \notin {"created", "reply"}

\* Whose question is answered within the second never sees a second answer.
Prompt ==
  /\ ctl # "exited"
  /\ ctl \in {"start", "ask"} => Unasked
  /\ ctl = "await" => Unasked \/ Asked \/ Answering \/ Answered
  /\ ctl \in {"control", "send_control", "join"} =>
       NoStart(data_queue) /\ NoStart(gen_queue) /\ gen \notin {"created", "reply"}

\* The controller came to send when it had just found its own socket empty, or made
\* room there; the generator, while its socket is full, sends no more than it had in hand.
RoomForOne ==
  ctl \in {"ask", "send_control"} /\ s_gen /\ Len(gen_queue) = QueueSize /\ gen \in {"reply", "send"}
    => Len(data_queue) < QueueSize

ThreadsInv ==
  /\ QueuesType
  /\ slow \in BOOLEAN
  /\ s_data <=> ctl \in {"ask", "await", "control", "send_control", "exited"}
  /\ ~s_data => data_queue = <<>>
  /\ s_gen <=> gen \in {"top", "select", "reply", "send"}
  /\ ~s_gen => gen_queue = <<>>
  /\ ctl \in {"created", "done"} => gen = "done" /\ ~slow
  /\ main = "accept" => ctl = "done"
  /\ ~slow => Prompt
  /\ RoomForOne

LEMMA ThreadsInit == Init => ThreadsInv
<1> SUFFICES ASSUME Init PROVE ThreadsInv
  OBVIOUS
<1>1. QueuesType
  BY ThreadsAssumption DEF Init, QueuesType
<1>2. Prompt /\ RoomForOne
  BY DEF Init, Prompt, RoomForOne
<1> QED BY <1>1, <1>2 DEF Init, ThreadsInv

LEMMA ThreadsMain == ThreadsInv /\ MainSteps => ThreadsInv'
BY DEF ThreadsInv, QueuesType, Prompt, RoomForOne, Unasked, Asked, Answering, Answered, NoStart,
   MainSteps, StartSender, stop_controller_thread, stop_data_generator_thread, JoinSender

LEMMA ThreadsControl == ASSUME ThreadsInv, ControlSteps PROVE ThreadsInv'
<1> USE ThreadsAssumption DEF ThreadsInv, QueuesType, Prompt, RoomForOne
<1>1. CASE send_bandwidth
  BY <1>1 DEF send_bandwidth, Unasked
<1>2. CASE start_controller
  BY <1>2 DEF start_controller, Unasked
<1>3. CASE AskGenerator
  <2>1. CASE slow
    BY <1>3, <2>1 DEF AskGenerator, SendTo
  <2>2. CASE ~slow
    BY <1>3, <2>2 DEF AskGenerator, SendTo, Unasked, Asked
  <2> QED BY <2>1, <2>2
<1>4. CASE AskAgain
  <2>1. CASE slow'
    BY <1>4, <2>1 DEF AskAgain
  <2>2. CASE ~slow'
    BY <1>4, <2>2 DEF AskAgain, HasQuestion, Unasked, Asked, Answering, Answered
  <2> QED BY <2>1, <2>2
<1>5. CASE Connect
  BY <1>5 DEF Connect, Unasked, Asked, Answering, Answered, NoStart
<1>6. CASE ControlIterates
  <2>1. PICK report \in BOOLEAN :
          /\ report \/ data_queue # <<>>
          /\ data_queue' = IF DataRead(report) THEN Tail(data_queue) ELSE data_queue
          /\ ctl' = IF DataRead(report) /\ Head(data_queue) = "START" THEN "exited"
                    ELSE IF report THEN "send_control" ELSE "control"
    BY <1>6 DEF ControlIterates
  <2>2. CASE data_queue = <<>>
    BY <1>6, <2>1, <2>2 DEF ControlIterates, DataRead, NoStart
  <2>3. CASE data_queue # <<>>
    <3>1. /\ data_queue' = Tail(data_queue) /\ Len(data_queue') = Len(data_queue) - 1
          /\ data_queue' \in Seq({"START", "DATA"})
      BY <1>6, <2>1, <2>3 DEF ControlIterates, DataRead
    <3>2. ctl' \in {"control", "send_control", "exited"}
      BY <2>1
    <3>3. UNCHANGED <<gen, gen_queue, main, s_data, s_gen, slow>> /\ ctl = "control"
      BY <1>6 DEF ControlIterates
    <3>4. RoomForOne'
      BY <3>1, <3>3
    <3>5. QueuesType'
      BY <3>1, <3>2, <3>3
    <3>6. ASSUME ~slow PROVE Prompt'
      <4>1. Head(data_queue) # "START" /\ NoStart(data_queue)'
        BY <2>3, <3>1, <3>3, <3>6 DEF NoStart
      <4>2. ctl' \in {"control", "send_control"}
        BY <2>1, <4>1
      <4> QED BY <3>3, <3>6, <4>1, <4>2 DEF NoStart
    <3> QED BY <3>1, <3>2, <3>3, <3>4, <3>5, <3>6
  <2> QED BY <2>2, <2>3
<1>7. CASE ControlTellsSpeed
  BY <1>7 DEF ControlTellsSpeed, SendTo, NoStart
<1>8. CASE ControlStops
  BY <1>8 DEF ControlStops, NoStart
<1>9. CASE JoinGenerator
  BY <1>9 DEF JoinGenerator
<1> QED BY <1>1, <1>2, <1>3, <1>4, <1>5, <1>6, <1>7, <1>8, <1>9 DEF ControlSteps

LEMMA ThreadsGenerator == ASSUME ThreadsInv, GeneratorSteps PROVE ThreadsInv'
<1> USE ThreadsAssumption DEF ThreadsInv, QueuesType, Prompt, RoomForOne, Unasked, Asked, Answering, Answered, NoStart
<1>1. CASE start_generator
  BY <1>1 DEF start_generator
<1>2. CASE GeneratorLoops
  <2>1. CASE GeneratorLeaves
    BY <1>2, <2>1 DEF GeneratorLoops
  <2>2. CASE ~GeneratorLeaves
    BY <1>2, <2>2 DEF GeneratorLoops
  <2> QED BY <2>1, <2>2
<1>3. CASE GeneratorReceives
  BY <1>3 DEF GeneratorReceives
<1>4. CASE GeneratorReplies
  BY <1>4 DEF GeneratorReplies, SendTo
<1>5. CASE GeneratorWakes
  BY <1>5 DEF GeneratorWakes
<1>6. CASE GeneratorSends
  <2>1. CASE s_data
    <3>1. /\ data_queue' = Append(data_queue, "DATA") /\ Len(data_queue') = Len(data_queue) + 1
          /\ data_queue' \in Seq({"START", "DATA"}) /\ Len(data_queue) < QueueSize
          /\ \A i \in 1 .. Len(data_queue') : data_queue'[i] = "START" => i <= Len(data_queue) /\ data_queue[i] = "START"
      BY <1>6, <2>1 DEF GeneratorSends, SendTo
    <3>2. data_queue' # <<>> /\ (~slow => ctl \notin {"start", "ask"})
      BY <1>6, <3>1 DEF GeneratorSends
    <3>3. ~slow /\ ctl = "await" => Answered
      BY <1>6 DEF GeneratorSends
    <3> QED BY <1>6, <2>1, <3>1, <3>2, <3>3 DEF GeneratorSends
  <2>2. CASE ~s_data
    BY <1>6, <2>2 DEF GeneratorSends, SendTo
  <2> QED BY <2>1, <2>2
<1> QED BY <1>1, <1>2, <1>3, <1>4, <1>5, <1>6 DEF GeneratorSteps

LEMMA ThreadsStep == ThreadsInv /\ [ServerNext]_all_vars => ThreadsInv'
<1>1. ThreadsInv /\ UNCHANGED vars => ThreadsInv'
  BY DEF ThreadsInv, QueuesType, Prompt, RoomForOne, Unasked, Asked, Answering, Answered, NoStart
<1> QED BY <1>1, ServerTakesThreadSteps, ThreadsMain, ThreadsControl, ThreadsGenerator DEF ThreadsNext

\* control() takes a second answer of the generator for a packet, and exits because
\* of it, only where the generator kept the question for a second: whatever the
\* sockets between them hold and however often a session is stopped early.
THEOREM NeverIpcError == ServerSpec => []NoIpcError
<1>1. ServerInit => ThreadsInv
  BY ThreadsInit DEF ServerInit
<1>2. ThreadsInv /\ [ServerNext]_all_vars => ThreadsInv'
  BY ThreadsStep
<1>3. ThreadsInv => NoIpcError
  BY DEF ThreadsInv, Prompt, NoIpcError
<1> QED BY <1>1, <1>2, <1>3, PTL DEF ServerSpec

\* The controller and the generator never each wait for room in the other's
\* socket, whatever the sockets hold and however slow either is.
THEOREM NeverDeadlocked == ServerSpec => []NeverBothBlocked
<1>1. ServerInit => ThreadsInv
  BY ThreadsInit DEF ServerInit
<1>2. ThreadsInv /\ [ServerNext]_all_vars => ThreadsInv'
  BY ThreadsStep
<1>3. ThreadsInv => NeverBothBlocked
  BY DEF ThreadsInv, QueuesType, NeverBothBlocked, RoomForOne
<1> QED BY <1>1, <1>2, <1>3, PTL DEF ServerSpec
================================================================================
