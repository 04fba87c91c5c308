----------------------------- MODULE SenderThreads ------------------------------
(***************************************************************************)
(* The threads of the sender: send_bandwidth(), which runs                 *)
(* start_controller(), and start_generator(), with the two UNIX datagram   *)
(* sockets between them and the flags that stop them.                      *)
(*                                                                         *)
(* The main thread is the server's: it starts a sender for each session,   *)
(* stops it when the receiver has returned, and waits for it.  What        *)
(* control() does with the data is Controller's; here it reads them, and   *)
(* it sends a new speed when a report came.  Server says when the threads  *)
(* run, together with what else main() does.                               *)
(*                                                                         *)
(* A UNIX datagram socket accepts a bounded number of datagrams; a sender  *)
(* blocks until there is room, and fails at once if nobody is bound.       *)
(***************************************************************************)
EXTENDS Naturals, Sequences

CONSTANTS
  QueueSize,      \* external: datagrams a socket queues
  StopsEarly      \* a receiver may return before the sender has started

ASSUME ThreadsAssumption ==
  /\ QueueSize \in Nat \ {0}
  /\ StopsEarly \in BOOLEAN

VARIABLES
  main,               \* "accept", "serving", "stopping" or "joining"
  ctl,                \* where the controller thread is
  gen,                \* where the generator thread is
  kill_thread,        \* of controller.c
  stop_thread,        \* of data_generator.c
  s_data, data_queue, \* the controller's socket: is it bound; what it has queued
  s_gen, gen_queue,   \* the generator's socket
  start,              \* the generator was told to start
  slow                \* history: in this session the generator had the question for
                      \* TIMEOUT_SEC and had not answered

control_vars == <<ctl, kill_thread, s_data, slow>>
generator_vars == <<gen, stop_thread, s_gen, start>>
vars == <<main, control_vars, generator_vars, data_queue, gen_queue>>

Init ==
  /\ main = "accept"
  /\ ctl = "done" /\ gen = "done"
  /\ kill_thread = FALSE /\ stop_thread = FALSE
  /\ s_data = FALSE /\ data_queue = <<>>
  /\ s_gen = FALSE /\ gen_queue = <<>>
  /\ start = FALSE
  /\ slow = FALSE

\* Mutant of SendTo: the sender does not wait for room.
SendToAnyway(bound, queue, m) == queue' = IF bound THEN Append(queue, m) ELSE queue

\* The datagram m is sent to a socket: it blocks, is queued, or fails.
SendTo(bound, queue, m) ==
  /\ bound => Len(queue) < QueueSize
  /\ queue' = IF bound THEN Append(queue, m) ELSE queue

--------------------------------------------------------------------------------
(* The server's main thread. *)

StartSender ==
  /\ main = "accept"
  /\ main' = "serving"
  /\ ctl' = "created"
  /\ UNCHANGED <<kill_thread, s_data, slow, generator_vars, data_queue, gen_queue>>

stop_controller_thread ==
  /\ main = "serving"
  /\ StopsEarly \/ ctl \in {"control", "send_control"}
  /\ main' = "stopping"
  /\ kill_thread' = TRUE
  /\ UNCHANGED <<ctl, s_data, slow, generator_vars, data_queue, gen_queue>>

stop_data_generator_thread ==
  /\ main = "stopping"
  /\ main' = "joining"
  /\ stop_thread' = TRUE
  /\ UNCHANGED <<control_vars, gen, s_gen, start, data_queue, gen_queue>>

JoinSender ==
  /\ main = "joining"
  /\ ctl = "done"
  /\ main' = "accept"
  /\ UNCHANGED <<control_vars, generator_vars, data_queue, gen_queue>>

--------------------------------------------------------------------------------
(* The controller thread. *)

send_bandwidth ==
  /\ ctl = "created"
  /\ ctl' = "start"
  /\ gen' = "created"
  /\ UNCHANGED <<main, kill_thread, s_data, slow, stop_thread, s_gen, start, data_queue, gen_queue>>

start_controller ==
  /\ ctl = "start"
  /\ ctl' = "ask"
  /\ kill_thread' = FALSE
  /\ s_data' = TRUE /\ data_queue' = <<>>
  /\ UNCHANGED <<main, slow, generator_vars, gen_queue>>

\* "Connecting for data_generator"
AskGenerator ==
  /\ ctl = "ask"
  /\ ctl' = "await"
  /\ SendTo(s_gen, gen_queue, "START")
  /\ UNCHANGED <<main, kill_thread, s_data, slow, generator_vars, data_queue>>

\* The generator has the question.
HasQuestion == gen = "reply" \/ gen_queue # <<>>

\* Nothing in TIMEOUT_SEC: asked again.
AskAgain ==
  /\ ctl = "await"
  /\ data_queue = <<>>
  /\ ctl' = "ask"
  /\ slow' = (slow \/ HasQuestion)
  /\ UNCHANGED <<main, kill_thread, s_data, generator_vars, data_queue, gen_queue>>

\* Mutant of Connect: the answer is not read.
ConnectUnread ==
  /\ ctl = "await"
  /\ data_queue # <<>>
  /\ ctl' = "control"
  /\ UNCHANGED <<main, kill_thread, s_data, slow, generator_vars, data_queue, gen_queue>>

Connect ==
  /\ ctl = "await"
  /\ data_queue # <<>>
  /\ data_queue' = Tail(data_queue)
  /\ ctl' = "control"
  /\ UNCHANGED <<main, kill_thread, s_data, slow, generator_vars, gen_queue>>

\* Mutant of DataRead: where a report has come, the data wait.
DataReadLate(report) == ~report /\ data_queue # <<>>

\* An iteration of control() that finds data reads them, whatever else came.
DataRead(report) == data_queue # <<>>

\* An iteration of control(), with a report or without.  A datagram that is not
\* a packet's size is an "ipc error": exit(1).
ControlIterates ==
  /\ ctl = "control"
  /\ ~kill_thread
  /\ \E report \in BOOLEAN :
       /\ report \/ data_queue # <<>>
       /\ data_queue' = IF DataRead(report) THEN Tail(data_queue) ELSE data_queue
       /\ ctl' = IF DataRead(report) /\ Head(data_queue) = "START" THEN "exited"
                 ELSE IF report THEN "send_control"
                 ELSE "control"
  /\ UNCHANGED <<main, kill_thread, s_data, slow, generator_vars, gen_queue>>

ControlTellsSpeed ==
  /\ ctl = "send_control"
  /\ ctl' = "control"
  /\ SendTo(s_gen, gen_queue, "CONTROL")
  /\ UNCHANGED <<main, kill_thread, s_data, slow, generator_vars, data_queue>>

ControlStops ==
  /\ ctl = "control"
  /\ kill_thread
  /\ ctl' = "join"
  /\ s_data' = FALSE /\ data_queue' = <<>>
  /\ UNCHANGED <<main, kill_thread, slow, generator_vars, gen_queue>>

\* Mutant of JoinGenerator: the generator is not waited for.
JoinNobody ==
  /\ ctl = "join"
  /\ ctl' = "done"
  /\ UNCHANGED <<main, kill_thread, s_data, slow, generator_vars, data_queue, gen_queue>>

JoinGenerator ==
  /\ ctl = "join"
  /\ gen = "done"
  /\ ctl' = "done"
  /\ slow' = FALSE
  /\ UNCHANGED <<main, kill_thread, s_data, generator_vars, data_queue, gen_queue>>

--------------------------------------------------------------------------------
(* The generator thread. *)

start_generator ==
  /\ gen = "created"
  /\ gen' = "top"
  /\ stop_thread' = FALSE
  /\ s_gen' = TRUE /\ gen_queue' = <<>>
  /\ start' = FALSE
  /\ UNCHANGED <<main, control_vars, data_queue>>

\* Mutant of GeneratorLeaves: the flag is looked at only before the start.
LeavesUnstarted == stop_thread /\ ~start

GeneratorLeaves == stop_thread

GeneratorLoops ==
  /\ gen = "top"
  /\ IF GeneratorLeaves
     THEN gen' = "done" /\ s_gen' = FALSE /\ gen_queue' = <<>>
     ELSE gen' = "select" /\ UNCHANGED <<s_gen, gen_queue>>
  /\ UNCHANGED <<main, control_vars, stop_thread, start, data_queue>>

\* A LOCAL_CONTROL only sets the speed.
GeneratorReceives ==
  /\ gen = "select"
  /\ gen_queue # <<>>
  /\ gen_queue' = Tail(gen_queue)
  /\ gen' = IF Head(gen_queue) = "START" THEN "reply" ELSE "top"
  /\ UNCHANGED <<main, control_vars, stop_thread, s_gen, start, data_queue>>

GeneratorReplies ==
  /\ gen = "reply"
  /\ gen' = "top"
  /\ start' = TRUE
  /\ SendTo(s_data, data_queue, "START")
  /\ UNCHANGED <<main, control_vars, stop_thread, s_gen, gen_queue>>

GeneratorWakes ==
  /\ gen = "select"
  /\ gen_queue = <<>>
  /\ gen' = IF start THEN "send" ELSE "top"
  /\ UNCHANGED <<main, control_vars, stop_thread, s_gen, start, data_queue, gen_queue>>

\* A packet.  Those that are made up for a late timer are sent with send(), on a
\* socket that was bound and never connected: it fails, and nobody looks.
GeneratorSends ==
  /\ gen = "send"
  /\ gen' = "top"
  /\ SendTo(s_data, data_queue, "DATA")
  /\ UNCHANGED <<main, control_vars, stop_thread, s_gen, start, gen_queue>>

--------------------------------------------------------------------------------
(* Properties. *)

TypeOK ==
  /\ main \in {"accept", "serving", "stopping", "joining"}
  /\ ctl \in {"created", "start", "ask", "await", "control", "send_control", "join", "done", "exited"}
  /\ gen \in {"created", "top", "select", "reply", "send", "done"}
  /\ kill_thread \in BOOLEAN /\ stop_thread \in BOOLEAN
  /\ s_data \in BOOLEAN /\ s_gen \in BOOLEAN
  /\ data_queue \in Seq({"START", "DATA"}) /\ Len(data_queue) <= QueueSize
  /\ gen_queue \in Seq({"START", "CONTROL"}) /\ Len(gen_queue) <= QueueSize
  /\ start \in BOOLEAN /\ slow \in BOOLEAN

\* control() takes an answer of the generator for a packet, and exits because of its
\* size, only where the generator had the question for a second without answering:
\* a question asked before its socket was bound, or lost when it closed, is never
\* answered twice, and no answer outlives its session.
NoIpcError == ctl = "exited" => slow

\* The two threads fill each other's sockets but never wait for each other.
NeverBothBlocked ==
  ~ /\ ctl \in {"ask", "send_control"} /\ s_gen /\ Len(gen_queue) = QueueSize
    /\ gen \in {"reply", "send"} /\ s_data /\ Len(data_queue) = QueueSize
================================================================================
