------------------------------ MODULE Interactive -------------------------------
(***************************************************************************)
(* The interactive server, main() of interactive_server.c, and its         *)
(* clients, interactive_client.c: a client asks for an id, and what a user *)
(* draws is sent to every user.                                            *)
(*                                                                         *)
(* The address of a user is stored when its first drawing arrives.  The    *)
(* table of users is not initialised: what its flags hold before is up to  *)
(* the stack.  ECHO packets are answered and change nothing, TIMING and    *)
(* REPORT packets are not even answered: they are left out.                *)
(***************************************************************************)
EXTENDS Integers

CONSTANTS
  Clients,         \* addresses clients connect from
  Unset,           \* the address of a user whose address_set is false
  Junk,            \* that of one whose uninitialised address_set is not
  max_num_users,   \* argv[2]
  MayDuplicate,    \* the network may duplicate packets
  Rejoiners        \* external: clients that may connect again with the id they have

ASSUME InteractiveAssumption ==
  /\ {Unset, Junk} \cap Clients = {}
  /\ max_num_users \in Nat \ {0}
  /\ MayDuplicate \in BOOLEAN
  /\ Rejoiners \subseteq Clients

Ids == 0 .. max_num_users - 1

VARIABLES
  num_users,         \* of the server; users_id[i] = i for the ids below it
  socket_addr,       \* users[i].socket_addr, Unset where address_set is false
  error,             \* _connect.error, a static
  cpc,               \* "off", "connecting", "connected", "rejoining", "refused", or
                     \* "misled" where a drawing was taken for the answer
  read_mask,         \* the client's socket is in its read_mask
  id,                \* packet_send.id
  toServer, toClient \* packets in flight; one that is lost is never read

server_vars == <<num_users, socket_addr, error>>
client_vars == <<cpc, read_mask, id>>
vars == <<server_vars, client_vars, toServer, toClient>>

Connect(n, c) == [type |-> "CONNECT", id |-> n, client |-> c, error |-> "NO_ERROR"]
Drawing(n, c) == [type |-> "INTERACTIVE", id |-> n, client |-> c, error |-> "NO_ERROR"]
Answer(n, err, c) == [type |-> "CONNECT", id |-> n, client |-> c, error |-> err]

Init ==
  /\ num_users = 0
  /\ socket_addr \in [Ids -> {Unset, Junk}]
  /\ error = "NO_ERROR"
  /\ cpc = [c \in Clients |-> "off"]
  /\ read_mask = [c \in Clients |-> FALSE]
  /\ id = [c \in Clients |-> -1]
  /\ toServer = {}
  /\ toClient = {}

\* What is left in flight when m has been read.
Remaining(net, m) == IF MayDuplicate THEN {net, net \ {m}} ELSE {net \ {m}}

--------------------------------------------------------------------------------
(* The server: one packet for each iteration. *)

\* "check if the address of the user is set"
SetAddress(n, c) ==
  socket_addr' = [socket_addr EXCEPT ![n] = IF @ = Unset THEN c ELSE @]

\* What is drawn is "sent to each user", to whatever address the table holds.
ServerDraws ==
  /\ \E m \in toServer :
       /\ m.type = "INTERACTIVE"
       /\ toServer' \in Remaining(toServer, m)
       /\ SetAddress(m.id, m.client)
       /\ toClient' = toClient \cup
            {Drawing(m.id, socket_addr'[i]) : i \in 0 .. num_users - 1}
  /\ UNCHANGED <<num_users, error, client_vars>>

\* Mutant of Admit: the id is given away, and kept for the next.
AdmitAgain(c) ==
  /\ toClient' = toClient \cup {Answer(num_users, "NO_ERROR", c)}
  /\ error' = "NO_ERROR"
  /\ UNCHANGED num_users

\* "assign new user with an id"
Admit(c) ==
  /\ toClient' = toClient \cup {Answer(num_users, "NO_ERROR", c)}
  /\ error' = "NO_ERROR"
  /\ num_users' = num_users + 1

\* Mutants of Full: a place is left unused; one too many is given away.
FullEarly == num_users = max_num_users - 1
FullLate == num_users > max_num_users

\* "maximum number of users reached"
Full == num_users = max_num_users

Refuse(c) ==
  /\ toClient' = toClient \cup {Answer(-1, "MAX_USERS_REACHED", c)}
  /\ error' = "MAX_USERS_REACHED"
  /\ UNCHANGED num_users

\* Of a user that exists, the answer's error is what the last answer left there.
Recognise(n, c) ==
  LET err == IF n < num_users THEN error ELSE "ID_NOT_FOUND"
  IN  /\ toClient' = toClient \cup {Answer(n, err, c)}
      /\ error' = err
      /\ UNCHANGED num_users

ServerConnects ==
  /\ \E m \in toServer :
       /\ m.type = "CONNECT"
       /\ toServer' \in Remaining(toServer, m)
       /\ IF m.id # -1 THEN Recognise(m.id, m.client)
          ELSE IF Full THEN Refuse(m.client)
          ELSE Admit(m.client)
  /\ UNCHANGED <<socket_addr, client_vars>>

--------------------------------------------------------------------------------
(* A client. *)

\* interactive_connect() sends and then waits; read_mask is set before the loop.
ClientConnects(c) ==
  /\ cpc[c] = "off"
  /\ cpc' = [cpc EXCEPT ![c] = "connecting"]
  /\ read_mask' = [read_mask EXCEPT ![c] = TRUE]
  /\ toServer' = toServer \cup {Connect(-1, c)}
  /\ UNCHANGED <<id, server_vars, toClient>>

\* select() clears the mask it is given, and the request is sent again.
ConnectTimesOut(c) ==
  /\ cpc[c] = "connecting"
  /\ read_mask' = [read_mask EXCEPT ![c] = FALSE]
  /\ toServer' = toServer \cup {Connect(-1, c)}
  /\ UNCHANGED <<cpc, id, server_vars, toClient>>

\* Whatever has come is taken for the answer.  In a drawing the number of the drawing
\* stands for the id, and what follows its name for the error: the client takes that
\* id, or none, or waits on.  A socket that is not in the mask is not read.  Bounds: the
\* number is one of Ids, and what the client then does with it is not followed.
ConnectAnswered(c) ==
  /\ cpc[c] \in {"connecting", "rejoining"}
  /\ read_mask[c]
  /\ \E m \in toClient :
       /\ m.client = c
       /\ toClient' \in Remaining(toClient, m)
       /\ \/ /\ m.type = "CONNECT" /\ m.error = "NO_ERROR"
             /\ cpc' = [cpc EXCEPT ![c] = "connected"] /\ id' = [id EXCEPT ![c] = m.id]
          \/ /\ m.type = "CONNECT" /\ m.error # "NO_ERROR"
             /\ cpc' = [cpc EXCEPT ![c] = "refused"] /\ UNCHANGED id
          \/ /\ m.type = "INTERACTIVE"
             /\ cpc' = [cpc EXCEPT ![c] = "misled"] /\ \E n \in Ids : id' = [id EXCEPT ![c] = n]
          \/ m.type = "INTERACTIVE" /\ UNCHANGED <<cpc, id>>
  /\ UNCHANGED <<read_mask, server_vars, toServer>>

send_interactive_packet(c) ==
  /\ cpc[c] = "connected"
  /\ toServer' = toServer \cup {Drawing(id[c], c)}
  /\ UNCHANGED <<client_vars, server_vars, toClient>>

\* Whatever has come is taken for a drawing.
receive_interactive_packet(c) ==
  /\ cpc[c] = "connected"
  /\ \E m \in toClient : m.client = c /\ toClient' \in Remaining(toClient, m)
  /\ UNCHANGED <<client_vars, server_vars, toServer>>

\* No client of this repository does so; the server has a branch for it.
ClientRejoins(c) ==
  /\ c \in Rejoiners
  /\ cpc[c] = "connected"
  /\ cpc' = [cpc EXCEPT ![c] = "rejoining"]
  /\ read_mask' = [read_mask EXCEPT ![c] = TRUE]
  /\ toServer' = toServer \cup {Connect(id[c], c)}
  /\ UNCHANGED <<id, server_vars, toClient>>

Next ==
  \/ ServerDraws \/ ServerConnects
  \/ \E c \in Clients :
       \/ ClientConnects(c) \/ ConnectTimesOut(c) \/ ConnectAnswered(c)
       \/ send_interactive_packet(c) \/ receive_interactive_packet(c)
       \/ ClientRejoins(c)

Spec == Init /\ [][Next]_vars

--------------------------------------------------------------------------------
(* Properties. *)

Errors == {"NO_ERROR", "ID_NOT_FOUND", "MAX_USERS_REACHED"}

TypeOK ==
  /\ num_users \in 0 .. max_num_users
  /\ socket_addr \in [Ids -> Clients \cup {Unset, Junk}]
  /\ error \in Errors
  /\ cpc \in [Clients -> {"off", "connecting", "connected", "rejoining", "refused", "misled"}]
  /\ read_mask \in [Clients -> BOOLEAN]
  /\ id \in [Clients -> Ids \cup {-1}]
  /\ \A m \in toServer : m.client \in Clients /\ m.id \in Ids \cup {-1} /\ m.error \in Errors
  /\ \A m \in toClient :
       m.client \in Clients \cup {Unset, Junk} /\ m.id \in Ids \cup {-1} /\ m.error \in Errors

\* Clients that took nothing but an answer for their answer.
Rightly == {c \in Clients : cpc[c] # "misled"}

\* No two clients share an id, though requests and answers are lost, repeated
\* and late: none draws under the name of another, but who was misled.
IdsAreUnique ==
  \A c, d \in Rightly : c # d /\ id[c] # -1 => id[c] # id[d]

\* An address that the server has learnt from a drawing is that of the client which
\* has the id, and of a user: late, repeated and other clients' drawings never make
\* it another's.  Where address_set was garbage no address is ever learnt, and what
\* others draw goes to a garbage address for ever.
AddressIsTheUsers ==
  \A n \in Ids :
    socket_addr[n] \in Clients =>
      n < num_users /\ \A c \in Rightly : id[c] = n => socket_addr[n] = c

\* A client is refused only when every id has been given away.
RefusedWhenFull == \A c \in Clients : cpc[c] = "refused" => num_users = max_num_users
================================================================================
