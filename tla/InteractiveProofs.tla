--------------------------- MODULE InteractiveProofs ----------------------------
(***************************************************************************)
(* What holds of the interactive server and its clients for any number of  *)
(* users, clients and packets, whatever the network does with them.        *)
(***************************************************************************)
EXTENDS Interactive, TLAPS

USE InteractiveAssumption DEF vars, server_vars, client_vars

--------------------------------------------------------------------------------
(* Who has an id. *)

\* What speaks for the id n being c's: a packet from c that carries it, an answer
\* that is about to give it to c, c itself unless it was misled, and the address drawings
\* are sent to.
Claims(n, c) ==
  \/ \E m \in toServer : m.id = n /\ m.client = c
  \/ \E m \in toClient : m.type = "CONNECT" /\ m.error = "NO_ERROR" /\ m.id = n /\ m.client = c
  \/ c \in Rightly /\ id[c] = n
  \/ socket_addr[n] = c

\* An id that is claimed was given away, and to nobody else.
ClaimsInv ==
  \A n \in Ids, c \in Clients :
    Claims(n, c) => n < num_users /\ \A d \in Clients : Claims(n, d) => c = d

\* Only a client that was answered uses an id, and only a full server has an error.
AnswersInv ==
  /\ \A c \in Clients : cpc[c] \in {"connected", "rejoining"} => id[c] # -1
  /\ \A m \in toServer : m.type \in {"CONNECT", "INTERACTIVE"} /\ (m.type = "INTERACTIVE" => m.id # -1)
  /\ \A m \in toClient : m.type = "CONNECT" /\ m.error = "NO_ERROR" => m.id # -1
  /\ \A m \in toClient : m.type = "CONNECT" /\ m.error # "NO_ERROR" => num_users = max_num_users
  /\ error # "NO_ERROR" => num_users = max_num_users

IndInv == TypeOK /\ AnswersInv /\ ClaimsInv /\ RefusedWhenFull

LEMMA InitInv == Init => IndInv
BY DEF Init, IndInv, TypeOK, AnswersInv, ClaimsInv, Claims, Rightly, RefusedWhenFull, Errors, Ids

LEMMA IndInvUnique == IndInv => IdsAreUnique
BY DEF IndInv, TypeOK, ClaimsInv, Claims, Rightly, IdsAreUnique

LEMMA IndInvAddress == IndInv => AddressIsTheUsers
BY DEF IndInv, TypeOK, ClaimsInv, Claims, Rightly, AddressIsTheUsers

\* Where nobody gets a claim that he had not, and no id is taken back, claims stay
\* consistent.
LEMMA ClaimsKept ==
  ASSUME IndInv, num_users' = num_users,
         \A n \in Ids, c \in Clients : Claims(n, c)' => Claims(n, c)
  PROVE  ClaimsInv'
BY DEF IndInv, ClaimsInv, Ids

LEMMA RemainingLeft ==
  ASSUME NEW net, NEW m, NEW left \in Remaining(net, m)
  PROVE  left \subseteq net
BY DEF Remaining

--------------------------------------------------------------------------------
(* The server. *)

LEMMA DrawsKeepsInv == IndInv /\ ServerDraws => IndInv'
<1> SUFFICES ASSUME IndInv, ServerDraws PROVE IndInv'
  OBVIOUS
<1>1. PICK m \in toServer :
        /\ m.type = "INTERACTIVE"
        /\ toServer' \in Remaining(toServer, m)
        /\ SetAddress(m.id, m.client)
        /\ toClient' = toClient \cup {Drawing(m.id, socket_addr'[i]) : i \in 0 .. num_users - 1}
  BY DEF ServerDraws
<1>2. toServer' \subseteq toServer
  BY <1>1, RemainingLeft
<1>3. m.id \in Ids /\ m.client \in Clients
  BY <1>1 DEF IndInv, TypeOK, AnswersInv
<1>4. \A p \in toClient' :
        \/ p \in toClient
        \/ /\ p.type = "INTERACTIVE" /\ p.id = m.id /\ p.error = "NO_ERROR"
           /\ p.client \in Clients \cup {Unset, Junk}
  <2>1. \A i \in 0 .. num_users - 1 : socket_addr'[i] \in Clients \cup {Unset, Junk}
    BY <1>1, <1>3 DEF IndInv, TypeOK, SetAddress, Ids
  <2> QED BY <1>1, <2>1 DEF Drawing
<1>5. UNCHANGED <<num_users, error, client_vars>>
  BY DEF ServerDraws
<1>6. TypeOK' /\ AnswersInv' /\ RefusedWhenFull'
  BY <1>1, <1>2, <1>3, <1>4, <1>5 DEF IndInv, TypeOK, AnswersInv, RefusedWhenFull, SetAddress, Errors
<1>7. \A n \in Ids, c \in Clients : socket_addr'[n] = c => socket_addr[n] = c \/ (n = m.id /\ c = m.client)
  BY <1>1, <1>3 DEF SetAddress, IndInv, TypeOK
<1>8. \A n \in Ids, c \in Clients : Claims(n, c)' => Claims(n, c)
  BY <1>2, <1>4, <1>5, <1>7 DEF Claims, Rightly
<1> QED BY <1>5, <1>6, <1>8, ClaimsKept DEF IndInv

\* A new user's id is claimed by nobody else.
LEMMA AdmitKeepsInv ==
  ASSUME IndInv, NEW c \in Clients, ~Full, Admit(c), toServer' \subseteq toServer,
         UNCHANGED <<socket_addr, client_vars>>
  PROVE  IndInv'
<1> DEFINE answer == Answer(num_users, "NO_ERROR", c)
<1>1. /\ answer.type = "CONNECT" /\ answer.id = num_users /\ answer.client = c
      /\ answer.error = "NO_ERROR"
  BY DEF Answer
<1> HIDE DEF answer
<1>2. num_users \in Ids /\ num_users' = num_users + 1 /\ error' = "NO_ERROR"
  BY DEF IndInv, TypeOK, Full, Admit, Ids
<1>3. toClient' = toClient \cup {answer}
  BY DEF Admit, answer
<1>4. TypeOK' /\ AnswersInv' /\ RefusedWhenFull'
  BY <1>1, <1>2, <1>3 DEF IndInv, TypeOK, AnswersInv, RefusedWhenFull, Full, Ids, Errors
<1>5. \A n \in Ids, d \in Clients : Claims(n, d)' => Claims(n, d) \/ (n = num_users /\ d = c)
  BY <1>1, <1>3 DEF Claims, Rightly
<1>6. \A d \in Clients : ~Claims(num_users, d)
  BY <1>2 DEF IndInv, ClaimsInv, Ids
<1>7. ClaimsInv'
  BY <1>2, <1>5, <1>6 DEF IndInv, ClaimsInv, Ids
<1> QED BY <1>4, <1>7 DEF IndInv

LEMMA RefuseKeepsInv ==
  ASSUME IndInv, NEW c \in Clients, Full, Refuse(c), toServer' \subseteq toServer,
         UNCHANGED <<socket_addr, client_vars>>
  PROVE  IndInv'
<1> DEFINE answer == Answer(-1, "MAX_USERS_REACHED", c)
<1>1. answer.id = -1 /\ answer.client = c /\ answer.error = "MAX_USERS_REACHED"
  BY DEF Answer
<1> HIDE DEF answer
<1>2. toClient' = toClient \cup {answer} /\ error' = "MAX_USERS_REACHED" /\ num_users' = num_users
  BY DEF Refuse, answer
<1>3. TypeOK' /\ AnswersInv' /\ RefusedWhenFull'
  BY <1>1, <1>2 DEF IndInv, TypeOK, AnswersInv, RefusedWhenFull, Full, Errors
<1>4. \A n \in Ids, d \in Clients : Claims(n, d)' => Claims(n, d)
  BY <1>1, <1>2 DEF Claims, Rightly
<1> QED BY <1>2, <1>3, <1>4, ClaimsKept DEF IndInv

\* A user that asks with an id gets the same one back, or an error.
LEMMA RecogniseKeepsInv ==
  ASSUME IndInv, NEW m \in toServer, m.id # -1, Recognise(m.id, m.client),
         toServer' \subseteq toServer, UNCHANGED <<socket_addr, client_vars>>
  PROVE  IndInv'
<1>1. m.id \in Ids /\ m.client \in Clients /\ m.id < num_users
  BY DEF IndInv, TypeOK, ClaimsInv, Claims
<1> DEFINE answer == Answer(m.id, error, m.client)
<1>2. answer.type = "CONNECT" /\ answer.id = m.id /\ answer.client = m.client /\ answer.error = error
  BY DEF Answer
<1> HIDE DEF answer
<1>3. toClient' = toClient \cup {answer} /\ error' = error /\ num_users' = num_users
  BY <1>1 DEF Recognise, answer
<1>4. TypeOK' /\ AnswersInv' /\ RefusedWhenFull'
  BY <1>1, <1>2, <1>3 DEF IndInv, TypeOK, AnswersInv, RefusedWhenFull
<1>5. \A n \in Ids, d \in Clients : Claims(n, d)' => Claims(n, d)
  BY <1>2, <1>3 DEF Claims, Rightly
<1> QED BY <1>3, <1>4, <1>5, ClaimsKept DEF IndInv

LEMMA ConnectsKeepsInv == IndInv /\ ServerConnects => IndInv'
<1> SUFFICES ASSUME IndInv, ServerConnects PROVE IndInv'
  OBVIOUS
<1>1. PICK m \in toServer :
        /\ toServer' \in Remaining(toServer, m)
        /\ IF m.id # -1 THEN Recognise(m.id, m.client)
           ELSE IF Full THEN Refuse(m.client)
           ELSE Admit(m.client)
  BY DEF ServerConnects
<1>2. toServer' \subseteq toServer /\ m.client \in Clients /\ UNCHANGED <<socket_addr, client_vars>>
  BY <1>1, RemainingLeft DEF ServerConnects, IndInv, TypeOK
<1> QED BY <1>1, <1>2, RecogniseKeepsInv, RefuseKeepsInv, AdmitKeepsInv

--------------------------------------------------------------------------------
(* The clients. *)

\* A client asks with the id it has, or with none.
LEMMA AsksKeepsInv ==
  ASSUME IndInv, NEW c \in Clients,
         ClientConnects(c) \/ ConnectTimesOut(c) \/ ClientRejoins(c) \/ send_interactive_packet(c)
  PROVE  IndInv'
<1>1. PICK p \in {Connect(-1, c), Connect(id[c], c), Drawing(id[c], c)} :
        /\ toServer' = toServer \cup {p}
        /\ p # Connect(-1, c) => cpc[c] = "connected"
  BY DEF ClientConnects, ConnectTimesOut, ClientRejoins, send_interactive_packet
<1>2. /\ p.type \in {"CONNECT", "INTERACTIVE"} /\ p.client = c /\ p.error = "NO_ERROR"
      /\ p.id # -1 => p.id = id[c] /\ c \in Rightly
      /\ p.type = "INTERACTIVE" => p.id = id[c] /\ cpc[c] = "connected"
  BY <1>1 DEF Connect, Drawing, Rightly
<1>3. UNCHANGED <<id, server_vars, toClient>>
  BY DEF ClientConnects, ConnectTimesOut, ClientRejoins, send_interactive_packet
<1>4. /\ cpc' \in [Clients -> {"off", "connecting", "connected", "rejoining", "refused", "misled"}]
      /\ read_mask' \in [Clients -> BOOLEAN]
      /\ \A d \in Clients : cpc'[d] # cpc[d] => \/ cpc[d] = "off" /\ cpc'[d] = "connecting"
                                                \/ cpc[d] = "connected" /\ cpc'[d] = "rejoining"
  <2>1. CASE ClientConnects(c)
    BY <2>1 DEF ClientConnects, IndInv, TypeOK
  <2>2. CASE ConnectTimesOut(c)
    BY <2>2 DEF ConnectTimesOut, IndInv, TypeOK
  <2>3. CASE ClientRejoins(c)
    BY <2>3 DEF ClientRejoins, IndInv, TypeOK
  <2>4. CASE send_interactive_packet(c)
    BY <2>4 DEF send_interactive_packet, IndInv, TypeOK
  <2> QED BY <2>1, <2>2, <2>3, <2>4
<1>5. TypeOK' /\ AnswersInv' /\ RefusedWhenFull'
  BY <1>1, <1>2, <1>3, <1>4 DEF IndInv, TypeOK, AnswersInv, RefusedWhenFull, Errors
<1>6. \A d \in Clients : d \in Rightly' => d \in Rightly
  BY <1>4 DEF Rightly
<1>7. \A n \in Ids, d \in Clients : Claims(n, d)' => Claims(n, d)
  BY <1>1, <1>2, <1>3, <1>6 DEF Claims, Ids
<1> QED BY <1>3, <1>5, <1>7, ClaimsKept DEF IndInv

LEMMA AnsweredKeepsInv ==
  ASSUME IndInv, NEW c \in Clients, ConnectAnswered(c)
  PROVE  IndInv'
<1>1. PICK m \in toClient :
        /\ m.client = c
        /\ toClient' \in Remaining(toClient, m)
        /\ \/ /\ m.type = "CONNECT" /\ m.error = "NO_ERROR"
              /\ cpc' = [cpc EXCEPT ![c] = "connected"] /\ id' = [id EXCEPT ![c] = m.id]
           \/ /\ m.type = "CONNECT" /\ m.error # "NO_ERROR"
              /\ cpc' = [cpc EXCEPT ![c] = "refused"] /\ UNCHANGED id
           \/ /\ m.type = "INTERACTIVE"
              /\ cpc' = [cpc EXCEPT ![c] = "misled"] /\ \E n \in Ids : id' = [id EXCEPT ![c] = n]
           \/ m.type = "INTERACTIVE" /\ UNCHANGED <<cpc, id>>
  BY DEF ConnectAnswered
<1>2. toClient' \subseteq toClient /\ UNCHANGED <<read_mask, server_vars, toServer>> /\ cpc[c] # "misled"
  BY <1>1, RemainingLeft DEF ConnectAnswered
<1>3. TypeOK' /\ AnswersInv' /\ RefusedWhenFull'
  BY <1>1, <1>2 DEF IndInv, TypeOK, AnswersInv, RefusedWhenFull, Ids
<1>4. \A n \in Ids, d \in Clients :
        d \in Rightly' /\ id'[d] = n =>
          (d \in Rightly /\ id[d] = n) \/ (d = c /\ m.type = "CONNECT" /\ m.error = "NO_ERROR" /\ n = m.id)
  BY <1>1, <1>2 DEF IndInv, TypeOK, Rightly
<1>5. \A n \in Ids, d \in Clients : Claims(n, d)' => Claims(n, d)
  BY <1>1, <1>2, <1>4 DEF Claims
<1> QED BY <1>2, <1>3, <1>5, ClaimsKept DEF IndInv

LEMMA ReceivesKeepsInv ==
  ASSUME IndInv, NEW c \in Clients, receive_interactive_packet(c)
  PROVE  IndInv'
<1>1. toClient' \subseteq toClient /\ UNCHANGED <<client_vars, server_vars, toServer>>
  BY RemainingLeft DEF receive_interactive_packet
<1>2. TypeOK' /\ AnswersInv' /\ RefusedWhenFull'
  BY <1>1 DEF IndInv, TypeOK, AnswersInv, RefusedWhenFull
<1>3. \A n \in Ids, d \in Clients : Claims(n, d)' => Claims(n, d)
  BY <1>1 DEF Claims, Rightly
<1> QED BY <1>1, <1>2, <1>3, ClaimsKept DEF IndInv

--------------------------------------------------------------------------------
(* The invariant and what it gives. *)

LEMMA StepInv == IndInv /\ [Next]_vars => IndInv'
<1>1. IndInv /\ UNCHANGED vars => IndInv'
  BY DEF IndInv, TypeOK, AnswersInv, ClaimsInv, Claims, Rightly, RefusedWhenFull
<1> QED BY <1>1, DrawsKeepsInv, ConnectsKeepsInv, AsksKeepsInv, AnsweredKeepsInv, ReceivesKeepsInv DEF Next

\* The interactive server's data and its clients' stay within their types: it gives
\* away no more ids than it has places for.
THEOREM TypeCorrect == Spec => []TypeOK
<1>1. IndInv => TypeOK
  BY DEF IndInv
<1> QED BY <1>1, InitInv, StepInv, PTL DEF Spec

\* No two clients ever have the same id, whatever is lost, repeated or late, but for
\* those that took a drawing for their answer.
THEOREM IdsStayUnique == Spec => []IdsAreUnique
BY InitInv, StepInv, IndInvUnique, PTL DEF Spec

\* An address the server has learnt is that of a user, of the client that has the id:
\* whatever drawings come late, repeated or from others.  It says nothing of users whose
\* address was not learnt, be it for ever because the table's flag was garbage.
THEOREM AddressStaysTheUsers == Spec => []AddressIsTheUsers
BY InitInv, StepInv, IndInvAddress, PTL DEF Spec

\* A client is told that the server is full only when it is.
THEOREM OnlyRefusedWhenFull == Spec => []RefusedWhenFull
<1>1. IndInv => RefusedWhenFull
  BY DEF IndInv
<1> QED BY <1>1, InitInv, StepInv, PTL DEF Spec
================================================================================
