---------------------------- MODULE HandshakeProofs -----------------------------
(***************************************************************************)
(* What holds of the handshake for any number of clients, starts, losses   *)
(* and duplicates.                                                         *)
(***************************************************************************)
EXTENDS Handshake, TLAPS

USE HandshakeAssumption DEF vars, client_vars, server_vars, Lanes

--------------------------------------------------------------------------------
(* Packets. *)

ToClients == {Packet(t, l, c) : t \in {"START_ACK", "BUSY"}, l \in Lanes, c \in Clients}

LEMMA Fields ==
  /\ \A t, l, c : Packet(t, l, c).type = t /\ Packet(t, l, c).lane = l /\ Packet(t, l, c).client = c
  /\ Nothing.type = "NONE" /\ Nothing.lane = "none"
BY DEF Packet, Nothing

LEMMA Packets ==
  /\ \A m \in FromClients : m.type \in {"START", "DATA", "STOP"} /\ m.lane \in Lanes /\ m.client \in Clients
  /\ \A m \in ToClients : m.type \in {"START_ACK", "BUSY"} /\ m.lane \in Lanes /\ m.client \in Clients
  /\ \A t \in {"START", "DATA", "STOP"}, l \in Lanes, c \in Clients : Packet(t, l, c) \in FromClients
  /\ \A t \in {"START_ACK", "BUSY"}, l \in Lanes, c \in Clients : Packet(t, l, c) \in ToClients
BY Fields DEF FromClients, ToClients

LEMMA RemainingLeft ==
  ASSUME NEW net, NEW read, NEW left \in Remaining(net, read)
  PROVE  left \subseteq net
BY DEF Remaining

--------------------------------------------------------------------------------
(* The invariant. *)

\* A lane that was asked for has the address of a client; the one whose data a
\* session receives is among uppers, and who was turned away was not that one.
AddressInv ==
  /\ \A l \in got : addr[l] \in Clients
  /\ spc = "session" => addr["up"] \in uppers
  /\ \A m \in toClient : m.type = "BUSY" => uppers \ {m.client, NoOne} # {}
  /\ TurnedAwayForAnother

\* Before the first session clients only ask, and what was acknowledged was asked for.
FirstInv ==
  uppers = {} =>
    /\ spc = "accept" /\ got # Lanes
    /\ \A m \in toServer : m.type = "START"
    /\ \A m \in toClient : m.type = "START_ACK" /\ m.lane \in got
    /\ \A c \in Clients : acks[c] \subseteq got /\ cpc[c] \notin {"run", "busy"}

IndInv == TypeOK /\ AddressInv /\ FirstInv

LEMMA InitInv == Init => IndInv
<1> SUFFICES ASSUME Init PROVE IndInv
  OBVIOUS
<1>1. TypeOK
  BY DEF Init, TypeOK
<1>2. AddressInv /\ FirstInv
  BY DEF Init, AddressInv, FirstInv, TurnedAwayForAnother
<1> QED BY <1>1, <1>2 DEF IndInv

--------------------------------------------------------------------------------
(* The server. *)

\* What one iteration of its select loop does to each variable.
LEMMA Accepts ==
  ASSUME IndInv, ServerAccepts
  PROVE  /\ got \subseteq got' /\ got' \subseteq Lanes
         /\ addr' \in [Lanes -> Clients \cup {NoOne}] /\ \A l \in got' : addr'[l] \in Clients
         /\ toServer' \subseteq toServer
         /\ \A m \in toClient' : m \in toClient \/ (m \in ToClients /\ m.type = "START_ACK" /\ m.lane \in got')
         /\ got' = Lanes => recv_params' \in toServer
         /\ got' # Lanes => recv_params' = Nothing
<1>1. PICK d \in Arrived("down"), u \in Arrived("up") :
         /\ {d, u} \ {Nothing} # {}
         /\ got' = got \cup {m.lane : m \in {r \in {d, u} \ {Nothing} : r.type = "START"}}
         /\ addr' = [l \in Lanes |-> LET m == IF l = "up" THEN u ELSE d
                                     IN  IF m = Nothing THEN addr[l] ELSE m.client]
         /\ toClient' = toClient \cup {Packet("START_ACK", m.lane, m.client) :
                                         m \in {r \in {d, u} \ {Nothing} : r.type = "START"}}
         /\ toServer' \in Remaining(toServer, {d, u} \ {Nothing})
         /\ recv_params' = IF ~BothAsked(got') THEN Nothing ELSE IF u # Nothing THEN u ELSE d
  BY DEF ServerAccepts
<1>2. /\ d = Nothing \/ (d \in toServer /\ d \in FromClients /\ d.lane = "down")
      /\ u = Nothing \/ (u \in toServer /\ u \in FromClients /\ u.lane = "up")
  BY DEF Arrived, IndInv, TypeOK
<1> DEFINE asking == {r \in {d, u} \ {Nothing} : r.type = "START"}
<1>3. \A m \in asking : m \in FromClients /\ m.lane \in Lanes /\ m.client \in Clients /\ m = (IF m.lane = "up" THEN u ELSE d)
  BY <1>2, Packets
<1>4. got' = got \cup {m.lane : m \in asking} /\ toClient' = toClient \cup {Packet("START_ACK", m.lane, m.client) : m \in asking}
  BY <1>1
<1>5. \A l \in Lanes : addr'[l] = addr[l] \/ addr'[l] \in Clients
  BY <1>1, <1>2, Packets
<1>6. \A m \in asking : addr'[m.lane] \in Clients
  BY <1>1, <1>3
<1> HIDE DEF asking
<1>7. got \subseteq got' /\ got' \subseteq Lanes
  <2>1. got \subseteq Lanes
    BY DEF IndInv, TypeOK
  <2>2. {m.lane : m \in asking} \subseteq Lanes
    BY <1>3
  <2> QED BY <1>4, <2>1, <2>2
<1>8. addr' \in [Lanes -> Clients \cup {NoOne}]
  BY <1>1, <1>5 DEF IndInv, TypeOK
<1>9. \A l \in got' : addr'[l] \in Clients
  BY <1>4, <1>5, <1>6 DEF IndInv, TypeOK, AddressInv
<1>10. \A m \in toClient' : m \in toClient \/ (m \in ToClients /\ m.type = "START_ACK" /\ m.lane \in got')
  BY <1>3, <1>4, Packets, Fields
<1>11. toServer' \subseteq toServer
  BY <1>1, RemainingLeft
<1>12. (got' = Lanes => recv_params' \in toServer) /\ (got' # Lanes => recv_params' = Nothing)
  BY <1>1, <1>2 DEF BothAsked
<1> QED BY <1>7, <1>8, <1>9, <1>10, <1>11, <1>12

LEMMA AcceptsKeepsInv == IndInv /\ ServerAccepts => IndInv'
<1> SUFFICES ASSUME IndInv, ServerAccepts PROVE IndInv'
  OBVIOUS
<1>1. /\ spc = "accept" /\ UNCHANGED <<client_vars, losses>>
      /\ got' = Lanes => spc' = "session" /\ uppers' = uppers \cup {addr'["up"]}
                           /\ sender' = "starting"
      /\ got' # Lanes => UNCHANGED <<spc, sender, uppers>>
      /\ unserved' \subseteq unserved
  BY DEF ServerAccepts, BothAsked
<1>2. uppers \subseteq uppers' /\ uppers' \subseteq Clients /\ unserved' \subseteq Clients
  BY <1>1, Accepts DEF IndInv, TypeOK
<1>3. TypeOK'
  BY <1>1, <1>2, Accepts DEF IndInv, TypeOK, ToClients
<1>4. AddressInv'
  BY <1>1, <1>2, Accepts, Packets DEF IndInv, AddressInv, TurnedAwayForAnother
<1>5. FirstInv'
  <2> SUFFICES ASSUME uppers' = {} PROVE FirstInv'
    BY DEF FirstInv
  <2>1. got' # Lanes /\ uppers = {} /\ spc' = "accept"
    BY <1>1, <1>2
  <2>2. \A m \in toServer' : m.type = "START"
    BY <2>1, Accepts DEF IndInv, FirstInv
  <2>3. \A m \in toClient' : m.type = "START_ACK" /\ m.lane \in got'
    BY <2>1, Accepts DEF IndInv, FirstInv
  <2>4. \A c \in Clients : acks'[c] \subseteq got' /\ cpc'[c] \notin {"run", "busy"}
    BY <1>1, <2>1, Accepts DEF IndInv, FirstInv
  <2> QED BY <2>1, <2>2, <2>3, <2>4 DEF FirstInv
<1> QED BY <1>3, <1>4, <1>5 DEF IndInv

LEMMA SessionKeepsInv == IndInv /\ SessionReadsUp => IndInv'
<1> SUFFICES ASSUME IndInv, SessionReadsUp PROVE IndInv'
  OBVIOUS
<1>1. PICK m \in Arrived("up") \ {Nothing} :
        /\ toServer' \in Remaining(toServer, {m})
        /\ spc' \in IF m.type = "STOP" THEN Stopped ELSE {spc}
        /\ sender' = IF m.type = "STOP" THEN "off" ELSE sender
        /\ toClient' =
             IF m.type = "START"
             THEN toClient \cup
                  {Packet(IF Welcome(m.client) THEN "START_ACK" ELSE "BUSY", "up", m.client)}
             ELSE toClient
  BY DEF SessionReadsUp
<1>2. /\ spc = "session" /\ toServer' \subseteq toServer
      /\ UNCHANGED <<client_vars, got, recv_params, addr, unserved, uppers, losses>>
      /\ spc' \in {"session", "joining", "hung"} /\ sender' \in {"off", sender}
  BY <1>1, RemainingLeft DEF SessionReadsUp, Stopped
<1>3. m.client \in Clients /\ addr["up"] \in uppers
  BY <1>2, Packets DEF Arrived, IndInv, TypeOK, AddressInv
<1>4. \A r \in toClient' : r \in toClient \/
         (r \in ToClients /\ r.client = m.client /\ (r.type = "BUSY" => m.client # addr["up"]))
  BY <1>1, <1>3, Packets, Fields DEF Welcome
<1>5. TypeOK'
  BY <1>1, <1>2, <1>4 DEF IndInv, TypeOK, ToClients
<1>6. AddressInv'
  BY <1>1, <1>2, <1>3, <1>4 DEF IndInv, TypeOK, AddressInv, TurnedAwayForAnother
<1>7. FirstInv'
  BY <1>2, <1>3 DEF FirstInv
<1> QED BY <1>5, <1>6, <1>7 DEF IndInv

\* Where packets are lost or read, and the server moves on at most.
LEMMA LosingKeepsInv ==
  ASSUME IndInv, SenderStarts \/ SessionReadsDown \/ SessionTimesOut \/ ServerReopens \/ Discard \/ Lose
  PROVE  IndInv'
<1>1. /\ UNCHANGED <<client_vars, addr, unserved, uppers>>
      /\ toServer' \subseteq toServer /\ toClient' \subseteq toClient
      /\ losses' = losses \/ NetworkFails
      /\ sender' \in {"off", "running", sender}
      /\ \/ UNCHANGED <<spc, got, recv_params>>
         \/ spc = "session" /\ spc' = "joining" /\ UNCHANGED <<got, recv_params>>
         \/ spc = "joining" /\ spc' = "accept" /\ got' = {} /\ recv_params' = Nothing
  <2>1. CASE SessionReadsDown
    BY <2>1, RemainingLeft DEF SessionReadsDown
  <2>2. CASE SessionTimesOut
    BY <2>2 DEF SessionTimesOut
  <2>3. CASE ServerReopens
    BY <2>3 DEF ServerReopens
  <2>4. CASE Discard
    BY <2>4 DEF Discard
  <2>5. CASE Lose
    BY <2>5 DEF Lose
  <2>6. CASE SenderStarts
    BY <2>6 DEF SenderStarts
  <2> QED BY <2>1, <2>2, <2>3, <2>4, <2>5, <2>6
<1>2. TypeOK'
  <2>1. losses' \in 0 .. MaxLosses
    BY <1>1 DEF NetworkFails, IndInv, TypeOK
  <2>2. /\ spc' \in {"accept", "session", "joining", "hung"} /\ got' \subseteq Lanes
        /\ recv_params' \in {Nothing} \cup FromClients
    <3>1. spc \in {"accept", "session", "joining", "hung"} /\ got \subseteq Lanes /\ recv_params \in {Nothing} \cup FromClients
      BY DEF IndInv, TypeOK
    <3> HIDE DEF Lanes
    <3> QED BY <1>1, <3>1
  <2> QED BY <1>1, <2>1, <2>2 DEF IndInv, TypeOK
<1>3. AddressInv' /\ FirstInv'
  BY <1>1 DEF IndInv, AddressInv, FirstInv, TurnedAwayForAnother
<1> QED BY <1>2, <1>3 DEF IndInv

--------------------------------------------------------------------------------
(* The clients. *)

LEMMA ReadsKeepsInv == ASSUME IndInv, NEW c \in Clients, ClientReads(c) PROVE IndInv'
<1>1. PICK u \in Readable(c, "up"), d \in Readable(c, "down") :
        LET read == {u, d} \ {Nothing}
            acked == {m.lane : m \in {r \in read : r.type = "START_ACK"}}
        IN  /\ IF \E m \in read : m.type = "BUSY"
               THEN /\ cpc' = [cpc EXCEPT ![c] = "busy"]
                    /\ UNCHANGED acks
               ELSE /\ acks' = [acks EXCEPT ![c] = @ \cup acked]
                    /\ cpc' = [cpc EXCEPT ![c] = IF Connected(acks'[c]) THEN "run" ELSE "top"]
            /\ toClient' \in Remaining(toClient, read)
  BY DEF ClientReads
<1> DEFINE read == {u, d} \ {Nothing}
           acked == {m.lane : m \in {r \in read : r.type = "START_ACK"}}
<1>2. \A m \in read : m \in toClient /\ m \in ToClients /\ m.client = c
  BY DEF Readable, IndInv, TypeOK, ToClients
<1>3. acked \subseteq Lanes /\ (uppers = {} => acked \subseteq got)
  BY <1>2, Packets DEF IndInv, FirstInv
<1>4. /\ toClient' \subseteq toClient
      /\ \/ /\ cpc' = [cpc EXCEPT ![c] = "busy"] /\ UNCHANGED acks
            /\ \E m \in toClient : m.type = "BUSY" /\ m.client = c
         \/ /\ acks' = [acks EXCEPT ![c] = @ \cup acked]
            /\ cpc' = [cpc EXCEPT ![c] = IF Connected(acks'[c]) THEN "run" ELSE "top"]
  BY <1>1, <1>2, RemainingLeft
<1> HIDE DEF read, acked
<1>5. UNCHANGED <<starts, server_vars, toServer, losses>>
  BY DEF ClientReads
<1>6. TypeOK'
  <2>1. cpc' \in [Clients -> {"off", "top", "select", "run", "busy"}]
    BY <1>4 DEF IndInv, TypeOK
  <2>2. acks' \in [Clients -> SUBSET Lanes]
    <3>1. acks \in [Clients -> SUBSET Lanes]
      BY DEF IndInv, TypeOK
    <3> HIDE DEF Lanes
    <3>2. acks[c] \cup acked \in SUBSET Lanes
      BY <1>3, <3>1
    <3>3. acks' = acks \/ acks' = [acks EXCEPT ![c] = acks[c] \cup acked]
      BY <1>4
    <3> QED BY <3>1, <3>2, <3>3
  <2> QED BY <1>4, <1>5, <2>1, <2>2 DEF IndInv, TypeOK
<1>7. AddressInv'
  BY <1>4, <1>5 DEF IndInv, TypeOK, AddressInv, TurnedAwayForAnother
<1>8. FirstInv'
  <2> SUFFICES ASSUME uppers = {} PROVE \A b \in Clients : acks'[b] \subseteq got /\ cpc'[b] \notin {"run", "busy"}
    BY <1>4, <1>5 DEF IndInv, FirstInv
  <2>1. ~\E m \in toClient : m.type = "BUSY"
    BY DEF IndInv, FirstInv
  <2>2. /\ acks' = [acks EXCEPT ![c] = @ \cup acked]
        /\ cpc' = [cpc EXCEPT ![c] = IF Connected(acks'[c]) THEN "run" ELSE "top"]
    BY <1>4, <2>1
  <2>3. \A b \in Clients : acks'[b] \subseteq got
    <3>1. acks \in [Clients -> SUBSET Lanes] /\ \A b \in Clients : acks[b] \subseteq got
      BY DEF IndInv, TypeOK, FirstInv
    <3>2. \A b \in Clients : acks'[b] = IF b = c THEN acks[c] \cup acked ELSE acks[b]
      BY <2>2, <3>1
    <3> QED BY <1>3, <3>1, <3>2
  <2>4. ~Connected(acks'[c])
    <3>1. got \subseteq Lanes /\ got # Lanes
      BY DEF IndInv, TypeOK, FirstInv
    <3>2. acks'[c] \subseteq got
      BY <2>3
    <3> HIDE DEF Lanes
    <3> QED BY <3>1, <3>2, Zenon DEF Connected
  <2>5. \A b \in Clients : cpc'[b] \notin {"run", "busy"}
    BY <2>2, <2>4 DEF IndInv, TypeOK, FirstInv
  <2> QED BY <2>3, <2>5
<1> QED BY <1>6, <1>7, <1>8 DEF IndInv

LEMMA OthersKeepInv ==
  ASSUME IndInv, NEW c \in Clients,
         ClientStarts(c) \/ ClientAsks(c) \/ ClientTimeout(c) \/ ClientRuns(c) \/ ClientQuits(c)
  PROVE  IndInv'
<1> USE DEF ClientStarts, ClientAsks, ClientTimeout, ClientRuns, ClientQuits
<1>1. UNCHANGED <<spc, sender, got, recv_params, addr, uppers, toClient, losses>> /\ unserved' \subseteq unserved \cup {c}
  OBVIOUS
<1>2. \A m \in toServer' : m \in toServer \/ (m \in FromClients /\ (m.type = "START" \/ cpc[c] = "run"))
  <2>1. CASE ClientStarts(c) \/ ClientTimeout(c)
    BY <2>1
  <2>2. CASE ClientAsks(c)
    <3>1. \A m \in toServer' : m \in toServer \/ \E l \in Lanes : m = Packet("START", l, c)
      BY <2>2
    <3> QED BY <3>1, Packets, Fields
  <2>3. CASE ClientRuns(c) \/ ClientQuits(c)
    <3>1. \A m \in toServer' :
            m \in toServer \/ (cpc[c] = "run" /\ \E t \in {"DATA", "STOP"}, l \in Lanes : m = Packet(t, l, c))
      BY <2>3
    <3> QED BY <3>1, Packets
  <2> QED BY <2>1, <2>2, <2>3
<1>3. /\ starts' \in [Clients -> 0 .. MaxStarts]
      /\ acks' \in [Clients -> SUBSET Lanes] /\ \A b \in Clients : acks'[b] \subseteq acks[b]
      /\ cpc' \in [Clients -> {"off", "top", "select", "run", "busy"}]
      /\ \A b \in Clients : cpc'[b] \in {"run", "busy"} => cpc[b] = cpc'[b]
  BY DEF IndInv, TypeOK
<1> USE DEF IndInv
<1>4. TypeOK'
  BY <1>1, <1>2, <1>3 DEF TypeOK
<1>5. AddressInv' /\ FirstInv'
  BY <1>1, <1>2, <1>3 DEF AddressInv, FirstInv, TurnedAwayForAnother
<1> QED BY <1>4, <1>5

--------------------------------------------------------------------------------
(* What follows. *)

LEMMA StepInv == IndInv /\ [Next]_vars => IndInv'
<1>1. IndInv /\ UNCHANGED vars => IndInv'
  BY DEF IndInv, TypeOK, AddressInv, FirstInv, TurnedAwayForAnother
<1> QED BY <1>1, AcceptsKeepsInv, SessionKeepsInv, LosingKeepsInv, ReadsKeepsInv, OthersKeepInv
        DEF Next, ClientStep, ServerStep

\* The handshake's data stay within their types; above all, a session has a client.
THEOREM TypeCorrect == Spec => []TypeOK
<1>1. IndInv => TypeOK
  BY DEF IndInv
<1> QED BY <1>1, InitInv, StepInv, PTL DEF Spec

\* Of any number of clients, one is only turned away when another one was served.
THEOREM OnlyTurnedAwayForAnother == Spec => []TurnedAwayForAnother
<1>1. IndInv => TurnedAwayForAnother
  BY DEF IndInv, AddressInv
<1> QED BY <1>1, InitInv, StepInv, PTL DEF Spec

\* The parameters of the first session were asked for.
THEOREM FirstParametersAreAskedFor == Spec => ParametersAreAskedFor
<1> DEFINE Asked == spc = "accept" /\ spc' = "session" /\ uppers = {} => recv_params'.type = "START"
<1>1. IndInv /\ [Next]_vars => Asked
  <2> SUFFICES ASSUME IndInv, [Next]_vars, spc = "accept", spc' = "session", uppers = {}
               PROVE  recv_params'.type = "START"
    OBVIOUS
  <2>1. ServerAccepts /\ got' = Lanes
    BY DEF Next, ClientStep, ServerStep, ClientStarts, ClientAsks, ClientTimeout, ClientReads, ClientRuns,
         ClientQuits, ServerAccepts, BothAsked, SenderStarts, SessionReadsUp, Stopped, SessionReadsDown, SessionTimesOut, ServerReopens, Discard, Lose
  <2> QED BY <2>1, Accepts DEF IndInv, FirstInv
<1>2. IndInv /\ [Next]_vars => [Asked]_vars
  BY <1>1
<1> QED BY <1>2, InitInv, StepInv, PTL DEF Spec, ParametersAreAskedFor

\* What was acknowledged to one that no session was started for was asked for since
\* the server began to accept.
UnservedInv ==
  /\ spc = "accept" => got # Lanes
  /\ \A c \in unserved :
       /\ spc # "session" /\ cpc[c] # "run"
       /\ acks[c] \subseteq (IF spc = "accept" THEN got ELSE {})
       /\ \A m \in toClient : m.client = c => spc = "accept" /\ m.lane \in got

LEMMA UnservedClient ==
  ASSUME IndInv, UnservedInv, NEW c \in Clients, ClientStep(c)
  PROVE  UnservedInv'
<1>1. CASE ClientReads(c)
  <2>1. PICK u \in Readable(c, "up"), d \in Readable(c, "down") :
          LET read == {u, d} \ {Nothing}
              acked == {m.lane : m \in {r \in read : r.type = "START_ACK"}}
          IN  /\ read # {}
              /\ \/ cpc' = [cpc EXCEPT ![c] = "busy"] /\ UNCHANGED acks
                 \/ /\ acks' = [acks EXCEPT ![c] = @ \cup acked]
                    /\ cpc' = [cpc EXCEPT ![c] = IF Connected(acks'[c]) THEN "run" ELSE "top"]
              /\ toClient' \in Remaining(toClient, read)
    BY <1>1 DEF ClientReads
  <2> DEFINE read == {u, d} \ {Nothing}
             acked == {m.lane : m \in {r \in read : r.type = "START_ACK"}}
  <2>2. /\ read # {} /\ toClient' \subseteq toClient
        /\ \/ cpc' = [cpc EXCEPT ![c] = "busy"] /\ UNCHANGED acks
           \/ /\ acks' = [acks EXCEPT ![c] = @ \cup acked]
              /\ cpc' = [cpc EXCEPT ![c] = IF Connected(acks'[c]) THEN "run" ELSE "top"]
        /\ UNCHANGED server_vars
    BY <1>1, <2>1, RemainingLeft DEF ClientReads
  <2>3. \A m \in read : m \in toClient /\ m.client = c
    BY DEF Readable
  <2>4. c \in unserved => spc = "accept" /\ acked \subseteq got /\ acks[c] \subseteq got
    BY <2>2, <2>3 DEF UnservedInv
  <2> HIDE DEF read, acked
  <2>5. acks \in [Clients -> SUBSET Lanes] /\ cpc \in [Clients -> {"off", "top", "select", "run", "busy"}] /\ got \subseteq Lanes
    BY DEF IndInv, TypeOK
  <2>6. ASSUME c \in unserved PROVE acks'[c] \subseteq got /\ cpc'[c] # "run"
    <3>1. acks'[c] \subseteq got
      BY <2>2, <2>4, <2>5, <2>6
    <3>2. got # Lanes
      BY <2>4, <2>6 DEF UnservedInv
    <3>3. ~Connected(acks'[c])
      <4> HIDE DEF Lanes
      <4> QED BY <2>5, <3>1, <3>2, Zenon DEF Connected
    <3> QED BY <2>2, <2>5, <3>1, <3>3
  <2>7. \A b \in Clients \ {c} : acks'[b] = acks[b] /\ cpc'[b] = cpc[b]
    BY <2>2, <2>5
  <2> QED BY <2>2, <2>4, <2>6, <2>7 DEF UnservedInv, IndInv, TypeOK
<1>2. CASE ClientStarts(c)
  BY <1>2 DEF ClientStarts, UnservedInv, IndInv, TypeOK
<1>3. CASE ClientAsks(c) \/ ClientTimeout(c) \/ ClientRuns(c) \/ ClientQuits(c)
  BY <1>3 DEF ClientAsks, ClientTimeout, ClientRuns, ClientQuits, UnservedInv, IndInv, TypeOK
<1> QED BY <1>1, <1>2, <1>3 DEF ClientStep

LEMMA UnservedServer ==
  ASSUME IndInv, UnservedInv, NEW client, Clients = {client}, ServerStep \/ Discard \/ Lose
  PROVE  UnservedInv'
<1>1. CASE ServerAccepts
  <2>1. /\ spc = "accept" /\ UNCHANGED client_vars /\ unserved' \subseteq unserved
        /\ got' # Lanes => UNCHANGED spc
        /\ got' = Lanes => spc' = "session" /\ (addr'["up"] = addr'["down"] => addr'["up"] \notin unserved')
    BY <1>1 DEF ServerAccepts, BothAsked
  <2>2. CASE got' = Lanes
    <3>1. addr'["up"] = client /\ addr'["down"] = client
      BY <1>1, <2>2, Accepts
    <3>2. unserved' = {}
      BY <2>1, <2>2, <3>1 DEF IndInv, TypeOK
    <3> QED BY <2>1, <2>2, <3>2 DEF UnservedInv
  <2>3. CASE got' # Lanes
    <3>1. /\ got \subseteq got'
          /\ \A m \in toClient' : m \in toClient \/ m.lane \in got'
      BY <1>1, Accepts
    <3> QED BY <2>1, <2>3, <3>1 DEF UnservedInv
  <2> QED BY <2>2, <2>3
<1>2. CASE SessionReadsUp
  <2>1. spc = "session" /\ spc' # "accept" /\ unserved' = unserved
    BY <1>2 DEF SessionReadsUp, Stopped
  <2> QED BY <2>1 DEF UnservedInv
<1>3. CASE SenderStarts \/ SessionReadsDown \/ Discard \/ Lose
  <2>1. UNCHANGED <<client_vars, spc, got, unserved>> /\ toClient' \subseteq toClient
    BY <1>3 DEF SenderStarts, SessionReadsDown, Discard, Lose
  <2> QED BY <2>1 DEF UnservedInv
<1>4. CASE SessionTimesOut
  BY <1>4 DEF SessionTimesOut, UnservedInv
<1>5. CASE ServerReopens
  BY <1>5 DEF ServerReopens, UnservedInv
<1> QED BY <1>1, <1>2, <1>3, <1>4, <1>5 DEF ServerStep

\* A single client that starts while no session runs, and with no answer to it on its
\* way, never runs before a session was started for it on both lanes, however often
\* it crashed before and whatever is lost, repeated or late.
THEOREM SingleClientIsServed ==
  ASSUME NEW client, Clients = {client}
  PROVE  Spec => []NotBeforeSession
<1> DEFINE IInv == IndInv /\ UnservedInv
<1>1. Init => IInv
  BY InitInv DEF Init, UnservedInv
<1>2. IInv /\ [Next]_vars => IInv'
  <2>1. UnservedInv /\ UNCHANGED vars => UnservedInv'
    BY DEF UnservedInv
  <2> QED BY <2>1, StepInv, UnservedClient, UnservedServer DEF Next
<1>3. IInv => NotBeforeSession
  BY DEF UnservedInv, NotBeforeSession
<1> QED BY <1>1, <1>2, <1>3, PTL DEF Spec
================================================================================
