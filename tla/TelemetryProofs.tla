---- MODULE TelemetryProofs ----
(***************************************************************************)
(* Theorems about module Telemetry for any requests, descriptors, setups   *)
(* and number of packets.                                                  *)
(*                                                                         *)
(* Whose span it is: ClientInv, PacketInv and MarkInv follow the ids from  *)
(* the socket over the packet to the span.  What it says: ContentInv, that *)
(* a span shows the trace of a packet with a route, and a closed form of   *)
(* the trace (Written), of a message made of it (NodeParsed) and of the    *)
(* texts (TextsAre).                                                       *)
(***************************************************************************)
EXTENDS Telemetry, ListsProofs

\* What a request in each state knows of its socket.
Sockets ==
  \A r \in Requests :
    /\ state[r] = "new" => fd[r] = NoFd /\ sent[r] = 0
    /\ state[r] \in {"dialled", "enabled", "read"} => fd[r] \in Fds /\ sent[r] > 0
    /\ state[r] \in {"dialled", "enabled"} => owner[fd[r]] = r

ClientType ==
  /\ state \in [Requests -> States]
  /\ fd \in [Requests -> Fds \cup {NoFd}]
  /\ owner \in [Fds -> Requests \cup {NoRequest}]
  /\ ids \in [Fds -> Requests \cup {NoRequest}]
  /\ \A f \in Fds : owner[f] # NoRequest => fd[owner[f]] = f
  /\ \A f \in Fds : ids[f] \in {NoRequest, owner[f]}
  /\ sent \in [Requests -> 0 .. MaxPackets]

ClientInv == ClientType /\ Sockets

\* At first nobody has a connection.
LEMMA ClientInit == Init => ClientInv
BY MaxPacketsAssumption DEF Init, ClientInv, ClientType, Sockets, States

\* Only one request owns a descriptor.
LEMMA OwnDescriptor ==
  ASSUME ClientInv, NEW q \in Requests, NEW r \in Requests,
         state[q] \in {"dialled", "enabled"}, state[r] \in {"dialled", "enabled"}, fd[q] = fd[r]
  PROVE  q = r
BY DEF ClientInv, Sockets

\* A request in between keeps its descriptor to itself.
LEMMA ClientStep == ClientInv /\ [Next]_vars => ClientInv'
<1> SUFFICES ASSUME ClientInv, [Next]_vars
             PROVE  ClientInv'
  OBVIOUS
<1> USE RequestsAssumption, NoFdAssumption, MaxPacketsAssumption
<1>a. ASSUME NEW r \in Requests, Dial(r)
      PROVE  ClientInv'
  <2>1. PICK f \in Fds : /\ owner[f] = NoRequest
                         /\ owner' = [owner EXCEPT ![f] = r]
                         /\ fd' = [fd EXCEPT ![r] = f]
    BY <1>a DEF Dial
  <2>2. /\ state[r] = "new" /\ state' = [state EXCEPT ![r] = "dialled"]
        /\ sent' = [sent EXCEPT ![r] = @ + 1] /\ ids' = ids
    BY <1>a DEF Dial, Send
  <2>3. fd[r] = NoFd /\ sent[r] = 0
    BY <2>2 DEF ClientInv, Sockets
  <2>4. ClientType'
    BY <2>1, <2>2, <2>3 DEF ClientInv, ClientType, States
  <2>5. Sockets'
    BY <2>1, <2>2, <2>3 DEF ClientInv, ClientType, Sockets, States
  <2>6. QED
    BY <2>4, <2>5 DEF ClientInv
<1>b. ASSUME NEW r \in Requests, DialFails(r) \/ CltEnableFails(r) \/ CltDisableFails(r) \/ ReadAll(r)
      PROVE  ClientInv'
  BY <1>b DEF DialFails, CltEnableFails, CltDisableFails, ReadAll, ClientInv, ClientType, Sockets, States
<1>c. ASSUME NEW r \in Requests, CltEnable(r)
      PROVE  ClientInv'
  BY <1>c DEF CltEnable, ClientInv, ClientType, Sockets, States
<1>d. ASSUME NEW r \in Requests, SendData(r)
      PROVE  ClientInv'
  BY <1>d DEF SendData, Send, clientVars, ClientInv, ClientType, Sockets, States
<1>e. ASSUME NEW r \in Requests, RequestFails(r) \/ Close(r)
      PROVE  ClientInv'
  <2>1. /\ fd[r] \in Fds /\ owner[fd[r]] = r
        /\ owner' = [owner EXCEPT ![fd[r]] = NoRequest]
        /\ ids' = [ids EXCEPT ![fd[r]] = NoRequest]
        /\ UNCHANGED <<fd, sent>>
    BY <1>e DEF RequestFails, Close, Closed, ClientInv, Sockets
  <2>2. /\ state' \in {state, [state EXCEPT ![r] = "over"]}
        /\ state'[r] \in {"read", "over"}
    BY <1>e DEF RequestFails, Close, ClientInv, ClientType
  <2>3. QED
    BY <2>1, <2>2 DEF ClientInv, ClientType, Sockets, States
<1>f. ASSUME NEW r \in Requests, CltDisable(r)
      PROVE  ClientInv'
  BY <1>f DEF CltDisable, ClientInv, ClientType, Sockets, States
<1>g. CASE Lose \/ Capture \/ Report \/ UNCHANGED vars
  BY <1>g DEF Lose, Capture, Report, vars, clientVars, ClientInv, ClientType, Sockets
<1>h. QED
  BY <1>a, <1>b, <1>c, <1>d, <1>e, <1>f, <1>g DEF Next

----
\* The ids of a packet are those of its request or none; those of the handshake none.
Carried ==
  /\ wire \subseteq [of : Requests, nr : 0 .. MaxPackets, ids : Requests \cup {NoRequest}]
  /\ \A p \in wire :
       /\ p.ids \in {NoRequest, p.of}
       /\ p.nr = 0 => p.ids = NoRequest
       /\ p.nr < sent[p.of]
  /\ \A p, q \in wire : p.of = q.of /\ p.nr = q.nr => p = q

\* What is read from a packet that is gone from the wire, and then reported.
Seen(packet) ==
  /\ packet \in Packets /\ packet[2] > 0
  /\ packet[2] < sent[packet[1]]
  /\ \A p \in wire : <<p.of, p.nr>> # packet

Reported ==
  /\ reports = <<>> \/ reports = <<reports[1]>>
  /\ reports # <<>> => /\ Seen(reports[1].packet)
                       /\ reports[1].ids = reports[1].packet[1]
                       /\ reports[1].packet \notin made
  /\ \A m \in made : Seen(m)
  /\ \A s \in spans : s.packet \in made /\ s.parent = s.packet[1] /\ s.nr = 1

PacketInv == setup \in Setups /\ Carried /\ Reported

\* At first there is no packet.
LEMMA PacketInit == Init => PacketInv
BY DEF Init, PacketInv, Carried, Reported

\* A packet is sent that is not yet known to anybody.
LEMMA SendKeeps ==
  ASSUME ClientInv, PacketInv, NEW r \in Requests, NEW i \in {NoRequest, r},
         sent[r] = 0 => i = NoRequest, sent[r] < MaxPackets,
         Send(r, i), UNCHANGED <<setup, agentVars>>
  PROVE  PacketInv'
<1> USE RequestsAssumption
<1> DEFINE new == [of |-> r, nr |-> sent[r], ids |-> i]
<1>1. /\ wire' = wire \cup {new}
      /\ sent' = [sent EXCEPT ![r] = @ + 1]
      /\ sent \in [Requests -> 0 .. MaxPackets]
      /\ MaxPackets \in Nat
  BY MaxPacketsAssumption DEF Send, ClientInv, ClientType
<1>2. new \in [of : Requests, nr : 0 .. MaxPackets, ids : Requests \cup {NoRequest}]
  BY <1>1
<1>3. \A p \in wire : p.of \in Requests /\ p.nr \in Nat /\ p.nr < sent'[p.of]
  BY <1>1 DEF PacketInv, Carried
<1>4. \A p \in wire : ~ (p.of = r /\ p.nr = sent[r])
  BY <1>1 DEF PacketInv, Carried
<1>5. Carried'
  BY <1>1, <1>2, <1>3, <1>4 DEF PacketInv, Carried
<1>6. ASSUME NEW packet, Seen(packet)
      PROVE  Seen(packet)'
  BY <1>1, <1>6 DEF Seen, Packets
<1>7. Reported'
  BY <1>6 DEF PacketInv, Reported, agentVars
<1>8. QED
  BY <1>5, <1>7 DEF PacketInv

\* A packet leaves the wire.
LEMMA SeenKeeps ==
  ASSUME NEW packet, Seen(packet), wire' \subseteq wire, sent' = sent
  PROVE  Seen(packet)'
BY DEF Seen

\* What was read stays about packets off the wire that have no span.
LEMMA PacketStep == ClientInv /\ PacketInv /\ [Next]_vars => PacketInv'
<1> SUFFICES ASSUME ClientInv, PacketInv, [Next]_vars
             PROVE  PacketInv'
  OBVIOUS
<1> USE RequestsAssumption, MaxPacketsAssumption
<1>a. ASSUME NEW r \in Requests, Dial(r)
      PROVE  PacketInv'
  <2>1. sent[r] = 0 /\ Send(r, NoRequest) /\ UNCHANGED <<setup, agentVars>>
    BY <1>a DEF Dial, ClientInv, Sockets
  <2>2. QED
    BY <2>1, SendKeeps
<1>b. ASSUME NEW r \in Requests, SendData(r)
      PROVE  PacketInv'
  <2>1. /\ Send(r, ids[fd[r]]) /\ UNCHANGED <<setup, agentVars>>
        /\ sent[r] > 0 /\ sent[r] < MaxPackets
        /\ fd[r] \in Fds /\ owner[fd[r]] = r
    BY <1>b DEF SendData, ClientInv, Sockets
  <2>2. ids[fd[r]] \in {NoRequest, r}
    BY <2>1 DEF ClientInv, ClientType
  <2>3. QED
    BY <2>1, <2>2, SendKeeps DEF ClientInv, ClientType
<1>c. ASSUME UNCHANGED <<setup, sent, wire, agentVars>>
      PROVE  PacketInv'
  BY <1>c DEF agentVars, PacketInv, Carried, Reported, Seen
<1>d. CASE Lose
  <2>1. wire' \subseteq wire /\ UNCHANGED <<setup, sent, agentVars>>
    BY <1>d DEF Lose
  <2>2. Carried'
    BY <2>1 DEF PacketInv, Carried
  <2>3. Reported'
    BY <2>1, SeenKeeps DEF PacketInv, Reported, agentVars
  <2>4. QED
    BY <2>1, <2>2, <2>3 DEF PacketInv
<1>e. CASE Capture
  <2>1. /\ reports = <<>> /\ UNCHANGED <<setup, clientVars, sent, spans, made>>
        /\ \E p \in wire :
             /\ wire' = wire \ {p}
             /\ \/ reports' = <<>>
                \/ \E t : /\ reports' = <<t>>
                          /\ t.packet = <<p.of, p.nr>> /\ t.ids = p.ids /\ t.ids # NoRequest
    <3>1. PICK p \in wire, n \in {Len(setup.path) - 1, Len(setup.path)},
               garbled \in SUBSET ({5, 10} \cap setup.type) :
            LET t == TraceAfter(setup.type, Words, SubSeq(setup.path, 1, n), setup.idle)
                trace == [packet |-> <<p.of, p.nr>>, seen |-> n, garbled |-> garbled, ids |-> p.ids,
                          nodes |-> ParseIoamTrace(t, garbled)]
            IN  /\ reports' = IF Parsable(t) /\ Reportable(trace) THEN <<trace>> ELSE <<>>
                /\ wire' = wire \ {p}
      BY <1>e DEF Capture
    <3> DEFINE t == TraceAfter(setup.type, Words, SubSeq(setup.path, 1, n), setup.idle)
               trace == [packet |-> <<p.of, p.nr>>, seen |-> n, garbled |-> garbled, ids |-> p.ids,
                         nodes |-> ParseIoamTrace(t, garbled)]
    <3>2. /\ reports' = IF Parsable(t) /\ Reportable(trace) THEN <<trace>> ELSE <<>>
          /\ wire' = wire \ {p}
      BY <3>1
    <3>3. Reportable(trace) => p.ids # NoRequest
      BY DEF Reportable
    <3>4. trace.packet = <<p.of, p.nr>> /\ trace.ids = p.ids
      OBVIOUS
    <3> HIDE DEF t, trace
    <3>5. \/ reports' = <<>>
          \/ \E u : /\ reports' = <<u>>
                    /\ u.packet = <<p.of, p.nr>> /\ u.ids = p.ids /\ u.ids # NoRequest
      BY <3>2, <3>3, <3>4
    <3>6. QED
      BY <1>e, <3>2, <3>5 DEF Capture
  <2>2. PICK p \in wire :
          /\ wire' = wire \ {p}
          /\ \/ reports' = <<>>
             \/ \E t : /\ reports' = <<t>>
                       /\ t.packet = <<p.of, p.nr>> /\ t.ids = p.ids /\ t.ids # NoRequest
    BY <2>1
  <2>3. Carried'
    BY <2>1, <2>2 DEF PacketInv, Carried
  <2>4. \A m \in made : Seen(m)'
    BY <2>1, <2>2, SeenKeeps DEF PacketInv, Reported
  <2>5. ASSUME NEW t, reports' = <<t>>,
               t.packet = <<p.of, p.nr>>, t.ids = p.ids, t.ids # NoRequest
        PROVE  Seen(t.packet)' /\ t.ids = t.packet[1] /\ t.packet \notin made
    <3>1. p.ids = p.of /\ p.nr > 0 /\ p.nr < sent[p.of] /\ p.of \in Requests /\ p.nr \in 0 .. MaxPackets
      BY <2>5 DEF PacketInv, Carried
    <3>2. \A q \in wire' : <<q.of, q.nr>> # <<p.of, p.nr>>
      BY <2>2 DEF PacketInv, Carried
    <3>3. t.packet \notin made
      BY <2>5, <3>1 DEF PacketInv, Reported, Seen
    <3>4. QED
      BY <2>1, <2>5, <3>1, <3>2, <3>3 DEF Seen, Packets
  <2>6. Reported'
    BY <2>1, <2>2, <2>4, <2>5 DEF PacketInv, Reported
  <2>7. QED
    BY <2>1, <2>3, <2>6 DEF PacketInv
<1>f. CASE Report
  <2>1. /\ reports # <<>> /\ reports' = <<>>
        /\ UNCHANGED <<setup, sent, wire>>
        /\ Seen(reports[1].packet) /\ reports[1].ids = reports[1].packet[1]
        /\ reports[1].packet \notin made
    BY <1>f DEF Report, PacketInv, Reported
  <2>2. \/ UNCHANGED <<spans, made>>
        \/ /\ made' = made \cup {reports[1].packet}
           /\ \A s \in spans' : /\ s.packet = reports[1].packet
                                /\ s.parent = reports[1].ids /\ s.nr = 1
    BY <1>f, <2>1 DEF Report, CollectorReport
  <2>3. Carried'
    BY <2>1 DEF PacketInv, Carried
  <2>4. \A packet : Seen(packet) => Seen(packet)'
    BY <2>1, SeenKeeps
  <2>5. Reported'
    BY <2>1, <2>2, <2>4 DEF PacketInv, Reported
  <2>6. QED
    BY <2>1, <2>3, <2>5 DEF PacketInv
<1>g. ASSUME NEW r \in Requests,
             \/ DialFails(r) \/ CltEnable(r) \/ CltEnableFails(r) \/ ReadAll(r)
             \/ RequestFails(r) \/ CltDisable(r) \/ CltDisableFails(r) \/ Close(r)
      PROVE  PacketInv'
  BY <1>c, <1>g DEF DialFails, CltEnable, CltEnableFails, ReadAll, RequestFails, CltDisable,
                    CltDisableFails, Close
<1>h. CASE UNCHANGED vars
  BY <1>c, <1>h DEF vars
<1>i. QED
  BY <1>a, <1>b, <1>d, <1>e, <1>f, <1>g, <1>h DEF Next

----
\* Another request, already over, has had the descriptor of r.
Reused(r) == \E q \in Requests \ {r} : fd[q] = fd[r] /\ state[q] = "over"

\* A connection loses its ids only to a request that had its descriptor before.
MarkInv ==
  /\ \A r \in Requests : state[r] = "enabled" => ids[fd[r]] = r \/ Reused(r)
  /\ DataCarriesIds

\* At first no connection has lost its ids.
LEMMA MarkInit == Init => MarkInv
BY DEF Init, MarkInv, DataCarriesIds

\* Who is over stays over and keeps its number.
LEMMA ReusedKeeps ==
  ASSUME ClientInv, [Next]_vars, NEW r \in Requests, Reused(r), fd'[r] = fd[r]
  PROVE  Reused(r)'
<1>1. PICK q \in Requests \ {r} : fd[q] = fd[r] /\ state[q] = "over"
  BY DEF Reused
<1>2. state'[q] = "over" /\ fd'[q] = fd[q]
  BY <1>1 DEF Next, vars, clientVars, agentVars, Dial, DialFails, CltEnable, CltEnableFails, SendData,
     ReadAll, RequestFails, CltDisable, CltDisableFails, Close, Lose, Capture, Report, ClientInv, ClientType
<1>3. QED
  BY <1>1, <1>2 DEF Reused

\* Only the dialling request gets another number.
LEMMA DescriptorKeeps ==
  ASSUME ClientInv, [Next]_vars, NEW r \in Requests, state[r] # "new"
  PROVE  fd'[r] = fd[r]
BY DEF Next, vars, clientVars, agentVars, Dial, DialFails, CltEnable, CltEnableFails, SendData,
   ReadAll, RequestFails, CltDisable, CltDisableFails, Close, Lose, Capture, Report, ClientInv, ClientType

\* The packets on the wire are still as they should be when none was sent.
LEMMA WireKeeps ==
  ASSUME ClientInv, PacketInv, MarkInv, [Next]_vars, wire' \subseteq wire
  PROVE  DataCarriesIds'
<1> SUFFICES ASSUME NEW p \in wire, p.nr > 0, p.ids # p.of
             PROVE  p.ids = NoRequest /\ Reused(p.of)'
  BY DEF DataCarriesIds, Reused
<1>1. p.ids = NoRequest /\ Reused(p.of)
  BY DEF MarkInv, DataCarriesIds, Reused
<1>2. p.of \in Requests /\ p.nr \in Nat /\ sent[p.of] > 0
  BY MaxPacketsAssumption DEF PacketInv, Carried, ClientInv, ClientType
<1>3. state[p.of] # "new"
  BY <1>2 DEF ClientInv, Sockets
<1>4. QED
  BY <1>1, <1>2, <1>3, DescriptorKeeps, ReusedKeeps

\* A request whose ids are gone is one whose descriptor was another's.
LEMMA MarkStep == ClientInv /\ PacketInv /\ MarkInv /\ [Next]_vars => MarkInv'
<1> SUFFICES ASSUME ClientInv, PacketInv, MarkInv, [Next]_vars
             PROVE  MarkInv'
  OBVIOUS
<1> USE RequestsAssumption, NoFdAssumption, MaxPacketsAssumption
<1>1. ASSUME NEW r \in Requests, state'[r] = "enabled"
      PROVE  ids'[fd'[r]] = r \/ Reused(r)'
  <2>0. state[r] # "new" => fd'[r] = fd[r]
    BY DescriptorKeeps
  <2>1. CASE ids' = ids /\ state[r] = "enabled"
    BY <2>0, <2>1, ReusedKeeps DEF MarkInv
  <2>2. CASE CltEnable(r)
    BY <2>2 DEF CltEnable, ClientInv, ClientType, Sockets
  <2>3. ASSUME NEW q \in Requests, q # r, CltEnable(q)
        PROVE  ids'[fd'[r]] = r \/ Reused(r)'
    <3>1. state[q] = "dialled" /\ state[r] = "enabled" /\ ids' = [ids EXCEPT ![fd[q]] = q]
      BY <1>1, <2>3 DEF CltEnable, ClientInv, ClientType
    <3>2. fd[q] # fd[r]
      BY <2>3, <3>1, OwnDescriptor
    <3>3. ids'[fd[r]] = ids[fd[r]]
      BY <3>1, <3>2 DEF ClientInv, ClientType, Sockets
    <3>4. QED
      BY <2>0, <3>1, <3>3, ReusedKeeps DEF MarkInv
  <2>4. ASSUME NEW q \in Requests, RequestFails(q) \/ Close(q)
        PROVE  ids'[fd'[r]] = r \/ Reused(r)'
    <3>1. /\ state[r] = "enabled" /\ fd[r] \in Fds /\ owner[fd[r]] = r
          /\ owner[fd[q]] = q /\ ids' = [ids EXCEPT ![fd[q]] = NoRequest]
      BY <1>1, <2>4 DEF RequestFails, Close, Closed, ClientInv, ClientType, Sockets
    <3>2. fd[q] # fd[r]
      <4>1. q # r
        BY <1>1, <2>4 DEF RequestFails, Close, ClientInv, ClientType
      <4>2. QED
        BY <3>1, <4>1
    <3>3. ids'[fd[r]] = ids[fd[r]]
      BY <3>1, <3>2 DEF ClientInv, ClientType
    <3>4. QED
      BY <2>0, <3>1, <3>3, ReusedKeeps DEF MarkInv
  <2>5. ASSUME NEW q \in Requests, CltDisable(q)
        PROVE  ids'[fd'[r]] = r \/ Reused(r)'
    <3>1. /\ q # r /\ state[r] = "enabled" /\ state'[q] = "over" /\ fd' = fd
          /\ ids' = [ids EXCEPT ![fd[q]] = NoRequest]
      BY <1>1, <2>5 DEF CltDisable, ClientInv, ClientType
    <3>2. CASE fd[q] = fd[r]
      BY <3>1, <3>2 DEF Reused
    <3>3. CASE fd[q] # fd[r]
      <4>1. ids'[fd[r]] = ids[fd[r]]
        BY <3>1, <3>3 DEF ClientInv, ClientType, Sockets
      <4>2. QED
        BY <2>0, <3>1, <4>1, ReusedKeeps DEF MarkInv
    <3>4. QED
      BY <3>2, <3>3
  <2>6. \/ ids' = ids /\ state[r] = "enabled"
        \/ \E q \in Requests : CltEnable(q) \/ RequestFails(q) \/ Close(q) \/ CltDisable(q)
    BY <1>1 DEF Next, vars, clientVars, agentVars, Dial, DialFails, CltEnableFails, SendData, ReadAll,
       CltDisableFails, Lose, Capture, Report, ClientInv, ClientType
  <2>7. QED
    BY <2>1, <2>2, <2>3, <2>4, <2>5, <2>6
<1>2. DataCarriesIds'
  <2>1. CASE wire' \subseteq wire
    BY <2>1, WireKeeps
  <2>2. ASSUME NEW r \in Requests, Dial(r)
        PROVE  DataCarriesIds'
    <3>1. /\ wire' = wire \cup {[of |-> r, nr |-> sent[r], ids |-> NoRequest]}
          /\ sent[r] = 0
      BY <2>2 DEF Dial, Send, ClientInv, Sockets
    <3>2. \A p \in wire : p.nr > 0 /\ p.ids # p.of => p.ids = NoRequest /\ Reused(p.of)'
      <4> SUFFICES ASSUME NEW p \in wire, p.nr > 0, p.ids # p.of
                   PROVE  p.ids = NoRequest /\ Reused(p.of)'
        OBVIOUS
      <4>1. p.ids = NoRequest /\ Reused(p.of)
        BY DEF MarkInv, DataCarriesIds, Reused
      <4>2. p.of \in Requests /\ p.nr \in Nat /\ sent[p.of] > 0
        BY DEF PacketInv, Carried, ClientInv, ClientType
      <4>3. state[p.of] # "new"
        BY <4>2 DEF ClientInv, Sockets
      <4>4. QED
        BY <4>1, <4>2, <4>3, DescriptorKeeps, ReusedKeeps
    <3>3. QED
      BY <3>1, <3>2 DEF DataCarriesIds, Reused
  <2>3. ASSUME NEW r \in Requests, SendData(r)
        PROVE  DataCarriesIds'
    <3>1. /\ wire' = wire \cup {[of |-> r, nr |-> sent[r], ids |-> ids[fd[r]]]}
          /\ state[r] = "enabled" /\ UNCHANGED <<state, fd>>
          /\ owner[fd[r]] = r /\ fd[r] \in Fds
      BY <2>3 DEF SendData, Send, clientVars, ClientInv, Sockets
    <3>2. ids[fd[r]] # r => ids[fd[r]] = NoRequest /\ Reused(r)
      BY <3>1 DEF MarkInv, ClientInv, ClientType
    <3>3. \A p \in wire : p.nr > 0 /\ p.ids # p.of => p.ids = NoRequest /\ Reused(p.of)
      BY DEF MarkInv, DataCarriesIds, Reused
    <3>4. QED
      BY <3>1, <3>2, <3>3 DEF DataCarriesIds, Reused
  <2>4. \/ wire' \subseteq wire
        \/ \E r \in Requests : Dial(r) \/ SendData(r)
    BY DEF Next, vars, clientVars, agentVars, DialFails, CltEnable, CltEnableFails, ReadAll, RequestFails,
       CltDisable, CltDisableFails, Close, Lose, Capture, Report
  <2>5. QED
    BY <2>1, <2>2, <2>3, <2>4
<1>3. QED
  BY <1>1, <1>2 DEF MarkInv

----
TelemetryInv == ClientInv /\ PacketInv /\ MarkInv

\* The three parts together.
LEMMA TelemetryInvariant == Spec => []TelemetryInv
<1>1. Init => TelemetryInv
  BY ClientInit, PacketInit, MarkInit DEF TelemetryInv
<1>2. TelemetryInv /\ [Next]_vars => TelemetryInv'
  BY ClientStep, PacketStep, MarkStep DEF TelemetryInv
<1>3. QED
  BY <1>1, <1>2, PTL DEF Spec

\* Whatever fails or is reused, descriptors, sockets, packets and reports keep their kind and
\* a socket has no ids but those of the request that dialled it (clt_enable, clt_disable).
THEOREM TelemetryTypeCorrect == Spec => []TypeOK
<1>1. ASSUME TelemetryInv
      PROVE  TypeOK
  <2>1. ClientType /\ setup \in Setups /\ Carried
    BY <1>1 DEF TelemetryInv, ClientInv, PacketInv
  <2>2. Len(reports) <= 1 /\ \A t \in {reports[k] : k \in DOMAIN reports} : t.packet \in Packets
    <3>1. CASE reports = <<>>
      BY <3>1
    <3>2. CASE reports # <<>>
      <4>1. reports = <<reports[1]>> /\ reports[1].packet \in Packets
        BY <1>1, <3>2 DEF TelemetryInv, PacketInv, Reported, Seen
      <4>2. Len(reports) = 1 /\ DOMAIN reports = {1}
        BY <4>1
      <4>3. QED
        BY <4>1, <4>2
    <3>3. QED
      BY <3>1, <3>2
  <2>3. \A m \in made : m \in Packets
    BY <1>1 DEF TelemetryInv, PacketInv, Reported, Seen
  <2>4. \A s \in spans : s.packet \in Packets /\ s.parent \in Requests
    BY <1>1, <2>3 DEF TelemetryInv, PacketInv, Reported, Packets
  <2>5. QED
    BY <2>1, <2>2, <2>3, <2>4 DEF ClientType, Carried, TypeOK
<1>2. QED
  BY <1>1, TelemetryInvariant, PTL

\* A span of the collector hangs under the span of the request that sent the packet, for any
\* number of concurrent requests (listen, Report).
THEOREM SpansOfTheirRequestTheorem == Spec => []SpansOfTheirRequest
<1>1. TelemetryInv => SpansOfTheirRequest
  BY DEF TelemetryInv, PacketInv, Reported, Seen, SpansOfTheirRequest
<1>2. QED
  BY <1>1, TelemetryInvariant, PTL

\* No packet makes two spans (IOAMServiceClient::Report is not repeated).
THEOREM OneSpanPerPacketTheorem == Spec => []OneSpanPerPacket
<1>1. TelemetryInv => OneSpanPerPacket
  BY DEF TelemetryInv, PacketInv, Reported, OneSpanPerPacket
<1>2. QED
  BY <1>1, TelemetryInvariant, PTL

\* A packet of a request goes without ids only when clt_disable of a request already over hit
\* its reused descriptor.
THEOREM DataCarriesIdsTheorem == Spec => []DataCarriesIds
<1>1. TelemetryInv => DataCarriesIds
  BY DEF TelemetryInv, MarkInv
<1>2. QED
  BY <1>1, TelemetryInvariant, PTL

----
(***************************************************************************)
(* The place of a field in the data of a node.                             *)
(***************************************************************************)
\* The words of a node before those of a bit.
Before(type, b) == {w \in NodeWords(type) : w[1] < b}

\* There are finitely many of any words of fields.
LEMMA WordsFinite ==
  ASSUME NEW P, P \subseteq NodeBits \X (1 .. 2)
  PROVE  IsFiniteSet(P) /\ Cardinality(P) \in Nat
<1>1. IsFiniteSet(0 .. 11) /\ IsFiniteSet(1 .. 2)
  <2>1. \A a, b \in Int : IsFiniteSet(a .. b)
    BY FS_Interval
  <2>2. 0 \in Int /\ 1 \in Int /\ 2 \in Int /\ 11 \in Int
    OBVIOUS
  <2>3. QED
    BY <2>1, <2>2, Zenon
<1>2. IsFiniteSet(NodeBits \X (1 .. 2))
  BY <1>1, FS_Product DEF NodeBits
<1>3. P \in SUBSET (NodeBits \X (1 .. 2))
  OBVIOUS
<1>4. QED
  BY <1>2, <1>3, FS_Subset, FS_CardinalityType

\* The kernel and the agent find a field at the same place.
LEMMA OffsetIsStart ==
  ASSUME NEW type, type \subseteq Selectable, NEW b \in type
  PROVE  /\ Offset(type, b) = Cardinality(Before(type, b))
         /\ NodeLen({c \in type : c < b}) = Cardinality(Before(type, b))
         /\ Cardinality(Before(type, b)) \in Nat /\ NodeLen(type) \in Nat
<1>1. Before(type, b) \subseteq NodeBits \X (1 .. 2) /\ NodeWords(type) \subseteq NodeBits \X (1 .. 2)
  BY DEF Before, NodeWords
<1>2. {w \in (type \cap NodeBits) \X (1 .. 2) : w[1] < b /\ w[2] <= Width(w[1])} = Before(type, b)
  BY DEF Before, NodeWords, Width, FieldLen
<1>3. NodeWords({c \in type : c < b}) = Before(type, b)
  BY DEF Before, NodeWords
<1>4. QED
  BY <1>1, <1>2, <1>3, WordsFinite DEF Offset, NodeLen

\* The words of a bit are behind those of the bits before it.
LEMMA WordsOfBit ==
  ASSUME NEW type, type \subseteq Selectable, NEW b \in type \cap NodeBits,
         NEW P, P \subseteq NodeWords(type), Before(type, b) \subseteq P, \A j \in 1 .. FieldLen(b) : <<b, j>> \in P
  PROVE  Cardinality(Before(type, b)) + FieldLen(b) <= Cardinality(P)
<1> DEFINE B == Before(type, b)
           B1 == B \cup {<<b, 1>>}
           B2 == B1 \cup {<<b, 2>>}
<1>1. IsFiniteSet(P) /\ Cardinality(P) \in Nat /\ IsFiniteSet(B) /\ Cardinality(B) \in Nat
  BY WordsFinite DEF NodeWords, Before
<1>2. b \in Nat /\ <<b, 1>> \notin B /\ <<b, 2>> \notin B1 /\ <<b, 1>> \in P
  BY DEF Before, NodeBits, FieldLen
<1>3. B \in SUBSET P /\ B1 \in SUBSET P
  BY <1>2
<1>4. FieldLen(b) \in {1, 2} /\ (FieldLen(b) = 2 => B2 \in SUBSET P)
  BY <1>3 DEF FieldLen
<1> HIDE DEF B
<1>5. IsFiniteSet(B1) /\ Cardinality(B1) = Cardinality(B) + 1
  BY <1>1, <1>2, FS_AddElement
<1> HIDE DEF B1
<1>6. Cardinality(B2) = Cardinality(B1) + 1
  BY <1>2, <1>5, FS_AddElement
<1> HIDE DEF B2
<1>7. Cardinality(B1) <= Cardinality(P) /\ (FieldLen(b) = 2 => Cardinality(B2) <= Cardinality(P))
  BY <1>1, <1>3, <1>4, FS_Subset
<1>8. QED
  BY <1>1, <1>4, <1>5, <1>6, <1>7 DEF B

\* The fields of a node follow each other in the order of the bits.
LEMMA FieldsInOrder ==
  ASSUME NEW type, type \subseteq Selectable, NEW b \in type \cap NodeBits
  PROVE  /\ Offset(type, b) + FieldLen(b) <= NodeLen(type)
         /\ \A c \in type \cap NodeBits : b < c => Offset(type, b) + FieldLen(b) <= Offset(type, c)
<1>1. \A j \in 1 .. FieldLen(b) : <<b, j>> \in NodeWords(type)
  BY DEF FieldLen, NodeWords
<1>2. Before(type, b) \subseteq NodeWords(type)
  BY DEF Before
<1>3. Offset(type, b) + FieldLen(b) <= NodeLen(type)
  BY <1>1, <1>2, WordsOfBit, OffsetIsStart DEF NodeLen
<1>4. ASSUME NEW c \in type \cap NodeBits, b < c
      PROVE  Offset(type, b) + FieldLen(b) <= Offset(type, c)
  <2>1. Before(type, b) \subseteq Before(type, c) /\ \A j \in 1 .. FieldLen(b) : <<b, j>> \in Before(type, c)
    BY <1>1, <1>4 DEF Before, NodeWords, NodeBits
  <2>2. Before(type, c) \subseteq NodeWords(type)
    BY DEF Before
  <2>3. Cardinality(Before(type, b)) + FieldLen(b) <= Cardinality(Before(type, c))
    BY <2>1, <2>2, WordsOfBit
  <2>4. Offset(type, b) = Cardinality(Before(type, b)) /\ Offset(type, c) = Cardinality(Before(type, c))
    BY OffsetIsStart
  <2>5. QED
    BY <2>3, <2>4
<1>5. QED
  BY <1>3, <1>4

\* What an entity writes for a bit is where the agent looks for it.
LEMMA NodeDataAt ==
  ASSUME NEW type, type \subseteq Selectable, NEW e, NEW idle
  PROVE  /\ \A b \in type \cap NodeBits : \A j \in 1 .. FieldLen(b) :
              /\ Offset(type, b) + j \in 1 .. NodeLen(type) + OpaqueLen(type)
              /\ NodeData(type, e, idle)[Offset(type, b) + j] = IF b = 6 /\ e \in idle THEN Zero ELSE <<e, b, j>>
         /\ Opaque \in type =>
              /\ NodeLen(type) + 1 \in 1 .. NodeLen(type) + OpaqueLen(type)
              /\ NodeData(type, e, idle)[NodeLen(type) + 1] = <<e, Opaque, 1>>
         /\ NodeLen(type) \in Nat /\ OpaqueLen(type) \in Nat
<1>1. OpaqueLen(type) = IF Opaque \in type THEN 1 ELSE 0
  <2>1. type \cap {Opaque} = IF Opaque \in type THEN {Opaque} ELSE {}
    OBVIOUS
  <2>2. QED
    BY <2>1, FS_EmptySet, FS_Singleton DEF OpaqueLen
<1>2. NodeLen(type) \in Nat
  BY WordsFinite DEF NodeLen, NodeWords
<1>3. ASSUME NEW b \in type \cap NodeBits, NEW j \in 1 .. FieldLen(b)
      PROVE  /\ Offset(type, b) + j \in 1 .. NodeLen(type)
             /\ NodeData(type, e, idle)[Offset(type, b) + j] = IF b = 6 /\ e \in idle THEN Zero ELSE <<e, b, j>>
  <2>1. \A c \in type \cap NodeBits : /\ NodeLen({d \in type : d < c}) = Offset(type, c)
                                      /\ Offset(type, c) \in Nat /\ FieldLen(c) \in {1, 2} /\ c \in Nat
    BY OffsetIsStart DEF FieldLen, NodeBits
  <2>2. PICK at : at = Offset(type, b) + j
    OBVIOUS
  <2>3. /\ Offset(type, b) + FieldLen(b) <= NodeLen(type)
        /\ \A c, d \in type \cap NodeBits : c < d => Offset(type, c) + FieldLen(c) <= Offset(type, d)
    BY FieldsInOrder
  <2>a. at \in 1 .. NodeLen(type)
    <3> DEFINE p == Offset(type, b)
               l == NodeLen(type)
    <3>1. p \in Nat /\ l \in Nat /\ FieldLen(b) \in {1, 2} /\ p + FieldLen(b) <= l /\ at = p + j
      BY <1>2, <2>1, <2>2, <2>3
    <3> HIDE DEF p, l
    <3>2. at \in 1 .. l
      BY <3>1
    <3>3. QED
      BY <3>2 DEF l
  <2>4. \A c \in type \cap NodeBits : at \in Offset(type, c) + 1 .. Offset(type, c) + FieldLen(c) <=> c = b
    <3> SUFFICES ASSUME NEW c \in type \cap NodeBits
                 PROVE  at \in Offset(type, c) + 1 .. Offset(type, c) + FieldLen(c) <=> c = b
      OBVIOUS
    <3> DEFINE o == Offset(type, c)
               p == Offset(type, b)
    <3>1. o \in Nat /\ p \in Nat /\ FieldLen(c) \in {1, 2} /\ FieldLen(b) \in {1, 2} /\ c \in Nat /\ b \in Nat
      BY <2>1
    <3>2. at = p + j /\ (c < b => o + FieldLen(c) <= p) /\ (b < c => p + FieldLen(b) <= o) /\ (b = c => o = p)
      BY <2>2, <2>3
    <3> HIDE DEF o, p
    <3>3. at \in o + 1 .. o + FieldLen(c) <=> c = b
      BY <3>1, <3>2
    <3>4. QED
      BY <3>3 DEF o
  <2>5. (CHOOSE c \in type \cap NodeBits : at \in NodeLen({d \in type : d < c}) + 1 .. NodeLen({d \in type : d < c}) + FieldLen(c)) = b
    BY <2>1, <2>4
  <2>6. NodeData(type, e, idle)[at] = IF b = 6 /\ e \in idle THEN Zero ELSE <<e, b, at - NodeLen({d \in type : d < b})>>
    <3> DEFINE l == NodeLen(type)
    <3>1. at \in 1 .. l + OpaqueLen(type) /\ at <= l
      BY <1>1, <1>2, <2>a
    <3>2. NodeData(type, e, idle)[at] =
            LET bit == CHOOSE c \in type \cap NodeBits : at \in NodeLen({d \in type : d < c}) + 1 .. NodeLen({d \in type : d < c}) + FieldLen(c)
            IN  IF bit = 6 /\ e \in idle THEN Zero ELSE <<e, bit, at - NodeLen({d \in type : d < bit})>>
      BY <3>1, Zenon DEF NodeData
    <3>3. QED
      BY <2>5, <3>2, Zenon
  <2>7. at - NodeLen({d \in type : d < b}) = j
    BY <2>1, <2>2
  <2>8. QED
    BY <2>2, <2>a, <2>6, <2>7
<1>4. Opaque \in type => NodeData(type, e, idle)[NodeLen(type) + 1] = <<e, Opaque, 1>>
  BY <1>1, <1>2 DEF NodeData
<1>5. QED
  BY <1>1, <1>2, <1>3, <1>4

----
(***************************************************************************)
(* What the entities of a path have written.                               *)
(***************************************************************************)
\* Multiples of a length.
LEMMA Multiples ==
  ASSUME NEW s \in Nat
  PROVE  /\ \A n \in Nat : n * s \in Nat /\ (n + 1) * s = n * s + s
         /\ \A k, n \in Nat : k <= n => k * s <= n * s
         /\ 0 * s = 0 /\ 1 * s = s
<1>1. \A n \in Nat : n * s \in Nat /\ (n + 1) * s = n * s + s
  OBVIOUS
<1>2. ASSUME NEW k \in Nat, NEW n \in Nat, k <= n
      PROVE  k * s <= n * s
  <2>1. PICK d \in Nat : n = k + d
    BY <1>2
  <2>2. n * s = k * s + d * s /\ d * s \in Nat /\ k * s \in Nat
    BY <2>1
  <2>3. QED
    BY <2>2
<1>3. QED
  BY <1>1, <1>2

\* How many whole lengths there are.
LEMMA Quotient ==
  ASSUME NEW s \in Nat \ {0}, NEW q \in Nat, NEW w \in Nat, q * s <= w, w < q * s + s
  PROVE  w \div s = q
OBVIOUS

\* The quotient is such a number.
LEMMA QuotientExists ==
  ASSUME NEW s \in Nat \ {0}, NEW w \in Nat
  PROVE  LET q == w \div s IN q \in Nat /\ q * s <= w /\ w < q * s + s
OBVIOUS

\* How many of the first n entities of a path have found room.
Found(type, words, n) == LET r == words \div (NodeLen(type) + OpaqueLen(type)) IN IF n <= r THEN n ELSE r

\* The trace t behind the first n entities of path: the k-th that wrote is the k-th from the end.
Written(t, type, words, path, idle, n) ==
  LET s == NodeLen(type) + OpaqueLen(type)
      m == Found(type, words, n)
  IN  /\ type \subseteq Selectable /\ s # 0 /\ words \in Nat /\ n \in Nat
      /\ t = [type |-> type, remlen |-> words - m * s, overflow |-> t.overflow, data |-> t.data]
      /\ t.overflow \in BOOLEAN /\ (t.overflow <=> m < n)
      /\ t.data = [j \in 1 .. words |-> t.data[j]]
      /\ \A k \in 1 .. m : \A i \in 1 .. s : t.data[words - k * s + i] = NodeData(type, path[k], idle)[i]

\* The length of what a node writes.
LEMMA LengthType ==
  ASSUME NEW type, type \subseteq Selectable
  PROVE  NodeLen(type) \in Nat /\ OpaqueLen(type) \in Nat /\ NodeLen(type) + OpaqueLen(type) \in Nat
BY NodeDataAt

\* One entity more finds room, or there is none.
LEMMA FoundNext ==
  ASSUME NEW type, type \subseteq Selectable, NodeLen(type) + OpaqueLen(type) # 0, NEW words \in Nat, NEW n \in Nat
  PROVE  LET s == NodeLen(type) + OpaqueLen(type)
             m == Found(type, words, n)
         IN  /\ m \in Nat /\ m <= n /\ m * s <= words /\ m * s \in Nat
             /\ m < n => Found(type, words, n + 1) = m
             /\ m = n => /\ words - m * s - s < 0 => Found(type, words, n + 1) = m
                         /\ words - m * s - s >= 0 => Found(type, words, n + 1) = n + 1
<1> DEFINE s == NodeLen(type) + OpaqueLen(type)
           q == words \div s
<1>1. s \in Nat \ {0}
  BY LengthType
<1> HIDE DEF s
<1>2. q \in Nat /\ q * s <= words /\ words < q * s + s
  BY <1>1, QuotientExists
<1> HIDE DEF q
<1>3. \A k \in Nat : Found(type, words, k) = IF k <= q THEN k ELSE q
  BY DEF Found, s, q
<1>4. \A k, l \in Nat : k <= l => k * s <= l * s
  BY <1>1, Multiples
<1>5. \A k \in Nat : k * s \in Nat /\ (k + 1) * s = k * s + s
  BY <1>1, Multiples
<1>6. PICK m : m = Found(type, words, n)
  OBVIOUS
<1>7. m \in Nat /\ m <= n /\ m <= q
  BY <1>2, <1>3, <1>6
<1>8. m * s <= q * s /\ m * s \in Nat /\ q * s \in Nat
  BY <1>2, <1>4, <1>5, <1>7
<1>9. m < n => Found(type, words, n + 1) = m
  BY <1>2, <1>3, <1>6, <1>7
<1>10. m = n /\ words - m * s - s < 0 => Found(type, words, n + 1) = m
  <2> SUFFICES ASSUME m = n, words - m * s - s < 0 PROVE Found(type, words, n + 1) = m
    OBVIOUS
  <2>1. ~(n + 1 <= q)
    <3> SUFFICES ASSUME n + 1 <= q PROVE FALSE
      OBVIOUS
    <3>1. (n + 1) * s <= q * s /\ (n + 1) * s = n * s + s
      BY <1>2, <1>4, <1>5
    <3>2. PICK x, y : x = n * s /\ y = q * s
      OBVIOUS
    <3>3. x \in Nat /\ y \in Nat /\ x + s <= y /\ y <= words /\ words - x - s < 0
      BY <1>2, <1>8, <3>1, <3>2
    <3>4. QED
      BY <1>1, <3>3
  <2>2. q = m
    BY <1>2, <1>7, <2>1
  <2>3. QED
    BY <1>3, <2>1, <2>2
<1>11. m = n /\ words - m * s - s >= 0 => Found(type, words, n + 1) = n + 1
  <2> SUFFICES ASSUME m = n, words - m * s - s >= 0 PROVE Found(type, words, n + 1) = n + 1
    OBVIOUS
  <2>1. n + 1 <= q
    <3> SUFFICES ASSUME n = q PROVE FALSE
      BY <1>2, <1>7
    <3>1. PICK x : x = q * s
      OBVIOUS
    <3>2. x \in Nat /\ words - x - s >= 0 /\ words < x + s
      BY <1>2, <1>8, <3>1
    <3>3. QED
      BY <1>1, <3>2
  <2>2. QED
    BY <1>3, <2>1
<1>12. m * s <= words
  <2>1. PICK x, y : x = m * s /\ y = q * s
    OBVIOUS
  <2>2. x <= y /\ y <= words /\ x \in Nat /\ y \in Nat
    BY <1>2, <1>8, <2>1
  <2>3. QED
    BY <2>1, <2>2
<1>13. QED
  BY <1>6, <1>7, <1>8, <1>9, <1>10, <1>11, <1>12 DEF s

\* The kernel of the next entity writes in front of what the ones before it wrote.
LEMMA FillWrites ==
  ASSUME NEW t, NEW type, NEW words, NEW path, NEW idle, NEW n, Written(t, type, words, path, idle, n)
  PROVE  Written(Fill(t, path[n + 1], idle), type, words, path, idle, n + 1)
<1> DEFINE s == NodeLen(type) + OpaqueLen(type)
           m == Found(type, words, n)
           u == Fill(t, path[n + 1], idle)
<1>0. type \subseteq Selectable /\ s # 0 /\ words \in Nat /\ n \in Nat
  BY DEF Written
<1>1. s \in Nat \ {0}
  BY <1>0, LengthType
<1>2. /\ t = [type |-> type, remlen |-> words - m * s, overflow |-> t.overflow, data |-> t.data]
      /\ t.overflow \in BOOLEAN /\ (t.overflow <=> m < n)
      /\ t.data = [j \in 1 .. words |-> t.data[j]]
      /\ \A k \in 1 .. m : \A i \in 1 .. s : t.data[words - k * s + i] = NodeData(type, path[k], idle)[i]
  BY DEF Written
<1>3. /\ m \in Nat /\ m <= n /\ m * s <= words /\ m * s \in Nat
      /\ m < n => Found(type, words, n + 1) = m
      /\ m = n => /\ words - m * s - s < 0 => Found(type, words, n + 1) = m
                  /\ words - m * s - s >= 0 => Found(type, words, n + 1) = n + 1
  BY <1>0, FoundNext
<1>a. PICK o, d, l : /\ t = [type |-> type, remlen |-> l, overflow |-> o, data |-> d] /\ l = words - m * s
                    /\ o \in BOOLEAN /\ (o <=> m < n) /\ d = [j \in 1 .. words |-> d[j]] /\ d = t.data
  BY <1>0, <1>2
<1> HIDE DEF s, m
<1>4. CASE m < n \/ words - m * s - s < 0
  <2>1. m = Found(type, words, n + 1) /\ m < n + 1
    BY <1>0, <1>3, <1>4
  <2>2. (t.overflow <=> m < n) /\ t.type = type /\ t.remlen = words - m * s
    BY <1>0, <1>2
  <2>3. u = [t EXCEPT !.overflow = TRUE]
    BY <1>0, <1>3, <1>4, <2>2 DEF Fill, s
  <2>4. u = [type |-> type, remlen |-> words - m * s, overflow |-> TRUE, data |-> t.data]
    BY <1>0, <1>a, <2>3
  <2>5. u.data = t.data /\ u.overflow = TRUE
    BY <1>0, <2>4
  <2> HIDE DEF u
  <2>6. /\ u = [type |-> type, remlen |-> words - m * s, overflow |-> u.overflow, data |-> u.data]
        /\ u.overflow \in BOOLEAN /\ (u.overflow <=> m < n + 1)
        /\ u.data = [j \in 1 .. words |-> u.data[j]]
        /\ \A k \in 1 .. m : \A i \in 1 .. s : u.data[words - k * s + i] = NodeData(type, path[k], idle)[i]
    BY <1>0, <1>2, <2>1, <2>4, <2>5
  <2>7. Written(u, type, words, path, idle, n + 1)
    <3>1. s # 0 /\ n + 1 \in Nat
      BY <1>0
    <3>2. QED
      BY <1>0, <2>1, <2>6, <3>1 DEF Written, s
  <2>8. QED
    BY <1>0, <2>7 DEF u
<1>5. CASE m = n /\ words - m * s - s >= 0
  <2>1. Found(type, words, n + 1) = n + 1
    BY <1>0, <1>3, <1>5
  <2> DEFINE x == m * s
             rest == words - x - s
             new == [j \in 1 .. words |-> IF j \in rest + 1 .. words - x THEN NodeData(type, path[n + 1], idle)[j - rest]
                                                                       ELSE t.data[j]]
  <2>2. x \in Nat /\ x <= words /\ rest \in Nat /\ (n + 1) * s = x + s
    BY <1>0, <1>1, <1>3, <1>5, Multiples
  <2>3. t.type = type /\ t.remlen = words - x /\ DOMAIN t.data = 1 .. words /\ t.overflow = FALSE
    <3>1. t.type = type /\ t.remlen = words - x
      BY <1>0, <1>2
    <3>2. DOMAIN t.data = 1 .. words
      BY <1>0, <1>2
    <3>3. t.overflow = FALSE
      BY <1>0, <1>2, <1>3, <1>5
    <3>4. QED
      BY <1>0, <3>1, <3>2, <3>3
  <2>4. u = [type |-> type, remlen |-> rest, overflow |-> FALSE, data |-> new]
    <3>1. t.remlen - (NodeLen(t.type) + OpaqueLen(t.type)) = rest
      BY <1>0, <2>3 DEF s
    <3>2. ~(t.overflow \/ t.remlen - (NodeLen(t.type) + OpaqueLen(t.type)) < 0)
      BY <1>0, <2>2, <2>3, <3>1
    <3>3. u = [t EXCEPT !.remlen = rest,
                 !.data = [j \in DOMAIN @ |-> IF j \in rest + 1 .. t.remlen THEN NodeData(t.type, path[n + 1], idle)[j - rest]
                                                                            ELSE @[j]]]
      <4> HIDE DEF rest
      <4>1. QED
        BY <1>0, <3>1, <3>2 DEF Fill
    <3>4. [j \in DOMAIN t.data |-> IF j \in rest + 1 .. t.remlen THEN NodeData(t.type, path[n + 1], idle)[j - rest]
                                                               ELSE t.data[j]] = new
      BY <1>0, <2>3
    <3> HIDE DEF rest, new, u
    <3>5. u = [t EXCEPT !.remlen = rest, !.data = new]
      BY <1>0, <3>3, <3>4
    <3>6. QED
      BY <1>0, <1>a, <2>3, <3>5
  <2>5. ASSUME NEW k \in 1 .. n + 1, NEW i \in 1 .. s
        PROVE  new[words - k * s + i] = NodeData(type, path[k], idle)[i]
    <3>1. CASE k = n + 1
      <4>1. k * s = x + s
        BY <1>0, <2>2, <3>1
      <4>2. PICK j : j = rest + i
        BY <1>0
      <4>3. words - k * s + i = j /\ j \in 1 .. words /\ j \in rest + 1 .. words - x /\ j - rest = i
        <5> HIDE DEF x, new
        <5>1. PICK y : y = k * s
          BY <1>0
        <5>2. QED
          BY <1>0, <1>1, <2>2, <4>1, <4>2, <5>1
      <4> HIDE DEF rest, x
      <4>4. new[j] = NodeData(type, path[n + 1], idle)[i]
        BY <1>0, <4>3
      <4>5. QED
        BY <1>0, <3>1, <4>3, <4>4
    <3>2. CASE k # n + 1
      <4>1. k \in 1 .. m /\ k \in Nat /\ k >= 1
        BY <1>0, <1>3, <1>5, <3>2
      <4>2. k * s <= x /\ k * s \in Nat /\ s <= k * s
        <5>1. s = 1 * s /\ 1 * s <= k * s
          BY <1>0, <1>1, <4>1, Multiples
        <5>2. QED
          BY <1>0, <1>1, <1>3, <4>1, <5>1, Multiples
      <4>3. PICK j : j = words - k * s + i
        BY <1>0
      <4>4. j \in 1 .. words /\ j \notin rest + 1 .. words - x
        <5> HIDE DEF x, new
        <5>1. PICK y : y = k * s
          BY <1>0
        <5>2. QED
          BY <1>0, <1>1, <2>2, <4>2, <4>3, <5>1
      <4> HIDE DEF rest, x
      <4>5. new[j] = t.data[j]
        BY <1>0, <4>4
      <4>6. QED
        BY <1>0, <1>2, <4>1, <4>3, <4>5
    <3>3. QED
      BY <1>0, <3>1, <3>2
  <2>6. new = [j \in 1 .. words |-> new[j]]
    BY <1>0
  <2>7. rest = words - (n + 1) * s
    <3> HIDE DEF x
    <3>1. QED
      BY <1>0, <1>1, <2>2
  <2> HIDE DEF new, u, rest
  <2>8. /\ u = [type |-> type, remlen |-> words - (n + 1) * s, overflow |-> u.overflow, data |-> u.data]
        /\ u.data = new /\ u.overflow = FALSE
    BY <1>0, <2>4, <2>7
  <2>9. /\ u = [type |-> type, remlen |-> words - (n + 1) * s, overflow |-> u.overflow, data |-> u.data]
        /\ u.overflow \in BOOLEAN /\ (u.overflow <=> n + 1 < n + 1)
        /\ u.data = [j \in 1 .. words |-> u.data[j]]
        /\ \A k \in 1 .. n + 1 : \A i \in 1 .. s : u.data[words - k * s + i] = NodeData(type, path[k], idle)[i]
    <3>1. u.data = new
      BY <1>0, <2>8
    <3>2. u.overflow \in BOOLEAN /\ (u.overflow <=> n + 1 < n + 1)
      <4>1. ~(n + 1 < n + 1)
        BY <1>0
      <4>2. u.overflow = FALSE
        BY <1>0, <2>8
      <4>3. QED
        BY <1>0, <4>1, <4>2, Zenon
    <3>3. u.data = [j \in 1 .. words |-> u.data[j]]
      BY <1>0, <2>6, <3>1
    <3>4. \A k \in 1 .. n + 1 : \A i \in 1 .. s : u.data[words - k * s + i] = NodeData(type, path[k], idle)[i]
      BY <1>0, <2>5, <3>1
    <3>5. QED
      BY <1>0, <2>8, <3>2, <3>3, <3>4
  <2>10. Written(u, type, words, path, idle, n + 1)
    <3>1. s # 0 /\ n + 1 \in Nat
      BY <1>0
    <3>2. QED
      BY <1>0, <2>1, <2>9, <3>1 DEF Written, s
  <2>11. QED
    BY <1>0, <2>10 DEF u
<1>6. QED
  BY <1>0, <1>1, <1>3, <1>4, <1>5

\* A trace that nobody has written into.
LEMMA EmptyWritten ==
  ASSUME NEW type, type \subseteq Selectable, NodeLen(type) + OpaqueLen(type) # 0, NEW words \in Nat, NEW path, NEW idle
  PROVE  Written(EmptyTrace(type, words), type, words, path, idle, 0)
<1> DEFINE s == NodeLen(type) + OpaqueLen(type)
           t == EmptyTrace(type, words)
<1>1. s \in Nat \ {0}
  BY LengthType
<1>2. Found(type, words, 0) = 0
  <2>1. words \div s \in Nat
    BY <1>1, QuotientExists
  <2>2. QED
    BY <2>1 DEF Found
<1>3. t = [type |-> type, remlen |-> words, overflow |-> FALSE, data |-> [j \in 1 .. words |-> Zero]]
  BY DEF EmptyTrace
<1>4. words - 0 * s = words
  BY <1>1
<1>5. t.overflow = FALSE /\ t.data = [j \in 1 .. words |-> Zero]
  BY <1>3
<1> HIDE DEF t, s
<1>6. t = [type |-> type, remlen |-> words - 0 * s, overflow |-> t.overflow, data |-> t.data]
  BY <1>3, <1>4, <1>5
<1>7. t.data = [j \in 1 .. words |-> t.data[j]]
  BY <1>5
<1>8. t.overflow \in BOOLEAN /\ (t.overflow <=> 0 < 0)
  <2>1. ~(0 < 0)
    OBVIOUS
  <2>2. QED
    BY <1>5, <2>1, Zenon
<1>9. \A k \in 1 .. 0 : \A i \in 1 .. s : t.data[words - k * s + i] = NodeData(type, path[k], idle)[i]
  OBVIOUS
<1>10. QED
  <2>1. s # 0 /\ 0 \in Nat
    BY <1>1
  <2>2. QED
    BY <1>2, <1>6, <1>7, <1>8, <1>9, <2>1 DEF Written, s, t

\* The trace that the entities of a path leave, from the first to the last.
LEMMA TraceIsWritten ==
  ASSUME NEW type, type \subseteq Selectable, NodeLen(type) + OpaqueLen(type) # 0, NEW words \in Nat,
         NEW path, Len(path) \in Nat, NEW idle
  PROVE  Written(TraceAfter(type, words, path, idle), type, words, path, idle, Len(path))
<1> DEFINE E == EmptyTrace(type, words)
           N == Len(path)
           Next1(f, n) == IF n = 0 THEN E ELSE Fill(f[n - 1], path[n], idle)
           Upto(n) == \E f : f = [m \in 0 .. n |-> Next1(f, m)]
<1>1. Upto(N)
  <2> DEFINE T == {n \in Nat : ~Upto(n)}
  <2> SUFFICES ASSUME T # {} PROVE FALSE
    OBVIOUS
  <2>1. PICK n \in T : \A m \in T : n <= m
    <3> HIDE DEF Upto
    <3>1. QED
      BY SmallestExists
  <2>2. n # 0
    <3>1. [m \in 0 .. 0 |-> E] = [m \in 0 .. 0 |-> Next1([l \in 0 .. 0 |-> E], m)]
      OBVIOUS
    <3>2. Upto(0)
      BY <3>1
    <3> HIDE DEF Upto
    <3>3. QED
      BY <3>2
  <2>3. n - 1 \in Nat /\ Upto(n - 1) /\ n \in Nat /\ ~Upto(n)
    <3> HIDE DEF Upto
    <3>1. QED
      BY <2>1, <2>2
  <2>4. PICK f : f = [m \in 0 .. n - 1 |-> Next1(f, m)]
    BY <2>3
  <2> DEFINE g == [m \in 0 .. n |-> IF m = n THEN Fill(f[n - 1], path[n], idle) ELSE f[m]]
  <2>5. ASSUME NEW m \in 0 .. n
        PROVE  g[m] = Next1(g, m)
    <3>1. CASE m = 0
      BY <2>2, <2>3, <2>4, <3>1
    <3>2. CASE m # 0
      <4>1. m - 1 \in 0 .. n - 1 /\ m - 1 \in 0 .. n /\ m - 1 # n
        BY <2>3, <3>2
      <4>2. g[m - 1] = f[m - 1]
        BY <4>1
      <4>3. m # n => m \in 0 .. n - 1 /\ f[m] = Fill(f[m - 1], path[m], idle)
        BY <2>3, <2>4, <3>2
      <4>4. g[m] = Fill(f[m - 1], path[m], idle)
        BY <4>3
      <4>5. QED
        BY <3>2, <4>2, <4>4
    <3>3. QED
      BY <3>1, <3>2
  <2>6. g = [m \in 0 .. n |-> g[m]]
    OBVIOUS
  <2> HIDE DEF g
  <2>7. g = [m \in 0 .. n |-> Next1(g, m)]
    BY <2>5, <2>6
  <2>8. QED
    BY <2>3, <2>7
<1>2. PICK after : after = [n \in 0 .. N |-> Next1(after, n)] /\ TraceAfter(type, words, path, idle) = after[N]
  BY <1>1, Zenon DEF TraceAfter
<1>3. after[0] = E /\ \A n \in 1 .. N : after[n] = Fill(after[n - 1], path[n], idle)
  BY <1>2
<1>4. \A n \in 0 .. N : Written(after[n], type, words, path, idle, n)
  <2> DEFINE T == {n \in 0 .. N : ~Written(after[n], type, words, path, idle, n)}
  <2> SUFFICES ASSUME T # {} PROVE FALSE
    OBVIOUS
  <2>1. PICK n \in T : \A m \in T : n <= m
    <3>1. T \subseteq Nat
      OBVIOUS
    <3> HIDE DEF T
    <3>2. QED
      BY <3>1, SmallestExists
  <2>2. n # 0
    BY <1>3, EmptyWritten
  <2>3. n \in Nat /\ n - 1 \in Nat /\ n \in 1 .. N /\ n - 1 \in 0 .. N /\ n - 1 \notin T
    BY <2>1, <2>2
  <2>4. Written(after[n - 1], type, words, path, idle, n - 1)
    BY <2>3
  <2>5. PICK k \in Nat : k = n - 1 /\ n = k + 1
    BY <2>3
  <2>6. Written(Fill(after[k], path[k + 1], idle), type, words, path, idle, k + 1)
    BY <2>4, <2>5, FillWrites
  <2>7. QED
    BY <1>3, <2>1, <2>3, <2>5, <2>6
<1>5. QED
  BY <1>2, <1>4

----
(***************************************************************************)
(* What the agent and the collector make of it.                            *)
(***************************************************************************)
\* What the agent takes from the words entity e wrote for bit b.
Told(b, e, idle, garbled) ==
  CASE b = Opaque -> << <<e, Opaque, 1>> >>
    [] b # Opaque /\ b \in garbled -> Garbled
    [] b # Opaque /\ b \notin garbled /\ b = 6 /\ e \in idle -> Unset
    [] OTHER -> [j \in 1 .. FieldLen(b) |-> <<e, b, j>>]

\* The bits a field is set by.
SetBy(type, f) == {b \in type : Setter[b] = f}

\* Each bit the generator selects has a field of its own, but for bits 1 and 9.
LEMMA FieldsOfBits ==
  ASSUME NEW type, type \subseteq Selectable, NEW b \in type
  PROVE  /\ Setter[b] \in Fields
         /\ ~(b = 1 /\ 9 \in type) => Max(SetBy(type, Setter[b])) = b
         /\ b = 1 /\ 9 \in type => Max(SetBy(type, Setter[b])) = 9
         /\ SetBy(type, Setter[b]) # {}
         /\ b # 9 => Getter[b] = Setter[b]
         /\ Getter[9] \in Fields /\ SetBy(type, Getter[9]) = {}
<1>1. /\ Setter[0] = "id" /\ Setter[1] = "ingressid, egressid" /\ Setter[2] = "timestampsecs"
      /\ Setter[3] = "timestampfrac" /\ Setter[5] = "namespacedata" /\ Setter[6] = "queuedepth"
      /\ Setter[8] = "idwide" /\ Setter[9] = "ingressid, egressid" /\ Setter[10] = "namespacedatawide"
      /\ Setter[Opaque] = "oss"
  BY DEF Setter, NodeBits, Opaque
<1>2. \A c \in Selectable : c \in NodeBits \cup {Opaque} /\ Setter[c] \in Fields
  <2>1. \A c \in Selectable : c \in NodeBits \cup {Opaque}
    BY DEF Selectable, NodeBits, Opaque
  <2>2. \A c \in NodeBits \cup {Opaque} : Setter[c] \in Fields
    BY Zenon DEF Fields
  <2>3. QED
    BY <2>1, <2>2
<1>3. \A c, d \in Selectable : Setter[c] = Setter[d] => c = d \/ (c = 1 /\ d = 9) \/ (c = 9 /\ d = 1)
  <2> SUFFICES ASSUME NEW c \in Selectable, NEW d \in Selectable, c # d, Setter[c] = Setter[d]
               PROVE  (c = 1 /\ d = 9) \/ (c = 9 /\ d = 1)
    OBVIOUS
  <2>1. c \in {1, 9} \/ c \in Selectable \ {1, 9}
    OBVIOUS
  <2>2. d \in {1, 9} \/ d \in Selectable \ {1, 9}
    OBVIOUS
  <2>3. QED
    BY <1>1, <2>1, <2>2 DEF Selectable
<1>4. \A c \in Selectable : Setter[c] # "ingressidwide, egressidwide"
  BY <1>1 DEF Selectable
<1>5. Getter[9] = "ingressidwide, egressidwide" /\ \A c \in Selectable : c # 9 => Getter[c] = Setter[c]
  <2>1. DOMAIN Setter = NodeBits \cup {Opaque}
    BY DEF Setter
  <2>2. 9 \in DOMAIN Setter /\ 7 \notin Selectable
    BY <2>1 DEF NodeBits, Selectable, Opaque
  <2>3. QED
    BY <1>2, <2>1, <2>2 DEF Getter
<1>6. Getter[9] \in Fields /\ SetBy(type, Getter[9]) = {}
  BY <1>4, <1>5 DEF SetBy, Fields
<1>7. CASE ~(b = 1 /\ 9 \in type)
  <2>1. SetBy(type, Setter[b]) \subseteq {1, b, 9} /\ b \in SetBy(type, Setter[b])
    BY <1>3 DEF SetBy
  <2>2. \A c \in SetBy(type, Setter[b]) : c <= b
    <3>1. \A c \in SetBy(type, Setter[b]) : c = b \/ (c = 1 /\ b = 9)
      BY <1>3, <1>7 DEF SetBy
    <3>2. b \in Int
      BY DEF Selectable, Opaque
    <3>3. QED
      BY <3>1, <3>2
  <2>3. b \in Int /\ \A c \in SetBy(type, Setter[b]) : c \in Int
    BY DEF Selectable, Opaque, SetBy
  <2>4. Max(SetBy(type, Setter[b])) = b
    BY <2>1, <2>2, <2>3 DEF Max
  <2>5. QED
    BY <1>2, <1>5, <1>7, <1>6, <2>1, <2>4
<1>8. CASE b = 1 /\ 9 \in type
  <2>1. SetBy(type, Setter[b]) = {1, 9}
    BY <1>1, <1>3, <1>8 DEF SetBy
  <2>2. Max({1, 9}) = 9
    BY DEF Max
  <2>3. QED
    BY <1>2, <1>5, <1>8, <1>6, <2>1, <2>2
<1>9. QED
  BY <1>7, <1>8

\* parse_ioam_trace meets the nodes that were written, the last one first.
LEMMA TurnsTaken ==
  ASSUME NEW t, NEW type, NEW words, NEW path, NEW idle, NEW n, Written(t, type, words, path, idle, n)
  PROVE  /\ Turns(t) = Found(type, words, n) /\ Len(t.data) = words /\ Step(t) = NodeLen(type) + OpaqueLen(type)
         /\ t.data \in Seq({t.data[j] : j \in 1 .. words}) /\ DOMAIN t.data = 1 .. words
         /\ \A k \in 1 .. Turns(t) : k * Step(t) \in Nat /\ Step(t) <= k * Step(t) /\ k * Step(t) <= words
<1>0. type \subseteq Selectable /\ NodeLen(type) + OpaqueLen(type) # 0 /\ words \in Nat /\ n \in Nat
  BY DEF Written
<1> USE <1>0
<1> DEFINE s == NodeLen(type) + OpaqueLen(type)
           m == Found(type, words, n)
<1>1. s \in Nat \ {0}
  BY LengthType
<1>2. t.type = type /\ t.remlen = words - m * s /\ t.data = [j \in 1 .. words |-> t.data[j]]
  BY DEF Written
<1>3. m \in Nat /\ m * s <= words /\ m * s \in Nat
  BY FoundNext
<1>4. t.data \in Seq({t.data[j] : j \in 1 .. words}) /\ Len(t.data) = words
  <2>1. PICK d : d = t.data
    OBVIOUS
  <2>2. d \in [1 .. words -> {d[j] : j \in 1 .. words}]
    BY <1>2, <2>1
  <2>3. d \in Seq({d[j] : j \in 1 .. words}) /\ DOMAIN d = 1 .. words
    BY <2>2
  <2>4. Len(d) = words
    BY <2>3
  <2>5. QED
    BY <2>1, <2>3, <2>4
<1>5. Step(t) = s
  BY <1>2 DEF Step
<1> HIDE DEF s, m
<1>6. Turns(t) = m
  <2>1. PICK x : x = m * s
    OBVIOUS
  <2>2. Len(t.data) - t.remlen + Step(t) - 1 = x + s - 1
    BY <1>1, <1>2, <1>3, <1>4, <1>5, <2>1
  <2>3. x + s - 1 \in Nat /\ m * s <= x + s - 1 /\ x + s - 1 < m * s + s
    BY <1>1, <1>3, <2>1
  <2>4. (x + s - 1) \div s = m
    BY <1>1, <1>3, <2>3, Quotient
  <2>5. QED
    BY <1>5, <2>2, <2>4 DEF Turns
<1>7. ASSUME NEW k \in 1 .. m
      PROVE  k * s \in Nat /\ s <= k * s /\ k * s <= words
  <2>1. k \in Nat /\ 1 <= k /\ k <= m /\ s \in Nat
    BY <1>1, <1>3
  <2>2. k * s \in Nat /\ 1 * s <= k * s /\ k * s <= m * s /\ 1 * s = s
    BY <1>3, <2>1, Multiples
  <2>3. PICK x, y : x = k * s /\ y = m * s
    OBVIOUS
  <2>4. QED
    BY <1>3, <2>1, <2>2, <2>3
<1>8. QED
  <2>1. \A k \in 1 .. Turns(t) : k * Step(t) \in Nat /\ Step(t) <= k * Step(t) /\ k * Step(t) <= words
    BY <1>5, <1>6, <1>7
  <2>2. Turns(t) = Found(type, words, n) /\ Step(t) = NodeLen(type) + OpaqueLen(type)
    BY <1>5, <1>6 DEF s, m
  <2>3. QED
    BY <1>2, <1>4, <2>1, <2>2

\* Some elements of a list in a row.
LEMMA SubSeqIs ==
  ASSUME NEW S, NEW d \in Seq(S), NEW i \in Nat, NEW w \in Nat, i + w <= Len(d)
  PROVE  SubSeq(d, i + 1, i + w) = [j \in 1 .. w |-> d[i + j]]
<1> DEFINE q == SubSeq(d, i + 1, i + w)
<1>1. Len(q) = w /\ DOMAIN q = 1 .. w
  OBVIOUS
<1>2. \A j \in 1 .. w : q[j] = d[i + j]
  <2> TAKE j \in 1 .. w
  <2>1. q[j] = d[i + 1 + j - 1]
    OBVIOUS
  <2>2. i + 1 + j - 1 = i + j
    OBVIOUS
  <2>3. QED
    BY <2>1, <2>2
<1>3. q = [j \in DOMAIN q |-> q[j]]
  OBVIOUS
<1> HIDE DEF q
<1>4. q = [j \in 1 .. w |-> d[i + j]]
  BY <1>1, <1>2, <1>3
<1>5. QED
  BY <1>4 DEF q

\* The words that are taken for a bit of the k-th node are those of the k-th entity.
LEMMA TakenWords ==
  ASSUME NEW t, NEW type, NEW words, NEW path, NEW idle, NEW n, Written(t, type, words, path, idle, n),
         NEW k \in 1 .. Turns(t), NEW b \in type \cap NodeBits
  PROVE  LET i == Len(t.data) - k * Step(t) + Offset(type, b)
         IN  SubSeq(t.data, i + 1, i + Width(b)) =
               [j \in 1 .. FieldLen(b) |-> IF b = 6 /\ path[k] \in idle THEN Zero ELSE <<path[k], b, j>>]
<1>0. type \subseteq Selectable /\ NodeLen(type) + OpaqueLen(type) # 0 /\ words \in Nat /\ n \in Nat
  BY DEF Written
<1> USE <1>0
<1> DEFINE s == NodeLen(type) + OpaqueLen(type)
           m == Found(type, words, n)
           d == t.data
           i == words - k * s + Offset(type, b)
<1>a. /\ Turns(t) = Found(type, words, n) /\ Len(t.data) = words /\ Step(t) = NodeLen(type) + OpaqueLen(type)
      /\ t.data \in Seq({t.data[j] : j \in 1 .. words}) /\ DOMAIN t.data = 1 .. words
      /\ \A l \in 1 .. Turns(t) : l * Step(t) \in Nat /\ Step(t) <= l * Step(t) /\ l * Step(t) <= words
  BY TurnsTaken
<1>1. /\ Turns(t) = m /\ Step(t) = s /\ Len(d) = words
      /\ d \in Seq({d[j] : j \in 1 .. words}) /\ DOMAIN d = 1 .. words
      /\ k * s \in Nat /\ s <= k * s /\ k * s <= words
  BY <1>a
<1>2. /\ FieldLen(b) \in {1, 2} /\ Width(b) = FieldLen(b)
      /\ Offset(type, b) \in Nat /\ Offset(type, b) + FieldLen(b) <= s
  <2>1. Offset(type, b) + FieldLen(b) <= NodeLen(type) /\ Offset(type, b) \in Nat
    BY FieldsInOrder, OffsetIsStart
  <2>2. FieldLen(b) \in {1, 2} /\ Width(b) = FieldLen(b)
    BY DEF FieldLen, Width
  <2>3. NodeLen(type) \in Nat /\ OpaqueLen(type) \in Nat
    BY LengthType
  <2>4. QED
    BY <2>1, <2>2, <2>3
<1>3. \A j \in 1 .. FieldLen(b) :
        d[i + j] = IF b = 6 /\ path[k] \in idle THEN Zero ELSE <<path[k], b, j>>
  <2> TAKE j \in 1 .. FieldLen(b)
  <2>1. PICK o : o = Offset(type, b) + j
    OBVIOUS
  <2>2. o \in 1 .. s
    BY <1>2, <2>1, LengthType
  <2>3. d[words - k * s + o] = NodeData(type, path[k], idle)[o]
    BY <1>1, <2>2 DEF Written
  <2>4. words - k * s + o = i + j
    <3>1. PICK x : x = k * s
      OBVIOUS
    <3>2. x \in Nat
      BY <1>1, <3>1
    <3>3. QED
      BY <1>2, <2>1, <3>1, <3>2
  <2>5. NodeData(type, path[k], idle)[o] = IF b = 6 /\ path[k] \in idle THEN Zero ELSE <<path[k], b, j>>
    BY <2>1, NodeDataAt
  <2>6. QED
    BY <2>3, <2>4, <2>5
<1>4. i \in Nat /\ i + FieldLen(b) <= words
  <2>1. PICK x : x = k * s
    OBVIOUS
  <2>2. x \in Nat /\ s <= x /\ x <= words /\ s \in Nat
    BY <1>1, <2>1, LengthType
  <2> HIDE DEF s
  <2>3. QED
    BY <1>2, <2>1, <2>2
<1> HIDE DEF i, d, s
<1>5. SubSeq(d, i + 1, i + Width(b)) = [j \in 1 .. FieldLen(b) |-> d[i + j]]
  BY <1>1, <1>2, <1>4, SubSeqIs
<1>6. SubSeq(d, i + 1, i + Width(b)) = [j \in 1 .. FieldLen(b) |-> IF b = 6 /\ path[k] \in idle THEN Zero ELSE <<path[k], b, j>>]
  BY <1>3, <1>5
<1>7. Len(t.data) - k * Step(t) + Offset(type, b) = i
  BY <1>1 DEF i, d, s
<1>8. QED
  BY <1>6, <1>7 DEF d

\* The message of the k-th node from the end.
NodeAt(t, k, type, garbled) == ParseNodeData(t.data, Len(t.data) - k * Step(t), type, garbled)

\* A message holds, for every field, what entity e told.
Holds(node, type, e, idle, garbled) ==
  \A f \in Fields : node[f] = IF SetBy(type, f) = {} THEN Unset ELSE Told(Max(SetBy(type, f)), e, idle, garbled)

\* The message of the k-th node holds, for every field, what the k-th entity told.
LEMMA NodeParsed ==
  ASSUME NEW t, NEW type, NEW words, NEW path, NEW idle, NEW n, Written(t, type, words, path, idle, n),
         NEW k \in 1 .. Turns(t), NEW garbled, garbled \subseteq {5, 10}
  PROVE  Holds(NodeAt(t, k, type, garbled), type, path[k], idle, garbled)
<1>0. type \subseteq Selectable /\ NodeLen(type) + OpaqueLen(type) # 0 /\ words \in Nat /\ n \in Nat
  BY DEF Written
<1> USE <1>0
<1> DEFINE i == Len(t.data) - k * Step(t)
           node == NodeAt(t, k, type, garbled)
           Taken(b) == SubSeq(t.data, i + Offset(type, b) + 1, i + Offset(type, b) + Width(b))
           Value(b) == CASE b = Opaque -> <<t.data[i + NodeLen(type) + 1]>>
                         [] b \in garbled -> Garbled
                         [] OTHER -> IF \A j \in DOMAIN Taken(b) : Taken(b)[j] = Zero THEN Unset ELSE Taken(b)
<1>1. \A f \in Fields : node[f] = IF SetBy(type, f) = {} THEN Unset ELSE Value(Max(SetBy(type, f)))
  BY DEF NodeAt, ParseNodeData, SetBy
<1>a. /\ Step(t) = NodeLen(type) + OpaqueLen(type) /\ Turns(t) = Found(type, words, n) /\ Len(t.data) = words
      /\ k * Step(t) \in Nat
  BY TurnsTaken
<1>b. \A b \in type \cap NodeBits :
        Taken(b) = [j \in 1 .. FieldLen(b) |-> IF b = 6 /\ path[k] \in idle THEN Zero ELSE <<path[k], b, j>>]
  BY TakenWords
<1>2. ASSUME NEW b \in type
      PROVE  Value(b) = Told(b, path[k], idle, garbled)
  <2>1. CASE b = Opaque
    <3>3. i + NodeLen(type) + 1 = words - k * (NodeLen(type) + OpaqueLen(type)) + (NodeLen(type) + 1)
      <4>1. PICK x : x = k * Step(t)
        OBVIOUS
      <4>2. NodeLen(type) \in Nat
        BY LengthType
      <4>3. QED
        BY <1>a, <4>1, <4>2
    <3>4. /\ NodeLen(type) + 1 \in 1 .. NodeLen(type) + OpaqueLen(type)
          /\ NodeData(type, path[k], idle)[NodeLen(type) + 1] = <<path[k], Opaque, 1>>
      BY <2>1, NodeDataAt
    <3>5. t.data[words - k * (NodeLen(type) + OpaqueLen(type)) + (NodeLen(type) + 1)] = <<path[k], Opaque, 1>>
      BY <1>a, <3>4 DEF Written
    <3>6. Value(b) = <<t.data[i + NodeLen(type) + 1]>>
      <4>1. b \notin garbled
        BY <2>1 DEF Opaque
      <4>2. QED
        BY <2>1, <4>1
    <3>7. Value(b) = << <<path[k], Opaque, 1>> >>
      <4> HIDE DEF Value, i
      <4>1. QED
        BY <3>3, <3>5, <3>6
    <3> HIDE DEF Value
    <3>8. QED
      BY <2>1, <3>7 DEF Told
  <2>2. CASE b # Opaque
    <3>1. b \in type \cap NodeBits
      BY <2>2 DEF Selectable, NodeBits, Opaque
    <3>2. Taken(b) = [j \in 1 .. FieldLen(b) |-> IF b = 6 /\ path[k] \in idle THEN Zero ELSE <<path[k], b, j>>]
      BY <1>b, <3>1
    <3>3. FieldLen(b) \in {1, 2}
      BY DEF FieldLen
    <3> DEFINE T == Taken(b)
    <3>4. T = [j \in 1 .. FieldLen(b) |-> IF b = 6 /\ path[k] \in idle THEN Zero ELSE <<path[k], b, j>>]
      BY <3>2
    <3>5. Value(b) = IF b \in garbled THEN Garbled ELSE IF \A j \in DOMAIN T : T[j] = Zero THEN Unset ELSE T
      BY <2>2
    <3> HIDE DEF T
    <3>6. (\A j \in DOMAIN T : T[j] = Zero) <=> b = 6 /\ path[k] \in idle
      BY <3>3, <3>4 DEF Zero
    <3>7. ~(b = 6 /\ path[k] \in idle) => T = [j \in 1 .. FieldLen(b) |-> <<path[k], b, j>>]
      BY <3>4
    <3>8. QED
      BY <2>2, <3>5, <3>6, <3>7 DEF Told
  <2>3. QED
    BY <2>1, <2>2
<1>3. ASSUME NEW f \in Fields, SetBy(type, f) # {}
      PROVE  Max(SetBy(type, f)) \in type
  <2>1. PICK b \in type : Setter[b] = f
    BY <1>3 DEF SetBy
  <2>2. Max(SetBy(type, f)) \in {b, 9} /\ (Max(SetBy(type, f)) = 9 => 9 \in type)
    BY <2>1, FieldsOfBits
  <2>3. QED
    BY <2>1, <2>2
<1> HIDE DEF Value
<1>4. \A f \in Fields : node[f] = IF SetBy(type, f) = {} THEN Unset ELSE Told(Max(SetBy(type, f)), path[k], idle, garbled)
  BY <1>1, <1>2, <1>3
<1>5. QED
  BY <1>4 DEF Holds

\* A text of the collector says what the entity told, but for the wide interface ids.
LEMMA TextSays ==
  ASSUME NEW t, NEW type, NEW words, NEW path, NEW idle, NEW n, Written(t, type, words, path, idle, n),
         NEW k \in 1 .. Turns(t), NEW garbled, garbled \subseteq {5, 10}, NEW b \in type
  PROVE  ParseNode(NodeAt(t, k, type, garbled), type)[b] =
           CASE b = 9 -> Unset
             [] b = 1 /\ 9 \in type -> Told(9, path[k], idle, garbled)
             [] b # 9 /\ ~(b = 1 /\ 9 \in type) -> Told(b, path[k], idle, garbled)
<1>0. type \subseteq Selectable /\ NodeLen(type) + OpaqueLen(type) # 0 /\ words \in Nat /\ n \in Nat
  BY DEF Written
<1> USE <1>0
<1> DEFINE node == NodeAt(t, k, type, garbled)
<1>1. \A f \in Fields : node[f] = IF SetBy(type, f) = {} THEN Unset ELSE Told(Max(SetBy(type, f)), path[k], idle, garbled)
  <2>1. Holds(NodeAt(t, k, type, garbled), type, path[k], idle, garbled)
    BY NodeParsed
  <2>2. QED
    BY <2>1 DEF Holds
<1>2. ParseNode(node, type)[b] = node[Getter[b]]
  BY DEF ParseNode
<1> HIDE DEF node
<1>3. QED
  <2>1. CASE b = 9
    BY <1>1, <1>2, <2>1, FieldsOfBits DEF node
  <2>2. CASE b = 1 /\ 9 \in type
    BY <1>1, <1>2, <2>2, FieldsOfBits DEF node
  <2>3. CASE b # 9 /\ ~(b = 1 /\ 9 \in type)
    BY <1>1, <1>2, <2>3, FieldsOfBits DEF node
  <2>4. QED
    BY <2>1, <2>2, <2>3

\* Only a queue depth of 0 alone makes a message without a value.
LEMMA ValueOrIdle ==
  ASSUME NEW t, NEW type, NEW words, NEW path, NEW idle, NEW n, Written(t, type, words, path, idle, n),
         NEW k \in 1 .. Turns(t), NEW garbled, garbled \subseteq {5, 10} \cap type, type # {}
  PROVE  HasValue(NodeAt(t, k, type, garbled)) <=> ~(type = {6} /\ path[k] \in idle)
<1>0. type \subseteq Selectable /\ NodeLen(type) + OpaqueLen(type) # 0 /\ words \in Nat /\ n \in Nat
  BY DEF Written
<1> USE <1>0
<1> DEFINE node == NodeAt(t, k, type, garbled)
<1>1. \A f \in Fields : node[f] = IF SetBy(type, f) = {} THEN Unset ELSE Told(Max(SetBy(type, f)), path[k], idle, garbled)
  <2>1. Holds(NodeAt(t, k, type, garbled), type, path[k], idle, garbled)
    BY NodeParsed
  <2>2. QED
    BY <2>1 DEF Holds
<1> HIDE DEF node
<1>2. \A b \in type : b # 6 \/ path[k] \notin idle => Told(b, path[k], idle, garbled) # Unset
  <2> TAKE b \in type
  <2> HAVE b # 6 \/ path[k] \notin idle
  <2>1. Garbled # Unset /\ << <<path[k], Opaque, 1>> >> # Unset
    BY DEF Garbled, Unset
  <2>2. 1 \in 1 .. FieldLen(b)
    BY DEF FieldLen
  <2>3. PICK s : s = [j \in 1 .. FieldLen(b) |-> <<path[k], b, j>>]
    OBVIOUS
  <2>4. 1 \in DOMAIN s /\ 1 \notin DOMAIN Unset
    BY <2>2, <2>3 DEF Unset
  <2>5. s # Unset
    BY <2>4
  <2>6. QED
    BY <2>1, <2>3, <2>5 DEF Told
<1>3. CASE type = {6} /\ path[k] \in idle
  <2>1. garbled = {} /\ Told(6, path[k], idle, garbled) = Unset
    BY <1>3 DEF Told, Opaque
  <2>2. \A f \in Fields : SetBy(type, f) # {} => SetBy(type, f) = {6}
    BY <1>3 DEF SetBy
  <2>3. Max({6}) = 6
    BY DEF Max
  <2>4. \A f \in Fields : node[f] = Unset
    BY <1>1, <2>1, <2>2, <2>3
  <2>5. QED
    BY <1>3, <2>4 DEF HasValue, node
<1>4. CASE ~(type = {6} /\ path[k] \in idle)
  <2>1. PICK b \in type : b # 6 \/ path[k] \notin idle
    BY <1>4
  <2>2. Setter[b] \in Fields /\ SetBy(type, Setter[b]) # {} /\ Max(SetBy(type, Setter[b])) \in {b, 9}
        /\ (Max(SetBy(type, Setter[b])) # b => Max(SetBy(type, Setter[b])) = 9 /\ 9 \in type)
    BY FieldsOfBits
  <2>3. node[Setter[b]] # Unset
    BY <1>1, <1>2, <2>1, <2>2
  <2>4. QED
    BY <1>4, <2>2, <2>3 DEF HasValue, node
<1>5. QED
  BY <1>3, <1>4

----
(***************************************************************************)
(* The texts of a span.                                                    *)
(***************************************************************************)
\* The words asked for, and the trace of a packet that n entities have seen.
WordsFor(s) == SizeIoamTrace(s.type) * s.slots
TraceOf(s, n) == TraceAfter(s.type, WordsFor(s), SubSeq(s.path, 1, n), s.idle)

\* The texts about it.
TextsOf(s, n, garbled) ==
  LET nodes == ParseIoamTrace(TraceOf(s, n), garbled)
  IN  [k \in DOMAIN nodes |-> ParseNode(nodes[k], s.type)]

\* What the agent read, with setup s, is the trace of the packet.
ReadFrom(t, s) ==
  /\ EncapAccepted(WordsFor(s))
  /\ t.seen \in {Len(s.path) - 1, Len(s.path)} /\ t.garbled \subseteq {5, 10} \cap s.type
  /\ t.nodes = ParseIoamTrace(TraceOf(s, t.seen), t.garbled)

\* What the collector shows are its texts.
ShowsTrace(span, s) ==
  /\ EncapAccepted(WordsFor(s))
  /\ span.seen \in {Len(s.path) - 1, Len(s.path)} /\ span.garbled \subseteq {5, 10} \cap s.type
  /\ span.texts = TextsOf(s, span.seen, span.garbled)

\* Whatever was sent had a route, whatever was read is what the packet held.
ContentInv ==
  /\ \A r \in Requests : sent[r] > 0 => EncapAccepted(WordsFor(setup))
  /\ reports # <<>> => ReadFrom(reports[1], setup)
  /\ \A span \in spans : ShowsTrace(span, setup)

\* At first nothing is sent.
LEMMA ContentInit == Init => ContentInv
BY DEF Init, ContentInv

\* A packet leaves only when ip route took the encap, and only what Capture read is shown.
LEMMA ContentStep == TelemetryInv /\ ContentInv /\ [Next]_vars => ContentInv'
<1> SUFFICES ASSUME TelemetryInv, ContentInv, [Next]_vars
             PROVE  ContentInv'
  OBVIOUS
<1>0. UNCHANGED setup
  BY DEF Next, vars, clientVars, agentVars, Dial, DialFails, CltEnable, CltEnableFails, SendData, ReadAll,
         RequestFails, CltDisable, CltDisableFails, Close, Lose, Capture, Report
<1>2. sent \in [Requests -> Nat]
  BY MaxPacketsAssumption DEF TelemetryInv, ClientInv, ClientType
<1>3. ASSUME UNCHANGED sent
      PROVE  \A r \in Requests : sent'[r] > 0 => EncapAccepted(WordsFor(setup))
  BY <1>3 DEF ContentInv
<1>4. ASSUME UNCHANGED agentVars
      PROVE  (reports' # <<>> => ReadFrom(reports'[1], setup)) /\ \A span \in spans' : ShowsTrace(span, setup)
  BY <1>0, <1>4 DEF ContentInv, agentVars
<1>a. ASSUME NEW r \in Requests, Dial(r)
      PROVE  ContentInv'
  <2>1. EncapAccepted(WordsFor(setup)) /\ UNCHANGED agentVars
    BY <1>a DEF Dial, Words, WordsFor
  <2>2. \A q \in Requests : sent'[q] > 0 => EncapAccepted(WordsFor(setup))
    BY <2>1
  <2>3. QED
    BY <1>0, <1>4, <2>1, <2>2 DEF ContentInv
<1>b. ASSUME NEW r \in Requests, SendData(r)
      PROVE  ContentInv'
  <2>1. state[r] = "enabled" /\ UNCHANGED agentVars
    BY <1>b DEF SendData
  <2>2. sent[r] > 0
    BY <2>1 DEF TelemetryInv, ClientInv, Sockets
  <2>3. EncapAccepted(WordsFor(setup))
    BY <2>2 DEF ContentInv
  <2>4. \A q \in Requests : sent'[q] > 0 => EncapAccepted(WordsFor(setup))
    BY <2>3
  <2>5. QED
    BY <1>0, <1>4, <2>1, <2>4 DEF ContentInv
<1>c. ASSUME NEW r \in Requests,
             DialFails(r) \/ CltEnable(r) \/ CltEnableFails(r) \/ ReadAll(r) \/ RequestFails(r)
             \/ CltDisable(r) \/ CltDisableFails(r) \/ Close(r)
      PROVE  ContentInv'
  <2>1. UNCHANGED sent /\ UNCHANGED agentVars
    BY <1>c DEF DialFails, CltEnable, CltEnableFails, ReadAll, RequestFails, CltDisable, CltDisableFails, Close
  <2>2. QED
    BY <1>0, <1>3, <1>4, <2>1 DEF ContentInv
<1>d. CASE Lose \/ UNCHANGED vars
  <2>1. UNCHANGED sent /\ UNCHANGED agentVars
    BY <1>d DEF Lose, vars
  <2>2. QED
    BY <1>0, <1>3, <1>4, <2>1 DEF ContentInv
<1>e. CASE Capture
  <2>1. PICK p \in wire, n \in {Len(setup.path) - 1, Len(setup.path)}, garbled \in SUBSET ({5, 10} \cap setup.type) :
          LET t == TraceAfter(setup.type, Words, SubSeq(setup.path, 1, n), setup.idle)
              trace == [packet |-> <<p.of, p.nr>>, seen |-> n, garbled |-> garbled, ids |-> p.ids,
                        nodes |-> ParseIoamTrace(t, garbled)]
          IN  reports' = IF Parsable(t) /\ Reportable(trace) THEN <<trace>> ELSE <<>>
    BY <1>e DEF Capture
  <2>2. p.of \in Requests /\ sent[p.of] > 0
    BY <1>2 DEF TelemetryInv, PacketInv, Carried
  <2>3. EncapAccepted(WordsFor(setup))
    BY <2>2 DEF ContentInv
  <2>4. TraceAfter(setup.type, Words, SubSeq(setup.path, 1, n), setup.idle) = TraceOf(setup, n)
    BY DEF TraceOf, Words, WordsFor
  <2> DEFINE trace == [packet |-> <<p.of, p.nr>>, seen |-> n, garbled |-> garbled, ids |-> p.ids,
                       nodes |-> ParseIoamTrace(TraceOf(setup, n), garbled)]
  <2>5. reports' \in {<<>>, <<trace>>}
    BY <2>1, <2>4
  <2>6. ReadFrom(trace, setup)
    BY <2>3 DEF ReadFrom
  <2> HIDE DEF trace
  <2>7. reports' # <<>> => ReadFrom(reports'[1], setup)
    BY <2>5, <2>6
  <2>8. UNCHANGED <<sent, spans>>
    BY <1>e DEF Capture
  <2>9. \A s \in spans' : ShowsTrace(s, setup)
    BY <2>8 DEF ContentInv
  <2>10. QED
    BY <1>0, <1>3, <2>7, <2>8, <2>9 DEF ContentInv
<1>f. CASE Report
  <2>1. reports # <<>> /\ reports' = Tail(reports) /\ UNCHANGED sent
    BY <1>f DEF Report
  <2>2. reports' = <<>>
    <3>1. PICK t : reports = <<t>>
      BY <2>1 DEF TelemetryInv, PacketInv, Reported
    <3>2. QED
      BY <2>1, <3>1
  <2>3. ReadFrom(reports[1], setup)
    BY <2>1 DEF ContentInv
  <2>4. ASSUME CollectorReport(reports[1])
        PROVE  \A s \in spans' : ShowsTrace(s, setup)
    <3>1. \A s \in spans' : /\ s.seen = reports[1].seen /\ s.garbled = reports[1].garbled
                            /\ s.texts = [k \in DOMAIN reports[1].nodes |-> ParseNode(reports[1].nodes[k], setup.type)]
      BY <2>4 DEF CollectorReport
    <3>2. QED
      BY <2>3, <3>1 DEF ReadFrom, ShowsTrace, TextsOf
  <2>5. \A s \in spans' : ShowsTrace(s, setup)
    BY <1>f, <2>4 DEF Report, ContentInv
  <2>6. QED
    BY <1>0, <1>3, <2>1, <2>2, <2>5 DEF ContentInv
<1>g. QED
  BY <1>a, <1>b, <1>c, <1>d, <1>e, <1>f DEF Next

\* What the collector shows is what the agent read, of a trace that was really there.
LEMMA ContentInvariant == Spec => [](TelemetryInv /\ ContentInv)
<1>1. Init /\ TelemetryInv => ContentInv
  BY ContentInit
<1>2. TelemetryInv /\ ContentInv /\ [Next]_vars => ContentInv'
  BY ContentStep
<1>3. QED
  BY <1>1, <1>2, TelemetryInvariant, PTL DEF Spec

\* The entities that found room and have something to tell.
Entries(type, words, path, idle, n) ==
  {i \in 1 .. Found(type, words, n) : ~(type = {6} /\ path[i] \in idle)}

\* An encap that is accepted is for some room, and so for some field.
LEMMA SomeField ==
  ASSUME NEW s \in Setups, EncapAccepted(WordsFor(s))
  PROVE  /\ s.type \subseteq Selectable /\ s.type # {} /\ NodeLen(s.type) + OpaqueLen(s.type) # 0
         /\ WordsFor(s) \in Nat
<1>1. s.type \subseteq Selectable /\ s.slots \in Nat
  BY SetupsAssumption
<1>2. WordsFor(s) \in 1 .. 61
  BY DEF EncapAccepted
<1>3. s.type # {}
  <2>1. SUFFICES ASSUME s.type = {} PROVE FALSE
    OBVIOUS
  <2>2. s.type \cap {0, 1, 2, 3, 5, 6} = {} /\ s.type \cap {8, 9, 10} = {}
    BY <2>1
  <2>3. Cardinality({}) = 0
    BY FS_EmptySet
  <2>4. SizeIoamTrace(s.type) = 0
    BY <2>2, <2>3 DEF SizeIoamTrace
  <2>5. WordsFor(s) = 0
    BY <1>1, <2>4 DEF WordsFor
  <2>6. QED
    BY <1>2, <2>5
<1>4. NodeLen(s.type) \in Nat /\ OpaqueLen(s.type) \in Nat
  BY <1>1, LengthType
<1>5. PICK b \in s.type : TRUE
  BY <1>3
<1>6. CASE b = Opaque
  <2>1. NodeLen(s.type) + 1 \in 1 .. NodeLen(s.type) + OpaqueLen(s.type)
    BY <1>1, <1>5, <1>6, NodeDataAt
  <2>2. QED
    BY <1>1, <1>2, <1>3, <1>4, <2>1
<1>7. CASE b # Opaque
  <2>1. b \in s.type \cap NodeBits /\ 1 \in 1 .. FieldLen(b)
    BY <1>1, <1>5, <1>7 DEF Selectable, NodeBits, Opaque, FieldLen
  <2>2. Offset(s.type, b) + 1 \in 1 .. NodeLen(s.type) + OpaqueLen(s.type)
    BY <1>1, <2>1, NodeDataAt
  <2>3. QED
    BY <1>1, <1>2, <1>3, <1>4, <2>2
<1>8. QED
  BY <1>6, <1>7

\* The trace of a packet that n entities have seen is what the first n entities of the path wrote.
LEMMA TraceOfWritten ==
  ASSUME NEW s \in Setups, EncapAccepted(WordsFor(s)), NEW n \in {Len(s.path) - 1, Len(s.path)}
  PROVE  Written(TraceOf(s, n), s.type, WordsFor(s), s.path, s.idle, n) /\ n \in Nat
<1> DEFINE S == {s.path[i] : i \in DOMAIN s.path}
           q == SubSeq(s.path, 1, n)
           t == TraceOf(s, n)
           words == WordsFor(s)
           len == NodeLen(s.type) + OpaqueLen(s.type)
           m == Found(s.type, words, n)
<1>1. s.path \in Seq(S) /\ Len(s.path) >= 2 /\ Len(s.path) \in Nat
  BY SetupsAssumption
<1>2. n \in Nat /\ n <= Len(s.path)
  BY <1>1
<1>3. q = [j \in 1 .. n |-> s.path[j]] /\ Len(q) = n
  <2> HIDE DEF S
  <2>1. PICK p : p = s.path
    OBVIOUS
  <2>2. SubSeq(p, 1, n) = [j \in 1 .. n |-> p[0 + j]]
    BY <1>1, <1>2, <2>1, SubSeqIs
  <2>3. QED
    BY <1>2, <2>1, <2>2
<1>4. /\ s.type \subseteq Selectable /\ s.type # {} /\ len # 0
      /\ words \in Nat
  BY SomeField
<1>5. Written(t, s.type, words, q, s.idle, n)
  <2> HIDE DEF q, words
  <2>1. Written(TraceAfter(s.type, words, q, s.idle), s.type, words, q, s.idle, Len(q))
    BY <1>2, <1>3, <1>4, TraceIsWritten
  <2>2. t = TraceAfter(s.type, words, q, s.idle)
    BY DEF TraceOf, q, words
  <2>3. QED
    BY <1>3, <2>1, <2>2
<1>6. m \in Nat /\ m <= n
  <2> HIDE DEF words
  <2>1. QED
    BY <1>2, <1>4, FoundNext
<1> HIDE DEF q, t, words
<1>7. \A k \in 1 .. m : q[k] = s.path[k]
  BY <1>2, <1>3, <1>6
<1>8. Written(t, s.type, words, s.path, s.idle, n)
  BY <1>5, <1>7 DEF Written
<1>9. QED
  BY <1>2, <1>8 DEF t, words

\* The nodes the agent lists are those of the entities with something to tell.
LEMMA NodesListed ==
  ASSUME NEW t, NEW type, NEW words, NEW path, NEW idle, NEW n, Written(t, type, words, path, idle, n),
         NEW garbled, garbled \subseteq {5, 10} \cap type, type # {},
         NEW P, P = Entries(type, words, path, idle, n),
         NEW nodes, nodes = ParseIoamTrace(t, garbled)
  PROVE  /\ DOMAIN nodes = 1 .. Cardinality(P) /\ Cardinality(P) \in Nat
         /\ \A k \in 1 .. Cardinality(P) : Nth(P, k) \in P /\ Nth(P, k) \in 1 .. Turns(t)
         /\ \A k \in 1 .. Cardinality(P) : nodes[k] = NodeAt(t, Nth(P, k), type, garbled)
<1>0. type \subseteq Selectable /\ NodeLen(type) + OpaqueLen(type) # 0 /\ words \in Nat /\ n \in Nat
  BY DEF Written
<1>1. Turns(t) = Found(type, words, n) /\ t.type = type
  <2>1. Turns(t) = Found(type, words, n)
    BY TurnsTaken
  <2>2. t.type = type
    BY DEF Written
  <2>3. QED
    BY <2>1, <2>2
<1>2. Turns(t) \in Nat
  BY <1>0, <1>1, FoundNext
<1> DEFINE all == [k \in 1 .. Turns(t) |-> NodeAt(t, k, type, garbled)]
<1>3. nodes = Sublist(all, {k \in DOMAIN all : HasValue(all[k])})
  BY <1>1 DEF ParseIoamTrace, WithValue, NodeAt
<1>4. \A k \in 1 .. Turns(t) : HasValue(all[k]) <=> ~(type = {6} /\ path[k] \in idle)
  BY ValueOrIdle
<1>5. {k \in DOMAIN all : HasValue(all[k])} = P
  BY <1>1, <1>4 DEF Entries
<1>6. nodes = Sublist(all, P)
  BY <1>3, <1>5
<1>7. P \subseteq 1 .. Turns(t)
  BY <1>1 DEF Entries
<1>8. IsFiniteSet(P) /\ P \subseteq Int
  <2>1. IsFiniteSet(1 .. Turns(t))
    BY <1>2, FS_Interval
  <2>2. P \in SUBSET (1 .. Turns(t)) /\ P \subseteq Int
    BY <1>2, <1>7
  <2>3. IsFiniteSet(P)
    BY <2>1, <2>2, FS_Subset
  <2>4. QED
    BY <2>2, <2>3
<1>9. \A k \in 1 .. Turns(t) : all[k] = NodeAt(t, k, type, garbled)
  OBVIOUS
<1> HIDE DEF all
<1>10. /\ Cardinality(P) \in Nat
       /\ DOMAIN Sublist(all, P) = 1 .. Cardinality(P)
       /\ \A k \in 1 .. Cardinality(P) : Nth(P, k) \in P /\ Sublist(all, P)[k] = all[Nth(P, k)]
  <2>1. Cardinality(P) \in Nat /\ \A k \in 1 .. Cardinality(P) : Nth(P, k) \in P
    BY <1>8, NthFacts
  <2>2. QED
    BY <2>1 DEF Sublist
<1>11. QED
  BY <1>6, <1>7, <1>9, <1>10

\* Text k of a span is that of the k-th entity it shows, and says what that told.
LEMMA TextsAre ==
  ASSUME setup \in Setups, NEW s, ShowsTrace(s, setup)
  PROVE  /\ DOMAIN s.texts = DOMAIN ShownIn(s) /\ DOMAIN s.texts = 1 .. Len(s.texts)
         /\ \A k \in DOMAIN s.texts : \A b \in setup.type :
              /\ b # 9 /\ ~(b = 1 /\ 9 \in setup.type) =>
                   s.texts[k][b] = Told(b, ShownIn(s)[k], setup.idle, s.garbled)
              /\ b = 9 => s.texts[k][b] = Unset
              /\ b = 1 /\ 9 \in setup.type => s.texts[k][b] = Told(9, ShownIn(s)[k], setup.idle, s.garbled)
         /\ Len(s.texts) = Cardinality({i \in 1 .. Found(setup.type, Words, s.seen) : Showable(setup.path[i])})
<1> DEFINE type == setup.type
           path == setup.path
           idle == setup.idle
           n == s.seen
           words == WordsFor(setup)
           t == TraceOf(setup, n)
           P == Entries(type, words, path, idle, n)
           nodes == ParseIoamTrace(t, s.garbled)
<1>1. /\ EncapAccepted(words)
      /\ n \in {Len(path) - 1, Len(path)} /\ s.garbled \subseteq {5, 10} \cap type
      /\ s.texts = [k \in DOMAIN nodes |-> ParseNode(nodes[k], type)]
  BY DEF ShowsTrace, TextsOf
<1>2. /\ type \subseteq Selectable /\ type # {} /\ NodeLen(type) + OpaqueLen(type) # 0 /\ words \in Nat
  BY <1>1, SomeField
<1>3. Written(t, type, words, path, idle, n) /\ n \in Nat
  BY <1>1, TraceOfWritten
<1>4. Words = words
  BY DEF Words, WordsFor
<1>5. P = {i \in 1 .. Min({n, Room}) : Showable(path[i])} /\ P = {i \in 1 .. Found(type, words, n) : Showable(path[i])}
  <2>1. Found(type, words, n) = Min({n, Room})
    <3>1. PICK r : r = words \div (NodeLen(type) + OpaqueLen(type))
      OBVIOUS
    <3>2. r \in Nat
      BY <1>2, <3>1, LengthType, QuotientExists
    <3>3. Room = r
      BY <1>4, <3>1 DEF Room
    <3>4. Found(type, words, n) = IF n <= r THEN n ELSE r
      BY <3>1 DEF Found
    <3>5. PICK m \in Nat : m = n
      BY <1>3
    <3>6. Min({m, r}) = IF m <= r THEN m ELSE r
      BY <3>2 DEF Min
    <3>7. QED
      BY <3>3, <3>4, <3>5, <3>6
  <2>2. QED
    BY <2>1 DEF Entries, Showable
<1>6. ShownIn(s) = Sublist(path, P)
  BY <1>5 DEF ShownIn
<1> HIDE DEF type, path, idle, n, words, t, P, nodes
<1>7. /\ DOMAIN nodes = 1 .. Cardinality(P) /\ Cardinality(P) \in Nat
      /\ \A k \in 1 .. Cardinality(P) : Nth(P, k) \in P /\ Nth(P, k) \in 1 .. Turns(t)
      /\ \A k \in 1 .. Cardinality(P) : nodes[k] = NodeAt(t, Nth(P, k), type, s.garbled)
  <2> DEFINE Q == Entries(type, words, path, idle, n)
             list == ParseIoamTrace(t, s.garbled)
  <2>1. P = Q /\ nodes = list
    BY DEF P, nodes
  <2> HIDE DEF Q, list
  <2>2. P = Entries(type, words, path, idle, n) /\ nodes = ParseIoamTrace(t, s.garbled)
    BY <2>1 DEF Q, list
  <2>3. QED
    BY <1>1, <1>2, <1>3, <2>2, NodesListed
<1>8. DOMAIN s.texts = 1 .. Cardinality(P) /\ s.texts = [k \in 1 .. Cardinality(P) |-> s.texts[k]]
  BY <1>1, <1>7
<1>9. DOMAIN ShownIn(s) = 1 .. Cardinality(P) /\ \A k \in 1 .. Cardinality(P) : ShownIn(s)[k] = path[Nth(P, k)]
  BY <1>6 DEF Sublist
<1>10. ASSUME NEW k \in DOMAIN s.texts
       PROVE  \A b \in type :
                   s.texts[k][b] = CASE b = 9 -> Unset
                                     [] b = 1 /\ 9 \in type -> Told(9, ShownIn(s)[k], idle, s.garbled)
                                     [] b # 9 /\ ~(b = 1 /\ 9 \in type) -> Told(b, ShownIn(s)[k], idle, s.garbled)
  <2>1. PICK i \in 1 .. Turns(t) : i = Nth(P, k) /\ nodes[k] = NodeAt(t, i, type, s.garbled)
    BY <1>7, <1>8
  <2>2. ShownIn(s)[k] = path[i]
    BY <1>8, <1>9, <2>1
  <2>3. s.texts[k] = ParseNode(NodeAt(t, i, type, s.garbled), type)
    BY <1>1, <2>1
  <2>4. ASSUME NEW b \in type
        PROVE  ParseNode(NodeAt(t, i, type, s.garbled), type)[b] =
                 CASE b = 9 -> Unset
                   [] b = 1 /\ 9 \in type -> Told(9, path[i], idle, s.garbled)
                   [] b # 9 /\ ~(b = 1 /\ 9 \in type) -> Told(b, path[i], idle, s.garbled)
    BY <1>1, <1>3, TextSays
  <2>5. QED
    BY <2>2, <2>3, <2>4
<1>11. Len(s.texts) = Cardinality(P)
  BY <1>7, <1>8
<1>12. Len(s.texts) = Cardinality({i \in 1 .. Found(setup.type, Words, s.seen) : Showable(setup.path[i])})
  BY <1>4, <1>5, <1>11 DEF type, path, n, words
<1>13. type = setup.type /\ idle = setup.idle
  BY DEF type, idle
<1>14. DOMAIN s.texts = DOMAIN ShownIn(s) /\ DOMAIN s.texts = 1 .. Len(s.texts)
  BY <1>8, <1>9, <1>11
<1>15. ASSUME NEW k \in DOMAIN s.texts, NEW b \in setup.type
       PROVE  /\ b # 9 /\ ~(b = 1 /\ 9 \in setup.type) =>
                   s.texts[k][b] = Told(b, ShownIn(s)[k], setup.idle, s.garbled)
              /\ b = 9 => s.texts[k][b] = Unset
              /\ b = 1 /\ 9 \in setup.type => s.texts[k][b] = Told(9, ShownIn(s)[k], setup.idle, s.garbled)
  <2>1. b \in type
    BY <1>13
  <2>2. s.texts[k][b] = CASE b = 9 -> Unset
                          [] b = 1 /\ 9 \in type -> Told(9, ShownIn(s)[k], idle, s.garbled)
                          [] b # 9 /\ ~(b = 1 /\ 9 \in type) -> Told(b, ShownIn(s)[k], idle, s.garbled)
    BY <1>10, <2>1
  <2>3. QED
    BY <1>13, <2>2
<1>16. QED
  BY <1>12, <1>14, <1>15

\* Every word of a text was written by the entity the text is about (ioam-agent.cpp,
\* parse_ioam_trace, which puts a node before the ones it parsed already, because every
\* entity writes in front of the ones before it).
THEOREM TextsInPathOrderTheorem == Spec => []TextsInPathOrder
<1>1. TelemetryInv /\ ContentInv => TextsInPathOrder
  <2> SUFFICES ASSUME TelemetryInv, ContentInv, NEW s \in spans
               PROVE  /\ DOMAIN s.texts = DOMAIN ShownIn(s)
                      /\ \A k \in DOMAIN s.texts : \A b \in setup.type \ s.garbled :
                           \A w \in {s.texts[k][b][j] : j \in DOMAIN s.texts[k][b]} : w[1] = ShownIn(s)[k]
    BY DEF TextsInPathOrder
  <2>1. setup \in Setups /\ ShowsTrace(s, setup)
    BY DEF TelemetryInv, PacketInv, ContentInv
  <2>2. ASSUME NEW k \in DOMAIN s.texts, NEW b \in setup.type, NEW e, e = ShownIn(s)[k]
        PROVE  s.texts[k][b] = Unset \/ s.texts[k][b] \in {Told(b, e, setup.idle, s.garbled), Told(9, e, setup.idle, s.garbled)}
    <3>1. CASE b = 9
      BY <2>1, <3>1, TextsAre
    <3>2. CASE b = 1 /\ 9 \in setup.type
      BY <2>1, <2>2, <3>2, TextsAre
    <3>3. CASE b # 9 /\ ~(b = 1 /\ 9 \in setup.type)
      BY <2>1, <2>2, <3>3, TextsAre
    <3>4. QED
      BY <3>1, <3>2, <3>3
  <2>3. s.garbled \subseteq {5, 10}
    BY <2>1 DEF ShowsTrace
  <2>4. ASSUME NEW k \in DOMAIN s.texts, NEW b \in setup.type \ s.garbled, NEW j \in DOMAIN s.texts[k][b]
        PROVE  s.texts[k][b][j][1] = ShownIn(s)[k]
    <3>1. PICK e : e = ShownIn(s)[k]
      OBVIOUS
    <3>2. s.texts[k][b] = Unset \/ \E c : s.texts[k][b] = Told(c, e, setup.idle, s.garbled) /\ c \notin s.garbled
      <4>1. 9 \notin s.garbled
        BY <2>3
      <4>2. QED
        BY <2>2, <3>1, <4>1
    <3>3. CASE s.texts[k][b] = Unset
      BY <3>3, <2>4 DEF Unset
    <3>4. ASSUME NEW c, s.texts[k][b] = Told(c, e, setup.idle, s.garbled), c \notin s.garbled
          PROVE  s.texts[k][b][j][1] = e
      <4>1. PICK told : told = s.texts[k][b]
        OBVIOUS
      <4>2. told = << <<e, Opaque, 1>> >> \/ told = <<>> \/ told = [i \in 1 .. FieldLen(c) |-> <<e, c, i>>]
        BY <3>4, <4>1 DEF Told, Unset
      <4>3. j \in DOMAIN told
        BY <4>1
      <4>4. told[j][1] = e
        <5>1. CASE told = << <<e, Opaque, 1>> >>
          BY <5>1, <4>3
        <5>2. CASE told = <<>>
          BY <5>2, <4>3
        <5>3. CASE told = [i \in 1 .. FieldLen(c) |-> <<e, c, i>>]
          BY <5>3, <4>3
        <5>4. QED
          BY <4>2, <5>1, <5>2, <5>3
      <4>5. QED
        BY <4>1, <4>4
    <3>5. QED
      BY <3>1, <3>2, <3>3, <3>4
  <2>5. DOMAIN s.texts = DOMAIN ShownIn(s)
    BY <2>1, TextsAre
  <2>6. QED
    BY <2>4, <2>5
<1>2. QED
  BY <1>1, ContentInvariant, PTL

\* A kept bit is shown with the value its entity wrote: utils.py, the kernel,
\* parse_node_data and ParseNode agree on the place and the width of every field.
THEOREM KeptFieldsShownTheorem == Spec => []KeptFieldsShown
<1>1. TelemetryInv /\ ContentInv => KeptFieldsShown
  <2> SUFFICES ASSUME TelemetryInv, ContentInv, NEW s \in spans, NEW k \in DOMAIN s.texts, NEW b \in Kept(s)
               PROVE  s.texts[k][b] = IF b = 6 /\ ShownIn(s)[k] \in setup.idle THEN Unset
                                      ELSE [j \in 1 .. FieldLen(b) |-> <<ShownIn(s)[k], b, j>>]
    BY DEF KeptFieldsShown
  <2>1. setup \in Setups /\ ShowsTrace(s, setup)
    BY DEF TelemetryInv, PacketInv, ContentInv
  <2>2. b \in setup.type /\ b \notin s.garbled /\ b # 9 /\ ~(b = 1 /\ 9 \in setup.type)
    BY DEF Kept
  <2>3. PICK e : e = ShownIn(s)[k]
    OBVIOUS
  <2>4. s.texts[k][b] = Told(b, e, setup.idle, s.garbled)
    BY <2>1, <2>2, <2>3, TextsAre
  <2>5. CASE b = Opaque
    <3>1. FieldLen(b) = 1 /\ b # 6
      BY <2>5 DEF FieldLen, Opaque
    <3>2. [j \in 1 .. 1 |-> <<e, Opaque, j>>] = << <<e, Opaque, 1>> >>
      OBVIOUS
    <3>3. QED
      BY <2>3, <2>4, <2>5, <3>1, <3>2 DEF Told
  <2>6. CASE b # Opaque
    BY <2>2, <2>3, <2>4, <2>6 DEF Told
  <2>7. QED
    BY <2>5, <2>6
<1>2. QED
  BY <1>1, ContentInvariant, PTL

\* Without opaque state the generator asks for what the kernel needs.
LEMMA SizeIsLength ==
  ASSUME NEW type, type \subseteq Selectable, Opaque \notin type
  PROVE  SizeIoamTrace(type) = NodeLen(type) + OpaqueLen(type)
<1> DEFINE A == type \cap {0, 1, 2, 3, 5, 6}
           B == type \cap {8, 9, 10}
           AW == A \X (1 .. 1)
           BW == B \X (1 .. 2)
<1>1. IsFiniteSet(A) /\ IsFiniteSet(B) /\ Cardinality(A) \in Nat /\ Cardinality(B) \in Nat
  <2>1. \A a, b \in Int : IsFiniteSet(a .. b)
    BY FS_Interval
  <2>2. IsFiniteSet(0 .. 11)
    <3>1. 0 \in Int /\ 11 \in Int
      OBVIOUS
    <3>2. QED
      BY <2>1, <3>1
  <2>3. A \in SUBSET (0 .. 11) /\ B \in SUBSET (0 .. 11)
    OBVIOUS
  <2> HIDE DEF A, B
  <2>4. QED
    BY <2>2, <2>3, FS_Subset, FS_CardinalityType
<1>2. NodeWords(type) = AW \cup BW
  BY DEF NodeWords, FieldLen, Selectable, NodeBits, Opaque
<1>3. AW \cap BW = {}
  OBVIOUS
<1> HIDE DEF A, B
<1>4. /\ IsFiniteSet(AW) /\ Cardinality(AW) = Cardinality(A) * 1
      /\ IsFiniteSet(BW) /\ Cardinality(BW) = Cardinality(B) * 2
  <2>1. ASSUME NEW n \in {1, 2}
        PROVE  IsFiniteSet(1 .. n) /\ Cardinality(1 .. n) = n
    BY FS_Interval
  <2>2. IsFiniteSet(1 .. 1) /\ Cardinality(1 .. 1) = 1 /\ IsFiniteSet(1 .. 2) /\ Cardinality(1 .. 2) = 2
    BY <2>1
  <2>3. IsFiniteSet(AW) /\ Cardinality(AW) = Cardinality(A) * 1
    BY <1>1, <2>2, FS_Product
  <2>4. IsFiniteSet(BW) /\ Cardinality(BW) = Cardinality(B) * 2
    BY <1>1, <2>2, FS_Product
  <2>5. QED
    BY <2>3, <2>4
<1> HIDE DEF AW, BW
<1>5. Cardinality(AW \cup BW) = Cardinality(AW) + Cardinality(BW)
  <2>1. Cardinality(AW) \in Nat /\ Cardinality(BW) \in Nat
    BY <1>1, <1>4
  <2>2. Cardinality(AW \cup BW) = Cardinality(AW) + Cardinality(BW) - Cardinality(AW \cap BW)
    BY <1>4, FS_Union
  <2>3. Cardinality(AW \cap BW) = 0
    BY <1>3, FS_EmptySet
  <2>4. QED
    BY <2>1, <2>2, <2>3
<1>6. NodeLen(type) = Cardinality(A) + 2 * Cardinality(B)
  BY <1>1, <1>2, <1>4, <1>5 DEF NodeLen
<1>7. OpaqueLen(type) = 0
  <2>1. type \cap {Opaque} = {}
    OBVIOUS
  <2>2. QED
    BY <2>1, FS_EmptySet DEF OpaqueLen
<1>8. QED
  BY <1>1, <1>6, <1>7 DEF SizeIoamTrace, A, B

\* No router the packet visited is missing in the span (architecture.py reserves
\* size_ioam_trace octets for every entity of the path).
THEOREM RoutersShownTheorem == Spec => []RoutersShown
<1>1. TelemetryInv /\ ContentInv => RoutersShown
  <2> SUFFICES ASSUME TelemetryInv, ContentInv, Opaque \notin setup.type, setup.slots >= Len(setup.path),
                      NEW s \in spans
               PROVE  Len(s.texts) = Cardinality({i \in 1 .. s.seen : Showable(setup.path[i])})
    BY DEF RoutersShown
  <2>1. setup \in Setups /\ ShowsTrace(s, setup)
    BY DEF TelemetryInv, PacketInv, ContentInv
  <2>2. Len(s.texts) = Cardinality({i \in 1 .. Found(setup.type, Words, s.seen) : Showable(setup.path[i])})
    BY <2>1, TextsAre
  <2>3. /\ setup.type \subseteq Selectable /\ setup.slots \in Nat /\ Len(setup.path) \in Nat
        /\ s.seen \in Int /\ s.seen <= setup.slots
    <3>1. /\ setup.type \subseteq Selectable /\ setup.slots \in Nat
          /\ setup.path \in Seq({setup.path[i] : i \in DOMAIN setup.path})
      BY <2>1, SetupsAssumption
    <3>2. Len(setup.path) \in Nat
      BY <3>1
    <3>3. s.seen \in {Len(setup.path) - 1, Len(setup.path)}
      BY <2>1 DEF ShowsTrace
    <3>4. QED
      BY <3>1, <3>2, <3>3
  <2>4. NodeLen(setup.type) + OpaqueLen(setup.type) # 0
    BY <2>1, SomeField DEF ShowsTrace
  <2>5. PICK len \in Nat \ {0} : len = NodeLen(setup.type) + OpaqueLen(setup.type)
    BY <2>3, <2>4, LengthType
  <2>6. Words = setup.slots * len
    <3>1. SizeIoamTrace(setup.type) = len
      BY <2>3, <2>5, SizeIsLength
    <3>2. QED
      BY <2>3, <3>1 DEF Words
  <2>7. Words \div len = setup.slots
    <3>1. PICK w \in Nat : w = setup.slots * len
      BY <2>3
    <3>2. w \div len = setup.slots
      BY <2>3, <3>1, Quotient
    <3>3. QED
      BY <2>6, <3>1, <3>2
  <2>8. Found(setup.type, Words, s.seen) = s.seen
    BY <2>3, <2>5, <2>7 DEF Found
  <2>9. QED
    BY <2>2, <2>8
<1>2. QED
  BY <1>1, ContentInvariant, PTL
====
