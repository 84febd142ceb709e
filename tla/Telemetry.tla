---- MODULE Telemetry ----
(***************************************************************************)
(* Cross-layer telemetry: a service puts the ids of its span on the socket *)
(* of each request it makes (client_side.go, clt_agent.go), the packets    *)
(* carry them with an IOAM trace, the agent of the service they reach      *)
(* (ioam-agent.cpp) reports the trace and the collector                    *)
(* (ioam-collector.go) makes it a span under the span of the request.      *)
(*                                                                         *)
(* The requests are made by concurrent handlers of one process.  What is   *)
(* in the packets is module IoamTrace.                                     *)
(***************************************************************************)
EXTENDS IoamTrace

CONSTANTS
  Requests,    \* requests with tracing, each with the ids of a span of its own
  Fds,         \* the numbers of file descriptors
  NoFd,        \* socketId before myDialContext stores one
  Setups,      \* what the generator made, see SetupsAssumption
  MaxPackets   \* bound: the packets of a connection, retransmissions included

\* type: the bits of the trace.  path: the entities a packet visits, switches not
\* counted.  slots: the nodes there is room for, the length of the connection whose
\* route won.  eth0: whether the path ends at interface eth0 of the service.
\* idle: the entities with an empty queue.  callers: how many requests are made.
ASSUME SetupsAssumption ==
  \A s \in Setups :
    /\ s.type \subseteq Selectable
    /\ s.path \in Seq({s.path[i] : i \in DOMAIN s.path}) /\ Len(s.path) >= 2
    /\ s.slots \in Nat /\ s.slots >= 2
    /\ s.eth0 \in BOOLEAN
    /\ s.callers \in Nat

NoRequest == "none"     \* no owner; the ids are 0

ASSUME RequestsAssumption == NoRequest \notin Requests
ASSUME NoFdAssumption == NoFd \notin Fds
ASSUME MaxPacketsAssumption == MaxPackets \in Nat \ {0}

VARIABLES
  setup,    \* the setup
  state,    \* state[r]: how far request r is
  fd,       \* fd[r]: the descriptor of the connection of r
  owner,    \* owner[f]: the request whose open connection has descriptor f
  ids,      \* ids[f]: the request whose ids the kernel puts on the packets of f
  sent,     \* sent[r]: how many packets of r were sent
  wire,     \* packets on their way
  reports,  \* the traces the agent has read from the packet and has yet to report
  spans,    \* the span the collector made last, if any
  made      \* the packets it made one for

clientVars == <<state, fd, owner, ids>>
agentVars == <<reports, spans, made>>
vars == <<setup, clientVars, sent, wire, agentVars>>

Made == Cardinality({r \in Requests : state[r] # "new"})
Words == SizeIoamTrace(setup.type) * setup.slots

Init ==
  /\ setup \in Setups
  /\ state = [r \in Requests |-> "new"]
  /\ fd = [r \in Requests |-> NoFd]
  /\ owner = [f \in Fds |-> NoRequest]
  /\ ids = [f \in Fds |-> NoRequest]
  /\ sent = [r \in Requests |-> 0]
  /\ wire = {} /\ reports = <<>> /\ spans = {} /\ made = {}

----
(***************************************************************************)
(* client_side.go and clt_agent.go: one request with tracing.              *)
(***************************************************************************)

\* A packet leaves with the ids its socket has now.
Send(r, i) ==
  /\ wire' = wire \cup {[of |-> r, nr |-> sent[r], ids |-> i]}
  /\ sent' = [sent EXCEPT ![r] = @ + 1]

\* net.Dial: the handshake is over before the socket has any ids.  Without an accepted
\* encap there is no route to take.
Dial(r) ==
  /\ state[r] = "new" /\ Made < setup.callers
  /\ EncapAccepted(Words)
  /\ \E f \in Fds :
       /\ owner[f] = NoRequest
       /\ owner' = [owner EXCEPT ![f] = r]
       /\ fd' = [fd EXCEPT ![r] = f]
  /\ state' = [state EXCEPT ![r] = "dialled"]
  /\ Send(r, NoRequest)
  /\ UNCHANGED <<setup, ids, agentVars>>

DialFails(r) ==
  /\ state[r] = "new" /\ Made < setup.callers
  /\ state' = [state EXCEPT ![r] = "over"]
  /\ UNCHANGED <<setup, fd, owner, ids, sent, wire, agentVars>>

\* clt_enable with the descriptor of another connection.
CltEnableOther(r) ==
  /\ state[r] = "dialled"
  /\ \E f \in Fds \ {fd[r]} : ids' = [ids EXCEPT ![f] = r]
  /\ state' = [state EXCEPT ![r] = "enabled"]
  /\ UNCHANGED <<setup, fd, owner, sent, wire, agentVars>>

\* clt_enable in myDialContext.
CltEnable(r) ==
  /\ state[r] = "dialled"
  /\ ids' = [ids EXCEPT ![fd[r]] = r]
  /\ state' = [state EXCEPT ![r] = "enabled"]
  /\ UNCHANGED <<setup, fd, owner, sent, wire, agentVars>>

\* clt_enable failed: the request fails and nobody closes the connection.
CltEnableFails(r) ==
  /\ state[r] = "dialled"
  /\ state' = [state EXCEPT ![r] = "over"]
  /\ UNCHANGED <<setup, fd, owner, ids, sent, wire, agentVars>>

\* The request, or a part of it once more.
SendData(r) ==
  /\ state[r] = "enabled"
  /\ sent[r] < MaxPackets
  /\ Send(r, ids[fd[r]])
  /\ UNCHANGED <<setup, clientVars, agentVars>>

\* io.ReadAll has the body.
ReadAll(r) ==
  /\ state[r] = "enabled"
  /\ sent[r] > 1
  /\ state' = [state EXCEPT ![r] = "read"]
  /\ UNCHANGED <<setup, fd, owner, ids, sent, wire, agentVars>>

\* The connection with descriptor f is closed, and its socket gone with its ids.
Closed(f) ==
  /\ owner' = [owner EXCEPT ![f] = NoRequest]
  /\ ids' = [ids EXCEPT ![f] = NoRequest]

\* A timeout, or the server went away: an error, and CLT is not disabled.
RequestFails(r) ==
  /\ state[r] = "enabled"
  /\ state' = [state EXCEPT ![r] = "over"]
  /\ Closed(fd[r])
  /\ UNCHANGED <<setup, fd, sent, wire, agentVars>>

\* clt_disable as soon as the request was sent.
CltDisableEarly(r) ==
  /\ state[r] = "enabled" /\ sent[r] > 1
  /\ ids' = [ids EXCEPT ![fd[r]] = NoRequest]
  /\ UNCHANGED <<setup, state, fd, owner, sent, wire, agentVars>>

\* clt_disable names the socket by the number of the descriptor, whoever has it now.
CltDisable(r) ==
  /\ state[r] = "read"
  /\ state' = [state EXCEPT ![r] = "over"]
  /\ ids' = [ids EXCEPT ![fd[r]] = NoRequest]
  /\ UNCHANGED <<setup, fd, owner, sent, wire, agentVars>>

\* An error of clt_disable is logged.
CltDisableFails(r) ==
  /\ state[r] = "read"
  /\ state' = [state EXCEPT ![r] = "over"]
  /\ UNCHANGED <<setup, fd, owner, ids, sent, wire, agentVars>>

\* The server closes a connection whose response was read, or nothing refers to one any
\* more.
Close(r) ==
  /\ state[r] \in {"read", "over"}
  /\ fd[r] \in Fds /\ owner[fd[r]] = r
  /\ Closed(fd[r])
  /\ UNCHANGED <<setup, state, fd, sent, wire, agentVars>>

----
(***************************************************************************)
(* ioam-agent.cpp, on the service at the end of the path.                  *)
(***************************************************************************)

\* listen: a trace is reported if it has ids.
ReportableAny(t) == TRUE
Reportable(t) == t.ids # NoRequest

\* The packet is lost, or arrives at an interface without an agent.
Lose ==
  /\ \E p \in wire : wire' = wire \ {p}
  /\ UNCHANGED <<setup, clientVars, sent, agentVars>>

\* recv, parse: the agent may see the packet before or after the kernel of its own
\* entity has written.  An error of parse is logged.
Capture ==
  /\ reports = <<>> /\ setup.eth0
  /\ \E p \in wire, n \in {Len(setup.path) - 1, Len(setup.path)}, garbled \in SUBSET ({5, 10} \cap setup.type) :
       LET t == TraceAfter(setup.type, Words, SubSeq(setup.path, 1, n), setup.idle)
           trace == [packet |-> <<p.of, p.nr>>, seen |-> n, garbled |-> garbled, ids |-> p.ids,
                     nodes |-> ParseIoamTrace(t, garbled)]
       IN  /\ reports' = IF Parsable(t) /\ Reportable(trace) THEN <<trace>> ELSE <<>>
           /\ wire' = wire \ {p}
  /\ UNCHANGED <<setup, clientVars, sent, spans, made>>

\* Report of the collector: a span whose parent is the span of the ids, one text for
\* each node.  nr counts the spans of a packet.
CollectorReport(t) ==
  /\ spans' = { [ packet |-> t.packet, seen |-> t.seen, garbled |-> t.garbled, parent |-> t.ids,
                  nr |-> IF t.packet \in made THEN 2 ELSE 1,
                  texts |-> [k \in DOMAIN t.nodes |-> ParseNode(t.nodes[k], setup.type)] ] }
  /\ made' = made \cup {t.packet}

\* A report is repeated until it succeeds.
ReportRetry ==
  /\ reports # <<>>
  /\ CollectorReport(reports[1]) \/ UNCHANGED <<spans, made>>
  /\ reports' = reports \/ reports' = Tail(reports)
  /\ UNCHANGED <<setup, clientVars, sent, wire>>

\* The call succeeds, or fails after or before the collector has handled it: in any
\* case it is not repeated.
Report ==
  /\ reports # <<>>
  /\ CollectorReport(reports[1]) \/ UNCHANGED <<spans, made>>
  /\ reports' = Tail(reports)
  /\ UNCHANGED <<setup, clientVars, sent, wire>>

----
Next ==
  \/ \E r \in Requests :
       \/ Dial(r) \/ DialFails(r)
       \/ CltEnable(r) \/ CltEnableFails(r)
       \/ SendData(r) \/ ReadAll(r) \/ RequestFails(r)
       \/ CltDisable(r) \/ CltDisableFails(r) \/ Close(r)
  \/ Lose \/ Capture \/ Report

Spec == Init /\ [][Next]_vars

----
(***************************************************************************)
(* Properties.                                                             *)
(***************************************************************************)
States == {"new", "dialled", "enabled", "read", "over"}
Packets == Requests \X (0 .. MaxPackets)

\* Everything is of its kind; a descriptor in use is the one its request knows, and a
\* socket has no ids but those of the request that dialled it (myDialContext takes the
\* descriptor out of the connection by reflection).
TypeOK ==
  /\ setup \in Setups
  /\ state \in [Requests -> States]
  /\ fd \in [Requests -> Fds \cup {NoFd}]
  /\ owner \in [Fds -> Requests \cup {NoRequest}]
  /\ \A f \in Fds : owner[f] # NoRequest => fd[owner[f]] = f
  /\ \A f \in Fds : ids[f] \in {NoRequest, owner[f]}
  /\ sent \in [Requests -> 0 .. MaxPackets]
  /\ wire \subseteq [of : Requests, nr : 0 .. MaxPackets, ids : Requests \cup {NoRequest}]
  /\ Len(reports) <= 1
  /\ \A t \in {reports[k] : k \in DOMAIN reports} : t.packet \in Packets
  /\ \A s \in spans : s.packet \in Packets /\ s.parent \in Requests \cup {NoRequest}
  /\ made \subseteq Packets

\* However descriptors are reused, a span of the collector hangs under the span of the
\* request that sent the packet: never under that of another, and nothing is reported
\* of a packet without ids, like those of the handshake.
SpansOfTheirRequest ==
  \A s \in spans : s.parent = s.packet[1] /\ s.packet[2] > 0

\* A packet makes at most one span, also when the call to the collector fails after the
\* collector has handled it.
OneSpanPerPacket == \A s \in spans : s.nr = 1

\* clt_disable by number can only take the ids of a connection whose descriptor was that
\* of a request already over: any other packet of a request carries its ids, the last
\* retransmission too.
DataCarriesIds ==
  \A p \in wire :
    p.nr > 0 /\ p.ids # p.of =>
      /\ p.ids = NoRequest
      /\ \E q \in Requests \ {p.of} : fd[q] = fd[p.of] /\ state[q] = "over"

\* The nodes a packet has room for.
Room == Words \div (NodeLen(setup.type) + OpaqueLen(setup.type))

\* An entity whose only field is a queue depth of 0 makes an empty message.
Showable(e) == ~(setup.type = {6} /\ e \in setup.idle)

\* The entities a span shows: the first ones on the path that find room.
ShownIn(s) == Sublist(setup.path, {i \in 1 .. Min({s.seen, Room}) : Showable(setup.path[i])})

\* Text k of a span is about the entity k of those shown, in the order of the path,
\* although every entity writes in front of the ones before it.
TextsInPathOrder ==
  \A s \in spans :
    /\ DOMAIN s.texts = DOMAIN ShownIn(s)
    /\ \A k \in DOMAIN s.texts : \A b \in setup.type \ s.garbled :
         \A w \in {s.texts[k][b][j] : j \in DOMAIN s.texts[k][b]} : w[1] = ShownIn(s)[k]

\* The bits whose value the agent and the collector keep: not bit 9, whose value the
\* agent stores over that of bit 1 and the collector looks for elsewhere, and not what
\* parse_node_data reads as a string without an end.
Kept(s) == setup.type \ (s.garbled \cup {9} \cup (IF 9 \in setup.type THEN {1} ELSE {}))

\* The generator, the kernel, the agent and the collector agree on the place and the
\* width of every field: whatever other bits are selected, a kept bit is shown with the
\* value the entity wrote.
KeptFieldsShown ==
  \A s \in spans : \A k \in DOMAIN s.texts : \A b \in Kept(s) :
    LET e == ShownIn(s)[k]
    IN  s.texts[k][b] = IF b = 6 /\ e \in setup.idle THEN Unset
                        ELSE [j \in 1 .. FieldLen(b) |-> <<e, b, j>>]

\* Without opaque state, size_ioam_trace leaves room for every entity of a connection
\* whose own route is used (README.md:116: the data of the routers is gathered): no
\* entity the packet visited is missing in the span.
RoutersShown ==
  Opaque \notin setup.type /\ setup.slots >= Len(setup.path) =>
    \A s \in spans :
      Len(s.texts) = Cardinality({i \in 1 .. s.seen : Showable(setup.path[i])})
====
