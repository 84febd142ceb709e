---- MODULE Forwarding ----
(***************************************************************************)
(* What the generated routes do: a request and its response over one       *)
(* end-to-end connection of the topology module Architecture built.        *)
(*                                                                         *)
(* commands.sh runs the commands of an entity in the order a Python set    *)
(* gives them.  "ip route add" fails when the entity already has a route   *)
(* for the subnet: the subnets of its own interfaces have one from the     *)
(* start, and of several commands for one subnet the first one wins.  The  *)
(* winner is chosen here when a packet first needs it, and kept in "won":  *)
(* the choice no packet has looked at yet is still open.                   *)
(***************************************************************************)
EXTENDS Architecture

VARIABLES
  won,     \* the routes that won, as far as packets have used them
  packet   \* the packet on its way, or what became of it

fvars == <<vars, won, packet>>

\* packet.state is "none", "request" or "response" while there is something to do,
\* then "answered" or "dropped".  packet.trail holds the entities it met.
NoPacket == [state |-> "none", conn |-> <<>>, src |-> NoAddress, dst |-> NoAddress, trail |-> <<>>]

FInit == Init /\ won = {} /\ packet = NoPacket

Build == Step /\ UNCHANGED <<won, packet>>

\* The entities reach the other end of a network directly.
Owner(address) == CHOOSE e \in Entities(cfg) : EntityIp(networks, address[1], e) = address

\* The routes of e for network k that may be in its table.
Candidates(e, k) ==
  LET chosen == {r \in won : r.at = e /\ r.dst = k}
  IN  IF chosen # {} THEN chosen ELSE {r \in routes : r.at = e /\ r.dst = k}

\* The source of the connection resolves its end in /etc/hosts and sends.
Send ==
  /\ phase = "done"
  /\ packet.state = "none"
  /\ \E h \in AllE2e(cfg) : \E t \in hosts :
       /\ t[1] = h[1] /\ t[2] = LastHop(h)
       /\ packet' = [state |-> "request", conn |-> h, src |-> NoAddress,
                     dst |-> t[3], trail |-> <<h[1]>>]
  /\ UNCHANGED <<vars, won>>

InFlight == packet.state \in {"request", "response"}
Here == LastHop(packet.trail)
Arrived == EntityIp(networks, packet.dst[1], Here) = packet.dst
OnLink == OnNetwork(Here, packet.dst[1])

\* Out of the interface on network k to e.  The first time, the kernel takes the
\* address of that interface as the source address.
SendOn(k, e) ==
  packet' = [packet EXCEPT !.trail = Append(@, e),
                           !.src = IF @ = NoAddress THEN EntityIp(networks, k, Here) ELSE @]

ForwardOnLink ==
  /\ InFlight /\ ~Arrived /\ OnLink
  /\ SendOn(packet.dst[1], Owner(packet.dst))
  /\ UNCHANGED <<vars, won>>

ForwardByRoute ==
  /\ InFlight /\ ~Arrived /\ ~OnLink
  /\ \E r \in Candidates(Here, packet.dst[1]) :
       won' = won \cup {r} /\ SendOn(r.via[1], Owner(r.via))
  /\ UNCHANGED vars

NoRoute ==
  /\ InFlight /\ ~Arrived /\ ~OnLink
  /\ Candidates(Here, packet.dst[1]) = {}
  /\ packet' = [packet EXCEPT !.state = "dropped"]
  /\ UNCHANGED <<vars, won>>

\* The server answers to the source address of the request.
Respond ==
  /\ packet.state = "request" /\ Arrived
  /\ packet' = [packet EXCEPT !.state = "response", !.src = packet.dst, !.dst = packet.src,
                              !.trail = <<Here>>]
  /\ UNCHANGED <<vars, won>>

Answered ==
  /\ packet.state = "response" /\ Arrived
  /\ packet' = [packet EXCEPT !.state = "answered"]
  /\ UNCHANGED <<vars, won>>

\* Nothing to send, or the exchange is over.
Quiet ==
  /\ phase \in Outcomes
  /\ \/ packet.state \in {"answered", "dropped"}
     \/ phase # "done"
     \/ AllE2e(cfg) = {}
  /\ UNCHANGED fvars

FStep ==
  \/ Build
  \/ Send
  \/ ForwardOnLink
  \/ ForwardByRoute
  \/ NoRoute
  \/ Respond
  \/ Answered

FNext == FStep \/ Quiet
FwdSpec == FInit /\ [][FNext]_fvars /\ WF_fvars(FStep)

----
(***************************************************************************)
(* Delivery.                                                               *)
(***************************************************************************)
FTypeOK ==
  /\ won \subseteq routes
  /\ packet.state \in {"none", "request", "response", "answered", "dropped"}
  /\ {packet.src, packet.dst} \subseteq Addresses
  /\ packet.trail \in Seq(Entities(cfg)) /\ packet.conn \in Seq(Entities(cfg))

\* Two entities are joined through switches and a second time on their own or through
\* other switches.  check_shared_network, which finds the gateway behind a switch, takes
\* the first network that holds both, not the one on the path.
JoinedTwice(c) ==
  \E x, y \in AllSegments(c) : x # y /\ x[1] = y[1] /\ LastHop(x) = LastHop(y)

\* Whichever commands win, every entity a request or a response reaches has a route for
\* it, although it may be one that another connection put there.
NeverDropped == packet.state = "dropped" => JoinedTwice(cfg)

\* Whichever commands win, no packet meets an entity twice: routes of different
\* connections, mixed hop by hop, never form a loop.  They may where switches are shared
\* by segments and every look-up happens to find a network: a network may then be the
\* last one of a connection and the first one of another that goes elsewhere.
NoForwardingLoop ==
  Buildable(cfg) =>
    \A i, j \in DOMAIN packet.trail : packet.trail[i] = packet.trail[j] => i = j

\* In a topology that is built, the request that is sent is answered.
RequestsAnswered ==
  (packet.state = "request" /\ ~JoinedTwice(cfg)) ~> (packet.state = "answered")

\* "`<path>` describes the path made by the request" (docs/configuration.md:34): a
\* request that arrives has met the hops of its connection, switches apart.
PathFollowed ==
  packet.state = "request" /\ Arrived =>
    packet.trail = SelectSeq(packet.conn, LAMBDA e : ~IsSwitch(cfg, e))
====
