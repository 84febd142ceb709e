---- MODULE Architecture ----
(***************************************************************************)
(* Architecture.generate_architecture of generator/architecture.py: the    *)
(* networks, the ip routes, the /etc/hosts entries and the dependencies    *)
(* the generator derives from a configuration.                             *)
(*                                                                         *)
(* The end-to-end connections of an entity and its commands are Python     *)
(* sets of strings: the order in which a loop meets their members changes  *)
(* from one run of the generator to the next, so it is chosen here.        *)
(*                                                                         *)
(* A network is a record n: n.hops are the entities on its interfaces, in  *)
(* the order of the interfaces, each but the last having the one after it  *)
(* as next hop; n.vlans are the interfaces' vlan ids.  Network ids count   *)
(* from 2: the network at position k of "networks" has the id k + 1.  An   *)
(* address is the pair of a network (its position) and the rank of the     *)
(* interface among those that get an address.                              *)
(***************************************************************************)
EXTENDS Topology, TLC

CONSTANTS
  Parts,      \* Parts[n]: the name n, split at its underscores
  OptionNames \* the names that contain the name of a connection option

ASSUME PartsAssumption == Parts \in [Names -> Seq(STRING)]
ASSUME OptionNamesAssumption == OptionNames \subseteq Names

VARIABLES
  cfg,       \* the configuration
  phase,     \* the function generate_architecture is in, or how it ended
  done,      \* the <<entity, connection>> pairs its loop has taken
  conn, pos, \* generate_networks: the connection being parsed, and where
  networks,  \* Architecture.networks
  attached,  \* attached_networks of each entity, as positions in networks
  routes,    \* the "ip route" commands of all entities
  hosts,     \* extra_hosts: <<entity, name, address>>, one per entity and name
  depends    \* depends_on of each entity

vars == <<cfg, phase, done, conn, pos, networks, attached, routes, hosts, depends>>

Phases == {"check", "networks", "routes", "hosts", "dependencies", "additional"}
Outcomes == {"done", "rejected", "failed"}

----
(***************************************************************************)
(* Networks, generator/network.py.                                         *)
(***************************************************************************)

\* generate_l3_net_name and generate_l2_net_name.  Names joined by underscores are
\* the concatenation of their parts.
L3Name(b, e) == <<"network">> \o Parts[b] \o Parts[e]
L2Name(s) == <<"network", "switch">> \o Parts[s]

\* What names are joined from.
Words == {"network", "switch"} \cup UNION {Range(Parts[n]) : n \in Names}

\* get_shared_interface with its arguments swapped.
HasLinkBack(net, b, e) ==
  \E k \in 1 .. Len(net.hops) - 1 : net.hops[k] = e /\ net.hops[k + 1] = b

\* get_shared_interface(b, e) is not None.
HasLink(net, b, e) ==
  \E k \in 1 .. Len(net.hops) - 1 : net.hops[k] = b /\ net.hops[k + 1] = e

NoNetwork == 0
NoAddress == <<NoNetwork, 0>>

\* The first network of a list that satisfies a condition.
FirstOf(S) == IF S = {} THEN NoNetwork ELSE CHOOSE k \in S : \A m \in S : k <= m

\* get_shared_network
SharedNetwork(c, nets, b, e) ==
  FirstOf({k \in DOMAIN nets :
             /\ HasLink(nets[k], b, e)
             /\ IsSwitch(c, b) \/ IsSwitch(c, e) \/ nets[k].layer = 3})

\* check_shared_network
CommonNetwork(nets, b, e) ==
  FirstOf({k \in DOMAIN nets : {b, e} \subseteq Range(nets[k].hops)})

\* Addresses handed out to switches too.
EntityIpByPosition(nets, k, e) ==
  IF k \in DOMAIN nets /\ e \in Range(nets[k].hops)
  THEN <<k, CHOOSE i \in DOMAIN nets[k].hops : nets[k].hops[i] = e>>
  ELSE NoAddress

\* get_entity_ip: switches, which are never at an end of a network, have none.
EntityIp(nets, k, e) ==
  IF k \notin DOMAIN nets THEN NoAddress
  ELSE IF nets[k].hops[1] = e THEN <<k, 1>>
  ELSE IF LastHop(nets[k].hops) = e THEN <<k, 2>>
  ELSE NoAddress

\* The position of the first hop after i that is not a switch.
NextL3(c, h, i) == CHOOSE j \in i + 1 .. Len(h) :
  ~IsSwitch(c, h[j]) /\ \A k \in i + 1 .. j - 1 : IsSwitch(c, h[k])

PrevL3(c, h, i) == CHOOSE j \in 1 .. i - 1 :
  ~IsSwitch(c, h[j]) /\ \A k \in j + 1 .. i - 1 : IsSwitch(c, h[k])

\* get_vlan_id of the switch at position k of h for the entity e.
VlanAt(c, h, k, e) == IF k \in DOMAIN h /\ IsSwitch(c, h[k]) THEN c.vlan[h[k]][e] ELSE 0

\* vlanStart, else vlanEnd.
InterfaceVlanAhead(c, h, j, k) ==
  IF IsSwitch(c, h[k]) \/ k = j THEN VlanAt(c, h, k, h[k]) ELSE VlanAt(c, h, k + 1, h[k])

\* The vlan of the interface of h[k] on the layer 2 network from h[i] to h[j]:
\* vlanStart, else vlanEnd, else vlanPrev.
InterfaceVlan(c, h, j, k) ==
  LET start == VlanAt(c, h, k, h[k])
      end   == IF k < j THEN VlanAt(c, h, k + 1, h[k]) ELSE 0
      prev  == VlanAt(c, h, k - 1, h[k])
  IN  IF start # 0 THEN start ELSE IF end # 0 THEN end ELSE prev

----
(***************************************************************************)
(* The loops over the connections.  They take the entities in the order of *)
(* the configuration and the connections of an entity in any order.        *)
(***************************************************************************)
EndHosts(c) == {e \in Entities(c) : c.kind[e] \in EndHost}

\* generate_networks and generate_ip_route_cmds: every connection of every Service,
\* those it receives included.
EndHostWork(c) == UNION {{e} \X E2eConns(c, e) : e \in EndHosts(c)}

\* modify_etc_hosts: a service handles the connections it is the source of, a
\* firewall those that cross it.
HostsWork(c) ==
  {<<h[1], h>> : h \in AllE2e(c)}
    \cup UNION {{f} \X E2eConns(c, f) : f \in {e \in Entities(c) : c.kind[e] = "firewall"}}

NotAfter(c, e, f) ==
  \E i, j \in DOMAIN c.order : i <= j /\ c.order[i] = e /\ c.order[j] = f

\* What the loop may take next.
Turn(work) ==
  {w \in work \ done : \A v \in work \ done : NotAfter(cfg, w[1], v[1])}

LoopEnds(here, work, next) ==
  /\ phase = here
  /\ work \subseteq done
  /\ phase' = next
  /\ done' = {}

Init ==
  /\ cfg \in Configs
  /\ phase = "check"
  /\ done = {}
  /\ conn = <<>> /\ pos = 0
  /\ networks = <<>>
  /\ attached = [e \in Entities(cfg) |-> <<>>]
  /\ routes = {}
  /\ hosts = {}
  /\ depends = [e \in Entities(cfg) |-> {}]

Check ==
  /\ phase = "check"
  /\ phase' = IF CheckConfig(cfg) THEN "networks" ELSE "rejected"
  /\ UNCHANGED <<cfg, done, conn, pos, networks, attached, routes, hosts, depends>>

----
(***************************************************************************)
(* generate_networks.                                                      *)
(***************************************************************************)
TakeConnection ==
  /\ phase = "networks"
  /\ pos = Len(conn)
  /\ \E w \in Turn(EndHostWork(cfg)) :
       done' = done \cup {w} /\ conn' = w[2] /\ pos' = 1
  /\ UNCHANGED <<cfg, phase, networks, attached, routes, hosts, depends>>

\* A network created for every connection that crosses it.
CreateAlways(net) ==
  /\ networks' = Append(networks, net)
  /\ attached' = [e \in DOMAIN attached |->
       IF e \in Range(net.hops) THEN Append(attached[e], Len(networks) + 1) ELSE attached[e]]

\* A network attached by its id.
CreateById(net) ==
  IF \E k \in DOMAIN networks : networks[k].name = net.name
  THEN UNCHANGED <<networks, attached>>
  ELSE /\ networks' = Append(networks, net)
       /\ attached' = [e \in DOMAIN attached |->
            IF e \in Range(net.hops) THEN Append(attached[e], Len(networks) + 2)
            ELSE attached[e]]

\* A network attached to its first entity only.
CreateBeginOnly(net) ==
  IF \E k \in DOMAIN networks : networks[k].name = net.name
  THEN UNCHANGED <<networks, attached>>
  ELSE /\ networks' = Append(networks, net)
       /\ attached' = [attached EXCEPT ![net.hops[1]] = Append(@, Len(networks) + 1)]

\* A network is created once for a name; the interfaces it gets then are all it gets.
Create(net) ==
  IF \E k \in DOMAIN networks : networks[k].name = net.name
  THEN UNCHANGED <<networks, attached>>
  ELSE /\ networks' = Append(networks, net)
       /\ attached' = [e \in DOMAIN attached |->
            IF e \in Range(net.hops) THEN Append(attached[e], Len(networks) + 1)
            ELSE attached[e]]

\* Without "i += 1".
AddL3Stuck ==
  /\ phase = "networks"
  /\ pos < Len(conn)
  /\ ~IsSwitch(cfg, conn[pos + 1])
  /\ Create([ name  |-> L3Name(conn[pos], conn[pos + 1]), layer |-> 3,
              hops  |-> <<conn[pos], conn[pos + 1]>>, vlans |-> <<0, 0>> ])
  /\ UNCHANGED <<cfg, phase, done, conn, pos, routes, hosts, depends>>

AddL3 ==
  /\ phase = "networks"
  /\ pos < Len(conn)
  /\ ~IsSwitch(cfg, conn[pos + 1])
  /\ Create([ name  |-> L3Name(conn[pos], conn[pos + 1]), layer |-> 3,
              hops  |-> <<conn[pos], conn[pos + 1]>>, vlans |-> <<0, 0>> ])
  /\ pos' = pos + 1
  /\ UNCHANGED <<cfg, phase, done, conn, routes, hosts, depends>>

\* The next hop is a switch: one network up to the first entity that is not.
AddL2 ==
  /\ phase = "networks"
  /\ pos < Len(conn)
  /\ IsSwitch(cfg, conn[pos + 1])
  /\ LET j == NextL3(cfg, conn, pos) IN
       /\ Create([ name  |-> L2Name(conn[pos + 1]), layer |-> 2,
                   hops  |-> SubSeq(conn, pos, j),
                   vlans |-> [k \in 1 .. j - pos + 1 |->
                                InterfaceVlan(cfg, conn, j, k + pos - 1)] ])
       /\ pos' = j
  /\ UNCHANGED <<cfg, phase, done, conn, routes, hosts, depends>>

NetworksDone ==
  /\ LoopEnds("networks", EndHostWork(cfg), "routes")
  /\ pos = Len(conn)
  /\ conn' = <<>> /\ pos' = 0
  /\ UNCHANGED <<cfg, networks, attached, routes, hosts, depends>>

----
(***************************************************************************)
(* generate_ip_route_cmds and ip_route_path_connection.                    *)
(***************************************************************************)

\* No look-ahead behind a switch.
GatewayAdjacent(c, nets, h, i, next, behind) ==
  LET k == IF i < next THEN SharedNetwork(c, nets, h[i], h[next])
                       ELSE SharedNetwork(c, nets, h[next], h[i])
  IN  EntityIp(nets, k, h[next])

\* The gateway of the entity h[i] towards the end of h it sees through h[next]: if
\* that is a switch, the address of the first entity behind the switches.
Gateway(c, nets, h, i, next, behind) ==
  IF IsSwitch(c, h[next])
  THEN EntityIp(nets, CommonNetwork(nets, h[i], h[behind]), h[behind])
  ELSE LET k == IF i < next THEN SharedNetwork(c, nets, h[i], h[next])
                            ELSE SharedNetwork(c, nets, h[next], h[i])
       IN  EntityIp(nets, k, h[next])

L3Positions(c, h) == {i \in DOMAIN h : ~IsSwitch(c, h[i])}

\* is_using_ioam_only or is_using_clt, with IPv6.
UsesIoam(c) == c.args.ip = 6 /\ (c.args.ioam \/ c.args.clt)

\* Only the routes towards the end.
RouteCommandsOneWay(c, nets, h) ==
  LET dest == SharedNetwork(c, nets, h[Len(h) - 1], h[Len(h)])
  IN  {[ at |-> h[i], dst |-> dest, via |-> Gateway(c, nets, h, i, i + 1, NextL3(c, h, i)),
         slots |-> IF UsesIoam(c) /\ i = 1 THEN Len(h) ELSE 0 ] : i \in L3Positions(c, h) \ {Len(h)}}

\* The subnet of the end in the routes towards the source too.
RouteCommandsDestTwice(c, nets, h) ==
  RouteCommandsOneWay(c, nets, h)
    \cup
  {[ at |-> h[i], dst |-> SharedNetwork(c, nets, h[Len(h) - 1], h[Len(h)]),
     via |-> Gateway(c, nets, h, i, i - 1, PrevL3(c, h, i)), slots |-> 0 ] :
       i \in L3Positions(c, h) \ {1}}

\* The commands for one connection.  A route is a command of the entity r.at: it
\* sends the packets for the subnet of network r.dst to the address r.via, with
\* room for r.slots IOAM nodes.
RouteCommands(c, nets, h) ==
  LET last == Len(h)
      dest == SharedNetwork(c, nets, h[last - 1], h[last])
      src  == SharedNetwork(c, nets, h[1], h[2])
  IN  {[ at |-> h[i], dst |-> dest, via |-> Gateway(c, nets, h, i, i + 1, NextL3(c, h, i)),
         slots |-> IF UsesIoam(c) /\ i = 1 THEN last ELSE 0 ] : i \in L3Positions(c, h) \ {last}}
      \cup
      {[ at |-> h[i], dst |-> src, via |-> Gateway(c, nets, h, i, i - 1, PrevL3(c, h, i)),
         slots |-> 0 ] : i \in L3Positions(c, h) \ {1}}

\* No network the function looks up is missing.
Routable(c, nets, h) ==
  /\ \A i \in 1 .. Len(h) - 1 :
       \/ IsSwitch(c, h[i]) /\ IsSwitch(c, h[i + 1])
       \/ SharedNetwork(c, nets, h[i], h[i + 1]) # NoNetwork
  /\ \A i \in L3Positions(c, h) \ {Len(h)} :
       IsSwitch(c, h[i + 1]) => CommonNetwork(nets, h[i], h[NextL3(c, h, i)]) # NoNetwork

IpRoutePathConnection ==
  /\ phase = "routes"
  /\ \E w \in Turn(EndHostWork(cfg)) :
       /\ done' = done \cup {w}
       /\ IF Routable(cfg, networks, w[2])
          THEN routes' = routes \cup RouteCommands(cfg, networks, w[2]) /\ UNCHANGED phase
          ELSE phase' = "failed" /\ UNCHANGED routes
  /\ UNCHANGED <<cfg, conn, pos, networks, attached, hosts, depends>>

RoutesDone ==
  /\ LoopEnds("routes", EndHostWork(cfg), "hosts")
  /\ UNCHANGED <<cfg, conn, pos, networks, attached, routes, hosts, depends>>

----
(***************************************************************************)
(* modify_etc_hosts.                                                       *)
(***************************************************************************)

\* extra_hosts[n] = address, for the entities o and the names n of "entries".
Assign(entries) ==
  {t \in hosts : \A u \in entries : u[1] # t[1] \/ u[2] # t[2]} \cup entries

\* Without the entry of the end for the source.
ServiceHostsForward ==
  /\ phase = "hosts"
  /\ \E w \in Turn(HostsWork(cfg)) :
       /\ cfg.kind[w[1]] \in EndHost
       /\ done' = done \cup {w}
       /\ hosts' = Assign({<<w[1], LastHop(w[2]),
                             EntityIp(networks, SharedNetwork(cfg, networks,
                               w[2][Len(w[2]) - 1], LastHop(w[2])), LastHop(w[2]))>>})
  /\ UNCHANGED <<cfg, phase, conn, pos, networks, attached, routes, depends>>

\* The source of a connection learns the address of its end on the last network, and
\* the end the address of the source on the first network.
ServiceHosts ==
  /\ phase = "hosts"
  /\ \E w \in Turn(HostsWork(cfg)) :
       /\ cfg.kind[w[1]] \in EndHost
       /\ done' = done \cup {w}
       /\ LET h     == w[2]
              last  == LastHop(h)
              final == SharedNetwork(cfg, networks, h[Len(h) - 1], last)
              first == SharedNetwork(cfg, networks, h[1], h[2])
          IN  IF NoNetwork \in {final, first}
              THEN phase' = "failed" /\ UNCHANGED hosts
              ELSE /\ hosts' = Assign({<<h[1], last, EntityIp(networks, final, last)>>,
                                       <<last, h[1], EntityIp(networks, first, h[1])>>})
                   /\ UNCHANGED phase
  /\ UNCHANGED <<cfg, conn, pos, networks, attached, routes, depends>>

\* A firewall learns every other hop of the connections that cross it, on the network
\* towards the next hop; the assignment for the link after a hop overwrites the one
\* for the link before it.
FirewallHosts ==
  /\ phase = "hosts"
  /\ \E w \in Turn(HostsWork(cfg)) :
       /\ cfg.kind[w[1]] = "firewall"
       /\ done' = done \cup {w}
       /\ LET h == w[2]
              link(i) == SharedNetwork(cfg, networks, h[i], h[i + 1])
          IN  IF \E i \in 1 .. Len(h) - 1 : link(i) = NoNetwork
              THEN phase' = "failed" /\ UNCHANGED hosts
              ELSE /\ hosts' = Assign(
                        {<<w[1], h[k], EntityIp(networks, link(IF k < Len(h) THEN k ELSE k - 1), h[k])>> :
                           k \in {i \in DOMAIN h : h[i] # w[1]}})
                   /\ UNCHANGED phase
  /\ UNCHANGED <<cfg, conn, pos, networks, attached, routes, depends>>

HostsDone ==
  /\ LoopEnds("hosts", HostsWork(cfg), "dependencies")
  /\ UNCHANGED <<cfg, conn, pos, networks, attached, routes, hosts, depends>>

----
(***************************************************************************)
(* associate_dependencies and generate_additional_cmds.                    *)
(***************************************************************************)
\* The connections an entity carries taken for those it makes.
AssociateE2e ==
  /\ phase = "dependencies"
  /\ depends' = [e \in DOMAIN depends |-> UNION {Range(h) : h \in E2eConns(cfg, e)} \ {e}]
  /\ phase' = "additional"
  /\ UNCHANGED <<cfg, done, conn, pos, networks, attached, routes, hosts>>

AssociateDependencies ==
  /\ phase = "dependencies"
  /\ depends' = [e \in DOMAIN depends |-> DependsOn(cfg, e)]
  /\ phase' = "additional"
  /\ UNCHANGED <<cfg, done, conn, pos, networks, attached, routes, hosts>>

\* generate_traffic_impairments and generate_timers look for option names in what
\* extract_connections returns: not in the fields of a connection but in its path, a
\* string.  These are the connections of e they do not skip.
Impaired(c, e) == {p \in ExtractConnections(c, e) : Range(p) \cap OptionNames # {}}

\* Reading the value of an option from a string then raises.
MentionsOption(c) == \E e \in Entities(c) : Impaired(c, e) # {}

AdditionalCmds ==
  /\ phase = "additional"
  /\ phase' = IF MentionsOption(cfg) THEN "failed" ELSE "done"
  /\ UNCHANGED <<cfg, done, conn, pos, networks, attached, routes, hosts, depends>>

Terminated == phase \in Outcomes /\ UNCHANGED vars

Step ==
  \/ Check
  \/ TakeConnection
  \/ AddL3
  \/ AddL2
  \/ NetworksDone
  \/ IpRoutePathConnection
  \/ RoutesDone
  \/ ServiceHosts
  \/ FirewallHosts
  \/ HostsDone
  \/ AssociateDependencies
  \/ AdditionalCmds

Next == Step \/ Terminated

Spec == Init /\ [][Next]_vars
FairSpec == Spec /\ WF_vars(Step)

----
(***************************************************************************)
(* Types and the correctness of what is generated.                         *)
(***************************************************************************)
Addresses == {NoAddress} \cup ((DOMAIN networks) \X {1, 2})

TypeOK ==
  /\ IsConfig(cfg)
  /\ phase \in Phases \cup Outcomes
  /\ conn \in Seq(Entities(cfg)) /\ pos \in 0 .. Len(conn)
  /\ done \subseteq Entities(cfg) \X Seq(Entities(cfg))
  /\ networks \in Seq([ name : Seq(Words), layer : {2, 3},
                        hops : Seq(Entities(cfg)), vlans : Seq(Nat) ])
  /\ attached \in [Entities(cfg) -> Seq(DOMAIN networks)]
  /\ routes \subseteq [ at : Entities(cfg), dst : DOMAIN networks,
                        via : Addresses, slots : Nat ]
  /\ hosts \subseteq Entities(cfg) \X Entities(cfg) \X Addresses
  /\ depends \in [Entities(cfg) -> SUBSET Names]

\* The segments of a connection: from an entity that is not a switch to the next.
Segments(c, h) ==
  {SubSeq(h, i, NextL3(c, h, i)) : i \in L3Positions(c, h) \ {Len(h)}}
AllSegments(c) == UNION {Segments(c, h) : h \in AllE2e(c)}

NetName(x) == IF Len(x) = 2 THEN L3Name(x[1], x[2]) ELSE L2Name(x[2])

\* What check_config does not check and the generator needs: two segments do not ask
\* for networks of one name (a switch shared by two segments; names with underscores),
\* and no connection has a name with the name of an option in it.
Buildable(c) ==
  /\ \A x, y \in AllSegments(c) : NetName(x) = NetName(y) => x = y
  /\ ~MentionsOption(c)

\* generate_architecture raises nothing after check_config accepted a buildable
\* configuration, in whatever order the sets of connections are iterated: every lookup
\* of a network, an interface or an address in its five loops finds one.
BuildSucceeds == phase = "failed" => ~Buildable(cfg)

\* Once generate_networks returns, there is one network for each segment and nothing
\* else, although each connection is parsed once for each of its ends.
NetworksMatchPaths ==
  phase \notin {"check", "networks", "rejected"} /\ Buildable(cfg) =>
    /\ {networks[k].hops : k \in DOMAIN networks} = AllSegments(cfg)
    /\ \A k, m \in DOMAIN networks : networks[k].hops = networks[m].hops => k = m

\* The position of a network in attached_networks numbers the interface (ethN) that
\* docker, commands.sh and meshnet use: each entity lists the networks it has an
\* interface on, each once, in the order of their creation.
AttachedInOrder ==
  \A e \in Entities(cfg) :
    /\ Range(attached[e]) = {k \in DOMAIN networks : e \in Range(networks[k].hops)}
    /\ \A i, j \in DOMAIN attached[e] : i < j => attached[e][i] < attached[e][j]

\* e has an interface with an address on network k.
OnNetwork(e, k) == EntityIp(networks, k, e) # NoAddress

\* Every gateway is on-link: the owner of a route shares the gateway's network and is
\* not the gateway.  "ip route add" refuses any other.
GatewaysOnLink ==
  \A r \in routes :
    /\ r.via # NoAddress
    /\ OnNetwork(r.at, r.via[1])
    /\ r.via # EntityIp(networks, r.via[1], r.at)

\* e can start a packet for network k: it is on it or has a route to it.
Reaches(e, k) == OnNetwork(e, k) \/ \E r \in routes : r.at = e /\ r.dst = k

\* Both ends of every connection know one address of the other, and have an interface
\* or a route for its subnet: the entries of modify_etc_hosts, of which a later
\* connection may overwrite an earlier one, agree with ip_route_path_connection.
HostsReachable ==
  phase = "done" =>
    \A h \in AllE2e(cfg) : \A d \in {<<h[1], LastHop(h)>>, <<LastHop(h), h[1]>>} :
      LET known == {t \in hosts : t[1] = d[1] /\ t[2] = d[2]} IN
      /\ Cardinality(known) = 1
      /\ \A t \in known : EntityIp(networks, t[3][1], d[2]) = t[3] /\ Reaches(d[1], t[3][1])

\* "depends_on" never makes docker compose wait in a circle or for a container that does
\* not exist, although an entity waits for every hop of its paths and the routers of a
\* path for their own neighbours.
DependenciesStartable ==
  phase \in {"additional", "done"} =>
    /\ \A e \in Entities(cfg) : depends[e] \subseteq Entities(cfg)
    /\ Acyclic(Entities(cfg), UNION {{e} \X depends[e] : e \in Entities(cfg)})

\* get_entity_vlan
EntityVlan(net, e) == net.vlans[CHOOSE k \in DOMAIN net.hops : net.hops[k] = e]

\* export_compose_l2: the port of switch s towards e, on either end of a link, is
\* tagged with the vlan of the interface of e.
PortTag(net, e) == EntityVlan(net, e)

TaggedAsConfigured(net) ==
  \A i \in 1 .. Len(net.hops) - 1 :
    LET l == net.hops[i]
        m == net.hops[i + 1]
    IN  /\ IsSwitch(cfg, l) => PortTag(net, m) = cfg.vlan[l][m]
        /\ IsSwitch(cfg, m) => PortTag(net, l) = cfg.vlan[m][l]

\* When a connection starts with one or two switches in line, every port of a switch is
\* tagged with the vlan its neighbors list gives for the entity behind the port, and
\* with none if it gives none.
FirstPortsTagged ==
  \A k \in DOMAIN networks :
    cfg.kind[networks[k].hops[1]] \in EndHost /\ Len(networks[k].hops) \in {3, 4}
      => TaggedAsConfigured(networks[k])

\* "You can have many connections to a single switch" (docs/configuration.md:150): when
\* generate_architecture fails, it is not for a switch.
SwitchesShared ==
  phase = "failed" =>
    \/ MentionsOption(cfg)
    \/ \E x, y \in AllSegments(cfg) : x # y /\ Len(x) = 2 /\ Len(y) = 2 /\ NetName(x) = NetName(y)

\* "Network parameters can be configured on the connections between entities"
\* (docs/configuration.md:176): when the architecture is built, every connection with
\* options is one commands are generated for, and the values of its options are valid.
OptionsHonoured ==
  phase = "done" =>
    \A e \in Entities(cfg) : \A o \in Range(cfg.options[e]) :
      o.path \in Impaired(cfg, e) /\ Range(o.values) = {"good"}

\* generate_architecture ends, whatever the configuration: no loop over the hops stalls
\* and no loop over the connections sees its set grow.
Terminates == <>(phase \in Outcomes)
====
