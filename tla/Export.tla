---- MODULE Export ----
(***************************************************************************)
(* gen_config_files of generator/generator.py: check_arguments, then the   *)
(* architecture, then one of the two exporters.                            *)
(*                                                                         *)
(* compose_exporter.py writes a file of networks and containers, and       *)
(* commands.sh; k8s_exporter.py writes Meshnet links, pods, NodePort       *)
(* services and, for externals, commands.sh.  The items of "todo" are what *)
(* the exporter writes next: an entity, or one of the strings below.       *)
(***************************************************************************)
EXTENDS Architecture, Lists

CONSTANTS
  Clusters,                 \* what kubectl may tell of the cluster
  NodePortMin, NodePortMax  \* K8S_DEFAULT_NODE_PORT_MIN and _MAX

\* The node ports of constants.py are far from the ports the telemetry publishes.
ASSUME NodePortAssumption ==
  /\ NodePortMin \in Nat /\ NodePortMax \in Nat /\ NodePortMin <= NodePortMax
  /\ (JaegerPorts \cup {7123}) \cap (NodePortMin .. NodePortMax) = {}

VARIABLES
  cluster,    \* cluster.kubectl: it runs; .nodes: their number; .meshnet: its counts
  step,       \* where gen_config_files is, or how it ended
  todo,       \* what the exporter has still to write
  declared,   \* Compose: the networks of the file
  containers, \* the containers or pods written
  script,     \* commands.sh: <<"link", network>> and <<"entity", entity>> blocks
  links,      \* Kubernetes: the interfaces of the Meshnet topologies
  nodePorts,  \* Kubernetes: <<pod, port, node port>>
  nextPort    \* Kubernetes.node_port_next

files == <<todo, declared, containers, script, links, nodePorts, nextPort>>
evars == <<vars, cluster, step, files>>

Jaeger == "jaeger"
Collector == "ioam-collector"
CollectorPort == 7123
TelemetryNet == NoNetwork

----
(***************************************************************************)
(* The command line.                                                       *)
(***************************************************************************)
\* check_kubectl and check_meshnet_cni
ClusterReady ==
  /\ cluster.kubectl
  /\ cluster.nodes > 0
  /\ cluster.meshnet # <<>>
  /\ Range(cluster.meshnet) = {cluster.nodes}

\* Without the last test of check_arguments on CLT.
ArgumentsValidWithoutJaeger(g) ==
  /\ g.ioam \/ g.clt => g.ip = 6
  /\ g.kubernetes => ClusterReady

ArgumentsValid(g) ==
  /\ g.ioam \/ g.clt => g.ip = 6
  /\ g.clt => g.jaeger
  /\ g.kubernetes => ClusterReady

EInit ==
  /\ Init
  /\ cluster \in Clusters
  /\ step = "arguments"
  /\ todo = <<>> /\ script = <<>>
  /\ declared = {} /\ containers = {} /\ links = {} /\ nodePorts = {}
  /\ nextPort = NodePortMin

CheckArguments ==
  /\ step = "arguments"
  /\ step' = IF ArgumentsValid(cfg.args) THEN "build" ELSE "refused"
  /\ UNCHANGED <<vars, cluster, files>>

Build == step = "build" /\ Step /\ UNCHANGED <<cluster, step, files>>

\* write_entity_type
OfKind(c, kinds) == Sublist(c.order, {i \in DOMAIN c.order : c.kind[c.order[i]] \in kinds})

Telemetry(c) == (IF c.args.jaeger THEN <<Jaeger>> ELSE <<>>) \o (IF c.args.clt THEN <<Collector>> ELSE <<>>)

\* The containers before the networks.
ComposeOrderNetworksLast(c) ==
  Telemetry(c) \o OfKind(c, {"switch"}) \o OfKind(c, {"router"})
    \o OfKind(c, {"firewall"}) \o OfKind(c, EndHost) \o <<"networks">>

ComposeOrder(c) ==
  <<"networks">> \o Telemetry(c) \o OfKind(c, {"switch"}) \o OfKind(c, {"router"})
    \o OfKind(c, {"firewall"}) \o OfKind(c, EndHost)

K8sOrder(c) ==
  <<"meshnet">> \o OfKind(c, {"router"}) \o OfKind(c, EndHost) \o OfKind(c, {"firewall"}) \o Telemetry(c)

StartExport ==
  /\ step = "build" /\ phase = "done"
  /\ step' = "export"
  /\ todo' = IF cfg.args.kubernetes THEN K8sOrder(cfg) ELSE ComposeOrder(cfg)
  /\ UNCHANGED <<vars, cluster, declared, containers, script, links, nodePorts, nextPort>>

\* The exporter comes to the item.
Takes(item) == step = "export" /\ todo # <<>> /\ Head(todo) = item /\ todo' = Tail(todo)

----
(***************************************************************************)
(* Docker Compose.                                                         *)
(***************************************************************************)
OfLayer(l) == {k \in DOMAIN networks : networks[k].layer = l}

\* write_networks: layer 3 networks go into the file, layer 2 networks become commands.
WriteNetworks ==
  /\ ~cfg.args.kubernetes
  /\ Takes("networks")
  /\ declared' = OfLayer(3) \cup IF cfg.args.jaeger THEN {TelemetryNet} ELSE {}
  /\ script' = script \o Sublist([k \in DOMAIN networks |-> <<"link", k>>], OfLayer(2))
  /\ UNCHANGED <<vars, cluster, step, containers, links, nodePorts, nextPort>>

Container(n, nets, deps, ports) == [name |-> n, networks |-> nets, depends |-> deps, ports |-> ports]

\* export_compose of a Router, a Firewall or a Service, and, without networks and
\* dependencies, of a Switch; a Service waits for Jaeger and the collector too.
ContainerOf(e) ==
  IF IsSwitch(cfg, e) THEN Container(e, {}, {}, {})
  ELSE LET observed == IF cfg.kind[e] \in EndHost THEN Range(Telemetry(cfg)) ELSE {} IN
       Container(e,
         (Range(attached[e]) \cap OfLayer(3)) \cup IF Jaeger \in observed THEN {TelemetryNet} ELSE {},
         depends[e] \cup observed,
         Published(cfg, e))

WriteContainer ==
  /\ ~cfg.args.kubernetes
  /\ \E e \in Entities(cfg) :
       /\ Takes(e)
       /\ containers' = containers \cup {ContainerOf(e)}
       /\ script' = IF IsSwitch(cfg, e) THEN script ELSE Append(script, <<"entity", e>>)
  /\ UNCHANGED <<vars, cluster, step, declared, links, nodePorts, nextPort>>

WriteTelemetry ==
  /\ ~cfg.args.kubernetes
  /\ \/ /\ cfg.args.jaeger /\ Takes(Jaeger)
        /\ containers' = containers \cup {Container(Jaeger, {TelemetryNet}, {}, JaegerPorts)}
     \/ /\ cfg.args.clt /\ Takes(Collector)
        /\ containers' = containers \cup {Container(Collector, {TelemetryNet}, {Jaeger}, {})}
  /\ UNCHANGED <<vars, cluster, step, declared, script, links, nodePorts, nextPort>>

----
(***************************************************************************)
(* Kubernetes.                                                             *)
(***************************************************************************)
\* get_other_host
Peer(k, e) == CHOOSE p \in Range(networks[k].hops) : p # e

\* The position of the network, eth0 for the first.
EthFromZero(e, k) == (CHOOSE i \in DOMAIN attached[e] : attached[e][i] = k) - 1

\* get_network_pos, counted from 1: the interface after eth0.
Eth(e, k) == CHOOSE i \in DOMAIN attached[e] : attached[e][i] = k

\* The position of the network in the entity's own list for the peer too.
LinkLocalPosition(e, k) ==
  [pod |-> e, uid |-> k, peer |-> Peer(k, e), localIntf |-> Eth(e, k), peerIntf |-> Eth(e, k),
   ip |-> EntityIp(networks, k, e), peerIp |-> EntityIp(networks, k, Peer(k, e))]

Link(e, k) ==
  [pod |-> e, uid |-> k, peer |-> Peer(k, e), localIntf |-> Eth(e, k), peerIntf |-> Eth(Peer(k, e), k),
   ip |-> EntityIp(networks, k, e), peerIp |-> EntityIp(networks, k, Peer(k, e))]

GenerateMeshnet ==
  /\ cfg.args.kubernetes
  /\ Takes("meshnet")
  /\ links' = UNION {{Link(e, k) : k \in Range(attached[e])} : e \in Entities(cfg)}
  /\ UNCHANGED <<vars, cluster, step, declared, containers, script, nodePorts, nextPort>>

\* The host ports of a pod; a router or a firewall uses its node port.
HostPorts(n) ==
  IF n = Jaeger THEN JaegerPorts
  ELSE IF n = Collector THEN {CollectorPort}
  ELSE IF cfg.kind[n] \in EndHost THEN cfg.ports[n] ELSE {nextPort}

\* The ports of its service; that of Jaeger offers the UI only.
ServicePorts(n) == IF n = Jaeger THEN {UiPort} ELSE HostPorts(n)

\* One node port for a service, whatever its ports.
NextNodePortsOne(number) == nextPort + 1

\* next_node_port, once for each port of a service.
NextNodePorts(number) == nextPort + Len(number)

\* The orders a pod's ports may have.
Numberings(ports) ==
  {s \in [1 .. Cardinality(ports) -> ports] : \A i, j \in DOMAIN s : s[i] = s[j] => i = j}

PodNames == Entities(cfg) \cup {Jaeger, Collector}

ExportPod ==
  /\ cfg.args.kubernetes
  /\ \E n \in PodNames :
       /\ Takes(n)
       /\ nextPort + Cardinality(ServicePorts(n)) <= NodePortMax + 1
       /\ \E number \in Numberings(ServicePorts(n)) :
            /\ nodePorts' = nodePorts \cup {<<n, number[i], nextPort + i - 1>> : i \in DOMAIN number}
            /\ nextPort' = NextNodePorts(number)
       /\ containers' = containers \cup {Container(n, {}, {}, HostPorts(n))}
       /\ script' = IF n \in Entities(cfg) /\ cfg.kind[n] = "external"
                    THEN Append(script, <<"entity", n>>) ELSE script
  /\ UNCHANGED <<vars, cluster, step, declared, links>>

\* next_node_port raises, and nothing is made of what was written.
NodePortsExhausted ==
  /\ cfg.args.kubernetes
  /\ \E n \in PodNames :
       Takes(n) /\ nextPort + Cardinality(ServicePorts(n)) > NodePortMax + 1
  /\ step' = "failed"
  /\ UNCHANGED <<vars, cluster, declared, containers, script, links, nodePorts, nextPort>>

Written ==
  /\ step = "export" /\ todo = <<>>
  /\ step' = "written"
  /\ UNCHANGED <<vars, cluster, files>>

EStep ==
  \/ CheckArguments
  \/ Build
  \/ StartExport
  \/ WriteNetworks
  \/ WriteContainer
  \/ WriteTelemetry
  \/ GenerateMeshnet
  \/ ExportPod
  \/ NodePortsExhausted
  \/ Written

\* Nothing was written, or nothing that can be deployed.
Stopped == step \in {"refused", "failed"} \/ (step = "build" /\ phase \in {"rejected", "failed"})

----
(***************************************************************************)
(* Types and the coherence of the files.                                   *)
(***************************************************************************)
ETypeOK ==
  /\ step \in {"arguments", "build", "export", "written", "refused", "failed"}
  /\ Range(todo) \subseteq PodNames \cup {"networks", "meshnet"}
  /\ declared \subseteq {TelemetryNet} \cup OfLayer(3)
  /\ \A t \in containers : t.name \in PodNames /\ t.ports \subseteq Nat
  /\ \A k \in DOMAIN script : script[k] \in ({"link"} \X OfLayer(2)) \cup ({"entity"} \X Entities(cfg))
  /\ links \subseteq [ pod : Entities(cfg), uid : DOMAIN networks, peer : Entities(cfg),
                       localIntf : Nat \ {0}, peerIntf : Nat \ {0}, ip : Addresses, peerIp : Addresses ]
  /\ nodePorts \subseteq PodNames \X Nat \X Nat
  /\ nextPort \in NodePortMin .. NodePortMax + 1

\* No entity has a name the exporters use for something of their own: check_config does
\* not look, and two containers of one name are one entry of the file.  The last two are
\* those of the items above.
NamesFree(c) == Entities(c) \cap {Jaeger, Collector, "networks", "meshnet"} = {}

\* docker compose accepts the file: every network a container joins and every container it
\* waits for is in it, Jaeger's and the collector's included, which other flags add.
ComposeReferencesDefined ==
  step = "written" /\ ~cfg.args.kubernetes /\ NamesFree(cfg) =>
    \A t \in containers :
      t.networks \subseteq declared /\ t.depends \subseteq {u.name : u \in containers}

\* No two services ask for one node port, whatever the mix of routers, firewalls, services
\* with several ports and telemetry, and every node port is in the cluster's range.
NodePortsDistinct ==
  \A s, t \in nodePorts : s[3] \in NodePortMin .. NodePortMax /\ (s[3] = t[3] => s = t)

\* The two ends of a Meshnet link describe one link, no other link has its uid, and no pod
\* has two links on one interface: both pods count interfaces from the order in which
\* generate_networks attached the networks to each.
Mirrored(l, m) ==
  /\ l.uid = m.uid /\ l.pod = m.peer /\ l.peer = m.pod
  /\ l.localIntf = m.peerIntf /\ l.peerIntf = m.localIntf
  /\ l.ip = m.peerIp /\ l.peerIp = m.ip

MeshnetMirrored ==
  \A l \in links :
    /\ \E m \in links : Mirrored(l, m)
    /\ \A m \in links : m.uid = l.uid => m = l \/ Mirrored(l, m)
    /\ \A m \in links : m.pod = l.pod /\ m.localIntf = l.localIntf => m = l

\* No two containers or pods publish one host port.  check_unique_ports sees to it, except
\* for what it does not know: Jaeger's UI, that on Kubernetes a service publishes its
\* ports even with "expose: false", and that routers and firewalls publish node ports.
PortsForeseen(c) ==
  \A e \in Entities(c) :
    /\ UiPort \notin c.ports[e]
    /\ c.args.kubernetes => c.expose[e] /\ c.ports[e] \cap (NodePortMin .. NodePortMax) = {}

HostPortsDistinct ==
  PortsForeseen(cfg) => \A t, u \in containers : t # u => t.ports \cap u.ports = {}

----
(***************************************************************************)
(* The IOAM agent of a service with CLT.                                   *)
(***************************************************************************)
\* LAUNCH_IOAM_AGENT
AgentInterface == <<"eth", 0>>

\* get_interface_name with the position of a layer 3 network, local_remote on a layer 2
\* network, and the interfaces of the Meshnet links.
TopologyInterfaces(e) ==
  IF cfg.args.kubernetes THEN {<<"eth", l.localIntf>> : l \in {m \in links : m.pod = e}}
  ELSE {<<"eth", i - 1, e>> : i \in {j \in DOMAIN attached[e] : attached[e][j] \in OfLayer(3)}}
         \cup UNION {{<<e, p>> : p \in {v \in Entities(cfg) : HasLink(networks[k], e, v)
                                                               \/ HasLink(networks[k], v, e)}} : k \in OfLayer(2)}

\* "The IOAM agent is responsible for intercepting the IOAM data contained in the IPv6
\* extension headers" (docker-images/service/README.md:24): it listens on an interface
\* over which a service of the topology receives them.
AgentHearsTraces ==
  step = "written" /\ cfg.args.clt =>
    \A e \in Entities(cfg) :
      cfg.kind[e] = "service" /\ attached[e] # <<>> => AgentInterface \in TopologyInterfaces(e)
====
