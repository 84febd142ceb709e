# A verification of the micro-services topology generator

The generator reads a YAML description of services, external containers, routers,
firewalls and switches, checks it, and writes the Docker Compose or Kubernetes files of
that topology: networks, addresses, routes, host names, dependencies. The containers it
starts run a generic Go service that contacts other services before it answers, and
telemetry agents that collect what packets and requests met on their way.

This directory holds TLA+ models of the parts of that code that decide something, TLC
configurations that check them on small instances, and TLAPS proofs of what can be
proved for every instance. `PROJECT.json` lists the components, the runs, the source lines
behind each definition, and the hazards the properties are for.

    tlc -workers 2 -config build.cfg MCForwarding       # a run
    tlapm ConfigParserProofs.tla                        # the proofs

## 1. The system

| Component | Code | State | Operations |
|---|---|---|---|
| Configuration checks | `generator/config_parser.py` | the loaded YAML, never changed | `check_config`: common fields, fields per type, connectivity, cycles, ports |
| Architecture generation | `generator/architecture.py`, `network.py`, `switch.py`, `entities.py` | networks and their interfaces; per entity the attached networks, commands, extra hosts, dependencies, end-to-end connections | `generate_architecture`: five loops over sets of connections, then the options |
| Export | `compose_exporter.py`, `k8s_exporter.py`, `services.py`, `router.py`, `firewall.py`, `switch.py`, `kubernetes.py` | the node port counter; `commands` sets | writes compose and Kubernetes files and `commands.sh` |
| The deployment | `Makefile`, `commands.sh`, the arguments of the pods, the restart policies of the templates | interfaces, addresses, routing tables, firewall chains | start, configure, restart |
| The running network | what the deployment configured | packets | Linux forwards packets |
| Service | `docker-images/service/dummy-service` | requests being handled and made, timers, contexts | handle, contact, time out, shut down |
| CLT agent | `clt_agent.go`, `client_side.go` | sockets marked in the kernel with a trace | enable at dial, disable after the response |
| IOAM agent and collector | `ioam-agent.cpp`, `ioam-collector.go` | spans being reported | parse the trace of a packet, report it over gRPC, annotate spans |
| Driver | `generator.py`, `exporter.py`, `utils.py` | environment variables | parse arguments, call the above in order |

The configuration is the only thing the parts of the generator share: `check_config` accepts
it, `Architecture` builds from it without checking again, the exporters write it out, and the
Go service reads *the same file* with rules of its own (`readConfig`). Most of what can go
wrong lies in those hand-overs: what one part accepts, the next takes for granted.

What is hard here, and where a unit test hardly gets:

- *Unordered sets.* `e2e_conns` and `commands` are Python sets of strings, iterated in an
  order that differs from run to run. Networks, interface numbers and routes depend on it.
- *Every connection is parsed twice*, once from each of its end hosts, by loops that must
  create each network once.
- *Names as keys.* A network exists "already" when its name does; a switch has one name
  whatever passes through it; joined names can coincide.
- *Look-ahead over switches*, in three loops of slightly different shape.
- *Competing routes*: two connections may install routes for one subnet; the first wins.
- *Rules of a firewall* that name entities, while iptables compares addresses, and that pass
  through the same unordered set as the routes.
- *Starting*: Compose waits for dependencies and runs one script, pods start in any order and
  configure themselves after 20 s; either may restart when it is half configured.
- *Numbers counted twice*: both ends of a Meshnet link count interfaces, one counter gives
  every service its node port, three places decide which ports of the host are taken.
- *Two cycle-free graphs*: the cycle check leaves out switches, `depends_on` is another
  graph again; both must be free of circles.
- *Positions instead of names*: an IOAM trace is written by kernels and read by an agent that
  find every field by the widths of the bits before it, from the end to the beginning.
- *Descriptors as names of sockets*, reused while concurrent handlers still remember them.
- *Timeouts along a chain of services*, abandoned work, cancellation that is propagated
  only with tracing, services that are interrupted or killed half-way.

## 2. The modules

| Module | Models | Kind |
|---|---|---|
| `Topology` | a configuration and its command line, `extract_connections`, the graph, the five checks | operators |
| `TopologyProofs` | lemmas about them: walks, types, acyclic dependencies | proofs |
| `Lists` | the elements of a list at some positions: a loop with an `if` in it, a comprehension | operators |
| `ListsProofs` | lemmas about them, and that some numbers have a smallest one | proofs |
| `ConfigParser` | `check_config` as a sequence of stages | state machine, EXTENDS `Topology` |
| `ConfigParserProofs` | its theorems | proofs |
| `Architecture` | `generate_architecture` | state machine, EXTENDS `Topology` |
| `ArchitectureProofs` | its theorems about dependencies, interface numbers, networks, routes, hosts, vlans and types | proofs, EXTENDS `TopologyProofs`, `ListsProofs` |
| `Forwarding` | a request and its response over what was generated | composition, EXTENDS `Architecture` |
| `ForwardingProofs` | its theorems | proofs, EXTENDS `ArchitectureProofs` |
| `Export` | `gen_config_files`: the command line, the architecture, the two exporters | state machine, EXTENDS `Architecture`, `Lists` |
| `Deployment` | what `make start` and `make k8s_start` do with what was written | composition, EXTENDS `Export` |
| `DeploymentProofs` | theorems about both | proofs, EXTENDS `ArchitectureProofs` |
| `MeshPromise` | what somebody who requests a URL may see | abstract specification |
| `Mesh` | services handling and making requests | state machine, implements `MeshPromise` |
| `MeshProofs` | its theorems | proofs, EXTENDS `ListsProofs` |
| `IoamTrace` | the IOAM trace: sized by the generator, written by kernels, parsed by the agent, shown by the collector | operators, EXTENDS `Lists` |
| `Telemetry` | requests with CLT, their packets, the agent and the collector | state machine, EXTENDS `IoamTrace` |
| `TelemetryProofs` | its theorems | proofs, EXTENDS `ListsProofs` |
| `MCConfigParser`, `MCArchitecture`, `MCForwarding`, `MCDeployment`, `MCMesh`, `MCTelemetry` | constants for TLC | instances |

**Topology.** A configuration is a record: kinds, neighbours, the paths of every endpoint,
ports, vlans, the rules of a firewall, the options of the connections (for each field what its
check makes of the value), the command line, and for each entity one verdict of the remaining
checks of single fields (`form`). `ConnectionVerdict` looks at the last field of a connection
only, because the code's calls are behind its loop.
A path `"r1->db"` is a sequence. `ExtractConnections` keeps the early return of the code: a
service contributes the paths of its *first* endpoint with connections, an external those of
a field it does not have. `Acyclic` stands for `networkx.find_cycle`: every nonempty set of
nodes has one without a successor in it, which needs no recursion and suits the proofs.

**ConfigParser.** `stage` is the check that is next, or `accepted`, `rejected` (False) or
`raised`. One action per check, in the order of the code.

**Architecture.** `phase` is the function `generate_architecture` is in. `done` holds the
<<entity, connection>> pairs its loop has taken: entities in the order of the YAML mapping,
the connections of one entity in any order, which is how the unordered sets are modelled.
`generate_networks` is three actions (`TakeConnection`, `AddL3`, `AddL2`) because its inner
loop is a state machine over a connection; a network is created only when its name is new.
`IpRoutePathConnection` adds the route commands of one connection or fails, and so do
`ServiceHosts` and `FirewallHosts` for `/etc/hosts`; a failed lookup is the RuntimeError of the
code. `AdditionalCmds` fails when a connection's name contains the name of an option, because
the code looks for options in strings. Python's `dict` assignment is `Assign`, so a later
connection overwrites an earlier one.

**Forwarding** (code outside the repository: Linux). Of several commands for one subnet the
first to run wins; which one is chosen when a packet first needs it, and remembered, so every
order of `commands.sh` is covered without enumerating them up front. The source address of the
request is that of the interface it leaves by, and the response is sent to it.

**Export.** `step` is where `gen_config_files` is, `todo` what the exporter has still to write.
`CheckArguments` is `check_arguments` with the answers of the cluster (`cluster`), `Build` a step
of `Architecture`, and each item of `todo` is one action: the networks, a container, a telemetry
container, the Meshnet links, a pod with its service. What is kept of a file is what others
refer to: networks declared and joined, dependencies, host ports, node ports, the interfaces of
Meshnet links, and `script`, the order of the blocks of `commands.sh`. The commands of an entity
are the set `Commands`, computed from the routes and rules when its block or pod is started.
Docker's telemetry network is network 0, which no entity's list holds.

**Deployment** (Docker, kubectl, Meshnet and Linux are outside the repository and modelled by how
the Makefile, the templates and the generated commands use them). On Compose a container
starts when those it depends on have started; then `commands.sh` runs block after block, each
command to its end. On Kubernetes pods start in any order, run their commands at once, in any
order, and `commands.sh` runs beside them, for externals only. A veth pair, an address, a port
of a bridge, a route and a rule are elements of sets and of chains; `ip route add` refuses a
gateway that is not connected and a second route for a subnet, iptables a name it does not
know and a port without a protocol. `RestartContainer` gives a container a new namespace (its
Docker networks come back, the rest does not, nor the other ends of its veth pairs). A switch does
not survive it: its command adds the bridge again, which its file system still has, so the `&&` chain
stops and the container fails at every start (`looping`); a block of `commands.sh` that links it
afterwards leaves its neighbour with an end that leads nowhere, or with none. `RestartPod` keeps the
namespace and runs the commands again. `spoiled` remembers whom a restart after the beginning of
`commands.sh` touched, which switch restarted at any time, with the neighbours that were or are
linked to it, whose `kubectl exec` met no pod, and which pod's 20 s were over before its links were
there. Nothing in the code repairs these but a restart of a pod, which runs its commands once more;
the properties say what holds for all others. That the second network over one pair of switches
finds the names taken and changes nothing is an assumption about Linux and Open vSwitch: `LinkBlock`
adds to sets.

**Mesh.** A request is known by its place in the tree of requests it belongs to; both of its
sides are in one record, each moved by the side it belongs to. `Accept` to `ContactedAll` are
the handler, `Receive` to `Cancelled` the client, `Interrupt`, `ShutDown`, `Die`, `Restart` the
process. Time is kept as ages that stop where no timeout looks at them, so that the state space
is finite without a bound on time. `MeshPromise` is the abstract view: a request is pending,
then answered with a status its entrypoint allows, or broken.

**IoamTrace.** The data of a trace is a sequence of 4-octet words, each named by who wrote it for
which bit. `Fill` is the kernel, outside the repository: the entity at hand writes in front of
those before it, or sets the overflow flag. `ParseIoamTrace` and `ParseNodeData` are the agent's
loops: its widths (`Width`), the field each bit is stored in (`Setter`), the nodes it drops.
`ParseNode` with `Getter` is the collector. The widths of the generator (`SizeIoamTrace`), the
kernel (`FieldLen`) and the agent (`Width`) are three definitions, because the code has three:
that they agree is what is checked. Bits 5 and 10 are read into an array that is then used as a
string without an end, so their value is what was written or garbled, as it happens.

**Telemetry.** A handler dials (the handshake goes out without ids), enables CLT on the
descriptor, sends, reads the body and disables CLT *by number*; each call may fail. Meanwhile the
server may close the connection and another handler may get the number (`Close`, `Dial`). Packets
get lost and are sent again. The agent captures a packet on eth0 before or after its own kernel
has written into it, and reports at most once. Of the spans the last one is kept, each being
checked when it is made; `made` remembers for which packets there was one.

## 3. The runs

Every passing run finishes in about a minute with two workers; five pass, seven end in the
violation a finding describes.

| Run | Configurations | What it shows |
|---|---|---|
| `config_check` | two services, two intermediaries: every combination of kinds, neighbour lists and a pool of good, looping, dangling and undefined paths; then fields, options, outputs, ports, `expose` | an accepted configuration has only simple walks and publishes no port twice |
| `build` | three end hosts, two routers, a firewall; two connections of one service and one of another; two orders of the file; one to three switches in line, vlans, names with underscores, a name with an option in it; a request over each, with every winner among competing routes | the generation ends, fails only for such names or a shared switch, and its networks, interface numbers, gateways, hosts, tags and dependencies agree; no forwarding loop; nothing dropped and every request answered, unless two entities are joined twice |
| `deploy` | a firewall with seven lists of rules, a router to a service and to an external, two switches one of which two networks share; every combination of flags on Compose, four on Kubernetes; a cluster with and without Meshnet everywhere; five node ports; one restart | the files refer to what they define and ports are distinct; links meet, routes are in place, firewalls decide as configured; every start settles |
| `mesh` | three services in a chain with a fork, an endpoint with three connections, one that contacts an external; with and without tracing; one interrupt or kill | requests are made one after another, late answers cost nobody in the mesh, everything settles, the requester sees what `MeshPromise` says |
| `telemetry` | every field the generator can select, alone, together, all; a route as long as the path, shorter, longer; a refused encapsulation; one request, and two at once on two descriptors with up to three packets each | spans hang under their request, once per packet, and show the entities in path order with the values they wrote |
| `every_path` | those of `config_check` | findings 1 and 2: paths nobody checked |
| `switch_shared` | switches, as in `build` | finding 3: one segment per switch |
| `path_followed` | as `build`, plain names, no vlans | findings 4 and 5: the path of another connection |
| `options_ignored` | a rate on a connection, valid and not | findings 6 and 7: options without commands |
| `agent_interface` | a service, an external and CLT | finding 8: eth0 |
| `firewall_order` | two overlapping rules | finding 9: rules in a set |
| `mesh_errors` | those of `mesh` | finding 10: externals cannot be contacted |

*Why the bounds are enough.* The loops of the generator treat connections pairwise: through
shared names, shared networks, or shared keys of a dictionary. Two connections of one service
and one of another cover two that share a source, an end, a link, an intermediary, and one
that is met from both ends; a path of four hops has room for a switch between routers,
routers between switches, and three switches in line, the longest shape that one vlan field
per interface treats differently. The look-ups are by first match, so a third connection adds
no new case. In `config_check` two intermediaries suffice for a path that returns to itself,
and the pool has one that does. In `mesh` the depth three makes a request whose requester's
requester gave up, and the endpoint with three connections outlasts the write timeout with
requests that each meet theirs; only the order of the two timeouts matters (5 s and 10 s), so
they are 1 and 2. `MaxStops` is 1: one stop already meets every state of every handler.

In `deploy` the kinds of link do not act on each other (a container's commands touch its own
namespace and its veth peers), so one kind at a time is enough, except for two networks over one
pair of switches, which do and are there. The rules are none, overlapping with one action, in both
directions, with names and without, and such as iptables refuses. `NodePortMin` to
`NodePortMax` are five instead of 2768 so that the limit is met; one restart meets every state of
a start. With two the properties hold as well (362,033 states); the run keeps to one for its time. Two answers of `kubectl` are Meshnet on all nodes and on all but one.

In `telemetry` what a span shows depends on the setup only, and what two handlers do to each other
not on the setup, so only one setup has two of them. Two handlers are all that is needed to reuse a
number, and three packets are a handshake, a request and a retransmission. Requests and descriptors
are symmetric: no definition tells them apart, and no liveness is checked there.

*Deadlock* is checked in all runs but `telemetry`, where the requests are over one day and the
service goes on waiting. Elsewhere, where a program is over, a stuttering action says so
(`Ended`, `Terminated`, `Over`, `Quiet`), and only there.

*Fairness.* `Architecture` is one thread that runs until it returns: weak fairness of `Step`.
`Forwarding` adds the kernel, which forwards what it holds; packet loss is not modelled, the
question is whether the tables are right. `Deployment` has weak fairness of `DStep`: the
generator returns, Docker and the kubelet start what can be started, and scripts go on. Restarts
are not part of it: nothing has to crash. In `Mesh` handlers and clients run on (the Go
scheduler); nobody has to ask, to give up, to stop or restart a service, and time need not
pass: what settles does so without it. `Telemetry` states no liveness, hence no fairness.

## 4. The properties

`ConfigParser`: `AcceptedPathsWalkable` (a path meets no entity twice, which no single check
establishes: it follows from the cycle check on a graph that leaves out the neighbours of
switches), `AcceptedPortsDistinct`.

`Architecture`: `BuildSucceeds` (no lookup of five loops fails after the checks, for every
order of the sets, when the configuration is `Buildable`), `NetworksMatchPaths` (one network
per segment, none besides), `AttachedInOrder` (the interface number is a position in
`attached_networks`), `GatewaysOnLink` (`ip route add` refuses a gateway that is not on-link),
`HostsReachable` (the address in `/etc/hosts` has a route, although different loops make the
two), `DependenciesStartable` (no circle in `depends_on`), `FirstPortsTagged`, `Terminates`.

`Forwarding`: `NeverDropped`, `NoForwardingLoop`, `RequestsAnswered`, for every mix of routes.
`NoForwardingLoop` speaks of configurations that are `Buildable`: an attempt to prove it for all that
are built showed why it must. Where switches are shared and every look-up happens to find a
network all the same, one network may be the last of a connection and the first of another that
goes elsewhere, and routes for it then lead both ways.

`Export`: `ComposeReferencesDefined` (one set of flags writes a container, another refers to it),
`NodePortsDistinct`, `MeshnetMirrored` (two pods number the ends of one link, each from its own
list), `HostPortsDistinct` (the check of ports and the two exporters agree on what is taken, for
the cases `PortsForeseen` names).

`Deployment`: `RoutesInPlace` and `SegmentsJoined` (after any start, with a restart anywhere, all
entities that were not spoiled have the routes and the links they were given, and a pod that
restarts gets those it had missed; what the spoiled ones lose is outside these properties), `VerdictAsConfigured`
(rules by name in the file and by address in the chain decide alike, for requests and
responses of every connection, when the order of the rules does not matter), `Settles`.

`Mesh`: `OneActiveBranch`, `LateAnswersUnawaited`, `SuccessContactsAll`, `EverythingSettles`,
and `Promised`, the refinement of `MeshPromise`.

`Telemetry`: `SpansOfTheirRequest`, `OneSpanPerPacket`, `DataCarriesIds` (the only way to lose ids
is a late `clt_disable`), `TextsInPathOrder`, `KeptFieldsShown`, `RoutersShown`.

Each has a mutant of the code in the modules (`CreateAlways`, `GatewayAdjacent`, `PortsOneEnd`, `FinishShort`, ...),
a definition that the state machine does not use, under which TLC finds it violated.

## 5. What is proved

Every invariant of the passing runs, and the refinement of `MeshPromise`, is a theorem. The provers
cannot instantiate an induction rule; where an argument goes by induction (over the path of a packet,
the rules of a chain, the items of an export) it is the invariant of a state machine, or takes the
smallest counterexample: a set of numbers has a smallest one (`SmallestExists`). The lists that a loop
filters are sublists at a set of positions (`Lists`), whose elements and order `SublistFacts` gives.

`ConfigParserProofs`, for any set of configurations, of any size, that satisfy `IsConfig`:

- `TypeCorrect`: `Spec => []TypeOK`.
- `AcceptedPortsDistinctTheorem`, `AcceptedPathsWalkableTheorem`: the two other invariants of the
  run `config_check`.

The properties are not inductive: they speak of `accepted` only, and say nothing of the
stages before it. The inductive invariant `Progress` says which checks are behind each stage;
it gives `CheckConfig(cfg)` for an accepted configuration. The rest is about configurations:
`HopsInGraph` (each step of a connection is an edge of the graph, switches included, because
the edges of a path are added by its source), and `WalksAreSimple` (in an acyclic graph a walk
that met a node twice would contain a set without an exit), both in `TopologyProofs`. The only
assumptions are `ConfigsAssumption`, the shape of what the YAML loader returns, and
`PortsAssumption`.

`ArchitectureProofs`, for any configurations and names: `DependenciesStartableTheorem` by the
invariant `CheckedInv` (behind the first phase the configuration is one `CheckConfig`
accepts; from the phase of the options on, `depends` is `DependsOn`), from which
`DependenciesAcyclic` in `TopologyProofs` draws the absence of circles: a circle of dependencies,
with the hops in between, would be a set of nodes of the checked graph without an exit.
`AttachedInOrderTheorem` by the invariant `NumberedInv`, which adds the types of `networks` and
`attached` that appending needs, so that a new network gets a position no list holds yet. Neither
assumes anything of the order of the sets.

Its other theorems, for any configurations and names, are the remaining invariants of the run `build`
about `Architecture`, each by an invariant that adds to the one before it:

- `BuiltInv` ties the loop of `generate_networks` to its result. A network is made for a segment of
  some connection and has its name (`NetworksOf`); names are unique; what is behind the loop (a
  connection taken before, or a segment of this one before `pos`) has a network of its name. It gives
  `NetworksMatchPathsTheorem` and `BuildSucceedsTheorem`: after the loop every segment of a buildable
  configuration has its network, so every look-up of the loops that follow finds one.
- `RoutedInv`: the commands of the connections taken so far are there, and every route has its
  gateway on a network of its owner (`GatewaysOnLinkTheorem`, for which `GatewayOnLink` follows the
  look-ahead over switches in both directions).
- `HostsInv`: a host entry of an end comes from a connection (`Entries`), there is one per entity and
  name, and the connections taken so far are introduced (`HostsReachableTheorem`: overwriting an entry
  puts another one in its place that is right as well).
- `ArchitectureTypeOK` needs all of them, since the type of a route or an entry says that the network it
  numbers exists, and `DependsInv`.
- `FirstPortsTaggedTheorem` has a hypothesis, `NoOwnVlan`: no switch lists a vlan for itself. Nothing
  checks that; a switch that does gets that vlan on its own interfaces, because the code looks up the
  interface's entity first. The configurations of the runs have none.

`ForwardingProofs`, for any configurations and whichever commands win, states every invariant of
`Forwarding`. `ForwardingFollowsArchitecture` (`FwdSpec => Spec`) brings in what was proved of the
generator; `OriginInv` adds that every command was made for a connection whose look-ups succeeded, and
`CommandsGo` says what such a command does: it leads from one hop of the connection to another,
forward for the network of its last link, back for that of its first.

- `ForwardingTypeOK` by `PacketInv`: addresses in packets are owned, and a request is for an address of
  its end on the last network of a connection there. The entry of a connection the other way round,
  which `modify_etc_hosts` might have left, is excluded by the order below.
- `NeverDroppedTheorem` by `ReachInv`: a packet is on its destination network or on a hop of a
  connection that ends or starts there, and so is the end of the connection for the address the
  request got when it left. Without entities joined twice (`JoinedTwice`) every segment has a network
  (`SegmentNetwork`), which makes the first gateway one on the first network (`FirstGateway`).
- `NoForwardingLoopTheorem` by `TrailInv`: the entities a packet met are in one line. The connections of
  an accepted configuration agree on an order (`ConnectionsOrdered`, from the acyclic graph: `Before` is
  the least set closed under links, which needs no recursion). For a network on which some connection
  ends, the routes that are needed go forward, because a connection that starts with such a network
  is that link and no more (`StartIsEnd`); for others they go back.

`DeploymentProofs`, for `DSpec`, that is through export, deployment and restarts:
`DeploymentFollowsArchitecture` (`DSpec => Spec`), which brings in what was proved of the generator, and
for what is exported

- `NodePortsDistinctTheorem`, for any `NodePortMin` and `NodePortMax`, by `PortsBehind`: every port
  given is below `nextPort`; `PortsAssumption` makes the `Cardinality` of a pod's ports a number.
- `MeshnetMirroredTheorem` by `LinksInv` (the links are those of `AllLinks`) and
  `AttachedInOrderTheorem`: a position in a list without repetitions is one interface.
- `HostPortsDistinctTheorem` by `ContainersInv`, which says where the host ports of each container come
  from: its own, which `CheckConfig` compared, a node port, or one of the telemetry.
  `NodePortAssumption` says that the range of node ports is not empty and apart from the ports of Jaeger
  and of the collector, as it is in `constants.py` (30000 to 32767).
- `ComposeReferencesDefinedTheorem` by `ProgressInv`, item by item of the file: it is still in `todo`, or
  what it makes is there. `FilesInv` has the types this needs, and `FlagsInv` the flags: they passed
  `check_arguments`, so a container of the telemetry is there only with the one it waits for. It speaks of
  `NamesFree` configurations: nothing checks that no entity is called like a container of the telemetry,
  and one that is would take its place in the file.

and for the deployment of it

- `DeploymentTypeOK` by `DeployInv`: nothing runs before the files are written, and whatever is up,
  connected or given refers to what they hold.
- `RoutesInPlaceTheorem` and `SegmentsJoinedTheorem` by `RunInv`, in named parts. It says at every moment
  what the properties say at the end, less what is still to come. On Compose a block of `commands.sh` that
  ran left its veth pair, unless both its ends are spoiled (`VethsMade`), its addresses (`AddressesMade`) and its bridge ports
  (`PortsBridged`), a container that is up is on its networks (`OnNetworks`), and no block runs before all
  are up (`StartedFirst`); on Kubernetes two pods that are up share their link (`LinksMade`). A route of an
  entity that has begun is in its table, or among its pending commands, or the entity is spoiled
  (`RoutesTracked`), because its gateway is on a network the entity was already given
  (`GatewaysOnLinkTheorem`). `ProgressInv` gives that every block is in the script, the veth pairs first.
  `SegmentsJoined` needs a `Buildable` configuration, which the attempt to prove it showed: a shared switch
  may let the look-ups succeed without a link of the connection.
- `VerdictAsConfiguredTheorem` by `RulesTracked`, the like for the rules of a firewall (each is in the
  chain or pending, and nothing else is in the chain, however often a pod adds its rules), and by
  `FirewallsInv` of the generator: the host entries of a firewall come from connections that cross it,
  and it has one for every other hop of each. Where its rules can be used (`RulesUsable`) the address an
  end of such a connection has on it is then the firewall's address for that end and for nobody else
  (`NamesOfEnds`), so a rule by name matches like its address does (`MatchesSame`). The rule that decides
  is the smallest position of a match (`FirstHit`); for rules whose order does not matter it acts as the
  first match of the configuration does.

TLC checked `RunInv` and `FirewallsInv` as invariants of the run `deploy` before they were proved.

`MeshProofs`, for any services, endpoints and timeouts with the request timeout below the
write timeout (`TimeoutsAssumption`, `EndpointsAssumption`):

- `MeshTypeCorrect`, and `LateAnswersTheorem` by the invariant that a request somebody waits for was
  read no earlier than it was sent.
- `SuccessContactsAllTheorem` by `TreeInv`: every request is `Sound`, that is, what its handler has
  contacted so far is what the requests below it say was answered, and the rest was not made.
- `OneActiveBranchTheorem` from `TreeInv`: two handlers somebody waits for have a first request where
  they part, and the handler above it would be waiting for both.
- `PromiseTheorem` (`Spec => Promised`): `Mesh` implements `MeshPromise`. A step on the root request is a
  step of the promise, any other a stutter; the status it may be told is one its entrypoint allows.

`TelemetryProofs`, for any requests, descriptors, setups and number of packets (assumed: nobody is
no request, `NoFd` is no descriptor, a connection has a packet): `TelemetryTypeCorrect`,
`SpansOfTheirRequestTheorem`, `OneSpanPerPacketTheorem`, `DataCarriesIdsTheorem`. Their invariant
has three parts. `ClientInv`: a request between dialling and reading the body owns the descriptor it
knows, so nobody else's ids get on its socket. `PacketInv`: what was read from a packet is about a
packet that is off the wire and has no span. `MarkInv`: a connection whose ids are gone has a
descriptor that a request already over had before; it needs `ClientInv` because closing a
connection or enabling CLT must not touch that of another.

What a span says is proved from `ContentInv` (whatever was read is the trace of a packet whose encap
was accepted, and a span shows the texts of what was read) and from what `IoamTrace` computes, for any
type the generator can select, any path and any room:

- `Written`: after n entities the k-th that found room is the k-th node from the end, and the trace has
  overflowed exactly if one found none (`FillWrites`, `TraceIsWritten`).
- `FieldsInOrder` and `NodeDataAt`: the words before a bit are as many for the kernel as for the agent,
  and no field overlaps the next one. `NodeParsed` says of each field of a message which bit the agent
  takes it from; bits 1 and 9 share one, in which the later wins.
- `TextsAre`: text k is that of the k-th entity with something to tell (`NodesListed`, `ValueOrIdle`).

`TextsInPathOrderTheorem` and `KeptFieldsShownTheorem` are two readings of `TextsAre`.
`RoutersShownTheorem` adds `SizeIsLength`: without opaque state the generator asks for the words the
kernel needs. `SetupsAssumption` gives the generator's types and paths of two entities or more.

*Only model-checked:* all liveness (`Terminates`, `RequestsAnswered`, `Settles`, `EverythingSettles`),
which is out of the prover's reach, and the findings, which are counterexamples.

## 6. Findings

Seven runs end in a violation of something a document or a comment of the repository says:

1. *Paths nobody checked* (`every_path`). `extract_connections` returns at the first endpoint of
   a service that has connections. Later endpoints are neither checked nor built.
2. *Connections of externals* (`every_path`). They are mandatory and documented, but the code
   reads `neighbors`; nothing is generated for them.
3. *Switches* (`switch_shared`). A switch carries one segment; a second, different one raises.
4. *Paths of requests* (`path_followed`). Routes are per destination subnet, and connections
   over the same last link compete for one.
5. *Two networks between two entities* (`path_followed`, `JoinedTwice`). The gateway behind a
   switch is looked up in the wrong network.
6. *Options of connections* (`options_ignored`). They are looked for in the path, a string, and
   never found: no impairment and no timer is ever generated.
7. *Checks of options* (`options_ignored`). Only the last field of a connection is checked.
8. *The agent's interface* (`agent_interface`). It listens on eth0, which is the telemetry
   network on Compose and the cluster's on Kubernetes, not the topology.
9. *Rules of firewalls* (`firewall_order`). They go through a set and are installed in any order.
10. *Externals as destinations* (`mesh_errors`). The service deletes them from its configuration.

Properties are stated around these, and around what follows, which the models contain too:

- The list of telemetry ports has 1686 where Jaeger publishes 16686 (`UiPort`). `check_unique_ports`
  passes over what is not exposed, but on Kubernetes every port is a port of the host, and node ports
  are host ports there, too. `PortsForeseen` leaves all this out.
- One vlan per interface stands for both ends of a link: with three switches in line a port gets
  the tag of another switch (`FirstPortsTagged` speaks of one and two).
- A restart on Compose loses layer 2 links, routes and rules of the container and its veth
  peers, and nothing runs `commands.sh` again (`spoiled`). A switch that restarts never runs again
  (`looping`).
- A pod whose peer starts more than 20 s later gets no routes unless it is restarted (`LinksReady`).
- The commands of an external on Kubernetes are lost if its pod does not run yet (`EntityBlock`).

The model of telemetry contains losses that the documents do not deny. The properties are stated
around them, and they are worth knowing:

- Bit 9 (wide interface ids): the agent stores them over those of bit 1 (`ioam-agent.cpp:194`), the
  collector looks for them elsewhere and shows 0 (`Kept`). Bits 5 and 10 may be shown with octets
  that nobody wrote.
- Bit 22 (opaque state): the size of the trace does not include its word, so the last entities of a
  path find no room (`Room`).
- Bit 6 alone: an entity with an empty queue makes an empty message, which the agent drops
  (`Showable`); the collector numbers those behind it one less.
- A late `clt_disable` may switch off the CLT of another request (`DataCarriesIds`).
- A trace of more than 244 octets makes `ip route add` fail, and with it the connection
  (`EncapAccepted`).

## 7. What is not modelled

- The text of the generated files, logging, colours, the drawing of the graph: pure output.
- The values of addresses, subnets, MAC addresses and IOAM ids: counters with no reuse; an
  address is a network and a rank.
- The checks of mandatory fields: one verdict per entity, since they do not interact. The patterns
  of rates, times and percentages: good, bad, or raising.
- The text of the tc commands and timers: no configuration reaches it with a field that exists;
  its failure is modelled.
- Custom rules and extensions of a firewall, which are text handed to iptables, and source ports,
  which are treated as destination ports are.
- The commands that need no other entity (dropping default routes and redirects, interface
  scripts, IOAM namespaces), and how long the 20 s of a pod are.
- The failure of a pod's program while its commands run: restarts happen at any moment anyway.
- An explicit empty list of connections, which ends `extract_connections` early like any other.
- The certificate, environment and start-up checks of the service, response sizes, TLS.
- The OpenTelemetry set-up and the export of spans to Jaeger: library calls.
- Options other than IOAM in a packet. The agent's loop over them reads four octets past the last
  option; a client's port pair does not look like an option.
- A dial that ends after its request timed out: the connection then has ids but no packets.
- A failing query for the netlink family, which ends the service.

## 8. What could come next

1. *A promise of the deployment*: the abstract topology (segments and verdicts) that
   `Deployment` implements once it has settled, as a refinement. Its safety part is what
   `RoutesInPlaceTheorem`, `SegmentsJoinedTheorem` and `VerdictAsConfiguredTheorem` say together.
2. *Packets over what is deployed*: `Forwarding` takes the routes from the generator; over the table of
   a settled `Deployment` it would say what a spoiled entity costs the others.
3. *The loop of the agent over options* other than IOAM in a packet.
