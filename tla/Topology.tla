---- MODULE Topology ----
(***************************************************************************)
(* A configuration and what generator/config_parser.py computes from it.   *)
(*                                                                         *)
(* A configuration is what yaml.load returns, with the data the checks do  *)
(* not tell apart left out.  It is a record c with                         *)
(*   c.order      the entities in the order of the YAML mapping;           *)
(*   c.kind       the "type" of each entity;                               *)
(*   c.form       the verdict of the field checks of one entity: "ok",     *)
(*                "missing" (a mandatory field is absent or a connection   *)
(*                has an unknown one) or "badPolicy" (a firewall whose     *)
(*                default is neither accept nor drop, or that has a custom *)
(*                rule with other fields);                                 *)
(*   c.neighbors  the set of names in the "neighbors" list of a router,    *)
(*                firewall or switch;                                      *)
(*   c.endpoints  for a service, the list of its endpoints, each the set   *)
(*                of the paths of its "connections" ({} when omitted);     *)
(*                for an external, its "connections" as one such set;      *)
(*   c.ports      the ports of a service or external;                      *)
(*   c.expose     the "expose" field (TRUE when omitted);                  *)
(*   c.vlan       for a switch, the "vlan" of each neighbour, 0 when there *)
(*                is none (the code tests vlan ids for truth);             *)
(*   c.options    the connections with fields of their own (mtu, rate,     *)
(*                timers...), in their order: the path, and for each field *)
(*                what its check makes of the value;                       *)
(*   c.rules      for a firewall, its rules in their order;                *)
(*   c.default    for a firewall, the verdict when no rule matches;        *)
(*   c.args       the command line the generator is given with the file.   *)
(* A path "r1->r2->db" is the sequence <<r1, r2, db>>; a direct connection *)
(* "db" is the one-element sequence <<db>>.                                *)
(***************************************************************************)
EXTENDS Integers, FiniteSets, Sequences, Functions

CONSTANTS
  Names,      \* every name a configuration may mention, defined in it or not
  Ports,      \* the port numbers configurations use
  OvsLoaded,  \* whether the openvswitch kernel module is loaded on the host
  Configs     \* the configurations that may be given to the generator

ASSUME PortsAssumption == IsFiniteSet(Ports) /\ Ports \subseteq Nat

Kinds == {"service", "external", "router", "firewall", "switch"}
Intermediary == {"router", "firewall", "switch"}
EndHost == {"service", "external"}

\* constants.py, "Ports used by telemetry".
TelemetryPorts == {1686, 14268, 4317, 4318, 7123}

\* The ports the Jaeger container publishes: templates/compose/jaeger-service.yaml.
JaegerPorts == {16686, 14268, 4317, 4318}
UiPort == 16686

\* check_arguments: the flags that change what is generated, apart from HTTPS.
Arguments == [ip : {4, 6}, kubernetes : BOOLEAN, jaeger : BOOLEAN, ioam : BOOLEAN, clt : BOOLEAN]

\* parse_rule: an absent field is "", an absent port or "*" is 0.  "sport" and
\* "extension" are treated as "dport" is; they and custom rules are left out.
Rules == [source : Names \cup {""}, destination : Names \cup {""}, dport : Ports \cup {0},
          protocol : {"tcp", ""}, action : {"accept", "drop"}]

\* What the checks may be given: the shape UniqueKeyLoader and yaml.load produce.
IsConfig(c) ==
  LET E == DOMAIN c.kind IN
  /\ E \subseteq Names
  /\ c.order \in Seq(E)
  /\ Range(c.order) = E
  /\ \A i, j \in DOMAIN c.order : c.order[i] = c.order[j] => i = j
  /\ c.kind \in [E -> Kinds \cup {"unknown"}]
  /\ c.form \in [E -> {"ok", "missing", "badPolicy"}]
  /\ c.neighbors \in [E -> SUBSET Names]
  /\ c.endpoints \in [E -> Seq(SUBSET Seq(Names))]
  /\ \A e \in E : \A paths \in Range(c.endpoints[e]) : <<>> \notin paths
  /\ c.ports \in [E -> SUBSET Ports]
  /\ c.expose \in [E -> BOOLEAN]
  /\ c.vlan \in [E -> [Names -> Nat]]
  /\ \A e \in E, n \in Names : c.vlan[e][n] # 0 => n \in c.neighbors[e]
  /\ c.options \in [E -> Seq([path : Seq(Names), values : Seq({"good", "bad", "raises"})])]
  /\ \A e \in E : \A o \in Range(c.options[e]) : o.values # <<>>
  /\ c.rules \in [E -> Seq(Rules)]
  /\ c.default \in [E -> {"accept", "drop"}]
  /\ c.args \in Arguments

ASSUME ConfigsAssumption == \A c \in Configs : IsConfig(c)

----
(***************************************************************************)
(* Operators over one configuration.                                       *)
(***************************************************************************)
Entities(c) == DOMAIN c.kind

\* extract_connections: the neighbours of an intermediary, the paths of a
\* service.  The loop over the endpoints of a service returns at the first
\* endpoint that has connections.  The "connections" of an external are not
\* read: it is searched for "neighbors", which it does not have.
ExtractConnections(c, e) ==
  IF c.kind[e] = "service"
  THEN LET eps  == c.endpoints[e]
           used == {k \in DOMAIN eps : eps[k] # {}}
       IN  UNION {eps[k] : k \in {m \in used : \A n \in used : m <= n}}
  ELSE {<<n>> : n \in c.neighbors[e]}

IsSwitch(c, e) == c.kind[e] = "switch"

\* parse_e2e_connections: the connection "p" of e, with its source in front.
Hops(e, p) == <<e>> \o p

\* The end-to-end connections of a configuration, and those e sends, receives or
\* carries: the set e2e_conns of its Entity.
AllE2e(c) ==
  UNION {{Hops(e, p) : p \in ExtractConnections(c, e)} :
           e \in {n \in Entities(c) : c.kind[n] \in EndHost}}
E2eConns(c, e) == {h \in AllE2e(c) : e \in Range(h)}

\* associate_dependencies: an entity depends on every hop of its connections; a
\* switch, configured once every container has started, on nothing.
DependsOn(c, e) ==
  IF IsSwitch(c, e) THEN {} ELSE UNION {Range(p) : p \in ExtractConnections(c, e)}

LastHop(p) == p[Len(p)]

\* check_connectivity for a path with at least one "->".
PathPossible(c, p) ==
  /\ \A i \in DOMAIN p : p[i] \in Entities(c)
  /\ \A i \in 1 .. Len(p) - 1 :
       /\ c.kind[p[i]] \in Intermediary
       /\ <<p[i + 1]>> \in ExtractConnections(c, p[i])
  /\ c.kind[LastHop(p)] \in EndHost

\* check_connectivity for a direct connection.
DirectPossible(c, e, n) ==
  /\ n \in Entities(c)
  /\ c.kind[e] \in EndHost => c.kind[n] \in EndHost

ConnectivityPossible(c) ==
  \A e \in Entities(c) : \A p \in ExtractConnections(c, e) :
    IF Len(p) > 1 THEN PathPossible(c, p) ELSE DirectPossible(c, e, p[1])

\* build_directed_graph without the edges between the hops of a path.
EdgesWithoutHops(c, e) ==
  IF IsSwitch(c, e) THEN {}
  ELSE {<<e, p[1]>> : p \in ExtractConnections(c, e)}

\* build_directed_graph: the edges the connections of e add.  The
\* connections of a switch are not parsed, on purpose.
EdgesOf(c, e) ==
  IF IsSwitch(c, e) THEN {}
  ELSE LET conns == ExtractConnections(c, e) IN
       {<<e, p[1]>> : p \in conns}
         \cup UNION {{<<p[i], p[i + 1]>> : i \in 1 .. Len(p) - 1} : p \in conns}

Graph(c) == UNION {EdgesOf(c, e) : e \in Entities(c)}

\* A finite graph has no cycle iff every nonempty set of its nodes has a node
\* without successor in the set.  This stands for networkx.find_cycle.
Acyclic(nodes, edges) ==
  \A S \in (SUBSET nodes) \ {{}} : \E n \in S : \A m \in S : <<n, m>> \notin edges

NoCycles(c) == Acyclic(Entities(c), Graph(c))

\* check_unique_ports without the ports of externals.
CountedServicePorts(c, e) ==
  IF c.kind[e] # "service" \/ ~c.expose[e] THEN {} ELSE c.ports[e]

\* check_unique_ports: the ports of an end host count unless expose is false.
CountedPorts(c, e) ==
  IF c.kind[e] \in Intermediary \/ ~c.expose[e] THEN {} ELSE c.ports[e]

\* The host ports a container publishes: Service.__init__ and Service.export_compose.
Published(c, e) ==
  IF c.kind[e] \in EndHost /\ c.expose[e] THEN c.ports[e] ELSE {}

PortsUnique(c) ==
  /\ \A e \in Entities(c) : CountedPorts(c, e) \cap TelemetryPorts = {}
  /\ \A e, f \in Entities(c) :
       e # f => CountedPorts(c, e) \cap CountedPorts(c, f) = {}

\* check_impairments and check_timers are called after the loop over the fields of a
\* connection: they look at the last field only.
ConnectionVerdict(o) ==
  CASE o.values[Len(o.values)] = "good" -> "ok"
    [] o.values[Len(o.values)] = "bad" -> "rejected"
    [] OTHER -> "raised"

\* check_connection_specifications: the first connection that does not pass decides.
ConnectionsVerdict(c, e) ==
  LET bad == {k \in DOMAIN c.options[e] : ConnectionVerdict(c.options[e][k]) # "ok"} IN
  IF bad = {} THEN "ok"
  ELSE ConnectionVerdict(c.options[e][CHOOSE k \in bad : \A m \in bad : k <= m])

\* The type-specific checks of one entity in check_config: a switch first needs
\* the kernel module and an output that is not Kubernetes.
SpecificVerdict(c, e) ==
  IF IsSwitch(c, e) /\ (~OvsLoaded \/ c.args.kubernetes) THEN "raised"
  ELSE IF c.form[e] = "missing" THEN "rejected"
  ELSE IF c.kind[e] = "firewall" /\ c.form[e] = "badPolicy" THEN "raised"
  ELSE ConnectionsVerdict(c, e)

\* The loop over the entities ends at the first that does not pass.
SpecificFields(c) ==
  LET bad == {k \in DOMAIN c.order : SpecificVerdict(c, c.order[k]) # "ok"} IN
  IF bad = {} THEN "ok"
  ELSE SpecificVerdict(c, c.order[CHOOSE k \in bad : \A m \in bad : k <= m])

CommonFields(c) == \A e \in Entities(c) : c.kind[e] \in Kinds

\* check_config as one function, for the modules that call it.
CheckConfig(c) ==
  /\ CommonFields(c)
  /\ SpecificFields(c) = "ok"
  /\ ConnectivityPossible(c)
  /\ NoCycles(c)
  /\ PortsUnique(c)
====
