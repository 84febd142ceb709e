---- MODULE DeploymentProofs ----
(***************************************************************************)
(* Proofs about what is exported and about its deployment, for any         *)
(* configurations, clusters and range of node ports and any number of      *)
(* restarts.                                                               *)
(*                                                                         *)
(* The files are what Architecture built, no two Kubernetes services get   *)
(* one node port and no two containers one host port, the ends of a        *)
(* Meshnet link agree, and the Compose file refers to nothing it does not  *)
(* define.  NodePortsDistinct is not inductive: it does not say that the   *)
(* ports handed out are behind the counter.  PortsBehind does.  What the   *)
(* files hold when they are written is not either: ProgressInv says, item  *)
(* by item, that what the exporter has taken is in them.                   *)
(*                                                                         *)
(* Once a deployment has settled the routes are in place, the ends of      *)
(* every link can talk to each other, and the firewalls do with the        *)
(* packets of a connection what their rules say.  RunInv, the inductive    *)
(* invariant, says at every moment what the blocks of commands.sh that     *)
(* have run, and the commands given that have not, leave to be done;       *)
(* FirewallsInv says what the generator told the firewalls.                *)
(***************************************************************************)
EXTENDS Deployment, ArchitectureProofs

----
(***************************************************************************)
(* Node ports.                                                             *)
(***************************************************************************)
\* The node ports handed out are behind the next one, each handed out once.
PortsBehind ==
  /\ nextPort \in Nat /\ NodePortMin <= nextPort
  /\ \A s \in nodePorts : s[3] \in NodePortMin .. NodePortMax /\ s[3] < nextPort
  /\ \A s, t \in nodePorts : s[3] = t[3] => s = t

PortsInv == cfg \in Configs /\ PortsBehind

\* A service has finitely many ports.
LEMMA ServicePortsFinite ==
  ASSUME cfg \in Configs, NEW n \in PodNames
  PROVE  Cardinality(ServicePorts(n)) \in Nat
<1>1. \/ ServicePorts(n) \in {{UiPort}, {CollectorPort}, {nextPort}}
      \/ n \in Entities(cfg) /\ ServicePorts(n) = cfg.ports[n]
  BY DEF ServicePorts, HostPorts, PodNames
<1>2. CASE ServicePorts(n) \in {{UiPort}, {CollectorPort}, {nextPort}}
  <2>0. \A p : IsFiniteSet({p}) BY FS_Singleton
  <2>1. IsFiniteSet({UiPort}) /\ IsFiniteSet({CollectorPort}) /\ IsFiniteSet({nextPort}) BY <2>0
  <2>2. IsFiniteSet(ServicePorts(n)) BY <1>2, <2>1
  <2> QED BY <2>2, FS_CardinalityType
<1>3. CASE n \in Entities(cfg) /\ ServicePorts(n) = cfg.ports[n]
  <2>1. cfg.ports[n] \in SUBSET Ports
    BY <1>3, ConfigsAssumption DEF IsConfig, Entities
  <2>2. IsFiniteSet(cfg.ports[n]) BY <2>1, PortsAssumption, FS_Subset
  <2> QED BY <1>3, <2>2, FS_CardinalityType
<1> QED BY <1>1, <1>2, <1>3

\* next_node_port, called for each port of one service, hands out what is next in the range.
LEMMA ExportPodKeepsPortsBehind == PortsInv /\ ExportPod => PortsBehind'
<1> SUFFICES ASSUME PortsInv, ExportPod PROVE PortsBehind'
  OBVIOUS
<1>1. PICK n \in PodNames :
        /\ nextPort + Cardinality(ServicePorts(n)) <= NodePortMax + 1
        /\ \E number \in Numberings(ServicePorts(n)) :
             /\ nodePorts' = nodePorts \cup {<<n, number[i], nextPort + i - 1>> : i \in DOMAIN number}
             /\ nextPort' = NextNodePorts(number)
  BY DEF ExportPod
<1>2. PICK number \in Numberings(ServicePorts(n)) :
        /\ nodePorts' = nodePorts \cup {<<n, number[i], nextPort + i - 1>> : i \in DOMAIN number}
        /\ nextPort' = NextNodePorts(number)
  BY <1>1
<1> DEFINE size == Cardinality(ServicePorts(n))
<1>3. size \in Nat BY ServicePortsFinite DEF PortsInv
<1>4. number \in [1 .. size -> ServicePorts(n)] BY DEF Numberings
<1>5. DOMAIN number = 1 .. size /\ Len(number) = size BY <1>3, <1>4
<1> HIDE DEF size
<1>6. nextPort' = nextPort + size BY <1>2, <1>5 DEF NextNodePorts
<1>7. nextPort \in Nat /\ NodePortMin <= nextPort /\ nextPort + size <= NodePortMax + 1
  BY <1>1 DEF PortsInv, PortsBehind, size
<1>8. NodePortMin \in Nat /\ NodePortMax \in Nat BY NodePortAssumption
<1>9. ASSUME NEW s \in nodePorts'
      PROVE \/ s \in nodePorts
            \/ \E i \in 1 .. size : s = <<n, number[i], nextPort + i - 1>>
  BY <1>2, <1>5
<1>10. \A s \in nodePorts : s[3] \in NodePortMin .. NodePortMax /\ s[3] < nextPort
  BY DEF PortsInv, PortsBehind
<1>11. ASSUME NEW s \in nodePorts'
       PROVE s[3] \in NodePortMin .. NodePortMax /\ s[3] < nextPort'
  BY <1>3, <1>6, <1>7, <1>8, <1>9, <1>10
<1>12. ASSUME NEW s \in nodePorts', NEW t \in nodePorts', s[3] = t[3]
       PROVE s = t
  <2>1. CASE s \in nodePorts /\ t \in nodePorts BY <2>1, <1>12 DEF PortsInv, PortsBehind
  <2>2. CASE s \notin nodePorts /\ t \notin nodePorts
    <3>1. PICK i \in 1 .. size : s = <<n, number[i], nextPort + i - 1>> BY <2>2, <1>9
    <3>2. PICK j \in 1 .. size : t = <<n, number[j], nextPort + j - 1>> BY <2>2, <1>9
    <3>3. i = j BY <3>1, <3>2, <1>12, <1>3, <1>7
    <3> QED BY <3>1, <3>2, <3>3
  <2>3. CASE s \in nodePorts /\ t \notin nodePorts
    <3>1. PICK j \in 1 .. size : t = <<n, number[j], nextPort + j - 1>> BY <2>3, <1>9
    <3> QED BY <3>1, <2>3, <1>3, <1>7, <1>8, <1>10, <1>12
  <2>4. CASE s \notin nodePorts /\ t \in nodePorts
    <3>1. PICK i \in 1 .. size : s = <<n, number[i], nextPort + i - 1>> BY <2>4, <1>9
    <3> QED BY <3>1, <2>4, <1>3, <1>7, <1>8, <1>10, <1>12
  <2> QED BY <2>1, <2>2, <2>3, <2>4
<1> QED BY <1>3, <1>6, <1>7, <1>8, <1>11, <1>12 DEF PortsBehind

\* The other steps of the exporters and everything after them leave the node ports alone.
LEMMA OthersKeepPorts ==
  [DNext]_dvars => ExportPod \/ (cfg' = cfg /\ nodePorts' = nodePorts /\ nextPort' = nextPort)
<1> DEFINE Kept == cfg' = cfg /\ nodePorts' = nodePorts /\ nextPort' = nextPort
<1>1. evars' = evars => Kept BY DEF evars, vars, files
<1>2. CheckArguments \/ StartExport \/ Written => Kept
  BY DEF CheckArguments, StartExport, Written, vars, files
<1>3. Build => Kept BY StepKeepsConfig DEF Build, files
<1>4. WriteNetworks \/ WriteContainer \/ WriteTelemetry \/ GenerateMeshnet => Kept
  BY DEF WriteNetworks, WriteContainer, WriteTelemetry, GenerateMeshnet, vars
<1>5. NodePortsExhausted => Kept BY DEF NodePortsExhausted, vars
<1>6. Generate => ExportPod \/ Kept BY <1>2, <1>3, <1>4, <1>5 DEF Generate, EStep
<1>7. Start \/ LinkBlock \/ EntityBlock => Kept BY <1>1 DEF Start, LinkBlock, EntityBlock
<1>8. AddRoute \/ AddRule \/ SetPolicy => Kept BY <1>1 DEF AddRoute, AddRule, SetPolicy
<1>9. RestartContainer \/ RestartPod => Kept BY <1>1 DEF RestartContainer, RestartPod
<1>10. Over \/ UNCHANGED dvars => Kept BY <1>1 DEF Over, dvars
<1> QED BY <1>6, <1>7, <1>8, <1>9, <1>10 DEF DNext, DStep

\* An export keeps the configuration.
LEMMA ExportPodKeepsConfig == ExportPod => cfg' = cfg
BY DEF ExportPod, vars

\* The ports handed out are behind the counter.
LEMMA PortsInvariant == DSpec => []PortsInv
<1>1. DInit => PortsInv
  BY NodePortAssumption DEF DInit, EInit, Init, PortsInv, PortsBehind
<1>2. PortsInv /\ [DNext]_dvars => PortsInv'
  <2> SUFFICES ASSUME PortsInv, [DNext]_dvars PROVE PortsInv'
    OBVIOUS
  <2>1. CASE ExportPod BY <2>1, ExportPodKeepsPortsBehind, ExportPodKeepsConfig DEF PortsInv
  <2>2. CASE cfg' = cfg /\ nodePorts' = nodePorts /\ nextPort' = nextPort
    BY <2>2 DEF PortsInv, PortsBehind
  <2> QED BY <2>1, <2>2, OthersKeepPorts
<1> QED BY <1>1, <1>2, PTL DEF DSpec

\* Node ports of Kubernetes services are in the range of the cluster and no two services
\* share one, whatever the services, their numbers of ports and the telemetry.
THEOREM NodePortsDistinctTheorem == DSpec => []NodePortsDistinct
<1>1. PortsInv => NodePortsDistinct BY DEF PortsInv, PortsBehind, NodePortsDistinct
<1> QED BY <1>1, PortsInvariant, PTL

----
(***************************************************************************)
(* The exporters work on what module Architecture describes.               *)
(***************************************************************************)
\* The exporters and the deployment change nothing of the architecture.
LEMMA StepsOfArchitecture == [DNext]_dvars => [Next]_vars
<1>1. evars' = evars => vars' = vars
  BY DEF evars
<1>2. CheckArguments \/ StartExport \/ Written \/ NodePortsExhausted => vars' = vars
  BY DEF CheckArguments, StartExport, Written, NodePortsExhausted
<1>3. WriteNetworks \/ WriteContainer \/ WriteTelemetry \/ GenerateMeshnet \/ ExportPod => vars' = vars
  BY DEF WriteNetworks, WriteContainer, WriteTelemetry, GenerateMeshnet, ExportPod
<1>4. Build => Next
  BY DEF Build, Next
<1>5. Generate => Next \/ vars' = vars
  BY <1>2, <1>3, <1>4 DEF Generate, EStep
<1>6. Start \/ LinkBlock \/ EntityBlock \/ AddRoute \/ AddRule \/ SetPolicy => evars' = evars
  BY DEF Start, LinkBlock, EntityBlock, AddRoute, AddRule, SetPolicy
<1>7. RestartContainer \/ RestartPod \/ Over \/ UNCHANGED dvars => evars' = evars
  BY DEF RestartContainer, RestartPod, Over, dvars
<1>8. QED
  BY <1>1, <1>5, <1>6, <1>7 DEF DNext, DStep

\* gen_config_files builds the architecture as generate_architecture does, and neither an
\* exporter nor a deployment touches it any more: what is proved of Architecture holds of
\* what is exported and deployed (generator.py, gen_config_files).
THEOREM DeploymentFollowsArchitecture == DSpec => Spec
<1>1. DInit => Init
  BY DEF DInit, EInit
<1>2. QED
  BY <1>1, StepsOfArchitecture, PTL DEF DSpec, Spec

\* What is built, as the exporters find it.
Architected == CheckedInv /\ BuiltInv /\ NumberedInv

\* What was proved of the architecture holds of what is exported and deployed.
LEMMA ArchitectedInvariant == DSpec => []Architected
BY DeploymentFollowsArchitecture, BuiltInvariant, NumberedInvariant, PTL DEF Architected

\* A step is one of gen_config_files or leaves its files alone.
LEMMA DeploymentSteps == [DNext]_dvars => EStep \/ evars' = evars
BY DEF DNext, DStep, Generate, Start, LinkBlock, EntityBlock, AddRoute, AddRule, SetPolicy,
  RestartContainer, RestartPod, Over, dvars

\* Nothing is written before the architecture is done, and then it does not change.
Early == {"arguments", "build", "refused"}
StagedInv ==
  /\ step \in Early => containers = {} /\ links = {}
  /\ step \notin Early => phase = "done"

\* The order of gen_config_files is kept by every deployment.
LEMMA StagedInvariant == DSpec => []StagedInv
<1>1. DInit => StagedInv
  BY DEF DInit, EInit, StagedInv, Early
<1>2. StagedInv /\ [DNext]_dvars => StagedInv'
  <2> SUFFICES ASSUME StagedInv, EStep \/ evars' = evars PROVE StagedInv'
    BY DeploymentSteps
  <2>1. CASE evars' = evars
    BY <2>1 DEF evars, files, vars, StagedInv
  <2>2. CASE CheckArguments \/ StartExport \/ Written \/ NodePortsExhausted
    BY <2>2 DEF CheckArguments, StartExport, Written, NodePortsExhausted, Takes, files, vars, StagedInv, Early
  <2>3. CASE Build
    BY <2>3 DEF Build, files, StagedInv, Early
  <2>4. CASE WriteNetworks \/ WriteContainer \/ WriteTelemetry \/ GenerateMeshnet \/ ExportPod
    <3>1. step = "export" /\ step' = "export" /\ phase' = phase
      BY <2>4 DEF WriteNetworks, WriteContainer, WriteTelemetry, GenerateMeshnet, ExportPod, Takes, vars
    <3>2. QED
      BY <3>1 DEF StagedInv, Early
  <2>5. QED
    BY <2>1, <2>2, <2>3, <2>4 DEF EStep
<1>3. QED
  BY <1>1, <1>2, PTL DEF DSpec

----
(***************************************************************************)
(* The links of Meshnet.                                                   *)
(***************************************************************************)
\* check_config accepts no switch for Kubernetes.
LEMMA NoSwitchesOnKubernetes ==
  ASSUME NEW c, IsConfig(c), CheckConfig(c), c.args.kubernetes, NEW e \in Entities(c)
  PROVE  ~IsSwitch(c, e)
<1> DEFINE bad == {k \in DOMAIN c.order : SpecificVerdict(c, c.order[k]) # "ok"}
<1>1. Range(c.order) = Entities(c) /\ c.order \in Seq(Entities(c))
  BY DEF IsConfig, Entities
<1>2. PICK k \in DOMAIN c.order : c.order[k] = e
  BY <1>1 DEF Range
<1>3. bad = {}
  <2> SUFFICES ASSUME bad # {} PROVE FALSE
    OBVIOUS
  <2>1. bad \subseteq Nat
    BY <1>1
  <2>2. PICK j \in bad : \A m \in bad : j <= m
    <3> HIDE DEF bad
    <3>1. QED
      BY <2>1, SmallestExists
  <2> DEFINE first == CHOOSE i \in bad : \A m \in bad : i <= m
  <2>3. first \in bad
    <3> HIDE DEF bad
    <3>1. QED
      BY <2>2
  <2>4. SpecificFields(c) = SpecificVerdict(c, c.order[first])
    BY DEF SpecificFields
  <2>5. QED
    BY <2>3, <2>4 DEF CheckConfig
<1>4. SpecificVerdict(c, e) = "ok"
  BY <1>2, <1>3
<1>5. QED
  BY <1>4 DEF SpecificVerdict

\* On Kubernetes every network has two interfaces, of two entities.
LEMMA PairsOnKubernetes ==
  ASSUME CheckedInv, BuiltInv, phase = "done", cfg.args.kubernetes, NEW k \in DOMAIN networks
  PROVE  LET h == networks[k].hops IN
         /\ h[1] \in Entities(cfg) /\ h[2] \in Entities(cfg) /\ h[1] # h[2]
         /\ h = <<h[1], h[2]>> /\ Range(h) = {h[1], h[2]}
<1> DEFINE h == networks[k].hops
<1>1. IsConfig(cfg) /\ CheckConfig(cfg) /\ \A g \in AllE2e(cfg) : IsRoute(cfg, g)
  BY Relied
<1>2. networks[k] \in NetworksOf(cfg)
  BY DEF BuiltInv
<1>3. IsSegment(cfg, h)
  BY <1>1, <1>2, NetworkShape
<1>4. h \in Seq(Entities(cfg)) /\ Len(h) \in Nat /\ Len(h) >= 2 /\ DOMAIN h = 1 .. Len(h)
  BY <1>3 DEF IsSegment
<1> HIDE DEF h
<1>5. Len(h) = 2
  <2> SUFFICES ASSUME Len(h) # 2 PROVE FALSE
    OBVIOUS
  <2>1. 2 \in 2 .. Len(h) - 1 /\ 2 \in DOMAIN h
    BY <1>4
  <2>2. IsSwitch(cfg, h[2]) /\ h[2] \in Entities(cfg)
    BY <1>3, <1>4, <2>1 DEF IsSegment
  <2>3. QED
    BY <1>1, <2>2, NoSwitchesOnKubernetes
<1>6. DOMAIN h = {1, 2}
  BY <1>4, <1>5
<1>7. h[1] \in Entities(cfg) /\ h[2] \in Entities(cfg)
  BY <1>4, <1>6
<1>8. h[1] # h[2]
  BY <1>3, <1>6 DEF IsSegment
<1>9. h = <<h[1], h[2]>>
  BY <1>4, <1>5
<1>10. Range(h) = {h[1], h[2]}
  BY <1>6 DEF Range
<1>11. QED
  BY <1>7, <1>8, <1>9, <1>10 DEF h

\* The interface of an entity on one of its networks is one of its own.
LEMMA EthPosition ==
  ASSUME NumberedInv, NEW e \in Entities(cfg), NEW k \in DOMAIN networks, e \in Range(networks[k].hops)
  PROVE  Eth(e, k) \in DOMAIN attached[e] /\ attached[e][Eth(e, k)] = k
<1>1. k \in Range(attached[e])
  BY DEF NumberedInv, AttachedInOrder
<1>2. \E i \in DOMAIN attached[e] : attached[e][i] = k
  BY <1>1 DEF Range
<1>3. QED
  BY <1>2 DEF Eth

\* The links of the pods, all made at once.
AllLinks == UNION {{Link(e, k) : k \in Range(attached[e])} : e \in Entities(cfg)}
LinksInv == links = {} \/ (phase = "done" /\ cfg.args.kubernetes /\ links = AllLinks)

\* Every link is the one of an end of a network.
LEMMA LinkEnds ==
  ASSUME Architected, phase = "done", cfg.args.kubernetes, NEW l \in AllLinks
  PROVE  \E e \in Entities(cfg), k \in DOMAIN networks :
           e \in Range(networks[k].hops) /\ l = Link(e, k)
<1>1. PICK e \in Entities(cfg) : l \in {Link(e, k) : k \in Range(attached[e])}
  BY DEF AllLinks
<1>2. PICK k \in Range(attached[e]) : l = Link(e, k)
  BY <1>1
<1>3. k \in DOMAIN networks /\ e \in Range(networks[k].hops)
  BY DEF Architected, NumberedInv, AttachedInOrder
<1>4. QED
  BY <1>2, <1>3

\* The peer on a network of two is the other one.
LEMMA PeerIsOther ==
  ASSUME Architected, phase = "done", cfg.args.kubernetes,
         NEW k \in DOMAIN networks, NEW e \in Range(networks[k].hops)
  PROVE  /\ e \in Entities(cfg) /\ Peer(k, e) \in Entities(cfg)
         /\ Peer(k, e) \in Range(networks[k].hops)
         /\ Peer(k, e) # e /\ Peer(k, Peer(k, e)) = e
         /\ \A n \in Range(networks[k].hops) : n = e \/ n = Peer(k, e)
         /\ Link(Peer(k, e), k) \in AllLinks
<1>1. PICK u \in Entities(cfg), v \in Entities(cfg) : u # v /\ Range(networks[k].hops) = {u, v}
  BY PairsOnKubernetes DEF Architected
<1>2. \A n \in {u, v} : Peer(k, n) \in {u, v} /\ Peer(k, n) # n
  BY <1>1 DEF Peer
<1>3. /\ Peer(k, e) \in {u, v} /\ Peer(k, e) # e /\ Peer(k, Peer(k, e)) = e /\ e \in {u, v}
  BY <1>1, <1>2
<1>4. k \in Range(attached[Peer(k, e)])
  BY <1>1, <1>3 DEF Architected, NumberedInv, AttachedInOrder
<1>5. QED
  BY <1>1, <1>3, <1>4 DEF AllLinks

\* generate_meshnet makes all links at once, of what is built.
LEMMA LinksInvariant == DSpec => []LinksInv
<1>1. DInit => LinksInv
  BY DEF DInit, EInit, LinksInv
<1>2. LinksInv /\ StagedInv /\ [DNext]_dvars => LinksInv'
  <2> SUFFICES ASSUME LinksInv, StagedInv, EStep \/ evars' = evars PROVE LinksInv'
    BY DeploymentSteps
  <2>1. CASE Build
    BY <2>1 DEF Build, files, StagedInv, Early, LinksInv
  <2>2. CASE GenerateMeshnet
    <3>1. /\ phase = "done" /\ cfg.args.kubernetes /\ UNCHANGED vars /\ links' = AllLinks
      BY <2>2 DEF GenerateMeshnet, Takes, StagedInv, Early, AllLinks
    <3>2. AllLinks' = AllLinks
      BY <3>1 DEF vars, AllLinks, Link, Peer, Eth, EntityIp
    <3>3. QED
      BY <3>1, <3>2 DEF vars, LinksInv
  <2>3. CASE UNCHANGED vars /\ links' = links
    <3>1. AllLinks' = AllLinks
      BY <2>3 DEF vars, AllLinks, Link, Peer, Eth, EntityIp
    <3>2. QED
      BY <2>3, <3>1 DEF vars, LinksInv
  <2>4. QED
    BY <2>1, <2>2, <2>3
    DEF EStep, CheckArguments, StartExport, WriteNetworks, WriteContainer, WriteTelemetry,
      ExportPod, NodePortsExhausted, Written, evars, files
<1>3. QED
  BY <1>1, <1>2, StagedInvariant, PTL DEF DSpec

\* Both pods of a link describe the same two interfaces and addresses, no other link has its
\* number, and no pod has two links on one interface, whatever the topology (kubernetes.py,
\* generate_meshnet; get_network_pos of entities.py).
THEOREM MeshnetMirroredTheorem == DSpec => []MeshnetMirrored
<1>1. LinksInv /\ Architected => MeshnetMirrored
  <2> SUFFICES ASSUME phase = "done", cfg.args.kubernetes, links = AllLinks, Architected, NEW l \in links
               PROVE  /\ \E m \in links : Mirrored(l, m)
                      /\ \A m \in links : m.uid = l.uid => m = l \/ Mirrored(l, m)
                      /\ \A m \in links : m.pod = l.pod /\ m.localIntf = l.localIntf => m = l
    BY DEF LinksInv, MeshnetMirrored
  <2>1. PICK e \in Entities(cfg), k \in DOMAIN networks : e \in Range(networks[k].hops) /\ l = Link(e, k)
    BY LinkEnds
  <2> DEFINE other == Link(Peer(k, e), k)
  <2>2. /\ Peer(k, Peer(k, e)) = e /\ other \in links
        /\ \A n \in Range(networks[k].hops) : n = e \/ n = Peer(k, e)
    BY <2>1, PeerIsOther
  <2>3. Mirrored(l, other)
    BY <2>1, <2>2 DEF Mirrored, Link
  <2>4. ASSUME NEW m \in links, m.uid = l.uid PROVE m = l \/ Mirrored(l, m)
    <3>1. PICK n \in Entities(cfg), j \in DOMAIN networks : n \in Range(networks[j].hops) /\ m = Link(n, j)
      BY LinkEnds
    <3>2. j = k
      BY <2>1, <2>4, <3>1 DEF Link
    <3>3. QED
      BY <2>1, <2>2, <2>3, <3>1, <3>2
  <2>5. ASSUME NEW m \in links, m.pod = l.pod, m.localIntf = l.localIntf PROVE m = l
    <3>1. PICK n \in Entities(cfg), j \in DOMAIN networks : n \in Range(networks[j].hops) /\ m = Link(n, j)
      BY LinkEnds
    <3>2. n = e /\ Eth(n, j) = Eth(e, k)
      BY <2>1, <2>5, <3>1 DEF Link
    <3>3. attached[n][Eth(n, j)] = j /\ attached[e][Eth(e, k)] = k
      BY <2>1, <3>1, EthPosition DEF Architected
    <3>4. QED
      BY <2>1, <3>1, <3>2, <3>3
  <2>6. QED
    BY <2>2, <2>3, <2>4, <2>5
<1>2. QED
  BY <1>1, ArchitectedInvariant, LinksInvariant, PTL

----
(***************************************************************************)
(* Host ports.                                                             *)
(***************************************************************************)
\* The ports of a container that do not depend on when it is written.
OwnPorts(n) ==
  IF n = Jaeger THEN JaegerPorts
  ELSE IF n = Collector THEN {CollectorPort}
  ELSE cfg.ports[n]

\* How a container or a pod came by its ports.
OfTelemetry(t) ==
  \/ t = Container(Jaeger, {TelemetryNet}, {}, JaegerPorts)
  \/ t = Container(Collector, {TelemetryNet}, {Jaeger}, {})
ComposeContainer(t) == OfTelemetry(t) \/ \E e \in Entities(cfg) : t = ContainerOf(e)

OwnPod(t) ==
  \E n \in PodNames :
    /\ t = Container(n, {}, {}, OwnPorts(n))
    /\ n \in {Jaeger, Collector} \/ cfg.kind[n] \in EndHost
NodePortPod(t) == \E p \in NodePortMin .. nextPort - 1 : p <= NodePortMax /\ t.ports = {p}

\* The pods with a node port are behind the counter and apart from each other.
ContainersInv ==
  /\ containers # {} => phase = "done"
  /\ ~cfg.args.kubernetes => \A t \in containers : ComposeContainer(t)
  /\ cfg.args.kubernetes =>
       /\ \A t \in containers : OwnPod(t) \/ NodePortPod(t)
       /\ HostPortsDistinct

\* check_unique_ports, for the ports it knows and where PortsForeseen.
LEMMA OwnPortsDistinct ==
  ASSUME IsConfig(cfg), CheckConfig(cfg), PortsForeseen(cfg), NEW n, NEW m, n # m,
         n \in {Jaeger, Collector} \/ (n \in Entities(cfg) /\ OwnPorts(n) \subseteq CountedPorts(cfg, n)),
         m \in {Jaeger, Collector} \/ (m \in Entities(cfg) /\ OwnPorts(m) \subseteq CountedPorts(cfg, m))
  PROVE  OwnPorts(n) \cap OwnPorts(m) = {}
<1>1. PortsUnique(cfg)
  BY DEF CheckConfig
<1>2. ASSUME NEW e \in Entities(cfg), e \notin {Jaeger, Collector}, OwnPorts(e) \subseteq CountedPorts(cfg, e)
      PROVE  OwnPorts(e) \cap (JaegerPorts \cup {CollectorPort}) = {}
  <2>1. CountedPorts(cfg, e) \cap TelemetryPorts = {}
    BY <1>1 DEF PortsUnique
  <2>2. OwnPorts(e) = cfg.ports[e] /\ UiPort \notin cfg.ports[e]
    BY <1>2 DEF OwnPorts, PortsForeseen
  <2>3. JaegerPorts \cup {CollectorPort} \subseteq TelemetryPorts \cup {UiPort}
    BY DEF JaegerPorts, CollectorPort, TelemetryPorts, UiPort
  <2>4. QED
    BY <1>2, <2>1, <2>2, <2>3
<1>3. JaegerPorts \cap {CollectorPort} = {} /\ Jaeger # Collector
  BY DEF JaegerPorts, CollectorPort, Jaeger, Collector
<1>4. CASE n \in {Jaeger, Collector} /\ m \in {Jaeger, Collector}
  BY <1>3, <1>4 DEF OwnPorts
<1>5. CASE n \in {Jaeger, Collector} /\ m \notin {Jaeger, Collector}
  <2>1. OwnPorts(n) \subseteq JaegerPorts \cup {CollectorPort}
    BY <1>5 DEF OwnPorts
  <2>2. QED
    BY <1>2, <1>5, <2>1
<1>6. CASE n \notin {Jaeger, Collector} /\ m \in {Jaeger, Collector}
  <2>1. OwnPorts(m) \subseteq JaegerPorts \cup {CollectorPort}
    BY <1>6 DEF OwnPorts
  <2>2. QED
    BY <1>2, <1>6, <2>1
<1>7. CASE n \notin {Jaeger, Collector} /\ m \notin {Jaeger, Collector}
  <2>1. CountedPorts(cfg, n) \cap CountedPorts(cfg, m) = {}
    BY <1>1, <1>7 DEF PortsUnique
  <2>2. QED
    BY <1>7, <2>1
<1>8. QED
  BY <1>4, <1>5, <1>6, <1>7

\* Two containers of a Compose file.
LEMMA ComposePortsDistinct ==
  ASSUME IsConfig(cfg), CheckConfig(cfg), PortsForeseen(cfg),
         NEW t, ComposeContainer(t), NEW u, ComposeContainer(u), t # u
  PROVE  t.ports \cap u.ports = {}
<1>1. PortsUnique(cfg) /\ CommonFields(cfg)
  BY DEF CheckConfig
<1>2. ASSUME NEW e \in Entities(cfg)
      PROVE  /\ ContainerOf(e).ports \subseteq CountedPorts(cfg, e)
             /\ UiPort \notin ContainerOf(e).ports
  <2>1. ContainerOf(e).ports \in {{}, Published(cfg, e)}
    BY DEF ContainerOf, Container
  <2>2. cfg.kind[e] \in EndHost => cfg.kind[e] \notin Intermediary
    BY DEF EndHost, Intermediary
  <2>3. QED
    BY <2>1, <2>2 DEF Published, CountedPorts, PortsForeseen
<1>3. ASSUME NEW e \in Entities(cfg) PROVE ContainerOf(e).ports \cap JaegerPorts = {}
  <2>1. CountedPorts(cfg, e) \cap TelemetryPorts = {}
    BY <1>1 DEF PortsUnique
  <2>2. JaegerPorts \subseteq TelemetryPorts \cup {UiPort}
    BY DEF JaegerPorts, TelemetryPorts, UiPort
  <2>3. QED
    BY <1>2, <2>1, <2>2
<1>4. ASSUME NEW e \in Entities(cfg), NEW f \in Entities(cfg), e # f
      PROVE  ContainerOf(e).ports \cap ContainerOf(f).ports = {}
  <2>1. CountedPorts(cfg, e) \cap CountedPorts(cfg, f) = {}
    BY <1>1, <1>4 DEF PortsUnique
  <2>2. QED
    BY <1>2, <2>1
<1>5. ASSUME NEW v, OfTelemetry(v) PROVE v.ports = {} \/ (v.ports = JaegerPorts /\ v = Container(Jaeger, {TelemetryNet}, {}, JaegerPorts))
  BY <1>5 DEF OfTelemetry, Container
<1>6. CASE OfTelemetry(t) /\ OfTelemetry(u)
  BY <1>5, <1>6
<1>7. ASSUME OfTelemetry(t), NEW e \in Entities(cfg), u = ContainerOf(e) PROVE t.ports \cap u.ports = {}
  BY <1>3, <1>5, <1>7
<1>8. ASSUME OfTelemetry(u), NEW e \in Entities(cfg), t = ContainerOf(e) PROVE t.ports \cap u.ports = {}
  BY <1>3, <1>5, <1>8
<1>9. ASSUME NEW e \in Entities(cfg), t = ContainerOf(e), NEW f \in Entities(cfg), u = ContainerOf(f)
      PROVE  t.ports \cap u.ports = {}
  BY <1>4, <1>9
<1>10. QED
  BY <1>6, <1>7, <1>8, <1>9 DEF ComposeContainer

\* A new pod publishes nothing another one does.
LEMMA ExportPodKeepsDistinct ==
  ASSUME IsConfig(cfg), CheckConfig(cfg), PortsInv, ContainersInv, ExportPod, phase = "done"
  PROVE  ContainersInv'
<1>1. PICK n \in PodNames :
        /\ nextPort + Cardinality(ServicePorts(n)) <= NodePortMax + 1
        /\ \E number \in Numberings(ServicePorts(n)) : nextPort' = NextNodePorts(number)
        /\ containers' = containers \cup {Container(n, {}, {}, HostPorts(n))}
  BY DEF ExportPod
<1>2. PICK number \in Numberings(ServicePorts(n)) : nextPort' = NextNodePorts(number)
  BY <1>1
<1>0. PICK new : new = Container(n, {}, {}, HostPorts(n))
  OBVIOUS
<1> DEFINE size == Cardinality(ServicePorts(n))
<1>3. size \in Nat
  BY ServicePortsFinite DEF PortsInv
<1>4. number \in [1 .. size -> ServicePorts(n)]
  BY DEF Numberings
<1>5. DOMAIN number = 1 .. size /\ Len(number) = size
  <2> HIDE DEF size
  <2>1. QED
    BY <1>3, <1>4
<1>6. nextPort' = nextPort + size
  BY <1>2, <1>5 DEF NextNodePorts
<1>7. nextPort \in Nat /\ NodePortMin <= nextPort /\ nextPort' \in Nat /\ nextPort <= nextPort'
  <2> HIDE DEF size
  <2>1. QED
    BY <1>3, <1>6 DEF PortsInv, PortsBehind
<1>8. cfg' = cfg /\ cfg.args.kubernetes /\ phase' = phase
  BY DEF ExportPod, vars
<1>9. OwnPod(new) \/ (new.ports = {nextPort} /\ nextPort <= NodePortMax /\ nextPort' = nextPort + 1)
  <2>1. CASE n \in {Jaeger, Collector} \/ cfg.kind[n] \in EndHost
    <3>1. HostPorts(n) = OwnPorts(n)
      BY <2>1 DEF HostPorts, OwnPorts
    <3>2. QED
      BY <1>0, <2>1, <3>1 DEF OwnPod
  <2>2. CASE ~(n \in {Jaeger, Collector} \/ cfg.kind[n] \in EndHost)
    <3>1. HostPorts(n) = {nextPort} /\ ServicePorts(n) = {nextPort}
      BY <2>2 DEF HostPorts, ServicePorts
    <3>2. size = 1
      BY <3>1, FS_Singleton
    <3>3. QED
      <4>1. new.ports = {nextPort}
        BY <1>0, <3>1 DEF Container
      <4>2. nextPort + 1 <= NodePortMax + 1 /\ nextPort' = nextPort + 1
        BY <1>1, <1>6, <3>2
      <4>3. QED
        BY <4>1, <4>2, <1>7, NodePortAssumption
  <2>3. QED
    BY <2>1, <2>2
<1> HIDE DEF size
<1>10. ASSUME NEW t, OwnPod(t) PROVE OwnPod(t)'
  BY <1>8, <1>10 DEF OwnPod, OwnPorts, PodNames
<1>11. ASSUME NEW t, NodePortPod(t) PROVE NodePortPod(t)'
  <2>1. PICK p \in NodePortMin .. nextPort - 1 : p <= NodePortMax /\ t.ports = {p}
    BY <1>11 DEF NodePortPod
  <2>2. p \in NodePortMin .. nextPort' - 1
    BY <1>7, <2>1, NodePortAssumption
  <2>3. QED
    BY <2>1, <2>2 DEF NodePortPod
<1>12. OwnPod(new)' \/ NodePortPod(new)'
  <2>1. CASE OwnPod(new)
    BY <2>1, <1>10
  <2>2. CASE new.ports = {nextPort} /\ nextPort <= NodePortMax /\ nextPort' = nextPort + 1
    <3>1. nextPort \in NodePortMin .. nextPort' - 1
      BY <2>2, <1>7, NodePortAssumption
    <3>2. QED
      BY <2>2, <3>1 DEF NodePortPod
  <2>3. QED
    BY <2>1, <2>2, <1>9
<1>13. \A t \in containers' : OwnPod(t)' \/ NodePortPod(t)'
  BY <1>1, <1>8, <1>10, <1>11, <1>12, <1>0 DEF ContainersInv
<1>14. ASSUME PortsForeseen(cfg), NEW t \in containers, t # new PROVE t.ports \cap new.ports = {}
  <2>1. OwnPod(t) \/ NodePortPod(t)
    BY <1>8 DEF ContainersInv
  <2>2. \A p \in NodePortMin .. NodePortMax : \A v : OwnPod(v) => p \notin v.ports
    <3> SUFFICES ASSUME NEW p \in NodePortMin .. NodePortMax, NEW v, OwnPod(v) PROVE p \notin v.ports
      OBVIOUS
    <3>1. PICK m \in PodNames : v = Container(m, {}, {}, OwnPorts(m)) /\ (m \in {Jaeger, Collector} \/ cfg.kind[m] \in EndHost)
      BY DEF OwnPod
    <3>2. v.ports = OwnPorts(m)
      BY <3>1 DEF Container
    <3>3. QED
      BY <3>2, <1>8, <1>14, NodePortAssumption DEF OwnPorts, PortsForeseen, CollectorPort, PodNames
  <2>3. CASE OwnPod(t) /\ OwnPod(new)
    <3>1. PICK m \in PodNames : t = Container(m, {}, {}, OwnPorts(m)) /\ (m \in {Jaeger, Collector} \/ cfg.kind[m] \in EndHost)
      BY <2>3 DEF OwnPod
    <3>2. PICK o \in PodNames : new = Container(o, {}, {}, OwnPorts(o)) /\ (o \in {Jaeger, Collector} \/ cfg.kind[o] \in EndHost)
      BY <2>3 DEF OwnPod
    <3>3. m # o
      BY <1>14, <3>1, <3>2
    <3>4. ASSUME NEW e \in PodNames, e \in {Jaeger, Collector} \/ cfg.kind[e] \in EndHost
          PROVE  e \in {Jaeger, Collector} \/ (e \in Entities(cfg) /\ OwnPorts(e) \subseteq CountedPorts(cfg, e))
      <4>1. CASE e \notin {Jaeger, Collector}
        <5>1. e \in Entities(cfg) /\ OwnPorts(e) = cfg.ports[e] /\ cfg.expose[e]
          BY <4>1, <1>8, <1>14 DEF PodNames, OwnPorts, PortsForeseen
        <5>2. cfg.kind[e] \notin Intermediary
          BY <3>4, <4>1 DEF EndHost, Intermediary
        <5>3. QED
          BY <5>1, <5>2 DEF CountedPorts
      <4>2. QED
        BY <4>1
    <3>5. OwnPorts(m) \cap OwnPorts(o) = {}
      BY <1>14, <3>1, <3>2, <3>3, <3>4, OwnPortsDistinct
    <3>6. QED
      BY <3>1, <3>2, <3>5 DEF Container
  <2>4. CASE new.ports = {nextPort} /\ nextPort <= NodePortMax
    <3>1. nextPort \in NodePortMin .. NodePortMax
      BY <2>4, <1>7, NodePortAssumption
    <3>2. OwnPod(t) => nextPort \notin t.ports
      BY <2>2, <3>1
    <3>3. NodePortPod(t) => nextPort \notin t.ports
      BY <1>7, NodePortAssumption DEF NodePortPod
    <3>4. QED
      BY <2>1, <2>4, <3>2, <3>3
  <2>5. CASE NodePortPod(t) /\ OwnPod(new)
    <3>1. PICK p \in NodePortMin .. nextPort - 1 : p <= NodePortMax /\ t.ports = {p}
      BY <2>5 DEF NodePortPod
    <3>2. p \in NodePortMin .. NodePortMax
      BY <3>1, <1>7, NodePortAssumption
    <3>3. p \notin new.ports
      BY <2>2, <2>5, <3>2
    <3>4. QED
      BY <3>1, <3>3
  <2>6. QED
    BY <2>1, <2>3, <2>4, <2>5, <1>9
<1>15. HostPortsDistinct'
  BY <1>1, <1>8, <1>14, <1>0 DEF ContainersInv, HostPortsDistinct
<1>16. QED
  BY <1>8, <1>13, <1>15 DEF ContainersInv

\* Where a container comes from does not change after the architecture is done.
LEMMA OriginsStay ==
  ASSUME UNCHANGED vars, NEW t
  PROVE  ComposeContainer(t)' <=> ComposeContainer(t)
<1>1. \A e : ContainerOf(e)' = ContainerOf(e)
  BY DEF vars, ContainerOf, Published, OfLayer
<1>2. QED
  BY <1>1 DEF vars, ComposeContainer, OfTelemetry

\* Containers and pods keep to ports of their own.
LEMMA ContainersInvariant == DSpec => [](Architected /\ StagedInv /\ PortsInv /\ ContainersInv)
<1>1. DInit => ContainersInv
  BY DEF DInit, EInit, ContainersInv, HostPortsDistinct
<1>2. Architected /\ StagedInv /\ PortsInv /\ ContainersInv /\ [DNext]_dvars => ContainersInv'
  <2> SUFFICES ASSUME Architected, StagedInv, PortsInv, ContainersInv, EStep \/ evars' = evars
               PROVE  ContainersInv'
    BY DeploymentSteps
  <2>1. CASE Build
    <3>1. containers' = {} /\ cfg' = cfg
      BY <2>1, StepKeepsConfig DEF Build, files, StagedInv, Early
    <3>2. QED
      BY <3>1 DEF ContainersInv, HostPortsDistinct
  <2>2. CASE UNCHANGED <<vars, containers, nextPort>>
    <3>1. \A t : ComposeContainer(t)' <=> ComposeContainer(t)
      BY <2>2, OriginsStay
    <3>2. \A t : (OwnPod(t)' <=> OwnPod(t)) /\ (NodePortPod(t)' <=> NodePortPod(t))
      BY <2>2 DEF vars, OwnPod, NodePortPod, OwnPorts, PodNames
    <3>3. HostPortsDistinct' <=> HostPortsDistinct
      BY <2>2 DEF vars, HostPortsDistinct, PortsForeseen
    <3>4. cfg' = cfg /\ phase' = phase /\ containers' = containers
      BY <2>2 DEF vars
    <3>5. QED
      BY <3>1, <3>2, <3>3, <3>4 DEF ContainersInv
  <2>3. CASE WriteContainer \/ WriteTelemetry
    <3>1. step = "export" /\ ~cfg.args.kubernetes /\ UNCHANGED vars
      BY <2>3 DEF WriteContainer, WriteTelemetry, Takes
    <3>2. PICK new : containers' = containers \cup {new} /\ ComposeContainer(new)
      BY <2>3 DEF WriteContainer, WriteTelemetry, ComposeContainer, OfTelemetry
    <3>3. \A t : ComposeContainer(t)' <=> ComposeContainer(t)
      BY <3>1, OriginsStay
    <3>4. phase = "done" /\ phase' = phase /\ cfg' = cfg
      BY <3>1 DEF StagedInv, Early, vars
    <3>5. QED
      BY <3>1, <3>2, <3>3, <3>4 DEF ContainersInv
  <2>4. CASE ExportPod
    <3>1. phase = "done"
      BY <2>4 DEF ExportPod, Takes, StagedInv, Early
    <3>2. IsConfig(cfg) /\ CheckConfig(cfg)
      BY <3>1, Relied DEF Architected
    <3>3. QED
      BY <2>4, <3>1, <3>2, ExportPodKeepsDistinct
  <2>5. QED
    BY <2>1, <2>2, <2>3, <2>4
    DEF EStep, CheckArguments, StartExport, WriteNetworks, GenerateMeshnet, NodePortsExhausted,
      Written, evars, files, Takes
<1>3. QED
  BY <1>1, <1>2, ArchitectedInvariant, StagedInvariant, PortsInvariant, PTL DEF DSpec

\* No two containers or pods publish one host port, whatever the services, flags and
\* telemetry, where check_unique_ports knows of the ports (config_parser.py,
\* check_unique_ports; services.py; kubernetes.py, next_node_port).
THEOREM HostPortsDistinctTheorem == DSpec => []HostPortsDistinct
<1>1. Architected /\ ContainersInv => HostPortsDistinct
  <2> SUFFICES ASSUME Architected, ContainersInv, PortsForeseen(cfg),
                      NEW t \in containers, NEW u \in containers, t # u
               PROVE  t.ports \cap u.ports = {}
    BY DEF HostPortsDistinct
  <2>1. IsConfig(cfg) /\ CheckConfig(cfg)
    BY Relied DEF Architected, ContainersInv
  <2>2. CASE cfg.args.kubernetes
    BY <2>2 DEF ContainersInv, HostPortsDistinct
  <2>3. CASE ~cfg.args.kubernetes
    BY <2>1, <2>3, ComposePortsDistinct DEF ContainersInv
  <2>4. QED
    BY <2>2, <2>3
<1>2. QED
  BY <1>1, ContainersInvariant, PTL

----
(***************************************************************************)
(* What the files hold: the invariants.                                    *)
(***************************************************************************)
Steps == {"arguments", "build", "export", "written", "refused", "failed"}
Items == PodNames \cup {"networks", "meshnet"}
Blocks == ({"link"} \X OfLayer(2)) \cup ({"entity"} \X Entities(cfg))

\* What the files are made of.
FilesInv ==
  /\ step \in Steps
  /\ step \in Early => todo = <<>> /\ declared = {} /\ script = <<>> /\ nodePorts = {}
  /\ todo \in Seq(Items)
  /\ declared \subseteq {TelemetryNet} \cup OfLayer(3)
  /\ \A t \in containers : t.name \in PodNames /\ t.ports \subseteq Nat
  /\ script \in Seq(Blocks)
  /\ nodePorts \subseteq PodNames \X Nat \X Nat
  /\ nextPort \in NodePortMin .. NodePortMax + 1

\* What the exporter takes the items from, and what it made of one it has taken.
Order(c) == IF c.args.kubernetes THEN K8sOrder(c) ELSE ComposeOrder(c)
HasBlock(block) == block \in Range(script)
HasContainer(n) == \E t \in containers : t.name = n

ComposeExported(item) ==
  /\ item = "networks" =>
       /\ declared = OfLayer(3) \cup IF cfg.args.jaeger THEN {TelemetryNet} ELSE {}
       /\ \A k \in OfLayer(2) : HasBlock(<<"link", k>>)
  /\ item \in Entities(cfg) =>
       ContainerOf(item) \in containers /\ (IsSwitch(cfg, item) \/ HasBlock(<<"entity", item>>))
  /\ item \in {Jaeger, Collector} => HasContainer(item)

K8sExported(item) ==
  /\ item = "meshnet" => links = AllLinks
  /\ item \in PodNames => HasContainer(item)
  /\ item \in Entities(cfg) /\ cfg.kind[item] = "external" => HasBlock(<<"entity", item>>)

Exported(item) == IF cfg.args.kubernetes THEN K8sExported(item) ELSE ComposeExported(item)

LinksFirst == \A i, j \in DOMAIN script : i < j /\ script[j][1] = "link" => script[i][1] = "link"
ExternalsOnly == \A i \in DOMAIN script : script[i][1] = "entity" /\ cfg.kind[script[i][2]] = "external"

\* What the exporter has taken is in the files, and the networks come first.
ProgressInv ==
  step \in {"export", "written"} /\ NamesFree(cfg) =>
    /\ step = "written" => todo = <<>>
    /\ \A item \in Range(Order(cfg)) : item \in Range(todo) \/ Exported(item)
    /\ \A i \in DOMAIN todo : todo[i] = "networks" => i = 1 /\ script = <<>>
    /\ IF cfg.args.kubernetes THEN ExternalsOnly ELSE LinksFirst

----
(***************************************************************************)
(* Lists of entities and of blocks.                                        *)
(***************************************************************************)
\* What a list loses with its head.
LEMMA TailShape ==
  ASSUME NEW S, NEW s \in Seq(S), s # <<>>
  PROVE  /\ Head(s) = s[1] /\ Head(s) \in S /\ Tail(s) \in Seq(S)
         /\ \A i \in DOMAIN Tail(s) : i \in Nat \ {0} /\ i + 1 \in DOMAIN s /\ Tail(s)[i] = s[i + 1]
         /\ Range(s) = {Head(s)} \cup Range(Tail(s))
<1>1. /\ Len(s) \in Nat \ {0} /\ DOMAIN s = 1 .. Len(s) /\ Head(s) = s[1] /\ Head(s) \in S
      /\ Tail(s) \in Seq(S) /\ Len(Tail(s)) = Len(s) - 1
      /\ \A i \in 1 .. Len(Tail(s)) : Tail(s)[i] = s[i + 1]
  BY HeadTailProperties, EmptySeq
<1>2. DOMAIN Tail(s) = 1 .. Len(s) - 1
  BY <1>1
<1> DEFINE t == Tail(s)
           n == Len(s)
<1> HIDE DEF t, n
<1>3. /\ n \in Nat \ {0} /\ DOMAIN s = 1 .. n /\ DOMAIN t = 1 .. n - 1
      /\ \A i \in 1 .. n - 1 : t[i] = s[i + 1]
  BY <1>1, <1>2 DEF t, n
<1>4. ASSUME NEW i \in 1 .. n PROVE s[i] \in {s[1]} \cup Range(t)
  <2>1. i = 1 \/ (i - 1 \in 1 .. n - 1 /\ t[i - 1] = s[i])
    BY <1>3
  <2>2. QED
    BY <2>1, <1>3 DEF Range
<1>5. ASSUME NEW i \in 1 .. n - 1 PROVE t[i] \in Range(s)
  <2>1. i + 1 \in 1 .. n /\ t[i] = s[i + 1]
    BY <1>3
  <2>2. QED
    BY <2>1, <1>3 DEF Range
<1>6. s[1] \in Range(s)
  <2>1. 1 \in 1 .. n
    BY <1>3
  <2>2. QED
    BY <2>1, <1>3 DEF Range
<1>7. Range(s) \subseteq {s[1]} \cup Range(t)
  BY <1>3, <1>4 DEF Range
<1>8. Range(t) \subseteq Range(s)
  BY <1>3, <1>5 DEF Range
<1>9. Range(s) = {s[1]} \cup Range(t)
  BY <1>6, <1>7, <1>8
<1>10. \A i \in 1 .. n - 1 : i \in Nat \ {0} /\ i + 1 \in 1 .. n
  BY <1>3
<1>11. QED
  BY <1>1, <1>2, <1>3, <1>9, <1>10 DEF t, n

\* write_entity_type writes the entities of its kinds and no others.
LEMMA OfKindFacts ==
  ASSUME NEW c, IsConfig(c), NEW kinds
  PROVE  /\ OfKind(c, kinds) \in Seq(Entities(c))
         /\ Range(OfKind(c, kinds)) = {e \in Entities(c) : c.kind[e] \in kinds}
<1> DEFINE P == {i \in DOMAIN c.order : c.kind[c.order[i]] \in kinds}
           s == Sublist(c.order, P)
<1>1. c.order \in Seq(Entities(c)) /\ Range(c.order) = Entities(c)
  BY DEF IsConfig, Entities
<1>2. DOMAIN c.order = 1 .. Len(c.order) /\ Len(c.order) \in Nat /\ \A i \in DOMAIN c.order : c.order[i] \in Entities(c)
  BY <1>1
<1>3. IsFiniteSet(P) /\ P \subseteq Int
  <2>1. IsFiniteSet(1 .. Len(c.order))
    BY <1>2, FS_Interval
  <2>2. P \subseteq 1 .. Len(c.order)
    BY <1>2
  <2>3. QED
    BY <1>2, <2>1, <2>2, FS_Subset
<1>4. \A i \in P : c.order[i] \in Entities(c)
  BY <1>2
<1>5. s \in Seq(Entities(c)) /\ \A x : x \in Range(s) <=> \E i \in P : x = c.order[i]
  <2> HIDE DEF P
  <2>1. QED
    BY <1>3, <1>4, SublistRange
<1>6. ASSUME NEW e \in Entities(c), c.kind[e] \in kinds PROVE \E i \in P : e = c.order[i]
  BY <1>1, <1>6 DEF Range
<1>7. \A i \in P : c.order[i] \in Entities(c) /\ c.kind[c.order[i]] \in kinds
  BY <1>4
<1>8. OfKind(c, kinds) = s
  BY DEF OfKind
<1> HIDE DEF s, P
<1>9. QED
  BY <1>5, <1>6, <1>7, <1>8

\* Two lists, one after the other.
LEMMA Joint ==
  ASSUME NEW S, NEW s \in Seq(S), NEW t \in Seq(S)
  PROVE  s \o t \in Seq(S) /\ Range(s \o t) = Range(s) \cup Range(t)
BY ConcatProperties, RangeConcatenation

\* What the exporters write: the telemetry the flags ask for, every entity of a known kind
\* and, first of all, the networks.
LEMMA OrderFacts ==
  ASSUME NEW c, IsConfig(c), CheckConfig(c)
  PROVE  /\ Telemetry(c) \in Seq({Jaeger, Collector})
         /\ Range(Telemetry(c)) = (IF c.args.jaeger THEN {Jaeger} ELSE {}) \cup (IF c.args.clt THEN {Collector} ELSE {})
         /\ \E rest \in Seq(Entities(c) \cup {Jaeger, Collector}) :
              /\ Order(c) = (IF c.args.kubernetes THEN <<"meshnet">> ELSE <<"networks">>) \o rest
              /\ Range(rest) = Entities(c) \cup Range(Telemetry(c))
<1> DEFINE E == Entities(c) \cup {Jaeger, Collector}
           ui == IF c.args.jaeger THEN <<Jaeger>> ELSE <<>>
           collector == IF c.args.clt THEN <<Collector>> ELSE <<>>
           telemetry == Telemetry(c)
           switches == OfKind(c, {"switch"})
           routers == OfKind(c, {"router"})
           firewalls == OfKind(c, {"firewall"})
           hostList == OfKind(c, EndHost)
           Of(kinds) == {e \in Entities(c) : c.kind[e] \in kinds}
<1>1. /\ ui \in Seq({Jaeger, Collector}) /\ collector \in Seq({Jaeger, Collector})
      /\ Range(ui) = (IF c.args.jaeger THEN {Jaeger} ELSE {}) /\ Range(collector) = (IF c.args.clt THEN {Collector} ELSE {})
  <2>1. \A x : DOMAIN <<x>> = {1} /\ <<x>>[1] = x
    OBVIOUS
  <2>2. \A x : Range(<<x>>) = {x}
    BY <2>1 DEF Range
  <2>3. Range(<<>>) = {}
    BY DEF Range
  <2>4. (c.args.jaeger /\ ui = <<Jaeger>>) \/ (~c.args.jaeger /\ ui = <<>>)
    OBVIOUS
  <2>5. (c.args.clt /\ collector = <<Collector>>) \/ (~c.args.clt /\ collector = <<>>)
    OBVIOUS
  <2>6. <<>> \in Seq({Jaeger, Collector}) /\ <<Jaeger>> \in Seq({Jaeger, Collector}) /\ <<Collector>> \in Seq({Jaeger, Collector})
    OBVIOUS
  <2> HIDE DEF ui, collector
  <2>7. QED
    BY <2>2, <2>3, <2>4, <2>5, <2>6
<1>2. telemetry = ui \o collector
  BY DEF Telemetry
<1>3. telemetry \in Seq({Jaeger, Collector}) /\ Range(telemetry) = Range(ui) \cup Range(collector)
  <2> HIDE DEF ui, collector, telemetry
  <2>1. QED
    BY <1>1, <1>2, Joint
<1>4. telemetry \in Seq(E)
  <2> HIDE DEF telemetry
  <2>1. QED
    BY <1>3
<1>5. /\ switches \in Seq(E) /\ routers \in Seq(E) /\ firewalls \in Seq(E) /\ hostList \in Seq(E)
      /\ Range(switches) = Of({"switch"}) /\ Range(routers) = Of({"router"})
      /\ Range(firewalls) = Of({"firewall"}) /\ Range(hostList) = Of(EndHost)
  <2>1. ASSUME NEW kinds PROVE OfKind(c, kinds) \in Seq(E) /\ Range(OfKind(c, kinds)) = Of(kinds)
    <3>1. OfKind(c, kinds) \in Seq(Entities(c)) /\ Range(OfKind(c, kinds)) = Of(kinds)
      BY OfKindFacts
    <3>2. QED
      BY <3>1
  <2>2. QED
    BY <2>1
<1>6. Entities(c) = Of({"switch"}) \cup Of({"router"}) \cup Of({"firewall"}) \cup Of(EndHost)
  BY DEF CheckConfig, CommonFields, Kinds, EndHost
<1>7. c.args.kubernetes => Of({"switch"}) = {}
  BY NoSwitchesOnKubernetes DEF IsSwitch
<1> HIDE DEF telemetry, switches, routers, firewalls, hostList, E, Of
<1>8. CASE c.args.kubernetes
  <2> DEFINE two == firewalls \o telemetry
             three == hostList \o two
             rest == routers \o three
  <2>1. K8sOrder(c) = <<"meshnet">> \o rest
    BY DEF K8sOrder, routers, hostList, firewalls, telemetry
  <2>2. Order(c) = <<"meshnet">> \o rest
    BY <1>8, <2>1 DEF Order
  <2>3. two \in Seq(E) /\ Range(two) = Range(firewalls) \cup Range(telemetry)
    BY <1>4, <1>5, Joint
  <2> HIDE DEF two
  <2>4. three \in Seq(E) /\ Range(three) = Range(hostList) \cup Range(two)
    BY <1>4, <1>5, <2>3, Joint
  <2> HIDE DEF three
  <2>5. rest \in Seq(E) /\ Range(rest) = Range(routers) \cup Range(three)
    BY <1>4, <1>5, <2>4, Joint
  <2> HIDE DEF rest
  <2>6. Range(rest) = Entities(c) \cup Range(telemetry)
    BY <1>5, <1>6, <1>7, <1>8, <2>3, <2>4, <2>5
  <2>7. QED
    BY <1>1, <1>3, <1>8, <2>2, <2>5, <2>6 DEF E, telemetry
<1>9. CASE ~c.args.kubernetes
  <2> DEFINE two == firewalls \o hostList
             three == routers \o two
             four == switches \o three
             rest == telemetry \o four
  <2>1. ComposeOrder(c) = <<"networks">> \o rest
    BY DEF ComposeOrder, telemetry, switches, routers, firewalls, hostList
  <2>2. Order(c) = <<"networks">> \o rest
    BY <1>9, <2>1 DEF Order
  <2>3. two \in Seq(E) /\ Range(two) = Range(firewalls) \cup Range(hostList)
    BY <1>4, <1>5, Joint
  <2> HIDE DEF two
  <2>4. three \in Seq(E) /\ Range(three) = Range(routers) \cup Range(two)
    BY <1>4, <1>5, <2>3, Joint
  <2> HIDE DEF three
  <2>5. four \in Seq(E) /\ Range(four) = Range(switches) \cup Range(three)
    BY <1>4, <1>5, <2>4, Joint
  <2> HIDE DEF four
  <2>6. rest \in Seq(E) /\ Range(rest) = Range(telemetry) \cup Range(four)
    BY <1>4, <1>5, <2>5, Joint
  <2> HIDE DEF rest
  <2>7. Range(rest) = Entities(c) \cup Range(telemetry)
    BY <1>5, <1>6, <2>3, <2>4, <2>5, <2>6
  <2>8. QED
    BY <1>1, <1>3, <1>9, <2>2, <2>6, <2>7 DEF E, telemetry
<1>10. QED
  BY <1>8, <1>9

----
(***************************************************************************)
(* The files.                                                              *)
(***************************************************************************)
\* What the exporters rely on.
Exporting == Architected /\ StagedInv /\ PortsInv /\ ContainersInv /\ LinksInv

\* It holds in every state of a deployment.
LEMMA ExportingInvariant == DSpec => []Exporting
BY ContainersInvariant, LinksInvariant, PTL DEF Exporting

\* The ports of an entity are port numbers.
LEMMA ServicesPorts ==
  ASSUME PortsInv, NEW e \in Entities(cfg)
  PROVE  cfg.ports[e] \subseteq Nat
<1>1. cfg.ports \in [Entities(cfg) -> SUBSET Ports]
  BY ConfigsAssumption DEF PortsInv, IsConfig, Entities
<1>2. cfg.ports[e] \in SUBSET Ports
  BY <1>1
<1>3. QED
  BY <1>2, PortsAssumption

\* The ports of pods are port numbers.
LEMMA PortsAreNumbers ==
  ASSUME PortsInv, NEW n \in PodNames
  PROVE  HostPorts(n) \subseteq Nat /\ ServicePorts(n) \subseteq Nat
<1>1. JaegerPorts \subseteq Nat /\ {UiPort} \subseteq Nat /\ {CollectorPort} \subseteq Nat /\ {nextPort} \subseteq Nat
  BY DEF JaegerPorts, UiPort, CollectorPort, PortsInv, PortsBehind
<1>2. \A e \in Entities(cfg) : cfg.ports[e] \subseteq Nat
  BY ServicesPorts
<1>3. QED
  BY <1>1, <1>2 DEF HostPorts, ServicePorts, PodNames

\* The items written first to last are of the known kinds.
LEMMA OrderType ==
  ASSUME IsConfig(cfg), CheckConfig(cfg)
  PROVE  Order(cfg) \in Seq(Items)
<1> DEFINE first == IF cfg.args.kubernetes THEN <<"meshnet">> ELSE <<"networks">>
<1>1. PICK rest \in Seq(PodNames) : Order(cfg) = first \o rest
  BY OrderFacts DEF PodNames
<1>2. first \in Seq(Items)
  <2>1. first = <<"meshnet">> \/ first = <<"networks">>
    OBVIOUS
  <2>2. <<"meshnet">> \in Seq(Items) /\ <<"networks">> \in Seq(Items)
    BY DEF Items
  <2>3. QED
    BY <2>1, <2>2
<1>3. rest \in Seq(Items)
  BY DEF Items
<1> HIDE DEF first
<1>4. QED
  BY <1>1, <1>2, <1>3, Joint

\* The layer 2 networks become blocks.
LinkBlocks == Sublist([k \in DOMAIN networks |-> <<"link", k>>], OfLayer(2))
LEMMA LinkBlocksFacts ==
  ASSUME Architected
  PROVE  /\ LinkBlocks \in Seq({"link"} \X OfLayer(2))
         /\ \A k \in OfLayer(2) : <<"link", k>> \in Range(LinkBlocks)
<1> DEFINE P == OfLayer(2)
           s == [k \in DOMAIN networks |-> <<"link", k>>]
<1>1. DOMAIN networks = 1 .. Len(networks) /\ Len(networks) \in Nat
  BY DEF Architected, NumberedInv
<1>2. IsFiniteSet(P) /\ P \subseteq Int
  <2>1. IsFiniteSet(1 .. Len(networks))
    BY <1>1, FS_Interval
  <2>2. P \subseteq 1 .. Len(networks)
    BY <1>1 DEF OfLayer
  <2>3. QED
    BY <1>1, <2>1, <2>2, FS_Subset
<1>3. \A k \in P : s[k] = <<"link", k>> /\ s[k] \in {"link"} \X P
  BY DEF OfLayer
<1>4. Sublist(s, P) \in Seq({"link"} \X P) /\ \A x : x \in Range(Sublist(s, P)) <=> \E i \in P : x = s[i]
  <2> DEFINE S == {"link"} \X P
  <2>1. \A i \in P : s[i] \in S
    BY <1>3
  <2> HIDE DEF P, s, S
  <2>2. Sublist(s, P) \in Seq(S) /\ \A x : x \in Range(Sublist(s, P)) <=> \E i \in P : x = s[i]
    BY <1>2, <2>1, SublistRange
  <2>3. QED
    BY <2>2 DEF S
<1>5. LinkBlocks = Sublist(s, P)
  BY DEF LinkBlocks
<1>6. \A k \in P : <<"link", k>> \in Range(Sublist(s, P))
  <2> HIDE DEF P, s
  <2>1. QED
    BY <1>3, <1>4
<1>7. QED
  BY <1>4, <1>5, <1>6

\* One item is taken.
LEMMA TakesShape ==
  ASSUME todo \in Seq(Items), NEW item, Takes(item)
  PROVE  /\ step = "export" /\ todo # <<>> /\ Head(todo) = item /\ todo[1] = item /\ todo' \in Seq(Items)
         /\ \A i \in DOMAIN todo' : i \in Nat \ {0} /\ i + 1 \in DOMAIN todo /\ todo'[i] = todo[i + 1]
         /\ Range(todo) = {item} \cup Range(todo')
BY TailShape DEF Takes

\* The blocks do not depend on the files.
LEMMA BlocksStay == UNCHANGED vars => Blocks' = Blocks /\ Items' = Items /\ \A l : OfLayer(l)' = OfLayer(l)
BY DEF vars, Blocks, OfLayer, Items, PodNames

\* Every step keeps the types of the files.
LEMMA FilesKept ==
  ASSUME Exporting, FilesInv, EStep \/ evars' = evars
  PROVE  FilesInv'
<1>1. CASE evars' = evars
  <2>1. UNCHANGED vars /\ UNCHANGED step /\ UNCHANGED files
    BY <1>1 DEF evars
  <2>2. QED
    BY <2>1, BlocksStay DEF FilesInv, files, vars, PodNames
<1>2. CASE CheckArguments \/ Written
  <2>1. UNCHANGED vars /\ UNCHANGED files /\ step' \in Steps /\ (step' \in Early => step \in Early)
    BY <1>2 DEF CheckArguments, Written, Steps, Early
  <2>2. QED
    BY <2>1, BlocksStay DEF FilesInv, files, vars, PodNames
<1>3. CASE Build
  <2>1. step \in Early /\ step' = step /\ UNCHANGED files /\ cfg' = cfg /\ containers = {}
    BY <1>3, StepKeepsConfig DEF Build, Early, Exporting, StagedInv
  <2>2. QED
    BY <2>1 DEF FilesInv, files, PodNames, Items
<1>4. CASE StartExport
  <2>1. UNCHANGED vars /\ step' = "export" /\ todo' = Order(cfg)
        /\ UNCHANGED <<declared, containers, script, links, nodePorts, nextPort>>
    BY <1>4 DEF StartExport, Order
  <2>2. phase = "done"
    BY <1>4 DEF StartExport
  <2>3. IsConfig(cfg) /\ CheckConfig(cfg)
    BY <2>2, Relied DEF Exporting, Architected
  <2>4. QED
    BY <2>1, <2>3, OrderType, BlocksStay DEF FilesInv, vars, PodNames, Early, Steps
<1>5. CASE WriteNetworks \/ GenerateMeshnet
  <2>1. UNCHANGED vars /\ step' = step /\ UNCHANGED <<containers, nodePorts, nextPort>>
    BY <1>5 DEF WriteNetworks, GenerateMeshnet
  <2>2. step = "export" /\ todo' \in Seq(Items)
    BY <1>5, TakesShape DEF WriteNetworks, GenerateMeshnet, FilesInv
  <2>3. declared' \subseteq {TelemetryNet} \cup OfLayer(3)
    BY <1>5 DEF WriteNetworks, GenerateMeshnet, FilesInv
  <2>4. script' \in Seq(Blocks)
    <3>1. LinkBlocks \in Seq(Blocks)
      BY LinkBlocksFacts DEF Exporting, Blocks
    <3>2. script' = script \/ script' = script \o LinkBlocks
      BY <1>5 DEF WriteNetworks, GenerateMeshnet, LinkBlocks
    <3>3. script \in Seq(Blocks)
      BY DEF FilesInv
    <3>4. script \o LinkBlocks \in Seq(Blocks)
      BY <3>1, <3>3, Joint
    <3>5. QED
      BY <3>2, <3>3, <3>4
  <2>5. QED
    BY <2>1, <2>2, <2>3, <2>4, BlocksStay DEF FilesInv, vars, PodNames, Early
<1>6. CASE WriteContainer \/ WriteTelemetry
  <2>1. UNCHANGED vars /\ step' = step /\ UNCHANGED <<declared, nodePorts, nextPort>>
    BY <1>6 DEF WriteContainer, WriteTelemetry
  <2>2. step = "export" /\ todo' \in Seq(Items)
    BY <1>6, TakesShape DEF WriteContainer, WriteTelemetry, FilesInv
  <2>3. script' \in Seq(Blocks)
    <3>1. script' = script \/ \E e \in Entities(cfg) : script' = Append(script, <<"entity", e>>)
      BY <1>6 DEF WriteContainer, WriteTelemetry
    <3>2. \A e \in Entities(cfg) : <<"entity", e>> \in Blocks
      BY DEF Blocks
    <3>3. script \in Seq(Blocks)
      BY DEF FilesInv
    <3>4. \A block \in Blocks : Append(script, block) \in Seq(Blocks)
      BY <3>3
    <3>5. QED
      BY <3>1, <3>2, <3>3, <3>4
  <2>4. \E t : containers' = containers \cup {t} /\ t.name \in PodNames /\ t.ports \subseteq Nat
    <3>1. ASSUME NEW e \in Entities(cfg) PROVE ContainerOf(e).name = e /\ ContainerOf(e).ports \subseteq Nat
      <4>1. cfg.ports[e] \subseteq Nat
        BY ServicesPorts DEF Exporting
      <4>2. QED
        BY <4>1 DEF ContainerOf, Container, Published
    <3>2. CASE WriteContainer
      BY <3>1, <3>2 DEF WriteContainer, PodNames
    <3>3. CASE WriteTelemetry
      <4>1. \A n, nets, deps, ports : Container(n, nets, deps, ports).name = n /\ Container(n, nets, deps, ports).ports = ports
        BY DEF Container
      <4>2. Jaeger \in PodNames /\ Collector \in PodNames /\ JaegerPorts \subseteq Nat /\ {} \subseteq Nat
        BY DEF PodNames, JaegerPorts
      <4>3. CASE containers' = containers \cup {Container(Jaeger, {TelemetryNet}, {}, JaegerPorts)}
        <5>1. PICK t : t = Container(Jaeger, {TelemetryNet}, {}, JaegerPorts)
          OBVIOUS
        <5>2. t.name = Jaeger /\ t.ports = JaegerPorts
          BY <4>1, <5>1
        <5>3. QED
          BY <4>2, <4>3, <5>1, <5>2
      <4>4. CASE containers' = containers \cup {Container(Collector, {TelemetryNet}, {Jaeger}, {})}
        <5>1. PICK t : t = Container(Collector, {TelemetryNet}, {Jaeger}, {})
          OBVIOUS
        <5>2. t.name = Collector /\ t.ports = {}
          BY <4>1, <5>1
        <5>3. QED
          BY <4>2, <4>4, <5>1, <5>2
      <4>5. QED
        BY <3>3, <4>3, <4>4 DEF WriteTelemetry
    <3>4. QED
      BY <1>6, <3>2, <3>3
  <2>5. QED
    BY <2>1, <2>2, <2>3, <2>4, BlocksStay DEF FilesInv, vars, PodNames, Early
<1>7. CASE ExportPod
  <2>1. UNCHANGED vars /\ step' = step /\ UNCHANGED <<declared, links>>
    BY <1>7 DEF ExportPod
  <2>2. PICK n \in PodNames :
          /\ Takes(n)
          /\ nextPort + Cardinality(ServicePorts(n)) <= NodePortMax + 1
          /\ \E number \in Numberings(ServicePorts(n)) :
               /\ nodePorts' = nodePorts \cup {<<n, number[i], nextPort + i - 1>> : i \in DOMAIN number}
               /\ nextPort' = NextNodePorts(number)
          /\ containers' = containers \cup {Container(n, {}, {}, HostPorts(n))}
          /\ script' = IF n \in Entities(cfg) /\ cfg.kind[n] = "external"
                       THEN Append(script, <<"entity", n>>) ELSE script
    BY <1>7 DEF ExportPod
  <2>3. PICK number \in Numberings(ServicePorts(n)) :
          /\ nodePorts' = nodePorts \cup {<<n, number[i], nextPort + i - 1>> : i \in DOMAIN number}
          /\ nextPort' = NextNodePorts(number)
    BY <2>2
  <2> DEFINE size == Cardinality(ServicePorts(n))
  <2>4. size \in Nat /\ nextPort \in Nat /\ HostPorts(n) \subseteq Nat /\ ServicePorts(n) \subseteq Nat
    BY ServicePortsFinite, PortsAreNumbers DEF Exporting, PortsInv, PortsBehind
  <2>5. number \in [1 .. size -> ServicePorts(n)]
    BY DEF Numberings
  <2>6. DOMAIN number = 1 .. size /\ Len(number) = size
    <3> HIDE DEF size
    <3>1. QED
      BY <2>4, <2>5
  <2>7. nextPort' \in NodePortMin .. NodePortMax + 1
    <3>1. nextPort' = nextPort + size /\ nextPort + size <= NodePortMax + 1 /\ NodePortMin <= nextPort
      BY <2>2, <2>3, <2>6 DEF NextNodePorts, Exporting, PortsInv, PortsBehind
    <3> HIDE DEF size
    <3>2. QED
      BY <3>1, <2>4, NodePortAssumption
  <2>8. nodePorts' \subseteq PodNames \X Nat \X Nat
    <3> HIDE DEF size
    <3>1. ASSUME NEW i \in DOMAIN number PROVE number[i] \in Nat /\ nextPort + i - 1 \in Nat
      BY <2>4, <2>5, <2>6
    <3>2. QED
      BY <2>3, <3>1 DEF FilesInv
  <2>9. step = "export" /\ todo' \in Seq(Items)
    BY <2>2, TakesShape DEF FilesInv
  <2>10. script' \in Seq(Blocks)
    BY <2>2 DEF FilesInv, Blocks
  <2>11. \A t \in containers' : t.name \in PodNames /\ t.ports \subseteq Nat
    BY <2>2, <2>4 DEF FilesInv, Container
  <2>12. QED
    BY <2>1, <2>7, <2>8, <2>9, <2>10, <2>11, BlocksStay DEF FilesInv, vars, PodNames, Early
<1>8. CASE NodePortsExhausted
  <2>1. UNCHANGED vars /\ step' = "failed" /\ UNCHANGED <<declared, containers, script, links, nodePorts, nextPort>>
    BY <1>8 DEF NodePortsExhausted
  <2>2. step = "export" /\ todo' \in Seq(Items)
    BY <1>8, TakesShape DEF NodePortsExhausted, FilesInv
  <2>3. QED
    BY <2>1, <2>2, BlocksStay DEF FilesInv, vars, PodNames, Early, Steps
<1>9. QED
  BY <1>1, <1>2, <1>3, <1>4, <1>5, <1>6, <1>7, <1>8 DEF EStep

\* The types of the files.
LEMMA FilesInvariant == DSpec => [](Exporting /\ FilesInv)
<1>1. DInit => FilesInv
  <2>1. <<>> \in Seq(Items) /\ <<>> \in Seq(Blocks)
    OBVIOUS
  <2>2. NodePortMin \in NodePortMin .. NodePortMax + 1
    BY NodePortAssumption
  <2>3. QED
    BY <2>1, <2>2 DEF DInit, EInit, FilesInv, Steps
<1>2. Exporting /\ FilesInv /\ [DNext]_dvars => FilesInv'
  BY FilesKept, DeploymentSteps
<1>3. QED
  BY <1>1, <1>2, ExportingInvariant, PTL DEF DSpec

----
(***************************************************************************)
(* What the exporters have written.                                        *)
(***************************************************************************)
\* The names of the exporters are apart.
LEMMA ItemsApart ==
  ASSUME NamesFree(cfg)
  PROVE  /\ {Jaeger, Collector, "networks", "meshnet"} \cap Entities(cfg) = {}
         /\ "networks" \notin PodNames /\ "meshnet" \notin PodNames /\ Jaeger # Collector
         /\ "networks" # "meshnet"
BY DEF NamesFree, PodNames, Jaeger, Collector

\* A list that grows keeps its members.
LEMMA BlockAppended ==
  ASSUME script \in Seq(Blocks), NEW block \in Blocks, script' = Append(script, block)
  PROVE  /\ Range(script') = Range(script) \cup {block}
         /\ \A i \in DOMAIN script' :
              \/ i \in DOMAIN script /\ script'[i] = script[i]
              \/ i \notin DOMAIN script /\ script'[i] = block /\ \A j \in DOMAIN script : j < i
<1>1. script \in Seq(Range(script))
  BY SeqOfRange
<1>2. Range(script') = Range(script) \cup {block}
  BY <1>1, AppendRange
<1>3. /\ Len(script) \in Nat /\ DOMAIN script = 1 .. Len(script) /\ DOMAIN script' = 1 .. Len(script) + 1
      /\ \A i \in 1 .. Len(script) : script'[i] = script[i]
      /\ script'[Len(script) + 1] = block
  BY AppendShape
<1>4. QED
  BY <1>2, <1>3

\* One item behind: what was exported still is, and the item now.
Further(item) ==
  /\ UNCHANGED vars /\ step' = step /\ Takes(item) /\ Exported(item)'
  /\ \A other \in Range(Order(cfg)) : other # item /\ Exported(other) => Exported(other)'
  /\ IF cfg.args.kubernetes THEN ExternalsOnly' ELSE LinksFirst'

\* A step that goes further keeps ProgressInv.
LEMMA FurtherKeeps ==
  ASSUME FilesInv, ProgressInv, NEW item, Further(item)
  PROVE  ProgressInv'
<1>1. /\ step = "export" /\ step' = "export" /\ cfg' = cfg
      /\ \A i \in DOMAIN todo' : i \in Nat \ {0} /\ i + 1 \in DOMAIN todo /\ todo'[i] = todo[i + 1]
      /\ Range(todo) = {item} \cup Range(todo')
  BY TakesShape DEF Further, FilesInv, vars
<1>2. SUFFICES ASSUME NamesFree(cfg) PROVE
        /\ \A other \in Range(Order(cfg)) : other \in Range(todo') \/ Exported(other)'
        /\ \A i \in DOMAIN todo' : todo'[i] = "networks" => i = 1 /\ script' = <<>>
        /\ IF cfg.args.kubernetes THEN ExternalsOnly' ELSE LinksFirst'
  BY <1>1 DEF ProgressInv, Order, K8sOrder, ComposeOrder
<1>3. /\ \A other \in Range(Order(cfg)) : other \in Range(todo) \/ Exported(other)
      /\ \A i \in DOMAIN todo : todo[i] = "networks" => i = 1
  BY <1>1, <1>2 DEF ProgressInv
<1>4. \A other \in Range(Order(cfg)) : other \in Range(todo') \/ Exported(other)'
  BY <1>1, <1>3 DEF Further
<1>5. \A i \in DOMAIN todo' : todo'[i] # "networks"
  <2> SUFFICES ASSUME NEW i \in DOMAIN todo', todo'[i] = "networks" PROVE FALSE
    OBVIOUS
  <2>1. i \in Nat \ {0} /\ i + 1 = 1
    BY <1>1, <1>3
  <2>2. QED
    BY <2>1
<1>6. QED
  BY <1>4, <1>5 DEF Further

\* What the exporters ask of an item does not change with what they do not write.
LEMMA ExportedStays ==
  ASSUME UNCHANGED vars, NEW item, Exported(item),
         containers \subseteq containers', Range(script) \subseteq Range(script'),
         declared' = declared, links' = links
  PROVE  Exported(item)'
<1>1. ContainerOf(item)' = ContainerOf(item)
  BY DEF vars, ContainerOf, Published, OfLayer
<1>2. AllLinks' = AllLinks
  BY DEF vars, AllLinks, Link, Peer, Eth, EntityIp
<1>3. /\ cfg' = cfg /\ OfLayer(2)' = OfLayer(2) /\ OfLayer(3)' = OfLayer(3)
      /\ PodNames' = PodNames
  BY DEF vars, OfLayer, PodNames
<1>4. HasContainer(item) => HasContainer(item)'
  BY DEF HasContainer
<1>5. \A block : HasBlock(block) => HasBlock(block)'
  BY DEF HasBlock
<1>6. CASE cfg.args.kubernetes
  BY <1>1, <1>2, <1>3, <1>4, <1>5, <1>6 DEF Exported, K8sExported
<1>7. CASE ~cfg.args.kubernetes
  BY <1>1, <1>2, <1>3, <1>4, <1>5, <1>7 DEF Exported, ComposeExported
<1>8. QED
  BY <1>6, <1>7

\* write_networks.
LEMMA NetworksFurther ==
  ASSUME Exporting, FilesInv, ProgressInv, NamesFree(cfg), WriteNetworks
  PROVE  Further("networks")
<1>1. /\ UNCHANGED vars /\ step' = step /\ Takes("networks") /\ ~cfg.args.kubernetes
      /\ declared' = OfLayer(3) \cup IF cfg.args.jaeger THEN {TelemetryNet} ELSE {}
      /\ script' = script \o LinkBlocks /\ UNCHANGED <<containers, links>>
  BY DEF WriteNetworks, LinkBlocks
<1>2. step = "export" /\ todo[1] = "networks" /\ 1 \in DOMAIN todo
  BY <1>1, TakesShape, EmptySeq DEF FilesInv
<1>3. script = <<>>
  BY <1>2 DEF ProgressInv
<1>4. LinkBlocks \in Seq({"link"} \X OfLayer(2)) /\ \A k \in OfLayer(2) : <<"link", k>> \in Range(LinkBlocks)
  BY LinkBlocksFacts DEF Exporting
<1>5. script' = LinkBlocks
  BY <1>1, <1>3, <1>4, ConcatEmptySeq
<1>6. LinksFirst'
  <2>1. \A i \in DOMAIN LinkBlocks : LinkBlocks[i][1] = "link"
    BY <1>4
  <2>2. QED
    BY <1>5, <2>1 DEF LinksFirst
<1>7. OfLayer(2)' = OfLayer(2) /\ OfLayer(3)' = OfLayer(3) /\ cfg' = cfg
  BY <1>1 DEF vars, OfLayer
<1>8. Exported("networks")'
  <2>1. "networks" \notin Entities(cfg) /\ "networks" # Jaeger /\ "networks" # Collector
    BY ItemsApart DEF Jaeger, Collector
  <2>2. \A k \in OfLayer(2)' : HasBlock(<<"link", k>>)'
    BY <1>4, <1>5, <1>7 DEF HasBlock
  <2>3. declared' = OfLayer(3)' \cup IF cfg'.args.jaeger THEN {TelemetryNet} ELSE {}
    BY <1>1, <1>7
  <2>4. ComposeExported("networks")'
    BY <1>7, <2>1, <2>2, <2>3 DEF ComposeExported
  <2>5. QED
    BY <1>1, <1>7, <2>4 DEF Exported
<1>9. ASSUME NEW other, other # "networks", Exported(other) PROVE Exported(other)'
  <2>1. ContainerOf(other)' = ContainerOf(other)
    BY <1>1 DEF vars, ContainerOf, Published, OfLayer
  <2>2. \A block : ~HasBlock(block)
    BY <1>3 DEF HasBlock, Range
  <2>3. HasContainer(other)' = HasContainer(other)
    BY <1>1 DEF HasContainer
  <2>4. QED
    BY <1>1, <1>7, <1>9, <2>1, <2>2, <2>3 DEF Exported, ComposeExported
<1>10. QED
  BY <1>1, <1>6, <1>8, <1>9 DEF Further

\* generate_meshnet.
LEMMA MeshnetFurther ==
  ASSUME Exporting, FilesInv, ProgressInv, NamesFree(cfg), GenerateMeshnet
  PROVE  Further("meshnet")
<1>1. /\ UNCHANGED vars /\ step' = step /\ Takes("meshnet") /\ cfg.args.kubernetes
      /\ links' = AllLinks /\ UNCHANGED <<containers, script>>
  BY DEF GenerateMeshnet, AllLinks
<1>2. AllLinks' = AllLinks /\ cfg' = cfg /\ PodNames' = PodNames
  BY <1>1 DEF vars, AllLinks, Link, Peer, Eth, EntityIp, PodNames
<1>3. step = "export"
  BY <1>1 DEF Takes
<1>4. ExternalsOnly'
  BY <1>1, <1>2, <1>3 DEF ProgressInv, ExternalsOnly
<1>5. "meshnet" \notin Entities(cfg) /\ "meshnet" \notin PodNames
  BY ItemsApart
<1>6. Exported("meshnet")'
  BY <1>1, <1>2, <1>5 DEF Exported, K8sExported
<1>7. ASSUME NEW other, Exported(other) PROVE Exported(other)'
  BY <1>1, <1>2, <1>7 DEF Exported, K8sExported, HasContainer, HasBlock
<1>8. QED
  BY <1>1, <1>4, <1>6, <1>7 DEF Further

\* export_compose of an entity.
LEMMA ContainerFurther ==
  ASSUME Exporting, FilesInv, ProgressInv, NamesFree(cfg), WriteContainer
  PROVE  \E e \in Entities(cfg) : Further(e)
<1>1. PICK e \in Entities(cfg) :
        /\ Takes(e)
        /\ containers' = containers \cup {ContainerOf(e)}
        /\ script' = IF IsSwitch(cfg, e) THEN script ELSE Append(script, <<"entity", e>>)
  BY DEF WriteContainer
<1>2. UNCHANGED vars /\ step' = step /\ ~cfg.args.kubernetes /\ UNCHANGED <<declared, links>>
  BY DEF WriteContainer
<1>3. step = "export" /\ script \in Seq(Blocks)
  BY <1>1 DEF Takes, FilesInv
<1>4. LinksFirst
  BY <1>2, <1>3 DEF ProgressInv
<1> DEFINE block == <<"entity", e>>
<1>5. block \in Blocks /\ block[1] # "link"
  BY DEF Blocks
<1> HIDE DEF block
<1>6. /\ Range(script) \subseteq Range(script')
      /\ IsSwitch(cfg, e) \/ block \in Range(script')
      /\ LinksFirst'
  <2>1. CASE IsSwitch(cfg, e)
    BY <1>1, <1>4, <2>1 DEF LinksFirst
  <2>2. CASE ~IsSwitch(cfg, e)
    <3>1. /\ Range(script') = Range(script) \cup {block}
          /\ \A i \in DOMAIN script' :
               \/ i \in DOMAIN script /\ script'[i] = script[i]
               \/ i \notin DOMAIN script /\ script'[i] = block /\ \A j \in DOMAIN script : j < i
      BY <1>1, <1>3, <1>5, <2>2, BlockAppended DEF block
    <3>2. ASSUME NEW i \in DOMAIN script', NEW j \in DOMAIN script', i < j, script'[j][1] = "link"
          PROVE  script'[i][1] = "link"
      <4>1. j \in DOMAIN script /\ script'[j] = script[j]
        BY <1>5, <3>1, <3>2
      <4>2. i \in Nat /\ j \in Nat
        <5>1. script' \in Seq(Blocks)
          BY <1>1, <1>3, <1>5, <2>2 DEF block
        <5>2. QED
          BY <5>1
      <4>3. i \in DOMAIN script /\ script'[i] = script[i]
        BY <3>1, <3>2, <4>1, <4>2
      <4>4. QED
        BY <1>4, <3>2, <4>1, <4>3 DEF LinksFirst
    <3>3. QED
      BY <3>1, <3>2 DEF LinksFirst
  <2>3. QED
    BY <2>1, <2>2
<1>7. ContainerOf(e)' = ContainerOf(e) /\ cfg' = cfg
  BY <1>2 DEF vars, ContainerOf, Published, OfLayer
<1>8. Exported(e)'
  BY <1>1, <1>2, <1>6, <1>7, ItemsApart DEF Exported, ComposeExported, HasBlock, block
<1>9. \A other \in Range(Order(cfg)) : Exported(other) => Exported(other)'
  BY <1>1, <1>2, <1>6, ExportedStays
<1>10. QED
  BY <1>1, <1>2, <1>6, <1>8, <1>9 DEF Further

\* The containers of Jaeger and of the collector.
LEMMA TelemetryFurther ==
  ASSUME Exporting, FilesInv, ProgressInv, NamesFree(cfg), WriteTelemetry
  PROVE  \E n \in {Jaeger, Collector} : Further(n)
<1>1. UNCHANGED vars /\ step' = step /\ ~cfg.args.kubernetes /\ UNCHANGED <<declared, script, links>>
  BY DEF WriteTelemetry
<1>2. \E n \in {Jaeger, Collector} : Takes(n) /\ \E t : t.name = n /\ containers' = containers \cup {t}
  <2>1. \A n, nets, deps, ports : Container(n, nets, deps, ports).name = n
    BY DEF Container
  <2>2. QED
    BY <2>1 DEF WriteTelemetry
<1>3. PICK n \in {Jaeger, Collector} : Takes(n) /\ \E t : t.name = n /\ containers' = containers \cup {t}
  BY <1>2
<1>4. step = "export"
  BY <1>3 DEF Takes
<1>5. LinksFirst'
  BY <1>1, <1>4 DEF ProgressInv, LinksFirst
<1>6. HasContainer(n)'
  BY <1>3 DEF HasContainer
<1>7. cfg' = cfg /\ n \notin Entities(cfg) /\ n # "networks"
  BY <1>1, <1>3, ItemsApart DEF vars, Jaeger, Collector
<1>8. Exported(n)'
  BY <1>1, <1>6, <1>7 DEF Exported, ComposeExported
<1>9. \A other \in Range(Order(cfg)) : Exported(other) => Exported(other)'
  BY <1>1, <1>3, ExportedStays
<1>10. QED
  BY <1>1, <1>3, <1>5, <1>8, <1>9 DEF Further

\* export_k8s of an entity, and the pods of the telemetry.
LEMMA PodFurther ==
  ASSUME Exporting, FilesInv, ProgressInv, NamesFree(cfg), ExportPod
  PROVE  \E n \in PodNames : Further(n)
<1>1. PICK n \in PodNames :
        /\ Takes(n)
        /\ containers' = containers \cup {Container(n, {}, {}, HostPorts(n))}
        /\ script' = IF n \in Entities(cfg) /\ cfg.kind[n] = "external"
                     THEN Append(script, <<"entity", n>>) ELSE script
  BY DEF ExportPod
<1>2. UNCHANGED vars /\ step' = step /\ cfg.args.kubernetes /\ UNCHANGED <<declared, links>>
  BY DEF ExportPod
<1>3. step = "export" /\ script \in Seq(Blocks)
  BY <1>1 DEF Takes, FilesInv
<1>4. ExternalsOnly
  BY <1>2, <1>3 DEF ProgressInv
<1>5. cfg' = cfg /\ PodNames' = PodNames
  BY <1>2 DEF vars, PodNames
<1>6. /\ Range(script) \subseteq Range(script')
      /\ n \in Entities(cfg) /\ cfg.kind[n] = "external" => <<"entity", n>> \in Range(script')
      /\ ExternalsOnly'
  <2>1. CASE ~(n \in Entities(cfg) /\ cfg.kind[n] = "external")
    BY <1>1, <1>4, <1>5, <2>1 DEF ExternalsOnly
  <2>2. CASE n \in Entities(cfg) /\ cfg.kind[n] = "external"
    <3> DEFINE block == <<"entity", n>>
    <3>1. block \in Blocks /\ block[1] = "entity" /\ block[2] = n /\ script' = Append(script, block)
      BY <1>1, <2>2 DEF Blocks
    <3> HIDE DEF block
    <3>2. /\ Range(script') = Range(script) \cup {block}
          /\ \A i \in DOMAIN script' :
               \/ i \in DOMAIN script /\ script'[i] = script[i]
               \/ i \notin DOMAIN script /\ script'[i] = block /\ \A j \in DOMAIN script : j < i
      BY <1>3, <3>1, BlockAppended
    <3>3. ExternalsOnly'
      BY <1>4, <1>5, <2>2, <3>1, <3>2 DEF ExternalsOnly
    <3>4. QED
      BY <3>2, <3>3 DEF block
  <2>3. QED
    BY <2>1, <2>2
<1>7. HasContainer(n)'
  <2>1. Container(n, {}, {}, HostPorts(n)).name = n
    BY DEF Container
  <2>2. QED
    BY <1>1, <2>1 DEF HasContainer
<1>8. Exported(n)'
  BY <1>1, <1>2, <1>5, <1>6, <1>7, ItemsApart DEF Exported, K8sExported, HasBlock
<1>9. \A other \in Range(Order(cfg)) : Exported(other) => Exported(other)'
  BY <1>1, <1>2, <1>6, ExportedStays
<1>10. QED
  BY <1>1, <1>2, <1>6, <1>8, <1>9 DEF Further

\* A list behind one element.
LEMMA OneBefore ==
  ASSUME NEW S, NEW s \in Seq(S), Len(s) = 1, NEW t \in Seq(S)
  PROVE  /\ Len(s \o t) = 1 + Len(t) /\ s \o t \in Seq(S)
         /\ \A m \in 1 .. 1 + Len(t) : (s \o t)[m] = IF m <= 1 THEN s[m] ELSE t[m - 1]
<1>1. /\ s \o t \in Seq(S)
      /\ Len(s \o t) = Len(s) + Len(t)
      /\ \A m \in 1 .. Len(s) + Len(t) : (s \o t)[m] = IF m <= Len(s) THEN s[m] ELSE t[m - Len(s)]
  BY ConcatProperties
<1>2. QED
  BY <1>1

\* The exporter begins with everything before it.
LEMMA StartProgresses ==
  ASSUME Exporting, FilesInv, StartExport
  PROVE  ProgressInv'
<1>1. UNCHANGED vars /\ step' = "export" /\ todo' = Order(cfg) /\ script' = script /\ step = "build" /\ phase = "done"
  BY DEF StartExport, Order
<1>2. IsConfig(cfg) /\ CheckConfig(cfg)
  BY <1>1, Relied DEF Exporting, Architected
<1>3. script = <<>> /\ cfg' = cfg /\ Order(cfg)' = Order(cfg)
  BY <1>1 DEF FilesInv, Early, vars, Order, K8sOrder, ComposeOrder
<1>4. LinksFirst' /\ ExternalsOnly'
  BY <1>1, <1>3 DEF LinksFirst, ExternalsOnly
<1> DEFINE head == IF cfg.args.kubernetes THEN <<"meshnet">> ELSE <<"networks">>
<1>5. PICK rest \in Seq(PodNames) : todo' = head \o rest
  BY <1>1, <1>2, OrderFacts DEF PodNames
<1>6. ASSUME NamesFree(cfg), NEW i \in DOMAIN todo', todo'[i] = "networks" PROVE i = 1
  <2>1. head \in Seq(Items) /\ Len(head) = 1
    <3>1. head = <<"meshnet">> \/ head = <<"networks">>
      OBVIOUS
    <3>2. <<"meshnet">> \in Seq(Items) /\ Len(<<"meshnet">>) = 1 /\ <<"networks">> \in Seq(Items) /\ Len(<<"networks">>) = 1
      BY DEF Items
    <3>3. QED
      BY <3>1, <3>2
  <2> HIDE DEF head
  <2>2. rest \in Seq(Items)
    BY DEF Items
  <2>3. /\ Len(todo') = 1 + Len(rest) /\ todo' \in Seq(Items)
        /\ \A m \in 1 .. 1 + Len(rest) : todo'[m] = IF m <= 1 THEN head[m] ELSE rest[m - 1]
    <3>1. /\ Len(head \o rest) = 1 + Len(rest) /\ head \o rest \in Seq(Items)
          /\ \A m \in 1 .. 1 + Len(rest) : (head \o rest)[m] = IF m <= 1 THEN head[m] ELSE rest[m - 1]
      BY <2>1, <2>2, OneBefore
    <3>2. QED
      BY <1>5, <3>1
  <2>4. Len(rest) \in Nat /\ \A m \in 1 .. Len(rest) : rest[m] # "networks"
    BY <1>6, ItemsApart
  <2>5. i \in 1 .. 1 + Len(rest)
    BY <2>3
  <2>6. i # 1 => i - 1 \in 1 .. Len(rest) /\ todo'[i] = rest[i - 1]
    BY <2>3, <2>4, <2>5
  <2>7. QED
    BY <1>6, <2>4, <2>6
<1>7. QED
  BY <1>1, <1>3, <1>4, <1>6 DEF ProgressInv

\* Every step makes progress or ends the export.
LEMMA ProgressKept ==
  ASSUME Exporting, FilesInv, ProgressInv, EStep \/ evars' = evars
  PROVE  ProgressInv'
<1>1. CASE evars' = evars
  <2>1. UNCHANGED vars /\ UNCHANGED files /\ step' = step
    BY <1>1 DEF evars
  <2>2. \A item : Exported(item) => Exported(item)'
    BY <2>1, ExportedStays DEF files
  <2>3. QED
    BY <2>1, <2>2 DEF ProgressInv, files, vars, Order, K8sOrder, ComposeOrder, LinksFirst, ExternalsOnly
<1>2. CASE CheckArguments \/ Build \/ NodePortsExhausted
  <2>1. step' \notin {"export", "written"}
    BY <1>2 DEF CheckArguments, Build, NodePortsExhausted
  <2>2. QED
    BY <2>1 DEF ProgressInv
<1>3. CASE StartExport
  BY <1>3, StartProgresses
<1>4. CASE Written
  <2>1. UNCHANGED vars /\ UNCHANGED files /\ step = "export" /\ todo = <<>>
    BY <1>4 DEF Written
  <2>2. \A item : Exported(item) => Exported(item)'
    BY <2>1, ExportedStays DEF files
  <2>3. QED
    BY <2>1, <2>2 DEF ProgressInv, files, vars, Order, K8sOrder, ComposeOrder, LinksFirst, ExternalsOnly
<1>5. CASE ~NamesFree(cfg) /\ cfg' = cfg
  BY <1>5 DEF ProgressInv, NamesFree
<1>6. CASE NamesFree(cfg) /\ (WriteNetworks \/ GenerateMeshnet \/ WriteContainer \/ WriteTelemetry \/ ExportPod)
  BY <1>6, FurtherKeeps, NetworksFurther, MeshnetFurther, ContainerFurther, TelemetryFurther, PodFurther
<1>7. WriteNetworks \/ GenerateMeshnet \/ WriteContainer \/ WriteTelemetry \/ ExportPod => cfg' = cfg
  BY DEF WriteNetworks, GenerateMeshnet, WriteContainer, WriteTelemetry, ExportPod, vars
<1>8. QED
  BY <1>1, <1>2, <1>3, <1>4, <1>5, <1>6, <1>7 DEF EStep

\* The exporters leave nothing out.
LEMMA ProgressInvariant == DSpec => [](Exporting /\ FilesInv /\ ProgressInv)
<1>1. DInit => ProgressInv
  BY DEF DInit, EInit, ProgressInv
<1>2. Exporting /\ FilesInv /\ ProgressInv /\ [DNext]_dvars => ProgressInv'
  BY ProgressKept, DeploymentSteps
<1>3. QED
  BY <1>1, <1>2, FilesInvariant, PTL DEF DSpec

\* When the files are written, everything is in them.
LEMMA AllExported ==
  ASSUME Exporting, ProgressInv, step = "written", NamesFree(cfg)
  PROVE  /\ \A e \in Entities(cfg) : Exported(e)
         /\ Exported(IF cfg.args.kubernetes THEN "meshnet" ELSE "networks")
         /\ \A n \in Range(Telemetry(cfg)) : Exported(n)
         /\ phase = "done" /\ IsConfig(cfg) /\ CheckConfig(cfg) /\ \A h \in AllE2e(cfg) : IsRoute(cfg, h)
<1>1. phase = "done"
  BY DEF Exporting, StagedInv, Early
<1>2. IsConfig(cfg) /\ CheckConfig(cfg) /\ \A h \in AllE2e(cfg) : IsRoute(cfg, h)
  BY <1>1, Relied DEF Exporting, Architected
<1>3. todo = <<>> /\ \A item \in Range(Order(cfg)) : item \in Range(todo) \/ Exported(item)
  BY DEF ProgressInv
<1>4. \A item \in Range(Order(cfg)) : Exported(item)
  BY <1>3 DEF Range
<1> DEFINE first == IF cfg.args.kubernetes THEN "meshnet" ELSE "networks"
           head == IF cfg.args.kubernetes THEN <<"meshnet">> ELSE <<"networks">>
<1>5. PICK rest \in Seq(PodNames) : Order(cfg) = head \o rest /\ Range(rest) = Entities(cfg) \cup Range(Telemetry(cfg))
  BY <1>2, OrderFacts DEF PodNames
<1>6. head = <<first>> /\ first \in Items
  BY DEF Items
<1> HIDE DEF head, first
<1>7. head \in Seq(Items) /\ first \in Range(head)
  BY <1>6 DEF Range
<1>8. rest \in Seq(Items)
  BY DEF Items
<1>9. Range(Order(cfg)) = Range(head) \cup Range(rest)
  BY <1>5, <1>7, <1>8, Joint
<1>10. QED
  BY <1>1, <1>2, <1>4, <1>5, <1>7, <1>9 DEF first

----
(***************************************************************************)
(* The Compose file refers to nothing it does not define.                  *)
(***************************************************************************)
\* The flags were checked, and the telemetry is that of the flags.
FlagsInv ==
  /\ step \notin {"arguments", "refused"} => ArgumentsValid(cfg.args)
  /\ ~cfg.args.kubernetes /\ NamesFree(cfg) => \A t \in containers : OfTelemetry(t) => cfg.args.jaeger

\* A container has the name it was given.
LEMMA ContainerFields ==
  ASSUME NEW n, NEW nets, NEW deps, NEW ports
  PROVE  LET t == Container(n, nets, deps, ports) IN
         t.name = n /\ t.networks = nets /\ t.depends = deps /\ t.ports = ports
BY DEF Container

\* The name of an entity is that of its container.
LEMMA EntityContainer ==
  ASSUME NEW e
  PROVE  ContainerOf(e).name = e
BY DEF ContainerOf, Container

\* What the flags say is known when they are used.
LEMMA FlagsInvariant == DSpec => []FlagsInv
<1>1. DInit => FlagsInv
  BY DEF DInit, EInit, FlagsInv
<1>2. Exporting /\ FilesInv /\ ProgressInv /\ FlagsInv /\ [DNext]_dvars => FlagsInv'
  <2> SUFFICES ASSUME Exporting, FlagsInv, EStep \/ evars' = evars PROVE FlagsInv'
    BY DeploymentSteps
  <2>1. cfg' = cfg /\ cluster' = cluster
    <3>1. Build => cfg' = cfg /\ cluster' = cluster
      BY StepKeepsConfig DEF Build
    <3>2. CheckArguments \/ StartExport \/ Written \/ NodePortsExhausted => cfg' = cfg /\ cluster' = cluster
      BY DEF CheckArguments, StartExport, Written, NodePortsExhausted, vars
    <3>3. WriteNetworks \/ WriteContainer \/ WriteTelemetry \/ GenerateMeshnet \/ ExportPod => cfg' = cfg /\ cluster' = cluster
      BY DEF WriteNetworks, WriteContainer, WriteTelemetry, GenerateMeshnet, ExportPod, vars
    <3>4. evars' = evars => cfg' = cfg /\ cluster' = cluster
      BY DEF evars, vars
    <3>5. QED
      BY <3>1, <3>2, <3>3, <3>4 DEF EStep
  <2>2. step' \notin {"arguments", "refused"} => ArgumentsValid(cfg.args)
    <3>1. CheckArguments => (step' = "build" => ArgumentsValid(cfg.args)) /\ step' \in {"build", "refused"}
      BY DEF CheckArguments
    <3>2. ~CheckArguments => (step' \notin {"arguments", "refused"} => step \notin {"arguments", "refused"})
      BY DEF EStep, Build, StartExport, Written, NodePortsExhausted, WriteNetworks, WriteContainer, WriteTelemetry,
        GenerateMeshnet, ExportPod, Takes, evars
    <3>3. QED
      BY <3>1, <3>2 DEF FlagsInv
  <2>3. ArgumentsValid(cfg.args)' <=> ArgumentsValid(cfg.args)
    BY <2>1 DEF ArgumentsValid, ClusterReady
  <2>4. ASSUME ~cfg.args.kubernetes, NamesFree(cfg), NEW t \in containers', OfTelemetry(t) PROVE cfg.args.jaeger
    <3>1. t \in containers \/ t \notin containers
      OBVIOUS
    <3>2. CASE t \in containers
      BY <2>4, <3>2 DEF FlagsInv
    <3>3. CASE t \notin containers
      <4>1. t.name \in {Jaeger, Collector}
        BY <2>4, ContainerFields DEF OfTelemetry
      <4>2. ~WriteContainer
        <5>1. \A e \in Entities(cfg) : ContainerOf(e).name = e
          BY EntityContainer
        <5>2. \A e \in Entities(cfg) : t # ContainerOf(e)
          BY <2>4, <4>1, <5>1, ItemsApart
        <5>3. QED
          BY <3>3, <5>2 DEF WriteContainer
      <4>3. WriteTelemetry
        BY <2>4, <3>3, <4>2 DEF EStep, CheckArguments, Build, StartExport, Written, NodePortsExhausted, WriteNetworks,
          GenerateMeshnet, ExportPod, evars, files
      <4>4. step \notin {"arguments", "refused"} /\ (cfg.args.jaeger \/ cfg.args.clt)
        BY <4>3 DEF WriteTelemetry, Takes
      <4>5. QED
        BY <4>4 DEF FlagsInv, ArgumentsValid
    <3>4. QED
      BY <3>1, <3>2, <3>3
  <2>5. \A t : OfTelemetry(t)' <=> OfTelemetry(t)
    BY DEF OfTelemetry
  <2>6. QED
    BY <2>1, <2>2, <2>3, <2>4, <2>5 DEF FlagsInv
<1>3. QED
  BY <1>1, <1>2, ProgressInvariant, PTL DEF DSpec

\* docker compose finds every network a container joins and every container it waits for in
\* the file, for any configuration and flags that are accepted.
THEOREM ComposeReferencesDefinedTheorem == DSpec => []ComposeReferencesDefined
<1>1. Exporting /\ FilesInv /\ ProgressInv /\ FlagsInv => ComposeReferencesDefined
  <2> SUFFICES ASSUME Exporting, ProgressInv, FlagsInv, step = "written", ~cfg.args.kubernetes, NamesFree(cfg),
                      NEW t \in containers
               PROVE  t.networks \subseteq declared /\ t.depends \subseteq {u.name : u \in containers}
    BY DEF ComposeReferencesDefined
  <2>1. /\ \A e \in Entities(cfg) : ComposeExported(e)
        /\ ComposeExported("networks")
        /\ \A n \in Range(Telemetry(cfg)) : ComposeExported(n)
        /\ phase = "done" /\ IsConfig(cfg) /\ CheckConfig(cfg)
    BY AllExported DEF Exported
  <2>2. declared = OfLayer(3) \cup IF cfg.args.jaeger THEN {TelemetryNet} ELSE {}
    BY <2>1 DEF ComposeExported
  <2>3. Range(Telemetry(cfg)) = (IF cfg.args.jaeger THEN {Jaeger} ELSE {}) \cup (IF cfg.args.clt THEN {Collector} ELSE {})
    BY <2>1, OrderFacts
  <2>4. \A n \in Entities(cfg) \cup Range(Telemetry(cfg)) : \E u \in containers : u.name = n
    <3>1. \A e \in Entities(cfg) : ContainerOf(e) \in containers
      BY <2>1 DEF ComposeExported
    <3>2. \A n \in Range(Telemetry(cfg)) : HasContainer(n)
      BY <2>1, <2>3 DEF ComposeExported
    <3>3. QED
      BY <3>1, <3>2, EntityContainer DEF HasContainer
  <2>5. ComposeContainer(t)
    BY DEF Exporting, ContainersInv
  <2>6. CASE OfTelemetry(t)
    <3>1. cfg.args.jaeger
      BY <2>6 DEF FlagsInv
    <3>2. t.networks = {TelemetryNet} /\ t.depends \subseteq {Jaeger}
      BY <2>6, ContainerFields DEF OfTelemetry
    <3>3. QED
      BY <2>2, <2>3, <2>4, <3>1, <3>2
  <2>7. ASSUME NEW e \in Entities(cfg), t = ContainerOf(e)
        PROVE  t.networks \subseteq declared /\ t.depends \subseteq {u.name : u \in containers}
    <3>1. depends[e] \subseteq Entities(cfg)
      <4>1. depends[e] = DependsOn(cfg, e)
        BY <2>1 DEF Exporting, Architected, CheckedInv
      <4>2. QED
        BY <2>1, <4>1, DependenciesAcyclic
    <3> DEFINE observed == IF cfg.kind[e] \in EndHost THEN Range(Telemetry(cfg)) ELSE {}
    <3>2. observed \subseteq Range(Telemetry(cfg)) /\ (Jaeger \in observed => cfg.args.jaeger)
      BY <2>3 DEF Jaeger, Collector
    <3>3. CASE IsSwitch(cfg, e)
      <4>1. t = Container(e, {}, {}, {})
        BY <2>7, <3>3 DEF ContainerOf
      <4>2. t.networks = {} /\ t.depends = {}
        BY <4>1, ContainerFields
      <4>3. QED
        BY <4>2
    <3>4. CASE ~IsSwitch(cfg, e)
      <4> DEFINE nets == (Range(attached[e]) \cap OfLayer(3)) \cup IF Jaeger \in observed THEN {TelemetryNet} ELSE {}
                 deps == depends[e] \cup observed
      <4>1. t = Container(e, nets, deps, Published(cfg, e))
        BY <2>7, <3>4 DEF ContainerOf
      <4>2. nets \subseteq declared /\ deps \subseteq {u.name : u \in containers}
        BY <2>2, <2>4, <3>1, <3>2
      <4> HIDE DEF nets, deps
      <4>3. t.networks = nets /\ t.depends = deps
        BY <4>1, ContainerFields
      <4>4. QED
        BY <4>2, <4>3
    <3>5. QED
      BY <3>3, <3>4
  <2>8. QED
    BY <2>5, <2>6, <2>7 DEF ComposeContainer
<1>2. QED
  BY <1>1, ProgressInvariant, FlagsInvariant, PTL

----
(***************************************************************************)
(* The invariants about types.                                             *)
(***************************************************************************)
\* Nothing is deployed before the files are there.
NothingRuns ==
  /\ up = {} /\ addresses = {} /\ wired = {} /\ bridged = {} /\ table = {} /\ spoiled = {}
  /\ chain = [e \in Entities(cfg) |-> <<>>] /\ policy = [e \in Entities(cfg) |-> "accept"]
  /\ pending = [e \in Entities(cfg) |-> {}]
  /\ line = 1 /\ looping = {} /\ restarts = 0

\* Everything a container may be given to run, and what each was given.
Program == UNION {Commands(e) : e \in Entities(cfg)}
Given(p) == p \in [Entities(cfg) -> SUBSET Program] /\ \A e \in Entities(cfg) : p[e] \subseteq Commands(e)

\* The types of what is deployed, which are those of what was written.
DeployInv ==
  /\ step # "written" => NothingRuns
  /\ up \subseteq {t.name : t \in containers}
  /\ addresses \subseteq Entities(cfg) \X DOMAIN networks
  /\ wired \subseteq Entities(cfg) \X Entities(cfg) /\ bridged \subseteq Entities(cfg) \X Entities(cfg)
  /\ table \subseteq routes
  /\ chain \in [Entities(cfg) -> Seq(Rules)] /\ policy \in [Entities(cfg) -> {"accept", "drop"}]
  /\ Given(pending)
  /\ line \in Nat /\ 1 <= line /\ line <= Len(script) + 1 /\ restarts \in 0 .. MaxRestarts
  /\ looping \subseteq Entities(cfg) /\ spoiled \subseteq Entities(cfg)

----
(***************************************************************************)
(* Types of the deployment.                                                *)
(***************************************************************************)
\* What the deployment relies on.
Deploying == Exporting /\ FilesInv /\ ProgressInv

\* What the commands are made of is fixed before they are given.
LEMMA CommandsStay ==
  UNCHANGED vars =>
    /\ \A e : Commands(e)' = Commands(e) /\ SelfConfigured(e)' = SelfConfigured(e)
    /\ Program' = Program /\ \A p : Given(p)' <=> Given(p)
BY DEF vars, Commands, Program, Given, SelfConfigured

\* An entity gets some of its commands.
LEMMA GivenUpdate ==
  ASSUME NEW p, Given(p), NEW e \in Entities(cfg), NEW x, x \subseteq Commands(e)
  PROVE  /\ Given([p EXCEPT ![e] = x])
         /\ [p EXCEPT ![e] = x][e] = x
         /\ \A n \in Entities(cfg) : n # e => [p EXCEPT ![e] = x][n] = p[n]
<1>1. x \in SUBSET Program
  BY DEF Program
<1>2. QED
  BY <1>1 DEF Given

\* A command that has run is no longer there.
LEMMA RunsShape ==
  ASSUME Given(pending), NEW e \in Entities(cfg), NEW command, Runs(e, command)
  PROVE  /\ Given(pending') /\ command \in pending[e] /\ command \in Commands(e)
         /\ pending'[e] = pending[e] \ {command}
         /\ \A n \in Entities(cfg) : n # e => pending'[n] = pending[n]
<1>1. pending[e] \ {command} \subseteq Commands(e) /\ command \in pending[e]
  BY DEF Given, Runs
<1>2. pending' = [pending EXCEPT ![e] = pending[e] \ {command}]
  BY DEF Runs
<1>3. command \in Commands(e)
  BY <1>1 DEF Given
<1>4. PICK rest : rest = pending[e] \ {command}
  OBVIOUS
<1>5. rest \subseteq Commands(e)
  BY <1>1, <1>4
<1>6. /\ Given([pending EXCEPT ![e] = rest])
      /\ [pending EXCEPT ![e] = rest][e] = rest
      /\ \A n \in Entities(cfg) : n # e => [pending EXCEPT ![e] = rest][n] = pending[n]
  BY <1>5, GivenUpdate
<1>7. pending' = [pending EXCEPT ![e] = rest]
  BY <1>2, <1>4
<1>8. QED
  BY <1>1, <1>3, <1>4, <1>6, <1>7

\* The networks and what is on them.
LEMMA LayersAre ==
  ASSUME Exporting
  PROVE  /\ DOMAIN networks = 1 .. Len(networks) /\ Len(networks) \in Nat
         /\ \A l : OfLayer(l) \subseteq DOMAIN networks
         /\ \A k \in DOMAIN networks : networks[k] \in NetworksOf(cfg) /\ networks[k].hops \in Seq(Entities(cfg))
<1>1. networks \in Seq(NetworksOf(cfg))
  BY DEF Exporting, Architected, BuiltInv
<1>2. \A n \in NetworksOf(cfg) : n.hops \in Seq(Entities(cfg))
  BY DEF NetworksOf, NetworkRecords
<1>3. QED
  BY <1>1, <1>2 DEF OfLayer

\* The layer 2 network of a block.
LEMMA TurnsShape ==
  ASSUME FilesInv, Exporting, NEW kind, Turns(kind), line \in Nat, 1 <= line, line <= Len(script) + 1
  PROVE  /\ line \in DOMAIN script /\ line' = line + 1 /\ script[line] \in Blocks /\ script[line][1] = kind
         /\ line' \in Nat /\ 1 <= line' /\ line' <= Len(script) + 1
         /\ kind = "link" => script[line][2] \in OfLayer(2)
         /\ kind = "entity" => script[line][2] \in Entities(cfg)
<1>1. line \in DOMAIN script /\ line' = line + 1 /\ script[line][1] = kind
  BY DEF Turns
<1>2. script \in Seq(Blocks) /\ Len(script) \in Nat /\ DOMAIN script = 1 .. Len(script)
  BY DEF FilesInv
<1>3. script[line] \in Blocks
  BY <1>1, <1>2
<1>4. QED
  BY <1>1, <1>2, <1>3 DEF Blocks

\* The veth ends and the ports are those of entities.
LEMMA EndsAreEntities ==
  ASSUME Exporting, NEW k \in DOMAIN networks
  PROVE  VethEnds(networks[k].hops) \subseteq Entities(cfg) \X Entities(cfg)
<1> DEFINE h == networks[k].hops
<1>1. h \in Seq(Entities(cfg)) /\ Len(h) \in Nat
  BY LayersAre
<1>2. \A i \in 1 .. Len(h) - 1 : h[i] \in Entities(cfg) /\ h[i + 1] \in Entities(cfg)
  BY <1>1
<1> HIDE DEF h
<1>3. VethEnds(h) \subseteq Entities(cfg) \X Entities(cfg)
  BY <1>2 DEF VethEnds
<1>4. QED
  BY <1>3 DEF h

\* A link is a record of its two ends.
LEMMA LinksType ==
  ASSUME Exporting
  PROVE  links \subseteq [ pod : Entities(cfg), uid : DOMAIN networks, peer : Entities(cfg),
                           localIntf : Nat \ {0}, peerIntf : Nat \ {0}, ip : Addresses, peerIp : Addresses ]
<1> SUFFICES ASSUME NEW l \in links
             PROVE  l \in [ pod : Entities(cfg), uid : DOMAIN networks, peer : Entities(cfg),
                            localIntf : Nat \ {0}, peerIntf : Nat \ {0}, ip : Addresses, peerIp : Addresses ]
  OBVIOUS
<1>1. phase = "done" /\ cfg.args.kubernetes /\ l \in AllLinks
  BY DEF Exporting, LinksInv
<1>2. PICK e \in Entities(cfg), k \in DOMAIN networks : e \in Range(networks[k].hops) /\ l = Link(e, k)
  BY <1>1, LinkEnds DEF Exporting
<1>3. Peer(k, e) \in Entities(cfg) /\ Peer(k, e) \in Range(networks[k].hops)
  BY <1>1, <1>2, PeerIsOther DEF Exporting
<1>4. \A n \in Entities(cfg) : n \in Range(networks[k].hops) => Eth(n, k) \in Nat \ {0}
  <2> SUFFICES ASSUME NEW n \in Entities(cfg), n \in Range(networks[k].hops) PROVE Eth(n, k) \in Nat \ {0}
    OBVIOUS
  <2>1. Eth(n, k) \in DOMAIN attached[n]
    BY EthPosition DEF Exporting, Architected
  <2>2. attached[n] \in Seq(Nat)
    BY DEF Exporting, Architected, NumberedInv
  <2>3. QED
    BY <2>1, <2>2
<1>5. Eth(e, k) \in Nat \ {0} /\ Eth(Peer(k, e), k) \in Nat \ {0}
  BY <1>2, <1>3, <1>4
<1>6. EntityIp(networks, k, e) \in Addresses /\ EntityIp(networks, k, Peer(k, e)) \in Addresses
  BY EntityIpType
<1>7. QED
  BY <1>2, <1>3, <1>5, <1>6 DEF Link

\* Interfaces are on networks of the topology.
LEMMA AttachedType ==
  ASSUME Exporting, NEW t \in containers, NEW running
  PROVE  Attached(t, running) \subseteq Entities(cfg) \X DOMAIN networks
<1>1. CASE cfg.args.kubernetes
  <2>1. \A l \in links : l.pod \in Entities(cfg) /\ l.uid \in DOMAIN networks
    BY LinksType
  <2>2. QED
    BY <1>1, <2>1 DEF Attached
<1>2. CASE ~cfg.args.kubernetes
  <2>1. ComposeContainer(t)
    BY <1>2 DEF Exporting, ContainersInv
  <2>2. CASE OfTelemetry(t)
    <3>1. t.networks = {TelemetryNet}
      BY <2>2, ContainerFields DEF OfTelemetry
    <3>2. QED
      BY <1>2, <3>1 DEF Attached
  <2>3. ASSUME NEW e \in Entities(cfg), t = ContainerOf(e) PROVE t.name = e /\ t.networks \subseteq OfLayer(3) \cup {TelemetryNet}
    <3>1. t.name = e
      BY <2>3, EntityContainer
    <3>2. t.networks \subseteq OfLayer(3) \cup {TelemetryNet}
      BY <2>3 DEF ContainerOf, Container
    <3>3. QED
      BY <3>1, <3>2
  <2>4. QED
    BY <1>2, <2>1, <2>2, <2>3, LayersAre DEF ComposeContainer, Attached
<1>3. QED
  BY <1>1, <1>2

\* While the files are made, nothing runs.
LEMMA NothingYet ==
  ASSUME FilesInv', DeployInv, EStep, UNCHANGED <<up, network, tables, pending, line, looping, restarts, spoiled>>
  PROVE  step # "written" /\ NothingRuns' /\ DeployInv'
<1>1. step # "written"
  BY DEF EStep, CheckArguments, Build, StartExport, Written, NodePortsExhausted, WriteNetworks, WriteContainer,
    WriteTelemetry, GenerateMeshnet, ExportPod, Takes
<1>2. cfg' = cfg
  BY StepKeepsConfig DEF EStep, CheckArguments, Build, StartExport, Written, NodePortsExhausted, WriteNetworks,
    WriteContainer, WriteTelemetry, GenerateMeshnet, ExportPod, vars
<1>3. NothingRuns'
  BY <1>1, <1>2 DEF DeployInv, NothingRuns, network, tables
<1>4. Given(pending)'
  BY <1>3 DEF NothingRuns, Given
<1>5. Len(script') \in Nat
  BY DEF FilesInv
<1>6. restarts' \in 0 .. MaxRestarts /\ line' \in Nat /\ 1 <= line' /\ line' <= Len(script') + 1
  BY <1>3, <1>5, RestartsAssumption DEF NothingRuns
<1>7. chain' \in [Entities(cfg') -> Seq(Rules)] /\ policy' \in [Entities(cfg') -> {"accept", "drop"}]
  <2>1. <<>> \in Seq(Rules)
    OBVIOUS
  <2>2. QED
    BY <1>3, <2>1 DEF NothingRuns
<1>8. QED
  BY <1>1, <1>3, <1>4, <1>6, <1>7 DEF DeployInv, NothingRuns

\* The steps of the deployment keep to the entities, the networks and the commands.
LEMMA DeployKept ==
  ASSUME Deploying, FilesInv', DeployInv, [DNext]_dvars
  PROVE  DeployInv'
<1>1. CASE Generate
  BY <1>1, NothingYet DEF Generate
<1>2. SUFFICES ASSUME evars' = evars PROVE DeployInv'
  BY <1>1 DEF DNext, DStep, Start, LinkBlock, EntityBlock, AddRoute, AddRule, SetPolicy, RestartContainer, RestartPod, Over, dvars
<1>3. UNCHANGED vars /\ step' = step /\ script' = script /\ containers' = containers /\ links' = links
  BY <1>2 DEF evars, files
<1>4. /\ cfg' = cfg /\ Entities(cfg)' = Entities(cfg) /\ networks' = networks /\ routes' = routes
      /\ \A p : Given(p)' <=> Given(p)
  BY <1>3, CommandsStay DEF vars
<1>5. Given(pending)' <=> Given(pending')
  BY <1>3, CommandsStay DEF vars, Given, Commands, Program
<1>6. CASE UNCHANGED dvars
  BY <1>3, <1>4, <1>5, <1>6 DEF DeployInv, NothingRuns, dvars, network, tables
<1>7. SUFFICES ASSUME step = "written" PROVE
        /\ up' \subseteq {t.name : t \in containers}
        /\ addresses' \subseteq Entities(cfg) \X DOMAIN networks
        /\ wired' \subseteq Entities(cfg) \X Entities(cfg) /\ bridged' \subseteq Entities(cfg) \X Entities(cfg)
        /\ table' \subseteq routes
        /\ chain' \in [Entities(cfg) -> Seq(Rules)] /\ policy' \in [Entities(cfg) -> {"accept", "drop"}]
        /\ Given(pending')
        /\ line' \in Nat /\ 1 <= line' /\ line' <= Len(script) + 1 /\ restarts' \in 0 .. MaxRestarts
        /\ looping' \subseteq Entities(cfg) /\ spoiled' \subseteq Entities(cfg)
  <2>1. step = "written" \/ UNCHANGED dvars \/ Generate
    BY DEF DNext, DStep, Start, LinkBlock, EntityBlock, Turns, AddRoute, AddRule, SetPolicy, Runs, RestartContainer, RestartPod, Over,
      DeployInv, NothingRuns
  <2>2. QED
    BY <1>1, <1>3, <1>4, <1>5, <1>6, <2>1 DEF DeployInv
<1>8. /\ up \subseteq {t.name : t \in containers}
      /\ addresses \subseteq Entities(cfg) \X DOMAIN networks
      /\ wired \subseteq Entities(cfg) \X Entities(cfg) /\ bridged \subseteq Entities(cfg) \X Entities(cfg)
      /\ table \subseteq routes
      /\ chain \in [Entities(cfg) -> Seq(Rules)] /\ policy \in [Entities(cfg) -> {"accept", "drop"}]
      /\ Given(pending)
      /\ line \in Nat /\ 1 <= line /\ line <= Len(script) + 1 /\ restarts \in 0 .. MaxRestarts
      /\ looping \subseteq Entities(cfg) /\ spoiled \subseteq Entities(cfg)
  BY DEF DeployInv
<1>9. CASE Start
  <2>1. PICK t \in containers :
          /\ up' = up \cup {t.name}
          /\ addresses' = addresses \cup Attached(t, up')
          /\ pending' = IF SelfConfigured(t.name)
                        THEN [pending EXCEPT ![t.name] = Commands(t.name)] ELSE pending
    BY <1>9 DEF Start
  <2>2. UNCHANGED <<wired, bridged, tables, line, looping, restarts, spoiled>>
    BY <1>9 DEF Start
  <2>3. Attached(t, up') \subseteq Entities(cfg) \X DOMAIN networks
    BY AttachedType DEF Deploying
  <2>4. Given(pending')
    <3>1. CASE SelfConfigured(t.name)
      <4>1. t.name \in Entities(cfg) /\ Commands(t.name) \subseteq Commands(t.name)
        BY <3>1 DEF SelfConfigured
      <4>2. QED
        BY <1>8, <2>1, <3>1, <4>1, GivenUpdate
    <3>2. CASE ~SelfConfigured(t.name)
      BY <1>8, <2>1, <3>2
    <3>3. QED
      BY <3>1, <3>2
  <2>5. up' \subseteq {u.name : u \in containers} /\ addresses' \subseteq Entities(cfg) \X DOMAIN networks
    BY <1>8, <2>1, <2>3
  <2>6. QED
    BY <1>8, <2>2, <2>4, <2>5 DEF tables
<1>10. CASE LinkBlock
  <2> DEFINE k == script[line][2]
             h == networks[k].hops
  <2>1. Turns("link")
    BY <1>10 DEF LinkBlock
  <2>2. /\ k \in OfLayer(2) /\ k \in DOMAIN networks /\ line' \in Nat /\ 1 <= line' /\ line' <= Len(script) + 1
    BY <1>8, <2>1, TurnsShape, LayersAre DEF Deploying
  <2>3. /\ spoiled' = spoiled \cup {t[1] : t \in CutEnds(h)}
        /\ UNCHANGED <<up, tables, pending, looping, restarts>>
    BY <1>10 DEF LinkBlock
  <2>4. VethEnds(h) \subseteq Entities(cfg) \X Entities(cfg) /\ CutEnds(h) \subseteq VethEnds(h)
    BY <2>2, EndsAreEntities DEF CutEnds, Deploying
  <2>5. PICK made \in SUBSET VethEnds(h) :
          /\ wired' = wired \cup made
          /\ bridged' = bridged \cup (BridgePorts(h) \cap made)
          /\ addresses' = addresses \cup {<<t[1], k>> : t \in {u \in made : EntityIp(networks, k, u[1]) # NoAddress}}
    BY <1>10, <2>4 DEF LinkBlock
  <2> HIDE DEF h, k
  <2>6. \A t \in VethEnds(h) : t[1] \in Entities(cfg)
    BY <2>4
  <2>7. /\ addresses' \subseteq Entities(cfg) \X DOMAIN networks
        /\ spoiled' \subseteq Entities(cfg)
    BY <1>8, <2>2, <2>3, <2>4, <2>5, <2>6
  <2>8. wired' \subseteq Entities(cfg) \X Entities(cfg) /\ bridged' \subseteq Entities(cfg) \X Entities(cfg)
    BY <1>8, <2>4, <2>5
  <2>9. QED
    BY <1>8, <2>2, <2>3, <2>7, <2>8 DEF tables
<1>11. CASE EntityBlock
  <2> DEFINE e == script[line][2]
  <2>1. Turns("entity")
    BY <1>11 DEF EntityBlock
  <2>2. e \in Entities(cfg) /\ line' \in Nat /\ 1 <= line' /\ line' <= Len(script) + 1
    BY <1>8, <2>1, TurnsShape DEF Deploying
  <2>3. /\ \/ pending' = [pending EXCEPT ![e] = Commands(e)] /\ spoiled' = spoiled
           \/ spoiled' = spoiled \cup {e} /\ pending' = pending
        /\ UNCHANGED <<up, network, tables, looping, restarts>>
    BY <1>11 DEF EntityBlock
  <2> HIDE DEF e
  <2>4. Given(pending') /\ spoiled' \subseteq Entities(cfg)
    <3>1. Given([pending EXCEPT ![e] = Commands(e)])
      BY <1>8, <2>2, GivenUpdate
    <3>2. QED
      BY <1>8, <2>2, <2>3, <3>1
  <2>5. QED
    BY <1>8, <2>2, <2>3, <2>4 DEF tables, network
<1>12. CASE AddRoute
  <2>1. PICK e \in Entities(cfg), r \in routes :
          /\ Runs(e, <<"route", r>>)
          /\ table' = IF Installable(r) THEN table \cup {r} ELSE table
          /\ spoiled' = IF LinksReady(e) THEN spoiled ELSE spoiled \cup {e}
    BY <1>12 DEF AddRoute
  <2>2. UNCHANGED <<up, network, chain, policy, line, looping, restarts>>
    BY <1>12 DEF AddRoute
  <2>3. Given(pending') /\ table' \subseteq routes /\ spoiled' \subseteq Entities(cfg)
    BY <1>8, <2>1, RunsShape
  <2>4. QED
    BY <1>8, <2>2, <2>3 DEF network
<1>13. CASE AddRule
  <2>0. PICK e \in Entities(cfg) : \E rule \in Range(cfg.rules[e]) :
          /\ Runs(e, <<"rule", rule>>)
          /\ chain' = IF Accepted(e, rule) THEN [chain EXCEPT ![e] = Append(@, rule)] ELSE chain
    BY <1>13 DEF AddRule
  <2>1. PICK rule \in Range(cfg.rules[e]) :
          /\ Runs(e, <<"rule", rule>>)
          /\ chain' = IF Accepted(e, rule) THEN [chain EXCEPT ![e] = Append(@, rule)] ELSE chain
    BY <2>0
  <2>2. UNCHANGED <<up, network, table, policy, line, looping, restarts, spoiled>>
    BY <1>13 DEF AddRule
  <2>3. Given(pending')
    BY <1>8, <2>1, RunsShape
  <2>4. rule \in Rules
    <3>1. cfg.rules[e] \in Seq(Rules)
      BY ConfigsAssumption DEF Deploying, Exporting, PortsInv, IsConfig, Entities
    <3>2. QED
      BY <3>1 DEF Range
  <2>5. chain' \in [Entities(cfg) -> Seq(Rules)]
    <3>1. Append(chain[e], rule) \in Seq(Rules)
      BY <1>8, <2>4
    <3>2. QED
      BY <1>8, <2>1, <3>1
  <2>6. QED
    BY <1>8, <2>2, <2>3, <2>5 DEF network
<1>14. CASE SetPolicy
  <2>1. PICK e \in Entities(cfg), verdict \in {"accept", "drop"} :
          Runs(e, <<"policy", verdict>>) /\ policy' = [policy EXCEPT ![e] = verdict]
    BY <1>14 DEF SetPolicy
  <2>2. UNCHANGED <<up, network, table, chain, line, looping, restarts, spoiled>>
    BY <1>14 DEF SetPolicy
  <2>3. Given(pending') /\ policy' \in [Entities(cfg) -> {"accept", "drop"}]
    BY <1>8, <2>1, RunsShape
  <2>4. QED
    BY <1>8, <2>2, <2>3 DEF network
<1>15. CASE RestartContainer
  <2>1. PICK e \in Entities(cfg) :
       /\ wired' = {t \in wired : e \notin {t[1], t[2]}}
       /\ bridged' = {t \in bridged : e \notin {t[1], t[2]}}
       /\ addresses' = {t \in addresses : ~LosesAddress(e, t[1], t[2])}
       /\ table' = {r \in table : r.at # e /\ <<r.at, r.via[1]>> \in addresses'}
       /\ chain' = [chain EXCEPT ![e] = <<>>]
       /\ policy' = [policy EXCEPT ![e] = "accept"]
       /\ looping' = IF FailsAgain(e) THEN looping \cup {e} ELSE looping
       /\ spoiled' = IF line = 1 /\ ~FailsAgain(e) THEN spoiled
                     ELSE spoiled \cup {e} \cup {n \in Entities(cfg) : <<e, n>> \in wired}
    BY <1>15 DEF RestartContainer
  <2>2. UNCHANGED <<up, pending, line>> /\ restarts' = restarts + 1 /\ restarts < MaxRestarts
    BY <1>15 DEF RestartContainer
  <2>3. restarts' \in 0 .. MaxRestarts
    BY <1>8, <2>2, RestartsAssumption
  <2>4. chain' \in [Entities(cfg) -> Seq(Rules)] /\ policy' \in [Entities(cfg) -> {"accept", "drop"}]
    <3>1. <<>> \in Seq(Rules)
      OBVIOUS
    <3>2. QED
      BY <1>8, <2>1, <3>1
  <2>5. QED
    BY <1>8, <2>1, <2>2, <2>3, <2>4
<1>16. CASE RestartPod
  <2>1. PICK e \in Entities(cfg) \cap up :
       IF SelfConfigured(e)
       THEN pending' = [pending EXCEPT ![e] = Commands(e)] /\ spoiled' = spoiled \ {e}
       ELSE /\ pending' = [pending EXCEPT ![e] = {}]
            /\ spoiled' = IF pending[e] = {} THEN spoiled ELSE spoiled \cup {e}
    BY <1>16 DEF RestartPod
  <2>2. UNCHANGED <<up, network, tables, line, looping>> /\ restarts' = restarts + 1 /\ restarts < MaxRestarts
    BY <1>16 DEF RestartPod
  <2>3. restarts' \in 0 .. MaxRestarts
    BY <1>8, <2>2, RestartsAssumption
  <2>4. Given(pending') /\ spoiled' \subseteq Entities(cfg)
    <3>1. Given([pending EXCEPT ![e] = Commands(e)]) /\ Given([pending EXCEPT ![e] = {}])
      BY <1>8, GivenUpdate
    <3>2. QED
      BY <1>8, <2>1, <3>1
  <2>5. QED
    BY <1>8, <2>2, <2>3, <2>4 DEF network, tables
<1>17. ~Generate
  BY <1>7, NothingYet DEF Generate
<1>18. CASE UNCHANGED dvars
  BY <1>8, <1>18 DEF dvars, network, tables
<1>19. QED
  BY <1>7, <1>9, <1>10, <1>11, <1>12, <1>13, <1>14, <1>15, <1>16, <1>17, <1>18 DEF DNext, DStep, Over

\* The deployment keeps to its types.
LEMMA DeployInvariant == DSpec => [](Deploying /\ DeployInv)
<1>1. DInit => DeployInv
  <2> SUFFICES ASSUME DInit PROVE DeployInv
    OBVIOUS
  <2>1. NothingRuns /\ script = <<>>
    BY DEF DInit, EInit, NothingRuns
  <2>2. Given(pending)
    BY <2>1 DEF NothingRuns, Given
  <2>3. restarts \in 0 .. MaxRestarts /\ line \in Nat /\ 1 <= line /\ line <= Len(script) + 1
    BY <2>1, RestartsAssumption DEF NothingRuns
  <2>4. chain \in [Entities(cfg) -> Seq(Rules)] /\ policy \in [Entities(cfg) -> {"accept", "drop"}]
    <3>1. <<>> \in Seq(Rules)
      OBVIOUS
    <3>2. QED
      BY <2>1, <3>1 DEF NothingRuns
  <2>5. QED
    BY <2>1, <2>2, <2>3, <2>4 DEF DeployInv, NothingRuns
<1>2. Deploying /\ FilesInv' /\ DeployInv /\ [DNext]_dvars => DeployInv'
  BY DeployKept
<1>3. QED
  BY <1>1, <1>2, ProgressInvariant, PTL DEF DSpec, Deploying

\* The types of what is written and of what is deployed.
THEOREM DeploymentTypeOK == DSpec => []DTypeOK
<1>1. Deploying /\ DeployInv => DTypeOK
  <2> SUFFICES ASSUME Deploying, DeployInv PROVE DTypeOK
    OBVIOUS
  <2>1. ETypeOK
    <3>1. Range(todo) \subseteq PodNames \cup {"networks", "meshnet"}
      <4>1. todo \in Seq(Items)
        BY DEF Deploying, FilesInv
      <4>2. QED
        BY <4>1 DEF Range, Items
    <3>2. \A k \in DOMAIN script : script[k] \in ({"link"} \X OfLayer(2)) \cup ({"entity"} \X Entities(cfg))
      <4>1. script \in Seq(Blocks)
        BY DEF Deploying, FilesInv
      <4>2. QED
        BY <4>1 DEF Blocks
    <3>3. QED
      BY <3>1, <3>2, LinksType DEF Deploying, FilesInv, Steps, ETypeOK
  <2>2. line \in 1 .. Len(script) + 1
    BY DEF DeployInv, Deploying, FilesInv
  <2>3. QED
    BY <2>1, <2>2 DEF DTypeOK, DeployInv, Given
<1>2. QED
  BY <1>1, DeployInvariant, PTL

----
(***************************************************************************)
(* What the deployment has done so far.                                    *)
(***************************************************************************)
\* The blocks of commands.sh that have run.
Ran(block) == \E i \in 1 .. line - 1 : script[i] = block
\* The commands of e have been given to it.
Begun(e) == IF SelfConfigured(e) THEN e \in up ELSE Ran(<<"entity", e>>)
Neighbours(k, u, v) == HasLink(networks[k], u, v) \/ HasLink(networks[k], v, u)

\* The interfaces there are, on Compose and on Kubernetes.
StartedFirst == line > 1 => AllUp
OnNetworks == \A e \in up \cap Entities(cfg) : \A k \in Range(attached[e]) \cap OfLayer(3) : <<e, k>> \in addresses
VethsMade ==
  \A k \in OfLayer(2) : Ran(<<"link", k>>) =>
    \A u, v \in Entities(cfg) : Neighbours(k, u, v) => <<u, v>> \in wired \/ (u \in spoiled /\ v \in spoiled)
AddressesMade ==
  \A k \in OfLayer(2) : Ran(<<"link", k>>) =>
    \A e \in Entities(cfg) : EntityIp(networks, k, e) # NoAddress => e \in spoiled \/ <<e, k>> \in addresses
LinksMade == \A l \in links : {l.pod, l.peer} \subseteq up => <<l.pod, l.uid>> \in addresses
PortsBridged == \A t \in wired : IsSwitch(cfg, t[1]) => t \in bridged

\* The commands given are run or still to run.
InTable(r) == \E s \in table : s.at = r.at /\ s.dst = r.dst
CommandsOfRunning == \A e \in Entities(cfg) : pending[e] # {} => e \in up /\ Begun(e)
GatewaysConnected == \A s \in table : <<s.at, s.via[1]>> \in addresses
RoutesTracked ==
  \A r \in routes : Begun(r.at) => r.at \in spoiled \/ <<"route", r>> \in pending[r.at] \/ InTable(r)
ChainsOfRules == \A f \in Entities(cfg) : Range(chain[f]) \subseteq Range(cfg.rules[f])
RulesTracked ==
  \A f \in Entities(cfg) : cfg.kind[f] = "firewall" /\ f \notin spoiled /\ Begun(f) =>
    /\ \A rule \in Range(cfg.rules[f]) :
         <<"rule", rule>> \in pending[f] \/ ~Accepted(f, rule) \/ rule \in Range(chain[f])
    /\ <<"policy", cfg.default[f]>> \in pending[f] \/ policy[f] = cfg.default[f]

\* What a deployment has done so far, whatever was restarted.
RunInv ==
  step = "written" /\ NamesFree(cfg) =>
    /\ ~cfg.args.kubernetes => StartedFirst /\ OnNetworks /\ VethsMade /\ AddressesMade
    /\ cfg.args.kubernetes => LinksMade
    /\ PortsBridged /\ CommandsOfRunning /\ GatewaysConnected /\ RoutesTracked
    /\ ChainsOfRules /\ RulesTracked

\* What the deployment reads is fixed before it starts.
LEMMA ExportedIsFixed ==
  ASSUME UNCHANGED evars
  PROVE  /\ cfg' = cfg /\ networks' = networks /\ attached' = attached /\ routes' = routes /\ hosts' = hosts
         /\ step' = step /\ script' = script /\ links' = links /\ containers' = containers
         /\ \A l : OfLayer(l)' = OfLayer(l)
         /\ \A k, u, v : Neighbours(k, u, v)' <=> Neighbours(k, u, v)
         /\ \A e : SelfConfigured(e)' <=> SelfConfigured(e)
         /\ \A f, rule : Accepted(f, rule)' <=> Accepted(f, rule)
         /\ \A e : Commands(e)' = Commands(e)
<1>1. UNCHANGED vars /\ UNCHANGED files /\ step' = step
  BY DEF evars
<1>2. UNCHANGED <<cfg, networks, attached, routes, hosts, step, script, links, containers>>
  BY <1>1 DEF vars, files
<1>3. QED
  BY <1>2 DEF OfLayer, Neighbours, SelfConfigured, Accepted, Known, Commands

\* The blocks that have run, when commands.sh stays where it is or goes on.
LEMMA RanShape ==
  ASSUME script' = script, line \in Nat, 1 <= line
  PROVE  /\ line' = line => \A block : Ran(block)' <=> Ran(block)
         /\ line' = line + 1 => \A block : Ran(block)' <=> (Ran(block) \/ script[line] = block)
         /\ line = 1 => \A block : ~Ran(block)
<1>1. line' = line => \A block : Ran(block)' <=> Ran(block)
  BY DEF Ran
<1>2. line = 1 => \A block : ~Ran(block)
  BY DEF Ran
<1>3. ASSUME line' = line + 1, NEW block PROVE Ran(block)' <=> (Ran(block) \/ script[line] = block)
  <2>1. \A i : i \in 1 .. line' - 1 <=> (i \in 1 .. line - 1 \/ i = line)
    BY <1>3
  <2>2. Ran(block)' <=> \E i \in 1 .. line' - 1 : script[i] = block
    BY DEF Ran
  <2>3. QED
    BY <2>1, <2>2 DEF Ran
<1>4. QED
  BY <1>1, <1>2, <1>3

\* A layer 3 network has no switch on it.
LEMMA NoSwitchOnLayer3 ==
  ASSUME Exporting, phase = "done", NEW e \in Entities(cfg), NEW k \in Range(attached[e]) \cap OfLayer(3)
  PROVE  ~IsSwitch(cfg, e)
<1>1. k \in DOMAIN networks /\ e \in Range(networks[k].hops) /\ networks[k].layer = 3
  BY DEF Exporting, Architected, NumberedInv, AttachedInOrder, OfLayer
<1>2. \A h \in AllE2e(cfg) : IsRoute(cfg, h)
  BY Relied DEF Exporting, Architected
<1>3. networks[k] \in NetworksOf(cfg)
  BY <1>1, LayersAre
<1>4a. PICK h \in AllE2e(cfg) : \E i \in Starts(cfg, h) : MadeFor(cfg, networks[k], h, i)
  BY <1>3 DEF NetworksOf
<1>4. PICK i \in Starts(cfg, h) : MadeFor(cfg, networks[k], h, i)
  BY <1>4a
<1> DEFINE j == NextL3(cfg, h, i)
           x == SegmentAt(cfg, h, i)
<1>5. networks[k].hops = x /\ j = i + 1
  BY <1>1, <1>4 DEF MadeFor
<1>6. i \in Nat /\ Len(x) = j - i + 1 /\ DOMAIN x = 1 .. j - i + 1 /\ IsSegment(cfg, x)
  <2>1. IsRoute(cfg, h)
    BY <1>2
  <2>2. Len(h) \in Nat
    BY <2>1, RouteFacts
  <2>3. QED
    BY <2>1, <2>2, SegmentShape
<1> HIDE DEF j, x
<1>7. Len(x) = 2 /\ DOMAIN x = {1, 2}
  BY <1>5, <1>6
<1>8. ~IsSwitch(cfg, x[1]) /\ ~IsSwitch(cfg, x[2])
  BY <1>6, <1>7 DEF IsSegment
<1>9. QED
  BY <1>1, <1>5, <1>7, <1>8 DEF Range

\* What runs is a written topology.
Serving == Deploying /\ DeployInv /\ RoutedInv

\* It holds in every state of a deployment.
LEMMA ServingInvariant == DSpec => []Serving
<1>1. DSpec => []RoutedInv
  BY DeploymentFollowsArchitecture, RoutedInvariant, PTL
<1>2. QED
  BY <1>1, DeployInvariant, PTL DEF Serving

\* Everything of the configuration is in what was written.
LEMMA WrittenFacts ==
  ASSUME Serving, step = "written", NamesFree(cfg)
  PROVE  /\ phase = "done" /\ IsConfig(cfg) /\ CheckConfig(cfg) /\ \A h \in AllE2e(cfg) : IsRoute(cfg, h)
         /\ line \in Nat /\ 1 <= line
         /\ cfg.args.kubernetes =>
              /\ links = AllLinks /\ ExternalsOnly
              /\ \A e \in Entities(cfg) : HasContainer(e) /\ (cfg.kind[e] = "external" => HasBlock(<<"entity", e>>))
         /\ ~cfg.args.kubernetes =>
              /\ LinksFirst
              /\ \A k \in OfLayer(2) : HasBlock(<<"link", k>>)
              /\ \A e \in Entities(cfg) : ContainerOf(e) \in containers /\ (IsSwitch(cfg, e) \/ HasBlock(<<"entity", e>>))
<1>1. /\ \A e \in Entities(cfg) : Exported(e)
      /\ Exported(IF cfg.args.kubernetes THEN "meshnet" ELSE "networks")
      /\ phase = "done" /\ IsConfig(cfg) /\ CheckConfig(cfg) /\ \A h \in AllE2e(cfg) : IsRoute(cfg, h)
  BY AllExported DEF Serving, Deploying
<1>2. IF cfg.args.kubernetes THEN ExternalsOnly ELSE LinksFirst
  BY DEF Serving, Deploying, ProgressInv
<1>3. line \in Nat /\ 1 <= line
  BY DEF Serving, DeployInv
<1>4. ASSUME cfg.args.kubernetes
      PROVE  /\ links = AllLinks
             /\ \A e \in Entities(cfg) : HasContainer(e) /\ (cfg.kind[e] = "external" => HasBlock(<<"entity", e>>))
  <2>1. K8sExported("meshnet") /\ \A e \in Entities(cfg) : K8sExported(e)
    BY <1>1, <1>4 DEF Exported
  <2>2. links = AllLinks
    BY <2>1 DEF K8sExported
  <2>3. QED
    BY <2>1, <2>2 DEF K8sExported, PodNames
<1>5. ASSUME ~cfg.args.kubernetes
      PROVE  /\ \A k \in OfLayer(2) : HasBlock(<<"link", k>>)
             /\ \A e \in Entities(cfg) : ContainerOf(e) \in containers /\ (IsSwitch(cfg, e) \/ HasBlock(<<"entity", e>>))
  <2>1. ComposeExported("networks") /\ \A e \in Entities(cfg) : ComposeExported(e)
    BY <1>1, <1>5 DEF Exported
  <2>2. \A k \in OfLayer(2) : HasBlock(<<"link", k>>)
    BY <2>1 DEF ComposeExported
  <2>3. QED
    BY <2>1, <2>2 DEF ComposeExported
<1>6. QED
  BY <1>1, <1>2, <1>3, <1>4, <1>5

\* The layer 2 networks are there when a container gets its commands.
LEMMA LinksRunFirst ==
  ASSUME Serving, step = "written", NamesFree(cfg), ~cfg.args.kubernetes, NEW e, Begun(e), NEW k \in OfLayer(2)
  PROVE  Ran(<<"link", k>>)
<1>1. PICK i \in 1 .. line - 1 : script[i] = <<"entity", e>>
  BY DEF Begun, SelfConfigured, Ran
<1>2. PICK j \in DOMAIN script : script[j] = <<"link", k>>
  BY WrittenFacts DEF HasBlock, Range
<1>3. LinksFirst /\ line \in Nat /\ 1 <= line
  BY WrittenFacts
<1>4. Len(script) \in Nat /\ DOMAIN script = 1 .. Len(script) /\ line <= Len(script) + 1
  BY DEF Serving, Deploying, DeployInv, FilesInv
<1>5. i \in DOMAIN script /\ i \in Nat /\ j \in Nat
  BY <1>3, <1>4
<1>6. script[i][1] # "link" /\ script[j][1] = "link"
  BY <1>1, <1>2
<1>7. ~(i < j)
  BY <1>3, <1>5, <1>6 DEF LinksFirst
<1>8. j \in 1 .. line - 1
  BY <1>3, <1>4, <1>5, <1>7
<1>9. QED
  BY <1>2, <1>8 DEF Ran

\* An address is one of an interface.
LEMMA OnItsNetwork ==
  ASSUME Exporting, phase = "done", NEW e \in Entities(cfg), NEW k \in DOMAIN networks, EntityIp(networks, k, e) # NoAddress
  PROVE  /\ e \in Range(networks[k].hops) /\ k \in Range(attached[e]) /\ networks[k].layer \in {2, 3}
         /\ ~IsSwitch(cfg, e)
<1>1. networks[k] \in NetworksOf(cfg) /\ \A h \in AllE2e(cfg) : IsRoute(cfg, h)
  BY LayersAre, Relied DEF Exporting, Architected
<1>2. networks[k] \in NetworkRecords(cfg) /\ IsSegment(cfg, networks[k].hops)
  BY <1>1, NetworkShape
<1>3. networks[k].layer \in {2, 3}
  BY <1>2 DEF NetworkRecords
<1> DEFINE x == networks[k].hops
<1>4. x \in Seq(Entities(cfg)) /\ Len(x) \in Nat /\ Len(x) >= 2 /\ DOMAIN x = 1 .. Len(x)
  BY <1>2 DEF IsSegment
<1>5. (e = x[1] \/ e = x[Len(x)]) /\ ~IsSwitch(cfg, e)
  BY <1>2 DEF EntityIp, LastHop, IsSegment
<1> HIDE DEF x
<1>6. e \in Range(x)
  <2>1. 1 \in DOMAIN x /\ Len(x) \in DOMAIN x
    BY <1>4
  <2>2. QED
    BY <1>5, <2>1 DEF Range
<1>7. k \in Range(attached[e])
  BY <1>6 DEF Exporting, Architected, NumberedInv, AttachedInOrder, x
<1>8. QED
  BY <1>3, <1>5, <1>6, <1>7 DEF x

\* The owner of a route has its interface to the gateway when its commands run.
LEMMA GatewayPresent ==
  ASSUME Serving, RunInv, step = "written", NamesFree(cfg), NEW r \in routes, Begun(r.at), r.at \in up,
         cfg.args.kubernetes => LinksReady(r.at)
  PROVE  r.at \in spoiled \/ <<r.at, r.via[1]>> \in addresses
<1> DEFINE e == r.at
           k == r.via[1]
<1>1. e \in Entities(cfg) /\ k \in DOMAIN networks /\ EntityIp(networks, k, e) # NoAddress
  BY DEF Serving, RoutedInv, RouteRecords, NextHop
<1>2. phase = "done" /\ Exporting
  BY WrittenFacts DEF Serving, Deploying
<1>3. k \in Range(attached[e]) /\ networks[k].layer \in {2, 3} /\ e \in Range(networks[k].hops)
  BY <1>1, <1>2, OnItsNetwork
<1>4. k \in OfLayer(2) \/ k \in OfLayer(3)
  BY <1>1, <1>3 DEF OfLayer
<1>5. CASE ~cfg.args.kubernetes
  <2>1. OnNetworks /\ AddressesMade
    BY <1>5 DEF RunInv
  <2>2. CASE k \in OfLayer(3)
    BY <1>1, <1>3, <2>1, <2>2 DEF OnNetworks
  <2>3. CASE k \in OfLayer(2)
    <3>1. Ran(<<"link", k>>)
      BY <1>5, <2>3, LinksRunFirst
    <3>2. QED
      BY <1>1, <2>1, <2>3, <3>1 DEF AddressesMade
  <2>4. QED
    BY <1>4, <2>2, <2>3
<1>6. CASE cfg.args.kubernetes
  <2>1. LinksMade /\ links = AllLinks
    BY <1>6, WrittenFacts DEF RunInv
  <2>2. Link(e, k) \in links
    BY <1>1, <1>3, <2>1 DEF AllLinks
  <2>3. Link(e, k).pod = e /\ Link(e, k).uid = k
    BY DEF Link
  <2> DEFINE l == Link(e, k)
  <2> HIDE DEF l
  <2>4. l \in links /\ l.pod = e /\ l.uid = k
    BY <2>2, <2>3 DEF l
  <2>5. l.peer \in up
    BY <1>6, <2>4 DEF LinksReady
  <2>6. {l.pod, l.peer} \subseteq up
    BY <2>4, <2>5
  <2>7. QED
    BY <2>1, <2>4, <2>6 DEF LinksMade
<1>7. QED
  BY <1>5, <1>6

\* The steps that give no commands and take no interface away keep what there is.
LEMMA StartKeeps ==
  ASSUME Serving, RunInv, step = "written", NamesFree(cfg), Start
  PROVE  RunInv'
<1>1. PICK t \in containers :
        /\ t.name \notin up
        /\ up' = up \cup {t.name}
        /\ addresses' = addresses \cup Attached(t, up')
        /\ pending' = IF SelfConfigured(t.name)
                      THEN [pending EXCEPT ![t.name] = Commands(t.name)] ELSE pending
  BY DEF Start
<1>2. UNCHANGED <<wired, bridged, table, chain, policy, line, restarts, spoiled>> /\ UNCHANGED evars
  BY DEF Start, tables
<1>3. /\ cfg' = cfg /\ networks' = networks /\ attached' = attached /\ routes' = routes
      /\ step' = step /\ script' = script /\ links' = links /\ containers' = containers
      /\ \A l : OfLayer(l)' = OfLayer(l)
      /\ \A k, u, v : Neighbours(k, u, v)' <=> Neighbours(k, u, v)
      /\ \A e : SelfConfigured(e)' <=> SelfConfigured(e)
      /\ \A f, rule : Accepted(f, rule)' <=> Accepted(f, rule)
  BY <1>2, ExportedIsFixed
<1>4. line \in Nat /\ 1 <= line /\ phase = "done" /\ Exporting
  BY WrittenFacts DEF Serving, Deploying
<1>5. \A block : Ran(block)' <=> Ran(block)
  BY <1>2, <1>3, <1>4, RanShape
<1>6. ~cfg.args.kubernetes => StartedFirst' /\ OnNetworks' /\ VethsMade' /\ AddressesMade'
  <2> SUFFICES ASSUME ~cfg.args.kubernetes PROVE StartedFirst' /\ OnNetworks' /\ VethsMade' /\ AddressesMade'
    OBVIOUS
  <2>1. StartedFirst /\ OnNetworks /\ VethsMade /\ AddressesMade
    BY DEF RunInv
  <2>2. line = 1
    BY <1>1, <1>4, <2>1 DEF StartedFirst, AllUp
  <2>3. StartedFirst'
    BY <1>2, <2>2 DEF StartedFirst
  <2>4. VethsMade' /\ AddressesMade'
    BY <1>1, <1>2, <1>3, <1>5, <2>1 DEF VethsMade, AddressesMade
  <2>5. ASSUME NEW e \in up' \cap Entities(cfg), NEW k \in Range(attached[e]) \cap OfLayer(3) PROVE <<e, k>> \in addresses'
    <3>1. CASE e \in up
      BY <1>1, <2>1, <2>5, <3>1 DEF OnNetworks
    <3>2. CASE e = t.name
      <4>1. t = ContainerOf(e)
        <5>1. ComposeContainer(t)
          BY <1>4 DEF Exporting, ContainersInv
        <5>2. ~OfTelemetry(t)
          BY <3>2, ContainerFields, ItemsApart DEF OfTelemetry
        <5>3. PICK n \in Entities(cfg) : t = ContainerOf(n)
          BY <5>1, <5>2 DEF ComposeContainer
        <5>4. n = e
          BY <3>2, <5>3, EntityContainer
        <5>5. QED
          BY <5>3, <5>4
      <4>2. ~IsSwitch(cfg, e)
        BY <1>4, NoSwitchOnLayer3
      <4>3. k \in t.networks
        BY <4>1, <4>2 DEF ContainerOf, Container
      <4>4. k # TelemetryNet
        BY LayersAre, <1>4 DEF TelemetryNet, NoNetwork, OfLayer
      <4>5. QED
        BY <1>1, <3>2, <4>3, <4>4 DEF Attached
    <3>3. QED
      BY <1>1, <3>1, <3>2
  <2>6. OnNetworks'
    BY <1>3, <2>5 DEF OnNetworks
  <2>7. QED
    BY <2>3, <2>4, <2>6
<1>7. cfg.args.kubernetes => LinksMade'
  <2> SUFFICES ASSUME cfg.args.kubernetes, NEW l \in links, {l.pod, l.peer} \subseteq up' PROVE <<l.pod, l.uid>> \in addresses'
    BY <1>3 DEF LinksMade
  <2>1. <<l.pod, l.uid>> \in Attached(t, up')
    BY DEF Attached
  <2>2. QED
    BY <1>1, <2>1
<1>8. PortsBridged' /\ GatewaysConnected' /\ ChainsOfRules'
  BY <1>1, <1>2, <1>3 DEF RunInv, PortsBridged, GatewaysConnected, ChainsOfRules
<1>9. /\ SelfConfigured(t.name) => t.name \in Entities(cfg) /\ pending'[t.name] = Commands(t.name)
      /\ \A e \in Entities(cfg) : e # t.name \/ ~SelfConfigured(e) => pending'[e] = pending[e]
  <2>1. Given(pending)
    BY DEF Serving, DeployInv
  <2>2. CASE SelfConfigured(t.name)
    <3>1. t.name \in Entities(cfg)
      BY <2>2 DEF SelfConfigured
    <3>2. QED
      BY <1>1, <2>1, <2>2, <3>1, GivenUpdate
  <2>3. CASE ~SelfConfigured(t.name)
    BY <1>1, <2>3
  <2>4. QED
    BY <2>2, <2>3
<1>10. /\ \A e : Begun(e) => Begun(e)'
       /\ \A e : Begun(e)' => Begun(e) \/ (e = t.name /\ SelfConfigured(e))
  BY <1>1, <1>3, <1>5 DEF Begun
<1>11. CommandsOfRunning'
  <2> SUFFICES ASSUME NEW e \in Entities(cfg), pending'[e] # {} PROVE e \in up' /\ Begun(e)'
    BY <1>3 DEF CommandsOfRunning
  <2>1. CASE e = t.name /\ SelfConfigured(e)
    BY <1>1, <1>3, <2>1 DEF Begun
  <2>2. CASE ~(e = t.name /\ SelfConfigured(e))
    BY <1>1, <1>9, <1>10, <2>2 DEF RunInv, CommandsOfRunning
  <2>3. QED
    BY <2>1, <2>2
<1>12. RoutesTracked'
  <2> SUFFICES ASSUME NEW r \in routes, Begun(r.at)' PROVE r.at \in spoiled' \/ <<"route", r>> \in pending'[r.at] \/ InTable(r)'
    BY <1>3 DEF RoutesTracked
  <2>1. r.at \in Entities(cfg)
    BY DEF Serving, RoutedInv, RouteRecords
  <2>2. CASE r.at = t.name /\ SelfConfigured(r.at)
    <3>1. <<"route", r>> \in Commands(r.at)
      BY DEF Commands
    <3>2. QED
      BY <1>9, <2>2, <3>1
  <2>3. CASE ~(r.at = t.name /\ SelfConfigured(r.at))
    BY <1>2, <1>9, <1>10, <2>1, <2>3 DEF RunInv, RoutesTracked, InTable
  <2>4. QED
    BY <2>2, <2>3
<1>13. RulesTracked'
  <2> SUFFICES ASSUME NEW f \in Entities(cfg), cfg.kind[f] = "firewall", f \notin spoiled, Begun(f)' PROVE
        /\ \A rule \in Range(cfg.rules[f]) :
             <<"rule", rule>> \in pending'[f] \/ ~Accepted(f, rule) \/ rule \in Range(chain[f])
        /\ <<"policy", cfg.default[f]>> \in pending'[f] \/ policy[f] = cfg.default[f]
    BY <1>2, <1>3 DEF RulesTracked
  <2>1. CASE f = t.name /\ SelfConfigured(f)
    <3>1. /\ <<"policy", cfg.default[f]>> \in Commands(f)
          /\ \A rule \in Range(cfg.rules[f]) : <<"rule", rule>> \in Commands(f)
      BY DEF Commands
    <3>2. QED
      BY <1>9, <2>1, <3>1
  <2>2. CASE ~(f = t.name /\ SelfConfigured(f))
    BY <1>9, <1>10, <2>2 DEF RunInv, RulesTracked
  <2>3. QED
    BY <2>1, <2>2
<1>14. QED
  BY <1>3, <1>6, <1>7, <1>8, <1>11, <1>12, <1>13 DEF RunInv

\* Every hop of a network has an end of a pair.
LEMMA EveryHopHasEnd ==
  ASSUME Exporting, phase = "done", NEW k \in DOMAIN networks, NEW e \in Range(networks[k].hops)
  PROVE  \E n : <<e, n>> \in VethEnds(networks[k].hops)
<1> DEFINE h == networks[k].hops
<1>1. networks[k] \in NetworksOf(cfg) /\ \A g \in AllE2e(cfg) : IsRoute(cfg, g)
  BY LayersAre, Relied DEF Exporting, Architected
<1>2. IsSegment(cfg, h)
  BY <1>1, NetworkShape
<1>3. Len(h) \in Nat /\ Len(h) >= 2 /\ DOMAIN h = 1 .. Len(h)
  BY <1>2 DEF IsSegment
<1> HIDE DEF h
<1>4. PICK i \in 1 .. Len(h) : h[i] = e
  BY <1>3 DEF Range, h
<1>5. \E j \in 1 .. Len(h) - 1 : j = i \/ j + 1 = i
  <2>1. CASE i # Len(h)
    <3>1. \A m \in Nat : i \in 1 .. m /\ i # m => i \in 1 .. m - 1
      OBVIOUS
    <3>2. i \in 1 .. Len(h) - 1
      BY <1>3, <2>1, <3>1
    <3>3. QED
      BY <3>2
  <2>2. CASE i = Len(h)
    <3>1. i - 1 \in 1 .. Len(h) - 1 /\ (i - 1) + 1 = i
      BY <1>3, <2>2
    <3>2. QED
      BY <3>1
  <2>3. QED
    BY <2>1, <2>2
<1>6. PICK j \in 1 .. Len(h) - 1 : h[j] = e \/ h[j + 1] = e
  BY <1>4, <1>5
<1>7. PICK n : (h[j] = e /\ h[j + 1] = n) \/ (h[j] = n /\ h[j + 1] = e)
  BY <1>6
<1>8. <<e, n>> \in {<<h[j], h[j + 1]>>, <<h[j + 1], h[j]>>}
  BY <1>7
<1>9. <<e, n>> \in VethEnds(h)
  BY <1>8 DEF VethEnds
<1>10. QED
  BY <1>9 DEF h

\* The veth pairs of a layer 2 network, but for those of a failing switch.
LEMMA LinkBlockKeeps ==
  ASSUME Serving, RunInv, step = "written", NamesFree(cfg), LinkBlock
  PROVE  RunInv'
<1> DEFINE k == script[line][2]
           h == networks[k].hops
<1>0. PICK made \in SUBSET VethEnds(h) :
        /\ VethEnds(h) \ CutEnds(h) \subseteq made
        /\ wired' = wired \cup made
        /\ bridged' = bridged \cup (BridgePorts(h) \cap made)
        /\ addresses' = addresses \cup {<<t[1], k>> : t \in {u \in made : EntityIp(networks, k, u[1]) # NoAddress}}
  <2>1. PICK kept \in SUBSET {t \in CutEnds(h) : t[1] \notin looping} :
          LET m == (VethEnds(h) \ CutEnds(h)) \cup kept IN
          /\ wired' = wired \cup m
          /\ bridged' = bridged \cup (BridgePorts(h) \cap m)
          /\ addresses' = addresses \cup {<<t[1], k>> : t \in {u \in m : EntityIp(networks, k, u[1]) # NoAddress}}
    BY DEF LinkBlock
  <2>2. (VethEnds(h) \ CutEnds(h)) \cup kept \in SUBSET VethEnds(h)
    BY DEF CutEnds
  <2>3. QED
    BY <2>1, <2>2
<1>1. /\ Turns("link")
      /\ spoiled' = spoiled \cup {t[1] : t \in CutEnds(h)}
      /\ UNCHANGED <<up, table, chain, policy, pending>> /\ UNCHANGED evars
  BY DEF LinkBlock, tables
<1>2. /\ cfg' = cfg /\ networks' = networks /\ attached' = attached /\ routes' = routes
      /\ step' = step /\ script' = script /\ links' = links /\ containers' = containers
      /\ \A l : OfLayer(l)' = OfLayer(l)
      /\ \A m, u, v : Neighbours(m, u, v)' <=> Neighbours(m, u, v)
      /\ \A e : SelfConfigured(e)' <=> SelfConfigured(e)
      /\ \A f, rule : Accepted(f, rule)' <=> Accepted(f, rule)
  BY <1>1, ExportedIsFixed
<1>3. line \in Nat /\ 1 <= line /\ phase = "done" /\ Exporting
  BY WrittenFacts DEF Serving, Deploying
<1>4. line \in DOMAIN script /\ line' = line + 1 /\ script[line] = <<"link", k>> /\ k \in OfLayer(2)
  <2>1. script[line] \in Blocks /\ script[line][1] = "link" /\ k \in OfLayer(2) /\ line \in DOMAIN script /\ line' = line + 1
    BY <1>1, TurnsShape DEF Serving, Deploying, DeployInv
  <2>2. QED
    BY <2>1 DEF Blocks
<1>5. k \in DOMAIN networks
  BY <1>3, <1>4, LayersAre
<1>6. \A block : Ran(block)' <=> Ran(block) \/ block = <<"link", k>>
  BY <1>2, <1>3, <1>4, RanShape
<1>7. \A e : Begun(e)' <=> Begun(e)
  <2>1. \A e : Ran(<<"entity", e>>)' <=> Ran(<<"entity", e>>)
    BY <1>6
  <2>2. QED
    BY <1>1, <1>2, <2>1 DEF Begun
<1>8. wired \subseteq wired' /\ addresses \subseteq addresses' /\ bridged \subseteq bridged' /\ spoiled \subseteq spoiled'
  BY <1>0, <1>1
<1>9. \A u, v : Neighbours(k, u, v) => <<u, v>> \in wired' \/ (u \in spoiled' /\ v \in spoiled')
  <2> SUFFICES ASSUME NEW u, NEW v, Neighbours(k, u, v) PROVE <<u, v>> \in wired' \/ (u \in spoiled' /\ v \in spoiled')
    OBVIOUS
  <2>1. PICK i \in 1 .. Len(h) - 1 : (h[i] = u /\ h[i + 1] = v) \/ (h[i] = v /\ h[i + 1] = u)
    BY DEF Neighbours, HasLink
  <2>2. <<u, v>> \in VethEnds(h) /\ <<v, u>> \in VethEnds(h)
    <3>1. {<<h[i], h[i + 1]>>, <<h[i + 1], h[i]>>} \subseteq VethEnds(h)
      BY DEF VethEnds
    <3>2. {<<h[i], h[i + 1]>>, <<h[i + 1], h[i]>>} = {<<u, v>>, <<v, u>>}
      BY <2>1
    <3>3. QED
      BY <3>1, <3>2
  <2>3. CASE <<u, v>> \in CutEnds(h)
    <3>1. <<v, u>> \in CutEnds(h)
      BY <2>2, <2>3 DEF CutEnds
    <3>2. <<u, v>>[1] \in spoiled' /\ <<v, u>>[1] \in spoiled'
      BY <1>1, <2>3, <3>1
    <3>3. QED
      BY <3>2
  <2>4. QED
    BY <1>0, <2>2, <2>3
<1>10. \A e \in Entities(cfg) : EntityIp(networks, k, e) # NoAddress => e \in spoiled' \/ <<e, k>> \in addresses'
  <2> SUFFICES ASSUME NEW e \in Entities(cfg), EntityIp(networks, k, e) # NoAddress
               PROVE  e \in spoiled' \/ <<e, k>> \in addresses'
    OBVIOUS
  <2>1. e \in Range(h)
    BY <1>3, <1>5, OnItsNetwork
  <2>2. PICK n : <<e, n>> \in VethEnds(h)
    BY <1>3, <1>5, <2>1, EveryHopHasEnd
  <2>3. CASE <<e, n>> \in CutEnds(h)
    <3>1. <<e, n>>[1] \in spoiled'
      BY <1>1, <2>3
    <3>2. QED
      BY <3>1
  <2>4. CASE <<e, n>> \notin CutEnds(h)
    <3>1. <<e, n>> \in made /\ <<e, n>>[1] = e
      BY <1>0, <2>2, <2>4
    <3>2. QED
      BY <1>0, <3>1
  <2>5. QED
    BY <2>3, <2>4
<1> HIDE DEF k, h
<1>11. ~cfg.args.kubernetes => StartedFirst' /\ OnNetworks' /\ VethsMade' /\ AddressesMade'
  <2> SUFFICES ASSUME ~cfg.args.kubernetes PROVE StartedFirst' /\ OnNetworks' /\ VethsMade' /\ AddressesMade'
    OBVIOUS
  <2>1. StartedFirst /\ OnNetworks /\ VethsMade /\ AddressesMade
    BY DEF RunInv
  <2>2. StartedFirst'
    BY <1>1, <1>2 DEF StartedFirst, AllUp, Turns
  <2>3. OnNetworks'
    BY <1>1, <1>2, <1>8, <2>1 DEF OnNetworks
  <2>4. VethsMade'
    BY <1>1, <1>2, <1>6, <1>8, <1>9, <2>1 DEF VethsMade
  <2>5. AddressesMade'
    BY <1>1, <1>2, <1>6, <1>8, <1>10, <2>1 DEF AddressesMade
  <2>6. QED
    BY <2>2, <2>3, <2>4, <2>5
<1>12. cfg.args.kubernetes => LinksMade'
  BY <1>1, <1>2, <1>8 DEF RunInv, LinksMade
<1>13. PortsBridged'
  BY <1>0, <1>2, <1>8 DEF RunInv, PortsBridged, BridgePorts
<1>14. CommandsOfRunning' /\ GatewaysConnected' /\ RoutesTracked' /\ ChainsOfRules' /\ RulesTracked'
  BY <1>1, <1>2, <1>7, <1>8 DEF RunInv, CommandsOfRunning, GatewaysConnected, RoutesTracked, InTable, ChainsOfRules, RulesTracked
<1>15. QED
  BY <1>2, <1>11, <1>12, <1>13, <1>14 DEF RunInv

\* The commands of an entity are given to it, or it is too early.
LEMMA EntityBlockKeeps ==
  ASSUME Serving, RunInv, step = "written", NamesFree(cfg), EntityBlock
  PROVE  RunInv'
<1>0. PICK n : n = script[line][2]
  OBVIOUS
<1>1. /\ Turns("entity")
      /\ IF n \in up
         THEN pending' = [pending EXCEPT ![n] = Commands(n)] /\ UNCHANGED spoiled
         ELSE spoiled' = spoiled \cup {n} /\ UNCHANGED pending
      /\ UNCHANGED <<up, addresses, wired, bridged, table, chain, policy, restarts>> /\ UNCHANGED evars
  BY <1>0 DEF EntityBlock, tables, network
<1>2. /\ cfg' = cfg /\ networks' = networks /\ attached' = attached /\ routes' = routes
      /\ step' = step /\ script' = script /\ links' = links /\ containers' = containers
      /\ \A l : OfLayer(l)' = OfLayer(l)
      /\ \A m, u, v : Neighbours(m, u, v)' <=> Neighbours(m, u, v)
      /\ \A e : SelfConfigured(e)' <=> SelfConfigured(e)
      /\ \A f, rule : Accepted(f, rule)' <=> Accepted(f, rule)
  BY <1>1, ExportedIsFixed
<1>3. line \in Nat /\ 1 <= line /\ phase = "done" /\ Exporting
  BY WrittenFacts DEF Serving, Deploying
<1>4. line \in DOMAIN script /\ line' = line + 1 /\ script[line] = <<"entity", n>> /\ n \in Entities(cfg)
  <2>1. script[line] \in Blocks /\ script[line][1] = "entity" /\ n \in Entities(cfg) /\ line \in DOMAIN script /\ line' = line + 1
    BY <1>0, <1>1, TurnsShape DEF Serving, Deploying, DeployInv
  <2>2. QED
    BY <1>0, <2>1 DEF Blocks
<1>5. \A block : Ran(block)' <=> Ran(block) \/ block = <<"entity", n>>
  BY <1>2, <1>3, <1>4, RanShape
<1>6. ~SelfConfigured(n)
  <2>1. cfg.args.kubernetes => ExternalsOnly
    BY WrittenFacts
  <2>2. QED
    BY <1>4, <2>1 DEF ExternalsOnly, SelfConfigured
<1>7. Begun(n)' /\ \A e : e # n => (Begun(e)' <=> Begun(e))
  <2>1. Ran(<<"entity", n>>)' /\ \A e : e # n => (Ran(<<"entity", e>>)' <=> Ran(<<"entity", e>>))
    BY <1>5
  <2>2. QED
    BY <1>1, <1>2, <1>6, <2>1 DEF Begun
<1>8. \A k : Ran(<<"link", k>>)' <=> Ran(<<"link", k>>)
  BY <1>5
<1>9. spoiled \subseteq spoiled' /\ (n \notin up => n \in spoiled')
  BY <1>1
<1>10. /\ n \in up => pending'[n] = Commands(n)
       /\ n \notin up => pending' = pending
       /\ \A e \in Entities(cfg) : e # n => pending'[e] = pending[e]
  <2>1. Given(pending)
    BY DEF Serving, DeployInv
  <2>2. CASE n \in up
    <3>0. PICK x : x = Commands(n)
      OBVIOUS
    <3>1. x \subseteq Commands(n) /\ n \in Entities(cfg)
      BY <1>4, <3>0
    <3>2. /\ Given([pending EXCEPT ![n] = x])
          /\ [pending EXCEPT ![n] = x][n] = x
          /\ \A e \in Entities(cfg) : e # n => [pending EXCEPT ![n] = x][e] = pending[e]
      BY <2>1, <3>1, GivenUpdate
    <3>3. pending' = [pending EXCEPT ![n] = x]
      BY <1>1, <2>2, <3>0
    <3>4. QED
      BY <2>2, <3>0, <3>2, <3>3
  <2>3. CASE n \notin up
    BY <1>1, <2>3
  <2>4. QED
    BY <2>2, <2>3
<1>11. ~cfg.args.kubernetes => StartedFirst' /\ OnNetworks' /\ VethsMade' /\ AddressesMade'
  <2> SUFFICES ASSUME ~cfg.args.kubernetes PROVE StartedFirst' /\ OnNetworks' /\ VethsMade' /\ AddressesMade'
    OBVIOUS
  <2>1. StartedFirst /\ OnNetworks /\ VethsMade /\ AddressesMade
    BY DEF RunInv
  <2>2. StartedFirst'
    BY <1>1, <1>2 DEF StartedFirst, AllUp, Turns
  <2>3. OnNetworks'
    BY <1>1, <1>2, <2>1 DEF OnNetworks
  <2>4. VethsMade'
    BY <1>1, <1>2, <1>8, <1>9, <2>1 DEF VethsMade
  <2>5. AddressesMade'
    BY <1>1, <1>2, <1>8, <1>9, <2>1 DEF AddressesMade
  <2>6. QED
    BY <2>2, <2>3, <2>4, <2>5
<1>12. cfg.args.kubernetes => LinksMade'
  BY <1>1, <1>2 DEF RunInv, LinksMade
<1>13. PortsBridged' /\ GatewaysConnected' /\ ChainsOfRules'
  BY <1>1, <1>2 DEF RunInv, PortsBridged, GatewaysConnected, ChainsOfRules
<1>14. CommandsOfRunning'
  <2> SUFFICES ASSUME NEW e \in Entities(cfg), pending'[e] # {} PROVE e \in up /\ Begun(e)'
    BY <1>1, <1>2 DEF CommandsOfRunning
  <2>1. CASE e = n
    BY <1>4, <1>7, <1>10, <2>1 DEF RunInv, CommandsOfRunning
  <2>2. CASE e # n
    BY <1>7, <1>10, <2>2 DEF RunInv, CommandsOfRunning
  <2>3. QED
    BY <2>1, <2>2
<1>15. RoutesTracked'
  <2> SUFFICES ASSUME NEW r \in routes, Begun(r.at)' PROVE r.at \in spoiled' \/ <<"route", r>> \in pending'[r.at] \/ InTable(r)'
    BY <1>2 DEF RoutesTracked
  <2>1. r.at \in Entities(cfg)
    BY DEF Serving, RoutedInv, RouteRecords
  <2>2. CASE r.at = n
    <3>1. <<"route", r>> \in Commands(r.at)
      BY DEF Commands
    <3>2. QED
      BY <1>9, <1>10, <2>2, <3>1
  <2>3. CASE r.at # n
    BY <1>1, <1>7, <1>9, <1>10, <2>1, <2>3 DEF RunInv, RoutesTracked, InTable
  <2>4. QED
    BY <2>2, <2>3
<1>16. RulesTracked'
  <2> SUFFICES ASSUME NEW f \in Entities(cfg), cfg.kind[f] = "firewall", f \notin spoiled', Begun(f)' PROVE
        /\ \A rule \in Range(cfg.rules[f]) :
             <<"rule", rule>> \in pending'[f] \/ ~Accepted(f, rule) \/ rule \in Range(chain[f])
        /\ <<"policy", cfg.default[f]>> \in pending'[f] \/ policy[f] = cfg.default[f]
    BY <1>1, <1>2 DEF RulesTracked
  <2>1. CASE f = n
    <3>1. /\ <<"policy", cfg.default[f]>> \in Commands(f)
          /\ \A rule \in Range(cfg.rules[f]) : <<"rule", rule>> \in Commands(f)
      BY DEF Commands
    <3>2. QED
      BY <1>9, <1>10, <2>1, <3>1
  <2>2. CASE f # n
    BY <1>7, <1>9, <1>10, <2>2 DEF RunInv, RulesTracked
  <2>3. QED
    BY <2>1, <2>2
<1>17. QED
  BY <1>2, <1>11, <1>12, <1>13, <1>14, <1>15, <1>16 DEF RunInv

\* Commands leave the interfaces alone.
LEMMA InterfacesStay ==
  ASSUME Serving, RunInv, step = "written", NamesFree(cfg),
         UNCHANGED evars, UNCHANGED <<up, network, line>>, ~cfg.args.kubernetes => spoiled \subseteq spoiled'
  PROVE  /\ ~cfg.args.kubernetes => StartedFirst' /\ OnNetworks' /\ VethsMade' /\ AddressesMade'
         /\ cfg.args.kubernetes => LinksMade'
         /\ PortsBridged'
         /\ \A e : Begun(e)' <=> Begun(e)
<1>1. /\ cfg' = cfg /\ networks' = networks /\ attached' = attached /\ routes' = routes
      /\ step' = step /\ script' = script /\ links' = links /\ containers' = containers
      /\ \A l : OfLayer(l)' = OfLayer(l)
      /\ \A m, u, v : Neighbours(m, u, v)' <=> Neighbours(m, u, v)
      /\ \A e : SelfConfigured(e)' <=> SelfConfigured(e)
  BY ExportedIsFixed
<1>2. UNCHANGED <<up, addresses, wired, bridged, line>>
  BY DEF network
<1>3. \A block : Ran(block)' <=> Ran(block)
  BY <1>1, <1>2, WrittenFacts, RanShape
<1>4. ~cfg.args.kubernetes => StartedFirst' /\ OnNetworks' /\ VethsMade' /\ AddressesMade'
  <2> SUFFICES ASSUME ~cfg.args.kubernetes PROVE StartedFirst' /\ OnNetworks' /\ VethsMade' /\ AddressesMade'
    OBVIOUS
  <2>1. StartedFirst /\ OnNetworks /\ VethsMade /\ AddressesMade
    BY DEF RunInv
  <2>2. StartedFirst'
    BY <1>1, <1>2, <2>1 DEF StartedFirst, AllUp
  <2>3. OnNetworks'
    BY <1>1, <1>2, <2>1 DEF OnNetworks
  <2>4. VethsMade'
    BY <1>1, <1>2, <1>3, <2>1 DEF VethsMade
  <2>5. AddressesMade'
    BY <1>1, <1>2, <1>3, <2>1 DEF AddressesMade
  <2>6. QED
    BY <2>2, <2>3, <2>4, <2>5
<1>5. cfg.args.kubernetes => LinksMade'
  BY <1>1, <1>2 DEF RunInv, LinksMade
<1>6. PortsBridged'
  BY <1>1, <1>2 DEF RunInv, PortsBridged
<1>7. \A e : Begun(e)' <=> Begun(e)
  BY <1>1, <1>2, <1>3 DEF Begun
<1>8. QED
  BY <1>4, <1>5, <1>6, <1>7

\* "ip route add".
LEMMA AddRouteKeeps ==
  ASSUME Serving, RunInv, step = "written", NamesFree(cfg), AddRoute
  PROVE  RunInv'
<1>1. PICK e \in Entities(cfg), r \in routes :
        /\ Runs(e, <<"route", r>>)
        /\ table' = IF Installable(r) THEN table \cup {r} ELSE table
        /\ spoiled' = IF LinksReady(e) THEN spoiled ELSE spoiled \cup {e}
  BY DEF AddRoute
<1>2. UNCHANGED <<up, network, chain, policy, line, looping, restarts>> /\ UNCHANGED evars
  BY DEF AddRoute
<1>3. cfg' = cfg /\ routes' = routes /\ step' = step /\ \A f, rule : Accepted(f, rule)' <=> Accepted(f, rule)
  BY <1>2, ExportedIsFixed
<1>4. spoiled \subseteq spoiled' /\ addresses' = addresses /\ up' = up
  BY <1>1, <1>2 DEF network
<1>5. /\ <<"route", r>> \in pending[e] /\ <<"route", r>> \in Commands(e)
      /\ pending'[e] = pending[e] \ {<<"route", r>>}
      /\ \A n \in Entities(cfg) : n # e => pending'[n] = pending[n]
  BY <1>1, RunsShape DEF Serving, DeployInv
<1>6. r.at = e
  <2>1. \A x, y : <<"route", x>> # <<"rule", y>> /\ <<"route", x>> # <<"policy", y>>
    OBVIOUS
  <2>2. <<"route", r>> \in {<<"route", s>> : s \in {q \in routes : q.at = e}}
    BY <1>5, <2>1 DEF Commands
  <2>3. QED
    BY <2>2
<1>7. /\ ~cfg.args.kubernetes => StartedFirst' /\ OnNetworks' /\ VethsMade' /\ AddressesMade'
      /\ cfg.args.kubernetes => LinksMade'
      /\ PortsBridged'
      /\ \A n : Begun(n)' <=> Begun(n)
  BY <1>2, <1>4, InterfacesStay
<1>8. e \in up /\ Begun(e)
  BY <1>5 DEF RunInv, CommandsOfRunning
<1>9. e \in spoiled' \/ InTable(r)'
  <2>1. CASE ~LinksReady(e)
    BY <1>1, <2>1
  <2>2. CASE LinksReady(e)
    <3>1. e \in spoiled \/ <<e, r.via[1]>> \in addresses
      BY <1>6, <1>8, <2>2, GatewayPresent
    <3>2. CASE e \in spoiled
      BY <1>4, <3>2
    <3>3. CASE <<e, r.via[1]>> \in addresses
      BY <1>1, <1>6, <3>3 DEF Installable, InTable
    <3>4. QED
      BY <3>1, <3>2, <3>3
  <2>3. QED
    BY <2>1, <2>2
<1>10. CommandsOfRunning'
  <2> SUFFICES ASSUME NEW n \in Entities(cfg), pending'[n] # {} PROVE n \in up /\ Begun(n)'
    BY <1>3, <1>4 DEF CommandsOfRunning
  <2>1. pending[n] # {}
    BY <1>5
  <2>2. QED
    BY <1>7, <2>1 DEF RunInv, CommandsOfRunning
<1>11. GatewaysConnected'
  BY <1>1, <1>4, <1>6 DEF RunInv, GatewaysConnected, Installable
<1>12. table \subseteq table'
  BY <1>1
<1>13. RoutesTracked'
  <2> SUFFICES ASSUME NEW s \in routes, Begun(s.at)' PROVE s.at \in spoiled' \/ <<"route", s>> \in pending'[s.at] \/ InTable(s)'
    BY <1>3 DEF RoutesTracked
  <2>1. s.at \in Entities(cfg)
    BY DEF Serving, RoutedInv, RouteRecords
  <2>2. s.at \in spoiled \/ <<"route", s>> \in pending[s.at] \/ InTable(s)
    BY <1>7 DEF RunInv, RoutesTracked
  <2>3. InTable(s) => InTable(s)'
    BY <1>12 DEF InTable
  <2>4. CASE s = r
    BY <1>6, <1>9, <2>4
  <2>5. CASE s # r
    <3>1. <<"route", s>> # <<"route", r>>
      BY <2>5
    <3>2. <<"route", s>> \in pending[s.at] => <<"route", s>> \in pending'[s.at]
      BY <1>5, <2>1, <3>1
    <3>3. QED
      BY <1>4, <2>2, <2>3, <3>2
  <2>6. QED
    BY <2>4, <2>5
<1>14. ChainsOfRules'
  BY <1>2, <1>3 DEF RunInv, ChainsOfRules
<1>15. RulesTracked'
  <2> SUFFICES ASSUME NEW f \in Entities(cfg), cfg.kind[f] = "firewall", f \notin spoiled', Begun(f)' PROVE
        /\ \A rule \in Range(cfg.rules[f]) :
             <<"rule", rule>> \in pending'[f] \/ ~Accepted(f, rule) \/ rule \in Range(chain[f])
        /\ <<"policy", cfg.default[f]>> \in pending'[f] \/ policy[f] = cfg.default[f]
    BY <1>2, <1>3 DEF RulesTracked
  <2>1. f \notin spoiled /\ Begun(f)
    BY <1>4, <1>7
  <2>2. /\ \A rule \in Range(cfg.rules[f]) :
             <<"rule", rule>> \in pending[f] \/ ~Accepted(f, rule) \/ rule \in Range(chain[f])
        /\ <<"policy", cfg.default[f]>> \in pending[f] \/ policy[f] = cfg.default[f]
    BY <2>1 DEF RunInv, RulesTracked
  <2>3. /\ \A x : <<"rule", x>> \in pending[f] => <<"rule", x>> \in pending'[f]
        /\ \A x : <<"policy", x>> \in pending[f] => <<"policy", x>> \in pending'[f]
    <3>1. \A x, y : <<"route", x>> # <<"rule", y>> /\ <<"route", x>> # <<"policy", y>>
      OBVIOUS
    <3>2. QED
      BY <1>5, <3>1
  <2>4. QED
    BY <2>2, <2>3
<1>16. QED
  BY <1>3, <1>7, <1>10, <1>11, <1>13, <1>14, <1>15 DEF RunInv

\* The commands of an iptables rule or policy: they leave the routes alone.
LEMMA FilterCommandKeeps ==
  ASSUME Serving, RunInv, step = "written", NamesFree(cfg),
         UNCHANGED <<up, network, table, line, looping, restarts, spoiled>>, UNCHANGED evars,
         NEW e \in Entities(cfg), NEW command, Runs(e, command), \A r : command # <<"route", r>>,
         ChainsOfRules', RulesTracked'
  PROVE  RunInv'
<1>1. cfg' = cfg /\ routes' = routes /\ step' = step
  BY ExportedIsFixed
<1>2. addresses' = addresses /\ up' = up /\ table' = table /\ spoiled' = spoiled
  BY DEF network
<1>3. /\ command \in pending[e] /\ pending'[e] = pending[e] \ {command}
      /\ \A n \in Entities(cfg) : n # e => pending'[n] = pending[n]
  BY RunsShape DEF Serving, DeployInv
<1>4. /\ ~cfg.args.kubernetes => StartedFirst' /\ OnNetworks' /\ VethsMade' /\ AddressesMade'
      /\ cfg.args.kubernetes => LinksMade'
      /\ PortsBridged'
      /\ \A n : Begun(n)' <=> Begun(n)
  BY <1>2, InterfacesStay
<1>5. CommandsOfRunning'
  <2> SUFFICES ASSUME NEW n \in Entities(cfg), pending'[n] # {} PROVE n \in up /\ Begun(n)'
    BY <1>1, <1>2 DEF CommandsOfRunning
  <2>1. pending[n] # {}
    BY <1>3
  <2>2. QED
    BY <1>4, <2>1 DEF RunInv, CommandsOfRunning
<1>6. GatewaysConnected'
  BY <1>2 DEF RunInv, GatewaysConnected
<1>7. RoutesTracked'
  <2> SUFFICES ASSUME NEW s \in routes, Begun(s.at)' PROVE s.at \in spoiled' \/ <<"route", s>> \in pending'[s.at] \/ InTable(s)'
    BY <1>1 DEF RoutesTracked
  <2>1. s.at \in Entities(cfg)
    BY DEF Serving, RoutedInv, RouteRecords
  <2>2. s.at \in spoiled \/ <<"route", s>> \in pending[s.at] \/ InTable(s)
    BY <1>4 DEF RunInv, RoutesTracked
  <2>3. <<"route", s>> \in pending[s.at] => <<"route", s>> \in pending'[s.at]
    BY <1>3, <2>1
  <2>4. QED
    BY <1>2, <2>2, <2>3 DEF InTable
<1>8. QED
  BY <1>1, <1>4, <1>5, <1>6, <1>7 DEF RunInv

\* "iptables -A FORWARD".
LEMMA AddRuleKeeps ==
  ASSUME Serving, RunInv, step = "written", NamesFree(cfg), AddRule
  PROVE  RunInv'
<1>0. PICK e \in Entities(cfg) : \E rule \in Range(cfg.rules[e]) :
        /\ Runs(e, <<"rule", rule>>)
        /\ chain' = IF Accepted(e, rule) THEN [chain EXCEPT ![e] = Append(@, rule)] ELSE chain
  BY DEF AddRule
<1>1. PICK rule \in Range(cfg.rules[e]) :
        /\ Runs(e, <<"rule", rule>>)
        /\ chain' = IF Accepted(e, rule) THEN [chain EXCEPT ![e] = Append(@, rule)] ELSE chain
  BY <1>0
<1>2. UNCHANGED <<up, network, table, policy, line, looping, restarts, spoiled>> /\ UNCHANGED evars
  BY DEF AddRule
<1>3. cfg' = cfg /\ \A f, q : Accepted(f, q)' <=> Accepted(f, q)
  BY <1>2, ExportedIsFixed
<1>4. /\ pending'[e] = pending[e] \ {<<"rule", rule>>}
      /\ \A n \in Entities(cfg) : n # e => pending'[n] = pending[n]
  BY <1>1, RunsShape DEF Serving, DeployInv
<1>5. \A n : Begun(n)' <=> Begun(n)
  BY <1>2, InterfacesStay
<1>6. /\ \A n \in Entities(cfg) : n # e => chain'[n] = chain[n]
      /\ chain'[e] = chain[e] \/ Range(chain'[e]) = Range(chain[e]) \cup {rule}
      /\ Accepted(e, rule) => rule \in Range(chain'[e])
  <2>1. chain \in [Entities(cfg) -> Seq(Rules)]
    BY DEF Serving, DeployInv
  <2>2. chain[e] \in Seq(Range(chain[e]))
    BY <2>1, SeqOfRange
  <2>3. Range(Append(chain[e], rule)) = Range(chain[e]) \cup {rule}
    BY <2>2, AppendRange
  <2>4. CASE Accepted(e, rule)
    <3>1. chain' = [chain EXCEPT ![e] = Append(chain[e], rule)]
      BY <1>1, <2>4
    <3>2. chain'[e] = Append(chain[e], rule) /\ \A n \in Entities(cfg) : n # e => chain'[n] = chain[n]
      BY <2>1, <3>1
    <3>3. QED
      BY <2>3, <3>2
  <2>5. CASE ~Accepted(e, rule)
    BY <1>1, <2>5
  <2>6. QED
    BY <2>4, <2>5
<1>7. \A f \in Entities(cfg) : Range(chain[f]) \subseteq Range(chain'[f])
  BY <1>6
<1>8. ChainsOfRules'
  BY <1>3, <1>6 DEF RunInv, ChainsOfRules
<1>9. RulesTracked'
  <2> SUFFICES ASSUME NEW f \in Entities(cfg), cfg.kind[f] = "firewall", f \notin spoiled, Begun(f) PROVE
        /\ \A q \in Range(cfg.rules[f]) :
             <<"rule", q>> \in pending'[f] \/ ~Accepted(f, q) \/ q \in Range(chain'[f])
        /\ <<"policy", cfg.default[f]>> \in pending'[f] \/ policy[f] = cfg.default[f]
    BY <1>2, <1>3, <1>5 DEF RulesTracked
  <2>1. /\ \A q \in Range(cfg.rules[f]) :
             <<"rule", q>> \in pending[f] \/ ~Accepted(f, q) \/ q \in Range(chain[f])
        /\ <<"policy", cfg.default[f]>> \in pending[f] \/ policy[f] = cfg.default[f]
    BY DEF RunInv, RulesTracked
  <2>2. /\ \A x : <<"policy", x>> \in pending[f] => <<"policy", x>> \in pending'[f]
        /\ \A x : <<"rule", x>> \in pending[f] => <<"rule", x>> \in pending'[f] \/ (f = e /\ x = rule)
    <3>1. \A x : <<"policy", x>> # <<"rule", rule>> /\ (<<"rule", x>> = <<"rule", rule>> => x = rule)
      OBVIOUS
    <3>2. QED
      BY <1>4, <3>1
  <2>3. QED
    BY <1>6, <1>7, <2>1, <2>2
<1>10. \A r : <<"rule", rule>> # <<"route", r>>
  OBVIOUS
<1>11. QED
  BY <1>1, <1>2, <1>8, <1>9, <1>10, FilterCommandKeeps

\* "iptables -P FORWARD".
LEMMA SetPolicyKeeps ==
  ASSUME Serving, RunInv, step = "written", NamesFree(cfg), SetPolicy
  PROVE  RunInv'
<1>1. PICK e \in Entities(cfg), verdict \in {"accept", "drop"} :
        Runs(e, <<"policy", verdict>>) /\ policy' = [policy EXCEPT ![e] = verdict]
  BY DEF SetPolicy
<1>2. UNCHANGED <<up, network, table, chain, line, looping, restarts, spoiled>> /\ UNCHANGED evars
  BY DEF SetPolicy
<1>3. cfg' = cfg /\ \A f, q : Accepted(f, q)' <=> Accepted(f, q)
  BY <1>2, ExportedIsFixed
<1>4. /\ <<"policy", verdict>> \in Commands(e)
      /\ pending'[e] = pending[e] \ {<<"policy", verdict>>}
      /\ \A n \in Entities(cfg) : n # e => pending'[n] = pending[n]
  BY <1>1, RunsShape DEF Serving, DeployInv
<1>5. \A n : Begun(n)' <=> Begun(n)
  BY <1>2, InterfacesStay
<1>6. verdict = cfg.default[e]
  <2>1. \A x : /\ <<"policy", verdict>> # <<"rule", x>> /\ <<"policy", verdict>> # <<"route", x>>
               /\ <<"policy", verdict>> = <<"policy", x>> => verdict = x
    OBVIOUS
  <2>2. QED
    BY <1>4, <2>1 DEF Commands
<1>7. policy'[e] = verdict /\ \A n \in Entities(cfg) : n # e => policy'[n] = policy[n]
  <2>1. policy \in [Entities(cfg) -> {"accept", "drop"}]
    BY DEF Serving, DeployInv
  <2>2. QED
    BY <1>1, <2>1
<1>8. ChainsOfRules'
  BY <1>2, <1>3 DEF RunInv, ChainsOfRules
<1>9. RulesTracked'
  <2> SUFFICES ASSUME NEW f \in Entities(cfg), cfg.kind[f] = "firewall", f \notin spoiled, Begun(f) PROVE
        /\ \A q \in Range(cfg.rules[f]) :
             <<"rule", q>> \in pending'[f] \/ ~Accepted(f, q) \/ q \in Range(chain[f])
        /\ <<"policy", cfg.default[f]>> \in pending'[f] \/ policy'[f] = cfg.default[f]
    BY <1>2, <1>3, <1>5 DEF RulesTracked
  <2>1. /\ \A q \in Range(cfg.rules[f]) :
             <<"rule", q>> \in pending[f] \/ ~Accepted(f, q) \/ q \in Range(chain[f])
        /\ <<"policy", cfg.default[f]>> \in pending[f] \/ policy[f] = cfg.default[f]
    BY DEF RunInv, RulesTracked
  <2>2. \A x : <<"rule", x>> \in pending[f] => <<"rule", x>> \in pending'[f]
    <3>1. \A x : <<"rule", x>> # <<"policy", verdict>>
      OBVIOUS
    <3>2. QED
      BY <1>4, <3>1
  <2>3. <<"policy", cfg.default[f]>> \in pending'[f] \/ policy'[f] = cfg.default[f]
    <3>1. CASE f = e
      BY <1>6, <1>7, <3>1
    <3>2. CASE f # e
      BY <1>4, <1>7, <2>1, <3>2
    <3>3. QED
      BY <3>1, <3>2
  <2>4. QED
    BY <2>1, <2>2, <2>3
<1>10. \A r : <<"policy", verdict>> # <<"route", r>>
  OBVIOUS
<1>11. QED
  BY <1>1, <1>2, <1>8, <1>9, <1>10, FilterCommandKeeps

\* A restart of a container takes its veth pairs away, and spoils what depended on them.
LEMMA RestartContainerKeeps ==
  ASSUME Serving, RunInv, step = "written", NamesFree(cfg), RestartContainer
  PROVE  RunInv'
<1>1. PICK e \in Entities(cfg) :
       /\ wired' = {t \in wired : e \notin {t[1], t[2]}}
       /\ bridged' = {t \in bridged : e \notin {t[1], t[2]}}
       /\ addresses' = {t \in addresses : ~LosesAddress(e, t[1], t[2])}
       /\ table' = {r \in table : r.at # e /\ <<r.at, r.via[1]>> \in addresses'}
       /\ chain' = [chain EXCEPT ![e] = <<>>]
       /\ policy' = [policy EXCEPT ![e] = "accept"]
       /\ spoiled' = IF line = 1 /\ ~FailsAgain(e) THEN spoiled
                     ELSE spoiled \cup {e} \cup {n \in Entities(cfg) : <<e, n>> \in wired}
  BY DEF RestartContainer
<1>2. UNCHANGED <<up, pending, line>> /\ UNCHANGED evars /\ ~cfg.args.kubernetes
  BY DEF RestartContainer
<1>3. /\ cfg' = cfg /\ networks' = networks /\ attached' = attached /\ routes' = routes
      /\ step' = step /\ script' = script /\ links' = links /\ containers' = containers
      /\ \A l : OfLayer(l)' = OfLayer(l)
      /\ \A k, u, v : Neighbours(k, u, v)' <=> Neighbours(k, u, v)
      /\ \A n : SelfConfigured(n)' <=> SelfConfigured(n)
      /\ \A f, rule : Accepted(f, rule)' <=> Accepted(f, rule)
  BY <1>2, ExportedIsFixed
<1>4. line \in Nat /\ 1 <= line /\ phase = "done" /\ Exporting
  BY WrittenFacts DEF Serving, Deploying
<1>5. /\ \A block : Ran(block)' <=> Ran(block)
      /\ \A block : Ran(block) => line # 1
  BY <1>2, <1>3, <1>4, RanShape
<1>6. /\ \A n : Begun(n)' <=> Begun(n)
      /\ \A n : Begun(n) => line # 1
  BY <1>2, <1>3, <1>5 DEF Begun, SelfConfigured
<1>7. StartedFirst /\ OnNetworks /\ VethsMade /\ AddressesMade
  BY <1>2 DEF RunInv
<1>8. spoiled \subseteq spoiled' /\ (line # 1 => e \in spoiled')
  BY <1>1
<1>9. ASSUME NEW k \in OfLayer(2), Ran(<<"link", k>>), NEW n \in Entities(cfg), Neighbours(k, n, e)
      PROVE  n \in spoiled' /\ e \in spoiled'
  <2>1. Neighbours(k, e, n)
    BY <1>9 DEF Neighbours
  <2>2. <<e, n>> \in wired \/ (e \in spoiled /\ n \in spoiled)
    BY <1>7, <1>9, <2>1 DEF VethsMade
  <2>3. line # 1
    BY <1>5, <1>9
  <2>4. QED
    BY <1>1, <1>8, <2>2, <2>3
<1>10. \A n \in Entities(cfg) : \A k : LosesAddress(e, n, k) => k \in OfLayer(2) /\ (n = e \/ Neighbours(k, n, e))
  BY DEF LosesAddress, Neighbours
<1>11. StartedFirst'
  BY <1>2, <1>3, <1>7 DEF StartedFirst, AllUp
<1>12. OnNetworks'
  <2> SUFFICES ASSUME NEW n \in up \cap Entities(cfg), NEW k \in Range(attached[n]) \cap OfLayer(3)
               PROVE  <<n, k>> \in addresses'
    BY <1>2, <1>3 DEF OnNetworks
  <2>1. k \notin OfLayer(2)
    BY DEF OfLayer
  <2>2. <<n, k>> \in addresses /\ ~LosesAddress(e, n, k)
    BY <1>7, <1>10, <2>1 DEF OnNetworks
  <2>3. QED
    BY <1>1, <2>2
<1>13. VethsMade'
  <2> SUFFICES ASSUME NEW k \in OfLayer(2), Ran(<<"link", k>>), NEW u \in Entities(cfg), NEW v \in Entities(cfg), Neighbours(k, u, v)
               PROVE  <<u, v>> \in wired' \/ (u \in spoiled' /\ v \in spoiled')
    BY <1>3, <1>5 DEF VethsMade
  <2>1. <<u, v>> \in wired \/ (u \in spoiled /\ v \in spoiled)
    BY <1>7 DEF VethsMade
  <2>2. Neighbours(k, v, u)
    BY DEF Neighbours
  <2>3. CASE u = e \/ v = e
    BY <1>9, <2>2, <2>3
  <2>4. CASE u # e /\ v # e
    BY <1>1, <1>8, <2>1, <2>4
  <2>5. QED
    BY <2>3, <2>4
<1>14. AddressesMade'
  <2> SUFFICES ASSUME NEW k \in OfLayer(2), Ran(<<"link", k>>), NEW n \in Entities(cfg), EntityIp(networks, k, n) # NoAddress
               PROVE  n \in spoiled' \/ <<n, k>> \in addresses'
    BY <1>3, <1>5 DEF AddressesMade
  <2>1. n \in spoiled \/ <<n, k>> \in addresses
    BY <1>7 DEF AddressesMade
  <2>2. CASE LosesAddress(e, n, k)
    BY <1>5, <1>8, <1>9, <1>10, <2>2
  <2>3. CASE ~LosesAddress(e, n, k)
    BY <1>1, <1>8, <2>1, <2>3
  <2>4. QED
    BY <2>2, <2>3
<1>15. PortsBridged'
  BY <1>1, <1>3 DEF RunInv, PortsBridged
<1>16. CommandsOfRunning'
  BY <1>2, <1>3, <1>6 DEF RunInv, CommandsOfRunning
<1>17. GatewaysConnected'
  BY <1>1 DEF GatewaysConnected
<1>18. RoutesTracked'
  <2> SUFFICES ASSUME NEW r \in routes, Begun(r.at) PROVE r.at \in spoiled' \/ <<"route", r>> \in pending[r.at] \/ InTable(r)'
    BY <1>2, <1>3, <1>6 DEF RoutesTracked
  <2>1. CASE r.at \in spoiled \/ <<"route", r>> \in pending[r.at]
    BY <1>8, <2>1
  <2>2. CASE InTable(r)
    <3>1. PICK s \in table : s.at = r.at /\ s.dst = r.dst
      BY <2>2 DEF InTable
    <3>2. <<s.at, s.via[1]>> \in addresses /\ s.at \in Entities(cfg)
      <4>1. s \in routes
        BY DEF Serving, DeployInv
      <4>2. QED
        BY <4>1 DEF RunInv, GatewaysConnected, Serving, RoutedInv, RouteRecords
    <3>3. CASE s.at = e
      BY <1>6, <1>8, <3>1, <3>3
    <3>4. CASE LosesAddress(e, s.at, s.via[1]) /\ s.at # e
      <4>1. s.via[1] \in OfLayer(2) /\ Neighbours(s.via[1], s.at, e)
        BY <1>10, <3>2, <3>4
      <4>2. Ran(<<"link", s.via[1]>>)
        BY <1>2, <3>1, <4>1, LinksRunFirst
      <4>3. QED
        BY <1>9, <3>1, <3>2, <4>1, <4>2
    <3>5. CASE ~LosesAddress(e, s.at, s.via[1]) /\ s.at # e
      <4>1. <<s.at, s.via[1]>> \in addresses'
        BY <1>1, <3>2, <3>5
      <4>2. s \in table'
        BY <1>1, <3>5, <4>1
      <4>3. QED
        BY <3>1, <4>2 DEF InTable
    <3>6. QED
      BY <3>3, <3>4, <3>5
  <2>3. QED
    BY <2>1, <2>2 DEF RunInv, RoutesTracked
<1>19. /\ chain'[e] = <<>> /\ \A f \in Entities(cfg) : f # e => chain'[f] = chain[f]
       /\ \A f \in Entities(cfg) : f # e => policy'[f] = policy[f]
  BY <1>1 DEF Serving, DeployInv
<1>20. ChainsOfRules'
  <2> SUFFICES ASSUME NEW f \in Entities(cfg) PROVE Range(chain'[f]) \subseteq Range(cfg.rules[f])
    BY <1>3 DEF ChainsOfRules
  <2>1. CASE f = e
    BY <1>19, <2>1 DEF Range
  <2>2. CASE f # e
    BY <1>19, <2>2 DEF RunInv, ChainsOfRules
  <2>3. QED
    BY <2>1, <2>2
<1>21. RulesTracked'
  <2> SUFFICES ASSUME NEW f \in Entities(cfg), cfg.kind[f] = "firewall", f \notin spoiled', Begun(f) PROVE
        /\ \A rule \in Range(cfg.rules[f]) :
             <<"rule", rule>> \in pending[f] \/ ~Accepted(f, rule) \/ rule \in Range(chain'[f])
        /\ <<"policy", cfg.default[f]>> \in pending[f] \/ policy'[f] = cfg.default[f]
    BY <1>2, <1>3, <1>6 DEF RulesTracked
  <2>1. f # e /\ f \notin spoiled
    BY <1>6, <1>8
  <2>2. QED
    BY <1>19, <2>1 DEF RunInv, RulesTracked
<1>22. QED
  BY <1>2, <1>3, <1>11, <1>12, <1>13, <1>14, <1>15, <1>16, <1>17, <1>18, <1>20, <1>21 DEF RunInv

\* A pod that restarts runs its commands again; an external loses those it had still to run.
LEMMA RestartPodKeeps ==
  ASSUME Serving, RunInv, step = "written", NamesFree(cfg), RestartPod
  PROVE  RunInv'
<1>1. PICK e \in Entities(cfg) \cap up :
       IF SelfConfigured(e)
       THEN pending' = [pending EXCEPT ![e] = Commands(e)] /\ spoiled' = spoiled \ {e}
       ELSE /\ pending' = [pending EXCEPT ![e] = {}]
            /\ spoiled' = IF pending[e] = {} THEN spoiled ELSE spoiled \cup {e}
  BY DEF RestartPod
<1>2. UNCHANGED <<up, network, table, chain, policy, line>> /\ UNCHANGED evars /\ cfg.args.kubernetes
  BY DEF RestartPod, tables
<1>3. /\ cfg' = cfg /\ routes' = routes /\ step' = step
      /\ \A f, rule : Accepted(f, rule)' <=> Accepted(f, rule)
  BY <1>2, ExportedIsFixed
<1>4. (\A n \in spoiled : n # e => n \in spoiled') /\ addresses' = addresses /\ up' = up
  BY <1>1, <1>2 DEF network
<1>5. /\ LinksMade' /\ PortsBridged'
      /\ \A n : Begun(n)' <=> Begun(n)
  BY <1>2, <1>4, InterfacesStay
<1>6. PICK x : x = IF SelfConfigured(e) THEN Commands(e) ELSE {}
  OBVIOUS
<1>7. /\ pending' = [pending EXCEPT ![e] = x]
      /\ pending'[e] = x
      /\ \A n \in Entities(cfg) : n # e => pending'[n] = pending[n]
  <2>1. Given(pending)
    BY DEF Serving, DeployInv
  <2>2. x \subseteq Commands(e) /\ e \in Entities(cfg)
    BY <1>6
  <2>3. /\ Given([pending EXCEPT ![e] = x])
        /\ [pending EXCEPT ![e] = x][e] = x
        /\ \A n \in Entities(cfg) : n # e => [pending EXCEPT ![e] = x][n] = pending[n]
    BY <2>1, <2>2, GivenUpdate
  <2>4. pending' = [pending EXCEPT ![e] = x]
    BY <1>1, <1>6
  <2>5. QED
    BY <2>3, <2>4
<1>8. ~SelfConfigured(e) =>
        cfg.kind[e] = "external" /\ (pending[e] = {} \/ e \in spoiled') /\ spoiled \subseteq spoiled'
  BY <1>1, <1>2 DEF SelfConfigured
<1>9. SelfConfigured(e) => Begun(e)
  BY DEF Begun
<1>10. CommandsOfRunning'
  <2> SUFFICES ASSUME NEW n \in Entities(cfg), pending'[n] # {} PROVE n \in up /\ Begun(n)
    BY <1>3, <1>4, <1>5 DEF CommandsOfRunning
  <2>1. CASE n = e
    BY <1>6, <1>7, <1>9, <2>1
  <2>2. CASE n # e
    BY <1>7, <2>2 DEF RunInv, CommandsOfRunning
  <2>3. QED
    BY <2>1, <2>2
<1>11. GatewaysConnected' /\ ChainsOfRules'
  BY <1>2, <1>3, <1>4 DEF RunInv, GatewaysConnected, ChainsOfRules
<1>12. RoutesTracked'
  <2> SUFFICES ASSUME NEW r \in routes, Begun(r.at) PROVE r.at \in spoiled' \/ <<"route", r>> \in pending'[r.at] \/ InTable(r)'
    BY <1>3, <1>5 DEF RoutesTracked
  <2>1. r.at \in Entities(cfg)
    BY DEF Serving, RoutedInv, RouteRecords
  <2>2. (r.at \in spoiled \/ <<"route", r>> \in pending[r.at] \/ InTable(r)) /\ (InTable(r) => InTable(r)')
    BY <1>2 DEF RunInv, RoutesTracked, InTable
  <2>3. CASE r.at # e
    BY <1>4, <1>7, <2>1, <2>2, <2>3
  <2>4. CASE r.at = e /\ SelfConfigured(e)
    <3>1. <<"route", r>> \in Commands(e)
      BY <2>4 DEF Commands
    <3>2. QED
      BY <1>6, <1>7, <2>4, <3>1
  <2>5. CASE r.at = e /\ ~SelfConfigured(e)
    BY <1>4, <1>8, <2>2, <2>5
  <2>6. QED
    BY <2>3, <2>4, <2>5
<1>13. RulesTracked'
  <2> SUFFICES ASSUME NEW f \in Entities(cfg), cfg.kind[f] = "firewall", f \notin spoiled', Begun(f) PROVE
        /\ \A rule \in Range(cfg.rules[f]) :
             <<"rule", rule>> \in pending'[f] \/ ~Accepted(f, rule) \/ rule \in Range(chain[f])
        /\ <<"policy", cfg.default[f]>> \in pending'[f] \/ policy[f] = cfg.default[f]
    BY <1>2, <1>3, <1>5 DEF RulesTracked
  <2>1. CASE f = e
    <3>1. SelfConfigured(e)
      BY <1>8, <2>1
    <3>2. /\ <<"policy", cfg.default[f]>> \in Commands(f)
          /\ \A rule \in Range(cfg.rules[f]) : <<"rule", rule>> \in Commands(f)
      BY DEF Commands
    <3>3. QED
      BY <1>6, <1>7, <2>1, <3>1, <3>2
  <2>2. CASE f # e
    BY <1>4, <1>7, <2>2 DEF RunInv, RulesTracked
  <2>3. QED
    BY <2>1, <2>2
<1>14. QED
  BY <1>2, <1>3, <1>5, <1>10, <1>11, <1>12, <1>13 DEF RunInv

\* A topology that has just been written.
LEMMA NothingRunsStarts == NothingRuns => RunInv
<1> SUFFICES ASSUME NothingRuns, step = "written" PROVE RunInv
  BY DEF RunInv
<1>1. up = {} /\ addresses = {} /\ wired = {} /\ bridged = {} /\ table = {} /\ line = 1
  BY DEF NothingRuns
<1>2. \A block : ~Ran(block)
  BY <1>1 DEF Ran
<1>3. \A e : ~Begun(e)
  BY <1>1, <1>2 DEF Begun
<1>4. StartedFirst /\ OnNetworks /\ VethsMade /\ AddressesMade
  BY <1>1, <1>2 DEF StartedFirst, OnNetworks, VethsMade, AddressesMade
<1>5. LinksMade
  BY <1>1 DEF LinksMade
<1>6. PortsBridged /\ GatewaysConnected /\ RoutesTracked /\ RulesTracked
  BY <1>1, <1>3 DEF PortsBridged, GatewaysConnected, RoutesTracked, RulesTracked
<1>7. CommandsOfRunning
  BY DEF NothingRuns, CommandsOfRunning
<1>8. ChainsOfRules
  BY DEF NothingRuns, ChainsOfRules, Range
<1>9. QED
  BY <1>4, <1>5, <1>6, <1>7, <1>8 DEF RunInv

\* A step that changes nothing.
LEMMA RunStutters ==
  ASSUME Serving, RunInv, step = "written", NamesFree(cfg), UNCHANGED dvars
  PROVE  RunInv'
<1>1. UNCHANGED evars /\ UNCHANGED <<up, network, line, table, chain, policy, pending, spoiled>>
  BY DEF dvars, tables
<1>2. cfg' = cfg /\ routes' = routes /\ step' = step /\ \A f, rule : Accepted(f, rule)' <=> Accepted(f, rule)
  BY <1>1, ExportedIsFixed
<1>3. /\ ~cfg.args.kubernetes => StartedFirst' /\ OnNetworks' /\ VethsMade' /\ AddressesMade'
      /\ cfg.args.kubernetes => LinksMade'
      /\ PortsBridged'
      /\ \A e : Begun(e)' <=> Begun(e)
  BY <1>1, InterfacesStay
<1>4. CommandsOfRunning' /\ GatewaysConnected' /\ RoutesTracked' /\ ChainsOfRules' /\ RulesTracked'
  BY <1>1, <1>2, <1>3 DEF network, RunInv, CommandsOfRunning, GatewaysConnected, RoutesTracked, InTable, ChainsOfRules, RulesTracked
<1>5. QED
  BY <1>2, <1>3, <1>4 DEF RunInv

\* Every step of the deployment keeps what runs in order.
LEMMA RunKept ==
  ASSUME Serving, RunInv, Serving', NothingRuns' => RunInv', [DNext]_dvars
  PROVE  RunInv'
<1>1. CASE Generate
  <2>1. NothingRuns'
    BY <1>1, NothingYet DEF Generate, Serving, Deploying
  <2>2. QED
    BY <2>1
<1>2. SUFFICES ASSUME ~Generate PROVE RunInv'
  BY <1>1
<1>3. UNCHANGED evars
  BY <1>2 DEF DNext, DStep, Start, LinkBlock, EntityBlock, AddRoute, AddRule, SetPolicy, RestartContainer, RestartPod, Over, dvars
<1>4. step' = step /\ cfg' = cfg
  BY <1>3, ExportedIsFixed
<1>5. SUFFICES ASSUME step = "written", NamesFree(cfg) PROVE RunInv'
  BY <1>4 DEF RunInv
<1>6. Start \/ LinkBlock \/ EntityBlock \/ AddRoute \/ AddRule \/ SetPolicy \/ RestartContainer \/ RestartPod \/ UNCHANGED dvars
  BY <1>2 DEF DNext, DStep, Over
<1>7. QED
  BY <1>5, <1>6, StartKeeps, LinkBlockKeeps, EntityBlockKeeps, AddRouteKeeps, AddRuleKeeps, SetPolicyKeeps,
    RestartContainerKeeps, RestartPodKeeps, RunStutters

\* RunInv holds in every state of a deployment.
LEMMA RunInvariant == DSpec => [](Serving /\ RunInv)
<1>1. DInit => RunInv
  <2>1. DInit => step # "written"
    BY DEF DInit, EInit
  <2>2. QED
    BY <2>1 DEF RunInv
<1>2. Serving /\ RunInv /\ Serving' /\ (NothingRuns' => RunInv') /\ [DNext]_dvars => RunInv'
  BY RunKept
<1>3. QED
  BY <1>1, <1>2, NothingRunsStarts, ServingInvariant, PTL DEF DSpec

\* Everything has run when the deployment has settled.
LEMMA AllRan ==
  ASSUME Serving, NamesFree(cfg), Settled
  PROVE  /\ step = "written"
         /\ \A n : HasContainer(n) => n \in up
         /\ \A block : HasBlock(block) => Ran(block)
         /\ \A e \in Entities(cfg) : pending[e] = {} /\ e \in up /\ (IsSwitch(cfg, e) \/ Begun(e))
<1>1. step = "written" /\ AllUp /\ line > Len(script) /\ Idle
  BY DEF Settled
<1>2. line \in Nat /\ Len(script) \in Nat /\ DOMAIN script = 1 .. Len(script)
  BY <1>1, WrittenFacts DEF Serving, Deploying, FilesInv
<1>3. \A n : HasContainer(n) => n \in up
  BY <1>1 DEF AllUp, HasContainer
<1>4. ASSUME NEW block, HasBlock(block) PROVE Ran(block)
  <2>1. PICK i \in DOMAIN script : script[i] = block
    BY <1>4 DEF HasBlock, Range
  <2>2. i \in 1 .. line - 1
    BY <1>1, <1>2
  <2>3. QED
    BY <2>1, <2>2 DEF Ran
<1>5. ASSUME NEW e \in Entities(cfg) PROVE pending[e] = {} /\ e \in up /\ (IsSwitch(cfg, e) \/ Begun(e))
  <2>1. pending[e] = {}
    BY <1>1 DEF Idle
  <2>2. CASE cfg.args.kubernetes
    <3>1. HasContainer(e) /\ (cfg.kind[e] = "external" => HasBlock(<<"entity", e>>))
      BY <1>1, <2>2, WrittenFacts
    <3>2. QED
      BY <1>3, <1>4, <2>1, <2>2, <3>1 DEF Begun, SelfConfigured
  <2>3. CASE ~cfg.args.kubernetes
    <3>1. ContainerOf(e) \in containers /\ (IsSwitch(cfg, e) \/ HasBlock(<<"entity", e>>))
      BY <1>1, <2>3, WrittenFacts
    <3>2. HasContainer(e)
      BY <3>1, EntityContainer DEF HasContainer
    <3>3. QED
      BY <1>3, <1>4, <2>1, <2>3, <3>1, <3>2 DEF Begun, SelfConfigured
  <2>4. QED
    BY <2>2, <2>3
<1>6. QED
  BY <1>1, <1>3, <1>4, <1>5

\* RoutesInPlace: in a deployment that has settled, every entity has a way to each subnet
\* it was given a route for, whatever was restarted on the way and in whatever order the
\* containers started and the commands ran.
THEOREM RoutesInPlaceTheorem == DSpec => []RoutesInPlace
<1>1. Serving /\ RunInv => RoutesInPlace
  <2> SUFFICES ASSUME Serving, RunInv, Settled, NamesFree(cfg), NEW r \in routes
               PROVE  r.at \in spoiled \/ InTable(r)
    BY DEF RoutesInPlace, InTable
  <2>1. r.at \in Entities(cfg) /\ r.via[1] \in DOMAIN networks /\ EntityIp(networks, r.via[1], r.at) # NoAddress
    BY DEF Serving, RoutedInv, RouteRecords, NextHop
  <2>2. step = "written" /\ pending[r.at] = {} /\ (IsSwitch(cfg, r.at) \/ Begun(r.at))
    BY <2>1, AllRan
  <2>3. ~IsSwitch(cfg, r.at)
    BY <2>1, <2>2, WrittenFacts, OnItsNetwork DEF Serving, Deploying
  <2>4. QED
    BY <2>2, <2>3 DEF RunInv, RoutesTracked
<1>2. QED
  BY <1>1, RunInvariant, PTL

\* Two consecutive hops of a connection are on a network that links them.
LEMMA LinkOnNetwork ==
  ASSUME Exporting, phase = "done", Buildable(cfg), NEW h \in AllE2e(cfg), NEW i \in 1 .. Len(h) - 1
  PROVE  /\ h[i] \in Entities(cfg) /\ h[i + 1] \in Entities(cfg)
         /\ \E k \in DOMAIN networks :
              /\ HasLink(networks[k], h[i], h[i + 1])
              /\ {h[i], h[i + 1]} \subseteq Range(networks[k].hops)
              /\ k \in OfLayer(2) \/ k \in OfLayer(3)
<1>1. CheckedInv /\ BuiltInv /\ \A g \in AllE2e(cfg) : IsRoute(cfg, g)
  BY Relied DEF Exporting, Architected
<1>2. CoversSegments(cfg, networks)
  BY <1>1, SegmentsCovered
<1>3. PICK p \in Starts(cfg, h) : HasLink([hops |-> SegmentAt(cfg, h, p)], h[i], h[i + 1])
  BY <1>1, LinkInSegment
<1>4. SegmentAt(cfg, h, p) \in AllSegments(cfg)
  BY SegmentsAre
<1>5. PICK k \in DOMAIN networks : networks[k].hops = SegmentAt(cfg, h, p)
  BY <1>2, <1>4 DEF CoversSegments
<1> DEFINE x == networks[k].hops
<1>6. PICK m \in 1 .. Len(x) - 1 : x[m] = h[i] /\ x[m + 1] = h[i + 1]
  BY <1>3, <1>5 DEF HasLink
<1>7. networks[k] \in NetworkRecords(cfg) /\ IsSegment(cfg, x)
  BY <1>1, NetworkShape, LayersAre
<1>8. x \in Seq(Entities(cfg)) /\ networks[k].layer \in {2, 3}
  BY <1>7 DEF IsSegment, NetworkRecords
<1> HIDE DEF x
<1>9. Len(x) \in Nat /\ DOMAIN x = 1 .. Len(x)
  BY <1>8
<1>10. m \in DOMAIN x /\ m + 1 \in DOMAIN x
  BY <1>9
<1>11. h[i] \in Entities(cfg) /\ h[i + 1] \in Entities(cfg) /\ {h[i], h[i + 1]} \subseteq Range(x)
  BY <1>6, <1>8, <1>10 DEF Range
<1>12. HasLink(networks[k], h[i], h[i + 1])
  BY <1>6 DEF HasLink, x
<1>13. QED
  BY <1>8, <1>11, <1>12 DEF x, OfLayer

\* SegmentsJoined: the two ends of every link of a connection can talk to each other once
\* the deployment has settled, unless one of them was restarted after commands.sh began.
THEOREM SegmentsJoinedTheorem == DSpec => []SegmentsJoined
<1>1. Serving /\ RunInv => SegmentsJoined
  <2> SUFFICES ASSUME Serving, RunInv, Settled, NamesFree(cfg), Buildable(cfg),
                      NEW h \in AllE2e(cfg), NEW i \in 1 .. Len(h) - 1, {h[i], h[i + 1]} \cap spoiled = {}
               PROVE  Joined(h[i], h[i + 1])
    BY DEF SegmentsJoined
  <2>0. PICK u, v : u = h[i] /\ v = h[i + 1]
    OBVIOUS
  <2>1. step = "written" /\ phase = "done" /\ Exporting
    BY AllRan, WrittenFacts DEF Serving, Deploying
  <2>2. u \in Entities(cfg) /\ v \in Entities(cfg)
    BY <2>0, <2>1, LinkOnNetwork
  <2>3. PICK k \in DOMAIN networks :
          HasLink(networks[k], u, v) /\ {u, v} \subseteq Range(networks[k].hops) /\ (k \in OfLayer(2) \/ k \in OfLayer(3))
    BY <2>0, <2>1, LinkOnNetwork
  <2>4. \A e \in {u, v} : k \in Range(attached[e])
    BY <2>1, <2>2, <2>3 DEF Exporting, Architected, NumberedInv, AttachedInOrder
  <2>5. \A e \in Entities(cfg) : e \in up
    BY AllRan
  <2>6. CASE cfg.args.kubernetes
    <3>1. LinksMade /\ links = AllLinks
      BY <2>1, <2>6, WrittenFacts DEF RunInv
    <3>2. ASSUME NEW e \in {u, v} PROVE <<e, k>> \in addresses
      <4>1. PICK l : l = Link(e, k)
        OBVIOUS
      <4>2. l \in links
        BY <2>2, <2>4, <3>1, <4>1 DEF AllLinks
      <4>3. l.pod = e /\ l.uid = k /\ l.peer = Peer(k, e)
        BY <4>1 DEF Link
      <4>4. Peer(k, e) \in Entities(cfg)
        BY <2>1, <2>3, <2>6, PeerIsOther DEF Exporting
      <4>5. {l.pod, l.peer} \subseteq up
        BY <2>2, <2>5, <4>3, <4>4
      <4>6. <<l.pod, l.uid>> \in addresses
        BY <3>1, <4>2, <4>5 DEF LinksMade
      <4>7. QED
        BY <4>3, <4>6
    <3>3. QED
      BY <2>0, <2>3, <3>2 DEF Joined
  <2>7. CASE ~cfg.args.kubernetes /\ k \in OfLayer(3)
    <3>1. OnNetworks
      BY <2>1, <2>7 DEF RunInv
    <3>2. {<<u, k>>, <<v, k>>} \subseteq addresses
      BY <2>2, <2>4, <2>5, <2>7, <3>1 DEF OnNetworks
    <3>3. QED
      BY <2>0, <2>3, <3>2 DEF Joined
  <2>8. CASE ~cfg.args.kubernetes /\ k \in OfLayer(2)
    <3>1. VethsMade /\ PortsBridged
      BY <2>1, <2>8 DEF RunInv
    <3>2. Ran(<<"link", k>>)
      BY <2>1, <2>8, AllRan, WrittenFacts
    <3>3. Neighbours(k, u, v) /\ Neighbours(k, v, u)
      BY <2>3 DEF Neighbours
    <3>4. <<u, v>> \in wired /\ <<v, u>> \in wired
      BY <2>0, <2>2, <2>8, <3>1, <3>2, <3>3 DEF VethsMade
    <3>5. /\ IsSwitch(cfg, u) => <<u, v>> \in bridged
          /\ IsSwitch(cfg, v) => <<v, u>> \in bridged
      BY <3>1, <3>4 DEF PortsBridged
    <3>6. QED
      BY <2>0, <3>4, <3>5 DEF Joined
  <2>9. QED
    BY <2>3, <2>6, <2>7, <2>8
<1>2. QED
  BY <1>1, RunInvariant, PTL

----
(***************************************************************************)
(* What a firewall knows of the connections that cross it.                 *)
(***************************************************************************)
\* The address modify_etc_hosts takes for the i-th hop of g.
AddressOn(g, i) == EntityIp(networks, SharedNetwork(cfg, networks, LinkOf(g, i)[1], LinkOf(g, i)[2]), g[i])

\* Every link of h has its network, and f knows the other hops of h.
Introduces(f, h) ==
  /\ \A i \in 1 .. Len(h) - 1 : SharedNetwork(cfg, networks, h[i], h[i + 1]) # NoNetwork
  /\ \A i \in DOMAIN h : h[i] # f => Knows(hosts, f, h[i])

\* The entries of a firewall, and the connections it was introduced to: those done while
\* modify_etc_hosts runs, all of them afterwards.
FirewallsInv ==
  /\ \A t \in hosts : cfg.kind[t[1]] = "firewall" =>
       \E g \in E2eConns(cfg, t[1]) : \E i \in DOMAIN g : t[2] = g[i] /\ t[3] = AddressOn(g, i)
  /\ phase = "hosts" =>
       \A w \in done : cfg.kind[w[1]] = "firewall" => Introduces(w[1], w[2])
  /\ phase \in {"dependencies", "additional", "done"} =>
       \A f \in Entities(cfg) : cfg.kind[f] = "firewall" => \A h \in E2eConns(cfg, f) : Introduces(f, h)

\* A firewall does the connections that cross it, and nothing else does them for it.
LEMMA FirewallWork ==
  ASSUME \A h \in AllE2e(cfg) : IsRoute(cfg, h), NEW w \in HostsWork(cfg), cfg.kind[w[1]] = "firewall"
  PROVE  w[1] \in Entities(cfg) /\ w[2] \in E2eConns(cfg, w[1])
<1>1. \A h \in AllE2e(cfg) : w # <<h[1], h>>
  BY DEF IsRoute, EndHost
<1>2. w \in UNION {{f} \X E2eConns(cfg, f) : f \in {e \in Entities(cfg) : cfg.kind[e] = "firewall"}}
  BY <1>1 DEF HostsWork
<1>3. QED
  BY <1>2

\* Addresses are those of the networks.
LEMMA AddressOnStays ==
  ASSUME UNCHANGED <<cfg, networks>>
  PROVE  \A g, i : AddressOn(g, i)' = AddressOn(g, i)
BY DEF AddressOn, LinkOf

\* One turn of the loop: entries for the owner w[1] of the connection w[2].
LEMMA AssignKeepsFirewalls ==
  ASSUME FirewallsInv, OnePerName(hosts), phase = "hosts", UNCHANGED <<cfg, networks, phase>>,
         NEW w, done' = done \cup {w}, NEW entries, hosts' = Assign(entries), OnePerName(entries),
         \A t \in entries : cfg.kind[t[1]] = "firewall" =>
           \E g \in E2eConns(cfg, t[1]) : \E i \in DOMAIN g : t[2] = g[i] /\ t[3] = AddressOn(g, i),
         cfg.kind[w[1]] = "firewall" =>
           /\ \A i \in 1 .. Len(w[2]) - 1 : SharedNetwork(cfg, networks, w[2][i], w[2][i + 1]) # NoNetwork
           /\ \A i \in DOMAIN w[2] : w[2][i] # w[1] => Knows(entries, w[1], w[2][i])
  PROVE  FirewallsInv'
<1>1. /\ hosts' \subseteq hosts \cup entries
      /\ \A e, n : Knows(hosts, e, n) \/ Knows(entries, e, n) => Knows(hosts', e, n)
  BY AssignKeeps
<1>2. \A g, i : AddressOn(g, i)' = AddressOn(g, i)
  BY AddressOnStays
<1>3. \A t \in hosts' : cfg.kind[t[1]] = "firewall" =>
        \E g \in E2eConns(cfg, t[1]) : \E i \in DOMAIN g : t[2] = g[i] /\ t[3] = AddressOn(g, i)
  BY <1>1 DEF FirewallsInv
<1>4. ASSUME NEW v \in done', cfg.kind[v[1]] = "firewall" PROVE Introduces(v[1], v[2])'
  <2>1. CASE v = w
    BY <1>1, <1>4, <2>1 DEF Introduces
  <2>2. CASE v \in done
    <3>1. Introduces(v[1], v[2])
      BY <1>4, <2>2 DEF FirewallsInv
    <3>2. QED
      BY <1>1, <3>1 DEF Introduces
  <2>3. QED
    BY <2>1, <2>2
<1>5. QED
  BY <1>2, <1>3, <1>4 DEF FirewallsInv

\* An end host changes its own entries only.
LEMMA ServiceHostsIntroduces ==
  ASSUME CheckedInv, HostsInv, FirewallsInv, ServiceHosts, phase' # "failed"
  PROVE  FirewallsInv'
<1>1. phase = "hosts" /\ UNCHANGED <<cfg, networks>>
  BY DEF ServiceHosts
<1>2. PICK w \in HostsWork(cfg) :
        /\ cfg.kind[w[1]] \in EndHost /\ done' = done \cup {w}
        /\ LET h     == w[2]
               last  == LastHop(h)
               final == SharedNetwork(cfg, networks, h[Len(h) - 1], last)
               first == SharedNetwork(cfg, networks, h[1], h[2])
           IN  IF NoNetwork \in {final, first}
               THEN phase' = "failed" /\ UNCHANGED hosts
               ELSE /\ hosts' = Assign({<<h[1], last, EntityIp(networks, final, last)>>,
                                        <<last, h[1], EntityIp(networks, first, h[1])>>})
                    /\ UNCHANGED phase
  BY Zenon DEF ServiceHosts, Turn
<1> DEFINE h == w[2]
           S == Entries(cfg, networks, h)
<1>3. IsRoute(cfg, h)
  BY <1>1, WorkType, Relied
<1>4. hosts' = Assign(S) /\ UNCHANGED phase /\ done' = done \cup {w}
  BY <1>2 DEF Entries
<1>5. h[1] # LastHop(h) /\ cfg.kind[h[1]] \in EndHost /\ cfg.kind[LastHop(h)] \in EndHost
  BY <1>3, RouteFacts DEF IsRoute, LastHop
<1> HIDE DEF h
<1>6. OnePerName(S)
  BY <1>5 DEF OnePerName, Entries
<1>7. \A t \in S : cfg.kind[t[1]] # "firewall"
  BY <1>5 DEF Entries, EndHost
<1>8. cfg.kind[w[1]] # "firewall"
  BY <1>2 DEF EndHost
<1> HIDE DEF S
<1>9. QED
  BY <1>1, <1>4, <1>6, <1>7, <1>8, AssignKeepsFirewalls DEF HostsInv

\* A firewall learns the other hops of a connection.
LEMMA FirewallHostsIntroduces ==
  ASSUME CheckedInv, HostsInv, FirewallsInv, FirewallHosts, phase' # "failed"
  PROVE  FirewallsInv'
<1>1. phase = "hosts" /\ UNCHANGED <<cfg, networks>>
  BY DEF FirewallHosts
<1>2. PICK w \in HostsWork(cfg) :
        /\ cfg.kind[w[1]] = "firewall" /\ done' = done \cup {w}
        /\ LET h == w[2]
               link(i) == SharedNetwork(cfg, networks, h[i], h[i + 1])
           IN  IF \E i \in 1 .. Len(h) - 1 : link(i) = NoNetwork
               THEN phase' = "failed" /\ UNCHANGED hosts
               ELSE /\ hosts' = Assign(
                         {<<w[1], h[k], EntityIp(networks, link(IF k < Len(h) THEN k ELSE k - 1), h[k])>> :
                            k \in {i \in DOMAIN h : h[i] # w[1]}})
                    /\ UNCHANGED phase
  BY Zenon DEF FirewallHosts, Turn
<1> DEFINE h == w[2]
           ip(k) == EntityIp(networks, SharedNetwork(cfg, networks,
                      h[IF k < Len(h) THEN k ELSE k - 1], h[(IF k < Len(h) THEN k ELSE k - 1) + 1]), h[k])
           S == {<<w[1], h[k], ip(k)>> : k \in {i \in DOMAIN h : h[i] # w[1]}}
<1>3. \A g \in AllE2e(cfg) : IsRoute(cfg, g)
  BY <1>1, Relied
<1>4. h \in E2eConns(cfg, w[1]) /\ IsRoute(cfg, h)
  BY <1>2, <1>3, FirewallWork DEF E2eConns
<1>5. /\ hosts' = Assign(S) /\ UNCHANGED phase /\ done' = done \cup {w}
      /\ \A i \in 1 .. Len(h) - 1 : SharedNetwork(cfg, networks, h[i], h[i + 1]) # NoNetwork
  BY <1>2
<1>6. \A k, m \in DOMAIN h : h[k] = h[m] => k = m
  BY <1>4 DEF IsRoute
<1>7. Len(h) \in Nat /\ DOMAIN h = 1 .. Len(h)
  BY <1>4, RouteFacts
<1> HIDE DEF h
<1>8. ASSUME NEW k \in DOMAIN h PROVE ip(k) = AddressOn(h, k)
  <2>1. k \in Int
    BY <1>7
  <2>2. CASE k < Len(h)
    BY <2>2 DEF AddressOn, LinkOf
  <2>3. CASE ~(k < Len(h))
    <3>1. k - 1 + 1 = k
      BY <2>1
    <3>2. QED
      BY <2>3, <3>1 DEF AddressOn, LinkOf
  <2>4. QED
    BY <2>2, <2>3
<1> HIDE DEF ip
<1>9. OnePerName(S)
  BY <1>6 DEF OnePerName
<1>10. \A i \in DOMAIN h : h[i] # w[1] => Knows(S, w[1], h[i])
  <2> SUFFICES ASSUME NEW k \in DOMAIN h, h[k] # w[1] PROVE Knows(S, w[1], h[k])
    OBVIOUS
  <2>1. PICK t : t = <<w[1], h[k], ip(k)>>
    OBVIOUS
  <2>2. t \in S /\ t[1] = w[1] /\ t[2] = h[k]
    BY <2>1
  <2> HIDE DEF S
  <2>3. QED
    BY <2>2 DEF Knows
<1>11. \A t \in S : \E g \in E2eConns(cfg, t[1]) : \E i \in DOMAIN g : t[2] = g[i] /\ t[3] = AddressOn(g, i)
  BY <1>4, <1>8
<1> HIDE DEF S
<1>12. QED
  BY <1>1, <1>5, <1>9, <1>10, <1>11, AssignKeepsFirewalls DEF HostsInv, h

\* Firewalls know the hops of their connections by addresses of those hops.
LEMMA FirewallsInvariant == Spec => []FirewallsInv
<1>1. Init => FirewallsInv
  BY DEF Init, FirewallsInv
<1>2. CheckedInv /\ HostsInv /\ FirewallsInv /\ [Next]_vars => FirewallsInv'
  <2> SUFFICES ASSUME CheckedInv, HostsInv, FirewallsInv, [Next]_vars PROVE FirewallsInv'
    OBVIOUS
  <2>1. CASE Check \/ TakeConnection \/ AddL3 \/ AddL2 \/ NetworksDone
    <3>1. /\ phase \in {"check", "networks"} /\ phase' \in {"networks", "rejected", "routes"}
          /\ hosts' = hosts
      BY <2>1 DEF Check, TakeConnection, AddL3, AddL2, NetworksDone, LoopEnds
    <3>2. hosts' = {}
      BY <3>1 DEF HostsInv
    <3>3. QED
      BY <3>1, <3>2 DEF FirewallsInv
  <2>2. CASE IpRoutePathConnection \/ RoutesDone
    <3>1. /\ phase = "routes" /\ phase' \in {"routes", "failed", "hosts"} /\ hosts' = hosts
          /\ phase' = "hosts" => done' = {}
      BY <2>2 DEF IpRoutePathConnection, RoutesDone, LoopEnds
    <3>2. hosts' = {}
      BY <3>1 DEF HostsInv
    <3>3. QED
      BY <3>1, <3>2 DEF FirewallsInv
  <2>3. CASE (ServiceHosts \/ FirewallHosts) /\ phase' # "failed"
    BY <2>3, ServiceHostsIntroduces, FirewallHostsIntroduces
  <2>4. ASSUME UNCHANGED <<cfg, networks, hosts>>
        PROVE  /\ \A t \in hosts' : cfg'.kind[t[1]] = "firewall" =>
                    \E g \in E2eConns(cfg', t[1]) : \E i \in DOMAIN g : t[2] = g[i] /\ t[3] = AddressOn(g, i)'
               /\ \A f, h : Introduces(f, h)' <=> Introduces(f, h)
    <3>1. \A g, i : AddressOn(g, i)' = AddressOn(g, i)
      BY <2>4, AddressOnStays
    <3>2. \A f, h : Introduces(f, h)' <=> Introduces(f, h)
      BY <2>4 DEF Introduces
    <3>3. QED
      BY <2>4, <3>1, <3>2 DEF FirewallsInv
  <2>5. CASE (ServiceHosts \/ FirewallHosts) /\ phase' = "failed"
    <3>1. UNCHANGED <<cfg, networks, hosts>>
      BY <2>5 DEF ServiceHosts, FirewallHosts
    <3>2. QED
      BY <2>4, <2>5, <3>1 DEF FirewallsInv
  <2>6. CASE HostsDone
    <3>1. /\ phase = "hosts" /\ HostsWork(cfg) \subseteq done /\ phase' = "dependencies"
          /\ UNCHANGED <<cfg, networks, hosts>>
      BY <2>6 DEF HostsDone, LoopEnds
    <3>2. ASSUME NEW f \in Entities(cfg), cfg.kind[f] = "firewall", NEW h \in E2eConns(cfg, f)
          PROVE  Introduces(f, h)
      <4>1. <<f, h>> \in HostsWork(cfg)
        BY <3>2 DEF HostsWork
      <4>2. QED
        BY <3>1, <3>2, <4>1 DEF FirewallsInv
    <3>3. QED
      BY <2>4, <3>1, <3>2 DEF FirewallsInv
  <2>7. CASE AssociateDependencies \/ AdditionalCmds
    <3>1. /\ phase \in {"dependencies", "additional"} /\ phase' \in {"additional", "done", "failed"}
          /\ UNCHANGED <<cfg, networks, hosts>>
      BY <2>7 DEF AssociateDependencies, AdditionalCmds
    <3>2. QED
      BY <2>4, <3>1 DEF FirewallsInv
  <2>8. CASE UNCHANGED vars
    BY <2>4, <2>8 DEF vars, FirewallsInv
  <2>9. QED
    BY <2>1, <2>2, <2>3, <2>5, <2>6, <2>7, <2>8 DEF Next, Step, Terminated
<1>3. QED
  BY <1>1, <1>2, HostsInvariant, PTL DEF Spec

\* Two addresses are the same only for one entity.
LEMMA AddressOwner ==
  ASSUME NEW k, NEW m, NEW a, NEW b,
         EntityIp(networks, k, a) = EntityIp(networks, m, b), EntityIp(networks, k, a) # NoAddress
  PROVE  a = b
<1>1. EntityIp(networks, k, a) \in {<<k, 1>>, <<k, 2>>} /\ EntityIp(networks, m, b) \in {<<m, 1>>, <<m, 2>>}
  BY DEF EntityIp
<1>2. k = m
  BY <1>1
<1>3. QED
  BY <1>2 DEF EntityIp

\* The ends of a connection have addresses, on its first network and on its last.
LEMMA EndsHaveAddresses ==
  ASSUME Exporting, phase = "done", NEW h \in AllE2e(cfg),
         \A i \in 1 .. Len(h) - 1 : SharedNetwork(cfg, networks, h[i], h[i + 1]) # NoNetwork,
         NEW q \in {1, Len(h)}
  PROVE  /\ q \in DOMAIN h /\ AddressOn(h, q) # NoAddress
         /\ FirstAddress(h) = AddressOn(h, 1) /\ LastAddress(h) = AddressOn(h, Len(h))
<1>1. IsRoute(cfg, h) /\ networks \in Seq(NetworksOf(cfg)) /\ \A g \in AllE2e(cfg) : IsRoute(cfg, g)
  BY Relied DEF Exporting, Architected, BuiltInv
<1>2. PICK last \in Nat : last = Len(h)
  BY <1>1, RouteFacts
<1>3. last >= 2 /\ DOMAIN h = 1 .. last /\ ~IsSwitch(cfg, h[1]) /\ ~IsSwitch(cfg, h[last])
  BY <1>1, <1>2, RouteFacts DEF IsRoute
<1>4. /\ LinkOf(h, 1) = <<h[1], h[2]>> /\ LinkOf(h, last) = <<h[last - 1], h[last]>>
      /\ SharedNetwork(cfg, networks, h[1], h[2]) # NoNetwork
      /\ SharedNetwork(cfg, networks, h[last - 1], h[last]) # NoNetwork
  <2>1. 1 \in 1 .. last - 1 /\ last - 1 \in 1 .. last - 1 /\ 1 + 1 = 2 /\ last - 1 + 1 = last /\ 1 < last /\ ~(last < last)
    BY <1>2, <1>3
  <2>2. QED
    BY <1>2, <2>1 DEF LinkOf
<1>5. FirstAddress(h) = AddressOn(h, 1) /\ LastAddress(h) = AddressOn(h, last)
  BY <1>2, <1>4 DEF FirstAddress, LastAddress, AddressOn, LastHop
<1>6. PICK k : k = SharedNetwork(cfg, networks, LinkOf(h, q)[1], LinkOf(h, q)[2])
  OBVIOUS
<1>7. k # NoNetwork /\ h[q] \in {LinkOf(h, q)[1], LinkOf(h, q)[2]}
  BY <1>2, <1>4, <1>6
<1>8. k \in DOMAIN networks /\ h[q] \in Range(networks[k].hops)
  BY <1>1, <1>6, <1>7, NetworkJoins
<1> DEFINE x == networks[k].hops
<1>9. IsSegment(cfg, x)
  BY <1>1, <1>8, NetworkShape, LayersAre
<1>10. AddressOn(h, q) = IF x[1] = h[q] THEN <<k, 1>> ELSE IF x[Len(x)] = h[q] THEN <<k, 2>> ELSE NoAddress
  BY <1>6, <1>8 DEF AddressOn, EntityIp, LastHop
<1> HIDE DEF x
<1>11. Len(x) \in Nat /\ DOMAIN x = 1 .. Len(x)
  BY <1>9 DEF IsSegment
<1>12. PICK i \in 1 .. Len(x) : x[i] = h[q]
  BY <1>8, <1>11 DEF Range, x
<1>13. i = 1 \/ i = Len(x) \/ i \in 2 .. Len(x) - 1
  <2>1. i \in Int /\ Len(x) \in Int
    BY <1>11
  <2>2. QED
    BY <2>1, Between, Zenon
<1>14. x[1] = h[q] \/ x[Len(x)] = h[q]
  BY <1>2, <1>3, <1>9, <1>12, <1>13 DEF IsSegment
<1>15. <<k, 1>> # NoAddress /\ <<k, 2>> # NoAddress
  BY DEF NoAddress
<1>16. q \in DOMAIN h
  BY <1>2, <1>3
<1>17. QED
  BY <1>2, <1>5, <1>10, <1>14, <1>15, <1>16

\* What a firewall was introduced to, when everything was generated.
Knowing == Serving /\ HostsInv /\ FirewallsInv

\* It holds in every state of a deployment.
LEMMA KnowingInvariant == DSpec => []Knowing
<1>1. DSpec => [](HostsInv /\ FirewallsInv)
  BY DeploymentFollowsArchitecture, HostsInvariant, FirewallsInvariant, PTL
<1>2. QED
  BY <1>1, ServingInvariant, PTL DEF Knowing

\* A firewall knows the ends of a connection that crosses it by the addresses they use.
LEMMA NamesOfEnds ==
  ASSUME Knowing, phase = "done", NEW f \in Entities(cfg), cfg.kind[f] = "firewall", RulesUsable(f),
         NEW h \in E2eConns(cfg, f), NEW q \in {1, Len(h)}
  PROVE  /\ Knows(hosts, f, h[q])
         /\ \A n : <<f, n, AddressOn(h, q)>> \in hosts <=> n = h[q]
<1>1. h \in AllE2e(cfg) /\ IsRoute(cfg, h) /\ Introduces(f, h) /\ Exporting
  BY Relied DEF Knowing, Serving, Deploying, Exporting, Architected, FirewallsInv, E2eConns
<1>2. q \in DOMAIN h /\ AddressOn(h, q) # NoAddress
  BY <1>1, EndsHaveAddresses DEF Introduces
<1>3. h[q] # f
  BY <1>1 DEF IsRoute, EndHost
<1>4. Knows(hosts, f, h[q])
  BY <1>1, <1>2, <1>3 DEF Introduces
<1>5. ASSUME NEW t \in hosts, t[1] = f
      PROVE  \E g \in E2eConns(cfg, f) : \E i \in DOMAIN g :
               t[2] = g[i] /\ t[3] = AddressOn(g, i) /\ (g[i] = h[q] => AddressOn(g, i) = AddressOn(h, q))
  <2>1. PICK g \in E2eConns(cfg, f) : \E i \in DOMAIN g : t[2] = g[i] /\ t[3] = AddressOn(g, i)
    BY <1>5 DEF Knowing, FirewallsInv
  <2>2. PICK i \in DOMAIN g : t[2] = g[i] /\ t[3] = AddressOn(g, i)
    BY <2>1
  <2>3. g[i] = h[q] => LinkOf(g, i) = LinkOf(h, q)
    BY <1>2 DEF RulesUsable
  <2>4. QED
    BY <2>2, <2>3 DEF AddressOn
<1>6. hosts \subseteq Entities(cfg) \X Entities(cfg) \X Addresses
  BY DEF Knowing, HostsInv
<1>7. <<f, h[q], AddressOn(h, q)>> \in hosts
  <2>1. PICK t \in hosts : t[1] = f /\ t[2] = h[q]
    BY <1>4 DEF Knows
  <2>2. t[3] = AddressOn(h, q)
    BY <1>5, <2>1
  <2>3. t = <<t[1], t[2], t[3]>>
    BY <1>6
  <2>4. QED
    BY <2>1, <2>2, <2>3
<1>8. ASSUME NEW n, <<f, n, AddressOn(h, q)>> \in hosts PROVE n = h[q]
  <2>0. PICK t : t = <<f, n, AddressOn(h, q)>>
    OBVIOUS
  <2>1. PICK g \in E2eConns(cfg, f) : \E i : n = g[i] /\ AddressOn(h, q) = AddressOn(g, i)
    BY <1>5, <1>8, <2>0
  <2>2. QED
    BY <1>2, <2>1, AddressOwner DEF AddressOn
<1>9. QED
  BY <1>4, <1>7, <1>8

\* A rule matches the addresses of a packet when it names its ends.
LEMMA MatchesSame ==
  ASSUME Knowing, phase = "done", NEW f \in Entities(cfg), cfg.kind[f] = "firewall", RulesUsable(f),
         NEW h \in E2eConns(cfg, f), NEW p \in PacketsOver(h)
  PROVE  /\ \A rule : MatchesAddresses(f, rule, p) <=> MatchesNames(rule, p)
         /\ Knows(hosts, f, p.from) /\ Knows(hosts, f, p.to)
<1>1. h \in AllE2e(cfg) /\ Introduces(f, h) /\ Exporting
  BY DEF Knowing, Serving, Deploying, FirewallsInv, E2eConns
<1>2. FirstAddress(h) = AddressOn(h, 1) /\ LastAddress(h) = AddressOn(h, Len(h))
  BY <1>1, EndsHaveAddresses DEF Introduces
<1>3. /\ Knows(hosts, f, h[1]) /\ \A n : <<f, n, AddressOn(h, 1)>> \in hosts <=> n = h[1]
      /\ Knows(hosts, f, h[Len(h)]) /\ \A n : <<f, n, AddressOn(h, Len(h))>> \in hosts <=> n = h[Len(h)]
  BY NamesOfEnds
<1>4. \/ p.from = h[1] /\ p.src = FirstAddress(h) /\ p.to = h[Len(h)] /\ p.dst = LastAddress(h)
      \/ p.from = h[Len(h)] /\ p.src = LastAddress(h) /\ p.to = h[1] /\ p.dst = FirstAddress(h)
  BY DEF PacketsOver, LastHop
<1>5. /\ \A n : <<f, n, p.src>> \in hosts <=> n = p.from
      /\ \A n : <<f, n, p.dst>> \in hosts <=> n = p.to
      /\ Knows(hosts, f, p.from) /\ Knows(hosts, f, p.to)
  BY <1>2, <1>3, <1>4
<1>6. QED
  BY <1>5 DEF MatchesAddresses, MatchesNames

\* The first of some positions is one of them.
LEMMA FirstHit ==
  ASSUME NEW S, S \subseteq Nat, S # {}
  PROVE  (CHOOSE i \in S : \A j \in S : i <= j) \in S
BY SmallestExists

\* What a firewall that is as configured has in its chain.
LEMMA FirewallSettled ==
  ASSUME Knowing, RunInv, Settled, NamesFree(cfg), NEW f \in FirewallsReady
  PROVE  /\ f \in Entities(cfg) /\ cfg.kind[f] = "firewall" /\ RulesUsable(f) /\ phase = "done"
         /\ chain[f] \in Seq(Rules) /\ cfg.rules[f] \in Seq(Rules)
         /\ Range(chain[f]) \subseteq Range(cfg.rules[f])
         /\ \A rule \in Range(cfg.rules[f]) : Accepted(f, rule) => rule \in Range(chain[f])
         /\ policy[f] = cfg.default[f]
<1>1. f \in Entities(cfg) /\ cfg.kind[f] = "firewall" /\ f \notin spoiled /\ RulesUsable(f)
  BY DEF FirewallsReady
<1>2. ~IsSwitch(cfg, f)
  BY <1>1 DEF IsSwitch
<1>3. step = "written" /\ pending[f] = {} /\ Begun(f)
  BY <1>1, <1>2, AllRan DEF Knowing
<1>4. phase = "done" /\ IsConfig(cfg)
  BY <1>3, WrittenFacts DEF Knowing
<1>5. ChainsOfRules /\ RulesTracked
  BY <1>3 DEF RunInv
<1>6. chain[f] \in Seq(Rules)
  BY <1>1 DEF Knowing, Serving, DeployInv
<1>7. cfg.rules[f] \in Seq(Rules)
  BY <1>1, <1>4 DEF IsConfig, Entities
<1>8. QED
  BY <1>1, <1>3, <1>4, <1>5, <1>6, <1>7 DEF ChainsOfRules, RulesTracked

\* VerdictAsConfigured: once the deployment has settled, a firewall whose rules may be
\* taken in any order does with the packets of a connection what its rules say, although it
\* compares addresses and the rules name entities.
THEOREM VerdictAsConfiguredTheorem == DSpec => []VerdictAsConfigured
<1>1. Knowing /\ RunInv => VerdictAsConfigured
  <2> SUFFICES ASSUME Knowing, RunInv, Settled, NamesFree(cfg), NEW f \in FirewallsReady, OrderFree(cfg.rules[f]),
                      NEW h \in E2eConns(cfg, f), NEW p \in PacketsOver(h)
               PROVE  Verdict(chain[f], policy[f], LAMBDA rule : MatchesAddresses(f, rule, p))
                        = Verdict(cfg.rules[f], cfg.default[f], LAMBDA rule : MatchesNames(rule, p))
    BY DEF VerdictAsConfigured, AsConfigured
  <2> DEFINE s == chain[f]
             t == cfg.rules[f]
             S == {i \in DOMAIN s : MatchesAddresses(f, s[i], p)}
             T == {i \in DOMAIN t : MatchesNames(t[i], p)}
             firstS == CHOOSE i \in S : \A j \in S : i <= j
             firstT == CHOOSE i \in T : \A j \in T : i <= j
  <2>1. /\ Verdict(s, policy[f], LAMBDA rule : MatchesAddresses(f, rule, p))
             = IF S = {} THEN policy[f] ELSE s[firstS].action
        /\ Verdict(t, cfg.default[f], LAMBDA rule : MatchesNames(rule, p))
             = IF T = {} THEN cfg.default[f] ELSE t[firstT].action
    BY DEF Verdict
  <2>2. /\ f \in Entities(cfg) /\ cfg.kind[f] = "firewall" /\ RulesUsable(f) /\ phase = "done"
        /\ s \in Seq(Rules) /\ t \in Seq(Rules) /\ Range(s) \subseteq Range(t)
        /\ \A rule \in Range(t) : Accepted(f, rule) => rule \in Range(s)
        /\ policy[f] = cfg.default[f]
    BY FirewallSettled
  <2>3. /\ \A rule : MatchesAddresses(f, rule, p) <=> MatchesNames(rule, p)
        /\ Knows(hosts, f, p.from) /\ Knows(hosts, f, p.to)
    BY <2>2, MatchesSame
  <2>4. DOMAIN s \subseteq Nat /\ DOMAIN t \subseteq Nat
    BY <2>2
  <2>5. S # {} => s[firstS] \in Range(t) /\ MatchesNames(s[firstS], p)
    <3> SUFFICES ASSUME S # {} PROVE s[firstS] \in Range(t) /\ MatchesNames(s[firstS], p)
      OBVIOUS
    <3>1. S \subseteq Nat
      BY <2>4
    <3>2. firstS \in S
      <4> HIDE DEF S
      <4>1. QED
        BY <3>1, FirstHit
    <3> HIDE DEF firstS
    <3>3. QED
      BY <2>2, <2>3, <3>2 DEF Range
  <2>6. T # {} => t[firstT] \in Range(t) /\ MatchesNames(t[firstT], p)
    <3> SUFFICES ASSUME T # {} PROVE t[firstT] \in Range(t) /\ MatchesNames(t[firstT], p)
      OBVIOUS
    <3>1. T \subseteq Nat
      BY <2>4
    <3>2. firstT \in T
      <4> HIDE DEF T
      <4>1. QED
        BY <3>1, FirstHit
    <3> HIDE DEF firstT
    <3>3. QED
      BY <3>2 DEF Range
  <2> HIDE DEF firstS, firstT
  <2>7. S # {} => T # {}
    <3> SUFFICES ASSUME S # {} PROVE T # {}
      OBVIOUS
    <3>1. PICK j \in DOMAIN t : t[j] = s[firstS]
      BY <2>5 DEF Range
    <3>2. QED
      BY <2>5, <3>1
  <2>8. T # {} => S # {}
    <3> SUFFICES ASSUME T # {} PROVE S # {}
      OBVIOUS
    <3>1. PICK rule : rule = t[firstT]
      OBVIOUS
    <3>2. rule \in Range(t) /\ MatchesNames(rule, p)
      BY <2>6, <3>1
    <3>3. Known(f, rule.source) /\ Known(f, rule.destination)
      BY <2>3, <3>2 DEF Known, Knows, MatchesNames
    <3>4. Accepted(f, rule)
      BY <2>2, <3>2, <3>3 DEF Accepted, RulesUsable
    <3>5. PICK i \in DOMAIN s : s[i] = rule
      BY <2>2, <3>2, <3>4 DEF Range
    <3>6. QED
      BY <2>3, <3>2, <3>5
  <2>9. S # {} /\ T # {} => s[firstS].action = t[firstT].action
    <3> SUFFICES ASSUME S # {}, T # {} PROVE s[firstS].action = t[firstT].action
      OBVIOUS
    <3>1. PICK v, w : v = s[firstS] /\ w = t[firstT]
      OBVIOUS
    <3>2. v \in Range(t) /\ w \in Range(t) /\ MatchesNames(v, p) /\ MatchesNames(w, p)
      BY <2>5, <2>6, <3>1
    <3>3. v.action = w.action
      BY <3>2 DEF OrderFree, MatchesNames
    <3>4. QED
      BY <3>1, <3>3
  <2> HIDE DEF S, T
  <2>10. QED
    BY <2>1, <2>2, <2>7, <2>8, <2>9
<1>2. QED
  BY <1>1, KnowingInvariant, RunInvariant, PTL
====
