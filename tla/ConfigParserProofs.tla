---- MODULE ConfigParserProofs ----
(***************************************************************************)
(* The properties of module ConfigParser for every set of configurations.  *)
(*                                                                         *)
(* The argument: the stages establish the checks one by one (Progress, the *)
(* inductive invariant), so an accepted configuration satisfies            *)
(* CheckConfig; the rest are facts about configurations that do.           *)
(***************************************************************************)
EXTENDS ConfigParser, TopologyProofs

\* The check of the fields of a type ends in a verdict.
LEMMA SpecificFieldsType ==
  ASSUME NEW c
  PROVE  SpecificFields(c) \in {"ok", "rejected", "raised"}
<1>1. \A o : ConnectionVerdict(o) \in {"ok", "rejected", "raised"}
  BY DEF ConnectionVerdict
<1>2. \A e : ConnectionsVerdict(c, e) \in {"ok", "rejected", "raised"}
  BY <1>1 DEF ConnectionsVerdict
<1>3. \A e : SpecificVerdict(c, e) \in {"ok", "rejected", "raised"}
  BY <1>2 DEF SpecificVerdict
<1>4. QED
  BY <1>3 DEF SpecificFields

\* Every configuration the checks see is one yaml.load can return, and check_config is
\* always at one of its stages or over (config_parser.py, check_config).
THEOREM TypeCorrect == Spec => []TypeOK
<1>1. Init => TypeOK
  BY ConfigsAssumption DEF Init, TypeOK, Checks
<1>2. TypeOK /\ [Next]_vars => TypeOK'
  <2> SUFFICES ASSUME TypeOK, [Next]_vars PROVE TypeOK'
    OBVIOUS
  <2> USE DEF TypeOK, Checks, Verdicts
  <2>1. CASE CheckCommonFields
    BY <2>1 DEF CheckCommonFields, Check
  <2>2. CASE CheckSpecificFields
    BY <2>2, SpecificFieldsType DEF CheckSpecificFields
  <2>3. CASE CheckConnectivity
    BY <2>3 DEF CheckConnectivity, Check
  <2>4. CASE CheckNoCycles
    BY <2>4 DEF CheckNoCycles, Check
  <2>5. CASE CheckUniquePorts
    BY <2>5 DEF CheckUniquePorts, Check
  <2>6. CASE UNCHANGED vars
    BY <2>6 DEF vars
  <2>7. QED
    BY <2>1, <2>2, <2>3, <2>4, <2>5, <2>6 DEF Next, Ended
<1>3. QED
  BY <1>1, <1>2, PTL DEF Spec

----
(***************************************************************************)
(* What each stage has behind it.                                          *)
(***************************************************************************)

\* What a stage knows of the configuration.
Progress ==
  /\ stage = "specific" => CommonFields(cfg)
  /\ stage = "connectivity" => CommonFields(cfg) /\ SpecificFields(cfg) = "ok"
  /\ stage = "cycles" =>
       CommonFields(cfg) /\ SpecificFields(cfg) = "ok" /\ ConnectivityPossible(cfg)
  /\ stage = "ports" =>
       /\ CommonFields(cfg) /\ SpecificFields(cfg) = "ok"
       /\ ConnectivityPossible(cfg) /\ NoCycles(cfg)
  /\ stage = "accepted" => CheckConfig(cfg)

\* Each stage has the checks before it behind it.
LEMMA ProgressInvariant == Spec => []Progress
<1>1. Init => Progress
  BY DEF Init, Progress
<1>2. Progress /\ [Next]_vars => Progress'
  <2> SUFFICES ASSUME Progress, [Next]_vars PROVE Progress'
    OBVIOUS
  <2> USE DEF Progress
  <2>1. CASE CheckCommonFields
    BY <2>1 DEF CheckCommonFields, Check, CheckConfig
  <2>2. CASE CheckSpecificFields
    <3>1. stage = "specific" /\ UNCHANGED cfg /\ CommonFields(cfg)
      BY <2>2 DEF CheckSpecificFields
    <3>2. CASE SpecificFields(cfg) = "ok"
      <4>1. stage' = "connectivity"
        BY <2>2, <3>2 DEF CheckSpecificFields
      <4>2. QED
        BY <3>1, <3>2, <4>1
    <3>3. CASE SpecificFields(cfg) # "ok"
      BY <2>2, <3>1, <3>3, SpecificFieldsType DEF CheckSpecificFields
    <3>4. QED
      BY <3>2, <3>3
  <2>3. CASE CheckConnectivity
    BY <2>3 DEF CheckConnectivity, Check, CheckConfig
  <2>4. CASE CheckNoCycles
    BY <2>4 DEF CheckNoCycles, Check, CheckConfig
  <2>5. CASE CheckUniquePorts
    BY <2>5 DEF CheckUniquePorts, Check, CheckConfig
  <2>6. CASE UNCHANGED vars
    BY <2>6 DEF vars
  <2>7. QED
    BY <2>1, <2>2, <2>3, <2>4, <2>5, <2>6 DEF Next, Ended
<1>3. QED
  BY <1>1, <1>2, PTL DEF Spec

----
(***************************************************************************)
(* Facts about accepted configurations.                                    *)
(***************************************************************************)

\* The paths of a configuration that passes are simple walks.
LEMMA CheckedPathsWalkable ==
  ASSUME NEW c, IsConfig(c), CheckConfig(c), NEW e \in Entities(c), c.kind[e] \in EndHost,
         NEW p \in ExtractConnections(c, e)
  PROVE  Walkable(c, e, p)
<1> DEFINE h == Hops(e, p)
<1>1. ConnectivityPossible(c) /\ NoCycles(c)
  BY DEF CheckConfig
<1>2. /\ \A i \in DOMAIN h : h[i] \in Entities(c)
      /\ \A i \in 2 .. Len(h) - 1 :
           c.kind[h[i]] \in Intermediary /\ h[i + 1] \in c.neighbors[h[i]]
      /\ c.kind[h[Len(h)]] \in EndHost
  BY <1>1, HopsPossible
<1>3. h \in Seq(Entities(c))
  <2>1. p \in Seq(Names) /\ p # <<>>
    BY ConnectionsType
  <2>2. \A i \in 1 .. Len(p) : p[i] \in Entities(c)
    <3> SUFFICES ASSUME NEW i \in 1 .. Len(p) PROVE p[i] \in Entities(c)
      OBVIOUS
    <3>1. i + 1 \in DOMAIN h /\ h[i + 1] = p[i]
      BY <2>1, HopsShape
    <3>2. QED
      BY <1>2, <3>1
  <2>3. p \in Seq(Entities(c))
    BY <2>1, <2>2
  <2>4. QED
    BY <2>3 DEF Hops
<1>4. Acyclic(Entities(c), Graph(c))
  BY <1>1 DEF NoCycles
<1>5. \A k \in 1 .. Len(h) - 1 : <<h[k], h[k + 1]>> \in Graph(c)
  BY HopsInGraph
<1> HIDE DEF h
<1>6. \A i, j \in DOMAIN h : h[i] = h[j] => i = j
  BY <1>3, <1>4, <1>5, WalksAreSimple
<1>7. QED
  BY <1>2, <1>6 DEF Walkable, h

\* In every accepted configuration, the connections of an end host are simple walks over
\* existing entities, through intermediaries that name the next hop, to an end host.
THEOREM AcceptedPathsWalkableTheorem == Spec => []AcceptedPathsWalkable
<1>1. TypeOK /\ Progress => AcceptedPathsWalkable
  <2> SUFFICES ASSUME TypeOK, Progress, stage = "accepted",
                      NEW e \in Entities(cfg), cfg.kind[e] \in EndHost,
                      NEW p \in ExtractConnections(cfg, e)
               PROVE  Walkable(cfg, e, p)
    BY DEF AcceptedPathsWalkable
  <2>1. IsConfig(cfg) /\ CheckConfig(cfg)
    BY DEF TypeOK, Progress
  <2>2. QED
    BY <2>1, CheckedPathsWalkable
<1>2. QED
  BY <1>1, TypeCorrect, ProgressInvariant, PTL

\* In every accepted configuration no two containers publish one host port, and none
\* publishes one that Jaeger publishes, its UI apart.
THEOREM AcceptedPortsDistinctTheorem == Spec => []AcceptedPortsDistinct
<1>1. Progress => AcceptedPortsDistinct
  <2> SUFFICES ASSUME Progress, stage = "accepted"
               PROVE  /\ \A e, f \in Entities(cfg) :
                           e # f => Published(cfg, e) \cap Published(cfg, f) = {}
                      /\ \A e \in Entities(cfg) :
                           Published(cfg, e) \cap (JaegerPorts \ {UiPort}) = {}
    BY DEF AcceptedPortsDistinct
  <2>1. PortsUnique(cfg)
    BY DEF Progress, CheckConfig
  <2>2. \A n \in Entities(cfg) : Published(cfg, n) \subseteq CountedPorts(cfg, n)
    BY DEF Published, CountedPorts, EndHost, Intermediary
  <2>3. ASSUME NEW e \in Entities(cfg), NEW f \in Entities(cfg), e # f
        PROVE  Published(cfg, e) \cap Published(cfg, f) = {}
    <3>1. CountedPorts(cfg, e) \cap CountedPorts(cfg, f) = {}
      BY <2>1, <2>3 DEF PortsUnique
    <3>2. QED
      BY <2>2, <3>1
  <2>4. ASSUME NEW e \in Entities(cfg)
        PROVE  Published(cfg, e) \cap (JaegerPorts \ {UiPort}) = {}
    <3>1. CountedPorts(cfg, e) \cap TelemetryPorts = {}
      BY <2>1 DEF PortsUnique
    <3>2. JaegerPorts \ {UiPort} \subseteq TelemetryPorts
      BY DEF JaegerPorts, UiPort, TelemetryPorts
    <3>3. QED
      BY <2>2, <3>1, <3>2
  <2>5. QED
    BY <2>3, <2>4
<1>2. QED
  BY <1>1, ProgressInvariant, PTL
====
