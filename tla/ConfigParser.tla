---- MODULE ConfigParser ----
(***************************************************************************)
(* check_config of generator/config_parser.py, one action per check, in    *)
(* the order the code makes them.  A check that fails ends the function    *)
(* with False ("rejected") or with an exception ("raised"); in both cases  *)
(* Architecture.generate_architecture ends with a RuntimeError.            *)
(***************************************************************************)
EXTENDS Topology

VARIABLES
  cfg,    \* the configuration; no check changes it
  stage   \* the next check, or how the function ended

vars == <<cfg, stage>>

Checks == {"common", "specific", "connectivity", "cycles", "ports"}
Verdicts == {"accepted", "rejected", "raised"}

TypeOK == stage \in Checks \cup Verdicts /\ IsConfig(cfg)

Init == cfg \in Configs /\ stage = "common"

\* One check: on to the next one, or out.
Check(here, passes, next) ==
  /\ stage = here
  /\ stage' = IF passes THEN next ELSE "rejected"
  /\ UNCHANGED cfg

CheckCommonFields == Check("common", CommonFields(cfg), "specific")

\* The verdict taken for the next stage as it is.
CheckSpecificFieldsRaw ==
  stage = "specific" /\ stage' = SpecificFields(cfg) /\ UNCHANGED cfg

CheckSpecificFields ==
  /\ stage = "specific"
  /\ stage' = LET v == SpecificFields(cfg) IN IF v = "ok" THEN "connectivity" ELSE v
  /\ UNCHANGED cfg

CheckConnectivity == Check("connectivity", ConnectivityPossible(cfg), "cycles")
CheckNoCycles == Check("cycles", NoCycles(cfg), "ports")
CheckUniquePorts == Check("ports", PortsUnique(cfg), "accepted")

\* The function has returned or raised.
Ended == stage \in Verdicts /\ UNCHANGED vars

Next ==
  \/ CheckCommonFields
  \/ CheckSpecificFields
  \/ CheckConnectivity
  \/ CheckNoCycles
  \/ CheckUniquePorts
  \/ Ended

Spec == Init /\ [][Next]_vars

----
(***************************************************************************)
(* What an accepted configuration promises the rest of the generator.      *)
(***************************************************************************)

\* A connection of an end host can be walked: every hop exists, every hop but the
\* two ends forwards and names the next hop as a neighbour, and the walk ends at an
\* end host.  It meets no entity twice, the source included: nothing checks that
\* directly, it follows from the absence of cycles in a graph that leaves out the
\* neighbours of the switches.
Walkable(c, e, p) ==
  LET h == Hops(e, p) IN
  /\ \A i \in DOMAIN h : h[i] \in Entities(c)
  /\ \A i \in 2 .. Len(h) - 1 :
       c.kind[h[i]] \in Intermediary /\ h[i + 1] \in c.neighbors[h[i]]
  /\ c.kind[h[Len(h)]] \in EndHost
  /\ \A i, j \in DOMAIN h : h[i] = h[j] => i = j

\* In an accepted configuration every connection of a service or external is a simple
\* walk from it to an end host (what generate_networks and ip_route_path_connection
\* take for granted).
AcceptedPathsWalkable ==
  stage = "accepted" =>
    \A e \in Entities(cfg) : cfg.kind[e] \in EndHost =>
      \A p \in ExtractConnections(cfg, e) : Walkable(cfg, e, p)

\* In an accepted configuration no two containers publish one host port, those of Jaeger
\* included, so that "docker compose up" can bind them all.  The port of Jaeger's UI is
\* excepted: TELEMETRY_PORTS has 1686 in its place (constants.py:247).
AcceptedPortsDistinct ==
  stage = "accepted" =>
    /\ \A e, f \in Entities(cfg) : e # f => Published(cfg, e) \cap Published(cfg, f) = {}
    /\ \A e \in Entities(cfg) : Published(cfg, e) \cap (JaegerPorts \ {UiPort}) = {}

\* "Return True if all the paths are possible" (config_parser.py:387): an accepted
\* configuration has no impossible path, at any endpoint of a service nor among the
\* connections of an external.
EveryPathPossible ==
  stage = "accepted" =>
    \A e \in Entities(cfg) : cfg.kind[e] \in EndHost =>
      \A k \in DOMAIN cfg.endpoints[e] : \A p \in cfg.endpoints[e][k] :
        IF Len(p) > 1 THEN PathPossible(cfg, p) ELSE DirectPossible(cfg, e, p[1])
====
