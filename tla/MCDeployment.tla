---- MODULE MCDeployment ----
(***************************************************************************)
(* One kind of link at a time: through a firewall with rules, through a    *)
(* router to a service or an external, and over two switches, one of them  *)
(* shared by two networks.  The port of x is that of a in some.            *)
(***************************************************************************)
EXTENDS Deployment, MCArchitecture

NodeCount(n) == [kubectl |-> TRUE, nodes |-> 2, meshnet |-> <<2, n>>]
MCClusters == {NodeCount(2), NodeCount(1)}
Clear == {NodeCount(2)}

Flags(ip, kubernetes, jaeger, ioam, clt) ==
  [ip |-> ip, kubernetes |-> kubernetes, jaeger |-> jaeger, ioam |-> ioam, clt |-> clt]
Plain == Flags(4, FALSE, FALSE, FALSE, FALSE)
Clt == Flags(6, FALSE, TRUE, FALSE, TRUE)
Kubernetes == Flags(4, TRUE, FALSE, FALSE, FALSE)
KubernetesClt == Flags(6, TRUE, TRUE, FALSE, TRUE)

\* The connections of a, the rules and the default of f, the ports of b and of x.
Small(order, kinds, paths, rules, default, pb, px, args) ==
  LET E == Range(order) IN
  [ order     |-> order,
    kind      |-> [e \in E |-> kinds[e]],
    form      |-> [e \in E |-> "ok"],
    neighbors |-> [e \in E |-> IF kinds[e] \in EndHost THEN {} ELSE NextIn(paths, e)],
    endpoints |-> [e \in E |-> IF e = a THEN <<paths>> ELSE <<>>],
    ports     |-> [e \in E |-> CASE e = a -> {1} [] e = b -> pb [] e = x -> px [] OTHER -> {}],
    expose    |-> [e \in E |-> TRUE],
    vlan      |-> [e \in E |-> [n \in MCNames |-> 0]],
    options   |-> [e \in E |-> <<>>],
    rules     |-> [e \in E |-> IF e = f THEN rules ELSE <<>>],
    default   |-> [e \in E |-> default],
    args      |-> args ]

Routers == a :> "service" @@ b :> "service" @@ x :> "external" @@ r :> "router" @@ q :> "router" @@ f :> "firewall"
Switches == r :> "switch" @@ q :> "switch" @@ f :> "router" @@ Routers

Rule(s, d, p, action) ==
  [source |-> s, destination |-> d, dport |-> p, protocol |-> IF p = 0 THEN "" ELSE "tcp", action |-> action]

RuleLists == {<<>>, <<Rule(a, b, 2, "accept"), Rule(b, a, 0, "accept")>>, <<Rule(a, "", 0, "drop"), Rule("", b, 2, "drop")>>}
OddRules == {<<[Rule(a, b, 2, "accept") EXCEPT !.protocol = ""]>>, <<Rule(x, b, 0, "accept")>>}
Overlapping == {<<Rule(a, b, 2, "accept"), Rule(a, "", 0, "drop")>>}

Firewall(rules, default, args) == Small(<<a, f, b>>, Routers, {<<f, b>>}, rules, default, {2, 3}, {}, args)
External(px, args) == Small(<<x, a, r>>, Routers, {<<r, x>>}, <<>>, "accept", {}, px, args)
TwoSwitches(order) == Small(order, Switches, {<<r, q, b>>, <<f, q, b>>}, <<>>, "accept", {2}, {}, Plain)

DeployConfigs ==
  {Firewall(rules, default, Plain) : rules \in RuleLists, default \in {"accept", "drop"}}
    \cup {Firewall(rules, "drop", Kubernetes) : rules \in RuleLists}
    \cup {Firewall(rules, "drop", Plain) : rules \in OddRules}
    \cup {Firewall(<<>>, "accept", args) : args \in {g \in Arguments : ~g.kubernetes}}
    \cup {Firewall(<<>>, "drop", KubernetesClt), [External({1}, Plain) EXCEPT !.expose[x] = FALSE]}
    \cup {External({px}, args) : px \in {1, 3}, args \in {Plain, Clt, Kubernetes, KubernetesClt}}
    \cup {TwoSwitches(order) : order \in {<<a, r, q, f, b>>, <<b, f, q, r, a>>}}

CltConfigs == {External({3}, Clt)}
OverlappingConfigs == {Firewall(rules, "accept", Plain) : rules \in Overlapping}
====
