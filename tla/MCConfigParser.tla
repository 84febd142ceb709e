---- MODULE MCConfigParser ----
(***************************************************************************)
(* Two end hosts a and b and two intermediaries r and s of every kind, with *)
(* every combination of neighbours and of the connections in a pool that   *)
(* holds good paths, loops, dead ends and undefined names.                 *)
(***************************************************************************)
EXTENDS ConfigParser, TLC

CONSTANTS a, b, r, s, ghost

MCNames == {a, b, r, s, ghost}
MCPorts == {80, 81, 4317, 16686}

PathPool == { <<b>>, <<r>>, <<ghost>>, <<r, b>>, <<r, s>>, <<r, a>>, <<ghost, b>>,
              <<s, b>>, <<r, s, b>>, <<r, s, r, b>> }

Base(kr, ks, nr, ns, pa, pb) ==
  [ order     |-> <<a, r, s, b>>,
    kind      |-> a :> "service" @@ r :> kr @@ s :> ks @@ b :> "service",
    form      |-> a :> "ok" @@ r :> "ok" @@ s :> "ok" @@ b :> "ok",
    neighbors |-> a :> {} @@ r :> nr @@ s :> ns @@ b :> {},
    endpoints |-> a :> <<{}, pa, {<<r, b>>}>> @@ r :> <<>> @@ s :> <<>> @@ b :> <<pb>>,
    ports     |-> a :> {80} @@ r :> {} @@ s :> {} @@ b :> {81},
    expose    |-> [e \in {a, r, s, b} |-> TRUE],
    vlan      |-> [e \in {a, r, s, b} |-> [n \in MCNames |-> 0]],
    options   |-> [e \in {a, r, s, b} |-> <<>>],
    rules     |-> [e \in {a, r, s, b} |-> <<>>],
    default   |-> [e \in {a, r, s, b} |-> "accept"],
    args      |-> [ip |-> 4, kubernetes |-> FALSE, jaeger |-> FALSE, ioam |-> FALSE, clt |-> FALSE] ]

\* Every choice of links and paths.
LinkConfigs ==
  { Base(kr, ks, nr, ns, {p, q}, pb) :
      kr \in {"router", "switch"}, ks \in {"router", "switch"},
      nr \in SUBSET {a, b, s}, ns \in SUBSET {b, r, ghost},
      p \in PathPool, q \in {<<b>>, <<s, b>>, <<r, s, b>>}, pb \in {{}, {<<a>>}} }

\* A configuration whose paths are good, with every choice of kinds, forms and ports.
Good == Base("router", "switch", {b, s}, {b}, {<<r, b>>, <<r, s, b>>}, {})

FormConfigs ==
  { [Good EXCEPT !.kind[b] = kb, !.kind[r] = kr, !.form[r] = fr, !.form[a] = fa, !.order = o,
                 !.endpoints[b] = IF kb = "external" THEN <<{<<ghost>>}>> ELSE @] :
      kb \in {"service", "external"}, kr \in {"router", "firewall", "unknown"},
      fr \in {"ok", "missing", "badPolicy"}, fa \in {"ok", "missing"},
      o \in {<<a, r, s, b>>, <<s, r, b, a>>} }

\* Options on a connection of a and on a neighbour of r, and Kubernetes as the output.
OptionConfigs ==
  { [Good EXCEPT !.options[a] = oa, !.options[r] = or, !.order = o, !.kind[s] = ks,
                 !.args.kubernetes = k] :
      oa \in {<<>>} \cup {<<[path |-> <<r, b>>, values |-> v]>> :
                            v \in {<<"good">>, <<"bad">>, <<"bad", "good">>, <<"good", "raises">>}},
      or \in {<<>>, <<[path |-> <<b>>, values |-> <<"good">>], [path |-> <<s>>, values |-> <<"raises">>]>>},
      o \in {<<a, r, s, b>>, <<s, r, b, a>>}, ks \in {"router", "switch"}, k \in BOOLEAN }

PortConfigs ==
  { [Good EXCEPT !.kind[b] = "external", !.ports[a] = pa, !.ports[b] = pb,
                 !.expose[a] = xa, !.expose[b] = xb] :
      pa \in {{80}, {4317}}, pb \in SUBSET {80, 4317, 16686}, xa \in BOOLEAN, xb \in BOOLEAN }

MCConfigs == FormConfigs \cup OptionConfigs \cup PortConfigs \cup LinkConfigs
====
