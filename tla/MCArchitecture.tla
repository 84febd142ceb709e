---- MODULE MCArchitecture ----
(***************************************************************************)
(* Three end hosts a, b and x, three intermediaries r, q and f, and a      *)
(* router y whose name has the name of an option in it ("rate-limiter").   *)
(***************************************************************************)
EXTENDS Architecture

CONSTANTS a, b, x, r, q, f, y

Six == {a, b, x, r, q, f}
MCNames == Six \cup {y}
MCPorts == {1, 2, 3}

\* No name has an underscore, or r is "q_b" and x is "b_q".
PlainParts == a :> <<"a">> @@ b :> <<"b">> @@ x :> <<"x">> @@ r :> <<"r">> @@ q :> <<"q">> @@ f :> <<"f">> @@ y :> <<"y">>

NoVlans == [e \in Six |-> [n \in MCNames |-> 0]]

\* The neighbours a switch gives a vlan for.
Tagged(kind, vlan) == {n \in MCNames : kind = "switch" /\ vlan[n] # 0}

\* The neighbours of e the paths need.
NextIn(paths, e) ==
  UNION {{p[i + 1] : i \in {k \in 1 .. Len(p) - 1 : p[k] = e}} : p \in paths}

Config(order, kr, kq, kf, pa, pb, vlan) ==
  [ order     |-> order,
    kind      |-> a :> "service" @@ b :> "service" @@ x :> "external"
                    @@ r :> kr @@ q :> kq @@ f :> kf,
    form      |-> [e \in Six |-> "ok"],
    neighbors |-> [e \in Six |-> NextIn(pa \cup pb, e)
                     \cup (CASE e = r -> Tagged(kr, vlan[r]) [] e = q -> Tagged(kq, vlan[q])
                             [] e = f -> Tagged(kf, vlan[f]) [] OTHER -> {})],
    endpoints |-> a :> <<pa>> @@ b :> <<pb>> @@ [e \in {x, r, q, f} |-> <<>>],
    ports     |-> a :> {1} @@ b :> {2} @@ x :> {3} @@ [e \in {r, q, f} |-> {}],
    expose    |-> [e \in Six |-> TRUE],
    vlan      |-> [NoVlans EXCEPT ![r] = IF kr = "switch" THEN vlan[r] ELSE @,
                                  ![q] = IF kq = "switch" THEN vlan[q] ELSE @,
                                  ![f] = IF kf = "switch" THEN vlan[f] ELSE @],
    options   |-> [e \in Six |-> <<>>],
    rules     |-> [e \in Six |-> <<>>],
    default   |-> [e \in Six |-> "accept"],
    args      |-> [ip |-> 6, kubernetes |-> FALSE, jaeger |-> FALSE, ioam |-> TRUE, clt |-> FALSE] ]

PathsOfA == { <<b>>, <<r, b>>, <<f, b>>, <<r, f, b>>, <<r, q, b>>, <<q, f, b>>, <<r, q, f, b>>, <<r, x>>, <<q, f, x>> }
PathsOfB == { <<x>>, <<r, x>>, <<q, f, x>>, <<q, r, x>> }

\* Up to two connections of a and one of b, without switches.
RouterConfigs ==
  { Config(o, "router", "router", "firewall", {p1, p2}, pb, NoVlans) :
      o \in {<<a, b, x, r, q, f>>, <<f, x, b, q, a, r>>},
      p1 \in PathsOfA, p2 \in PathsOfA, pb \in {{}} \cup {{p} : p \in PathsOfB} }

\* A rate on the connection a->r->b, whose value is not the last field.
ImpairedConfigs ==
  { [Config(<<a, b, x, r, q, f>>, "router", "router", "firewall", {<<r, b>>}, pb, NoVlans)
       EXCEPT !.options[a] = <<[path |-> <<r, b>>, values |-> v]>>] :
      pb \in {{p} : p \in PathsOfB}, v \in {<<"bad", "good">>, <<"bad">>} }

\* a + "_" + x is b + "_" + r: "a_b_c".
UnderscoreParts ==
  a :> <<"a">> @@ b :> <<"a", "b">> @@ x :> <<"b", "c">> @@ r :> <<"c">> @@ q :> <<"q">> @@ f :> <<"f">> @@ y :> <<"y">>

\* The configurations with a connection of a, or of b, through y.
OptionConfigs ==
  { [Config(<<a, b, x, r, q, f>>, "router", "router", "firewall", pa, pb, NoVlans)
       EXCEPT !.order = Append(@, y), !.kind = y :> "router" @@ @, !.form = y :> "ok" @@ @,
              !.neighbors = y :> {b, x} @@ @, !.endpoints = y :> <<>> @@ @,
              !.ports = y :> {} @@ @, !.expose = y :> TRUE @@ @, !.vlan = y :> NoVlans[a] @@ @,
              !.options = y :> <<>> @@ @, !.rules = y :> <<>> @@ @, !.default = y :> "accept" @@ @] :
      pa \in {{<<y, b>>}, {<<r, b>>}}, pb \in {{<<y, x>>}, {<<x>>}} }

MCOptionNames == {y}

\* Vlans 10 and 20 on the switches: none; one per switch; one per neighbour.
Vlans == { NoVlans,
           [NoVlans EXCEPT ![q] = [n \in {a, b, r, f} |-> 10] @@ @, ![f] = [n \in {a, q, r, b} |-> 20] @@ @],
           [NoVlans EXCEPT ![r][a] = 30, ![r][q] = 30, ![q][a] = 10, ![q][f] = 20, ![f][q] = 20, ![f][b] = 10] }

\* Up to two connections of a and one of b, over one, two or three switches in line.
Switched(second, vlans) ==
  { Config(<<a, b, x, r, q, f>>, kr, kq, kf, {p1, p2}, pb, vlan) :
      kr \in {"router", "switch"}, kq \in {"switch", "router"},
      kf \in {"switch", "firewall"},
      p1 \in PathsOfA \cup {<<q, b>>, <<x>>}, p2 \in second,
      pb \in {{}, {<<r, x>>}}, vlan \in vlans }

SwitchConfigs ==
  Switched({<<r, b>>, <<r, q, f, b>>, <<q, f, b>>}, {NoVlans}) \cup Switched({<<r, q, f, b>>}, Vlans)
====
