---- MODULE ArchitectureProofs ----
(***************************************************************************)
(* Proofs about generate_architecture for any configurations and whatever  *)
(* the order in which it meets the connections: the dependencies can be    *)
(* started (CheckedInv), interfaces are numbered by attachment             *)
(* (NumberedInv), there is one network per segment (BuiltInv), gateways    *)
(* are on the link and no look-up fails (RoutedInv), hosts are reachable   *)
(* (HostsInv).                                                             *)
(***************************************************************************)
EXTENDS Architecture, TopologyProofs, ListsProofs, SequenceTheorems

\* The steps of generate_architecture leave the configuration alone.
LEMMA StepKeepsConfig == Step => cfg' = cfg
<1>1. Check => cfg' = cfg BY DEF Check
<1>2. TakeConnection => cfg' = cfg BY DEF TakeConnection
<1>3. AddL3 => cfg' = cfg BY DEF AddL3
<1>4. AddL2 => cfg' = cfg BY DEF AddL2
<1>5. NetworksDone \/ RoutesDone \/ HostsDone => cfg' = cfg BY DEF NetworksDone, RoutesDone, HostsDone
<1>6. IpRoutePathConnection => cfg' = cfg BY DEF IpRoutePathConnection
<1>7. ServiceHosts => cfg' = cfg BY DEF ServiceHosts
<1>8. FirewallHosts => cfg' = cfg BY DEF FirewallHosts
<1>9. AssociateDependencies \/ AdditionalCmds => cfg' = cfg BY DEF AssociateDependencies, AdditionalCmds
<1> QED BY <1>1, <1>2, <1>3, <1>4, <1>5, <1>6, <1>7, <1>8, <1>9 DEF Step

----
(***************************************************************************)
(* Dependencies.                                                           *)
(***************************************************************************)
\* What is behind each phase.
CheckedInv ==
  /\ cfg \in Configs
  /\ phase \notin {"check", "rejected"} => CheckConfig(cfg)
  /\ DOMAIN depends = Entities(cfg)
  /\ phase \in {"additional", "done"} => depends = [e \in Entities(cfg) |-> DependsOn(cfg, e)]

\* Behind the first phase the configuration is one check_config accepts.
LEMMA CheckedInvariant == Spec => []CheckedInv
<1>1. Init => CheckedInv
  BY DEF Init, CheckedInv
<1>2. CheckedInv /\ [Next]_vars => CheckedInv'
  <2> SUFFICES ASSUME CheckedInv, [Next]_vars PROVE CheckedInv'
    OBVIOUS
  <2> USE DEF CheckedInv
  <2>1. CASE Check BY <2>1 DEF Check
  <2>2. CASE TakeConnection BY <2>2 DEF TakeConnection
  <2>3. CASE AddL3 BY <2>3 DEF AddL3
  <2>4. CASE AddL2 BY <2>4 DEF AddL2
  <2>5. CASE NetworksDone BY <2>5 DEF NetworksDone, LoopEnds
  <2>6. CASE IpRoutePathConnection BY <2>6 DEF IpRoutePathConnection
  <2>7. CASE RoutesDone BY <2>7 DEF RoutesDone, LoopEnds
  <2>8. CASE ServiceHosts BY <2>8 DEF ServiceHosts
  <2>9. CASE FirewallHosts BY <2>9 DEF FirewallHosts
  <2>10. CASE HostsDone BY <2>10 DEF HostsDone, LoopEnds
  <2>11. CASE AssociateDependencies BY <2>11 DEF AssociateDependencies
  <2>12. CASE AdditionalCmds BY <2>12 DEF AdditionalCmds
  <2>13. CASE UNCHANGED vars BY <2>13 DEF vars
  <2> QED BY <2>1, <2>2, <2>3, <2>4, <2>5, <2>6, <2>7, <2>8, <2>9, <2>10, <2>11, <2>12, <2>13
          DEF Next, Step, Terminated
<1> QED BY <1>1, <1>2, PTL DEF Spec

\* docker compose can start the containers of every accepted configuration: depends_on has
\* no circle and names only containers that exist (Architecture.associate_dependencies).
THEOREM DependenciesStartableTheorem == Spec => []DependenciesStartable
<1>1. CheckedInv => DependenciesStartable
  <2> SUFFICES ASSUME CheckedInv, phase \in {"additional", "done"}
               PROVE  /\ \A e \in Entities(cfg) : depends[e] \subseteq Entities(cfg)
                      /\ Acyclic(Entities(cfg), UNION {{e} \X depends[e] : e \in Entities(cfg)})
    BY DEF DependenciesStartable
  <2>1. IsConfig(cfg) /\ CheckConfig(cfg) BY ConfigsAssumption DEF CheckedInv
  <2>2. \A e \in Entities(cfg) : depends[e] = DependsOn(cfg, e) BY DEF CheckedInv
  <2>3. UNION {{e} \X depends[e] : e \in Entities(cfg)}
          = UNION {{e} \X DependsOn(cfg, e) : e \in Entities(cfg)} BY <2>2
  <2> QED BY <2>1, <2>2, <2>3, DependenciesAcyclic
<1> QED BY <1>1, CheckedInvariant, PTL

----
(***************************************************************************)
(* Interface numbers.                                                      *)
(***************************************************************************)
NumberedInv ==
  /\ networks \in Seq(Range(networks))
  /\ attached \in [Entities(cfg) -> Seq(Nat)]
  /\ AttachedInOrder

\* What appending does.
LEMMA AppendShape ==
  ASSUME NEW S, NEW s \in Seq(S), NEW t
  PROVE  /\ Append(s, t) \in Seq(S \cup {t})
         /\ Len(Append(s, t)) = Len(s) + 1 /\ Len(s) \in Nat
         /\ DOMAIN s = 1 .. Len(s) /\ DOMAIN Append(s, t) = 1 .. Len(s) + 1
         /\ \A i \in 1 .. Len(s) : Append(s, t)[i] = s[i]
         /\ Append(s, t)[Len(s) + 1] = t
<1>1. s \in Seq(S \cup {t}) OBVIOUS
<1> QED BY <1>1

\* A list that is one longer has one member more.
LEMMA LongerRange ==
  ASSUME NEW s, NEW t, NEW m \in Nat, DOMAIN s = 1 .. m, DOMAIN t = 1 .. m + 1,
         \A i \in 1 .. m : t[i] = s[i]
  PROVE  Range(t) = Range(s) \cup {t[m + 1]}
<1>1. ASSUME NEW i \in 1 .. m + 1 PROVE t[i] \in Range(s) \cup {t[m + 1]}
  <2>1. i \in 1 .. m \/ i = m + 1 OBVIOUS
  <2> QED BY <2>1 DEF Range
<1>2. ASSUME NEW i \in 1 .. m PROVE s[i] \in Range(t)
  <2>1. i \in 1 .. m + 1 /\ t[i] = s[i] OBVIOUS
  <2> QED BY <2>1 DEF Range
<1>3. t[m + 1] \in Range(t)
  <2>1. m + 1 \in 1 .. m + 1 OBVIOUS
  <2> QED BY <2>1 DEF Range
<1>4. \A u \in Range(t) : u \in Range(s) \cup {t[m + 1]} BY <1>1 DEF Range
<1>5. \A u \in Range(s) : u \in Range(t) BY <1>2 DEF Range
<1> QED BY <1>3, <1>4, <1>5

\* A sequence is a sequence of its own members, and so is a longer one.
LEMMA AppendRange ==
  ASSUME NEW s, s \in Seq(Range(s)), NEW t
  PROVE  /\ Append(s, t) \in Seq(Range(Append(s, t)))
         /\ Range(Append(s, t)) = Range(s) \cup {t}
<1> DEFINE longer == Append(s, t)
<1>1. /\ longer \in Seq(Range(s) \cup {t}) /\ Len(s) \in Nat
      /\ DOMAIN s = 1 .. Len(s) /\ DOMAIN longer = 1 .. Len(s) + 1
      /\ \A i \in 1 .. Len(s) : longer[i] = s[i]
      /\ longer[Len(s) + 1] = t
  BY AppendShape
<1> HIDE DEF longer
<1>2. Range(longer) = Range(s) \cup {longer[Len(s) + 1]}
  BY <1>1, LongerRange
<1> QED BY <1>1, <1>2 DEF longer

\* A network gets the next number, and each entity on it the next interface.
LEMMA CreateKeepsNumbered ==
  ASSUME NumberedInv, NEW net, Create(net), cfg' = cfg
  PROVE  NumberedInv'
<1>1. CASE UNCHANGED <<networks, attached>>
  BY <1>1 DEF NumberedInv, AttachedInOrder
<1>2. CASE /\ networks' = Append(networks, net)
           /\ attached' = [e \in DOMAIN attached |->
                IF e \in Range(net.hops) THEN Append(attached[e], Len(networks) + 1)
                ELSE attached[e]]
  <2> DEFINE n == Len(networks)
  <2>1. /\ n \in Nat /\ DOMAIN networks = 1 .. n /\ DOMAIN networks' = 1 .. n + 1
        /\ \A k \in 1 .. n : networks'[k] = networks[k]
        /\ networks'[n + 1] = net
    BY <1>2, AppendShape DEF NumberedInv
  <2>2. networks' \in Seq(Range(networks'))
    BY <1>2, AppendRange DEF NumberedInv
  <2>3. attached' \in [Entities(cfg) -> Seq(Nat)]
    <3>1. \A e \in Entities(cfg) : attached[e] \in Seq(Nat) BY DEF NumberedInv
    <3>2. \A e \in Entities(cfg) : Append(attached[e], n + 1) \in Seq(Nat) BY <2>1, <3>1
    <3> QED BY <1>2, <3>1, <3>2 DEF NumberedInv
  <2> HIDE DEF n
  <2>4. ASSUME NEW e \in Entities(cfg)
        PROVE  /\ Range(attached'[e]) = {k \in DOMAIN networks' : e \in Range(networks'[k].hops)}
               /\ \A i, j \in DOMAIN attached'[e] : i < j => attached'[e][i] < attached'[e][j]
    <3>1. /\ attached[e] \in Seq(Nat)
          /\ Range(attached[e]) = {k \in 1 .. n : e \in Range(networks[k].hops)}
          /\ \A i, j \in DOMAIN attached[e] : i < j => attached[e][i] < attached[e][j]
      BY <2>1 DEF NumberedInv, AttachedInOrder
    <3>2. {k \in DOMAIN networks' : e \in Range(networks'[k].hops)}
            = {k \in 1 .. n : e \in Range(networks[k].hops)} \cup (IF e \in Range(net.hops) THEN {n + 1} ELSE {})
      BY <2>1
    <3>3. CASE e \notin Range(net.hops)
      <4>1. attached'[e] = attached[e] BY <1>2, <3>3 DEF NumberedInv
      <4> QED BY <4>1, <3>1, <3>2, <3>3
    <3>4. CASE e \in Range(net.hops)
      <4>1. attached'[e] = Append(attached[e], n + 1) BY <1>2, <3>4 DEF NumberedInv, n
      <4> DEFINE m == Len(attached[e])
      <4>2. /\ m \in Nat /\ DOMAIN attached[e] = 1 .. m /\ DOMAIN attached'[e] = 1 .. m + 1
            /\ \A i \in 1 .. m : attached'[e][i] = attached[e][i]
            /\ attached'[e][m + 1] = n + 1
        BY <3>1, <4>1, AppendShape
      <4> HIDE DEF m
      <4>3. Range(attached'[e]) = Range(attached[e]) \cup {n + 1}
        <5> DEFINE s == attached[e]
                   t == attached'[e]
        <5>1. /\ m \in Nat /\ DOMAIN s = 1 .. m /\ DOMAIN t = 1 .. m + 1
              /\ \A i \in 1 .. m : t[i] = s[i]
              /\ t[m + 1] = n + 1
          BY <4>2
        <5>2. ASSUME NEW u, NEW v, DOMAIN u = 1 .. m, DOMAIN v = 1 .. m + 1,
                     \A i \in 1 .. m : v[i] = u[i]
              PROVE  Range(v) = Range(u) \cup {v[m + 1]}
          BY <5>1, <5>2, LongerRange
        <5> HIDE DEF s, t
        <5>3. Range(t) = Range(s) \cup {t[m + 1]} BY <5>1, <5>2
        <5>4. Range(t) = Range(s) \cup {n + 1} BY <5>1, <5>3
        <5> QED BY <5>4 DEF s, t
      <4>4. \A i \in 1 .. m : attached[e][i] \in 1 .. n BY <3>1, <4>2 DEF Range
      <4>5. ASSUME NEW i \in 1 .. m + 1, NEW j \in 1 .. m + 1, i < j
            PROVE  attached'[e][i] < attached'[e][j]
        <5>1. CASE j = m + 1 BY <5>1, <4>5, <4>2, <4>4, <2>1
        <5>2. CASE j # m + 1
          <6>1. i \in 1 .. m /\ j \in 1 .. m BY <5>2, <4>5, <4>2
          <6>2. i \in DOMAIN attached[e] /\ j \in DOMAIN attached[e] BY <6>1, <4>2
          <6>3. attached[e][i] < attached[e][j] BY <6>2, <4>5, <3>1
          <6> QED BY <6>1, <6>3, <4>2
        <5> QED BY <5>1, <5>2
      <4> QED BY <3>1, <3>2, <3>4, <4>2, <4>3, <4>5
    <3> QED BY <3>3, <3>4
  <2> QED BY <2>2, <2>3, <2>4 DEF NumberedInv, AttachedInOrder
<1> QED BY <1>1, <1>2 DEF Create

\* Positions stay as they are when a network is created.
LEMMA NumberedInvariant == Spec => []NumberedInv
<1>1. Init => NumberedInv
  <2> SUFFICES ASSUME Init PROVE NumberedInv
    OBVIOUS
  <2>1. networks = <<>> /\ attached = [e \in Entities(cfg) |-> <<>>] BY DEF Init
  <2>2. DOMAIN networks = {} /\ \A e \in Entities(cfg) : DOMAIN attached[e] = {} BY <2>1
  <2>3. networks \in Seq(Range(networks)) /\ attached \in [Entities(cfg) -> Seq(Nat)] BY <2>1
  <2> QED BY <2>2, <2>3 DEF NumberedInv, AttachedInOrder, Range
<1>2. NumberedInv /\ [Next]_vars => NumberedInv'
  <2> SUFFICES ASSUME NumberedInv, [Next]_vars PROVE NumberedInv'
    OBVIOUS
  <2>1. CASE AddL3
    <3>1. PICK net : Create(net) BY <2>1 DEF AddL3
    <3>2. cfg' = cfg BY <2>1 DEF AddL3
    <3> QED BY <3>1, <3>2, CreateKeepsNumbered
  <2>2. CASE AddL2
    <3>1. PICK net : Create(net) BY <2>2 DEF AddL2
    <3>2. cfg' = cfg BY <2>2 DEF AddL2
    <3> QED BY <3>1, <3>2, CreateKeepsNumbered
  <2>3. CASE UNCHANGED <<cfg, networks, attached>>
    BY <2>3 DEF NumberedInv, AttachedInOrder
  <2>4. Check \/ TakeConnection \/ NetworksDone \/ RoutesDone \/ HostsDone => UNCHANGED <<cfg, networks, attached>>
    BY DEF Check, TakeConnection, NetworksDone, RoutesDone, HostsDone
  <2>5. IpRoutePathConnection \/ ServiceHosts \/ FirewallHosts => UNCHANGED <<cfg, networks, attached>>
    BY DEF IpRoutePathConnection, ServiceHosts, FirewallHosts
  <2>6. AssociateDependencies \/ AdditionalCmds \/ UNCHANGED vars => UNCHANGED <<cfg, networks, attached>>
    BY DEF AssociateDependencies, AdditionalCmds, vars
  <2> QED BY <2>1, <2>2, <2>3, <2>4, <2>5, <2>6 DEF Next, Step, Terminated
<1> QED BY <1>1, <1>2, PTL DEF Spec

\* The number of an interface (ethN) is the position of its network in attached_networks:
\* each entity lists every network it has an interface on, once, in the order of their
\* creation, in whatever order the connections are taken (Architecture.generate_networks).
THEOREM AttachedInOrderTheorem == Spec => []AttachedInOrder
<1>1. NumberedInv => AttachedInOrder BY DEF NumberedInv
<1> QED BY <1>1, NumberedInvariant, PTL

----
(***************************************************************************)
(* The end-to-end connections of an accepted configuration.                *)
(***************************************************************************)
\* A connection of c as the loops of generate_architecture may rely on it.
IsRoute(c, h) ==
  /\ h \in Seq(Entities(c)) /\ Len(h) >= 2
  /\ \A i, j \in DOMAIN h : h[i] = h[j] => i = j
  /\ c.kind[h[1]] \in EndHost /\ c.kind[h[Len(h)]] \in EndHost
  /\ \A i \in 2 .. Len(h) - 1 : c.kind[h[i]] \in Intermediary

\* The end-to-end connections of a configuration that was accepted are routes.
LEMMA E2eAreRoutes ==
  ASSUME NEW c, IsConfig(c), CheckConfig(c), NEW h \in AllE2e(c)
  PROVE  IsRoute(c, h)
<1>1. PICK e \in Entities(c) : c.kind[e] \in EndHost /\ \E p \in ExtractConnections(c, e) : h = Hops(e, p)
  BY DEF AllE2e
<1>2. PICK p \in ExtractConnections(c, e) : h = Hops(e, p)
  BY <1>1
<1>3. p \in Seq(Names) /\ p # <<>>
  BY ConnectionsType
<1>4. /\ DOMAIN h = 1 .. Len(p) + 1 /\ Len(h) = Len(p) + 1 /\ Len(p) \in Nat \ {0}
      /\ h[1] = e
  BY <1>2, <1>3, HopsShape
<1>5. ConnectivityPossible(c) /\ Acyclic(Entities(c), Graph(c))
  BY DEF CheckConfig, NoCycles
<1>6. /\ \A i \in DOMAIN h : h[i] \in Entities(c)
      /\ c.kind[h[Len(h)]] \in EndHost
      /\ \A i \in 2 .. Len(h) - 1 : c.kind[h[i]] \in Intermediary
  BY <1>1, <1>2, <1>5, HopsPossible
<1>7. h \in Seq(Entities(c))
  <2>1. h \in Seq({e} \cup Names) BY <1>2, <1>3 DEF Hops
  <2> QED BY <2>1, <1>4, <1>6
<1>8. \A k \in 1 .. Len(h) - 1 : <<h[k], h[k + 1]>> \in Graph(c)
  BY <1>1, <1>2, HopsInGraph
<1>9. \A i, j \in DOMAIN h : h[i] = h[j] => i = j
  BY <1>5, <1>7, <1>8, WalksAreSimple
<1>10. Len(h) >= 2 BY <1>4
<1> QED BY <1>1, <1>4, <1>6, <1>7, <1>9, <1>10 DEF IsRoute

\* Ends are not switches, and intermediaries are no ends.
LEMMA RouteFacts ==
  ASSUME NEW c, NEW h, IsRoute(c, h)
  PROVE  /\ Len(h) \in Nat /\ DOMAIN h = 1 .. Len(h)
         /\ \A i \in 1 .. Len(h) : h[i] \in Entities(c)
         /\ ~IsSwitch(c, h[1]) /\ ~IsSwitch(c, h[Len(h)])
         /\ \A i \in 1 .. Len(h) : c.kind[h[i]] \in EndHost => i \in {1, Len(h)}
BY DEF IsRoute, IsSwitch, EndHost, Intermediary

\* The look ahead over switches ends: at the latest at the end of the connection.
LEMMA NextL3Exists ==
  ASSUME NEW c, NEW h, IsRoute(c, h), NEW i \in 1 .. Len(h) - 1
  PROVE  /\ NextL3(c, h, i) \in i + 1 .. Len(h)
         /\ ~IsSwitch(c, h[NextL3(c, h, i)])
         /\ \A k \in i + 1 .. NextL3(c, h, i) - 1 : IsSwitch(c, h[k])
<1> DEFINE T == {j \in i + 1 .. Len(h) : ~IsSwitch(c, h[j])}
<1>1. T \subseteq Nat /\ Len(h) \in T BY RouteFacts
<1>2. PICK j \in T : \A y \in T : j <= y BY <1>1, SmallestExists
<1>3. \A k \in i + 1 .. j - 1 : IsSwitch(c, h[k]) BY <1>1, <1>2, RouteFacts
<1>4. j \in i + 1 .. Len(h) /\ ~IsSwitch(c, h[j]) BY <1>2
<1> QED BY <1>3, <1>4 DEF NextL3

\* And so does the look back.
LEMMA PrevL3Exists ==
  ASSUME NEW c, NEW h, IsRoute(c, h), NEW i \in 2 .. Len(h)
  PROVE  /\ PrevL3(c, h, i) \in 1 .. i - 1
         /\ ~IsSwitch(c, h[PrevL3(c, h, i)])
         /\ \A k \in PrevL3(c, h, i) + 1 .. i - 1 : IsSwitch(c, h[k])
<1> DEFINE T == {n \in 1 .. i - 1 : ~IsSwitch(c, h[i - n])}
<1>1. Len(h) \in Nat /\ i \in Nat /\ ~IsSwitch(c, h[1]) BY RouteFacts
<1>2. T \subseteq Nat /\ i - 1 \in T BY <1>1
<1>3. PICK n \in T : \A y \in T : n <= y BY <1>2, SmallestExists
<1> DEFINE j == i - n
<1>4. j \in 1 .. i - 1 /\ ~IsSwitch(c, h[j]) BY <1>1, <1>3
<1>5. ASSUME NEW k \in j + 1 .. i - 1 PROVE IsSwitch(c, h[k])
  <2>1. n \in Nat /\ i - k \in 1 .. i - 1 /\ i - k < n /\ i - (i - k) = k BY <1>1, <1>3
  <2>2. i - k \notin T
    <3> HIDE DEF T
    <3>1. i - k \in T => n <= i - k BY <1>3
    <3> QED BY <2>1, <3>1
  <2>3. IsSwitch(c, h[i - (i - k)]) BY <2>1, <2>2
  <2> QED BY <2>1, <2>3
<1> HIDE DEF j
<1> QED BY <1>4, <1>5 DEF PrevL3

\* A hop that is not a switch is the next one from the one before it.
LEMMA NextOfPrev ==
  ASSUME NEW c, NEW h, IsRoute(c, h), NEW i \in 2 .. Len(h), ~IsSwitch(c, h[i])
  PROVE  NextL3(c, h, PrevL3(c, h, i)) = i
<1> DEFINE p == PrevL3(c, h, i)
           n == NextL3(c, h, p)
<1>1. /\ p \in 1 .. i - 1 /\ ~IsSwitch(c, h[p])
      /\ \A k \in p + 1 .. i - 1 : IsSwitch(c, h[k])
  BY PrevL3Exists
<1>2. p \in 1 .. Len(h) - 1 /\ Len(h) \in Nat BY <1>1, RouteFacts
<1>3. /\ n \in p + 1 .. Len(h) /\ ~IsSwitch(c, h[n])
      /\ \A k \in p + 1 .. n - 1 : IsSwitch(c, h[k])
  BY <1>2, NextL3Exists
<1> HIDE DEF p, n
<1>4. ~(n < i) BY <1>1, <1>2, <1>3
<1>5. ~(i < n) BY <1>1, <1>2, <1>3
<1>6. n = i BY <1>1, <1>2, <1>3, <1>4, <1>5
<1> QED BY <1>6 DEF n, p
----
(***************************************************************************)
(* Segments and networks.                                                  *)
(***************************************************************************)
\* What a network joins: two entities, with nothing but switches between them.
IsSegment(c, x) ==
  /\ x \in Seq(Entities(c)) /\ Len(x) >= 2
  /\ \A i, j \in DOMAIN x : x[i] = x[j] => i = j
  /\ ~IsSwitch(c, x[1]) /\ ~IsSwitch(c, x[Len(x)])
  /\ \A i \in 2 .. Len(x) - 1 : IsSwitch(c, x[i])

\* Where the segments of a connection start.
Starts(c, h) == L3Positions(c, h) \ {Len(h)}
SegmentAt(c, h, i) == SubSeq(h, i, NextL3(c, h, i))

\* The hops from one that is no switch to the next such one are a segment.
LEMMA SegmentShape ==
  ASSUME NEW c, NEW h, IsRoute(c, h), NEW i \in Starts(c, h)
  PROVE  /\ i \in 1 .. Len(h) - 1 /\ ~IsSwitch(c, h[i])
         /\ LET j == NextL3(c, h, i)
                x == SegmentAt(c, h, i)
            IN  /\ Len(x) = j - i + 1 /\ DOMAIN x = 1 .. j - i + 1
                /\ \A k \in 1 .. j - i + 1 : x[k] = h[k + i - 1]
                /\ IsSegment(c, x)
<1> DEFINE j == NextL3(c, h, i)
           x == SegmentAt(c, h, i)
<1>1. /\ Len(h) \in Nat /\ DOMAIN h = 1 .. Len(h) /\ h \in Seq(Entities(c))
      /\ \A k, m \in DOMAIN h : h[k] = h[m] => k = m
  BY RouteFacts DEF IsRoute
<1>2. i \in 1 .. Len(h) - 1 /\ ~IsSwitch(c, h[i]) BY <1>1 DEF Starts, L3Positions
<1>3. /\ j \in i + 1 .. Len(h) /\ ~IsSwitch(c, h[j])
      /\ \A k \in i + 1 .. j - 1 : IsSwitch(c, h[k])
  BY <1>2, NextL3Exists
<1> HIDE DEF j
<1>4. /\ x = SubSeq(h, i, j)
      /\ Len(x) = j - i + 1 /\ DOMAIN x = 1 .. j - i + 1
      /\ \A k \in 1 .. j - i + 1 : x[k] = h[k + i - 1]
      /\ x \in Seq(Entities(c))
  <2>1. x = SubSeq(h, i, j)
    BY DEF SegmentAt, j
  <2>2. i \in 1 .. Len(h) /\ j \in 1 .. Len(h) /\ i <= j
    BY <1>1, <1>2, <1>3
  <2> HIDE DEF x
  <2>3. Len(x) = j - i + 1 /\ DOMAIN x = 1 .. j - i + 1
    BY <1>1, <2>1, <2>2
  <2>4. \A k \in 1 .. j - i + 1 : x[k] = h[k + i - 1]
    BY <1>1, <2>1, <2>2
  <2>5. x \in Seq(Entities(c))
    BY <1>1, <2>1, <2>2
  <2>6. QED
    BY <2>1, <2>3, <2>4, <2>5
<1> HIDE DEF x
<1>5. ASSUME NEW k \in DOMAIN x, NEW m \in DOMAIN x, x[k] = x[m] PROVE k = m
  <2>1. k \in 1 .. j - i + 1 /\ m \in 1 .. j - i + 1
    BY <1>4
  <2>2. i \in Int /\ j \in Int /\ 1 <= i /\ j <= Len(h) /\ Len(h) \in Int
    BY <1>1, <1>2, <1>3
  <2>3. /\ k + i - 1 \in 1 .. Len(h) /\ m + i - 1 \in 1 .. Len(h)
        /\ k \in Int /\ m \in Int /\ i \in Int
    BY <2>1, <2>2
  <2>4. h[k + i - 1] = h[m + i - 1]
    BY <1>4, <1>5, <2>1
  <2>5. k + i - 1 = m + i - 1
    BY <1>1, <2>3, <2>4
  <2>6. QED
    BY <2>3, <2>5
<1>6. x[1] = h[i] /\ x[Len(x)] = h[j] BY <1>2, <1>3, <1>4
<1>7. \A k \in 2 .. Len(x) - 1 : IsSwitch(c, x[k]) BY <1>2, <1>3, <1>4
<1>8. IsSegment(c, x) BY <1>2, <1>3, <1>4, <1>5, <1>6, <1>7 DEF IsSegment
<1> QED BY <1>2, <1>4, <1>8 DEF j, x

NetworkRecords(c) ==
  [ name : Seq(Words), layer : {2, 3}, hops : Seq(Entities(c)), vlans : Seq(Nat) ]

\* The network n is made for the segment of h that starts at i.
MadeFor(c, n, h, i) ==
  LET j == NextL3(c, h, i) IN
  /\ n.hops = SegmentAt(c, h, i)
  /\ n.name = NetName(n.hops)
  /\ n.layer = IF j = i + 1 THEN 3 ELSE 2
  /\ n.vlans = IF j = i + 1 THEN <<0, 0>>
               ELSE [k \in 1 .. j - i + 1 |-> InterfaceVlan(c, h, j, k + i - 1)]

NetworksOf(c) ==
  {n \in NetworkRecords(c) : \E h \in AllE2e(c) : \E i \in Starts(c, h) : MadeFor(c, n, h, i)}

\* The name of a network is made of words.
LEMMA NamesType ==
  ASSUME NEW b \in Names, NEW e \in Names
  PROVE  L3Name(b, e) \in Seq(Words) /\ L2Name(b) \in Seq(Words)
<1>1. ASSUME NEW n \in Names PROVE Parts[n] \in Seq(Words)
  <2>1. Parts[n] \in Seq(STRING) BY PartsAssumption
  <2>2. \A k \in DOMAIN Parts[n] : Parts[n][k] \in Words BY DEF Words, Range
  <2> QED BY <2>1, <2>2
<1>2. <<"network">> \in Seq(Words) /\ <<"network", "switch">> \in Seq(Words) BY DEF Words
<1> QED BY <1>1, <1>2 DEF L3Name, L2Name

\* Every vlan id of a network is a number.
LEMMA VlansType ==
  ASSUME NEW c, IsConfig(c), NEW h, IsRoute(c, h), NEW j, NEW k \in 1 .. Len(h)
  PROVE  InterfaceVlan(c, h, j, k) \in Nat
<1>0. /\ \A m \in DOMAIN h : h[m] \in Entities(c)
      /\ k \in DOMAIN h /\ Entities(c) \subseteq Names
  <2>1. DOMAIN h = 1 .. Len(h) /\ \A m \in DOMAIN h : h[m] \in Entities(c) BY RouteFacts
  <2>2. Entities(c) \subseteq Names BY DEF IsConfig, Entities
  <2> QED BY <2>1, <2>2
<1>1. \A m \in DOMAIN h, e \in Names : c.vlan[h[m]][e] \in Nat
  <2>1. \A a \in Entities(c), e \in Names : c.vlan[a][e] \in Nat BY DEF IsConfig, Entities
  <2> QED BY <1>0, <2>1
<1>2. h[k] \in Names BY <1>0
<1>3. \A m : VlanAt(c, h, m, h[k]) \in Nat BY <1>1, <1>2 DEF VlanAt
<1> QED BY <1>3 DEF InterfaceVlan

----
(***************************************************************************)
(* generate_networks: BuiltInv.                                            *)
(***************************************************************************)
\* Where the loop over the connections is.
Located ==
  IF phase = "networks"
  THEN \/ conn = <<>> /\ pos = 0
       \/ conn \in AllE2e(cfg) /\ pos \in 1 .. Len(conn) /\ ~IsSwitch(cfg, conn[pos])
  ELSE conn = <<>> /\ pos = 0

\* There is a network with the name the segment of h that starts at i asks for.
Named(h, i) ==
  \E k \in DOMAIN networks : networks[k].name = NetName(SegmentAt(cfg, h, i))

\* What is behind the loop has its networks: all of a connection taken before, and of
\* the one being parsed what is before pos.
Behind ==
  CASE phase = "networks" ->
         \A w \in done : \A i \in Starts(cfg, w[2]) : (w[2] = conn /\ pos <= i) \/ Named(w[2], i)
    [] phase \in {"check", "rejected"} -> TRUE
    [] OTHER -> \A h \in AllE2e(cfg) : \A i \in Starts(cfg, h) : Named(h, i)

BuiltInv ==
  /\ networks \in Seq(NetworksOf(cfg))
  /\ \A k, m \in DOMAIN networks : networks[k].name = networks[m].name => k = m
  /\ phase \in {"check", "rejected"} => networks = <<>> /\ done = {}
  /\ done \subseteq Entities(cfg) \X AllE2e(cfg)
  /\ phase \in Phases \cup Outcomes
  /\ Located
  /\ Behind

\* A network is added behind the others, or one has its name already.
LEMMA CreateAdds ==
  ASSUME NEW S, networks \in Seq(S), NEW net \in S, Create(net),
         \A k, m \in DOMAIN networks : networks[k].name = networks[m].name => k = m
  PROVE  /\ networks' \in Seq(S)
         /\ \A k, m \in DOMAIN networks' : networks'[k].name = networks'[m].name => k = m
         /\ \A k \in DOMAIN networks : k \in DOMAIN networks' /\ networks'[k] = networks[k]
         /\ \E k \in DOMAIN networks' : networks'[k].name = net.name
<1>1. CASE \E k \in DOMAIN networks : networks[k].name = net.name
  BY <1>1 DEF Create
<1>2. CASE ~\E k \in DOMAIN networks : networks[k].name = net.name
  <2>1. networks' = Append(networks, net) BY <1>2 DEF Create
  <2>2. /\ Len(networks) \in Nat /\ DOMAIN networks = 1 .. Len(networks)
        /\ DOMAIN networks' = 1 .. Len(networks) + 1
        /\ \A i \in 1 .. Len(networks) : networks'[i] = networks[i]
        /\ networks'[Len(networks) + 1] = net
    BY <2>1, AppendShape
  <2>3. networks' \in Seq(S) BY <2>1
  <2>4. \A k, m \in DOMAIN networks' : networks'[k].name = networks'[m].name => k = m
    <3> SUFFICES ASSUME NEW k \in DOMAIN networks', NEW m \in DOMAIN networks',
                        networks'[k].name = networks'[m].name
                 PROVE  k = m
      OBVIOUS
    <3>1. k \in DOMAIN networks \/ k = Len(networks) + 1 BY <2>2
    <3>2. m \in DOMAIN networks \/ m = Len(networks) + 1 BY <2>2
    <3> QED BY <3>1, <3>2, <2>2, <1>2
  <2> QED BY <2>2, <2>3, <2>4
<1> QED BY <1>1, <1>2

\* The connections of the configuration may be relied on.
LEMMA Relied ==
  ASSUME CheckedInv, phase \notin {"check", "rejected"}
  PROVE  IsConfig(cfg) /\ CheckConfig(cfg) /\ \A h \in AllE2e(cfg) : IsRoute(cfg, h)
BY ConfigsAssumption, E2eAreRoutes DEF CheckedInv

\* One segment of the connection being parsed gets its network.
LEMMA AdvanceKeepsBuilt ==
  ASSUME CheckedInv, BuiltInv, phase = "networks", pos < Len(conn),
         NEW net \in NetworkRecords(cfg), MadeFor(cfg, net, conn, pos), Create(net),
         pos' = NextL3(cfg, conn, pos), UNCHANGED <<cfg, phase, done, conn>>
  PROVE  BuiltInv'
<1>1. conn \in AllE2e(cfg) /\ pos \in 1 .. Len(conn) /\ ~IsSwitch(cfg, conn[pos])
  BY DEF BuiltInv, Located
<1>2. IsRoute(cfg, conn) /\ Len(conn) \in Nat /\ DOMAIN conn = 1 .. Len(conn)
  BY <1>1, Relied, RouteFacts
<1>3. pos \in Starts(cfg, conn) /\ pos \in 1 .. Len(conn) - 1
  <2>1. pos \in 1 .. Len(conn) - 1 BY <1>1, <1>2
  <2>2. pos \in DOMAIN conn BY <1>1, <1>2, Zenon
  <2>3. pos # Len(conn)
    <3>1. \A m, n \in Int : m \in 1 .. n - 1 => m # n OBVIOUS
    <3>2. pos \in Int /\ Len(conn) \in Int BY <1>2, <2>1
    <3> QED BY <2>1, <3>1, <3>2, Zenon
  <2> QED BY <1>1, <2>1, <2>2, <2>3 DEF Starts, L3Positions
<1>4. /\ pos' \in pos + 1 .. Len(conn) /\ ~IsSwitch(cfg, conn[pos'])
      /\ \A k \in pos + 1 .. pos' - 1 : IsSwitch(cfg, conn[k])
  BY <1>2, <1>3, NextL3Exists
<1>5. net \in NetworksOf(cfg) BY <1>1, <1>3 DEF NetworksOf
<1>6. /\ networks' \in Seq(NetworksOf(cfg))
      /\ \A k, m \in DOMAIN networks' : networks'[k].name = networks'[m].name => k = m
      /\ \A k \in DOMAIN networks : k \in DOMAIN networks' /\ networks'[k] = networks[k]
      /\ \E k \in DOMAIN networks' : networks'[k].name = net.name
  BY <1>5, CreateAdds DEF BuiltInv
<1>7. \E k \in DOMAIN networks' : networks'[k].name = NetName(SegmentAt(cfg, conn, pos))
  BY <1>6 DEF MadeFor
<1>8. ASSUME NEW h, NEW i, Named(h, i) PROVE Named(h, i)'
  BY <1>6, <1>8 DEF Named
<1>9. Behind'
  <2> SUFFICES ASSUME NEW w \in done, NEW i \in Starts(cfg, w[2]),
                      ~(w[2] = conn /\ pos' <= i)
               PROVE  Named(w[2], i)'
    BY DEF Behind
  <2>1. CASE w[2] = conn /\ pos <= i
    <3>1. i \in 1 .. Len(conn) /\ ~IsSwitch(cfg, conn[i]) BY <1>2, <2>1 DEF Starts, L3Positions
    <3>2. i = pos BY <1>3, <1>4, <2>1, <3>1
    <3>3. \E k \in DOMAIN networks' : networks'[k].name = NetName(SegmentAt(cfg, w[2], i))
      BY <3>2, <2>1, <1>7
    <3> QED BY <3>3 DEF Named
  <2>2. CASE Named(w[2], i) BY <2>2, <1>8
  <2> QED BY <2>1, <2>2 DEF BuiltInv, Behind
<1>10. Located' BY <1>1, <1>2, <1>3, <1>4 DEF Located
<1> QED BY <1>6, <1>9, <1>10 DEF BuiltInv

\* Two neighbours of a list.
LEMMA PairOfSubSeq ==
  ASSUME NEW S, NEW s \in Seq(S), NEW i \in 1 .. Len(s) - 1
  PROVE  SubSeq(s, i, i + 1) = <<s[i], s[i + 1]>>
<1> DEFINE t == SubSeq(s, i, i + 1)
           u == <<s[i], s[i + 1]>>
<1> DEFINE j == i + 1
<1>0. i \in Nat /\ j \in Nat /\ 1 <= i /\ i <= j /\ j <= Len(s) /\ j = i + 1 /\ Len(s) \in Nat
  OBVIOUS
<1> HIDE DEF j
<1>1. t \in Seq(S) /\ Len(t) = 2 /\ t[1] = s[i] /\ t[2] = s[i + 1]
  <2>1. t = SubSeq(s, i, j) BY <1>0
  <2> HIDE DEF t
  <2>2. /\ t \in Seq(S) /\ Len(t) = j - i + 1
        /\ \A k \in 1 .. j - i + 1 : t[k] = s[k + i - 1]
    BY <1>0, <2>1
  <2>3. j - i + 1 = 2 /\ 1 + i - 1 = i /\ 2 + i - 1 = i + 1 BY <1>0
  <2>4. 1 \in 1 .. j - i + 1 /\ 2 \in 1 .. j - i + 1 BY <2>3
  <2>5. t[1] = s[1 + i - 1] /\ t[2] = s[2 + i - 1] BY <2>2, <2>4
  <2> QED BY <2>2, <2>3, <2>5
<1>2. u \in Seq(S) /\ Len(u) = 2 /\ u[1] = s[i] /\ u[2] = s[i + 1]
  OBVIOUS
<1> HIDE DEF t, u
<1>3. \A k \in 1 .. Len(t) : t[k] = u[k] BY <1>1, <1>2
<1>4. t = u BY <1>1, <1>2, <1>3, SeqEqual
<1> QED BY <1>4 DEF t, u

\* A network between two hops keeps to what was built for its connection.
LEMMA AddL3KeepsBuilt ==
  ASSUME CheckedInv, BuiltInv, AddL3
  PROVE  BuiltInv'
<1>1. /\ phase = "networks" /\ pos < Len(conn) /\ ~IsSwitch(cfg, conn[pos + 1])
      /\ pos' = pos + 1 /\ UNCHANGED <<cfg, phase, done, conn>>
  BY DEF AddL3
<1>2. conn \in AllE2e(cfg) /\ pos \in 1 .. Len(conn) /\ ~IsSwitch(cfg, conn[pos])
  BY <1>1 DEF BuiltInv, Located
<1>3. IsConfig(cfg) /\ IsRoute(cfg, conn) BY <1>1, <1>2, Relied
<1>4. /\ conn \in Seq(Entities(cfg)) /\ Len(conn) \in Nat /\ DOMAIN conn = 1 .. Len(conn)
      /\ Entities(cfg) \subseteq Names
  BY <1>3, RouteFacts DEF IsRoute, IsConfig, Entities
<1>5. pos \in 1 .. Len(conn) - 1 /\ pos + 1 \in 1 .. Len(conn) BY <1>1, <1>2, <1>4
<1>6. /\ NextL3(cfg, conn, pos) \in pos + 1 .. Len(conn)
      /\ \A k \in pos + 1 .. NextL3(cfg, conn, pos) - 1 : IsSwitch(cfg, conn[k])
  BY <1>3, <1>5, NextL3Exists
<1>7. NextL3(cfg, conn, pos) = pos + 1 BY <1>1, <1>4, <1>5, <1>6
<1> DEFINE x == <<conn[pos], conn[pos + 1]>>
           net == [ name |-> L3Name(conn[pos], conn[pos + 1]), layer |-> 3,
                    hops |-> x, vlans |-> <<0, 0>> ]
<1>8. conn[pos] \in Entities(cfg) /\ conn[pos + 1] \in Entities(cfg) BY <1>4, <1>5
<1>9. SegmentAt(cfg, conn, pos) = x
  <2>1. SegmentAt(cfg, conn, pos) = SubSeq(conn, pos, pos + 1) BY <1>7 DEF SegmentAt
  <2> QED BY <2>1, <1>4, <1>5, PairOfSubSeq
<1>10. L3Name(conn[pos], conn[pos + 1]) \in Seq(Words) BY <1>4, <1>8, NamesType
<1>11. x \in Seq(Entities(cfg)) /\ <<0, 0>> \in Seq(Nat) /\ Len(x) = 2 BY <1>8
<1>12. NetName(x) = L3Name(conn[pos], conn[pos + 1]) BY <1>11 DEF NetName
<1>13. net \in NetworkRecords(cfg) BY <1>10, <1>11 DEF NetworkRecords
<1>14. MadeFor(cfg, net, conn, pos) BY <1>7, <1>9, <1>12 DEF MadeFor
<1>15. Create(net) BY DEF AddL3
<1> HIDE DEF net
<1> QED BY <1>1, <1>7, <1>13, <1>14, <1>15, AdvanceKeepsBuilt

\* So does a network through switches.
LEMMA AddL2KeepsBuilt ==
  ASSUME CheckedInv, BuiltInv, AddL2
  PROVE  BuiltInv'
<1> DEFINE j == NextL3(cfg, conn, pos)
           x == SubSeq(conn, pos, j)
           tags == [k \in 1 .. j - pos + 1 |-> InterfaceVlan(cfg, conn, j, k + pos - 1)]
           net == [ name |-> L2Name(conn[pos + 1]), layer |-> 2, hops |-> x, vlans |-> tags ]
<1>1. /\ phase = "networks" /\ pos < Len(conn) /\ IsSwitch(cfg, conn[pos + 1])
      /\ pos' = j /\ UNCHANGED <<cfg, phase, done, conn>> /\ Create(net)
  BY DEF AddL2
<1>2. conn \in AllE2e(cfg) /\ pos \in 1 .. Len(conn) /\ ~IsSwitch(cfg, conn[pos])
  BY <1>1 DEF BuiltInv, Located
<1>3. IsConfig(cfg) /\ IsRoute(cfg, conn) BY <1>1, <1>2, Relied
<1>4. /\ conn \in Seq(Entities(cfg)) /\ Len(conn) \in Nat /\ DOMAIN conn = 1 .. Len(conn)
      /\ Entities(cfg) \subseteq Names
  BY <1>3, RouteFacts DEF IsRoute, IsConfig, Entities
<1>5. pos \in 1 .. Len(conn) - 1 /\ pos + 1 \in 1 .. Len(conn) BY <1>1, <1>2, <1>4
<1>6. j \in pos + 1 .. Len(conn) /\ ~IsSwitch(cfg, conn[j])
  BY <1>3, <1>5, NextL3Exists
<1>7. j \in pos + 2 .. Len(conn)
  <2>1. j # pos + 1 BY <1>1, <1>6
  <2> HIDE DEF j
  <2> QED BY <1>4, <1>5, <1>6, <2>1
<1>8. SegmentAt(cfg, conn, pos) = x BY DEF SegmentAt
<1>9. conn[pos + 1] \in Names /\ L2Name(conn[pos + 1]) \in Seq(Words)
  <2>1. conn[pos + 1] \in Names BY <1>4, <1>5
  <2> QED BY <2>1, NamesType
<1>10. \A k \in 1 .. Len(conn) : InterfaceVlan(cfg, conn, j, k) \in Nat
  BY <1>3, VlansType
<1> HIDE DEF j
<1>11. tags \in Seq(Nat)
  <2>1. j - pos + 1 \in Nat BY <1>5, <1>7, <1>4
  <2>2. \A k \in 1 .. j - pos + 1 : k + pos - 1 \in 1 .. Len(conn) BY <1>4, <1>5, <1>7
  <2>3. \A k \in 1 .. j - pos + 1 : InterfaceVlan(cfg, conn, j, k + pos - 1) \in Nat BY <2>2, <1>10
  <2> QED BY <2>1, <2>3
<1>12. x \in Seq(Entities(cfg)) /\ Len(x) = j - pos + 1 /\ x[2] = conn[pos + 1]
  BY <1>4, <1>5, <1>7
<1>13. Len(x) # 2 BY <1>4, <1>5, <1>7, <1>12
<1>14. NetName(x) = L2Name(conn[pos + 1]) BY <1>12, <1>13 DEF NetName
<1> HIDE DEF x, tags
<1>15. net \in NetworkRecords(cfg) BY <1>9, <1>11, <1>12 DEF NetworkRecords
<1>16. MadeFor(cfg, net, conn, pos)
  <2>1. j # pos + 1 BY <1>5, <1>7
  <2> QED BY <2>1, <1>8, <1>14 DEF MadeFor, j, tags
<1> HIDE DEF net
<1> QED BY <1>1, <1>15, <1>16, AdvanceKeepsBuilt DEF j

\* The networks a state may rely on.
LEMMA BuiltInvariant == Spec => [](CheckedInv /\ BuiltInv)
<1>1. Init => BuiltInv
  BY DEF Init, BuiltInv, Located, Behind, Phases
<1>2. CheckedInv /\ CheckedInv' /\ BuiltInv /\ [Next]_vars => BuiltInv'
  <2> SUFFICES ASSUME CheckedInv, CheckedInv', BuiltInv, [Next]_vars PROVE BuiltInv'
    OBVIOUS
  <2>1. CASE AddL3 BY <2>1, AddL3KeepsBuilt
  <2>2. CASE AddL2 BY <2>2, AddL2KeepsBuilt
  <2>3. CASE TakeConnection
    <3>1. PICK w \in EndHostWork(cfg) : done' = done \cup {w} /\ conn' = w[2] /\ pos' = 1
      BY <2>3 DEF TakeConnection, Turn
    <3>2. phase = "networks" /\ pos = Len(conn) /\ UNCHANGED <<cfg, phase, networks>>
      BY <2>3 DEF TakeConnection
    <3>3. w \in Entities(cfg) \X AllE2e(cfg)
      BY DEF EndHostWork, EndHosts, E2eConns
    <3>4. IsRoute(cfg, conn') /\ conn' \in AllE2e(cfg) BY <3>1, <3>2, <3>3, Relied
    <3>5. 1 \in 1 .. Len(conn') /\ ~IsSwitch(cfg, conn'[1]) BY <3>4, RouteFacts DEF IsRoute
    <3>6. Located' BY <3>1, <3>2, <3>4, <3>5 DEF Located
    <3>7. ASSUME NEW v \in done', NEW i \in Starts(cfg, v[2])
          PROVE  (v[2] = conn' /\ pos' <= i) \/ Named(v[2], i)'
      <4>1. v[2] \in AllE2e(cfg) BY <3>1, <3>3 DEF BuiltInv
      <4>2. IsRoute(cfg, v[2]) BY <4>1, <3>2, Relied
      <4>3. i \in 1 .. Len(v[2]) - 1 BY <4>2, SegmentShape
      <4>4. CASE v = w BY <4>4, <4>3, <3>1
      <4>5. CASE v \in done
        <5>1. ~(v[2] = conn /\ pos <= i)
          <6> SUFFICES ASSUME v[2] = conn, pos <= i PROVE FALSE
            OBVIOUS
          <6>1. Len(conn) <= i /\ i \in 1 .. Len(conn) - 1 /\ Len(conn) \in Nat
            BY <3>2, <4>2, <4>3, RouteFacts
          <6> QED BY <6>1
        <5>2. Named(v[2], i) BY <5>1, <4>5, <3>2 DEF BuiltInv, Behind
        <5> QED BY <5>2, <3>2 DEF Named
      <4> QED BY <4>4, <4>5, <3>1
    <3>8. Behind' BY <3>2, <3>7 DEF Behind
    <3> QED BY <3>1, <3>2, <3>3, <3>6, <3>8 DEF BuiltInv
  <2>4. CASE Check
    <3>1. networks = <<>> /\ done = {} /\ UNCHANGED <<cfg, networks, done, conn, pos>>
      BY <2>4 DEF Check, BuiltInv
    <3>2. phase = "check" /\ phase' \in {"networks", "rejected"} BY <2>4 DEF Check
    <3>3. Located' /\ Behind' BY <3>1, <3>2 DEF BuiltInv, Located, Behind
    <3> QED BY <3>1, <3>2, <3>3 DEF BuiltInv, Phases, Outcomes
  <2>5. CASE NetworksDone
    <3>1. /\ phase = "networks" /\ EndHostWork(cfg) \subseteq done /\ pos = Len(conn)
          /\ phase' = "routes" /\ done' = {} /\ conn' = <<>> /\ pos' = 0
          /\ UNCHANGED <<cfg, networks>>
      BY <2>5 DEF NetworksDone, LoopEnds
    <3>2. ASSUME NEW h \in AllE2e(cfg), NEW i \in Starts(cfg, h)
          PROVE  Named(h, i)
      <4>1. IsRoute(cfg, h) /\ Len(h) \in Nat BY <3>1, Relied, RouteFacts
      <4>2. i \in 1 .. Len(h) - 1 BY <4>1, SegmentShape
      <4>3. h[1] \in EndHosts(cfg) /\ h \in E2eConns(cfg, h[1])
        BY <4>1, RouteFacts DEF IsRoute, EndHosts, E2eConns, Range
      <4>4. <<h[1], h>> \in done BY <4>3, <3>1 DEF EndHostWork
      <4>5. ~(h = conn /\ pos <= i) BY <3>1, <4>1, <4>2
      <4> QED BY <4>4, <4>5, <3>1 DEF BuiltInv, Behind
    <3>3. Behind' BY <3>1, <3>2 DEF Behind, Named
    <3>4. Located' BY <3>1 DEF Located
    <3> QED BY <3>1, <3>3, <3>4 DEF BuiltInv, Phases
  <2>6. ASSUME phase \notin {"check", "networks", "rejected"}, phase' \notin {"check", "networks", "rejected"},
               phase' \in Phases \cup Outcomes,
               UNCHANGED <<cfg, conn, pos, networks>>, done' \subseteq Entities(cfg) \X AllE2e(cfg)
        PROVE  BuiltInv'
    <3>1. Located' BY <2>6 DEF BuiltInv, Located
    <3>2. Behind' BY <2>6 DEF BuiltInv, Behind, Named
    <3> QED BY <2>6, <3>1, <3>2 DEF BuiltInv
  <2>7. CASE IpRoutePathConnection
    <3>1. EndHostWork(cfg) \subseteq Entities(cfg) \X AllE2e(cfg)
      BY DEF EndHostWork, EndHosts, E2eConns
    <3> QED BY <2>6, <2>7, <3>1 DEF IpRoutePathConnection, Turn, BuiltInv, Phases, Outcomes
  <2>8. CASE ServiceHosts \/ FirewallHosts
    <3>1. phase = "hosts" BY <2>8 DEF ServiceHosts, FirewallHosts
    <3>2. \A h \in AllE2e(cfg) : h[1] \in Entities(cfg) BY <3>1, Relied, RouteFacts DEF IsRoute
    <3>3. HostsWork(cfg) \subseteq Entities(cfg) \X AllE2e(cfg)
      BY <3>2 DEF HostsWork, E2eConns
    <3> QED BY <2>6, <2>8, <3>1, <3>3 DEF ServiceHosts, FirewallHosts, Turn, BuiltInv, Phases, Outcomes
  <2>9. CASE RoutesDone \/ HostsDone
    BY <2>6, <2>9 DEF RoutesDone, HostsDone, LoopEnds, Phases
  <2>10. CASE AssociateDependencies \/ AdditionalCmds
    BY <2>6, <2>10 DEF AssociateDependencies, AdditionalCmds, BuiltInv, Phases, Outcomes
  <2>11. CASE UNCHANGED vars
    BY <2>11 DEF vars, BuiltInv, Located, Behind, Named
  <2> QED BY <2>1, <2>2, <2>3, <2>4, <2>5, <2>7, <2>8, <2>9, <2>10, <2>11 DEF Next, Step, Terminated
<1> QED BY <1>1, <1>2, CheckedInvariant, PTL DEF Spec

----
(***************************************************************************)
(* What look-ups find in the networks.                                     *)
(***************************************************************************)
LEMMA FirstOfFound ==
  ASSUME NEW T, T \subseteq Nat \ {0}
  PROVE  /\ T # {} => FirstOf(T) \in T
         /\ FirstOf(T) # NoNetwork => FirstOf(T) \in T
<1>1. T # {} => FirstOf(T) \in T
  <2> SUFFICES ASSUME T # {} PROVE FirstOf(T) \in T
    OBVIOUS
  <2>1. \E x \in T : \A y \in T : x <= y BY SmallestExists
  <2> QED BY <2>1 DEF FirstOf
<1> QED BY <1>1 DEF FirstOf

\* A segment starts at every hop but the last that is no switch.
LEMMA StartsAre ==
  ASSUME NEW c, NEW h, IsRoute(c, h), NEW i \in 1 .. Len(h) - 1, ~IsSwitch(c, h[i])
  PROVE  i \in Starts(c, h)
<1>1. Len(h) \in Int /\ DOMAIN h = 1 .. Len(h) BY RouteFacts
<1>2. \A m, n \in Int : m \in 1 .. n - 1 => m # n /\ m \in 1 .. n OBVIOUS
<1>3. i \in Int OBVIOUS
<1>4. i # Len(h) /\ i \in DOMAIN h BY <1>1, <1>2, <1>3, Zenon
<1> QED BY <1>4 DEF Starts, L3Positions

\* The segments, by the connections and the hops they start at.
LEMMA SegmentsAre ==
  ASSUME NEW c
  PROVE  /\ \A h \in AllE2e(c) : \A i \in Starts(c, h) : SegmentAt(c, h, i) \in AllSegments(c)
         /\ \A x \in AllSegments(c) :
              \E h \in AllE2e(c) : \E i \in Starts(c, h) : x = SegmentAt(c, h, i)
<1>1. \A h : Segments(c, h) = {SegmentAt(c, h, i) : i \in Starts(c, h)}
  BY DEF Segments, SegmentAt, Starts
<1>2. ASSUME NEW h \in AllE2e(c), NEW i \in Starts(c, h) PROVE SegmentAt(c, h, i) \in AllSegments(c)
  <2>1. SegmentAt(c, h, i) \in Segments(c, h) BY <1>1
  <2> QED BY <2>1 DEF AllSegments
<1>3. ASSUME NEW x \in AllSegments(c)
      PROVE  \E h \in AllE2e(c) : \E i \in Starts(c, h) : x = SegmentAt(c, h, i)
  <2>1. PICK h \in AllE2e(c) : x \in Segments(c, h) BY DEF AllSegments
  <2> QED BY <1>1, <2>1
<1> QED BY <1>2, <1>3

\* The networks of a configuration are made for its segments.
LEMMA NetworkShape ==
  ASSUME NEW c, \A h \in AllE2e(c) : IsRoute(c, h), NEW n \in NetworksOf(c)
  PROVE  /\ n \in NetworkRecords(c)
         /\ n.hops \in AllSegments(c) /\ IsSegment(c, n.hops)
         /\ n.name = NetName(n.hops)
         /\ Len(n.hops) = 2 => n.layer = 3
<1>0. PICK h \in AllE2e(c) : \E i \in Starts(c, h) : MadeFor(c, n, h, i)
  BY DEF NetworksOf
<1>1. PICK i \in Starts(c, h) : MadeFor(c, n, h, i)
  BY <1>0
<1>2. n.hops = SegmentAt(c, h, i) /\ n.name = NetName(n.hops) BY <1>1 DEF MadeFor
<1>3. n.hops \in AllSegments(c) BY <1>2, SegmentsAre
<1>4. /\ IsSegment(c, n.hops) /\ Len(n.hops) = NextL3(c, h, i) - i + 1
      /\ i \in 1 .. Len(h) - 1 /\ Len(h) \in Nat
      /\ NextL3(c, h, i) \in i + 1 .. Len(h)
  BY <1>2, SegmentShape, RouteFacts, NextL3Exists
<1>5. Len(n.hops) = 2 => NextL3(c, h, i) = i + 1
  <2> DEFINE j == NextL3(c, h, i)
             l == Len(n.hops)
  <2>1. l = j - i + 1 /\ i \in Int /\ j \in Int BY <1>4
  <2> HIDE DEF j, l
  <2>2. l = 2 => j = i + 1 BY <2>1
  <2> QED BY <2>2 DEF j, l
<1>6. NextL3(c, h, i) = i + 1 => n.layer = 3 BY <1>1 DEF MadeFor
<1> QED BY <1>2, <1>3, <1>4, <1>5, <1>6 DEF NetworksOf

\* Every segment of the configuration has its network, and no network has another's name.
CoversSegments(c, nets) ==
  /\ nets \in Seq(NetworksOf(c))
  /\ AllSegments(c) \subseteq {nets[k].hops : k \in DOMAIN nets}

\* When generate_networks is over, every segment has its network.
LEMMA SegmentsCovered ==
  ASSUME CheckedInv, BuiltInv, phase \notin {"check", "networks", "rejected"}, Buildable(cfg)
  PROVE  CoversSegments(cfg, networks)
<1>1. \A h \in AllE2e(cfg) : IsRoute(cfg, h) BY Relied
<1> SUFFICES ASSUME NEW x \in AllSegments(cfg)
             PROVE  \E k \in DOMAIN networks : networks[k].hops = x
  BY DEF CoversSegments, BuiltInv
<1>0. PICK h \in AllE2e(cfg) : \E i \in Starts(cfg, h) : x = SegmentAt(cfg, h, i)
  BY SegmentsAre
<1>2. PICK i \in Starts(cfg, h) : x = SegmentAt(cfg, h, i)
  BY <1>0
<1>3. Named(h, i) BY <1>2 DEF BuiltInv, Behind
<1>4. PICK k \in DOMAIN networks : networks[k].name = NetName(x) BY <1>2, <1>3 DEF Named
<1>5. networks[k] \in NetworksOf(cfg) BY DEF BuiltInv
<1>6. networks[k].hops \in AllSegments(cfg) /\ NetName(networks[k].hops) = NetName(x)
  BY <1>1, <1>4, <1>5, NetworkShape
<1>7. networks[k].hops = x BY <1>6 DEF Buildable
<1> QED BY <1>7

\* Once generate_networks returns, there is one network for each segment and nothing
\* else, for any buildable configuration and in whatever order the connections, each of
\* which is parsed once for each of its ends, were met (Architecture.generate_networks).
THEOREM NetworksMatchPathsTheorem == Spec => []NetworksMatchPaths
<1>1. CheckedInv /\ BuiltInv => NetworksMatchPaths
  <2> SUFFICES ASSUME CheckedInv, BuiltInv, phase \notin {"check", "networks", "rejected"}, Buildable(cfg)
               PROVE  /\ {networks[k].hops : k \in DOMAIN networks} = AllSegments(cfg)
                      /\ \A k, m \in DOMAIN networks : networks[k].hops = networks[m].hops => k = m
    BY DEF NetworksMatchPaths
  <2>1. \A h \in AllE2e(cfg) : IsRoute(cfg, h) BY Relied
  <2>2. \A k \in DOMAIN networks : networks[k] \in NetworksOf(cfg) BY DEF BuiltInv
  <2>3. \A k \in DOMAIN networks :
          networks[k].hops \in AllSegments(cfg) /\ networks[k].name = NetName(networks[k].hops)
    BY <2>1, <2>2, NetworkShape
  <2>4. AllSegments(cfg) \subseteq {networks[k].hops : k \in DOMAIN networks}
    BY SegmentsCovered DEF CoversSegments
  <2>5. \A k, m \in DOMAIN networks : networks[k].hops = networks[m].hops => k = m
    BY <2>3 DEF BuiltInv
  <2> QED BY <2>3, <2>4, <2>5
<1> QED BY <1>1, BuiltInvariant, PTL

\* A link of a connection lies in one of its segments.
LEMMA LinkInSegment ==
  ASSUME NEW c, NEW h, IsRoute(c, h), NEW i \in 1 .. Len(h) - 1
  PROVE  \E p \in Starts(c, h) :
           /\ HasLink([hops |-> SegmentAt(c, h, p)], h[i], h[i + 1])
           /\ ~IsSwitch(c, h[i]) /\ ~IsSwitch(c, h[i + 1]) => Len(SegmentAt(c, h, p)) = 2
<1>1. Len(h) \in Nat /\ DOMAIN h = 1 .. Len(h) BY RouteFacts
<1>2. CASE ~IsSwitch(c, h[i])
  <2>1. i \in Starts(c, h) BY <1>2, StartsAre
  <2> DEFINE x == SegmentAt(c, h, i)
             j == NextL3(c, h, i)
  <2>2. /\ Len(x) = j - i + 1 /\ \A k \in 1 .. j - i + 1 : x[k] = h[k + i - 1]
    BY <2>1, SegmentShape
  <2>3. j \in i + 1 .. Len(h) /\ \A k \in i + 1 .. j - 1 : IsSwitch(c, h[k])
    BY NextL3Exists
  <2> HIDE DEF x, j
  <2>4. 1 \in 1 .. Len(x) - 1 /\ x[1] = h[i] /\ x[1 + 1] = h[i + 1] BY <1>1, <2>2, <2>3
  <2>5. ~IsSwitch(c, h[i + 1]) => Len(x) = 2 BY <1>1, <2>2, <2>3
  <2>6. HasLink([hops |-> x], h[i], h[i + 1]) BY <2>4 DEF HasLink
  <2> QED BY <2>1, <2>5, <2>6 DEF x
<1>3. CASE IsSwitch(c, h[i])
  <2>1. i + 1 \in 2 .. Len(h) BY <1>1
  <2> DEFINE p == PrevL3(c, h, i + 1)
             n == NextL3(c, h, p)
             x == SegmentAt(c, h, p)
  <2>2. /\ p \in 1 .. i + 1 - 1 /\ ~IsSwitch(c, h[p])
        /\ \A k \in p + 1 .. i + 1 - 1 : IsSwitch(c, h[k])
    BY <2>1, PrevL3Exists
  <2> HIDE DEF p
  <2>3. p \in 1 .. i /\ p \in 1 .. Len(h) - 1 BY <1>1, <2>2
  <2>4. p \in Starts(c, h) BY <2>2, <2>3, StartsAre
  <2>5. n \in p + 1 .. Len(h) /\ ~IsSwitch(c, h[n]) BY <2>3, NextL3Exists
  <2>6. /\ Len(x) = n - p + 1 /\ \A k \in 1 .. n - p + 1 : x[k] = h[k + p - 1]
    BY <2>4, SegmentShape
  <2> HIDE DEF n, x
  <2>7. n \in Int /\ p \in Int /\ i \in Int /\ i + 1 <= n BY <1>1, <2>2, <2>3, <2>5
  <2> DEFINE k == i - p + 1
  <2>8. /\ k \in 1 .. Len(x) - 1 /\ k \in 1 .. n - p + 1 /\ k + 1 \in 1 .. n - p + 1
        /\ k + p - 1 = i /\ k + 1 + p - 1 = i + 1
    BY <1>1, <2>3, <2>6, <2>7
  <2>9. x[k] = h[i] /\ x[k + 1] = h[i + 1] BY <2>6, <2>8
  <2> HIDE DEF k
  <2>10. HasLink([hops |-> x], h[i], h[i + 1]) BY <2>8, <2>9 DEF HasLink
  <2> QED BY <1>3, <2>4, <2>10 DEF x
<1> QED BY <1>2, <1>3

\* No look-up of ip_route_path_connection or modify_etc_hosts fails.
LEMMA LookUpsSucceed ==
  ASSUME NEW c, \A h \in AllE2e(c) : IsRoute(c, h), NEW nets, CoversSegments(c, nets),
         NEW h \in AllE2e(c)
  PROVE  /\ Routable(c, nets, h)
         /\ \A i \in 1 .. Len(h) - 1 : SharedNetwork(c, nets, h[i], h[i + 1]) # NoNetwork
<1>1. IsRoute(c, h) /\ Len(h) \in Nat BY RouteFacts
<1>2. \A k \in DOMAIN nets : k \in Nat \ {0} /\ nets[k] \in NetworksOf(c)
  BY DEF CoversSegments
<1>3. ASSUME NEW p \in Starts(c, h)
      PROVE  \E k \in DOMAIN nets : nets[k].hops = SegmentAt(c, h, p)
  <2>1. SegmentAt(c, h, p) \in AllSegments(c) BY SegmentsAre
  <2> QED BY <2>1 DEF CoversSegments
<1>4. ASSUME NEW i \in 1 .. Len(h) - 1
      PROVE  SharedNetwork(c, nets, h[i], h[i + 1]) # NoNetwork
  <2>1. PICK p \in Starts(c, h) :
           /\ HasLink([hops |-> SegmentAt(c, h, p)], h[i], h[i + 1])
           /\ ~IsSwitch(c, h[i]) /\ ~IsSwitch(c, h[i + 1]) => Len(SegmentAt(c, h, p)) = 2
    BY <1>1, LinkInSegment
  <2>2. PICK k \in DOMAIN nets : nets[k].hops = SegmentAt(c, h, p) BY <1>3
  <2>3. HasLink(nets[k], h[i], h[i + 1]) BY <2>1, <2>2 DEF HasLink
  <2>4. IsSwitch(c, h[i]) \/ IsSwitch(c, h[i + 1]) \/ nets[k].layer = 3
    BY <2>1, <2>2, <1>2, NetworkShape
  <2> DEFINE T == {m \in DOMAIN nets :
                     /\ HasLink(nets[m], h[i], h[i + 1])
                     /\ IsSwitch(c, h[i]) \/ IsSwitch(c, h[i + 1]) \/ nets[m].layer = 3}
  <2>5. k \in T /\ T \subseteq Nat \ {0} BY <2>3, <2>4, <1>2
  <2>6. SharedNetwork(c, nets, h[i], h[i + 1]) = FirstOf(T) BY DEF SharedNetwork
  <2> HIDE DEF T
  <2>7. FirstOf(T) \in T BY <2>5, FirstOfFound
  <2> QED BY <2>5, <2>6, <2>7 DEF NoNetwork
<1>5. ASSUME NEW i \in Starts(c, h)
      PROVE  CommonNetwork(nets, h[i], h[NextL3(c, h, i)]) # NoNetwork
  <2> DEFINE j == NextL3(c, h, i)
             x == SegmentAt(c, h, i)
             l == j - i + 1
             T == {m \in DOMAIN nets : {h[i], h[j]} \subseteq Range(nets[m].hops)}
  <2>1. /\ i \in 1 .. Len(h) - 1 /\ DOMAIN x = 1 .. j - i + 1
        /\ \A k \in 1 .. j - i + 1 : x[k] = h[k + i - 1]
    BY <1>1, SegmentShape
  <2>2. j \in i + 1 .. Len(h) BY <1>1, <2>1, NextL3Exists
  <2>3. PICK k \in DOMAIN nets : nets[k].hops = x BY <1>3
  <2> HIDE DEF x, j, T
  <2>4. 1 \in DOMAIN x /\ l \in DOMAIN x /\ x[1] = h[i] /\ x[l] = h[j]
    <3>1. i \in Int /\ j \in Int /\ l \in Int /\ 1 \in 1 .. l /\ l \in 1 .. l
      BY <1>1, <2>1, <2>2
    <3>2. 1 + i - 1 = i /\ l + i - 1 = j BY <3>1
    <3> HIDE DEF l
    <3>3. x[1] = h[1 + i - 1] /\ x[l] = h[l + i - 1] BY <2>1, <3>1 DEF l
    <3> QED BY <2>1, <3>1, <3>2, <3>3 DEF l
  <2> HIDE DEF l
  <2>5. k \in T /\ T \subseteq Nat \ {0} BY <2>3, <2>4, <1>2 DEF Range, T
  <2>6. CommonNetwork(nets, h[i], h[j]) = FirstOf(T) BY DEF CommonNetwork, T
  <2>7. FirstOf(T) \in T BY <2>5, FirstOfFound
  <2> QED BY <2>5, <2>6, <2>7 DEF NoNetwork, j
<1> QED BY <1>4, <1>5 DEF Routable, Starts

\* Each of the five loops of generate_architecture finds every network, interface and
\* address it looks up, for any buildable configuration that check_config accepts and in
\* whatever order the connections are met.
THEOREM BuildSucceedsTheorem == Spec => []BuildSucceeds
<1>1. Init => BuildSucceeds
  BY DEF Init, BuildSucceeds
<1>2. CheckedInv /\ BuiltInv /\ BuildSucceeds /\ [Next]_vars => BuildSucceeds'
  <2> SUFFICES ASSUME CheckedInv, BuiltInv, BuildSucceeds, [Next]_vars PROVE BuildSucceeds'
    OBVIOUS
  <2>1. ASSUME phase \notin {"check", "networks", "rejected"}, Buildable(cfg), NEW h \in AllE2e(cfg)
        PROVE  /\ Routable(cfg, networks, h)
               /\ \A i \in 1 .. Len(h) - 1 : SharedNetwork(cfg, networks, h[i], h[i + 1]) # NoNetwork
    <3>1. \A g \in AllE2e(cfg) : IsRoute(cfg, g) BY <2>1, Relied
    <3>2. CoversSegments(cfg, networks) BY <2>1, SegmentsCovered
    <3> QED BY <3>1, <3>2, LookUpsSucceed
  <2>2. CASE IpRoutePathConnection
    <3>1. EndHostWork(cfg) \subseteq Entities(cfg) \X AllE2e(cfg)
      BY DEF EndHostWork, EndHosts, E2eConns
    <3>2. phase = "routes" /\ cfg' = cfg BY <2>2 DEF IpRoutePathConnection
    <3>3. PICK w \in EndHostWork(cfg) : phase' = "failed" => ~Routable(cfg, networks, w[2])
      BY <2>2, <3>2 DEF IpRoutePathConnection, Turn
    <3>4. w[2] \in AllE2e(cfg) BY <3>1
    <3> QED BY <3>2, <3>3, <3>4, <2>1 DEF BuildSucceeds
  <2>3. CASE ServiceHosts \/ FirewallHosts
    <3>1. phase = "hosts" /\ cfg' = cfg BY <2>3 DEF ServiceHosts, FirewallHosts
    <3>2. \A h \in AllE2e(cfg) : IsRoute(cfg, h) BY <3>1, Relied
    <3>3. \A w \in HostsWork(cfg) : w[2] \in AllE2e(cfg) BY DEF HostsWork, E2eConns
    <3>4. PICK w \in HostsWork(cfg) :
            phase' = "failed" =>
              LET h == w[2] IN
              \/ NoNetwork \in {SharedNetwork(cfg, networks, h[Len(h) - 1], LastHop(h)),
                                SharedNetwork(cfg, networks, h[1], h[2])}
              \/ \E i \in 1 .. Len(h) - 1 : SharedNetwork(cfg, networks, h[i], h[i + 1]) = NoNetwork
      <4>1. CASE ServiceHosts BY <4>1, <3>1, Zenon DEF ServiceHosts, Turn
      <4>2. CASE FirewallHosts BY <4>2, <3>1, Zenon DEF FirewallHosts, Turn
      <4> QED BY <2>3, <4>1, <4>2
    <3> DEFINE h == w[2]
    <3>5. h \in AllE2e(cfg) /\ IsRoute(cfg, h) BY <3>2, <3>3
    <3>6. /\ Len(h) - 1 \in 1 .. Len(h) - 1 /\ 1 \in 1 .. Len(h) - 1
          /\ Len(h) - 1 + 1 = Len(h) /\ 1 + 1 = 2
      BY <3>5, RouteFacts DEF IsRoute
    <3> HIDE DEF h
    <3>7. ASSUME phase' = "failed"
          PROVE  \E i \in 1 .. Len(h) - 1 : SharedNetwork(cfg, networks, h[i], h[i + 1]) = NoNetwork
      BY <3>4, <3>6, <3>7 DEF LastHop, h
    <3>8. phase' = "failed" => ~Buildable(cfg) BY <3>1, <3>5, <3>7, <2>1
    <3> QED BY <3>1, <3>8 DEF BuildSucceeds
  <2>4. CASE AdditionalCmds
    BY <2>4 DEF AdditionalCmds, BuildSucceeds, Buildable
  <2>5. CASE Check \/ NetworksDone \/ RoutesDone \/ HostsDone \/ AssociateDependencies
    BY <2>5 DEF Check, NetworksDone, RoutesDone, HostsDone, AssociateDependencies, LoopEnds, BuildSucceeds
  <2>6. CASE TakeConnection \/ AddL3 \/ AddL2 \/ UNCHANGED vars
    BY <2>6 DEF TakeConnection, AddL3, AddL2, vars, BuildSucceeds
  <2> QED BY <2>2, <2>3, <2>4, <2>5, <2>6 DEF Next, Step, Terminated
<1> QED BY <1>1, <1>2, BuiltInvariant, PTL DEF Spec

----
(***************************************************************************)
(* Addresses and routes.                                                   *)
(***************************************************************************)
\* Positions next to a position, and on either side of it.
LEMMA Between ==
  \A m, n \in Int : m \in 1 .. n =>
    /\ m # n => m \in 1 .. n - 1 /\ m + 1 \in 1 .. n /\ m + 1 # m /\ m < m + 1
    /\ m # 1 => /\ m \in 2 .. n /\ m - 1 \in 1 .. n /\ m - 1 # m /\ ~(m < m - 1)
                /\ m - 1 \in 1 .. n - 1 /\ m - 1 + 1 = m
    /\ m = 1 \/ m = n \/ m \in 2 .. n - 1
    /\ \A p \in m + 1 .. n : p \in 1 .. n /\ p # m
    /\ \A p \in 1 .. m - 1 : p \in 1 .. n - 1 /\ p \in 1 .. n /\ p # m
OBVIOUS

\* What get_shared_network and check_shared_network return joins the two entities.
LEMMA NetworkJoins ==
  ASSUME NEW c, \A h \in AllE2e(c) : IsRoute(c, h),
         NEW nets \in Seq(NetworksOf(c)), NEW b, NEW e
  PROVE  /\ SharedNetwork(c, nets, b, e) # NoNetwork =>
              /\ SharedNetwork(c, nets, b, e) \in DOMAIN nets
              /\ {b, e} \subseteq Range(nets[SharedNetwork(c, nets, b, e)].hops)
         /\ CommonNetwork(nets, b, e) # NoNetwork =>
              /\ CommonNetwork(nets, b, e) \in DOMAIN nets
              /\ {b, e} \subseteq Range(nets[CommonNetwork(nets, b, e)].hops)
<1> DEFINE C == {k \in DOMAIN nets : {b, e} \subseteq Range(nets[k].hops)}
           S == {k \in DOMAIN nets :
                   /\ HasLink(nets[k], b, e)
                   /\ IsSwitch(c, b) \/ IsSwitch(c, e) \/ nets[k].layer = 3}
<1>1. \A k \in DOMAIN nets : k \in Nat \ {0} /\ nets[k] \in NetworksOf(c) OBVIOUS
<1>2. ASSUME NEW k \in S PROVE k \in C
  <2>1. nets[k].hops \in Seq(Entities(c)) BY <1>1, NetworkShape DEF NetworkRecords
  <2>2. PICK i \in 1 .. Len(nets[k].hops) - 1 : nets[k].hops[i] = b /\ nets[k].hops[i + 1] = e
    BY DEF HasLink
  <2>3. i \in DOMAIN nets[k].hops /\ i + 1 \in DOMAIN nets[k].hops BY <2>1
  <2> QED BY <2>2, <2>3 DEF Range
<1>3. SharedNetwork(c, nets, b, e) = FirstOf(S) /\ CommonNetwork(nets, b, e) = FirstOf(C)
  BY DEF SharedNetwork, CommonNetwork
<1>4. C \subseteq Nat \ {0} /\ S \subseteq Nat \ {0} BY <1>1
<1>5. \A k \in C : k \in DOMAIN nets /\ {b, e} \subseteq Range(nets[k].hops) OBVIOUS
<1> HIDE DEF C, S
<1>6. FirstOf(S) # NoNetwork => FirstOf(S) \in S BY <1>4, FirstOfFound
<1>7. FirstOf(C) # NoNetwork => FirstOf(C) \in C BY <1>4, FirstOfFound
<1> QED BY <1>2, <1>3, <1>5, <1>6, <1>7

\* Two entities that are not switches and share a network have its two addresses.
LEMMA AddressesOnNetwork ==
  ASSUME NEW c, \A h \in AllE2e(c) : IsRoute(c, h),
         NEW nets \in Seq(NetworksOf(c)), NEW k \in DOMAIN nets,
         NEW a \in Range(nets[k].hops), NEW b \in Range(nets[k].hops),
         a # b, ~IsSwitch(c, a), ~IsSwitch(c, b)
  PROVE  /\ EntityIp(nets, k, a) \in {<<k, 1>>, <<k, 2>>} /\ EntityIp(nets, k, b) \in {<<k, 1>>, <<k, 2>>}
         /\ EntityIp(nets, k, a) # NoAddress /\ EntityIp(nets, k, b) # NoAddress
         /\ EntityIp(nets, k, a) # EntityIp(nets, k, b)
<1> DEFINE x == nets[k].hops
<1>1. k \in Nat \ {0} /\ nets[k] \in NetworksOf(c) OBVIOUS
<1>2. IsSegment(c, x) BY <1>1, NetworkShape
<1> HIDE DEF x
<1>3. Len(x) \in Nat /\ DOMAIN x = 1 .. Len(x) /\ Len(x) >= 2 BY <1>2 DEF IsSegment
<1>4. ASSUME NEW e \in Range(x), ~IsSwitch(c, e) PROVE e = x[1] \/ e = x[Len(x)]
  <2>1. PICK i \in 1 .. Len(x) : x[i] = e BY <1>3 DEF Range
  <2>2. i = 1 \/ i = Len(x) \/ i \in 2 .. Len(x) - 1
    <3>1. i \in Int /\ Len(x) \in Int BY <1>3
    <3> QED BY <3>1, Between, Zenon
  <2> QED BY <1>2, <1>4, <2>1, <2>2 DEF IsSegment
<1>5. \A e : EntityIp(nets, k, e) = IF x[1] = e THEN <<k, 1>> ELSE IF x[Len(x)] = e THEN <<k, 2>> ELSE NoAddress
  BY DEF EntityIp, LastHop, x
<1>6. <<k, 1>> # <<k, 2>> /\ <<k, 1>> # NoAddress /\ <<k, 2>> # NoAddress
  BY DEF NoAddress
<1>7. (a = x[1] \/ a = x[Len(x)]) /\ (b = x[1] \/ b = x[Len(x)]) BY <1>4 DEF x
<1> QED BY <1>5, <1>6, <1>7

\* via is the address of another entity on a network of a.
NextHop(nets, a, via) ==
  /\ via \in (DOMAIN nets) \X {1, 2}
  /\ EntityIp(nets, via[1], a) # NoAddress
  /\ via # EntityIp(nets, via[1], a)

\* The gateways of h[i] are other entities on networks of h[i], in both directions.
LEMMA GatewayOnLink ==
  ASSUME NEW c, \A h \in AllE2e(c) : IsRoute(c, h),
         NEW nets \in Seq(NetworksOf(c)),
         NEW h \in AllE2e(c), Routable(c, nets, h),
         NEW i \in L3Positions(c, h), NEW next, NEW behind,
         \/ i # Len(h) /\ next = i + 1 /\ behind = NextL3(c, h, i)
         \/ i # 1 /\ next = i - 1 /\ behind = PrevL3(c, h, i)
  PROVE  NextHop(nets, h[i], Gateway(c, nets, h, i, next, behind))
<1> SUFFICES \E k \in DOMAIN nets : \E e \in Range(nets[k].hops) :
               /\ Gateway(c, nets, h, i, next, behind) = EntityIp(nets, k, e)
               /\ h[i] \in Range(nets[k].hops) /\ h[i] # e /\ ~IsSwitch(c, e)
  <2> SUFFICES ASSUME NEW k \in DOMAIN nets, NEW e \in Range(nets[k].hops),
                      h[i] \in Range(nets[k].hops), h[i] # e, ~IsSwitch(c, e)
               PROVE  NextHop(nets, h[i], EntityIp(nets, k, e))
    OBVIOUS
  <2>1. ~IsSwitch(c, h[i]) BY DEF L3Positions
  <2>2. /\ EntityIp(nets, k, e) \in {<<k, 1>>, <<k, 2>>} /\ EntityIp(nets, k, h[i]) # NoAddress
        /\ EntityIp(nets, k, h[i]) # EntityIp(nets, k, e)
    BY <2>1, AddressesOnNetwork
  <2>3. EntityIp(nets, k, e)[1] = k BY <2>2
  <2>4. EntityIp(nets, k, e) \in (DOMAIN nets) \X {1, 2} BY <2>2
  <2> QED BY <2>2, <2>3, <2>4 DEF NextHop
<1>1. /\ IsRoute(c, h) /\ Len(h) \in Nat /\ DOMAIN h = 1 .. Len(h)
      /\ \A m, n \in 1 .. Len(h) : h[m] = h[n] => m = n
  BY RouteFacts DEF IsRoute
<1>2. i \in 1 .. Len(h) /\ ~IsSwitch(c, h[i]) BY <1>1 DEF L3Positions
<1>0. i \in Int /\ Len(h) \in Int
  <2>1. \A n \in Nat : n \in Int /\ 1 .. n \subseteq Int OBVIOUS
  <2> QED BY <1>1, <1>2, <2>1, Zenon
<1>3. CASE i # Len(h) /\ next = i + 1 /\ behind = NextL3(c, h, i)
  <2>1. i \in 1 .. Len(h) - 1 /\ next \in 1 .. Len(h) /\ next # i /\ i < next
    BY <1>0, <1>2, <1>3, Between, Zenon
  <2>2. behind \in i + 1 .. Len(h) /\ ~IsSwitch(c, h[behind]) BY <1>1, <1>3, <2>1, NextL3Exists
  <2>3. behind \in 1 .. Len(h) /\ behind # i BY <1>0, <1>2, <2>2, Between, Zenon
  <2>4. i \in L3Positions(c, h) \ {Len(h)} BY <1>3
  <2>5. CASE IsSwitch(c, h[next])
    <3> DEFINE k == CommonNetwork(nets, h[i], h[behind])
    <3>1. k # NoNetwork BY <1>3, <2>4, <2>5 DEF Routable
    <3>2. k \in DOMAIN nets /\ {h[i], h[behind]} \subseteq Range(nets[k].hops)
      BY <3>1, NetworkJoins
    <3>3. Gateway(c, nets, h, i, next, behind) = EntityIp(nets, k, h[behind])
      BY <2>5 DEF Gateway
    <3>4. h[i] # h[behind] BY <1>1, <1>2, <2>3
    <3> QED BY <2>2, <3>2, <3>3, <3>4
  <2>6. CASE ~IsSwitch(c, h[next])
    <3> DEFINE k == SharedNetwork(c, nets, h[i], h[next])
    <3>1. k # NoNetwork BY <1>2, <1>3, <2>1 DEF Routable
    <3>2. k \in DOMAIN nets /\ {h[i], h[next]} \subseteq Range(nets[k].hops)
      BY <3>1, NetworkJoins
    <3>3. Gateway(c, nets, h, i, next, behind) = EntityIp(nets, k, h[next])
      BY <2>1, <2>6 DEF Gateway
    <3>4. h[i] # h[next] BY <1>1, <1>2, <2>1
    <3> QED BY <2>6, <3>2, <3>3, <3>4
  <2> QED BY <2>5, <2>6
<1>4. CASE i # 1 /\ next = i - 1 /\ behind = PrevL3(c, h, i)
  <2>1. /\ i \in 2 .. Len(h) /\ next \in 1 .. Len(h) /\ next # i /\ ~(i < next)
        /\ next \in 1 .. Len(h) - 1 /\ next + 1 = i
    BY <1>0, <1>2, <1>4, Between, Zenon
  <2>2. /\ behind \in 1 .. i - 1 /\ ~IsSwitch(c, h[behind])
        /\ \A m \in behind + 1 .. i - 1 : IsSwitch(c, h[m])
    BY <1>1, <1>4, <2>1, PrevL3Exists
  <2>3. behind \in 1 .. Len(h) - 1 /\ behind \in 1 .. Len(h) /\ behind # i
    BY <1>0, <1>2, <2>2, Between, Zenon
  <2>4. NextL3(c, h, behind) = i BY <1>1, <1>2, <1>4, <2>1, NextOfPrev
  <2>5. CASE IsSwitch(c, h[next])
    <3> DEFINE k == CommonNetwork(nets, h[i], h[behind])
    <3>0. k = CommonNetwork(nets, h[behind], h[i]) BY DEF CommonNetwork
    <3>1. k # NoNetwork
      <4>1. behind \in L3Positions(c, h) \ {Len(h)}
        <5>1. behind \in Starts(c, h) BY <1>1, <2>2, <2>3, StartsAre
        <5> QED BY <5>1 DEF Starts
      <4>2. behind # next BY <2>2, <2>5
      <4>3. behind + 1 \in behind + 1 .. i - 1 BY <1>4, <2>1, <2>2, <4>2
      <4>4. IsSwitch(c, h[behind + 1]) BY <2>2, <4>3
      <4> QED BY <2>4, <3>0, <4>1, <4>4 DEF Routable
    <3>2. k \in DOMAIN nets /\ {h[i], h[behind]} \subseteq Range(nets[k].hops)
      BY <3>1, NetworkJoins
    <3>3. Gateway(c, nets, h, i, next, behind) = EntityIp(nets, k, h[behind])
      BY <2>5 DEF Gateway
    <3>4. h[i] # h[behind] BY <1>1, <1>2, <2>3
    <3> QED BY <2>2, <3>2, <3>3, <3>4
  <2>6. CASE ~IsSwitch(c, h[next])
    <3> DEFINE k == SharedNetwork(c, nets, h[next], h[i])
    <3>1. k # NoNetwork BY <1>2, <2>1 DEF Routable
    <3>2. k \in DOMAIN nets /\ {h[next], h[i]} \subseteq Range(nets[k].hops)
      BY <3>1, NetworkJoins
    <3>3. Gateway(c, nets, h, i, next, behind) = EntityIp(nets, k, h[next])
      BY <2>1, <2>6 DEF Gateway
    <3>4. h[i] # h[next] BY <1>1, <1>2, <2>1
    <3> QED BY <2>6, <3>2, <3>3, <3>4
  <2> QED BY <2>5, <2>6
<1> QED BY <1>3, <1>4

RouteRecords(c, nets) ==
  [at : Entities(c), dst : DOMAIN nets, via : (DOMAIN nets) \X {1, 2}, slots : Nat]

\* The commands of a connection name networks there are and next hops that are on them.
LEMMA RouteCommandsOnLink ==
  ASSUME NEW c, \A h \in AllE2e(c) : IsRoute(c, h),
         NEW nets \in Seq(NetworksOf(c)),
         NEW h \in AllE2e(c), Routable(c, nets, h),
         NEW r \in RouteCommands(c, nets, h)
  PROVE  r \in RouteRecords(c, nets) /\ NextHop(nets, r.at, r.via)
<1> DEFINE last == Len(h)
           dest == SharedNetwork(c, nets, h[last - 1], h[last])
           src  == SharedNetwork(c, nets, h[1], h[2])
<1>1. /\ IsRoute(c, h) /\ last \in Nat /\ last >= 2 /\ DOMAIN h = 1 .. last
      /\ \A i \in 1 .. last : h[i] \in Entities(c)
      /\ ~IsSwitch(c, h[1]) /\ ~IsSwitch(c, h[last])
  BY RouteFacts DEF IsRoute
<1>2. dest \in DOMAIN nets /\ src \in DOMAIN nets
  <2>1. last - 1 \in 1 .. last - 1 /\ 1 \in 1 .. last - 1 /\ last - 1 + 1 = last /\ 1 + 1 = 2 BY <1>1
  <2>2. dest # NoNetwork /\ src # NoNetwork BY <1>1, <2>1 DEF Routable
  <2> QED BY <2>2, NetworkJoins
<1> HIDE DEF dest, src
<1>3. CASE \E i \in L3Positions(c, h) \ {last} :
             r = [ at |-> h[i], dst |-> dest, via |-> Gateway(c, nets, h, i, i + 1, NextL3(c, h, i)),
                   slots |-> IF UsesIoam(c) /\ i = 1 THEN last ELSE 0 ]
  <2>1. PICK i \in L3Positions(c, h) \ {last} :
             r = [ at |-> h[i], dst |-> dest, via |-> Gateway(c, nets, h, i, i + 1, NextL3(c, h, i)),
                   slots |-> IF UsesIoam(c) /\ i = 1 THEN last ELSE 0 ]
    BY <1>3
  <2>2. h[i] \in Entities(c) BY <1>1 DEF L3Positions
  <2>3. NextHop(nets, h[i], Gateway(c, nets, h, i, i + 1, NextL3(c, h, i)))
    BY GatewayOnLink, Zenon
  <2> QED BY <1>1, <1>2, <2>1, <2>2, <2>3 DEF NextHop, RouteRecords
<1>4. CASE \E i \in L3Positions(c, h) \ {1} :
             r = [ at |-> h[i], dst |-> src, via |-> Gateway(c, nets, h, i, i - 1, PrevL3(c, h, i)),
                   slots |-> 0 ]
  <2>1. PICK i \in L3Positions(c, h) \ {1} :
             r = [ at |-> h[i], dst |-> src, via |-> Gateway(c, nets, h, i, i - 1, PrevL3(c, h, i)),
                   slots |-> 0 ]
    BY <1>4
  <2>2. h[i] \in Entities(c) BY <1>1 DEF L3Positions
  <2>3. NextHop(nets, h[i], Gateway(c, nets, h, i, i - 1, PrevL3(c, h, i)))
    BY GatewayOnLink, Zenon
  <2> QED BY <1>2, <2>1, <2>2, <2>3 DEF NextHop, RouteRecords
<1> QED BY <1>3, <1>4 DEF RouteCommands, dest, src

----
(***************************************************************************)
(* generate_ip_route_cmds: RoutedInv.                                      *)
(***************************************************************************)
\* The commands of h are generated.
Routed(h) ==
  Routable(cfg, networks, h) /\ RouteCommands(cfg, networks, h) \subseteq routes

RoutedInv ==
  /\ phase \in {"check", "networks", "rejected"} => routes = {}
  /\ \A r \in routes : r \in RouteRecords(cfg, networks) /\ NextHop(networks, r.at, r.via)
  /\ phase = "routes" => \A w \in done : Routed(w[2])
  /\ phase \in {"hosts", "dependencies", "additional", "done"} => \A h \in AllE2e(cfg) : Routed(h)

\* The pairs a loop takes: an end of a connection, or a firewall on it, and the connection.
LEMMA WorkType ==
  /\ EndHostWork(cfg) \subseteq Entities(cfg) \X AllE2e(cfg)
  /\ \A w \in HostsWork(cfg) : w[2] \in AllE2e(cfg)
  /\ (\A h \in AllE2e(cfg) : IsRoute(cfg, h)) =>
       \A h \in AllE2e(cfg) : <<h[1], h>> \in EndHostWork(cfg) /\ <<h[1], h>> \in HostsWork(cfg)
<1>1. ASSUME NEW h \in AllE2e(cfg), IsRoute(cfg, h) PROVE <<h[1], h>> \in EndHostWork(cfg)
  BY <1>1, RouteFacts DEF IsRoute, EndHostWork, EndHosts, E2eConns, Range
<1>2. EndHostWork(cfg) \subseteq Entities(cfg) \X AllE2e(cfg)
  BY DEF EndHostWork, EndHosts, E2eConns
<1>3. \A w \in HostsWork(cfg) : w[2] \in AllE2e(cfg) BY DEF HostsWork, E2eConns
<1>4. \A h \in AllE2e(cfg) : <<h[1], h>> \in HostsWork(cfg) BY DEF HostsWork
<1> QED BY <1>1, <1>2, <1>3, <1>4

\* Every route has its next hop on the link, and the connections met so far have theirs.
LEMMA RoutedInvariant == Spec => [](CheckedInv /\ BuiltInv /\ RoutedInv)
<1>1. Init => RoutedInv
  BY DEF Init, RoutedInv
<1>2. CheckedInv /\ BuiltInv /\ RoutedInv /\ [Next]_vars => RoutedInv'
  <2> SUFFICES ASSUME CheckedInv, BuiltInv, RoutedInv, [Next]_vars PROVE RoutedInv'
    OBVIOUS
  <2>1. CASE Check \/ TakeConnection \/ AddL3 \/ AddL2
    <3>1. /\ phase \in {"check", "networks"} /\ phase' \in {"networks", "rejected"}
          /\ routes' = routes
      BY <2>1 DEF Check, TakeConnection, AddL3, AddL2
    <3>2. routes' = {} BY <3>1 DEF RoutedInv
    <3> QED BY <3>1, <3>2 DEF RoutedInv
  <2>2. CASE NetworksDone
    <3>1. phase = "networks" /\ phase' = "routes" /\ done' = {} /\ routes' = routes
      BY <2>2 DEF NetworksDone, LoopEnds
    <3>2. routes' = {} BY <3>1 DEF RoutedInv
    <3> QED BY <3>1, <3>2 DEF RoutedInv
  <2>3. CASE IpRoutePathConnection
    <3>1. phase = "routes" /\ UNCHANGED <<cfg, networks>> BY <2>3 DEF IpRoutePathConnection
    <3>2. PICK w \in EndHostWork(cfg) :
            /\ done' = done \cup {w}
            /\ IF Routable(cfg, networks, w[2])
               THEN routes' = routes \cup RouteCommands(cfg, networks, w[2]) /\ UNCHANGED phase
               ELSE phase' = "failed" /\ UNCHANGED routes
      BY <2>3, Zenon DEF IpRoutePathConnection, Turn
    <3>3. w[2] \in AllE2e(cfg) BY WorkType
    <3>4. CASE ~Routable(cfg, networks, w[2])
      BY <3>1, <3>2, <3>4 DEF RoutedInv
    <3>5. CASE Routable(cfg, networks, w[2])
      <4>1. \A h \in AllE2e(cfg) : IsRoute(cfg, h) BY <3>1, Relied
      <4>2. networks \in Seq(NetworksOf(cfg)) BY DEF BuiltInv
      <4>3. \A r \in RouteCommands(cfg, networks, w[2]) :
              r \in RouteRecords(cfg, networks) /\ NextHop(networks, r.at, r.via)
        BY <3>3, <3>5, <4>1, <4>2, RouteCommandsOnLink
      <4>4. /\ phase' = "routes" /\ routes' = routes \cup RouteCommands(cfg, networks, w[2])
            /\ done' = done \cup {w}
        BY <3>1, <3>2, <3>5
      <4>5. \A r \in routes' : r \in RouteRecords(cfg, networks) /\ NextHop(networks, r.at, r.via)
        BY <4>3, <4>4 DEF RoutedInv
      <4>6. ASSUME NEW v \in done'
            PROVE  Routable(cfg, networks, v[2]) /\ RouteCommands(cfg, networks, v[2]) \subseteq routes'
        <5>1. CASE v = w BY <5>1, <3>5, <4>4
        <5>2. CASE v \in done BY <5>2, <3>1, <4>4 DEF RoutedInv, Routed
        <5> QED BY <5>1, <5>2, <4>4
      <4> QED BY <3>1, <4>4, <4>5, <4>6 DEF RoutedInv, Routed
    <3> QED BY <3>4, <3>5
  <2>4. CASE RoutesDone
    <3>1. /\ phase = "routes" /\ EndHostWork(cfg) \subseteq done /\ phase' = "hosts"
          /\ UNCHANGED <<cfg, networks, routes>>
      BY <2>4 DEF RoutesDone, LoopEnds
    <3>2. ASSUME NEW h \in AllE2e(cfg) PROVE Routed(h)
      <4>1. \A g \in AllE2e(cfg) : IsRoute(cfg, g) BY <3>1, Relied
      <4>2. <<h[1], h>> \in done BY <3>1, <4>1, WorkType
      <4> QED BY <3>1, <4>2 DEF RoutedInv
    <3> QED BY <3>1, <3>2 DEF RoutedInv, Routed
  <2>5. CASE ServiceHosts \/ FirewallHosts \/ HostsDone \/ AssociateDependencies \/ AdditionalCmds
    <3>1. /\ phase \in {"hosts", "dependencies", "additional"}
          /\ phase' \in {"hosts", "dependencies", "additional", "done", "failed"}
          /\ UNCHANGED <<cfg, networks, routes>>
      BY <2>5 DEF ServiceHosts, FirewallHosts, HostsDone, AssociateDependencies, AdditionalCmds, LoopEnds
    <3> QED BY <3>1 DEF RoutedInv, Routed
  <2>6. CASE UNCHANGED vars
    BY <2>6 DEF vars, RoutedInv, Routed
  <2> QED BY <2>1, <2>2, <2>3, <2>4, <2>5, <2>6 DEF Next, Step, Terminated
<1> QED BY <1>1, <1>2, BuiltInvariant, PTL DEF Spec

\* Every gateway of every "ip route" command is the address of another entity on a network
\* of the entity that gets the command: a switch in between is looked through in both
\* directions (Architecture.ip_route_path_connection).
THEOREM GatewaysOnLinkTheorem == Spec => []GatewaysOnLink
<1>1. RoutedInv => GatewaysOnLink
  <2> SUFFICES ASSUME RoutedInv, NEW r \in routes
               PROVE  /\ r.via # NoAddress /\ OnNetwork(r.at, r.via[1])
                      /\ r.via # EntityIp(networks, r.via[1], r.at)
    BY DEF GatewaysOnLink
  <2>1. NextHop(networks, r.at, r.via) BY DEF RoutedInv
  <2>2. r.via # NoAddress BY <2>1 DEF NextHop, NoAddress
  <2> QED BY <2>1, <2>2 DEF NextHop, OnNetwork
<1> QED BY <1>1, RoutedInvariant, PTL

----
(***************************************************************************)
(* modify_etc_hosts: HostsInv.                                             *)
(***************************************************************************)
\* What the ends of h learn of each other.
Entries(c, nets, h) ==
  {<<h[1], LastHop(h), EntityIp(nets, SharedNetwork(c, nets, h[Len(h) - 1], LastHop(h)), LastHop(h))>>,
   <<LastHop(h), h[1], EntityIp(nets, SharedNetwork(c, nets, h[1], h[2]), h[1])>>}

OnePerName(H) == \A t, u \in H : t[1] = u[1] /\ t[2] = u[2] => t = u
Knows(H, e, n) == \E t \in H : t[1] = e /\ t[2] = n

\* Both ends of h know the other.
Introduced(h) == Knows(hosts, h[1], LastHop(h)) /\ Knows(hosts, LastHop(h), h[1])

HostsInv ==
  /\ phase \in {"check", "networks", "routes", "rejected"} => hosts = {}
  /\ hosts \subseteq Entities(cfg) \X Entities(cfg) \X Addresses
  /\ OnePerName(hosts)
  /\ \A t \in hosts : cfg.kind[t[1]] \in EndHost =>
       \E h \in AllE2e(cfg) : t \in Entries(cfg, networks, h)
  /\ phase = "hosts" =>
       \A w \in done : cfg.kind[w[1]] \in EndHost => Introduced(w[2])
  /\ phase \in {"dependencies", "additional", "done"} =>
       \A h \in AllE2e(cfg) : Introduced(h)

\* An assignment replaces the entries with its keys and leaves the others alone.
LEMMA AssignKeeps ==
  ASSUME NEW entries, OnePerName(entries), OnePerName(hosts)
  PROVE  /\ OnePerName(Assign(entries))
         /\ Assign(entries) \subseteq hosts \cup entries
         /\ \A e, n : Knows(hosts, e, n) \/ Knows(entries, e, n) => Knows(Assign(entries), e, n)
<1> DEFINE new == Assign(entries)
<1>1. \A t : t \in new <=>
        (t \in entries \/ (t \in hosts /\ \A u \in entries : u[1] # t[1] \/ u[2] # t[2]))
  BY DEF Assign
<1> HIDE DEF new
<1>2. OnePerName(new)
  <2> SUFFICES ASSUME NEW t \in new, NEW u \in new, t[1] = u[1], t[2] = u[2] PROVE t = u
    BY DEF OnePerName
  <2>1. CASE t \in entries /\ u \in entries BY <2>1 DEF OnePerName
  <2>2. CASE t \in entries /\ u \notin entries BY <2>2, <1>1
  <2>3. CASE t \notin entries /\ u \in entries BY <2>3, <1>1
  <2>4. CASE t \notin entries /\ u \notin entries BY <2>4, <1>1 DEF OnePerName
  <2> QED BY <2>1, <2>2, <2>3, <2>4
<1>3. new \subseteq hosts \cup entries BY <1>1
<1>4. ASSUME NEW e, NEW n, Knows(hosts, e, n) \/ Knows(entries, e, n) PROVE Knows(new, e, n)
  <2>1. CASE Knows(entries, e, n)
    <3>1. PICK t \in entries : t[1] = e /\ t[2] = n BY <2>1 DEF Knows
    <3>2. t \in new BY <1>1
    <3> QED BY <3>1, <3>2 DEF Knows
  <2>2. CASE ~Knows(entries, e, n)
    <3>1. PICK t \in hosts : t[1] = e /\ t[2] = n BY <1>4, <2>2 DEF Knows
    <3>2. t \in new BY <1>1, <2>2, <3>1 DEF Knows
    <3> QED BY <3>1, <3>2 DEF Knows
  <2> QED BY <2>1, <2>2
<1> QED BY <1>2, <1>3, <1>4 DEF new

\* An entity has an address on a network, or none.
LEMMA EntityIpType ==
  ASSUME NEW k, NEW e PROVE EntityIp(networks, k, e) \in Addresses
BY DEF EntityIp, Addresses

\* One turn of the loop: entries for the owner w[1] of the connection w[2].
LEMMA AssignKeepsHosts ==
  ASSUME CheckedInv, BuiltInv, HostsInv, phase = "hosts",
         UNCHANGED <<cfg, networks, phase>>,
         NEW w, done' = done \cup {w}, NEW entries, hosts' = Assign(entries),
         entries \subseteq Entities(cfg) \X Entities(cfg) \X Addresses,
         OnePerName(entries),
         \A t \in entries : cfg.kind[t[1]] \in EndHost =>
           \E h \in AllE2e(cfg) : t \in Entries(cfg, networks, h),
         cfg.kind[w[1]] \in EndHost =>
           Knows(entries, w[2][1], LastHop(w[2])) /\ Knows(entries, LastHop(w[2]), w[2][1])
  PROVE  HostsInv'
<1>1. /\ OnePerName(hosts') /\ hosts' \subseteq hosts \cup entries
      /\ \A e, n : Knows(hosts, e, n) \/ Knows(entries, e, n) => Knows(hosts', e, n)
  BY AssignKeeps DEF HostsInv
<1>2. hosts' \subseteq Entities(cfg) \X Entities(cfg) \X Addresses BY <1>1 DEF HostsInv
<1>3. \A t \in hosts' : cfg.kind[t[1]] \in EndHost =>
        \E h \in AllE2e(cfg) : t \in Entries(cfg, networks, h)
  BY <1>1 DEF HostsInv
<1>4. ASSUME NEW v \in done', cfg.kind[v[1]] \in EndHost
      PROVE  Knows(hosts', v[2][1], LastHop(v[2])) /\ Knows(hosts', LastHop(v[2]), v[2][1])
  <2>1. CASE v = w BY <2>1, <1>1, <1>4
  <2>2. CASE v \in done
    <3>1. Introduced(v[2]) BY <1>4, <2>2 DEF HostsInv
    <3> QED BY <3>1, <1>1 DEF Introduced
  <2> QED BY <2>1, <2>2
<1>5. Addresses' = Addresses BY DEF Addresses
<1> QED BY <1>1, <1>2, <1>3, <1>4, <1>5 DEF HostsInv, Introduced

\* What a service or an external puts into /etc/hosts has a route.
LEMMA ServiceHostsKeeps ==
  ASSUME CheckedInv, BuiltInv, HostsInv, ServiceHosts, phase' # "failed"
  PROVE  HostsInv'
<1>1. phase = "hosts" /\ UNCHANGED <<cfg, networks>> BY DEF ServiceHosts
<1>2. PICK w \in HostsWork(cfg) :
        /\ cfg.kind[w[1]] \in EndHost /\ done' = done \cup {w}
        /\ LET h     == w[2]
               last  == LastHop(h)
               final == SharedNetwork(cfg, networks, h[Len(h) - 1], last)
               first == SharedNetwork(cfg, networks, h[1], h[2])
           IN  IF NoNetwork \in {final, first}
               THEN phase' = "failed" /\ UNCHANGED hosts
               ELSE /\ hosts' = Assign({<<h[1], last, EntityIp(networks, final, last)>>,
                                        <<last, h[1], EntityIp(networks, first, h[1])>>})
                    /\ UNCHANGED phase
  BY Zenon DEF ServiceHosts, Turn
<1> DEFINE h == w[2]
           S == Entries(cfg, networks, h)
<1>3. h \in AllE2e(cfg) BY WorkType
<1>4. IsRoute(cfg, h) BY <1>1, <1>3, Relied
<1>5. hosts' = Assign(S) /\ UNCHANGED phase BY <1>2 DEF Entries
<1>6. /\ h[1] \in Entities(cfg) /\ LastHop(h) \in Entities(cfg) /\ h[1] # LastHop(h)
  <2>1. Len(h) \in Nat /\ 1 \in 1 .. Len(h) /\ Len(h) \in 1 .. Len(h) /\ Len(h) # 1 /\ DOMAIN h = 1 .. Len(h)
    BY <1>4, RouteFacts DEF IsRoute
  <2>2. h[1] \in Entities(cfg) /\ h[Len(h)] \in Entities(cfg) BY <1>4, <2>1, RouteFacts
  <2>3. h[1] # h[Len(h)] BY <1>4, <2>1 DEF IsRoute
  <2> QED BY <2>2, <2>3 DEF LastHop
<1> HIDE DEF h
<1>7. S \subseteq Entities(cfg) \X Entities(cfg) \X Addresses
  BY <1>6, EntityIpType DEF Entries
<1>8. OnePerName(S) BY <1>6 DEF OnePerName, Entries
<1>9. Knows(S, h[1], LastHop(h)) /\ Knows(S, LastHop(h), h[1]) BY DEF Knows, Entries
<1> HIDE DEF S
<1>10. \A t \in S : \E g \in AllE2e(cfg) : t \in Entries(cfg, networks, g) BY <1>3 DEF S
<1>11. done' = done \cup {w} BY <1>2
<1> QED BY <1>1, <1>5, <1>7, <1>8, <1>9, <1>10, <1>11, AssignKeepsHosts DEF h

\* What a firewall puts into /etc/hosts is on a network of the connection.
LEMMA FirewallHostsKeeps ==
  ASSUME CheckedInv, BuiltInv, HostsInv, FirewallHosts, phase' # "failed"
  PROVE  HostsInv'
<1>1. phase = "hosts" /\ UNCHANGED <<cfg, networks>> BY DEF FirewallHosts
<1>2. PICK w \in HostsWork(cfg) :
        /\ cfg.kind[w[1]] = "firewall" /\ done' = done \cup {w}
        /\ LET h == w[2]
               link(i) == SharedNetwork(cfg, networks, h[i], h[i + 1])
           IN  IF \E i \in 1 .. Len(h) - 1 : link(i) = NoNetwork
               THEN phase' = "failed" /\ UNCHANGED hosts
               ELSE /\ hosts' = Assign(
                         {<<w[1], h[k], EntityIp(networks, link(IF k < Len(h) THEN k ELSE k - 1), h[k])>> :
                            k \in {i \in DOMAIN h : h[i] # w[1]}})
                    /\ UNCHANGED phase
  BY Zenon DEF FirewallHosts, Turn
<1> DEFINE h == w[2]
           ip(k) == EntityIp(networks, SharedNetwork(cfg, networks,
                      h[IF k < Len(h) THEN k ELSE k - 1], h[(IF k < Len(h) THEN k ELSE k - 1) + 1]), h[k])
           S == {<<w[1], h[k], ip(k)>> : k \in {i \in DOMAIN h : h[i] # w[1]}}
<1>3. h \in AllE2e(cfg) BY WorkType
<1>4. IsRoute(cfg, h) BY <1>1, <1>3, Relied
<1>5. hosts' = Assign(S) /\ UNCHANGED phase BY <1>2
<1>6. \A k \in DOMAIN h : h[k] \in Entities(cfg) BY <1>4, RouteFacts
<1>7. \A k, m \in DOMAIN h : h[k] = h[m] => k = m BY <1>4 DEF IsRoute
<1>8. \A k : ip(k) \in Addresses BY EntityIpType
<1>9. w[1] \in Entities(cfg)
  <2>1. w \in UNION {{f} \X E2eConns(cfg, f) : f \in {e \in Entities(cfg) : cfg.kind[e] = "firewall"}}
          \/ \E g \in AllE2e(cfg) : w = <<g[1], g>>
    BY DEF HostsWork
  <2>2. \A g \in AllE2e(cfg) : g[1] \in Entities(cfg) BY <1>1, Relied, RouteFacts DEF IsRoute
  <2> QED BY <2>1, <2>2
<1> HIDE DEF h, ip
<1>10. S \subseteq Entities(cfg) \X Entities(cfg) \X Addresses BY <1>6, <1>8, <1>9
<1>11. OnePerName(S) BY <1>7 DEF OnePerName
<1>12. cfg.kind[w[1]] \notin EndHost BY <1>2 DEF EndHost
<1>13. \A t \in S : t[1] = w[1] OBVIOUS
<1> HIDE DEF S
<1>14. done' = done \cup {w} BY <1>2
<1> QED BY <1>1, <1>5, <1>10, <1>11, <1>12, <1>13, <1>14, AssignKeepsHosts

\* What end hosts know comes from a connection, and the ends of those met so far are known.
LEMMA HostsInvariant == Spec => [](CheckedInv /\ BuiltInv /\ RoutedInv /\ HostsInv)
<1>1. Init => HostsInv
  BY DEF Init, HostsInv, OnePerName
<1>2. CheckedInv /\ BuiltInv /\ HostsInv /\ [Next]_vars => HostsInv'
  <2> SUFFICES ASSUME CheckedInv, BuiltInv, HostsInv, [Next]_vars PROVE HostsInv'
    OBVIOUS
  <2>1. CASE Check \/ TakeConnection \/ AddL3 \/ AddL2 \/ NetworksDone
    <3>1. /\ phase \in {"check", "networks"} /\ phase' \in {"networks", "rejected", "routes"}
          /\ hosts' = hosts
      BY <2>1 DEF Check, TakeConnection, AddL3, AddL2, NetworksDone, LoopEnds
    <3>2. hosts' = {} BY <3>1 DEF HostsInv
    <3> QED BY <3>1, <3>2 DEF HostsInv, OnePerName
  <2>2. CASE IpRoutePathConnection \/ RoutesDone
    <3>1. /\ phase = "routes" /\ phase' \in {"routes", "failed", "hosts"} /\ hosts' = hosts
          /\ phase' = "hosts" => done' = {}
      BY <2>2 DEF IpRoutePathConnection, RoutesDone, LoopEnds
    <3>2. hosts' = {} BY <3>1 DEF HostsInv
    <3> QED BY <3>1, <3>2 DEF HostsInv, OnePerName
  <2>3. CASE (ServiceHosts \/ FirewallHosts) /\ phase' # "failed"
    BY <2>3, ServiceHostsKeeps, FirewallHostsKeeps
  <2>4. CASE (ServiceHosts \/ FirewallHosts) /\ phase' = "failed"
    <3>1. UNCHANGED <<cfg, networks, hosts>>
      BY <2>4 DEF ServiceHosts, FirewallHosts
    <3> QED BY <3>1, <2>4 DEF HostsInv, Addresses
  <2>5. CASE HostsDone
    <3>1. /\ phase = "hosts" /\ HostsWork(cfg) \subseteq done /\ phase' = "dependencies"
          /\ UNCHANGED <<cfg, networks, hosts>>
      BY <2>5 DEF HostsDone, LoopEnds
    <3>2. ASSUME NEW h \in AllE2e(cfg) PROVE Introduced(h)
      <4>1. \A g \in AllE2e(cfg) : IsRoute(cfg, g) BY <3>1, Relied
      <4>2. <<h[1], h>> \in done BY <3>1, <4>1, WorkType
      <4>3. cfg.kind[h[1]] \in EndHost BY <4>1 DEF IsRoute
      <4> QED BY <3>1, <4>2, <4>3 DEF HostsInv
    <3> QED BY <3>1, <3>2 DEF HostsInv, Introduced, Addresses
  <2>6. CASE AssociateDependencies \/ AdditionalCmds
    <3>1. /\ phase \in {"dependencies", "additional"} /\ phase' \in {"additional", "done", "failed"}
          /\ UNCHANGED <<cfg, networks, hosts>>
      BY <2>6 DEF AssociateDependencies, AdditionalCmds
    <3> QED BY <3>1 DEF HostsInv, Introduced, Addresses
  <2>7. CASE UNCHANGED vars
    BY <2>7 DEF vars, HostsInv, Introduced, Addresses
  <2> QED BY <2>1, <2>2, <2>3, <2>4, <2>5, <2>6, <2>7 DEF Next, Step, Terminated
<1> QED BY <1>1, <1>2, RoutedInvariant, PTL DEF Spec

\* An end that learned an address in h has a route for its network.
LEMMA LearnedReachable ==
  ASSUME NEW h \in AllE2e(cfg), IsRoute(cfg, h), Routed(h), \A g \in AllE2e(cfg) : IsRoute(cfg, g),
         networks \in Seq(NetworksOf(cfg)), NEW t \in Entries(cfg, networks, h)
  PROVE  EntityIp(networks, t[3][1], t[2]) = t[3] /\ Reaches(t[1], t[3][1])
<1> DEFINE last  == Len(h)
           final == SharedNetwork(cfg, networks, h[last - 1], h[last])
           first == SharedNetwork(cfg, networks, h[1], h[2])
<1>1. /\ last \in Nat /\ last >= 2 /\ DOMAIN h = 1 .. last /\ last # 1
      /\ last - 1 \in 1 .. last - 1 /\ 1 \in 1 .. last - 1 /\ last - 1 + 1 = last /\ 1 + 1 = 2
      /\ 1 \in 1 .. last /\ last \in 1 .. last
      /\ ~IsSwitch(cfg, h[1]) /\ ~IsSwitch(cfg, h[last])
      /\ \A i, j \in 1 .. last : h[i] = h[j] => i = j
  BY RouteFacts DEF IsRoute
<1>2. last \in L3Positions(cfg, h) \ {1} /\ 1 \in L3Positions(cfg, h) \ {last}
  BY <1>1 DEF L3Positions
<1>3. final # NoNetwork /\ first # NoNetwork BY <1>1 DEF Routed, Routable
<1>4. /\ final \in DOMAIN networks /\ first \in DOMAIN networks
      /\ {h[last - 1], h[last]} \subseteq Range(networks[final].hops)
      /\ {h[1], h[2]} \subseteq Range(networks[first].hops)
  BY <1>3, NetworkJoins
<1>5. \E r \in routes : r.at = h[1] /\ r.dst = final
  <2> DEFINE r == [ at |-> h[1], dst |-> final, via |-> Gateway(cfg, networks, h, 1, 1 + 1, NextL3(cfg, h, 1)),
                    slots |-> IF UsesIoam(cfg) /\ 1 = 1 THEN last ELSE 0 ]
  <2>1. r \in RouteCommands(cfg, networks, h) BY <1>2, Zenon DEF RouteCommands
  <2> QED BY <2>1 DEF Routed
<1>6. \E r \in routes : r.at = h[last] /\ r.dst = first
  <2> DEFINE r == [ at |-> h[last], dst |-> first,
                    via |-> Gateway(cfg, networks, h, last, last - 1, PrevL3(cfg, h, last)), slots |-> 0 ]
  <2>1. r \in RouteCommands(cfg, networks, h) BY <1>2, Zenon DEF RouteCommands
  <2> QED BY <2>1 DEF Routed
<1>7. ASSUME NEW e, e \in {h[1], h[last]}, NEW k \in DOMAIN networks, e \in Range(networks[k].hops)
      PROVE  EntityIp(networks, k, e)[1] = k
  <2> DEFINE x == networks[k].hops
  <2>1. IsSegment(cfg, x) BY NetworkShape
  <2>6. e \in Range(x) /\ EntityIp(networks, k, e) \in
          {IF x[1] = e THEN <<k, 1>> ELSE IF x[Len(x)] = e THEN <<k, 2>> ELSE NoAddress}
    BY <1>7 DEF EntityIp, LastHop
  <2> HIDE DEF x
  <2>2. Len(x) \in Nat /\ DOMAIN x = 1 .. Len(x) /\ Len(x) >= 2 BY <2>1 DEF IsSegment
  <2>3. PICK i \in 1 .. Len(x) : x[i] = e BY <2>2, <2>6 DEF Range
  <2>4. i = 1 \/ i = Len(x) \/ i \in 2 .. Len(x) - 1
    <3>1. i \in Int /\ Len(x) \in Int BY <2>2
    <3> QED BY <3>1, Between, Zenon
  <2>5. e = x[1] \/ e = x[Len(x)] BY <1>1, <1>7, <2>1, <2>3, <2>4 DEF IsSegment
  <2> QED BY <2>5, <2>6
<1> HIDE DEF final, first
<1>8. EntityIp(networks, final, h[last])[1] = final BY <1>4, <1>7
<1>9. EntityIp(networks, first, h[1])[1] = first BY <1>4, <1>7
<1>10. CASE t = <<h[1], h[last], EntityIp(networks, final, h[last])>>
  BY <1>5, <1>8, <1>10 DEF Reaches
<1>11. CASE t = <<h[last], h[1], EntityIp(networks, first, h[1])>>
  BY <1>6, <1>9, <1>11 DEF Reaches
<1> QED BY <1>10, <1>11 DEF Entries, LastHop, final, first

\* Both ends of every connection know exactly one address of the other, the address of an
\* interface it has, on a network they are on or have a route for, although connections
\* overwrite the entries of each other and are met in any order
\* (Architecture.modify_etc_hosts against ip_route_path_connection).
THEOREM HostsReachableTheorem == Spec => []HostsReachable
<1>1. CheckedInv /\ BuiltInv /\ RoutedInv /\ HostsInv => HostsReachable
  <2> SUFFICES ASSUME CheckedInv, BuiltInv, RoutedInv, HostsInv, phase = "done",
                      NEW h \in AllE2e(cfg), NEW d \in {<<h[1], LastHop(h)>>, <<LastHop(h), h[1]>>}
               PROVE  LET known == {t \in hosts : t[1] = d[1] /\ t[2] = d[2]} IN
                      /\ Cardinality(known) = 1
                      /\ \A t \in known : EntityIp(networks, t[3][1], d[2]) = t[3] /\ Reaches(d[1], t[3][1])
    BY DEF HostsReachable
  <2> DEFINE known == {t \in hosts : t[1] = d[1] /\ t[2] = d[2]}
  <2>1. \A g \in AllE2e(cfg) : IsRoute(cfg, g) /\ Routed(g) BY Relied DEF RoutedInv
  <2>2. PICK u \in known : TRUE
    <3>1. Introduced(h) BY DEF HostsInv
    <3> QED BY <3>1 DEF Introduced, Knows
  <2>3. known = {u} BY <2>2 DEF HostsInv, OnePerName
  <2>4. Cardinality(known) = 1 BY <2>3, FS_Singleton
  <2>5. cfg.kind[d[1]] \in EndHost BY <2>1 DEF IsRoute, LastHop
  <2>6. ASSUME NEW t \in known
        PROVE  EntityIp(networks, t[3][1], d[2]) = t[3] /\ Reaches(d[1], t[3][1])
    <3>1. t \in hosts /\ t[1] = d[1] /\ t[2] = d[2] OBVIOUS
    <3>2. PICK g \in AllE2e(cfg) : t \in Entries(cfg, networks, g) BY <2>5, <3>1 DEF HostsInv
    <3>3. EntityIp(networks, t[3][1], t[2]) = t[3] /\ Reaches(t[1], t[3][1])
      BY <2>1, <3>2, LearnedReachable DEF BuiltInv
    <3> QED BY <3>1, <3>3
  <2> QED BY <2>4, <2>6
<1> QED BY <1>1, HostsInvariant, PTL

----
(***************************************************************************)
(* Types.                                                                  *)
(***************************************************************************)
DependsInv == depends \in [Entities(cfg) -> SUBSET Names]

\* What an entity depends on are names.
LEMMA DependsInvariant == Spec => []DependsInv
<1>1. Init => DependsInv
  BY DEF Init, DependsInv
<1>2. CheckedInv /\ DependsInv /\ [Next]_vars => DependsInv'
  <2> SUFFICES ASSUME CheckedInv, DependsInv, [Next]_vars PROVE DependsInv'
    OBVIOUS
  <2>1. CASE AssociateDependencies
    <3>1. /\ phase = "dependencies" /\ cfg' = cfg
          /\ depends' = [e \in DOMAIN depends |-> DependsOn(cfg, e)]
      BY <2>1 DEF AssociateDependencies
    <3>2. IsConfig(cfg) /\ CheckConfig(cfg) BY <3>1, Relied
    <3>3. \A e \in Entities(cfg) : DependsOn(cfg, e) \subseteq Entities(cfg)
      BY <3>2, DependenciesAcyclic
    <3>4. Entities(cfg) \subseteq Names BY <3>2 DEF IsConfig, Entities
    <3> QED BY <3>1, <3>3, <3>4 DEF DependsInv
  <2>2. CASE UNCHANGED <<cfg, depends>> BY <2>2 DEF DependsInv
  <2>3. Check \/ TakeConnection \/ AddL3 \/ AddL2 \/ NetworksDone => UNCHANGED <<cfg, depends>>
    BY DEF Check, TakeConnection, AddL3, AddL2, NetworksDone
  <2>4. IpRoutePathConnection \/ RoutesDone \/ ServiceHosts => UNCHANGED <<cfg, depends>>
    BY DEF IpRoutePathConnection, RoutesDone, ServiceHosts
  <2>5. FirewallHosts \/ HostsDone \/ AdditionalCmds \/ UNCHANGED vars => UNCHANGED <<cfg, depends>>
    BY DEF FirewallHosts, HostsDone, AdditionalCmds, vars
  <2> QED BY <2>1, <2>2, <2>3, <2>4, <2>5 DEF Next, Step, Terminated
<1> QED BY <1>1, <1>2, CheckedInvariant, PTL DEF Spec

\* Every variable of the generator keeps its type: in particular, every reference of a
\* route, a host entry or an interface to a network is to one that exists.
THEOREM ArchitectureTypeOK == Spec => []TypeOK
<1>1. CheckedInv /\ BuiltInv /\ RoutedInv /\ HostsInv /\ NumberedInv /\ DependsInv => TypeOK
  <2> SUFFICES ASSUME CheckedInv, BuiltInv, RoutedInv, HostsInv, NumberedInv, DependsInv PROVE TypeOK
    OBVIOUS
  <2>1. IsConfig(cfg) BY ConfigsAssumption DEF CheckedInv
  <2>2. phase \in Phases \cup Outcomes BY DEF BuiltInv
  <2>3. phase \notin {"check", "rejected"} => \A h \in AllE2e(cfg) : h \in Seq(Entities(cfg))
    BY Relied DEF IsRoute
  <2>4. conn \in Seq(Entities(cfg)) /\ pos \in 0 .. Len(conn)
    <3>1. CASE conn = <<>> /\ pos = 0 BY <3>1
    <3>2. CASE conn # <<>> \/ pos # 0
      <4>1. phase = "networks" /\ conn \in AllE2e(cfg) /\ pos \in 1 .. Len(conn)
        BY <3>2 DEF BuiltInv, Located
      <4>2. conn \in Seq(Entities(cfg)) BY <2>3, <4>1
      <4>3. \A n \in Nat : 1 .. n \subseteq 0 .. n OBVIOUS
      <4>4. Len(conn) \in Nat BY <4>2
      <4> QED BY <4>1, <4>2, <4>3, <4>4, Zenon
    <3> QED BY <3>1, <3>2
  <2>5. done \subseteq Entities(cfg) \X Seq(Entities(cfg))
    <3>1. CASE phase \in {"check", "rejected"} BY <3>1 DEF BuiltInv
    <3>2. CASE phase \notin {"check", "rejected"} BY <2>3, <3>2 DEF BuiltInv
    <3> QED BY <3>1, <3>2
  <2>6. networks \in Seq([ name : Seq(Words), layer : {2, 3},
                          hops : Seq(Entities(cfg)), vlans : Seq(Nat) ])
    <3>1. NetworksOf(cfg) \subseteq NetworkRecords(cfg) BY DEF NetworksOf
    <3>2. networks \in Seq(NetworkRecords(cfg)) BY <3>1 DEF BuiltInv
    <3> QED BY <3>2 DEF NetworkRecords
  <2>7. attached \in [Entities(cfg) -> Seq(DOMAIN networks)]
    <3>1. attached \in [Entities(cfg) -> Seq(Nat)] BY DEF NumberedInv
    <3>2. ASSUME NEW e \in Entities(cfg) PROVE attached[e] \in Seq(DOMAIN networks)
      <4>1. attached[e] \in Seq(Nat) BY <3>1
      <4>2. \A i \in DOMAIN attached[e] : attached[e][i] \in DOMAIN networks
        BY DEF NumberedInv, AttachedInOrder, Range
      <4> QED BY <4>1, <4>2
    <3> QED BY <3>1, <3>2
  <2>8. routes \subseteq [ at : Entities(cfg), dst : DOMAIN networks, via : Addresses, slots : Nat ]
    BY DEF RoutedInv, RouteRecords, Addresses
  <2>9. hosts \subseteq Entities(cfg) \X Entities(cfg) \X Addresses BY DEF HostsInv
  <2>10. depends \in [Entities(cfg) -> SUBSET Names] BY DEF DependsInv
  <2> QED BY <2>1, <2>2, <2>4, <2>5, <2>6, <2>7, <2>8, <2>9, <2>10 DEF TypeOK
<1> QED BY <1>1, HostsInvariant, NumberedInvariant, DependsInvariant, PTL

----
(***************************************************************************)
(* Vlans.                                                                  *)
(***************************************************************************)
\* No switch gives a vlan for itself: check_config does not refuse it, and create_interface
\* then takes it for the vlan of each of the switch's own interfaces.
NoOwnVlan(c) == \A s \in Entities(c) : IsSwitch(c, s) => c.vlan[s][s] = 0

\* The vlans of the interfaces of the first three or four hops, two switches at most.
LEMMA FirstVlans ==
  ASSUME NEW c, NoOwnVlan(c), NEW h, IsRoute(c, h),
         NEW j \in {3, 4}, j <= Len(h), ~IsSwitch(c, h[j]),
         \A k \in 2 .. j - 1 : IsSwitch(c, h[k]),
         NEW m \in 1 .. j - 1
  PROVE  /\ IsSwitch(c, h[m]) => InterfaceVlan(c, h, j, m + 1) = c.vlan[h[m]][h[m + 1]]
         /\ IsSwitch(c, h[m + 1]) => InterfaceVlan(c, h, j, m) = c.vlan[h[m + 1]][h[m]]
<1>1. /\ Len(h) \in Nat /\ DOMAIN h = 1 .. Len(h) /\ ~IsSwitch(c, h[1])
      /\ \A k \in 1 .. Len(h) : h[k] \in Entities(c)
  BY RouteFacts
<1>2. 0 \notin DOMAIN h /\ \A k \in 1 .. 4 : k <= j => k \in DOMAIN h BY <1>1
<1>3. \A k \in DOMAIN h : VlanAt(c, h, k, h[k]) = 0 BY <1>1 DEF VlanAt, NoOwnVlan
<1>4. \A k : k \notin DOMAIN h \/ ~IsSwitch(c, h[k]) => \A e : VlanAt(c, h, k, e) = 0 BY DEF VlanAt
<1>5. \A k \in DOMAIN h : IsSwitch(c, h[k]) => \A e : VlanAt(c, h, k, e) = c.vlan[h[k]][e] BY DEF VlanAt
<1>6. \A k \in DOMAIN h : InterfaceVlan(c, h, j, k) =
        LET end == IF k < j THEN VlanAt(c, h, k + 1, h[k]) ELSE 0
        IN  IF end # 0 THEN end ELSE VlanAt(c, h, k - 1, h[k])
  BY <1>3 DEF InterfaceVlan
<1>7. InterfaceVlan(c, h, j, 1) = VlanAt(c, h, 2, h[1])
  <2>1. 1 \in DOMAIN h /\ 1 < j /\ 1 + 1 = 2 /\ 1 - 1 = 0 BY <1>2
  <2>2. VlanAt(c, h, 0, h[1]) = 0 BY <1>2, <1>4
  <2> QED BY <1>6, <2>1, <2>2
<1>8. InterfaceVlan(c, h, j, j) = VlanAt(c, h, j - 1, h[j])
  <2>1. j \in DOMAIN h /\ ~(j < j) BY <1>2
  <2> QED BY <1>6, <2>1
<1>9. CASE j = 3
  <2>1. m \in {1, 2} BY <1>9
  <2>2. IsSwitch(c, h[2]) /\ 2 \in DOMAIN h BY <1>2, <1>9
  <2> QED BY <1>1, <1>5, <1>7, <1>8, <1>9, <2>1, <2>2
<1>10. CASE j = 4
  <2>1. m \in {1, 2, 3} BY <1>10
  <2>2. IsSwitch(c, h[2]) /\ IsSwitch(c, h[3]) /\ {1, 2, 3, 4} \subseteq DOMAIN h BY <1>2, <1>10
  <2>3. InterfaceVlan(c, h, j, 2) = VlanAt(c, h, 3, h[2])
    <3>1. VlanAt(c, h, 1, h[2]) = 0 BY <1>1, <1>4
    <3>2. 2 < j /\ 2 + 1 = 3 /\ 2 - 1 = 1 BY <1>10
    <3> QED BY <1>6, <2>2, <3>1, <3>2
  <2>4. InterfaceVlan(c, h, j, 3) = VlanAt(c, h, 2, h[3])
    <3>1. VlanAt(c, h, 4, h[3]) = 0 BY <1>4, <1>10
    <3>2. 3 < j /\ 3 + 1 = 4 /\ 3 - 1 = 2 BY <1>10
    <3> QED BY <1>6, <2>2, <3>1, <3>2
  <2> QED BY <1>1, <1>5, <1>7, <1>8, <1>10, <2>1, <2>2, <2>3, <2>4
<1> QED BY <1>9, <1>10

\* When a connection starts with one or two switches in line, every port of a switch is
\* tagged as its neighbors list says (create_interface and export_compose_l2), unless a
\* switch gives a vlan for itself.
THEOREM FirstPortsTaggedTheorem == Spec => [](NoOwnVlan(cfg) => FirstPortsTagged)
<1>1. CheckedInv /\ BuiltInv /\ NoOwnVlan(cfg) => FirstPortsTagged
  <2> SUFFICES ASSUME CheckedInv, BuiltInv, NoOwnVlan(cfg), NEW k \in DOMAIN networks,
                      cfg.kind[networks[k].hops[1]] \in EndHost, Len(networks[k].hops) \in {3, 4}
               PROVE  TaggedAsConfigured(networks[k])
    BY DEF FirstPortsTagged
  <2> DEFINE n == networks[k]
             x == n.hops
  <2>1. n \in NetworksOf(cfg) BY DEF BuiltInv
  <2>2. networks # <<>> BY DEF BuiltInv
  <2>3. \A h \in AllE2e(cfg) : IsRoute(cfg, h) BY <2>2, Relied DEF BuiltInv
  <2>4. PICK h \in AllE2e(cfg) : \E i \in Starts(cfg, h) : MadeFor(cfg, n, h, i) BY <2>1 DEF NetworksOf
  <2>5. PICK i \in Starts(cfg, h) : MadeFor(cfg, n, h, i) BY <2>4
  <2> DEFINE j == NextL3(cfg, h, i)
  <2>6. /\ i \in 1 .. Len(h) - 1 /\ Len(x) = j - i + 1 /\ DOMAIN x = 1 .. j - i + 1
        /\ \A m \in 1 .. j - i + 1 : x[m] = h[m + i - 1]
        /\ IsSegment(cfg, x)
    BY <2>3, <2>5, SegmentShape DEF MadeFor
  <2>7. /\ j \in i + 1 .. Len(h) /\ ~IsSwitch(cfg, h[j]) /\ Len(h) \in Nat
        /\ \A m \in i + 1 .. j - 1 : IsSwitch(cfg, h[m])
    BY <2>3, <2>6, NextL3Exists, RouteFacts
  <2>8. n.vlans = IF j = i + 1 THEN <<0, 0>>
                  ELSE [m \in 1 .. j - i + 1 |-> InterfaceVlan(cfg, h, j, m + i - 1)]
    BY <2>5 DEF MadeFor
  <2>9. cfg.kind[x[1]] \in EndHost /\ Len(x) \in {3, 4} OBVIOUS
  <2> HIDE DEF n, x, j
  <2>10. i = 1
    <3>1. i \in Int /\ j \in Int /\ 1 \in 1 .. j - i + 1 /\ 1 + i - 1 = i BY <2>6, <2>7
    <3>2. cfg.kind[h[i]] \in EndHost BY <2>6, <2>9, <3>1
    <3>3. i \in 1 .. Len(h) /\ i # Len(h) BY <2>6, <2>7
    <3> QED BY <2>3, <3>2, <3>3, RouteFacts
  <2>11. /\ j \in {3, 4} /\ j <= Len(h) /\ DOMAIN x = 1 .. j /\ Len(x) = j
         /\ \A m \in 1 .. j : x[m] = h[m]
    BY <2>6, <2>7, <2>9, <2>10
  <2>12. \A m \in 1 .. j : n.vlans[m] = InterfaceVlan(cfg, h, j, m)
    <3>1. j # i + 1 /\ 1 .. j - i + 1 = 1 .. j BY <2>10, <2>11
    <3>2. n.vlans = [m \in 1 .. j |-> InterfaceVlan(cfg, h, j, m + i - 1)] BY <2>8, <3>1
    <3>3. ASSUME NEW m \in 1 .. j PROVE n.vlans[m] = InterfaceVlan(cfg, h, j, m)
      <4>1. m + i - 1 = m BY <2>10, <2>11
      <4>2. n.vlans[m] = InterfaceVlan(cfg, h, j, m + i - 1) BY <3>2
      <4> QED BY <4>1, <4>2
    <3> QED BY <3>3
  <2>13. ASSUME NEW m \in 1 .. j PROVE PortTag(n, x[m]) = InterfaceVlan(cfg, h, j, m)
    <3>1. (CHOOSE q \in DOMAIN x : x[q] = x[m]) = m BY <2>6, <2>11 DEF IsSegment
    <3> QED BY <2>12, <3>1 DEF PortTag, EntityVlan, x
  <2>14. ASSUME NEW m \in 1 .. Len(x) - 1
         PROVE  /\ IsSwitch(cfg, x[m]) => PortTag(n, x[m + 1]) = cfg.vlan[x[m]][x[m + 1]]
                /\ IsSwitch(cfg, x[m + 1]) => PortTag(n, x[m]) = cfg.vlan[x[m + 1]][x[m]]
    <3>1. m \in 1 .. j - 1 /\ m \in 1 .. j /\ m + 1 \in 1 .. j BY <2>11
    <3>2. \A q \in 2 .. j - 1 : IsSwitch(cfg, h[q]) BY <2>7, <2>10
    <3>3. /\ IsSwitch(cfg, h[m]) => InterfaceVlan(cfg, h, j, m + 1) = cfg.vlan[h[m]][h[m + 1]]
          /\ IsSwitch(cfg, h[m + 1]) => InterfaceVlan(cfg, h, j, m) = cfg.vlan[h[m + 1]][h[m]]
      BY <2>3, <2>7, <2>11, <3>1, <3>2, FirstVlans
    <3> QED BY <2>11, <2>13, <3>1, <3>3
  <2> QED BY <2>14 DEF TaggedAsConfigured, n, x
<1> QED BY <1>1, BuiltInvariant, PTL
====
