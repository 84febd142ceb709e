---- MODULE ForwardingProofs ----
(***************************************************************************)
(* Proofs about packets in a generated topology, for any configurations    *)
(* and whichever of the competing routes win: packets are not lost and do  *)
(* not go round in circles.                                                *)
(***************************************************************************)
EXTENDS Forwarding, ArchitectureProofs

----
(***************************************************************************)
(* An order of the nodes of a graph without cycles.                        *)
(***************************************************************************)
\* b is ahead of a: it is in every set that holds what follows a and its own members.
Ahead(nodes, edges, a, b) ==
  \A S \in SUBSET nodes :
    (\A t \in edges : t[1] = a \/ t[1] \in S => t[2] \in S) => b \in S

\* What is ahead of a node ahead is ahead.
LEMMA AheadTransitive ==
  ASSUME NEW nodes, NEW edges, NEW a, NEW b, NEW d,
         Ahead(nodes, edges, a, b), Ahead(nodes, edges, b, d)
  PROVE  Ahead(nodes, edges, a, d)
<1> SUFFICES ASSUME NEW S \in SUBSET nodes,
                    \A t \in edges : t[1] = a \/ t[1] \in S => t[2] \in S
             PROVE  d \in S
  BY DEF Ahead
<1>1. b \in S
  BY DEF Ahead
<1>2. QED
  BY <1>1 DEF Ahead

\* No node is ahead of itself: the nodes that lead to it would have no exit.
LEMMA AheadOfItself ==
  ASSUME NEW nodes, NEW edges, edges \subseteq nodes \X nodes, Acyclic(nodes, edges), NEW a \in nodes
  PROVE  ~Ahead(nodes, edges, a, a)
<1> SUFFICES ASSUME Ahead(nodes, edges, a, a) PROVE FALSE
  OBVIOUS
<1> DEFINE C == {n \in nodes : Ahead(nodes, edges, n, a)}
           S == nodes \ C
<1>1. C \in (SUBSET nodes) \ {{}}
  OBVIOUS
<1>2. PICK n \in C : \A m \in C : <<n, m>> \notin edges
  BY <1>1 DEF Acyclic
<1>3. ASSUME NEW t \in edges, t[2] \in C PROVE t[1] \in C
  <2>1. t = <<t[1], t[2]>> /\ t[1] \in nodes
    OBVIOUS
  <2>2. Ahead(nodes, edges, t[1], t[2])
    BY DEF Ahead
  <2>3. Ahead(nodes, edges, t[1], a)
    BY <1>3, <2>2, AheadTransitive
  <2>4. QED
    BY <2>1, <2>3
<1>4. \A t \in edges : t[1] = n \/ t[1] \in S => t[2] \in S
  <2> SUFFICES ASSUME NEW t \in edges, t[1] = n \/ t[1] \in S PROVE t[2] \in S
    OBVIOUS
  <2>1. t = <<t[1], t[2]>> /\ t[2] \in nodes
    OBVIOUS
  <2> HIDE DEF C
  <2>2. t[2] \notin C
    BY <1>2, <1>3, <2>1
  <2>3. QED
    BY <2>1, <2>2
<1>5. a \in S
  <2>1. Ahead(nodes, edges, n, a)
    BY <1>2
  <2>2. S \in SUBSET nodes
    OBVIOUS
  <2> HIDE DEF S
  <2>3. QED
    BY <2>1, <2>2, <1>4 DEF Ahead
<1>6. QED
  BY <1>5

\* On a walk, what comes later is ahead.
LEMMA WalkAhead ==
  ASSUME NEW nodes, NEW edges, NEW h \in Seq(nodes),
         \A k \in 1 .. Len(h) - 1 : <<h[k], h[k + 1]>> \in edges,
         NEW i \in DOMAIN h, NEW j \in DOMAIN h, i < j
  PROVE  Ahead(nodes, edges, h[i], h[j])
<1> SUFFICES ASSUME NEW S \in SUBSET nodes,
                    \A t \in edges : t[1] = h[i] \/ t[1] \in S => t[2] \in S,
                    h[j] \notin S
             PROVE  FALSE
  BY DEF Ahead
<1> DEFINE T == {k \in i + 1 .. j : h[k] \notin S}
<1>1. T \subseteq Nat /\ j \in T
  OBVIOUS
<1>2. PICK k \in T : \A m \in T : k <= m
  BY <1>1, SmallestExists
<1>3. k - 1 \in 1 .. Len(h) - 1 /\ (k - 1) + 1 = k
  OBVIOUS
<1>4. <<h[k - 1], h[k]>> \in edges
  BY <1>3
<1>5. k - 1 = i \/ (k - 1 \in i + 1 .. j /\ k - 1 \notin T)
  BY <1>2
<1>6. h[k - 1] = h[i] \/ h[k - 1] \in S
  BY <1>5
<1>7. h[k] \in S
  BY <1>4, <1>6
<1>8. QED
  BY <1>7

----
(***************************************************************************)
(* The order the connections give the entities.                            *)
(***************************************************************************)
\* The links of the connections.
Links(c) == UNION {{<<h[i], h[i + 1]>> : i \in 1 .. Len(h) - 1} : h \in AllE2e(c)}

Before(c, a, b) == Ahead(Entities(c), Links(c), a, b)

\* The connections agree on who comes before whom.
LEMMA ConnectionsOrdered ==
  ASSUME NEW c, IsConfig(c), CheckConfig(c)
  PROVE  /\ \A e \in Entities(c) : ~Before(c, e, e)
         /\ \A a, b, d : Before(c, a, b) /\ Before(c, b, d) => Before(c, a, d)
         /\ \A h \in AllE2e(c) : \A i, j \in 1 .. Len(h) : i < j => Before(c, h[i], h[j])
<1>1. ASSUME NEW h \in AllE2e(c), NEW i \in 1 .. Len(h) - 1
      PROVE  <<h[i], h[i + 1]>> \in Graph(c)
  <2>1. PICK e \in Entities(c) : c.kind[e] \in EndHost /\ \E p \in ExtractConnections(c, e) : h = Hops(e, p)
    BY DEF AllE2e
  <2>2. QED
    BY <2>1, HopsInGraph
<1>2. Links(c) \subseteq Graph(c)
  BY <1>1 DEF Links
<1>3. Acyclic(Entities(c), Links(c))
  <2>1. Acyclic(Entities(c), Graph(c))
    BY DEF CheckConfig, NoCycles
  <2>2. QED
    BY <1>2, <2>1 DEF Acyclic
<1>4. \A h \in AllE2e(c) : h \in Seq(Entities(c)) /\ Len(h) \in Nat /\ DOMAIN h = 1 .. Len(h)
  BY E2eAreRoutes DEF IsRoute
<1>5. Links(c) \subseteq Entities(c) \X Entities(c)
  <2> SUFFICES ASSUME NEW h \in AllE2e(c), NEW i \in 1 .. Len(h) - 1
               PROVE  h[i] \in Entities(c) /\ h[i + 1] \in Entities(c)
    BY DEF Links
  <2>1. i \in 1 .. Len(h) /\ i + 1 \in 1 .. Len(h)
    BY <1>4
  <2>2. QED
    BY <1>4, <2>1
<1>6. \A e \in Entities(c) : ~Before(c, e, e)
  BY <1>3, <1>5, AheadOfItself DEF Before
<1>7. ASSUME NEW h \in AllE2e(c), NEW i \in 1 .. Len(h), NEW j \in 1 .. Len(h), i < j
      PROVE  Before(c, h[i], h[j])
  <2>1. \A k \in 1 .. Len(h) - 1 : <<h[k], h[k + 1]>> \in Links(c)
    BY DEF Links
  <2>2. QED
    BY <1>4, <1>7, <2>1, WalkAhead DEF Before
<1>8. QED
  BY <1>6, <1>7, AheadTransitive DEF Before

----
(***************************************************************************)
(* The ends of networks and of connections.                                *)
(***************************************************************************)
\* The network of the last link of h, and that of its first link.
Dest(c, nets, h) == SharedNetwork(c, nets, h[Len(h) - 1], h[Len(h)])
Src(c, nets, h) == SharedNetwork(c, nets, h[1], h[2])

\* The addresses of a network belong to its two ends, which are no switches.
LEMMA NetworkEnds ==
  ASSUME NEW c, \A h \in AllE2e(c) : IsRoute(c, h),
         NEW nets \in Seq(NetworksOf(c)), NEW k \in DOMAIN nets
  PROVE  LET x == nets[k].hops IN
         /\ IsSegment(c, x) /\ x \in AllSegments(c) /\ nets[k].name = NetName(x)
         /\ Len(x) \in Nat /\ Len(x) >= 2 /\ DOMAIN x = 1 .. Len(x)
         /\ x[1] \in Entities(c) /\ LastHop(x) \in Entities(c) /\ x[1] # LastHop(x)
         /\ EntityIp(nets, k, x[1]) = <<k, 1>> /\ EntityIp(nets, k, LastHop(x)) = <<k, 2>>
         /\ \A e : EntityIp(nets, k, e) # NoAddress => e = x[1] \/ e = LastHop(x)
         /\ \A e \in Range(x) : ~IsSwitch(c, e) => e = x[1] \/ e = LastHop(x)
<1> DEFINE x == nets[k].hops
<1>1. nets[k] \in NetworksOf(c)
  OBVIOUS
<1>2. IsSegment(c, x) /\ x \in AllSegments(c) /\ nets[k].name = NetName(x)
  BY <1>1, NetworkShape
<1>3. \A e : EntityIp(nets, k, e) = IF x[1] = e THEN <<k, 1>> ELSE IF LastHop(x) = e THEN <<k, 2>> ELSE NoAddress
  BY DEF EntityIp
<1> HIDE DEF x
<1>4. x \in Seq(Entities(c)) /\ Len(x) \in Nat /\ Len(x) >= 2 /\ DOMAIN x = 1 .. Len(x)
  BY <1>2 DEF IsSegment
<1>5. x[1] \in Entities(c) /\ x[Len(x)] \in Entities(c) /\ x[1] # x[Len(x)]
  <2>1. 1 \in 1 .. Len(x) /\ Len(x) \in 1 .. Len(x) /\ 1 # Len(x)
    BY <1>4
  <2>2. QED
    BY <1>2, <1>4, <2>1 DEF IsSegment
<1>6. ASSUME NEW e \in Range(x), ~IsSwitch(c, e) PROVE e = x[1] \/ e = x[Len(x)]
  <2>1. PICK i \in 1 .. Len(x) : x[i] = e
    BY <1>4 DEF Range
  <2>2. i = 1 \/ i = Len(x) \/ i \in 2 .. Len(x) - 1
    <3>1. i \in Int /\ Len(x) \in Int
      BY <1>4
    <3>2. QED
      BY <3>1, Between, Zenon
  <2>3. QED
    BY <1>2, <1>6, <2>1, <2>2 DEF IsSegment
<1>7. QED
  BY <1>2, <1>3, <1>4, <1>5, <1>6 DEF x, LastHop

\* An address has one owner.
LEMMA OneOwner ==
  ASSUME NEW nets, NEW k, NEW a, NEW b,
         EntityIp(nets, k, a) # NoAddress, EntityIp(nets, k, a) = EntityIp(nets, k, b)
  PROVE  a = b
BY DEF EntityIp, NoAddress

\* What get_shared_network returns holds the link, in the order it was asked for.
LEMMA SharedFound ==
  ASSUME NEW c, NEW nets \in Seq(NetworksOf(c)), NEW b, NEW e,
         SharedNetwork(c, nets, b, e) # NoNetwork
  PROVE  LET k == SharedNetwork(c, nets, b, e) IN
         /\ k \in DOMAIN nets /\ HasLink(nets[k], b, e)
         /\ IsSwitch(c, b) \/ IsSwitch(c, e) \/ nets[k].layer = 3
<1> DEFINE S == {k \in DOMAIN nets :
                   /\ HasLink(nets[k], b, e)
                   /\ IsSwitch(c, b) \/ IsSwitch(c, e) \/ nets[k].layer = 3}
<1>1. S \subseteq Nat \ {0}
  OBVIOUS
<1>2. SharedNetwork(c, nets, b, e) = FirstOf(S)
  BY DEF SharedNetwork
<1>3. \A k \in S : /\ k \in DOMAIN nets /\ HasLink(nets[k], b, e)
                   /\ IsSwitch(c, b) \/ IsSwitch(c, e) \/ nets[k].layer = 3
  OBVIOUS
<1> HIDE DEF S
<1>4. FirstOf(S) \in S
  BY <1>1, <1>2, FirstOfFound
<1>5. QED
  BY <1>2, <1>3, <1>4

\* The network of the first link of a connection starts with the link, and that of the
\* last link ends with it.
LEMMA ConnectionEnds ==
  ASSUME NEW c, \A g \in AllE2e(c) : IsRoute(c, g),
         NEW nets \in Seq(NetworksOf(c)), NEW h \in AllE2e(c), Routable(c, nets, h)
  PROVE  /\ Dest(c, nets, h) \in DOMAIN nets /\ Src(c, nets, h) \in DOMAIN nets
         /\ LastHop(nets[Dest(c, nets, h)].hops) = LastHop(h)
         /\ nets[Src(c, nets, h)].hops[1] = h[1]
         /\ nets[Src(c, nets, h)].hops[2] = h[2]
<1> DEFINE last == Len(h)
           d == Dest(c, nets, h)
           s == Src(c, nets, h)
           x == nets[d].hops
           y == nets[s].hops
<1>1. /\ IsRoute(c, h) /\ last \in Nat /\ last >= 2 /\ DOMAIN h = 1 .. last
      /\ ~IsSwitch(c, h[1]) /\ ~IsSwitch(c, h[last])
  BY RouteFacts DEF IsRoute
<1>2. d # NoNetwork /\ s # NoNetwork
  <2>1. last - 1 \in 1 .. last - 1 /\ 1 \in 1 .. last - 1 /\ last - 1 + 1 = last /\ 1 + 1 = 2
    BY <1>1
  <2>2. QED
    BY <1>1, <2>1 DEF Routable, Dest, Src
<1>3. /\ d \in DOMAIN nets /\ HasLink(nets[d], h[last - 1], h[last])
      /\ s \in DOMAIN nets /\ HasLink(nets[s], h[1], h[2])
  BY <1>2, SharedFound DEF Dest, Src
<1>4. /\ IsSegment(c, x) /\ Len(x) \in Nat
      /\ IsSegment(c, y) /\ Len(y) \in Nat
  BY <1>3, NetworkEnds
<1>5. /\ \E i \in 1 .. Len(x) - 1 : x[i + 1] = h[last]
      /\ \E i \in 1 .. Len(y) - 1 : y[i] = h[1] /\ y[i + 1] = h[2]
  BY <1>3 DEF HasLink
<1> HIDE DEF x, y, d, s
<1>6. LastHop(x) = h[last]
  <2>1. PICK i \in 1 .. Len(x) - 1 : x[i + 1] = h[last]
    BY <1>5
  <2>2. i + 1 = Len(x) \/ i + 1 \in 2 .. Len(x) - 1
    BY <1>4
  <2>3. QED
    BY <1>1, <1>4, <2>1, <2>2 DEF IsSegment, LastHop
<1>7. y[1] = h[1] /\ y[2] = h[2]
  <2>1. PICK i \in 1 .. Len(y) - 1 : y[i] = h[1] /\ y[i + 1] = h[2]
    BY <1>5
  <2>2. i = 1 \/ i \in 2 .. Len(y) - 1
    BY <1>4
  <2>3. i = 1
    BY <1>1, <1>4, <2>1, <2>2 DEF IsSegment
  <2>4. QED
    BY <2>1, <2>3
<1>8. QED
  BY <1>3, <1>6, <1>7 DEF x, y, d, s, LastHop

\* The first segment of a connection.
LEMMA FirstStart ==
  ASSUME NEW c, NEW h, IsRoute(c, h)
  PROVE  LET n == NextL3(c, h, 1)
             x == SegmentAt(c, h, 1)
         IN  /\ 1 \in Starts(c, h) /\ IsSegment(c, x)
             /\ n \in Nat /\ n >= 2 /\ n \in 1 .. Len(h) /\ ~IsSwitch(c, h[n])
             /\ Len(x) = n /\ x[1] = h[1] /\ x[2] = h[2] /\ x[n] = h[n]
             /\ \A k \in 2 .. n - 1 : IsSwitch(c, h[k])
<1> DEFINE n == NextL3(c, h, 1)
           x == SegmentAt(c, h, 1)
<1>1. /\ Len(h) \in Nat /\ Len(h) >= 2 /\ ~IsSwitch(c, h[1])
  BY RouteFacts DEF IsRoute
<1>2. 1 \in 1 .. Len(h) - 1 /\ 1 + 1 = 2
  BY <1>1
<1>3. 1 \in Starts(c, h)
  BY <1>1, <1>2, StartsAre
<1>4. /\ n \in 1 + 1 .. Len(h) /\ ~IsSwitch(c, h[n])
      /\ \A k \in 1 + 1 .. n - 1 : IsSwitch(c, h[k])
  BY <1>2, NextL3Exists
<1>5. /\ Len(x) = n - 1 + 1
      /\ \A k \in 1 .. n - 1 + 1 : x[k] = h[k + 1 - 1]
      /\ IsSegment(c, x)
  BY <1>3, SegmentShape
<1> HIDE DEF n, x
<1>6. n \in Nat /\ n >= 2 /\ n \in 1 .. Len(h) /\ n - 1 + 1 = n
  BY <1>1, <1>4
<1>7. /\ 1 \in 1 .. n - 1 + 1 /\ 2 \in 1 .. n - 1 + 1 /\ n \in 1 .. n - 1 + 1
      /\ 1 + 1 - 1 = 1 /\ 2 + 1 - 1 = 2 /\ n + 1 - 1 = n
  BY <1>6
<1>8. x[1] = h[1 + 1 - 1] /\ x[2] = h[2 + 1 - 1] /\ x[n] = h[n + 1 - 1]
  BY <1>5, <1>7
<1>9. x[1] = h[1] /\ x[2] = h[2] /\ x[n] = h[n]
  BY <1>7, <1>8
<1>10. QED
  BY <1>2, <1>3, <1>4, <1>5, <1>6, <1>9 DEF n, x

\* Two segments that ask for one name are one segment.
SegmentsNamed(c) == \A x, y \in AllSegments(c) : NetName(x) = NetName(y) => x = y

\* Then the network of the first link of a connection is that of its first segment.
LEMMA FirstSegment ==
  ASSUME NEW c, \A g \in AllE2e(c) : IsRoute(c, g), SegmentsNamed(c),
         NEW nets \in Seq(NetworksOf(c)), NEW h \in AllE2e(c), Routable(c, nets, h)
  PROVE  nets[Src(c, nets, h)].hops = SegmentAt(c, h, 1)
<1> DEFINE s == Src(c, nets, h)
           y == nets[s].hops
           x == SegmentAt(c, h, 1)
<1>1. /\ IsRoute(c, h) /\ Len(h) \in Nat /\ Len(h) >= 2 /\ ~IsSwitch(c, h[1])
  BY RouteFacts DEF IsRoute
<1>2. 1 \in Starts(c, h)
  BY <1>1, FirstStart
<1>3. /\ s \in DOMAIN nets /\ y[1] = h[1] /\ y[2] = h[2]
  BY ConnectionEnds
<1>4. IsSegment(c, y) /\ y \in AllSegments(c) /\ Len(y) \in Nat
  BY <1>3, NetworkEnds
<1>5. IsSegment(c, x) /\ x \in AllSegments(c)
  BY <1>1, <1>2, FirstStart, SegmentsAre
<1>7. x[1] = h[1] /\ x[2] = h[2] /\ Len(x) \in Nat
  BY <1>1, FirstStart
<1> HIDE DEF x, y, s
<1>8. ASSUME NEW z, IsSegment(c, z), Len(z) \in Nat, z[2] = h[2]
      PROVE  Len(z) = 2 <=> ~IsSwitch(c, h[2])
  <2>1. Len(z) = 2 \/ 2 \in 2 .. Len(z) - 1
    <3>1. Len(z) >= 2
      BY <1>8 DEF IsSegment
    <3>2. \A m \in Nat : m >= 2 => m = 2 \/ 2 \in 2 .. m - 1
      OBVIOUS
    <3>3. QED
      BY <1>8, <3>1, <3>2
  <2>2. Len(z) = 2 => 2 \notin 2 .. Len(z) - 1
    OBVIOUS
  <2>3. QED
    BY <1>8, <2>1, <2>2 DEF IsSegment
<1>9. NetName(x) = NetName(y)
  BY <1>3, <1>4, <1>5, <1>7, <1>8 DEF NetName
<1>10. QED
  BY <1>4, <1>5, <1>9 DEF SegmentsNamed, x, y, s

\* When a connection ends on the network h starts on, h is that link and no more.
LEMMA StartIsEnd ==
  ASSUME NEW c, \A g \in AllE2e(c) : IsRoute(c, g), SegmentsNamed(c),
         NEW nets \in Seq(NetworksOf(c)),
         NEW g \in AllE2e(c), Routable(c, nets, g),
         NEW h \in AllE2e(c), Routable(c, nets, h),
         Dest(c, nets, g) = Src(c, nets, h), NEW i \in L3Positions(c, h)
  PROVE  EntityIp(nets, Src(c, nets, h), h[i]) # NoAddress
<1> DEFINE s == Src(c, nets, h)
           y == nets[s].hops
           n == NextL3(c, h, 1)
<1>1. /\ IsRoute(c, h) /\ IsRoute(c, g) /\ Len(h) \in Nat /\ Len(h) >= 2 /\ ~IsSwitch(c, h[1])
      /\ DOMAIN h = 1 .. Len(h)
  BY RouteFacts DEF IsRoute
<1>3. s \in DOMAIN nets /\ y[1] = h[1] /\ LastHop(y) = LastHop(g)
  BY ConnectionEnds
<1>4. y = SegmentAt(c, h, 1)
  BY FirstSegment
<1>5. /\ n \in Nat /\ n >= 2 /\ n \in 1 .. Len(h) /\ Len(y) = n /\ y[n] = h[n]
      /\ \A k \in 2 .. n - 1 : IsSwitch(c, h[k])
  BY <1>1, <1>4, FirstStart
<1>6. EntityIp(nets, s, y[1]) # NoAddress /\ EntityIp(nets, s, LastHop(y)) # NoAddress
  <2>1. EntityIp(nets, s, y[1]) = <<s, 1>> /\ EntityIp(nets, s, LastHop(y)) = <<s, 2>>
    BY <1>3, NetworkEnds
  <2>2. QED
    BY <2>1 DEF NoAddress
<1>7. c.kind[LastHop(y)] \in EndHost
  BY <1>1, <1>3 DEF IsRoute, LastHop
<1> HIDE DEF y, n, s
<1>8. LastHop(y) = h[n]
  BY <1>5 DEF LastHop
<1>9. n = Len(h)
  <2>1. n \in {1, Len(h)}
    BY <1>1, <1>5, <1>7, <1>8, RouteFacts
  <2>2. n # 1
    BY <1>5
  <2>3. QED
    BY <2>1, <2>2
<1>10. i = 1 \/ i = n
  <2>1. i \in 1 .. Len(h) /\ ~IsSwitch(c, h[i])
    BY <1>1 DEF L3Positions
  <2>2. i = 1 \/ i = n \/ i \in 2 .. n - 1
    <3>1. i \in Int /\ n \in Int /\ i \in 1 .. n
      BY <1>1, <1>5, <1>9, <2>1
    <3>2. QED
      BY <3>1, Between, Zenon
  <2>3. QED
    BY <1>5, <2>1, <2>2
<1>11. QED
  BY <1>3, <1>6, <1>8, <1>10 DEF s

----
(***************************************************************************)
(* The commands of a connection.                                           *)
(***************************************************************************)
\* r goes from one hop of h to another: forward for the network of the last link, and
\* back for that of the first.
Goes(c, nets, h, r, i, j) ==
  /\ r.at = h[i]
  /\ r.via # NoAddress /\ EntityIp(nets, r.via[1], h[j]) = r.via
  /\ \/ i < j /\ r.dst = Dest(c, nets, h)
     \/ j < i /\ r.dst = Src(c, nets, h)
  /\ i = 1 => r.via[1] = IF IsSwitch(c, h[2]) THEN CommonNetwork(nets, h[1], h[NextL3(c, h, 1)])
                         ELSE Src(c, nets, h)

\* The gateway of a command is on a network both entities are on.
LEMMA GatewayOwner ==
  ASSUME NEW c, \A g \in AllE2e(c) : IsRoute(c, g),
         NEW nets \in Seq(NetworksOf(c)), NEW k \in DOMAIN nets,
         NEW e \in Range(nets[k].hops), ~IsSwitch(c, e),
         NEW via, via = EntityIp(nets, k, e)
  PROVE  via # NoAddress /\ EntityIp(nets, via[1], e) = via /\ via[1] = k
<1>1. e = nets[k].hops[1] \/ e = LastHop(nets[k].hops)
  BY NetworkEnds
<1>2. via = <<k, 1>> \/ via = <<k, 2>>
  BY <1>1, NetworkEnds
<1>3. k # 0
  OBVIOUS
<1>4. QED
  BY <1>2, <1>3 DEF NoAddress, NoNetwork

\* What is between two numbers is one.
LEMMA Bounded == \A m, n \in Int : \A p \in m + 1 .. n : p \in Int
OBVIOUS

\* A command forward.
LEMMA GoesForward ==
  ASSUME NEW c, \A g \in AllE2e(c) : IsRoute(c, g),
         NEW nets \in Seq(NetworksOf(c)), NEW h \in AllE2e(c), Routable(c, nets, h),
         NEW i \in L3Positions(c, h) \ {Len(h)}, NEW r,
         r.at = h[i], r.dst = Dest(c, nets, h),
         r.via = Gateway(c, nets, h, i, i + 1, NextL3(c, h, i))
  PROVE  \E j \in L3Positions(c, h) : Goes(c, nets, h, r, i, j)
<1> DEFINE j == NextL3(c, h, i)
<1>1. IsRoute(c, h) /\ Len(h) \in Nat /\ DOMAIN h = 1 .. Len(h)
  BY RouteFacts
<1>2. i \in 1 .. Len(h) - 1 /\ i \in 1 .. Len(h) /\ ~IsSwitch(c, h[i]) /\ i < i + 1 /\ i + 1 \in i + 1 .. Len(h)
  BY <1>1 DEF L3Positions
<1>0. i \in Int /\ Len(h) \in Int
  <2>1. i \in 1 .. Len(h) /\ Len(h) \in Nat
    BY <1>1, <1>2
  <2>2. QED
    BY <2>1
<1>3. /\ j \in i + 1 .. Len(h) /\ ~IsSwitch(c, h[j])
      /\ \A k \in i + 1 .. j - 1 : IsSwitch(c, h[k])
  BY <1>1, <1>2, NextL3Exists
<1>4. j \in L3Positions(c, h) /\ i < j
  <2>1. \A m, n, l \in Int : m \in 1 .. n - 1 /\ l \in m + 1 .. n => l \in 1 .. n /\ m < l
    OBVIOUS
  <2> HIDE DEF j
  <2>2. i \in Int /\ Len(h) \in Int /\ j \in Int
    BY <1>0, <1>3, Bounded, Zenon
  <2>3. j \in 1 .. Len(h) /\ i < j
    BY <1>2, <1>3, <2>1, <2>2, Zenon
  <2>4. QED
    BY <1>1, <1>3, <2>3 DEF L3Positions
<1>5. CASE IsSwitch(c, h[i + 1])
  <2> DEFINE k == CommonNetwork(nets, h[i], h[j])
  <2>1. k # NoNetwork
    BY <1>5 DEF Routable
  <2>2. k \in DOMAIN nets /\ h[j] \in Range(nets[k].hops)
    BY <2>1, NetworkJoins
  <2>3. r.via = EntityIp(nets, k, h[j])
    BY <1>5 DEF Gateway
  <2> HIDE DEF k, j
  <2>4. r.via # NoAddress /\ EntityIp(nets, r.via[1], h[j]) = r.via /\ r.via[1] = k
    BY <1>3, <2>2, <2>3, GatewayOwner
  <2>5. i = 1 => r.via[1] = CommonNetwork(nets, h[1], h[NextL3(c, h, 1)]) /\ IsSwitch(c, h[2])
    BY <1>5, <2>4 DEF k, j
  <2>6. QED
    BY <1>4, <2>4, <2>5 DEF Goes, j
<1>6. CASE ~IsSwitch(c, h[i + 1])
  <2> DEFINE k == SharedNetwork(c, nets, h[i], h[i + 1])
  <2>1. k # NoNetwork
    BY <1>2, <1>6 DEF Routable
  <2>2. k \in DOMAIN nets /\ h[i + 1] \in Range(nets[k].hops)
    BY <2>1, NetworkJoins
  <2>3. r.via = EntityIp(nets, k, h[i + 1])
    BY <1>2, <1>6 DEF Gateway
  <2>4. j = i + 1
    <3>1. i + 1 \notin i + 1 .. j - 1
      BY <1>3, <1>6
    <3>2. \A m, n, l \in Int : l \in m + 1 .. n /\ m + 1 \notin m + 1 .. l - 1 => l = m + 1
      OBVIOUS
    <3> HIDE DEF j
    <3>3. i \in Int /\ Len(h) \in Int /\ j \in Int
      BY <1>0, <1>3, Bounded, Zenon
    <3>4. QED
      BY <1>3, <3>1, <3>2, <3>3, Zenon
  <2> HIDE DEF k, j
  <2>5. r.via # NoAddress /\ EntityIp(nets, r.via[1], h[j]) = r.via /\ r.via[1] = k
    BY <1>3, <2>2, <2>3, <2>4, GatewayOwner
  <2>6. i = 1 => r.via[1] = Src(c, nets, h) /\ ~IsSwitch(c, h[2])
    BY <1>6, <2>5 DEF k, Src
  <2>7. QED
    BY <1>4, <2>5, <2>6 DEF Goes, j
<1>7. QED
  BY <1>5, <1>6

\* A command back.
LEMMA GoesBack ==
  ASSUME NEW c, \A g \in AllE2e(c) : IsRoute(c, g),
         NEW nets \in Seq(NetworksOf(c)), NEW h \in AllE2e(c), Routable(c, nets, h),
         NEW i \in L3Positions(c, h) \ {1}, NEW r,
         r.at = h[i], r.dst = Src(c, nets, h),
         r.via = Gateway(c, nets, h, i, i - 1, PrevL3(c, h, i))
  PROVE  \E j \in L3Positions(c, h) : Goes(c, nets, h, r, i, j)
<1> DEFINE j == PrevL3(c, h, i)
           l == i - 1
<1>1. IsRoute(c, h) /\ Len(h) \in Nat /\ DOMAIN h = 1 .. Len(h)
  BY RouteFacts
<1>2. i \in 2 .. Len(h) /\ i \in 1 .. Len(h) /\ ~IsSwitch(c, h[i]) /\ ~(i < l)
      /\ l \in 1 .. Len(h) - 1 /\ l + 1 = i /\ l \in 1 .. i - 1
  BY <1>1 DEF L3Positions
<1>3. /\ j \in 1 .. i - 1 /\ ~IsSwitch(c, h[j])
      /\ \A k \in j + 1 .. i - 1 : IsSwitch(c, h[k])
  BY <1>1, <1>2, PrevL3Exists
<1>4. j \in L3Positions(c, h) /\ j < i /\ j \in 1 .. Len(h) - 1
  <2>1. j \in 1 .. Len(h) /\ j < i /\ j \in 1 .. Len(h) - 1
    BY <1>1, <1>2, <1>3
  <2>2. QED
    BY <1>1, <1>3, <2>1 DEF L3Positions
<1>5. i # 1
  OBVIOUS
<1>6. NextL3(c, h, j) = i
  BY <1>1, <1>2, NextOfPrev
<1>7. CASE IsSwitch(c, h[l])
  <2> DEFINE k == CommonNetwork(nets, h[i], h[j])
  <2>0. k = CommonNetwork(nets, h[j], h[i])
    BY DEF CommonNetwork
  <2>1. k # NoNetwork
    <3>1. j \in L3Positions(c, h) \ {Len(h)}
      BY <1>1, <1>4
    <3>2. j # l
      BY <1>3, <1>7
    <3>3. j + 1 \in j + 1 .. i - 1
      BY <1>2, <1>3, <3>2
    <3>4. IsSwitch(c, h[j + 1])
      BY <1>3, <3>3
    <3>5. QED
      BY <1>6, <2>0, <3>1, <3>4 DEF Routable
  <2>2. k \in DOMAIN nets /\ h[j] \in Range(nets[k].hops)
    BY <2>1, NetworkJoins
  <2>3. r.via = EntityIp(nets, k, h[j])
    BY <1>7 DEF Gateway
  <2> HIDE DEF k, j
  <2>4. r.via # NoAddress /\ EntityIp(nets, r.via[1], h[j]) = r.via
    BY <1>3, <2>2, <2>3, GatewayOwner
  <2>5. QED
    BY <1>4, <1>5, <2>4 DEF Goes, j
<1>8. CASE ~IsSwitch(c, h[l])
  <2> DEFINE k == SharedNetwork(c, nets, h[l], h[i])
  <2>1. k # NoNetwork
    BY <1>2, <1>8 DEF Routable
  <2>2. k \in DOMAIN nets /\ h[l] \in Range(nets[k].hops)
    BY <2>1, NetworkJoins
  <2>3. r.via = EntityIp(nets, k, h[l])
    BY <1>2, <1>8 DEF Gateway
  <2>4. j = l
    <3>1. l \notin j + 1 .. i - 1
      BY <1>3, <1>8
    <3>2. QED
      BY <1>1, <1>2, <1>3, <3>1
  <2> HIDE DEF k, j, l
  <2>5. r.via # NoAddress /\ EntityIp(nets, r.via[1], h[j]) = r.via
    BY <1>3, <2>2, <2>3, <2>4, GatewayOwner
  <2>6. QED
    BY <1>4, <1>5, <2>5 DEF Goes, j
<1>9. QED
  BY <1>7, <1>8

\* Each command goes from one hop of its connection to another.
LEMMA CommandsGo ==
  ASSUME NEW c, \A g \in AllE2e(c) : IsRoute(c, g),
         NEW nets \in Seq(NetworksOf(c)), NEW h \in AllE2e(c), Routable(c, nets, h),
         NEW r \in RouteCommands(c, nets, h)
  PROVE  \E i, j \in L3Positions(c, h) : Goes(c, nets, h, r, i, j)
<1> DEFINE last == Len(h)
           dest == Dest(c, nets, h)
           src  == Src(c, nets, h)
<1>1. CASE \E i \in L3Positions(c, h) \ {last} :
             r = [ at |-> h[i], dst |-> dest, via |-> Gateway(c, nets, h, i, i + 1, NextL3(c, h, i)),
                   slots |-> IF UsesIoam(c) /\ i = 1 THEN last ELSE 0 ]
  <2>1. PICK i \in L3Positions(c, h) \ {last} :
             r = [ at |-> h[i], dst |-> dest, via |-> Gateway(c, nets, h, i, i + 1, NextL3(c, h, i)),
                   slots |-> IF UsesIoam(c) /\ i = 1 THEN last ELSE 0 ]
    BY <1>1
  <2>2. /\ r.at = h[i] /\ r.dst = dest
        /\ r.via = Gateway(c, nets, h, i, i + 1, NextL3(c, h, i))
    BY <2>1
  <2>3. QED
    BY <2>2, GoesForward
<1>2. CASE \E i \in L3Positions(c, h) \ {1} :
             r = [ at |-> h[i], dst |-> src, via |-> Gateway(c, nets, h, i, i - 1, PrevL3(c, h, i)),
                   slots |-> 0 ]
  <2>1. PICK i \in L3Positions(c, h) \ {1} :
             r = [ at |-> h[i], dst |-> src, via |-> Gateway(c, nets, h, i, i - 1, PrevL3(c, h, i)),
                   slots |-> 0 ]
    BY <1>2
  <2>2. /\ r.at = h[i] /\ r.dst = src
        /\ r.via = Gateway(c, nets, h, i, i - 1, PrevL3(c, h, i))
    BY <2>1
  <2>3. QED
    BY <2>2, GoesBack
<1>3. QED
  BY <1>1, <1>2 DEF RouteCommands, Dest, Src

----
(***************************************************************************)
(* What packets find.                                                      *)
(***************************************************************************)
\* Every command was made for a connection whose look-ups succeeded.
OriginInv ==
  \A r \in routes : \E h \in AllE2e(cfg) :
    Routable(cfg, networks, h) /\ r \in RouteCommands(cfg, networks, h)

\* The commands there are come from connections (Architecture.ip_route_path_connection).
LEMMA OriginInvariant == Spec => []OriginInv
<1>1. Init => OriginInv
  BY DEF Init, OriginInv
<1>2. RoutedInv /\ OriginInv /\ [Next]_vars => OriginInv'
  <2> SUFFICES ASSUME RoutedInv, OriginInv, [Next]_vars PROVE OriginInv'
    OBVIOUS
  <2>1. CASE Check \/ TakeConnection \/ AddL3 \/ AddL2 \/ NetworksDone
    <3>1. phase \in {"check", "networks"} /\ routes' = routes
      BY <2>1 DEF Check, TakeConnection, AddL3, AddL2, NetworksDone, LoopEnds
    <3>2. QED
      BY <3>1 DEF RoutedInv, OriginInv
  <2>2. CASE IpRoutePathConnection
    <3>1. UNCHANGED <<cfg, networks>>
      BY <2>2 DEF IpRoutePathConnection
    <3>2. PICK w \in EndHostWork(cfg) :
            IF Routable(cfg, networks, w[2])
            THEN routes' = routes \cup RouteCommands(cfg, networks, w[2])
            ELSE UNCHANGED routes
      BY <2>2, Zenon DEF IpRoutePathConnection, Turn
    <3>3. w[2] \in AllE2e(cfg)
      BY WorkType
    <3>4. QED
      BY <3>1, <3>2, <3>3 DEF OriginInv
  <2>3. CASE RoutesDone \/ ServiceHosts \/ FirewallHosts \/ HostsDone
    <3>1. UNCHANGED <<cfg, networks, routes>>
      BY <2>3 DEF RoutesDone, ServiceHosts, FirewallHosts, HostsDone
    <3>2. QED
      BY <3>1 DEF OriginInv
  <2>4. CASE AssociateDependencies \/ AdditionalCmds \/ UNCHANGED vars
    <3>1. UNCHANGED <<cfg, networks, routes>>
      BY <2>4 DEF AssociateDependencies, AdditionalCmds, vars
    <3>2. QED
      BY <3>1 DEF OriginInv
  <2>5. QED
    BY <2>1, <2>2, <2>3, <2>4 DEF Next, Step, Terminated
<1>3. QED
  BY <1>1, <1>2, RoutedInvariant, PTL DEF Spec

\* Packets leave the generator alone: with them, the topology is generated as without.
THEOREM ForwardingFollowsArchitecture == FwdSpec => Spec
<1>1. FInit => Init
  BY DEF FInit
<1>2. [FNext]_fvars => [Next]_vars
  BY DEF FNext, FStep, Build, Send, ForwardOnLink, ForwardByRoute, NoRoute, Respond, Answered, Quiet,
    Next, fvars
<1>3. QED
  BY <1>1, <1>2, PTL DEF FwdSpec, Spec

\* What is generated, as packets find it.
Generated == CheckedInv /\ BuiltInv /\ RoutedInv /\ HostsInv /\ OriginInv

\* What was proved of the generator holds when packets are on their way.
LEMMA GeneratedInvariant == FwdSpec => []Generated
BY ForwardingFollowsArchitecture, HostsInvariant, OriginInvariant, PTL DEF Generated

\* Nothing that was generated changes any more.
LEMMA DoneStays ==
  ASSUME phase = "done", [FNext]_fvars
  PROVE  UNCHANGED vars
<1>1. ~Check /\ ~TakeConnection /\ ~AddL3 /\ ~AddL2 /\ ~NetworksDone /\ ~IpRoutePathConnection
  BY DEF Check, TakeConnection, AddL3, AddL2, NetworksDone, LoopEnds, IpRoutePathConnection
<1>2. ~RoutesDone /\ ~ServiceHosts /\ ~FirewallHosts /\ ~HostsDone /\ ~AssociateDependencies /\ ~AdditionalCmds
  BY DEF RoutesDone, LoopEnds, ServiceHosts, FirewallHosts, HostsDone, AssociateDependencies, AdditionalCmds
<1>3. ~Step
  BY <1>1, <1>2 DEF Step
<1>4. QED
  BY <1>3 DEF FNext, FStep, Build, Send, ForwardOnLink, ForwardByRoute, NoRoute, Respond, Answered,
    Quiet, fvars

----
(***************************************************************************)
(* Packets and the addresses they are for.                                 *)
(***************************************************************************)
\* An entity has the address.
Owns(e, address) == EntityIp(networks, address[1], e) = address
Owned(address) == address # NoAddress /\ \E e \in Entities(cfg) : Owns(e, address)

PacketRecords ==
  [ state : {"none", "request", "response", "answered", "dropped"}, conn : Seq(Entities(cfg)),
    src : Addresses, dst : Addresses, trail : Seq(Entities(cfg)) ]

\* What any packet that was sent is like.
Sent(p) ==
  /\ p.conn \in AllE2e(cfg)
  /\ Len(p.trail) >= 1
  /\ Owned(p.dst)
  /\ p.src = NoAddress \/ Owned(p.src)

\* A request is for the end of its connection, on the last network of one with the same ends;
\* it has an address to answer to as soon as it left the entity that sends it.
Requested(p) ==
  /\ Owns(LastHop(p.conn), p.dst)
  /\ p.trail[1] = p.conn[1]
  /\ \E g \in AllE2e(cfg) : /\ g[1] = p.conn[1] /\ LastHop(g) = LastHop(p.conn)
                            /\ p.dst[1] = Dest(cfg, networks, g)
  /\ p.src = NoAddress => Len(p.trail) = 1

Fits(p) ==
  /\ p \in PacketRecords
  /\ p.state = "none" => p = NoPacket
  /\ p.state # "none" => Sent(p)
  /\ p.state = "request" => Requested(p)

PacketInv ==
  /\ phase # "done" => packet = NoPacket /\ won = {}
  /\ won \subseteq routes
  /\ Fits(packet)

\* What the connections of a generated topology are.
LEMMA Connected ==
  ASSUME Generated, phase = "done"
  PROVE  /\ IsConfig(cfg) /\ CheckConfig(cfg)
         /\ networks \in Seq(NetworksOf(cfg))
         /\ \A k, m \in DOMAIN networks : networks[k].name = networks[m].name => k = m
         /\ \A h \in AllE2e(cfg) : /\ IsRoute(cfg, h) /\ Routable(cfg, networks, h)
                                   /\ RouteCommands(cfg, networks, h) \subseteq routes
BY Relied DEF Generated, BuiltInv, RoutedInv, Routed

\* An address leads to the entity that has it.
LEMMA OwnerIs ==
  ASSUME NEW e \in Entities(cfg), NEW address, address # NoAddress, Owns(e, address)
  PROVE  Owner(address) = e
<1>1. \A m \in Entities(cfg) : EntityIp(networks, address[1], m) = address => m = e
  BY OneOwner DEF Owns
<1>2. QED
  BY <1>1 DEF Owner, Owns

\* The address of an interface is owned by its entity.
LEMMA InterfaceOwned ==
  ASSUME NEW e \in Entities(cfg), NEW k, OnNetwork(e, k)
  PROVE  LET ip == EntityIp(networks, k, e)
         IN  ip # NoAddress /\ ip[1] = k /\ Owns(e, ip) /\ Owned(ip)
<1>1. EntityIp(networks, k, e) # NoAddress
  BY DEF OnNetwork
<1>2. EntityIp(networks, k, e)[1] = k
  BY <1>1 DEF EntityIp
<1>3. QED
  BY <1>1, <1>2 DEF Owns, Owned

\* Addresses that are owned are addresses.
LEMMA OwnedType ==
  ASSUME NEW address, Owned(address)
  PROVE  address \in Addresses /\ address # NoAddress
<1>1. PICK e \in Entities(cfg) : EntityIp(networks, address[1], e) = address
  BY DEF Owned, Owns
<1>2. address # NoAddress
  BY DEF Owned
<1>3. address[1] \in DOMAIN networks /\ address \in {<<address[1], 1>>, <<address[1], 2>>}
  BY <1>1, <1>2 DEF EntityIp
<1>4. QED
  BY <1>2, <1>3 DEF Addresses

\* A route leads from one hop of a connection to another.
LEMMA RouteTaken ==
  ASSUME Generated, phase = "done", NEW rt \in routes
  PROVE  /\ OnNetwork(rt.at, rt.via[1])
         /\ Owner(rt.via) \in Entities(cfg)
         /\ \E h \in AllE2e(cfg) : \E i, j \in L3Positions(cfg, h) :
              Goes(cfg, networks, h, rt, i, j) /\ h[j] = Owner(rt.via)
<1>1. OnNetwork(rt.at, rt.via[1])
  BY DEF Generated, RoutedInv, NextHop, OnNetwork
<1>2. PICK h \in AllE2e(cfg) : rt \in RouteCommands(cfg, networks, h)
  BY DEF Generated, OriginInv
<1>3. PICK i, j \in L3Positions(cfg, h) : Goes(cfg, networks, h, rt, i, j)
  BY <1>2, Connected, CommandsGo
<1>4. h[j] \in Entities(cfg)
  BY Connected, RouteFacts DEF L3Positions
<1>5. h[j] = Owner(rt.via)
  BY <1>3, <1>4, OwnerIs DEF Goes, Owns
<1>6. QED
  BY <1>1, <1>3, <1>4, <1>5

\* A packet moves out of an interface on network k of where it is, to e.
Moves(k, e) ==
  /\ InFlight /\ ~Arrived
  /\ e \in Entities(cfg) /\ OnNetwork(Here, k)
  /\ SendOn(k, e)

\* Where packets of a generated topology are.
LEMMA HereIs ==
  ASSUME Fits(packet), packet.state # "none"
  PROVE  /\ Here \in Entities(cfg) /\ Len(packet.trail) \in Nat /\ Len(packet.trail) \in DOMAIN packet.trail
         /\ DOMAIN packet.trail = 1 .. Len(packet.trail)
         /\ Here = packet.trail[Len(packet.trail)]
<1>1. packet.trail \in Seq(Entities(cfg)) /\ Len(packet.trail) >= 1
  BY DEF Fits, PacketRecords, Sent
<1>2. Len(packet.trail) \in Nat /\ DOMAIN packet.trail = 1 .. Len(packet.trail)
  BY <1>1
<1>3. Len(packet.trail) \in DOMAIN packet.trail
  BY <1>1, <1>2
<1>4. QED
  BY <1>1, <1>2, <1>3 DEF Here, LastHop

\* A packet that moves stays the packet it was, with one more entity behind it.
LEMMA MovesOn ==
  ASSUME Fits(packet), NEW k, NEW e, Moves(k, e)
  PROVE  /\ Fits(packet')
         /\ packet'.state = packet.state /\ packet'.conn = packet.conn /\ packet'.dst = packet.dst
         /\ packet'.src # NoAddress
         /\ packet.src # NoAddress => packet'.src = packet.src
         /\ packet.src = NoAddress => packet'.src = EntityIp(networks, k, Here)
         /\ Len(packet'.trail) = Len(packet.trail) + 1 /\ Len(packet.trail) \in Nat \ {0}
         /\ \A i \in 1 .. Len(packet.trail) : packet'.trail[i] = packet.trail[i]
         /\ packet'.trail[Len(packet.trail) + 1] = e
<1> DEFINE ip == EntityIp(networks, k, Here)
           t == packet.trail
<1>1. packet.state \in {"request", "response"}
  BY DEF Moves, InFlight
<1>2. packet \in PacketRecords /\ Sent(packet)
  BY <1>1 DEF Fits
<1>3. Here \in Entities(cfg) /\ Len(t) \in Nat \ {0} /\ t \in Seq(Entities(cfg))
  BY <1>1, <1>2, HereIs DEF Sent, PacketRecords
<1>4. ip # NoAddress /\ Owned(ip) /\ ip \in Addresses
  BY <1>3, InterfaceOwned, OwnedType DEF Moves
<1>5. packet' = [packet EXCEPT !.trail = Append(t, e), !.src = IF packet.src = NoAddress THEN ip ELSE packet.src]
  BY DEF Moves, SendOn
<1>6. /\ Append(t, e) \in Seq(Entities(cfg)) /\ Len(Append(t, e)) = Len(t) + 1
      /\ \A i \in 1 .. Len(t) : Append(t, e)[i] = t[i]
      /\ Append(t, e)[Len(t) + 1] = e
  BY <1>3, AppendShape DEF Moves
<1> HIDE DEF ip
<1>7. /\ packet'.state = packet.state /\ packet'.conn = packet.conn /\ packet'.dst = packet.dst
      /\ packet'.trail = Append(t, e)
      /\ packet'.src = IF packet.src = NoAddress THEN ip ELSE packet.src
      /\ packet' \in PacketRecords
  BY <1>2, <1>4, <1>5, <1>6 DEF PacketRecords
<1>8. packet'.src # NoAddress /\ (packet'.src = NoAddress \/ Owned(packet'.src))
  BY <1>2, <1>4, <1>7 DEF Sent
<1>9. Sent(packet')
  <2>1. Len(packet'.trail) >= 1
    BY <1>3, <1>6, <1>7
  <2>2. QED
    BY <1>2, <1>7, <1>8, <2>1 DEF Sent
<1>10. packet'.trail[1] = packet.trail[1]
  BY <1>3, <1>6, <1>7
<1>11. packet.state = "request" => Requested(packet')
  BY <1>7, <1>8, <1>10 DEF Fits, Requested
<1>12. Fits(packet')
  BY <1>1, <1>7, <1>9, <1>11 DEF Fits
<1>13. QED
  BY <1>3, <1>6, <1>7, <1>8, <1>12 DEF ip

\* On the link, a packet moves to the owner of its destination.
LEMMA MovesOnLink ==
  ASSUME Fits(packet), ForwardOnLink
  PROVE  LET k == packet.dst[1]
             e == Owner(packet.dst)
         IN  Moves(k, e) /\ Owns(e, packet.dst)
<1>1. packet.state \in {"request", "response"}
  BY DEF ForwardOnLink, InFlight
<1>2. Owned(packet.dst)
  BY <1>1 DEF Fits, Sent
<1>3. PICK e \in Entities(cfg) : Owns(e, packet.dst)
  BY <1>2 DEF Owned
<1>4. Owner(packet.dst) = e
  BY <1>2, <1>3, OwnerIs DEF Owned
<1>5. QED
  BY <1>3, <1>4 DEF ForwardOnLink, Moves, OnLink

\* Elsewhere it moves to the gateway of a route.
LEMMA MovesByRoute ==
  ASSUME Generated, phase = "done", won \subseteq routes, Fits(packet), ForwardByRoute
  PROVE  \E rt \in routes :
           /\ rt.at = Here /\ rt.dst = packet.dst[1] /\ won' = won \cup {rt}
           /\ Moves(rt.via[1], Owner(rt.via))
<1>1. PICK rt \in Candidates(Here, packet.dst[1]) : won' = won \cup {rt} /\ SendOn(rt.via[1], Owner(rt.via))
  BY DEF ForwardByRoute
<1>2. rt \in routes /\ rt.at = Here /\ rt.dst = packet.dst[1]
  BY <1>1 DEF Candidates
<1>3. OnNetwork(Here, rt.via[1]) /\ Owner(rt.via) \in Entities(cfg)
  BY <1>2, RouteTaken
<1>4. QED
  BY <1>1, <1>2, <1>3 DEF Moves, ForwardByRoute

\* The address a source finds for the end of a connection is on the last network of a
\* connection to that end: not on the first network of one the other way round, because
\* the connections agree on who comes first.
LEMMA KnownAddress ==
  ASSUME Generated, phase = "done", NEW h \in AllE2e(cfg), NEW t \in hosts, t[1] = h[1], t[2] = LastHop(h)
  PROVE  /\ Owns(LastHop(h), t[3]) /\ Owned(t[3])
         /\ \E g \in AllE2e(cfg) : /\ g[1] = h[1] /\ LastHop(g) = LastHop(h)
                                   /\ t[3][1] = Dest(cfg, networks, g)
<1>1. PICK g \in AllE2e(cfg) : t \in Entries(cfg, networks, g)
  <2>1. cfg.kind[t[1]] \in EndHost
    BY Connected DEF IsRoute
  <2>2. QED
    BY <2>1 DEF Generated, HostsInv
<1>2. t # <<LastHop(g), g[1], EntityIp(networks, SharedNetwork(cfg, networks, g[1], g[2]), g[1])>>
  <2> SUFFICES ASSUME t = <<LastHop(g), g[1], EntityIp(networks, SharedNetwork(cfg, networks, g[1], g[2]), g[1])>>
               PROVE  FALSE
    OBVIOUS
  <2>1. h[1] = LastHop(g) /\ LastHop(h) = g[1]
    OBVIOUS
  <2>2. ASSUME NEW w \in AllE2e(cfg) PROVE Before(cfg, w[1], LastHop(w)) /\ w[1] \in Entities(cfg)
    <3>1. 1 \in 1 .. Len(w) /\ Len(w) \in 1 .. Len(w) /\ 1 < Len(w)
      BY Connected, RouteFacts DEF IsRoute
    <3>2. QED
      BY <3>1, Connected, ConnectionsOrdered, RouteFacts DEF LastHop
  <2>3. Before(cfg, h[1], h[1])
    BY <2>1, <2>2, Connected, ConnectionsOrdered
  <2>4. QED
    BY <2>2, <2>3, Connected, ConnectionsOrdered
<1> DEFINE d == Dest(cfg, networks, g)
<1>3. t[3] = EntityIp(networks, d, LastHop(g)) /\ g[1] = h[1] /\ LastHop(g) = LastHop(h)
  BY <1>1, <1>2 DEF Entries, Dest, LastHop
<1>4. d \in DOMAIN networks /\ LastHop(networks[d].hops) = LastHop(g)
  BY Connected, ConnectionEnds
<1>5. EntityIp(networks, d, LastHop(g)) = <<d, 2>> /\ LastHop(g) \in Entities(cfg)
  BY <1>4, Connected, NetworkEnds
<1>6. t[3] # NoAddress /\ t[3][1] = d
  <2>1. d # 0
    BY <1>4, Connected
  <2>2. QED
    BY <1>3, <1>5, <2>1 DEF NoAddress, NoNetwork
<1>7. QED
  BY <1>3, <1>5, <1>6 DEF Owns, Owned

\* A request that is sent.
LEMMA SendFits ==
  ASSUME Generated, phase = "done", Send
  PROVE  Fits(packet') /\ packet'.state = "request" /\ packet'.src = NoAddress /\ Len(packet'.trail) = 1
<1>1. PICK h \in AllE2e(cfg) : \E t \in hosts :
        /\ t[1] = h[1] /\ t[2] = LastHop(h)
        /\ packet' = [state |-> "request", conn |-> h, src |-> NoAddress, dst |-> t[3], trail |-> <<h[1]>>]
  BY DEF Send
<1>2. PICK t \in hosts :
        /\ t[1] = h[1] /\ t[2] = LastHop(h)
        /\ packet' = [state |-> "request", conn |-> h, src |-> NoAddress, dst |-> t[3], trail |-> <<h[1]>>]
  BY <1>1
<1>3. /\ Owns(LastHop(h), t[3]) /\ Owned(t[3])
      /\ \E g \in AllE2e(cfg) : /\ g[1] = h[1] /\ LastHop(g) = LastHop(h)
                                /\ t[3][1] = Dest(cfg, networks, g)
  BY <1>2, KnownAddress
<1>4. t[3] \in Addresses /\ NoAddress \in Addresses
  BY <1>3, OwnedType DEF Addresses
<1>5. h \in Seq(Entities(cfg)) /\ h[1] \in Entities(cfg)
  <2>1. IsRoute(cfg, h) /\ 1 \in 1 .. Len(h)
    BY Connected, RouteFacts DEF IsRoute
  <2>2. QED
    BY <2>1, RouteFacts DEF IsRoute
<1>6. /\ packet'.state = "request" /\ packet'.conn = h /\ packet'.src = NoAddress /\ packet'.dst = t[3]
      /\ packet'.trail = <<h[1]>> /\ packet' \in PacketRecords
  BY <1>2, <1>4, <1>5 DEF PacketRecords
<1>7. Len(packet'.trail) = 1 /\ packet'.trail[1] = h[1]
  BY <1>6
<1>8. Sent(packet') /\ Requested(packet')
  BY <1>3, <1>6, <1>7 DEF Sent, Requested
<1>9. QED
  BY <1>6, <1>7, <1>8 DEF Fits

\* A request that arrives is at the end of its connection, and left where it was sent from.
LEMMA ArrivedAtEnd ==
  ASSUME Generated, phase = "done", Fits(packet), packet.state = "request", Arrived
  PROVE  Here = LastHop(packet.conn) /\ packet.src # NoAddress
<1>1. Sent(packet) /\ Requested(packet)
  BY DEF Fits
<1>2. Here = LastHop(packet.conn)
  BY <1>1, OneOwner DEF Arrived, Sent, Requested, Owns, Owned
<1>3. packet.conn[1] # LastHop(packet.conn)
  <2>1. IsRoute(cfg, packet.conn)
    BY <1>1, Connected DEF Sent
  <2>2. 1 \in DOMAIN packet.conn /\ Len(packet.conn) \in DOMAIN packet.conn /\ 1 # Len(packet.conn)
    BY <2>1, RouteFacts DEF IsRoute
  <2>3. QED
    BY <2>1, <2>2 DEF IsRoute, LastHop
<1>4. Len(packet.trail) # 1
  <2>1. Len(packet.trail) = 1 => Here = packet.conn[1]
    BY <1>1 DEF Requested, Here, LastHop
  <2>2. QED
    BY <1>2, <1>3, <2>1
<1>5. QED
  BY <1>1, <1>2, <1>4 DEF Requested

\* The response that is sent.
LEMMA RespondFits ==
  ASSUME Generated, phase = "done", Fits(packet), Respond
  PROVE  /\ Fits(packet') /\ packet'.state = "response"
         /\ packet'.dst = packet.src /\ packet'.trail = <<LastHop(packet.conn)>>
<1>1. packet.state = "request" /\ Arrived
  BY DEF Respond
<1>2. packet \in PacketRecords /\ Sent(packet) /\ Here \in Entities(cfg)
  BY <1>1, HereIs DEF Fits
<1>3. Here = LastHop(packet.conn) /\ packet.src # NoAddress
  BY <1>1, ArrivedAtEnd
<1>4. /\ packet' \in PacketRecords /\ packet'.state = "response" /\ packet'.conn = packet.conn
      /\ packet'.src = packet.dst /\ packet'.dst = packet.src /\ packet'.trail = <<Here>>
  <2> DEFINE t == <<Here>>
  <2>1. t \in Seq(Entities(cfg))
    BY <1>2
  <2>2. packet' = [packet EXCEPT !.state = "response", !.src = packet.dst, !.dst = packet.src, !.trail = t]
    BY DEF Respond
  <2> HIDE DEF t
  <2>3. QED
    BY <1>2, <2>1, <2>2 DEF PacketRecords, t
<1>5. Len(packet'.trail) >= 1
  BY <1>4
<1>6. Sent(packet')
  BY <1>2, <1>3, <1>4, <1>5 DEF Sent
<1>7. QED
  BY <1>3, <1>4, <1>6 DEF Fits

\* A packet that is over.
LEMMA OverFits ==
  ASSUME Fits(packet), packet.state # "none", NEW s \in {"answered", "dropped"},
         packet' = [packet EXCEPT !.state = s]
  PROVE  /\ Fits(packet') /\ packet'.state = s
         /\ packet'.dst = packet.dst /\ packet'.trail = packet.trail
<1>1. packet \in PacketRecords /\ Sent(packet)
  BY DEF Fits
<1>2. /\ packet' \in PacketRecords /\ packet'.state = s /\ packet'.conn = packet.conn
      /\ packet'.src = packet.src /\ packet'.dst = packet.dst /\ packet'.trail = packet.trail
  BY <1>1 DEF PacketRecords
<1>3. Sent(packet')
  BY <1>1, <1>2 DEF Sent
<1>4. QED
  BY <1>2, <1>3 DEF Fits

\* When nothing generated changes, the addresses stay what they are.
LEMMA FitsKept ==
  ASSUME UNCHANGED vars, phase = "done", Fits(packet'), won' \subseteq routes
  PROVE  PacketInv'
BY DEF PacketInv, Fits, PacketRecords, Addresses, Sent, Requested, Owned, Owns, vars

\* Packets fit the topology they are in.
LEMMA PacketInvariant == FwdSpec => [](Generated /\ PacketInv)
<1>1. FInit => PacketInv
  <2> SUFFICES ASSUME FInit PROVE PacketInv
    OBVIOUS
  <2>1. NoPacket \in PacketRecords /\ NoPacket.state = "none"
    BY DEF NoPacket, PacketRecords, Addresses
  <2>2. QED
    BY <2>1 DEF FInit, PacketInv, Fits
<1>2. Generated /\ PacketInv /\ [FNext]_fvars => PacketInv'
  <2> SUFFICES ASSUME Generated, PacketInv, [FNext]_fvars PROVE PacketInv'
    OBVIOUS
  <2>1. CASE phase # "done"
    <3>1. packet = NoPacket /\ won = {} /\ packet.state = "none"
      BY <2>1 DEF PacketInv, NoPacket
    <3>2. UNCHANGED <<won, packet>>
      BY <2>1, <3>1 DEF FNext, FStep, Build, Send, ForwardOnLink, ForwardByRoute, NoRoute, InFlight,
        Respond, Answered, Quiet, fvars
    <3>3. NoPacket \in PacketRecords'
      BY DEF NoPacket, PacketRecords, Addresses
    <3>4. QED
      BY <3>1, <3>2, <3>3 DEF PacketInv, Fits
  <2>2. CASE phase = "done"
    <3>1. UNCHANGED vars
      BY <2>2, DoneStays
    <3>2. Fits(packet) /\ won \subseteq routes
      BY DEF PacketInv
    <3>3. CASE Send
      BY <2>2, <3>1, <3>2, <3>3, SendFits, FitsKept DEF Send
    <3>4. CASE ForwardOnLink
      <4>1. Fits(packet') /\ won' = won
        BY <3>2, <3>4, MovesOnLink, MovesOn DEF ForwardOnLink
      <4>2. QED
        BY <2>2, <3>1, <3>2, <4>1, FitsKept
    <3>5. CASE ForwardByRoute
      <4>1. PICK rt \in routes : won' = won \cup {rt} /\ Moves(rt.via[1], Owner(rt.via))
        BY <2>2, <3>2, <3>5, MovesByRoute
      <4>2. Fits(packet')
        BY <3>2, <4>1, MovesOn
      <4>3. QED
        BY <2>2, <3>1, <3>2, <4>1, <4>2, FitsKept
    <3>6. CASE Respond
      BY <2>2, <3>1, <3>2, <3>6, RespondFits, FitsKept DEF Respond
    <3>7. CASE NoRoute
      BY <2>2, <3>1, <3>2, <3>7, OverFits, FitsKept DEF NoRoute, InFlight
    <3>8. CASE Answered
      BY <2>2, <3>1, <3>2, <3>8, OverFits, FitsKept DEF Answered
    <3>9. CASE UNCHANGED <<won, packet>>
      BY <2>2, <3>1, <3>2, <3>9, FitsKept
    <3>10. QED
      BY <3>3, <3>4, <3>5, <3>6, <3>7, <3>8, <3>9 DEF FNext, FStep, Build, Quiet, fvars
  <2>3. QED
    BY <2>1, <2>2
<1>3. QED
  BY <1>1, <1>2, GeneratedInvariant, PTL DEF FwdSpec

\* Packets and the routes they used keep their types: the addresses in them are of
\* interfaces there are, and routes are only used that were generated
\* (Architecture.ip_route_path_connection and modify_etc_hosts).
THEOREM ForwardingTypeOK == FwdSpec => []FTypeOK
<1>1. Generated /\ PacketInv => FTypeOK
  BY DEF PacketInv, Fits, PacketRecords, FTypeOK
<1>2. QED
  BY <1>1, PacketInvariant, PTL

----
(***************************************************************************)
(* Delivery, when no two entities are joined twice.                        *)
(***************************************************************************)
\* The ends of a segment, of which the first comes before the last.
LEMMA SegmentEnds ==
  ASSUME NEW c, IsConfig(c), CheckConfig(c), NEW h \in AllE2e(c), NEW i \in Starts(c, h)
  PROVE  LET j == NextL3(c, h, i)
             x == SegmentAt(c, h, i)
         IN  /\ x[1] = h[i] /\ LastHop(x) = h[j]
             /\ i \in 1 .. Len(h) /\ j \in 1 .. Len(h) /\ i < j
             /\ ~IsSwitch(c, h[i]) /\ ~IsSwitch(c, h[j])
             /\ Before(c, h[i], h[j]) /\ h[i] # h[j] /\ ~Before(c, h[j], h[i])
<1> DEFINE j == NextL3(c, h, i)
           x == SegmentAt(c, h, i)
<1>1. IsRoute(c, h) /\ Len(h) \in Nat /\ DOMAIN h = 1 .. Len(h)
  BY E2eAreRoutes, RouteFacts
<1>2. /\ i \in 1 .. Len(h) - 1 /\ ~IsSwitch(c, h[i])
      /\ Len(x) = j - i + 1
      /\ \A k \in 1 .. j - i + 1 : x[k] = h[k + i - 1]
  BY <1>1, SegmentShape
<1>3. j \in i + 1 .. Len(h) /\ ~IsSwitch(c, h[j])
  BY <1>1, <1>2, NextL3Exists
<1> HIDE DEF j, x
<1>4. i \in 1 .. Len(h) /\ j \in 1 .. Len(h) /\ i < j
  BY <1>1, <1>2, <1>3
<1>5. x[1] = h[i] /\ x[Len(x)] = h[j]
  <2>1. 1 \in 1 .. j - i + 1 /\ j - i + 1 \in 1 .. j - i + 1 /\ 1 + i - 1 = i /\ j - i + 1 + i - 1 = j
    BY <1>4
  <2>2. QED
    BY <1>2, <2>1
<1>6. Before(c, h[i], h[j])
  BY <1>4, ConnectionsOrdered
<1>7. h[i] # h[j] /\ ~Before(c, h[j], h[i])
  <2>1. h[i] \in Entities(c)
    BY <1>1, <1>4, RouteFacts
  <2>2. QED
    BY <1>6, <2>1, ConnectionsOrdered
<1>8. QED
  BY <1>2, <1>3, <1>4, <1>5, <1>6, <1>7 DEF LastHop, j, x

\* A network that holds both ends of a segment is its network.
LEMMA JoinsSegment ==
  ASSUME NEW c, IsConfig(c), CheckConfig(c), ~JoinedTwice(c),
         NEW nets \in Seq(NetworksOf(c)), NEW k \in DOMAIN nets,
         NEW h \in AllE2e(c), NEW i \in Starts(c, h),
         {h[i], h[NextL3(c, h, i)]} \subseteq Range(nets[k].hops)
  PROVE  nets[k].hops = SegmentAt(c, h, i)
<1> DEFINE j == NextL3(c, h, i)
           x == SegmentAt(c, h, i)
           y == nets[k].hops
<1>1. \A g \in AllE2e(c) : IsRoute(c, g)
  BY E2eAreRoutes
<1>2. /\ x[1] = h[i] /\ LastHop(x) = h[j] /\ ~IsSwitch(c, h[i]) /\ ~IsSwitch(c, h[j])
      /\ h[i] # h[j] /\ ~Before(c, h[j], h[i])
  BY SegmentEnds
<1>3. /\ y \in AllSegments(c)
      /\ \A e \in Range(y) : ~IsSwitch(c, e) => e = y[1] \/ e = LastHop(y)
  BY <1>1, NetworkEnds
<1>4. h[i] \in Range(y) /\ h[j] \in Range(y)
  OBVIOUS
<1>5. Before(c, y[1], LastHop(y))
  <2>1. PICK g \in AllE2e(c) : \E m \in Starts(c, g) : y = SegmentAt(c, g, m)
    BY <1>3, SegmentsAre
  <2>2. PICK m \in Starts(c, g) : y = SegmentAt(c, g, m)
    BY <2>1
  <2>3. QED
    BY <2>2, SegmentEnds
<1>6. x \in AllSegments(c)
  BY SegmentsAre
<1> HIDE DEF x, y, j
<1>7. y[1] = h[i] /\ LastHop(y) = h[j]
  BY <1>2, <1>3, <1>4, <1>5
<1>8. x = y
  BY <1>2, <1>3, <1>6, <1>7 DEF JoinedTwice
<1>9. QED
  BY <1>8 DEF x, y

\* Where a connection crosses a segment, the generator finds the network of the segment.
LEMMA SegmentNetwork ==
  ASSUME Generated, phase = "done", ~JoinedTwice(cfg), NEW h \in AllE2e(cfg), NEW i \in Starts(cfg, h)
  PROVE  LET k == IF IsSwitch(cfg, h[i + 1]) THEN CommonNetwork(networks, h[i], h[NextL3(cfg, h, i)])
                  ELSE SharedNetwork(cfg, networks, h[i], h[i + 1])
         IN  k \in DOMAIN networks /\ networks[k].hops = SegmentAt(cfg, h, i)
<1> DEFINE j == NextL3(cfg, h, i)
<1>1. /\ IsRoute(cfg, h) /\ Routable(cfg, networks, h) /\ Len(h) \in Nat
      /\ networks \in Seq(NetworksOf(cfg)) /\ IsConfig(cfg) /\ CheckConfig(cfg)
      /\ \A g \in AllE2e(cfg) : IsRoute(cfg, g)
  BY Connected, RouteFacts
<1>2. i \in 1 .. Len(h) - 1 /\ ~IsSwitch(cfg, h[i])
  BY <1>1, SegmentShape
<1>3. CASE IsSwitch(cfg, h[i + 1])
  <2> DEFINE k == CommonNetwork(networks, h[i], h[j])
  <2>1. k # NoNetwork
    BY <1>1, <1>3 DEF Routable, Starts
  <2>2. k \in DOMAIN networks /\ {h[i], h[j]} \subseteq Range(networks[k].hops)
    BY <1>1, <2>1, NetworkJoins
  <2> HIDE DEF k
  <2>3. networks[k].hops = SegmentAt(cfg, h, i)
    BY <1>1, <2>2, JoinsSegment
  <2>4. QED
    BY <1>3, <2>2, <2>3 DEF k
<1>4. CASE ~IsSwitch(cfg, h[i + 1])
  <2> DEFINE k == SharedNetwork(cfg, networks, h[i], h[i + 1])
  <2>1. k # NoNetwork
    BY <1>1, <1>2, <1>4 DEF Routable
  <2>2. k \in DOMAIN networks /\ {h[i], h[i + 1]} \subseteq Range(networks[k].hops)
    BY <1>1, <2>1, NetworkJoins
  <2>3. j = i + 1
    <3>1. j \in i + 1 .. Len(h) /\ \A m \in i + 1 .. j - 1 : IsSwitch(cfg, h[m])
      BY <1>1, <1>2, NextL3Exists
    <3>2. i + 1 \notin i + 1 .. j - 1
      BY <1>4, <3>1
    <3>3. i \in Int /\ Len(h) \in Int
      BY <1>1, <1>2
    <3> HIDE DEF j
    <3>4. j \in Int
      BY <3>1, <3>3, Bounded, Zenon
    <3>5. \A m, n, l \in Int : l \in m + 1 .. n /\ m + 1 \notin m + 1 .. l - 1 => l = m + 1
      OBVIOUS
    <3>6. QED
      BY <3>1, <3>2, <3>3, <3>4, <3>5, Zenon
  <2> HIDE DEF k
  <2>4. networks[k].hops = SegmentAt(cfg, h, i)
    BY <1>1, <2>2, <2>3, JoinsSegment
  <2>5. QED
    BY <1>4, <2>2, <2>4 DEF k
<1>5. QED
  BY <1>3, <1>4

\* Then every segment has a network of its own, and no other asks for its name.
LEMMA NotJoinedTwice ==
  ASSUME Generated, phase = "done", ~JoinedTwice(cfg)
  PROVE  SegmentsNamed(cfg)
<1>1. /\ networks \in Seq(NetworksOf(cfg)) /\ \A g \in AllE2e(cfg) : IsRoute(cfg, g)
      /\ \A k, m \in DOMAIN networks : networks[k].name = networks[m].name => k = m
  BY Connected
<1>2. ASSUME NEW x \in AllSegments(cfg)
      PROVE  \E k \in DOMAIN networks : networks[k].hops = x /\ networks[k].name = NetName(x)
  <2>1. PICK h \in AllE2e(cfg) : \E i \in Starts(cfg, h) : x = SegmentAt(cfg, h, i)
    BY SegmentsAre
  <2>2. PICK i \in Starts(cfg, h) : x = SegmentAt(cfg, h, i)
    BY <2>1
  <2>3. PICK k \in DOMAIN networks : networks[k].hops = SegmentAt(cfg, h, i)
    BY SegmentNetwork
  <2>4. QED
    BY <1>1, <2>2, <2>3, NetworkEnds
<1>3. QED
  BY <1>1, <1>2 DEF SegmentsNamed

\* The first command of a connection sends packets out on its first network.
LEMMA FirstGateway ==
  ASSUME Generated, phase = "done", ~JoinedTwice(cfg), NEW h \in AllE2e(cfg), NEW rt, NEW j,
         Goes(cfg, networks, h, rt, 1, j)
  PROVE  rt.via[1] = Src(cfg, networks, h)
<1> DEFINE s == Src(cfg, networks, h)
           n == NextL3(cfg, h, 1)
           k == IF IsSwitch(cfg, h[2]) THEN CommonNetwork(networks, h[1], h[n]) ELSE s
<1>1. /\ networks \in Seq(NetworksOf(cfg)) /\ \A g \in AllE2e(cfg) : IsRoute(cfg, g)
      /\ Routable(cfg, networks, h)
      /\ \A q, m \in DOMAIN networks : networks[q].name = networks[m].name => q = m
  BY Connected
<1>2. 1 \in Starts(cfg, h) /\ 1 + 1 = 2
  BY <1>1, FirstStart
<1>3. k \in DOMAIN networks /\ networks[k].hops = SegmentAt(cfg, h, 1)
  BY <1>2, SegmentNetwork DEF Src
<1>4. s \in DOMAIN networks /\ networks[s].hops = SegmentAt(cfg, h, 1)
  BY <1>1, ConnectionEnds, FirstSegment, NotJoinedTwice
<1>5. networks[k].name = networks[s].name
  BY <1>1, <1>3, <1>4, NetworkEnds
<1>6. k = s
  BY <1>1, <1>3, <1>4, <1>5
<1>7. rt.via[1] = k
  BY DEF Goes
<1>8. QED
  BY <1>6, <1>7

\* For the last network of a connection, the routes of entities that are not on it go
\* forward.
LEMMA ForwardOnly ==
  ASSUME Generated, phase = "done", SegmentsNamed(cfg), NEW g \in AllE2e(cfg),
         NEW h \in AllE2e(cfg), NEW rt, NEW i \in L3Positions(cfg, h), NEW j \in L3Positions(cfg, h),
         Goes(cfg, networks, h, rt, i, j),
         rt.dst = Dest(cfg, networks, g), ~OnNetwork(rt.at, rt.dst)
  PROVE  i < j /\ rt.dst = Dest(cfg, networks, h)
<1>1. ASSUME rt.dst = Src(cfg, networks, h) PROVE FALSE
  <2>1. EntityIp(networks, Src(cfg, networks, h), h[i]) # NoAddress
    BY <1>1, Connected, StartIsEnd
  <2>2. QED
    BY <1>1, <2>1 DEF OnNetwork, Goes
<1>2. QED
  BY <1>1 DEF Goes

\* e is on network k, or is a hop that sends packets for k on: k is at an end of its
\* connection.
Along(k, e) ==
  \/ OnNetwork(e, k)
  \/ \E h \in AllE2e(cfg) : /\ k \in {Dest(cfg, networks, h), Src(cfg, networks, h)}
                            /\ \E i \in L3Positions(cfg, h) : h[i] = e

\* A packet is where its destination is reached from, and a request has a source address
\* that is reached from the end of its connection.
OnTheWay(p) ==
  /\ p.state # "dropped"
  /\ p.state \in {"request", "response"} => Along(p.dst[1], LastHop(p.trail))
  /\ p.state = "request" /\ p.src # NoAddress => Along(p.src[1], LastHop(p.conn))

ReachInv == ~JoinedTwice(cfg) => OnTheWay(packet)

\* A hop on the way has a route.
LEMMA AlongReaches ==
  ASSUME Generated, phase = "done", won \subseteq routes, NEW k, NEW e, Along(k, e), ~OnNetwork(e, k)
  PROVE  Candidates(e, k) # {}
<1>1. PICK h \in AllE2e(cfg) : /\ k \in {Dest(cfg, networks, h), Src(cfg, networks, h)}
                               /\ \E i \in L3Positions(cfg, h) : h[i] = e
  BY DEF Along
<1>2. PICK i \in L3Positions(cfg, h) : h[i] = e
  BY <1>1
<1>3. RouteCommands(cfg, networks, h) \subseteq routes
  BY Connected
<1>4. ASSUME NEW m \in DOMAIN networks PROVE
        /\ OnNetwork(networks[m].hops[1], m) /\ OnNetwork(LastHop(networks[m].hops), m)
  <2>1. m # 0
    BY Connected
  <2>2. QED
    BY <2>1, Connected, NetworkEnds DEF OnNetwork, NoAddress, NoNetwork
<1>5. OnNetwork(h[Len(h)], Dest(cfg, networks, h)) /\ OnNetwork(h[1], Src(cfg, networks, h))
  BY <1>4, Connected, ConnectionEnds DEF LastHop
<1>6. \E rt \in routes : rt.at = e /\ rt.dst = k
  <2>1. CASE k = Dest(cfg, networks, h)
    <3> DEFINE rt == [ at |-> h[i], dst |-> Dest(cfg, networks, h),
                       via |-> Gateway(cfg, networks, h, i, i + 1, NextL3(cfg, h, i)),
                       slots |-> IF UsesIoam(cfg) /\ i = 1 THEN Len(h) ELSE 0 ]
    <3>1. i # Len(h)
      BY <1>2, <1>5, <2>1
    <3>2. rt \in RouteCommands(cfg, networks, h)
      BY <3>1, Zenon DEF RouteCommands, Dest
    <3>3. QED
      BY <1>2, <1>3, <2>1, <3>2
  <2>2. CASE k = Src(cfg, networks, h)
    <3> DEFINE rt == [ at |-> h[i], dst |-> Src(cfg, networks, h),
                       via |-> Gateway(cfg, networks, h, i, i - 1, PrevL3(cfg, h, i)), slots |-> 0 ]
    <3>1. i # 1
      BY <1>2, <1>5, <2>2
    <3>2. rt \in RouteCommands(cfg, networks, h)
      BY <3>1, Zenon DEF RouteCommands, Src
    <3>3. QED
      BY <1>2, <1>3, <2>2, <3>2
  <2>3. QED
    BY <1>1, <2>1, <2>2
<1>7. QED
  BY <1>6 DEF Candidates

\* The address a request gets as it leaves is reached from its end.
LEMMA LeavesFrom ==
  ASSUME Generated, phase = "done", ~JoinedTwice(cfg), Fits(packet), packet.state = "request",
         packet.src = NoAddress, ~OnLink,
         NEW rt \in routes, rt.at = Here, rt.dst = packet.dst[1]
  PROVE  Along(rt.via[1], LastHop(packet.conn))
<1>1. Sent(packet) /\ Requested(packet)
  BY DEF Fits
<1>2. PICK g \in AllE2e(cfg) : LastHop(g) = LastHop(packet.conn) /\ packet.dst[1] = Dest(cfg, networks, g)
  BY <1>1 DEF Requested
<1>3. PICK h \in AllE2e(cfg) : \E i, j \in L3Positions(cfg, h) : Goes(cfg, networks, h, rt, i, j)
  BY RouteTaken
<1>4. PICK i, j \in L3Positions(cfg, h) : Goes(cfg, networks, h, rt, i, j)
  BY <1>3
<1>5. i < j /\ rt.dst = Dest(cfg, networks, h)
  BY <1>2, <1>4, ForwardOnly, NotJoinedTwice DEF OnLink
<1>6. IsRoute(cfg, h) /\ Len(h) \in Nat /\ Len(h) >= 2 /\ DOMAIN h = 1 .. Len(h)
  BY Connected, RouteFacts DEF IsRoute
<1>7. i \in 1 .. Len(h) /\ j \in 1 .. Len(h) /\ i # Len(h)
  BY <1>5, <1>6 DEF L3Positions
<1>8. i = 1
  <2>1. h[i] = packet.conn[1]
    BY <1>1, <1>4 DEF Requested, Here, LastHop, Goes
  <2>2. cfg.kind[h[i]] \in EndHost
    BY <1>1, <2>1, Connected DEF Sent, IsRoute
  <2>3. QED
    BY <1>6, <1>7, <2>2, RouteFacts
<1>9. rt.via[1] = Src(cfg, networks, h)
  BY <1>4, <1>8, FirstGateway
<1>10. LastHop(h) = LastHop(packet.conn)
  <2>1. Dest(cfg, networks, h) = Dest(cfg, networks, g)
    BY <1>2, <1>5
  <2>2. QED
    BY <1>2, <2>1, Connected, ConnectionEnds
<1>11. Len(h) \in L3Positions(cfg, h) /\ h[Len(h)] = LastHop(packet.conn)
  BY <1>6, <1>10, RouteFacts DEF L3Positions, LastHop
<1>12. QED
  BY <1>9, <1>11 DEF Along

\* A packet that moves on the link or by a route stays on the way.
LEMMA MovesOnTheWay ==
  ASSUME Generated, phase = "done", ~JoinedTwice(cfg), won \subseteq routes, Fits(packet), OnTheWay(packet),
         ForwardOnLink \/ ForwardByRoute
  PROVE  OnTheWay(packet')
<1>1. packet.state \in {"request", "response"} /\ Sent(packet) /\ (packet.state = "request" => Requested(packet))
  BY DEF ForwardOnLink, ForwardByRoute, InFlight, Fits
<1>2. CASE ForwardOnLink
  <2> DEFINE k == packet.dst[1]
             e == Owner(packet.dst)
  <2>1. Moves(k, e) /\ Owns(e, packet.dst)
    BY <1>2, MovesOnLink
  <2>2. /\ packet'.state = packet.state /\ packet'.conn = packet.conn /\ packet'.dst = packet.dst
        /\ packet.src # NoAddress => packet'.src = packet.src
        /\ packet.src = NoAddress => packet'.src = EntityIp(networks, k, Here)
        /\ LastHop(packet'.trail) = e
    BY <2>1, MovesOn DEF LastHop
  <2>3. packet.dst # NoAddress
    BY <1>1 DEF Sent, Owned
  <2> HIDE DEF e
  <2>4. OnNetwork(e, packet.dst[1])
    BY <2>1, <2>3 DEF Owns, OnNetwork
  <2>5. ASSUME packet.state = "request" PROVE Along(packet'.src[1], LastHop(packet.conn))
    <3>1. CASE packet.src # NoAddress
      BY <2>2, <2>5, <3>1 DEF OnTheWay
    <3>2. CASE packet.src = NoAddress
      <4>1. EntityIp(networks, k, Here)[1] = k
        BY <2>1 DEF Moves, OnNetwork, EntityIp
      <4>2. OnNetwork(LastHop(packet.conn), packet.dst[1])
        BY <1>1, <2>3, <2>5 DEF Requested, Owns, OnNetwork
      <4>3. QED
        BY <2>2, <3>2, <4>1, <4>2 DEF Along
    <3>3. QED
      BY <3>1, <3>2
  <2>6. QED
    BY <1>1, <2>2, <2>4, <2>5 DEF OnTheWay, Along
<1>3. CASE ForwardByRoute
  <2>1. PICK rt \in routes : /\ rt.at = Here /\ rt.dst = packet.dst[1]
                             /\ Moves(rt.via[1], Owner(rt.via))
    BY <1>3, MovesByRoute
  <2> DEFINE k == rt.via[1]
             e == Owner(rt.via)
  <2>2. /\ packet'.state = packet.state /\ packet'.conn = packet.conn /\ packet'.dst = packet.dst
        /\ packet.src # NoAddress => packet'.src = packet.src
        /\ packet.src = NoAddress => packet'.src = EntityIp(networks, k, Here)
        /\ LastHop(packet'.trail) = e
    BY <2>1, MovesOn DEF LastHop
  <2>3. PICK h \in AllE2e(cfg) : \E i, j \in L3Positions(cfg, h) :
          Goes(cfg, networks, h, rt, i, j) /\ h[j] = e
    BY RouteTaken
  <2> HIDE DEF e
  <2>4. Along(packet.dst[1], e)
    BY <2>1, <2>3 DEF Along, Goes
  <2>5. ASSUME packet.state = "request" PROVE Along(packet'.src[1], LastHop(packet.conn))
    <3>1. CASE packet.src # NoAddress
      BY <2>2, <2>5, <3>1 DEF OnTheWay
    <3>2. CASE packet.src = NoAddress
      <4>1. EntityIp(networks, k, Here)[1] = k
        BY <2>1 DEF Moves, OnNetwork, EntityIp
      <4>2. Along(k, LastHop(packet.conn))
        BY <1>3, <2>1, <2>5, <3>2, LeavesFrom DEF ForwardByRoute
      <4>3. QED
        BY <2>2, <3>2, <4>1, <4>2
    <3>3. QED
      BY <3>1, <3>2
  <2>6. QED
    BY <1>1, <2>2, <2>4, <2>5 DEF OnTheWay
<1>4. QED
  BY <1>2, <1>3

\* Packets are on the way to where they go, and a response finds the way back.
LEMMA ReachInvariant == FwdSpec => []ReachInv
<1>1. FInit => ReachInv
  BY DEF FInit, ReachInv, OnTheWay, NoPacket
<1>2. Generated /\ PacketInv /\ ReachInv /\ [FNext]_fvars => ReachInv'
  <2> SUFFICES ASSUME Generated, PacketInv, ReachInv, [FNext]_fvars PROVE ReachInv'
    OBVIOUS
  <2>1. CASE phase # "done"
    <3>1. packet = NoPacket /\ packet.state = "none"
      BY <2>1 DEF PacketInv, NoPacket
    <3>2. packet' = packet
      BY <2>1, <3>1 DEF FNext, FStep, Build, Send, ForwardOnLink, ForwardByRoute, NoRoute, InFlight,
        Respond, Answered, Quiet, fvars
    <3>3. QED
      BY <3>1, <3>2 DEF ReachInv, OnTheWay
  <2>2. CASE phase = "done"
    <3>1. UNCHANGED vars
      BY <2>2, DoneStays
    <3> SUFFICES ASSUME ~JoinedTwice(cfg) PROVE OnTheWay(packet')
      BY <3>1 DEF ReachInv, OnTheWay, Along, OnNetwork, vars
    <3>2. Fits(packet) /\ won \subseteq routes /\ OnTheWay(packet)
      BY DEF PacketInv, ReachInv
    <3>3. CASE Send
      <4>1. /\ Fits(packet') /\ packet'.state = "request" /\ packet'.src = NoAddress
            /\ Len(packet'.trail) = 1
        BY <2>2, <3>3, SendFits
      <4>2. LastHop(packet'.trail) = packet'.conn[1]
        BY <4>1 DEF Fits, Requested, LastHop
      <4>3. PICK g \in AllE2e(cfg) : g[1] = packet'.conn[1] /\ packet'.dst[1] = Dest(cfg, networks, g)
        BY <4>1 DEF Fits, Requested
      <4>4. 1 \in L3Positions(cfg, g)
        <5>1. IsRoute(cfg, g) /\ 1 \in 1 .. Len(g)
          BY <2>2, Connected, RouteFacts DEF IsRoute
        <5>2. QED
          BY <5>1, RouteFacts DEF L3Positions
      <4>5. QED
        BY <4>1, <4>2, <4>3, <4>4 DEF OnTheWay, Along
    <3>4. CASE ForwardOnLink \/ ForwardByRoute
      BY <2>2, <3>2, <3>4, MovesOnTheWay
    <3>5. CASE NoRoute
      <4>1. Along(packet.dst[1], Here) /\ ~OnNetwork(Here, packet.dst[1])
        BY <3>2, <3>5 DEF NoRoute, OnTheWay, InFlight, OnLink, Here
      <4>2. Candidates(Here, packet.dst[1]) # {}
        BY <2>2, <3>2, <4>1, AlongReaches
      <4>3. QED
        BY <3>5, <4>2 DEF NoRoute
    <3>6. CASE Respond
      <4>1. packet.state = "request" /\ packet.src # NoAddress
        BY <2>2, <3>2, <3>6, ArrivedAtEnd DEF Respond
      <4>2. /\ packet'.state = "response" /\ packet'.dst = packet.src
            /\ packet'.trail = <<LastHop(packet.conn)>>
        BY <2>2, <3>2, <3>6, RespondFits
      <4>3. LastHop(packet'.trail) = LastHop(packet.conn)
        BY <4>2 DEF LastHop
      <4>4. QED
        BY <3>2, <4>1, <4>2, <4>3 DEF OnTheWay
    <3>7. CASE Answered
      <4>1. packet'.state = "answered"
        BY <3>2, <3>7, OverFits DEF Answered
      <4>2. QED
        BY <4>1 DEF OnTheWay
    <3>8. CASE packet' = packet
      BY <3>2, <3>8
    <3>9. QED
      BY <3>3, <3>4, <3>5, <3>6, <3>7, <3>8 DEF FNext, FStep, Build, Quiet, fvars
  <2>3. QED
    BY <2>1, <2>2
<1>3. QED
  BY <1>1, <1>2, PacketInvariant, PTL DEF FwdSpec

\* In any generated topology where no two entities are joined twice, every entity a
\* request or its response reaches has a route for it, whichever of the competing
\* commands won there (Architecture.ip_route_path_connection, modify_etc_hosts).
THEOREM NeverDroppedTheorem == FwdSpec => []NeverDropped
<1>1. ReachInv => NeverDropped
  BY DEF ReachInv, OnTheWay, NeverDropped
<1>2. QED
  BY <1>1, ReachInvariant, PTL

----
(***************************************************************************)
(* No loops, when the segments have names of their own.                    *)
(***************************************************************************)
\* Packets for the last network of a connection go forward, others back.
Onward(k, a, b) ==
  IF \E g \in AllE2e(cfg) : Dest(cfg, networks, g) = k THEN Before(cfg, a, b) ELSE Before(cfg, b, a)

\* The entities a packet met are behind each other; only the last one may have the
\* address it is for.
InLine(p) ==
  p.state # "none" =>
    \A i, j \in 1 .. Len(p.trail) : i < j =>
      /\ ~Owns(p.trail[i], p.dst)
      /\ \/ Onward(p.dst[1], p.trail[i], p.trail[j])
         \/ j = Len(p.trail) /\ Owns(p.trail[j], p.dst)

TrailInv == Buildable(cfg) => InLine(packet)

\* One order for all packets for a network.
LEMMA OnwardOrdered ==
  ASSUME Generated, phase = "done", NEW k
  PROVE  /\ \A e \in Entities(cfg) : ~Onward(k, e, e)
         /\ \A x, y, z : Onward(k, x, y) /\ Onward(k, y, z) => Onward(k, x, z)
<1>1. /\ \A e \in Entities(cfg) : ~Before(cfg, e, e)
      /\ \A x, y, z : Before(cfg, x, y) /\ Before(cfg, y, z) => Before(cfg, x, z)
  BY Connected, ConnectionsOrdered
<1>2. QED
  BY <1>1 DEF Onward

\* A route that is needed leads onward.
LEMMA RouteOnward ==
  ASSUME Generated, phase = "done", SegmentsNamed(cfg), NEW rt \in routes, ~OnNetwork(rt.at, rt.dst)
  PROVE  Onward(rt.dst, rt.at, Owner(rt.via))
<1>1. PICK h \in AllE2e(cfg) : \E i, j \in L3Positions(cfg, h) :
        Goes(cfg, networks, h, rt, i, j) /\ h[j] = Owner(rt.via)
  BY RouteTaken
<1>2. PICK i, j \in L3Positions(cfg, h) : Goes(cfg, networks, h, rt, i, j) /\ h[j] = Owner(rt.via)
  BY <1>1
<1>3. i \in 1 .. Len(h) /\ j \in 1 .. Len(h)
  BY Connected, RouteFacts DEF L3Positions
<1>4. /\ i < j => Before(cfg, h[i], h[j])
      /\ j < i => Before(cfg, h[j], h[i])
  BY <1>3, Connected, ConnectionsOrdered
<1>5. CASE \E g \in AllE2e(cfg) : Dest(cfg, networks, g) = rt.dst
  <2>1. PICK g \in AllE2e(cfg) : Dest(cfg, networks, g) = rt.dst
    BY <1>5
  <2>2. i < j
    BY <1>2, <2>1, ForwardOnly
  <2>3. QED
    BY <1>2, <1>4, <1>5, <2>2 DEF Onward, Goes
<1>6. CASE ~\E g \in AllE2e(cfg) : Dest(cfg, networks, g) = rt.dst
  <2>1. j < i
    BY <1>2, <1>6 DEF Goes
  <2>2. QED
    BY <1>2, <1>4, <1>6, <2>1 DEF Onward, Goes
<1>7. QED
  BY <1>5, <1>6

\* One more entity in line.
LEMMA MovesInLine ==
  ASSUME Generated, phase = "done", Fits(packet), InLine(packet), NEW k, NEW e, Moves(k, e),
         Owns(e, packet.dst) \/ Onward(packet.dst[1], Here, e)
  PROVE  InLine(packet')
<1> DEFINE t == packet.trail
           n == Len(t)
           u == packet'.trail
<1>1. packet.state # "none" /\ ~Owns(Here, packet.dst)
  BY DEF Moves, InFlight, Arrived, Owns
<1>2. /\ packet'.dst = packet.dst /\ Len(u) = n + 1 /\ n \in Nat \ {0}
      /\ \A i \in 1 .. n : u[i] = t[i]
      /\ u[n + 1] = e
  BY MovesOn
<1>3. Here = t[n]
  BY DEF Here, LastHop
<1>4. \A i, j \in 1 .. n : i < j =>
        ~Owns(t[i], packet.dst) /\ (Onward(packet.dst[1], t[i], t[j]) \/ (j = n /\ Owns(t[j], packet.dst)))
  BY <1>1 DEF InLine
<1> HIDE DEF t, n, u
<1>5. ASSUME NEW i \in 1 .. n PROVE ~Owns(t[i], packet.dst)
  <2>1. i = n \/ (i < n /\ n \in 1 .. n)
    BY <1>2
  <2>2. QED
    BY <1>1, <1>3, <1>4, <2>1
<1>6. ASSUME NEW i \in 1 .. n, NEW j \in 1 .. n, i < j PROVE Onward(packet.dst[1], t[i], t[j])
  BY <1>4, <1>5, <1>6
<1>7. ASSUME NEW i \in 1 .. n PROVE Owns(e, packet.dst) \/ Onward(packet.dst[1], t[i], e)
  <2>1. i = n \/ (i < n /\ n \in 1 .. n)
    BY <1>2
  <2>2. QED
    BY <1>3, <1>6, <2>1, OnwardOrdered
<1>8. ASSUME NEW i \in 1 .. n + 1, NEW j \in 1 .. n + 1, i < j
      PROVE  /\ ~Owns(u[i], packet.dst)
             /\ Onward(packet.dst[1], u[i], u[j]) \/ (j = n + 1 /\ Owns(u[j], packet.dst))
  <2>1. i \in 1 .. n /\ (j \in 1 .. n \/ j = n + 1)
    BY <1>2, <1>8
  <2>2. u[i] = t[i] /\ ~Owns(u[i], packet.dst)
    BY <1>2, <1>5, <2>1
  <2>3. CASE j \in 1 .. n
    BY <1>2, <1>6, <1>8, <2>1, <2>2, <2>3
  <2>4. CASE j = n + 1
    BY <1>2, <1>7, <2>1, <2>2, <2>4
  <2>5. QED
    BY <2>1, <2>2, <2>3, <2>4
<1>9. QED
  BY <1>2, <1>8 DEF InLine, u

\* What packets meet is in line.
LEMMA TrailInvariant == FwdSpec => []TrailInv
<1>1. FInit => TrailInv
  BY DEF FInit, TrailInv, InLine, NoPacket
<1>2. Generated /\ PacketInv /\ TrailInv /\ [FNext]_fvars => TrailInv'
  <2> SUFFICES ASSUME Generated, PacketInv, TrailInv, [FNext]_fvars PROVE TrailInv'
    OBVIOUS
  <2>1. CASE phase # "done"
    <3>1. packet = NoPacket /\ packet.state = "none"
      BY <2>1 DEF PacketInv, NoPacket
    <3>2. packet' = packet
      BY <2>1, <3>1 DEF FNext, FStep, Build, Send, ForwardOnLink, ForwardByRoute, NoRoute, InFlight,
        Respond, Answered, Quiet, fvars
    <3>3. QED
      BY <3>1, <3>2 DEF TrailInv, InLine
  <2>2. CASE phase = "done"
    <3>1. UNCHANGED vars
      BY <2>2, DoneStays
    <3> SUFFICES ASSUME Buildable(cfg) PROVE InLine(packet')
      BY <3>1 DEF TrailInv, InLine, Onward, Owns, vars
    <3>2. Fits(packet) /\ won \subseteq routes /\ InLine(packet)
      BY DEF PacketInv, TrailInv
    <3>3. SegmentsNamed(cfg)
      BY DEF Buildable, SegmentsNamed
    <3>4. ASSUME Len(packet'.trail) = 1 PROVE InLine(packet')
      BY <3>4 DEF InLine
    <3>5. CASE Send
      BY <2>2, <3>4, <3>5, SendFits
    <3>6. CASE ForwardOnLink
      BY <2>2, <3>2, <3>6, MovesOnLink, MovesInLine
    <3>7. CASE ForwardByRoute
      <4>1. PICK rt \in routes : /\ rt.at = Here /\ rt.dst = packet.dst[1]
                                 /\ Moves(rt.via[1], Owner(rt.via))
        BY <2>2, <3>2, <3>7, MovesByRoute
      <4>2. ~OnNetwork(rt.at, rt.dst)
        BY <3>7, <4>1 DEF ForwardByRoute, OnLink
      <4>3. Onward(packet.dst[1], Here, Owner(rt.via))
        BY <2>2, <3>3, <4>1, <4>2, RouteOnward
      <4>4. QED
        BY <2>2, <3>2, <4>1, <4>3, MovesInLine
    <3>8. CASE Respond
      <4>1. packet'.trail = <<LastHop(packet.conn)>>
        BY <2>2, <3>2, <3>8, RespondFits
      <4>2. QED
        BY <3>4, <4>1
    <3>9. CASE NoRoute \/ Answered
      <4>1. /\ packet.state # "none"
            /\ packet' = [packet EXCEPT !.state = "dropped"] \/ packet' = [packet EXCEPT !.state = "answered"]
        BY <3>9 DEF NoRoute, Answered, InFlight
      <4>2. packet'.dst = packet.dst /\ packet'.trail = packet.trail
        BY <3>2, <4>1, OverFits
      <4>3. QED
        BY <3>2, <4>1, <4>2 DEF InLine
    <3>10. CASE packet' = packet
      BY <3>2, <3>10
    <3>11. QED
      BY <3>5, <3>6, <3>7, <3>8, <3>9, <3>10 DEF FNext, FStep, Build, Quiet, fvars
  <2>3. QED
    BY <2>1, <2>2
<1>3. QED
  BY <1>1, <1>2, PacketInvariant, PTL DEF FwdSpec

\* In any generated topology whose segments have names of their own, no request or
\* response meets an entity twice, although the routes it follows may come from different
\* connections (Architecture.ip_route_path_connection): the connections agree on an order
\* of the entities, and all routes for one network keep to it or all go against it.
THEOREM NoForwardingLoopTheorem == FwdSpec => []NoForwardingLoop
<1>1. Generated /\ PacketInv /\ TrailInv => NoForwardingLoop
  <2> SUFFICES ASSUME Generated, PacketInv, TrailInv, Buildable(cfg),
                      NEW i \in DOMAIN packet.trail, NEW j \in DOMAIN packet.trail,
                      packet.trail[i] = packet.trail[j], i # j
               PROVE  FALSE
    BY DEF NoForwardingLoop
  <2>1. packet.state # "none" /\ phase = "done"
    <3>1. packet # NoPacket
      BY DEF NoPacket
    <3>2. QED
      BY <3>1 DEF PacketInv, Fits
  <2>2. /\ DOMAIN packet.trail = 1 .. Len(packet.trail) /\ Len(packet.trail) \in Nat
        /\ \A m \in DOMAIN packet.trail : packet.trail[m] \in Entities(cfg)
    BY DEF PacketInv, Fits, PacketRecords
  <2>3. ASSUME NEW m \in DOMAIN packet.trail, NEW n \in DOMAIN packet.trail, m < n,
               packet.trail[m] = packet.trail[n]
        PROVE  FALSE
    <3>1. /\ ~Owns(packet.trail[m], packet.dst)
          /\ \/ Onward(packet.dst[1], packet.trail[m], packet.trail[n])
             \/ Owns(packet.trail[n], packet.dst)
      BY <2>1, <2>2, <2>3 DEF TrailInv, InLine
    <3>2. ~Onward(packet.dst[1], packet.trail[m], packet.trail[m])
      BY <2>1, <2>2, OnwardOrdered
    <3>3. QED
      BY <2>3, <3>1, <3>2
  <2>4. i < j \/ j < i
    BY <2>2
  <2>5. QED
    BY <2>3, <2>4
<1>2. QED
  BY <1>1, PacketInvariant, TrailInvariant, PTL

====
