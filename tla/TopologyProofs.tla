---- MODULE TopologyProofs ----
(***************************************************************************)
(* Facts about any one configuration: its connections, and its graph when  *)
(* it has no cycle.                                                        *)
(***************************************************************************)
EXTENDS Topology, TLAPS

\* A walk along the edges of a graph without cycles meets no node twice: between two
\* meetings of one node, every node of the walk would have its successor in the walk.
LEMMA WalksAreSimple ==
  ASSUME NEW nodes, NEW edges, Acyclic(nodes, edges),
         NEW h \in Seq(nodes),
         \A k \in 1 .. Len(h) - 1 : <<h[k], h[k + 1]>> \in edges
  PROVE  \A i, j \in DOMAIN h : h[i] = h[j] => i = j
<1>1. ASSUME NEW i \in DOMAIN h, NEW j \in DOMAIN h, i < j, h[i] = h[j]
      PROVE  FALSE
  <2> DEFINE S == {h[k] : k \in i .. j - 1}
  <2>1. DOMAIN h = 1 .. Len(h) /\ Len(h) \in Nat
    OBVIOUS
  <2>2. S \in (SUBSET nodes) \ {{}}
    <3>1. S \subseteq nodes
      BY <1>1, <2>1
    <3>2. h[i] \in S
      BY <1>1, <2>1
    <3>3. QED
      BY <3>1, <3>2
  <2>3. PICK n \in S : \A m \in S : <<n, m>> \notin edges
    BY <2>2 DEF Acyclic
  <2>4. PICK k \in i .. j - 1 : n = h[k]
    BY <2>3
  <2>5. <<h[k], h[k + 1]>> \in edges
    BY <1>1, <2>1, <2>4
  <2>6. h[k + 1] \in S
    <3>1. CASE k + 1 <= j - 1
      BY <3>1, <2>4, <2>1, <1>1
    <3>2. CASE k + 1 = j
      <4>1. i \in i .. j - 1
        BY <1>1, <2>1
      <4>2. QED
        BY <3>2, <1>1, <4>1
    <3>3. QED
      BY <3>1, <3>2, <2>4, <2>1, <1>1
  <2>7. QED
    BY <2>3, <2>4, <2>5, <2>6
<1>2. SUFFICES ASSUME NEW i \in DOMAIN h, NEW j \in DOMAIN h, h[i] = h[j], i # j
               PROVE  FALSE
  OBVIOUS
<1>3. i < j \/ j < i
  BY <1>2
<1>4. QED
  BY <1>1, <1>2, <1>3

\* The connections of an entity are nonempty sequences of names.
LEMMA ConnectionsType ==
  ASSUME NEW c, IsConfig(c), NEW e \in Entities(c), NEW p \in ExtractConnections(c, e)
  PROVE  p \in Seq(Names) /\ p # <<>>
<1>1. CASE c.kind[e] = "service"
  <2>1. PICK k \in DOMAIN c.endpoints[e] : p \in c.endpoints[e][k]
    BY <1>1 DEF ExtractConnections
  <2>2. c.endpoints[e] \in Seq(SUBSET Seq(Names))
    BY DEF IsConfig, Entities
  <2>3. c.endpoints[e][k] \in Range(c.endpoints[e])
    BY <2>1 DEF Range
  <2>4. <<>> \notin c.endpoints[e][k]
    BY <2>3 DEF IsConfig, Entities
  <2>5. c.endpoints[e][k] \subseteq Seq(Names)
    BY <2>1, <2>2
  <2>6. QED
    BY <2>1, <2>4, <2>5
<1>2. CASE c.kind[e] # "service"
  <2>1. PICK n \in c.neighbors[e] : p = <<n>>
    BY <1>2 DEF ExtractConnections
  <2>2. n \in Names
    BY DEF IsConfig, Entities
  <2>3. QED
    BY <2>1, <2>2
<1>3. QED
  BY <1>1, <1>2

\* The hops of a connection: its entity, then its path.
LEMMA HopsShape ==
  ASSUME NEW e, NEW p \in Seq(Names), p # <<>>
  PROVE  /\ DOMAIN Hops(e, p) = 1 .. Len(p) + 1
         /\ Len(Hops(e, p)) = Len(p) + 1 /\ Len(p) \in Nat \ {0}
         /\ Hops(e, p)[1] = e
         /\ \A i \in 2 .. Len(p) + 1 : Hops(e, p)[i] = p[i - 1]
         /\ Hops(e, p)[Len(Hops(e, p))] = LastHop(p)
BY DEF Hops, LastHop

\* The path conditions of an accepted configuration, on the hops of a connection.
LEMMA HopsPossible ==
  ASSUME NEW c, IsConfig(c), ConnectivityPossible(c),
         NEW e \in Entities(c), c.kind[e] \in EndHost, NEW p \in ExtractConnections(c, e)
  PROVE  LET h == Hops(e, p) IN
         /\ \A i \in DOMAIN h : h[i] \in Entities(c)
         /\ \A i \in 2 .. Len(h) - 1 :
              c.kind[h[i]] \in Intermediary /\ h[i + 1] \in c.neighbors[h[i]]
         /\ c.kind[h[Len(h)]] \in EndHost
<1> DEFINE h == Hops(e, p)
<1>1. p \in Seq(Names) /\ p # <<>>
  BY ConnectionsType
<1>2. /\ DOMAIN h = 1 .. Len(p) + 1 /\ Len(h) = Len(p) + 1 /\ Len(p) \in Nat \ {0}
      /\ h[1] = e /\ \A i \in 2 .. Len(p) + 1 : h[i] = p[i - 1]
      /\ h[Len(h)] = LastHop(p)
  BY <1>1, HopsShape
<1>3. CASE Len(p) = 1
  <2>1. DirectPossible(c, e, p[1])
    <3>1. ~ (Len(p) > 1)
      BY <1>3
    <3>2. QED
      BY <3>1 DEF ConnectivityPossible
  <2>2. p[1] \in Entities(c) /\ c.kind[p[1]] \in EndHost
    BY <2>1 DEF DirectPossible
  <2>3. h[2] = p[1] /\ LastHop(p) = p[1]
    BY <1>2, <1>3 DEF LastHop
  <2> HIDE DEF h
  <2>4. QED
    BY <2>2, <2>3, <1>2, <1>3 DEF h
<1>4. CASE Len(p) > 1
  <2>1. PathPossible(c, p)
    BY <1>4 DEF ConnectivityPossible
  <2>2. DOMAIN p = 1 .. Len(p)
    BY <1>1
  <2>3. \A i \in 1 .. Len(p) : p[i] \in Entities(c)
    BY <2>1, <2>2 DEF PathPossible
  <2>4. ASSUME NEW i \in 2 .. Len(h) - 1
        PROVE  c.kind[h[i]] \in Intermediary /\ h[i + 1] \in c.neighbors[h[i]]
    <3>1. i - 1 \in 1 .. Len(p) - 1 /\ h[i] = p[i - 1] /\ h[i + 1] = p[(i - 1) + 1]
      BY <1>2
    <3>2. /\ c.kind[p[i - 1]] \in Intermediary
          /\ <<p[(i - 1) + 1]>> \in ExtractConnections(c, p[i - 1])
      BY <2>1, <3>1 DEF PathPossible
    <3>3. c.kind[p[i - 1]] # "service"
      BY <3>2 DEF Intermediary
    <3>4. PICK n \in c.neighbors[p[i - 1]] : <<p[(i - 1) + 1]>> = <<n>>
      BY <3>2, <3>3 DEF ExtractConnections
    <3>5. QED
      BY <3>1, <3>2, <3>4
  <2>5. c.kind[LastHop(p)] \in EndHost
    BY <2>1 DEF PathPossible
  <2>6. \A i \in DOMAIN h : h[i] \in Entities(c)
    BY <1>2, <2>3
  <2> HIDE DEF h
  <2>7. QED
    BY <2>4, <2>5, <2>6, <1>2 DEF h
<1>5. Len(p) \in Nat \ {0}
  BY <1>1, HopsShape
<1>6. Len(p) = 1 \/ Len(p) > 1
  <2>1. \A n \in Nat \ {0} : n = 1 \/ n > 1
    OBVIOUS
  <2>2. QED
    BY <1>5, <2>1
<1>7. QED
  BY <1>3, <1>4, <1>6

\* Every link of a connection is an edge of build_directed_graph.
LEMMA HopsInGraph ==
  ASSUME NEW c, IsConfig(c), NEW e \in Entities(c), c.kind[e] \in EndHost,
         NEW p \in ExtractConnections(c, e),
         NEW k \in 1 .. Len(Hops(e, p)) - 1
  PROVE  <<Hops(e, p)[k], Hops(e, p)[k + 1]>> \in Graph(c)
<1> DEFINE h == Hops(e, p)
<1>1. p \in Seq(Names) /\ p # <<>>
  BY ConnectionsType
<1>2. /\ Len(h) = Len(p) + 1 /\ Len(p) \in Nat \ {0}
      /\ h[1] = e /\ \A i \in 2 .. Len(p) + 1 : h[i] = p[i - 1]
  BY <1>1, HopsShape
<1>3. ~IsSwitch(c, e)
  BY DEF IsSwitch, EndHost
<1> HIDE DEF h
<1>4. <<h[k], h[k + 1]>> \in EdgesOf(c, e)
  <2>1. CASE k = 1
    <3>1. h[1] = e /\ h[1 + 1] = p[1]
      BY <1>2
    <3>2. QED
      BY <2>1, <3>1, <1>3 DEF EdgesOf
  <2>2. CASE k # 1
    <3>1. k - 1 \in 1 .. Len(p) - 1 /\ h[k] = p[k - 1] /\ h[k + 1] = p[(k - 1) + 1]
      BY <1>2, <2>2 DEF h
    <3>2. <<p[k - 1], p[(k - 1) + 1]>> \in {<<p[i], p[i + 1]>> : i \in 1 .. Len(p) - 1}
      BY <3>1
    <3>3. QED
      BY <3>1, <3>2, <1>3 DEF EdgesOf
  <2>3. QED
    BY <2>1, <2>2
<1>5. QED
  BY <1>4 DEF Graph, h

\* Whoever depends on whom, nobody waits in a circle, and nobody for an entity that does
\* not exist: a circle of dependencies would, with the hops between an entity and one it
\* depends on, be a set of nodes each with a successor in it.
LEMMA DependenciesAcyclic ==
  ASSUME NEW c, IsConfig(c), CheckConfig(c)
  PROVE  /\ \A e \in Entities(c) : DependsOn(c, e) \subseteq Entities(c)
         /\ Acyclic(Entities(c), UNION {{e} \X DependsOn(c, e) : e \in Entities(c)})
<1> DEFINE nodes == Entities(c)
<1>1. ConnectivityPossible(c) /\ Acyclic(nodes, Graph(c))
  BY DEF CheckConfig, NoCycles
<1>2. ASSUME NEW e \in nodes, NEW p \in ExtractConnections(c, e)
      PROVE  p \in Seq(nodes) /\ p # <<>>
  <2>1. p \in Seq(Names) /\ p # <<>> BY <1>2, ConnectionsType
  <2>2. CASE Len(p) > 1
    <3>1. PathPossible(c, p) BY <1>1, <1>2, <2>2 DEF ConnectivityPossible
    <3>2. \A i \in 1 .. Len(p) : p[i] \in nodes BY <2>1, <3>1 DEF PathPossible
    <3> QED BY <2>1, <3>2
  <2>3. CASE ~(Len(p) > 1)
    <3>1. DirectPossible(c, e, p[1]) BY <1>1, <1>2, <2>3 DEF ConnectivityPossible
    <3>2. p[1] \in nodes BY <3>1 DEF DirectPossible
    <3>3. \A i \in 1 .. Len(p) : p[i] \in nodes BY <2>1, <2>3, <3>2
    <3> QED BY <2>1, <3>3
  <2> QED BY <2>2, <2>3
<1>3. ASSUME NEW e \in nodes, NEW m \in DependsOn(c, e)
      PROVE  ~IsSwitch(c, e) /\ \E p \in ExtractConnections(c, e) : \E i \in 1 .. Len(p) : m = p[i]
  <2>1. ~IsSwitch(c, e) BY <1>3 DEF DependsOn
  <2>2. PICK p \in ExtractConnections(c, e) : m \in Range(p) BY <1>3, <2>1 DEF DependsOn
  <2>3. p \in Seq(nodes) BY <1>2
  <2> QED BY <2>1, <2>2, <2>3 DEF Range
<1>4. \A e \in nodes : DependsOn(c, e) \subseteq nodes
  BY <1>2, <1>3
<1>5. ASSUME NEW e \in nodes, ~IsSwitch(c, e), NEW p \in ExtractConnections(c, e)
      PROVE  <<e, p[1]>> \in Graph(c) /\ \A i \in 1 .. Len(p) - 1 : <<p[i], p[i + 1]>> \in Graph(c)
  <2>1. <<e, p[1]>> \in EdgesOf(c, e) BY <1>5 DEF EdgesOf
  <2>2. \A i \in 1 .. Len(p) - 1 : <<p[i], p[i + 1]>> \in EdgesOf(c, e) BY <1>5 DEF EdgesOf
  <2> QED BY <2>1, <2>2 DEF Graph
<1>6. ASSUME NEW S \in (SUBSET nodes) \ {{}}, \A n \in S : \E m \in S : m \in DependsOn(c, n)
      PROVE  FALSE
  <2> DEFINE Between == {t \in nodes : \E n \in S : ~IsSwitch(c, n) /\ \E p \in ExtractConnections(c, n) :
                           \E j \in 1 .. Len(p) : p[j] \in S /\ \E i \in 1 .. j : t = p[i]}
             T == S \cup Between
  <2>1. T \in (SUBSET nodes) \ {{}} BY <1>6
  <2>2. PICK t \in T : \A m \in T : <<t, m>> \notin Graph(c) BY <1>1, <2>1 DEF Acyclic
  <2>3. ASSUME NEW n \in S PROVE \E m \in T : <<n, m>> \in Graph(c)
    <3>1. PICK m \in S : m \in DependsOn(c, n) BY <1>6
    <3>2. PICK p \in ExtractConnections(c, n) : \E j \in 1 .. Len(p) : m = p[j] BY <1>3, <3>1
    <3>3. PICK j \in 1 .. Len(p) : m = p[j] BY <3>2
    <3>4. ~IsSwitch(c, n) /\ n \in nodes BY <1>3, <1>6, <3>1
    <3>5. p \in Seq(nodes) /\ Len(p) \in Nat BY <1>2, <3>4
    <3>6. 1 \in 1 .. j /\ p[1] \in nodes BY <3>3, <3>5
    <3>7. p[1] \in Between BY <3>1, <3>2, <3>3, <3>4, <3>6
    <3> QED BY <3>7, <3>4, <1>5
  <2>4. CASE t \in S BY <2>2, <2>3, <2>4
  <2>5. CASE t \notin S
    <3>1. t \in Between BY <2>5
    <3>2. PICK n \in S : ~IsSwitch(c, n) /\ \E p \in ExtractConnections(c, n) :
            \E j \in 1 .. Len(p) : p[j] \in S /\ \E i \in 1 .. j : t = p[i] BY <3>1
    <3>3. PICK p \in ExtractConnections(c, n) :
            \E j \in 1 .. Len(p) : p[j] \in S /\ \E i \in 1 .. j : t = p[i] BY <3>2
    <3>4. PICK j \in 1 .. Len(p) : p[j] \in S /\ \E i \in 1 .. j : t = p[i] BY <3>3
    <3>5. PICK i \in 1 .. j : t = p[i] BY <3>4
    <3>6. p \in Seq(nodes) /\ Len(p) \in Nat BY <1>2, <1>6
    <3>7. i + 1 \in 1 .. j /\ i \in 1 .. Len(p) - 1 BY <2>5, <3>4, <3>5, <3>6
    <3>8. <<t, p[i + 1]>> \in Graph(c) BY <1>5, <1>6, <3>2, <3>5, <3>7
    <3>9. p[i + 1] \in nodes BY <3>4, <3>6, <3>7
    <3>10. p[i + 1] \in Between BY <3>2, <3>4, <3>7, <3>9
    <3> QED BY <2>2, <3>8, <3>10
  <2> QED BY <2>4, <2>5
<1>7. ASSUME NEW S \in (SUBSET nodes) \ {{}}
      PROVE  \E n \in S : \A m \in S :
               <<n, m>> \notin UNION {{e} \X DependsOn(c, e) : e \in nodes}
  <2>1. PICK n \in S : \A m \in S : m \notin DependsOn(c, n) BY <1>6
  <2> QED BY <2>1
<1> QED BY <1>4, <1>7 DEF Acyclic
====
