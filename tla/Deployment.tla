---- MODULE Deployment ----
(***************************************************************************)
(* What becomes of the files module Export wrote: "make start" brings the  *)
(* containers up and then runs commands.sh, "make k8s_start" creates the   *)
(* pods, whose arguments are their commands, and runs commands.sh for the  *)
(* externals.  A container that fails is restarted (restart: on-failure).  *)
(*                                                                         *)
(* Docker gives a restarted container a new network namespace: the layer 3 *)
(* interfaces come back, the rest does not, and the other end of a veth    *)
(* goes with it.  A switch never runs again: its bridge is still there, so *)
(* its own commands fail.  A pod keeps its namespace and runs its commands *)
(* again.                                                                  *)
(*                                                                         *)
(* The commands of an entity are a set: they run in any order, one entity  *)
(* after the other in commands.sh, all at once in the pods.                *)
(***************************************************************************)
EXTENDS Export

CONSTANT MaxRestarts  \* bounds the restarts

ASSUME RestartsAssumption == MaxRestarts \in Nat

VARIABLES
  up,        \* the containers or pods that have been started
  addresses, \* <<entity, network>>: the entity has its address on it
  wired,     \* <<entity, peer>>: the veth end of the entity towards the peer
  bridged,   \* <<switch, peer>>: the port of the switch's bridge
  table,     \* the routes installed
  chain,     \* the FORWARD chain of each entity
  policy,    \* and its policy
  pending,   \* the commands each entity has still to run
  line,      \* the next block of commands.sh
  looping,   \* the switches whose own commands fail at every start
  restarts,  \* how many restarts there have been
  spoiled    \* the entities that lack what a restart or a late pod cost them

network == <<addresses, wired, bridged>>
tables == <<table, chain, policy>>
dvars == <<evars, up, network, tables, pending, line, looping, restarts, spoiled>>

DInit ==
  /\ EInit
  /\ up = {} /\ addresses = {} /\ wired = {} /\ bridged = {} /\ table = {}
  /\ chain = [e \in Entities(cfg) |-> <<>>]
  /\ policy = [e \in Entities(cfg) |-> "accept"]
  /\ pending = [e \in Entities(cfg) |-> {}]
  /\ line = 1 /\ looping = {} /\ restarts = 0 /\ spoiled = {}

Generate == EStep /\ UNCHANGED <<up, network, tables, pending, line, looping, restarts, spoiled>>

----
(***************************************************************************)
(* Starting.                                                               *)
(***************************************************************************)
\* The policy of a firewall left out when it has rules.
CommandsPolicyOrRules(e) ==
  {<<"route", r>> : r \in {s \in routes : s.at = e}}
    \cup IF cfg.kind[e] # "firewall" THEN {}
         ELSE IF cfg.rules[e] = <<>> THEN {<<"policy", cfg.default[e]>>}
         ELSE {<<"rule", t>> : t \in Range(cfg.rules[e])}

\* Entity.commands after export_commands: the routes and, for a firewall, the policy and
\* the rules.  Equal rules are one member of the set.
Commands(e) ==
  {<<"route", r>> : r \in {s \in routes : s.at = e}}
    \cup IF cfg.kind[e] # "firewall" THEN {}
         ELSE {<<"policy", cfg.default[e]>>} \cup {<<"rule", t>> : t \in Range(cfg.rules[e])}

\* The arguments of a pod are its commands, except for an external.
SelfConfigured(n) == cfg.args.kubernetes /\ n \in Entities(cfg) /\ cfg.kind[n] # "external"

\* Docker attaches a container to its networks; Meshnet makes a link when the second of
\* its two pods starts.
Attached(t, running) ==
  IF cfg.args.kubernetes
  THEN {<<l.pod, l.uid>> : l \in {m \in links : {m.pod, m.peer} \subseteq running}}
  ELSE {<<t.name, k>> : k \in t.networks \ {TelemetryNet}}

\* docker compose waits for the dependencies of a container to be started; pods have none.
Start ==
  /\ step = "written"
  /\ \E t \in containers :
       /\ t.name \notin up /\ t.depends \subseteq up
       /\ up' = up \cup {t.name}
       /\ addresses' = addresses \cup Attached(t, up')
       /\ pending' = IF SelfConfigured(t.name)
                     THEN [pending EXCEPT ![t.name] = Commands(t.name)] ELSE pending
  /\ UNCHANGED <<evars, wired, bridged, tables, line, looping, restarts, spoiled>>

----
(***************************************************************************)
(* commands.sh.  On Compose it starts when every container runs, and each  *)
(* command ends before the next; on Kubernetes it starts a few seconds     *)
(* after the pods were created, and runs its blocks in the background.     *)
(***************************************************************************)
AllUp == {t.name : t \in containers} \subseteq up
Idle == \A e \in Entities(cfg) : pending[e] = {}

Turns(kind) ==
  /\ step = "written" /\ line \in DOMAIN script
  /\ cfg.args.kubernetes \/ (AllUp /\ Idle)
  /\ script[line][1] = kind
  /\ line' = line + 1

VethEnds(h) ==
  UNION {{<<h[i], h[i + 1]>>, <<h[i + 1], h[i]>>} : i \in 1 .. Len(h) - 1}

\* Only the port of a switch towards its next hop.
PortsOneEnd(h) == {<<h[i], h[i + 1]>> : i \in {j \in 1 .. Len(h) - 1 : IsSwitch(cfg, h[j])}}

\* The ports added when a switch is the local end of a link, or the remote one.
BridgePorts(h) == {t \in VethEnds(h) : IsSwitch(cfg, t[1])}

\* The ends of the pairs that have one in a switch that fails again and again.
CutEnds(h) == {t \in VethEnds(h) : {t[1], t[2]} \cap looping # {}}

\* The block of a layer 2 network: veth pairs, addresses and ports.  A pair that another
\* network made already stays, because the name is taken where the second one is moved to
\* and on the bridge; the address is added to it.  The pid of a failing switch is 0, and
\* the other end of the pair stays, or that of a run about to end, and both ends go.
LinkBlock ==
  /\ Turns("link")
  /\ LET k == script[line][2]
         h == networks[k].hops
     IN  /\ \E kept \in SUBSET {t \in CutEnds(h) : t[1] \notin looping} :
              LET made == (VethEnds(h) \ CutEnds(h)) \cup kept IN
              /\ wired' = wired \cup made
              /\ bridged' = bridged \cup (BridgePorts(h) \cap made)
              /\ addresses' = addresses
                   \cup {<<t[1], k>> : t \in {u \in made : EntityIp(networks, k, u[1]) # NoAddress}}
         /\ spoiled' = spoiled \cup {t[1] : t \in CutEnds(h)}
  /\ UNCHANGED <<evars, up, tables, pending, looping, restarts>>

\* The block of an entity.  "kubectl exec" fails when the pod does not run yet.
EntityBlock ==
  /\ Turns("entity")
  /\ LET e == script[line][2] IN
       IF e \in up
       THEN pending' = [pending EXCEPT ![e] = Commands(e)] /\ UNCHANGED spoiled
       ELSE spoiled' = spoiled \cup {e} /\ UNCHANGED pending
  /\ UNCHANGED <<evars, up, network, tables, looping, restarts>>

----
(***************************************************************************)
(* The commands.                                                           *)
(***************************************************************************)
\* The command stays in the list.
RunsForever(e, command) == command \in pending[e] /\ UNCHANGED pending

Runs(e, command) ==
  command \in pending[e] /\ pending' = [pending EXCEPT ![e] = @ \ {command}]

\* "ip route add" needs a connected gateway, and refuses a second route for a subnet.
Installable(r) ==
  /\ <<r.at, r.via[1]>> \in addresses
  /\ \A s \in table : s.at = r.at => s.dst # r.dst

\* Every link of a pod is there.  Its commands sleep 20 s for that (utils.py:152), and
\* nothing runs them again if it was not enough.
LinksReady(e) == \A l \in links : l.pod = e => l.peer \in up

AddRoute ==
  /\ \E e \in Entities(cfg) : \E r \in routes :
       /\ Runs(e, <<"route", r>>)
       /\ table' = IF Installable(r) THEN table \cup {r} ELSE table
       /\ spoiled' = IF LinksReady(e) THEN spoiled ELSE spoiled \cup {e}
  /\ UNCHANGED <<evars, up, network, chain, policy, line, looping, restarts>>

\* iptables looks names up in /etc/hosts and wants a protocol with a port.
Known(f, n) == n = "" \/ \E t \in hosts : t[1] = f /\ t[2] = n
Accepted(f, rule) ==
  Known(f, rule.source) /\ Known(f, rule.destination) /\ (rule.dport # 0 => rule.protocol # "")

AddRule ==
  /\ \E e \in Entities(cfg) : \E rule \in Range(cfg.rules[e]) :
       /\ Runs(e, <<"rule", rule>>)
       /\ chain' = IF Accepted(e, rule) THEN [chain EXCEPT ![e] = Append(@, rule)] ELSE chain
  /\ UNCHANGED <<evars, up, network, table, policy, line, looping, restarts, spoiled>>

SetPolicy ==
  /\ \E e \in Entities(cfg) : \E verdict \in {"accept", "drop"} :
       Runs(e, <<"policy", verdict>>) /\ policy' = [policy EXCEPT ![e] = verdict]
  /\ UNCHANGED <<evars, up, network, table, chain, line, looping, restarts, spoiled>>

----
(***************************************************************************)
(* Restarts.                                                               *)
(***************************************************************************)
\* The address went with the veth end it was on.
LosesAddress(e, n, k) ==
  k \in OfLayer(2) /\ (n = e \/ HasLink(networks[k], n, e) \/ HasLink(networks[k], e, n))

\* The commands of a switch add its bridge, which its file system still has, and stop there:
\* it fails and is restarted for ever.
FailsAgain(e) == IsSwitch(cfg, e)

RestartContainer ==
  /\ step = "written" /\ ~cfg.args.kubernetes /\ AllUp /\ restarts < MaxRestarts
  /\ restarts' = restarts + 1
  /\ \E e \in Entities(cfg) :
       /\ wired' = {t \in wired : e \notin {t[1], t[2]}}
       /\ bridged' = {t \in bridged : e \notin {t[1], t[2]}}
       /\ addresses' = {t \in addresses : ~LosesAddress(e, t[1], t[2])}
       /\ table' = {r \in table : r.at # e /\ <<r.at, r.via[1]>> \in addresses'}
       /\ chain' = [chain EXCEPT ![e] = <<>>]
       /\ policy' = [policy EXCEPT ![e] = "accept"]
       /\ looping' = IF FailsAgain(e) THEN looping \cup {e} ELSE looping
       /\ spoiled' = IF line = 1 /\ ~FailsAgain(e) THEN spoiled
                     ELSE spoiled \cup {e} \cup {n \in Entities(cfg) : <<e, n>> \in wired}
  /\ UNCHANGED <<evars, up, pending, line>>

\* The commands of a pod run again, with all its links if their pods have started.  What
\* "kubectl exec" runs in an external ends with it.
RestartPod ==
  /\ step = "written" /\ cfg.args.kubernetes /\ restarts < MaxRestarts
  /\ restarts' = restarts + 1
  /\ \E e \in Entities(cfg) \cap up :
       IF SelfConfigured(e)
       THEN pending' = [pending EXCEPT ![e] = Commands(e)] /\ spoiled' = spoiled \ {e}
       ELSE /\ pending' = [pending EXCEPT ![e] = {}]
            /\ spoiled' = IF pending[e] = {} THEN spoiled ELSE spoiled \cup {e}
  /\ UNCHANGED <<evars, up, network, tables, line, looping>>

\* Everything is started and every command has run.
Settled ==
  step = "written" /\ AllUp /\ line > Len(script) /\ Idle

Over == (Stopped \/ Settled) /\ UNCHANGED dvars

DStep ==
  \/ Generate
  \/ Start
  \/ LinkBlock
  \/ EntityBlock
  \/ AddRoute
  \/ AddRule
  \/ SetPolicy

DNext == DStep \/ RestartContainer \/ RestartPod \/ Over
DSpec == DInit /\ [][DNext]_dvars /\ WF_dvars(DStep)

----
(***************************************************************************)
(* The topology that is deployed.                                          *)
(***************************************************************************)
DTypeOK ==
  /\ ETypeOK
  /\ up \subseteq {t.name : t \in containers}
  /\ addresses \subseteq Entities(cfg) \X DOMAIN networks
  /\ wired \cup bridged \subseteq Entities(cfg) \X Entities(cfg)
  /\ table \subseteq routes
  /\ chain \in [Entities(cfg) -> Seq(Rules)] /\ policy \in [Entities(cfg) -> {"accept", "drop"}]
  /\ \A e \in Entities(cfg) : pending[e] \subseteq Commands(e)
  /\ line \in 1 .. Len(script) + 1 /\ restarts \in 0 .. MaxRestarts
  /\ looping \cup spoiled \subseteq Entities(cfg)

\* "need to export networks first [...] if interfaces are not added first, ip route command
\* will fail" (compose_exporter.py:86): when the deployment has settled, every entity has a
\* way to every subnet it was given a route for, unless it or a layer 2 neighbour restarted
\* after commands.sh began, a switch next to it restarted at any time, or its commands ran
\* before its Meshnet links were made and have not run again since: a pod that restarts
\* gets what it lacked.
RoutesInPlace ==
  Settled /\ NamesFree(cfg) =>
    \A r \in routes :
      \/ r.at \in spoiled
      \/ <<r.at, r.dst>> \in addresses
      \/ \E s \in table : s.at = r.at /\ s.dst = r.dst

\* u and v share a network, or a veth pair whose switch ends are ports of the switches.
Joined(u, v) ==
  \/ \E k \in DOMAIN networks : HasLink(networks[k], u, v) /\ {<<u, k>>, <<v, k>>} \subseteq addresses
  \/ /\ {<<u, v>>, <<v, u>>} \subseteq wired
     /\ IsSwitch(cfg, u) => <<u, v>> \in bridged
     /\ IsSwitch(cfg, v) => <<v, u>> \in bridged

\* Two consecutive hops of a connection are joined in the end, whether their link is a
\* Docker network, a veth pair that two networks may share, or a Meshnet link, and
\* whichever of the two was started first.  For a configuration that is not buildable the
\* look-ups behind a switch may succeed without the link between it and the next switch.
SegmentsJoined ==
  Settled /\ NamesFree(cfg) /\ Buildable(cfg) =>
    \A h \in AllE2e(cfg) : \A i \in 1 .. Len(h) - 1 :
      {h[i], h[i + 1]} \cap spoiled = {} => Joined(h[i], h[i + 1])

\* Every start comes to an end: no container waits for ever for its dependencies, and every
\* block of commands.sh and every command of a pod is run, restarts or not.
Settles == step = "written" ~> Settled

----
(***************************************************************************)
(* Firewalls.                                                              *)
(***************************************************************************)
\* The verdict of the first of the rules that matches, or the default.
Verdict(rules, default, Matches(_)) ==
  LET hits == {i \in DOMAIN rules : Matches(rules[i])} IN
  IF hits = {} THEN default ELSE rules[CHOOSE i \in hits : \A j \in hits : i <= j].action

\* The request over h to a port, and the response, to a port no rule names.
FirstAddress(h) == EntityIp(networks, SharedNetwork(cfg, networks, h[1], h[2]), h[1])
LastAddress(h) == EntityIp(networks, SharedNetwork(cfg, networks, h[Len(h) - 1], LastHop(h)), LastHop(h))
PacketsOver(h) ==
  {[from |-> h[1], to |-> LastHop(h), src |-> FirstAddress(h), dst |-> LastAddress(h), port |-> p] : p \in Ports}
    \cup {[from |-> LastHop(h), to |-> h[1], src |-> LastAddress(h), dst |-> FirstAddress(h), port |-> 0]}

MatchesNames(rule, p) ==
  rule.source \in {"", p.from} /\ rule.destination \in {"", p.to} /\ rule.dport \in {0, p.port}

\* The firewall has one address for a name.
MatchesAddresses(f, rule, p) ==
  /\ rule.source = "" \/ <<f, rule.source, p.src>> \in hosts
  /\ rule.destination = "" \/ <<f, rule.destination, p.dst>> \in hosts
  /\ rule.dport \in {0, p.port}

AsConfigured(f) ==
  \A h \in E2eConns(cfg, f) : \A p \in PacketsOver(h) :
    Verdict(chain[f], policy[f], LAMBDA rule : MatchesAddresses(f, rule, p))
      = Verdict(cfg.rules[f], cfg.default[f], LAMBDA rule : MatchesNames(rule, p))

\* iptables takes every rule that can match a packet of f, and each hop of the connections
\* that cross f is met on one link: f has one address for a name.
LinkOf(h, i) == IF i < Len(h) THEN <<h[i], h[i + 1]>> ELSE <<h[i - 1], h[i]>>
RulesUsable(f) ==
  /\ \A rule \in Range(cfg.rules[f]) : rule.dport # 0 => rule.protocol # ""
  /\ \A g, h \in E2eConns(cfg, f) : \A i \in DOMAIN g, j \in DOMAIN h :
       g[i] = h[j] => LinkOf(g, i) = LinkOf(h, j)

\* Two rules that may match one packet have one action.
OrderFree(rules) ==
  \A s, t \in Range(rules) :
    /\ s.source = t.source \/ "" \in {s.source, t.source}
    /\ s.destination = t.destination \/ "" \in {s.destination, t.destination}
    /\ s.dport = t.dport \/ 0 \in {s.dport, t.dport}
    => s.action = t.action

FirewallsReady == {f \in Entities(cfg) : cfg.kind[f] = "firewall" /\ f \notin spoiled /\ RulesUsable(f)}

\* When the order of its rules does not matter, a firewall treats the packets of every
\* connection that crosses it as its rules say, in both directions, although the rules name
\* entities and iptables compares the addresses modify_etc_hosts gave it for the names, and
\* although a pod that restarts appends its rules a second time.
VerdictAsConfigured ==
  Settled /\ NamesFree(cfg) =>
    \A f \in FirewallsReady : OrderFree(cfg.rules[f]) => AsConfigured(f)

\* "list of commands to execute to configure the entity" (entities.py:38): a firewall takes
\* the first of its rules that matches.
RulesInOrder == Settled => \A f \in FirewallsReady : AsConfigured(f)
====
