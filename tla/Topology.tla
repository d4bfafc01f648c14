------------------------------- MODULE Topology -------------------------------
(***************************************************************************)
(* What the kernel knows of the network: the registry of host facts and    *)
(* the multi-layer graph that mirrors it (internal/topology), the layered  *)
(* graph that decides who can reach whom, and the risk-diffusion pipeline  *)
(* (internal/engine/srd, internal/srdwrapper) that builds its edges from   *)
(* it.  Every heartbeat reports facts on a goroutine of its own; an event   *)
(* is fired after the registry's lock is gone.                             *)
(*                                                                         *)
(* Facts: [subnets, vlans, forwards, policies, known, links, ips, stateful, *)
(* zone]; a policy is [dir, from, to, allow], a place in it a subnet, an    *)
(* address or "" for any; a link is <<subnet, up>>.                         *)
(***************************************************************************)
EXTENDS Integers, Sequences, FiniteSets, SequencesExt

CONSTANTS
    NetHosts,
    NetReports,     \* [NetHosts -> set of facts its agent may report]
    KnownNets,      \* registries a behaviour may start from, all hosts heard of twice
    NetGoroutines,  \* heartbeats being handled
    SubnetOfIP,     \* [address -> its subnet]
    NetworkOf,      \* [subnet written with host bits -> the subnet]
    LayeredOn,      \* [srd] layered_graph
    MaxHops,        \* 5 in CheckReachability
    MaxReports      \* bound on facts reported, hosts removed and reports scored

Unseen == <<>>
NoGraph == <<>>

\* What the record of a host's facts holds.
HostFacts(f) ==
    DOMAIN f = {"subnets", "vlans", "forwards", "policies", "known", "links", "ips", "stateful", "zone"}
Listed(rules) == rules \in Seq(Range(rules))
ASSUME TopologyAssumption ==
    /\ MaxHops \in Nat \ {0} /\ IsFiniteSet(NetHosts)
    /\ Range(NetworkOf) \cap (DOMAIN NetworkOf \cup DOMAIN SubnetOfIP) = {}
    /\ \A h \in NetHosts : \A f \in NetReports[h] : HostFacts(f) /\ Listed(f.policies)
    /\ \A reg \in KnownNets : /\ reg \in [NetHosts -> Range(reg)]
                              /\ \A h \in NetHosts : reg[h] # Unseen => HostFacts(reg[h]) /\ Listed(reg[h].policies)

VARIABLES
    registry,   \* Registry.nodes: [NetHosts -> facts or Unseen]
    multi,      \* the network layer of the MultiGraph: [nodes, edges]
    layered,    \* Pipeline.layered: [facts, order], or NoGraph
    pipeTopo,   \* Pipeline.topology: [NetHosts -> set of subnets, or Unseen]
    snapshots,  \* hosts with a scored report
    incoming,   \* [NetHosts -> sources of the edges of its last report]
    handling,   \* [NetGoroutines -> what a goroutine is doing]
    reported
netVars == <<registry, multi, layered, pipeTopo, snapshots, incoming, handling, reported>>

seen(r) == {h \in NetHosts : r[h] # Unseen}

----------------------------------------------------------------------------
\* Reachability.  A graph L is the facts of its hosts, the forward rules in the
\* order in which they are tried, and whether any host knows its policy.

normalizeSubnet(s) == IF s \in DOMAIN NetworkOf THEN NetworkOf[s] ELSE s
subnetMatch(pattern, sub) ==
    normalizeSubnet(pattern) = sub \/ (pattern \in DOMAIN SubnetOfIP /\ SubnetOfIP[pattern] = sub)
hostInCIDR(L, h, cidr) ==
    cidr # "" /\ h \in seen(L.facts) /\ \E ip \in L.facts[h].ips : ip = cidr \/ SubnetOfIP[ip] = normalizeSubnet(cidr)
\* The first rule that matches decides; without one the answer is yes.
firstMatch(rules, Match(_), default) ==
    IF \E i \in DOMAIN rules : Match(rules[i])
    THEN rules[CHOOSE i \in DOMAIN rules : Match(rules[i]) /\ \A j \in 1..(i - 1) : ~Match(rules[j])].allow
    ELSE default
policiesOf(L, h) == IF L.facts[h] = Unseen THEN <<>> ELSE L.facts[h].policies
outboundAllowed(L, source, destSubnet, dest) ==
    firstMatch(policiesOf(L, source),
               LAMBDA p : /\ p.dir = "outbound"
                          /\ p.to = "" \/ subnetMatch(p.to, destSubnet) \/ hostInCIDR(L, dest, p.to), TRUE)
inboundAllowed(L, target, source, sourceSubnet, targetSubnet) ==
    firstMatch(policiesOf(L, target),
               LAMBDA p : /\ p.dir = "inbound"
                          /\ p.from = "" \/ subnetMatch(p.from, sourceSubnet) \/ hostInCIDR(L, source, p.from)
                          /\ p.to = "" \/ subnetMatch(p.to, targetSubnet) \/ hostInCIDR(L, target, p.to), TRUE)
\* A mutant: the reply is looked up in the rules when the firewall is stateful.
replyInverted(L, host, peer, peerSubnet, ownSubnet) ==
    ~L.facts[host].stateful \/ inboundAllowed(L, host, peer, peerSubnet, ownSubnet)
replyAllowed(L, host, peer, peerSubnet, ownSubnet) ==
    L.facts[host].stateful \/ inboundAllowed(L, host, peer, peerSubnet, ownSubnet)

Reachable == 2
Probable == 1
Blocked == 0
policyVerdict(L, from, to) ==
    LET Match(p) == subnetMatch(p.from, from) /\ subnetMatch(p.to, to)
    IN  IF \E i \in DOMAIN L.rules : Match(L.rules[i])
        THEN IF firstMatch(L.rules, Match, TRUE) THEN Reachable ELSE Blocked
        ELSE IF L.known THEN Reachable ELSE Probable
\* A session needs both ways.
sessionVerdict(L, from, to) ==
    LET go == policyVerdict(L, from, to)
        back == policyVerdict(L, to, from)
    IN  IF go < back THEN go ELSE back

subnetsOf(L, h) == IF L.facts[h] = Unseen THEN {} ELSE L.facts[h].subnets
SharedSubnetsRaw(L, a, b) == subnetsOf(L, a) \cap subnetsOf(L, b)
broadcastCompatible(L, a, b) ==
    L.facts[a].vlans = {} \/ L.facts[b].vlans = {} \/ L.facts[a].vlans \cap L.facts[b].vlans # {}
linkUp(L, h, s) == <<s, FALSE>> \in L.facts[h].links => <<s, TRUE>> \in L.facts[h].links
\* One shared subnet that is down or denied is enough to part two hosts.
Adjacent(L, a, b) ==
    /\ SharedSubnetsRaw(L, a, b) # {}
    /\ broadcastCompatible(L, a, b)
    /\ \A s \in SharedSubnetsRaw(L, a, b) :
           /\ linkUp(L, a, s) /\ linkUp(L, b, s)
           /\ outboundAllowed(L, a, s, b) /\ inboundAllowed(L, b, a, s, s)
           /\ outboundAllowed(L, b, s, a) /\ replyAllowed(L, a, b, s, s)
SharedSubnets(L, a, b) == IF Adjacent(L, a, b) THEN SharedSubnetsRaw(L, a, b) ELSE {}
Forwards(L, h) == L.facts[h] # Unseen /\ L.facts[h].forwards

\* The walks of the depth-first search: hosts once each, the subnet of every
\* hop, and only forwarding hosts in between.
walks(L, from, to) ==
    LET walk[k \in 0..MaxHops] ==
            IF k = 0 THEN {[hosts |-> <<from>>, via |-> <<>>]}
            ELSE UNION {{[hosts |-> Append(w.hosts, e[1]), via |-> Append(w.via, e[2])] :
                            e \in {x \in NetHosts \X subnetsOf(L, Last(w.hosts)) :
                                            /\ x[1] \notin Range(w.hosts) /\ x[2] \in subnetsOf(L, x[1])
                                            /\ Adjacent(L, Last(w.hosts), x[1])}} :
                        w \in {v \in walk[k - 1] : Last(v.hosts) # to
                                                  /\ (Last(v.hosts) = from \/ Forwards(L, Last(v.hosts)))}}
    IN  {w \in UNION {walk[k] : k \in 1..MaxHops} : Last(w.hosts) = to}
\* The subnets a walk changes between are looked up in the forward policies,
\* the ends of a walk of two hops or more in their own rules.
finalizePath(L, w) ==
    LET n == Len(w.via)
        crossings == {sessionVerdict(L, w.via[i], w.via[i + 1]) :
                         i \in {j \in 1..(n - 1) : w.via[j] # w.via[j + 1]}}
        a == Head(w.hosts)   b == Last(w.hosts)
        ends == /\ outboundAllowed(L, a, w.via[n], b) /\ inboundAllowed(L, b, a, w.via[1], w.via[n])
                /\ outboundAllowed(L, b, w.via[1], a) /\ replyAllowed(L, a, b, w.via[n], w.via[1])
    IN  IF Blocked \in crossings \/ (n >= 2 /\ ~ends) THEN Blocked
        ELSE IF Probable \in crossings THEN Probable ELSE Reachable
HostReachable(L, from, to) ==
    IF L.facts[from] = Unseen THEN {Probable}
    ELSE LET found == {finalizePath(L, w) : w \in walks(L, from, to)}
         IN  IF found # {} THEN found ELSE IF L.facts[to] = Unseen THEN {Probable} ELSE {Blocked}
Summary(verdicts) == IF Reachable \in verdicts THEN Reachable ELSE IF Probable \in verdicts THEN Probable ELSE Blocked
CheckReachability(L, from, to) == Summary(HostReachable(L, from, to))

\* CrossingPermitted, buildLayeredEdges and, without a layered graph,
\* topologyConnected: a host whose place is unknown is connected to all.
CrossingPermitted(L, router, toSubnet) ==
    LET others == subnetsOf(L, router) \ {toSubnet}
    IN  others = {} \/ \E s \in others : sessionVerdict(L, s, toSubnet) # Blocked
layeredEdge(L, src, dst) ==
    LET shared == SharedSubnets(L, src, dst)
    IN  shared # {} /\ (Forwards(L, src) => \E s \in shared : CrossingPermitted(L, src, s))
topologyConnected(a, b) ==
    pipeTopo[a] = Unseen \/ pipeTopo[b] = Unseen \/ pipeTopo[a][1] \cap pipeTopo[b][1] # {}
BuildEdges(nodes) ==
    {e \in nodes \X nodes :
        e[1] # e[2] /\ IF LayeredOn /\ layered # NoGraph THEN layeredEdge(layered, e[1], e[2])
                       ELSE topologyConnected(e[1], e[2])}
GetReachableHosts(h) == {o \in snapshots \ {h} : topologyConnected(h, o)}

----------------------------------------------------------------------------
\* The registry.

\* BuildLayeredGraph of the registry, whose hosts come in any order, with the forward rules
\* of each in theirs.
forwards(policies) ==
    LET places == {i \in DOMAIN policies : policies[i].dir \notin {"inbound", "outbound"}}
        place(n) == CHOOSE i \in places : Cardinality({j \in places : j <= i}) = n
    IN  [n \in 1..Cardinality(places) |-> policies[place(n)]]
graphOf(reg, order) ==
    IF order = <<>> THEN NoGraph
    ELSE [facts |-> reg, known |-> \E h \in seen(reg) : reg[h].known,
          rules |-> FlattenSeq([i \in DOMAIN order |-> forwards(reg[order[i]].policies)])]

Idle0 == [pc |-> "idle"]
Doing(g, pc) == handling[g].pc = pc
Do(g, rec) == handling' = [handling EXCEPT ![g] = rec]
Then(g, pc) == Do(g, [handling[g] EXCEPT !.pc = pc])
begins == reported < MaxReports /\ reported' = reported + 1

\* record: a known host keeps its other facts, a new one has none yet.
blank(f) == [subnets |-> f.subnets, vlans |-> {}, forwards |-> FALSE, policies |-> <<>>, known |-> FALSE,
             links |-> {}, ips |-> {}, stateful |-> FALSE, zone |-> f.zone]
moved(old, f) == [old EXCEPT !.subnets = f.subnets, !.zone = IF f.zone = "" THEN old.zone ELSE f.zone]
record(g, h, f) ==
    /\ Doing(g, "idle") /\ begins
    /\ registry' = [registry EXCEPT ![h] = IF @ = Unseen THEN blank(f) ELSE moved(@, f)]
    /\ Do(g, [pc |-> "node", host |-> h, facts |-> f, gone |-> FALSE])
    /\ UNCHANGED <<multi, layered, pipeTopo, snapshots, incoming>>
\* syncNetworkToGraph: the host's node, then the subnets' and the edges, which
\* are made only if both ends are there; edges to former subnets stay.
AddNode(g) ==
    /\ Doing(g, "node") /\ Then(g, "edges")
    /\ multi' = [multi EXCEPT !.nodes = @ \cup {handling[g].host}]
    /\ UNCHANGED <<registry, layered, pipeTopo, snapshots, incoming, reported>>
AddEdges(g) ==
    /\ Doing(g, "edges") /\ Then(g, "fire")
    /\ LET h == handling[g].host
           subs == handling[g].facts.subnets
       IN  multi' = [nodes |-> multi.nodes \cup subs,
                     edges |-> multi.edges \cup (IF h \in multi.nodes THEN {h} \X subs ELSE {})]
    /\ UNCHANGED <<registry, layered, pipeTopo, snapshots, incoming, reported>>
\* delete, and RemoveNode with the edges that touch the node.
delete(g, h) ==
    /\ Doing(g, "idle") /\ begins /\ registry[h] # Unseen
    /\ registry' = [registry EXCEPT ![h] = Unseen]
    /\ Do(g, [pc |-> "remove", host |-> h, facts |-> registry[h], gone |-> TRUE])
    /\ UNCHANGED <<multi, layered, pipeTopo, snapshots, incoming>>
RemoveNode(g) ==
    /\ Doing(g, "remove") /\ Then(g, "fire")
    /\ multi' = [nodes |-> multi.nodes \ {handling[g].host},
                 edges |-> {e \in multi.edges : handling[g].host \notin {e[1], e[2]}}]
    /\ UNCHANGED <<registry, layered, pipeTopo, snapshots, incoming, reported>>

\* fire: the listener, which does not tell a removal from an update, and the
\* subscriber that rebuilds the layered graph; reading the registry and handing
\* the graph over are two steps, and an older graph may come last.
SetTopology(g) ==
    /\ Doing(g, "fire") /\ Then(g, "rebuild")
    /\ pipeTopo' = [pipeTopo EXCEPT ![handling[g].host] = <<handling[g].facts.subnets>>]
    /\ UNCHANGED <<registry, multi, layered, snapshots, incoming, reported>>
BuildLayeredFromRegistry(g) ==
    /\ Doing(g, "rebuild")
    /\ \E order \in SetToSeqs(seen(registry)) :
            Do(g, [pc |-> "inject", host |-> handling[g].host, facts |-> handling[g].facts,
                   gone |-> handling[g].gone,
                   graph |-> graphOf(registry, order)])
    /\ UNCHANGED <<registry, multi, layered, pipeTopo, snapshots, incoming, reported>>
SetLayeredGraph(g) ==
    /\ Doing(g, "inject")
    /\ layered' = handling[g].graph
    /\ IF handling[g].gone THEN Do(g, Idle0)
       ELSE Do(g, [pc |-> "facts", host |-> handling[g].host, facts |-> handling[g].facts])
    /\ UNCHANGED <<registry, multi, pipeTopo, snapshots, incoming, reported>>
\* recordNetworkFacts once record has returned: the other facts are stored when
\* the event that tells of them has been handled.
recordNetworkFacts(g) ==
    /\ Doing(g, "facts") /\ Do(g, Idle0)
    /\ LET h == handling[g].host
           f == handling[g].facts
       IN  registry' = [registry EXCEPT ![h] =
                IF @ = Unseen THEN @ ELSE [f EXCEPT !.subnets = registry[h].subnets, !.zone = registry[h].zone]]
    /\ UNCHANGED <<multi, layered, pipeTopo, snapshots, incoming, reported>>

\* Process: the snapshot is taken under the lock, the edges are built outside.
Process(g, h) ==
    /\ Doing(g, "idle") /\ begins
    /\ snapshots' = snapshots \cup {h}
    /\ Do(g, [pc |-> "score", host |-> h, nodes |-> snapshots'])
    /\ UNCHANGED <<registry, multi, layered, pipeTopo, incoming>>
buildIncomingEdges(g) ==
    /\ Doing(g, "score") /\ Do(g, Idle0)
    /\ LET h == handling[g].host
       IN  incoming' = [incoming EXCEPT ![h] = {a \in handling[g].nodes : <<a, h>> \in BuildEdges(handling[g].nodes)}]
    /\ UNCHANGED <<registry, multi, layered, pipeTopo, snapshots, reported>>

NetInit ==
    /\ registry \in KnownNets
    /\ multi = [nodes |-> seen(registry) \cup UNION {registry[h].subnets : h \in seen(registry)},
                edges |-> UNION {{h} \X registry[h].subnets : h \in seen(registry)}]
    /\ layered = graphOf(registry, SetToSeq(seen(registry)))
    /\ pipeTopo = [h \in NetHosts |-> IF registry[h] = Unseen THEN Unseen ELSE <<registry[h].subnets>>]
    /\ snapshots = {} /\ incoming = [h \in NetHosts |-> {}]
    /\ handling = [g \in NetGoroutines |-> Idle0] /\ reported = 0
NetNext ==
    \E g \in NetGoroutines :
        \/ \E h \in NetHosts : \/ \E f \in NetReports[h] : record(g, h, f)
                               \/ delete(g, h) \/ Process(g, h)
        \/ AddNode(g) \/ AddEdges(g) \/ RemoveNode(g) \/ SetTopology(g) \/ BuildLayeredFromRegistry(g)
        \/ SetLayeredGraph(g) \/ recordNetworkFacts(g) \/ buildIncomingEdges(g)
NetSpec == NetInit /\ [][NetNext]_netVars

----------------------------------------------------------------------------
\* Rules f are rules e, in their order, and denials put among them; facts f are as strict as e:
\* the same place in the network, no rule less, fewer links, less forwarding.
denies(f, e) ==
    \E at \in [DOMAIN e -> DOMAIN f] :
        /\ \A i \in DOMAIN e : e[i] = f[at[i]] /\ \A j \in DOMAIN e : i < j => at[i] < at[j]
        /\ \A k \in DOMAIN f \ Range(at) : ~f[k].allow
down(f) == {s \in f.subnets : <<s, FALSE>> \in f.links /\ <<s, TRUE>> \notin f.links}
asStrict(f, e) ==
    \/ f = e
    \/ /\ f # Unseen /\ e # Unseen
       /\ f.subnets = e.subnets /\ f.ips = e.ips /\ e.vlans \in {{}, f.vlans}
       /\ (f.forwards => e.forwards) /\ (f.stateful => e.stateful)
       /\ down(e) \subseteq down(f) /\ denies(f.policies, e.policies)

\* A network that is closed further never opens: when the graph the pipeline
\* uses is replaced by one with the same or stricter facts and rules, no pair of
\* hosts is judged more reachable than before (CheckReachability, HostReachable).
TighteningNeverOpens ==
    [][layered # NoGraph /\ layered' # NoGraph /\ layered' # layered
       /\ layered'.known = layered.known /\ denies(layered'.rules, layered.rules)
       /\ (\A h \in NetHosts : asStrict(layered'.facts[h], layered.facts[h]))
       => \A a, b \in NetHosts : a # b => CheckReachability(layered', a, b) <= CheckReachability(layered, a, b)]_netVars

\* Risk travels only where a session can: an edge of the layered graph joins
\* hosts that are reachable, and the multi-layer graph has no dangling edge.
EdgesAreReachable ==
    /\ layered # NoGraph => \A a, b \in NetHosts :
            a # b /\ layeredEdge(layered, a, b) => CheckReachability(layered, a, b) = Reachable
    /\ \A e \in multi.edges : e[1] \in multi.nodes /\ e[2] \in multi.nodes
===============================================================================
