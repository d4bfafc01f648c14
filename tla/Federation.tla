------------------------------ MODULE Federation ------------------------------
(***************************************************************************)
(* The federation extension (extensions/federation): node kernels report   *)
(* the facts of their networks to a master kernel, which merges them with   *)
(* its own registry into one graph and answers reachability on it.  A node  *)
(* runs in the kernel or, behind a proxy, in a child process that knows     *)
(* only what was pushed to it.  Reports travel over HTTP: an attempt may    *)
(* time out and still be handled by the master later.                      *)
(***************************************************************************)
EXTENDS Topology, Collections

CONSTANTS
    FedNodes,       \* node kernels
    Isolated,       \* those built with federation_proc
    NodeNets,       \* [FedNodes -> registries its kernel may have]
    NodeOrder,      \* the nodes sorted by id
    PlaceOrder,     \* the subnets and addresses rules name, sorted
    BadTokens,      \* sets of nodes whose token may differ from the master's
    MaxHostFacts, MaxPolicyFacts,
    MaxAttempts,
    MaxCycles,      \* bound on reports begun
    MaxToggles      \* bound on starts, stops and changes of facts

\* The forward rules a kernel may know of: what they name is listed, or is a subnet written
\* with host bits, and then the subnet is.
Places == {""} \cup Range(PlaceOrder)
ForwardRules ==
    [dir : {"forward"}, from : Places \cup DOMAIN NetworkOf, to : Places \cup DOMAIN NetworkOf, allow : BOOLEAN]
forwardRules(f) == {p \in Range(f.policies) : p.dir = "forward"}
ASSUME FederationAssumption ==
    /\ PlaceOrder \in Seq(Range(PlaceOrder)) /\ Range(NetworkOf) \subseteq Range(PlaceOrder)
    /\ NodeOrder \in Seq(FedNodes) /\ FedNodes \subseteq Range(NodeOrder)
    /\ \A h \in NetHosts : \A f \in NetReports[h] : forwardRules(f) \subseteq ForwardRules
    /\ \A reg \in KnownNets \cup UNION {NodeNets[n] : n \in FedNodes} :
           \A h \in NetHosts : reg[h] # Unseen => forwardRules(reg[h]) \subseteq ForwardRules

VARIABLES
    plugin,     \* [FedNodes -> "on", "stopping", "off"]
    child,      \* [FedNodes -> "none", "up", "dead"]: the process behind the proxy
    facts,      \* [FedNodes -> the registry of its kernel]
    last,       \* [FedNodes -> the report a cycle of its sends]: ProcState.last
    lastErr,    \* [FedNodes -> "none", "failed"]: Reporter.lastErr
    sending,    \* [FedNodes \X Senders -> a report on its way]
    posts,      \* requests the master has not handled
    server,     \* MasterServer: "up", "degraded", "off"
    collector,  \* Collector.nodes: [FedNodes -> report or Nothing]
    refused,    \* nodes whose token is not the master's
    cycles, toggles
fedVars == <<refused, plugin, child, facts, last, lastErr, sending, posts, server, collector, cycles, toggles>>

Senders == {"loop", "now"}
Nothing == <<>>
Sleeping == [pc |-> "idle"]

\* hostFactFromTopo: a subnet is up if one of the host's links in it is.
hostFactFromTopo(f) ==
    [f EXCEPT !.vlans = {}, !.known = FALSE,
              !.links = {<<l[1], <<l[1], TRUE>> \in f.links>> : l \in f.links},
              !.policies = SelectSeq(@, LAMBDA p : p.dir \in {"inbound", "outbound"})]
forwardsOf(reg) == UNION {forwardRules(reg[h]) : h \in seen(reg)}
capped(S, limit) == IF Cardinality(S) <= limit THEN {S} ELSE {x \in SUBSET S : Cardinality(x) = limit}
\* collectFacts, with the limits on what one node reports (hosts come sorted).
NodeReport(n, reg) ==
    {[node |-> n, policies |-> ps, known |-> \E h \in seen(reg) : reg[h].known,
      hosts |-> [h \in NetHosts |-> IF h \in hs THEN hostFactFromTopo(reg[h]) ELSE Unseen]] :
        hs \in capped(seen(reg), MaxHostFacts), ps \in capped(forwardsOf(reg), MaxPolicyFacts)}
\* A child that was pushed nothing yet reports nothing, under its configured id.
emptyReport(n) == [node |-> n, policies |-> {}, known |-> FALSE, hosts |-> [h \in NetHosts |-> Unseen]]

----------------------------------------------------------------------------
\* Merging.

normalizeFactSubnets(h) == [h EXCEPT !.subnets = {normalizeSubnet(s) : s \in @}]
mergeHost(cur, new) ==
    IF new = Unseen THEN cur
    ELSE LET h == normalizeFactSubnets(new)
             told == {l[1] : l \in h.links}
         IN  IF cur = Unseen THEN h
             ELSE [cur EXCEPT !.subnets = @ \cup h.subnets, !.ips = @ \cup h.ips,
                              !.zone = IF h.zone = "" THEN @ ELSE h.zone,
                              !.forwards = @ \/ h.forwards, !.stateful = @ \/ h.stateful,
                              !.policies = @ \o h.policies,
                              !.links = {l \in @ : l[1] \notin told} \cup h.links]
rank(x) == IF x = "" THEN 0 ELSE CHOOSE i \in DOMAIN PlaceOrder : PlaceOrder[i] = x
\* A mutant: permissions first.
allowsFirst(p, q) ==
    \/ rank(p.from) < rank(q.from)
    \/ p.from = q.from /\ rank(p.to) < rank(q.to)
    \/ p.from = q.from /\ p.to = q.to /\ p.allow /\ ~q.allow
\* The forward policies are keyed by both ends and the answer, and tried in the
\* order of the keys: for the same two ends a denial ("0") comes first.
keyBefore(p, q) ==
    \/ rank(p.from) < rank(q.from)
    \/ p.from = q.from /\ rank(p.to) < rank(q.to)
    \/ p.from = q.from /\ p.to = q.to /\ ~p.allow /\ q.allow
policyKeys(policies) ==
    CHOOSE rules \in Sortings({[p EXCEPT !.from = normalizeSubnet(@), !.to = normalizeSubnet(@)] : p \in policies}, keyBefore) : TRUE
\* mergedFactsFrom: the reports in the order of the nodes' ids, then the local facts.
mergedHost(reports, h) ==
    LET upTo[i \in 0..Len(reports)] == IF i = 0 THEN Unseen ELSE mergeHost(upTo[i - 1], reports[i].hosts[h])
    IN  upTo[Len(reports)]
BuildMergedGraph(reports, local) ==
    [facts |-> [h \in NetHosts |-> mergeHost(mergedHost(reports, h),
                                             IF local[h] = Unseen THEN Unseen ELSE hostFactFromTopo(local[h]))],
     known |-> (\E i \in DOMAIN reports : reports[i].known) \/ \E h \in seen(local) : local[h].known,
     rules |-> policyKeys(forwardsOf(local) \cup UNION {reports[i].policies : i \in DOMAIN reports})]
\* A node that has not reported adds nothing, as one that had nothing to report.
Nodes == [i \in DOMAIN NodeOrder |->
             IF collector[NodeOrder[i]] = Nothing THEN emptyReport(NodeOrder[i]) ELSE collector[NodeOrder[i]]]
MergedGraph == BuildMergedGraph(Nodes, registry)
CheckMerged(src, dst) == CheckReachability(MergedGraph, src, dst)

----------------------------------------------------------------------------
\* A node: its plugin, and the child behind the proxy.

UNCHANGED_master == UNCHANGED <<refused, posts, server, collector>>
toggle == toggles < MaxToggles /\ toggles' = toggles + 1
\* The kernel's own registry, which a node's reports are taken from.
FactsChange(n) ==
    /\ toggle
    /\ \E reg \in NodeNets[n] \ {facts[n]} : facts' = [facts EXCEPT ![n] = reg]
    /\ UNCHANGED_master /\ UNCHANGED <<plugin, child, last, lastErr, sending, cycles>>
StartPlugin(n) ==
    /\ plugin[n] = "off" /\ toggle
    /\ plugin' = [plugin EXCEPT ![n] = "on"]
    /\ child' = [child EXCEPT ![n] = IF n \in Isolated THEN "up" ELSE "none"]
    /\ last' = [last EXCEPT ![n] = emptyReport(n)]
    /\ lastErr' = [lastErr EXCEPT ![n] = "none"]
    /\ UNCHANGED_master /\ UNCHANGED <<facts, sending, cycles>>
\* Stop cancels the loop's context and waits for it; a report begun with
\* report-now has a context of its own and is not waited for.
StopPlugin(n) ==
    /\ plugin[n] = "on" /\ toggle
    /\ plugin' = [plugin EXCEPT ![n] = "stopping"]
    /\ UNCHANGED_master /\ UNCHANGED <<child, facts, last, lastErr, sending, cycles>>
Stopped(n) ==
    /\ plugin[n] = "stopping" /\ sending[<<n, "loop">>] = Sleeping
    /\ n \in Isolated => sending[<<n, "now">>] = Sleeping
    /\ plugin' = [plugin EXCEPT ![n] = "off"] /\ child' = [child EXCEPT ![n] = "none"]
    /\ UNCHANGED_master /\ UNCHANGED <<facts, last, lastErr, sending, cycles, toggles>>

\* pushSnapshot of the proxy: a child that does not answer in time is killed and
\* not started again, and what it was sending is lost with it.
killed(n) ==
    /\ child' = [child EXCEPT ![n] = "dead"]
    /\ sending' = [sending EXCEPT ![<<n, "loop">>] = Sleeping, ![<<n, "now">>] = Sleeping]
PushSnapshot(n) ==
    /\ plugin[n] = "on" /\ child[n] = "up" /\ sending[<<n, "now">>] = Sleeping
    /\ \E r \in NodeReport(n, facts[n]) : last[n] # r /\ last' = [last EXCEPT ![n] = r]
    /\ UNCHANGED_master /\ UNCHANGED <<plugin, child, facts, lastErr, sending, cycles, toggles>>
\* A call the child cannot answer in time, being busy with report-now, which
\* tries longer than the proxy waits; or one it does not survive: check and
\* export on a node, which has no collector.
ChildLost(n) ==
    /\ plugin[n] = "on" /\ child[n] = "up" /\ killed(n)
    /\ UNCHANGED_master /\ UNCHANGED <<plugin, facts, last, lastErr, cycles, toggles>>

\* A cycle: the snapshot is taken and marshalled once for all attempts; the loop
\* of a child has what was pushed last, report-now is preceded by a push.
Report(n, by) ==
    /\ plugin[n] = "on" /\ child[n] # "dead" /\ sending[<<n, by>>] = Sleeping
    /\ cycles < MaxCycles /\ cycles' = cycles + 1
    /\ \E r \in IF n \in Isolated /\ by = "loop" THEN {last[n]} ELSE NodeReport(n, facts[n]) :
           /\ sending' = [sending EXCEPT ![<<n, by>>] = [pc |-> "post", report |-> r, attempt |-> 1, id |-> cycles]]
           /\ last' = IF n \in Isolated THEN [last EXCEPT ![n] = r] ELSE last
    /\ UNCHANGED_master /\ UNCHANGED <<plugin, child, facts, lastErr, toggles>>
cancelled(n, by) == by = "loop" /\ plugin[n] = "stopping"
postOnce(n, by) ==
    /\ sending[<<n, by>>].pc = "post" /\ server = "up" /\ ~cancelled(n, by)
    /\ posts' = posts \cup {[from |-> n, by |-> by, sent |-> sending[<<n, by>>], report |-> sending[<<n, by>>].report]}
    /\ sending' = [sending EXCEPT ![<<n, by>>].pc = "wait"]
    /\ UNCHANGED <<plugin, child, facts, last, refused, lastErr, server, collector, cycles, toggles>>
\* record.
ended(n, by, err) ==
    /\ sending' = [sending EXCEPT ![<<n, by>>] = Sleeping]
    /\ lastErr' = [lastErr EXCEPT ![n] = err]
\* An attempt fails: no master, its answer late, or the context cancelled.
attemptFails(n, by) ==
    /\ sending[<<n, by>>].pc \in {"post", "wait"}
    /\ sending[<<n, by>>].pc = "post" => server # "up" \/ cancelled(n, by)
    /\ IF sending[<<n, by>>].attempt < MaxAttempts /\ ~cancelled(n, by)
       THEN /\ sending' = [sending EXCEPT ![<<n, by>>].pc = "post", ![<<n, by>>].attempt = @ + 1]
            /\ UNCHANGED lastErr
       ELSE ended(n, by, "failed")
    /\ UNCHANGED_master /\ UNCHANGED <<plugin, child, facts, last, cycles, toggles>>
\* Apply: the report that comes last replaces the node's, an older one as well.
Apply(m) == [collector EXCEPT ![m.report.node] = m.report]
handleReport(m) ==
    /\ server = "up" /\ posts' = posts \ {m}
    /\ collector' = IF m.from \in refused THEN collector ELSE Apply(m)
    /\ UNCHANGED <<refused, server, plugin, child, facts, last, cycles, toggles>>
Answered(m) ==
    /\ handleReport(m)
    /\ sending[<<m.from, m.by>>] = [m.sent EXCEPT !.pc = "wait"]
    /\ IF m.from \notin refused THEN ended(m.from, m.by, "none")
       ELSE IF sending[<<m.from, m.by>>].attempt < MaxAttempts
       THEN /\ sending' = [sending EXCEPT ![<<m.from, m.by>>].pc = "post", ![<<m.from, m.by>>].attempt = @ + 1]
            /\ UNCHANGED lastErr
       ELSE ended(m.from, m.by, "failed")
\* Handled after the attempt was given up, or its answer lost.
HandledLate(m) == handleReport(m) /\ UNCHANGED <<lastErr, sending>>

\* The master: a busy port leaves it without an endpoint, a start forgets the nodes.
StartMaster ==
    /\ server = "off" /\ toggle
    /\ \/ server' = "up" /\ collector' = [n \in FedNodes |-> Nothing]
       \/ server' = "degraded" /\ UNCHANGED collector
    /\ UNCHANGED <<plugin, child, facts, last, lastErr, refused, sending, posts, cycles>>
StopMaster ==
    /\ server # "off" /\ toggle /\ server' = "off"
    /\ posts' = {}
    /\ UNCHANGED <<plugin, child, facts, last, lastErr, refused, sending, collector, cycles>>

FedInit ==
    /\ refused \in BadTokens
    /\ plugin = [n \in FedNodes |-> "on"] /\ server = "up"
    /\ child = [n \in FedNodes |-> IF n \in Isolated THEN "up" ELSE "none"]
    /\ facts \in {f \in [FedNodes -> UNION Range(NodeNets)] : \A n \in FedNodes : f[n] \in NodeNets[n]}
    /\ last = [n \in FedNodes |-> emptyReport(n)] /\ lastErr = [n \in FedNodes |-> "none"]
    /\ sending = [x \in FedNodes \X Senders |-> Sleeping] /\ posts = {}
    /\ collector = [n \in FedNodes |-> Nothing] /\ cycles = 0 /\ toggles = 0
FedNext ==
    \/ \E n \in FedNodes :
          \/ FactsChange(n) \/ StartPlugin(n) \/ StopPlugin(n) \/ Stopped(n) \/ PushSnapshot(n) \/ ChildLost(n)
          \/ \E by \in Senders : Report(n, by) \/ postOnce(n, by) \/ attemptFails(n, by)
    \/ \E m \in posts : Answered(m) \/ HandledLate(m)
    \/ StartMaster \/ StopMaster
FedSpec == FedInit /\ [][FedNext]_fedVars

----------------------------------------------------------------------------
\* What the master answers about a network that several kernels see in part,
\* whatever the order and the delays in which their reports arrived: a crossing
\* that any held report denies is not judged open (when the rules name subnets);
\* a host is nowhere but where a held report or its own registry puts it; and
\* what it holds of a node that node said itself, with the right token.
denied(policies, from, to) == \E p \in policies : ~p.allow /\ normalizeSubnet(p.from) = from /\ normalizeSubnet(p.to) = to
MasterViewSound ==
    LET all == forwardsOf(registry) \cup UNION {collector[n].policies : n \in {x \in FedNodes : collector[x] # Nothing}}
        subnets == UNION {MergedGraph.facts[h].subnets : h \in seen(MergedGraph.facts)}
    IN  /\ \A s, t \in subnets :
              denied(all, s, t) /\ (\A p \in all : p.from \notin DOMAIN SubnetOfIP /\ p.to \notin DOMAIN SubnetOfIP)
                 => policyVerdict(MergedGraph, s, t) = Blocked
        /\ \A n \in FedNodes : collector[n] # Nothing => n \notin refused /\ collector[n].node = n
        /\ \A h \in seen(MergedGraph.facts) :
              \/ registry[h] # Unseen
              \/ \E n \in FedNodes : collector[n] # Nothing /\ collector[n].hosts[h] # Unseen
\* Reachability is sound wherever it is judged: in the kernel's own graph and in
\* the one the master merges.
NetworkSound == EdgesAreReachable /\ MasterViewSound
===============================================================================
