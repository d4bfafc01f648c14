------------------------------ MODULE AgentFacts ------------------------------
(***************************************************************************)
(* What an agent finds out about its host for a heartbeat                  *)
(* (internal/agent/policy.go, and collectNetworkInfo and collectPackages   *)
(* of internal/agent/agent.go): addresses, links, VLANs, the rules of the  *)
(* firewall as policies between subnets, the packages and their CPEs.      *)
(*                                                                         *)
(* The parts are read one after the other while the host changes.          *)
(* A firewall rule is [chain, iif, oif, from, to, verdict, extra], "" for  *)
(* what it leaves open, Many for a set of addresses, and in extra what     *)
(* else it asks: "neg" (an address or interface negated), "port", "ct".    *)
(* A name of a package is a sequence of words, joined by dashes.           *)
(***************************************************************************)
EXTENDS Integers, Sequences, FiniteSets, SequencesExt

CONSTANTS
    Interfaces,   \* [interface -> [nets, ips, public]]: public says its addresses are
    VlanEnv,      \* [interface -> VLAN]: ASSCOR_AGENT_VLANS
    VlanProc,     \* interfaces in /proc/net/vlan
    VlanNamed,    \* interfaces whose name ends in a VLAN number
    Firewalls,    \* [nft, ipt]: what either tool prints, or Silent
    PackageLists, \* [manager, lines, again]: what is installed and how it is listed
    VendorOf,     \* [name -> <<vendor, product>>]: cpeVendorMap
    SubPackages,     \* words of a sub-package: libs, server, devel, ...
    Numbers,      \* words with a digit
    Guesses,      \* package names found in the texts of the agent's checks
    MaxHostChanges

Silent == <<>>      \* not installed, failed, or not to be parsed
Many == "many"
NoPackages == <<>>

VARIABLES
    hostUp,      \* the interfaces that are up
    firewall, forwarding, packaged,   \* the host's firewall, ip_forward and packages
    gathering,   \* where a heartbeat is
    netInfo,     \* NetworkInfo of the heartbeat in progress or of the last one
    cachedPackages, \* NoPackages or <<lines>>: of the first heartbeat of the process
    reportedCpes,
    readRules,   \* what the policies were made of: [chains, nets]
    readPackages,\* the packages when they were read
    hostChanges
hostVars == <<hostUp, firewall, forwarding, packaged, hostChanges>>
factsVars == <<hostVars, gathering, netInfo, cachedPackages, reportedCpes, readRules, readPackages>>

netsOf(up) == [i \in up |-> Interfaces[i].nets]
netsAt(nets, i) == IF i \in DOMAIN nets THEN SetToSeq(nets[i]) ELSE <<>>

----------------------------------------------------------------------------
\* The rules of a firewall, as policies in the order of the rules.

Policy(dir, from, to, allow) == [dir |-> dir, from |-> from, to |-> to, allow |-> allow]
cidr(place) == IF place = Many THEN "" ELSE place
allows(r) == r.verdict = "accept"

\* An interface stands for its subnets; a rule with neither is left out.
outboundFacts(r, nets) ==
    IF cidr(r.to) # "" THEN <<Policy("outbound", "", cidr(r.to), allows(r))>>
    ELSE [k \in DOMAIN netsAt(nets, r.oif) |-> Policy("outbound", "", netsAt(nets, r.oif)[k], allows(r))]
inboundFacts(r, nets) ==
    IF cidr(r.from) # "" THEN <<Policy("inbound", cidr(r.from), "", allows(r))>>
    ELSE IF cidr(r.to) # "" THEN <<Policy("inbound", "", cidr(r.to), allows(r))>>
    ELSE [k \in DOMAIN netsAt(nets, r.iif) |-> Policy("inbound", netsAt(nets, r.iif)[k], "", allows(r))]
forwardFacts(r, nets) ==
    IF cidr(r.from) # "" /\ cidr(r.to) # "" THEN <<Policy("forward", cidr(r.from), cidr(r.to), allows(r))>>
    ELSE FlattenSeq([k \in DOMAIN netsAt(nets, r.iif) |->
                        [l \in DOMAIN netsAt(nets, r.oif) |->
                            Policy("forward", netsAt(nets, r.iif)[k], netsAt(nets, r.oif)[l], allows(r))]])
ruleFacts(r, nets) ==
    CASE r.chain = "output" -> outboundFacts(r, nets)
      [] r.chain = "input" -> inboundFacts(r, nets)
      [] OTHER -> forwardFacts(r, nets)
factsOf(rules, nets) == FlattenSeq([k \in DOMAIN rules |-> ruleFacts(rules[k], nets)])

\* nft: whatever else a rule asks is not looked at, and every other chain counts as forwarding.
decides(r) == r.verdict \in {"accept", "drop", "reject"}
parseNftRuleset(rules) == SelectSeq(rules, decides)
\* iptables: a rule with a negation or an extension, or of another chain, is left out.
parseIptablesSave(rules) ==
    SelectSeq(rules, LAMBDA r : decides(r) /\ r.extra = {} /\ r.chain \in {"input", "output", "forward"})
\* Replies are let through: nft says in which chain, iptables in any.
parseNftStateful(rules, chain) ==
    \E k \in DOMAIN rules : rules[k].chain = chain /\ "ct" \in rules[k].extra /\ allows(rules[k])
iptStateful(rules) == \E k \in DOMAIN rules : "ct" \in rules[k].extra /\ allows(rules[k])

\* A ruleset that was read: all of it, what is translated, and for which directions.
\* collectPolicyFacts asks nft first, and iptables only if nft cannot be read.
Read(all, rules, in, out) == [known |-> TRUE, all |-> all, rules |-> rules, in |-> in, out |-> out]
Unread == [known |-> FALSE, all |-> <<>>, rules |-> <<>>, in |-> FALSE, out |-> FALSE]
collectPolicyFacts(nftRuns, iptRuns) ==
    IF nftRuns /\ firewall.nft # Silent
    THEN LET all == firewall.nft[1]
         IN  Read(all, parseNftRuleset(all), parseNftStateful(all, "input"), parseNftStateful(all, "output"))
    ELSE IF iptRuns /\ firewall.ipt # Silent
    THEN LET all == firewall.ipt[1]
         IN  Read(all, parseIptablesSave(all), iptStateful(all), iptStateful(all))
    ELSE Unread

----------------------------------------------------------------------------
\* The network, in the order in which it is read.

UnreadNet == [subnets |-> {}, ips |-> {}, zone |-> "", links |-> {}, vlans |-> {}, forwards |-> FALSE,
              policies |-> <<>>, known |-> FALSE, statefulIn |-> FALSE, statefulOut |-> FALSE]
Goes(from, to) == gathering.pc = from /\ gathering' = [pc |-> to]
sameHost == UNCHANGED hostVars

inferZone(up) ==
    LET kinds == {Interfaces[i].public : i \in {j \in up : Interfaces[j].ips # {}}}
    IN  IF kinds = BOOLEAN THEN "dmz" ELSE IF kinds = {TRUE} THEN "public" ELSE "internal"

\* collectNetworkInfo: the addresses of the interfaces that are up.
collectNetworkInfo ==
    /\ Goes("idle", "links")
    /\ netInfo' = [UnreadNet EXCEPT !.subnets = UNION {Interfaces[i].nets : i \in hostUp},
                                    !.ips = UNION {Interfaces[i].ips : i \in hostUp},
                                    !.zone = inferZone(hostUp)]
    /\ sameHost /\ UNCHANGED <<cachedPackages, reportedCpes, readRules, readPackages>>

\* A VLAN is the operator's word or the name of the interface.
vlansOf(i) == IF i \in DOMAIN VlanEnv THEN {VlanEnv[i]} ELSE {i} \cap (VlanProc \cup VlanNamed)
collectLinks ==
    /\ Goes("links", "forwards")
    /\ netInfo' = [netInfo EXCEPT !.links = {[name |-> i, up |-> i \in hostUp, nets |-> Interfaces[i].nets,
                                              vlans |-> vlansOf(i)] : i \in DOMAIN Interfaces}]
    /\ sameHost /\ UNCHANGED <<cachedPackages, reportedCpes, readRules, readPackages>>
collectVLANs == {VlanEnv[i] : i \in DOMAIN VlanEnv} \cup VlanProc
collectForwards ==
    /\ Goes("forwards", "policies")
    /\ netInfo' = [netInfo EXCEPT !.vlans = collectVLANs, !.forwards = forwarding]
    /\ sameHost /\ UNCHANGED <<cachedPackages, reportedCpes, readRules, readPackages>>
\* interfaceSubnets looks at the interfaces a second time, before the rules are asked for.
interfaceSubnets ==
    /\ gathering.pc = "policies" /\ gathering' = [pc |-> "rules", nets |-> netsOf(hostUp)]
    /\ sameHost /\ UNCHANGED <<netInfo, cachedPackages, reportedCpes, readRules, readPackages>>
collectRules(nftRuns, iptRuns) ==
    /\ gathering.pc = "rules" /\ gathering' = [pc |-> "packages"]
    /\ LET read == collectPolicyFacts(nftRuns, iptRuns)
       IN  /\ readRules' = [chains |-> read, nets |-> gathering.nets]
           /\ netInfo' = [netInfo EXCEPT !.policies = factsOf(read.rules, gathering.nets), !.known = read.known,
                                         !.statefulIn = read.in, !.statefulOut = read.out]
    /\ sameHost /\ UNCHANGED <<cachedPackages, reportedCpes, readPackages>>

----------------------------------------------------------------------------
\* Packages.  A line is [words, version, spaced]: name and version in two columns, or
\* joined by dashes.

\* A line of rpm without a format is cut at its first dash, wherever the name ends.
splitPkgNameVersion(l) ==
    IF l.spaced THEN [name |-> l.words, version |-> Head(l.version)]
    ELSE LET all == l.words \o l.version
         IN  IF Range(Tail(all)) \cap Numbers = {} THEN [name |-> all, version |-> "*"]
             ELSE [name |-> <<Head(all)>>, version |-> all[2]]
\* The name without one suffix, else the whole name.
lookupVendorProduct(name) ==
    LET core == IF Len(name) > 1 /\ Last(name) \in SubPackages THEN Front(name) ELSE name
    IN  IF core \in DOMAIN VendorOf THEN <<VendorOf[core]>>
        ELSE IF name \in DOMAIN VendorOf THEN <<VendorOf[name]>> ELSE <<>>
generateCPEs(lines) ==
    {[product |-> lookupVendorProduct(splitPkgNameVersion(l).name)[1], version |-> splitPkgNameVersion(l).version] :
        l \in {k \in lines : lookupVendorProduct(splitPkgNameVersion(k).name) # <<>>}}

\* extractPackagesFromChecks: what the texts of the checks speak of, installed or not.
extractPackagesFromChecks == {[words |-> g, version |-> <<>>, spaced |-> FALSE] : g \in Guesses}
\* The lines of the first package manager there is; rpm is asked a second time, without a
\* format, when it lists nothing.
listed(answered) ==
    IF ~answered THEN {}
    ELSE IF packaged.manager = "rpm" /\ packaged.lines = {} THEN packaged.again ELSE packaged.lines
collectPackages(answered) ==
    /\ Goes("packages", "idle")
    /\ IF cachedPackages # NoPackages THEN UNCHANGED <<cachedPackages, readPackages>>
       ELSE /\ cachedPackages' = <<IF listed(answered) # {} THEN listed(answered) ELSE extractPackagesFromChecks>>
            /\ readPackages' = packaged
    /\ reportedCpes' = generateCPEs(cachedPackages'[1])
    /\ sameHost /\ UNCHANGED <<netInfo, readRules>>

----------------------------------------------------------------------------
\* The host changes, and systemd starts the agent again.
Change == hostChanges < MaxHostChanges /\ hostChanges' = hostChanges + 1
agentSame == UNCHANGED <<gathering, netInfo, cachedPackages, reportedCpes, readRules, readPackages>>
LinkChanges(i) ==
    /\ Change /\ hostUp' = (IF i \in hostUp THEN hostUp \ {i} ELSE hostUp \cup {i})
    /\ agentSame /\ UNCHANGED <<firewall, forwarding, packaged>>
FirewallChanges(f) ==
    /\ Change /\ firewall' = f /\ agentSame /\ UNCHANGED <<hostUp, forwarding, packaged>>
ForwardingChanges ==
    /\ Change /\ forwarding' = ~forwarding /\ agentSame /\ UNCHANGED <<hostUp, firewall, packaged>>
PackagesChange(p) ==
    /\ Change /\ packaged' = p /\ agentSame /\ UNCHANGED <<hostUp, firewall, forwarding>>
ProcessRestarts ==
    /\ Change /\ gathering' = [pc |-> "idle"] /\ netInfo' = UnreadNet
    /\ cachedPackages' = NoPackages /\ reportedCpes' = {}
    /\ UNCHANGED <<hostUp, firewall, forwarding, packaged, readRules, readPackages>>

FactsInit ==
    /\ hostUp = DOMAIN Interfaces /\ firewall \in Firewalls /\ forwarding = FALSE /\ packaged \in PackageLists
    /\ gathering = [pc |-> "idle"] /\ netInfo = UnreadNet
    /\ cachedPackages = NoPackages /\ reportedCpes = {}
    /\ readRules = [chains |-> Unread, nets |-> netsOf({})] /\ readPackages = packaged
    /\ hostChanges = 0
FactsNext ==
    \/ collectNetworkInfo \/ collectLinks \/ collectForwards \/ interfaceSubnets
    \/ \E nftRuns, iptRuns \in BOOLEAN : collectRules(nftRuns, iptRuns)
    \/ \E answered \in BOOLEAN : collectPackages(answered)
    \/ \E i \in DOMAIN Interfaces : LinkChanges(i)
    \/ \E f \in Firewalls : FirewallChanges(f)
    \/ ForwardingChanges
    \/ \E p \in PackageLists : PackagesChange(p)
    \/ ProcessRestarts
FactsSpec == FactsInit /\ [][FactsNext]_factsVars

----------------------------------------------------------------------------
\* Traffic of the host over the interfaces as they were read, and what a rule means to it.
Traffic(nets) ==
    LET own == UNION Range(nets)
    IN  {x \in [chain : {"input", "output", "forward"}, iif : DOMAIN nets \cup {""}, oif : DOMAIN nets \cup {""},
                from : own, to : own] :
            /\ (x.chain = "output") = (x.iif = "") /\ (x.chain = "input") = (x.oif = "")
            /\ x.iif # "" => x.from \in nets[x.iif]
            /\ x.oif # "" => x.to \in nets[x.oif] /\ x.iif # x.oif}
open(pattern, value) == pattern \in {"", value}
concerns(r, x) ==
    /\ r.chain = x.chain /\ decides(r)
    /\ open(r.iif, x.iif) /\ open(r.oif, x.oif) /\ open(r.from, x.from) /\ open(r.to, x.to)
dirOf(chain) == CASE chain = "input" -> "inbound" [] chain = "output" -> "outbound" [] OTHER -> "forward"
covers(p, x) == p.dir = dirOf(x.chain) /\ open(p.from, x.from) /\ open(p.to, x.to)
first(seq, Has(_)) ==
    IF \E k \in DOMAIN seq : Has(seq[k])
    THEN CHOOSE k \in DOMAIN seq : Has(seq[k]) /\ \A l \in 1..(k - 1) : ~Has(seq[l]) ELSE 0

\* Rules whose whole meaning is a policy: one address on the host's own chains, two addresses
\* or two interfaces on the forward chain; a rule without a verdict means nothing.
given(r) == {f \in {"iif", "oif", "from", "to"} : r[f] # ""}
plain(r) ==
    \/ r.verdict = "count"
    \/ /\ decides(r) /\ r.extra = {} /\ Many \notin {r.from, r.to}
       /\ given(r) \in CASE r.chain = "input" -> {{"iif"}, {"from"}, {"to"}}
                         [] r.chain = "output" -> {{"oif"}, {"to"}}
                         [] r.chain = "forward" -> {{"iif", "oif"}, {"from", "to"}}
                         [] OTHER -> {}
\* Another chain speaks of forwarded traffic, for the translation.
speaksOf(r, x) == r.chain = x.chain \/ (x.chain = "forward" /\ r.chain \notin {"input", "output"})

\* The policies a host reports decide as its firewall does: for traffic over the interfaces
\* they were made for, the first policy that covers it has the verdict of the first rule that
\* concerns it, and without such a rule there is no such policy, as long as all rules up to
\* there are plain (policy.go: what is not plain is to be left out; nft does not).
PoliciesFollowRules ==
    gathering.pc # "rules" /\ netInfo.known =>
        \A x \in Traffic(readRules.nets) :
            LET all == readRules.chains.all
                k == first(all, LAMBDA r : concerns(r, x))
                upTo == IF k = 0 THEN Len(all) ELSE k
                p == first(netInfo.policies, LAMBDA q : covers(q, x))
            IN  (\A l \in 1..upTo : speaksOf(all[l], x) => plain(all[l])) =>
                    IF k = 0 THEN p = 0 ELSE p # 0 /\ netInfo.policies[p].allow = allows(all[k])

\* A CPE with a version names a product that was installed in that version when the packages
\* were read; only the second listing of rpm, which has no columns, may garble the two, and
\* only guesses from the checks name what is not installed, without a version.
CpesNamePackages ==
    \A c \in reportedCpes :
        \/ c.version = "*"
        \/ readPackages.manager = "rpm" /\ readPackages.lines = {}
        \/ \E l \in readPackages.lines :
                l.version[1] = c.version /\ \E k \in 1..Len(l.words) :
                    SubSeq(l.words, 1, k) \in DOMAIN VendorOf /\ VendorOf[SubSeq(l.words, 1, k)] = c.product

FactsSound == PoliciesFollowRules /\ CpesNamePackages
===============================================================================
