------------------------------ MODULE MCPlatform ------------------------------
(***************************************************************************)
(* The kernel's own modules on small instances: each behaviour is one of   *)
(* the parts, chosen initially, which steps alone.                         *)
(***************************************************************************)
EXTENDS Assessment, Spc, Extensions, Federation, AgentFacts, CertStore

VARIABLE part

Parts == {"assessor", "spc", "extensions", "topology", "federation", "facts", "certificates"}

\* The assessor: two configurations that differ in everything a reload writes.
MCConfigs ==
    <<[threshold |-> 70, byLower |-> FALSE, weight |-> 10, factor |-> 75, model |-> "off", floor |-> 15],
      [threshold |-> 85, byLower |-> TRUE, weight |-> 5, factor |-> 90, model |-> "on", floor |-> 0]>>
MCReported == {{}, {"EF-1", "AC-004"}}

\* The SPC module: three vulnerabilities and what each feed says of them.
App(v, p, ver, r) == [name |-> <<"a", v, p>>, version |-> ver, range |-> r]
Old(id, v, cpes) == [CVE(id) EXCEPT !.cvss = v, !.cpes = cpes, !.age = 100]
New(id, v, cpes) == [Old(id, v, cpes) EXCEPT !.recent = TRUE]
MCFeed ==
    [nvd |-> {<<>>, <<Old("c1", 5, {App("v1", "p1", 2, <<>>)}), New("c2", 9, {App("v1", "p1", 0, <<1, 3>>)})>>},
     epss |-> {<<[CVE("c1") EXCEPT !.epss = 50]>>},
     kev |-> {<<[CVE("c3") EXCEPT !.kev = TRUE, !.apts = 1, !.desc = "p1"]>>},
     misp |-> {<<[CVE("c1") EXCEPT !.recent = TRUE, !.techs = 1]>>},
     cnnvd |-> {<<Old("c3", 7, {App("v2", "p2", 0, <<>>)})>>},
     other |-> {<<[New("c3", 8, {}) EXCEPT !.kev = TRUE, !.poc = TRUE]>>,
                <<[Old("c1", 3, {App("v2", "p2", 1, <<>>)}) EXCEPT !.pri = 2]>>}]
MCSamples == <<New("c2", 7, {App("v1", "p1", 0, <<>>)})>>
MCInventories ==
    {[cpes |-> {App("v1", "p1", 1, <<>>)}, pkgs |-> {"p1"}, zone |-> "dmz", control |-> "rules"]}
MCSaved == {<<>>, <<Old("c1", 5, {App("v1", "p1", 2, <<>>)}), New("c2", 9, {App("v1", "p1", 0, <<1, 3>>)})>>}
MCEpss(e) == IF e = 0 THEN 0 ELSE 14

\* The extension manager: two versions of a hook and a domain that needs it.
Ext(id, v, t, deps) ==
    [id |-> id, version |-> v, type |-> t, deps |-> deps, source |-> "git", checksum |-> "none", state |-> ""]
MCSpecs ==
    {Ext("a", 1, "hook", {}), Ext("a", 2, "hook", {}),
     [Ext("b", 1, "domain", {[id |-> "a", min |-> 1, open |-> FALSE]}) EXCEPT !.source = "http", !.checksum = "right"]}

\* The network: a and b, each in a subnet of its own, and a router.
Rule(d, f, t, a) == [dir |-> d, from |-> f, to |-> t, allow |-> a]
Facts(subs, ip) ==
    [subnets |-> subs, vlans |-> {}, forwards |-> FALSE, policies |-> <<>>, known |-> FALSE,
     links |-> {}, ips |-> {ip}, stateful |-> TRUE, zone |-> ""]
EdgeA == [Facts({"s1"}, "i1") EXCEPT !.policies = <<Rule("inbound", "s2", "", FALSE)>>]
EdgeB == Facts({"s2"}, "i2")
Router == [Facts({"s1", "s2"}, "ir") EXCEPT !.forwards = TRUE, !.known = TRUE]
MCNet ==
    [a |-> {EdgeA, [EdgeA EXCEPT !.stateful = FALSE]},
     r |-> {Router, [Router EXCEPT !.policies = <<Rule("forward", "s1", "s2", FALSE)>>],
            [Router EXCEPT !.links = {<<"s1", FALSE>>}]},
     b |-> {EdgeB, [EdgeB EXCEPT !.policies = <<Rule("outbound", "i1", "i1", FALSE)>>]}]
MCKnown == {[h \in {"a", "r", "b"} |-> <<>>], [a |-> EdgeA, r |-> Router, b |-> EdgeB]}
MCIPs == [i1 |-> "s1", ir |-> "s2", i2 |-> "s2"]
MCNetworkOf == [s1h |-> "s1"]

\* Two node kernels that see the router from either side and disagree on it.
NoHost == [h \in {"a", "r", "b"} |-> <<>>]
MCNodeNets ==
    [n1 |-> {[NoHost EXCEPT !.a = EdgeA, !.r = [Router EXCEPT !.policies = <<Rule("forward", "s1", "s2", TRUE)>>]]},
     n2 |-> {[NoHost EXCEPT !.r = [Router EXCEPT !.subnets = {"s2"},
                                                 !.policies = <<Rule("forward", "s1h", "s2", FALSE)>>]],
             [NoHost EXCEPT !.b = EdgeB]}]
MCNodeOrder == <<"n1", "n2">>
MCPlaceOrder == <<"i1", "i2", "ir", "s1", "s2">>

\* What an agent finds on its host: two interfaces, five sets of rules, each for both tools,
\* one for iptables alone, and packages listed in two ways or not at all.
MCInterfaces == [eth0 |-> [nets |-> {"s1"}, ips |-> {"i1"}, public |-> FALSE],
                 eth1 |-> [nets |-> {"s2", "s3"}, ips |-> {"i2"}, public |-> TRUE]]
MCVlanEnv == [eth0 |-> "101"]
FwRule(c, i, f, o, t, v, x) == [chain |-> c, iif |-> i, from |-> f, oif |-> o, to |-> t, verdict |-> v, extra |-> x]
In(i, f, t, v) == FwRule("input", i, f, "", t, v, {})
Out(o, t, v) == FwRule("output", "", "", o, t, v, {})
Fwd(i, f, o, t, v) == FwRule("forward", i, f, o, t, v, {})
Established(c) == FwRule(c, "", "", "", "", "accept", {"ct"})
Both(rules) == [nft |-> <<rules>>, ipt |-> <<rules>>]
MCFirewalls ==
    {Both(<<In("eth1", "", "", "drop"), In("", "s1", "", "accept"), Out("", "s2", "reject"), Out("eth1", "", "accept")>>),
     Both(<<Fwd("eth0", "", "eth1", "", "drop"), Fwd("", "s1", "", "s2", "accept"), Fwd("", "s2", "", "s1", "accept")>>),
     Both(<<Fwd("", "s1", "", "s3", "drop"), Fwd("eth0", "", "eth1", "", "accept"), Fwd("", "s2", "", "", "drop")>>),
     Both(<<Established("input"), FwRule("input", "", "s1", "", "", "drop", {"port"}), In("", Many, "s2", "drop")>>),
     Both(<<In("", "", "", "count"), In("", "", "s2", "drop"), FwRule("forward", "", "", "", "", "jump", {}),
            FwRule("user", "", "s1", "", "s2", "drop", {})>>),
     [nft |-> Silent, ipt |-> <<<<Established("forward"), FwRule("output", "", "", "", "s1", "drop", {"neg"})>>>>]}
Line(w, v) == [words |-> w, version |-> v, spaced |-> TRUE]
Joined(w, v) == [Line(w, v) EXCEPT !.spaced = FALSE]
MCPackages ==
    {[manager |-> "rpm", lines |-> {Line(<<"openssh", "server">>, <<"8.7", "1">>), Line(<<"openssl">>, <<"3.0">>)}, again |-> {}],
     [manager |-> "rpm", lines |-> {}, again |-> {Joined(<<"openssh", "server">>, <<"8.7", "1">>), Joined(<<"openssl">>, <<"3.0">>)}],
     [manager |-> "none", lines |-> {}, again |-> {}]}
MCVendors == (<<"openssh">> :> <<"openbsd", "openssh">>) @@ (<<"openssl">> :> <<"openssl", "openssl">>)
MCGuesses == {<<"openssh">>, <<"linux", "kernel">>}

----------------------------------------------------------------------------
firewallAtRest == CHOOSE f \in MCFirewalls : TRUE
packagesAtRest == CHOOSE p \in MCPackages : TRUE
PlatformInit ==
    /\ part \in Parts
    /\ AssessInit /\ SpcInit /\ ExtInit /\ NetInit /\ FedInit /\ FactsInit /\ CertInit
    /\ part # "facts" => firewall = firewallAtRest /\ packaged = packagesAtRest
    /\ part = "spc" <=> savedCves # <<>>
    /\ part \notin {"topology", "federation"} => seen(registry) = {}
    /\ part = "federation" => seen(registry) # {}
    /\ part # "federation" => refused = {}
    /\ facts = [n \in FedNodes |-> CHOOSE reg \in NodeNets[n] : TRUE]

Alone(p, step) == part = p /\ step /\ UNCHANGED part
PlatformNext ==
    \/ Alone("assessor", AssessNext) /\ UNCHANGED <<spcVars, extVars, netVars, fedVars, factsVars, certVars>>
    \/ Alone("spc", SpcNext) /\ UNCHANGED <<assessVars, extVars, netVars, fedVars, factsVars, certVars>>
    \/ Alone("extensions", ExtNext) /\ UNCHANGED <<assessVars, spcVars, netVars, fedVars, factsVars, certVars>>
    \/ Alone("topology", NetNext) /\ UNCHANGED <<assessVars, spcVars, extVars, fedVars, factsVars, certVars>>
    \/ Alone("federation", FedNext) /\ UNCHANGED <<assessVars, spcVars, extVars, netVars, factsVars, certVars>>
    \/ Alone("facts", FactsNext) /\ UNCHANGED <<assessVars, spcVars, extVars, netVars, fedVars, certVars>>
    \/ Alone("certificates", CertNext) /\ UNCHANGED <<assessVars, spcVars, extVars, netVars, fedVars, factsVars>>
platformVars == <<part, assessVars, spcVars, extVars, netVars, fedVars, factsVars, certVars>>
PlatformSpec == PlatformInit /\ [][PlatformNext]_platformVars

\* What a host is told of itself is of one configuration (the assessor), from a cache of
\* vulnerabilities that keeps what matters and corrects by no more than it knows (SPC), and what
\* it reports of itself is what its agent read (AgentFacts).
AssessedSound == ResultsSound /\ SpcSound /\ FactsSound

\* What the kernel finds on its disk after a crash, and what an operator did to it, is what
\* it can go on with: an enabled extension has what it needs, and the certificates agree.
DiskSound == EnabledDepsHold /\ CertsSound
===============================================================================
