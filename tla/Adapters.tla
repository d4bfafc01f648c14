------------------------------ MODULE Adapters ------------------------------
(***************************************************************************)
(* The adapters of external tools (internal/adapter): each fetches what    *)
(* its tool says, turns it into findings, gives them a check and a domain  *)
(* by delegation and drops the invalid ones; the integration module        *)
(* (kernel/adapter_integration.go) publishes them as check results.        *)
(*                                                                         *)
(* What a tool says is either text, of which the words the parsers look    *)
(* for count, or a document of items.  A domain is named by the prefix of  *)
(* its checks: AS, BC, KS, OT, RS.                                         *)
(***************************************************************************)
EXTENDS Integers, FiniteSets, Sequences, SequencesExt

CONSTANT ToolDocs  \* tool -> the outputs it may have, see Doc

\* The adapters that register themselves (init, in adapter/scanner and adapter/management), and a script.
ASSUME AdaptersAssumption ==
    DOMAIN ToolDocs \subseteq
        {"trivy", "nuclei", "lynis", "openscap", "wazuh_agent", "suricata", "falco", "clamav", "osv_scanner", "aide", "nikto",
         "ansible", "netbox", "snipe_it", "freeipa", "keycloak", "wazuh_siem", "rundeck", "jira", "terraform", "opentofu", "script"}

VARIABLE ran       \* the last run: tool, its output, and what was published

\* bad: the tool reports a problem (or that it cannot tell).
Doc(json, words, items, bad) == [json |-> json, words |-> words, items |-> items, bad |-> bad]
Text(words, bad) == Doc(FALSE, words, {}, bad)
Json(items, bad) == Doc(TRUE, {}, items, bad)

F(says, type, sev, passed, domain) ==
    [says |-> says, type |-> type, sev |-> sev, passed |-> passed, domain |-> domain, check |-> "", titled |-> TRUE]
Status(type, sev, passed, domain) == {F({}, type, sev, passed, domain)}
OneOf(cond, a, b) == IF cond THEN a ELSE b

----------------------------------------------------------------------------
\* Scanners.
trivyVuln(v) == F(v.says, "vulnerability", v.sev, FALSE, "")
trivyMap(f, score) ==
    [f EXCEPT !.sev = IF @ # "none" THEN @ ELSE IF score >= 9 THEN "critical" ELSE IF score >= 7 THEN "high" ELSE @]
trivy(d) == {IF i.kind = "misconfig" THEN [F({}, "misconfiguration", i.sev, FALSE, "OT") EXCEPT !.check = "OT-099-T"]
             ELSE trivyMap(trivyVuln(i), i.score) : i \in d.items}
nuclei(d) == {F({}, "vulnerability", i.sev, FALSE, "AS") : i \in d.items}

lynisSeverity(result) ==
    CASE result = "HARDENING" -> "high" [] result \in {"WARNING", "NOT_FOUND"} -> "medium"
      [] result = "SUGGESTION" -> "low" [] result = "VULNERABLE" -> "critical" [] OTHER -> "info"
mapCategoryToDomain(c) ==
    CASE c \in {"FIRE", "NETW"} -> "AS" [] c = "KRNL" -> "KS" [] c \in {"BOOT", "PROC", "STRG"} -> "BC"
      [] c = "MALW" -> "RS" [] OTHER -> "OT"
lynisMap(f) == [f EXCEPT !.sev = IF ~f.passed /\ @ = "info" THEN "low" ELSE @]
lynis(d) == {lynisMap(F(i.says, "compliance", lynisSeverity(i.result), i.result \in {"OK", "FOUND", "INFORMATION"},
                        mapCategoryToDomain(i.category))) : i \in d.items}

\* Only lines with a colon name their rule; the others say nothing.
openscap(d) == {F({}, "compliance", OneOf(i.word = "fail", "medium", "info"), i.word = "pass", "OT") :
                  i \in {j \in d.items : j.colon /\ j.word \in {"pass", "fail"}}}
wazuh_agent(d) == Status("alert", "none", "running" \in d.words, "RS")

suricataSeverity(n) == CASE n = 1 -> "critical" [] n = 2 -> "high" [] n = 3 -> "medium" [] OTHER -> "low"
installed(d, name) == name \in d.words
suricata(d) == Status("alert", "none", installed(d, "Suricata"), "RS")
    \cup {F(i.says, "alert", suricataSeverity(i.level), FALSE, "RS") : i \in d.items}
falcoPriority(p) ==
    CASE p \in {"EMERGENCY", "ALERT", "CRITICAL"} -> "critical" [] p = "ERROR" -> "high"
      [] p \in {"NOTICE", "INFORMATIONAL"} -> "low" [] p = "DEBUG" -> "info" [] OTHER -> "medium"
falcoLevel(p) ==
    CASE p \in {"EMERGENCY", "ALERT", "CRITICAL", "ERROR"} -> "high" [] p = "WARNING" -> "medium" [] OTHER -> "low"
falco(d) == Status("alert", "none", installed(d, "Falco"), "RS")
    \cup {F({}, "alert", IF i.log THEN falcoLevel(i.priority) ELSE falcoPriority(i.priority), FALSE, "RS") : i \in d.items}
\* A scan that finds nothing prints nothing, and is not reported.
clamav(d) == Status("alert", "none", installed(d, "ClamAV"), "RS")
    \cup {F({}, "alert", "critical", FALSE, "RS") : i \in {j \in d.items : j = "FOUND"}}
    \cup {F({}, "alert", "medium", FALSE, "RS") : i \in {j \in d.items : j = "scan error"}}

\* A vulnerability without a summary has no title.
osv_scanner(d) ==
    IF ~d.json THEN Status("vulnerability", OneOf("id" \in d.words, "high", "info"), "id" \notin d.words, "AS")
    ELSE IF d.items = {} THEN Status("vulnerability", "info", TRUE, "AS")
    ELSE {[F(OneOf(i.cve, {"CVE"}, {}), "vulnerability", i.sev, FALSE, "AS") EXCEPT !.titled = i.summary] : i \in d.items}
aide(d) == LET clean == d.words \cap {"changed", "added", "removed"} = {}
           IN Status("compliance", OneOf(clean, "info", "high"), clean, "OT")
nikto(d) == LET issues == d.words \cap {"vulnerab", "warning", "interesting"} # {}
            IN Status("vulnerability", OneOf(issues, "high", "info"), ~issues, "AS")

----------------------------------------------------------------------------
\* Management tools.
ansible(d) == IF d.items = {} THEN Status("config_state", "medium", FALSE, "OT")
              ELSE {F({}, "config_state", "info", TRUE, "OT") : i \in d.items}
\* A critical device fails even when it is active.
netboxSeverity(c) == OneOf(c \in {"critical", "high", "medium", "low"}, c, "info")
netbox(d) == IF d.items = {} THEN Status("asset", "medium", FALSE, "BC")
             ELSE {F({}, "asset", netboxSeverity(i.criticality), i.active /\ i.criticality # "critical", "BC") : i \in d.items}
snipe_it(d) ==
    IF d.items = {} THEN Status("asset", "medium", FALSE, "BC")
    ELSE {CASE s \in {"deployed", "pending", "archived"} -> F({}, "asset", "info", TRUE, "BC")
            [] s = "ready to deploy" -> F({}, "asset", "low", TRUE, "BC")
            [] s \in {"undeployable", "broken"} -> F({}, "asset", "critical", FALSE, "BC")
            [] OTHER -> F({}, "asset", "medium", FALSE, "BC") : s \in d.items}
freeipa(d) == (IF d.items = {} THEN Status("identity", "medium", FALSE, "OT") ELSE Status("identity", "info", TRUE, "OT"))
    \cup {F({"disabled"}, "identity", "medium", FALSE, "OT") : i \in {j \in d.items : j = "disabled"}}
keycloak(d) ==
    IF ~d.json THEN Status("identity", "none", FALSE, "")
    ELSE IF d.items = {} THEN Status("identity", "none", TRUE, "OT")
    ELSE {F({}, "identity", "none", i = "enabled", "") : i \in d.items}
\* An answer without an error number counts as authenticated.
wazuh_siem(d) == LET refused == ~d.json \/ "error" \in d.items
                 IN Status("alert", OneOf(refused, "high", "info"), ~refused, "RS")
rundeck(d) == Status("config_state", OneOf(d.json, "info", "medium"), d.json /\ "active" \in d.items, "OT")
jira(d) == Status("config_state", OneOf(d.json, "none", "medium"), d.json /\ "active" \in d.items, "OT")
\* The state is never judged: what is there passes.
terraform(d) == IF ~d.json THEN Status("config_state", "info", TRUE, "OT")
                ELSE {F({}, "config_state", "info", TRUE, "OT") : i \in d.items}
opentofu(d) == terraform(d)
\* A script cannot say that something passed.
scriptSeverity(s) == OneOf(s \in {"critical", "high", "low", "info"}, s, "medium")
script(d) == IF ~d.json \/ d.items = {} THEN Status("config_state", "info", FALSE, "")
             ELSE {[F({}, i.type, scriptSeverity(i.sev), FALSE, i.domain) EXCEPT !.check = i.check] : i \in d.items}

Parse(tool, d) ==
    CASE tool = "trivy" -> trivy(d) [] tool = "nuclei" -> nuclei(d) [] tool = "lynis" -> lynis(d)
      [] tool = "openscap" -> openscap(d) [] tool = "wazuh_agent" -> wazuh_agent(d) [] tool = "suricata" -> suricata(d)
      [] tool = "falco" -> falco(d) [] tool = "clamav" -> clamav(d) [] tool = "osv_scanner" -> osv_scanner(d)
      [] tool = "aide" -> aide(d) [] tool = "nikto" -> nikto(d) [] tool = "ansible" -> ansible(d)
      [] tool = "netbox" -> netbox(d) [] tool = "snipe_it" -> snipe_it(d) [] tool = "freeipa" -> freeipa(d)
      [] tool = "keycloak" -> keycloak(d) [] tool = "wazuh_siem" -> wazuh_siem(d) [] tool = "rundeck" -> rundeck(d)
      [] tool = "jira" -> jira(d) [] tool = "terraform" -> terraform(d)
      [] tool = "opentofu" -> opentofu(d) [] OTHER -> script(d)

----------------------------------------------------------------------------
\* The first rule whose words the finding has gives the check and the domain it lacks.
Rule(check, domain, needs) == [check |-> check, domain |-> domain, needs |-> needs]
delegationRules(tool) ==
    CASE tool = "trivy" -> <<Rule("KS-001", "KS", {"kernel"}), Rule("AS-005", "AS", {})>>
      [] tool = "nuclei" -> <<Rule("AS-006", "AS", {"critical"}), Rule("AS-005", "AS", {})>>
      [] tool = "lynis" -> <<Rule("OT-001", "OT", {"permission"}), Rule("KS-001", "KS", {"kernel"}), Rule("OT-099", "OT", {})>>
      [] tool \in {"openscap", "aide", "ansible", "terraform", "opentofu"} -> <<Rule("OT-001", "OT", {})>>
      [] tool \in {"wazuh_agent", "falco"} -> <<Rule("RS-006", "RS", {})>>
      [] tool = "suricata" -> <<Rule("RS-006", "RS", {"alert"}), Rule("AS-006", "AS", {})>>
      [] tool = "clamav" -> <<Rule("RS-008", "RS", {})>>
      [] tool = "osv_scanner" -> <<Rule("KS-001", "KS", {"CVE"}), Rule("RS-001", "RS", {})>>
      [] tool = "nikto" -> <<Rule("AS-006", "AS", {})>>
      [] tool = "netbox" -> <<Rule("BC-005", "BC", {})>> [] tool = "snipe_it" -> <<Rule("BC-006", "BC", {})>>
      [] tool = "freeipa" -> <<Rule("OT-004", "OT", {"disabled"}), Rule("OT-099", "OT", {})>>
      [] tool = "keycloak" -> <<Rule("OT-004", "OT", {"realms"}), Rule("OT-099", "OT", {})>>
      [] tool = "wazuh_siem" -> <<Rule("RS-007", "RS", {})>>
      [] tool = "rundeck" -> <<Rule("OT-009", "OT", {"executor"}), Rule("OT-099", "OT", {})>>
      [] tool = "jira" -> <<Rule("OT-009", "OT", {})>> [] OTHER -> <<>>
deriveDomain(f) ==
    CASE f.type \in {"misconfiguration", "compliance", "config_state"} -> "OT" [] f.type = "alert" -> "RS" [] OTHER -> "AS"
matchCriteria(f, rule) == rule.needs \subseteq f.says \cup {f.sev}
\* Mutant: a finding with a domain of its own is left without a check.
DelegateEither(f, tool) ==
    IF f.domain # "" \/ delegationRules(tool) = <<>> THEN f
    ELSE LET r == delegationRules(tool)[1] IN [f EXCEPT !.check = r.check, !.domain = r.domain]
ApplyDelegation(f, tool) ==
    LET rules == delegationRules(tool)
        fit == {k \in DOMAIN rules : matchCriteria(f, rules[k])}
        r == IF fit = {} THEN Rule("AUTO", deriveDomain(f), {})
             ELSE rules[CHOOSE k \in fit : \A l \in fit : k <= l]
    IN [f EXCEPT !.check = OneOf(@ = "", r.check, @), !.domain = OneOf(@ = "", r.domain, @)]

DefaultValidate(found) == {f \in found : f.titled /\ f.domain # ""}
ExecuteAdapter(tool, d) == DefaultValidate({ApplyDelegation(f, tool) : f \in Parse(tool, d)})

severityToDelta(f) ==
    IF f.passed THEN 0
    ELSE CASE f.sev = "critical" -> -20 [] f.sev = "high" -> -15 [] f.sev = "medium" -> -10
           [] f.sev = "low" -> -5 [] f.sev = "info" -> -2 [] OTHER -> 0
ToCheckResult(f) == [check |-> f.check, domain |-> f.domain, passed |-> f.passed, delta |-> severityToDelta(f)]

Tools == DOMAIN ToolDocs
\* One tool of a run: its findings are published, unless there are none.
publishAdapterFindings(tool, d) ==
    ran' = [tool |-> tool, doc |-> d, results |-> {ToCheckResult(f) : f \in ExecuteAdapter(tool, d)}]
AdaptersInit == ran = [tool |-> "none", doc |-> Text({}, FALSE), results |-> {}]
\* The runs have nothing in common: a behaviour shows one.
AdaptersNext == ran.tool = "none" /\ \E t \in Tools : \E d \in ToolDocs[t] : publishAdapterFindings(t, d)

----------------------------------------------------------------------------
Costs == \E r \in ran.results : r.delta < 0
CheckPrefix(c) ==
    CASE c \in {"AS-005", "AS-006"} -> "AS" [] c = "KS-001" -> "KS" [] c \in {"RS-001", "RS-006", "RS-007", "RS-008"} -> "RS"
      [] c \in {"BC-005", "BC-006"} -> "BC" [] OTHER -> "OT"

\* A problem that a tool reports costs points, and what it does not object to costs none.  The
\* code makes exceptions of both, and only these: the status of a tool has no severity, a stopped
\* Wazuh still says "running", a failed AIDE or an answer of Wazuh without an error number
\* passes, OSV entries without summary and unscored unknown severities are dropped or free, no
\* infrastructure state is judged; a script's findings all fail, as does a critical device.
ProblemsCost ==
    /\ ran.doc.bad /\ ~Costs =>
        \/ ran.tool \in {"wazuh_agent", "suricata", "falco", "clamav", "keycloak", "jira", "terraform", "opentofu"}
        \/ ran.tool = "aide" /\ ran.doc.words = {}
        \/ ran.tool = "wazuh_siem" /\ ran.doc.items = {}
        \/ ran.tool = "osv_scanner" /\ \E i \in ran.doc.items : ~i.summary
        \/ ran.tool \in {"trivy", "nuclei"} /\ \E i \in ran.doc.items : i.sev = "none"
        \/ ran.tool = "openscap" /\ \E i \in ran.doc.items : ~i.colon
    /\ ~ran.doc.bad /\ Costs =>
        \/ ran.tool \in {"script", "rundeck"}
        \/ ran.tool = "netbox" /\ \E i \in ran.doc.items : i.criticality = "critical"
        \/ ran.tool \in {"ansible", "freeipa"} /\ ran.doc.items = {}
        \/ ran.tool = "snipe_it" /\ ran.doc.items \ {"deployed", "pending", "archived"} # {}

\* A result counts in the domain of its check, except where the adapter names the domain and
\* the delegation the check: Lynis by category, Suricata, OSV (delegation.go against the parsers).
ChecksInTheirDomain ==
    \A r \in ran.results : r.domain # "" /\
        (r.domain = CheckPrefix(r.check) \/ ran.tool \in {"lynis", "suricata", "osv_scanner", "script"})
FindingsSound == ProblemsCost /\ ChecksInTheirDomain
=============================================================================
