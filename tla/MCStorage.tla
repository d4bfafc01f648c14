----------------------------- MODULE MCStorage -----------------------------
(***************************************************************************)
(* What the kernel keeps beside its agents, one part per behaviour: the    *)
(* files of the secure mode, where two vaults exercise the loops and two   *)
(* passwords a rotation and its rollback; two edits of its config at the   *)
(* same time; the records of the persistence   *)
(* module, of which a behaviour shows the lines and their faults, the      *)
(* copies of them, or the report of the moment; the sources of findings    *)
(* and what their tools say, or an assessment makes of it; the breaker     *)
(* before the services, where two requests need two records, the one in    *)
(* the map and one that a request still refers to.                         *)
(***************************************************************************)
EXTENDS SecureModeController, Persistence, SourceManager, LocalAssessment, InterceptorBreaker, TLC

VARIABLE part

\* The only edit of the part that shows the transitions.
FirstKey == CHOOSE k \in Keys : TRUE

\* Neither passwords nor the requests to run a source differ.
StorageSymmetry == Permutations(Passwords) \cup Permutations(Runners)

\* A small report, a larger one.
MCSizeOf == [small |-> 1, large |-> 2]

\* One source of a registered adapter, another that depends on it.
MCDependsOn == [a |-> {}, b |-> {"a"}]

\* What the tools may say: every kind of item, alone and together with others.
MCToolDocs ==
  [trivy |-> {Json(s, s # {}) : s \in SUBSET ([kind : {"vuln"}, sev : {"critical", "none"}, score : {0, 7}, says : {{}, {"kernel"}}]
                \cup [kind : {"misconfig"}, sev : {"medium"}])},
   nuclei |-> {Json(s, s # {}) : s \in SUBSET [sev : {"critical", "info", "none"}]},
   lynis |-> {Json({i}, i.result \in {"WARNING", "NOT_FOUND", "VULNERABLE", "HARDENING", "SUGGESTION", "UNKNOWN"}) :
                i \in [result : {"OK", "WARNING", "NOT_FOUND", "VULNERABLE", "HARDENING", "SUGGESTION", "UNKNOWN"},
                       category : {"FIRE", "KRNL", "BOOT", "MALW", "AUTH"}, says : {{}, {"kernel"}, {"permission"}}]},
   openscap |-> {Json(s, \E i \in s : i.word = "fail") : s \in SUBSET [word : {"pass", "fail", "notchecked"}, colon : BOOLEAN]},
   wazuh_agent |-> {Text({"running"}, FALSE), Text({"not", "running"}, TRUE), Text({}, TRUE)},
   suricata |-> {Doc(TRUE, w, s, s # {} \/ w = {}) : w \in {{}, {"Suricata"}}, s \in SUBSET [level : {1, 2, 3, 4}, says : {{}, {"alert"}}]},
   falco |-> {Doc(TRUE, w, s, s # {} \/ w = {}) : w \in {{}, {"Falco"}},
                s \in SUBSET [log : BOOLEAN, priority : {"ALERT", "ERROR", "WARNING", "DEBUG"}]},
   clamav |-> {Doc(TRUE, w, s, s # {} \/ w = {}) : w \in {{}, {"ClamAV"}}, s \in {{}, {"FOUND"}, {"scan error"}}},
   osv_scanner |-> {Text({"id"}, TRUE), Text({}, FALSE)} \cup
        {Json(s, s # {}) : s \in SUBSET [cve : BOOLEAN, sev : {"high", "medium"}, summary : BOOLEAN]},
   aide |-> {Text({"changed"}, TRUE), Text({"added"}, TRUE), Text({"okay"}, FALSE), Text({}, TRUE)},
   nikto |-> {Text({"interesting"}, TRUE), Text({"done"}, FALSE)},
   ansible |-> {Json({}, FALSE), Json({"h1"}, FALSE)},
   netbox |-> {Json(s, s = {} \/ \E i \in s : ~i.active) : s \in SUBSET [criticality : {"critical", "low", "normal"}, active : BOOLEAN]},
   snipe_it |-> {Json(s, "broken" \in s \/ s = {}) : s \in SUBSET {"deployed", "broken", "ready to deploy", "deployable"}},
   freeipa |-> {Json(s, "disabled" \in s) : s \in SUBSET {"disabled", "active"}},
   keycloak |-> {Text({}, TRUE), Json({}, FALSE), Json({"enabled"}, FALSE), Json({"disabled", "enabled"}, TRUE)},
   wazuh_siem |-> {Text({}, TRUE), Json({"error"}, TRUE), Json({"token"}, FALSE), Json({}, TRUE)},
   rundeck |-> {Text({}, TRUE), Json({"active"}, FALSE), Json({}, FALSE)},
   jira |-> {Text({}, TRUE), Json({"active"}, FALSE), Json({}, TRUE)},
   terraform |-> {Text({"version"}, FALSE), Json({}, FALSE), Json({"drifted"}, TRUE)},
   opentofu |-> {Text({"version"}, FALSE), Json({}, FALSE)},
   script |-> {Text({}, FALSE), Json({}, FALSE)} \cup
        {Json({i}, TRUE) : i \in [type : {"alert", "compliance", "vulnerability"}, sev : {"high", "info", "unheard of"},
                                 domain : {"", "BC"}, check : {"", "BC-001"}]}]

\* An assessment: a tool with two rules, a script that speaks of a check, two configurations.
MCLocalChecks == ("AS-006" :> "AS") @@ ("AC-004" :> "RS")
MCToolAnswers ==
    [nuclei |-> {Json({[sev |-> "critical"], [sev |-> "info"]}, TRUE), Json({}, FALSE)},
     script |-> {Json({[type |-> "alert", sev |-> "high", domain |-> "AS", check |-> "AS-006"]}, TRUE)}]
MCConf == [enabled |-> TRUE, byId |-> "ADAPTER" :> 1, bySource |-> "nuclei" :> 70, byDomain |-> "RS" :> 120,
           default |-> 90, floor |-> 10]
MCLocalConfigs ==
    {[words |-> [nuclei |-> "on", script |-> "yes"], deltas |-> "AS-006" :> -3, conf |-> MCConf],
     [words |-> [nuclei |-> "yes", script |-> "off"], deltas |-> <<>>, conf |-> [MCConf EXCEPT !.enabled = FALSE]]}
MCAgentReports ==
    {<<>>, <<Result("AS-006", "AS", TRUE, 0, "builtin", 30), Result("AC-004", "RS", FALSE, -8, "builtin", 0)>>}
MCTechniqueOf == [T1 |-> {"AS-006", "AC-004"}]

StorageInit ==
    /\ part \in {"securemode", "edits", "lines", "copies", "report", "sources", "tools", "requests", "assessment"}
    /\ Init /\ PersistInit /\ SourcesInit /\ AdaptersInit /\ InterceptorInit /\ LocalInit
    /\ part # "assessment" => "AS-006" \in DOMAIN localConfig.deltas
Alone(p, step) == part = p /\ step /\ UNCHANGED part
StorageNext ==
    \/ Alone("securemode", Next) /\ \A k \in Keys \ {FirstKey} : edit'[k] = NoFile
          /\ UNCHANGED <<persistVars, srcVars, ran, interceptorVars, localVars>>
    \/ Alone("edits", Next) /\ faults' = faults
          /\ UNCHANGED <<newPw, secrets, persistVars, srcVars, ran, interceptorVars, localVars>>
    \/ Alone("lines", PersistNext)
          /\ UNCHANGED <<vars, srcVars, ran, interceptorVars, localVars, snapshotsKept, archives, reportVars>>
    \/ Alone("copies", PersistNext)
          /\ UNCHANGED <<vars, srcVars, ran, interceptorVars, localVars, diskFaults, crashes, handler, reportVars>>
    \/ Alone("report", PersistNext)
          /\ UNCHANGED <<vars, srcVars, ran, interceptorVars, localVars, day, snapshotsKept, archives, diskFaults>>
    \/ Alone("sources", SourcesNext)
          /\ UNCHANGED <<vars, persistVars, ran, interceptorVars, localVars>>
    \/ Alone("tools", AdaptersNext)
          /\ UNCHANGED <<vars, persistVars, srcVars, interceptorVars, localVars>>
    \/ Alone("requests", InterceptorNext)
          /\ UNCHANGED <<vars, persistVars, srcVars, ran, localVars>>
    \/ Alone("assessment", LocalNext)
          /\ UNCHANGED <<vars, persistVars, srcVars, ran, interceptorVars>>
StorageSpec == StorageInit /\ [][StorageNext]_<<part, vars, persistVars, srcVars, ran, interceptorVars, localVars>>

\* The sources agree with their switches, what their tools report counts, and an assessment
\* loses none of it.
SourcesSound == SourcesSettled /\ FindingsSound /\ LocalSound
=============================================================================
