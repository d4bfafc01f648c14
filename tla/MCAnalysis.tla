------------------------------ MODULE MCAnalysis ------------------------------
(***************************************************************************)
(* The analysis side of the system on small instances: each behaviour is   *)
(* one of the parts, chosen initially, which steps alone.                  *)
(***************************************************************************)
EXTENDS HostChecks, CheckRun, AttckEvidence, AttckPipeline, Scoring, SrdScan, CtiFeeds

VARIABLE part

Parts == {"checks", "run", "evidence", "pipeline", "scoring", "scan", "feeds"}

\* The agent's checks.
MCCheckIDs == DOMAIN All
MCUser == <<"u1">>
MCLists == {<<>>, <<"u1", "s1">>}

\* The ATT&CK module: three techniques, two groups, one causal rule.
MCRules == [c2 |-> [tech |-> "T1071", tactic |-> 11], exfil |-> [tech |-> "T1041", tactic |-> 12]]
MCTacticOf == [T1071 |-> 11, T1041 |-> 99, T1078 |-> 2]
MCTransitions == [T1071 |-> [T1041 |-> 300, T1071 |-> 200]]
MCCausal == {[cause |-> "T1071", effect |-> "T1041", strength |-> 700]}
MCGroups == [G1 |-> [techs |-> [T1071 |-> 800, T1078 |-> 500], sector |-> "financial"],
             G2 |-> [techs |-> [T1041 |-> 1000], sector |-> "retail"]]
MCTactics == <<"TA1", "TA2", "TA3">>
Entry(cs) == [checks |-> cs, det |-> TRUE, prev |-> cs # {}]
MCCatalogue == (<<"TA1", "T1">> :> Entry({"c1"})) @@ (<<"TA2", "T1">> :> Entry({"c1", "c2"}))
               @@ (<<"TA2", "T2">> :> Entry({}))
MCStages == [delivery |-> {"TA1"}, breach |-> {"TA2", "TA3"}]
MCMappings == {{}, {"c2"}}
MCMatrix == [T1 |-> [T2 |-> 800, T3 |-> 200], T2 |-> [T3 |-> 500]]
MCProfiles == [G1 |-> [T1 |-> 600, T2 |-> 500]]

\* Scoring: four checks in three domains, the factors that cascade among them.
MCCheckOf ==
    ("EF-001" :> [domain |-> "trust", delta |-> -8])
    @@ ("EF-002" :> [domain |-> "trust", delta |-> -12])
    @@ ("RS-005" :> [domain |-> "resilience", delta |-> -30])
    @@ ("KS-001" :> [domain |-> "kernel", delta |-> 0])
MCWeightOf == [trust |-> 25, resilience |-> 15, kernel |-> 5]
MCBuiltin == ("EF-002FA" :> 85) @@ ("EF-SYNCOOKIE" :> 75)
MCCustom == "EF-X" :> [factor |-> 90, trigger |-> "KS-001"]
MCTrigger == ("EF-002FA" :> "EF-001") @@ ("EF-SYNCOOKIE" :> "RS-005")
Believing == [enabled |-> FALSE, default |-> 10, floor |-> 1, beta |-> FALSE, prior |-> 2]
Doubting == [enabled |-> TRUE, default |-> 7, floor |-> 2, beta |-> FALSE, prior |-> 0]
Bayesian == [enabled |-> TRUE, default |-> 0, floor |-> 0, beta |-> TRUE, prior |-> 0]
None == [x \in {} |-> 0]
Section(m, lam, vec, cou, tr) ==
    [model |-> m, floor |-> 40, lambda |-> lam, vectors |-> vec, coupling |-> cou, window |-> 0,
     triggers |-> tr]
Lam == [trust |-> 100, resilience |-> 150]
Vec == "EF-002FA" :> [trust |-> 70, resilience |-> 20, kernel |-> 0]
Cou == <<"EF-SYNCOOKIE", "EF-002FA">> :> 2
Off == Section("", None, None, None, None)
\* The last three are refused: a factor coupled to itself, no timestamps, no domain.
Sections ==
    {Off, Section("legacy", None, None, None, "EF-SYNCOOKIE" :> "KS-001"),
     Section("vector", Lam, Vec, None, "EF-3FA" :> "RS-005"), Section("graph", Lam, Vec, Cou, None),
     Section("graph", Lam, Vec, <<"EF-X", "EF-X">> :> 1, None),
     Section("chain", Lam, Vec, Cou, None), Section("vector", None, Vec, None, None)}
Sure == [c \in DOMAIN MCCheckOf |-> 10]
Mixed == [c \in DOMAIN MCCheckOf |-> IF c = "EF-001" THEN 3 ELSE 8]
Order1 == <<"EF-001", "EF-002", "RS-005", "KS-001">>
ReversedOrder == <<"KS-001", "EF-002", "EF-001", "RS-005">>
Scenario(p, m, c, o, k) ==
    [policy |-> p, model |-> m, conf |-> c, order |-> o, coeff |-> k, threshold |-> 80]
MCScenarios ==
    {Scenario(p, Off, c, Order1, <<0, 40>>) : p \in {Believing, Doubting, Bayesian}, c \in {Sure, Mixed}}
    \cup {Scenario(Doubting, m, Mixed, ReversedOrder, <<100, 100>>) : m \in Sections}
MCExpNeg(x) == 10000 \div (100 + x)
MCPow(d) == d * d
MCNeighbours == [h2 |-> 0]

\* External reports: one document of each shape the adapters tell apart.
Test(id, w) == [id |-> id, words |-> w, count |-> -1, short |-> FALSE]
Doc(shape, tool, named, host, items) ==
    [shape |-> shape, tool |-> tool, named |-> named, host |-> host, items |-> items, index |-> 0, share |-> 50]
Finding(id, r, sev, c) == [id |-> id, result |-> r, severity |-> sev, conf |-> c]
MCDocuments ==
    [lynisjson |-> Doc("object", "lynis", {"lynis", "json"}, "h1",
                       <<Test("A", {"warning", "hardening"}), Test("B", {"found", "not found", "ok"}),
                         Test("C", {"hardening"}), [Test("D", {}) EXCEPT !.count = 2], Test("E", {"note"}),
                         Test("F", {"skipped"})>>),
     lynisdat |-> [Doc("lines", "lynis", {"lynis"}, "h1", <<Test("A", {"warning"}), Test("B", {"suggestion"})>>)
                     EXCEPT !.index = 100],
     oldindex |-> Doc("lines", "lynis", {"lynis"}, "h2", <<Test("A", {"ok"})>>),
     shortkey |-> Doc("lines", "lynis", {"lynis"}, "h2", <<[Test("A", {"warning"}) EXCEPT !.short = TRUE]>>),
     trivy |-> Doc("object", "generic", {"json"}, "h1",
                   <<Finding("V", "fail", "critical", 0), Finding("W", "error", "odd", 5), Finding("X", "ok", "low", 0)>>),
     trivylynis |-> Doc("object", "generic", {"json", "lynis"}, "", <<Finding("V", "fail", "high", 0)>>),
     findings |-> Doc("array", "generic", {"json"}, "", <<Finding("V", "warning", "medium", 8), Finding("Y", "pass", "info", 0)>>),
     wrapped |-> Doc("wrapped", "generic", {"json"}, "", <<Finding("V", "fail", "low", 0)>>),
     atomic |-> Doc("array", "atomic", {"json", "atomic"}, "h2",
                    <<[id |-> "T1", status |-> "succeeded", detected |-> FALSE],
                      [id |-> "T2", status |-> "completed", detected |-> TRUE],
                      [id |-> "T3", status |-> "failed", detected |-> FALSE], [id |-> "T4", status |-> "", detected |-> FALSE]>>),
     xccdf |-> Doc("xml", "openscap", {"oscap"}, "h1", <<>>)]

\* The feeds: a strong pulse, a weak one, an event whose first meaning decides.
MCPulses == [p1 |-> [tags |-> {"apt"}, indicators |-> 12], p2 |-> [tags |-> {"rat"}, indicators |-> 0]]
MCEvents == [e1 |-> <<"x", "tlp:amber", "apt">>]

----------------------------------------------------------------------------
\* The parts that do not take part rest in one state of theirs.
ChecksInit == IF part = "checks" THEN CheckInit
              ELSE check = "AS001" /\ evidence = [services |-> "unknown"]
ScoreInit == IF part = "scoring" THEN ScoringInit
             ELSE /\ outcome = [c \in Checks |-> "absent"] /\ conf = <<>> /\ order = <<>> /\ policy = <<>> /\ model = <<>>
                  /\ coeff = <<>> /\ threshold = 0 /\ days = <<>> /\ upstream = <<>> /\ changes = 0
                  /\ domainScores = <<>> /\ edgeFactors = <<>> /\ finalScore = 0
                  /\ legacyScore = 0 /\ prismScore = <<>>
AnalysisInit ==
    /\ part \in Parts
    /\ ChecksInit /\ CheckRunInit /\ EvidenceInit /\ PipelineInit
    /\ part # "pipeline" => \A c \in MappedChecks : results[c] = "absent"
    /\ part # "run" => ~privileged
    /\ ScoreInit /\ SrdInit /\ CtiInit

Alone(p, step) == part = p /\ step /\ UNCHANGED part
AnalysisNext ==
    \/ Alone("checks", CheckNext) /\ UNCHANGED <<checkRunVars, evidenceVars, pipelineVars, scoreVars, srdVars, ctiVars>>
    \/ Alone("run", CheckRunNext) /\ UNCHANGED <<checkVars, evidenceVars, pipelineVars, scoreVars, srdVars, ctiVars>>
    \/ Alone("evidence", EvidenceNext) /\ UNCHANGED <<checkVars, checkRunVars, pipelineVars, scoreVars, srdVars, ctiVars>>
    \/ Alone("pipeline", PipelineNext) /\ UNCHANGED <<checkVars, checkRunVars, evidenceVars, scoreVars, srdVars, ctiVars>>
    \/ Alone("scoring", ScoringNext) /\ UNCHANGED <<checkVars, checkRunVars, evidenceVars, pipelineVars, srdVars, ctiVars>>
    \/ Alone("scan", SrdNext) /\ UNCHANGED <<checkVars, checkRunVars, evidenceVars, pipelineVars, scoreVars, ctiVars>>
    \/ Alone("feeds", CtiNext) /\ UNCHANGED <<checkVars, checkRunVars, evidenceVars, pipelineVars, scoreVars, srdVars>>
analysisVars == <<part, checkVars, checkRunVars, evidenceVars, pipelineVars, scoreVars, srdVars, ctiVars>>
AnalysisSpec == AnalysisInit /\ [][AnalysisNext]_analysisVars

\* What the analysis keeps of its evidence: attack chains that say what was seen, records that
\* agree with each other, and threats of the feeds that count once each and are not missed.
EvidenceSound == ChainsSound /\ RecordsConsistent /\ CtiSound
===============================================================================
