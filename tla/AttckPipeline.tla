---------------------------- MODULE AttckPipeline ----------------------------
(***************************************************************************)
(* What the ATT&CK module computes from the results of an assessment       *)
(* (internal/attck: attck.go and attck_assessment.go).                     *)
(*                                                                         *)
(* onAssessmentResult runs in a goroutine of its own for every result and  *)
(* takes the module's lock anew for each part of the analysis, so the      *)
(* catalogue of techniques may change between two parts of one record.     *)
(* Fractions are in thousandths; a check is "pass", "fail" or "absent".    *)
(***************************************************************************)
EXTENDS Integers, FiniteSets, Sequences, SequencesExt, Collections

CONSTANTS
    TacticList,   \* the ids of m.tactics in their order
    KillStages,   \* the stages of AssessKillChain: name -> set of tactics
    TechIDs, MappedChecks,
    Catalogue0,   \* loadDefaultMatrix: <<tactic, technique>> -> [checks, det, prev]
    Mappings,     \* sets of checks UpdateCheckMapping may give
    Matrix,       \* transMatrix: technique -> (technique -> probability)
    GroupProfiles, \* aptGroups: id -> (technique -> weight)
    Mitigated,    \* techniques getMitigationsForTechnique knows
    RuleTechs,    \* techniques that have a detection rule
    FiredByWord,  \* those whose query is a part of the word "failed"
    MaxResults,   \* results of the host the kernel publishes
    MaxHistory,   \* analysisHistory keeps 50 records in the code
    MaxEditsOfCatalogue \* changes of the catalogue in a behaviour

\* The catalogue names checks of the agent and probabilities are fractions.
ASSUME PipelineAssumption ==
    /\ IsFiniteSet(MappedChecks) /\ Mappings \subseteq SUBSET MappedChecks
    /\ IsFiniteSet(DOMAIN Catalogue0) /\ \A k \in DOMAIN Catalogue0 : Catalogue0[k].checks \subseteq MappedChecks
    /\ IsFiniteSet(DOMAIN KillStages) /\ DOMAIN KillStages # {}
    /\ \A t \in DOMAIN Matrix : \A n \in DOMAIN Matrix[t] : Matrix[t][n] \in 0 .. 1000
    /\ MaxHistory \in Nat

VARIABLES
    catalogue,  \* m.tactics
    rulesOn,    \* techniques with an enabled rule
    results,    \* the host's current check results
    runs,       \* analyses in progress: [pc, res, failed, cov, kill, alerts]
    history,    \* analysisHistory of the host
    reports,    \* assessmentReports
    tracks,     \* improvementTracks: the status of the two actions of a track
    published,  \* results published so far
    catalogueEdits \* changes of the catalogue so far

pipelineVars == <<catalogue, rulesOn, results, runs, history, reports, tracks, published, catalogueEdits>>

Place(t) == CHOOSE i \in DOMAIN TacticList : TacticList[i] = t
Largest(S) == CHOOSE m \in S : \A n \in S : n <= m
KeepLast(s, n) == IF Len(s) > n THEN SubSeq(s, Len(s) - n + 1, Len(s)) ELSE s

-----------------------------------------------------------------------------
(* Coverage.  A check the agent did not report does not fail a technique.  *)

failsIn(e, res) == \E c \in e.checks : res[c] = "fail"
entries(cat, t) == {k \in DOMAIN cat : k[1] = t}

extractFailedTechniques(cat, res) == {k[2] : k \in {x \in DOMAIN cat : failsIn(cat[x], res)}}

calculateCoverageLocked(cat, res) ==
    [t \in {k[1] : k \in DOMAIN cat} |->
       LET all == entries(cat, t)
           det == {k \in all : cat[k].det /\ ~failsIn(cat[k], res)}
           prev == {k \in all : cat[k].prev /\ ~failsIn(cat[k], res)}
           total == Cardinality(all)
           comp == (400 * Cardinality(det) + 600 * Cardinality(prev)) \div total
       IN  [det |-> (1000 * Cardinality(det)) \div total, prev |-> (1000 * Cardinality(prev)) \div total,
            comp |-> comp, blind |-> {k[2] : k \in all \ det},
            risk |-> IF comp < 250 THEN "red" ELSE IF comp < 500 THEN "orange"
                     ELSE IF comp < 650 THEN "yellow" ELSE "green"]]

GetCoverageSummary(cov) ==
    [avg |-> IF DOMAIN cov = {} THEN 0
             ELSE Total(DOMAIN cov, LAMBDA t : cov[t].comp) \div Cardinality(DOMAIN cov),
     blind |-> Cardinality({t \in DOMAIN cov : cov[t].risk \in {"red", "orange"}})]

\* Mutant: the failed checks are counted as the passed ones.
stageScoreInverted(cat, res, stage) ==
    LET mine == {k \in DOMAIN cat : k[1] \in KillStages[stage]}
        total == Total(mine, LAMBDA k : Cardinality(cat[k].checks))
        passed == Total(mine, LAMBDA k : Cardinality({c \in cat[k].checks : res[c] = "fail"}))
    IN  IF total = 0 THEN 100 ELSE (100 * passed) \div total

\* A check the agent did not report counts as not passed here; a stage without checks
\* keeps its 100.
stageScore(cat, res, stage) ==
    LET mine == {k \in DOMAIN cat : k[1] \in KillStages[stage]}
        total == Total(mine, LAMBDA k : Cardinality(cat[k].checks))
        passed == Total(mine, LAMBDA k : Cardinality({c \in cat[k].checks : res[c] = "pass"}))
    IN  IF total = 0 THEN 100 ELSE (100 * passed) \div total

assessKillChainLocked(cat, res) ==
    LET score == [s \in DOMAIN KillStages |-> stageScore(cat, res, s)]
        low == {s \in DOMAIN score : score[s] < 100 /\ \A o \in DOMAIN score : score[s] <= score[o]}
    IN  [score |-> score, weakest |-> low,
         status |-> [s \in DOMAIN score |->
                       IF score[s] >= 80 THEN "healthy" ELSE IF score[s] >= 60 THEN "moderate"
                       ELSE IF score[s] >= 40 THEN "vulnerable" ELSE "critical"],
         overall |-> Total(DOMAIN score, LAMBDA s : score[s]) \div Cardinality(DOMAIN score)]

-----------------------------------------------------------------------------
(* GroupProfiles and predictions.                                                 *)

similarity(detected, g) ==
    LET common == DOMAIN GroupProfiles[g] \cap detected
        weight == Total(common, LAMBDA t : GroupProfiles[g][t])
        value == (Cardinality(common) * weight) \div Cardinality(DOMAIN GroupProfiles[g] \cup detected)
    IN  IF value > 1000 THEN 1000 ELSE value

MatchAPTGroup(detected) ==
    {[group |-> g, similarity |-> similarity(detected, g),
      confidence |->
        LET n == Cardinality(DOMAIN GroupProfiles[g] \cap detected)
        IN  IF similarity(detected, g) >= 600 /\ n >= 5 THEN "high"
            ELSE IF similarity(detected, g) >= 400 /\ n >= 3 THEN "medium" ELSE "low"] :
        g \in {x \in DOMAIN GroupProfiles : DOMAIN GroupProfiles[x] \cap detected # {}}}

after(t) == IF t \in DOMAIN Matrix THEN DOMAIN Matrix[t] ELSE {}

\* findPaths with a depth of two or more: the code looks no further than two steps, and
\* keeps the ten likeliest paths.
findPaths(t) ==
    LET one == {[end |-> n, risk |-> Matrix[t][n]] : n \in after(t)}
        two == UNION {{[end |-> m, risk |-> (Matrix[t][n] * Matrix[n][m]) \div 1000] : m \in after(n)} :
                          n \in after(t)}
        all == one \cup two
    IN  {p \in all : Cardinality({o \in all : o.risk > p.risk}) < 10}

PredictRisk(failed) ==
    LET paths == UNION {findPaths(t) : t \in failed}
        risk == Largest({0} \cup {p.risk : p \in paths})
        enhanced == 1000 - risk \div 4
    IN  [paths |-> paths, risk |-> risk, enhanced |-> IF enhanced < 750 THEN 750 ELSE enhanced]

generateRecommendations(cat, paths) ==
    {k \in DOMAIN cat : cat[k].checks # {} /\ \E p \in paths : p.end = k[2] /\ p.risk > 300}

-----------------------------------------------------------------------------
(* Gap analysis.                                                           *)

has(cat, k) == [check |-> cat[k].checks # {}, rule |-> k[2] \in rulesOn, mitigation |-> k[2] \in Mitigated]

controlScore(h) ==
    (IF h.check THEN 40 ELSE 0) + (IF h.rule THEN 35 ELSE 0) + (IF h.mitigation THEN 25 ELSE 0)

gapType(h) ==
    IF ~h.check /\ ~h.rule /\ ~h.mitigation THEN "no_coverage"
    ELSE IF ~h.rule THEN "detection_gap" ELSE IF ~h.check THEN "control_gap"
    ELSE IF ~h.mitigation THEN "mitigation_gap" ELSE "coverage_gap"

\* The mapping of the first tactic that holds the technique.
first(cat, t) == CHOOSE k \in DOMAIN cat : k[2] = t /\ \A o \in DOMAIN cat : o[2] = t => Place(k[1]) <= Place(o[1])
GetControlMapping(cat, t) == controlScore(has(cat, first(cat, t)))

gapReport(cat) ==
    LET maps == [k \in DOMAIN cat |-> controlScore(has(cat, k))]
        covered(S) == Cardinality({k \in S : maps[k] > 0})
    IN  [gaps |-> [k \in {x \in DOMAIN cat : maps[x] < 75} |-> gapType(has(cat, k))],
         rate |-> IF DOMAIN cat = {} THEN 0 ELSE (1000 * covered(DOMAIN cat)) \div Cardinality(DOMAIN cat),
         score |-> IF DOMAIN cat = {} THEN 0
                   ELSE Total(DOMAIN cat, LAMBDA k : maps[k]) \div Cardinality(DOMAIN cat),
         weak |-> {t \in {k[1] : k \in DOMAIN cat} :
                     10 * covered(entries(cat, t)) < 3 * Cardinality(entries(cat, t))}]

\* The categories of advice, the most urgent first.
generateAssessmentRecommendations(r) ==
    (IF \E k \in DOMAIN r.gaps : r.gaps[k] = "no_coverage" THEN <<"no_coverage">> ELSE <<>>)
    \o (IF \E k \in DOMAIN r.gaps : r.gaps[k] = "detection_gap" THEN <<"detection_gap">> ELSE <<>>)
    \o (IF r.rate < 500 THEN <<"overall_coverage">> ELSE <<>>)
    \o [i \in 1 .. Cardinality(r.weak) |-> "tactic_coverage"]

findDetectionGaps(cat) == {k \in DOMAIN cat : cat[k].checks # {} /\ k[2] \notin rulesOn}

PerformGapAnalysis(cat) ==
    LET r == gapReport(cat)
    IN  reports' = KeepLast(Append(reports, [body |-> r, advice |-> generateAssessmentRecommendations(r)]),
                            MaxHistory)

-----------------------------------------------------------------------------
PipelineInit ==
    /\ catalogue = Catalogue0
    /\ rulesOn = RuleTechs
    /\ results \in [MappedChecks -> {"fail", "absent"}]
    /\ runs = {} /\ history = <<>> /\ reports = <<>>
    /\ tracks = <<>>
    /\ published = 0 /\ catalogueEdits = 0

\* An assessment of the host ends with these results; the bus starts a goroutine.
PublishResult(res) ==
    /\ published < MaxResults
    /\ published' = published + 1
    /\ results' = res
    /\ runs' = runs \cup {[pc |-> "extract", id |-> published, res |-> res, failed |-> {}, cov |-> <<>>,
                           kill |-> <<>>, alerts |-> {}, changed |-> FALSE]}
    /\ UNCHANGED <<catalogue, rulesOn, history, reports, tracks, catalogueEdits>>

Become(r, new) == runs' = (runs \ {r}) \cup {new}

\* onAssessmentResult, the part before the first call that locks.
RunExtract(r) ==
    /\ r.pc = "extract"
    /\ Become(r, [r EXCEPT !.pc = "coverage", !.failed = extractFailedTechniques(catalogue, r.res)])
    /\ UNCHANGED <<catalogue, rulesOn, results, history, reports, tracks, published, catalogueEdits>>

RunCoverage(r) ==
    /\ r.pc = "coverage"
    /\ Become(r, [r EXCEPT !.pc = "killchain", !.cov = calculateCoverageLocked(catalogue, r.res)])
    /\ UNCHANGED <<catalogue, rulesOn, results, history, reports, tracks, published, catalogueEdits>>

RunKillChain(r) ==
    /\ r.pc = "killchain"
    /\ Become(r, [r EXCEPT !.pc = "alerts", !.kill = assessKillChainLocked(catalogue, r.res)])
    /\ UNCHANGED <<catalogue, rulesOn, results, history, reports, tracks, published, catalogueEdits>>

\* Weak are the tactics whose detection coverage, a fraction, is below 50: every one.
\* Their ids are handed to MatchAPTGroup, which expects techniques.
weakTactics(cov) == {t \in DOMAIN cov : cov[t].det < 50 * 1000}

\* The failed techniques are looked for once more.  matchRule sees a field per failed check,
\* and each says "failed".
triggerAlertsForFailedChecks(r) ==
    /\ r.pc = "alerts"
    /\ Become(r, [r EXCEPT !.pc = "gap",
           !.alerts = IF r.failed = {} THEN {}
                      ELSE extractFailedTechniques(catalogue, r.res) \cap rulesOn \cap FiredByWord])
    /\ UNCHANGED <<catalogue, rulesOn, results, history, reports, tracks, published, catalogueEdits>>

RunGap(r) ==
    /\ r.pc = "gap"
    /\ Become(r, [r EXCEPT !.pc = "store"])
    /\ IF r.failed # {} THEN PerformGapAnalysis(catalogue) ELSE UNCHANGED reports
    /\ UNCHANGED <<catalogue, rulesOn, results, history, tracks, published, catalogueEdits>>

\* storeAnalysisRecord, with the matches and the prediction of the record.
storeAnalysisRecord(r) ==
    /\ r.pc = "store"
    /\ runs' = runs \ {r}
    /\ history' = KeepLast(Append(history,
           [id |-> r.id, res |-> r.res, failed |-> r.failed, cov |-> r.cov, kill |-> r.kill,
            alerts |-> r.alerts, changed |-> r.changed, matches |-> MatchAPTGroup(weakTactics(r.cov)),
            predicted |-> IF r.failed = {} THEN {} ELSE {PredictRisk(r.failed)},
            advice |-> generateRecommendations(catalogue, PredictRisk(r.failed).paths)]), MaxHistory)
    /\ UNCHANGED <<catalogue, rulesOn, results, reports, tracks, published, catalogueEdits>>

Change ==
    /\ catalogueEdits < MaxEditsOfCatalogue
    /\ catalogueEdits' = catalogueEdits + 1

\* Mark the analyses that were under way when the catalogue changed.
Disturbed == runs' = {[r EXCEPT !.changed = TRUE] : r \in runs}

AddTechniqueToTactic(t, x, cs) ==
    /\ <<t, x>> \notin DOMAIN catalogue
    /\ Change
    /\ catalogue' = [k \in DOMAIN catalogue \cup {<<t, x>>} |->
                       IF k = <<t, x>> THEN [checks |-> cs, det |-> FALSE, prev |-> FALSE] ELSE catalogue[k]]
    /\ Disturbed
    /\ UNCHANGED <<rulesOn, results, history, reports, tracks, published>>

\* Only the technique's first tactic is changed.
UpdateCheckMapping(x, cs) ==
    /\ Change
    /\ catalogue' = [catalogue EXCEPT ![first(catalogue, x)] =
           [checks |-> cs, det |-> @.det \/ cs # {}, prev |-> @.prev \/ cs # {}]]
    /\ Disturbed
    /\ UNCHANGED <<rulesOn, results, history, reports, tracks, published>>

\* RegisterDetectionRule and DeleteDetectionRule, as the gap analysis sees them.
ToggleRule(t) ==
    /\ Change
    /\ rulesOn' = IF t \in rulesOn THEN rulesOn \ {t} ELSE rulesOn \cup {t}
    /\ UNCHANGED <<catalogue, results, runs, history, reports, tracks, published>>

\* Creating a track again replaces it.
CreateImprovementTrack ==
    /\ Change
    /\ tracks' = <<"open", "open">>
    /\ UNCHANGED <<catalogue, rulesOn, results, runs, history, reports, published>>

UpdateImprovementAction(i, status) ==
    /\ tracks # <<>>
    /\ Change
    /\ tracks' = [tracks EXCEPT ![i] = status]
    /\ UNCHANGED <<catalogue, rulesOn, results, runs, history, reports, published>>

CalculateImprovementProgress ==
    IF tracks = <<>> THEN 0
    ELSE (1000 * Len(Where(tracks, LAMBDA s : s = "completed"))) \div Len(tracks)

\* The host fixes a failed check, or the agent starts to report an absent one as passed.
Fixes(old, new) == \E c \in MappedChecks : old[c] # "pass" /\ new = [old EXCEPT ![c] = "pass"]

PipelineNext ==
    \/ \E res \in [MappedChecks -> {"pass", "fail", "absent"}] :
          (res = results \/ Fixes(results, res)) /\ PublishResult(res)
    \/ \E r \in runs : RunExtract(r) \/ RunCoverage(r) \/ RunKillChain(r)
                      \/ triggerAlertsForFailedChecks(r) \/ RunGap(r) \/ storeAnalysisRecord(r)
    \/ \E t \in ToSet(TacticList), x \in TechIDs, cs \in Mappings : AddTechniqueToTactic(t, x, cs)
    \/ \E x \in {k[2] : k \in DOMAIN catalogue}, cs \in Mappings : UpdateCheckMapping(x, cs)
    \/ \E t \in TechIDs : ToggleRule(t)
    \/ CreateImprovementTrack
    \/ \E i \in {1, 2}, s \in {"open", "completed"} : UpdateImprovementAction(i, s)

PipelineSpec == PipelineInit /\ [][PipelineNext]_pipelineVars

-----------------------------------------------------------------------------
(* Properties.                                                             *)

\* A record does not contradict itself although its parts were computed under different
\* holds of the lock: unless the catalogue changed meanwhile, a technique that failed is a
\* blind spot of some tactic, alerts are of failed techniques, the prediction starts from the failed techniques, and the
\* stages that can name a weakest one are those below 100.  A report of the gap analysis
\* asks for what its gaps lack, the most urgent first.
RecordsConsistent ==
    /\ \A i \in DOMAIN history :
         LET r == history[i]
         IN /\ ~r.changed => r.failed \subseteq UNION {r.cov[t].blind : t \in DOMAIN r.cov}
            /\ ~r.changed => r.alerts \subseteq r.failed
            /\ r.kill.overall = 100 <=> r.kill.weakest = {}
            /\ r.predicted = {} <=> r.failed = {}
            /\ \A p \in r.predicted : p.enhanced \in 750 .. 1000
    /\ \A i \in DOMAIN reports :
         LET g == reports[i].body
         IN  /\ reports[i].advice = <<>> => \A k \in DOMAIN g.gaps : g.gaps[k] \notin {"no_coverage", "detection_gap"}
             /\ \A k \in DOMAIN g.gaps :
                   g.gaps[k] = "no_coverage" => reports[i].advice[1] = "no_coverage"

\* Fixing a check never makes the host look worse: no technique fails anew, no tactic's
\* coverage and no stage of the kill chain falls, and the predicted risk does not grow.
\* A detection rule more never lowers the score of the gap analysis.
FixingHelps ==
    [][/\ catalogue' = catalogue /\ Fixes(results, results') =>
              LET old == results
                  new == results'
                  covOld == calculateCoverageLocked(catalogue, old)
                  covNew == calculateCoverageLocked(catalogue, new)
              IN  /\ extractFailedTechniques(catalogue, new) \subseteq extractFailedTechniques(catalogue, old)
                  /\ \A t \in DOMAIN covOld : covOld[t].comp <= covNew[t].comp
                                              /\ covNew[t].blind \subseteq covOld[t].blind
                  /\ GetCoverageSummary(covNew).blind <= GetCoverageSummary(covOld).blind
                  /\ \A s \in DOMAIN KillStages :
                        stageScore(catalogue, old, s) <= stageScore(catalogue, new, s)
                  /\ PredictRisk(extractFailedTechniques(catalogue, new)).risk
                        <= PredictRisk(extractFailedTechniques(catalogue, old)).risk
       /\ catalogue' = catalogue /\ rulesOn \subseteq rulesOn' =>
            /\ gapReport(catalogue).score <= gapReport(catalogue)'.score
            /\ findDetectionGaps(catalogue)' \subseteq findDetectionGaps(catalogue)]_pipelineVars

=============================================================================
