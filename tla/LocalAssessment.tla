--------------------------- MODULE LocalAssessment ---------------------------
(***************************************************************************)
(* An assessment by the engine (internal/engine/assessor.go): Assess runs  *)
(* the tools and then the checks they did not take over, AssessFromResults *)
(* starts from what an agent reported and keeps its answer for a while.    *)
(* Both judge what was collected: confidences, deltas, techniques.         *)
(*                                                                         *)
(* Tools and checks end in any order; the configuration may be reloaded    *)
(* meanwhile.  The score itself is Scoring's.  Confidences are in percent. *)
(***************************************************************************)
EXTENDS Adapters

CONSTANTS
    LocalChecks,   \* [check -> domain]: the registered checks
    Dormant,       \* checks whose activator declines
    ToolAnswers,   \* [tool -> what it may say], DOMAIN of it the registered adapters
    LocalConfigs,  \* [words: tool -> its switch, deltas: check -> delta, conf: the rule table]
    AgentReports,  \* sequences of results
    TechniqueOf,   \* [technique -> its checks]
    CacheMinutes, MaxMinutes, MaxAssessments

\* What the configuration lets through (config/ranges.go; a delta of 0 is as none), what an
\* agent reports, and that no adapter and no check has the name of a marker.
ConfidenceRules(conf) ==
    /\ \A c \in DOMAIN conf.byId : conf.byId[c] \in Int
    /\ \A s \in DOMAIN conf.bySource : conf.bySource[s] \in Int
    /\ \A d \in DOMAIN conf.byDomain : conf.byDomain[d] \in Int
    /\ conf.default \in Int /\ conf.floor \in Int
ASSUME LocalAssumption ==
    /\ "builtin" \notin DOMAIN ToolAnswers /\ DOMAIN LocalChecks \cap {"ADAPTER", "OT-099-T"} = {}
    /\ \A t \in DOMAIN ToolAnswers : \A d \in ToolAnswers[t] : IsFiniteSet(ExecuteAdapter(t, d))
    /\ \A cfg \in LocalConfigs : /\ \A c \in DOMAIN cfg.deltas : cfg.deltas[c] \in Int /\ cfg.deltas[c] < 0
                                 /\ ConfidenceRules(cfg.conf)
    /\ \A report \in AgentReports :
          /\ report \in Seq(Range(report))
          /\ \A r \in Range(report) : /\ DOMAIN r = {"check", "domain", "passed", "delta", "source", "conf"}
                                      /\ r.delta \in Int /\ r.conf \in 0..100

VARIABLES
    localConfig,
    assessing,    \* the assessment in progress, or [pc |-> "idle"]
    assessed,     \* the answer, until the next assessment begins, or NoAnswer
    answersKept,  \* resultsCache: [report -> its answer], a function on some reports
    spcAsset,     \* what the checks told the SPC module of the host
    minute, assessments
localVars == <<localConfig, assessing, assessed, answersKept, spcAsset, minute, assessments>>

Result(c, dom, passed, delta, src, conf) ==
    [check |-> c, domain |-> dom, passed |-> passed, delta |-> delta, source |-> src, conf |-> conf]
toolResult(f, tool) ==
    LET r == ToCheckResult(f) IN Result(r.check, r.domain, r.passed, r.delta, tool, 0)

----------------------------------------------------------------------------
\* The tools.  "yes" switches a tool on, but a configuration must say "on" once for any to run.
IsEnabled(word) == word \in {"on", "yes"}
runAdapterPipeline(cfg) ==
    IF \E t \in DOMAIN cfg.words : cfg.words[t] = "on"
    THEN {t \in DOMAIN cfg.words \cap DOMAIN ToolAnswers : IsEnabled(cfg.words[t])} ELSE {}

\* One finding that a rule of its tool gave a check takes over the checks of all its rules.
ruledBy(tool) == {r.check : r \in Range(delegationRules(tool))}
buildDelegatedSet(said) ==
    UNION {ruledBy(t) : t \in {u \in DOMAIN said : \E f \in said[u] : f.check \in ruledBy(u) \cup {"OT-099-T"}}}

\* Confidence: the most specific rule, no less than the floor; what has one keeps it.
resolveRaw(conf, r) ==
    IF r.check \in DOMAIN conf.byId THEN conf.byId[r.check]
    ELSE IF r.source \in DOMAIN conf.bySource THEN conf.bySource[r.source]
    ELSE IF r.domain \in DOMAIN conf.byDomain THEN conf.byDomain[r.domain] ELSE conf.default
clampConfidence(conf, v) ==
    LET floor == OneOf(conf.floor > 0 /\ conf.floor < 100, conf.floor, 5)
    IN  OneOf(v < floor, floor, OneOf(v > 100, 100, v))
ResolveChecks(conf, results) ==
    [k \in DOMAIN results |->
        IF conf.enabled /\ results[k].conf <= 0
        THEN [results[k] EXCEPT !.conf = clampConfidence(conf, resolveRaw(conf, results[k]))] ELSE results[k]]
\* legacyCheckInputs: what a check costs, by the configuration if it says so.
legacyCheckInputs(cfg, results) ==
    [k \in DOMAIN results |->
        [ResolveChecks(cfg.conf, results)[k] EXCEPT !.delta = IF results[k].check \in DOMAIN cfg.deltas
                                                               THEN cfg.deltas[results[k].check] ELSE @]]

----------------------------------------------------------------------------
\* An assessment.
AtRest == [pc |-> "idle"]
NoAnswer == [mode |-> "none"]
Starting(mode, report) ==
    [pc |-> "tools", mode |-> mode, report |-> report, results |-> report, at |-> minute, configs |-> {localConfig},
     asked |-> runAdapterPipeline(localConfig), pending |-> runAdapterPipeline(localConfig), failed |-> {}, said |-> <<>>]
BeginsAt == assessing.pc = "idle" /\ assessments < MaxAssessments /\ assessments' = assessments + 1
Assess ==
    /\ BeginsAt /\ assessing' = Starting("assess", <<>>) /\ assessed' = NoAnswer
    /\ UNCHANGED <<localConfig, answersKept, spcAsset, minute>>
\* AssessFromResults: an answer to the same report is given again for CacheMinutes.
AssessFromResults(report) ==
    /\ BeginsAt
    /\ IF report \in DOMAIN answersKept /\ minute - answersKept[report].at < CacheMinutes
       THEN assessed' = answersKept[report] /\ UNCHANGED <<assessing, answersKept>>
       ELSE /\ assessing' = Starting("results", report)
            /\ answersKept' = [r \in DOMAIN answersKept \ {report} |-> answersKept[r]]
            /\ assessed' = NoAnswer
    /\ UNCHANGED <<localConfig, spcAsset, minute>>

At(pc) == assessing.pc = pc
callSame == UNCHANGED <<localConfig, assessed, answersKept, spcAsset, minute, assessments>>
told(said, t, found) == [u \in DOMAIN said \cup {t} |-> IF u = t THEN found ELSE said[u]]
inSomeOrder(found) == {q \in [1..Cardinality(found) -> found] : Range(q) = found}
\* A tool answers, and its findings come in some order; or it fails, which only Assess tells.
ToolAnswered(t, doc) ==
    /\ At("tools") /\ t \in assessing.pending
    /\ LET found == ExecuteAdapter(t, doc)
       IN  \E order \in inSomeOrder(found) :
            assessing' = [assessing EXCEPT !.pending = @ \ {t}, !.said = told(@, t, found),
                !.results = @ \o [k \in DOMAIN order |-> toolResult(order[k], t)]]
    /\ callSame
ToolFailed(t) ==
    /\ At("tools") /\ t \in assessing.pending
    /\ assessing' = [assessing EXCEPT !.pending = @ \ {t}, !.failed = @ \cup {t},
            !.results = IF assessing.mode = "assess" THEN Append(@, Result("ADAPTER", "AS", FALSE, -5, t, 0)) ELSE @]
    /\ callSame
\* The checks that no tool took over are run, ten at a time.
ChecksBegin ==
    /\ At("tools") /\ assessing.pending = {} /\ assessing.mode = "assess"
    /\ DOMAIN LocalChecks # {} \/ assessing.results # <<>>
    /\ assessing' = [assessing EXCEPT !.pc = "checks",
            !.pending = (DOMAIN LocalChecks \ buildDelegatedSet(assessing.said)) \ Dormant]
    /\ callSame
\* isPermDenied: what needs more rights counts as passed.
CheckEnds(c, outcome) ==
    /\ At("checks") /\ c \in assessing.pending
    /\ assessing' = [assessing EXCEPT !.pending = @ \ {c}, !.results =
            Append(@, Result(c, LocalChecks[c], outcome # "fail", OneOf(outcome = "fail", -10, 0), "builtin", 0))]
    /\ callSame

\* applyATTACK: of several results of a check the last counts; a covered technique is skipped.
verdictOf(results, c) == results[CHOOSE k \in DOMAIN results :
    results[k].check = c /\ \A l \in DOMAIN results : results[l].check = c => l <= k].passed
applyATTACK(results, covered) ==
    {t \in DOMAIN TechniqueOf \ covered :
        \E c \in TechniqueOf[t] : (\E r \in Range(results) : r.check = c) /\ ~verdictOf(results, c)}
\* syncACIToSPCAsset: what a passed check says of the host is noted and never taken back.
syncACIToSPCAsset(results) ==
    LET passed(c) == (\E r \in Range(results) : r.check = c) /\ verdictOf(results, c)
    IN  [internal |-> spcAsset.internal \/ passed("AC-001"), ips |-> spcAsset.ips \/ passed("AC-004"),
         whitelist |-> spcAsset.whitelist \/ passed("AC-005")]

Answer(empty, inputs, techs, covered) ==
    [mode |-> assessing.mode, report |-> assessing.report, at |-> assessing.at, configs |-> assessing.configs,
     asked |-> assessing.asked, failed |-> assessing.failed, said |-> assessing.said, empty |-> empty,
     results |-> assessing.results, inputs |-> inputs, techs |-> techs, covered |-> covered]
Answered(answer) ==
    /\ assessed' = answer /\ assessing' = AtRest
    /\ UNCHANGED <<localConfig, minute, assessments>>
\* buildEmptyResult: with nothing to judge the host is acceptable, and that is not kept.
buildEmptyResult ==
    /\ At("tools") /\ assessing.pending = {} /\ assessing.results = <<>>
    /\ assessing.mode = "assess" => DOMAIN LocalChecks = {}
    /\ Answered(Answer(TRUE, <<>>, {}, {})) /\ UNCHANGED <<spcAsset, answersKept>>
\* The SPC module, the score, the techniques, and the answer.
Judge(covered) ==
    /\ IF assessing.pc = "tools" THEN assessing.mode = "results" /\ assessing.results # <<>> ELSE At("checks")
    /\ assessing.pending = {}
    /\ spcAsset' = syncACIToSPCAsset(assessing.results)
    /\ LET answer == Answer(FALSE, legacyCheckInputs(localConfig, assessing.results),
                            applyATTACK(assessing.results, covered), covered)
       IN  /\ Answered(answer)
           /\ answersKept' = IF answer.mode = "assess" THEN answersKept
                             ELSE [r \in DOMAIN answersKept \cup {answer.report} |->
                                      IF r = answer.report THEN answer ELSE answersKept[r]]

\* ReloadWeights drops the answers; an assessment in progress goes on, and reads the new one.
ReloadLocal(cfg) ==
    /\ cfg # localConfig /\ localConfig' = cfg /\ answersKept' = <<>>
    /\ assessing' = IF assessing.pc = "idle" THEN assessing ELSE [assessing EXCEPT !.configs = @ \cup {cfg}]
    /\ UNCHANGED <<assessed, spcAsset, minute, assessments>>
MinutePasses ==
    /\ minute < MaxMinutes /\ minute' = minute + 1
    /\ UNCHANGED <<localConfig, assessing, assessed, answersKept, spcAsset, assessments>>

LocalInit ==
    /\ localConfig \in LocalConfigs /\ assessing = AtRest /\ assessed = NoAnswer /\ answersKept = <<>>
    /\ spcAsset = [internal |-> FALSE, ips |-> FALSE, whitelist |-> FALSE] /\ minute = 0 /\ assessments = 0
LocalNext ==
    \/ Assess \/ \E r \in AgentReports : AssessFromResults(r)
    \/ \E t \in DOMAIN ToolAnswers : ToolFailed(t) \/ \E d \in ToolAnswers[t] : ToolAnswered(t, d)
    \/ ChecksBegin \/ \E c \in DOMAIN LocalChecks, o \in {"pass", "fail", "denied"} : CheckEnds(c, o)
    \/ buildEmptyResult \/ \E covered \in SUBSET DOMAIN TechniqueOf : Judge(covered)
    \/ \E cfg \in LocalConfigs : ReloadLocal(cfg)
    \/ MinutePasses
LocalSpec == LocalInit /\ [][LocalNext]_localVars

----------------------------------------------------------------------------
Judged == assessed # NoAnswer /\ ~assessed.empty
About(c) == {r \in Range(assessed.results) : r.check = c}

\* Assess judges every active check and none both itself and through the tool that took it
\* over.  The code makes two exceptions: a tool with several rules takes over what it says
\* nothing of (assessor.go:459-463), and a script may speak of any check.
EveryCheckJudged ==
    Judged /\ assessed.mode = "assess" =>
        \A c \in DOMAIN LocalChecks \ Dormant :
            /\ About(c) = {} => \E t \in DOMAIN assessed.said :
                    assessed.said[t] # {} /\ c \in ruledBy(t) /\ Cardinality(ruledBy(t)) > 1
            /\ "builtin" \in {r.source : r \in About(c)} => \A r \in About(c) : ruledBy(r.source) = {}

\* Every problem that was found reaches the score with a weight: in Assess a tool that gave no
\* answer is one, to AssessFromResults it is as if it had not been there.
NoProblemLost ==
    Judged =>
        /\ \A k \in DOMAIN assessed.results : LET r == assessed.results[k] i == assessed.inputs[k] IN
                /\ i.passed = r.passed /\ (r.delta < 0 => i.delta < 0 /\ i.conf <= 100)
                /\ r.conf > 0 => i.conf = r.conf
        /\ \A t \in DOMAIN assessed.said : \A f \in assessed.said[t] : toolResult(f, t) \in Range(assessed.results)
        /\ \A t \in assessed.failed : assessed.mode = "assess" =>
                \E i \in Range(assessed.inputs) : i.source = t /\ ~i.passed /\ i.delta < 0
        /\ assessed.asked = DOMAIN assessed.said \cup assessed.failed

\* A host is acceptable for want of evidence only when there was none: no check, no finding.
EmptyMeansNothing ==
    assessed # NoAnswer => (assessed.empty => assessed.report = <<>> /\ \A t \in DOMAIN assessed.said : assessed.said[t] = {})

\* A kept answer is of its report and of the present configuration, unless that was reloaded
\* while it was under way; the answer given out is never older than CacheMinutes when given.
CachedAnswersFresh ==
    \A r \in DOMAIN answersKept : answersKept[r].report = r /\ localConfig \in answersKept[r].configs

\* What a tool with rules found failing fails its techniques, whatever the host's own check
\* said before or would say.  A failure may be hidden by another tool, or the same, that
\* passes the check later, and a script's by a check that passes.
FailuresReachTechniques ==
    Judged => \A t \in DOMAIN TechniqueOf \ assessed.covered : \A c \in TechniqueOf[t] :
        \A u \in DOMAIN assessed.said : \A f \in assessed.said[u] :
            f.check = c /\ ~f.passed /\ ruledBy(u) # {} /\ (\A r \in About(c) : r.passed => r.source \notin assessed.asked)
                => t \in assessed.techs

LocalSound ==
    EveryCheckJudged /\ NoProblemLost /\ EmptyMeansNothing /\ CachedAnswersFresh /\ FailuresReachTechniques
=============================================================================
