---------------------------- MODULE AttckEvidence ----------------------------
(***************************************************************************)
(* The evidence the ATT&CK module keeps of an attack and what it derives   *)
(* from it (internal/attck: attck_detection.go, attck_ti.go and the files  *)
(* attck_apt_chain, _causal, _attribution, _hunt and _detect).             *)
(*                                                                         *)
(* Alerts, anomalies, indicators of compromise, behavioural alerts and     *)
(* beacons are lists capped at a length; attack chains, attributions,      *)
(* hunts and the risk of a host are computed from them.  Every operation   *)
(* holds the module's lock.  Scores and confidences are in thousandths.    *)
(* A tactic is its place in the order of the kill chain, 99 when unknown.  *)
(***************************************************************************)
EXTENDS Naturals, FiniteSets, Sequences, SequencesExt, Collections

CONSTANTS
    Hosts,
    Rules,        \* detection rules: id -> [tech, tactic]
    TacticOf,     \* technique -> tactic
    Transitions,  \* transMatrix: technique -> (technique -> probability)
    CausalRules,  \* records [cause, effect, strength]
    Groups,       \* aptGroups: id -> [techs : technique -> weight, sector]
    Seen,         \* techniques of the observations
    Peers,        \* destinations of connections
    AnomalyScores, IocConfidences,
    MaxKept,      \* maxAlerts, maxAnomalies, ...: 5000 to 50000 in the code
    MaxSteps      \* bound on the operations of a behaviour

Techniques == DOMAIN TacticOf
NoActor == "none"

\* What is observed is of known techniques; scores, weights and probabilities are not negative.
ASSUME EvidenceAssumption ==
    /\ IsFiniteSet(Techniques) /\ Seen \subseteq Techniques /\ \A t \in Techniques : TacticOf[t] \in Nat
    /\ \A r \in DOMAIN Rules : Rules[r].tactic \in Nat
    /\ IsFiniteSet(CausalRules) /\ \A r \in CausalRules : r.strength \in Nat
    /\ IsFiniteSet(DOMAIN Transitions) /\ \A t \in DOMAIN Transitions : IsFiniteSet(DOMAIN Transitions[t])
    /\ "Unknown" \notin DOMAIN Groups
    /\ \A g \in DOMAIN Groups : /\ IsFiniteSet(DOMAIN Groups[g].techs)
                                /\ \A t \in DOMAIN Groups[g].techs : Groups[g].techs[t] \in Nat
    /\ AnomalyScores \subseteq Nat /\ IocConfidences \subseteq Nat /\ MaxKept \in Nat

VARIABLES
    enabled,     \* rules that are registered and enabled
    alerts,      \* [tech, tactic, host, ack, at]
    anomalies,   \* [tech, host, score, at]
    iocs,        \* [key, tech, conf, actor]
    iocChecks,   \* technique -> iocs named in its AsscorChecks
    behaviours,  \* behavioralAlerts: [tech, host, severity]
    beacons,     \* beaconDetections: [host, score]
    hypotheses,  \* [tech, source, status]
    hunts,       \* huntResults: [tech, host, findings]
    chains,      \* attackChains: [host, stages, severity, score, attribution]
    conns,       \* cross-host connections reported so far: [src, dst, service, anomalous]
    scenario,    \* phases of the emulation scenario: [tech, tactic, expected]
    emulation,   \* emulationResults: the detected and the missed techniques of the last run
    steps        \* operations so far, which is the time of the next one

evidenceVars ==
    <<enabled, alerts, anomalies, iocs, iocChecks, behaviours, beacons, hypotheses, hunts, chains,
      conns, scenario, emulation, steps>>
beside == <<conns, scenario, emulation>>

lists == <<alerts, anomalies, iocs, behaviours, beacons, hypotheses, hunts, chains>>

Capped(a, b) == IF a < b THEN a ELSE b
Greatest(S) == CHOOSE m \in S : \A n \in S : n <= m

\* trimSlice: the newest are kept.
trimSlice(s) == IF Len(s) > MaxKept THEN SubSeq(s, Len(s) - MaxKept + 1, Len(s)) ELSE s
Kept(s, x) == trimSlice(Append(s, x))

Without(s, i) == SubSeq(s, 1, i - 1) \o SubSeq(s, i + 1, Len(s))

-----------------------------------------------------------------------------
(* Attack chains.                                                          *)

openAlerts(h) == Where(alerts, LAMBDA a : a.host = h /\ ~a.ack)
\* Mutant: anomalies are looked at only as long as the host has no alert.
anomaliesUnlessAlerts(h) ==
    IF openAlerts(h) # <<>> THEN <<>> ELSE Where(anomalies, LAMBDA a : a.host = h /\ a.score >= 500)
highAnomalies(h) == Where(anomalies, LAMBDA a : a.host = h /\ a.score >= 500)
ofTech(s, t) == Where(s, LAMBDA a : a.tech = t)

stageTechs(h) ==
    {t \in Techniques : Len(ofTech(openAlerts(h), t)) + Len(ofTech(highAnomalies(h), t)) > 0}

\* The confidence of a stage before its causes are looked at: an alert is worth 0.7, the
\* first anomaly of a technique without alert 0.6 of its score; each anomaly adds a fifth
\* of its score and each indicator, of whatever host, 0.15 of its confidence.
confidence(h, t) ==
    LET al == ofTech(openAlerts(h), t)
        an == ofTech(highAnomalies(h), t)
        base == IF al # <<>> THEN 700 ELSE (an[1].score * 3) \div 5
    IN  Capped(1000, base + TotalSeq(an, LAMBDA a : a.score \div 5)
                          + TotalSeq(ofTech(iocs, t), LAMBDA i : (i.conf * 3) \div 20))

\* buildAttackStages.  An alert gives a stage its rule's tactic and its time.
stageOf(h, t) ==
    LET al == ofTech(openAlerts(h), t)
        an == ofTech(highAnomalies(h), t)
    IN  [tech |-> t, conf |-> confidence(h, t),
         tactic |-> IF al # <<>> THEN al[1].tactic ELSE TacticOf[t],
         at |-> IF al # <<>> THEN al[1].at ELSE an[1].at]

causesOf(t, ts) == {r \in CausalRules : r.effect = t /\ r.cause \in ts \ {t}}
causalScore(t, ts) == Total(causesOf(t, ts), LAMBDA r : r.strength)

\* applyCausalReasoning: a stage gains 0.15 of the average strength of its causes.
boosted(s, ts) ==
    LET causes == causesOf(s.tech, ts)
        boost == (causalScore(s.tech, ts) * 15) \div (100 * Cardinality(causes))
    IN  IF causes = {} THEN s ELSE [s EXCEPT !.conf = Capped(@ + boost, 1000)]

\* Mutant: the stages in the order of their times.
stagesByTime(h) ==
    LET ts == stageTechs(h)
    IN  Sortings({boosted(stageOf(h, t), ts) : t \in ts}, LAMBDA a, b : a.at <= b.at)

\* The orders of the stages: by tactic, then by the weight of the causes, then by time.
stages(h) ==
    LET ts == stageTechs(h)
        MayPrecede(a, b) ==
            IF a.tactic # b.tactic THEN a.tactic < b.tactic
            ELSE IF causalScore(a.tech, ts) # causalScore(b.tech, ts)
                 THEN causalScore(a.tech, ts) > causalScore(b.tech, ts)
                 ELSE a.at <= b.at
    IN  Sortings({boosted(stageOf(h, t), ts) : t \in ts}, MayPrecede)

calculateChainSeverity(ss) ==
    LET critical == Len(Where(ss, LAMBDA s : s.conf >= 800))
        high == Len(Where(ss, LAMBDA s : s.conf \in 600 .. 799))
    IN  IF critical >= 3 \/ Len(ss) >= 6 THEN "critical"
        ELSE IF critical >= 1 \/ high >= 3 THEN "high"
        ELSE IF high >= 1 \/ Len(ss) >= 3 THEN "medium" ELSE "low"

stageWeight(tactic) ==
    IF tactic = 99 THEN 1000
    ELSE IF tactic <= 2 THEN 700 ELSE IF tactic <= 6 THEN 1000
    ELSE IF tactic <= 10 THEN 1200 ELSE 1500

calculateChainScore(ss) ==
    TotalSeq(ss, LAMBDA s : (s.conf * stageWeight(s.tactic)) \div 1000) \div Len(ss)

-----------------------------------------------------------------------------
(* Attribution.  The indicators of every host count.                       *)

calculateTechniqueOverlap(ss, g) ==
    LET weights == Groups[g].techs
        obs(t) == Greatest({0} \cup {s.conf : s \in {x \in ToSet(ss) : x.tech = t}})
        all == Total(DOMAIN weights, LAMBDA t : weights[t])
    IN  IF all = 0 THEN 0
        ELSE (Total(DOMAIN weights, LAMBDA t : (weights[t] * obs(t)) \div 1000) * 1000) \div all

iocScore(g) ==
    TotalSeq(Where(iocs, LAMBDA i : i.actor = g),
             LAMBDA i : IF i.conf > 0 THEN i.conf ELSE 500)

\* checkSectorAlignment for one primary target: collection or exfiltration (10, 12), impact
\* (13) and reconnaissance (0, 1) among the tactics of the chain.
checkSectorAlignment(ss, g) ==
    LET seen == {s.tactic : s \in ToSet(ss)}
        exfiltration == seen \cap {10, 12} # {}
        impact == 13 \in seen
        recon == seen \cap {0, 1} # {}
    IN  CASE Groups[g].sector = "financial" -> IF exfiltration /\ impact THEN 500 ELSE 0
          [] Groups[g].sector = "government" ->
                 IF recon /\ exfiltration /\ ~impact THEN 500 ELSE 0
          [] Groups[g].sector = "retail" -> IF exfiltration THEN 300 ELSE 0
          [] Groups[g].sector = "telecom" -> IF recon THEN 300 ELSE 0
          [] OTHER -> IF exfiltration THEN 200 ELSE 0

fused(ss, g) ==
    LET tech == calculateTechniqueOverlap(ss, g)
        ioc == iocScore(g)
        sum == Capped(1000, (tech * 6 + ioc * 4) \div 10)
    IN  IF tech > 0 /\ ioc > 0 THEN Capped(1000, sum + 100) ELSE sum

combinedScore(ss, g) ==
    Capped(1000, fused(ss, g) + (checkSectorAlignment(ss, g) * 15) \div 100)

\* performAttribution: the groups below 0.1 are no candidates; the map's order decides a tie.
attributions(ss) ==
    LET candidates == {g \in DOMAIN Groups : fused(ss, g) >= 100}
    IN  IF candidates = {} THEN {"Unknown"}
        ELSE {g \in candidates : \A o \in candidates : combinedScore(ss, o) <= combinedScore(ss, g)}

-----------------------------------------------------------------------------
(* Hunts and risk.                                                         *)

\* executeHuntLogic: the pieces of evidence for a technique on a host.  Every beacon of the
\* host, filed under T1071.001, counts for T1071 too.
findings(t, h) ==
    Len(ofTech(openAlerts(h), t)) + Len(ofTech(highAnomalies(h), t))
    + Len(Where(behaviours, LAMBDA b : b.host = h /\ b.tech = t))
    + Len(ofTech(iocs, t))
    + (IF t \in {"T1071", "T1071.001"} THEN Len(Where(beacons, LAMBDA b : b.host = h)) ELSE 0)

\* predictNextTechniques: the three likeliest of those with probability 0.3 or more.
predictNextTechniques(t) ==
    IF t \notin DOMAIN Transitions THEN {}
    ELSE LET next == Transitions[t]
             likely == {n \in DOMAIN next : next[n] >= 300}
         IN  {n \in likely : Cardinality({o \in likely : next[o] > next[n]}) < 3}

\* What AutoGenerateHypotheses proposes for a host.
proposals(h) ==
    (UNION {{<<n, "transition_prediction">> : n \in predictNextTechniques(a.tech)} :
                a \in ToSet(openAlerts(h))})
    \cup {<<a.tech, "anomaly_driven">> : a \in ToSet(highAnomalies(h))}
    \cup {<<"T1071", "beacon_detection">> : b \in {x \in ToSet(beacons) : x.host = h}}

-----------------------------------------------------------------------------
(* Correlation.  Acknowledged alerts count here.                           *)

\* CorrelateMultiIndicator for one host: two kinds of evidence for a technique.
multiScore(h, t) ==
    LET al == Len(Where(ofTech(alerts, t), LAMBDA a : a.host = h))
        an == Len(ofTech(highAnomalies(h), t))
        io == Len(ofTech(iocs, t))
        be == IF t = "T1071.001" THEN Len(Where(beacons, LAMBDA b : b.host = h)) ELSE 0
        kinds == Cardinality({k \in {"al", "an", "io"} : [al |-> al, an |-> an, io |-> io][k] > 0})
    IN  IF kinds < 2 THEN 0 ELSE Capped(1000, 150 * al + 100 * an + 150 * io + 100 * be)

\* correlateByTransitions: a likely step between two techniques seen on the same host.
transitionPairs(h) ==
    LET seen == {a.tech : a \in {x \in ToSet(alerts) : x.host = h}}
        likely(f, n) == f \in DOMAIN Transitions /\ n \in DOMAIN Transitions[f] /\ Transitions[f][n] >= 300
    IN  {p \in seen \X seen : likely(p[1], p[2])}

\* computeLateralMovementScore over the anomalous connections of a host.
lateralScore(h) ==
    LET mine == {c \in conns : c.src = h /\ c.anomalous}
        part(n, full, weight) == Capped(weight, (weight * n) \div full)
    IN  part(Cardinality(mine), 10, 400) + part(Cardinality({c.dst : c \in mine}), 5, 300)
        + part(Cardinality({c.service : c \in mine} \ {""}), 3, 300)

-----------------------------------------------------------------------------
(* Emulation and risk.                                                     *)

rulesFor(t) == {r \in enabled : Rules[r].tech = t}
checkDetectionExists(t) == rulesFor(t) # {}

\* GenerateScenarioFromActor: the heaviest technique of every known tactic of the group, in
\* the order of the kill chain; techniques without tactic are left out.  The map's order
\* decides between equal weights.
scenariosFor(g) ==
    LET weights == Groups[g].techs
        known == {t \in DOMAIN weights : t \in Techniques /\ TacticOf[t] # 99}
        heaviest(t) == \A o \in known : TacticOf[o] = TacticOf[t] => weights[o] <= weights[t]
        tops == {top \in SUBSET known :
                    /\ \A t \in top : heaviest(t)
                    /\ \A t \in known : \E o \in top : TacticOf[o] = TacticOf[t]
                    /\ \A t, o \in top : TacticOf[o] = TacticOf[t] => o = t}
        phase(t) == [tech |-> t, tactic |-> TacticOf[t], expected |-> rulesFor(t)]
    IN  UNION {Sortings({phase(t) : t \in top}, LAMBDA a, b : a.tactic <= b.tactic) : top \in tops}

severityWeight == [critical |-> 400, high |-> 300, medium |-> 200, low |-> 100]

calculateAPTRiskScore(h) ==
    LET of(s) == Where(s, LAMBDA x : x.host = h)
        count(sev) == Len(Where(of(behaviours), LAMBDA b : b.severity = sev))
        confirmed == Len(Where(of(hunts), LAMBDA r : r.findings > 0))
    IN  Capped(1000,
          TotalSeq(of(chains), LAMBDA c : (severityWeight[c.severity] * c.score) \div 1000)
          + Capped(300, 100 * count("critical") + 50 * count("high"))
          + TotalSeq(of(beacons), LAMBDA b : b.score \div 10)
          + Capped(200, 50 * confirmed))

-----------------------------------------------------------------------------
Tick ==
    /\ steps < MaxSteps
    /\ steps' = steps + 1

Step(changed) == Tick /\ changed /\ UNCHANGED beside

EvidenceInit ==
    /\ enabled = DOMAIN Rules
    /\ alerts = <<>> /\ anomalies = <<>> /\ iocs = <<>>
    /\ iocChecks = [t \in Techniques |-> {}]
    /\ behaviours = <<>> /\ beacons = <<>> /\ hypotheses = <<>> /\ hunts = <<>> /\ chains = <<>>
    /\ conns = {} /\ scenario = <<>> /\ emulation = <<>>
    /\ steps = 0

\* RegisterDetectionRule replaces a rule of the same id; a rule that is off or deleted
\* raises no alert.
RegisterDetectionRule(r, on) ==
    Step(/\ enabled' = IF on THEN enabled \cup {r} ELSE enabled \ {r}
         /\ UNCHANGED <<lists, iocChecks>>)

\* A rule whose query matches the log or a field.
EvaluateDetectionRule(r, h) ==
    /\ r \in enabled
    /\ Step(/\ alerts' = Kept(alerts, [tech |-> Rules[r].tech, tactic |-> Rules[r].tactic,
                                       host |-> h, ack |-> FALSE, at |-> steps])
            /\ UNCHANGED <<enabled, anomalies, iocs, iocChecks, behaviours, beacons, hypotheses,
                           hunts, chains>>)

AcknowledgeAlert(i) ==
    /\ ~alerts[i].ack
    /\ Step(/\ alerts' = [alerts EXCEPT ![i].ack = TRUE]
            /\ UNCHANGED <<enabled, anomalies, iocs, iocChecks, behaviours, beacons, hypotheses,
                           hunts, chains>>)

RecordAnomaly(h, t, s) ==
    Step(/\ anomalies' = Kept(anomalies, [tech |-> t, host |-> h, score |-> s, at |-> steps])
         /\ UNCHANGED <<enabled, alerts, iocs, iocChecks, behaviours, beacons, hypotheses, hunts,
                        chains>>)

\* AddIOC: one of the same type and value is replaced; only a new one is named in the
\* checks of its technique (enrichTechniqueFromIOC), and the name stays when it is gone.
AddIOC(k, t, c, actor) ==
    LET new == [key |-> k, tech |-> t, conf |-> c, actor |-> actor]
        old == {i \in DOMAIN iocs : iocs[i].key = k}
    IN  Step(/\ IF old # {}
                THEN iocs' = [i \in DOMAIN iocs |-> IF i \in old THEN new ELSE iocs[i]]
                     /\ UNCHANGED iocChecks
                ELSE iocs' = Kept(iocs, new) /\ iocChecks' = [iocChecks EXCEPT ![t] = @ \cup {k}]
             /\ UNCHANGED <<enabled, alerts, anomalies, behaviours, beacons, hypotheses, hunts,
                            chains>>)

\* DeleteIOC and ExpireIOCs.
DeleteIOC(i) ==
    Step(/\ iocs' = Without(iocs, i)
         /\ UNCHANGED <<enabled, alerts, anomalies, iocChecks, behaviours, beacons, hypotheses,
                        hunts, chains>>)

\* An enabled indicator whose metric passes its threshold.
EvaluateBehavioralIndicators(h, t, sev) ==
    Step(/\ behaviours' = Kept(behaviours, [tech |-> t, host |-> h, severity |-> sev])
         /\ UNCHANGED <<enabled, alerts, anomalies, iocs, iocChecks, beacons, hypotheses, hunts,
                        chains>>)

\* Ten events with five positive intervals whose jitter is below 0.5; the less, the higher
\* the score.
DetectBeaconing(h, score) ==
    Step(/\ beacons' = Kept(beacons, [host |-> h, score |-> score])
         /\ UNCHANGED <<enabled, alerts, anomalies, iocs, iocChecks, behaviours, hypotheses, hunts,
                        chains>>)

\* A hypothesis per technique and source the list does not have yet, whatever the host.
AutoGenerateHypotheses(h) ==
    LET known == {<<y.tech, y.source>> : y \in ToSet(hypotheses)}
        new == {[tech |-> p[1], source |-> p[2], status |-> "active"] : p \in proposals(h) \ known}
    IN  /\ new # {}
        /\ Step(/\ hypotheses' = trimSlice(hypotheses \o SetToSeq(new))
                /\ UNCHANGED <<enabled, alerts, anomalies, iocs, iocChecks, behaviours, beacons, hunts,
                               chains>>)

ExecuteHunt(i, h) ==
    Step(/\ hunts' = Kept(hunts, [tech |-> hypotheses[i].tech, host |-> h,
                                 findings |-> findings(hypotheses[i].tech, h)])
         /\ hypotheses' = [hypotheses EXCEPT ![i].status = "completed"]
         /\ UNCHANGED <<enabled, alerts, anomalies, iocs, iocChecks, behaviours, beacons, chains>>)

\* Refused without an open alert or a high anomaly of the host.
ReconstructAttackChain(h) ==
    /\ stageTechs(h) # {}
    /\ Step(/\ \E ss \in stages(h) : \E g \in attributions(ss) :
                   chains' = Kept(chains, [host |-> h, stages |-> ss, attribution |-> g,
                                           severity |-> calculateChainSeverity(ss),
                                           score |-> calculateChainScore(ss)])
            /\ UNCHANGED <<enabled, alerts, anomalies, iocs, iocChecks, behaviours, beacons,
                           hypotheses, hunts>>)

\* The stages of the chain against the indicators of now.
PerformAttribution(i) ==
    Step(/\ \E g \in attributions(chains[i].stages) :
               chains' = [chains EXCEPT ![i].attribution = g]
         /\ UNCHANGED <<enabled, alerts, anomalies, iocs, iocChecks, behaviours, beacons, hypotheses,
                        hunts>>)

ObserveConnection(h, d, service, anomalous) ==
    /\ Tick
    /\ conns' = conns \cup {[src |-> h, dst |-> d, service |-> service, anomalous |-> anomalous]}
    /\ UNCHANGED <<enabled, lists, iocChecks, scenario, emulation>>

\* GenerateScenarioFromActor refuses a group without known technique; CreateScenario
\* replaces the scenario of the same id.
CreateScenario(g) ==
    /\ Tick
    /\ scenario' \in scenariosFor(g) \ {<<>>}
    /\ UNCHANGED <<enabled, lists, iocChecks, conns, emulation>>

\* A phase is detected by the rules of now; the rule it credits is one the scenario expected
\* when it was made.
RunEmulation ==
    LET caught == {p \in ToSet(scenario) : checkDetectionExists(p.tech)}
    IN  /\ scenario # <<>>
        /\ Tick
        /\ emulation' = <<[detected |-> {p.tech : p \in caught},
                           missed |-> {p.tech : p \in ToSet(scenario) \ caught},
                           rate |-> (1000 * Cardinality(caught)) \div Len(scenario)]>>
        /\ UNCHANGED <<enabled, lists, iocChecks, conns, scenario>>

\* Stop keeps the rules, the behavioural alerts and the results of hunts.
StopAttck ==
    /\ Tick
    /\ alerts' = <<>> /\ anomalies' = <<>> /\ iocs' = <<>> /\ hypotheses' = <<>>
    /\ beacons' = <<>> /\ chains' = <<>> /\ conns' = {}
    /\ UNCHANGED <<enabled, iocChecks, behaviours, hunts, scenario, emulation>>

AddsEvidence ==
    \/ \E h \in Hosts :
          \/ \E r \in DOMAIN Rules : EvaluateDetectionRule(r, h)
          \/ \E t \in Seen, s \in AnomalyScores : RecordAnomaly(h, t, s)
          \/ \E t \in Seen, sev \in {"critical", "high"} :
                EvaluateBehavioralIndicators(h, t, sev)
          \/ \E score \in {500, 950} : DetectBeaconing(h, score)
          \/ \E d \in Peers, anomalous \in BOOLEAN : ObserveConnection(h, d, "ssh", anomalous)
    \/ \E t \in Seen, c \in IocConfidences, g \in DOMAIN Groups \cup {NoActor} :
          AddIOC(t, t, c, g)

EvidenceNext ==
    \/ AddsEvidence
    \/ \E r \in DOMAIN Rules, on \in BOOLEAN : RegisterDetectionRule(r, on)
    \/ \E i \in DOMAIN alerts : AcknowledgeAlert(i)
    \/ \E i \in DOMAIN iocs : DeleteIOC(i)
    \/ \E h \in Hosts :
          \/ AutoGenerateHypotheses(h)
          \/ \E i \in DOMAIN hypotheses : ExecuteHunt(i, h)
          \/ ReconstructAttackChain(h)
    \/ \E i \in DOMAIN chains : PerformAttribution(i)
    \/ \E g \in DOMAIN Groups : CreateScenario(g)
    \/ RunEmulation
    \/ StopAttck

EvidenceSpec == EvidenceInit /\ [][EvidenceNext]_evidenceVars

-----------------------------------------------------------------------------
(* Properties.                                                             *)

\* Every chain the module keeps is one attack in kill-chain order: a stage per technique,
\* later tactics later, confidences within [0, 1], and it is attributed to a group only
\* when the group shares a technique with it or, at some time, an indicator named it.  A
\* scenario has one phase per tactic in that order too, an emulation that missed nothing
\* has the full rate, and a technique is hunted once per source.
ChainsSound ==
    /\ \A c \in ToSet(chains) :
        LET ss == c.stages
        IN  /\ \A i, j \in DOMAIN ss : i < j => ss[i].tech # ss[j].tech /\ ss[i].tactic <= ss[j].tactic
            /\ \A s \in ToSet(ss) : s.conf \in 1 .. 1000
            /\ c.attribution \in DOMAIN Groups =>
                  \/ \E s \in ToSet(ss) : s.tech \in DOMAIN Groups[c.attribution].techs
                  \/ \E t \in Techniques : iocChecks[t] # {}
    /\ \A i, j \in DOMAIN scenario : i < j => scenario[i].tactic < scenario[j].tactic
    /\ \A e \in ToSet(emulation) : e.rate = 1000 <=> e.missed = {}
    /\ \A i, j \in DOMAIN hypotheses :
          hypotheses[i].tech = hypotheses[j].tech /\ hypotheses[i].source = hypotheses[j].source => i = j

\* More evidence never hides what was seen: as long as nothing falls out of a full list, a
\* new piece of evidence takes away no stage, lowers no stage's confidence before its
\* causes are weighed, no hunt's findings and no host's risk, and the evidence of one host
\* leaves the stages of another alone.
EvidenceOnlyAdds ==
    [][AddsEvidence /\ (\A s \in ToSet(<<alerts, anomalies, iocs, behaviours, beacons>>) : Len(s) < MaxKept)
         => \A h \in Hosts :
              /\ stageTechs(h) \subseteq stageTechs(h)'
              /\ Len(iocs') >= Len(iocs) /\ iocs = SubSeq(iocs', 1, Len(iocs))
                    => \A t \in stageTechs(h) : confidence(h, t) <= confidence(h, t)'
              /\ \A t \in Techniques : iocs = SubSeq(iocs', 1, Len(iocs)) => findings(t, h) <= findings(t, h)'
              /\ lateralScore(h) <= lateralScore(h)'
              /\ transitionPairs(h) \subseteq transitionPairs(h)'
              /\ iocs = SubSeq(iocs', 1, Len(iocs)) => \A t \in Techniques : multiScore(h, t) <= multiScore(h, t)'
              /\ calculateAPTRiskScore(h) <= calculateAPTRiskScore(h)']_evidenceVars

=============================================================================
