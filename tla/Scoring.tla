------------------------------ MODULE Scoring ------------------------------
(***************************************************************************)
(* The score of a host: ssam-lib (domain scores from weighted evidence,    *)
(* edge factors, the 2.0 formula), the edge-factor models of               *)
(* internal/edgefactor, the assembly of internal/engine/ssam, the legacy   *)
(* multiplicative path of internal/engine/assessor.go and the dynamic      *)
(* score of prism-lib.                                                     *)
(*                                                                         *)
(* Numbers are integers: a confidence is in tenths, a factor and a         *)
(* coefficient in percent, a domain score in tenths of a point, a final    *)
(* score in hundredths of a point.  Divisions round down where the code    *)
(* keeps floating point; all of them are monotone.                         *)
(***************************************************************************)
EXTENDS Integers, Sequences, FiniteSets, SequencesExt

CONSTANTS
    CheckOf,      \* [check id -> [domain, delta]]: what the checks are
    WeightOf,     \* [domain -> weight]: cfg.Weights and cfg.ExtensionWeights
    BuiltinOf,    \* [built-in factor id -> factor]: [edge_factors]
    CustomOf,     \* [custom factor id -> [factor, trigger]]
    DefaultTrigger, \* [built-in factor id -> check id]
    Scenarios,    \* configurations and inputs a scoring may meet: the confidence
                  \* policy, the [edge_factors.model] section, the confidence of
                  \* each check (0: not given), the order of the results, the
                  \* <<SPC score, threat coefficient>> in percent, the threshold
    MaxDays,      \* how long a failure may have lasted
    MaxChanges,   \* how many changes of the inputs a run follows
    Neighbours,   \* [host -> criticality in percent]: the upstream hosts
    NeighbourScores, \* scores an upstream host may have, in points
    Transmission, \* default transmission between hosts, in percent
    ExpNeg(_),    \* percent of exp(-x), x in hundredths: any decreasing map
    Pow(_)        \* days ^ debt_alpha: any increasing map

Checks == DOMAIN CheckOf
Domains == DOMAIN WeightOf

ASSUME ScoringAssumption ==
    /\ \A c \in Checks : CheckOf[c].delta \in Int
    /\ \A d \in Domains : WeightOf[d] \in Nat
    /\ \A x \in 0..200, y \in 0..200 : x <= y => ExpNeg(y) <= ExpNeg(x)
    /\ ExpNeg(0) = 100
    /\ \A m \in 0..MaxDays, n \in 0..MaxDays : m <= n => Pow(m) <= Pow(n)

VARIABLES
    outcome,      \* [Checks -> "absent" | "pass" | "fail"]: the results
    conf,         \* [Checks -> 0..10]: the confidence they carry
    order,        \* the order in which the results arrived
    policy,       \* the confidence policy in force
    model,        \* the edge-factor section in force
    coeff,        \* <<SPC score, threat coefficient>>
    threshold,    \* cfg.Threshold
    days,         \* [Checks -> 0..MaxDays]: how long each has been failing
    changes,      \* number of changes so far
    upstream,     \* [host -> score] of the other hosts the assessor knows
    domainScores, \* the scores of the domains, as the last scoring left them
    edgeFactors,  \* the edge factors of the last scoring
    finalScore,   \* FinalScore of the plugin path
    legacyScore,  \* FinalScore of the legacy path
    prismScore    \* PrismScore, per aggregation mode

inputVars == <<outcome, conf, order, policy, model, coeff, threshold, days, upstream, changes>>
scoreVars == <<inputVars, domainScores, edgeFactors, finalScore, legacyScore, prismScore>>

reported == {c \in Checks : outcome[c] # "absent"}
failing == {c \in Checks : outcome[c] = "fail"}
AtLeast(x, low) == IF x < low THEN low ELSE x
AtMost(x, high) == IF x > high THEN high ELSE x

----------------------------------------------------------------------------
\* ssam-lib/confidence.go

NormalizeConfidence(raw) ==
    IF ~policy.enabled THEN 10
    ELSE LET d == IF policy.default \in 1..10 THEN policy.default ELSE 10
             f == IF policy.floor \in 1..9 THEN policy.floor ELSE 1
         IN  AtMost(AtLeast(IF raw <= 0 THEN d ELSE raw, f), 10)

\* Under beta_bayes a confidence is pulled towards 1 by the prior's strength.
EffectiveConfidence(raw) ==
    LET c == NormalizeConfidence(raw)
        k == IF policy.prior <= 0 THEN 2 ELSE policy.prior
    IN  IF policy.enabled /\ policy.beta THEN (10 * k + c) \div (k + 1) ELSE c

Deduction(c) == 0 - CheckOf[c].delta
deducting(d) == {c \in failing : CheckOf[c].domain = d /\ CheckOf[c].delta < 0}

\* The score of a domain, 100 points less the expected deduction, and its
\* variance (the square of the code's sigma), in hundredths of a point^2.
DomainBayes(d) ==
    [score |-> AtLeast(1000 - MapThenSumSet(LAMBDA c : Deduction(c) * EffectiveConfidence(conf[c]),
                                            deducting(d)), 0),
     var |-> MapThenSumSet(LAMBDA c : LET e == EffectiveConfidence(conf[c])
                                      IN Deduction(c) * Deduction(c) * e * (10 - e),
                           deducting(d))]

\* A mutant: only the domains with a failure take part.
ScoresOfFailingDomains ==
    LET active == {CheckOf[c].domain : c \in failing}
    IN  [d \in (IF active = {} THEN Domains ELSE active) |-> DomainBayes(d)]
\* Only the domains some result belongs to are scored.
ComputeDomainScoresBayes ==
    LET active == {CheckOf[c].domain : c \in reported}
    IN  [d \in (IF active = {} THEN Domains ELSE active) |-> DomainBayes(d)]

weighted(scores) == {d \in DOMAIN scores \cap Domains : WeightOf[d] > 0}
totalWeight(scores) == MapThenSumSet(LAMBDA d : WeightOf[d], weighted(scores))

\* Variance of the weighted mean, times the square of the total weight.
FinalBayesStats(scores) ==
    MapThenSumSet(LAMBDA d : WeightOf[d] * WeightOf[d] * scores[d].var, weighted(scores))

\* AcceptanceDecision with ConfidenceInterval: the point, or its 95% lower
\* bound, reaches the threshold.  point - 1.96 sigma >= t is decided without
\* a square root; sigma is IntrinsicLayerWeight * sqrt(var) / weight, so the
\* square of 1.96 * sigma is (98^2 / 100^2) * var / weight^2 in points^2.
AcceptanceDecision(point, scores, byLower) ==
    LET gap == point - 100 * threshold
        w == totalWeight(scores)
    IN  /\ gap >= 0
        /\ byLower /\ w > 0 =>
             (gap * gap) \div 98 >= (98 * FinalBayesStats(scores)) \div (100 * w * w)

----------------------------------------------------------------------------
\* Edge factors: internal/engine/ssam/adapter.go and ssam-lib/ssam.go

\* The factor table of a configuration.  EF-3FA only cascades: it never
\* multiplies the score itself, it presses EF-002FA down to 0.82.
TriggerOf(id, fallback) ==
    IF id \in DOMAIN model.triggers THEN model.triggers[id] ELSE fallback
ConfigToEdgeFactors ==
    [id \in DOMAIN BuiltinOf \cup {"EF-3FA"} \cup DOMAIN CustomOf |->
        IF id = "EF-3FA"
        THEN [factor |-> 82, trigger |-> TriggerOf(id, "EF-002"), to |-> "EF-002FA", only |-> TRUE]
        ELSE IF id \in DOMAIN BuiltinOf
        THEN [factor |-> BuiltinOf[id], trigger |-> TriggerOf(id, DefaultTrigger[id]),
              to |-> "", only |-> FALSE]
        ELSE [factor |-> CustomOf[id].factor, trigger |-> TriggerOf(id, CustomOf[id].trigger),
              to |-> "", only |-> FALSE]]

Attenuate(f, c) == IF f <= 0 \/ f >= 100 THEN f ELSE 100 - ((100 - f) * c) \div 10

\* Which factors are active, and how strong: the trigger that is believed
\* most sets the attenuation, a cascade overrides without attenuation.
ApplyEdgeFactorsToChecksPolicy ==
    LET table == ConfigToEdgeFactors
        triggeredBy(id) == {c \in failing : c = table[id].trigger}
        triggered(id) == triggeredBy(id) # {}
        own(id) == IF triggered(id)
                   THEN Attenuate(table[id].factor,
                                  Max({EffectiveConfidence(conf[c]) : c \in triggeredBy(id)}))
                   ELSE table[id].factor
        cascaded(id) == \E o \in DOMAIN table : triggered(o) /\ table[o].to = id
    IN  [id \in DOMAIN table |->
            [active |-> (triggered(id) \/ cascaded(id)) /\ ~table[id].only,
             factor |-> IF cascaded(id) THEN Min({own(id), 82}) ELSE own(id),
             trust |-> IF triggered(id)
                       THEN Max({EffectiveConfidence(conf[c]) : c \in triggeredBy(id)}) ELSE 0]]

biting(factors) == {id \in DOMAIN factors : /\ factors[id].active
                                            /\ factors[id].factor \in 1..99}

\* applyEdgeFactorStrategyToBase with no strategy registered: the product.
ProductOnto(base, factors) ==
    FoldSet(LAMBDA id, acc : (acc * factors[id].factor) \div 100, base, biting(factors))

----------------------------------------------------------------------------
\* The synthesis models: internal/edgefactor

factorIDs == DOMAIN BuiltinOf \cup DOMAIN CustomOf
FactorWeight(id) == IF id \in DOMAIN BuiltinOf THEN BuiltinOf[id] ELSE CustomOf[id].factor

\* Params.Validate: what a parameter set must satisfy, whatever the model.
Validate(p) ==
    /\ p.model \in {"legacy", "vector", "graph", "chain"}
    /\ p.floor \in 1..99
    /\ DOMAIN p.lambda \subseteq Domains /\ \A d \in DOMAIN p.lambda : p.lambda[d] > 0
    /\ \A id \in factorIDs : FactorWeight(id) \in 1..100
    /\ \A id \in DOMAIN p.vectors :
        LET vec == p.vectors[id]
        IN  /\ DOMAIN vec = Domains
            /\ \A d \in Domains : vec[d] >= 0
            /\ MapThenSumSet(LAMBDA d : vec[d], Domains) <= 100
    /\ \A pair \in DOMAIN p.coupling : p.coupling[pair] >= 0
    /\ p.model = "chain" => p.window > 0

\* validateAssembly and validateTriggerOverrides: everything the section
\* names exists, nothing couples to itself, a graph is symmetric.
ValidateAssembly(p) ==
    /\ DOMAIN p.vectors \subseteq factorIDs
    /\ \A pair \in DOMAIN p.coupling : /\ {pair[1], pair[2]} \subseteq factorIDs
                                       /\ pair[1] # pair[2]
    /\ p.model = "graph" =>
        \A pair \in DOMAIN p.coupling : <<pair[2], pair[1]>> \in DOMAIN p.coupling =>
            p.coupling[<<pair[2], pair[1]>>] = p.coupling[pair]
ValidateTriggerOverrides(p) ==
    \A id \in DOMAIN p.triggers : id \in factorIDs \cup {"EF-3FA"} /\ p.triggers[id] # ""

\* ParamsFromConfig: unusable, not asked for, or enabled.
ParamsFromConfig(p) ==
    IF ~ValidateTriggerOverrides(p) THEN "error"
    ELSE IF p.model = "" THEN "off"
    ELSE IF ValidateAssembly(p) /\ Validate(p) THEN "on" ELSE "error"

\* newSynthesizePlan: chain needs timestamps no result carries, and a model
\* that adjusts no domain is refused.
NewSynthesizePlan(p) == p.model \in {"vector", "graph"} /\ DOMAIN p.lambda # {}

\* ApplyEdgeFactorModel: TRUE when both hooks are installed.  In every other
\* case the library is back on its product, and only "legacy" stays stamped.
HooksInstalled(p) == ParamsFromConfig(p) = "on" /\ p.model # "legacy" /\ NewSynthesizePlan(p)
Stamped(p) == ParamsFromConfig(p) = "on" /\ (p.model = "legacy" \/ NewSynthesizePlan(p))

CouplingValue(p, from, to) ==
    IF <<from, to>> \in DOMAIN p.coupling THEN p.coupling[<<from, to>>]
    ELSE IF p.model = "graph" /\ <<to, from>> \in DOMAIN p.coupling
         THEN p.coupling[<<to, from>>] ELSE 0

\* ActivationFromResult, activationsFromResults and resolveEffective: how
\* much each known, active factor takes away.  The engine's factor has been
\* attenuated once already and is attenuated a second time here.
EffectiveFactor(f, c) == IF c <= 0 THEN 100 ELSE IF c >= 10 THEN f ELSE 100 - ((100 - f) * c) \div 10
loss(factors, id) == 100 - EffectiveFactor(factors[id].factor, factors[id].trust)
known(factors) == {id \in factorIDs : factors[id].active}

\* Synthesize: the coefficient of a domain, in percent.
Synthesize(p, factors, d) ==
    LET vec(id) == IF id \in DOMAIN p.vectors THEN p.vectors[id][d] ELSE 100
        a(id) == (loss(factors, id) * vec(id)) \div 100
        pairs == {s \in SUBSET known(factors) : Cardinality(s) = 2}
        couple(s) == LET x == CHOOSE u \in s : TRUE
                         y == CHOOSE u \in s : u # x
                     IN  (CouplingValue(p, x, y) * a(x) * a(y)) \div 100
        load == MapThenSumSet(a, known(factors))
                + (IF p.model = "graph" THEN MapThenSumSet(couple, pairs) ELSE 0)
    IN  p.floor + ((100 - p.floor) * ExpNeg((p.lambda[d] * load) \div 100)) \div 100

\* RegisterDomainAdjust's function: only the domains with a lambda move.
AdjustDomains(scores, factors) ==
    [d \in DOMAIN scores |->
        IF HooksInstalled(model) /\ d \in DOMAIN model.lambda
        THEN (scores[d].score * Synthesize(model, factors, d)) \div 100
        ELSE scores[d].score]

----------------------------------------------------------------------------
\* The formulas

\* Layers: 50% intrinsic, 30% exposure, 20% threat, the last two not below 0.60.
Coefficient(c) == AtLeast(IF c <= 0 THEN 100 ELSE c, 60)
Layers(base) == 5 * base + 30 * Coefficient(coeff[1]) + 20 * Coefficient(coeff[2])

\* SSAMV20Formula.
SSAMV20Formula(scores, factors) ==
    LET adjusted == AdjustDomains(scores, factors)
        sum == MapThenSumSet(LAMBDA d : adjusted[d] * WeightOf[d], weighted(scores))
        base == sum \div totalWeight(scores)
    IN  IF totalWeight(scores) = 0 THEN 0
        ELSE Layers(IF HooksInstalled(model) THEN base ELSE ProductOnto(base, factors))


\* evaluateEdgeFactorChain: the legacy path walks the failed checks in the
\* order of the results.  Only the triggers of EF-002FA and EF-3FA, and
\* explicit overrides of the other built-in factors, activate anything.
LegacyConf(c) == IF conf[c] \in 1..10 THEN conf[c] ELSE 10
LegacyStep(factors, c) ==
    LET two == TriggerOf("EF-002FA", DefaultTrigger["EF-002FA"])
        three == TriggerOf("EF-3FA", "EF-002")
        f1 == IF c = two
              THEN [factors EXCEPT !["EF-002FA"] = Attenuate(BuiltinOf["EF-002FA"], LegacyConf(c))]
              ELSE IF c = three /\ factors["EF-002FA"] > 82
              THEN [factors EXCEPT !["EF-002FA"] = 82]
              ELSE factors
    IN  [id \in DOMAIN f1 |->
            IF id # "EF-002FA" /\ id \in DOMAIN model.triggers /\ model.triggers[id] = c
            THEN Attenuate(BuiltinOf[id], LegacyConf(c)) ELSE f1[id]]
EvaluateEdgeFactorChain ==
    FoldLeft(LAMBDA acc, c : IF c \in failing THEN LegacyStep(acc, c) ELSE acc,
             [id \in DOMAIN BuiltinOf |-> 100], order)

\* computeDynamicFinalScore over runLegacyScoring's domain scores.
LegacyScore(scores) ==
    LET factors == EvaluateEdgeFactorChain
        sum == MapThenSumSet(LAMBDA d : scores[d].score * WeightOf[d], weighted(scores))
        base == IF totalWeight(scores) = 0 THEN 0 ELSE sum \div totalWeight(scores)
    IN  Layers(FoldSet(LAMBDA id, acc : (acc * factors[id]) \div 100, base,
                       {id \in DOMAIN factors : factors[id] \in 1..99}))

----------------------------------------------------------------------------
\* prism-lib/core.go

FailureConfidence(c) == IF conf[c] \in 1..10 THEN conf[c] ELSE 10
ComputeDebtRaw ==
    MapThenSumSet(LAMBDA c : Deduction(c) * FailureConfidence(c) * Pow(days[c]), failing) \div 10
EffectiveFailureCount == MapThenSumSet(FailureConfidence, failing)

\* computeCollapseModifier, squared so that the square root of the number of
\* failures needs no approximation: debt^2 / (norm^2 * n), in percent.
CollapseNorm == 100
CollapseModifier(debt, failures) ==
    IF failures < 20 \/ debt <= 0 THEN 0
    ELSE AtMost((1000 * debt * debt) \div (CollapseNorm * CollapseNorm * failures), 100)

Isqrt(n) == CHOOSE r \in 0..200 : r * r <= n /\ (r + 1) * (r + 1) > n
\* WeightedTransmission and computeSpillover: what an upstream host passes on.
Spill(h) ==
    LET risk == 100 - upstream[h]
        sent == (Transmission * (10 + (90 * risk) \div 100)) \div 100
        crit == IF Neighbours[h] <= 0 THEN 50 ELSE Neighbours[h]
    IN  (risk * sent * (50 + crit)) \div 10000
\* computePropagatedRisk in its three modes, the default being "rss".
PropagatedRisk(mode) ==
    LET spills == {Spill(h) : h \in DOMAIN upstream}
    IN  CASE mode = "max" -> Max(spills \cup {0})
          [] mode = "linear" -> AtMost(MapThenSumSet(Spill, DOMAIN upstream), 100)
          [] OTHER -> AtMost(Isqrt(MapThenSumSet(LAMBDA h : Spill(h) * Spill(h),
                                                 DOMAIN upstream)), 100)

\* ComputeDynamicScore: the score less three penalties, with a floor.
Modes == {"max", "linear", "rss"}
PropCap == 25
DebtCap == 30
ScoreFloor == 15
ComputeDynamicScore(ssam, mode) ==
    LET prop == AtMost(PropagatedRisk(mode), PropCap)
        debt == AtMost((ComputeDebtRaw * 100) \div CollapseNorm, DebtCap)
        collapse == CollapseModifier(ComputeDebtRaw, EffectiveFailureCount)
        kept == (((((ssam * (100 - prop)) \div 100) * (100 - debt)) \div 100)
                    * (100 - collapse)) \div 100
    IN  AtMost(AtLeast(kept, (ssam * ScoreFloor) \div 100), 10000)

\* computeMemberships and determineCurrentState: the dominant state, first
\* in the order of names when two are equal.  x is in hundredths of a point.
Up(x, lo, hi) == IF x <= lo THEN 0 ELSE IF x >= hi THEN 10000 ELSE ((x - lo) * 10000) \div (hi - lo)
Down(x, lo, hi) == 10000 - Up(x, lo, hi)
Tri(x, lo, mid, hi) ==
    IF x <= lo \/ x >= hi THEN 0
    ELSE IF x <= mid THEN ((x - lo) * 10000) \div (mid - lo)
    ELSE ((hi - x) * 10000) \div (hi - mid)
ComputeMemberships(x) ==
    <<Up(x, 7000, 9000), Tri(x, 5000, 6000, 9000), Tri(x, 0, 2500, 7000), Down(x, 0, 5000)>>
DetermineCurrentState(x) ==
    LET m == ComputeMemberships(x)
    IN  CHOOSE i \in 1..4 : /\ \A j \in 1..4 : m[j] <= m[i]
                            /\ \A j \in 1..(i - 1) : m[j] < m[i]

----------------------------------------------------------------------------
ScoringInit ==
    /\ outcome \in [Checks -> {"absent", "pass", "fail"}]
    /\ \E s \in Scenarios :
        /\ conf = s.conf /\ order = s.order /\ policy = s.policy /\ model = s.model
        /\ coeff = s.coeff /\ threshold = s.threshold
    /\ days = [c \in Checks |-> 0]
    /\ upstream \in [DOMAIN Neighbours -> {100}] /\ changes = 0
    /\ domainScores = ComputeDomainScoresBayes
    /\ edgeFactors = ApplyEdgeFactorsToChecksPolicy
    /\ finalScore = SSAMV20Formula(domainScores, edgeFactors)
    /\ legacyScore = LegacyScore(domainScores)
    /\ prismScore = [m \in Modes |-> ComputeDynamicScore(finalScore, m)]

\* The prism pass of the assessor over the results, after every scoring.
ApplyPrism == prismScore' = [m \in Modes |-> ComputeDynamicScore(finalScore, m)]'

\* Engine.ComputeScore and runLegacyScoring over the new results.
Rescore ==
    /\ changes < MaxChanges /\ changes' = changes + 1
    /\ domainScores' = ComputeDomainScoresBayes'
    /\ edgeFactors' = ApplyEdgeFactorsToChecksPolicy'
    /\ finalScore' = SSAMV20Formula(domainScores, edgeFactors)'
    /\ legacyScore' = LegacyScore(domainScores)'
    /\ ApplyPrism
\* The same results scored once more: only the dynamic score may differ.
Reassess ==
    /\ changes < MaxChanges /\ changes' = changes + 1
    /\ UNCHANGED <<domainScores, edgeFactors, finalScore, legacyScore>>
    /\ ApplyPrism

\* A check that failed passes in the next results.
Fix(c) ==
    /\ outcome[c] = "fail"
    /\ outcome' = [outcome EXCEPT ![c] = "pass"]
    /\ days' = [days EXCEPT ![c] = 0]
    /\ UNCHANGED <<conf, order, policy, model, coeff, threshold, upstream>>
    /\ Rescore

\* The source of a failing check is believed less.
Doubt(c) ==
    /\ outcome[c] = "fail" /\ conf[c] > 1
    /\ conf' = [conf EXCEPT ![c] = 1]
    /\ UNCHANGED <<outcome, order, policy, model, coeff, threshold, days, upstream>>
    /\ Rescore

\* Time passes and nothing is fixed.
DayPasses ==
    /\ failing # {} /\ \A c \in failing : days[c] < MaxDays
    /\ days' = [c \in Checks |-> IF c \in failing THEN days[c] + 1 ELSE 0]
    /\ UNCHANGED <<outcome, conf, order, policy, model, coeff, threshold, upstream>>
    /\ Reassess

\* An upstream host is scored anew, and worse.
NeighbourFalls(h, to) ==
    /\ to < upstream[h]
    /\ upstream' = [upstream EXCEPT ![h] = to]
    /\ UNCHANGED <<outcome, conf, order, policy, model, coeff, threshold, days>>
    /\ Reassess

Accepted(byLower) == AcceptanceDecision(finalScore, domainScores, byLower)

ScoringNext ==
    \/ \E c \in Checks : Fix(c) \/ Doubt(c)
    \/ DayPasses
    \/ \E h \in DOMAIN Neighbours, to \in NeighbourScores : NeighbourFalls(h, to)

ScoringSpec == ScoringInit /\ [][ScoringNext]_scoreVars

----------------------------------------------------------------------------
fixed == {c \in Checks : outcome[c] = "fail" /\ outcome'[c] = "pass"}
doubted == {c \in failing : conf'[c] < conf[c]}
FixPays ==
    fixed \cup doubted # {} =>
        /\ finalScore' >= finalScore
        /\ TriggerOf("EF-002FA", DefaultTrigger["EF-002FA"]) \notin fixed \cup doubted
             => legacyScore' >= legacyScore
        /\ fixed # {} => \A byLower \in BOOLEAN : Accepted(byLower) => Accepted(byLower)'
NeglectCosts ==
    (days' # days /\ outcome' = outcome) \/ upstream' # upstream =>
        \A m \in Modes : /\ prismScore'[m] <= prismScore[m]
                         /\ DetermineCurrentState(prismScore'[m]) >= DetermineCurrentState(prismScore[m])

\* Fixing a check, or believing a failure less, never lowers the score of
\* either path, and fixing never turns an accepted host down: under every
\* confidence policy, edge-factor model (assembled or refused), cascade and
\* trigger override.  The one exception is the second factor's own check on
\* the legacy path, whose milder value replaces the cascade of the third
\* factor when it comes after it.  And untreated risk never looks better: when
\* only time passes or an upstream host gets worse, the dynamic score of
\* prism-lib does not rise in any aggregation mode, and the state named for it
\* does not improve.
ScoreFollowsRisk == [][FixPays /\ NeglectCosts]_scoreVars

\* prism-lib/core.go: "the same total debt from 4 concurrent failures is more
\* dangerous than from 1 failure": with the debt of this host, its number of
\* failures collapses at least as much as the smallest number that counts.
ManyFailuresCollapseMore ==
    EffectiveFailureCount >= 20 =>
        CollapseModifier(ComputeDebtRaw, 20) <= CollapseModifier(ComputeDebtRaw, EffectiveFailureCount)
============================================================================
