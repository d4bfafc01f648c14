------------------------------ MODULE Assessment ------------------------------
(***************************************************************************)
(* The assessor (internal/assessor/assessor.go) and the engine behind it   *)
(* while the configuration is reloaded under it.                           *)
(*                                                                         *)
(* An evaluation reads the configuration in many places and never holds a  *)
(* lock over two of them; a reload (ReloadConfig, called by the            *)
(* configuration watcher and by the secure mode) writes those places one   *)
(* after the other.  A place is modelled by the number of the              *)
(* configuration it holds.  Scores are in points, coefficients in percent. *)
(***************************************************************************)
EXTENDS Integers, FiniteSets

CONSTANTS
    Configs,      \* sequence of [threshold, byLower, weight, factor, model, floor]
    Evaluators,   \* goroutines that evaluate: one per heartbeat or request
    Reloaders,    \* goroutines that reload
    HostNames,
    Reported,     \* sets of checks that may fail in one set of results
    Denied,       \* checks whose failure is a missing permission
    Coeffs,       \* threat coefficients the CTI module may report
    MaxCalls      \* bound on the evaluations and reloads of a behaviour

Versions == DOMAIN Configs

\* validateRanges (config/ranges.go): a configuration with another threshold is not loaded.
ASSUME AssessmentAssumption == /\ 1 \in Versions
                               /\ \A v \in Versions : Configs[v].threshold \in 1 .. 100

NoResult == [score |-> -1]
Idle == [pc |-> "idle"]

VARIABLES
    moduleCfg,    \* Module.cfg
    engineCfg,    \* Assessor.cfg of the engine
    adapterCfg,   \* EngineAdapter.confCfg
    engWeights, engFactors, engAccept,  \* the parts of the engine's own configuration
    loadedModel,  \* the edge-factor parameters the engine says it loaded, 0 for none
    strategyHook, adjustHook,  \* whose hooks the library has, 0 for its default
    prismFloor,   \* a parameter of the prism engine
    reloads,      \* [Reloaders -> [pc, v]]
    evals,        \* [Evaluators -> the evaluation in progress]
    stored,       \* Module.results
    failTracker,  \* [host -> [check -> time of its first failure]]
    assets,       \* the SPC assets: [host -> [zone, ips, whitelist]]
    ctiCoeff,     \* CTI's coefficient
    clock,
    calls,        \* evaluations and reloads begun
    tangled       \* two reloads have overlapped and no other has followed

places == <<moduleCfg, engineCfg, adapterCfg, engWeights, engFactors, engAccept, loadedModel,
            strategyHook, adjustHook, prismFloor>>
assessVars == <<places, reloads, evals, stored, failTracker, assets, ctiCoeff, clock, calls, tangled>>

----------------------------------------------------------------------------
\* Scores.  A failed check costs what the weights say; EF-1 is the trigger of
\* the one edge factor, a product by default and a domain's coefficient under
\* a model; exposure and threat weigh 30% and 20%.
baseScore(failed, v) == 100 - Configs[v].weight * Cardinality(failed)
penalised(failed, base, f, strategy, adjust) ==
    LET adjusted == IF adjust # 0 /\ "EF-1" \in failed 
                    THEN (base * Configs[adjust].factor) \div 100 ELSE base
    IN  IF strategy = 0 /\ "EF-1" \in failed THEN (adjusted * Configs[f].factor) \div 100 ELSE adjusted
total(base, spc, coeff) == (50 * base + 30 * spc + 20 * coeff) \div 100
lowerBound(score, failed) == score - 2 * Cardinality(failed)
decide(score, lower, threshold, byLower) == score >= threshold /\ (byLower => lower >= threshold)

\* calculateExposure seen from here: compensations lessen what the CVEs cost.
spcOf(a) == 70 + (IF a.ips THEN 10 ELSE 0) + (IF a.whitelist THEN 10 ELSE 0)
                + (IF a.zone = "internal" THEN 10 ELSE 0)

----------------------------------------------------------------------------
\* Reload: ReloadConfig, Assessor.ReloadWeights, EngineAdapter.ReloadWeights
\* and ApplyEdgeFactorModel, one step for each place they write.

reloading == {r \in Reloaders : reloads[r].pc # "idle"}
At(r, pc) == reloads[r].pc = pc
Go(r, pc) == reloads' = [reloads EXCEPT ![r].pc = pc]
untouched == <<stored, failTracker, assets, ctiCoeff, clock>>

\* An evaluation a reload runs into is no longer one of a single configuration.
ReloadConfig(r, v) ==
    /\ At(r, "idle") /\ calls < MaxCalls
    /\ reloads' = [reloads EXCEPT ![r] = [pc |-> "engine", v |-> v]]
    /\ moduleCfg' = v
    /\ tangled' = (reloading # {})
    /\ calls' = calls + 1
    /\ evals' = [e \in Evaluators |-> IF evals[e].pc = "idle" THEN Idle
                                      ELSE [evals[e] EXCEPT !.quiet = FALSE]]
    /\ UNCHANGED <<engineCfg, adapterCfg, engWeights, engFactors, engAccept, loadedModel,
                   strategyHook, adjustHook, prismFloor, untouched>>

\* Nothing below reads both of these in one step.
ReloadEngine(r) ==
    /\ At(r, "engine") /\ Go(r, "weights")
    /\ engineCfg' = reloads[r].v /\ adapterCfg' = reloads[r].v
    /\ UNCHANGED <<moduleCfg, engWeights, engFactors, engAccept, loadedModel,
                   strategyHook, adjustHook, prismFloor, evals, calls, tangled, untouched>>

\* SetWeights, SetEdgeFactors, SetConfidencePolicy and SetAcceptByLowerBound:
\* each takes the engine's lock for itself.
SetWeights(r) ==
    /\ At(r, "weights") /\ Go(r, "factors")
    /\ engWeights' = reloads[r].v
    /\ UNCHANGED <<moduleCfg, engineCfg, adapterCfg, engFactors, engAccept, loadedModel,
                   strategyHook, adjustHook, prismFloor, evals, calls, tangled, untouched>>
SetEdgeFactors(r) ==
    /\ At(r, "factors") /\ Go(r, "accept")
    /\ engFactors' = reloads[r].v
    /\ UNCHANGED <<moduleCfg, engineCfg, adapterCfg, engWeights, engAccept, loadedModel,
                   strategyHook, adjustHook, prismFloor, evals, calls, tangled, untouched>>
\* A mutant: the reload forgets the acceptance rule.
AcceptForgotten(r) == At(r, "accept") /\ Go(r, "model")
    /\ UNCHANGED <<places, evals, calls, tangled, untouched>>
SetAcceptByLowerBound(r) ==
    /\ At(r, "accept") /\ Go(r, "model")
    /\ engAccept' = reloads[r].v
    /\ UNCHANGED <<moduleCfg, engineCfg, adapterCfg, engWeights, engFactors, loadedModel,
                   strategyHook, adjustHook, prismFloor, evals, calls, tangled, untouched>>

\* ApplyEdgeFactorModel: no model, or one that cannot be used, clears what is
\* loaded and resets the hooks; a model is stored and then installs its hooks.
StoreModel(r) ==
    /\ At(r, "model") /\ Go(r, "strategy")
    /\ loadedModel' = IF Configs[reloads[r].v].model = "on" THEN reloads[r].v ELSE 0
    /\ UNCHANGED <<moduleCfg, engineCfg, adapterCfg, engWeights, engFactors, engAccept,
                   strategyHook, adjustHook, prismFloor, evals, calls, tangled, untouched>>
RegisterStrategy(r) ==
    /\ At(r, "strategy") /\ Go(r, "adjust")
    /\ strategyHook' = IF Configs[reloads[r].v].model = "on" THEN reloads[r].v ELSE 0
    /\ UNCHANGED <<moduleCfg, engineCfg, adapterCfg, engWeights, engFactors, engAccept,
                   loadedModel, adjustHook, prismFloor, evals, calls, tangled, untouched>>
RegisterAdjust(r) ==
    /\ At(r, "adjust") /\ Go(r, "prism")
    /\ adjustHook' = IF Configs[reloads[r].v].model = "on" THEN reloads[r].v ELSE 0
    /\ UNCHANGED <<moduleCfg, engineCfg, adapterCfg, engWeights, engFactors, engAccept,
                   loadedModel, strategyHook, prismFloor, evals, calls, tangled, untouched>>
\* setupPrismConfig reads Module.cfg as it is by then, and a parameter the
\* configuration no longer has keeps its last value.
SetupPrism(r) ==
    /\ At(r, "prism") /\ Go(r, "idle")
    /\ prismFloor' = IF Configs[moduleCfg].floor > 0 THEN Configs[moduleCfg].floor ELSE prismFloor
    /\ UNCHANGED <<moduleCfg, engineCfg, adapterCfg, engWeights, engFactors, engAccept,
                   loadedModel, strategyHook, adjustHook, evals, calls, tangled, untouched>>

----------------------------------------------------------------------------
\* Evaluation.

Set(e, rec) == evals' = [evals EXCEPT ![e] = rec]
unmoved == <<places, reloads, tangled>>

\* EvaluateFromResults up to the scoring: the failures that are a missing
\* permission count as passed; no results at all is a perfect score.
EvaluateFromResults(e, h, failed, empty) ==
    /\ evals[e].pc = "idle" /\ calls < MaxCalls
    /\ empty => failed = {}
    /\ calls' = calls + 1
    /\ Set(e, [pc |-> IF empty THEN "track" ELSE "context", kind |-> "report", host |-> h,
               failed |-> failed \ Denied,
               threshold |-> Configs[moduleCfg].threshold, spc |-> 100, coeff |-> 100,
               score |-> 100, lower |-> 100, accept |-> TRUE,
               snap |-> [w |-> engWeights, f |-> engFactors, a |-> engAccept], adjust |-> 0,
               stamp |-> 0, prism |-> 0, empty |-> empty,
               quiet |-> reloading = {} /\ ~tangled])
    /\ UNCHANGED <<unmoved, stored, failTracker, assets, ctiCoeff, clock>>

\* Evaluate: Assess runs the kernel's own checks; its SPC score is computed
\* and dropped, so the exposure stays 1.0.
Evaluate(e, h, failed) ==
    /\ evals[e].pc = "idle" /\ calls < MaxCalls
    /\ calls' = calls + 1
    /\ Set(e, [pc |-> "snapshot", kind |-> "request", host |-> h, failed |-> failed \ Denied,
               threshold |-> Configs[engineCfg].threshold, spc |-> 100, coeff |-> 100,
               score |-> 100, lower |-> 100, accept |-> TRUE,
               snap |-> [w |-> engWeights, f |-> engFactors, a |-> engAccept], adjust |-> 0,
               stamp |-> 0, prism |-> 0, empty |-> FALSE,
               quiet |-> reloading = {} /\ ~tangled])
    /\ UNCHANGED <<unmoved, stored, failTracker, assets, ctiCoeff, clock>>

\* syncACIToAsset: a passed assumed-compromise check compensates, and nothing
\* takes a compensation back.
syncACI(a, failed) ==
    [zone |-> IF "AC-001" \notin failed THEN "internal" ELSE a.zone,
     ips |-> a.ips \/ "AC-004" \notin failed,
     whitelist |-> a.whitelist \/ "AC-005" \notin failed]
ApplySPCAndCTI(e) ==
    /\ evals[e].pc = "context"
    /\ LET h == evals[e].host
           a == syncACI(assets[h], evals[e].failed)
       IN  /\ assets' = [assets EXCEPT ![h] = a]
           /\ Set(e, [evals[e] EXCEPT !.pc = "snapshot", !.spc = spcOf(a), !.coeff = ctiCoeff])
    /\ UNCHANGED <<unmoved, stored, failTracker, ctiCoeff, clock, calls>>

\* Engine.ComputeScore: the engine's configuration is copied under its lock.
ComputeScore(e) ==
    /\ evals[e].pc = "snapshot"
    /\ Set(e, [evals[e] EXCEPT !.pc = "formula",
                               !.snap = [w |-> engWeights, f |-> engFactors, a |-> engAccept]])
    /\ UNCHANGED <<unmoved, calls, untouched>>
\* SSAMV20Formula asks for the domain hook first and for the strategy later.
AskAdjust(e) ==
    /\ evals[e].pc = "formula"
    /\ Set(e, [evals[e] EXCEPT !.pc = "strategy", !.adjust = adjustHook])
    /\ UNCHANGED <<unmoved, calls, untouched>>
AskStrategy(e) ==
    /\ evals[e].pc = "strategy"
    /\ LET x == evals[e]
           base == penalised(x.failed, baseScore(x.failed, x.snap.w), x.snap.f, strategyHook, x.adjust)
           s == total(base, x.spc, x.coeff)
           l == lowerBound(s, x.failed)
       IN  Set(e, [x EXCEPT !.pc = "stamp", !.score = s, !.lower = l,
                            !.accept = decide(s, l, x.threshold, Configs[x.snap.a].byLower)])
    /\ UNCHANGED <<unmoved, calls, untouched>>
\* EngineAdapter.ComputeScore asks last which model the engine has loaded.
Stamp(e) ==
    /\ evals[e].pc = "stamp"
    /\ Set(e, [evals[e] EXCEPT !.pc = IF evals[e].kind = "request" THEN "cti" ELSE "track",
                               !.stamp = loadedModel])
    /\ UNCHANGED <<unmoved, calls, untouched>>

\* applyCTIOnly: the whole score is scaled, and decided again under the
\* acceptance rule of Module.cfg.
ApplyCTIOnly(e) ==
    /\ evals[e].pc = "cti"
    /\ LET x == evals[e]
           s == (x.score * ctiCoeff) \div x.coeff
           l == (x.lower * ctiCoeff) \div x.coeff
       IN  IF ctiCoeff = x.coeff THEN Set(e, [x EXCEPT !.pc = "track"])
           ELSE Set(e, [x EXCEPT !.pc = "track", !.score = s, !.lower = l, !.coeff = ctiCoeff,
                                 !.accept = decide(s, l, x.threshold, Configs[moduleCfg].byLower)])
    /\ UNCHANGED <<unmoved, calls, untouched>>

\* updateFailTracker: the time of a failure is that of the first result with
\* it since the check last passed; a check not in the results is left alone.
UpdateFailTracker(e) ==
    /\ evals[e].pc = "track"
    /\ clock' = clock + 1
    /\ LET x == evals[e]
       IN  failTracker' = [failTracker EXCEPT ![x.host] =
                [c \in DOMAIN @ |-> IF x.empty THEN @[c]
                                    ELSE IF c \notin x.failed THEN 0
                                    ELSE IF @[c] = 0 THEN clock ELSE @[c]]]
    /\ Set(e, [evals[e] EXCEPT !.pc = "prism"])
    /\ UNCHANGED <<unmoved, stored, assets, ctiCoeff, calls>>

\* buildNodeState, collectTopologySnapshot and applyPrismToResult: every other
\* host with a result is upstream; the floor holds whatever the penalties are.
debtOf(h, failed) ==
    Cardinality({c \in failed : failTracker[h][c] # 0 /\ failTracker[h][c] < clock - 1})
upstreamRisk(h) ==
    {100 - stored[o].score : o \in {x \in HostNames \ {h} : stored[x] # NoResult}}
ApplyPrismToResult(e) ==
    /\ evals[e].pc = "prism"
    /\ LET x == evals[e]
           risk == IF upstreamRisk(x.host) = {} THEN 0
                   ELSE (CHOOSE m \in upstreamRisk(x.host) : \A n \in upstreamRisk(x.host) : n <= m) \div 4
           kept == x.score - risk - 5 * debtOf(x.host, x.failed)
           floor == (x.score * prismFloor) \div 100
       IN  Set(e, [x EXCEPT !.pc = "store", !.prism = IF kept < floor THEN floor ELSE kept])
    /\ UNCHANGED <<unmoved, calls, untouched>>

\* m.results[hostID] = result, then the hooks, the SIEM push and PublishSync.
\* (the record also says how the result came about)
Store(e) ==
    /\ evals[e].pc = "store"
    /\ stored' = [stored EXCEPT ![evals[e].host] = evals[e]]
    /\ Set(e, Idle)
    /\ UNCHANGED <<unmoved, failTracker, assets, ctiCoeff, clock, calls>>

\* External: the CTI module reports another coefficient.
CoefficientChanges(c) ==
    /\ c # ctiCoeff /\ calls < MaxCalls
    /\ ctiCoeff' = c
    /\ UNCHANGED <<unmoved, evals, stored, failTracker, assets, clock, calls>>

----------------------------------------------------------------------------
AssessInit ==
    /\ moduleCfg = 1 /\ engineCfg = 1 /\ adapterCfg = 1
    /\ engWeights = 1 /\ engFactors = 1 /\ engAccept = 1
    /\ LET hook == IF Configs[1].model = "on" THEN 1 ELSE 0
       IN  loadedModel = hook /\ strategyHook = hook /\ adjustHook = hook
    /\ prismFloor = Configs[1].floor
    /\ reloads = [r \in Reloaders |-> [pc |-> "idle", v |-> 1]]
    /\ evals = [e \in Evaluators |-> Idle]
    /\ stored = [h \in HostNames |-> NoResult]
    /\ failTracker = [h \in HostNames |-> [c \in UNION Reported |-> 0]]
    /\ assets = [h \in HostNames |-> [zone |-> "", ips |-> FALSE, whitelist |-> FALSE]]
    /\ ctiCoeff = 100 /\ clock = 1 /\ calls = 0 /\ tangled = FALSE

AssessNext ==
    \/ \E r \in Reloaders : \/ \E v \in Versions : ReloadConfig(r, v)
                            \/ ReloadEngine(r)
                            \/ SetWeights(r) \/ SetEdgeFactors(r) \/ SetAcceptByLowerBound(r)
                            \/ StoreModel(r) \/ RegisterStrategy(r) \/ RegisterAdjust(r)
                            \/ SetupPrism(r)
    \/ \E e \in Evaluators, h \in HostNames, failed \in Reported :
            \/ \E empty \in BOOLEAN : EvaluateFromResults(e, h, failed, empty)
            \/ Evaluate(e, h, failed)
    \/ \E e \in Evaluators : \/ ApplySPCAndCTI(e) \/ ComputeScore(e) \/ AskAdjust(e)
                             \/ AskStrategy(e) \/ Stamp(e) \/ ApplyCTIOnly(e)
                             \/ UpdateFailTracker(e) \/ ApplyPrismToResult(e) \/ Store(e)
    \/ \E c \in Coeffs : CoefficientChanges(c)

AssessSpec == AssessInit /\ [][AssessNext]_assessVars

----------------------------------------------------------------------------
\* What the results say of a host is sound whatever is reloaded meanwhile: an
\* accepted host reached the threshold of its own result, and an evaluation no
\* reload ran into was scored, stamped and decided under one configuration,
\* the one the assessor says it has, in all its parts.
heldOf(v) == IF Configs[v].model = "on" THEN v ELSE 0
ResultsSound ==
    \A h \in HostNames : stored[h] # NoResult =>
        LET x == stored[h]
            v == x.snap.w
            s == total(penalised(x.failed, baseScore(x.failed, v), v, heldOf(v), heldOf(v)), x.spc, x.coeff)
        IN  /\ x.accept => x.score >= x.threshold
            /\ x.quiet /\ ~x.empty =>
                 /\ x.threshold = Configs[v].threshold /\ x.stamp = heldOf(v)
                 /\ Configs[v].byLower /\ x.accept => x.lower >= x.threshold
                 /\ x.kind = "report" => x.score = s

\* "the stamp and the parameters the score was computed with always have the
\* same origin" (the comment of ApplyEdgeFactorModel): the model a result is
\* stamped with is the model whose coefficients its domains were given.
StampMatchesScoring ==
    \A h \in HostNames : stored[h] # NoResult /\ ~stored[h].empty => stored[h].stamp = stored[h].adjust
===============================================================================
