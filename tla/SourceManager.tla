---------------------------- MODULE SourceManager ----------------------------
(***************************************************************************)
(* The manager of the assessment sources (internal/sourcemanager): sources *)
(* are deployed, enabled, updated, run and uninstalled; their state is     *)
(* saved in a file, and whether an adapter runs is an entry of the         *)
(* kernel's configuration, which a reload replaces, while the integration  *)
(* (kernel/adapter_integration.go) goes on with the one of its start.  A   *)
(* save may fail, which is only logged, and those of runs take no lock:    *)
(* they read the two maps one after the other and share one temporary file *)
(* with every other save.                                                  *)
(***************************************************************************)
EXTENDS Integers, FiniteSets, TLC

CONSTANTS Sources, Builtin,  \* ids, and those of registered adapters
          DependsOn,         \* id -> ids its spec names
          OnInFile,          \* ids the configuration file turns on
          Runners,           \* concurrent requests to run a source
          MaxReloads, MaxRestarts, MaxOps, MaxSaveFaults  \* bounds

\* The spec made of a registered adapter names no other source (syncFromAdapterRegistry).
ASSUME BuiltinAssumption == \A id \in Builtin : DependsOn[id] = {}

VARIABLES specs, statuses,  \* deployed ids; id -> [state, enabled]
          kernelOn,    \* adapters that are on in the kernel's configuration
          oldOn,       \* those of the configuration that the integration started with, once they differ
          reloaded,    \* the kernel's configuration is not that one any more
          savedState,  \* what the state file holds for a load
          runner,      \* runner -> [pc, id, on, file], a request in progress
          overtaken,   \* ids whose run ended without a result, or on a source changed meanwhile
          misfiled,    \* ids deployed or uninstalled while a run read the maps
          driven,      \* ids enabled or disabled since the start, their switch not touched otherwise
          overwrote,   \* the last save failed, met another one or was older than the state there is
          ops, reloads, restarts, saveFaults

srcCounters == <<ops, reloads, restarts, saveFaults>>
histories == <<overtaken, misfiled, driven>>
srcVars == <<specs, statuses, kernelOn, oldOn, reloaded, savedState, runner, histories, overwrote, srcCounters>>

\* What loadState makes of a file that is not there, or not whole.
NoSources == [specs |-> {}, statuses |-> << >>]
Idle == [pc |-> "idle", id |-> "", on |-> {}, file |-> NoSources]
statusOf(state, enabled) == [state |-> state, enabled |-> enabled]
known == DOMAIN statuses
without(f, id) == [x \in (DOMAIN f) \ {id} |-> f[x]]
with(f, id, v) == [x \in DOMAIN f \cup {id} |-> IF x = id THEN v ELSE f[x]]
running(id) == \E r \in Runners : runner[r].pc # "idle" /\ runner[r].id = id
\* An operation on a source while it runs.
touch(id) == overtaken' = IF running(id) THEN overtaken \cup {id} ELSE overtaken

\* What the integration reads, and the switch of an adapter in the kernel's configuration.
adapterOn == IF reloaded THEN oldOn ELSE kernelOn
setAdapterEnabled(id, on) == kernelOn' = IF on THEN kernelOn \cup {id} ELSE kernelOn \ {id}

file == [specs |-> specs, statuses |-> statuses]
\* The runs that may have the temporary file open, and what another save makes of them.
savers == {r \in Runners : runner[r].pc \in {"write", "crossed"}}
crossed == [r \in Runners |-> IF r \in savers THEN [runner[r] EXCEPT !.pc = "crossed"] ELSE runner[r]]
saveFails == saveFaults < MaxSaveFaults /\ saveFaults' = saveFaults + 1 /\ UNCHANGED savedState
\* A save under the lock.
saveState ==
    /\ runner' = crossed
    /\ \/ savedState' = [specs |-> specs', statuses |-> statuses'] /\ overwrote' = FALSE /\ UNCHANGED saveFaults
       \/ savers # {} /\ savedState' = NoSources /\ overwrote' = TRUE /\ UNCHANGED saveFaults
       \/ saveFails /\ overwrote' = TRUE
op == ops < MaxOps /\ ops' = ops + 1 /\ UNCHANGED <<reloads, restarts, reloaded, oldOn, misfiled>>

\* The status of a source, one of no source if there is none.
current(id) == IF id \in known THEN statuses[id] ELSE statusOf("", FALSE)

----------------------------------------------------------------------------
\* The settings may turn the adapter on or off, whatever the state says.
applyConfigToAdapter(id) ==
    \/ UNCHANGED <<kernelOn, driven>>
    \/ \E on \in BOOLEAN : setAdapterEnabled(id, on) /\ driven' = driven \ {id}

DeploySource(id) ==
    /\ op /\ id \notin known
    /\ \A d \in DependsOn[id] : d \in known /\ statuses[d].state \in {"enabled", "running"}
    /\ specs' = specs \cup {id} /\ statuses' = with(statuses, id, statusOf("installed", FALSE))
    /\ applyConfigToAdapter(id) /\ saveState /\ touch(id)

UninstallSource(id, force) ==
    /\ op /\ id \in specs \cap known /\ (force \/ statuses[id].state # "running")
    /\ \A s \in specs : id \in DependsOn[s] => ~current(s).enabled
    /\ specs' = specs \ {id} /\ statuses' = without(statuses, id)
    /\ setAdapterEnabled(id, FALSE) /\ driven' = driven \ {id} /\ saveState /\ touch(id)

EnableSource(id) ==
    /\ op /\ id \in specs /\ current(id).state \notin {"enabled", "running"}
    /\ \A d \in DependsOn[id] : current(d).enabled
    /\ statuses' = with(statuses, id, statusOf("enabled", TRUE))
    /\ setAdapterEnabled(id, TRUE) /\ driven' = driven \cup {id}
    /\ UNCHANGED specs /\ saveState /\ touch(id)

\* Nobody asks who depends on it.
DisableSource(id) ==
    /\ op /\ id \in specs /\ current(id).enabled
    /\ statuses' = with(statuses, id, statusOf("disabled", FALSE))
    /\ setAdapterEnabled(id, FALSE) /\ driven' = driven \cup {id}
    /\ UNCHANGED specs /\ saveState /\ touch(id)

UpdateSource(id) ==
    /\ op /\ id \in specs
    /\ LET enabled == current(id).enabled
       IN statuses' = with(statuses, id, statusOf(IF enabled THEN "enabled" ELSE "installed", enabled))
    /\ UNCHANGED <<specs, kernelOn, driven>> /\ saveState /\ touch(id)

ConfigureSource(id) ==
    /\ op /\ id \in specs
    /\ statuses' = with(statuses, id, current(id))
    /\ UNCHANGED <<specs, overtaken>> /\ applyConfigToAdapter(id) /\ saveState

----------------------------------------------------------------------------
\* RunSourceNow marks the source, runs every adapter that is on without the lock, reads the
\* status again, and saves without the lock.  It gives up when the container has no integration.
RunSourceNow(r, id) ==
    /\ ops < MaxOps /\ ops' = ops + 1 /\ runner[r].pc = "idle" /\ id \in known /\ statuses[id].enabled
    /\ statuses' = [statuses EXCEPT ![id].state = "running"]
    /\ \/ runner' = [runner EXCEPT ![r].pc = "run", ![r].id = id] /\ UNCHANGED overtaken
       \/ overtaken' = overtaken \cup {id} /\ UNCHANGED runner
    /\ UNCHANGED <<specs, kernelOn, oldOn, reloaded, savedState, misfiled, driven, reloads, restarts, saveFaults, overwrote>>
RunAdapters(r) ==
    /\ runner[r].pc = "run" /\ runner' = [runner EXCEPT ![r].pc = "ran", ![r].on = adapterOn \cap Builtin]
    /\ UNCHANGED <<specs, statuses, kernelOn, oldOn, reloaded, savedState, histories, srcCounters, overwrote>>

\* The status as it is now.
RunEnds(r) ==
    LET id == runner[r].id
    IN /\ runner[r].pc = "ran" /\ runner' = [runner EXCEPT ![r].pc = "save", ![r].on = {}]
       /\ IF id \in runner[r].on
          THEN /\ \E state \in {"enabled", "error"} : statuses' = with(statuses, id, statusOf(state, current(id).enabled))
               /\ overtaken' = IF id \in known THEN overtaken ELSE overtaken \cup {id}
          ELSE statuses' = with(statuses, id, current(id)) /\ overtaken' = overtaken \cup {id}
       /\ UNCHANGED <<specs, kernelOn, oldOn, reloaded, savedState, misfiled, driven, srcCounters, overwrote>>
\* The save of a run: the specs, the statuses, the file.
RunReadsSpecs(r) ==
    /\ runner[r].pc = "save" /\ runner' = [runner EXCEPT ![r].pc = "half", ![r].file.specs = specs]
    /\ UNCHANGED <<specs, statuses, kernelOn, oldOn, reloaded, savedState, histories, srcCounters, overwrote>>
RunMarshals(r) ==
    LET read == runner[r].file.specs
    IN /\ runner[r].pc = "half"
       /\ runner' = [crossed EXCEPT ![r].pc = IF savers = {} THEN "write" ELSE "crossed",
                                    ![r].file = [specs |-> read, statuses |-> statuses]]
       /\ misfiled' = misfiled \cup (read \ specs) \cup (specs \ read)
       /\ UNCHANGED <<specs, statuses, kernelOn, oldOn, reloaded, savedState, overtaken, driven, srcCounters, overwrote>>
\* A file that another save was writing too is this one's, the other's or neither's.
RunSaves(r) ==
    /\ r \in savers /\ runner' = [runner EXCEPT ![r] = Idle]
    /\ \/ savedState' = runner[r].file /\ UNCHANGED saveFaults
       \/ runner[r].pc = "crossed" /\ savedState' \in {savedState, NoSources} /\ UNCHANGED saveFaults
       \/ saveFails
    /\ overwrote' = (savedState' # file)
    /\ UNCHANGED <<specs, statuses, kernelOn, oldOn, reloaded, histories, ops, reloads, restarts>>

----------------------------------------------------------------------------
\* A reload of the configuration: the file's switches, in a new map.
Reload ==
    /\ reloads < MaxReloads /\ reloads' = reloads + 1
    /\ kernelOn' = OnInFile /\ oldOn' = adapterOn /\ reloaded' = TRUE /\ driven' = {}
    /\ UNCHANGED <<specs, statuses, savedState, runner, overtaken, misfiled, ops, restarts, saveFaults, overwrote>>

\* Init loads the state file and adds the registered adapters it has no spec of.
syncFromAdapterRegistry(old) ==
    LET new == Builtin \ old.specs
    IN /\ specs' = old.specs \cup new
       /\ statuses' = [id \in (DOMAIN old.statuses) \cup new |->
                         IF id \notin new THEN old.statuses[id]
                         ELSE statusOf(IF id \in OnInFile THEN "enabled" ELSE "installed", id \in OnInFile)]
\* Stop saves the state, unless that fails or meets the save of a run; a crash does not.  A run
\* in progress never ends.
RestartSources(old) ==
    /\ restarts < MaxRestarts /\ restarts' = restarts + 1
    /\ syncFromAdapterRegistry(old) /\ savedState' = old
    /\ overtaken' = {id \in DOMAIN old.statuses : id \in overtaken \/ old.statuses[id].state = "running"}
    /\ kernelOn' = OnInFile /\ oldOn' = {} /\ reloaded' = FALSE /\ driven' = {}
    /\ runner' = [r \in Runners |-> Idle] /\ overwrote' = FALSE /\ UNCHANGED <<ops, reloads, misfiled, saveFaults>>

SourcesInit ==
    /\ specs = Builtin /\ statuses = [id \in Builtin |-> statusOf(IF id \in OnInFile THEN "enabled" ELSE "installed", id \in OnInFile)]
    /\ kernelOn = OnInFile /\ oldOn = {} /\ reloaded = FALSE /\ savedState = NoSources
    /\ runner = [r \in Runners |-> Idle] /\ overtaken = {} /\ misfiled = {} /\ driven = {} /\ overwrote = FALSE
    /\ ops = 0 /\ reloads = 0 /\ restarts = 0 /\ saveFaults = 0
SourcesNext ==
    \/ \E id \in Sources :
         \/ DeploySource(id) \/ EnableSource(id) \/ DisableSource(id) \/ UpdateSource(id) \/ ConfigureSource(id)
         \/ \E force \in BOOLEAN : UninstallSource(id, force)
         \/ \E r \in Runners : RunSourceNow(r, id)
    \/ \E r \in Runners : RunAdapters(r) \/ RunEnds(r) \/ RunReadsSpecs(r) \/ RunMarshals(r) \/ RunSaves(r)
    \/ Reload \/ \E old \in {file, savedState} \cup {f \in {NoSources} : savers # {}} : RestartSources(old)
SourcesSpec == SourcesInit /\ [][SourcesNext]_srcVars

----------------------------------------------------------------------------
\* Every source has a status; a status without source, and a state that contradicts the enabled
\* flag or is "running" without a run, only come from a run that ended without a result of its
\* adapter or that another operation overtook, a source in one map only from a run that saved
\* while it was deployed or uninstalled (RunSourceNow).
StatesSettle ==
    /\ specs \subseteq known \cup misfiled /\ known \ specs \subseteq overtaken \cup misfiled
    /\ \A id \in specs \ overtaken :
         LET s == current(id)
         IN IF s.state = "running" THEN s.enabled /\ running(id) ELSE s.enabled <=> s.state \in {"enabled", "error"}

\* What an enabled source depends on stays deployed, although it may be disabled
\* (UninstallSource, DisableSource).
DependenciesStay == \A id \in specs : current(id).enabled => DependsOn[id] \subseteq specs \cup misfiled

\* Enabling and disabling reach the adapters, whatever runs or restarts in between, until the
\* configuration is reloaded or reconfigured; after a reload they reach the new map only.
SwitchesFollow ==
    /\ \A id \in driven \cap specs : id \in kernelOn <=> current(id).enabled
    /\ ~reloaded => adapterOn = kernelOn

\* The file names the sources that are deployed, but for the registered adapters that a restart
\* adds again, uninstalled or not, unless the last save failed, met that of a run or was that of
\* a run overtaken by another operation.
FileNamesSources ==
    ~overwrote => savedState.specs \subseteq specs /\ specs \ savedState.specs \subseteq Builtin
SourcesSettled == StatesSettle /\ DependenciesStay /\ SwitchesFollow /\ FileNamesSources
=============================================================================
