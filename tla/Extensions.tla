------------------------------ MODULE Extensions ------------------------------
(***************************************************************************)
(* The extension manager (internal/extmgr): installing, enabling,          *)
(* disabling, deleting and executing extensions, several installations at   *)
(* a time, with the state file that a restart reads.                       *)
(*                                                                         *)
(* An installation checks under the manager's lock, fetches and unpacks     *)
(* without it, and registers under it again.  A version is a number, a      *)
(* dependency [id, min, open], min being the least version it accepts and   *)
(* open whether the bounds are in force: they are unexported fields, so a   *)
(* specification read from JSON, the state file included, has none.         *)
(***************************************************************************)
EXTENDS Integers, FiniteSets

CONSTANTS
    Specs,         \* [id, version, type, deps, source] that may be installed
    Installers,    \* goroutines that install
    AutoEnable, ExecPolicy, WhiteList,  \* ManagerConfig
    MaxOps         \* bound on operations

\* A DependencySpec; in the model's specifications an extension is named by its id.
Dependencies == [id : STRING, min : Nat, open : BOOLEAN]
ASSUME SpecsAssumption ==
    Specs \subseteq [id : STRING, version : Nat, type : STRING, deps : SUBSET Dependencies,
                     source : STRING, checksum : STRING, state : STRING]

ExtIds == {s.id : s \in Specs}
ExtTypes == {"check_module", "hook", "domain", "edge_factor", "cli_command", "scoring_plugin", "custom"}
NoExt == [state |-> "absent"]

VARIABLES
    records,     \* lifecycle.records: [ExtIds -> record or NoExt]
    stateFile,   \* extensions_state.json, or the empty function
    dirs,        \* install directories: [<<id, version>> -> "whole" or "part"]
    hooked,      \* ids with handlers in the kernel's extension points
    modelled,    \* ids in the model's registries: domains and edge factors
    installs,    \* [Installers -> [pc, spec]]
    executed,    \* <<id, version>> the executor has started
    ops
extVars == <<records, stateFile, dirs, hooked, modelled, installs, executed, ops>>

present(r) == {i \in ExtIds : r[i].state # "absent"}
\* SatisfiedBy
satisfied(dep, v) == dep.open \/ v >= dep.min
\* saveState, and loadState with what JSON keeps of a record.
persisted(r) == [i \in ExtIds |-> IF r[i].state = "absent" THEN NoExt
                                  ELSE [r[i] EXCEPT !.deps = {[d EXCEPT !.open = TRUE] : d \in @}]]
\* A failed write leaves the file as it was; the memory is changed either way.
saveState(r) == stateFile' = persisted(r) \/ stateFile' = stateFile
begin == ops < MaxOps /\ ops' = ops + 1

\* Validate, with the source's type as it is found from the URL.
valid(spec) == spec.type \in ExtTypes /\ (spec.source = "http" => spec.checksum # "none")
\* InstallFromSpec up to the unlock.  A newer version of what is installed gets
\* this far, and no farther than Register.
InstallFromSpec(p, spec) ==
    /\ begin /\ installs[p].pc = "idle"
    /\ valid(spec)
    /\ spec.id \in present(records) => records[spec.id].version < spec.version
    /\ \A d \in spec.deps : d.id \in present(records) /\ satisfied(d, records[d.id].version)
    /\ installs' = [installs EXCEPT ![p] = [pc |-> "fetch", spec |-> spec]]
    /\ UNCHANGED <<records, stateFile, dirs, hooked, modelled, executed>>
\* Prepare and the download: the directory must not be there, and the data must
\* have the checksum the specification names.
Fetch(p) ==
    /\ installs[p].pc = "fetch"
    /\ LET dir == <<installs[p].spec.id, installs[p].spec.version>>
       IN  \/ /\ dir \notin DOMAIN dirs /\ installs[p].spec.checksum # "wrong"
              /\ installs' = [installs EXCEPT ![p].pc = "extract"]
           \/ installs' = [installs EXCEPT ![p] = [pc |-> "idle"]]
    /\ UNCHANGED <<records, stateFile, dirs, hooked, modelled, executed, ops>>
without(d, dir) == [x \in DOMAIN d \ {dir} |-> d[x]]
\* MkdirAll and extractTo: what cannot be unpacked is removed.
Extract(p) ==
    /\ installs[p].pc = "extract"
    /\ LET dir == <<installs[p].spec.id, installs[p].spec.version>>
       IN  \/ /\ dirs' = [x \in DOMAIN dirs \cup {dir} |-> IF x = dir THEN "whole" ELSE dirs[x]]
              /\ installs' = [installs EXCEPT ![p].pc = "register"]
           \/ /\ dirs' = without(dirs, dir)
              /\ installs' = [installs EXCEPT ![p] = [pc |-> "idle"]]
    /\ UNCHANGED <<records, stateFile, hooked, modelled, executed, ops>>
\* Register: an id that is there already is refused, and its caller removes the
\* directory, whoever filled it; so it does after a failed save, the record
\* staying where it is.
Register(p) ==
    /\ installs[p].pc = "register"
    /\ LET spec == installs[p].spec
           dir == <<spec.id, spec.version>>
           r == [records EXCEPT ![spec.id] = [state |-> "installed", version |-> spec.version,
                                              type |-> spec.type, deps |-> spec.deps,
                                              given |-> spec.state]]
       IN  IF spec.id \in present(records)
           THEN /\ dirs' = without(dirs, dir)
                /\ installs' = [installs EXCEPT ![p] = [pc |-> "idle"]]
                /\ UNCHANGED <<records, stateFile>>
           ELSE /\ records' = r
                /\ \/ /\ stateFile' = persisted(r) /\ dirs' = dirs
                      /\ installs' = [installs EXCEPT ![p].pc = "enable"]
                   \/ /\ stateFile' = stateFile /\ dirs' = without(dirs, dir)
                      /\ installs' = [installs EXCEPT ![p] = [pc |-> "idle"]]
    /\ UNCHANGED <<hooked, modelled, executed, ops>>

\* A mutant: an installed dependency is enough.
DepsInstalled(id) == \A d \in records[id].deps : d.id \in present(records) /\ satisfied(d, records[d.id].version)
\* The dependencies Enable asks for: enabled, in an accepted version.
DepsEnabled(id) ==
    \A d \in records[id].deps : /\ records[d.id].state = "enabled"
                                /\ satisfied(d, records[d.id].version)
enabled(id) == [records EXCEPT ![id].state = "enabled"]
\* lifecycle.Enable where the configuration says so, then onExtensionInstalled:
\* check modules, hooks, commands and scoring plugins get handlers, domains and
\* edge factors enter the model.
FinishInstall(p) ==
    /\ installs[p].pc = "enable"
    /\ LET id == installs[p].spec.id
       IN  /\ IF AutoEnable /\ id \in present(records) /\ records[id].state # "enabled" /\ DepsEnabled(id)
              THEN records' = enabled(id) /\ saveState(records')
              ELSE UNCHANGED <<records, stateFile>>
           /\ hooked' = IF installs[p].spec.type \in {"check_module", "hook", "cli_command", "scoring_plugin"}
                        THEN hooked \cup {<<id, installs[p].spec>>} ELSE hooked
           /\ modelled' = IF installs[p].spec.type \in {"domain", "edge_factor"} THEN modelled \cup {id} ELSE modelled
    /\ installs' = [installs EXCEPT ![p] = [pc |-> "idle"]]
    /\ UNCHANGED <<dirs, executed, ops>>

Enable(id) ==
    /\ begin /\ id \in present(records)
    /\ records[id].state # "enabled" /\ DepsEnabled(id)
    /\ records' = enabled(id) /\ saveState(records')
    /\ UNCHANGED <<dirs, hooked, modelled, installs, executed>>
\* onExtensionDisabled runs first, whether or not Disable then refuses; only
\* edge factors stay in the model.
unhook(id) == hooked' = {h \in hooked : h[1] # id}
unmodel(id) == modelled' = IF records[id].type = "domain" THEN modelled \ {id} ELSE modelled
dependents(id, states) ==
    {j \in present(records) \ {id} : records[j].state \in states /\ \E d \in records[j].deps : d.id = id}
Disable(id) ==
    /\ begin /\ id \in present(records)
    /\ unhook(id) /\ unmodel(id)
    /\ IF records[id].state = "disabled" \/ dependents(id, {"enabled"}) # {}
       THEN UNCHANGED <<records, stateFile>>
       ELSE records' = [records EXCEPT ![id].state = "disabled"] /\ saveState(records')
    /\ UNCHANGED <<dirs, installs, executed>>
Delete(id) ==
    /\ begin /\ id \in present(records)
    /\ unhook(id) /\ unmodel(id)
    /\ IF dependents(id, {"installed", "enabled", "disabled"}) # {}
       THEN UNCHANGED <<records, stateFile, dirs>>
       ELSE /\ records' = [records EXCEPT ![id] = NoExt] /\ saveState(records')
            /\ dirs' = without(dirs, <<id, records[id].version>>)
    /\ UNCHANGED <<installs, executed>>

\* isCommandAllowed and the checks of Execute before the command is started.  A
\* handler holds the specification it was installed with, not the record: its
\* state is not "enabled" and its install path is empty, so it starts nothing.
isCommandAllowed(id) == ExecPolicy = "allowed" \/ (ExecPolicy # "disabled" /\ id \in WhiteList)
started(id, state, version) ==
    /\ state = "enabled" /\ isCommandAllowed(id)
    /\ <<id, version>> \in DOMAIN dirs /\ dirs[<<id, version>>] = "whole"
Execute(id) ==
    /\ begin /\ id \in present(records)
    /\ started(id, records[id].state, records[id].version)
    /\ executed' = executed \cup {<<id, records[id].version>>}
    /\ UNCHANGED <<records, stateFile, dirs, hooked, modelled, installs>>
\* The process ends in the middle of anything and starts again with what the
\* files say; a crash during WriteFile leaves a state file that cannot be read.
RestartManager ==
    /\ begin
    /\ \/ records' = stateFile
       \/ /\ \E p \in Installers : installs[p].pc = "register"
          /\ records' = [i \in ExtIds |-> NoExt]
    /\ stateFile' = records'
    /\ hooked' = {} /\ modelled' = {}
    /\ installs' = [p \in Installers |-> [pc |-> "idle"]]
    /\ UNCHANGED <<dirs, executed>>

ExtInit ==
    /\ records = [i \in ExtIds |-> NoExt] /\ stateFile = records
    /\ dirs = [x \in {} |-> "whole"] /\ hooked = {} /\ modelled = {}
    /\ installs = [p \in Installers |-> [pc |-> "idle"]] /\ executed = {} /\ ops = 0
ExtNext ==
    \/ \E p \in Installers : \/ \E spec \in Specs : InstallFromSpec(p, spec)
                             \/ Fetch(p) \/ Extract(p) \/ Register(p) \/ FinishInstall(p)
    \/ \E id \in ExtIds : Enable(id) \/ Disable(id) \/ Delete(id) \/ Execute(id)
    \/ RestartManager
ExtSpec == ExtInit /\ [][ExtNext]_extVars

----------------------------------------------------------------------------
\* An enabled extension has what it needs: its dependencies are installed and
\* enabled, in a version it accepts, in memory and in whatever a restart would
\* read, however installations, deletions, failed writes and restarts overlap.
EnabledDepsHold ==
    \A r \in {records, stateFile} : \A i \in present(r) :
        r[i].state = "enabled" => \A d \in r[i].deps : /\ r[d.id].state = "enabled"
                                                       /\ satisfied(d, r[d.id].version)
===============================================================================
