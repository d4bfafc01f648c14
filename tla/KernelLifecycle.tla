--------------------------- MODULE KernelLifecycle ---------------------------
(***************************************************************************)
(* Plugins of the kernel: registration (internal/kernel/kernel.go),        *)
(* Bootstrap with its dependency order, and Shutdown in the reverse order  *)
(* (internal/kernel/kernel_lifecycle.go).                                  *)
(*                                                                         *)
(* A plugin is its place in the order by (Priority, Name), which is total. *)
(* deps are the dependencies by name, which may name unknown plugins, the  *)
(* plugin itself and each other; interface dependencies do not order.      *)
(***************************************************************************)
EXTENDS Naturals, Sequences, FiniteSets

CONSTANTS
    Plugins,  \* the plugins, numbered in the order of (Priority, Name)
    Removable \* the plugins that UnregisterPlugin is called for

ASSUME PluginsAssumption ==
    Plugins \subseteq Nat /\ IsFiniteSet(Plugins) /\ Removable \subseteq Plugins

VARIABLES
    deps,         \* plugin -> names it depends on; fixed
    registered,   \* the keys of k.plugins
    unregistering, \* plugins an UnregisterPlugin call has stopped and not removed
    state,        \* plugin -> its own State()
    boot,         \* progress of Bootstrap
    snapshot,     \* the plugins Bootstrap copied
    unmet,        \* plugin -> dependencies orderPlugins has not placed; indeg counts them
    startupOrder, \* the order Bootstrap computes and records
    fallen,       \* plugins placed by the fallback to priority order
    pos,          \* index of the loops over startupOrder
    shutdown,     \* progress of Shutdown
    stopSet,      \* the plugins Shutdown copied
    late          \* those of them the record does not name, still to be visited

bootVars == <<boot, snapshot, unmet, startupOrder, fallen>>
stopVars == <<shutdown, stopSet, late>>
lifecycleVars == <<deps, registered, unregistering, state, bootVars, pos, stopVars>>

Placed == {startupOrder[i] : i \in 1..Len(startupOrder)}

LifecycleTypeOK ==
    /\ deps \in [Plugins -> SUBSET Plugins]
    /\ registered \in SUBSET Plugins
    /\ unregistering \in SUBSET Removable
    /\ state \in [Plugins -> {"registered", "initialized", "started", "stopped"}]
    /\ boot \in {"no", "sorting", "init", "start", "done", "failed"}
    /\ snapshot \in SUBSET Plugins
    /\ unmet \in [Plugins -> SUBSET Plugins]
    /\ startupOrder \in Seq(Plugins)
    /\ \A i, j \in 1..Len(startupOrder) : startupOrder[i] = startupOrder[j] => i = j
    /\ fallen \in SUBSET Placed
    /\ pos \in 0..(Len(startupOrder) + 1)
    /\ shutdown \in {"no", "stopping", "done"}
    /\ stopSet \in SUBSET Plugins
    /\ late \in SUBSET stopSet

LifecycleInit ==
    /\ deps \in [Plugins -> SUBSET Plugins]
    /\ registered = {} /\ unregistering = {}
    /\ state = [p \in Plugins |-> "registered"]
    /\ boot = "no" /\ snapshot = {} /\ fallen = {}
    /\ unmet = [p \in Plugins |-> {}]
    /\ startupOrder = <<>> /\ pos = 0
    /\ shutdown = "no" /\ stopSet = {} /\ late = {}

Became(p, s) == state' = [state EXCEPT ![p] = s]

First(S, p) == p \in S /\ \A q \in S : p <= q

-----------------------------------------------------------------------------
(* Registration, each step under the kernel's lock.                        *)

RegisterPlugin(p) ==
    /\ p \notin registered
    /\ registered' = registered \cup {p}
    /\ UNCHANGED <<deps, unregistering, state, bootVars, pos, stopVars>>

\* UnregisterPlugin stops a started plugin outside the lock
UnregisterStop(p) ==
    /\ p \in (registered \cap Removable) \ unregistering
    /\ unregistering' = unregistering \cup {p}
    /\ Became(p, IF state[p] = "started" THEN "stopped" ELSE state[p])
    /\ UNCHANGED <<deps, registered, bootVars, pos, stopVars>>

\* and removes it under the lock.
UnregisterRemove(p) ==
    /\ p \in unregistering
    /\ unregistering' = unregistering \ {p}
    /\ registered' = registered \ {p}
    /\ UNCHANGED <<deps, state, bootVars, pos, stopVars>>

-----------------------------------------------------------------------------
(* orderPlugins: Kahn's algorithm, the smallest ready plugin first.        *)

\* The copy of the plugins and the count of their dependencies: a name that is
\* not registered and the plugin's own are skipped.
Bootstrap ==
    /\ boot = "no"
    /\ boot' = "sorting"
    /\ snapshot' = registered
    /\ unmet' = [p \in Plugins |-> (deps[p] \cap registered) \ {p}]
    /\ UNCHANGED <<deps, registered, unregistering, state, startupOrder, fallen, pos,
                   stopVars>>

Remaining == snapshot \ Placed

Ready == {p \in Remaining : unmet[p] = {}}

\* Mutant: one placed dependency makes a plugin ready.
PickReadyFirstDep(p) ==
    /\ boot = "sorting" /\ First(Ready, p)
    /\ startupOrder' = Append(startupOrder, p)
    /\ unmet' = [q \in Plugins |-> IF p \in unmet[q] THEN {} ELSE unmet[q]]
    /\ UNCHANGED <<deps, registered, unregistering, state, boot, snapshot, fallen, pos,
                   stopVars>>

PickReady(p) ==
    /\ boot = "sorting" /\ First(Ready, p)
    /\ startupOrder' = Append(startupOrder, p)
    /\ unmet' = [q \in Plugins |-> unmet[q] \ {p}]
    /\ UNCHANGED <<deps, registered, unregistering, state, boot, snapshot, fallen, pos,
                   stopVars>>

\* Nothing is ready: the plugins that are left follow in priority order.
Fallback(p) ==
    /\ boot = "sorting" /\ Ready = {} /\ First(Remaining, p)
    /\ startupOrder' = Append(startupOrder, p)
    /\ fallen' = fallen \cup {p}
    /\ UNCHANGED <<deps, registered, unregistering, state, boot, snapshot, unmet, pos,
                   stopVars>>

-----------------------------------------------------------------------------
(* The loops of Bootstrap.  A failure ends it; the kernel's main function   *)
(* then exits, other callers may go on to Shutdown.                         *)

Loop(label, from) == boot' = label /\ pos' = from

RecordOrder ==
    /\ boot = "sorting" /\ Remaining = {}
    /\ Loop("init", 1)
    /\ UNCHANGED <<deps, registered, unregistering, state, snapshot, unmet, startupOrder,
                   fallen, stopVars>>

\* One iteration: Init or Start of the next plugin returns, or fails.
Iterate(label, s) ==
    /\ boot = label /\ pos <= Len(startupOrder)
    /\ \/ Loop(label, pos + 1) /\ Became(startupOrder[pos], s)
       \/ Loop("failed", pos) /\ UNCHANGED state
    /\ UNCHANGED <<deps, registered, unregistering, snapshot, unmet, startupOrder, fallen,
                   stopVars>>

InitPlugin == Iterate("init", "initialized")

StartPhase ==
    /\ boot = "init" /\ pos > Len(startupOrder)
    /\ Loop("start", 1)
    /\ UNCHANGED <<deps, registered, unregistering, state, snapshot, unmet, startupOrder,
                   fallen, stopVars>>

StartPlugin == Iterate("start", "started")

BootstrapDone ==
    /\ boot = "start" /\ pos > Len(startupOrder)
    /\ boot' = "done"
    /\ UNCHANGED <<deps, registered, unregistering, state, snapshot, unmet, startupOrder,
                   fallen, pos, stopVars>>

-----------------------------------------------------------------------------
(* Shutdown, once Bootstrap has returned.                                  *)

Shutdown ==
    /\ boot \in {"done", "failed"} /\ shutdown = "no"
    /\ shutdown' = "stopping"
    /\ stopSet' = registered
    /\ late' = registered \ Placed
    /\ pos' = Len(startupOrder)
    /\ UNCHANGED <<deps, registered, unregistering, state, bootVars>>

\* A plugin that is not started is skipped; an error of Stop is only logged.
StopIfStarted(p) == Became(p, IF state[p] = "started" THEN "stopped" ELSE state[p])

\* Mutant: the plugins are stopped in the order they were started in.
StopPluginForward ==
    /\ shutdown = "stopping" /\ pos > 0
    /\ LET p == startupOrder[Len(startupOrder) + 1 - pos]
       IN  IF p \in stopSet THEN StopIfStarted(p) ELSE UNCHANGED state
    /\ pos' = pos - 1
    /\ UNCHANGED <<deps, registered, unregistering, bootVars, stopVars>>

\* Mutant: a plugin that is not started ends the loop.
StopPluginBreaks ==
    /\ shutdown = "stopping" /\ pos > 0
    /\ LET p == startupOrder[pos]
       IN  /\ IF p \in stopSet THEN StopIfStarted(p) ELSE UNCHANGED state
           /\ pos' = IF state[p] = "started" THEN pos - 1 ELSE 0
    /\ UNCHANGED <<deps, registered, unregistering, bootVars, stopVars>>

\* The recorded order backwards, without the plugins that are gone.
StopPlugin ==
    /\ shutdown = "stopping" /\ pos > 0
    /\ LET p == startupOrder[pos]
       IN  IF p \in stopSet THEN StopIfStarted(p) ELSE UNCHANGED state
    /\ pos' = pos - 1
    /\ UNCHANGED <<deps, registered, unregistering, bootVars, stopVars>>

\* The plugins that the record does not name come last.
StopLate(p) ==
    /\ shutdown = "stopping" /\ pos = 0 /\ p \in late
    /\ late' = late \ {p}
    /\ StopIfStarted(p)
    /\ UNCHANGED <<deps, registered, unregistering, bootVars, pos, shutdown, stopSet>>

\* The context is cancelled, the bus stopped (module Bus) and done closed.
ShutdownDone ==
    /\ shutdown = "stopping" /\ pos = 0 /\ late = {}
    /\ shutdown' = "done"
    /\ UNCHANGED <<deps, registered, unregistering, state, bootVars, pos, stopSet, late>>

-----------------------------------------------------------------------------
LifecycleNext ==
    \/ \E p \in Plugins :
          \/ RegisterPlugin(p) \/ UnregisterStop(p) \/ UnregisterRemove(p)
          \/ PickReady(p) \/ Fallback(p) \/ StopLate(p)
    \/ Bootstrap \/ RecordOrder \/ InitPlugin \/ StartPhase \/ StartPlugin \/ BootstrapDone
    \/ Shutdown \/ StopPlugin \/ ShutdownDone

LifecycleSpec == LifecycleInit /\ [][LifecycleNext]_lifecycleVars

-----------------------------------------------------------------------------
(* Properties.                                                             *)

\* The dependencies that order a plugin: the others Bootstrap knows.
Before(q) == (deps[q] \cap snapshot) \ {q}

\* A plugin starts after all the plugins it depends on, unless the fallback
\* placed it, whatever else is registered and unregistered meanwhile.
DepsStartFirst ==
    [][\A q \in Plugins : state'[q] = "started" /\ state[q] # "started" =>
          q \in fallen \/ \A p \in Before(q) : state[p] \in {"started", "stopped"}]_lifecycleVars

\* The fallback only places plugins that depend on a plugin it places as well,
\* so each of them is in a dependency cycle or depends on one: an unknown name
\* or a dependency on itself never costs a plugin its order.
FallbackOnlyForCycles ==
    boot \notin {"no", "sorting"} => \A q \in fallen : Before(q) \cap fallen # {}

\* A Bootstrap that succeeds has started every plugin it found: no dependency
\* graph makes the ordering lose one.
BootComplete ==
    boot = "done" => \A p \in snapshot : state[p] \in {"started", "stopped"}

\* Shutdown stops a plugin after the plugins that depend on it.
DependentsStopFirst ==
    [][\A p \in Plugins :
          shutdown = "stopping" /\ pos' # pos /\ state[p] = "started" /\ state'[p] = "stopped" =>
             \A q \in (stopSet \cap snapshot) \ fallen :
                p \in Before(q) => state[q] # "started"]_lifecycleVars

\* When Shutdown returns none of the plugins it found is left started, also
\* after a Bootstrap that failed half-way.
AllStopped == shutdown = "done" => \A p \in stopSet : state[p] # "started"

\* Bootstrap and Shutdown between them lose no plugin.
NoPluginLost == BootComplete /\ AllStopped

\* The order Bootstrap computes is the dependency order but for cycles.
StartOrderSound == DepsStartFirst /\ []FallbackOnlyForCycles
=============================================================================
