------------------------------- MODULE CheckRun -------------------------------
(***************************************************************************)
(* The list of checks of an agent and one round of running them            *)
(* (internal/checks/registry.go, internal/agent: agent.go, privileged.go,  *)
(* privileged_client.go, securemode.go).                                   *)
(*                                                                         *)
(* Normal checks run in goroutines, at most checkConcurrency at a time,    *)
(* each against a timer; the root checks are asked of the privileged       *)
(* process afterwards.  A check is its id, its weight a delta.             *)
(***************************************************************************)
EXTENDS Naturals, FiniteSets, Sequences, SequencesExt, Collections

CONSTANTS
    CheckIds,      \* ids of checks
    RootIds,       \* those that need root
    UserItems,     \* UserCheckItems: ids of the agent's own configuration
    SyncedLists,   \* lists of ids the kernel may send as user checks
    CheckConcurrency,
    MaxEdits       \* changes of the registry in a behaviour

\* Ids come in lists, and at least one check runs at a time.
ASSUME CheckRunAssumption ==
    /\ CheckConcurrency \in Nat \ {0}
    /\ UserItems \in Seq(ToSet(UserItems))
    /\ \A l \in SyncedLists : l \in Seq(ToSet(l))

VARIABLES
    registry,   \* ids in the order of registration
    idIndex,    \* id -> place in registry, kept for some ids that are gone
    synced,     \* syncedChecks
    kernelOver, \* the kernel's CheckDeltas are applied to the checkers
    cfgVersion, \* syncedCfgVersion, a fingerprint of the content
    checkers,   \* what the next round runs: [id, delta]
    round,      \* "idle", "running", "root", "reported"
    state,      \* of each checker in the round: "queued", "running", "timedout", "done"
    lateWorkers,\* goroutines of timed-out checks that have not returned
    report,     \* results of the round: [id, passed, why]
    privileged, \* the privileged process answers
    edits

checkRunVars == <<registry, idIndex, synced, kernelOver, cfgVersion, checkers, round, state, lateWorkers,
                  report, privileged, edits>>

-----------------------------------------------------------------------------
(* The registry.  It changes before rounds are run: at the start of an     *)
(* agent, and in the kernel, where extensions bring checks, at any time.   *)

normals(reg) == Where(reg, LAMBDA c : c \notin RootIds)
GetRoot(reg) == Where(reg, LAMBDA c : c \in RootIds)

\* An id that was unregistered still has an index: it finds the check that moved there.
GetByID(c) == IF c \in DOMAIN idIndex /\ idIndex[c] <= Len(registry) THEN {registry[idIndex[c]]} ELSE {}

\* buildAgentCheckers: the registered ones, the agent's own and the kernel's, without a
\* look at ids that come twice.
buildAgentCheckers(reg, sy, over) ==
    [i \in 1 .. Len(normals(reg) \o UserItems \o sy) |->
        [id |-> (normals(reg) \o UserItems \o sy)[i], delta |-> IF over THEN "kernel" ELSE "own"]]

\* buildAgentCheckConfig: a kernel that has nothing configured sends nothing, also to an agent
\* that still runs what was configured before.
NotSynced == [list |-> <<>>, deltas |-> FALSE]
buildAgentCheckConfig(list, deltas) == {[list |-> list, deltas |-> deltas]} \ {NotSynced}

CheckRunInit ==
    /\ registry = <<>>
    /\ idIndex = <<>>
    /\ synced = <<>> /\ kernelOver = FALSE /\ cfgVersion = NotSynced
    /\ checkers = buildAgentCheckers(<<>>, <<>>, FALSE)
    /\ round = "idle" /\ state = <<>> /\ lateWorkers = {} /\ report = <<>>
    /\ privileged \in BOOLEAN
    /\ edits = 0

Edit == edits < MaxEdits /\ edits' = edits + 1

rest == <<synced, kernelOver, cfgVersion, round, state, lateWorkers, report, privileged>>

\* Register skips an id that has an index, also a stale one.
Register(c) ==
    /\ round = "idle" /\ Edit
    /\ IF c \in DOMAIN idIndex THEN UNCHANGED <<registry, idIndex>>
       ELSE /\ registry' = Append(registry, c)
            /\ idIndex' = [d \in DOMAIN idIndex \cup {c} |->
                             IF d = c THEN Len(registry) + 1 ELSE idIndex[d]]
    /\ UNCHANGED <<rest, checkers>>

\* Mutant: the places of the checks behind the removed one stay as they were.
UnregisterNoReindex(c) ==
    /\ round = "idle" /\ Edit
    /\ registry' = Where(registry, LAMBDA d : d # c)
    /\ UNCHANGED <<idIndex, rest, checkers>>

\* Unregister drops the check and renumbers those that stay.
Unregister(c) ==
    /\ round = "idle" /\ Edit
    /\ LET kept == Where(registry, LAMBDA d : d # c)
       IN  /\ registry' = kept
           /\ idIndex' = [d \in DOMAIN idIndex |->
                            IF d \in ToSet(kept) THEN CHOOSE i \in DOMAIN kept : kept[i] = d ELSE idIndex[d]]
    /\ UNCHANGED <<rest, checkers>>

-----------------------------------------------------------------------------
(* Configuration, between two rounds.                                      *)

\* applySyncedCheckConfig: a configuration of the version the agent has is ignored.
applySyncedCheckConfig(cc) ==
    /\ round \in {"idle", "reported"}
    /\ cc # cfgVersion
    /\ Edit
    /\ cfgVersion' = cc /\ synced' = cc.list /\ kernelOver' = cc.deltas
    /\ checkers' = buildAgentCheckers(registry, cc.list, cc.deltas)
    /\ UNCHANGED <<registry, idIndex, round, state, lateWorkers, report, privileged>>

\* The reload of secure mode builds the list anew, without the kernel's deltas.
SecureReload ==
    /\ round \in {"idle", "reported"}
    /\ Edit
    /\ checkers' = buildAgentCheckers(registry, synced, FALSE)
    /\ UNCHANGED <<registry, idIndex, synced, kernelOver, cfgVersion, round, state, lateWorkers, report,
                   privileged>>

-----------------------------------------------------------------------------
(* A round.                                                                *)

runChecks ==
    /\ round \in {"idle", "reported"}
    /\ Edit
    /\ round' = IF checkers = <<>> THEN "root" ELSE "running"
    /\ state' = [i \in DOMAIN checkers |-> "queued"]
    /\ report' = [i \in DOMAIN checkers |-> [id |-> "", passed |-> FALSE, why |-> ""]]
    /\ UNCHANGED <<registry, idIndex, synced, kernelOver, cfgVersion, checkers, lateWorkers, privileged>>

roundRest == <<registry, idIndex, synced, kernelOver, cfgVersion, checkers, privileged, edits>>

inFlight == {i \in DOMAIN state : state[i] = "running"}

\* In order, as the semaphore has room.
StartCheck(i) ==
    /\ round = "running"
    /\ state[i] = "queued" /\ \A j \in 1 .. i - 1 : state[j] # "queued"
    /\ Cardinality(inFlight) < CheckConcurrency
    /\ state' = [state EXCEPT ![i] = "running"]
    /\ UNCHANGED <<roundRest, round, lateWorkers, report>>

CheckFinishes(i, passed) ==
    /\ round = "running" /\ state[i] = "running"
    /\ state' = [state EXCEPT ![i] = "done"]
    /\ report' = [report EXCEPT ![i] = [id |-> checkers[i].id, passed |-> passed, why |-> "ran"]]
    /\ UNCHANGED <<roundRest, round, lateWorkers>>

\* runCheckWithTimeout: the timer wins; the check goes on without anyone waiting for it.
CheckTimesOut(i) ==
    /\ round = "running" /\ state[i] = "running"
    /\ state' = [state EXCEPT ![i] = "done"]
    /\ lateWorkers' = lateWorkers \cup {i}
    /\ report' = [report EXCEPT ![i] = [id |-> checkers[i].id, passed |-> FALSE, why |-> "timeout"]]
    /\ UNCHANGED <<roundRest, round>>

\* The result of a check that timed out goes to a buffered channel nobody reads.
LateResult(i) ==
    /\ i \in lateWorkers
    /\ lateWorkers' = lateWorkers \ {i}
    /\ UNCHANGED <<roundRest, round, state, report>>

AllDone ==
    /\ round = "running" /\ \A i \in DOMAIN state : state[i] = "done"
    /\ round' = "root"
    /\ UNCHANGED <<roundRest, state, lateWorkers, report>>

\* runRootChecks: a privileged process that does not answer skips them, as passed.
runRootChecks(answered, outcome) ==
    LET root == GetRoot(registry)
        ran(i) == [id |-> root[i], passed |-> outcome, why |-> "ran"]
        skipped(i) == [id |-> root[i], passed |-> TRUE, why |-> "skipped"]
    IN  /\ round = "root"
        /\ answered => privileged
        /\ report' = report \o [i \in DOMAIN root |-> IF answered THEN ran(i) ELSE skipped(i)]
        /\ round' = "reported"
        /\ UNCHANGED <<roundRest, state, lateWorkers>>

CheckRunNext ==
    \/ \E c \in CheckIds : Register(c) \/ Unregister(c)
    \/ \E l \in SyncedLists, d \in BOOLEAN :
          \E cc \in buildAgentCheckConfig(l, d) : applySyncedCheckConfig(cc)
    \/ SecureReload
    \/ runChecks
    \/ \E i \in DOMAIN state : StartCheck(i) \/ CheckTimesOut(i) \/ \E p \in BOOLEAN : CheckFinishes(i, p)
    \/ \E i \in lateWorkers : LateResult(i)
    \/ AllDone
    \/ \E answered, outcome \in BOOLEAN : runRootChecks(answered, outcome)

CheckRunSpec == CheckRunInit /\ [][CheckRunNext]_checkRunVars

-----------------------------------------------------------------------------
(* Properties.                                                             *)

\* What a round reports is what the agent was to run: the checkers in their order and then
\* root checks, each result under its own id, a check that ran out of time as failed and
\* only root checks as skipped, at most CheckConcurrency at work; and every registered
\* check is found under its id.
ReportComplete ==
    /\ round = "reported" =>
         /\ Len(report) >= Len(state)
         /\ \A i \in DOMAIN state : report[i].why \in {"ran", "timeout"}
         /\ \A i \in DOMAIN report : i > Len(state) => report[i].id \in RootIds
    /\ round \in {"running", "root"} => \A i \in DOMAIN state : state[i] = "done" => report[i].id = checkers[i].id
    /\ Cardinality(inFlight) <= CheckConcurrency
    /\ \A i \in DOMAIN registry : GetByID(registry[i]) = {registry[i]}

\* What the kernel is told of a round is complete, and final: the root checks come after what
\* is there, and a report that was handed over never changes until the next round starts,
\* whatever late checks do.
ReportSound ==
    [][/\ ReportComplete'
       /\ round = "root" => \A i \in DOMAIN report : i \in DOMAIN report' /\ report'[i] = report[i]
       /\ round = "reported" /\ round' = "reported" => report' = report]_checkRunVars
=============================================================================
