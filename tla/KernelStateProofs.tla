-------------------------- MODULE KernelStateProofs -------------------------
(***************************************************************************)
(* Proofs about Heartbeat, for every set of hosts and certificates and any *)
(* number of concurrent handlers, crashes and failed saves, and about      *)
(* KernelLifecycle, for any finite set of plugins and any dependency graph.*)
(***************************************************************************)
EXTENDS Heartbeat, KernelLifecycle, TLAPS

-----------------------------------------------------------------------------
(* Identities.                                                             *)

\* The state is well formed in every reachable state of the heartbeat module.
THEOREM HeartbeatTypeCorrect == Spec => []TypeOK
<1>1. Init => TypeOK
  BY DEF Init, TypeOK
<1>2. TypeOK /\ [Next]_vars => TypeOK'
  <2> SUFFICES ASSUME TypeOK, [Next]_vars PROVE TypeOK'
    OBVIOUS
  <2> USE DEF TypeOK
  <2>1. ASSUME NEW h \in Hosts, NEW c \in Certs, CheckRevoked(h, c) PROVE TypeOK'
    BY <2>1 DEF CheckRevoked, records, files, monitor
  <2>2. ASSUME NEW h \in Hosts, NEW c \in Certs, BindAgentCert(h, c) PROVE TypeOK'
    BY <2>2 DEF BindAgentCert, SaveIdentity, monitor
  <2>3. ASSUME NEW h \in Hosts, NEW c \in Certs, VerifyAgentCert(h, c) PROVE TypeOK'
    BY <2>3 DEF VerifyAgentCert, records, files, monitor
  <2>4. ASSUME NEW h \in Hosts, RegisterAgent(h) PROVE TypeOK'
    BY <2>4 DEF RegisterAgent, files, monitor
  <2>5. ASSUME NEW h \in Hosts, RecordHeartbeat(h) PROVE TypeOK'
    BY <2>5 DEF RecordHeartbeat, files, monitor
  <2>6. ASSUME NEW h \in Hosts, RecordTopology(h) PROVE TypeOK'
    BY <2>6 DEF RecordTopology, records, files, monitor
  <2>7. ASSUME NEW h \in Hosts, Age(h) PROVE TypeOK'
    BY <2>7 DEF Age, files, handlers, monitor
  <2>8. ASSUME NEW h \in Hosts, DeleteTopology(h) PROVE TypeOK'
    BY <2>8 DEF DeleteTopology, records, files, handlers
  <2>9. ASSUME NEW h \in Hosts, Deactivate(h) PROVE TypeOK'
    BY <2>9 DEF Deactivate, files, handlers
  <2>10. ASSUME NEW c \in Certs, RevokeCert(c) PROVE TypeOK'
    BY <2>10 DEF RevokeCert, SaveRevoked, handlers, monitor
  <2>11. ASSUME NEW c \in Certs, UnrevokeCert(c) PROVE TypeOK'
    BY <2>11 DEF UnrevokeCert, SaveRevoked, records, handlers, monitor
  <2>12. CASE RevokeSaveIdentity
    BY <2>12 DEF RevokeSaveIdentity, SaveIdentity, records, handlers, monitor
  <2>13. CASE ResetIdentityBindings
    BY <2>13 DEF ResetIdentityBindings, SaveIdentity, handlers, monitor
  <2>14. CASE CheckTimeouts
    BY <2>14 DEF CheckTimeouts, records, files, handlers
  <2>15. CASE PruneDeadAgents
    BY <2>15 DEF PruneDeadAgents, Prunable, files, handlers, monitor
  <2>16. CASE Restart
    BY <2>16 DEF Restart, files
  <2>17. CASE UNCHANGED vars
    BY <2>17 DEF vars, records, files, handlers, monitor
  <2> QED
    BY <2>1, <2>2, <2>3, <2>4, <2>5, <2>6, <2>7, <2>8, <2>9, <2>10, <2>11, <2>12,
       <2>13, <2>14, <2>15, <2>16, <2>17 DEF Next
<1> QED
  BY <1>1, <1>2, PTL DEF Spec

-----------------------------------------------------------------------------
(* The actions that leave both binding tables alone are told apart from    *)
(* the ones that write them.                                               *)

\* A step that keeps the bindings in memory and in the file keeps them unique.
LEMMA UniqueUnchanged ==
    ASSUME OneCertOneIdentity, UNCHANGED <<bound, identityFile>>
    PROVE  OneCertOneIdentity'
  BY DEF OneCertOneIdentity

\* Saving the identity file copies the bindings in memory, so a step that keeps
\* those unique and saves them keeps both unique.
LEMMA UniqueSaved ==
    ASSUME OneCertOneIdentity, SaveIdentity,
           \A h1, h2 \in Hosts : h1 # h2 /\ bound'[h1] # NoCert => bound'[h1] # bound'[h2]
    PROVE  OneCertOneIdentity'
  BY DEF OneCertOneIdentity, SaveIdentity

\* One certificate, one identity: BindAgentCert's checks keep the bindings
\* injective through every interleaving of registrations, revocations, resets,
\* pruning, failed saves and restarts.  The invariant has to include the file,
\* because a restart loads it.
THEOREM UniqueIdentity == Spec => []OneCertOneIdentity
<1>1. Init => OneCertOneIdentity
  BY DEF Init, OneCertOneIdentity
<1>2. TypeOK /\ OneCertOneIdentity /\ [Next]_vars => OneCertOneIdentity'
  <2> SUFFICES ASSUME TypeOK, OneCertOneIdentity, [Next]_vars
               PROVE  OneCertOneIdentity'
    OBVIOUS
  <2>1. ASSUME NEW h \in Hosts, NEW c \in Certs, BindAgentCert(h, c)
        PROVE  OneCertOneIdentity'
    <3>1. CASE MayBind(h, c)
      <4>1. bound' = [bound EXCEPT ![h] = c] /\ SaveIdentity
        BY <2>1, <3>1 DEF BindAgentCert
      <4>2. \A h1, h2 \in Hosts :
                h1 # h2 /\ bound'[h1] # NoCert => bound'[h1] # bound'[h2]
        BY <3>1, <4>1 DEF TypeOK, OneCertOneIdentity, MayBind
      <4> QED
        BY <4>1, <4>2, UniqueSaved
    <3>2. CASE ~MayBind(h, c)
      BY <2>1, <3>2, UniqueUnchanged DEF BindAgentCert
    <3> QED
      BY <3>1, <3>2
  <2>2. ASSUME NEW c \in Certs, RevokeCert(c) PROVE OneCertOneIdentity'
    BY <2>2 DEF RevokeCert, TypeOK, OneCertOneIdentity
  <2>3. CASE RevokeSaveIdentity
    <3>1. SaveIdentity /\ bound' = bound
      BY <2>3 DEF RevokeSaveIdentity, records
    <3> QED
      BY <3>1, UniqueSaved DEF OneCertOneIdentity
  <2>4. CASE ResetIdentityBindings
    BY <2>4, UniqueSaved DEF ResetIdentityBindings
  <2>5. CASE PruneDeadAgents
    BY <2>5 DEF PruneDeadAgents, TypeOK, OneCertOneIdentity, files
  <2>6. CASE Restart
    BY <2>6 DEF Restart, OneCertOneIdentity, files
  <2>7. CASE UNCHANGED <<bound, identityFile>>
    BY <2>7, UniqueUnchanged
  <2> QED
    BY <2>1, <2>2, <2>3, <2>4, <2>5, <2>6, <2>7
    DEF Next, CheckRevoked, VerifyAgentCert, RegisterAgent, RecordHeartbeat,
        RecordTopology, Age, DeleteTopology, Deactivate, UnrevokeCert, CheckTimeouts,
        vars, records, files
<1> QED
  BY <1>1, <1>2, HeartbeatTypeCorrect, PTL DEF Spec

\* An anchor is permanent: a host's binding changes only by the revocation of its
\* certificate, a reset of all bindings or a restart.  Registration, heartbeats,
\* timeouts and pruning never replace or drop it.
THEOREM AnchorsPermanent == Spec => BindingStable
<1> DEFINE Stable ==
        \A h \in Hosts : bound[h] # NoCert /\ bound'[h] # bound[h] =>
          \/ bound[h] \in revoked'
          \/ bound' = [g \in Hosts |-> NoCert] /\ known' = known
          \/ bound' = identityFile /\ seen'[h] = "never"
<1>1. TypeOK /\ [Next]_vars => [Stable]_vars
  <2> SUFFICES ASSUME TypeOK, Next PROVE Stable
    OBVIOUS
  <2>1. ASSUME NEW h \in Hosts, NEW c \in Certs, BindAgentCert(h, c) PROVE Stable
    BY <2>1 DEF BindAgentCert, MayBind, TypeOK
  <2>2. ASSUME NEW c \in Certs, RevokeCert(c) PROVE Stable
    BY <2>2 DEF RevokeCert, TypeOK
  <2>3. CASE ResetIdentityBindings
    BY <2>3 DEF ResetIdentityBindings
  <2>4. CASE PruneDeadAgents
    BY <2>4 DEF PruneDeadAgents, Prunable, TypeOK
  <2>5. CASE Restart
    BY <2>5 DEF Restart
  <2>6. CASE UNCHANGED bound
    BY <2>6
  <2> QED
    BY <2>1, <2>2, <2>3, <2>4, <2>5, <2>6
    DEF Next, CheckRevoked, VerifyAgentCert, RegisterAgent, RecordHeartbeat,
        RecordTopology, Age, DeleteTopology, Deactivate, UnrevokeCert, CheckTimeouts,
        RevokeSaveIdentity, records
<1> QED
  BY <1>1, HeartbeatTypeCorrect, PTL DEF Spec, BindingStable

\* A host is only ever bound to a certificate that is not revoked then; a restart
\* can only bring back what the identity file holds.
THEOREM BoundWhileValid == Spec => RevokedNeverBinds
<1> DEFINE Valid ==
        \A h \in Hosts : bound'[h] # bound[h] /\ bound'[h] # NoCert =>
          \/ bound'[h] \notin revoked'
          \/ bound' = identityFile /\ revoked' = revokedFile /\ seen'[h] = "never"
<1>1. TypeOK /\ [Next]_vars => [Valid]_vars
  <2> SUFFICES ASSUME TypeOK, Next PROVE Valid
    OBVIOUS
  <2>1. ASSUME NEW h \in Hosts, NEW c \in Certs, BindAgentCert(h, c) PROVE Valid
    BY <2>1 DEF BindAgentCert, MayBind, TypeOK, records
  <2>2. ASSUME NEW c \in Certs, RevokeCert(c) PROVE Valid
    BY <2>2 DEF RevokeCert, TypeOK
  <2>3. CASE ResetIdentityBindings
    BY <2>3 DEF ResetIdentityBindings
  <2>4. CASE PruneDeadAgents
    BY <2>4 DEF PruneDeadAgents, Prunable, TypeOK
  <2>5. CASE Restart
    BY <2>5 DEF Restart
  <2>6. CASE UNCHANGED bound
    BY <2>6
  <2> QED
    BY <2>1, <2>2, <2>3, <2>4, <2>5, <2>6
    DEF Next, CheckRevoked, VerifyAgentCert, RegisterAgent, RecordHeartbeat,
        RecordTopology, Age, DeleteTopology, Deactivate, UnrevokeCert, CheckTimeouts,
        RevokeSaveIdentity, records
<1> QED
  BY <1>1, HeartbeatTypeCorrect, PTL DEF Spec, RevokedNeverBinds

\* The two together: what a run checks as BindingsKept holds for any number of
\* hosts and certificates.
THEOREM BindingsAreKept == Spec => BindingsKept
  BY AnchorsPermanent, BoundWhileValid DEF BindingsKept

-----------------------------------------------------------------------------
(* The dependency order of Bootstrap and the reverse order of Shutdown.    *)

\* What orderPlugins keeps true of its local data, and the loops after it.
SortInv ==
    /\ Placed \subseteq snapshot
    /\ boot = "no" => startupOrder = <<>> /\ fallen = {}
    /\ boot # "no" => \A q \in Plugins : unmet[q] = Before(q) \ (Placed \ fallen)
    /\ boot \notin {"no", "sorting"} => Placed = snapshot

FallenInv ==
    /\ \A q \in fallen : unmet[q] # {}
    /\ fallen # {} => \A q \in Remaining : unmet[q] # {}

OrderInv ==
    \A i \in 1..Len(startupOrder) :
        \/ startupOrder[i] \in fallen
        \/ \A p \in Before(startupOrder[i]) : \E j \in 1..(i - 1) : startupOrder[j] = p

StartInv ==
    /\ boot \in {"init", "start"} => pos >= 1
    /\ boot = "start" =>
          \A i \in 1..Len(startupOrder) :
              i < pos => state[startupOrder[i]] \in {"started", "stopped"}

StopInv ==
    /\ shutdown # "no" => boot \in {"done", "failed"}
    /\ shutdown = "no" => stopSet = {}
    /\ late \cap Placed = {}
    /\ shutdown = "stopping" =>
          /\ pos <= Len(startupOrder)
          /\ \A i \in 1..Len(startupOrder) :
                i > pos /\ startupOrder[i] \in stopSet => state[startupOrder[i]] # "started"
          /\ \A p \in stopSet : p \in Placed \/ p \in late \/ state[p] # "started"

\* The inductive invariant.
LifecycleInv ==
    /\ LifecycleTypeOK /\ SortInv /\ FallenInv /\ OrderInv /\ StartInv /\ StopInv
    /\ BootComplete /\ AllStopped

-----------------------------------------------------------------------------
\* Appending a plugin to the order: what the loops of orderPlugins do.
LEMMA AppendOrder ==
    ASSUME NEW s \in Seq(Plugins), NEW p \in Plugins
    PROVE  /\ Append(s, p) \in Seq(Plugins)
           /\ Len(Append(s, p)) = Len(s) + 1
           /\ Len(s) \in Nat
           /\ Append(s, p)[Len(s) + 1] = p
           /\ \A i \in 1..Len(s) : Append(s, p)[i] = s[i]
           /\ {Append(s, p)[i] : i \in 1..Len(Append(s, p))} =
                 {s[i] : i \in 1..Len(s)} \cup {p}
<1>1. /\ Append(s, p) \in Seq(Plugins) /\ Len(Append(s, p)) = Len(s) + 1
      /\ Len(s) \in Nat /\ Append(s, p)[Len(s) + 1] = p
      /\ \A i \in 1..Len(s) : Append(s, p)[i] = s[i]
  OBVIOUS
<1>2. {Append(s, p)[i] : i \in 1..Len(Append(s, p))} = {s[i] : i \in 1..Len(s)} \cup {p}
  <2>1. \A i \in 1..(Len(s) + 1) : i \in 1..Len(s) \/ i = Len(s) + 1
    BY <1>1
  <2>2. \A i \in 1..Len(s) : i \in 1..(Len(s) + 1)
    BY <1>1
  <2>3. Len(s) + 1 \in 1..(Len(s) + 1)
    BY <1>1
  <2> QED
    BY <1>1, <2>1, <2>2, <2>3, Zenon
<1> QED
  BY <1>1, <1>2

LEMMA LifecycleInitInv == LifecycleInit => LifecycleInv
<1> SUFFICES ASSUME LifecycleInit PROVE LifecycleInv
  OBVIOUS
<1>1. startupOrder = <<>> /\ Len(startupOrder) = 0 /\ Placed = {}
  BY DEF LifecycleInit, Placed
<1> QED
  BY <1>1 DEF LifecycleInit, LifecycleInv, LifecycleTypeOK, SortInv, FallenInv, OrderInv, StartInv, StopInv,
              BootComplete, AllStopped, Remaining

-----------------------------------------------------------------------------
\* The steps that change only registrations and the states of plugins, never
\* to started.
LEMMA StateStep ==
    ASSUME LifecycleInv,
           UNCHANGED <<deps, bootVars, pos, shutdown, stopSet>>,
           registered' \in SUBSET Plugins, unregistering' \in SUBSET Removable,
           state' \in [Plugins -> {"registered", "initialized", "started", "stopped"}],
           \A p \in Plugins : state'[p] = state[p] \/ state'[p] = "stopped",
           late' \subseteq late,
           \A p \in Plugins : p \in late /\ p \notin late' => state'[p] # "started"
    PROVE  LifecycleInv'
<1>0. Placed' = Placed /\ Remaining' = Remaining /\ \A q : Before(q)' = Before(q)
  BY DEF Placed, Remaining, Before, bootVars
<1>0a. Placed \subseteq Plugins
  BY DEF Placed, LifecycleInv, LifecycleTypeOK
<1>0b. \A i \in 1..Len(startupOrder) : startupOrder[i] \in Plugins
  BY DEF LifecycleInv, LifecycleTypeOK
<1>1. LifecycleTypeOK'
  BY <1>0 DEF LifecycleInv, LifecycleTypeOK, bootVars
<1>2. SortInv' /\ FallenInv' /\ OrderInv'
  BY <1>0 DEF LifecycleInv, SortInv, FallenInv, OrderInv, bootVars
<1>3. StartInv'
  BY <1>0b DEF LifecycleInv, StartInv, bootVars
<1>4. StopInv'
  BY <1>0, <1>0b DEF LifecycleInv, StopInv, bootVars, LifecycleTypeOK
<1>5. BootComplete' /\ AllStopped'
  BY DEF LifecycleInv, BootComplete, AllStopped, bootVars, LifecycleTypeOK
<1> QED
  BY <1>1, <1>2, <1>3, <1>4, <1>5 DEF LifecycleInv

\* orderPlugins appends a plugin.
LEMMA PlaceStep ==
    ASSUME LifecycleInv, NEW p \in Plugins, PickReady(p) \/ Fallback(p)
    PROVE  LifecycleInv'
<1> USE DEF LifecycleInv
<1>0. p \in snapshot /\ p \notin Placed /\ boot = "sorting"
  BY DEF PickReady, Fallback, First, Ready, Remaining
<1>1. /\ startupOrder' = Append(startupOrder, p)
      /\ UNCHANGED <<deps, registered, unregistering, state, boot, snapshot, pos, shutdown,
                     stopSet, late>>
  BY DEF PickReady, Fallback, stopVars
<1>2. startupOrder \in Seq(Plugins)
  BY DEF LifecycleTypeOK
<1>3. /\ startupOrder' \in Seq(Plugins) /\ Len(startupOrder') = Len(startupOrder) + 1
      /\ Len(startupOrder) \in Nat /\ startupOrder'[Len(startupOrder) + 1] = p
      /\ \A i \in 1..Len(startupOrder) : startupOrder'[i] = startupOrder[i]
      /\ Placed' = Placed \cup {p}
  BY <1>1, <1>2, AppendOrder DEF Placed
<1>4. \A q : Before(q)' = Before(q)
  BY <1>1 DEF Before
<1>5. \A i \in 1..Len(startupOrder) : startupOrder[i] # p
  BY <1>0 DEF Placed
<1>6. shutdown = "no"
  BY <1>0 DEF StopInv, LifecycleTypeOK
<1>7. /\ fallen' \subseteq Placed' /\ fallen' \subseteq fallen \cup {p}
      /\ fallen \subseteq fallen' /\ fallen \subseteq Placed
  BY <1>3 DEF PickReady, Fallback, LifecycleTypeOK
<1>8. unmet' \in [Plugins -> SUBSET Plugins]
  BY DEF PickReady, Fallback, LifecycleTypeOK
<1>9. LifecycleTypeOK'
  <2>1. \A i, j \in 1..Len(startupOrder') : startupOrder'[i] = startupOrder'[j] => i = j
    BY <1>3, <1>5 DEF LifecycleTypeOK
  <2>2. pos' \in 0..(Len(startupOrder') + 1)
    BY <1>1, <1>3 DEF LifecycleTypeOK
  <2> QED
    BY <1>1, <1>3, <1>7, <1>8, <2>1, <2>2 DEF LifecycleTypeOK
<1>10. SortInv' /\ FallenInv'
  <2>1. \A q \in Plugins : unmet[q] = Before(q) \ (Placed \ fallen)
    BY <1>0 DEF SortInv
  <2>2. Remaining' = Remaining \ {p}
    BY <1>1, <1>3 DEF Remaining
  <2>3. CASE PickReady(p)
    <3>1. fallen' = fallen /\ unmet' = [q \in Plugins |-> unmet[q] \ {p}]
      BY <2>3 DEF PickReady
    <3>2. unmet[p] = {} /\ p \in Remaining
      BY <2>3 DEF PickReady, First, Ready
    <3>3. fallen = {}
      BY <3>2 DEF FallenInv
    <3>4. \A q \in Plugins : unmet'[q] = Before(q)' \ (Placed' \ fallen')
      BY <2>1, <3>1, <3>3, <1>3, <1>4
    <3> QED
      BY <3>1, <3>3, <3>4, <1>0, <1>1, <1>3 DEF SortInv, FallenInv
  <2>4. CASE Fallback(p)
    <3>1. fallen' = fallen \cup {p} /\ unmet' = unmet
      BY <2>4 DEF Fallback
    <3>2. \A q \in Remaining : unmet[q] # {}
      BY <2>4 DEF Fallback, Ready
    <3>3. p \in Remaining
      BY <1>0 DEF Remaining
    <3>4. \A q \in Plugins : unmet'[q] = Before(q)' \ (Placed' \ fallen')
      BY <2>1, <3>1, <1>3, <1>4, <1>0
    <3> QED
      BY <3>1, <3>2, <3>3, <3>4, <2>2, <1>0, <1>1, <1>3 DEF SortInv, FallenInv
  <2> QED
    BY <2>3, <2>4
<1>11. OrderInv'
  <2> SUFFICES ASSUME NEW i \in 1..Len(startupOrder'), startupOrder'[i] \notin fallen',
                      NEW d \in (deps[startupOrder'[i]] \cap snapshot) \ {startupOrder'[i]}
               PROVE  \E j \in 1..(i - 1) : startupOrder'[j] = d
    BY <1>1 DEF OrderInv, Before
  <2>1. CASE i \in 1..Len(startupOrder)
    <3>1. startupOrder[i] \notin fallen /\ d \in Before(startupOrder[i])
      BY <2>1, <1>3, <1>7 DEF Before
    <3>2. PICK j \in 1..(i - 1) : startupOrder[j] = d
      BY <3>1, <2>1 DEF OrderInv
    <3> QED
      BY <3>2, <2>1, <1>3
  <2>2. CASE i = Len(startupOrder) + 1
    <3>1. startupOrder'[i] = p /\ PickReady(p)
      BY <2>2, <1>3 DEF Fallback
    <3>2. unmet[p] = {} /\ unmet[p] = Before(p) \ (Placed \ fallen)
      BY <3>1, <1>0 DEF PickReady, First, Ready, SortInv
    <3>3. d \in Placed
      BY <3>1, <3>2 DEF Before
    <3>4. PICK j \in 1..Len(startupOrder) : startupOrder[j] = d
      BY <3>3 DEF Placed
    <3> QED
      BY <3>4, <2>2, <1>3
  <2> QED
    BY <2>1, <2>2, <1>3
<1>12. StartInv' /\ StopInv' /\ BootComplete' /\ AllStopped'
  BY <1>0, <1>1, <1>3, <1>6 DEF StartInv, StopInv, BootComplete, AllStopped, LifecycleTypeOK
<1> QED
  BY <1>9, <1>10, <1>11, <1>12

\* Bootstrap copies the plugins.
LEMMA CopyStep == LifecycleInv /\ Bootstrap => LifecycleInv'
<1> SUFFICES ASSUME LifecycleInv, Bootstrap PROVE LifecycleInv'
  OBVIOUS
<1> USE DEF LifecycleInv
<1>1. startupOrder = <<>> /\ fallen = {} /\ Placed = {} /\ boot = "no" /\ boot' = "sorting"
  BY DEF Bootstrap, SortInv, Placed
<1>2. UNCHANGED <<deps, registered, unregistering, state, startupOrder, fallen, pos,
                  shutdown, stopSet, late>>
  BY DEF Bootstrap, stopVars
<1>3. Placed' = {} /\ shutdown = "no" /\ Len(startupOrder') = 0
  BY <1>1, <1>2 DEF Placed, StopInv, LifecycleTypeOK
<1>4. \A q \in Plugins : unmet'[q] = Before(q)'
  BY <1>2 DEF Bootstrap, Before
<1>5. LifecycleTypeOK'
  BY <1>1, <1>2, <1>3 DEF LifecycleTypeOK, Bootstrap
<1>6. SortInv' /\ FallenInv' /\ OrderInv'
  BY <1>1, <1>2, <1>3, <1>4 DEF SortInv, FallenInv, OrderInv
<1>7. StartInv' /\ StopInv' /\ BootComplete' /\ AllStopped'
  BY <1>1, <1>2, <1>3 DEF StartInv, StopInv, BootComplete, AllStopped, LifecycleTypeOK
<1> QED
  BY <1>5, <1>6, <1>7

\* The steps of Bootstrap after the order is complete.
LEMMA LoopStep ==
    ASSUME LifecycleInv, RecordOrder \/ InitPlugin \/ StartPhase \/ StartPlugin \/ BootstrapDone
    PROVE  LifecycleInv'
<1> USE DEF LifecycleInv
<1>1. UNCHANGED <<deps, registered, unregistering, snapshot, unmet, startupOrder, fallen,
                  shutdown, stopSet, late>>
  BY DEF RecordOrder, InitPlugin, StartPhase, StartPlugin, BootstrapDone, Iterate, stopVars
<1>2. boot \in {"sorting", "init", "start"} /\ boot' \in {"init", "start", "done", "failed"}
  BY DEF RecordOrder, InitPlugin, StartPhase, StartPlugin, BootstrapDone, Iterate, Loop
<1>3. Placed' = Placed /\ Remaining' = Remaining /\ \A q : Before(q)' = Before(q)
  BY <1>1 DEF Placed, Remaining, Before
<1>4. Placed = snapshot
  BY DEF RecordOrder, InitPlugin, StartPhase, StartPlugin, BootstrapDone, Iterate, SortInv,
         Remaining
<1>5. shutdown = "no"
  BY <1>2 DEF StopInv, LifecycleTypeOK
<1>6. /\ Len(startupOrder) \in Nat /\ \A i \in 1..Len(startupOrder) : startupOrder[i] \in Plugins
      /\ pos \in Nat /\ pos <= Len(startupOrder) + 1
  BY DEF LifecycleTypeOK
<1>7. /\ state' \in [Plugins -> {"registered", "initialized", "started", "stopped"}]
      /\ pos' \in 0..(Len(startupOrder) + 1)
      /\ boot' \in {"init", "start"} => pos' >= 1
  <2>1. CASE RecordOrder \/ StartPhase \/ BootstrapDone
    BY <2>1, <1>6 DEF RecordOrder, StartPhase, BootstrapDone, Loop, LifecycleTypeOK
  <2>2. CASE InitPlugin \/ StartPlugin
    <3>1. pos \in 1..Len(startupOrder)
      BY <2>2, <1>6 DEF InitPlugin, StartPlugin, Iterate, StartInv
    <3> QED
      BY <2>2, <3>1, <1>6 DEF InitPlugin, StartPlugin, Iterate, Loop, Became, LifecycleTypeOK
  <2> QED
    BY <2>1, <2>2
<1>8. LifecycleTypeOK' /\ SortInv' /\ FallenInv' /\ OrderInv'
  <2>1. LifecycleTypeOK'
    BY <1>1, <1>2, <1>3, <1>7 DEF LifecycleTypeOK
  <2>2. SortInv' /\ FallenInv' /\ OrderInv'
    <3>1. SortInv'
      BY <1>1, <1>2, <1>3, <1>4 DEF SortInv
    <3>2. FallenInv'
      BY <1>1, <1>2, <1>3, <1>4 DEF FallenInv
    <3>3. OrderInv'
      BY <1>1, <1>2, <1>3, <1>4 DEF OrderInv
    <3> QED
      BY <3>1, <3>2, <3>3
  <2> QED
    BY <2>1, <2>2
<1>9. StartInv'
  <2> SUFFICES ASSUME boot' = "start", NEW i \in 1..Len(startupOrder), i < pos'
               PROVE  state'[startupOrder[i]] \in {"started", "stopped"}
    BY <1>1, <1>7 DEF StartInv
  <2>1. CASE boot = "start"
    <3>1. StartPlugin
      BY <2>1 DEF RecordOrder, InitPlugin, StartPhase, StartPlugin, BootstrapDone, Iterate, Loop
    <3>2. pos' = pos + 1 /\ state' = [state EXCEPT ![startupOrder[pos]] = "started"]
      BY <3>1 DEF StartPlugin, Iterate, Loop, Became
    <3>3. i < pos \/ i = pos
      BY <3>2, <1>6
    <3> QED
      BY <2>1, <3>2, <3>3, <1>6 DEF StartInv, LifecycleTypeOK
  <2>2. CASE boot # "start"
    <3>1. pos' = 1
      BY <2>2 DEF RecordOrder, InitPlugin, StartPhase, StartPlugin, BootstrapDone, Iterate, Loop
    <3> QED
      BY <3>1, <1>6
  <2> QED
    BY <2>1, <2>2
<1>10. BootComplete'
  <2> SUFFICES ASSUME boot' = "done" PROVE \A p \in snapshot : state'[p] \in {"started", "stopped"}
    BY <1>1 DEF BootComplete
  <2>1. BootstrapDone
    BY DEF RecordOrder, InitPlugin, StartPhase, StartPlugin, BootstrapDone, Iterate, Loop
  <2>2. boot = "start" /\ pos > Len(startupOrder) /\ state' = state
    BY <2>1 DEF BootstrapDone
  <2>3. \A i \in 1..Len(startupOrder) : state[startupOrder[i]] \in {"started", "stopped"}
    BY <2>2, <1>6 DEF StartInv
  <2> QED
    BY <2>2, <2>3, <1>4 DEF Placed
<1>11. StopInv' /\ AllStopped'
  BY <1>1, <1>3, <1>5 DEF StopInv, AllStopped
<1> QED
  BY <1>8, <1>9, <1>10, <1>11

\* Shutdown copies the plugins.
LEMMA ShutdownStep == LifecycleInv /\ Shutdown => LifecycleInv'
<1> SUFFICES ASSUME LifecycleInv, Shutdown PROVE LifecycleInv'
  OBVIOUS
<1> USE DEF LifecycleInv
<1>1. UNCHANGED <<deps, registered, unregistering, state, boot, snapshot, unmet, startupOrder,
                  fallen>>
  BY DEF Shutdown, bootVars
<1>2. Placed' = Placed /\ Remaining' = Remaining /\ \A q : Before(q)' = Before(q)
  BY <1>1 DEF Placed, Remaining, Before
<1>3. /\ boot \in {"done", "failed"} /\ shutdown' = "stopping" /\ stopSet' = registered
      /\ late' = registered \ Placed /\ pos' = Len(startupOrder) /\ Len(startupOrder) \in Nat
  BY DEF Shutdown, LifecycleTypeOK
<1>4. LifecycleTypeOK'
  BY <1>1, <1>2, <1>3 DEF LifecycleTypeOK
<1>5. SortInv' /\ FallenInv' /\ OrderInv'
  BY <1>1, <1>2 DEF SortInv, FallenInv, OrderInv
<1>6. StartInv' /\ StopInv'
  BY <1>1, <1>2, <1>3 DEF StartInv, StopInv
<1>7. BootComplete' /\ AllStopped'
  BY <1>1, <1>3 DEF BootComplete, AllStopped
<1> QED
  BY <1>4, <1>5, <1>6, <1>7

\* Shutdown visits the next plugin of the record.
LEMMA StopStep == LifecycleInv /\ StopPlugin => LifecycleInv'
<1> SUFFICES ASSUME LifecycleInv, StopPlugin PROVE LifecycleInv'
  OBVIOUS
<1> USE DEF LifecycleInv
<1>1. UNCHANGED <<deps, registered, unregistering, boot, snapshot, unmet, startupOrder, fallen,
                  shutdown, stopSet, late>>
  BY DEF StopPlugin, bootVars, stopVars
<1>2. Placed' = Placed /\ Remaining' = Remaining /\ \A q : Before(q)' = Before(q)
  BY <1>1 DEF Placed, Remaining, Before
<1>3. /\ shutdown = "stopping" /\ boot \in {"done", "failed"} /\ Len(startupOrder) \in Nat
      /\ pos \in 1..Len(startupOrder) /\ pos' = pos - 1 /\ startupOrder[pos] \in Plugins
      /\ \A i \in 1..Len(startupOrder) : startupOrder[i] \in Plugins
  BY DEF StopPlugin, StopInv, LifecycleTypeOK
<1>4. /\ state' \in [Plugins -> {"registered", "initialized", "started", "stopped"}]
      /\ \A p \in Plugins : state'[p] = state[p] \/ state'[p] = "stopped"
      /\ startupOrder[pos] \in stopSet => state'[startupOrder[pos]] # "started"
  BY <1>3 DEF StopPlugin, StopIfStarted, Became, LifecycleTypeOK
<1>5. LifecycleTypeOK'
  BY <1>1, <1>2, <1>3, <1>4 DEF LifecycleTypeOK
<1>6. SortInv' /\ FallenInv' /\ OrderInv'
  <2>1. SortInv'
    BY <1>1, <1>2 DEF SortInv
  <2>2. FallenInv'
    BY <1>1, <1>2 DEF FallenInv
  <2>3. OrderInv'
    BY <1>1, <1>2 DEF OrderInv
  <2> QED
    BY <2>1, <2>2, <2>3
<1>7. StartInv' /\ BootComplete' /\ AllStopped'
  BY <1>1, <1>3, <1>4 DEF StartInv, BootComplete, AllStopped, LifecycleTypeOK
<1>8. StopInv'
  <2>1. \A i \in 1..Len(startupOrder) : i > pos' => i = pos \/ i > pos
    BY <1>3
  <2>2. \A i \in 1..Len(startupOrder) :
           i > pos' /\ startupOrder[i] \in stopSet => state'[startupOrder[i]] # "started"
    BY <2>1, <1>3, <1>4 DEF StopInv
  <2>3. \A p \in stopSet : p \in Placed \/ p \in late \/ state'[p] # "started"
    BY <1>3, <1>4 DEF StopInv, LifecycleTypeOK
  <2> QED
    BY <2>2, <2>3, <1>1, <1>2, <1>3 DEF StopInv
<1> QED
  BY <1>5, <1>6, <1>7, <1>8

\* Shutdown has visited all its plugins.
LEMMA DoneStep == LifecycleInv /\ ShutdownDone => LifecycleInv'
<1> SUFFICES ASSUME LifecycleInv, ShutdownDone PROVE LifecycleInv'
  OBVIOUS
<1> USE DEF LifecycleInv
<1>1. UNCHANGED <<deps, registered, unregistering, state, boot, snapshot, unmet, startupOrder,
                  fallen, pos, stopSet, late>>
  BY DEF ShutdownDone, bootVars
<1>2. Placed' = Placed /\ Remaining' = Remaining /\ \A q : Before(q)' = Before(q)
  BY <1>1 DEF Placed, Remaining, Before
<1>3. shutdown = "stopping" /\ shutdown' = "done" /\ pos = 0 /\ late = {}
  BY DEF ShutdownDone
<1>4. \A p \in stopSet : state[p] # "started"
  <2> SUFFICES ASSUME NEW p \in stopSet, p \in Placed PROVE state[p] # "started"
    BY <1>3 DEF StopInv
  <2>1. PICK i \in 1..Len(startupOrder) : startupOrder[i] = p
    BY DEF Placed
  <2>2. i > pos
    BY <2>1, <1>3
  <2> QED
    BY <2>1, <2>2, <1>3 DEF StopInv
<1>5. LifecycleTypeOK'
  BY <1>1, <1>2, <1>3 DEF LifecycleTypeOK
<1>6. SortInv' /\ FallenInv' /\ OrderInv' /\ StartInv' /\ BootComplete'
  BY <1>1, <1>2 DEF SortInv, FallenInv, OrderInv, StartInv, BootComplete
<1>7. StopInv' /\ AllStopped'
  BY <1>1, <1>2, <1>3, <1>4 DEF StopInv, AllStopped
<1> QED
  BY <1>5, <1>6, <1>7

-----------------------------------------------------------------------------
LEMMA LifecycleNextInv == LifecycleInv /\ [LifecycleNext]_lifecycleVars => LifecycleInv'
<1> SUFFICES ASSUME LifecycleInv, [LifecycleNext]_lifecycleVars PROVE LifecycleInv'
  OBVIOUS
<1>1. ASSUME NEW p \in Plugins, RegisterPlugin(p) PROVE LifecycleInv'
  BY <1>1, StateStep DEF RegisterPlugin, stopVars, LifecycleInv, LifecycleTypeOK
<1>2. ASSUME NEW p \in Plugins, UnregisterStop(p) PROVE LifecycleInv'
  BY <1>2, StateStep DEF UnregisterStop, stopVars, Became, LifecycleInv, LifecycleTypeOK
<1>3. ASSUME NEW p \in Plugins, UnregisterRemove(p) PROVE LifecycleInv'
  BY <1>3, StateStep DEF UnregisterRemove, stopVars, LifecycleInv, LifecycleTypeOK
<1>4. ASSUME NEW p \in Plugins, PickReady(p) \/ Fallback(p) PROVE LifecycleInv'
  BY <1>4, PlaceStep
<1>5. ASSUME NEW p \in Plugins, StopLate(p) PROVE LifecycleInv'
  BY <1>5, StateStep DEF StopLate, StopIfStarted, Became, LifecycleInv, LifecycleTypeOK
<1>6. CASE RecordOrder \/ InitPlugin \/ StartPhase \/ StartPlugin \/ BootstrapDone
  BY <1>6, LoopStep
<1>7. CASE Bootstrap \/ Shutdown \/ StopPlugin \/ ShutdownDone
  BY <1>7, CopyStep, ShutdownStep, StopStep, DoneStep
<1>8. CASE UNCHANGED lifecycleVars
  BY <1>8, StateStep DEF lifecycleVars, stopVars, LifecycleInv, LifecycleTypeOK
<1> QED
  BY <1>1, <1>2, <1>3, <1>4, <1>5, <1>6, <1>7, <1>8 DEF LifecycleNext

\* LifecycleInv holds in every reachable state.
THEOREM Invariance == LifecycleSpec => []LifecycleInv
<1>1. LifecycleInit => LifecycleInv
  BY LifecycleInitInv
<1>2. LifecycleInv /\ [LifecycleNext]_lifecycleVars => LifecycleInv'
  BY LifecycleNextInv
<1> QED
  BY <1>1, <1>2, PTL DEF LifecycleSpec

\* Every reachable state is well-formed; in particular the startup order never
\* names a plugin twice.
THEOREM LifecycleTypeCorrect == LifecycleSpec => []LifecycleTypeOK
<1>1. LifecycleInv => LifecycleTypeOK
  BY DEF LifecycleInv
<1> QED
  BY <1>1, Invariance, PTL

\* A Bootstrap that succeeds has started every plugin, and a Shutdown that
\* returns has stopped every plugin it found.
THEOREM EveryPluginVisited == LifecycleSpec => []NoPluginLost
<1>1. LifecycleInv => NoPluginLost
  BY DEF LifecycleInv, NoPluginLost
<1> QED
  BY <1>1, Invariance, PTL

\* The fallback to priority order is confined to dependency cycles and to what
\* depends on them.
THEOREM FallbackConfined == LifecycleSpec => []FallbackOnlyForCycles
<1>1. LifecycleInv => FallbackOnlyForCycles
  <2> SUFFICES ASSUME LifecycleInv, boot \notin {"no", "sorting"}, NEW q \in fallen
               PROVE  Before(q) \cap fallen # {}
    BY DEF FallbackOnlyForCycles
  <2>1. q \in Plugins
    BY DEF LifecycleInv, LifecycleTypeOK, Placed
  <2>2. Placed = snapshot /\ unmet[q] = Before(q) \ (Placed \ fallen) /\ unmet[q] # {}
    BY <2>1 DEF LifecycleInv, SortInv, FallenInv
  <2> QED
    BY <2>2 DEF Before
<1> QED
  BY <1>1, Invariance, PTL

\* A plugin starts after the plugins it depends on.
THEOREM StartsInOrder == LifecycleSpec => DepsStartFirst
<1> DEFINE A == \A q \in Plugins : state'[q] = "started" /\ state[q] # "started" =>
          q \in fallen \/ \A p \in Before(q) : state[p] \in {"started", "stopped"}
<1>1. LifecycleInv /\ [LifecycleNext]_lifecycleVars => A
  <2> SUFFICES ASSUME LifecycleInv, [LifecycleNext]_lifecycleVars, NEW q \in Plugins, state'[q] = "started",
                      state[q] # "started", q \notin fallen, NEW p \in Before(q)
               PROVE  state[p] \in {"started", "stopped"}
    OBVIOUS
  <2>1. StartPlugin
    BY DEF LifecycleNext, lifecycleVars, RegisterPlugin, UnregisterStop, UnregisterRemove, PickReady, Fallback,
           StopLate, StopIfStarted, Bootstrap, RecordOrder, InitPlugin, StartPhase,
           BootstrapDone, Shutdown, StopPlugin, ShutdownDone, Iterate, Became, LifecycleInv, LifecycleTypeOK
  <2>2. /\ boot = "start" /\ Len(startupOrder) \in Nat /\ pos \in 1..Len(startupOrder)
        /\ state' = [state EXCEPT ![startupOrder[pos]] = "started"]
    BY <2>1 DEF StartPlugin, Iterate, Became, LifecycleInv, LifecycleTypeOK, StartInv
  <2>3. q = startupOrder[pos]
    BY <2>2 DEF LifecycleInv, LifecycleTypeOK
  <2>4. PICK j \in 1..(pos - 1) : startupOrder[j] = p
    BY <2>2, <2>3 DEF LifecycleInv, OrderInv
  <2>5. j \in 1..Len(startupOrder) /\ j < pos
    BY <2>2, <2>4
  <2> QED
    BY <2>2, <2>4, <2>5 DEF LifecycleInv, StartInv
<1> QED
  BY <1>1, Invariance, PTL DEF LifecycleSpec, DepsStartFirst

\* Shutdown stops a plugin after the plugins that depend on it.
THEOREM StopsInReverse == LifecycleSpec => DependentsStopFirst
<1> DEFINE A == \A p \in Plugins :
          shutdown = "stopping" /\ pos' # pos /\ state[p] = "started" /\ state'[p] = "stopped" =>
             \A q \in (stopSet \cap snapshot) \ fallen :
                p \in Before(q) => state[q] # "started"
<1>1. LifecycleInv /\ [LifecycleNext]_lifecycleVars => A
  <2> SUFFICES ASSUME LifecycleInv, [LifecycleNext]_lifecycleVars, NEW p \in Plugins, shutdown = "stopping", pos' # pos,
                      state[p] = "started", state'[p] = "stopped",
                      NEW q \in (stopSet \cap snapshot) \ fallen, p \in Before(q)
               PROVE  state[q] # "started"
    OBVIOUS
  <2>1. boot \in {"done", "failed"}
    BY DEF LifecycleInv, StopInv
  <2>2. StopPlugin
    BY <2>1 DEF LifecycleNext, lifecycleVars, RegisterPlugin, UnregisterStop, UnregisterRemove, PickReady,
           Fallback, StopLate, Bootstrap, RecordOrder, InitPlugin, StartPhase, StartPlugin,
           BootstrapDone, Shutdown, ShutdownDone, Iterate
  <2>3. /\ Len(startupOrder) \in Nat /\ pos \in 1..Len(startupOrder) /\ p = startupOrder[pos]
    BY <2>2 DEF StopPlugin, StopIfStarted, Became, LifecycleInv, LifecycleTypeOK, StopInv
  <2>4. PICK i \in 1..Len(startupOrder) : startupOrder[i] = q
    BY <2>1 DEF LifecycleInv, SortInv, Placed
  <2>5. PICK j \in 1..(i - 1) : startupOrder[j] = p
    BY <2>4 DEF LifecycleInv, OrderInv
  <2>6. j = pos /\ i > pos
    BY <2>3, <2>4, <2>5 DEF LifecycleInv, LifecycleTypeOK
  <2> QED
    BY <2>4, <2>6 DEF LifecycleInv, StopInv
<1> QED
  BY <1>1, Invariance, PTL DEF LifecycleSpec, DependentsStopFirst

\* Both halves of what the order promises, for every finite set of plugins.
THEOREM StartOrderKept == LifecycleSpec => StartOrderSound
  BY StartsInOrder, FallbackConfined DEF StartOrderSound

=============================================================================
