--------------------------- MODULE PlatformProofs ---------------------------
(***************************************************************************)
(* What the kernel finds on its disk is what it can go on with             *)
(* (MCPlatform's DiskSound): an extension that is enabled has what it      *)
(* needs, and the certificates agree, whatever crashed, failed to be       *)
(* written or was done by an operator before.  And what it judges of a     *)
(* network, or a master of several, is sound (NetworkSound).               *)
(*                                                                         *)
(* ExtInv says of the records in memory and of those in the state file     *)
(* what EnabledDepsHold says of the former: a restart takes the latter.    *)
(* CertInv says where a set-up of the certificates is: which pairs it      *)
(* holds, which files hold them already and which are still to be written, *)
(* and that a CA is replaced only once it has expired or does not load.    *)
(* NetInv and FedInv say of every fact, report and request on its way      *)
(* whose it is and which rules it may name.                                *)
(***************************************************************************)
EXTENDS MCPlatform, FiniteSetTheorems, WellFoundedInduction, TLAPS

-----------------------------------------------------------------------------
(* The extension manager.                                                  *)

\* A dependency of what was ever let in names an extension there can be.
KnownDependencies == [id : ExtIds, min : Nat, open : BOOLEAN]
KnownSpecs == {s \in Specs : s.deps \subseteq KnownDependencies}
Entries == [state : {"installed", "enabled", "disabled"}, version : Nat, type : STRING, deps : SUBSET KnownDependencies, given : STRING]
Ways == [pc : {"fetch", "extract", "register", "enable"}, spec : KnownSpecs]

\* EnabledDepsHold, of one set of records.
HaveDeps(r) ==
    \A i \in present(r) : r[i].state = "enabled" => \A d \in r[i].deps : /\ r[d.id].state = "enabled"
                                                                         /\ satisfied(d, r[d.id].version)
GoodRecords(r) == r \in [ExtIds -> Entries \cup {NoExt}] /\ HaveDeps(r)

\* What an installation checked before it gave up the lock may be gone when it registers, so
\* nothing more than this is known of it.
ExtInv ==
    /\ GoodRecords(records) /\ GoodRecords(stateFile)
    /\ installs \in [Installers -> Ways \cup {[pc |-> "idle"]}]

LEMMA EntryFacts ==
    ASSUME NEW r, r \in [ExtIds -> Entries \cup {NoExt}], NEW i \in ExtIds
    PROVE  /\ i \in present(r) => r[i] \in Entries
           /\ i \notin present(r) <=> r[i].state = "absent"
           /\ \A d \in KnownDependencies : d.id \in ExtIds /\ d.min \in Nat
BY DEF present, NoExt, KnownDependencies

\* What JSON keeps of a record accepts every version.
LEMMA PersistedGood == ASSUME NEW r, GoodRecords(r) PROVE GoodRecords(persisted(r))
<1> DEFINE f == persisted(r)
           o(d) == [d EXCEPT !.open = TRUE]
<1>1. r \in [ExtIds -> Entries \cup {NoExt}]
  BY DEF GoodRecords
<1>2. \A d \in KnownDependencies : o(d) \in KnownDependencies /\ o(d).id = d.id /\ o(d).open = TRUE
  BY DEF KnownDependencies
<1>3. ASSUME NEW i \in ExtIds
      PROVE  /\ f[i] \in Entries \cup {NoExt}
             /\ f[i].state = r[i].state
             /\ i \in present(r) => f[i].version = r[i].version /\ f[i].deps = {o(d) : d \in r[i].deps}
  <2>1. CASE r[i].state = "absent"
    <3>1. f[i] = NoExt
      BY <2>1 DEF persisted
    <3> QED
      BY <2>1, <3>1 DEF NoExt, present
  <2>2. CASE r[i].state # "absent"
    <3>1. r[i] \in Entries
      BY <1>1, <2>2, EntryFacts DEF present
    <3>2. f[i] = [r[i] EXCEPT !.deps = {o(d) : d \in r[i].deps}]
      BY <2>2 DEF persisted
    <3>3. {o(d) : d \in r[i].deps} \in SUBSET KnownDependencies
      BY <1>2, <3>1 DEF Entries
    <3> HIDE DEF f, o
    <3> QED
      BY <3>1, <3>2, <3>3 DEF Entries
  <2> QED
    BY <2>1, <2>2
<1>4. f \in [ExtIds -> Entries \cup {NoExt}]
  BY <1>3 DEF persisted
<1>5. ASSUME NEW i \in present(f), f[i].state = "enabled", NEW e \in f[i].deps
      PROVE  f[e.id].state = "enabled" /\ satisfied(e, f[e.id].version)
  <2>1. i \in ExtIds /\ i \in present(r) /\ r[i].state = "enabled"
    BY <1>3, <1>5 DEF present
  <2>2. PICK d \in r[i].deps : e = o(d)
    BY <1>3, <2>1
  <2>3. d \in KnownDependencies
    BY <1>1, <2>1, EntryFacts DEF Entries
  <2>4. r[d.id].state = "enabled"
    BY <2>1 DEF GoodRecords, HaveDeps
  <2>5. d.id \in ExtIds
    BY <2>3 DEF KnownDependencies
  <2> QED
    BY <1>2, <1>3, <2>2, <2>3, <2>4, <2>5 DEF satisfied
<1> QED
  BY <1>4, <1>5 DEF GoodRecords, HaveDeps

LEMMA SaveGood ==
    ASSUME ExtInv, NEW r, GoodRecords(r), saveState(r)
    PROVE  GoodRecords(stateFile')
BY PersistedGood DEF ExtInv, saveState

\* One record gets another state.
LEMMA StateChanged ==
    ASSUME NEW r \in [ExtIds -> Entries \cup {NoExt}], NEW i \in present(r), NEW to \in {"enabled", "disabled"}
    PROVE  LET n == [r EXCEPT ![i].state = to]
           IN  /\ n \in [ExtIds -> Entries \cup {NoExt}] /\ present(n) = present(r)
               /\ \A j \in ExtIds \ {i} : n[j] = r[j]
               /\ n[i].state = to /\ n[i].version = r[i].version /\ n[i].deps = r[i].deps
<1>1. i \in ExtIds /\ r[i] \in Entries
  BY EntryFacts DEF present
<1>2. [r[i] EXCEPT !.state = to] \in Entries
  BY <1>1 DEF Entries
<1>3. \A k \in ExtIds \ {i} : [r EXCEPT ![i].state = to][k] = r[k]
  BY <1>1
<1>4. /\ [r EXCEPT ![i].state = to][i].state = to /\ [r EXCEPT ![i].state = to][i].version = r[i].version
      /\ [r EXCEPT ![i].state = to][i].deps = r[i].deps
  BY <1>1 DEF Entries
<1>5. [r EXCEPT ![i].state = to] \in [ExtIds -> Entries \cup {NoExt}]
  BY <1>1, <1>2
<1>6. present([r EXCEPT ![i].state = to]) = present(r)
  BY <1>1, <1>3, <1>4 DEF present
<1> QED
  BY <1>3, <1>4, <1>5, <1>6

LEMMA EnableGood ==
    ASSUME GoodRecords(records), NEW id \in present(records), records[id].state # "enabled", DepsEnabled(id)
    PROVE  GoodRecords(enabled(id))
<1> DEFINE n == enabled(id)
<1>1. /\ n \in [ExtIds -> Entries \cup {NoExt}] /\ present(n) = present(records)
      /\ \A j \in ExtIds \ {id} : n[j] = records[j]
      /\ n[id].state = "enabled" /\ n[id].version = records[id].version /\ n[id].deps = records[id].deps
  BY StateChanged DEF GoodRecords, enabled
<1>2. \A j \in present(records) : \A d \in records[j].deps : d.id \in ExtIds
  BY EntryFacts DEF GoodRecords, Entries, KnownDependencies, present
<1> HIDE DEF n
<1>3. ASSUME NEW j \in present(n), n[j].state = "enabled", NEW d \in n[j].deps
      PROVE  n[d.id].state = "enabled" /\ satisfied(d, n[d.id].version)
  <2>1. j \in present(records) /\ n[j].deps = records[j].deps /\ (j # id => records[j].state = "enabled")
    BY <1>1, <1>3 DEF present
  <2>2. d.id \in ExtIds /\ records[d.id].state = "enabled" /\ satisfied(d, records[d.id].version)
    BY <1>2, <1>3, <2>1 DEF DepsEnabled, GoodRecords, HaveDeps
  <2> QED
    BY <1>1, <2>2
<1> QED
  BY <1>1, <1>3 DEF GoodRecords, HaveDeps, n

LEMMA DisableGood ==
    ASSUME GoodRecords(records), NEW id \in present(records), dependents(id, {"enabled"}) = {}
    PROVE  GoodRecords([records EXCEPT ![id].state = "disabled"])
<1> DEFINE n == [records EXCEPT ![id].state = "disabled"]
<1>1. /\ n \in [ExtIds -> Entries \cup {NoExt}] /\ present(n) = present(records)
      /\ \A j \in ExtIds \ {id} : n[j] = records[j]
      /\ n[id].state = "disabled"
  BY StateChanged DEF GoodRecords
<1>2. \A j \in present(records) : \A d \in records[j].deps : d.id \in ExtIds
  BY EntryFacts DEF GoodRecords, Entries, KnownDependencies, present
<1> HIDE DEF n
<1>3. ASSUME NEW j \in present(n), n[j].state = "enabled", NEW d \in n[j].deps
      PROVE  n[d.id].state = "enabled" /\ satisfied(d, n[d.id].version)
  <2>1. j \in present(records) \ {id} /\ n[j] = records[j]
    BY <1>1, <1>3 DEF present
  <2>2. d.id \in ExtIds /\ records[d.id].state = "enabled" /\ satisfied(d, records[d.id].version)
    BY <1>2, <1>3, <2>1 DEF GoodRecords, HaveDeps
  <2>3. d.id # id
    BY <1>3, <2>1 DEF dependents
  <2> QED
    BY <1>1, <2>2, <2>3
<1> QED
  BY <1>1, <1>3 DEF GoodRecords, HaveDeps, n

LEMMA DeleteGood ==
    ASSUME GoodRecords(records), NEW id \in present(records),
           dependents(id, {"installed", "enabled", "disabled"}) = {}
    PROVE  GoodRecords([records EXCEPT ![id] = NoExt])
<1> DEFINE n == [records EXCEPT ![id] = NoExt]
<1>1. /\ n \in [ExtIds -> Entries \cup {NoExt}] /\ id \in ExtIds
      /\ \A j \in ExtIds \ {id} : n[j] = records[j]
      /\ n[id].state = "absent"
  BY DEF GoodRecords, NoExt, present
<1>2. \A j \in present(records) : \A d \in records[j].deps : d.id \in ExtIds
  BY EntryFacts DEF GoodRecords, Entries, KnownDependencies, present
<1> HIDE DEF n
<1>3. ASSUME NEW j \in present(n), n[j].state = "enabled", NEW d \in n[j].deps
      PROVE  n[d.id].state = "enabled" /\ satisfied(d, n[d.id].version)
  <2>1. j \in present(records) \ {id} /\ n[j] = records[j]
    BY <1>1, <1>3 DEF present
  <2>2. d.id \in ExtIds /\ records[d.id].state = "enabled" /\ satisfied(d, records[d.id].version)
    BY <1>2, <1>3, <2>1 DEF GoodRecords, HaveDeps
  <2>3. d.id # id
    BY <1>3, <2>1 DEF dependents
  <2> QED
    BY <1>1, <2>2, <2>3
<1> QED
  BY <1>1, <1>3 DEF GoodRecords, HaveDeps, n

\* A record that was not there is not enabled, and nothing enabled needed it.
LEMMA RegisterGood ==
    ASSUME GoodRecords(records), NEW s \in KnownSpecs, s.id \notin present(records)
    PROVE  GoodRecords([records EXCEPT ![s.id] = [state |-> "installed", version |-> s.version, type |-> s.type,
                                                  deps |-> s.deps, given |-> s.state]])
<1> DEFINE e == [state |-> "installed", version |-> s.version, type |-> s.type, deps |-> s.deps, given |-> s.state]
           n == [records EXCEPT ![s.id] = e]
<1>1. s.id \in ExtIds /\ e \in Entries /\ e.state = "installed"
  BY SpecsAssumption DEF KnownSpecs, Entries, ExtIds
<1>2. /\ n \in [ExtIds -> Entries \cup {NoExt}]
      /\ \A j \in ExtIds \ {s.id} : n[j] = records[j]
      /\ n[s.id].state = "installed" /\ records[s.id].state = "absent"
  BY <1>1 DEF GoodRecords, present
<1>3. \A j \in present(records) : \A d \in records[j].deps : d.id \in ExtIds
  BY EntryFacts DEF GoodRecords, Entries, KnownDependencies, present
<1> HIDE DEF n, e
<1>4. ASSUME NEW j \in present(n), n[j].state = "enabled", NEW d \in n[j].deps
      PROVE  n[d.id].state = "enabled" /\ satisfied(d, n[d.id].version)
  <2>1. j \in present(records) /\ n[j] = records[j]
    BY <1>2, <1>4 DEF present
  <2>2. d.id \in ExtIds /\ records[d.id].state = "enabled" /\ satisfied(d, records[d.id].version)
    BY <1>3, <1>4, <2>1 DEF GoodRecords, HaveDeps
  <2> QED
    BY <1>2, <2>2
<1> QED
  BY <1>2, <1>4 DEF GoodRecords, HaveDeps, n, e

\* What an installation is at.
LEMMA InstallFacts ==
    ASSUME ExtInv, NEW p \in Installers, installs[p].pc # "idle"
    PROVE  /\ installs[p] \in Ways /\ installs[p].spec \in KnownSpecs
           /\ \A to \in {"extract", "register", "enable"} :
                 [installs EXCEPT ![p].pc = to] \in [Installers -> Ways \cup {[pc |-> "idle"]}]
<1>1. installs[p] \in Ways
  BY DEF ExtInv
<1>2. installs[p].spec \in KnownSpecs
  BY <1>1 DEF Ways
<1>3. \A to \in {"extract", "register", "enable"} : [installs[p] EXCEPT !.pc = to] \in Ways
  BY <1>1 DEF Ways
<1> QED
  BY <1>1, <1>2, <1>3 DEF ExtInv

LEMMA ExtInitGood == ExtInit => ExtInv
<1> SUFFICES ASSUME ExtInit PROVE ExtInv
  OBVIOUS
<1>1. GoodRecords([i \in ExtIds |-> NoExt])
  BY DEF GoodRecords, HaveDeps, present, NoExt
<1> QED
  BY <1>1 DEF ExtInit, ExtInv

LEMMA InstallStep ==
    ASSUME ExtInv, NEW p \in Installers,
           (\E spec \in Specs : InstallFromSpec(p, spec)) \/ Fetch(p) \/ Extract(p) \/ Register(p) \/ FinishInstall(p)
    PROVE  ExtInv'
<1>1. /\ GoodRecords(records) /\ GoodRecords(stateFile)
      /\ installs \in [Installers -> Ways \cup {[pc |-> "idle"]}]
  BY DEF ExtInv
<1>2. [installs EXCEPT ![p] = [pc |-> "idle"]] \in [Installers -> Ways \cup {[pc |-> "idle"]}]
  BY <1>1
<1>3. ASSUME NEW spec \in Specs, InstallFromSpec(p, spec) PROVE ExtInv'
  <2>1. /\ installs' = [installs EXCEPT ![p] = [pc |-> "fetch", spec |-> spec]]
        /\ UNCHANGED <<records, stateFile>>
        /\ \A d \in spec.deps : d.id \in present(records)
    BY <1>3 DEF InstallFromSpec
  <2>2. \A d \in spec.deps : d \in KnownDependencies
    <3>1. \A d \in spec.deps : d \in Dependencies /\ d.id \in ExtIds
      BY <2>1, SpecsAssumption DEF present
    <3> QED
      BY <3>1 DEF Dependencies, KnownDependencies
  <2>3. [pc |-> "fetch", spec |-> spec] \in Ways
    BY <2>2 DEF Ways, KnownSpecs
  <2> QED
    BY <1>1, <2>1, <2>3 DEF ExtInv
<1>4. CASE Fetch(p)
  <2>1. installs[p].pc # "idle" /\ UNCHANGED <<records, stateFile>>
    BY <1>4 DEF Fetch
  <2>2. \/ installs' = [installs EXCEPT ![p].pc = "extract"]
        \/ installs' = [installs EXCEPT ![p] = [pc |-> "idle"]]
    BY <1>4 DEF Fetch
  <2>3. installs' \in [Installers -> Ways \cup {[pc |-> "idle"]}]
    BY <1>2, <2>1, <2>2, InstallFacts
  <2> QED
    BY <1>1, <2>1, <2>3 DEF ExtInv
<1>5. CASE Extract(p)
  <2>1. installs[p].pc # "idle" /\ UNCHANGED <<records, stateFile>>
    BY <1>5 DEF Extract
  <2>2. \/ installs' = [installs EXCEPT ![p].pc = "register"]
        \/ installs' = [installs EXCEPT ![p] = [pc |-> "idle"]]
    BY <1>5 DEF Extract
  <2>3. installs' \in [Installers -> Ways \cup {[pc |-> "idle"]}]
    BY <1>2, <2>1, <2>2, InstallFacts
  <2> QED
    BY <1>1, <2>1, <2>3 DEF ExtInv
<1>6. CASE Register(p)
  <2> DEFINE s == installs[p].spec
             r == [records EXCEPT ![s.id] = [state |-> "installed", version |-> s.version, type |-> s.type,
                                             deps |-> s.deps, given |-> s.state]]
  <2>1. installs[p].pc # "idle"
    BY <1>6 DEF Register
  <2>2. \/ installs' = [installs EXCEPT ![p].pc = "enable"]
        \/ installs' = [installs EXCEPT ![p] = [pc |-> "idle"]]
    BY <1>6 DEF Register
  <2>3. installs' \in [Installers -> Ways \cup {[pc |-> "idle"]}]
    BY <1>2, <2>1, <2>2, InstallFacts
  <2>4. \/ UNCHANGED <<records, stateFile>>
        \/ s.id \notin present(records) /\ records' = r /\ saveState(r)
    BY <1>6 DEF Register, saveState
  <2>5. s.id \notin present(records) => GoodRecords(r)
    BY <1>1, <2>1, InstallFacts, RegisterGood
  <2> HIDE DEF r, s
  <2> QED
    BY <1>1, <2>3, <2>4, <2>5, SaveGood DEF ExtInv
<1>7. CASE FinishInstall(p)
  <2>1. installs' = [installs EXCEPT ![p] = [pc |-> "idle"]]
    BY <1>7 DEF FinishInstall
  <2>2. \/ UNCHANGED <<records, stateFile>>
        \/ \E id \in present(records) : /\ records[id].state # "enabled" /\ DepsEnabled(id)
                                        /\ records' = enabled(id) /\ saveState(enabled(id))
    BY <1>7 DEF FinishInstall
  <2> QED
    BY <1>1, <1>2, <2>1, <2>2, EnableGood, SaveGood DEF ExtInv
<1> QED
  BY <1>3, <1>4, <1>5, <1>6, <1>7

LEMMA SwitchStep ==
    ASSUME ExtInv, NEW id \in ExtIds, Enable(id) \/ Disable(id) \/ Delete(id) \/ Execute(id)
    PROVE  ExtInv'
<1>1. GoodRecords(records) /\ GoodRecords(stateFile) /\ UNCHANGED installs /\ id \in present(records)
  BY DEF ExtInv, Enable, Disable, Delete, Execute
<1>2. \/ UNCHANGED <<records, stateFile>>
      \/ \E r : GoodRecords(r) /\ records' = r /\ saveState(r)
  <2>1. CASE Enable(id)
    BY <1>1, <2>1, EnableGood DEF Enable
  <2>2. CASE Disable(id)
    BY <1>1, <2>2, DisableGood DEF Disable
  <2>3. CASE Delete(id)
    BY <1>1, <2>3, DeleteGood DEF Delete
  <2>4. CASE Execute(id)
    BY <2>4 DEF Execute
  <2> QED
    BY <2>1, <2>2, <2>3, <2>4
<1> QED
  BY <1>1, <1>2, SaveGood DEF ExtInv

LEMMA ExtStep == ASSUME ExtInv, [ExtNext]_extVars PROVE ExtInv'
<1>1. CASE UNCHANGED extVars
  BY <1>1 DEF extVars, ExtInv
<1>2. CASE RestartManager
  <2>1. /\ records' = stateFile \/ records' = [i \in ExtIds |-> NoExt]
        /\ stateFile' = records' /\ installs' = [p \in Installers |-> [pc |-> "idle"]]
    BY <1>2 DEF RestartManager
  <2>2. GoodRecords([i \in ExtIds |-> NoExt])
    BY DEF GoodRecords, HaveDeps, present, NoExt
  <2> QED
    BY <2>1, <2>2 DEF ExtInv
<1> QED
  BY <1>1, <1>2, InstallStep, SwitchStep DEF ExtNext

LEMMA ExtInvSound == ExtInv => EnabledDepsHold
BY DEF ExtInv, GoodRecords, HaveDeps, EnabledDepsHold

\* However installations, deletions, failed writes and restarts overlap, an enabled extension has
\* its dependencies, enabled and of a version it accepts, in memory and in the state file
\* (lifecycle.go, Enable, Disable, Delete and saveState).
THEOREM EnabledHaveDependencies == ExtSpec => []EnabledDepsHold
<1>1. ExtInit => ExtInv
  BY ExtInitGood
<1>2. ExtInv /\ [ExtNext]_extVars => ExtInv'
  BY ExtStep
<1> QED
  BY <1>1, <1>2, ExtInvSound, PTL DEF ExtSpec

-----------------------------------------------------------------------------
(* The certificate store.                                                  *)

Pairs == [n : Nat, by : Nat]
Writes == [file : Files, pair : Pairs, must : BOOLEAN]
Kernels == [ca : Pairs, server : Pairs, stale : BOOLEAN]
Copies == [ca : Pairs, pair : Pairs, forced : BOOLEAN]
SetupPcs == {"down", "ca", "server", "agent", "done"}

CAFiles == {"ca.crt", "ca.key"}
ServerFiles == {"server.crt", "server.key"}
AgentFiles == {"agent.crt", "agent.key"}

CertTypes ==
    /\ certFiles \in [Files -> Pairs]
    /\ setupPc \in SetupPcs
    /\ toWrite \in Seq(Writes)
    /\ caPair \in Pairs /\ serverPair \in Pairs
    /\ byTool \in BOOLEAN
    /\ serving = <<>> \/ \E s \in Kernels : serving = <<s>>
    /\ provisioned = <<>> \/ \E a \in Copies : provisioned = <<a>>
    /\ certFaults \in Nat

\* The writes that are left, of which no two are for one file.
Left(q) == {q[i] : i \in DOMAIN q}
Distinct(q) == \A i, j \in DOMAIN q : q[i].file = q[j].file => i = j
Waits(f) == \E w \in Left(toWrite) : w.file = f
AreOf(files, p) == \A f \in files : certFiles[f] = p

\* What each step of setupTLS leaves to write.
QueueInv ==
    /\ Distinct(toWrite)
    /\ setupPc \in {"down", "ca"} => toWrite = <<>>
    /\ setupPc = "server" =>
          \A w \in Left(toWrite) :
              \/ w.file \in CAFiles /\ w.pair = caPair /\ w.must /\ certFiles[w.file].n # caPair.n
              \/ w.file \notin CAFiles /\ w.pair = Missing /\ ~w.must
    /\ setupPc = "agent" => \A w \in Left(toWrite) : w.file \in ServerFiles /\ w.pair = serverPair /\ w.must
    /\ setupPc = "done" => \A w \in Left(toWrite) : w.file \in AgentFiles /\ w.pair.by = caPair.n /\ ~w.must

\* Its local variables and the files are the same pairs, but for what is left to write.
SetupInv ==
    /\ setupPc \in {"server", "agent", "done"} =>
          caPair.n # 0 /\ \A f \in CAFiles : certFiles[f] = caPair \/ Waits(f)
    /\ setupPc \in {"agent", "done"} =>
          /\ serverPair.n # 0 /\ serverPair.by = caPair.n
          /\ \A f \in ServerFiles : certFiles[f] = serverPair \/ Waits(f)
    /\ setupPc = "done" /\ certFaults = 0 => Waits("agent.key") \/ \A a \in AgentOnDisk : a.by = caPair.n

\* A CA that is still on the disk while another is to be written over it has expired.
OldCAInv == setupPc = "server" /\ (\E f \in CAFiles : Waits(f)) => \A ca \in CAOnDisk : ca.n \in expiredPairs

ServedInv ==
    \A s \in Kernels : serving = <<s>> /\ ~s.stale =>
        /\ setupPc = "down"
        /\ AreOf(CAFiles, s.ca) /\ s.ca.n # 0
        /\ AreOf(ServerFiles, s.server) /\ s.server.n # 0 /\ s.server.by = s.ca.n
        /\ certFaults = 0 => \A a \in AgentOnDisk : a.by = s.ca.n

\* As long as the copies of an agent are valid, the CA is the one that signed them.
ProvisionedInv ==
    \A a \in Copies : provisioned = <<a>> /\ ~a.forced =>
        \/ a.ca.n \in expiredPairs \/ a.pair.n \in expiredPairs
        \/ /\ AreOf(CAFiles, a.ca) /\ a.ca.n # 0 /\ a.pair.by = a.ca.n
           /\ setupPc \in {"server", "agent", "done"} => caPair = a.ca

CertInv == CertTypes /\ QueueInv /\ SetupInv /\ OldCAInv /\ ServedInv /\ ProvisionedInv

-----------------------------------------------------------------------------

LEMMA WritesFinite == ASSUME NEW q \in Seq(Writes) PROVE IsFiniteSet({q[i].pair.n : i \in DOMAIN q})
<1> DEFINE g == [i \in 1 .. Len(q) |-> q[i].pair.n]
           T == {q[i].pair.n : i \in DOMAIN q}
<1>1. DOMAIN q = 1 .. Len(q) /\ Len(q) \in Nat
  OBVIOUS
<1>2. g \in Surjection(1 .. Len(q), T)
  BY <1>1 DEF Surjection
<1>3. IsFiniteSet(1 .. Len(q))
  BY <1>1, FS_Interval
<1> HIDE DEF g, T
<1> QED
  BY <1>2, <1>3, FS_Surjection DEF T

LEMMA FilesFinite == IsFiniteSet(Files)
<1>1. Files = {} \cup {"ca.crt"} \cup {"ca.key"} \cup {"server.crt"} \cup {"server.key"} \cup {"agent.crt"} \cup {"agent.key"}
  BY DEF Files
<1> QED
  BY <1>1, FS_EmptySet, FS_AddElement

LEMMA OfFilesFinite ==
    IsFiniteSet({certFiles[f].n : f \in Files}) /\ IsFiniteSet({certFiles[f].by : f \in Files})
<1> DEFINE g == [f \in Files |-> certFiles[f].n]
           h == [f \in Files |-> certFiles[f].by]
           S == {certFiles[f].n : f \in Files}
           T == {certFiles[f].by : f \in Files}
<1>1. g \in Surjection(Files, S) /\ h \in Surjection(Files, T)
  BY DEF Surjection
<1> HIDE DEF g, h, S, T
<1> QED
  BY <1>1, FilesFinite, FS_Surjection DEF S, T

LEMMA InUseNat == ASSUME CertTypes PROVE inUse \in SUBSET Nat
<1>1. {certFiles[f].n : f \in Files} \subseteq Nat /\ {certFiles[f].by : f \in Files} \subseteq Nat
  BY DEF CertTypes, Pairs
<1>2. {toWrite[i].pair.n : i \in DOMAIN toWrite} \subseteq Nat
  <2>1. \A i \in DOMAIN toWrite : toWrite[i] \in Writes
    BY DEF CertTypes
  <2> QED
    BY <2>1 DEF Pairs, Writes
<1>3. {caPair.n, serverPair.n} \subseteq Nat
  BY DEF CertTypes, Pairs
<1>4. UNION {{s[1].ca.n, s[1].server.n} : s \in {serving} \ {<<>>}} \subseteq Nat
  BY DEF CertTypes, Pairs, Kernels
<1>5. UNION {{a[1].ca.n, a[1].pair.n} : a \in {provisioned} \ {<<>>}} \subseteq Nat
  BY DEF CertTypes, Pairs, Copies
<1> QED
  BY <1>1, <1>2, <1>3, <1>4, <1>5 DEF inUse

LEMMA InUseFinite == ASSUME CertTypes PROVE IsFiniteSet(inUse)
<1> DEFINE A == {certFiles[f].n : f \in Files}
           B == {certFiles[f].by : f \in Files}
           C == {caPair.n, serverPair.n}
           D == UNION {{s[1].ca.n, s[1].server.n} : s \in {serving} \ {<<>>}}
           E == UNION {{a[1].ca.n, a[1].pair.n} : a \in {provisioned} \ {<<>>}}
           F == {toWrite[i].pair.n : i \in DOMAIN toWrite}
<1>1. IsFiniteSet(A) /\ IsFiniteSet(B)
  BY OfFilesFinite
<1>2. \A x, y : IsFiniteSet({x, y})
  <2> TAKE x, y
  <2>1. IsFiniteSet({x})
    BY FS_Singleton
  <2>2. IsFiniteSet({x} \cup {y})
    BY <2>1, FS_AddElement
  <2>3. {x, y} = {x} \cup {y}
    OBVIOUS
  <2> QED
    BY <2>2, <2>3, Zenon
<1>3. IsFiniteSet(D)
  <2>1. D = {} \/ D = {serving[1].ca.n, serving[1].server.n}
    OBVIOUS
  <2> QED
    <3>1. IsFiniteSet({serving[1].ca.n, serving[1].server.n})
      BY <1>2
    <3> HIDE DEF D
    <3> QED
      BY <2>1, <3>1, FS_EmptySet, Zenon
<1>4. IsFiniteSet(E)
  <2>1. E = {} \/ E = {provisioned[1].ca.n, provisioned[1].pair.n}
    OBVIOUS
  <2> QED
    <3>1. IsFiniteSet({provisioned[1].ca.n, provisioned[1].pair.n})
      BY <1>2
    <3> HIDE DEF E
    <3> QED
      BY <2>1, <3>1, FS_EmptySet, Zenon
<1>5. IsFiniteSet(F)
  BY WritesFinite DEF CertTypes
<1>6. inUse = A \cup B \cup C \cup D \cup E \cup F
  BY DEF inUse
<1>7. IsFiniteSet(C)
  BY <1>2
<1> HIDE DEF A, B, C, D, E, F
<1> QED
  BY <1>1, <1>3, <1>4, <1>5, <1>6, <1>7, FS_Union

\* There is a number for a new pair, and nothing holds it.
LEMMA Fresh == ASSUME CertTypes PROVE FreshPair \in Nat \ {0} /\ FreshPair \notin inUse
<1> DEFINE c == Cardinality(inUse)
           T == (1 .. c + 1) \ inUse
<1>1. inUse \subseteq Nat /\ IsFiniteSet(inUse) /\ c \in Nat
  BY InUseNat, InUseFinite, FS_CardinalityType
<1>2. T # {}
  <2>1. SUFFICES ASSUME 1 .. c + 1 \subseteq inUse PROVE FALSE
    OBVIOUS
  <2>2. Cardinality(1 .. c + 1) = c + 1
    BY <1>1, FS_Interval
  <2>3. Cardinality(1 .. c + 1) <= c
    BY <1>1, <2>1, FS_Subset
  <2> HIDE DEF c
  <2> QED
    BY <1>1, <2>2, <2>3
<1>3. PICK n \in T : \A y \in T : ~ (<<y, n>> \in OpToRel(<, Nat))
  <2>1. T \subseteq Nat
    BY <1>1
  <2> HIDE DEF T
  <2> QED
    BY <1>2, <2>1, NatLessThanWellFounded, WFMin
<1>4. \A m \in 1 .. n - 1 : m \in inUse
  <2> SUFFICES ASSUME NEW m \in 1 .. n - 1, m \notin inUse PROVE FALSE
    OBVIOUS
  <2>1. m \in T /\ m \in Nat /\ n \in Nat /\ m < n
    BY <1>1
  <2>2. <<m, n>> \in OpToRel(<, Nat)
    BY <2>1 DEF OpToRel
  <2> QED
    BY <1>3, <2>1, <2>2
<1>5. \E k \in 1 .. Cardinality(inUse) + 1 : k \notin inUse /\ \A m \in 1 .. k - 1 : m \in inUse
  BY <1>3, <1>4
<1>6. FreshPair \in 1 .. Cardinality(inUse) + 1 /\ FreshPair \notin inUse
  BY <1>5 DEF FreshPair
<1> QED
  BY <1>1, <1>6

LEMMA InUseFacts ==
    ASSUME CertTypes
    PROVE  /\ \A f \in Files : certFiles[f].n \in inUse /\ certFiles[f] \in Pairs
           /\ \A a \in Copies : provisioned = <<a>> => a.ca.n \in inUse /\ a.pair.n \in inUse
<1>1. \A f \in Files : certFiles[f].n \in inUse /\ certFiles[f] \in Pairs
  BY DEF inUse, CertTypes
<1>2. ASSUME NEW a \in Copies, provisioned = <<a>> PROVE a.ca.n \in inUse /\ a.pair.n \in inUse
  <2>1. provisioned[1] = a /\ provisioned \in {provisioned} \ {<<>>}
    BY <1>2
  <2>2. {a.ca.n, a.pair.n} \in {{x[1].ca.n, x[1].pair.n} : x \in {provisioned} \ {<<>>}}
    BY <2>1
  <2>3. a.ca.n \in UNION {{x[1].ca.n, x[1].pair.n} : x \in {provisioned} \ {<<>>}}
    BY <2>2
  <2>4. a.pair.n \in UNION {{x[1].ca.n, x[1].pair.n} : x \in {provisioned} \ {<<>>}}
    BY <2>2
  <2> QED
    BY <2>3, <2>4 DEF inUse
<1> QED
  BY <1>1, <1>2

\* A new pair is one that nothing holds.
LEMMA NewPair ==
    ASSUME CertTypes
    PROVE  /\ GenerateCA \in Pairs /\ GenerateCA.n # 0 /\ GenerateCA.n \notin inUse
           /\ \A ca \in Pairs : /\ IssueCert(ca) \in Pairs /\ IssueCert(ca).n # 0 /\ IssueCert(ca).n \notin inUse
                                /\ IssueCert(ca).by = ca.n
BY Fresh DEF GenerateCA, IssueCert, Pairs

LEMMA TailWrites ==
    ASSUME NEW q \in Seq(Writes), q # <<>>, Distinct(q)
    PROVE  /\ Head(q) \in Writes /\ Head(q) \in Left(q) /\ Tail(q) \in Seq(Writes)
           /\ Distinct(Tail(q))
           /\ Left(Tail(q)) = {w \in Left(q) : w.file # Head(q).file}
<1>1. /\ DOMAIN q = 1 .. Len(q) /\ Len(q) \in Nat /\ Len(q) >= 1 /\ Head(q) = q[1] /\ 1 \in DOMAIN q
      /\ Tail(q) \in Seq(Writes) /\ DOMAIN Tail(q) = 1 .. Len(q) - 1
      /\ \A i \in 1 .. Len(q) - 1 : Tail(q)[i] = q[i + 1] /\ i + 1 \in DOMAIN q
  OBVIOUS
<1>2. Head(q) \in Writes /\ Head(q) \in Left(q)
  BY <1>1 DEF Left
<1>3. Distinct(Tail(q))
  <2> SUFFICES ASSUME NEW i \in DOMAIN Tail(q), NEW j \in DOMAIN Tail(q), Tail(q)[i].file = Tail(q)[j].file
               PROVE  i = j
    BY DEF Distinct
  <2>1. i + 1 = j + 1
    BY <1>1 DEF Distinct
  <2> QED
    BY <1>1, <2>1
<1>4. ASSUME NEW w \in Left(Tail(q)) PROVE w \in Left(q) /\ w.file # Head(q).file
  <2>1. PICK i \in DOMAIN Tail(q) : w = Tail(q)[i]
    BY DEF Left
  <2>2. w = q[i + 1] /\ i + 1 \in DOMAIN q /\ i + 1 # 1
    BY <1>1, <2>1
  <2> QED
    BY <1>1, <2>2 DEF Left, Distinct
<1>5. ASSUME NEW w \in Left(q), w.file # Head(q).file PROVE w \in Left(Tail(q))
  <2>1. PICK i \in DOMAIN q : w = q[i]
    BY DEF Left
  <2>2. i # 1 /\ i - 1 \in DOMAIN Tail(q) /\ Tail(q)[i - 1] = q[i]
    BY <1>1, <1>5, <2>1
  <2> QED
    BY <2>1, <2>2 DEF Left
<1> QED
  BY <1>1, <1>2, <1>3, <1>4, <1>5

LEMMA TwoWrites ==
    ASSUME NEW v \in Writes, NEW w \in Writes, v.file # w.file
    PROVE  <<v, w>> \in Seq(Writes) /\ Distinct(<<v, w>>) /\ Left(<<v, w>>) = {v, w}
<1>1. <<v, w>> \in Seq(Writes) /\ DOMAIN <<v, w>> = {1, 2} /\ <<v, w>>[1] = v /\ <<v, w>>[2] = w
  OBVIOUS
<1> QED
  BY <1>1 DEF Distinct, Left

LEMMA JoinedWrites ==
    ASSUME NEW q \in Seq(Writes), NEW r \in Seq(Writes), Distinct(q), Distinct(r),
           \A v \in Left(q), w \in Left(r) : v.file # w.file
    PROVE  q \o r \in Seq(Writes) /\ Distinct(q \o r) /\ Left(q \o r) = Left(q) \cup Left(r)
<1>1. /\ q \o r \in Seq(Writes)
      /\ DOMAIN q = 1 .. Len(q) /\ DOMAIN r = 1 .. Len(r) /\ Len(q) \in Nat /\ Len(r) \in Nat
      /\ DOMAIN (q \o r) = 1 .. Len(q) + Len(r)
      /\ \A i \in 1 .. Len(q) + Len(r) : (q \o r)[i] = IF i <= Len(q) THEN q[i] ELSE r[i - Len(q)]
  OBVIOUS
<1> DEFINE s == q \o r
<1>2. \A i \in DOMAIN s : \/ i \in DOMAIN q /\ s[i] = q[i]
                          \/ i - Len(q) \in DOMAIN r /\ s[i] = r[i - Len(q)]
  BY <1>1
<1>3. \A i \in DOMAIN q : i \in DOMAIN s /\ s[i] = q[i]
  BY <1>1
<1>4. \A i \in DOMAIN r : i + Len(q) \in DOMAIN s /\ s[i + Len(q)] = r[i]
  BY <1>1
<1>5. DOMAIN s \subseteq Nat
  BY <1>1
<1> HIDE DEF s
<1>6. Left(s) = Left(q) \cup Left(r)
  BY <1>2, <1>3, <1>4 DEF Left
<1>7. Distinct(s)
  <2> SUFFICES ASSUME NEW i \in DOMAIN s, NEW j \in DOMAIN s, s[i].file = s[j].file PROVE i = j
    BY DEF Distinct
  <2>1. CASE i \in DOMAIN q /\ s[i] = q[i] /\ j \in DOMAIN q /\ s[j] = q[j]
    BY <2>1 DEF Distinct
  <2>2. CASE i - Len(q) \in DOMAIN r /\ s[i] = r[i - Len(q)] /\ j - Len(q) \in DOMAIN r /\ s[j] = r[j - Len(q)]
    <3>1. i - Len(q) = j - Len(q)
      BY <2>2 DEF Distinct
    <3> QED
      BY <1>1, <1>5, <3>1
  <2>3. CASE i \in DOMAIN q /\ s[i] = q[i] /\ j - Len(q) \in DOMAIN r /\ s[j] = r[j - Len(q)]
    <3>1. s[i] \in Left(q) /\ s[j] \in Left(r)
      BY <2>3 DEF Left
    <3> QED
      BY <3>1
  <2>4. CASE j \in DOMAIN q /\ s[j] = q[j] /\ i - Len(q) \in DOMAIN r /\ s[i] = r[i - Len(q)]
    <3>1. s[j] \in Left(q) /\ s[i] \in Left(r)
      BY <2>4 DEF Left
    <3> QED
      BY <3>1
  <2> QED
    BY <1>2, <2>1, <2>2, <2>3, <2>4
<1> QED
  BY <1>1, <1>6, <1>7 DEF s

LEMMA NoPair == Missing \in Pairs /\ Half \in Pairs /\ <<>> \in Seq(Writes)
<1>1. <<>> \in Seq(Writes)
  OBVIOUS
<1> QED
  BY <1>1 DEF Missing, Half, Pairs

LEMMA CertInitGood == CertInit => CertInv
<1> SUFFICES ASSUME CertInit PROVE CertInv
  OBVIOUS
<1>1. CertTypes
  BY NoPair DEF CertInit, CertTypes, SetupPcs
<1>2. QueueInv /\ SetupInv /\ OldCAInv
  BY DEF CertInit, QueueInv, SetupInv, OldCAInv, Distinct
<1>3. ServedInv /\ ProvisionedInv
  BY DEF CertInit, ServedInv, ProvisionedInv
<1> QED
  BY <1>1, <1>2, <1>3 DEF CertInv

LEMMA CADiskFacts ==
    ASSUME CertTypes
    PROVE  /\ \A ca \in CAOnDisk : ca \in Pairs /\ AreOf(CAFiles, ca) /\ ca.n # 0 /\ ca.n \in inUse
           /\ \A ca : AreOf(CAFiles, ca) /\ ca.n # 0 => CAOnDisk = {ca}
           /\ \A s \in ServerOnDisk : s \in Pairs /\ AreOf(ServerFiles, s) /\ s.n # 0
           /\ \A s : AreOf(ServerFiles, s) /\ s.n # 0 => ServerOnDisk = {s}
           /\ \A a \in AgentOnDisk : a = certFiles["agent.key"] /\ a = certFiles["agent.crt"] /\ a.n # 0 /\ a \in Pairs
<1>1. /\ CAFiles = {"ca.crt", "ca.key"} /\ ServerFiles = {"server.crt", "server.key"}
      /\ {"ca.crt", "ca.key", "server.crt", "server.key", "agent.crt", "agent.key"} \subseteq Files
  BY DEF CAFiles, ServerFiles, Files
<1> QED
  BY <1>1, InUseFacts DEF CAOnDisk, ServerOnDisk, AgentOnDisk, LoadCertPair, AreOf

\* A write changes no CA that a valid copy of an agent is signed by.
LEMMA Spoils ==
    ASSUME CertInv, NEW w \in Left(toWrite), NEW p \in Pairs
    PROVE  LET g == [certFiles EXCEPT ![w.file] = p]
           IN  /\ g \in [Files -> Pairs] /\ w \in Writes /\ g[w.file] = p
               /\ \A f \in Files \ {w.file} : g[f] = certFiles[f]
               /\ \A a \in Copies :
                      provisioned = <<a>> /\ ~a.forced /\ a.ca.n \notin expiredPairs /\ a.pair.n \notin expiredPairs
                      => w.file \notin CAFiles
<1> DEFINE g == [certFiles EXCEPT ![w.file] = p]
<1>1. w \in Writes /\ w.file \in Files
  <2>1. PICK i \in DOMAIN toWrite : w = toWrite[i]
    BY DEF Left
  <2>2. toWrite[i] \in Writes
    BY DEF CertInv, CertTypes
  <2> QED
    BY <2>1, <2>2 DEF Writes
<1>2. certFiles \in [Files -> Pairs]
  BY DEF CertInv, CertTypes
<1>3. g \in [Files -> Pairs] /\ g[w.file] = p /\ \A f \in Files \ {w.file} : g[f] = certFiles[f]
  BY <1>1, <1>2
<1>4. ASSUME NEW a \in Copies, provisioned = <<a>>, ~a.forced, a.ca.n \notin expiredPairs, a.pair.n \notin expiredPairs,
             w.file \in CAFiles
      PROVE  FALSE
  <2>1. setupPc = "server"
    <3>1. toWrite # <<>>
      BY DEF Left
    <3>2. w.file \notin ServerFiles /\ w.file \notin AgentFiles
      BY <1>4 DEF CAFiles, ServerFiles, AgentFiles
    <3> QED
      BY <3>1, <3>2 DEF CertInv, QueueInv, CertTypes, SetupPcs
  <2>2. certFiles[w.file].n # caPair.n
    BY <1>4, <2>1 DEF CertInv, QueueInv
  <2>3. caPair = a.ca /\ AreOf(CAFiles, a.ca)
    BY <1>4, <2>1 DEF CertInv, ProvisionedInv
  <2> QED
    BY <1>4, <2>2, <2>3 DEF AreOf
<1> QED
  BY <1>1, <1>3, <1>4

\* setupTLS ends: what it leaves on the disk still agrees with the valid copies of an agent.
LEMMA LeaveKeeps ==
    ASSUME CertInv, setupPc # "down", Leave, certFiles' \in [Files -> Pairs], certFaults' \in Nat,
           UNCHANGED <<expiredPairs, serving, provisioned>>,
           \A a \in Copies :
               provisioned = <<a>> /\ ~a.forced /\ a.ca.n \notin expiredPairs /\ a.pair.n \notin expiredPairs
               => \A f \in CAFiles : certFiles'[f] = certFiles[f]
    PROVE  CertInv'
<1>1. CertTypes'
  BY NoPair DEF CertInv, CertTypes, Leave, SetupPcs
<1>2. (QueueInv /\ SetupInv /\ OldCAInv)'
  BY DEF Leave, QueueInv, SetupInv, OldCAInv, Distinct
<1>3. ServedInv'
  BY DEF CertInv, ServedInv
<1>4. ProvisionedInv'
  <2> SUFFICES ASSUME NEW a \in Copies, provisioned = <<a>>, ~a.forced,
                      a.ca.n \notin expiredPairs, a.pair.n \notin expiredPairs
               PROVE  AreOf(CAFiles, a.ca)' /\ a.ca.n # 0 /\ a.pair.by = a.ca.n
    BY DEF ProvisionedInv, Leave
  <2> QED
    BY DEF CertInv, ProvisionedInv, AreOf
<1> QED
  BY <1>1, <1>2, <1>3, <1>4 DEF CertInv

LEMMA SetupTLSKeeps == ASSUME CertInv, SetupTLS PROVE CertInv'
<1>1. CertTypes'
  BY DEF CertInv, CertTypes, SetupTLS, SetupPcs
<1>2. (QueueInv /\ SetupInv /\ OldCAInv)'
  BY DEF CertInv, SetupTLS, QueueInv, SetupInv, OldCAInv, Distinct
<1>3. ServedInv'
  BY DEF SetupTLS, ServedInv
<1>4. ProvisionedInv'
  BY DEF CertInv, SetupTLS, ProvisionedInv, AreOf
<1> QED
  BY <1>1, <1>2, <1>3, <1>4 DEF CertInv

LEMMA KernelEndsKeeps == ASSUME CertInv, KernelEnds PROVE CertInv'
<1>1. CertTypes'
  BY DEF CertInv, CertTypes, KernelEnds
<1>2. QueueInv' /\ OldCAInv'
  BY DEF CertInv, KernelEnds, QueueInv, OldCAInv, Waits, CAOnDisk, LoadCertPair
<1>3. SetupInv'
  BY DEF CertInv, KernelEnds, SetupInv, Waits, AgentOnDisk, LoadCertPair
<1>4. ServedInv' /\ ProvisionedInv'
  BY DEF CertInv, KernelEnds, ServedInv, ProvisionedInv, AreOf
<1> QED
  BY <1>1, <1>2, <1>3, <1>4 DEF CertInv

LEMMA ExpireKeeps == ASSUME CertInv, NEW n, Expire(n) PROVE CertInv'
<1>1. CertTypes'
  BY DEF CertInv, CertTypes, Expire
<1>2. (QueueInv /\ SetupInv /\ OldCAInv)'
  BY DEF CertInv, Expire, QueueInv, SetupInv, OldCAInv
<1>3. ServedInv'
  BY DEF CertInv, Expire, ServedInv, AreOf, AgentOnDisk, LoadCertPair
<1>4. ProvisionedInv'
  BY DEF CertInv, Expire, ProvisionedInv, AreOf
<1> QED
  BY <1>1, <1>2, <1>3, <1>4 DEF CertInv

LEMMA CertStutters == ASSUME CertInv, UNCHANGED certVars PROVE CertInv'
<1>1. CertTypes'
  BY DEF CertInv, CertTypes, certVars
<1>2. QueueInv' /\ OldCAInv'
  BY DEF CertInv, certVars, QueueInv, OldCAInv, Waits, CAOnDisk, LoadCertPair
<1>3. SetupInv'
  BY DEF CertInv, certVars, SetupInv, Waits, AgentOnDisk, LoadCertPair
<1>4. ServedInv' /\ ProvisionedInv'
  BY DEF CertInv, certVars, ServedInv, ProvisionedInv, AreOf, AgentOnDisk, LoadCertPair
<1> QED
  BY <1>1, <1>2, <1>3, <1>4 DEF CertInv

\* What expired and is in use is not renewed.
LEMMA CopiesStayExpired ==
    ASSUME CertTypes, NEW p, p.n \notin inUse, Renewed(p), NEW a \in Copies, provisioned = <<a>>
    PROVE  /\ a.ca.n \in expiredPairs => a.ca.n \in expiredPairs'
           /\ a.pair.n \in expiredPairs => a.pair.n \in expiredPairs'
BY InUseFacts DEF Renewed

LEMMA SetupCAKeeps == ASSUME CertInv, SetupCA PROVE CertInv'
<1>0. /\ setupPc = "ca" /\ setupPc' = "server" /\ toWrite = <<>> /\ CertTypes
      /\ UNCHANGED <<certFiles, serverPair, byTool, serving, provisioned, certFaults, forcedRuns>>
  BY DEF SetupCA, CertInv
<1>1. ServedInv'
  BY <1>0 DEF CertInv, ServedInv
<1>2. ASSUME NEW a \in Copies, provisioned = <<a>>, ~a.forced, a.ca.n \notin expiredPairs, a.pair.n \notin expiredPairs
      PROVE  /\ AreOf(CAFiles, a.ca) /\ a.ca.n # 0 /\ a.pair.by = a.ca.n
             /\ CAOnDisk = {a.ca} /\ ValidateCertPair(a.ca)
  <2>1. AreOf(CAFiles, a.ca) /\ a.ca.n # 0 /\ a.pair.by = a.ca.n
    BY <1>2 DEF CertInv, ProvisionedInv
  <2> QED
    BY <1>0, <1>2, <2>1, CADiskFacts DEF ValidateCertPair
<1>3. CASE \E ca \in CAOnDisk : ValidateCertPair(ca)
  <2>1. caPair' \in CAOnDisk /\ UNCHANGED <<expiredPairs, toWrite>>
    BY <1>3 DEF SetupCA
  <2>2. caPair' \in Pairs /\ AreOf(CAFiles, caPair') /\ caPair'.n # 0
    BY <1>0, <2>1, CADiskFacts
  <2>3. CertTypes'
    BY <1>0, <2>1, <2>2 DEF CertTypes, SetupPcs
  <2>4. Left(toWrite') = {} /\ Distinct(toWrite')
    BY <1>0, <2>1 DEF Left, Distinct
  <2>5. (QueueInv /\ SetupInv /\ OldCAInv)'
    BY <1>0, <2>2, <2>4 DEF QueueInv, SetupInv, OldCAInv, Waits, AreOf
  <2>6. ProvisionedInv'
    <3> SUFFICES ASSUME NEW a \in Copies, provisioned = <<a>>, ~a.forced,
                        a.ca.n \notin expiredPairs, a.pair.n \notin expiredPairs
                 PROVE  AreOf(CAFiles, a.ca)' /\ a.ca.n # 0 /\ a.pair.by = a.ca.n /\ caPair' = a.ca
      BY <1>0, <2>1 DEF ProvisionedInv
    <3> QED
      BY <1>0, <1>2, <2>1 DEF AreOf
  <2> QED
    BY <1>1, <2>3, <2>5, <2>6 DEF CertInv
<1>4. CASE ~ \E ca \in CAOnDisk : ValidateCertPair(ca)
  <2> DEFINE q == BothFiles("ca.crt", "ca.key", caPair', TRUE)
             s == BothFiles("server.crt", "server.key", Missing, FALSE)
             t == BothFiles("agent.crt", "agent.key", Missing, FALSE)
             r == IF CAOnDisk = {} THEN <<>> ELSE s \o t
  <2>1. caPair' = GenerateCA /\ Renewed(caPair') /\ toWrite' = q \o r
    BY <1>4 DEF SetupCA
  <2>2. caPair' \in Pairs /\ caPair'.n # 0 /\ caPair'.n \notin inUse
    BY <1>0, <2>1, NewPair
  <2>3. /\ q \in Seq(Writes) /\ Distinct(q)
        /\ \A w \in Left(q) : w.file \in CAFiles /\ w.pair = caPair' /\ w.must
        /\ \A f \in CAFiles : \E w \in Left(q) : w.file = f
    <3> DEFINE v1 == writeOf("ca.crt", caPair', TRUE)
               v2 == writeOf("ca.key", caPair', TRUE)
    <3>1. v1 \in Writes /\ v1.file = "ca.crt" /\ v1.pair = caPair' /\ v1.must
      BY <2>2 DEF writeOf, Writes, Files
    <3>2. v2 \in Writes /\ v2.file = "ca.key" /\ v2.pair = caPair' /\ v2.must
      BY <2>2 DEF writeOf, Writes, Files
    <3>3. q = <<v1, v2>>
      BY DEF BothFiles
    <3> HIDE DEF v1, v2, q
    <3>4. q \in Seq(Writes) /\ Distinct(q) /\ Left(q) = {v1, v2}
      BY <3>1, <3>2, <3>3, TwoWrites
    <3> QED
      BY <3>1, <3>2, <3>4 DEF CAFiles
  <2>4. /\ s \in Seq(Writes) /\ Distinct(s)
        /\ \A w \in Left(s) : w.file \in ServerFiles /\ w.pair = Missing /\ ~w.must
        /\ \A f \in ServerFiles : \E w \in Left(s) : w.file = f
    <3> DEFINE v1 == writeOf("server.crt", Missing, FALSE)
               v2 == writeOf("server.key", Missing, FALSE)
    <3>1. v1 \in Writes /\ v1.file = "server.crt" /\ v1.pair = Missing /\ ~v1.must
      BY NoPair DEF writeOf, Writes, Files
    <3>2. v2 \in Writes /\ v2.file = "server.key" /\ v2.pair = Missing /\ ~v2.must
      BY NoPair DEF writeOf, Writes, Files
    <3>3. s = <<v1, v2>>
      BY DEF BothFiles
    <3> HIDE DEF v1, v2, s
    <3>4. s \in Seq(Writes) /\ Distinct(s) /\ Left(s) = {v1, v2}
      BY <3>1, <3>2, <3>3, TwoWrites
    <3> QED
      BY <3>1, <3>2, <3>4 DEF ServerFiles
  <2>5. /\ t \in Seq(Writes) /\ Distinct(t)
        /\ \A w \in Left(t) : w.file \in AgentFiles /\ w.pair = Missing /\ ~w.must
        /\ \A f \in AgentFiles : \E w \in Left(t) : w.file = f
    <3> DEFINE v1 == writeOf("agent.crt", Missing, FALSE)
               v2 == writeOf("agent.key", Missing, FALSE)
    <3>1. v1 \in Writes /\ v1.file = "agent.crt" /\ v1.pair = Missing /\ ~v1.must
      BY NoPair DEF writeOf, Writes, Files
    <3>2. v2 \in Writes /\ v2.file = "agent.key" /\ v2.pair = Missing /\ ~v2.must
      BY NoPair DEF writeOf, Writes, Files
    <3>3. t = <<v1, v2>>
      BY DEF BothFiles
    <3> HIDE DEF v1, v2, t
    <3>4. t \in Seq(Writes) /\ Distinct(t) /\ Left(t) = {v1, v2}
      BY <3>1, <3>2, <3>3, TwoWrites
    <3> QED
      BY <3>1, <3>2, <3>4 DEF AgentFiles
  <2> HIDE DEF q, s, t
  <2>6. s \o t \in Seq(Writes) /\ Distinct(s \o t) /\ Left(s \o t) = Left(s) \cup Left(t)
    <3>1. \A v \in Left(s), w \in Left(t) : v.file # w.file
      BY <2>4, <2>5 DEF ServerFiles, AgentFiles
    <3> QED
      BY <2>4, <2>5, <3>1, JoinedWrites
  <2>7. \A w \in Left(r) : w.file \notin CAFiles /\ w.pair = Missing /\ ~w.must
    <3>1. CASE CAOnDisk = {}
      BY <3>1 DEF Left
    <3>2. CASE CAOnDisk # {}
      <4>1. Left(r) = Left(s) \cup Left(t)
        BY <2>6, <3>2
      <4> QED
        BY <2>4, <2>5, <4>1 DEF ServerFiles, AgentFiles, CAFiles
    <3> QED
      BY <3>1, <3>2
  <2>8. r \in Seq(Writes) /\ Distinct(r)
    BY <2>6, NoPair DEF Distinct
  <2> HIDE DEF r
  <2>10. toWrite' \in Seq(Writes) /\ Distinct(toWrite') /\ Left(toWrite') = Left(q) \cup Left(r)
    BY <2>1, <2>3, <2>7, <2>8, JoinedWrites
  <2>11. CertTypes'
    BY <1>0, <2>2, <2>10 DEF CertTypes, SetupPcs
  <2>12. QueueInv'
    <3>1. \A f \in CAFiles : certFiles[f].n # caPair'.n
      BY <1>0, <2>2, InUseFacts DEF CAFiles, Files
    <3> QED
      BY <1>0, <2>3, <2>7, <2>10, <3>1 DEF QueueInv
  <2>13. SetupInv'
    BY <1>0, <2>2, <2>3, <2>10 DEF SetupInv, Waits
  <2>14. OldCAInv'
    <3>1. CAOnDisk' = CAOnDisk
      BY <1>0 DEF CAOnDisk, LoadCertPair
    <3>2. \A ca \in CAOnDisk : ca.n \in expiredPairs /\ ca.n \in inUse
      BY <1>0, <1>4, CADiskFacts DEF ValidateCertPair
    <3> QED
      BY <2>1, <2>2, <3>1, <3>2 DEF OldCAInv, Renewed
  <2>15. ProvisionedInv'
    <3> SUFFICES ASSUME NEW a \in Copies, provisioned = <<a>>, ~a.forced
                 PROVE  a.ca.n \in expiredPairs' \/ a.pair.n \in expiredPairs'
      BY <1>0 DEF ProvisionedInv
    <3>1. a.ca.n \in expiredPairs \/ a.pair.n \in expiredPairs
      BY <1>2, <1>4
    <3> QED
      BY <1>0, <2>1, <2>2, <3>1, CopiesStayExpired
  <2> QED
    BY <1>1, <2>11, <2>12, <2>13, <2>14, <2>15 DEF CertInv
<1> QED
  BY <1>3, <1>4

\* While setupTLS is past the CA and no CA is left to write, the CA on the disk is its own.
LEMMA OwnCA ==
    ASSUME CertInv, setupPc \in {"server", "agent", "done"}, setupPc = "server" => toWrite = <<>>
    PROVE  AreOf(CAFiles, caPair) /\ caPair.n # 0 /\ caPair \in Pairs /\ ~ \E f \in CAFiles : Waits(f)
<1>1. ~ \E f \in CAFiles : Waits(f)
  BY DEF CertInv, QueueInv, Waits, Left, CAFiles, ServerFiles, AgentFiles
<1> QED
  BY <1>1 DEF CertInv, SetupInv, AreOf, CertTypes

LEMMA SetupServerKeeps == ASSUME CertInv, SetupServer PROVE CertInv'
<1>0. /\ setupPc = "server" /\ setupPc' = "agent" /\ toWrite = <<>> /\ CertTypes
      /\ UNCHANGED <<certFiles, caPair, byTool, serving, provisioned, certFaults, forcedRuns>>
  BY DEF SetupServer, CertInv
<1>1. ServedInv'
  BY <1>0 DEF CertInv, ServedInv
<1>2. AreOf(CAFiles, caPair) /\ caPair.n # 0 /\ caPair \in Pairs
  BY <1>0, OwnCA
<1>3. OldCAInv'
  BY <1>0 DEF OldCAInv
<1>4. CASE \E s \in ServerOnDisk : VerifyCertChain(s, caPair)
  <2>1. serverPair' \in ServerOnDisk /\ UNCHANGED <<expiredPairs, toWrite>>
    BY <1>4 DEF SetupServer
  <2>2. /\ serverPair' \in Pairs /\ AreOf(ServerFiles, serverPair') /\ serverPair'.n # 0
        /\ serverPair'.by = caPair.n
    BY <1>0, <1>4, <2>1, CADiskFacts DEF VerifyCertChain
  <2>3. CertTypes'
    BY <1>0, <2>1, <2>2 DEF CertTypes, SetupPcs
  <2>4. Left(toWrite') = {} /\ Distinct(toWrite')
    BY <1>0, <2>1 DEF Left, Distinct
  <2>5. QueueInv' /\ SetupInv'
    BY <1>0, <1>2, <2>2, <2>4 DEF QueueInv, SetupInv, AreOf
  <2>6. ProvisionedInv'
    BY <1>0, <2>1 DEF CertInv, ProvisionedInv, AreOf
  <2> QED
    BY <1>1, <1>3, <2>3, <2>5, <2>6 DEF CertInv
<1>5. CASE ~ \E s \in ServerOnDisk : VerifyCertChain(s, caPair)
  <2> DEFINE q == BothFiles("server.crt", "server.key", serverPair', TRUE)
  <2>1. serverPair' = IssueCert(caPair) /\ Renewed(serverPair') /\ toWrite' = q
    BY <1>5 DEF SetupServer
  <2>2. serverPair' \in Pairs /\ serverPair'.n # 0 /\ serverPair'.n \notin inUse /\ serverPair'.by = caPair.n
    BY <1>0, <1>2, <2>1, NewPair
  <2>3. /\ q \in Seq(Writes) /\ Distinct(q)
        /\ \A w \in Left(q) : w.file \in ServerFiles /\ w.pair = serverPair' /\ w.must
        /\ \A f \in ServerFiles : \E w \in Left(q) : w.file = f
    <3> DEFINE v1 == writeOf("server.crt", serverPair', TRUE)
               v2 == writeOf("server.key", serverPair', TRUE)
    <3>1. v1 \in Writes /\ v1.file = "server.crt" /\ v1.pair = serverPair' /\ v1.must
      BY <2>2 DEF writeOf, Writes, Files
    <3>2. v2 \in Writes /\ v2.file = "server.key" /\ v2.pair = serverPair' /\ v2.must
      BY <2>2 DEF writeOf, Writes, Files
    <3>3. q = <<v1, v2>>
      BY DEF BothFiles
    <3> HIDE DEF v1, v2, q
    <3>4. q \in Seq(Writes) /\ Distinct(q) /\ Left(q) = {v1, v2}
      BY <3>1, <3>2, <3>3, TwoWrites
    <3> QED
      BY <3>1, <3>2, <3>4 DEF ServerFiles
  <2> HIDE DEF q
  <2>4. CertTypes'
    BY <1>0, <2>1, <2>2, <2>3 DEF CertTypes, SetupPcs
  <2>5. QueueInv'
    BY <1>0, <2>1, <2>3 DEF QueueInv
  <2>6. SetupInv'
    BY <1>0, <1>2, <2>1, <2>2, <2>3 DEF SetupInv, Waits, AreOf
  <2>7. ProvisionedInv'
    <3> SUFFICES ASSUME NEW a \in Copies, provisioned = <<a>>, ~a.forced,
                        a.ca.n \notin expiredPairs', a.pair.n \notin expiredPairs'
                 PROVE  AreOf(CAFiles, a.ca)' /\ a.ca.n # 0 /\ a.pair.by = a.ca.n /\ caPair' = a.ca
      BY <1>0 DEF ProvisionedInv
    <3>1. a.ca.n \notin expiredPairs /\ a.pair.n \notin expiredPairs
      BY <1>0, <2>1, <2>2, CopiesStayExpired
    <3> QED
      BY <1>0, <3>1 DEF CertInv, ProvisionedInv, AreOf
  <2> QED
    BY <1>1, <1>3, <2>4, <2>5, <2>6, <2>7 DEF CertInv
<1> QED
  BY <1>4, <1>5

LEMMA SetupAgentKeeps == ASSUME CertInv, SetupAgent PROVE CertInv'
<1>0. /\ setupPc = "agent" /\ setupPc' = "done" /\ toWrite = <<>> /\ CertTypes
      /\ UNCHANGED <<certFiles, caPair, serverPair, byTool, serving, provisioned, certFaults, forcedRuns>>
  BY DEF SetupAgent, CertInv
<1>1. ServedInv'
  BY <1>0 DEF CertInv, ServedInv
<1>2. AreOf(CAFiles, caPair) /\ caPair.n # 0 /\ caPair \in Pairs
  BY <1>0, OwnCA
<1>3. AreOf(ServerFiles, serverPair) /\ serverPair.n # 0 /\ serverPair.by = caPair.n
  <2>1. \A f \in ServerFiles : ~Waits(f)
    BY <1>0 DEF Waits, Left
  <2> QED
    BY <1>0, <2>1 DEF CertInv, SetupInv, AreOf
<1>4. OldCAInv'
  BY <1>0 DEF OldCAInv
<1> DEFINE old == certFiles["agent.crt"] = Missing \/ \E a \in AgentOnDisk : ~VerifyCertChain(a, caPair)
<1>5. CASE ~old
  <2>1. UNCHANGED <<expiredPairs, toWrite>>
    BY <1>5 DEF SetupAgent
  <2>2. CertTypes'
    BY <1>0, <2>1 DEF CertTypes, SetupPcs
  <2>3. Left(toWrite') = {} /\ Distinct(toWrite')
    BY <1>0, <2>1 DEF Left, Distinct
  <2>4. \A a \in AgentOnDisk' : a.by = caPair.n
    <3>1. AgentOnDisk' = AgentOnDisk
      BY <1>0 DEF AgentOnDisk, LoadCertPair
    <3> QED
      BY <1>5, <3>1 DEF VerifyCertChain
  <2>5. QueueInv'
    BY <1>0, <2>3 DEF QueueInv
  <2>6. SetupInv'
    BY <1>0, <1>2, <1>3, <2>4 DEF SetupInv, AreOf
  <2>7. ProvisionedInv'
    BY <1>0, <2>1 DEF CertInv, ProvisionedInv, AreOf
  <2> QED
    BY <1>1, <1>4, <2>2, <2>5, <2>6, <2>7 DEF CertInv
<1>6. CASE old
  <2> DEFINE p == IssueCert(caPair)
             q == BothFiles("agent.crt", "agent.key", p, FALSE)
  <2>1. Renewed(p) /\ toWrite' = q
    BY <1>6 DEF SetupAgent
  <2>2. p \in Pairs /\ p.n # 0 /\ p.n \notin inUse /\ p.by = caPair.n
    BY <1>0, <1>2, NewPair
  <2> HIDE DEF p
  <2>3. /\ q \in Seq(Writes) /\ Distinct(q)
        /\ \A w \in Left(q) : w.file \in AgentFiles /\ w.pair = p /\ ~w.must
        /\ \A f \in AgentFiles : \E w \in Left(q) : w.file = f
    <3> DEFINE v1 == writeOf("agent.crt", p, FALSE)
               v2 == writeOf("agent.key", p, FALSE)
    <3>1. v1 \in Writes /\ v1.file = "agent.crt" /\ v1.pair = p /\ ~v1.must
      BY <2>2 DEF writeOf, Writes, Files
    <3>2. v2 \in Writes /\ v2.file = "agent.key" /\ v2.pair = p /\ ~v2.must
      BY <2>2 DEF writeOf, Writes, Files
    <3>3. q = <<v1, v2>>
      BY DEF BothFiles
    <3> HIDE DEF v1, v2, q
    <3>4. q \in Seq(Writes) /\ Distinct(q) /\ Left(q) = {v1, v2}
      BY <3>1, <3>2, <3>3, TwoWrites
    <3> QED
      BY <3>1, <3>2, <3>4 DEF AgentFiles
  <2> HIDE DEF q, old
  <2>4. CertTypes'
    BY <1>0, <2>1, <2>3 DEF CertTypes, SetupPcs
  <2>5. QueueInv'
    BY <1>0, <2>1, <2>2, <2>3 DEF QueueInv
  <2>6. Waits("agent.key")'
    BY <2>1, <2>3 DEF Waits, AgentFiles
  <2>7. SetupInv'
    BY <1>0, <1>2, <1>3, <2>6 DEF SetupInv, AreOf
  <2>8. ProvisionedInv'
    <3> SUFFICES ASSUME NEW a \in Copies, provisioned = <<a>>, ~a.forced,
                        a.ca.n \notin expiredPairs', a.pair.n \notin expiredPairs'
                 PROVE  AreOf(CAFiles, a.ca)' /\ a.ca.n # 0 /\ a.pair.by = a.ca.n /\ caPair' = a.ca
      BY <1>0 DEF ProvisionedInv
    <3>1. a.ca.n \notin expiredPairs /\ a.pair.n \notin expiredPairs
      BY <1>0, <2>1, <2>2, CopiesStayExpired
    <3> QED
      BY <1>0, <3>1 DEF CertInv, ProvisionedInv, AreOf
  <2> QED
    BY <1>1, <1>4, <2>4, <2>5, <2>7, <2>8 DEF CertInv
<1> QED
  BY <1>5, <1>6

LEMMA SetupDoneKeeps == ASSUME CertInv, SetupDone PROVE CertInv'
<1>0. /\ setupPc = "done" /\ toWrite = <<>> /\ CertTypes /\ Leave
      /\ certFiles' = [certFiles EXCEPT !["ca.crt"] = caPair, !["server.crt"] = serverPair]
      /\ UNCHANGED <<expiredPairs, provisioned, certFaults, forcedRuns>>
  BY DEF SetupDone, CertInv
<1>1. \A f \in Files : ~Waits(f)
  BY <1>0 DEF Waits, Left
<1>2. AreOf(CAFiles, caPair) /\ caPair.n # 0 /\ caPair \in Pairs
  BY <1>0, OwnCA
<1>3. AreOf(ServerFiles, serverPair) /\ serverPair.n # 0 /\ serverPair.by = caPair.n /\ serverPair \in Pairs
  BY <1>0, <1>1 DEF CertInv, SetupInv, AreOf, CertTypes, ServerFiles, Files
<1>4. certFiles' = certFiles
  BY <1>0, <1>2, <1>3 DEF AreOf, CAFiles, ServerFiles, CertTypes
<1>5. AgentOnDisk' = AgentOnDisk
  BY <1>4 DEF AgentOnDisk, LoadCertPair
<1>6. certFaults = 0 => \A a \in AgentOnDisk : a.by = caPair.n
  BY <1>0, <1>1 DEF CertInv, SetupInv, Files
<1> DEFINE new == [ca |-> caPair, server |-> serverPair, stale |-> FALSE]
<1>7. new \in Kernels /\ new.ca = caPair /\ new.server = serverPair
  BY <1>2, <1>3 DEF Kernels
<1>8. serving' = serving \/ serving' = <<new>>
  BY DEF SetupDone
<1> HIDE DEF new
<1>9. CertTypes'
  BY <1>0, <1>4, <1>7, <1>8, NoPair DEF CertTypes, Leave, SetupPcs
<1>10. (QueueInv /\ SetupInv /\ OldCAInv)'
  BY <1>0 DEF Leave, QueueInv, SetupInv, OldCAInv, Distinct
<1>11. ServedInv'
  <2> SUFFICES ASSUME NEW s \in Kernels, serving' = <<s>>, ~s.stale
               PROVE  /\ setupPc' = "down"
                      /\ AreOf(CAFiles, s.ca)' /\ s.ca.n # 0
                      /\ AreOf(ServerFiles, s.server)' /\ s.server.n # 0 /\ s.server.by = s.ca.n
                      /\ certFaults' = 0 => \A a \in AgentOnDisk' : a.by = s.ca.n
    BY DEF ServedInv
  <2>1. s = new
    <3>1. serving # <<s>>
      BY <1>0 DEF CertInv, ServedInv
    <3> QED
      BY <1>8, <3>1
  <2> QED
    BY <1>0, <1>2, <1>3, <1>4, <1>5, <1>6, <1>7, <2>1 DEF AreOf, Leave
<1>12. ProvisionedInv'
  BY <1>0, <1>4 DEF CertInv, ProvisionedInv, AreOf, Leave
<1> QED
  BY <1>9, <1>10, <1>11, <1>12 DEF CertInv

LEMMA WriteKeeps == ASSUME CertInv, Write PROVE CertInv'
<1> DEFINE w == Head(toWrite)
<1>0. /\ toWrite # <<>> /\ toWrite' = Tail(toWrite) /\ CertTypes
      /\ certFiles' = [certFiles EXCEPT ![w.file] = w.pair]
      /\ UNCHANGED <<expiredPairs, setupPc, caPair, serverPair, byTool, serving, provisioned, certFaults, forcedRuns>>
  BY DEF Write, CertInv
<1>1. /\ w \in Writes /\ w \in Left(toWrite) /\ toWrite' \in Seq(Writes) /\ Distinct(toWrite')
      /\ Left(toWrite') = {v \in Left(toWrite) : v.file # w.file}
  BY <1>0, TailWrites DEF CertInv, CertTypes, QueueInv
<1> HIDE DEF w
<1>2. w.pair \in Pairs /\ w.file \in Files
  BY <1>1 DEF Writes
<1>3. /\ certFiles' \in [Files -> Pairs] /\ certFiles'[w.file] = w.pair
      /\ \A f \in Files \ {w.file} : certFiles'[f] = certFiles[f]
  BY <1>0, <1>1, <1>2, Spoils
<1>4. \A f \in Files \ {w.file} : Waits(f)' <=> Waits(f)
  BY <1>1 DEF Waits
<1>5. setupPc \in {"server", "agent", "done"}
  BY <1>0 DEF CertInv, QueueInv, CertTypes, SetupPcs
<1>6. CertTypes'
  BY <1>0, <1>1, <1>3 DEF CertTypes
<1>7. QueueInv'
  <2>1. setupPc = "server" =>
           \A v \in Left(toWrite') :
              \/ v.file \in CAFiles /\ v.pair = caPair /\ v.must /\ certFiles'[v.file].n # caPair.n
              \/ v.file \notin CAFiles /\ v.pair = Missing /\ ~v.must
    <3> SUFFICES ASSUME setupPc = "server", NEW v \in Left(toWrite), v.file # w.file
                 PROVE  \/ v.file \in CAFiles /\ v.pair = caPair /\ v.must /\ certFiles'[v.file].n # caPair.n
                        \/ v.file \notin CAFiles /\ v.pair = Missing /\ ~v.must
      BY <1>1
    <3>1. v.file \in CAFiles => certFiles'[v.file] = certFiles[v.file]
      BY <1>3 DEF CAFiles, Files
    <3> QED
      BY <3>1 DEF CertInv, QueueInv
  <2> QED
    BY <1>0, <1>1, <1>5, <2>1 DEF CertInv, QueueInv
<1>8. SetupInv'
  <2>1. ASSUME NEW f \in CAFiles PROVE certFiles'[f] = caPair \/ Waits(f)'
    <3>1. f \in Files
      BY DEF CAFiles, Files
    <3>2. certFiles[f] = caPair \/ Waits(f)
      BY <1>5 DEF CertInv, SetupInv
    <3>3. f = w.file => w.pair = caPair
      BY <1>1, <1>5 DEF CertInv, QueueInv, CAFiles, ServerFiles, AgentFiles
    <3> QED
      BY <1>3, <1>4, <3>1, <3>2, <3>3
  <2>2. ASSUME NEW f \in ServerFiles, setupPc \in {"agent", "done"} PROVE certFiles'[f] = serverPair \/ Waits(f)'
    <3>1. f \in Files
      BY DEF ServerFiles, Files
    <3>2. certFiles[f] = serverPair \/ Waits(f)
      BY <2>2 DEF CertInv, SetupInv
    <3>3. f = w.file => w.pair = serverPair
      BY <1>1, <2>2 DEF CertInv, QueueInv, ServerFiles, AgentFiles
    <3> QED
      BY <1>3, <1>4, <3>1, <3>2, <3>3
  <2>3. ASSUME setupPc = "done", certFaults = 0, ~Waits("agent.key")' PROVE \A a \in AgentOnDisk' : a.by = caPair.n
    <3>1. w.file \in AgentFiles /\ w.pair.by = caPair.n
      BY <1>1, <2>3 DEF CertInv, QueueInv
    <3>2. CASE w.file = "agent.key"
      <4>1. \A a \in AgentOnDisk' : a = certFiles'["agent.key"]
        BY DEF AgentOnDisk, LoadCertPair
      <4> QED
        BY <1>3, <3>1, <3>2, <4>1
    <3>3. CASE w.file = "agent.crt"
      <4>1. ~Waits("agent.key")
        BY <1>4, <2>3, <3>3 DEF Files
      <4>2. \A a \in AgentOnDisk' : a = certFiles'["agent.crt"]
        BY DEF AgentOnDisk, LoadCertPair
      <4> QED
        BY <1>3, <3>1, <3>3, <4>2
    <3> QED
      BY <3>1, <3>2, <3>3 DEF AgentFiles
  <2> QED
    BY <1>0, <1>5, <2>1, <2>2, <2>3 DEF CertInv, SetupInv
<1>9. OldCAInv'
  <2> SUFFICES ASSUME setupPc = "server", NEW f \in CAFiles, Waits(f)', NEW ca \in CAOnDisk'
               PROVE  ca.n \in expiredPairs
    BY <1>0 DEF OldCAInv
  <2>1. /\ ca = certFiles'["ca.crt"] /\ ca = certFiles'["ca.key"] /\ ca.n # 0
        /\ CAFiles = {"ca.crt", "ca.key"} /\ "ca.crt" \in Files /\ "ca.key" \in Files
    BY DEF CAOnDisk, LoadCertPair, CAFiles, Files
  <2>2. Waits(f) /\ f # w.file
    BY <1>1 DEF Waits
  <2>3. CASE w.file \in CAFiles
    <3>1. certFiles'[w.file] = caPair /\ certFiles'[f].n # caPair.n
      <4>1. w.pair = caPair
        BY <1>1, <2>3 DEF CertInv, QueueInv
      <4>2. certFiles'[f].n # caPair.n
        BY <1>0, <1>7, <2>1 DEF QueueInv, Waits
      <4> QED
        BY <1>3, <4>1, <4>2
    <3> QED
      BY <2>1, <2>3, <3>1
  <2>4. CASE w.file \notin CAFiles
    <3>1. ca \in CAOnDisk
      BY <1>3, <2>1, <2>4 DEF CAOnDisk, LoadCertPair
    <3> QED
      BY <2>2, <3>1 DEF CertInv, OldCAInv
  <2> QED
    BY <2>3, <2>4
<1>10. ServedInv'
  BY <1>0, <1>5 DEF CertInv, ServedInv
<1>11. ProvisionedInv'
  <2> SUFFICES ASSUME NEW a \in Copies, provisioned = <<a>>, ~a.forced,
                      a.ca.n \notin expiredPairs, a.pair.n \notin expiredPairs
               PROVE  AreOf(CAFiles, a.ca)' /\ a.ca.n # 0 /\ a.pair.by = a.ca.n /\ caPair = a.ca
    BY <1>0 DEF ProvisionedInv
  <2>1. w.file \notin CAFiles
    BY <1>1, <1>2, Spoils
  <2>2. \A f \in CAFiles : certFiles'[f] = certFiles[f]
    BY <1>3, <2>1 DEF CAFiles, Files
  <2> QED
    BY <1>5, <2>2 DEF CertInv, ProvisionedInv, AreOf
<1> QED
  BY <1>6, <1>7, <1>8, <1>9, <1>10, <1>11 DEF CertInv

\* A file whose write is cut off is as it was, or half a file.
LEMMA SpoiltFiles ==
    ASSUME CertInv, NEW w \in Left(toWrite), certFiles' \in spoilt(w)
    PROVE  /\ certFiles' \in [Files -> Pairs] /\ w \in Writes
           /\ \A f \in Files \ {w.file} : certFiles'[f] = certFiles[f]
           /\ \A a \in Copies :
                  provisioned = <<a>> /\ ~a.forced /\ a.ca.n \notin expiredPairs /\ a.pair.n \notin expiredPairs
                  => \A f \in CAFiles : certFiles'[f] = certFiles[f]
<1>1. certFiles \in [Files -> Pairs] /\ CAFiles \subseteq Files
  BY DEF CertInv, CertTypes, CAFiles, Files
<1>2. w \in Writes
  BY NoPair, Spoils
<1>3. CASE certFiles' = certFiles
  BY <1>1, <1>2, <1>3
<1>4. CASE certFiles' = [certFiles EXCEPT ![w.file] = Half]
  <2>1. /\ certFiles' \in [Files -> Pairs]
        /\ \A f \in Files \ {w.file} : certFiles'[f] = certFiles[f]
        /\ \A a \in Copies :
               provisioned = <<a>> /\ ~a.forced /\ a.ca.n \notin expiredPairs /\ a.pair.n \notin expiredPairs
               => w.file \notin CAFiles
    BY <1>4, NoPair, Spoils
  <2> QED
    BY <1>1, <1>2, <2>1
<1> QED
  BY <1>3, <1>4 DEF spoilt

LEMMA WriteFailsKeeps == ASSUME CertInv, WriteFails PROVE CertInv'
<1> DEFINE w == Head(toWrite)
<1>0. /\ toWrite # <<>> /\ CertTypes /\ certFiles' \in spoilt(w) /\ certFaults' = certFaults + 1
      /\ UNCHANGED <<expiredPairs, serving, provisioned, forcedRuns>>
  BY DEF WriteFails, Fault, CertInv
<1>1. /\ w \in Writes /\ w \in Left(toWrite) /\ Tail(toWrite) \in Seq(Writes) /\ Distinct(Tail(toWrite))
      /\ Left(Tail(toWrite)) = {v \in Left(toWrite) : v.file # w.file}
  BY <1>0, TailWrites DEF CertInv, CertTypes, QueueInv
<1>2. /\ w.must => Leave
      /\ ~w.must => toWrite' = Tail(toWrite) /\ UNCHANGED <<setupPc, byTool, caPair, serverPair>>
  BY DEF WriteFails
<1> HIDE DEF w
<1>3. /\ certFiles' \in [Files -> Pairs]
      /\ \A f \in Files \ {w.file} : certFiles'[f] = certFiles[f]
      /\ \A a \in Copies :
             provisioned = <<a>> /\ ~a.forced /\ a.ca.n \notin expiredPairs /\ a.pair.n \notin expiredPairs
             => \A f \in CAFiles : certFiles'[f] = certFiles[f]
  BY <1>0, <1>1, SpoiltFiles
<1>4. setupPc \in {"server", "agent", "done"}
  BY <1>0 DEF CertInv, QueueInv, CertTypes, SetupPcs
<1>5. certFaults' \in Nat /\ certFaults' # 0
  BY <1>0 DEF CertTypes
<1>6. CASE w.must
  BY <1>0, <1>2, <1>3, <1>4, <1>5, <1>6, LeaveKeeps
<1>7. CASE ~w.must
  <2>1. \A f \in Files \ {w.file} : Waits(f)' <=> Waits(f)
    BY <1>1, <1>2, <1>7 DEF Waits
  <2>2. CertTypes'
    BY <1>0, <1>1, <1>2, <1>3, <1>5, <1>7 DEF CertTypes
  <2>3. setupPc # "agent" /\ w.file \notin CAFiles /\ (setupPc = "done" => w.file \notin ServerFiles)
    BY <1>1, <1>4, <1>7 DEF CertInv, QueueInv, CAFiles, ServerFiles, AgentFiles
  <2>4. \A f \in CAFiles : certFiles'[f] = certFiles[f] /\ (Waits(f)' <=> Waits(f))
    BY <1>3, <2>1, <2>3 DEF CAFiles, Files
  <2>5. setupPc = "done" => \A f \in ServerFiles : certFiles'[f] = certFiles[f] /\ (Waits(f)' <=> Waits(f))
    BY <1>3, <2>1, <2>3 DEF ServerFiles, Files
  <2>6. QueueInv'
    BY <1>1, <1>2, <1>4, <1>7, <2>3, <2>4 DEF CertInv, QueueInv
  <2>7. SetupInv'
    BY <1>2, <1>4, <1>5, <1>7, <2>3, <2>4, <2>5 DEF CertInv, SetupInv
  <2>8. OldCAInv'
    <3>1. CAOnDisk' = CAOnDisk
      BY <2>4 DEF CAOnDisk, LoadCertPair, CAFiles
    <3> QED
      BY <1>0, <1>2, <1>7, <2>4, <3>1 DEF CertInv, OldCAInv
  <2>9. ServedInv'
    BY <1>0, <1>4 DEF CertInv, ServedInv
  <2>10. ProvisionedInv'
    BY <1>0, <1>2, <1>7, <2>4 DEF CertInv, ProvisionedInv, AreOf
  <2> QED
    BY <2>2, <2>6, <2>7, <2>8, <2>9, <2>10 DEF CertInv
<1> QED
  BY <1>6, <1>7

LEMMA SetupCrashesKeeps == ASSUME CertInv, SetupCrashes PROVE CertInv'
<1>0. /\ setupPc # "down" /\ Leave /\ certFaults' \in Nat /\ UNCHANGED <<expiredPairs, serving, provisioned>>
      /\ certFiles' \in {certFiles} \cup (UNION {spoilt(w) : w \in {toWrite[i] : i \in DOMAIN toWrite \cap {1}}})
  BY DEF SetupCrashes, Fault, CertInv, CertTypes
<1>1. certFiles' = certFiles \/ \E w \in Left(toWrite) : certFiles' \in spoilt(w)
  BY <1>0 DEF Left
<1>2. CASE certFiles' = certFiles
  <2>1. certFiles' \in [Files -> Pairs]
    BY <1>2 DEF CertInv, CertTypes
  <2> QED
    BY <1>0, <1>2, <2>1, LeaveKeeps
<1>3. CASE \E w \in Left(toWrite) : certFiles' \in spoilt(w)
  <2>1. /\ certFiles' \in [Files -> Pairs]
        /\ \A a \in Copies :
               provisioned = <<a>> /\ ~a.forced /\ a.ca.n \notin expiredPairs /\ a.pair.n \notin expiredPairs
               => \A f \in CAFiles : certFiles'[f] = certFiles[f]
    BY <1>3, SpoiltFiles
  <2> QED
    BY <1>0, <2>1, LeaveKeeps
<1> QED
  BY <1>1, <1>2, <1>3

LEMMA ForceRegenKeeps == ASSUME CertInv, NEW removed, ForceRegen(removed) PROVE CertInv'
<1>0. /\ setupPc = "down" /\ setupPc' \in {"ca", "down"} /\ CertTypes /\ toWrite = <<>>
      /\ certFiles' = [f \in Files |-> IF f \in removed THEN Missing ELSE certFiles[f]]
      /\ byTool' \in BOOLEAN
      /\ UNCHANGED <<expiredPairs, toWrite, caPair, serverPair, certFaults>>
  BY DEF ForceRegen, CertInv, QueueInv
<1>1. serving' = <<>> \/ \E s \in Kernels : s.stale /\ serving' = <<s>>
  <2>1. CASE serving = <<>>
    BY <2>1 DEF ForceRegen
  <2>2. ASSUME NEW s \in Kernels, serving = <<s>> PROVE \E k \in Kernels : k.stale /\ serving' = <<k>>
    <3>1. serving' = <<[s EXCEPT !.stale = TRUE]>>
      BY <2>2 DEF ForceRegen
    <3>2. [s EXCEPT !.stale = TRUE] \in Kernels /\ [s EXCEPT !.stale = TRUE].stale
      BY DEF Kernels
    <3> QED
      BY <3>1, <3>2
  <2> QED
    BY <1>0, <2>1, <2>2 DEF CertTypes
<1>2. provisioned' = <<>> \/ \E a \in Copies : a.forced /\ provisioned' = <<a>>
  <2>1. CASE provisioned = <<>>
    BY <2>1 DEF ForceRegen
  <2>2. ASSUME NEW a \in Copies, provisioned = <<a>> PROVE \E k \in Copies : k.forced /\ provisioned' = <<k>>
    <3>1. provisioned' = <<[a EXCEPT !.forced = TRUE]>>
      BY <2>2 DEF ForceRegen
    <3>2. [a EXCEPT !.forced = TRUE] \in Copies /\ [a EXCEPT !.forced = TRUE].forced
      BY DEF Copies
    <3> QED
      BY <3>1, <3>2
  <2> QED
    BY <1>0, <2>1, <2>2 DEF CertTypes
<1>3. certFiles' \in [Files -> Pairs]
  BY <1>0, NoPair DEF CertTypes
<1>4. CertTypes'
  BY <1>0, <1>1, <1>2, <1>3 DEF CertTypes, SetupPcs
<1>5. (QueueInv /\ SetupInv /\ OldCAInv)'
  BY <1>0 DEF QueueInv, SetupInv, OldCAInv, Distinct
<1>6. ServedInv' /\ ProvisionedInv'
  BY <1>1, <1>2 DEF ServedInv, ProvisionedInv
<1> QED
  BY <1>4, <1>5, <1>6 DEF CertInv

LEMMA ProvisionKeeps == ASSUME CertInv, Provision PROVE CertInv'
<1>0. /\ provisioned = <<>> /\ setupPc = "down" /\ verifyCertificates /\ CertTypes
      /\ UNCHANGED <<certFiles, expiredPairs, setupPc, toWrite, caPair, serverPair, byTool, serving, certFaults, forcedRuns>>
  BY DEF Provision, CertInv
<1> DEFINE new == [ca |-> certFiles["ca.crt"], pair |-> certFiles["agent.crt"], forced |-> FALSE]
<1>1. provisioned' = <<new>>
  BY DEF Provision
<1>2. PICK ca \in CAOnDisk, a \in AgentOnDisk : VerifyCertChain(a, ca)
  BY <1>0 DEF verifyCertificates
<1>3. new.ca = certFiles["ca.crt"] /\ new.pair = certFiles["agent.crt"] /\ new \in Copies
  BY <1>0 DEF CertTypes, Copies, Files
<1>4. AreOf(CAFiles, new.ca) /\ new.ca.n # 0 /\ new.pair.by = new.ca.n
  <2>1. AreOf(CAFiles, ca) /\ ca.n # 0 /\ a = certFiles["agent.crt"] /\ a.by = ca.n
    BY <1>0, <1>2, CADiskFacts DEF VerifyCertChain
  <2>2. ca = certFiles["ca.crt"]
    BY <2>1 DEF AreOf, CAFiles
  <2> HIDE DEF new
  <2> QED
    BY <1>3, <2>1, <2>2
<1> HIDE DEF new
<1>5. CertTypes'
  BY <1>0, <1>1, <1>3 DEF CertTypes
<1>6. QueueInv' /\ OldCAInv'
  BY <1>0 DEF CertInv, QueueInv, OldCAInv, Waits, CAOnDisk, LoadCertPair
<1>7. SetupInv'
  BY <1>0 DEF CertInv, SetupInv, Waits, AgentOnDisk, LoadCertPair
<1>8. ServedInv'
  BY <1>0 DEF CertInv, ServedInv, AreOf, AgentOnDisk, LoadCertPair
<1>9. ProvisionedInv'
  <2> SUFFICES ASSUME NEW c \in Copies, provisioned' = <<c>>
               PROVE  AreOf(CAFiles, c.ca)' /\ c.ca.n # 0 /\ c.pair.by = c.ca.n
    BY <1>0 DEF ProvisionedInv
  <2>1. c = new
    BY <1>1
  <2> QED
    BY <1>0, <1>4, <2>1 DEF AreOf
<1> QED
  BY <1>5, <1>6, <1>7, <1>8, <1>9 DEF CertInv

LEMMA IssueKeeps == ASSUME CertInv, issueAgentCertificate PROVE CertInv'
<1>0. /\ provisioned = <<>> /\ CertTypes
      /\ UNCHANGED <<certFiles, setupPc, toWrite, caPair, serverPair, byTool, serving, certFaults, forcedRuns>>
  BY DEF issueAgentCertificate, CertInv
<1>1. PICK ca \in CAOnDisk : /\ provisioned' = <<[ca |-> ca, pair |-> IssueCert(ca), forced |-> FALSE]>>
                             /\ Renewed(IssueCert(ca))
  BY DEF issueAgentCertificate
<1> DEFINE new == [ca |-> ca, pair |-> IssueCert(ca), forced |-> FALSE]
<1>2. ca \in Pairs /\ AreOf(CAFiles, ca) /\ ca.n # 0 /\ ca.n \in inUse
  BY <1>0, CADiskFacts
<1>3. IssueCert(ca) \in Pairs /\ IssueCert(ca).by = ca.n /\ IssueCert(ca).n \notin inUse
  BY <1>0, <1>2, NewPair
<1>4. new \in Copies /\ new.ca = ca /\ new.pair = IssueCert(ca)
  BY <1>2, <1>3 DEF Copies
<1>5. provisioned' = <<new>>
  BY <1>1
<1> HIDE DEF new
<1>6. \A c \in CAOnDisk : c.n \in expiredPairs => c.n \in expiredPairs'
  BY <1>0, <1>1, <1>3, CADiskFacts DEF Renewed
<1>7. CertTypes'
  BY <1>0, <1>4, <1>5 DEF CertTypes
<1>8. QueueInv' /\ SetupInv'
  BY <1>0 DEF CertInv, QueueInv, SetupInv, Waits, AgentOnDisk, LoadCertPair
<1>9. OldCAInv'
  <2>1. CAOnDisk' = CAOnDisk
    BY <1>0 DEF CAOnDisk, LoadCertPair
  <2> QED
    BY <1>0, <1>6, <2>1 DEF CertInv, OldCAInv, Waits
<1>10. ServedInv'
  BY <1>0 DEF CertInv, ServedInv, AreOf, AgentOnDisk, LoadCertPair
<1>11. ProvisionedInv'
  <2> SUFFICES ASSUME ca.n \notin expiredPairs'
               PROVE  /\ AreOf(CAFiles, ca)'
                      /\ setupPc' \in {"server", "agent", "done"} => caPair' = ca
    BY <1>2, <1>3, <1>4, <1>5 DEF ProvisionedInv
  <2>1. ca.n \notin expiredPairs
    BY <1>6
  <2>2. setupPc = "server" => ~ \E f \in CAFiles : Waits(f)
    BY <2>1 DEF CertInv, OldCAInv
  <2>3. setupPc \in {"agent", "done"} => ~ \E f \in CAFiles : Waits(f)
    BY OwnCA
  <2>4. setupPc \in {"server", "agent", "done"} => caPair = ca
    BY <1>2, <2>2, <2>3 DEF CertInv, SetupInv, AreOf, CAFiles
  <2> QED
    BY <1>0, <1>2, <2>4 DEF AreOf
<1> QED
  BY <1>7, <1>8, <1>9, <1>10, <1>11 DEF CertInv

LEMMA CertStep == ASSUME CertInv, [CertNext]_certVars PROVE CertInv'
<1>1. CASE SetupTLS \/ SetupCA \/ SetupServer \/ SetupAgent \/ SetupDone
  BY <1>1, SetupTLSKeeps, SetupCAKeeps, SetupServerKeeps, SetupAgentKeeps, SetupDoneKeeps
<1>2. CASE Write \/ WriteFails \/ SetupCrashes \/ KernelEnds
  BY <1>2, WriteKeeps, WriteFailsKeeps, SetupCrashesKeeps, KernelEndsKeeps
<1>3. CASE \E removed \in {Files, {"ca.crt"}, {"ca.crt", "ca.key", "agent.crt"}} : ForceRegen(removed)
  BY <1>3, ForceRegenKeeps
<1>4. CASE Provision \/ issueAgentCertificate
  BY <1>4, ProvisionKeeps, IssueKeeps
<1>5. CASE \E n \in inUse \ {0} : Expire(n)
  BY <1>5, ExpireKeeps
<1>6. CASE UNCHANGED certVars
  BY <1>6, CertStutters
<1> QED
  BY <1>1, <1>2, <1>3, <1>4, <1>5, <1>6 DEF CertNext

LEMMA CertInvSound == CertInv => CertsSound
<1> SUFFICES ASSUME CertInv, NEW s \in {x[1] : x \in {serving} \ {<<>>}}, ~s.stale
             PROVE  /\ CAOnDisk = {s.ca} /\ ServerOnDisk = {s.server} /\ s.server.by = s.ca.n
                    /\ certFaults = 0 => \A a \in AgentOnDisk : a.by = s.ca.n
                    /\ \A a \in {x[1] : x \in {provisioned} \ {<<>>}} :
                          Connects(s, a) \/ a.forced
                          \/ {s.server.n, s.ca.n, a.pair.n, a.ca.n} \cap expiredPairs # {}
  BY DEF CertsSound
<1>1. s \in Kernels /\ serving = <<s>>
  BY DEF CertInv, CertTypes
<1>2. /\ AreOf(CAFiles, s.ca) /\ s.ca.n # 0 /\ AreOf(ServerFiles, s.server) /\ s.server.n # 0
      /\ s.server.by = s.ca.n /\ (certFaults = 0 => \A a \in AgentOnDisk : a.by = s.ca.n)
  BY <1>1 DEF CertInv, ServedInv
<1>3. CAOnDisk = {s.ca} /\ ServerOnDisk = {s.server}
  BY <1>2, CADiskFacts DEF CertInv
<1>4. ASSUME NEW a \in {x[1] : x \in {provisioned} \ {<<>>}}, ~a.forced,
             {s.server.n, s.ca.n, a.pair.n, a.ca.n} \cap expiredPairs = {}
      PROVE  Connects(s, a)
  <2>1. a \in Copies /\ provisioned = <<a>>
    BY <1>4 DEF CertInv, CertTypes
  <2>2. AreOf(CAFiles, a.ca) /\ a.pair.by = a.ca.n
    BY <1>4, <2>1 DEF CertInv, ProvisionedInv
  <2>3. a.ca = s.ca
    BY <1>2, <2>2 DEF AreOf, CAFiles
  <2> QED
    BY <1>2, <1>4, <2>2, <2>3 DEF Connects
<1> QED
  BY <1>2, <1>3, <1>4

\* Wherever a set-up of the certificates crashes or a write of it fails, a kernel that serves has
\* the pairs of its files, which chain to their CA, and an agent that was given sound copies can
\* connect to it until one of them expires or they are regenerated by force (setupTLS and
\* crypto.go).
THEOREM CertificatesAgree == CertSpec => []CertsSound
<1>1. CertInv /\ [CertNext]_certVars => CertInv'
  BY CertStep
<1> QED
  BY <1>1, CertInitGood, CertInvSound, PTL DEF CertSpec

-----------------------------------------------------------------------------
(* The two beside the kernel's other modules.                              *)

LEMMA DiskInit == PlatformInit => ExtInit /\ CertInit
BY DEF PlatformInit

LEMMA DiskStep == [PlatformNext]_platformVars => [ExtNext]_extVars /\ [CertNext]_certVars
<1> SUFFICES ASSUME [PlatformNext]_platformVars PROVE [ExtNext]_extVars /\ [CertNext]_certVars
  OBVIOUS
<1> USE DEF Alone
<1>1. CASE Alone("assessor", AssessNext) /\ UNCHANGED <<spcVars, extVars, netVars, fedVars, factsVars, certVars>>
  BY <1>1
<1>2. CASE Alone("spc", SpcNext) /\ UNCHANGED <<assessVars, extVars, netVars, fedVars, factsVars, certVars>>
  BY <1>2
<1>3. CASE Alone("extensions", ExtNext) /\ UNCHANGED <<assessVars, spcVars, netVars, fedVars, factsVars, certVars>>
  BY <1>3
<1>4. CASE Alone("topology", NetNext) /\ UNCHANGED <<assessVars, spcVars, extVars, fedVars, factsVars, certVars>>
  BY <1>4
<1>5. CASE Alone("federation", FedNext) /\ UNCHANGED <<assessVars, spcVars, extVars, netVars, factsVars, certVars>>
  BY <1>5
<1>6. CASE Alone("facts", FactsNext) /\ UNCHANGED <<assessVars, spcVars, extVars, netVars, fedVars, certVars>>
  BY <1>6
<1>7. CASE Alone("certificates", CertNext) /\ UNCHANGED <<assessVars, spcVars, extVars, netVars, fedVars, factsVars>>
  BY <1>7
<1>8. CASE UNCHANGED platformVars
  BY <1>8 DEF platformVars
<1> QED
  BY <1>1, <1>2, <1>3, <1>4, <1>5, <1>6, <1>7, <1>8 DEF PlatformNext

\* Whatever the kernel's modules do, an enabled extension keeps what it needs, and the pairs
\* the kernel serves, the files they came from and the copies of an agent go on agreeing.
THEOREM DiskStaysSound == PlatformSpec => []DiskSound
<1> DEFINE DiskInv == ExtInv /\ CertInv
<1>1. PlatformInit => DiskInv
  BY DiskInit, ExtInitGood, CertInitGood
<1>2. DiskInv /\ [PlatformNext]_platformVars => DiskInv'
  <2> SUFFICES ASSUME DiskInv, [PlatformNext]_platformVars PROVE DiskInv'
    OBVIOUS
  <2>1. ExtInv'
    BY DiskStep, ExtStep
  <2>2. CertInv'
    BY DiskStep, CertStep
  <2> QED
    BY <2>1, <2>2
<1>3. DiskInv => DiskSound
  BY ExtInvSound, CertInvSound DEF DiskSound
<1> HIDE DEF DiskInv
<1> QED
  BY <1>1, <1>2, <1>3, PTL DEF PlatformSpec

-----------------------------------------------------------------------------
(* Networks.  Walks, merges and sorted keys are recursive functions and     *)
(* lists; what they return follows from the least element of a set of       *)
(* natural numbers.                                                         *)

LEMMA NatWellFounded == IsWellFoundedOn({p \in Nat \X Nat : p[1] < p[2]}, Nat)
  BY NatLessThanWellFounded DEF OpToRel

\* Induction on the natural numbers, for a set of them.
LEMMA Inductive ==
    ASSUME NEW S, 0 \in S, \A n \in Nat : n \in S => n + 1 \in S
    PROVE  Nat \subseteq S
<1> SUFFICES ASSUME Nat \ S # {} PROVE FALSE
  OBVIOUS
<1>1. PICK n \in Nat \ S : \A m \in Nat \ S : ~ (<<m, n>> \in {p \in Nat \X Nat : p[1] < p[2]})
  BY NatWellFounded, WFMin
<1>2. n # 0 /\ n - 1 \in Nat /\ n - 1 \in S
  <2>1. n - 1 \in Nat => <<n - 1, n>> \in {p \in Nat \X Nat : p[1] < p[2]}
    OBVIOUS
  <2> QED
    BY <1>1, <2>1
<1> QED
  BY <1>1, <1>2

-----------------------------------------------------------------------------
(* What is reachable. *)

\* The walks of k hops, as walks makes them.
WalksFrom(L, from, to) ==
    CHOOSE walk : walk = [k \in 0 .. MaxHops |->
        IF k = 0 THEN {[hosts |-> <<from>>, via |-> <<>>]}
        ELSE UNION {{[hosts |-> Append(w.hosts, e[1]), via |-> Append(w.via, e[2])] :
                        e \in {x \in NetHosts \X subnetsOf(L, Last(w.hosts)) :
                                        /\ x[1] \notin Range(w.hosts) /\ x[2] \in subnetsOf(L, x[1])
                                        /\ Adjacent(L, Last(w.hosts), x[1])}} :
                    w \in {v \in walk[k - 1] : Last(v.hosts) # to
                                              /\ (Last(v.hosts) = from \/ Forwards(L, Last(v.hosts)))}}]
\* The walks that are one hop longer than those in W.
Longer(L, from, to, W) ==
    UNION {{[hosts |-> Append(w.hosts, e[1]), via |-> Append(w.via, e[2])] :
               e \in {x \in NetHosts \X subnetsOf(L, Last(w.hosts)) :
                               /\ x[1] \notin Range(w.hosts) /\ x[2] \in subnetsOf(L, x[1])
                               /\ Adjacent(L, Last(w.hosts), x[1])}} :
           w \in {v \in W : Last(v.hosts) # to /\ (Last(v.hosts) = from \/ Forwards(L, Last(v.hosts)))}}

LEMMA WalksStep ==
    ASSUME NEW L, NEW from, NEW to
    PROVE  WalksFrom(L, from, to) =
             [k \in 0 .. MaxHops |-> IF k = 0 THEN {[hosts |-> <<from>>, via |-> <<>>]}
                                     ELSE Longer(L, from, to, WalksFrom(L, from, to)[k - 1])]
<1> DEFINE A == {[hosts |-> <<from>>, via |-> <<>>]}
           B(W) == Longer(L, from, to, W)
           Is(f, m) == f = [k \in 0 .. m |-> IF k = 0 THEN A ELSE B(f[k - 1])]
           G == {m \in Nat : \E f : Is(f, m)}
<1> HIDE DEF A, B
<1>1. 0 \in G
  <2>1. Is([k \in 0 .. 0 |-> A], 0)
    OBVIOUS
  <2> QED
    BY <2>1
<1>2. ASSUME NEW m \in Nat, m \in G PROVE m + 1 \in G
  <2>1. PICK f : Is(f, m)
    BY <1>2
  <2> DEFINE g == [k \in 0 .. m + 1 |-> IF k = m + 1 THEN B(f[m]) ELSE f[k]]
  <2>2. g[m + 1] = B(f[m]) /\ \A k \in 0 .. m : g[k] = f[k]
    OBVIOUS
  <2>3. \A k \in 0 .. m + 1 : g[k] = IF k = 0 THEN A ELSE B(g[k - 1])
    <3> SUFFICES ASSUME NEW k \in 0 .. m + 1
                 PROVE  g[k] = IF k = 0 THEN A ELSE B(g[k - 1])
      OBVIOUS
    <3> HIDE DEF g
    <3>1. CASE k = m + 1
      <4>1. g[k - 1] = f[m]
        BY <2>2, <3>1
      <4> QED
        BY <2>2, <3>1, <4>1
    <3>2. CASE k # m + 1
      <4>1. k \in 0 .. m
        BY <3>2
      <4>2. f[k] = IF k = 0 THEN A ELSE B(f[k - 1])
        BY <2>1, <4>1
      <4>3. k # 0 => g[k - 1] = f[k - 1]
        BY <2>2, <4>1
      <4> QED
        BY <2>2, <4>1, <4>2, <4>3
    <3> QED
      BY <3>1, <3>2
  <2>4. Is(g, m + 1)
    <3>1. g = [k \in 0 .. m + 1 |-> g[k]]
      OBVIOUS
    <3> HIDE DEF g
    <3> QED
      BY <2>3, <3>1
  <2> HIDE DEF g, Is
  <2> QED
    BY <2>4
<1>3. MaxHops \in G
  <2> HIDE DEF G
  <2>1. Nat \subseteq G
    BY <1>1, <1>2, Inductive
  <2> QED
    BY <2>1, TopologyAssumption
<1>4. \E f : Is(f, MaxHops)
  BY <1>3
<1>5. WalksFrom(L, from, to) = CHOOSE f : Is(f, MaxHops)
  BY DEF WalksFrom, A, B, Longer
<1>6. Is(WalksFrom(L, from, to), MaxHops)
  <2> HIDE DEF Is
  <2> QED
    BY <1>4, <1>5
<1> QED
  BY <1>6 DEF A, B

LEMMA WalksAre ==
    ASSUME NEW L, NEW from, NEW to
    PROVE  walks(L, from, to) = {w \in UNION {WalksFrom(L, from, to)[k] : k \in 1 .. MaxHops} : Last(w.hosts) = to}
BY DEF walks, WalksFrom

LEMMA AppendOneMore ==
    ASSUME NEW D, NEW q \in Seq(D), NEW b \in D
    PROVE  /\ Append(q, b) \in Seq(D) /\ Len(Append(q, b)) = Len(q) + 1
           /\ Append(q, b)[Len(q) + 1] = b /\ \A i \in 1 .. Len(q) : Append(q, b)[i] = q[i]
OBVIOUS

LEMMA AppendToOne ==
    ASSUME NEW D, NEW q \in Seq(D), NEW b \in D, Len(q) = 1
    PROVE  Append(q, b) = [i \in 1 .. 2 |-> IF i = 1 THEN q[1] ELSE b]
<1> DEFINE r == Append(q, b)
<1>1. r \in Seq(D) /\ Len(r) = 2
  <2>1. r \in Seq(D) /\ Len(r) = Len(q) + 1
    BY AppendOneMore
  <2> QED
    BY <2>1
<1>2. r[1] = q[1] /\ r[2] = b
  <2>1. r[Len(q) + 1] = b /\ \A i \in 1 .. Len(q) : r[i] = q[i]
    BY AppendOneMore
  <2> HIDE DEF r
  <2>2. r[1 + 1] = b
    BY <2>1
  <2>3. r[1] = q[1]
    BY <2>1
  <2> QED
    BY <2>2, <2>3
<1> HIDE DEF r
<1>3. r = [i \in 1 .. 2 |-> r[i]]
  BY <1>1
<1>4. r = [i \in 1 .. 2 |-> IF i = 1 THEN q[1] ELSE b]
  BY <1>2, <1>3
<1> QED
  BY <1>4 DEF r

LEMMA PairAppended == ASSUME NEW a, NEW b PROVE Append(<<a>>, b) = <<a, b>>
<1>1. <<a>> \in Seq({a, b}) /\ Len(<<a>>) = 1 /\ <<a>>[1] = a /\ b \in {a, b}
  OBVIOUS
<1>2. <<a, b>> = [i \in 1 .. 2 |-> IF i = 1 THEN a ELSE b]
  OBVIOUS
<1> DEFINE q == <<a>>   D == {a, b}
<1>3. q \in Seq(D) /\ Len(q) = 1 /\ q[1] = a /\ b \in D
  BY <1>1
<1> HIDE DEF q, D
<1>4. Append(q, b) = [i \in 1 .. 2 |-> IF i = 1 THEN q[1] ELSE b]
  BY <1>3, AppendToOne
<1>5. Append(q, b) = [i \in 1 .. 2 |-> IF i = 1 THEN a ELSE b]
  BY <1>3, <1>4
<1> QED
  BY <1>2, <1>5 DEF q

\* The walk of one hop.
Hop(a, b, s) == [hosts |-> <<a, b>>, via |-> <<s>>]

LEMMA OneHop ==
    ASSUME NEW L, NEW a \in NetHosts, NEW b \in NetHosts, a # b, Adjacent(L, a, b), NEW s \in SharedSubnetsRaw(L, a, b)
    PROVE  Hop(a, b, s) \in walks(L, a, b)
<1> DEFINE W == WalksFrom(L, a, b)
           v == [hosts |-> <<a>>, via |-> <<>>]
<1>1. 0 \in 0 .. MaxHops /\ 1 \in 0 .. MaxHops /\ 1 \in 1 .. MaxHops
  BY TopologyAssumption
<1>2. W[0] = {v} /\ W[1] = Longer(L, a, b, W[0])
  <2>1. W = [k \in 0 .. MaxHops |-> IF k = 0 THEN {v} ELSE Longer(L, a, b, W[k - 1])]
    BY WalksStep
  <2> HIDE DEF W, v
  <2>2. W[0] = {v}
    BY <1>1, <2>1
  <2>3. W[1] = Longer(L, a, b, W[1 - 1])
    BY <1>1, <2>1
  <2> QED
    BY <2>2, <2>3
<1> HIDE DEF W
<1>3. Last(v.hosts) = a /\ Range(v.hosts) = {a}
  BY DEF Last, Range
<1>4. Append(v.hosts, b) = <<a, b>> /\ Append(v.via, s) = <<s>>
  <2>1. <<a>> \in Seq({a, b}) /\ <<>> \in Seq({s})
    OBVIOUS
  <2>2. Append(<<a>>, b) = <<a, b>>
    BY <2>1, PairAppended
  <2>3. Append(<<>>, s) = <<s>>
    BY <2>1
  <2>4. v.hosts = <<a>> /\ v.via = <<>>
    OBVIOUS
  <2> HIDE DEF v
  <2> QED
    BY <2>2, <2>3, <2>4
<1>5. s \in subnetsOf(L, a) /\ s \in subnetsOf(L, b)
  BY DEF SharedSubnetsRaw
<1> DEFINE E(w) == {x \in NetHosts \X subnetsOf(L, Last(w.hosts)) :
                               /\ x[1] \notin Range(w.hosts) /\ x[2] \in subnetsOf(L, x[1])
                               /\ Adjacent(L, Last(w.hosts), x[1])}
           F(w) == {[hosts |-> Append(w.hosts, e[1]), via |-> Append(w.via, e[2])] : e \in E(w)}
           V == {u \in W[0] : Last(u.hosts) # b /\ (Last(u.hosts) = a \/ Forwards(L, Last(u.hosts)))}
<1>6. <<b, s>> \in E(v)
  <2> HIDE DEF v
  <2> QED
    BY <1>3, <1>5
<1>7. Hop(a, b, s) \in F(v)
  <2>1. Hop(a, b, s) = [hosts |-> Append(v.hosts, <<b, s>>[1]), via |-> Append(v.via, <<b, s>>[2])]
    BY <1>4 DEF Hop
  <2> HIDE DEF v, E
  <2> QED
    BY <1>6, <2>1
<1>8. v \in V
  <2> HIDE DEF v
  <2> QED
    BY <1>2, <1>3
<1>9. W[1] = UNION {F(w) : w \in V}
  BY <1>2 DEF Longer
<1> HIDE DEF F, V, v, E
<1>10. Hop(a, b, s) \in W[1]
  BY <1>7, <1>8, <1>9
<1>11. Hop(a, b, s) \in UNION {W[k] : k \in 1 .. MaxHops}
  BY <1>1, <1>10
<1>12. Last(Hop(a, b, s).hosts) = b
  BY DEF Last, Hop
<1> QED
  BY <1>11, <1>12, WalksAre DEF W

LEMMA OneHopOpen ==
    ASSUME NEW L, NEW a, NEW b, NEW s
    PROVE  finalizePath(L, Hop(a, b, s)) = Reachable
<1>1. Hop(a, b, s).via = <<s>> /\ Len(<<s>>) = 1
  BY DEF Hop
<1>2. {j \in 1 .. (1 - 1) : <<s>>[j] # <<s>>[j + 1]} = {}
  OBVIOUS
<1> DEFINE C == {sessionVerdict(L, Hop(a, b, s).via[i], Hop(a, b, s).via[i + 1]) :
                    i \in {j \in 1 .. (Len(Hop(a, b, s).via) - 1) : Hop(a, b, s).via[j] # Hop(a, b, s).via[j + 1]}}
<1>3. C = {}
  BY <1>1, <1>2
<1>4. Len(Hop(a, b, s).via) = 1
  BY <1>1
<1> QED
  BY <1>3, <1>4 DEF finalizePath

\* An edge of the layered graph is a walk of one hop.
LEMMA EdgeReachable ==
    ASSUME NEW L, NEW a \in NetHosts, NEW b \in NetHosts, a # b, layeredEdge(L, a, b)
    PROVE  CheckReachability(L, a, b) = Reachable
<1>1. Adjacent(L, a, b) /\ SharedSubnetsRaw(L, a, b) # {}
  BY DEF layeredEdge, SharedSubnets
<1>2. PICK s \in SharedSubnetsRaw(L, a, b) : TRUE
  BY <1>1
<1>3. L.facts[a] # Unseen
  BY <1>1 DEF SharedSubnetsRaw, subnetsOf
<1>4. Reachable \in {finalizePath(L, w) : w \in walks(L, a, b)}
  <2>1. Hop(a, b, s) \in walks(L, a, b)
    BY <1>1, OneHop
  <2> QED
    BY <2>1, OneHopOpen
<1>5. Reachable \in HostReachable(L, a, b)
  BY <1>3, <1>4 DEF HostReachable
<1> QED
  BY <1>5 DEF CheckReachability, Summary

\* Facts with the rules a kernel may know of.
KnownFacts(f) == HostFacts(f) /\ forwardRules(f) \subseteq ForwardRules
\* What a goroutine that handles a heartbeat or a removal has in hand.
Told(w) == w = [pc |-> w.pc, host |-> w.host, facts |-> w.facts, gone |-> w.gone] /\ KnownFacts(w.facts)
Rebuilt(w) == w = [pc |-> w.pc, host |-> w.host, facts |-> w.facts, gone |-> w.gone, graph |-> w.graph] /\ KnownFacts(w.facts)
Late(w) == w = [pc |-> w.pc, host |-> w.host, facts |-> w.facts] /\ KnownFacts(w.facts)
InHand(w) ==
    /\ w.pc \in {"node", "edges", "fire", "rebuild", "remove"} => Told(w)
    /\ w.pc = "inject" => Rebuilt(w)
    /\ w.pc = "facts" => Late(w)

\* No edge dangles: of a graph of nodes and edges.
NoneDangles(m) == m = [nodes |-> m.nodes, edges |-> m.edges] /\ \A e \in m.edges : e[1] \in m.nodes /\ e[2] \in m.nodes
KnownRegistry(r) == r = [h \in NetHosts |-> r[h]] /\ \A h \in NetHosts : r[h] # Unseen => KnownFacts(r[h])
NetInv ==
    /\ KnownRegistry(registry)
    /\ NoneDangles(multi)
    /\ handling = [g \in NetGoroutines |-> handling[g]] /\ \A g \in NetGoroutines : InHand(handling[g])

LEMMA BlankKnown == ASSUME NEW f PROVE KnownFacts(blank(f)) /\ blank(f) # Unseen
<1> DEFINE b == blank(f)
<1>1. HostFacts(b) /\ b.policies = <<>>
  BY DEF blank, HostFacts
<1> HIDE DEF b
<1>2. forwardRules(b) = {}
  BY <1>1 DEF forwardRules, Range
<1>3. b # Unseen
  BY <1>1 DEF Unseen, HostFacts
<1> QED
  BY <1>1, <1>2, <1>3 DEF KnownFacts, b

LEMMA MovedKnown ==
    ASSUME NEW f, KnownFacts(f), NEW s, NEW z
    PROVE  KnownFacts([f EXCEPT !.subnets = s, !.zone = z])
<1> DEFINE b == [f EXCEPT !.subnets = s, !.zone = z]
<1>1. DOMAIN b = DOMAIN f
  OBVIOUS
<1>2. "policies" \in DOMAIN f
  BY DEF KnownFacts, HostFacts
<1>3. b.policies = f.policies
  BY <1>2
<1> HIDE DEF b
<1>4. HostFacts(b)
  BY <1>1 DEF HostFacts, KnownFacts
<1>5. forwardRules(b) = forwardRules(f)
  BY <1>3 DEF forwardRules
<1> QED
  BY <1>4, <1>5 DEF KnownFacts, b

\* A goroutine takes the next step with what it has in hand.
LEMMA HandOn ==
    ASSUME NEW w, Told(w), NEW pc \in {"node", "edges", "fire", "rebuild", "remove"}
    PROVE  InHand([w EXCEPT !.pc = pc])
<1> DEFINE v == [w EXCEPT !.pc = pc]
<1>1. v = [pc |-> pc, host |-> w.host, facts |-> w.facts, gone |-> w.gone]
  BY DEF Told
<1> HIDE DEF v
<1>2. v.pc = pc /\ Told(v)
  BY <1>1 DEF Told
<1> QED
  BY <1>2 DEF InHand, v

LEMMA HandsChange ==
    ASSUME NetInv, NEW g \in NetGoroutines, NEW w, InHand(w), Do(g, w)
    PROVE  handling' = [k \in NetGoroutines |-> handling'[k]] /\ \A k \in NetGoroutines : InHand(handling'[k])
BY DEF NetInv, Do

LEMMA NotInHand == ASSUME NEW w, w.pc \in {"idle", "score"} PROVE InHand(w)
BY DEF InHand

LEMMA RegistryChange ==
    ASSUME NEW r, KnownRegistry(r), NEW h, NEW f, f # Unseen => KnownFacts(f)
    PROVE  KnownRegistry([r EXCEPT ![h] = f])
BY DEF KnownRegistry

LEMMA RecordKeeps ==
    ASSUME NetInv, NEW g \in NetGoroutines, NEW h \in NetHosts, NEW f \in NetReports[h], record(g, h, f)
    PROVE  NetInv'
<1>1. KnownFacts(f)
  BY TopologyAssumption, FederationAssumption DEF KnownFacts
<1> DEFINE w == [pc |-> "node", host |-> h, facts |-> f, gone |-> FALSE]
<1>2. InHand(w)
  BY <1>1 DEF InHand, Told
<1>3. Do(g, w)
  BY DEF record
<1> HIDE DEF w
<1>4. /\ handling' = [k \in NetGoroutines |-> handling'[k]] /\ \A k \in NetGoroutines : InHand(handling'[k])
  BY <1>2, <1>3, HandsChange
<1> DEFINE n == IF registry[h] = Unseen THEN blank(f) ELSE moved(registry[h], f)
<1>5. KnownFacts(n)
  <2>1. registry[h] # Unseen => KnownFacts(registry[h])
    BY DEF NetInv, KnownRegistry
  <2>2. registry[h] # Unseen => KnownFacts(moved(registry[h], f))
    BY <2>1, MovedKnown DEF moved
  <2> QED
    BY <2>2, BlankKnown
<1>6. registry' = [registry EXCEPT ![h] = n]
  BY DEF record
<1> HIDE DEF n
<1>7. KnownRegistry(registry')
  BY <1>5, <1>6, RegistryChange DEF NetInv
<1>8. multi' = multi
  BY DEF record
<1> QED
  BY <1>4, <1>7, <1>8 DEF NetInv

LEMMA DeleteKeeps ==
    ASSUME NetInv, NEW g \in NetGoroutines, NEW h \in NetHosts, delete(g, h)
    PROVE  NetInv'
<1>1. KnownFacts(registry[h])
  BY DEF NetInv, KnownRegistry, delete
<1> DEFINE w == [pc |-> "remove", host |-> h, facts |-> registry[h], gone |-> TRUE]
<1>2. InHand(w)
  BY <1>1 DEF InHand, Told
<1>3. Do(g, w)
  BY DEF delete
<1> HIDE DEF w
<1>4. /\ handling' = [k \in NetGoroutines |-> handling'[k]] /\ \A k \in NetGoroutines : InHand(handling'[k])
  BY <1>2, <1>3, HandsChange
<1>5. registry' = [registry EXCEPT ![h] = Unseen] /\ multi' = multi
  BY DEF delete
<1>6. KnownRegistry(registry')
  BY <1>5, RegistryChange DEF NetInv
<1> QED
  BY <1>4, <1>5, <1>6 DEF NetInv

\* The steps that leave the registry as it is and hand on what they have.
LEMMA ThenKeeps ==
    ASSUME NetInv, NEW g \in NetGoroutines, NEW pc \in {"node", "edges", "fire", "rebuild", "remove"}, Then(g, pc),
           handling[g].pc \in {"node", "edges", "fire", "rebuild", "remove"},
           registry' = registry, NoneDangles(multi')
    PROVE  NetInv'
<1>1. Told(handling[g])
  BY DEF NetInv, InHand
<1> DEFINE w == [handling[g] EXCEPT !.pc = pc]
<1>2. InHand(w)
  BY <1>1, HandOn
<1>3. Do(g, w)
  BY DEF Then
<1> HIDE DEF w
<1>4. /\ handling' = [k \in NetGoroutines |-> handling'[k]] /\ \A k \in NetGoroutines : InHand(handling'[k])
  BY <1>2, <1>3, HandsChange
<1> QED
  BY <1>4 DEF NetInv

LEMMA AddNodeKeeps == ASSUME NetInv, NEW g \in NetGoroutines, AddNode(g) PROVE NetInv'
<1> DEFINE m == [multi EXCEPT !.nodes = @ \cup {handling[g].host}]
<1>1. m = [nodes |-> multi.nodes \cup {handling[g].host}, edges |-> multi.edges]
  BY DEF NetInv, NoneDangles
<1>2. multi' = m
  BY DEF AddNode
<1> HIDE DEF m
<1>3. NoneDangles(m)
  BY <1>1 DEF NetInv, NoneDangles
<1> QED
  BY <1>2, <1>3, ThenKeeps DEF AddNode, Doing

LEMMA AddEdgesKeeps == ASSUME NetInv, NEW g \in NetGoroutines, AddEdges(g) PROVE NetInv'
<1> DEFINE h == handling[g].host
           subs == handling[g].facts.subnets
           E == IF h \in multi.nodes THEN {h} \X subs ELSE {}
<1>1. multi' = [nodes |-> multi.nodes \cup subs, edges |-> multi.edges \cup E]
  BY DEF AddEdges
<1>2. \A e \in E : e[1] \in multi.nodes /\ e[2] \in subs
  OBVIOUS
<1> HIDE DEF E, subs, h
<1>3. NoneDangles(multi')
  BY <1>1, <1>2 DEF NetInv, NoneDangles
<1> QED
  BY <1>3, ThenKeeps DEF AddEdges, Doing

LEMMA RemoveNodeKeeps == ASSUME NetInv, NEW g \in NetGoroutines, RemoveNode(g) PROVE NetInv'
<1> DEFINE h == handling[g].host
<1>1. multi' = [nodes |-> multi.nodes \ {h}, edges |-> {e \in multi.edges : h \notin {e[1], e[2]}}]
  BY DEF RemoveNode
<1> HIDE DEF h
<1>2. NoneDangles(multi')
  BY <1>1 DEF NetInv, NoneDangles
<1> QED
  BY <1>2, ThenKeeps DEF RemoveNode, Doing

LEMMA SetTopologyKeeps == ASSUME NetInv, NEW g \in NetGoroutines, SetTopology(g) PROVE NetInv'
BY ThenKeeps DEF SetTopology, Doing, NetInv

LEMMA BuildKeeps == ASSUME NetInv, NEW g \in NetGoroutines, BuildLayeredFromRegistry(g) PROVE NetInv'
<1> DEFINE v == handling[g]
<1>1. Told(v)
  BY DEF NetInv, InHand, BuildLayeredFromRegistry, Doing
<1>2. PICK order \in SetToSeqs(seen(registry)) :
         Do(g, [pc |-> "inject", host |-> v.host, facts |-> v.facts, gone |-> v.gone, graph |-> graphOf(registry, order)])
  BY DEF BuildLayeredFromRegistry
<1> DEFINE w == [pc |-> "inject", host |-> v.host, facts |-> v.facts, gone |-> v.gone, graph |-> graphOf(registry, order)]
<1>3. w.pc = "inject" /\ Rebuilt(w)
  BY <1>1 DEF Told, Rebuilt
<1>4. Do(g, w)
  BY <1>2
<1> HIDE DEF w, v
<1>5. InHand(w)
  BY <1>3 DEF InHand
<1>6. /\ handling' = [k \in NetGoroutines |-> handling'[k]] /\ \A k \in NetGoroutines : InHand(handling'[k])
  BY <1>4, <1>5, HandsChange
<1> QED
  BY <1>6 DEF NetInv, BuildLayeredFromRegistry

LEMMA SetLayeredKeeps == ASSUME NetInv, NEW g \in NetGoroutines, SetLayeredGraph(g) PROVE NetInv'
<1> DEFINE v == handling[g]
           w == [pc |-> "facts", host |-> v.host, facts |-> v.facts]
<1>1. Rebuilt(v)
  BY DEF NetInv, InHand, SetLayeredGraph, Doing
<1>2. w.pc = "facts" /\ Late(w)
  BY <1>1 DEF Rebuilt, Late
<1>3. Do(g, w) \/ Do(g, Idle0)
  BY DEF SetLayeredGraph
<1> HIDE DEF w, v
<1>4. InHand(w)
  BY <1>2 DEF InHand
<1>5. InHand(Idle0)
  BY NotInHand DEF Idle0
<1>6. /\ handling' = [k \in NetGoroutines |-> handling'[k]] /\ \A k \in NetGoroutines : InHand(handling'[k])
  BY <1>3, <1>4, <1>5, HandsChange
<1> QED
  BY <1>6 DEF NetInv, SetLayeredGraph

LEMMA FactsKeeps == ASSUME NetInv, NEW g \in NetGoroutines, recordNetworkFacts(g) PROVE NetInv'
<1> DEFINE h == handling[g].host
           f == handling[g].facts
           n == IF registry[h] = Unseen THEN registry[h]
                ELSE [f EXCEPT !.subnets = registry[h].subnets, !.zone = registry[h].zone]
<1>1. KnownFacts(f)
  BY DEF NetInv, InHand, recordNetworkFacts, Doing, Late
<1>2. registry' = [registry EXCEPT ![h] = n]
  BY DEF recordNetworkFacts
<1>3. n # Unseen => KnownFacts(n)
  <2> HIDE DEF f, h
  <2> QED
    BY <1>1, MovedKnown
<1> HIDE DEF n, h, f
<1>4. KnownRegistry(registry')
  BY <1>2, <1>3, RegistryChange DEF NetInv
<1>5. /\ handling' = [k \in NetGoroutines |-> handling'[k]] /\ \A k \in NetGoroutines : InHand(handling'[k])
  BY NotInHand, HandsChange DEF recordNetworkFacts, Idle0
<1> QED
  BY <1>4, <1>5 DEF NetInv, recordNetworkFacts

LEMMA ProcessKeeps == ASSUME NetInv, NEW g \in NetGoroutines, NEW h, Process(g, h) PROVE NetInv'
<1>1. InHand([pc |-> "score", host |-> h, nodes |-> snapshots'])
  BY NotInHand
<1>2. Do(g, [pc |-> "score", host |-> h, nodes |-> snapshots'])
  BY DEF Process
<1>3. /\ handling' = [k \in NetGoroutines |-> handling'[k]] /\ \A k \in NetGoroutines : InHand(handling'[k])
  BY <1>1, <1>2, HandsChange
<1> QED
  BY <1>3 DEF NetInv, Process

LEMMA ScoredKeeps == ASSUME NetInv, NEW g \in NetGoroutines, buildIncomingEdges(g) PROVE NetInv'
<1>1. /\ handling' = [k \in NetGoroutines |-> handling'[k]] /\ \A k \in NetGoroutines : InHand(handling'[k])
  BY NotInHand, HandsChange DEF buildIncomingEdges, Idle0
<1> QED
  BY <1>1 DEF NetInv, buildIncomingEdges

LEMMA NetInitGood == NetInit => NetInv
<1> SUFFICES ASSUME NetInit PROVE NetInv
  OBVIOUS
<1>1. KnownRegistry(registry)
  <2>1. registry \in KnownNets
    BY DEF NetInit
  <2>2. registry \in [NetHosts -> Range(registry)]
    BY <2>1, TopologyAssumption
  <2>3. \A h \in NetHosts : registry[h] # Unseen => HostFacts(registry[h])
    BY <2>1, TopologyAssumption
  <2>4. \A h \in NetHosts : registry[h] # Unseen => forwardRules(registry[h]) \subseteq ForwardRules
    BY <2>1, FederationAssumption
  <2> QED
    BY <2>2, <2>3, <2>4 DEF KnownRegistry, KnownFacts
<1>2. NoneDangles(multi)
  <2> DEFINE H == seen(registry)
             N == UNION {registry[h].subnets : h \in H}
             E == UNION {{h} \X registry[h].subnets : h \in H}
  <2>1. multi = [nodes |-> H \cup N, edges |-> E]
    BY DEF NetInit
  <2>2. ASSUME NEW e \in E PROVE e[1] \in H /\ e[2] \in N
    <3>1. PICK h \in H : e \in {h} \X registry[h].subnets
      OBVIOUS
    <3> QED
      BY <3>1
  <2> HIDE DEF H, N, E
  <2> QED
    BY <2>1, <2>2 DEF NoneDangles
<1>3. handling = [g \in NetGoroutines |-> Idle0] /\ InHand(Idle0)
  BY NotInHand DEF NetInit, Idle0
<1> QED
  BY <1>1, <1>2, <1>3 DEF NetInv

LEMMA NetStep == ASSUME NetInv, [NetNext]_netVars PROVE NetInv'
<1>1. CASE UNCHANGED netVars
  BY <1>1 DEF netVars, NetInv
<1>2. ASSUME NEW g \in NetGoroutines, NEW h \in NetHosts, NEW f \in NetReports[h], record(g, h, f) PROVE NetInv'
  BY <1>2, RecordKeeps
<1>3. ASSUME NEW g \in NetGoroutines, NEW h \in NetHosts, delete(g, h) \/ Process(g, h) PROVE NetInv'
  BY <1>3, DeleteKeeps, ProcessKeeps
<1>4. ASSUME NEW g \in NetGoroutines, AddNode(g) \/ AddEdges(g) \/ RemoveNode(g) \/ SetTopology(g) PROVE NetInv'
  BY <1>4, AddNodeKeeps, AddEdgesKeeps, RemoveNodeKeeps, SetTopologyKeeps
<1>5. ASSUME NEW g \in NetGoroutines,
             BuildLayeredFromRegistry(g) \/ SetLayeredGraph(g) \/ recordNetworkFacts(g) \/ buildIncomingEdges(g)
      PROVE  NetInv'
  BY <1>5, BuildKeeps, SetLayeredKeeps, FactsKeeps, ScoredKeeps
<1> QED
  BY <1>1, <1>2, <1>3, <1>4, <1>5 DEF NetNext

LEMMA NetInvSound == NetInv => EdgesAreReachable
BY EdgeReachable DEF NetInv, NoneDangles, EdgesAreReachable

ReportOf(n, r) == r.node = n /\ r.policies \subseteq ForwardRules
OnItsWay(n, s) == s.pc \in {"post", "wait"} => DOMAIN s = {"pc", "report", "attempt", "id"} /\ ReportOf(n, s.report)
Posted(m) == m.from \in FedNodes /\ m.by \in Senders /\ ReportOf(m.from, m.report) /\ "pc" \in DOMAIN m.sent
FedInv ==
    /\ facts = [n \in FedNodes |-> facts[n]] /\ \A n \in FedNodes : facts[n] \in NodeNets[n]
    /\ last = [n \in FedNodes |-> last[n]] /\ \A n \in FedNodes : ReportOf(n, last[n])
    /\ sending = [x \in FedNodes \X Senders |-> sending[x]]
    /\ \A n \in FedNodes, by \in Senders : OnItsWay(n, sending[<<n, by>>])
    /\ \A m \in posts : Posted(m)
    /\ collector = [n \in FedNodes |-> collector[n]]
    /\ \A n \in FedNodes : collector[n] # Nothing => n \notin refused /\ ReportOf(n, collector[n])

LEMMA EmptyReports == ASSUME NEW n PROVE ReportOf(n, emptyReport(n))
BY DEF ReportOf, emptyReport

LEMMA NodeReports ==
    ASSUME NEW n \in FedNodes, NEW reg \in NodeNets[n], NEW r \in NodeReport(n, reg)
    PROVE  ReportOf(n, r)
<1>1. PICK ps \in capped(forwardsOf(reg), MaxPolicyFacts) : r.node = n /\ r.policies = ps
  BY DEF NodeReport
<1>2. ps \subseteq forwardsOf(reg)
  BY <1>1 DEF capped
<1>3. forwardsOf(reg) \subseteq ForwardRules
  <2>1. \A h \in NetHosts : reg[h] # Unseen => forwardRules(reg[h]) \subseteq ForwardRules
    BY FederationAssumption
  <2> QED
    BY <2>1 DEF forwardsOf, seen
<1> QED
  BY <1>1, <1>2, <1>3 DEF ReportOf

\* What a sender has in hand goes on, or is dropped.
LEMMA SendingChange ==
    ASSUME FedInv, NEW n \in FedNodes, NEW by \in Senders, NEW s, OnItsWay(n, s),
           sending' = [sending EXCEPT ![<<n, by>>] = s]
    PROVE  /\ sending' = [x \in FedNodes \X Senders |-> sending'[x]]
           /\ \A k \in FedNodes, b \in Senders : OnItsWay(k, sending'[<<k, b>>])
<1>1. sending' = [x \in FedNodes \X Senders |-> sending'[x]]
  BY DEF FedInv
<1>2. ASSUME NEW k \in FedNodes, NEW b \in Senders PROVE OnItsWay(k, sending'[<<k, b>>])
  <2>1. CASE k = n /\ b = by
    <3>1. sending'[<<k, b>>] = s
      BY <2>1 DEF FedInv
    <3> QED
      BY <2>1, <3>1
  <2>2. CASE ~(k = n /\ b = by)
    <3>1. <<k, b>> # <<n, by>>
      BY <2>2
    <3>2. sending'[<<k, b>>] = sending[<<k, b>>]
      BY <3>1 DEF FedInv
    <3> QED
      BY <3>2 DEF FedInv
  <2> QED
    BY <2>1, <2>2
<1> QED
  BY <1>1, <1>2

LEMMA Retried ==
    ASSUME NEW n, NEW s, OnItsWay(n, s), s.pc \in {"post", "wait"}
    PROVE  /\ OnItsWay(n, [s EXCEPT !.pc = "wait"])
           /\ OnItsWay(n, [s EXCEPT !.pc = "post", !.attempt = @ + 1])
           /\ OnItsWay(n, Sleeping)
<1>1. "report" \in DOMAIN s /\ DOMAIN s = {"pc", "report", "attempt", "id"} /\ ReportOf(n, s.report)
  BY DEF OnItsWay
<1>2. OnItsWay(n, [s EXCEPT !.pc = "wait"])
  BY <1>1 DEF OnItsWay
<1>3. OnItsWay(n, [s EXCEPT !.pc = "post", !.attempt = @ + 1])
  BY <1>1 DEF OnItsWay
<1> QED
  BY <1>2, <1>3 DEF OnItsWay, Sleeping

LEMMA SendingUntouched == ASSUME FedInv, UNCHANGED sending
    PROVE  /\ sending' = [x \in FedNodes \X Senders |-> sending'[x]]
           /\ \A k \in FedNodes, b \in Senders : OnItsWay(k, sending'[<<k, b>>])
BY DEF FedInv

\* A step of a node that leaves the master and its own facts as they are.
LEMMA NodeStepKeeps ==
    ASSUME FedInv, UNCHANGED <<facts, last, refused, collector>>,
           \A m \in posts' : Posted(m),
           sending' = [x \in FedNodes \X Senders |-> sending'[x]],
           \A k \in FedNodes, b \in Senders : OnItsWay(k, sending'[<<k, b>>])
    PROVE  FedInv'
BY DEF FedInv

LEMMA FactsChangeKeeps == ASSUME FedInv, NEW n \in FedNodes, FactsChange(n) PROVE FedInv'
<1>1. PICK reg \in NodeNets[n] : facts' = [facts EXCEPT ![n] = reg]
  BY DEF FactsChange
<1>2. UNCHANGED <<last, sending, posts, collector, refused>>
  BY DEF FactsChange, UNCHANGED_master
<1> QED
  BY <1>1, <1>2 DEF FedInv

LEMMA StartPluginKeeps == ASSUME FedInv, NEW n \in FedNodes, StartPlugin(n) PROVE FedInv'
<1>1. last' = [last EXCEPT ![n] = emptyReport(n)]
  BY DEF StartPlugin
<1>2. UNCHANGED <<facts, sending, posts, collector, refused>>
  BY DEF StartPlugin, UNCHANGED_master
<1>3. last' = [k \in FedNodes |-> last'[k]] /\ \A k \in FedNodes : ReportOf(k, last'[k])
  BY <1>1, EmptyReports DEF FedInv
<1> QED
  BY <1>2, <1>3 DEF FedInv

LEMMA StopsKeep == ASSUME FedInv, NEW n \in FedNodes, StopPlugin(n) \/ Stopped(n) PROVE FedInv'
BY DEF FedInv, StopPlugin, Stopped, UNCHANGED_master

LEMMA PushKeeps == ASSUME FedInv, NEW n \in FedNodes, PushSnapshot(n) PROVE FedInv'
<1>1. PICK r \in NodeReport(n, facts[n]) : last' = [last EXCEPT ![n] = r]
  BY DEF PushSnapshot
<1>2. ReportOf(n, r)
  BY <1>1, NodeReports DEF FedInv
<1>3. UNCHANGED <<facts, sending, posts, collector, refused>>
  BY DEF PushSnapshot, UNCHANGED_master
<1>4. last' = [k \in FedNodes |-> last'[k]] /\ \A k \in FedNodes : ReportOf(k, last'[k])
  BY <1>1, <1>2 DEF FedInv
<1> QED
  BY <1>3, <1>4 DEF FedInv

LEMMA ChildLostKeeps == ASSUME FedInv, NEW n \in FedNodes, ChildLost(n) PROVE FedInv'
<1>1. sending' = [sending EXCEPT ![<<n, "loop">>] = Sleeping, ![<<n, "now">>] = Sleeping]
  BY DEF ChildLost, killed
<1>2. sending' = [x \in FedNodes \X Senders |-> sending'[x]]
  BY <1>1 DEF FedInv
<1>3. ASSUME NEW k \in FedNodes, NEW b \in Senders PROVE OnItsWay(k, sending'[<<k, b>>])
  <2>1. sending'[<<k, b>>] \in {Sleeping, sending[<<k, b>>]}
    BY <1>1 DEF FedInv
  <2>2. OnItsWay(k, Sleeping) /\ OnItsWay(k, sending[<<k, b>>])
    BY DEF FedInv, OnItsWay, Sleeping
  <2> QED
    BY <2>1, <2>2
<1>4. UNCHANGED <<facts, last, posts, collector, refused>>
  BY DEF ChildLost, UNCHANGED_master
<1> QED
  BY <1>2, <1>3, <1>4, NodeStepKeeps DEF FedInv

LEMMA ReportKeeps == ASSUME FedInv, NEW n \in FedNodes, NEW by \in Senders, Report(n, by) PROVE FedInv'
<1>1. PICK r \in IF n \in Isolated /\ by = "loop" THEN {last[n]} ELSE NodeReport(n, facts[n]) :
           /\ sending' = [sending EXCEPT ![<<n, by>>] = [pc |-> "post", report |-> r, attempt |-> 1, id |-> cycles]]
           /\ last' = IF n \in Isolated THEN [last EXCEPT ![n] = r] ELSE last
  BY DEF Report
<1>2. ReportOf(n, r)
  <2>1. facts[n] \in NodeNets[n] /\ ReportOf(n, last[n])
    BY DEF FedInv
  <2> QED
    BY <1>1, <2>1, NodeReports
<1> DEFINE s == [pc |-> "post", report |-> r, attempt |-> 1, id |-> cycles]
<1>3. OnItsWay(n, s)
  BY <1>2 DEF OnItsWay
<1>4. sending' = [sending EXCEPT ![<<n, by>>] = s]
  BY <1>1
<1> HIDE DEF s
<1>5. /\ sending' = [x \in FedNodes \X Senders |-> sending'[x]]
      /\ \A k \in FedNodes, b \in Senders : OnItsWay(k, sending'[<<k, b>>])
  BY <1>3, <1>4, SendingChange
<1>6. last' = [k \in FedNodes |-> last'[k]] /\ \A k \in FedNodes : ReportOf(k, last'[k])
  BY <1>1, <1>2 DEF FedInv
<1>7. UNCHANGED <<facts, posts, collector, refused>>
  BY DEF Report, UNCHANGED_master
<1> QED
  BY <1>5, <1>6, <1>7 DEF FedInv

LEMMA PostKeeps == ASSUME FedInv, NEW n \in FedNodes, NEW by \in Senders, postOnce(n, by) PROVE FedInv'
<1> DEFINE s == sending[<<n, by>>]
           m == [from |-> n, by |-> by, sent |-> s, report |-> s.report]
           w == [s EXCEPT !.pc = "wait"]
<1>1. s.pc \in {"post", "wait"} /\ OnItsWay(n, s)
  BY DEF postOnce, FedInv
<1>2. sending' = [sending EXCEPT ![<<n, by>>] = w] /\ posts' = posts \cup {m}
  BY DEF postOnce
<1>3. OnItsWay(n, w)
  <2> HIDE DEF s
  <2> QED
    BY <1>1, Retried
<1>4. Posted(m)
  <2> HIDE DEF s
  <2> QED
    BY <1>1 DEF OnItsWay, Posted
<1>5. UNCHANGED <<facts, last, collector, refused>>
  BY DEF postOnce
<1> HIDE DEF w, m
<1>6. /\ sending' = [x \in FedNodes \X Senders |-> sending'[x]]
      /\ \A k \in FedNodes, b \in Senders : OnItsWay(k, sending'[<<k, b>>])
  BY <1>2, <1>3, SendingChange
<1>7. \A p \in posts' : Posted(p)
  BY <1>2, <1>4 DEF FedInv
<1> QED
  BY <1>5, <1>6, <1>7, NodeStepKeeps

\* An attempt that failed is followed by another or is the last.
LEMMA AfterAttempt ==
    ASSUME FedInv, NEW n \in FedNodes, NEW by \in Senders, sending[<<n, by>>].pc \in {"post", "wait"},
           \/ sending' = [sending EXCEPT ![<<n, by>>].pc = "post", ![<<n, by>>].attempt = @ + 1]
           \/ sending' = [sending EXCEPT ![<<n, by>>] = Sleeping]
    PROVE  /\ sending' = [x \in FedNodes \X Senders |-> sending'[x]]
           /\ \A k \in FedNodes, b \in Senders : OnItsWay(k, sending'[<<k, b>>])
<1> DEFINE s == sending[<<n, by>>]
           w == [s EXCEPT !.pc = "post", !.attempt = @ + 1]
<1>1. OnItsWay(n, s)
  BY DEF FedInv
<1>2. sending' = [sending EXCEPT ![<<n, by>>] = w] \/ sending' = [sending EXCEPT ![<<n, by>>] = Sleeping]
  <2>1. CASE sending' = [sending EXCEPT ![<<n, by>>].pc = "post", ![<<n, by>>].attempt = @ + 1]
    <3>1. <<n, by>> \in DOMAIN sending
      BY DEF FedInv
    <3> QED
      BY <2>1, <3>1
  <2> QED
    BY <2>1
<1>3. OnItsWay(n, w) /\ OnItsWay(n, Sleeping)
  <2> HIDE DEF s
  <2> QED
    BY <1>1, Retried DEF s
<1> HIDE DEF w
<1> QED
  BY <1>2, <1>3, SendingChange

LEMMA AttemptFailsKeeps == ASSUME FedInv, NEW n \in FedNodes, NEW by \in Senders, attemptFails(n, by) PROVE FedInv'
<1>1. \/ sending' = [sending EXCEPT ![<<n, by>>].pc = "post", ![<<n, by>>].attempt = @ + 1]
      \/ sending' = [sending EXCEPT ![<<n, by>>] = Sleeping]
  BY DEF attemptFails, ended
<1>2. sending[<<n, by>>].pc \in {"post", "wait"} /\ UNCHANGED <<facts, last, posts, collector, refused>>
  BY DEF attemptFails, UNCHANGED_master
<1> QED
  BY <1>1, <1>2, AfterAttempt, NodeStepKeeps DEF FedInv

\* The master takes a report, and its sender's hand is as it may be.
LEMMA HandledKeeps ==
    ASSUME FedInv, NEW m \in posts, handleReport(m),
           sending' = [x \in FedNodes \X Senders |-> sending'[x]],
           \A k \in FedNodes, b \in Senders : OnItsWay(k, sending'[<<k, b>>])
    PROVE  FedInv'
<1>1. Posted(m) /\ m.report.node = m.from
  BY DEF FedInv, Posted, ReportOf
<1>2. UNCHANGED <<facts, last, refused>> /\ posts' \subseteq posts
  BY DEF handleReport
<1>3. \/ collector' = collector
      \/ m.from \notin refused /\ collector' = [collector EXCEPT ![m.from] = m.report]
  BY <1>1 DEF handleReport, Apply
<1>4. collector' = [n \in FedNodes |-> collector'[n]]
  BY <1>3 DEF FedInv
<1>5. ASSUME NEW n \in FedNodes, collector'[n] # Nothing
      PROVE  n \notin refused /\ ReportOf(n, collector'[n])
  <2>1. CASE collector' = collector
    BY <1>5, <2>1 DEF FedInv
  <2>2. CASE m.from \notin refused /\ collector' = [collector EXCEPT ![m.from] = m.report]
    <3>1. CASE n = m.from
      BY <1>1, <2>2, <3>1 DEF FedInv, Posted
    <3>2. CASE n # m.from
      BY <1>5, <2>2, <3>2 DEF FedInv
    <3> QED
      BY <3>1, <3>2
  <2> QED
    BY <1>3, <2>1, <2>2
<1> QED
  BY <1>2, <1>4, <1>5 DEF FedInv

LEMMA AnsweredKeeps == ASSUME FedInv, NEW m \in posts, Answered(m) PROVE FedInv'
<1> DEFINE n == m.from   by == m.by
<1>1. n \in FedNodes /\ by \in Senders /\ "pc" \in DOMAIN m.sent
  BY DEF FedInv, Posted
<1>2. sending[<<n, by>>].pc \in {"post", "wait"}
  BY <1>1 DEF Answered
<1>3. \/ sending' = [sending EXCEPT ![<<n, by>>].pc = "post", ![<<n, by>>].attempt = @ + 1]
      \/ sending' = [sending EXCEPT ![<<n, by>>] = Sleeping]
  BY DEF Answered, ended
<1>4. handleReport(m)
  BY DEF Answered
<1> HIDE DEF n, by
<1>5. /\ sending' = [x \in FedNodes \X Senders |-> sending'[x]]
      /\ \A k \in FedNodes, b \in Senders : OnItsWay(k, sending'[<<k, b>>])
  BY <1>1, <1>2, <1>3, AfterAttempt
<1> QED
  BY <1>4, <1>5, HandledKeeps

LEMMA HandledLateKeeps == ASSUME FedInv, NEW m \in posts, HandledLate(m) PROVE FedInv'
BY SendingUntouched, HandledKeeps DEF HandledLate

LEMMA MasterKeeps == ASSUME FedInv, StartMaster \/ StopMaster PROVE FedInv'
<1>1. UNCHANGED <<facts, last, refused, sending>> /\ posts' \subseteq posts
  BY DEF StartMaster, StopMaster
<1>2. collector' = collector \/ collector' = [n \in FedNodes |-> Nothing]
  BY DEF StartMaster, StopMaster
<1> QED
  BY <1>1, <1>2 DEF FedInv

LEMMA FedInitGood == FedInit => FedInv
<1> SUFFICES ASSUME FedInit PROVE FedInv
  OBVIOUS
<1>1. facts = [n \in FedNodes |-> facts[n]] /\ \A n \in FedNodes : facts[n] \in NodeNets[n]
  BY DEF FedInit
<1>2. last = [n \in FedNodes |-> last[n]] /\ \A n \in FedNodes : ReportOf(n, last[n])
  BY EmptyReports DEF FedInit
<1>3. /\ sending = [x \in FedNodes \X Senders |-> sending[x]]
      /\ \A n \in FedNodes, by \in Senders : OnItsWay(n, sending[<<n, by>>])
  <2>1. \A n : OnItsWay(n, Sleeping)
    BY DEF OnItsWay, Sleeping
  <2> QED
    BY <2>1 DEF FedInit
<1>4. posts = {} /\ collector = [n \in FedNodes |-> Nothing]
  BY DEF FedInit
<1> QED
  BY <1>1, <1>2, <1>3, <1>4 DEF FedInv

LEMMA FedStep == ASSUME FedInv, [FedNext]_fedVars PROVE FedInv'
<1>1. CASE UNCHANGED fedVars
  BY <1>1 DEF fedVars, FedInv
<1>2. ASSUME NEW n \in FedNodes, FactsChange(n) \/ StartPlugin(n) \/ StopPlugin(n) \/ Stopped(n) PROVE FedInv'
  BY <1>2, FactsChangeKeeps, StartPluginKeeps, StopsKeep
<1>3. ASSUME NEW n \in FedNodes, PushSnapshot(n) \/ ChildLost(n) PROVE FedInv'
  BY <1>3, PushKeeps, ChildLostKeeps
<1>4. ASSUME NEW n \in FedNodes, NEW by \in Senders, Report(n, by) \/ postOnce(n, by) \/ attemptFails(n, by) PROVE FedInv'
  BY <1>4, ReportKeeps, PostKeeps, AttemptFailsKeeps
<1>5. ASSUME NEW m \in posts, Answered(m) \/ HandledLate(m) PROVE FedInv'
  BY <1>5, AnsweredKeeps, HandledLateKeeps
<1>6. CASE StartMaster \/ StopMaster
  BY <1>6, MasterKeeps
<1> QED
  BY <1>1, <1>2, <1>3, <1>4, <1>5, <1>6 DEF FedNext

\* The host h of the first i reports, merged.
HostsMerged(q, h) ==
    CHOOSE upTo : upTo = [i \in 0 .. Len(q) |-> IF i = 0 THEN Unseen ELSE mergeHost(upTo[i - 1], q[i].hosts[h])]

LEMMA MergedStep ==
    ASSUME NEW q, Len(q) \in Nat, NEW h
    PROVE  HostsMerged(q, h) =
             [i \in 0 .. Len(q) |-> IF i = 0 THEN Unseen ELSE mergeHost(HostsMerged(q, h)[i - 1], q[i].hosts[h])]
<1> DEFINE B(x, i) == mergeHost(x, q[i].hosts[h])
           Is(f, m) == f = [i \in 0 .. m |-> IF i = 0 THEN Unseen ELSE B(f[i - 1], i)]
           G == {m \in Nat : \E f : Is(f, m)}
<1> HIDE DEF B
<1>1. 0 \in G
  <2>1. Is([i \in 0 .. 0 |-> Unseen], 0)
    OBVIOUS
  <2> QED
    BY <2>1
<1>2. ASSUME NEW m \in Nat, m \in G PROVE m + 1 \in G
  <2>1. PICK f : Is(f, m)
    BY <1>2
  <2> DEFINE g == [i \in 0 .. m + 1 |-> IF i = m + 1 THEN B(f[m], m + 1) ELSE f[i]]
  <2>2. g[m + 1] = B(f[m], m + 1) /\ \A i \in 0 .. m : g[i] = f[i]
    OBVIOUS
  <2>3. \A i \in 0 .. m + 1 : g[i] = IF i = 0 THEN Unseen ELSE B(g[i - 1], i)
    <3> SUFFICES ASSUME NEW i \in 0 .. m + 1
                 PROVE  g[i] = IF i = 0 THEN Unseen ELSE B(g[i - 1], i)
      OBVIOUS
    <3> HIDE DEF g
    <3>1. CASE i = m + 1
      <4>1. g[i - 1] = f[m]
        BY <2>2, <3>1
      <4> QED
        BY <2>2, <3>1, <4>1
    <3>2. CASE i # m + 1
      <4>1. i \in 0 .. m
        BY <3>2
      <4>2. f[i] = IF i = 0 THEN Unseen ELSE B(f[i - 1], i)
        BY <2>1, <4>1
      <4>3. i # 0 => g[i - 1] = f[i - 1]
        BY <2>2, <4>1
      <4> QED
        BY <2>2, <4>1, <4>2, <4>3
    <3> QED
      BY <3>1, <3>2
  <2>4. Is(g, m + 1)
    <3>1. g = [i \in 0 .. m + 1 |-> g[i]]
      OBVIOUS
    <3> HIDE DEF g
    <3> QED
      BY <2>3, <3>1
  <2> HIDE DEF g, Is
  <2> QED
    BY <2>4
<1>3. Len(q) \in G
  <2> HIDE DEF G
  <2>1. Nat \subseteq G
    BY <1>1, <1>2, Inductive
  <2> QED
    BY <2>1
<1>4. \E f : Is(f, Len(q))
  BY <1>3
<1>5. HostsMerged(q, h) = CHOOSE f : Is(f, Len(q))
  BY DEF HostsMerged, B
<1>6. Is(HostsMerged(q, h), Len(q))
  <2> HIDE DEF Is
  <2> QED
    BY <1>4, <1>5
<1> QED
  BY <1>6 DEF B

\* A host that is there after the merge is in one of the reports.
LEMMA MergedFromReports ==
    ASSUME NEW q, Len(q) \in Nat, NEW h, mergedHost(q, h) # Unseen
    PROVE  \E i \in 1 .. Len(q) : q[i].hosts[h] # Unseen
<1> DEFINE U == HostsMerged(q, h)
           G == {n \in Nat : n <= Len(q) /\ U[n] # Unseen => \E i \in 1 .. n : q[i].hosts[h] # Unseen}
<1>1. U = [i \in 0 .. Len(q) |-> IF i = 0 THEN Unseen ELSE mergeHost(U[i - 1], q[i].hosts[h])]
  BY MergedStep
<1>2. mergedHost(q, h) = U[Len(q)]
  BY DEF mergedHost, HostsMerged
<1> HIDE DEF U
<1>3. 0 \in G
  BY <1>1
<1>4. ASSUME NEW n \in Nat, n \in G PROVE n + 1 \in G
  <2> SUFFICES ASSUME n + 1 <= Len(q), U[n + 1] # Unseen PROVE \E i \in 1 .. n + 1 : q[i].hosts[h] # Unseen
    OBVIOUS
  <2>1. U[n + 1] = mergeHost(U[n], q[n + 1].hosts[h])
    <3>1. n + 1 \in 0 .. Len(q) /\ n + 1 # 0 /\ (n + 1) - 1 = n
      OBVIOUS
    <3> HIDE DEF G
    <3> QED
      BY <1>1, <3>1
  <2>2. CASE q[n + 1].hosts[h] # Unseen
    BY <2>2
  <2>3. CASE q[n + 1].hosts[h] = Unseen
    <3>1. U[n] # Unseen
      BY <2>1, <2>3 DEF mergeHost
    <3>2. PICK i \in 1 .. n : q[i].hosts[h] # Unseen
      BY <1>4, <3>1
    <3> QED
      BY <3>2
  <2> QED
    BY <2>2, <2>3
<1>5. Len(q) \in G
  <2> HIDE DEF G
  <2>1. Nat \subseteq G
    BY <1>3, <1>4, Inductive
  <2> QED
    BY <2>1
<1> QED
  BY <1>2, <1>5

-----------------------------------------------------------------------------
(* The forward rules of the merged graph. *)

KeyRules == [dir : {"forward"}, from : Places, to : Places, allow : BOOLEAN]

LEMMA Ranked ==
    ASSUME NEW x \in Places
    PROVE  rank(x) \in Nat /\ \A y \in Places : rank(x) = rank(y) => x = y
<1>1. ASSUME NEW y \in Places, y # ""
      PROVE  rank(y) \in Nat \ {0} /\ PlaceOrder[rank(y)] = y
  <2>1. \E i \in DOMAIN PlaceOrder : PlaceOrder[i] = y
    BY <1>1 DEF Places, Range
  <2>2. rank(y) = CHOOSE i \in DOMAIN PlaceOrder : PlaceOrder[i] = y
    BY <1>1 DEF rank
  <2>3. rank(y) \in DOMAIN PlaceOrder /\ PlaceOrder[rank(y)] = y
    BY <2>1, <2>2
  <2>4. DOMAIN PlaceOrder \subseteq Nat \ {0}
    BY FederationAssumption
  <2> QED
    BY <2>3, <2>4
<1>2. rank("") = 0
  BY DEF rank
<1>3. rank(x) \in Nat
  <2>1. CASE x = ""
    BY <2>1 DEF rank
  <2>2. CASE x # ""
    BY <1>1, <2>2
  <2> QED
    BY <2>1, <2>2
<1>4. ASSUME NEW y \in Places, rank(x) = rank(y) PROVE x = y
  BY <1>1, <1>2, <1>4
<1> QED
  BY <1>3, <1>4

LEMMA OneFirst ==
    ASSUME NEW p \in KeyRules, NEW q \in KeyRules, p # q
    PROVE  keyBefore(p, q) \/ keyBefore(q, p)
<1>1. p.from \in Places /\ p.to \in Places /\ q.from \in Places /\ q.to \in Places
  BY DEF KeyRules
<1>2. rank(p.from) \in Nat /\ rank(q.from) \in Nat /\ rank(p.to) \in Nat /\ rank(q.to) \in Nat
  BY <1>1, Ranked
<1>3. rank(p.from) = rank(q.from) => p.from = q.from
  BY <1>1, Ranked
<1>4. rank(p.to) = rank(q.to) => p.to = q.to
  BY <1>1, Ranked
<1>5. p.from = q.from /\ p.to = q.to => p.allow # q.allow
  BY DEF KeyRules
<1>6. p.allow \in BOOLEAN /\ q.allow \in BOOLEAN
  BY DEF KeyRules
<1>7. CASE p.from # q.from
  BY <1>2, <1>3, <1>7 DEF keyBefore
<1>8. CASE p.from = q.from /\ p.to # q.to
  BY <1>2, <1>4, <1>8 DEF keyBefore
<1>9. CASE p.from = q.from /\ p.to = q.to
  BY <1>5, <1>6, <1>9 DEF keyBefore
<1> QED
  BY <1>7, <1>8, <1>9

LEMMA InOrder ==
    ASSUME NEW p \in KeyRules, NEW q \in KeyRules, NEW r \in KeyRules, keyBefore(p, q), keyBefore(q, r)
    PROVE  keyBefore(p, r)
<1>1. /\ rank(p.from) \in Nat /\ rank(q.from) \in Nat /\ rank(r.from) \in Nat
      /\ rank(p.to) \in Nat /\ rank(q.to) \in Nat /\ rank(r.to) \in Nat
  BY Ranked DEF KeyRules
<1> DEFINE a == rank(p.from)   b == rank(q.from)   c == rank(r.from)
           d == rank(p.to)     e == rank(q.to)     f == rank(r.to)
<1>2. a < b \/ (p.from = q.from /\ a = b /\ d < e) \/ (p.from = q.from /\ p.to = q.to /\ a = b /\ d = e /\ ~p.allow /\ q.allow)
  BY DEF keyBefore
<1>3. b < c \/ (q.from = r.from /\ b = c /\ e < f) \/ (q.from = r.from /\ q.to = r.to /\ b = c /\ e = f /\ ~q.allow /\ r.allow)
  BY DEF keyBefore
<1>4. a \in Nat /\ b \in Nat /\ c \in Nat /\ d \in Nat /\ e \in Nat /\ f \in Nat
  BY <1>1
<1> HIDE DEF a, b, c, d, e, f
<1>5. a < c \/ (p.from = r.from /\ d < f) \/ (p.from = r.from /\ p.to = r.to /\ ~p.allow /\ r.allow)
  BY <1>2, <1>3, <1>4
<1> QED
  BY <1>5 DEF keyBefore, a, c, d, f

LEMMA NeverItself == ASSUME NEW p \in KeyRules PROVE ~keyBefore(p, p)
<1>1. rank(p.from) \in Nat /\ rank(p.to) \in Nat
  BY Ranked DEF KeyRules
<1> QED
  BY <1>1 DEF keyBefore

\* Of several keys there is one that comes last.
LastKey(S) == \E m \in S : \A p \in S \ {m} : keyBefore(p, m)

LEMMA OneIsLast ==
    ASSUME NEW S \in SUBSET KeyRules, IsFiniteSet(S), S # {}
    PROVE  LastKey(S)
<1> DEFINE G == {n \in Nat : \A T \in SUBSET KeyRules : IsFiniteSet(T) /\ Cardinality(T) = n + 1 => LastKey(T)}
<1>1. 0 \in G
  <2> SUFFICES ASSUME NEW T \in SUBSET KeyRules, IsFiniteSet(T), Cardinality(T) = 0 + 1 PROVE LastKey(T)
    OBVIOUS
  <2>1. PICK x : T = {x}
    <3>1. Cardinality(T) = 1
      OBVIOUS
    <3> QED
      BY <3>1, FS_Singleton
  <2> QED
    BY <2>1 DEF LastKey
<1>2. ASSUME NEW n \in Nat, n \in G PROVE n + 1 \in G
  <2> SUFFICES ASSUME NEW T \in SUBSET KeyRules, IsFiniteSet(T), Cardinality(T) = (n + 1) + 1 PROVE LastKey(T)
    OBVIOUS
  <2>1. T # {}
    BY FS_EmptySet
  <2>2. PICK x \in T : TRUE
    BY <2>1
  <2> DEFINE R == T \ {x}
  <2>3. IsFiniteSet(R) /\ Cardinality(R) = n + 1
    <3>1. IsFiniteSet(T \ {x}) /\ Cardinality(T \ {x}) = Cardinality(T) - 1
      BY FS_RemoveElement
    <3> QED
      BY <3>1
  <2>4. LastKey(R)
    <3> HIDE DEF LastKey
    <3> QED
      BY <1>2, <2>3
  <2>5. PICK m \in R : \A p \in R \ {m} : keyBefore(p, m)
    BY <2>4 DEF LastKey
  <2>6. m \in KeyRules /\ x \in KeyRules /\ m # x /\ m \in T
    BY <2>2
  <2>7. CASE keyBefore(x, m)
    <3>1. \A p \in T \ {m} : keyBefore(p, m)
      BY <2>5, <2>7
    <3> QED
      BY <2>6, <3>1 DEF LastKey
  <2>8. CASE keyBefore(m, x)
    <3>1. ASSUME NEW p \in T \ {x} PROVE keyBefore(p, x)
      <4>1. CASE p = m
        BY <2>8, <4>1
      <4>2. CASE p # m
        <5>1. keyBefore(p, m) /\ p \in KeyRules
          BY <2>5, <4>2
        <5> QED
          BY <2>6, <2>8, <5>1, InOrder
      <4> QED
        BY <4>1, <4>2
    <3> QED
      BY <2>2, <3>1 DEF LastKey
  <2> QED
    BY <2>6, <2>7, <2>8, OneFirst
<1>3. Cardinality(S) \in Nat /\ Cardinality(S) # 0
  BY FS_CardinalityType, FS_EmptySet
<1>4. Cardinality(S) - 1 \in Nat /\ Cardinality(S) = (Cardinality(S) - 1) + 1
  BY <1>3
<1>5. Cardinality(S) - 1 \in G
  <2> HIDE DEF G
  <2>1. Nat \subseteq G
    BY <1>1, <1>2, Inductive
  <2> QED
    BY <1>4, <2>1
<1> QED
  BY <1>4, <1>5

LEMMA KeysSorted ==
    ASSUME NEW S \in SUBSET KeyRules, IsFiniteSet(S)
    PROVE  Sortings(S, keyBefore) # {}
<1> DEFINE Sorted(T) == \E q \in [1 .. Cardinality(T) -> T] :
                            \A i, j \in 1 .. Cardinality(T) : i < j => q[i] # q[j] /\ keyBefore(q[i], q[j])
           G == {n \in Nat : \A T \in SUBSET KeyRules : IsFiniteSet(T) /\ Cardinality(T) = n => Sorted(T)}
<1>1. 0 \in G
  <2> SUFFICES ASSUME NEW T \in SUBSET KeyRules, IsFiniteSet(T), Cardinality(T) = 0 PROVE Sorted(T)
    OBVIOUS
  <2>1. T = {} /\ 1 .. Cardinality(T) = {}
    BY FS_EmptySet
  <2>2. [i \in {} |-> 0] \in [1 .. Cardinality(T) -> T]
    BY <2>1
  <2> QED
    BY <2>1, <2>2
<1>2. ASSUME NEW n \in Nat, n \in G PROVE n + 1 \in G
  <2> SUFFICES ASSUME NEW T \in SUBSET KeyRules, IsFiniteSet(T), Cardinality(T) = n + 1 PROVE Sorted(T)
    OBVIOUS
  <2>1. T # {}
    BY FS_EmptySet
  <2>2. PICK m \in T : \A p \in T \ {m} : keyBefore(p, m)
    BY <2>1, OneIsLast DEF LastKey
  <2> DEFINE R == T \ {m}
  <2>3. IsFiniteSet(R) /\ Cardinality(R) = n
    <3>1. IsFiniteSet(T \ {m}) /\ Cardinality(T \ {m}) = Cardinality(T) - 1
      BY FS_RemoveElement
    <3> QED
      BY <3>1
  <2>4. Sorted(R)
    <3> HIDE DEF Sorted
    <3> QED
      BY <1>2, <2>3
  <2>5. PICK q \in [1 .. n -> R] : \A i, j \in 1 .. n : i < j => q[i] # q[j] /\ keyBefore(q[i], q[j])
    BY <2>3, <2>4
  <2> DEFINE r == [i \in 1 .. n + 1 |-> IF i = n + 1 THEN m ELSE q[i]]
  <2>6. r[n + 1] = m /\ \A i \in 1 .. n : r[i] = q[i] /\ q[i] \in R
    OBVIOUS
  <2>7. r \in [1 .. n + 1 -> T]
    OBVIOUS
  <2> HIDE DEF r
  <2>8. ASSUME NEW i \in 1 .. n + 1, NEW j \in 1 .. n + 1, i < j PROVE r[i] # r[j] /\ keyBefore(r[i], r[j])
    <3>1. i \in 1 .. n
      BY <2>8
    <3>2. CASE j = n + 1
      BY <2>2, <2>6, <3>1, <3>2
    <3>3. CASE j # n + 1
      <4>1. j \in 1 .. n
        BY <3>3
      <4> QED
        BY <2>5, <2>6, <2>8, <3>1, <4>1
    <3> QED
      BY <3>2, <3>3
  <2> QED
    BY <2>7, <2>8
<1>3. Cardinality(S) \in Nat
  BY FS_CardinalityType
<1>4. Cardinality(S) \in G
  <2> HIDE DEF G
  <2>1. Nat \subseteq G
    BY <1>1, <1>2, Inductive
  <2> QED
    BY <1>3, <2>1
<1>5. Sorted(S)
  BY <1>4
<1>6. PICK q \in [1 .. Cardinality(S) -> S] :
         \A i, j \in 1 .. Cardinality(S) : i < j => q[i] # q[j] /\ keyBefore(q[i], q[j])
  BY <1>5
<1>7. DOMAIN q = 1 .. Cardinality(S)
  OBVIOUS
<1>8. q \in Sortings(S, keyBefore)
  BY <1>6, <1>7 DEF Sortings
<1> QED
  BY <1>8

\* A list of all keys, each before those that are tried after it.
LEMMA PolicyKeys ==
    ASSUME NEW S \in SUBSET KeyRules, IsFiniteSet(S), NEW q, q = CHOOSE x \in Sortings(S, keyBefore) : TRUE
    PROVE  /\ q \in [1 .. Cardinality(S) -> S] /\ Cardinality(S) \in Nat
           /\ \A i, j \in DOMAIN q : i < j => keyBefore(q[i], q[j])
           /\ \A p \in S : \E i \in DOMAIN q : q[i] = p
<1>1. q \in Sortings(S, keyBefore)
  <2> DEFINE T == Sortings(S, keyBefore)
  <2>1. T # {}
    BY KeysSorted
  <2> HIDE DEF T
  <2>2. q = CHOOSE x \in T : TRUE
    BY DEF T
  <2>3. q \in T
    BY <2>1, <2>2
  <2> QED
    BY <2>3 DEF T
<1> DEFINE n == Cardinality(S)
<1>2. n \in Nat
  BY FS_CardinalityType
<1>3. q \in [1 .. n -> S] /\ \A i, j \in DOMAIN q : i < j => q[i] # q[j] /\ keyBefore(q[i], q[j])
  BY <1>1 DEF Sortings
<1>4. q \in Injection(1 .. n, S)
  <2>1. DOMAIN q = 1 .. n
    BY <1>3
  <2>2. \A i, j \in 1 .. n : q[i] = q[j] => i = j
    <3> SUFFICES ASSUME NEW i \in 1 .. n, NEW j \in 1 .. n, q[i] = q[j] PROVE i = j
      OBVIOUS
    <3>1. i < j \/ j < i \/ i = j
      BY <1>2
    <3> QED
      BY <1>3, <2>1, <3>1
  <2> QED
    BY <1>3, <2>2 DEF Injection, IsInjective
<1>5. Cardinality(1 .. n) = n
  BY <1>2, FS_Interval
<1>6. q \in Surjection(1 .. n, S)
  BY <1>4, <1>5, FS_Injection
<1>7. \A p \in S : \E i \in DOMAIN q : q[i] = p
  BY <1>3, <1>6 DEF Surjection
<1> QED
  BY <1>2, <1>3, <1>7

\* What a function makes of a finite set.
LEMMA ImageFinite ==
    ASSUME NEW S, IsFiniteSet(S), NEW f, NEW T, T = {f[x] : x \in S}
    PROVE  IsFiniteSet(T)
<1> DEFINE g == [x \in S |-> f[x]]
<1>1. g \in Surjection(S, T)
  BY DEF Surjection
<1> HIDE DEF g
<1> QED
  BY <1>1, FS_Surjection

LEMMA KeysFinite == IsFiniteSet(KeyRules)
<1>1. IsFiniteSet(Places)
  <2> DEFINE P == {PlaceOrder[i] : i \in 1 .. Len(PlaceOrder)}
  <2>1. Len(PlaceOrder) \in Nat /\ DOMAIN PlaceOrder = 1 .. Len(PlaceOrder)
    BY FederationAssumption
  <2>2. IsFiniteSet(1 .. Len(PlaceOrder))
    BY <2>1, FS_Interval
  <2>3. IsFiniteSet(P)
    BY <2>2, ImageFinite
  <2>4. Places = P \cup {""}
    BY <2>1 DEF Places, Range
  <2> HIDE DEF P
  <2> QED
    BY <2>3, <2>4, FS_AddElement
<1>2. IsFiniteSet(Places \X Places)
  BY <1>1, FS_Product
<1>3. IsFiniteSet(BOOLEAN)
  <2>1. BOOLEAN = {TRUE} \cup {FALSE}
    OBVIOUS
  <2>2. IsFiniteSet({TRUE})
    BY FS_Singleton
  <2> QED
    BY <2>1, <2>2, FS_AddElement
<1> DEFINE D == (Places \X Places) \X BOOLEAN
           f == [x \in D |-> [dir |-> "forward", from |-> x[1][1], to |-> x[1][2], allow |-> x[2]]]
<1>4. IsFiniteSet(D)
  BY <1>2, <1>3, FS_Product
<1>5. KeyRules = {f[x] : x \in D}
  <2>1. ASSUME NEW p \in KeyRules PROVE \E x \in D : p = f[x]
    <3>1. <<<<p.from, p.to>>, p.allow>> \in D
      BY DEF KeyRules
    <3>2. p = [dir |-> "forward", from |-> p.from, to |-> p.to, allow |-> p.allow]
      BY DEF KeyRules
    <3>3. p = f[<<<<p.from, p.to>>, p.allow>>]
      BY <3>1, <3>2
    <3> QED
      BY <3>1, <3>3
  <2>2. ASSUME NEW x \in D PROVE f[x] \in KeyRules
    BY DEF KeyRules
  <2> HIDE DEF f, D
  <2> QED
    BY <2>1, <2>2
<1> HIDE DEF D, f
<1> QED
  BY <1>4, <1>5, ImageFinite

-----------------------------------------------------------------------------
(* What the master answers. *)

\* A rule as the merged graph has it.
KeyOf(p) == [p EXCEPT !.from = normalizeSubnet(@), !.to = normalizeSubnet(@)]

LEMMA Normal ==
    ASSUME NEW s \in Places \cup DOMAIN NetworkOf
    PROVE  /\ normalizeSubnet(s) \in Places /\ normalizeSubnet(normalizeSubnet(s)) = normalizeSubnet(s)
           /\ s \notin DOMAIN SubnetOfIP => normalizeSubnet(s) \notin DOMAIN SubnetOfIP
<1>1. CASE s \in DOMAIN NetworkOf
  <2>1. normalizeSubnet(s) = NetworkOf[s] /\ NetworkOf[s] \in Range(NetworkOf)
    BY <1>1 DEF normalizeSubnet, Range
  <2>2. NetworkOf[s] \in Range(PlaceOrder) /\ NetworkOf[s] \notin DOMAIN NetworkOf \cup DOMAIN SubnetOfIP
    BY <2>1, TopologyAssumption, FederationAssumption
  <2> QED
    BY <2>1, <2>2 DEF normalizeSubnet, Places
<1>2. CASE s \notin DOMAIN NetworkOf
  BY <1>2 DEF normalizeSubnet
<1> QED
  BY <1>1, <1>2

LEMMA KeyFacts ==
    ASSUME NEW p \in ForwardRules
    PROVE  /\ KeyOf(p).from = normalizeSubnet(p.from) /\ KeyOf(p).to = normalizeSubnet(p.to)
           /\ KeyOf(p).allow = p.allow /\ KeyOf(p) \in KeyRules
<1>1. p.from \in Places \cup DOMAIN NetworkOf /\ p.to \in Places \cup DOMAIN NetworkOf /\ p.allow \in BOOLEAN
  BY DEF ForwardRules
<1>2. normalizeSubnet(p.from) \in Places /\ normalizeSubnet(p.to) \in Places
  BY <1>1, Normal
<1> DEFINE a == normalizeSubnet(p.from)   b == normalizeSubnet(p.to)
<1>3. KeyOf(p) = [p EXCEPT !.from = a, !.to = b]
  BY DEF KeyOf
<1> HIDE DEF a, b
<1>4. DOMAIN p = {"dir", "from", "to", "allow"}
  BY DEF ForwardRules
<1>5. KeyOf(p).from = a /\ KeyOf(p).to = b /\ KeyOf(p).allow = p.allow
  BY <1>3, <1>4
<1>6. a \in Places /\ b \in Places
  BY <1>2 DEF a, b
<1>7. KeyOf(p) \in KeyRules
  BY <1>3, <1>6 DEF ForwardRules, KeyRules
<1> QED
  BY <1>5, <1>7 DEF a, b

LEMMA RulesAre ==
    ASSUME NEW P \in SUBSET ForwardRules, NEW q, q = policyKeys(P)
    PROVE  /\ \E n \in Nat : DOMAIN q = 1 .. n
           /\ \A i \in DOMAIN q : \E p \in P : q[i] = KeyOf(p)
           /\ \A i, j \in DOMAIN q : i < j => keyBefore(q[i], q[j])
           /\ \A p \in P : \E i \in DOMAIN q : q[i] = KeyOf(p)
<1> DEFINE S == {KeyOf(p) : p \in P}
<1>1. S \in SUBSET KeyRules
  BY KeyFacts
<1>2. IsFiniteSet(S)
  BY <1>1, KeysFinite, FS_Subset
<1>3. q = CHOOSE x \in Sortings(S, keyBefore) : TRUE
  BY DEF policyKeys, KeyOf
<1>4. \A p \in P : KeyOf(p) \in S
  OBVIOUS
<1>5. \A k \in S : \E p \in P : k = KeyOf(p)
  OBVIOUS
<1> HIDE DEF S
<1>6. /\ q \in [1 .. Cardinality(S) -> S] /\ Cardinality(S) \in Nat
      /\ \A i, j \in DOMAIN q : i < j => keyBefore(q[i], q[j])
      /\ \A p \in S : \E i \in DOMAIN q : q[i] = p
  BY <1>1, <1>2, <1>3, PolicyKeys
<1> QED
  BY <1>4, <1>5, <1>6

\* A rule of the merged graph matches the subnets it names, when none of the rules names an address.
LEMMA Matches ==
    ASSUME NEW p \in ForwardRules, p.from \notin DOMAIN SubnetOfIP, p.to \notin DOMAIN SubnetOfIP, NEW s, NEW t
    PROVE  (subnetMatch(KeyOf(p).from, s) /\ subnetMatch(KeyOf(p).to, t)) <=> (KeyOf(p).from = s /\ KeyOf(p).to = t)
<1>1. p.from \in Places \cup DOMAIN NetworkOf /\ p.to \in Places \cup DOMAIN NetworkOf
  BY DEF ForwardRules
<1>2. KeyOf(p).from = normalizeSubnet(p.from) /\ KeyOf(p).to = normalizeSubnet(p.to)
  BY KeyFacts
<1>3. normalizeSubnet(KeyOf(p).from) = KeyOf(p).from /\ KeyOf(p).from \notin DOMAIN SubnetOfIP
  BY <1>1, <1>2, Normal
<1>4. normalizeSubnet(KeyOf(p).to) = KeyOf(p).to /\ KeyOf(p).to \notin DOMAIN SubnetOfIP
  BY <1>1, <1>2, Normal
<1> QED
  BY <1>3, <1>4 DEF subnetMatch

\* A list of numbers with a property has a first one.
LEMMA FirstOne ==
    ASSUME NEW S \in SUBSET Nat, S # {}
    PROVE  \E n \in S : \A m \in S : n <= m
<1>1. PICK n \in S : \A m \in S : ~ (<<m, n>> \in {p \in Nat \X Nat : p[1] < p[2]})
  BY NatWellFounded, WFMin
<1>2. ASSUME NEW m \in S PROVE n <= m
  <2>1. <<m, n>> \in Nat \X Nat
    OBVIOUS
  <2>2. ~ (m < n)
    BY <1>1, <2>1
  <2> QED
    BY <2>2
<1> QED
  BY <1>2

\* A crossing that is denied comes first among those for its two subnets.
LEMMA DeniedIsBlocked ==
    ASSUME NEW P \in SUBSET ForwardRules,
           \A p \in P : p.from \notin DOMAIN SubnetOfIP /\ p.to \notin DOMAIN SubnetOfIP,
           NEW s, NEW t, denied(P, s, t),
           NEW L, L.rules = policyKeys(P)
    PROVE  policyVerdict(L, s, t) = Blocked
<1> DEFINE q == policyKeys(P)
           Match(p) == subnetMatch(p.from, s) /\ subnetMatch(p.to, t)
           M == {i \in DOMAIN q : Match(q[i])}
<1>1. /\ \E n \in Nat : DOMAIN q = 1 .. n
      /\ \A i \in DOMAIN q : \E p \in P : q[i] = KeyOf(p)
      /\ \A i, j \in DOMAIN q : i < j => keyBefore(q[i], q[j])
      /\ \A p \in P : \E i \in DOMAIN q : q[i] = KeyOf(p)
  BY RulesAre
<1> HIDE DEF q
<1> PICK n \in Nat : DOMAIN q = 1 .. n
  BY <1>1
<1>2. \A i \in DOMAIN q : Match(q[i]) <=> q[i].from = s /\ q[i].to = t
  <2> SUFFICES ASSUME NEW i \in DOMAIN q PROVE Match(q[i]) <=> q[i].from = s /\ q[i].to = t
    OBVIOUS
  <2>1. PICK p \in P : q[i] = KeyOf(p)
    BY <1>1
  <2>2. (subnetMatch(KeyOf(p).from, s) /\ subnetMatch(KeyOf(p).to, t)) <=> (KeyOf(p).from = s /\ KeyOf(p).to = t)
    BY Matches
  <2> QED
    BY <2>1, <2>2
<1>3. PICK p \in P : ~p.allow /\ normalizeSubnet(p.from) = s /\ normalizeSubnet(p.to) = t
  BY DEF denied
<1>4. PICK d \in DOMAIN q : q[d] = KeyOf(p)
  BY <1>1
<1>5. q[d].from = s /\ q[d].to = t /\ ~q[d].allow
  BY <1>3, <1>4, KeyFacts
<1>6. Match(q[d])
  BY <1>2, <1>5
<1> HIDE DEF Match
<1> DEFINE decider == CHOOSE i \in DOMAIN q : Match(q[i]) /\ \A j \in 1 .. (i - 1) : ~Match(q[j])
<1>7. \E i \in DOMAIN q : Match(q[i]) /\ \A j \in 1 .. (i - 1) : ~Match(q[j])
  <2>1. M \in SUBSET Nat /\ M # {}
    BY <1>1, <1>6
  <2> HIDE DEF M
  <2>2. PICK i \in M : \A m \in M : i <= m
    BY <2>1, FirstOne
  <2>3. ASSUME NEW j \in 1 .. (i - 1), Match(q[j]) PROVE FALSE
    <3>1. i \in Nat /\ j \in Nat /\ j < i /\ j >= 1
      BY <2>1
    <3>2. j \in DOMAIN q
      BY <3>1, <2>2 DEF M
    <3> QED
      BY <2>2, <2>3, <3>1, <3>2 DEF M
  <2> QED
    BY <2>2, <2>3 DEF M
<1>8. decider \in DOMAIN q /\ Match(q[decider]) /\ \A j \in 1 .. (decider - 1) : ~Match(q[j])
  BY <1>7
<1> HIDE DEF decider
<1>9. q[decider].from = s /\ q[decider].to = t
  BY <1>2, <1>8
<1>10. ~q[decider].allow
  <2> SUFFICES ASSUME q[decider].allow PROVE FALSE
    OBVIOUS
  <2>1. decider # d
    BY <1>5
  <2>2. decider \in Nat /\ d \in Nat /\ d >= 1
    BY <1>8
  <2>3. CASE decider < d
    <3>1. keyBefore(q[decider], q[d])
      BY <1>1, <1>8, <2>3
    <3>2. rank(s) \in Nat /\ rank(t) \in Nat
      <4>1. KeyOf(p) \in KeyRules
        BY KeyFacts
      <4> QED
        BY <1>4, <1>5, <4>1, Ranked DEF KeyRules
    <3> QED
      BY <1>5, <1>9, <3>1, <3>2 DEF keyBefore
  <2>4. CASE d < decider
    <3>1. d \in 1 .. (decider - 1)
      BY <2>2, <2>4
    <3> QED
      BY <1>6, <1>8, <3>1
  <2> QED
    BY <2>1, <2>2, <2>3, <2>4
<1>11. L.rules = q
  BY DEF q
<1>12. firstMatch(q, Match, TRUE) = q[decider].allow
  BY <1>4, <1>6 DEF firstMatch, decider
<1>13. policyVerdict(L, s, t) = IF \E i \in DOMAIN q : Match(q[i])
        THEN IF firstMatch(q, Match, TRUE) THEN Reachable ELSE Blocked
        ELSE IF L.known THEN Reachable ELSE Probable
  BY <1>11 DEF policyVerdict, Match
<1> QED
  BY <1>4, <1>6, <1>10, <1>12, <1>13

\* The rules the merged graph is made from.
HeldRules == forwardsOf(registry) \cup UNION {collector[n].policies : n \in {x \in FedNodes : collector[x] # Nothing}}

LEMMA NodesAre ==
    ASSUME FedInv
    PROVE  /\ Len(Nodes) \in Nat /\ DOMAIN Nodes = 1 .. Len(Nodes)
           /\ \A i \in DOMAIN Nodes : \E n \in FedNodes :
                 Nodes[i] = IF collector[n] = Nothing THEN emptyReport(n) ELSE collector[n]
           /\ \A n \in FedNodes : collector[n] # Nothing => \E i \in DOMAIN Nodes : Nodes[i] = collector[n]
<1> DEFINE node(n) == IF collector[n] = Nothing THEN emptyReport(n) ELSE collector[n]
           S == {node(n) : n \in FedNodes}
<1>1. NodeOrder \in Seq(FedNodes) /\ FedNodes \subseteq Range(NodeOrder)
  BY FederationAssumption
<1>2. Len(NodeOrder) \in Nat /\ DOMAIN NodeOrder = 1 .. Len(NodeOrder) /\ \A i \in DOMAIN NodeOrder : NodeOrder[i] \in FedNodes
  BY <1>1
<1>3. Nodes = [i \in 1 .. Len(NodeOrder) |-> node(NodeOrder[i])]
  BY <1>2 DEF Nodes
<1>4. \A i \in 1 .. Len(NodeOrder) : Nodes[i] = node(NodeOrder[i]) /\ NodeOrder[i] \in FedNodes
  BY <1>2, <1>3
<1>5. DOMAIN Nodes = 1 .. Len(NodeOrder)
  BY <1>3
<1>6. Nodes \in [1 .. Len(NodeOrder) -> S]
  BY <1>2, <1>3
<1> HIDE DEF S
<1>7. Nodes \in Seq(S)
  BY <1>2, <1>6
<1>8. Len(Nodes) \in Nat /\ DOMAIN Nodes = 1 .. Len(Nodes)
  BY <1>7
<1>9. ASSUME NEW n \in FedNodes, collector[n] # Nothing PROVE \E i \in DOMAIN Nodes : Nodes[i] = collector[n]
  <2>1. PICK i \in DOMAIN NodeOrder : NodeOrder[i] = n
    BY <1>1 DEF Range
  <2>2. Nodes[i] = node(n) /\ i \in DOMAIN Nodes
    BY <1>2, <1>4, <1>5, <2>1
  <2> QED
    BY <1>9, <2>2
<1> QED
  BY <1>4, <1>5, <1>8, <1>9

LEMMA RulesHeld ==
    ASSUME NetInv, FedInv
    PROVE  /\ HeldRules \subseteq ForwardRules
           /\ MergedGraph.rules = policyKeys(HeldRules)
<1> DEFINE C == UNION {collector[n].policies : n \in {x \in FedNodes : collector[x] # Nothing}}
           R == UNION {Nodes[i].policies : i \in DOMAIN Nodes}
<1>1. ASSUME NEW p \in forwardsOf(registry) PROVE p \in ForwardRules
  <2>1. PICK h \in seen(registry) : p \in forwardRules(registry[h])
    BY DEF forwardsOf
  <2>2. h \in NetHosts /\ registry[h] # Unseen
    BY DEF seen
  <2> QED
    BY <2>1, <2>2 DEF NetInv, KnownRegistry, KnownFacts
<1>2. ASSUME NEW p \in C PROVE p \in ForwardRules /\ p \in R
  <2>1. PICK n \in FedNodes : collector[n] # Nothing /\ p \in collector[n].policies
    OBVIOUS
  <2>2. p \in ForwardRules
    BY <2>1 DEF FedInv, ReportOf
  <2>3. PICK i \in DOMAIN Nodes : Nodes[i] = collector[n]
    BY <2>1, NodesAre
  <2> QED
    BY <2>1, <2>2, <2>3
<1>3. ASSUME NEW p \in R PROVE p \in C
  <2>1. PICK i \in DOMAIN Nodes : p \in Nodes[i].policies
    OBVIOUS
  <2>2. PICK n \in FedNodes : Nodes[i] = IF collector[n] = Nothing THEN emptyReport(n) ELSE collector[n]
    BY <2>1, NodesAre
  <2>3. collector[n] # Nothing
    BY <2>1, <2>2 DEF emptyReport
  <2> QED
    BY <2>1, <2>2, <2>3
<1>4. MergedGraph.rules = policyKeys(forwardsOf(registry) \cup R)
  BY DEF MergedGraph, BuildMergedGraph
<1>5. HeldRules = forwardsOf(registry) \cup C
  BY DEF HeldRules
<1> HIDE DEF C, R
<1>6. C = R
  BY <1>2, <1>3
<1> QED
  BY <1>1, <1>2, <1>4, <1>5, <1>6

LEMMA HostsHeld ==
    ASSUME NetInv, FedInv, NEW h \in seen(MergedGraph.facts), registry[h] = Unseen
    PROVE  \E n \in FedNodes : collector[n] # Nothing /\ collector[n].hosts[h] # Unseen
<1>1. h \in NetHosts /\ MergedGraph.facts[h] # Unseen
  BY DEF seen
<1>2. MergedGraph.facts[h] = mergeHost(mergedHost(Nodes, h), Unseen)
  BY <1>1 DEF MergedGraph, BuildMergedGraph
<1>3. mergedHost(Nodes, h) # Unseen
  BY <1>1, <1>2 DEF mergeHost
<1>4. PICK i \in 1 .. Len(Nodes) : Nodes[i].hosts[h] # Unseen
  BY <1>3, NodesAre, MergedFromReports
<1>5. PICK n \in FedNodes : Nodes[i] = IF collector[n] = Nothing THEN emptyReport(n) ELSE collector[n]
  BY <1>4, NodesAre
<1>6. collector[n] # Nothing
  BY <1>1, <1>4, <1>5 DEF emptyReport
<1> QED
  BY <1>4, <1>5, <1>6

LEMMA MasterSound == ASSUME NetInv, FedInv PROVE MasterViewSound
<1>1. ASSUME NEW s, NEW t, denied(HeldRules, s, t),
             \A p \in HeldRules : p.from \notin DOMAIN SubnetOfIP /\ p.to \notin DOMAIN SubnetOfIP
      PROVE  policyVerdict(MergedGraph, s, t) = Blocked
  BY <1>1, RulesHeld, DeniedIsBlocked
<1>2. \A n \in FedNodes : collector[n] # Nothing => n \notin refused /\ collector[n].node = n
  BY DEF FedInv, ReportOf
<1>3. \A h \in seen(MergedGraph.facts) :
         \/ registry[h] # Unseen
         \/ \E n \in FedNodes : collector[n] # Nothing /\ collector[n].hosts[h] # Unseen
  BY HostsHeld
<1> QED
  BY <1>1, <1>2, <1>3 DEF MasterViewSound, HeldRules

LEMMA NetworkStep == [PlatformNext]_platformVars => [NetNext]_netVars /\ [FedNext]_fedVars
<1> SUFFICES ASSUME [PlatformNext]_platformVars PROVE [NetNext]_netVars /\ [FedNext]_fedVars
  OBVIOUS
<1> USE DEF Alone
<1>1. CASE Alone("assessor", AssessNext) /\ UNCHANGED <<spcVars, extVars, netVars, fedVars, factsVars, certVars>>
  BY <1>1
<1>2. CASE Alone("spc", SpcNext) /\ UNCHANGED <<assessVars, extVars, netVars, fedVars, factsVars, certVars>>
  BY <1>2
<1>3. CASE Alone("extensions", ExtNext) /\ UNCHANGED <<assessVars, spcVars, netVars, fedVars, factsVars, certVars>>
  BY <1>3
<1>4. CASE Alone("topology", NetNext) /\ UNCHANGED <<assessVars, spcVars, extVars, fedVars, factsVars, certVars>>
  BY <1>4
<1>5. CASE Alone("federation", FedNext) /\ UNCHANGED <<assessVars, spcVars, extVars, netVars, factsVars, certVars>>
  BY <1>5
<1>6. CASE Alone("facts", FactsNext) /\ UNCHANGED <<assessVars, spcVars, extVars, netVars, fedVars, certVars>>
  BY <1>6
<1>7. CASE Alone("certificates", CertNext) /\ UNCHANGED <<assessVars, spcVars, extVars, netVars, fedVars, factsVars>>
  BY <1>7
<1>8. CASE UNCHANGED platformVars
  BY <1>8 DEF platformVars
<1> QED
  BY <1>1, <1>2, <1>3, <1>4, <1>5, <1>6, <1>7, <1>8 DEF PlatformNext

\* Reachability is sound wherever it is judged (NetworkSound, over the steps of the kernel's registry and
\* graphs, and over those of the nodes, their reports and the master, in any order): an edge along which
\* risk travels joins hosts that reach each other, no edge dangles, and the master blocks what a report
\* it holds denies, knows a host only from who reported it, and holds of a node what that node said.
THEOREM NetworksStaySound == PlatformSpec => []NetworkSound
<1> DEFINE NetworkInv == NetInv /\ FedInv
<1>1. PlatformInit => NetworkInv
  BY NetInitGood, FedInitGood DEF PlatformInit
<1>2. NetworkInv /\ [PlatformNext]_platformVars => NetworkInv'
  <2> SUFFICES ASSUME NetworkInv, [PlatformNext]_platformVars PROVE NetworkInv'
    OBVIOUS
  <2>1. NetInv'
    BY NetworkStep, NetStep
  <2>2. FedInv'
    BY NetworkStep, FedStep
  <2> QED
    BY <2>1, <2>2
<1>3. NetworkInv => NetworkSound
  BY NetInvSound, MasterSound DEF NetworkSound
<1> HIDE DEF NetworkInv
<1> QED
  BY <1>1, <1>2, <1>3, PTL DEF PlatformSpec

-----------------------------------------------------------------------------
(* Closing a network further.  A list of rules that has more denials than   *)
(* another allows nothing that the other does not; so step by step do the   *)
(* crossings, the neighbours and the walks.                                 *)

\* What the first of the rules at N says, or yes.
FirstSays(rules, N, v) ==
    IF N = {} THEN v = TRUE ELSE \E i \in N : (\A j \in N : i <= j) /\ v = rules[i].allow
\* A rule of e matches as the same rule of f does.
SameRules(f, F1, e, E1) == \A i \in DOMAIN e, k \in DOMAIN f : e[i] = f[k] => (i \in E1 <=> k \in F1)

LEMMA ListedFrom ==
    ASSUME NEW rules, Listed(rules)
    PROVE  Len(rules) \in Nat /\ DOMAIN rules = 1 .. Len(rules)
BY DEF Listed

LEMMA DenialsCloseMore ==
    ASSUME NEW f, NEW e, Listed(f), Listed(e), denies(f, e),
           NEW F1 \in SUBSET DOMAIN f, NEW E1 \in SUBSET DOMAIN e, SameRules(f, F1, e, E1),
           NEW v, NEW w, FirstSays(f, F1, v), FirstSays(e, E1, w), v = TRUE
    PROVE  w = TRUE /\ (F1 = {} <=> E1 = {})
<1>1. PICK at \in [DOMAIN e -> DOMAIN f] :
          /\ \A i \in DOMAIN e : e[i] = f[at[i]] /\ \A j \in DOMAIN e : i < j => at[i] < at[j]
          /\ \A k \in DOMAIN f \ Range(at) : ~f[k].allow
  BY DEF denies
<1>2. DOMAIN f \subseteq Nat /\ DOMAIN e \subseteq Nat
  BY ListedFrom
<1>3. \A i \in DOMAIN e : at[i] \in DOMAIN f /\ (i \in E1 <=> at[i] \in F1)
  BY <1>1 DEF SameRules
<1>4. CASE F1 = {}
  BY <1>3, <1>4 DEF FirstSays
<1>5. CASE F1 # {}
  <2>1. PICK i \in F1 : (\A j \in F1 : i <= j) /\ v = f[i].allow
    BY <1>5 DEF FirstSays
  <2>2. f[i].allow = TRUE
    BY <2>1
  <2>3. PICK k \in DOMAIN e : at[k] = i
    BY <1>1, <2>2 DEF Range
  <2>4. k \in E1
    BY <1>3, <2>3
  <2>5. PICK m \in E1 : (\A j \in E1 : m <= j) /\ w = e[m].allow
    BY <2>4 DEF FirstSays
  <2>6. m = k
    <3> SUFFICES ASSUME m # k PROVE FALSE
      OBVIOUS
    <3>1. m < k
      BY <1>2, <2>4, <2>5
    <3>2. at[m] < at[k]
      BY <1>1, <2>4, <2>5, <3>1
    <3>3. at[m] \in F1
      BY <1>3, <2>5
    <3>4. at[k] <= at[m]
      BY <2>1, <2>3, <3>3
    <3>5. at[m] \in Nat /\ at[k] \in Nat
      BY <1>2, <1>3, <2>4
    <3> QED
      BY <3>2, <3>4, <3>5
  <2>7. e[m] = f[i]
    BY <1>1, <2>3, <2>6
  <2> QED
    BY <2>2, <2>4, <2>5, <2>7
<1> QED
  BY <1>4, <1>5

LEMMA DeniesItself ==
    ASSUME NEW q, Listed(q)
    PROVE  denies(q, q)
<1> DEFINE at == [i \in DOMAIN q |-> i]
<1>1. at \in [DOMAIN q -> DOMAIN q] /\ Range(at) = DOMAIN q
  BY DEF Range
<1>2. \A i \in DOMAIN q : q[i] = q[at[i]] /\ \A j \in DOMAIN q : i < j => at[i] < at[j]
  OBVIOUS
<1> HIDE DEF at
<1> QED
  BY <1>1, <1>2 DEF denies

\* Where the first of the rules at N is.
LEMMA FirstPlace ==
    ASSUME NEW rules, Listed(rules), NEW N \in SUBSET DOMAIN rules, N # {}
    PROVE  \E i \in DOMAIN rules : i \in N /\ \A j \in 1 .. (i - 1) : j \notin N
<1>1. N \in SUBSET Nat
  BY ListedFrom
<1>2. PICK i \in N : \A m \in N : i <= m
  BY <1>1, FirstOne
<1>3. \A j \in 1 .. (i - 1) : j \notin N
  BY <1>1, <1>2
<1> QED
  BY <1>2, <1>3

LEMMA PlaceIsFirst ==
    ASSUME NEW rules, Listed(rules), NEW N \in SUBSET DOMAIN rules, NEW i \in N, \A j \in 1 .. (i - 1) : j \notin N
    PROVE  FirstSays(rules, N, rules[i].allow)
<1>1. Len(rules) \in Nat /\ DOMAIN rules = 1 .. Len(rules)
  BY ListedFrom
<1>2. \A j \in N : i <= j
  <2> SUFFICES ASSUME NEW j \in N, ~(i <= j) PROVE FALSE
    OBVIOUS
  <2>1. i \in Nat /\ j \in Nat /\ 1 <= j
    BY <1>1
  <2>2. j \in 1 .. (i - 1)
    BY <2>1
  <2> QED
    BY <2>2
<1> QED
  BY <1>2 DEF FirstSays

-----------------------------------------------------------------------------
(* The three places where rules are looked up.                              *)

Outgoing(L, source, destSubnet, dest) ==
    {i \in DOMAIN policiesOf(L, source) : LET p == policiesOf(L, source)[i] IN
        /\ p.dir = "outbound"
        /\ p.to = "" \/ subnetMatch(p.to, destSubnet) \/ hostInCIDR(L, dest, p.to)}
Incoming(L, target, source, sourceSubnet, targetSubnet) ==
    {i \in DOMAIN policiesOf(L, target) : LET p == policiesOf(L, target)[i] IN
        /\ p.dir = "inbound"
        /\ p.from = "" \/ subnetMatch(p.from, sourceSubnet) \/ hostInCIDR(L, source, p.from)
        /\ p.to = "" \/ subnetMatch(p.to, targetSubnet) \/ hostInCIDR(L, target, p.to)}
Crossing(L, from, to) ==
    {i \in DOMAIN L.rules : subnetMatch(L.rules[i].from, from) /\ subnetMatch(L.rules[i].to, to)}

LEMMA OutboundSays ==
    ASSUME NEW L, NEW source, NEW s, NEW dest, Listed(policiesOf(L, source))
    PROVE  \E v : FirstSays(policiesOf(L, source), Outgoing(L, source, s, dest), v) /\ (outboundAllowed(L, source, s, dest) <=> v = TRUE)
<1> DEFINE q == policiesOf(L, source)
           N == Outgoing(L, source, s, dest)
           Match(p) == /\ p.dir = "outbound"
                       /\ p.to = "" \/ subnetMatch(p.to, s) \/ hostInCIDR(L, dest, p.to)
           decider == CHOOSE i \in DOMAIN q : Match(q[i]) /\ \A j \in 1 .. (i - 1) : ~Match(q[j])
<1>1. N = {i \in DOMAIN q : Match(q[i])}
  BY DEF Outgoing
<1>2. outboundAllowed(L, source, s, dest) = IF \E i \in DOMAIN q : Match(q[i]) THEN q[decider].allow ELSE TRUE
  BY DEF outboundAllowed, firstMatch
<1> HIDE DEF Match, N, q
<1>3. CASE N = {}
  <2>1. ~ \E i \in DOMAIN q : Match(q[i])
    BY <1>1, <1>3
  <2>2. outboundAllowed(L, source, s, dest)
    BY <1>2, <2>1
  <2>3. FirstSays(q, N, TRUE)
    BY <1>3 DEF FirstSays
  <2> QED
    BY <2>2, <2>3 DEF q, N
<1>4. CASE N # {}
  <2>1. Listed(q) /\ N \in SUBSET DOMAIN q /\ DOMAIN q = 1 .. Len(q) /\ Len(q) \in Nat
    BY <1>1, ListedFrom DEF q
  <2>2. PICK k \in DOMAIN q : k \in N /\ \A j \in 1 .. (k - 1) : j \notin N
    BY <1>4, <2>1, FirstPlace
  <2>3. \A j \in 1 .. (k - 1) : j \in DOMAIN q
    BY <2>1
  <2>4. Match(q[k]) /\ \A j \in 1 .. (k - 1) : ~Match(q[j])
    BY <1>1, <2>2, <2>3
  <2>5. decider \in DOMAIN q /\ Match(q[decider]) /\ \A j \in 1 .. (decider - 1) : ~Match(q[j])
    BY <2>4
  <2> HIDE DEF decider
  <2>6. decider \in N /\ \A j \in 1 .. (decider - 1) : j \notin N
    BY <1>1, <2>5
  <2>7. FirstSays(q, N, q[decider].allow)
    BY <2>1, <2>6, PlaceIsFirst
  <2>8. outboundAllowed(L, source, s, dest) <=> q[decider].allow = TRUE
    BY <1>2, <2>4
  <2> QED
    BY <2>7, <2>8 DEF q, N
<1> QED
  BY <1>3, <1>4

LEMMA InboundSays ==
    ASSUME NEW L, NEW target, NEW source, NEW s, NEW t, Listed(policiesOf(L, target))
    PROVE  \E v : FirstSays(policiesOf(L, target), Incoming(L, target, source, s, t), v) /\ (inboundAllowed(L, target, source, s, t) <=> v = TRUE)
<1> DEFINE q == policiesOf(L, target)
           N == Incoming(L, target, source, s, t)
           Match(p) == /\ p.dir = "inbound"
                       /\ p.from = "" \/ subnetMatch(p.from, s) \/ hostInCIDR(L, source, p.from)
                       /\ p.to = "" \/ subnetMatch(p.to, t) \/ hostInCIDR(L, target, p.to)
           decider == CHOOSE i \in DOMAIN q : Match(q[i]) /\ \A j \in 1 .. (i - 1) : ~Match(q[j])
<1>1. N = {i \in DOMAIN q : Match(q[i])}
  BY DEF Incoming
<1>2. inboundAllowed(L, target, source, s, t) = IF \E i \in DOMAIN q : Match(q[i]) THEN q[decider].allow ELSE TRUE
  BY DEF inboundAllowed, firstMatch
<1> HIDE DEF Match, N, q
<1>3. CASE N = {}
  <2>1. ~ \E i \in DOMAIN q : Match(q[i])
    BY <1>1, <1>3
  <2>2. inboundAllowed(L, target, source, s, t)
    BY <1>2, <2>1
  <2>3. FirstSays(q, N, TRUE)
    BY <1>3 DEF FirstSays
  <2> QED
    BY <2>2, <2>3 DEF q, N
<1>4. CASE N # {}
  <2>1. Listed(q) /\ N \in SUBSET DOMAIN q /\ DOMAIN q = 1 .. Len(q) /\ Len(q) \in Nat
    BY <1>1, ListedFrom DEF q
  <2>2. PICK k \in DOMAIN q : k \in N /\ \A j \in 1 .. (k - 1) : j \notin N
    BY <1>4, <2>1, FirstPlace
  <2>3. \A j \in 1 .. (k - 1) : j \in DOMAIN q
    BY <2>1
  <2>4. Match(q[k]) /\ \A j \in 1 .. (k - 1) : ~Match(q[j])
    BY <1>1, <2>2, <2>3
  <2>5. decider \in DOMAIN q /\ Match(q[decider]) /\ \A j \in 1 .. (decider - 1) : ~Match(q[j])
    BY <2>4
  <2> HIDE DEF decider
  <2>6. decider \in N /\ \A j \in 1 .. (decider - 1) : j \notin N
    BY <1>1, <2>5
  <2>7. FirstSays(q, N, q[decider].allow)
    BY <2>1, <2>6, PlaceIsFirst
  <2>8. inboundAllowed(L, target, source, s, t) <=> q[decider].allow = TRUE
    BY <1>2, <2>4
  <2> QED
    BY <2>7, <2>8 DEF q, N
<1> QED
  BY <1>3, <1>4

LEMMA VerdictSays ==
    ASSUME NEW L, NEW s, NEW t, Listed(L.rules)
    PROVE  \E v : /\ FirstSays(L.rules, Crossing(L, s, t), v)
                  /\ policyVerdict(L, s, t) = IF Crossing(L, s, t) # {} THEN IF v = TRUE THEN Reachable ELSE Blocked
                                              ELSE IF L.known THEN Reachable ELSE Probable
<1> DEFINE q == L.rules
           N == Crossing(L, s, t)
           Match(p) == subnetMatch(p.from, s) /\ subnetMatch(p.to, t)
           decider == CHOOSE i \in DOMAIN q : Match(q[i]) /\ \A j \in 1 .. (i - 1) : ~Match(q[j])
           other == IF L.known THEN Reachable ELSE Probable
           v == IF \E i \in DOMAIN q : Match(q[i]) THEN q[decider].allow ELSE TRUE
<1>1. N = {i \in DOMAIN q : Match(q[i])}
  BY DEF Crossing
<1>2. policyVerdict(L, s, t) = IF \E i \in DOMAIN q : Match(q[i]) THEN IF v = TRUE THEN Reachable ELSE Blocked ELSE other
  BY DEF policyVerdict, firstMatch
<1> HIDE DEF Match, N, q, other
<1>3. CASE N = {}
  <2>1. v = TRUE
    BY <1>1, <1>3
  <2>2. FirstSays(q, N, v)
    BY <1>3, <2>1 DEF FirstSays
  <2> HIDE DEF v
  <2> QED
    BY <1>1, <1>2, <1>3, <2>2 DEF q, N, other
<1>4. CASE N # {}
  <2>1. Listed(q) /\ N \in SUBSET DOMAIN q /\ DOMAIN q = 1 .. Len(q) /\ Len(q) \in Nat
    BY <1>1, ListedFrom DEF q
  <2>2. PICK k \in DOMAIN q : k \in N /\ \A j \in 1 .. (k - 1) : j \notin N
    BY <1>4, <2>1, FirstPlace
  <2>3. \A j \in 1 .. (k - 1) : j \in DOMAIN q
    BY <2>1
  <2>4. Match(q[k]) /\ \A j \in 1 .. (k - 1) : ~Match(q[j])
    BY <1>1, <2>2, <2>3
  <2>5. decider \in DOMAIN q /\ Match(q[decider]) /\ \A j \in 1 .. (decider - 1) : ~Match(q[j])
    BY <2>4
  <2>6. v = q[decider].allow
    BY <2>4
  <2> HIDE DEF decider, v
  <2>7. decider \in N /\ \A j \in 1 .. (decider - 1) : j \notin N
    BY <1>1, <2>5
  <2>8. FirstSays(q, N, v)
    BY <2>1, <2>6, <2>7, PlaceIsFirst
  <2> QED
    BY <1>2, <1>4, <2>4, <2>8 DEF q, N
<1> QED
  BY <1>3, <1>4

-----------------------------------------------------------------------------
(* Facts and graphs: what a stricter one leaves as it was, and what of the    *)
(* rules, the links and the neighbours it takes away.                         *)

\* Facts whose rules are a list, and a graph of such facts.
Ordered(f) == f # Unseen => Listed(f.policies)
OrderedGraph(L) == Listed(L.rules) /\ \A h \in NetHosts : Ordered(L.facts[h])
\* L is M, closed further.
Stricter(L, M) ==
    /\ L.known = M.known /\ denies(L.rules, M.rules)
    /\ \A h \in NetHosts : asStrict(L.facts[h], M.facts[h])

LEMMA PoliciesListed ==
    ASSUME NEW L, OrderedGraph(L), NEW h \in NetHosts
    PROVE  Listed(policiesOf(L, h))
<1>1. CASE L.facts[h] = Unseen
  <2>1. Range(<<>>) = {}
    BY DEF Range
  <2>2. <<>> \in Seq(Range(<<>>))
    OBVIOUS
  <2> QED
    BY <1>1, <2>2 DEF policiesOf, Listed
<1>2. CASE L.facts[h] # Unseen
  BY <1>2 DEF policiesOf, OrderedGraph, Ordered
<1> QED
  BY <1>1, <1>2

\* What a stricter graph leaves as it was, and what it takes away.
LEMMA SamePlaces ==
    ASSUME NEW L, NEW M, OrderedGraph(L), OrderedGraph(M), Stricter(L, M), NEW h \in NetHosts
    PROVE  /\ L.facts[h] = Unseen <=> M.facts[h] = Unseen
           /\ subnetsOf(L, h) = subnetsOf(M, h)
           /\ denies(policiesOf(L, h), policiesOf(M, h))
<1>1. asStrict(L.facts[h], M.facts[h])
  BY DEF Stricter
<1>2. CASE L.facts[h] = M.facts[h]
  <2>1. policiesOf(L, h) = policiesOf(M, h)
    BY <1>2 DEF policiesOf
  <2>2. denies(policiesOf(L, h), policiesOf(M, h))
    BY <2>1, PoliciesListed, DeniesItself
  <2> QED
    BY <1>2, <2>2 DEF subnetsOf
<1>3. CASE L.facts[h] # M.facts[h]
  <2>1. /\ L.facts[h] # Unseen /\ M.facts[h] # Unseen /\ L.facts[h].subnets = M.facts[h].subnets
        /\ denies(L.facts[h].policies, M.facts[h].policies)
    BY <1>1, <1>3 DEF asStrict
  <2> QED
    BY <2>1 DEF subnetsOf, policiesOf
<1> QED
  BY <1>2, <1>3

LEMMA SameAddresses ==
    ASSUME NEW L, NEW M, OrderedGraph(L), OrderedGraph(M), Stricter(L, M), NEW h, NEW network
    PROVE  hostInCIDR(L, h, network) <=> hostInCIDR(M, h, network)
<1>1. CASE h \notin NetHosts
  BY <1>1 DEF hostInCIDR, seen
<1>2. CASE h \in NetHosts
  <2>1. asStrict(L.facts[h], M.facts[h])
    BY <1>2 DEF Stricter
  <2>2. L.facts[h].ips = M.facts[h].ips
    BY <2>1 DEF asStrict
  <2>3. h \in seen(L.facts) <=> h \in seen(M.facts)
    BY <1>2, SamePlaces DEF seen
  <2> QED
    BY <2>2, <2>3 DEF hostInCIDR
<1> QED
  BY <1>1, <1>2

LEMMA OutboundCloses ==
    ASSUME NEW L, NEW M, OrderedGraph(L), OrderedGraph(M), Stricter(L, M),
           NEW h \in NetHosts, NEW s, NEW peer, outboundAllowed(L, h, s, peer)
    PROVE  outboundAllowed(M, h, s, peer)
<1> DEFINE f == policiesOf(L, h)   e == policiesOf(M, h)
           F1 == Outgoing(L, h, s, peer)   E1 == Outgoing(M, h, s, peer)
<1>1. Listed(f) /\ Listed(e) /\ denies(f, e)
  BY PoliciesListed, SamePlaces
<1>2. PICK v, w : /\ outboundAllowed(L, h, s, peer) <=> v = TRUE
                  /\ outboundAllowed(M, h, s, peer) <=> w = TRUE
                  /\ FirstSays(f, F1, v) /\ FirstSays(e, E1, w)
  BY <1>1, OutboundSays
<1>3. F1 \in SUBSET DOMAIN f /\ E1 \in SUBSET DOMAIN e
  BY DEF Outgoing
<1>4. SameRules(f, F1, e, E1)
  <2>1. ASSUME NEW i \in DOMAIN e, NEW k \in DOMAIN f, e[i] = f[k] PROVE i \in E1 <=> k \in F1
    <3>1. \A c : hostInCIDR(L, peer, c) <=> hostInCIDR(M, peer, c)
      BY SameAddresses
    <3> QED
      BY <2>1, <3>1 DEF Outgoing
  <2> QED
    BY <2>1 DEF SameRules
<1> HIDE DEF f, e, F1, E1
<1>5. v = TRUE
  BY <1>2
<1>6. w = TRUE /\ (F1 = {} <=> E1 = {})
  BY <1>1, <1>2, <1>3, <1>4, <1>5, DenialsCloseMore
<1> QED
  BY <1>2, <1>6

LEMMA InboundCloses ==
    ASSUME NEW L, NEW M, OrderedGraph(L), OrderedGraph(M), Stricter(L, M),
           NEW h \in NetHosts, NEW peer, NEW s, NEW t, inboundAllowed(L, h, peer, s, t)
    PROVE  inboundAllowed(M, h, peer, s, t)
<1> DEFINE f == policiesOf(L, h)   e == policiesOf(M, h)
           F1 == Incoming(L, h, peer, s, t)   E1 == Incoming(M, h, peer, s, t)
<1>1. Listed(f) /\ Listed(e) /\ denies(f, e)
  BY PoliciesListed, SamePlaces
<1>2. PICK v, w : /\ inboundAllowed(L, h, peer, s, t) <=> v = TRUE
                  /\ inboundAllowed(M, h, peer, s, t) <=> w = TRUE
                  /\ FirstSays(f, F1, v) /\ FirstSays(e, E1, w)
  BY <1>1, InboundSays
<1>3. F1 \in SUBSET DOMAIN f /\ E1 \in SUBSET DOMAIN e
  BY DEF Incoming
<1>4. SameRules(f, F1, e, E1)
  <2>1. ASSUME NEW i \in DOMAIN e, NEW k \in DOMAIN f, e[i] = f[k] PROVE i \in E1 <=> k \in F1
    <3>1. \A c : /\ hostInCIDR(L, peer, c) <=> hostInCIDR(M, peer, c)
                 /\ hostInCIDR(L, h, c) <=> hostInCIDR(M, h, c)
      BY SameAddresses
    <3> QED
      BY <2>1, <3>1 DEF Incoming
  <2> QED
    BY <2>1 DEF SameRules
<1> HIDE DEF f, e, F1, E1
<1>5. v = TRUE
  BY <1>2
<1>6. w = TRUE /\ (F1 = {} <=> E1 = {})
  BY <1>1, <1>2, <1>3, <1>4, <1>5, DenialsCloseMore
<1> QED
  BY <1>2, <1>6

LEMMA ReplyCloses ==
    ASSUME NEW L, NEW M, OrderedGraph(L), OrderedGraph(M), Stricter(L, M),
           NEW h \in NetHosts, NEW peer, NEW s, NEW t, replyAllowed(L, h, peer, s, t)
    PROVE  replyAllowed(M, h, peer, s, t)
<1>1. asStrict(L.facts[h], M.facts[h])
  BY DEF Stricter
<1>2. L.facts[h].stateful => M.facts[h].stateful
  BY <1>1 DEF asStrict
<1>3. inboundAllowed(L, h, peer, s, t) => inboundAllowed(M, h, peer, s, t)
  BY InboundCloses
<1> QED
  BY <1>2, <1>3 DEF replyAllowed

LEMMA VerdictIsOne ==
    ASSUME NEW L, NEW s, NEW t
    PROVE  policyVerdict(L, s, t) \in {0, 1, 2}
BY DEF policyVerdict, Reachable, Probable, Blocked

LEMMA CrossingCloses ==
    ASSUME NEW L, NEW M, OrderedGraph(L), OrderedGraph(M), Stricter(L, M), NEW s, NEW t
    PROVE  policyVerdict(L, s, t) <= policyVerdict(M, s, t)
<1> DEFINE f == L.rules   e == M.rules   F1 == Crossing(L, s, t)   E1 == Crossing(M, s, t)
<1>1. Listed(f) /\ Listed(e) /\ denies(f, e) /\ L.known = M.known
  BY DEF OrderedGraph, Stricter
<1>2. PICK v : FirstSays(f, F1, v) /\ policyVerdict(L, s, t) = IF F1 # {} THEN IF v = TRUE THEN Reachable ELSE Blocked
                                                              ELSE IF L.known THEN Reachable ELSE Probable
  BY <1>1, VerdictSays
<1>3. PICK w : FirstSays(e, E1, w) /\ policyVerdict(M, s, t) = IF E1 # {} THEN IF w = TRUE THEN Reachable ELSE Blocked
                                                              ELSE IF M.known THEN Reachable ELSE Probable
  BY <1>1, VerdictSays
<1>4. F1 \in SUBSET DOMAIN f /\ E1 \in SUBSET DOMAIN e
  BY DEF Crossing
<1>5. SameRules(f, F1, e, E1)
  BY DEF SameRules, Crossing
<1>6. F1 = {} => v = TRUE
  BY <1>2 DEF FirstSays
<1> HIDE DEF f, e, F1, E1
<1>7. ASSUME v = TRUE PROVE w = TRUE /\ (F1 = {} <=> E1 = {})
  BY <1>1, <1>2, <1>3, <1>4, <1>5, <1>7, DenialsCloseMore
<1>8. policyVerdict(L, s, t) \in {0, 1, 2} /\ policyVerdict(M, s, t) \in {0, 1, 2}
  BY VerdictIsOne
<1>9. CASE F1 # {} /\ v # TRUE
  <2>1. policyVerdict(L, s, t) = 0
    BY <1>2, <1>9 DEF Blocked
  <2> QED
    BY <1>8, <2>1
<1>10. CASE F1 = {} \/ v = TRUE
  <2>1. v = TRUE /\ w = TRUE /\ (F1 = {} <=> E1 = {})
    BY <1>6, <1>7, <1>10
  <2>2. L.known <=> M.known
    BY <1>1
  <2>3. policyVerdict(L, s, t) = policyVerdict(M, s, t)
    BY <1>2, <1>3, <2>1, <2>2
  <2> QED
    BY <1>8, <2>3
<1> QED
  BY <1>9, <1>10

LEMMA SessionCloses ==
    ASSUME NEW L, NEW M, OrderedGraph(L), OrderedGraph(M), Stricter(L, M), NEW s, NEW t
    PROVE  sessionVerdict(L, s, t) \in {0, 1, 2} /\ sessionVerdict(M, s, t) \in {0, 1, 2}
           /\ sessionVerdict(L, s, t) <= sessionVerdict(M, s, t)
<1>1. policyVerdict(L, s, t) <= policyVerdict(M, s, t) /\ policyVerdict(L, t, s) <= policyVerdict(M, t, s)
  BY CrossingCloses
<1>2. /\ policyVerdict(L, s, t) \in {0, 1, 2} /\ policyVerdict(M, s, t) \in {0, 1, 2}
      /\ policyVerdict(L, t, s) \in {0, 1, 2} /\ policyVerdict(M, t, s) \in {0, 1, 2}
  BY VerdictIsOne
<1> QED
  BY <1>1, <1>2 DEF sessionVerdict

LEMMA LinkCloses ==
    ASSUME NEW L, NEW M, OrderedGraph(L), OrderedGraph(M), Stricter(L, M),
           NEW h \in NetHosts, NEW s \in subnetsOf(L, h), linkUp(L, h, s)
    PROVE  linkUp(M, h, s)
<1>1. asStrict(L.facts[h], M.facts[h])
  BY DEF Stricter
<1>2. CASE L.facts[h] = M.facts[h]
  BY <1>2 DEF linkUp
<1>3. CASE L.facts[h] # M.facts[h]
  <2>1. down(M.facts[h]) \subseteq down(L.facts[h])
    BY <1>1, <1>3 DEF asStrict
  <2>2. s \in M.facts[h].subnets
    BY <1>1, <1>3 DEF asStrict, subnetsOf
  <2>3. s \notin down(L.facts[h])
    BY DEF linkUp, down
  <2>4. s \notin down(M.facts[h])
    BY <2>1, <2>3
  <2> QED
    BY <2>2, <2>4 DEF linkUp, down
<1> QED
  BY <1>2, <1>3

LEMMA NeighboursClose ==
    ASSUME NEW L, NEW M, OrderedGraph(L), OrderedGraph(M), Stricter(L, M),
           NEW a \in NetHosts, NEW b \in NetHosts, Adjacent(L, a, b)
    PROVE  Adjacent(M, a, b)
<1>1. SharedSubnetsRaw(L, a, b) = SharedSubnetsRaw(M, a, b)
  BY SamePlaces DEF SharedSubnetsRaw
<1>2. broadcastCompatible(M, a, b)
  <2>1. asStrict(L.facts[a], M.facts[a]) /\ asStrict(L.facts[b], M.facts[b])
    BY DEF Stricter
  <2>2. M.facts[a].vlans \in {{}, L.facts[a].vlans} /\ M.facts[b].vlans \in {{}, L.facts[b].vlans}
    BY <2>1 DEF asStrict
  <2>3. broadcastCompatible(L, a, b)
    BY DEF Adjacent
  <2> QED
    BY <2>2, <2>3 DEF broadcastCompatible
<1>3. ASSUME NEW s \in SharedSubnetsRaw(M, a, b)
      PROVE  /\ linkUp(M, a, s) /\ linkUp(M, b, s)
             /\ outboundAllowed(M, a, s, b) /\ inboundAllowed(M, b, a, s, s)
             /\ outboundAllowed(M, b, s, a) /\ replyAllowed(M, a, b, s, s)
  <2>1. s \in SharedSubnetsRaw(L, a, b) /\ s \in subnetsOf(L, a) /\ s \in subnetsOf(L, b)
    BY <1>1 DEF SharedSubnetsRaw
  <2>2. /\ linkUp(L, a, s) /\ linkUp(L, b, s)
        /\ outboundAllowed(L, a, s, b) /\ inboundAllowed(L, b, a, s, s)
        /\ outboundAllowed(L, b, s, a) /\ replyAllowed(L, a, b, s, s)
    BY <2>1 DEF Adjacent
  <2>3. linkUp(M, a, s) /\ linkUp(M, b, s)
    BY <2>1, <2>2, LinkCloses
  <2>4. outboundAllowed(M, a, s, b) /\ outboundAllowed(M, b, s, a)
    BY <2>2, OutboundCloses
  <2>5. inboundAllowed(M, b, a, s, s) /\ replyAllowed(M, a, b, s, s)
    BY <2>2, InboundCloses, ReplyCloses
  <2> QED
    BY <2>3, <2>4, <2>5
<1>4. SharedSubnetsRaw(M, a, b) # {}
  BY <1>1 DEF Adjacent
<1> QED
  BY <1>2, <1>3, <1>4 DEF Adjacent

LEMMA ForwardsClose ==
    ASSUME NEW L, NEW M, OrderedGraph(L), OrderedGraph(M), Stricter(L, M), NEW h \in NetHosts, Forwards(L, h)
    PROVE  Forwards(M, h)
<1>1. asStrict(L.facts[h], M.facts[h])
  BY DEF Stricter
<1> QED
  BY <1>1 DEF Forwards, asStrict

-----------------------------------------------------------------------------
(* Walks.                                                                     *)

\* A walk as the search makes them: hosts of the network, the last of them met over a subnet.
WalkOf(L, w, k) ==
    /\ w.hosts \in Seq(NetHosts) /\ w.hosts # <<>>
    /\ k # 0 => L.facts[Last(w.hosts)] # Unseen

LEMMA EndsOfList ==
    ASSUME NEW D, NEW q \in Seq(D), q # <<>>
    PROVE  Head(q) \in D /\ Last(q) \in D
BY DEF Last

LEMMA LastAppended ==
    ASSUME NEW D, NEW q \in Seq(D), NEW b \in D
    PROVE  Append(q, b) \in Seq(D) /\ Append(q, b) # <<>> /\ Last(Append(q, b)) = b
<1>1. Append(q, b) \in Seq(D) /\ Len(Append(q, b)) = Len(q) + 1 /\ Append(q, b)[Len(q) + 1] = b
  BY AppendOneMore
<1> DEFINE r == Append(q, b)
<1> HIDE DEF r
<1>2. r \in Seq(D) /\ Len(r) = Len(q) + 1 /\ r[Len(q) + 1] = b /\ Len(q) \in Nat
  BY <1>1 DEF r
<1>3. Last(r) = b /\ r # <<>>
  BY <1>2 DEF Last
<1> QED
  BY <1>2, <1>3 DEF r

LEMMA OneLonger ==
    ASSUME NEW L, NEW from, NEW to, NEW W, NEW k \in Nat, \A w \in W : WalkOf(L, w, k)
    PROVE  \A w \in Longer(L, from, to, W) : WalkOf(L, w, k + 1)
<1> SUFFICES ASSUME NEW u \in Longer(L, from, to, W) PROVE WalkOf(L, u, k + 1)
  OBVIOUS
<1> DEFINE E(w) == {x \in NetHosts \X subnetsOf(L, Last(w.hosts)) :
                               /\ x[1] \notin Range(w.hosts) /\ x[2] \in subnetsOf(L, x[1])
                               /\ Adjacent(L, Last(w.hosts), x[1])}
           F(w) == {[hosts |-> Append(w.hosts, e[1]), via |-> Append(w.via, e[2])] : e \in E(w)}
           V == {w \in W : Last(w.hosts) # to /\ (Last(w.hosts) = from \/ Forwards(L, Last(w.hosts)))}
<1>1. u \in UNION {F(w) : w \in V}
  BY DEF Longer
<1> HIDE DEF E, F, V
<1>2. PICK w \in V : u \in F(w)
  BY <1>1
<1>3. w \in W
  BY DEF V
<1>4. PICK e \in E(w) : u = [hosts |-> Append(w.hosts, e[1]), via |-> Append(w.via, e[2])]
  BY <1>2 DEF F
<1>5. e[1] \in NetHosts /\ e[2] \in subnetsOf(L, e[1])
  BY DEF E
<1>6. w.hosts \in Seq(NetHosts)
  BY <1>3 DEF WalkOf
<1>7. u.hosts = Append(w.hosts, e[1])
  BY <1>4
<1> HIDE DEF E
<1>8. u.hosts \in Seq(NetHosts) /\ u.hosts # <<>> /\ Last(u.hosts) = e[1]
  BY <1>5, <1>6, <1>7, LastAppended
<1>9. L.facts[e[1]] # Unseen
  BY <1>5 DEF subnetsOf
<1> QED
  BY <1>8, <1>9 DEF WalkOf

LEMMA LongerCloses ==
    ASSUME NEW L, NEW M, OrderedGraph(L), OrderedGraph(M), Stricter(L, M), NEW from, NEW to,
           NEW W, NEW X, W \subseteq X, NEW k, \A w \in W : WalkOf(L, w, k)
    PROVE  Longer(L, from, to, W) \subseteq Longer(M, from, to, X)
<1> SUFFICES ASSUME NEW u \in Longer(L, from, to, W) PROVE u \in Longer(M, from, to, X)
  OBVIOUS
<1> DEFINE E(K, w) == {x \in NetHosts \X subnetsOf(K, Last(w.hosts)) :
                               /\ x[1] \notin Range(w.hosts) /\ x[2] \in subnetsOf(K, x[1])
                               /\ Adjacent(K, Last(w.hosts), x[1])}
           F(K, w) == {[hosts |-> Append(w.hosts, e[1]), via |-> Append(w.via, e[2])] : e \in E(K, w)}
           V(K, Y) == {w \in Y : Last(w.hosts) # to /\ (Last(w.hosts) = from \/ Forwards(K, Last(w.hosts)))}
<1>1. u \in UNION {F(L, w) : w \in V(L, W)} /\ Longer(M, from, to, X) = UNION {F(M, w) : w \in V(M, X)}
  BY DEF Longer
<1> HIDE DEF E, F, V
<1>2. PICK w \in V(L, W) : u \in F(L, w)
  BY <1>1
<1>3. w \in W /\ w \in X /\ Last(w.hosts) # to /\ (Last(w.hosts) = from \/ Forwards(L, Last(w.hosts)))
  BY DEF V
<1>4. Last(w.hosts) \in NetHosts
  BY <1>3, EndsOfList DEF WalkOf
<1>5. w \in V(M, X)
  BY <1>3, <1>4, ForwardsClose DEF V
<1>6. PICK e \in E(L, w) : u = [hosts |-> Append(w.hosts, e[1]), via |-> Append(w.via, e[2])]
  BY <1>2 DEF F
<1>7. /\ e \in NetHosts \X subnetsOf(L, Last(w.hosts)) /\ e[1] \in NetHosts /\ e[1] \notin Range(w.hosts)
      /\ e[2] \in subnetsOf(L, e[1]) /\ Adjacent(L, Last(w.hosts), e[1])
  BY DEF E
<1>8. subnetsOf(L, Last(w.hosts)) = subnetsOf(M, Last(w.hosts)) /\ subnetsOf(L, e[1]) = subnetsOf(M, e[1])
  BY <1>4, <1>7, SamePlaces
<1>9. Adjacent(M, Last(w.hosts), e[1])
  BY <1>4, <1>7, NeighboursClose
<1>10. e \in E(M, w)
  BY <1>7, <1>8, <1>9 DEF E
<1>11. u \in F(M, w)
  BY <1>6, <1>10 DEF F
<1> QED
  BY <1>1, <1>5, <1>11

LEMMA StartOfWalk ==
    ASSUME NEW L, NEW from \in NetHosts
    PROVE  WalkOf(L, [hosts |-> <<from>>, via |-> <<>>], 0)
BY DEF WalkOf

\* Walk after walk, by induction on the hops.
LEMMA WalksAt ==
    ASSUME NEW L, NEW from \in NetHosts, NEW to, NEW k \in 0 .. MaxHops
    PROVE  \A w \in WalksFrom(L, from, to)[k] : WalkOf(L, w, k)
<1> DEFINE W == WalksFrom(L, from, to)
           Good(i) == i <= MaxHops => \A w \in W[i] : WalkOf(L, w, i)
           G == {i \in Nat : Good(i)}
<1>1. W = [i \in 0 .. MaxHops |-> IF i = 0 THEN {[hosts |-> <<from>>, via |-> <<>>]}
                                  ELSE Longer(L, from, to, W[i - 1])]
  BY WalksStep
<1> HIDE DEF W
<1>2. 0 \in G
  <2>1. W[0] = {[hosts |-> <<from>>, via |-> <<>>]}
    BY <1>1, TopologyAssumption
  <2> QED
    BY <2>1, StartOfWalk
<1>3. ASSUME NEW i \in Nat, i \in G PROVE i + 1 \in G
  <2>1. CASE i + 1 <= MaxHops
    <3>1. \A w \in W[i] : WalkOf(L, w, i)
      BY <1>3, <2>1, TopologyAssumption
    <3>2. i + 1 \in 0 .. MaxHops /\ i + 1 # 0 /\ (i + 1) - 1 = i
      BY <2>1, TopologyAssumption
    <3>3. W[i + 1] = Longer(L, from, to, W[i])
      BY <1>1, <3>2
    <3>4. \A w \in W[i + 1] : WalkOf(L, w, i + 1)
      BY <3>1, <3>3, OneLonger
    <3> QED
      BY <3>4
  <2> QED
    BY <2>1
<1> HIDE DEF G
<1>4. Nat \subseteq G
  BY <1>2, <1>3, Inductive
<1>5. k \in G /\ k <= MaxHops
  BY <1>4, TopologyAssumption
<1> QED
  BY <1>5 DEF G, W

LEMMA WalksClose ==
    ASSUME NEW L, NEW M, OrderedGraph(L), OrderedGraph(M), Stricter(L, M),
           NEW from \in NetHosts, NEW to, NEW k \in 0 .. MaxHops
    PROVE  WalksFrom(L, from, to)[k] \subseteq WalksFrom(M, from, to)[k]
<1> DEFINE W == WalksFrom(L, from, to)
           X == WalksFrom(M, from, to)
           Good(i) == i <= MaxHops => W[i] \subseteq X[i]
           G == {i \in Nat : Good(i)}
<1>1. W = [i \in 0 .. MaxHops |-> IF i = 0 THEN {[hosts |-> <<from>>, via |-> <<>>]}
                                  ELSE Longer(L, from, to, W[i - 1])]
  BY WalksStep
<1>2. X = [i \in 0 .. MaxHops |-> IF i = 0 THEN {[hosts |-> <<from>>, via |-> <<>>]}
                                  ELSE Longer(M, from, to, X[i - 1])]
  BY WalksStep
<1>3. \A i \in 0 .. MaxHops : \A w \in W[i] : WalkOf(L, w, i)
  BY WalksAt
<1> HIDE DEF W, X
<1>4. 0 \in G
  BY <1>1, <1>2, TopologyAssumption
<1>5. ASSUME NEW i \in Nat, i \in G PROVE i + 1 \in G
  <2>1. CASE i + 1 <= MaxHops
    <3>1. W[i] \subseteq X[i] /\ i \in 0 .. MaxHops
      BY <1>5, <2>1, TopologyAssumption
    <3>2. i + 1 \in 0 .. MaxHops /\ i + 1 # 0 /\ (i + 1) - 1 = i
      BY <2>1, TopologyAssumption
    <3>3. W[i + 1] = Longer(L, from, to, W[i]) /\ X[i + 1] = Longer(M, from, to, X[i])
      BY <1>1, <1>2, <3>2
    <3>4. \A w \in W[i] : WalkOf(L, w, i)
      BY <1>3, <3>1
    <3>5. Longer(L, from, to, W[i]) \subseteq Longer(M, from, to, X[i])
      BY <3>1, <3>4, LongerCloses
    <3> QED
      BY <3>3, <3>5
  <2> QED
    BY <2>1
<1> HIDE DEF G
<1>6. Nat \subseteq G
  BY <1>4, <1>5, Inductive
<1>7. k \in G /\ k <= MaxHops
  BY <1>6, TopologyAssumption
<1> QED
  BY <1>7 DEF G, W, X

-----------------------------------------------------------------------------
(* Paths and verdicts.                                                        *)

\* The verdicts where a walk changes between subnets, and the rules of its ends.
Crossings(L, w) ==
    {sessionVerdict(L, w.via[i], w.via[i + 1]) : i \in {j \in 1 .. (Len(w.via) - 1) : w.via[j] # w.via[j + 1]}}
EndsAllow(L, w) ==
    LET n == Len(w.via)   a == Head(w.hosts)   b == Last(w.hosts)
    IN  /\ outboundAllowed(L, a, w.via[n], b) /\ inboundAllowed(L, b, a, w.via[1], w.via[n])
        /\ outboundAllowed(L, b, w.via[1], a) /\ replyAllowed(L, a, b, w.via[n], w.via[1])

LEMMA PathIs ==
    ASSUME NEW L, NEW w
    PROVE  finalizePath(L, w) = IF Blocked \in Crossings(L, w) \/ (Len(w.via) >= 2 /\ ~EndsAllow(L, w)) THEN Blocked
                                ELSE IF Probable \in Crossings(L, w) THEN Probable ELSE Reachable
BY DEF finalizePath, Crossings, EndsAllow

LEMMA PathIsOne ==
    ASSUME NEW L, NEW w
    PROVE  finalizePath(L, w) \in {0, 1, 2}
BY PathIs DEF Blocked, Probable, Reachable

LEMMA EndsClose ==
    ASSUME NEW L, NEW M, OrderedGraph(L), OrderedGraph(M), Stricter(L, M),
           NEW w, w.hosts \in Seq(NetHosts), w.hosts # <<>>, EndsAllow(L, w)
    PROVE  EndsAllow(M, w)
<1> DEFINE n == Len(w.via)   a == Head(w.hosts)   b == Last(w.hosts)
<1>1. a \in NetHosts /\ b \in NetHosts
  BY EndsOfList
<1>2. /\ outboundAllowed(L, a, w.via[n], b) /\ inboundAllowed(L, b, a, w.via[1], w.via[n])
      /\ outboundAllowed(L, b, w.via[1], a) /\ replyAllowed(L, a, b, w.via[n], w.via[1])
  BY DEF EndsAllow
<1>3. EndsAllow(M, w) <=>
          /\ outboundAllowed(M, a, w.via[n], b) /\ inboundAllowed(M, b, a, w.via[1], w.via[n])
          /\ outboundAllowed(M, b, w.via[1], a) /\ replyAllowed(M, a, b, w.via[n], w.via[1])
  BY DEF EndsAllow
<1> HIDE DEF n, a, b
<1>4. outboundAllowed(M, a, w.via[n], b) /\ outboundAllowed(M, b, w.via[1], a)
  BY <1>1, <1>2, OutboundCloses
<1>5. inboundAllowed(M, b, a, w.via[1], w.via[n]) /\ replyAllowed(M, a, b, w.via[n], w.via[1])
  BY <1>1, <1>2, InboundCloses, ReplyCloses
<1> QED
  BY <1>3, <1>4, <1>5

\* Of two such sets of verdicts the closer one is blocked where the other is, and no surer.
LEMMA CrossingsClose ==
    ASSUME NEW L, NEW M, OrderedGraph(L), OrderedGraph(M), Stricter(L, M), NEW w
    PROVE  /\ Blocked \in Crossings(M, w) => Blocked \in Crossings(L, w)
           /\ Probable \in Crossings(M, w) => Blocked \in Crossings(L, w) \/ Probable \in Crossings(L, w)
<1> DEFINE P == {j \in 1 .. (Len(w.via) - 1) : w.via[j] # w.via[j + 1]}
           x(i) == sessionVerdict(L, w.via[i], w.via[i + 1])
           y(i) == sessionVerdict(M, w.via[i], w.via[i + 1])
<1>1. Crossings(L, w) = {x(i) : i \in P} /\ Crossings(M, w) = {y(i) : i \in P}
  BY DEF Crossings
<1>2. \A i \in P : x(i) \in {0, 1, 2} /\ y(i) \in {0, 1, 2} /\ x(i) <= y(i)
  BY SessionCloses
<1> HIDE DEF P, x, y
<1>3. ASSUME Blocked \in Crossings(M, w) PROVE Blocked \in Crossings(L, w)
  <2>1. PICK i \in P : y(i) = 0
    BY <1>1, <1>3 DEF Blocked
  <2>2. x(i) = 0
    BY <1>2, <2>1
  <2> QED
    BY <1>1, <2>2 DEF Blocked
<1>4. ASSUME Probable \in Crossings(M, w) PROVE Blocked \in Crossings(L, w) \/ Probable \in Crossings(L, w)
  <2>1. PICK i \in P : y(i) = 1
    BY <1>1, <1>4 DEF Probable
  <2>2. x(i) = 0 \/ x(i) = 1
    BY <1>2, <2>1
  <2> QED
    BY <1>1, <2>2 DEF Blocked, Probable
<1> QED
  BY <1>3, <1>4

LEMMA PathCloses ==
    ASSUME NEW L, NEW M, OrderedGraph(L), OrderedGraph(M), Stricter(L, M),
           NEW w, w.hosts \in Seq(NetHosts), w.hosts # <<>>
    PROVE  finalizePath(L, w) <= finalizePath(M, w)
<1>1. EndsAllow(L, w) => EndsAllow(M, w)
  BY EndsClose
<1>2. /\ Blocked \in Crossings(M, w) => Blocked \in Crossings(L, w)
      /\ Probable \in Crossings(M, w) => Blocked \in Crossings(L, w) \/ Probable \in Crossings(L, w)
  BY CrossingsClose
<1> DEFINE shut(K) == Blocked \in Crossings(K, w) \/ (Len(w.via) >= 2 /\ ~EndsAllow(K, w))
<1>3. shut(M) => shut(L)
  BY <1>1, <1>2
<1>4. /\ finalizePath(L, w) = IF shut(L) THEN 0 ELSE IF Probable \in Crossings(L, w) THEN 1 ELSE 2
      /\ finalizePath(M, w) = IF shut(M) THEN 0 ELSE IF Probable \in Crossings(M, w) THEN 1 ELSE 2
  BY PathIs DEF Blocked, Probable, Reachable
<1>5. ~shut(L) => Blocked \notin Crossings(L, w)
  OBVIOUS
<1> HIDE DEF shut
<1> QED
  BY <1>2, <1>3, <1>4, <1>5

\* What HostReachable found.
Found(L, from, to) == {finalizePath(L, w) : w \in walks(L, from, to)}

LEMMA WalksMade ==
    ASSUME NEW L, NEW from \in NetHosts, NEW to, NEW w \in walks(L, from, to)
    PROVE  w.hosts \in Seq(NetHosts) /\ w.hosts # <<>> /\ L.facts[to] # Unseen
<1>1. w \in UNION {WalksFrom(L, from, to)[k] : k \in 1 .. MaxHops} /\ Last(w.hosts) = to
  BY WalksAre
<1>2. PICK k \in 1 .. MaxHops : w \in WalksFrom(L, from, to)[k]
  BY <1>1
<1>3. k \in 0 .. MaxHops /\ k # 0
  BY TopologyAssumption
<1>4. WalkOf(L, w, k)
  BY <1>2, <1>3, WalksAt
<1> QED
  BY <1>1, <1>3, <1>4 DEF WalkOf

LEMMA FoundCloses ==
    ASSUME NEW L, NEW M, OrderedGraph(L), OrderedGraph(M), Stricter(L, M),
           NEW from \in NetHosts, NEW to, NEW v \in Found(L, from, to)
    PROVE  v \in {0, 1, 2} /\ \E u \in Found(M, from, to) : u \in {0, 1, 2} /\ v <= u
<1>1. PICK w \in walks(L, from, to) : v = finalizePath(L, w)
  BY DEF Found
<1>2. w \in UNION {WalksFrom(L, from, to)[k] : k \in 1 .. MaxHops} /\ Last(w.hosts) = to
  BY WalksAre
<1>3. PICK k \in 1 .. MaxHops : w \in WalksFrom(L, from, to)[k]
  BY <1>2
<1>4. k \in 0 .. MaxHops
  BY TopologyAssumption
<1>5. w \in WalksFrom(M, from, to)[k]
  BY <1>3, <1>4, WalksClose
<1>6. w \in walks(M, from, to)
  <2>1. w \in UNION {WalksFrom(M, from, to)[i] : i \in 1 .. MaxHops}
    BY <1>5
  <2> QED
    BY <1>2, <2>1, WalksAre
<1>7. finalizePath(L, w) <= finalizePath(M, w)
  BY WalksMade, PathCloses
<1>8. finalizePath(M, w) \in Found(M, from, to)
  BY <1>6 DEF Found
<1> QED
  BY <1>1, <1>7, <1>8, PathIsOne

LEMMA ReachCloses ==
    ASSUME NEW L, NEW M, OrderedGraph(L), OrderedGraph(M), Stricter(L, M),
           NEW from \in NetHosts, NEW to \in NetHosts
    PROVE  CheckReachability(L, from, to) <= CheckReachability(M, from, to)
<1> DEFINE F == Found(L, from, to)   H == Found(M, from, to)
<1>1. L.facts[from] = Unseen <=> M.facts[from] = Unseen
  BY SamePlaces
<1>2. L.facts[to] = Unseen <=> M.facts[to] = Unseen
  BY SamePlaces
<1>3. \A v \in F : v \in {0, 1, 2} /\ \E u \in H : u \in {0, 1, 2} /\ v <= u
  BY FoundCloses
<1>4. H # {} => M.facts[to] # Unseen
  BY WalksMade DEF Found
<1>5. /\ HostReachable(L, from, to) = IF L.facts[from] = Unseen THEN {1}
                                     ELSE IF F # {} THEN F ELSE IF L.facts[to] = Unseen THEN {1} ELSE {0}
      /\ HostReachable(M, from, to) = IF M.facts[from] = Unseen THEN {1}
                                     ELSE IF H # {} THEN H ELSE IF M.facts[to] = Unseen THEN {1} ELSE {0}
  BY DEF HostReachable, Found, Probable, Blocked
<1> HIDE DEF F, H
<1> DEFINE S == HostReachable(L, from, to)   T == HostReachable(M, from, to)
<1>6. 2 \in S => 2 \in T
  <2> SUFFICES ASSUME 2 \in S PROVE 2 \in T
    OBVIOUS
  <2>1. L.facts[from] # Unseen /\ 2 \in F
    BY <1>5
  <2>2. PICK u \in H : u \in {0, 1, 2} /\ 2 <= u
    BY <1>3, <2>1
  <2>3. u = 2
    BY <2>2
  <2> QED
    BY <1>1, <1>5, <2>1, <2>2, <2>3
<1>7. 1 \in S => 1 \in T \/ 2 \in T
  <2> SUFFICES ASSUME 1 \in S PROVE 1 \in T \/ 2 \in T
    OBVIOUS
  <2>1. CASE L.facts[from] = Unseen
    BY <1>1, <1>5, <2>1
  <2>2. CASE L.facts[from] # Unseen /\ F = {}
    <3>1. L.facts[to] = Unseen
      BY <1>5, <2>2
    <3> QED
      BY <1>1, <1>2, <1>4, <1>5, <2>2, <3>1
  <2>3. CASE L.facts[from] # Unseen /\ F # {}
    <3>1. 1 \in F
      BY <1>5, <2>3
    <3>2. PICK u \in H : u \in {0, 1, 2} /\ 1 <= u
      BY <1>3, <3>1
    <3>3. u = 1 \/ u = 2
      BY <3>2
    <3> QED
      BY <1>1, <1>5, <2>3, <3>2, <3>3
  <2> QED
    BY <2>1, <2>2, <2>3
<1>8. /\ CheckReachability(L, from, to) = IF 2 \in S THEN 2 ELSE IF 1 \in S THEN 1 ELSE 0
      /\ CheckReachability(M, from, to) = IF 2 \in T THEN 2 ELSE IF 1 \in T THEN 1 ELSE 0
  BY DEF CheckReachability, Summary, Reachable, Probable, Blocked
<1> HIDE DEF S, T
<1> QED
  BY <1>6, <1>7, <1>8

-----------------------------------------------------------------------------
(* The rules of a graph are lists, since those of the facts are.              *)

LEMMA ListIsListed ==
    ASSUME NEW D, NEW q \in Seq(D)
    PROVE  Listed(q)
<1>1. \A i \in 1 .. Len(q) : q[i] \in Range(q)
  BY DEF Range
<1>2. q = [i \in 1 .. Len(q) |-> q[i]] /\ Len(q) \in Nat
  OBVIOUS
<1> QED
  BY <1>1, <1>2 DEF Listed

\* Lists put end to end.
Flattened(seqs) ==
    CHOOSE flatten : flatten = [i \in 1 .. Len(seqs) |-> IF i = 1 THEN seqs[i] ELSE flatten[i - 1] \o seqs[i]]

LEMMA FlattenStep ==
    ASSUME NEW seqs, Len(seqs) \in Nat, Len(seqs) # 0
    PROVE  Flattened(seqs) = [i \in 1 .. Len(seqs) |-> IF i = 1 THEN seqs[i] ELSE Flattened(seqs)[i - 1] \o seqs[i]]
<1> DEFINE Is(f, m) == f = [i \in 1 .. m |-> IF i = 1 THEN seqs[i] ELSE f[i - 1] \o seqs[i]]
           G == {m \in Nat : \E f : Is(f, m)}
<1>1. 0 \in G
  <2>1. Is([i \in 1 .. 0 |-> i], 0)
    OBVIOUS
  <2> QED
    BY <2>1
<1>2. ASSUME NEW m \in Nat, m \in G PROVE m + 1 \in G
  <2>1. PICK f : Is(f, m)
    BY <1>2
  <2> DEFINE new == IF m + 1 = 1 THEN seqs[m + 1] ELSE f[m] \o seqs[m + 1]
  <2> HIDE DEF new
  <2> DEFINE g == [i \in 1 .. m + 1 |-> IF i = m + 1 THEN new ELSE f[i]]
  <2>2. g[m + 1] = new /\ \A i \in 1 .. m : g[i] = f[i]
    OBVIOUS
  <2>3. \A i \in 1 .. m + 1 : g[i] = IF i = 1 THEN seqs[i] ELSE g[i - 1] \o seqs[i]
    <3> SUFFICES ASSUME NEW i \in 1 .. m + 1
                 PROVE  g[i] = IF i = 1 THEN seqs[i] ELSE g[i - 1] \o seqs[i]
      OBVIOUS
    <3> HIDE DEF g
    <3>1. CASE i = m + 1
      <4>1. i # 1 => g[i - 1] = f[m]
        BY <2>2, <3>1
      <4> QED
        BY <2>2, <3>1, <4>1 DEF new
    <3>2. CASE i # m + 1
      <4>1. i \in 1 .. m
        BY <3>2
      <4>2. f[i] = IF i = 1 THEN seqs[i] ELSE f[i - 1] \o seqs[i]
        BY <2>1, <4>1
      <4>3. i # 1 => g[i - 1] = f[i - 1]
        BY <2>2, <4>1
      <4> QED
        BY <2>2, <4>1, <4>2, <4>3
    <3> QED
      BY <3>1, <3>2
  <2>4. Is(g, m + 1)
    <3>1. g = [i \in 1 .. m + 1 |-> g[i]]
      OBVIOUS
    <3> HIDE DEF g
    <3> QED
      BY <2>3, <3>1
  <2> HIDE DEF g, Is
  <2> QED
    BY <2>4
<1>3. Len(seqs) \in G
  <2> HIDE DEF G
  <2>1. Nat \subseteq G
    BY <1>1, <1>2, Inductive
  <2> QED
    BY <2>1
<1>4. \E f : Is(f, Len(seqs))
  BY <1>3
<1>5. Flattened(seqs) = CHOOSE f : Is(f, Len(seqs))
  BY DEF Flattened
<1>6. Is(Flattened(seqs), Len(seqs))
  <2> HIDE DEF Is
  <2> QED
    BY <1>4, <1>5
<1> QED
  BY <1>6

LEMMA FlattenList ==
    ASSUME NEW D, NEW seqs \in Seq(Seq(D)), Len(seqs) # 0
    PROVE  FlattenSeq(seqs) \in Seq(D)
<1> DEFINE f == Flattened(seqs)
           Good(i) == i \in 1 .. Len(seqs) => f[i] \in Seq(D)
           G == {i \in Nat : Good(i)}
<1>1. f = [i \in 1 .. Len(seqs) |-> IF i = 1 THEN seqs[i] ELSE f[i - 1] \o seqs[i]]
  <2>1. Len(seqs) \in Nat
    OBVIOUS
  <2> QED
    BY <2>1, FlattenStep
<1>2. FlattenSeq(seqs) = f[Len(seqs)]
  BY DEF FlattenSeq, Flattened
<1> HIDE DEF f
<1>3. 0 \in G
  OBVIOUS
<1>4. ASSUME NEW i \in Nat, i \in G PROVE i + 1 \in G
  <2>1. CASE i + 1 \in 1 .. Len(seqs)
    <3>1. seqs[i + 1] \in Seq(D)
      BY <2>1
    <3>2. CASE i = 0
      <4>1. f[i + 1] = seqs[i + 1]
        BY <1>1, <2>1, <3>2
      <4>2. Good(i + 1)
        BY <3>1, <4>1
      <4> QED
        BY <4>2
    <3>3. CASE i # 0
      <4>1. i \in 1 .. Len(seqs) /\ (i + 1) - 1 = i /\ i + 1 # 1
        BY <2>1, <3>3
      <4>2. f[i + 1] = f[i] \o seqs[i + 1]
        BY <1>1, <2>1, <4>1
      <4>3. f[i] \in Seq(D)
        BY <1>4, <4>1
      <4>4. f[i] \o seqs[i + 1] \in Seq(D)
        BY <3>1, <4>3
      <4>5. Good(i + 1)
        BY <4>2, <4>4
      <4> QED
        BY <4>5
    <3> QED
      BY <3>2, <3>3
  <2> QED
    BY <2>1
<1> HIDE DEF G
<1>5. Nat \subseteq G
  BY <1>3, <1>4, Inductive
<1>6. Len(seqs) \in G
  BY <1>5
<1> QED
  BY <1>2, <1>6 DEF G

\* The forward rules of a host are a list, and so are those of all hosts.
LEMMA ForwardsListed ==
    ASSUME NEW q, Listed(q)
    PROVE  forwards(q) \in Seq(Range(forwards(q)))
<1> DEFINE spots == {i \in DOMAIN q : q[i].dir \notin {"inbound", "outbound"}}
           spot(n) == CHOOSE i \in spots : Cardinality({j \in spots : j <= i}) = n
<1>1. forwards(q) = [n \in 1 .. Cardinality(spots) |-> q[spot(n)]]
  BY DEF forwards
<1>2. IsFiniteSet(spots) /\ Cardinality(spots) \in Nat
  <2>1. DOMAIN q = 1 .. Len(q) /\ Len(q) \in Nat
    BY ListedFrom
  <2>2. IsFiniteSet(1 .. Len(q))
    BY <2>1, FS_Interval
  <2>3. spots \subseteq 1 .. Len(q)
    BY <2>1
  <2> QED
    BY <2>2, <2>3, FS_Subset, FS_CardinalityType
<1> DEFINE r == forwards(q)
<1> HIDE DEF spot, spots, r
<1>3. r = [n \in 1 .. Cardinality(spots) |-> r[n]]
  BY <1>1 DEF r
<1>4. \A n \in 1 .. Cardinality(spots) : r[n] \in Range(r)
  BY <1>3 DEF Range
<1>5. r \in Seq(Range(r))
  BY <1>2, <1>3, <1>4
<1> QED
  BY <1>5 DEF r

LEMMA RulesListed ==
    ASSUME NEW reg, \A h \in NetHosts : Ordered(reg[h]), NEW n \in Nat, NEW order \in [1 .. n -> seen(reg)], order # <<>>
    PROVE  OrderedGraph(graphOf(reg, order))
<1> DEFINE seqs == [i \in 1 .. n |-> forwards(reg[order[i]].policies)]
           D == UNION {Range(forwards(reg[order[i]].policies)) : i \in 1 .. n}
           L == graphOf(reg, order)
<1>1. n # 0
  OBVIOUS
<1>2. \A i \in 1 .. n : seqs[i] \in Seq(D)
  <2> SUFFICES ASSUME NEW i \in 1 .. n PROVE seqs[i] \in Seq(D)
    OBVIOUS
  <2>1. Ordered(reg[order[i]]) /\ reg[order[i]] # Unseen
    BY DEF seen
  <2> DEFINE q == reg[order[i]].policies
  <2>2. Listed(q)
    BY <2>1 DEF Ordered
  <2>3. forwards(q) \in Seq(Range(forwards(q))) /\ Range(forwards(q)) \subseteq D
    BY <2>2, ForwardsListed
  <2>4. seqs[i] = forwards(q)
    OBVIOUS
  <2> HIDE DEF D, seqs, q
  <2> QED
    BY <2>3, <2>4
<1>3. L = [facts |-> reg, known |-> \E h \in seen(reg) : reg[h].known, rules |-> FlattenSeq(seqs)]
  BY DEF graphOf
<1> HIDE DEF D, L
<1>4. seqs \in Seq(Seq(D)) /\ Len(seqs) # 0
  <2>1. seqs = [i \in 1 .. n |-> seqs[i]]
    OBVIOUS
  <2> HIDE DEF seqs
  <2> QED
    BY <1>1, <1>2, <2>1
<1> HIDE DEF seqs
<1>5. Listed(FlattenSeq(seqs))
  BY <1>4, FlattenList, ListIsListed
<1>6. L.rules = FlattenSeq(seqs) /\ L.facts = reg
  BY <1>3
<1> QED
  BY <1>5, <1>6 DEF OrderedGraph, L

\* Every list of rules that is kept, in hand or in a graph is one.
Tidy(w) ==
    /\ w.pc \in {"node", "edges", "fire", "rebuild", "remove", "inject", "facts"} => Listed(w.facts.policies)
    /\ w.pc = "inject" => (w.graph # NoGraph => OrderedGraph(w.graph))
RulesInv ==
    /\ \A h \in NetHosts : Ordered(registry[h])
    /\ \A g \in NetGoroutines : Tidy(handling[g])
    /\ layered # NoGraph => OrderedGraph(layered)

LEMMA HandsTidy ==
    ASSUME NetInv, RulesInv, NEW g \in NetGoroutines, NEW w, Tidy(w), Do(g, w)
    PROVE  \A k \in NetGoroutines : Tidy(handling'[k])
BY DEF NetInv, RulesInv, Do

LEMMA NotTidied == ASSUME NEW w, w.pc \in {"idle", "score"} PROVE Tidy(w)
BY DEF Tidy

LEMMA MovedOrdered ==
    ASSUME NEW f, KnownFacts(f), Listed(f.policies), NEW s, NEW z
    PROVE  Ordered([f EXCEPT !.subnets = s, !.zone = z])
<1>1. "policies" \in DOMAIN f
  BY DEF KnownFacts, HostFacts
<1>2. [f EXCEPT !.subnets = s, !.zone = z].policies = f.policies
  BY <1>1
<1> QED
  BY <1>2 DEF Ordered

LEMMA BlankOrdered == ASSUME NEW f PROVE Ordered(blank(f))
<1>1. blank(f).policies = <<>>
  BY DEF blank
<1>2. <<>> \in Seq({})
  OBVIOUS
<1> QED
  BY <1>1, <1>2, ListIsListed DEF Ordered

LEMMA RegistryOrdered ==
    ASSUME KnownRegistry(registry), \A k \in NetHosts : Ordered(registry[k]),
           NEW h, NEW f, Ordered(f), registry' = [registry EXCEPT ![h] = f]
    PROVE  \A k \in NetHosts : Ordered(registry'[k])
BY DEF KnownRegistry

LEMMA RecordTidy ==
    ASSUME NetInv, RulesInv, NEW g \in NetGoroutines, NEW h \in NetHosts, NEW f \in NetReports[h], record(g, h, f)
    PROVE  RulesInv'
<1>1. Listed(f.policies)
  BY TopologyAssumption
<1> DEFINE w == [pc |-> "node", host |-> h, facts |-> f, gone |-> FALSE]
<1>2. Tidy(w)
  BY <1>1 DEF Tidy
<1>3. Do(g, w)
  BY DEF record
<1> HIDE DEF w
<1>4. \A k \in NetGoroutines : Tidy(handling'[k])
  BY <1>2, <1>3, HandsTidy
<1> DEFINE n == IF registry[h] = Unseen THEN blank(f) ELSE moved(registry[h], f)
<1>5. Ordered(n)
  <2>1. registry[h] # Unseen => KnownFacts(registry[h]) /\ Listed(registry[h].policies)
    BY DEF NetInv, KnownRegistry, RulesInv, Ordered
  <2>2. registry[h] # Unseen => Ordered(moved(registry[h], f))
    BY <2>1, MovedOrdered DEF moved
  <2> QED
    BY <2>2, BlankOrdered
<1>6. registry' = [registry EXCEPT ![h] = n] /\ layered' = layered
  BY DEF record
<1> HIDE DEF n
<1>7. \A k \in NetHosts : Ordered(registry'[k])
  BY <1>5, <1>6, RegistryOrdered DEF NetInv, RulesInv
<1> QED
  BY <1>4, <1>6, <1>7 DEF RulesInv

LEMMA DeleteTidy ==
    ASSUME NetInv, RulesInv, NEW g \in NetGoroutines, NEW h \in NetHosts, delete(g, h)
    PROVE  RulesInv'
<1>1. Listed(registry[h].policies)
  BY DEF RulesInv, Ordered, delete
<1> DEFINE w == [pc |-> "remove", host |-> h, facts |-> registry[h], gone |-> TRUE]
<1>2. Tidy(w)
  BY <1>1 DEF Tidy
<1>3. Do(g, w)
  BY DEF delete
<1> HIDE DEF w
<1>4. \A k \in NetGoroutines : Tidy(handling'[k])
  BY <1>2, <1>3, HandsTidy
<1>5. registry' = [registry EXCEPT ![h] = Unseen] /\ layered' = layered
  BY DEF delete
<1>6. \A k \in NetHosts : Ordered(registry'[k])
  <2>1. Ordered(Unseen)
    BY DEF Ordered
  <2> QED
    BY <1>5, <2>1, RegistryOrdered DEF NetInv, RulesInv
<1> QED
  BY <1>4, <1>5, <1>6 DEF RulesInv

\* The steps that leave the registry and the graph as they are and hand on what they have.
LEMMA ThenTidy ==
    ASSUME NetInv, RulesInv, NEW g \in NetGoroutines,
           NEW pc \in {"node", "edges", "fire", "rebuild", "remove"}, Then(g, pc),
           handling[g].pc \in {"node", "edges", "fire", "rebuild", "remove"},
           registry' = registry, layered' = layered
    PROVE  RulesInv'
<1>1. Told(handling[g]) /\ Listed(handling[g].facts.policies)
  BY DEF NetInv, InHand, RulesInv, Tidy
<1> DEFINE v == handling[g]
           w == [v EXCEPT !.pc = pc]
<1>2. w = [pc |-> pc, host |-> v.host, facts |-> v.facts, gone |-> v.gone]
  BY <1>1 DEF Told
<1>3. Do(g, w)
  BY DEF Then
<1> HIDE DEF w, v
<1>4. Tidy(w)
  BY <1>1, <1>2 DEF Tidy, v
<1>5. \A k \in NetGoroutines : Tidy(handling'[k])
  BY <1>3, <1>4, HandsTidy
<1> QED
  BY <1>5 DEF RulesInv

LEMMA BuildTidy == ASSUME NetInv, RulesInv, NEW g \in NetGoroutines, BuildLayeredFromRegistry(g) PROVE RulesInv'
<1> DEFINE v == handling[g]
<1>1. Listed(v.facts.policies)
  BY DEF RulesInv, Tidy, BuildLayeredFromRegistry, Doing
<1>2. PICK order \in SetToSeqs(seen(registry)) :
         Do(g, [pc |-> "inject", host |-> v.host, facts |-> v.facts, gone |-> v.gone, graph |-> graphOf(registry, order)])
  BY DEF BuildLayeredFromRegistry
<1> DEFINE G == graphOf(registry, order)
           w == [pc |-> "inject", host |-> v.host, facts |-> v.facts, gone |-> v.gone, graph |-> G]
<1>3. G # NoGraph => OrderedGraph(G)
  <2>1. IsFiniteSet(seen(registry)) /\ Cardinality(seen(registry)) \in Nat
    BY TopologyAssumption, FS_Subset, FS_CardinalityType DEF seen
  <2>2. order \in [1 .. Cardinality(seen(registry)) -> seen(registry)]
    BY DEF SetToSeqs
  <2>3. \A h \in NetHosts : Ordered(registry[h])
    BY DEF RulesInv
  <2>4. G # NoGraph => order # <<>>
    BY DEF graphOf
  <2> QED
    BY <2>1, <2>2, <2>3, <2>4, RulesListed
<1> HIDE DEF G
<1>4. w.pc = "inject" /\ w.facts = v.facts /\ w.graph = G
  OBVIOUS
<1>5. Do(g, w)
  BY <1>2 DEF G
<1> HIDE DEF w, v
<1>6. Tidy(w)
  BY <1>1, <1>3, <1>4 DEF Tidy
<1>7. \A k \in NetGoroutines : Tidy(handling'[k])
  BY <1>5, <1>6, HandsTidy
<1> QED
  BY <1>7 DEF RulesInv, BuildLayeredFromRegistry

LEMMA SetLayeredTidy == ASSUME NetInv, RulesInv, NEW g \in NetGoroutines, SetLayeredGraph(g) PROVE RulesInv'
<1> DEFINE v == handling[g]
           w == [pc |-> "facts", host |-> v.host, facts |-> v.facts]
<1>1. Listed(v.facts.policies) /\ (v.graph # NoGraph => OrderedGraph(v.graph))
  BY DEF RulesInv, Tidy, SetLayeredGraph, Doing
<1>2. w.pc = "facts" /\ w.facts = v.facts
  OBVIOUS
<1>3. Do(g, w) \/ Do(g, Idle0)
  BY DEF SetLayeredGraph
<1>4. layered' = v.graph /\ registry' = registry
  BY DEF SetLayeredGraph
<1> HIDE DEF w, v
<1>5. Tidy(w)
  BY <1>1, <1>2 DEF Tidy
<1>6. Tidy(Idle0)
  BY NotTidied DEF Idle0
<1>7. \A k \in NetGoroutines : Tidy(handling'[k])
  BY <1>3, <1>5, <1>6, HandsTidy
<1> QED
  BY <1>1, <1>4, <1>7 DEF RulesInv

LEMMA FactsTidy == ASSUME NetInv, RulesInv, NEW g \in NetGoroutines, recordNetworkFacts(g) PROVE RulesInv'
<1> DEFINE h == handling[g].host
           f == handling[g].facts
           n == IF registry[h] = Unseen THEN registry[h]
                ELSE [f EXCEPT !.subnets = registry[h].subnets, !.zone = registry[h].zone]
<1>1. KnownFacts(f) /\ Listed(f.policies)
  BY DEF NetInv, InHand, recordNetworkFacts, Doing, Late, RulesInv, Tidy
<1>2. registry' = [registry EXCEPT ![h] = n] /\ layered' = layered
  BY DEF recordNetworkFacts
<1>3. Ordered(n)
  <2> HIDE DEF f, h
  <2>1. Ordered([f EXCEPT !.subnets = registry[h].subnets, !.zone = registry[h].zone])
    BY <1>1, MovedOrdered
  <2> QED
    BY <2>1 DEF Ordered
<1> HIDE DEF n, h, f
<1>4. \A k \in NetHosts : Ordered(registry'[k])
  BY <1>2, <1>3, RegistryOrdered DEF NetInv, RulesInv
<1>5. \A k \in NetGoroutines : Tidy(handling'[k])
  BY NotTidied, HandsTidy DEF recordNetworkFacts, Idle0
<1> QED
  BY <1>2, <1>4, <1>5 DEF RulesInv

LEMMA ProcessTidy == ASSUME NetInv, RulesInv, NEW g \in NetGoroutines, NEW h, Process(g, h) PROVE RulesInv'
<1>1. Tidy([pc |-> "score", host |-> h, nodes |-> snapshots'])
  BY NotTidied
<1>2. Do(g, [pc |-> "score", host |-> h, nodes |-> snapshots'])
  BY DEF Process
<1>3. \A k \in NetGoroutines : Tidy(handling'[k])
  BY <1>1, <1>2, HandsTidy
<1> QED
  BY <1>3 DEF RulesInv, Process

LEMMA ScoredTidy == ASSUME NetInv, RulesInv, NEW g \in NetGoroutines, buildIncomingEdges(g) PROVE RulesInv'
<1>1. \A k \in NetGoroutines : Tidy(handling'[k])
  BY NotTidied, HandsTidy DEF buildIncomingEdges, Idle0
<1> QED
  BY <1>1 DEF RulesInv, buildIncomingEdges

LEMMA RulesInitGood == NetInit => RulesInv
<1> SUFFICES ASSUME NetInit PROVE RulesInv
  OBVIOUS
<1>1. \A h \in NetHosts : Ordered(registry[h])
  BY TopologyAssumption DEF NetInit, Ordered
<1>2. \A g \in NetGoroutines : Tidy(handling[g])
  BY NotTidied DEF NetInit, Idle0
<1>3. layered # NoGraph => OrderedGraph(layered)
  <2> DEFINE S == seen(registry)   order == SetToSeq(S)
  <2>1. IsFiniteSet(S) /\ Cardinality(S) \in Nat
    BY TopologyAssumption, FS_Subset, FS_CardinalityType DEF seen
  <2>2. layered = graphOf(registry, order)
    BY DEF NetInit
  <2>3. order \in [1 .. Cardinality(S) -> S]
    <3>1. PICK f : f \in Bijection(1 .. Cardinality(S), S)
      BY <2>1, FS_CardinalityType DEF ExistsBijection
    <3>2. f \in [1 .. Cardinality(S) -> S] /\ IsInjective(f)
      BY <3>1 DEF Bijection, Injection
    <3> QED
      BY <3>2 DEF SetToSeq
  <2>4. layered # NoGraph => order # <<>>
    BY <2>2 DEF graphOf
  <2> HIDE DEF order
  <2> QED
    BY <1>1, <2>1, <2>2, <2>3, <2>4, RulesListed
<1> QED
  BY <1>1, <1>2, <1>3 DEF RulesInv

LEMMA RulesStep == ASSUME NetInv, RulesInv, [NetNext]_netVars PROVE RulesInv'
<1>1. CASE UNCHANGED netVars
  BY <1>1 DEF netVars, RulesInv
<1>2. ASSUME NEW g \in NetGoroutines, NEW h \in NetHosts, NEW f \in NetReports[h], record(g, h, f) PROVE RulesInv'
  BY <1>2, RecordTidy
<1>3. ASSUME NEW g \in NetGoroutines, NEW h \in NetHosts, delete(g, h) \/ Process(g, h) PROVE RulesInv'
  BY <1>3, DeleteTidy, ProcessTidy
<1>4. ASSUME NEW g \in NetGoroutines, AddNode(g) \/ AddEdges(g) \/ RemoveNode(g) \/ SetTopology(g) PROVE RulesInv'
  BY <1>4, ThenTidy DEF AddNode, AddEdges, RemoveNode, SetTopology, Doing
<1>5. ASSUME NEW g \in NetGoroutines,
             BuildLayeredFromRegistry(g) \/ SetLayeredGraph(g) \/ recordNetworkFacts(g) \/ buildIncomingEdges(g)
      PROVE  RulesInv'
  BY <1>5, BuildTidy, SetLayeredTidy, FactsTidy, ScoredTidy
<1> QED
  BY <1>1, <1>2, <1>3, <1>4, <1>5 DEF NetNext

\* A graph that takes the place of another is the one a goroutine has in hand, or the same.
LEMMA Tightened ==
    ASSUME NetInv, RulesInv, [NetNext]_netVars
    PROVE  layered # NoGraph /\ layered' # NoGraph /\ layered' # layered
           /\ layered'.known = layered.known /\ denies(layered'.rules, layered.rules)
           /\ (\A h \in NetHosts : asStrict(layered'.facts[h], layered.facts[h]))
           => \A a, b \in NetHosts : a # b => CheckReachability(layered', a, b) <= CheckReachability(layered, a, b)
<1>1. RulesInv'
  BY RulesStep
<1> SUFFICES ASSUME layered # NoGraph, layered' # NoGraph, Stricter(layered', layered),
                    NEW a \in NetHosts, NEW b \in NetHosts
             PROVE  CheckReachability(layered', a, b) <= CheckReachability(layered, a, b)
  BY DEF Stricter
<1>2. OrderedGraph(layered) /\ OrderedGraph(layered')
  BY <1>1 DEF RulesInv
<1> QED
  BY <1>2, ReachCloses

\* A network that is closed further never opens, for any registry, reports and rules, in any order of the
\* heartbeats and of the graphs they build (TighteningNeverOpens, CheckReachability).
THEOREM TighteningStaysClosed == PlatformSpec => TighteningNeverOpens
<1> DEFINE I == NetInv /\ RulesInv
<1>1. PlatformInit => I
  BY NetInitGood, RulesInitGood DEF PlatformInit
<1>2. I /\ [PlatformNext]_platformVars => I'
  <2> SUFFICES ASSUME I, [PlatformNext]_platformVars PROVE I'
    OBVIOUS
  <2>1. [NetNext]_netVars
    BY NetworkStep
  <2> QED
    BY <2>1, NetStep, RulesStep
<1> DEFINE A == layered # NoGraph /\ layered' # NoGraph /\ layered' # layered
                /\ layered'.known = layered.known /\ denies(layered'.rules, layered.rules)
                /\ (\A h \in NetHosts : asStrict(layered'.facts[h], layered.facts[h]))
                => \A a, b \in NetHosts : a # b => CheckReachability(layered', a, b) <= CheckReachability(layered, a, b)
<1>3. I /\ [PlatformNext]_platformVars => [A]_netVars
  <2> SUFFICES ASSUME I, [PlatformNext]_platformVars PROVE [A]_netVars
    OBVIOUS
  <2>1. [NetNext]_netVars
    BY NetworkStep
  <2> QED
    BY <2>1, Tightened
<1>4. TighteningNeverOpens <=> [][A]_netVars
  BY DEF TighteningNeverOpens
<1> HIDE DEF I, A
<1> QED
  BY <1>1, <1>2, <1>3, <1>4, PTL DEF PlatformSpec

-----------------------------------------------------------------------------
(* The assessor.  While no two reloads overlap, each place holds the        *)
(* configuration of the reload that passed it last, so that between two     *)
(* reloads every place holds the one the module has.                        *)

ReloadPcs == {"idle", "engine", "weights", "factors", "accept", "model", "strategy", "adjust", "prism"}

\* No reload has a place in one of the sets before it.
Passed(pcs) == \A r \in Reloaders : reloads[r].pc \notin pcs
PlacesFollow ==
    /\ \A r \in reloading : reloads[r].v = moduleCfg /\ \A q \in reloading : q = r
    /\ Passed({"engine"}) => engineCfg = moduleCfg
    /\ Passed({"engine", "weights"}) => engWeights = moduleCfg
    /\ Passed({"engine", "weights", "factors"}) => engFactors = moduleCfg
    /\ Passed({"engine", "weights", "factors", "accept"}) => engAccept = moduleCfg
    /\ Passed({"engine", "weights", "factors", "accept", "model"}) => loadedModel = heldOf(moduleCfg)
    /\ Passed({"engine", "weights", "factors", "accept", "model", "strategy"}) => strategyHook = heldOf(moduleCfg)
    /\ Passed({"engine", "weights", "factors", "accept", "model", "strategy", "adjust"}) => adjustHook = heldOf(moduleCfg)
ReloadInv ==
    /\ reloads \in [Reloaders -> [pc : ReloadPcs, v : Versions]]
    /\ moduleCfg \in Versions /\ engineCfg \in Versions
    /\ ~tangled => PlacesFollow

Settled == reloading = {} /\ ~tangled

\* An evaluation that no reload ran into, under the configuration v, as far as it has come.
EvalFields == {"pc", "kind", "host", "failed", "threshold", "spc", "coeff", "score", "lower", "accept", "snap",
               "adjust", "stamp", "prism", "empty", "quiet"}
scored == {"stamp", "cti", "track", "prism", "store"}
stamped == {"cti", "track", "prism", "store"}
scoreUnder(x, v) == total(penalised(x.failed, baseScore(x.failed, v), v, heldOf(v), heldOf(v)), x.spc, x.coeff)
OneConfig(x, v) ==
    /\ x.snap.w = v /\ x.snap.f = v /\ x.snap.a = v
    /\ x.threshold = Configs[v].threshold
    /\ x.pc = "strategy" => x.adjust = heldOf(v)
    /\ x.pc \in scored => /\ x.kind = "report" => x.score = scoreUnder(x, v)
                          /\ x.accept => (Configs[v].byLower => x.lower >= x.threshold)
    /\ x.pc \in stamped => x.stamp = heldOf(v)
    /\ x.pc = "cti" => x.kind = "request"
GoodEval(x, v) ==
    /\ EvalFields \subseteq DOMAIN x
    /\ x.pc \in scored => (x.accept => x.score >= x.threshold)
    /\ x.quiet /\ ~x.empty => OneConfig(x, v)
    /\ x.empty => x.pc \in {"track", "prism", "store"}
EvalsGood ==
    /\ evals = [e \in Evaluators |-> evals[e]]
    /\ \A e \in Evaluators : evals[e].pc # "idle" => /\ GoodEval(evals[e], moduleCfg)
                                                     /\ evals[e].quiet => Settled

\* ResultsSound, of one result.
GoodResult(x) ==
    /\ x.accept => x.score >= x.threshold
    /\ x.quiet /\ ~x.empty =>
         /\ x.threshold = Configs[x.snap.w].threshold /\ x.stamp = heldOf(x.snap.w)
         /\ Configs[x.snap.w].byLower /\ x.accept => x.lower >= x.threshold
         /\ x.kind = "report" => x.score = scoreUnder(x, x.snap.w)
AssessInv ==
    /\ ReloadInv /\ EvalsGood
    /\ stored = [h \in HostNames |-> stored[h]]
    /\ \A h \in HostNames : stored[h] # NoResult => GoodResult(stored[h])

LEMMA AssessInitGood ==
    ASSUME AssessInit
    PROVE  AssessInv
<1>1. reloading = {}
  BY DEF AssessInit, reloading
<1>2. ReloadInv
  BY <1>1, AssessmentAssumption DEF AssessInit, ReloadInv, PlacesFollow, Passed, ReloadPcs, heldOf
<1>3. EvalsGood
  BY DEF AssessInit, EvalsGood, Idle
<1>4. stored = [h \in HostNames |-> stored[h]] /\ \A h \in HostNames : stored[h] = NoResult
  BY DEF AssessInit
<1> QED
  BY <1>2, <1>3, <1>4 DEF AssessInv

\* An evaluation that goes to y, while the reloads stand still.
LEMMA EvaluationMoves ==
    ASSUME EvalsGood, NEW e \in Evaluators, NEW y, Set(e, y), UNCHANGED <<moduleCfg, reloads, tangled>>,
           y.pc # "idle" => GoodEval(y, moduleCfg) /\ (y.quiet => Settled)
    PROVE  EvalsGood'
<1>1. Settled' = Settled
  BY DEF Settled, reloading
<1>2. evals' = [evals EXCEPT ![e] = y] /\ moduleCfg' = moduleCfg
  BY DEF Set
<1>3. evals' = [d \in Evaluators |-> evals'[d]] /\ evals'[e] = y /\ \A d \in Evaluators \ {e} : evals'[d] = evals[d]
  BY <1>2 DEF EvalsGood
<1> QED
  BY <1>1, <1>2, <1>3 DEF EvalsGood

LEMMA ReloadsStandStill ==
    ASSUME ReloadInv, UNCHANGED <<places, reloads, tangled>>
    PROVE  ReloadInv'
BY DEF ReloadInv, PlacesFollow, Passed, reloading, places, heldOf

\* What the module has once nothing is being reloaded is what every place holds.
LEMMA SettledPlaces ==
    ASSUME ReloadInv, Settled
    PROVE  /\ engineCfg = moduleCfg /\ engWeights = moduleCfg /\ engFactors = moduleCfg /\ engAccept = moduleCfg
           /\ loadedModel = heldOf(moduleCfg) /\ strategyHook = heldOf(moduleCfg) /\ adjustHook = heldOf(moduleCfg)
<1>1. \A r \in Reloaders : reloads[r].pc = "idle"
  BY DEF Settled, reloading
<1> QED
  BY <1>1 DEF ReloadInv, PlacesFollow, Passed, Settled

LEMMA BegunGood ==
    ASSUME NEW x, NEW v, GoodEval(x, v), x.pc \in {"context", "snapshot", "formula"}, NEW p, p \in {"snapshot", "formula"},
           NEW s, NEW c
    PROVE  GoodEval([x EXCEPT !.pc = p, !.spc = s, !.coeff = c], v)
BY DEF GoodEval, EvalFields, OneConfig, scored, stamped

LEMMA SnapshotGood ==
    ASSUME NEW x, NEW v, GoodEval(x, v), x.pc = "snapshot", NEW w, NEW f, NEW a, x.quiet => w = v /\ f = v /\ a = v
    PROVE  GoodEval([x EXCEPT !.pc = "formula", !.snap = [w |-> w, f |-> f, a |-> a]], v)
BY DEF GoodEval, EvalFields, OneConfig, scored, stamped

LEMMA AskedGood ==
    ASSUME NEW x, NEW v, GoodEval(x, v), x.pc = "formula", NEW k, x.quiet => k = heldOf(v)
    PROVE  GoodEval([x EXCEPT !.pc = "strategy", !.adjust = k], v)
BY DEF GoodEval, EvalFields, OneConfig, scored, stamped

LEMMA DecideSays ==
    ASSUME NEW s, NEW l, NEW t, NEW b, decide(s, l, t, b)
    PROVE  s >= t /\ (b => l >= t)
BY DEF decide

LEMMA ScoredGood ==
    ASSUME NEW x, NEW v, GoodEval(x, v), x.pc = "strategy", NEW s, NEW l, NEW t,
           t => s >= x.threshold,
           x.quiet /\ ~x.empty => /\ s = total(penalised(x.failed, baseScore(x.failed, v), v, heldOf(v), heldOf(v)), x.spc, x.coeff)
                                  /\ t => (Configs[v].byLower => l >= x.threshold)
    PROVE  GoodEval([x EXCEPT !.pc = "stamp", !.score = s, !.lower = l, !.accept = t], v)
BY DEF GoodEval, EvalFields, OneConfig, scored, stamped, scoreUnder

LEMMA StampedGood ==
    ASSUME NEW x, NEW v, GoodEval(x, v), x.pc = "stamp", NEW k, NEW p, p \in {"cti", "track"}, p = "cti" => x.kind = "request",
           x.quiet => k = heldOf(v)
    PROVE  GoodEval([x EXCEPT !.pc = p, !.stamp = k], v)
BY DEF GoodEval, EvalFields, OneConfig, scored, stamped, scoreUnder

LEMMA ScaledGood ==
    ASSUME NEW x, NEW v, GoodEval(x, v), x.pc = "cti", NEW s, NEW l, NEW c, NEW t,
           t => s >= x.threshold,
           x.quiet => (t => (Configs[v].byLower => l >= x.threshold))
    PROVE  GoodEval([x EXCEPT !.pc = "track", !.score = s, !.lower = l, !.coeff = c, !.accept = t], v)
BY DEF GoodEval, EvalFields, OneConfig, scored, stamped, scoreUnder

LEMMA FollowedGood ==
    ASSUME NEW x, NEW v, GoodEval(x, v), x.pc \in {"cti", "track", "prism"}, NEW p, p \in {"track", "prism", "store"}
    PROVE  GoodEval([x EXCEPT !.pc = p], v) /\ \A k : GoodEval([x EXCEPT !.pc = p, !.prism = k], v)
BY DEF GoodEval, EvalFields, OneConfig, scored, stamped, scoreUnder

\* A step of the evaluation e, which leaves the configuration alone.
LEMMA EvaluationSteps ==
    ASSUME AssessInv, NEW e \in Evaluators,
           \/ ApplySPCAndCTI(e) \/ ComputeScore(e) \/ AskAdjust(e)
           \/ AskStrategy(e) \/ Stamp(e) \/ ApplyCTIOnly(e)
           \/ UpdateFailTracker(e) \/ ApplyPrismToResult(e) \/ Store(e)
    PROVE  AssessInv'
<1> DEFINE x == evals[e]
<1>1. GoodEval(x, moduleCfg) /\ (x.quiet => Settled)
  BY DEF AssessInv, EvalsGood, ApplySPCAndCTI, ComputeScore, AskAdjust, AskStrategy, Stamp, ApplyCTIOnly,
         UpdateFailTracker, ApplyPrismToResult, Store
<1>2. UNCHANGED <<places, reloads, tangled>> /\ UNCHANGED <<moduleCfg, reloads, tangled>>
  BY DEF ApplySPCAndCTI, ComputeScore, AskAdjust, AskStrategy, Stamp, ApplyCTIOnly,
         UpdateFailTracker, ApplyPrismToResult, Store, unmoved, places
<1>3. ReloadInv' /\ ReloadInv /\ EvalsGood
  BY <1>2, ReloadsStandStill DEF AssessInv
<1>4. x.quiet => /\ engWeights = moduleCfg /\ engFactors = moduleCfg /\ engAccept = moduleCfg
                 /\ loadedModel = heldOf(moduleCfg) /\ strategyHook = heldOf(moduleCfg) /\ adjustHook = heldOf(moduleCfg)
  BY <1>1, <1>3, SettledPlaces
<1>5. EvalFields \subseteq DOMAIN x /\ (x.empty => x.pc \in {"track", "prism", "store"})
  BY <1>1 DEF GoodEval
<1>6. x.quiet /\ ~x.empty => OneConfig(x, moduleCfg)
  BY <1>1 DEF GoodEval
<1>7. ASSUME NEW y, Set(e, y), GoodEval(y, moduleCfg), y.quiet <=> x.quiet
      PROVE  EvalsGood'
  BY <1>1, <1>2, <1>3, <1>7, EvaluationMoves
<1>8. ASSUME UNCHANGED stored, EvalsGood'
      PROVE  AssessInv'
  BY <1>3, <1>8 DEF AssessInv
<1> HIDE DEF x
<1>9. CASE ApplySPCAndCTI(e)
  <2>1. PICK s, c : Set(e, [x EXCEPT !.pc = "snapshot", !.spc = s, !.coeff = c])
    BY <1>9 DEF ApplySPCAndCTI, x
  <2>2. x.pc = "context"
    BY <1>9 DEF ApplySPCAndCTI, x
  <2>3. GoodEval([x EXCEPT !.pc = "snapshot", !.spc = s, !.coeff = c], moduleCfg)
    BY <1>1, <2>2, BegunGood
  <2>4. [x EXCEPT !.pc = "snapshot", !.spc = s, !.coeff = c].quiet <=> x.quiet
    BY <1>5 DEF EvalFields
  <2>5. EvalsGood'
    BY <1>7, <2>1, <2>3, <2>4
  <2> QED
    BY <1>8, <1>9, <2>5 DEF ApplySPCAndCTI
<1>10. CASE ComputeScore(e)
  <2> DEFINE y == [x EXCEPT !.pc = "formula", !.snap = [w |-> engWeights, f |-> engFactors, a |-> engAccept]]
  <2>1. Set(e, y) /\ x.pc = "snapshot"
    BY <1>10 DEF ComputeScore, x
  <2>2. GoodEval(y, moduleCfg)
    BY <1>1, <1>4, <2>1, SnapshotGood
  <2>3. y.quiet <=> x.quiet
    BY <1>5 DEF EvalFields
  <2>4. EvalsGood'
    BY <1>7, <2>1, <2>2, <2>3
  <2> QED
    BY <1>8, <1>10, <2>4 DEF ComputeScore, untouched
<1>11. CASE AskAdjust(e)
  <2> DEFINE y == [x EXCEPT !.pc = "strategy", !.adjust = adjustHook]
  <2>1. Set(e, y) /\ x.pc = "formula"
    BY <1>11 DEF AskAdjust, x
  <2>2. GoodEval(y, moduleCfg)
    BY <1>1, <1>4, <2>1, AskedGood
  <2>3. y.quiet <=> x.quiet
    BY <1>5 DEF EvalFields
  <2>4. EvalsGood'
    BY <1>7, <2>1, <2>2, <2>3
  <2> QED
    BY <1>8, <1>11, <2>4 DEF AskAdjust, untouched
<1>12. CASE AskStrategy(e)
  <2> DEFINE base == penalised(x.failed, baseScore(x.failed, x.snap.w), x.snap.f, strategyHook, x.adjust)
             s == total(base, x.spc, x.coeff)
             l == lowerBound(s, x.failed)
             t == decide(s, l, x.threshold, Configs[x.snap.a].byLower)
             y == [x EXCEPT !.pc = "stamp", !.score = s, !.lower = l, !.accept = t]
  <2>1. Set(e, y) /\ x.pc = "strategy"
    BY <1>12 DEF AskStrategy, x
  <2>2. t => s >= x.threshold /\ (Configs[x.snap.a].byLower => l >= x.threshold)
    BY DecideSays
  <2>3. x.quiet /\ ~x.empty => s = scoreUnder(x, moduleCfg) /\ (t => (Configs[moduleCfg].byLower => l >= x.threshold))
    BY <1>4, <1>6, <2>1, <2>2 DEF OneConfig, scoreUnder
  <2> HIDE DEF t, l, s
  <2>4. GoodEval(y, moduleCfg)
    BY <1>1, <2>1, <2>2, <2>3, ScoredGood DEF scoreUnder
  <2>5. y.quiet <=> x.quiet
    BY <1>5 DEF EvalFields
  <2>6. EvalsGood'
    BY <1>7, <2>1, <2>4, <2>5
  <2> QED
    BY <1>8, <1>12, <2>6 DEF AskStrategy, untouched
<1>13. CASE Stamp(e)
  <2> DEFINE p == IF x.kind = "request" THEN "cti" ELSE "track"
             y == [x EXCEPT !.pc = p, !.stamp = loadedModel]
  <2>1. Set(e, y) /\ x.pc = "stamp"
    BY <1>13 DEF Stamp, x
  <2>2. p \in {"cti", "track"} /\ (p = "cti" => x.kind = "request")
    OBVIOUS
  <2> HIDE DEF p
  <2>3. GoodEval(y, moduleCfg)
    BY <1>1, <1>4, <2>1, <2>2, StampedGood
  <2>4. y.quiet <=> x.quiet
    BY <1>5 DEF EvalFields
  <2>5. EvalsGood'
    BY <1>7, <2>1, <2>3, <2>4
  <2> QED
    BY <1>8, <1>13, <2>5 DEF Stamp, untouched
<1>14. CASE ApplyCTIOnly(e)
  <2> DEFINE s == (x.score * ctiCoeff) \div x.coeff
             l == (x.lower * ctiCoeff) \div x.coeff
             t == decide(s, l, x.threshold, Configs[moduleCfg].byLower)
             y == [x EXCEPT !.pc = "track", !.score = s, !.lower = l, !.coeff = ctiCoeff, !.accept = t]
             z == [x EXCEPT !.pc = "track"]
  <2>1. (Set(e, y) \/ Set(e, z)) /\ x.pc = "cti"
    BY <1>14 DEF ApplyCTIOnly, x
  <2>2. t => s >= x.threshold /\ (Configs[moduleCfg].byLower => l >= x.threshold)
    BY DecideSays
  <2> HIDE DEF t, l, s
  <2>3. GoodEval(y, moduleCfg)
    BY <1>1, <2>1, <2>2, ScaledGood
  <2>4. GoodEval(z, moduleCfg)
    BY <1>1, <2>1, FollowedGood
  <2>5. (y.quiet <=> x.quiet) /\ (z.quiet <=> x.quiet)
    BY <1>5 DEF EvalFields
  <2>6. EvalsGood'
    BY <1>7, <2>1, <2>3, <2>4, <2>5
  <2> QED
    BY <1>8, <1>14, <2>6 DEF ApplyCTIOnly, untouched
<1>15. CASE UpdateFailTracker(e)
  <2> DEFINE y == [x EXCEPT !.pc = "prism"]
  <2>1. Set(e, y) /\ x.pc = "track"
    BY <1>15 DEF UpdateFailTracker, x
  <2>2. GoodEval(y, moduleCfg)
    BY <1>1, <2>1, FollowedGood
  <2>3. y.quiet <=> x.quiet
    BY <1>5 DEF EvalFields
  <2>4. EvalsGood'
    BY <1>7, <2>1, <2>2, <2>3
  <2> QED
    BY <1>8, <1>15, <2>4 DEF UpdateFailTracker
<1>16. CASE ApplyPrismToResult(e)
  <2>1. PICK k : Set(e, [x EXCEPT !.pc = "store", !.prism = k])
    BY <1>16 DEF ApplyPrismToResult, x
  <2> DEFINE y == [x EXCEPT !.pc = "store", !.prism = k]
  <2>2. x.pc = "prism"
    BY <1>16 DEF ApplyPrismToResult, x
  <2>3. GoodEval(y, moduleCfg)
    BY <1>1, <2>2, FollowedGood
  <2>4. y.quiet <=> x.quiet
    BY <1>5 DEF EvalFields
  <2>5. EvalsGood'
    BY <1>7, <2>1, <2>3, <2>4
  <2> QED
    BY <1>8, <1>16, <2>5 DEF ApplyPrismToResult, untouched
<1>17. CASE Store(e)
  <2>1. Set(e, Idle) /\ x.pc = "store" /\ stored' = [stored EXCEPT ![evals[e].host] = x]
    BY <1>17 DEF Store, x
  <2>2. GoodResult(x)
    BY <1>1, <2>1 DEF GoodEval, OneConfig, GoodResult, scored, stamped
  <2>3. EvalsGood'
    <3>1. Idle.pc = "idle"
      BY DEF Idle
    <3> QED
      BY <1>2, <1>3, <2>1, <3>1, EvaluationMoves
  <2>4. stored' = [h \in HostNames |-> stored'[h]] /\ \A h \in HostNames : stored'[h] = stored[h] \/ stored'[h] = x
    BY <2>1 DEF AssessInv
  <2>5. \A h \in HostNames : stored'[h] # NoResult => GoodResult(stored'[h])
    BY <2>2, <2>4 DEF AssessInv
  <2> QED
    BY <1>3, <2>3, <2>4, <2>5 DEF AssessInv
<1> QED
  BY <1>9, <1>10, <1>11, <1>12, <1>13, <1>14, <1>15, <1>16, <1>17

LEMMA EvaluationBegins ==
    ASSUME AssessInv, NEW e \in Evaluators, NEW h \in HostNames, NEW failed \in Reported,
           (\E empty \in BOOLEAN : EvaluateFromResults(e, h, failed, empty)) \/ Evaluate(e, h, failed)
    PROVE  AssessInv'
<1>1. UNCHANGED <<places, reloads, tangled>> /\ UNCHANGED <<moduleCfg, reloads, tangled>> /\ UNCHANGED stored
  BY DEF EvaluateFromResults, Evaluate, unmoved, places
<1>2. ReloadInv' /\ ReloadInv /\ EvalsGood
  BY <1>1, ReloadsStandStill DEF AssessInv
<1>3. Settled => engineCfg = moduleCfg /\ engWeights = moduleCfg /\ engFactors = moduleCfg /\ engAccept = moduleCfg
  BY <1>2, SettledPlaces
<1>4. moduleCfg \in Versions /\ Configs[moduleCfg].threshold \in 1 .. 100
  BY <1>2, AssessmentAssumption DEF ReloadInv
<1>5. SUFFICES EvalsGood'
  BY <1>1, <1>2 DEF AssessInv
<1>6. CASE Evaluate(e, h, failed)
  <2> DEFINE y == [pc |-> "snapshot", kind |-> "request", host |-> h, failed |-> failed \ Denied,
                   threshold |-> Configs[engineCfg].threshold, spc |-> 100, coeff |-> 100,
                   score |-> 100, lower |-> 100, accept |-> TRUE,
                   snap |-> [w |-> engWeights, f |-> engFactors, a |-> engAccept], adjust |-> 0,
                   stamp |-> 0, prism |-> 0, empty |-> FALSE,
                   quiet |-> reloading = {} /\ ~tangled]
  <2>1. Set(e, y)
    BY <1>6 DEF Evaluate
  <2>2. y.quiet => Settled
    BY DEF Settled
  <2>3. GoodEval(y, moduleCfg)
    BY <1>3, <2>2 DEF GoodEval, OneConfig, EvalFields, scored, stamped
  <2> HIDE DEF y
  <2> QED
    BY <1>1, <1>2, <2>1, <2>2, <2>3, EvaluationMoves
<1>7. ASSUME NEW empty \in BOOLEAN, EvaluateFromResults(e, h, failed, empty)
      PROVE  EvalsGood'
  <2> DEFINE y == [pc |-> IF empty THEN "track" ELSE "context", kind |-> "report", host |-> h,
                   failed |-> failed \ Denied,
                   threshold |-> Configs[moduleCfg].threshold, spc |-> 100, coeff |-> 100,
                   score |-> 100, lower |-> 100, accept |-> TRUE,
                   snap |-> [w |-> engWeights, f |-> engFactors, a |-> engAccept], adjust |-> 0,
                   stamp |-> 0, prism |-> 0, empty |-> empty,
                   quiet |-> reloading = {} /\ ~tangled]
  <2>1. Set(e, y)
    BY <1>7 DEF EvaluateFromResults
  <2>2. y.quiet => Settled
    BY DEF Settled
  <2>3. GoodEval(y, moduleCfg)
    BY <1>3, <1>4, <2>2 DEF GoodEval, OneConfig, EvalFields, scored, stamped
  <2> HIDE DEF y
  <2> QED
    BY <1>1, <1>2, <2>1, <2>2, <2>3, EvaluationMoves
<1> QED
  BY <1>6, <1>7

\* An evaluation that a reload ran into is quiet no longer.
LEMMA DisturbedGood ==
    ASSUME NEW x, NEW v, NEW w, GoodEval(x, v)
    PROVE  GoodEval([x EXCEPT !.quiet = FALSE], w) /\ ~[x EXCEPT !.quiet = FALSE].quiet
BY DEF GoodEval, EvalFields, scored, stamped

LEMMA ReloadBegins ==
    ASSUME AssessInv, NEW r \in Reloaders, NEW v \in Versions, ReloadConfig(r, v)
    PROVE  AssessInv'
<1>1. reloads' = [reloads EXCEPT ![r] = [pc |-> "engine", v |-> v]] /\ moduleCfg' = v /\ (tangled' <=> reloading # {})
  BY DEF ReloadConfig
<1>2. reloads'[r] = [pc |-> "engine", v |-> v] /\ \A q \in Reloaders \ {r} : reloads'[q] = reloads[q]
  BY <1>1 DEF AssessInv, ReloadInv
<1>3. ReloadInv'
  <2>1. reloads' \in [Reloaders -> [pc : ReloadPcs, v : Versions]]
    BY <1>1 DEF AssessInv, ReloadInv, ReloadPcs
  <2>2. moduleCfg' \in Versions /\ engineCfg' \in Versions
    BY <1>1 DEF AssessInv, ReloadInv, ReloadConfig
  <2>3. ASSUME ~tangled' PROVE PlacesFollow'
    <3>1. \A q \in Reloaders : reloads[q].pc = "idle"
      BY <1>1, <2>3 DEF reloading
    <3>2. \A q \in Reloaders : reloads'[q].pc # "idle" => q = r
      BY <1>2, <3>1
    <3> QED
      BY <1>1, <1>2, <3>2 DEF PlacesFollow, Passed, reloading
  <2> QED
    BY <2>1, <2>2, <2>3 DEF ReloadInv
<1>4. EvalsGood'
  <2>1. evals' = [e \in Evaluators |-> IF evals[e].pc = "idle" THEN Idle
                                       ELSE [evals[e] EXCEPT !.quiet = FALSE]]
    BY DEF ReloadConfig
  <2>2. evals' = [e \in Evaluators |-> evals'[e]]
    BY <2>1
  <2>3. ASSUME NEW e \in Evaluators, evals'[e].pc # "idle"
        PROVE  GoodEval(evals'[e], moduleCfg') /\ ~evals'[e].quiet
    <3>1. evals[e].pc # "idle"
      BY <2>1, <2>3 DEF Idle
    <3>2. evals'[e] = [evals[e] EXCEPT !.quiet = FALSE]
      BY <2>1, <3>1
    <3> QED
      BY <3>1, <3>2, DisturbedGood DEF AssessInv, EvalsGood
  <2> QED
    BY <2>2, <2>3 DEF EvalsGood
<1>5. UNCHANGED stored
  BY DEF ReloadConfig, untouched
<1> QED
  BY <1>3, <1>4, <1>5 DEF AssessInv

\* Any other step of a reload r, which has no evaluation beside it that is quiet.
LEMMA ReloadSteps ==
    ASSUME AssessInv, NEW r \in Reloaders,
           \/ ReloadEngine(r)
           \/ SetWeights(r) \/ SetEdgeFactors(r) \/ SetAcceptByLowerBound(r)
           \/ StoreModel(r) \/ RegisterStrategy(r) \/ RegisterAdjust(r)
           \/ SetupPrism(r)
    PROVE  AssessInv'
<1>1. /\ reloads[r].pc # "idle" /\ UNCHANGED <<moduleCfg, tangled, evals, stored>>
      /\ \E pc \in ReloadPcs : Go(r, pc)
  BY DEF ReloadEngine, SetWeights, SetEdgeFactors, SetAcceptByLowerBound, StoreModel, RegisterStrategy,
         RegisterAdjust, SetupPrism, untouched, At, ReloadPcs
<1>2. PICK pc \in ReloadPcs : Go(r, pc)
  BY <1>1
<1>3. reloads[r].pc \in ReloadPcs /\ reloads[r].v \in Versions
  BY DEF AssessInv, ReloadInv
<1>4. /\ reloads' \in [Reloaders -> [pc : ReloadPcs, v : Versions]]
      /\ reloads'[r].pc = pc /\ reloads'[r].v = reloads[r].v
      /\ \A q \in Reloaders \ {r} : reloads'[q] = reloads[q]
  BY <1>2, <1>3 DEF Go, AssessInv, ReloadInv
<1>5. EvalsGood'
  <2>1. ~Settled
    BY <1>1 DEF Settled, reloading
  <2>2. \A e \in Evaluators : evals[e].pc # "idle" => ~evals[e].quiet
    BY <2>1 DEF AssessInv, EvalsGood
  <2> QED
    BY <1>1, <2>2 DEF AssessInv, EvalsGood
<1>6. moduleCfg' \in Versions /\ engineCfg' \in Versions
  BY <1>1, <1>3 DEF AssessInv, ReloadInv, ReloadEngine, SetWeights, SetEdgeFactors, SetAcceptByLowerBound,
                    StoreModel, RegisterStrategy, RegisterAdjust, SetupPrism
<1>7. ASSUME ~tangled' PROVE PlacesFollow'
  <2>1. PlacesFollow /\ reloads[r].v = moduleCfg
    BY <1>1, <1>7 DEF AssessInv, ReloadInv, PlacesFollow, reloading
  <2>2. \A q \in Reloaders \ {r} : reloads[q].pc = "idle" /\ reloads'[q].pc = "idle"
    BY <1>1, <1>4, <2>1 DEF PlacesFollow, reloading
  <2>3. \A S : Passed(S) <=> (reloads[r].pc \notin S /\ \A q \in Reloaders \ {r} : "idle" \notin S)
    BY <2>2 DEF Passed
  <2>4. \A q \in reloading' : reloads'[q].v = moduleCfg' /\ \A p \in reloading' : p = q
    BY <1>1, <1>4, <2>1, <2>2 DEF reloading
  <2>5. /\ Passed({"engine"}) <=> reloads[r].pc # "engine"
        /\ Passed({"engine", "weights"}) <=> reloads[r].pc \notin {"engine", "weights"}
        /\ Passed({"engine", "weights", "factors"}) <=> reloads[r].pc \notin {"engine", "weights", "factors"}
        /\ Passed({"engine", "weights", "factors", "accept"}) <=> reloads[r].pc \notin {"engine", "weights", "factors", "accept"}
        /\ Passed({"engine", "weights", "factors", "accept", "model"})
           <=> reloads[r].pc \notin {"engine", "weights", "factors", "accept", "model"}
        /\ Passed({"engine", "weights", "factors", "accept", "model", "strategy"})
           <=> reloads[r].pc \notin {"engine", "weights", "factors", "accept", "model", "strategy"}
        /\ Passed({"engine", "weights", "factors", "accept", "model", "strategy", "adjust"})
           <=> reloads[r].pc \notin {"engine", "weights", "factors", "accept", "model", "strategy", "adjust"}
    BY <2>2 DEF Passed
  <2>6. /\ Passed({"engine"})' => pc # "engine"
        /\ Passed({"engine", "weights"})' => pc \notin {"engine", "weights"}
        /\ Passed({"engine", "weights", "factors"})' => pc \notin {"engine", "weights", "factors"}
        /\ Passed({"engine", "weights", "factors", "accept"})' => pc \notin {"engine", "weights", "factors", "accept"}
        /\ Passed({"engine", "weights", "factors", "accept", "model"})'
           => pc \notin {"engine", "weights", "factors", "accept", "model"}
        /\ Passed({"engine", "weights", "factors", "accept", "model", "strategy"})'
           => pc \notin {"engine", "weights", "factors", "accept", "model", "strategy"}
        /\ Passed({"engine", "weights", "factors", "accept", "model", "strategy", "adjust"})'
           => pc \notin {"engine", "weights", "factors", "accept", "model", "strategy", "adjust"}
    BY <1>4 DEF Passed
  <2>7. ASSUME NEW p, Go(r, p) PROVE p = pc
    BY <1>2, <2>7 DEF Go, AssessInv, ReloadInv
  <2>8. heldOf(moduleCfg)' = heldOf(moduleCfg)
    BY <1>1 DEF heldOf
  <2>9. CASE ReloadEngine(r)
    BY <1>1, <2>1, <2>4, <2>5, <2>6, <2>7, <2>8, <2>9 DEF PlacesFollow, ReloadEngine, At
  <2>10. CASE SetWeights(r)
    BY <1>1, <2>1, <2>4, <2>5, <2>6, <2>7, <2>8, <2>10 DEF PlacesFollow, SetWeights, At
  <2>11. CASE SetEdgeFactors(r)
    BY <1>1, <2>1, <2>4, <2>5, <2>6, <2>7, <2>8, <2>11 DEF PlacesFollow, SetEdgeFactors, At
  <2>12. CASE SetAcceptByLowerBound(r)
    BY <1>1, <2>1, <2>4, <2>5, <2>6, <2>7, <2>8, <2>12 DEF PlacesFollow, SetAcceptByLowerBound, At
  <2>13. CASE StoreModel(r)
    BY <1>1, <2>1, <2>4, <2>5, <2>6, <2>7, <2>8, <2>13 DEF PlacesFollow, StoreModel, At, heldOf
  <2>14. CASE RegisterStrategy(r)
    BY <1>1, <2>1, <2>4, <2>5, <2>6, <2>7, <2>8, <2>14 DEF PlacesFollow, RegisterStrategy, At, heldOf
  <2>15. CASE RegisterAdjust(r)
    BY <1>1, <2>1, <2>4, <2>5, <2>6, <2>7, <2>8, <2>15 DEF PlacesFollow, RegisterAdjust, At, heldOf
  <2>16. CASE SetupPrism(r)
    BY <1>1, <2>1, <2>4, <2>5, <2>6, <2>7, <2>8, <2>16 DEF PlacesFollow, SetupPrism, At
  <2> QED
    BY <2>9, <2>10, <2>11, <2>12, <2>13, <2>14, <2>15, <2>16
<1> QED
  BY <1>1, <1>4, <1>5, <1>6, <1>7 DEF AssessInv, ReloadInv

LEMMA AssessStep ==
    ASSUME AssessInv, [AssessNext]_assessVars
    PROVE  AssessInv'
<1>1. ASSUME UNCHANGED <<places, reloads, tangled>> /\ UNCHANGED <<evals, stored>>
      PROVE  AssessInv'
  <2>1. ReloadInv' /\ Settled' = Settled /\ moduleCfg' = moduleCfg
    BY <1>1, ReloadsStandStill DEF AssessInv, Settled, reloading, places
  <2> QED
    BY <1>1, <2>1 DEF AssessInv, EvalsGood
<1>2. CASE UNCHANGED assessVars
  BY <1>1, <1>2 DEF assessVars
<1>3. ASSUME NEW c, CoefficientChanges(c)
      PROVE  AssessInv'
  BY <1>1, <1>3 DEF CoefficientChanges, unmoved
<1> QED
  BY <1>2, <1>3, ReloadBegins, ReloadSteps, EvaluationBegins, EvaluationSteps DEF AssessNext

\* Whatever is reloaded under an evaluation, an accepted host reached the threshold its result was held
\* against, and a result no reload ran into is of one configuration, from its weights to its stamp
\* (ResultsSound, a part of AssessedSound).
THEOREM ResultsStaySound == PlatformSpec => []ResultsSound
<1>1. PlatformInit => AssessInv
  BY AssessInitGood DEF PlatformInit
<1>2. AssessInv /\ [PlatformNext]_platformVars => AssessInv'
  <2> SUFFICES ASSUME AssessInv, [PlatformNext]_platformVars PROVE AssessInv'
    OBVIOUS
  <2>1. [AssessNext]_assessVars
    BY DEF PlatformNext, Alone, platformVars
  <2> QED
    BY <2>1, AssessStep
<1>3. AssessInv => ResultsSound
  BY DEF AssessInv, GoodResult, ResultsSound, scoreUnder
<1> QED
  BY <1>1, <1>2, <1>3, PTL DEF PlatformSpec

-----------------------------------------------------------------------------
(* The vulnerabilities of SPC.                                               *)

\* A cache whose index is right, and which outgrew its size by known exploited CVEs at most.
CacheOf(s) ==
    /\ DOMAIN s = {"arr", "n", "index", "low", "lowDesc"} /\ s = [x \in DOMAIN s |-> s[x]]
    /\ s.arr \in Seq(CveRecords) /\ s.n \in 0 .. Len(s.arr) /\ s.index \in [CveIds -> Nat]
    /\ \A id \in CveIds : s.index[id] <= s.n
    /\ \A id \in CveIds : \A i \in 1 .. s.n : s.arr[i].id = id <=> s.index[id] = i
    /\ s.n > MaxCacheSize => \A i \in 1 .. s.n : s.arr[i].kev

Fields == {"id", "pri", "cvss", "epss", "kev", "poc", "cpes", "desc", "recent", "techs", "apts", "age"}

LEMMA RecordFields ==
    ASSUME NEW c \in CveRecords
    PROVE  /\ DOMAIN c = Fields /\ c.id \in CveIds /\ c.pri \in Nat /\ c.cvss \in Nat /\ c.epss \in Percent
           /\ c.kev \in BOOLEAN /\ c.poc \in BOOLEAN /\ c.cpes \in fieldsGiven("cpes")
           /\ c.desc \in fieldsGiven("desc") /\ c.recent \in BOOLEAN /\ c.techs \in Nat /\ c.apts \in Nat
           /\ c.age \in Nat
  BY DEF CveRecords, Fields

LEMMA RecordMade ==
    ASSUME NEW c, DOMAIN c = Fields, c = [x \in Fields |-> c[x]],
           c.id \in CveIds, c.pri \in Nat, c.cvss \in Nat, c.epss \in Percent,
           c.kev \in BOOLEAN, c.poc \in BOOLEAN, c.cpes \in fieldsGiven("cpes"),
           c.desc \in fieldsGiven("desc"), c.recent \in BOOLEAN, c.techs \in Nat, c.apts \in Nat, c.age \in Nat
    PROVE  c \in CveRecords
  BY DEF CveRecords, Fields

LEMMA RecordIs == ASSUME NEW c \in CveRecords PROVE c = [x \in Fields |-> c[x]]
  BY DEF CveRecords, Fields

LEMMA RecordChanged ==
    ASSUME NEW e, NEW cvss, NEW epss, NEW kev, NEW poc, NEW recent, NEW cpes, NEW techs, NEW apts, NEW desc, NEW pri,
           NEW m, m = [e EXCEPT !.cvss = cvss, !.epss = epss, !.kev = kev, !.poc = poc, !.recent = recent,
                                !.cpes = cpes, !.techs = techs, !.apts = apts, !.desc = desc, !.pri = pri]
    PROVE  m = [x \in DOMAIN m |-> m[x]]
  OBVIOUS

LEMMA MergedRecord ==
    ASSUME NEW e \in CveRecords, NEW c \in CveRecords
    PROVE  merged(e, c) \in CveRecords /\ merged(e, c).id = e.id /\ (e.kev => merged(e, c).kev)
<1> DEFINE m == merged(e, c)
<1>1. DOMAIN e = Fields
  BY RecordFields
<1>2. DOMAIN m = Fields /\ m = [x \in Fields |-> m[x]]
  <2>1. DOMAIN m = DOMAIN e
    BY DEF merged
  <2>2. m = [x \in DOMAIN m |-> m[x]]
    <3> DEFINE over == c.pri > e.pri
               fill(new, old, zero) == IF new # zero /\ (old = zero \/ over) THEN new ELSE old
               cvss == IF c.cvss > 0 /\ c.pri >= e.pri THEN c.cvss ELSE IF c.cvss > e.cvss THEN c.cvss ELSE e.cvss
               epss == fill(c.epss, e.epss, 0)
               kev == e.kev \/ c.kev
               poc == e.poc \/ c.poc
               recent == e.recent \/ c.recent
               cpes == fill(c.cpes, e.cpes, None0)
               techs == fill(c.techs, e.techs, 0)
               apts == fill(c.apts, e.apts, 0)
               desc == fill(c.desc, e.desc, "")
               pri == IF over THEN c.pri ELSE e.pri
    <3>1. m = [e EXCEPT !.cvss = cvss, !.epss = epss, !.kev = kev, !.poc = poc, !.recent = recent,
                        !.cpes = cpes, !.techs = techs, !.apts = apts, !.desc = desc, !.pri = pri]
      BY Zenon DEF merged
    <3> HIDE DEF m, over, fill, cvss, epss, kev, poc, recent, cpes, techs, apts, desc, pri
    <3> QED
      BY <3>1, RecordChanged
  <2> HIDE DEF m
  <2> QED
    BY <1>1, <2>1, <2>2
<1>3. /\ m.id = e.id /\ m.age = e.age /\ m.kev = (e.kev \/ c.kev) /\ m.poc = (e.poc \/ c.poc)
      /\ m.recent = (e.recent \/ c.recent)
  BY <1>1 DEF merged, Fields
<1>4. /\ m.cvss \in {e.cvss, c.cvss} /\ m.epss \in {e.epss, c.epss} /\ m.cpes \in {e.cpes, c.cpes}
      /\ m.techs \in {e.techs, c.techs} 
  BY <1>1 DEF merged, Fields
<1>5. /\ m.apts \in {e.apts, c.apts} /\ m.desc \in {e.desc, c.desc} /\ m.pri \in {e.pri, c.pri}
  BY <1>1 DEF merged, Fields
<1> HIDE DEF m
<1>6. m \in CveRecords
  <2>1. /\ m.id \in CveIds /\ m.age \in Nat /\ m.kev \in BOOLEAN /\ m.poc \in BOOLEAN /\ m.recent \in BOOLEAN
    BY <1>3, RecordFields
  <2>2. m.cvss \in Nat /\ m.epss \in Percent /\ m.cpes \in fieldsGiven("cpes") /\ m.techs \in Nat
    BY <1>4, RecordFields
  <2>3. m.apts \in Nat /\ m.desc \in fieldsGiven("desc") /\ m.pri \in Nat
    BY <1>5, RecordFields
  <2> QED
    BY <1>2, <2>1, <2>2, <2>3, RecordMade
<1> QED
  BY <1>3, <1>6 DEF m

LEMMA AmendedRecord ==
    ASSUME NEW e \in CveRecords, NEW c \in CveRecords, NEW source
    PROVE  /\ amended(e, c, source) \in CveRecords /\ amended(e, c, source).id = e.id
           /\ e.kev => amended(e, c, source).kev
<1> DEFINE m == amended(e, c, source)
<1>1. DOMAIN e = Fields
  BY RecordFields
<1>2. DOMAIN m = Fields /\ m = [x \in Fields |-> m[x]]
  BY <1>1 DEF amended
<1>3. /\ m.id = e.id /\ m.pri = e.pri /\ m.age = e.age /\ m.kev \in {e.kev, TRUE} /\ m.poc = e.poc
  BY <1>1 DEF amended, Fields
<1>4. /\ m.recent = e.recent /\ m.techs = e.techs /\ m.desc = e.desc /\ (e.kev => m.kev)
  BY <1>1 DEF amended, Fields
<1>5. /\ m.cvss \in {e.cvss, c.cvss} /\ m.epss \in {e.epss, c.epss}
      /\ m.cpes \in {e.cpes, c.cpes} /\ m.apts \in {e.apts, c.apts}
  BY <1>1 DEF amended, Fields
<1> HIDE DEF m
<1>6. m \in CveRecords
  <2>1. /\ m.id \in CveIds /\ m.pri \in Nat /\ m.age \in Nat /\ m.kev \in BOOLEAN /\ m.poc \in BOOLEAN
    BY <1>3, RecordFields
  <2>2. m.recent \in BOOLEAN /\ m.techs \in Nat /\ m.desc \in fieldsGiven("desc")
    BY <1>4, RecordFields
  <2>3. m.cvss \in Nat /\ m.epss \in Percent /\ m.cpes \in fieldsGiven("cpes") /\ m.apts \in Nat
    BY <1>5, RecordFields
  <2> QED
    BY <1>2, <2>1, <2>2, <2>3, RecordMade
<1> QED
  BY <1>3, <1>4, <1>6 DEF m

LEMMA CacheFacts ==
    ASSUME NEW s, CacheOf(s)
    PROVE  /\ DOMAIN s = {"arr", "n", "index", "low", "lowDesc"}
           /\ s.arr \in Seq(CveRecords) /\ s.n \in Nat /\ s.n <= Len(s.arr) /\ Len(s.arr) \in Nat
           /\ s.index \in [CveIds -> Nat]
           /\ \A i \in 1 .. Len(s.arr) : s.arr[i] \in CveRecords /\ s.arr[i].id \in CveIds
           /\ \A id \in CveIds : \A i \in 1 .. s.n : s.arr[i].id = id <=> s.index[id] = i
  BY RecordFields DEF CacheOf

\* A record in its place: the same CVE, still exploited if it was.
LEMMA PlaceKeeps ==
    ASSUME NEW s, CacheOf(s), NEW i \in 1 .. s.n, NEW r \in CveRecords, r.id = s.arr[i].id, s.arr[i].kev => r.kev,
           NEW t, DOMAIN t = DOMAIN s, t = [x \in DOMAIN t |-> t[x]],
           t.arr = [s.arr EXCEPT ![i] = r], t.n = s.n, t.index = s.index
    PROVE  CacheOf(t) /\ Len(t.arr) = Len(s.arr)
<1>1. s.arr \in Seq(CveRecords) /\ s.n \in 0 .. Len(s.arr) /\ Len(s.arr) \in Nat
  BY DEF CacheOf
<1>2. t.arr \in Seq(CveRecords) /\ Len(t.arr) = Len(s.arr)
  BY <1>1
<1>3. \A k \in 1 .. Len(s.arr) : t.arr[k] = IF k = i THEN r ELSE s.arr[k]
  BY <1>1
<1>4. \A k \in 1 .. s.n : t.arr[k].id = s.arr[k].id /\ (s.arr[k].kev => t.arr[k].kev)
  BY <1>1, <1>3
<1> QED
  BY <1>1, <1>2, <1>4 DEF CacheOf

LEMMA MergeInPlace ==
    ASSUME NEW s, CacheOf(s), NEW i \in 1 .. s.n, NEW c \in CveRecords
    PROVE  CacheOf(mergeCVEInPlace(s, i, c)) /\ Len(mergeCVEInPlace(s, i, c).arr) = Len(s.arr)
<1> DEFINE t == mergeCVEInPlace(s, i, c)
           r == merged(s.arr[i], c)
<1>1. s.arr[i] \in CveRecords
  BY CacheFacts
<1>2. r \in CveRecords /\ r.id = s.arr[i].id /\ (s.arr[i].kev => r.kev)
  BY <1>1, MergedRecord
<1>3. DOMAIN t = DOMAIN s /\ t = [x \in DOMAIN t |-> t[x]]
  BY DEF mergeCVEInPlace
<1>4. t.arr = [s.arr EXCEPT ![i] = r] /\ t.n = s.n /\ t.index = s.index
  BY CacheFacts DEF mergeCVEInPlace
<1> HIDE DEF t, r
<1> QED
  BY <1>2, <1>3, <1>4, PlaceKeeps DEF t

LEMMA UpdateInPlace ==
    ASSUME NEW s, CacheOf(s), NEW i \in 1 .. s.n, NEW c \in CveRecords, NEW source
    PROVE  CacheOf(updated(s, i, c, source)) /\ Len(updated(s, i, c, source).arr) = Len(s.arr)
<1>1. CASE source \in {"nvd", "misp", "oscal"}
  BY <1>1, MergeInPlace DEF updated
<1>2. CASE source \notin {"nvd", "misp", "oscal"}
  <2> DEFINE t == [s EXCEPT !.arr[i] = amended(@, c, source)]
             r == amended(s.arr[i], c, source)
  <2>1. updated(s, i, c, source) = t
    BY <1>2 DEF updated
  <2>2. s.arr[i] \in CveRecords
    BY CacheFacts
  <2>3. r \in CveRecords /\ r.id = s.arr[i].id /\ (s.arr[i].kev => r.kev)
    BY <2>2, AmendedRecord
  <2>4. DOMAIN t = DOMAIN s /\ t = [x \in DOMAIN t |-> t[x]]
    OBVIOUS
  <2>5. t.arr = [s.arr EXCEPT ![i] = r] /\ t.n = s.n /\ t.index = s.index
    BY CacheFacts
  <2> HIDE DEF t, r
  <2> QED
    BY <2>1, <2>3, <2>4, <2>5, PlaceKeeps
<1> QED
  BY <1>1, <1>2

LEMMA AppendKeeps ==
    ASSUME NEW s, CacheOf(s), NEW c \in CveRecords, s.index[c.id] = 0,
           s.n + 1 > MaxCacheSize => c.kev /\ \A i \in 1 .. s.n : s.arr[i].kev
    PROVE  CacheOf(append(s, c)) /\ Len(append(s, c).arr) >= Len(s.arr)
<1> DEFINE t == append(s, c)
           a == put(s.arr, s.n + 1, c)
           n == s.n
<1>1. c.id \in CveIds
  BY RecordFields
<1>2. s.arr \in Seq(CveRecords) /\ n \in Nat /\ n <= Len(s.arr) /\ Len(s.arr) \in Nat /\ s.index \in [CveIds -> Nat]
  BY CacheFacts
<1>3. /\ a \in Seq(CveRecords) /\ Len(a) >= Len(s.arr) /\ Len(a) >= n + 1 /\ Len(a) \in Nat
      /\ a[n + 1] = c /\ \A i \in 1 .. n : a[i] = s.arr[i]
  <2>1. CASE n + 1 <= Len(s.arr)
    <3>1. a = [s.arr EXCEPT ![n + 1] = c]
      BY <2>1 DEF put
    <3> QED
      BY <1>2, <2>1, <3>1
  <2>2. CASE ~ (n + 1 <= Len(s.arr))
    <3>1. a = Append(s.arr, c) /\ n = Len(s.arr)
      BY <1>2, <2>2 DEF put
    <3> QED
      BY <1>2, <3>1
  <2> QED
    BY <2>1, <2>2
<1>4. /\ DOMAIN t = {"arr", "n", "index", "low", "lowDesc"} /\ t = [x \in DOMAIN t |-> t[x]]
      /\ t.arr = a /\ t.n = n + 1 /\ t.index = [s.index EXCEPT ![c.id] = n + 1]
  <2> DEFINE k == [s.index EXCEPT ![c.id] = n + 1]
             m == n + 1
  <2>1. DOMAIN s = {"arr", "n", "index", "low", "lowDesc"}
    BY CacheFacts
  <2>2. t = [s EXCEPT !.arr = a, !.n = m, !.index = k]
    BY DEF append
  <2> HIDE DEF a, t, k, m
  <2>3. DOMAIN t = DOMAIN s /\ t = [x \in DOMAIN t |-> t[x]] /\ t.arr = a /\ t.n = m /\ t.index = k
    BY <2>1, <2>2
  <2> QED
    BY <2>1, <2>3 DEF m, k
<1> HIDE DEF a, t
<1>5. t.index \in [CveIds -> Nat] /\ \A id \in CveIds : t.index[id] = IF id = c.id THEN n + 1 ELSE s.index[id]
  BY <1>1, <1>2, <1>4
<1>6. \A id \in CveIds : t.index[id] <= t.n
  BY <1>2, <1>4, <1>5 DEF CacheOf
<1>7. ASSUME NEW id \in CveIds, NEW i \in 1 .. t.n PROVE t.arr[i].id = id <=> t.index[id] = i
  <2>1. CASE i = n + 1
    <3>1. s.index[id] <= n
      BY DEF CacheOf
    <3> QED
      BY <1>2, <1>3, <1>4, <1>5, <2>1, <3>1
  <2>2. CASE i # n + 1
    <3>1. i \in 1 .. n
      BY <1>2, <1>4, <2>2
    <3>2. s.arr[i].id = id <=> s.index[id] = i
      BY <3>1, CacheFacts
    <3>3. t.arr[i] = s.arr[i]
      BY <1>3, <1>4, <3>1
    <3>4. CASE id = c.id
      BY <1>2, <1>5, <2>2, <3>1, <3>2, <3>3, <3>4
    <3>5. CASE id # c.id
      BY <1>5, <3>2, <3>3, <3>5
    <3> QED
      BY <3>4, <3>5
  <2> QED
    BY <2>1, <2>2
<1>8. t.n > MaxCacheSize => \A i \in 1 .. t.n : t.arr[i].kev
  <2> SUFFICES ASSUME t.n > MaxCacheSize, NEW i \in 1 .. t.n PROVE t.arr[i].kev
    OBVIOUS
  <2>1. i = n + 1 \/ i \in 1 .. n
    BY <1>2, <1>4
  <2> QED
    BY <1>3, <1>4, <2>1
<1> QED
  BY <1>2, <1>3, <1>4, <1>5, <1>6, <1>7, <1>8 DEF CacheOf, t

\* The record to evict: one of the lowest score among those that are not known to be exploited.
LEMMA WorstOne ==
    ASSUME NEW C \in SUBSET Nat, C # {}, NEW v, \A i \in C : v[i] \in Nat
    PROVE  \E i \in C : \A j \in C : v[i] < v[j] \/ (v[i] = v[j] /\ i <= j)
<1> DEFINE V == {v[i] : i \in C}
<1>1. V \in SUBSET Nat /\ V # {}
  OBVIOUS
<1>2. PICK x \in V : \A y \in V : x <= y
  <2> HIDE DEF V
  <2> QED
    BY <1>1, FirstOne
<1> DEFINE W == {i \in C : v[i] = x}
<1>3. W \in SUBSET Nat /\ W # {}
  BY <1>2
<1>4. PICK i \in W : \A j \in W : i <= j
  <2> HIDE DEF W
  <2> QED
    BY <1>3, FirstOne
<1>5. ASSUME NEW j \in C PROVE v[i] < v[j] \/ (v[i] = v[j] /\ i <= j)
  <2>1. v[j] \in V /\ v[j] \in Nat /\ x \in Nat /\ v[i] = x
    BY <1>1, <1>2
  <2>2. x <= v[j]
    BY <1>2, <2>1
  <2>3. v[j] = x => i <= j
    BY <1>4
  <2> HIDE DEF V, W
  <2> QED
    BY <2>1, <2>2, <2>3
<1> QED
  BY <1>4, <1>5

\* An eviction makes room, and the records behind it move up with their numbers.
LEMMA EvictKeeps ==
    ASSUME NEW s, CacheOf(s), MaxCacheSize \in Nat, ~ (s.n < MaxCacheSize)
    PROVE  LET t == evictLowestPriorityCVE(s)
           IN  /\ CacheOf(t) /\ Len(t.arr) = Len(s.arr)
               /\ \A id \in CveIds : s.index[id] = 0 => t.index[id] = 0
               /\ t.n + 1 > MaxCacheSize => \A i \in 1 .. t.n : t.arr[i].kev
<1> DEFINE cand == {i \in 1 .. s.n : ~ s.arr[i].kev}
           score(i) == s.arr[i].cvss * 50 + s.arr[i].epss
           worst == CHOOSE i \in cand : \A j \in cand : score(i) < score(j) \/ (score(i) = score(j) /\ i <= j)
           t == evictLowestPriorityCVE(s)
<1>0. /\ s.arr \in Seq(CveRecords) /\ s.n \in Nat /\ s.n <= Len(s.arr) /\ Len(s.arr) \in Nat
      /\ s.index \in [CveIds -> Nat]
  BY CacheFacts
<1>1. CASE cand = {}
  <2>1. t = s
    BY <1>1 DEF evictLowestPriorityCVE
  <2>2. \A i \in 1 .. s.n : s.arr[i].kev
    <3> SUFFICES ASSUME NEW i \in 1 .. s.n PROVE s.arr[i].kev
      OBVIOUS
    <3>1. s.arr[i] \in CveRecords
      BY CacheFacts, <1>0
    <3>2. s.arr[i].kev \in BOOLEAN
      BY <3>1, RecordFields
    <3> QED
      BY <1>1, <3>2
  <2> QED
    BY <2>1, <2>2
<1>2. CASE cand # {}
  <2> DEFINE id == s.arr[worst].id
             shifted == [i \in DOMAIN s.arr |-> IF worst <= i /\ i < s.n THEN s.arr[i + 1] ELSE s.arr[i]]
  <2>1. worst \in cand
    <3> DEFINE v == [i \in cand |-> score(i)]
    <3>1. \A i \in cand : v[i] \in Nat /\ v[i] = score(i)
      <4> SUFFICES ASSUME NEW i \in cand PROVE score(i) \in Nat
        OBVIOUS
      <4>1. s.arr[i] \in CveRecords
        BY CacheFacts, <1>0
      <4>2. s.arr[i].cvss \in Nat /\ s.arr[i].epss \in Nat
        <5>1. s.arr[i].cvss \in Nat /\ s.arr[i].epss \in Percent
          BY <4>1, RecordFields
        <5> QED
          BY <5>1 DEF Percent
      <4> QED
        BY <4>2
    <3>2. cand \in SUBSET Nat
      OBVIOUS
    <3> HIDE DEF cand, v
    <3>3. \E i \in cand : \A j \in cand : v[i] < v[j] \/ (v[i] = v[j] /\ i <= j)
      BY <1>2, <3>1, <3>2, WorstOne
    <3> HIDE DEF score
    <3>4. \E i \in cand : \A j \in cand : score(i) < score(j) \/ (score(i) = score(j) /\ i <= j)
      BY <3>1, <3>3
    <3> QED
      BY <3>4
  <2>2. /\ t.arr = shifted /\ t.n = s.n - 1
        /\ t.index = [j \in CveIds |-> IF j = id THEN 0
                                       ELSE IF s.index[j] > worst THEN s.index[j] - 1 ELSE s.index[j]]
        /\ DOMAIN t = {"arr", "n", "index", "low", "lowDesc"} /\ t = [x \in DOMAIN t |-> t[x]]
    <3> DEFINE k == [j \in CveIds |-> IF j = id THEN 0
                                      ELSE IF s.index[j] > worst THEN s.index[j] - 1 ELSE s.index[j]]
               low == [s.low EXCEPT ![id] = Unset]
               lowDesc == [s.lowDesc EXCEPT ![id] = Unset]
               m == s.n - 1
    <3>1. t = [arr |-> shifted, n |-> m, index |-> k, low |-> low, lowDesc |-> lowDesc]
      BY <1>2 DEF evictLowestPriorityCVE
    <3> HIDE DEF shifted, k, low, lowDesc, m, t
    <3>2. /\ t.arr = shifted /\ t.n = m /\ t.index = k
          /\ DOMAIN t = {"arr", "n", "index", "low", "lowDesc"} /\ t = [x \in DOMAIN t |-> t[x]]
      BY <3>1
    <3> QED
      BY <3>2 DEF m, k
  <2>3. worst \in 1 .. s.n
    BY <2>1
  <2> HIDE DEF cand, worst, t
  <2>4. shifted \in Seq(CveRecords) /\ Len(shifted) = Len(s.arr)
    BY <1>0, <2>3
  <2>5. s.n \in 1 .. Len(s.arr) /\ t.n \in 0 .. Len(t.arr) /\ \A i \in 1 .. t.n : t.arr[i] = IF worst <= i THEN s.arr[i + 1] ELSE s.arr[i]
    BY <1>0, <2>2, <2>3, <2>4
  <2> HIDE DEF shifted
  <2>6. id \in CveIds /\ s.index[id] = worst
    BY <1>0, <2>3, CacheFacts
  <2>7. t.index \in [CveIds -> Nat]
    BY <1>0, <2>2, <2>3, <2>5
  <2>8. ASSUME NEW j \in CveIds
        PROVE  /\ t.index[j] <= t.n /\ (s.index[j] = 0 => t.index[j] = 0)
               /\ \A i \in 1 .. t.n : t.arr[i].id = j <=> t.index[j] = i
    <3>1. s.index[j] \in Nat /\ s.index[j] <= s.n
      BY <1>0 DEF CacheOf
    <3>2. \A i \in 1 .. s.n : s.arr[i].id = j <=> s.index[j] = i
      BY CacheFacts
    <3>3. t.index[j] = IF j = id THEN 0 ELSE IF s.index[j] > worst THEN s.index[j] - 1 ELSE s.index[j]
      BY <2>2
    <3>4. j # id => s.index[j] # worst
      BY <2>3, <3>2
    <3> HIDE DEF id
    <3>5. t.index[j] <= t.n /\ (s.index[j] = 0 => t.index[j] = 0)
      BY <1>0, <2>2, <2>3, <3>1, <3>3, <3>4
    <3>6. ASSUME NEW i \in 1 .. t.n PROVE t.arr[i].id = j <=> t.index[j] = i
      <4>0. t.n = s.n - 1 /\ i \in 1 .. s.n /\ i + 1 \in 1 .. s.n
        BY <1>0, <2>2, <2>3
      <4>1. CASE worst <= i
        <5>1. t.arr[i] = s.arr[i + 1]
          BY <2>5, <4>1
        <5>2. t.arr[i].id = j <=> s.index[j] = i + 1
          BY <3>2, <4>0, <5>1
        <5> QED
          BY <2>3, <2>6, <3>1, <3>3, <3>4, <4>0, <4>1, <5>2
      <4>2. CASE ~ (worst <= i)
        <5>1. t.arr[i] = s.arr[i]
          BY <2>5, <4>2
        <5>2. t.arr[i].id = j <=> s.index[j] = i
          BY <3>2, <4>0, <5>1
        <5> QED
          BY <2>3, <2>6, <3>1, <3>3, <3>4, <4>0, <4>2, <5>2
      <4> QED
        BY <4>1, <4>2
    <3> QED
      BY <3>5, <3>6
  <2>9. s.n = MaxCacheSize
    <3>1. ~ s.arr[worst].kev
      BY <2>1 DEF cand
    <3> QED
      BY <1>0, <2>3, <3>1 DEF CacheOf
  <2>10. ~ (t.n + 1 > MaxCacheSize) /\ ~ (t.n > MaxCacheSize)
    BY <2>2, <2>9, <1>0
  <2>11. CacheOf(t) /\ Len(t.arr) = Len(s.arr)
    BY <2>2, <2>4, <2>5, <2>7, <2>8, <2>10 DEF CacheOf
  <2> QED
    BY <2>8, <2>10, <2>11 DEF t
<1> QED
  BY <1>1, <1>2

\* The cache after a change: right, on an array no shorter.
CacheAfter(s, t) == CacheOf(t) /\ Len(t.arr) >= Len(s.arr)

LEMMA PlaceOf ==
    ASSUME NEW s, CacheOf(s), NEW c \in CveRecords, s.index[c.id] # 0
    PROVE  s.index[c.id] \in 1 .. s.n
<1>1. c.id \in CveIds
  BY RecordFields
<1>2. s.index[c.id] \in Nat /\ s.index[c.id] <= s.n /\ s.n \in Nat
  BY <1>1, CacheFacts DEF CacheOf
<1> QED
  BY <1>2

LEMMA MergeKeeps ==
    ASSUME NEW s, CacheOf(s), NEW c \in CveRecords, MaxCacheSize \in Nat
    PROVE  CacheAfter(s, MergeCVE(s, c))
<1>1. Len(s.arr) \in Nat /\ s.n \in Nat /\ c.id \in CveIds
  BY CacheFacts, RecordFields
<1>2. CASE s.index[c.id] # 0
  <2>1. MergeCVE(s, c) = mergeCVEInPlace(s, s.index[c.id], c)
    BY <1>2 DEF MergeCVE
  <2> QED
    BY <1>1, <1>2, <2>1, PlaceOf, MergeInPlace DEF CacheAfter
<1>3. CASE s.index[c.id] = 0 /\ s.n < MaxCacheSize
  <2>1. MergeCVE(s, c) = append(s, c)
    BY <1>3 DEF MergeCVE
  <2>2. ~ (s.n + 1 > MaxCacheSize)
    BY <1>1, <1>3
  <2> QED
    BY <1>1, <1>3, <2>1, <2>2, AppendKeeps DEF CacheAfter
<1>4. CASE s.index[c.id] = 0 /\ ~ (s.n < MaxCacheSize) /\ c.kev
  <2> DEFINE t == evictLowestPriorityCVE(s)
  <2>1. MergeCVE(s, c) = append(t, c)
    BY <1>4 DEF MergeCVE
  <2>2. /\ CacheOf(t) /\ Len(t.arr) = Len(s.arr) /\ t.index[c.id] = 0
        /\ t.n + 1 > MaxCacheSize => \A i \in 1 .. t.n : t.arr[i].kev
    BY <1>1, <1>4, EvictKeeps
  <2> HIDE DEF t
  <2>3. CacheOf(append(t, c)) /\ Len(append(t, c).arr) >= Len(t.arr)
    BY <1>4, <2>2, AppendKeeps
  <2> QED
    BY <2>1, <2>2, <2>3 DEF CacheAfter
<1>5. CASE s.index[c.id] = 0 /\ ~ (s.n < MaxCacheSize) /\ ~ c.kev
  BY <1>1, <1>5 DEF MergeCVE, CacheAfter
<1> QED
  BY <1>2, <1>3, <1>4, <1>5

\* One record of a batch.
Taking(s0, p) == DOMAIN p = {"s", "stop"} /\ CacheAfter(s0, p.s)

LEMMA TakenKeeps ==
    ASSUME NEW s0, CacheOf(s0), NEW p, Taking(s0, p), NEW c \in CveRecords, NEW source, MaxCacheSize \in Nat
    PROVE  Taking(s0, taken(p, c, source))
<1> DEFINE s == p.s
           q == taken(p, c, source)
<1>1. CacheOf(s) /\ Len(s.arr) >= Len(s0.arr) /\ DOMAIN p = {"s", "stop"}
  BY DEF Taking, CacheAfter
<1>2. Len(s.arr) \in Nat /\ s.n \in Nat /\ c.id \in CveIds /\ Len(s0.arr) \in Nat
  BY <1>1, CacheFacts, RecordFields
<1>3. SUFFICES DOMAIN q = DOMAIN p /\ CacheOf(q.s) /\ Len(q.s.arr) >= Len(s.arr)
  <2>1. ASSUME DOMAIN q = DOMAIN p, CacheOf(q.s), Len(q.s.arr) >= Len(s.arr)
        PROVE  Taking(s0, q)
    <3>1. Len(q.s.arr) \in Nat
      BY <2>1, CacheFacts
    <3> HIDE DEF q, s
    <3>2. Len(q.s.arr) >= Len(s0.arr)
      BY <1>1, <1>2, <2>1, <3>1
    <3> QED
      BY <1>1, <2>1, <3>2 DEF Taking, CacheAfter
  <2> QED
    BY <2>1
<1>4. CASE source = "add"
  <2>1. q = [p EXCEPT !.s = MergeCVE(s, c)]
    BY <1>4 DEF taken
  <2>2. DOMAIN q = DOMAIN p /\ q.s = MergeCVE(s, c)
    BY <1>1, <2>1
  <2> HIDE DEF q
  <2> QED
    BY <1>1, <2>2, MergeKeeps DEF CacheAfter
<1>5. CASE source # "add"
  <2> DEFINE i == s.index[c.id]
             full == s.n >= MaxCacheSize
  <2>1. q = absorbCVE(p, c, source)
    BY <1>5 DEF taken
  <2>2. CASE p.stop \/ (source = "oscal" /\ full)
    <3>1. q = [p EXCEPT !.stop = TRUE]
      BY <2>1, <2>2 DEF absorbCVE
    <3>2. DOMAIN q = DOMAIN p /\ q.s = s
      BY <1>1, <3>1
    <3> QED
      BY <1>1, <1>2, <3>2
  <2>3. CASE ~ (p.stop \/ (source = "oscal" /\ full)) /\ i # 0
    <3>1. q = [p EXCEPT !.s = updated(s, i, c, source)]
      BY <2>1, <2>3 DEF absorbCVE
    <3>2. DOMAIN q = DOMAIN p /\ q.s = updated(s, i, c, source)
      BY <1>1, <3>1
    <3>3. i \in 1 .. s.n
      BY <1>1, <2>3, PlaceOf
    <3> HIDE DEF q, i, s
    <3> QED
      BY <1>1, <1>2, <3>2, <3>3, UpdateInPlace
  <2>4. CASE ~ (p.stop \/ (source = "oscal" /\ full)) /\ i = 0 /\ full
    <3>1. q = [p EXCEPT !.stop = source \notin {"epss", "kev"}]
      BY <2>1, <2>4 DEF absorbCVE
    <3>2. DOMAIN q = DOMAIN p /\ q.s = s
      BY <1>1, <3>1
    <3> QED
      BY <1>1, <1>2, <3>2
  <2>5. CASE ~ (p.stop \/ (source = "oscal" /\ full)) /\ i = 0 /\ ~ full
    <3>1. q = [p EXCEPT !.s = append(s, c)]
      BY <2>1, <2>5 DEF absorbCVE
    <3>2. DOMAIN q = DOMAIN p /\ q.s = append(s, c)
      BY <1>1, <3>1
    <3>3. ~ (s.n + 1 > MaxCacheSize)
      BY <1>2, <2>5
    <3>4. s.index[c.id] = 0
      BY <2>5
    <3> HIDE DEF q, s
    <3> QED
      BY <1>1, <1>2, <3>2, <3>3, <3>4, AppendKeeps
  <2> QED
    BY <2>2, <2>3, <2>4, <2>5
<1> QED
  BY <1>4, <1>5

\* A batch, up to each of its records.
Absorbed(s0, batch, source) ==
    CHOOSE after : after = [n \in 0 .. Len(batch) |->
                              IF n = 0 THEN [s |-> s0, stop |-> FALSE] ELSE taken(after[n - 1], batch[n], source)]

LEMMA AbsorbStep ==
    ASSUME NEW s0, NEW batch, Len(batch) \in Nat, NEW source
    PROVE  Absorbed(s0, batch, source) =
              [n \in 0 .. Len(batch) |->
                 IF n = 0 THEN [s |-> s0, stop |-> FALSE] ELSE taken(Absorbed(s0, batch, source)[n - 1], batch[n], source)]
<1> DEFINE first0 == [s |-> s0, stop |-> FALSE]
           Is(f, m) == f = [n \in 0 .. m |-> IF n = 0 THEN first0 ELSE taken(f[n - 1], batch[n], source)]
           G == {m \in Nat : \E f : Is(f, m)}
<1> HIDE DEF first0
<1>1. 0 \in G
  <2> DEFINE f == [n \in 0 .. 0 |-> first0]
  <2>1. f = [n \in 0 .. 0 |-> IF n = 0 THEN first0 ELSE taken(f[n - 1], batch[n], source)]
    OBVIOUS
  <2> HIDE DEF f
  <2> QED
    BY <2>1
<1>2. ASSUME NEW m \in Nat, m \in G PROVE m + 1 \in G
  <2>1. PICK f : Is(f, m)
    BY <1>2
  <2> DEFINE new == taken(f[m], batch[m + 1], source)
  <2> HIDE DEF new
  <2> DEFINE g == [n \in 0 .. m + 1 |-> IF n = m + 1 THEN new ELSE f[n]]
  <2>2. g[m + 1] = new /\ \A n \in 0 .. m : g[n] = f[n]
    OBVIOUS
  <2>3. ASSUME NEW n \in 0 .. m + 1
        PROVE  g[n] = IF n = 0 THEN first0 ELSE taken(g[n - 1], batch[n], source)
    <3> HIDE DEF g
    <3>1. CASE n = m + 1
      <4>1. n - 1 = m /\ n # 0 /\ m \in 0 .. m
        BY <3>1
      <4>2. g[n - 1] = f[m]
        BY <2>2, <4>1
      <4> QED
        BY <2>2, <3>1, <4>1, <4>2 DEF new
    <3>2. CASE n # m + 1
      <4>1. n \in 0 .. m /\ (n # 0 => n - 1 \in 0 .. m)
        BY <3>2
      <4>2. f[n] = IF n = 0 THEN first0 ELSE taken(f[n - 1], batch[n], source)
        BY <2>1, <4>1
      <4> QED
        BY <2>2, <4>1, <4>2
    <3> QED
      BY <3>1, <3>2
  <2>4. Is(g, m + 1)
    <3>1. g = [n \in 0 .. m + 1 |-> g[n]]
      OBVIOUS
    <3> HIDE DEF g
    <3> QED
      BY <2>3, <3>1
  <2> HIDE DEF g, Is
  <2> QED
    BY <2>4
<1>3. Len(batch) \in G
  <2> HIDE DEF G
  <2>1. Nat \subseteq G
    BY <1>1, <1>2, Inductive
  <2> QED
    BY <2>1
<1>4. \E f : Is(f, Len(batch))
  BY <1>3
<1>5. Absorbed(s0, batch, source) = CHOOSE f : Is(f, Len(batch))
  BY DEF Absorbed, first0
<1>6. Is(Absorbed(s0, batch, source), Len(batch))
  <2> HIDE DEF Is
  <2> QED
    BY <1>4, <1>5
<1> QED
  BY <1>6 DEF first0

\* Whatever a source sends, the cache stays right.
LEMMA AbsorbKeeps ==
    ASSUME NEW s, CacheOf(s), NEW batch \in Seq(CveRecords), NEW source, MaxCacheSize \in Nat
    PROVE  CacheAfter(s, absorb(s, batch, source))
<1> DEFINE f == Absorbed(s, batch, source)
           Good(n) == n \in 0 .. Len(batch) => Taking(s, f[n])
           G == {n \in Nat : Good(n)}
<1>1. f = [n \in 0 .. Len(batch) |->
             IF n = 0 THEN [s |-> s, stop |-> FALSE] ELSE taken(f[n - 1], batch[n], source)]
  <2>1. Len(batch) \in Nat
    OBVIOUS
  <2> QED
    BY <2>1, AbsorbStep
<1>2. absorb(s, batch, source) = f[Len(batch)].s
  BY DEF absorb, Absorbed
<1> HIDE DEF f
<1>3. 0 \in G
  <2>1. f[0] = [s |-> s, stop |-> FALSE]
    BY <1>1
  <2>2. Len(s.arr) >= Len(s.arr)
    BY CacheFacts
  <2> QED
    BY <2>1, <2>2 DEF Taking, CacheAfter
<1>4. ASSUME NEW n \in Nat, n \in G PROVE n + 1 \in G
  <2>1. Good(n + 1)
    <3> SUFFICES ASSUME n + 1 \in 0 .. Len(batch) PROVE Taking(s, f[n + 1])
      OBVIOUS
    <3>1. n \in 0 .. Len(batch) /\ n + 1 # 0 /\ batch[n + 1] \in CveRecords
      OBVIOUS
    <3>2. Taking(s, f[n])
      BY <1>4, <3>1
    <3>3. f[n + 1] = taken(f[n], batch[n + 1], source)
      <4>1. \A k \in 0 .. Len(batch) : k # 0 => f[k] = taken(f[k - 1], batch[k], source)
        BY <1>1
      <4>2. (n + 1) - 1 = n
        OBVIOUS
      <4> QED
        BY <3>1, <4>1, <4>2
    <3> QED
      BY <3>1, <3>2, <3>3, TakenKeeps
  <2> QED
    BY <2>1
<1>5. Good(Len(batch))
  <2> HIDE DEF G
  <2>1. Nat \subseteq G
    BY <1>3, <1>4, Inductive
  <2> QED
    BY <2>1 DEF G
<1> QED
  BY <1>2, <1>5 DEF Taking

LEMMA LoadedGood ==
    ASSUME NEW cves, loadable(cves)
    PROVE  CacheOf(loaded(cves))
<1> DEFINE s == loaded(cves)
           k == [id \in CveIds |-> IF \E i \in DOMAIN cves : cves[i].id = id
                                   THEN CHOOSE i \in DOMAIN cves : cves[i].id = id ELSE 0]
           none == [id \in CveIds |-> Unset]
<1>1. /\ cves \in Seq(CveRecords) /\ DOMAIN cves = 1 .. Len(cves) /\ Len(cves) \in Nat
      /\ \A i \in DOMAIN cves : cves[i] \in CveRecords
  BY DEF loadable
<1>2. s = [arr |-> cves, n |-> Len(cves), index |-> k, low |-> none, lowDesc |-> none]
  BY DEF loaded
<1>3. ASSUME NEW id \in CveIds
      PROVE  k[id] \in 0 .. Len(cves) /\ \A i \in DOMAIN cves : cves[i].id = id <=> k[id] = i
  <2>1. k[id] = IF \E i \in DOMAIN cves : cves[i].id = id THEN CHOOSE i \in DOMAIN cves : cves[i].id = id ELSE 0
    OBVIOUS
  <2> HIDE DEF k
  <2>2. CASE \E i \in DOMAIN cves : cves[i].id = id
    <3>1. k[id] \in DOMAIN cves /\ cves[k[id]].id = id
      BY <2>1, <2>2
    <3> QED
      BY <1>1, <3>1 DEF loadable
  <2>3. CASE ~ \E i \in DOMAIN cves : cves[i].id = id
    BY <1>1, <2>1, <2>3
  <2> QED
    BY <2>2, <2>3
<1>4. k = [id \in CveIds |-> k[id]]
  OBVIOUS
<1> HIDE DEF k, none, s
<1>5. /\ s.arr = cves /\ s.n = Len(cves) /\ s.index = k
      /\ DOMAIN s = {"arr", "n", "index", "low", "lowDesc"} /\ s = [x \in DOMAIN s |-> s[x]]
  BY <1>2
<1>6. k \in [CveIds -> Nat]
  BY <1>1, <1>3, <1>4
<1>7. \A id \in CveIds : k[id] <= Len(cves) /\ \A i \in 1 .. Len(cves) : cves[i].id = id <=> k[id] = i
  BY <1>1, <1>3
<1>8. s.n > MaxCacheSize => \A i \in 1 .. s.n : s.arr[i].kev
  BY <1>1, <1>5 DEF loadable
<1> QED
  BY <1>1, <1>5, <1>6, <1>7, <1>8 DEF CacheOf, s

\* What is saved can be loaded.
LEMMA SavedGood ==
    ASSUME NEW s, CacheOf(s)
    PROVE  loadable(SubSeq(s.arr, 1, s.n))
<1> DEFINE saved == SubSeq(s.arr, 1, s.n)
<1>1. s.arr \in Seq(CveRecords) /\ s.n \in Nat /\ s.n <= Len(s.arr) /\ Len(s.arr) \in Nat
  BY CacheFacts
<1>2. saved \in Seq(CveRecords) /\ Len(saved) = s.n /\ DOMAIN saved = 1 .. s.n /\ \A i \in 1 .. s.n : saved[i] = s.arr[i]
  BY <1>1
<1> HIDE DEF saved
<1>3. ASSUME NEW i \in 1 .. s.n, NEW j \in 1 .. s.n, s.arr[i].id = s.arr[j].id PROVE i = j
  <2>1. s.arr[i].id \in CveIds /\ i \in 1 .. Len(s.arr) /\ j \in 1 .. Len(s.arr)
    BY <1>1, CacheFacts
  <2>2. s.index[s.arr[i].id] = i /\ s.index[s.arr[i].id] = j
    BY <1>3, <2>1, CacheFacts
  <2> QED
    BY <2>2
<1>4. \A i, j \in DOMAIN saved : saved[i].id = saved[j].id => i = j
  BY <1>2, <1>3
<1>5. Len(saved) > MaxCacheSize => \A i \in DOMAIN saved : saved[i].kev
  BY <1>2 DEF CacheOf
<1> QED
  BY <1>2, <1>4, <1>5 DEF loadable, saved

\* What a clean-up keeps can be loaded: records of the cache in their order.
KeptOf(s, m, K, q, kept) ==
    /\ m \in Nat /\ K \in SUBSET (1 .. s.n) /\ q \in [1 .. m -> K] /\ Len(q) < s.n
    /\ \A i, j \in DOMAIN q : i < j => q[i] # q[j] /\ q[i] < q[j]
    /\ kept = [k \in 1 .. m |-> kept[k]] /\ \A k \in 1 .. m : kept[k] = s.arr[q[k]]

LEMMA KeptGood ==
    ASSUME NEW s, CacheOf(s), NEW m, NEW K, NEW q, NEW kept, KeptOf(s, m, K, q, kept)
    PROVE  loadable(kept)
<1>0. /\ m \in Nat /\ K \in SUBSET (1 .. s.n) /\ q \in [1 .. m -> K] /\ Len(q) < s.n
      /\ \A i, j \in DOMAIN q : i < j => q[i] # q[j] /\ q[i] < q[j]
      /\ kept = [k \in 1 .. m |-> kept[k]] /\ \A k \in 1 .. m : kept[k] = s.arr[q[k]]
  BY DEF KeptOf
<1>1. s.arr \in Seq(CveRecords) /\ s.n \in Nat /\ s.n <= Len(s.arr) /\ Len(s.arr) \in Nat
  BY CacheFacts
<1>2. DOMAIN q = 1 .. m /\ \A k \in 1 .. m : q[k] \in 1 .. s.n
  BY <1>0
<1>3. \A k \in 1 .. m : s.arr[q[k]] \in CveRecords
  BY <1>1, <1>2, CacheFacts
<1>4. kept \in Seq(CveRecords) /\ Len(kept) = m /\ DOMAIN kept = 1 .. m /\ \A k \in 1 .. m : kept[k] = s.arr[q[k]]
  BY <1>0, <1>3
<1>5. Len(q) = m
  <2>1. q = [k \in 1 .. m |-> q[k]]
    BY <1>0
  <2> QED
    BY <1>0, <2>1
<1>6. ASSUME NEW i \in 1 .. m, NEW j \in 1 .. m, kept[i].id = kept[j].id PROVE i = j
  <2>1. s.arr[q[i]].id \in CveIds /\ q[i] \in 1 .. s.n /\ q[j] \in 1 .. s.n
    BY <1>1, <1>2, <1>3, RecordFields
  <2>2. s.index[s.arr[q[i]].id] = q[i] /\ s.index[s.arr[q[i]].id] = q[j]
    BY <1>4, <1>6, <2>1, CacheFacts
  <2>3. ~ (i < j) /\ ~ (j < i)
    BY <1>0, <1>2, <2>2
  <2> QED
    BY <2>3
<1>7. Len(kept) > MaxCacheSize /\ MaxCacheSize \in Nat => \A i \in DOMAIN kept : kept[i].kev
  <2> SUFFICES ASSUME Len(kept) > MaxCacheSize, MaxCacheSize \in Nat, NEW i \in 1 .. m PROVE kept[i].kev
    BY <1>4
  <2>1. s.n > MaxCacheSize
    BY <1>0, <1>1, <1>4, <1>5
  <2> QED
    BY <1>2, <1>4, <2>1 DEF CacheOf
<1>8. MaxCacheSize \in Nat
  BY SpcAssumption
<1> QED
  BY <1>4, <1>6, <1>7, <1>8 DEF loadable

-----------------------------------------------------------------------------
(* The correction of SPC.                                                    *)

LEMMA Levels == ASSUME NEW inst, NEW vuln PROVE compareCPE(inst, vuln) \in 0 .. 4
  BY DEF compareCPE

\* A level is the highest of those found, or one of the two for a name.
LEMMA LevelOf ==
    ASSUME NEW c, NEW inv, NEW low, NEW desc
    PROVE  matchCPEFast(c, inv, low, desc) \in 0 .. 4
<1> DEFINE levels == {compareCPE(i, v) : i \in inv.cpes, v \in low[1]}
           best == CHOOSE l \in levels : \A m \in levels : m <= l
           byName == \E v \in low[1] : Range(v.name) \cap inv.pkgs # {}
           byText == desc # Unset /\ desc[1] \in inv.pkgs
<1>0. matchCPEFast(c, inv, low, desc) =
        IF c.cpes = None0 THEN IF byText THEN 2 ELSE 0
        ELSE IF levels # {} /\ best > 0 THEN best ELSE IF byName THEN 2 ELSE 0
  BY DEF matchCPEFast
<1>1. \A l \in levels : l \in 0 .. 4
  BY Levels
<1> HIDE DEF levels, byName, byText
<1>2. levels # {} => best \in levels
  <2> SUFFICES ASSUME levels # {} PROVE \E l \in levels : \A m \in levels : m <= l
    OBVIOUS
  <2>1. CASE 4 \in levels
    BY <1>1, <2>1
  <2>2. CASE 4 \notin levels /\ 3 \in levels
    BY <1>1, <2>2
  <2>3. CASE 4 \notin levels /\ 3 \notin levels /\ 2 \in levels
    BY <1>1, <2>3
  <2>4. CASE 4 \notin levels /\ 3 \notin levels /\ 2 \notin levels /\ 1 \in levels
    BY <1>1, <2>4
  <2>5. CASE 4 \notin levels /\ 3 \notin levels /\ 2 \notin levels /\ 1 \notin levels
    BY <1>1, <2>5
  <2> QED
    BY <2>1, <2>2, <2>3, <2>4, <2>5
<1>3. levels # {} => best \in 0 .. 4
  BY <1>1, <1>2
<1>4. matchCPEFast(c, inv, low, desc) \in {0, 2} \/ (levels # {} /\ matchCPEFast(c, inv, low, desc) = best)
  <2> HIDE DEF best
  <2> QED
    BY <1>0
<1> HIDE DEF best
<1> QED
  BY <1>3, <1>4

LEMMA Products == ASSUME NEW a \in Nat, NEW b \in Nat PROVE a * b \in Nat
  OBVIOUS
LEMMA Tenths == ASSUME NEW a \in Nat PROVE a \div 10 \in Nat /\ a \div 100 \in Nat
  OBVIOUS
LEMMA ScaledDown == ASSUME NEW a \in Nat, NEW b \in Nat PROVE (a * b) \div 100 \in Nat
  BY Products, Tenths

LEMMA PenaltyIsNat ==
    ASSUME NEW c \in CveRecords, NEW level \in 1 .. 4, NEW inv, NEW kevs
    PROVE  penalty(c, level, inv, kevs) \in Nat
<1> DEFINE kev == IF c.kev \/ c.id \in kevs THEN 100 ELSE IF c.poc THEN 30 ELSE 0
           impact == 20 * c.cvss + 5 * EpssFactor(c.epss) + 3 * kev
           once == (impact * (10 + c.techs)) \div 10
           widened == (once * (10 + 2 * c.apts)) \div 10
           a == (widened * matchFactor[level]) \div 100
           b == (a * determineExposure(inv.zone)) \div 100
           d == (b * determineControlLevel(inv.control)) \div 100
           e == (d * c.age) \div 100
<1>1. penalty(c, level, inv, kevs) = e
  BY DEF penalty
<1>2. c.cvss \in Nat /\ c.epss \in Percent /\ c.techs \in Nat /\ c.apts \in Nat /\ c.age \in Nat
  BY RecordFields
<1>3. EpssFactor(c.epss) \in Nat
  BY <1>2, SpcAssumption
<1>4. impact \in Nat
  <2>1. kev \in Nat
    OBVIOUS
  <2> HIDE DEF kev
  <2> QED
    BY <1>2, <1>3, <2>1
<1> HIDE DEF impact
<1>5. once \in Nat
  BY <1>2, <1>4, Products, Tenths
<1> HIDE DEF once
<1>6. widened \in Nat
  BY <1>2, <1>5, Products, Tenths
<1> HIDE DEF widened
<1>7. a \in Nat
  <2>1. matchFactor[level] \in Nat
    BY DEF matchFactor
  <2> QED
    BY <1>6, <2>1, ScaledDown
<1> HIDE DEF a
<1>8. b \in Nat
  <2>1. determineExposure(inv.zone) \in Nat
    BY DEF determineExposure
  <2> QED
    BY <1>7, <2>1, ScaledDown
<1> HIDE DEF b
<1>9. d \in Nat
  <2>1. determineControlLevel(inv.control) \in Nat
    BY DEF determineControlLevel
  <2> QED
    BY <1>8, <2>1, ScaledDown
<1> HIDE DEF d
<1> QED
  BY <1>1, <1>2, <1>9, ScaledDown

\* The root, rounded down.
IsRoot(r, x) == r * r <= x /\ x < (r + 1) * (r + 1)

LEMMA Roots == ASSUME NEW x \in Nat PROVE \E r \in 0 .. x : IsRoot(r, x)
<1> DEFINE Good(n) == \E r \in 0 .. n : IsRoot(r, n)
           G == {n \in Nat : Good(n)}
<1>1. 0 \in G
  BY DEF IsRoot
<1>2. ASSUME NEW n \in Nat, n \in G PROVE n + 1 \in G
  <2>1. PICK r \in 0 .. n : IsRoot(r, n)
    BY <1>2
  <2>2. r \in Nat /\ r * r \in Nat /\ (r + 1) * (r + 1) = r * r + 2 * r + 1
    OBVIOUS
  <2>3. (r + 2) * (r + 2) = r * r + 4 * r + 4
    BY <2>2
  <2>4. CASE n + 1 < (r + 1) * (r + 1)
    BY <2>1, <2>2, <2>4 DEF IsRoot
  <2>5. CASE ~ (n + 1 < (r + 1) * (r + 1))
    <3>1. (r + 1) * (r + 1) <= n + 1 /\ n + 1 < (r + 2) * (r + 2)
      BY <2>1, <2>2, <2>3, <2>5 DEF IsRoot
    <3>2. (r + 1) + 1 = r + 2 /\ r + 1 \in 0 .. n + 1
      BY <2>2
    <3>3. IsRoot(r + 1, n + 1)
      BY <3>1, <3>2 DEF IsRoot
    <3> QED
      BY <3>2, <3>3
  <2> QED
    BY <2>4, <2>5
<1> HIDE DEF G
<1>3. Nat \subseteq G
  BY <1>1, <1>2, Inductive
<1> QED
  BY <1>3 DEF G

\* A number whose square is at most x is at most the root of x.
LEMMA RootBounds ==
    ASSUME NEW x \in Nat, NEW p \in Nat, p * p <= x
    PROVE  isqrt(x) \in Nat /\ p <= isqrt(x)
<1> DEFINE r == isqrt(x)
<1>1. r \in 0 .. x /\ IsRoot(r, x)
  <2>1. r = CHOOSE q \in 0 .. x : IsRoot(q, x)
    BY DEF isqrt, IsRoot
  <2> HIDE DEF r
  <2> QED
    BY <2>1, Roots
<1> HIDE DEF r
<1>2. ASSUME ~ (p <= r) PROVE FALSE
  <2>1. r \in Nat /\ p \in Nat /\ p >= r + 1
    BY <1>1, <1>2
  <2>2. PICK k \in Nat : p = r + 1 + k
    <3>1. p - (r + 1) \in Nat /\ p = r + 1 + (p - (r + 1))
      BY <2>1
    <3> QED
      BY <3>1
  <2>3. p * p = (r + 1) * (r + 1) + 2 * (k * (r + 1)) + k * k
    BY <2>1, <2>2
  <2>4. k * (r + 1) \in Nat /\ k * k \in Nat /\ (r + 1) * (r + 1) \in Nat
    BY <2>1, Products
  <2>5. p * p >= (r + 1) * (r + 1)
    BY <2>3, <2>4
  <2> QED
    BY <1>1, <2>1, <2>4, <2>5 DEF IsRoot
<1> QED
  BY <1>1, <1>2 DEF r

\* The sum of the squares of the penalties, up to each.
Squared(len, pens) ==
    CHOOSE squares : squares = [i \in 0 .. len |-> IF i = 0 THEN 0 ELSE squares[i - 1] + pens[i] * pens[i]]

LEMMA SquareStep ==
    ASSUME NEW len \in Nat, NEW pens
    PROVE  Squared(len, pens) = [i \in 0 .. len |->
                                   IF i = 0 THEN 0 ELSE Squared(len, pens)[i - 1] + pens[i] * pens[i]]
<1> DEFINE Is(f, m) == f = [i \in 0 .. m |-> IF i = 0 THEN 0 ELSE f[i - 1] + pens[i] * pens[i]]
           G == {m \in Nat : \E f : Is(f, m)}
<1>1. 0 \in G
  <2> DEFINE f == [i \in 0 .. 0 |-> 0]
  <2>1. f = [i \in 0 .. 0 |-> IF i = 0 THEN 0 ELSE f[i - 1] + pens[i] * pens[i]]
    OBVIOUS
  <2> HIDE DEF f
  <2> QED
    BY <2>1
<1>2. ASSUME NEW m \in Nat, m \in G PROVE m + 1 \in G
  <2>1. PICK f : Is(f, m)
    BY <1>2
  <2> DEFINE new == f[m] + pens[m + 1] * pens[m + 1]
  <2> HIDE DEF new
  <2> DEFINE g == [i \in 0 .. m + 1 |-> IF i = m + 1 THEN new ELSE f[i]]
  <2>2. g[m + 1] = new /\ \A i \in 0 .. m : g[i] = f[i]
    OBVIOUS
  <2>3. ASSUME NEW i \in 0 .. m + 1
        PROVE  g[i] = IF i = 0 THEN 0 ELSE g[i - 1] + pens[i] * pens[i]
    <3> HIDE DEF g
    <3>1. CASE i = m + 1
      <4>1. i - 1 = m /\ i # 0 /\ m \in 0 .. m
        BY <3>1
      <4>2. g[i - 1] = f[m]
        BY <2>2, <4>1
      <4> QED
        BY <2>2, <3>1, <4>1, <4>2 DEF new
    <3>2. CASE i # m + 1
      <4>1. i \in 0 .. m /\ (i # 0 => i - 1 \in 0 .. m)
        BY <3>2
      <4>2. f[i] = IF i = 0 THEN 0 ELSE f[i - 1] + pens[i] * pens[i]
        BY <2>1, <4>1
      <4> QED
        BY <2>2, <4>1, <4>2
    <3> QED
      BY <3>1, <3>2
  <2>4. Is(g, m + 1)
    <3>1. g = [i \in 0 .. m + 1 |-> g[i]]
      OBVIOUS
    <3> HIDE DEF g
    <3> QED
      BY <2>3, <3>1
  <2> HIDE DEF g, Is
  <2> QED
    BY <2>4
<1>3. len \in G
  <2> HIDE DEF G
  <2>1. Nat \subseteq G
    BY <1>1, <1>2, Inductive
  <2> QED
    BY <2>1
<1>4. \E f : Is(f, len)
  BY <1>3
<1>5. Squared(len, pens) = CHOOSE f : Is(f, len)
  BY DEF Squared
<1>6. Is(Squared(len, pens), len)
  <2> HIDE DEF Is
  <2> QED
    BY <1>4, <1>5
<1> QED
  BY <1>6

\* No penalty is more than the total.
LEMMA TotalBounds ==
    ASSUME NEW len \in Nat, NEW pens, \A i \in 1 .. len : pens[i] \in Nat
    PROVE  totalPenalty(len, pens) \in Nat /\ \A i \in 1 .. len : pens[i] <= totalPenalty(len, pens)
<1> DEFINE f == Squared(len, pens)
           Good(n) == n \in 0 .. len => f[n] \in Nat /\ \A i \in 1 .. n : pens[i] * pens[i] <= f[n]
           G == {n \in Nat : Good(n)}
<1>1. f[0] = 0 /\ \A n \in 1 .. len : f[n] = f[n - 1] + pens[n] * pens[n]
  <2>1. f = [i \in 0 .. len |-> IF i = 0 THEN 0 ELSE f[i - 1] + pens[i] * pens[i]]
    BY SquareStep
  <2> HIDE DEF f
  <2> QED
    BY <2>1
<1>2. totalPenalty(len, pens) = isqrt(f[len])
  BY DEF totalPenalty, Squared
<1> HIDE DEF f
<1>3. 0 \in G
  BY <1>1
<1>4. ASSUME NEW n \in Nat, n \in G PROVE n + 1 \in G
  <2>1. Good(n + 1)
    <3> SUFFICES ASSUME n + 1 \in 0 .. len
                 PROVE  f[n + 1] \in Nat /\ \A i \in 1 .. n + 1 : pens[i] * pens[i] <= f[n + 1]
      OBVIOUS
    <3>1. f[n] \in Nat /\ \A i \in 1 .. n : pens[i] * pens[i] <= f[n]
      BY <1>4
    <3>2. n + 1 \in 1 .. len /\ (n + 1) - 1 = n
      OBVIOUS
    <3>3. f[n + 1] = f[n] + pens[n + 1] * pens[n + 1]
      BY <1>1, <3>2
    <3>4. \A i \in 1 .. n + 1 : pens[i] * pens[i] \in Nat
      BY <3>2, Products
    <3> DEFINE square(i) == pens[i] * pens[i]
    <3>5. square(n + 1) \in Nat /\ \A i \in 1 .. n : square(i) \in Nat /\ square(i) <= f[n]
      BY <3>1, <3>4
    <3>6. f[n + 1] = f[n] + square(n + 1)
      BY <3>3
    <3> HIDE DEF square
    <3>7. f[n + 1] \in Nat /\ \A i \in 1 .. n + 1 : square(i) <= f[n + 1]
      BY <3>1, <3>5, <3>6
    <3> QED
      BY <3>7 DEF square
  <2> QED
    BY <2>1
<1>5. Good(len)
  <2> HIDE DEF G
  <2>1. Nat \subseteq G
    BY <1>3, <1>4, Inductive
  <2> QED
    BY <2>1 DEF G
<1>6. f[len] \in Nat /\ \A i \in 1 .. len : pens[i] * pens[i] <= f[len]
  BY <1>5
<1>7. isqrt(f[len]) \in Nat
  BY <1>6, RootBounds, 0 * 0 <= f[len]
<1> QED
  BY <1>2, <1>6, <1>7, RootBounds

-----------------------------------------------------------------------------
(* The invariant of SPC.                                                     *)

\* A calculation walks an array that holds as many records as it counted; as long as nothing shifted, it is
\* the cache's.
CalcOf(cl, s) ==
    /\ DOMAIN cl = {"pc", "len", "array", "quiet", "inv", "kevs"} /\ cl.pc \in {"idle", "reading"}
    /\ cl.pc = "reading" =>
          /\ cl.len \in Nat /\ 1 <= cl.len
          /\ cl.array = <<>> => cl.len <= Len(s.arr)
          /\ cl.array # <<>> => cl.array \in Seq(CveRecords) /\ cl.len <= Len(cl.array)
          /\ cl.quiet => cl.array = <<>> /\ cl.len = s.n

FetchOf(p) == DOMAIN p = {"pc", "got", "failed", "wins"} /\ p.got \in Seq(CveRecords)

SpcInv ==
    /\ CacheOf(db) /\ CalcOf(calc, db)
    /\ DOMAIN fetch = Fetchers /\ \A f \in Fetchers : FetchOf(fetch[f])
    /\ sweep # <<>> => loadable(sweep[1])
    /\ loadable(savedCves)
    /\ spcUp = "off" => calc.pc = "idle"
    /\ CorrectionSound

LEMMA StoreKeeps ==
    ASSUME CacheOf(db), CalcOf(calc, db), NEW t, CacheAfter(db, t), Store0(t)
    PROVE  CacheOf(db') /\ CalcOf(calc', db') /\ calc'.pc = calc.pc
<1>1. db' = t /\ CacheOf(t) /\ Len(t.arr) >= Len(db.arr) /\ Len(t.arr) \in Nat /\ Len(db.arr) \in Nat
  BY CacheFacts DEF Store0, CacheAfter
<1>2. CASE calc.pc # "reading" \/ t = db
  BY <1>1, <1>2 DEF Store0, CalcOf
<1>3. CASE ~ (calc.pc # "reading" \/ t = db)
  <2>1. calc.pc = "reading"
    BY <1>3
  <2>2. PICK larger \in BOOLEAN :
          calc' = [calc EXCEPT !.quiet = FALSE, !.array = IF calc.array = <<>> /\ larger THEN db.arr ELSE calc.array]
    BY <1>3 DEF Store0
  <2>3. /\ DOMAIN calc' = DOMAIN calc /\ calc'.pc = calc.pc /\ calc'.len = calc.len /\ calc'.quiet = FALSE
        /\ calc'.array = IF calc.array = <<>> /\ larger THEN db.arr ELSE calc.array
    BY <2>2 DEF CalcOf
  <2>4. db.arr \in Seq(CveRecords)
    BY CacheFacts
  <2>5. /\ calc.len \in Nat /\ 1 <= calc.len
        /\ calc.array = <<>> => calc.len <= Len(db.arr)
        /\ calc.array # <<>> => calc.array \in Seq(CveRecords) /\ calc.len <= Len(calc.array)
    BY <2>1 DEF CalcOf
  <2>6. /\ calc'.array = <<>> => calc.len <= Len(t.arr)
        /\ calc'.array # <<>> => calc'.array \in Seq(CveRecords) /\ calc.len <= Len(calc'.array)
    BY <1>1, <2>3, <2>4, <2>5
  <2> QED
    BY <1>1, <2>1, <2>3, <2>5, <2>6 DEF CalcOf
<1> QED
  BY <1>2, <1>3

LEMMA AbsorbStored ==
    ASSUME SpcInv, NEW batch \in Seq(CveRecords), NEW source, Store0(absorb(db, batch, source))
    PROVE  CacheOf(db') /\ CalcOf(calc', db') /\ calc'.pc = calc.pc
<1> DEFINE t == absorb(db, batch, source)
<1>1. MaxCacheSize \in Nat
  BY SpcAssumption
<1>2. CacheAfter(db, t)
  BY <1>1, AbsorbKeeps DEF SpcInv
<1> HIDE DEF t
<1> QED
  BY <1>2, StoreKeeps DEF SpcInv, t

LEMMA StepFetches ==
    ASSUME SpcInv, NEW f \in Fetchers, NEW pc, Step0(f, pc)
    PROVE  DOMAIN fetch' = Fetchers /\ \A g \in Fetchers : FetchOf(fetch'[g])
<1>1. <<>> \in Seq(CveRecords)
  OBVIOUS
<1> DEFINE none == [w \in Windows |-> 0]
<1>2. fetch' = [fetch EXCEPT ![f] = [@ EXCEPT !.pc = pc, !.got = <<>>, !.failed = FALSE, !.wins = none]]
  BY DEF Step0
<1> HIDE DEF none
<1>3. ASSUME NEW g \in Fetchers PROVE FetchOf(fetch'[g])
  BY <1>1, <1>2 DEF SpcInv, FetchOf
<1> QED
  BY <1>2, <1>3 DEF SpcInv

LEMMA FeedBatch ==
    ASSUME NEW source \in {"nvd", "epss", "kev", "misp", "cnnvd", "other"}, NEW b \in Feed[source]
    PROVE  b \in Seq(CveRecords)
<1>1. b \in cveLists
  BY SpcAssumption DEF cveLists
<1> QED
  BY <1>1, SpcAssumption

LEMMA SampleBatch == Samples \in Seq(CveRecords)
<1>1. Samples \in cveLists
  BY DEF cveLists
<1> QED
  BY <1>1, SpcAssumption

LEMMA SpcInitGood == SpcInit => SpcInv
<1> SUFFICES ASSUME SpcInit PROVE SpcInv
  OBVIOUS
<1>1. loadable(<<>>)
  <2>1. <<>> \in Seq(CveRecords) /\ Len(<<>>) = 0 /\ DOMAIN <<>> = 1 .. 0 /\ <<>> = <<>>
    OBVIOUS
  <2> QED
    BY <2>1, SpcAssumption DEF loadable
<1>2. CacheOf(db)
  BY <1>1, LoadedGood DEF SpcInit
<1>3. CalcOf(calc, db)
  BY DEF SpcInit, CalcOf, noCalc
<1>4. DOMAIN fetch = Fetchers /\ \A f \in Fetchers : FetchOf(fetch[f])
  <2>1. \A f \in Fetchers : fetch[f] = [pc |-> "idle", got |-> <<>>, failed |-> FALSE, wins |-> [w \in Windows |-> 0]]
    BY DEF SpcInit, idleFetch
  <2>2. <<>> \in Seq(CveRecords)
    OBVIOUS
  <2> QED
    BY <2>1, <2>2 DEF SpcInit, idleFetch, FetchOf
<1>5. loadable(savedCves)
  BY SpcAssumption DEF SpcInit
<1>6. CorrectionSound
  <2>1. MinPScore \in Int /\ MinPScore <= 1000
    BY SpcAssumption
  <2>2. correction.score = 1000 /\ correction.hits = {}
    BY DEF SpcInit, neutral
  <2>3. 1000 \in MinPScore .. 1000
    BY <2>1
  <2> QED
    BY <2>2, <2>3 DEF CorrectionSound
<1> QED
  BY <1>2, <1>3, <1>4, <1>5, <1>6 DEF SpcInv, SpcInit, noCalc

LEMMA CorrectionKept == ASSUME CorrectionSound, correction' = correction PROVE CorrectionSound'
  BY DEF CorrectionSound

\* A source that is asked, and what others bring in.
LEMMA FetchKeeps ==
    ASSUME SpcInv, NEW f \in Fetchers,
           \/ FetchFromNVD(f) \/ FetchFromEPSS(f) \/ FetchFromCISAKEV(f) \/ FetchFromMISP(f) \/ FetchFromCNNVD(f)
    PROVE  SpcInv'
<1>1. UNCHANGED <<sweep, savedCves, spcUp, correction>> /\ \E pc : Step0(f, pc)
  BY DEF FetchFromNVD, FetchFromEPSS, FetchFromCISAKEV, FetchFromMISP, FetchFromCNNVD
<1>2. \E b \in Seq(CveRecords) : \E source : Store0(absorb(db, b, source))
  <2>1. CASE FetchFromNVD(f)
    <3> DEFINE b == IF fetch[f].got = <<>> /\ (fetch[f].failed \/ ~synced) THEN Samples ELSE fetch[f].got
    <3>1. Store0(absorb(db, b, "nvd"))
      BY <2>1 DEF FetchFromNVD
    <3>2. b \in Seq(CveRecords)
      BY SampleBatch DEF SpcInv, FetchOf
    <3> HIDE DEF b
    <3> QED
      BY <3>1, <3>2
  <2>2. CASE FetchFromEPSS(f)
    <3>1. PICK b \in Feed["epss"] : Store0(absorb(db, b, "epss"))
      BY <2>2 DEF FetchFromEPSS
    <3> QED
      BY <3>1, FeedBatch
  <2>3. CASE FetchFromCISAKEV(f)
    <3>1. PICK b \in Feed["kev"] : Store0(absorb(db, b, "kev"))
      BY <2>3 DEF FetchFromCISAKEV
    <3> QED
      BY <3>1, FeedBatch
  <2>4. CASE FetchFromMISP(f)
    <3>1. PICK b \in Feed["misp"] : Store0(absorb(db, b, "misp"))
      BY <2>4 DEF FetchFromMISP
    <3> QED
      BY <3>1, FeedBatch
  <2>5. CASE FetchFromCNNVD(f)
    <3>1. PICK b \in Feed["cnnvd"] : Store0(absorb(db, b, "cnnvd"))
      BY <2>5 DEF FetchFromCNNVD
    <3> QED
      BY <3>1, FeedBatch
  <2> QED
    BY <2>1, <2>2, <2>3, <2>4, <2>5
<1>3. CacheOf(db') /\ CalcOf(calc', db') /\ calc'.pc = calc.pc
  BY <1>2, AbsorbStored
<1>4. DOMAIN fetch' = Fetchers /\ \A g \in Fetchers : FetchOf(fetch'[g])
  BY <1>1, StepFetches
<1>5. CorrectionSound'
  BY <1>1, CorrectionKept DEF SpcInv
<1> QED
  BY <1>1, <1>3, <1>4, <1>5 DEF SpcInv

LEMMA ImportKeeps ==
    ASSUME SpcInv, NEW batch \in Feed["other"], ImportOSCAL(batch) \/ AddCVEs(batch)
    PROVE  SpcInv'
<1>1. UNCHANGED <<fetch, sweep, savedCves, spcUp, correction>>
  BY DEF ImportOSCAL, AddCVEs
<1>2. \E source : Store0(absorb(db, batch, source))
  BY DEF ImportOSCAL, AddCVEs, MergeCVEs
<1>3. CacheOf(db') /\ CalcOf(calc', db') /\ calc'.pc = calc.pc
  BY <1>2, FeedBatch, AbsorbStored
<1>4. CorrectionSound'
  BY <1>1, CorrectionKept DEF SpcInv
<1> QED
  BY <1>1, <1>3, <1>4 DEF SpcInv

LEMMA ClearKeeps == ASSUME SpcInv, ClearCache PROVE SpcInv'
<1> DEFINE t == [loaded(<<>>) EXCEPT !.arr = db.arr]
<1>1. UNCHANGED <<fetch, sweep, savedCves, spcUp, correction>> /\ Store0(t)
  BY DEF ClearCache
<1>2. CacheAfter(db, t)
  <2> DEFINE k == [id \in CveIds |-> 0]
             none == [id \in CveIds |-> Unset]
  <2>1. loaded(<<>>) = [arr |-> <<>>, n |-> 0, index |-> k, low |-> none, lowDesc |-> none]
    <3>1. Len(<<>>) = 0 /\ DOMAIN <<>> = {}
      OBVIOUS
    <3>2. [id \in CveIds |-> IF \E i \in DOMAIN <<>> : <<>>[i].id = id
                             THEN CHOOSE i \in DOMAIN <<>> : <<>>[i].id = id ELSE 0] = k
      BY <3>1
    <3> QED
      BY <3>1, <3>2 DEF loaded
  <2> HIDE DEF k, none
  <2>2. /\ DOMAIN t = {"arr", "n", "index", "low", "lowDesc"} /\ t = [x \in DOMAIN t |-> t[x]]
        /\ t.arr = db.arr /\ t.n = 0 /\ t.index = k
    BY <2>1
  <2> HIDE DEF t
  <2>3. k \in [CveIds -> Nat] /\ \A id \in CveIds : k[id] = 0
    BY DEF k
  <2>4. db.arr \in Seq(CveRecords) /\ Len(db.arr) \in Nat /\ MaxCacheSize \in Nat
    BY CacheFacts, SpcAssumption DEF SpcInv
  <2> QED
    BY <2>2, <2>3, <2>4 DEF CacheOf, CacheAfter
<1> HIDE DEF t
<1>3. CacheOf(db') /\ CalcOf(calc', db') /\ calc'.pc = calc.pc
  BY <1>1, <1>2, StoreKeeps DEF SpcInv
<1>4. CorrectionSound'
  BY <1>1, CorrectionKept DEF SpcInv
<1> QED
  BY <1>1, <1>3, <1>4 DEF SpcInv

LEMMA FetchStepKeeps ==
    ASSUME SpcInv, NEW f \in Fetchers,
           StartFetch(f) \/ FinishFetch(f) \/ \E source \in DOMAIN After : Skip(f, source)
    PROVE  SpcInv'
<1>1. UNCHANGED <<db, calc, correction, spcUp, sweep>> /\ \E pc : Step0(f, pc)
  BY DEF StartFetch, FinishFetch, Skip
<1>2. DOMAIN fetch' = Fetchers /\ \A g \in Fetchers : FetchOf(fetch'[g])
  BY <1>1, StepFetches
<1>3. loadable(savedCves')
  <2>1. savedCves' = savedCves \/ savedCves' = SubSeq(db.arr, 1, db.n)
    BY DEF StartFetch, FinishFetch, Skip
  <2> QED
    BY <2>1, SavedGood DEF SpcInv
<1>4. CorrectionSound'
  BY <1>1, CorrectionKept DEF SpcInv
<1> QED
  BY <1>1, <1>2, <1>3, <1>4 DEF SpcInv

LEMMA WindowKeeps ==
    ASSUME SpcInv, NEW f \in Fetchers, NEW w \in Windows, fetchNVDWindow(f, w)
    PROVE  SpcInv'
<1>1. UNCHANGED <<db, calc, correction, spcUp, sweep, savedCves>>
  BY DEF fetchNVDWindow
<1>2. DOMAIN fetch' = Fetchers /\ \A g \in Fetchers : FetchOf(fetch'[g])
  <2>1. CASE \E b \in Feed["nvd"] : fetch' = [fetch EXCEPT ![f].got = @ \o b, ![f].wins[w] = finishedWindow]
    <3>1. PICK b \in Feed["nvd"] : fetch' = [fetch EXCEPT ![f].got = @ \o b, ![f].wins[w] = finishedWindow]
      BY <2>1
    <3>2. b \in Seq(CveRecords)
      BY FeedBatch
    <3>3. \A g \in Fetchers : /\ DOMAIN fetch'[g] = DOMAIN fetch[g]
                              /\ fetch'[g].got = IF g = f THEN fetch[f].got \o b ELSE fetch[g].got
      BY <3>1 DEF SpcInv, FetchOf
    <3>4. fetch[f].got \o b \in Seq(CveRecords)
      BY <3>2 DEF SpcInv, FetchOf
    <3> QED
      BY <3>1, <3>3, <3>4 DEF SpcInv, FetchOf
  <2>2. CASE fetch' = [fetch EXCEPT ![f].wins[w] = @ + 1, ![f].failed = @ \/ fetch[f].wins[w] = MaxRetries]
    BY <2>2 DEF SpcInv, FetchOf
  <2>3. CASE fetch' = [fetch EXCEPT ![f].wins[w] = finishedWindow, ![f].failed = TRUE]
    BY <2>3 DEF SpcInv, FetchOf
  <2> QED
    BY <2>1, <2>2, <2>3 DEF fetchNVDWindow
<1>3. CorrectionSound'
  BY <1>1, CorrectionKept DEF SpcInv
<1> QED
  BY <1>1, <1>2, <1>3 DEF SpcInv

LEMMA CleanupKeeps == ASSUME SpcInv, CleanupCopies PROVE SpcInv'
<1>1. UNCHANGED <<db, calc, correction, fetch, spcUp, savedCves>>
  BY DEF CleanupCopies
<1> DEFINE K == {i \in 1 .. db.n : db.arr[i].recent \/ db.arr[i].kev}
           before(i, j) == i < j
<1>2. PICK q : /\ q \in Sortings(K, before) /\ Len(q) < db.n
               /\ sweep' = <<[k \in DOMAIN q |-> db.arr[q[k]]]>>
  BY DEF CleanupCopies
<1>3. Cardinality(K) \in Nat
  <2>1. db.n \in Nat
    BY CacheFacts DEF SpcInv
  <2>2. IsFiniteSet(1 .. db.n)
    BY <2>1, FS_Interval
  <2>3. IsFiniteSet(K)
    <3>1. K \subseteq 1 .. db.n
      OBVIOUS
    <3> QED
      BY <2>2, <3>1, FS_Subset, Zenon
  <2> QED
    BY <2>3, FS_CardinalityType, Zenon
<1>4. q \in [1 .. Cardinality(K) -> K] /\ \A i, j \in DOMAIN q : i < j => q[i] # q[j] /\ q[i] < q[j]
  BY <1>2 DEF Sortings
<1>5. K \in SUBSET (1 .. db.n)
  OBVIOUS
<1> DEFINE m == Cardinality(K)
           kept == [k \in DOMAIN q |-> db.arr[q[k]]]
<1>6. loadable(kept)
  <2>1. CacheOf(db) /\ m \in Nat /\ q \in [1 .. m -> K] /\ Len(q) < db.n
    BY <1>2, <1>3, <1>4 DEF SpcInv
  <2>2. kept = [k \in 1 .. m |-> kept[k]] /\ \A k \in 1 .. m : kept[k] = db.arr[q[k]]
    <3>1. DOMAIN q = 1 .. m
      BY <2>1
    <3> HIDE DEF m, K
    <3> QED
      BY <3>1
  <2> HIDE DEF m, K, kept
  <2>3. KeptOf(db, m, K, q, kept)
    BY <1>4, <1>5, <2>1, <2>2 DEF KeptOf
  <2> QED
    BY <2>1, <2>3, KeptGood
<1> HIDE DEF K
<1>7. sweep' # <<>> => loadable(sweep'[1])
  BY <1>2, <1>6
<1>8. CorrectionSound'
  BY <1>1, CorrectionKept DEF SpcInv
<1> QED
  BY <1>1, <1>7, <1>8 DEF SpcInv

LEMMA ReplaceKeeps == ASSUME SpcInv, CleanupReplaces PROVE SpcInv'
<1>1. UNCHANGED <<correction, fetch, spcUp, savedCves>> /\ sweep' = <<>>
  BY DEF CleanupReplaces
<1>2. loadable(sweep[1])
  BY DEF SpcInv, CleanupReplaces
<1>3. CacheOf(db')
  <2> DEFINE s == loaded(sweep[1])
  <2>1. CacheOf(s)
    BY <1>2, LoadedGood
  <2>2. db' = [s EXCEPT !.low = db.low, !.lowDesc = db.lowDesc]
    BY DEF CleanupReplaces
  <2> HIDE DEF s
  <2>3. /\ DOMAIN db' = DOMAIN s /\ db' = [x \in DOMAIN db' |-> db'[x]]
        /\ db'.arr = s.arr /\ db'.n = s.n /\ db'.index = s.index
    BY <2>1, <2>2 DEF CacheOf
  <2> QED
    BY <2>1, <2>3 DEF CacheOf
<1>4. CalcOf(calc', db') /\ calc'.pc = calc.pc
  <2>1. CASE calc.pc = "reading" /\ calc.array = <<>>
    <3>1. calc' = [calc EXCEPT !.array = db.arr, !.quiet = FALSE]
      BY <2>1 DEF CleanupReplaces
    <3>2. /\ DOMAIN calc' = DOMAIN calc /\ calc'.pc = calc.pc /\ calc'.len = calc.len /\ calc'.quiet = FALSE
          /\ calc'.array = db.arr
      BY <3>1 DEF SpcInv, CalcOf
    <3>3. calc.len \in Nat /\ 1 <= calc.len /\ calc.len <= Len(db.arr)
      BY <2>1 DEF SpcInv, CalcOf
    <3>4. db.arr \in Seq(CveRecords)
      BY CacheFacts DEF SpcInv
    <3>5. db.arr # <<>>
      BY <3>3, <3>4
    <3> QED
      BY <3>2, <3>3, <3>4, <3>5 DEF SpcInv, CalcOf
  <2>2. CASE ~ (calc.pc = "reading" /\ calc.array = <<>>)
    <3>1. calc' = calc
      BY <2>2 DEF CleanupReplaces
    <3> QED
      BY <2>2, <3>1 DEF SpcInv, CalcOf
  <2> QED
    BY <2>1, <2>2
<1>5. CorrectionSound'
  BY <1>1, CorrectionKept DEF SpcInv
<1> QED
  BY <1>1, <1>3, <1>4, <1>5 DEF SpcInv

LEMMA EmptyGood == loadable(<<>>) /\ CacheOf(loaded(<<>>))
<1>1. <<>> \in Seq(CveRecords) /\ Len(<<>>) = 0 /\ DOMAIN <<>> = 1 .. 0 /\ <<>> = <<>>
  OBVIOUS
<1>2. loadable(<<>>)
  BY <1>1, SpcAssumption DEF loadable
<1> QED
  BY <1>2, LoadedGood

LEMMA LifeKeeps == ASSUME SpcInv, StartSpc \/ StopSpc \/ RestartSpc PROVE SpcInv'
<1>1. correction' = correction /\ CorrectionSound'
  BY CorrectionKept DEF SpcInv, StartSpc, StopSpc, RestartSpc
<1>2. CASE StartSpc
  <2>1. CacheOf(db')
    BY <1>2, LoadedGood DEF SpcInv, StartSpc
  <2>2. CalcOf(calc', db') /\ calc' = calc
    BY <1>2 DEF SpcInv, StartSpc, CalcOf
  <2> QED
    BY <1>1, <1>2, <2>1, <2>2 DEF SpcInv, StartSpc
<1>3. CASE StopSpc
  <2>1. loadable(savedCves')
    BY <1>3, SavedGood DEF SpcInv, StopSpc
  <2>2. DOMAIN fetch' = Fetchers /\ \A f \in Fetchers : FetchOf(fetch'[f])
    BY <1>3 DEF SpcInv, StopSpc, FetchOf
  <2> QED
    BY <1>1, <1>3, <2>1, <2>2 DEF SpcInv, StopSpc
<1>4. CASE RestartSpc
  <2>1. CacheOf(db')
    BY <1>4, EmptyGood DEF RestartSpc
  <2>2. CalcOf(calc', db') /\ calc'.pc = "idle"
    BY <1>4 DEF RestartSpc, CalcOf, noCalc
  <2>3. DOMAIN fetch' = Fetchers /\ \A f \in Fetchers : FetchOf(fetch'[f])
    <3>1. \A f \in Fetchers : fetch'[f] = [pc |-> "idle", got |-> <<>>, failed |-> FALSE, wins |-> [w \in Windows |-> 0]]
      BY <1>4 DEF RestartSpc, idleFetch
    <3>2. <<>> \in Seq(CveRecords)
      OBVIOUS
    <3> QED
      BY <1>4, <3>1, <3>2 DEF RestartSpc, idleFetch, FetchOf
  <2> QED
    BY <1>1, <1>4, <2>1, <2>2, <2>3 DEF SpcInv, RestartSpc
<1> QED
  BY <1>2, <1>3, <1>4

LEMMA BeginKeeps == ASSUME SpcInv, CalculateBegins PROVE SpcInv'
<1>1. UNCHANGED <<db, fetch, sweep, savedCves, spcUp>> /\ spcUp = "up"
  BY DEF CalculateBegins
<1>2. db.n \in Nat /\ db.n <= Len(db.arr)
  BY CacheFacts DEF SpcInv
<1>3. CASE db.n = 0 \/ (inventory.cpes = {} /\ inventory.pkgs = {})
  <2>1. calc' = calc /\ correction'.score = 1000 /\ correction'.hits = {}
    BY <1>3 DEF CalculateBegins, neutral
  <2>2. 1000 \in MinPScore .. 1000
    BY SpcAssumption
  <2>3. CorrectionSound'
    BY <2>1, <2>2 DEF CorrectionSound
  <2> QED
    BY <1>1, <2>1, <2>3 DEF SpcInv
<1>4. CASE ~ (db.n = 0 \/ (inventory.cpes = {} /\ inventory.pkgs = {}))
  <2>1. calc' = [pc |-> "reading", len |-> db.n, array |-> <<>>, quiet |-> TRUE, inv |-> inventory, kevs |-> kevCatalog]
    BY <1>4 DEF CalculateBegins
  <2>2. correction' = correction
    BY <1>4 DEF CalculateBegins
  <2>3. CalcOf(calc', db')
    BY <1>1, <1>2, <1>4, <2>1 DEF CalcOf
  <2>4. CorrectionSound'
    BY <2>2, CorrectionKept DEF SpcInv
  <2> QED
    BY <1>1, <2>3, <2>4 DEF SpcInv
<1> QED
  BY <1>3, <1>4

\* What a walk over the array finds.
CountedWalk(A, len, level, inv, kevs, pens, hits) ==
    /\ A \in Seq(CveRecords) /\ len \in Nat /\ len <= Len(A)
    /\ \A i \in 1 .. len : level[i] \in 0 .. 4
    /\ \A i \in 1 .. len : pens[i] = IF level[i] = 0 THEN 0 ELSE penalty(A[i], level[i], inv, kevs)
    /\ \A h \in hits : h.at \in 1 .. len /\ h.penalty = pens[h.at]

LEMMA WalkCounts ==
    ASSUME NEW A, NEW len, NEW level, NEW inv, NEW kevs, NEW pens, NEW hits,
           CountedWalk(A, len, level, inv, kevs, pens, hits),
           NEW kept, kept = IF hits = {} THEN 1000 ELSE 1000 - totalPenalty(len, pens),
           NEW score, score = IF kept < MinPScore THEN MinPScore ELSE kept
    PROVE  /\ score \in MinPScore .. 1000
           /\ \A h \in hits : score > MinPScore => score <= 1000 - h.penalty
<1>0. len \in Nat /\ \A h \in hits : h.at \in 1 .. len /\ h.penalty = pens[h.at]
  BY DEF CountedWalk
<1>1. ASSUME NEW i \in 1 .. len PROVE pens[i] \in Nat
  <2>1. A[i] \in CveRecords /\ pens[i] = IF level[i] = 0 THEN 0 ELSE penalty(A[i], level[i], inv, kevs)
    BY DEF CountedWalk
  <2>2. level[i] # 0 => level[i] \in 1 .. 4
    BY DEF CountedWalk
  <2> QED
    BY <2>1, <2>2, PenaltyIsNat
<1>2. totalPenalty(len, pens) \in Nat /\ \A i \in 1 .. len : pens[i] <= totalPenalty(len, pens)
  BY <1>0, <1>1, TotalBounds
<1>3. MinPScore \in Int /\ MinPScore <= 1000
  BY SpcAssumption
<1>4. kept \in Int /\ kept <= 1000
  BY <1>2
<1>5. score \in MinPScore .. 1000
  BY <1>3, <1>4
<1>6. ASSUME NEW h \in hits, score > MinPScore PROVE score <= 1000 - h.penalty
  <2>1. score = 1000 - totalPenalty(len, pens)
    BY <1>3, <1>4, <1>6
  <2>2. h.penalty \in Nat /\ h.penalty <= totalPenalty(len, pens)
    BY <1>0, <1>1, <1>2
  <2> QED
    BY <1>2, <2>1, <2>2
<1> QED
  BY <1>5, <1>6

LEMMA CalculateKeeps == ASSUME SpcInv, Calculate PROVE SpcInv'
<1> DEFINE A == IF calc.array = <<>> THEN db.arr ELSE calc.array
           seen0 == SubSeq(A, 1, calc.len)
           low == [id \in CveIds |->
                     IF db.low[id] = Unset /\ \E c \in Range(seen0) : c.id = id /\ c.cpes # None0
                     THEN <<(CHOOSE c \in Range(seen0) : c.id = id /\ c.cpes # None0).cpes>> ELSE db.low[id]]
           desc == [id \in CveIds |->
                     IF db.lowDesc[id] = Unset /\ calc.inv.pkgs # {}
                        /\ \E c \in Range(seen0) : c.id = id /\ c.cpes = None0
                     THEN <<(CHOOSE c \in Range(seen0) : c.id = id /\ c.cpes = None0).desc>> ELSE db.lowDesc[id]]
           level(c) == matchCPEFast(c, calc.inv, low[c.id], desc[c.id])
           pens == [i \in 1 .. calc.len |->
                      IF level(seen0[i]) = 0 THEN 0 ELSE penalty(seen0[i], level(seen0[i]), calc.inv, calc.kevs)]
           hits == {[at |-> i, id |-> seen0[i].id, level |-> level(seen0[i]), penalty |-> pens[i]] :
                       i \in {j \in 1 .. calc.len : level(seen0[j]) > 0}}
           kept == IF hits = {} THEN 1000 ELSE 1000 - totalPenalty(calc.len, pens)
           score == IF kept < MinPScore THEN MinPScore ELSE kept
           affected == [i \in 1 .. Cardinality(hits) |->
                          (CHOOSE h \in hits : Cardinality({g \in hits : g.at <= h.at}) = i).id]
<1>1. /\ calc.pc = "reading" /\ UNCHANGED <<fetch, sweep, savedCves, spcUp>> /\ calc' = noCalc
      /\ db' = [db EXCEPT !.low = low, !.lowDesc = desc]
      /\ correction' = [score |-> score, action |-> ClassifyAction(score), hits |-> hits,
                        affected |-> affected, quiet |-> calc.quiet]
  BY DEF Calculate
<1>2. /\ correction'.score = score /\ correction'.hits = hits /\ correction'.quiet = calc.quiet
  <2> HIDE DEF score, hits, affected
  <2> QED
    BY <1>1
<1>3. A \in Seq(CveRecords) /\ calc.len \in Nat /\ calc.len <= Len(A) /\ Len(A) \in Nat
  <2>1. db.arr \in Seq(CveRecords)
    BY CacheFacts DEF SpcInv
  <2>2. /\ calc.len \in Nat
        /\ calc.array = <<>> => calc.len <= Len(db.arr)
        /\ calc.array # <<>> => calc.array \in Seq(CveRecords) /\ calc.len <= Len(calc.array)
    BY <1>1 DEF SpcInv, CalcOf
  <2>3. A \in Seq(CveRecords) /\ calc.len <= Len(A)
    BY <2>1, <2>2
  <2> QED
    BY <2>2, <2>3
<1>4. \A i \in 1 .. calc.len : seen0[i] = A[i]
  <2> HIDE DEF A
  <2> QED
    BY <1>3
<1> DEFINE levels == [i \in 1 .. calc.len |-> level(A[i])]
<1>5. \A i \in 1 .. calc.len : levels[i] = level(seen0[i]) /\ levels[i] \in 0 .. 4
  <2>1. \A c : level(c) \in 0 .. 4
    BY LevelOf
  <2> HIDE DEF level, A, seen0
  <2> QED
    BY <1>4, <2>1
<1>6. \A i \in 1 .. calc.len :
        pens[i] = IF levels[i] = 0 THEN 0 ELSE penalty(A[i], levels[i], calc.inv, calc.kevs)
  <2> HIDE DEF level, A, seen0, levels
  <2> QED
    BY <1>4, <1>5
<1>7. \A h \in hits : /\ h.at \in 1 .. calc.len /\ h.penalty = pens[h.at] /\ h.id = A[h.at].id
                      /\ h = [at |-> h.at, id |-> A[h.at].id, level |-> levels[h.at], penalty |-> pens[h.at]]
  <2> HIDE DEF level, A, seen0, levels, pens
  <2> QED
    BY <1>4, <1>5
<1>8. /\ score \in MinPScore .. 1000
      /\ \A h \in hits : score > MinPScore => score <= 1000 - h.penalty
  <2>1. kept = IF hits = {} THEN 1000 ELSE 1000 - totalPenalty(calc.len, pens)
    OBVIOUS
  <2>2. score = IF kept < MinPScore THEN MinPScore ELSE kept
    OBVIOUS
  <2> HIDE DEF A, levels, pens, hits, kept, score
  <2>3. CountedWalk(A, calc.len, levels, calc.inv, calc.kevs, pens, hits)
    BY <1>3, <1>5, <1>6, <1>7 DEF CountedWalk
  <2> QED
    BY <2>1, <2>2, <2>3, WalkCounts
<1>9. ASSUME calc.quiet, NEW g \in hits, NEW h \in hits, g.id = h.id PROVE g = h
  <2> HIDE DEF hits, levels, pens
  <2>1. A = db.arr /\ calc.len = db.n
    BY <1>1, <1>9 DEF SpcInv, CalcOf
  <2>2. /\ g.at \in 1 .. db.n /\ h.at \in 1 .. db.n /\ db.arr[g.at].id = db.arr[h.at].id
    <3> HIDE DEF A
    <3> QED
      BY <1>7, <1>9, <2>1
  <2>3. g.at = h.at
    <3>1. db.n \in Nat /\ db.n <= Len(db.arr) /\ Len(db.arr) \in Nat
      BY CacheFacts DEF SpcInv
    <3>2. db.arr[g.at].id \in CveIds
      BY <2>2, <3>1, CacheFacts DEF SpcInv
    <3>3. db.index[db.arr[g.at].id] = g.at /\ db.index[db.arr[g.at].id] = h.at
      BY <2>2, <3>2, CacheFacts DEF SpcInv
    <3> QED
      BY <3>3
  <2> HIDE DEF A
  <2> QED
    BY <1>7, <2>3
<1>10. CorrectionSound'
  <2> HIDE DEF score, hits
  <2> QED
    BY <1>2, <1>8, <1>9 DEF CorrectionSound
<1>11. CacheOf(db')
  <2> HIDE DEF low, desc
  <2>1. /\ DOMAIN db' = DOMAIN db /\ db' = [x \in DOMAIN db' |-> db'[x]]
        /\ db'.arr = db.arr /\ db'.n = db.n /\ db'.index = db.index
    BY <1>1 DEF SpcInv, CacheOf
  <2> QED
    BY <2>1 DEF SpcInv, CacheOf
<1>12. CalcOf(calc', db') /\ calc'.pc = "idle"
  BY <1>1 DEF CalcOf, noCalc
<1> QED
  BY <1>1, <1>10, <1>11, <1>12 DEF SpcInv

LEMMA SpcStep == ASSUME SpcInv, [SpcNext]_spcVars PROVE SpcInv'
<1>1. ASSUME UNCHANGED <<db, calc, fetch, sweep, savedCves, spcUp, correction>> PROVE SpcInv'
  <2>1. CorrectionSound'
    BY <1>1, CorrectionKept DEF SpcInv
  <2> QED
    BY <1>1, <2>1 DEF SpcInv
<1>2. CASE UNCHANGED spcVars
  BY <1>1, <1>2 DEF spcVars
<1>3. CASE TimerFires
  <2>1. UNCHANGED <<db, calc, fetch, sweep, savedCves, spcUp, correction>>
    BY <1>3 DEF TimerFires
  <2> QED
    BY <1>1, <2>1
<1>4. ASSUME NEW asset, UpsertAsset(asset) PROVE SpcInv'
  <2>1. UNCHANGED <<db, calc, fetch, sweep, savedCves, spcUp, correction>>
    BY <1>4 DEF UpsertAsset
  <2> QED
    BY <1>1, <2>1
<1> QED
  BY <1>2, <1>3, <1>4, FetchKeeps, FetchStepKeeps, WindowKeeps, ImportKeeps, ClearKeeps, CleanupKeeps, ReplaceKeeps,
     LifeKeeps, BeginKeeps, CalculateKeeps DEF SpcNext

THEOREM PostureStaysSound == PlatformSpec => []SpcSound
<1>1. PlatformInit => SpcInv
  BY SpcInitGood DEF PlatformInit
<1>2. SpcInv /\ [PlatformNext]_platformVars => SpcInv'
  <2> SUFFICES ASSUME SpcInv, [PlatformNext]_platformVars PROVE SpcInv'
    OBVIOUS
  <2>1. [SpcNext]_spcVars
    BY DEF PlatformNext, Alone, platformVars
  <2> QED
    BY <2>1, SpcStep
<1>3. SpcInv => SpcSound
  <2> SUFFICES ASSUME SpcInv PROVE SpcSound
    OBVIOUS
  <2>1. db.n \in Nat /\ db.index \in [CveIds -> Nat]
    BY CacheFacts DEF SpcInv
  <2>2. CacheSound
    BY <2>1 DEF SpcInv, CacheOf, CacheSound
  <2> QED
    BY <2>2 DEF SpcInv, SpcSound
<1> QED
  BY <1>1, <1>2, <1>3, PTL DEF PlatformSpec
=============================================================================
