-------------------------- MODULE KernelCallsProofs -------------------------
(***************************************************************************)
(* Proofs about WorkerPool, for any number of tasks and any capacity, about*)
(* ResilienceCircuit, for any number of calls and breakers and every       *)
(* threshold, and about InterceptorBreaker, for any number of requests and *)
(* records, any window and any tolerance of trials.                        *)
(***************************************************************************)
EXTENDS WorkerPool, ResilienceCircuit, InterceptorBreaker, FiniteSetTheorems, TLAPS

-----------------------------------------------------------------------------
(* The worker pool.                                                        *)
(*                                                                         *)
(* Types need the accounting of slots: that a slot returned was taken is   *)
(* what keeps the counter from going below zero.  That nothing starts      *)
(* after Shutdown needs that the wait ended with no worker past its second *)
(* guard, and that later ones find the context cancelled.                  *)

\* The workers that own a slot.
Holders == {t \in Tasks : pc[t] \in Holding}

\* The context is cancelled before the wait, and when the wait is over no
\* worker is past the second guard.
Drained ==
    /\ shutdown # "no" => cancelled
    /\ shutdown = "returned" => \A t \in Tasks : pc[t] \notin Holding \cup {"queued"}

PoolInv == TypeOK /\ SlotsAccounted /\ Drained

\* A worker that takes a slot is one more holder.
LEMMA HolderAdded ==
    ASSUME TypeOK, NEW t \in Tasks, pc[t] \notin Holding, NEW label \in Holding, Goto(t, label)
    PROVE  /\ IsFiniteSet(Holders)
           /\ Cardinality(Holders') = Cardinality(Holders) + 1
<1>1. IsFiniteSet(Holders)
  BY TasksAssumption, FS_Subset DEF Holders
<1>2. Holders' = Holders \cup {t}
  BY DEF Holders, Goto, TypeOK
<1>3. t \notin Holders
  BY DEF Holders
<1> QED
  BY <1>1, <1>2, <1>3, FS_AddElement

\* A worker that leaves is one holder less, and there was one.
LEMMA HolderRemoved ==
    ASSUME TypeOK, NEW t \in Tasks, pc[t] \in Holding, Goto(t, "ended")
    PROVE  /\ Cardinality(Holders') = Cardinality(Holders) - 1
           /\ Cardinality(Holders) \in Nat \ {0}
<1>1. IsFiniteSet(Holders)
  BY TasksAssumption, FS_Subset DEF Holders
<1>2. Holders' = Holders \ {t}
  BY DEF Holders, Goto, TypeOK, Holding
<1>3. t \in Holders
  BY DEF Holders
<1>4. Cardinality(Holders') = Cardinality(Holders) - 1
  BY <1>1, <1>2, <1>3, FS_RemoveElement
<1>5. Cardinality(Holders) \in Nat /\ Cardinality(Holders) # 0
  BY <1>1, <1>3, FS_CardinalityType, FS_EmptySet
<1> QED
  BY <1>4, <1>5

\* The worker pool starts in the invariant.
LEMMA PoolInitInv == Init => PoolInv
<1> SUFFICES ASSUME Init PROVE PoolInv
  OBVIOUS
<1>1. TypeOK
  <2>1. slots \in 0..MaxConcurrency
    BY ConcurrencyAssumption DEF Init
  <2> QED
    BY <2>1 DEF Init, TypeOK
<1>2. {t \in Tasks : pc[t] \in Holding} = {}
  BY DEF Init, Holding
<1>3. SlotsAccounted
  BY <1>2, FS_EmptySet DEF SlotsAccounted, Init
<1> QED
  BY <1>1, <1>3 DEF PoolInv, Drained, Init

\* The last steps of a worker return the slot it owns.
LEMMA LeaveInv ==
    ASSUME PoolInv, NEW t \in Tasks, pc[t] \in Holding, Leave(t),
           UNCHANGED <<cancelled, shutdown>>,
           task' \in [Tasks -> {"none", "running", "ok", "error"}],
           counted' \in [Tasks -> SUBSET {"completed", "failed", "timeout"}]
    PROVE  PoolInv'
<1>1. /\ Cardinality(Holders') = Cardinality(Holders) - 1
      /\ Cardinality(Holders) \in Nat \ {0}
  BY HolderRemoved DEF PoolInv, Leave
<1>2. slots = Cardinality(Holders)
  BY DEF PoolInv, SlotsAccounted, Holders
<1>3. SlotsAccounted'
  BY <1>1, <1>2 DEF Leave, SlotsAccounted, Holders
<1>4. slots' \in 0..MaxConcurrency
  BY <1>1, <1>2, ConcurrencyAssumption DEF PoolInv, TypeOK, Leave
<1>5. TypeOK'
  BY <1>4 DEF PoolInv, TypeOK, Leave, Goto
<1>6. Drained'
  BY DEF PoolInv, Drained, Leave, Goto, TypeOK, Holding
<1> QED
  BY <1>3, <1>5, <1>6 DEF PoolInv

\* The invariant is preserved by every step.
LEMMA PoolStepInv == PoolInv /\ [Next]_vars => PoolInv'
<1> SUFFICES ASSUME PoolInv, [Next]_vars PROVE PoolInv'
  OBVIOUS
<1>t. TypeOK
  BY DEF PoolInv
<1>h. slots = Cardinality(Holders)
  BY DEF PoolInv, SlotsAccounted, Holders
<1>1. CASE UNCHANGED vars
  BY <1>1 DEF vars, PoolInv, TypeOK, SlotsAccounted, Drained
<1>2. CASE Cancel
  BY <1>2 DEF Cancel, PoolInv, TypeOK, SlotsAccounted, Drained
<1>3. CASE WaitReturns
  BY <1>3 DEF WaitReturns, PoolInv, TypeOK, SlotsAccounted, Drained, Waited
<1>4. ASSUME NEW t \in Tasks, SubmitWithTimeout(t) \/ Spawn(t) \/ Guard2(t) \/ QueueCancelled(t)
      PROVE  PoolInv'
  <2>1. Holders' = Holders
    BY <1>4, <1>t
      DEF SubmitWithTimeout, Spawn, Guard2, QueueCancelled, Goto, Holders, TypeOK,
                      Holding
  <2>2. SlotsAccounted'
    BY <1>4, <1>h, <2>1
      DEF SubmitWithTimeout, Spawn, Guard2, QueueCancelled, SlotsAccounted,
                            Holders
  <2>3. TypeOK'
    BY <1>4, <1>t DEF SubmitWithTimeout, Spawn, Guard2, QueueCancelled, Goto, TypeOK, Waited
  <2>4. Drained'
    BY <1>4
      DEF PoolInv, TypeOK, SubmitWithTimeout, Spawn, Guard2, QueueCancelled, Goto,
          Drained,
                Holding
  <2> QED
    BY <2>2, <2>3, <2>4 DEF PoolInv
<1>5. ASSUME NEW t \in Tasks, Acquire(t)
      PROVE  PoolInv'
  <2>1. Cardinality(Holders') = Cardinality(Holders) + 1
    BY <1>5, <1>t, HolderAdded DEF Acquire, Holding
  <2>2. SlotsAccounted'
    BY <1>5, <1>h, <2>1 DEF Acquire, SlotsAccounted, Holders
  <2>3. TypeOK'
    BY <1>5, <1>t, ConcurrencyAssumption DEF Acquire, Goto, TypeOK, Waited, Holding
  <2>4. Drained'
    BY <1>5 DEF PoolInv, TypeOK, Acquire, Goto, Drained, Holding
  <2> QED
    BY <2>2, <2>3, <2>4 DEF PoolInv
<1>6. ASSUME NEW t \in Tasks, StartTask(t) \/ Timeout(t)
      PROVE  PoolInv'
  <2>1. Holders' = Holders
    BY <1>6, <1>t DEF StartTask, Timeout, Goto, Holders, TypeOK, Holding
  <2>2. SlotsAccounted'
    BY <1>6, <1>h, <2>1 DEF StartTask, Timeout, SlotsAccounted, Holders
  <2>3. TypeOK'
    BY <1>6, <1>t DEF StartTask, Timeout, Count, Goto, TypeOK, Waited, Holding
  <2>4. Drained'
    BY <1>6 DEF PoolInv, TypeOK, StartTask, Timeout, Goto, Drained, Holding
  <2> QED
    BY <2>2, <2>3, <2>4 DEF PoolInv
<1>7. ASSUME NEW t \in Tasks, TaskEnd(t)
      PROVE  PoolInv'
  BY <1>7 DEF TaskEnd, PoolInv, TypeOK, SlotsAccounted, Drained
<1>8. ASSUME NEW t \in Tasks, Finish(t) \/ CallbackPanic(t) \/ Drain(t)
      PROVE  PoolInv'
  <2>1. pc[t] \in Holding /\ Leave(t) /\ UNCHANGED <<cancelled, task, shutdown>>
    BY <1>8 DEF Finish, CallbackPanic, Drain, Holding
  <2>2. counted' \in [Tasks -> SUBSET {"completed", "failed", "timeout"}]
    BY <1>8, <1>t DEF Finish, CallbackPanic, Drain, Count, TypeOK
  <2>3. task' \in [Tasks -> {"none", "running", "ok", "error"}]
    BY <1>t, <2>1 DEF TypeOK
  <2> QED
    BY <2>1, <2>2, <2>3, LeaveInv
<1> QED
  BY <1>1, <1>2, <1>3, <1>4, <1>5, <1>6, <1>7, <1>8 DEF Next, Worker

\* Types of the pool's variables; in particular the semaphore never holds more
\* tokens than its capacity and none is taken out that was not put in.
THEOREM PoolTypeCorrect == Spec => []TypeOK
<1>1. PoolInv => TypeOK
  BY DEF PoolInv
<1> QED
  BY PoolInitInv, PoolStepInv, <1>1, PTL DEF Spec

\* No slot of the semaphore is ever leaked or returned twice.
THEOREM NoSlotLeaked == Spec => []SlotsAccounted
<1>1. PoolInv => SlotsAccounted
  BY DEF PoolInv
<1> QED
  BY PoolInitInv, PoolStepInv, <1>1, PTL DEF Spec

\* Once Shutdown has returned no worker starts a task.
THEOREM ShutdownIsFinal == Spec => NoStartAfterShutdown
<1>1. PoolInv /\ [Next]_vars =>
        [shutdown = "returned" =>
           \A t \in Tasks : pc'[t] = "running" => pc[t] = "running"]_vars
  <2> SUFFICES ASSUME PoolInv, Next, shutdown = "returned", NEW t \in Tasks, pc'[t] = "running"
               PROVE  pc[t] = "running"
    OBVIOUS
  <2>1. pc[t] # "acquired"
    BY DEF PoolInv, Drained, Holding
  <2>2. CASE Cancel \/ WaitReturns
    BY <2>2 DEF Cancel, WaitReturns
  <2>3. ASSUME NEW u \in Tasks, SubmitWithTimeout(u) \/ Worker(u) \/ TaskEnd(u)
        PROVE  pc[t] = "running"
    <3>1. u = t \/ pc'[t] = pc[t]
      BY <2>3
        DEF PoolInv, TypeOK, SubmitWithTimeout, Worker, TaskEnd, Spawn, Guard2,
            Acquire,
                  QueueCancelled, StartTask, Finish, Timeout, CallbackPanic, Drain, Leave, Goto
    <3>2. CASE u = t
      BY <2>1, <2>3, <3>2
        DEF PoolInv, TypeOK, SubmitWithTimeout, Worker, TaskEnd, Spawn, Guard2,
              Acquire, QueueCancelled, StartTask, Finish, Timeout, CallbackPanic, Drain, Leave, Goto
    <3> QED
      BY <3>1, <3>2
  <2> QED
    BY <2>2, <2>3 DEF Next
<1> QED
  BY PoolInitInv, PoolStepInv, <1>1, PTL DEF Spec, NoStartAfterShutdown

\* A worker has counted nothing before its task ended or timed out, and a
\* draining one has counted no completion.
Uncounted ==
    /\ CompletedInTime
    /\ \A t \in Tasks :
          /\ pc[t] \in {"idle", "submitting", "spawned", "queued", "acquired", "running"} =>
                counted[t] = {}
          /\ pc[t] = "draining" => "completed" \notin counted[t]

\* Each step of a worker keeps what was counted in line with its progress.
LEMMA CountStep == TypeOK /\ Uncounted /\ [Next]_vars => Uncounted'
<1> SUFFICES ASSUME TypeOK, Uncounted, [Next]_vars PROVE Uncounted'
  OBVIOUS
<1>1. CASE UNCHANGED vars \/ Cancel \/ WaitReturns
  BY <1>1 DEF vars, Cancel, WaitReturns, Uncounted, CompletedInTime
<1>2. ASSUME NEW u \in Tasks,
             SubmitWithTimeout(u) \/ Spawn(u) \/ Guard2(u) \/ Acquire(u) \/ QueueCancelled(u)
             \/ StartTask(u) \/ TaskEnd(u) \/ Drain(u)
      PROVE  Uncounted'
  <2>1. counted' = counted
    BY <1>2
      DEF SubmitWithTimeout, Spawn, Guard2, Acquire, QueueCancelled, StartTask,
          TaskEnd, Drain
  <2>2. \A t \in Tasks : pc'[t] = pc[t] \/ t = u
    BY <1>2
      DEF TypeOK, SubmitWithTimeout, Spawn, Guard2, Acquire, QueueCancelled,
          StartTask,
                TaskEnd, Drain, Leave, Goto
  <2>3. pc'[u] \in {"submitting", "spawned", "queued", "acquired", "running"} => counted[u] = {}
    BY <1>2
      DEF TypeOK, Uncounted, SubmitWithTimeout, Spawn, Guard2, Acquire,
          QueueCancelled,
                StartTask, TaskEnd, Drain, Leave, Goto
  <2>4. pc'[u] \in {"idle", "draining"} => pc'[u] = pc[u]
    BY <1>2
      DEF TypeOK, SubmitWithTimeout, Spawn, Guard2, Acquire, QueueCancelled,
          StartTask,
                TaskEnd, Drain, Leave, Goto
  <2> QED
    BY <2>1, <2>2, <2>3, <2>4 DEF Uncounted, CompletedInTime
<1>3. ASSUME NEW u \in Tasks, Finish(u) \/ Timeout(u) \/ CallbackPanic(u)
      PROVE  Uncounted'
  <2>1. counted[u] = {}
    BY <1>3 DEF Uncounted, Finish, Timeout, CallbackPanic
  <2>2. /\ \A t \in Tasks : t # u => pc'[t] = pc[t] /\ counted'[t] = counted[t]
        /\ pc'[u] \in {"draining", "ended"}
    BY <1>3 DEF TypeOK, Finish, Timeout, CallbackPanic, Leave, Goto, Count
  <2>3. /\ "completed" \in counted'[u] => counted'[u] = {"completed"}
        /\ pc'[u] = "draining" => "completed" \notin counted'[u]
    BY <1>3, <2>1 DEF TypeOK, Finish, Timeout, CallbackPanic, Leave, Goto, Count
  <2> QED
    BY <2>2, <2>3 DEF Uncounted, CompletedInTime
<1> QED
  BY <1>1, <1>2, <1>3 DEF Next, Worker

\* Whatever times out, panics or answers late, the pool accounts for every slot
\* once and for every task once.
THEOREM AccountsExact == Spec => []PoolAccounted
<1>1. Init => Uncounted
  BY DEF Init, Uncounted, CompletedInTime
<1>2. PoolInv => TypeOK
  BY DEF PoolInv
<1>3. PoolInv /\ Uncounted => PoolAccounted
  BY DEF PoolInv, Uncounted, PoolAccounted
<1> QED
  BY PoolInitInv, PoolStepInv, CountStep, <1>1, <1>2, <1>3, PTL DEF Spec

-----------------------------------------------------------------------------
(* The circuit breaker.                                                    *)

\* A call that works on a breaker has one, and under GuardGo no success is ever
\* reported, so that a tripped breaker keeps the failures that tripped it.
CountInv ==
    /\ \A c \in Calls : at[c] = "apply" => ref[c] \in Breakers
    /\ kind = "GuardGo" =>
          /\ \A c \in Calls : operation[c] # "success"
          /\ \A b \in Breakers : state[b] # "closed" => failures[b] = Threshold

CircuitInv == CircuitTypeOK /\ CountInv

LEMMA CircuitInitInv == CircuitInit => CircuitInv
  BY ThresholdAssumption DEF CircuitInit, CircuitInv, CircuitTypeOK, CountInv

LEMMA CircuitNextInv == CircuitInv /\ [CircuitNext]_circuitVars => CircuitInv'
<1> SUFFICES ASSUME CircuitInv, [CircuitNext]_circuitVars PROVE CircuitInv'
  OBVIOUS
<1> USE ThresholdAssumption, BreakersAssumption DEF CircuitInv, CircuitTypeOK, CountInv, CallGoto, CallLeaves, Apply,
        breakerVars
<1>1. ASSUME NEW c \in Calls, Call(c) PROVE CircuitInv'
  BY <1>1 DEF Call
<1>2. ASSUME NEW c \in Calls, Lookup(c) PROVE CircuitInv'
  BY <1>2 DEF Lookup
<1>3. ASSUME NEW c \in Calls, Create(c) PROVE CircuitInv'
  <2>1. PICK b \in Breakers :
           /\ current' = b
           /\ ref' = [ref EXCEPT ![c] = b]
           /\ state' = [state EXCEPT ![b] = "closed"]
           /\ failures' = [failures EXCEPT ![b] = 0]
           /\ cooled' = [cooled EXCEPT ![b] = FALSE]
    BY <1>3 DEF Create, Unused
  <2>2. at' = [at EXCEPT ![c] = "apply"] /\ UNCHANGED <<kind, operation>>
    BY <1>3 DEF Create
  <2>3. CircuitTypeOK'
    BY <2>1, <2>2
  <2>4. CountInv'
    BY <2>1, <2>2
  <2> QED
    BY <2>3, <2>4
<1>4. ASSUME NEW c \in Calls, Allow(c) PROVE CircuitInv'
  <2>1. ref[c] \in Breakers
    BY <1>4 DEF Allow
  <2>2. /\ state' \in [Breakers -> {"closed", "open", "halfOpen"}]
        /\ \A b \in Breakers : state'[b] # "closed" => state[b] # "closed"
    BY <1>4, <2>1 DEF Allow
  <2>3. /\ at' \in [Calls -> {"idle", "lookup", "create", "apply", "running"}]
        /\ ref' \in [Calls -> Breakers \cup {NoBreaker}]
        /\ \A d \in Calls : at'[d] = "apply" => ref'[d] = ref[d] /\ at[d] = "apply"
    BY <1>4 DEF Allow
  <2>4. UNCHANGED <<kind, current, operation, failures, cooled>>
    BY <1>4 DEF Allow
  <2> QED
    BY <2>2, <2>3, <2>4
<1>5. ASSUME NEW c \in Calls, RecordFailure(c) PROVE CircuitInv'
  <2>1. ref[c] \in Breakers /\ failures[ref[c]] \in 0..Threshold
    BY <1>5 DEF RecordFailure
  <2>2. /\ at' \in [Calls -> {"idle", "lookup", "create", "apply", "running"}]
        /\ ref' \in [Calls -> Breakers \cup {NoBreaker}]
        /\ \A d \in Calls : at'[d] = "apply" => ref'[d] = ref[d] /\ at[d] = "apply"
        /\ UNCHANGED <<kind, current, operation>>
    BY <1>5 DEF RecordFailure
  <2> DEFINE goesOpen == failures[ref[c]] + 1 >= Threshold /\ state[ref[c]] # "open"
  <2>3. /\ failures' = [failures EXCEPT ![ref[c]] = IF @ < Threshold THEN @ + 1 ELSE @]
        /\ state' = [state EXCEPT ![ref[c]] = IF goesOpen THEN "open" ELSE @]
        /\ cooled' = [cooled EXCEPT ![ref[c]] = IF goesOpen THEN FALSE ELSE @]
    BY <1>5 DEF RecordFailure
  <2>4. CircuitTypeOK'
    <3>1. failures' \in [Breakers -> 0..Threshold]
      BY <2>1, <2>3
    <3>2. state' \in [Breakers -> {"closed", "open", "halfOpen"}]
      BY <2>1, <2>3
    <3>3. cooled' \in [Breakers -> BOOLEAN]
      BY <2>1, <2>3, Zenon
    <3> QED
      BY <2>2, <3>1, <3>2, <3>3
  <2>5. ASSUME kind = "GuardGo", NEW b \in Breakers, state'[b] # "closed"
        PROVE  failures'[b] = Threshold
    <3>1. CASE b # ref[c]
      BY <3>1, <2>1, <2>3, <2>5
    <3>2. CASE b = ref[c] /\ goesOpen
      <4>1. failures[b] \in Nat /\ failures[b] <= Threshold /\ failures[b] + 1 >= Threshold
        BY <3>2, <2>1
      <4>2. failures'[b] = IF failures[b] < Threshold THEN failures[b] + 1 ELSE failures[b]
        BY <3>2, <2>1, <2>3
      <4> QED
        BY <4>1, <4>2
    <3>3. CASE b = ref[c] /\ ~goesOpen
      <4>1. state[b] # "closed"
        BY <3>3, <2>3, <2>5
      <4> QED
        BY <4>1, <3>3, <2>1, <2>3, <2>5
    <3> QED
      BY <3>1, <3>2, <3>3
  <2> QED
    BY <2>2, <2>4, <2>5
<1>6. ASSUME NEW c \in Calls, RecordSuccess(c) PROVE CircuitInv'
  <2>1. ref[c] \in Breakers /\ kind # "GuardGo"
    BY <1>6 DEF RecordSuccess
  <2> QED
    BY <1>6, <2>1 DEF RecordSuccess
<1>7. ASSUME NEW c \in Calls, FunctionFails(c) PROVE CircuitInv'
  BY <1>7 DEF FunctionFails
<1>8. ASSUME NEW c \in Calls, FunctionReturns(c) PROVE CircuitInv'
  BY <1>8 DEF FunctionReturns
<1>9. ASSUME NEW b \in Breakers, Cooldown(b) PROVE CircuitInv'
  BY <1>9 DEF Cooldown
<1>10. CASE Reset
  <2>1. current \in Breakers
    BY <1>10 DEF Reset
  <2> QED
    BY <1>10, <2>1 DEF Reset
<1>11. CASE UNCHANGED circuitVars
  BY <1>11 DEF circuitVars
<1> QED
  BY <1>1, <1>2, <1>3, <1>4, <1>5, <1>6, <1>7, <1>8, <1>9, <1>10, <1>11
    DEF CircuitNext, CallStep

\* Every reachable state is well-formed; the failure count stays in its range.
THEOREM CircuitTypeCorrect == CircuitSpec => []CircuitTypeOK
<1>1. CircuitInv => CircuitTypeOK
  BY DEF CircuitInv
<1> QED
  BY <1>1, CircuitInitInv, CircuitNextInv, PTL DEF CircuitSpec

\* A trial that fails opens the circuit again.
THEOREM TrialFailureReopens == CircuitSpec => FailedTrialReopens
<1> DEFINE A == \A c \in Calls :
          /\ kind = "GuardGo" /\ at[c] = "apply" /\ at'[c] = "idle"
          /\ operation[c] = "failure" /\ state[ref[c]] = "halfOpen"
          => state'[ref[c]] = "open"
<1>1. CircuitInv /\ [CircuitNext]_circuitVars => A
  <2> SUFFICES ASSUME CircuitInv, [CircuitNext]_circuitVars, NEW c \in Calls, kind = "GuardGo", at[c] = "apply",
                      at'[c] = "idle", operation[c] = "failure", state[ref[c]] = "halfOpen"
               PROVE  state'[ref[c]] = "open"
    OBVIOUS
  <2>1. RecordFailure(c)
    <3>1. ASSUME NEW d \in Calls, CallStep(d) PROVE d = c
      BY <3>1 DEF CallStep, Call, Lookup, Create, Allow, RecordFailure, RecordSuccess,
                  FunctionFails, FunctionReturns, CallGoto, CallLeaves, CircuitInv, CircuitTypeOK
    <3>2. CallStep(c)
      BY <3>1 DEF CircuitNext, circuitVars, Cooldown, Reset
    <3> QED
      BY <3>2 DEF CallStep, Call, Lookup, Create, Allow, RecordSuccess, FunctionFails,
                  FunctionReturns, Apply
  <2>2. ref[c] \in Breakers /\ failures[ref[c]] = Threshold
    BY DEF CircuitInv, CountInv
  <2> QED
    BY <2>1, <2>2, ThresholdAssumption DEF RecordFailure, CircuitInv, CircuitTypeOK
<1> QED
  BY <1>1, CircuitInitInv, CircuitNextInv, PTL DEF CircuitSpec, FailedTrialReopens

-----------------------------------------------------------------------------
(* The breaker before the services.                                        *)

BreakerRecords == [state : {"closed", "open", "halfOpen"}, recent : BOOLEAN, window : Seq(BOOLEAN), fails : Nat]
CallPcs == {"idle", "look", "trial", "stampTrial", "handler", "failed", "succeeded", "opening", "stamp",
            "count", "reopening", "restamp", "closing", "emptying"}
CallRecords == [pc : CallPcs, ref : CircuitRecords \cup {NoRecord}, saw : Nat]

InterceptorTypeOK ==
    /\ inMap \in CircuitRecords \cup {NoRecord} /\ cleaning \in CircuitRecords \cup {NoRecord}
    /\ opened \in CircuitRecords \cup {NoRecord}
    /\ rec \in [CircuitRecords -> BreakerRecords] /\ req \in [Requests -> CallRecords]
    /\ outdated \subseteq Requests /\ miscounted \subseteq CircuitRecords
    /\ \A q \in Requests : req[q].pc \notin {"idle", "handler"} => req[q].ref \in CircuitRecords

\* What is open recently and was not undone is the record in the map, open, with its time written
\* or about to be; whoever is about to try it looked at it before.
OpenedInv ==
    opened # NoRecord /\ ~excused =>
        /\ opened = inMap /\ rec[opened].state = "open"
        /\ rec[opened].recent \/ stampPending(opened)
        /\ \A q \in Requests : req[q].ref = opened /\ req[q].pc \in {"trial", "stampTrial"} => q \in outdated

\* Failures are counted in a trial; those of a trial that ended are about to be reset.
CountedInv ==
    /\ \A q \in Requests : req[q].pc = "count" /\ q \notin outdated => rec[req[q].ref].state = "halfOpen"
    /\ \A r \in CircuitRecords : rec[r].state # "halfOpen" /\ rec[r].fails # 0 =>
           r \in miscounted \/ \E p \in Requests : req[p].ref = r /\ req[p].pc \in {"restamp", "emptying"}

InterceptorInv == InterceptorTypeOK /\ OpenedInv /\ CountedInv

\* A step of the request q on its record, which then has the value new.
Works(q, new) ==
    /\ req[q].ref \in CircuitRecords /\ new \in BreakerRecords /\ Keep(q, new)
    /\ req' \in [Requests -> CallRecords] /\ \A p \in Requests \ {q} : req'[p] = req[p]
    /\ req'[q].ref \in {req[q].ref, NoRecord}
    /\ req'[q].pc \notin {"idle", "handler"} => req'[q].ref = req[q].ref
    /\ outdated \ {q} \subseteq outdated' /\ outdated' \subseteq Requests
    /\ miscounted \ {req[q].ref} \subseteq miscounted' /\ miscounted' \subseteq CircuitRecords
    /\ inMap' = inMap /\ cleaning' = cleaning

LEMMA WorkEffect ==
    ASSUME InterceptorInv, NEW q \in Requests, NEW new, Works(q, new)
    PROVE  /\ rec' \in [CircuitRecords -> BreakerRecords]
           /\ \A s \in CircuitRecords \ {req[q].ref} : rec'[s] = rec[s]
           /\ \/ rec'[req[q].ref] = new
              \/ /\ rec'[req[q].ref] = Zero /\ req[q].ref # inMap
                 /\ \A p \in Requests : req'[p].ref # req[q].ref
<1>1. <<>> \in Seq(BOOLEAN)
  OBVIOUS
<1>2. Zero \in BreakerRecords
  BY <1>1 DEF Zero, BreakerRecords
<1>3. rec \in [CircuitRecords -> BreakerRecords]
  BY DEF InterceptorInv, InterceptorTypeOK
<1> QED
  BY <1>2, <1>3 DEF Works, Keep

LEMMA WorkKeepsCounted ==
    ASSUME InterceptorInv, NEW q \in Requests, NEW new, Works(q, new),
           \/ new.state = rec[req[q].ref].state
           \/ \A p \in Requests \ {q} : req[p].ref = req[q].ref => p \in outdated',
           req'[q].pc = "count" /\ q \notin outdated' => new.state = "halfOpen",
           new.state # "halfOpen" /\ new.fails # 0 =>
               \/ req[q].ref \in miscounted'
               \/ \E p \in Requests : req'[p].ref = req[q].ref /\ req'[p].pc \in {"restamp", "emptying"}
    PROVE  CountedInv'
<1> DEFINE r == req[q].ref
<1>1. /\ rec' \in [CircuitRecords -> BreakerRecords]
      /\ \A s \in CircuitRecords \ {r} : rec'[s] = rec[s]
      /\ rec'[r] = new \/ (rec'[r] = Zero /\ r # inMap /\ \A p \in Requests : req'[p].ref # r)
  BY WorkEffect
<1>2. /\ r \in CircuitRecords /\ \A p \in Requests \ {q} : req'[p] = req[p]
      /\ req'[q].ref \in {r, NoRecord} /\ (req'[q].pc \notin {"idle", "handler"} => req'[q].ref = r)
      /\ outdated \ {q} \subseteq outdated' /\ miscounted \ {r} \subseteq miscounted'
  BY DEF Works
<1>3. ASSUME NEW p \in Requests, req'[p].pc = "count", p \notin outdated'
      PROVE  rec'[req'[p].ref].state = "halfOpen"
  <2>1. CASE p = q
    BY <1>1, <1>2, <1>3, <2>1
  <2>2. CASE p # q
    <3>1. req[p].ref \in CircuitRecords /\ req'[p] = req[p] /\ rec[req[p].ref].state = "halfOpen"
      BY <1>2, <1>3, <2>2 DEF InterceptorInv, InterceptorTypeOK, CountedInv
    <3> QED
      BY <1>1, <1>2, <1>3, <2>2, <3>1
  <2> QED
    BY <2>1, <2>2
<1>4. ASSUME NEW s \in CircuitRecords, rec'[s].state # "halfOpen", rec'[s].fails # 0
      PROVE  s \in miscounted' \/ \E p \in Requests : req'[p].ref = s /\ req'[p].pc \in {"restamp", "emptying"}
  <2>1. CASE s = r
    <3>1. rec'[r] = new
      BY <1>1, <1>4, <2>1 DEF Zero
    <3> QED
      BY <1>4, <2>1, <3>1
  <2>2. CASE s # r
    <3>1. s \in miscounted \/ \E p \in Requests : req[p].ref = s /\ req[p].pc \in {"restamp", "emptying"}
      BY <1>1, <1>4, <2>2 DEF InterceptorInv, CountedInv
    <3> QED
      BY <1>2, <2>2, <3>1
  <2> QED
    BY <2>1, <2>2
<1> QED
  BY <1>3, <1>4 DEF CountedInv

LEMMA WorkKeepsOpened ==
    ASSUME InterceptorInv, NEW q \in Requests, NEW new, Works(q, new), opened' = opened, excused => excused',
           req[q].ref = opened /\ ~excused' =>
               /\ new.state = "open" /\ (new.recent \/ stampPending(opened)')
               /\ req'[q].pc \in {"trial", "stampTrial"} => q \in outdated'
    PROVE  OpenedInv'
<1> DEFINE r == req[q].ref
<1>1. /\ \A s \in CircuitRecords \ {r} : rec'[s] = rec[s]
      /\ rec'[r] = new \/ (rec'[r] = Zero /\ r # inMap /\ \A p \in Requests : req'[p].ref # r)
  BY WorkEffect
<1>2. /\ r \in CircuitRecords /\ \A p \in Requests \ {q} : req'[p] = req[p]
      /\ req'[q].ref \in {r, NoRecord} /\ outdated \ {q} \subseteq outdated' /\ inMap' = inMap
  BY DEF Works
<1> SUFFICES ASSUME opened # NoRecord, ~excused'
             PROVE  /\ opened = inMap' /\ rec'[opened].state = "open"
                    /\ rec'[opened].recent \/ stampPending(opened)'
                    /\ \A p \in Requests : req'[p].ref = opened /\ req'[p].pc \in {"trial", "stampTrial"} => p \in outdated'
  BY DEF OpenedInv, stampPending
<1>3. /\ opened = inMap /\ rec[opened].state = "open" /\ opened \in CircuitRecords
      /\ rec[opened].recent \/ stampPending(opened)
      /\ \A p \in Requests : req[p].ref = opened /\ req[p].pc \in {"trial", "stampTrial"} => p \in outdated
  BY DEF InterceptorInv, OpenedInv, InterceptorTypeOK
<1>4. CASE r = opened
  BY <1>1, <1>2, <1>3, <1>4
<1>5. CASE r # opened
  <2>1. rec'[opened] = rec[opened]
    BY <1>1, <1>3, <1>5
  <2>2. stampPending(opened) => stampPending(opened)'
    BY <1>2, <1>5 DEF stampPending
  <2>3. \A p \in Requests : req'[p].ref = opened /\ req'[p].pc \in {"trial", "stampTrial"} => p \in outdated'
    BY <1>2, <1>3, <1>5
  <2> QED
    BY <1>2, <1>3, <2>1, <2>2, <2>3
<1> QED
  BY <1>4, <1>5

LEMMA WorkKeepsTypes ==
    ASSUME InterceptorInv, NEW q \in Requests, NEW new, Works(q, new), opened' \in CircuitRecords \cup {NoRecord}
    PROVE  InterceptorTypeOK'
<1>1. rec' \in [CircuitRecords -> BreakerRecords]
  BY WorkEffect
<1>2. \A p \in Requests : req'[p].pc \notin {"idle", "handler"} => req'[p].ref \in CircuitRecords
  BY DEF Works, InterceptorInv, InterceptorTypeOK
<1> QED
  BY <1>1, <1>2 DEF Works, InterceptorInv, InterceptorTypeOK

\* The steps of one request that leave opened as it is.
LEMMA WorkStep ==
    ASSUME InterceptorInv, NEW q \in Requests, NEW new, Works(q, new),
           opened' = opened, excused => excused',
           \/ new.state = rec[req[q].ref].state
           \/ \A p \in Requests \ {q} : req[p].ref = req[q].ref => p \in outdated',
           req'[q].pc = "count" /\ q \notin outdated' => new.state = "halfOpen",
           new.state # "halfOpen" /\ new.fails # 0 =>
               \/ req[q].ref \in miscounted'
               \/ \E p \in Requests : req'[p].ref = req[q].ref /\ req'[p].pc \in {"restamp", "emptying"},
           req[q].ref = opened /\ ~excused' =>
               /\ new.state = "open" /\ (new.recent \/ stampPending(opened)')
               /\ req'[q].pc \in {"trial", "stampTrial"} => q \in outdated'
    PROVE  InterceptorInv'
<1>1. opened' \in CircuitRecords \cup {NoRecord}
  BY DEF InterceptorInv, InterceptorTypeOK
<1> QED
  BY <1>1, WorkKeepsTypes, WorkKeepsCounted, WorkKeepsOpened DEF InterceptorInv

\* What a request with a record has.
LEMMA RequestFacts ==
    ASSUME InterceptorInv, NEW q \in Requests, req[q].pc \notin {"idle", "handler"}
    PROVE  /\ req[q].ref \in CircuitRecords /\ its(q) = rec[req[q].ref] /\ its(q) \in BreakerRecords
           /\ req \in [Requests -> CallRecords] /\ req[q] \in CallRecords /\ outdated \subseteq Requests
           /\ miscounted \subseteq CircuitRecords
           /\ NoCall \in CallRecords /\ NoCall.pc = "idle" /\ NoCall.ref = NoRecord /\ NoRecord \notin CircuitRecords
BY RecordsAssumption
  DEF InterceptorInv, InterceptorTypeOK, its, NoCall, CallRecords, CallPcs

\* The failures of a closed or open breaker that a step of q leaves as they were.
LEMMA FailsExplained ==
    ASSUME InterceptorInv, NEW q \in Requests, req[q].pc \notin {"idle", "handler"},
           its(q).state # "halfOpen", its(q).fails # 0, req[q].pc \notin {"restamp", "emptying"},
           miscounted' = miscounted, \A p \in Requests \ {q} : req'[p] = req[p]
    PROVE  \/ req[q].ref \in miscounted'
           \/ \E p \in Requests : req'[p].ref = req[q].ref /\ req'[p].pc \in {"restamp", "emptying"}
<1>1. req[q].ref \in CircuitRecords /\ its(q) = rec[req[q].ref]
  BY RequestFacts
<1> QED
  BY <1>1 DEF InterceptorInv, CountedInv

\* The time of an opening that q does not write itself is still written or to be written.
LEMMA OpenStaysTimed ==
    ASSUME InterceptorInv, NEW q \in Requests, req[q].pc \notin {"idle", "handler", "stamp", "restamp"},
           req[q].ref = opened, ~excused, opened' = opened, \A p \in Requests \ {q} : req'[p] = req[p]
    PROVE  its(q).state = "open" /\ (its(q).recent \/ stampPending(opened)')
<1>1. req[q].ref \in CircuitRecords /\ its(q) = rec[req[q].ref] /\ NoRecord \notin CircuitRecords
  BY RequestFacts
<1> QED
  BY <1>1 DEF InterceptorInv, OpenedInv, stampPending

LEMMA AskStep == ASSUME InterceptorInv, NEW q \in Requests, askState(q) PROVE InterceptorInv'
<1>1. /\ req[q].pc = "look" /\ Keep(q, its(q))
      /\ UNCHANGED <<inMap, cleaning, opened, excused, miscounted>>
  BY DEF askState, Pass, Refuse, TimeoutOver, Asks
<1>2. /\ req[q].ref \in CircuitRecords /\ its(q) = rec[req[q].ref] /\ its(q) \in BreakerRecords
      /\ req \in [Requests -> CallRecords] /\ req[q] \in CallRecords /\ outdated \subseteq Requests
      /\ miscounted \subseteq CircuitRecords
      /\ NoCall \in CallRecords /\ NoCall.pc = "idle" /\ NoCall.ref = NoRecord /\ NoRecord \notin CircuitRecords
  BY <1>1, RequestFacts
<1>3. /\ req' \in [Requests -> CallRecords] /\ \A p \in Requests \ {q} : req'[p] = req[p]
      /\ req'[q].ref \in {req[q].ref, NoRecord} /\ req'[q].pc \in {"idle", "handler", "trial"}
      /\ req'[q].pc = "trial" => req'[q].ref = req[q].ref
      /\ outdated \ {q} \subseteq outdated' /\ outdated' \subseteq Requests
  BY <1>2
    DEF askState, Pass, Refuse, TimeoutOver, Admit, GoesAway, Moves, looks,
        CallRecords, CallPcs, NoCall
<1>4. Works(q, its(q))
  BY <1>1, <1>2, <1>3 DEF Works
<1>5. req[q].ref = opened /\ ~excused' /\ req'[q].pc = "trial" => q \in outdated'
  <2> SUFFICES ASSUME req[q].ref = opened, ~excused', req'[q].pc = "trial" PROVE q \in outdated'
    OBVIOUS
  <2>1. TimeoutOver(q)
    BY <1>2 DEF askState, Pass, Refuse, Admit, GoesAway, NoCall
  <2>2. stampPending(req[q].ref)
    BY <1>1, <1>2, <2>1 DEF InterceptorInv, OpenedInv, TimeoutOver
  <2> QED
    BY <2>1, <2>2 DEF TimeoutOver
<1>6. req[q].ref = opened /\ ~excused' => its(q).state = "open" /\ (its(q).recent \/ stampPending(opened)')
  BY <1>1, <1>3, OpenStaysTimed
<1>7. its(q).state # "halfOpen" /\ its(q).fails # 0 =>
        \/ req[q].ref \in miscounted'
        \/ \E p \in Requests : req'[p].ref = req[q].ref /\ req'[p].pc \in {"restamp", "emptying"}
  BY <1>1, <1>3, FailsExplained
<1> QED
  BY <1>1, <1>2, <1>3, <1>4, <1>5, <1>6, <1>7, WorkStep

LEMMA RequestMoves ==
    ASSUME InterceptorInv, NEW q \in Requests, req[q].pc \notin {"idle", "handler"}, NEW to \in CallPcs, Moves(q, to)
    PROVE  /\ req' \in [Requests -> CallRecords] /\ \A p \in Requests \ {q} : req'[p] = req[p]
           /\ req'[q].pc = to /\ req'[q].ref = req[q].ref
BY RequestFacts DEF Moves, CallRecords

LEMMA RequestLeaves ==
    ASSUME InterceptorInv, NEW q \in Requests, req[q].pc \notin {"idle", "handler"}, GoesAway(q) \/ Admit(q)
    PROVE  /\ req' \in [Requests -> CallRecords] /\ \A p \in Requests \ {q} : req'[p] = req[p]
           /\ req'[q].pc \in {"idle", "handler"} /\ req'[q].ref = NoRecord
BY RequestFacts DEF GoesAway, Admit, NoCall, CallRecords, CallPcs

\* A request that finds nothing to do, or only a result to enter.
LEMMA IdleWork ==
    ASSUME InterceptorInv, NEW q \in Requests, req[q].pc \notin {"idle", "handler", "stamp", "restamp", "emptying"},
           NEW new \in BreakerRecords, Keep(q, new),
           new.state = its(q).state, new.recent = its(q).recent, new.fails = its(q).fails,
           req' \in [Requests -> CallRecords], \A p \in Requests \ {q} : req'[p] = req[p],
           req'[q].ref \in {req[q].ref, NoRecord}, req'[q].pc \notin {"trial", "stampTrial"},
           req'[q].pc \notin {"idle", "handler"} => req'[q].ref = req[q].ref,
           req'[q].pc = "count" => its(q).state = "halfOpen",
           looks(q), UNCHANGED <<inMap, cleaning, opened, excused, miscounted>>
    PROVE  InterceptorInv'
<1>1. /\ req[q].ref \in CircuitRecords /\ its(q) = rec[req[q].ref]
      /\ outdated \subseteq Requests /\ miscounted \subseteq CircuitRecords
  BY RequestFacts
<1>2. outdated \ {q} \subseteq outdated' /\ outdated' \subseteq Requests
  BY <1>1 DEF looks
<1>3. Works(q, new)
  BY <1>1, <1>2 DEF Works
<1>4. req[q].ref = opened /\ ~excused' => new.state = "open" /\ (new.recent \/ stampPending(opened)')
  BY OpenStaysTimed
<1>5. new.state # "halfOpen" /\ new.fails # 0 =>
        \/ req[q].ref \in miscounted'
        \/ \E p \in Requests : req'[p].ref = req[q].ref /\ req'[p].pc \in {"restamp", "emptying"}
  BY FailsExplained
<1> QED
  BY <1>1, <1>3, <1>4, <1>5, WorkStep

LEMMA HalfOpenStep == ASSUME InterceptorInv, NEW q \in Requests, HalfOpen(q) PROVE InterceptorInv'
<1>1. req[q].pc = "trial" /\ UNCHANGED <<inMap, cleaning, opened, miscounted>>
  BY DEF HalfOpen, Asks
<1>2. /\ req[q].ref \in CircuitRecords /\ its(q) = rec[req[q].ref] /\ its(q) \in BreakerRecords
      /\ outdated \subseteq Requests /\ miscounted \subseteq CircuitRecords
  BY <1>1, RequestFacts
<1>3. CASE its(q).state = "open"
  <2> DEFINE new == [its(q) EXCEPT !.state = "halfOpen"]
  <2>1. /\ Moves(q, "stampTrial") /\ Keep(q, new)
        /\ outdated' = (outdated \ {q}) \cup {p \in Requests \ {q} : req[p].ref = req[q].ref}
        /\ excused' = (excused \/ q \in outdated)
    BY <1>3 DEF HalfOpen, Changes
  <2>2. /\ new \in BreakerRecords /\ new.state = "halfOpen"
    BY <1>2 DEF BreakerRecords
  <2>3. /\ req' \in [Requests -> CallRecords] /\ \A p \in Requests \ {q} : req'[p] = req[p]
        /\ req'[q].pc = "stampTrial" /\ req'[q].ref = req[q].ref
    BY <1>1, <2>1, RequestMoves DEF CallPcs
  <2>4. Works(q, new)
    BY <1>1, <1>2, <2>1, <2>2, <2>3 DEF Works
  <2>5. ~(req[q].ref = opened /\ ~excused')
    <3> SUFFICES ASSUME req[q].ref = opened, ~excused' PROVE FALSE
      OBVIOUS
    <3>1. opened # NoRecord
      BY <1>2, RecordsAssumption
    <3> QED
      BY <1>1, <2>1, <3>1 DEF InterceptorInv, OpenedInv
  <2>6. excused => excused'
    BY <2>1
  <2> HIDE DEF new
  <2> QED
    BY <1>1, <1>2, <2>1, <2>2, <2>3, <2>4, <2>5, <2>6, WorkStep
<1>4. CASE its(q).state # "open"
  BY <1>1, <1>2, <1>4, IdleWork, RequestLeaves DEF HalfOpen
<1> QED
  BY <1>3, <1>4

LEMMA OpensStep ==
    ASSUME InterceptorInv, NEW q \in Requests, req[q].pc \in {"opening", "reopening"}, NEW to \in {"stamp", "restamp"},
           opens(q, to), its(q).state = "halfOpen" => to = "restamp", its(q).state # "open",
           UNCHANGED <<inMap, cleaning, miscounted>>
    PROVE  InterceptorInv'
<1> DEFINE r == req[q].ref
           new == [its(q) EXCEPT !.state = "open"]
<1>2. /\ r \in CircuitRecords /\ its(q) = rec[r] /\ its(q) \in BreakerRecords
      /\ outdated \subseteq Requests /\ miscounted \subseteq CircuitRecords
  BY RequestFacts
<1>3. /\ Moves(q, to) /\ Keep(q, new) /\ opened' = r /\ excused' = (r # inMap)
      /\ outdated' = (outdated \ {q}) \cup {p \in Requests \ {q} : req[p].ref = r}
  BY DEF opens, Changes
<1>4. /\ new \in BreakerRecords /\ new.state = "open" /\ new.fails = its(q).fails
  BY <1>2 DEF BreakerRecords
<1>5. /\ req' \in [Requests -> CallRecords] /\ \A p \in Requests \ {q} : req'[p] = req[p]
      /\ req'[q].pc = to /\ req'[q].ref = r
  BY <1>3, RequestMoves DEF CallPcs
<1>6. Works(q, new)
  BY <1>2, <1>3, <1>4, <1>5 DEF Works
<1>7. new.state # "halfOpen" /\ new.fails # 0 =>
        \/ r \in miscounted'
        \/ \E p \in Requests : req'[p].ref = r /\ req'[p].pc \in {"restamp", "emptying"}
  <2>1. CASE to = "restamp"
    BY <1>5, <2>1
  <2>2. CASE its(q).state # "halfOpen"
    BY <1>4, <1>5, <2>2, FailsExplained
  <2> QED
    BY <2>1, <2>2
<1> HIDE DEF new
<1>8. CountedInv'
  BY <1>3, <1>4, <1>5, <1>6, <1>7, WorkKeepsCounted
<1>9. InterceptorTypeOK'
  BY <1>2, <1>3, <1>6, WorkKeepsTypes
<1>10. OpenedInv'
  <2> SUFFICES ASSUME ~excused'
               PROVE  /\ opened' = inMap' /\ rec'[opened'].state = "open"
                      /\ stampPending(opened)'
                      /\ \A p \in Requests : req'[p].ref = opened' /\ req'[p].pc \in {"trial", "stampTrial"} => p \in outdated'
    BY DEF OpenedInv
  <2>1. rec'[r] = new /\ r = inMap
    BY <1>3, <1>6, WorkEffect
  <2>2. stampPending(opened)'
    BY <1>3, <1>5 DEF stampPending
  <2> QED
    BY <1>3, <1>4, <1>5, <2>1, <2>2
<1> QED
  BY <1>8, <1>9, <1>10 DEF InterceptorInv

LEMMA OpenStep == ASSUME InterceptorInv, NEW q \in Requests, Open(q) \/ Reopen(q) PROVE InterceptorInv'
<1>1. req[q].pc \in {"opening", "reopening"} /\ UNCHANGED <<inMap, cleaning, miscounted>>
  BY DEF Open, Reopen, Asks
<1>2. its(q) \in BreakerRecords
  BY <1>1, RequestFacts
<1>3. CASE opens(q, "stamp") /\ its(q).state = "closed"
  BY <1>1, <1>3, OpensStep
<1>4. CASE opens(q, "restamp") /\ its(q).state = "halfOpen"
  BY <1>1, <1>4, OpensStep
<1>5. CASE GoesAway(q) /\ Keep(q, its(q)) /\ looks(q) /\ UNCHANGED <<opened, excused>>
  BY <1>1, <1>2, <1>5, IdleWork, RequestLeaves
<1> QED
  BY <1>3, <1>4, <1>5 DEF Open, Reopen

\* The time of a change is written; a reopening and a closing reset the count with it.
LEMMA StampStep ==
    ASSUME InterceptorInv, NEW q \in Requests, req[q].pc \in {"stampTrial", "stamp", "restamp", "emptying"},
           GoesAway(q) \/ Admit(q), looks(q), NEW new \in BreakerRecords, Keep(q, new),
           new.state = its(q).state, new.recent,
           \/ new.fails = its(q).fails /\ req[q].pc \in {"stampTrial", "stamp"} /\ miscounted' = miscounted
           \/ new.fails = 0 /\ cleared,
           UNCHANGED <<inMap, cleaning, opened, excused>>
    PROVE  InterceptorInv'
<1>1. /\ req[q].ref \in CircuitRecords /\ its(q) = rec[req[q].ref] /\ NoRecord \notin CircuitRecords
      /\ outdated \subseteq Requests /\ miscounted \subseteq CircuitRecords
  BY RequestFacts
<1>2. /\ req' \in [Requests -> CallRecords] /\ \A p \in Requests \ {q} : req'[p] = req[p]
      /\ req'[q].pc \in {"idle", "handler"} /\ req'[q].ref = NoRecord
  BY RequestLeaves
<1>3. outdated \ {q} \subseteq outdated' /\ outdated' \subseteq Requests
  BY <1>1 DEF looks
<1>4. rec \in [CircuitRecords -> BreakerRecords] /\ Zero.fails = 0
  BY DEF InterceptorInv, InterceptorTypeOK, Zero
<1>5. \A s \in CircuitRecords \ {req[q].ref} : rec'[s] = rec[s]
  BY <1>1, <1>4 DEF Keep
<1>6. miscounted \ {req[q].ref} \subseteq miscounted' /\ miscounted' \subseteq CircuitRecords
  BY <1>1, <1>5 DEF cleared
<1>7. Works(q, new)
  BY <1>1, <1>2, <1>3, <1>6 DEF Works
<1>8. req[q].ref = opened /\ ~excused' => new.state = "open"
  BY <1>1 DEF InterceptorInv, OpenedInv
<1>9. new.state # "halfOpen" /\ new.fails # 0 =>
        \/ req[q].ref \in miscounted'
        \/ \E p \in Requests : req'[p].ref = req[q].ref /\ req'[p].pc \in {"restamp", "emptying"}
  BY <1>2, FailsExplained
<1> QED
  BY <1>1, <1>2, <1>7, <1>8, <1>9, WorkStep

LEMMA TimesStep ==
    ASSUME InterceptorInv, NEW q \in Requests, StampChange(q) \/ Restamp(q) \/ EmptyWindow(q)
    PROVE  InterceptorInv'
<1>1. req[q].pc \in {"stampTrial", "stamp", "restamp", "emptying"} /\ UNCHANGED <<inMap, cleaning, opened, excused>>
  BY DEF StampChange, Restamp, EmptyWindow, Asks
<1>2. its(q) \in BreakerRecords /\ <<>> \in Seq(BOOLEAN)
  BY <1>1, RequestFacts
<1>3. CASE StampChange(q)
  <2> DEFINE new == [its(q) EXCEPT !.recent = TRUE]
  <2>1. new \in BreakerRecords /\ new.recent /\ new.state = its(q).state /\ new.fails = its(q).fails
    BY <1>2 DEF BreakerRecords
  <2>2. Keep(q, new)
    BY <1>3 DEF StampChange
  <2> HIDE DEF new
  <2> QED
    BY <1>1, <1>3, <2>1, <2>2, StampStep DEF StampChange, Asks
<1>4. CASE Restamp(q)
  <2> DEFINE new == [its(q) EXCEPT !.recent = TRUE, !.fails = 0]
  <2>1. new \in BreakerRecords /\ new.recent /\ new.state = its(q).state /\ new.fails = 0
    BY <1>2 DEF BreakerRecords
  <2>2. Keep(q, new)
    BY <1>4 DEF Restamp
  <2> HIDE DEF new
  <2> QED
    BY <1>1, <1>4, <2>1, <2>2, StampStep DEF Restamp
<1>5. CASE EmptyWindow(q)
  <2> DEFINE new == [its(q) EXCEPT !.window = <<>>, !.recent = TRUE, !.fails = 0]
  <2>1. new \in BreakerRecords /\ new.recent /\ new.state = its(q).state /\ new.fails = 0
    BY <1>2 DEF BreakerRecords
  <2>2. Keep(q, new)
    BY <1>5 DEF EmptyWindow
  <2> HIDE DEF new
  <2> QED
    BY <1>1, <1>5, <2>1, <2>2, StampStep DEF EmptyWindow
<1> QED
  BY <1>3, <1>4, <1>5

\* A result is entered into the window.
LEMMA EnteredFacts ==
    ASSUME InterceptorInv, NEW q \in Requests, req[q].pc \notin {"idle", "handler"}, NEW ok \in BOOLEAN
    PROVE  /\ entered(q, ok) \in BreakerRecords /\ entered(q, ok).state = its(q).state
           /\ entered(q, ok).recent = its(q).recent /\ entered(q, ok).fails = its(q).fails
<1>1. its(q) \in BreakerRecords
  BY RequestFacts
<1> DEFINE w == Append(its(q).window, ok)
           v == IF Len(w) > MaxWindowSize THEN Tail(w) ELSE w
<1>2. its(q).window \in Seq(BOOLEAN)
  BY <1>1 DEF BreakerRecords
<1>3. w \in Seq(BOOLEAN) /\ w # <<>>
  BY <1>2
<1>4. v \in Seq(BOOLEAN)
  <2>1. Tail(w) \in Seq(BOOLEAN)
    BY <1>3
  <2> HIDE DEF w
  <2> QED
    BY <1>3, <2>1
<1>5. entered(q, ok) = [its(q) EXCEPT !.window = v]
  BY DEF entered
<1> HIDE DEF v
<1> QED
  BY <1>1, <1>4, <1>5 DEF BreakerRecords

LEMMA ResultStep ==
    ASSUME InterceptorInv, NEW q \in Requests, recordFailure(q) \/ recordSuccess(q) PROVE InterceptorInv'
<1>1. /\ req[q].pc \in {"failed", "succeeded"} /\ looks(q)
      /\ UNCHANGED <<inMap, cleaning, opened, excused, miscounted>>
  BY DEF recordFailure, recordSuccess, Asks
<1>2. /\ req \in [Requests -> CallRecords] /\ req[q] \in CallRecords /\ req[q].ref \in CircuitRecords /\ its(q) \in BreakerRecords
  BY <1>1, RequestFacts
<1>3. \A ok \in BOOLEAN : /\ entered(q, ok) \in BreakerRecords /\ entered(q, ok).state = its(q).state
                         /\ entered(q, ok).recent = its(q).recent /\ entered(q, ok).fails = its(q).fails
  BY <1>1, EnteredFacts
<1>4. PICK ok \in BOOLEAN : Keep(q, entered(q, ok))
  BY DEF recordFailure, recordSuccess
<1>5. CASE GoesAway(q)
  BY <1>1, <1>3, <1>4, <1>5, RequestLeaves, IdleWork
<1>6. CASE Moves(q, "opening") \/ Moves(q, "closing")
  <2>1. /\ req' \in [Requests -> CallRecords] /\ \A p \in Requests \ {q} : req'[p] = req[p]
        /\ req'[q].pc \in {"opening", "closing"} /\ req'[q].ref = req[q].ref
    BY <1>1, <1>6, RequestMoves DEF CallPcs
  <2> QED
    BY <1>1, <1>3, <1>4, <2>1, IdleWork
<1>7. CASE its(q).state = "halfOpen" /\ req' = [req EXCEPT ![q].pc = "count", ![q].saw = entered(q, FALSE).fails]
  <2>1. entered(q, FALSE).fails \in Nat
    BY <1>3 DEF BreakerRecords
  <2>2. /\ req' \in [Requests -> CallRecords] /\ \A p \in Requests \ {q} : req'[p] = req[p]
        /\ req'[q].pc = "count" /\ req'[q].ref = req[q].ref
    BY <1>2, <1>7, <2>1 DEF CallRecords, CallPcs
  <2> QED
    BY <1>1, <1>3, <1>4, <1>7, <2>2, IdleWork
<1> QED
  BY <1>3, <1>5, <1>6, <1>7 DEF recordFailure, recordSuccess

LEMMA TrialCountStep ==
    ASSUME InterceptorInv, NEW q \in Requests, CountTrialFailure(q) PROVE InterceptorInv'
<1> DEFINE n == IF req[q].saw >= HalfOpenMaxFails THEN HalfOpenMaxFails ELSE req[q].saw + 1
           new == [its(q) EXCEPT !.fails = n]
<1>1. /\ req[q].pc = "count" /\ looks(q) /\ UNCHANGED <<inMap, cleaning, opened, excused>>
      /\ Moves(q, "reopening") \/ GoesAway(q)
      /\ Keep(q, new)
      /\ miscounted' = IF q \in outdated THEN miscounted \cup {req[q].ref} ELSE miscounted
  BY DEF CountTrialFailure, Asks
<1>2. /\ req[q].ref \in CircuitRecords /\ its(q) = rec[req[q].ref] /\ its(q) \in BreakerRecords /\ req[q] \in CallRecords
      /\ outdated \subseteq Requests /\ miscounted \subseteq CircuitRecords
  BY <1>1, RequestFacts
<1>3. n \in Nat
  BY <1>2, BreakerConfigAssumption DEF CallRecords
<1>4. new \in BreakerRecords /\ new.state = its(q).state /\ new.recent = its(q).recent
  BY <1>2, <1>3 DEF BreakerRecords
<1>5. /\ req' \in [Requests -> CallRecords] /\ \A p \in Requests \ {q} : req'[p] = req[p]
      /\ req'[q].pc \in {"idle", "handler", "reopening"} /\ req'[q].ref \in {req[q].ref, NoRecord}
      /\ req'[q].pc = "reopening" => req'[q].ref = req[q].ref
  BY <1>1, RequestMoves, RequestLeaves DEF CallPcs
<1>6. outdated \ {q} \subseteq outdated' /\ outdated' \subseteq Requests
  BY <1>1, <1>2 DEF looks
<1> HIDE DEF new
<1>7. Works(q, new)
  BY <1>1, <1>2, <1>4, <1>5, <1>6 DEF Works
<1>8. new.state # "halfOpen" => req[q].ref \in miscounted'
  BY <1>1, <1>2, <1>4 DEF InterceptorInv, CountedInv
<1>9. req[q].ref = opened /\ ~excused' => new.state = "open" /\ (new.recent \/ stampPending(opened)')
  BY <1>1, <1>4, <1>5, OpenStaysTimed
<1> QED
  BY <1>1, <1>2, <1>4, <1>5, <1>7, <1>8, <1>9, WorkStep

LEMMA CloseStep == ASSUME InterceptorInv, NEW q \in Requests, Close(q) PROVE InterceptorInv'
<1>1. req[q].pc = "closing" /\ UNCHANGED <<inMap, cleaning, opened, excused, miscounted>>
  BY DEF Close, Asks
<1>2. /\ req[q].ref \in CircuitRecords /\ its(q) = rec[req[q].ref] /\ its(q) \in BreakerRecords
      /\ outdated \subseteq Requests /\ miscounted \subseteq CircuitRecords /\ NoRecord \notin CircuitRecords
  BY <1>1, RequestFacts
<1>3. CASE its(q).state = "halfOpen"
  <2> DEFINE new == [its(q) EXCEPT !.state = "closed"]
  <2>1. /\ Moves(q, "emptying") /\ Keep(q, new)
        /\ outdated' = (outdated \ {q}) \cup {p \in Requests \ {q} : req[p].ref = req[q].ref}
    BY <1>3 DEF Close, Changes
  <2>2. new \in BreakerRecords /\ new.state = "closed"
    BY <1>2 DEF BreakerRecords
  <2>3. /\ req' \in [Requests -> CallRecords] /\ \A p \in Requests \ {q} : req'[p] = req[p]
        /\ req'[q].pc = "emptying" /\ req'[q].ref = req[q].ref
    BY <1>1, <2>1, RequestMoves DEF CallPcs
  <2> HIDE DEF new
  <2>4. Works(q, new)
    BY <1>1, <1>2, <2>1, <2>2, <2>3 DEF Works
  <2>5. ~(req[q].ref = opened /\ ~excused')
    BY <1>1, <1>2, <1>3 DEF InterceptorInv, OpenedInv
  <2> QED
    BY <1>1, <1>2, <2>1, <2>2, <2>3, <2>4, <2>5, WorkStep
<1>4. CASE its(q).state # "halfOpen"
  BY <1>1, <1>2, <1>4, IdleWork, RequestLeaves DEF Close
<1> QED
  BY <1>3, <1>4

\* A call looks the record of its method up, or enters a new one.
LEMMA LookUpStep ==
    ASSUME InterceptorInv, NEW q \in Requests, req[q].pc \in {"idle", "handler"},
           NEW to \in {"look", "failed", "succeeded"}, getRecord(q, to)
    PROVE  InterceptorInv'
<1>1. PICK r \in IF inMap = NoRecord THEN unused ELSE {inMap} :
        /\ inMap' = r /\ req' = [req EXCEPT ![q] = [pc |-> to, ref |-> r, saw |-> 0]]
        /\ rec' = IF inMap = NoRecord THEN [rec EXCEPT ![r] = Zero] ELSE rec
  BY DEF getRecord
<1>2. outdated' = outdated \ {q} /\ UNCHANGED <<cleaning, opened, excused, miscounted>>
  BY DEF getRecord, looks
<1>3. /\ rec \in [CircuitRecords -> BreakerRecords] /\ req \in [Requests -> CallRecords]
      /\ inMap \in CircuitRecords \cup {NoRecord} /\ NoRecord \notin CircuitRecords
  BY RecordsAssumption DEF InterceptorInv, InterceptorTypeOK
<1>4. r \in CircuitRecords
  BY <1>3 DEF unused
<1>5. /\ [pc |-> to, ref |-> r, saw |-> 0] \in CallRecords
      /\ \A p \in Requests \ {q} : req'[p] = req[p]
      /\ req'[q].pc = to /\ req'[q].ref = r
  BY <1>1, <1>3, <1>4 DEF CallRecords, CallPcs
<1>6. Zero \in BreakerRecords /\ Zero.fails = 0
  <2>1. <<>> \in Seq(BOOLEAN)
    OBVIOUS
  <2> QED
    BY <2>1 DEF Zero, BreakerRecords
<1>7. InterceptorTypeOK'
  <2>1. req' \in [Requests -> CallRecords]
    BY <1>1, <1>3, <1>5
  <2>2. rec' \in [CircuitRecords -> BreakerRecords]
    BY <1>1, <1>3, <1>6
  <2> QED
    BY <1>1, <1>2, <1>4, <1>5, <2>1, <2>2 DEF InterceptorInv, InterceptorTypeOK
<1>8. OpenedInv'
  <2> SUFFICES ASSUME opened # NoRecord, ~excused
               PROVE  /\ opened = inMap' /\ rec'[opened].state = "open"
                      /\ rec'[opened].recent \/ stampPending(opened)'
                      /\ \A p \in Requests : req'[p].ref = opened /\ req'[p].pc \in {"trial", "stampTrial"} => p \in outdated'
    BY <1>2 DEF OpenedInv, stampPending
  <2>1. /\ opened = inMap /\ rec[opened].state = "open"
        /\ rec[opened].recent \/ stampPending(opened)
        /\ \A p \in Requests : req[p].ref = opened /\ req[p].pc \in {"trial", "stampTrial"} => p \in outdated
    BY DEF InterceptorInv, OpenedInv
  <2>2. inMap' = inMap /\ rec' = rec
    <3>1. inMap # NoRecord
      BY <2>1
    <3> QED
      BY <1>1, <3>1
  <2>3. stampPending(opened) => stampPending(opened)'
    BY <1>2, <1>5 DEF stampPending
  <2>4. \A p \in Requests : req'[p].ref = opened /\ req'[p].pc \in {"trial", "stampTrial"} => p \in outdated'
    BY <1>2, <1>5, <2>1
  <2> QED
    BY <2>1, <2>2, <2>3, <2>4
<1>9. CountedInv'
  <2>1. \A p \in Requests : req'[p].pc = "count" => p # q /\ req'[p] = req[p]
    BY <1>5
  <2>2. \A s \in CircuitRecords : rec'[s] = rec[s] \/ (rec'[s] = Zero /\ \A p \in Requests : req[p].ref # s)
    BY <1>1, <1>3 DEF unused
  <2>3. \A p \in Requests : req[p].pc = "count" => req[p].ref \in CircuitRecords
    BY DEF InterceptorInv, InterceptorTypeOK
  <2>4. ASSUME NEW p \in Requests, req'[p].pc = "count", p \notin outdated'
        PROVE  rec'[req'[p].ref].state = "halfOpen"
    BY <1>2, <2>1, <2>2, <2>3, <2>4 DEF InterceptorInv, CountedInv
  <2>5. ASSUME NEW s \in CircuitRecords, rec'[s].state # "halfOpen", rec'[s].fails # 0
        PROVE  s \in miscounted' \/ \E p \in Requests : req'[p].ref = s /\ req'[p].pc \in {"restamp", "emptying"}
    <3>1. rec'[s] = rec[s]
      BY <1>6, <2>2, <2>5
    <3>2. s \in miscounted \/ \E p \in Requests : req[p].ref = s /\ req[p].pc \in {"restamp", "emptying"}
      BY <2>5, <3>1 DEF InterceptorInv, CountedInv
    <3> QED
      BY <1>2, <1>5, <3>2
  <2> QED
    BY <2>4, <2>5 DEF CountedInv
<1> QED
  BY <1>7, <1>8, <1>9 DEF InterceptorInv

LEMMA PanicStep == ASSUME InterceptorInv, NEW q \in Requests, Panics(q) PROVE InterceptorInv'
<1>1. /\ req[q].pc = "handler" /\ req' = [req EXCEPT ![q] = NoCall]
      /\ UNCHANGED <<inMap, rec, cleaning, opened, outdated, excused, miscounted>>
  BY DEF Panics, Asks, GoesAway
<1>2. /\ NoCall \in CallRecords /\ NoCall.pc = "idle" /\ req \in [Requests -> CallRecords]
  BY DEF NoCall, CallRecords, CallPcs, InterceptorInv, InterceptorTypeOK
<1>3. /\ req' \in [Requests -> CallRecords] /\ req'[q].pc = "idle" /\ \A p \in Requests \ {q} : req'[p] = req[p]
  BY <1>1, <1>2
<1>4. InterceptorTypeOK'
  BY <1>1, <1>3 DEF InterceptorInv, InterceptorTypeOK
<1>5. OpenedInv'
  <2>1. \A r : stampPending(r) => stampPending(r)'
    BY <1>1, <1>3 DEF stampPending
  <2> QED
    BY <1>1, <1>3, <2>1 DEF InterceptorInv, OpenedInv, stampPending
<1>6. CountedInv'
  BY <1>1, <1>3 DEF InterceptorInv, CountedInv
<1> QED
  BY <1>4, <1>5, <1>6 DEF InterceptorInv

LEMMA CleanUpStep == ASSUME InterceptorInv, cleanupStaleRecords PROVE InterceptorInv'
<1>1. cleaning' = inMap /\ UNCHANGED <<inMap, rec, req, opened, outdated, excused, miscounted>>
  BY DEF cleanupStaleRecords
<1> QED
  BY <1>1 DEF InterceptorInv, InterceptorTypeOK, OpenedInv, CountedInv, stampPending

LEMMA DeleteStep == ASSUME InterceptorInv, cleaning = inMap, deleteRecord PROVE InterceptorInv'
<1>1. /\ cleaning # NoRecord /\ inMap' = NoRecord /\ cleaning' = NoRecord
      /\ excused' = (excused \/ opened = cleaning)
      /\ rec' = IF \E q \in Requests : req[q].ref = cleaning THEN rec ELSE [rec EXCEPT ![cleaning] = Zero]
      /\ miscounted' = {r \in miscounted : rec'[r] # Zero} /\ UNCHANGED <<req, opened, outdated>>
  BY DEF deleteRecord
<1>2. Zero \in BreakerRecords /\ Zero.fails = 0
  <2>1. <<>> \in Seq(BOOLEAN)
    OBVIOUS
  <2> QED
    BY <2>1 DEF Zero, BreakerRecords
<1>3. /\ rec \in [CircuitRecords -> BreakerRecords]
      /\ \A s \in CircuitRecords : rec'[s] = rec[s] \/ (rec'[s] = Zero /\ \A p \in Requests : req[p].ref # s)
  BY <1>1 DEF InterceptorInv, InterceptorTypeOK
<1>4. InterceptorTypeOK'
  <2>1. rec' \in [CircuitRecords -> BreakerRecords]
    BY <1>1, <1>2, <1>3
  <2> QED
    BY <1>1, <2>1 DEF InterceptorInv, InterceptorTypeOK
<1>5. OpenedInv'
  <2>1. opened = NoRecord \/ excused'
    BY <1>1 DEF InterceptorInv, OpenedInv
  <2> QED
    BY <1>1, <2>1 DEF OpenedInv
<1>6. CountedInv'
  <2>1. ASSUME NEW p \in Requests, req'[p].pc = "count", p \notin outdated'
        PROVE  rec'[req'[p].ref].state = "halfOpen"
    <3>1. req[p].ref \in CircuitRecords /\ rec[req[p].ref].state = "halfOpen"
      BY <1>1, <2>1 DEF InterceptorInv, InterceptorTypeOK, CountedInv
    <3> QED
      BY <1>1, <1>3, <3>1
  <2>2. ASSUME NEW s \in CircuitRecords, rec'[s].state # "halfOpen", rec'[s].fails # 0
        PROVE  s \in miscounted' \/ \E p \in Requests : req'[p].ref = s /\ req'[p].pc \in {"restamp", "emptying"}
    <3>1. rec'[s] = rec[s] /\ rec'[s] # Zero
      BY <1>2, <1>3, <2>2
    <3>2. s \in miscounted \/ \E p \in Requests : req[p].ref = s /\ req[p].pc \in {"restamp", "emptying"}
      BY <2>2, <3>1 DEF InterceptorInv, CountedInv
    <3> QED
      BY <1>1, <3>1, <3>2
  <2> QED
    BY <2>1, <2>2 DEF CountedInv
<1> QED
  BY <1>4, <1>5, <1>6 DEF InterceptorInv

LEMMA TimeStep == ASSUME InterceptorInv, TimePasses PROVE InterceptorInv'
<1>1. PICK prune \in BOOLEAN : rec' = [r \in CircuitRecords |->
         [rec[r] EXCEPT !.recent = FALSE, !.window = IF prune THEN <<>> ELSE @]]
  BY DEF TimePasses
<1>2. opened' = NoRecord /\ UNCHANGED <<inMap, req, cleaning, outdated, miscounted>>
  BY DEF TimePasses
<1>3. \A r \in CircuitRecords : /\ rec'[r] \in BreakerRecords
                               /\ rec'[r].state = rec[r].state /\ rec'[r].fails = rec[r].fails
  <2> TAKE r \in CircuitRecords
  <2>1. rec[r] \in BreakerRecords /\ <<>> \in Seq(BOOLEAN)
    BY DEF InterceptorInv, InterceptorTypeOK
  <2>2. (IF prune THEN <<>> ELSE rec[r].window) \in Seq(BOOLEAN)
    BY <2>1 DEF BreakerRecords
  <2> QED
    BY <1>1, <2>1, <2>2 DEF BreakerRecords
<1>4. rec' \in [CircuitRecords -> BreakerRecords]
  BY <1>1, <1>3
<1>5. InterceptorTypeOK'
  BY <1>2, <1>4 DEF InterceptorInv, InterceptorTypeOK
<1>6. OpenedInv'
  BY <1>2 DEF OpenedInv
<1>7. CountedInv'
  <2>1. \A p \in Requests : req[p].pc = "count" => req[p].ref \in CircuitRecords
    BY DEF InterceptorInv, InterceptorTypeOK
  <2> QED
    BY <1>2, <1>3, <2>1 DEF InterceptorInv, CountedInv
<1> QED
  BY <1>5, <1>6, <1>7 DEF InterceptorInv

\* The record that is about to be deleted is the one in the map: nobody enters another meanwhile.
CleaningInv == cleaning # NoRecord => cleaning = inMap

InterceptorSafe == InterceptorInv /\ CleaningInv

LEMMA InterceptorInitSafe == InterceptorInit => InterceptorSafe
<1> SUFFICES ASSUME InterceptorInit PROVE InterceptorSafe
  OBVIOUS
<1>1. <<>> \in Seq(BOOLEAN)
  OBVIOUS
<1>2. Zero \in BreakerRecords /\ NoCall \in CallRecords /\ Zero.fails = 0 /\ NoCall.pc = "idle"
  BY <1>1 DEF Zero, BreakerRecords, NoCall, CallRecords, CallPcs
<1>3. InterceptorTypeOK
  BY <1>2 DEF InterceptorInit, InterceptorTypeOK
<1> QED
  BY <1>2, <1>3
    DEF InterceptorInit, InterceptorSafe, InterceptorInv, CleaningInv, OpenedInv,
        CountedInv

LEMMA CleaningStep == ASSUME InterceptorSafe, InterceptorNext PROVE CleaningInv'
<1>1. CASE UNCHANGED <<inMap, cleaning>>
  BY <1>1 DEF InterceptorSafe, CleaningInv
<1>2. CASE cleaning' = NoRecord \/ cleaning' = inMap'
  BY <1>2 DEF CleaningInv
<1>3. ASSUME NEW q \in Requests, NEW to, getRecord(q, to) PROVE cleaning' = NoRecord
  BY <1>3 DEF getRecord
<1> QED
  BY <1>1, <1>2, <1>3
    DEF InterceptorNext, Arrive, askState, HalfOpen, StampChange, Restamp, Ends,
        Panics,
     recordFailure, Open, CountTrialFailure, Reopen, recordSuccess, Close, EmptyWindow, cleanupStaleRecords,
     deleteRecord, TimePasses

LEMMA InterceptorNextSafe == ASSUME InterceptorSafe, InterceptorNext PROVE InterceptorSafe'
<1>1. InterceptorInv
  BY DEF InterceptorSafe
<1>2. ASSUME NEW q \in Requests, Arrive(q) \/ Ends(q) PROVE InterceptorInv'
  <2>1. PICK to \in {"look", "failed", "succeeded"} : getRecord(q, to)
    BY <1>2 DEF Arrive, Ends
  <2>2. req[q].pc \in {"idle", "handler"}
    BY <1>2 DEF Arrive, Ends, Asks
  <2> QED
    BY <1>1, <2>1, <2>2, LookUpStep
<1>3. ASSUME NEW q \in Requests,
             \/ askState(q) \/ HalfOpen(q) \/ StampChange(q) \/ Restamp(q) \/ Panics(q) \/ recordFailure(q)
             \/ Open(q) \/ CountTrialFailure(q) \/ Reopen(q) \/ recordSuccess(q) \/ Close(q) \/ EmptyWindow(q)
      PROVE  InterceptorInv'
  BY <1>1, <1>3, AskStep, HalfOpenStep, TimesStep, PanicStep, ResultStep, OpenStep,
     TrialCountStep, CloseStep
<1>4. ASSUME deleteRecord PROVE InterceptorInv'
  <2>1. cleaning = inMap
    BY <1>4 DEF InterceptorSafe, CleaningInv, deleteRecord
  <2> QED
    BY <1>1, <1>4, <2>1, DeleteStep
<1>5. ASSUME cleanupStaleRecords \/ TimePasses PROVE InterceptorInv'
  BY <1>1, <1>5, CleanUpStep, TimeStep
<1>6. InterceptorInv'
  BY <1>2, <1>3, <1>4, <1>5 DEF InterceptorNext
<1> QED
  BY <1>6, CleaningStep DEF InterceptorSafe

\* Who reaches the handler saw the circuit closed or half-open, found the trial begun, or began it.
LEMMA HandlerReached ==
    ASSUME InterceptorInv, InterceptorNext, NEW q \in Requests, req[q].pc # "handler", req'[q].pc = "handler"
    PROVE  /\ UNCHANGED opened /\ (excused => excused')
           /\ \/ req[q].pc = "look" /\ its(q).state # "open"
              \/ req[q].pc = "trial" /\ its(q).state # "open"
              \/ req[q].pc = "stampTrial"
<1>1. req \in [Requests -> CallRecords] /\ req[q] \in CallRecords
  BY DEF InterceptorInv, InterceptorTypeOK
<1>2. req' # req
  OBVIOUS
<1>3. PICK p \in Requests :
        \/ Arrive(p) \/ askState(p) \/ HalfOpen(p) \/ StampChange(p) \/ Restamp(p)
        \/ Ends(p) \/ Panics(p) \/ recordFailure(p) \/ Open(p) \/ CountTrialFailure(p) \/ Reopen(p)
        \/ recordSuccess(p) \/ Close(p) \/ EmptyWindow(p)
  BY <1>2 DEF InterceptorNext, cleanupStaleRecords, deleteRecord, TimePasses
<1>4. ASSUME NEW c, req' = [req EXCEPT ![p] = c] PROVE p = q /\ c.pc = "handler"
  BY <1>1, <1>4
<1>5. ASSUME NEW to, Moves(p, to) PROVE to = "handler"
  <2>1. p = q
    BY <1>1, <1>5 DEF Moves
  <2> QED
    BY <1>1, <1>5, <2>1 DEF Moves, CallRecords
<1>6. ~GoesAway(p)
  BY <1>4 DEF GoesAway, NoCall
<1>7. ASSUME Admit(p) PROVE p = q
  BY <1>1, <1>7 DEF Admit
<1>8. ~Arrive(p) /\ ~Ends(p)
  <2>1. ASSUME NEW to \in {"look", "failed", "succeeded"} PROVE ~getRecord(p, to)
    BY <1>4, <2>1 DEF getRecord
  <2> QED
    BY <2>1 DEF Arrive, Ends
<1>9. ~recordFailure(p)
  <2> SUFFICES ASSUME req' = [req EXCEPT ![p].pc = "count", ![p].saw = entered(p, FALSE).fails] PROVE FALSE
    BY <1>5, <1>6 DEF recordFailure
  <2>1. p = q
    BY <1>1
  <2> QED
    BY <1>1, <2>1 DEF CallRecords
<1>10. ~Restamp(p) /\ ~Panics(p) /\ ~CountTrialFailure(p) /\ ~recordSuccess(p) /\ ~Close(p) /\ ~EmptyWindow(p)
  BY <1>5, <1>6 DEF Restamp, Panics, CountTrialFailure, recordSuccess, Close, EmptyWindow
<1>11. ~Open(p) /\ ~Reopen(p)
  BY <1>5, <1>6 DEF Open, Reopen, opens
<1>12. CASE askState(p)
  BY <1>5, <1>6, <1>7, <1>12 DEF askState, Pass, Refuse, TimeoutOver, Asks
<1>13. CASE HalfOpen(p)
  BY <1>5, <1>7, <1>13 DEF HalfOpen, Asks
<1>14. CASE StampChange(p)
  BY <1>6, <1>7, <1>14 DEF StampChange, Asks
<1> QED
  BY <1>3, <1>8, <1>9, <1>10, <1>11, <1>12, <1>13, <1>14

LEMMA OpenStaysShut == ASSUME InterceptorInv, InterceptorNext PROVE OpenKeepsOut
<1> SUFFICES ASSUME NEW q \in Requests, req[q].pc # "handler", req'[q].pc = "handler", opened' # NoRecord,
                    ~excused', q \notin outdated, req[q].ref = opened'
             PROVE  FALSE
  BY DEF OpenKeepsOut
<1>1. /\ opened' = opened /\ ~excused
      /\ \/ req[q].pc = "look" /\ its(q).state # "open"
         \/ req[q].pc = "trial" /\ its(q).state # "open"
         \/ req[q].pc = "stampTrial"
  BY HandlerReached
<1> QED
  BY <1>1 DEF InterceptorInv, OpenedInv, its

\* Once the circuit has opened, nobody but who was let through before reaches the handler until the
\* Timeout has passed, and a trial starts with no failure counted, but for what the code's unlocked
\* counting and stamping explain (circuitRecord.state, recordFailure, recordSuccess).
THEOREM OpenKeepsOutCorrect == InterceptorSpec => InterceptorSound
<1>1. InterceptorInit => InterceptorSafe
  BY InterceptorInitSafe
<1>2. InterceptorSafe /\ [InterceptorNext]_interceptorVars => InterceptorSafe'
  <2> SUFFICES ASSUME InterceptorSafe, [InterceptorNext]_interceptorVars PROVE InterceptorSafe'
    OBVIOUS
  <2>1. CASE UNCHANGED interceptorVars
    BY <2>1
      DEF interceptorVars, InterceptorSafe, InterceptorInv, CleaningInv,
          InterceptorTypeOK, OpenedInv,
       CountedInv, stampPending
  <2>2. CASE InterceptorNext
    BY <2>2, InterceptorNextSafe
  <2> QED
    BY <2>1, <2>2
<1>3. InterceptorSafe /\ [InterceptorNext]_interceptorVars => [OpenKeepsOut /\ TrialStartsAtZero]_interceptorVars
  <2> SUFFICES ASSUME InterceptorSafe, InterceptorNext PROVE OpenKeepsOut /\ TrialStartsAtZero
    OBVIOUS
  <2>1. OpenKeepsOut
    BY OpenStaysShut DEF InterceptorSafe
  <2>2. TrialStartsAtZero
    BY DEF InterceptorSafe, InterceptorInv, CountedInv, TrialStartsAtZero
  <2> QED
    BY <2>1, <2>2
<1> QED
  BY <1>1, <1>2, <1>3, PTL DEF InterceptorSpec, InterceptorSound
=============================================================================
