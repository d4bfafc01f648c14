----------------------------- MODULE WorkerPool -----------------------------
(***************************************************************************)
(* The kernel's worker pool (internal/kernel/workerpool.go): every task    *)
(* gets a worker goroutine that waits for a slot of the semaphore, runs    *)
(* the task in a goroutine of its own and gives up on it after a timeout.  *)
(* Shutdown cancels the pool's context and waits for the workers.          *)
(*                                                                         *)
(* A task may return, fail or panic at any time, or hang for ever.         *)
(***************************************************************************)
EXTENDS Naturals, FiniteSets

CONSTANTS
    Tasks,         \* the tasks that may be submitted
    MaxConcurrency \* capacity of the semaphore

ASSUME TasksAssumption == IsFiniteSet(Tasks)
ASSUME ConcurrencyAssumption == MaxConcurrency \in Nat \ {0}

VARIABLES
    cancelled, \* the pool's context is done
    pc,        \* where the submission or the worker of a task is
    task,      \* the goroutine that runs the task, and what it sent to done
    slots,     \* tokens in the semaphore channel
    counted,   \* the metrics a task was counted in
    shutdown   \* progress of Shutdown

vars == <<cancelled, pc, task, slots, counted, shutdown>>

\* Workers that own a slot.
Holding == {"acquired", "running", "draining"}

\* Workers the WaitGroup counts.
Waited == {"spawned", "queued"} \cup Holding

TypeOK ==
    /\ cancelled \in BOOLEAN
    /\ pc \in [Tasks -> {"idle", "submitting", "ended"} \cup Waited]
    /\ task \in [Tasks -> {"none", "running", "ok", "error"}]
    /\ slots \in 0..MaxConcurrency
    /\ counted \in [Tasks -> SUBSET {"completed", "failed", "timeout"}]
    /\ shutdown \in {"no", "waiting", "returned"}

Init ==
    /\ cancelled = FALSE
    /\ pc = [t \in Tasks |-> "idle"]
    /\ task = [t \in Tasks |-> "none"]
    /\ slots = 0
    /\ counted = [t \in Tasks |-> {}]
    /\ shutdown = "no"

Goto(t, label) == pc' = [pc EXCEPT ![t] = label]

Count(t, metrics) == counted' = [counted EXCEPT ![t] = @ \cup metrics]

-----------------------------------------------------------------------------
(* SubmitWithTimeout, in the caller's goroutine.                           *)

\* Guard 1: nothing is scheduled after Shutdown.
SubmitWithTimeout(t) ==
    /\ pc[t] = "idle"
    /\ Goto(t, IF cancelled THEN "ended" ELSE "submitting")
    /\ UNCHANGED <<cancelled, task, slots, counted, shutdown>>

\* wg.Add(1) and the go statement.
Spawn(t) ==
    /\ pc[t] = "submitting"
    /\ Goto(t, "spawned")
    /\ UNCHANGED <<cancelled, task, slots, counted, shutdown>>

-----------------------------------------------------------------------------
(* The worker.                                                             *)

\* Mutant: the worker goes straight to the select.
Guard2Missing(t) ==
    /\ pc[t] = "spawned"
    /\ Goto(t, "queued")
    /\ UNCHANGED <<cancelled, task, slots, counted, shutdown>>

\* Guard 2: the pool was shut down since the submission.
Guard2(t) ==
    /\ pc[t] = "spawned"
    /\ Goto(t, IF cancelled THEN "ended" ELSE "queued")
    /\ UNCHANGED <<cancelled, task, slots, counted, shutdown>>

\* The select: a slot or the end of the pool, either when both are there.
Acquire(t) ==
    /\ pc[t] = "queued" /\ slots < MaxConcurrency
    /\ Goto(t, "acquired")
    /\ slots' = slots + 1
    /\ UNCHANGED <<cancelled, task, counted, shutdown>>

QueueCancelled(t) ==
    /\ pc[t] = "queued" /\ cancelled
    /\ Goto(t, "ended")
    /\ UNCHANGED <<cancelled, task, slots, counted, shutdown>>

StartTask(t) ==
    /\ pc[t] = "acquired"
    /\ Goto(t, "running")
    /\ task' = [task EXCEPT ![t] = "running"]
    /\ UNCHANGED <<cancelled, slots, counted, shutdown>>

\* The task returns or panics; its result fits into the buffer of done.
TaskEnd(t) ==
    /\ task[t] = "running"
    /\ \E result \in {"ok", "error"} : task' = [task EXCEPT ![t] = result]
    /\ UNCHANGED <<cancelled, pc, slots, counted, shutdown>>

\* The deferred calls of the worker: the slot is returned, the WaitGroup told.
Leave(t) == Goto(t, "ended") /\ slots' = slots - 1

Finish(t) ==
    /\ pc[t] = "running" /\ task[t] \in {"ok", "error"}
    /\ Count(t, {IF task[t] = "ok" THEN "completed" ELSE "failed"})
    /\ Leave(t)
    /\ UNCHANGED <<cancelled, task, shutdown>>

\* The timeout of the task, also when its result is there already.
Timeout(t) ==
    /\ pc[t] = "running"
    /\ Count(t, {"timeout"})
    /\ Goto(t, "draining")
    /\ UNCHANGED <<cancelled, task, slots, shutdown>>

\* Mutant: the panic skips the return of the slot.
CallbackPanicLeaks(t) ==
    /\ pc[t] = "running"
    /\ Count(t, {"timeout", "failed"})
    /\ Goto(t, "ended")
    /\ UNCHANGED <<cancelled, task, slots, shutdown>>

\* The onTaskTimeout callback panics: recovered, counted as a failure too.
CallbackPanic(t) ==
    /\ pc[t] = "running"
    /\ Count(t, {"timeout", "failed"})
    /\ Leave(t)
    /\ UNCHANGED <<cancelled, task, shutdown>>

\* Mutant: the worker waits for the task however long it takes.
DrainForever(t) ==
    /\ pc[t] = "draining" /\ task[t] # "running"
    /\ Leave(t)
    /\ UNCHANGED <<cancelled, task, counted, shutdown>>

\* The result, five seconds or the end of the pool end the wait; a task that
\* hangs is left running.
Drain(t) ==
    /\ pc[t] = "draining"
    /\ Leave(t)
    /\ UNCHANGED <<cancelled, task, counted, shutdown>>

-----------------------------------------------------------------------------
(* Shutdown.                                                               *)

Cancel ==
    /\ shutdown = "no"
    /\ cancelled' = TRUE
    /\ shutdown' = "waiting"
    /\ UNCHANGED <<pc, task, slots, counted>>

WaitReturns ==
    /\ shutdown = "waiting"
    /\ \A t \in Tasks : pc[t] \notin Waited
    /\ shutdown' = "returned"
    /\ UNCHANGED <<cancelled, pc, task, slots, counted>>

-----------------------------------------------------------------------------
\* What the runtime and the timers make happen; a task need not end.
Worker(t) ==
    \/ Spawn(t) \/ Guard2(t) \/ Acquire(t) \/ QueueCancelled(t) \/ StartTask(t)
    \/ Finish(t) \/ Timeout(t) \/ CallbackPanic(t) \/ Drain(t)

Next ==
    \/ \E t \in Tasks : SubmitWithTimeout(t) \/ Worker(t) \/ TaskEnd(t)
    \/ Cancel \/ WaitReturns

Fairness == (\A t \in Tasks : WF_vars(Worker(t))) /\ WF_vars(WaitReturns)

Spec == Init /\ [][Next]_vars /\ Fairness

-----------------------------------------------------------------------------
(* Properties.                                                             *)

\* No task starts once Shutdown has returned, although a submission may have
\* passed its check before and reach wg.Add only after the wait is over.
NoStartAfterShutdown ==
    [][shutdown = "returned" =>
          \A t \in Tasks : pc'[t] = "running" => pc[t] = "running"]_vars

\* The semaphore holds exactly one token per worker that owns a slot: no path
\* through timeouts, panics and cancellation leaks or returns one twice.
SlotsAccounted == slots = Cardinality({t \in Tasks : pc[t] \in Holding})

\* A task that timed out is never counted as completed as well, however late
\* its result arrives.
CompletedInTime == \A t \in Tasks : "completed" \in counted[t] => counted[t] = {"completed"}

\* The pool's books are right: slots and results are each accounted for once.
PoolAccounted == SlotsAccounted /\ CompletedInTime

\* Shutdown returns whatever the tasks do, hang for ever included.
ShutdownReturns == (shutdown = "waiting") ~> (shutdown = "returned")

\* Every submission is settled: a queued task starts or is refused.
SubmissionSettles == \A t \in Tasks : (pc[t] = "submitting") ~> (pc[t] = "ended")

\* Nothing that waits for the pool waits for ever.
PoolProgress == ShutdownReturns /\ SubmissionSettles
=============================================================================
