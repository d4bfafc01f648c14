--------------------------- MODULE ThreatResponse ---------------------------
(***************************************************************************)
(* From an assessment result to the commands it causes.  A result is       *)
(* delivered to two subscribers that run concurrently: the policy          *)
(* (internal/policy/policy.go), which sets the host's status and publishes *)
(* actions, and the lifecycle engine (internal/kernel/lifecycle.go with    *)
(* locator.go and blocker.go), which loops while the status shows a        *)
(* threat.  Both give the commander commands; CommandPath follows them.    *)
(*                                                                         *)
(* One host: the statuses and runs of two hosts share nothing.  A score is *)
(* the band of the threshold it falls in.                                  *)
(***************************************************************************)
EXTENDS Naturals, Sequences

CONSTANTS
    Results,        \* assessment results published on TopicAssessorResult
    Bands,          \* the statuses their scores stand for
    MaxIterations,  \* passes of one lifecycle run
    HasGuider       \* an extension has installed a Guider

ASSUME ResponseAssumption ==
    /\ MaxIterations \in Nat \ {0} /\ HasGuider \in BOOLEAN
    /\ Bands \subseteq {"OK", "Warning", "Critical", "Isolated"}

VARIABLES
    hostStatus,  \* Module.hostStatus of the policy, for the host
    eval,        \* result -> progress of policy.onAssessmentResult
    run,         \* result -> progress of LifecycleEngine.Run
    active,      \* the host is in the ThreatActivityStore
    engine,      \* progress of LifecycleEngine.Stop
    ordered      \* isolate_host was enqueued since the policy last set the status

threatVars == <<hostStatus, eval, run, active, engine, ordered>>

Statuses == {"OK", "Warning", "Critical", "Isolated"}
Threats == {"Critical", "Isolated"}
PolicyActions == {"notify_admin", "increase_assessment", "isolate_host"}

EvalRecord == [pc : {"idle", "delivered", "publishing"}, todo : Seq(PolicyActions),
               collapsing : BOOLEAN]
RunPcs == {"idle", "delivered", "top", "block", "unblocked", "relocate", "judge",
           "backoff", "done"}
RunRecord == [pc : RunPcs, iter : 0..(MaxIterations - 1), seen : BOOLEAN]

ThreatTypeOK ==
    /\ hostStatus \in Statuses
    /\ eval \in [Results -> EvalRecord] /\ run \in [Results -> RunRecord]
    /\ active \in BOOLEAN /\ engine \in {"started", "waiting", "stopped"}
    /\ ordered \in BOOLEAN

ThreatInit ==
    /\ hostStatus = "OK"
    /\ eval = [r \in Results |-> [pc |-> "idle", todo |-> <<>>, collapsing |-> FALSE]]
    /\ run = [r \in Results |-> [pc |-> "idle", iter |-> 0, seen |-> FALSE]]
    /\ active = FALSE /\ engine = "started" /\ ordered = FALSE

-----------------------------------------------------------------------------
(* The policy.                                                             *)

\* The bus starts one goroutine per subscriber; the engine's Stop unsubscribes it.
PublishResult(r) ==
    /\ eval[r].pc = "idle"
    /\ eval' = [eval EXCEPT ![r].pc = "delivered"]
    /\ run' = [run EXCEPT ![r].pc = IF engine = "started"
                                    THEN "delivered" ELSE "done"]
    /\ UNCHANGED <<hostStatus, active, engine, ordered>>

\* The actions of each band, in the order they are published.
ActionsOf(s) ==
    CASE s = "OK" -> <<>>
      [] s = "Warning" -> <<"notify_admin">>
      [] s = "Critical" -> <<"notify_admin", "increase_assessment">>
      [] s = "Isolated" -> <<"isolate_host", "notify_admin">>

Publishing(r, s, c) ==
    /\ hostStatus' = s /\ ordered' = FALSE
    /\ eval' = [eval EXCEPT ![r].todo = ActionsOf(s), ![r].pc = "publishing",
                            ![r].collapsing = c]

\* The score and the trend are in the message; nothing looks at them before.
EvaluateHost(r) ==
    /\ eval[r].pc = "delivered"
    /\ \E s \in Bands, c \in BOOLEAN : Publishing(r, s, c)
    /\ UNCHANGED <<run, active, engine>>

\* PublishSync calls the commander's handler in this goroutine.
PublishAction(r) ==
    /\ eval[r].todo # <<>>
    /\ ordered' = (ordered \/ Head(eval[r].todo) = "isolate_host")
    /\ eval' = [eval EXCEPT ![r].todo = Tail(@)]
    /\ UNCHANGED <<hostStatus, run, active, engine>>

\* Mutant: the status is recorded and only the administrator is told.
PreemptTells(r) ==
    /\ eval[r].pc = "publishing" /\ eval[r].todo = <<>> /\ eval[r].collapsing
    /\ hostStatus' = "Isolated" /\ ordered' = FALSE
    /\ eval' = [eval EXCEPT ![r].todo = <<"notify_admin">>, ![r].collapsing = FALSE]
    /\ UNCHANGED <<run, active, engine>>

Preempt(r) ==
    /\ eval[r].pc = "publishing" /\ eval[r].todo = <<>> /\ eval[r].collapsing
    /\ Publishing(r, "Isolated", FALSE)
    /\ UNCHANGED <<run, active, engine>>

-----------------------------------------------------------------------------
(* The lifecycle engine.                                                   *)

Cancelled == engine # "started"
Counted == {"top", "block", "unblocked", "relocate", "judge", "backoff"}

Ended == [pc |-> "done", iter |-> 0, seen |-> FALSE]
RunGoes(r, from, to) == run[r].pc = from /\ run' = [run EXCEPT ![r].pc = to]
EngineStep == UNCHANGED <<hostStatus, eval, engine>>

\* The handler; it may be called after UnsubscribeAll.
StartRun(r) ==
    /\ RunGoes(r, "delivered", "top")
    /\ EngineStep /\ UNCHANGED <<active, ordered>>

RunAborts(r) ==
    /\ Cancelled /\ run[r].pc \in {"top", "backoff"}
    /\ run' = [run EXCEPT ![r] = Ended]
    /\ EngineStep /\ UNCHANGED <<active, ordered>>

\* A foothold is a host whose status is Critical or Isolated.  The guidance of an
\* installed Guider replaces the blocking, unless it fails.
Guided(r, to) ==
    /\ to = "relocate" => HasGuider
    /\ run' = [run EXCEPT ![r].pc = to, ![r].seen = to = "block" /\ hostStatus \in Threats]

Locate(r) ==
    /\ run[r].pc = "top" /\ ~Cancelled /\ \E to \in {"block", "relocate"} : Guided(r, to)
    /\ EngineStep /\ UNCHANGED <<active, ordered>>

\* Block, up to its look at the policy.
BlockDecides(r) ==
    /\ run[r].pc = "block"
    /\ run' = [run EXCEPT ![r].pc = IF run[r].seen /\ hostStatus # "Isolated"
                                    THEN "unblocked" ELSE "relocate",
                          ![r].seen = FALSE]
    /\ EngineStep /\ UNCHANGED <<active, ordered>>

BlockEnqueues(r) ==
    /\ RunGoes(r, "unblocked", "relocate")
    /\ ordered' = TRUE
    /\ EngineStep /\ UNCHANGED active

Relocate(r) ==
    /\ run[r].pc = "relocate"
    /\ run' = [run EXCEPT ![r].pc = "judge", ![r].seen = hostStatus \in Threats]
    /\ active' = (active \/ hostStatus \in Threats)
    /\ EngineStep /\ UNCHANGED ordered

\* Another run of the host may have cleared the activity in between.
Judge(r) ==
    /\ run[r].pc = "judge"
    /\ IF run[r].seen /\ active
       THEN run' = [run EXCEPT ![r].pc = "backoff", ![r].seen = FALSE] /\ UNCHANGED active
       ELSE run' = [run EXCEPT ![r] = Ended] /\ active' = FALSE
    /\ EngineStep /\ UNCHANGED ordered

\* Mutant: the loop has no bound.
NextPassUnbounded(r) ==
    /\ run[r].pc = "backoff"
    /\ run' = [run EXCEPT ![r].pc = "top"]
    /\ EngineStep /\ UNCHANGED <<active, ordered>>

NextPass(r) ==
    /\ run[r].pc = "backoff"
    /\ IF run[r].iter + 1 < MaxIterations
       THEN run' = [run EXCEPT ![r].pc = "top", ![r].iter = @ + 1]
       ELSE run' = [run EXCEPT ![r] = Ended]
    /\ EngineStep /\ UNCHANGED <<active, ordered>>

\* Stop cancels the context and unsubscribes (a result delivered in between is as one
\* delivered before: its run only finds the context cancelled), then waits.
StopEngine ==
    /\ \/ engine = "started" /\ engine' = "waiting"
       \/ engine = "waiting" /\ engine' = "stopped" /\ \A r \in Results : run[r].pc \notin Counted
    /\ UNCHANGED <<hostStatus, eval, run, active, ordered>>

-----------------------------------------------------------------------------
PolicyNext ==
    \E r \in Results :
        PublishResult(r) \/ EvaluateHost(r) \/ PublishAction(r) \/ Preempt(r)

RunNext(r) ==
    \/ StartRun(r) \/ RunAborts(r) \/ Locate(r) \/ BlockDecides(r)
    \/ BlockEnqueues(r) \/ Relocate(r) \/ Judge(r) \/ NextPass(r)

ThreatNext == PolicyNext \/ (\E r \in Results : RunNext(r)) \/ StopEngine

ThreatSpec ==
    /\ ThreatInit /\ [][ThreatNext]_threatVars
    /\ \A r \in Results : WF_threatVars(RunNext(r))

-----------------------------------------------------------------------------
(* Properties.                                                             *)

\* Whenever the status says Isolated, isolate_host was enqueued since it was set, or is
\* among the actions still to be published: KernelBlocker.Block takes the status for
\* the isolation and enqueues nothing more.
IsolatedIsOrdered ==
    hostStatus = "Isolated" =>
        ordered \/ \E r \in Results : \E i \in DOMAIN eval[r].todo :
                       eval[r].todo[i] = "isolate_host"

\* Once Stop has returned the engine blocks no host, although the bus may still call
\* its handler and the handler starts a run.
NoBlockAfterStop == engine = "stopped" => \A r \in Results : run[r].pc # "unblocked"

\* Every run ends, even while the threat and the activity entries of other runs of
\* the host persist.
RunsEnd == \A r \in Results : run[r].pc = "delivered" ~> run[r].pc = "done"

\* The kernel neither believes a host isolated that nobody isolates nor blocks one
\* after it stopped.
ResponseSafe == IsolatedIsOrdered /\ NoBlockAfterStop
=============================================================================
