-------------------------------- MODULE Bus ---------------------------------
(***************************************************************************)
(* The kernel's message bus (internal/kernel/bus.go) together with the end *)
(* of Kernel.Shutdown that cancels the kernel's context and stops the bus. *)
(*                                                                         *)
(* Every Publish copies the subscriber list and starts one goroutine per   *)
(* subscriber, bounded by two semaphores; deliveries to a subscriber are   *)
(* neither ordered nor serialised.  A publication is made once; its        *)
(* goroutine for a subscriber is the delivery <<publication, subscriber>>. *)
(* A publication is a Publish under the kernel's context ("async") or under *)
(* another one ("detached"), or a PublishSync ("sync").                    *)
(***************************************************************************)
EXTENDS Naturals, FiniteSets

CONSTANTS
    Topics,
    Ids,           \* subscriber ids; a module uses its plugin name
    Pubs,          \* Publish and PublishSync calls
    QueueSize,     \* capacity of dispatchSem
    MaxGoroutines  \* capacity of the channel maxGoroutines

ASSUME FiniteAssumption == IsFiniteSet(Ids) /\ IsFiniteSet(Pubs)
ASSUME CapacityAssumption == QueueSize \in Nat \ {0} /\ MaxGoroutines \in Nat \ {0}

VARIABLES
    subscribers, \* topic -> ids
    stopped,     \* the flag Publish reads first
    cancelled,   \* the kernel's context is done
    shutdown,    \* progress of the end of Kernel.Shutdown
    pub,         \* publication -> its progress, topic and kind
    todo,        \* publication -> subscribers not dispatched yet
    delivery,    \* delivery -> progress of its goroutine
    goroutines,  \* tokens in maxGoroutines
    dispatching  \* tokens in dispatchSem

vars == <<subscribers, stopped, cancelled, shutdown, pub, todo, delivery, goroutines,
          dispatching>>

Deliveries == Pubs \X Ids
Kinds == {"async", "detached", "sync"}

\* Goroutines that hold a token of maxGoroutines, and of dispatchSem.
HoldsGoroutine == {"spawned", "acquired", "running", "ending", "refused"}
HoldsDispatch == {"acquired", "running", "ending", "releasing"}

\* Goroutines the WaitGroup counts.
Waited == HoldsGoroutine \cup HoldsDispatch

TypeOK ==
    /\ subscribers \in [Topics -> SUBSET Ids]
    /\ stopped \in BOOLEAN
    /\ cancelled \in BOOLEAN
    /\ shutdown \in {"no", "cancelled", "flagged", "waiting", "drained", "returned",
                     "timedOut"}
    /\ pub \in [Pubs -> [pc : {"idle", "checked", "loop", "done"}, topic : Topics, kind : Kinds]]
    /\ todo \in [Pubs -> SUBSET Ids]
    /\ delivery \in [Deliveries -> {"none", "sync", "done"} \cup Waited]
    /\ goroutines \in 0..MaxGoroutines
    /\ dispatching \in 0..QueueSize

Init ==
    /\ subscribers = [t \in Topics |-> {}]
    /\ stopped = FALSE /\ cancelled = FALSE /\ shutdown = "no"
    /\ pub \in [Pubs -> [pc : {"idle"}, topic : Topics, kind : Kinds]]
    /\ todo = [p \in Pubs |-> {}]
    /\ delivery = [d \in Deliveries |-> "none"]
    /\ goroutines = 0 /\ dispatching = 0

-----------------------------------------------------------------------------
(* Subscriptions, each under the lock.                                     *)

\* A second subscription under the same id is ignored.  Subscribe does not ask
\* whether the bus is stopped.
Subscribe(t, i) ==
    /\ subscribers' = [subscribers EXCEPT ![t] = @ \cup {i}]
    /\ i \notin subscribers[t]
    /\ UNCHANGED <<stopped, cancelled, shutdown, pub, todo, delivery, goroutines,
                   dispatching>>

Unsubscribe(t, i) ==
    /\ i \in subscribers[t]
    /\ subscribers' = [subscribers EXCEPT ![t] = @ \ {i}]
    /\ UNCHANGED <<stopped, cancelled, shutdown, pub, todo, delivery, goroutines,
                   dispatching>>

UnsubscribeAll(i) ==
    /\ subscribers' = [t \in Topics |-> subscribers[t] \ {i}]
    /\ subscribers' # subscribers
    /\ UNCHANGED <<stopped, cancelled, shutdown, pub, todo, delivery, goroutines,
                   dispatching>>

-----------------------------------------------------------------------------
(* Publish and PublishSync, in the publisher's goroutine.                  *)

Step(p, label) == pub' = [pub EXCEPT ![p].pc = label]

\* Publish reads the flag; PublishSync does not.
CheckStopped(p) ==
    /\ pub[p].pc = "idle"
    /\ Step(p, IF stopped /\ pub[p].kind # "sync" THEN "done" ELSE "checked")
    /\ UNCHANGED <<subscribers, stopped, cancelled, shutdown, todo, delivery, goroutines,
                   dispatching>>

CopySubscribers(p) ==
    /\ pub[p].pc = "checked"
    /\ Step(p, "loop")
    /\ todo' = [todo EXCEPT ![p] = subscribers[pub[p].topic]]
    /\ UNCHANGED <<subscribers, stopped, cancelled, shutdown, delivery, goroutines,
                   dispatching>>

Became(d, label) == delivery' = [delivery EXCEPT ![d] = label]

\* Mutant: a full channel makes the publisher wait.
DispatchBlocks(p, i) ==
    /\ pub[p].pc = "loop" /\ pub[p].kind # "sync" /\ i \in todo[p]
    /\ goroutines < MaxGoroutines
    /\ todo' = [todo EXCEPT ![p] = @ \ {i}]
    /\ goroutines' = goroutines + 1
    /\ Became(<<p, i>>, "spawned")
    /\ UNCHANGED <<subscribers, stopped, cancelled, shutdown, pub, dispatching>>

\* One iteration of the loop in Publish: a goroutine or a dropped message.
Dispatch(p, i) ==
    /\ pub[p].pc = "loop" /\ pub[p].kind # "sync" /\ i \in todo[p]
    /\ todo' = [todo EXCEPT ![p] = @ \ {i}]
    /\ \/ /\ goroutines < MaxGoroutines
          /\ goroutines' = goroutines + 1
          /\ Became(<<p, i>>, "spawned")
       \/ /\ goroutines = MaxGoroutines
          /\ Became(<<p, i>>, "done")
          /\ UNCHANGED goroutines
    /\ UNCHANGED <<subscribers, stopped, cancelled, shutdown, pub, dispatching>>

\* PublishSync calls one handler after the other, with panics recovered.
CallSync(p, i) ==
    /\ pub[p].pc = "loop" /\ pub[p].kind = "sync" /\ i \in todo[p]
    /\ \A j \in Ids : delivery[<<p, j>>] # "sync"
    /\ todo' = [todo EXCEPT ![p] = @ \ {i}]
    /\ Became(<<p, i>>, "sync")
    /\ UNCHANGED <<subscribers, stopped, cancelled, shutdown, pub, goroutines,
                   dispatching>>

ReturnSync(p, i) ==
    /\ delivery[<<p, i>>] = "sync"
    /\ Became(<<p, i>>, "done")
    /\ UNCHANGED <<subscribers, stopped, cancelled, shutdown, pub, todo, goroutines,
                   dispatching>>

PublishReturns(p) ==
    /\ pub[p].pc = "loop" /\ todo[p] = {}
    /\ \A i \in Ids : delivery[<<p, i>>] # "sync"
    /\ Step(p, "done")
    /\ UNCHANGED <<subscribers, stopped, cancelled, shutdown, todo, delivery, goroutines,
                   dispatching>>

-----------------------------------------------------------------------------
(* The goroutine of a delivery.                                            *)

AcquireDispatch(d) ==
    /\ delivery[d] = "spawned"
    /\ \/ /\ dispatching < QueueSize
          /\ dispatching' = dispatching + 1
          /\ Became(d, "acquired")
       \/ /\ dispatching = QueueSize
          /\ Became(d, "refused")
          /\ UNCHANGED dispatching
    /\ UNCHANGED <<subscribers, stopped, cancelled, shutdown, pub, todo, goroutines>>

\* Mutant: the handler is called without a look at the context.
CallHandlerAnyway(d) ==
    /\ delivery[d] = "acquired"
    /\ Became(d, "running")
    /\ UNCHANGED <<subscribers, stopped, cancelled, shutdown, pub, todo, goroutines,
                   dispatching>>

\* The handler is not called any more when the publication's context is done.
CallHandler(d) ==
    /\ delivery[d] = "acquired"
    /\ IF cancelled /\ pub[d[1]].kind = "async"
       THEN Became(d, "ending")
       ELSE Became(d, "running")
    /\ UNCHANGED <<subscribers, stopped, cancelled, shutdown, pub, todo, goroutines,
                   dispatching>>

\* The handler returns, fails or panics.
HandlerReturns(d) ==
    /\ delivery[d] = "running"
    /\ Became(d, "ending")
    /\ UNCHANGED <<subscribers, stopped, cancelled, shutdown, pub, todo, goroutines,
                   dispatching>>

\* Mutant: the goroutine's token is only returned after a handler was called.
ReleaseGoroutineHandled(d) ==
    /\ delivery[d] \in {"ending", "refused"}
    /\ goroutines' = IF delivery[d] = "ending" THEN goroutines - 1 ELSE goroutines
    /\ Became(d, IF delivery[d] = "ending" THEN "releasing" ELSE "done")
    /\ UNCHANGED <<subscribers, stopped, cancelled, shutdown, pub, todo, dispatching>>

\* The deferred function: first the token of maxGoroutines,
ReleaseGoroutine(d) ==
    /\ delivery[d] \in {"ending", "refused"}
    /\ goroutines' = goroutines - 1
    /\ Became(d, IF delivery[d] = "ending" THEN "releasing" ELSE "done")
    /\ UNCHANGED <<subscribers, stopped, cancelled, shutdown, pub, todo, dispatching>>

\* then the one of dispatchSem, if it was acquired, and wg.Done.
ReleaseDispatch(d) ==
    /\ delivery[d] = "releasing"
    /\ dispatching' = dispatching - 1
    /\ Became(d, "done")
    /\ UNCHANGED <<subscribers, stopped, cancelled, shutdown, pub, todo, goroutines>>

-----------------------------------------------------------------------------
(* The end of Kernel.Shutdown, when the plugins are stopped.               *)

CancelContext ==
    /\ shutdown = "no"
    /\ cancelled' = TRUE
    /\ shutdown' = "cancelled"
    /\ UNCHANGED <<subscribers, stopped, pub, todo, delivery, goroutines, dispatching>>

\* Bus.Stop: the flag, the subscriptions, the wait of at most ten seconds.
StopFlag ==
    /\ shutdown = "cancelled"
    /\ stopped' = TRUE
    /\ shutdown' = "flagged"
    /\ UNCHANGED <<subscribers, cancelled, pub, todo, delivery, goroutines, dispatching>>

StopClear ==
    /\ shutdown = "flagged"
    /\ subscribers' = [t \in Topics |-> {}]
    /\ shutdown' = "waiting"
    /\ UNCHANGED <<stopped, cancelled, pub, todo, delivery, goroutines, dispatching>>

\* The goroutine that waits for the WaitGroup closes the channel.
WaitDone ==
    /\ shutdown = "waiting"
    /\ \A d \in Deliveries : delivery[d] \notin Waited
    /\ shutdown' = "drained"
    /\ UNCHANGED <<subscribers, stopped, cancelled, pub, todo, delivery, goroutines,
                   dispatching>>

\* Stop returns: drained, or ten seconds later.
StopReturns ==
    /\ shutdown \in {"waiting", "drained"}
    /\ shutdown' = IF shutdown = "drained" THEN "returned" ELSE "timedOut"
    /\ UNCHANGED <<subscribers, stopped, cancelled, pub, todo, delivery, goroutines,
                   dispatching>>

-----------------------------------------------------------------------------
Publisher(p) ==
    \/ CopySubscribers(p) \/ PublishReturns(p)
    \/ \E i \in Ids : Dispatch(p, i) \/ CallSync(p, i)

\* The goroutine of a delivery, but for the handler, which may hang.
Goroutine(d) ==
    AcquireDispatch(d) \/ CallHandler(d) \/ ReleaseGoroutine(d) \/ ReleaseDispatch(d)

Shutdown == CancelContext \/ StopFlag \/ StopClear \/ WaitDone \/ StopReturns

Next ==
    \/ \E t \in Topics, i \in Ids : Subscribe(t, i) \/ Unsubscribe(t, i)
    \/ \E i \in Ids : UnsubscribeAll(i)
    \/ \E p \in Pubs : CheckStopped(p) \/ Publisher(p)
    \/ \E p \in Pubs, i \in Ids : ReturnSync(p, i)
    \/ \E d \in Deliveries : Goroutine(d) \/ HandlerReturns(d)
    \/ Shutdown

\* The runtime schedules the publishers; the goroutines of the deliveries may
\* hang, and the kernel need not be shut down.
Fairness == \A p \in Pubs : WF_vars(Publisher(p))

Spec == Init /\ [][Next]_vars /\ Fairness

-----------------------------------------------------------------------------
(* Properties.                                                             *)

\* Each semaphore holds exactly one token per goroutine that took one: no path
\* through drops, cancellation, errors and panics leaks or returns one twice.
TokensAccounted ==
    /\ goroutines = Cardinality({d \in Deliveries : delivery[d] \in HoldsGoroutine})
    /\ dispatching = Cardinality({d \in Deliveries : delivery[d] \in HoldsDispatch})

\* When Stop drained the bus, no handler of a publication under the kernel's
\* context runs from then on, although a publisher may have read the flag and
\* copied the subscribers before Stop: Kernel.Shutdown cancels the context first.
QuietAfterDrain ==
    shutdown \in {"drained", "returned"} =>
        \A d \in Deliveries : pub[d[1]].kind = "async" => delivery[d] # "running"

\* Publish never waits for subscribers: it returns although every handler hangs
\* and both semaphores are full.
PublishReturnsAlways ==
    \A p \in Pubs :
        (pub[p].pc = "checked" /\ pub[p].kind # "sync") ~> (pub[p].pc = "done")
=============================================================================
