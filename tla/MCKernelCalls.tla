---------------------------- MODULE MCKernelCalls ----------------------------
(***************************************************************************)
(* Two parts of the kernel that run code for others, one per behaviour:    *)
(* the worker pool with more tasks than slots, so that some queue, and the *)
(* circuit breaker, where two calls need three breakers: the one in the    *)
(* map and one that each call may still refer to.                          *)
(***************************************************************************)
EXTENDS WorkerPool, ResilienceCircuit

VARIABLE part

\* The part that does not take part rests in its first state.
MCInit ==
    /\ part \in {"pool", "circuit"}
    /\ Init /\ CircuitInit
    /\ part = "pool" => kind = "GuardGo"
MCNext ==
    /\ \/ part = "pool" /\ Next /\ UNCHANGED circuitVars
       \/ part = "circuit" /\ CircuitNext /\ UNCHANGED vars
    /\ UNCHANGED part
MCSpec ==
    /\ MCInit /\ [][MCNext]_<<part, vars, circuitVars>>
    /\ part = "pool" => Fairness
    /\ part = "circuit" => CircuitFairness

----------------------------------------------------------------------------
\* The breaker alone, for what its comment says.
BreakerSpec ==
    /\ CircuitInit /\ Init /\ part = "circuit"
    /\ [][CircuitNext /\ UNCHANGED <<part, vars>>]_<<part, vars, circuitVars>>
    /\ CircuitFairness
===============================================================================
