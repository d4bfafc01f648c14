-------------------------- MODULE ResilienceCircuit --------------------------
(***************************************************************************)
(* The circuit breaker of one guarded module (internal/resilience,         *)
(* circuit.go and guard.go).  A module is guarded by GuardGo, which asks   *)
(* Allow and reports panics (the kernel's heartbeat evaluation), or by     *)
(* Guard, which reports results and does not ask (script adapters).        *)
(*                                                                         *)
(* Calls are made again and again.  Every operation looks the breaker up   *)
(* in the global map and then works on it under its own lock, so a call    *)
(* may work on a breaker that another call has replaced in the map.        *)
(***************************************************************************)
EXTENDS Naturals, FiniteSets

CONSTANTS
    Calls,     \* concurrent calls of the module
    Breakers,  \* breaker objects; one that nothing refers to is used again
    Threshold, \* failures that open the circuit
    NoBreaker  \* the map has no entry for the module

ASSUME BreakersAssumption == NoBreaker \notin Breakers
ASSUME ThresholdAssumption == Threshold \in Nat \ {0}

VARIABLES
    kind,      \* how the module is guarded
    current,   \* the breaker in the map
    at,        \* progress of a call
    operation, \* what a call does with the breaker it looks up
    ref,       \* the breaker a call found
    state,     \* breaker -> state
    failures,  \* breaker -> failures since the last success, at most Threshold
    cooled     \* breaker -> the cooldown since openedAt is over

breakerVars == <<state, failures, cooled>>
circuitVars == <<kind, current, at, operation, ref, breakerVars>>

CircuitTypeOK ==
    /\ kind \in {"GuardGo", "Guard"}
    /\ current \in Breakers \cup {NoBreaker}
    /\ at \in [Calls -> {"idle", "lookup", "create", "apply", "running"}]
    /\ operation \in [Calls -> {"allow", "success", "failure"}]
    /\ ref \in [Calls -> Breakers \cup {NoBreaker}]
    /\ state \in [Breakers -> {"closed", "open", "halfOpen"}]
    /\ failures \in [Breakers -> 0..Threshold]
    /\ cooled \in [Breakers -> BOOLEAN]

CircuitInit ==
    /\ kind \in {"GuardGo", "Guard"}
    /\ current = NoBreaker
    /\ at = [c \in Calls |-> "idle"]
    /\ operation = [c \in Calls |-> "allow"]
    /\ ref = [c \in Calls |-> NoBreaker]
    /\ state = [b \in Breakers |-> "closed"]
    /\ failures = [b \in Breakers |-> 0]
    /\ cooled = [b \in Breakers |-> FALSE]

CallGoto(c, label) == at' = [at EXCEPT ![c] = label]

-----------------------------------------------------------------------------
(* getBreaker: a lookup under the read lock and, if it finds nothing, a new *)
(* breaker under the write lock, which does not look again.                 *)

Lookup(c) ==
    /\ at[c] = "lookup"
    /\ CallGoto(c, IF current = NoBreaker THEN "create" ELSE "apply")
    /\ ref' = [ref EXCEPT ![c] = current]
    /\ UNCHANGED <<kind, current, operation, breakerVars>>

Unused == {b \in Breakers : b # current /\ \A c \in Calls : ref[c] # b}

Create(c) ==
    /\ at[c] = "create"
    /\ \E b \in Unused :
          /\ current' = b
          /\ ref' = [ref EXCEPT ![c] = b]
          /\ state' = [state EXCEPT ![b] = "closed"]
          /\ failures' = [failures EXCEPT ![b] = 0]
          /\ cooled' = [cooled EXCEPT ![b] = FALSE]
    /\ CallGoto(c, "apply")
    /\ UNCHANGED <<kind, operation>>

-----------------------------------------------------------------------------
(* The operations on the breaker a call found, under its lock.             *)

Apply(c, op) == at[c] = "apply" /\ operation[c] = op

\* The call is over and forgets the breaker.
CallLeaves(c, label) == CallGoto(c, label) /\ ref' = [ref EXCEPT ![c] = NoBreaker]

\* Mutant: the cooldown is not looked at.
AllowNoTrial(c) ==
    /\ Apply(c, "allow")
    /\ CallLeaves(c, IF state[ref[c]] = "closed" THEN "running" ELSE "idle")
    /\ UNCHANGED <<kind, current, operation, breakerVars>>

\* Allow: the call that finds the cooldown over is the trial.
Allow(c) ==
    /\ Apply(c, "allow")
    /\ LET b == ref[c]
           trial == state[b] = "open" /\ cooled[b]
       IN  /\ state' = [state EXCEPT ![b] = IF trial THEN "halfOpen" ELSE @]
           /\ CallLeaves(c, IF state[b] = "closed" \/ trial THEN "running" ELSE "idle")
    /\ UNCHANGED <<kind, current, operation, failures, cooled>>

\* Mutant: the count starts again when the circuit opens.
RecordFailureRestarts(c) ==
    /\ Apply(c, "failure")
    /\ LET b == ref[c]
           opens == failures[b] + 1 >= Threshold /\ state[b] # "open"
       IN  /\ failures' = [failures EXCEPT ![b] =
                              IF opens THEN 0 ELSE IF @ < Threshold THEN @ + 1 ELSE @]
           /\ state' = [state EXCEPT ![b] = IF opens THEN "open" ELSE @]
           /\ cooled' = [cooled EXCEPT ![b] = IF opens THEN FALSE ELSE @]
    /\ CallLeaves(c, "idle")
    /\ UNCHANGED <<kind, current, operation>>

\* RecordFailure opens the circuit, or opens it again after a failed trial.
RecordFailure(c) ==
    /\ Apply(c, "failure")
    /\ LET b == ref[c]
           opens == failures[b] + 1 >= Threshold /\ state[b] # "open"
       IN  /\ failures' = [failures EXCEPT ![b] = IF @ < Threshold THEN @ + 1 ELSE @]
           /\ state' = [state EXCEPT ![b] = IF opens THEN "open" ELSE @]
           /\ cooled' = [cooled EXCEPT ![b] = IF opens THEN FALSE ELSE @]
    /\ CallLeaves(c, "idle")
    /\ UNCHANGED <<kind, current, operation>>

\* RecordSuccess: the counter is reset, and a half-open circuit closed.
RecordSuccess(c) ==
    /\ Apply(c, "success")
    /\ LET b == ref[c]
       IN  /\ failures' = [failures EXCEPT ![b] = 0]
           /\ state' = [state EXCEPT ![b] = IF @ = "halfOpen" THEN "closed" ELSE @]
    /\ CallLeaves(c, "idle")
    /\ UNCHANGED <<kind, current, operation, cooled>>

\* Reset by an operator.
Reset ==
    /\ current # NoBreaker
    /\ state' = [state EXCEPT ![current] = "closed"]
    /\ failures' = [failures EXCEPT ![current] = 0]
    /\ UNCHANGED <<kind, current, at, operation, ref, cooled>>

\* The cooldown of an open circuit ends.
Cooldown(b) ==
    /\ state[b] = "open" /\ ~cooled[b]
    /\ cooled' = [cooled EXCEPT ![b] = TRUE]
    /\ UNCHANGED <<kind, current, at, operation, ref, state, failures>>

-----------------------------------------------------------------------------
(* GuardGo and Guard around the guarded function.                          *)

Call(c) ==
    /\ at[c] = "idle"
    /\ CallGoto(c, IF kind = "GuardGo" THEN "lookup" ELSE "running")
    /\ operation' = [operation EXCEPT ![c] = "allow"]
    /\ UNCHANGED <<kind, current, ref, breakerVars>>

\* The function panics or, under Guard, returns an error.
FunctionFails(c) ==
    /\ at[c] = "running"
    /\ CallGoto(c, "lookup")
    /\ operation' = [operation EXCEPT ![c] = "failure"]
    /\ UNCHANGED <<kind, current, ref, breakerVars>>

\* The function returns: Guard reports a success, GuardGo reports nothing.
FunctionReturns(c) ==
    /\ at[c] = "running"
    /\ IF kind = "Guard"
       THEN CallGoto(c, "lookup") /\ operation' = [operation EXCEPT ![c] = "success"]
       ELSE CallGoto(c, "idle") /\ UNCHANGED operation
    /\ UNCHANGED <<kind, current, ref, breakerVars>>

-----------------------------------------------------------------------------
CallStep(c) ==
    \/ Call(c) \/ Lookup(c) \/ Create(c) \/ Allow(c) \/ RecordFailure(c)
    \/ RecordSuccess(c) \/ FunctionFails(c) \/ FunctionReturns(c)

CircuitNext ==
    \/ \E c \in Calls : CallStep(c)
    \/ \E b \in Breakers : Cooldown(b)
    \/ Reset

\* Heartbeats keep coming, the guarded functions end and time passes.
CircuitFairness ==
    /\ \A c \in Calls : WF_circuitVars(CallStep(c))
    /\ \A b \in Breakers : WF_circuitVars(Cooldown(b))

CircuitSpec == CircuitInit /\ [][CircuitNext]_circuitVars /\ CircuitFairness

-----------------------------------------------------------------------------
(* Properties that hold.                                                   *)

\* A trial that fails opens the circuit again: under GuardGo nothing takes the
\* failures back that opened it, so one more always reaches the threshold.
FailedTrialReopens ==
    [][\A c \in Calls :
          /\ kind = "GuardGo" /\ at[c] = "apply" /\ at'[c] = "idle"
          /\ operation[c] = "failure" /\ state[ref[c]] = "halfOpen"
          => state'[ref[c]] = "open"]_circuitVars

\* An open circuit is left by the trial after the cooldown and by Reset only,
\* unless a call that found the map empty is about to replace the breaker.
OpenIsKept ==
    [][\A b \in Breakers :
          state[b] = "open" /\ b = current /\ (\A c \in Calls : at[c] # "create") =>
             /\ current' = b
             /\ \/ state'[b] = "open"
                \/ state'[b] = "halfOpen" /\ cooled[b]
                \/ state'[b] = "closed" /\ at' = at]_circuitVars

\* An open circuit gets its trial, whatever calls are refused or fail late
\* meanwhile: neither prolongs the cooldown.
OpenGetsTrial ==
    \A b \in Breakers :
        (kind = "GuardGo" /\ current = b /\ state[b] = "open") ~>
            (current # b \/ state[b] # "open")

\* An open circuit stays open until its trial, and has it.
OpenEndsInTrial == OpenIsKept /\ OpenGetsTrial

-----------------------------------------------------------------------------
(* What a comment of GuardGo says, and the code does not do.               *)

\* "the circuit opens and subsequent GuardGo calls for that module are blocked
\* until the cooldown expires": calls run again and again, however many panic.
\* A trial that does not panic is never reported, and the circuit stays
\* half-open, refusing every call.
BlockedUntilCooldown == kind = "GuardGo" => []<>(\E c \in Calls : at[c] = "running")
=============================================================================
