---------------------------- MODULE MCKernelState ----------------------------
(***************************************************************************)
(* Two parts of the kernel on small instances, one per behaviour: the      *)
(* identities of the agents (two hosts and two certificates give every     *)
(* conflict a binding can have) and the life of its plugins (every graph   *)
(* over three plugins, enough for a cycle and a plugin that depends on it).*)
(***************************************************************************)
EXTENDS Heartbeat, KernelLifecycle, TLC

VARIABLE part

Symmetry == Permutations(Hosts) \cup Permutations(Certs)

\* The part that does not take part rests in its first state.
MCInit ==
    /\ part \in {"identity", "lifecycle"}
    /\ Init /\ LifecycleInit
    /\ part = "identity" => deps = [p \in Plugins |-> {}]
MCNext ==
    /\ \/ part = "identity" /\ Next /\ UNCHANGED lifecycleVars
       \/ part = "lifecycle" /\ LifecycleNext /\ UNCHANGED vars
    /\ UNCHANGED part
MCSpec == MCInit /\ [][MCNext]_<<part, vars, lifecycleVars>>
===============================================================================
