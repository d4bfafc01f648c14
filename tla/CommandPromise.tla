--------------------------- MODULE CommandPromise ---------------------------
(***************************************************************************)
(* What the command path promises to whoever calls                         *)
(* Commander.EnqueueCommand (internal/commander/commander.go): a command   *)
(* acts on its host at most once, and never once the kernel or the agent   *)
(* has given it up.  Nothing is promised about it acting at all.           *)
(***************************************************************************)
CONSTANT Commands

VARIABLE fate  \* command -> "unissued", "issued", "acted" or "lost"

PromiseInit == fate = [c \in Commands |-> "unissued"]

Issue(c) == fate[c] = "unissued" /\ fate' = [fate EXCEPT ![c] = "issued"]

Act(c) == fate[c] = "issued" /\ fate' = [fate EXCEPT ![c] = "acted"]

\* Several commands may be given up in one step.
Lose(C) ==
    /\ C # {} /\ \A c \in C : fate[c] = "issued"
    /\ fate' = [c \in Commands |-> IF c \in C THEN "lost" ELSE fate[c]]

PromiseNext ==
    \/ \E c \in Commands : Issue(c) \/ Act(c)
    \/ \E C \in SUBSET Commands : Lose(C)

PromiseSpec == PromiseInit /\ [][PromiseNext]_fate

=============================================================================
