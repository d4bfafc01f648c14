----------------------------- MODULE Collections -----------------------------
(***************************************************************************)
(* Loops over collections: the parts of a list that a condition keeps,     *)
(* sums, and the orders a sort may leave.  They are recursive functions,    *)
(* not recursive operators, so that what they return can be proved.        *)
(***************************************************************************)
EXTENDS Integers, Sequences, FiniteSets

\* The elements of s that are in S, in their order.
Chosen(s, S) ==
    LET upTo[n \in 0 .. Len(s)] ==
          IF n = 0 THEN <<>>
          ELSE IF s[n] \in S THEN Append(upTo[n - 1], s[n]) ELSE upTo[n - 1]
    IN  upTo[Len(s)]
Where(s, P(_)) == Chosen(s, {x \in {s[i] : i \in DOMAIN s} : P(x)})

\* The sum of f over a finite part S of its domain.
SumOf(f, S) ==
    LET sum[T \in SUBSET S] ==
          IF T = {} THEN 0 ELSE LET x == CHOOSE y \in T : TRUE IN f[x] + sum[T \ {x}]
    IN  sum[S]
Total(S, f(_)) == SumOf([x \in S |-> f(x)], S)
TotalSeq(s, f(_)) == SumOf([i \in DOMAIN s |-> f(s[i])], DOMAIN s)

\* The lists a sort of the finite set S may leave: before(x, y) says that x may stand
\* before y; elements that may stand either way come in any order.
Sortings(S, before(_, _)) ==
    {q \in [1 .. Cardinality(S) -> S] :
        \A i, j \in DOMAIN q : i < j => q[i] # q[j] /\ before(q[i], q[j])}
==============================================================================
