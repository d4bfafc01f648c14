--------------------------- MODULE AnalysisProofs ---------------------------
(***************************************************************************)
(* The analysis side keeps what it promises, for every value of its        *)
(* constants: the report of a round of checks, the state made from the     *)
(* reports of scanners, the threats of the feeds, the records of the       *)
(* ATT&CK analysis and the attack chains.                                  *)
(*                                                                         *)
(* Its loops are recursive functions; what they return follows from the    *)
(* least element of a set of natural numbers, the one form of induction    *)
(* used here.                                                              *)
(***************************************************************************)
EXTENDS MCAnalysis, FiniteSetTheorems, WellFoundedInduction, TLAPS

-----------------------------------------------------------------------------
(* Induction, lists and sums. *)

LEMMA NatWellFounded == IsWellFoundedOn({p \in Nat \X Nat : p[1] < p[2]}, Nat)
  BY NatLessThanWellFounded DEF OpToRel

\* A set of natural numbers that is not empty has a least one.
LEMMA Least ==
    ASSUME NEW T \in SUBSET Nat, T # {}
    PROVE  \E n \in T : \A m \in T : n <= m
<1>1. PICK n \in T : \A m \in T : ~ (<<m, n>> \in {p \in Nat \X Nat : p[1] < p[2]})
  BY NatWellFounded, WFMin
<1>2. ASSUME NEW m \in T PROVE n <= m
  <2>1. <<m, n>> \in Nat \X Nat
    OBVIOUS
  <2>2. ~ (m < n)
    BY <1>1, <2>1
  <2> QED
    BY <2>2
<1> QED
  BY <1>2

\* Induction on the natural numbers, for a set of them.
LEMMA Inductive ==
    ASSUME NEW S, 0 \in S, \A n \in Nat : n \in S => n + 1 \in S
    PROVE  Nat \subseteq S
<1> SUFFICES ASSUME Nat \ S # {} PROVE FALSE
  OBVIOUS
<1>1. PICK n \in Nat \ S : \A m \in Nat \ S : n <= m
  BY Least
<1>2. n # 0 /\ n - 1 \in Nat /\ n - 1 \in S
  BY <1>1
<1> QED
  BY <1>1, <1>2

\* Induction on the parts of a finite set.
LEMMA Growing ==
    ASSUME NEW S, IsFiniteSet(S), NEW F, {} \in F,
           \A T \in SUBSET S : \A x \in S \ T : T \in F => T \cup {x} \in F
    PROVE  S \in F
<1> DEFINE G == {n \in Nat : \A T \in SUBSET S : Cardinality(T) = n => T \in F}
<1>1. 0 \in G
  BY FS_Subset, FS_EmptySet
<1>2. ASSUME NEW n \in Nat, n \in G PROVE n + 1 \in G
  <2> SUFFICES ASSUME NEW T \in SUBSET S, Cardinality(T) = n + 1 PROVE T \in F
    OBVIOUS
  <2>1. IsFiniteSet(T) /\ T # {}
    BY FS_Subset, FS_EmptySet
  <2>2. PICK x \in T : TRUE
    BY <2>1
  <2> DEFINE U == T \ {x}
  <2>3. U \in SUBSET S /\ x \in S \ U /\ T = U \cup {x}
    BY <2>2
  <2>4. Cardinality(U) = Cardinality(T) - 1
    BY <2>1, <2>2, FS_RemoveElement
  <2> HIDE DEF U
  <2>5. U \in F
    BY <1>2, <2>3, <2>4
  <2> QED
    BY <2>3, <2>5
<1>3. Nat \subseteq G
  <2> HIDE DEF G
  <2> QED
    BY <1>1, <1>2, Inductive
<1> QED
  BY <1>3, FS_CardinalityType

-----------------------------------------------------------------------------
\* The list of Chosen up to a place of s.
ChosenUpTo(s, S) ==
    CHOOSE upTo : upTo = [n \in 0 .. Len(s) |->
          IF n = 0 THEN <<>>
          ELSE IF s[n] \in S THEN Append(upTo[n - 1], s[n]) ELSE upTo[n - 1]]

LEMMA ChosenStep ==
    ASSUME NEW D, NEW s \in Seq(D), NEW S
    PROVE  ChosenUpTo(s, S) = [n \in 0 .. Len(s) |->
              IF n = 0 THEN <<>>
              ELSE IF s[n] \in S THEN Append(ChosenUpTo(s, S)[n - 1], s[n]) ELSE ChosenUpTo(s, S)[n - 1]]
<1> DEFINE Is(f, m) == f = [n \in 0 .. m |->
              IF n = 0 THEN <<>>
              ELSE IF s[n] \in S THEN Append(f[n - 1], s[n]) ELSE f[n - 1]]
           G == {m \in Nat : \E f : Is(f, m)}
<1>1. 0 \in G
  <2>1. Is([n \in 0 .. 0 |-> <<>>], 0)
    OBVIOUS
  <2> QED
    BY <2>1
<1>2. ASSUME NEW m \in Nat, m \in G PROVE m + 1 \in G
  <2>1. PICK f : Is(f, m)
    BY <1>2
  <2> DEFINE top == IF s[m + 1] \in S THEN Append(f[m], s[m + 1]) ELSE f[m]
             g == [n \in 0 .. m + 1 |-> IF n = m + 1 THEN top ELSE f[n]]
  <2>2. g[m + 1] = top /\ \A n \in 0 .. m : g[n] = f[n]
    OBVIOUS
  <2>3. \A n \in 0 .. m + 1 : g[n] = IF n = 0 THEN <<>>
              ELSE IF s[n] \in S THEN Append(g[n - 1], s[n]) ELSE g[n - 1]
    <3> SUFFICES ASSUME NEW n \in 0 .. m + 1
                 PROVE  g[n] = IF n = 0 THEN <<>>
                               ELSE IF s[n] \in S THEN Append(g[n - 1], s[n]) ELSE g[n - 1]
      OBVIOUS
    <3> HIDE DEF g
    <3>1. CASE n = m + 1
      <4>1. g[n - 1] = f[m]
        BY <2>2, <3>1
      <4> QED
        BY <2>2, <3>1, <4>1
    <3>2. CASE n # m + 1
      <4>1. n \in 0 .. m
        BY <3>2
      <4>2. f[n] = IF n = 0 THEN <<>> ELSE IF s[n] \in S THEN Append(f[n - 1], s[n]) ELSE f[n - 1]
        BY <2>1, <4>1
      <4>3. n # 0 => g[n - 1] = f[n - 1]
        BY <2>2, <4>1
      <4> QED
        BY <2>2, <4>1, <4>2, <4>3
    <3> QED
      BY <3>1, <3>2
  <2>4. Is(g, m + 1)
    <3>1. g = [n \in 0 .. m + 1 |-> g[n]]
      OBVIOUS
    <3> HIDE DEF g
    <3> QED
      BY <2>3, <3>1
  <2> HIDE DEF g, Is
  <2> QED
    BY <2>4
<1>3. Len(s) \in G
  <2> HIDE DEF G
  <2>1. Nat \subseteq G
    BY <1>1, <1>2, Inductive
  <2> QED
    BY <2>1
<1>4. \E f : Is(f, Len(s))
  BY <1>3
<1> QED
  BY <1>4 DEF ChosenUpTo

\* The list q is what Chosen has made of the first n elements of s.
ChosenSoFar(s, S, D, n, q) ==
    /\ q \in Seq(D \cap S)
    /\ \A k \in DOMAIN q : \E i \in 1 .. n : q[k] = s[i]
    /\ (\A i, j \in DOMAIN s : s[i] = s[j] => i = j) => \A k, l \in DOMAIN q : q[k] = q[l] => k = l
    /\ \A i \in 1 .. n : s[i] \in S => \E k \in DOMAIN q : q[k] = s[i]
    /\ Len(q) <= n

LEMMA ChosenOneMore ==
    ASSUME NEW D, NEW s \in Seq(D), NEW S, NEW n \in Nat, n < Len(s), NEW q, ChosenSoFar(s, S, D, n, q),
           s[n + 1] \in S
    PROVE  ChosenSoFar(s, S, D, n + 1, Append(q, s[n + 1]))
<1> DEFINE r == Append(q, s[n + 1])
<1>1. s[n + 1] \in D /\ DOMAIN s = 1 .. Len(s)
  OBVIOUS
<1>2. q \in Seq(D \cap S)
  BY DEF ChosenSoFar
<1>3. /\ r \in Seq(D \cap S) /\ Len(r) = Len(q) + 1
      /\ DOMAIN q = 1 .. Len(q) /\ DOMAIN r = 1 .. Len(q) + 1 /\ Len(q) \in Nat
      /\ r[Len(q) + 1] = s[n + 1] /\ \A k \in 1 .. Len(q) : r[k] = q[k]
  BY <1>1, <1>2
<1> HIDE DEF r
<1>4. \A k \in DOMAIN r : \E i \in 1 .. n + 1 : r[k] = s[i]
  <2> SUFFICES ASSUME NEW k \in DOMAIN r PROVE \E i \in 1 .. n + 1 : r[k] = s[i]
    OBVIOUS
  <2>1. CASE k = Len(q) + 1
    BY <1>3, <2>1
  <2>2. CASE k # Len(q) + 1
    BY <1>3, <2>2 DEF ChosenSoFar
  <2> QED
    BY <2>1, <2>2
<1>5. ASSUME \A i, j \in DOMAIN s : s[i] = s[j] => i = j,
             NEW k \in DOMAIN r, NEW l \in DOMAIN r, r[k] = r[l]
      PROVE  k = l
  <2>1. ASSUME NEW m \in 1 .. Len(q) PROVE q[m] # s[n + 1]
    <3>1. PICK i \in 1 .. n : q[m] = s[i]
      BY <1>3 DEF ChosenSoFar
    <3> QED
      BY <1>1, <1>5, <3>1
  <2>2. \A a, b \in DOMAIN q : q[a] = q[b] => a = b
    BY <1>5 DEF ChosenSoFar
  <2> QED
    BY <1>3, <1>5, <2>1, <2>2
<1>6. ASSUME NEW i \in 1 .. n + 1, s[i] \in S PROVE \E k \in DOMAIN r : r[k] = s[i]
  <2>1. CASE i = n + 1
    BY <1>3, <2>1
  <2>2. CASE i # n + 1
    <3>1. PICK k \in DOMAIN q : q[k] = s[i]
      BY <1>6, <2>2 DEF ChosenSoFar
    <3> QED
      BY <1>3, <3>1
  <2> QED
    BY <2>1, <2>2
<1>7. Len(r) <= n + 1
  BY <1>3 DEF ChosenSoFar
<1>8. ChosenSoFar(s, S, D, n + 1, r)
  BY <1>3, <1>4, <1>5, <1>6, <1>7 DEF ChosenSoFar
<1> QED
  BY <1>8 DEF r

\* What is chosen comes from s and is in S, all of it, and what s has once is chosen once.
LEMMA ChosenFacts ==
    ASSUME NEW D, NEW s \in Seq(D), NEW S
    PROVE  /\ Chosen(s, S) \in Seq(D \cap S)
           /\ \A k \in DOMAIN Chosen(s, S) : \E i \in DOMAIN s : Chosen(s, S)[k] = s[i]
           /\ (\A i, j \in DOMAIN s : s[i] = s[j] => i = j) =>
                 \A k, l \in DOMAIN Chosen(s, S) : Chosen(s, S)[k] = Chosen(s, S)[l] => k = l
           /\ \A i \in DOMAIN s : s[i] \in S => \E k \in DOMAIN Chosen(s, S) : Chosen(s, S)[k] = s[i]
           /\ Len(Chosen(s, S)) <= Len(s)
<1> DEFINE U == ChosenUpTo(s, S)
           G == {n \in Nat : n <= Len(s) => ChosenSoFar(s, S, D, n, U[n])}
<1>1. Chosen(s, S) = U[Len(s)]
  BY DEF Chosen, ChosenUpTo
<1>2. U = [n \in 0 .. Len(s) |->
              IF n = 0 THEN <<>>
              ELSE IF s[n] \in S THEN Append(U[n - 1], s[n]) ELSE U[n - 1]]
  BY ChosenStep
<1> HIDE DEF U
<1>3. /\ U[0] = <<>>
      /\ \A n \in 1 .. Len(s) : U[n] = IF s[n] \in S THEN Append(U[n - 1], s[n]) ELSE U[n - 1]
  <2>1. \A n \in 0 .. Len(s) : U[n] = IF n = 0 THEN <<>>
              ELSE IF s[n] \in S THEN Append(U[n - 1], s[n]) ELSE U[n - 1]
    BY <1>2
  <2>2. 0 \in 0 .. Len(s) /\ \A n \in 1 .. Len(s) : n \in 0 .. Len(s) /\ n # 0
    OBVIOUS
  <2> QED
    BY <2>1, <2>2
<1>4. 0 \in G
  <2>1. ChosenSoFar(s, S, D, 0, <<>>)
    BY DEF ChosenSoFar
  <2> QED
    BY <1>3, <2>1
<1>5. ASSUME NEW n \in Nat, n \in G PROVE n + 1 \in G
  <2> SUFFICES ASSUME n + 1 <= Len(s) PROVE ChosenSoFar(s, S, D, n + 1, U[n + 1])
    OBVIOUS
  <2>1. ChosenSoFar(s, S, D, n, U[n])
    BY <1>5
  <2>2. U[n + 1] = IF s[n + 1] \in S THEN Append(U[n], s[n + 1]) ELSE U[n]
    BY <1>3
  <2>3. CASE s[n + 1] \notin S
    BY <2>1, <2>2, <2>3 DEF ChosenSoFar
  <2>4. CASE s[n + 1] \in S
    BY <2>1, <2>2, <2>4, ChosenOneMore
  <2> QED
    BY <2>3, <2>4
<1>6. Nat \subseteq G
  <2> HIDE DEF G
  <2> QED
    BY <1>4, <1>5, Inductive
<1>7. ChosenSoFar(s, S, D, Len(s), U[Len(s)])
  BY <1>6
<1> QED
  BY <1>1, <1>7 DEF ChosenSoFar

-----------------------------------------------------------------------------
\* Sums.  Those of the parts of S.
Sums(f, S) ==
    CHOOSE sum : sum = [T \in SUBSET S |->
          IF T = {} THEN 0 ELSE LET x == CHOOSE y \in T : TRUE IN f[x] + sum[T \ {x}]]
An(T) == CHOOSE y \in T : TRUE

LEMMA SumsExist ==
    ASSUME NEW S, IsFiniteSet(S), NEW f
    PROVE  Sums(f, S) = [T \in SUBSET S |-> IF T = {} THEN 0 ELSE f[An(T)] + Sums(f, S)[T \ {An(T)}]]
<1> DEFINE Small(n) == {U \in SUBSET S : Cardinality(U) <= n}
           Is(g, M) == g = [T \in M |-> IF T = {} THEN 0 ELSE f[An(T)] + g[T \ {An(T)}]]
           G == {n \in Nat : \E g : Is(g, Small(n))}
<1>0. \A T \in SUBSET S : IsFiniteSet(T) /\ Cardinality(T) \in Nat
  BY FS_Subset, FS_CardinalityType
<1>1. 0 \in G
  <2>1. Small(0) = {{}}
    BY <1>0, FS_EmptySet
  <2>2. Is([T \in {{}} |-> 0], {{}})
    OBVIOUS
  <2> HIDE DEF Small, Is
  <2> QED
    BY <2>1, <2>2
<1>2. ASSUME NEW n \in Nat, n \in G PROVE n + 1 \in G
  <2>1. PICK g : Is(g, Small(n))
    BY <1>2
  <2> DEFINE h == [T \in Small(n + 1) |-> IF T = {} THEN 0 ELSE f[An(T)] + g[T \ {An(T)}]]
  <2>2. ASSUME NEW T \in Small(n + 1), T # {} PROVE T \ {An(T)} \in Small(n)
    <3>1. An(T) \in T
      BY <2>2 DEF An
    <3>2. Cardinality(T \ {An(T)}) = Cardinality(T) - 1
      BY <1>0, <3>1, FS_RemoveElement
    <3> QED
      BY <1>0, <3>2
  <2>3. \A T \in Small(n) : T \in Small(n + 1)
    BY <1>0
  <2>4. \A T \in Small(n) : h[T] = g[T]
    <3> SUFFICES ASSUME NEW T \in Small(n) PROVE h[T] = g[T]
      OBVIOUS
    <3>1. g[T] = IF T = {} THEN 0 ELSE f[An(T)] + g[T \ {An(T)}]
      <4> HIDE DEF Small
      <4> QED
        BY <2>1
    <3> HIDE DEF Small
    <3> QED
      BY <2>3, <3>1
  <2>5. Is(h, Small(n + 1))
    <3>1. ASSUME NEW T \in Small(n + 1)
          PROVE  h[T] = IF T = {} THEN 0 ELSE f[An(T)] + h[T \ {An(T)}]
      <4> HIDE DEF Small
      <4>1. CASE T = {}
        BY <4>1
      <4>2. CASE T # {}
        <5>1. h[T \ {An(T)}] = g[T \ {An(T)}]
          <6> HIDE DEF h
          <6> QED
            BY <2>2, <2>4, <4>2
        <5> QED
          BY <4>2, <5>1
      <4> QED
        BY <4>1, <4>2
    <3>2. h = [T \in Small(n + 1) |-> h[T]]
      OBVIOUS
    <3> HIDE DEF h, Small
    <3> QED
      BY <3>1, <3>2
  <2> HIDE DEF h, Is
  <2> QED
    BY <2>5
<1>3. Nat \subseteq G
  <2> HIDE DEF G
  <2> QED
    BY <1>1, <1>2, Inductive
<1>4. PICK g : Is(g, Small(Cardinality(S)))
  <2>1. Cardinality(S) \in Nat
    BY FS_CardinalityType
  <2> QED
    BY <1>3, <2>1
<1>5. Small(Cardinality(S)) = SUBSET S
  BY FS_Subset
<1>6. Is(g, SUBSET S)
  <2> HIDE DEF Small, Is
  <2> QED
    BY <1>4, <1>5
<1>7. Sums(f, S) = CHOOSE sum : Is(sum, SUBSET S)
  BY DEF Sums, An
<1>8. Is(Sums(f, S), SUBSET S)
  <2> HIDE DEF Is
  <2> QED
    BY <1>6, <1>7
<1> QED
  BY <1>8

\* The sum of a part of S is the same whether computed within S or for itself.
LEMMA SumOfIsSum ==
    ASSUME NEW S, IsFiniteSet(S), NEW f
    PROVE  SumOf(f, S) = Sums(f, S)[S]
  BY DEF SumOf, Sums

\* The equation of Sums, apart from its CHOOSE.
LEMMA SumsStep ==
    ASSUME NEW S, IsFiniteSet(S), NEW f
    PROVE  /\ Sums(f, S)[{}] = 0
           /\ \A T \in SUBSET S : T # {} => An(T) \in T /\ Sums(f, S)[T] = f[An(T)] + Sums(f, S)[T \ {An(T)}]
           /\ \A T \in SUBSET S : IsFiniteSet(T) /\ Cardinality(T) \in Nat
           /\ \A T \in SUBSET S : \A x \in T : Cardinality(T \ {x}) = Cardinality(T) - 1
           /\ \A T \in SUBSET S : Cardinality(T) = 0 => T = {}
<1> DEFINE U == Sums(f, S)
<1>0. \A T \in SUBSET S : IsFiniteSet(T) /\ Cardinality(T) \in Nat
  BY FS_Subset, FS_CardinalityType
<1>1. U = [T \in SUBSET S |-> IF T = {} THEN 0 ELSE f[An(T)] + U[T \ {An(T)}]]
  BY SumsExist
<1>2. \A T : T # {} => An(T) \in T
  BY DEF An
<1>3. \A T \in SUBSET S : U[T] = IF T = {} THEN 0 ELSE f[An(T)] + U[T \ {An(T)}]
  <2> HIDE DEF U
  <2> QED
    BY <1>1
<1>4. ASSUME NEW T \in SUBSET S, NEW x \in T PROVE Cardinality(T \ {x}) = Cardinality(T) - 1
  BY <1>0, FS_RemoveElement
<1>5. ASSUME NEW T \in SUBSET S, Cardinality(T) = 0 PROVE T = {}
  BY <1>0, <1>5, FS_EmptySet
<1> HIDE DEF U
<1>6. U[{}] = 0
  BY <1>3
<1>7. \A T \in SUBSET S : T # {} => An(T) \in T /\ U[T] = f[An(T)] + U[T \ {An(T)}]
  BY <1>2, <1>3
<1> QED
  BY <1>0, <1>4, <1>5, <1>6, <1>7 DEF U

LEMMA SumsAreInt ==
    ASSUME NEW S, IsFiniteSet(S), NEW f, \A x \in S : f[x] \in Int
    PROVE  \A T \in SUBSET S : Sums(f, S)[T] \in Int
<1> DEFINE U == Sums(f, S)
           G == {n \in Nat : \A T \in SUBSET S : Cardinality(T) = n => U[T] \in Int}
<1>1. 0 \in G
  <2>1. ASSUME NEW T \in SUBSET S, Cardinality(T) = 0 PROVE U[T] \in Int
    <3>1. T = {} /\ U[{}] = 0
      BY <2>1, SumsStep
    <3> QED
      BY <3>1
  <2> HIDE DEF U
  <2> QED
    BY <2>1
<1>2. ASSUME NEW n \in Nat, n \in G PROVE n + 1 \in G
  <2> SUFFICES ASSUME NEW T \in SUBSET S, Cardinality(T) = n + 1 PROVE U[T] \in Int
    OBVIOUS
  <2>1. T # {}
    BY FS_EmptySet
  <2>2. An(T) \in T /\ U[T] = f[An(T)] + U[T \ {An(T)}]
    BY <2>1, SumsStep
  <2>3. T \ {An(T)} \in SUBSET S /\ Cardinality(T \ {An(T)}) = n
    BY <2>2, SumsStep
  <2>4. U[T \ {An(T)}] \in Int /\ f[An(T)] \in Int
    BY <1>2, <2>2, <2>3
  <2> HIDE DEF U
  <2> QED
    BY <2>2, <2>4
<1>3. Nat \subseteq G
  <2> HIDE DEF G
  <2> QED
    BY <1>1, <1>2, Inductive
<1> QED
  BY <1>3, SumsStep

\* Within S, a part's sum is that of any element of it and of the rest.
LEMMA AnyFirst ==
    ASSUME NEW S, IsFiniteSet(S), NEW f, \A x \in S : f[x] \in Int, NEW T \in SUBSET S, NEW x \in T
    PROVE  Sums(f, S)[T] = f[x] + Sums(f, S)[T \ {x}]
<1> DEFINE U == Sums(f, S)
           OK(W) == \A y \in W : U[W] = f[y] + U[W \ {y}]
           G == {n \in Nat : \A W \in SUBSET S : Cardinality(W) = n => OK(W)}
<1>1. 0 \in G
  <2>1. ASSUME NEW W \in SUBSET S, Cardinality(W) = 0 PROVE OK(W)
    <3>1. W = {}
      BY <2>1, SumsStep
    <3> QED
      BY <3>1
  <2> HIDE DEF OK
  <2> QED
    BY <2>1
<1>2. ASSUME NEW n \in Nat, n \in G PROVE n + 1 \in G
  <2> SUFFICES ASSUME NEW W \in SUBSET S, Cardinality(W) = n + 1 PROVE OK(W)
    OBVIOUS
  <2> DEFINE a == An(W)
  <2>1. a \in W /\ U[W] = f[a] + U[W \ {a}]
    <3>1. Cardinality({}) = 0
      BY FS_EmptySet
    <3>2. W # {}
      BY <3>1
    <3> HIDE DEF U
    <3> QED
      BY <3>2, SumsStep DEF U
  <2> HIDE DEF a
  <2>2. ASSUME NEW y \in W PROVE W \ {y} \in SUBSET S /\ OK(W \ {y})
    <3>1. Cardinality(W \ {y}) = n /\ W \ {y} \in SUBSET S
      BY SumsStep
    <3> HIDE DEF OK
    <3> QED
      BY <1>2, <3>1
  <2>3. ASSUME NEW y \in W, y # a PROVE U[W] = f[y] + U[W \ {y}]
    <3> DEFINE others == (W \ {a}) \ {y}
    <3>1. others = (W \ {y}) \ {a} /\ y \in W \ {a} /\ a \in W \ {y} /\ others \in SUBSET S
      BY <2>1, <2>3
    <3>2. U[W \ {a}] = f[y] + U[others]
      BY <2>1, <2>2, <3>1
    <3>3. U[W \ {y}] = f[a] + U[others]
      BY <2>2, <3>1
    <3>4. f[a] \in Int /\ f[y] \in Int
      BY <2>1
    <3> HIDE DEF others
    <3>5. U[others] \in Int
      BY <3>1, SumsAreInt
    <3> HIDE DEF U
    <3> QED
      BY <2>1, <3>2, <3>3, <3>4, <3>5
  <2> QED
    BY <2>1, <2>3
<1>3. Nat \subseteq G
  <2> HIDE DEF G
  <2> QED
    BY <1>1, <1>2, Inductive
<1>4. ASSUME NEW W \in SUBSET S PROVE OK(W)
  <2> HIDE DEF OK
  <2> QED
    BY <1>3, SumsStep
<1> QED
  BY <1>4

\* The sum of a part is the same within S and within R, so for itself too.
LEMMA SumsAgree ==
    ASSUME NEW S, IsFiniteSet(S), NEW R, IsFiniteSet(R), NEW f,
           \A x \in S : f[x] \in Int, \A x \in R : f[x] \in Int, NEW M, M \in SUBSET S, M \in SUBSET R
    PROVE  Sums(f, S)[M] = Sums(f, R)[M]
<1> DEFINE F == {T \in SUBSET M : Sums(f, S)[T] = Sums(f, R)[T]}
<1>1. {} \in F
  BY SumsStep
<1>2. ASSUME NEW T \in SUBSET M, NEW x \in M \ T, T \in F PROVE T \cup {x} \in F
  <2> DEFINE W == T \cup {x}
  <2>1. W \in SUBSET R /\ W \in SUBSET S /\ W \in SUBSET M /\ x \in W /\ W \ {x} = T
    OBVIOUS
  <2> HIDE DEF W
  <2>2. Sums(f, S)[W] = f[x] + Sums(f, S)[W \ {x}]
    BY <2>1, AnyFirst
  <2>3. Sums(f, R)[W] = f[x] + Sums(f, R)[W \ {x}]
    BY <2>1, AnyFirst
  <2>4. W \in F
    BY <1>2, <2>1, <2>2, <2>3
  <2> QED
    BY <2>4 DEF W
<1>3. M \in F
  <2>1. IsFiniteSet(M)
    BY FS_Subset
  <2> HIDE DEF F
  <2> QED
    BY <1>1, <1>2, <2>1, Growing
<1> QED
  BY <1>3

LEMMA SumOfPart ==
    ASSUME NEW S, IsFiniteSet(S), NEW f, \A x \in S : f[x] \in Int, NEW R, R \in SUBSET S
    PROVE  SumOf(f, R) = Sums(f, S)[R]
<1>1. IsFiniteSet(R) /\ R \in SUBSET R
  BY FS_Subset
<1>2. \A x \in R : f[x] \in Int
  OBVIOUS
<1>3. Sums(f, S)[R] = Sums(f, R)[R]
  BY <1>1, <1>2, SumsAgree
<1> QED
  BY <1>3 DEF SumOf, Sums

\* The sum over nothing, and over one element more.
LEMMA SumEmpty ==
    ASSUME NEW f
    PROVE  SumOf(f, {}) = 0
<1>1. Sums(f, {})[{}] = 0
  BY SumsStep, FS_EmptySet
<1> QED
  BY <1>1 DEF SumOf, Sums

LEMMA SumMore ==
    ASSUME NEW S, IsFiniteSet(S), NEW f, NEW x, x \notin S, \A y \in S \cup {x} : f[y] \in Int
    PROVE  /\ SumOf(f, S) \in Int
           /\ SumOf(f, S \cup {x}) = f[x] + SumOf(f, S)
<1> DEFINE T == S \cup {x}
<1>1. IsFiniteSet(T) /\ S \in SUBSET T /\ x \in T /\ T \ {x} = S /\ T \in SUBSET T
  BY FS_AddElement
<1>2. \A y \in T : f[y] \in Int
  OBVIOUS
<1> HIDE DEF T
<1>3. SumOf(f, T) = Sums(f, T)[T] /\ SumOf(f, S) = Sums(f, T)[S]
  BY <1>1, <1>2, SumOfPart
<1>4. Sums(f, T)[T] = f[x] + Sums(f, T)[S] /\ Sums(f, T)[S] \in Int
  BY <1>1, <1>2, AnyFirst, SumsAreInt
<1> QED
  BY <1>3, <1>4 DEF T

\* The sum of integers is one; smaller terms have the smaller sum, and one that is smaller
\* makes the sum smaller.
LEMMA SumCompare ==
    ASSUME NEW S, IsFiniteSet(S), NEW f, NEW g,
           \A x \in S : f[x] \in Int /\ g[x] \in Int /\ f[x] <= g[x]
    PROVE  /\ SumOf(f, S) \in Int /\ SumOf(g, S) \in Int /\ SumOf(f, S) <= SumOf(g, S)
           /\ (\E x \in S : f[x] < g[x]) => SumOf(f, S) < SumOf(g, S)
<1> DEFINE OK(T) ==
              /\ SumOf(f, T) \in Int /\ SumOf(g, T) \in Int /\ SumOf(f, T) <= SumOf(g, T)
              /\ (\E x \in T : f[x] < g[x]) => SumOf(f, T) < SumOf(g, T)
           F == {T \in SUBSET S : OK(T)}
<1>1. {} \in F
  BY SumEmpty
<1>2. ASSUME NEW T \in SUBSET S, NEW x \in S \ T, T \in F PROVE T \cup {x} \in F
  <2>1. IsFiniteSet(T)
    BY FS_Subset
  <2>2. SumOf(f, T \cup {x}) = f[x] + SumOf(f, T) /\ SumOf(g, T \cup {x}) = g[x] + SumOf(g, T)
    BY <2>1, SumMore
  <2>3. f[x] \in Int /\ g[x] \in Int /\ f[x] <= g[x] /\ OK(T)
    BY <1>2
  <2> QED
    BY <2>2, <2>3
<1>3. S \in F
  <2> HIDE DEF F
  <2> QED
    BY <1>1, <1>2, Growing
<1> QED
  BY <1>3

\* Equal terms, equal sums.
LEMMA SumSame ==
    ASSUME NEW S, IsFiniteSet(S), NEW f, NEW g, \A x \in S : f[x] \in Int /\ f[x] = g[x]
    PROVE  SumOf(f, S) = SumOf(g, S)
<1>1. \A x \in S : f[x] \in Int /\ g[x] \in Int /\ f[x] <= g[x] /\ g[x] <= f[x]
  OBVIOUS
<1>2. SumOf(f, S) \in Int /\ SumOf(g, S) \in Int /\ SumOf(f, S) <= SumOf(g, S)
  BY <1>1, SumCompare
<1>3. SumOf(g, S) <= SumOf(f, S)
  BY <1>1, SumCompare
<1> QED
  BY <1>2, <1>3

\* The sum of natural numbers is one; it is that of the part that has all of what is not
\* zero, and no part has more.
LEMMA SumNat ==
    ASSUME NEW S, IsFiniteSet(S), NEW f, \A x \in S : f[x] \in Nat
    PROVE  /\ SumOf(f, S) \in Nat
           /\ SumOf(f, S) # 0 => \E x \in S : f[x] # 0
<1> DEFINE F == {T \in SUBSET S : SumOf(f, T) \in Nat /\ (SumOf(f, T) # 0 => \E x \in T : f[x] # 0)}
<1>1. {} \in F
  BY SumEmpty
<1>2. ASSUME NEW T \in SUBSET S, NEW x \in S \ T, T \in F PROVE T \cup {x} \in F
  <2>1. IsFiniteSet(T) /\ \A y \in T \cup {x} : f[y] \in Int
    BY FS_Subset
  <2>2. SumOf(f, T \cup {x}) = f[x] + SumOf(f, T)
    BY <2>1, SumMore
  <2>3. f[x] \in Nat /\ SumOf(f, T) \in Nat /\ (SumOf(f, T) # 0 => \E y \in T : f[y] # 0)
    BY <1>2
  <2> QED
    BY <2>2, <2>3
<1>3. S \in F
  <2> HIDE DEF F
  <2> QED
    BY <1>1, <1>2, Growing
<1> QED
  BY <1>3

LEMMA SumPart ==
    ASSUME NEW S, IsFiniteSet(S), NEW f, \A x \in S : f[x] \in Nat, NEW R, R \in SUBSET S
    PROVE  /\ SumOf(f, R) <= SumOf(f, S)
           /\ (\A x \in S \ R : f[x] = 0) => SumOf(f, R) = SumOf(f, S)
<1>0. \A T \in SUBSET S : IsFiniteSet(T) /\ SumOf(f, T) \in Nat
  <2> SUFFICES ASSUME NEW T \in SUBSET S PROVE IsFiniteSet(T) /\ SumOf(f, T) \in Nat
    OBVIOUS
  <2>1. IsFiniteSet(T) /\ \A x \in T : f[x] \in Nat
    BY FS_Subset
  <2> QED
    BY <2>1, SumNat
<1> DEFINE OK(T) == /\ SumOf(f, R) <= SumOf(f, R \cup T)
                    /\ (\A x \in T \ R : f[x] = 0) => SumOf(f, R) = SumOf(f, R \cup T)
           F == {T \in SUBSET (S \ R) : OK(T)}
<1>1. {} \in F
  <2>1. R \cup {} = R
    OBVIOUS
  <2> QED
    BY <1>0, <2>1
<1>2. ASSUME NEW T \in SUBSET (S \ R), NEW x \in (S \ R) \ T, T \in F PROVE T \cup {x} \in F
  <2> DEFINE W == R \cup T
  <2>1. IsFiniteSet(W) /\ x \notin W /\ \A y \in W \cup {x} : f[y] \in Int
    BY <1>0
  <2>2. R \cup (T \cup {x}) = W \cup {x}
    OBVIOUS
  <2>3. SumOf(f, W) \in Nat /\ f[x] \in Nat /\ SumOf(f, R) \in Nat /\ OK(T)
    BY <1>0, <1>2
  <2>4. SumOf(f, W \cup {x}) = f[x] + SumOf(f, W)
    <3> HIDE DEF W
    <3> QED
      BY <2>1, SumMore
  <2>5. OK(T \cup {x})
    BY <2>2, <2>3, <2>4
  <2> QED
    BY <2>5
<1>3. S \ R \in F
  <2>1. IsFiniteSet(S \ R)
    BY FS_Subset
  <2> HIDE DEF F
  <2> QED
    BY <1>1, <1>2, <2>1, Growing
<1>4. R \cup (S \ R) = S
  OBVIOUS
<1> QED
  BY <1>3, <1>4

\* A sum of sums, term by term.
LEMMA SumPlus ==
    ASSUME NEW S, IsFiniteSet(S), NEW f, NEW g, NEW h,
           \A x \in S : f[x] \in Int /\ g[x] \in Int /\ h[x] = f[x] + g[x]
    PROVE  SumOf(h, S) = SumOf(f, S) + SumOf(g, S)
<1> DEFINE F == {T \in SUBSET S : SumOf(h, T) = SumOf(f, T) + SumOf(g, T)}
<1>1. {} \in F
  BY SumEmpty
<1>2. ASSUME NEW T \in SUBSET S, NEW x \in S \ T, T \in F PROVE T \cup {x} \in F
  <2>1. /\ IsFiniteSet(T)
        /\ \A y \in T \cup {x} : f[y] \in Int
        /\ \A y \in T \cup {x} : g[y] \in Int
        /\ \A y \in T \cup {x} : h[y] \in Int
    BY FS_Subset
  <2>2. SumOf(f, T \cup {x}) = f[x] + SumOf(f, T) /\ SumOf(f, T) \in Int
    BY <2>1, SumMore
  <2>3. SumOf(g, T \cup {x}) = g[x] + SumOf(g, T) /\ SumOf(g, T) \in Int
    BY <2>1, SumMore
  <2>4. SumOf(h, T \cup {x}) = h[x] + SumOf(h, T)
    BY <2>1, SumMore
  <2>5. f[x] \in Int /\ g[x] \in Int /\ h[x] = f[x] + g[x]
    OBVIOUS
  <2> QED
    BY <1>2, <2>2, <2>3, <2>4, <2>5
<1>3. S \in F
  <2> HIDE DEF F
  <2> QED
    BY <1>1, <1>2, Growing
<1> QED
  BY <1>3

\* Marks of at most 100 add up to at most 100 each, and to that only when all are 100.
LEMMA SumOfMarks ==
    ASSUME NEW S, IsFiniteSet(S), NEW f, \A x \in S : f[x] \in 0 .. 100
    PROVE  /\ SumOf(f, S) \in 0 .. 100 * Cardinality(S)
           /\ SumOf(f, S) = 100 * Cardinality(S) <=> \A x \in S : f[x] = 100
<1> DEFINE OK(T) == /\ SumOf(f, T) \in 0 .. 100 * Cardinality(T)
                    /\ SumOf(f, T) = 100 * Cardinality(T) <=> \A x \in T : f[x] = 100
           F == {T \in SUBSET S : OK(T)}
<1>1. {} \in F
  BY SumEmpty, FS_EmptySet
<1>2. ASSUME NEW T \in SUBSET S, NEW x \in S \ T, T \in F PROVE T \cup {x} \in F
  <2>1. IsFiniteSet(T) /\ \A y \in T \cup {x} : f[y] \in Int
    BY FS_Subset
  <2>2. SumOf(f, T \cup {x}) = f[x] + SumOf(f, T)
    BY <2>1, SumMore
  <2>3. Cardinality(T \cup {x}) = Cardinality(T) + 1 /\ Cardinality(T) \in Nat
    BY <2>1, FS_AddElement, FS_CardinalityType
  <2>4. f[x] \in 0 .. 100 /\ OK(T)
    BY <1>2
  <2> QED
    BY <2>2, <2>3, <2>4
<1>3. S \in F
  <2> HIDE DEF F
  <2> QED
    BY <1>1, <1>2, Growing
<1> QED
  BY <1>3

-----------------------------------------------------------------------------
(* Rounds of checks. *)

AllIds == CheckIds \cup {""} \cup ToSet(UserItems) \cup (UNION {ToSet(l) : l \in SyncedLists})
Runnable == [id : AllIds, delta : {"kernel", "own"}]
Results == [id : AllIds, passed : BOOLEAN, why : {"", "ran", "timeout", "skipped"}]

RegistryInv ==
    /\ registry \in Seq(CheckIds)
    /\ \A i \in DOMAIN registry : registry[i] \in DOMAIN idIndex /\ idIndex[registry[i]] = i

RoundInv ==
    /\ round \in {"idle", "running", "root", "reported"}
    /\ synced \in SyncedLists \cup {<<>>}
    /\ checkers \in Seq(Runnable)
    /\ state \in Seq({"queued", "running", "done"})
    /\ report \in Seq(Results)
    /\ Cardinality(inFlight) <= CheckConcurrency
    /\ round = "idle" => state = <<>>
    /\ round \in {"running", "root"} => Len(checkers) = Len(state) /\ Len(report) = Len(state)
    /\ round \in {"root", "reported"} => \A i \in DOMAIN state : state[i] = "done"
    /\ round = "reported" =>
         /\ Len(report) >= Len(state)
         /\ \A i \in DOMAIN report : i > Len(state) => report[i].id \in RootIds
    /\ \A i \in DOMAIN state : state[i] = "done" => report[i].why \in {"ran", "timeout"}
    /\ round \in {"running", "root"} => \A i \in DOMAIN state : state[i] = "done" => report[i].id = checkers[i].id

RunInv == RegistryInv /\ RoundInv

\* A function on 1 .. n is a list.
LEMMA ListOf ==
    ASSUME NEW n \in Nat, NEW D, NEW q, q = [i \in 1 .. n |-> q[i]], \A i \in 1 .. n : q[i] \in D
    PROVE  q \in Seq(D) /\ Len(q) = n /\ DOMAIN q = 1 .. n
<1>1. q \in [1 .. n -> D]
  OBVIOUS
<1> QED
  BY <1>1

LEMMA Joined ==
    ASSUME NEW D, NEW p \in Seq(D), NEW q \in Seq(D)
    PROVE  /\ p \o q \in Seq(D) /\ Len(p \o q) = Len(p) + Len(q) /\ DOMAIN (p \o q) = 1 .. Len(p) + Len(q)
           /\ \A i \in 1 .. Len(p) : (p \o q)[i] = p[i]
           /\ \A i \in 1 .. Len(p) + Len(q) : i > Len(p) =>
                 i - Len(p) \in 1 .. Len(q) /\ (p \o q)[i] = q[i - Len(p)]
           /\ DOMAIN p = 1 .. Len(p) /\ DOMAIN q = 1 .. Len(q) /\ Len(p) \in Nat /\ Len(q) \in Nat
  OBVIOUS

LEMMA SyncedIds ==
    ASSUME NEW l \in SyncedLists
    PROVE  l \in Seq(AllIds)
<1>1. l \in Seq(ToSet(l))
  BY CheckRunAssumption
<1>2. ToSet(l) \subseteq AllIds
  BY DEF AllIds
<1> QED
  BY <1>1, <1>2

\* A list of ids is that of what is run.
LEMMA CheckersBuilt ==
    ASSUME NEW sy \in SyncedLists \cup {<<>>}, NEW over, NEW reg \in Seq(CheckIds)
    PROVE  buildAgentCheckers(reg, sy, over) \in Seq(Runnable)
<1>1. normals(reg) \in Seq(AllIds)
  <2>1. normals(reg) \in Seq(CheckIds \cap {x \in {reg[i] : i \in DOMAIN reg} : x \notin RootIds})
    BY ChosenFacts DEF normals, Where
  <2>2. CheckIds \cap {x \in {reg[i] : i \in DOMAIN reg} : x \notin RootIds} \subseteq AllIds
    BY DEF AllIds
  <2> QED
    BY <2>1, <2>2
<1>2. UserItems \in Seq(AllIds)
  <2>1. ToSet(UserItems) \subseteq AllIds
    BY DEF AllIds
  <2> QED
    BY <2>1, CheckRunAssumption
<1>3. sy \in Seq(AllIds)
  <2>1. CASE sy \in SyncedLists
    BY <2>1, SyncedIds
  <2>2. CASE sy = <<>>
    BY <2>2
  <2> QED
    BY <2>1, <2>2
<1> DEFINE ids == normals(reg) \o UserItems \o sy
<1>4. ids \in Seq(AllIds)
  BY <1>1, <1>2, <1>3
<1>5. Len(ids) \in Nat /\ \A i \in 1 .. Len(ids) : ids[i] \in AllIds
  BY <1>4
<1>6. buildAgentCheckers(reg, sy, over)
         = [i \in 1 .. Len(ids) |-> [id |-> ids[i], delta |-> IF over THEN "kernel" ELSE "own"]]
  BY DEF buildAgentCheckers
<1> HIDE DEF ids
<1> QED
  BY <1>5, <1>6 DEF Runnable

LEMMA RunInitInv == CheckRunInit => RunInv
<1> SUFFICES ASSUME CheckRunInit PROVE RunInv
  OBVIOUS
<1>1. registry = <<>> /\ synced = <<>> /\ state = <<>> /\ report = <<>> /\ round = "idle"
      /\ checkers = buildAgentCheckers(<<>>, <<>>, FALSE)
  BY DEF CheckRunInit
<1>2. checkers \in Seq(Runnable)
  <2>1. <<>> \in SyncedLists \cup {<<>>} /\ <<>> \in Seq(CheckIds)
    OBVIOUS
  <2> QED
    BY <1>1, <2>1, CheckersBuilt
<1>3. inFlight = {}
  BY <1>1 DEF inFlight
<1>4. Cardinality({}) = 0
  BY FS_EmptySet
<1>5. RegistryInv
  BY <1>1 DEF RegistryInv
<1>6. RoundInv
  <2>1. Cardinality(inFlight) <= CheckConcurrency
    BY <1>3, <1>4, CheckRunAssumption
  <2>2. state \in Seq({"queued", "running", "done"}) /\ report \in Seq(Results) /\ DOMAIN state = {}
    BY <1>1
  <2> QED
    BY <1>1, <1>2, <2>1, <2>2 DEF RoundInv
<1> QED
  BY <1>5, <1>6 DEF RunInv

LEMMA RegisterInv ==
    ASSUME RegistryInv, NEW c \in CheckIds, Register(c)
    PROVE  RegistryInv'
<1>1. CASE c \in DOMAIN idIndex
  BY <1>1 DEF Register, RegistryInv
<1>2. CASE c \notin DOMAIN idIndex
  <2>1. registry' = Append(registry, c)
        /\ idIndex' = [d \in DOMAIN idIndex \cup {c} |-> IF d = c THEN Len(registry) + 1 ELSE idIndex[d]]
    BY <1>2 DEF Register
  <2>2. registry' \in Seq(CheckIds) /\ Len(registry') = Len(registry) + 1 /\ Len(registry) \in Nat
        /\ registry'[Len(registry) + 1] = c /\ \A i \in 1 .. Len(registry) : registry'[i] = registry[i]
        /\ DOMAIN registry = 1 .. Len(registry) /\ DOMAIN registry' = 1 .. Len(registry) + 1
    BY <2>1 DEF RegistryInv
  <2>3. ASSUME NEW i \in DOMAIN registry' PROVE registry'[i] \in DOMAIN idIndex' /\ idIndex'[registry'[i]] = i
    <3>1. CASE i = Len(registry) + 1
      BY <2>1, <2>2, <3>1
    <3>2. CASE i # Len(registry) + 1
      <4>1. i \in DOMAIN registry /\ registry'[i] = registry[i]
        BY <2>2, <3>2
      <4>2. registry[i] \in DOMAIN idIndex /\ idIndex[registry[i]] = i
        BY <4>1 DEF RegistryInv
      <4> QED
        BY <1>2, <2>1, <4>1, <4>2
    <3> QED
      BY <3>1, <3>2
  <2> QED
    BY <2>2, <2>3 DEF RegistryInv
<1> QED
  BY <1>1, <1>2

LEMMA UnregisterInv ==
    ASSUME RegistryInv, NEW c \in CheckIds, Unregister(c)
    PROVE  RegistryInv'
<1> DEFINE kept == Where(registry, LAMBDA d : d # c)
<1>1. registry' = kept
      /\ idIndex' = [d \in DOMAIN idIndex |->
                       IF d \in ToSet(kept) THEN CHOOSE i \in DOMAIN kept : kept[i] = d ELSE idIndex[d]]
  BY DEF Unregister
<1>2. registry \in Seq(CheckIds) /\ \A i, j \in DOMAIN registry : registry[i] = registry[j] => i = j
  BY DEF RegistryInv
<1>3. /\ kept \in Seq(CheckIds \cap {x \in {registry[i] : i \in DOMAIN registry} : x # c})
      /\ \A k, l \in DOMAIN kept : kept[k] = kept[l] => k = l
      /\ \A k \in DOMAIN kept : \E i \in DOMAIN registry : kept[k] = registry[i]
  BY <1>2, ChosenFacts DEF Where
<1> HIDE DEF kept
<1>4. kept \in Seq(CheckIds)
  BY <1>3
<1>5. ASSUME NEW i \in DOMAIN kept PROVE kept[i] \in DOMAIN idIndex' /\ idIndex'[kept[i]] = i
  <2>1. kept[i] \in DOMAIN idIndex
    BY <1>3 DEF RegistryInv
  <2>2. kept[i] \in ToSet(kept)
    BY DEF ToSet
  <2>3. (CHOOSE j \in DOMAIN kept : kept[j] = kept[i]) = i
    BY <1>3
  <2> QED
    BY <1>1, <2>1, <2>2, <2>3
<1> QED
  BY <1>1, <1>4, <1>5 DEF RegistryInv

LEMMA RegistryKept ==
    ASSUME RegistryInv, CheckRunNext \/ UNCHANGED checkRunVars
    PROVE  RegistryInv'
<1>1. CASE \E c \in CheckIds : Register(c) \/ Unregister(c)
  BY <1>1, RegisterInv, UnregisterInv
<1>2. CASE UNCHANGED <<registry, idIndex>>
  BY <1>2 DEF RegistryInv
<1>3. (\E c \in CheckIds : Register(c) \/ Unregister(c)) \/ UNCHANGED <<registry, idIndex>>
  BY DEF CheckRunNext, checkRunVars, applySyncedCheckConfig, SecureReload, runChecks, roundRest, StartCheck,
         CheckFinishes, CheckTimesOut, LateResult, AllDone, runRootChecks
<1> QED
  BY <1>1, <1>2, <1>3

LEMMA CheckersReplaced ==
    ASSUME RegistryInv, RoundInv, round \in {"idle", "reported"},
           checkers' \in Seq(Runnable), synced' \in SyncedLists \cup {<<>>},
           UNCHANGED <<round, state, report>>
    PROVE  RoundInv'
<1>1. round \notin {"running", "root"} /\ inFlight' = inFlight
  BY DEF inFlight
<1> QED
  BY <1>1 DEF RoundInv

LEMMA RunChecksInv ==
    ASSUME RegistryInv, RoundInv, runChecks
    PROVE  RoundInv'
<1>1. /\ round' = IF checkers = <<>> THEN "root" ELSE "running"
      /\ state' = [i \in DOMAIN checkers |-> "queued"]
      /\ report' = [i \in DOMAIN checkers |-> [id |-> "", passed |-> FALSE, why |-> ""]]
      /\ UNCHANGED <<synced, checkers>>
  BY DEF runChecks
<1>2. checkers \in Seq(Runnable) /\ DOMAIN checkers = 1 .. Len(checkers) /\ Len(checkers) \in Nat
  BY DEF RoundInv
<1>3. /\ state' \in Seq({"queued", "running", "done"}) /\ Len(state') = Len(checkers)
      /\ DOMAIN state' = 1 .. Len(checkers)
      /\ \A i \in DOMAIN state' : state'[i] = "queued"
  <2>1. state' = [i \in 1 .. Len(checkers) |-> "queued"]
    BY <1>1, <1>2
  <2>2. state' = [i \in 1 .. Len(checkers) |-> state'[i]] /\ \A i \in 1 .. Len(checkers) : state'[i] = "queued"
    BY <2>1
  <2>3. \A i \in 1 .. Len(checkers) : state'[i] \in {"queued", "running", "done"}
    BY <2>2
  <2> QED
    BY <1>2, <2>2, <2>3, ListOf
<1>4. report' \in Seq(Results) /\ Len(report') = Len(checkers)
  <2> DEFINE r == [id |-> "", passed |-> FALSE, why |-> ""]
  <2>1. r \in Results
    BY DEF Results, AllIds
  <2>2. report' = [i \in 1 .. Len(checkers) |-> r]
    BY <1>1, <1>2
  <2> HIDE DEF r
  <2>3. report' = [i \in 1 .. Len(checkers) |-> report'[i]] /\ \A i \in 1 .. Len(checkers) : report'[i] \in Results
    BY <2>1, <2>2
  <2> QED
    BY <1>2, <2>3, ListOf
<1>5. Cardinality(inFlight') <= CheckConcurrency
  <2>1. inFlight' = {}
    BY <1>3 DEF inFlight
  <2>2. Cardinality({}) = 0
    BY FS_EmptySet
  <2> QED
    BY <2>1, <2>2, CheckRunAssumption
<1>6. round' = "root" => DOMAIN state' = {}
  <2>1. round' = "root" => checkers = <<>>
    BY <1>1
  <2>2. Len(<<>>) = 0
    OBVIOUS
  <2>3. round' = "root" => Len(checkers) = 0
    BY <2>1, <2>2
  <2> QED
    BY <1>3, <2>3
<1>7. round' \in {"root", "running"}
  BY <1>1
<1> QED
  BY <1>1, <1>2, <1>3, <1>4, <1>5, <1>6, <1>7 DEF RoundInv

\* One check changes its state, to one it may be in.
LEMMA OneCheckInv ==
    ASSUME RoundInv, round = "running", NEW i \in DOMAIN state, NEW s \in {"running", "done"},
           state' = [state EXCEPT ![i] = s], UNCHANGED <<round, checkers, synced>>,
           s = "running" => Cardinality(inFlight) < CheckConcurrency /\ report' = report,
           s = "done" => \E passed \in BOOLEAN, why \in {"ran", "timeout"} :
               report' = [report EXCEPT ![i] = [id |-> checkers[i].id, passed |-> passed, why |-> why]]
    PROVE  RoundInv'
<1>1. /\ state \in Seq({"queued", "running", "done"}) /\ checkers \in Seq(Runnable) /\ report \in Seq(Results)
      /\ Len(checkers) = Len(state) /\ Len(report) = Len(state) /\ Len(state) \in Nat
      /\ DOMAIN state = 1 .. Len(state) /\ DOMAIN report = DOMAIN state /\ DOMAIN checkers = DOMAIN state
  BY DEF RoundInv
<1>2. /\ state' \in Seq({"queued", "running", "done"}) /\ Len(state') = Len(state) /\ DOMAIN state' = DOMAIN state
      /\ state'[i] = s /\ \A j \in DOMAIN state : j # i => state'[j] = state[j]
  BY <1>1
<1>3. /\ report' \in Seq(Results) /\ Len(report') = Len(report)
      /\ \A j \in DOMAIN report : j # i => report'[j] = report[j]
      /\ s = "done" => report'[i].why \in {"ran", "timeout"} /\ report'[i].id = checkers[i].id
  <2>1. CASE s = "running"
    BY <1>1, <2>1
  <2>2. CASE s = "done"
    <3>1. PICK passed \in BOOLEAN, why \in {"ran", "timeout"} :
               report' = [report EXCEPT ![i] = [id |-> checkers[i].id, passed |-> passed, why |-> why]]
      BY <2>2
    <3> DEFINE r == [id |-> checkers[i].id, passed |-> passed, why |-> why]
    <3>2. r \in Results /\ r.why = why /\ r.id = checkers[i].id
      <4>1. checkers[i] \in Runnable
        BY <1>1
      <4> QED
        BY <4>1 DEF Runnable, Results
    <3> HIDE DEF r
    <3>3. report' = [report EXCEPT ![i] = r]
      BY <3>1 DEF r
    <3> QED
      BY <1>1, <3>2, <3>3
  <2> QED
    BY <2>1, <2>2
<1>4. Cardinality(inFlight') <= CheckConcurrency
  <2>1. inFlight' \subseteq inFlight \cup {i} /\ (s = "done" => inFlight' \subseteq inFlight)
    BY <1>1, <1>2 DEF inFlight
  <2>2. IsFiniteSet(inFlight)
    <3>1. IsFiniteSet(1 .. Len(state))
      BY <1>1, FS_Interval
    <3>2. inFlight \subseteq 1 .. Len(state)
      BY <1>1 DEF inFlight
    <3> QED
      BY <3>1, <3>2, FS_Subset
  <2>3. IsFiniteSet(inFlight \cup {i}) /\ Cardinality(inFlight \cup {i}) <= Cardinality(inFlight) + 1
    <3>1. CASE i \in inFlight
      <4>1. inFlight \cup {i} = inFlight
        BY <3>1
      <4>2. Cardinality(inFlight) \in Nat
        BY <2>2, FS_CardinalityType
      <4>3. Cardinality(inFlight) <= Cardinality(inFlight) + 1
        BY <4>2
      <4> QED
        BY <2>2, <4>1, <4>3
    <3>2. CASE i \notin inFlight
      <4>1. IsFiniteSet(inFlight \cup {i}) /\ Cardinality(inFlight \cup {i}) = Cardinality(inFlight) + 1
        BY <2>2, <3>2, FS_AddElement
      <4>2. Cardinality(inFlight) \in Nat
        BY <2>2, FS_CardinalityType
      <4> QED
        BY <4>1, <4>2
    <3> QED
      BY <3>1, <3>2
  <2>4. Cardinality(inFlight') <= Cardinality(inFlight \cup {i}) /\ Cardinality(inFlight') \in Nat
    BY <2>1, <2>3, FS_Subset, FS_CardinalityType
  <2>5. s = "done" => Cardinality(inFlight') <= Cardinality(inFlight)
    BY <2>1, <2>2, FS_Subset
  <2>6. Cardinality(inFlight) \in Nat /\ Cardinality(inFlight \cup {i}) \in Nat
    BY <2>2, <2>3, FS_CardinalityType
  <2>7. Cardinality(inFlight) <= CheckConcurrency /\ CheckConcurrency \in Nat
    BY CheckRunAssumption DEF RoundInv
  <2> QED
    BY <2>3, <2>4, <2>5, <2>6, <2>7
<1>5. \A j \in DOMAIN state' : state'[j] = "done" =>
         report'[j].why \in {"ran", "timeout"} /\ report'[j].id = checkers'[j].id
  <2> SUFFICES ASSUME NEW j \in DOMAIN state, state'[j] = "done"
               PROVE  report'[j].why \in {"ran", "timeout"} /\ report'[j].id = checkers[j].id
    BY <1>2
  <2>1. CASE j = i
    BY <1>2, <1>3, <2>1
  <2>2. CASE j # i
    BY <1>1, <1>2, <1>3, <2>2 DEF RoundInv
  <2> QED
    BY <2>1, <2>2
<1>6. synced' \in SyncedLists \cup {<<>>} /\ round' = "running"
  BY DEF RoundInv
<1> QED
  BY <1>1, <1>2, <1>3, <1>4, <1>5, <1>6 DEF RoundInv

LEMMA RootInv ==
    ASSUME RegistryInv, RoundInv, NEW answered \in BOOLEAN, NEW verdict \in BOOLEAN,
           runRootChecks(answered, verdict)
    PROVE  /\ RoundInv'
           /\ \A i \in DOMAIN report : i \in DOMAIN report' /\ report'[i] = report[i]
<1> DEFINE root == GetRoot(registry)
           ran(i) == [id |-> root[i], passed |-> verdict, why |-> "ran"]
           skipped(i) == [id |-> root[i], passed |-> TRUE, why |-> "skipped"]
           more == [i \in DOMAIN root |-> IF answered THEN ran(i) ELSE skipped(i)]
<1>1. round = "root" /\ round' = "reported" /\ report' = report \o more /\ UNCHANGED <<state, checkers, synced>>
  BY DEF runRootChecks, roundRest
<1>2. root \in Seq(CheckIds \cap {x \in {registry[i] : i \in DOMAIN registry} : x \in RootIds})
  BY ChosenFacts DEF RegistryInv, GetRoot, Where
<1>3. root \in Seq(CheckIds \cap RootIds)
  <2>1. CheckIds \cap {x \in {registry[i] : i \in DOMAIN registry} : x \in RootIds} \subseteq CheckIds \cap RootIds
    OBVIOUS
  <2> HIDE DEF root
  <2> QED
    BY <1>2, <2>1
<1>4. /\ DOMAIN more = 1 .. Len(root) /\ Len(root) \in Nat
      /\ \A i \in 1 .. Len(root) : more[i] \in Results /\ more[i].id \in RootIds
      /\ more = [i \in 1 .. Len(root) |-> more[i]]
  <2> HIDE DEF root
  <2>1. DOMAIN root = 1 .. Len(root) /\ Len(root) \in Nat /\ \A i \in 1 .. Len(root) : root[i] \in CheckIds \cap RootIds
    BY <1>3
  <2>2. ASSUME NEW i \in 1 .. Len(root)
        PROVE  /\ ran(i) \in Results /\ skipped(i) \in Results
               /\ ran(i).id = root[i] /\ skipped(i).id = root[i]
    BY <2>1 DEF Results, AllIds
  <2>3. \A i \in 1 .. Len(root) : more[i] = ran(i) \/ more[i] = skipped(i)
    BY <2>1
  <2> HIDE DEF ran, skipped
  <2>4. DOMAIN more = 1 .. Len(root) /\ more = [i \in 1 .. Len(root) |-> more[i]]
    BY <2>1
  <2> HIDE DEF more
  <2> QED
    BY <2>1, <2>2, <2>3, <2>4
<1> HIDE DEF more, root
<1>5. more \in Seq(Results) /\ Len(more) = Len(root)
  BY <1>4, ListOf
<1>6. report \in Seq(Results) /\ Len(report) = Len(state)
      /\ \A i \in DOMAIN state : state[i] = "done" /\ report[i].why \in {"ran", "timeout"}
  BY <1>1 DEF RoundInv
<1>7. /\ report' \in Seq(Results) /\ Len(report') = Len(report) + Len(more)
      /\ \A i \in 1 .. Len(report) : report'[i] = report[i]
      /\ \A i \in 1 .. Len(report') : i > Len(report) =>
           report'[i] = more[i - Len(report)] /\ i - Len(report) \in 1 .. Len(more)
      /\ DOMAIN report' = 1 .. Len(report') /\ DOMAIN report = 1 .. Len(report)
      /\ Len(report) \in Nat /\ Len(more) \in Nat
  BY <1>1, <1>5, <1>6, Joined
<1>8. inFlight' = inFlight /\ DOMAIN state = 1 .. Len(state)
  BY <1>1 DEF inFlight, RoundInv
<1>9. RoundInv'
  BY <1>1, <1>4, <1>5, <1>6, <1>7, <1>8 DEF RoundInv
<1> QED
  BY <1>7, <1>9

LEMMA RoundKept ==
    ASSUME RunInv, CheckRunNext \/ UNCHANGED checkRunVars
    PROVE  RoundInv'
<1>0. RegistryInv /\ RoundInv
  BY DEF RunInv
<1>1. CASE \E c \in CheckIds : Register(c) \/ Unregister(c)
  <2>1. UNCHANGED <<synced, checkers, round, state, report>>
    BY <1>1 DEF Register, Unregister, rest
  <2> QED
    BY <1>0, <2>1 DEF RoundInv, inFlight
<1>2. CASE \E l \in SyncedLists, d \in BOOLEAN : \E cc \in buildAgentCheckConfig(l, d) : applySyncedCheckConfig(cc)
  <2>1. PICK l \in SyncedLists, d \in BOOLEAN : \E cc \in buildAgentCheckConfig(l, d) : applySyncedCheckConfig(cc)
    BY <1>2
  <2>2. PICK cc \in buildAgentCheckConfig(l, d) : applySyncedCheckConfig(cc)
    BY <2>1
  <2>3. cc.list = l
    BY DEF buildAgentCheckConfig
  <2>4. synced' = l /\ checkers' = buildAgentCheckers(registry, l, cc.deltas)
        /\ round \in {"idle", "reported"} /\ UNCHANGED <<round, state, report>>
    BY <2>2, <2>3 DEF applySyncedCheckConfig
  <2>5. checkers' \in Seq(Runnable)
    BY <1>0, <2>4, CheckersBuilt DEF RegistryInv
  <2> QED
    BY <1>0, <2>4, <2>5, CheckersReplaced
<1>3. CASE SecureReload
  <2>1. checkers' = buildAgentCheckers(registry, synced, FALSE) /\ UNCHANGED <<synced, round, state, report>>
        /\ round \in {"idle", "reported"}
    BY <1>3 DEF SecureReload
  <2>2. synced \in SyncedLists \cup {<<>>}
    BY <1>0 DEF RoundInv
  <2>3. checkers' \in Seq(Runnable)
    BY <1>0, <2>1, <2>2, CheckersBuilt DEF RegistryInv
  <2> QED
    BY <1>0, <2>1, <2>2, <2>3, CheckersReplaced
<1>4. CASE runChecks
  BY <1>0, <1>4, RunChecksInv
<1>5. CASE \E i \in DOMAIN state : StartCheck(i)
  <2>1. PICK i \in DOMAIN state : StartCheck(i)
    BY <1>5
  <2>2. /\ round = "running" /\ state' = [state EXCEPT ![i] = "running"]
        /\ Cardinality(inFlight) < CheckConcurrency /\ report' = report /\ UNCHANGED <<round, checkers, synced>>
    BY <2>1 DEF StartCheck, roundRest
  <2> QED
    BY <1>0, <2>2, OneCheckInv
<1>6. CASE \E i \in DOMAIN state : CheckTimesOut(i) \/ \E p \in BOOLEAN : CheckFinishes(i, p)
  <2>1. PICK i \in DOMAIN state : CheckTimesOut(i) \/ \E p \in BOOLEAN : CheckFinishes(i, p)
    BY <1>6
  <2>2. /\ round = "running" /\ state' = [state EXCEPT ![i] = "done"] /\ UNCHANGED <<round, checkers, synced>>
    BY <2>1 DEF CheckTimesOut, CheckFinishes, roundRest
  <2>3. \E passed \in BOOLEAN, why \in {"ran", "timeout"} :
           report' = [report EXCEPT ![i] = [id |-> checkers[i].id, passed |-> passed, why |-> why]]
    BY <2>1 DEF CheckTimesOut, CheckFinishes
  <2> QED
    BY <1>0, <2>2, <2>3, OneCheckInv
<1>7. CASE (\E i \in lateWorkers : LateResult(i)) \/ UNCHANGED checkRunVars
  <2>1. UNCHANGED <<synced, checkers, round, state, report>>
    BY <1>7 DEF LateResult, roundRest, checkRunVars
  <2> QED
    BY <1>0, <2>1 DEF RoundInv, inFlight
<1>8. CASE AllDone
  <2>1. /\ round = "running" /\ round' = "root" /\ \A i \in DOMAIN state : state[i] = "done"
        /\ UNCHANGED <<synced, checkers, state, report>>
    BY <1>8 DEF AllDone, roundRest
  <2>2. inFlight' = inFlight
    BY <2>1 DEF inFlight
  <2> QED
    BY <1>0, <2>1, <2>2 DEF RoundInv
<1>9. CASE \E answered, verdict \in BOOLEAN : runRootChecks(answered, verdict)
  BY <1>0, <1>9, RootInv
<1> QED
  BY <1>1, <1>2, <1>3, <1>4, <1>5, <1>6, <1>7, <1>8, <1>9 DEF CheckRunNext

\* What a state of the invariant reports is complete.
LEMMA RunComplete == RunInv => ReportComplete
<1> SUFFICES ASSUME RunInv PROVE ReportComplete
  OBVIOUS
<1>1. RegistryInv /\ RoundInv
  BY DEF RunInv
<1>2. \A i \in DOMAIN registry : GetByID(registry[i]) = {registry[i]}
  <2> SUFFICES ASSUME NEW i \in DOMAIN registry PROVE GetByID(registry[i]) = {registry[i]}
    OBVIOUS
  <2>1. registry[i] \in DOMAIN idIndex /\ idIndex[registry[i]] = i /\ i <= Len(registry)
    BY <1>1 DEF RegistryInv
  <2> QED
    BY <2>1 DEF GetByID
<1>3. round = "reported" => \A i \in DOMAIN state : state[i] = "done"
  BY <1>1 DEF RoundInv
<1> QED
  BY <1>1, <1>2, <1>3 DEF ReportComplete, RoundInv

\* What the kernel is told of a round of checks is complete and final, whatever the registry,
\* whatever is synced and whatever times out and answers late.
THEOREM ReportsAreSound == CheckRunSpec => ReportSound
<1>1. ASSUME RunInv, [CheckRunNext]_checkRunVars PROVE RunInv'
  BY <1>1, RegistryKept, RoundKept DEF RunInv
<1>2. RunInv' => ReportComplete'
  BY RunComplete, PTL
<1>3. ASSUME RunInv', RunInv, [CheckRunNext]_checkRunVars
      PROVE  [/\ ReportComplete'
              /\ round = "root" => \A i \in DOMAIN report : i \in DOMAIN report' /\ report'[i] = report[i]
              /\ round = "reported" /\ round' = "reported" => report' = report]_checkRunVars
  <2> SUFFICES ASSUME CheckRunNext
               PROVE  /\ ReportComplete'
                      /\ round = "root" => \A i \in DOMAIN report : i \in DOMAIN report' /\ report'[i] = report[i]
                      /\ round = "reported" /\ round' = "reported" => report' = report
    BY <1>3
  <2>1. ReportComplete'
    BY <1>3, <1>2
  <2>2. CASE \E answered, verdict \in BOOLEAN : runRootChecks(answered, verdict)
    <3>1. round = "root"
      BY <2>2 DEF runRootChecks
    <3>2. \A i \in DOMAIN report : i \in DOMAIN report' /\ report'[i] = report[i]
      BY <1>3, <2>2, RootInv DEF RunInv
    <3> QED
      BY <2>1, <3>1, <3>2
  <2>3. CASE runChecks
    BY <2>1, <2>3 DEF runChecks
  <2>4. CASE round # "running" /\ report' = report
    BY <2>1, <2>4
  <2>5. CASE round = "running"
    BY <2>1, <2>5
  <2>6. \/ runChecks \/ round = "running" \/ report' = report
        \/ \E answered, verdict \in BOOLEAN : runRootChecks(answered, verdict)
    BY DEF CheckRunNext, Register, Unregister, rest, applySyncedCheckConfig, SecureReload, StartCheck, CheckFinishes,
           CheckTimesOut, LateResult, AllDone, roundRest
  <2> QED
    BY <2>2, <2>3, <2>4, <2>5, <2>6
<1> QED
  BY <1>1, <1>3, RunInitInv, PTL DEF CheckRunSpec, ReportSound

-----------------------------------------------------------------------------
(* Reports of scanners. *)

\* What a whole number of hundredths of the passed findings may be.
LEMMA Share ==
    ASSUME NEW n \in Nat, n # 0, NEW k \in 0 .. n
    PROVE  /\ (100 * (n - k)) \div n \in 0 .. 100
           /\ k # 0 => (100 * (n - k)) \div n # 100
<1> DEFINE a == 100 * (n - k)
           q == a \div n
<1>1. a \in Nat /\ a <= 100 * n /\ (k # 0 => a < 100 * n)
  OBVIOUS
<1>2. q \in Int /\ n * q <= a /\ a < n * q + n
  <2> HIDE DEF a
  <2> QED
    BY <1>1
<1> HIDE DEF q, a
<1>3. q >= 0
  <2> SUFFICES ASSUME q < 0 PROVE FALSE
    BY <1>2
  <2>1. n * q <= n * (-1)
    BY <1>2
  <2> QED
    BY <1>1, <1>2, <2>1
<1>4. q <= 100
  <2> SUFFICES ASSUME q > 100 PROVE FALSE
    BY <1>2
  <2>1. n * 101 <= n * q
    BY <1>2
  <2> QED
    BY <1>1, <1>2, <2>1
<1>5. k # 0 => q # 100
  BY <1>1, <1>2
<1> QED
  BY <1>2, <1>3, <1>4, <1>5 DEF q, a

\* The part of a list that a condition keeps is no longer than the list.
LEMMA FailedFacts ==
    ASSUME NEW D, NEW items \in Seq(D)
    PROVE  /\ Len(failed(items)) \in 0 .. Len(items)
           /\ failed(items) = <<>> <=> Len(failed(items)) = 0
<1>1. /\ failed(items) \in Seq(D \cap {x \in {items[i] : i \in DOMAIN items} : x.fails})
      /\ Len(failed(items)) <= Len(items)
  BY ChosenFacts DEF failed, Where
<1> QED
  BY <1>1

\* The score that a tool's report gets: one that a host can have, and not all of it with failures.
ScoreFits(items, raw) == raw \in 0 .. 100 /\ (failed(items) # <<>> => raw # 100)

LEMMA SharesFit ==
    ASSUME NEW D, NEW items \in Seq(D), NEW none \in {0, 100}
    PROVE  ScoreFits(items, passedShare(items, none))
<1>1. /\ Len(failed(items)) \in 0 .. Len(items) /\ Len(items) \in Nat
      /\ failed(items) = <<>> <=> Len(failed(items)) = 0
  BY FailedFacts
<1>2. CASE items = <<>>
  <2>1. Len(items) = 0
    BY <1>2
  <2> QED
    BY <1>1, <1>2, <2>1 DEF passedShare, ScoreFits
<1>3. CASE items # <<>>
  <2>1. Len(items) # 0
    BY <1>3
  <2>2. passedShare(items, none) = (100 * (Len(items) - Len(failed(items)))) \div Len(items)
    BY <1>3 DEF passedShare
  <2>3. /\ passedShare(items, none) \in 0 .. 100
        /\ Len(failed(items)) # 0 => passedShare(items, none) # 100
    BY <1>1, <2>1, <2>2, Share
  <2> QED
    BY <1>1, <2>3 DEF ScoreFits
<1> QED
  BY <1>2, <1>3

ScoreOfADat(r) == \E f \in Files : Documents[f].shape = "lines" /\ Documents[f].host = r.host
Sound(r) == r.raw \notin 0 .. 100 \/ (failures(r) # <<>> /\ r.raw = 100) => ScoreOfADat(r)

\* A list of the same length as another.
LEMMA Mapped ==
    ASSUME NEW D, NEW s \in Seq(D), NEW q, q = [k \in DOMAIN s |-> q[k]]
    PROVE  q \in Seq({q[k] : k \in DOMAIN q})
<1>1. DOMAIN s = 1 .. Len(s) /\ Len(s) \in Nat
  OBVIOUS
<1>2. q = [k \in 1 .. Len(s) |-> q[k]] /\ DOMAIN q = 1 .. Len(s)
  BY <1>1
<1> QED
  BY <1>1, <1>2, ListOf

LEMMA ParsedSound ==
    ASSUME NEW f \in Files, NEW t \in Tools, IsReport(Parse(t, Documents[f]))
    PROVE  Sound(Parse(t, Documents[f]))
<1> DEFINE d == Documents[f]
           r == Parse(t, d)
<1> SUFFICES Sound(r)
  OBVIOUS
<1>0. r = Parse(t, d) /\ IsReport(r) /\ d = Documents[f]
  OBVIOUS
<1> HIDE DEF r, d
<1>1. d.items \in Seq(ToSet(d.items))
  BY <1>0, ScanAssumption DEF Files
<1>2. ASSUME NEW items, NEW none \in {0, 100}, NEW host, NEW tool, items = [k \in DOMAIN d.items |-> items[k]],
             r = Report(tool, host, items, passedShare(items, none))
      PROVE  Sound(r)
  <2>1. items \in Seq({items[k] : k \in DOMAIN items})
    BY <1>1, <1>2, Mapped
  <2>2. ScoreFits(items, passedShare(items, none))
    BY <2>1, SharesFit
  <2>3. r.items = items /\ r.raw = passedShare(items, none)
    BY <1>2 DEF Report
  <2> QED
    BY <2>2, <2>3 DEF Sound, ScoreFits, failures
<1>3. CASE t = "lynis" /\ isObject(d)
  <2>1. r = lynisJSON(d)
    BY <1>0, <1>3 DEF Parse, isArray, isObject
  <2> DEFINE items == IF d.tool = "lynis" THEN [k \in DOMAIN d.items |-> lynisItem(d.items[k])] ELSE <<>>
  <2>2. r = Report("lynis", IF d.tool = "lynis" THEN d.host ELSE "", items, passedShare(items, 100))
    BY <2>1 DEF lynisJSON
  <2>3. CASE d.tool = "lynis"
    <3>1. items = [k \in DOMAIN d.items |-> items[k]]
      BY <2>3
    <3> HIDE DEF items
    <3> QED
      BY <1>2, <2>2, <3>1
  <2>4. CASE d.tool # "lynis"
    <3>1. items = <<>>
      BY <2>4
    <3>2. <<>> \in Seq({})
      OBVIOUS
    <3>3. ScoreFits(items, passedShare(items, 100))
      BY <3>1, <3>2, SharesFit
    <3> HIDE DEF items
    <3>4. r.items = items /\ r.raw = passedShare(items, 100)
      BY <2>2 DEF Report
    <3> QED
      BY <3>3, <3>4 DEF Sound, ScoreFits, failures
  <2> QED
    BY <2>3, <2>4
<1>4. CASE t = "lynis" /\ d.shape = "lines"
  <2>1. r = parseReportDat(d)
    <3>1. r = IF shortKey(d) THEN [tool |-> "panic"] ELSE parseReportDat(d)
      BY <1>0, <1>4 DEF Parse, isObject
    <3>2. [tool |-> "panic"].tool \notin Tools
      BY DEF Tools
    <3> QED
      BY <1>0, <3>1, <3>2 DEF IsReport
  <2>2. r.host = d.host
    BY <2>1 DEF parseReportDat, Report
  <2> QED
    BY <1>0, <1>4, <2>2 DEF Sound, ScoreOfADat
<1>5. CASE t = "atomic_red_team"
  <2>1. r = atomicReport(d)
    <3>1. ~ (isArray(d) \/ (d.shape = "object" /\ d.tool = "atomic")) => r.tool = "error"
      BY <1>0, <1>5 DEF Parse
    <3> QED
      BY <1>0, <1>5, <3>1 DEF Parse, IsReport, Tools
  <2> DEFINE items == [k \in DOMAIN d.items |-> atomicItem(d.items[k])]
  <2>2. r = Report("atomic_red_team", IF d.tool = "atomic" /\ d.host # "" THEN d.host ELSE "unknown", items,
                   passedShare(items, 100))
    BY <2>1 DEF atomicReport
  <2>3. items = [k \in DOMAIN d.items |-> items[k]]
    OBVIOUS
  <2> HIDE DEF items
  <2> QED
    BY <1>2, <2>2, <2>3
<1>6. CASE t = "generic"
  <2> DEFINE items == genericItems(d)
  <2>1. \/ r = Report("generic", d.host, items, 0)
        \/ r = Report("generic", "unknown", items, passedShare(items, 0))
    <3>1. CASE d.shape = "object" /\ d.tool = "generic"
      <4>1. r = BuildReportFromGeneric(d)
        BY <1>0, <1>6, <3>1 DEF Parse, isArray
      <4> QED
        BY <4>1 DEF BuildReportFromGeneric
    <3>2. CASE ~ (d.shape = "object" /\ d.tool = "generic") /\ ((isArray(d) \/ d.shape = "wrapped") /\ d.items # <<>>)
      BY <1>0, <1>6, <3>2 DEF Parse, buildFromItems
    <3>3. CASE /\ ~ (d.shape = "object" /\ d.tool = "generic")
               /\ ~ ((isArray(d) \/ d.shape = "wrapped") /\ d.items # <<>>)
      <4>1. r.tool = "error"
        BY <1>0, <1>6, <3>3 DEF Parse
      <4> QED
        BY <1>0, <4>1 DEF IsReport, Tools
    <3> QED
      BY <3>1, <3>2, <3>3
  <2>2. items = [k \in DOMAIN d.items |-> items[k]]
    BY DEF genericItems
  <2> HIDE DEF items
  <2>3. CASE r = Report("generic", d.host, items, 0)
    BY <2>3 DEF Sound, Report
  <2>4. CASE r = Report("generic", "unknown", items, passedShare(items, 0))
    BY <1>2, <2>2, <2>4
  <2> QED
    BY <2>1, <2>3, <2>4
<1>7. CASE t = "openscap" \/ (t = "lynis" /\ ~isObject(d) /\ d.shape # "lines")
  <2>1. r.tool = "error"
    BY <1>0, <1>7 DEF Parse
  <2> QED
    BY <1>0, <2>1 DEF IsReport, Tools
<1> QED
  BY <1>3, <1>4, <1>5, <1>6, <1>7 DEF Tools

LEMMA Chosen2 ==
    ASSUME NEW D, NEW a \in D, NEW b \in D, NEW S
    PROVE  <<a>> \in Seq(D) /\ Chosen(<<a, b>>, S) \in Seq(D)
<1>1. <<a, b>> \in Seq(D) /\ <<a>> \in Seq(D)
  OBVIOUS
<1>2. Chosen(<<a, b>>, S) \in Seq(D \cap S)
  BY <1>1, ChosenFacts
<1> QED
  BY <1>1, <1>2

\* What is stored and what waits to be: reports with their origin.
SoundReports == {r \in {Parse(t, Documents[f]) : t \in Tools, f \in Files} : IsReport(r) /\ Sound(r)}
Stored == [report : SoundReports, from : Files \cup {"caller"}]

LEMMA ParsedIn ==
    ASSUME NEW f \in Files, NEW t \in Tools, IsReport(Parse(t, Documents[f]))
    PROVE  Parse(t, Documents[f]) \in SoundReports
<1>1. Sound(Parse(t, Documents[f]))
  BY ParsedSound
<1> QED
  BY <1>1 DEF SoundReports

LEMMA FirstReportSound ==
    ASSUME NEW f \in Files, NEW tools \in Seq(Tools), IsReport(firstReport(tools, Documents[f]))
    PROVE  firstReport(tools, Documents[f]) \in SoundReports
<1> DEFINE tried == Where(tools, LAMBDA t : Parse(t, Documents[f]).tool # "error")
<1>1. firstReport(tools, Documents[f]) =
         IF tried = <<>> THEN [tool |-> "error"] ELSE Parse(tried[1], Documents[f])
  BY DEF firstReport
<1>2. tried \in Seq(Tools \cap {t \in {tools[i] : i \in DOMAIN tools} : Parse(t, Documents[f]).tool # "error"})
  BY ChosenFacts DEF Where
<1> HIDE DEF tried
<1>3. tried # <<>>
  <2>1. [tool |-> "error"].tool \notin Tools
    BY DEF Tools
  <2> QED
    BY <1>1, <2>1 DEF IsReport
<1>4. tried[1] \in Tools
  BY <1>2, <1>3
<1> QED
  BY <1>1, <1>3, <1>4, ParsedIn

LEMMA FileReportSound ==
    ASSUME NEW f \in Files, IsReport(ProcessFromFile(Documents[f]))
    PROVE  ProcessFromFile(Documents[f]) \in SoundReports
<1> DEFINE named == Where(<<"openscap", "lynis">>, LAMBDA t : t \in adaptersOn /\ SupportsFormat(t, Documents[f]))
           generic == IF "generic" \in adaptersOn THEN <<"generic">> ELSE <<>>
<1>1. "openscap" \in Tools /\ "lynis" \in Tools /\ "generic" \in Tools
  BY DEF Tools
<1>2. named \in Seq(Tools)
  BY <1>1, Chosen2 DEF Where
<1>a. generic \in Seq(Tools)
  <2>1. <<"generic">> \in Seq(Tools) /\ <<>> \in Seq(Tools)
    BY <1>1, Chosen2
  <2> QED
    BY <2>1
<1>3. ProcessFromFile(Documents[f]) = firstReport(named \o generic, Documents[f])
  BY DEF ProcessFromFile
<1> HIDE DEF named, generic
<1>4. named \o generic \in Seq(Tools)
  BY <1>2, <1>a
<1> QED
  BY <1>3, <1>4, FirstReportSound

LEMMA BytesReportSound ==
    ASSUME NEW f \in Files, NEW tool \in Tools \cup {""}, IsReport(ProcessFromBytes(tool, Documents[f]))
    PROVE  ProcessFromBytes(tool, Documents[f]) \in SoundReports
<1> DEFINE enabledOnes == Where(<<"openscap", "lynis">>, LAMBDA t : t \in adaptersOn)
           generic == <<"generic">>
<1>1. "openscap" \in Tools /\ "lynis" \in Tools /\ "generic" \in Tools
  BY DEF Tools
<1>2. enabledOnes \in Seq(Tools) /\ generic \in Seq(Tools)
  BY <1>1, Chosen2 DEF Where
<1>3. ProcessFromBytes(tool, Documents[f]) =
         IF tool # "" THEN Parse(tool, Documents[f]) ELSE firstReport(enabledOnes \o generic, Documents[f])
  BY DEF ProcessFromBytes
<1> HIDE DEF enabledOnes, generic
<1>4. enabledOnes \o generic \in Seq(Tools)
  BY <1>2, Joined
<1>5. CASE tool # ""
  <2>1. tool \in Tools /\ ProcessFromBytes(tool, Documents[f]) = Parse(tool, Documents[f])
    BY <1>3, <1>5
  <2>2. IsReport(Parse(tool, Documents[f]))
    BY <2>1
  <2>3. Parse(tool, Documents[f]) \in SoundReports
    BY <2>1, <2>2, ParsedIn
  <2> QED
    BY <2>1, <2>3
<1>6. CASE tool = ""
  BY <1>3, <1>4, <1>6, FirstReportSound
<1> QED
  BY <1>5, <1>6

-----------------------------------------------------------------------------
LEMMA Dropped ==
    ASSUME NEW D, NEW a \in Seq(D), NEW m \in Nat, m <= Len(a)
    PROVE  /\ SubSeq(a, m + 1, Len(a)) \in Seq(D) /\ Len(SubSeq(a, m + 1, Len(a))) = Len(a) - m
           /\ \A k \in 1 .. Len(a) - m : SubSeq(a, m + 1, Len(a))[k] = a[k + m]
<1>1. Len(a) \in Nat /\ \A i \in 1 .. Len(a) : a[i] \in D
  OBVIOUS
<1>2. SubSeq(a, m + 1, Len(a)) = [i \in 1 .. Len(a) - m |-> a[i + m]]
  BY <1>1
<1> DEFINE r == SubSeq(a, m + 1, Len(a))
<1> HIDE DEF r
<1>3. r = [i \in 1 .. Len(a) - m |-> r[i]] /\ Len(a) - m \in Nat
  BY <1>1, <1>2 DEF r
<1>4. \A i \in 1 .. Len(a) - m : r[i] = a[i + m] /\ r[i] \in D
  BY <1>1, <1>2 DEF r
<1>5. r \in Seq(D) /\ Len(r) = Len(a) - m
  BY <1>3, <1>4, ListOf
<1> QED
  BY <1>4, <1>5 DEF r

\* The newest of a list and one more: all of it, or all but the first.
Lost(q) == IF Len(q) = MaxHistoryKept THEN 1 ELSE 0

LEMMA NewestOf ==
    ASSUME NEW D, NEW q \in Seq(D), Len(q) <= MaxHistoryKept, NEW x \in D
    PROVE  /\ newest(Append(q, x)) \in Seq(D)
           /\ Len(newest(Append(q, x))) = Len(q) + 1 - Lost(q)
           /\ Len(q) + 1 - Lost(q) \in 1 .. MaxHistoryKept
           /\ newest(Append(q, x))[Len(q) + 1 - Lost(q)] = x
           /\ \A k \in 1 .. Len(q) - Lost(q) :
                 k + Lost(q) \in 1 .. Len(q) /\ newest(Append(q, x))[k] = q[k + Lost(q)]
<1> DEFINE a == Append(q, x)
           r == newest(a)
<1>1. /\ a \in Seq(D) /\ Len(a) = Len(q) + 1 /\ Len(q) \in Nat /\ a[Len(q) + 1] = x
      /\ \A k \in 1 .. Len(q) : a[k] = q[k]
  OBVIOUS
<1>2. MaxHistoryKept \in Nat \ {0}
  BY ScanAssumption
<1>3. (IF Len(a) > MaxHistoryKept THEN Len(a) - MaxHistoryKept ELSE 0) = Lost(q) /\ Lost(q) \in {0, 1}
      /\ (Lost(q) = 1 => Len(q) = MaxHistoryKept) /\ (Lost(q) = 0 => Len(q) < MaxHistoryKept)
  BY <1>1, <1>2 DEF Lost
<1>4. r = SubSeq(a, Lost(q) + 1, Len(a))
  BY <1>3 DEF newest
<1> HIDE DEF a, r
<1>5. r \in Seq(D) /\ Len(r) = Len(a) - Lost(q) /\ \A k \in 1 .. Len(a) - Lost(q) : r[k] = a[k + Lost(q)]
  <2>1. Lost(q) \in Nat /\ Lost(q) <= Len(a)
    BY <1>1, <1>3
  <2> QED
    BY <1>1, <1>4, <2>1, Dropped
<1>6. Len(q) + 1 - Lost(q) \in 1 .. MaxHistoryKept /\ r[Len(q) + 1 - Lost(q)] = x
  BY <1>1, <1>2, <1>3, <1>5
<1>7. \A k \in 1 .. Len(q) - Lost(q) : k + Lost(q) \in 1 .. Len(q) /\ r[k] = q[k + Lost(q)]
  BY <1>1, <1>3, <1>5
<1>8. /\ r \in Seq(D) /\ Len(r) = Len(q) + 1 - Lost(q)
      /\ Len(q) + 1 - Lost(q) \in 1 .. MaxHistoryKept /\ r[Len(q) + 1 - Lost(q)] = x
      /\ \A k \in 1 .. Len(q) - Lost(q) : k + Lost(q) \in 1 .. Len(q) /\ r[k] = q[k + Lost(q)]
  <2>1. Len(r) = Len(q) + 1 - Lost(q)
    BY <1>1, <1>3, <1>5
  <2> QED
    BY <1>5, <1>6, <1>7, <2>1
<1> QED
  BY <1>8 DEF r, a

-----------------------------------------------------------------------------
\* The results that came of a file.
From(sc, f) == {p \in (DOMAIN sc) \X (1 .. MaxHistoryKept) :
                  p[2] <= Len(sc[p[1]]) /\ sc[p[1]][p[2]].from = f}

ScanInv ==
    /\ inbox \subseteq Files /\ archive \subseteq Files /\ inbox \cap archive = {}
    /\ IsFiniteSet(DOMAIN scored)
    /\ \A h \in DOMAIN scored : scored[h] \in Seq(Stored) /\ Len(scored[h]) <= MaxHistoryKept
    /\ pending \subseteq Stored /\ \A p \in pending : p.from = "caller"
    /\ moveFailures \in [Files -> Nat]
    /\ \A f \in Files :
         LET moved == moveFailures[f] + IF f \in archive THEN 1 ELSE 0
         IN  timesKept(f) <= moved /\ (timesKept(f) = moved \/ crowded)
    /\ NodesComeFromReports

LEMMA FromFinite ==
    ASSUME NEW sc, IsFiniteSet(DOMAIN sc), NEW f
    PROVE  IsFiniteSet(From(sc, f)) /\ Cardinality(From(sc, f)) \in Nat
<1>1. IsFiniteSet(1 .. MaxHistoryKept)
  BY ScanAssumption, FS_Interval
<1>2. IsFiniteSet((DOMAIN sc) \X (1 .. MaxHistoryKept))
  BY <1>1, FS_Product
<1>3. From(sc, f) \subseteq (DOMAIN sc) \X (1 .. MaxHistoryKept)
  BY DEF From
<1>4. IsFiniteSet(From(sc, f))
  BY <1>2, <1>3, FS_Subset
<1> QED
  BY <1>4, FS_CardinalityType

\* A result goes to the end of its host's list, where the first may fall out.
LEMMA OneMoreStored ==
    ASSUME ScanInv, NEW r \in SoundReports, NEW from \in Files \cup {"caller"}, storeResult(r, from)
    PROVE  /\ IsFiniteSet(DOMAIN scored')
           /\ \A h \in DOMAIN scored' : scored'[h] \in Seq(Stored) /\ Len(scored'[h]) <= MaxHistoryKept
           /\ DOMAIN scored \subseteq DOMAIN scored' /\ keyOf(r) \in DOMAIN scored'
           /\ \E j \in DOMAIN scored'[keyOf(r)] : scored'[keyOf(r)][j] = [report |-> r, from |-> from]
           /\ \A h \in DOMAIN scored :
                 \/ \A j \in DOMAIN scored[h] : \E k \in DOMAIN scored'[h] : scored'[h][k] = scored[h][j]
                 \/ Len(scored'[h]) = MaxHistoryKept
           /\ \A h \in DOMAIN scored : Len(scored[h]) = MaxHistoryKept => Len(scored'[h]) = MaxHistoryKept
           /\ crowded => crowded'
           /\ \A f \in Files : timesKept(f)' <= timesKept(f) + (IF f = from THEN 1 ELSE 0)
           /\ ~crowded' => \A f \in Files : timesKept(f)' = timesKept(f) + (IF f = from THEN 1 ELSE 0)
<1> DEFINE key == keyOf(r)
           x == [report |-> r, from |-> from]
           q == heldOf(key)
<1>1. x \in Stored /\ x.from = from
  BY DEF Stored
<1>2. q \in Seq(Stored) /\ Len(q) <= MaxHistoryKept /\ Len(q) \in Nat /\ DOMAIN q = 1 .. Len(q)
      /\ MaxHistoryKept \in Nat \ {0}
      /\ (key \in DOMAIN scored => q = scored[key]) /\ (key \notin DOMAIN scored => Len(q) = 0)
  <2>1. MaxHistoryKept \in Nat \ {0}
    BY ScanAssumption
  <2>2. CASE key \in DOMAIN scored
    BY <2>1, <2>2 DEF ScanInv, heldOf
  <2>3. CASE key \notin DOMAIN scored
    BY <2>1, <2>3 DEF heldOf
  <2> QED
    BY <2>1, <2>2, <2>3
<1>3. scored' = [h \in DOMAIN scored \cup {key} |-> IF h = key THEN newest(Append(q, x)) ELSE scored[h]]
  BY DEF storeResult
<1> HIDE DEF key, x, q
<1>4. /\ DOMAIN scored' = DOMAIN scored \cup {key}
      /\ scored'[key] = newest(Append(q, x))
      /\ \A h \in DOMAIN scored : h # key => scored'[h] = scored[h]
  BY <1>3
<1> DEFINE w == scored'[key]
<1>5. /\ w \in Seq(Stored) /\ Len(w) = Len(q) + 1 - Lost(q) /\ DOMAIN w = 1 .. Len(q) + 1 - Lost(q)
      /\ Len(q) + 1 - Lost(q) \in 1 .. MaxHistoryKept /\ w[Len(q) + 1 - Lost(q)] = x
      /\ \A k \in 1 .. Len(q) - Lost(q) : k + Lost(q) \in 1 .. Len(q) /\ w[k] = q[k + Lost(q)]
  <2>1. w = newest(Append(q, x))
    BY <1>4
  <2> DEFINE v == newest(Append(q, x))
  <2>3. /\ v \in Seq(Stored) /\ Len(v) = Len(q) + 1 - Lost(q)
        /\ Len(q) + 1 - Lost(q) \in 1 .. MaxHistoryKept /\ v[Len(q) + 1 - Lost(q)] = x
        /\ \A k \in 1 .. Len(q) - Lost(q) : k + Lost(q) \in 1 .. Len(q) /\ v[k] = q[k + Lost(q)]
    <3>1. q \in Seq(Stored) /\ Len(q) <= MaxHistoryKept /\ x \in Stored
      BY <1>1, <1>2
    <3> QED
      BY <3>1, NewestOf
  <2>4. w = v
    BY <2>1
  <2> HIDE DEF w, v
  <2>2. /\ w \in Seq(Stored) /\ Len(w) = Len(q) + 1 - Lost(q)
        /\ Len(q) + 1 - Lost(q) \in 1 .. MaxHistoryKept /\ w[Len(q) + 1 - Lost(q)] = x
        /\ \A k \in 1 .. Len(q) - Lost(q) : k + Lost(q) \in 1 .. Len(q) /\ w[k] = q[k + Lost(q)]
    BY <2>3, <2>4
  <2> QED
    BY <2>2
<1>a. Lost(q) = IF Len(q) = MaxHistoryKept THEN 1 ELSE 0
  BY DEF Lost
<1>b. Lost(q) \in {0, 1} /\ Lost(q) \in Nat
  BY <1>a
<1>6. IsFiniteSet(DOMAIN scored')
  BY <1>4, FS_AddElement DEF ScanInv
<1>7. \A h \in DOMAIN scored' : scored'[h] \in Seq(Stored) /\ Len(scored'[h]) <= MaxHistoryKept
  <2> SUFFICES ASSUME NEW h \in DOMAIN scored' PROVE scored'[h] \in Seq(Stored) /\ Len(scored'[h]) <= MaxHistoryKept
    OBVIOUS
  <2>1. CASE h = key
    BY <1>2, <1>5, <2>1
  <2>2. CASE h # key
    BY <1>4, <2>2 DEF ScanInv
  <2> QED
    BY <2>1, <2>2
<1>8. key \in DOMAIN scored' /\ \E j \in DOMAIN scored'[key] : scored'[key][j] = x
  BY <1>4, <1>5
<1>9. ASSUME NEW h \in DOMAIN scored
      PROVE  \/ \A j \in DOMAIN scored[h] : \E k \in DOMAIN scored'[h] : scored'[h][k] = scored[h][j]
             \/ Len(scored'[h]) = MaxHistoryKept
  <2>1. CASE h # key
    BY <1>4, <2>1
  <2>2. CASE h = key /\ Len(q) = MaxHistoryKept
    BY <1>2, <1>5, <1>a, <2>2
  <2>3. CASE h = key /\ Len(q) # MaxHistoryKept
    <3>1. q = scored[h] /\ Lost(q) = 0
      BY <1>2, <1>a, <2>3
    <3>2. ASSUME NEW j \in DOMAIN q PROVE j \in DOMAIN w /\ w[j] = q[j]
      <4>1. j \in 1 .. Len(q) - Lost(q) /\ j + Lost(q) = j /\ j \in 1 .. Len(q) + 1 - Lost(q)
        BY <1>2, <3>1
      <4> HIDE DEF w
      <4> QED
        BY <1>5, <4>1
    <3> QED
      BY <2>3, <3>1, <3>2
  <2> QED
    BY <2>1, <2>2, <2>3
<1>10. ASSUME NEW h \in DOMAIN scored, Len(scored[h]) = MaxHistoryKept
       PROVE  Len(scored'[h]) = MaxHistoryKept
  <2>1. CASE h = key
    <3>1. Len(q) = MaxHistoryKept /\ Lost(q) = 1
      BY <1>2, <1>a, <1>10, <2>1
    <3>2. Len(w) = MaxHistoryKept
      BY <1>2, <1>5, <3>1
    <3> QED
      BY <2>1, <3>2
  <2>2. CASE h # key
    BY <1>4, <1>10, <2>2
  <2> QED
    BY <2>1, <2>2
<1>c. crowded => crowded'
  BY <1>4, <1>10 DEF crowded
<1>11. ASSUME NEW f \in Files
       PROVE  /\ timesKept(f)' <= timesKept(f) + (IF f = from THEN 1 ELSE 0)
              /\ ~crowded' => timesKept(f)' = timesKept(f) + (IF f = from THEN 1 ELSE 0)
  <2> DEFINE A == From(scored, f)
             B == From(scored', f)
             new == <<key, Len(q) + 1 - Lost(q)>>
             C == B \ {new}
             g == [p \in C |-> IF p[1] = key THEN <<key, p[2] + Lost(q)>> ELSE p]
  <2>1. /\ IsFiniteSet(A) /\ timesKept(f) = Cardinality(A) /\ Cardinality(A) \in Nat
        /\ IsFiniteSet(B) /\ timesKept(f)' = Cardinality(B) /\ Cardinality(B) \in Nat
    <3>1. timesKept(f) = Cardinality(A) /\ timesKept(f)' = Cardinality(B)
      BY DEF timesKept, From
    <3> QED
      BY <1>6, <3>1, FromFinite DEF ScanInv
  <2>2. new \in B <=> f = from
    BY <1>1, <1>4, <1>5 DEF From
  <2>3. ASSUME NEW p \in C
        PROVE  /\ p = <<p[1], p[2]>> /\ p[1] \in DOMAIN scored /\ p[2] \in Nat
               /\ p[1] = key => <<key, p[2] + Lost(q)>> \in A
               /\ p[1] # key => p \in A
    <3>1. /\ p = <<p[1], p[2]>> /\ p[1] \in DOMAIN scored' /\ p[2] \in 1 .. MaxHistoryKept /\ p # new
          /\ p[2] <= Len(scored'[p[1]]) /\ scored'[p[1]][p[2]].from = f
      BY DEF From
    <3>2. CASE p[1] # key
      BY <1>4, <3>1, <3>2 DEF From
    <3>3. CASE p[1] = key
      <4>1. p[2] # Len(q) + 1 - Lost(q)
        BY <3>1, <3>3
      <4>2. p[2] \in 1 .. Len(q) - Lost(q)
        BY <1>2, <1>5, <1>a, <3>1, <3>3, <4>1
      <4>3. p[2] + Lost(q) \in 1 .. Len(q) /\ q[p[2] + Lost(q)].from = f
        BY <1>5, <3>1, <3>3, <4>2
      <4>4. key \in DOMAIN scored
        BY <1>2, <4>3
      <4> QED
        BY <1>2, <3>1, <3>3, <4>3, <4>4 DEF From
    <3> QED
      BY <3>2, <3>3
  <2> HIDE DEF A, B, C
  <2>4. g \in Injection(C, A)
    <3>1. g \in [C -> A]
      BY <2>3
    <3>2. ASSUME NEW p \in C, NEW o \in C, g[p] = g[o] PROVE p = o
      <4>1. g[p] = (IF p[1] = key THEN <<key, p[2] + Lost(q)>> ELSE p)
            /\ g[o] = (IF o[1] = key THEN <<key, o[2] + Lost(q)>> ELSE o)
        OBVIOUS
      <4>2. /\ p = <<p[1], p[2]>> /\ p[2] \in Nat
            /\ o = <<o[1], o[2]>> /\ o[2] \in Nat /\ Lost(q) \in Nat
        BY <1>b, <2>3
      <4>3. p[1] = o[1] /\ p[2] = o[2]
        BY <3>2, <4>1, <4>2
      <4> QED
        BY <4>2, <4>3
    <3> QED
      BY <3>1, <3>2 DEF Injection, IsInjective
  <2>5. IsFiniteSet(C) /\ Cardinality(C) <= Cardinality(A) /\ Cardinality(C) \in Nat
    BY <2>1, <2>4, FS_Injection, FS_CardinalityType
  <2>6. Cardinality(B) = Cardinality(C) + (IF f = from THEN 1 ELSE 0)
    <3>1. CASE f = from
      <4>1. new \in B /\ B = C \cup {new} /\ new \notin C
        BY <2>2, <3>1 DEF C
      <4>2. Cardinality(B) = Cardinality(C) + 1
        BY <2>5, <4>1, FS_AddElement
      <4> QED
        BY <3>1, <4>2
    <3>2. CASE f # from
      <4>1. B = C
        BY <2>2, <3>2 DEF C
      <4> QED
        BY <2>5, <3>2, <4>1
    <3> QED
      BY <3>1, <3>2
  <2>7. ASSUME ~crowded' PROVE C = A
    <3>1. Lost(q) = 0
      <4> SUFFICES ASSUME Lost(q) = 1 PROVE FALSE
        BY <1>a
      <4>1. Len(w) = MaxHistoryKept
        <5> HIDE DEF w
        <5>1. Len(q) = MaxHistoryKept /\ Len(w) = Len(q) + 1 - 1
          BY <1>5, <1>a
        <5> QED
          BY <1>2, <5>1
      <4> QED
        BY <1>8, <2>7, <4>1 DEF crowded
    <3>2. ASSUME NEW p \in C PROVE p \in A
      <4>0. p[2] \in Nat
        BY <2>3
      <4>2. p = <<p[1], p[2]>>
        BY <2>3
      <4>1. p = <<p[1], p[2]>> /\ p[2] + Lost(q) = p[2]
        BY <3>1, <4>0, <4>2
      <4> QED
        BY <2>3, <4>1
    <3>3. ASSUME NEW p \in A PROVE p \in C
      <4>1. /\ p = <<p[1], p[2]>> /\ p[1] \in DOMAIN scored /\ p[2] \in 1 .. MaxHistoryKept
            /\ p[2] <= Len(scored[p[1]]) /\ scored[p[1]][p[2]].from = f
        BY DEF A, From
      <4>2. CASE p[1] # key
        BY <1>4, <4>1, <4>2 DEF B, C, From
      <4>3. CASE p[1] = key
        <5>1. p[2] \in 1 .. Len(q) /\ q[p[2]].from = f
          BY <1>2, <4>1, <4>3
        <5>2. p[2] + Lost(q) = p[2] /\ Len(q) - Lost(q) = Len(q) /\ Len(q) + 1 - Lost(q) = Len(q) + 1
          BY <1>2, <3>1, <5>1
        <5>3. w[p[2]] = q[p[2]] /\ Len(w) = Len(q) + 1
          BY <1>5, <5>1, <5>2
        <5>4. p \in B
          BY <1>2, <1>8, <4>1, <4>3, <5>1, <5>3 DEF B, From
        <5>5. p # new
          BY <1>2, <4>1, <5>1, <5>2
        <5> QED
          BY <5>4, <5>5 DEF C
      <4> QED
        BY <4>2, <4>3
    <3> QED
      BY <3>2, <3>3
  <2>8. timesKept(f)' <= timesKept(f) + (IF f = from THEN 1 ELSE 0)
    BY <2>1, <2>5, <2>6
  <2>9. ~crowded' => timesKept(f)' = timesKept(f) + (IF f = from THEN 1 ELSE 0)
    BY <2>1, <2>6, <2>7
  <2> QED
    BY <2>8, <2>9
<1> QED
  BY <1>6, <1>7, <1>8, <1>9, <1>10, <1>c, <1>11, <1>4 DEF key, x

-----------------------------------------------------------------------------
\* The node of h shows a report that waits or is stored, or the list of the host is full.
Shown(h, snap, pend, sc) ==
    \/ \E p \in pend : p.report.host = h /\ snap[h] = reportToNodeState(p.report)
    \/ /\ hostKey(h) \in DOMAIN sc
       /\ \/ \E j \in DOMAIN sc[hostKey(h)] : snap[h] = reportToNodeState(sc[hostKey(h)][j].report)
          \/ Len(sc[hostKey(h)]) = MaxHistoryKept

LEMMA NodesShown == NodesComeFromReports <=> \A h \in DOMAIN snapshots : Shown(h, snapshots, pending, scored)
  BY DEF NodesComeFromReports, Shown

\* The nodes after a result was stored, and perhaps scored just before.
LEMMA NodesAfterStoring ==
    ASSUME ScanInv, NEW r \in SoundReports, NEW from \in Files \cup {"caller"}, storeResult(r, from),
           Process(r) \/ snapshots' = snapshots,
           \A p \in pending : p \in pending' \/ p.report = r
    PROVE  \A h \in DOMAIN snapshots' : Shown(h, snapshots', pending', scored')
<1>0. /\ DOMAIN scored \subseteq DOMAIN scored' /\ keyOf(r) \in DOMAIN scored'
      /\ \E j \in DOMAIN scored'[keyOf(r)] : scored'[keyOf(r)][j] = [report |-> r, from |-> from]
      /\ \A h \in DOMAIN scored :
           \/ \A j \in DOMAIN scored[h] : \E k \in DOMAIN scored'[h] : scored'[h][k] = scored[h][j]
           \/ Len(scored'[h]) = MaxHistoryKept
      /\ \A h \in DOMAIN scored : Len(scored[h]) = MaxHistoryKept => Len(scored'[h]) = MaxHistoryKept
  BY OneMoreStored
<1>1. PICK m \in DOMAIN scored'[keyOf(r)] : scored'[keyOf(r)][m].report = r
  BY <1>0
<1> SUFFICES ASSUME NEW h \in DOMAIN snapshots' PROVE Shown(h, snapshots', pending', scored')
  OBVIOUS
<1>2. CASE h = r.host /\ snapshots'[h] = reportToNodeState(r)
  <2>1. hostKey(h) = keyOf(r)
    BY <1>2 DEF keyOf
  <2> QED
    BY <1>0, <1>1, <1>2, <2>1 DEF Shown
<1>3. CASE h \in DOMAIN snapshots /\ snapshots'[h] = snapshots[h]
  <2>0. Shown(h, snapshots, pending, scored)
    BY <1>3, NodesShown DEF ScanInv
  <2>1. CASE \E p \in pending : p.report.host = h /\ snapshots[h] = reportToNodeState(p.report)
    <3>1. PICK p \in pending : p.report.host = h /\ snapshots[h] = reportToNodeState(p.report)
      BY <2>1
    <3>2. CASE p \in pending'
      BY <1>3, <3>1, <3>2 DEF Shown
    <3>3. CASE p.report = r
      BY <1>2, <1>3, <3>1, <3>3
    <3> QED
      BY <3>2, <3>3
  <2>2. CASE hostKey(h) \in DOMAIN scored /\ Len(scored[hostKey(h)]) = MaxHistoryKept
    BY <1>0, <2>2 DEF Shown
  <2>3. CASE hostKey(h) \in DOMAIN scored
             /\ \E j \in DOMAIN scored[hostKey(h)] : snapshots[h] = reportToNodeState(scored[hostKey(h)][j].report)
    <3> DEFINE k == hostKey(h)
    <3>1. PICK j \in DOMAIN scored[k] : snapshots[h] = reportToNodeState(scored[k][j].report)
      BY <2>3
    <3>2. k \in DOMAIN scored /\ k \in DOMAIN scored'
      BY <1>0, <2>3
    <3>3. CASE Len(scored'[k]) = MaxHistoryKept
      BY <3>2, <3>3 DEF Shown
    <3>4. CASE \A i \in DOMAIN scored[k] : \E l \in DOMAIN scored'[k] : scored'[k][l] = scored[k][i]
      <4>1. PICK l \in DOMAIN scored'[k] : scored'[k][l] = scored[k][j]
        BY <3>1, <3>4
      <4>2. snapshots'[h] = reportToNodeState(scored'[k][l].report)
        BY <1>3, <3>1, <4>1
      <4> QED
        BY <3>2, <4>1, <4>2 DEF Shown
    <3> QED
      BY <1>0, <3>2, <3>3, <3>4
  <2> QED
    BY <2>0, <2>1, <2>2, <2>3 DEF Shown
<1>4. \/ h = r.host /\ snapshots'[h] = reportToNodeState(r)
      \/ h \in DOMAIN snapshots /\ snapshots'[h] = snapshots[h]
  BY DEF Process
<1> QED
  BY <1>2, <1>3, <1>4

LEMMA NodesShownAfter ==
    ASSUME \A h \in DOMAIN snapshots' : Shown(h, snapshots', pending', scored')
    PROVE  NodesComeFromReports'
<1>1. (\A h \in DOMAIN snapshots : Shown(h, snapshots, pending, scored))' => NodesComeFromReports'
  BY NodesShown, PTL
<1> QED
  BY <1>1

\* What moving a file away does to the count of its results.
LEMMA StoredKeepsInv ==
    ASSUME ScanInv, NEW r \in SoundReports, NEW from \in Files \cup {"caller"}, storeResult(r, from),
           Process(r) \/ snapshots' = snapshots,
           \A p \in pending : p \in pending' \/ p.report = r,
           pending' \subseteq pending, inbox' \subseteq inbox, archive' \subseteq Files, inbox' \cap archive' = {},
           moveFailures' \in [Files -> Nat],
           \A f \in Files :
              moveFailures'[f] + (IF f \in archive' THEN 1 ELSE 0)
                = moveFailures[f] + (IF f \in archive THEN 1 ELSE 0) + (IF f = from THEN 1 ELSE 0)
    PROVE  ScanInv'
<1>1. /\ IsFiniteSet(DOMAIN scored')
      /\ \A h \in DOMAIN scored' : scored'[h] \in Seq(Stored) /\ Len(scored'[h]) <= MaxHistoryKept
      /\ crowded => crowded'
      /\ \A f \in Files : timesKept(f)' <= timesKept(f) + (IF f = from THEN 1 ELSE 0)
      /\ ~crowded' => \A f \in Files : timesKept(f)' = timesKept(f) + (IF f = from THEN 1 ELSE 0)
  BY OneMoreStored
<1>2. ASSUME NEW f \in Files
      PROVE  /\ timesKept(f)' <= moveFailures'[f] + IF f \in archive' THEN 1 ELSE 0
             /\ timesKept(f)' = moveFailures'[f] + (IF f \in archive' THEN 1 ELSE 0) \/ crowded'
  <2> DEFINE before == moveFailures[f] + (IF f \in archive THEN 1 ELSE 0)
             one == IF f = from THEN 1 ELSE 0
             later == moveFailures'[f] + (IF f \in archive' THEN 1 ELSE 0)
  <2>1. later = before + one /\ before \in Nat /\ one \in {0, 1} /\ later \in Nat
    BY DEF ScanInv
  <2>2. timesKept(f) <= before /\ (timesKept(f) = before \/ crowded)
    BY DEF ScanInv
  <2>3. timesKept(f) \in Nat /\ timesKept(f)' \in Nat
    <3>1. timesKept(f) = Cardinality(From(scored, f)) /\ timesKept(f)' = Cardinality(From(scored', f))
      BY DEF timesKept, From
    <3> QED
      BY <1>1, <3>1, FromFinite DEF ScanInv
  <2>4. timesKept(f)' <= timesKept(f) + one /\ (~crowded' => timesKept(f)' = timesKept(f) + one)
    BY <1>1
  <2> HIDE DEF before, one, later
  <2>5. timesKept(f)' <= later /\ (timesKept(f)' = later \/ crowded')
    BY <1>1, <2>1, <2>2, <2>3, <2>4
  <2> QED
    BY <2>5 DEF later
<1>3. NodesComeFromReports'
  BY NodesAfterStoring, NodesShownAfter
<1>4. inbox' \subseteq Files /\ pending' \subseteq Stored /\ \A p \in pending' : p.from = "caller"
  BY DEF ScanInv
<1> QED
  BY <1>1, <1>2, <1>3, <1>4 DEF ScanInv

LEMMA ScanInitInv == SrdInit => ScanInv
<1> SUFFICES ASSUME SrdInit PROVE ScanInv
  OBVIOUS
<1>1. /\ inbox = {} /\ archive = {} /\ scored = << >> /\ snapshots = << >> /\ pending = {}
      /\ moveFailures = [f \in Files |-> 0]
  BY DEF SrdInit
<1>2. DOMAIN scored = {} /\ IsFiniteSet(DOMAIN scored) /\ DOMAIN snapshots = {}
  BY <1>1, FS_EmptySet
<1>3. ASSUME NEW f \in Files PROVE timesKept(f) = 0
  <2>1. From(scored, f) = {}
    BY <1>2 DEF From
  <2>2. Cardinality({}) = 0
    BY FS_EmptySet
  <2> QED
    BY <2>1, <2>2 DEF timesKept, From
<1>4. \A f \in Files : moveFailures[f] = 0 /\ f \notin archive
  BY <1>1
<1>5. NodesComeFromReports
  BY <1>2 DEF NodesComeFromReports
<1> QED
  BY <1>1, <1>2, <1>3, <1>4, <1>5 DEF ScanInv

\* Nothing that the invariant is about has changed.
LEMMA ScanUntouched ==
    ASSUME ScanInv, UNCHANGED <<archive, scored, snapshots, moveFailures>>,
           pending' \subseteq Stored, \A p \in pending' : p.from = "caller", pending \subseteq pending',
           inbox' \subseteq Files, inbox' \cap archive' = {}
    PROVE  ScanInv'
<1>1. \A f : timesKept(f)' = timesKept(f)
  BY DEF timesKept
<1>2. crowded' = crowded
  BY DEF crowded
<1>3. \A h \in DOMAIN snapshots' : Shown(h, snapshots', pending', scored')
  BY NodesShown DEF ScanInv, Shown
<1>4. NodesComeFromReports'
  BY <1>3, NodesShownAfter
<1> QED
  BY <1>1, <1>2, <1>4 DEF ScanInv

LEMMA ScanStepInv ==
    ASSUME ScanInv, SrdNext \/ UNCHANGED srdVars
    PROVE  ScanInv'
<1>0. pending \subseteq Stored /\ (\A p \in pending : p.from = "caller") /\ inbox \subseteq Files
      /\ inbox \cap archive = {} /\ archive \subseteq Files /\ moveFailures \in [Files -> Nat]
  BY DEF ScanInv
<1>1. CASE \E f \in Files : Deliver(f)
  BY <1>0, <1>1, ScanUntouched DEF Deliver
<1>2. CASE \E f \in Files : performScan(f)
  <2>1. PICK f \in Files : performScan(f)
    BY <1>2
  <2> DEFINE r == ProcessFromFile(Documents[f])
  <2>2. /\ f \in inbox /\ IsReport(r) /\ Process(r) /\ storeResult(r, f) /\ pending' = pending
        /\ \/ inbox' = inbox \ {f} /\ archive' = archive \cup {f} /\ moveFailures' = moveFailures
           \/ /\ moveFailures' = [moveFailures EXCEPT ![f] = 1] /\ moveFailures[f] = 0
              /\ UNCHANGED <<inbox, archive>>
    BY <2>1 DEF performScan
  <2>3. r \in SoundReports
    BY <2>2, FileReportSound
  <2> HIDE DEF r
  <2>4. f \notin archive
    BY <1>0, <2>2
  <2>5. /\ inbox' \subseteq inbox /\ archive' \subseteq Files /\ inbox' \cap archive' = {}
        /\ moveFailures' \in [Files -> Nat]
    BY <1>0, <2>2
  <2>6. \A g \in Files :
           moveFailures'[g] + (IF g \in archive' THEN 1 ELSE 0)
             = moveFailures[g] + (IF g \in archive THEN 1 ELSE 0) + (IF g = f THEN 1 ELSE 0)
    BY <1>0, <2>2, <2>4
  <2> QED
    BY <2>2, <2>3, <2>5, <2>6, StoredKeepsInv
<1>3. CASE \E t \in Tools \cup {""}, f \in Files : ProcessReport(t, f)
  <2>1. PICK t \in Tools \cup {""}, f \in Files : ProcessReport(t, f)
    BY <1>3
  <2> DEFINE r == ProcessFromBytes(t, Documents[f])
             x == [report |-> r, from |-> "caller"]
  <2>2. /\ IsReport(r) /\ Process(r) /\ pending' = pending \cup {x}
        /\ UNCHANGED <<inbox, archive, scored, moveFailures>>
    BY <2>1 DEF ProcessReport
  <2>3. x \in Stored /\ x.from = "caller" /\ x.report = r
    BY <2>2, BytesReportSound DEF Stored
  <2> HIDE DEF x, r
  <2>4. \A f1 : timesKept(f1)' = timesKept(f1)
    BY <2>2 DEF timesKept
  <2>5. crowded' = crowded
    BY <2>2 DEF crowded
  <2>6. ASSUME NEW h \in DOMAIN snapshots' PROVE Shown(h, snapshots', pending', scored')
    <3>1. CASE h = r.host /\ snapshots'[h] = reportToNodeState(r)
      BY <2>2, <2>3, <3>1 DEF Shown
    <3>2. CASE h \in DOMAIN snapshots /\ snapshots'[h] = snapshots[h]
      BY <2>2, <3>2, NodesShown DEF ScanInv, Shown
    <3> QED
      BY <2>2, <3>1, <3>2 DEF Process
  <2>7. NodesComeFromReports'
    BY <2>6, NodesShownAfter
  <2>8. pending' \subseteq Stored /\ \A p \in pending' : p.from = "caller"
    BY <1>0, <2>2, <2>3
  <2> QED
    BY <2>2, <2>4, <2>5, <2>7, <2>8 DEF ScanInv
<1>4. CASE \E p \in pending : StoreReported(p)
  <2>1. PICK p \in pending : StoreReported(p)
    BY <1>4
  <2>2. /\ pending' = pending \ {p} /\ storeResult(p.report, p.from)
        /\ UNCHANGED <<inbox, archive, snapshots, moveFailures>>
    BY <2>1 DEF StoreReported
  <2>3. p.report \in SoundReports /\ p.from = "caller"
    BY <1>0 DEF Stored
  <2>4. \A g \in Files : g # p.from
    BY <2>3, ScanAssumption DEF Files
  <2>5. \A g \in Files :
           moveFailures'[g] + (IF g \in archive' THEN 1 ELSE 0)
             = moveFailures[g] + (IF g \in archive THEN 1 ELSE 0) + (IF g = p.from THEN 1 ELSE 0)
    BY <1>0, <2>2, <2>4
  <2>6. /\ p.from \in Files \cup {"caller"} /\ \A o \in pending : o \in pending' \/ o.report = p.report
        /\ pending' \subseteq pending /\ inbox' \subseteq inbox /\ archive' \subseteq Files /\ inbox' \cap archive' = {}
        /\ moveFailures' \in [Files -> Nat] /\ snapshots' = snapshots
    BY <1>0, <2>2, <2>3
  <2> QED
    BY <2>2, <2>3, <2>5, <2>6, StoredKeepsInv
<1>5. CASE UNCHANGED <<inbox, archive, scored, snapshots, pending, moveFailures>>
  BY <1>0, <1>5, ScanUntouched
<1>6. \/ \E f \in Files : Deliver(f) \/ performScan(f)
      \/ \E t \in Tools \cup {""}, f \in Files : ProcessReport(t, f)
      \/ \E p \in pending : StoreReported(p)
      \/ UNCHANGED <<inbox, archive, scored, snapshots, pending, moveFailures>>
  BY DEF SrdNext, srdVars, SetEnabled, ScanPanics, SrdStop
<1> QED
  BY <1>1, <1>2, <1>3, <1>4, <1>5, <1>6

LEMMA ScanSoundOf == ScanInv => ScanSound
<1> SUFFICES ASSUME ScanInv PROVE ScanSound
  OBVIOUS
<1>1. MovedMeansScored
  <2> SUFFICES ASSUME NEW f \in Files
               PROVE  /\ timesKept(f) <= moveFailures[f] + 1
                      /\ f \in archive => timesKept(f) = moveFailures[f] + 1 \/ crowded
    BY DEF MovedMeansScored
  <2>1. moveFailures[f] \in Nat
    BY DEF ScanInv
  <2>2. timesKept(f) \in Nat
    <3>1. timesKept(f) = Cardinality(From(scored, f))
      BY DEF timesKept, From
    <3> QED
      BY <3>1, FromFinite DEF ScanInv
  <2>3. /\ timesKept(f) <= moveFailures[f] + IF f \in archive THEN 1 ELSE 0
        /\ timesKept(f) = moveFailures[f] + (IF f \in archive THEN 1 ELSE 0) \/ crowded
    BY DEF ScanInv
  <2> QED
    BY <2>1, <2>2, <2>3
<1>2. ScoresFollowFindings
  <2> SUFFICES ASSUME NEW h \in DOMAIN scored
               PROVE  /\ Len(scored[h]) <= MaxHistoryKept
                      /\ \A k \in DOMAIN scored[h] : Sound(scored[h][k].report)
    BY DEF ScoresFollowFindings, Sound, ScoreOfADat
  <2>1. scored[h] \in Seq(Stored) /\ Len(scored[h]) <= MaxHistoryKept
    BY DEF ScanInv
  <2>2. ASSUME NEW k \in DOMAIN scored[h] PROVE Sound(scored[h][k].report)
    <3>1. scored[h][k] \in Stored
      BY <2>1
    <3>2. scored[h][k].report \in SoundReports
      BY <3>1 DEF Stored
    <3> QED
      BY <3>2 DEF SoundReports
  <2> QED
    BY <2>1, <2>2
<1> QED
  BY <1>1, <1>2 DEF ScanSound, ScanInv

LEMMA PartsStepAlone ==
    AnalysisSpec => /\ CheckRunSpec /\ EvidenceSpec
                    /\ SrdInit /\ [][SrdNext]_srdVars
                    /\ CtiInit /\ [][CtiNext]_ctiVars
                    /\ PipelineInit /\ [][PipelineNext]_pipelineVars
<1>1. AnalysisInit => CheckRunInit /\ EvidenceInit /\ SrdInit /\ CtiInit /\ PipelineInit
  BY DEF AnalysisInit
<1>2. [AnalysisNext]_analysisVars => [CheckRunNext]_checkRunVars
  BY DEF AnalysisNext, Alone, analysisVars
<1>3. [AnalysisNext]_analysisVars => [EvidenceNext]_evidenceVars
  BY DEF AnalysisNext, Alone, analysisVars
<1>4. [AnalysisNext]_analysisVars => [SrdNext]_srdVars
  BY DEF AnalysisNext, Alone, analysisVars
<1>5. [AnalysisNext]_analysisVars => [CtiNext]_ctiVars
  BY DEF AnalysisNext, Alone, analysisVars
<1>6. [AnalysisNext]_analysisVars => [PipelineNext]_pipelineVars
  BY DEF AnalysisNext, Alone, analysisVars
<1> QED
  BY <1>1, <1>2, <1>3, <1>4, <1>5, <1>6, PTL DEF AnalysisSpec, CheckRunSpec, EvidenceSpec

\* A report file that was moved away was scored, a score follows from the findings of its report,
\* and the state of a host is that of one of its reports, for any documents and crashes.
THEOREM ScansAreSound == AnalysisSpec => []ScanSound
<1>1. ScanInv /\ [SrdNext]_srdVars => ScanInv'
  BY ScanStepInv
<1>2. SrdInit /\ [][SrdNext]_srdVars => []ScanSound
  BY <1>1, ScanInitInv, ScanSoundOf, PTL
<1> QED
  BY <1>2, PartsStepAlone, PTL

-----------------------------------------------------------------------------
(* The threats of the feeds. *)

LEMMA PulseWeights ==
    ASSUME NEW p \in DOMAIN Pulses
    PROVE  pulseWeight(p) \in Nat
<1> DEFINE n == Pulses[p].indicators
<1>1. n \in Nat
  BY CtiAssumption
<1>2. n \div 10 \in Nat
  <2> HIDE DEF n
  <2> QED
    BY <1>1
<1> HIDE DEF n
<1>3. \A k \in {1, 2, 3, 4} : k * (1 + n \div 10) \in Nat
  BY <1>2
<1> QED
  BY <1>3 DEF pulseWeight, n

\* The first tag that means something is one that does.
LEMMA EventWeights ==
    ASSUME NEW e \in DOMAIN Events
    PROVE  eventWeight(e) \in Nat
<1> DEFINE K == {i \in DOMAIN Events[e] : tagWeight(Events[e][i]) > 0}
<1>1. K \in SUBSET Nat
  BY CtiAssumption
<1>2. \A t : tagWeight(t) \in Nat
  <2> TAKE t
  <2>1. tagWeight(t) = IF t \in {"tlp:red", "apt"} THEN 4
                       ELSE IF t = "tlp:amber" THEN 3 ELSE IF t = "tlp:green" THEN 1 ELSE 0
    BY DEF tagWeight
  <2> QED
    BY <2>1
<1> HIDE DEF K
<1> QED
  BY <1>2 DEF eventWeight, K

\* What counting the pulses so many times adds up to.
Counts(c) == [p \in DOMAIN Pulses |-> c[p] * pulseWeight(p)]
Added(c) == SumOf(Counts(c), DOMAIN Pulses)

LEMMA AddedIsNat ==
    ASSUME NEW c \in [DOMAIN Pulses -> Nat]
    PROVE  Added(c) \in Nat
<1>1. \A p \in DOMAIN Pulses : Counts(c)[p] \in Nat
  BY PulseWeights DEF Counts
<1> QED
  BY <1>1, SumNat, CtiAssumption DEF Added

\* Counting each pulse of a set once more adds their weight.
LEMMA AddedOnce ==
    ASSUME NEW c \in [DOMAIN Pulses -> Nat], NEW S \in SUBSET DOMAIN Pulses,
           NEW d, d = [p \in DOMAIN Pulses |-> c[p] + (IF p \in S THEN 1 ELSE 0)]
    PROVE  /\ d \in [DOMAIN Pulses -> Nat]
           /\ Total(S, pulseWeight) \in Nat
           /\ Added(d) = Added(c) + Total(S, pulseWeight)
<1> DEFINE P == DOMAIN Pulses
           g == [p \in P |-> IF p \in S THEN pulseWeight(p) ELSE 0]
           w == [p \in S |-> pulseWeight(p)]
<1>1. IsFiniteSet(P) /\ IsFiniteSet(S)
  BY CtiAssumption, FS_Subset
<1>2. d \in [P -> Nat]
  OBVIOUS
<1>3. /\ \A p \in P : g[p] \in Nat
      /\ \A p \in S : w[p] \in Nat /\ w[p] = g[p]
      /\ \A p \in P \ S : g[p] = 0
  BY PulseWeights
<1>4. Total(S, pulseWeight) = SumOf(w, S)
  BY DEF Total
<1>5. \A p \in P : Counts(c)[p] \in Nat /\ Counts(d)[p] \in Nat /\ Counts(d)[p] = Counts(c)[p] + g[p]
  <2> TAKE p \in P
  <2>1. c[p] \in Nat /\ pulseWeight(p) \in Nat /\ d[p] = c[p] + (IF p \in S THEN 1 ELSE 0)
    BY PulseWeights
  <2>2. (c[p] + 1) * pulseWeight(p) = c[p] * pulseWeight(p) + pulseWeight(p)
    BY <2>1
  <2>3. c[p] * pulseWeight(p) \in Nat /\ (c[p] + 1) * pulseWeight(p) \in Nat
    BY <2>1
  <2>4. /\ g[p] = (IF p \in S THEN pulseWeight(p) ELSE 0)
        /\ Counts(c)[p] = c[p] * pulseWeight(p) /\ Counts(d)[p] = d[p] * pulseWeight(p)
    BY DEF Counts
  <2> HIDE DEF g, w
  <2> QED
    BY <2>1, <2>2, <2>3, <2>4
<1> HIDE DEF g, w, P
<1>6. SumOf(w, S) = SumOf(g, S) /\ SumOf(w, S) \in Nat
  <2>1. \A p \in S : w[p] \in Int /\ w[p] = g[p]
    BY <1>3
  <2>2. SumOf(w, S) = SumOf(g, S)
    BY <2>1, <1>1, SumSame
  <2>3. SumOf(w, S) \in Nat
    BY <1>1, <1>3, SumNat
  <2> QED
    BY <2>2, <2>3
<1>7. SumOf(g, S) = SumOf(g, P)
  BY <1>1, <1>3, SumPart DEF P
<1>8. SumOf(Counts(d), P) = SumOf(Counts(c), P) + SumOf(g, P)
  <2>1. \A p \in P : Counts(c)[p] \in Int /\ g[p] \in Int /\ Counts(d)[p] = Counts(c)[p] + g[p]
    BY <1>3, <1>5
  <2> QED
    BY <2>1, <1>1, SumPlus
<1> QED
  BY <1>2, <1>4, <1>6, <1>7, <1>8 DEF Added, P

\* The coefficient of a number of threats; more threats, no better coefficient.
LEMMA WorthOf ==
    ASSUME NEW n \in Nat
    PROVE  Worth(n) = IF n <= 20 THEN 100 - 2 * n ELSE 60
<1>1. CASE n <= 20
  <2>1. 100 - 2 * n \in {60, 100 - 2 * n} /\ \A y \in {60, 100 - 2 * n} : 100 - 2 * n >= y
    BY <1>1
  <2>2. \A x \in {60, 100 - 2 * n} : (\A y \in {60, 100 - 2 * n} : x >= y) => x = 100 - 2 * n
    BY <1>1
  <2>3. Worth(n) = CHOOSE x \in {60, 100 - 2 * n} : \A y \in {60, 100 - 2 * n} : x >= y
    BY DEF Worth, Max
  <2> QED
    BY <1>1, <2>1, <2>2, <2>3
<1>2. CASE n > 20
  <2>1. 60 \in {60, 100 - 2 * n} /\ \A y \in {60, 100 - 2 * n} : 60 >= y
    BY <1>2
  <2>2. \A x \in {60, 100 - 2 * n} : (\A y \in {60, 100 - 2 * n} : x >= y) => x = 60
    BY <1>2
  <2>3. Worth(n) = CHOOSE x \in {60, 100 - 2 * n} : \A y \in {60, 100 - 2 * n} : x >= y
    BY DEF Worth, Max
  <2> QED
    BY <1>2, <2>1, <2>2, <2>3
<1> QED
  BY <1>1, <1>2

LEMMA WorthFalls ==
    ASSUME NEW m \in Nat, NEW n \in Nat, m <= n
    PROVE  Worth(m) >= Worth(n) /\ Worth(m) \in Int /\ Worth(n) \in Int
<1>1. Worth(m) = (IF m <= 20 THEN 100 - 2 * m ELSE 60) /\ Worth(n) = (IF n <= 20 THEN 100 - 2 * n ELSE 60)
  BY WorthOf
<1> QED
  BY <1>1

\* Where the loop is, with what it carries.
UpdatingOK ==
    /\ updating.pc \in {"waiting", "otx", "otx answered", "misp", "add", "update", "ended"}
    /\ At("otx answered") => updating.page \in SUBSET DOMAIN Pulses
    /\ At("misp") \/ At("add") => updating.weight \in Nat
CtiTypes ==
    /\ clock \in Nat /\ lastPulse \in Nat /\ activeThreats \in Nat /\ told \in Nat
    /\ created \in [DOMAIN Pulses -> Nat] /\ modified \in [DOMAIN Pulses -> Nat]
    /\ changesOf \in [DOMAIN Pulses -> Nat] /\ counted \in [DOMAIN Pulses -> Nat]
    /\ mispIndex \in SUBSET DOMAIN Events
    /\ UpdatingOK

\* The weight that was fetched and not added yet.
underWay == IF At("misp") \/ At("add") THEN updating.weight ELSE 0

\* What has happened lies in the past.
MomentsPast ==
    /\ lastPulse < clock /\ lastUpdate \in Nat /\ lastUpdate <= clock
    /\ \A p \in DOMAIN Pulses : modified[p] < clock /\ created[p] <= modified[p]
\* A pulse that may be fetched was published or changed more often than it was counted, also
\* while its page is under way.
CountsLag ==
    /\ \A p \in DOMAIN Pulses : counted[p] <= changesOf[p]
    /\ \A p \in DOMAIN Pulses : created[p] > 0 /\ modified[p] >= lastPulse => counted[p] < changesOf[p]
    /\ At("otx answered") => \A p \in updating.page : created[p] > 0 /\ modified[p] >= lastPulse
\* The threats are what was told and counted, less what was cleared.
ThreatsAddUp == activeThreats + underWay <= told + Added(counted)
CoefficientFits ==
    /\ coefficient \in Int /\ coefficient >= Worth(told + Added(counted))
    /\ At("waiting") /\ lastUpdate = clock => coefficient = Worth(activeThreats)
\* What is recent and not in the page that is under way was left out or changed meanwhile.
PageComplete ==
    At("otx answered") =>
        \A p \in DOMAIN Pulses : created[p] > 0 /\ modified[p] >= lastPulse => p \in updating.page \cup excused
CtiInv ==
    /\ CtiTypes /\ MomentsPast /\ CountsLag
    /\ ThreatsAddUp /\ CoefficientFits
    /\ PageComplete /\ NoPulseOverlooked

\* Of the counts, only their sum matters to the coefficient, and it never falls.
LEMMA CtiInitInv == CtiInit => CtiInv
<1> SUFFICES ASSUME CtiInit PROVE CtiInv
  OBVIOUS
<1> USE DEF CtiInit
<1>1. CtiTypes /\ MomentsPast /\ CountsLag /\ PageComplete /\ NoPulseOverlooked
  BY DEF CtiTypes, UpdatingOK, MomentsPast, CountsLag, PageComplete, NoPulseOverlooked, At, Published
<1>2. Added(counted) \in Nat
  BY <1>1, AddedIsNat DEF CtiTypes
<1>3. ThreatsAddUp
  BY <1>2 DEF ThreatsAddUp, underWay, At
<1>4. CoefficientFits
  <2>1. \A n \in Nat : Worth(n) <= 100
    BY WorthOf
  <2> QED
    BY <1>2, <2>1 DEF CoefficientFits
<1> QED
  BY <1>1, <1>3, <1>4 DEF CtiInv

\* Every step of the feeds, with what it adds to the threats that were told.
LEMMA EventsWeigh ==
    ASSUME NEW S \in SUBSET DOMAIN Events
    PROVE  Total(S, eventWeight) \in Nat
<1> DEFINE w == [e \in S |-> eventWeight(e)]
<1>1. \A e \in S : w[e] \in Nat
  BY EventWeights
<1>2. IsFiniteSet(S)
  BY CtiAssumption, FS_Subset
<1>3. Total(S, eventWeight) = SumOf(w, S)
  BY DEF Total
<1> HIDE DEF w
<1> QED
  BY <1>1, <1>2, <1>3, SumNat

\* The part of the invariant that counts pulses, without their weights.
CountsInv == CtiTypes /\ MomentsPast /\ CountsLag /\ PageComplete /\ NoPulseOverlooked

\* Steps that fetch nothing and change no pulse.
PulsesSame ==
    created' = created /\ modified' = modified /\ changesOf' = changesOf /\ counted' = counted /\ lastPulse' = lastPulse
OthersTyped ==
    /\ mispIndex' \in SUBSET DOMAIN Events
    /\ activeThreats' \in Nat /\ told' \in Nat /\ UpdatingOK'
TimeGoesOn == clock' \in Nat /\ clock <= clock' /\ lastUpdate' \in Nat /\ lastUpdate' <= clock'
NoneForgotten == excused \subseteq excused' /\ (At("otx answered")' => At("otx answered") /\ updating' = updating)

LEMMA NothingFetched ==
    ASSUME CountsInv, PulsesSame, OthersTyped, TimeGoesOn, NoneForgotten
    PROVE  CountsInv'
<1> USE DEF CountsInv
<1>1. CtiTypes'
  BY DEF CtiTypes, PulsesSame, OthersTyped, TimeGoesOn
<1>2. MomentsPast'
  <2>1. created \in [DOMAIN Pulses -> Nat] /\ modified \in [DOMAIN Pulses -> Nat] /\ clock \in Nat /\ lastPulse \in Nat
    BY DEF CtiTypes
  <2> QED
    BY <2>1 DEF MomentsPast, PulsesSame, TimeGoesOn
<1>3. CountsLag'
  BY DEF CountsLag, PulsesSame, NoneForgotten
<1>4. PageComplete'
  BY DEF PageComplete, PulsesSame, NoneForgotten
<1>5. NoPulseOverlooked'
  BY DEF NoPulseOverlooked, Published, PulsesSame, NoneForgotten
<1> QED
  BY <1>1, <1>2, <1>3, <1>4, <1>5

LEMMA PulseChangesKeeps ==
    ASSUME CountsInv, NEW p \in DOMAIN Pulses, PulseChanges(p)
    PROVE  CountsInv'
<1> USE DEF CountsInv
<1>0. At("otx answered") => p \in excused'
  BY DEF PulseChanges, overtaken, At
<1>01. excused \subseteq excused'
  BY DEF PulseChanges, overtaken
<1>1. /\ clock \in Nat /\ clock' = clock + 1 /\ UNCHANGED mispIndex
      /\ lastPulse' = lastPulse /\ activeThreats' = activeThreats /\ lastUpdate' = lastUpdate
      /\ updating' = updating /\ counted' = counted /\ told' = told
  BY DEF PulseChanges, Moment, feedSame, CtiTypes
<1>2. /\ created \in [DOMAIN Pulses -> Nat] /\ modified \in [DOMAIN Pulses -> Nat]
      /\ changesOf \in [DOMAIN Pulses -> Nat] /\ counted \in [DOMAIN Pulses -> Nat] /\ lastPulse \in Nat
  BY DEF CtiTypes
<1>3. /\ created' = [created EXCEPT ![p] = IF created[p] = 0 THEN clock ELSE created[p]]
      /\ modified' = [modified EXCEPT ![p] = clock]
      /\ changesOf' = [changesOf EXCEPT ![p] = changesOf[p] + 1]
  BY DEF PulseChanges
<1>4. /\ created' \in [DOMAIN Pulses -> Nat] /\ modified' \in [DOMAIN Pulses -> Nat]
      /\ changesOf' \in [DOMAIN Pulses -> Nat]
      /\ created'[p] = (IF created[p] = 0 THEN clock ELSE created[p])
      /\ modified'[p] = clock /\ changesOf'[p] = changesOf[p] + 1
      /\ \A q \in DOMAIN Pulses : q # p => /\ created'[q] = created[q]
                                           /\ modified'[q] = modified[q] /\ changesOf'[q] = changesOf[q]
  <2>1. (IF created[p] = 0 THEN clock ELSE created[p]) \in Nat /\ changesOf[p] + 1 \in Nat
    BY <1>1, <1>2
  <2> QED
    BY <1>1, <1>2, <1>3, <2>1
<1>5. CtiTypes'
  <2>1. UpdatingOK'
    BY <1>1 DEF CtiTypes, UpdatingOK, At
  <2>2. /\ clock' \in Nat /\ lastPulse \in Nat /\ activeThreats \in Nat /\ told \in Nat
        /\ counted \in [DOMAIN Pulses -> Nat] /\ mispIndex \in SUBSET DOMAIN Events
    BY <1>1 DEF CtiTypes
  <2> QED
    BY <1>1, <1>4, <2>1, <2>2 DEF CtiTypes
<1>6. MomentsPast'
  BY <1>1, <1>2, <1>4 DEF MomentsPast
<1>7. CountsLag'
  <2>1. /\ \A q \in DOMAIN Pulses : counted[q] <= changesOf[q]
        /\ \A q \in DOMAIN Pulses : created[q] > 0 /\ modified[q] >= lastPulse => counted[q] < changesOf[q]
        /\ At("otx answered") => \A q \in updating.page : created[q] > 0 /\ modified[q] >= lastPulse
        /\ At("otx answered") => updating.page \in SUBSET DOMAIN Pulses
        /\ lastPulse < clock
        /\ \A q \in DOMAIN Pulses : modified[q] < clock
    BY DEF CountsLag, MomentsPast, CtiTypes, UpdatingOK
  <2>2. counted'[p] < changesOf'[p] /\ counted'[p] <= changesOf'[p]
    <3>1. counted[p] \in Nat /\ changesOf[p] \in Nat /\ counted'[p] = counted[p] /\ changesOf'[p] = changesOf[p] + 1
      BY <1>1, <1>2, <1>4
    <3>2. counted[p] <= changesOf[p]
      BY <2>1
    <3> QED
      BY <3>1, <3>2
  <2>3. \A q \in DOMAIN Pulses : counted'[q] <= changesOf'[q]
    BY <1>1, <1>4, <2>1, <2>2
  <2>4. created'[p] > 0 /\ modified'[p] >= lastPulse
    <3>0. lastPulse \in Nat /\ clock \in Nat /\ lastPulse < clock
      BY <1>1, <1>2, <2>1
    <3>1. clock > 0 /\ lastPulse <= clock
      BY <3>0
    <3>2. created[p] \in Nat
      BY <1>2
    <3> QED
      BY <1>4, <3>1, <3>2
  <2>5. \A q \in DOMAIN Pulses : created[q] > 0 /\ modified[q] >= lastPulse => created'[q] > 0 /\ modified'[q] >= lastPulse'
    BY <1>1, <1>4, <2>4
  <2>6. \A q \in DOMAIN Pulses : created'[q] > 0 /\ modified'[q] >= lastPulse' => counted'[q] < changesOf'[q]
    BY <1>1, <1>4, <2>1, <2>2
  <2>7. At("otx answered")' => \A q \in updating'.page : created'[q] > 0 /\ modified'[q] >= lastPulse'
    <3>1. At("otx answered")' => At("otx answered")
      BY <1>1 DEF At
    <3> QED
      BY <1>1, <2>1, <2>5, <3>1
  <2> QED
    BY <2>3, <2>6, <2>7 DEF CountsLag
<1>8. PageComplete'
  BY <1>0, <1>01, <1>1, <1>2, <1>4 DEF PageComplete, At
<1>9. NoPulseOverlooked'
  <2> SUFFICES ASSUME NEW q \in DOMAIN Pulses, created'[q] > 0, created'[q] < lastPulse, q \notin excused
               PROVE  counted[q] > 0
    BY <1>01, <1>1 DEF NoPulseOverlooked, Published
  <2>1. lastPulse < clock
    BY DEF MomentsPast
  <2>2. created[q] > 0 /\ created[q] < lastPulse
    BY <1>1, <1>2, <1>4, <2>1
  <2> QED
    BY <2>2 DEF NoPulseOverlooked, Published
<1> QED
  BY <1>5, <1>6, <1>7, <1>8, <1>9

LEMMA FetchKeeps ==
    ASSUME CountsInv, fetchOTXPulses
    PROVE  CountsInv'
<1> USE DEF CountsInv
<1> DEFINE S == {p \in updating.page : created[p] + Day >= clock}
<1>1. /\ At("otx answered") /\ updating.page \in SUBSET DOMAIN Pulses
      /\ S \in SUBSET updating.page
  BY DEF CtiTypes, UpdatingOK, fetchOTXPulses
<1>2. /\ counted' = [p \in DOMAIN Pulses |-> counted[p] + (IF p \in S THEN 1 ELSE 0)]
      /\ updating' = [pc |-> "misp", weight |-> Total(S, pulseWeight)]
      /\ excused' = excused \cup (updating.page \ S)
      /\ lastPulse' = clock /\ clock' = clock + 1 /\ UNCHANGED <<created, modified, mispIndex, changesOf>>
      /\ UNCHANGED <<activeThreats, lastUpdate, told>>
  BY DEF fetchOTXPulses, loopSame, feedVars, Moment
<1>3. /\ created \in [DOMAIN Pulses -> Nat] /\ modified \in [DOMAIN Pulses -> Nat]
      /\ changesOf \in [DOMAIN Pulses -> Nat] /\ counted \in [DOMAIN Pulses -> Nat] /\ lastPulse \in Nat
      /\ clock \in Nat
  BY DEF CtiTypes
<1> HIDE DEF S
<1>4. counted' \in [DOMAIN Pulses -> Nat] /\ Total(S, pulseWeight) \in Nat
  <2>1. S \in SUBSET DOMAIN Pulses
    BY <1>1
  <2> QED
    BY <1>2, <1>3, <2>1, AddedOnce
<1>5. \A p \in DOMAIN Pulses : counted'[p] = (IF p \in S THEN counted[p] + 1 ELSE counted[p])
  BY <1>2, <1>3
<1>6. CtiTypes'
  <2>1. UpdatingOK'
    BY <1>2, <1>4 DEF UpdatingOK, At
  <2> QED
    BY <1>2, <1>3, <1>4, <2>1 DEF CtiTypes
<1>7. MomentsPast'
  BY <1>2, <1>3 DEF MomentsPast
<1>8. CountsLag'
  <2>1. /\ \A q \in DOMAIN Pulses : counted[q] <= changesOf[q]
        /\ \A q \in DOMAIN Pulses : created[q] > 0 /\ modified[q] >= lastPulse => counted[q] < changesOf[q]
        /\ \A q \in updating.page : created[q] > 0 /\ modified[q] >= lastPulse
        /\ \A q \in DOMAIN Pulses : modified[q] < clock
    BY <1>1 DEF CountsLag, MomentsPast
  <2>2. \A q \in DOMAIN Pulses : counted'[q] <= changesOf[q]
    <3> SUFFICES ASSUME NEW q \in DOMAIN Pulses PROVE counted'[q] <= changesOf[q]
      OBVIOUS
    <3>1. counted[q] \in Nat /\ changesOf[q] \in Nat /\ counted[q] <= changesOf[q]
      BY <1>3, <2>1
    <3>2. q \in S => counted[q] < changesOf[q]
      BY <1>1, <2>1
    <3> QED
      BY <1>5, <3>1, <3>2
  <2>3. \A q \in DOMAIN Pulses : ~(modified'[q] >= lastPulse')
    BY <1>2, <1>3, <2>1
  <2>4. ~At("otx answered")'
    BY <1>2 DEF At
  <2> QED
    BY <1>2, <2>2, <2>3, <2>4 DEF CountsLag
<1>9. PageComplete'
  BY <1>2 DEF PageComplete, At
<1>10. NoPulseOverlooked'
  <2> SUFFICES ASSUME NEW p \in DOMAIN Pulses, created[p] > 0, p \notin excused' PROVE counted'[p] > 0
    BY <1>2 DEF NoPulseOverlooked, Published
  <2>1. p \in S => counted'[p] > 0
    BY <1>3, <1>5
  <2>2. p \in updating.page => p \in S
    BY <1>2
  <2>3. modified[p] >= lastPulse => p \in updating.page
    BY <1>1, <1>2 DEF PageComplete
  <2>4. created[p] <= modified[p]
    BY DEF MomentsPast
  <2>5. ~(modified[p] >= lastPulse) => created[p] < lastPulse
    BY <1>3, <2>4
  <2>6. created[p] < lastPulse => counted[p] > 0
    BY <1>2 DEF NoPulseOverlooked, Published
  <2> QED
    BY <1>3, <1>5, <2>1, <2>2, <2>3, <2>5, <2>6
<1> QED
  BY <1>6, <1>7, <1>8, <1>9, <1>10

LEMMA OtxAnswersKeeps ==
    ASSUME CountsInv, OtxAnswers
    PROVE  CountsInv'
<1> USE DEF CountsInv
<1>1. PICK page \in SUBSET recent : /\ updating' = [pc |-> "otx answered", page |-> page]
                                    /\ excused' = excused \cup (recent \ page)
  BY DEF OtxAnswers
<1>2. page \in SUBSET DOMAIN Pulses /\ \A p \in page : created[p] > 0 /\ modified[p] >= lastPulse
  BY DEF recent, Published
<1>3. \A p \in DOMAIN Pulses : created[p] > 0 /\ modified[p] >= lastPulse => p \in page \cup excused'
  BY <1>1 DEF recent, Published
<1>4. excused \subseteq excused'
  BY <1>1
<1>5. /\ clock \in Nat /\ clock' = clock + 1 /\ PulsesSame
      /\ UNCHANGED mispIndex /\ activeThreats' = activeThreats /\ lastUpdate' = lastUpdate /\ told' = told
  BY DEF OtxAnswers, Moment, loopSame, feedVars, CtiTypes, PulsesSame
<1>6. At("otx answered")' /\ updating'.page = page
  BY <1>1 DEF At
<1>7. CtiTypes'
  <2>1. UpdatingOK'
    BY <1>1, <1>2 DEF UpdatingOK, At
  <2> QED
    BY <1>5, <2>1 DEF CtiTypes, PulsesSame
<1>8. MomentsPast'
  <2>1. created \in [DOMAIN Pulses -> Nat] /\ modified \in [DOMAIN Pulses -> Nat] /\ lastPulse \in Nat
    BY DEF CtiTypes
  <2> QED
    BY <1>5, <2>1 DEF MomentsPast, PulsesSame
<1>9. CountsLag'
  BY <1>2, <1>5, <1>6 DEF CountsLag, PulsesSame
<1>10. PageComplete'
  BY <1>3, <1>5, <1>6 DEF PageComplete, PulsesSame
<1>11. NoPulseOverlooked'
  BY <1>4, <1>5 DEF NoPulseOverlooked, Published, PulsesSame
<1> QED
  BY <1>7, <1>8, <1>9, <1>10, <1>11

\* Steps the loop and the answers have no part in.
LEMMA LoopNotMoved ==
    ASSUME CountsInv, PulsesSame, TimeGoesOn, updating' = updating, excused' = excused,
           mispIndex' \in SUBSET DOMAIN Events, activeThreats' \in Nat, told' \in Nat
    PROVE  CountsInv'
<1>1. UpdatingOK' /\ (At("otx answered")' => At("otx answered"))
  BY DEF CountsInv, CtiTypes, UpdatingOK, At
<1>2. OthersTyped
  BY <1>1 DEF OthersTyped
<1>3. NoneForgotten
  BY <1>1 DEF NoneForgotten
<1> QED
  BY <1>2, <1>3, NothingFetched

LEMMA CountsKept ==
    ASSUME CountsInv, [CtiNext]_ctiVars
    PROVE  CountsInv'
<1>0. /\ clock \in Nat /\ activeThreats \in Nat /\ told \in Nat /\ lastUpdate \in Nat /\ lastUpdate <= clock
      /\ mispIndex \in SUBSET DOMAIN Events /\ UpdatingOK
  BY DEF CountsInv, CtiTypes, MomentsPast
<1> USE DEF Moment, loopSame, feedSame, feedVars, PulsesSame, OthersTyped, TimeGoesOn, NoneForgotten
<1>1. ASSUME NEW p \in DOMAIN Pulses, PulseChanges(p) PROVE CountsInv'
  BY <1>1, PulseChangesKeeps
<1>2. ASSUME NEW e \in DOMAIN Events, EventAppears(e) PROVE CountsInv'
  BY <1>0, <1>2, LoopNotMoved DEF EventAppears
<1>3. CASE UpdateDue
  BY <1>0, <1>3, NothingFetched DEF UpdateDue, At, UpdatingOK
<1>4. CASE LoopEnds
  BY <1>0, <1>4, NothingFetched DEF LoopEnds, At, UpdatingOK
<1>5. CASE OtxAnswers
  BY <1>5, OtxAnswersKeeps
<1>6. CASE OtxFails
  BY <1>0, <1>6, NothingFetched DEF OtxFails, At, UpdatingOK
<1>7. CASE fetchOTXPulses
  BY <1>7, FetchKeeps
<1>8. ASSUME NEW answered \in BOOLEAN, fetchMISPEvents(answered) PROVE CountsInv'
  <2> DEFINE w == IF MispOn /\ answered THEN Total(mispIndex, eventWeight) ELSE 0
  <2>1. w \in Nat
    BY <1>0, EventsWeigh
  <2>2. /\ updating' = [pc |-> "add", weight |-> updating.weight + w] /\ told' = told + w
        /\ updating.weight \in Nat
    BY <1>0, <1>8 DEF fetchMISPEvents, At, UpdatingOK
  <2> HIDE DEF w
  <2> QED
    BY <1>0, <1>8, <2>1, <2>2, NothingFetched DEF fetchMISPEvents, At, UpdatingOK
<1>9. CASE updateFromFeeds
  BY <1>0, <1>9, NothingFetched DEF updateFromFeeds, At, UpdatingOK
<1>10. CASE updateCoefficient
  BY <1>0, <1>10, NothingFetched DEF updateCoefficient, At, UpdatingOK
<1>11. ASSUME NEW s \in {"critical", "low"}, ReportThreat(s) PROVE CountsInv'
  <2>1. threatWeight(s) \in Nat
    BY DEF threatWeight
  <2> QED
    BY <1>0, <1>11, <2>1, LoopNotMoved DEF ReportThreat
<1>12. CASE ClearThreat
  BY <1>0, <1>12, LoopNotMoved DEF ClearThreat
<1>13. CASE CtiStop
  BY <1>0, <1>13, LoopNotMoved DEF CtiStop
<1>14. CASE UNCHANGED ctiVars
  BY <1>0, <1>14, LoopNotMoved DEF ctiVars
<1> QED
  BY <1>1, <1>2, <1>3, <1>4, <1>5, <1>6, <1>7, <1>8, <1>9, <1>10, <1>11, <1>12, <1>13, <1>14 DEF CtiNext
\* The part that weighs them.
LEMMA WeightsKept ==
    ASSUME CtiInv, [CtiNext]_ctiVars
    PROVE  ThreatsAddUp' /\ CoefficientFits'
<1> DEFINE a == told + Added(counted)
           b == told' + Added(counted')
<1>1. CountsInv /\ ThreatsAddUp /\ CoefficientFits
  BY DEF CtiInv, CountsInv
<1>2. CountsInv'
  BY <1>1, CountsKept
<1>3. a \in Nat /\ b \in Nat /\ Added(counted) \in Nat /\ Added(counted') \in Nat
  <2>1. told \in Nat /\ counted \in [DOMAIN Pulses -> Nat]
    BY <1>1 DEF CountsInv, CtiTypes
  <2>2. told' \in Nat /\ counted' \in [DOMAIN Pulses -> Nat]
    BY <1>2 DEF CountsInv, CtiTypes
  <2> QED
    BY <2>1, <2>2, AddedIsNat
<1>4. /\ activeThreats \in Nat /\ activeThreats' \in Nat /\ clock \in Nat /\ lastUpdate \in Nat
      /\ lastUpdate <= clock
      /\ underWay \in Nat /\ underWay' \in Nat /\ told \in Nat
  <2>1. UpdatingOK /\ UpdatingOK'
    BY <1>1, <1>2 DEF CountsInv, CtiTypes
  <2>2. underWay \in Nat
    BY <2>1 DEF UpdatingOK, underWay
  <2>3. underWay' \in Nat
    BY <2>1 DEF UpdatingOK, underWay
  <2> QED
    BY <1>1, <1>2, <2>2, <2>3 DEF CountsInv, CtiTypes, MomentsPast
<1>5. activeThreats + underWay <= a
  BY <1>1 DEF ThreatsAddUp
<1>6. coefficient >= Worth(a) /\ (At("waiting") /\ lastUpdate = clock => coefficient = Worth(activeThreats))
  BY <1>1 DEF CoefficientFits
\* Steps that leave the coefficient alone.
<1>7. ASSUME activeThreats' + underWay' <= b, a <= b, coefficient' = coefficient,
             At("waiting")' /\ lastUpdate' = clock' => At("waiting") /\ lastUpdate = clock /\ activeThreats' = activeThreats
      PROVE  ThreatsAddUp' /\ CoefficientFits'
  <2>1. Worth(a) >= Worth(b) /\ Worth(a) \in Int /\ Worth(b) \in Int
    BY <1>3, <1>7, WorthFalls
  <2>2. coefficient >= Worth(b)
    <3>1. coefficient \in Int
      BY <1>1 DEF CoefficientFits
    <3> QED
      BY <2>1, <1>6, <3>1
  <2>3. (At("waiting") /\ lastUpdate = clock)' => coefficient' = Worth(activeThreats)'
    BY <1>6, <1>7 DEF Worth
  <2>4. coefficient' \in Int /\ coefficient' >= Worth(told' + Added(counted'))
    BY <1>1, <1>7, <2>2 DEF CoefficientFits
  <2>5. Added(counted)' = Added(counted')
    BY DEF Added, Counts
  <2>6. Worth(told + Added(counted))' = Worth(told' + Added(counted'))
    BY <2>5 DEF Worth
  <2>7. CoefficientFits'
    BY <2>3, <2>4, <2>6 DEF CoefficientFits
  <2>8. ThreatsAddUp'
    BY <1>7, <2>5 DEF ThreatsAddUp
  <2> QED
    BY <2>7, <2>8
\* What a pulse, an event or the loop does elsewhere: time goes on, or nothing has changed.
<1>8. ASSUME activeThreats' = activeThreats, told' = told, counted' = counted, coefficient' = coefficient,
             underWay' = underWay, lastUpdate' = lastUpdate,
             At("waiting")' => clock' = clock + 1 \/ (clock' = clock /\ At("waiting"))
      PROVE  ThreatsAddUp' /\ CoefficientFits'
  BY <1>3, <1>4, <1>5, <1>7, <1>8
<1> HIDE DEF a, b
<1> USE DEF Moment, loopSame, feedSame, feedVars
<1>11. ASSUME NEW p \in DOMAIN Pulses, PulseChanges(p) PROVE ThreatsAddUp' /\ CoefficientFits'
  BY <1>8, <1>11 DEF PulseChanges, underWay, At
<1>12. ASSUME NEW e \in DOMAIN Events, EventAppears(e) PROVE ThreatsAddUp' /\ CoefficientFits'
  BY <1>8, <1>12 DEF EventAppears, underWay, At
<1>13. CASE UpdateDue
  <2>1. underWay' = 0 /\ underWay = 0
    BY <1>13 DEF UpdateDue, underWay, At
  <2> QED
    BY <1>8, <1>13, <2>1 DEF UpdateDue, At
<1>14. CASE LoopEnds
  BY <1>8, <1>14 DEF LoopEnds, underWay, At
<1>15. CASE OtxAnswers
  <2>1. /\ At("otx") /\ updating'.pc = "otx answered" /\ UNCHANGED <<activeThreats, coefficient, lastUpdate, counted, told>>
    <3>1. PICK page \in SUBSET recent : updating' = [pc |-> "otx answered", page |-> page]
      BY <1>15 DEF OtxAnswers
    <3> HIDE <1>15
    <3>2. updating'.pc = "otx answered"
      BY ONLY <3>1
    <3> QED
      BY <1>15, <3>2 DEF OtxAnswers
  <2> QED
    BY <1>8, <2>1 DEF underWay, At
<1>16. CASE OtxFails
  BY <1>8, <1>16 DEF OtxFails, underWay, At
<1>17. CASE fetchOTXPulses
  <2> DEFINE S == {p \in updating.page : created[p] + Day >= clock}
  <2>1. /\ At("otx answered") /\ S \in SUBSET DOMAIN Pulses /\ counted \in [DOMAIN Pulses -> Nat]
        /\ counted' = [p \in DOMAIN Pulses |-> counted[p] + (IF p \in S THEN 1 ELSE 0)]
        /\ updating' = [pc |-> "misp", weight |-> Total(S, pulseWeight)]
        /\ activeThreats' = activeThreats /\ told' = told /\ coefficient' = coefficient
    BY <1>1, <1>17 DEF fetchOTXPulses, CountsInv, CtiTypes, UpdatingOK
  <2> HIDE DEF S
  <2>2. Total(S, pulseWeight) \in Nat /\ Added(counted') = Added(counted) + Total(S, pulseWeight)
    BY <2>1, AddedOnce
  <2>3. underWay' = Total(S, pulseWeight) /\ underWay = 0 /\ ~At("waiting")'
    BY <2>1 DEF underWay, At
  <2>4. activeThreats' + underWay' <= b /\ a <= b
    <3>0. activeThreats' = activeThreats /\ told' = told
      BY <2>1
    <3>1. b = a + Total(S, pulseWeight)
      BY <1>3, <1>4, <3>0, <2>2 DEF a, b
    <3> QED
      BY <1>3, <1>4, <1>5, <2>2, <2>3, <3>0, <3>1
  <2> QED
    BY <1>7, <2>1, <2>3, <2>4
<1>18. ASSUME NEW answered \in BOOLEAN, fetchMISPEvents(answered) PROVE ThreatsAddUp' /\ CoefficientFits'
  <2> DEFINE w == IF MispOn /\ answered THEN Total(mispIndex, eventWeight) ELSE 0
  <2>1. w \in Nat
    BY <1>1, EventsWeigh DEF CountsInv, CtiTypes
  <2>2. /\ updating' = [pc |-> "add", weight |-> updating.weight + w] /\ told' = told + w
        /\ At("misp") /\ activeThreats' = activeThreats /\ counted' = counted /\ coefficient' = coefficient
    BY <1>18 DEF fetchMISPEvents
  <2> HIDE DEF w
  <2>3. underWay' = underWay + w /\ ~At("waiting")'
    BY <2>2 DEF underWay, At
  <2>4. activeThreats' + underWay' <= b /\ a <= b
    <3>1. b = a + w
      BY <1>3, <1>4, <2>1, <2>2 DEF a, b
    <3> QED
      BY <1>3, <1>4, <1>5, <2>1, <2>2, <2>3, <3>1
  <2> QED
    BY <1>7, <2>2, <2>3, <2>4
<1>19. CASE updateFromFeeds
  <2>1. /\ At("add") /\ updating' = [pc |-> "update"] /\ activeThreats' = activeThreats + updating.weight
        /\ told' = told /\ counted' = counted /\ coefficient' = coefficient
    BY <1>19 DEF updateFromFeeds
  <2>2. underWay = updating.weight /\ underWay' = 0 /\ ~At("waiting")'
    BY <2>1 DEF underWay, At
  <2>3. activeThreats' + underWay' <= b /\ a <= b
    BY <1>3, <1>4, <1>5, <2>1, <2>2 DEF a, b
  <2> QED
    BY <1>7, <2>1, <2>2, <2>3
<1>20. CASE updateCoefficient
  <2>1. /\ At("update") /\ updating' = [pc |-> "waiting"] /\ coefficient' = Worth(activeThreats)
        /\ activeThreats' = activeThreats /\ told' = told /\ counted' = counted
    BY <1>20 DEF updateCoefficient
  <2>2. underWay = 0 /\ underWay' = 0
    BY <2>1 DEF underWay, At
  <2>3. a = b /\ activeThreats <= b
    BY <1>3, <1>4, <1>5, <2>1, <2>2 DEF a, b
  <2>4. Worth(activeThreats) >= Worth(b) /\ Worth(activeThreats) \in Int
    BY <1>3, <1>4, <2>3, WorthFalls
  <2>5. Worth(activeThreats)' = Worth(activeThreats)
    BY <2>1 DEF Worth
  <2> QED
    BY <1>3, <1>4, <2>1, <2>2, <2>3, <2>4, <2>5 DEF ThreatsAddUp, CoefficientFits, a, b
<1>21. ASSUME NEW s \in {"critical", "low"}, ReportThreat(s) PROVE ThreatsAddUp' /\ CoefficientFits'
  <2>1. threatWeight(s) \in Nat
    BY DEF threatWeight
  <2>2. /\ activeThreats' = activeThreats + threatWeight(s) /\ told' = told + threatWeight(s)
        /\ clock' = clock + 1 /\ lastUpdate' = lastUpdate /\ updating' = updating /\ counted' = counted
        /\ coefficient' = coefficient
    BY <1>21 DEF ReportThreat
  <2>3. underWay' = underWay /\ ~(lastUpdate' = clock')
    BY <1>4, <2>2 DEF underWay, At
  <2>4. activeThreats' + underWay' <= b /\ a <= b
    <3>1. b = a + threatWeight(s)
      BY <1>3, <1>4, <2>1, <2>2 DEF a, b
    <3> QED
      BY <1>3, <1>4, <1>5, <2>1, <2>2, <2>3, <3>1
  <2> QED
    BY <1>7, <2>2, <2>3, <2>4
<1>22. CASE ClearThreat
  <2>1. /\ activeThreats' = activeThreats - 1 /\ told' = told
        /\ clock' = clock + 1 /\ lastUpdate' = lastUpdate /\ updating' = updating /\ counted' = counted
        /\ coefficient' = coefficient
    BY <1>22 DEF ClearThreat
  <2>2. underWay' = underWay /\ ~(lastUpdate' = clock')
    BY <1>4, <2>1 DEF underWay, At
  <2>3. activeThreats' + underWay' <= b /\ a <= b
    BY <1>3, <1>4, <1>5, <2>1, <2>2 DEF a, b
  <2> QED
    BY <1>7, <2>1, <2>2, <2>3
<1>23. CASE CtiStop
  BY <1>8, <1>23 DEF CtiStop, underWay, At
<1>24. CASE UNCHANGED ctiVars
  BY <1>8, <1>24 DEF ctiVars, underWay, At
<1> QED
  BY <1>11, <1>12, <1>13, <1>14, <1>15, <1>16, <1>17, <1>18, <1>19, <1>20, <1>21, <1>22, <1>23, <1>24 DEF CtiNext

LEMMA CtiSoundOf == CtiInv => CtiSound
<1> SUFFICES ASSUME CtiInv PROVE CtiSound
  OBVIOUS
<1>1. Total(DOMAIN Pulses, LAMBDA p : counted[p] * pulseWeight(p)) = Added(counted)
  BY DEF Total, Added, Counts
<1> QED
  BY <1>1 DEF CtiInv, CountsLag, CoefficientFits, CtiSound, NoThreatCountedTwice

\* The threats of the feeds count once each and none is overlooked.
THEOREM FeedsAreSound == CtiSpec => []CtiSound
<1>1. CtiInv /\ [CtiNext]_ctiVars => CtiInv'
  <2>1. CtiInv => CountsInv
    BY DEF CtiInv, CountsInv
  <2>2. CountsInv' /\ ThreatsAddUp' /\ CoefficientFits' => CtiInv'
    BY DEF CtiInv, CountsInv
  <2> QED
    BY <2>1, <2>2, CountsKept, WeightsKept
<1> QED
  BY <1>1, CtiInitInv, CtiSoundOf, PTL DEF CtiSpec

-----------------------------------------------------------------------------
(* The records of the analysis. *)

CatalogueOK(cat) == IsFiniteSet(DOMAIN cat) /\ \A k \in DOMAIN cat : cat[k].checks \subseteq MappedChecks

\* The newest of a list and one more come from them.
ComesFrom(r, q, x) == \A i \in DOMAIN r : r[i] = x \/ \E j \in DOMAIN q : r[i] = q[j]

LEMMA LastOf ==
    ASSUME NEW D, NEW q \in Seq(D), NEW x \in D, NEW n \in Nat
    PROVE  KeepLast(Append(q, x), n) \in Seq(D) /\ ComesFrom(KeepLast(Append(q, x), n), q, x)
<1> DEFINE a == Append(q, x)
           r == KeepLast(a, n)
           m == IF Len(a) > n THEN Len(a) - n ELSE 0
<1>1. /\ a \in Seq(D) /\ Len(a) = Len(q) + 1 /\ Len(q) \in Nat
      /\ \A i \in 1 .. Len(a) : a[i] = x \/ \E j \in DOMAIN q : a[i] = q[j]
  OBVIOUS
<1> HIDE DEF a
<1>2. m \in Nat /\ m <= Len(a)
  BY <1>1
<1>3. CASE Len(a) > n
  <2>1. r = SubSeq(a, m + 1, Len(a))
    BY <1>3 DEF KeepLast
  <2> HIDE DEF r, m
  <2>2. /\ r \in Seq(D) /\ Len(r) = Len(a) - m
        /\ \A k \in 1 .. Len(a) - m : r[k] = a[k + m]
    BY <1>1, <1>2, <2>1, Dropped
  <2>3. \A k \in DOMAIN r : k + m \in 1 .. Len(a) /\ r[k] = a[k + m]
    BY <1>1, <1>2, <2>2
  <2> QED
    BY <1>1, <2>2, <2>3 DEF r, a, ComesFrom
<1>4. CASE ~(Len(a) > n)
  <2>1. r = a
    BY <1>4 DEF KeepLast
  <2> QED
    BY <1>1, <2>1 DEF r, a, ComesFrom
<1> QED
  BY <1>3, <1>4

\* What failed is a blind spot of the tactic it belongs to.
LEMMA FailedAreBlind ==
    ASSUME NEW cat, NEW res
    PROVE  extractFailedTechniques(cat, res)
             \subseteq UNION {calculateCoverageLocked(cat, res)[t].blind : t \in DOMAIN calculateCoverageLocked(cat, res)}
<1> DEFINE cov == calculateCoverageLocked(cat, res)
<1> SUFFICES ASSUME NEW k \in DOMAIN cat, failsIn(cat[k], res)
             PROVE  \E t \in DOMAIN cov : k[2] \in cov[t].blind
  BY DEF extractFailedTechniques
<1>1. k[1] \in DOMAIN cov
  BY DEF calculateCoverageLocked
<1>2. cov[k[1]].blind = {j[2] : j \in entries(cat, k[1]) \ {j \in entries(cat, k[1]) : cat[j].det /\ ~failsIn(cat[j], res)}}
  BY <1>1 DEF calculateCoverageLocked
<1>3. k \in entries(cat, k[1]) \ {j \in entries(cat, k[1]) : cat[j].det /\ ~failsIn(cat[j], res)}
  BY DEF entries
<1> HIDE DEF cov
<1> QED
  BY <1>1, <1>2, <1>3

\* The share that p of n make in hundredths.
LEMMA ShareOf ==
    ASSUME NEW n \in Nat, n # 0, NEW p \in 0 .. n
    PROVE  (100 * p) \div n \in 0 .. 100
<1>1. n - p \in 0 .. n /\ n - (n - p) = p
  OBVIOUS
<1>2. (100 * (n - (n - p))) \div n \in 0 .. 100
  BY <1>1, Share
<1> QED
  BY <1>1, <1>2

\* What a function makes of a finite set.
Named(f, S) == {f[x] : x \in S}

LEMMA NamedFinite ==
    ASSUME NEW S, IsFiniteSet(S), NEW f
    PROVE  IsFiniteSet(Named(f, S)) /\ Cardinality(Named(f, S)) <= Cardinality(S)
<1> DEFINE g == [x \in S |-> f[x]]
<1>1. g \in Surjection(S, Named(f, S))
  BY DEF Surjection, Named
<1> HIDE DEF g
<1> QED
  BY <1>1, FS_Surjection

\* The part of the catalogue that a stage of the kill chain looks at.
Mine(cat, stage) == {k \in DOMAIN cat : k[1] \in KillStages[stage]}
Checked(cat, stage) == [k \in Mine(cat, stage) |-> Cardinality(cat[k].checks)]
Passed(cat, res, stage) == [k \in Mine(cat, stage) |-> Cardinality({c \in cat[k].checks : res[c] = "pass"})]

LEMMA StageScores ==
    ASSUME NEW cat, CatalogueOK(cat), NEW res, NEW stage
    PROVE  /\ stageScore(cat, res, stage) \in 0 .. 100
           /\ IsFiniteSet(Mine(cat, stage))
           /\ \A k \in Mine(cat, stage) : /\ IsFiniteSet(cat[k].checks)
                                          /\ Checked(cat, stage)[k] \in Nat /\ Passed(cat, res, stage)[k] \in Nat
                                          /\ Passed(cat, res, stage)[k] <= Checked(cat, stage)[k]
           /\ SumOf(Checked(cat, stage), Mine(cat, stage)) \in Nat
           /\ SumOf(Passed(cat, res, stage), Mine(cat, stage)) \in 0 .. SumOf(Checked(cat, stage), Mine(cat, stage))
           /\ stageScore(cat, res, stage) =
                 IF SumOf(Checked(cat, stage), Mine(cat, stage)) = 0 THEN 100
                 ELSE (100 * SumOf(Passed(cat, res, stage), Mine(cat, stage)))
                         \div SumOf(Checked(cat, stage), Mine(cat, stage))
<1> DEFINE M == Mine(cat, stage)
           f == Checked(cat, stage)
           g == Passed(cat, res, stage)
<1>1. IsFiniteSet(M)
  BY FS_Subset DEF CatalogueOK, Mine
<1>2. \A k \in M : IsFiniteSet(cat[k].checks) /\ f[k] \in Nat /\ g[k] \in Nat /\ g[k] <= f[k]
  <2> TAKE k \in M
  <2>1. cat[k].checks \subseteq MappedChecks
    BY DEF CatalogueOK, Mine
  <2>2. IsFiniteSet(cat[k].checks)
    BY <2>1, FS_Subset, PipelineAssumption
  <2>3. {c \in cat[k].checks : res[c] = "pass"} \subseteq cat[k].checks
    OBVIOUS
  <2>4. /\ Cardinality({c \in cat[k].checks : res[c] = "pass"}) <= Cardinality(cat[k].checks)
        /\ IsFiniteSet({c \in cat[k].checks : res[c] = "pass"})
    BY <2>2, <2>3, FS_Subset
  <2> QED
    BY <2>2, <2>4, FS_CardinalityType DEF Checked, Passed
<1>3. SumOf(f, M) \in Nat /\ SumOf(g, M) \in Nat
  BY <1>1, <1>2, SumNat
<1>4. SumOf(g, M) <= SumOf(f, M)
  <2>1. \A k \in M : g[k] \in Int /\ f[k] \in Int /\ g[k] <= f[k]
    BY <1>2
  <2> HIDE DEF f, g, M
  <2> QED
    BY <1>1, <2>1, SumCompare
<1>5. stageScore(cat, res, stage) = IF SumOf(f, M) = 0 THEN 100 ELSE (100 * SumOf(g, M)) \div SumOf(f, M)
  BY DEF stageScore, Total, Mine, Checked, Passed
<1>6. stageScore(cat, res, stage) \in 0 .. 100
  <2> HIDE DEF f, g, M
  <2>1. CASE SumOf(f, M) = 0
    BY <1>5, <2>1
  <2>2. CASE SumOf(f, M) # 0
    <3>1. SumOf(g, M) \in 0 .. SumOf(f, M)
      BY <1>3, <1>4
    <3> QED
      BY <1>3, <1>5, <2>2, <3>1, ShareOf
  <2> QED
    BY <2>1, <2>2
<1> QED
  BY <1>1, <1>2, <1>3, <1>4, <1>5, <1>6

\* A stage is the weakest only when one is weak.
KillOK(kill) == kill.overall = 100 <=> kill.weakest = {}

LEMMA KillSound ==
    ASSUME NEW cat, CatalogueOK(cat), NEW res
    PROVE  KillOK(assessKillChainLocked(cat, res))
<1> DEFINE S == DOMAIN KillStages
           score == [s \in S |-> stageScore(cat, res, s)]
           n == Cardinality(S)
           sum == SumOf(score, S)
<1>1. IsFiniteSet(S) /\ S # {} /\ n \in Nat /\ n # 0
  BY PipelineAssumption, FS_CardinalityType, FS_EmptySet
<1>2. \A s \in S : score[s] \in 0 .. 100
  BY StageScores
<1>3. DOMAIN score = S
  OBVIOUS
<1>4. /\ assessKillChainLocked(cat, res).overall = sum \div n
      /\ assessKillChainLocked(cat, res).weakest = {s \in S : score[s] < 100 /\ \A o \in S : score[s] <= score[o]}
  BY DEF assessKillChainLocked, Total
<1> HIDE DEF score, S, n
<1>5. sum \in 0 .. 100 * n /\ (sum = 100 * n <=> \A s \in S : score[s] = 100)
  BY <1>1, <1>2, SumOfMarks DEF n
<1>6. sum \div n = 100 <=> sum = 100 * n
  <2> HIDE DEF sum
  <2>1. sum \in Int /\ n \in Int /\ n > 0 /\ sum <= 100 * n
    BY <1>1, <1>5
  <2>2. n * (sum \div n) <= sum /\ sum < n * (sum \div n) + n /\ sum \div n \in Int
    BY <2>1
  <2>3. sum \div n = 100 => sum = 100 * n
    BY <2>1, <2>2
  <2>4. sum = 100 * n => sum \div n = 100
    BY <2>1
  <2> QED
    BY <2>3, <2>4
<1>7. {s \in S : score[s] < 100 /\ \A o \in S : score[s] <= score[o]} = {} <=> \A s \in S : score[s] = 100
  <2>1. ASSUME NEW s \in S, score[s] # 100
        PROVE  \E w \in S : score[w] < 100 /\ \A o \in S : score[w] <= score[o]
    <3> DEFINE T == {score[o] : o \in S}
    <3>1. T \in SUBSET Nat /\ T # {}
      BY <1>1, <1>2
    <3>2. PICK m \in T : \A o \in T : m <= o
      <4> HIDE DEF T
      <4> QED
        BY <3>1, Least
    <3>3. PICK w \in S : score[w] = m
      OBVIOUS
    <3>4. \A o \in S : score[w] <= score[o]
      BY <3>2, <3>3
    <3>5. score[w] <= score[s] /\ score[s] < 100
      BY <1>2, <2>1, <3>4
    <3> QED
      BY <1>2, <3>4, <3>5
  <2> QED
    BY <1>2, <2>1
<1> QED
  BY <1>4, <1>5, <1>6, <1>7 DEF KillOK

LEMMA LargestIs ==
    ASSUME NEW S, NEW w \in S, \A n \in S : n <= w
    PROVE  Largest(S) \in S /\ \A m \in S : m <= Largest(S)
  BY DEF Largest

\* A bounded set of numbers has a largest one.
LEMMA LargestOf ==
    ASSUME NEW S \in SUBSET (0 .. 1000), S # {}
    PROVE  Largest(S) \in S /\ \A m \in S : m <= Largest(S)
<1> DEFINE T == {d \in Nat : \E m \in S : d + m = 1000}
<1>1. T # {}
  <2>1. PICK m : m \in S
    OBVIOUS
  <2>2. PICK d \in Nat : d + m = 1000
    <3>1. m \in Int /\ m <= 1000
      BY <2>1
    <3>2. 1000 - m \in Nat /\ (1000 - m) + m = 1000
      BY <3>1
    <3> QED
      BY <3>2
  <2>3. d \in T
    BY <2>1, <2>2
  <2> HIDE DEF T
  <2> QED
    BY <2>3
<1>2. PICK d \in T : \A e \in T : d <= e
  <2>1. T \in SUBSET Nat
    OBVIOUS
  <2> HIDE DEF T
  <2> QED
    BY <1>1, <2>1, Least
<1>3. PICK w \in S : d + w = 1000 /\ d \in Nat
  BY <1>2
<1>4. ASSUME NEW m \in S PROVE m <= w
  <2>1. m \in 0 .. 1000 /\ w \in 0 .. 1000
    OBVIOUS
  <2>2. PICK e \in Nat : e + m = 1000
    <3>1. 1000 - m \in Nat /\ (1000 - m) + m = 1000
      BY <2>1
    <3> QED
      BY <3>1
  <2>3. e \in T
    BY <2>2
  <2>4. d <= e
    BY <1>2, <2>3
  <2> QED
    BY <1>3, <2>1, <2>2, <2>4
<1>5. \A n \in S : n <= w
  BY <1>4
<1> HIDE DEF T
<1> QED
  BY <1>5, LargestIs

\* The probability of two steps in a row.
Chance(a, b) == (a * b) \div 1000

IsShare(a) == a \in 0 .. 1000

LEMMA Chances ==
    ASSUME NEW a, NEW b, IsShare(a), IsShare(b)
    PROVE  IsShare(Chance(a, b))
<1>1. a * b <= 1000 * b /\ a * b >= 0 /\ a * b \in Int /\ b <= 1000
  BY DEF IsShare
<1> DEFINE c == a * b
<1>2. c \in Int /\ c >= 0 /\ c <= 1000000
  BY <1>1 DEF IsShare
<1> HIDE DEF c
<1>3. c \div 1000 \in 0 .. 1000
  BY <1>2
<1> QED
  BY <1>3 DEF c, Chance, IsShare

\* The risk of a path is a fraction.
LEMMA PathRisks ==
    ASSUME NEW t, t \in DOMAIN Matrix, NEW p \in findPaths(t)
    PROVE  p.risk \in 0 .. 1000
<1>1. \A u, n : n \in after(u) => u \in DOMAIN Matrix /\ n \in DOMAIN Matrix[u] /\ Matrix[u][n] \in 0 .. 1000
  BY PipelineAssumption DEF after
<1>3. CASE \E n \in after(t) : p = [end |-> n, risk |-> Matrix[t][n]]
  <2>1. PICK n \in after(t) : p.risk = Matrix[t][n]
    BY <1>3
  <2> QED
    BY <1>1, <2>1
<1>4. CASE \E n \in after(t) : \E m \in after(n) : p = [end |-> m, risk |-> (Matrix[t][n] * Matrix[n][m]) \div 1000]
  <2>1. PICK n \in after(t) : \E m \in after(n) : p = [end |-> m, risk |-> (Matrix[t][n] * Matrix[n][m]) \div 1000]
    BY <1>4
  <2>2. PICK m \in after(n) : p.risk = (Matrix[t][n] * Matrix[n][m]) \div 1000
    BY <2>1
  <2>3. Matrix[t][n] \in 0 .. 1000 /\ Matrix[n][m] \in 0 .. 1000
    BY <1>1
  <2>4. p.risk = Chance(Matrix[t][n], Matrix[n][m])
    BY <2>2 DEF Chance
  <2>5. IsShare(Matrix[t][n]) /\ IsShare(Matrix[n][m])
    BY <2>3 DEF IsShare
  <2>6. IsShare(Chance(Matrix[t][n], Matrix[n][m]))
    BY <2>5, Chances
  <2> QED
    BY ONLY <2>4, <2>6 DEF IsShare
<1> QED
  BY <1>3, <1>4 DEF findPaths

\* What follows a technique without transitions is nothing.
LEMMA NoPaths ==
    ASSUME NEW t, t \notin DOMAIN Matrix
    PROVE  findPaths(t) = {}
  BY DEF findPaths, after

Risks(techs) == {0} \cup {p.risk : p \in UNION {findPaths(t) : t \in techs}}

LEMMA PredictSound ==
    ASSUME NEW techs
    PROVE  /\ Risks(techs) \in SUBSET (0 .. 1000)
           /\ PredictRisk(techs).risk = Largest(Risks(techs))
           /\ PredictRisk(techs).risk \in Risks(techs)
           /\ \A m \in Risks(techs) : m <= PredictRisk(techs).risk
           /\ PredictRisk(techs).enhanced \in 750 .. 1000
<1>1. Risks(techs) \in SUBSET (0 .. 1000) /\ Risks(techs) # {}
  <2> SUFFICES ASSUME NEW t \in techs, NEW p \in findPaths(t) PROVE p.risk \in 0 .. 1000
    BY DEF Risks
  <2> QED
    BY PathRisks, NoPaths
<1>2. Largest(Risks(techs)) \in Risks(techs) /\ \A m \in Risks(techs) : m <= Largest(Risks(techs))
  BY <1>1, LargestOf
<1>3. PredictRisk(techs).risk = Largest(Risks(techs))
  BY DEF PredictRisk, Risks
<1>4. PredictRisk(techs).enhanced =
        IF 1000 - Largest(Risks(techs)) \div 4 < 750 THEN 750 ELSE 1000 - Largest(Risks(techs)) \div 4
  BY DEF PredictRisk, Risks
<1>5. ASSUME NEW m \in 0 .. 1000 PROVE (IF 1000 - m \div 4 < 750 THEN 750 ELSE 1000 - m \div 4) \in 750 .. 1000
  OBVIOUS
<1> QED
  BY <1>1, <1>2, <1>3, <1>4, <1>5

\* A report of the gap analysis asks for what its gaps lack.
ReportOK(rep) ==
    /\ rep.advice = <<>> => \A k \in DOMAIN rep.body.gaps : rep.body.gaps[k] \notin {"no_coverage", "detection_gap"}
    /\ \A k \in DOMAIN rep.body.gaps : rep.body.gaps[k] = "no_coverage" => rep.advice[1] = "no_coverage"

\* A list that begins with the first that is not empty.
Topics == {"no_coverage", "detection_gap", "overall_coverage", "tactic_coverage"}

LEMMA AdviceOrder ==
    ASSUME NEW D, NEW a \in D, NEW b \in D, NEW p \in {<<>>, <<a>>}, NEW q \in {<<>>, <<b>>},
           NEW r \in Seq(D), NEW t \in Seq(D)
    PROVE  /\ p # <<>> => (p \o q \o r \o t)[1] = a
           /\ p \o q \o r \o t = <<>> => p = <<>> /\ q = <<>>
<1>1. p \in Seq(D) /\ q \in Seq(D) /\ Len(p) \in {0, 1} /\ Len(q) \in {0, 1}
  <2>1. p \in Seq(D) /\ Len(p) \in {0, 1}
    <3>1. CASE p = <<>>
      BY <3>1
    <3>2. CASE p = <<a>>
      BY <3>2
    <3> QED
      BY <3>1, <3>2
  <2>2. q \in Seq(D) /\ Len(q) \in {0, 1}
    <3>1. CASE q = <<>>
      BY <3>1
    <3>2. CASE q = <<b>>
      BY <3>2
    <3> QED
      BY <3>1, <3>2
  <2> QED
    BY <2>1, <2>2
<1> DEFINE u == p \o q
           v == u \o r
<1>2. u \in Seq(D) /\ Len(u) = Len(p) + Len(q)
  BY <1>1
<1>3. p # <<>> => p = <<a>> /\ u[1] = a /\ Len(u) >= 1
  BY <1>1
<1>4. Len(p) = 0 => p = <<>>
  BY <1>1
<1>5. Len(q) = 0 => q = <<>>
  BY <1>1
<1> HIDE DEF u
<1>6. v \in Seq(D) /\ Len(v) = Len(u) + Len(r) /\ (Len(u) >= 1 => v[1] = u[1])
  <2>0. u \in Seq(D) /\ r \in Seq(D)
    BY <1>2
  <2>1. /\ v \in Seq(D) /\ Len(v) = Len(u) + Len(r) /\ Len(u) \in Nat
        /\ \A i \in 1 .. Len(u) : v[i] = u[i]
    BY ONLY <2>0, Joined
  <2> HIDE DEF v
  <2> QED
    BY <2>1
<1> HIDE DEF v
<1>7. Len(v \o t) = Len(v) + Len(t) /\ (Len(v) >= 1 => (v \o t)[1] = v[1]) /\ Len(t) \in Nat
  <2>0. v \in Seq(D) /\ t \in Seq(D)
    BY <1>6
  <2>1. /\ Len(v \o t) = Len(v) + Len(t) /\ Len(v) \in Nat /\ Len(t) \in Nat
        /\ \A i \in 1 .. Len(v) : (v \o t)[i] = v[i]
    BY ONLY <2>0, Joined
  <2> QED
    BY <2>1
<1>8. v \o t = <<>> => Len(p) = 0 /\ Len(q) = 0
  BY <1>1, <1>2, <1>6, <1>7
<1>9. p # <<>> => (v \o t)[1] = a
  BY <1>1, <1>2, <1>3, <1>6, <1>7
<1> QED
  BY <1>4, <1>5, <1>8, <1>9 DEF u, v

LEMMA OneOrNone ==
    ASSUME NEW D, NEW a \in D
    PROVE  <<a>> \in Seq(D) /\ <<>> \in Seq(D)
  OBVIOUS

LEMMA SoMany ==
    ASSUME NEW D, NEW a \in D, NEW n \in Nat
    PROVE  [i \in 1 .. n |-> a] \in Seq(D)
  OBVIOUS

LEMMA GapsSound ==
    ASSUME NEW cat, CatalogueOK(cat)
    PROVE  ReportOK([body |-> gapReport(cat), advice |-> generateAssessmentRecommendations(gapReport(cat))])
<1> DEFINE g == gapReport(cat)
           p == IF \E k \in DOMAIN g.gaps : g.gaps[k] = "no_coverage" THEN <<"no_coverage">> ELSE <<>>
           q == IF \E k \in DOMAIN g.gaps : g.gaps[k] = "detection_gap" THEN <<"detection_gap">> ELSE <<>>
           r == IF g.rate < 500 THEN <<"overall_coverage">> ELSE <<>>
           n == Cardinality(g.weak)
           t == [i \in 1 .. n |-> "tactic_coverage"]
<1>1. n \in Nat
  <2> DEFINE T == {k[1] : k \in DOMAIN cat}
  <2>1. IsFiniteSet(T)
    <3> DEFINE f == [k \in DOMAIN cat |-> k[1]]
    <3>1. T = Named(f, DOMAIN cat)
      BY DEF Named
    <3> QED
      BY <3>1, NamedFinite DEF CatalogueOK
  <2>2. g.weak \subseteq T
    BY DEF gapReport
  <2> QED
    BY <2>1, <2>2, FS_Subset, FS_CardinalityType
<1>2. generateAssessmentRecommendations(g) = p \o q \o r \o t
  BY DEF generateAssessmentRecommendations
<1> HIDE DEF g, n
<1>3. p \in {<<>>, <<"no_coverage">>} /\ q \in {<<>>, <<"detection_gap">>}
  OBVIOUS
<1>4. t \in Seq(Topics)
  <2> DEFINE w == "tactic_coverage"
  <2>1. w \in Topics
    BY DEF Topics
  <2> HIDE DEF w
  <2>2. [i \in 1 .. n |-> w] \in Seq(Topics)
    BY <1>1, <2>1, SoMany
  <2> QED
    BY <2>2 DEF w
<1>5. r \in Seq(Topics)
  <2> DEFINE w == "overall_coverage"
  <2>1. w \in Topics
    BY DEF Topics
  <2> HIDE DEF w
  <2>2. <<w>> \in Seq(Topics) /\ <<>> \in Seq(Topics)
    BY <2>1, OneOrNone
  <2> QED
    BY <2>2 DEF w
<1>6. p # <<>> <=> \E k \in DOMAIN g.gaps : g.gaps[k] = "no_coverage"
  OBVIOUS
<1>7. q # <<>> <=> \E k \in DOMAIN g.gaps : g.gaps[k] = "detection_gap"
  OBVIOUS
<1> HIDE DEF p, q, r, t
<1>8. /\ p # <<>> => (p \o q \o r \o t)[1] = "no_coverage"
      /\ p \o q \o r \o t = <<>> => p = <<>> /\ q = <<>>
  <2>1. "no_coverage" \in Topics /\ "detection_gap" \in Topics
    BY DEF Topics
  <2> QED
    BY <1>3, <1>4, <1>5, <2>1, AdviceOrder
<1> DEFINE advice == p \o q \o r \o t
<1> HIDE DEF advice
<1>9. /\ advice = <<>> => \A k \in DOMAIN g.gaps : g.gaps[k] \notin {"no_coverage", "detection_gap"}
      /\ \A k \in DOMAIN g.gaps : g.gaps[k] = "no_coverage" => advice[1] = "no_coverage"
  BY <1>6, <1>7, <1>8 DEF advice
<1> QED
  BY <1>2, <1>9 DEF ReportOK, g, advice

IsList(q) == q \in Seq(ToSet(q))

LEMMA ListOfOwn ==
    ASSUME NEW D, NEW q \in Seq(D)
    PROVE  IsList(q)
  BY DEF IsList, ToSet

LEMMA KeptList ==
    ASSUME NEW q, IsList(q), NEW x, NEW n \in Nat
    PROVE  IsList(KeepLast(Append(q, x), n)) /\ ComesFrom(KeepLast(Append(q, x), n), q, x)
<1> DEFINE D == ToSet(q) \cup {x}
<1>1. q \in Seq(D) /\ x \in D
  BY DEF IsList
<1> HIDE DEF D
<1>2. KeepLast(Append(q, x), n) \in Seq(D) /\ ComesFrom(KeepLast(Append(q, x), n), q, x)
  BY <1>1, LastOf
<1> QED
  BY <1>2, ListOfOwn

Blind(techs, cov) == techs \subseteq UNION {cov[t].blind : t \in DOMAIN cov}

\* An analysis under way: what it has computed is that of one catalogue, unless that changed.
RunOK(cat, r) ==
    /\ DOMAIN r = {"pc", "id", "res", "failed", "cov", "kill", "alerts", "changed"}
    /\ r.pc \in {"extract", "coverage", "killchain", "alerts", "gap", "store"}
    /\ r.pc \in {"coverage", "killchain", "alerts"} /\ ~r.changed => r.failed = extractFailedTechniques(cat, r.res)
    /\ r.pc \in {"killchain", "alerts", "gap", "store"} /\ ~r.changed => Blind(r.failed, r.cov)
    /\ r.pc \in {"gap", "store"} /\ ~r.changed => r.alerts \subseteq r.failed
    /\ r.pc \in {"alerts", "gap", "store"} => KillOK(r.kill)

RecordOK(r) ==
    /\ ~r.changed => Blind(r.failed, r.cov)
    /\ ~r.changed => r.alerts \subseteq r.failed
    /\ KillOK(r.kill)
    /\ r.predicted = {} <=> r.failed = {}
    /\ \A p \in r.predicted : p.enhanced \in 750 .. 1000

RunsOK == \A r \in runs : RunOK(catalogue, r)
HistoryOK == IsList(history) /\ \A i \in DOMAIN history : RecordOK(history[i])
ReportsOK == IsList(reports) /\ \A i \in DOMAIN reports : ReportOK(reports[i])
PipelineInv == CatalogueOK(catalogue) /\ RunsOK /\ HistoryOK /\ ReportsOK

LEMMA PipelineInitInv == PipelineInit => PipelineInv
<1> SUFFICES ASSUME PipelineInit PROVE PipelineInv
  OBVIOUS
<1>1. CatalogueOK(catalogue)
  BY PipelineAssumption DEF PipelineInit, CatalogueOK
<1>2. IsList(<<>>)
  BY DEF IsList
<1> QED
  BY <1>1, <1>2 DEF PipelineInit, PipelineInv, RunsOK, HistoryOK, ReportsOK

\* One analysis goes on under the catalogue of now.
LEMMA RunGoesOn ==
    ASSUME PipelineInv, NEW r \in runs, NEW new, RunOK(catalogue, new), Become(r, new), UNCHANGED <<catalogue, history>>, ReportsOK'
    PROVE  PipelineInv'
<1>1. \A x \in runs' : x \in runs \/ x = new
  BY DEF Become
<1>2. RunsOK'
  BY <1>1 DEF RunsOK, PipelineInv
<1>3. HistoryOK'
  BY DEF PipelineInv, HistoryOK
<1> QED
  BY <1>2, <1>3 DEF PipelineInv

LEMMA ReportsSame == PipelineInv /\ reports' = reports => ReportsOK'
  BY DEF PipelineInv, ReportsOK

LEMMA RunStepInv ==
    ASSUME PipelineInv, NEW r \in runs,
           RunExtract(r) \/ RunCoverage(r) \/ RunKillChain(r) \/ triggerAlertsForFailedChecks(r) \/ RunGap(r)
    PROVE  PipelineInv'
<1>1. RunOK(catalogue, r) /\ CatalogueOK(catalogue)
  BY DEF PipelineInv, RunsOK
<1>2. CASE RunExtract(r)
  <2> DEFINE new == [r EXCEPT !.pc = "coverage", !.failed = extractFailedTechniques(catalogue, r.res)]
  <2>1. RunOK(catalogue, new)
    BY <1>1, <1>2 DEF RunOK, RunExtract
  <2>2. Become(r, new) /\ UNCHANGED <<catalogue, history, reports>>
    BY <1>2 DEF RunExtract
  <2> HIDE DEF new
  <2> QED
    BY <2>1, <2>2, RunGoesOn, ReportsSame
<1>3. CASE RunCoverage(r)
  <2> DEFINE new == [r EXCEPT !.pc = "killchain", !.cov = calculateCoverageLocked(catalogue, r.res)]
  <2>1. Blind(extractFailedTechniques(catalogue, r.res), calculateCoverageLocked(catalogue, r.res))
    BY FailedAreBlind DEF Blind
  <2>2. RunOK(catalogue, new)
    BY <1>1, <1>3, <2>1 DEF RunOK, RunCoverage
  <2>3. Become(r, new) /\ UNCHANGED <<catalogue, history, reports>>
    BY <1>3 DEF RunCoverage
  <2> HIDE DEF new
  <2> QED
    BY <2>2, <2>3, RunGoesOn, ReportsSame
<1>4. CASE RunKillChain(r)
  <2> DEFINE new == [r EXCEPT !.pc = "alerts", !.kill = assessKillChainLocked(catalogue, r.res)]
  <2>1. KillOK(assessKillChainLocked(catalogue, r.res))
    BY <1>1, KillSound
  <2>2. RunOK(catalogue, new)
    BY <1>1, <1>4, <2>1 DEF RunOK, RunKillChain
  <2>3. Become(r, new) /\ UNCHANGED <<catalogue, history, reports>>
    BY <1>4 DEF RunKillChain
  <2> HIDE DEF new
  <2> QED
    BY <2>2, <2>3, RunGoesOn, ReportsSame
<1>5. CASE triggerAlertsForFailedChecks(r)
  <2> DEFINE al == IF r.failed = {} THEN {} ELSE extractFailedTechniques(catalogue, r.res) \cap rulesOn \cap FiredByWord
             new == [r EXCEPT !.pc = "gap", !.alerts = al]
  <2>1. ~r.changed => al \subseteq r.failed
    BY <1>1, <1>5 DEF RunOK, triggerAlertsForFailedChecks
  <2>2. Become(r, new) /\ UNCHANGED <<catalogue, history, reports>>
    BY <1>5 DEF triggerAlertsForFailedChecks
  <2> HIDE DEF al
  <2>3. RunOK(catalogue, new)
    BY <1>1, <1>5, <2>1 DEF RunOK, triggerAlertsForFailedChecks
  <2> HIDE DEF new
  <2> QED
    BY <2>2, <2>3, RunGoesOn, ReportsSame
<1>6. CASE RunGap(r)
  <2> DEFINE new == [r EXCEPT !.pc = "store"]
             x == [body |-> gapReport(catalogue), advice |-> generateAssessmentRecommendations(gapReport(catalogue))]
  <2>1. RunOK(catalogue, new)
    BY <1>1, <1>6 DEF RunOK, RunGap
  <2>2. Become(r, new) /\ UNCHANGED <<catalogue, history>>
    BY <1>6 DEF RunGap
  <2>3. reports' = reports \/ reports' = KeepLast(Append(reports, x), MaxHistory)
    BY <1>6 DEF RunGap, PerformGapAnalysis
  <2>4. ReportOK(x)
    BY <1>1, GapsSound
  <2> HIDE DEF x, new
  <2>5. ReportsOK'
    <3>1. CASE reports' = reports
      BY <3>1, ReportsSame
    <3>2. CASE reports' = KeepLast(Append(reports, x), MaxHistory)
      <4>1. IsList(reports) /\ \A i \in DOMAIN reports : ReportOK(reports[i])
        BY DEF PipelineInv, ReportsOK
      <4>2. MaxHistory \in Nat
        BY PipelineAssumption
      <4>3. /\ IsList(reports')
            /\ \A i \in DOMAIN reports' : reports'[i] = x \/ \E j \in DOMAIN reports : reports'[i] = reports[j]
        BY <3>2, <4>1, <4>2, KeptList DEF ComesFrom
      <4> QED
        BY <2>4, <4>1, <4>3 DEF ReportsOK
    <3> QED
      BY <2>3, <3>1, <3>2
  <2> QED
    BY <2>1, <2>2, <2>5, RunGoesOn
<1> QED
  BY <1>2, <1>3, <1>4, <1>5, <1>6

\* The record of an analysis that has gone through all its parts.
LEMMA StoreInv ==
    ASSUME PipelineInv, NEW r \in runs, storeAnalysisRecord(r)
    PROVE  PipelineInv'
<1> DEFINE matches == MatchAPTGroup(weakTactics(r.cov))
           predicted == IF r.failed = {} THEN {} ELSE {PredictRisk(r.failed)}
           advice == generateRecommendations(catalogue, PredictRisk(r.failed).paths)
           x == [id |-> r.id, res |-> r.res, failed |-> r.failed, cov |-> r.cov, kill |-> r.kill,
                 alerts |-> r.alerts, changed |-> r.changed, matches |-> matches,
                 predicted |-> predicted, advice |-> advice]
<1>1. RunOK(catalogue, r) /\ r.pc = "store"
  BY DEF PipelineInv, RunsOK, storeAnalysisRecord
<1>2. history' = KeepLast(Append(history, x), MaxHistory)
  BY DEF storeAnalysisRecord
<1>3. predicted = {} <=> r.failed = {}
  OBVIOUS
<1>4. \A p \in predicted : p.enhanced \in 750 .. 1000
  BY PredictSound
<1> HIDE DEF matches, predicted, advice
<1>5. RecordOK(x)
  BY <1>1, <1>3, <1>4 DEF RunOK, RecordOK
<1> HIDE DEF x
<1>6. HistoryOK'
  <2>1. IsList(history) /\ \A i \in DOMAIN history : RecordOK(history[i])
    BY DEF PipelineInv, HistoryOK
  <2>2. MaxHistory \in Nat
    BY PipelineAssumption
  <2>3. /\ IsList(history')
        /\ \A i \in DOMAIN history' : history'[i] = x \/ \E j \in DOMAIN history : history'[i] = history[j]
    BY <1>2, <2>1, <2>2, KeptList DEF ComesFrom
  <2> QED
    BY <1>5, <2>1, <2>3 DEF HistoryOK
<1>7. runs' \subseteq runs /\ UNCHANGED <<catalogue, reports>>
  BY DEF storeAnalysisRecord
<1> QED
  BY <1>6, <1>7 DEF PipelineInv, RunsOK, ReportsOK

\* A catalogue that changes marks the analyses it changes under.
LEMMA ChangedInv ==
    ASSUME PipelineInv, CatalogueOK(catalogue'), Disturbed, UNCHANGED <<history, reports>>
    PROVE  PipelineInv'
<1>1. \A x \in runs' : RunOK(catalogue', x)
  <2> SUFFICES ASSUME NEW r \in runs PROVE RunOK(catalogue', [r EXCEPT !.changed = TRUE])
    BY DEF Disturbed
  <2>1. RunOK(catalogue, r)
    BY DEF PipelineInv, RunsOK
  <2> QED
    BY <2>1 DEF RunOK
<1> QED
  BY <1>1 DEF PipelineInv, RunsOK, HistoryOK, ReportsOK

LEMMA PipelineStepInv ==
    ASSUME PipelineInv, [PipelineNext]_pipelineVars
    PROVE  PipelineInv'
<1>1. CatalogueOK(catalogue)
  BY DEF PipelineInv
<1>2. ASSUME NEW res, PublishResult(res) PROVE PipelineInv'
  <2> DEFINE new == [pc |-> "extract", id |-> published, res |-> res, failed |-> {}, cov |-> <<>>,
                     kill |-> <<>>, alerts |-> {}, changed |-> FALSE]
  <2>1. RunOK(catalogue, new)
    BY DEF RunOK
  <2>2. runs' = runs \cup {new} /\ UNCHANGED <<catalogue, history, reports>>
    BY <1>2 DEF PublishResult
  <2> HIDE DEF new
  <2> QED
    BY <2>1, <2>2 DEF PipelineInv, RunsOK, HistoryOK, ReportsOK
<1>3. ASSUME NEW r \in runs,
             \/ RunExtract(r) \/ RunCoverage(r) \/ RunKillChain(r)
             \/ triggerAlertsForFailedChecks(r) \/ RunGap(r) \/ storeAnalysisRecord(r)
      PROVE  PipelineInv'
  BY <1>3, RunStepInv, StoreInv
<1>4. ASSUME NEW t, NEW x, NEW cs \in Mappings, AddTechniqueToTactic(t, x, cs) PROVE PipelineInv'
  <2>1. /\ catalogue' = [k \in DOMAIN catalogue \cup {<<t, x>>} |->
              IF k = <<t, x>> THEN [checks |-> cs, det |-> FALSE, prev |-> FALSE] ELSE catalogue[k]]
        /\ Disturbed /\ UNCHANGED <<history, reports>>
    BY <1>4 DEF AddTechniqueToTactic
  <2>2. cs \subseteq MappedChecks
    BY PipelineAssumption
  <2>3. DOMAIN catalogue' = DOMAIN catalogue \cup {<<t, x>>}
    BY <2>1
  <2>4. IsFiniteSet(DOMAIN catalogue')
    BY <1>1, <2>3, FS_AddElement DEF CatalogueOK
  <2>5. \A k \in DOMAIN catalogue' : catalogue'[k].checks \subseteq MappedChecks
    BY <1>1, <2>1, <2>2 DEF CatalogueOK
  <2> QED
    BY <2>1, <2>4, <2>5, ChangedInv DEF CatalogueOK
<1>5. ASSUME NEW x, NEW cs \in Mappings, UpdateCheckMapping(x, cs) PROVE PipelineInv'
  <2> DEFINE k0 == first(catalogue, x)
  <2>1. /\ catalogue' = [catalogue EXCEPT ![k0] =
              [checks |-> cs, det |-> catalogue[k0].det \/ cs # {}, prev |-> catalogue[k0].prev \/ cs # {}]]
        /\ Disturbed /\ UNCHANGED <<history, reports>>
    BY <1>5 DEF UpdateCheckMapping
  <2>2. cs \subseteq MappedChecks
    BY PipelineAssumption
  <2> HIDE DEF k0
  <2>3. CatalogueOK(catalogue')
    BY <1>1, <2>1, <2>2 DEF CatalogueOK
  <2> QED
    BY <2>1, <2>3, ChangedInv
<1>6. ASSUME NEW t, ToggleRule(t) PROVE PipelineInv'
  BY <1>6 DEF ToggleRule, PipelineInv, RunsOK, HistoryOK, ReportsOK
<1>7. CASE CreateImprovementTrack
  BY <1>7 DEF CreateImprovementTrack, PipelineInv, RunsOK, HistoryOK, ReportsOK
<1>8. ASSUME NEW i, NEW s, UpdateImprovementAction(i, s) PROVE PipelineInv'
  BY <1>8 DEF UpdateImprovementAction, PipelineInv, RunsOK, HistoryOK, ReportsOK
<1>9. CASE UNCHANGED pipelineVars
  BY <1>9 DEF pipelineVars, PipelineInv, RunsOK, HistoryOK, ReportsOK
<1> QED
  BY <1>2, <1>3, <1>4, <1>5, <1>6, <1>7, <1>8, <1>9 DEF PipelineNext

LEMMA RecordsConsistentOf == PipelineInv => RecordsConsistent
<1> SUFFICES ASSUME PipelineInv PROVE RecordsConsistent
  OBVIOUS
<1>1. /\ \A i \in DOMAIN history : RecordOK(history[i])
      /\ \A i \in DOMAIN reports : ReportOK(reports[i])
  BY DEF PipelineInv, HistoryOK, ReportsOK
<1> QED
  BY <1>1 DEF RecordsConsistent, RecordOK, ReportOK, KillOK, Blind

\* The parts of an analysis record agree with each other although each part takes the lock
\* anew, as long as no change of the catalogue came between them.
THEOREM RecordsAreConsistent == PipelineSpec => []RecordsConsistent
<1>1. PipelineInv /\ [PipelineNext]_pipelineVars => PipelineInv'
  BY PipelineStepInv
<1> QED
  BY <1>1, PipelineInitInv, RecordsConsistentOf, PTL DEF PipelineSpec

-----------------------------------------------------------------------------
(* Attack chains. *)

Alerts == [tech : {Rules[r].tech : r \in DOMAIN Rules}, tactic : Nat, host : Hosts, ack : BOOLEAN, at : Nat]
Anomalies == [tech : Seen, host : Hosts, score : Nat, at : Nat]
Iocs == [key : Seen, tech : Seen, conf : Nat, actor : DOMAIN Groups \cup {NoActor}]

EvidenceTypes ==
    /\ steps \in Nat
    /\ alerts \in Seq(Alerts) /\ anomalies \in Seq(Anomalies) /\ iocs \in Seq(Iocs)

\* The newest of a list: each of them, and in their order.
Shifted(r, s) == \E m \in Nat : \A k \in DOMAIN r : k + m \in DOMAIN s /\ r[k] = s[k + m]

LEMMA TrimFacts ==
    ASSUME NEW D, NEW s \in Seq(D)
    PROVE  trimSlice(s) \in Seq(D) /\ Shifted(trimSlice(s), s)
<1> DEFINE r == trimSlice(s)
           m == IF Len(s) > MaxKept THEN Len(s) - MaxKept ELSE 0
<1>1. MaxKept \in Nat /\ Len(s) \in Nat /\ DOMAIN s = 1 .. Len(s)
  BY EvidenceAssumption
<1>2. m \in Nat /\ m <= Len(s)
  BY <1>1
<1>3. CASE Len(s) > MaxKept
  <2>1. r = SubSeq(s, m + 1, Len(s))
    BY <1>3 DEF trimSlice
  <2> HIDE DEF r, m
  <2>2. /\ r \in Seq(D) /\ Len(r) = Len(s) - m
        /\ \A k \in 1 .. Len(s) - m : r[k] = s[k + m]
    BY <1>1, <1>2, <2>1, Dropped
  <2>3. \A k \in DOMAIN r : k + m \in DOMAIN s /\ r[k] = s[k + m]
    BY <1>1, <1>2, <2>2
  <2> QED
    BY <1>2, <2>2, <2>3 DEF Shifted, r
<1>4. CASE ~(Len(s) > MaxKept)
  <2>1. r = s
    BY <1>4 DEF trimSlice
  <2>2. \A k \in DOMAIN r : k + 0 \in DOMAIN s /\ r[k] = s[k + 0]
    BY <1>1, <2>1
  <2> QED
    BY <2>1, <2>2 DEF Shifted
<1> QED
  BY <1>3, <1>4

LEMMA KeptFacts ==
    ASSUME NEW D, NEW s \in Seq(D), NEW x \in D
    PROVE  Kept(s, x) \in Seq(D) /\ ComesFrom(Kept(s, x), s, x)
<1> DEFINE a == Append(s, x)
<1>1. a \in Seq(D) /\ \A k \in DOMAIN a : a[k] = x \/ \E j \in DOMAIN s : a[k] = s[j]
  OBVIOUS
<1>2. Kept(s, x) = trimSlice(a)
  BY DEF Kept
<1> HIDE DEF a
<1>3. trimSlice(a) \in Seq(D) /\ Shifted(trimSlice(a), a)
  BY <1>1, TrimFacts
<1>4. PICK m \in Nat : \A k \in DOMAIN trimSlice(a) : k + m \in DOMAIN a /\ trimSlice(a)[k] = a[k + m]
  BY <1>3 DEF Shifted
<1>5. ComesFrom(trimSlice(a), s, x)
  BY <1>1, <1>4 DEF ComesFrom
<1> QED
  BY <1>2, <1>3, <1>5

\* The alerts and anomalies of a host, and those of a technique.
LEMMA OfTech ==
    ASSUME NEW D, NEW s \in Seq(D), NEW t
    PROVE  ofTech(s, t) \in Seq({a \in D : a.tech = t}) /\ Len(ofTech(s, t)) \in Nat
<1> DEFINE S == {x \in {s[i] : i \in DOMAIN s} : x.tech = t}
<1>1. ofTech(s, t) = Chosen(s, S)
  BY DEF ofTech, Where
<1>2. D \cap S \subseteq {a \in D : a.tech = t}
  OBVIOUS
<1> HIDE DEF S
<1>3. Chosen(s, S) \in Seq(D \cap S)
  BY ChosenFacts
<1>4. Chosen(s, S) \in Seq({a \in D : a.tech = t})
  BY <1>2, <1>3
<1> QED
  BY <1>1, <1>4

LEMMA OpenAlerts ==
    ASSUME EvidenceTypes, NEW h
    PROVE  openAlerts(h) \in Seq(Alerts)
<1> DEFINE S == {x \in {alerts[i] : i \in DOMAIN alerts} : x.host = h /\ ~x.ack}
<1>1. openAlerts(h) = Chosen(alerts, S)
  BY DEF openAlerts, Where
<1> HIDE DEF S
<1>2. Chosen(alerts, S) \in Seq(Alerts \cap S)
  BY ChosenFacts DEF EvidenceTypes
<1> QED
  BY <1>1, <1>2

HighOnes == {a \in Anomalies : a.score >= 500}

LEMMA HighAnomalies ==
    ASSUME EvidenceTypes, NEW h
    PROVE  highAnomalies(h) \in Seq(HighOnes)
<1> DEFINE S == {x \in {anomalies[i] : i \in DOMAIN anomalies} : x.host = h /\ x.score >= 500}
<1>1. highAnomalies(h) = Chosen(anomalies, S)
  BY DEF highAnomalies, Where
<1>2. Anomalies \cap S \subseteq HighOnes
  BY DEF HighOnes
<1> HIDE DEF S
<1>3. Chosen(anomalies, S) \in Seq(Anomalies \cap S)
  BY ChosenFacts DEF EvidenceTypes
<1> QED
  BY <1>1, <1>2, <1>3

\* A stage has an alert or a high anomaly, so the confidence in it is more than none.
LEMMA StageSound ==
    ASSUME EvidenceTypes, NEW h, NEW t \in stageTechs(h)
    PROVE  /\ confidence(h, t) \in 1 .. 1000
           /\ stageOf(h, t).tactic \in Nat
<1> DEFINE al == ofTech(openAlerts(h), t)
           an == ofTech(highAnomalies(h), t)
           io == ofTech(iocs, t)
           f == [i \in DOMAIN an |-> an[i].score \div 5]
           g == [i \in DOMAIN io |-> (io[i].conf * 3) \div 20]
           base == IF al # <<>> THEN 700 ELSE (an[1].score * 3) \div 5
<1>1. /\ al \in Seq({a \in Alerts : a.tech = t}) /\ Len(al) \in Nat
      /\ an \in Seq({a \in HighOnes : a.tech = t}) /\ Len(an) \in Nat
      /\ io \in Seq({a \in Iocs : a.tech = t}) /\ Len(io) \in Nat
  BY OfTech, OpenAlerts, HighAnomalies DEF EvidenceTypes
<1>2. t \in Techniques /\ Len(al) + Len(an) > 0
  BY DEF stageTechs
<1>3. /\ confidence(h, t) = Capped(1000, base + SumOf(f, DOMAIN an) + SumOf(g, DOMAIN io))
      /\ stageOf(h, t).tactic = IF al # <<>> THEN al[1].tactic ELSE TacticOf[t]
  BY DEF confidence, TotalSeq, stageOf
<1> HIDE DEF al, an, io
<1>4. /\ IsFiniteSet(DOMAIN an) /\ IsFiniteSet(DOMAIN io)
  <2>1. DOMAIN an = 1 .. Len(an) /\ DOMAIN io = 1 .. Len(io)
    BY <1>1
  <2> QED
    BY <1>1, <2>1, FS_Interval
<1>5. /\ \A i \in DOMAIN an : an[i].score \in Nat /\ an[i].score >= 500
      /\ \A i \in DOMAIN io : io[i].conf \in Nat
      /\ \A i \in DOMAIN al : al[i].tactic \in Nat
  BY <1>1 DEF HighOnes, Anomalies, Iocs, Alerts
<1>6. /\ \A i \in DOMAIN an : f[i] \in Nat
      /\ \A i \in DOMAIN io : g[i] \in Nat
  <2>1. \A n \in Nat : n \div 5 \in Nat /\ (n * 3) \div 20 \in Nat
    OBVIOUS
  <2> QED
    BY <1>5, <2>1
<1>7. SumOf(f, DOMAIN an) \in Nat /\ SumOf(g, DOMAIN io) \in Nat
  <2> HIDE DEF f, g
  <2> QED
    BY <1>4, <1>6, SumNat
<1>8. base \in Nat /\ base >= 1
  <2>1. CASE al # <<>>
    BY <2>1
  <2>2. CASE al = <<>>
    <3>1. Len(al) = 0 /\ 1 \in DOMAIN an
      BY <1>1, <1>2, <2>2
    <3>2. an[1].score \in Nat /\ an[1].score >= 500
      BY <1>5, <3>1
    <3>3. \A n \in Nat : n >= 500 => (n * 3) \div 5 \in Nat /\ (n * 3) \div 5 >= 1
      OBVIOUS
    <3> QED
      BY <2>2, <3>2, <3>3
  <2> QED
    BY <2>1, <2>2
<1>9. confidence(h, t) \in 1 .. 1000
  <2> DEFINE F == SumOf(f, DOMAIN an)
             G == SumOf(g, DOMAIN io)
             v == base + F + G
  <2>1. F \in Nat /\ G \in Nat /\ confidence(h, t) = Capped(1000, v)
    BY <1>3, <1>7
  <2> HIDE DEF F, G, base
  <2>2. v \in Nat /\ v >= 1
    BY <1>8, <2>1
  <2> HIDE DEF v
  <2>3. Capped(1000, v) \in 1 .. 1000
    BY <2>2 DEF Capped
  <2> QED
    BY <2>1, <2>3
<1>10. stageOf(h, t).tactic \in Nat
  <2>1. CASE al # <<>>
    <3>1. 1 \in DOMAIN al
      BY <1>1, <2>1
    <3> QED
      BY <1>3, <1>5, <2>1, <3>1
  <2>2. CASE al = <<>>
    BY <1>2, <1>3, <2>2, EvidenceAssumption
  <2> QED
    BY <2>1, <2>2
<1> QED
  BY <1>9, <1>10

StageOK(s) == s.tech \in Techniques /\ s.conf \in 1 .. 1000 /\ s.tactic \in Nat
InOrder(ss) == \A i, j \in DOMAIN ss : i < j => ss[i].tech # ss[j].tech /\ ss[i].tactic <= ss[j].tactic
Shares(ss, g) == \E s \in ToSet(ss) : s.tech \in DOMAIN Groups[g].techs
IocSeen == \E t \in Techniques : iocChecks[t] # {}

\* The causes of a stage only add to the confidence in it.
LEMMA BoostedSound ==
    ASSUME NEW s, StageOK(s), s = [tech |-> s.tech, conf |-> s.conf, tactic |-> s.tactic, at |-> s.at], NEW ts
    PROVE  /\ StageOK(boosted(s, ts))
           /\ boosted(s, ts).tech = s.tech /\ boosted(s, ts).tactic = s.tactic
<1> DEFINE causes == causesOf(s.tech, ts)
           f == [r \in causes |-> r.strength]
           v == causalScore(s.tech, ts)
           boost == (v * 15) \div (100 * Cardinality(causes))
<1>1. CASE causes = {}
  BY <1>1 DEF boosted
<1>2. CASE causes # {}
  <2>1. /\ IsFiniteSet(causes) /\ \A r \in causes : r.strength \in Nat
    BY EvidenceAssumption, FS_Subset DEF causesOf
  <2>2. Cardinality(causes) \in Nat /\ Cardinality(causes) # 0
    BY <1>2, <2>1, FS_CardinalityType, FS_EmptySet
  <2>3. v = SumOf(f, causes)
    BY DEF causalScore, Total
  <2> HIDE DEF causes
  <2>4. \A r \in causes : f[r] \in Nat
    BY <2>1
  <2> HIDE DEF f
  <2>5. v \in Nat
    BY <2>1, <2>3, <2>4, SumNat
  <2> HIDE DEF v
  <2>6. \A m \in Nat : \A n \in Nat : n # 0 => (m * 15) \div (100 * n) \in Nat
    OBVIOUS
  <2>7. boost \in Nat
    BY <2>2, <2>5, <2>6
  <2>8. boosted(s, ts) = [s EXCEPT !.conf = Capped(s.conf + boost, 1000)]
    BY <1>2 DEF boosted, causes, v
  <2> HIDE DEF boost
  <2>9. Capped(s.conf + boost, 1000) \in 1 .. 1000
    <3> DEFINE w == s.conf + boost
    <3>1. w \in Nat /\ w >= 1
      BY <2>7 DEF StageOK
    <3> HIDE DEF w
    <3>2. Capped(w, 1000) \in 1 .. 1000
      BY <3>1 DEF Capped
    <3> QED
      BY <3>2 DEF w
  <2> QED
    BY <2>8, <2>9 DEF StageOK
<1> QED
  BY <1>1, <1>2

LEMMA StagesAre ==
    ASSUME EvidenceTypes, NEW h, NEW t \in stageTechs(h)
    PROVE  LET b == boosted(stageOf(h, t), stageTechs(h)) IN StageOK(b) /\ b.tech = t
<1> DEFINE s == stageOf(h, t)
<1>1. /\ s = [tech |-> s.tech, conf |-> s.conf, tactic |-> s.tactic, at |-> s.at]
      /\ s.tech = t /\ s.conf = confidence(h, t)
  BY DEF stageOf
<1>2. t \in Techniques
  BY DEF stageTechs
<1>3. confidence(h, t) \in 1 .. 1000 /\ s.tactic \in Nat
  BY StageSound
<1> HIDE DEF s
<1>4. StageOK(s)
  BY <1>1, <1>2, <1>3 DEF StageOK
<1>5. StageOK(boosted(s, stageTechs(h))) /\ boosted(s, stageTechs(h)).tech = t
  BY <1>1, <1>4, BoostedSound
<1> QED
  BY <1>5 DEF s

\* What a sort by an order among others leaves is in that order.
LEMMA StagesInOrder ==
    ASSUME EvidenceTypes, NEW h, NEW ss \in stages(h)
    PROVE  /\ \A i \in DOMAIN ss : StageOK(ss[i])
           /\ InOrder(ss)
<1> DEFINE ts == stageTechs(h)
           S == {boosted(stageOf(h, t), ts) : t \in ts}
           MayPrecede(a, b) ==
              IF a.tactic # b.tactic THEN a.tactic < b.tactic
              ELSE IF causalScore(a.tech, ts) # causalScore(b.tech, ts)
                   THEN causalScore(a.tech, ts) > causalScore(b.tech, ts)
                   ELSE a.at <= b.at
<1>1. /\ \A i \in DOMAIN ss : ss[i] \in S
      /\ \A i, j \in DOMAIN ss : i < j => ss[i] # ss[j] /\ MayPrecede(ss[i], ss[j])
  BY DEF stages, Sortings
<1>2. \A s \in S : StageOK(s) /\ s = boosted(stageOf(h, s.tech), ts)
  <2> SUFFICES ASSUME NEW t \in ts PROVE LET b == boosted(stageOf(h, t), ts) IN StageOK(b) /\ b.tech = t
    OBVIOUS
  <2> QED
    BY StagesAre
<1> HIDE DEF S
<1>3. \A a, b \in S : StageOK(a) /\ StageOK(b) /\ MayPrecede(a, b) => a.tactic <= b.tactic
  BY DEF StageOK
<1> HIDE DEF MayPrecede
<1>4. \A i, j \in DOMAIN ss : i < j => ss[i].tech # ss[j].tech
  BY <1>1, <1>2
<1>5. \A i, j \in DOMAIN ss : i < j => ss[i].tactic <= ss[j].tactic
  BY <1>1, <1>2, <1>3
<1> QED
  BY <1>1, <1>2, <1>4, <1>5 DEF InOrder
-----------------------------------------------------------------------------
LEMMA GreatestOfOne == Greatest({0}) = 0
<1>1. \E m \in {0} : \A n \in {0} : n <= m
  OBVIOUS
<1> QED
  BY <1>1 DEF Greatest

\* A group that shares no technique with a chain does not overlap with it.
LEMMA NoOverlap ==
    ASSUME NEW ss, NEW g \in DOMAIN Groups, ~Shares(ss, g)
    PROVE  calculateTechniqueOverlap(ss, g) = 0
<1> DEFINE W == DOMAIN Groups[g].techs
           w == [t \in W |-> Groups[g].techs[t]]
           obs(t) == Greatest({0} \cup {s.conf : s \in {x \in ToSet(ss) : x.tech = t}})
           f == [t \in W |-> (Groups[g].techs[t] * obs(t)) \div 1000]
           all == SumOf(w, W)
<1>1. calculateTechniqueOverlap(ss, g) = IF all = 0 THEN 0 ELSE (SumOf(f, W) * 1000) \div all
  BY DEF calculateTechniqueOverlap, Total
<1>2. IsFiniteSet(W) /\ \A t \in W : Groups[g].techs[t] \in Nat
  BY EvidenceAssumption
<1>3. \A t \in W : obs(t) = 0
  <2> SUFFICES ASSUME NEW t \in W PROVE obs(t) = 0
    OBVIOUS
  <2>1. {0} \cup {s.conf : s \in {x \in ToSet(ss) : x.tech = t}} = {0}
    BY DEF Shares
  <2> QED
    BY <2>1, GreatestOfOne
<1> HIDE DEF obs, W
<1>4. \A t \in W : f[t] = 0
  <2>1. \A n \in Nat : (n * 0) \div 1000 = 0
    OBVIOUS
  <2> QED
    BY <1>2, <1>3, <2>1
<1>5. \A t \in W : w[t] \in Nat
  BY <1>2
<1> HIDE DEF f, w
<1>6. SumOf(f, W) = 0
  BY <1>2, <1>4, SumNat
<1>7. all \in Nat
  BY <1>2, <1>5, SumNat
<1> HIDE DEF all
<1>8. \A n \in Nat : n # 0 => (0 * 1000) \div n = 0
  OBVIOUS
<1> QED
  BY <1>1, <1>6, <1>7, <1>8

LEMMA NoIocs ==
    ASSUME NEW g, iocs = <<>>
    PROVE  iocScore(g) = 0
<1> DEFINE S == {x \in {iocs[i] : i \in DOMAIN iocs} : x.actor = g}
           q == Chosen(iocs, S)
           f == [i \in DOMAIN q |-> IF q[i].conf > 0 THEN q[i].conf ELSE 500]
<1>1. iocScore(g) = SumOf(f, DOMAIN q)
  BY DEF iocScore, Where, TotalSeq
<1>2. iocs \in Seq({}) /\ Len(iocs) = 0
  OBVIOUS
<1> HIDE DEF S
<1>3. q \in Seq({}) /\ Len(q) <= 0
  <2>1. {} \cap S = {}
    OBVIOUS
  <2> QED
    BY <1>2, <2>1, ChosenFacts
<1> HIDE DEF q
<1>4. DOMAIN q = {}
  BY <1>3
<1> HIDE DEF f
<1> QED
  BY <1>1, <1>4, SumEmpty

\* A chain is put down to a group that shares a technique with it or that an indicator named.
LEMMA AttributionSound ==
    ASSUME NEW ss, NEW g \in attributions(ss), g \in DOMAIN Groups, iocs # <<>> => IocSeen
    PROVE  Shares(ss, g) \/ IocSeen
<1>1. fused(ss, g) >= 100
  BY EvidenceAssumption DEF attributions
<1> SUFFICES ASSUME ~Shares(ss, g), iocs = <<>> PROVE FALSE
  OBVIOUS
<1>2. calculateTechniqueOverlap(ss, g) = 0 /\ iocScore(g) = 0
  BY NoOverlap, NoIocs
<1>3. fused(ss, g) = 0
  BY <1>2 DEF fused, Capped
<1> QED
  BY <1>1, <1>3

-----------------------------------------------------------------------------
(* Scenarios. *)

TacticsRise(sc) == \A i, j \in DOMAIN sc : i < j => sc[i].tactic < sc[j].tactic
ScenarioOK(sc) ==
    /\ sc \in Seq(ToSet(sc))
    /\ \A i \in DOMAIN sc : sc[i].tactic \in Nat
    /\ TacticsRise(sc)

LEMMA ScenariosSound ==
    ASSUME NEW g \in DOMAIN Groups, NEW sc \in scenariosFor(g)
    PROVE  ScenarioOK(sc)
<1> DEFINE weights == Groups[g].techs
           placed == {t \in DOMAIN weights : t \in Techniques /\ TacticOf[t] # 99}
           heaviest(t) == \A o \in placed : TacticOf[o] = TacticOf[t] => weights[o] <= weights[t]
           phase(t) == [tech |-> t, tactic |-> TacticOf[t], expected |-> rulesFor(t)]
           Of(top) == {phase(t) : t \in top}
           Sorted(top) == {q \in [1 .. Cardinality(Of(top)) -> Of(top)] :
                             \A i, j \in DOMAIN q : i < j => q[i] # q[j] /\ q[i].tactic <= q[j].tactic}
           tops == {top \in SUBSET placed :
                    /\ \A t \in top : heaviest(t)
                    /\ \A t \in placed : \E o \in top : TacticOf[o] = TacticOf[t]
                    /\ \A t, o \in top : TacticOf[o] = TacticOf[t] => o = t}
<1>0. sc \in UNION {Sorted(top) : top \in tops}
  BY DEF scenariosFor, Sortings
<1>1. PICK top \in SUBSET placed :
         /\ \A t, o \in top : TacticOf[o] = TacticOf[t] => o = t
         /\ sc \in Sorted(top)
  <2> HIDE DEF Sorted
  <2> QED
    BY <1>0
<1> DEFINE S == {phase(t) : t \in top}
<1>2. \A t \in top : TacticOf[t] \in Nat
  BY EvidenceAssumption
<1>3. IsFiniteSet(top)
  <2>1. IsFiniteSet(DOMAIN weights)
    BY EvidenceAssumption
  <2> QED
    BY <2>1, FS_Subset
<1>4. IsFiniteSet(S)
  <2> DEFINE f == [t \in top |-> phase(t)]
  <2>1. S = Named(f, top)
    BY DEF Named
  <2> HIDE DEF f, S
  <2> QED
    BY <1>3, <2>1, NamedFinite
<1>5. \A a, b \in S : a.tactic \in Nat /\ (a.tactic = b.tactic => a = b)
  <2>1. \A t, o \in top : /\ phase(t).tactic \in Nat
                          /\ phase(t).tactic = phase(o).tactic => phase(t) = phase(o)
    BY <1>1, <1>2
  <2> HIDE DEF phase
  <2> QED
    BY <2>1
<1>6. /\ sc \in [1 .. Cardinality(S) -> S]
      /\ \A i, j \in DOMAIN sc : i < j => sc[i] # sc[j] /\ sc[i].tactic <= sc[j].tactic
  BY <1>1
<1> HIDE DEF S
<1>7. Cardinality(S) \in Nat
  BY <1>4, FS_CardinalityType
<1>8. sc \in Seq(S)
  BY <1>6, <1>7
<1>9. \A i \in DOMAIN sc : sc[i] \in S
  BY <1>6
<1>10. TacticsRise(sc)
  BY <1>5, <1>6, <1>9 DEF TacticsRise
<1> QED
  BY <1>5, <1>8, <1>9, <1>10, ListOfOwn DEF ScenarioOK, IsList

\* The share that c of n make in thousandths is the full one for all of them only.
LEMMA FullShare ==
    ASSUME NEW n \in Nat, n # 0, NEW c \in 0 .. n
    PROVE  (1000 * c) \div n = 1000 <=> c = n
<1> DEFINE q == (1000 * c) \div n
           m == n * q
<1>1. q \in Int /\ n * q <= 1000 * c /\ 1000 * c < n * q + n
  OBVIOUS
<1>2. q = 1000 => c = n
  BY <1>1
<1>3. c = n => (1000 * n) \div n = 1000
  OBVIOUS
<1> QED
  BY <1>2, <1>3

LEMMA EmulationSound ==
    ASSUME ScenarioOK(scenario), RunEmulation
    PROVE  \A e \in ToSet(emulation') : e.rate = 1000 <=> e.missed = {}
<1> DEFINE P == ToSet(scenario)
           caught == {p \in P : checkDetectionExists(p.tech)}
           n == Len(scenario)
           c == Cardinality(caught)
           e == [detected |-> {p.tech : p \in caught},
                 missed |-> {p.tech : p \in P \ caught},
                 rate |-> (1000 * c) \div n]
<1>1. emulation' = <<e>> /\ scenario # <<>>
  BY DEF RunEmulation
<1>2. e.missed = {} <=> caught = P
  OBVIOUS
<1>3. n \in Nat /\ n # 0 /\ DOMAIN scenario = 1 .. n
  BY <1>1 DEF ScenarioOK
<1>4. scenario \in Bijection(1 .. n, P)
  <2>1. \A i, j \in 1 .. n : scenario[i] = scenario[j] => i = j
    BY <1>3 DEF ScenarioOK, TacticsRise
  <2>2. scenario \in [1 .. n -> P] /\ P = {scenario[i] : i \in 1 .. n}
    BY <1>3 DEF ScenarioOK, ToSet
  <2> QED
    BY <2>1, <2>2 DEF Bijection, Injection, Surjection, IsInjective
<1> HIDE DEF n, P
<1>5. IsFiniteSet(P) /\ Cardinality(P) = n
  BY <1>3, <1>4, FS_Interval, FS_Bijection DEF ExistsBijection
<1>6. caught \subseteq P
  OBVIOUS
<1> HIDE DEF caught
<1>7. c \in 0 .. n /\ (c = n <=> caught = P)
  BY <1>3, <1>5, <1>6, FS_Subset, FS_CardinalityType
<1> HIDE DEF c
<1>8. (1000 * c) \div n = 1000 <=> c = n
  BY <1>3, <1>7, FullShare
<1>9. e.rate = 1000 <=> e.missed = {}
  BY <1>2, <1>7, <1>8
<1> HIDE DEF e
<1> QED
  BY <1>1, <1>9 DEF ToSet

(* Hypotheses. *)

Subjects == (UNION {DOMAIN Transitions[t] : t \in DOMAIN Transitions}) \cup Seen \cup {"T1071"}
Sources == {"transition_prediction", "anomaly_driven", "beacon_detection"}

LEMMA SubjectsFinite == IsFiniteSet(Subjects \X Sources)
<1> DEFINE f == [t \in DOMAIN Transitions |-> DOMAIN Transitions[t]]
           U == {DOMAIN Transitions[t] : t \in DOMAIN Transitions}
<1>1. U = Named(f, DOMAIN Transitions)
  BY DEF Named
<1>2. \A T \in U : IsFiniteSet(T)
  BY EvidenceAssumption
<1>3. IsFiniteSet(DOMAIN Transitions) /\ IsFiniteSet(Techniques) /\ Seen \subseteq Techniques
  BY EvidenceAssumption
<1> HIDE DEF U, f
<1>4. IsFiniteSet(U)
  BY <1>1, <1>3, NamedFinite
<1>5. IsFiniteSet(UNION U) /\ IsFiniteSet(Seen) /\ IsFiniteSet({"T1071"})
  BY <1>2, <1>3, <1>4, FS_UNION, FS_Subset, FS_Singleton
<1>6. IsFiniteSet((UNION U) \cup Seen)
  BY <1>5, FS_Union
<1>7. IsFiniteSet(((UNION U) \cup Seen) \cup {"T1071"})
  BY <1>5, <1>6, FS_Union
<1>8. IsFiniteSet(Subjects)
  BY <1>7 DEF Subjects, U
<1>9. IsFiniteSet(Sources)
  <2>1. IsFiniteSet({"transition_prediction"})
    BY FS_Singleton
  <2>2. IsFiniteSet({"transition_prediction"} \cup {"anomaly_driven"})
    BY <2>1, FS_AddElement
  <2>3. IsFiniteSet(({"transition_prediction"} \cup {"anomaly_driven"}) \cup {"beacon_detection"})
    BY <2>2, FS_AddElement
  <2>4. Sources = ({"transition_prediction"} \cup {"anomaly_driven"}) \cup {"beacon_detection"}
    BY DEF Sources
  <2> QED
    BY <2>3, <2>4
<1> QED
  BY <1>8, <1>9, FS_Product

LEMMA ProposalsAre ==
    ASSUME EvidenceTypes, NEW h
    PROVE  proposals(h) \in SUBSET (Subjects \X Sources)
<1>1. \A a \in ToSet(highAnomalies(h)) : a.tech \in Seen
  <2>1. highAnomalies(h) \in Seq(HighOnes)
    BY HighAnomalies
  <2>2. \A a \in HighOnes : a.tech \in Seen
    BY DEF HighOnes, Anomalies
  <2> HIDE DEF highAnomalies
  <2> QED
    BY <2>1, <2>2 DEF ToSet
<1>2. \A t : predictNextTechniques(t) \subseteq UNION {DOMAIN Transitions[u] : u \in DOMAIN Transitions}
  BY DEF predictNextTechniques
<1> QED
  BY <1>1, <1>2 DEF proposals, Subjects, Sources

\* The list of a finite set has each of its elements once.
LEMMA ListOfSet ==
    ASSUME NEW S, IsFiniteSet(S)
    PROVE  /\ SetToSeq(S) \in Seq(S)
           /\ \A i, j \in DOMAIN SetToSeq(S) : SetToSeq(S)[i] = SetToSeq(S)[j] => i = j
<1> DEFINE n == Cardinality(S)
           All1 == {f \in [1 .. n -> S] : \A i, j \in DOMAIN f : f[i] = f[j] => i = j}
<1>1. n \in Nat /\ ExistsBijection(1 .. n, S)
  BY FS_CardinalityType
<1>2. \E f : f \in All1
  BY <1>1 DEF ExistsBijection, Bijection, Injection, IsInjective
<1>3. SetToSeq(S) = CHOOSE f \in [1 .. n -> S] : IsInjective(f)
  BY DEF SetToSeq
<1> HIDE DEF n
<1>4. SetToSeq(S) \in All1
  BY <1>2, <1>3 DEF IsInjective
<1> QED
  BY <1>1, <1>4

-----------------------------------------------------------------------------
HypShape(h) == h = [tech |-> h.tech, source |-> h.source, status |-> h.status]
Apart(q) == \A i, j \in DOMAIN q : q[i].tech = q[j].tech /\ q[i].source = q[j].source => i = j
HypothesesOK(q) ==
    /\ IsList(q)
    /\ \A i \in DOMAIN q : HypShape(q[i])
    /\ Apart(q)

LEMMA TrimmedOK ==
    ASSUME NEW q, HypothesesOK(q)
    PROVE  HypothesesOK(trimSlice(q))
<1>1. q \in Seq(ToSet(q))
  BY DEF HypothesesOK, IsList
<1>2. trimSlice(q) \in Seq(ToSet(q)) /\ Shifted(trimSlice(q), q)
  BY <1>1, TrimFacts
<1>3. IsList(trimSlice(q))
  BY <1>2, ListOfOwn
<1>4. DOMAIN trimSlice(q) \subseteq Int
  BY <1>2
<1> QED
  BY <1>2, <1>3, <1>4 DEF HypothesesOK, Shifted, Apart

\* Two lists without a common element make one in which the elements stay apart.
LEMMA JoinedOK ==
    ASSUME NEW p, HypothesesOK(p), NEW q, HypothesesOK(q),
           \A i \in DOMAIN p, j \in DOMAIN q : p[i].tech # q[j].tech \/ p[i].source # q[j].source
    PROVE  HypothesesOK(p \o q)
<1> DEFINE D == ToSet(p) \cup ToSet(q)
           r == p \o q
<1>1. p \in Seq(D) /\ q \in Seq(D)
  BY DEF HypothesesOK, IsList
<1> HIDE DEF D
<1>2. /\ r \in Seq(D) /\ Len(p) \in Nat /\ Len(q) \in Nat
      /\ DOMAIN p = 1 .. Len(p) /\ DOMAIN q = 1 .. Len(q) /\ DOMAIN r = 1 .. Len(p) + Len(q)
      /\ \A i \in DOMAIN p : r[i] = p[i]
      /\ \A i \in DOMAIN r : i \notin DOMAIN p => i - Len(p) \in DOMAIN q /\ r[i] = q[i - Len(p)]
  BY <1>1
<1> HIDE DEF r
<1>3. \A i \in DOMAIN r : HypShape(r[i])
  BY <1>2 DEF HypothesesOK
<1>4. Apart(r)
  <2> SUFFICES ASSUME NEW i \in DOMAIN r, NEW j \in DOMAIN r, r[i].tech = r[j].tech, r[i].source = r[j].source
               PROVE  i = j
    BY DEF Apart
  <2>1. Apart(p) /\ Apart(q)
    BY DEF HypothesesOK
  <2>2. CASE i \in DOMAIN p /\ j \in DOMAIN p
    BY <1>2, <2>1, <2>2 DEF Apart
  <2>3. CASE i \in DOMAIN p /\ j \notin DOMAIN p
    BY <1>2, <2>3
  <2>4. CASE i \notin DOMAIN p /\ j \in DOMAIN p
    BY <1>2, <2>4
  <2>5. CASE i \notin DOMAIN p /\ j \notin DOMAIN p
    <3>1. i - Len(p) = j - Len(p)
      BY <1>2, <2>1, <2>5 DEF Apart
    <3> QED
      BY <1>2, <3>1
  <2> QED
    BY <2>2, <2>3, <2>4, <2>5
<1> QED
  BY <1>2, <1>3, <1>4, ListOfOwn DEF HypothesesOK, r

LEMMA ProposedOK ==
    ASSUME EvidenceTypes, HypothesesOK(hypotheses), NEW h, AutoGenerateHypotheses(h)
    PROVE  HypothesesOK(hypotheses')
<1> DEFINE listed == {<<y.tech, y.source>> : y \in ToSet(hypotheses)}
           fresh == proposals(h) \ listed
           f == [p \in fresh |-> [tech |-> p[1], source |-> p[2], status |-> "active"]]
           new == {[tech |-> p[1], source |-> p[2], status |-> "active"] : p \in fresh}
           q == SetToSeq(new)
<1>1. hypotheses' = trimSlice(hypotheses \o q)
  BY DEF AutoGenerateHypotheses, Step
<1>2. fresh \in SUBSET (Subjects \X Sources)
  BY ProposalsAre
<1>3. new = Named(f, fresh)
  BY DEF Named
<1>4. \A x \in new : HypShape(x) /\ <<x.tech, x.source>> \in fresh /\ x.status = "active"
  BY <1>2 DEF HypShape
<1>5. \A i \in DOMAIN hypotheses : <<hypotheses[i].tech, hypotheses[i].source>> \notin fresh
  BY DEF ToSet
<1> HIDE DEF fresh, f, new
<1>6. IsFiniteSet(fresh)
  BY <1>2, SubjectsFinite, FS_Subset
<1>7. IsFiniteSet(new)
  BY <1>3, <1>6, NamedFinite
<1>8. q \in Seq(new) /\ \A i, j \in DOMAIN q : q[i] = q[j] => i = j
  BY <1>7, ListOfSet
<1> HIDE DEF q
<1>9. \A x, y \in new : x.tech = y.tech /\ x.source = y.source => x = y
  BY <1>4 DEF HypShape
<1>10. \A i \in DOMAIN q : q[i] \in new
  BY <1>8
<1>11. Apart(q)
  BY <1>8, <1>9, <1>10 DEF Apart
<1>12. HypothesesOK(q)
  BY <1>4, <1>8, <1>10, <1>11, ListOfOwn DEF HypothesesOK
<1>13. \A i \in DOMAIN hypotheses, j \in DOMAIN q :
          hypotheses[i].tech # q[j].tech \/ hypotheses[i].source # q[j].source
  BY <1>4, <1>5, <1>10
<1> QED
  BY <1>1, <1>12, <1>13, JoinedOK, TrimmedOK

LEMMA HuntedOK ==
    ASSUME HypothesesOK(hypotheses), NEW i \in DOMAIN hypotheses,
           hypotheses' = [hypotheses EXCEPT ![i].status = "completed"]
    PROVE  HypothesesOK(hypotheses')
<1> DEFINE x == [hypotheses[i] EXCEPT !.status = "completed"]
           D == ToSet(hypotheses) \cup {x}
<1>1. HypShape(hypotheses[i])
  BY DEF HypothesesOK
<1>2. HypShape(x) /\ x.tech = hypotheses[i].tech /\ x.source = hypotheses[i].source
  BY <1>1 DEF HypShape
<1>3. hypotheses' = [hypotheses EXCEPT ![i] = x]
  OBVIOUS
<1> HIDE DEF x
<1>4. hypotheses \in Seq(D)
  BY DEF HypothesesOK, IsList
<1> HIDE DEF D
<1>5. hypotheses' \in Seq(D) /\ DOMAIN hypotheses' = DOMAIN hypotheses
  BY <1>3, <1>4 DEF D
<1>6. \A j \in DOMAIN hypotheses' : /\ HypShape(hypotheses'[j])
                                    /\ hypotheses'[j].tech = hypotheses[j].tech
                                    /\ hypotheses'[j].source = hypotheses[j].source
  BY <1>2, <1>3, <1>4 DEF HypothesesOK
<1>7. Apart(hypotheses')
  BY <1>5, <1>6 DEF HypothesesOK, Apart
<1> QED
  BY <1>5, <1>6, <1>7, ListOfOwn DEF HypothesesOK

ChainShape(c) ==
    c = [host |-> c.host, stages |-> c.stages, attribution |-> c.attribution, severity |-> c.severity,
         score |-> c.score]
ChainOK(c) ==
    /\ ChainShape(c)
    /\ \A i \in DOMAIN c.stages : StageOK(c.stages[i])
    /\ InOrder(c.stages)
    /\ c.attribution \in DOMAIN Groups => Shares(c.stages, c.attribution) \/ IocSeen

ChainsOK == IsList(chains) /\ \A i \in DOMAIN chains : ChainOK(chains[i])
IocsOK ==
    /\ DOMAIN iocChecks = Techniques
    /\ iocs # <<>> => IocSeen
RateOK(e) == e.rate = 1000 <=> e.missed = {}

EvidenceInv ==
    /\ EvidenceTypes
    /\ IocsOK
    /\ ChainsOK
    /\ HypothesesOK(hypotheses)
    /\ scenario = <<>> \/ ScenarioOK(scenario)
    /\ \A e \in ToSet(emulation) : RateOK(e)

LEMMA EvidenceInitInv == EvidenceInit => EvidenceInv
<1> SUFFICES ASSUME EvidenceInit PROVE EvidenceInv
  OBVIOUS
<1>1. EvidenceTypes
  BY DEF EvidenceInit, EvidenceTypes
<1>2. IsList(<<>>)
  BY DEF IsList
<1>3. IocsOK
  BY DEF EvidenceInit, IocsOK
<1>4. HypothesesOK(<<>>)
  BY <1>2 DEF HypothesesOK, Apart
<1>5. ToSet(<<>>) = {}
  BY DEF ToSet
<1> QED
  BY <1>1, <1>2, <1>3, <1>4, <1>5 DEF EvidenceInit, EvidenceInv, ChainsOK

\* The names of indicators in the checks only grow.
LEMMA ChainsSame ==
    ASSUME ChainsOK, IocSeen => IocSeen', chains' = chains
    PROVE  ChainsOK'
  BY DEF ChainsOK, ChainOK

LEMMA KeptOfList ==
    ASSUME NEW q, IsList(q), NEW x
    PROVE  IsList(Kept(q, x)) /\ ComesFrom(Kept(q, x), q, x)
<1> DEFINE D == ToSet(q) \cup {x}
<1>1. q \in Seq(D) /\ x \in D
  BY DEF IsList
<1> HIDE DEF D
<1> QED
  BY <1>1, KeptFacts, ListOfOwn

LEMMA ReconstructOK ==
    ASSUME EvidenceInv, NEW h, ReconstructAttackChain(h)
    PROVE  ChainsOK' /\ iocChecks' = iocChecks
<1>0. PICK ss \in stages(h) : \E g \in attributions(ss) :
         chains' = Kept(chains, [host |-> h, stages |-> ss, attribution |-> g,
                                 severity |-> calculateChainSeverity(ss), score |-> calculateChainScore(ss)])
  BY DEF ReconstructAttackChain, Step
<1>1. PICK g \in attributions(ss) :
         chains' = Kept(chains, [host |-> h, stages |-> ss, attribution |-> g,
                                 severity |-> calculateChainSeverity(ss), score |-> calculateChainScore(ss)])
  BY <1>0
<1>2. iocChecks' = iocChecks /\ (IocSeen <=> IocSeen')
  BY DEF ReconstructAttackChain, Step, IocSeen
<1> DEFINE x == [host |-> h, stages |-> ss, attribution |-> g,
                 severity |-> calculateChainSeverity(ss), score |-> calculateChainScore(ss)]
<1>3. /\ \A i \in DOMAIN ss : StageOK(ss[i])
      /\ InOrder(ss)
  BY StagesInOrder DEF EvidenceInv
<1>4. g \in DOMAIN Groups => Shares(ss, g) \/ IocSeen
  BY AttributionSound DEF EvidenceInv, IocsOK
<1>5. ChainOK(x)
  BY <1>3, <1>4 DEF ChainOK, ChainShape
<1>6. IsList(chains) /\ \A i \in DOMAIN chains : ChainOK(chains[i])
  BY DEF EvidenceInv, ChainsOK
<1> HIDE DEF x
<1>7. /\ IsList(chains')
      /\ \A i \in DOMAIN chains' : chains'[i] = x \/ \E j \in DOMAIN chains : chains'[i] = chains[j]
  BY <1>1, <1>6, KeptOfList DEF ComesFrom, x
<1>8. \A i \in DOMAIN chains' : ChainOK(chains'[i])
  BY <1>5, <1>6, <1>7
<1> QED
  BY <1>2, <1>7, <1>8 DEF ChainsOK, ChainOK

LEMMA AttributeOK ==
    ASSUME EvidenceInv, NEW i \in DOMAIN chains, PerformAttribution(i)
    PROVE  ChainsOK' /\ iocChecks' = iocChecks
<1>1. PICK g \in attributions(chains[i].stages) : chains' = [chains EXCEPT ![i].attribution = g]
  BY DEF PerformAttribution, Step
<1>2. iocChecks' = iocChecks /\ (IocSeen <=> IocSeen')
  BY DEF PerformAttribution, Step, IocSeen
<1> DEFINE x == [chains[i] EXCEPT !.attribution = g]
           D == ToSet(chains) \cup {x}
<1>3. IsList(chains) /\ \A j \in DOMAIN chains : ChainOK(chains[j])
  BY DEF EvidenceInv, ChainsOK
<1>4. g \in DOMAIN Groups => Shares(chains[i].stages, g) \/ IocSeen
  BY AttributionSound DEF EvidenceInv, IocsOK
<1>5. ChainOK(chains[i])
  BY <1>3
<1>6. x.stages = chains[i].stages /\ x.attribution = g /\ ChainShape(x)
  BY <1>5 DEF ChainOK, ChainShape
<1>7. chains' = [chains EXCEPT ![i] = x]
  BY <1>1
<1> HIDE DEF x
<1>8. ChainOK(x)
  BY <1>4, <1>5, <1>6 DEF ChainOK
<1>9. chains \in Seq(D) /\ x \in D
  BY <1>3 DEF IsList
<1> HIDE DEF D
<1>10. chains' \in Seq(D) /\ DOMAIN chains' = DOMAIN chains
  BY <1>7, <1>9
<1>11. \A j \in DOMAIN chains' : chains'[j] = x \/ chains'[j] = chains[j]
  BY <1>7, <1>9
<1>12. \A j \in DOMAIN chains' : ChainOK(chains'[j])
  BY <1>3, <1>8, <1>10, <1>11
<1> QED
  BY <1>2, <1>10, <1>12, ListOfOwn DEF ChainsOK, ChainOK

-----------------------------------------------------------------------------
LEMMA WithoutFacts ==
    ASSUME NEW D, NEW q \in Seq(D), NEW i \in DOMAIN q
    PROVE  Without(q, i) \in Seq(D)
<1>1. i \in 1 .. Len(q) /\ Len(q) \in Nat
  OBVIOUS
<1>2. SubSeq(q, 1, i - 1) \in Seq(D) /\ SubSeq(q, i + 1, Len(q)) \in Seq(D)
  BY <1>1
<1> QED
  BY <1>2 DEF Without

LEMMA AlertTypes ==
    ASSUME EvidenceTypes, NEW h \in Hosts, NEW r \in DOMAIN Rules
    PROVE  [tech |-> Rules[r].tech, tactic |-> Rules[r].tactic, host |-> h, ack |-> FALSE, at |-> steps] \in Alerts
<1>1. Rules[r].tactic \in Nat /\ steps \in Nat
  BY EvidenceAssumption DEF EvidenceTypes
<1> QED
  BY <1>1 DEF Alerts

LEMMA AddIOCOK ==
    ASSUME EvidenceInv, NEW t \in Seen, NEW c \in IocConfidences, NEW g \in DOMAIN Groups \cup {NoActor},
           AddIOC(t, t, c, g)
    PROVE  iocs' \in Seq(Iocs) /\ IocsOK' /\ (IocSeen => IocSeen')
<1> DEFINE new == [key |-> t, tech |-> t, conf |-> c, actor |-> g]
           old == {i \in DOMAIN iocs : iocs[i].key = t}
<1>1. new \in Iocs
  BY EvidenceAssumption DEF Iocs
<1>2. /\ iocs \in Seq(Iocs) /\ DOMAIN iocChecks = Techniques /\ (iocs # <<>> => IocSeen) /\ t \in Techniques
  BY EvidenceAssumption DEF EvidenceInv, EvidenceTypes, IocsOK
<1>3. CASE old # {}
  <2>1. iocs' = [i \in DOMAIN iocs |-> IF i \in old THEN new ELSE iocs[i]] /\ iocChecks' = iocChecks
    BY <1>3 DEF AddIOC, Step
  <2>2. IocSeen /\ IocSeen'
    <3>1. iocs # <<>>
      BY <1>3
    <3> QED
      BY <1>2, <2>1, <3>1 DEF IocSeen
  <2> HIDE DEF new, old
  <2>3. iocs' \in Seq(Iocs)
    BY <1>1, <1>2, <2>1
  <2> QED
    BY <1>2, <2>1, <2>2, <2>3 DEF IocsOK
<1>4. CASE old = {}
  <2>1. iocs' = Kept(iocs, new) /\ iocChecks' = [iocChecks EXCEPT ![t] = @ \cup {t}]
    BY <1>4 DEF AddIOC, Step
  <2>2. IocSeen'
    BY <1>2, <2>1 DEF IocSeen
  <2>3. iocs' \in Seq(Iocs)
    BY <1>1, <1>2, <2>1, KeptFacts
  <2>4. DOMAIN iocChecks' = Techniques
    BY <1>2, <2>1
  <2> QED
    BY <2>2, <2>3, <2>4 DEF IocsOK
<1> QED
  BY <1>3, <1>4


LEMMA EvidenceStepInv ==
    ASSUME EvidenceInv, [EvidenceNext]_evidenceVars
    PROVE  EvidenceInv'
<1> USE DEF EvidenceInv
<1>1. ASSUME EvidenceTypes', UNCHANGED <<iocs, iocChecks, chains, hypotheses, scenario, emulation>>
      PROVE  EvidenceInv'
  BY <1>1, ChainsSame DEF IocsOK, IocSeen
<1>2. ASSUME NEW h \in Hosts, NEW r \in DOMAIN Rules, EvaluateDetectionRule(r, h) PROVE EvidenceInv'
  <2> DEFINE x == [tech |-> Rules[r].tech, tactic |-> Rules[r].tactic, host |-> h, ack |-> FALSE, at |-> steps]
  <2>1. x \in Alerts
    BY AlertTypes
  <2>2. alerts' = Kept(alerts, x) /\ UNCHANGED <<anomalies, iocs, iocChecks, chains, hypotheses, scenario, emulation>> /\ steps' = steps + 1
    BY <1>2 DEF EvaluateDetectionRule, Step, Tick, beside
  <2> HIDE DEF x
  <2>3. EvidenceTypes'
    BY <2>1, <2>2, KeptFacts DEF EvidenceTypes
  <2> QED
    BY <1>1, <2>2, <2>3
<1>3. ASSUME NEW h \in Hosts, NEW t \in Seen, NEW s \in AnomalyScores, RecordAnomaly(h, t, s) PROVE EvidenceInv'
  <2> DEFINE x == [tech |-> t, host |-> h, score |-> s, at |-> steps]
  <2>1. x \in Anomalies
    BY EvidenceAssumption DEF Anomalies, EvidenceTypes
  <2>2. anomalies' = Kept(anomalies, x) /\ UNCHANGED <<alerts, iocs, iocChecks, chains, hypotheses, scenario, emulation>> /\ steps' = steps + 1
    BY <1>3 DEF RecordAnomaly, Step, Tick, beside
  <2> HIDE DEF x
  <2>3. EvidenceTypes'
    BY <2>1, <2>2, KeptFacts DEF EvidenceTypes
  <2> QED
    BY <1>1, <2>2, <2>3
<1>4. ASSUME NEW h \in Hosts, NEW t \in Seen, NEW sev, EvaluateBehavioralIndicators(h, t, sev) PROVE EvidenceInv'
  <2>1. UNCHANGED <<alerts, anomalies, iocs, iocChecks, chains, hypotheses, scenario, emulation>> /\ steps' = steps + 1
    BY <1>4 DEF EvaluateBehavioralIndicators, Step, Tick, beside
  <2> QED
    BY <1>1, <2>1 DEF EvidenceTypes
<1>5. ASSUME NEW h \in Hosts, NEW s, DetectBeaconing(h, s) PROVE EvidenceInv'
  <2>1. UNCHANGED <<alerts, anomalies, iocs, iocChecks, chains, hypotheses, scenario, emulation>> /\ steps' = steps + 1
    BY <1>5 DEF DetectBeaconing, Step, Tick, beside
  <2> QED
    BY <1>1, <2>1 DEF EvidenceTypes
<1>6. ASSUME NEW h \in Hosts, NEW d, NEW a, ObserveConnection(h, d, "ssh", a) PROVE EvidenceInv'
  <2>1. UNCHANGED <<alerts, anomalies, iocs, iocChecks, chains, hypotheses, scenario, emulation>> /\ steps' = steps + 1
    BY <1>6 DEF ObserveConnection, Tick, lists
  <2> QED
    BY <1>1, <2>1 DEF EvidenceTypes
<1>7. ASSUME NEW t \in Seen, NEW c \in IocConfidences, NEW g \in DOMAIN Groups \cup {NoActor}, AddIOC(t, t, c, g)
      PROVE  EvidenceInv'
  <2>1. iocs' \in Seq(Iocs) /\ IocsOK' /\ (IocSeen => IocSeen')
    BY <1>7, AddIOCOK
  <2>2. UNCHANGED <<alerts, anomalies, chains, hypotheses, scenario, emulation>> /\ steps' = steps + 1
    BY <1>7 DEF AddIOC, Step, Tick, beside
  <2> QED
    BY <2>1, <2>2, ChainsSame DEF EvidenceTypes
<1>8. ASSUME NEW r, NEW on, RegisterDetectionRule(r, on) PROVE EvidenceInv'
  <2>1. UNCHANGED <<alerts, anomalies, iocs, iocChecks, chains, hypotheses, scenario, emulation>> /\ steps' = steps + 1
    BY <1>8 DEF RegisterDetectionRule, Step, Tick, beside, lists
  <2> QED
    BY <1>1, <2>1 DEF EvidenceTypes
<1>9. ASSUME NEW i \in DOMAIN alerts, AcknowledgeAlert(i) PROVE EvidenceInv'
  <2>1. alerts' = [alerts EXCEPT ![i].ack = TRUE]
        /\ UNCHANGED <<anomalies, iocs, iocChecks, chains, hypotheses, scenario, emulation>> /\ steps' = steps + 1
    BY <1>9 DEF AcknowledgeAlert, Step, Tick, beside
  <2>2. alerts' \in Seq(Alerts)
    <3> DEFINE x == [alerts[i] EXCEPT !.ack = TRUE]
    <3>1. alerts[i] \in Alerts /\ alerts \in Seq(Alerts)
      BY DEF EvidenceTypes
    <3>2. x \in Alerts
      BY <3>1 DEF Alerts
    <3>3. alerts' = [alerts EXCEPT ![i] = x]
      BY <2>1
    <3> HIDE DEF x
    <3> QED
      BY <3>1, <3>2, <3>3
  <2> QED
    BY <1>1, <2>1, <2>2 DEF EvidenceTypes
<1>10. ASSUME NEW i \in DOMAIN iocs, DeleteIOC(i) PROVE EvidenceInv'
  <2>1. iocs' = Without(iocs, i)
        /\ UNCHANGED <<alerts, anomalies, iocChecks, chains, hypotheses, scenario, emulation>> /\ steps' = steps + 1
    BY <1>10 DEF DeleteIOC, Step, Tick, beside
  <2>2. iocs' \in Seq(Iocs) /\ iocs # <<>>
    BY <2>1, WithoutFacts DEF EvidenceTypes
  <2>3. IocsOK' /\ (IocSeen => IocSeen')
    BY <2>1, <2>2 DEF IocsOK, IocSeen
  <2> QED
    BY <2>1, <2>2, <2>3, ChainsSame DEF EvidenceTypes
<1>11. ASSUME NEW h \in Hosts, AutoGenerateHypotheses(h) PROVE EvidenceInv'
  <2>1. HypothesesOK(hypotheses')
    BY <1>11, ProposedOK
  <2>2. UNCHANGED <<alerts, anomalies, iocs, iocChecks, chains, scenario, emulation>> /\ steps' = steps + 1
    BY <1>11 DEF AutoGenerateHypotheses, Step, Tick, beside
  <2> QED
    BY <2>1, <2>2, ChainsSame DEF EvidenceTypes, IocsOK, IocSeen
<1>12. ASSUME NEW h \in Hosts, NEW i \in DOMAIN hypotheses, ExecuteHunt(i, h) PROVE EvidenceInv'
  <2>1. hypotheses' = [hypotheses EXCEPT ![i].status = "completed"]
        /\ UNCHANGED <<alerts, anomalies, iocs, iocChecks, chains, scenario, emulation>> /\ steps' = steps + 1
    BY <1>12 DEF ExecuteHunt, Step, Tick, beside
  <2>2. HypothesesOK(hypotheses')
    BY <2>1, HuntedOK
  <2> QED
    BY <2>1, <2>2, ChainsSame DEF EvidenceTypes, IocsOK, IocSeen
<1>13. ASSUME NEW h \in Hosts, ReconstructAttackChain(h) PROVE EvidenceInv'
  <2>1. ChainsOK' /\ iocChecks' = iocChecks
    BY <1>13, ReconstructOK
  <2>2. UNCHANGED <<alerts, anomalies, iocs, hypotheses, scenario, emulation>> /\ steps' = steps + 1
    BY <1>13 DEF ReconstructAttackChain, Step, Tick, beside
  <2> QED
    BY <2>1, <2>2 DEF EvidenceTypes, IocsOK, IocSeen
<1>14. ASSUME NEW i \in DOMAIN chains, PerformAttribution(i) PROVE EvidenceInv'
  <2>1. ChainsOK' /\ iocChecks' = iocChecks
    BY <1>14, AttributeOK
  <2>2. UNCHANGED <<alerts, anomalies, iocs, hypotheses, scenario, emulation>> /\ steps' = steps + 1
    BY <1>14 DEF PerformAttribution, Step, Tick, beside
  <2> QED
    BY <2>1, <2>2 DEF EvidenceTypes, IocsOK, IocSeen
<1>15. ASSUME NEW g \in DOMAIN Groups, CreateScenario(g) PROVE EvidenceInv'
  <2>1. ScenarioOK(scenario')
    <3>1. scenario' \in scenariosFor(g)
      BY <1>15 DEF CreateScenario
    <3> QED
      BY <3>1, ScenariosSound
  <2>2. UNCHANGED <<alerts, anomalies, iocs, iocChecks, chains, hypotheses, emulation>> /\ steps' = steps + 1
    BY <1>15 DEF CreateScenario, Tick, lists
  <2> QED
    BY <2>1, <2>2, ChainsSame DEF EvidenceTypes, IocsOK, IocSeen
<1>16. CASE RunEmulation
  <2>1. \A e \in ToSet(emulation') : RateOK(e)
    <3>1. ScenarioOK(scenario)
      BY <1>16 DEF RunEmulation
    <3> QED
      BY <1>16, <3>1, EmulationSound DEF RateOK
  <2>2. UNCHANGED <<alerts, anomalies, iocs, iocChecks, chains, hypotheses, scenario>> /\ steps' = steps + 1
    BY <1>16 DEF RunEmulation, Tick, lists
  <2> QED
    BY <2>1, <2>2, ChainsSame DEF EvidenceTypes, IocsOK, IocSeen
<1>17. CASE StopAttck
  <2>1. /\ alerts' = <<>> /\ anomalies' = <<>> /\ iocs' = <<>> /\ hypotheses' = <<>> /\ chains' = <<>>
        /\ UNCHANGED <<iocChecks, scenario, emulation>> /\ steps' = steps + 1
    BY <1>17 DEF StopAttck, Tick
  <2>2. IsList(<<>>) /\ HypothesesOK(<<>>)
    BY DEF IsList, HypothesesOK, Apart
  <2> QED
    BY <2>1, <2>2 DEF EvidenceTypes, IocsOK, ChainsOK
<1>18. CASE UNCHANGED evidenceVars
  <2>1. UNCHANGED <<alerts, anomalies, iocs, iocChecks, chains, hypotheses, scenario, emulation, steps>>
    BY <1>18 DEF evidenceVars
  <2> QED
    BY <1>1, <2>1 DEF EvidenceTypes
<1>19. CASE AddsEvidence
  BY <1>2, <1>3, <1>4, <1>5, <1>6, <1>7, <1>19 DEF AddsEvidence
<1> QED
  BY <1>8, <1>9, <1>10, <1>11, <1>12, <1>13, <1>14, <1>15, <1>16, <1>17, <1>18, <1>19 DEF EvidenceNext

LEMMA ChainsSoundOf == EvidenceInv => ChainsSound
<1> SUFFICES ASSUME EvidenceInv PROVE ChainsSound
  OBVIOUS
<1>1. ASSUME NEW c \in ToSet(chains) PROVE ChainOK(c)
  BY <1>1 DEF EvidenceInv, ChainsOK, ToSet
<1>2. scenario = <<>> \/ TacticsRise(scenario)
  BY DEF EvidenceInv, ScenarioOK
<1>3. Apart(hypotheses) /\ \A e \in ToSet(emulation) : RateOK(e)
  BY DEF EvidenceInv, HypothesesOK
<1>4. \A c \in ToSet(chains) : /\ InOrder(c.stages)
                               /\ \A s \in ToSet(c.stages) : s.conf \in 1 .. 1000
                               /\ c.attribution \in DOMAIN Groups => Shares(c.stages, c.attribution) \/ IocSeen
  BY <1>1 DEF ChainOK, StageOK, ToSet
<1> QED
  BY <1>2, <1>3, <1>4 DEF ChainsSound, InOrder, TacticsRise, Apart, RateOK, Shares, IocSeen

\* Attack chains, attributions, scenarios, emulations and hypotheses say what was seen, for any
\* rules, groups and evidence.
THEOREM ChainsAreSound == EvidenceSpec => []ChainsSound
<1>1. EvidenceInv /\ [EvidenceNext]_evidenceVars => EvidenceInv'
  BY EvidenceStepInv
<1> QED
  BY <1>1, EvidenceInitInv, ChainsSoundOf, PTL DEF EvidenceSpec

\* What the analysis keeps of its evidence is sound: chains, records and threats together.
THEOREM AnalysisKeepsSound == AnalysisSpec => []EvidenceSound
<1>1. EvidenceSpec => []ChainsSound
  BY ChainsAreSound
<1>2. CtiInit /\ [][CtiNext]_ctiVars => []CtiSound
  BY FeedsAreSound DEF CtiSpec
<1>3. PipelineInit /\ [][PipelineNext]_pipelineVars => []RecordsConsistent
  BY RecordsAreConsistent DEF PipelineSpec
<1>4. ChainsSound /\ RecordsConsistent /\ CtiSound => EvidenceSound
  BY DEF EvidenceSound
<1> QED
  BY <1>1, <1>2, <1>3, <1>4, PartsStepAlone, PTL

-----------------------------------------------------------------------------
(* Comparisons of one step. *)

\* Every check that fails failed before, and every one that passed still does.
Better(old, new) ==
    \A c \in MappedChecks : (new[c] = "fail" => old[c] = "fail") /\ (old[c] = "pass" => new[c] = "pass")

ResultsTyped == results \in [MappedChecks -> {"pass", "fail", "absent"}]
FixInv == ResultsTyped /\ PipelineInv

LEMMA FixesBetter ==
    ASSUME ResultsTyped, Fixes(results, results')
    PROVE  Better(results, results')
<1>1. PICK c \in MappedChecks : results' = [results EXCEPT ![c] = "pass"]
  BY DEF Fixes
<1>2. /\ results'[c] = "pass"
      /\ \A d \in MappedChecks : d # c => results'[d] = results[d]
  BY <1>1 DEF ResultsTyped
<1> QED
  BY <1>2 DEF Better

LEMMA StepsUp ==
    ASSUME NEW n \in Nat, n # 0, NEW a \in Nat, NEW b \in Nat, a <= b
    PROVE  a \div n <= b \div n
<1> DEFINE p == a \div n
           q == b \div n
<1>1. /\ p \in Int /\ q \in Int /\ n * p <= a /\ a < n * p + n /\ n * q <= b /\ b < n * q + n
  OBVIOUS
<1> HIDE DEF p, q
<1>2. n * p < n * (q + 1)
  <2>1. n * (q + 1) = n * q + n
    BY <1>1
  <2> QED
    BY <1>1, <2>1
<1>3. p < q + 1
  BY <1>1, <1>2
<1> QED
  BY <1>1, <1>3 DEF p, q

Detects(cat, t, res) == {k \in entries(cat, t) : cat[k].det /\ ~failsIn(cat[k], res)}
Prevents(cat, t, res) == {k \in entries(cat, t) : cat[k].prev /\ ~failsIn(cat[k], res)}
LEMMA LessFails ==
    ASSUME NEW cat, CatalogueOK(cat), NEW old, NEW new, Better(old, new), NEW k \in DOMAIN cat, failsIn(cat[k], new)
    PROVE  failsIn(cat[k], old)
  BY DEF failsIn, CatalogueOK, Better

LEMMA LessFailed ==
    ASSUME NEW cat, CatalogueOK(cat), NEW old, NEW new, Better(old, new)
    PROVE  extractFailedTechniques(cat, new) \subseteq extractFailedTechniques(cat, old)
  BY LessFails DEF extractFailedTechniques

\* What is said of a tactic.
CompOf(cat, t, res) ==
    (400 * Cardinality(Detects(cat, t, res)) + 600 * Cardinality(Prevents(cat, t, res)))
        \div Cardinality(entries(cat, t))
BlindOf(cat, t, res) == {k[2] : k \in entries(cat, t) \ Detects(cat, t, res)}
RiskOf(comp) == IF comp < 250 THEN "red" ELSE IF comp < 500 THEN "orange" ELSE IF comp < 650 THEN "yellow" ELSE "green"
TacticsOf(cat) == {k[1] : k \in DOMAIN cat}

LEMMA CoverageIs ==
    ASSUME NEW cat, NEW res
    PROVE  /\ DOMAIN calculateCoverageLocked(cat, res) = TacticsOf(cat)
           /\ \A t \in TacticsOf(cat) :
                 /\ calculateCoverageLocked(cat, res)[t].comp = CompOf(cat, t, res)
                 /\ calculateCoverageLocked(cat, res)[t].blind = BlindOf(cat, t, res)
                 /\ calculateCoverageLocked(cat, res)[t].risk = RiskOf(CompOf(cat, t, res))
  BY DEF calculateCoverageLocked, TacticsOf, CompOf, BlindOf, RiskOf, Detects, Prevents

LEMMA CompGrows ==
    ASSUME NEW cat, CatalogueOK(cat), NEW old, NEW new, Better(old, new), NEW t \in TacticsOf(cat)
    PROVE  /\ CompOf(cat, t, old) \in Int /\ CompOf(cat, t, new) \in Int
           /\ CompOf(cat, t, old) <= CompOf(cat, t, new)
           /\ BlindOf(cat, t, new) \subseteq BlindOf(cat, t, old)
<1> DEFINE E == entries(cat, t)
           d1 == Detects(cat, t, old)
           d2 == Detects(cat, t, new)
           p1 == Prevents(cat, t, old)
           p2 == Prevents(cat, t, new)
<1>1. E \subseteq DOMAIN cat /\ E # {}
  BY DEF entries, TacticsOf
<1>2. d1 \subseteq d2 /\ p1 \subseteq p2 /\ d2 \subseteq E /\ p2 \subseteq E
  BY <1>1, LessFails DEF Detects, Prevents
<1>3. IsFiniteSet(E) /\ IsFiniteSet(d2) /\ IsFiniteSet(p2)
  BY <1>1, <1>2, FS_Subset DEF CatalogueOK
<1>4. /\ Cardinality(E) \in Nat /\ Cardinality(E) # 0
      /\ Cardinality(d1) \in Nat /\ Cardinality(d2) \in Nat /\ Cardinality(d1) <= Cardinality(d2)
      /\ Cardinality(p1) \in Nat /\ Cardinality(p2) \in Nat /\ Cardinality(p1) <= Cardinality(p2)
  BY <1>1, <1>2, <1>3, FS_Subset, FS_CardinalityType, FS_EmptySet
<1>5. BlindOf(cat, t, new) \subseteq BlindOf(cat, t, old)
  BY <1>2 DEF BlindOf
<1> DEFINE a == 400 * Cardinality(d1) + 600 * Cardinality(p1)
           b == 400 * Cardinality(d2) + 600 * Cardinality(p2)
           n == Cardinality(E)
<1>6. CompOf(cat, t, old) = a \div n /\ CompOf(cat, t, new) = b \div n
  BY DEF CompOf
<1> HIDE DEF E, d1, d2, p1, p2
<1>7. n \in Nat /\ n # 0 /\ a \in Nat /\ b \in Nat /\ a <= b
  BY <1>4
<1> HIDE DEF a, b, n
<1>8. a \div n \in Int /\ b \div n \in Int /\ a \div n <= b \div n
  BY <1>7, StepsUp
<1> QED
  BY <1>5, <1>6, <1>8

LEMMA LessBlind ==
    ASSUME NEW cat, CatalogueOK(cat), NEW old, NEW new, Better(old, new)
    PROVE  GetCoverageSummary(calculateCoverageLocked(cat, new)).blind
              <= GetCoverageSummary(calculateCoverageLocked(cat, old)).blind
<1> DEFINE B(res) == {t \in TacticsOf(cat) : RiskOf(CompOf(cat, t, res)) \in {"red", "orange"}}
<1>1. \A res : GetCoverageSummary(calculateCoverageLocked(cat, res)).blind = Cardinality(B(res))
  <2> TAKE res
  <2>1. {t \in DOMAIN calculateCoverageLocked(cat, res) : calculateCoverageLocked(cat, res)[t].risk \in {"red", "orange"}} = B(res)
    BY CoverageIs
  <2> QED
    BY <2>1 DEF GetCoverageSummary
<1>2. B(new) \subseteq B(old)
  <2> SUFFICES ASSUME NEW t \in TacticsOf(cat), RiskOf(CompOf(cat, t, new)) \in {"red", "orange"}
               PROVE  RiskOf(CompOf(cat, t, old)) \in {"red", "orange"}
    OBVIOUS
  <2>1. /\ CompOf(cat, t, old) \in Int /\ CompOf(cat, t, new) \in Int
        /\ CompOf(cat, t, old) <= CompOf(cat, t, new)
    BY CompGrows
  <2> QED
    BY <2>1 DEF RiskOf
<1>3. IsFiniteSet(TacticsOf(cat))
  <2> DEFINE f == [k \in DOMAIN cat |-> k[1]]
  <2>1. TacticsOf(cat) = Named(f, DOMAIN cat)
    BY DEF TacticsOf, Named
  <2> HIDE DEF f
  <2> QED
    BY <2>1, NamedFinite DEF CatalogueOK
<1>4. IsFiniteSet(B(old))
  BY <1>3, FS_Subset
<1> HIDE DEF B
<1> QED
  BY <1>1, <1>2, <1>4, FS_Subset

LEMMA StageGrows ==
    ASSUME NEW cat, CatalogueOK(cat), NEW old, NEW new, Better(old, new), NEW s
    PROVE  stageScore(cat, old, s) <= stageScore(cat, new, s)
<1> DEFINE M == Mine(cat, s)
           n == SumOf(Checked(cat, s), M)
           f == Passed(cat, old, s)
           g == Passed(cat, new, s)
<1>1. /\ IsFiniteSet(M) /\ n \in Nat
      /\ \A k \in M : IsFiniteSet(cat[k].checks) /\ f[k] \in Nat /\ g[k] \in Nat
      /\ SumOf(f, M) \in 0 .. n /\ SumOf(g, M) \in 0 .. n
      /\ stageScore(cat, old, s) = IF n = 0 THEN 100 ELSE (100 * SumOf(f, M)) \div n
      /\ stageScore(cat, new, s) = IF n = 0 THEN 100 ELSE (100 * SumOf(g, M)) \div n
  BY StageScores
<1>2. \A k \in M : f[k] <= g[k]
  <2> TAKE k \in M
  <2> DEFINE A(res) == {c \in cat[k].checks : res[c] = "pass"}
  <2>1. A(old) \subseteq A(new) /\ A(new) \subseteq cat[k].checks
    BY DEF CatalogueOK, Better, Mine
  <2>2. IsFiniteSet(A(new))
    BY <1>1, <2>1, FS_Subset
  <2>3. Cardinality(A(old)) <= Cardinality(A(new))
    BY <2>1, <2>2, FS_Subset
  <2> QED
    BY <2>3 DEF Passed
<1> HIDE DEF M, n, f, g
<1>3. \A k \in M : f[k] \in Int /\ g[k] \in Int /\ f[k] <= g[k]
  BY <1>1, <1>2
<1> DEFINE a == SumOf(f, M)
           b == SumOf(g, M)
<1>4. a <= b
  BY <1>1, <1>3, SumCompare
<1>5. a \in Nat /\ b \in Nat
  BY <1>1
<1>6. stageScore(cat, old, s) = (IF n = 0 THEN 100 ELSE (100 * a) \div n) /\ stageScore(cat, new, s) = (IF n = 0 THEN 100 ELSE (100 * b) \div n)
  BY <1>1
<1> HIDE DEF a, b
<1>7. CASE n = 0
  BY <1>6, <1>7
<1>8. CASE n # 0
  <2>1. 100 * a \in Nat /\ 100 * b \in Nat /\ 100 * a <= 100 * b
    BY <1>4, <1>5
  <2>2. (100 * a) \div n <= (100 * b) \div n
    BY <1>1, <1>8, <2>1, StepsUp
  <2> QED
    BY <1>6, <1>8, <2>2
<1> QED
  BY <1>7, <1>8

LEMMA LessRisk ==
    ASSUME NEW S, NEW T, S \subseteq T
    PROVE  PredictRisk(S).risk <= PredictRisk(T).risk
<1>1. Risks(S) \subseteq Risks(T)
  BY DEF Risks
<1>2. PredictRisk(S).risk \in Risks(S) /\ \A m \in Risks(T) : m <= PredictRisk(T).risk
  BY PredictSound
<1> QED
  BY <1>1, <1>2

\* A rule more never lowers what the gap analysis gives a technique.
LEMMA GapGrows ==
    ASSUME CatalogueOK(catalogue), catalogue' = catalogue, rulesOn \subseteq rulesOn'
    PROVE  /\ gapReport(catalogue).score <= gapReport(catalogue)'.score
           /\ findDetectionGaps(catalogue)' \subseteq findDetectionGaps(catalogue)
<1> DEFINE D == DOMAIN catalogue
           f == [k \in D |-> controlScore(has(catalogue, k))]
           g == [k \in D |-> controlScore(has(catalogue, k))']
           n == Cardinality(D)
<1>1. findDetectionGaps(catalogue)' \subseteq findDetectionGaps(catalogue)
  BY DEF findDetectionGaps
<1>2. gapReport(catalogue).score = IF D = {} THEN 0 ELSE SumOf(f, D) \div n
  BY DEF gapReport, Total
<1>3. gapReport(catalogue)'.score = IF D = {} THEN 0 ELSE SumOf(g, D) \div n
  BY DEF gapReport, Total
<1>4. \A k \in D : f[k] \in Nat /\ g[k] \in Nat /\ f[k] <= g[k]
  <2> TAKE k \in D
  <2>1. f[k] = (IF catalogue[k].checks # {} THEN 40 ELSE 0) + (IF k[2] \in rulesOn THEN 35 ELSE 0)
               + (IF k[2] \in Mitigated THEN 25 ELSE 0)
    BY DEF controlScore, has
  <2>2. g[k] = (IF catalogue[k].checks # {} THEN 40 ELSE 0) + (IF k[2] \in rulesOn' THEN 35 ELSE 0)
               + (IF k[2] \in Mitigated THEN 25 ELSE 0)
    BY DEF controlScore, has
  <2> HIDE DEF f, g, D
  <2> QED
    BY <2>1, <2>2
<1>5. IsFiniteSet(D)
  BY DEF CatalogueOK
<1> HIDE DEF f, g, D
<1>6. D # {} => n \in Nat /\ n # 0
  BY <1>5, FS_CardinalityType, FS_EmptySet
<1> DEFINE a == SumOf(f, D)
           b == SumOf(g, D)
<1>7. a \in Nat /\ b \in Nat
  BY <1>4, <1>5, SumNat
<1>8. a <= b
  <2>1. \A k \in D : f[k] \in Int /\ g[k] \in Int /\ f[k] <= g[k]
    BY <1>4
  <2> QED
    BY <1>5, <2>1, SumCompare
<1>9. gapReport(catalogue).score = (IF D = {} THEN 0 ELSE a \div n) /\ gapReport(catalogue)'.score = (IF D = {} THEN 0 ELSE b \div n)
  BY <1>2, <1>3
<1> HIDE DEF a, b, n
<1>10. gapReport(catalogue).score <= gapReport(catalogue)'.score
  BY <1>6, <1>7, <1>8, <1>9, StepsUp
<1> QED
  BY <1>1, <1>10
LEMMA FixStep ==
    ASSUME FixInv, [PipelineNext]_pipelineVars
    PROVE  ResultsTyped'
<1>1. ASSUME NEW res \in [MappedChecks -> {"pass", "fail", "absent"}], PublishResult(res) PROVE ResultsTyped'
  BY <1>1 DEF PublishResult, ResultsTyped
<1>2. ASSUME results' = results PROVE ResultsTyped'
  BY <1>2 DEF FixInv, ResultsTyped
<1>3. ASSUME NEW r \in runs,
             RunExtract(r) \/ RunCoverage(r) \/ RunKillChain(r)
             \/ triggerAlertsForFailedChecks(r) \/ RunGap(r) \/ storeAnalysisRecord(r)
      PROVE  results' = results
  BY <1>3 DEF RunExtract, RunCoverage, RunKillChain, triggerAlertsForFailedChecks, RunGap, storeAnalysisRecord
<1>4. ASSUME NEW t, NEW x, NEW cs, AddTechniqueToTactic(t, x, cs) \/ UpdateCheckMapping(x, cs) \/ ToggleRule(t)
      PROVE  results' = results
  BY <1>4 DEF AddTechniqueToTactic, UpdateCheckMapping, ToggleRule
<1>5. ASSUME NEW i, NEW s, CreateImprovementTrack \/ UpdateImprovementAction(i, s) PROVE results' = results
  BY <1>5 DEF CreateImprovementTrack, UpdateImprovementAction
<1>6. CASE UNCHANGED pipelineVars
  BY <1>2, <1>6 DEF pipelineVars
<1> QED
  BY <1>1, <1>2, <1>3, <1>4, <1>5, <1>6 DEF PipelineNext

FixStepHelps ==
    /\ catalogue' = catalogue /\ Fixes(results, results') =>
          LET old == results
              new == results'
              covOld == calculateCoverageLocked(catalogue, old)
              covNew == calculateCoverageLocked(catalogue, new)
          IN  /\ extractFailedTechniques(catalogue, new) \subseteq extractFailedTechniques(catalogue, old)
              /\ \A t \in DOMAIN covOld : covOld[t].comp <= covNew[t].comp
                                          /\ covNew[t].blind \subseteq covOld[t].blind
              /\ GetCoverageSummary(covNew).blind <= GetCoverageSummary(covOld).blind
              /\ \A s \in DOMAIN KillStages :
                    stageScore(catalogue, old, s) <= stageScore(catalogue, new, s)
              /\ PredictRisk(extractFailedTechniques(catalogue, new)).risk
                    <= PredictRisk(extractFailedTechniques(catalogue, old)).risk
    /\ catalogue' = catalogue /\ rulesOn \subseteq rulesOn' =>
          /\ gapReport(catalogue).score <= gapReport(catalogue)'.score
          /\ findDetectionGaps(catalogue)' \subseteq findDetectionGaps(catalogue)

LEMMA FixHelps ==
    ASSUME FixInv
    PROVE  FixStepHelps
<1>1. CatalogueOK(catalogue)
  BY DEF FixInv, PipelineInv
<1>2. ASSUME catalogue' = catalogue, rulesOn \subseteq rulesOn'
      PROVE  /\ gapReport(catalogue).score <= gapReport(catalogue)'.score
             /\ findDetectionGaps(catalogue)' \subseteq findDetectionGaps(catalogue)
  BY <1>1, <1>2, GapGrows
<1>3. ASSUME Fixes(results, results')
      PROVE  LET old == results
                 new == results'
                 covOld == calculateCoverageLocked(catalogue, old)
                 covNew == calculateCoverageLocked(catalogue, new)
             IN  /\ extractFailedTechniques(catalogue, new) \subseteq extractFailedTechniques(catalogue, old)
                 /\ \A t \in DOMAIN covOld : covOld[t].comp <= covNew[t].comp
                                             /\ covNew[t].blind \subseteq covOld[t].blind
                 /\ GetCoverageSummary(covNew).blind <= GetCoverageSummary(covOld).blind
                 /\ \A s \in DOMAIN KillStages :
                       stageScore(catalogue, old, s) <= stageScore(catalogue, new, s)
                 /\ PredictRisk(extractFailedTechniques(catalogue, new)).risk
                       <= PredictRisk(extractFailedTechniques(catalogue, old)).risk
  <2>1. Better(results, results')
    BY <1>3, FixesBetter DEF FixInv
  <2>2. extractFailedTechniques(catalogue, results') \subseteq extractFailedTechniques(catalogue, results)
    BY <1>1, <2>1, LessFailed
  <2>3. PredictRisk(extractFailedTechniques(catalogue, results')).risk
           <= PredictRisk(extractFailedTechniques(catalogue, results)).risk
    BY <2>2, LessRisk
  <2>4. \A s : stageScore(catalogue, results, s) <= stageScore(catalogue, results', s)
    BY <1>1, <2>1, StageGrows
  <2>5. GetCoverageSummary(calculateCoverageLocked(catalogue, results')).blind
           <= GetCoverageSummary(calculateCoverageLocked(catalogue, results)).blind
    BY <1>1, <2>1, LessBlind
  <2>6. ASSUME NEW t \in DOMAIN calculateCoverageLocked(catalogue, results)
        PROVE  /\ calculateCoverageLocked(catalogue, results)[t].comp <= calculateCoverageLocked(catalogue, results')[t].comp
               /\ calculateCoverageLocked(catalogue, results')[t].blind \subseteq calculateCoverageLocked(catalogue, results)[t].blind
    <3>1. t \in TacticsOf(catalogue)
      BY CoverageIs
    <3>2. /\ CompOf(catalogue, t, results) <= CompOf(catalogue, t, results')
          /\ BlindOf(catalogue, t, results') \subseteq BlindOf(catalogue, t, results)
      BY <1>1, <2>1, <3>1, CompGrows
    <3> QED
      BY <3>1, <3>2, CoverageIs
  <2> QED
    BY <2>2, <2>3, <2>4, <2>5, <2>6
<1> QED
  BY <1>2, <1>3 DEF FixStepHelps

\* Fixing a check never makes the host look worse, and a rule more never lowers the score of
\* the gap analysis: for any catalogue, stages, transition matrix and results.
THEOREM FixesHelp == PipelineSpec => FixingHelps
<1>1. PipelineInit => FixInv
  <2>1. PipelineInit => ResultsTyped
    BY DEF PipelineInit, ResultsTyped
  <2> QED
    BY <2>1, PipelineInitInv DEF FixInv
<1>2. FixInv /\ [PipelineNext]_pipelineVars => FixInv'
  BY FixStep, PipelineStepInv DEF FixInv
<1>3. FixInv => [FixStepHelps]_pipelineVars
  BY FixHelps
<1>4. PipelineInit /\ [][PipelineNext]_pipelineVars => [][FixStepHelps]_pipelineVars
  BY <1>1, <1>2, <1>3, PTL
<1>5. [][FixStepHelps]_pipelineVars => FixingHelps
  BY PTL DEF FixingHelps, FixStepHelps
<1> QED
  BY <1>4, <1>5 DEF PipelineSpec
=============================================================================
