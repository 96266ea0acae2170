-------------------------------- MODULE Sums --------------------------------
(***************************************************************************)
(* Sums over finite sets, as MapThenSumSet of FiniteSetsExt forms them,    *)
(* and what the proofs need of them: they are integers, grow by the weight *)
(* of an element that is added, and depend on the weights alone.  The      *)
(* library's induction theorems take an operator; SubsetInduction is the   *)
(* same fact about a set of subsets.                                       *)
(***************************************************************************)
EXTENDS Integers, FiniteSetsExt, FiniteSetTheorems, WellFoundedInduction, TLAPS

\* The sum of w[x] for the x in S, and of c[p[x]].
Sum(w, S) == MapThenSumSet(LAMBDA x : w[x], S)
SumVia(c, p, S) == MapThenSumSet(LAMBDA x : c[p[x]], S)

\* g gives every subset of U the sum of its weights.
Additive(g, w, U) ==
  /\ g \in [SUBSET U -> Int]
  /\ g[{}] = 0
  /\ \A A \in SUBSET U, x \in U : x \notin A => g[A \cup {x}] = g[A] + w[x]

\* The equation that defines a sum.
Some(s) == CHOOSE x \in s : TRUE
Body(w, S, h) ==
  [s \in SUBSET S |-> IF s = {} THEN 0 ELSE w[Some(s)] + h[s \ {Some(s)}]]

-----------------------------------------------------------------------------
\* What holds of a set whenever it holds of the set without any one of its
\* elements holds of every subset of a finite set.
LEMMA SubsetInduction ==
  ASSUME NEW U, IsFiniteSet(U), NEW Good,
         \A A \in SUBSET U : (\A x \in A : A \ {x} \in Good) => A \in Good
  PROVE  \A A \in SUBSET U : A \in Good
<1>. DEFINE Bad == {A \in SUBSET U : A \notin Good}
<1>. SUFFICES ASSUME Bad # {} PROVE FALSE
  OBVIOUS
<1>1. IsWellFoundedOn(StrictSubsetOrdering(U), SUBSET U)
  <2>1. FiniteSubsetsOf(U) = SUBSET U
    BY FS_FiniteSubsetsOfFinite
  <2>2. IsWellFoundedOn(StrictSubsetOrdering(U), FiniteSubsetsOf(U))
    BY FS_StrictSubsetOrderingWellFounded
  <2>. QED
    BY <2>1, <2>2
<1>2. PICK A \in Bad : \A B \in Bad : <<B, A>> \notin StrictSubsetOrdering(U)
  <2>1. Bad \subseteq SUBSET U
    OBVIOUS
  <2>. HIDE DEF Bad
  <2>. QED
    BY <1>1, <2>1, WFMin
<1>3. ASSUME NEW x \in A
      PROVE  A \ {x} \in Good
  <2>1. A \ {x} \in SUBSET U /\ A \in SUBSET U /\ A \ {x} # A
    OBVIOUS
  <2>2. <<A \ {x}, A>> \in StrictSubsetOrdering(U)
    BY <2>1 DEF StrictSubsetOrdering
  <2>3. A \ {x} \notin Bad
    BY <1>2, <2>2
  <2>. QED
    BY <2>1, <2>3
<1>. QED
  BY <1>3

\* Every finite set has its sums.
LEMMA AdditiveExists ==
  ASSUME NEW U, IsFiniteSet(U), NEW w, \A x \in U : w[x] \in Int
  PROVE  \E g : Additive(g, w, U)
<1>. DEFINE Good == {A \in SUBSET U : \E g : Additive(g, w, A)}
<1>1. \A D \in SUBSET U : (\A x \in D : D \ {x} \in Good) => D \in Good
  <2>. SUFFICES ASSUME NEW D \in SUBSET U, \A x \in D : D \ {x} \in Good
                PROVE  D \in Good
    OBVIOUS
  <2>. SUFFICES \E h : Additive(h, w, D)
    OBVIOUS
  <2>0. CASE D = {}
    <3>1. Additive([B \in SUBSET D |-> 0], w, D)
      BY <2>0 DEF Additive
    <3>. QED
      BY <3>1
  <2>. SUFFICES ASSUME D # {} PROVE \E h : Additive(h, w, D)
    BY <2>0
  <2>. PICK x \in D : TRUE
    OBVIOUS
  <2>. DEFINE A == D \ {x}
  <2>1. PICK g : Additive(g, w, A)
    OBVIOUS
  <2>w. x \in U /\ x \notin A /\ D = A \cup {x} /\ A \subseteq U
    OBVIOUS
  <2>. HIDE DEF A
  <2>. DEFINE h == [B \in SUBSET (A \cup {x}) |->
                      g[B \ {x}] + IF x \in B THEN w[x] ELSE 0]
  <2>2. \A B \in SUBSET (A \cup {x}) : B \ {x} \in SUBSET A
    OBVIOUS
  <2>3. h \in [SUBSET (A \cup {x}) -> Int]
    BY <2>1, <2>2 DEF Additive
  <2>4. h[{}] = 0
    BY <2>1 DEF Additive
  <2>5. ASSUME NEW B \in SUBSET (A \cup {x}), NEW y \in A \cup {x}, y \notin B
        PROVE  h[B \cup {y}] = h[B] + w[y]
    <3>1. B \cup {y} \in SUBSET (A \cup {x})
      OBVIOUS
    <3>2. g[B \ {x}] \in Int /\ w[x] \in Int /\ w[y] \in Int
      BY <2>1, <2>2, <2>w DEF Additive
    <3>3. /\ h[B] = g[B \ {x}] + IF x \in B THEN w[x] ELSE 0
          /\ h[B \cup {y}] = g[(B \cup {y}) \ {x}]
                               + IF x \in B \cup {y} THEN w[x] ELSE 0
      BY <3>1
    <3>. HIDE DEF h
    <3>4. CASE y = x
      <4>1. (B \cup {y}) \ {x} = B \ {x} /\ x \in B \cup {y} /\ x \notin B
        BY <2>5, <3>4
      <4>2. h[B] = g[B \ {x}] + 0 /\ h[B \cup {y}] = g[B \ {x}] + w[y]
        BY <3>3, <3>4, <4>1
      <4>. QED
        BY <3>2, <4>2
    <3>5. CASE y # x
      <4>1. /\ (B \cup {y}) \ {x} = (B \ {x}) \cup {y}
            /\ x \in B \cup {y} <=> x \in B
        BY <3>5
      <4>2. B \ {x} \in SUBSET A /\ y \in A /\ y \notin B \ {x}
        BY <2>2, <2>5, <3>5
      <4>3. g[(B \ {x}) \cup {y}] = g[B \ {x}] + w[y]
        BY <2>1, <4>2 DEF Additive
      <4>4. CASE x \in B
        <5>1. /\ h[B] = g[B \ {x}] + w[x]
              /\ h[B \cup {y}] = (g[B \ {x}] + w[y]) + w[x]
          BY <3>3, <4>1, <4>3, <4>4
        <5>. QED
          BY <3>2, <5>1
      <4>5. CASE x \notin B
        <5>1. /\ h[B] = g[B \ {x}] + 0
              /\ h[B \cup {y}] = (g[B \ {x}] + w[y]) + 0
          BY <3>3, <4>1, <4>3, <4>5
        <5>. QED
          BY <3>2, <5>1
      <4>. QED
        BY <4>4, <4>5
    <3>. QED
      BY <3>4, <3>5
  <2>. HIDE DEF h
  <2>6. Additive(h, w, D)
    BY <2>3, <2>4, <2>5, <2>w DEF Additive
  <2>. QED
    BY <2>6
<1>. HIDE DEF Good
<1>2. \A A \in SUBSET U : A \in Good
  BY <1>1, SubsetInduction
<1>. QED
  BY <1>2 DEF Good

\* What satisfies the equation gives the sums.
LEMMA BodyIsAdditive ==
  ASSUME NEW S, IsFiniteSet(S), NEW w, \A x \in S : w[x] \in Int,
         NEW g, Additive(g, w, S), NEW h, h = Body(w, S, h)
  PROVE  h[S] = g[S]
<1>. DEFINE Good == {A \in SUBSET S : h[A] = g[A]}
<1>1. \A A \in SUBSET S : (\A x \in A : A \ {x} \in Good) => A \in Good
  <2>. SUFFICES ASSUME NEW A \in SUBSET S, \A x \in A : A \ {x} \in Good
                PROVE  A \in Good
    OBVIOUS
  <2>1. CASE A = {}
    BY <2>1 DEF Body, Additive
  <2>2. CASE A # {}
    <3>. DEFINE y == Some(A)
    <3>1. y \in A
      BY <2>2 DEF Some
    <3>2. h[A] = w[y] + h[A \ {y}]
      BY <2>2 DEF Body
    <3>. HIDE DEF y
    <3>3. h[A \ {y}] = g[A \ {y}]
      BY <3>1
    <3>4. (A \ {y}) \cup {y} = A /\ A \ {y} \in SUBSET S /\ y \in S
      BY <3>1
    <3>5. g[A] = g[A \ {y}] + w[y]
      <4>1. g[(A \ {y}) \cup {y}] = g[A \ {y}] + w[y]
        <5>. HIDE DEF y
        <5>. QED
          BY <3>4 DEF Additive
      <4>. QED
        BY <3>4, <4>1
    <3>6. w[y] \in Int /\ g[A \ {y}] \in Int
      BY <3>4 DEF Additive
    <3>. QED
      BY <3>2, <3>3, <3>5, <3>6
  <2>. QED
    BY <2>1, <2>2
<1>. HIDE DEF Good
<1>2. \A A \in SUBSET S : A \in Good
  BY <1>1, SubsetInduction
<1>. QED
  BY <1>2 DEF Good

\* The sums satisfy the equation.
LEMMA AdditiveIsBody ==
  ASSUME NEW U, NEW w, NEW g, Additive(g, w, U), \A x \in U : w[x] \in Int,
         NEW S \in SUBSET U
  PROVE  LET h == [A \in SUBSET S |-> g[A]] IN h = Body(w, S, h)
<1>. DEFINE h == [A \in SUBSET S |-> g[A]]
<1>1. ASSUME NEW A \in SUBSET S, A # {}
      PROVE  h[A] = w[Some(A)] + h[A \ {Some(A)}]
  <2>. DEFINE y == Some(A)
  <2>1. y \in A
    BY <1>1 DEF Some
  <2>. HIDE DEF y
  <2>2. (A \ {y}) \cup {y} = A /\ A \ {y} \in SUBSET U /\ y \in U
    BY <2>1
  <2>3. g[A] = g[A \ {y}] + w[y] /\ g[A \ {y}] \in Int /\ w[y] \in Int
    BY <2>2 DEF Additive
  <2>4. h[A] = w[y] + h[A \ {y}]
    BY <2>3
  <2>. QED
    BY <2>4 DEF y
<1>2. h[{}] = 0
  BY DEF Additive
<1>3. h = Body(w, S, h)
  BY <1>1, <1>2 DEF Body
<1>. QED
  BY <1>3

LEMMA SumIs ==
  ASSUME NEW U, IsFiniteSet(U), NEW w, \A x \in U : w[x] \in Int,
         NEW g, Additive(g, w, U), NEW S \in SUBSET U
  PROVE  Sum(w, S) = g[S]
<1>. DEFINE k == CHOOSE h : h = Body(w, S, h)
<1>1. Sum(w, S) = k[S]
  BY DEF Sum, MapThenSumSet, MapThenFoldSet, Body, Some
<1>2. k = Body(w, S, k)
  BY AdditiveIsBody
<1>3. Additive([A \in SUBSET S |-> g[A]], w, S)
  BY DEF Additive
<1>4. IsFiniteSet(S)
  BY FS_Subset
<1>. HIDE DEF k
<1>5. k[S] = [A \in SUBSET S |-> g[A]][S]
  BY <1>2, <1>3, <1>4, BodyIsAdditive
<1>. QED
  BY <1>1, <1>5

LEMMA SumViaIs ==
  ASSUME NEW U, IsFiniteSet(U), NEW c, NEW p, NEW w, \A x \in U : w[x] \in Int,
         \A x \in U : w[x] = c[p[x]],
         NEW g, Additive(g, w, U), NEW S \in SUBSET U
  PROVE  SumVia(c, p, S) = g[S]
<1>. DEFINE Via(h) == [s \in SUBSET S |->
             IF s = {} THEN 0 ELSE c[p[Some(s)]] + h[s \ {Some(s)}]]
<1>. DEFINE k == CHOOSE h : h = Via(h)
<1>1. SumVia(c, p, S) = k[S]
  BY DEF SumVia, MapThenSumSet, MapThenFoldSet, Some
<1>2. ASSUME NEW h PROVE Via(h) = Body(w, S, h)
  <2>1. ASSUME NEW s \in SUBSET S, s # {} PROVE c[p[Some(s)]] = w[Some(s)]
    <3>1. Some(s) \in s
      BY <2>1 DEF Some
    <3>. QED
      BY <3>1
  <2>. QED
    BY <2>1 DEF Body
<1>. HIDE DEF Via
<1>3. k = Via(k)
  BY <1>2, AdditiveIsBody
<1>. HIDE DEF k
<1>4. k = Body(w, S, k)
  BY <1>2, <1>3
<1>5. Additive([A \in SUBSET S |-> g[A]], w, S)
  BY DEF Additive
<1>6. IsFiniteSet(S)
  BY FS_Subset
<1>7. k[S] = [A \in SUBSET S |-> g[A]][S]
  BY <1>4, <1>5, <1>6, BodyIsAdditive
<1>. QED
  BY <1>1, <1>7

-----------------------------------------------------------------------------
\* The laws of sums that the proofs about the modules cite.

LEMMA SumLaws ==
  ASSUME NEW w, NEW S, IsFiniteSet(S), \A x \in S : w[x] \in Int
  PROVE  /\ Sum(w, S) \in Int
         /\ Sum(w, {}) = 0
         /\ \A x \in S : Sum(w, S) = Sum(w, S \ {x}) + w[x]
<1>1. PICK g : Additive(g, w, S)
  BY AdditiveExists
<1>2. \A A \in SUBSET S : Sum(w, A) = g[A]
  BY <1>1, SumIs
<1>3. Sum(w, S) \in Int /\ Sum(w, {}) = 0
  BY <1>1, <1>2 DEF Additive
<1>4. ASSUME NEW x \in S
      PROVE  Sum(w, S) = Sum(w, S \ {x}) + w[x]
  <2>1. (S \ {x}) \cup {x} = S
    OBVIOUS
  <2>2. g[(S \ {x}) \cup {x}] = g[S \ {x}] + w[x]
    BY <1>1 DEF Additive
  <2>. QED
    BY <1>2, <2>1, <2>2
<1>. QED
  BY <1>3, <1>4

LEMMA SumViaLaws ==
  ASSUME NEW c, NEW p, NEW S, IsFiniteSet(S), \A x \in S : c[p[x]] \in Int
  PROVE  /\ SumVia(c, p, S) \in Int
         /\ SumVia(c, p, {}) = 0
         /\ \A x \in S : SumVia(c, p, S) = SumVia(c, p, S \ {x}) + c[p[x]]
<1>. DEFINE w == [x \in S |-> c[p[x]]]
<1>w. \A x \in S : w[x] \in Int /\ w[x] = c[p[x]]
  OBVIOUS
<1>. HIDE DEF w
<1>1. PICK g : Additive(g, w, S)
  BY <1>w, AdditiveExists
<1>2. \A A \in SUBSET S : SumVia(c, p, A) = g[A]
  BY <1>w, <1>1, SumViaIs
<1>3. SumVia(c, p, S) \in Int /\ SumVia(c, p, {}) = 0
  BY <1>1, <1>2 DEF Additive
<1>4. ASSUME NEW x \in S
      PROVE  SumVia(c, p, S) = SumVia(c, p, S \ {x}) + c[p[x]]
  <2>1. (S \ {x}) \cup {x} = S
    OBVIOUS
  <2>2. g[(S \ {x}) \cup {x}] = g[S \ {x}] + w[x]
    BY <1>1 DEF Additive
  <2>. QED
    BY <1>w, <1>2, <2>1, <2>2
<1>. QED
  BY <1>3, <1>4

\* A sum depends on nothing but the weights.
LEMMA SumViaSame ==
  ASSUME NEW c, NEW p, NEW q, NEW S, IsFiniteSet(S),
         \A x \in S : c[p[x]] \in Int /\ c[q[x]] = c[p[x]]
  PROVE  SumVia(c, q, S) = SumVia(c, p, S)
<1>. DEFINE w == [x \in S |-> c[p[x]]]
<1>w. \A x \in S : w[x] \in Int /\ w[x] = c[p[x]] /\ w[x] = c[q[x]]
  OBVIOUS
<1>. HIDE DEF w
<1>1. PICK g : Additive(g, w, S)
  BY <1>w, AdditiveExists
<1>2. SumVia(c, p, S) = g[S]
  BY <1>w, <1>1, SumViaIs
<1>3. SumVia(c, q, S) = g[S]
  BY <1>w, <1>1, SumViaIs
<1>. QED
  BY <1>2, <1>3
=============================================================================
