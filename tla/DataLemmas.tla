------------------------------ MODULE DataLemmas ------------------------------
(***************************************************************************)
(* Facts about the operators that the models are built from: least and     *)
(* greatest numbers, induction over the naturals as a search for a least   *)
(* counterexample, sums over finite sets, and numbering by rank.           *)
(***************************************************************************)
EXTENDS Integers, Sequences, FiniteSets, SequencesExt, FiniteSetsExt,
        FiniteSetTheorems, SequenceTheorems, WellFoundedInduction, TLAPS

(* A set of naturals with an element has a least one.                      *)
LEMMA LeastElement ==
  ASSUME NEW T, T \subseteq Nat, T # {}
  PROVE  \E n \in T : \A m \in T : n <= m
<1> DEFINE R == OpToRel(<, Nat)
<1>1. IsWellFoundedOn(R, Nat)
  BY NatLessThanWellFounded
<1>2. \A m, n \in Nat : <<m, n>> \in R <=> m < n
  BY DEF OpToRel
<1> HIDE DEF R
<1>3. PICK n \in T : \A m \in T : ~(<<m, n>> \in R)
  BY <1>1, WFMin
<1>4. ASSUME NEW m \in T
      PROVE  n <= m
  <2>1. m \in Nat /\ n \in Nat
    OBVIOUS
  <2>2. ~(m < n)
    BY <1>2, <1>3, <2>1, Zenon
  <2> QED
    BY <2>1, <2>2
<1> QED
  BY <1>4

LEMMA MinIsLeast ==
  ASSUME NEW T, T \subseteq Nat, T # {}
  PROVE  Min(T) \in T /\ \A n \in T : Min(T) <= n
BY LeastElement DEF Min

(* Induction over the naturals, of a set rather than a predicate.          *)
LEMMA NatSetInduction ==
  ASSUME NEW S, 0 \in S, \A n \in Nat : n \in S => n + 1 \in S
  PROVE  Nat \subseteq S
<1> DEFINE T == Nat \ S
<1>1. SUFFICES ASSUME T # {}
               PROVE  FALSE
  OBVIOUS
<1>2. PICK n \in T : \A m \in T : n <= m
  BY <1>1, LeastElement
<1>3. n # 0 /\ n - 1 \in Nat
  BY <1>2
<1>4. n - 1 \notin T
  BY <1>2, <1>3
<1> QED
  BY <1>2, <1>3, <1>4

(* What holds of the empty set, and with one more element whenever it held *)
(* without, holds of a finite set.                                         *)
LEMMA SubsetInduction ==
  ASSUME NEW S, IsFiniteSet(S), NEW P, {} \in P,
         \A T \in SUBSET S, x \in S : T \in P /\ x \notin T => T \cup {x} \in P
  PROVE  S \in P
<1> DEFINE Sizes == {n \in Nat : \A T \in SUBSET S : Cardinality(T) = n => T \in P}
<1>1. 0 \in Sizes
  <2>1. \A T \in SUBSET S : Cardinality(T) = 0 => T = {}
    BY FS_Subset, FS_EmptySet
  <2> QED
    BY <2>1
<1>2. ASSUME NEW n \in Nat, n \in Sizes
      PROVE  n + 1 \in Sizes
  <2> SUFFICES ASSUME NEW T \in SUBSET S, Cardinality(T) = n + 1
               PROVE  T \in P
    OBVIOUS
  <2>1. IsFiniteSet(T)
    BY FS_Subset
  <2>2. PICK x \in T : TRUE
    BY <1>2, FS_EmptySet
  <2>3. Cardinality(T \ {x}) = n
    <3>1. Cardinality(T \ {x}) = Cardinality(T) - 1
      BY <2>1, <2>2, FS_RemoveElement
    <3> QED
      BY <1>2, <3>1
  <2>4. T \ {x} \in P
    BY <1>2, <2>3
  <2>5. T = (T \ {x}) \cup {x} /\ x \notin T \ {x} /\ T \ {x} \in SUBSET S
    BY <2>2
  <2> QED
    BY <2>2, <2>4, <2>5
<1>3. Nat \subseteq Sizes
  <2> HIDE DEF Sizes
  <2> QED
    BY <1>1, <1>2, NatSetInduction
<1>4. Cardinality(S) \in Nat
  BY FS_CardinalityType
<1> QED
  BY <1>3, <1>4

LEMMA MaxIsGreatest ==
  ASSUME NEW S, S \subseteq Nat, IsFiniteSet(S), S # {}
  PROVE  Max(S) \in S /\ \A n \in S : n <= Max(S)
<1> DEFINE P == {T \in SUBSET S : T # {} => \E m \in T : \A n \in T : n <= m}
<1>1. {} \in P
  OBVIOUS
<1>2. ASSUME NEW T \in P, NEW x \in S
      PROVE  T \cup {x} \in P
  <2>1. x \in Nat /\ T \subseteq Nat
    OBVIOUS
  <2>2. CASE T = {}
    BY <2>1, <2>2
  <2>3. CASE T # {}
    <3>1. PICK m \in T : \A n \in T : n <= m
      BY <2>3
    <3>2. m \in Nat
      BY <2>1
    <3>3. CASE x <= m
      BY <2>1, <3>1, <3>2, <3>3
    <3>4. CASE m <= x
      <4>1. \A n \in T \cup {x} : n <= x
        BY <2>1, <3>1, <3>2, <3>4
      <4> QED
        BY <4>1
    <3> QED
      BY <2>1, <3>2, <3>3, <3>4
  <2> QED
    BY <2>2, <2>3
<1>3. S \in P
  <2> HIDE DEF P
  <2>1. \A T \in SUBSET S, x \in S : T \in P /\ x \notin T => T \cup {x} \in P
    BY <1>2
  <2> QED
    BY <1>1, <2>1, SubsetInduction
<1>4. \E m \in S : \A n \in S : m >= n
  BY <1>3
<1>5. \A m \in S : \A n \in S : m >= n <=> n <= m
  OBVIOUS
<1> QED
  BY <1>4, <1>5 DEF Max

LEMMA FiniteImage ==
  ASSUME NEW p, NEW S, IsFiniteSet(S)
  PROVE  /\ IsFiniteSet({p[x] : x \in S})
         /\ Cardinality({p[x] : x \in S}) <= Cardinality(S)
<1>1. [x \in S |-> p[x]] \in Surjection(S, {p[x] : x \in S})
  BY DEF Surjection
<1> QED
  BY <1>1, FS_Surjection

(* Two sets differ in number by what only one of them has.                 *)
LEMMA DifferenceCount ==
  ASSUME NEW A, NEW B, IsFiniteSet(A), IsFiniteSet(B)
  PROVE  /\ Cardinality(A) - Cardinality(B) = Cardinality(A \ B) - Cardinality(B \ A)
         /\ IsFiniteSet(A \ B) /\ IsFiniteSet(B \ A)
<1>1. ASSUME NEW X, NEW Y, IsFiniteSet(X), IsFiniteSet(Y)
      PROVE  /\ IsFiniteSet(X \ Y) /\ IsFiniteSet(X \cap Y)
             /\ Cardinality(X \ Y) \in Nat /\ Cardinality(X \cap Y) \in Nat
             /\ Cardinality(X) = Cardinality(X \ Y) + Cardinality(X \cap Y)
  <2>1. IsFiniteSet(X \ Y) /\ IsFiniteSet(X \cap Y)
    BY <1>1, FS_Subset
  <2>2. Cardinality(X \ Y) \in Nat /\ Cardinality(X \cap Y) \in Nat
    BY <2>1, FS_CardinalityType
  <2>3. X = (X \ Y) \cup (X \cap Y) /\ (X \ Y) \cap (X \cap Y) = {}
    OBVIOUS
  <2>4. Cardinality((X \ Y) \cup (X \cap Y)) =
          Cardinality(X \ Y) + Cardinality(X \cap Y) - Cardinality((X \ Y) \cap (X \cap Y))
    BY <2>1, FS_Union
  <2>5. Cardinality((X \ Y) \cap (X \cap Y)) = 0
    BY <2>3, FS_EmptySet
  <2>6. Cardinality(X) = Cardinality((X \ Y) \cup (X \cap Y))
    BY <2>3, Zenon
  <2> DEFINE both == Cardinality((X \ Y) \cap (X \cap Y))
             all == Cardinality((X \ Y) \cup (X \cap Y))
             mine == Cardinality(X \ Y)
             ours == Cardinality(X \cap Y)
  <2>7. all = mine + ours - both /\ both = 0 /\ mine \in Nat /\ ours \in Nat
    BY <2>2, <2>4, <2>5
  <2>8. all = mine + ours
    <3> HIDE DEF all, mine, ours, both
    <3> QED
      BY <2>7
  <2> QED
    BY <2>1, <2>2, <2>6, <2>8
<1>2. A \cap B = B \cap A
  OBVIOUS
<1>3. /\ IsFiniteSet(A \ B) /\ Cardinality(A \ B) \in Nat /\ Cardinality(A \cap B) \in Nat
      /\ Cardinality(A) = Cardinality(A \ B) + Cardinality(A \cap B)
  BY <1>1
<1>4. /\ IsFiniteSet(B \ A) /\ Cardinality(B \ A) \in Nat
      /\ Cardinality(B) = Cardinality(B \ A) + Cardinality(A \cap B)
  <2>1. /\ IsFiniteSet(B \ A) /\ Cardinality(B \ A) \in Nat
        /\ Cardinality(B) = Cardinality(B \ A) + Cardinality(B \cap A)
    BY <1>1
  <2>2. Cardinality(B \cap A) = Cardinality(A \cap B)
    BY <1>2, Zenon
  <2> QED
    BY <2>1, <2>2
<1> DEFINE a == Cardinality(A)
           b == Cardinality(B)
           left == Cardinality(A \ B)
           right == Cardinality(B \ A)
           both == Cardinality(A \cap B)
<1>5. a = left + both /\ b = right + both /\ left \in Nat /\ right \in Nat /\ both \in Nat
  BY <1>3, <1>4
<1>6. a - b = left - right
  <2> HIDE DEF a, b, left, right, both
  <2> QED
    BY <1>5
<1> QED
  BY <1>3, <1>4, <1>6

LEMMA PartsCount ==
  ASSUME NEW A, NEW B, IsFiniteSet(A \cup B), A \cap B = {}
  PROVE  Cardinality(A \cup B) = Cardinality(A) + Cardinality(B)
<1>1. IsFiniteSet(A) /\ IsFiniteSet(B)
  BY FS_Subset
<1>2. Cardinality(A) \in Nat /\ Cardinality(B) \in Nat /\ Cardinality(A \cap B) = 0
  BY <1>1, FS_CardinalityType, FS_EmptySet
<1>3. Cardinality(A \cup B) = Cardinality(A) + Cardinality(B) - Cardinality(A \cap B)
  BY <1>1, FS_Union
<1> QED
  BY <1>2, <1>3

-----------------------------------------------------------------------------
(* Sums over finite sets.  SumFunctionOnSet(f, S) chooses a function that  *)
(* takes the sums over all subsets of S; AddsUp is what it must satisfy.   *)

Chosen(T) == CHOOSE x \in T : TRUE
AddsUp(f, S, h) ==
  h = [T \in SUBSET S |-> IF T = {} THEN 0 ELSE f[Chosen(T)] + h[T \ {Chosen(T)}]]

LEMMA SumIsChosen ==
  ASSUME NEW f, NEW S
  PROVE  SumFunctionOnSet(f, S) = (CHOOSE h : AddsUp(f, S, h))[S]
BY DEF SumFunctionOnSet, FoldFunctionOnSet, MapThenFoldSet, AddsUp, Chosen

LEMMA SumExists ==
  ASSUME NEW f, NEW S, IsFiniteSet(S)
  PROVE  \E h : AddsUp(f, S, h)
<1> DEFINE Small(n) == {T \in SUBSET S : Cardinality(T) <= n}
           Partial(n, h) ==
             h = [T \in Small(n) |-> IF T = {} THEN 0 ELSE f[Chosen(T)] + h[T \ {Chosen(T)}]]
           N == {n \in Nat : \E h : Partial(n, h)}
<1>0. \A T \in SUBSET S : IsFiniteSet(T) /\ Cardinality(T) \in Nat
  BY FS_Subset, FS_CardinalityType
<1>1. 0 \in N
  <2>1. Small(0) = {{}}
    BY <1>0, FS_EmptySet
  <2>2. Partial(0, [T \in Small(0) |-> 0])
    BY <2>1
  <2> QED
    BY <2>2
<1>2. ASSUME NEW n \in Nat, n \in N
      PROVE  n + 1 \in N
  <2>1. PICK h : Partial(n, h)
    BY <1>2
  <2> DEFINE g == [T \in Small(n + 1) |->
                     IF T \in Small(n) THEN h[T] ELSE f[Chosen(T)] + h[T \ {Chosen(T)}]]
  <2>2. ASSUME NEW T \in Small(n + 1)
        PROVE  g[T] = IF T = {} THEN 0 ELSE f[Chosen(T)] + g[T \ {Chosen(T)}]
    <3>1. CASE T = {}
      <4>1. T \in Small(n)
        BY <3>1, FS_EmptySet
      <4> QED
        BY <2>1, <3>1, <4>1
    <3>2. CASE T # {}
      <4>1. Chosen(T) \in T
        BY <3>2 DEF Chosen
      <4>2. Cardinality(T \ {Chosen(T)}) = Cardinality(T) - 1 /\ T \ {Chosen(T)} \in SUBSET S
        BY <1>0, <4>1, FS_RemoveElement
      <4>3. T \ {Chosen(T)} \in Small(n) /\ T \ {Chosen(T)} \in Small(n + 1)
        BY <1>0, <1>2, <4>2
      <4>4. g[T \ {Chosen(T)}] = h[T \ {Chosen(T)}]
        BY <4>3
      <4>5. T \in Small(n) => h[T] = f[Chosen(T)] + h[T \ {Chosen(T)}]
        BY <2>1, <3>2
      <4> QED
        BY <3>2, <4>4, <4>5
    <3> QED
      BY <3>1, <3>2
  <2>3. Partial(n + 1, g)
    BY <2>2
  <2>4. n + 1 \in Nat /\ \E k : Partial(n + 1, k)
    <3> HIDE DEF Partial, g
    <3> QED
      BY <1>2, <2>3
  <2> QED
    BY <2>4
<1>3. Nat \subseteq N
  <2> HIDE DEF N
  <2> QED
    BY <1>1, <1>2, NatSetInduction
<1>4. Cardinality(S) \in N
  BY <1>0, <1>3
<1>5. Small(Cardinality(S)) = SUBSET S
  BY FS_Subset
<1>6. PICK h : Partial(Cardinality(S), h)
  BY <1>4
<1> QED
  BY <1>5, <1>6 DEF AddsUp
LEMMA SumsAgree ==
  ASSUME NEW f, NEW g, NEW S, NEW T, NEW h, NEW k, AddsUp(f, S, h), AddsUp(g, T, k),
         NEW U, IsFiniteSet(U), U \subseteq S, U \subseteq T, \A x \in U : f[x] = g[x]
  PROVE  h[U] = k[U]
<1> DEFINE N == {n \in Nat : \A V \in SUBSET U : Cardinality(V) = n => h[V] = k[V]}
<1>0. \A V \in SUBSET U : IsFiniteSet(V) /\ Cardinality(V) \in Nat
  BY FS_Subset, FS_CardinalityType
<1>1. 0 \in N
  <2>1. h[{}] = 0 /\ k[{}] = 0
    BY DEF AddsUp
  <2>2. \A V \in SUBSET U : Cardinality(V) = 0 => V = {}
    BY <1>0, FS_EmptySet
  <2> QED
    BY <2>1, <2>2
<1>2. ASSUME NEW n \in Nat, n \in N
      PROVE  n + 1 \in N
  <2> SUFFICES ASSUME NEW V \in SUBSET U, Cardinality(V) = n + 1
               PROVE  h[V] = k[V]
    OBVIOUS
  <2>1. V # {}
    BY <1>2, FS_EmptySet
  <2>2. Chosen(V) \in V
    BY <2>1 DEF Chosen
  <2> DEFINE W == V \ {Chosen(V)}
  <2>3. Cardinality(W) = Cardinality(V) - 1
    BY <1>0, <2>2, FS_RemoveElement
  <2>4. W \in SUBSET U /\ Cardinality(W) = n
    BY <1>2, <2>3
  <2>5. h[W] = k[W]
    BY <1>2, <2>4
  <2>6. h[V] = f[Chosen(V)] + h[W] /\ k[V] = g[Chosen(V)] + k[W]
    BY <2>1 DEF AddsUp
  <2> QED
    BY <2>2, <2>5, <2>6
<1>3. Nat \subseteq N
  <2> HIDE DEF N
  <2> QED
    BY <1>1, <1>2, NatSetInduction
<1> QED
  BY <1>0, <1>3

LEMMA SumEquations ==
  ASSUME NEW f, NEW S, IsFiniteSet(S)
  PROVE  /\ S = {} => SumFunctionOnSet(f, S) = 0
         /\ S # {} => /\ Chosen(S) \in S
                      /\ SumFunctionOnSet(f, S)
                           = f[Chosen(S)] + SumFunctionOnSet(f, S \ {Chosen(S)})
<1>1. PICK h : AddsUp(f, S, h) /\ SumFunctionOnSet(f, S) = h[S]
  BY SumExists, SumIsChosen
<1>2. CASE S = {}
  BY <1>1, <1>2 DEF AddsUp
<1>3. CASE S # {}
  <2>1. Chosen(S) \in S
    BY <1>3 DEF Chosen
  <2> DEFINE T == S \ {Chosen(S)}
  <2>2. IsFiniteSet(T)
    BY FS_Subset
  <2>3. PICK k : AddsUp(f, T, k) /\ SumFunctionOnSet(f, T) = k[T]
    BY <2>2, SumExists, SumIsChosen
  <2>4. h[T] = k[T]
    BY <1>1, <2>2, <2>3, SumsAgree
  <2>5. h[S] = f[Chosen(S)] + h[T]
    BY <1>1, <1>3 DEF AddsUp
  <2> QED
    BY <1>1, <1>3, <2>1, <2>3, <2>4, <2>5
<1> QED
  BY <1>2, <1>3

LEMMA SumCongruent ==
  ASSUME NEW f, NEW g, NEW S, IsFiniteSet(S), \A x \in S : f[x] = g[x]
  PROVE  SumFunctionOnSet(f, S) = SumFunctionOnSet(g, S)
<1>1. PICK h : AddsUp(f, S, h) /\ SumFunctionOnSet(f, S) = h[S]
  BY SumExists, SumIsChosen
<1>2. PICK k : AddsUp(g, S, k) /\ SumFunctionOnSet(g, S) = k[S]
  BY SumExists, SumIsChosen
<1> QED
  BY <1>1, <1>2, SumsAgree

LEMMA SumType ==
  ASSUME NEW f, NEW S, IsFiniteSet(S), \A x \in S : f[x] \in Nat
  PROVE  SumFunctionOnSet(f, S) \in Nat
<1> DEFINE N == {n \in Nat : \A T \in SUBSET S :
                              Cardinality(T) = n => SumFunctionOnSet(f, T) \in Nat}
<1>0. \A T \in SUBSET S : IsFiniteSet(T) /\ Cardinality(T) \in Nat
  BY FS_Subset, FS_CardinalityType
<1>1. 0 \in N
  BY <1>0, FS_EmptySet, SumEquations
<1>2. ASSUME NEW n \in Nat, n \in N
      PROVE  n + 1 \in N
  <2> SUFFICES ASSUME NEW T \in SUBSET S, Cardinality(T) = n + 1
               PROVE  SumFunctionOnSet(f, T) \in Nat
    OBVIOUS
  <2>1. T # {}
    BY <1>2, FS_EmptySet
  <2> DEFINE U == T \ {Chosen(T)}
  <2>2. Chosen(T) \in T /\ SumFunctionOnSet(f, T) = f[Chosen(T)] + SumFunctionOnSet(f, U)
    BY <1>0, <2>1, SumEquations
  <2>3. Cardinality(U) = Cardinality(T) - 1
    BY <1>0, <2>2, FS_RemoveElement
  <2>4. U \in SUBSET S /\ Cardinality(U) = n
    BY <1>2, <2>3
  <2>5. SumFunctionOnSet(f, U) \in Nat
    BY <1>2, <2>4
  <2> QED
    BY <2>2, <2>5
<1>3. Nat \subseteq N
  <2> HIDE DEF N
  <2> QED
    BY <1>1, <1>2, NatSetInduction
<1> QED
  BY <1>0, <1>3

(* The order does not matter: any element may be taken out first.          *)
LEMMA SumRemove ==
  ASSUME NEW f, NEW S, IsFiniteSet(S), \A x \in S : f[x] \in Nat, NEW e \in S
  PROVE  SumFunctionOnSet(f, S) = f[e] + SumFunctionOnSet(f, S \ {e})
<1> DEFINE Splits(T) == \A x \in T : SumFunctionOnSet(f, T) = f[x] + SumFunctionOnSet(f, T \ {x})
           N == {n \in Nat : \A T \in SUBSET S : Cardinality(T) = n => Splits(T)}
<1>0. \A T \in SUBSET S : /\ IsFiniteSet(T) /\ Cardinality(T) \in Nat
                          /\ SumFunctionOnSet(f, T) \in Nat
  BY FS_Subset, FS_CardinalityType, SumType
<1>1. 0 \in N
  BY <1>0, FS_EmptySet
<1>2. ASSUME NEW n \in Nat, n \in N
      PROVE  n + 1 \in N
  <2> SUFFICES ASSUME NEW T \in SUBSET S, Cardinality(T) = n + 1, NEW x \in T
               PROVE  SumFunctionOnSet(f, T) = f[x] + SumFunctionOnSet(f, T \ {x})
    OBVIOUS
  <2> DEFINE c == Chosen(T)
  <2>1. c \in T /\ SumFunctionOnSet(f, T) = f[c] + SumFunctionOnSet(f, T \ {c})
    BY <1>0, SumEquations
  <2> HIDE DEF c
  <2>2. CASE x = c
    BY <2>1, <2>2
  <2>3. CASE x # c
    <3>1. Cardinality(T \ {c}) = Cardinality(T) - 1 /\ Cardinality(T \ {x}) = Cardinality(T) - 1
      BY <1>0, <2>1, FS_RemoveElement
    <3>2. /\ T \ {c} \in SUBSET S /\ Cardinality(T \ {c}) = n
          /\ T \ {x} \in SUBSET S /\ Cardinality(T \ {x}) = n
      BY <1>2, <3>1
    <3>3. Splits(T \ {c}) /\ Splits(T \ {x})
      BY <1>2, <3>2
    <3>4. /\ SumFunctionOnSet(f, T \ {c}) = f[x] + SumFunctionOnSet(f, (T \ {c}) \ {x})
          /\ SumFunctionOnSet(f, T \ {x}) = f[c] + SumFunctionOnSet(f, (T \ {x}) \ {c})
      BY <2>1, <2>3, <3>3
    <3>5. (T \ {c}) \ {x} = (T \ {x}) \ {c} /\ (T \ {x}) \ {c} \in SUBSET S
      OBVIOUS
    <3>6. f[x] \in Nat /\ f[c] \in Nat /\ SumFunctionOnSet(f, (T \ {x}) \ {c}) \in Nat
      BY <1>0, <2>1, <3>5
    <3> QED
      BY <2>1, <3>4, <3>5, <3>6
  <2> QED
    BY <2>2, <2>3
<1>3. Nat \subseteq N
  <2> HIDE DEF N
  <2> QED
    BY <1>1, <1>2, NatSetInduction
<1> QED
  BY <1>0, <1>3
LEMMA SumAdd ==
  ASSUME NEW f, NEW S, IsFiniteSet(S), NEW e, e \notin S, \A x \in S \cup {e} : f[x] \in Nat
  PROVE  SumFunctionOnSet(f, S \cup {e}) = SumFunctionOnSet(f, S) + f[e]
<1>1. IsFiniteSet(S \cup {e})
  BY FS_AddElement
<1>2. SumFunctionOnSet(f, S \cup {e}) = f[e] + SumFunctionOnSet(f, (S \cup {e}) \ {e})
  BY <1>1, SumRemove
<1>3. (S \cup {e}) \ {e} = S
  OBVIOUS
<1>4. SumFunctionOnSet(f, S) \in Nat /\ f[e] \in Nat
  BY SumType
<1> QED
  BY <1>2, <1>3, <1>4

LEMMA SumUnion ==
  ASSUME NEW f, NEW S, NEW T, IsFiniteSet(S), IsFiniteSet(T), S \cap T = {},
         \A x \in S \cup T : f[x] \in Nat
  PROVE  SumFunctionOnSet(f, S \cup T) = SumFunctionOnSet(f, S) + SumFunctionOnSet(f, T)
<1> DEFINE P == {U \in SUBSET T :
                   SumFunctionOnSet(f, S \cup U) = SumFunctionOnSet(f, S) + SumFunctionOnSet(f, U)}
<1>0. \A U \in SUBSET T : /\ IsFiniteSet(U) /\ IsFiniteSet(S \cup U)
                          /\ SumFunctionOnSet(f, U) \in Nat
                          /\ SumFunctionOnSet(f, S \cup U) \in Nat
  BY FS_Subset, FS_Union, SumType
<1>1. {} \in P
  <2>1. SumFunctionOnSet(f, {}) = 0 /\ SumFunctionOnSet(f, S) \in Nat /\ S \cup {} = S
    BY FS_EmptySet, SumEquations, SumType
  <2> QED
    BY <2>1
<1>2. ASSUME NEW U \in SUBSET T, NEW x \in T, U \in P, x \notin U
      PROVE  U \cup {x} \in P
  <2>1. SumFunctionOnSet(f, U \cup {x}) = SumFunctionOnSet(f, U) + f[x]
    BY <1>0, <1>2, SumAdd
  <2>2. SumFunctionOnSet(f, (S \cup U) \cup {x}) = SumFunctionOnSet(f, S \cup U) + f[x]
    BY <1>0, <1>2, SumAdd
  <2>3. (S \cup U) \cup {x} = S \cup (U \cup {x}) /\ f[x] \in Nat /\ SumFunctionOnSet(f, S) \in Nat
    BY SumType
  <2>4. SumFunctionOnSet(f, S \cup U) = SumFunctionOnSet(f, S) + SumFunctionOnSet(f, U)
    BY <1>2
  <2>5. SumFunctionOnSet(f, U) \in Nat
    BY <1>0
  <2>6. SumFunctionOnSet(f, S \cup (U \cup {x}))
          = SumFunctionOnSet(f, S) + SumFunctionOnSet(f, U \cup {x})
    <3>1. SumFunctionOnSet(f, S \cup (U \cup {x})) = SumFunctionOnSet(f, S \cup U) + f[x]
      BY <2>2, <2>3, Zenon
    <3>2. \A a, b, c \in Nat : (a + b) + c = a + (b + c)
      OBVIOUS
    <3> QED
      BY <2>1, <2>3, <2>4, <2>5, <3>1, <3>2
  <2> QED
    BY <2>6
<1>3. T \in P
  <2> HIDE DEF P
  <2> QED
    BY <1>1, <1>2, SubsetInduction
<1> QED
  BY <1>3

(* A sum over the image of an injection.                                   *)
LEMMA SumReindex ==
  ASSUME NEW f, NEW p, NEW S, IsFiniteSet(S),
         \A x, y \in S : p[x] = p[y] => x = y,
         \A x \in S : f[p[x]] \in Nat
  PROVE  SumFunctionOnSet(f, {p[x] : x \in S}) = SumFunctionOnSet([x \in S |-> f[p[x]]], S)
<1> DEFINE Image(U) == {p[x] : x \in U}
           g == [x \in S |-> f[p[x]]]
           P == {U \in SUBSET S :
                   IsFiniteSet(Image(U)) /\ SumFunctionOnSet(f, Image(U)) = SumFunctionOnSet(g, U)}
<1>1. {} \in P
  <2>1. Image({}) = {}
    OBVIOUS
  <2>2. SumFunctionOnSet(f, {}) = 0 /\ SumFunctionOnSet(g, {}) = 0
    BY FS_EmptySet, SumEquations
  <2> QED
    BY <2>1, <2>2, FS_EmptySet
<1>2. ASSUME NEW U \in SUBSET S, NEW e \in S, U \in P, e \notin U
      PROVE  U \cup {e} \in P
  <2>1. Image(U \cup {e}) = Image(U) \cup {p[e]} /\ p[e] \notin Image(U)
    BY <1>2
  <2>2. IsFiniteSet(U) /\ IsFiniteSet(Image(U)) /\ IsFiniteSet(Image(U) \cup {p[e]})
    BY <1>2, FS_Subset, FS_AddElement
  <2>3. \A y \in Image(U) \cup {p[e]} : f[y] \in Nat
    BY <1>2
  <2>4. SumFunctionOnSet(f, Image(U) \cup {p[e]}) = SumFunctionOnSet(f, Image(U)) + f[p[e]]
    <3> HIDE DEF Image
    <3> QED
      BY <2>1, <2>2, <2>3, SumAdd
  <2>5. \A x \in U \cup {e} : g[x] \in Nat
    BY <1>2
  <2>6. SumFunctionOnSet(g, U \cup {e}) = SumFunctionOnSet(g, U) + g[e]
    <3> HIDE DEF g
    <3> QED
      BY <1>2, <2>2, <2>5, SumAdd
  <2>7. g[e] = f[p[e]]
    OBVIOUS
  <2> QED
    BY <1>2, <2>1, <2>2, <2>4, <2>6, <2>7
<1>3. S \in P
  <2> HIDE DEF P
  <2> QED
    BY <1>1, <1>2, SubsetInduction
<1> QED
  BY <1>3

(* If m times each term is at most b, m times the sum of n terms is at     *)
(* most n times b.                                                         *)
LEMMA SumBounded ==
  ASSUME NEW f, NEW S, IsFiniteSet(S), NEW m \in Nat, NEW b \in Nat,
         \A x \in S : f[x] \in Nat /\ m * f[x] <= b
  PROVE  m * SumFunctionOnSet(f, S) <= Cardinality(S) * b
<1> DEFINE P == {T \in SUBSET S : m * SumFunctionOnSet(f, T) <= Cardinality(T) * b}
<1>1. {} \in P
  <2>1. SumFunctionOnSet(f, {}) = 0 /\ Cardinality({}) = 0
    BY FS_EmptySet, SumEquations
  <2> QED
    BY <2>1
<1>2. ASSUME NEW T \in SUBSET S, NEW x \in S, T \in P, x \notin T
      PROVE  T \cup {x} \in P
  <2> DEFINE s == SumFunctionOnSet(f, T)
             c == Cardinality(T)
             y == f[x]
  <2>1. IsFiniteSet(T) /\ \A z \in T \cup {x} : f[z] \in Nat
    BY FS_Subset
  <2>2. SumFunctionOnSet(f, T \cup {x}) = s + y
    BY <1>2, <2>1, SumAdd
  <2>3. Cardinality(T \cup {x}) = c + 1
    BY <1>2, <2>1, FS_AddElement
  <2>4. s \in Nat /\ c \in Nat /\ y \in Nat /\ m * y <= b /\ m * s <= c * b
    BY <1>2, <2>1, SumType, FS_CardinalityType
  <2> HIDE DEF s, c, y
  <2>5. m * (s + y) <= (c + 1) * b
    <3>1. m * (s + y) = m * s + m * y /\ (c + 1) * b = c * b + b
      BY <2>4
    <3>2. m * s \in Int /\ m * y \in Int /\ c * b \in Int
      BY <2>4
    <3> QED
      BY <2>4, <3>1, <3>2
  <2> QED
    BY <2>2, <2>3, <2>5
<1>3. S \in P
  <2> HIDE DEF P
  <2> QED
    BY <1>1, <1>2, SubsetInduction
<1> QED
  BY <1>3

LEMMA SumZero ==
  ASSUME NEW f, NEW S, IsFiniteSet(S), \A x \in S : f[x] = 0
  PROVE  SumFunctionOnSet(f, S) = 0
<1> DEFINE P == {T \in SUBSET S : SumFunctionOnSet(f, T) = 0}
<1>1. {} \in P
  BY FS_EmptySet, SumEquations
<1>2. ASSUME NEW T \in SUBSET S, NEW x \in S, T \in P, x \notin T
      PROVE  T \cup {x} \in P
  <2>1. IsFiniteSet(T) /\ \A y \in T \cup {x} : f[y] \in Nat
    BY FS_Subset
  <2>2. SumFunctionOnSet(f, T \cup {x}) = SumFunctionOnSet(f, T) + f[x]
    BY <1>2, <2>1, SumAdd
  <2> QED
    BY <1>2, <2>2
<1>3. S \in P
  <2> HIDE DEF P
  <2> QED
    BY <1>1, <1>2, SubsetInduction
<1> QED
  BY <1>3
===============================================================================
