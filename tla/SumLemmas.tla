----------------------------- MODULE SumLemmas ------------------------------
(***************************************************************************)
(* Lemmas for the proof modules: induction over the subsets of a finite    *)
(* set and over the naturals, for sets instead of predicates, and what the *)
(* sums of the community module Functions compute.                         *)
(*                                                                         *)
(* The induction theorems of the library are about predicates, which the   *)
(* provers cannot instantiate.  Its theorem that strict inclusion is well  *)
(* founded on finite sets is about sets, so "everything is good" is shown  *)
(* by taking away a smallest counterexample.                               *)
(***************************************************************************)
EXTENDS Integers, FiniteSets, Functions, FiniteSetTheorems, WellFoundedInduction, TLAPS

----------------------------------------------------------------------------
(* Induction.                                                              *)

\* A set of subsets of a finite set has a smallest member: one that contains
\* no other.
LEMMA LeastSubset ==
  ASSUME NEW S, IsFiniteSet(S), NEW Bad \in SUBSET (SUBSET S), Bad # {}
  PROVE  \E U \in Bad : \A V \in Bad : V \subseteq U => V = U
<1>1. IsWellFoundedOn(StrictSubsetOrdering(S), FiniteSubsetsOf(S))
  BY FS_StrictSubsetOrderingWellFounded
<1>2. Bad \subseteq FiniteSubsetsOf(S)
  BY FS_FiniteSubsetsOfFinite
<1>3. PICK U \in Bad : \A V \in Bad : ~ (<<V, U>> \in StrictSubsetOrdering(S))
  BY <1>1, <1>2, WFMin
<1> QED
  BY <1>3 DEF StrictSubsetOrdering

\* What the empty set is, and a set is when all it lacks one element of are,
\* every subset is.
LEMMA SubsetInduction ==
  ASSUME NEW S, IsFiniteSet(S), NEW Good, {} \in Good,
         \A U \in SUBSET S : U # {} /\ (\A x \in U : U \ {x} \in Good) => U \in Good
  PROVE  \A U \in SUBSET S : U \in Good
<1> DEFINE Bad == {U \in SUBSET S : U \notin Good}
<1> SUFFICES ASSUME Bad # {} PROVE FALSE
  OBVIOUS
<1>1. PICK U \in Bad : \A V \in Bad : V \subseteq U => V = U
  <2>1. Bad \in SUBSET (SUBSET S)
    OBVIOUS
  <2> HIDE DEF Bad
  <2> QED
    BY <2>1, LeastSubset
<1>2. \A x \in U : U \ {x} \in Good
  BY <1>1
<1> QED
  BY <1>1, <1>2

\* Induction over the naturals, for membership in a set.
LEMMA NatSetInduction ==
  ASSUME NEW Good, 0 \in Good, \A n \in Nat : n \in Good => n + 1 \in Good
  PROVE  \A n \in Nat : n \in Good
<1> SUFFICES ASSUME NEW n \in Nat, n \notin Good PROVE FALSE
  OBVIOUS
<1> DEFINE Bad == {0..m : m \in {k \in 0..n : k \notin Good}}
<1>1. IsFiniteSet(0..n)
  BY FS_Interval
<1>2. Bad \in SUBSET (SUBSET (0..n))
  OBVIOUS
<1>3. 0..n \in Bad
  OBVIOUS
<1>4. PICK U \in Bad : \A V \in Bad : V \subseteq U => V = U
  <2>1. Bad # {}
    BY <1>3
  <2> DEFINE All == 0..n
  <2>2. IsFiniteSet(All) /\ Bad \in SUBSET (SUBSET All)
    BY <1>1, <1>2
  <2> HIDE DEF Bad, All
  <2> QED
    BY <2>1, <2>2, LeastSubset
<1>5. PICK m \in 0..n : U = 0..m /\ m \notin Good
  OBVIOUS
<1>6. m # 0 /\ m - 1 \in Nat
  BY <1>5
<1>7. m - 1 \notin Good
  BY <1>5, <1>6
<1>8. 0..(m - 1) \in Bad
  BY <1>6, <1>7
<1>9. 0..(m - 1) # 0..m /\ 0..(m - 1) \subseteq 0..m
  <2>1. m \in 0..m /\ m \notin 0..(m - 1)
    BY <1>6
  <2> QED
    BY <2>1
<1> QED
  BY <1>4, <1>5, <1>8, <1>9

\* In a finite set that a transitive relation orders totally, every part but
\* the empty one has a first element.
LEMMA FirstExists ==
  ASSUME NEW S, IsFiniteSet(S), NEW R,
         \A x, y \in S : x = y \/ <<x, y>> \in R \/ <<y, x>> \in R,
         \A x, y, z \in S : <<x, y>> \in R /\ <<y, z>> \in R => <<x, z>> \in R
  PROVE  \A U \in SUBSET S : U # {} => \E m \in U : \A x \in U : x = m \/ <<m, x>> \in R
<1> DEFINE First(U, m) == m \in U /\ \A x \in U : x = m \/ <<m, x>> \in R
<1> DEFINE Good == {U \in SUBSET S : U # {} => \E m \in U : First(U, m)}
<1>1. {} \in Good
  OBVIOUS
<1>2. ASSUME NEW U \in SUBSET S, U # {}, \A x \in U : U \ {x} \in Good
      PROVE  U \in Good
  <2>1. PICK x \in U : TRUE
    BY <1>2
  <2>2. CASE U \ {x} = {}
    <3>1. First(U, x)
      BY <2>1, <2>2
    <3> QED
      BY <2>1, <3>1
  <2>3. CASE U \ {x} # {}
    <3>1. PICK m \in U \ {x} : First(U \ {x}, m)
      BY <1>2, <2>1, <2>3
    <3>2. CASE <<m, x>> \in R
      <4>1. First(U, m)
        BY <3>1, <3>2
      <4> QED
        BY <3>1, <4>1
    <3>3. CASE <<x, m>> \in R
      <4>1. \A y \in U : y = x \/ <<x, y>> \in R
        BY <2>1, <3>1, <3>3
      <4>2. First(U, x)
        BY <2>1, <4>1
      <4> QED
        BY <2>1, <4>2
    <3> QED
      BY <2>1, <3>1, <3>2, <3>3
  <2> QED
    BY <2>2, <2>3
<1>3. \A U \in SUBSET S : U \in Good
  <2> HIDE DEF Good
  <2> QED
    BY <1>1, <1>2, SubsetInduction
<1> QED
  BY <1>3

----------------------------------------------------------------------------
(* Recursion over the subsets of a finite set: take an element, fold the   *)
(* rest, step.                                                             *)

Foldable(S, T, base, pick, step) ==
    /\ IsFiniteSet(S)
    /\ base \in T
    /\ \A U \in SUBSET S : U # {} => pick[U] \in U
    /\ \A x \in S : \A t \in T : step[x][t] \in T

IsFold(iter, S, T, base, pick, step) ==
    /\ iter \in [SUBSET S -> T]
    /\ \A U \in SUBSET S :
          iter[U] = IF U = {} THEN base ELSE step[pick[U]][iter[U \ {pick[U]}]]

\* The recursion defines a function, which the CHOOSE of a recursive
\* definition therefore finds.
LEMMA FoldExists ==
  ASSUME NEW S, NEW T, NEW base, NEW pick, NEW step, Foldable(S, T, base, pick, step)
  PROVE  \E iter : IsFold(iter, S, T, base, pick, step)
<1> USE DEF Foldable, IsFold
<1> DEFINE Follows(iter, U) ==
      iter[U] = IF U = {} THEN base ELSE step[pick[U]][iter[U \ {pick[U]}]]
<1> DEFINE Good == {n \in Nat : \E iter \in [SUBSET S -> T] :
                        \A U \in SUBSET S : Cardinality(U) <= n => Follows(iter, U)}
<1>1. \A U \in SUBSET S : IsFiniteSet(U) /\ Cardinality(U) \in Nat /\ Cardinality(U) <= Cardinality(S)
  BY FS_Subset, FS_CardinalityType
<1>2. \A U \in SUBSET S : Cardinality(U) = 0 <=> U = {}
  BY <1>1, FS_EmptySet
<1>3. \A U \in SUBSET S : \A x \in U : Cardinality(U \ {x}) = Cardinality(U) - 1
  BY <1>1, FS_RemoveElement
<1>4. 0 \in Good
  <2> DEFINE g == [U \in SUBSET S |-> base]
  <2>1. g \in [SUBSET S -> T] /\ \A U \in SUBSET S : Cardinality(U) <= 0 => Follows(g, U)
    BY <1>1, <1>2
  <2> QED
    BY <2>1
<1>5. ASSUME NEW n \in Nat, n \in Good PROVE n + 1 \in Good
  <2>1. PICK iter \in [SUBSET S -> T] :
          \A U \in SUBSET S : Cardinality(U) <= n => Follows(iter, U)
    BY <1>5
  <2> DEFINE g == [U \in SUBSET S |-> IF Cardinality(U) <= n THEN iter[U]
                                      ELSE step[pick[U]][iter[U \ {pick[U]}]]]
  <2>2. \A U \in SUBSET S : ~(Cardinality(U) <= n) => U # {} /\ pick[U] \in U
    BY <1>1, <1>2
  <2>3. g \in [SUBSET S -> T]
    BY <2>1, <2>2
  <2>4. ASSUME NEW U \in SUBSET S, Cardinality(U) <= n + 1
        PROVE  Follows(g, U)
    <3>1. CASE U = {}
      <4>1. Cardinality(U) <= n /\ Cardinality(U) = 0
        BY <1>2, <3>1
      <4> QED
        BY <2>1, <3>1, <4>1
    <3>2. CASE U # {}
      <4>1. pick[U] \in U /\ U \ {pick[U]} \in SUBSET S
        BY <3>2
      <4>2. Cardinality(U \ {pick[U]}) <= n
        BY <1>1, <1>3, <2>4, <4>1
      <4>3. g[U \ {pick[U]}] = iter[U \ {pick[U]}]
        BY <4>1, <4>2
      <4>4. g[U] = step[pick[U]][iter[U \ {pick[U]}]]
        BY <2>1, <3>2
      <4> QED
        BY <3>2, <4>3, <4>4
    <3> QED
      BY <3>1, <3>2
  <2>5. \A U \in SUBSET S : Cardinality(U) <= n + 1 => Follows(g, U)
    BY <2>4
  <2> HIDE DEF g
  <2>6. \E h \in [SUBSET S -> T] : \A U \in SUBSET S : Cardinality(U) <= n + 1 => Follows(h, U)
    BY <2>3, <2>5
  <2> HIDE DEF Follows
  <2> QED
    BY <2>6
<1>6. Cardinality(S) \in Good
  <2> HIDE DEF Good
  <2> QED
    BY <1>1, <1>4, <1>5, NatSetInduction
<1> QED
  BY <1>1, <1>6

----------------------------------------------------------------------------
(* Sums.                                                                   *)

\* The element the community module takes next.
Any(U) == CHOOSE x \in U : TRUE

\* The recursive function that SumFunctionOnSet(f, S) chooses.
SumsUp(iter, f, S) ==
    iter = [U \in SUBSET S |-> IF U = {} THEN 0 ELSE f[Any(U)] + iter[U \ {Any(U)}]]

\* Integers over a finite set.
Summable(f, S) == IsFiniteSet(S) /\ \A x \in S : f[x] \in Int

\* That function exists.
LEMMA SumsUpExists ==
  ASSUME NEW S, NEW f, Summable(f, S)
  PROVE  \E iter \in [SUBSET S -> Int] : SumsUp(iter, f, S)
<1> DEFINE step == [x \in S |-> [t \in Int |-> f[x] + t]]
           pick == [U \in SUBSET S |-> Any(U)]
<1>1. \A U \in SUBSET S : U # {} => pick[U] \in U
  BY DEF Any
<1>2. Foldable(S, Int, 0, pick, step)
  <2>1. \A x \in S : \A t \in Int : step[x][t] \in Int
    BY DEF Summable
  <2> HIDE DEF step, pick
  <2> QED
    BY <1>1, <2>1 DEF Foldable, Summable
<1>3. PICK iter : IsFold(iter, S, Int, 0, pick, step)
  <2> HIDE DEF step, pick
  <2> QED
    BY <1>2, FoldExists
<1>4. iter \in [SUBSET S -> Int]
  BY <1>3 DEF IsFold
<1>5. ASSUME NEW U \in SUBSET S
      PROVE  iter[U] = IF U = {} THEN 0 ELSE f[Any(U)] + iter[U \ {Any(U)}]
  <2>1. iter[U] = IF U = {} THEN 0 ELSE step[pick[U]][iter[U \ {pick[U]}]]
    BY <1>3 DEF IsFold
  <2>2. CASE U # {}
    <3>1. pick[U] = Any(U) /\ Any(U) \in S /\ iter[U \ {Any(U)}] \in Int
      BY <1>1, <1>4, <2>2
    <3> QED
      BY <2>1, <2>2, <3>1
  <2> QED
    BY <2>1, <2>2
<1>6. SumsUp(iter, f, S)
  <2> HIDE DEF step, pick
  <2> QED
    BY <1>4, <1>5 DEF SumsUp
<1> QED
  BY <1>4, <1>6

\* Two sums agree on the subsets that both are about.
LEMMA SumsUpUnique ==
  ASSUME NEW S, IsFiniteSet(S), NEW R, S \subseteq R, NEW f, NEW g, NEW h,
         SumsUp(g, f, S), SumsUp(h, f, R)
  PROVE  \A U \in SUBSET S : g[U] = h[U]
<1> DEFINE Good == {U \in SUBSET S : g[U] = h[U]}
<1>1. \A U \in SUBSET S : g[U] = IF U = {} THEN 0 ELSE f[Any(U)] + g[U \ {Any(U)}]
  BY DEF SumsUp
<1>2. \A U \in SUBSET S : h[U] = IF U = {} THEN 0 ELSE f[Any(U)] + h[U \ {Any(U)}]
  BY DEF SumsUp
<1>3. {} \in Good
  BY <1>1, <1>2
<1>4. ASSUME NEW U \in SUBSET S, U # {}, \A x \in U : U \ {x} \in Good
      PROVE  U \in Good
  <2>1. Any(U) \in U
    BY <1>4 DEF Any
  <2> QED
    BY <1>1, <1>2, <1>4, <2>1
<1> HIDE DEF Good
<1>5. \A U \in SUBSET S : U \in Good
  BY <1>3, <1>4, SubsetInduction
<1> QED
  BY <1>5 DEF Good

\* So it is the sum, of every subset.
LEMMA SumIs ==
  ASSUME NEW S, NEW f, Summable(f, S), NEW g, SumsUp(g, f, S)
  PROVE  \A U \in SUBSET S : SumFunctionOnSet(f, U) = g[U]
<1> SUFFICES ASSUME NEW U \in SUBSET S PROVE SumFunctionOnSet(f, U) = g[U]
  OBVIOUS
<1>1. Summable(f, U)
  BY FS_Subset DEF Summable
<1> DEFINE h == CHOOSE iter : SumsUp(iter, f, U)
<1>2. SumsUp(h, f, U)
  <2>1. \E iter : SumsUp(iter, f, U)
    BY <1>1, SumsUpExists
  <2> QED
    BY <2>1
<1>3. SumFunctionOnSet(f, U) = h[U]
  BY DEF SumFunctionOnSet, FoldFunctionOnSet, MapThenFoldSet, SumsUp, Any
<1> HIDE DEF h
<1>4. \A V \in SUBSET U : h[V] = g[V]
  <2>1. IsFiniteSet(U) /\ U \subseteq S
    BY <1>1 DEF Summable
  <2> QED
    BY <1>2, <2>1, SumsUpUnique
<1> QED
  BY <1>3, <1>4

\* Nothing sums to zero.
LEMMA SumOfNone == ASSUME NEW f PROVE SumFunctionOnSet(f, {}) = 0
<1>1. Summable(f, {})
  BY FS_EmptySet DEF Summable
<1>2. PICK g : SumsUp(g, f, {})
  BY <1>1, SumsUpExists
<1>3. SumFunctionOnSet(f, {}) = g[{}]
  BY <1>1, <1>2, SumIs
<1> QED
  BY <1>2, <1>3 DEF SumsUp

\* A sum of integers is one.
LEMMA SumIsInt ==
  ASSUME NEW S, NEW f, Summable(f, S)
  PROVE  SumFunctionOnSet(f, S) \in Int
<1>1. PICK g \in [SUBSET S -> Int] : SumsUp(g, f, S)
  BY SumsUpExists
<1>2. SumFunctionOnSet(f, S) = g[S]
  BY <1>1, SumIs
<1> QED
  BY <1>1, <1>2

\* A sum is any one part and the sum of the rest: the order does not matter.
LEMMA SumRemove ==
  ASSUME NEW S, NEW f, Summable(f, S), NEW x \in S
  PROVE  SumFunctionOnSet(f, S) = f[x] + SumFunctionOnSet(f, S \ {x})
<1>1. PICK g \in [SUBSET S -> Int] : SumsUp(g, f, S)
  BY SumsUpExists
<1>2. \A U \in SUBSET S : SumFunctionOnSet(f, U) = g[U]
  BY <1>1, SumIs
<1>3. \A U \in SUBSET S : U # {} =>
         Any(U) \in U /\ g[U] = f[Any(U)] + g[U \ {Any(U)}]
  BY <1>1 DEF SumsUp, Any
<1>4. \A U \in SUBSET S : \A y \in U : f[y] \in Int /\ g[U] \in Int
  BY <1>1 DEF Summable
<1> DEFINE Good == {U \in SUBSET S : \A y \in U : g[U] = f[y] + g[U \ {y}]}
<1>5. {} \in Good
  OBVIOUS
<1>6. ASSUME NEW U \in SUBSET S, U # {}, \A y \in U : U \ {y} \in Good
      PROVE  U \in Good
  <2> SUFFICES ASSUME NEW y \in U, y # Any(U) PROVE g[U] = f[y] + g[U \ {y}]
    BY <1>3
  <2> DEFINE z == Any(U)
  <2>1. z \in U
    BY <1>3, <1>6
  <2>2. g[U] = f[z] + g[U \ {z}]
    BY <1>3, <1>6
  <2>3. U \ {z} \in Good /\ U \ {y} \in Good /\ y \in U \ {z} /\ z \in U \ {y}
    BY <1>6, <2>1
  <2>4. g[U \ {z}] = f[y] + g[(U \ {z}) \ {y}]
    BY <2>3
  <2>5. g[U \ {y}] = f[z] + g[(U \ {y}) \ {z}]
    BY <2>3
  <2>6. (U \ {z}) \ {y} = (U \ {y}) \ {z}
    OBVIOUS
  <2> DEFINE rest == g[(U \ {y}) \ {z}]
  <2>7. rest \in Int /\ f[y] \in Int /\ f[z] \in Int
    BY <1>1, <1>4, <2>1
  <2>8. g[U] = f[z] + (f[y] + rest) /\ g[U \ {y}] = f[z] + rest
    BY <2>2, <2>4, <2>5, <2>6
  <2> HIDE DEF Good, z, rest
  <2> QED
    BY <2>7, <2>8
<1>7. S \in Good
  <2>1. IsFiniteSet(S)
    BY DEF Summable
  <2> HIDE DEF Good
  <2> QED
    BY <1>5, <1>6, <2>1, SubsetInduction
<1> QED
  BY <1>2, <1>7

\* One part more.
LEMMA SumAdd ==
  ASSUME NEW S, NEW f, Summable(f, S), NEW x, x \notin S, f[x] \in Int
  PROVE  /\ Summable(f, S \union {x})
         /\ SumFunctionOnSet(f, S \union {x}) = f[x] + SumFunctionOnSet(f, S)
<1>1. Summable(f, S \union {x})
  BY FS_AddElement DEF Summable
<1>2. (S \union {x}) \ {x} = S
  OBVIOUS
<1>3. SumFunctionOnSet(f, S \union {x}) = f[x] + SumFunctionOnSet(f, (S \union {x}) \ {x})
  BY <1>1, SumRemove
<1> QED
  BY <1>1, <1>2, <1>3

\* A sum depends on nothing but its parts.
LEMMA SumSame ==
  ASSUME NEW S, NEW f, NEW g, Summable(f, S), \A x \in S : f[x] = g[x]
  PROVE  SumFunctionOnSet(f, S) = SumFunctionOnSet(g, S)
<1> DEFINE Good == {U \in SUBSET S : SumFunctionOnSet(f, U) = SumFunctionOnSet(g, U)}
<1>1. {} \in Good
  BY SumOfNone
<1>2. ASSUME NEW U \in SUBSET S, U # {}, \A y \in U : U \ {y} \in Good
      PROVE  U \in Good
  <2>1. PICK x \in U : TRUE
    BY <1>2
  <2>2. Summable(f, U) /\ Summable(g, U)
    BY FS_Subset DEF Summable
  <2>3. SumFunctionOnSet(f, U) = f[x] + SumFunctionOnSet(f, U \ {x})
    BY <2>2, SumRemove
  <2>4. SumFunctionOnSet(g, U) = g[x] + SumFunctionOnSet(g, U \ {x})
    BY <2>2, SumRemove
  <2> QED
    BY <1>2, <2>3, <2>4
<1>3. S \in Good
  <2>1. IsFiniteSet(S)
    BY DEF Summable
  <2> HIDE DEF Good
  <2> QED
    BY <1>1, <1>2, <2>1, SubsetInduction
<1> QED
  BY <1>3

\* The sum of the sums of parts.
LEMMA SumPlus ==
  ASSUME NEW S, NEW f, NEW g, NEW h, Summable(f, S), Summable(g, S),
         \A x \in S : h[x] = f[x] + g[x]
  PROVE  SumFunctionOnSet(h, S) = SumFunctionOnSet(f, S) + SumFunctionOnSet(g, S)
<1> DEFINE Good == {U \in SUBSET S : SumFunctionOnSet(h, U)
                        = SumFunctionOnSet(f, U) + SumFunctionOnSet(g, U)}
<1>1. {} \in Good
  BY SumOfNone
<1>2. ASSUME NEW U \in SUBSET S, U # {}, \A y \in U : U \ {y} \in Good
      PROVE  U \in Good
  <2>1. PICK x \in U : TRUE
    BY <1>2
  <2>2. Summable(f, U) /\ Summable(g, U) /\ Summable(h, U)
    BY FS_Subset DEF Summable
  <2>3. Summable(f, U \ {x}) /\ Summable(g, U \ {x})
    BY <2>2, FS_Subset DEF Summable
  <2>4. SumFunctionOnSet(f, U) = f[x] + SumFunctionOnSet(f, U \ {x})
    BY <2>2, SumRemove
  <2>5. SumFunctionOnSet(g, U) = g[x] + SumFunctionOnSet(g, U \ {x})
    BY <2>2, SumRemove
  <2>6. SumFunctionOnSet(h, U) = h[x] + SumFunctionOnSet(h, U \ {x})
    BY <2>2, SumRemove
  <2>7. SumFunctionOnSet(f, U \ {x}) \in Int /\ SumFunctionOnSet(g, U \ {x}) \in Int
    BY <2>3, SumIsInt
  <2>8. f[x] \in Int /\ g[x] \in Int /\ h[x] = f[x] + g[x]
    BY DEF Summable
  <2>9. SumFunctionOnSet(h, U \ {x})
          = SumFunctionOnSet(f, U \ {x}) + SumFunctionOnSet(g, U \ {x})
    BY <1>2
  <2> QED
    BY <2>4, <2>5, <2>6, <2>7, <2>8, <2>9
<1>3. S \in Good
  <2>1. IsFiniteSet(S)
    BY DEF Summable
  <2> HIDE DEF Good
  <2> QED
    BY <1>1, <1>2, <2>1, SubsetInduction
<1> QED
  BY <1>3

\* A sum is that of a part and that of the rest.
LEMMA SumSplit ==
  ASSUME NEW S, NEW f, Summable(f, S), NEW P \in SUBSET S
  PROVE  SumFunctionOnSet(f, S) = SumFunctionOnSet(f, P) + SumFunctionOnSet(f, S \ P)
<1> DEFINE Good == {U \in SUBSET (S \ P) : SumFunctionOnSet(f, P \union U)
                        = SumFunctionOnSet(f, P) + SumFunctionOnSet(f, U)}
<1>1. \A U \in SUBSET S : Summable(f, U) /\ SumFunctionOnSet(f, U) \in Int
  BY FS_Subset, SumIsInt DEF Summable
<1>2. {} \in Good
  <2>1. P \union {} = P
    OBVIOUS
  <2> QED
    BY <1>1, <2>1, SumOfNone
<1>3. ASSUME NEW U \in SUBSET (S \ P), U # {}, \A y \in U : U \ {y} \in Good
      PROVE  U \in Good
  <2>1. PICK x \in U : TRUE
    BY <1>3
  <2>2. (P \union U) \ {x} = P \union (U \ {x})
    BY <2>1
  <2>3. SumFunctionOnSet(f, P \union U) = f[x] + SumFunctionOnSet(f, P \union (U \ {x}))
    <3>1. Summable(f, P \union U) /\ x \in P \union U
      BY <1>1, <2>1
    <3> QED
      BY <2>2, <3>1, SumRemove
  <2>4. SumFunctionOnSet(f, U) = f[x] + SumFunctionOnSet(f, U \ {x})
    BY <1>1, <2>1, SumRemove
  <2>5. SumFunctionOnSet(f, P \union (U \ {x}))
          = SumFunctionOnSet(f, P) + SumFunctionOnSet(f, U \ {x})
    BY <1>3, <2>1
  <2>6. f[x] \in Int
    BY <2>1 DEF Summable
  <2>7. SumFunctionOnSet(f, P) \in Int /\ SumFunctionOnSet(f, U \ {x}) \in Int
    BY <1>1
  <2> QED
    BY <2>3, <2>4, <2>5, <2>6, <2>7
<1>4. S \ P \in Good
  <2>1. IsFiniteSet(S \ P)
    BY FS_Subset DEF Summable
  <2> HIDE DEF Good
  <2> QED
    BY <1>2, <1>3, <2>1, SubsetInduction
<1>5. P \union (S \ P) = S
  OBVIOUS
<1> QED
  BY <1>4, <1>5

\* A sum of nothings is nothing.
LEMMA SumOfZeros ==
  ASSUME NEW S, NEW f, IsFiniteSet(S), \A x \in S : f[x] = 0
  PROVE  SumFunctionOnSet(f, S) = 0
<1>1. Summable(f, S)
  BY DEF Summable
<1>2. SumFunctionOnSet(f, S) = SumFunctionOnSet(f, S) + SumFunctionOnSet(f, S)
  BY <1>1, SumPlus
<1> QED
  BY <1>1, <1>2, SumIsInt

\* A sum of parts none of which is negative is at least each of them.
LEMMA SumOfNats ==
  ASSUME NEW S, NEW f, IsFiniteSet(S), \A x \in S : f[x] \in Nat
  PROVE  SumFunctionOnSet(f, S) \in Nat /\ \A x \in S : f[x] <= SumFunctionOnSet(f, S)
<1>1. \A U \in SUBSET S : Summable(f, U)
  BY FS_Subset DEF Summable
<1> DEFINE Good == {U \in SUBSET S : SumFunctionOnSet(f, U) \in Nat}
<1>2. {} \in Good
  BY SumOfNone
<1>3. ASSUME NEW U \in SUBSET S, U # {}, \A y \in U : U \ {y} \in Good
      PROVE  U \in Good
  <2>1. PICK x \in U : TRUE
    BY <1>3
  <2>2. SumFunctionOnSet(f, U) = f[x] + SumFunctionOnSet(f, U \ {x})
    BY <1>1, SumRemove
  <2> QED
    BY <1>3, <2>2
<1>4. \A U \in SUBSET S : U \in Good
  <2> HIDE DEF Good
  <2> QED
    BY <1>2, <1>3, SubsetInduction
<1>5. ASSUME NEW x \in S PROVE f[x] <= SumFunctionOnSet(f, S)
  <2>1. SumFunctionOnSet(f, S) = f[x] + SumFunctionOnSet(f, S \ {x})
    BY <1>1, SumRemove
  <2>2. SumFunctionOnSet(f, S \ {x}) \in Nat
    BY <1>4
  <2> QED
    BY <2>1, <2>2
<1> QED
  BY <1>4, <1>5
=============================================================================
