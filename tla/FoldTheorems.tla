---------------------------- MODULE FoldTheorems ----------------------------
(***************************************************************************)
(* Lemmas about the folds of the community modules: SumFunction, which the *)
(* tallies of DataStore and Dashboard are stated with, and FoldLeft, which *)
(* the loops of BalloonSearch are.                                         *)
(*                                                                         *)
(* A fold is a function on the subsets of a finite set, recursive on the    *)
(* set less one picked element.  That there is one such function, and what  *)
(* it is, is shown by induction on subsets; the property inducted on is     *)
(* given as the set of the subsets that have it, and the folded operator as *)
(* a function, since the provers do not instantiate an operator.            *)
(***************************************************************************)
EXTENDS Integers, FiniteSets, Functions, FiniteSetTheorems, TLAPS

-----------------------------------------------------------------------------
(* Induction *)

\* If a subset of a finite set is good when it is good less any one of its elements,
\* then every subset is: a least one that is not would have no reason to be bad.
LEMMA SubsetInduction ==
  ASSUME NEW S, IsFiniteSet(S), NEW Good,
         \A T \in SUBSET S : (\A x \in T : T \ {x} \in Good) => T \in Good
  PROVE  \A T \in SUBSET S : T \in Good
<1> DEFINE Bad == {T \in SUBSET S : T \notin Good}
           R == StrictSubsetOrdering(S)
<1>1. IsWellFoundedOn(R, SUBSET S)
  BY FS_FiniteSubsetsOfFinite, FS_StrictSubsetOrderingWellFounded
<1>2. SUFFICES ASSUME Bad # {} PROVE FALSE
  OBVIOUS
<1>3. PICK T \in Bad : \A U \in Bad : <<U, T>> \notin R
  <2> HIDE DEF R
  <2>1. Bad \subseteq SUBSET S
    OBVIOUS
  <2> HIDE DEF Bad
  <2> QED
    BY <1>1, <1>2, <2>1, WFMin
<1>4. ASSUME NEW x \in T PROVE T \ {x} \in Good
  <2>1. <<T \ {x}, T>> \in R
    BY DEF StrictSubsetOrdering
  <2> QED
    BY <1>3, <2>1
<1> QED
  BY <1>4

\* What is left of a prefix without its last index
LEMMA OneShorter ==
  ASSUME NEW n \in Nat, NEW k \in 1..n
  PROVE  /\ 1..k \in SUBSET (1..n) /\ 1..k # {} /\ (1..k) \ {k} = 1..(k - 1)
         /\ k \in 0..n /\ k - 1 \in 0..n
<1>1. k \in Nat /\ 1 <= k /\ k <= n
  OBVIOUS
<1>2. (1..k) \ {k} = 1..(k - 1)
  BY <1>1
<1> QED
  BY <1>1, <1>2

\* Induction on the length of a prefix
LEMMA PrefixInduction ==
  ASSUME NEW n \in Nat, NEW Good, 0 \in Good, \A k \in 1..n : k - 1 \in Good => k \in Good
  PROVE  \A k \in 0..n : k \in Good
<1> DEFINE Well == {T \in SUBSET (1..n) : \A k \in 0..n : T = 1..k => k \in Good}
<1>1. ASSUME NEW T \in SUBSET (1..n), \A x \in T : T \ {x} \in Well
      PROVE  T \in Well
  <2> SUFFICES ASSUME NEW k \in 0..n, T = 1..k PROVE k \in Good
    OBVIOUS
  <2>1. CASE k # 0
    <3>1. k \in T /\ T \ {k} = 1..(k - 1) /\ k - 1 \in 0..n /\ k \in 1..n
      BY <2>1
    <3>2. T \ {k} \in Well
      BY <1>1, <3>1
    <3> QED
      BY <3>1, <3>2
  <2> QED
    BY <2>1
<1>2. \A T \in SUBSET (1..n) : T \in Well
  <2> HIDE DEF Well
  <2>1. IsFiniteSet(1..n)
    BY FS_Interval
  <2> QED
    BY <1>1, <2>1, SubsetInduction
<1> QED
  <2> SUFFICES ASSUME NEW k \in 0..n PROVE k \in Good
    OBVIOUS
  <2>1. 1..k \in SUBSET (1..n)
    OBVIOUS
  <2> QED
    BY <1>2, <2>1

-----------------------------------------------------------------------------
(* Folds *)

\* g is the fold of F over the subsets of T, which takes P[U] out of U first.
Folds(F, base, P, g, T) ==
  g = [U \in SUBSET T |-> IF U = {} THEN base ELSE F[P[U]][g[U \ {P[U]}]]]

\* P picks an element of every subset of S but the empty one.
Picks(P, S) == \A U \in SUBSET S : U # {} => P[U] \in U

\* One function at most satisfies the recursion.
LEMMA FoldsUnique ==
  ASSUME NEW F, NEW base, NEW S, IsFiniteSet(S), NEW P, Picks(P, S), NEW g, NEW h,
         Folds(F, base, P, g, S), Folds(F, base, P, h, S)
  PROVE  g = h
<1> DEFINE Good == {T \in SUBSET S : g[T] = h[T]}
<1>1. ASSUME NEW T \in SUBSET S, \A x \in T : T \ {x} \in Good
      PROVE  T \in Good
  <2>1. T # {} => g[T \ {P[T]}] = h[T \ {P[T]}]
    BY <1>1 DEF Picks
  <2>2. g[T] = IF T = {} THEN base ELSE F[P[T]][g[T \ {P[T]}]]
    BY DEF Folds
  <2>3. h[T] = IF T = {} THEN base ELSE F[P[T]][h[T \ {P[T]}]]
    BY DEF Folds
  <2> QED
    BY <2>1, <2>2, <2>3
<1>2. \A T \in SUBSET S : T \in Good
  <2> HIDE DEF Good
  <2> QED
    BY <1>1, SubsetInduction
<1> QED
  BY <1>2 DEF Folds

\* A function that does on S does on a subset of S.
LEMMA FoldsRestrict ==
  ASSUME NEW F, NEW base, NEW S, NEW P, Picks(P, S), NEW g, NEW T \in SUBSET S,
         Folds(F, base, P, g, S), NEW h, h = [U \in SUBSET T |-> g[U]]
  PROVE  Folds(F, base, P, h, T)
BY DEF Folds, Picks

\* There is one: its value on each set is that of the function for the set.
LEMMA FoldsExist ==
  ASSUME NEW F, NEW base, NEW S, IsFiniteSet(S), NEW P, Picks(P, S)
  PROVE  \E g : Folds(F, base, P, g, S)
<1> DEFINE Good == {T \in SUBSET S : \E g : Folds(F, base, P, g, T)}
<1>1. ASSUME NEW T \in SUBSET S, \A x \in T : T \ {x} \in Good
      PROVE  T \in Good
  <2> DEFINE s(U) == (CHOOSE g : Folds(F, base, P, g, U))[U]
             h == [U \in SUBSET T |->
                     IF U = {} THEN base ELSE F[P[U]][s(U \ {P[U]})]]
  <2>1. ASSUME NEW U \in SUBSET T, U # T PROVE h[U] = s(U)
    <3>1. PICK x \in T : U \subseteq T \ {x}
      BY <2>1
    <3>2. PICK g0 : Folds(F, base, P, g0, T \ {x})
      BY <1>1
    <3>3. \A V \in SUBSET (T \ {x}) : s(V) = g0[V]
      <4> SUFFICES ASSUME NEW V \in SUBSET (T \ {x}) PROVE s(V) = g0[V]
        OBVIOUS
      <4> DEFINE g1 == [W \in SUBSET V |-> g0[W]]
                 g2 == CHOOSE g : Folds(F, base, P, g, V)
      <4>0. Picks(P, T \ {x}) /\ Picks(P, V)
        BY DEF Picks
      <4>1. Folds(F, base, P, g1, V)
        BY <3>2, <4>0, FoldsRestrict
      <4>2. Folds(F, base, P, g2, V)
        BY <4>1
      <4>3. IsFiniteSet(V)
        BY FS_Subset
      <4>4. g1[V] = g0[V]
        OBVIOUS
      <4>5. s(V) = g2[V]
        OBVIOUS
      <4> HIDE DEF g1, g2
      <4>6. g1 = g2
        BY <4>0, <4>1, <4>2, <4>3, FoldsUnique
      <4> QED
        BY <4>4, <4>5, <4>6
    <3> HIDE DEF s
    <3>4. U # {} => P[U] \in U
      BY DEF Picks
    <3>5. h[U] = IF U = {} THEN base ELSE F[P[U]][s(U \ {P[U]})]
      OBVIOUS
    <3>6. g0[U] = IF U = {} THEN base ELSE F[P[U]][g0[U \ {P[U]}]]
      BY <3>1, <3>2 DEF Folds
    <3> QED
      BY <3>1, <3>3, <3>4, <3>5, <3>6
  <2> HIDE DEF s
  <2>2. Folds(F, base, P, h, T)
    BY <2>1 DEF Folds, Picks
  <2> QED
    BY <2>2
<1>2. \A T \in SUBSET S : T \in Good
  <2> HIDE DEF Good
  <2> QED
    BY <1>1, SubsetInduction
<1> QED
  BY <1>2

\* Values stay in a set that F keeps them in.
LEMMA FoldsTyped ==
  ASSUME NEW D, NEW base \in D, NEW S, IsFiniteSet(S), NEW P, Picks(P, S),
         NEW F, \A d \in D : \A x \in S : F[x][d] \in D,
         NEW g, Folds(F, base, P, g, S)
  PROVE  \A T \in SUBSET S : g[T] \in D
<1> DEFINE Good == {T \in SUBSET S : g[T] \in D}
<1>1. ASSUME NEW T \in SUBSET S, \A x \in T : T \ {x} \in Good
      PROVE  T \in Good
  <2>1. g[T] = IF T = {} THEN base ELSE F[P[T]][g[T \ {P[T]}]]
    BY DEF Folds
  <2>2. T # {} => P[T] \in T /\ g[T \ {P[T]}] \in D
    BY <1>1 DEF Picks
  <2> QED
    BY <2>1, <2>2
<1>2. \A T \in SUBSET S : T \in Good
  <2> HIDE DEF Good
  <2> QED
    BY <1>1, SubsetInduction
<1> QED
  BY <1>2

-----------------------------------------------------------------------------
(* Sums *)

\* The element of T that a sum adds last
Pick(T) == CHOOSE x \in T : TRUE

\* CHOOSE picks an element.
LEMMA PickIn == \A T : T # {} => Pick(T) \in T
BY DEF Pick

\* A sum over a subset T of S is the fold of this function, which picks by CHOOSE.
Adding(f, S) == [x \in S |-> [d \in Int |-> f[x] + d]]
Picked(S) == [U \in SUBSET S |-> Pick(U)]

LEMMA SumFolds ==
  ASSUME NEW f, NEW S, IsFiniteSet(S), \A x \in S : f[x] \in Int, NEW T \in SUBSET S
  PROVE  \E g : /\ Folds(Adding(f, S), 0, Picked(S), g, T)
                /\ SumFunctionOnSet(f, T) = g[T]
                /\ g[T] \in Int
<1> DEFINE F == Adding(f, S)
           P == Picked(S)
           Sums(g) == g = [U \in SUBSET T |-> IF U = {} THEN 0 ELSE f[Pick(U)] + g[U \ {Pick(U)}]]
           iter == CHOOSE g : Sums(g)
<1>1. SumFunctionOnSet(f, T) = iter[T]
  BY DEF SumFunctionOnSet, FoldFunctionOnSet, MapThenFoldSet, Pick
<1>2. IsFiniteSet(T) /\ Picks(P, T)
  BY FS_Subset, PickIn DEF Picks, Picked
<1>3. \A d \in Int : \A x \in S : F[x][d] = f[x] + d /\ F[x][d] \in Int
  BY DEF Adding
<1>4. \A U \in SUBSET T : P[U] = Pick(U) /\ (U # {} => Pick(U) \in S)
  BY PickIn DEF Picked
<1> HIDE DEF F, P
<1>5. PICK g : Folds(F, 0, P, g, T)
  BY <1>2, FoldsExist
<1>6. \A U \in SUBSET T : g[U] \in Int
  <2> HIDE DEF Sums, iter
  <2>1. \A d \in Int : \A x \in T : F[x][d] \in Int
    BY <1>3
  <2>2. 0 \in Int
    OBVIOUS
  <2> QED
    BY <1>2, <1>5, <2>1, <2>2, FoldsTyped
<1>7. Sums(g)
  <2>1. g = [U \in SUBSET T |-> IF U = {} THEN 0 ELSE F[P[U]][g[U \ {P[U]}]]]
    BY <1>5 DEF Folds
  <2>2. ASSUME NEW U \in SUBSET T, U # {}
        PROVE  F[P[U]][g[U \ {P[U]}]] = f[Pick(U)] + g[U \ {Pick(U)}]
    <3>1. P[U] = Pick(U) /\ Pick(U) \in S
      BY <1>4, <2>2
    <3>2. g[U \ {Pick(U)}] \in Int
      BY <1>6
    <3> QED
      BY <1>3, <3>1, <3>2
  <2> QED
    BY <2>1, <2>2
<1>8. Sums(iter)
  BY <1>7
<1>9. ASSUME NEW h, Sums(h) PROVE \A U \in SUBSET T : h[U] = g[U]
  <2> DEFINE Good == {U \in SUBSET T : h[U] = g[U]}
  <2>1. ASSUME NEW U \in SUBSET T, \A x \in U : U \ {x} \in Good
        PROVE  U \in Good
    <3>1. U # {} => h[U \ {Pick(U)}] = g[U \ {Pick(U)}]
      BY <2>1, PickIn
    <3>2. g[U] = IF U = {} THEN 0 ELSE f[Pick(U)] + g[U \ {Pick(U)}]
      BY <1>7
    <3>3. h[U] = IF U = {} THEN 0 ELSE f[Pick(U)] + h[U \ {Pick(U)}]
      BY <1>9
    <3> QED
      BY <3>1, <3>2, <3>3
  <2>2. \A U \in SUBSET T : U \in Good
    <3> HIDE DEF Good
    <3> QED
      BY <1>2, <2>1, SubsetInduction
  <2> QED
    BY <2>2
<1> HIDE DEF iter
<1> QED
  BY <1>1, <1>5, <1>6, <1>8, <1>9 DEF F, P

\* Nothing adds up to nothing.
LEMMA SumEmpty == ASSUME NEW f PROVE SumFunctionOnSet(f, {}) = 0
<1>1. PICK g : /\ Folds(Adding(f, {}), 0, Picked({}), g, {})
               /\ SumFunctionOnSet(f, {}) = g[{}]
  BY SumFolds, FS_EmptySet
<1> QED
  BY <1>1 DEF Folds

\* The recursion, of sums
LEMMA SumPicked ==
  ASSUME NEW f, NEW S, IsFiniteSet(S), S # {}, \A x \in S : f[x] \in Int
  PROVE  SumFunctionOnSet(f, S) = f[Pick(S)] + SumFunctionOnSet(f, S \ {Pick(S)})
<1> DEFINE T == S \ {Pick(S)}
           F == Adding(f, S)
           P == Picked(S)
<1>1. IsFiniteSet(T) /\ T \in SUBSET S /\ S \in SUBSET S /\ Pick(S) \in S
  BY FS_Subset, PickIn
<1>2. Picks(P, S) /\ Picks(P, T)
  BY PickIn DEF Picks, Picked
<1>3. /\ P[S] = Pick(S)
      /\ \A d \in Int : F[Pick(S)][d] = f[Pick(S)] + d
  BY <1>1 DEF Picked, Adding
<1>4. PICK g : Folds(F, 0, P, g, S) /\ SumFunctionOnSet(f, S) = g[S]
  BY <1>1, SumFolds
<1>5. PICK h : Folds(F, 0, P, h, T) /\ SumFunctionOnSet(f, T) = h[T] /\ h[T] \in Int
  BY <1>1, SumFolds
<1> DEFINE r == [U \in SUBSET T |-> g[U]]
<1> HIDE DEF F, P
<1>6. Folds(F, 0, P, r, T)
  BY <1>1, <1>2, <1>4, FoldsRestrict
<1>7. r[T] = g[T]
  OBVIOUS
<1>8. g[S] = F[Pick(S)][g[T]]
  BY <1>3, <1>4 DEF Folds
<1> HIDE DEF r, T
<1>9. r = h
  BY <1>1, <1>2, <1>5, <1>6, FoldsUnique
<1> QED
  BY <1>3, <1>4, <1>5, <1>7, <1>8, <1>9 DEF T

\* Integers add up to an integer.
LEMMA SumType ==
  ASSUME NEW f, NEW S, IsFiniteSet(S), \A x \in S : f[x] \in Int
  PROVE  SumFunctionOnSet(f, S) \in Int
<1> DEFINE Good == {T \in SUBSET S : SumFunctionOnSet(f, T) \in Int}
<1>1. ASSUME NEW T \in SUBSET S, \A x \in T : T \ {x} \in Good
      PROVE  T \in Good
  <2>1. CASE T = {}
    BY <2>1, SumEmpty
  <2>2. CASE T # {}
    <3>1. Pick(T) \in T /\ IsFiniteSet(T)
      BY <2>2, PickIn, FS_Subset
    <3>2. SumFunctionOnSet(f, T) = f[Pick(T)] + SumFunctionOnSet(f, T \ {Pick(T)})
      BY <2>2, <3>1, SumPicked
    <3> QED
      BY <1>1, <3>1, <3>2
  <2> QED
    BY <2>1, <2>2
<1>2. \A T \in SUBSET S : T \in Good
  <2> HIDE DEF Good
  <2> QED
    BY <1>1, SubsetInduction
<1> QED
  BY <1>2

\* Natural numbers add up to a natural number.
LEMMA SumNat ==
  ASSUME NEW f, NEW S, IsFiniteSet(S), \A x \in S : f[x] \in Nat
  PROVE  SumFunctionOnSet(f, S) \in Nat
<1> DEFINE Good == {T \in SUBSET S : SumFunctionOnSet(f, T) \in Nat}
<1>1. ASSUME NEW T \in SUBSET S, \A x \in T : T \ {x} \in Good
      PROVE  T \in Good
  <2>1. CASE T = {}
    BY <2>1, SumEmpty
  <2>2. CASE T # {}
    <3>1. Pick(T) \in T /\ IsFiniteSet(T)
      BY <2>2, PickIn, FS_Subset
    <3>2. SumFunctionOnSet(f, T) = f[Pick(T)] + SumFunctionOnSet(f, T \ {Pick(T)})
      BY <2>2, <3>1, SumPicked
    <3> QED
      BY <1>1, <3>1, <3>2
  <2> QED
    BY <2>1, <2>2
<1>2. \A T \in SUBSET S : T \in Good
  <2> HIDE DEF Good
  <2> QED
    BY <1>1, SubsetInduction
<1> QED
  BY <1>2

\* Equal values have equal sums.
LEMMA SumSame ==
  ASSUME NEW f, NEW g, NEW S, IsFiniteSet(S), \A x \in S : f[x] = g[x] /\ f[x] \in Int
  PROVE  SumFunctionOnSet(f, S) = SumFunctionOnSet(g, S)
<1> DEFINE Good == {T \in SUBSET S : SumFunctionOnSet(f, T) = SumFunctionOnSet(g, T)}
<1>1. ASSUME NEW T \in SUBSET S, \A x \in T : T \ {x} \in Good
      PROVE  T \in Good
  <2>1. CASE T = {}
    BY <2>1, SumEmpty
  <2>2. CASE T # {}
    <3>1. Pick(T) \in T /\ IsFiniteSet(T)
      BY <2>2, PickIn, FS_Subset
    <3>2. /\ SumFunctionOnSet(f, T) = f[Pick(T)] + SumFunctionOnSet(f, T \ {Pick(T)})
          /\ SumFunctionOnSet(g, T) = g[Pick(T)] + SumFunctionOnSet(g, T \ {Pick(T)})
      BY <2>2, <3>1, SumPicked
    <3> QED
      BY <1>1, <3>1, <3>2
  <2> QED
    BY <2>1, <2>2
<1>2. \A T \in SUBSET S : T \in Good
  <2> HIDE DEF Good
  <2> QED
    BY <1>1, SubsetInduction
<1> QED
  BY <1>2

\* Any element may be taken out first, not only the one CHOOSE picks.
LEMMA SumOneLess ==
  ASSUME NEW f, NEW S, IsFiniteSet(S), \A x \in S : f[x] \in Int, NEW y \in S
  PROVE  SumFunctionOnSet(f, S) = f[y] + SumFunctionOnSet(f, S \ {y})
<1> DEFINE Sum(T) == SumFunctionOnSet(f, T)
           Good == {T \in SUBSET S : \A x \in T : Sum(T) = f[x] + Sum(T \ {x})}
<1>0. \A T \in SUBSET S : Sum(T) \in Int /\ IsFiniteSet(T)
  BY SumType, FS_Subset
<1>1. \A T \in SUBSET S : T # {} => Sum(T) = f[Pick(T)] + Sum(T \ {Pick(T)})
  BY SumPicked, FS_Subset
<1> HIDE DEF Sum
<1>2. ASSUME NEW T \in SUBSET S, \A x \in T : T \ {x} \in Good
      PROVE  T \in Good
  <2> SUFFICES ASSUME NEW x \in T PROVE Sum(T) = f[x] + Sum(T \ {x})
    OBVIOUS
  <2> DEFINE p == Pick(T)
  <2>1. p \in T /\ Sum(T) = f[p] + Sum(T \ {p})
    BY <1>1, PickIn
  <2> HIDE DEF p
  <2>2. CASE x # p
    \* Both leave a set whose sum is known, and both lead to T less x and p.
    <3> DEFINE rest == (T \ {p}) \ {x}
    <3>1. Sum(T \ {p}) = f[x] + Sum(rest)
      BY <1>2, <2>1, <2>2
    <3>2. rest = (T \ {x}) \ {p}
      OBVIOUS
    <3>3. Sum(T \ {x}) = f[p] + Sum((T \ {x}) \ {p})
      BY <1>2, <2>1, <2>2
    <3>4. Sum(rest) \in Int /\ f[x] \in Int /\ f[p] \in Int
      BY <1>0, <2>1
    <3> HIDE DEF rest
    <3>5. Sum(T \ {x}) = f[p] + Sum(rest)
      BY <3>2, <3>3
    <3> QED
      BY <2>1, <3>1, <3>4, <3>5
  <2> QED
    BY <2>1, <2>2
<1>3. \A T \in SUBSET S : T \in Good
  <2> HIDE DEF Good
  <2> QED
    BY <1>2, SubsetInduction
<1> QED
  BY <1>3 DEF Sum

\* What a further element adds
LEMMA SumOneMore ==
  ASSUME NEW f, NEW S, IsFiniteSet(S), NEW y, y \notin S, \A x \in S \cup {y} : f[x] \in Int
  PROVE  SumFunctionOnSet(f, S \cup {y}) = f[y] + SumFunctionOnSet(f, S)
<1> DEFINE T == S \cup {y}
<1>1. IsFiniteSet(T) /\ y \in T /\ T \ {y} = S /\ \A x \in T : f[x] \in Int
  BY FS_AddElement
<1> HIDE DEF T
<1>2. SumFunctionOnSet(f, T) = f[y] + SumFunctionOnSet(f, T \ {y})
  BY <1>1, SumOneLess
<1> QED
  BY <1>1, <1>2 DEF T

\* Zeros add up to zero.
LEMMA SumZero ==
  ASSUME NEW f, NEW S, IsFiniteSet(S), \A x \in S : f[x] = 0
  PROVE  SumFunctionOnSet(f, S) = 0
<1> DEFINE Good == {T \in SUBSET S : SumFunctionOnSet(f, T) = 0}
<1>1. ASSUME NEW T \in SUBSET S, \A x \in T : T \ {x} \in Good
      PROVE  T \in Good
  <2>1. CASE T = {}
    BY <2>1, SumEmpty
  <2>2. CASE T # {}
    <3>1. Pick(T) \in T /\ IsFiniteSet(T)
      BY <2>2, PickIn, FS_Subset
    <3>2. SumFunctionOnSet(f, T) = f[Pick(T)] + SumFunctionOnSet(f, T \ {Pick(T)})
      BY <2>2, <3>1, SumPicked
    <3> QED
      BY <1>1, <3>1, <3>2
  <2> QED
    BY <2>1, <2>2
<1>2. \A T \in SUBSET S : T \in Good
  <2> HIDE DEF Good
  <2> QED
    BY <1>1, SubsetInduction
<1> QED
  BY <1>2

\* Changing one value changes the sum by as much.
LEMMA SumChange ==
  ASSUME NEW f, NEW g, IsFiniteSet(DOMAIN f), DOMAIN g = DOMAIN f, NEW y \in DOMAIN f,
         \A x \in DOMAIN f : f[x] \in Int /\ g[x] \in Int,
         \A x \in DOMAIN f \ {y} : g[x] = f[x]
  PROVE  SumFunction(g) = SumFunction(f) + g[y] - f[y]
<1> DEFINE S == DOMAIN f
           T == S \ {y}
<1>1. IsFiniteSet(T)
  BY FS_Subset
<1>2. SumFunctionOnSet(f, S) = f[y] + SumFunctionOnSet(f, T)
  BY SumOneLess
<1>3. SumFunctionOnSet(g, S) = g[y] + SumFunctionOnSet(g, T)
  BY SumOneLess
<1>4. SumFunctionOnSet(f, T) = SumFunctionOnSet(g, T)
  BY <1>1, SumSame
<1>5. SumFunctionOnSet(f, T) \in Int
  BY <1>1, SumType
<1> QED
  BY <1>2, <1>3, <1>4, <1>5 DEF SumFunction

-----------------------------------------------------------------------------
(* Folds from the left *)

\* The largest element of each set of indices: FoldLeft takes it last.
Largest(S) == [U \in SUBSET S |-> CHOOSE i \in U : \A j \in U : i >= j]

\* Every set of indices has one, and the largest of a prefix is its last.
LEMMA LargestPicks ==
  ASSUME NEW n \in Nat
  PROVE  /\ Picks(Largest(1..n), 1..n)
         /\ \A k \in 1..n : Largest(1..n)[1..k] = k
<1> DEFINE Top(U, i) == i \in U /\ \A j \in U : i >= j
           Good == {k \in 0..n : \A U \in SUBSET (1..k) : U # {} => \E i \in U : Top(U, i)}
<1>1. \A k \in 0..n : k \in Good
  <2>1. 0 \in Good
    <3>1. 1..0 = {} /\ 0 \in 0..n
      OBVIOUS
    <3> QED
      BY <3>1
  <2>2. ASSUME NEW k \in 1..n, k - 1 \in Good PROVE k \in Good
    <3> SUFFICES ASSUME NEW U \in SUBSET (1..k), U # {} PROVE \E i \in U : Top(U, i)
      OBVIOUS
    <3>1. CASE k \in U
      BY <3>1
    <3>2. CASE k \notin U
      <4>1. U \in SUBSET (1..(k - 1))
        BY <3>2
      <4> QED
        BY <2>2, <4>1
    <3> QED
      BY <3>1, <3>2
  <2> HIDE DEF Good
  <2> QED
    BY <2>1, <2>2, PrefixInduction
<1>2. \A U \in SUBSET (1..n) : U # {} => \E i \in U : Top(U, i)
  BY <1>1
<1>3. \A U \in SUBSET (1..n) : U # {} => Top(U, Largest(1..n)[U])
  BY <1>2 DEF Largest
<1>4. ASSUME NEW k \in 1..n PROVE Largest(1..n)[1..k] = k
  <2>1. 1..k \in SUBSET (1..n) /\ 1..k # {} /\ k \in 1..k
    OBVIOUS
  <2>2. Top(1..k, Largest(1..n)[1..k])
    BY <1>3, <2>1
  <2> QED
    BY <2>1, <2>2
<1> QED
  BY <1>3, <1>4 DEF Picks

\* The fold from the left over n indices exists.
LEMMA LeftFoldExists ==
  ASSUME NEW n \in Nat, NEW D, NEW base \in D,
         NEW F, \A d \in D : \A i \in 1..n : F[i][d] \in D
  PROVE  \E g : /\ Folds(F, base, Largest(1..n), g, 1..n)
                /\ \A U \in SUBSET (1..n) : g[U] \in D
<1>1. IsFiniteSet(1..n) /\ Picks(Largest(1..n), 1..n)
  BY FS_Interval, LargestPicks
<1>2. PICK g : Folds(F, base, Largest(1..n), g, 1..n)
  BY <1>1, FoldsExist
<1>3. \A U \in SUBSET (1..n) : g[U] \in D
  BY <1>1, <1>2, FoldsTyped
<1> QED
  BY <1>2, <1>3
==============================================================================
