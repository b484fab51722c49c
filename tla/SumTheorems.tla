---------------------------- MODULE SumTheorems ----------------------------
(***************************************************************************)
(* Facts about the sum of a function over a finite set, which the balances *)
(* of x/callback and x/rewards and the gas of x/tracking are compared      *)
(* with. The sum is SumFunctionOnSet of the community module Functions.    *)
(* The last theorem collects them as SumLaws.                              *)
(***************************************************************************)
EXTENDS SumLaws, FiniteSetTheorems, TLAPS

(* The element that the fold behind SumFunctionOnSet takes first, and what *)
(* the fold is: the sum of every subset, by recursion.                     *)
One(s) == CHOOSE x \in s : TRUE

IsSum(f, S, it) ==
    it = [s \in SUBSET S |-> IF s = {} THEN 0 ELSE f[One(s)] + it[s \ {One(s)}]]

LEMMA OneIn == ASSUME NEW s, s # {} PROVE One(s) \in s
BY DEF One

LEMMA IsSumAt ==
    ASSUME NEW S, NEW f, NEW g, IsSum(f, S, g), NEW s \in SUBSET S
    PROVE  g[s] = IF s = {} THEN 0 ELSE f[One(s)] + g[s \ {One(s)}]
BY Zenon DEF IsSum

LEMMA IsSumIf ==
    ASSUME NEW S, NEW f, NEW g, DOMAIN g = SUBSET S, g = [s \in DOMAIN g |-> g[s]],
           \A s \in SUBSET S : g[s] = IF s = {} THEN 0 ELSE f[One(s)] + g[s \ {One(s)}]
    PROVE  IsSum(f, S, g)
BY DEF IsSum

(* A set of subsets of a finite set has a minimal one. *)
LEMMA MinimalSubset ==
    ASSUME NEW S, IsFiniteSet(S), NEW Bad, Bad \subseteq SUBSET S, Bad # {}
    PROVE  \E T \in Bad : \A U \in Bad : ~(<<U, T>> \in StrictSubsetOrdering(S))
<1>1. IsWellFoundedOn(StrictSubsetOrdering(S), FiniteSubsetsOf(S))
  BY FS_StrictSubsetOrderingWellFounded, Zenon
<1>2. FiniteSubsetsOf(S) = SUBSET S
  BY FS_FiniteSubsetsOfFinite, Zenon
<1>3. IsWellFoundedOn(StrictSubsetOrdering(S), SUBSET S)
  BY <1>1, <1>2, Zenon
<1> QED
  BY <1>3, WFMin, Zenon

(* A set of subsets to which a set belongs whenever all its proper subsets *)
(* do holds every subset of a finite set.                                  *)
LEMMA SubsetInduction ==
    ASSUME NEW S, IsFiniteSet(S), NEW Good,
           \A T \in SUBSET S : (\A U \in SUBSET T : U # T => U \in Good) => T \in Good,
           NEW T0 \in SUBSET S
    PROVE  T0 \in Good
<1> SUFFICES ASSUME T0 \notin Good PROVE FALSE
  OBVIOUS
<1> DEFINE Bad == {T \in SUBSET S : T \notin Good}
<1>1. Bad \subseteq SUBSET S /\ Bad # {}
  OBVIOUS
<1>2. PICK T \in Bad : \A U \in Bad : ~(<<U, T>> \in StrictSubsetOrdering(S))
  <2> HIDE DEF Bad
  <2> QED
    BY <1>1, MinimalSubset
<1>3. ASSUME NEW U \in SUBSET T, U # T PROVE U \in Good
  BY <1>2, <1>3, ZenonT(30) DEF StrictSubsetOrdering
<1> QED
  BY <1>2, <1>3, Zenon

(* Two sums agree wherever both are defined. *)
LEMMA SumUnique ==
    ASSUME NEW S, IsFiniteSet(S), NEW f, NEW T \in SUBSET S, NEW U \in SUBSET S,
           NEW g, IsSum(f, T, g), NEW h, IsSum(f, U, h), NEW s0 \in SUBSET T, s0 \in SUBSET U
    PROVE  g[s0] = h[s0]
<1> DEFINE Good == {s \in SUBSET S : s \in SUBSET T /\ s \in SUBSET U => g[s] = h[s]}
<1>1. ASSUME NEW s \in SUBSET S, \A u \in SUBSET s : u # s => u \in Good,
             s \in SUBSET T, s \in SUBSET U
      PROVE  g[s] = h[s]
  <2> DEFINE x == One(s)
  <2>1. /\ g[s] = IF s = {} THEN 0 ELSE f[x] + g[s \ {x}]
        /\ h[s] = IF s = {} THEN 0 ELSE f[x] + h[s \ {x}]
    BY <1>1, IsSumAt
  <2>2. CASE s = {}
    BY <2>1, <2>2
  <2>3. CASE s # {}
    <3>1. x \in s
      BY <2>3, OneIn
    <3> HIDE DEF x
    <3>2. s \ {x} \in SUBSET s /\ s \ {x} # s /\ s \ {x} \in SUBSET T /\ s \ {x} \in SUBSET U
      BY <1>1, <3>1
    <3>3. g[s \ {x}] = h[s \ {x}]
      BY <1>1, <3>2
    <3> QED
      BY <2>1, <3>3, <2>3
  <2> QED
    BY <2>2, <2>3
<1>2. \A s \in SUBSET S : (\A u \in SUBSET s : u # s => u \in Good) => s \in Good
  BY <1>1
<1>3. s0 \in SUBSET S
  OBVIOUS
<1>4. s0 \in Good
  <2> HIDE DEF Good
  <2> QED
    BY <1>2, <1>3, SubsetInduction
<1> QED
  BY <1>4

(* The recursion has a solution on every finite set. *)
LEMMA SumExists ==
    ASSUME NEW S, IsFiniteSet(S), NEW f
    PROVE  \E g : IsSum(f, S, g)
<1> DEFINE Good == {T \in SUBSET S : \E g : IsSum(f, T, g)}
           Part(T) == CHOOSE g : IsSum(f, T, g)
<1>1. ASSUME NEW T \in SUBSET S, \A U \in SUBSET T : U # T => U \in Good
      PROVE  \E g : IsSum(f, T, g)
  <2> DEFINE G == [s \in SUBSET T |-> IF s = {} THEN 0
                                     ELSE f[One(s)] + Part(s \ {One(s)})[s \ {One(s)}]]
  <2>1. ASSUME NEW s \in SUBSET T, s # {} PROVE One(s) \in s
    BY <2>1, OneIn
  <2>2. ASSUME NEW s \in SUBSET T, s # T PROVE IsSum(f, s, Part(s))
    BY <1>1, <2>2
  <2>3. ASSUME NEW s \in SUBSET T, s # T PROVE G[s] = Part(s)[s]
    <3>1. Part(s)[s] = IF s = {} THEN 0 ELSE f[One(s)] + Part(s)[s \ {One(s)}]
      BY <2>2, <2>3, IsSumAt
    <3>2. CASE s = {}
      BY <3>1, <3>2, <2>3
    <3>3. CASE s # {}
      <4>1. s \ {One(s)} \in SUBSET T /\ s \ {One(s)} # T /\ s \ {One(s)} \in SUBSET s
        BY <2>3
      <4>2. IsSum(f, s \ {One(s)}, Part(s \ {One(s)})) /\ IsSum(f, s, Part(s))
        BY <2>2, <2>3, <4>1, Zenon
      <4> HIDE DEF Part
      <4>3. Part(s)[s \ {One(s)}] = Part(s \ {One(s)})[s \ {One(s)}]
        BY <4>1, <4>2, SumUnique
      <4> QED
        BY <2>3, <3>1, <3>3, <4>3
    <3> QED
      BY <3>2, <3>3
  <2>4. IsSum(f, T, G)
    <3>1. DOMAIN G = SUBSET T /\ G = [s \in DOMAIN G |-> G[s]]
      OBVIOUS
    <3>2. ASSUME NEW s \in SUBSET T
          PROVE  G[s] = IF s = {} THEN 0 ELSE f[One(s)] + G[s \ {One(s)}]
      <4>1. G[s] = IF s = {} THEN 0 ELSE f[One(s)] + Part(s \ {One(s)})[s \ {One(s)}]
        OBVIOUS
      <4>2. s # {} => s \ {One(s)} \in SUBSET T /\ s \ {One(s)} # T
        BY <2>1
      <4> HIDE DEF G, Part
      <4> QED
        BY <2>3, <4>1, <4>2
    <3> HIDE DEF G
    <3> QED
      BY <3>1, <3>2, IsSumIf, Zenon
  <2> QED
    BY <2>4
<1>2. \A T \in SUBSET S : (\A U \in SUBSET T : U # T => U \in Good) => T \in Good
  BY <1>1
<1>3. S \in Good
  <2> HIDE DEF Good
  <2> QED
    BY <1>2, SubsetInduction
<1> QED
  BY <1>3

(* SumFunctionOnSet is that recursion. *)
LEMMA SumFold ==
    ASSUME NEW S, IsFiniteSet(S), NEW f
    PROVE  \E g : IsSum(f, S, g) /\ SumFunctionOnSet(f, S) = g[S]
<1> DEFINE g == CHOOSE it : IsSum(f, S, it)
<1>1. IsSum(f, S, g)
  BY SumExists, Zenon
<1>2. SumFunctionOnSet(f, S) = g[S]
  BY DEF SumFunctionOnSet, FoldFunctionOnSet, MapThenFoldSet, IsSum, One
<1> QED
  BY <1>1, <1>2, Zenon

LEMMA SumOfSubset ==
    ASSUME NEW S, IsFiniteSet(S), NEW f, NEW g, IsSum(f, S, g), NEW T \in SUBSET S
    PROVE  SumFunctionOnSet(f, T) = g[T]
<1>1. IsFiniteSet(T)
  BY FS_Subset
<1>2. PICK h : IsSum(f, T, h) /\ SumFunctionOnSet(f, T) = h[T]
  BY <1>1, SumFold
<1> QED
  BY <1>2, SumUnique

LEMMA SumEmpty == \A f : SumFunctionOnSet(f, {}) = 0
<1> TAKE f
<1>1. PICK g : IsSum(f, {}, g) /\ SumFunctionOnSet(f, {}) = g[{}]
  BY SumFold, FS_EmptySet
<1> QED
  BY <1>1, IsSumAt

LEMMA SumOne ==
    ASSUME NEW S, IsFiniteSet(S), S # {}, NEW f
    PROVE  /\ One(S) \in S
           /\ SumFunctionOnSet(f, S) = f[One(S)] + SumFunctionOnSet(f, S \ {One(S)})
<1>1. PICK g : IsSum(f, S, g) /\ SumFunctionOnSet(f, S) = g[S]
  BY SumFold
<1>2. SumFunctionOnSet(f, S \ {One(S)}) = g[S \ {One(S)}]
  BY <1>1, SumOfSubset
<1> QED
  BY <1>1, <1>2, IsSumAt, OneIn

(* A sum of naturals is a natural. *)
LEMMA SumNat ==
    ASSUME NEW S, IsFiniteSet(S), NEW f, \A x \in S : f[x] \in Nat
    PROVE  SumFunctionOnSet(f, S) \in Nat
<1> DEFINE Good == {T \in SUBSET S : SumFunctionOnSet(f, T) \in Nat}
<1>1. ASSUME NEW T \in SUBSET S, \A U \in SUBSET T : U # T => U \in Good
      PROVE  T \in Good
  <2>1. CASE T = {}
    BY <2>1, SumEmpty
  <2>2. CASE T # {}
    <3>1. One(T) \in T /\ SumFunctionOnSet(f, T) = f[One(T)] + SumFunctionOnSet(f, T \ {One(T)})
      BY <2>2, SumOne, FS_Subset, Zenon
    <3>2. T \ {One(T)} \in Good
      BY <1>1, <3>1
    <3> QED
      BY <3>1, <3>2
  <2> QED
    BY <2>1, <2>2
<1>2. S \in Good
  <2> HIDE DEF Good
  <2> QED
    BY <1>1, SubsetInduction
<1> QED
  BY <1>2

(* Functions that agree on a set have the same sum over it. *)
LEMMA SumSame ==
    ASSUME NEW S, IsFiniteSet(S), NEW f, NEW g, \A x \in S : f[x] = g[x]
    PROVE  SumFunctionOnSet(f, S) = SumFunctionOnSet(g, S)
<1> DEFINE Good == {T \in SUBSET S : SumFunctionOnSet(f, T) = SumFunctionOnSet(g, T)}
<1>1. ASSUME NEW T \in SUBSET S, \A U \in SUBSET T : U # T => U \in Good
      PROVE  T \in Good
  <2>1. CASE T = {}
    BY <2>1, SumEmpty
  <2>2. CASE T # {}
    <3>1. /\ One(T) \in T
          /\ SumFunctionOnSet(f, T) = f[One(T)] + SumFunctionOnSet(f, T \ {One(T)})
          /\ SumFunctionOnSet(g, T) = g[One(T)] + SumFunctionOnSet(g, T \ {One(T)})
      BY <2>2, SumOne, FS_Subset, Zenon
    <3>2. T \ {One(T)} \in Good
      BY <1>1, <3>1
    <3> QED
      BY <3>1, <3>2
  <2> QED
    BY <2>1, <2>2
<1>2. S \in Good
  <2> HIDE DEF Good
  <2> QED
    BY <1>1, SubsetInduction, Zenon
<1> QED
  BY <1>2

(* Any element may be taken first. *)
LEMMA SumRemove ==
    ASSUME NEW S, IsFiniteSet(S), NEW f, \A x \in S : f[x] \in Nat, NEW x0 \in S
    PROVE  /\ SumFunctionOnSet(f, S) \in Nat /\ SumFunctionOnSet(f, S \ {x0}) \in Nat
           /\ SumFunctionOnSet(f, S) = f[x0] + SumFunctionOnSet(f, S \ {x0})
<1> DEFINE Good == {T \in SUBSET S : \A x \in T :
                        SumFunctionOnSet(f, T) = f[x] + SumFunctionOnSet(f, T \ {x})}
<1>0. \A T \in SUBSET S : IsFiniteSet(T) /\ SumFunctionOnSet(f, T) \in Nat
  BY FS_Subset, SumNat
<1>1. ASSUME NEW T \in SUBSET S, \A U \in SUBSET T : U # T => U \in Good,
             NEW x \in T
      PROVE  SumFunctionOnSet(f, T) = f[x] + SumFunctionOnSet(f, T \ {x})
  <2> DEFINE y == One(T)
  <2>1. y \in T /\ SumFunctionOnSet(f, T) = f[y] + SumFunctionOnSet(f, T \ {y})
    BY <1>0, SumOne, Zenon
  <2> HIDE DEF y
  <2>2. CASE x = y
    BY <2>1, <2>2
  <2>3. CASE x # y
    <3>1. /\ T \ {y} \in Good /\ x \in T \ {y}
          /\ T \ {x} \in Good /\ y \in T \ {x}
      BY <1>1, <2>1, <2>3
    <3>2. /\ SumFunctionOnSet(f, T \ {y}) = f[x] + SumFunctionOnSet(f, (T \ {y}) \ {x})
          /\ SumFunctionOnSet(f, T \ {x}) = f[y] + SumFunctionOnSet(f, (T \ {x}) \ {y})
      BY <3>1
    <3>3. (T \ {y}) \ {x} = (T \ {x}) \ {y}
      OBVIOUS
    <3>4. SumFunctionOnSet(f, (T \ {x}) \ {y}) \in Nat /\ f[x] \in Nat /\ f[y] \in Nat
      BY <1>0, <2>1
    <3> QED
      BY <2>1, <3>2, <3>3, <3>4
  <2> QED
    BY <2>2, <2>3
<1>2. S \in Good
  <2>1. \A T \in SUBSET S : (\A U \in SUBSET T : U # T => U \in Good) => T \in Good
    BY <1>1, Zenon
  <2> HIDE DEF Good
  <2> QED
    BY <2>1, SubsetInduction
<1> QED
  BY <1>0, <1>2

(* The sum grows by what an element adds, and no element exceeds it. *)
LEMMA SumAdd ==
    ASSUME NEW S, IsFiniteSet(S), NEW x0, x0 \notin S,
           NEW f, \A x \in S : f[x] \in Nat, f[x0] \in Nat
    PROVE  SumFunctionOnSet(f, S \cup {x0}) = SumFunctionOnSet(f, S) + f[x0]
<1> DEFINE T == S \cup {x0}
<1>1. IsFiniteSet(T)
  BY FS_AddElement
<1>2. T \ {x0} = S /\ x0 \in T /\ \A x \in T : f[x] \in Nat
  OBVIOUS
<1> HIDE DEF T
<1>3. /\ SumFunctionOnSet(f, T) = f[x0] + SumFunctionOnSet(f, T \ {x0})
      /\ SumFunctionOnSet(f, T \ {x0}) \in Nat
  BY <1>1, <1>2, SumRemove
<1> QED
  BY <1>2, <1>3 DEF T

LEMMA SumMember ==
    ASSUME NEW S, IsFiniteSet(S), NEW f, \A x \in S : f[x] \in Nat, NEW x0 \in S
    PROVE  f[x0] <= SumFunctionOnSet(f, S)
<1>1. /\ SumFunctionOnSet(f, S \ {x0}) \in Nat /\ f[x0] \in Nat
      /\ SumFunctionOnSet(f, S) = f[x0] + SumFunctionOnSet(f, S \ {x0})
  BY SumRemove
<1> QED
  BY <1>1

(* Induction by adding one element at a time. *)
LEMMA AddInduction ==
    ASSUME NEW S, IsFiniteSet(S), NEW Good, {} \in Good,
           \A T \in SUBSET S : \A x \in S \ T : T \in Good => T \cup {x} \in Good,
           NEW T0 \in SUBSET S
    PROVE  T0 \in Good
<1>1. ASSUME NEW T \in SUBSET S, \A U \in SUBSET T : U # T => U \in Good
      PROVE  T \in Good
  <2>1. CASE T = {}
    BY <2>1
  <2>2. CASE T # {}
    <3>1. PICK x \in T : TRUE
      BY <2>2
    <3>2. /\ T \ {x} \in SUBSET T /\ T \ {x} # T /\ T \ {x} \in SUBSET S
          /\ x \in S \ (T \ {x}) /\ (T \ {x}) \cup {x} = T
      BY <3>1
    <3>3. T \ {x} \in Good
      BY <1>1, <3>2, Zenon
    <3>4. (T \ {x}) \cup {x} \in Good
      BY <3>2, <3>3, Zenon
    <3> QED
      BY <3>2, <3>4, Zenon
  <2> QED
    BY <2>1, <2>2
<1>2. \A T \in SUBSET S : (\A U \in SUBSET T : U # T => U \in Good) => T \in Good
  BY <1>1, Zenon
<1> QED
  BY <1>2, SubsetInduction

(* The sum of a function given on the set itself. *)
LEMMA SumFunctionIs ==
    ASSUME NEW S, IsFiniteSet(S), NEW f, NEW g, DOMAIN g = S, \A x \in S : g[x] = f[x]
    PROVE  SumFunction(g) = SumFunctionOnSet(f, S)
<1>1. SumFunctionOnSet(g, S) = SumFunctionOnSet(f, S)
  BY SumSame
<1>2. SumFunction(g) = SumFunctionOnSet(g, S)
  BY Zenon DEF SumFunction
<1> QED
  BY <1>1, <1>2

LEMMA SumFunctionNat ==
    ASSUME NEW S, IsFiniteSet(S), NEW f, DOMAIN f = S, \A x \in S : f[x] \in Nat
    PROVE  SumFunction(f) \in Nat
<1>1. SumFunctionOnSet(f, S) \in Nat
  BY SumNat
<1> QED
  BY <1>1, SumFunctionIs, Zenon

(* Sums over sets that have no element in common. *)
LEMMA SumUnion ==
    ASSUME NEW S, IsFiniteSet(S), NEW T, IsFiniteSet(T), S \cap T = {},
           NEW f, \A x \in S \cup T : f[x] \in Nat
    PROVE  SumFunctionOnSet(f, S \cup T) = SumFunctionOnSet(f, S) + SumFunctionOnSet(f, T)
<1> DEFINE Good == {U \in SUBSET T : SumFunctionOnSet(f, S \cup U)
                                        = SumFunctionOnSet(f, S) + SumFunctionOnSet(f, U)}
<1>0. SumFunctionOnSet(f, S) \in Nat
  BY SumNat
<1>1. {} \in Good
  <2>1. S \cup {} = S
    OBVIOUS
  <2> QED
    BY <1>0, <2>1, SumEmpty
<1>2. ASSUME NEW U \in SUBSET T, NEW x \in T \ U, U \in Good PROVE U \cup {x} \in Good
  <2>1. /\ IsFiniteSet(U) /\ IsFiniteSet(S \cup U) /\ x \notin S \cup U
        /\ \A y \in S \cup U : f[y] \in Nat /\ f[x] \in Nat
    BY FS_Subset, FS_Union, Zenon
  <2>2. f[x] \in Nat
    OBVIOUS
  <2>3. SumFunctionOnSet(f, (S \cup U) \cup {x}) = SumFunctionOnSet(f, S \cup U) + f[x]
    BY <2>1, <2>2, SumAdd
  <2>4. SumFunctionOnSet(f, U \cup {x}) = SumFunctionOnSet(f, U) + f[x]
    BY <2>1, <2>2, SumAdd
  <2>5. SumFunctionOnSet(f, U) \in Nat
    BY <2>1, SumNat
  <2>6. (S \cup U) \cup {x} = S \cup (U \cup {x}) /\ U \cup {x} \in SUBSET T
    OBVIOUS
  <2>7. SumFunctionOnSet(f, S \cup U) = SumFunctionOnSet(f, S) + SumFunctionOnSet(f, U)
    BY <1>2, Zenon
  <2>8. SumFunctionOnSet(f, S \cup (U \cup {x}))
          = SumFunctionOnSet(f, S) + SumFunctionOnSet(f, U \cup {x})
    <3>1. SumFunctionOnSet(f, S \cup (U \cup {x})) = SumFunctionOnSet(f, S \cup U) + f[x]
      BY <2>3, <2>6
    <3> QED
      BY <1>0, <2>2, <2>4, <2>5, <2>7, <3>1
  <2> QED
    BY <2>6, <2>8
<1> HIDE DEF Good
<1>3. T \in Good
  BY <1>1, <1>2, AddInduction, Zenon
<1> QED
  BY <1>3 DEF Good

(* A sum of zeros. *)
LEMMA SumZero ==
    ASSUME NEW S, IsFiniteSet(S), NEW f, \A x \in S : f[x] = 0
    PROVE  SumFunctionOnSet(f, S) = 0
<1> DEFINE Good == {U \in SUBSET S : SumFunctionOnSet(f, U) = 0}
<1>1. {} \in Good
  BY SumEmpty
<1>2. ASSUME NEW U \in SUBSET S, NEW x \in S \ U, U \in Good PROVE U \cup {x} \in Good
  <2>1. IsFiniteSet(U)
    BY FS_Subset
  <2>2. f[x] = 0 /\ f[x] \in Nat /\ \A y \in U : f[y] \in Nat
    OBVIOUS
  <2>3. SumFunctionOnSet(f, U \cup {x}) = SumFunctionOnSet(f, U) + f[x]
    BY <2>1, <2>2, SumAdd
  <2> QED
    BY <1>2, <2>2, <2>3
<1> HIDE DEF Good
<1>3. S \in Good
  BY <1>1, <1>2, AddInduction, Zenon
<1> QED
  BY <1>3 DEF Good

(* Elements whose value is zero may be left out. *)
LEMMA SumNonZero ==
    ASSUME NEW S, IsFiniteSet(S), NEW T \in SUBSET S, NEW f, \A x \in S : f[x] \in Nat,
           \A x \in S \ T : f[x] = 0
    PROVE  SumFunctionOnSet(f, T) = SumFunctionOnSet(f, S)
<1>1. IsFiniteSet(T) /\ IsFiniteSet(S \ T)
  BY FS_Subset
<1>2. T \cup (S \ T) = S /\ T \cap (S \ T) = {}
  OBVIOUS
<1>3. SumFunctionOnSet(f, S) = SumFunctionOnSet(f, T) + SumFunctionOnSet(f, S \ T)
  <2>1. \A x \in T \cup (S \ T) : f[x] \in Nat
    OBVIOUS
  <2>2. SumFunctionOnSet(f, T \cup (S \ T)) = SumFunctionOnSet(f, T) + SumFunctionOnSet(f, S \ T)
    BY <1>1, <1>2, <2>1, SumUnion, Zenon
  <2> QED
    BY <1>2, <2>2, Zenon
<1>4. SumFunctionOnSet(f, S \ T) = 0
  BY <1>1, SumZero
<1>5. SumFunctionOnSet(f, T) \in Nat
  BY <1>1, SumNat
<1> QED
  BY <1>3, <1>4, <1>5

(* A sum does not depend on how its elements are numbered. *)
LEMMA SumRenumbered ==
    ASSUME NEW S, IsFiniteSet(S), NEW b, NEW f, NEW g,
           \A x \in S : f[b[x]] = g[x] /\ g[x] \in Nat,
           \A x, y \in S : b[x] = b[y] => x = y
    PROVE  SumFunctionOnSet(f, {b[x] : x \in S}) = SumFunctionOnSet(g, S)
<1> DEFINE Im(U) == {b[x] : x \in U}
           Good == {U \in SUBSET S : IsFiniteSet(Im(U)) /\
                        SumFunctionOnSet(f, Im(U)) = SumFunctionOnSet(g, U)}
<1>1. {} \in Good
  <2>1. Im({}) = {}
    OBVIOUS
  <2> HIDE DEF Im
  <2> QED
    BY <2>1, SumEmpty, FS_EmptySet
<1>2. ASSUME NEW U \in SUBSET S, NEW x \in S \ U, U \in Good PROVE U \cup {x} \in Good
  <2>1. IsFiniteSet(U)
    BY FS_Subset
  <2>2. /\ Im(U \cup {x}) = Im(U) \cup {b[x]} /\ b[x] \notin Im(U)
        /\ \A z \in Im(U) : f[z] \in Nat
    OBVIOUS
  <2>3. /\ x \notin U /\ g[x] \in Nat /\ f[b[x]] = g[x] /\ \A y \in U : g[y] \in Nat
    OBVIOUS
  <2>4. IsFiniteSet(Im(U)) /\ SumFunctionOnSet(f, Im(U)) = SumFunctionOnSet(g, U)
    BY <1>2, Zenon
  <2> HIDE DEF Im
  <2>5. SumFunctionOnSet(f, Im(U) \cup {b[x]}) = SumFunctionOnSet(f, Im(U)) + f[b[x]]
    BY <2>2, <2>3, <2>4, SumAdd
  <2>6. SumFunctionOnSet(g, U \cup {x}) = SumFunctionOnSet(g, U) + g[x]
    BY <2>1, <2>3, SumAdd, ZenonT(30)
  <2>7. IsFiniteSet(Im(U) \cup {b[x]})
    BY <2>4, FS_AddElement, Zenon
  <2>8. SumFunctionOnSet(f, Im(U \cup {x})) = SumFunctionOnSet(g, U \cup {x})
    BY <2>2, <2>3, <2>4, <2>5, <2>6, Zenon
  <2>9. IsFiniteSet(Im(U \cup {x})) /\ U \cup {x} \in SUBSET S
    BY <2>2, <2>7
  <2> QED
    BY <2>8, <2>9, Zenon
<1> HIDE DEF Good
<1>3. S \in Good
  BY <1>1, <1>2, AddInduction, Zenon
<1> QED
  BY <1>3 DEF Good
-----------------------------------------------------------------------------
(* The rank of an element of a finite set of numbers: each number up to    *)
(* the size of the set is the rank of exactly one element.                 *)
LEMMA Ranks ==
    ASSUME NEW S \in SUBSET Nat, IsFiniteSet(S)
    PROVE  /\ Cardinality(S) \in Nat
           /\ \E rank :
                 /\ \A x \in S : rank[x] = Cardinality({y \in S : y <= x})
                 /\ \A x \in S : rank[x] \in 1..Cardinality(S)
                 /\ \A x, z \in S : rank[x] = rank[z] => x = z
                 /\ \A n \in 1..Cardinality(S) : \E x \in S : rank[x] = n
<1> DEFINE Below(x) == {y \in S : y <= x}
           N == Cardinality(S)
           rank == [x \in S |-> Cardinality(Below(x))]
<1>0. N \in Nat
  BY FS_CardinalityType
<1>1. ASSUME NEW x \in S PROVE rank[x] = Cardinality(Below(x)) /\ rank[x] \in 1..N
  <2>1. rank[x] = Cardinality(Below(x)) /\ x \in Below(x) /\ Below(x) \in SUBSET S
    OBVIOUS
  <2> HIDE DEF Below
  <2>2. /\ IsFiniteSet(Below(x)) /\ Cardinality(Below(x)) <= N
    BY <2>1, FS_Subset
  <2>3. Cardinality(Below(x)) \in Nat /\ Cardinality(Below(x)) # 0
    BY <2>1, <2>2, FS_CardinalityType, FS_EmptySet
  <2> QED
    BY <1>0, <2>1, <2>2, <2>3
<1>2. ASSUME NEW x \in S, NEW z \in S, x < z PROVE rank[x] # rank[z]
  <2>1. Below(x) \in SUBSET Below(z) /\ Below(x) # Below(z) /\ Below(z) \in SUBSET S
    <3>1. \A y \in S : y <= x => y <= z
      BY <1>2
    <3>2. z \in Below(z) /\ z \notin Below(x)
      BY <1>2
    <3>3. Below(x) \in SUBSET Below(z)
      BY <3>1, Zenon
    <3> QED
      BY <3>2, <3>3
  <2> HIDE DEF Below
  <2>2. IsFiniteSet(Below(z))
    BY <2>1, FS_Subset
  <2>3. Cardinality(Below(z)) # Cardinality(Below(x))
    BY <2>1, <2>2, FS_Subset
  <2> QED
    BY <1>1, <2>3
<1>3. \A x, z \in S : rank[x] = rank[z] => x = z
  <2> SUFFICES ASSUME NEW x \in S, NEW z \in S, rank[x] = rank[z], x # z PROVE FALSE
    OBVIOUS
  <2>1. x < z \/ z < x
    OBVIOUS
  <2> QED
    BY <1>2, <2>1
<1>4. rank \in Injection(S, 1..N)
  <2>1. rank \in [S -> 1..N]
    BY <1>1
  <2>2. DOMAIN rank = S
    OBVIOUS
  <2> HIDE DEF N
  <2> QED
    BY <1>3, <2>1, <2>2, Zenon DEF Injection, IsInjective
<1>5. rank \in Surjection(S, 1..N)
  <2>1. IsFiniteSet(1..N) /\ Cardinality(1..N) = N
    BY <1>0, FS_Interval
  <2>2. Cardinality(S) = Cardinality(1..N)
    BY <2>1
  <2> HIDE DEF N
  <2> QED
    BY <1>4, <2>1, <2>2, FS_Injection
<1>6. \A n \in 1..N : \E x \in S : rank[x] = n
  BY <1>5, Zenon DEF Surjection
<1> HIDE DEF rank
<1> QED
  BY <1>0, <1>1, <1>3, <1>6, Zenon
-----------------------------------------------------------------------------
(* A part of a sum and the rest of it. *)
LEMMA SumSplit ==
    ASSUME NEW S, IsFiniteSet(S), NEW T \in SUBSET S, NEW f, \A x \in S : f[x] \in Nat
    PROVE  /\ SumFunctionOnSet(f, S) = SumFunctionOnSet(f, T) + SumFunctionOnSet(f, S \ T)
           /\ SumFunctionOnSet(f, T) \in Nat /\ SumFunctionOnSet(f, S \ T) \in Nat
           /\ SumFunctionOnSet(f, T) <= SumFunctionOnSet(f, S)
<1>1. IsFiniteSet(T) /\ IsFiniteSet(S \ T)
  BY FS_Subset
<1>2. T \cup (S \ T) = S /\ T \cap (S \ T) = {} /\ \A x \in T \cup (S \ T) : f[x] \in Nat
  OBVIOUS
<1>3. SumFunctionOnSet(f, T \cup (S \ T)) = SumFunctionOnSet(f, T) + SumFunctionOnSet(f, S \ T)
  BY <1>1, <1>2, SumUnion, Zenon
<1>4. SumFunctionOnSet(f, S) = SumFunctionOnSet(f, T) + SumFunctionOnSet(f, S \ T)
  BY <1>2, <1>3, Zenon
<1>5. SumFunctionOnSet(f, T) \in Nat /\ SumFunctionOnSet(f, S \ T) \in Nat
  BY <1>1, SumNat
<1> QED
  BY <1>4, <1>5

(* Sums are added term by term. *)
LEMMA SumPlus ==
    ASSUME NEW S, IsFiniteSet(S), NEW f, NEW g, NEW h,
           \A x \in S : f[x] \in Nat /\ g[x] \in Nat /\ h[x] = f[x] + g[x]
    PROVE  SumFunctionOnSet(h, S) = SumFunctionOnSet(f, S) + SumFunctionOnSet(g, S)
<1> DEFINE Good == {U \in SUBSET S : SumFunctionOnSet(h, U)
                                        = SumFunctionOnSet(f, U) + SumFunctionOnSet(g, U)}
<1>1. {} \in Good
  BY SumEmpty
<1>2. ASSUME NEW U \in SUBSET S, NEW x \in S \ U, U \in Good PROVE U \cup {x} \in Good
  <2>1. /\ IsFiniteSet(U) /\ \A y \in U : f[y] \in Nat /\ g[y] \in Nat /\ h[y] \in Nat
        /\ f[x] \in Nat /\ g[x] \in Nat /\ h[x] \in Nat /\ h[x] = f[x] + g[x]
    BY FS_Subset
  <2>2. SumFunctionOnSet(f, U) \in Nat /\ SumFunctionOnSet(g, U) \in Nat
    BY <2>1, SumNat
  <2>3. SumFunctionOnSet(f, U \cup {x}) = SumFunctionOnSet(f, U) + f[x]
    BY <2>1, SumAdd
  <2>4. SumFunctionOnSet(g, U \cup {x}) = SumFunctionOnSet(g, U) + g[x]
    BY <2>1, SumAdd
  <2>5. SumFunctionOnSet(h, U \cup {x}) = SumFunctionOnSet(h, U) + h[x]
    BY <2>1, SumAdd, Zenon
  <2>6. SumFunctionOnSet(h, U) = SumFunctionOnSet(f, U) + SumFunctionOnSet(g, U)
    BY <1>2, Zenon
  <2>7. SumFunctionOnSet(h, U \cup {x})
          = SumFunctionOnSet(f, U \cup {x}) + SumFunctionOnSet(g, U \cup {x})
    BY <2>1, <2>2, <2>3, <2>4, <2>5, <2>6
  <2> QED
    BY <2>7
<1> HIDE DEF Good
<1>3. S \in Good
  BY <1>1, <1>2, AddInduction, Zenon
<1> QED
  BY <1>3 DEF Good

(* A sum of larger terms is larger. *)
LEMMA SumMonotone ==
    ASSUME NEW S, IsFiniteSet(S), NEW f, NEW g,
           \A x \in S : f[x] \in Nat /\ g[x] \in Nat /\ f[x] <= g[x]
    PROVE  SumFunctionOnSet(f, S) <= SumFunctionOnSet(g, S)
<1> DEFINE d == [x \in S |-> g[x] - f[x]]
<1>1. \A x \in S : f[x] \in Nat /\ d[x] \in Nat /\ g[x] = f[x] + d[x]
  OBVIOUS
<1> HIDE DEF d
<1>2. SumFunctionOnSet(g, S) = SumFunctionOnSet(f, S) + SumFunctionOnSet(d, S)
  BY <1>1, SumPlus
<1>3. SumFunctionOnSet(f, S) \in Nat /\ SumFunctionOnSet(d, S) \in Nat
  BY <1>1, SumNat
<1> QED
  BY <1>2, <1>3

(* A factor common to all terms. *)
LEMMA SumScaled ==
    ASSUME NEW S, IsFiniteSet(S), NEW k \in Nat, NEW f, NEW g,
           \A x \in S : f[x] \in Nat /\ g[x] = k * f[x]
    PROVE  SumFunctionOnSet(g, S) = k * SumFunctionOnSet(f, S)
<1> DEFINE Good == {U \in SUBSET S : SumFunctionOnSet(g, U) = k * SumFunctionOnSet(f, U)}
<1>1. {} \in Good
  BY SumEmpty
<1>2. ASSUME NEW U \in SUBSET S, NEW x \in S \ U, U \in Good PROVE U \cup {x} \in Good
  <2>1. /\ IsFiniteSet(U) /\ \A y \in U : f[y] \in Nat /\ g[y] \in Nat
        /\ f[x] \in Nat /\ g[x] \in Nat /\ g[x] = k * f[x]
    BY FS_Subset
  <2>2. SumFunctionOnSet(f, U) \in Nat
    BY <2>1, SumNat
  <2>3. SumFunctionOnSet(f, U \cup {x}) = SumFunctionOnSet(f, U) + f[x]
    BY <2>1, SumAdd
  <2>4. SumFunctionOnSet(g, U \cup {x}) = SumFunctionOnSet(g, U) + g[x]
    BY <2>1, SumAdd, Zenon
  <2>5. SumFunctionOnSet(g, U) = k * SumFunctionOnSet(f, U)
    BY <1>2, Zenon
  <2>6. \A a, b \in Nat : k * (a + b) = k * a + k * b
    OBVIOUS
  <2>7. SumFunctionOnSet(g, U \cup {x}) = k * SumFunctionOnSet(f, U \cup {x})
    BY <2>1, <2>2, <2>3, <2>4, <2>5, <2>6, Zenon
  <2> QED
    BY <2>7
<1> HIDE DEF Good
<1>3. S \in Good
  BY <1>1, <1>2, AddInduction, Zenon
<1> QED
  BY <1>3 DEF Good

(* A sum of equal terms. *)
LEMMA SumConstant ==
    ASSUME NEW S, IsFiniteSet(S), NEW k \in Nat, NEW f, \A x \in S : f[x] = k
    PROVE  SumFunctionOnSet(f, S) = k * Cardinality(S)
<1> DEFINE Good == {U \in SUBSET S : SumFunctionOnSet(f, U) = k * Cardinality(U)}
<1>1. {} \in Good
  BY SumEmpty, FS_EmptySet
<1>2. ASSUME NEW U \in SUBSET S, NEW x \in S \ U, U \in Good PROVE U \cup {x} \in Good
  <2>1. IsFiniteSet(U) /\ x \notin U /\ f[x] \in Nat /\ f[x] = k /\ \A y \in U : f[y] \in Nat
    BY FS_Subset
  <2>2. Cardinality(U) \in Nat /\ Cardinality(U \cup {x}) = Cardinality(U) + 1
    BY <2>1, FS_CardinalityType, FS_AddElement
  <2>3. SumFunctionOnSet(f, U \cup {x}) = SumFunctionOnSet(f, U) + f[x]
    BY <2>1, SumAdd, Zenon
  <2>4. SumFunctionOnSet(f, U) = k * Cardinality(U)
    BY <1>2, Zenon
  <2>5. \A a \in Nat : k * (a + 1) = k * a + k
    OBVIOUS
  <2>6. SumFunctionOnSet(f, U \cup {x}) = k * Cardinality(U \cup {x})
    BY <2>1, <2>2, <2>3, <2>4, <2>5
  <2> QED
    BY <2>6
<1> HIDE DEF Good
<1>3. S \in Good
  BY <1>1, <1>2, AddInduction, Zenon
<1> QED
  BY <1>3 DEF Good

(* The order of summation is immaterial. *)
LEMMA SumSwap ==
    ASSUME NEW S, IsFiniteSet(S), NEW T, IsFiniteSet(T), NEW m, NEW w, Transposed(m, w, S, T),
           NEW rows, SumsOf(rows, m, S, T), NEW cols, SumsOf(cols, w, T, S)
    PROVE  SumFunctionOnSet(rows, S) = SumFunctionOnSet(cols, T)
<1> USE DEF Transposed, SumsOf
<1> DEFINE Rows(U) == [x \in S |-> SumFunctionOnSet(m[x], U)]
           Good == {U \in SUBSET T : SumFunctionOnSet(Rows(U), S) = SumFunctionOnSet(cols, U)}
<1>0. \A U : \A x \in S : Rows(U)[x] = SumFunctionOnSet(m[x], U)
  BY Zenon
<1> HIDE DEF Rows
<1>1. {} \in Good
  <2>1. \A x \in S : Rows({})[x] = 0
    BY <1>0, SumEmpty, ZenonT(30)
  <2>2. SumFunctionOnSet(Rows({}), S) = 0
    BY <2>1, SumZero, Zenon
  <2> QED
    BY <2>2, SumEmpty
<1>2. ASSUME NEW U \in SUBSET T, NEW y \in T \ U, U \in Good PROVE U \cup {y} \in Good
  <2>1. IsFiniteSet(U) /\ y \notin U /\ y \in T
    BY FS_Subset
  <2>2. ASSUME NEW x \in S
        PROVE  /\ Rows(U)[x] \in Nat /\ w[y][x] \in Nat
               /\ Rows(U \cup {y})[x] = Rows(U)[x] + w[y][x]
    <3>0. PICK row : row = m[x]
      OBVIOUS
    <3>1. (\A z \in U : row[z] \in Nat) /\ row[y] \in Nat /\ w[y][x] = row[y]
      BY <2>1, <3>0
    <3>2. SumFunctionOnSet(row, U \cup {y}) = SumFunctionOnSet(row, U) + row[y]
      BY <2>1, <3>1, SumAdd
    <3>3. SumFunctionOnSet(row, U) \in Nat
      BY <2>1, <3>1, SumNat
    <3> QED
      BY <1>0, <3>0, <3>1, <3>2, <3>3, Zenon
  <2>3. SumFunctionOnSet(Rows(U \cup {y}), S)
          = SumFunctionOnSet(Rows(U), S) + SumFunctionOnSet(w[y], S)
    <3>1. PICK old, new, col : old = Rows(U) /\ new = Rows(U \cup {y}) /\ col = w[y]
      BY Zenon
    <3>2. \A x \in S : old[x] \in Nat /\ col[x] \in Nat /\ new[x] = old[x] + col[x]
      BY <2>2, <3>1, Zenon
    <3>3. SumFunctionOnSet(new, S) = SumFunctionOnSet(old, S) + SumFunctionOnSet(col, S)
      BY <3>2, SumPlus
    <3> QED
      BY <3>1, <3>3, Zenon
  <2>4. \A z \in T : cols[z] = SumFunctionOnSet(w[z], S) /\ cols[z] \in Nat
    <3> TAKE z \in T
    <3>1. \A x \in S : w[z][x] \in Nat
      OBVIOUS
    <3>2. SumFunctionOnSet(w[z], S) \in Nat
      BY <3>1, SumNat
    <3> QED
      BY <3>2
  <2>5. SumFunctionOnSet(cols, U \cup {y}) = SumFunctionOnSet(cols, U) + cols[y]
    <3>1. (\A z \in U : cols[z] \in Nat) /\ cols[y] \in Nat
      BY <2>1, <2>4
    <3> QED
      BY <2>1, <3>1, SumAdd
  <2>6. SumFunctionOnSet(Rows(U), S) = SumFunctionOnSet(cols, U)
    BY <1>2, Zenon
  <2>7. SumFunctionOnSet(Rows(U \cup {y}), S) = SumFunctionOnSet(cols, U \cup {y})
    BY <2>1, <2>3, <2>4, <2>5, <2>6, Zenon
  <2> QED
    BY <2>7, Zenon
<1>3. T \in Good
  <2> HIDE DEF Good
  <2> QED
    BY <1>1, <1>2, AddInduction, Zenon
<1>4. SumFunctionOnSet(Rows(T), S) = SumFunctionOnSet(cols, T)
  BY <1>3, Zenon
<1>5. \A x \in S : rows[x] = Rows(T)[x]
  BY <1>0, Zenon
<1>6. SumFunctionOnSet(rows, S) = SumFunctionOnSet(Rows(T), S)
  BY <1>5, SumSame
<1> QED
  BY <1>4, <1>6, Zenon

(* The sums over disjoint parts of a set add up to no more than the sum    *)
(* over the set.                                                           *)
LEMMA SumParts ==
    ASSUME NEW S, IsFiniteSet(S), NEW f, \A x \in S : f[x] \in Nat,
           NEW C, IsFiniteSet(C), NEW part, \A c \in C : part[c] \in SUBSET S,
           \A c, d \in C : c # d => part[c] \cap part[d] = {},
           NEW sums, \A c \in C : sums[c] = SumFunctionOnSet(f, part[c])
    PROVE  SumFunctionOnSet(sums, C) <= SumFunctionOnSet(f, S)
<1> DEFINE All(U) == {x \in S : \E c \in U : x \in part[c]}
           Good == {U \in SUBSET C : SumFunctionOnSet(sums, U) = SumFunctionOnSet(f, All(U))}
<1>1. {} \in Good
  <2>1. All({}) = {}
    OBVIOUS
  <2> HIDE DEF All
  <2> QED
    BY <2>1, SumEmpty
<1>2. \A c \in C : sums[c] \in Nat
  <2> TAKE c \in C
  <2>1. SumFunctionOnSet(f, part[c]) \in Nat
    BY SumSplit, Zenon
  <2> QED
    BY <2>1
<1>3. ASSUME NEW U \in SUBSET C, NEW c \in C \ U, U \in Good PROVE U \cup {c} \in Good
  <2>1. IsFiniteSet(U) /\ c \notin U /\ \A d \in U : sums[d] \in Nat
    BY <1>2, FS_Subset
  <2>2. SumFunctionOnSet(sums, U \cup {c}) = SumFunctionOnSet(sums, U) + sums[c]
    BY <1>2, <2>1, SumAdd, Zenon
  <2>3. /\ All(U \cup {c}) = All(U) \cup part[c] /\ All(U) \cap part[c] = {}
        /\ All(U) \in SUBSET S /\ part[c] \in SUBSET S
    <3>1. \A x \in S : ~(x \in All(U) /\ x \in part[c])
      OBVIOUS
    <3>2. \A x \in S : x \in All(U \cup {c}) <=> x \in All(U) \/ x \in part[c]
      OBVIOUS
    <3>3. All(U) \in SUBSET S /\ part[c] \in SUBSET S /\ All(U \cup {c}) \in SUBSET S
      OBVIOUS
    <3> HIDE DEF All
    <3> QED
      BY <3>1, <3>2, <3>3, Zenon
  <2> HIDE DEF All
  <2>4. /\ IsFiniteSet(All(U)) /\ IsFiniteSet(part[c])
        /\ \A x \in All(U) \cup part[c] : f[x] \in Nat
    BY <2>3, FS_Subset
  <2>5. SumFunctionOnSet(f, All(U) \cup part[c])
          = SumFunctionOnSet(f, All(U)) + SumFunctionOnSet(f, part[c])
    BY <2>3, <2>4, SumUnion
  <2>6. SumFunctionOnSet(sums, U) = SumFunctionOnSet(f, All(U))
    BY <1>3, Zenon
  <2>7. SumFunctionOnSet(sums, U \cup {c}) = SumFunctionOnSet(f, All(U \cup {c}))
    BY <2>2, <2>3, <2>5, <2>6, Zenon
  <2> QED
    BY <2>7, Zenon
<1>4. C \in Good
  <2> HIDE DEF Good, All
  <2>1. \A U \in SUBSET C : \A c \in C \ U : U \in Good => U \cup {c} \in Good
    BY <1>3, Zenon
  <2> QED
    BY <1>1, <2>1, AddInduction
<1>5. All(C) \in SUBSET S
  BY Zenon
<1> HIDE DEF All
<1>6. SumFunctionOnSet(f, All(C)) <= SumFunctionOnSet(f, S)
  BY <1>5, SumSplit, Zenon
<1> QED
  BY <1>4, <1>6, Zenon
-----------------------------------------------------------------------------
(* Terms that are bounded up to two factors. *)
LEMMA ScaledWithin ==
    ASSUME NEW S, IsFiniteSet(S), NEW k \in Nat, NEW m \in Nat, NEW f, NEW g,
           \A x \in S : f[x] \in Nat /\ g[x] \in Nat /\ k * f[x] <= m * g[x]
    PROVE  k * SumFunctionOnSet(f, S) <= m * SumFunctionOnSet(g, S)
<1> DEFINE kf == [x \in S |-> k * f[x]]
           mg == [x \in S |-> m * g[x]]
<1>1. /\ \A x \in S : f[x] \in Nat /\ kf[x] = k * f[x]
      /\ \A x \in S : g[x] \in Nat /\ mg[x] = m * g[x]
  OBVIOUS
<1>2. \A x \in S : kf[x] \in Nat /\ mg[x] \in Nat /\ kf[x] <= mg[x]
  OBVIOUS
<1> HIDE DEF kf, mg
<1>3. SumFunctionOnSet(kf, S) = k * SumFunctionOnSet(f, S)
  BY <1>1, SumScaled
<1>4. SumFunctionOnSet(mg, S) = m * SumFunctionOnSet(g, S)
  BY <1>1, SumScaled
<1>5. SumFunctionOnSet(kf, S) <= SumFunctionOnSet(mg, S)
  BY <1>2, SumMonotone
<1> QED
  BY <1>3, <1>4, <1>5

(* Rows within a bound for each column, up to two factors. *)
LEMMA SumRowsWithin ==
    ASSUME NEW S, IsFiniteSet(S), NEW T, IsFiniteSet(T), NEW m, NEW w, Transposed(m, w, S, T),
           NEW rows, SumsOf(rows, m, S, T),
           NEW k \in Nat, NEW l \in Nat,
           NEW bound, \A y \in T : bound[y] \in Nat /\ k * SumFunctionOnSet(w[y], S) <= l * bound[y]
    PROVE  k * SumFunctionOnSet(rows, S) <= l * SumFunctionOnSet(bound, T)
<1> DEFINE cols == [y \in T |-> SumFunctionOnSet(w[y], S)]
<1>1. \A y \in T : cols[y] = SumFunctionOnSet(w[y], S)
  OBVIOUS
<1> HIDE DEF cols
<1>2. SumFunctionOnSet(rows, S) = SumFunctionOnSet(cols, T)
  <2>1. SumsOf(cols, w, T, S)
    BY <1>1 DEF SumsOf
  <2> QED
    BY <2>1, SumSwap
<1>3. ASSUME NEW y \in T PROVE cols[y] \in Nat
  <2>1. PICK v : v = w[y]
    OBVIOUS
  <2>2. \A x \in S : v[x] \in Nat
    BY <2>1 DEF Transposed
  <2>3. SumFunctionOnSet(v, S) \in Nat
    BY <2>2, SumNat
  <2> QED
    BY <1>1, <2>1, <2>3
<1>4. \A y \in T : cols[y] \in Nat /\ bound[y] \in Nat /\ k * cols[y] <= l * bound[y]
  BY <1>1, <1>3
<1>5. k * SumFunctionOnSet(cols, T) <= l * SumFunctionOnSet(bound, T)
  BY <1>4, ScaledWithin
<1> QED
  BY <1>2, <1>5

LEMMA TimesMonotone ==
    ASSUME NEW a \in Nat, NEW b \in Nat, NEW k \in Nat, a <= b
    PROVE  k * a <= k * b
OBVIOUS

LEMMA TimesCancel ==
    ASSUME NEW a \in Nat, NEW b \in Nat, NEW k \in Nat \ {0}, k * a <= k * b
    PROVE  a <= b
OBVIOUS

(* Quotients rounded to nearest exceed the whole by at most half a unit    *)
(* each.                                                                   *)
LEMMA SumRounded ==
    ASSUME NEW S, IsFiniteSet(S), NEW u, NEW q, NEW b \in Nat \ {0}, NEW P \in Nat \ {0},
           \A c \in S : u[c] \in Nat /\ q[c] \in Nat /\ 2 * (b * q[c]) <= 2 * (P * u[c]) + b,
           SumFunctionOnSet(u, S) <= b
    PROVE  2 * SumFunctionOnSet(q, S) <= 2 * P + Cardinality(S)
<1> DEFINE bq == [c \in S |-> (2 * b) * q[c]]
           pu == [c \in S |-> (2 * P) * u[c]]
           bs == [c \in S |-> b]
           ub == [c \in S |-> pu[c] + bs[c]]
<1>1. PICK n \in Nat : n = Cardinality(S)
  BY FS_CardinalityType
<1>2. PICK Q \in Nat : Q = SumFunctionOnSet(q, S)
  BY SumNat
<1>3. PICK U \in Nat : U = SumFunctionOnSet(u, S)
  BY SumNat
<1>4. \A c \in S : bq[c] \in Nat /\ ub[c] \in Nat /\ bq[c] <= ub[c]
  <2> TAKE c \in S
  <2>1. PICK k \in Nat : k = q[c]
    OBVIOUS
  <2>2. PICK v \in Nat : v = u[c]
    OBVIOUS
  <2>3. 2 * (b * k) <= 2 * (P * v) + b
    BY <2>1, <2>2
  <2>4. bq[c] = (2 * b) * k /\ ub[c] = (2 * P) * v + b
    BY <2>1, <2>2
  <2> QED
    BY <2>3, <2>4
<1>5. SumFunctionOnSet(bq, S) = (2 * b) * Q
  <2>1. PICK k \in Nat : k = 2 * b
    OBVIOUS
  <2>2. \A c \in S : q[c] \in Nat /\ bq[c] = k * q[c]
    BY <2>1
  <2> HIDE DEF bq
  <2>3. SumFunctionOnSet(bq, S) = k * SumFunctionOnSet(q, S)
    BY <2>2, SumScaled
  <2> QED
    BY <1>2, <2>1, <2>3
<1>6. SumFunctionOnSet(ub, S) = (2 * P) * U + b * n
  <2>1. 2 * P \in Nat /\ \A c \in S : u[c] \in Nat /\ pu[c] = (2 * P) * u[c]
    OBVIOUS
  <2>2. \A c \in S : bs[c] = b
    OBVIOUS
  <2>3. \A c \in S : pu[c] \in Nat /\ bs[c] \in Nat /\ ub[c] = pu[c] + bs[c]
    BY <2>1
  <2> HIDE DEF pu, bs, ub
  <2>4. SumFunctionOnSet(pu, S) = (2 * P) * U
    BY <1>3, <2>1, SumScaled
  <2>5. SumFunctionOnSet(bs, S) = b * n
    BY <1>1, <2>2, SumConstant
  <2>6. SumFunctionOnSet(ub, S) = SumFunctionOnSet(pu, S) + SumFunctionOnSet(bs, S)
    BY <2>3, SumPlus
  <2> QED
    BY <2>4, <2>5, <2>6
<1>7. (2 * b) * Q <= (2 * P) * U + b * n
  <2> HIDE DEF bq, ub
  <2>1. SumFunctionOnSet(bq, S) <= SumFunctionOnSet(ub, S)
    BY <1>4, SumMonotone
  <2> QED
    BY <1>5, <1>6, <2>1
<1> HIDE DEF bq, pu, bs, ub
<1>8. (2 * P) * U <= (2 * P) * b
  BY <1>3, TimesMonotone
<1>9. (2 * b) * Q = b * (2 * Q) /\ (2 * P) * b + b * n = b * (2 * P + n)
  OBVIOUS
<1>10. /\ b * (2 * Q) \in Nat /\ b * (2 * P + n) \in Nat /\ (2 * P) * U \in Nat
       /\ b * n \in Nat /\ (2 * P) * b \in Nat
  OBVIOUS
<1>11. b * (2 * Q) <= b * (2 * P + n)
  BY <1>7, <1>8, <1>9, <1>10
<1>12. 2 * Q <= 2 * P + n
  BY <1>11, TimesCancel
<1> QED
  BY <1>1, <1>2, <1>12

(* So n shares exceed the amount by at most its n / 2P-th part, and not    *)
(* at all if it is small.                                                  *)
LEMMA SumShares ==
    ASSUME NEW S, IsFiniteSet(S), NEW u, NEW q, NEW share,
           NEW b \in Nat \ {0}, NEW P \in Nat \ {0}, NEW amount \in Nat,
           RoundedShares(S, u, b, q, P, amount, share),
           SumFunctionOnSet(u, S) <= b
    PROVE  /\ (2 * P) * SumFunctionOnSet(share, S) <= (2 * P + Cardinality(S)) * amount
           /\ Cardinality(S) * amount < 2 * P => SumFunctionOnSet(share, S) <= amount
<1>0. /\ \A c \in S : u[c] \in Nat /\ q[c] \in Nat /\ 2 * (b * q[c]) <= 2 * (P * u[c]) + b
      /\ \A c \in S : share[c] \in Nat /\ P * share[c] <= amount * q[c]
  BY DEF RoundedShares
<1>1. PICK n \in Nat : n = Cardinality(S)
  BY FS_CardinalityType
<1>2. PICK Q \in Nat : Q = SumFunctionOnSet(q, S)
  BY <1>0, SumNat
<1>3. PICK A \in Nat : A = SumFunctionOnSet(share, S)
  BY <1>0, SumNat
<1>4. P * A <= amount * Q
  BY <1>0, <1>2, <1>3, ScaledWithin
<1>5. 2 * Q <= 2 * P + n
  BY <1>0, <1>1, <1>2, SumRounded
<1>6. amount * (2 * Q) <= amount * (2 * P + n)
  BY <1>5, TimesMonotone
<1>7. (2 * P) * A <= (2 * P + n) * amount
  <2>1. /\ amount * (2 * Q) = 2 * (amount * Q) /\ (2 * P) * A = 2 * (P * A)
        /\ amount * (2 * P + n) = (2 * P + n) * amount
    OBVIOUS
  <2>2. amount * Q \in Nat /\ P * A \in Nat /\ amount * (2 * P + n) \in Nat
    OBVIOUS
  <2> QED
    BY <1>4, <1>6, <2>1, <2>2
<1>8. ASSUME n * amount < 2 * P PROVE A <= amount
  <2>1. (2 * P + n) * amount = (2 * P) * amount + n * amount
    OBVIOUS
  <2>2. (2 * P) * (amount + 1) = (2 * P) * amount + 2 * P
    OBVIOUS
  <2>3. (2 * P) * A < (2 * P) * (amount + 1)
    <3>1. /\ (2 * P) * A \in Nat /\ (2 * P) * amount \in Nat /\ n * amount \in Nat
          /\ (2 * P) * (amount + 1) \in Nat
      OBVIOUS
    <3> QED
      BY <1>7, <1>8, <2>1, <2>2, <3>1
  <2>4. CASE amount + 1 <= A
    <3>1. (2 * P) * (amount + 1) <= (2 * P) * A
      BY <2>4, TimesMonotone
    <3> QED
      BY <2>3, <3>1
  <2> QED
    BY <2>4
<1> QED
  BY <1>1, <1>3, <1>7, <1>8
-----------------------------------------------------------------------------
(* The laws of finite sets and sums that the proofs about Rewards assume   *)
(* hold.                                                                   *)
THEOREM SumLawsHold == SumLaws
<1>1. SubsetLaw /\ IntervalLaw /\ SizeLaw
  <2>1. SubsetLaw
    BY FS_Subset DEF SubsetLaw
  <2>2. IntervalLaw
    BY FS_Interval DEF IntervalLaw
  <2>3. SizeLaw
    BY FS_CardinalityType DEF SizeLaw
  <2> QED
    BY <2>1, <2>2, <2>3
<1>2. RankLaw
  BY Ranks DEF RankLaw
<1>3. EmptyLaw /\ NatLaw
  BY SumEmpty, SumNat DEF EmptyLaw, NatLaw
<1>4. DomainLaw
  BY SumFunctionIs DEF DomainLaw
<1>5. DomainNatLaw
  BY SumFunctionNat DEF DomainNatLaw
<1>6. AddLaw
  BY SumAdd DEF AddLaw
<1>7. UnionLaw
  BY SumUnion DEF UnionLaw
<1>8. SplitLaw
  BY SumSplit DEF SplitLaw
<1>9. ZeroLaw
  BY SumZero DEF ZeroLaw
<1>10. NonZeroLaw
  BY SumNonZero DEF NonZeroLaw
<1>11. RenumberLaw
  BY SumRenumbered DEF RenumberLaw
<1>12. PlusLaw
  BY SumPlus DEF PlusLaw
<1>13. RowsLaw
  BY SumRowsWithin DEF RowsLaw
<1>14. PartsLaw
  BY SumParts DEF PartsLaw
<1>15. ShareLaw
  BY SumShares DEF ShareLaw
<1> QED
  BY <1>1, <1>2, <1>3, <1>4, <1>5, <1>6, <1>7, <1>8, <1>9, <1>10, <1>11, <1>12, <1>13, <1>14,
     <1>15 DEF SumLaws
=============================================================================
