------------------------------ MODULE SumLaws ------------------------------
(***************************************************************************)
(* The laws of finite sets and of sums over them that the proofs about     *)
(* x/rewards use, each under a name.  SumTheorems proves them; the proofs  *)
(* about Rewards take them as an assumption, SumLaws, and discharge it     *)
(* once, at the end.  The sum is SumFunctionOnSet of Functions.            *)
(***************************************************************************)
EXTENDS Integers, FiniteSets, Functions

(* Finite sets: subsets, intervals, and the size. *)
SubsetLaw == \A S : IsFiniteSet(S) => \A T \in SUBSET S : IsFiniteSet(T)
IntervalLaw ==
    \A a, b \in Int :
        IsFiniteSet(a..b) /\ Cardinality(a..b) = IF a > b THEN 0 ELSE b - a + 1
SizeLaw == \A S : IsFiniteSet(S) => Cardinality(S) \in Nat

(* Each number up to the size of a set of numbers is the rank of exactly   *)
(* one element.                                                            *)
RankLaw ==
    \A S \in SUBSET Nat : IsFiniteSet(S) =>
        /\ Cardinality(S) \in Nat
        /\ \E rank :
              /\ \A x \in S : rank[x] = Cardinality({y \in S : y <= x})
              /\ \A x \in S : rank[x] \in 1..Cardinality(S)
              /\ \A x, z \in S : rank[x] = rank[z] => x = z
              /\ \A n \in 1..Cardinality(S) : \E x \in S : rank[x] = n

(* A sum of naturals, of nothing, and of a function on its own domain. *)
EmptyLaw == \A f : SumFunctionOnSet(f, {}) = 0
NatLaw ==
    \A S, f : IsFiniteSet(S) /\ (\A x \in S : f[x] \in Nat) => SumFunctionOnSet(f, S) \in Nat
DomainLaw ==
    \A S, f, g : IsFiniteSet(S) /\ DOMAIN g = S /\ (\A x \in S : g[x] = f[x]) =>
        SumFunction(g) = SumFunctionOnSet(f, S)
DomainNatLaw ==
    \A S, f : IsFiniteSet(S) /\ DOMAIN f = S /\ (\A x \in S : f[x] \in Nat) =>
        SumFunction(f) \in Nat

(* One more element, two sets without common elements, a part and the      *)
(* rest, and elements that may be left out.                                *)
AddLaw ==
    \A S, x0, f :
        IsFiniteSet(S) /\ x0 \notin S /\ (\A x \in S : f[x] \in Nat) /\ f[x0] \in Nat =>
            SumFunctionOnSet(f, S \cup {x0}) = SumFunctionOnSet(f, S) + f[x0]
UnionLaw ==
    \A S, T, f :
        IsFiniteSet(S) /\ IsFiniteSet(T) /\ S \cap T = {} /\ (\A x \in S \cup T : f[x] \in Nat) =>
            SumFunctionOnSet(f, S \cup T) = SumFunctionOnSet(f, S) + SumFunctionOnSet(f, T)
SplitLaw ==
    \A S : \A T \in SUBSET S : \A f :
        IsFiniteSet(S) /\ (\A x \in S : f[x] \in Nat) =>
            /\ SumFunctionOnSet(f, S) = SumFunctionOnSet(f, T) + SumFunctionOnSet(f, S \ T)
            /\ SumFunctionOnSet(f, T) \in Nat /\ SumFunctionOnSet(f, S \ T) \in Nat
            /\ SumFunctionOnSet(f, T) <= SumFunctionOnSet(f, S)
ZeroLaw ==
    \A S, f : IsFiniteSet(S) /\ (\A x \in S : f[x] = 0) => SumFunctionOnSet(f, S) = 0
NonZeroLaw ==
    \A S : \A T \in SUBSET S : \A f :
        IsFiniteSet(S) /\ (\A x \in S : f[x] \in Nat) /\ (\A x \in S \ T : f[x] = 0) =>
            SumFunctionOnSet(f, T) = SumFunctionOnSet(f, S)

(* Sums of the same terms under other names, and of sums of terms. *)
RenumberLaw ==
    \A S, b, f, g :
        /\ IsFiniteSet(S)
        /\ \A x \in S : f[b[x]] = g[x] /\ g[x] \in Nat
        /\ \A x, y \in S : b[x] = b[y] => x = y
        => SumFunctionOnSet(f, {b[x] : x \in S}) = SumFunctionOnSet(g, S)
PlusLaw ==
    \A S, f, g, h :
        IsFiniteSet(S) /\ (\A x \in S : f[x] \in Nat /\ g[x] \in Nat /\ h[x] = f[x] + g[x]) =>
            SumFunctionOnSet(h, S) = SumFunctionOnSet(f, S) + SumFunctionOnSet(g, S)

(* Double sums: rows are bounded, up to two factors, when every column is, *)
(* and the sums over disjoint parts of a set add up to no more than the    *)
(* sum over the set.                                                       *)
Transposed(m, w, S, T) == \A x \in S : \A y \in T : m[x][y] \in Nat /\ w[y][x] = m[x][y]
SumsOf(rows, m, S, T) == \A x \in S : rows[x] = SumFunctionOnSet(m[x], T)

RowsLaw ==
    \A S, T, m, w, rows, bound : \A k, l \in Nat :
        /\ IsFiniteSet(S) /\ IsFiniteSet(T) /\ Transposed(m, w, S, T) /\ SumsOf(rows, m, S, T)
        /\ \A y \in T : bound[y] \in Nat /\ k * SumFunctionOnSet(w[y], S) <= l * bound[y]
        => k * SumFunctionOnSet(rows, S) <= l * SumFunctionOnSet(bound, T)
PartsLaw ==
    \A S, f, C, part, sums :
        /\ IsFiniteSet(S) /\ (\A x \in S : f[x] \in Nat) /\ IsFiniteSet(C)
        /\ \A c \in C : part[c] \in SUBSET S /\ sums[c] = SumFunctionOnSet(f, part[c])
        /\ \A c, d \in C : c # d => part[c] \cap part[d] = {}
        => SumFunctionOnSet(sums, C) <= SumFunctionOnSet(f, S)

(* Shares of an amount: share[c] is at most amount * q[c] / P, where q[c]  *)
(* is P * u[c] / b rounded to nearest.  When the u[c] add up to no more    *)
(* than b, n shares exceed the amount by at most its n / 2P-th part, so    *)
(* not at all when it is small against the precision P.                    *)
RoundedShares(S, u, b, q, P, amount, share) ==
    /\ \A c \in S : u[c] \in Nat /\ q[c] \in Nat /\ 2 * (b * q[c]) <= 2 * (P * u[c]) + b
    /\ \A c \in S : share[c] \in Nat /\ P * share[c] <= amount * q[c]
ShareLaw ==
    \A S, u, q, share : \A b, P \in Nat \ {0} : \A amount \in Nat :
        /\ IsFiniteSet(S) /\ RoundedShares(S, u, b, q, P, amount, share)
        /\ SumFunctionOnSet(u, S) <= b
        => /\ (2 * P) * SumFunctionOnSet(share, S) <= (2 * P + Cardinality(S)) * amount
           /\ Cardinality(S) * amount < 2 * P => SumFunctionOnSet(share, S) <= amount

SumLaws ==
    /\ SubsetLaw /\ IntervalLaw /\ SizeLaw /\ RankLaw
    /\ EmptyLaw /\ NatLaw /\ DomainLaw /\ DomainNatLaw
    /\ AddLaw /\ UnionLaw /\ SplitLaw /\ ZeroLaw /\ NonZeroLaw
    /\ RenumberLaw /\ PlusLaw /\ RowsLaw /\ PartsLaw /\ ShareLaw
=============================================================================
