--------------------------- MODULE JudgeCallsProofs ---------------------------
(***************************************************************************)
(* Proofs about JudgeCalls for any number of runs, sessions, tasks and     *)
(* questions, any budgets and any number of attempts.                      *)
(***************************************************************************)
EXTENDS JudgeCalls, Integers, FiniteSetTheorems, WellFoundedInduction, TLAPS

(***************************************************************************)
(* Sums over finite sets.  The library's fold is a recursive function that *)
(* takes the elements of a set in an order of its own; total is that        *)
(* function, for the terms f.                                              *)
(***************************************************************************)
First(s) == CHOOSE x \in s : TRUE

Sums(total, f, S) ==
  total = [s \in SUBSET S |-> IF s = {} THEN 0 ELSE f[First(s)] + total[s \ {First(s)}]]

(* Induction, for a set of numbers: the least number outside it is none. *)
LEMMA AllNumbers ==
  ASSUME NEW G, 0 \in G, \A n \in Nat : n \in G => n + 1 \in G
  PROVE  Nat \subseteq G
<1> DEFINE T == Nat \ G
<1> SUFFICES ASSUME T # {} PROVE FALSE
  OBVIOUS
<1>1. T \subseteq Nat
  OBVIOUS
<1> HIDE DEF T
<1>2. PICK m \in T : \A y \in T : ~(<<y, m>> \in OpToRel(<, Nat))
  BY <1>1, NatLessThanWellFounded, WFMin
<1>3. \A y \in T : ~(y < m)
  BY <1>1, <1>2 DEF OpToRel
<1>4. m \in Nat /\ m # 0 /\ m \notin G
  BY <1>2 DEF T
<1>5. m - 1 \in Nat /\ m - 1 < m /\ (m - 1) + 1 = m
  BY <1>4
<1>6. m - 1 \in G
  BY <1>3, <1>5 DEF T
<1> QED
  BY <1>4, <1>5, <1>6

(* A set without one of its elements is smaller. *)
LEMMA Smaller ==
  ASSUME NEW S, IsFiniteSet(S), NEW s \in SUBSET S, NEW x \in s
  PROVE  /\ s \ {x} \in SUBSET S
         /\ Cardinality(s) \in Nat /\ Cardinality(s) # 0
         /\ Cardinality(s \ {x}) = Cardinality(s) - 1
<1>1. IsFiniteSet(s)
  BY FS_Subset
<1> QED
  BY <1>1, FS_CardinalityType, FS_EmptySet, FS_RemoveElement

(* The recursive function exists: on sets of up to n elements, for all n.   *)
LEMMA SumsExist ==
  ASSUME NEW S, IsFiniteSet(S), NEW f
  PROVE  \E total : Sums(total, f, S)
<1> DEFINE Upto(n) == {s \in SUBSET S : Cardinality(s) <= n}
           Term(g, s) == IF s = {} THEN 0 ELSE f[First(s)] + g[s \ {First(s)}]
           G == {n \in Nat : \E g : g = [s \in Upto(n) |-> Term(g, s)]}
<1>0. \A s \in SUBSET S : Cardinality(s) \in Nat /\ (s # {} => First(s) \in s)
  BY FS_Subset, FS_CardinalityType DEF First
<1>1. 0 \in G
  <2> DEFINE g == [s \in Upto(0) |-> 0]
  <2>1. ASSUME NEW s \in Upto(0) PROVE s = {}
    <3>1. SUFFICES ASSUME NEW x \in s PROVE FALSE
      OBVIOUS
    <3>2. Cardinality(s) \in Nat /\ Cardinality(s) # 0 /\ Cardinality(s) <= 0
      BY Smaller
    <3> QED
      BY <3>2
  <2>2. g = [s \in Upto(0) |-> Term(g, s)]
    BY <2>1
  <2> HIDE DEF g, Term, Upto
  <2>3. \E e : e = [s \in Upto(0) |-> Term(e, s)]
    BY <2>2
  <2> QED
    BY <2>3
<1>2. ASSUME NEW n \in Nat, n \in G PROVE n + 1 \in G
  <2>1. PICK g : g = [s \in Upto(n) |-> Term(g, s)]
    BY <1>2
  <2> DEFINE h == [s \in Upto(n + 1) |-> IF Cardinality(s) <= n THEN g[s] ELSE Term(g, s)]
  <2>2. ASSUME NEW s \in Upto(n + 1) PROVE h[s] = Term(h, s)
    <3> DEFINE r == s \ {First(s)}
    <3>1. CASE s = {}
      <4>1. Cardinality(s) <= n
        BY <3>1, FS_EmptySet
      <4> QED
        BY <2>1, <3>1, <4>1
    <3>2. CASE s # {}
      <4>1. r \in SUBSET S /\ Cardinality(r) = Cardinality(s) - 1 /\ Cardinality(s) \in Nat
        BY <1>0, <3>2, Smaller
      <4>2. Cardinality(r) <= n /\ r \in Upto(n) /\ r \in Upto(n + 1)
        BY <4>1
      <4>3. h[r] = g[r]
        BY <4>2
      <4>4. h[s] = Term(g, s)
        BY <2>1
      <4> QED
        BY <3>2, <4>3, <4>4
    <3> QED
      BY <3>1, <3>2
  <2>3. h = [s \in Upto(n + 1) |-> Term(h, s)]
    BY <2>2
  <2> HIDE DEF h, Term, Upto
  <2>4. \E e : e = [s \in Upto(n + 1) |-> Term(e, s)]
    BY <2>3
  <2> QED
    BY <2>4
<1>3. Cardinality(S) \in G
  <2>1. Nat \subseteq G
    <3> HIDE DEF G
    <3> QED
      BY <1>1, <1>2, AllNumbers
  <2> QED
    BY <2>1, FS_CardinalityType
<1>4. Upto(Cardinality(S)) = SUBSET S
  BY FS_Subset
<1> QED
  BY <1>3, <1>4 DEF Sums

(* Induction on the subsets of a finite set. *)
LEMMA FiniteSubsets ==
  ASSUME NEW S, IsFiniteSet(S), NEW G,
         \A s \in SUBSET S : (\A x \in s : s \ {x} \in G) => s \in G
  PROVE  SUBSET S \subseteq G
<1> DEFINE H == {n \in Nat : \A s \in SUBSET S : Cardinality(s) <= n => s \in G}
<1>1. 0 \in H
  <2> SUFFICES ASSUME NEW s \in SUBSET S, Cardinality(s) <= 0 PROVE s \in G
    OBVIOUS
  <2>1. \A x \in s : FALSE
    <3> SUFFICES ASSUME NEW x \in s PROVE FALSE
      OBVIOUS
    <3>1. Cardinality(s) \in Nat /\ Cardinality(s) # 0
      BY Smaller
    <3> QED
      BY <3>1
  <2> QED
    BY <2>1
<1>2. ASSUME NEW n \in Nat, n \in H PROVE n + 1 \in H
  <2> SUFFICES ASSUME NEW s \in SUBSET S, Cardinality(s) <= n + 1 PROVE s \in G
    OBVIOUS
  <2>1. ASSUME NEW x \in s PROVE s \ {x} \in G
    <3>1. /\ s \ {x} \in SUBSET S /\ Cardinality(s) \in Nat
          /\ Cardinality(s \ {x}) = Cardinality(s) - 1
      BY Smaller
    <3>2. Cardinality(s \ {x}) <= n
      BY <3>1
    <3> QED
      BY <1>2, <3>1, <3>2
  <2> QED
    BY <2>1
<1>3. Nat \subseteq H
  <2> HIDE DEF H
  <2> QED
    BY <1>1, <1>2, AllNumbers
<1> SUFFICES ASSUME NEW s \in SUBSET S PROVE s \in G
  OBVIOUS
<1>4. Cardinality(s) \in Nat /\ Cardinality(s) <= Cardinality(s)
  BY FS_Subset, FS_CardinalityType
<1> QED
  BY <1>3, <1>4

(* What the library computes is the value of the recursive function. *)
LEMMA SumIs ==
  ASSUME NEW S, IsFiniteSet(S), NEW f
  PROVE  \E total : Sums(total, f, S) /\ SumFunctionOnSet(f, S) = total[S]
<1> DEFINE IsIter(total) ==
             total = [s \in SUBSET S |->
                        IF s = {} THEN 0
                        ELSE f[CHOOSE x \in s : TRUE] + total[s \ {CHOOSE x \in s : TRUE}]]
           iter == CHOOSE total : IsIter(total)
<1>1. Sums(iter, f, S)
  <2>1. \A total : IsIter(total) <=> Sums(total, f, S)
    BY DEF Sums, First
  <2>2. \E total : IsIter(total)
    <3>1. PICK total : Sums(total, f, S)
      BY SumsExist
    <3> HIDE DEF IsIter
    <3> QED
      BY <2>1, <3>1
  <2>3. IsIter(iter)
    <3> HIDE DEF IsIter
    <3> QED
      BY <2>2
  <2> QED
    BY <2>1, <2>3
<1>2. SumFunctionOnSet(f, S) = iter[S]
  BY DEF SumFunctionOnSet, FoldFunctionOnSet, MapThenFoldSet
<1> QED
  BY <1>1, <1>2

(* The recursive function of a subset is that of the set. *)
LEMMA SumsAgree ==
  ASSUME NEW S, IsFiniteSet(S), NEW R \in SUBSET S, NEW f, NEW t, NEW u,
         Sums(t, f, S), Sums(u, f, R)
  PROVE  t[R] = u[R]
<1> DEFINE G == {s \in SUBSET R : t[s] = u[s]}
<1>1. ASSUME NEW s \in SUBSET R, \A x \in s : s \ {x} \in G PROVE s \in G
  <2>1. CASE s = {}
    BY <2>1 DEF Sums
  <2>2. CASE s # {}
    <3>1. First(s) \in s
      BY <2>2 DEF First
    <3>2. t[s \ {First(s)}] = u[s \ {First(s)}]
      BY <1>1, <3>1
    <3>3. /\ t[s] = f[First(s)] + t[s \ {First(s)}]
          /\ u[s] = f[First(s)] + u[s \ {First(s)}]
      BY <2>2 DEF Sums
    <3> QED
      BY <3>2, <3>3
  <2> QED
    BY <2>1, <2>2
<1>2. IsFiniteSet(R)
  BY FS_Subset
<1> HIDE DEF G
<1>3. R \in G
  BY <1>1, <1>2, FiniteSubsets
<1> QED
  BY <1>3 DEF G

(* A sum, by the element that is taken first. *)
LEMMA SumFirst ==
  ASSUME NEW S, IsFiniteSet(S), NEW f
  PROVE  /\ SumFunctionOnSet(f, {}) = 0
         /\ S # {} => /\ First(S) \in S
                      /\ SumFunctionOnSet(f, S) = f[First(S)] + SumFunctionOnSet(f, S \ {First(S)})
<1>1. SumFunctionOnSet(f, {}) = 0
  <2>1. PICK t : Sums(t, f, {}) /\ SumFunctionOnSet(f, {}) = t[{}]
    BY FS_EmptySet, SumIs
  <2> QED
    BY <2>1 DEF Sums
<1>2. ASSUME S # {} PROVE First(S) \in S
  BY <1>2 DEF First
<1>3. ASSUME S # {}
      PROVE  SumFunctionOnSet(f, S) = f[First(S)] + SumFunctionOnSet(f, S \ {First(S)})
  <2> DEFINE R == S \ {First(S)}
  <2>1. IsFiniteSet(R) /\ R \in SUBSET S
    BY FS_Subset
  <2>2. PICK t : Sums(t, f, S) /\ SumFunctionOnSet(f, S) = t[S]
    BY SumIs
  <2> HIDE DEF R
  <2>3. PICK u : Sums(u, f, R) /\ SumFunctionOnSet(f, R) = u[R]
    BY <2>1, SumIs
  <2>4. t[R] = u[R]
    BY <2>1, <2>2, <2>3, SumsAgree
  <2>5. t[S] = f[First(S)] + t[R]
    BY <1>3, <2>2 DEF Sums, R
  <2> QED
    BY <2>2, <2>3, <2>4, <2>5 DEF R
<1> QED
  BY <1>1, <1>2, <1>3

(* A sum of integers is one, and of natural numbers is one. *)
LEMMA SumTyped ==
  ASSUME NEW S, IsFiniteSet(S), NEW f, \A x \in S : f[x] \in Int
  PROVE  \A s \in SUBSET S :
           /\ SumFunctionOnSet(f, s) \in Int
           /\ (\A x \in s : f[x] \in Nat) => SumFunctionOnSet(f, s) \in Nat
<1> DEFINE On(s) == SumFunctionOnSet(f, s)
           G == {s \in SUBSET S : On(s) \in Int /\ ((\A x \in s : f[x] \in Nat) => On(s) \in Nat)}
<1>1. ASSUME NEW s \in SUBSET S, \A x \in s : s \ {x} \in G PROVE s \in G
  <2>0. IsFiniteSet(s)
    BY FS_Subset
  <2>1. CASE s = {}
    <3>1. On(s) = 0
      BY <2>0, <2>1, SumFirst
    <3> HIDE DEF On
    <3> QED
      BY <3>1
  <2>2. CASE s # {}
    <3> DEFINE y == First(s)
    <3>1. y \in s /\ On(s) = f[y] + On(s \ {y})
      BY <2>0, <2>2, SumFirst
    <3> HIDE DEF y, On
    <3>2. /\ On(s \ {y}) \in Int
          /\ (\A x \in s : f[x] \in Nat) => On(s \ {y}) \in Nat
      BY <1>1, <3>1
    <3>3. f[y] \in Int
      BY <3>1
    <3> QED
      BY <3>1, <3>2, <3>3
  <2> QED
    BY <2>1, <2>2
<1> HIDE DEF G
<1>2. SUBSET S \subseteq G
  BY <1>1, FiniteSubsets
<1> QED
  BY <1>2 DEF G

(* A sum, by any of its elements: the order does not matter. *)
LEMMA SumAny ==
  ASSUME NEW S, IsFiniteSet(S), NEW f, \A x \in S : f[x] \in Int
  PROVE  \A s \in SUBSET S : \A x \in s :
           SumFunctionOnSet(f, s) = f[x] + SumFunctionOnSet(f, s \ {x})
<1> DEFINE On(s) == SumFunctionOnSet(f, s)
           G == {s \in SUBSET S : \A x \in s : On(s) = f[x] + On(s \ {x})}
<1>0. \A s \in SUBSET S : On(s) \in Int
  BY SumTyped
<1>1. ASSUME NEW s \in SUBSET S, \A x \in s : s \ {x} \in G PROVE s \in G
  <2> SUFFICES ASSUME NEW x \in s PROVE On(s) = f[x] + On(s \ {x})
    OBVIOUS
  <2> DEFINE y == First(s)
  <2>1. y \in s /\ On(s) = f[y] + On(s \ {y})
    <3>1. IsFiniteSet(s) /\ s # {}
      BY FS_Subset
    <3> QED
      BY <3>1, SumFirst
  <2> HIDE DEF y, On
  <2>2. CASE x = y
    BY <2>1, <2>2
  <2>3. CASE x # y
    <3> DEFINE r == (s \ {x}) \ {y}
    <3>1. x \in s \ {y} /\ y \in s \ {x} /\ r = (s \ {y}) \ {x} /\ r \in SUBSET S
      BY <2>1, <2>3
    <3>2. On(s \ {y}) = f[x] + On(r)
      BY <1>1, <2>1, <3>1
    <3>3. On(s \ {x}) = f[y] + On(r)
      BY <1>1, <3>1
    <3>4. f[x] \in Int /\ f[y] \in Int /\ On(r) \in Int
      BY <1>0, <2>1, <3>1
    <3> HIDE DEF r
    <3> QED
      BY <2>1, <3>2, <3>3, <3>4
  <2> QED
    BY <2>2, <2>3
<1> HIDE DEF G
<1>2. SUBSET S \subseteq G
  BY <1>1, FiniteSubsets
<1> QED
  BY <1>2 DEF G

(* Sums of terms that are not larger are not larger. *)
LEMMA SumGrows ==
  ASSUME NEW S, IsFiniteSet(S), NEW f, NEW g,
         \A x \in S : f[x] \in Int /\ g[x] \in Int /\ f[x] <= g[x]
  PROVE  \A s \in SUBSET S : SumFunctionOnSet(f, s) <= SumFunctionOnSet(g, s)
<1> DEFINE F(s) == SumFunctionOnSet(f, s)
           H(s) == SumFunctionOnSet(g, s)
           G == {s \in SUBSET S : F(s) <= H(s)}
<1>0. \A s \in SUBSET S : F(s) \in Int /\ H(s) \in Int
  BY SumTyped
<1>1. ASSUME NEW s \in SUBSET S, \A x \in s : s \ {x} \in G PROVE s \in G
  <2>1. CASE s = {}
    <3>1. F(s) = 0 /\ H(s) = 0
      BY <2>1, FS_EmptySet, SumFirst
    <3> QED
      BY <3>1
  <2>2. CASE s # {}
    <3>1. PICK x \in s : TRUE
      BY <2>2
    <3>2. F(s) = f[x] + F(s \ {x}) /\ H(s) = g[x] + H(s \ {x})
      BY <3>1, SumAny
    <3> HIDE DEF F, H
    <3>3. F(s \ {x}) <= H(s \ {x})
      BY <1>1, <3>1
    <3>4. F(s \ {x}) \in Int /\ H(s \ {x}) \in Int /\ f[x] \in Int /\ g[x] \in Int /\ f[x] <= g[x]
      BY <1>0, <3>1
    <3> QED
      BY <3>2, <3>3, <3>4
  <2> QED
    BY <2>1, <2>2
<1> HIDE DEF G
<1>2. SUBSET S \subseteq G
  BY <1>1, FiniteSubsets
<1> QED
  BY <1>2 DEF G

(* A sum is bounded by the bound of its terms. *)
LEMMA SumBounded ==
  ASSUME NEW S, IsFiniteSet(S), NEW f, NEW m \in Nat,
         \A x \in S : f[x] \in Int /\ f[x] <= m
  PROVE  \A s \in SUBSET S :
           Cardinality(s) \in Nat /\ SumFunctionOnSet(f, s) <= m * Cardinality(s)
<1> DEFINE On(s) == SumFunctionOnSet(f, s)
           G == {s \in SUBSET S : On(s) <= m * Cardinality(s)}
<1>0. \A s \in SUBSET S : On(s) \in Int /\ Cardinality(s) \in Nat
  BY SumTyped, FS_Subset, FS_CardinalityType
<1>1. ASSUME NEW s \in SUBSET S, \A x \in s : s \ {x} \in G PROVE s \in G
  <2>1. CASE s = {}
    <3>1. On(s) = 0 /\ Cardinality(s) = 0
      BY <2>1, FS_EmptySet, SumFirst
    <3>2. m * 0 = 0
      OBVIOUS
    <3> QED
      BY <3>1, <3>2
  <2>2. CASE s # {}
    <3>1. PICK x \in s : TRUE
      BY <2>2
    <3>2. On(s) = f[x] + On(s \ {x})
      BY <3>1, SumAny
    <3> DEFINE n == Cardinality(s \ {x})
    <3>3. Cardinality(s) = n + 1 /\ n \in Nat
      <4>1. Cardinality(s \ {x}) = Cardinality(s) - 1 /\ Cardinality(s) \in Nat
        BY <3>1, Smaller
      <4>2. Cardinality(s \ {x}) \in Nat
        BY <1>0, <3>1
      <4> QED
        BY <4>1, <4>2
    <3> HIDE DEF On, n
    <3>4. On(s \ {x}) <= m * n
      BY <1>1, <3>1 DEF n
    <3>5. m * (n + 1) = m * n + m /\ m * n \in Nat
      BY <3>3, Z3
    <3>6. On(s \ {x}) \in Int /\ f[x] \in Int /\ f[x] <= m
      BY <1>0, <3>1
    <3>7. On(s) <= m * (n + 1)
      BY <3>2, <3>4, <3>5, <3>6
    <3> QED
      BY <3>3, <3>7
  <2> QED
    BY <2>1, <2>2
<1> HIDE DEF G
<1>2. SUBSET S \subseteq G
  BY <1>1, FiniteSubsets
<1> QED
  BY <1>0, <1>2 DEF G

(* Only the term of x differs: so does the sum, by as much. *)
LEMMA SumStep ==
  ASSUME NEW D, IsFiniteSet(D), NEW f \in [D -> Int], NEW g \in [D -> Int], NEW x \in D,
         \A y \in D \ {x} : g[y] = f[y]
  PROVE  /\ SumFunction(f) \in Int /\ SumFunction(g) \in Int
         /\ SumFunction(g) = SumFunction(f) + (g[x] - f[x])
<1> DEFINE R == D \ {x}
           fR == SumFunctionOnSet(f, R)
           gR == SumFunctionOnSet(g, R)
<1>1. IsFiniteSet(R) /\ R \in SUBSET D /\ D \in SUBSET D /\ R \in SUBSET R
  BY FS_Subset
<1>2. fR \in Int /\ gR \in Int /\ SumFunctionOnSet(f, D) \in Int /\ SumFunctionOnSet(g, D) \in Int
  BY <1>1, SumTyped
<1>3. /\ SumFunctionOnSet(f, D) = f[x] + fR
      /\ SumFunctionOnSet(g, D) = g[x] + gR
  BY <1>1, SumAny
<1>4. \A y \in R : f[y] \in Int /\ g[y] \in Int /\ f[y] <= g[y] /\ g[y] <= f[y]
  OBVIOUS
<1>5. fR <= gR /\ gR <= fR
  <2> HIDE DEF R
  <2> QED
    BY <1>1, <1>4, SumGrows
<1>6. f[x] \in Int /\ g[x] \in Int
  OBVIOUS
<1>7. SumFunction(f) = SumFunctionOnSet(f, D) /\ SumFunction(g) = SumFunctionOnSet(g, D)
  BY DEF SumFunction
<1> HIDE DEF fR, gR
<1> QED
  BY <1>2, <1>3, <1>5, <1>6, <1>7

(* The term of x is left out. *)
LEMMA SumDrop ==
  ASSUME NEW D, IsFiniteSet(D), NEW f \in [D -> Int], NEW x \in D, NEW g \in [D \ {x} -> Int],
         \A y \in D \ {x} : g[y] = f[y]
  PROVE  /\ SumFunction(f) \in Int /\ SumFunction(g) \in Int
         /\ SumFunction(f) = f[x] + SumFunction(g)
<1> DEFINE R == D \ {x}
           fR == SumFunctionOnSet(f, R)
           gR == SumFunctionOnSet(g, R)
<1>1. IsFiniteSet(R) /\ R \in SUBSET D /\ D \in SUBSET D /\ R \in SUBSET R
  BY FS_Subset
<1>2. fR \in Int /\ SumFunctionOnSet(f, D) \in Int
  BY <1>1, SumTyped
<1>3. SumFunctionOnSet(f, D) = f[x] + fR
  BY <1>1, SumAny
<1>4. \A y \in R : f[y] \in Int /\ g[y] \in Int /\ f[y] <= g[y] /\ g[y] <= f[y]
  OBVIOUS
<1>5. fR <= gR /\ gR <= fR /\ gR \in Int
  <2> HIDE DEF R
  <2> QED
    BY <1>1, <1>4, SumGrows, SumTyped
<1>6. SumFunction(f) = SumFunctionOnSet(f, D) /\ SumFunction(g) = gR
  BY DEF SumFunction
<1> HIDE DEF fR, gR
<1> QED
  BY <1>2, <1>3, <1>5, <1>6

(* A sum of natural numbers is none of them smaller than any of its terms,  *)
(* and bounded by the bound of the terms.                                   *)
LEMMA SumOfNats ==
  ASSUME NEW D, IsFiniteSet(D), NEW f \in [D -> Nat]
  PROVE  /\ SumFunction(f) \in Nat
         /\ \A x \in D : f[x] <= SumFunction(f)
         /\ \A x \in D : \A m \in Nat :
              (\A y \in D : f[y] <= m) =>
                /\ Cardinality(D \ {x}) \in Nat
                /\ SumFunction(f) <= f[x] + m * Cardinality(D \ {x})
<1>1. \A x \in D : f[x] \in Int /\ f[x] \in Nat
  OBVIOUS
<1>2. SumFunction(f) = SumFunctionOnSet(f, D)
  BY DEF SumFunction
<1>3. SumFunction(f) \in Nat
  BY <1>1, <1>2, SumTyped
<1>4. ASSUME NEW x \in D
      PROVE  /\ SumFunction(f) = f[x] + SumFunctionOnSet(f, D \ {x})
             /\ SumFunctionOnSet(f, D \ {x}) \in Nat
  BY <1>1, <1>2, SumAny, SumTyped
<1>5. \A x \in D : f[x] <= SumFunction(f)
  <2> TAKE x \in D
  <2> DEFINE rest == SumFunctionOnSet(f, D \ {x})
  <2>1. SumFunction(f) = f[x] + rest /\ rest \in Nat /\ f[x] \in Nat
    BY <1>4
  <2> HIDE DEF rest
  <2> QED
    BY <2>1
<1>6. ASSUME NEW x \in D, NEW m \in Nat, \A y \in D : f[y] <= m
      PROVE  /\ Cardinality(D \ {x}) \in Nat
             /\ SumFunction(f) <= f[x] + m * Cardinality(D \ {x})
  <2> DEFINE rest == SumFunctionOnSet(f, D \ {x})
             bound == m * Cardinality(D \ {x})
  <2>1. Cardinality(D \ {x}) \in Nat /\ rest <= bound
    BY <1>1, <1>6, SumBounded
  <2>2. SumFunction(f) = f[x] + rest /\ rest \in Nat /\ f[x] \in Nat
    BY <1>4
  <2>3. bound \in Nat
    BY <2>1
  <2> HIDE DEF rest, bound
  <2>4. SumFunction(f) <= f[x] + bound
    BY <2>1, <2>2, <2>3
  <2> QED
    BY <2>1, <2>4 DEF bound
<1> QED
  BY <1>3, <1>5, <1>6

(* The sum of nothing but zeros. *)
LEMMA NoSum ==
  ASSUME NEW D, IsFiniteSet(D)
  PROVE  SumFunction([x \in D |-> 0]) = 0
<1> DEFINE f == [x \in D |-> 0]
<1>1. f \in [D -> Nat] /\ f \in [D -> Int]
  OBVIOUS
<1>2. SumFunction(f) \in Nat
  BY <1>1, SumOfNats
<1>3. SumFunction(f) <= 0
  <2>1. /\ DOMAIN f = D /\ \A x \in D : f[x] \in Int /\ f[x] <= 0
    OBVIOUS
  <2> HIDE DEF f
  <2>2. SumFunctionOnSet(f, D) <= 0 * Cardinality(D) /\ Cardinality(D) \in Nat
    BY <2>1, SumBounded
  <2>3. SumFunction(f) = SumFunctionOnSet(f, D)
    BY <2>1 DEF SumFunction
  <2> QED
    BY <2>2, <2>3
<1> QED
  BY <1>2, <1>3

-------------------------------------------------------------------------------
(***************************************************************************)
(* The calls of one run.                                                   *)
(***************************************************************************)
Calls == UNION {[I -> Call] : I \in SUBSET (1..MaxWanted)}

Pending(c) == {i \in DOMAIN c : c[i].pc # "done"}
Usage(c) == SumFunction([i \in Pending(c) |-> c[i].usage])

(* The state of one call: what it used is less than its attempts while the  *)
(* last of them is under way, and its status is the one its row will tell.  *)
CallOK(k) ==
  /\ k \in Call
  /\ k.pc = "queued" => k = Queued
  /\ k.pc = "asking" => k.usage < k.tries /\ ~k.verdict /\ k.status # "error"
  /\ k.pc = "recording" => (k.status = "ok" => k.verdict) /\ (k.status = "error" => ~k.verdict)

USE JudgeAssumption

LEMMA CallsTyped ==
  ASSUME NEW c \in Calls
  PROVE  /\ DOMAIN c \in SUBSET (1..MaxWanted)
         /\ c \in [DOMAIN c -> Call]
         /\ IsFiniteSet(DOMAIN c) /\ IsFiniteSet(Pending(c))
         /\ Cardinality(Pending(c)) \in 0..MaxWanted
         /\ [i \in Pending(c) |-> c[i].usage] \in [Pending(c) -> Nat]
         /\ Usage(c) \in Nat
<1>1. PICK I \in SUBSET (1..MaxWanted) : c \in [I -> Call]
  BY DEF Calls
<1>2. DOMAIN c = I
  BY <1>1
<1>3. IsFiniteSet(1..MaxWanted) /\ Cardinality(1..MaxWanted) = MaxWanted
  <2>1. MaxWanted \in Nat
    OBVIOUS
  <2> QED
    BY <2>1, FS_Interval
<1>4. Pending(c) \in SUBSET (1..MaxWanted) /\ Pending(c) \subseteq DOMAIN c
  BY <1>2 DEF Pending
<1>5. IsFiniteSet(I) /\ IsFiniteSet(Pending(c))
  BY <1>3, <1>4, FS_Subset
<1>6. Cardinality(Pending(c)) \in 0..MaxWanted
  <2>1. Cardinality(Pending(c)) <= MaxWanted
    BY <1>3, <1>4, FS_Subset
  <2>2. Cardinality(Pending(c)) \in Nat
    BY <1>5, FS_CardinalityType
  <2> QED
    BY <2>1, <2>2
<1>7. [i \in Pending(c) |-> c[i].usage] \in [Pending(c) -> Nat]
  BY <1>1, <1>2, <1>4 DEF Call
<1>8. Usage(c) \in Nat
  BY <1>5, <1>7, SumOfNats DEF Usage
<1> QED
  BY <1>1, <1>2, <1>5, <1>6, <1>7, <1>8

(* A call moves on: what is pending and what it used changes by its part.   *)
LEMMA CallMoves ==
  ASSUME NEW c \in Calls, NEW i \in Pending(c), NEW k \in Call
  PROVE  LET d == [c EXCEPT ![i] = k]
         IN  /\ d \in Calls /\ DOMAIN d = DOMAIN c
             /\ i \in DOMAIN c /\ d[i] = k /\ \A j \in DOMAIN c : j # i => d[j] = c[j]
             /\ k.pc # "done" => /\ Pending(d) = Pending(c)
                                /\ Usage(d) = Usage(c) + (k.usage - c[i].usage)
             /\ k.pc = "done" => /\ Cardinality(Pending(d)) = Cardinality(Pending(c)) - 1
                                /\ Usage(d) = Usage(c) - c[i].usage
<1> DEFINE d == [c EXCEPT ![i] = k]
           f == [j \in Pending(c) |-> c[j].usage]
           g == [j \in Pending(d) |-> d[j].usage]
<1>1. /\ c \in [DOMAIN c -> Call] /\ DOMAIN c \in SUBSET (1..MaxWanted)
      /\ IsFiniteSet(Pending(c)) /\ f \in [Pending(c) -> Nat]
  BY CallsTyped
<1>2. i \in DOMAIN c
  BY DEF Pending
<1>3. d \in [DOMAIN c -> Call] /\ d[i] = k /\ \A j \in DOMAIN c : j # i => d[j] = c[j]
  BY <1>1, <1>2
<1>4. d \in Calls /\ DOMAIN d = DOMAIN c
  BY <1>1, <1>3 DEF Calls
<1>5. g \in [Pending(d) -> Nat]
  BY <1>4, CallsTyped
<1> HIDE DEF d
<1>6. ASSUME k.pc # "done"
      PROVE  Pending(d) = Pending(c) /\ Usage(d) = Usage(c) + (k.usage - c[i].usage)
  <2>1. Pending(d) = Pending(c)
    BY <1>2, <1>3, <1>4, <1>6 DEF Pending
  <2>2. g[i] = k.usage /\ f[i] = c[i].usage /\ \A j \in Pending(c) \ {i} : g[j] = f[j]
    BY <1>3, <2>1 DEF Pending
  <2>3. f \in [Pending(c) -> Int] /\ g \in [Pending(c) -> Int]
    BY <1>1, <1>5, <2>1
  <2> HIDE DEF f, g
  <2>4. SumFunction(g) = SumFunction(f) + (g[i] - f[i])
    BY <1>1, <2>2, <2>3, SumStep
  <2> QED
    BY <2>1, <2>2, <2>4 DEF Usage, f, g
<1>7. ASSUME k.pc = "done"
      PROVE  /\ Cardinality(Pending(d)) = Cardinality(Pending(c)) - 1
             /\ Usage(d) = Usage(c) - c[i].usage
  <2>1. Pending(d) = Pending(c) \ {i}
    BY <1>2, <1>3, <1>4, <1>7 DEF Pending
  <2>2. Cardinality(Pending(d)) = Cardinality(Pending(c)) - 1
    <3>1. i \in Pending(c) /\ IsFiniteSet(Pending(c))
      BY <1>1
    <3>2. Cardinality(Pending(c) \ {i}) = Cardinality(Pending(c)) - 1
      BY <3>1, FS_RemoveElement, Zenon
    <3> QED
      BY <2>1, <3>2
  <2>3. f[i] = c[i].usage /\ \A j \in Pending(c) \ {i} : g[j] = f[j]
    BY <1>3, <2>1 DEF Pending
  <2>4. f \in [Pending(c) -> Int] /\ g \in [Pending(c) \ {i} -> Int]
    BY <1>1, <1>5, <2>1
  <2> HIDE DEF f, g
  <2>5. /\ SumFunction(f) \in Int /\ SumFunction(g) \in Int
        /\ SumFunction(f) = f[i] + SumFunction(g)
    <3> DEFINE D == Pending(c)
    <3>1. IsFiniteSet(D) /\ i \in D /\ f \in [D -> Int] /\ g \in [D \ {i} -> Int]
      BY <1>1, <2>4
    <3>2. \A y \in D \ {i} : g[y] = f[y]
      BY <2>3
    <3> HIDE DEF D
    <3> QED
      BY <3>1, <3>2, SumDrop
  <2>6. f[i] \in Int
    BY <2>4
  <2>7. SumFunction(g) = SumFunction(f) - f[i]
    BY <2>5, <2>6
  <2> QED
    BY <2>2, <2>3, <2>7 DEF Usage, f, g
<1> QED
  BY <1>2, <1>3, <1>4, <1>6, <1>7 DEF d

-------------------------------------------------------------------------------
(***************************************************************************)
(* The runs, each by itself: its locals l, its calls c and the rows w it    *)
(* wrote.  What it wrote and may still write fits in both budgets, because  *)
(* the rows that it counts include its own.                                 *)
(***************************************************************************)
RunOK(l, c, w) ==
  /\ l \in Local /\ c \in Calls /\ w \in Nat
  /\ (l.pc \in {"counting", "scheduling", "judging"}) <=> (l.session \in Sessions)
  /\ l.pc # "judging" => c = NoCalls
  /\ \A i \in DOMAIN c : CallOK(c[i])
  /\ l.capped = l.due
  /\ l.pc = "idle" => w = 0
  /\ l.pc = "scheduling" => w <= l.counted
  /\ w + Cardinality(Pending(c)) <= SessionCap
  /\ w + Cardinality(Pending(c)) <= GlobalCap

RunsInv ==
  /\ judged \in [Sessions -> Nat]
  /\ run \in [Runs -> Local] /\ call \in [Runs -> Calls] /\ wrote \in [Runs -> Nat]
  /\ \A r \in Runs : RunOK(run[r], call[r], wrote[r])
  /\ \A r \in Runs : run[r].session \in Sessions => wrote[r] <= judged[run[r].session]

(* A step of one run leaves the others alone, and rows stay.               *)
LEMMA OneRun ==
  ASSUME RunsInv, NEW r \in Runs, NEW l, NEW c, NEW w,
         run' = [run EXCEPT ![r] = l], call' = [call EXCEPT ![r] = c],
         wrote' = [wrote EXCEPT ![r] = w], RunOK(l, c, w),
         judged' \in [Sessions -> Nat], \A s \in Sessions : judged[s] <= judged'[s],
         l.session \in Sessions => w <= judged'[l.session]
  PROVE  RunsInv'
<1>1. l \in Local /\ c \in Calls /\ w \in Nat
  BY DEF RunOK
<1>2. /\ run' \in [Runs -> Local] /\ run'[r] = l /\ \A q \in Runs \ {r} : run'[q] = run[q]
      /\ call' \in [Runs -> Calls] /\ call'[r] = c /\ \A q \in Runs \ {r} : call'[q] = call[q]
      /\ wrote' \in [Runs -> Nat] /\ wrote'[r] = w /\ \A q \in Runs \ {r} : wrote'[q] = wrote[q]
  BY <1>1 DEF RunsInv
<1>3. ASSUME NEW q \in Runs
      PROVE  /\ RunOK(run'[q], call'[q], wrote'[q])
             /\ run'[q].session \in Sessions => wrote'[q] <= judged'[run'[q].session]
  <2>1. CASE q = r
    BY <1>2, <2>1
  <2>2. CASE q # r
    <3>1. run'[q] = run[q] /\ call'[q] = call[q] /\ wrote'[q] = wrote[q]
      BY <1>2, <2>2
    <3>2. RunOK(run[q], call[q], wrote[q])
      BY DEF RunsInv
    <3>3. ASSUME run[q].session \in Sessions PROVE wrote[q] <= judged'[run[q].session]
      <4>1. /\ wrote[q] <= judged[run[q].session] /\ wrote[q] \in Nat
            /\ judged[run[q].session] \in Nat /\ judged'[run[q].session] \in Nat
        BY <3>3 DEF RunsInv
      <4>2. judged[run[q].session] <= judged'[run[q].session]
        BY <3>3
      <4> QED
        BY <4>1, <4>2
    <3> QED
      BY <3>1, <3>2, <3>3
  <2> QED
    BY <2>1, <2>2
<1> QED
  BY <1>2, <1>3 DEF RunsInv

(* A run without calls under way has none to account for. *)
LEMMA NoCallsPending ==
  NoCalls \in Calls /\ Pending(NoCalls) = {} /\ Cardinality(Pending(NoCalls)) = 0 /\ Usage(NoCalls) = 0
<1>1. NoCalls \in [{} -> Call] /\ DOMAIN NoCalls = {}
  BY DEF NoCalls
<1>2. NoCalls \in Calls
  BY <1>1 DEF Calls
<1>3. Pending(NoCalls) = {}
  BY <1>1 DEF Pending
<1>4. Cardinality({}) = 0
  BY FS_EmptySet
<1>5. Usage(NoCalls) = 0
  <2> DEFINE f == [i \in Pending(NoCalls) |-> NoCalls[i].usage]
  <2>1. DOMAIN f = {}
    BY <1>3
  <2>2. SumFunctionOnSet(f, {}) = 0
    BY FS_EmptySet, SumFirst
  <2> QED
    BY <2>1, <2>2 DEF Usage, SumFunction
<1> QED
  BY <1>2, <1>3, <1>4, <1>5

LEMMA RunsInit == Init => RunsInv
<1> SUFFICES ASSUME Init PROVE RunsInv
  OBVIOUS
<1>1. Idle \in Local
  <2>1. 1 \in 1..Tasks /\ 0 \in Nat
    OBVIOUS
  <2> QED
    BY <2>1 DEF Idle, Local
<1>2. RunOK(Idle, NoCalls, 0)
  <2>1. DOMAIN NoCalls = {}
    BY DEF NoCalls
  <2>2. /\ Idle.pc = "idle" /\ Idle.session \notin Sessions /\ Idle.capped = Idle.due
    BY DEF Idle
  <2> QED
    BY <1>1, <2>1, <2>2, NoCallsPending DEF RunOK
<1> QED
  BY <1>1, <1>2, NoCallsPending DEF Init, RunsInv, Idle

(* The rows of the day include those of every session. *)
LEMMA TodayCounts ==
  ASSUME judged \in [Sessions -> Nat]
  PROVE  Today \in Nat /\ \A s \in Sessions : judged[s] <= Today
BY SumOfNats DEF Today

(* Facts about one run that the steps need. *)
LEMMA RunFacts ==
  ASSUME RunsInv, NEW r \in Runs
  PROVE  /\ RunOK(run[r], call[r], wrote[r])
         /\ run[r] \in Local /\ call[r] \in Calls /\ wrote[r] \in Nat
         /\ Cardinality(Pending(call[r])) \in 0..MaxWanted
         /\ run[r].session \in Sessions =>
              wrote[r] <= judged[run[r].session] /\ judged[run[r].session] \in Nat
         /\ \A l : run' = [run EXCEPT ![r] = l] => run'[r] = l
  BY CallsTyped DEF RunsInv

LEMMA BeginRuns == ASSUME RunsInv, NEW r \in Runs, Begin(r) PROVE RunsInv'
<1>1. PICK s \in Sessions :
        run' = [run EXCEPT ![r] = [@ EXCEPT !.pc = "counting", !.session = s,
                                            !.capped = s \in OverChat, !.due = s \in OverChat]]
  BY DEF Begin
<1> DEFINE over == s \in OverChat
           l == [run[r] EXCEPT !.pc = "counting", !.session = s, !.capped = over, !.due = over]
<1>2. RunOK(run[r], call[r], wrote[r]) /\ run[r].pc = "idle"
  BY RunFacts DEF Begin
<1>3. /\ l \in Local /\ l.pc = "counting" /\ l.session = s /\ l.capped = l.due
  <2>1. over \in BOOLEAN
    OBVIOUS
  <2> HIDE DEF over
  <2> QED
    BY <1>2, <2>1 DEF RunOK, Local
<1>4. UNCHANGED <<judged, call, wrote>>
  BY DEF Begin, ledger
<1>7. /\ run' = [run EXCEPT ![r] = l] /\ call' = [call EXCEPT ![r] = call[r]]
      /\ wrote' = [wrote EXCEPT ![r] = wrote[r]]
  BY <1>1, <1>4 DEF RunsInv
<1> HIDE DEF l
<1>5. RunOK(l, call[r], wrote[r])
  BY <1>2, <1>3 DEF RunOK
<1>6. wrote[r] <= judged'[l.session]
  <2>1. wrote[r] = 0 /\ judged[s] \in Nat /\ judged' = judged
    BY <1>2, <1>4 DEF RunOK, RunsInv
  <2> QED
    BY <1>3, <2>1
<1>8. judged' \in [Sessions -> Nat] /\ \A q \in Sessions : judged[q] <= judged'[q]
  BY <1>4 DEF RunsInv
<1> QED
  BY <1>5, <1>6, <1>7, <1>8, OneRun

LEMMA CountRuns == ASSUME RunsInv, NEW r \in Runs, CountSession(r) PROVE RunsInv'
<1> DEFINE n == judged[run[r].session]
           l == [run[r] EXCEPT !.pc = "scheduling", !.counted = n]
<1>1. RunOK(run[r], call[r], wrote[r]) /\ run[r].pc = "counting" /\ run[r].session \in Sessions
  BY RunFacts DEF CountSession, RunOK
<1>2. n \in Nat /\ wrote[r] <= n
  BY <1>1, RunFacts
<1>3. /\ l \in Local /\ l.pc = "scheduling" /\ l.session = run[r].session
      /\ l.capped = l.due /\ l.counted = n
  BY <1>1, <1>2 DEF RunOK, Local
<1>4. run' = [run EXCEPT ![r] = l] /\ UNCHANGED <<judged, call, wrote>>
  BY DEF CountSession, ledger
<1> HIDE DEF l, n
<1>5. RunOK(l, call[r], wrote[r])
  BY <1>1, <1>2, <1>3 DEF RunOK
<1>6. /\ call' = [call EXCEPT ![r] = call[r]] /\ wrote' = [wrote EXCEPT ![r] = wrote[r]]
  BY <1>4 DEF RunsInv
<1>7. judged' \in [Sessions -> Nat] /\ \A q \in Sessions : judged[q] <= judged'[q]
  BY <1>4 DEF RunsInv
<1> QED
  BY <1>2, <1>3, <1>4, <1>5, <1>6, <1>7, OneRun DEF n

(* What one task schedules fits in both budgets.  The jobs are the first    *)
(* questions, as long as there is room, so they are at most the room.       *)
LEMMA JobsFit ==
  ASSUME NEW counted \in Nat, NEW today \in Nat, NEW wanted \in 0..MaxWanted
  PROVE  LET jobs == {n \in 1..wanted : counted + (n - 1) < SessionCap
                                          /\ today + (n - 1) < GlobalCap}
         IN  /\ jobs \in SUBSET (1..MaxWanted) /\ IsFiniteSet(jobs)
             /\ Cardinality(jobs) \in 0..MaxWanted
             /\ \/ Cardinality(jobs) = 0
                \/ /\ counted + Cardinality(jobs) <= SessionCap
                   /\ today + Cardinality(jobs) <= GlobalCap
<1> DEFINE jobs == {n \in 1..wanted : counted + (n - 1) < SessionCap
                                        /\ today + (n - 1) < GlobalCap}
<1>0. MaxWanted \in Nat /\ SessionCap \in Nat /\ GlobalCap \in Nat /\ wanted \in Nat
  OBVIOUS
<1>1. ASSUME NEW m \in Nat, jobs \subseteq 1..m
      PROVE  IsFiniteSet(jobs) /\ Cardinality(jobs) \in Nat /\ Cardinality(jobs) <= m
  <2>1. IsFiniteSet(1..m) /\ Cardinality(1..m) = m
    BY FS_Interval
  <2> HIDE DEF jobs
  <2> QED
    BY <1>1, <2>1, FS_Subset, FS_CardinalityType
<1>2. jobs \subseteq 1..MaxWanted
  BY <1>0
<1>3. CASE jobs = {}
  <2>1. Cardinality(jobs) = 0 /\ IsFiniteSet(jobs)
    BY <1>3, FS_EmptySet
  <2> QED
    BY <1>0, <1>2, <2>1
<1>4. CASE jobs # {}
  <2>1. PICK j \in jobs : TRUE
    BY <1>4
  <2>2. counted < SessionCap /\ today < GlobalCap
    BY <1>0, <2>1
  <2>3. SessionCap - counted \in Nat /\ GlobalCap - today \in Nat
    BY <1>0, <2>2
  <2>4. jobs \subseteq 1..(SessionCap - counted) /\ jobs \subseteq 1..(GlobalCap - today)
    BY <1>0, <2>3
  <2> DEFINE c == Cardinality(jobs)
  <2>5. c \in Nat /\ c <= MaxWanted /\ IsFiniteSet(jobs)
    BY <1>0, <1>1, <1>2
  <2>6. c <= SessionCap - counted /\ c <= GlobalCap - today
    BY <1>1, <2>3, <2>4
  <2> HIDE DEF c, jobs
  <2>7. c \in 0..MaxWanted /\ counted + c <= SessionCap /\ today + c <= GlobalCap
    BY <1>0, <2>5, <2>6
  <2>8. jobs \in SUBSET (1..MaxWanted)
    BY <1>2
  <2> QED
    BY <2>5, <2>7, <2>8 DEF c, jobs
<1> QED
  BY <1>3, <1>4

(* The calls that a run schedules: as many as pending, and none has used    *)
(* anything.                                                                *)
LEMMA QueuedCalls ==
  ASSUME NEW jobs \in SUBSET (1..MaxWanted), IsFiniteSet(jobs)
  PROVE  LET c == [i \in jobs |-> Queued]
         IN  /\ c \in Calls /\ Pending(c) = jobs /\ Usage(c) = 0
             /\ \A i \in DOMAIN c : CallOK(c[i])
<1> DEFINE c == [i \in jobs |-> Queued]
<1>1. Queued \in Call /\ Queued.pc = "queued" /\ Queued.usage = 0
  <2>1. 0 \in 0..Attempts
    OBVIOUS
  <2> QED
    BY <2>1 DEF Queued, Call
<1>2. c \in [jobs -> Call] /\ DOMAIN c = jobs /\ \A i \in jobs : c[i] = Queued
  BY <1>1
<1>3. c \in Calls
  BY <1>2 DEF Calls
<1> HIDE DEF c
<1>4. Pending(c) = jobs
  BY <1>1, <1>2 DEF Pending
<1>5. \A i \in DOMAIN c : CallOK(c[i])
  BY <1>1, <1>2 DEF CallOK
<1>6. Usage(c) = 0
  <2> DEFINE f == [i \in Pending(c) |-> c[i].usage]
  <2>1. f \in [jobs -> Int] /\ DOMAIN f = jobs /\ \A x \in jobs : f[x] \in Int /\ f[x] <= 0
    BY <1>1, <1>2, <1>4
  <2>2. f \in [jobs -> Nat]
    BY <1>1, <1>2, <1>4
  <2> HIDE DEF f
  <2>3. SumFunctionOnSet(f, jobs) <= 0 * Cardinality(jobs) /\ Cardinality(jobs) \in Nat
    BY <2>1, SumBounded
  <2>4. SumFunction(f) \in Nat
    BY <2>2, SumOfNats
  <2>5. SumFunction(f) = SumFunctionOnSet(f, jobs)
    BY <2>1 DEF SumFunction
  <2>6. SumFunction(f) = 0
    BY <2>3, <2>4, <2>5
  <2> QED
    BY <2>6 DEF Usage, f
<1> QED
  BY <1>3, <1>4, <1>5, <1>6 DEF c

LEMMA ScheduleRuns == ASSUME RunsInv, NEW r \in Runs, Schedule(r) PROVE RunsInv'
<1>1. RunOK(run[r], call[r], wrote[r]) /\ run[r].pc = "scheduling" /\ run[r].session \in Sessions
  BY RunFacts DEF Schedule, RunOK
<1>2. /\ Today \in Nat /\ run[r].counted \in Nat /\ wrote[r] \in Nat
      /\ wrote[r] <= Today /\ wrote[r] <= run[r].counted
  <2>1. wrote[r] <= judged[run[r].session] /\ judged[run[r].session] \in Nat
    BY <1>1, RunFacts
  <2>2. Today \in Nat /\ judged[run[r].session] <= Today
    BY <1>1, TodayCounts DEF RunsInv
  <2>3. run[r].counted \in Nat /\ wrote[r] \in Nat /\ wrote[r] <= run[r].counted
    BY <1>1 DEF RunOK, Local
  <2> QED
    BY <2>1, <2>2, <2>3
<1> DEFINE Jobs0(m) == {n \in 1..m : Room(r, n - 1)}
           Skips(m) == Cardinality(Jobs0(m)) < m
<1>3. PICK wanted \in 0..MaxWanted :
        /\ call' = [call EXCEPT ![r] = [i \in Jobs0(wanted) |-> Queued]]
        /\ run' = [run EXCEPT ![r].pc = "judging", ![r].counted = 0,
                              ![r].capped = @ \/ Skips(wanted), ![r].due = @ \/ Skips(wanted)]
  BY Zenon DEF Schedule
<1> DEFINE jobs == Jobs0(wanted)
           skips == Skips(wanted)
           c == [i \in jobs |-> Queued]
           l == [run[r] EXCEPT !.pc = "judging", !.counted = 0, !.capped = @ \/ skips, !.due = @ \/ skips]
<1>4. /\ jobs \in SUBSET (1..MaxWanted) /\ IsFiniteSet(jobs)
      /\ Cardinality(jobs) \in 0..MaxWanted
      /\ \/ Cardinality(jobs) = 0
         \/ /\ run[r].counted + Cardinality(jobs) <= SessionCap
            /\ Today + Cardinality(jobs) <= GlobalCap
  BY <1>2, JobsFit DEF Room
<1>b. skips \in BOOLEAN
  OBVIOUS
<1>5. run' = [run EXCEPT ![r] = l] /\ call' = [call EXCEPT ![r] = c]
  <2>1. /\ call' = [call EXCEPT ![r] = c]
        /\ run' = [run EXCEPT ![r].pc = "judging", ![r].counted = 0,
                              ![r].capped = @ \/ skips, ![r].due = @ \/ skips]
    BY <1>3
  <2>2. run \in [Runs -> Local]
    BY DEF RunsInv
  <2> HIDE DEF skips, c
  <2> QED
    BY <1>b, <2>1, <2>2
<1> HIDE DEF jobs
<1>6. /\ c \in Calls /\ Pending(c) = jobs /\ \A i \in DOMAIN c : CallOK(c[i])
  BY <1>4, QueuedCalls
<1>7. /\ l \in Local /\ l.pc = "judging" /\ l.session = run[r].session
      /\ l.capped = l.due
  <2> HIDE DEF skips
  <2> QED
    BY <1>1, <1>b DEF RunOK, Local
<1>8. wrote[r] + Cardinality(jobs) <= SessionCap /\ wrote[r] + Cardinality(jobs) <= GlobalCap
  <2>1. wrote[r] <= SessionCap /\ wrote[r] <= GlobalCap
    <3>1. /\ Cardinality(Pending(call[r])) \in Nat
          /\ wrote[r] + Cardinality(Pending(call[r])) <= SessionCap
          /\ wrote[r] + Cardinality(Pending(call[r])) <= GlobalCap
      BY <1>1, RunFacts DEF RunOK
    <3> QED
      BY <1>2, <3>1
  <2> QED
    BY <1>2, <1>4, <2>1
<1> HIDE DEF c, l
<1>9. RunOK(l, c, wrote[r])
  BY <1>1, <1>2, <1>6, <1>7, <1>8 DEF RunOK
<1>10. UNCHANGED <<judged, wrote>>
  BY DEF Schedule, ledger
<1>11. wrote' = [wrote EXCEPT ![r] = wrote[r]]
  BY <1>10 DEF RunsInv
<1>12. /\ judged' \in [Sessions -> Nat] /\ \A q \in Sessions : judged[q] <= judged'[q]
       /\ wrote[r] <= judged'[l.session]
  BY <1>1, <1>7, <1>10, RunFacts DEF RunsInv
<1> QED
  BY <1>5, <1>9, <1>11, <1>12, OneRun

LEMMA FinishRuns == ASSUME RunsInv, NEW r \in Runs, FinishTask(r) PROVE RunsInv'
<1>1. RunOK(run[r], call[r], wrote[r]) /\ run[r].pc = "judging" /\ run[r].session \in Sessions
  BY RunFacts DEF FinishTask, RunOK
<1>2. PICK l : /\ run' = [run EXCEPT ![r] = l]
               /\ \/ /\ run[r].task < Tasks
                     /\ l = [run[r] EXCEPT !.pc = "counting", !.task = @ + 1]
                  \/ l = [run[r] EXCEPT !.pc = "finished", !.session = None]
  BY DEF FinishTask
<1>3. /\ l \in Local /\ l.capped = l.due /\ l.pc \in {"counting", "finished"}
      /\ (l.pc = "counting") <=> (l.session \in Sessions)
      /\ l.session \in Sessions => l.session = run[r].session
  <2>1. run[r] \in Local /\ run[r].capped = run[r].due
    BY <1>1 DEF RunOK
  <2>2. CASE run[r].task < Tasks /\ l = [run[r] EXCEPT !.pc = "counting", !.task = @ + 1]
    <3>1. run[r].task + 1 \in 1..Tasks
      BY <2>1, <2>2 DEF Local
    <3>2. l \in Local
      BY <2>1, <2>2, <3>1 DEF Local
    <3>3. l.capped = l.due /\ l.pc = "counting" /\ l.session = run[r].session
      BY <2>1, <2>2 DEF Local
    <3> QED
      BY <1>1, <3>2, <3>3
  <2>3. CASE l = [run[r] EXCEPT !.pc = "finished", !.session = None]
    BY <2>1, <2>3 DEF Local
  <2> QED
    BY <1>2, <2>2, <2>3
<1>4. wrote[r] <= SessionCap /\ wrote[r] <= GlobalCap /\ wrote[r] \in Nat
  <2>1. /\ Cardinality(Pending(call[r])) \in Nat /\ wrote[r] \in Nat
        /\ wrote[r] + Cardinality(Pending(call[r])) <= SessionCap
        /\ wrote[r] + Cardinality(Pending(call[r])) <= GlobalCap
    BY <1>1, RunFacts DEF RunOK
  <2> QED
    BY <2>1
<1>5. RunOK(l, NoCalls, wrote[r])
  <2>1. DOMAIN NoCalls = {}
    BY DEF NoCalls
  <2> QED
    BY <1>3, <1>4, <2>1, NoCallsPending DEF RunOK
<1>6. call' = [call EXCEPT ![r] = NoCalls] /\ UNCHANGED <<judged, wrote>>
  BY DEF FinishTask, ledger
<1>7. wrote' = [wrote EXCEPT ![r] = wrote[r]]
  BY <1>6 DEF RunsInv
<1>8. /\ judged' \in [Sessions -> Nat] /\ \A q \in Sessions : judged[q] <= judged'[q]
      /\ l.session \in Sessions => wrote[r] <= judged'[l.session]
  BY <1>1, <1>3, <1>6, RunFacts DEF RunsInv
<1> QED
  BY <1>2, <1>5, <1>6, <1>7, <1>8, OneRun

LEMMA StopRuns == ASSUME RunsInv, NEW r \in Runs, Stop(r) PROVE RunsInv'
<1> DEFINE l == [Idle EXCEPT !.pc = "stopped"]
<1>1. /\ l \in Local /\ l.pc = "stopped" /\ l.session \notin Sessions /\ l.capped = l.due
  <2>1. 1 \in 1..Tasks /\ 0 \in Nat
    OBVIOUS
  <2> QED
    BY <2>1 DEF Idle, Local
<1>2. wrote[r] <= SessionCap /\ wrote[r] <= GlobalCap /\ wrote[r] \in Nat
  <2>1. /\ Cardinality(Pending(call[r])) \in Nat /\ wrote[r] \in Nat
        /\ wrote[r] + Cardinality(Pending(call[r])) <= SessionCap
        /\ wrote[r] + Cardinality(Pending(call[r])) <= GlobalCap
    BY RunFacts DEF RunOK
  <2> QED
    BY <2>1
<1> HIDE DEF l
<1>3. RunOK(l, NoCalls, wrote[r])
  <2>1. DOMAIN NoCalls = {}
    BY DEF NoCalls
  <2> QED
    BY <1>1, <1>2, <2>1, NoCallsPending DEF RunOK
<1>4. /\ run' = [run EXCEPT ![r] = l] /\ call' = [call EXCEPT ![r] = NoCalls]
      /\ UNCHANGED <<judged, wrote>>
  BY DEF Stop, ledger, l
<1>5. wrote' = [wrote EXCEPT ![r] = wrote[r]]
  BY <1>4 DEF RunsInv
<1>6. judged' \in [Sessions -> Nat] /\ \A q \in Sessions : judged[q] <= judged'[q]
  BY <1>4 DEF RunsInv
<1> QED
  BY <1>1, <1>3, <1>4, <1>5, <1>6, OneRun

(* A call under way moves on without a row. *)
LEMMA MoveRuns ==
  ASSUME RunsInv, NEW r \in Runs, NEW i \in Pending(call[r]), NEW k, CallOK(k), k.pc # "done",
         Set(r, i, k), UNCHANGED <<judged, wrote, run>>
  PROVE  RunsInv' /\ RunOK(run[r], [call[r] EXCEPT ![i] = k], wrote[r])
<1> DEFINE d == [call[r] EXCEPT ![i] = k]
<1>1. RunOK(run[r], call[r], wrote[r]) /\ call[r] \in Calls /\ k \in Call
  BY RunFacts DEF CallOK
<1>2. /\ d \in Calls /\ DOMAIN d = DOMAIN call[r] /\ i \in DOMAIN call[r]
      /\ d[i] = k /\ \A j \in DOMAIN call[r] : j # i => d[j] = call[r][j]
      /\ Pending(d) = Pending(call[r])
  BY <1>1, CallMoves
<1>3. call' = [call EXCEPT ![r] = d]
  BY DEF Set, RunsInv
<1> HIDE DEF d
<1>4. \A j \in DOMAIN d : CallOK(d[j])
  BY <1>1, <1>2 DEF RunOK
<1>5. run[r].pc # "judging" => d = NoCalls
  <2>1. DOMAIN NoCalls = {}
    BY DEF NoCalls
  <2> QED
    BY <1>1, <1>2, <2>1 DEF RunOK
<1>6. RunOK(run[r], d, wrote[r])
  BY <1>1, <1>2, <1>4, <1>5 DEF RunOK
<1>7. run' = [run EXCEPT ![r] = run[r]] /\ wrote' = [wrote EXCEPT ![r] = wrote[r]]
  BY DEF RunsInv
<1>8. /\ judged' \in [Sessions -> Nat] /\ \A q \in Sessions : judged[q] <= judged'[q]
      /\ run[r].session \in Sessions => wrote[r] <= judged'[run[r].session]
  BY RunFacts DEF RunsInv
<1> QED
  BY <1>3, <1>6, <1>7, <1>8, OneRun DEF d

LEMMA DoneCall == CallOK(Done) /\ Done \in Call /\ Done.pc = "done" /\ Done.usage = 0
<1>1. 0 \in 0..Attempts
  OBVIOUS
<1> QED
  BY <1>1 DEF Done, Queued, CallOK, Call

(* A call is over, with its row or without. *)
LEMMA EndRuns ==
  ASSUME RunsInv, NEW r \in Runs, NEW i \in Jobs(r), Record(r, i) \/ SinkFails(r, i)
  PROVE  RunsInv'
<1> DEFINE c == call[r]
           d == [c EXCEPT ![i] = Done]
           s == run[r].session
<1>0. i \in Pending(c)
  BY DEF Jobs, Pending, Record, SinkFails
<1>1. RunOK(run[r], c, wrote[r]) /\ c \in Calls /\ Cardinality(Pending(c)) \in Nat
  BY RunFacts
<1>2. /\ d \in Calls /\ DOMAIN d = DOMAIN c /\ i \in DOMAIN c
      /\ d[i] = Done /\ \A j \in DOMAIN c : j # i => d[j] = c[j]
      /\ Cardinality(Pending(d)) = Cardinality(Pending(c)) - 1
  BY <1>0, <1>1, CallMoves, DoneCall
<1>3. call' = [call EXCEPT ![r] = d] /\ run' = run
  BY DEF Set, RunsInv, Record, SinkFails
<1>4. run[r].pc = "judging" /\ s \in Sessions
  <2>1. DOMAIN NoCalls = {}
    BY DEF NoCalls
  <2> QED
    BY <1>1, <1>2, <2>1 DEF RunOK
<1>5. /\ wrote[r] \in Nat /\ judged[s] \in Nat /\ wrote[r] <= judged[s]
      /\ judged \in [Sessions -> Nat] /\ wrote \in [Runs -> Nat] /\ run \in [Runs -> Local]
  BY <1>4, RunFacts DEF RunsInv
<1> DEFINE w == wrote'[r]
<1>6. /\ wrote' = [wrote EXCEPT ![r] = w] /\ w \in Nat
      /\ w = wrote[r] \/ w = wrote[r] + 1
      /\ judged' \in [Sessions -> Nat] /\ \A q \in Sessions : judged[q] <= judged'[q]
      /\ w <= judged'[s]
  <2>1. CASE Record(r, i)
    <3>1. /\ judged' = [judged EXCEPT ![s] = @ + 1] /\ wrote' = [wrote EXCEPT ![r] = @ + 1]
      BY <2>1 DEF Record
    <3>2. judged' \in [Sessions -> Nat] /\ judged'[s] = judged[s] + 1 /\ w = wrote[r] + 1
      BY <1>4, <1>5, <3>1
    <3>3. \A q \in Sessions : judged[q] <= judged'[q]
      BY <1>4, <1>5, <3>1
    <3>4. wrote' = [wrote EXCEPT ![r] = w]
      BY <1>5, <3>1
    <3> QED
      BY <1>5, <3>2, <3>3, <3>4
  <2>2. CASE SinkFails(r, i)
    <3>1. judged' = judged /\ wrote' = wrote
      BY <2>2 DEF SinkFails, ledger
    <3> QED
      BY <1>5, <3>1
  <2> QED
    BY <2>1, <2>2
<1> HIDE DEF d, c, s, w
<1>7. \A j \in DOMAIN d : CallOK(d[j])
  BY <1>1, <1>2, DoneCall DEF RunOK
<1>8. w + Cardinality(Pending(d)) <= SessionCap /\ w + Cardinality(Pending(d)) <= GlobalCap
  BY <1>1, <1>2, <1>5, <1>6 DEF RunOK
<1>9. RunOK(run[r], d, w)
  BY <1>1, <1>2, <1>4, <1>6, <1>7, <1>8 DEF RunOK
<1>10. run' = [run EXCEPT ![r] = run[r]]
  BY <1>3, <1>5
<1> QED
  BY <1>3, <1>6, <1>9, <1>10, OneRun DEF s

(* The next attempt, or the end of the attempts. *)
LEMMA NextAttemptOK ==
  ASSUME NEW k \in Call, k.pc = "asking", k.usage <= k.tries, ~k.verdict, k.status # "error"
  PROVE  LET n == NextAttempt(k)
         IN  CallOK(n) /\ n.pc \in {"asking", "recording"} /\ n.usage = k.usage
<1>1. /\ k.tries \in 0..Attempts /\ k.usage \in 0..Attempts
      /\ k.status \in {"ok", "rate_limited"} /\ Attempts \in Nat
  BY DEF Call
<1>2. CASE k.tries < Attempts
  <2> DEFINE n == [k EXCEPT !.tries = @ + 1]
  <2>1. k.tries + 1 \in 0..Attempts /\ k.usage < k.tries + 1
    BY <1>1, <1>2
  <2>2. n \in Call /\ n.pc = "asking" /\ n.usage = k.usage /\ n.tries = k.tries + 1
        /\ n.verdict = k.verdict /\ n.status = k.status
    BY <2>1 DEF Call
  <2>3. NextAttempt(k) = n
    BY <1>2 DEF NextAttempt
  <2> HIDE DEF n
  <2> QED
    BY <2>1, <2>2, <2>3 DEF CallOK
<1>3. CASE ~(k.tries < Attempts)
  <2> DEFINE n == [k EXCEPT !.pc = "recording", !.status = IF @ = "ok" THEN "error" ELSE @]
  <2>2. n \in Call /\ n.pc = "recording" /\ n.usage = k.usage
        /\ n.verdict = k.verdict /\ n.status \in {"error", "rate_limited"}
    BY <1>1 DEF Call
  <2>3. NextAttempt(k) = n
    BY <1>3 DEF NextAttempt
  <2> HIDE DEF n
  <2> QED
    BY <2>2, <2>3 DEF CallOK
<1> QED
  BY <1>2, <1>3

(* What a call becomes in a step that keeps it under way: what the service  *)
(* answered is what it used more.                                           *)
LEMMA CallStepOK ==
  ASSUME RunsInv, unbilled \in Nat, NEW r \in Runs, NEW i \in Jobs(r),
         Ask(r, i) \/ Answer(r, i) \/ Invalid(r, i) \/ Limited(r, i) \/ Fails(r, i)
  PROVE  /\ i \in Pending(call[r])
         /\ UNCHANGED <<judged, wrote, run>>
         /\ \E k : /\ CallOK(k) /\ k.pc # "done" /\ Set(r, i, k)
                   /\ unbilled' = unbilled + (k.usage - call[r][i].usage)
<1> DEFINE k0 == call[r][i]
           Becomes(k) == /\ CallOK(k) /\ k.pc # "done" /\ Set(r, i, k)
                         /\ unbilled' = unbilled + (k.usage - k0.usage)
<1>1. /\ CallOK(k0) /\ k0 \in Call /\ k0.tries \in 0..Attempts /\ k0.usage \in 0..Attempts
      /\ Attempts \in Nat /\ Attempts # 0
  BY RunFacts DEF RunOK, Jobs, CallOK, Call
<1>2. i \in Pending(call[r])
  BY DEF Ask, Answer, Invalid, Limited, Fails, Pending, Jobs
<1>3. UNCHANGED <<judged, wrote, run>>
  BY DEF Ask, Answer, Invalid, Limited, Fails, ledger
<1>4. ASSUME Ask(r, i) PROVE \E k : Becomes(k)
  <2> DEFINE k == [k0 EXCEPT !.pc = "asking", !.tries = 1]
  <2>1. Set(r, i, k) /\ unbilled' = unbilled /\ k0.pc = "queued"
    BY <1>4 DEF Ask
  <2>2. k0 = Queued
    BY <1>1, <2>1 DEF CallOK
  <2>3. 1 \in 0..Attempts
    BY <1>1
  <2> HIDE DEF k0
  <2>4. /\ k \in Call /\ k.pc = "asking" /\ k.usage = 0 /\ k.tries = 1
        /\ k.verdict = FALSE /\ k.status = "ok" /\ k0.usage = 0
    BY <1>1, <2>2, <2>3 DEF Call, Queued
  <2> HIDE DEF k
  <2>5. CallOK(k) /\ k.pc # "done"
    BY <2>4 DEF CallOK
  <2>6. unbilled' = unbilled + (k.usage - k0.usage)
    BY <2>1, <2>4
  <2> QED
    BY <2>1, <2>5, <2>6
<1> DEFINE k1 == [k0 EXCEPT !.usage = @ + 1]
<1>5. ASSUME k0.pc = "asking"
      PROVE  /\ k0.usage < k0.tries /\ ~k0.verdict /\ k0.status # "error"
             /\ k1 \in Call /\ k1.pc = "asking" /\ k1.usage = k0.usage + 1 /\ k1.usage <= k1.tries
             /\ ~k1.verdict /\ k1.status # "error"
  <2> HIDE DEF k0
  <2>1. k0.usage < k0.tries /\ ~k0.verdict /\ k0.status # "error"
    BY <1>1, <1>5 DEF CallOK
  <2>2. k0.usage + 1 \in 0..Attempts /\ k0.usage + 1 <= k0.tries
    BY <1>1, <2>1
  <2> QED
    BY <1>1, <1>5, <2>1, <2>2 DEF Call
<1>6. ASSUME Answer(r, i) PROVE \E k : Becomes(k)
  <2> DEFINE k == [k0 EXCEPT !.pc = "recording", !.usage = @ + 1, !.verdict = TRUE]
  <2>1. Set(r, i, k) /\ unbilled' = unbilled + 1 /\ k0.pc = "asking"
    BY <1>6 DEF Answer
  <2>2. k0.usage + 1 \in 0..Attempts /\ k0.status # "error"
    BY <1>1, <1>5, <2>1
  <2> HIDE DEF k0
  <2>3. k \in Call /\ k.pc = "recording" /\ k.usage = k0.usage + 1 /\ k.verdict = TRUE
        /\ k.status = k0.status
    BY <1>1, <2>2 DEF Call
  <2> HIDE DEF k
  <2>4. CallOK(k) /\ k.pc # "done"
    BY <2>2, <2>3 DEF CallOK
  <2>5. unbilled' = unbilled + (k.usage - k0.usage)
    BY <1>1, <2>1, <2>3
  <2> QED
    BY <2>1, <2>4, <2>5
<1>7. ASSUME Invalid(r, i) PROVE \E k : Becomes(k)
  <2> DEFINE k == NextAttempt(k1)
  <2>1. Set(r, i, k) /\ unbilled' = unbilled + 1 /\ k0.pc = "asking"
    BY <1>7 DEF Invalid
  <2> HIDE DEF k0, k1
  <2>2. CallOK(k) /\ k.pc # "done" /\ k.usage = k1.usage
    BY <1>5, <2>1, NextAttemptOK
  <2> HIDE DEF k
  <2>3. unbilled' = unbilled + (k.usage - k0.usage)
    BY <1>1, <1>5, <2>1, <2>2
  <2> QED
    BY <2>1, <2>2, <2>3
<1>8. ASSUME Limited(r, i) PROVE \E k : Becomes(k)
  <2> DEFINE k2 == [k0 EXCEPT !.status = "rate_limited"]
             k == NextAttempt(k2)
  <2>1. Set(r, i, k) /\ unbilled' = unbilled /\ k0.pc = "asking"
    BY <1>8 DEF Limited
  <2> HIDE DEF k0
  <2>2. /\ k2 \in Call /\ k2.pc = "asking" /\ k2.usage = k0.usage /\ k2.usage <= k2.tries
        /\ ~k2.verdict /\ k2.status # "error"
    BY <1>1, <1>5, <2>1 DEF Call
  <2> HIDE DEF k2
  <2>3. CallOK(k) /\ k.pc # "done" /\ k.usage = k0.usage
    BY <2>2, NextAttemptOK
  <2> HIDE DEF k
  <2>4. unbilled' = unbilled + (k.usage - k0.usage)
    BY <1>1, <2>1, <2>3
  <2> QED
    BY <2>1, <2>3, <2>4
<1>9. ASSUME Fails(r, i) PROVE \E k : Becomes(k)
  <2> DEFINE k == [k0 EXCEPT !.pc = "recording", !.status = "error"]
  <2>1. Set(r, i, k) /\ unbilled' = unbilled /\ k0.pc = "asking"
    BY <1>9 DEF Fails
  <2> HIDE DEF k0
  <2>2. /\ k \in Call /\ k.pc = "recording" /\ k.usage = k0.usage
        /\ ~k.verdict /\ k.status = "error"
    BY <1>1, <1>5, <2>1 DEF Call
  <2> HIDE DEF k
  <2>3. CallOK(k) /\ k.pc # "done"
    BY <2>2 DEF CallOK
  <2>4. unbilled' = unbilled + (k.usage - k0.usage)
    BY <1>1, <2>1, <2>2
  <2> QED
    BY <2>1, <2>3, <2>4
<1>10. \E k : Becomes(k)
  <2> HIDE DEF Becomes
  <2> QED
    BY <1>4, <1>6, <1>7, <1>8, <1>9
<1> QED
  BY <1>2, <1>3, <1>10

-------------------------------------------------------------------------------
(***************************************************************************)
(* The bill: what the calls under way used is what is not billed yet.      *)
(***************************************************************************)
Bill == [r \in Runs |-> Usage(call[r])]

LEMMA BillIs == UsageAccounted <=> unbilled = SumFunction(Bill)
BY DEF UsageAccounted, UsageOf, Unrecorded, Jobs, Bill, Usage, Pending

LEMMA BillTyped ==
  ASSUME RunsInv
  PROVE  Bill \in [Runs -> Nat] /\ (UsageAccounted => unbilled \in Nat)
<1>1. \A r \in Runs : Usage(call[r]) \in Nat
  BY CallsTyped DEF RunsInv
<1>2. Bill \in [Runs -> Nat]
  BY <1>1 DEF Bill
<1>3. SumFunction(Bill) \in Nat
  <2> HIDE DEF Bill
  <2> QED
    BY <1>2, SumOfNats
<1> QED
  BY <1>2, <1>3, BillIs

(* The calls of one run change, and what is not billed by as much. *)
LEMMA BillMoves ==
  ASSUME RunsInv, UsageAccounted, NEW r \in Runs, NEW d \in Calls,
         call' = [call EXCEPT ![r] = d], unbilled' = unbilled + (Usage(d) - Usage(call[r]))
  PROVE  UsageAccounted'
<1> DEFINE after == [q \in Runs |-> Usage(call'[q])]
<1>1. call \in [Runs -> Calls] /\ Bill \in [Runs -> Nat] /\ unbilled = SumFunction(Bill)
  BY BillIs, BillTyped DEF RunsInv
<1>2. call' \in [Runs -> Calls] /\ call'[r] = d /\ \A q \in Runs \ {r} : call'[q] = call[q]
  BY <1>1
<1>3. /\ after \in [Runs -> Nat] /\ after[r] = Usage(d) /\ Bill[r] = Usage(call[r])
      /\ \A q \in Runs \ {r} : after[q] = Bill[q]
  BY <1>2, CallsTyped DEF Bill
<1>4. Bill \in [Runs -> Int] /\ after \in [Runs -> Int]
  BY <1>1, <1>3
<1>5. unbilled' = SumFunction(after)
  <2> HIDE DEF after
  <2>1. SumFunction(after) = SumFunction(Bill) + (after[r] - Bill[r])
    BY <1>3, <1>4, SumStep
  <2> QED
    BY <1>1, <1>3, <2>1
<1> QED
  BY <1>5 DEF UsageAccounted, UsageOf, Unrecorded, Jobs, Usage, Pending

-------------------------------------------------------------------------------
(* The day: what is on record and what is scheduled pass the global budget  *)
(* by no more than what all runs but one may have scheduled.                *)
Load == [r \in Runs |-> Cardinality(Pending(call[r]))]

DayInv ==
  \A r \in Runs :
    Today + SumFunction(Load) <= GlobalCap + MaxWanted * Cardinality(Runs \ {r})

LEMMA LoadTyped ==
  ASSUME RunsInv
  PROVE  /\ Load \in [Runs -> Nat] /\ \A r \in Runs : Load[r] <= MaxWanted
         /\ SumFunction(Load) \in Nat
         /\ Today \in Nat
         /\ \A r \in Runs : MaxWanted * Cardinality(Runs \ {r}) \in Nat
<1>1. ASSUME NEW r \in Runs PROVE Cardinality(Pending(call[r])) \in 0..MaxWanted
  BY CallsTyped DEF RunsInv
<1>2. Load \in [Runs -> Nat] /\ \A r \in Runs : Load[r] <= MaxWanted
  BY <1>1 DEF Load
<1>3. SumFunction(Load) \in Nat
  <2> HIDE DEF Load
  <2> QED
    BY <1>2, SumOfNats
<1>4. Today \in Nat
  BY TodayCounts DEF RunsInv
<1>5. ASSUME NEW r \in Runs PROVE MaxWanted * Cardinality(Runs \ {r}) \in Nat
  <2>1. Cardinality(Runs \ {r}) \in Nat
    BY FS_RemoveElement, FS_CardinalityType
  <2> QED
    BY <2>1
<1> QED
  BY <1>2, <1>3, <1>4, <1>5

(* The calls of one run change, and so do the rows. *)
LEMMA LoadMoves ==
  ASSUME RunsInv, NEW r \in Runs, NEW d \in Calls, call' = [call EXCEPT ![r] = d]
  PROVE  /\ Load' \in [Runs -> Nat]
         /\ Load'[r] = Cardinality(Pending(d)) /\ Load[r] = Cardinality(Pending(call[r]))
         /\ \A q \in Runs : Load'[q] <= MaxWanted
         /\ SumFunction(Load') \in Nat
         /\ SumFunction(Load') = SumFunction(Load) + (Load'[r] - Load[r])
<1>1. call' \in [Runs -> Calls] /\ call'[r] = d /\ \A q \in Runs \ {r} : call'[q] = call[q]
  BY DEF RunsInv
<1>2. ASSUME NEW q \in Runs PROVE Cardinality(Pending(call'[q])) \in 0..MaxWanted
  BY <1>1, CallsTyped
<1>3. /\ Load' \in [Runs -> Nat] /\ Load'[r] = Cardinality(Pending(d))
      /\ \A q \in Runs \ {r} : Load'[q] = Load[q]
      /\ \A q \in Runs : Load'[q] <= MaxWanted
  BY <1>1, <1>2 DEF Load
<1>4. Load[r] = Cardinality(Pending(call[r])) /\ Load \in [Runs -> Nat]
  BY LoadTyped DEF Load
<1>5. SumFunction(Load') \in Nat /\ SumFunction(Load') = SumFunction(Load) + (Load'[r] - Load[r])
  <2> DEFINE f == Load
             g == Load'
  <2>1. f \in [Runs -> Int] /\ g \in [Runs -> Int] /\ g \in [Runs -> Nat]
        /\ \A q \in Runs \ {r} : g[q] = f[q]
    BY <1>3, <1>4
  <2> HIDE DEF f, g
  <2>2. SumFunction(g) = SumFunction(f) + (g[r] - f[r]) /\ SumFunction(g) \in Nat
    BY <2>1, SumStep, SumOfNats
  <2> QED
    BY <2>2 DEF f, g
<1> QED
  BY <1>3, <1>4, <1>5

(* The set of the other runs is equally large for all runs. *)
LEMMA OtherRuns ==
  ASSUME NEW r \in Runs, NEW q \in Runs
  PROVE  Cardinality(Runs \ {r}) = Cardinality(Runs \ {q})
BY FS_RemoveElement

(* What keeps the day within bounds: no more is scheduled and recorded than *)
(* before, or one run has scheduled what fits and the others what they may. *)
LEMMA DayKept ==
  ASSUME RunsInv, RunsInv', DayInv, Today' + SumFunction(Load') <= Today + SumFunction(Load)
  PROVE  DayInv'
<1> SUFFICES ASSUME NEW q \in Runs
             PROVE  Today' + SumFunction(Load') <= GlobalCap + MaxWanted * Cardinality(Runs \ {q})
  BY DEF DayInv
<1> DEFINE B == MaxWanted * Cardinality(Runs \ {q})
<1>1. Today + SumFunction(Load) <= GlobalCap + B
  BY DEF DayInv
<1>2. /\ SumFunction(Load) \in Nat /\ Today \in Nat /\ B \in Nat /\ GlobalCap \in Nat
  BY LoadTyped
<1>3. SumFunction(Load') \in Nat /\ Today' \in Nat
  <2>1. (SumFunction(Load) \in Nat /\ Today \in Nat)'
    BY LoadTyped, PTL
  <2> QED
    BY <2>1
<1> HIDE DEF B
<1>4. Today' + SumFunction(Load') <= GlobalCap + B
  BY <1>1, <1>2, <1>3
<1> QED
  BY <1>4 DEF B

-------------------------------------------------------------------------------
(* What a step of run r does to its calls, to what is not billed and to the *)
(* rows of the day: it records and schedules no more than before, or what   *)
(* fits in the budget of the day.                                           *)
Changes(r, d) ==
  /\ d \in Calls /\ call' = [call EXCEPT ![r] = d]
  /\ unbilled' = unbilled + (Usage(d) - Usage(call[r]))
  /\ \/ Today' + Cardinality(Pending(d)) <= Today + Cardinality(Pending(call[r]))
     \/ Today' + Cardinality(Pending(d)) <= GlobalCap

(* Steps that leave the calls alone. *)
LEMMA ChangesNothing ==
  ASSUME RunsInv, UsageAccounted, NEW r \in Runs, UNCHANGED <<judged, unbilled, call>>
  PROVE  Changes(r, call[r])
<1>1. call[r] \in Calls /\ call' = [call EXCEPT ![r] = call[r]]
  BY DEF RunsInv
<1>2. /\ Usage(call[r]) \in Nat /\ Cardinality(Pending(call[r])) \in Nat
      /\ unbilled \in Nat /\ Today \in Nat
  BY <1>1, CallsTyped, BillTyped, LoadTyped
<1>3. Today' = Today /\ unbilled' = unbilled + (Usage(call[r]) - Usage(call[r]))
  BY <1>2 DEF Today
<1>4. Today' + Cardinality(Pending(call[r])) <= Today + Cardinality(Pending(call[r]))
  BY <1>2, <1>3
<1> QED
  BY <1>1, <1>3, <1>4 DEF Changes

LEMMA ChangesSchedule ==
  ASSUME RunsInv, UsageAccounted, NEW r \in Runs, Schedule(r)
  PROVE  \E d : Changes(r, d)
<1>1. PICK wanted \in 0..MaxWanted :
        call' = [call EXCEPT ![r] = [i \in {n \in 1..wanted : Room(r, n - 1)} |-> Queued]]
  BY DEF Schedule
<1> DEFINE jobs == {n \in 1..wanted : Room(r, n - 1)}
           d == [i \in jobs |-> Queued]
<1>2. run[r].pc = "scheduling" /\ UNCHANGED <<judged, unbilled>>
  BY DEF Schedule, ledger
<1>3. /\ run[r].counted \in Nat /\ Today \in Nat /\ unbilled \in Nat
      /\ call[r] = NoCalls
  BY <1>2, RunFacts, LoadTyped, BillTyped DEF RunOK, Local
<1>4. /\ jobs \in SUBSET (1..MaxWanted) /\ IsFiniteSet(jobs) /\ Cardinality(jobs) \in Nat
      /\ Cardinality(jobs) = 0 \/ Today + Cardinality(jobs) <= GlobalCap
  <2>1. /\ jobs \in SUBSET (1..MaxWanted) /\ IsFiniteSet(jobs)
        /\ Cardinality(jobs) \in 0..MaxWanted
        /\ \/ Cardinality(jobs) = 0
           \/ /\ run[r].counted + Cardinality(jobs) <= SessionCap
              /\ Today + Cardinality(jobs) <= GlobalCap
    BY <1>3, JobsFit DEF Room
  <2> HIDE DEF jobs
  <2> QED
    BY <2>1
<1>5. d \in Calls /\ Pending(d) = jobs /\ Usage(d) = 0
  BY <1>4, QueuedCalls
<1>6. call' = [call EXCEPT ![r] = d] /\ Today' = Today /\ unbilled' = unbilled
  BY <1>1, <1>2 DEF Today
<1> HIDE DEF jobs, d
<1>7. Changes(r, d)
  BY <1>3, <1>4, <1>5, <1>6, NoCallsPending DEF Changes
<1> QED
  BY <1>7

(* A run's calls are dropped: when all are over, or when it stops. *)
LEMMA ChangesDrop ==
  ASSUME RunsInv, UsageAccounted, NEW r \in Runs, FinishTask(r) \/ Stop(r)
  PROVE  Changes(r, NoCalls)
<1>1. call' = [call EXCEPT ![r] = NoCalls] /\ judged' = judged
  BY DEF FinishTask, Stop, ledger
<1>2. /\ unbilled \in Nat /\ Usage(call[r]) \in Nat /\ Today \in Nat
      /\ Cardinality(Pending(call[r])) \in Nat
  BY RunFacts, CallsTyped, BillTyped, LoadTyped
<1>3. unbilled' = unbilled + (0 - Usage(call[r]))
  <2>1. CASE FinishTask(r)
    <3>1. Pending(call[r]) = {} /\ unbilled' = unbilled
      BY <2>1 DEF FinishTask, Pending, Jobs
    <3>2. [i \in Pending(call[r]) |-> call[r][i].usage] = [i \in Pending(NoCalls) |-> NoCalls[i].usage]
      BY <3>1, NoCallsPending
    <3>3. Usage(call[r]) = 0
      BY <3>2, NoCallsPending DEF Usage
    <3> QED
      BY <1>2, <3>1, <3>3
  <2>2. CASE Stop(r)
    <3>1. UsageOf(r) = Usage(call[r])
      BY DEF UsageOf, Usage, Unrecorded, Pending, Jobs
    <3>2. unbilled' = unbilled - UsageOf(r)
      BY <2>2 DEF Stop
    <3> QED
      BY <1>2, <3>1, <3>2
  <2> QED
    BY <2>1, <2>2
<1>4. Today' = Today
  BY <1>1 DEF Today
<1> QED
  BY <1>1, <1>2, <1>3, <1>4, NoCallsPending DEF Changes

(* A call goes on. *)
LEMMA ChangesCall ==
  ASSUME RunsInv, UsageAccounted, NEW r \in Runs, NEW i \in Jobs(r),
         Ask(r, i) \/ Answer(r, i) \/ Invalid(r, i) \/ Limited(r, i) \/ Fails(r, i)
  PROVE  RunsInv' /\ \E d : Changes(r, d)
<1>1. unbilled \in Nat /\ Today \in Nat
  BY BillTyped, LoadTyped
<1>2. i \in Pending(call[r]) /\ UNCHANGED <<judged, wrote, run>>
  BY <1>1, CallStepOK
<1>3. PICK k : /\ CallOK(k) /\ k.pc # "done" /\ Set(r, i, k)
               /\ unbilled' = unbilled + (k.usage - call[r][i].usage)
  BY <1>1, CallStepOK
<1>4. RunsInv'
  BY <1>2, <1>3, MoveRuns
<1> DEFINE d == [call[r] EXCEPT ![i] = k]
<1>5. /\ call[r] \in Calls /\ Usage(call[r]) \in Nat /\ k \in Call
      /\ Cardinality(Pending(call[r])) \in Nat
  BY <1>3, RunFacts, CallsTyped DEF CallOK
<1>6. /\ d \in Calls /\ Pending(d) = Pending(call[r])
      /\ Usage(d) = Usage(call[r]) + (k.usage - call[r][i].usage)
  BY <1>2, <1>3, <1>5, CallMoves
<1>7. k.usage \in Nat /\ call[r][i].usage \in Nat
  <2>1. call[r][i] \in Call
    BY <1>2, <1>5, CallsTyped DEF Pending
  <2> QED
    BY <1>5, <2>1 DEF Call
<1>8. call' = [call EXCEPT ![r] = d] /\ Today' = Today
  BY <1>2, <1>3 DEF Set, RunsInv, Today
<1> HIDE DEF d
<1>9. Changes(r, d)
  BY <1>1, <1>3, <1>5, <1>6, <1>7, <1>8 DEF Changes
<1> QED
  BY <1>4, <1>9

(* A call is over: a row more and a call fewer, or only the call fewer. *)
LEMMA ChangesEnd ==
  ASSUME RunsInv, UsageAccounted, NEW r \in Runs, NEW i \in Jobs(r),
         Record(r, i) \/ SinkFails(r, i)
  PROVE  \E d : Changes(r, d)
<1> DEFINE s == run[r].session
           d == [call[r] EXCEPT ![i] = Done]
<1>1. unbilled \in Nat /\ Today \in Nat /\ judged \in [Sessions -> Nat]
  BY BillTyped, LoadTyped DEF RunsInv
<1>2. i \in Pending(call[r])
  BY DEF Record, SinkFails, Pending, Jobs
<1>3. /\ call[r] \in Calls /\ Usage(call[r]) \in Nat
      /\ Cardinality(Pending(call[r])) \in Nat
  BY RunFacts, CallsTyped
<1>4. /\ d \in Calls /\ Cardinality(Pending(d)) = Cardinality(Pending(call[r])) - 1
      /\ Usage(d) = Usage(call[r]) - call[r][i].usage
  BY <1>2, <1>3, CallMoves, DoneCall
<1>5. call[r][i].usage \in Nat
  <2>1. call[r][i] \in Call
    BY <1>2, <1>3, CallsTyped DEF Pending
  <2> QED
    BY <2>1 DEF Call
<1>6. call' = [call EXCEPT ![r] = d] /\ unbilled' = unbilled - call[r][i].usage
  BY DEF Set, RunsInv, Record, SinkFails
<1>7. Today' \in Nat /\ Today' <= Today + 1
  <2>1. CASE Record(r, i)
    <3>1. judged' = [judged EXCEPT ![s] = @ + 1]
      BY <2>1 DEF Record
    <3>2. s \in Sessions
      <4>1. DOMAIN NoCalls = {}
        BY DEF NoCalls
      <4> QED
        BY <1>2, <4>1, RunFacts DEF RunOK, Pending
    <3> DEFINE f == judged
               g == judged'
    <3>3. /\ f \in [Sessions -> Int] /\ g \in [Sessions -> Int] /\ g \in [Sessions -> Nat]
          /\ \A q \in Sessions \ {s} : g[q] = f[q]
          /\ g[s] - f[s] = 1
      BY <1>1, <3>1, <3>2
    <3> HIDE DEF f, g
    <3>4. SumFunction(g) = SumFunction(f) + (g[s] - f[s]) /\ SumFunction(g) \in Nat
      BY <3>2, <3>3, SumStep, SumOfNats
    <3>5. Today = SumFunction(f) /\ Today' = SumFunction(g)
      BY DEF f, g, Today
    <3> QED
      BY <1>1, <3>3, <3>4, <3>5
  <2>2. CASE SinkFails(r, i)
    <3>1. Today' = Today
      BY <2>2 DEF SinkFails, ledger, Today
    <3> QED
      BY <1>1, <3>1
  <2> QED
    BY <2>1, <2>2
<1> HIDE DEF d
<1>8. Changes(r, d)
  BY <1>1, <1>3, <1>4, <1>5, <1>6, <1>7 DEF Changes
<1> QED
  BY <1>8

(* Every step of a run keeps RunsInv and changes its calls as told. *)
LEMMA RunsStep ==
  ASSUME RunsInv, UsageAccounted, NEW r \in Runs, Begin(r) \/ RunStep(r) \/ Stop(r)
  PROVE  RunsInv' /\ \E d : Changes(r, d)
<1>1. CASE Begin(r)
  <2>1. UNCHANGED <<judged, unbilled, call>>
    BY <1>1 DEF Begin, ledger
  <2> QED
    BY <1>1, <2>1, BeginRuns, ChangesNothing
<1>2. CASE CountSession(r)
  <2>1. UNCHANGED <<judged, unbilled, call>>
    BY <1>2 DEF CountSession, ledger
  <2> QED
    BY <1>2, <2>1, CountRuns, ChangesNothing
<1>3. CASE Schedule(r)
  BY <1>3, ScheduleRuns, ChangesSchedule
<1>4. CASE FinishTask(r)
  BY <1>4, FinishRuns, ChangesDrop
<1>5. CASE Stop(r)
  BY <1>5, StopRuns, ChangesDrop
<1>6. ASSUME NEW i \in Jobs(r), CallStep(r, i)
      PROVE  RunsInv' /\ \E d : Changes(r, d)
  BY <1>6, ChangesCall, EndRuns, ChangesEnd DEF CallStep
<1> QED
  BY <1>1, <1>2, <1>3, <1>4, <1>5, <1>6 DEF RunStep

(* The day after a step. *)
LEMMA DayStep ==
  ASSUME RunsInv, RunsInv', DayInv, NEW r \in Runs, NEW d, Changes(r, d)
  PROVE  DayInv'
<1> DEFINE before == Cardinality(Pending(call[r]))
           after == Cardinality(Pending(d))
           sum == SumFunction(Load)
           sumNext == SumFunction(Load')
           next == Today'
<1>1. /\ Load' \in [Runs -> Nat] /\ Load'[r] = after
      /\ \A q \in Runs : Load'[q] <= MaxWanted
  BY LoadMoves DEF Changes
<1>2. sumNext \in Nat /\ sumNext = sum + (after - before)
  BY LoadMoves DEF Changes
<1>3. Today \in Nat /\ sum \in Nat /\ before \in Nat /\ after \in Nat
  BY LoadTyped, CallsTyped, RunFacts DEF Changes
<1>4. next \in Nat
  <2>1. (Today \in Nat)'
    BY LoadTyped, PTL
  <2> QED
    BY <2>1
<1>5. CASE next + after <= Today + before
  <2>1. next + sumNext <= Today + sum
    <3> HIDE DEF before, after, sum, sumNext, next
    <3> QED
      BY <1>2, <1>3, <1>4, <1>5
  <2> QED
    BY <2>1, DayKept
<1>6. CASE next + after <= GlobalCap
  <2> SUFFICES ASSUME NEW q \in Runs
               PROVE  next + sumNext <= GlobalCap + MaxWanted * Cardinality(Runs \ {q})
    BY DEF DayInv
  <2> DEFINE B == MaxWanted * Cardinality(Runs \ {q})
             f == Load'
  <2>1. B \in Nat /\ B = MaxWanted * Cardinality(Runs \ {r})
    BY LoadTyped, OtherRuns
  <2>2. f \in [Runs -> Nat] /\ \A p \in Runs : f[p] <= MaxWanted
    BY <1>1
  <2> HIDE DEF f
  <2>3. SumFunction(f) <= f[r] + MaxWanted * Cardinality(Runs \ {r})
    BY <2>2, SumOfNats
  <2>4. sumNext <= after + B
    BY <1>1, <2>1, <2>3 DEF f
  <2>5. next + sumNext <= GlobalCap + B
    <3> HIDE DEF before, after, sum, sumNext, next, B
    <3> QED
      BY <1>2, <1>3, <1>4, <1>6, <2>1, <2>4
  <2> QED
    BY <2>5
<1> QED
  BY <1>5, <1>6 DEF Changes

-------------------------------------------------------------------------------
(* The inductive invariant: the runs, the bill and the day. *)
JudgeInv == RunsInv /\ UsageAccounted /\ DayInv

LEMMA JudgeInit == Init => JudgeInv
<1> SUFFICES ASSUME Init PROVE JudgeInv
  OBVIOUS
<1>1. RunsInv
  BY RunsInit
<1>2. \A r \in Runs : call[r] = NoCalls
  BY DEF Init
<1>3. UsageAccounted
  <2>1. Bill = [r \in Runs |-> 0]
    BY <1>2, NoCallsPending DEF Bill
  <2>2. SumFunction([r \in Runs |-> 0]) = 0
    BY NoSum
  <2> QED
    BY <2>1, <2>2, BillIs DEF Init
<1>4. DayInv
  <2>1. Load = [r \in Runs |-> 0] /\ judged = [s \in Sessions |-> 0]
    BY <1>2, NoCallsPending DEF Load, Init
  <2>2. SumFunction(Load) = 0 /\ Today = 0
    BY <2>1, NoSum DEF Today
  <2> QED
    BY <1>1, <2>2, LoadTyped DEF DayInv
<1> QED
  BY <1>1, <1>3, <1>4 DEF JudgeInv

LEMMA JudgeStep == JudgeInv /\ [Next]_vars => JudgeInv'
<1> SUFFICES ASSUME JudgeInv, [Next]_vars PROVE JudgeInv'
  OBVIOUS
<1>0. RunsInv /\ UsageAccounted /\ DayInv
  BY DEF JudgeInv
<1>1. CASE UNCHANGED vars
  <2>1. RunsInv'
    BY <1>0, <1>1 DEF RunsInv, vars, ledger
  <2>2. UsageAccounted'
    BY <1>0, <1>1 DEF UsageAccounted, UsageOf, Unrecorded, Jobs, vars
  <2>3. DayInv'
    BY <1>0, <1>1 DEF DayInv, Today, Load, vars, ledger
  <2> QED
    BY <2>1, <2>2, <2>3 DEF JudgeInv
<1>2. ASSUME NEW r \in Runs, Begin(r) \/ RunStep(r) \/ Stop(r)
      PROVE  JudgeInv'
  <2>1. RunsInv'
    BY <1>0, <1>2, RunsStep
  <2>2. PICK d : Changes(r, d)
    BY <1>0, <1>2, RunsStep
  <2>3. UsageAccounted'
    BY <1>0, <2>2, BillMoves DEF Changes
  <2>4. DayInv'
    BY <1>0, <2>1, <2>2, DayStep
  <2> QED
    BY <2>1, <2>3, <2>4 DEF JudgeInv
<1> QED
  BY <1>1, <1>2 DEF Next

THEOREM JudgeInvariant == Spec => []JudgeInv
BY JudgeInit, JudgeStep, PTL DEF Spec

(* Every variable has its type, what is not billed yet among them: nothing *)
(* is ever billed that the service did not answer.                         *)
THEOREM JudgeTyped == Spec => []TypeOK
<1>1. JudgeInv => TypeOK
  <2> SUFFICES ASSUME JudgeInv PROVE TypeOK
    OBVIOUS
  <2>1. unbilled \in Nat
    BY BillTyped DEF JudgeInv
  <2>2. ASSUME NEW r \in Runs, NEW i \in Jobs(r) PROVE call[r][i] \in Call
    BY CallsTyped DEF JudgeInv, RunsInv, Jobs
  <2> QED
    BY <2>1, <2>2 DEF JudgeInv, RunsInv, TypeOK
<1> QED
  BY <1>1, JudgeInvariant, PTL

(* However runs interleave, none writes more rows than either budget        *)
(* allows, over all its tasks, and the rows of the day pass the global      *)
(* budget by no more than what all runs but one may have scheduled.         *)
THEOREM JudgeBudgets == Spec => []WithinBudgets
<1>1. JudgeInv => WithinBudgets
  <2> SUFFICES ASSUME JudgeInv PROVE WithinBudgets
    OBVIOUS
  <2>1. ASSUME NEW r \in Runs PROVE wrote[r] <= SessionCap /\ wrote[r] <= GlobalCap
    BY RunFacts DEF JudgeInv, RunOK
  <2>2. ASSUME NEW r \in Runs
        PROVE  Today <= GlobalCap + MaxWanted * Cardinality(Runs \ {r})
    <3> DEFINE B == MaxWanted * Cardinality(Runs \ {r})
    <3>1. B \in Nat /\ Today \in Nat /\ SumFunction(Load) \in Nat
      BY LoadTyped DEF JudgeInv
    <3>2. Today + SumFunction(Load) <= GlobalCap + B
      BY DEF JudgeInv, DayInv
    <3> HIDE DEF B
    <3>3. Today <= GlobalCap + B
      BY <3>1, <3>2
    <3> QED
      BY <3>3 DEF B
  <2> QED
    BY <2>1, <2>2 DEF WithinBudgets, RunWithinCaps, DayOvershoot
<1> QED
  BY <1>1, JudgeInvariant, PTL

(* What the service answered and no row accounts for is what the calls      *)
(* under way used: repeated attempts add up in the one row of their call.   *)
THEOREM JudgeBill == Spec => []UsageAccounted
<1>1. JudgeInv => UsageAccounted
  BY DEF JudgeInv
<1> QED
  BY <1>1, JudgeInvariant, PTL

(* The aggregate says cost_capped exactly if there was a reason for it, and *)
(* a row says ok only of a call that brought a verdict.                     *)
THEOREM JudgeReports == Spec => []ReportedAsHappened
<1>1. JudgeInv => ReportedAsHappened
  <2> SUFFICES ASSUME JudgeInv PROVE ReportedAsHappened
    OBVIOUS
  <2>1. CappedIsTold
    BY RunFacts DEF JudgeInv, RunOK, CappedIsTold
  <2>2. VerdictIsTold
    BY RunFacts DEF JudgeInv, RunOK, VerdictIsTold, CallOK, Jobs
  <2> QED
    BY <2>1, <2>2 DEF ReportedAsHappened
<1> QED
  BY <1>1, JudgeInvariant, PTL
===============================================================================
