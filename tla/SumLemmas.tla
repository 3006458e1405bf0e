------------------------------ MODULE SumLemmas ------------------------------
(***************************************************************************)
(* Facts about sums of natural numbers, for the proofs that count bytes.   *)
(* A sum is a recursive function over the subsets of its index set; each   *)
(* fact is proved by induction on the number of indices, and induction is  *)
(* stated of a set of numbers rather than of a predicate.                  *)
(***************************************************************************)
EXTENDS Integers, FiniteSets, Functions, FiniteSetTheorems, WellFoundedInduction, TLAPS

(* Every set of natural numbers that is not empty has a least element.     *)
LEMMA LeastNumber ==
  ASSUME NEW T, T \subseteq Nat, T # {}
  PROVE  \E x \in T : \A y \in T : x <= y
<1> DEFINE less == {ss \in Nat \X Nat : ss[1] < ss[2]}
<1>1. IsWellFoundedOn(less, Nat)
  BY NatLessThanWellFounded, Zenon DEF OpToRel
<1> HIDE DEF less
<1>2. PICK x \in T : \A y \in T : <<y, x>> \notin less
  BY <1>1, WFMin
<1>3. \A y \in T : ~(y < x)
  BY <1>2 DEF less
<1>4. \A y \in T : x <= y
  BY <1>3
<1>5. QED
  BY <1>4

(* A set of natural numbers that has 0 and with every number the next one  *)
(* has all of them.                                                        *)
LEMMA Induction ==
  ASSUME NEW T, 0 \in T, \A n \in Nat : n \in T => n + 1 \in T
  PROVE  Nat \subseteq T
<1> DEFINE Bad == Nat \ T
<1>1. CASE Bad # {}
  <2>1. PICK x \in Bad : \A y \in Bad : x <= y
    BY <1>1, LeastNumber
  <2>2. x \in Nat /\ x # 0 /\ x - 1 \in Nat /\ x - 1 \notin Bad
    BY <2>1
  <2>3. (x - 1) + 1 \in T
    BY <2>2
  <2>4. QED
    BY <2>1, <2>2, <2>3
<1>2. QED
  BY <1>1

-----------------------------------------------------------------------------
(* The equation of a sum                                                   *)

Pick(s) == CHOOSE x \in s : TRUE

(* The recursive function that SumFunctionOnSet evaluates at S.            *)
Iter(f, S) ==
  CHOOSE g : g = [s \in SUBSET S |-> IF s = {} THEN 0 ELSE f[Pick(s)] + g[s \ {Pick(s)}]]

(* SumFunctionOnSet evaluates that function.                               *)
LEMMA SumIter == ASSUME NEW f, NEW S PROVE SumFunctionOnSet(f, S) = Iter(f, S)[S]
  BY DEF SumFunctionOnSet, FoldFunctionOnSet, MapThenFoldSet, Iter, Pick

(* Removing the element that is picked.                                    *)
LEMMA Removed ==
  ASSUME NEW s, IsFiniteSet(s), s # {}, NEW x \in s
  PROVE  /\ Pick(s) \in s
         /\ IsFiniteSet(s \ {x}) /\ Cardinality(s) \in Nat /\ Cardinality(s \ {x}) \in Nat
         /\ Cardinality(s) = Cardinality(s \ {x}) + 1
<1>1. Pick(s) \in s
  BY DEF Pick
<1>2. IsFiniteSet(s \ {x}) /\ Cardinality(s \ {x}) = Cardinality(s) - 1
  BY FS_RemoveElement
<1>3. Cardinality(s) \in Nat /\ Cardinality(s \ {x}) \in Nat
  BY <1>2, FS_CardinalityType
<1>4. QED
  BY <1>1, <1>2, <1>3

(* The recursive definition has a solution.                                *)
LEMMA IterEquation ==
  ASSUME NEW f, NEW S, IsFiniteSet(S)
  PROVE  \A s \in SUBSET S :
           Iter(f, S)[s] = IF s = {} THEN 0 ELSE f[Pick(s)] + Iter(f, S)[s \ {Pick(s)}]
<1> DEFINE rhs(g, s) == IF s = {} THEN 0 ELSE f[Pick(s)] + g[s \ {Pick(s)}]
           upTo(n) == {s \in SUBSET S : Cardinality(s) <= n}
           Solved(n) == \E g : g = [s \in upTo(n) |-> rhs(g, s)]
           Good == {n \in Nat : Solved(n)}
<1>0. \A s \in SUBSET S : IsFiniteSet(s) /\ Cardinality(s) \in Nat /\ Cardinality(s) <= Cardinality(S)
  BY FS_Subset, FS_CardinalityType
<1>1. 0 \in Good
  <2> DEFINE g == [s \in upTo(0) |-> 0]
  <2>1. \A s \in upTo(0) : s = {}
    BY <1>0, FS_EmptySet
  <2>2. g = [s \in upTo(0) |-> rhs(g, s)]
    BY <2>1
  <2>3. QED
    BY <2>2
<1>2. ASSUME NEW n \in Nat, n \in Good PROVE n + 1 \in Good
  <2>1. PICK g : g = [s \in upTo(n) |-> rhs(g, s)]
    BY <1>2
  <2> DEFINE h == [s \in upTo(n + 1) |-> rhs(g, s)]
  <2>2. ASSUME NEW s \in upTo(n + 1), s # {} PROVE s \ {Pick(s)} \in upTo(n)
    <3>1. IsFiniteSet(s) /\ s \in SUBSET S /\ Cardinality(s) <= n + 1
      BY <1>0
    <3>2. Pick(s) \in s
      BY <2>2, <3>1, Removed
    <3>3. Cardinality(s) = Cardinality(s \ {Pick(s)}) + 1 /\ Cardinality(s \ {Pick(s)}) \in Nat
      BY <2>2, <3>1, <3>2, Removed
    <3>4. QED
      BY <3>1, <3>3
  <2>3. \A t \in upTo(n) : h[t] = g[t]
    <3>1. \A t \in upTo(n) : t \in upTo(n + 1)
      BY <1>0
    <3>2. QED
      BY <2>1, <3>1
  <2>4. \A s \in upTo(n + 1) : h[s] = rhs(h, s)
    <3> SUFFICES ASSUME NEW s \in upTo(n + 1) PROVE h[s] = rhs(h, s)
      OBVIOUS
    <3>1. CASE s = {}
      BY <3>1
    <3>2. CASE s # {}
      BY <3>2, <2>2, <2>3
    <3>3. QED
      BY <3>1, <3>2
  <2>5. h = [s \in upTo(n + 1) |-> rhs(h, s)]
    BY <2>4
  <2> HIDE DEF h
  <2>6. Solved(n + 1)
    BY <2>5
  <2> HIDE DEF Solved
  <2>7. QED
    BY <2>6
<1>3. Cardinality(S) \in Good
  <2> HIDE DEF Good
  <2>1. Nat \subseteq Good
    BY <1>1, <1>2, Induction
  <2>2. QED
    BY <2>1, <1>0
<1>4. upTo(Cardinality(S)) = SUBSET S
  BY <1>0
<1>5. \E g : g = [s \in SUBSET S |-> rhs(g, s)]
  BY <1>3, <1>4
<1>6. Iter(f, S) = [s \in SUBSET S |-> rhs(Iter(f, S), s)]
  BY <1>5 DEF Iter
<1> HIDE DEF upTo, Good
<1>7. QED
  BY <1>6

(* What the function gives for a set does not depend on the larger set it  *)
(* was defined for.                                                        *)
LEMMA IterLocal ==
  ASSUME NEW f
  PROVE  \A n \in Nat : \A S : IsFiniteSet(S) /\ Cardinality(S) = n =>
           \A U : IsFiniteSet(U) /\ S \subseteq U => Iter(f, U)[S] = Iter(f, S)[S]
<1> DEFINE Agrees(S) == \A U : IsFiniteSet(U) /\ S \subseteq U => Iter(f, U)[S] = Iter(f, S)[S]
           Below(n) == \A S : IsFiniteSet(S) /\ Cardinality(S) = n => Agrees(S)
           Good == {n \in Nat : Below(n)}
<1>1. Below(0)
  <2> SUFFICES ASSUME NEW S, IsFiniteSet(S), Cardinality(S) = 0 PROVE Agrees(S)
    OBVIOUS
  <2>1. S = {}
    BY FS_EmptySet
  <2>2. \A U : IsFiniteSet(U) => Iter(f, U)[{}] = 0
    BY IterEquation
  <2>3. QED
    BY <2>1, <2>2
<1>2. ASSUME NEW n \in Nat, Below(n) PROVE Below(n + 1)
  <2> SUFFICES ASSUME NEW S, IsFiniteSet(S), Cardinality(S) = n + 1,
                      NEW U, IsFiniteSet(U), S \subseteq U
               PROVE  Iter(f, U)[S] = Iter(f, S)[S]
    OBVIOUS
  <2> DEFINE R == S \ {Pick(S)}
  <2>1. S # {}
    BY FS_EmptySet
  <2>2. IsFiniteSet(R) /\ Cardinality(R) = n /\ R \subseteq S /\ R \subseteq U
    <3>1. Pick(S) \in S
      BY <2>1 DEF Pick
    <3>2. Cardinality(S) = Cardinality(R) + 1 /\ Cardinality(R) \in Nat /\ IsFiniteSet(R)
      BY <2>1, <3>1, Removed
    <3>3. QED
      BY <3>2
  <2>3. Agrees(R)
    BY <1>2, <2>2
  <2>4. Iter(f, U)[R] = Iter(f, S)[R]
    BY <2>2, <2>3
  <2>5. /\ Iter(f, U)[S] = f[Pick(S)] + Iter(f, U)[R]
        /\ Iter(f, S)[S] = f[Pick(S)] + Iter(f, S)[R]
    BY <2>1, IterEquation
  <2>6. QED
    BY <2>4, <2>5
<1> HIDE DEF Below
<1>3. 0 \in Good /\ \A n \in Nat : n \in Good => n + 1 \in Good
  BY <1>1, <1>2
<1> HIDE DEF Good
<1>4. Nat \subseteq Good
  BY <1>3, Induction
<1>5. QED
  BY <1>4 DEF Good, Below

(* A sum over a set that is not empty is that of one of its indices, the   *)
(* one that is picked, and of the others.                                  *)
LEMMA SumEquation ==
  ASSUME NEW f, NEW S, IsFiniteSet(S)
  PROVE  SumFunctionOnSet(f, S) =
           IF S = {} THEN 0 ELSE f[Pick(S)] + SumFunctionOnSet(f, S \ {Pick(S)})
<1>1. CASE S = {}
  BY <1>1, SumIter, IterEquation
<1>2. CASE S # {}
  <2> DEFINE R == S \ {Pick(S)}
  <2>1. IsFiniteSet(R) /\ Cardinality(R) \in Nat /\ R \subseteq S
    BY <1>2, FS_RemoveElement, FS_CardinalityType
  <2>2. Iter(f, S)[R] = Iter(f, R)[R]
    BY <2>1, IterLocal
  <2>3. Iter(f, S)[S] = f[Pick(S)] + Iter(f, S)[R]
    BY <1>2, IterEquation
  <2>4. QED
    BY <1>2, <2>2, <2>3, SumIter
<1>3. QED
  BY <1>1, <1>2

-----------------------------------------------------------------------------
(* Sums of natural numbers                                                 *)

(* A sum of natural numbers is one, and two functions that agree on the    *)
(* index set have the same sum.                                            *)
LEMMA SumTyped ==
  ASSUME NEW f, NEW g
  PROVE  \A n \in Nat : \A S :
           IsFiniteSet(S) /\ Cardinality(S) = n /\ (\A x \in S : f[x] \in Nat /\ f[x] = g[x]) =>
             /\ SumFunctionOnSet(f, S) \in Nat
             /\ SumFunctionOnSet(f, S) = SumFunctionOnSet(g, S)
<1> DEFINE Fits(S) == \A x \in S : f[x] \in Nat /\ f[x] = g[x]
           Fine(S) == /\ SumFunctionOnSet(f, S) \in Nat
                      /\ SumFunctionOnSet(f, S) = SumFunctionOnSet(g, S)
           Below(n) == \A S : IsFiniteSet(S) /\ Cardinality(S) = n /\ Fits(S) => Fine(S)
           Good == {n \in Nat : Below(n)}
<1>1. Below(0)
  <2> SUFFICES ASSUME NEW S, IsFiniteSet(S), Cardinality(S) = 0 PROVE Fine(S)
    OBVIOUS
  <2>1. S = {}
    BY FS_EmptySet
  <2>2. SumFunctionOnSet(f, S) = 0 /\ SumFunctionOnSet(g, S) = 0
    BY <2>1, SumEquation
  <2>3. QED
    BY <2>2
<1>2. ASSUME NEW n \in Nat, Below(n) PROVE Below(n + 1)
  <2> SUFFICES ASSUME NEW S, IsFiniteSet(S), Cardinality(S) = n + 1, Fits(S) PROVE Fine(S)
    OBVIOUS
  <2> DEFINE x == Pick(S)
             R == S \ {x}
  <2>1. S # {}
    BY FS_EmptySet
  <2>2. x \in S
    BY <2>1 DEF Pick
  <2>3. IsFiniteSet(R) /\ Cardinality(R) = n /\ Fits(R)
    <3>1. Cardinality(S) = Cardinality(R) + 1 /\ Cardinality(R) \in Nat /\ IsFiniteSet(R)
      BY <2>1, <2>2, Removed
    <3>2. QED
      BY <3>1
  <2>4. Fine(R)
    BY <1>2, <2>3
  <2>5. /\ SumFunctionOnSet(f, S) = f[x] + SumFunctionOnSet(f, R)
        /\ SumFunctionOnSet(g, S) = g[x] + SumFunctionOnSet(g, R)
    BY <2>1, SumEquation
  <2>6. f[x] \in Nat /\ f[x] = g[x]
    BY <2>2
  <2> HIDE DEF x, R
  <2>7. QED
    BY <2>4, <2>5, <2>6
<1> HIDE DEF Below
<1>3. 0 \in Good /\ \A n \in Nat : n \in Good => n + 1 \in Good
  BY <1>1, <1>2
<1> HIDE DEF Good
<1>4. Nat \subseteq Good
  BY <1>3, Induction
<1>5. QED
  BY <1>4 DEF Good, Below

(* The same, of sets of any size: a sum of natural numbers is one, ...     *)
LEMMA SumType ==
  ASSUME NEW f, NEW S, IsFiniteSet(S), \A x \in S : f[x] \in Nat
  PROVE  SumFunctionOnSet(f, S) \in Nat
  BY SumTyped, FS_CardinalityType

(* ... and depends on the values at its indices only.                      *)
LEMMA SumCongruence ==
  ASSUME NEW f, NEW g, NEW S, IsFiniteSet(S), \A x \in S : f[x] \in Nat /\ f[x] = g[x]
  PROVE  SumFunctionOnSet(f, S) = SumFunctionOnSet(g, S)
  BY SumTyped, FS_CardinalityType

(* Any index can be taken out of a sum, not only the one that is picked.   *)
LEMMA SumRemoveAny ==
  ASSUME NEW f
  PROVE  \A n \in Nat : \A S :
           IsFiniteSet(S) /\ Cardinality(S) = n /\ (\A x \in S : f[x] \in Nat) =>
             \A x \in S : SumFunctionOnSet(f, S) = f[x] + SumFunctionOnSet(f, S \ {x})
<1> DEFINE Fine(S) == \A x \in S : SumFunctionOnSet(f, S) = f[x] + SumFunctionOnSet(f, S \ {x})
           Below(n) == \A S : IsFiniteSet(S) /\ Cardinality(S) = n /\ (\A x \in S : f[x] \in Nat)
                                => Fine(S)
           Good == {n \in Nat : Below(n)}
<1>1. Below(0)
  BY FS_EmptySet
<1>2. ASSUME NEW n \in Nat, Below(n) PROVE Below(n + 1)
  <2> SUFFICES ASSUME NEW S, IsFiniteSet(S), Cardinality(S) = n + 1, \A x \in S : f[x] \in Nat,
                      NEW x \in S
               PROVE  SumFunctionOnSet(f, S) = f[x] + SumFunctionOnSet(f, S \ {x})
    OBVIOUS
  <2> DEFINE y == Pick(S)
  <2>1. y \in S
    BY DEF Pick
  <2>2. SumFunctionOnSet(f, S) = f[y] + SumFunctionOnSet(f, S \ {y})
    BY SumEquation
  <2>3. CASE x = y
    BY <2>2, <2>3
  <2> HIDE DEF y
  <2>4. CASE x # y
    <3>1. ASSUME NEW z \in S PROVE IsFiniteSet(S \ {z}) /\ Cardinality(S \ {z}) = n
      <4>1. IsFiniteSet(S \ {z}) /\ Cardinality(S \ {z}) = Cardinality(S) - 1
        BY FS_RemoveElement
      <4>2. QED
        BY <4>1
    <3>2. Fine(S \ {y}) /\ Fine(S \ {x})
      BY <1>2, <2>1, <3>1
    <3>3. SumFunctionOnSet(f, S \ {y}) = f[x] + SumFunctionOnSet(f, (S \ {y}) \ {x})
      BY <2>4, <3>2
    <3>4. SumFunctionOnSet(f, S \ {x}) = f[y] + SumFunctionOnSet(f, (S \ {x}) \ {y})
      BY <2>1, <2>4, <3>2
    <3>5. (S \ {y}) \ {x} = (S \ {x}) \ {y}
      OBVIOUS
    <3> DEFINE rest == SumFunctionOnSet(f, (S \ {x}) \ {y})
    <3>6. IsFiniteSet((S \ {x}) \ {y}) /\ \A z \in (S \ {x}) \ {y} : f[z] \in Nat
      BY <3>1, FS_RemoveElement
    <3>7. rest \in Nat
      BY <3>6, SumType
    <3>8. f[x] \in Nat /\ f[y] \in Nat
      BY <2>1
    <3>9. f[y] + (f[x] + rest) = f[x] + (f[y] + rest)
      BY <3>7, <3>8
    <3>10. QED
      BY <2>2, <3>3, <3>4, <3>5, <3>9
  <2>5. QED
    BY <2>3, <2>4
<1> HIDE DEF Below
<1>3. 0 \in Good /\ \A n \in Nat : n \in Good => n + 1 \in Good
  BY <1>1, <1>2
<1> HIDE DEF Good
<1>4. Nat \subseteq Good
  BY <1>3, Induction
<1>5. QED
  BY <1>4 DEF Good, Below

(* The sum over a set is that of one index and of the others.              *)
LEMMA SumRemove ==
  ASSUME NEW f, NEW S, IsFiniteSet(S), \A x \in S : f[x] \in Nat, NEW x \in S
  PROVE  SumFunctionOnSet(f, S) = f[x] + SumFunctionOnSet(f, S \ {x})
  BY SumRemoveAny, FS_CardinalityType

(* Numbers that are at most c have a sum of at most c for each index.      *)
LEMMA SumBound ==
  ASSUME NEW f, NEW c \in Nat
  PROVE  \A n \in Nat : \A S :
           IsFiniteSet(S) /\ Cardinality(S) = n /\ (\A x \in S : f[x] \in 0 .. c) =>
             SumFunctionOnSet(f, S) <= n * c
<1> DEFINE Below(n) == \A S : IsFiniteSet(S) /\ Cardinality(S) = n /\ (\A x \in S : f[x] \in 0 .. c)
                                => SumFunctionOnSet(f, S) <= n * c
           Good == {n \in Nat : Below(n)}
<1>1. Below(0)
  <2> SUFFICES ASSUME NEW S, IsFiniteSet(S), Cardinality(S) = 0
               PROVE  SumFunctionOnSet(f, S) <= 0 * c
    OBVIOUS
  <2>1. SumFunctionOnSet(f, S) = 0
    BY FS_EmptySet, SumEquation
  <2>2. QED
    BY <2>1
<1>2. ASSUME NEW n \in Nat, Below(n) PROVE Below(n + 1)
  <2> SUFFICES ASSUME NEW S, IsFiniteSet(S), Cardinality(S) = n + 1, \A x \in S : f[x] \in 0 .. c
               PROVE  SumFunctionOnSet(f, S) <= (n + 1) * c
    OBVIOUS
  <2>1. PICK x \in S : TRUE
    BY FS_EmptySet
  <2> DEFINE R == S \ {x}
  <2>2. IsFiniteSet(R) /\ Cardinality(R) = n
    BY <2>1, FS_RemoveElement
  <2>3. SumFunctionOnSet(f, R) <= n * c
    BY <1>2, <2>2
  <2>4. SumFunctionOnSet(f, S) = f[x] + SumFunctionOnSet(f, R)
    BY <2>1, SumRemove
  <2>5. SumFunctionOnSet(f, R) \in Nat /\ f[x] \in 0 .. c
    BY <2>2, SumType
  <2>6. (n + 1) * c = n * c + c /\ n * c \in Nat
    OBVIOUS
  <2>7. QED
    BY <2>3, <2>4, <2>5, <2>6
<1> HIDE DEF Below
<1>3. 0 \in Good /\ \A n \in Nat : n \in Good => n + 1 \in Good
  BY <1>1, <1>2
<1> HIDE DEF Good
<1>4. Nat \subseteq Good
  BY <1>3, Induction
<1>5. QED
  BY <1>4 DEF Good, Below
=============================================================================
