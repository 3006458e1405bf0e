---------------------------- MODULE FormatsProofs ----------------------------
(***************************************************************************)
(* Theorems about the readers, for texts of any length and values nested   *)
(* however deep: what is written is read back.  tlapm knows a recursive    *)
(* function only as the CHOOSE of a solution of its equation; so each of   *)
(* them is first shown to have one (Contracts, RankSolve), because its     *)
(* right hand side asks only for arguments of lower rank.                  *)
(***************************************************************************)
EXTENDS Readers, SumLemmas, SequenceTheorems

-----------------------------------------------------------------------------
(* Recursive definitions                                                   *)

(* A set of natural numbers that has n whenever it has all smaller ones    *)
(* has all of them.                                                        *)
LEMMA StrongInduction ==
  ASSUME NEW T, \A n \in Nat : (\A m \in Nat : m < n => m \in T) => n \in T
  PROVE  Nat \subseteq T
<1> DEFINE Bad == Nat \ T
<1>1. CASE Bad # {}
  <2>1. PICK x \in Bad : \A y \in Bad : x <= y
    BY <1>1, LeastNumber
  <2>2. \A m \in Nat : m < x => m \in T
    BY <2>1
  <2> QED
    BY <2>1, <2>2
<1> QED
  BY <1>1

(* F gives for a function what the right hand side of a recursive          *)
(* definition makes of it: at x this depends only on what the function is  *)
(* where the rank is lower.                                                *)
Contracts(D, V, rk, F) ==
    /\ rk \in [D -> Nat] /\ F \in [[D -> V] -> [D -> V]] /\ [D -> V] # {}
    /\ \A g, h \in [D -> V] : \A x \in D :
          (\A y \in D : rk[y] < rk[x] => g[y] = h[y]) => F[g][x] = F[h][x]

(* Such a definition has a solution.                                       *)
LEMMA RankSolve ==
  ASSUME NEW D, NEW V, NEW rk, NEW F, Contracts(D, V, rk, F)
  PROVE  \E f \in [D -> V] : f = F[f]
<1>0. rk \in [D -> Nat] /\ F \in [[D -> V] -> [D -> V]]
  BY DEF Contracts
<1> DEFINE Solves(g, n) == \A x \in D : rk[x] < n => g[x] = F[g][x]
           Good == {n \in Nat : \E g \in [D -> V] : Solves(g, n)}
<1>1. 0 \in Good
  <2>1. PICK g \in [D -> V] : TRUE
    BY DEF Contracts
  <2>2. Solves(g, 0)
    BY <1>0
  <2> QED
    BY <2>2
<1>2. ASSUME NEW n \in Nat, n \in Good PROVE n + 1 \in Good
  <2>1. PICK g \in [D -> V] : Solves(g, n)
    BY <1>2
  <2> DEFINE h == F[g]
  <2>2. h \in [D -> V]
    BY <1>0
  <2>3. ASSUME NEW x \in D, rk[x] < n + 1 PROVE h[x] = F[h][x]
    <3>1. ASSUME NEW y \in D, rk[y] < rk[x] PROVE g[y] = h[y]
      <4>1. rk[y] \in Nat /\ rk[x] \in Nat
        BY <1>0
      <4>2. rk[y] < n
        BY <2>3, <3>1, <4>1
      <4> QED
        BY <2>1, <4>2
    <3> HIDE DEF h
    <3>2. F[g][x] = F[h][x]
      BY <2>2, <3>1 DEF Contracts
    <3> QED
      BY <3>2 DEF h
  <2> HIDE DEF h
  <2>4. Solves(h, n + 1)
    BY <2>3
  <2> HIDE DEF Solves
  <2> QED
    BY <2>2, <2>4
<1>3. Nat \subseteq Good
  <2> HIDE DEF Good
  <2> QED
    BY <1>1, <1>2, Induction
<1> HIDE DEF Solves
<1>4. ASSUME NEW g \in [D -> V], NEW h \in [D -> V], NEW n \in Nat, NEW m \in Nat,
             Solves(g, n), Solves(h, m)
      PROVE  \A x \in D : rk[x] < n /\ rk[x] < m => g[x] = h[x]
  <2> DEFINE Same == {k \in Nat : \A x \in D : rk[x] = k /\ rk[x] < n /\ rk[x] < m => g[x] = h[x]}
  <2>1. ASSUME NEW k \in Nat, \A j \in Nat : j < k => j \in Same PROVE k \in Same
    <3> SUFFICES ASSUME NEW x \in D, rk[x] = k, rk[x] < n, rk[x] < m PROVE g[x] = h[x]
      OBVIOUS
    <3>1. \A y \in D : rk[y] < rk[x] => g[y] = h[y]
      <4> SUFFICES ASSUME NEW y \in D, rk[y] < rk[x] PROVE g[y] = h[y]
        OBVIOUS
      <4>1. rk[y] \in Nat /\ rk[y] < k /\ rk[y] < n /\ rk[y] < m
        BY <1>0
      <4> QED
        BY <2>1, <4>1
    <3>2. F[g][x] = F[h][x]
      BY <3>1 DEF Contracts
    <3>3. g[x] = F[g][x] /\ h[x] = F[h][x]
      BY <1>4 DEF Solves
    <3> QED
      BY <3>2, <3>3
  <2> HIDE DEF Same
  <2>2. Nat \subseteq Same
    BY <2>1, StrongInduction
  <2> QED
    BY <1>0, <2>2 DEF Same
<1> DEFINE sol(n) == CHOOSE g \in [D -> V] : Solves(g, n)
           f == [x \in D |-> sol(rk[x] + 1)[x]]
<1>5. \A n \in Nat : sol(n) \in [D -> V] /\ Solves(sol(n), n)
  BY <1>3
<1> HIDE DEF sol
<1>6. f \in [D -> V]
  <2> SUFFICES ASSUME NEW x \in D PROVE sol(rk[x] + 1)[x] \in V
    OBVIOUS
  <2>1. rk[x] + 1 \in Nat
    BY <1>0
  <2>2. sol(rk[x] + 1) \in [D -> V]
    BY <1>5, <2>1
  <2> QED
    BY <2>2
<1>7. ASSUME NEW x \in D PROVE f[x] = F[f][x]
  <2> DEFINE n == rk[x] + 1
  <2>1. rk[x] \in Nat /\ n \in Nat /\ rk[x] < n
    BY <1>0
  <2>2. sol(n) \in [D -> V] /\ Solves(sol(n), n)
    BY <1>5, <2>1
  <2>3. \A y \in D : rk[y] < rk[x] => f[y] = sol(n)[y]
    <3> SUFFICES ASSUME NEW y \in D, rk[y] < rk[x] PROVE f[y] = sol(n)[y]
      OBVIOUS
    <3>1. rk[y] \in Nat /\ rk[y] + 1 \in Nat /\ rk[y] < rk[y] + 1 /\ rk[y] < n
      BY <1>0
    <3>2. sol(rk[y] + 1) \in [D -> V] /\ Solves(sol(rk[y] + 1), rk[y] + 1)
      BY <1>5, <3>1
    <3> DEFINE g == sol(rk[y] + 1)
               h == sol(n)
               l == rk[y] + 1
    <3>3. sol(rk[y] + 1)[y] = sol(n)[y]
      <4>1. g \in [D -> V] /\ h \in [D -> V] /\ l \in Nat /\ Solves(g, l) /\ Solves(h, n)
        BY <2>1, <2>2, <3>1, <3>2
      <4>2. rk[y] < l
        BY <3>1
      <4> HIDE DEF g, h, l, n
      <4>3. \A z \in D : rk[z] < l /\ rk[z] < n => g[z] = h[z]
        BY <1>4, <2>1, <4>1
      <4>4. g[y] = h[y]
        BY <3>1, <4>2, <4>3
      <4> QED
        BY <4>4 DEF g, h
    <3> QED
      BY <3>3
  <2>4. f[x] = sol(n)[x]
    OBVIOUS
  <2>5. sol(n)[x] = F[sol(n)][x]
    BY <2>1, <2>2 DEF Solves
  <2> HIDE DEF f, n
  <2>6. F[f][x] = F[sol(n)][x]
    BY <1>6, <2>2, <2>3 DEF Contracts
  <2> QED
    BY <2>4, <2>5, <2>6
<1> HIDE DEF f
<1>8. f = F[f]
  <2>1. F[f] \in [D -> V]
    BY <1>0, <1>6
  <2> QED
    BY <1>6, <1>7, <2>1
<1> QED
  BY <1>6, <1>8

(* The function by which FlattenSeq is defined.                            *)
Flat(ss) == CHOOSE f : f = [i \in 1 .. Len(ss) |-> IF i = 1 THEN ss[i] ELSE f[i - 1] \o ss[i]]

(* FlattenSeq is what the last of its parts is, each of which is the one   *)
(* before it and the next sequence.                                        *)
LEMMA FlattenParts ==
  ASSUME NEW S, NEW ss \in Seq(Seq(S))
  PROVE  \E flat \in [0 .. Len(ss) -> Seq(S)] :
           /\ flat[0] = <<>>
           /\ \A k \in 1 .. Len(ss) : flat[k] = flat[k - 1] \o ss[k]
           /\ FlattenSeq(ss) = flat[Len(ss)]
<1> DEFINE n == Len(ss)
           D == 1 .. n
<1>0. n \in Nat /\ (\A i \in D : ss[i] \in Seq(S)) /\ <<>> \in Seq(S)
  BY LenProperties, ElementOfSeq, EmptySeq
<1>1. FlattenSeq(ss) = IF n = 0 THEN ss ELSE Flat(ss)[n]
  BY DEF FlattenSeq, Flat
<1>2. CASE n = 0
  <2>1. ss = <<>>
    BY <1>2, EmptySeq
  <2> DEFINE flat == [k \in 0 .. n |-> <<>>]
  <2>2. flat \in [0 .. n -> Seq(S)] /\ flat[0] = <<>> /\ flat[n] = <<>>
    BY <1>0
  <2>3. \A k \in 1 .. n : flat[k] = flat[k - 1] \o ss[k]
    BY <1>2
  <2> HIDE DEF flat
  <2> QED
    BY <1>1, <1>2, <2>1, <2>2, <2>3
<1>3. CASE n # 0
  <2> DEFINE V == Seq(S)
             rhs(g) == [i \in D |-> IF i = 1 THEN ss[i] ELSE g[i - 1] \o ss[i]]
             F == [g \in [D -> V] |-> rhs(g)]
             rk == [i \in D |-> i]
  <2>1. ASSUME NEW g \in [D -> V] PROVE rhs(g) \in [D -> V]
    <3> SUFFICES ASSUME NEW i \in D PROVE (IF i = 1 THEN ss[i] ELSE g[i - 1] \o ss[i]) \in V
      OBVIOUS
    <3>1. CASE i = 1
      BY <1>0, <3>1
    <3>2. CASE i # 1
      <4>1. i - 1 \in D
        BY <1>0, <3>2
      <4>2. g[i - 1] \in Seq(S) /\ ss[i] \in Seq(S)
        BY <1>0, <4>1
      <4> QED
        BY <3>2, <4>2, ConcatProperties
    <3> QED
      BY <3>1, <3>2
  <2>2. F \in [[D -> V] -> [D -> V]] /\ rk \in [D -> Nat]
    <3>1. rk \in [D -> Nat]
      OBVIOUS
    <3> HIDE DEF rhs, V, D, rk
    <3>2. F \in [[D -> V] -> [D -> V]]
      BY <2>1
    <3> QED
      BY <3>1, <3>2
  <2>3. [D -> V] # {}
    <3>1. [i \in D |-> <<>>] \in [D -> V]
      BY <1>0
    <3> QED
      BY <3>1
  <2>4. ASSUME NEW g \in [D -> V], NEW h \in [D -> V], NEW x \in D,
               \A y \in D : rk[y] < rk[x] => g[y] = h[y]
        PROVE  F[g][x] = F[h][x]
    <3>1. CASE x = 1
      BY <3>1
    <3>2. CASE x # 1
      <4>1. x - 1 \in D /\ x - 1 < x
        BY <1>0, <3>2
      <4>2. g[x - 1] = h[x - 1]
        BY <2>4, <4>1
      <4> QED
        BY <4>2
    <3> QED
      BY <3>1, <3>2
  <2>5. \E f \in [D -> V] : f = F[f]
    <3>1. Contracts(D, V, rk, F)
      <4>1. \A g, h \in [D -> V] : \A x \in D :
               (\A y \in D : rk[y] < rk[x] => g[y] = h[y]) => F[g][x] = F[h][x]
        BY <2>4
      <4> HIDE DEF F, rk, V, D, rhs, n
      <4> QED
        BY <2>2, <2>3, <4>1 DEF Contracts
    <3> HIDE DEF F, rk, V, D, rhs, n
    <3> QED
      BY <3>1, RankSolve
  <2>6. \E f : f = rhs(f)
    BY <2>5
  <2> DEFINE f == Flat(ss)
  <2>7. f = rhs(f)
    BY <2>6 DEF Flat
  <2> HIDE DEF f
  <2> DEFINE T == {k \in Nat : k \in D => f[k] \in V}
  <2>8. 0 \in T
    OBVIOUS
  <2>9. ASSUME NEW k \in Nat, k \in T PROVE k + 1 \in T
    <3> SUFFICES ASSUME k + 1 \in D PROVE f[k + 1] \in V
      OBVIOUS
    <3>1. CASE k = 0
      BY <1>0, <2>7, <3>1
    <3>2. CASE k # 0
      <4>1. k \in D /\ (k + 1) - 1 = k /\ k + 1 # 1
        BY <1>0, <3>2
      <4>2. f[k + 1] = f[k] \o ss[k + 1]
        BY <2>7, <4>1
      <4>3. f[k] \in Seq(S) /\ ss[k + 1] \in Seq(S)
        BY <1>0, <2>9, <4>1
      <4> QED
        BY <4>2, <4>3, ConcatProperties
    <3> QED
      BY <3>1, <3>2
  <2>10. \A k \in D : f[k] \in V
    <3> HIDE DEF T
    <3>1. Nat \subseteq T
      BY <2>8, <2>9, Induction
    <3> QED
      BY <3>1 DEF T
  <2> DEFINE flat == [k \in 0 .. n |-> IF k = 0 THEN <<>> ELSE f[k]]
  <2>11. flat \in [0 .. n -> Seq(S)] /\ flat[0] = <<>> /\ flat[n] = f[n]
    BY <1>0, <1>3, <2>10
  <2>12. \A k \in 1 .. n : flat[k] = flat[k - 1] \o ss[k]
    <3> SUFFICES ASSUME NEW k \in 1 .. n PROVE flat[k] = flat[k - 1] \o ss[k]
      OBVIOUS
    <3>1. k - 1 \in 0 .. n /\ k \in 0 .. n /\ k # 0
      BY <1>0
    <3>2. CASE k = 1
      <4>1. flat[k] = ss[1] /\ flat[k - 1] = <<>>
        BY <1>0, <2>7, <3>1, <3>2
      <4> HIDE DEF flat
      <4>2. <<>> \o ss[1] = ss[1]
        BY <1>0, <3>2, ConcatEmptySeq
      <4> QED
        BY <3>2, <4>1, <4>2
    <3>3. CASE k # 1
      <4>1. f[k] = f[k - 1] \o ss[k]
        BY <1>0, <2>7, <3>1, <3>3
      <4>2. k - 1 # 0
        BY <1>0, <3>3
      <4>3. flat[k] = f[k] /\ flat[k - 1] = f[k - 1]
        BY <3>1, <4>2
      <4> QED
        BY <4>1, <4>3
    <3> QED
      BY <3>2, <3>3
  <2> HIDE DEF flat, f
  <2> QED
    BY <1>1, <1>3, <2>11, <2>12 DEF f
<1> QED
  BY <1>2, <1>3

-----------------------------------------------------------------------------
(* Numbers and their digits                                                *)

(* The function by which NumberOf is defined.                              *)
Number(ds) ==
    CHOOSE f : f = [k \in 0 .. Len(ds) |->
                      IF k = 0 THEN 0 ELSE 10 * f[k - 1] + (ds[k] - Zero)]

(* NumberOf is what the last of its parts is: ten times the one before it  *)
(* and the next digit.                                                     *)
LEMMA NumberParts ==
  ASSUME NEW ds \in Text
  PROVE  \E up \in [0 .. Len(ds) -> Int] :
           /\ up[0] = 0
           /\ \A k \in 1 .. Len(ds) : up[k] = 10 * up[k - 1] + (ds[k] - Zero)
           /\ NumberOf(ds) = up[Len(ds)]
<1> DEFINE n == Len(ds)
           D == 0 .. n
           rhs(g) == [k \in D |-> IF k = 0 THEN 0 ELSE 10 * g[k - 1] + (ds[k] - Zero)]
           F == [g \in [D -> Int] |-> rhs(g)]
           rk == [k \in D |-> k]
<1>0. n \in Nat /\ (\A k \in 1 .. n : ds[k] - Zero \in Int)
  <2>1. n \in Nat
    BY LenProperties DEF Text
  <2>2. \A k \in 1 .. n : ds[k] \in Char
    BY ElementOfSeq DEF Text
  <2> HIDE DEF n
  <2>3. \A c \in Char : c - Zero \in Int
    BY DEF Char, Zero
  <2> QED
    BY <2>1, <2>2, <2>3
<1>1. NumberOf(ds) = Number(ds)[n]
  BY DEF NumberOf, Number
<1>2. ASSUME NEW g \in [D -> Int] PROVE rhs(g) \in [D -> Int]
  <2> SUFFICES ASSUME NEW k \in D, k # 0 PROVE 10 * g[k - 1] + (ds[k] - Zero) \in Int
    OBVIOUS
  <2>1. k - 1 \in D /\ ds[k] - Zero \in Int
    BY <1>0
  <2>2. g[k - 1] \in Int
    BY <2>1
  <2> DEFINE a == g[k - 1]
             b == ds[k] - Zero
  <2>3. a \in Int /\ b \in Int
    BY <2>1, <2>2
  <2> HIDE DEF a, b
  <2>4. 10 * a + b \in Int
    BY <2>3
  <2> QED
    BY <2>4 DEF a, b
<1>3. Contracts(D, Int, rk, F)
  <2>1. rk \in [D -> Nat]
    BY <1>0
  <2>2. ASSUME NEW g \in [D -> Int], NEW h \in [D -> Int], NEW x \in D,
               \A y \in D : rk[y] < rk[x] => g[y] = h[y]
        PROVE  F[g][x] = F[h][x]
    <3>1. CASE x = 0
      BY <3>1
    <3>2. CASE x # 0
      <4>1. x - 1 \in D /\ x - 1 < x
        BY <1>0, <3>2
      <4>2. g[x - 1] = h[x - 1]
        BY <2>2, <4>1
      <4> QED
        BY <4>2
    <3> QED
      BY <3>1, <3>2
  <2>3. [k \in D |-> 0] \in [D -> Int]
    OBVIOUS
  <2>4. \A g, h \in [D -> Int] : \A x \in D :
           (\A y \in D : rk[y] < rk[x] => g[y] = h[y]) => F[g][x] = F[h][x]
    BY <2>2
  <2> HIDE DEF rhs, D, rk
  <2>5. F \in [[D -> Int] -> [D -> Int]]
    BY <1>2
  <2> HIDE DEF F
  <2> QED
    BY <2>1, <2>3, <2>4, <2>5 DEF Contracts
<1>4. \E f : f = rhs(f)
  <2>1. \E f \in [D -> Int] : f = F[f]
    <3> HIDE DEF D, rk, F
    <3> QED
      BY <1>3, RankSolve
  <2> QED
    BY <2>1
<1> DEFINE up == Number(ds)
<1>5. up = rhs(up)
  BY <1>4 DEF Number
<1> HIDE DEF up
<1>6. up[0] = 0 /\ \A k \in 1 .. n : up[k] = 10 * up[k - 1] + (ds[k] - Zero)
  BY <1>0, <1>5
<1> DEFINE T == {k \in Nat : k \in D => up[k] \in Int}
<1>7. 0 \in T
  BY <1>6
<1>8. ASSUME NEW k \in Nat, k \in T PROVE k + 1 \in T
  <2> SUFFICES ASSUME k + 1 \in D PROVE up[k + 1] \in Int
    OBVIOUS
  <2>1. k \in D /\ k + 1 \in 1 .. n /\ (k + 1) - 1 = k
    BY <1>0
  <2>2. up[k + 1] = 10 * up[k] + (ds[k + 1] - Zero) /\ ds[k + 1] - Zero \in Int
    BY <1>0, <1>6, <2>1
  <2>3. up[k] \in Int
    BY <1>8, <2>1
  <2> QED
    BY <2>2, <2>3
<1>9. \A k \in D : up[k] \in Int
  <2> HIDE DEF T
  <2>1. Nat \subseteq T
    BY <1>7, <1>8, Induction
  <2> QED
    BY <1>0, <2>1 DEF T
<1>10. up \in [D -> Int]
  BY <1>5, <1>9
<1> HIDE DEF rhs
<1> QED
  BY <1>1, <1>6, <1>10 DEF up

(* The number of no digits is 0, and one more digit makes it ten times as  *)
(* much and the digit.                                                     *)
LEMMA NumberAppend ==
  /\ NumberOf(<<>>) = 0
  /\ \A ds \in Text, c \in Char : NumberOf(Append(ds, c)) = 10 * NumberOf(ds) + (c - Zero)
<1>1. NumberOf(<<>>) = 0
  <2>1. <<>> \in Text /\ Len(<<>>) = 0
    BY EmptySeq DEF Text
  <2> QED
    BY <2>1, NumberParts
<1>2. ASSUME NEW ds \in Text, NEW c \in Char
      PROVE  NumberOf(Append(ds, c)) = 10 * NumberOf(ds) + (c - Zero)
  <2> DEFINE es == Append(ds, c)
             n == Len(ds)
  <2>1. /\ n \in Nat /\ es \in Text /\ Len(es) = n + 1
        /\ (\A k \in 1 .. n : es[k] = ds[k]) /\ es[n + 1] = c
    BY AppendProperties, LenProperties DEF Text
  <2> HIDE DEF es
  <2>2. PICK up \in [0 .. n -> Int] :
           /\ up[0] = 0
           /\ \A k \in 1 .. n : up[k] = 10 * up[k - 1] + (ds[k] - Zero)
           /\ NumberOf(ds) = up[n]
    BY NumberParts
  <2>3. PICK vp \in [0 .. n + 1 -> Int] :
           /\ vp[0] = 0
           /\ \A k \in 1 .. n + 1 : vp[k] = 10 * vp[k - 1] + (es[k] - Zero)
           /\ NumberOf(es) = vp[n + 1]
    <3>1. \E vp \in [0 .. Len(es) -> Int] :
           /\ vp[0] = 0
           /\ \A k \in 1 .. Len(es) : vp[k] = 10 * vp[k - 1] + (es[k] - Zero)
           /\ NumberOf(es) = vp[Len(es)]
      BY <2>1, NumberParts
    <3> QED
      BY <2>1, <3>1
  <2> HIDE DEF n
  <2> DEFINE T == {k \in Nat : k <= n => up[k] = vp[k]}
  <2>4. 0 \in T
    BY <2>2, <2>3
  <2>5. ASSUME NEW k \in Nat, k \in T PROVE k + 1 \in T
    <3> SUFFICES ASSUME k + 1 <= n PROVE up[k + 1] = vp[k + 1]
      OBVIOUS
    <3>1. k + 1 \in 1 .. n /\ k + 1 \in 1 .. n + 1 /\ (k + 1) - 1 = k /\ k <= n
      BY <2>1
    <3>2. up[k + 1] = 10 * up[k] + (ds[k + 1] - Zero) /\ vp[k + 1] = 10 * vp[k] + (es[k + 1] - Zero)
      BY <2>2, <2>3, <3>1
    <3> QED
      BY <2>1, <2>5, <3>1, <3>2
  <2>6. up[n] = vp[n]
    <3> HIDE DEF T
    <3>1. Nat \subseteq T
      BY <2>4, <2>5, Induction
    <3> QED
      BY <2>1, <3>1 DEF T
  <2>7. n + 1 \in 1 .. n + 1 /\ (n + 1) - 1 = n
    BY <2>1
  <2>8. vp[n + 1] = 10 * vp[n] + (es[n + 1] - Zero)
    BY <2>3, <2>7
  <2> QED
    BY <2>1, <2>2, <2>3, <2>6, <2>8 DEF es
<1> QED
  BY <1>1, <1>2

(* Digits is what its definition says.                                     *)
LEMMA DigitsEquation ==
  \A n \in Nat : Digits[n] = IF n < 10 THEN <<Zero + n>>
                             ELSE Append(Digits[n \div 10], Zero + (n % 10))
<1> DEFINE rhs(g) == [n \in Nat |-> IF n < 10 THEN <<Zero + n>>
                                    ELSE Append(g[n \div 10], Zero + (n % 10))]
           F == [g \in [Nat -> Text] |-> rhs(g)]
           rk == [n \in Nat |-> n]
<1>1. \A n \in Nat : n >= 10 => n \div 10 \in Nat /\ n \div 10 < n
  OBVIOUS
<1>2. \A n \in Nat : (n < 10 => Zero + n \in Char) /\ Zero + (n % 10) \in Char
  BY DEF Zero, Char
<1>3. ASSUME NEW g \in [Nat -> Text] PROVE rhs(g) \in [Nat -> Text]
  <2> SUFFICES ASSUME NEW n \in Nat
               PROVE  (IF n < 10 THEN <<Zero + n>>
                       ELSE Append(g[n \div 10], Zero + (n % 10))) \in Text
    OBVIOUS
  <2>1. CASE n < 10
    <3> DEFINE c == Zero + n
    <3>1. c \in Char
      BY <1>2, <2>1
    <3> HIDE DEF c
    <3>2. <<c>> \in Seq(Char)
      BY <3>1
    <3> QED
      BY <2>1, <3>2 DEF Text, c
  <2>2. CASE n >= 10
    <3>1. g[n \div 10] \in Text
      BY <1>1, <2>2
    <3>2. Append(g[n \div 10], Zero + (n % 10)) \in Text
      BY <1>2, <3>1, AppendProperties DEF Text
    <3> QED
      BY <2>2, <3>2
  <2> QED
    BY <2>1, <2>2
<1>4. Contracts(Nat, Text, rk, F)
  <2>1. ASSUME NEW g \in [Nat -> Text], NEW h \in [Nat -> Text], NEW x \in Nat,
               \A y \in Nat : rk[y] < rk[x] => g[y] = h[y]
        PROVE  F[g][x] = F[h][x]
    <3>1. CASE x < 10
      BY <3>1
    <3>2. CASE x >= 10
      <4>1. g[x \div 10] = h[x \div 10]
        BY <1>1, <2>1, <3>2
      <4> QED
        BY <4>1
    <3> QED
      BY <3>1, <3>2
  <2>2. \A g, h \in [Nat -> Text] : \A x \in Nat :
           (\A y \in Nat : rk[y] < rk[x] => g[y] = h[y]) => F[g][x] = F[h][x]
    BY <2>1
  <2>3. [n \in Nat |-> <<>>] \in [Nat -> Text]
    BY EmptySeq DEF Text
  <2>4. rk \in [Nat -> Nat]
    OBVIOUS
  <2> HIDE DEF rhs, rk
  <2>5. F \in [[Nat -> Text] -> [Nat -> Text]]
    BY <1>3
  <2> HIDE DEF F
  <2> QED
    BY <2>2, <2>3, <2>4, <2>5 DEF Contracts
<1>5. \E f : f = rhs(f)
  <2>1. \E f \in [Nat -> Text] : f = F[f]
    <3> HIDE DEF rk, F
    <3> QED
      BY <1>4, RankSolve
  <2> QED
    BY <2>1
<1> DEFINE d == Digits
<1>6. d = rhs(d)
  BY <1>5 DEF Digits
<1> HIDE DEF d
<1>7. \A n \in Nat : d[n] = rhs(d)[n]
  BY <1>6
<1> QED
  BY <1>7 DEF d

(* Digits gives digits, at least one, and they say the number.             *)
LEMMA DigitsSay ==
  ASSUME NEW n \in Nat
  PROVE  /\ Digits[n] \in Text /\ Len(Digits[n]) >= 1
         /\ \A k \in 1 .. Len(Digits[n]) : IsDigit(Digits[n][k])
         /\ NumberOf(Digits[n]) = n
<1> DEFINE Fine(m) == /\ Digits[m] \in Text /\ Len(Digits[m]) >= 1
                      /\ \A k \in 1 .. Len(Digits[m]) : IsDigit(Digits[m][k])
                      /\ NumberOf(Digits[m]) = m
           T == {m \in Nat : Fine(m)}
<1>1. ASSUME NEW m \in Nat, \A j \in Nat : j < m => j \in T PROVE m \in T
  <2>1. CASE m < 10
    <3> DEFINE c == Zero + m
    <3>1. c \in Char /\ IsDigit(c) /\ c - Zero = m
      BY <2>1 DEF Char, IsDigit, Zero, Nine
    <3>2. Digits[m] = <<c>>
      BY <2>1, DigitsEquation
    <3> HIDE DEF c
    <3>3. <<c>> \in Text /\ Len(<<c>>) = 1 /\ <<c>>[1] = c /\ <<c>> = Append(<<>>, c)
      BY <3>1 DEF Text
    <3>4. <<>> \in Text
      BY EmptySeq DEF Text
    <3>5. NumberOf(<<c>>) = m
      <4>1. NumberOf(Append(<<>>, c)) = 10 * NumberOf(<<>>) + (c - Zero) /\ NumberOf(<<>>) = 0
        BY <3>1, <3>4, NumberAppend
      <4> QED
        BY <3>1, <3>3, <4>1
    <3>6. Fine(m)
      BY <3>1, <3>2, <3>3, <3>5
    <3> HIDE DEF Fine
    <3> QED
      BY <3>6
  <2>2. CASE m >= 10
    <3> DEFINE q == m \div 10
               c == Zero + (m % 10)
    <3>1. q \in Nat /\ q < m /\ c \in Char /\ IsDigit(c) /\ m = 10 * q + (c - Zero)
      BY <2>2 DEF Char, IsDigit, Zero, Nine
    <3>2. Digits[m] = Append(Digits[q], c)
      <4>1. ~(m < 10)
        BY <2>2
      <4> QED
        BY <4>1, DigitsEquation
    <3> HIDE DEF q, c
    <3>3. Fine(q)
      BY <1>1, <3>1
    <3>4. /\ Append(Digits[q], c) \in Text /\ Len(Append(Digits[q], c)) = Len(Digits[q]) + 1
          /\ \A k \in 1 .. Len(Digits[q]) : Append(Digits[q], c)[k] = Digits[q][k]
          /\ Append(Digits[q], c)[Len(Digits[q]) + 1] = c
          /\ Len(Digits[q]) \in Nat
      BY <3>1, <3>3, AppendProperties, LenProperties DEF Text
    <3>5. \A k \in 1 .. Len(Digits[m]) : IsDigit(Digits[m][k])
      BY <3>1, <3>2, <3>3, <3>4
    <3>6. NumberOf(Digits[m]) = m
      BY <3>1, <3>2, <3>3, NumberAppend
    <3>7. Fine(m)
      BY <3>2, <3>3, <3>4, <3>5, <3>6
    <3> HIDE DEF Fine
    <3> QED
      BY <3>7
  <2> QED
    BY <2>1, <2>2
<1> HIDE DEF T
<1>2. Nat \subseteq T
  BY <1>1, StrongInduction
<1> QED
  BY <1>2 DEF T

-----------------------------------------------------------------------------
(* Positions in texts                                                      *)

(* The least of a set of numbers.                                          *)
LEMMA MinIs ==
  ASSUME NEW T, T \subseteq Nat, T # {}
  PROVE  Min(T) \in T /\ \A y \in T : Min(T) <= y
<1>1. \E x \in T : \A y \in T : x <= y
  BY LeastNumber
<1> QED
  BY <1>1 DEF Min

(* FirstOf stops at a character of S, or behind the text.                  *)
LEMMA FirstOfIs ==
  ASSUME NEW t \in Text, NEW S, NEW i \in Nat \ {0}
  PROVE  LET e == FirstOf(t, S, i)
         IN  /\ e \in Nat /\ e <= Len(t) + 1
             /\ e = Len(t) + 1 \/ (i <= e /\ t[e] \in S)
             /\ \A j \in i .. Len(t) : j < e => t[j] \notin S
<1> DEFINE at == {j \in i .. Len(t) : t[j] \in S}
<1>1. Len(t) \in Nat
  BY LenProperties DEF Text
<1>2. CASE at = {}
  <2>1. FirstOf(t, S, i) = Len(t) + 1
    BY <1>2 DEF FirstOf
  <2> QED
    BY <1>1, <1>2, <2>1
<1>3. CASE at # {}
  <2>1. FirstOf(t, S, i) = Min(at)
    BY <1>3 DEF FirstOf
  <2>2. at \subseteq Nat
    BY <1>1
  <2>3. Min(at) \in at /\ \A y \in at : Min(at) <= y
    BY <1>3, <2>2, MinIs
  <2> HIDE DEF at
  <2>4. /\ Min(at) \in i .. Len(t) /\ t[Min(at)] \in S
        /\ \A j \in i .. Len(t) : t[j] \in S => Min(at) <= j
    BY <2>3 DEF at
  <2>5. \A j \in i .. Len(t) : j < Min(at) => t[j] \notin S
    BY <1>1, <2>4
  <2> QED
    BY <1>1, <2>1, <2>4, <2>5
<1> QED
  BY <1>2, <1>3

(* A part of a text.                                                       *)
LEMMA PartOf ==
  ASSUME NEW S, NEW t \in Seq(S), NEW i \in Nat \ {0}, NEW j \in Int, j <= Len(t)
  PROVE  /\ SubSeq(t, i, j) \in Seq(S)
         /\ Len(SubSeq(t, i, j)) = IF i <= j THEN j - i + 1 ELSE 0
         /\ \A k \in 1 .. j - i + 1 : SubSeq(t, i, j)[k] = t[i + k - 1]
<1>1. \A k \in i .. j : t[k] \in S
  <2> SUFFICES ASSUME NEW k \in i .. j PROVE t[k] \in S
    OBVIOUS
  <2>1. k \in 1 .. Len(t)
    BY LenProperties
  <2> QED
    BY <2>1, ElementOfSeq
<1> QED
  BY <1>1, SubSeqProperties

(* A text cut in two and put together again.                               *)
LEMMA CutInTwo ==
  ASSUME NEW S, NEW t \in Seq(S), NEW k \in 0 .. Len(t)
  PROVE  t = SubSeq(t, 1, k) \o SubSeq(t, k + 1, Len(t))
<1>1. Len(t) \in Nat
  BY LenProperties
<1>2. SubSeq(t, 1, k) \o SubSeq(t, k + 1, Len(t)) = SubSeq(t, 1, Len(t))
  <2>1. 1 \in 1 .. Len(t) + 1 /\ k \in 1 - 1 .. Len(t) /\ Len(t) \in k .. Len(t)
    BY <1>1
  <2> QED
    BY <2>1, ConcatAdjacentSubSeq
<1> QED
  BY <1>2, SubSeqFull

(* It does not matter how texts that are put together are grouped.         *)
LEMMA Associates == \A a, b, c \in Text : (a \o b) \o c = a \o (b \o c)
  BY ConcatAssociative DEF Text

-----------------------------------------------------------------------------
(* What stands in a text                                                   *)

(* The text t has s at position i.                                         *)
Stands(t, i, s) ==
    i + Len(s) <= Len(t) + 1 /\ \A k \in 1 .. Len(s) : t[i + k - 1] = s[k]

(* Two texts that stand in a row.                                          *)
LEMMA StandsParts ==
  ASSUME NEW t \in Text, NEW i \in Nat \ {0}, NEW a \in Text, NEW b \in Text,
         Stands(t, i, a \o b)
  PROVE  /\ Stands(t, i, a) /\ Stands(t, i + Len(a), b)
         /\ Len(a \o b) = Len(a) + Len(b) /\ a \o b \in Text
         /\ Len(t) \in Nat /\ Len(a) \in Nat /\ Len(b) \in Nat /\ i + Len(a) \in Nat \ {0}
<1>1. Len(t) \in Nat /\ Len(a) \in Nat /\ Len(b) \in Nat
  BY LenProperties DEF Text
<1>2. /\ a \o b \in Text /\ Len(a \o b) = Len(a) + Len(b)
      /\ \A k \in 1 .. Len(a) + Len(b) : (a \o b)[k] = IF k <= Len(a) THEN a[k] ELSE b[k - Len(a)]
  BY ConcatProperties DEF Text
<1> DEFINE ab == a \o b
<1>3. i + Len(ab) <= Len(t) + 1 /\ \A k \in 1 .. Len(ab) : t[i + k - 1] = ab[k]
  BY DEF Stands
<1>4. /\ Len(ab) = Len(a) + Len(b)
      /\ \A k \in 1 .. Len(a) + Len(b) : ab[k] = IF k <= Len(a) THEN a[k] ELSE b[k - Len(a)]
  BY <1>2
<1> HIDE DEF ab
<1>5. Stands(t, i, a)
  <2>1. i + Len(a) <= Len(t) + 1
    BY <1>1, <1>3, <1>4
  <2>2. ASSUME NEW k \in 1 .. Len(a) PROVE t[i + k - 1] = a[k]
    <3>1. k \in 1 .. Len(a) + Len(b) /\ k <= Len(a)
      BY <1>1
    <3> QED
      BY <1>3, <1>4, <3>1
  <2> QED
    BY <2>1, <2>2 DEF Stands
<1>6. Stands(t, i + Len(a), b)
  <2>1. (i + Len(a)) + Len(b) <= Len(t) + 1
    BY <1>1, <1>3, <1>4
  <2>2. ASSUME NEW k \in 1 .. Len(b) PROVE t[(i + Len(a)) + k - 1] = b[k]
    <3> DEFINE l == Len(a) + k
    <3>1. l \in 1 .. Len(a) + Len(b) /\ ~(l <= Len(a)) /\ l - Len(a) = k
          /\ i + l - 1 = (i + Len(a)) + k - 1
      BY <1>1
    <3> HIDE DEF l
    <3>2. t[i + l - 1] = ab[l] /\ ab[l] = b[l - Len(a)]
      BY <1>3, <1>4, <3>1
    <3> QED
      BY <3>1, <3>2
  <2> QED
    BY <2>1, <2>2 DEF Stands
<1> QED
  BY <1>1, <1>2, <1>5, <1>6

(* What stands at a position is the part of the text there.                *)
LEMMA StandsCut ==
  ASSUME NEW t \in Text, NEW i \in Nat \ {0}, NEW s \in Text, Stands(t, i, s)
  PROVE  SubSeq(t, i, i + Len(s) - 1) = s
<1> DEFINE j == i + Len(s) - 1
<1>1. Len(t) \in Nat /\ Len(s) \in Nat /\ s \in Seq(Char)
  BY LenProperties DEF Text
<1>2. j \in Int /\ j <= Len(t) /\ j - i + 1 = Len(s) /\ (i <= j <=> Len(s) # 0)
  BY <1>1 DEF Stands
<1> HIDE DEF j
<1>3. /\ SubSeq(t, i, j) \in Seq(Char)
      /\ Len(SubSeq(t, i, j)) = Len(s)
      /\ \A k \in 1 .. Len(s) : SubSeq(t, i, j)[k] = t[i + k - 1]
  <2>1. /\ SubSeq(t, i, j) \in Seq(Char)
        /\ Len(SubSeq(t, i, j)) = IF i <= j THEN j - i + 1 ELSE 0
        /\ \A k \in 1 .. j - i + 1 : SubSeq(t, i, j)[k] = t[i + k - 1]
    BY <1>2, PartOf DEF Text
  <2> QED
    BY <1>1, <1>2, <2>1
<1>4. \A k \in 1 .. Len(s) : SubSeq(t, i, j)[k] = s[k]
  BY <1>3 DEF Stands
<1>5. SubSeq(t, i, j) = s
  BY <1>1, <1>3, <1>4, SeqEqual
<1> QED
  BY <1>5 DEF j

(* A text stands where it was put.                                         *)
LEMMA StandsBetween ==
  ASSUME NEW a \in Text, NEW s \in Text, NEW b \in Text
  PROVE  Stands(a \o s \o b, Len(a) + 1, s) /\ a \o s \o b \in Text
<1>1. Len(a) \in Nat /\ Len(s) \in Nat /\ Len(b) \in Nat
  BY LenProperties DEF Text
<1>2. /\ a \o s \in Text /\ Len(a \o s) = Len(a) + Len(s)
      /\ \A k \in 1 .. Len(a) + Len(s) : (a \o s)[k] = IF k <= Len(a) THEN a[k] ELSE s[k - Len(a)]
  BY ConcatProperties DEF Text
<1> DEFINE as == a \o s
<1>3. /\ as \o b \in Text /\ Len(as \o b) = Len(as) + Len(b)
      /\ \A k \in 1 .. Len(as) + Len(b) : (as \o b)[k] = IF k <= Len(as) THEN as[k] ELSE b[k - Len(as)]
  BY <1>2, ConcatProperties DEF Text
<1>4. as \in Text /\ Len(as) = Len(a) + Len(s)
      /\ \A k \in 1 .. Len(a) + Len(s) : as[k] = IF k <= Len(a) THEN a[k] ELSE s[k - Len(a)]
  BY <1>2
<1> HIDE DEF as
<1>5. ASSUME NEW k \in 1 .. Len(s) PROVE (as \o b)[Len(a) + 1 + k - 1] = s[k]
  <2> DEFINE l == Len(a) + k
  <2>1. /\ l \in 1 .. Len(a) + Len(s) /\ l \in 1 .. Len(as) + Len(b) /\ l <= Len(as)
        /\ ~(l <= Len(a)) /\ l - Len(a) = k /\ Len(a) + 1 + k - 1 = l
    BY <1>1, <1>4
  <2> HIDE DEF l
  <2> QED
    BY <1>3, <1>4, <2>1
<1>6. (Len(a) + 1) + Len(s) <= Len(as \o b) + 1
  BY <1>1, <1>3, <1>4
<1> QED
  BY <1>3, <1>5, <1>6 DEF Stands, as

(* The first character of S behind a text that has none.                   *)
LEMMA FirstBehind ==
  ASSUME NEW t \in Text, NEW i \in Nat \ {0}, NEW a \in Text, NEW c \in Char, NEW S,
         Stands(t, i, a \o <<c>>), c \in S, \A k \in 1 .. Len(a) : a[k] \notin S
  PROVE  FirstOf(t, S, i) = i + Len(a)
<1>1. <<c>> \in Text /\ Len(<<c>>) = 1 /\ <<c>>[1] = c
  BY DEF Text
<1>2. /\ Stands(t, i, a) /\ Stands(t, i + Len(a), <<c>>)
      /\ Len(t) \in Nat /\ Len(a) \in Nat
  BY <1>1, StandsParts
<1> DEFINE e == FirstOf(t, S, i)
           j == i + Len(a)
<1>3. /\ e \in Nat /\ e <= Len(t) + 1
      /\ e = Len(t) + 1 \/ (i <= e /\ t[e] \in S)
      /\ \A k \in i .. Len(t) : k < e => t[k] \notin S
  BY FirstOfIs
<1>4. j \in Nat /\ i <= j /\ j <= Len(t) /\ t[j] \in S
  <2>1. j \in Nat /\ i <= j /\ j + 1 - 1 = j /\ 1 \in 1 .. 1
    BY <1>2
  <2>2. j + 1 <= Len(t) + 1 /\ t[j + 1 - 1] = c
    <3> HIDE DEF j
    <3>1. Stands(t, j, <<c>>)
      BY <1>2 DEF j
    <3>2. j + Len(<<c>>) <= Len(t) + 1 /\ \A k \in 1 .. Len(<<c>>) : t[j + k - 1] = <<c>>[k]
      BY <3>1 DEF Stands
    <3> QED
      BY <1>1, <2>1, <3>2
  <2> HIDE DEF j
  <2> QED
    BY <1>2, <2>1, <2>2
<1>5. \A k \in i .. j - 1 : t[k] \notin S
  <2> SUFFICES ASSUME NEW k \in i .. j - 1 PROVE t[k] \notin S
    OBVIOUS
  <2> DEFINE l == k - i + 1
  <2>1. l \in 1 .. Len(a) /\ i + l - 1 = k
    BY <1>2
  <2> HIDE DEF l
  <2>2. t[i + l - 1] = a[l]
    BY <1>2, <2>1 DEF Stands
  <2> QED
    BY <2>1, <2>2
<1> HIDE DEF e, j
<1>6. e = j
  <2>1. ~(e < j)
    <3> SUFFICES ASSUME e < j PROVE FALSE
      OBVIOUS
    <3>1. i <= e /\ t[e] \in S
      BY <1>2, <1>3, <1>4
    <3>2. e \in i .. j - 1
      BY <1>3, <1>4, <3>1
    <3> QED
      BY <1>5, <3>1, <3>2
  <2>2. ~(j < e)
    <3>1. j \in i .. Len(t)
      BY <1>2, <1>4
    <3> QED
      BY <1>3, <1>4, <3>1
  <2> QED
    BY <1>3, <1>4, <2>1, <2>2
<1> QED
  BY <1>6 DEF e, j

-----------------------------------------------------------------------------
(* Strings and integers are read as they were written                      *)

(* Taking the minus signs out of digits behind a sign leaves the digits.   *)
LEMMA UnsignedIs ==
  ASSUME NEW sign \in {<<>>, <<Minus>>}, NEW d \in Text, \A k \in 1 .. Len(d) : IsDigit(d[k])
  PROVE  Unsigned(sign \o d) = d
<1> DEFINE t == sign \o d
           m == Len(sign)
           n == Len(d)
<1>1. sign \in Text /\ m \in {0, 1} /\ n \in Nat /\ \A k \in 1 .. m : sign[k] = Minus
  <2>1. <<>> \in Text /\ Len(<<>>) = 0
    BY EmptySeq DEF Text
  <2>2. <<Minus>> \in Text /\ Len(<<Minus>>) = 1 /\ <<Minus>>[1] = Minus
    BY DEF Text, Char, Minus
  <2>3. n \in Nat
    BY LenProperties DEF Text
  <2>4. CASE sign = <<>>
    BY <2>1, <2>3, <2>4
  <2>5. CASE sign = <<Minus>>
    BY <2>2, <2>3, <2>5
  <2> QED
    BY <2>4, <2>5
<1>2. /\ t \in Text /\ Len(t) = m + n
      /\ \A k \in 1 .. m + n : t[k] = IF k <= m THEN sign[k] ELSE d[k - m]
  BY <1>1, ConcatProperties DEF Text
<1> HIDE DEF t
<1> DEFINE ss == [j \in DOMAIN t |-> IF t[j] = Minus THEN <<>> ELSE <<t[j]>>]
<1>3. DOMAIN t = 1 .. m + n
  BY <1>2, LenProperties DEF Text
<1>4. ss \in Seq(Seq(Char)) /\ Len(ss) = m + n
  <2>1. \A j \in 1 .. m + n : ss[j] \in Seq(Char)
    <3> SUFFICES ASSUME NEW j \in 1 .. m + n PROVE ss[j] \in Seq(Char)
      OBVIOUS
    <3>1. t[j] \in Char
      BY <1>2, ElementOfSeq DEF Text
    <3> DEFINE c == t[j]
    <3>2. <<c>> \in Seq(Char) /\ <<>> \in Seq(Char)
      <4> HIDE DEF c
      <4>1. c \in Char
        BY <3>1 DEF c
      <4> QED
        BY <4>1
    <3> QED
      BY <1>3, <3>2
  <2>2. ss \in [1 .. m + n -> Seq(Char)]
    BY <1>3, <2>1
  <2>3. m + n \in Nat
    BY <1>1
  <2> HIDE DEF ss
  <2> QED
    BY <2>2, <2>3
<1>5. PICK flat \in [0 .. Len(ss) -> Seq(Char)] :
         /\ flat[0] = <<>>
         /\ \A k \in 1 .. Len(ss) : flat[k] = flat[k - 1] \o ss[k]
         /\ FlattenSeq(ss) = flat[Len(ss)]
  <2> HIDE DEF ss
  <2> QED
    BY <1>4, FlattenParts
<1>6. \A k \in 1 .. m : ss[k] = <<>>
  <2> SUFFICES ASSUME NEW k \in 1 .. m PROVE ss[k] = <<>>
    OBVIOUS
  <2>1. k \in 1 .. m + n /\ k <= m
    BY <1>1
  <2>2. t[k] = Minus
    BY <1>1, <1>2, <2>1
  <2> QED
    BY <1>3, <2>1, <2>2
<1>7. \A k \in 1 .. n : ss[m + k] = <<d[k]>>
  <2> SUFFICES ASSUME NEW k \in 1 .. n PROVE ss[m + k] = <<d[k]>>
    OBVIOUS
  <2> DEFINE l == m + k
  <2>1. l \in 1 .. m + n /\ ~(l <= m) /\ l - m = k
    BY <1>1
  <2> HIDE DEF l
  <2>2. t[l] = d[k]
    BY <1>2, <2>1
  <2>3. d[k] # Minus
    <3>1. \A c : IsDigit(c) => c # Minus
      BY DEF IsDigit, Zero, Nine, Minus
    <3>2. IsDigit(d[k])
      OBVIOUS
    <3> QED
      BY <3>1, <3>2
  <2>4. ss[l] = <<d[k]>>
    BY <1>3, <2>1, <2>2, <2>3
  <2> QED
    BY <2>4 DEF l
<1> HIDE DEF ss
<1>8. flat[m] = <<>>
  <2>1. CASE m = 0
    BY <1>5, <2>1
  <2>2. CASE m = 1
    <3>1. 1 \in 1 .. Len(ss) /\ 1 - 1 = 0
      BY <1>1, <1>4, <2>2
    <3>2. flat[1] = flat[1 - 1] \o ss[1]
      BY <1>5, <3>1
    <3>4. ss[1] = <<>>
      BY <1>6, <2>2
    <3>3. <<>> \o <<>> = <<>>
      BY <1>1, EmptySeq, ConcatEmptySeq
    <3> QED
      BY <1>5, <2>2, <3>1, <3>2, <3>3, <3>4
  <2> QED
    BY <1>1, <2>1, <2>2
<1> DEFINE T == {j \in Nat : j <= n => flat[m + j] = SubSeq(d, 1, j)}
<1>9. 0 \in T
  <2>1. SubSeq(d, 1, 0) = <<>>
    BY SubSeqEmpty
  <2>2. m + 0 = m
    BY <1>1
  <2> QED
    BY <1>8, <2>1, <2>2
<1>10. ASSUME NEW j \in Nat, j \in T PROVE j + 1 \in T
  <2> SUFFICES ASSUME j + 1 <= n PROVE flat[m + (j + 1)] = SubSeq(d, 1, j + 1)
    OBVIOUS
  <2> DEFINE l == m + (j + 1)
  <2>1. l \in 1 .. Len(ss) /\ l - 1 = m + j /\ j <= n /\ j + 1 \in 1 .. n /\ (j + 1) - 1 = j
    BY <1>1, <1>4
  <2>2. flat[l] = flat[l - 1] \o ss[l]
    BY <1>5, <2>1
  <2>3. ss[l] = <<d[j + 1]>> /\ flat[l - 1] = SubSeq(d, 1, j)
    BY <1>7, <1>10, <2>1
  <2>4. SubSeq(d, 1, j + 1) = SubSeq(d, 1, (j + 1) - 1) \o <<d[j + 1]>>
    <3>1. 1 \in 1 .. Len(d) /\ j + 1 \in 1 .. Len(d)
      BY <2>1
    <3> QED
      BY <3>1, SubSeqRecursiveSecond DEF Text
  <2> HIDE DEF l
  <2>5. flat[l] = SubSeq(d, 1, j + 1)
    BY <2>1, <2>2, <2>3, <2>4
  <2> QED
    BY <2>5 DEF l
<1>11. flat[m + n] = d
  <2> HIDE DEF T
  <2>1. Nat \subseteq T
    BY <1>9, <1>10, Induction
  <2>2. flat[m + n] = SubSeq(d, 1, n)
    BY <1>1, <2>1 DEF T
  <2> QED
    BY <2>2, SubSeqFull DEF Text
<1> QED
  BY <1>4, <1>5, <1>11 DEF Unsigned, ss, t

(* The digits a text of digits begins with are all of it.                  *)
LEMMA LeadingIs ==
  ASSUME NEW d \in Text, \A k \in 1 .. Len(d) : IsDigit(d[k])
  PROVE  Leading(d) = d
<1> DEFINE S == Char \ (Zero .. Nine)
           e == FirstOf(d, S, 1)
<1>1. Len(d) \in Nat /\ \A k \in 1 .. Len(d) : d[k] \notin S
  BY LenProperties DEF Text, IsDigit
<1>2. e \in Nat /\ (e = Len(d) + 1 \/ (1 <= e /\ d[e] \in S)) /\ e <= Len(d) + 1
  <2> HIDE DEF S
  <2> QED
    BY FirstOfIs
<1>3. e = Len(d) + 1
  <2> HIDE DEF S, e
  <2>1. 1 <= e /\ e <= Len(d) => e \in 1 .. Len(d)
    BY <1>1, <1>2
  <2> QED
    BY <1>1, <1>2, <2>1
<1>4. e - 1 = Len(d)
  <2> HIDE DEF e
  <2> QED
    BY <1>1, <1>3
<1> QED
  BY <1>4, SubSeqFull DEF Leading, Text

(* What is written of a string is a text that begins with a digit.         *)
LEMMA EncodeStrIs ==
  ASSUME NEW s \in Text
  PROVE  /\ EncodeStr(s) \in Text /\ Len(EncodeStr(s)) >= 1 /\ IsDigit(EncodeStr(s)[1])
         /\ Len(EncodeStr(s)) = Len(Digits[Len(s)]) + 1 + Len(s)
<1> DEFINE d == Digits[Len(s)]
           c == <<Colon>>
<1>1. Len(s) \in Nat /\ s \in Seq(Char)
  BY LenProperties DEF Text
<1>2. d \in Seq(Char) /\ Len(d) >= 1 /\ IsDigit(d[1]) /\ Len(d) \in Nat
  <2>1. d \in Text /\ Len(d) >= 1 /\ \A k \in 1 .. Len(d) : IsDigit(d[k])
    BY <1>1, DigitsSay
  <2>2. Len(d) \in Nat
    BY <2>1, LenProperties DEF Text
  <2> HIDE DEF d
  <2> QED
    BY <2>1, <2>2 DEF Text
<1>3. c \in Seq(Char) /\ Len(c) = 1
  BY DEF Char, Colon
<1> HIDE DEF d, c
<1>4. d \o c \in Seq(Char) /\ Len(d \o c) = Len(d) + 1 /\ (d \o c)[1] = d[1]
  <2>1. 1 \in 1 .. Len(d) + Len(c) /\ 1 <= Len(d)
    BY <1>2, <1>3
  <2>2. /\ d \o c \in Seq(Char) /\ Len(d \o c) = Len(d) + Len(c)
        /\ \A i \in 1 .. Len(d) + Len(c) : (d \o c)[i] = IF i <= Len(d) THEN d[i] ELSE c[i - Len(d)]
    BY <1>2, <1>3, ConcatProperties
  <2>3. (d \o c)[1] = d[1]
    BY <2>1, <2>2
  <2> QED
    BY <1>3, <2>2, <2>3
<1> DEFINE dc == d \o c
<1>5. dc \in Seq(Char) /\ Len(dc) = Len(d) + 1 /\ dc[1] = d[1]
  BY <1>4
<1> HIDE DEF dc
<1>6. /\ dc \o s \in Seq(Char) /\ Len(dc \o s) = Len(d) + 1 + Len(s) /\ (dc \o s)[1] = d[1]
  <2>1. 1 \in 1 .. Len(dc) + Len(s) /\ 1 <= Len(dc)
    BY <1>1, <1>2, <1>5
  <2>2. /\ dc \o s \in Seq(Char) /\ Len(dc \o s) = Len(dc) + Len(s)
        /\ \A i \in 1 .. Len(dc) + Len(s) : (dc \o s)[i] = IF i <= Len(dc) THEN dc[i] ELSE s[i - Len(dc)]
    BY <1>1, <1>5, ConcatProperties
  <2>3. (dc \o s)[1] = dc[1]
    BY <2>1, <2>2
  <2> QED
    BY <1>5, <2>2, <2>3
<1>7. EncodeStr(s) = dc \o s
  BY DEF EncodeStr, dc, d, c
<1>8. Len(dc \o s) >= 1
  BY <1>1, <1>2, <1>6
<1> QED
  BY <1>2, <1>6, <1>7, <1>8 DEF Text, d

(* _read_str reads the string that encode_bencode wrote, whatever its      *)
(* characters are and whatever follows.                                    *)
LEMMA ReadStrEncoded ==
  ASSUME NEW t \in Text, NEW i \in Nat \ {0}, NEW s \in Text, Stands(t, i, EncodeStr(s))
  PROVE  ReadStr(t, i) = Result(StrVal(s), i + Len(EncodeStr(s)))
<1> DEFINE d == Digits[Len(s)]
           colon == <<Colon>>
           c == i + Len(d)
<1>1. Len(s) \in Nat
  BY LenProperties DEF Text
<1>2. /\ d \in Text /\ Len(d) >= 1 /\ NumberOf(d) = Len(s)
      /\ \A k \in 1 .. Len(d) : IsDigit(d[k])
  BY <1>1, DigitsSay
<1>3. colon \in Text /\ Len(colon) = 1 /\ colon[1] = Colon /\ Colon \in Char
  BY DEF Text, Char, Colon
<1>4. EncodeStr(s) = d \o colon \o s
  BY DEF EncodeStr
<1>5. Len(EncodeStr(s)) = Len(d) + 1 + Len(s)
  BY EncodeStrIs
<1> HIDE DEF d, colon
<1>6. /\ Stands(t, i, d \o colon) /\ Stands(t, i + Len(d \o colon), s)
      /\ d \o colon \in Text /\ Len(d \o colon) = Len(d) + 1
      /\ Len(t) \in Nat /\ Len(d) \in Nat
  <2> DEFINE dc == d \o colon
  <2>1. dc \in Text /\ Len(dc) = Len(d) + 1 /\ Len(d) \in Nat /\ Len(t) \in Nat
    BY <1>2, <1>3, ConcatProperties, LenProperties DEF Text
  <2>2. Stands(t, i, dc \o s)
    BY <1>4
  <2> HIDE DEF dc
  <2>3. Stands(t, i, dc) /\ Stands(t, i + Len(dc), s)
    BY <2>1, <2>2, StandsParts
  <2> QED
    BY <2>1, <2>3 DEF dc
<1>7. Stands(t, i, d)
  BY <1>2, <1>3, <1>6, StandsParts
<1>8. FirstOf(t, {Colon}, i) = c
  <2>1. \A k \in 1 .. Len(d) : d[k] \notin {Colon}
    BY <1>2 DEF IsDigit, Zero, Nine, Colon
  <2> QED
    BY <1>2, <1>3, <1>6, <2>1, FirstBehind DEF colon
<1>9. SubSeq(t, i, c - 1) = d
  BY <1>2, <1>7, StandsCut
<1>10. c \in Nat /\ c + 1 = i + Len(d \o colon) /\ c + 1 \in Nat \ {0}
  BY <1>6
<1> HIDE DEF c
<1>11. Stands(t, c + 1, s)
  BY <1>6, <1>10
<1>12. Taken(t, c + 1, Len(s)) = s
  <2> DEFINE e == c + 1 + Len(s) - 1
             l == Len(t)
  <2>1. e \in Nat /\ e <= l /\ l \in Nat
    BY <1>1, <1>6, <1>10, <1>11 DEF Stands
  <2> HIDE DEF e, l
  <2>2. Min({e, l}) \in {e, l} /\ \A y \in {e, l} : Min({e, l}) <= y
    <3>1. {e, l} \subseteq Nat /\ {e, l} # {}
      BY <2>1
    <3> QED
      BY <3>1, MinIs
  <2>3. Min({e, l}) = e
    BY <2>1, <2>2
  <2>4. Taken(t, c + 1, Len(s)) = SubSeq(t, c + 1, e)
    BY <2>3 DEF Taken, e, l
  <2>5. SubSeq(t, c + 1, e) = s
    BY <1>10, <1>11, StandsCut DEF e
  <2> QED
    BY <2>4, <2>5
<1>13. s \o [k \in 1 .. Len(s) - Len(s) |-> 0] = s
  <2> DEFINE z == [k \in 1 .. Len(s) - Len(s) |-> 0]
  <2>1. z \in [1 .. 0 -> Nat]
    BY <1>1
  <2> HIDE DEF z
  <2>2. z \in Seq(Nat) /\ Len(z) = 0
    BY <2>1
  <2>3. z = <<>>
    BY <2>2, EmptySeq
  <2>4. s \o <<>> = s
    BY ConcatEmptySeq DEF Text
  <2> QED
    BY <2>3, <2>4 DEF z
<1>14. ~(d = <<>> \/ \E j \in DOMAIN d : ~IsDigit(d[j]))
  <2>1. DOMAIN d = 1 .. Len(d) /\ Len(<<>>) = 0
    BY <1>2, EmptySeq, LenProperties DEF Text
  <2> QED
    BY <1>2, <2>1
<1>15. c + 1 + Len(s) = i + Len(EncodeStr(s))
  BY <1>1, <1>5, <1>6 DEF c
<1> QED
  BY <1>2, <1>8, <1>9, <1>12, <1>13, <1>14, <1>15 DEF ReadStr

(* What is written of an integer: "i", a sign or none, digits and "e".     *)
LEMMA EncodeIntIs ==
  ASSUME NEW n \in Int
  PROVE  \E sign \in {<<>>, <<Minus>>}, m \in Nat :
           /\ EncodeInt(n) = <<IntChar>> \o (sign \o Digits[m]) \o <<EndChar>>
           /\ n < 0 <=> sign = <<Minus>>
           /\ m = (IF n < 0 THEN -n ELSE n)
           /\ sign \o Digits[m] \in Text /\ sign \in Text /\ Len(sign) <= 1 /\ Len(sign) \in Nat
           /\ \A k \in 1 .. Len(sign) : sign[k] = Minus
           /\ EncodeInt(n) \in Text
           /\ Len(EncodeInt(n)) = Len(sign \o Digits[m]) + 2
           /\ EncodeInt(n)[1] = IntChar
<1> DEFINE m == IF n < 0 THEN -n ELSE n
           sign == IF n < 0 THEN <<Minus>> ELSE <<>>
           body == sign \o Digits[m]
           a == <<IntChar>>
           z == <<EndChar>>
<1>1. m \in Nat
  OBVIOUS
<1>2. Digits[m] \in Seq(Char)
  <2> HIDE DEF m
  <2> QED
    BY <1>1, DigitsSay DEF Text
<1>3. /\ sign \in {<<>>, <<Minus>>} /\ (n < 0 <=> sign = <<Minus>>)
      /\ sign \in Seq(Char) /\ Len(sign) <= 1 /\ Len(sign) \in Nat
      /\ \A k \in 1 .. Len(sign) : sign[k] = Minus
  <2>1. <<>> \in Seq(Char) /\ Len(<<>>) = 0
    BY EmptySeq
  <2>2. <<Minus>> \in Seq(Char) /\ Len(<<Minus>>) = 1 /\ <<Minus>>[1] = Minus
    BY DEF Char, Minus
  <2>3. CASE n < 0
    BY <2>1, <2>2, <2>3
  <2>4. CASE ~(n < 0)
    BY <2>1, <2>2, <2>4
  <2> QED
    BY <2>3, <2>4
<1>4. a \in Seq(Char) /\ Len(a) = 1 /\ a[1] = IntChar /\ z \in Seq(Char) /\ Len(z) = 1
  BY DEF Char, IntChar, EndChar
<1>5. EncodeInt(n) = a \o body \o z
  <2>1. body = IF n < 0 THEN <<Minus>> \o Digits[-n] ELSE Digits[n]
    <3>1. CASE n < 0
      BY <3>1
    <3>2. CASE ~(n < 0)
      <4> DEFINE d == Digits[n]
      <4>1. m = n /\ sign = <<>> /\ d \in Seq(Char)
        BY <1>2, <3>2
      <4> HIDE DEF d
      <4>2. <<>> \o d = d
        BY <4>1, ConcatEmptySeq
      <4> QED
        BY <3>2, <4>1, <4>2 DEF d
    <3> QED
      BY <3>1, <3>2
  <2> HIDE DEF body
  <2> QED
    BY <2>1 DEF EncodeInt
<1> HIDE DEF m, sign, a, z
<1>6. body \in Seq(Char) /\ Len(body) \in Nat
  BY <1>2, <1>3, ConcatProperties, LenProperties
<1> HIDE DEF body
<1> DEFINE ab == a \o body
<1>7. ab \in Seq(Char) /\ Len(ab) = Len(body) + 1 /\ ab[1] = IntChar
  <2>1. /\ a \o body \in Seq(Char) /\ Len(a \o body) = Len(a) + Len(body)
        /\ \A i \in 1 .. Len(a) + Len(body) :
              (a \o body)[i] = IF i <= Len(a) THEN a[i] ELSE body[i - Len(a)]
    BY <1>4, <1>6, ConcatProperties
  <2>2. 1 \in 1 .. Len(a) + Len(body) /\ 1 <= Len(a)
    BY <1>4, <1>6
  <2>3. (a \o body)[1] = a[1]
    BY <2>1, <2>2
  <2> QED
    BY <1>4, <1>6, <2>1, <2>3
<1> HIDE DEF ab
<1>8. ab \o z \in Seq(Char) /\ Len(ab \o z) = Len(body) + 2 /\ (ab \o z)[1] = IntChar
  <2>1. /\ ab \o z \in Seq(Char) /\ Len(ab \o z) = Len(ab) + Len(z)
        /\ \A i \in 1 .. Len(ab) + Len(z) :
              (ab \o z)[i] = IF i <= Len(ab) THEN ab[i] ELSE z[i - Len(ab)]
    BY <1>4, <1>7, ConcatProperties
  <2>2. 1 \in 1 .. Len(ab) + Len(z) /\ 1 <= Len(ab)
    BY <1>4, <1>6, <1>7
  <2>3. (ab \o z)[1] = ab[1]
    BY <2>1, <2>2
  <2> QED
    BY <1>4, <1>6, <1>7, <2>1, <2>3
<1>9. EncodeInt(n) = ab \o z
  BY <1>5 DEF ab
<1>10. /\ EncodeInt(n) = <<IntChar>> \o (sign \o Digits[m]) \o <<EndChar>>
       /\ EncodeInt(n) \in Text
       /\ Len(EncodeInt(n)) = Len(sign \o Digits[m]) + 2
       /\ EncodeInt(n)[1] = IntChar
       /\ sign \o Digits[m] \in Text
  BY <1>5, <1>6, <1>8, <1>9 DEF a, z, body, Text
<1>11. m = IF n < 0 THEN -n ELSE n
  BY DEF m
<1> QED
  BY <1>1, <1>3, <1>10, <1>11 DEF Text

(* _read_int reads the integer that encode_bencode wrote, unless it is the *)
(* least one.                                                              *)
LEMMA ReadIntEncoded ==
  ASSUME FormatsAssumption, NEW t \in Text, NEW i \in Nat \ {0}, NEW n \in -MaxInt - 1 .. MaxInt,
         Stands(t, i, EncodeInt(n))
  PROVE  ReadInt(t, i) = Result(IF n = -MaxInt - 1 THEN Thrown ELSE IntVal(n),
                                i + Len(EncodeInt(n)))
<1>1. MaxInt \in Nat \ {0} /\ n \in Int
  BY DEF FormatsAssumption
<1>2. PICK sign \in {<<>>, <<Minus>>}, m \in Nat :
         /\ EncodeInt(n) = <<IntChar>> \o (sign \o Digits[m]) \o <<EndChar>>
         /\ n < 0 <=> sign = <<Minus>>
         /\ m = (IF n < 0 THEN -n ELSE n)
         /\ sign \o Digits[m] \in Text /\ sign \in Text /\ Len(sign) <= 1 /\ Len(sign) \in Nat
         /\ \A k \in 1 .. Len(sign) : sign[k] = Minus
         /\ Len(EncodeInt(n)) = Len(sign \o Digits[m]) + 2
  BY <1>1, EncodeIntIs
<1> DEFINE d == Digits[m]
           body == sign \o d
           a == <<IntChar>>
           z == <<EndChar>>
<1>3. d \in Text /\ Len(d) >= 1 /\ NumberOf(d) = m /\ \A k \in 1 .. Len(d) : IsDigit(d[k])
  BY DigitsSay
<1>4. /\ body \in Text /\ Len(body) \in Nat /\ Len(body) = Len(sign) + Len(d) /\ Len(d) \in Nat
      /\ \A k \in 1 .. Len(sign) + Len(d) :
            body[k] = IF k <= Len(sign) THEN sign[k] ELSE d[k - Len(sign)]
  BY <1>2, <1>3, ConcatProperties, LenProperties DEF Text
<1>5. a \in Text /\ Len(a) = 1 /\ z \in Text /\ EndChar \in Char
  BY DEF Char, IntChar, EndChar, Text
<1>6. Stands(t, i, a \o body \o z) /\ Len(EncodeInt(n)) = Len(body) + 2
  BY <1>2
<1>7. Stands(t, i + 1, body) /\ Stands(t, i + 1, body \o z) /\ i + 1 \in Nat \ {0}
  <2> HIDE DEF body, a, z
  <2>1. a \o body \o z = a \o (body \o z) /\ body \o z \in Text
    <3>1. a \in Seq(Char) /\ body \in Seq(Char) /\ z \in Seq(Char)
      BY <1>4, <1>5 DEF Text
    <3>2. (a \o body) \o z = a \o (body \o z)
      BY <3>1, ConcatAssociative
    <3>3. body \o z \in Seq(Char)
      BY <3>1, ConcatProperties
    <3> QED
      BY <3>2, <3>3 DEF Text
  <2> DEFINE bz == body \o z
  <2>2. Stands(t, i, a \o bz) /\ bz \in Text
    BY <1>6, <2>1
  <2> HIDE DEF bz
  <2>3. Stands(t, i + Len(a), bz)
    BY <1>5, <2>2, StandsParts
  <2>4. Stands(t, i + 1, bz) /\ i + 1 \in Nat \ {0}
    BY <1>5, <2>3
  <2>5. Stands(t, i + 1, body \o z)
    BY <2>4 DEF bz
  <2> QED
    BY <1>4, <1>5, <2>4, <2>5, StandsParts
<1>8. \A k \in 1 .. Len(body) : body[k] # EndChar
  <2> SUFFICES ASSUME NEW k \in 1 .. Len(body) PROVE body[k] # EndChar
    OBVIOUS
  <2>1. CASE k <= Len(sign)
    <3>1. k \in 1 .. Len(sign) /\ k \in 1 .. Len(sign) + Len(d)
      BY <1>2, <1>4, <2>1
    <3>2. body[k] = Minus
      BY <1>2, <1>4, <2>1, <3>1
    <3> QED
      BY <3>2 DEF Minus, EndChar
  <2>2. CASE ~(k <= Len(sign))
    <3>1. k - Len(sign) \in 1 .. Len(d) /\ k \in 1 .. Len(sign) + Len(d)
      BY <1>2, <1>4, <2>2
    <3>2. body[k] = d[k - Len(sign)]
      BY <1>4, <2>2, <3>1
    <3>3. IsDigit(d[k - Len(sign)])
      BY <1>3, <3>1
    <3>4. \A c : IsDigit(c) => c # EndChar
      BY DEF IsDigit, Zero, Nine, EndChar
    <3> HIDE DEF body, d
    <3> QED
      BY <3>2, <3>3, <3>4
  <2> QED
    BY <2>1, <2>2
<1>9. Contains(body, Minus) <=> n < 0
  <2>1. ASSUME n < 0 PROVE Contains(body, Minus)
    <3>1. Len(sign) = 1
      <4>1. Len(<<Minus>>) = 1
        OBVIOUS
      <4> QED
        BY <1>2, <2>1, <4>1
    <3>2. 1 \in 1 .. Len(body) /\ 1 \in 1 .. Len(sign) + Len(d) /\ 1 <= Len(sign) /\ 1 \in 1 .. Len(sign)
      BY <1>4, <3>1
    <3>3. body[1] = Minus
      BY <1>2, <1>4, <3>2
    <3> HIDE DEF body
    <3> QED
      BY <3>2, <3>3 DEF Contains
  <2>2. ASSUME ~(n < 0), Contains(body, Minus) PROVE FALSE
    <3>1. sign = <<>> /\ Len(sign) = 0
      BY <1>2, <2>2, EmptySeq
    <3>2. PICK k \in 1 .. Len(body) : body[k] = Minus
      <4> HIDE DEF body
      <4> QED
        BY <2>2 DEF Contains
    <3>3. k \in 1 .. Len(d) /\ k \in 1 .. Len(sign) + Len(d) /\ ~(k <= Len(sign)) /\ k - Len(sign) = k
      BY <1>4, <3>1
    <3>4. body[k] = d[k] /\ IsDigit(d[k])
      BY <1>3, <1>4, <3>3
    <3>5. \A c : IsDigit(c) => c # Minus
      BY DEF IsDigit, Zero, Nine, Minus
    <3> HIDE DEF body, d
    <3> QED
      BY <3>2, <3>4, <3>5
  <2> QED
    BY <2>1, <2>2
<1>10. Unsigned(body) = d /\ Leading(d) = d /\ d # <<>>
  <2>1. Unsigned(body) = d
    BY <1>3, UnsignedIs
  <2>2. Leading(d) = d /\ d # <<>>
    <3>1. Len(<<>>) = 0
      BY EmptySeq
    <3> HIDE DEF d
    <3> QED
      BY <1>3, <3>1, LeadingIs
  <2> QED
    BY <2>1, <2>2
<1> HIDE DEF body, d
<1> DEFINE e == (i + 1) + Len(body)
<1>11. FirstOf(t, {EndChar}, i + 1) = e
  <2> DEFINE l == i + 1
             S == {EndChar}
  <2>1. /\ Stands(t, l, body \o <<EndChar>>) /\ l \in Nat \ {0} /\ EndChar \in S
        /\ \A k \in 1 .. Len(body) : body[k] \notin S
    BY <1>7, <1>8 DEF z
  <2> HIDE DEF l, S
  <2>2. FirstOf(t, S, l) = l + Len(body)
    BY <1>4, <1>5, <2>1, FirstBehind
  <2> QED
    BY <2>2 DEF l, S
<1>12. SubSeq(t, i + 1, e - 1) = body
  <2> DEFINE l == i + 1
  <2>1. Stands(t, l, body) /\ l \in Nat \ {0}
    BY <1>7
  <2>2. e - 1 = l + Len(body) - 1
    BY <1>4
  <2> HIDE DEF l, e
  <2>3. SubSeq(t, l, l + Len(body) - 1) = body
    BY <1>4, <2>1, StandsCut
  <2> QED
    BY <2>2, <2>3 DEF l
<1>13. e + 1 = i + Len(EncodeInt(n))
  BY <1>4, <1>6
<1> HIDE DEF e
<1>14. CASE n = -MaxInt - 1
  <2>1. m > MaxInt
    BY <1>1, <1>2, <1>14
  <2> QED
    BY <1>3, <1>10, <1>11, <1>12, <1>13, <1>14, <2>1 DEF ReadInt
<1>15. CASE n # -MaxInt - 1
  <2>1. ~(m > MaxInt) /\ n = IF n < 0 THEN -m ELSE m
    BY <1>1, <1>2, <1>15
  <2>2. ~(Leading(Unsigned(SubSeq(t, i + 1, e - 1))) = <<>> \/ NumberOf(d) > MaxInt)
    BY <1>3, <1>10, <1>12, <2>1
  <2>3. NumberOf(Leading(Unsigned(SubSeq(t, i + 1, e - 1)))) = m
    BY <1>3, <1>10, <1>12
  <2> QED
    BY <1>3, <1>9, <1>10, <1>11, <1>12, <1>13, <1>15, <2>1, <2>3 DEF ReadInt
<1> QED
  BY <1>14, <1>15

-----------------------------------------------------------------------------
(* The order of the keys                                                   *)

(* A text has characters, which are numbers.                               *)
LEMMA TextIs ==
  ASSUME NEW t \in Text
  PROVE  /\ Len(t) \in Nat /\ DOMAIN t = 1 .. Len(t)
         /\ \A j \in 1 .. Len(t) : t[j] \in Char /\ t[j] \in Int
<1>1. Len(t) \in Nat /\ DOMAIN t = 1 .. Len(t)
  BY LenProperties DEF Text
<1>2. \A j \in 1 .. Len(t) : t[j] \in Char
  BY ElementOfSeq DEF Text
<1>3. \A c \in Char : c \in Int
  BY DEF Char
<1> QED
  BY <1>1, <1>2, <1>3

(* The order of std::map is irreflexive ...                                *)
LEMMA BeforeIsStrict ==
  ASSUME NEW s \in Text, Before(s, s)
  PROVE  FALSE
<1>1. PICK k \in 1 .. Len(s) : k <= Len(s) => s[k] < s[k]
  BY DEF Before
<1>2. k \in 1 .. Len(s) /\ k <= Len(s) /\ s[k] \in Int
  BY TextIs
<1> QED
  BY <1>1, <1>2

(* ... transitive ...                                                      *)
LEMMA BeforeIsTransitive ==
  ASSUME NEW s \in Text, NEW u \in Text, NEW w \in Text, Before(s, u), Before(u, w)
  PROVE  Before(s, w)
<1>0. /\ Len(s) \in Nat /\ Len(u) \in Nat /\ Len(w) \in Nat
      /\ (\A j \in 1 .. Len(s) : s[j] \in Int) /\ (\A j \in 1 .. Len(u) : u[j] \in Int)
      /\ (\A j \in 1 .. Len(w) : w[j] \in Int)
  BY TextIs
<1>1. PICK k \in 1 .. Len(u) : /\ k <= Len(s) + 1
                               /\ \A j \in 1 .. k - 1 : s[j] = u[j]
                               /\ k <= Len(s) => s[k] < u[k]
  BY DEF Before
<1>2. PICK l \in 1 .. Len(w) : /\ l <= Len(u) + 1
                               /\ \A j \in 1 .. l - 1 : u[j] = w[j]
                               /\ l <= Len(u) => u[l] < w[l]
  BY DEF Before
<1>3. CASE k < l
  <2>1. k \in 1 .. Len(w) /\ k \in 1 .. l - 1
    BY <1>0, <1>2, <1>3
  <2>2. u[k] = w[k]
    BY <1>2, <2>1
  <2>3. \A j \in 1 .. k - 1 : s[j] = w[j]
    <3> SUFFICES ASSUME NEW j \in 1 .. k - 1 PROVE s[j] = w[j]
      OBVIOUS
    <3>1. j \in 1 .. l - 1
      BY <1>3
    <3> QED
      BY <1>1, <1>2, <3>1
  <2> QED
    BY <1>1, <2>1, <2>2, <2>3 DEF Before
<1>4. CASE k = l
  <2>1. \A j \in 1 .. k - 1 : s[j] = w[j]
    BY <1>1, <1>2, <1>4
  <2>2. k <= Len(s) => s[k] < w[k]
    <3> SUFFICES ASSUME k <= Len(s) PROVE s[k] < w[k]
      OBVIOUS
    <3>1. s[k] < u[k] /\ u[k] < w[k]
      BY <1>0, <1>1, <1>2, <1>4
    <3>2. s[k] \in Int /\ u[k] \in Int /\ w[k] \in Int
      BY <1>0, <1>4
    <3> QED
      BY <3>1, <3>2
  <2>3. k \in 1 .. Len(w)
    BY <1>4
  <2> QED
    BY <1>1, <2>1, <2>2, <2>3 DEF Before
<1>5. CASE l < k
  <2>1. \A j \in 1 .. l - 1 : s[j] = w[j]
    <3> SUFFICES ASSUME NEW j \in 1 .. l - 1 PROVE s[j] = w[j]
      OBVIOUS
    <3>1. j \in 1 .. k - 1
      BY <1>5
    <3> QED
      BY <1>1, <1>2, <3>1
  <2>2. l \in 1 .. k - 1 /\ l <= Len(u) /\ l <= Len(s) + 1
    BY <1>0, <1>1, <1>5
  <2>3. s[l] = u[l] /\ u[l] < w[l]
    BY <1>1, <1>2, <2>2
  <2> QED
    BY <2>1, <2>2, <2>3 DEF Before
<1> QED
  BY <1>3, <1>4, <1>5

(* ... and total.                                                          *)
LEMMA BeforeIsTotal ==
  ASSUME NEW s \in Text, NEW u \in Text, s # u
  PROVE  Before(s, u) \/ Before(u, s)
<1>0. /\ Len(s) \in Nat /\ Len(u) \in Nat
      /\ (\A j \in 1 .. Len(s) : s[j] \in Int) /\ (\A j \in 1 .. Len(u) : u[j] \in Int)
  BY TextIs
<1> DEFINE diff == {j \in Nat \ {0} : /\ j <= Len(s) \/ j <= Len(u)
                                      /\ j <= Len(s) /\ j <= Len(u) => s[j] # u[j]}
<1>1. diff # {}
  <2> SUFFICES ASSUME diff = {} PROVE FALSE
    OBVIOUS
  <2>1. \A j \in Nat \ {0} : j <= Len(s) \/ j <= Len(u) =>
           j <= Len(s) /\ j <= Len(u) /\ s[j] = u[j]
    OBVIOUS
  <2>2. Len(s) = Len(u)
    <3>1. Len(s) # 0 => Len(s) <= Len(u)
      BY <1>0, <2>1
    <3>2. Len(u) # 0 => Len(u) <= Len(s)
      BY <1>0, <2>1
    <3> QED
      BY <1>0, <3>1, <3>2
  <2>3. \A j \in 1 .. Len(s) : s[j] = u[j]
    BY <1>0, <2>1
  <2>4. s = u
    BY <2>2, <2>3, SeqEqual DEF Text
  <2> QED
    BY <2>4
<1>2. PICK k \in diff : \A j \in diff : k <= j
  <2>1. diff \subseteq Nat
    OBVIOUS
  <2> HIDE DEF diff
  <2> QED
    BY <1>1, <2>1, LeastNumber
<1>3. \A j \in 1 .. k - 1 : j <= Len(s) /\ j <= Len(u) /\ s[j] = u[j]
  <2> SUFFICES ASSUME NEW j \in 1 .. k - 1 PROVE j <= Len(s) /\ j <= Len(u) /\ s[j] = u[j]
    OBVIOUS
  <2>1. j \in Nat \ {0} /\ j < k /\ k \in Nat
    OBVIOUS
  <2>2. j \notin diff
    BY <1>2, <2>1
  <2>3. j <= Len(s) \/ j <= Len(u)
    BY <1>0, <2>1
  <2> QED
    BY <2>1, <2>2, <2>3
<1>4. /\ k \in Nat \ {0} /\ (k <= Len(s) \/ k <= Len(u))
      /\ k <= Len(s) /\ k <= Len(u) => s[k] # u[k]
  OBVIOUS
<1> HIDE DEF diff
<1>5. k <= Len(s) + 1 /\ k <= Len(u) + 1
  <2>1. CASE k = 1
    BY <1>0, <2>1
  <2>2. CASE k # 1
    <3>1. k - 1 \in 1 .. k - 1
      BY <1>4, <2>2
    <3>2. k - 1 <= Len(s) /\ k - 1 <= Len(u)
      BY <1>3, <3>1
    <3> QED
      BY <1>0, <1>4, <3>2
  <2> QED
    BY <2>1, <2>2
<1>6. CASE k <= Len(u) /\ (k <= Len(s) => s[k] < u[k])
  BY <1>0, <1>3, <1>4, <1>5, <1>6 DEF Before
<1>7. CASE k <= Len(s) /\ (k <= Len(u) => u[k] < s[k])
  BY <1>0, <1>3, <1>4, <1>5, <1>7 DEF Before
<1>8. k <= Len(s) /\ k <= Len(u) => s[k] < u[k] \/ u[k] < s[k]
  <2> SUFFICES ASSUME k <= Len(s), k <= Len(u) PROVE s[k] < u[k] \/ u[k] < s[k]
    OBVIOUS
  <2>1. s[k] \in Int /\ u[k] \in Int /\ s[k] # u[k]
    BY <1>0, <1>4
  <2> QED
    BY <2>1
<1> QED
  BY <1>4, <1>6, <1>7, <1>8

(* A finite set of texts that is not empty has a last one.                 *)
LEMMA LastText ==
  \A n \in Nat : \A K : K \subseteq Text /\ IsFiniteSet(K) /\ Cardinality(K) = n /\ K # {} =>
     \E m \in K : \A k \in K : k = m \/ Before(k, m)
<1> DEFINE Has(K) == \E m \in K : \A k \in K : k = m \/ Before(k, m)
           Below(n) == \A K : K \subseteq Text /\ IsFiniteSet(K) /\ Cardinality(K) = n /\ K # {} => Has(K)
           T == {n \in Nat : Below(n)}
<1>1. Below(0)
  BY FS_EmptySet
<1>2. ASSUME NEW n \in Nat, Below(n) PROVE Below(n + 1)
  <2> SUFFICES ASSUME NEW K, K \subseteq Text, IsFiniteSet(K), Cardinality(K) = n + 1, K # {}
               PROVE  Has(K)
    OBVIOUS
  <2>1. PICK x \in K : TRUE
    OBVIOUS
  <2> DEFINE R == K \ {x}
  <2>2. IsFiniteSet(R) /\ Cardinality(R) = n
    BY FS_RemoveElement
  <2>3. CASE R = {}
    BY <2>3
  <2>4. CASE R # {}
    <3>1. Has(R)
      BY <1>2, <2>2, <2>4
    <3>2. PICK m \in R : \A k \in R : k = m \/ Before(k, m)
      BY <3>1
    <3>3. m \in K /\ m # x /\ m \in Text /\ x \in Text
      OBVIOUS
    <3>4. CASE Before(x, m)
      <4>1. \A k \in K : k = m \/ Before(k, m)
        BY <3>2, <3>4
      <4> QED
        BY <3>3, <4>1
    <3>5. CASE Before(m, x)
      <4>1. ASSUME NEW k \in K PROVE k = x \/ Before(k, x)
        <5>1. CASE k \in R
          <6>1. k = m \/ Before(k, m)
            BY <3>2, <5>1
          <6>2. k \in Text
            OBVIOUS
          <6> QED
            BY <3>3, <3>5, <6>1, <6>2, BeforeIsTransitive
        <5> QED
          BY <5>1
      <4> QED
        BY <4>1
    <3> QED
      BY <3>3, <3>4, <3>5, BeforeIsTotal
  <2> QED
    BY <2>3, <2>4
<1> HIDE DEF Below
<1>3. 0 \in T /\ \A n \in Nat : n \in T => n + 1 \in T
  BY <1>1, <1>2
<1> HIDE DEF T
<1>4. Nat \subseteq T
  BY <1>3, Induction
<1> QED
  BY <1>4 DEF T, Below

(* s lists texts of K in their order.                                      *)
Lists(s, K) ==
    /\ s \in [1 .. Cardinality(K) -> K]
    /\ \A j, k \in 1 .. Cardinality(K) : j < k => Before(s[j], s[k])

(* A finite set of texts can be listed.                                    *)
LEMMA SortedExists ==
  \A n \in Nat : \A K : K \subseteq Text /\ IsFiniteSet(K) /\ Cardinality(K) = n => \E s : Lists(s, K)
<1> DEFINE Below(n) == \A K : K \subseteq Text /\ IsFiniteSet(K) /\ Cardinality(K) = n
                                => \E s : Lists(s, K)
           T == {n \in Nat : Below(n)}
<1>1. Below(0)
  <2> SUFFICES ASSUME NEW K, Cardinality(K) = 0 PROVE \E s : Lists(s, K)
    OBVIOUS
  <2> DEFINE s == [j \in 1 .. 0 |-> <<>>]
  <2>1. Lists(s, K)
    BY DEF Lists
  <2> QED
    BY <2>1
<1>2. ASSUME NEW n \in Nat, Below(n) PROVE Below(n + 1)
  <2> SUFFICES ASSUME NEW K, K \subseteq Text, IsFiniteSet(K), Cardinality(K) = n + 1
               PROVE  \E s : Lists(s, K)
    OBVIOUS
  <2>1. K # {}
    BY FS_EmptySet
  <2>2. PICK m \in K : \A k \in K : k = m \/ Before(k, m)
    <3>1. n + 1 \in Nat
      OBVIOUS
    <3> QED
      BY <2>1, <3>1, LastText
  <2> DEFINE R == K \ {m}
  <2>3. IsFiniteSet(R) /\ Cardinality(R) = n /\ R \subseteq Text
    BY FS_RemoveElement
  <2>4. PICK s : Lists(s, R)
    BY <1>2, <2>3
  <2>5. s \in [1 .. n -> R] /\ \A j, k \in 1 .. n : j < k => Before(s[j], s[k])
    BY <2>3, <2>4 DEF Lists
  <2> HIDE DEF Below
  <2> DEFINE u == [j \in 1 .. n + 1 |-> IF j = n + 1 THEN m ELSE s[j]]
  <2>6. u \in [1 .. n + 1 -> K]
    BY <2>5
  <2>7. ASSUME NEW j \in 1 .. n + 1, NEW k \in 1 .. n + 1, j < k PROVE Before(u[j], u[k])
    <3>1. j \in 1 .. n /\ j # n + 1 /\ u[j] = s[j] /\ s[j] \in R
      BY <2>5, <2>7
    <3>2. CASE k = n + 1
      BY <2>2, <3>1, <3>2
    <3>3. CASE k # n + 1
      <4>1. k \in 1 .. n /\ u[k] = s[k]
        BY <3>3
      <4> HIDE DEF u
      <4> QED
        BY <2>5, <2>7, <3>1, <4>1
    <3> QED
      BY <3>2, <3>3
  <2> HIDE DEF u
  <2>8. Lists(u, K)
    BY <2>6, <2>7 DEF Lists
  <2> QED
    BY <2>8
<1> HIDE DEF Below
<1>3. 0 \in T /\ \A n \in Nat : n \in T => n + 1 \in T
  BY <1>1, <1>2
<1> HIDE DEF T
<1>4. Nat \subseteq T
  BY <1>3, Induction
<1> QED
  BY <1>4 DEF T, Below

(* Sorted lists each key once.                                             *)
LEMMA SortedIs ==
  ASSUME NEW K, K \subseteq Text, IsFiniteSet(K)
  PROVE  /\ Sorted(K) \in Seq(Text) /\ DOMAIN Sorted(K) = 1 .. Len(Sorted(K))
         /\ Len(Sorted(K)) \in Nat
         /\ \A j \in 1 .. Len(Sorted(K)) : Sorted(K)[j] \in K
         /\ \A j, k \in 1 .. Len(Sorted(K)) : j # k => Sorted(K)[j] # Sorted(K)[k]
         /\ \A x \in K : \E j \in 1 .. Len(Sorted(K)) : Sorted(K)[j] = x
<1> DEFINE n == Cardinality(K)
           s == Sorted(K)
<1>1. n \in Nat
  BY FS_CardinalityType
<1>2. \E u : Lists(u, K)
  BY <1>1, SortedExists
<1>3. \E u \in [1 .. n -> K] : \A j, k \in 1 .. n : j < k => Before(u[j], u[k])
  BY <1>2 DEF Lists
<1>4. s \in [1 .. n -> K] /\ \A j, k \in 1 .. n : j < k => Before(s[j], s[k])
  BY <1>3 DEF Sorted
<1> HIDE DEF s
<1>5. s \in Seq(Text) /\ Len(s) = n /\ DOMAIN s = 1 .. n
  <2>1. s \in [1 .. n -> Text] /\ DOMAIN s = 1 .. n
    BY <1>4
  <2>2. s \in Seq(Text)
    BY <1>1, <2>1
  <2>3. DOMAIN s = 1 .. Len(s) /\ Len(s) \in Nat
    BY <2>2, LenProperties
  <2> HIDE DEF n
  <2> QED
    BY <1>1, <2>1, <2>2, <2>3
<1>6. \A j, k \in 1 .. n : j # k => s[j] # s[k]
  <2>1. ASSUME NEW j \in 1 .. n, NEW k \in 1 .. n, j < k PROVE s[j] # s[k]
    <3>1. Before(s[j], s[k]) /\ s[j] \in Text
      BY <1>4, <2>1
    <3> QED
      BY <3>1, BeforeIsStrict
  <2> HIDE DEF n
  <2>2. \A j, k \in 1 .. n : j # k => j < k \/ k < j
    BY <1>1
  <2> QED
    BY <2>1, <2>2
<1>7. \A x \in K : \E j \in 1 .. n : s[j] = x
  <2>1. IsFiniteSet(1 .. n) /\ Cardinality(1 .. n) = n
    BY <1>1, FS_Interval
  <2>2. s \in Injection(1 .. n, K)
    BY <1>4, <1>6 DEF Injection, IsInjective
  <2>3. s \in Surjection(1 .. n, K)
    BY <2>1, <2>2, FS_Injection
  <2> QED
    BY <2>3 DEF Surjection
<1> HIDE DEF n
<1> QED
  BY <1>1, <1>4, <1>5, <1>6, <1>7 DEF s

-----------------------------------------------------------------------------
(* What is written of a value                                              *)

(* A function of the numbers 1 .. n is a sequence.                         *)
LEMMA IsSeq ==
  ASSUME NEW S, NEW n \in Nat, NEW f \in [1 .. n -> S]
  PROVE  f \in Seq(S) /\ Len(f) = n
  OBVIOUS

(* FlattenSeq makes one text of texts.                                     *)
LEMMA FlattenIs ==
  ASSUME NEW S, NEW ss \in Seq(Seq(S))
  PROVE  FlattenSeq(ss) \in Seq(S)
<1>1. PICK flat \in [0 .. Len(ss) -> Seq(S)] : FlattenSeq(ss) = flat[Len(ss)]
  BY FlattenParts
<1>2. Len(ss) \in Nat
  BY LenProperties
<1> QED
  BY <1>1, <1>2

(* A value is of one kind.                                                 *)
LEMMA KindIs ==
  ASSUME ValuesAssumption, NEW v \in Values
  PROVE  \/ v.kind = "int" /\ IsInt(v)
         \/ v.kind = "str" /\ IsStr(v)
         \/ v.kind = "list" /\ IsList(v)
         \/ v.kind = "dict" /\ IsDict(v)
<1>1. IsInt(v) => v.kind = "int"
  BY DEF IsInt, IntVal
<1>2. IsStr(v) => v.kind = "str"
  BY DEF IsStr, StrVal
<1>3. IsList(v) => v.kind = "list"
  BY DEF IsList, ListVal
<1>4. IsDict(v) => v.kind = "dict"
  BY DEF IsDict, DictVal
<1> QED
  BY <1>1, <1>2, <1>3, <1>4 DEF ValuesAssumption

(* The texts of the parts of a list ...                                    *)
LEMMA ItemsAre ==
  ASSUME NEW g \in [Values -> Text], NEW v \in Values, IsList(v)
  PROVE  /\ [j \in DOMAIN v.val |-> g[v.val[j]]] \in Seq(Text)
         /\ Len([j \in DOMAIN v.val |-> g[v.val[j]]]) = Len(v.val)
         /\ DOMAIN v.val = 1 .. Len(v.val) /\ Len(v.val) \in Nat
         /\ \A j \in 1 .. Len(v.val) : v.val[j] \in Values
<1> DEFINE l == v.val
<1>1. l \in Seq(Values)
  BY DEF IsList
<1> HIDE DEF l
<1>2. DOMAIN l = 1 .. Len(l) /\ Len(l) \in Nat /\ \A j \in 1 .. Len(l) : l[j] \in Values
  BY <1>1, LenProperties, ElementOfSeq
<1> DEFINE f == [j \in DOMAIN l |-> g[l[j]]]
<1>3. f \in [1 .. Len(l) -> Text]
  BY <1>2
<1> HIDE DEF f
<1>4. f \in Seq(Text) /\ Len(f) = Len(l)
  BY <1>2, <1>3, IsSeq
<1> QED
  BY <1>2, <1>4 DEF f, l

(* ... and of a dictionary: its entries, one for each of its keys.         *)
LEMMA EntriesAre ==
  ASSUME NEW g \in [Values -> Text], NEW v \in Values, IsDict(v)
  PROVE  LET keys == Sorted(DOMAIN v.val)
         IN  /\ [j \in DOMAIN keys |-> WriteEntry(g, v.val, keys[j])] \in Seq(Text)
             /\ Len([j \in DOMAIN keys |-> WriteEntry(g, v.val, keys[j])]) = Len(keys)
             /\ DOMAIN keys = 1 .. Len(keys) /\ Len(keys) \in Nat
             /\ \A j \in 1 .. Len(keys) :
                   /\ keys[j] \in Text /\ keys[j] \in DOMAIN v.val
                   /\ v.val[keys[j]] \in Values
<1> DEFINE d == v.val
           keys == Sorted(DOMAIN d)
<1>1. /\ DOMAIN d \subseteq Text /\ IsFiniteSet(DOMAIN d)
      /\ \A k \in DOMAIN d : d[k] \in Values
  BY DEF IsDict
<1> HIDE DEF d
<1>2. /\ DOMAIN keys = 1 .. Len(keys) /\ Len(keys) \in Nat
      /\ \A j \in 1 .. Len(keys) : keys[j] \in DOMAIN d
  BY <1>1, SortedIs
<1> HIDE DEF keys
<1>3. \A j \in 1 .. Len(keys) : keys[j] \in Text /\ d[keys[j]] \in Values
  BY <1>1, <1>2
<1> DEFINE f == [j \in DOMAIN keys |-> WriteEntry(g, d, keys[j])]
<1>4. \A j \in 1 .. Len(keys) : WriteEntry(g, d, keys[j]) \in Text
  <2> SUFFICES ASSUME NEW j \in 1 .. Len(keys) PROVE WriteEntry(g, d, keys[j]) \in Text
    OBVIOUS
  <2>1. EncodeStr(keys[j]) \in Text
    BY <1>3, EncodeStrIs
  <2>2. g[d[keys[j]]] \in Text
    BY <1>3
  <2> QED
    BY <2>1, <2>2, ConcatProperties DEF WriteEntry, Text
<1>5. f \in [1 .. Len(keys) -> Text]
  BY <1>2, <1>4
<1> HIDE DEF f
<1>6. f \in Seq(Text) /\ Len(f) = Len(keys)
  BY <1>2, <1>5, IsSeq
<1> QED
  BY <1>2, <1>3, <1>6 DEF f, keys, d

(* What is written between two characters.                                 *)
LEMMA Between ==
  ASSUME NEW b \in Char, NEW e \in Char, NEW s \in Text
  PROVE  /\ <<b>> \o s \o <<e>> \in Text /\ Len(<<b>> \o s \o <<e>>) = Len(s) + 2
         /\ (<<b>> \o s \o <<e>>)[1] = b
<1> DEFINE a == <<b>>
           z == <<e>>
<1>1. a \in Seq(Char) /\ z \in Seq(Char) /\ Len(a) = 1 /\ Len(z) = 1 /\ a[1] = b
  OBVIOUS
<1>2. s \in Seq(Char) /\ Len(s) \in Nat
  BY LenProperties DEF Text
<1> HIDE DEF a, z
<1> DEFINE as == a \o s
<1>3. /\ as \in Seq(Char) /\ Len(as) = Len(a) + Len(s)
      /\ \A i \in 1 .. Len(a) + Len(s) : as[i] = IF i <= Len(a) THEN a[i] ELSE s[i - Len(a)]
  BY <1>1, <1>2, ConcatProperties
<1> HIDE DEF as
<1>4. /\ as \o z \in Seq(Char) /\ Len(as \o z) = Len(as) + Len(z)
      /\ \A i \in 1 .. Len(as) + Len(z) :
            (as \o z)[i] = IF i <= Len(as) THEN as[i] ELSE z[i - Len(as)]
  <2>1. as \in Seq(Char) /\ z \in Seq(Char)
    BY <1>1, <1>3
  <2> QED
    BY <2>1, ConcatProperties
<1>5. /\ 1 \in 1 .. Len(a) + Len(s) /\ 1 <= Len(a) /\ 1 \in 1 .. Len(as) + Len(z) /\ 1 <= Len(as)
  BY <1>1, <1>2, <1>3
<1>6. (as \o z)[1] = b
  BY <1>1, <1>3, <1>4, <1>5
<1>7. Len(as \o z) = Len(s) + 2
  BY <1>1, <1>2, <1>3, <1>4
<1> QED
  BY <1>4, <1>6, <1>7 DEF as, a, z, Text

(* A value is written as a text that begins with one of the characters by  *)
(* which read_bencode goes.                                                *)
LEMMA WrittenIs ==
  ASSUME FormatsAssumption, ValuesAssumption, NEW g \in [Values -> Text], NEW v \in Values
  PROVE  WriteOne(g, v) \in Text /\ Len(WriteOne(g, v)) >= 1 /\ Starts(WriteOne(g, v)[1])
<1>1. ListChar \in Char /\ DictChar \in Char /\ EndChar \in Char
  BY DEF Char, ListChar, DictChar, EndChar
<1>2. CASE v.kind = "int" /\ IsInt(v)
  <2>1. v.val \in Int
    BY <1>2 DEF IsInt, FormatsAssumption
  <2> DEFINE t == EncodeInt(v.val)
  <2>2. t \in Text /\ t[1] = IntChar /\ \E s \in Text : Len(t) = Len(s) + 2
    BY <2>1, EncodeIntIs
  <2>3. WriteOne(g, v) = t
    BY <1>2 DEF WriteOne
  <2> HIDE DEF t
  <2>4. Len(t) >= 1
    BY <2>2, TextIs
  <2> QED
    BY <2>2, <2>3, <2>4 DEF Starts
<1>3. CASE v.kind = "str" /\ IsStr(v)
  <2> DEFINE t == EncodeStr(v.val)
  <2>1. t \in Text /\ Len(t) >= 1 /\ IsDigit(t[1])
    BY <1>3, EncodeStrIs DEF IsStr
  <2>2. WriteOne(g, v) = t
    BY <1>3 DEF WriteOne
  <2> HIDE DEF t
  <2> QED
    BY <2>1, <2>2 DEF Starts
<1>4. CASE v.kind = "list" /\ IsList(v)
  <2> DEFINE s == FlattenSeq([j \in DOMAIN v.val |-> g[v.val[j]]])
             t == <<ListChar>> \o s \o <<EndChar>>
  <2>1. s \in Text
    <3>1. [j \in DOMAIN v.val |-> g[v.val[j]]] \in Seq(Text)
      BY <1>4, ItemsAre
    <3> QED
      BY <3>1, FlattenIs DEF Text
  <2>2. WriteOne(g, v) = t
    BY <1>4 DEF WriteOne
  <2> HIDE DEF s
  <2>3. t \in Text /\ Len(t) = Len(s) + 2 /\ t[1] = ListChar
    BY <1>1, <2>1, Between
  <2> HIDE DEF t
  <2>4. Len(t) >= 1
    BY <2>1, <2>3, TextIs
  <2> QED
    BY <2>2, <2>3, <2>4 DEF Starts
<1>5. CASE v.kind = "dict" /\ IsDict(v)
  <2> DEFINE s == FlattenSeq([j \in DOMAIN Sorted(DOMAIN v.val) |->
                                WriteEntry(g, v.val, Sorted(DOMAIN v.val)[j])])
             t == <<DictChar>> \o s \o <<EndChar>>
  <2>1. s \in Text
    <3>1. [j \in DOMAIN Sorted(DOMAIN v.val) |-> WriteEntry(g, v.val, Sorted(DOMAIN v.val)[j])] \in Seq(Text)
      BY <1>5, EntriesAre
    <3> QED
      BY <3>1, FlattenIs DEF Text
  <2>2. WriteOne(g, v) = t
    BY <1>5 DEF WriteOne
  <2> HIDE DEF s
  <2>3. t \in Text /\ Len(t) = Len(s) + 2 /\ t[1] = DictChar
    BY <1>1, <2>1, Between
  <2> HIDE DEF t
  <2>4. Len(t) >= 1
    BY <2>1, <2>3, TextIs
  <2> QED
    BY <2>2, <2>3, <2>4 DEF Starts
<1> QED
  BY <1>2, <1>3, <1>4, <1>5, KindIs

(* What is written of a value depends only on what is written of its       *)
(* parts, which are nested less deep.                                      *)
LEMMA WrittenAgrees ==
  ASSUME ValuesAssumption, NEW g, NEW h, NEW v \in Values,
         \A w \in Values : Depth[w] < Depth[v] => g[w] = h[w]
  PROVE  WriteOne(g, v) = WriteOne(h, v)
<1>1. CASE v.kind = "int" \/ v.kind = "str"
  BY <1>1 DEF WriteOne
<1>2. CASE v.kind = "list" /\ IsList(v)
  <2>1. \A j \in DOMAIN v.val : g[v.val[j]] = h[v.val[j]]
    <3> SUFFICES ASSUME NEW j \in DOMAIN v.val PROVE g[v.val[j]] = h[v.val[j]]
      OBVIOUS
    <3> DEFINE l == v.val
    <3>1. l \in Seq(Values) /\ Depth[l[j]] < Depth[v]
      BY <1>2 DEF IsList
    <3> HIDE DEF l
    <3>2. j \in DOMAIN l
      BY DEF l
    <3>3. l[j] \in Values
      BY <3>1, <3>2, LenProperties, ElementOfSeq
    <3>4. g[l[j]] = h[l[j]]
      BY <3>1, <3>3
    <3> QED
      BY <3>4 DEF l
  <2>2. [j \in DOMAIN v.val |-> g[v.val[j]]] = [j \in DOMAIN v.val |-> h[v.val[j]]]
    BY <2>1
  <2> QED
    BY <1>2, <2>2 DEF WriteOne
<1>3. CASE v.kind = "dict" /\ IsDict(v)
  <2> DEFINE keys == Sorted(DOMAIN v.val)
  <2>1. \A j \in DOMAIN keys : WriteEntry(g, v.val, keys[j]) = WriteEntry(h, v.val, keys[j])
    <3> SUFFICES ASSUME NEW j \in DOMAIN keys PROVE WriteEntry(g, v.val, keys[j]) = WriteEntry(h, v.val, keys[j])
      OBVIOUS
    <3>1. DOMAIN v.val \subseteq Text /\ IsFiniteSet(DOMAIN v.val)
      BY <1>3 DEF IsDict
    <3>2. keys[j] \in DOMAIN v.val
      BY <3>1, SortedIs
    <3> HIDE DEF keys
    <3>3. v.val[keys[j]] \in Values /\ Depth[v.val[keys[j]]] < Depth[v]
      BY <1>3, <3>2 DEF IsDict
    <3> QED
      BY <3>3 DEF WriteEntry
  <2> HIDE DEF keys
  <2>2. [j \in DOMAIN keys |-> WriteEntry(g, v.val, keys[j])] = [j \in DOMAIN keys |-> WriteEntry(h, v.val, keys[j])]
    BY <2>1
  <2> QED
    BY <1>3, <2>2 DEF WriteOne, keys
<1> QED
  BY <1>1, <1>2, <1>3, KindIs

(* Encode writes a text for each value, as its definition says.            *)
LEMMA EncodeIs ==
  ASSUME FormatsAssumption, ValuesAssumption
  PROVE  /\ Encode \in [Values -> Text]
         /\ \A v \in Values : Encode[v] = WriteOne(Encode, v)
<1> DEFINE rhs(g) == [v \in Values |-> WriteOne(g, v)]
           F == [g \in [Values -> Text] |-> rhs(g)]
<1>0. Depth \in [Values -> Nat]
  BY DEF ValuesAssumption
<1>1. ASSUME NEW g \in [Values -> Text] PROVE rhs(g) \in [Values -> Text]
  BY WrittenIs
<1>2. Contracts(Values, Text, Depth, F)
  <2>1. [v \in Values |-> <<>>] \in [Values -> Text]
    BY EmptySeq DEF Text
  <2>2. \A g, h \in [Values -> Text] : \A v \in Values :
           (\A w \in Values : Depth[w] < Depth[v] => g[w] = h[w]) => F[g][v] = F[h][v]
    BY WrittenAgrees
  <2> HIDE DEF rhs
  <2>3. F \in [[Values -> Text] -> [Values -> Text]]
    BY <1>1
  <2> HIDE DEF F
  <2> QED
    BY <1>0, <2>1, <2>2, <2>3 DEF Contracts
<1>3. \E f : f = rhs(f)
  <2>1. \E f \in [Values -> Text] : f = F[f]
    <3> HIDE DEF F
    <3> QED
      BY <1>2, RankSolve
  <2> QED
    BY <2>1
<1> DEFINE e == Encode
<1>4. e = rhs(e)
  BY <1>3 DEF Encode
<1> HIDE DEF e
<1>5. \A v \in Values : e[v] = WriteOne(e, v)
  BY <1>4
<1> DEFINE T == {n \in Nat : \A v \in Values : Depth[v] = n => e[v] \in Text}
<1>6. ASSUME NEW n \in Nat, \A m \in Nat : m < n => m \in T PROVE n \in T
  <2> SUFFICES ASSUME NEW v \in Values, Depth[v] = n PROVE e[v] \in Text
    OBVIOUS
  <2> DEFINE g == [w \in Values |-> IF Depth[w] < n THEN e[w] ELSE <<>>]
  <2>1. g \in [Values -> Text]
    <3> SUFFICES ASSUME NEW w \in Values PROVE (IF Depth[w] < n THEN e[w] ELSE <<>>) \in Text
      OBVIOUS
    <3>1. <<>> \in Text
      BY EmptySeq DEF Text
    <3>2. Depth[w] \in Nat
      BY <1>0
    <3> QED
      BY <1>6, <3>1, <3>2
  <2>2. WriteOne(e, v) = WriteOne(g, v)
    <3>1. \A w \in Values : Depth[w] < Depth[v] => e[w] = g[w]
      OBVIOUS
    <3> HIDE DEF g
    <3> QED
      BY <3>1, WrittenAgrees
  <2> HIDE DEF g
  <2> QED
    BY <1>5, <2>1, <2>2, WrittenIs
<1> HIDE DEF T
<1>7. Nat \subseteq T
  BY <1>6, StrongInduction
<1>8. \A v \in Values : e[v] \in Text
  BY <1>0, <1>7 DEF T
<1>9. e \in [Values -> Text]
  BY <1>4, <1>8
<1> QED
  BY <1>5, <1>9 DEF e

-----------------------------------------------------------------------------
(* The reader                                                              *)

(* The right hand side of the reader of a text.                            *)
Places(t) == {"value", "items", "entries"} \X (1 .. Len(t) + 2)

Step(t, read, c) ==
    CASE c[1] = "value" -> ReadOne(t, read, c[2])
      [] c[1] = "items" -> ReadItems(t, read, c[2])
      [] c[1] = "entries" -> ReadEntries(t, read, c[2])

(* A reader that does not throw goes on in the text, and a value takes at  *)
(* least a character.                                                      *)
Goes(t, c, r) ==
    r.val # Thrown =>
        /\ r.pos \in Nat /\ c[2] <= r.pos /\ r.pos <= Len(t) + 2
        /\ c[1] = "value" /\ c[2] <= Len(t) /\ Starts(t[c[2]]) => c[2] < r.pos

Rank(t, c) == 2 * (Len(t) + 2 - c[2]) + (IF c[1] = "value" THEN 0 ELSE 1)

(* The lesser of two numbers.                                              *)
LEMMA MinTwo ==
  ASSUME NEW a \in Int, NEW b \in Int
  PROVE  Min({a, b}) = IF a <= b THEN a ELSE b
<1>1. \E x \in {a, b} : \A y \in {a, b} : x <= y
  OBVIOUS
<1>2. Min({a, b}) \in {a, b} /\ \A y \in {a, b} : Min({a, b}) <= y
  BY <1>1 DEF Min
<1> DEFINE m == Min({a, b})
<1>3. m \in {a, b} /\ m <= a /\ m <= b
  BY <1>2
<1> HIDE DEF m
<1>4. m = IF a <= b THEN a ELSE b
  BY <1>3
<1> QED
  BY <1>4 DEF m

(* A string that is read ends behind where it began, and not far behind    *)
(* the text.                                                               *)
LEMMA ReadStrGoes ==
  ASSUME NEW t \in Text, NEW i \in Nat \ {0}, ReadStr(t, i).val # Thrown
  PROVE  /\ ReadStr(t, i).pos \in Nat /\ i < ReadStr(t, i).pos
         /\ ReadStr(t, i).pos <= Len(t) + 2
<1> DEFINE c == FirstOf(t, {Colon}, i)
           len == SubSeq(t, i, c - 1)
           n == NumberOf(len)
           got == Taken(t, c + 1, n)
<1>0. Len(t) \in Nat
  BY TextIs
<1>1. c \in Nat /\ c <= Len(t) + 1
  BY FirstOfIs
<1> HIDE DEF c
<1>2. ~(len = <<>> \/ \E j \in DOMAIN len : ~IsDigit(len[j]))
  BY DEF ReadStr, Result, c
<1>3. i <= c - 1
  <2>1. c - 1 < i => len = <<>>
    BY <1>1, SubSeqEmpty
  <2> HIDE DEF len
  <2> QED
    BY <1>1, <1>2, <2>1
<1>4. n \in Int
  <2>1. c - 1 \in Int /\ c - 1 <= Len(t)
    BY <1>0, <1>1
  <2>2. len \in Text
    BY <2>1, PartOf DEF Text
  <2> HIDE DEF len
  <2>3. Len(len) \in Nat
    BY <2>2, TextIs
  <2>4. PICK up \in [0 .. Len(len) -> Int] : NumberOf(len) = up[Len(len)]
    BY <2>2, NumberParts
  <2> QED
    BY <2>3, <2>4
<1> HIDE DEF n
<1>5. Len(got) \in Nat /\ c + 1 + Len(got) <= Len(t) + 2
  <2> DEFINE a == c + 1 + n - 1
             l == Len(t)
             m == IF a <= l THEN a ELSE l
  <2>1. a \in Int /\ l \in Int
    BY <1>0, <1>1, <1>4
  <2>2. got = SubSeq(t, c + 1, m)
    <3> HIDE DEF a, l
    <3>1. Min({a, l}) = m
      BY <2>1, MinTwo
    <3> QED
      BY <3>1 DEF Taken, a, l
  <2>3. m \in Int /\ m <= Len(t)
    BY <2>1
  <2>4. Len(got) = IF c + 1 <= m THEN m - (c + 1) + 1 ELSE 0
    <3> HIDE DEF m, got
    <3>1. c + 1 \in Nat \ {0}
      BY <1>1
    <3> QED
      BY <2>2, <2>3, <3>1, PartOf DEF Text
  <2> HIDE DEF m, got
  <2> QED
    BY <1>0, <1>1, <2>3, <2>4
<1>6. ReadStr(t, i).pos = c + 1 + Len(got)
  BY <1>2 DEF ReadStr, Result, c, n
<1> HIDE DEF got
<1> QED
  BY <1>1, <1>3, <1>5, <1>6

(* So does an integer.                                                     *)
LEMMA ReadIntGoes ==
  ASSUME NEW t \in Text, NEW i \in 1 .. Len(t)
  PROVE  ReadInt(t, i).pos \in Nat /\ i < ReadInt(t, i).pos /\ ReadInt(t, i).pos <= Len(t) + 2
<1> DEFINE e == FirstOf(t, {EndChar}, i + 1)
<1>0. Len(t) \in Nat /\ i + 1 \in Nat \ {0}
  BY TextIs
<1>1. e \in Nat /\ e <= Len(t) + 1 /\ (e = Len(t) + 1 \/ i + 1 <= e)
  BY <1>0, FirstOfIs
<1> HIDE DEF e
<1>2. ReadInt(t, i).pos = e + 1
  BY DEF ReadInt, Result, e
<1> QED
  BY <1>0, <1>1, <1>2

(* What the reader makes of a place depends only on what it makes of       *)
(* places of a lower rank, as long as it goes on.                          *)
LEMMA StepGoes ==
  ASSUME NEW t \in Text, NEW c \in Places(t), NEW g, NEW h,
         \A b \in Places(t) : Rank(t, b) < Rank(t, c) => Goes(t, b, g[b]) /\ g[b] = h[b]
  PROVE  Step(t, g, c) = Step(t, h, c) /\ Goes(t, c, Step(t, g, c))
<1> DEFINE i == c[2]
           n == Len(t)
<1>0. n \in Nat /\ i \in 1 .. n + 2 /\ c = <<c[1], i>> /\ c[1] \in {"value", "items", "entries"}
  BY TextIs DEF Places
<1> HIDE DEF i, n
<1>1. Rank(t, c) = 2 * (n + 2 - i) + (IF c[1] = "value" THEN 0 ELSE 1)
  BY DEF Rank, i, n
<1>2. ASSUME NEW k \in {"value", "items", "entries"}, NEW j \in 1 .. n + 2,
             i < j \/ (i = j /\ k = "value" /\ c[1] # "value")
      PROVE  Goes(t, <<k, j>>, g[<<k, j>>]) /\ g[<<k, j>>] = h[<<k, j>>]
  <2>1. <<k, j>> \in Places(t)
    BY DEF Places, n
  <2>2. Rank(t, <<k, j>>) = 2 * (n + 2 - j) + (IF k = "value" THEN 0 ELSE 1)
    BY DEF Rank, n
  <2>3. Rank(t, <<k, j>>) < Rank(t, c)
    BY <1>0, <1>1, <1>2, <2>2
  <2> QED
    BY <2>1, <2>3
<1>3. CASE c[1] = "value"
  <2>0. Step(t, g, c) = ReadOne(t, g, i) /\ Step(t, h, c) = ReadOne(t, h, i)
    BY <1>3 DEF Step, i
  <2>1. CASE i > n \/ ~Starts(t[i])
    <3>1. ReadOne(t, g, i) = Result(IntVal(0), i) /\ ReadOne(t, h, i) = Result(IntVal(0), i)
      BY <2>1 DEF ReadOne, n
    <3>2. Goes(t, c, Result(IntVal(0), i))
      <4>1. Result(IntVal(0), i).pos = i
        BY DEF Result
      <4> QED
        BY <1>0, <2>1, <4>1 DEF Goes, i, n
    <3> QED
      BY <2>0, <3>1, <3>2
  <2>2. CASE i <= n /\ Starts(t[i])
    <3>0. ~(i > Len(t) \/ ~Starts(t[i])) /\ i \in 1 .. Len(t) /\ i + 1 \in 1 .. n + 2 /\ i < i + 1
      BY <1>0, <2>2 DEF n
    <3>1. CASE t[i] = IntChar
      <4>1. ReadOne(t, g, i) = ReadInt(t, i) /\ ReadOne(t, h, i) = ReadInt(t, i)
        BY <3>0, <3>1 DEF ReadOne
      <4>2. Goes(t, c, ReadInt(t, i))
        BY <1>0, <3>0, ReadIntGoes DEF Goes, i, n
      <4> QED
        BY <2>0, <4>1, <4>2
    <3>2. CASE t[i] = ListChar
      <4>1. ReadOne(t, g, i) = g[<<"items", i + 1>>] /\ ReadOne(t, h, i) = h[<<"items", i + 1>>]
        BY <3>0, <3>2 DEF ReadOne, ListChar, IntChar
      <4>2. Goes(t, <<"items", i + 1>>, g[<<"items", i + 1>>]) /\ g[<<"items", i + 1>>] = h[<<"items", i + 1>>]
        BY <1>2, <3>0
      <4>3. Goes(t, c, g[<<"items", i + 1>>])
        BY <1>0, <3>0, <4>2 DEF Goes, i, n
      <4> QED
        BY <2>0, <4>1, <4>2, <4>3
    <3>3. CASE t[i] = DictChar
      <4>1. ReadOne(t, g, i) = g[<<"entries", i + 1>>] /\ ReadOne(t, h, i) = h[<<"entries", i + 1>>]
        BY <3>0, <3>3 DEF ReadOne, ListChar, IntChar, DictChar
      <4>2. Goes(t, <<"entries", i + 1>>, g[<<"entries", i + 1>>]) /\ g[<<"entries", i + 1>>] = h[<<"entries", i + 1>>]
        BY <1>2, <3>0
      <4>3. Goes(t, c, g[<<"entries", i + 1>>])
        BY <1>0, <3>0, <4>2 DEF Goes, i, n
      <4> QED
        BY <2>0, <4>1, <4>2, <4>3
    <3>4. CASE t[i] # IntChar /\ t[i] # ListChar /\ t[i] # DictChar
      <4>1. ReadOne(t, g, i) = ReadStr(t, i) /\ ReadOne(t, h, i) = ReadStr(t, i)
        BY <3>0, <3>4 DEF ReadOne
      <4>2. Goes(t, c, ReadStr(t, i))
        BY <1>0, <3>0, ReadStrGoes DEF Goes, i, n
      <4> QED
        BY <2>0, <4>1, <4>2
    <3> QED
      BY <3>1, <3>2, <3>3, <3>4
  <2> QED
    BY <1>0, <2>1, <2>2
<1>4. CASE c[1] = "items"
  <2>0. Step(t, g, c) = ReadItems(t, g, i) /\ Step(t, h, c) = ReadItems(t, h, i)
    BY <1>4 DEF Step, i
  <2>1. CASE i > n
    <3>1. ReadItems(t, g, i) = Result(ListVal(<<>>), i) /\ ReadItems(t, h, i) = Result(ListVal(<<>>), i)
      BY <2>1 DEF ReadItems, n
    <3> QED
      BY <1>0, <1>4, <2>0, <3>1 DEF Goes, Result, i, n
  <2>2. CASE i <= n /\ t[i] = EndChar
    <3>1. /\ ReadItems(t, g, i) = Result(ListVal(<<>>), i + 1)
          /\ ReadItems(t, h, i) = Result(ListVal(<<>>), i + 1)
      BY <1>0, <2>2 DEF ReadItems, n
    <3> QED
      BY <1>0, <1>4, <2>0, <2>2, <3>1 DEF Goes, Result, i, n
  <2>3. CASE i <= n /\ t[i] # EndChar
    <3>0. ~(i > Len(t)) /\ i + 1 \in 1 .. n + 2 /\ i < i + 1
      BY <1>0, <2>3 DEF n
    <3>1. CASE ~Starts(t[i])
      <4>1. ReadItems(t, g, i) = g[<<"items", i + 1>>] /\ ReadItems(t, h, i) = h[<<"items", i + 1>>]
        BY <2>3, <3>0, <3>1 DEF ReadItems
      <4>2. Goes(t, <<"items", i + 1>>, g[<<"items", i + 1>>]) /\ g[<<"items", i + 1>>] = h[<<"items", i + 1>>]
        BY <1>2, <3>0
      <4>3. Goes(t, c, g[<<"items", i + 1>>])
        BY <1>0, <1>4, <3>0, <4>2 DEF Goes, i, n
      <4> QED
        BY <2>0, <4>1, <4>2, <4>3
    <3>2. CASE Starts(t[i])
      <4> DEFINE r == g[<<"value", i>>]
                 rest == g[<<"items", r.pos>>]
      <4>1. Goes(t, <<"value", i>>, r) /\ r = h[<<"value", i>>]
        BY <1>0, <1>2, <1>4
      <4>2. ReadItems(t, g, i) = IF r.val = Thrown THEN r
                                 ELSE IF rest.val = Thrown THEN rest
                                 ELSE Result(ListVal(<<r.val>> \o rest.val.val), rest.pos)
        BY <2>3, <3>0, <3>2 DEF ReadItems
      <4>3. ReadItems(t, h, i) = IF r.val = Thrown THEN r
                                 ELSE IF h[<<"items", r.pos>>].val = Thrown THEN h[<<"items", r.pos>>]
                                 ELSE Result(ListVal(<<r.val>> \o h[<<"items", r.pos>>].val.val),
                                             h[<<"items", r.pos>>].pos)
        BY <2>3, <3>0, <3>2, <4>1 DEF ReadItems
      <4> HIDE DEF r
      <4>4. CASE r.val = Thrown
        BY <2>0, <4>2, <4>3, <4>4 DEF Goes
      <4>5. CASE r.val # Thrown
        <5>1. i < r.pos /\ r.pos \in 1 .. n + 2
          BY <1>0, <2>3, <3>2, <4>1, <4>5 DEF Goes, n
        <5>2. Goes(t, <<"items", r.pos>>, rest) /\ rest = h[<<"items", r.pos>>]
          BY <1>2, <5>1
        <5> HIDE DEF rest
        <5>3. ReadItems(t, g, i) = ReadItems(t, h, i)
          BY <4>2, <4>3, <4>5, <5>2
        <5>4. Goes(t, c, ReadItems(t, g, i))
          <6>1. CASE rest.val = Thrown
            BY <4>2, <4>5, <6>1 DEF Goes
          <6>2. CASE rest.val # Thrown
            <7>1. ReadItems(t, g, i).pos = rest.pos
              BY <4>2, <4>5, <6>2 DEF Result
            <7>2. rest.pos \in Nat /\ r.pos <= rest.pos /\ rest.pos <= n + 2
              BY <5>2, <6>2 DEF Goes, n
            <7>3. i <= rest.pos
              BY <1>0, <5>1, <7>2
            <7> QED
              BY <1>4, <7>1, <7>2, <7>3 DEF Goes, i, n
          <6> QED
            BY <6>1, <6>2
        <5> QED
          BY <2>0, <5>3, <5>4
      <4> QED
        BY <4>4, <4>5
    <3> QED
      BY <3>1, <3>2
  <2> QED
    BY <1>0, <2>1, <2>2, <2>3
<1>5. CASE c[1] = "entries"
  <2>0. Step(t, g, c) = ReadEntries(t, g, i) /\ Step(t, h, c) = ReadEntries(t, h, i)
    BY <1>5 DEF Step, i
  <2>1. CASE i > n
    <3>1. ReadEntries(t, g, i) = Result(DictVal(<<>>), i) /\ ReadEntries(t, h, i) = Result(DictVal(<<>>), i)
      BY <2>1 DEF ReadEntries, n
    <3> QED
      BY <1>0, <1>5, <2>0, <3>1 DEF Goes, Result, i, n
  <2>2. CASE i <= n /\ t[i] = EndChar
    <3>1. /\ ReadEntries(t, g, i) = Result(DictVal(<<>>), i + 1)
          /\ ReadEntries(t, h, i) = Result(DictVal(<<>>), i + 1)
      BY <1>0, <2>2 DEF ReadEntries, n
    <3> QED
      BY <1>0, <1>5, <2>0, <2>2, <3>1 DEF Goes, Result, i, n
  <2>3. CASE i <= n /\ t[i] # EndChar
    <3> DEFINE key == ReadStr(t, i)
               j == key.pos
    <3>0. ~(i > Len(t))
      BY <1>0, <2>3 DEF n
    <3>1. CASE key.val = Thrown
      <4>1. ReadEntries(t, g, i) = key /\ ReadEntries(t, h, i) = key
        BY <2>3, <3>0, <3>1 DEF ReadEntries
      <4> QED
        BY <2>0, <3>1, <4>1 DEF Goes
    <3>2. CASE key.val # Thrown
      <4>0. j \in 1 .. n + 2 /\ i < j
        <5>1. i \in Nat \ {0}
          BY <1>0
        <5> QED
          BY <1>0, <3>2, <5>1, ReadStrGoes DEF n
      <4>1. CASE j > n
        <5>1. ReadEntries(t, g, i) = Result(DictVal(<<>>), j) /\ ReadEntries(t, h, i) = Result(DictVal(<<>>), j)
          BY <2>3, <3>0, <3>2, <4>1 DEF ReadEntries, n
        <5> HIDE DEF key, j
        <5> QED
          BY <1>0, <1>5, <2>0, <4>0, <5>1 DEF Goes, Result, i, n
      <4>2. CASE j <= n /\ ~Starts(t[j])
        <5>0. ~(j > Len(t)) /\ j + 1 \in 1 .. n + 2 /\ i < j + 1
          <6> HIDE DEF key, j
          <6> QED
            BY <1>0, <4>0, <4>2 DEF n
        <5>1. ReadEntries(t, g, i) = g[<<"entries", j + 1>>] /\ ReadEntries(t, h, i) = h[<<"entries", j + 1>>]
          BY <2>3, <3>0, <3>2, <4>2, <5>0 DEF ReadEntries
        <5> HIDE DEF key, j
        <5>2. Goes(t, <<"entries", j + 1>>, g[<<"entries", j + 1>>]) /\ g[<<"entries", j + 1>>] = h[<<"entries", j + 1>>]
          BY <1>2, <5>0
        <5>3. Goes(t, c, g[<<"entries", j + 1>>])
          BY <1>0, <1>5, <4>0, <5>0, <5>2 DEF Goes, i, n
        <5> QED
          BY <2>0, <5>1, <5>2, <5>3
      <4>3. CASE j <= n /\ Starts(t[j])
        <5> DEFINE r == g[<<"value", j>>]
                   rest == g[<<"entries", r.pos>>]
        <5>0. ~(j > Len(t))
          <6> HIDE DEF key, j
          <6> QED
            BY <1>0, <4>0, <4>3 DEF n
        <5>1. Goes(t, <<"value", j>>, r) /\ r = h[<<"value", j>>]
          <6> HIDE DEF key, j
          <6> QED
            BY <1>0, <1>2, <4>0
        <5>2. ReadEntries(t, g, i) = IF r.val = Thrown THEN r
                                     ELSE IF rest.val = Thrown THEN rest
                                     ELSE Result(DictVal(Entered(key.val.val, r.val, rest.val.val)), rest.pos)
          BY <2>3, <3>0, <3>2, <4>3, <5>0 DEF ReadEntries
        <5>3. ReadEntries(t, h, i) = IF r.val = Thrown THEN r
                                     ELSE IF h[<<"entries", r.pos>>].val = Thrown THEN h[<<"entries", r.pos>>]
                                     ELSE Result(DictVal(Entered(key.val.val, r.val, h[<<"entries", r.pos>>].val.val)),
                                                 h[<<"entries", r.pos>>].pos)
          BY <2>3, <3>0, <3>2, <4>3, <5>0, <5>1 DEF ReadEntries
        <5> HIDE DEF key, j, r
        <5>4. CASE r.val = Thrown
          BY <2>0, <5>2, <5>3, <5>4 DEF Goes
        <5>5. CASE r.val # Thrown
          <6>1. j < r.pos /\ r.pos \in 1 .. n + 2 /\ i < r.pos
            BY <1>0, <4>0, <4>3, <5>1, <5>5 DEF Goes, n
          <6>2. Goes(t, <<"entries", r.pos>>, rest) /\ rest = h[<<"entries", r.pos>>]
            BY <1>2, <6>1
          <6> HIDE DEF rest
          <6>3. ReadEntries(t, g, i) = ReadEntries(t, h, i)
            BY <5>2, <5>3, <5>5, <6>2
          <6>4. Goes(t, c, ReadEntries(t, g, i))
            <7>1. CASE rest.val = Thrown
              BY <5>2, <5>5, <7>1 DEF Goes
            <7>2. CASE rest.val # Thrown
              <8>1. ReadEntries(t, g, i).pos = rest.pos
                BY <5>2, <5>5, <7>2 DEF Result
              <8>2. rest.pos \in Nat /\ r.pos <= rest.pos /\ rest.pos <= n + 2
                BY <6>2, <7>2 DEF Goes, n
              <8>3. i <= rest.pos
                BY <1>0, <6>1, <8>2
              <8> QED
                BY <1>5, <8>1, <8>2, <8>3 DEF Goes, i, n
            <7> QED
              BY <7>1, <7>2
          <6> QED
            BY <2>0, <6>3, <6>4
        <5> QED
          BY <5>4, <5>5
      <4> QED
        <5> HIDE DEF key, j
        <5> QED
          BY <1>0, <4>0, <4>1, <4>2, <4>3
    <3> QED
      BY <3>1, <3>2
  <2> QED
    BY <1>0, <2>1, <2>2, <2>3
<1> QED
  BY <1>0, <1>3, <1>4, <1>5

(* The reader of a text is what its definition says.                       *)
LEMMA ReaderIs ==
  ASSUME NEW t \in Text
  PROVE  \A c \in Places(t) : Reader(t)[c] = Step(t, Reader(t), c)
<1> DEFINE upTo(n) == {c \in Places(t) : Rank(t, c) < n}
           Solved(n) == \E g : /\ g = [c \in upTo(n) |-> Step(t, g, c)]
                               /\ \A c \in upTo(n) : Goes(t, c, g[c])
           T == {n \in Nat : Solved(n)}
<1>0. \A c \in Places(t) : Rank(t, c) \in Nat /\ Rank(t, c) < 2 * Len(t) + 4
  <2>1. Len(t) \in Nat
    BY TextIs
  <2> QED
    BY <2>1 DEF Places, Rank
<1>1. Solved(0)
  <2>1. upTo(0) = {}
    BY <1>0
  <2> DEFINE g == [c \in {} |-> 0]
  <2>2. g = [c \in upTo(0) |-> Step(t, g, c)] /\ \A c \in upTo(0) : Goes(t, c, g[c])
    BY <2>1
  <2> QED
    BY <2>2
<1>2. ASSUME NEW n \in Nat, Solved(n) PROVE Solved(n + 1)
  <2>1. PICK g : g = [c \in upTo(n) |-> Step(t, g, c)] /\ \A c \in upTo(n) : Goes(t, c, g[c])
    BY <1>2
  <2> DEFINE h == [c \in upTo(n + 1) |-> Step(t, g, c)]
  <2>2. \A c \in upTo(n) : c \in upTo(n + 1)
    BY <1>0
  <2>3. \A c \in upTo(n) : h[c] = g[c]
    <3> SUFFICES ASSUME NEW c \in upTo(n) PROVE h[c] = g[c]
      OBVIOUS
    <3>1. g[c] = Step(t, g, c)
      BY <2>1
    <3>2. h[c] = Step(t, g, c)
      BY <2>2
    <3> QED
      BY <3>1, <3>2
  <2>4. ASSUME NEW c \in upTo(n + 1) PROVE h[c] = Step(t, h, c) /\ Goes(t, c, h[c])
    <3>1. h[c] = Step(t, g, c)
      OBVIOUS
    <3> HIDE DEF h
    <3>2. \A b \in Places(t) : Rank(t, b) < Rank(t, c) => Goes(t, b, g[b]) /\ g[b] = h[b]
      <4> SUFFICES ASSUME NEW b \in Places(t), Rank(t, b) < Rank(t, c)
                   PROVE  Goes(t, b, g[b]) /\ g[b] = h[b]
        OBVIOUS
      <4>1. Rank(t, b) \in Nat /\ Rank(t, c) \in Nat /\ Rank(t, c) < n + 1
        BY <1>0
      <4>2. b \in upTo(n)
        BY <4>1
      <4> QED
        BY <2>1, <2>3, <4>2
    <3>3. c \in Places(t)
      OBVIOUS
    <3>4. Step(t, g, c) = Step(t, h, c) /\ Goes(t, c, Step(t, g, c))
      BY <3>2, <3>3, StepGoes
    <3> QED
      BY <3>1, <3>4
  <2>5. h = [c \in upTo(n + 1) |-> Step(t, h, c)]
    BY <2>4
  <2>6. \A c \in upTo(n + 1) : Goes(t, c, h[c])
    BY <2>4
  <2> HIDE DEF h
  <2> QED
    BY <2>5, <2>6
<1>3. Solved(2 * Len(t) + 4)
  <2>1. 2 * Len(t) + 4 \in Nat
    BY TextIs
  <2> HIDE DEF Solved
  <2>2. 0 \in T /\ \A n \in Nat : n \in T => n + 1 \in T
    BY <1>1, <1>2
  <2> HIDE DEF T
  <2>3. Nat \subseteq T
    BY <2>2, Induction
  <2> QED
    BY <2>1, <2>3 DEF T
<1>4. upTo(2 * Len(t) + 4) = Places(t)
  BY <1>0
<1>5. \E g : g = [c \in Places(t) |-> Step(t, g, c)]
  BY <1>3, <1>4
<1> DEFINE r == Reader(t)
<1>6. r = [c \in Places(t) |-> Step(t, r, c)]
  BY <1>5 DEF Reader, Places, Step
<1> HIDE DEF r
<1> QED
  BY <1>6 DEF r

-----------------------------------------------------------------------------
(* What is written is read back                                            *)

(* The right hand side of HasLeast.                                        *)
Least(g, v) ==
    CASE v.kind = "int" -> v.val = -MaxInt - 1
      [] v.kind = "str" -> FALSE
      [] OTHER -> \E x \in DOMAIN v.val : g[v.val[x]]

(* The parts of a list and of a dictionary are values nested less deep.    *)
LEMMA PartIs ==
  ASSUME NEW v \in Values, IsList(v) \/ IsDict(v), NEW x \in DOMAIN v.val
  PROVE  v.val[x] \in Values /\ Depth[v.val[x]] < Depth[v]
<1>1. CASE IsList(v)
  <2> DEFINE l == v.val
  <2>1. l \in Seq(Values) /\ Depth[l[x]] < Depth[v]
    BY <1>1 DEF IsList
  <2>2. x \in DOMAIN l
    OBVIOUS
  <2> HIDE DEF l
  <2>3. l[x] \in Values
    BY <2>1, <2>2, LenProperties, ElementOfSeq
  <2> QED
    BY <2>1, <2>3 DEF l
<1>2. CASE IsDict(v)
  BY <1>2 DEF IsDict
<1> QED
  BY <1>1, <1>2

(* HasLeast is what its definition says.                                   *)
LEMMA HasLeastIs ==
  ASSUME ValuesAssumption, NEW v \in Values
  PROVE  /\ IsInt(v) => (HasLeast[v] <=> v.val = -MaxInt - 1)
         /\ IsStr(v) => ~HasLeast[v]
         /\ IsList(v) \/ IsDict(v) => (HasLeast[v] <=> \E x \in DOMAIN v.val : HasLeast[v.val[x]])
<1> DEFINE rhs(g) == [w \in Values |-> Least(g, w)]
           F == [g \in [Values -> BOOLEAN] |-> rhs(g)]
<1>0. Depth \in [Values -> Nat]
  BY DEF ValuesAssumption
<1>1. ASSUME NEW g \in [Values -> BOOLEAN], NEW w \in Values PROVE Least(g, w) \in BOOLEAN
  <2>1. CASE w.kind = "int"
    BY <2>1 DEF Least
  <2>2. CASE w.kind = "str"
    BY <2>2 DEF Least
  <2>3. CASE w.kind # "int" /\ w.kind # "str"
    <3>1. Least(g, w) = \E x \in DOMAIN w.val : g[w.val[x]]
      BY <2>3 DEF Least
    <3> QED
      BY <3>1
  <2> QED
    BY <2>1, <2>2, <2>3
<1>2. ASSUME NEW g \in [Values -> BOOLEAN], NEW h \in [Values -> BOOLEAN], NEW w \in Values,
             \A y \in Values : Depth[y] < Depth[w] => g[y] = h[y]
      PROVE  Least(g, w) = Least(h, w)
  <2>1. CASE w.kind = "int" \/ w.kind = "str"
    BY <2>1 DEF Least
  <2>2. CASE IsList(w) \/ IsDict(w)
    <3>1. \A x \in DOMAIN w.val : g[w.val[x]] = h[w.val[x]]
      BY <1>2, <2>2, PartIs
    <3>2. w.kind # "int" /\ w.kind # "str"
      BY <2>2 DEF IsList, IsDict, ListVal, DictVal
    <3>3. /\ Least(g, w) = \E x \in DOMAIN w.val : g[w.val[x]]
          /\ Least(h, w) = \E x \in DOMAIN w.val : h[w.val[x]]
      BY <3>2 DEF Least
    <3>4. (\E x \in DOMAIN w.val : g[w.val[x]]) = \E x \in DOMAIN w.val : h[w.val[x]]
      BY <3>1
    <3> QED
      BY <3>3, <3>4
  <2> QED
    BY <2>1, <2>2, KindIs
<1>3. Contracts(Values, BOOLEAN, Depth, F)
  <2>1. [w \in Values |-> TRUE] \in [Values -> BOOLEAN]
    OBVIOUS
  <2>2. \A g, h \in [Values -> BOOLEAN] : \A w \in Values :
           (\A y \in Values : Depth[y] < Depth[w] => g[y] = h[y]) => F[g][w] = F[h][w]
    BY <1>2
  <2>3. \A g \in [Values -> BOOLEAN] : rhs(g) \in [Values -> BOOLEAN]
    BY <1>1
  <2> HIDE DEF rhs
  <2>4. F \in [[Values -> BOOLEAN] -> [Values -> BOOLEAN]]
    BY <2>3
  <2> HIDE DEF F
  <2> QED
    BY <1>0, <2>1, <2>2, <2>4 DEF Contracts
<1>4. \E f : f = rhs(f)
  <2>1. \E f \in [Values -> BOOLEAN] : f = F[f]
    <3> HIDE DEF F
    <3> QED
      BY <1>3, RankSolve
  <2> QED
    BY <2>1
<1> DEFINE e == HasLeast
<1>5. e = rhs(e)
  BY <1>4 DEF HasLeast, Least
<1> HIDE DEF e
<1>6. e[v] = Least(e, v)
  BY <1>5
<1>7. IsInt(v) => e[v] = (v.val = -MaxInt - 1)
  <2> SUFFICES ASSUME IsInt(v) PROVE e[v] = (v.val = -MaxInt - 1)
    OBVIOUS
  <2>1. v.kind = "int"
    BY DEF IsInt, IntVal
  <2>2. Least(e, v) = (v.val = -MaxInt - 1)
    BY <2>1 DEF Least
  <2> QED
    BY <1>6, <2>2
<1>8. IsStr(v) => e[v] = FALSE
  BY <1>6 DEF IsStr, StrVal, Least
<1>9. IsList(v) \/ IsDict(v) => e[v] = \E x \in DOMAIN v.val : e[v.val[x]]
  <2> SUFFICES ASSUME IsList(v) \/ IsDict(v) PROVE e[v] = \E x \in DOMAIN v.val : e[v.val[x]]
    OBVIOUS
  <2>1. v.kind # "int" /\ v.kind # "str"
    BY DEF IsList, IsDict, ListVal, DictVal
  <2> QED
    BY <1>6, <2>1 DEF Least
<1> QED
  BY <1>7, <1>8, <1>9 DEF e

(* Texts that are put together stand one behind the other.                 *)
LEMMA PartsStand ==
  ASSUME NEW t \in Text, NEW i \in Nat \ {0}, NEW ss \in Seq(Text), Stands(t, i, FlattenSeq(ss))
  PROVE  \E off \in [0 .. Len(ss) -> Nat \ {0}] :
           /\ off[0] = i /\ off[Len(ss)] = i + Len(FlattenSeq(ss))
           /\ \A k \in 1 .. Len(ss) : Stands(t, off[k - 1], ss[k]) /\ off[k] = off[k - 1] + Len(ss[k])
<1> DEFINE n == Len(ss)
<1>0. n \in Nat /\ \A k \in 1 .. n : ss[k] \in Text
  BY LenProperties, ElementOfSeq
<1>1. PICK flat \in [0 .. n -> Text] :
         /\ flat[0] = <<>>
         /\ \A k \in 1 .. n : flat[k] = flat[k - 1] \o ss[k]
         /\ FlattenSeq(ss) = flat[n]
  <2>1. ss \in Seq(Seq(Char))
    BY DEF Text
  <2>2. \E flat \in [0 .. Len(ss) -> Seq(Char)] :
           /\ flat[0] = <<>>
           /\ \A k \in 1 .. Len(ss) : flat[k] = flat[k - 1] \o ss[k]
           /\ FlattenSeq(ss) = flat[Len(ss)]
    BY <2>1, FlattenParts
  <2> QED
    BY <2>2 DEF Text
<1> HIDE DEF n
<1> DEFINE T == {j \in Nat : j <= n => Stands(t, i, flat[n - j])}
<1>2. 0 \in T
  BY <1>0, <1>1
<1>3. ASSUME NEW k \in 1 .. n, Stands(t, i, flat[k])
      PROVE  /\ Stands(t, i, flat[k - 1]) /\ Stands(t, i + Len(flat[k - 1]), ss[k])
             /\ Len(flat[k]) = Len(flat[k - 1]) + Len(ss[k])
  <2> DEFINE a == flat[k - 1]
             b == ss[k]
  <2>1. k - 1 \in 0 .. n
    BY <1>0
  <2>2. flat[k] = a \o b /\ a \in Text /\ b \in Text
    BY <1>0, <1>1, <2>1
  <2> HIDE DEF a, b
  <2>3. Stands(t, i, a \o b)
    BY <1>3, <2>2
  <2>4. Stands(t, i, a) /\ Stands(t, i + Len(a), b) /\ Len(a \o b) = Len(a) + Len(b)
    BY <2>2, <2>3, StandsParts
  <2> QED
    BY <2>2, <2>4 DEF a, b
<1>4. ASSUME NEW j \in Nat, j \in T PROVE j + 1 \in T
  <2> SUFFICES ASSUME j + 1 <= n PROVE Stands(t, i, flat[n - (j + 1)])
    OBVIOUS
  <2>1. n - j \in 1 .. n /\ (n - j) - 1 = n - (j + 1) /\ j <= n
    BY <1>0
  <2>2. Stands(t, i, flat[n - j])
    BY <1>4, <2>1
  <2> DEFINE k == n - j
  <2>3. k \in 1 .. n /\ Stands(t, i, flat[k])
    BY <2>1, <2>2
  <2> HIDE DEF k
  <2>4. Stands(t, i, flat[k - 1])
    BY <1>3, <2>3
  <2> QED
    BY <2>1, <2>4 DEF k
<1>5. \A k \in 0 .. n : Stands(t, i, flat[k])
  <2> SUFFICES ASSUME NEW k \in 0 .. n PROVE Stands(t, i, flat[k])
    OBVIOUS
  <2> HIDE DEF T
  <2>1. Nat \subseteq T
    BY <1>2, <1>4, Induction
  <2>2. n - k \in Nat /\ n - k <= n /\ n - (n - k) = k
    BY <1>0
  <2> DEFINE j == n - k
  <2>3. j \in T /\ j <= n /\ n - j = k
    BY <2>1, <2>2
  <2> HIDE DEF j
  <2> QED
    BY <2>3 DEF T
<1> DEFINE off == [k \in 0 .. n |-> i + Len(flat[k])]
<1>6. off \in [0 .. n -> Nat \ {0}]
  <2> SUFFICES ASSUME NEW k \in 0 .. n PROVE i + Len(flat[k]) \in Nat \ {0}
    OBVIOUS
  <2> DEFINE s == flat[k]
  <2>1. s \in Text
    BY <1>1
  <2> HIDE DEF s
  <2>2. Len(s) \in Nat
    BY <2>1, TextIs
  <2>3. i + Len(s) \in Nat \ {0}
    BY <2>2
  <2> QED
    BY <2>3 DEF s
<1>7. off[0] = i /\ off[n] = i + Len(FlattenSeq(ss))
  <2>1. Len(flat[0]) = 0
    BY <1>1, EmptySeq
  <2> QED
    BY <1>0, <1>1, <2>1
<1>8. ASSUME NEW k \in 1 .. n
      PROVE  Stands(t, off[k - 1], ss[k]) /\ off[k] = off[k - 1] + Len(ss[k])
  <2>1. k \in 0 .. n /\ k - 1 \in 0 .. n
    BY <1>0
  <2>2. /\ Stands(t, i + Len(flat[k - 1]), ss[k])
        /\ Len(flat[k]) = Len(flat[k - 1]) + Len(ss[k])
    BY <1>3, <1>5, <2>1
  <2>3. off[k - 1] = i + Len(flat[k - 1]) /\ off[k] = i + Len(flat[k])
    BY <2>1
  <2>4. Len(flat[k - 1]) \in Nat /\ Len(ss[k]) \in Nat
    BY <1>0, <1>1, <2>1, TextIs
  <2>5. Stands(t, off[k - 1], ss[k])
    BY <2>2, <2>3
  <2> HIDE DEF off
  <2>6. off[k] = off[k - 1] + Len(ss[k])
    <3> DEFINE x == Len(flat[k - 1])
               y == Len(ss[k])
               z == Len(flat[k])
    <3>1. x \in Nat /\ y \in Nat /\ z = x + y /\ off[k - 1] = i + x /\ off[k] = i + z
      BY <2>2, <2>3, <2>4
    <3> HIDE DEF x, y, z
    <3>2. off[k] = off[k - 1] + y
      BY <3>1
    <3> QED
      BY <3>2 DEF y
  <2> QED
    BY <2>5, <2>6
<1> HIDE DEF off
<1>9. \A k \in 1 .. n : Stands(t, off[k - 1], ss[k]) /\ off[k] = off[k - 1] + Len(ss[k])
  BY <1>8
<1> QED
  BY <1>6, <1>7, <1>9 DEF n

(* The value v is read back from t, wherever it is written there, or the   *)
(* reader throws because the least integer is in it.                       *)
ReadsBack(t, v) ==
    \A i \in Nat \ {0} : Stands(t, i, Encode[v]) =>
        LET r == Reader(t)[<<"value", i>>]
        IN  IF HasLeast[v] THEN r.val = Thrown ELSE r = Result(v, i + Len(Encode[v]))

(* Where a text that is not empty stands there is a character.             *)
LEMMA StandsFirst ==
  ASSUME NEW t \in Text, NEW i \in Nat \ {0}, NEW s \in Text, Stands(t, i, s), Len(s) >= 1
  PROVE  i \in 1 .. Len(t) /\ t[i] = s[1] /\ Len(t) \in Nat
<1>1. Len(t) \in Nat /\ Len(s) \in Nat
  BY TextIs
<1>2. i + Len(s) <= Len(t) + 1 /\ \A k \in 1 .. Len(s) : t[i + k - 1] = s[k]
  BY DEF Stands
<1>3. 1 \in 1 .. Len(s) /\ i + 1 - 1 = i
  BY <1>1
<1>4. t[i + 1 - 1] = s[1]
  BY <1>2, <1>3
<1>5. t[i] = s[1]
  BY <1>3, <1>4
<1> QED
  BY <1>1, <1>2, <1>5

(* A value is no exception, and what is written of it is a text.           *)
LEMMA EncodedIs ==
  ASSUME FormatsAssumption, ValuesAssumption, NEW v \in Values
  PROVE  /\ Encode[v] \in Text /\ Len(Encode[v]) >= 1 /\ Starts(Encode[v][1]) /\ v # Thrown
         /\ Len(Encode[v]) \in Nat
<1>1. Encode \in [Values -> Text] /\ Encode[v] = WriteOne(Encode, v)
  BY EncodeIs
<1> DEFINE e == Encode
<1>2. e \in [Values -> Text] /\ e[v] = WriteOne(e, v)
  BY <1>1
<1> HIDE DEF e
<1>3. WriteOne(e, v) \in Text /\ Len(WriteOne(e, v)) >= 1 /\ Starts(WriteOne(e, v)[1])
  BY <1>2, WrittenIs
<1>4. v # Thrown
  <2>1. v.kind # "thrown"
    BY KindIs
  <2> QED
    BY <2>1 DEF Thrown
<1>5. Len(e[v]) \in Nat
  BY <1>2, <1>3, TextIs
<1> QED
  BY <1>2, <1>3, <1>4, <1>5 DEF e

(* No character by which a value begins ends a list or a dictionary.       *)
LEMMA StartsIsNoEnd == \A c : Starts(c) => c # EndChar
  BY DEF Starts, IsDigit, Zero, Nine, IntChar, ListChar, DictChar, EndChar

(* The items of a list are read back from each of them on.                 *)
LEMMA ItemsReadBack ==
  ASSUME FormatsAssumption, ValuesAssumption, NEW t \in Text, NEW l \in Seq(Values),
         \A j \in 1 .. Len(l) : ReadsBack(t, l[j]),
         NEW off \in [0 .. Len(l) -> Nat \ {0}],
         \A k \in 1 .. Len(l) : Stands(t, off[k - 1], Encode[l[k]])
                                /\ off[k] = off[k - 1] + Len(Encode[l[k]]),
         off[Len(l)] \in 1 .. Len(t), t[off[Len(l)]] = EndChar
  PROVE  IF \E x \in 1 .. Len(l) : HasLeast[l[x]]
         THEN Reader(t)[<<"items", off[0]>>].val = Thrown
         ELSE Reader(t)[<<"items", off[0]>>] = Result(ListVal(l), off[Len(l)] + 1)
<1> DEFINE n == Len(l)
           R == Reader(t)
           At(k) == R[<<"items", off[k]>>]
           Ok(k) == IF \E x \in k + 1 .. n : HasLeast[l[x]]
                    THEN At(k).val = Thrown
                    ELSE At(k) = Result(ListVal(SubSeq(l, k + 1, n)), off[n] + 1)
           T == {j \in Nat : j <= n => Ok(n - j)}
<1>0. /\ n \in Nat /\ (\A k \in 1 .. n : l[k] \in Values) /\ Len(t) \in Nat
      /\ off[n] \in 1 .. Len(t) /\ t[off[n]] = EndChar
  BY LenProperties, ElementOfSeq, TextIs
<1>1. ASSUME NEW k \in 0 .. n, off[k] \in 1 .. Len(t)
      PROVE  /\ At(k) = ReadItems(t, R, off[k])
             /\ R[<<"value", off[k]>>] = ReadOne(t, R, off[k])
  <2> HIDE DEF n
  <2>1. <<"items", off[k]>> \in Places(t) /\ <<"value", off[k]>> \in Places(t)
    BY <1>0, <1>1 DEF Places
  <2>2. /\ At(k) = Step(t, R, <<"items", off[k]>>)
        /\ R[<<"value", off[k]>>] = Step(t, R, <<"value", off[k]>>)
    BY <2>1, ReaderIs
  <2> HIDE DEF R
  <2> QED
    BY <2>2 DEF Step
<1>2. Ok(n)
  <2>1. n \in 0 .. n
    BY <1>0
  <2>2. At(n) = ReadItems(t, R, off[n])
    BY <1>0, <1>1, <2>1
  <2> HIDE DEF R
  <2>3. ~(off[n] > Len(t))
    BY <1>0
  <2>4. At(n) = Result(ListVal(<<>>), off[n] + 1)
    BY <1>0, <2>2, <2>3 DEF ReadItems
  <2>5. SubSeq(l, n + 1, n) = <<>>
    <3> HIDE DEF n
    <3> QED
      BY <1>0, SubSeqEmpty
  <2>6. ~\E x \in n + 1 .. n : HasLeast[l[x]]
    BY <1>0
  <2> HIDE DEF n
  <2> QED
    BY <2>4, <2>5, <2>6
<1>3. ASSUME NEW k \in 1 .. n, Ok(k) PROVE Ok(k - 1)
  <2> DEFINE i == off[k - 1]
             w == l[k]
             s == Encode[w]
  <2>0. k - 1 \in 0 .. n /\ k \in 0 .. n /\ (k - 1) + 1 = k
    BY <1>0
  <2>1. w \in Values /\ i \in Nat \ {0} /\ Stands(t, i, s) /\ off[k] = i + Len(s) /\ ReadsBack(t, w)
    BY <1>0, <2>0
  <2>2. s \in Text /\ Len(s) >= 1 /\ Starts(s[1]) /\ w # Thrown
    BY <2>1, EncodedIs
  <2>3. i \in 1 .. Len(t) /\ t[i] = s[1]
    <3> HIDE DEF i, s
    <3> QED
      BY <2>1, <2>2, StandsFirst
  <2>4. At(k - 1) = ReadItems(t, R, i)
    BY <1>1, <2>0, <2>3
  <2>5. Starts(t[i]) /\ t[i] # EndChar /\ ~(i > Len(t))
    BY <1>0, <2>2, <2>3, StartsIsNoEnd
  <2> DEFINE r == R[<<"value", i>>]
  <2>6. IF HasLeast[w] THEN r.val = Thrown ELSE r = Result(w, off[k])
    BY <2>1 DEF ReadsBack
  <2> HIDE DEF R, i, s, r
  <2>7. At(k - 1) = IF r.val = Thrown THEN r
                    ELSE IF R[<<"items", r.pos>>].val = Thrown THEN R[<<"items", r.pos>>]
                    ELSE Result(ListVal(<<r.val>> \o R[<<"items", r.pos>>].val.val), R[<<"items", r.pos>>].pos)
    BY <2>4, <2>5 DEF ReadItems, r
  <2> DEFINE a == At(k - 1)
             b == At(k)
             bad == \E x \in k + 1 .. n : HasLeast[l[x]]
  <2>8. (\E x \in (k - 1) + 1 .. n : HasLeast[l[x]]) <=> HasLeast[w] \/ bad
    <3>1. \A x : x \in (k - 1) + 1 .. n <=> x = k \/ x \in k + 1 .. n
      BY <1>0
    <3> HIDE DEF n
    <3> QED
      BY <3>1
  <2>9. CASE HasLeast[w]
    <3>1. a.val = Thrown
      BY <2>6, <2>7, <2>9
    <3> QED
      BY <2>8, <2>9, <3>1
  <2>10. CASE ~HasLeast[w]
    <3>1. r.val = w /\ r.pos = off[k]
      BY <2>6, <2>10 DEF Result
    <3>2. a = IF b.val = Thrown THEN b ELSE Result(ListVal(<<w>> \o b.val.val), b.pos)
      BY <2>2, <2>7, <3>1
    <3>3. CASE bad
      <4>1. b.val = Thrown
        BY <1>3, <3>3
      <4>2. a.val = Thrown
        BY <3>2, <4>1
      <4> QED
        BY <2>8, <3>3, <4>2
    <3>4. CASE ~bad
      <4>1. b = Result(ListVal(SubSeq(l, k + 1, n)), off[n] + 1)
        BY <1>3, <3>4
      <4> HIDE DEF b
      <4>2. /\ b.val # Thrown /\ b.val.val = SubSeq(l, k + 1, n) /\ b.pos = off[n] + 1
        BY <4>1 DEF Result, ListVal, Thrown
      <4>3. <<w>> \o SubSeq(l, k + 1, n) = SubSeq(l, (k - 1) + 1, n)
        <5>1. k \in 1 .. Len(l) /\ n \in k .. Len(l)
          BY <1>0
        <5>2. SubSeq(l, k, n) = <<l[k]>> \o SubSeq(l, k + 1, n)
          <6> HIDE DEF n
          <6> QED
            BY <5>1, SubSeqRecursiveFirst
        <5> QED
          BY <2>0, <5>2
      <4>4. a = Result(ListVal(SubSeq(l, (k - 1) + 1, n)), off[n] + 1)
        BY <3>2, <4>2, <4>3
      <4> QED
        BY <2>8, <2>10, <3>4, <4>4
    <3> QED
      BY <3>3, <3>4
  <2> QED
    BY <2>9, <2>10
<1>4. 0 \in T
  <2>1. n - 0 = n
    BY <1>0
  <2> HIDE DEF Ok
  <2> QED
    BY <1>2, <2>1
<1>5. ASSUME NEW j \in Nat, j \in T PROVE j + 1 \in T
  <2> SUFFICES ASSUME j + 1 <= n PROVE Ok(n - (j + 1))
    OBVIOUS
  <2> DEFINE k == n - j
  <2>1. k \in 1 .. n /\ k - 1 = n - (j + 1) /\ j <= n
    BY <1>0
  <2> HIDE DEF Ok
  <2>2. Ok(k)
    BY <1>5, <2>1
  <2> HIDE DEF k
  <2>3. Ok(k - 1)
    BY <1>3, <2>1, <2>2
  <2> QED
    BY <2>1, <2>3
<1>6. Ok(0)
  <2> HIDE DEF T, Ok
  <2>1. Nat \subseteq T
    BY <1>4, <1>5, Induction
  <2>2. n \in T /\ n <= n /\ n - n = 0
    BY <1>0, <2>1
  <2> QED
    BY <2>2 DEF T
<1>7. SubSeq(l, 0 + 1, n) = l /\ 0 + 1 .. n = 1 .. n
  BY SubSeqFull
<1> HIDE DEF R
<1> QED
  BY <1>6, <1>7 DEF R

(* What is read behind the k-th key of a dictionary.                       *)
Rest(d, keys, k) == [y \in {keys[x] : x \in k + 1 .. Len(keys)} |-> d[y]]

(* The entries of a dictionary are read back from each of them on.         *)
LEMMA EntriesReadBack ==
  ASSUME FormatsAssumption, ValuesAssumption, NEW t \in Text, NEW d, NEW keys \in Seq(Text),
         \A j \in 1 .. Len(keys) : d[keys[j]] \in Values /\ ReadsBack(t, d[keys[j]]),
         NEW off \in [0 .. Len(keys) -> Nat \ {0}],
         \A k \in 1 .. Len(keys) : Stands(t, off[k - 1], WriteEntry(Encode, d, keys[k]))
                                   /\ off[k] = off[k - 1] + Len(WriteEntry(Encode, d, keys[k])),
         off[Len(keys)] \in 1 .. Len(t), t[off[Len(keys)]] = EndChar
  PROVE  IF \E x \in 1 .. Len(keys) : HasLeast[d[keys[x]]]
         THEN Reader(t)[<<"entries", off[0]>>].val = Thrown
         ELSE Reader(t)[<<"entries", off[0]>>] = Result(DictVal(Rest(d, keys, 0)), off[Len(keys)] + 1)
<1> DEFINE n == Len(keys)
           R == Reader(t)
           At(k) == R[<<"entries", off[k]>>]
           Ok(k) == IF \E x \in k + 1 .. n : HasLeast[d[keys[x]]]
                    THEN At(k).val = Thrown
                    ELSE At(k) = Result(DictVal(Rest(d, keys, k)), off[n] + 1)
           T == {j \in Nat : j <= n => Ok(n - j)}
<1>0. /\ n \in Nat /\ (\A k \in 1 .. n : keys[k] \in Text) /\ Len(t) \in Nat
      /\ off[n] \in 1 .. Len(t) /\ t[off[n]] = EndChar
  BY LenProperties, ElementOfSeq, TextIs
<1>1. ASSUME NEW k \in 0 .. n, off[k] \in 1 .. Len(t)
      PROVE  At(k) = ReadEntries(t, R, off[k])
  <2> HIDE DEF n
  <2>1. <<"entries", off[k]>> \in Places(t)
    BY <1>0, <1>1 DEF Places
  <2>2. At(k) = Step(t, R, <<"entries", off[k]>>)
    BY <2>1, ReaderIs
  <2> HIDE DEF R
  <2> QED
    BY <2>2 DEF Step
<1>2. Ok(n)
  <2>1. n \in 0 .. n
    BY <1>0
  <2>2. At(n) = ReadEntries(t, R, off[n])
    BY <1>0, <1>1, <2>1
  <2> HIDE DEF R
  <2>3. ~(off[n] > Len(t))
    BY <1>0
  <2>4. At(n) = Result(DictVal(<<>>), off[n] + 1)
    BY <1>0, <2>2, <2>3 DEF ReadEntries
  <2>5. Rest(d, keys, n) = <<>>
    <3>1. {keys[x] : x \in n + 1 .. Len(keys)} = {}
      BY <1>0
    <3>2. Rest(d, keys, n) = [y \in {} |-> d[y]]
      BY <3>1 DEF Rest
    <3> QED
      BY <3>2
  <2>6. ~\E x \in n + 1 .. n : HasLeast[d[keys[x]]]
    BY <1>0
  <2> HIDE DEF n
  <2> QED
    BY <2>4, <2>5, <2>6
<1>3. ASSUME NEW k \in 1 .. n, Ok(k) PROVE Ok(k - 1)
  <2> DEFINE i == off[k - 1]
             key == keys[k]
             w == d[key]
             es == EncodeStr(key)
             s == Encode[w]
             j == i + Len(es)
  <2>0. k - 1 \in 0 .. n /\ k \in 0 .. n /\ (k - 1) + 1 = k
    BY <1>0
  <2>1. /\ key \in Text /\ w \in Values /\ i \in Nat \ {0} /\ ReadsBack(t, w)
        /\ Stands(t, i, es \o s) /\ off[k] = i + Len(es \o s)
    BY <1>0, <2>0 DEF WriteEntry
  <2>2. s \in Text /\ Len(s) >= 1 /\ Starts(s[1]) /\ w # Thrown
    BY <2>1, EncodedIs
  <2>3. es \in Text /\ Len(es) >= 1 /\ IsDigit(es[1])
    BY <2>1, EncodeStrIs
  <2>4. /\ Stands(t, i, es) /\ Stands(t, j, s) /\ off[k] = j + Len(s)
        /\ j \in Nat \ {0}
    <3> DEFINE both == es \o s
    <3>1. Stands(t, i, both) /\ off[k] = i + Len(both)
      BY <2>1
    <3> HIDE DEF es, s, i
    <3>2. /\ Stands(t, i, es) /\ Stands(t, i + Len(es), s) /\ Len(both) = Len(es) + Len(s)
          /\ Len(es) \in Nat /\ Len(s) \in Nat /\ i + Len(es) \in Nat \ {0}
      BY <2>1, <2>2, <2>3, <3>1, StandsParts
    <3> HIDE DEF both
    <3>3. off[k] = i + Len(es) + Len(s)
      BY <2>1, <3>1, <3>2
    <3> QED
      BY <3>2, <3>3
  <2>5. ReadStr(t, i) = Result(StrVal(key), j)
    <3> HIDE DEF i, key
    <3> QED
      BY <2>1, <2>4, ReadStrEncoded
  <2>6. i \in 1 .. Len(t) /\ t[i] = es[1]
    <3> HIDE DEF i, es
    <3> QED
      BY <2>1, <2>3, <2>4, StandsFirst
  <2>7. j \in 1 .. Len(t) /\ t[j] = s[1]
    <3> HIDE DEF j, s
    <3> QED
      BY <2>2, <2>4, StandsFirst
  <2>8. At(k - 1) = ReadEntries(t, R, i)
    BY <1>1, <2>0, <2>6
  <2>9. t[i] # EndChar /\ ~(i > Len(t)) /\ Starts(t[j]) /\ ~(j > Len(t))
    <3>1. Starts(es[1])
      BY <2>3 DEF Starts
    <3>2. t[i] # EndChar
      BY <2>6, <3>1, StartsIsNoEnd
    <3>3. ~(i > Len(t))
      <4> HIDE DEF i
      <4> QED
        BY <1>0, <2>6
    <3>4. ~(j > Len(t))
      <4> HIDE DEF j
      <4> QED
        BY <1>0, <2>7
    <3> QED
      BY <2>2, <2>7, <3>2, <3>3, <3>4
  <2> DEFINE r == R[<<"value", j>>]
  <2>10. IF HasLeast[w] THEN r.val = Thrown ELSE r = Result(w, off[k])
    BY <2>1, <2>4 DEF ReadsBack
  <2> HIDE DEF R, i, j, s, es, key, w
  <2>11. StrVal(key) # Thrown /\ Result(StrVal(key), j).val = StrVal(key)
         /\ Result(StrVal(key), j).pos = j /\ StrVal(key).val = key
    BY DEF StrVal, Thrown, Result
  <2>12. At(k - 1) = IF r.val = Thrown THEN r
                     ELSE IF R[<<"entries", r.pos>>].val = Thrown THEN R[<<"entries", r.pos>>]
                     ELSE Result(DictVal(Entered(key, r.val, R[<<"entries", r.pos>>].val.val)),
                                 R[<<"entries", r.pos>>].pos)
    BY <2>5, <2>8, <2>9, <2>11 DEF ReadEntries
  <2> HIDE DEF r
  <2> DEFINE a == At(k - 1)
             b == At(k)
             bad == \E x \in k + 1 .. n : HasLeast[d[keys[x]]]
  <2>13. (\E x \in (k - 1) + 1 .. n : HasLeast[d[keys[x]]]) <=> HasLeast[w] \/ bad
    <3>1. \A x : x \in (k - 1) + 1 .. n <=> x = k \/ x \in k + 1 .. n
      BY <1>0
    <3> HIDE DEF n
    <3> QED
      BY <3>1 DEF w, key
  <2>14. CASE HasLeast[w]
    <3>1. a.val = Thrown
      BY <2>10, <2>12, <2>14
    <3> QED
      BY <2>13, <2>14, <3>1
  <2>15. CASE ~HasLeast[w]
    <3>1. r.val = w /\ r.pos = off[k]
      BY <2>10, <2>15 DEF Result
    <3>2. a = IF b.val = Thrown THEN b ELSE Result(DictVal(Entered(key, w, b.val.val)), b.pos)
      BY <2>2, <2>12, <3>1
    <3>3. CASE bad
      <4>1. b.val = Thrown
        BY <1>3, <3>3
      <4>2. a.val = Thrown
        BY <3>2, <4>1
      <4> QED
        BY <2>13, <3>3, <4>2
    <3>4. CASE ~bad
      <4>1. b = Result(DictVal(Rest(d, keys, k)), off[n] + 1)
        BY <1>3, <3>4
      <4> HIDE DEF b
      <4>2. /\ b.val # Thrown /\ b.val.val = Rest(d, keys, k) /\ b.pos = off[n] + 1
        BY <4>1 DEF Result, DictVal, Thrown
      <4>3. Entered(key, w, Rest(d, keys, k)) = Rest(d, keys, k - 1)
        <5> DEFINE D == {keys[x] : x \in k + 1 .. n}
                   E == {keys[x] : x \in (k - 1) + 1 .. n}
        <5>1. E = {key} \cup D
          <6>1. \A x : x \in (k - 1) + 1 .. n <=> x = k \/ x \in k + 1 .. n
            BY <1>0
          <6> HIDE DEF n
          <6> QED
            BY <6>1 DEF key
        <5>2. Rest(d, keys, k) = [y \in D |-> d[y]] /\ Rest(d, keys, k - 1) = [y \in E |-> d[y]]
          BY DEF Rest
        <5> HIDE DEF D, E
        <5>3. Entered(key, w, Rest(d, keys, k))
              = [y \in {key} \cup D |-> IF y = key THEN w ELSE d[y]]
          BY <5>2 DEF Entered
        <5>4. [y \in {key} \cup D |-> IF y = key THEN w ELSE d[y]] = [y \in {key} \cup D |-> d[y]]
          BY DEF w
        <5> QED
          BY <5>1, <5>2, <5>3, <5>4
      <4>4. a = Result(DictVal(Rest(d, keys, k - 1)), off[n] + 1)
        BY <3>2, <4>2, <4>3
      <4> QED
        BY <2>13, <2>15, <3>4, <4>4
    <3> QED
      BY <3>3, <3>4
  <2> QED
    BY <2>14, <2>15
<1>4. 0 \in T
  <2>1. n - 0 = n
    BY <1>0
  <2> HIDE DEF Ok
  <2> QED
    BY <1>2, <2>1
<1>5. ASSUME NEW j \in Nat, j \in T PROVE j + 1 \in T
  <2> SUFFICES ASSUME j + 1 <= n PROVE Ok(n - (j + 1))
    OBVIOUS
  <2> DEFINE k == n - j
  <2>1. k \in 1 .. n /\ k - 1 = n - (j + 1) /\ j <= n
    BY <1>0
  <2> HIDE DEF Ok
  <2>2. Ok(k)
    BY <1>5, <2>1
  <2> HIDE DEF k
  <2>3. Ok(k - 1)
    BY <1>3, <2>1, <2>2
  <2> QED
    BY <2>1, <2>3
<1>6. Ok(0)
  <2> HIDE DEF T, Ok
  <2>1. Nat \subseteq T
    BY <1>4, <1>5, Induction
  <2>2. n \in T /\ n <= n /\ n - n = 0
    BY <1>0, <2>1
  <2> QED
    BY <2>2 DEF T
<1>7. 0 + 1 .. n = 1 .. n
  OBVIOUS
<1> HIDE DEF R
<1> QED
  BY <1>6, <1>7 DEF R

(* What stands between the brackets of a list or a dictionary.             *)
LEMMA WithinBrackets ==
  ASSUME NEW t \in Text, NEW i \in Nat \ {0}, NEW b \in Char, NEW s \in Text,
         Stands(t, i, <<b>> \o s \o <<EndChar>>)
  PROVE  /\ i \in 1 .. Len(t) /\ t[i] = b /\ Stands(t, i + 1, s)
         /\ i + 1 + Len(s) \in 1 .. Len(t) /\ t[i + 1 + Len(s)] = EndChar
         /\ Len(<<b>> \o s \o <<EndChar>>) = Len(s) + 2 /\ Len(s) \in Nat /\ Len(t) \in Nat
<1> DEFINE a == <<b>>
           z == <<EndChar>>
           as == a \o s
<1>1. a \in Text /\ Len(a) = 1 /\ a[1] = b
  BY DEF Text
<1>2. z \in Text /\ Len(z) = 1 /\ z[1] = EndChar
  BY DEF Text, EndChar, Char
<1>3. Stands(t, i, as \o z)
  OBVIOUS
<1>4. Len(as \o z) = Len(s) + 2
  <2>1. EndChar \in Char
    BY DEF EndChar, Char
  <2> QED
    BY <2>1, Between
<1> HIDE DEF a, z
<1>5. as \in Text /\ Len(as) = 1 + Len(s) /\ Len(s) \in Nat /\ Len(t) \in Nat
  <2>1. a \in Seq(Char) /\ s \in Seq(Char)
    BY <1>1 DEF Text
  <2>2. as \in Seq(Char) /\ Len(as) = Len(a) + Len(s)
    BY <2>1, ConcatProperties
  <2> QED
    BY <1>1, <2>2, TextIs DEF Text
<1>6. Stands(t, i, as) /\ Stands(t, i + Len(as), z) /\ i + Len(as) \in Nat \ {0}
  <2> HIDE DEF as
  <2> QED
    BY <1>2, <1>3, <1>5, StandsParts
<1>7. Stands(t, i, a) /\ Stands(t, i + Len(a), s)
  BY <1>1, <1>6, StandsParts
<1> HIDE DEF as
<1>8. i \in 1 .. Len(t) /\ t[i] = b
  BY <1>1, <1>7, StandsFirst
<1> DEFINE e == i + Len(as)
<1>9. e = i + 1 + Len(s)
  BY <1>5
<1>10. e \in Nat \ {0} /\ Stands(t, e, z)
  BY <1>6
<1> HIDE DEF e
<1>11. e \in 1 .. Len(t) /\ t[e] = EndChar
  BY <1>2, <1>10, StandsFirst
<1> QED
  BY <1>1, <1>4, <1>5, <1>7, <1>8, <1>9, <1>11 DEF a, as, z

(* A list and a dictionary of values that are read back are read back.     *)
LEMMA ListReadsBack ==
  ASSUME FormatsAssumption, ValuesAssumption, NEW t \in Text, NEW v \in Values, IsList(v),
         \A w \in Values : Depth[w] < Depth[v] => ReadsBack(t, w)
  PROVE  ReadsBack(t, v)
<1> SUFFICES ASSUME NEW i \in Nat \ {0}, Stands(t, i, Encode[v])
             PROVE  IF HasLeast[v] THEN Reader(t)[<<"value", i>>].val = Thrown
                    ELSE Reader(t)[<<"value", i>>] = Result(v, i + Len(Encode[v]))
  BY DEF ReadsBack
<1> DEFINE l == v.val
           g == Encode
           ss == [j \in DOMAIN l |-> g[l[j]]]
           s == FlattenSeq(ss)
           R == Reader(t)
<1>1. g \in [Values -> Text] /\ g[v] = WriteOne(g, v)
  BY EncodeIs
<1>2. v.kind = "list" /\ v = ListVal(l) /\ l \in Seq(Values)
  BY DEF IsList, ListVal
<1>3. g[v] = <<ListChar>> \o s \o <<EndChar>>
  BY <1>1, <1>2 DEF WriteOne
<1>4. /\ ss \in Seq(Text) /\ Len(ss) = Len(l) /\ DOMAIN l = 1 .. Len(l) /\ Len(l) \in Nat
      /\ \A j \in 1 .. Len(l) : l[j] \in Values
  <2> HIDE DEF g
  <2> QED
    BY <1>1, ItemsAre
<1>5. \A j \in 1 .. Len(l) : ReadsBack(t, l[j])
  <2>1. \A j \in 1 .. Len(l) : Depth[l[j]] < Depth[v]
    BY <1>4, PartIs
  <2> QED
    BY <1>4, <2>1
<1>6. \A j \in 1 .. Len(l) : ss[j] = g[l[j]]
  BY <1>4
<1>7. s \in Text
  <2> HIDE DEF ss
  <2>1. ss \in Seq(Seq(Char))
    BY <1>4 DEF Text
  <2> QED
    BY <2>1, FlattenIs DEF Text
<1>8. HasLeast[v] <=> \E x \in 1 .. Len(l) : HasLeast[l[x]]
  BY <1>4, HasLeastIs
<1>9. Stands(t, i, g[v]) /\ g[v] = Encode[v]
  OBVIOUS
<1> HIDE DEF l, g, ss, s
<1>10. /\ i \in 1 .. Len(t) /\ t[i] = ListChar /\ Stands(t, i + 1, s)
       /\ i + 1 + Len(s) \in 1 .. Len(t) /\ t[i + 1 + Len(s)] = EndChar
       /\ Len(<<ListChar>> \o s \o <<EndChar>>) = Len(s) + 2 /\ Len(s) \in Nat /\ Len(t) \in Nat
  <2>1. ListChar \in Char
    BY DEF ListChar, Char
  <2>2. Stands(t, i, <<ListChar>> \o s \o <<EndChar>>)
    BY <1>3, <1>9
  <2> QED
    BY <1>7, <2>1, <2>2, WithinBrackets
<1>11. R[<<"value", i>>] = R[<<"items", i + 1>>]
  <2>1. <<"value", i>> \in Places(t)
    BY <1>10 DEF Places
  <2>2. R[<<"value", i>>] = Step(t, R, <<"value", i>>)
    BY <2>1, ReaderIs
  <2>3. Starts(t[i]) /\ t[i] = ListChar /\ t[i] # IntChar /\ ~(i > Len(t))
    BY <1>10 DEF Starts, ListChar, IntChar
  <2> HIDE DEF R
  <2> QED
    BY <2>2, <2>3 DEF Step, ReadOne
<1>12. PICK off \in [0 .. Len(l) -> Nat \ {0}] :
         /\ off[0] = i + 1 /\ off[Len(l)] = i + 1 + Len(s)
         /\ \A k \in 1 .. Len(l) : Stands(t, off[k - 1], ss[k]) /\ off[k] = off[k - 1] + Len(ss[k])
  <2>0. ss \in Seq(Text) /\ Len(ss) = Len(l)
    BY <1>4
  <2>1. i + 1 \in Nat \ {0} /\ Stands(t, i + 1, FlattenSeq(ss))
    BY <1>10 DEF s
  <2>2. \E off \in [0 .. Len(ss) -> Nat \ {0}] :
           /\ off[0] = i + 1 /\ off[Len(ss)] = i + 1 + Len(FlattenSeq(ss))
           /\ \A k \in 1 .. Len(ss) : Stands(t, off[k - 1], ss[k]) /\ off[k] = off[k - 1] + Len(ss[k])
    BY <2>0, <2>1, PartsStand
  <2> QED
    BY <2>0, <2>2 DEF s
<1>13. /\ \A k \in 1 .. Len(l) : Stands(t, off[k - 1], Encode[l[k]])
                                 /\ off[k] = off[k - 1] + Len(Encode[l[k]])
       /\ off[Len(l)] \in 1 .. Len(t) /\ t[off[Len(l)]] = EndChar
  BY <1>6, <1>10, <1>12 DEF g
<1>14. IF \E x \in 1 .. Len(l) : HasLeast[l[x]]
       THEN R[<<"items", off[0]>>].val = Thrown
       ELSE R[<<"items", off[0]>>] = Result(ListVal(l), off[Len(l)] + 1)
  BY <1>2, <1>5, <1>13, ItemsReadBack
<1> HIDE DEF R
<1>15. off[Len(l)] + 1 = i + Len(g[v])
  <2>1. Len(g[v]) = Len(s) + 2
    BY <1>3, <1>10
  <2> QED
    BY <1>10, <1>12, <2>1
<1>16. IF HasLeast[v] THEN R[<<"value", i>>].val = Thrown
       ELSE R[<<"value", i>>] = Result(v, i + Len(g[v]))
  BY <1>2, <1>8, <1>11, <1>12, <1>14, <1>15
<1> QED
  BY <1>16 DEF R, g

(* As a list, with the keys in their order.                                *)
LEMMA DictReadsBack ==
  ASSUME FormatsAssumption, ValuesAssumption, NEW t \in Text, NEW v \in Values, IsDict(v),
         \A w \in Values : Depth[w] < Depth[v] => ReadsBack(t, w)
  PROVE  ReadsBack(t, v)
<1> SUFFICES ASSUME NEW i \in Nat \ {0}, Stands(t, i, Encode[v])
             PROVE  IF HasLeast[v] THEN Reader(t)[<<"value", i>>].val = Thrown
                    ELSE Reader(t)[<<"value", i>>] = Result(v, i + Len(Encode[v]))
  BY DEF ReadsBack
<1> DEFINE d == v.val
           g == Encode
           keys == Sorted(DOMAIN d)
           ss == [j \in DOMAIN keys |-> WriteEntry(g, d, keys[j])]
           s == FlattenSeq(ss)
           R == Reader(t)
<1>1. g \in [Values -> Text] /\ g[v] = WriteOne(g, v)
  BY EncodeIs
<1>2. /\ v.kind = "dict" /\ v = DictVal(d) /\ d = [k \in DOMAIN d |-> d[k]]
      /\ DOMAIN d \subseteq Text /\ IsFiniteSet(DOMAIN d)
  BY DEF IsDict, DictVal
<1>3. g[v] = <<DictChar>> \o s \o <<EndChar>>
  BY <1>1, <1>2 DEF WriteOne
<1>4. /\ ss \in Seq(Text) /\ Len(ss) = Len(keys) /\ DOMAIN keys = 1 .. Len(keys) /\ Len(keys) \in Nat
      /\ \A j \in 1 .. Len(keys) : keys[j] \in Text /\ keys[j] \in DOMAIN d /\ d[keys[j]] \in Values
  <2> HIDE DEF g
  <2> QED
    BY <1>1, EntriesAre
<1>5. \A j \in 1 .. Len(keys) : d[keys[j]] \in Values /\ ReadsBack(t, d[keys[j]])
  <2>1. \A j \in 1 .. Len(keys) : Depth[d[keys[j]]] < Depth[v]
    BY <1>4, PartIs
  <2> QED
    BY <1>4, <2>1
<1>6. \A j \in 1 .. Len(keys) : ss[j] = WriteEntry(g, d, keys[j])
  BY <1>4
<1>7. s \in Text
  <2> HIDE DEF ss
  <2>1. ss \in Seq(Seq(Char))
    BY <1>4 DEF Text
  <2> QED
    BY <2>1, FlattenIs DEF Text
<1>8. keys \in Seq(Text) /\ \A x \in DOMAIN d : \E j \in 1 .. Len(keys) : keys[j] = x
  <2> HIDE DEF d
  <2> QED
    BY <1>2, SortedIs
<1>9. HasLeast[v] <=> \E x \in 1 .. Len(keys) : HasLeast[d[keys[x]]]
  <2>1. HasLeast[v] <=> \E x \in DOMAIN d : HasLeast[d[x]]
    BY HasLeastIs
  <2> HIDE DEF d, keys
  <2> QED
    BY <1>4, <1>8, <2>1
<1>10. Stands(t, i, g[v]) /\ g[v] = Encode[v]
  OBVIOUS
<1>11. Rest(d, keys, 0) = d
  <2> HIDE DEF d, keys
  <2>1. \A x : x \in 0 + 1 .. Len(keys) <=> x \in 1 .. Len(keys)
    BY <1>4
  <2>2. {keys[x] : x \in 0 + 1 .. Len(keys)} = DOMAIN d
    <3> DEFINE K == {keys[x] : x \in 0 + 1 .. Len(keys)}
    <3>1. ASSUME NEW y \in K PROVE y \in DOMAIN d
      <4>1. PICK x \in 0 + 1 .. Len(keys) : y = keys[x]
        OBVIOUS
      <4> QED
        BY <1>4, <2>1, <4>1
    <3>2. ASSUME NEW y \in DOMAIN d PROVE y \in K
      <4>1. PICK x \in 1 .. Len(keys) : keys[x] = y
        BY <1>8
      <4>2. x \in 0 + 1 .. Len(keys)
        BY <2>1
      <4> QED
        BY <4>1, <4>2
    <3> QED
      BY <3>1, <3>2
  <2> QED
    BY <1>2, <2>2 DEF Rest
<1> HIDE DEF d, g, ss, s, keys
<1>12. /\ i \in 1 .. Len(t) /\ t[i] = DictChar /\ Stands(t, i + 1, s)
       /\ i + 1 + Len(s) \in 1 .. Len(t) /\ t[i + 1 + Len(s)] = EndChar
       /\ Len(<<DictChar>> \o s \o <<EndChar>>) = Len(s) + 2 /\ Len(s) \in Nat /\ Len(t) \in Nat
  <2>1. DictChar \in Char
    BY DEF DictChar, Char
  <2>2. Stands(t, i, <<DictChar>> \o s \o <<EndChar>>)
    BY <1>3, <1>10
  <2> QED
    BY <1>7, <2>1, <2>2, WithinBrackets
<1>13. R[<<"value", i>>] = R[<<"entries", i + 1>>]
  <2>1. <<"value", i>> \in Places(t)
    BY <1>12 DEF Places
  <2>2. R[<<"value", i>>] = Step(t, R, <<"value", i>>)
    BY <2>1, ReaderIs
  <2>3. Starts(t[i]) /\ t[i] = DictChar /\ t[i] # IntChar /\ t[i] # ListChar /\ ~(i > Len(t))
    BY <1>12 DEF Starts, ListChar, IntChar, DictChar
  <2> HIDE DEF R
  <2> QED
    BY <2>2, <2>3 DEF Step, ReadOne
<1>14. PICK off \in [0 .. Len(keys) -> Nat \ {0}] :
         /\ off[0] = i + 1 /\ off[Len(keys)] = i + 1 + Len(s)
         /\ \A k \in 1 .. Len(keys) : Stands(t, off[k - 1], ss[k]) /\ off[k] = off[k - 1] + Len(ss[k])
  <2>1. i + 1 \in Nat \ {0} /\ Stands(t, i + 1, FlattenSeq(ss))
    BY <1>12 DEF s
  <2>2. \E off \in [0 .. Len(ss) -> Nat \ {0}] :
           /\ off[0] = i + 1 /\ off[Len(ss)] = i + 1 + Len(FlattenSeq(ss))
           /\ \A k \in 1 .. Len(ss) : Stands(t, off[k - 1], ss[k]) /\ off[k] = off[k - 1] + Len(ss[k])
    BY <1>4, <2>1, PartsStand
  <2> QED
    BY <1>4, <2>2 DEF s
<1>15. /\ \A k \in 1 .. Len(keys) : Stands(t, off[k - 1], WriteEntry(Encode, d, keys[k]))
                                    /\ off[k] = off[k - 1] + Len(WriteEntry(Encode, d, keys[k]))
       /\ off[Len(keys)] \in 1 .. Len(t) /\ t[off[Len(keys)]] = EndChar
  BY <1>6, <1>12, <1>14 DEF g
<1>16. IF \E x \in 1 .. Len(keys) : HasLeast[d[keys[x]]]
       THEN R[<<"entries", off[0]>>].val = Thrown
       ELSE R[<<"entries", off[0]>>] = Result(DictVal(Rest(d, keys, 0)), off[Len(keys)] + 1)
  <2>1. keys \in Seq(Text)
    BY <1>8
  <2> HIDE DEF R
  <2>2. IF \E x \in 1 .. Len(keys) : HasLeast[d[keys[x]]]
        THEN Reader(t)[<<"entries", off[0]>>].val = Thrown
        ELSE Reader(t)[<<"entries", off[0]>>] = Result(DictVal(Rest(d, keys, 0)), off[Len(keys)] + 1)
    BY <1>5, <1>15, <2>1, EntriesReadBack
  <2> QED
    BY <2>2 DEF R
<1> HIDE DEF R
<1>17. off[Len(keys)] + 1 = i + Len(g[v])
  <2>1. Len(g[v]) = Len(s) + 2
    BY <1>3, <1>12
  <2> QED
    BY <1>12, <1>14, <2>1
<1>18. IF HasLeast[v] THEN R[<<"value", i>>].val = Thrown
       ELSE R[<<"value", i>>] = Result(v, i + Len(g[v]))
  BY <1>2, <1>9, <1>11, <1>13, <1>14, <1>16, <1>17
<1> QED
  BY <1>18 DEF R, g

(* An integer and a string are read back.                                  *)
LEMMA LeafReadsBack ==
  ASSUME FormatsAssumption, ValuesAssumption, NEW t \in Text, NEW v \in Values, IsInt(v) \/ IsStr(v)
  PROVE  ReadsBack(t, v)
<1> SUFFICES ASSUME NEW i \in Nat \ {0}, Stands(t, i, Encode[v])
             PROVE  IF HasLeast[v] THEN Reader(t)[<<"value", i>>].val = Thrown
                    ELSE Reader(t)[<<"value", i>>] = Result(v, i + Len(Encode[v]))
  BY DEF ReadsBack
<1> DEFINE g == Encode
           s == g[v]
           R == Reader(t)
<1>1. g \in [Values -> Text] /\ s = WriteOne(g, v) /\ Stands(t, i, s)
  BY EncodeIs
<1>2. s \in Text /\ Len(s) >= 1 /\ Starts(s[1])
  BY EncodedIs
<1>3. HasLeast[v] <=> IsInt(v) /\ v.val = -MaxInt - 1
  <2>1. ~(IsInt(v) /\ IsStr(v))
    BY DEF IsInt, IsStr, IntVal, StrVal
  <2> QED
    BY <2>1, HasLeastIs
<1> HIDE DEF g
<1>4. i \in 1 .. Len(t) /\ t[i] = s[1] /\ Len(t) \in Nat
  <2> HIDE DEF s
  <2> QED
    BY <1>1, <1>2, StandsFirst
<1>5. R[<<"value", i>>] = ReadOne(t, R, i)
  <2>1. <<"value", i>> \in Places(t)
    BY <1>4 DEF Places
  <2>2. R[<<"value", i>>] = Step(t, R, <<"value", i>>)
    BY <2>1, ReaderIs
  <2> HIDE DEF R
  <2> QED
    BY <2>2 DEF Step
<1> HIDE DEF R
<1>6. CASE IsInt(v)
  <2> DEFINE n == v.val
  <2>1. v.kind = "int" /\ v = IntVal(n) /\ n \in -MaxInt - 1 .. MaxInt /\ n \in Int
    BY <1>6 DEF IsInt, IntVal, FormatsAssumption
  <2>2. s = EncodeInt(n)
    BY <1>1, <2>1 DEF WriteOne
  <2>3. s[1] = IntChar
    <3>1. EncodeInt(n)[1] = IntChar
      <4> HIDE DEF n
      <4> QED
        BY <2>1, EncodeIntIs
    <3> QED
      BY <2>2, <3>1
  <2> HIDE DEF n
  <2>4. ReadInt(t, i) = Result(IF n = -MaxInt - 1 THEN Thrown ELSE IntVal(n), i + Len(s))
    BY <1>1, <2>1, <2>2, ReadIntEncoded
  <2>5. ReadOne(t, R, i) = ReadInt(t, i)
    BY <1>2, <1>4, <2>3 DEF ReadOne
  <2>6. HasLeast[v] <=> n = -MaxInt - 1
    BY <1>3, <1>6 DEF n
  <2>7. IF HasLeast[v] THEN R[<<"value", i>>].val = Thrown
        ELSE R[<<"value", i>>] = Result(v, i + Len(s))
    BY <1>5, <2>1, <2>4, <2>5, <2>6 DEF Result
  <2> QED
    BY <2>7 DEF g, R
<1>7. CASE IsStr(v)
  <2> DEFINE u == v.val
  <2>1. v.kind = "str" /\ v = StrVal(u) /\ u \in Text
    BY <1>7 DEF IsStr, StrVal
  <2>2. s = EncodeStr(u)
    BY <1>1, <2>1 DEF WriteOne
  <2>3. IsDigit(s[1])
    <3>1. IsDigit(EncodeStr(u)[1])
      <4> HIDE DEF u
      <4> QED
        BY <2>1, EncodeStrIs
    <3> QED
      BY <2>2, <3>1
  <2> HIDE DEF u
  <2>4. ReadStr(t, i) = Result(StrVal(u), i + Len(s))
    BY <1>1, <2>1, <2>2, ReadStrEncoded
  <2>5. ReadOne(t, R, i) = ReadStr(t, i)
    <3>1. t[i] # IntChar /\ t[i] # ListChar /\ t[i] # DictChar
      <4>1. \A c : IsDigit(c) => c # IntChar /\ c # ListChar /\ c # DictChar
        BY DEF IsDigit, Zero, Nine, IntChar, ListChar, DictChar
      <4> QED
        BY <1>4, <2>3, <4>1
    <3> QED
      BY <1>2, <1>4, <3>1 DEF ReadOne
  <2>6. ~HasLeast[v]
    BY <1>7, HasLeastIs
  <2>7. IF HasLeast[v] THEN R[<<"value", i>>].val = Thrown
        ELSE R[<<"value", i>>] = Result(v, i + Len(s))
    BY <1>5, <2>1, <2>4, <2>5, <2>6
  <2> QED
    BY <2>7 DEF g, R
<1> QED
  BY <1>6, <1>7

(* Every value is read back, by induction on how deep it is nested.        *)
LEMMA ValueReadsBack ==
  ASSUME FormatsAssumption, ValuesAssumption, NEW t \in Text, NEW v \in Values
  PROVE  ReadsBack(t, v)
<1> DEFINE T == {n \in Nat : \A w \in Values : Depth[w] = n => ReadsBack(t, w)}
<1>0. Depth \in [Values -> Nat]
  BY DEF ValuesAssumption
<1>1. ASSUME NEW n \in Nat, \A m \in Nat : m < n => m \in T PROVE n \in T
  <2> SUFFICES ASSUME NEW w \in Values, Depth[w] = n PROVE ReadsBack(t, w)
    OBVIOUS
  <2>1. \A u \in Values : Depth[u] < Depth[w] => ReadsBack(t, u)
    BY <1>0, <1>1
  <2>2. CASE IsInt(w) \/ IsStr(w)
    BY <2>2, LeafReadsBack
  <2>3. CASE IsList(w)
    BY <2>1, <2>3, ListReadsBack
  <2>4. CASE IsDict(w)
    BY <2>1, <2>4, DictReadsBack
  <2> QED
    BY <2>2, <2>3, <2>4, KindIs
<1> HIDE DEF T
<1>2. Nat \subseteq T
  BY <1>1, StrongInduction
<1>3. Depth[v] \in T
  BY <1>0, <1>2
<1> QED
  BY <1>3 DEF T

(* What is written is read back from where a text begins, whatever follows.*)
LEMMA WrittenIsRead ==
  ASSUME FormatsAssumption, ValuesAssumption, NEW v \in Values, NEW rest \in Text
  PROVE  IF HasLeast[v] THEN ReadValue(Encode[v] \o rest).val = Thrown
         ELSE ReadValue(Encode[v] \o rest) = Result(v, Len(Encode[v]) + 1)
<1> DEFINE s == Encode[v]
           t == s \o rest
<1>1. s \in Text /\ Len(s) \in Nat
  BY EncodedIs
<1> HIDE DEF s
<1>2. Stands(t, 1, s) /\ t \in Text
  <2>1. <<>> \in Text /\ Len(<<>>) = 0 /\ <<>> \o s = s
    BY <1>1, EmptySeq, ConcatEmptySeq DEF Text
  <2>2. Stands(<<>> \o s \o rest, Len(<<>>) + 1, s) /\ <<>> \o s \o rest \in Text
    BY <1>1, <2>1, StandsBetween
  <2> QED
    BY <2>1, <2>2
<1> HIDE DEF t
<1>3. ReadsBack(t, v)
  BY <1>2, ValueReadsBack
<1>4. 1 \in Nat \ {0}
  OBVIOUS
<1>5. IF HasLeast[v] THEN Reader(t)[<<"value", 1>>].val = Thrown
      ELSE Reader(t)[<<"value", 1>>] = Result(v, 1 + Len(s))
  BY <1>2, <1>3, <1>4 DEF ReadsBack, s
<1>6. 1 + Len(s) = Len(s) + 1
  BY <1>1
<1> QED
  BY <1>5, <1>6 DEF ReadValue, s, t

(* ... and from a text that is nothing else.                               *)
LEMMA AloneIsRead ==
  ASSUME FormatsAssumption, ValuesAssumption, NEW v \in Values
  PROVE  IF HasLeast[v] THEN ReadValue(Encode[v]).val = Thrown
         ELSE ReadValue(Encode[v]) = Result(v, Len(Encode[v]) + 1)
<1>1. Encode[v] \in Text /\ <<>> \in Text /\ Encode[v] \o <<>> = Encode[v]
  BY EncodedIs, EmptySeq, ConcatEmptySeq DEF Text
<1> QED
  BY <1>1, WrittenIsRead

-----------------------------------------------------------------------------
(* What a tracker answers                                                  *)

(* Texts of one length put together stand at its multiples.                *)
LEMMA EvenParts ==
  ASSUME NEW w \in Nat, NEW ss \in Seq(Text), \A k \in 1 .. Len(ss) : Len(ss[k]) = w
  PROVE  /\ FlattenSeq(ss) \in Text /\ Len(FlattenSeq(ss)) = w * Len(ss)
         /\ \A k \in 1 .. Len(ss) : Stands(FlattenSeq(ss), w * (k - 1) + 1, ss[k])
<1> DEFINE t == FlattenSeq(ss)
           n == Len(ss)
<1>0. n \in Nat
  BY LenProperties
<1>1. t \in Text
  <2>1. ss \in Seq(Seq(Char))
    BY DEF Text
  <2> QED
    BY <2>1, FlattenIs DEF Text
<1>2. Len(t) \in Nat
  <2> HIDE DEF t
  <2> QED
    BY <1>1, TextIs
<1>3. Stands(t, 1, t)
  <2> HIDE DEF t
  <2> QED
    BY <1>2 DEF Stands
<1>4. PICK off \in [0 .. n -> Nat \ {0}] :
         /\ off[0] = 1 /\ off[n] = 1 + Len(t)
         /\ \A k \in 1 .. n : Stands(t, off[k - 1], ss[k]) /\ off[k] = off[k - 1] + Len(ss[k])
  BY <1>1, <1>3, PartsStand
<1> DEFINE T == {k \in Nat : k <= n => off[k] = w * k + 1}
<1> HIDE DEF t, n
<1>5. \A k \in 1 .. n : Len(ss[k]) = w
  BY DEF n
<1>6. 0 \in T
  <2>1. w * 0 + 1 = 1
    OBVIOUS
  <2> QED
    BY <1>4, <2>1
<1>7. ASSUME NEW k \in Nat, k \in T PROVE k + 1 \in T
  <2> SUFFICES ASSUME k + 1 <= n PROVE off[k + 1] = w * (k + 1) + 1
    OBVIOUS
  <2>1. k + 1 \in 1 .. n /\ (k + 1) - 1 = k /\ k <= n
    BY <1>0
  <2>2. off[k + 1] = off[k] + w
    BY <1>4, <1>5, <2>1
  <2>3. off[k] = w * k + 1
    BY <1>7, <2>1
  <2>4. w * (k + 1) = w * k + w /\ w * k \in Nat
    OBVIOUS
  <2> QED
    BY <2>2, <2>3, <2>4
<1>8. Nat \subseteq T
  <2> HIDE DEF T
  <2> QED
    BY <1>6, <1>7, Induction
<1>9. Len(t) = w * n
  <2>1. off[n] = w * n + 1
    BY <1>0, <1>8
  <2>2. w * n \in Nat
    BY <1>0
  <2> QED
    BY <1>2, <1>4, <2>1, <2>2
<1>10. \A k \in 1 .. n : Stands(t, w * (k - 1) + 1, ss[k])
  <2> SUFFICES ASSUME NEW k \in 1 .. n PROVE Stands(t, w * (k - 1) + 1, ss[k])
    OBVIOUS
  <2>1. k - 1 \in Nat /\ k - 1 <= n
    BY <1>0
  <2>2. off[k - 1] = w * (k - 1) + 1
    BY <1>8, <2>1
  <2> QED
    BY <1>4, <2>2
<1> QED
  BY <1>1, <1>9, <1>10 DEF t, n

(* The six bytes of a peer.                                                *)
Low(p) == <<p.port \div 256, p.port % 256>>

(* Two bytes are enough for it.                                            *)
LEMMA PortIs ==
  ASSUME NEW n \in Ports
  PROVE  n \in Nat /\ n < 256 * 256
<1> DEFINE a == 256
<1>1. n \in 0 .. a * a - 1
  BY DEF Ports
<1>2. a \in Nat
  OBVIOUS
<1> HIDE DEF a
<1>3. a * a \in Nat
  BY <1>2
<1>4. n \in Nat /\ n < a * a
  BY <1>1, <1>3
<1> QED
  BY <1>4 DEF a

(* ... the high one and the low one.                                       *)
LEMMA TwoBytes ==
  ASSUME NEW n \in Nat, n < 256 * 256
  PROVE  n \div 256 \in 0 .. 255 /\ n % 256 \in 0 .. 255 /\ 256 * (n \div 256) + (n % 256) = n
  OBVIOUS

(* A peer is written in six bytes, from which its port is read.            *)
LEMMA PeerIs ==
  ASSUME NEW p \in Peer
  PROVE  /\ p = [ip |-> p.ip, port |-> p.port]
         /\ p.ip \in Text /\ Len(p.ip) = 4 /\ Low(p) \in Text /\ Len(Low(p)) = 2
         /\ Port(Low(p)[1], Low(p)[2]) = p.port
         /\ p.ip \o Low(p) \in Text /\ Len(p.ip \o Low(p)) = 6
<1>1. PICK a \in [1 .. 4 -> Char], n \in Ports : p = [ip |-> a, port |-> n]
  BY DEF Peer
<1>2. p.ip = a /\ p.port = n
  BY <1>1
<1>3. a \in Text /\ Len(a) = 4
  <2> DEFINE m == 4
  <2>1. m \in Nat /\ a \in [1 .. m -> Char]
    OBVIOUS
  <2> HIDE DEF m
  <2>2. a \in Seq(Char) /\ Len(a) = m
    BY <2>1, IsSeq
  <2> QED
    BY <2>2 DEF Text, m
<1>4. n \div 256 \in 0 .. 255 /\ n % 256 \in 0 .. 255 /\ 256 * (n \div 256) + (n % 256) = n
  BY PortIs, TwoBytes
<1> DEFINE h == n \div 256
           l == n % 256
           b == <<h, l>>
<1>5. h \in Char /\ l \in Char /\ Port(h, l) = n
  BY <1>4 DEF Char, Port
<1> HIDE DEF h, l
<1>6. b \in Text /\ Len(b) = 2 /\ b[1] = h /\ b[2] = l
  BY <1>5 DEF Text
<1>7. Low(p) = b
  BY <1>2 DEF Low, h, l
<1> HIDE DEF b
<1>8. a \o b \in Text /\ Len(a \o b) = 6
  <2> DEFINE c == a
  <2>1. c \in Seq(Char) /\ b \in Seq(Char) /\ Len(c) = 4
    BY <1>3, <1>6 DEF Text
  <2> HIDE DEF c
  <2>2. c \o b \in Seq(Char) /\ Len(c \o b) = Len(c) + Len(b)
    BY <2>1, ConcatProperties
  <2>3. c \o b \in Text /\ Len(c \o b) = 6
    BY <1>6, <2>1, <2>2 DEF Text
  <2> QED
    BY <2>3 DEF c
<1> QED
  BY <1>1, <1>2, <1>3, <1>5, <1>6, <1>7, <1>8

(* parse_peers finds the peers whose addresses were put together.          *)
LEMMA PeersParsed ==
  ASSUME NEW ps \in Seq(Peer)
  PROVE  PeersText(ps) \in Text /\ ParsePeers(PeersText(ps)) = ps
<1> DEFINE n == Len(ps)
           Six(k) == ps[k].ip \o Low(ps[k])
           ss == [k \in DOMAIN ps |-> Six(k)]
           t == PeersText(ps)
<1>0. n \in Nat /\ DOMAIN ps = 1 .. n /\ ps = [k \in 1 .. n |-> ps[k]]
  BY LenProperties
<1>1. \A k \in 1 .. n : ps[k] \in Peer
  BY ElementOfSeq
<1>3. ASSUME NEW k \in 1 .. n PROVE Six(k) \in Text /\ Len(Six(k)) = 6
  BY <1>1, PeerIs
<1>4. ss \in Seq(Text) /\ Len(ss) = n /\ \A k \in 1 .. n : ss[k] = Six(k)
  <2>1. ss \in [1 .. n -> Text]
    BY <1>0, <1>3
  <2>2. \A k \in 1 .. n : ss[k] = Six(k)
    BY <1>0
  <2> HIDE DEF ss, n
  <2> QED
    BY <1>0, <2>1, <2>2, IsSeq
<1>5. t = FlattenSeq(ss)
  BY DEF PeersText, Low
<1>6. \A k \in 1 .. Len(ss) : Len(ss[k]) = 6
  BY <1>3, <1>4
<1> HIDE DEF ss, t
<1>7. t \in Text /\ Len(t) = 6 * n /\ \A k \in 1 .. n : Stands(t, 6 * (k - 1) + 1, ss[k])
  <2>1. 6 \in Nat
    OBVIOUS
  <2>2. /\ FlattenSeq(ss) \in Text /\ Len(FlattenSeq(ss)) = 6 * Len(ss)
        /\ \A k \in 1 .. Len(ss) : Stands(FlattenSeq(ss), 6 * (k - 1) + 1, ss[k])
    BY <1>4, <1>6, <2>1, EvenParts
  <2> QED
    BY <1>4, <1>5, <2>2
<1> HIDE DEF n
<1>8. Len(t) \div 6 = n
  <2>1. (6 * n) \div 6 = n
    BY <1>0
  <2> QED
    BY <1>7, <2>1
<1>9. ASSUME NEW k \in 1 .. n
      PROVE  [ip |-> SubSeq(t, 6 * k - 5, 6 * k - 2), port |-> Port(t[6 * k - 1], t[6 * k])] = ps[k]
  <2> DEFINE p == ps[k]
             a == p.ip
             b == Low(p)
             i == 6 * (k - 1) + 1
  <2>0. Stands(t, i, a \o b)
    BY <1>4, <1>7
  <2>1. p \in Peer
    BY <1>1
  <2> HIDE DEF p
  <2>2. /\ a \in Text /\ Len(a) = 4 /\ b \in Text /\ Len(b) = 2
        /\ Port(b[1], b[2]) = p.port /\ p = [ip |-> a, port |-> p.port]
    BY <2>1, PeerIs
  <2>3. i \in Nat \ {0} /\ i = 6 * k - 5 /\ i + 4 - 1 = 6 * k - 2 /\ i + 4 = 6 * k - 1
        /\ (6 * k - 1) + 1 - 1 = 6 * k - 1 /\ (6 * k - 1) + 2 - 1 = 6 * k
    BY <1>0
  <2> HIDE DEF a, b, i
  <2>4. Stands(t, i, a) /\ Stands(t, i + Len(a), b)
    BY <1>7, <2>0, <2>2, <2>3, StandsParts
  <2>5. SubSeq(t, 6 * k - 5, 6 * k - 2) = a
    <3>1. SubSeq(t, i, i + Len(a) - 1) = a
      BY <1>7, <2>2, <2>3, <2>4, StandsCut
    <3> QED
      BY <2>2, <2>3, <3>1
  <2>6. t[6 * k - 1] = b[1] /\ t[6 * k] = b[2]
    <3>1. \A x \in 1 .. 2 : t[(6 * k - 1) + x - 1] = b[x]
      BY <2>2, <2>3, <2>4 DEF Stands
    <3>2. 1 \in 1 .. 2 /\ 2 \in 1 .. 2
      OBVIOUS
    <3>3. t[(6 * k - 1) + 1 - 1] = b[1] /\ t[(6 * k - 1) + 2 - 1] = b[2]
      BY <3>1, <3>2
    <3> QED
      BY <2>3, <3>3
  <2> QED
    BY <2>2, <2>5, <2>6 DEF p
<1>10. ParsePeers(t) = [k \in 1 .. n |->
          [ip |-> SubSeq(t, 6 * k - 5, 6 * k - 2), port |-> Port(t[6 * k - 1], t[6 * k])]]
  BY <1>8 DEF ParsePeers
<1>11. ParsePeers(t) = [k \in 1 .. n |-> ps[k]]
  BY <1>9, <1>10
<1> QED
  BY <1>0, <1>7, <1>11 DEF t

-----------------------------------------------------------------------------
(* What a .torrent file says                                               *)

(* The hashes of the pieces are cut out of one text, 20 bytes each.        *)
LEMMA ChunksAreThePieces ==
  ASSUME NEW s \in Text, Len(s) % 20 = 0
  PROVE  /\ FlattenSeq(Chunk(s, 20)) = s
         /\ \A k \in DOMAIN Chunk(s, 20) : Len(Chunk(s, 20)[k]) = 20
<1> DEFINE q == Len(s) \div 20
           ss == Chunk(s, 20)
<1>0. Len(s) \in Nat /\ s \in Seq(Char)
  BY TextIs DEF Text
<1>1. q \in Nat /\ Len(s) = 20 * q /\ (Len(s) + 20 - 1) \div 20 = q
  <2> DEFINE n == Len(s)
  <2>1. n \in Nat /\ n % 20 = 0
    BY <1>0
  <2> HIDE DEF n
  <2>2. n \div 20 \in Nat /\ n = 20 * (n \div 20) /\ (n + 20 - 1) \div 20 = n \div 20
    BY <2>1
  <2> QED
    BY <2>2 DEF n
<1> HIDE DEF q
<1>2. ASSUME NEW k \in 1 .. q
      PROVE  /\ Min({20 * k, Len(s)}) = 20 * k /\ 20 * k \in 1 .. Len(s)
             /\ 20 * k - 20 \in 0 .. Len(s) /\ 20 * k - 20 + 1 = 20 * k - 19
  <2>1. /\ 20 * k \in 1 .. Len(s) /\ 20 * k <= Len(s) /\ 20 * k \in Int /\ Len(s) \in Int
        /\ 20 * k - 20 \in 0 .. Len(s) /\ 20 * k - 20 + 1 = 20 * k - 19
    BY <1>0, <1>1
  <2> QED
    BY <2>1, MinTwo
<1>3. ss = [k \in 1 .. q |-> SubSeq(s, 20 * k - 19, 20 * k)]
  <2>1. ss = [k \in 1 .. q |-> SubSeq(s, 20 * k - 20 + 1, Min({20 * k, Len(s)}))]
    BY <1>1 DEF Chunk
  <2> HIDE DEF ss
  <2> QED
    BY <1>2, <2>1
<1> HIDE DEF ss
<1>4. ASSUME NEW k \in 1 .. q PROVE ss[k] \in Seq(Char) /\ Len(ss[k]) = 20
  <2> DEFINE i == 20 * k - 19
             j == 20 * k
  <2>1. i \in Nat \ {0} /\ j \in Int /\ j <= Len(s) /\ i <= j /\ j - i + 1 = 20
    BY <1>1, <1>2
  <2>2. ss[k] = SubSeq(s, i, j)
    BY <1>3
  <2> HIDE DEF i, j
  <2>3. SubSeq(s, i, j) \in Seq(Char) /\ Len(SubSeq(s, i, j)) = IF i <= j THEN j - i + 1 ELSE 0
    BY <1>0, <2>1, PartOf
  <2> QED
    BY <2>1, <2>2, <2>3
<1>5. ss \in Seq(Seq(Char)) /\ Len(ss) = q /\ DOMAIN ss = 1 .. q
  <2>1. ss \in [1 .. q -> Seq(Char)]
    BY <1>3, <1>4
  <2> QED
    BY <1>1, <2>1, IsSeq
<1>6. PICK flat \in [0 .. q -> Seq(Char)] :
         /\ flat[0] = <<>>
         /\ \A k \in 1 .. q : flat[k] = flat[k - 1] \o ss[k]
         /\ FlattenSeq(ss) = flat[q]
  <2>1. \E flat \in [0 .. Len(ss) -> Seq(Char)] :
           /\ flat[0] = <<>>
           /\ \A k \in 1 .. Len(ss) : flat[k] = flat[k - 1] \o ss[k]
           /\ FlattenSeq(ss) = flat[Len(ss)]
    BY <1>5, FlattenParts
  <2> QED
    BY <1>5, <2>1
<1> DEFINE T == {k \in Nat : k <= q => flat[k] = SubSeq(s, 1, 20 * k)}
<1>7. 0 \in T
  <2>1. SubSeq(s, 1, 0) = <<>>
    BY SubSeqEmpty
  <2>2. 20 * 0 = 0
    OBVIOUS
  <2> QED
    BY <1>6, <2>1, <2>2
<1>8. ASSUME NEW n \in Nat, n \in T PROVE n + 1 \in T
  <2> SUFFICES ASSUME n + 1 <= q PROVE flat[n + 1] = SubSeq(s, 1, 20 * (n + 1))
    OBVIOUS
  <2> DEFINE k == n + 1
  <2>1. k \in 1 .. q /\ k - 1 = n /\ n <= q /\ 20 * k - 20 = 20 * n
    BY <1>1
  <2>2. flat[n] = SubSeq(s, 1, 20 * n)
    BY <1>8, <2>1
  <2> HIDE DEF k
  <2>3. flat[k] = SubSeq(s, 1, 20 * k - 20) \o SubSeq(s, 20 * k - 19, 20 * k)
    BY <1>3, <1>6, <2>1, <2>2
  <2>4. SubSeq(s, 1, 20 * k - 20) \o SubSeq(s, 20 * k - 19, 20 * k) = SubSeq(s, 1, 20 * k)
    <3> DEFINE i == 20 * k - 20
               j == 20 * k
    <3>1. /\ i \in 1 - 1 .. Len(s) /\ j \in i .. Len(s) /\ i + 1 = 20 * k - 19
          /\ 1 \in 1 .. Len(s) + 1
      BY <1>0, <1>1, <1>2, <2>1
    <3> HIDE DEF i, j
    <3>2. SubSeq(s, 1, i) \o SubSeq(s, i + 1, j) = SubSeq(s, 1, j)
      BY <1>0, <3>1, ConcatAdjacentSubSeq
    <3> QED
      BY <3>1, <3>2 DEF i, j
  <2> QED
    BY <2>3, <2>4 DEF k
<1> HIDE DEF T
<1>9. Nat \subseteq T
  BY <1>7, <1>8, Induction
<1>10. flat[q] = s
  <2>1. flat[q] = SubSeq(s, 1, Len(s))
    BY <1>1, <1>9 DEF T
  <2> QED
    BY <1>0, <2>1, SubSeqFull
<1> QED
  BY <1>4, <1>5, <1>6, <1>10 DEF ss

(* What the least integer is not in.                                       *)
LEMMA NoLeast ==
  ASSUME FormatsAssumption, ValuesAssumption, NEW v \in Values,
         \/ v.kind = "str"
         \/ v.kind = "int" /\ v.val \in Nat
         \/ v.kind \in {"list", "dict"} /\ \A x \in DOMAIN v.val : v.val[x] \in Values => ~HasLeast[v.val[x]]
  PROVE  ~HasLeast[v]
<1>1. CASE v.kind = "str"
  BY <1>1, KindIs, HasLeastIs
<1>2. CASE v.kind = "int" /\ v.val \in Nat
  <2>1. v.val # -MaxInt - 1
    BY <1>2 DEF FormatsAssumption
  <2> QED
    BY <1>2, <2>1, KindIs, HasLeastIs
<1>3. CASE /\ v.kind \in {"list", "dict"}
           /\ \A x \in DOMAIN v.val : v.val[x] \in Values => ~HasLeast[v.val[x]]
  <2>1. IsList(v) \/ IsDict(v)
    BY <1>3, KindIs
  <2>2. \A x \in DOMAIN v.val : v.val[x] \in Values
    BY <2>1, PartIs
  <2> QED
    BY <1>3, <2>1, <2>2, HasLeastIs
<1> QED
  BY <1>1, <1>2, <1>3

(* A string is no integer.                                                 *)
LEMMA StringsHaveNoLeast ==
  ASSUME FormatsAssumption, ValuesAssumption
  PROVE  \A v \in Values : v.kind = "str" => ~HasLeast[v]
  BY KindIs, HasLeastIs

(* The keys differ.                                                        *)
LEMMA KeysDiffer ==
  ASSUME FormatsAssumption
  PROVE  /\ Key.announce # Key.info /\ Key.length # Key.path
         /\ Key.files \notin {Key.pieceLength, Key.name, Key.pieces, Key.length}
         /\ Key.length \notin {Key.pieceLength, Key.name, Key.pieces, Key.files}
         /\ Key.pieceLength \notin {Key.name, Key.pieces} /\ Key.name # Key.pieces
         /\ Key.announce \in Text /\ Key.info \in Text
  BY DEF FormatsAssumption, KeyNames

(* A .torrent file has no least integer in it: its numbers are not         *)
(* negative.                                                               *)
LEMMA TorrentsHaveNoLeast ==
  ASSUME FormatsAssumption, ValuesAssumption, NEW m \in Torrent, TorrentVal(m) \in Values
  PROVE  ~HasLeast[TorrentVal(m)]
<1>1. ASSUME NEW f \in File, FileVal(f) \in Values PROVE ~HasLeast[FileVal(f)]
  <2> DEFINE v == FileVal(f)
             p == ListVal([j \in DOMAIN f.path |-> StrVal(f.path[j])])
  <2>1. v.kind = "dict" /\ v.val = [k \in {Key.length, Key.path} |->
                                      IF k = Key.length THEN IntVal(f.length) ELSE p]
    BY DEF FileVal, DictVal
  <2>2. IntVal(f.length) \in Values => ~HasLeast[IntVal(f.length)]
    <3>1. f.length \in Nat
      BY DEF File
    <3> QED
      BY <3>1, NoLeast DEF IntVal
  <2>3. ASSUME p \in Values PROVE ~HasLeast[p]
    <3>1. p.kind = "list" /\ p.val = [j \in DOMAIN f.path |-> StrVal(f.path[j])]
      BY DEF ListVal
    <3>2. \A j \in DOMAIN p.val : p.val[j].kind = "str"
      BY <3>1 DEF StrVal
    <3> HIDE DEF p
    <3>3. \A j \in DOMAIN p.val : p.val[j] \in Values => ~HasLeast[p.val[j]]
      BY <3>2, StringsHaveNoLeast
    <3> QED
      BY <2>3, <3>1, <3>3, NoLeast
  <2> HIDE DEF v, p
  <2>4. \A x \in DOMAIN v.val : v.val[x] \in Values => ~HasLeast[v.val[x]]
    BY <2>1, <2>2, <2>3
  <2>5. v \in Values
    BY <1>1 DEF v
  <2>6. ~HasLeast[v]
    BY <2>1, <2>4, <2>5, NoLeast
  <2> QED
    BY <2>6 DEF v
<1>2. ASSUME LengthOrFiles(m) \in Values PROVE ~HasLeast[LengthOrFiles(m)]
  <2>1. CASE m.files = <<>>
    <3>1. LengthOrFiles(m) = IntVal(m.length) /\ m.length \in Nat
      BY <2>1 DEF LengthOrFiles, Torrent
    <3>2. IntVal(m.length).kind = "int" /\ IntVal(m.length).val = m.length
      BY DEF IntVal
    <3> QED
      BY <1>2, <3>1, <3>2, NoLeast
  <2>2. CASE m.files # <<>>
    <3> DEFINE v == LengthOrFiles(m)
    <3>1. v.kind = "list" /\ v.val = [j \in DOMAIN m.files |-> FileVal(m.files[j])]
      BY <2>2 DEF LengthOrFiles, ListVal
    <3> HIDE DEF v
    <3>2. \A j \in DOMAIN m.files : m.files[j] \in File
      <4>1. m.files \in Seq(File)
        BY DEF Torrent
      <4> DEFINE fs == m.files
      <4>2. fs \in Seq(File)
        BY <4>1
      <4> HIDE DEF fs
      <4>3. \A j \in DOMAIN fs : fs[j] \in File
        BY <4>2, LenProperties, ElementOfSeq
      <4> QED
        BY <4>3 DEF fs
    <3>3. \A x \in DOMAIN v.val : v.val[x] \in Values => ~HasLeast[v.val[x]]
      BY <1>1, <3>1, <3>2
    <3>4. v \in Values
      BY <1>2 DEF v
    <3>5. ~HasLeast[v]
      BY <3>1, <3>3, <3>4, NoLeast
    <3> QED
      BY <3>5 DEF v
  <2> QED
    BY <2>1, <2>2
<1>3. ASSUME InfoVal(m) \in Values PROVE ~HasLeast[InfoVal(m)]
  <2> DEFINE v == InfoVal(m)
             K == {Key.pieceLength, Key.name, Key.pieces, IF m.files = <<>> THEN Key.length ELSE Key.files}
  <2>1. v.kind = "dict" /\ DOMAIN v.val = K
        /\ \A k \in K : v.val[k] \in {IntVal(m.pieceLength), StrVal(m.name), StrVal(m.pieces), LengthOrFiles(m)}
    BY DEF InfoVal, DictVal
  <2>2. IntVal(m.pieceLength) \in Values => ~HasLeast[IntVal(m.pieceLength)]
    <3>1. m.pieceLength \in Nat
      BY DEF Torrent
    <3> QED
      BY <3>1, NoLeast DEF IntVal
  <2>3. \A s : StrVal(s) \in Values => ~HasLeast[StrVal(s)]
    BY StringsHaveNoLeast DEF StrVal
  <2> HIDE DEF v, K
  <2>4. \A x \in DOMAIN v.val : v.val[x] \in Values => ~HasLeast[v.val[x]]
    BY <1>2, <2>1, <2>2, <2>3
  <2>5. v \in Values
    BY <1>3 DEF v
  <2>6. ~HasLeast[v]
    BY <2>1, <2>4, <2>5, NoLeast
  <2> QED
    BY <2>6 DEF v
<1> DEFINE v == TorrentVal(m)
<1>4. v.kind = "dict" /\ \A k \in DOMAIN v.val : v.val[k] \in {StrVal(m.announce), InfoVal(m)}
  BY DEF TorrentVal, DictVal
<1>5. \A s : StrVal(s) \in Values => ~HasLeast[StrVal(s)]
  BY StringsHaveNoLeast DEF StrVal
<1>6. v \in Values
  OBVIOUS
<1> HIDE DEF v
<1>7. \A x \in DOMAIN v.val : v.val[x] \in Values => ~HasLeast[v.val[x]]
  BY <1>3, <1>4, <1>5
<1>8. ~HasLeast[v]
  BY <1>4, <1>6, <1>7, NoLeast
<1> QED
  BY <1>8 DEF v

(* The fields of the info dictionary.                                      *)
LEMMA InfoIs ==
  ASSUME FormatsAssumption, NEW m \in Torrent
  PROVE  LET info == InfoVal(m).val
         IN  /\ info[Key.pieceLength].val = m.pieceLength
             /\ info[Key.name].val = m.name /\ info[Key.pieces].val = m.pieces
             /\ Key.files \in DOMAIN info <=> m.files # <<>>
             /\ m.files # <<>> =>
                  info[Key.files].val = [j \in DOMAIN m.files |-> FileVal(m.files[j])]
             /\ m.files = <<>> => Key.length \in DOMAIN info /\ info[Key.length].val = m.length
<1> DEFINE X == IF m.files = <<>> THEN Key.length ELSE Key.files
           K == {Key.pieceLength, Key.name, Key.pieces, X}
           info == InfoVal(m).val
<1>1. info = [k \in K |->
                 CASE k = Key.pieceLength -> IntVal(m.pieceLength)
                   [] k = Key.name -> StrVal(m.name)
                   [] k = Key.pieces -> StrVal(m.pieces)
                   [] OTHER -> LengthOrFiles(m)]
  BY DEF InfoVal, DictVal
<1>2. X \notin {Key.pieceLength, Key.name, Key.pieces} /\ Key.pieceLength # Key.name
      /\ Key.pieceLength # Key.pieces /\ Key.name # Key.pieces
  BY KeysDiffer
<1>3. Key.files \in K <=> m.files # <<>>
  BY KeysDiffer
<1>4. X \in K /\ Key.pieceLength \in K /\ Key.name \in K /\ Key.pieces \in K
  OBVIOUS
<1> HIDE DEF K, info
<1>5. info[X] = LengthOrFiles(m)
  BY <1>1, <1>2, <1>4
<1>6. info[Key.pieceLength] = IntVal(m.pieceLength)
  BY <1>1, <1>2, <1>4
<1>7. info[Key.name] = StrVal(m.name)
  BY <1>1, <1>2, <1>4
<1>8. info[Key.pieces] = StrVal(m.pieces)
  BY <1>1, <1>2, <1>4
<1>9. DOMAIN info = K
  BY <1>1
<1>10. m.files = <<>> => Key.length \in DOMAIN info /\ info[Key.length].val = m.length
  BY <1>4, <1>5, <1>9 DEF LengthOrFiles, IntVal
<1>11. m.files # <<>> => info[Key.files].val = [j \in DOMAIN m.files |-> FileVal(m.files[j])]
  BY <1>5 DEF LengthOrFiles, ListVal
<1> QED
  BY <1>3, <1>6, <1>7, <1>8, <1>9, <1>10, <1>11 DEF info, IntVal, StrVal

(* FilesOf finds the files that are listed.                                *)
LEMMA FilesAreRead ==
  ASSUME FormatsAssumption, NEW m \in Torrent
  PROVE  FilesOf(InfoVal(m).val) = m.files
<1> DEFINE fs == m.files
           info == InfoVal(m).val
           At(v) == [length |-> v.val[Key.length].val,
                     path   |-> [k \in DOMAIN v.val[Key.path].val |-> v.val[Key.path].val[k].val]]
<1>1. fs \in Seq(File)
  BY DEF Torrent
<1>2. ASSUME NEW f \in File PROVE At(FileVal(f)) = f
  <2> DEFINE d == FileVal(f).val
             p == ListVal([j \in DOMAIN f.path |-> StrVal(f.path[j])])
  <2>1. f.path \in Seq(Text) /\ f = [length |-> f.length, path |-> f.path]
    BY DEF File
  <2>2. d = [k \in {Key.length, Key.path} |-> IF k = Key.length THEN IntVal(f.length) ELSE p]
    BY DEF FileVal, DictVal
  <2>3. Key.length # Key.path
    BY KeysDiffer
  <2>4. p.val = [j \in DOMAIN f.path |-> StrVal(f.path[j])]
    BY DEF ListVal
  <2> HIDE DEF d, p
  <2>5. d[Key.length].val = f.length /\ d[Key.path] = p
    BY <2>2, <2>3 DEF IntVal
  <2>6. DOMAIN p.val = DOMAIN f.path /\ \A k \in DOMAIN f.path : p.val[k].val = f.path[k]
    BY <2>4 DEF StrVal
  <2>7. [k \in DOMAIN p.val |-> p.val[k].val] = f.path
    <3> DEFINE s == f.path
    <3>1. s \in Seq(Text)
      BY <2>1
    <3>2. DOMAIN p.val = DOMAIN s /\ \A k \in DOMAIN s : p.val[k].val = s[k]
      BY <2>6
    <3> HIDE DEF s
    <3>3. s = [k \in DOMAIN s |-> s[k]]
      BY <3>1
    <3>4. [k \in DOMAIN p.val |-> p.val[k].val] = s
      BY <3>2, <3>3
    <3> QED
      BY <3>4 DEF s
  <2>8. At(FileVal(f)) = [length |-> d[Key.length].val,
                          path   |-> [k \in DOMAIN d[Key.path].val |-> d[Key.path].val[k].val]]
    BY DEF d
  <2> QED
    BY <2>1, <2>5, <2>7, <2>8
<1> HIDE DEF At
<1>3. CASE fs = <<>>
  <2>1. Key.files \notin DOMAIN info
    BY <1>3, InfoIs
  <2> QED
    BY <1>3, <2>1 DEF FilesOf
<1>4. CASE fs # <<>>
  <2>1. Key.files \in DOMAIN info
        /\ info[Key.files].val = [j \in DOMAIN fs |-> FileVal(fs[j])]
    BY <1>4, InfoIs
  <2> HIDE DEF info, fs
  <2>2. FilesOf(info) = [j \in DOMAIN info[Key.files].val |-> At(info[Key.files].val[j])]
    BY <2>1 DEF FilesOf, At
  <2>3. \A j \in DOMAIN fs : fs[j] \in File
    BY <1>1, LenProperties, ElementOfSeq
  <2>4. FilesOf(info) = [j \in DOMAIN fs |-> At(FileVal(fs[j]))]
    BY <2>1, <2>2
  <2>5. FilesOf(info) = [j \in DOMAIN fs |-> fs[j]]
    BY <1>2, <2>3, <2>4
  <2>6. fs = [j \in DOMAIN fs |-> fs[j]]
    BY <1>1
  <2> QED
    BY <2>5, <2>6 DEF info, fs
<1> QED
  BY <1>3, <1>4

-----------------------------------------------------------------------------
(* The slice whose hash identifies a torrent                               *)

(* Texts that stand one behind the other stand together.                   *)
LEMMA StandsTogether ==
  ASSUME NEW t \in Text, NEW i \in Nat \ {0}, NEW a \in Text, NEW b \in Text,
         Stands(t, i, a), Stands(t, i + Len(a), b)
  PROVE  Stands(t, i, a \o b) /\ a \o b \in Text /\ Len(a \o b) = Len(a) + Len(b)
<1> DEFINE ab == a \o b
<1>1. /\ ab \in Text /\ Len(ab) = Len(a) + Len(b) /\ Len(a) \in Nat /\ Len(b) \in Nat /\ Len(t) \in Nat
      /\ \A k \in 1 .. Len(a) + Len(b) : ab[k] = IF k <= Len(a) THEN a[k] ELSE b[k - Len(a)]
  BY ConcatProperties, TextIs DEF Text
<1> HIDE DEF ab
<1>2. /\ i + Len(a) + Len(b) <= Len(t) + 1
      /\ \A k \in 1 .. Len(a) : t[i + k - 1] = a[k]
      /\ \A k \in 1 .. Len(b) : t[(i + Len(a)) + k - 1] = b[k]
  BY DEF Stands
<1>3. ASSUME NEW k \in 1 .. Len(ab) PROVE t[i + k - 1] = ab[k]
  <2>1. CASE k <= Len(a)
    <3>1. k \in 1 .. Len(a) /\ k \in 1 .. Len(a) + Len(b)
      BY <1>1, <2>1
    <3> QED
      BY <1>1, <1>2, <2>1, <3>1
  <2>2. CASE ~(k <= Len(a))
    <3> DEFINE l == k - Len(a)
    <3>1. l \in 1 .. Len(b) /\ k \in 1 .. Len(a) + Len(b) /\ (i + Len(a)) + l - 1 = i + k - 1
      BY <1>1, <2>2
    <3>2. ab[k] = b[l]
      BY <1>1, <2>2, <3>1
    <3> HIDE DEF l
    <3>3. t[(i + Len(a)) + l - 1] = b[l]
      BY <1>2, <3>1
    <3> QED
      BY <3>1, <3>2, <3>3
  <2> QED
    BY <2>1, <2>2
<1>4. i + Len(ab) <= Len(t) + 1
  BY <1>1, <1>2
<1>5. Stands(t, i, ab)
  BY <1>3, <1>4 DEF Stands
<1> QED
  BY <1>1, <1>5 DEF ab

(* What stands in a text occurs in it, and the other way round.            *)
LEMMA OccursIs ==
  ASSUME NEW t \in Text, NEW e \in Text, NEW j \in Nat \ {0}, Len(e) >= 1
  PROVE  j \in Occurs(t, e) <=> Stands(t, j, e)
<1>0. Len(t) \in Nat /\ Len(e) \in Nat /\ t \in Seq(Char)
  BY TextIs DEF Text
<1>1. ASSUME Stands(t, j, e) PROVE j \in Occurs(t, e)
  <2>1. SubSeq(t, j, j + Len(e) - 1) = e
    BY <1>1, StandsCut
  <2>2. j \in 1 .. Len(t) - Len(e) + 1
    BY <1>0, <1>1 DEF Stands
  <2> QED
    BY <2>1, <2>2 DEF Occurs
<1>2. ASSUME j \in Occurs(t, e) PROVE Stands(t, j, e)
  <2> DEFINE i == j + Len(e) - 1
  <2>1. j \in 1 .. Len(t) - Len(e) + 1 /\ SubSeq(t, j, i) = e
    BY <1>2 DEF Occurs
  <2>2. i \in Int /\ i <= Len(t) /\ i - j + 1 = Len(e) /\ j + Len(e) <= Len(t) + 1
    BY <1>0, <2>1
  <2> HIDE DEF i
  <2>3. \A k \in 1 .. i - j + 1 : SubSeq(t, j, i)[k] = t[j + k - 1]
    BY <1>0, <2>2, PartOf
  <2>4. \A k \in 1 .. Len(e) : t[j + k - 1] = e[k]
    BY <2>1, <2>2, <2>3
  <2> QED
    BY <2>2, <2>4 DEF Stands
<1> QED
  BY <1>1, <1>2

(* What stands in a text, and not behind its beginning u, stands in u.     *)
LEMMA StandsInBeginning ==
  ASSUME NEW t \in Text, NEW u \in Text, NEW e \in Text, NEW j \in Nat \ {0},
         Stands(t, 1, u), Stands(t, j, e), j + Len(e) <= Len(u) + 1
  PROVE  Stands(u, j, e)
<1>0. Len(t) \in Nat /\ Len(e) \in Nat /\ Len(u) \in Nat
  BY TextIs
<1>1. ASSUME NEW k \in 1 .. Len(e) PROVE u[j + k - 1] = e[k]
  <2> DEFINE l == j + k - 1
  <2>1. l \in 1 .. Len(u) /\ 1 + l - 1 = l
    BY <1>0
  <2>2. t[l] = e[k]
    BY DEF Stands
  <2> HIDE DEF l
  <2>3. t[1 + l - 1] = u[l]
    BY <2>1 DEF Stands
  <2> QED
    BY <2>1, <2>2, <2>3 DEF l
<1> QED
  BY <1>1 DEF Stands

(* find_info_hash finds the value behind the first "4:info".               *)
LEMMA SliceFound ==
  ASSUME FormatsAssumption, ValuesAssumption, NEW t \in Text, NEW v \in Values, ~HasLeast[v],
         NEW i \in Nat \ {0}, Stands(t, i, EncodeStr(Key.info)),
         Stands(t, i + Len(EncodeStr(Key.info)), Encode[v]),
         \A j \in Occurs(t, EncodeStr(Key.info)) : i <= j
  PROVE  InfoSlice(t) = Encode[v]
<1> DEFINE e == EncodeStr(Key.info)
           s == Encode[v]
           p == i + Len(e)
           rest == SubSeq(t, p, Len(t))
<1>0. Stands(t, i, e) /\ Stands(t, p, s) /\ \A j \in Occurs(t, e) : i <= j
  OBVIOUS
<1>1. e \in Text /\ Len(e) >= 1 /\ Len(e) \in Nat /\ s \in Text /\ Len(s) \in Nat /\ Len(t) \in Nat
      /\ Len(s) >= 1
  <2>1. Key.info \in Text
    BY KeysDiffer
  <2>2. e \in Text /\ Len(e) >= 1
    BY <2>1, EncodeStrIs
  <2> HIDE DEF e, s
  <2>3. Len(e) \in Nat /\ Len(t) \in Nat
    BY <2>2, TextIs
  <2> QED
    BY <2>2, <2>3, EncodedIs DEF s
<1>2. InfoStart(t) = p
  <2>1. i \in Occurs(t, e)
    <3> HIDE DEF e
    <3> QED
      BY <1>0, <1>1, OccursIs
  <2> DEFINE O == Occurs(t, e)
  <2>2. O \subseteq Nat
    BY <1>1 DEF Occurs
  <2>3. Min(O) \in O /\ \A y \in O : Min(O) <= y
    <3> HIDE DEF O
    <3>1. i \in O
      BY <2>1 DEF O
    <3> QED
      BY <2>2, <3>1, MinIs
  <2> HIDE DEF O
  <2>4. Min(O) \in Nat /\ i <= Min(O) /\ Min(O) <= i
    BY <1>0, <2>1, <2>2, <2>3 DEF O
  <2>5. Min(O) = i
    BY <2>4
  <2> QED
    BY <2>5 DEF InfoStart, O
<1>3. InfoSlice(t) = SubSeq(rest, 1, Min({ReadValue(rest).pos - 1, Len(rest)}))
  BY <1>2 DEF InfoSlice
<1> HIDE DEF e, s
<1>4. p \in Nat \ {0} /\ p + Len(s) <= Len(t) + 1
  BY <1>0, <1>1 DEF Stands
<1> HIDE DEF p
<1>5. rest \in Text /\ Len(rest) = Len(t) - p + 1
      /\ \A k \in 1 .. Len(t) - p + 1 : rest[k] = t[p + k - 1]
  <2>1. t \in Seq(Char) /\ Len(t) \in Int /\ Len(t) <= Len(t) /\ p <= Len(t)
    BY <1>1, <1>4 DEF Text
  <2> QED
    BY <1>4, <2>1, PartOf DEF Text
<1> HIDE DEF rest
<1>6. Stands(rest, 1, s)
  <2>1. 1 + Len(s) <= Len(rest) + 1
    BY <1>1, <1>4, <1>5
  <2>2. ASSUME NEW k \in 1 .. Len(s) PROVE rest[1 + k - 1] = s[k]
    <3>1. 1 + k - 1 = k /\ k \in 1 .. Len(t) - p + 1
      BY <1>1, <1>4
    <3>2. t[p + k - 1] = s[k]
      BY <1>0 DEF Stands
    <3> QED
      BY <1>5, <3>1, <3>2
  <2> QED
    BY <2>1, <2>2 DEF Stands
<1>7. ReadValue(rest).pos = 1 + Len(s)
  <2>1. ReadsBack(rest, v) /\ 1 \in Nat \ {0}
    BY <1>5, ValueReadsBack
  <2>2. Reader(rest)[<<"value", 1>>] = Result(v, 1 + Len(s))
    BY <1>6, <2>1 DEF ReadsBack, s
  <2> QED
    BY <2>2 DEF ReadValue, Result
<1>8. Min({ReadValue(rest).pos - 1, Len(rest)}) = Len(s)
  <2>1. ReadValue(rest).pos - 1 = Len(s) /\ Len(s) <= Len(rest) /\ Len(s) \in Int /\ Len(rest) \in Int
    BY <1>1, <1>4, <1>5, <1>7
  <2> QED
    BY <2>1, MinTwo
<1>9. SubSeq(rest, 1, 1 + Len(s) - 1) = s
  <2> DEFINE one == 1
  <2>1. one \in Nat \ {0} /\ Stands(rest, one, s)
    BY <1>6
  <2> HIDE DEF one
  <2>2. SubSeq(rest, one, one + Len(s) - 1) = s
    BY <1>1, <1>5, <2>1, StandsCut
  <2> QED
    BY <2>2 DEF one
<1>10. 1 + Len(s) - 1 = Len(s)
  BY <1>1
<1> QED
  BY <1>3, <1>8, <1>9, <1>10 DEF s

(* Two keys are written in one order or the other.                         *)
LEMMA TwoKeys ==
  ASSUME NEW x \in Text, NEW y \in Text, x # y
  PROVE  LET keys == Sorted({x, y})
         IN  Len(keys) = 2 /\ ((keys[1] = x /\ keys[2] = y) \/ (keys[1] = y /\ keys[2] = x))
<1> DEFINE keys == Sorted({x, y})
           n == Len(keys)
<1>1. {x, y} \subseteq Text /\ IsFiniteSet({x, y})
  <2>1. {x, y} = ({} \cup {x}) \cup {y}
    OBVIOUS
  <2>2. IsFiniteSet({} \cup {x})
    BY FS_EmptySet, FS_AddElement
  <2>3. IsFiniteSet(({} \cup {x}) \cup {y})
    BY <2>2, FS_AddElement
  <2> QED
    BY <2>1, <2>3
<1>2. /\ n \in Nat
      /\ \A j \in 1 .. n : keys[j] = x \/ keys[j] = y
      /\ \A j, k \in 1 .. n : j # k => keys[j] # keys[k]
      /\ (\E j \in 1 .. n : keys[j] = x) /\ (\E j \in 1 .. n : keys[j] = y)
  BY <1>1, SortedIs
<1> HIDE DEF keys, n
<1>3. PICK j \in 1 .. n, k \in 1 .. n : keys[j] = x /\ keys[k] = y
  BY <1>2
<1>4. n = 2
  <2>1. n >= 2
    BY <1>2, <1>3
  <2>2. CASE n >= 3
    <3>1. 1 \in 1 .. n /\ 2 \in 1 .. n /\ 3 \in 1 .. n
      BY <1>2, <2>2
    <3>2. keys[1] # keys[2] /\ keys[1] # keys[3] /\ keys[2] # keys[3]
      BY <1>2, <3>1
    <3> QED
      BY <1>2, <3>1, <3>2
  <2> QED
    BY <1>2, <2>1, <2>2
<1>5. 1 \in 1 .. n /\ 2 \in 1 .. n
  BY <1>4
<1>6. keys[1] # keys[2]
  BY <1>2, <1>5
<1> QED
  BY <1>2, <1>4, <1>5, <1>6 DEF keys, n

(* In a .torrent file the info dictionary is what find_info_hash slices.   *)
LEMMA InfoIsFound ==
  ASSUME FormatsAssumption, ValuesAssumption, NEW m \in Torrent, TorrentVal(m) \in Values,
         LET before == <<DictChar>> \o EncodeStr(Key.announce) \o EncodeStr(m.announce)
         IN  Occurs(before \o EncodeStr(Key.info), EncodeStr(Key.info)) = {Len(before) + 1}
  PROVE  InfoSlice(Encode[TorrentVal(m)]) = Encode[InfoVal(m)]
<1> DEFINE v == TorrentVal(m)
           w == InfoVal(m)
           g == Encode
           t == g[v]
           d == v.val
           A == Key.announce
           I == Key.info
           keys == Sorted(DOMAIN d)
           ss == [j \in DOMAIN keys |-> WriteEntry(g, d, keys[j])]
           s == FlattenSeq(ss)
           e == EncodeStr(I)
           ea == EncodeStr(A)
           eu == EncodeStr(m.announce)
           before == <<DictChar>> \o ea \o eu
<1>0. Occurs(before \o e, e) = {Len(before) + 1}
  OBVIOUS
<1>1. /\ v \in Values /\ IsDict(v) /\ DOMAIN d = {A, I} /\ d[A] = StrVal(m.announce) /\ d[I] = w
      /\ v.kind = "dict" /\ A # I /\ A \in Text /\ I \in Text
  <2>1. d = [k \in {A, I} |-> IF k = A THEN StrVal(m.announce) ELSE w] /\ v.kind = "dict"
    BY DEF TorrentVal, DictVal
  <2>2. A # I /\ A \in Text /\ I \in Text
    BY KeysDiffer
  <2>3. v \in Values
    OBVIOUS
  <2> HIDE DEF v, w, A, I
  <2>4. IsDict(v)
    BY <2>1, <2>3, KindIs
  <2> HIDE DEF d
  <2> QED
    BY <2>1, <2>2, <2>3, <2>4
<1>2. g \in [Values -> Text] /\ t = WriteOne(g, v)
  <2> HIDE DEF v
  <2> QED
    BY <1>1, EncodeIs
<1>3. t \in Text
  BY <1>1, <1>2
<1>4. w \in Values /\ ~HasLeast[w] /\ StrVal(m.announce) \in Values
  <2>1. ~HasLeast[v]
    BY <1>1, TorrentsHaveNoLeast
  <2> HIDE DEF v, w, A, I
  <2>2. \A x \in DOMAIN d : d[x] \in Values
    BY <1>1, PartIs
  <2>3. \A x \in DOMAIN d : ~HasLeast[d[x]]
    BY <1>1, <2>1, HasLeastIs
  <2> HIDE DEF d
  <2> QED
    BY <1>1, <2>2, <2>3
<1>5. t = <<DictChar>> \o s \o <<EndChar>>
  <2> HIDE DEF v, g
  <2>1. WriteOne(g, v) = <<DictChar>> \o s \o <<EndChar>>
    BY <1>1 DEF WriteOne
  <2> QED
    BY <1>2, <2>1
<1>6. /\ ss \in Seq(Text) /\ Len(ss) = Len(keys) /\ DOMAIN keys = 1 .. Len(keys)
  <2> HIDE DEF g, v
  <2> QED
    BY <1>1, <1>2, EntriesAre
<1>7. Len(keys) = 2 /\ ((keys[1] = A /\ keys[2] = I) \/ (keys[1] = I /\ keys[2] = A))
  <2> HIDE DEF d, A, I
  <2> QED
    BY <1>1, TwoKeys
<1>8. e \in Text /\ Len(e) >= 1 /\ IsDigit(e[1]) /\ ea \in Text /\ eu \in Text
  <2>1. m.announce \in Text
    BY DEF Torrent
  <2> QED
    BY <1>1, <2>1, EncodeStrIs
<1>9. g[StrVal(m.announce)] = eu /\ g[w] \in Text
  <2> DEFINE u == StrVal(m.announce)
  <2>1. u.kind = "str" /\ u.val = m.announce
    BY DEF StrVal
  <2>2. u \in Values
    BY <1>4
  <2> HIDE DEF u, w
  <2>3. g[u] = WriteOne(g, u)
    BY <2>2, EncodeIs
  <2> HIDE DEF g
  <2>4. g[u] = eu
    BY <2>1, <2>3 DEF WriteOne
  <2> QED
    BY <1>2, <1>4, <2>4 DEF u
<1>10. \A j \in 1 .. 2 : /\ keys[j] = I => ss[j] = e \o g[w]
                         /\ keys[j] = A => ss[j] = ea \o eu
  <2>1. \A j \in 1 .. 2 : ss[j] = WriteEntry(g, d, keys[j])
    BY <1>6, <1>7
  <2> HIDE DEF ss, keys, d, g, w, A, I
  <2>2. WriteEntry(g, d, I) = e \o g[w] /\ WriteEntry(g, d, A) = ea \o eu
    BY <1>1, <1>9 DEF WriteEntry
  <2> QED
    BY <2>1, <2>2
<1>11. s \in Text
  <2> HIDE DEF ss
  <2>1. ss \in Seq(Seq(Char))
    BY <1>6 DEF Text
  <2> QED
    BY <2>1, FlattenIs DEF Text
<1>12. g[w] = Encode[InfoVal(m)] /\ t = Encode[TorrentVal(m)] /\ g[w] = Encode[w]
  OBVIOUS
<1> HIDE DEF v, w, g, t, d, A, keys, s, e, ea, eu
<1>13. Stands(t, 2, s) /\ 1 \in 1 .. Len(t) /\ t[1] = DictChar /\ Len(t) \in Nat
  <2>1. DictChar \in Char
    BY DEF DictChar, Char
  <2>2. Stands(t, 1, <<DictChar>> \o s \o <<EndChar>>)
    <3>1. Stands(t, 1, t)
      BY <1>3, TextIs DEF Stands
    <3> QED
      BY <1>5, <3>1
  <2> DEFINE one == 1
  <2>3. one \in Nat \ {0} /\ Stands(t, one, <<DictChar>> \o s \o <<EndChar>>)
    BY <2>2
  <2> HIDE DEF one
  <2>4. one \in 1 .. Len(t) /\ t[one] = DictChar /\ Stands(t, one + 1, s) /\ Len(t) \in Nat
    BY <1>3, <1>11, <2>1, <2>3, WithinBrackets
  <2> QED
    BY <2>4 DEF one
<1>14. PICK off \in [0 .. 2 -> Nat \ {0}] :
         /\ off[0] = 2
         /\ \A k \in 1 .. 2 : Stands(t, off[k - 1], ss[k]) /\ off[k] = off[k - 1] + Len(ss[k])
  <2> DEFINE i == 2
  <2>1. i \in Nat \ {0} /\ Stands(t, i, FlattenSeq(ss)) /\ ss \in Seq(Text)
    BY <1>6, <1>7, <1>13 DEF s
  <2>0. Len(ss) = 2
    BY <1>6, <1>7
  <2> HIDE DEF i, ss
  <2>2. \E off \in [0 .. Len(ss) -> Nat \ {0}] :
           /\ off[0] = i /\ off[Len(ss)] = i + Len(FlattenSeq(ss))
           /\ \A k \in 1 .. Len(ss) : Stands(t, off[k - 1], ss[k]) /\ off[k] = off[k - 1] + Len(ss[k])
    BY <1>3, <2>1, PartsStand
  <2> QED
    BY <2>0, <2>2 DEF i
<1> HIDE DEF ss
<1>15. Stands(t, 2, ss[1]) /\ Stands(t, 2 + Len(ss[1]), ss[2])
  <2>1. 1 \in 1 .. 2 /\ 2 \in 1 .. 2 /\ 1 - 1 = 0 /\ 2 - 1 = 1
    OBVIOUS
  <2>2. Stands(t, off[1 - 1], ss[1]) /\ off[1] = off[1 - 1] + Len(ss[1]) /\ Stands(t, off[2 - 1], ss[2])
    BY <1>14, <2>1
  <2> QED
    BY <1>14, <2>1, <2>2
<1>16. ASSUME NEW i \in Nat \ {0}, Stands(t, i, e \o g[w]), \A j \in Nat \ {0} : Stands(t, j, e) => i <= j
       PROVE  InfoSlice(t) = g[w]
  <2>1. Stands(t, i, e) /\ Stands(t, i + Len(e), g[w])
    BY <1>3, <1>8, <1>9, <1>16, StandsParts
  <2>2. \A j \in Occurs(t, e) : i <= j
    <3> SUFFICES ASSUME NEW j \in Occurs(t, e) PROVE i <= j
      OBVIOUS
    <3>1. j \in Nat \ {0}
      <4>1. Len(e) \in Nat
        BY <1>8, TextIs
      <4> QED
        BY <1>13, <4>1 DEF Occurs
    <3>2. Stands(t, j, e)
      BY <1>3, <1>8, <3>1, OccursIs
    <3> QED
      BY <1>16, <3>1, <3>2
  <2> QED
    BY <1>3, <1>4, <1>12, <2>1, <2>2, SliceFound DEF e
<1>17. CASE keys[1] = I
  <2>1. Stands(t, 2, e \o g[w])
    <3>1. 1 \in 1 .. 2
      OBVIOUS
    <3>2. ss[1] = e \o g[w]
      BY <1>10, <1>17, <3>1
    <3> QED
      BY <1>15, <3>2
  <2>2. ASSUME NEW j \in Nat \ {0}, Stands(t, j, e) PROVE 2 <= j
    <3>1. t[j] = e[1]
      BY <1>3, <1>8, <2>2, StandsFirst
    <3>2. t[1] # e[1]
      BY <1>8, <1>13 DEF IsDigit, Zero, Nine, DictChar
    <3> QED
      BY <3>1, <3>2
  <2>3. InfoSlice(t) = g[w]
    BY <1>16, <2>1, <2>2
  <2> QED
    BY <1>12, <2>3
<1>18. CASE keys[1] = A /\ keys[2] = I
  <2> DEFINE au == ea \o eu
             i == 2 + Len(au)
  <2>1. Stands(t, 2, au) /\ Stands(t, i, e \o g[w])
    <3>1. 1 \in 1 .. 2 /\ 2 \in 1 .. 2
      OBVIOUS
    <3>2. ss[1] = au /\ ss[2] = e \o g[w]
      BY <1>10, <1>18, <3>1
    <3> QED
      BY <1>15, <3>2
  <2>2. au \in Text /\ Len(au) \in Nat
    <3>1. au \in Text
      BY <1>8, ConcatProperties DEF Text
    <3> HIDE DEF au
    <3> QED
      BY <3>1, TextIs
  <2> DEFINE D == <<DictChar>>
  <2>3. D \in Text /\ Len(D) = 1 /\ Stands(t, 1, D)
    <3>1. D \in Text /\ Len(D) = 1 /\ D[1] = DictChar
      BY DEF Text, Char, DictChar
    <3> HIDE DEF D
    <3>2. \A k \in 1 .. 1 : t[1 + k - 1] = D[k]
      BY <1>13, <3>1
    <3>3. 1 + 1 <= Len(t) + 1
      BY <1>13
    <3> QED
      BY <3>1, <3>2, <3>3 DEF Stands
  <2>4. before = D \o au
    <3>1. D \in Text /\ ea \in Text /\ eu \in Text
      BY <1>8, <2>3
    <3> HIDE DEF D
    <3>2. (D \o ea) \o eu = D \o (ea \o eu)
      BY <3>1, Associates
    <3> QED
      BY <3>2 DEF D
  <2> HIDE DEF au, D, before
  <2>5. Stands(t, 1, before) /\ before \in Text /\ Len(before) = 1 + Len(au)
    <3> DEFINE one == 1
    <3>1. one \in Nat \ {0} /\ Stands(t, one, D) /\ Stands(t, one + Len(D), au)
      BY <2>1, <2>3
    <3> HIDE DEF one, i
    <3>0. D \in Text /\ au \in Text
      BY <2>2, <2>3
    <3>2. Stands(t, one, D \o au) /\ D \o au \in Text /\ Len(D \o au) = Len(D) + Len(au)
      BY <1>3, <3>0, <3>1, StandsTogether
    <3> QED
      BY <2>3, <2>4, <3>2 DEF one
  <2>6. i \in Nat \ {0} /\ i = Len(before) + 1
    BY <2>2, <2>5
  <2>7. Stands(t, i, e)
    BY <1>3, <1>8, <1>9, <2>1, <2>6, StandsParts
  <2> DEFINE be == before \o e
  <2>8. Stands(t, 1, be) /\ be \in Text /\ Len(be) = Len(before) + Len(e)
    <3> DEFINE one == 1
    <3>1. one \in Nat \ {0} /\ Stands(t, one, before) /\ Stands(t, one + Len(before), e)
      BY <2>2, <2>5, <2>7
    <3> HIDE DEF one
    <3>2. before \in Text /\ e \in Text
      BY <1>8, <2>5
    <3> HIDE DEF i, au
    <3>3. Stands(t, one, before \o e) /\ before \o e \in Text /\ Len(before \o e) = Len(before) + Len(e)
      BY <1>3, <3>1, <3>2, StandsTogether
    <3> QED
      BY <3>3 DEF one
  <2>9. Occurs(be, e) = {Len(before) + 1}
    BY <1>0
  <2> HIDE DEF be, i
  <2>10. ASSUME NEW j \in Nat \ {0}, Stands(t, j, e) PROVE i <= j
    <3> SUFFICES ASSUME j < i PROVE FALSE
      BY <2>6
    <3>1. Len(e) \in Nat
      BY <1>8, TextIs
    <3>2. j + Len(e) <= Len(be) + 1
      BY <2>5, <2>2, <2>6, <2>8, <3>1
    <3>3. Stands(be, j, e)
      BY <1>3, <1>8, <2>8, <2>10, <3>2, StandsInBeginning
    <3>4. j \in Occurs(be, e)
      BY <1>8, <2>8, <3>3, OccursIs
    <3> QED
      BY <2>6, <2>9, <3>4
  <2>11. Stands(t, i, e \o g[w])
    BY <2>1 DEF i
  <2>12. InfoSlice(t) = g[w]
    BY <1>16, <2>6, <2>10, <2>11
  <2> QED
    BY <1>12, <2>12
<1> QED
  BY <1>7, <1>17, <1>18

-----------------------------------------------------------------------------
(* Escaped texts                                                           *)

(* What urldecode makes of the characters from the i-th on.                *)
Unescaped(t, from, i) ==
    IF i > Len(t) THEN <<>>
    ELSE IF t[i] # Percent THEN <<t[i]>> \o from[i + 1]
    ELSE <<16 * UnHex(t[i + 1]) + UnHex(t[i + 2])>> \o from[i + Skipped]

From(t) == CHOOSE from : from = [i \in 1 .. Len(t) + 3 |-> Unescaped(t, from, i)]

(* The loop of urldecode does what it says.                                *)
LEMMA FromIs ==
  ASSUME NEW t \in Text
  PROVE  \A i \in 1 .. Len(t) + 3 : From(t)[i] = Unescaped(t, From(t), i)
<1> DEFINE D == 1 .. Len(t) + 3
           Pair(j) == 16 * UnHex(t[j + 1]) + UnHex(t[j + 2])
           Out == {t[j] : j \in 1 .. Len(t)} \cup {Pair(j) : j \in 1 .. Len(t)}
           V == Seq(Out)
           rk == [i \in D |-> Len(t) + 3 - i]
           rhs(g) == [i \in D |-> Unescaped(t, g, i)]
           F == [g \in [D -> V] |-> rhs(g)]
<1>0. Len(t) \in Nat
  BY TextIs
<1>1. ASSUME NEW g \in [D -> V], NEW i \in D PROVE Unescaped(t, g, i) \in V
  <2>1. CASE i > Len(t)
    <3>1. Unescaped(t, g, i) = <<>>
      BY <2>1 DEF Unescaped
    <3> HIDE DEF Out
    <3> QED
      BY <3>1, EmptySeq
  <2>2. CASE ~(i > Len(t)) /\ t[i] # Percent
    <3>1. Unescaped(t, g, i) = <<t[i]>> \o g[i + 1] /\ t[i] \in Out /\ i + 1 \in D
      BY <1>0, <2>2 DEF Unescaped
    <3> DEFINE a == <<t[i]>>
               b == g[i + 1]
    <3> HIDE DEF Out, D
    <3>2. a \in Seq(Out) /\ b \in Seq(Out)
      BY <1>1, <3>1
    <3> HIDE DEF a, b
    <3>3. a \o b \in Seq(Out)
      BY <3>2, ConcatProperties
    <3> QED
      BY <3>1, <3>3 DEF a, b
  <2>3. CASE ~(i > Len(t)) /\ t[i] = Percent
    <3>1. Unescaped(t, g, i) = <<Pair(i)>> \o g[i + 3] /\ Pair(i) \in Out /\ i + 3 \in D
      BY <1>0, <2>3 DEF Unescaped, Skipped
    <3> DEFINE a == <<Pair(i)>>
               b == g[i + 3]
    <3> HIDE DEF Out, D, Pair
    <3>2. a \in Seq(Out) /\ b \in Seq(Out)
      BY <1>1, <3>1
    <3> HIDE DEF a, b
    <3>3. a \o b \in Seq(Out)
      BY <3>2, ConcatProperties
    <3> QED
      BY <3>1, <3>3 DEF a, b
  <2> QED
    BY <2>1, <2>2, <2>3
<1> HIDE DEF V
<1>2. ASSUME NEW g \in [D -> V], NEW h \in [D -> V], NEW i \in D,
             \A y \in D : rk[y] < rk[i] => g[y] = h[y]
      PROVE  Unescaped(t, g, i) = Unescaped(t, h, i)
  <2>1. CASE i > Len(t)
    BY <2>1 DEF Unescaped
  <2>2. CASE ~(i > Len(t))
    <3>1. i + 1 \in D /\ i + 3 \in D /\ rk[i + 1] < rk[i] /\ rk[i + 3] < rk[i]
      BY <1>0, <2>2
    <3>2. g[i + 1] = h[i + 1] /\ g[i + 3] = h[i + 3]
      BY <1>2, <3>1
    <3> QED
      BY <2>2, <3>2 DEF Unescaped, Skipped
  <2> QED
    BY <2>1, <2>2
<1>3. Contracts(D, V, rk, F)
  <2>0. rk \in [D -> Nat]
    BY <1>0
  <2>1. [D -> V] # {}
    <3>1. <<>> \in V
      <4> HIDE DEF Out
      <4> QED
        BY EmptySeq DEF V
    <3>2. [i \in D |-> <<>>] \in [D -> V]
      BY <3>1
    <3> QED
      BY <3>2
  <2>2. \A g, h \in [D -> V] : \A i \in D :
           (\A y \in D : rk[y] < rk[i] => g[y] = h[y]) => F[g][i] = F[h][i]
    BY <1>2
  <2>3. \A g \in [D -> V] : rhs(g) \in [D -> V]
    BY <1>1
  <2> HIDE DEF rhs, D
  <2>4. F \in [[D -> V] -> [D -> V]]
    BY <2>3
  <2> HIDE DEF F, rk
  <2> QED
    BY <2>0, <2>1, <2>2, <2>4 DEF Contracts
<1>4. \E f : f = rhs(f)
  <2>1. \E f \in [D -> V] : f = F[f]
    <3> HIDE DEF F, D, rk
    <3> QED
      BY <1>3, RankSolve
  <2> QED
    BY <2>1
<1>5. From(t) = rhs(From(t))
  BY <1>4 DEF From
<1> DEFINE f == From(t)
<1>6. f = rhs(f)
  BY <1>5
<1> HIDE DEF f
<1>7. \A i \in D : f[i] = Unescaped(t, f, i)
  BY <1>6
<1> QED
  BY <1>7 DEF f

(* What is written of a character, and that urldecode takes it together.   *)
LEMMA EscapedIs ==
  ASSUME NEW c \in Char
  PROVE  /\ Escaped(c) \in Text
         /\ \/ Escaped(c) = <<c>> /\ c # Percent /\ Len(Escaped(c)) = 1
            \/ \E h, l \in Char : /\ Escaped(c) = <<Percent, h, l>> /\ Len(Escaped(c)) = 3
                                  /\ 16 * UnHex(h) + UnHex(l) = c
<1>1. CASE Plain(c)
  <2>1. Escaped(c) = <<c>>
    BY <1>1 DEF Escaped
  <2>2. c # Percent
    BY <1>1 DEF Plain, IsDigit, Zero, Nine, Minus, Percent
  <2> QED
    BY <2>1, <2>2 DEF Text
<1>2. CASE ~Plain(c)
  <2>1. ASSUME NEW n \in 0 .. 15 PROVE UnHex(Hex(n)) = n /\ Hex(n) \in Char
    BY DEF UnHex, Hex, IsDigit, Zero, Nine, Char
  <2>2. c \div 16 \in 0 .. 15 /\ c % 16 \in 0 .. 15 /\ 16 * (c \div 16) + (c % 16) = c
    BY DEF Char
  <2> DEFINE h == Hex(c \div 16)
             l == Hex(c % 16)
  <2>3. h \in Char /\ l \in Char /\ 16 * UnHex(h) + UnHex(l) = c
    BY <2>1, <2>2
  <2>4. Escaped(c) = <<Percent, h, l>>
    BY <1>2 DEF Escaped
  <2> HIDE DEF h, l
  <2>5. Percent \in Char
    BY DEF Percent, Char
  <2>6. <<Percent, h, l>> \in Text /\ Len(<<Percent, h, l>>) = 3
    BY <2>3, <2>5 DEF Text
  <2> QED
    BY <2>3, <2>4, <2>6
<1> QED
  BY <1>1, <1>2

(* urldecode gives back what urlencode was given.                          *)
LEMMA EscapedIsRead ==
  ASSUME NEW s \in Text
  PROVE  DecodeUrl(EncodeUrl(s)) = s
<1> DEFINE n == Len(s)
           ss == [j \in DOMAIN s |-> Escaped(s[j])]
           t == EncodeUrl(s)
           f == From(t)
<1>0. n \in Nat /\ DOMAIN s = 1 .. n /\ (\A j \in 1 .. n : s[j] \in Char) /\ s \in Seq(Char)
  BY TextIs DEF Text
<1>1. ss \in Seq(Text) /\ Len(ss) = n /\ \A j \in 1 .. n : ss[j] = Escaped(s[j])
  <2>1. ss \in [1 .. n -> Text] /\ \A j \in 1 .. n : ss[j] = Escaped(s[j])
    BY <1>0, EscapedIs
  <2> HIDE DEF ss, n
  <2> QED
    BY <1>0, <2>1, IsSeq
<1>2. t = FlattenSeq(ss)
  BY DEF EncodeUrl
<1> HIDE DEF ss, t
<1>3. t \in Text
  <2>1. ss \in Seq(Seq(Char))
    BY <1>1 DEF Text
  <2> QED
    BY <1>2, <2>1, FlattenIs DEF Text
<1>4. PICK off \in [0 .. n -> Nat \ {0}] :
         /\ off[0] = 1 /\ off[n] = 1 + Len(t)
         /\ \A k \in 1 .. n : Stands(t, off[k - 1], ss[k]) /\ off[k] = off[k - 1] + Len(ss[k])
  <2> DEFINE i == 1
  <2>1. i \in Nat \ {0} /\ Stands(t, i, FlattenSeq(ss))
    <3>1. Stands(t, 1, t)
      BY <1>3, TextIs DEF Stands
    <3> QED
      BY <1>2, <3>1
  <2> HIDE DEF i
  <2>2. \E off \in [0 .. Len(ss) -> Nat \ {0}] :
           /\ off[0] = i /\ off[Len(ss)] = i + Len(FlattenSeq(ss))
           /\ \A k \in 1 .. Len(ss) : Stands(t, off[k - 1], ss[k]) /\ off[k] = off[k - 1] + Len(ss[k])
    BY <1>1, <1>3, <2>1, PartsStand
  <2> QED
    BY <1>1, <1>2, <2>2 DEF i
<1>5. Len(t) \in Nat /\ \A i \in 1 .. Len(t) + 3 : f[i] = Unescaped(t, f, i)
  BY <1>3, TextIs, FromIs
<1>6. DecodeUrl(t) = f[1]
  BY DEF DecodeUrl, From, Unescaped
<1> HIDE DEF f, n
<1> DEFINE T == {j \in Nat : j <= n => f[off[n - j]] = SubSeq(s, (n - j) + 1, n)}
<1>7. 0 \in T
  <2>1. n - 0 = n /\ SubSeq(s, n + 1, n) = <<>>
    BY <1>0, SubSeqEmpty
  <2>2. off[n] \in 1 .. Len(t) + 3 /\ off[n] > Len(t)
    BY <1>4, <1>5
  <2>3. f[off[n]] = <<>>
    BY <1>5, <2>2 DEF Unescaped
  <2> QED
    BY <2>1, <2>3
<1>8. ASSUME NEW k \in 1 .. n PROVE f[off[k - 1]] = <<s[k]>> \o f[off[k]]
  <2> DEFINE i == off[k - 1]
             c == s[k]
             e == Escaped(c)
  <2>1. c \in Char /\ i \in Nat \ {0} /\ Stands(t, i, e) /\ off[k] = i + Len(e)
    <3>1. k - 1 \in 0 .. n
      BY <1>0
    <3> QED
      BY <1>0, <1>1, <1>4, <3>1
  <2> HIDE DEF c, i
  <2>2. e \in Text
    BY <2>1, EscapedIs
  <2>3. CASE e = <<c>> /\ c # Percent /\ Len(e) = 1
    <3> HIDE DEF e
    <3>1. i \in 1 .. Len(t) /\ t[i] = e[1]
      <4>1. Len(e) >= 1
        BY <2>3
      <4> QED
        BY <1>3, <2>1, <2>2, <4>1, StandsFirst
    <3>2. t[i] = c /\ i \in 1 .. Len(t) + 3 /\ ~(i > Len(t))
      BY <1>5, <2>3, <3>1
    <3>3. f[i] = Unescaped(t, f, i)
      BY <1>5, <3>2
    <3>4. Unescaped(t, f, i) = <<c>> \o f[i + 1]
      BY <2>3, <3>2 DEF Unescaped
    <3> QED
      BY <2>1, <2>3, <3>3, <3>4 DEF i, c
  <2>4. ASSUME NEW h \in Char, NEW l \in Char, e = <<Percent, h, l>>, Len(e) = 3,
               16 * UnHex(h) + UnHex(l) = c
        PROVE  f[off[k - 1]] = <<s[k]>> \o f[off[k]]
    <3> HIDE DEF e
    <3>1. i + 3 <= Len(t) + 1 /\ \A x \in 1 .. 3 : t[i + x - 1] = e[x]
      BY <2>1, <2>4 DEF Stands
    <3>2. 1 \in 1 .. 3 /\ 2 \in 1 .. 3 /\ 3 \in 1 .. 3 /\ i + 1 - 1 = i /\ i + 2 - 1 = i + 1 /\ i + 3 - 1 = i + 2
      BY <2>1
    <3>3. t[i] = Percent /\ t[i + 1] = h /\ t[i + 2] = l
      <4>1. e[1] = Percent /\ e[2] = h /\ e[3] = l
        BY <2>4
      <4>2. t[i + 1 - 1] = e[1] /\ t[i + 2 - 1] = e[2] /\ t[i + 3 - 1] = e[3]
        BY <3>1, <3>2
      <4> QED
        BY <3>2, <4>1, <4>2
    <3>4. i \in 1 .. Len(t) + 3 /\ ~(i > Len(t))
      <4>1. Len(t) \in Nat /\ i \in Nat \ {0} /\ i + 3 <= Len(t) + 1
        BY <1>5, <2>1, <3>1
      <4> QED
        BY <4>1
    <3>5. f[i] = Unescaped(t, f, i)
      BY <1>5, <3>4
    <3>6. Unescaped(t, f, i) = <<16 * UnHex(h) + UnHex(l)>> \o f[i + 3]
      BY <3>3, <3>4 DEF Unescaped, Skipped
    <3> QED
      BY <2>1, <2>4, <3>5, <3>6 DEF i, c
  <2> QED
    BY <2>1, <2>3, <2>4, EscapedIs
<1>9. ASSUME NEW j \in Nat, j \in T PROVE j + 1 \in T
  <2> SUFFICES ASSUME j + 1 <= n PROVE f[off[n - (j + 1)]] = SubSeq(s, (n - (j + 1)) + 1, n)
    OBVIOUS
  <2> DEFINE k == n - j
  <2>1. k \in 1 .. n /\ k - 1 = n - (j + 1) /\ j <= n /\ (n - (j + 1)) + 1 = k /\ n \in k .. n
    BY <1>0
  <2>2. f[off[k]] = SubSeq(s, k + 1, n)
    BY <1>9, <2>1
  <2> HIDE DEF k
  <2>3. f[off[k - 1]] = <<s[k]>> \o SubSeq(s, k + 1, n)
    BY <1>8, <2>1, <2>2
  <2>4. SubSeq(s, k, n) = <<s[k]>> \o SubSeq(s, k + 1, n)
    BY <1>0, <2>1, SubSeqRecursiveFirst DEF n
  <2> QED
    BY <2>1, <2>3, <2>4
<1> HIDE DEF T
<1>10. Nat \subseteq T
  BY <1>7, <1>9, Induction
<1>11. f[off[0]] = SubSeq(s, 1, n)
  <2>1. n \in T /\ n <= n /\ n - n = 0 /\ (n - n) + 1 = 1
    BY <1>0, <1>10
  <2> QED
    BY <2>1 DEF T
<1> QED
  BY <1>0, <1>4, <1>6, <1>11, SubSeqFull DEF n, t

-----------------------------------------------------------------------------
(* URLs                                                                    *)

(* Where "://" occurs first, the URL is what comes before it, itself and   *)
(* the rest.                                                               *)
LEMMA SchemeCut ==
  ASSUME NEW u \in Text
  PROVE  /\ HostStart(u) \in Nat \ {0} /\ HostStart(u) <= Len(u) + 1
         /\ 1 \notin Occurs(u, SchemeEnd) =>
              u = (IF Protocol(u) = <<>> THEN <<>> ELSE Protocol(u) \o SchemeEnd)
                  \o SubSeq(u, HostStart(u), Len(u))
         /\ Protocol(u) \in Text
<1> DEFINE occ == Occurs(u, SchemeEnd)
           m == Min(occ)
<1>1. Len(u) \in Nat /\ Len(SchemeEnd) = 3 /\ SchemeEnd \in Text
  BY LenProperties DEF Text, SchemeEnd, Char, Colon, Slash
<1>2. CASE occ = {}
  <2>1. HostStart(u) = 1 /\ Protocol(u) = <<>>
    BY <1>2 DEF HostStart, Protocol
  <2>2. SubSeq(u, 1, Len(u)) = u /\ <<>> \in Text /\ <<>> \o u = u
    BY SubSeqFull, EmptySeq, ConcatEmptySeq DEF Text
  <2> QED
    BY <1>1, <2>1, <2>2
<1>3. CASE occ # {}
  <2>1. occ \subseteq 1 .. Len(u) - 2
    BY <1>1 DEF Occurs
  <2>2. m \in 1 .. Len(u) - 2 /\ m \in occ
    BY <1>1, <1>3, <2>1, MinIs
  <2>3. SubSeq(u, m, m + 2) = SchemeEnd
    <3>1. \A j \in occ : SubSeq(u, j, j + Len(SchemeEnd) - 1) = SchemeEnd
      BY DEF Occurs
    <3> HIDE DEF m, occ
    <3>2. m + Len(SchemeEnd) - 1 = m + 2
      BY <1>1, <2>2
    <3> QED
      BY <2>2, <3>1, <3>2
  <2>4. HostStart(u) = m + 3 /\ Protocol(u) = SubSeq(u, 1, m - 1)
    BY <1>3 DEF HostStart, Protocol
  <2> HIDE DEF m, occ
  <2>5. /\ SubSeq(u, 1, m - 1) \in Text
        /\ Len(SubSeq(u, 1, m - 1)) = m - 1
    BY <1>1, <2>2, PartOf DEF Text
  <2>6. u = SubSeq(u, 1, m + 2) \o SubSeq(u, m + 3, Len(u))
    <3>1. m + 2 \in 0 .. Len(u)
      BY <1>1, <2>2
    <3>2. u = SubSeq(u, 1, m + 2) \o SubSeq(u, (m + 2) + 1, Len(u))
      BY <3>1, CutInTwo DEF Text
    <3>3. (m + 2) + 1 = m + 3
      BY <2>2
    <3> QED
      BY <3>2, <3>3
  <2>7. SubSeq(u, 1, m + 2) = SubSeq(u, 1, m - 1) \o SchemeEnd
    <3> DEFINE n == m - 1
    <3>1. /\ n \in 0 .. Len(u) /\ m + 2 \in n .. Len(u) /\ n + 1 = m
      BY <1>1, <2>2
    <3> HIDE DEF n
    <3>2. 1 \in 1 .. Len(u) + 1 /\ n \in 1 - 1 .. Len(u)
      BY <1>1, <3>1
    <3>3. SubSeq(u, 1, n) \o SubSeq(u, n + 1, m + 2) = SubSeq(u, 1, m + 2)
      BY <3>1, <3>2, ConcatAdjacentSubSeq DEF Text
    <3> QED
      BY <2>3, <3>1, <3>3 DEF n
  <2>8. 1 \notin occ => m # 1
    BY <2>2
  <2>9. m # 1 => SubSeq(u, 1, m - 1) # <<>>
    <3>1. Len(<<>>) = 0
      BY EmptySeq
    <3> QED
      BY <2>2, <2>5, <3>1
  <2>10. m + 3 \in Nat \ {0} /\ m + 3 <= Len(u) + 1
    BY <1>1, <2>2
  <2> QED
    BY <2>4, <2>5, <2>6, <2>7, <2>8, <2>9, <2>10 DEF occ
<1> QED
  BY <1>2, <1>3

(* The rest is the host and what begins with a delimiter, if it does.      *)
LEMMA HostCut ==
  ASSUME NEW u \in Text
  PROVE  /\ \/ SubSeq(u, HostStart(u), Len(u)) = Hostname(u) \o Path(u)
            \/ SubSeq(u, HostStart(u), Len(u)) = Hostname(u) \o <<>> /\ Path(u) = <<Slash>>
         /\ Hostname(u) \in Text /\ Path(u) \in Text
         /\ \A j \in DOMAIN Hostname(u) : Hostname(u)[j] \notin Delimiters
<1> DEFINE h == HostStart(u)
           e == HostEnd(u)
<1>1. Len(u) \in Nat /\ h \in Nat \ {0} /\ h <= Len(u) + 1
  BY SchemeCut, LenProperties DEF Text
<1>2. /\ e \in Nat /\ e <= Len(u) + 1 /\ h <= e
      /\ \A j \in h .. Len(u) : j < e => u[j] \notin Delimiters
  <2> HIDE DEF h
  <2>1. /\ FirstOf(u, Delimiters, h) \in Nat /\ FirstOf(u, Delimiters, h) <= Len(u) + 1
        /\ FirstOf(u, Delimiters, h) = Len(u) + 1 \/ h <= FirstOf(u, Delimiters, h)
        /\ \A j \in h .. Len(u) : j < FirstOf(u, Delimiters, h) => u[j] \notin Delimiters
    BY <1>1, FirstOfIs
  <2> QED
    BY <1>1, <2>1 DEF HostEnd, h
<1> HIDE DEF h, e
<1>3. /\ SubSeq(u, h, e - 1) \in Text
      /\ Len(SubSeq(u, h, e - 1)) = e - h
      /\ \A k \in 1 .. e - h : SubSeq(u, h, e - 1)[k] = u[h + k - 1]
  <2>1. e - 1 \in Int /\ e - 1 <= Len(u) /\ (e - 1) - h + 1 = e - h
    BY <1>1, <1>2
  <2> QED
    BY <1>1, <1>2, <2>1, PartOf DEF Text
<1>4. Hostname(u) = SubSeq(u, h, e - 1)
  BY DEF Hostname, h, e
<1>5. \A j \in DOMAIN Hostname(u) : Hostname(u)[j] \notin Delimiters
  <2> SUFFICES ASSUME NEW j \in DOMAIN Hostname(u) PROVE Hostname(u)[j] \notin Delimiters
    OBVIOUS
  <2>1. j \in 1 .. e - h
    BY <1>3, <1>4, LenProperties DEF Text
  <2>2. h + j - 1 \in h .. Len(u) /\ h + j - 1 < e
    BY <1>1, <1>2, <2>1
  <2> QED
    BY <1>2, <1>3, <1>4, <2>1, <2>2
<1>6. CASE e > Len(u)
  <2>1. e = Len(u) + 1
    BY <1>1, <1>2, <1>6
  <2>2. Path(u) = <<Slash>>
    BY <1>6 DEF Path, e
  <2>3. e - 1 = Len(u)
    BY <1>1, <2>1
  <2>4. Hostname(u) = SubSeq(u, h, Len(u)) /\ Hostname(u) \o <<>> = Hostname(u)
    BY <1>3, <1>4, <2>3, ConcatEmptySeq DEF Text
  <2> QED
    <3>1. <<Slash>> \in Text
      BY DEF Text, Char, Slash
    <3> QED
      BY <1>3, <1>4, <1>5, <2>2, <2>4, <3>1 DEF h
<1>7. CASE e <= Len(u)
  <2>1. Path(u) = SubSeq(u, e, Len(u))
    BY <1>1, <1>2, <1>7 DEF Path, e
  <2>2. /\ h \in 1 .. Len(u) + 1 /\ e - 1 \in h - 1 .. Len(u) /\ Len(u) \in e - 1 .. Len(u)
        /\ (e - 1) + 1 = e
    BY <1>1, <1>2
  <2>3. SubSeq(u, h, e - 1) \o SubSeq(u, (e - 1) + 1, Len(u)) = SubSeq(u, h, Len(u))
    BY <2>2, ConcatAdjacentSubSeq DEF Text
  <2> QED
    <3>1. SubSeq(u, e, Len(u)) \in Text
      BY <1>1, <1>2, <2>2, PartOf DEF Text
    <3> QED
      BY <1>3, <1>4, <1>5, <2>1, <2>2, <2>3, <3>1 DEF h
<1>8. e > Len(u) \/ e <= Len(u)
  BY <1>1, <1>2
<1> QED
  BY <1>6, <1>7, <1>8

USE FormatsAssumption, ValuesAssumption, InputsAssumption

(* What a reader has returned is what its function returns for one of the  *)
(* inputs.                                                                 *)
Returned ==
    /\ \/ reader.f = "value" /\ reader.of[1] \in Values /\ reader.of[2] \in Rests
       \/ reader.f = "torrent" /\ reader.of \in Torrents
       \/ reader.f = "answer" /\ reader.of \in Answers
       \/ reader.f = "url" /\ reader.of \in Urls
       \/ reader.f = "escape" /\ reader.of \in Raws
    /\ out # <<>> =>
        out = CASE reader.f = "value" -> <<ReadValue(Encode[reader.of[1]] \o reader.of[2])>>
                [] reader.f = "torrent" -> <<TorrentOf(Encode[TorrentVal(reader.of)]),
                                             InfoSlice(Encode[TorrentVal(reader.of)])>>
                [] reader.f = "answer" -> <<Understood(Encode[AnswerVal(reader.of)])>>
                [] reader.f = "url" -> <<Protocol(reader.of), Hostname(reader.of), Path(reader.of)>>
                [] reader.f = "escape" -> <<DecodeUrl(EncodeUrl(reader.of))>>

(* Every state of Spec is one.                                             *)
LEMMA ReturnedHolds == Spec => []Returned
<1>1. Init => Returned
  BY DEF Init, Returned
<1>2. Returned /\ [Next]_vars => Returned'
  <2> SUFFICES ASSUME Returned, [Next]_vars PROVE Returned'
    OBVIOUS
  <2>1. CASE UNCHANGED vars
    BY <2>1 DEF Returned, vars
  <2>2. CASE ReadsValue
    BY <2>2 DEF Returned, ReadsValue, Calls
  <2>3. CASE ReadsTorrent
    BY <2>3 DEF Returned, ReadsTorrent, Calls
  <2>4. CASE ReadsAnswer
    BY <2>4 DEF Returned, ReadsAnswer, Calls
  <2>5. CASE ReadsUrl
    BY <2>5 DEF Returned, ReadsUrl, Calls
  <2>6. CASE ReadsEscape
    BY <2>6 DEF Returned, ReadsEscape, Calls
  <2> QED
    BY <2>1, <2>2, <2>3, <2>4, <2>5, <2>6 DEF Next
<1> QED
  BY <1>1, <1>2, PTL DEF Spec

(* RoundTrip: every value, however deep its lists and dictionaries are     *)
(* nested and whatever its strings and keys look like, is read back from   *)
(* what encode_bencode writes of it, whatever follows; a value with the    *)
(* least int64_t in it makes the reader throw.                             *)
THEOREM WhatIsWrittenIsRead == Spec => []RoundTrip
<1>1. Returned => RoundTrip
  <2> SUFFICES ASSUME Returned, Read("value")
               PROVE  IF HasLeast[reader.of[1]] THEN out[1].val = Thrown
                      ELSE out[1] = Result(reader.of[1], Len(Encode[reader.of[1]]) + 1)
    BY DEF RoundTrip
  <2> DEFINE v == reader.of[1]
             rest == reader.of[2]
  <2>1. v \in Values /\ rest \in Text /\ out[1] = ReadValue(Encode[v] \o rest)
    BY DEF Returned, Read
  <2> HIDE DEF v, rest
  <2> QED
    BY <2>1, WrittenIsRead DEF v
<1> QED
  BY <1>1, ReturnedHolds, PTL

(* MetadataRead: Torrent::Torrent finds in a .torrent file of any number   *)
(* of files and pieces what was written into it.                           *)
THEOREM MetadataIsRead == Spec => []MetadataRead
<1>1. Returned => MetadataRead
  <2> DEFINE m == reader.of
             v == TorrentVal(m)
  <2> SUFFICES ASSUME Returned, Read("torrent")
               PROVE  /\ \A k \in {"announce", "pieceLength", "name", "files"} : out[1][k] = m[k]
                      /\ FlattenSeq(out[1].pieces) = m.pieces
                      /\ \A k \in DOMAIN out[1].pieces : Len(out[1].pieces[k]) = 20
                      /\ out[1].total = IF m.files = <<>> THEN m.length ELSE SumOfLengths(m.files)
    BY DEF MetadataRead
  <2>1. m \in Torrents /\ out[1] = TorrentOf(Encode[v])
    BY DEF Returned, Read
  <2>2. m \in Torrent /\ Len(m.pieces) % 20 = 0 /\ v \in Values
    BY <2>1
  <2> HIDE DEF m
  <2>3. ReadValue(Encode[v]).val = v
    <3>1. ~HasLeast[v]
      BY <2>2, TorrentsHaveNoLeast
    <3> HIDE DEF v
    <3>2. IF HasLeast[v] THEN ReadValue(Encode[v]).val = Thrown
          ELSE ReadValue(Encode[v]) = Result(v, Len(Encode[v]) + 1)
      BY <2>2, AloneIsRead
    <3>3. ReadValue(Encode[v]) = Result(v, Len(Encode[v]) + 1)
      BY <3>1, <3>2
    <3> QED
      BY <3>3 DEF Result
  <2> DEFINE d == v.val
             info == InfoVal(m).val
             T == out[1]
  <2>4. d[Key.announce].val = m.announce /\ d[Key.info].val = info
    <3>1. d = [k \in {Key.announce, Key.info} |-> IF k = Key.announce THEN StrVal(m.announce) ELSE InfoVal(m)]
      BY DEF TorrentVal, DictVal
    <3> HIDE DEF d
    <3>2. d[Key.announce] = StrVal(m.announce) /\ d[Key.info] = InfoVal(m)
      BY <3>1, KeysDiffer
    <3> QED
      BY <3>2 DEF StrVal
  <2>5. T = [announce    |-> d[Key.announce].val,
             pieceLength |-> info[Key.pieceLength].val,
             name        |-> info[Key.name].val,
             files       |-> FilesOf(info),
             total       |-> IF Key.files \in DOMAIN info THEN SumOfLengths(FilesOf(info))
                             ELSE IF Key.length \in DOMAIN info THEN info[Key.length].val ELSE 0,
             pieces      |-> Chunk(info[Key.pieces].val, 20)]
    BY <2>1, <2>3, <2>4 DEF TorrentOf
  <2>6. /\ info[Key.pieceLength].val = m.pieceLength
        /\ info[Key.name].val = m.name /\ info[Key.pieces].val = m.pieces
        /\ Key.files \in DOMAIN info <=> m.files # <<>>
        /\ m.files = <<>> => Key.length \in DOMAIN info /\ info[Key.length].val = m.length
    BY <2>2, InfoIs
  <2>7. FilesOf(info) = m.files
    BY <2>2, FilesAreRead
  <2> HIDE DEF T, d, info, v
  <2>8. /\ T.announce = m.announce /\ T.pieceLength = m.pieceLength /\ T.name = m.name
        /\ T.files = m.files /\ T.pieces = Chunk(m.pieces, 20)
        /\ T.total = IF m.files = <<>> THEN m.length ELSE SumOfLengths(m.files)
    BY <2>4, <2>5, <2>6, <2>7
  <2>9. m.pieces \in Text
    BY <2>2 DEF Torrent
  <2>10. /\ FlattenSeq(Chunk(m.pieces, 20)) = m.pieces
         /\ \A k \in DOMAIN Chunk(m.pieces, 20) : Len(Chunk(m.pieces, 20)[k]) = 20
    <3> DEFINE s == m.pieces
    <3>1. s \in Text /\ Len(s) % 20 = 0
      BY <2>2, <2>9
    <3> HIDE DEF s
    <3>2. /\ FlattenSeq(Chunk(s, 20)) = s
          /\ \A k \in DOMAIN Chunk(s, 20) : Len(Chunk(s, 20)[k]) = 20
      BY <3>1, ChunksAreThePieces
    <3> QED
      BY <3>2 DEF s
  <2>11. \A k \in {"announce", "pieceLength", "name", "files"} : T[k] = m[k]
    BY <2>8
  <2> QED
    BY <2>8, <2>10, <2>11 DEF T
<1> QED
  BY <1>1, ReturnedHolds, PTL

(* InfoIsSliced: what find_info_hash hashes is the encoded info dictionary,*)
(* whatever is in it, if "4:info" does not come before its key.            *)
THEOREM InfoIsHashed == Spec => []InfoIsSliced
<1>1. Returned => InfoIsSliced
  <2> DEFINE m == reader.of
             before == <<DictChar>> \o EncodeStr(Key.announce) \o EncodeStr(m.announce)
  <2> SUFFICES ASSUME Returned, Read("torrent"),
                      Occurs(before \o EncodeStr(Key.info), EncodeStr(Key.info)) = {Len(before) + 1}
               PROVE  out[2] = Encode[InfoVal(m)]
    BY DEF InfoIsSliced
  <2>1. m \in Torrents /\ out[2] = InfoSlice(Encode[TorrentVal(m)])
    BY DEF Returned, Read
  <2>2. m \in Torrent /\ TorrentVal(m) \in Values
    BY <2>1
  <2>3. Occurs(before \o EncodeStr(Key.info), EncodeStr(Key.info)) = {Len(before) + 1}
    OBVIOUS
  <2> HIDE DEF m
  <2>4. InfoSlice(Encode[TorrentVal(m)]) = Encode[InfoVal(m)]
    BY <2>2, <2>3, InfoIsFound
  <2> QED
    BY <2>1, <2>4
<1> QED
  BY <1>1, ReturnedHolds, PTL

(* AnswerUnderstood: out of a tracker's answer the program reads the peers *)
(* that were put into it, however many, and the interval.                  *)
THEOREM AnswersAreUnderstood == Spec => []AnswerUnderstood
<1>1. Returned => AnswerUnderstood
  <2> SUFFICES ASSUME Returned, Read("answer"), ~HasLeast[AnswerVal(reader.of)]
               PROVE  /\ out[1].peers = reader.of.peers
                      /\ out[1].interval = IF reader.of.interval # <<>>
                                              /\ reader.of.interval[1].kind = "int"
                                           THEN reader.of.interval[1].val ELSE 30
    BY DEF AnswerUnderstood
  <2> DEFINE a == reader.of
             v == AnswerVal(a)
             t == Encode[v]
             at == a.interval
  <2>1. a \in Answers /\ out[1] = Understood(t)
    BY DEF Returned, Read
  <2> HIDE DEF a
  <2>2. v \in Values /\ a.peers \in Seq(Peer) /\ at \in {<<>>} \cup {<<x>> : x \in Values}
    BY <2>1
  <2>3. ~HasLeast[v]
    BY DEF a
  <2>4. ReadValue(t).val = v /\ v # Thrown
    <3> HIDE DEF v
    <3>1. IF HasLeast[v] THEN ReadValue(Encode[v]).val = Thrown
          ELSE ReadValue(Encode[v]) = Result(v, Len(Encode[v]) + 1)
      BY <2>2, AloneIsRead
    <3>2. ReadValue(t) = Result(v, Len(t) + 1)
      BY <2>3, <3>1
    <3>3. v # Thrown
      BY <2>2, EncodedIs
    <3> QED
      BY <3>2, <3>3 DEF Result
  <2> DEFINE K == {Key.peers} \cup (IF at = <<>> THEN {} ELSE {Key.interval})
             d == v.val
  <2>5. d = [k \in K |-> IF k = Key.peers THEN StrVal(PeersText(a.peers)) ELSE at[1]]
    BY DEF AnswerVal, DictVal
  <2>6. Key.interval # Key.peers
    BY DEF FormatsAssumption, KeyNames
  <2> HIDE DEF v, d, t
  <2>7. d[Key.peers].val = PeersText(a.peers)
    BY <2>5 DEF StrVal
  <2>8. ParsePeers(d[Key.peers].val) = a.peers
    BY <2>2, <2>7, PeersParsed
  <2>9. /\ Key.interval \in DOMAIN d <=> at # <<>>
        /\ at # <<>> => d[Key.interval] = at[1]
    BY <2>5, <2>6
  <2>10. IntervalOf(d) = IF at # <<>> /\ at[1].kind = "int" THEN at[1].val ELSE 30
    <3> HIDE DEF at
    <3> QED
      BY <2>9 DEF IntervalOf
  <2>11. Understood(t) = [interval |-> IntervalOf(d), peers |-> ParsePeers(d[Key.peers].val)]
    BY <2>4 DEF Understood, d
  <2> QED
    BY <2>1, <2>8, <2>10, <2>11 DEF a
<1> QED
  BY <1>1, ReturnedHolds, PTL

(* UrlAgrees: get_url_hostname, get_url_path and parse_url cut every URL,  *)
(* whatever its characters, into pieces that put together give it again,   *)
(* unless it begins with "://".                                            *)
THEOREM UrlsAreCutAlike == Spec => []UrlAgrees
<1>1. Returned => UrlAgrees
  <2> SUFFICES ASSUME Returned, Read("url"), 1 \notin Occurs(reader.of, SchemeEnd)
               PROVE  /\ \/ Url(out[1], out[2], out[3]) = reader.of
                         \/ Url(out[1], out[2], <<>>) = reader.of /\ out[3] = <<Slash>>
                      /\ \A j \in DOMAIN out[2] : out[2][j] \notin Delimiters
    BY DEF UrlAgrees
  <2> DEFINE u == reader.of
  <2>1. u \in Text
    BY DEF Returned, Read
  <2>2. out[1] = Protocol(u) /\ out[2] = Hostname(u) /\ out[3] = Path(u)
    BY DEF Returned, Read
  <2> HIDE DEF u
  <2>3. u = (IF Protocol(u) = <<>> THEN <<>> ELSE Protocol(u) \o SchemeEnd)
            \o SubSeq(u, HostStart(u), Len(u))
    BY <2>1, SchemeCut DEF u
  <2> DEFINE sch == IF Protocol(u) = <<>> THEN <<>> ELSE Protocol(u) \o SchemeEnd
  <2>4. sch \in Text
    <3>1. <<>> \in Text /\ SchemeEnd \in Text
      BY EmptySeq DEF Text, SchemeEnd, Char, Colon, Slash
    <3> QED
      BY <2>1, <3>1, SchemeCut, ConcatProperties DEF Text
  <2> HIDE DEF sch
  <2>5. \A p \in Text : sch \o (Hostname(u) \o p) = (sch \o Hostname(u)) \o p
    <3> SUFFICES ASSUME NEW p \in Text
                 PROVE  sch \o (Hostname(u) \o p) = (sch \o Hostname(u)) \o p
      OBVIOUS
    <3>1. Hostname(u) \in Text
      BY <2>1, HostCut
    <3> QED
      BY <2>4, <3>1, Associates
  <2>6. <<>> \in Text
    BY EmptySeq DEF Text
  <2> QED
    BY <2>1, <2>2, <2>3, <2>5, <2>6, HostCut DEF Url, sch, u
<1> QED
  BY <1>1, ReturnedHolds, PTL

(* EscapeRoundTrip: urldecode gives back every text urlencode was given.   *)
THEOREM EscapesAreRead == Spec => []EscapeRoundTrip
<1>1. Returned => EscapeRoundTrip
  <2> SUFFICES ASSUME Returned, Read("escape") PROVE out[1] = reader.of
    BY DEF EscapeRoundTrip
  <2>1. reader.of \in Text /\ out[1] = DecodeUrl(EncodeUrl(reader.of))
    BY DEF Returned, Read
  <2> QED
    BY <2>1, EscapedIsRead
<1> QED
  BY <1>1, ReturnedHolds, PTL
=============================================================================
