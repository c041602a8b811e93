---------------------------- MODULE Lists_proofs ----------------------------
(***************************************************************************)
(* What the list operators compute, for lists of any length.  Induction is *)
(* over positions: a set of naturals has a least element, so a property    *)
(* given by the set of those that have it holds of all, and a recursive    *)
(* function over the positions of a list exists and obeys its equations.   *)
(***************************************************************************)
EXTENDS Lists, Integers, FiniteSetTheorems, SequenceTheorems, WellFoundedInduction, TLAPS

(* Most leaves are first-order; those with arithmetic or records name the  *)
(* SMT solver.                                                             *)
USE Zenon

-----------------------------------------------------------------------------
(* Naturals and recursion *)

(* A set of naturals has a least element. *)
LEMMA LeastNatural ==
  ASSUME NEW S, S \subseteq Nat, S # {}
  PROVE  \E m \in S : \A n \in S : m <= n
  <1>1. PICK m \in S : \A n \in S : ~(<<n, m>> \in OpToRel(<, Nat))
    BY WFMin, NatLessThanWellFounded
  <1>2. \A n \in S : ~(n < m)
    BY <1>1 DEF OpToRel
  <1> QED
    BY <1>2, SMTT(30)

(* Induction up to n, for a property given by the set of those that have   *)
(* it.                                                                     *)
LEMMA UpTo ==
  ASSUME NEW n \in Nat, NEW G, 0 \in G, \A k \in 1..n : k - 1 \in G => k \in G
  PROVE  \A k \in 0..n : k \in G
  <1> DEFINE B == {k \in 0..n : k \notin G}
  <1> SUFFICES ASSUME B # {} PROVE FALSE
    OBVIOUS
  <1>1. B \subseteq Nat
    BY SMTT(30)
  <1>2. PICK m \in B : \A k \in B : m <= k
    BY <1>1, LeastNatural
  <1>3. m \in 1..n /\ m - 1 \in 0..n /\ ~(m <= m - 1)
    BY <1>2, SMTT(30)
  <1>4. m - 1 \in G
    BY <1>2, <1>3
  <1> QED
    BY <1>2, <1>3, <1>4

(* A recursive definition over the positions of a list: the value at 0 is  *)
(* base, and next[k] takes the value before k to the one at k.             *)
Recursive(S, n, base, next) == base \in S /\ next \in [1..n -> [S -> S]]
Solution(g, S, n, base, next) ==
    g \in [0..n -> S] /\ g[0] = base /\ \A k \in 1..n : g[k] = next[k][g[k - 1]]

(* Such a definition has a solution. *)
LEMMA Recursion ==
  ASSUME NEW S, NEW n \in Nat, NEW base, NEW next, Recursive(S, n, base, next)
  PROVE  \E g : Solution(g, S, n, base, next)
  <1> USE DEF Recursive
  <1> DEFINE Solves(m, g) == g[0] = base /\ \A k \in 1..m : g[k] = next[k][g[k - 1]]
             G == {m \in 0..n : \E g \in [0..m -> S] : Solves(m, g)}
  <1>1. 0 \in G
    <2> DEFINE g == [k \in 0..0 |-> base]
    <2>1. g \in [0..0 -> S] /\ Solves(0, g)
      BY SMTT(30)
    <2>2. 0 \in 0..n
      BY SMTT(30)
    <2> QED
      BY <2>1, <2>2
  <1>2. ASSUME NEW m \in 1..n, m - 1 \in G PROVE m \in G
    <2>1. PICK g \in [0..(m - 1) -> S] : Solves(m - 1, g)
      BY <1>2
    <2> DEFINE h == [k \in 0..m |-> IF k = m THEN next[m][g[m - 1]] ELSE g[k]]
    <2>2. m \in 0..n /\ m - 1 \in 0..(m - 1) /\ ~(0 = m) /\ 0 \in 0..m /\ m \in 0..m
      BY SMTT(30)
    <2>3. g[m - 1] \in S /\ next[m] \in [S -> S]
      BY <2>1, <2>2
    <2>4. h \in [0..m -> S]
      <3>1. ASSUME NEW k \in 0..m, k # m PROVE k \in 0..(m - 1)
        BY <3>1, SMTT(30)
      <3> QED
        BY <2>3, <3>1
    <2>5. h[0] = base
      BY <2>1, <2>2
    <2>6. ASSUME NEW k \in 1..m PROVE h[k] = next[k][h[k - 1]]
      <3>1. k \in 0..m /\ k - 1 \in 0..m /\ k - 1 # m /\ (k # m => k \in 1..(m - 1))
        BY <2>6, SMTT(30)
      <3>2. h[k - 1] = g[k - 1]
        BY <3>1
      <3>3. CASE k = m
        BY <3>1, <3>2, <3>3
      <3>4. CASE k # m
        BY <2>1, <3>1, <3>2, <3>4
      <3> QED
        BY <3>3, <3>4
    <2>7. Solves(m, h)
      BY <2>5, <2>6
    <2> QED
      BY <2>2, <2>4, <2>7
  <1> HIDE DEF G
  <1>3. n \in G
    <2>1. n \in 0..n
      BY SMTT(30)
    <2> QED
      BY <1>1, <1>2, <2>1, UpTo
  <1> QED
    BY <1>3 DEF G, Solution

-----------------------------------------------------------------------------
(* Lists *)

(* Pick computes what its recursion says. *)
LEMMA PickUnfolds ==
  ASSUME NEW A, NEW s \in Seq(A), NEW I
  PROVE  \E p \in [0..Len(s) -> Seq(A)] :
            /\ Pick(s, I) = p[Len(s)]
            /\ p[0] = << >>
            /\ \A k \in 1..Len(s) :
                  p[k] = IF k \in I THEN Append(p[k - 1], s[k]) ELSE p[k - 1]
  <1> DEFINE Eq(g) == g = [n \in 0..Len(s) |->
                            IF n = 0 THEN << >>
                            ELSE IF n \in I THEN Append(g[n - 1], s[n]) ELSE g[n - 1]]
             p == CHOOSE g : Eq(g)
             next == [k \in 1..Len(s) |->
                        [x \in Seq(A) |-> IF k \in I THEN Append(x, s[k]) ELSE x]]
  <1>0. Len(s) \in Nat /\ Len(s) \in 0..Len(s) /\ 0 \in 0..Len(s) /\ << >> \in Seq(A)
    BY SMTT(30)
  <1>1. ASSUME NEW k \in 1..Len(s)
        PROVE  k \in 0..Len(s) /\ k - 1 \in 0..Len(s) /\ k # 0 /\ s[k] \in A
    BY <1>1, SMTT(30)
  <1>2. ASSUME NEW k \in 1..Len(s), NEW x \in Seq(A)
        PROVE  next[k][x] = (IF k \in I THEN Append(x, s[k]) ELSE x) /\ next[k][x] \in Seq(A)
    <2>1. next[k][x] = (IF k \in I THEN Append(x, s[k]) ELSE x)
      BY <1>2
    <2>2. Append(x, s[k]) \in Seq(A)
      BY <1>1, <1>2, SMTT(30)
    <2> QED
      BY <2>1, <2>2
  <1>3. next \in [1..Len(s) -> [Seq(A) -> Seq(A)]]
    <2>1. ASSUME NEW k \in 1..Len(s) PROVE next[k] \in [Seq(A) -> Seq(A)]
      <3> DEFINE f == [x \in Seq(A) |-> IF k \in I THEN Append(x, s[k]) ELSE x]
      <3>1. next[k] = f
        BY <2>1
      <3>2. \A x \in Seq(A) : f[x] \in Seq(A)
        BY <1>2, <2>1, <3>1
      <3>3. f \in [Seq(A) -> Seq(A)]
        BY <3>2
      <3> QED
        BY <3>1, <3>3
    <2> QED
      BY <2>1
  <1> HIDE DEF next
  <1>4. PICK g \in [0..Len(s) -> Seq(A)] :
            g[0] = << >> /\ \A k \in 1..Len(s) : g[k] = next[k][g[k - 1]]
    <2>1. Recursive(Seq(A), Len(s), << >>, next)
      BY <1>0, <1>3 DEF Recursive
    <2>2. \E g : Solution(g, Seq(A), Len(s), << >>, next)
      BY <1>0, <2>1, Recursion
    <2> QED
      BY <2>2 DEF Solution
  <1>5. Eq(g)
    <2>1. ASSUME NEW k \in 0..Len(s), k # 0
          PROVE  g[k] = IF k \in I THEN Append(g[k - 1], s[k]) ELSE g[k - 1]
      <3>1. k \in 1..Len(s)
        BY <2>1, SMTT(30)
      <3>2. g[k - 1] \in Seq(A)
        BY <1>1, <1>4, <3>1
      <3> QED
        BY <1>2, <1>4, <3>1, <3>2
    <2> QED
      BY <1>4, <2>1
  <1>6. Eq(p)
    BY <1>5
  <1>7. Pick(s, I) = p[Len(s)]
    BY DEF Pick
  <1>8. /\ p = [n \in 0..Len(s) |-> p[n]] /\ p[0] = << >>
        /\ \A k \in 1..Len(s) :
              p[k] = IF k \in I THEN Append(p[k - 1], s[k]) ELSE p[k - 1]
    <2> HIDE DEF p
    <2>1. DOMAIN p = 0..Len(s)
      BY <1>6
    <2>2. p[0] = << >>
      BY <1>0, <1>6
    <2>3. ASSUME NEW k \in 1..Len(s)
          PROVE  p[k] = IF k \in I THEN Append(p[k - 1], s[k]) ELSE p[k - 1]
      BY <1>1, <1>6, <2>3
    <2> QED
      BY <1>6, <2>1, <2>2, <2>3
  <1> HIDE DEF p
  <1>9. p \in [0..Len(s) -> Seq(A)]
    <2> DEFINE G == {k \in 0..Len(s) : p[k] \in Seq(A)}
    <2>1. 0 \in G
      BY <1>0, <1>8
    <2>2. ASSUME NEW k \in 1..Len(s), k - 1 \in G PROVE k \in G
      <3>1. Append(p[k - 1], s[k]) \in Seq(A)
        BY <1>1, <2>2, SMTT(30)
      <3> QED
        BY <1>1, <1>8, <2>2, <3>1
    <2>3. \A k \in 0..Len(s) : k \in G
      <3> HIDE DEF G
      <3> QED
        BY <1>0, <2>1, <2>2, UpTo
    <2> QED
      BY <1>8, <2>3
  <1> QED
    BY <1>7, <1>8, <1>9

(* The positions of s that the elements of t come from: those in I, all of *)
(* them, in order.                                                         *)
Embeds(e, t, s, I) ==
    /\ e \in [1..Len(t) -> 1..Len(s)]
    /\ \A k \in 1..Len(t) : e[k] \in I /\ t[k] = s[e[k]]
    /\ \A j, k \in 1..Len(t) : j < k => e[j] < e[k]
    /\ \A i \in 1..Len(s) : i \in I => \E k \in 1..Len(t) : e[k] = i

(* Pick leaves the elements at the positions in I, in their order. *)
LEMMA PickFacts ==
  ASSUME NEW A, NEW s \in Seq(A), NEW I
  PROVE  Pick(s, I) \in Seq(A) /\ \E e : Embeds(e, Pick(s, I), s, I)
  <1>1. PICK p \in [0..Len(s) -> Seq(A)] :
            /\ Pick(s, I) = p[Len(s)]
            /\ p[0] = << >>
            /\ \A k \in 1..Len(s) :
                  p[k] = IF k \in I THEN Append(p[k - 1], s[k]) ELSE p[k - 1]
    BY PickUnfolds, SMTT(30)
  <1>0. Len(s) \in Nat /\ Len(s) \in 0..Len(s) /\ 0 \in 0..Len(s)
    BY SMTT(30)
  <1> DEFINE Part(n, e) ==
                /\ e \in [1..Len(p[n]) -> 1..n]
                /\ \A k \in 1..Len(p[n]) : e[k] \in I /\ p[n][k] = s[e[k]]
                /\ \A j, k \in 1..Len(p[n]) : j < k => e[j] < e[k]
                /\ \A i \in 1..n : i \in I => \E k \in 1..Len(p[n]) : e[k] = i
             G == {n \in 0..Len(s) : \E e : Part(n, e)}
  <1>2. 0 \in G
    <2>1. Len(p[0]) = 0
      BY <1>1, SMTT(30)
    <2> DEFINE e == [k \in 1..0 |-> 0]
    <2>2. Part(0, e)
      <3>1. \A k \in 1..Len(p[0]) : FALSE
        BY <2>1, SMTT(30)
      <3>2. e \in [1..Len(p[0]) -> 1..0]
        BY <2>1, SMTT(30)
      <3>3. \A i \in 1..0 : FALSE
        BY SMTT(30)
      <3> QED
        BY <3>1, <3>2, <3>3
    <2> QED
      BY <1>0, <2>2
  <1>3. ASSUME NEW n \in 1..Len(s), n - 1 \in G PROVE n \in G
    <2>1. PICK e : Part(n - 1, e)
      BY <1>3
    <2>0. /\ n \in 0..Len(s) /\ n - 1 \in 0..Len(s) /\ n \in Nat
          /\ \A i \in 1..(n - 1) : i \in 1..n /\ i < n /\ i \in Nat
          /\ \A i \in 1..n : i = n \/ i \in 1..(n - 1)
      BY <1>0, SMTT(30)
    <2>2. p[n - 1] \in Seq(A) /\ s[n] \in A
      BY <1>1, <2>0, SMTT(30)
    <2> DEFINE m == Len(p[n - 1])
    <2>3. m \in Nat
      BY <2>2, SMTT(30)
    <2>4. CASE n \notin I
      <3>1. p[n] = p[n - 1]
        BY <1>1, <2>4
      <3>2. e \in [1..Len(p[n]) -> 1..n]
        BY <2>0, <2>1, <3>1
      <3>3. \A i \in 1..n : i \in I => \E k \in 1..Len(p[n]) : e[k] = i
        BY <2>0, <2>1, <2>4, <3>1
      <3>4. Part(n, e)
        BY <2>1, <3>1, <3>2, <3>3
      <3> QED
        BY <2>0, <3>4
    <2>5. CASE n \in I
      <3>1. p[n] = Append(p[n - 1], s[n])
        BY <1>1, <2>5
      <3>2. /\ Len(p[n]) = m + 1 /\ p[n][m + 1] = s[n]
            /\ \A k \in 1..m : p[n][k] = p[n - 1][k]
        BY <2>2, <3>1, SMTT(30)
      <3>3. /\ \A k \in 1..(m + 1) : k = m + 1 \/ k \in 1..m
            /\ \A k \in 1..m : k \in 1..(m + 1) /\ k # m + 1 /\ k \in Nat
            /\ m + 1 \in 1..(m + 1)
            /\ \A k \in 1..(m + 1) : ~(m + 1 < k)
        BY <2>3, SMTT(30)
      <3> HIDE DEF m
      <3> DEFINE f == [k \in 1..(m + 1) |-> IF k = m + 1 THEN n ELSE e[k]]
      <3>4. f[m + 1] = n /\ \A k \in 1..m : f[k] = e[k]
        BY <3>3
      <3>5. e \in [1..m -> 1..(n - 1)]
        BY <2>1 DEF m
      <3>6. f \in [1..(m + 1) -> 1..n]
        <4>1. \A k \in 1..m : e[k] \in 1..n
          BY <2>0, <3>5
        <4>2. n \in 1..n
          BY <2>0, SMTT(30)
        <4> QED
          BY <3>3, <4>1, <4>2
      <3>e. DOMAIN f = 1..(m + 1)
        OBVIOUS
      <3> HIDE DEF f
      <3>7. \A k \in 1..(m + 1) : f[k] \in I /\ p[n][k] = s[f[k]]
        BY <2>1, <2>5, <3>2, <3>3, <3>4 DEF m
      <3>8. ASSUME NEW j \in 1..(m + 1), NEW k \in 1..(m + 1), j < k PROVE f[j] < f[k]
        <4>1. j \in 1..m
          BY <3>3, <3>8
        <4>2. CASE k = m + 1
          BY <2>0, <3>4, <3>5, <4>1, <4>2
        <4>3. CASE k \in 1..m
          BY <2>1, <3>4, <3>8, <4>1, <4>3 DEF m
        <4> QED
          BY <3>3, <4>2, <4>3
      <3>9. ASSUME NEW i \in 1..n, i \in I PROVE \E k \in 1..(m + 1) : f[k] = i
        <4>1. CASE i = n
          BY <3>3, <3>4, <4>1
        <4>2. CASE i \in 1..(n - 1)
          <5>1. PICK k \in 1..m : e[k] = i
            BY <2>1, <3>9, <4>2 DEF m
          <5> QED
            BY <3>3, <3>4, <5>1
        <4> QED
          BY <2>0, <4>1, <4>2
      <3>10. Part(n, f)
        BY <3>2, <3>6, <3>7, <3>8, <3>9
      <3> QED
        BY <2>0, <3>10
    <2> QED
      BY <2>4, <2>5
  <1> HIDE DEF G
  <1>4. Len(s) \in G
    BY <1>0, <1>2, <1>3, UpTo
  <1> USE DEF G
  <1>5. PICK e : Part(Len(s), e)
    BY <1>4
  <1>6. Embeds(e, Pick(s, I), s, I)
    BY <1>1, <1>5 DEF Embeds
  <1> QED
    BY <1>0, <1>1, <1>6

(* The elements of a list. *)
LEMMA ListRange ==
  ASSUME NEW A, NEW s \in Seq(A)
  PROVE  /\ Len(s) \in Nat /\ DOMAIN s = 1..Len(s)
         /\ Range(s) = {s[i] : i \in 1..Len(s)} /\ Range(s) \subseteq A
  BY SMTT(30) DEF Range

(* The elements of two lists joined. *)
LEMMA RangeOfJoin ==
  ASSUME NEW A, NEW s \in Seq(A), NEW t \in Seq(A)
  PROVE  /\ s \o t \in Seq(A) /\ Len(s \o t) = Len(s) + Len(t)
         /\ Range(s \o t) = Range(s) \cup Range(t)
  <1>0. s \o t \in Seq(A) /\ Len(s \o t) = Len(s) + Len(t) /\ Len(s) \in Nat /\ Len(t) \in Nat
    BY SMTT(30)
  <1>r. Range(s \o t) = {(s \o t)[i] : i \in 1..Len(s \o t)}
    BY <1>0, ListRange
  <1>1. ASSUME NEW x \in Range(s \o t) PROVE x \in Range(s) \cup Range(t)
    <2>1. PICK i \in 1..Len(s \o t) : x = (s \o t)[i]
      BY <1>0, <1>1, ListRange
    <2>2. CASE i <= Len(s)
      <3>1. i \in 1..Len(s) /\ x = s[i]
        BY <1>0, <2>1, <2>2, SMTT(30)
      <3> QED
        BY <3>1, ListRange, SMTT(30)
    <2>3. CASE ~(i <= Len(s))
      <3>1. i - Len(s) \in 1..Len(t) /\ x = t[i - Len(s)]
        BY <1>0, <2>1, <2>3, SMTT(30)
      <3> QED
        BY <3>1, ListRange, SMTT(30)
    <2> QED
      BY <2>2, <2>3
  <1>2. ASSUME NEW x \in Range(s) PROVE x \in Range(s \o t)
    <2>1. PICK i \in 1..Len(s) : x = s[i]
      BY <1>2, ListRange
    <2>2. i \in 1..Len(s \o t) /\ (s \o t)[i] = x
      BY <1>0, <2>1, SMTT(30)
    <2> QED
      BY <1>r, <2>2
  <1>3. ASSUME NEW x \in Range(t) PROVE x \in Range(s \o t)
    <2>1. PICK i \in 1..Len(t) : x = t[i]
      BY <1>3, ListRange
    <2>2. Len(s) + i \in 1..Len(s \o t) /\ (s \o t)[Len(s) + i] = x
      BY <1>0, <2>1, SMTT(30)
    <2> QED
      BY <1>r, <2>2
  <1> QED
    BY <1>0, <1>1, <1>2, <1>3

(* The places of the elements of two lists joined. *)
LEMMA JoinAt ==
  ASSUME NEW A, NEW s \in Seq(A), NEW t \in Seq(A)
  PROVE  /\ s \o t \in Seq(A) /\ Len(s) \in Nat /\ Len(t) \in Nat
         /\ Len(s \o t) = Len(s) + Len(t)
         /\ \A i \in 1..Len(s) : (s \o t)[i] = s[i]
         /\ \A i \in 1..Len(t) : (s \o t)[Len(s) + i] = t[i]
  <1>1. Len(s) \in Nat /\ Len(t) \in Nat
    BY LenProperties
  <1>2. /\ s \o t \in Seq(A) /\ Len(s \o t) = Len(s) + Len(t)
        /\ \A i \in 1..Len(s) + Len(t) :
              (s \o t)[i] = IF i <= Len(s) THEN s[i] ELSE t[i - Len(s)]
    BY ConcatProperties
  <1>3. \A i \in 1..Len(s) : i \in 1..Len(s) + Len(t) /\ i <= Len(s)
    BY <1>1, SMTT(30)
  <1>4. ASSUME NEW i \in 1..Len(s) PROVE (s \o t)[i] = s[i]
    <2>1. i \in 1..Len(s) + Len(t) /\ i <= Len(s)
      BY <1>3
    <2> QED
      BY <1>2, <2>1
  <1>5. ASSUME NEW i \in 1..Len(t) PROVE (s \o t)[Len(s) + i] = t[i]
    <2> DEFINE k == Len(s) + i
    <2>1. k \in 1..Len(s) + Len(t) /\ ~(k <= Len(s)) /\ k - Len(s) = i
      BY <1>1, SMTT(30)
    <2> HIDE DEF k
    <2>2. (s \o t)[k] = t[i]
      BY <1>2, <2>1
    <2> QED
      BY <2>2 DEF k
  <1> QED
    BY <1>1, <1>2, <1>4, <1>5

(* Flatten computes what its recursion says. *)
LEMMA FlattenUnfolds ==
  ASSUME NEW C, NEW ss \in Seq(Seq(C))
  PROVE  \E p \in [0..Len(ss) -> Seq(C)] :
            /\ Flatten(ss) = p[Len(ss)]
            /\ \A m : Joined(ss, m) = p[m]
            /\ p[0] = << >>
            /\ \A k \in 1..Len(ss) : p[k] = p[k - 1] \o ss[k]
  <1> DEFINE Eq(g) == g = [n \in 0..Len(ss) |-> IF n = 0 THEN << >> ELSE g[n - 1] \o ss[n]]
             p == CHOOSE g : Eq(g)
             next == [k \in 1..Len(ss) |-> [x \in Seq(C) |-> x \o ss[k]]]
  <1>0. Len(ss) \in Nat /\ Len(ss) \in 0..Len(ss) /\ 0 \in 0..Len(ss) /\ << >> \in Seq(C)
    BY SMTT(30)
  <1>1. ASSUME NEW k \in 1..Len(ss)
        PROVE  k \in 0..Len(ss) /\ k - 1 \in 0..Len(ss) /\ k # 0 /\ ss[k] \in Seq(C)
    BY <1>1, SMTT(30)
  <1>2. ASSUME NEW k \in 1..Len(ss), NEW x \in Seq(C)
        PROVE  next[k][x] = x \o ss[k] /\ x \o ss[k] \in Seq(C)
    <2>1. next[k][x] = x \o ss[k]
      BY <1>2
    <2>2. x \o ss[k] \in Seq(C)
      BY <1>1, <1>2, RangeOfJoin
    <2> QED
      BY <2>1, <2>2
  <1>3. Recursive(Seq(C), Len(ss), << >>, next)
    <2>1. ASSUME NEW k \in 1..Len(ss) PROVE next[k] \in [Seq(C) -> Seq(C)]
      BY <1>2, <2>1
    <2>2. next \in [1..Len(ss) -> [Seq(C) -> Seq(C)]]
      BY <2>1
    <2> QED
      BY <1>0, <2>2 DEF Recursive
  <1> HIDE DEF next
  <1>4. PICK g : Solution(g, Seq(C), Len(ss), << >>, next)
    BY <1>0, <1>3, Recursion
  <1>5. Eq(g)
    <2>0. /\ g \in [0..Len(ss) -> Seq(C)] /\ g[0] = << >>
          /\ \A k \in 1..Len(ss) : g[k] = next[k][g[k - 1]]
      BY <1>4 DEF Solution
    <2>1. ASSUME NEW k \in 0..Len(ss), k # 0 PROVE g[k] = g[k - 1] \o ss[k]
      <3>1. k \in 1..Len(ss)
        BY <2>1, SMTT(30)
      <3>2. g[k - 1] \in Seq(C)
        BY <1>1, <2>0, <3>1
      <3> QED
        BY <1>2, <2>0, <3>1, <3>2
    <2> QED
      BY <2>0, <2>1
  <1>6. Eq(p)
    BY <1>5
  <1>7. Flatten(ss) = p[Len(ss)] /\ \A m : Joined(ss, m) = p[m]
    BY DEF Flatten, Joined
  <1> HIDE DEF p
  <1>8. /\ DOMAIN p = 0..Len(ss) /\ p = [n \in 0..Len(ss) |-> p[n]] /\ p[0] = << >>
        /\ \A k \in 1..Len(ss) : p[k] = p[k - 1] \o ss[k]
    <2>1. DOMAIN p = 0..Len(ss)
      BY <1>6
    <2>2. p[0] = << >>
      BY <1>0, <1>6
    <2>3. ASSUME NEW k \in 1..Len(ss) PROVE p[k] = p[k - 1] \o ss[k]
      BY <1>1, <1>6, <2>3
    <2> QED
      BY <1>6, <2>1, <2>2, <2>3
  <1>9. p \in [0..Len(ss) -> Seq(C)]
    <2> DEFINE G == {k \in 0..Len(ss) : p[k] \in Seq(C)}
    <2>1. 0 \in G
      BY <1>0, <1>8
    <2>2. ASSUME NEW k \in 1..Len(ss), k - 1 \in G PROVE k \in G
      <3>1. p[k - 1] \in Seq(C) /\ ss[k] \in Seq(C)
        BY <1>1, <2>2
      <3>2. p[k - 1] \o ss[k] \in Seq(C)
        BY <1>2, <3>1
      <3> QED
        BY <1>1, <1>8, <3>2
    <2>3. \A k \in 0..Len(ss) : k \in G
      <3> HIDE DEF G
      <3> QED
        BY <1>0, <2>1, <2>2, UpTo
    <2> QED
      BY <1>8, <2>3
  <1> QED
    BY <1>7, <1>8, <1>9

(* Flatten has the elements of all the lists. *)
LEMMA FlattenFacts ==
  ASSUME NEW C, NEW ss \in Seq(Seq(C))
  PROVE  /\ Flatten(ss) \in Seq(C)
         /\ \A c : c \in Range(Flatten(ss)) <=> \E i \in 1..Len(ss) : c \in Range(ss[i])
  <1>1. PICK p \in [0..Len(ss) -> Seq(C)] :
            /\ Flatten(ss) = p[Len(ss)]
            /\ p[0] = << >>
            /\ \A k \in 1..Len(ss) : p[k] = p[k - 1] \o ss[k]
    BY FlattenUnfolds
  <1>0. Len(ss) \in Nat /\ Len(ss) \in 0..Len(ss) /\ 0 \in 0..Len(ss)
    BY SMTT(30)
  <1> DEFINE Holds(n) == \A c : c \in Range(p[n]) <=> \E i \in 1..n : c \in Range(ss[i])
             G == {n \in 0..Len(ss) : Holds(n)}
  <1>2. 0 \in G
    <2>1. Range(p[0]) = {}
      BY <1>1, SMTT(30) DEF Range
    <2>2. \A i \in 1..0 : FALSE
      BY SMTT(30)
    <2> QED
      BY <1>0, <2>1, <2>2
  <1>3. ASSUME NEW n \in 1..Len(ss), n - 1 \in G PROVE n \in G
    <2>0. /\ n \in 0..Len(ss) /\ n - 1 \in 0..Len(ss)
          /\ \A i \in 1..(n - 1) : i \in 1..n
          /\ \A i \in 1..n : i = n \/ i \in 1..(n - 1)
          /\ n \in 1..n
      BY <1>0, SMTT(30)
    <2>1. Range(p[n]) = Range(p[n - 1]) \cup Range(ss[n])
      <3>1. p[n - 1] \in Seq(C)
        BY <1>1, <2>0
      <3>2. ss[n] \in Seq(C)
        BY SMTT(30)
      <3>3. p[n] = p[n - 1] \o ss[n]
        BY <1>1
      <3> QED
        BY <3>1, <3>2, <3>3, RangeOfJoin, SMTT(30)
    <2>2. Holds(n)
      BY <1>3, <2>0, <2>1
    <2> QED
      BY <2>0, <2>2
  <1>4. Len(ss) \in G
    <2> HIDE DEF G
    <2> QED
      BY <1>0, <1>2, <1>3, UpTo
  <1> QED
    BY <1>0, <1>1, <1>4

(* The first lists of ss, taken one by one. *)
LEMMA JoinedFacts ==
  ASSUME NEW C, NEW ss \in Seq(Seq(C))
  PROVE  /\ \A m \in 0..Len(ss) : Joined(ss, m) \in Seq(C)
         /\ Joined(ss, 0) = << >>
         /\ \A k \in 1..Len(ss) : Joined(ss, k) = Joined(ss, k - 1) \o ss[k]
  <1>1. PICK p \in [0..Len(ss) -> Seq(C)] :
            /\ \A m : Joined(ss, m) = p[m]
            /\ p[0] = << >>
            /\ \A k \in 1..Len(ss) : p[k] = p[k - 1] \o ss[k]
    BY FlattenUnfolds
  <1> QED
    BY <1>1

(* The i-th list stands in the joined list behind those before it. *)
LEMMA JoinedPiece ==
  ASSUME NEW C, NEW ss \in Seq(Seq(C)), NEW i \in 1..Len(ss)
  PROVE  LET from == Len(Joined(ss, i - 1))
         IN  /\ from \in Nat /\ Flatten(ss) \in Seq(C)
             /\ Len(Joined(ss, i)) = from + Len(ss[i])
             /\ from + Len(ss[i]) <= Len(Flatten(ss))
             /\ SubSeq(Flatten(ss), from + 1, from + Len(ss[i])) = ss[i]
  <1> DEFINE J(m) == Joined(ss, m)
             from == Len(J(i - 1))
             size == Len(ss[i])
             Holds(m) == /\ from + size <= Len(J(m))
                         /\ \A j \in 1..size : J(m)[from + j] = ss[i][j]
             G == {m \in 0..Len(ss) : i <= m => Holds(m)}
  <1>0. /\ Len(ss) \in Nat /\ i \in Nat /\ i - 1 \in 0..Len(ss) /\ i \in 0..Len(ss)
        /\ Len(ss) \in 0..Len(ss) /\ i <= Len(ss) /\ 0 \in 0..Len(ss) /\ ~(i <= 0)
    BY SMTT(30)
  <1>1. /\ \A m \in 0..Len(ss) : J(m) \in Seq(C)
        /\ \A k \in 1..Len(ss) : J(k) = J(k - 1) \o ss[k]
    BY JoinedFacts
  <1>2. \A k \in 1..Len(ss) : ss[k] \in Seq(C) /\ k \in 0..Len(ss) /\ k - 1 \in 0..Len(ss)
    BY SMTT(30)
  <1>3. J(Len(ss)) = Flatten(ss)
    BY DEF Flatten
  <1> HIDE DEF J
  <1>4. from \in Nat /\ size \in Nat
    BY <1>0, <1>1, <1>2, SMTT(30)
  <1>5. Len(J(i)) = from + size /\ \A j \in 1..size : J(i)[from + j] = ss[i][j]
    <2>1. J(i) = J(i - 1) \o ss[i] /\ J(i - 1) \in Seq(C) /\ ss[i] \in Seq(C)
      BY <1>0, <1>1, <1>2
    <2> DEFINE x == J(i - 1)
               y == ss[i]
    <2> HIDE DEF x, y
    <2>2. x \in Seq(C) /\ y \in Seq(C) /\ J(i) = x \o y
      BY <2>1 DEF x, y
    <2>3. /\ Len(x \o y) = Len(x) + Len(y)
          /\ \A j \in 1..Len(y) : (x \o y)[Len(x) + j] = y[j]
      BY <2>2, JoinAt, SMTT(30)
    <2> QED
      BY <2>2, <2>3 DEF x, y
  <1> HIDE DEF from, size
  <1>6. 0 \in G
    BY <1>0
  <1>7. ASSUME NEW m \in 1..Len(ss), m - 1 \in G PROVE m \in G
    <2> SUFFICES ASSUME i <= m PROVE Holds(m)
      BY <1>2
    <2>1. CASE i = m
      <3>1. from + size <= Len(J(m))
        BY <1>4, <1>5, <2>1, SMTT(30)
      <3> QED
        BY <1>5, <2>1, <3>1
    <2>2. CASE i # m
      <3>1. i <= m - 1
        BY <1>0, <2>2, SMTT(30)
      <3>2. Holds(m - 1)
        BY <1>7, <3>1
      <3>3. J(m) = J(m - 1) \o ss[m] /\ J(m - 1) \in Seq(C) /\ ss[m] \in Seq(C)
        BY <1>1, <1>2
      <3>4. /\ Len(J(m - 1)) <= Len(J(m)) /\ Len(J(m)) \in Nat /\ Len(J(m - 1)) \in Nat
            /\ \A x \in 1..Len(J(m - 1)) : J(m)[x] = J(m - 1)[x]
        <4> DEFINE x == J(m - 1)
                   y == ss[m]
        <4> HIDE DEF x, y
        <4>1. x \in Seq(C) /\ y \in Seq(C) /\ J(m) = x \o y
          BY <3>3 DEF x, y
        <4>2. /\ Len(x) \in Nat /\ Len(y) \in Nat /\ Len(x \o y) = Len(x) + Len(y)
              /\ \A k \in 1..Len(x) : (x \o y)[k] = x[k]
          BY <4>1, JoinAt
        <4>3. Len(x) <= Len(x) + Len(y) /\ Len(x) + Len(y) \in Nat
          BY <4>2, SMTT(30)
        <4> QED
          BY <4>1, <4>2, <4>3 DEF x
      <3>5. \A j \in 1..size : from + j \in 1..Len(J(m - 1))
        BY <1>4, <3>2, <3>4, SMTT(30)
      <3>6. from + size <= Len(J(m))
        BY <1>4, <3>2, <3>4, SMTT(30)
      <3> QED
        BY <3>2, <3>4, <3>5, <3>6
    <2> QED
      BY <2>1, <2>2
  <1>8. Len(ss) \in G
    <2> HIDE DEF G
    <2> QED
      BY <1>0, <1>6, <1>7, UpTo
  <1>9. Holds(Len(ss)) /\ J(Len(ss)) \in Seq(C)
    BY <1>0, <1>1, <1>8
  <1>10. SubSeq(J(Len(ss)), from + 1, from + size) = ss[i]
    <2> DEFINE all == J(Len(ss))
               piece == ss[i]
    <2>1. /\ all \in Seq(C) /\ piece \in Seq(C) /\ size = Len(piece) /\ from + size <= Len(all)
          /\ \A j \in 1..size : all[from + j] = piece[j]
      BY <1>2, <1>9 DEF size
    <2> DEFINE a == from + 1
               b == from + size
               cut == SubSeq(all, a, b)
    <2> HIDE DEF all, piece
    <2>2. /\ a \in Int /\ b \in Int /\ b - a + 1 = size
          /\ (IF a <= b THEN b - a + 1 ELSE 0) = size
          /\ \A j \in 1..size : a + j - 1 = from + j
      BY <1>4, SMTT(30)
    <2>3. \A x \in a..b : all[x] \in C
      <3>1. Len(all) \in Nat /\ all \in [1..Len(all) -> C]
        BY <2>1, LenProperties
      <3>2. \A x \in a..b : x \in 1..Len(all)
        BY <1>4, <2>1, <3>1, SMTT(30)
      <3> QED
        BY <3>1, <3>2
    <2> HIDE DEF a, b
    <2>4. /\ cut \in Seq(C) /\ Len(cut) = (IF a <= b THEN b - a + 1 ELSE 0)
          /\ \A j \in 1..b - a + 1 : cut[j] = all[a + j - 1]
      BY <2>2, <2>3, SubSeqProperties, SMTT(30)
    <2> HIDE DEF cut
    <2>5. Len(cut) = Len(piece)
      BY <2>1, <2>2, <2>4
    <2>6. ASSUME NEW j \in 1..Len(cut) PROVE cut[j] = piece[j]
      <3>1. j \in 1..size
        BY <2>1, <2>5
      <3>2. cut[j] = all[a + j - 1]
        BY <2>2, <2>4, <3>1
      <3> QED
        BY <2>1, <2>2, <3>1, <3>2
    <2>7. cut = piece
      BY <2>1, <2>4, <2>5, <2>6, SeqEqual
    <2> QED
      BY <2>7 DEF all, piece, cut, a, b
  <1> QED
    BY <1>3, <1>4, <1>5, <1>9, <1>10 DEF J, from, size

-----------------------------------------------------------------------------
(* Sorting *)

(* R has the pairs of which the first has to stand before the second. *)
Sortable(R, A) ==
    /\ \A a, b \in A : <<a, b>> \notin R \/ <<b, a>> \notin R
    /\ \A a, b, c \in A : <<b, a>> \notin R /\ <<c, b>> \notin R => <<c, a>> \notin R

InOrder(p, n, s, R) ==
    /\ p \in Orders(n)
    /\ \A i, j \in 1..n : i < j => <<s[p[j]], s[p[i]]>> \notin R

(* Every list can be sorted: the next element is inserted before the first *)
(* that has to come after it.                                              *)
LEMMA SortExists ==
  ASSUME NEW A, NEW s \in Seq(A), NEW R, Sortable(R, A)
  PROVE  \E p : InOrder(p, Len(s), s, R)
  <1>0. Len(s) \in Nat /\ Len(s) \in 0..Len(s) /\ 0 \in 0..Len(s)
    BY SMTT(30)
  <1> DEFINE G == {n \in 0..Len(s) : \E p : InOrder(p, n, s, R)}
  <1>1. 0 \in G
    <2> DEFINE p == [k \in 1..0 |-> 0]
    <2>1. \A k \in 1..0 : FALSE
      BY SMTT(30)
    <2>2. p \in [1..0 -> 1..0]
      BY <2>1
    <2>3. InOrder(p, 0, s, R)
      BY <2>1, <2>2 DEF InOrder, Orders
    <2> QED
      BY <1>0, <2>3
  <1>2. ASSUME NEW n \in 1..Len(s), n - 1 \in G PROVE n \in G
    <2>1. PICK p : InOrder(p, n - 1, s, R)
      BY <1>2
    <2>2. n \in Nat /\ n \in 1..n /\ n - 1 \in Nat /\ n \in 0..Len(s)
      BY <1>0, SMTT(30)
    <2>3. /\ p \in [1..(n - 1) -> 1..(n - 1)]
          /\ \A k \in 1..(n - 1) : \E i \in 1..(n - 1) : p[i] = k
          /\ \A i, j \in 1..(n - 1) : i < j => <<s[p[j]], s[p[i]]>> \notin R
      BY <2>1 DEF InOrder, Orders
    <2>4. s[n] \in A /\ \A i \in 1..(n - 1) : s[p[i]] \in A
      <3>1. \A i \in 1..(n - 1) : p[i] \in 1..Len(s)
        BY <1>0, <2>2, <2>3, SMTT(30)
      <3> QED
        BY <3>1, SMTT(30)
    <2> DEFINE K == {k \in 1..n : k = n \/ <<s[n], s[p[k]]>> \in R}
    <2>5. n \in K /\ K \subseteq Nat
      BY <2>2, SMTT(30)
    <2>6. PICK k \in K : \A m \in K : k <= m
      BY <2>5, LeastNatural
    <2>7. /\ k \in 1..n
          /\ k # n => <<s[n], s[p[k]]>> \in R
          /\ \A i \in 1..n : i < k => i \in 1..(n - 1) /\ <<s[n], s[p[i]]>> \notin R
      <3>1. ASSUME NEW i \in 1..n, i < k PROVE i \in 1..(n - 1) /\ <<s[n], s[p[i]]>> \notin R
        <4>1. ~(k <= i)
          BY <2>5, <2>6, <3>1, SMTT(30)
        <4>2. i \notin K
          BY <2>6, <4>1
        <4>3. i \in 1..(n - 1)
          BY <2>2, <3>1, <4>2, SMTT(30)
        <4> QED
          BY <3>1, <4>2, <4>3
      <3> QED
        BY <2>6, <3>1
    <2> HIDE DEF K
    <2> DEFINE q == [i \in 1..n |-> IF i < k THEN p[i] ELSE IF i = k THEN n ELSE p[i - 1]]
    <2>8. /\ \A i \in 1..n : i < k => q[i] = p[i]
          /\ q[k] = n
          /\ \A i \in 1..n : k < i => i - 1 \in 1..(n - 1) /\ k <= i - 1 /\ q[i] = p[i - 1]
      <3>1. \A i \in 1..n : k < i => i - 1 \in 1..(n - 1) /\ k <= i - 1 /\ ~(i < k) /\ i # k
        BY <2>2, <2>7, SMTT(30)
      <3>2. ~(k < k)
        BY <2>7, SMTT(30)
      <3> QED
        BY <2>7, <3>1, <3>2
    <2>9. q \in [1..n -> 1..n]
      <3>1. \A i \in 1..(n - 1) : p[i] \in 1..n
        BY <2>2, <2>3, SMTT(30)
      <3>2. \A i \in 1..n : i < k \/ i = k \/ k < i
        BY <2>7, SMTT(30)
      <3>3. \A i \in 1..n : q[i] \in 1..n
        BY <2>2, <2>7, <2>8, <3>1, <3>2
      <3> QED
        BY <3>3
    <2> HIDE DEF q
    <2>10. ASSUME NEW m \in 1..n PROVE \E i \in 1..n : q[i] = m
      <3>1. CASE m = n
        BY <2>7, <2>8, <3>1
      <3>2. CASE m # n
        <4>1. m \in 1..(n - 1)
          BY <2>2, <3>2, SMTT(30)
        <4>2. PICK i \in 1..(n - 1) : p[i] = m
          BY <2>3, <4>1
        <4>3. i \in 1..n /\ i + 1 \in 1..n /\ i + 1 - 1 = i /\ (i < k \/ k < i + 1)
          BY <2>2, <2>7, SMTT(30)
        <4>4. CASE i < k
          BY <2>8, <4>2, <4>3, <4>4
        <4>5. CASE k < i + 1
          BY <2>8, <4>2, <4>3, <4>5, SMTT(30)
        <4> QED
          BY <4>3, <4>4, <4>5
      <3> QED
        BY <3>1, <3>2
    <2>11. ASSUME NEW i \in 1..n, NEW j \in 1..n, i < j PROVE <<s[q[j]], s[q[i]]>> \notin R
      <3>1. CASE j < k
        <4>1. i < k /\ i \in 1..(n - 1) /\ j \in 1..(n - 1)
          BY <2>2, <2>7, <2>11, <3>1, SMTT(30)
        <4> QED
          BY <2>3, <2>8, <2>11, <3>1, <4>1
      <3>2. CASE j = k
        <4>1. i < k
          BY <2>11, <3>2
        <4> QED
          BY <2>7, <2>8, <3>2, <4>1
      <3>3. CASE k < j
        <4> DEFINE c == j - 1
        <4>1. c \in 1..(n - 1) /\ k <= c /\ q[j] = p[c] /\ k # n /\ k \in 1..(n - 1)
          BY <2>2, <2>7, <2>8, <3>3, SMTT(30)
        <4>2. CASE i < k
          <5>1. i < c /\ i \in 1..(n - 1) /\ q[i] = p[i]
            BY <2>2, <2>7, <2>8, <2>11, <4>1, <4>2, SMTT(30)
          <5> QED
            BY <2>3, <4>1, <5>1
        <4>3. CASE i = k
          <5>1. <<s[n], s[p[k]]>> \in R
            BY <2>7, <4>1
          <5>2. <<s[p[k]], s[n]>> \notin R
            BY <2>4, <4>1, <5>1 DEF Sortable
          <5>3. <<s[p[c]], s[p[k]]>> \notin R
            <6>1. CASE c = k
              BY <2>4, <4>1, <6>1 DEF Sortable
            <6>2. CASE k < c
              BY <2>3, <4>1, <6>2
            <6> QED
              BY <2>7, <4>1, <6>1, <6>2, SMTT(30)
          <5>4. <<s[p[c]], s[n]>> \notin R
            BY <2>4, <4>1, <5>2, <5>3, SMTT(30) DEF Sortable
          <5> QED
            BY <2>8, <4>1, <4>3, <5>4
        <4>4. CASE k < i
          <5>1. i - 1 \in 1..(n - 1) /\ i - 1 < c /\ q[i] = p[i - 1]
            BY <2>2, <2>7, <2>8, <2>11, <4>1, <4>4, SMTT(30)
          <5> QED
            BY <2>3, <4>1, <5>1
        <4> QED
          BY <2>7, <4>2, <4>3, <4>4, SMTT(30)
      <3> QED
        BY <2>7, <3>1, <3>2, <3>3, SMTT(30)
    <2>12. InOrder(q, n, s, R)
      BY <2>9, <2>10, <2>11 DEF InOrder, Orders
    <2> QED
      BY <2>2, <2>12
  <1>3. Len(s) \in G
    <2> HIDE DEF G
    <2> QED
      BY <1>0, <1>1, <1>2, UpTo
  <1> QED
    BY <1>3

(* A list arranged by a permutation has the same elements. *)
LEMMA ArrangedFacts ==
  ASSUME NEW A, NEW s \in Seq(A), NEW R, NEW p, InOrder(p, Len(s), s, R), NEW t,
         t = [i \in 1..Len(s) |-> s[p[i]]]
  PROVE  /\ t \in Seq(A) /\ Len(t) = Len(s) /\ Range(t) = Range(s)
         /\ \A i, j \in 1..Len(t) : i < j => <<t[j], t[i]>> \notin R
  <1>1. /\ p \in [1..Len(s) -> 1..Len(s)]
        /\ \A k \in 1..Len(s) : \E i \in 1..Len(s) : p[i] = k
        /\ \A i, j \in 1..Len(s) : i < j => <<s[p[j]], s[p[i]]>> \notin R
    BY DEF InOrder, Orders
  <1>2. Len(s) \in Nat
    BY SMTT(30)
  <1>3. \A i \in 1..Len(s) : t[i] = s[p[i]] /\ s[p[i]] \in A
    BY <1>1, SMTT(30)
  <1>4. t \in [1..Len(s) -> A]
    BY <1>3
  <1>5. t \in Seq(A) /\ Len(t) = Len(s)
    BY <1>2, <1>4, SMTT(30)
  <1>6. Range(t) = {t[i] : i \in 1..Len(s)}
    BY <1>4 DEF Range
  <1>7. Range(s) = {s[i] : i \in 1..Len(s)}
    BY ListRange
  <1>8. Range(t) = Range(s)
    <2>1. ASSUME NEW x \in Range(t) PROVE x \in Range(s)
      BY <1>1, <1>3, <1>6, <1>7
    <2>2. ASSUME NEW x \in Range(s) PROVE x \in Range(t)
      <3>1. PICK k \in 1..Len(s) : x = s[k]
        BY <1>7, <2>2
      <3>2. PICK i \in 1..Len(s) : p[i] = k
        BY <1>1
      <3> QED
        BY <1>3, <1>6, <3>1, <3>2
    <2> QED
      BY <2>1, <2>2
  <1> QED
    BY <1>1, <1>3, <1>5, <1>8

(* A permutation takes no value twice. *)
LEMMA OrdersInjective ==
  ASSUME NEW n \in Nat, NEW p \in Orders(n)
  PROVE  \A i, j \in 1..n : p[i] = p[j] => i = j
  <1>1. p \in Surjection(1..n, 1..n)
    BY DEF Orders, Surjection
  <1>2. IsFiniteSet(1..n)
    BY FS_Interval, SMTT(30)
  <1>3. p \in Injection(1..n, 1..n)
    BY <1>1, <1>2, FS_SurjSameCardinalityImpliesInj
  <1> QED
    BY <1>3 DEF Injection, IsInjective

(* It cannot take the first k positions to fewer places, nor the last.     *)
LEMMA OrdersReach ==
  ASSUME NEW n \in Nat, NEW p \in Orders(n), NEW k \in 1..n
  PROVE  (\E i \in 1..k : k <= p[i]) /\ (\E i \in k..n : p[i] <= k)
  <1>1. p \in [1..n -> 1..n] /\ \A i, j \in 1..n : p[i] = p[j] => i = j
    BY OrdersInjective DEF Orders
  <1>2. /\ IsFiniteSet(1..k) /\ Cardinality(1..k) = k
        /\ IsFiniteSet(1..(k - 1)) /\ Cardinality(1..(k - 1)) = k - 1
        /\ IsFiniteSet(k..n) /\ Cardinality(k..n) = n - k + 1
        /\ IsFiniteSet((k + 1)..n) /\ Cardinality((k + 1)..n) = n - k
    <2>1. /\ 1 \in Int /\ k \in Int /\ k - 1 \in Int /\ k + 1 \in Int /\ n \in Int
      BY SMTT(30)
    <2>2. /\ (IF 1 > k THEN 0 ELSE k - 1 + 1) = k /\ (IF 1 > k - 1 THEN 0 ELSE k - 1 - 1 + 1) = k - 1
          /\ (IF k > n THEN 0 ELSE n - k + 1) = n - k + 1
          /\ (IF k + 1 > n THEN 0 ELSE n - (k + 1) + 1) = n - k
      BY SMTT(30)
    <2> QED
      BY <2>1, <2>2, FS_Interval
  <1>3. ASSUME \A i \in 1..k : ~(k <= p[i]) PROVE FALSE
    <2> DEFINE f == [i \in 1..k |-> p[i]]
    <2>1. \A i \in 1..k : i \in 1..n /\ p[i] \in 1..(k - 1)
      BY <1>1, <1>3, SMTT(30)
    <2>2. f \in [1..k -> 1..(k - 1)] /\ \A i \in 1..k : f[i] = p[i]
      BY <2>1
    <2> HIDE DEF f
    <2>3. Cardinality(1..(k - 1)) < Cardinality(1..k)
      BY <1>2, SMTT(30)
    <2>4. \E x, y \in 1..k : x # y /\ f[x] = f[y]
      <3> DEFINE S == 1..k
                 T == 1..(k - 1)
      <3>1. IsFiniteSet(S) /\ IsFiniteSet(T) /\ Cardinality(T) < Cardinality(S) /\ f \in [S -> T]
        BY <1>2, <2>2, <2>3
      <3> HIDE DEF S, T
      <3>2. \E x, y \in S : x # y /\ f[x] = f[y]
        BY <3>1, FS_PigeonHole
      <3> QED
        BY <3>2 DEF S
    <2> QED
      BY <1>1, <2>1, <2>2, <2>4
  <1>4. ASSUME \A i \in k..n : ~(p[i] <= k) PROVE FALSE
    <2> DEFINE f == [i \in k..n |-> p[i]]
    <2>1. \A i \in k..n : i \in 1..n /\ p[i] \in (k + 1)..n
      BY <1>1, <1>4, SMTT(30)
    <2>2. f \in [k..n -> (k + 1)..n] /\ \A i \in k..n : f[i] = p[i]
      BY <2>1
    <2> HIDE DEF f
    <2>3. Cardinality((k + 1)..n) < Cardinality(k..n)
      BY <1>2, SMTT(30)
    <2>4. \E x, y \in k..n : x # y /\ f[x] = f[y]
      <3> DEFINE S == k..n
                 T == (k + 1)..n
      <3>1. IsFiniteSet(S) /\ IsFiniteSet(T) /\ Cardinality(T) < Cardinality(S) /\ f \in [S -> T]
        BY <1>2, <2>2, <2>3
      <3> HIDE DEF S, T
      <3>2. \E x, y \in S : x # y /\ f[x] = f[y]
        BY <3>1, FS_PigeonHole
      <3> QED
        BY <3>2 DEF S
    <2> QED
      BY <1>1, <2>1, <2>2, <2>4
  <1> QED
    BY <1>3, <1>4

(* t is what std::sort makes of s. *)
Sorting(t, s, R) == \E p : InOrder(p, Len(s), s, R) /\ t = [i \in 1..Len(s) |-> s[p[i]]]

Total(R, A) == \A a, b \in A : a = b \/ <<a, b>> \in R \/ <<b, a>> \in R

Ordered(t, R) == \A i, j \in 1..Len(t) : i < j => <<t[j], t[i]>> \notin R

(* p tells where the elements of t stand in s. *)
Places(p, t, s) ==
    /\ p \in Orders(Len(s))
    /\ p \in [1..Len(s) -> 1..Len(s)]
    /\ \A i \in 1..Len(s) : t[i] = s[p[i]]
    /\ \A i, j \in 1..Len(s) : p[i] = p[j] => i = j

(* Sorting moves the elements about and leaves none out. *)
LEMMA SortingFacts ==
  ASSUME NEW A, NEW s \in Seq(A), NEW R, NEW t, Sorting(t, s, R)
  PROVE  /\ t \in Seq(A) /\ Len(t) = Len(s) /\ Range(t) = Range(s)
         /\ Ordered(t, R)
         /\ \E p : Places(p, t, s)
  <1>1. PICK p : InOrder(p, Len(s), s, R) /\ t = [i \in 1..Len(s) |-> s[p[i]]]
    BY DEF Sorting
  <1>2. Len(s) \in Nat
    BY SMTT(30)
  <1>3. p \in Orders(Len(s)) /\ p \in [1..Len(s) -> 1..Len(s)]
    BY <1>1 DEF InOrder, Orders
  <1>4. \A i, j \in 1..Len(s) : p[i] = p[j] => i = j
    BY <1>2, <1>3, OrdersInjective
  <1>5. /\ t \in Seq(A) /\ Len(t) = Len(s) /\ Range(t) = Range(s)
        /\ \A i, j \in 1..Len(t) : i < j => <<t[j], t[i]>> \notin R
    <2> DEFINE u == [i \in 1..Len(s) |-> s[p[i]]]
    <2>0. InOrder(p, Len(s), s, R) /\ u = [i \in 1..Len(s) |-> s[p[i]]] /\ t = u
      BY <1>1
    <2> HIDE DEF u
    <2>1. /\ u \in Seq(A) /\ Len(u) = Len(s) /\ Range(u) = Range(s)
          /\ \A i, j \in 1..Len(u) : i < j => <<u[j], u[i]>> \notin R
      BY <2>0, ArrangedFacts, SMTT(30)
    <2> QED
      BY <2>0, <2>1
  <1>6. \A i \in 1..Len(s) : t[i] = s[p[i]]
    BY <1>1
  <1> QED
    BY <1>3, <1>4, <1>5, <1>6 DEF Ordered, Places

(* A list in order is left as it is. *)
LEMMA SortingStays ==
  ASSUME NEW A, NEW s \in Seq(A), NEW R, Sortable(R, A), Total(R, A), Ordered(s, R),
         NEW t, Sorting(t, s, R)
  PROVE  t = s
  <1>1. PICK p : InOrder(p, Len(s), s, R) /\ t = [i \in 1..Len(s) |-> s[p[i]]]
    BY DEF Sorting
  <1>2. Len(s) \in Nat /\ \A i \in 1..Len(s) : s[i] \in A
    BY SMTT(30)
  <1>3. /\ p \in Orders(Len(s)) /\ p \in [1..Len(s) -> 1..Len(s)]
        /\ \A i, j \in 1..Len(s) : i < j => <<s[p[j]], s[p[i]]>> \notin R
    BY <1>1 DEF InOrder, Orders
  <1>4. \A a \in A : <<a, a>> \notin R
    BY DEF Sortable
  <1>5. ASSUME NEW i \in 1..Len(s), NEW j \in 1..Len(s), i <= j
        PROVE  <<s[j], s[i]>> \notin R /\ <<s[p[j]], s[p[i]]>> \notin R
    <2>1. i = j \/ i < j
      BY <1>5, SMTT(30)
    <2> QED
      BY <1>2, <1>3, <1>4, <2>1 DEF Ordered
  <1>6. ASSUME NEW k \in 1..Len(s) PROVE s[p[k]] = s[k]
    <2>1. PICK i \in 1..k : k <= p[i]
      BY <1>2, <1>3, OrdersReach
    <2>2. PICK j \in k..Len(s) : p[j] <= k
      BY <1>2, <1>3, OrdersReach
    <2>3. i \in 1..Len(s) /\ j \in 1..Len(s) /\ i <= k /\ k <= j
      BY <1>2, SMTT(30)
    <2>4. p[i] \in 1..Len(s) /\ p[j] \in 1..Len(s) /\ p[k] \in 1..Len(s)
      BY <1>3, <2>3
    <2>5. <<s[p[i]], s[k]>> \notin R /\ <<s[p[k]], s[p[i]]>> \notin R
      BY <1>5, <2>1, <2>3, <2>4
    <2>6. <<s[k], s[p[j]]>> \notin R /\ <<s[p[j]], s[p[k]]>> \notin R
      BY <1>5, <2>2, <2>3, <2>4
    <2>7. s[k] \in A /\ s[p[i]] \in A /\ s[p[j]] \in A /\ s[p[k]] \in A
      BY <1>2, <2>4
    <2>8. <<s[p[k]], s[k]>> \notin R /\ <<s[k], s[p[k]]>> \notin R
      BY <2>5, <2>6, <2>7 DEF Sortable
    <2> QED
      BY <2>7, <2>8 DEF Total
  <1>7. t \in Seq(A) /\ Len(t) = Len(s)
    BY ONLY s \in Seq(A), Sorting(t, s, R), SortingFacts
  <1>8. \A k \in 1..Len(s) : t[k] = s[k]
    BY <1>1, <1>6
  <1> QED
    BY <1>7, <1>8, SMTT(30)

-----------------------------------------------------------------------------
(* The order of sequences of numbers *)

(* The elements of such a sequence are numbers. *)
LEMMA NumbersInSeq ==
    ASSUME NEW p \in Seq(Int)
    PROVE  Len(p) \in Nat /\ \A i \in 1 .. Len(p) : p[i] \in Int
  BY SMTT(30)

(* No two sequences precede one another. *)
LEMMA PrecedesAsymmetric ==
    ASSUME NEW p \in Seq(Int), NEW q \in Seq(Int), Precedes(p, q)
    PROVE  ~Precedes(q, p)
<1>1. /\ Len(p) \in Nat /\ Len(q) \in Nat
      /\ \A i \in 1 .. Len(p) : p[i] \in Int
      /\ \A i \in 1 .. Len(q) : q[i] \in Int
  BY NumbersInSeq
<1>2. CASE /\ Len(p) < Len(q)
           /\ \A i \in 1 .. Len(p) : p[i] = q[i]
  BY <1>1, <1>2, SMTT(30) DEF Precedes
<1>3. CASE \E i \in 1 .. Len(p) :
              /\ i <= Len(q)
              /\ \A j \in 1 .. i - 1 : p[j] = q[j]
              /\ p[i] < q[i]
  <2>1. PICK i \in 1 .. Len(p) :
              /\ i <= Len(q)
              /\ \A j \in 1 .. i - 1 : p[j] = q[j]
              /\ p[i] < q[i]
    BY <1>3
  <2>2. ~(/\ Len(q) < Len(p)
          /\ \A k \in 1 .. Len(q) : q[k] = p[k])
    BY <1>1, <2>1, SMTT(30)
  <2>3. ASSUME NEW k \in 1 .. Len(q), k <= Len(p),
               \A j \in 1 .. k - 1 : q[j] = p[j], q[k] < p[k]
        PROVE  FALSE
    <3>1. CASE k < i
      BY <1>1, <2>1, <2>3, <3>1, SMTT(30)
    <3>2. CASE k = i
      BY <1>1, <2>1, <2>3, <3>2, SMTT(30)
    <3>3. CASE i < k
      BY <1>1, <2>1, <2>3, <3>3, SMTT(30)
    <3> QED BY <1>1, <2>1, <2>3, <3>1, <3>2, <3>3, SMTT(30)
  <2> QED BY <2>2, <2>3 DEF Precedes
<1> QED BY <1>2, <1>3 DEF Precedes

(* Of two sequences that differ one is less: the first element that        *)
(* differs decides, or the length.                                         *)
LEMMA PrecedesTotal ==
    ASSUME NEW p \in Seq(Int), NEW q \in Seq(Int), p # q
    PROVE  Precedes(p, q) \/ Precedes(q, p)
<1>1. /\ Len(p) \in Nat /\ Len(q) \in Nat
      /\ \A i \in 1 .. Len(p) : p[i] \in Int
      /\ \A i \in 1 .. Len(q) : q[i] \in Int
  BY NumbersInSeq
<1> DEFINE D == {i \in 1 .. Len(p) : i <= Len(q) /\ p[i] # q[i]}
<1>2. CASE D = {}
  <2>1. \A i \in 1 .. Len(p) : i <= Len(q) => p[i] = q[i]
    BY <1>2
  <2>2. CASE Len(p) < Len(q)
    <3>1. \A i \in 1 .. Len(p) : i <= Len(q)
      BY <1>1, <2>2, SMTT(30)
    <3> QED BY <2>1, <2>2, <3>1 DEF Precedes
  <2>3. CASE Len(q) < Len(p)
    <3>1. \A i \in 1 .. Len(q) : i \in 1 .. Len(p) /\ i <= Len(q)
      BY <1>1, <2>3, SMTT(30)
    <3> QED BY <2>1, <2>3, <3>1 DEF Precedes
  <2>4. CASE Len(p) = Len(q)
    <3>2. \A i \in 1 .. Len(p) : p[i] = q[i]
      BY <1>1, <2>1, <2>4, SMTT(30)
    <3>3. p = q
      BY <2>4, <3>2, SMTT(30)
    <3> QED BY <3>3
  <2> QED BY <1>1, <2>2, <2>3, <2>4, SMTT(30)
<1>3. CASE D # {}
  <2>1. D \subseteq Nat
    BY SMTT(30)
  <2>2. PICK i \in D : \A j \in D : i <= j
    BY <1>3, <2>1, LeastNatural
  <2>3. \A j \in 1 .. i - 1 : j \in 1 .. Len(p) /\ j \in 1 .. Len(q) /\ j <= Len(q) /\ ~(i <= j)
    BY <1>1, <2>2, SMTT(30)
  <2>4. \A j \in 1 .. i - 1 : p[j] = q[j]
    BY <2>2, <2>3
  <2>5. i \in 1 .. Len(p) /\ i \in 1 .. Len(q) /\ i <= Len(q) /\ i <= Len(p)
    BY <1>1, <2>2, SMTT(30)
  <2>6. p[i] < q[i] \/ q[i] < p[i]
    BY <1>1, <2>2, <2>5, SMTT(30)
  <2> QED BY <2>4, <2>5, <2>6 DEF Precedes
<1> QED BY <1>2, <1>3

(* The order is transitive. *)
LEMMA PrecedesTransitive ==
    ASSUME NEW p \in Seq(Int), NEW q \in Seq(Int), NEW r \in Seq(Int),
           Precedes(p, q), Precedes(q, r)
    PROVE  Precedes(p, r)
<1>1. /\ Len(p) \in Nat /\ Len(q) \in Nat /\ Len(r) \in Nat
      /\ \A i \in 1 .. Len(p) : p[i] \in Int
      /\ \A i \in 1 .. Len(q) : q[i] \in Int
      /\ \A i \in 1 .. Len(r) : r[i] \in Int
  BY NumbersInSeq
<1> DEFINE Shorter(x, y) == Len(x) < Len(y) /\ \A i \in 1 .. Len(x) : x[i] = y[i]
           Differ(x, y, i) == /\ i \in 1 .. Len(x) /\ i <= Len(y)
                              /\ \A j \in 1 .. i - 1 : x[j] = y[j]
                              /\ x[i] < y[i]
<1>2. Shorter(p, q) \/ \E i : Differ(p, q, i)
  BY DEF Precedes
<1>3. Shorter(q, r) \/ \E i : Differ(q, r, i)
  BY DEF Precedes
<1>4. Shorter(p, r) \/ (\E i : Differ(p, r, i)) => Precedes(p, r)
  BY DEF Precedes
<1>5. CASE Shorter(p, q) /\ Shorter(q, r)
  <2>1. Shorter(p, r)
    BY <1>1, <1>5, SMTT(30)
  <2> QED BY <1>4, <2>1
<1>6. ASSUME Shorter(p, q), NEW i, Differ(q, r, i) PROVE Precedes(p, r)
  <2>1. CASE i <= Len(p)
    <3>1. Differ(p, r, i)
      BY <1>1, <1>6, <2>1, SMTT(30)
    <3> QED BY <1>4, <3>1
  <2>2. CASE ~(i <= Len(p))
    <3>1. Shorter(p, r)
      BY <1>1, <1>6, <2>2, SMTT(30)
    <3> QED BY <1>4, <3>1
  <2> QED BY <2>1, <2>2
<1>7. ASSUME NEW i, Differ(p, q, i), Shorter(q, r) PROVE Precedes(p, r)
  <2>1. Differ(p, r, i)
    BY <1>1, <1>7, SMTT(30)
  <2> QED BY <1>4, <2>1
<1>8. ASSUME NEW i, Differ(p, q, i), NEW k, Differ(q, r, k) PROVE Precedes(p, r)
  <2>1. CASE i < k
    <3>1. Differ(p, r, i)
      BY <1>1, <1>8, <2>1, SMTT(30)
    <3> QED BY <1>4, <3>1
  <2>2. CASE i = k
    <3>1. Differ(p, r, i)
      BY <1>1, <1>8, <2>2, SMTT(30)
    <3> QED BY <1>4, <3>1
  <2>3. CASE k < i
    <3>1. Differ(p, r, k)
      BY <1>1, <1>8, <2>3, SMTT(30)
    <3> QED BY <1>4, <3>1
  <2>4. i \in Nat /\ k \in Nat
    BY <1>8, SMTT(30)
  <2> QED BY <2>1, <2>2, <2>3, <2>4, SMTT(30)
<1> QED BY <1>2, <1>3, <1>5, <1>6, <1>7, <1>8

(* The order as a list is sorted by it: what is not before stays behind. *)
LEMMA PrecedesOrder ==
  ASSUME NEW p \in Seq(Int), NEW q \in Seq(Int), NEW r \in Seq(Int)
  PROVE  /\ ~(Precedes(p, q) /\ Precedes(q, p))
         /\ p # q => Precedes(p, q) \/ Precedes(q, p)
         /\ ~Precedes(q, p) /\ ~Precedes(r, q) => ~Precedes(r, p)
  BY PrecedesAsymmetric, PrecedesTotal, PrecedesTransitive
=============================================================================
