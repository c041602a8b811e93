-------------------------- MODULE RuleScans_proofs --------------------------
(***************************************************************************)
(* What the sorts and scans of the rules compiler compute, for every list: *)
(* which paths can stand between a directory and something below it, what  *)
(* is left of a sorted list when duplicates or covered entries are         *)
(* dropped, where a lower bound is, and when the visit of the redirects    *)
(* finds a cycle.                                                          *)
(***************************************************************************)
EXTENDS RuleConflicts, Lists_proofs

(* Most leaves are first-order; those with arithmetic or records name the  *)
(* SMT solver.                                                             *)
USE Zenon

-----------------------------------------------------------------------------
ByteString == Seq(Byte)

(* The bytes of a path are numbers, so the order compares them as such.    *)
LEMMA BytesAreNumbers ==
    ASSUME NEW p \in ByteString
    PROVE  p \in Seq(Int) /\ Len(p) \in Nat /\ \A i \in 1 .. Len(p) : p[i] \in Nat
<1>1. p \in Seq(Byte)
  BY DEF ByteString
<1>2. Len(p) \in Nat
  BY <1>1, SMTT(30)
<1>3. ASSUME NEW i \in 1 .. Len(p) PROVE p[i] \in Nat
  <2>1. p[i] \in Byte
    BY <1>1, <1>3, SMTT(30)
  <2>2. \A b \in Byte : b \in Nat
    BY SMTT(30) DEF Byte
  <2> QED BY <2>1, <2>2, Zenon
<1>4. p \in Seq(Int)
  <2>1. \A i \in 1 .. Len(p) : p[i] \in Int
    BY <1>3, SMTT(30)
  <2>2. p = [i \in 1 .. Len(p) |-> p[i]]
    BY <1>1, SMTT(30)
  <2>3. p \in [1 .. Len(p) -> Int]
    BY <2>1, <2>2, Zenon
  <2> QED BY <1>2, <2>3, SMTT(30)
<1> QED BY <1>2, <1>3, <1>4

(* The byte order is a strict order: no two paths precede one another.     *)
LEMMA BytesLessAsymmetric ==
    ASSUME NEW p \in ByteString, NEW q \in ByteString, BytesLess(p, q)
    PROVE  ~BytesLess(q, p)
  BY BytesAreNumbers, PrecedesAsymmetric DEF BytesLess

(* Byte order is transitive. *)
LEMMA BytesLessTransitive ==
    ASSUME NEW p \in ByteString, NEW q \in ByteString, NEW r \in ByteString,
           BytesLess(p, q), BytesLess(q, r)
    PROVE  BytesLess(p, r)
  BY BytesAreNumbers, PrecedesTransitive DEF BytesLess

(* Only two kinds of path sort between a directory and a path below it:    *)
(* other paths below the directory, and paths that continue the            *)
(* directory's own name with a byte that sorts before '/' (a space, '-',   *)
(* '.' and the like).  This is the gap the neighbour tests of              *)
(* ValidateRedirects and ValidateDeny leave open, and it is the only one.  *)
THEOREM NeighbourGap ==
    ASSUME NEW dir \in ByteString, NEW path \in ByteString, NEW q \in ByteString,
           IsSameOrAncestor(dir, path),
           BytesLess(dir, q), BytesLess(q, path)
    PROVE  \/ IsSameOrAncestor(dir, q)
           \/ /\ IsBytePrefix(dir, q)
              /\ Len(q) > Len(dir)
              /\ q[Len(dir) + 1] < Slash
<1>1. /\ Len(dir) \in Nat /\ Len(path) \in Nat /\ Len(q) \in Nat
      /\ \A i \in 1 .. Len(dir) : dir[i] \in Nat
      /\ \A i \in 1 .. Len(path) : path[i] \in Nat
      /\ \A i \in 1 .. Len(q) : q[i] \in Nat
  BY BytesAreNumbers
<1>2. path # dir
  BY BytesLessAsymmetric
<1>3. /\ Len(path) > Len(dir)
      /\ \A i \in 1 .. Len(dir) : path[i] = dir[i]
      /\ path[Len(dir) + 1] = Slash
  BY <1>2 DEF IsSameOrAncestor
<1>4. /\ Len(dir) < Len(q)
      /\ \A i \in 1 .. Len(dir) : dir[i] = q[i]
  <2>1. ASSUME NEW i \in 1 .. Len(dir), i <= Len(q),
               \A j \in 1 .. i - 1 : dir[j] = q[j], dir[i] < q[i]
        PROVE  FALSE
    <3>1. i \in 1 .. Len(path) /\ path[i] < q[i]
      BY <1>1, <1>3, <2>1, SMTT(30)
    <3>2. \A j \in 1 .. i - 1 : path[j] = q[j]
      BY <1>1, <1>3, <2>1, SMTT(30)
    <3>3. BytesLess(path, q)
      BY <2>1, <3>1, <3>2 DEF BytesLess, Precedes
    <3> QED BY <3>3, BytesLessAsymmetric
  <2> QED BY <2>1 DEF BytesLess, Precedes
<1>5. q[Len(dir) + 1] <= Slash
  <2>1. SUFFICES ASSUME q[Len(dir) + 1] > Slash PROVE FALSE
    BY <1>1, <1>4, SMTT(30) DEF Slash
  <2>2. /\ Len(dir) + 1 \in 1 .. Len(path)
        /\ Len(dir) + 1 <= Len(q)
        /\ \A j \in 1 .. Len(dir) + 1 - 1 : path[j] = q[j]
        /\ path[Len(dir) + 1] < q[Len(dir) + 1]
    BY <1>1, <1>3, <1>4, <2>1, SMTT(30) DEF Slash
  <2>3. BytesLess(path, q)
    BY <2>2, SMTT(30) DEF BytesLess, Precedes
  <2> QED BY <2>3, BytesLessAsymmetric
<1>6. CASE q[Len(dir) + 1] = Slash
  BY <1>1, <1>4, <1>6 DEF IsSameOrAncestor
<1>7. CASE q[Len(dir) + 1] # Slash
  BY <1>1, <1>4, <1>5, <1>7, SMTT(30) DEF IsBytePrefix, Slash
<1> QED BY <1>6, <1>7

(* When no byte of a rule path sorts before '/', whatever stands between a *)
(* directory and a path below it is below the directory as well: then the  *)
(* neighbour of an overlapping pair overlaps too, and comparing neighbours *)
(* misses nothing.                                                         *)
THEOREM NeighboursSuffice ==
    ASSUME NEW dir \in ByteString, NEW path \in ByteString, NEW q \in ByteString,
           \A i \in 1 .. Len(q) : q[i] >= Slash,
           IsSameOrAncestor(dir, path),
           BytesLess(dir, q), BytesLess(q, path)
    PROVE  PathsOverlap(dir, q)
<1>1. /\ Len(dir) \in Nat /\ Len(q) \in Nat
      /\ \A i \in 1 .. Len(q) : q[i] \in Nat
  BY BytesAreNumbers
<1>2. CASE IsSameOrAncestor(dir, q)
  BY <1>2 DEF PathsOverlap
<1>3. CASE Len(q) > Len(dir) /\ q[Len(dir) + 1] < Slash
  BY <1>1, <1>3, SMTT(30) DEF Slash
<1> QED BY <1>2, <1>3, NeighbourGap

-----------------------------------------------------------------------------
(* The lists that the passes scan *)

(* A list in byte order, as std::sort leaves it: equal entries may follow  *)
(* one another.                                                            *)
Ascending(s) ==
    \A i, j \in 1 .. Len(s) : i < j => BytesLess(s[i], s[j]) \/ s[i] = s[j]

(* No byte of the list sorts before '/'. *)
PlainBytes(s) == \A i \in 1 .. Len(s) : \A b \in 1 .. Len(s[i]) : s[i][b] >= Slash

(* A directory sorts before whatever lies below it. *)
LEMMA AncestorFirst ==
    ASSUME NEW dir \in ByteString, NEW path \in ByteString,
           IsSameOrAncestor(dir, path), path # dir
    PROVE  BytesLess(dir, path)
<1>1. Len(dir) \in Nat /\ Len(path) \in Nat
  BY BytesAreNumbers
<1> QED BY <1>1 DEF IsSameOrAncestor, BytesLess, Precedes

(* The scan of ValidateRedirects: where any two sources of a sorted list   *)
(* overlap, there are two neighbours that do.                              *)
THEOREM NeighbourScan ==
    ASSUME NEW s \in Seq(ByteString), Ascending(s), PlainBytes(s),
           NEW i \in 1 .. Len(s), NEW j \in 1 .. Len(s), i < j,
           PathsOverlap(s[i], s[j])
    PROVE  \E k \in 2 .. Len(s) : PathsOverlap(s[k - 1], s[k])
<1>1. /\ Len(s) \in Nat /\ i + 1 \in 2 .. Len(s) /\ i + 1 \in 1 .. Len(s)
      /\ i + 1 - 1 = i /\ i < i + 1
      /\ i + 1 = j \/ i + 1 < j
  BY SMTT(30)
<1>2. s[i] \in ByteString /\ s[j] \in ByteString /\ s[i + 1] \in ByteString
  BY <1>1, SMTT(30)
<1>3. IsSameOrAncestor(s[i], s[j])
  <2>1. CASE s[i] = s[j]
    BY <2>1 DEF IsSameOrAncestor
  <2>2. CASE s[i] # s[j]
    <3>1. BytesLess(s[i], s[j])
      BY <2>2 DEF Ascending
    <3>2. ~BytesLess(s[j], s[i])
      BY <1>2, <3>1, BytesLessAsymmetric
    <3> QED BY <1>2, <2>2, <3>2, AncestorFirst DEF PathsOverlap
  <2> QED BY <2>1, <2>2
<1>4. BytesLess(s[i], s[i + 1]) \/ s[i] = s[i + 1]
  BY <1>1 DEF Ascending
<1>5. BytesLess(s[i + 1], s[j]) \/ s[i + 1] = s[j]
  BY <1>1 DEF Ascending
<1>6. \A b \in 1 .. Len(s[i + 1]) : s[i + 1][b] >= Slash
  BY <1>1 DEF PlainBytes
<1>7. PathsOverlap(s[i], s[i + 1])
  <2>1. CASE s[i] = s[i + 1]
    BY <2>1 DEF PathsOverlap, IsSameOrAncestor
  <2>2. CASE s[i + 1] = s[j]
    BY <2>2
  <2>3. CASE BytesLess(s[i], s[i + 1]) /\ BytesLess(s[i + 1], s[j])
    BY <1>2, <1>3, <1>6, <2>3, NeighboursSuffice
  <2> QED BY <1>4, <1>5, <2>1, <2>2, <2>3
<1> QED BY <1>1, <1>7, SMTT(30)

(* The scan of ValidateDeny: in a list of which no neighbours overlap, as  *)
(* folding leaves the deny list, an entry above a redirect's source is the *)
(* one before the lower bound of the source, or the source itself.         *)
THEOREM LowerBoundScan ==
    ASSUME NEW s \in Seq(ByteString), Ascending(s), PlainBytes(s),
           \A k \in 2 .. Len(s) : ~PathsOverlap(s[k - 1], s[k]),
           NEW source \in ByteString, NEW below \in 0 .. Len(s),
           \A i \in 1 .. Len(s) : i <= below <=> BytesLess(s[i], source),
           NEW i \in 1 .. Len(s), IsSameOrAncestor(s[i], source)
    PROVE  \/ i = below /\ IsSameOrAncestor(s[below], source)
           \/ i = below + 1 /\ s[below + 1] = source
<1>1. Len(s) \in Nat /\ below \in Nat /\ i \in Nat
  BY SMTT(30)
<1>2. s[i] \in ByteString
  BY SMTT(30)
<1>3. CASE source = s[i]
  <2>1. ~BytesLess(s[i], source)
    BY <1>2, <1>3, BytesLessAsymmetric
  <2>2. below < i
    BY <1>1, <2>1, SMTT(30)
  <2>3. CASE below + 1 < i
    <3>1. below + 1 \in 1 .. Len(s) /\ ~(below + 1 <= below)
      BY <1>1, <2>3, SMTT(30)
    <3>2. BytesLess(s[below + 1], s[i]) \/ s[below + 1] = s[i]
      BY <2>3, <3>1 DEF Ascending
    <3>3. ~BytesLess(s[below + 1], source)
      BY <3>1
    <3>4. PathsOverlap(s[below + 1], s[i])
      BY <1>3, <3>2, <3>3 DEF PathsOverlap, IsSameOrAncestor
    <3> QED BY <2>3, <3>1, <3>4, NeighbourScan
  <2> QED BY <1>1, <1>3, <2>2, <2>3, SMTT(30)
<1>4. CASE source # s[i]
  <2>1. BytesLess(s[i], source)
    BY <1>2, <1>4, AncestorFirst
  <2>2. i <= below
    BY <2>1
  <2>3. CASE i < below
    <3>1. below \in 1 .. Len(s) /\ below <= below
      BY <1>1, <2>3, SMTT(30)
    <3>2. BytesLess(s[below], source) /\ s[below] \in ByteString
      BY <3>1, SMTT(30)
    <3>3. BytesLess(s[i], s[below]) \/ s[i] = s[below]
      BY <2>3, <3>1 DEF Ascending
    <3>4. \A b \in 1 .. Len(s[below]) : s[below][b] >= Slash
      BY <3>1 DEF PlainBytes
    <3>5. PathsOverlap(s[i], s[below])
      <4>1. CASE s[i] = s[below]
        BY <4>1 DEF PathsOverlap, IsSameOrAncestor
      <4>2. CASE BytesLess(s[i], s[below])
        BY <1>2, <3>2, <3>4, <4>2, NeighboursSuffice
      <4> QED BY <3>3, <4>1, <4>2
    <3> QED BY <2>3, <3>1, <3>5, NeighbourScan
  <2> QED BY <1>1, <2>2, <2>3, SMTT(30)
<1> QED BY <1>3, <1>4

-----------------------------------------------------------------------------
(* The orders of the passes *)

(* Byte order as a list is sorted by it: what is not before stays behind. *)
LEMMA BytesOrder ==
  ASSUME NEW p \in ByteString, NEW q \in ByteString, NEW r \in ByteString
  PROVE  /\ ~(BytesLess(p, q) /\ BytesLess(q, p))
         /\ p # q => BytesLess(p, q) \/ BytesLess(q, p)
         /\ ~BytesLess(q, p) /\ ~BytesLess(r, q) => ~BytesLess(r, p)
  BY BytesAreNumbers, PrecedesOrder DEF BytesLess

(* The deny entries are sorted by their bytes. *)
LEMMA SortedBytes ==
  ASSUME NEW s \in Seq(ByteString)
  PROVE  LET t == Sort(s, BytesLess)
         IN  t \in Seq(ByteString) /\ Len(t) = Len(s) /\ Range(t) = Range(s) /\ Ascending(t)
  <1> DEFINE R == {x \in ByteString \X ByteString : BytesLess(x[1], x[2])}
             Fits(p) == \A i, j \in 1..Len(s) : i < j => ~BytesLess(s[p[j]], s[p[i]])
             order == CHOOSE p \in Orders(Len(s)) : Fits(p)
             t == [i \in 1..Len(s) |-> s[order[i]]]
  <1>1. \A a, b \in ByteString : <<a, b>> \in R <=> BytesLess(a, b)
    OBVIOUS
  <1>2. Sortable(R, ByteString)
    BY <1>1, BytesOrder DEF Sortable
  <1> HIDE DEF R
  <1>3. ASSUME NEW p \in Orders(Len(s)) PROVE \A i \in 1..Len(s) : s[p[i]] \in ByteString
    <2>1. p \in [1..Len(s) -> 1..Len(s)]
      BY <1>3 DEF Orders
    <2> QED
      BY <2>1, SMTT(30)
  <1>4. ASSUME NEW p \in Orders(Len(s)) PROVE Fits(p) <=> InOrder(p, Len(s), s, R)
    BY <1>1, <1>3, <1>4 DEF InOrder
  <1>5. PICK p : InOrder(p, Len(s), s, R)
    BY <1>2, SortExists
  <1>6. p \in Orders(Len(s)) /\ Fits(p)
    BY <1>4, <1>5 DEF InOrder
  <1>7. order \in Orders(Len(s)) /\ Fits(order)
    BY <1>6
  <1>8. Sort(s, BytesLess) = t
    BY DEF Sort
  <1> HIDE DEF order
  <1>9. InOrder(order, Len(s), s, R)
    BY <1>4, <1>7
  <1> HIDE DEF Fits
  <1>10. /\ t \in Seq(ByteString) /\ Len(t) = Len(s) /\ Range(t) = Range(s)
         /\ \A i, j \in 1..Len(t) : i < j => <<t[j], t[i]>> \notin R
    BY <1>9, ArrangedFacts, SMTT(30)
  <1> HIDE DEF t
  <1>11. Ascending(t)
    <2>1. ASSUME NEW i \in 1..Len(t), NEW j \in 1..Len(t), i < j
          PROVE  BytesLess(t[i], t[j]) \/ t[i] = t[j]
      <3>1. t[i] \in ByteString /\ t[j] \in ByteString
        BY <1>10, SMTT(30)
      <3>2. ~BytesLess(t[j], t[i])
        BY <1>1, <1>10, <2>1, <3>1
      <3> QED
        BY <3>1, <3>2, BytesOrder
    <2> QED
      BY <2>1 DEF Ascending
  <1> QED
    BY <1>8, <1>10, <1>11

ByteRedirect == [source : ByteString, target : ByteString]

(* Redirects are ordered by source, then by target. *)
LEMMA RedirectOrder ==
  ASSUME NEW r \in ByteRedirect, NEW s \in ByteRedirect, NEW t \in ByteRedirect
  PROVE  /\ ~(RedirectLess(r, s) /\ RedirectLess(s, r))
         /\ r # s => RedirectLess(r, s) \/ RedirectLess(s, r)
         /\ ~RedirectLess(s, r) /\ ~RedirectLess(t, s) => ~RedirectLess(t, r)
  <1>1. /\ r.source \in ByteString /\ s.source \in ByteString /\ t.source \in ByteString
        /\ r.target \in ByteString /\ s.target \in ByteString /\ t.target \in ByteString
        /\ r # s => r.source # s.source \/ r.target # s.target
    BY SMTT(30) DEF ByteRedirect
  <1>2. /\ ~(BytesLess(r.source, s.source) /\ BytesLess(s.source, r.source))
        /\ ~(BytesLess(r.target, s.target) /\ BytesLess(s.target, r.target))
        /\ ~BytesLess(r.source, r.source)
        /\ r.source # s.source => BytesLess(r.source, s.source) \/ BytesLess(s.source, r.source)
        /\ r.target # s.target => BytesLess(r.target, s.target) \/ BytesLess(s.target, r.target)
    BY <1>1, BytesOrder
  <1>3. /\ ~BytesLess(s.source, r.source) /\ ~BytesLess(t.source, s.source)
             => ~BytesLess(t.source, r.source)
        /\ ~BytesLess(s.target, r.target) /\ ~BytesLess(t.target, s.target)
             => ~BytesLess(t.target, r.target)
        /\ t.source = r.source /\ ~BytesLess(s.source, r.source) /\ ~BytesLess(t.source, s.source)
             => s.source = r.source
    BY <1>1, BytesOrder
  <1> QED
    BY <1>2, <1>3, <1>1 DEF RedirectLess

(* ValidateRedirects' sort puts the same redirects into that order. *)
LEMMA SortedRedirects ==
  ASSUME NEW s \in Seq(ByteRedirect)
  PROVE  LET t == Sort(s, RedirectLess)
         IN  /\ t \in Seq(ByteRedirect) /\ Len(t) = Len(s) /\ Range(t) = Range(s)
             /\ \A i, j \in 1..Len(t) : i < j => ~RedirectLess(t[j], t[i])
  <1> DEFINE R == {x \in ByteRedirect \X ByteRedirect : RedirectLess(x[1], x[2])}
             Fits(p) == \A i, j \in 1..Len(s) : i < j => ~RedirectLess(s[p[j]], s[p[i]])
             order == CHOOSE p \in Orders(Len(s)) : Fits(p)
             t == [i \in 1..Len(s) |-> s[order[i]]]
  <1>1. \A a, b \in ByteRedirect : <<a, b>> \in R <=> RedirectLess(a, b)
    OBVIOUS
  <1>2. Sortable(R, ByteRedirect)
    BY <1>1, RedirectOrder DEF Sortable
  <1> HIDE DEF R
  <1>3. ASSUME NEW p \in Orders(Len(s)) PROVE \A i \in 1..Len(s) : s[p[i]] \in ByteRedirect
    <2>1. p \in [1..Len(s) -> 1..Len(s)]
      BY <1>3 DEF Orders
    <2> QED
      BY <2>1, SMTT(30)
  <1>4. ASSUME NEW p \in Orders(Len(s)) PROVE Fits(p) <=> InOrder(p, Len(s), s, R)
    BY <1>1, <1>3, <1>4 DEF InOrder
  <1>5. PICK p : InOrder(p, Len(s), s, R)
    BY <1>2, SortExists
  <1>6. p \in Orders(Len(s)) /\ Fits(p)
    BY <1>4, <1>5 DEF InOrder
  <1>7. order \in Orders(Len(s)) /\ Fits(order)
    BY <1>6
  <1>8. Sort(s, RedirectLess) = t
    BY DEF Sort
  <1> HIDE DEF order
  <1>9. InOrder(order, Len(s), s, R)
    BY <1>4, <1>7
  <1> HIDE DEF Fits
  <1>10. /\ t \in Seq(ByteRedirect) /\ Len(t) = Len(s) /\ Range(t) = Range(s)
         /\ \A i, j \in 1..Len(t) : i < j => <<t[j], t[i]>> \notin R
    BY <1>9, ArrangedFacts, SMTT(30)
  <1> HIDE DEF t
  <1>11. ASSUME NEW i \in 1..Len(t), NEW j \in 1..Len(t), i < j
         PROVE  ~RedirectLess(t[j], t[i])
    <2>1. t[i] \in ByteRedirect /\ t[j] \in ByteRedirect
      BY <1>10, SMTT(30)
    <2> QED
      BY <1>1, <1>10, <1>11, <2>1
  <1> QED
    BY <1>8, <1>10, <1>11

ByteRule == [action : {"deny", "redirect"}, visible : ByteString, backing : ByteString]

(* The depth of a path is a number. *)
LEMMA DepthIsNatural ==
  ASSUME NEW p \in ByteString
  PROVE  Depth(p) \in Nat
  <1>1. Len(p) \in Nat
    BY BytesAreNumbers
  <1>2. IsFiniteSet(1 .. Len(p))
    BY <1>1, FS_Interval, SMTT(30)
  <1>3. Slashes(p) \subseteq 1 .. Len(p)
    BY DEF Slashes
  <1>4. Cardinality(Slashes(p)) \in Nat
    BY <1>2, <1>3, FS_Subset, FS_CardinalityType
  <1> QED
    BY <1>4, SMTT(30) DEF Depth

(* The rules of the plan are ordered by stage, depth and path. *)
LEMMA PlanOrder ==
  ASSUME NEW r \in ByteRule, NEW s \in ByteRule, NEW t \in ByteRule
  PROVE  /\ ~(PlanLess(r, s) /\ PlanLess(s, r))
         /\ ~PlanLess(s, r) /\ ~PlanLess(t, s) => ~PlanLess(t, r)
  <1>1. /\ r.visible \in ByteString /\ s.visible \in ByteString /\ t.visible \in ByteString
        /\ r.backing \in ByteString /\ s.backing \in ByteString /\ t.backing \in ByteString
    BY DEF ByteRule
  <1>2. /\ ~(BytesLess(r.visible, s.visible) /\ BytesLess(s.visible, r.visible))
        /\ ~(BytesLess(r.backing, s.backing) /\ BytesLess(s.backing, r.backing))
        /\ ~BytesLess(r.visible, r.visible)
    BY <1>1, BytesOrder
  <1>3. /\ ~BytesLess(s.visible, r.visible) /\ ~BytesLess(t.visible, s.visible)
             => ~BytesLess(t.visible, r.visible)
        /\ ~BytesLess(s.backing, r.backing) /\ ~BytesLess(t.backing, s.backing)
             => ~BytesLess(t.backing, r.backing)
        /\ t.visible = r.visible /\ ~BytesLess(s.visible, r.visible) /\ ~BytesLess(t.visible, s.visible)
             => s.visible = r.visible
    BY <1>1, BytesOrder
  <1>4. MountStage(r) \in Nat /\ MountStage(s) \in Nat /\ MountStage(t) \in Nat
    BY DEF MountStage
  <1>5. Depth(r.visible) \in Nat /\ Depth(s.visible) \in Nat /\ Depth(t.visible) \in Nat
    BY <1>1, DepthIsNatural
  <1> QED
    BY <1>2, <1>3, <1>4, <1>5, SMTT(30) DEF PlanLess

(* The encoder's sort loses no rule and adds none. *)
LEMMA SortedPlan ==
  ASSUME NEW s \in Seq(ByteRule)
  PROVE  LET t == Sort(s, PlanLess)
         IN  t \in Seq(ByteRule) /\ Len(t) = Len(s) /\ Range(t) = Range(s)
  <1> DEFINE R == {x \in ByteRule \X ByteRule : PlanLess(x[1], x[2])}
             Fits(p) == \A i, j \in 1..Len(s) : i < j => ~PlanLess(s[p[j]], s[p[i]])
             order == CHOOSE p \in Orders(Len(s)) : Fits(p)
             t == [i \in 1..Len(s) |-> s[order[i]]]
  <1>1. \A a, b \in ByteRule : <<a, b>> \in R <=> PlanLess(a, b)
    OBVIOUS
  <1>2. Sortable(R, ByteRule)
    BY <1>1, PlanOrder DEF Sortable
  <1> HIDE DEF R
  <1>3. ASSUME NEW p \in Orders(Len(s)) PROVE \A i \in 1..Len(s) : s[p[i]] \in ByteRule
    <2>1. p \in [1..Len(s) -> 1..Len(s)]
      BY <1>3 DEF Orders
    <2> QED
      BY <2>1, SMTT(30)
  <1>4. ASSUME NEW p \in Orders(Len(s)) PROVE Fits(p) <=> InOrder(p, Len(s), s, R)
    BY <1>1, <1>3, <1>4 DEF InOrder
  <1>5. PICK p : InOrder(p, Len(s), s, R)
    BY <1>2, SortExists
  <1>6. p \in Orders(Len(s)) /\ Fits(p)
    BY <1>4, <1>5 DEF InOrder
  <1>7. order \in Orders(Len(s)) /\ Fits(order)
    BY <1>6
  <1>8. Sort(s, PlanLess) = t
    BY DEF Sort
  <1> HIDE DEF order
  <1>9. InOrder(order, Len(s), s, R)
    BY <1>4, <1>7
  <1> HIDE DEF Fits
  <1>10. t \in Seq(ByteRule) /\ Len(t) = Len(s) /\ Range(t) = Range(s)
    BY <1>9, ArrangedFacts, SMTT(30)
  <1> QED
    BY <1>8, <1>10

(* Pick has the elements at the positions in I. *)
LEMMA RangeOfPick ==
  ASSUME NEW A, NEW s \in Seq(A), NEW I
  PROVE  /\ Pick(s, I) \in Seq(A)
         /\ \A x : x \in Range(Pick(s, I)) <=> \E i \in 1..Len(s) : i \in I /\ x = s[i]
  <1> DEFINE t == Pick(s, I)
  <1>1. t \in Seq(A)
    BY PickFacts
  <1>2. PICK e : Embeds(e, t, s, I)
    BY PickFacts
  <1> HIDE DEF t
  <1>3. Range(t) = {t[k] : k \in 1..Len(t)}
    BY <1>1, ListRange
  <1>4. ASSUME NEW x \in Range(t) PROVE \E i \in 1..Len(s) : i \in I /\ x = s[i]
    <2>1. PICK k \in 1..Len(t) : x = t[k]
      BY <1>3, <1>4
    <2>2. e[k] \in 1..Len(s) /\ e[k] \in I /\ t[k] = s[e[k]]
      BY <1>2 DEF Embeds
    <2> QED
      BY <2>1, <2>2
  <1>5. ASSUME NEW i \in 1..Len(s), i \in I PROVE s[i] \in Range(t)
    <2>1. PICK k \in 1..Len(t) : e[k] = i
      BY <1>2, <1>5 DEF Embeds
    <2>2. t[k] = s[i]
      BY <1>2, <2>1 DEF Embeds
    <2> QED
      BY <1>3, <2>2
  <1> QED
    BY <1>1, <1>4, <1>5 DEF t

(* std::unique on the sorted redirects keeps each of them once. *)
LEMMA DropFacts ==
  ASSUME NEW s \in Seq(ByteRedirect),
         \A i, j \in 1..Len(s) : i < j => ~RedirectLess(s[j], s[i])
  PROVE  LET u == DropDuplicates(s)
         IN  /\ u \in Seq(ByteRedirect) /\ Range(u) = Range(s)
             /\ \A i, j \in 1..Len(u) : i < j => RedirectLess(u[i], u[j])
  <1> DEFINE I == DOMAIN s \ Repeats(s)
             u == Pick(s, I)
  <1>0. DOMAIN s = 1..Len(s) /\ Len(s) \in Nat /\ Range(s) = {s[i] : i \in 1..Len(s)}
    BY ListRange
  <1>d. \A i \in 1..Len(s) : s[i] \in ByteRedirect
    BY SMTT(30)
  <1>1. \A i \in 1..Len(s) : i \in I <=> ~(i > 1 /\ s[i] = s[i - 1])
    BY <1>0 DEF Repeats
  <1> HIDE DEF I
  <1>2. u \in Seq(ByteRedirect)
    BY PickFacts
  <1>r. \A x : x \in Range(u) <=> \E i \in 1..Len(s) : i \in I /\ x = s[i]
    BY RangeOfPick, SMTT(30)
  <1>3. PICK e : Embeds(e, u, s, I)
    BY PickFacts
  <1>u. u = DropDuplicates(s)
    BY DEF DropDuplicates, I
  <1> HIDE DEF u
  <1>4. ASSUME NEW x \in Range(s) PROVE x \in Range(u)
    <2> DEFINE S == {i \in 1..Len(s) : s[i] = x}
    <2>1. S # {} /\ S \subseteq Nat
      BY <1>0, <1>4, SMTT(30)
    <2>2. PICK m \in S : \A n \in S : m <= n
      BY <2>1, LeastNatural
    <2>3. m \in 1..Len(s) /\ s[m] = x
      BY <2>2
    <2>4. m > 1 => m - 1 \in 1..Len(s) /\ ~(m <= m - 1)
      BY <1>0, <2>3, SMTT(30)
    <2>5. ~(m > 1 /\ s[m] = s[m - 1])
      BY <2>2, <2>3, <2>4
    <2> QED
      BY <1>1, <1>r, <2>3, <2>5
  <1>5. ASSUME NEW x \in Range(u) PROVE x \in Range(s)
    BY <1>0, <1>r, <1>5
  <1>6. ASSUME NEW i \in 1..Len(u), NEW j \in 1..Len(u), i < j
        PROVE  RedirectLess(u[i], u[j])
    <2> DEFINE m == e[i]
               n == e[j]
    <2>1. /\ m \in 1..Len(s) /\ n \in 1..Len(s) /\ m < n /\ n \in I
          /\ u[i] = s[m] /\ u[j] = s[n]
      BY <1>3, <1>6 DEF Embeds
    <2> HIDE DEF m, n
    <2>2. n - 1 \in 1..Len(s) /\ n > 1 /\ (n - 1 = m \/ m < n - 1) /\ n - 1 < n
      BY <1>0, <2>1, SMTT(30)
    <2> DEFINE k == n - 1
    <2>3. s[n] # s[k]
      BY <1>1, <2>1, <2>2
    <2>k. k \in 1..Len(s) /\ k < n /\ (k = m \/ m < k)
      BY <2>2
    <2> HIDE DEF k
    <2>4. s[m] \in ByteRedirect /\ s[n] \in ByteRedirect /\ s[k] \in ByteRedirect
      BY <1>d, <2>1, <2>k
    <2>5. ~RedirectLess(s[n], s[m]) /\ ~RedirectLess(s[n], s[k])
      BY <2>1, <2>k
    <2>6. s[k] = s[m] \/ ~RedirectLess(s[k], s[m])
      BY <2>1, <2>k
    <2>7. s[m] # s[n]
      BY <2>3, <2>4, <2>5, <2>6, RedirectOrder
    <2> QED
      BY <2>1, <2>4, <2>5, <2>7, RedirectOrder
  <1> QED
    BY <1>2, <1>4, <1>5, <1>6, <1>u

-----------------------------------------------------------------------------
(* Diagnostics *)

(* A list of one code repeated has that code, if it has any. *)
LEMMA CodesForFacts ==
  ASSUME NEW A, NEW s \in Seq(A), NEW I, NEW code \in Codes
  PROVE  LET cs == CodesFor(s, I, code)
         IN  /\ cs \in Seq(Codes) /\ Range(cs) \subseteq {code}
             /\ Range(cs) # {} <=> \E i \in 1..Len(s) : i \in I
  <1> DEFINE t == Pick(s, I)
             cs == [i \in 1..Len(t) |-> code]
  <1>1. t \in Seq(A) /\ \A x : x \in Range(t) <=> \E i \in 1..Len(s) : i \in I /\ x = s[i]
    BY RangeOfPick, SMTT(30)
  <1>2. cs = CodesFor(s, I, code)
    BY DEF CodesFor
  <1> HIDE DEF t
  <1>3. Len(t) \in Nat /\ Range(t) = {t[k] : k \in 1..Len(t)}
    BY <1>1, ListRange
  <1>4. cs \in Seq(Codes)
    BY <1>3, SMTT(30)
  <1>5. Range(cs) = {cs[i] : i \in 1..Len(t)}
    BY DEF Range
  <1>6. Range(cs) \subseteq {code}
    BY <1>5
  <1>7. Range(cs) # {} <=> \E k \in 1..Len(t) : TRUE
    BY <1>5
  <1>8. (\E k \in 1..Len(t) : TRUE) <=> \E x : x \in Range(t)
    BY <1>3
  <1> QED
    BY <1>1, <1>2, <1>4, <1>6, <1>7, <1>8

(* What a pass reports is kept up to the limit: nothing kept before is     *)
(* lost, and nothing is dropped while the list is below the limit.         *)
LEMMA AddDiagnosticFacts ==
  ASSUME NEW kept \in Seq(Codes), NEW codes \in Seq(Codes)
  PROVE  LET d == AddDiagnostic(kept, codes)
         IN  /\ d \in Seq(Codes) /\ Len(d) <= MaxDiagnostics
             /\ Range(d) \subseteq Range(kept) \cup Range(codes)
             /\ Len(kept) <= MaxDiagnostics => Range(kept) \subseteq Range(d)
             /\ Len(d) < MaxDiagnostics => Len(kept) < MaxDiagnostics /\ Range(codes) \subseteq Range(d)
             /\ kept = << >> /\ codes # << >> => \E c \in Range(codes) : c \in Range(d)
  <1> DEFINE all == kept \o codes
             n == IF Len(all) < MaxDiagnostics THEN Len(all) ELSE MaxDiagnostics
             d == SubSeq(all, 1, n)
  <1>1. /\ all \in Seq(Codes) /\ Len(all) = Len(kept) + Len(codes)
        /\ Range(all) = Range(kept) \cup Range(codes)
    BY RangeOfJoin, SMTT(30)
  <1>2. Len(kept) \in Nat /\ Len(codes) \in Nat /\ MaxDiagnostics \in Nat /\ MaxDiagnostics # 0
    BY SectionAssumption, SMTT(30)
  <1>3. d = AddDiagnostic(kept, codes)
    BY DEF AddDiagnostic
  <1>k. \A i \in 1..Len(kept) : all[i] = kept[i]
    BY SMTT(30)
  <1>c. Range(kept) = {kept[i] : i \in 1..Len(kept)} /\ Range(codes) = {codes[i] : i \in 1..Len(codes)}
    BY ListRange
  <1>e. kept = << >> => all = codes /\ Len(kept) = 0
    BY SMTT(30)
  <1>f. codes # << >> => Len(codes) # 0
    BY SMTT(30)
  <1> HIDE DEF all
  <1>4. n \in 0..Len(all) /\ n <= MaxDiagnostics /\ (n < MaxDiagnostics => n = Len(all))
    BY <1>1, <1>2, SMTT(30)
  <1>5. d \in Seq(Codes) /\ Len(d) = n /\ \A i \in 1..n : d[i] = all[i] /\ i \in 1..Len(all)
    BY <1>1, <1>4, SMTT(30)
  <1> HIDE DEF d
  <1>6. Range(d) = {d[i] : i \in 1..n} /\ Range(all) = {all[i] : i \in 1..Len(all)}
    BY <1>1, <1>5, ListRange, ZenonT(30)
  <1>7. Range(d) \subseteq Range(all)
    BY <1>5, <1>6
  <1>8. ASSUME Len(kept) <= MaxDiagnostics PROVE Range(kept) \subseteq Range(d)
    <2>1. \A i \in 1..Len(kept) : i \in 1..n
      BY <1>1, <1>2, <1>8, SMTT(30)
    <2> HIDE DEF n
    <2>2. \A i \in 1..Len(kept) : d[i] = kept[i]
      BY <1>5, <1>k, <2>1
    <2> QED
      BY <1>6, <1>c, <2>1, <2>2
  <1>9. ASSUME n < MaxDiagnostics
        PROVE  Len(kept) < MaxDiagnostics /\ Range(codes) \subseteq Range(d)
    <2>1. n = Len(all) /\ Len(kept) < MaxDiagnostics
      BY <1>1, <1>2, <1>4, <1>9, SMTT(30)
    <2> HIDE DEF n
    <2>2. Range(d) = Range(all)
      BY <1>5, <1>6, <2>1
    <2> QED
      BY <1>1, <2>1, <2>2
  <1>10. ASSUME kept = << >>, codes # << >> PROVE \E c \in Range(codes) : c \in Range(d)
    <2>1. all = codes /\ Len(all) # 0 /\ 1 \in 1..Len(codes)
      BY <1>1, <1>2, <1>e, <1>f, <1>10, SMTT(30)
    <2>2. 1 \in 1..n
      BY <1>1, <1>2, <2>1, SMTT(30)
    <2> HIDE DEF n
    <2>3. d[1] = codes[1]
      BY <1>5, <2>1, <2>2
    <2>4. d[1] \in Range(d) /\ codes[1] \in Range(codes)
      BY <1>6, <1>c, <2>1, <2>2
    <2> QED
      BY <2>3, <2>4
  <1> HIDE DEF n
  <1> QED
    BY <1>1, <1>3, <1>4, <1>5, <1>7, <1>8, <1>9, <1>10

(* An error is a code of the list that is no warning. *)
LEMMA ErrorsInRange ==
  ASSUME NEW d \in Seq(Codes)
  PROVE  HasErrors(d) <=> \E c \in Range(d) : c \notin Warnings
  BY DEF HasErrors, Range

-----------------------------------------------------------------------------
(* Containment *)

(* The byte test of the code decides containment. *)
LEMMA InsideIsAncestor ==
  ASSUME NEW d \in ByteString, NEW p \in ByteString
  PROVE  Inside(d, p) <=> IsSameOrAncestor(d, p)
  <1>1. d \in Seq(Byte) /\ p \in Seq(Byte) /\ Slash \in Byte
    BY SMTT(30) DEF ByteString, Slash, Byte
  <1>2. Len(d) \in Nat /\ Len(p) \in Nat
    BY <1>1, SMTT(30)
  <1> DEFINE a == Append(d, Slash)
             b == SubSeq(p, 1, Len(d) + 1)
  <1>3. ASSUME Len(p) > Len(d)
        PROVE  b = a <=> (\A i \in 1..Len(d) : p[i] = d[i]) /\ p[Len(d) + 1] = Slash
    <2>1. a \in Seq(Byte) /\ Len(a) = Len(d) + 1 /\ a[Len(d) + 1] = Slash
          /\ \A i \in 1..Len(d) : a[i] = d[i]
      BY <1>1, SMTT(30)
    <2>2. Len(d) + 1 \in 1..Len(p)
      BY <1>2, <1>3, SMTT(30)
    <2>3. b \in Seq(Byte) /\ Len(b) = Len(d) + 1 /\ \A i \in 1..(Len(d) + 1) : b[i] = p[i]
      BY <1>1, <1>2, <2>2, SMTT(30)
    <2> HIDE DEF a, b
    <2>4. /\ \A i \in 1..(Len(d) + 1) : i \in 1..Len(d) \/ i = Len(d) + 1
          /\ \A i \in 1..Len(d) : i \in 1..(Len(d) + 1)
          /\ Len(d) + 1 \in 1..(Len(d) + 1)
      BY <1>2, SMTT(30)
    <2>5. b = a <=> \A i \in 1..(Len(d) + 1) : b[i] = a[i]
      BY <2>1, <2>3, SMTT(30)
    <2> QED
      BY <2>1, <2>3, <2>4, <2>5
  <1> QED
    BY <1>3 DEF Inside, IsSameOrAncestor

(* What lies below an entry below another lies below that one. *)
LEMMA AncestorTransitive ==
  ASSUME NEW p \in ByteString, NEW q \in ByteString, NEW r \in ByteString,
         IsSameOrAncestor(p, q), IsSameOrAncestor(q, r)
  PROVE  IsSameOrAncestor(p, r)
  <1>1. Len(p) \in Nat /\ Len(q) \in Nat /\ Len(r) \in Nat
    BY BytesAreNumbers
  <1>2. CASE p = q \/ q = r
    BY <1>2
  <1>3. CASE p # q /\ q # r
    <2>1. /\ Len(q) > Len(p) /\ (\A i \in 1..Len(p) : q[i] = p[i]) /\ q[Len(p) + 1] = Slash
          /\ Len(r) > Len(q) /\ (\A i \in 1..Len(q) : r[i] = q[i])
      BY <1>3 DEF IsSameOrAncestor
    <2>2. /\ Len(r) > Len(p) /\ Len(p) + 1 \in 1..Len(q)
          /\ \A i \in 1..Len(p) : i \in 1..Len(q)
      BY <1>1, <2>1, SMTT(30)
    <2>3. (\A i \in 1..Len(p) : r[i] = p[i]) /\ r[Len(p) + 1] = Slash
      BY <2>1, <2>2
    <2> QED
      BY <2>2, <2>3 DEF IsSameOrAncestor
  <1> QED
    BY <1>2, <1>3

(* FoldDeny computes what its recursion says. *)
LEMMA FoldUnfolds ==
  ASSUME NEW A, NEW s \in Seq(A)
  PROVE  \E p \in [0..Len(s) -> Seq(A)] :
            /\ FoldDeny(s) = p[Len(s)]
            /\ p[0] = << >>
            /\ \A k \in 1..Len(s) :
                  p[k] = IF /\ Len(p[k - 1]) > 0
                            /\ IsSameOrAncestor(p[k - 1][Len(p[k - 1])], s[k])
                         THEN p[k - 1] ELSE Append(p[k - 1], s[k])
  <1> DEFINE Fold(x, a) == IF Len(x) > 0 /\ IsSameOrAncestor(x[Len(x)], a)
                           THEN x ELSE Append(x, a)
             Eq(g) == g = [n \in 0..Len(s) |-> IF n = 0 THEN << >> ELSE Fold(g[n - 1], s[n])]
             p == CHOOSE g : Eq(g)
             next == [k \in 1..Len(s) |-> [x \in Seq(A) |-> Fold(x, s[k])]]
  <1>0. Len(s) \in Nat /\ Len(s) \in 0..Len(s) /\ 0 \in 0..Len(s) /\ << >> \in Seq(A)
    BY SMTT(30)
  <1>1. ASSUME NEW k \in 1..Len(s)
        PROVE  k \in 0..Len(s) /\ k - 1 \in 0..Len(s) /\ k # 0 /\ s[k] \in A
    BY <1>1, SMTT(30)
  <1>7. FoldDeny(s) = p[Len(s)]
    BY DEF FoldDeny
  <1>f. ASSUME NEW x \in Seq(A), NEW a \in A PROVE Fold(x, a) \in Seq(A)
    BY SMTT(30)
  <1>u. \A x, a : Fold(x, a) = IF Len(x) > 0 /\ IsSameOrAncestor(x[Len(x)], a)
                               THEN x ELSE Append(x, a)
    OBVIOUS
  <1> HIDE DEF Fold
  <1>2. ASSUME NEW k \in 1..Len(s), NEW x \in Seq(A)
        PROVE  next[k][x] = Fold(x, s[k])
    BY <1>2
  <1>3. Recursive(Seq(A), Len(s), << >>, next)
    <2>1. ASSUME NEW k \in 1..Len(s) PROVE next[k] \in [Seq(A) -> Seq(A)]
      <3>1. \A x \in Seq(A) : Fold(x, s[k]) \in Seq(A)
        BY <1>1, <1>f
      <3> QED
        BY <3>1
    <2>2. next \in [1..Len(s) -> [Seq(A) -> Seq(A)]]
      BY <2>1
    <2> QED
      BY <1>0, <2>2 DEF Recursive
  <1> HIDE DEF next
  <1>4. PICK g : Solution(g, Seq(A), Len(s), << >>, next)
    BY <1>0, <1>3, Recursion
  <1>5. Eq(g)
    <2>0. /\ g \in [0..Len(s) -> Seq(A)] /\ g[0] = << >>
          /\ \A k \in 1..Len(s) : g[k] = next[k][g[k - 1]]
      BY <1>4 DEF Solution
    <2>1. ASSUME NEW k \in 0..Len(s), k # 0 PROVE g[k] = Fold(g[k - 1], s[k])
      <3>1. k \in 1..Len(s)
        BY <2>1, SMTT(30)
      <3>2. g[k - 1] \in Seq(A)
        BY <1>1, <2>0, <3>1
      <3> QED
        BY <1>2, <2>0, <3>1, <3>2
    <2> QED
      BY <2>0, <2>1
  <1>6. Eq(p)
    BY <1>5
  <1> HIDE DEF p
  <1>8. /\ DOMAIN p = 0..Len(s) /\ p = [n \in 0..Len(s) |-> p[n]] /\ p[0] = << >>
        /\ \A k \in 1..Len(s) : p[k] = Fold(p[k - 1], s[k])
    <2>1. DOMAIN p = 0..Len(s)
      BY <1>6
    <2>2. p[0] = << >>
      BY <1>0, <1>6
    <2>3. ASSUME NEW k \in 1..Len(s) PROVE p[k] = Fold(p[k - 1], s[k])
      BY <1>1, <1>6, <2>3
    <2> QED
      BY <1>6, <2>1, <2>2, <2>3
  <1>9. p \in [0..Len(s) -> Seq(A)]
    <2> DEFINE G == {k \in 0..Len(s) : p[k] \in Seq(A)}
    <2>1. 0 \in G
      BY <1>0, <1>8
    <2>2. ASSUME NEW k \in 1..Len(s), k - 1 \in G PROVE k \in G
      <3>1. Fold(p[k - 1], s[k]) \in Seq(A)
        BY <1>1, <1>f, <2>2
      <3> QED
        BY <1>1, <1>8, <3>1
    <2>3. \A k \in 0..Len(s) : k \in G
      <3> HIDE DEF G
      <3> QED
        BY <1>0, <2>1, <2>2, UpTo
    <2> QED
      BY <1>8, <2>3
  <1>10. ASSUME NEW k \in 1..Len(s)
         PROVE  p[k] = IF /\ Len(p[k - 1]) > 0
                          /\ IsSameOrAncestor(p[k - 1][Len(p[k - 1])], s[k])
                       THEN p[k - 1] ELSE Append(p[k - 1], s[k])
    BY <1>8, <1>u
  <1> QED
    BY <1>7, <1>8, <1>9, <1>10

(* No two entries that follow each other, in byte order, overlap. *)
Folded(u) ==
    /\ \A i, j \in 1..Len(u) : i < j => BytesLess(u[i], u[j])
    /\ \A k \in 2..Len(u) : ~IsSameOrAncestor(u[k - 1], u[k])

(* Folding the sorted deny list leaves entries of it, in strictly          *)
(* ascending order, none below the one before, and at or above every entry *)
(* that was dropped there is one that was kept.                            *)
LEMMA FoldFacts ==
  ASSUME NEW s \in Seq(ByteString), Ascending(s)
  PROVE  LET u == FoldDeny(s)
         IN  /\ u \in Seq(ByteString) /\ Folded(u) /\ Len(u) <= Len(s)
             /\ Range(u) \subseteq Range(s)
             /\ \A d \in Range(s) : \E c \in Range(u) : IsSameOrAncestor(c, d)
  <1> DEFINE Covers(x, a) == Len(x) > 0 /\ IsSameOrAncestor(x[Len(x)], a)
  <1>1. PICK p \in [0..Len(s) -> Seq(ByteString)] :
            /\ FoldDeny(s) = p[Len(s)]
            /\ p[0] = << >>
            /\ \A k \in 1..Len(s) :
                  p[k] = IF Covers(p[k - 1], s[k]) THEN p[k - 1] ELSE Append(p[k - 1], s[k])
    BY FoldUnfolds
  <1>0. /\ Len(s) \in Nat /\ Len(s) \in 0..Len(s) /\ 0 \in 0..Len(s)
        /\ \A i \in 1..Len(s) : s[i] \in ByteString
    BY SMTT(30)
  <1> DEFINE Good(n) ==
                /\ Folded(p[n])
                /\ Len(p[n]) <= n
                /\ \A k \in 1..Len(p[n]) : \E i \in 1..n : p[n][k] = s[i]
                /\ \A i \in 1..n : \E k \in 1..Len(p[n]) : IsSameOrAncestor(p[n][k], s[i])
             G == {n \in 0..Len(s) : Good(n)}
  <1>2. 0 \in G
    <2>1. Len(p[0]) = 0
      BY <1>1, SMTT(30)
    <2>2. (\A k \in 1..0 : FALSE) /\ (\A k \in 2..0 : FALSE)
      BY SMTT(30)
    <2>3. Folded(p[0])
      BY <2>1, <2>2 DEF Folded
    <2>4. Len(p[0]) <= 0
      BY <2>1, SMTT(30)
    <2>5. Good(0)
      BY <2>1, <2>2, <2>3, <2>4
    <2> QED
      BY <1>0, <2>5
  <1>3. ASSUME NEW n \in 1..Len(s), n - 1 \in G PROVE n \in G
    <2>0. /\ n \in 0..Len(s) /\ n - 1 \in 0..Len(s) /\ n \in Nat
          /\ \A i \in 1..(n - 1) : i \in 1..n /\ i < n /\ i \in 1..Len(s)
          /\ \A i \in 1..n : i = n \/ i \in 1..(n - 1)
          /\ n \in 1..n
      BY <1>0, SMTT(30)
    <2> DEFINE x == p[n - 1]
               a == s[n]
               m == Len(x)
    <2>g. /\ Folded(x) /\ m <= n - 1
          /\ \A k \in 1..m : \E i \in 1..(n - 1) : x[k] = s[i]
          /\ \A i \in 1..(n - 1) : \E k \in 1..m : IsSameOrAncestor(x[k], s[i])
      BY <1>3
    <2>2. x \in Seq(ByteString) /\ a \in ByteString
      BY <1>0, <1>1, <2>0
    <2>3. m \in Nat /\ \A k \in 1..m : x[k] \in ByteString
      BY <2>2, SMTT(30)
    <2>p. p[n] = IF Covers(x, a) THEN x ELSE Append(x, a)
      BY <1>1
    <2>4. CASE Covers(x, a)
      <3>1. p[n] = x
        BY <2>p, <2>4
      <3>2. m \in 1..m /\ IsSameOrAncestor(x[m], a)
        BY <2>3, <2>4, SMTT(30)
      <3>3. m <= n
        BY <2>0, <2>3, <2>g, SMTT(30)
      <3> HIDE DEF Covers, x, m
      <3>4. \A i \in 1..n : \E k \in 1..m : IsSameOrAncestor(x[k], s[i])
        BY <2>0, <2>g, <3>2
      <3>5. \A k \in 1..m : \E i \in 1..n : x[k] = s[i]
        BY <2>0, <2>g
      <3>6. Good(n)
        BY <2>g, <3>1, <3>3, <3>4, <3>5 DEF m
      <3> QED
        BY <2>0, <3>6
    <2>5. CASE ~Covers(x, a)
      <3>1. p[n] = Append(x, a)
        BY <2>p, <2>5
      <3>2. /\ Len(p[n]) = m + 1 /\ p[n][m + 1] = a
            /\ \A k \in 1..m : p[n][k] = x[k]
        BY <2>2, <3>1, SMTT(30)
      <3>3. /\ \A k \in 1..(m + 1) : k = m + 1 \/ k \in 1..m
            /\ \A k \in 1..m : k \in 1..(m + 1)
            /\ m + 1 \in 1..(m + 1)
            /\ \A k \in 1..(m + 1) : ~(m + 1 < k)
            /\ m + 1 <= n
        BY <2>0, <2>3, <2>g, SMTT(30)
      <3>4. m > 0 => ~IsSameOrAncestor(x[m], a) /\ m \in 1..m
        BY <2>3, <2>5, SMTT(30)
      <3> HIDE DEF Covers, x, m
      <3>5. ASSUME NEW k \in 1..m PROVE BytesLess(x[k], a)
        <4>1. PICK i \in 1..(n - 1) : x[k] = s[i]
          BY <2>g
        <4>2. BytesLess(x[k], a) \/ x[k] = a
          BY <2>0, <4>1 DEF Ascending
        <4>3. m > 0 /\ m \in 1..m /\ (k = m \/ k < m)
          BY <2>3, SMTT(30)
        <4>4. x[m] # a
          BY <3>4, <4>3 DEF IsSameOrAncestor
        <4>5. PICK j \in 1..(n - 1) : x[m] = s[j]
          BY <2>g, <4>3
        <4>6. BytesLess(x[m], a)
          BY <2>0, <4>4, <4>5 DEF Ascending
        <4>7. k < m => BytesLess(x[k], x[m])
          BY <2>g, <4>3 DEF Folded, m
        <4>8. x[k] \in ByteString /\ x[m] \in ByteString
          BY <2>3, <4>3
        <4> QED
          BY <2>2, <4>3, <4>6, <4>7, <4>8, BytesLessTransitive
      <3>6. ASSUME NEW i \in 1..(m + 1), NEW j \in 1..(m + 1), i < j
            PROVE  BytesLess(p[n][i], p[n][j])
        <4>1. i \in 1..m
          BY <3>3, <3>6
        <4>2. CASE j = m + 1
          BY <3>2, <3>5, <4>1, <4>2
        <4>3. CASE j \in 1..m
          BY <2>g, <3>2, <3>6, <4>1, <4>3 DEF Folded, m
        <4> QED
          BY <3>3, <4>2, <4>3
      <3>7. ASSUME NEW k \in 2..(m + 1) PROVE ~IsSameOrAncestor(p[n][k - 1], p[n][k])
        <4>1. /\ k - 1 \in 1..m /\ k \in 1..(m + 1) /\ m > 0
              /\ k = m + 1 => k - 1 = m
              /\ k # m + 1 => k \in 1..m /\ k \in 2..m
          BY <2>3, SMTT(30)
        <4>2. CASE k = m + 1
          BY <3>2, <3>4, <4>1, <4>2
        <4>3. CASE k # m + 1
          BY <2>g, <3>2, <4>1, <4>3 DEF Folded, m
        <4> QED
          BY <4>2, <4>3
      <3>8. Folded(p[n])
        BY <3>2, <3>6, <3>7 DEF Folded
      <3>9. \A k \in 1..(m + 1) : \E i \in 1..n : p[n][k] = s[i]
        BY <2>0, <2>g, <3>2, <3>3
      <3>10. ASSUME NEW i \in 1..n PROVE \E k \in 1..(m + 1) : IsSameOrAncestor(p[n][k], s[i])
        <4>1. CASE i = n
          BY <3>2, <3>3, <4>1 DEF IsSameOrAncestor
        <4>2. CASE i \in 1..(n - 1)
          <5>1. PICK k \in 1..m : IsSameOrAncestor(x[k], s[i])
            BY <2>g, <4>2
          <5> QED
            BY <3>2, <3>3, <5>1
        <4> QED
          BY <2>0, <4>1, <4>2
      <3>11. Good(n)
        BY <3>2, <3>3, <3>8, <3>9, <3>10
      <3> QED
        BY <2>0, <3>11
    <2> QED
      BY <2>4, <2>5
  <1> HIDE DEF G
  <1>4. Len(s) \in G
    BY <1>0, <1>2, <1>3, UpTo
  <1> USE DEF G
  <1>5. Good(Len(s))
    BY <1>4
  <1> DEFINE u == FoldDeny(s)
  <1>6. u = p[Len(s)] /\ u \in Seq(ByteString)
    BY <1>0, <1>1
  <1> HIDE DEF u
  <1>7. Range(u) = {u[k] : k \in 1..Len(u)} /\ Range(s) = {s[i] : i \in 1..Len(s)}
    BY <1>6, ListRange, SMTT(30)
  <1>8. Range(u) \subseteq Range(s)
    BY <1>5, <1>6, <1>7
  <1>9. ASSUME NEW d \in Range(s) PROVE \E c \in Range(u) : IsSameOrAncestor(c, d)
    BY <1>5, <1>6, <1>7, <1>9
  <1> QED
    BY <1>5, <1>6, <1>8, <1>9 DEF u

(* Entries that follow each other do not overlap, whichever way round. *)
LEMMA FoldedApart ==
  ASSUME NEW u \in Seq(ByteString), Folded(u)
  PROVE  Ascending(u) /\ \A k \in 2..Len(u) : ~PathsOverlap(u[k - 1], u[k])
  <1>1. Ascending(u)
    BY DEF Folded, Ascending
  <1>2. ASSUME NEW k \in 2..Len(u), IsSameOrAncestor(u[k], u[k - 1]) PROVE FALSE
    <2>1. k \in 1..Len(u) /\ k - 1 \in 1..Len(u) /\ k - 1 < k
      BY SMTT(30)
    <2>2. u[k] \in ByteString /\ u[k - 1] \in ByteString
      BY <2>1, SMTT(30)
    <2>3. BytesLess(u[k - 1], u[k])
      BY <2>1 DEF Folded
    <2>4. u[k - 1] # u[k]
      BY <2>2, <2>3, BytesLessAsymmetric
    <2>5. BytesLess(u[k], u[k - 1])
      BY <1>2, <2>2, <2>4, AncestorFirst
    <2> QED
      BY <2>2, <2>3, <2>5, BytesLessAsymmetric
  <1> QED
    BY <1>1, <1>2 DEF Folded, PathsOverlap

(* std::lower_bound is where it should be on an ascending list. *)
LEMMA EntriesBelowFacts ==
  ASSUME NEW u \in Seq(ByteString), Ascending(u), NEW path \in ByteString
  PROVE  LET n == EntriesBelow(u, path)
         IN  n \in 0..Len(u) /\ \A i \in 1..Len(u) : i <= n <=> BytesLess(u[i], path)
  <1>0. Len(u) \in Nat /\ DOMAIN u = 1..Len(u) /\ \A i \in 1..Len(u) : u[i] \in ByteString
    BY SMTT(30)
  <1> DEFINE Fits(n) == \A i \in DOMAIN u : i <= n <=> BytesLess(u[i], path)
             S == {n \in 0..Len(u) : \A i \in 1..Len(u) : BytesLess(u[i], path) => i <= n}
  <1>1. Len(u) \in S
    BY <1>0, SMTT(30)
  <1>2. S \subseteq Nat
    BY <1>0, SMTT(30)
  <1>3. PICK m \in S : \A n \in S : m <= n
    BY <1>1, <1>2, LeastNatural
  <1>4. ASSUME NEW i \in 1..Len(u), i <= m PROVE BytesLess(u[i], path)
    <2> SUFFICES ASSUME ~BytesLess(u[i], path) PROVE FALSE
      OBVIOUS
    <2>1. i - 1 \in 0..Len(u) /\ ~(m <= i - 1)
      BY <1>0, <1>3, <1>4, SMTT(30)
    <2>2. ASSUME NEW j \in 1..Len(u), BytesLess(u[j], path) PROVE j <= i - 1
      <3>1. ~(j = i)
        BY <2>2
      <3>2. ASSUME i < j PROVE FALSE
        <4>1. BytesLess(u[i], u[j]) \/ u[i] = u[j]
          BY <3>2 DEF Ascending
        <4>2. u[i] \in ByteString /\ u[j] \in ByteString
          BY <1>0
        <4> QED
          BY <2>2, <4>1, <4>2, BytesLessTransitive
      <3> QED
        BY <3>1, <3>2, SMTT(30)
    <2> QED
      BY <1>3, <2>1, <2>2
  <1>5. m \in 0..Len(u) /\ Fits(m)
    BY <1>0, <1>3, <1>4
  <1>6. EntriesBelow(u, path) = CHOOSE n \in 0..Len(u) : Fits(n)
    BY DEF EntriesBelow
  <1> QED
    BY <1>0, <1>5, <1>6

(* Where no byte sorts before '/', the deny conflict test finds every      *)
(* entry at or above a source; what it reports is always such an entry.    *)
LEMMA DenyConflictFacts ==
  ASSUME NEW u \in Seq(ByteString), Folded(u), NEW source \in ByteString
  PROVE  /\ DenyConflict(u, source) => \E c \in Range(u) : IsSameOrAncestor(c, source)
         /\ PlainBytes(u) /\ (\E c \in Range(u) : IsSameOrAncestor(c, source))
              => DenyConflict(u, source)
  <1> DEFINE n == EntriesBelow(u, source)
  <1>0. Len(u) \in Nat /\ Range(u) = {u[i] : i \in 1..Len(u)}
    BY ListRange
  <1>1. Ascending(u) /\ \A k \in 2..Len(u) : ~PathsOverlap(u[k - 1], u[k])
    BY FoldedApart
  <1>2. n \in 0..Len(u) /\ \A i \in 1..Len(u) : i <= n <=> BytesLess(u[i], source)
    BY <1>1, EntriesBelowFacts
  <1>3. DenyConflict(u, source) <=> \/ n < Len(u) /\ u[n + 1] = source
                                    \/ n > 0 /\ IsSameOrAncestor(u[n], source)
    BY DEF DenyConflict
  <1> HIDE DEF n
  <1>4. ASSUME DenyConflict(u, source)
        PROVE  \E c \in Range(u) : IsSameOrAncestor(c, source)
    <2>1. CASE n < Len(u) /\ u[n + 1] = source
      <3>1. n + 1 \in 1..Len(u)
        BY <1>0, <1>2, <2>1, SMTT(30)
      <3> QED
        BY <1>0, <2>1, <3>1 DEF IsSameOrAncestor
    <2>2. CASE n > 0 /\ IsSameOrAncestor(u[n], source)
      <3>1. n \in 1..Len(u)
        BY <1>0, <1>2, <2>2, SMTT(30)
      <3> QED
        BY <1>0, <2>2, <3>1
    <2> QED
      BY <1>3, <1>4, <2>1, <2>2
  <1>5. ASSUME PlainBytes(u), NEW c \in Range(u), IsSameOrAncestor(c, source)
        PROVE  DenyConflict(u, source)
    <2>1. PICK i \in 1..Len(u) : c = u[i]
      BY <1>0, <1>5
    <2>2. \/ i = n /\ IsSameOrAncestor(u[n], source)
          \/ i = n + 1 /\ u[n + 1] = source
      BY <1>1, <1>2, <1>5, <2>1, LowerBoundScan
    <2>3. (i = n => n > 0) /\ (i = n + 1 => n < Len(u))
      BY <1>0, <1>2, SMTT(30)
    <2> QED
      BY <1>3, <2>2, <2>3
  <1> QED
    BY <1>4, <1>5

(* A set of W that has no greater one in W, by an element of D. *)
CannotGrow(g, W, D) == g \in W /\ \A i \in D \ g : g \cup {i} \notin W

(* Among sets of elements of a finite set there is one that cannot grow. *)
LEMMA LargestSet ==
  ASSUME NEW D, IsFiniteSet(D), NEW W, W \subseteq SUBSET D, W # {}
  PROVE  \E g : CannotGrow(g, W, D)
  <1> DEFINE Left(g) == Cardinality(D \ g)
             N == {Left(g) : g \in W}
  <1>1. ASSUME NEW g \in SUBSET D PROVE IsFiniteSet(D \ g) /\ Left(g) \in Nat
    <2>1. D \ g \subseteq D
      OBVIOUS
    <2> QED
      BY <2>1, FS_Subset, FS_CardinalityType
  <1>2. N \subseteq Nat /\ N # {}
    BY <1>1
  <1>3. PICK m \in N : \A n \in N : m <= n
    BY <1>2, LeastNatural
  <1>4. PICK g \in W : m = Left(g)
    BY <1>3
  <1>5. ASSUME NEW i \in D \ g, g \cup {i} \in W PROVE FALSE
    <2>1. m <= Left(g \cup {i})
      BY <1>3, <1>5
    <2>2. D \ (g \cup {i}) = (D \ g) \ {i}
      OBVIOUS
    <2>3. g \in SUBSET D
      OBVIOUS
    <2>4. Cardinality((D \ g) \ {i}) = Cardinality(D \ g) - 1
      BY <1>1, <1>5, <2>3, FS_RemoveElement
    <2>5. Left(g) \in Nat
      BY <1>1, <2>3
    <2> QED
      BY <1>4, <2>1, <2>2, <2>4, <2>5, SMTT(30)
  <1> QED
    BY <1>4, <1>5 DEF CannotGrow

(* The visit's recursion has a solution: the least function closed under   *)
(* it.  Visit takes one, so it obeys the recursion.                        *)
LEMMA VisitUnfolds ==
  ASSUME NEW s
  PROVE  \E v \in [SUBSET DOMAIN s -> SUBSET DOMAIN s] :
            /\ Visit(s) = v[{}]
            /\ \A grey \in SUBSET DOMAIN s, i \in DOMAIN s :
                  i \in v[grey] <=> \/ i \in grey
                                    \/ \E j \in Successor(s, i) : j \in v[grey \cup {i}]
  <1> DEFINE D == DOMAIN s
             Next1(v, grey, i) == i \in grey \/ \E j \in Successor(s, i) : j \in v[grey \cup {i}]
             F(v) == [grey \in SUBSET D |-> {i \in D : Next1(v, grey, i)}]
             Eq(v) == v = F(v)
             v == CHOOSE x : Eq(x)
             K == {h \in [SUBSET D -> SUBSET D] :
                     \A grey \in SUBSET D, i \in D : Next1(h, grey, i) => i \in h[grey]}
             g == [grey \in SUBSET D |-> {i \in D : \A h \in K : i \in h[grey]}]
  <1>v. Visit(s) = v[{}]
    BY DEF Visit
  <1>s. \A grey \in SUBSET D, i \in D : grey \cup {i} \in SUBSET D
    OBVIOUS
  <1>j. \A i \in D : \A j \in Successor(s, i) : j \in D
    BY DEF Successor
  <1> HIDE DEF D
  <1>1. g \in [SUBSET D -> SUBSET D]
    OBVIOUS
  <1>2. \A h \in K, grey \in SUBSET D, i \in D : i \in g[grey] => i \in h[grey]
    OBVIOUS
  <1>3. \A grey \in SUBSET D, i \in D : (\A h \in K : i \in h[grey]) => i \in g[grey]
    OBVIOUS
  <1>4. \A h \in K, grey \in SUBSET D, i \in D : Next1(h, grey, i) => i \in h[grey]
    OBVIOUS
  <1> HIDE DEF g
  <1>5. ASSUME NEW grey \in SUBSET D, NEW i \in D, Next1(g, grey, i) PROVE i \in g[grey]
    <2>1. ASSUME NEW h \in K PROVE Next1(h, grey, i)
      BY <1>2, <1>5, <1>s, <1>j
    <2> QED
      BY <1>3, <1>4, <2>1
  <1> DEFINE h == F(g)
  <1>6. h \in [SUBSET D -> SUBSET D]
        /\ \A grey \in SUBSET D, i \in D : i \in h[grey] <=> Next1(g, grey, i)
    OBVIOUS
  <1> HIDE DEF h
  <1>7. ASSUME NEW grey \in SUBSET D, NEW i \in D, Next1(h, grey, i) PROVE i \in h[grey]
    <2>1. Next1(g, grey, i)
      BY <1>5, <1>6, <1>7, <1>s, <1>j
    <2> QED
      BY <1>6, <2>1
  <1>8. h \in K
    BY <1>6, <1>7
  <1>9. ASSUME NEW grey \in SUBSET D PROVE g[grey] = h[grey]
    <2>1. g[grey] \subseteq D /\ h[grey] \subseteq D
      BY <1>1, <1>6
    <2>2. \A i \in D : i \in g[grey] <=> i \in h[grey]
      BY <1>2, <1>5, <1>6, <1>8
    <2> QED
      BY <2>1, <2>2
  <1>10. g = h
    BY <1>1, <1>6, <1>9, SMTT(30)
  <1>11. Eq(g)
    BY <1>10 DEF h
  <1>12. Eq(v)
    BY <1>11
  <1> HIDE DEF v
  <1>13. v \in [SUBSET D -> SUBSET D]
         /\ \A grey \in SUBSET D, i \in D : i \in v[grey] <=> Next1(v, grey, i)
    <2>1. DOMAIN v = SUBSET D
      BY <1>12
    <2>2. \A grey \in SUBSET D : v[grey] = {i \in D : Next1(v, grey, i)}
      BY <1>12
    <2>3. v = [grey \in SUBSET D |-> v[grey]]
      BY <1>12, <2>1
    <2> QED
      BY <2>2, <2>3, ZenonT(30)
  <1> QED
    BY <1>13, <1>v DEF D

(* Redirects that lead back into themselves. *)
LeadsBack(S) == S # {} /\ \A r \in S : \E t \in S : t.source = r.target

(* The visit reports a cycle only where redirects lead back; where no two  *)
(* redirects have the same source it finds every one that does.            *)
LEMMA CycleFacts ==
  ASSUME NEW A, NEW s \in Seq(A)
  PROVE  /\ HasCycle(s) => \E S \in SUBSET Range(s) : LeadsBack(S)
         /\ /\ \A i, j \in 1..Len(s) : s[i].source = s[j].source => i = j
            /\ \E S \in SUBSET Range(s) : LeadsBack(S)
            => HasCycle(s)
  <1> DEFINE D == DOMAIN s
  <1>0. D = 1..Len(s) /\ Len(s) \in Nat /\ Range(s) = {s[i] : i \in 1..Len(s)}
    BY ListRange
  <1>f. IsFiniteSet(D)
    BY <1>0, FS_Interval, SMTT(30)
  <1>1. PICK v \in [SUBSET D -> SUBSET D] :
            /\ Visit(s) = v[{}]
            /\ \A grey \in SUBSET D, i \in D :
                  i \in v[grey] <=> \/ i \in grey
                                    \/ \E j \in Successor(s, i) : j \in v[grey \cup {i}]
    BY VisitUnfolds
  <1>2. \A i \in D : \A j \in Successor(s, i) : j \in D /\ s[j].source = s[i].target
    BY DEF Successor
  <1>d. D = DOMAIN s
    OBVIOUS
  <1> HIDE DEF D
  <1>3. ASSUME HasCycle(s) PROVE \E S \in SUBSET Range(s) : LeadsBack(S)
    <2> DEFINE Path(grey, i) == \A g \in grey : \E j \in grey \cup {i} : s[j].source = s[g].target
               W == {grey \in SUBSET D : \E i \in D : i \in v[grey] /\ Path(grey, i)}
    <2>1. PICK i0 \in D : i0 \in v[{}]
      BY <1>1, <1>3 DEF HasCycle
    <2>2. {} \in W
      BY <2>1
    <2>3. W \subseteq SUBSET D /\ W # {}
      BY <2>2
    <2>4. PICK grey : CannotGrow(grey, W, D)
      <3> HIDE DEF W
      <3> QED
        BY <1>f, <2>3, LargestSet
    <2>5. PICK i \in D : i \in v[grey] /\ Path(grey, i)
      BY <2>4 DEF CannotGrow
    <2>6. grey \in SUBSET D
      BY <2>4 DEF CannotGrow
    <2>7. i \in grey
      <3> SUFFICES ASSUME i \notin grey PROVE FALSE
        OBVIOUS
      <3>1. PICK j \in Successor(s, i) : j \in v[grey \cup {i}]
        BY <1>1, <2>5, <2>6
      <3>2. j \in D /\ s[j].source = s[i].target
        BY <1>2, <3>1
      <3>3. Path(grey \cup {i}, j)
        BY <2>5, <3>2
      <3>4. grey \cup {i} \in SUBSET D
        BY <2>6
      <3>5. grey \cup {i} \in W
        BY <3>1, <3>2, <3>3, <3>4
      <3> QED
        BY <2>4, <3>5 DEF CannotGrow
    <2>8. \A g \in grey : \E j \in grey : s[j].source = s[g].target
      BY <2>5, <2>7
    <2> DEFINE S == {s[g] : g \in grey}
    <2>9. S \in SUBSET Range(s)
      BY <1>0, <2>6
    <2>10. ASSUME NEW r \in S PROVE \E t \in S : t.source = r.target
      <3>1. PICK g \in grey : r = s[g]
        BY <2>10
      <3>2. PICK j \in grey : s[j].source = s[g].target
        BY <2>8, <3>1
      <3> QED
        BY <3>1, <3>2
    <2>11. LeadsBack(S)
      BY <2>7, <2>10 DEF LeadsBack
    <2> QED
      BY <2>9, <2>11
  <1>4. ASSUME \A i, j \in 1..Len(s) : s[i].source = s[j].source => i = j,
               NEW S \in SUBSET Range(s), LeadsBack(S)
        PROVE  HasCycle(s)
    <2> DEFINE T == {i \in D : s[i] \in S}
               W == {grey \in SUBSET D : \E i \in T : i \notin v[grey]}
    <2>1. ASSUME NEW i \in T PROVE \E j \in T : j \in Successor(s, i)
      <3>1. PICK t \in S : t.source = s[i].target
        BY <1>4 DEF LeadsBack
      <3>2. PICK j \in D : s[j] = t
        BY <1>0, <1>4, <3>1, SMTT(30)
      <3>3. ASSUME NEW k \in D, s[k].source = s[i].target PROVE j <= k
        <4>1. j = k
          BY <1>0, <1>4, <3>1, <3>2, <3>3
        <4> QED
          BY <1>0, <4>1, SMTT(30)
      <3>4. j \in Successor(s, i)
        BY <1>d, <3>1, <3>2, <3>3 DEF Successor
      <3> QED
        BY <3>1, <3>2, <3>4
    <2>2. PICK i0 \in T : TRUE
      BY <1>0, <1>4, SMTT(30) DEF LeadsBack
    <2>3. CASE W = {}
      <3>1. {} \in SUBSET D
        OBVIOUS
      <3>2. i0 \in v[{}]
        BY <2>2, <2>3, <3>1
      <3> QED
        BY <1>1, <3>2 DEF HasCycle
    <2>4. CASE W # {}
      <3>1. PICK grey : CannotGrow(grey, W, D)
        <4>1. W \subseteq SUBSET D
          OBVIOUS
        <4> HIDE DEF W
        <4> QED
          BY <1>f, <2>4, <4>1, LargestSet
      <3>2. PICK i \in T : i \notin v[grey]
        BY <3>1 DEF CannotGrow
      <3>3. grey \in SUBSET D /\ i \in D
        BY <3>1, <3>2 DEF CannotGrow
      <3>4. PICK j \in T : j \in Successor(s, i)
        BY <2>1
      <3>5. i \notin grey /\ j \notin v[grey \cup {i}]
        BY <1>1, <3>2, <3>3, <3>4
      <3>6. grey \cup {i} \in SUBSET D
        BY <3>3
      <3>7. grey \cup {i} \in W
        BY <3>4, <3>5, <3>6
      <3> QED
        BY <3>1, <3>3, <3>5, <3>7 DEF CannotGrow
    <2> QED
      BY <2>3, <2>4
  <1> QED
    BY <1>3, <1>4
=============================================================================
