----------------------------- MODULE GraphProofs -----------------------------
(* get_citations with a threshold and find_bridge_papers, for literatures and  *)
(* lists of any size.                                                          *)
EXTENDS CitationScan, BridgeSearch, SequenceTheorems, FiniteSetTheorems, FunctionTheorems,
        WellFoundedInduction, TLAPS

-----------------------------------------------------------------------------
(* Induction over the naturals, with a set in the place of a predicate: the     *)
(* intervals 0..n are finite, and finite sets are well founded under inclusion. *)

LEMMA LeastElement ==
    ASSUME NEW S, S \subseteq Nat, S # {}
    PROVE  \E n \in S : \A m \in S : n <= m
<1> DEFINE T == {0..n : n \in S}
<1>1. IsWellFoundedOn(StrictSubsetOrdering(Nat), FiniteSubsetsOf(Nat))
  BY FS_StrictSubsetOrderingWellFounded
<1>2. T \subseteq FiniteSubsetsOf(Nat)
  <2> SUFFICES ASSUME NEW n \in S PROVE 0..n \in FiniteSubsetsOf(Nat)
    OBVIOUS
  <2>1. IsFiniteSet(0..n)
    BY FS_Interval
  <2> QED BY <2>1 DEF FiniteSubsetsOf
<1>3. \E x \in T : \A y \in T : ~(<<y, x>> \in StrictSubsetOrdering(Nat))
  <2>1. T # {}
    OBVIOUS
  <2> HIDE DEF T
  <2> QED BY <1>1, <1>2, <2>1, WFMin
<1>4. PICK n \in S : \A m \in S : ~(<<0..m, 0..n>> \in StrictSubsetOrdering(Nat))
  BY <1>3
<1>5. ASSUME NEW m \in S, ~(n <= m) PROVE FALSE
  <2>1. n \in 0..n /\ n \notin 0..m
    BY <1>5
  <2>2. 0..m \subseteq 0..n /\ 0..m # 0..n
    BY <1>5, <2>1
  <2>3. <<0..m, 0..n>> \in StrictSubsetOrdering(Nat)
    BY <2>2 DEF StrictSubsetOrdering
  <2> QED BY <2>3, <1>4
<1> QED BY <1>5

LEMMA SetInduction ==
    ASSUME NEW S, 0 \in S, \A n \in Nat : n \in S => n + 1 \in S
    PROVE  Nat \subseteq S
<1> SUFFICES ASSUME Nat \ S # {} PROVE FALSE
  OBVIOUS
<1>1. PICK n \in Nat \ S : \A m \in Nat \ S : n <= m
  BY LeastElement
<1>2. n # 0
  OBVIOUS
<1>3. n - 1 \in Nat /\ n - 1 \in S
  BY <1>1, <1>2
<1> QED BY <1>3

-----------------------------------------------------------------------------
(* Pages of a list and what a filter leaves of them.                           *)

LEMMA MinOfTwo ==
    ASSUME NEW i \in Int, NEW j \in Int
    PROVE  Min({i, j}) = IF i <= j THEN i ELSE j
<1> DEFINE m == IF i <= j THEN i ELSE j
<1>1. m \in {i, j} /\ \A x \in {i, j} : m <= x
  OBVIOUS
<1>2. \A n \in {i, j} : (\A x \in {i, j} : n <= x) => n = m
  OBVIOUS
<1> QED BY <1>1, <1>2 DEF Min

IsPage(page, V, s, from, size) ==
    /\ page \in Seq(V)
    /\ Len(page) = IF Len(s) <= from THEN 0
                   ELSE IF Len(s) - from <= size THEN Len(s) - from ELSE size
    /\ \A k \in 1..Len(page) : page[k] = s[from + k]

LEMMA PageOf ==
    ASSUME NEW V, NEW s \in Seq(V), NEW from \in Nat, NEW size \in Nat
    PROVE  IsPage(Page(s, from, size), V, s, from, size)
<1> DEFINE upto == Min({from + size, Len(s)})
<1>1. upto \in Nat /\ upto = IF from + size <= Len(s) THEN from + size ELSE Len(s)
  BY MinOfTwo
<1>2. Page(s, from, size) = SubSeq(s, from + 1, upto)
  BY DEF Page
<1> HIDE DEF upto
<1>0. Len(s) \in Nat
  OBVIOUS
<1>3. CASE Len(s) <= from
  <2>1. upto < from + 1
    BY <1>0, <1>1, <1>3
  <2>2. Page(s, from, size) = <<>>
    BY <1>1, <1>2, <2>1
  <2> QED BY <1>3, <2>2 DEF IsPage
<1>4. CASE Len(s) > from
  BY <1>1, <1>2, <1>4, SMTT(20) DEF IsPage
<1> QED BY <1>3, <1>4

\* What is left of a list behind some of its records.
LEMMA RestHas ==
    ASSUME NEW V, NEW s \in Seq(V), NEW from \in Nat, NEW p \in ToSet(SubSeq(s, from + 1, Len(s)))
    PROVE  \E k \in (from + 1)..Len(s) : s[k] = p
<1> DEFINE rest == SubSeq(s, from + 1, Len(s))
<1>0. Len(s) \in Nat /\ \A k \in 1..Len(s) : s[k] \in V
  BY SMTT(20)
<1>1. Len(s) \in Nat /\ \A k \in (from + 1)..Len(s) : s[k] \in V
  BY <1>0
<1>2. /\ rest \in Seq(V)
      /\ Len(rest) = IF from + 1 <= Len(s) THEN Len(s) - from ELSE 0
      /\ \A i \in 1..(Len(s) - from) : rest[i] = s[from + i]
  <2>1. /\ rest \in Seq(V)
        /\ Len(rest) = IF from + 1 <= Len(s) THEN Len(s) - (from + 1) + 1 ELSE 0
        /\ \A i \in 1..(Len(s) - (from + 1) + 1) : rest[i] = s[(from + 1) + i - 1]
    BY <1>1, SubSeqProperties
  <2> HIDE DEF rest
  <2>2. \A i \in 1..(Len(s) - from) : (from + 1) + i - 1 = from + i
    BY <1>1
  <2>3. Len(s) - (from + 1) + 1 = Len(s) - from
    BY <1>1
  <2> QED BY <2>1, <2>2, <2>3
<1>3. PICK i \in DOMAIN rest : rest[i] = p
  BY DEF ToSet
<1> HIDE DEF rest
<1>4. i \in 1..(Len(s) - from) /\ from + i \in (from + 1)..Len(s)
  BY <1>1, <1>2, <1>3
<1> QED BY <1>2, <1>3, <1>4, SMTT(20)

IsSifted(kept, V, s, liked) ==
    /\ kept \in Seq(V \cap liked)
    /\ Len(kept) <= Len(s)
    /\ \A k \in DOMAIN s : s[k] \in liked => \E j \in DOMAIN kept : kept[j] = s[k]

\* How Sifted comes about, record by record.
SiftedBy(f, s, liked) ==
    /\ f[0] = <<>>
    /\ \A n \in 0..(Len(s) - 1) :
         f[n + 1] = IF s[n + 1] \in liked THEN Append(f[n], s[n + 1]) ELSE f[n]

LEMMA SiftedRuns ==
    ASSUME NEW V, NEW s \in Seq(V), NEW liked
    PROVE  \E f : SiftedBy(f, s, liked) /\ Sifted(s, liked) = f[Len(s)]
<1> DEFINE Body(f, k) == IF k = 0 THEN <<>>
                         ELSE IF s[k] \in liked THEN Append(f[k - 1], s[k])
                         ELSE f[k - 1]
           Made(f, n) == f = [k \in 0..n |-> Body(f, k)]
           Exists == {n \in Nat : n <= Len(s) => \E f : Made(f, n)}
<1>1. Nat \subseteq Exists
  <2>1. 0 \in Exists
    <3> DEFINE f == [k \in 0..0 |-> <<>>]
    <3>1. Made(f, 0)
      OBVIOUS
    <3> QED BY <3>1
  <2>2. ASSUME NEW n \in Nat, n \in Exists PROVE n + 1 \in Exists
    <3> SUFFICES ASSUME n + 1 <= Len(s) PROVE \E f : Made(f, n + 1)
      <4> HIDE DEF Made
      <4> QED OBVIOUS
    <3>1. PICK f : Made(f, n)
      <4>1. n <= Len(s)
        OBVIOUS
      <4> HIDE DEF Made
      <4> QED BY <2>2, <4>1
    <3>2. \A k \in 0..n : f[k] = Body(f, k)
      BY <3>1
    <3> DEFINE g == [k \in 0..(n + 1) |-> IF k <= n THEN f[k] ELSE Body(f, k)]
    <3>3. \A k \in 0..(n + 1) : g[k] = Body(g, k)
      <4> TAKE k \in 0..(n + 1)
      <4>1. CASE k = 0
        BY <3>1, <4>1
      <4>2. CASE k # 0
        <5>1. k - 1 \in 0..n /\ g[k - 1] = f[k - 1]
          BY <4>2
        <5>2. Body(g, k) = Body(f, k)
          BY <5>1
        <5>3. g[k] = Body(f, k)
          BY <3>2
        <5> QED BY <5>2, <5>3
      <4> QED BY <4>1, <4>2
    <3>4. Made(g, n + 1)
      BY <3>3
    <3> QED BY <3>4
  <2> HIDE DEF Exists
  <2> QED BY <2>1, <2>2, SetInduction
<1>2. PICK f : Made(f, Len(s)) /\ Sifted(s, liked) = f[Len(s)]
  <2>1. \E h : Made(h, Len(s))
    <3>1. Len(s) \in Nat /\ Len(s) <= Len(s)
      OBVIOUS
    <3>2. Len(s) \in Exists
      <4> HIDE DEF Exists
      <4> QED BY <1>1, <3>1
    <3> HIDE DEF Made
    <3> QED BY <3>1, <3>2
  <2> DEFINE chosen == CHOOSE h : Made(h, Len(s))
  <2>2. Made(chosen, Len(s))
    <3> HIDE DEF Made
    <3> QED BY <2>1
  <2>3. Sifted(s, liked) = chosen[Len(s)]
    BY DEF Sifted
  <2> HIDE DEF chosen, Made
  <2> QED BY <2>2, <2>3
<1>3. /\ f[0] = <<>>
      /\ \A n \in 0..(Len(s) - 1) :
           f[n + 1] = IF s[n + 1] \in liked THEN Append(f[n], s[n + 1]) ELSE f[n]
  <2>1. \A k \in 0..Len(s) : f[k] = Body(f, k)
    BY <1>2
  <2>2. ASSUME NEW n \in 0..(Len(s) - 1)
        PROVE  f[n + 1] = IF s[n + 1] \in liked THEN Append(f[n], s[n + 1]) ELSE f[n]
    <3>1. n + 1 \in 0..Len(s) /\ n + 1 # 0 /\ (n + 1) - 1 = n
      OBVIOUS
    <3>2. f[n + 1] = Body(f, n + 1)
      BY <2>1, <3>1
    <3> QED BY <3>1, <3>2
  <2>3. f[0] = <<>>
    <3>1. f[0] = Body(f, 0)
      BY <2>1
    <3> QED BY <3>1
  <2> HIDE DEF Body, Made
  <2> QED BY <2>2, <2>3
<1> HIDE DEF Made
<1> QED BY <1>2, <1>3 DEF SiftedBy

LEMMA SiftedIs ==
    ASSUME NEW V, NEW s \in Seq(V), NEW liked
    PROVE  IsSifted(Sifted(s, liked), V, s, liked)
<1>1. PICK f : SiftedBy(f, s, liked) /\ Sifted(s, liked) = f[Len(s)]
  BY SiftedRuns
<1>3. /\ f[0] = <<>>
      /\ \A n \in 0..(Len(s) - 1) :
           f[n + 1] = IF s[n + 1] \in liked THEN Append(f[n], s[n + 1]) ELSE f[n]
  BY <1>1 DEF SiftedBy
<1> DEFINE Right(n) == /\ f[n] \in Seq(V \cap liked)
                       /\ Len(f[n]) <= n
                       /\ \A k \in 1..n : s[k] \in liked =>
                            \E j \in 1..Len(f[n]) : f[n][j] = s[k]
           Good == {n \in Nat : n <= Len(s) => Right(n)}
<1>4. Nat \subseteq Good
  <2>1. 0 \in Good
    <3>1. f[0] = <<>>
      BY <1>3
    <3>2. Right(0)
      BY <3>1
    <3> QED BY <3>2
  <2>2. ASSUME NEW n \in Nat, n \in Good, n + 1 <= Len(s) PROVE Right(n + 1)
    <3>0. n \in 0..(Len(s) - 1)
      BY <2>2
    <3>1. Right(n)
      BY <2>2
    <3>2. s[n + 1] \in V
      BY <2>2
    <3>3. CASE s[n + 1] \in liked
      <4>1. f[n + 1] = Append(f[n], s[n + 1])
        BY <1>3, <3>0, <3>3
      <4>2. f[n + 1] \in Seq(V \cap liked) /\ Len(f[n + 1]) = Len(f[n]) + 1
        BY <3>1, <3>2, <3>3, <4>1
      <4>3. ASSUME NEW k \in 1..(n + 1), s[k] \in liked
            PROVE  \E j \in 1..Len(f[n + 1]) : f[n + 1][j] = s[k]
        <5>1. CASE k = n + 1
          BY <3>1, <3>2, <3>3, <4>1, <4>2, <5>1
        <5>2. CASE k # n + 1
          <6>1. PICK j \in 1..Len(f[n]) : f[n][j] = s[k]
            BY <3>1, <4>3, <5>2
          <6> QED BY <3>1, <3>2, <3>3, <4>1, <4>2, <6>1
        <5> QED BY <5>1, <5>2
      <4> QED BY <3>1, <4>2, <4>3
    <3>4. CASE s[n + 1] \notin liked
      <4>1. f[n + 1] = f[n]
        BY <1>3, <3>0, <3>4
      <4> QED BY <3>1, <3>4, <4>1
    <3> QED BY <3>3, <3>4
  <2>3. ASSUME NEW n \in Nat, n \in Good PROVE n + 1 \in Good
    BY <2>2, <2>3
  <2> HIDE DEF Good
  <2> QED BY <2>1, <2>3, SetInduction
<1>5. Right(Len(s))
  BY <1>4
<1>6. DOMAIN s = 1..Len(s) /\ DOMAIN f[Len(s)] = 1..Len(f[Len(s)])
  BY <1>5
<1> QED BY <1>1, <1>5, <1>6 DEF IsSifted

\* The places behind the first m and up to the n-th where a list has a liked record.
LikedAt(s, liked, m, n) == {k \in (m + 1)..n : s[k] \in liked}

LEMMA LikedAtFinite ==
    ASSUME NEW s, NEW liked, NEW m \in Nat, NEW n \in Nat
    PROVE  IsFiniteSet(LikedAt(s, liked, m, n)) /\ Cardinality(LikedAt(s, liked, m, n)) \in Nat
<1>1. IsFiniteSet((m + 1)..n)
  BY FS_Interval
<1>2. LikedAt(s, liked, m, n) \in SUBSET ((m + 1)..n)
  BY DEF LikedAt
<1> QED BY <1>1, <1>2, FS_Subset, FS_CardinalityType

\* A filter leaves as many records of a page as it likes.
LEMMA SiftedCounts ==
    ASSUME NEW V, NEW s \in Seq(V), NEW liked, NEW page \in Seq(V), NEW from \in Nat,
           \A k \in 1..Len(page) : page[k] = s[from + k]
    PROVE  Len(Sifted(page, liked)) = Cardinality(LikedAt(s, liked, from, from + Len(page)))
<1>1. PICK f : SiftedBy(f, page, liked) /\ Sifted(page, liked) = f[Len(page)]
  BY SiftedRuns
<1>2. /\ f[0] = <<>>
      /\ \A n \in 0..(Len(page) - 1) :
           f[n + 1] = IF page[n + 1] \in liked THEN Append(f[n], page[n + 1]) ELSE f[n]
  BY <1>1 DEF SiftedBy
<1> DEFINE Hits(n) == LikedAt(s, liked, from, from + n)
           Good == {n \in Nat : n <= Len(page) => f[n] \in Seq(V) /\ Len(f[n]) = Cardinality(Hits(n))}
<1>3. 0 \in Good
  <2>1. Hits(0) = {}
    BY DEF LikedAt
  <2>2. f[0] \in Seq(V) /\ Len(f[0]) = 0
    BY <1>2
  <2> HIDE DEF Hits
  <2> QED BY <2>1, <2>2, FS_EmptySet
<1>4. ASSUME NEW n \in Nat, n \in Good PROVE n + 1 \in Good
  <2> SUFFICES ASSUME n + 1 <= Len(page)
               PROVE  f[n + 1] \in Seq(V) /\ Len(f[n + 1]) = Cardinality(Hits(n + 1))
    OBVIOUS
  <2>1. /\ n \in 0..(Len(page) - 1) /\ n + 1 \in 1..Len(page) /\ n <= Len(page)
        /\ from + n \in Nat /\ from + (n + 1) = (from + n) + 1
    OBVIOUS
  <2>2. page[n + 1] = s[(from + n) + 1] /\ page[n + 1] \in V
    BY <2>1
  <2>3. f[n] \in Seq(V) /\ Len(f[n]) = Cardinality(Hits(n))
    BY <1>4, <2>1
  <2>4. IsFiniteSet(Hits(n)) /\ Cardinality(Hits(n)) \in Nat
    BY <2>1, LikedAtFinite
  <2>5. (from + n) + 1 \notin Hits(n)
    BY DEF LikedAt
  <2>6. CASE page[n + 1] \in liked
    <3>1. Hits(n + 1) = Hits(n) \union {(from + n) + 1}
      BY <2>1, <2>2, <2>6 DEF LikedAt
    <3>2. Cardinality(Hits(n + 1)) = Cardinality(Hits(n)) + 1
      <4> HIDE DEF Hits
      <4> QED BY <2>4, <2>5, <3>1, FS_AddElement
    <3>3. f[n + 1] = Append(f[n], page[n + 1])
      BY <1>2, <2>1, <2>6
    <3> HIDE DEF Hits
    <3> QED BY <2>2, <2>3, <3>2, <3>3
  <2>7. CASE page[n + 1] \notin liked
    <3>1. Hits(n + 1) = Hits(n)
      <4>1. s[(from + n) + 1] \notin liked
        BY <2>2, <2>7
      <4>2. ASSUME NEW k \in Hits(n + 1) PROVE k \in Hits(n)
        <5>1. k \in (from + 1)..((from + n) + 1) /\ s[k] \in liked
          BY <2>1 DEF LikedAt
        <5>2. k # (from + n) + 1
          BY <4>1, <5>1
        <5>3. k \in (from + 1)..(from + n)
          BY <2>1, <5>1, <5>2
        <5> QED BY <5>1, <5>3 DEF LikedAt
      <4>3. ASSUME NEW k \in Hits(n) PROVE k \in Hits(n + 1)
        BY <2>1 DEF LikedAt
      <4> QED BY <4>2, <4>3
    <3>2. f[n + 1] = f[n]
      BY <1>2, <2>1, <2>7
    <3> QED BY <2>3, <3>1, <3>2
  <2> QED BY <2>6, <2>7
<1>5. Nat \subseteq Good
  <2> HIDE DEF Good
  <2> QED BY <1>3, <1>4, SetInduction
<1>6. Len(page) \in Nat
  OBVIOUS
<1> HIDE DEF Hits
<1> QED BY <1>1, <1>5, <1>6 DEF Hits

\* What follows the first m adds to them.
LEMMA LikedAdds ==
    ASSUME NEW s, NEW liked, NEW m \in Nat, NEW n \in Nat, m <= n
    PROVE  Cardinality(LikedAt(s, liked, 0, n))
             = Cardinality(LikedAt(s, liked, 0, m)) + Cardinality(LikedAt(s, liked, m, n))
<1> DEFINE A == LikedAt(s, liked, 0, m)
           B == LikedAt(s, liked, m, n)
<1>1. IsFiniteSet(A) /\ IsFiniteSet(B) /\ Cardinality(A) \in Nat /\ Cardinality(B) \in Nat
  BY LikedAtFinite
<1>2. LikedAt(s, liked, 0, n) = A \union B /\ A \cap B = {}
  <2>1. \A k : k \in 1..n <=> k \in 1..m \/ k \in (m + 1)..n
    OBVIOUS
  <2>2. \A k : ~(k \in 1..m /\ k \in (m + 1)..n)
    OBVIOUS
  <2>3. 0 + 1 = 1
    OBVIOUS
  <2> QED BY <2>1, <2>2, <2>3 DEF LikedAt
<1> HIDE DEF A, B
<1>3. Cardinality(A \union B) = Cardinality(A) + Cardinality(B) - Cardinality(A \cap B)
  BY <1>1, FS_Union
<1>4. Cardinality(A \cap B) = 0
  BY <1>2, FS_EmptySet
<1>5. Cardinality(LikedAt(s, liked, 0, n)) = Cardinality(A) + Cardinality(B)
  <2>1. Cardinality(LikedAt(s, liked, 0, n)) = Cardinality(A \union B)
    BY <1>2, Zenon
  <2>2. Cardinality(A \union B) = Cardinality(A) + Cardinality(B)
    BY <1>1, <1>3, <1>4
  <2> QED BY <2>1, <2>2
<1> QED BY <1>5 DEF A, B

\* A liked record that follows makes them more.
LEMMA LikedMore ==
    ASSUME NEW s, NEW liked, NEW m \in Nat, NEW n \in Nat,
           NEW j \in (m + 1)..n, s[j] \in liked
    PROVE  Cardinality(LikedAt(s, liked, 0, m)) < Cardinality(LikedAt(s, liked, 0, n))
<1> DEFINE A == LikedAt(s, liked, 0, m)
           B == LikedAt(s, liked, 0, n)
<1>1. IsFiniteSet(A) /\ IsFiniteSet(B) /\ Cardinality(A) \in Nat /\ Cardinality(B) \in Nat
  BY LikedAtFinite
<1>2. A \subseteq B /\ j \in B /\ j \notin A
  BY DEF LikedAt
<1> HIDE DEF A, B
<1>3. Cardinality(A) <= Cardinality(B) /\ (Cardinality(B) = Cardinality(A) => B = A)
  BY <1>1, <1>2, FS_Subset
<1> QED BY <1>1, <1>2, <1>3 DEF A, B

-----------------------------------------------------------------------------
(* The scan for a threshold, and the single page.                              *)

Had(p) == \E j \in DOMAIN items : items[j] = p

\* The papers listed when the call began end the list, behind those that have
\* appeared since; what lies before the place the scan has come to has been
\* looked at; and the scan ended for one of its three reasons.
ScanInv ==
    /\ Len(Listed) <= Len(list)
    /\ \A k \in 1..(Len(list) - Len(Listed)) : list[k] \in Fresh
    /\ \A k \in 1..Len(Listed) : list[k + (Len(list) - Len(Listed))] = Listed[k]
    /\ way = "threshold" =>
         /\ scanned <= Len(list)
         /\ \A k \in 1..scanned : list[k] \in ToSet(Listed) \intersect Liked => Had(list[k])
         /\ exhausted => \A p \in ToSet(Listed) \intersect Liked : Had(p)
         /\ scanPc = "answer" =>
              exhausted \/ Len(items) >= Needed \/ scanned >= MaxUpstream
    /\ way # "threshold" /\ scanPc = "answer" /\ Len(items) < Limit =>
         \A k \in (Offset + 1)..Len(Listed) : Had(Listed[k])

ScanIInv == ScanTypeOK /\ ScanInv

LEMMA ScanConstants ==
    /\ Listed \in Seq(Listable) /\ IsInjective(Listed)
    /\ \A k \in DOMAIN Listed : Listed[k] \in ToSet(Listed) /\ Listed[k] \notin Fresh
    /\ Fresh \subseteq Listable /\ Liked \subseteq Listable
    /\ Offset \in Nat /\ Limit \in Nat \ {0} /\ Needed = Offset + Limit /\ Needed \in Nat
    /\ BatchSize \in Nat \ {0} /\ MaxUpstream \in Nat \ {0}
BY ScanAssumption DEF Listable, ToSet, Needed

LEMMA ScanBegins == ScanInit => ScanIInv
<1> SUFFICES ASSUME ScanInit PROVE ScanIInv
  OBVIOUS
<1>1. Len(Listed) \in Nat /\ Len(list) - Len(Listed) = 0
  BY ScanConstants DEF ScanInit
<1>2. ScanTypeOK
  <2>1. items \in Seq(IF way = "threshold" THEN Liked ELSE Listable)
    BY DEF ScanInit
  <2>2. 0 \in 0..MaxUpstream
    BY ScanConstants
  <2> QED BY <2>1, <2>2, ScanConstants DEF ScanInit, ScanTypeOK
<1>3. ScanInv
  BY <1>1, ScanConstants DEF ScanInit, ScanInv
<1> QED BY <1>2, <1>3 DEF ScanIInv

\* The list grows at its head.
LEMMA AppearKeeps ==
    ASSUME ScanIInv, NEW p \in Fresh, Appear(p)
    PROVE  ScanIInv'
<1> USE ScanConstants
<1>1. list \in Seq(Listable) /\ p \in Listable /\ <<p>> \in Seq(Listable)
  BY DEF ScanIInv, ScanTypeOK
<1>2. /\ list' \in Seq(Listable) /\ Len(list') = Len(list) + 1
      /\ list'[1] = p
      /\ \A k \in 1..Len(list) : list'[k + 1] = list[k]
  BY <1>1 DEF Appear
<1>3. \A k \in 2..Len(list') : list'[k] = list[k - 1]
  BY <1>1, <1>2
<1>4. ScanTypeOK'
  <2>1. \A k \in 1..Len(list) : list[k] # p
    BY <1>1 DEF Appear, Contains
  <2>2. \A i, j \in 1..Len(list) : list[i] = list[j] => i = j
    BY <1>1 DEF ScanIInv, ScanTypeOK, IsInjective
  <2>3. ASSUME NEW i \in 1..Len(list'), NEW j \in 1..Len(list'), list'[i] = list'[j]
        PROVE  i = j
    <3>0. \A k \in 1..Len(list') : k # 1 => list'[k] # p
      <4> TAKE k \in 1..Len(list')
      <4> SUFFICES ASSUME k # 1 PROVE list'[k] # p
        OBVIOUS
      <4>1. k - 1 \in 1..Len(list) /\ k \in 2..Len(list')
        BY <1>1, <1>2
      <4>2. list'[k] = list[k - 1]
        BY <1>3, <4>1
      <4> QED BY <2>1, <4>1, <4>2
    <3>1. CASE i = 1 \/ j = 1
      BY <1>2, <2>3, <3>0, <3>1
    <3>2. CASE i # 1 /\ j # 1
      <4>1. i - 1 \in 1..Len(list) /\ j - 1 \in 1..Len(list)
        BY <1>1, <1>2, <3>2
      <4>2. list[i - 1] = list[j - 1]
        BY <1>1, <1>2, <1>3, <2>3, <3>2
      <4> QED BY <2>2, <4>1, <4>2
    <3> QED BY <3>1, <3>2
  <2>4. IsInjective(list')
    BY <1>2, <2>3 DEF IsInjective
  <2> QED BY <1>2, <2>4 DEF Appear, ScanIInv, ScanTypeOK
<1>5. ScanInv'
  <2>1. Len(Listed) \in Nat /\ Len(list) \in Nat /\ Len(Listed) <= Len(list')
    BY <1>1, <1>2 DEF ScanIInv, ScanInv
  <2>2. ASSUME NEW k \in 1..(Len(list') - Len(Listed)) PROVE list'[k] \in Fresh
    <3>1. CASE k = 1
      BY <1>2, <3>1
    <3>2. CASE k # 1
      <4>1. k - 1 \in 1..(Len(list) - Len(Listed)) /\ list'[k] = list[k - 1]
        BY <1>2, <1>3, <2>1, <3>2
      <4> QED BY <4>1 DEF ScanIInv, ScanInv
    <3> QED BY <3>1, <3>2
  <2>3. ASSUME NEW k \in 1..Len(Listed)
        PROVE  list'[k + (Len(list') - Len(Listed))] = Listed[k]
    <3> DEFINE n == k + (Len(list) - Len(Listed))
    <3>1. n \in 1..Len(list) /\ k + (Len(list') - Len(Listed)) = n + 1
      BY <1>2, <2>1 DEF ScanIInv, ScanInv
    <3>2. list[n] = Listed[k]
      BY DEF ScanIInv, ScanInv
    <3> HIDE DEF n
    <3> QED BY <1>2, <3>1, <3>2
  <2>4. \A q : Had(q)' <=> Had(q)
    BY DEF Appear, Had
  <2>5. ASSUME way = "threshold", NEW k \in 1..scanned, list'[k] \in ToSet(Listed) \intersect Liked
        PROVE  Had(list'[k])
    <3>0. scanned \in Nat /\ scanned <= Len(list)
      BY <2>5 DEF ScanIInv, ScanInv, ScanTypeOK
    <3>1. CASE k = 1
      BY <1>2, <2>5, <3>1 DEF ToSet
    <3>2. CASE k # 1
      <4>1. k - 1 \in 1..scanned /\ list'[k] = list[k - 1]
        BY <1>1, <1>2, <1>3, <3>0, <3>2
      <4> QED BY <2>5, <4>1 DEF ScanIInv, ScanInv
    <3> QED BY <3>1, <3>2
  <2>6. way' = way /\ items' = items /\ scanned' = scanned /\ exhausted' = exhausted
        /\ scanPc' = scanPc
    BY DEF Appear
  <2>7. way = "threshold" => scanned <= Len(list')
    BY <1>2, <2>1 DEF ScanIInv, ScanInv, ScanTypeOK
  <2> QED BY <2>1, <2>2, <2>3, <2>4, <2>5, <2>6, <2>7 DEF ScanIInv, ScanInv
<1> QED BY <1>4, <1>5 DEF ScanIInv

\* A page beyond the end of the list holds all that is left of it.
LEMMA OnePageKeeps ==
    ASSUME ScanIInv, PageAsked, way # "threshold"
    PROVE  ScanIInv'
<1> USE ScanConstants
<1>1. list \in Seq(Listable)
  BY DEF ScanIInv, ScanTypeOK
<1>2. /\ items' \in Seq(Listable)
      /\ Len(items') = IF Len(list) <= Offset THEN 0
                       ELSE IF Len(list) - Offset <= Limit THEN Len(list) - Offset ELSE Limit
      /\ \A k \in 1..Len(items') : items'[k] = list[Offset + k]
  <2>1. IsPage(Page(list, Offset, Limit), Listable, list, Offset, Limit)
    BY <1>1, PageOf
  <2>2. items' = Page(list, Offset, Limit)
    BY DEF PageAsked
  <2> QED BY <1>1, <2>1, <2>2 DEF IsPage
<1>3. ScanTypeOK'
  BY <1>2 DEF ScanIInv, ScanTypeOK, PageAsked
<1>4. ASSUME Len(items') < Limit, NEW k \in (Offset + 1)..Len(Listed)
      PROVE  Had(Listed[k])'
  <2> DEFINE n == k + (Len(list) - Len(Listed))
  <2>1. Len(Listed) \in Nat /\ Len(list) \in Nat /\ Len(Listed) <= Len(list)
    BY <1>1 DEF ScanIInv, ScanInv
  <2>2. k \in 1..Len(Listed) /\ n \in (Offset + 1)..Len(list)
    <3>1. Offset \in Nat /\ k \in Int /\ Offset + 1 <= k /\ k <= Len(Listed)
      BY <2>1
    <3> QED BY <2>1, <3>1
  <2>3. list[n] = Listed[k]
    BY <2>2 DEF ScanIInv, ScanInv
  <2>4. n - Offset \in 1..Len(items') /\ Offset + (n - Offset) = n
    <3>1. Offset \in Nat /\ Limit \in Nat
      OBVIOUS
    <3>2. Len(items') = Len(list) - Offset
      BY <1>2, <1>4, <2>1, <2>2, <3>1
    <3> HIDE DEF n
    <3> QED BY <2>1, <2>2, <3>1, <3>2
  <2>5. items'[n - Offset] = Listed[k]
    BY <1>2, <2>3, <2>4
  <2>6. DOMAIN items' = 1..Len(items')
    BY <1>2
  <2> QED BY <2>4, <2>5, <2>6 DEF Had
<1>5. way' = way /\ list' = list
  BY DEF PageAsked
<1>6. ScanInv'
  BY <1>4, <1>5 DEF ScanIInv, ScanInv
<1> QED BY <1>3, <1>6 DEF ScanIInv

LEMMA ScanPageKeeps ==
    ASSUME ScanIInv, ScanPage
    PROVE  ScanIInv'
<1> USE ScanConstants
<1> DEFINE page == Page(list, scanned, ScanBatch)
           kept == Sifted(page, Liked)
<1>1. /\ list \in Seq(Listable) /\ items \in Seq(Liked)
      /\ scanned \in Nat /\ scanned < MaxUpstream /\ scanned <= Len(list)
      /\ way = "threshold"
  BY DEF ScanIInv, ScanInv, ScanTypeOK, ScanPage, Scanning
<1>2. ScanBatch \in Nat /\ ScanBatch > 0 /\ scanned + ScanBatch <= MaxUpstream
  BY <1>1, MinOfTwo DEF ScanBatch
<1>3. /\ page \in Seq(Listable)
      /\ Len(page) = IF Len(list) - scanned <= ScanBatch THEN Len(list) - scanned ELSE ScanBatch
      /\ \A k \in 1..Len(page) : page[k] = list[scanned + k]
  <2>1. IsPage(Page(list, scanned, ScanBatch), Listable, list, scanned, ScanBatch)
    BY <1>1, <1>2, PageOf
  <2> QED BY <1>1, <1>2, <2>1 DEF IsPage
<1>4. /\ kept \in Seq(Listable \cap Liked)
      /\ \A k \in DOMAIN page : page[k] \in Liked => \E j \in DOMAIN kept : kept[j] = page[k]
  <2> HIDE DEF page
  <2>1. IsSifted(Sifted(page, Liked), Listable, page, Liked)
    BY <1>3, SiftedIs
  <2> QED BY <2>1 DEF IsSifted
<1>5. kept \in Seq(Liked)
  <2>1. Listable \cap Liked \subseteq Liked
    OBVIOUS
  <2> QED BY <1>4, <2>1
<1> HIDE DEF page, kept
<1>6. /\ items' = items \o kept /\ scanned' = scanned + Len(page)
      /\ exhausted' = (Len(page) < ScanBatch)
      /\ scanPc' = IF Len(page) < ScanBatch THEN "answer" ELSE scanPc
      /\ way' = way /\ list' = list
      /\ scanPc = "scan" /\ Len(items) < Needed
  BY DEF ScanPage, Scanning, page, kept
<1>7. scanned' \in 0..MaxUpstream /\ scanned' <= Len(list)
  BY <1>1, <1>2, <1>3, <1>6
<1>8. ScanTypeOK'
  <2>1. items' \in Seq(Liked)
    BY <1>1, <1>5, <1>6
  <2>2. exhausted' \in BOOLEAN
    BY <1>6
  <2>3. scanPc' \in {"scan", "answer", "error"}
    BY <1>6
  <2> QED BY <1>1, <1>6, <1>7, <2>1, <2>2, <2>3 DEF ScanIInv, ScanTypeOK
\* What was had is, and what is liked of the page now is.
<1>9. \A p : Had(p) => Had(p)'
  <2>1. \A j \in DOMAIN items : j \in DOMAIN items' /\ items'[j] = items[j]
    BY <1>1, <1>5, <1>6
  <2> QED BY <2>1 DEF Had
<1>10. ASSUME NEW k \in 1..Len(page), NEW p \in Liked, page[k] = p
       PROVE  Had(p)'
  <2>1. k \in DOMAIN page
    BY <1>3
  <2>2. PICK j \in DOMAIN kept : kept[j] = p
    BY <1>4, <1>10, <2>1
  <2>3. Len(items) + j \in DOMAIN items' /\ items'[Len(items) + j] = kept[j]
    BY <1>1, <1>5, <1>6, <2>2
  <2> QED BY <2>2, <2>3 DEF Had
<1>11. ASSUME NEW k \in 1..scanned', NEW p \in ToSet(Listed) \intersect Liked, list[k] = p
       PROVE  Had(p)'
  <2>1. CASE k <= scanned
    <3>1. Had(p)
      BY <1>1, <1>11, <2>1 DEF ScanIInv, ScanInv
    <3> QED BY <1>9, <3>1
  <2>2. CASE k > scanned
    <3>1. k - scanned \in 1..Len(page) /\ scanned + (k - scanned) = k
      BY <1>1, <1>3, <1>6, <2>2
    <3>2. page[k - scanned] = list[k]
      BY <1>3, <3>1
    <3> QED BY <1>10, <1>11, <3>1, <3>2
  <2> QED BY <1>1, <2>1, <2>2
<1>12. ASSUME Len(page) < ScanBatch, NEW p \in ToSet(Listed) \intersect Liked
       PROVE  Had(p)'
  <2>1. PICK k \in 1..Len(Listed) : Listed[k] = p
    BY DEF ToSet
  <2> DEFINE n == k + (Len(list) - Len(Listed))
  <2>2. n \in 1..Len(list) /\ list[n] = p
    BY <1>1, <2>1 DEF ScanIInv, ScanInv
  <2>3. scanned' = Len(list)
    BY <1>1, <1>2, <1>3, <1>6, <1>12
  <2> QED BY <1>11, <2>2, <2>3
<1>13. ScanInv'
  BY <1>1, <1>6, <1>7, <1>11, <1>12 DEF ScanIInv, ScanInv
<1> QED BY <1>8, <1>13 DEF ScanIInv

LEMMA ScanStops ==
    ASSUME ScanIInv, ScanFails \/ ScanEnds
    PROVE  ScanIInv'
<1>1. /\ way' = way /\ list' = list /\ items' = items /\ scanned' = scanned
      /\ exhausted' = exhausted /\ scanPc' \in {"answer", "error"}
  BY DEF ScanFails, ScanEnds
<1>2. scanPc' = "answer" => way = "threshold" /\ (Len(items) >= Needed \/ scanned >= MaxUpstream)
  BY ScanConstants DEF ScanFails, ScanEnds, Scanning, ScanIInv, ScanTypeOK
<1>3. ScanTypeOK'
  BY <1>1 DEF ScanIInv, ScanTypeOK
<1>4. ScanInv'
  BY <1>1, <1>2 DEF ScanIInv, ScanInv, Had
<1> QED BY <1>3, <1>4 DEF ScanIInv

LEMMA ScanIInvAlways == ScanSpec => []ScanIInv
<1>1. ScanIInv /\ [ScanNext]_scanVars => ScanIInv'
  <2> SUFFICES ASSUME ScanIInv, [ScanNext]_scanVars PROVE ScanIInv'
    OBVIOUS
  <2>1. CASE UNCHANGED scanVars
    BY <2>1 DEF ScanIInv, ScanTypeOK, ScanInv, Had, scanVars
  <2>2. CASE ScanNext
    BY <2>2, AppearKeeps, OnePageKeeps, ScanPageKeeps, ScanStops
       DEF ScanNext, CitationsPage, ReferencesPage
  <2> QED BY <2>1, <2>2
<1> QED BY ScanBegins, <1>1, PTL DEF ScanSpec

\* A short page without a warning is the end, whatever is listed, asked for and
\* capped, and however many papers appear meanwhile (get_citations,
\* _scan_citations_for_threshold).
THEOREM ShortPages == ScanSpec => []ShortPageIsTheEnd
<1>1. ScanIInv => ShortPageIsTheEnd
  <2> SUFFICES ASSUME ScanIInv, scanPc = "answer", Len(Data) < Limit, ~Warning
               PROVE  IF way = "threshold"
                      THEN ToSet(Listed) \intersect Liked \subseteq ToSet(items)
                      ELSE ToSet(SubSeq(Listed, Offset + 1, Len(Listed))) \subseteq ToSet(items)
    BY DEF ShortPageIsTheEnd, ScanIInv
  <2> USE ScanConstants
  <2>0. \A p : Had(p) => p \in ToSet(items)
    BY DEF Had, ToSet
  <2>1. CASE way = "threshold"
    <3>1. items \in Seq(Liked) /\ scanned \in Nat
      BY <2>1 DEF ScanIInv, ScanTypeOK
    <3>2. Len(items) < Needed
      <4>1. IsPage(Page(items, Offset, Limit), Liked, items, Offset, Limit)
        BY <3>1, PageOf
      <4> QED BY <2>1, <3>1, <4>1 DEF Data, IsPage
    <3>3. exhausted
      BY <2>1, <3>1, <3>2 DEF ScanIInv, ScanInv, Warning
    <3> QED BY <2>0, <2>1, <3>3 DEF ScanIInv, ScanInv
  <2>2. CASE way # "threshold"
    <3>1. \A k \in (Offset + 1)..Len(Listed) : Had(Listed[k])
      BY <2>2 DEF Data, ScanIInv, ScanInv
    <3>2. \A p \in ToSet(SubSeq(Listed, Offset + 1, Len(Listed))) :
             \E k \in (Offset + 1)..Len(Listed) : Listed[k] = p
      BY RestHas
    <3> QED BY <2>0, <2>2, <3>1, <3>2
  <2> QED BY <2>1, <2>2
<1> QED BY ScanIInvAlways, <1>1, PTL
-----------------------------------------------------------------------------
(* The searches for a bridge.                                                  *)

SearchState ==
    [pc : {"pop", "ask", "fetch", "store", "done"},
     queue : Seq(Seq(Library)), visited : SUBSET Library,
     path : Seq(Library), kinds : Seq({"references", "citations"}),
     page : SUBSET Library, found : SUBSET Library,
     failures : Nat, answer : Seq(Library)]

\* What BridgeTypeOK says of one search.
Typed(s) ==
    /\ s \in SearchState
    /\ \A k \in DOMAIN s.queue : s.queue[k] \in Seq(s.visited)
    /\ s.pc \in {"ask", "fetch", "store"} <=> s.kinds # <<>>

\* All that S2 lists next to a paper in a search's direction.
Neighbours(c, p) == UNION {Linked(Kinds[c][j], p) : j \in DOMAIN Kinds[c]}

IsWalk(c, w) ==
    /\ w \in Seq(Library) /\ w # <<>>
    /\ w[1] = Source[c]
    /\ \A k \in 1..(Len(w) - 1) : w[k + 1] \in Neighbours(c, w[k])

\* A search's paths are walks, and what it holds of a list is in that list; it
\* extends no path of more than MaxDepth hops.
RealCall(c, s) ==
    /\ \A k \in DOMAIN s.queue : IsWalk(c, s.queue[k])
    /\ s.kinds # <<>> =>
         /\ IsWalk(c, s.path) /\ s.path \in Seq(s.visited) /\ Len(s.path) <= MaxDepth + 1
         /\ \A k \in DOMAIN s.kinds : \E j \in DOMAIN Kinds[c] : s.kinds[k] = Kinds[c][j]
         /\ s.found \subseteq Neighbours(c, Last(s.path))
         /\ s.pc = "store" => s.page \subseteq Linked(Head(s.kinds), Last(s.path))
    /\ s.pc # "done" => s.answer = <<>>
    /\ s.answer # <<>> =>
         IsWalk(c, s.answer) /\ Last(s.answer) = Target[c] /\ Len(s.answer) <= MaxDepth + 2

ListsReal == \A entry \in DOMAIN lists : lists[entry] \subseteq Linked(entry[1], entry[2])

RealInv ==
    /\ BridgeTypeOK
    /\ ListsReal
    /\ \A c \in Searchers : RealCall(c, search[c])

LEMMA BridgeConstants ==
    /\ IsFiniteSet(Library) /\ MaxDepth \in Nat /\ ListLimit \in Nat \ {0}
    /\ \A c \in Searchers :
          /\ Source[c] \in Library /\ Target[c] \in Library
          /\ Kinds[c] \in Seq({"references", "citations"}) /\ Kinds[c] # <<>>
BY SearchAssumption

LEMMA TypedCalls ==
    BridgeTypeOK <=>
        /\ links \in Literatures
        /\ DOMAIN lists \subseteq {"references", "citations"} \X Library
        /\ \A entry \in DOMAIN lists : lists[entry] \subseteq Library
        /\ search = [c \in Searchers |-> search[c]]
        /\ \A c \in Searchers : Typed(search[c])
BY DEF BridgeTypeOK, Typed, SearchState

LEMMA LinkedPapers ==
    ASSUME links \in Literatures, NEW kind, NEW p \in Library
    PROVE  Linked(kind, p) \subseteq Library
BY SearchAssumption DEF Linked

\* A set becomes a sequence of its members.
LEMMA SequenceOf ==
    ASSUME NEW S, IsFiniteSet(S)
    PROVE  /\ SetToSeq(S) \in Seq(S) /\ \A x \in S : \E k \in DOMAIN SetToSeq(S) : SetToSeq(S)[k] = x
           /\ Len(SetToSeq(S)) = Cardinality(S)
<1> DEFINE n == Cardinality(S)
           f == SetToSeq(S)
<1>1. n \in Nat /\ ExistsBijection(1..n, S)
  BY FS_CardinalityType
<1>2. \E g \in [1..n -> S] : IsInjective(g)
  BY <1>1 DEF ExistsBijection, Bijection, Injection
<1>3. f \in [1..n -> S] /\ IsInjective(f)
  BY <1>2 DEF SetToSeq
<1>4. f \in Injection(1..n, S)
  BY <1>3 DEF Injection
<1>5. Cardinality(1..n) = n
  BY <1>1, FS_Interval
<1> HIDE DEF f
<1>6. f \in Surjection(1..n, S)
  BY <1>4, <1>5, FS_Injection
<1>7. \A x \in S : \E k \in 1..n : f[k] = x
  BY <1>6 DEF Surjection
<1>8. f \in Seq(S) /\ DOMAIN f = 1..n /\ Len(f) = n
  BY <1>1, <1>3
<1> QED BY <1>7, <1>8 DEF f

\* A walk goes on to a neighbour of its end.
LEMMA WalkGoesOn ==
    ASSUME NEW c \in Searchers, NEW w, IsWalk(c, w),
           NEW p \in Library, p \in Neighbours(c, Last(w))
    PROVE  /\ IsWalk(c, Append(w, p)) /\ Last(Append(w, p)) = p
           /\ Len(Append(w, p)) = Len(w) + 1
<1>1. w \in Seq(Library) /\ Len(w) \in Nat /\ Len(w) > 0
  BY DEF IsWalk
<1>2. /\ Append(w, p) \in Seq(Library) /\ Len(Append(w, p)) = Len(w) + 1
      /\ \A k \in 1..Len(w) : Append(w, p)[k] = w[k]
      /\ Append(w, p)[Len(w) + 1] = p
  BY <1>1
<1>3. ASSUME NEW k \in 1..Len(w) PROVE Append(w, p)[k + 1] \in Neighbours(c, Append(w, p)[k])
  <2>1. CASE k = Len(w)
    BY <1>2, <2>1 DEF Last
  <2>2. CASE k # Len(w)
    <3>1. k \in 1..(Len(w) - 1) /\ k + 1 \in 1..Len(w)
      BY <1>1, <2>2
    <3> QED BY <1>2, <3>1 DEF IsWalk
  <2> QED BY <2>1, <2>2
<1>4. IsWalk(c, Append(w, p))
  BY <1>1, <1>2, <1>3 DEF IsWalk
<1> QED BY <1>1, <1>2, <1>4 DEF Last

\* The walks of the module, and those here.
LEMMA WalkOfHops ==
    ASSUME NEW c \in Searchers, NEW w, IsWalk(c, w)
    PROVE  w \in Walks(c, Len(w) - 1)
<1>1. w \in Seq(Library) /\ Len(w) \in Nat /\ Len(w) > 0
  BY DEF IsWalk
<1>2. w \in [1..((Len(w) - 1) + 1) -> Library]
  BY <1>1
<1>3. \A k \in 1..(Len(w) - 1) : \E j \in DOMAIN Kinds[c] : w[k + 1] \in Linked(Kinds[c][j], w[k])
  BY DEF IsWalk, Neighbours
<1> QED BY <1>2, <1>3 DEF IsWalk, Walks

-----------------------------------------------------------------------------
(* What the steps make of the record of a search.                              *)

Received(s, ids, failed) ==
    [s EXCEPT !.found = @ \union ids, !.failures = @ + failed, !.kinds = Tail(@),
              !.page = {}, !.pc = "ask"]

Advanced(c, s, ids, failed) ==
    IF Received(s, ids, failed).kinds # <<>> THEN Received(s, ids, failed)
    ELSE Extend(c, Received(s, ids, failed), Received(s, ids, failed).found)

LEMMA ReceivedIs ==
    ASSUME NEW s \in SearchState, s.kinds # <<>>, NEW ids \in SUBSET Library, NEW failed \in {0, 1},
           NEW r, r = Received(s, ids, failed)
    PROVE  /\ r \in SearchState
           /\ r.found = s.found \union ids /\ r.failures = s.failures + failed
           /\ r.kinds = Tail(s.kinds) /\ r.page = {} /\ r.pc = "ask"
           /\ r.queue = s.queue /\ r.visited = s.visited /\ r.path = s.path /\ r.answer = s.answer
<1>1. /\ r.found = s.found \union ids /\ r.failures = s.failures + failed
      /\ r.kinds = Tail(s.kinds) /\ r.page = {} /\ r.pc = "ask"
      /\ r.queue = s.queue /\ r.visited = s.visited /\ r.path = s.path /\ r.answer = s.answer
  BY DEF Received, SearchState
<1>2. /\ s.found \union ids \subseteq Library /\ s.failures + failed \in Nat
      /\ Tail(s.kinds) \in Seq({"references", "citations"})
  BY DEF SearchState
<1>3. r \in SearchState
  BY <1>2 DEF Received, SearchState
<1> QED BY <1>1, <1>3

\* The target is found, or the new neighbours queue up behind the others.
Reaches(c, s, r) ==
    /\ r.pc = "done" /\ r.answer = Append(s.path, Target[c])
    /\ r.queue = s.queue /\ r.visited = s.visited

Queues(s, near, r) ==
    /\ r.pc = "pop" /\ r.answer = s.answer
    /\ r.visited = s.visited \union near
    /\ \E new \in Seq(near \ s.visited) :
         /\ \A p \in near \ s.visited : \E k \in DOMAIN new : new[k] = p
         /\ r.queue = s.queue \o [k \in DOMAIN new |-> Append(s.path, new[k])]

LEMMA ExtendIs ==
    ASSUME NEW c \in Searchers, NEW s \in SearchState, NEW near \in SUBSET Library,
           NEW r, r = Extend(c, s, near)
    PROVE  /\ r \in SearchState
           /\ r.path = s.path /\ r.kinds = s.kinds /\ r.page = s.page /\ r.found = s.found
           /\ r.failures = s.failures
           /\ Target[c] \in near => Reaches(c, s, r)
           /\ Target[c] \notin near => Queues(s, near, r)
<1>1. IsFiniteSet(near \ s.visited)
  BY BridgeConstants, FS_Subset
<1> DEFINE new == SetToSeq(near \ s.visited)
           tails == [k \in DOMAIN new |-> Append(s.path, new[k])]
<1>2. new \in Seq(near \ s.visited) /\ \A p \in near \ s.visited : \E k \in DOMAIN new : new[k] = p
  BY <1>1, SequenceOf
<1>3. CASE Target[c] \in near
  <2>1. Append(s.path, Target[c]) \in Seq(Library)
    BY <1>3 DEF SearchState
  <2>2. r = [s EXCEPT !.pc = "done", !.answer = Append(s.path, Target[c])]
    BY <1>3 DEF Extend
  <2> QED BY <1>3, <2>1, <2>2 DEF SearchState, Reaches
<1>4. CASE Target[c] \notin near
  <2>1. s.queue \o tails \in Seq(Seq(Library))
    <3>1. \A k \in DOMAIN new : Append(s.path, new[k]) \in Seq(Library)
      <4>1. \A k \in DOMAIN new : new[k] \in Library
        BY <1>2
      <4> HIDE DEF new
      <4> QED BY <4>1 DEF SearchState
    <3>2. DOMAIN new = 1..Len(new) /\ Len(new) \in Nat
      BY <1>2
    <3> HIDE DEF new
    <3>3. tails \in Seq(Seq(Library))
      BY <3>1, <3>2
    <3> HIDE DEF tails
    <3> QED BY <3>3 DEF SearchState
  <2>2. r = [s EXCEPT !.pc = "pop", !.visited = @ \union near, !.queue = @ \o tails]
    BY <1>4 DEF Extend
  <2>3. /\ r.pc = "pop" /\ r.visited = s.visited \union near /\ r.queue = s.queue \o tails
        /\ r.path = s.path /\ r.kinds = s.kinds /\ r.page = s.page /\ r.found = s.found
        /\ r.failures = s.failures /\ r.answer = s.answer
    <3> HIDE DEF tails, new
    <3> QED BY <2>2 DEF SearchState
  <2>4. r \in SearchState
    <3>1. s.visited \union near \subseteq Library
      BY DEF SearchState
    <3> HIDE DEF tails, new
    <3> QED BY <2>1, <2>2, <3>1 DEF SearchState
  <2>5. Queues(s, near, r)
    BY <1>2, <2>3 DEF Queues
  <2> HIDE DEF tails, new
  <2> QED BY <1>4, <2>3, <2>4, <2>5
<1> QED BY <1>3, <1>4

\* What queues up: the paths there were, then the path with each new neighbour.
Lengthened(q, path, new, r) ==
    /\ r \in Seq(Seq(Library)) /\ Len(r) = Len(q) + Len(new)
    /\ DOMAIN r = 1..Len(r) /\ DOMAIN q = 1..Len(q) /\ DOMAIN new = 1..Len(new)
    /\ \A k \in 1..Len(q) : r[k] = q[k]
    /\ \A k \in 1..Len(new) : r[Len(q) + k] = Append(path, new[k])
    /\ \A k \in (Len(q) + 1)..Len(r) :
         k - Len(q) \in 1..Len(new) /\ r[k] = Append(path, new[k - Len(q)])

LEMMA QueueIs ==
    ASSUME NEW q \in Seq(Seq(Library)), NEW path \in Seq(Library), NEW V \in SUBSET Library,
           NEW new \in Seq(V),
           NEW r, r = q \o [k \in DOMAIN new |-> Append(path, new[k])]
    PROVE  Lengthened(q, path, new, r)
<1> DEFINE tails == [k \in DOMAIN new |-> Append(path, new[k])]
<1>1. DOMAIN new = 1..Len(new) /\ Len(new) \in Nat /\ \A k \in 1..Len(new) : new[k] \in Library
  OBVIOUS
<1>2. \A k \in 1..Len(new) : Append(path, new[k]) \in Seq(Library)
  BY <1>1
<1>3. tails \in Seq(Seq(Library)) /\ Len(tails) = Len(new)
      /\ \A k \in 1..Len(new) : tails[k] = Append(path, new[k])
  BY <1>1, <1>2
<1> HIDE DEF tails
<1>4. r = q \o tails
  BY DEF tails
<1>5. /\ r \in Seq(Seq(Library)) /\ Len(r) = Len(q) + Len(new)
      /\ \A k \in 1..Len(r) : r[k] = IF k <= Len(q) THEN q[k] ELSE tails[k - Len(q)]
  <2> DEFINE S == Seq(Library)
  <2>1. q \in Seq(S) /\ tails \in Seq(S)
    BY <1>3
  <2> HIDE DEF S
  <2>2. /\ q \o tails \in Seq(S) /\ Len(q \o tails) = Len(q) + Len(tails)
        /\ \A i \in 1..(Len(q) + Len(tails)) :
             (q \o tails)[i] = IF i <= Len(q) THEN q[i] ELSE tails[i - Len(q)]
    BY <2>1, ConcatProperties
  <2> QED BY <1>3, <1>4, <2>2 DEF S
<1>6. /\ Len(q) \in Nat /\ DOMAIN r = 1..Len(r) /\ DOMAIN q = 1..Len(q)
  BY <1>5
<1>7. \A k \in 1..Len(q) : r[k] = q[k]
  BY <1>1, <1>5, <1>6
<1>8. \A k \in (Len(q) + 1)..Len(r) : 
         k - Len(q) \in 1..Len(new) /\ r[k] = Append(path, new[k - Len(q)])
  BY <1>1, <1>3, <1>5, <1>6
<1>9. ASSUME NEW k \in 1..Len(new) PROVE r[Len(q) + k] = Append(path, new[k])
  <2>1. Len(q) + k \in (Len(q) + 1)..Len(r) /\ (Len(q) + k) - Len(q) = k
    BY <1>1, <1>5, <1>6
  <2> QED BY <1>8, <2>1
<1> QED BY <1>1, <1>5, <1>6, <1>7, <1>8, <1>9 DEF Lengthened

-----------------------------------------------------------------------------
(* Paths are walks.                                                            *)

LEMMA ExtendReal ==
    ASSUME NEW c \in Searchers, NEW s \in SearchState, NEW near \in SUBSET Library,
           NEW r, r = Extend(c, s, near),
           IsWalk(c, s.path), s.path \in Seq(s.visited), near \subseteq Neighbours(c, Last(s.path)),
           Len(s.path) <= MaxDepth + 1, s.answer = <<>>, s.kinds = <<>>,
           \A k \in DOMAIN s.queue : IsWalk(c, s.queue[k]) /\ s.queue[k] \in Seq(s.visited)
    PROVE  Typed(r) /\ RealCall(c, r)
<1> USE BridgeConstants
<1>1. /\ r \in SearchState
      /\ r.path = s.path /\ r.kinds = s.kinds /\ r.page = s.page /\ r.found = s.found
      /\ Target[c] \in near => Reaches(c, s, r)
      /\ Target[c] \notin near => Queues(s, near, r)
  BY ExtendIs
<1>2. CASE Target[c] \in near
  <2>1. IsWalk(c, r.answer) /\ Last(r.answer) = Target[c] /\ Len(r.answer) <= MaxDepth + 2
    <3>1. r.answer = Append(s.path, Target[c])
      BY <1>1, <1>2 DEF Reaches
    <3>2. Target[c] \in Library /\ Target[c] \in Neighbours(c, Last(s.path))
      BY <1>2
    <3>3. /\ IsWalk(c, Append(s.path, Target[c])) /\ Last(Append(s.path, Target[c])) = Target[c]
          /\ Len(Append(s.path, Target[c])) = Len(s.path) + 1
      BY <3>2, WalkGoesOn
    <3>4. Len(s.path) \in Nat
      BY DEF IsWalk
    <3> QED BY <3>1, <3>3, <3>4
  <2> QED BY <1>1, <1>2, <2>1 DEF Typed, RealCall, Reaches
<1>3. CASE Target[c] \notin near
  <2>1. PICK new \in Seq(near \ s.visited) :
          r.queue = s.queue \o [k \in DOMAIN new |-> Append(s.path, new[k])]
    BY <1>1, <1>3 DEF Queues
  <2>2. s.queue \in Seq(Seq(Library)) /\ s.path \in Seq(Library)
    BY DEF SearchState
  <2>3. Lengthened(s.queue, s.path, new, r.queue)
    <3>1. near \ s.visited \in SUBSET Library
      OBVIOUS
    <3> QED BY <2>1, <2>2, <3>1, QueueIs
  <2>4. s.visited \subseteq r.visited /\ near \subseteq r.visited
    BY <1>1, <1>3 DEF Queues
  <2>5. ASSUME NEW k \in DOMAIN r.queue
        PROVE  IsWalk(c, r.queue[k]) /\ r.queue[k] \in Seq(r.visited)
    <3>1. CASE k <= Len(s.queue)
      <4>1. k \in DOMAIN s.queue /\ r.queue[k] = s.queue[k]
        <5>1. k \in 1..Len(s.queue) /\ DOMAIN s.queue = 1..Len(s.queue)
          BY <2>2, <2>3, <3>1 DEF Lengthened
        <5> QED BY <2>3, <5>1 DEF Lengthened
      <4>2. Seq(s.visited) \subseteq Seq(r.visited)
        BY <2>4
      <4> QED BY <4>1, <4>2
    <3>2. CASE k > Len(s.queue)
      <4>1. k \in (Len(s.queue) + 1)..Len(r.queue)
        BY <2>2, <2>3, <3>2 DEF Lengthened
      <4>2. PICK p \in near : r.queue[k] = Append(s.path, p)
        <5>1. PICK j \in 1..Len(new) : r.queue[k] = Append(s.path, new[j])
          BY <2>3, <4>1 DEF Lengthened
        <5>2. new[j] \in near
          BY <2>3 DEF Lengthened
        <5> QED BY <5>1, <5>2
      <4>3. IsWalk(c, r.queue[k])
        BY <4>2, WalkGoesOn
      <4>4. s.path \in Seq(r.visited) /\ p \in r.visited
        <5>1. Seq(s.visited) \subseteq Seq(r.visited)
          BY <2>4
        <5> QED BY <2>4, <4>2, <5>1
      <4>5. r.queue[k] \in Seq(r.visited)
        <5>1. Append(s.path, p) \in Seq(r.visited)
          BY <4>4, AppendProperties
        <5> QED BY <4>2, <5>1
      <4> QED BY <4>3, <4>5
    <3> QED BY <2>2, <2>3, <3>1, <3>2 DEF Lengthened
  <2> QED BY <1>1, <1>3, <2>5 DEF Typed, RealCall, Queues
<1> QED BY <1>2, <1>3

LEMMA LinkedIsNear ==
    ASSUME NEW c \in Searchers, NEW s, NEW k \in DOMAIN s.kinds,
           \E j \in DOMAIN Kinds[c] : s.kinds[k] = Kinds[c][j]
    PROVE  Linked(s.kinds[k], Last(s.path)) \subseteq Neighbours(c, Last(s.path))
BY DEF Neighbours

LEMMA AdvancedReal ==
    ASSUME links \in Literatures, NEW c \in Searchers, NEW s, Typed(s), RealCall(c, s), s.kinds # <<>>,
           NEW ids, ids \subseteq Linked(Head(s.kinds), Last(s.path)), NEW failed \in {0, 1},
           NEW r, r = Advanced(c, s, ids, failed)
    PROVE  Typed(r) /\ RealCall(c, r)
<1>1. s \in SearchState /\ s.path \in Seq(Library) /\ s.path # <<>> /\ IsWalk(c, s.path)
  BY DEF Typed, RealCall, SearchState, IsWalk
<1>2. Last(s.path) \in Library
  BY <1>1 DEF Last
<1>3. ids \in SUBSET Library
  BY <1>2, LinkedPapers
<1>4. PICK m : m = Received(s, ids, failed)
  OBVIOUS
<1>5. /\ m \in SearchState
      /\ m.found = s.found \union ids /\ m.failures = s.failures + failed
      /\ m.kinds = Tail(s.kinds) /\ m.page = {} /\ m.pc = "ask"
      /\ m.queue = s.queue /\ m.visited = s.visited /\ m.path = s.path /\ m.answer = s.answer
  BY <1>1, <1>3, <1>4, ReceivedIs
<1>6. s.kinds \in Seq({"references", "citations"}) /\ Head(s.kinds) = s.kinds[1] /\ 1 \in DOMAIN s.kinds
  BY <1>1 DEF SearchState
<1>7. /\ DOMAIN s.kinds = 1..Len(s.kinds) /\ Len(s.kinds) \in Nat
      /\ Tail(s.kinds) \in Seq({"references", "citations"})
      /\ Len(Tail(s.kinds)) = Len(s.kinds) - 1
      /\ \A k \in DOMAIN Tail(s.kinds) :
           k + 1 \in DOMAIN s.kinds /\ Tail(s.kinds)[k] = s.kinds[k + 1]
  BY <1>6
<1>8. m.found \subseteq Neighbours(c, Last(m.path))
  <2>1. ids \subseteq Neighbours(c, Last(s.path))
    BY <1>6, LinkedIsNear DEF RealCall
  <2> QED BY <1>5, <2>1 DEF RealCall
<1>9. s.answer = <<>>
  BY DEF Typed, RealCall
<1>10. CASE m.kinds # <<>>
  <2>1. r = m
    BY <1>4, <1>10 DEF Advanced
  <2>2. \A k \in DOMAIN m.kinds : \E j \in DOMAIN Kinds[c] : m.kinds[k] = Kinds[c][j]
    BY <1>5, <1>7 DEF RealCall
  <2>3. Typed(m)
    BY <1>5, <1>10 DEF Typed
  <2>4. RealCall(c, m)
    BY <1>5, <1>8, <1>9, <1>10, <2>2 DEF RealCall
  <2> QED BY <2>1, <2>3, <2>4
<1>11. CASE m.kinds = <<>>
  <2>1. r = Extend(c, m, m.found)
    BY <1>4, <1>11 DEF Advanced
  <2>2. m.found \in SUBSET Library
    BY <1>5 DEF SearchState
  <2>3. \A k \in DOMAIN m.queue : IsWalk(c, m.queue[k]) /\ m.queue[k] \in Seq(m.visited)
    BY <1>5 DEF Typed, RealCall
  <2>4. /\ IsWalk(c, m.path) /\ m.path \in Seq(m.visited) /\ m.answer = <<>>
        /\ Len(m.path) <= MaxDepth + 1
    BY <1>5, <1>9 DEF RealCall
  <2> QED BY <1>5, <1>8, <1>11, <2>1, <2>2, <2>3, <2>4, ExtendReal
<1> QED BY <1>10, <1>11

\* The literature stands still, so what was a walk is one.
LEMMA RealStays ==
    ASSUME links' = links, NEW c, NEW s, RealCall(c, s)
    PROVE  RealCall(c, s)'
<1>1. \A kind, p : Linked(kind, p)' = Linked(kind, p)
  BY DEF Linked
<1>2. \A p : Neighbours(c, p)' = Neighbours(c, p)
  BY <1>1 DEF Neighbours
<1>3. \A w : IsWalk(c, w)' <=> IsWalk(c, w)
  BY <1>2 DEF IsWalk
<1>4. /\ \A k \in DOMAIN s.queue : IsWalk(c, s.queue[k])'
      /\ s.kinds # <<>> => IsWalk(c, s.path)'
      /\ s.answer # <<>> => IsWalk(c, s.answer)'
  BY <1>3 DEF RealCall
<1>5. s.kinds # <<>> =>
        /\ s.found \subseteq Neighbours(c, Last(s.path))'
        /\ s.pc = "store" => s.page \subseteq Linked(Head(s.kinds), Last(s.path))'
  BY <1>1, <1>2 DEF RealCall
<1> QED BY <1>4, <1>5 DEF RealCall

\* A search moves, the others stand still.
LEMMA RealMoves ==
    ASSUME RealInv, NEW c \in Searchers, NEW r, Becomes(c, r), Typed(r), RealCall(c, r),
           links' = links,
           DOMAIN lists' \subseteq {"references", "citations"} \X Library,
           \A entry \in DOMAIN lists' : lists'[entry] \subseteq Linked(entry[1], entry[2])
    PROVE  RealInv'
<1>1. /\ search' = [d \in Searchers |-> search'[d]] /\ search'[c] = r
      /\ \A d \in Searchers \ {c} : search'[d] = search[d]
  <2>1. search = [d \in Searchers |-> search[d]]
    BY TypedCalls DEF RealInv
  <2> QED BY <2>1 DEF Becomes
<1>2. ASSUME NEW d \in Searchers PROVE Typed(search'[d]) /\ RealCall(d, search'[d])
  <2>1. CASE d = c
    BY <1>1, <2>1
  <2>2. CASE d # c
    <3>1. search'[d] = search[d]
      BY <1>1, <2>2
    <3> QED BY <3>1, TypedCalls DEF RealInv
  <2> QED BY <2>1, <2>2
<1>3. ASSUME NEW entry \in DOMAIN lists'
      PROVE  lists'[entry] \subseteq Library /\ lists'[entry] \subseteq Linked(entry[1], entry[2])'
  <2>1. entry[2] \in Library
    OBVIOUS
  <2>2. Linked(entry[1], entry[2]) \subseteq Library
    BY <2>1, LinkedPapers DEF RealInv, BridgeTypeOK
  <2>3. Linked(entry[1], entry[2])' = Linked(entry[1], entry[2])
    BY DEF Linked
  <2> QED BY <2>2, <2>3
<1>4. BridgeTypeOK'
  <2>1. links' \in Literatures
    BY TypedCalls DEF RealInv
  <2>2. \A d \in Searchers : Typed(search'[d])
    BY <1>2
  <2> QED BY <1>1, <1>3, <2>1, <2>2 DEF BridgeTypeOK, Typed, SearchState
<1>5. ListsReal'
  BY <1>3 DEF ListsReal
<1>6. \A d \in Searchers : RealCall(d, search[d])'
  <2> TAKE d \in Searchers
  <2>1. PICK s : s = search'[d]
    OBVIOUS
  <2>2. RealCall(d, s)'
    BY <1>2, <2>1, RealStays
  <2> QED BY <2>1, <2>2 DEF RealCall
<1> QED BY <1>4, <1>5, <1>6 DEF RealInv

LEMMA RealBegins == BridgeInit => RealInv
<1> SUFFICES ASSUME BridgeInit PROVE RealInv
  OBVIOUS
<1>1. DOMAIN lists = {} /\ links \in Literatures /\ search = [c \in Searchers |-> search[c]]
  BY DEF BridgeInit
<1>2. ASSUME NEW c \in Searchers
      PROVE  Typed(search[c]) /\ RealCall(c, search[c])
  <2>1. search[c] = Start(c)
    BY DEF BridgeInit
  <2>2. Source[c] \in Library
    BY BridgeConstants
  <2> DEFINE s == Start(c)
  <2>3. s \in SearchState
    BY <2>2 DEF Start, SearchState
  <2>4. /\ s.queue = << <<Source[c]>> >> /\ s.visited = {Source[c]} /\ s.kinds = <<>>
        /\ s.pc = "pop" /\ s.answer = <<>>
    BY DEF Start
  <2>5. \A k \in DOMAIN s.queue : s.queue[k] = <<Source[c]>>
    BY <2>4
  <2>6. IsWalk(c, <<Source[c]>>) /\ <<Source[c]>> \in Seq(s.visited)
    BY <2>2, <2>4 DEF IsWalk
  <2>7. Typed(s) /\ RealCall(c, s)
    <3> HIDE DEF s
    <3> QED BY <2>3, <2>4, <2>5, <2>6 DEF Typed, RealCall
  <2> QED BY <2>1, <2>7
<1>3. BridgeTypeOK
  BY <1>1, <1>2, TypedCalls
<1> QED BY <1>1, <1>2, <1>3 DEF RealInv, ListsReal

\* What is known of a search whose turn it is.
LEMMA SearchHas ==
    ASSUME RealInv, NEW c \in Searchers, NEW s, s = search[c]
    PROVE  /\ links \in Literatures /\ Typed(s) /\ RealCall(c, s) /\ s \in SearchState
           /\ s.kinds # <<>> =>
                Last(s.path) \in Library /\ Entry(c) = <<Head(s.kinds), Last(s.path)>>
<1>1. links \in Literatures /\ Typed(s) /\ RealCall(c, s) /\ s \in SearchState
  BY TypedCalls DEF RealInv, Typed
<1>2. s.kinds # <<>> => Last(s.path) \in Library
  BY <1>1 DEF RealCall, IsWalk, Last
<1> QED BY <1>1, <1>2 DEF Entry

LEMMA PopReal ==
    ASSUME RealInv, NEW c \in Searchers, PopPath(c)
    PROVE  RealInv'
<1> USE BridgeConstants
<1>1. PICK s : s = search[c]
  OBVIOUS
<1>2. Typed(s) /\ RealCall(c, s) /\ s \in SearchState
  BY <1>1, SearchHas
<1>3. s.pc = "pop" /\ s.queue # <<>> /\ s.queue \in Seq(Seq(Library)) /\ s.answer = <<>>
      /\ s.kinds = <<>>
  BY <1>1, <1>2 DEF PopPath, At, SearchState, Typed, RealCall
<1>4. /\ Head(s.queue) = s.queue[1] /\ 1 \in DOMAIN s.queue
      /\ Tail(s.queue) \in Seq(Seq(Library))
      /\ \A k \in DOMAIN Tail(s.queue) : k + 1 \in DOMAIN s.queue /\ Tail(s.queue)[k] = s.queue[k + 1]
  BY <1>3
<1> DEFINE path == Head(s.queue)
           dropped == [s EXCEPT !.queue = Tail(@)]
           taken == [dropped EXCEPT !.path = path, !.kinds = Kinds[c], !.found = {}, !.pc = "ask"]
<1>5. IsWalk(c, path) /\ path \in Seq(Library) /\ path \in Seq(s.visited)
  BY <1>2, <1>3, <1>4 DEF RealCall, Typed
<1>6. \A k \in DOMAIN Tail(s.queue) :
         IsWalk(c, Tail(s.queue)[k]) /\ Tail(s.queue)[k] \in Seq(s.visited)
  BY <1>2, <1>4 DEF RealCall, Typed
<1>7. Typed(dropped) /\ RealCall(c, dropped)
  <2>1. /\ dropped \in SearchState
        /\ dropped.queue = Tail(s.queue) /\ dropped.kinds = s.kinds /\ dropped.pc = s.pc
        /\ dropped.answer = s.answer /\ dropped.visited = s.visited
    BY <1>2, <1>4 DEF SearchState
  <2> HIDE DEF dropped
  <2> QED BY <1>3, <1>6, <2>1 DEF Typed, RealCall
<1>8. ASSUME Len(path) <= MaxDepth + 1 PROVE Typed(taken) /\ RealCall(c, taken)
  <2>1. /\ taken \in SearchState
        /\ taken.queue = Tail(s.queue) /\ taken.kinds = Kinds[c] /\ taken.pc = "ask"
        /\ taken.answer = s.answer /\ taken.visited = s.visited /\ taken.path = path
        /\ taken.found = {} /\ taken.page = s.page
    <3> HIDE DEF path
    <3> QED BY <1>2, <1>4, <1>5 DEF SearchState
  <2> HIDE DEF taken, path
  <2> QED BY <1>3, <1>5, <1>6, <1>8, <2>1 DEF Typed, RealCall
<1>9. Becomes(c, dropped) \/ (Becomes(c, taken) /\ Len(path) <= MaxDepth + 1)
  <2>1. Len(path) \in Nat
    BY <1>5
  <2>2. Becomes(c, IF Len(path) > MaxDepth + 1 THEN dropped ELSE taken)
    BY <1>1 DEF PopPath
  <2> HIDE DEF path, dropped, taken
  <2> QED BY <2>1, <2>2
<1>10. links' = links /\ lists' = lists
  BY DEF PopPath
<1>11. /\ DOMAIN lists' \subseteq {"references", "citations"} \X Library
       /\ \A entry \in DOMAIN lists' : lists'[entry] \subseteq Linked(entry[1], entry[2])
  BY <1>10, TypedCalls DEF RealInv, ListsReal
<1> HIDE DEF dropped, taken
<1> QED BY <1>7, <1>8, <1>9, <1>10, <1>11, RealMoves

LEMMA GiveUpReal ==
    ASSUME RealInv, NEW c \in Searchers, GiveUp(c)
    PROVE  RealInv'
<1>1. PICK s : s = search[c]
  OBVIOUS
<1>2. Typed(s) /\ RealCall(c, s) /\ s \in SearchState
  BY <1>1, SearchHas
<1>3. s.pc = "pop" /\ s.queue = <<>> /\ s.kinds = <<>> /\ s.answer = <<>>
  BY <1>1, <1>2 DEF GiveUp, At, Typed, RealCall
<1> DEFINE r == [s EXCEPT !.pc = "done"]
<1>4. Typed(r) /\ RealCall(c, r)
  <2>1. /\ r \in SearchState /\ r.queue = s.queue /\ r.kinds = s.kinds /\ r.pc = "done"
        /\ r.answer = s.answer /\ r.visited = s.visited
    BY <1>2 DEF SearchState
  <2> HIDE DEF r
  <2> QED BY <1>3, <2>1 DEF Typed, RealCall
<1>5. Becomes(c, r) /\ links' = links /\ lists' = lists
  BY <1>1 DEF GiveUp
<1>6. /\ DOMAIN lists' \subseteq {"references", "citations"} \X Library
      /\ \A entry \in DOMAIN lists' : lists'[entry] \subseteq Linked(entry[1], entry[2])
  BY <1>5, TypedCalls DEF RealInv, ListsReal
<1> HIDE DEF r
<1> QED BY <1>4, <1>5, <1>6, RealMoves

\* A list that has come, from wherever it came.
LEMMA ArrivedReally ==
    ASSUME RealInv, NEW c \in Searchers, search[c].kinds # <<>>,
           NEW ids, ids \subseteq Linked(Entry(c)[1], Entry(c)[2]), NEW failed \in {0, 1},
           Arrived(c, ids, failed), links' = links,
           DOMAIN lists' \subseteq {"references", "citations"} \X Library,
           \A entry \in DOMAIN lists' : lists'[entry] \subseteq Linked(entry[1], entry[2])
    PROVE  RealInv'
<1>1. PICK s : s = search[c]
  OBVIOUS
<1>2. /\ links \in Literatures /\ Typed(s) /\ RealCall(c, s)
      /\ Entry(c) = <<Head(s.kinds), Last(s.path)>>
  BY <1>1, SearchHas
<1>3. ids \subseteq Linked(Head(s.kinds), Last(s.path))
  BY <1>2
<1>4. PICK r : r = Advanced(c, s, ids, failed)
  OBVIOUS
<1>5. Typed(r) /\ RealCall(c, r)
  BY <1>1, <1>2, <1>3, <1>4, AdvancedReal
<1>6. Becomes(c, r)
  BY <1>1, <1>4 DEF Arrived, Advanced, Received
<1> QED BY <1>5, <1>6, RealMoves

LEMMA AskReal ==
    ASSUME RealInv, NEW c \in Searchers, Ask(c)
    PROVE  RealInv'
<1>1. PICK s : s = search[c]
  OBVIOUS
<1>2. Typed(s) /\ RealCall(c, s) /\ s \in SearchState
  BY <1>1, SearchHas
<1>3. s.pc = "ask" /\ s.kinds # <<>> /\ links' = links /\ lists' = lists
  BY <1>1, <1>2 DEF Ask, At, Typed
<1>4. /\ DOMAIN lists' \subseteq {"references", "citations"} \X Library
      /\ \A entry \in DOMAIN lists' : lists'[entry] \subseteq Linked(entry[1], entry[2])
  BY <1>3, TypedCalls DEF RealInv, ListsReal
<1>5. CASE Entry(c) \in DOMAIN lists
  <2>1. PICK ids : ids = lists[Entry(c)]
    OBVIOUS
  <2>2. ids \subseteq Linked(Entry(c)[1], Entry(c)[2])
    BY <1>5, <2>1 DEF RealInv, ListsReal
  <2>3. Arrived(c, ids, 0)
    BY <1>5, <2>1 DEF Ask
  <2> QED BY <1>1, <1>3, <1>4, <2>2, <2>3, ArrivedReally
<1>6. CASE Entry(c) \notin DOMAIN lists
  <2> DEFINE r == [s EXCEPT !.pc = "fetch"]
  <2>1. Typed(r) /\ RealCall(c, r)
    <3>1. /\ r \in SearchState /\ r.queue = s.queue /\ r.kinds = s.kinds /\ r.pc = "fetch"
          /\ r.answer = s.answer /\ r.visited = s.visited /\ r.path = s.path /\ r.found = s.found
      BY <1>2 DEF SearchState
    <3> HIDE DEF r
    <3> QED BY <1>2, <1>3, <3>1 DEF Typed, RealCall
  <2>2. Becomes(c, r)
    BY <1>1, <1>6 DEF Ask
  <2> HIDE DEF r
  <2> QED BY <1>3, <1>4, <2>1, <2>2, RealMoves
<1> QED BY <1>5, <1>6

LEMMA FetchReal ==
    ASSUME RealInv, NEW c \in Searchers, NEW page, FetchList(c, page)
    PROVE  RealInv'
<1>1. PICK s : s = search[c]
  OBVIOUS
<1>2. Typed(s) /\ RealCall(c, s) /\ s \in SearchState /\ links \in Literatures
  BY <1>1, SearchHas
<1>3. s.pc = "fetch" /\ s.kinds # <<>> /\ links' = links /\ lists' = lists
  BY <1>1, <1>2 DEF FetchList, At, Typed
<1>4. page \subseteq Linked(Head(s.kinds), Last(s.path)) /\ page \subseteq Library
  <2>1. Entry(c) = <<Head(s.kinds), Last(s.path)>> /\ Last(s.path) \in Library
    BY <1>1, <1>3, SearchHas
  <2>2. page \subseteq Linked(Entry(c)[1], Entry(c)[2])
    BY DEF FetchList, Pages
  <2> QED BY <1>2, <2>1, <2>2, LinkedPapers
<1> DEFINE r == [s EXCEPT !.page = page, !.pc = "store"]
<1>5. Typed(r) /\ RealCall(c, r)
  <2>1. /\ r \in SearchState /\ r.queue = s.queue /\ r.kinds = s.kinds /\ r.pc = "store"
        /\ r.answer = s.answer /\ r.visited = s.visited /\ r.path = s.path /\ r.found = s.found
        /\ r.page = page
    BY <1>2, <1>4 DEF SearchState
  <2> HIDE DEF r
  <2> QED BY <1>2, <1>3, <1>4, <2>1 DEF Typed, RealCall
<1>6. Becomes(c, r)
  BY <1>1 DEF FetchList
<1>7. /\ DOMAIN lists' \subseteq {"references", "citations"} \X Library
      /\ \A entry \in DOMAIN lists' : lists'[entry] \subseteq Linked(entry[1], entry[2])
  BY <1>3, TypedCalls DEF RealInv, ListsReal
<1> HIDE DEF r
<1> QED BY <1>3, <1>5, <1>6, <1>7, RealMoves

LEMMA FetchFailsReal ==
    ASSUME RealInv, NEW c \in Searchers, FetchListFails(c)
    PROVE  RealInv'
<1>1. search[c].kinds # <<>> /\ links' = links /\ lists' = lists /\ Arrived(c, {}, 1)
  BY TypedCalls DEF FetchListFails, At, RealInv, Typed
<1>2. /\ DOMAIN lists' \subseteq {"references", "citations"} \X Library
      /\ \A entry \in DOMAIN lists' : lists'[entry] \subseteq Linked(entry[1], entry[2])
  BY <1>1, TypedCalls DEF RealInv, ListsReal
<1> QED BY <1>1, <1>2, ArrivedReally

\* What a list holds after another has been stored.
LEMMA StoredLists ==
    ASSUME NEW entry, NEW page, lists' = WithList(entry, page)
    PROVE  /\ DOMAIN lists' = DOMAIN lists \union {entry}
           /\ \A e \in DOMAIN lists' : lists'[e] = IF e = entry THEN page ELSE lists[e]
BY DEF WithList

LEMMA StoreReal ==
    ASSUME RealInv, NEW c \in Searchers, StoreList(c)
    PROVE  RealInv'
<1>1. PICK s : s = search[c]
  OBVIOUS
<1>2. Typed(s) /\ RealCall(c, s) /\ s \in SearchState
  BY <1>1, SearchHas
<1>3. /\ s.pc = "store" /\ s.kinds # <<>> /\ links' = links
      /\ lists' = WithList(Entry(c), s.page) /\ Arrived(c, s.page, 0)
  BY <1>1, <1>2 DEF StoreList, At, Typed
<1>4. PICK entry : entry = Entry(c)
  OBVIOUS
<1>5. /\ entry = <<Head(s.kinds), Last(s.path)>> /\ Last(s.path) \in Library
      /\ s.page \subseteq Linked(entry[1], entry[2])
      /\ entry \in {"references", "citations"} \X Library
  <2>1. entry = <<Head(s.kinds), Last(s.path)>> /\ Last(s.path) \in Library
    BY <1>1, <1>3, <1>4, SearchHas
  <2>2. Head(s.kinds) \in {"references", "citations"}
    BY <1>2, <1>3 DEF SearchState
  <2> QED BY <1>2, <1>3, <2>1, <2>2 DEF RealCall
<1>6. /\ DOMAIN lists' = DOMAIN lists \union {entry}
      /\ \A e \in DOMAIN lists' : lists'[e] = IF e = entry THEN s.page ELSE lists[e]
  BY <1>3, <1>4, StoredLists
<1>7. /\ DOMAIN lists' \subseteq {"references", "citations"} \X Library
      /\ \A e \in DOMAIN lists' : lists'[e] \subseteq Linked(e[1], e[2])
  BY <1>5, <1>6, TypedCalls DEF RealInv, ListsReal
<1>8. s.page \subseteq Linked(Entry(c)[1], Entry(c)[2])
  BY <1>4, <1>5
<1> QED BY <1>1, <1>3, <1>7, <1>8, ArrivedReally

LEMMA ExpireReal ==
    ASSUME RealInv, NEW entry, ListExpires(entry)
    PROVE  RealInv'
<1>1. links' = links /\ search' = search
  BY DEF ListExpires
<1>2. DOMAIN lists' \subseteq DOMAIN lists /\ \A e \in DOMAIN lists' : lists'[e] = lists[e]
  BY DEF ListExpires, Restrict
<1>3. BridgeTypeOK'
  BY <1>1, <1>2 DEF RealInv, BridgeTypeOK
<1>4. ListsReal'
  BY <1>1, <1>2 DEF RealInv, ListsReal, Linked
<1>5. ASSUME NEW c \in Searchers PROVE RealCall(c, search[c])'
  <2>1. PICK s : s = search'[c]
    OBVIOUS
  <2>2. RealCall(c, s)'
    BY <1>1, <2>1, RealStays DEF RealInv
  <2> QED BY <2>1, <2>2 DEF RealCall
<1> QED BY <1>3, <1>4, <1>5 DEF RealInv

LEMMA RealStep ==
    ASSUME RealInv, [BridgeNext]_bridgeVars
    PROVE  RealInv'
<1>1. CASE UNCHANGED bridgeVars
  <2>1. links' = links /\ search' = search /\ lists' = lists
    BY <1>1 DEF bridgeVars
  <2>2. ASSUME NEW c \in Searchers PROVE RealCall(c, search[c])'
    <3>1. PICK s : s = search'[c]
      OBVIOUS
    <3>2. RealCall(c, s)'
      BY <2>1, <3>1, RealStays DEF RealInv
    <3> QED BY <3>1, <3>2 DEF RealCall
  <2> QED BY <2>1, <2>2 DEF RealInv, BridgeTypeOK, ListsReal, Linked
<1>2. CASE BridgeNext
  BY <1>2, PopReal, GiveUpReal, AskReal, FetchReal, FetchFailsReal, StoreReal, ExpireReal
     DEF BridgeNext, Search
<1> QED BY <1>1, <1>2

LEMMA RealIsReal == RealInv => BridgeTypeOK /\ PathsAreReal
<1> SUFFICES ASSUME RealInv, NEW c \in Searchers, Found(c)
             PROVE  /\ Hops(c) <= MaxDepth + 1
                    /\ search[c].answer \in Walks(c, Hops(c)) /\ Last(search[c].answer) = Target[c]
  BY DEF PathsAreReal, RealInv
<1>1. /\ IsWalk(c, search[c].answer) /\ Last(search[c].answer) = Target[c]
      /\ Len(search[c].answer) <= MaxDepth + 2
  BY DEF RealInv, RealCall, Found
<1>2. Len(search[c].answer) \in Nat
  BY <1>1 DEF IsWalk
<1>3. Hops(c) <= MaxDepth + 1
  BY <1>1, <1>2, BridgeConstants DEF Hops
<1> QED BY <1>1, <1>3, WalkOfHops DEF Hops

\* A bridge leads from the source to the target through papers that S2 links in
\* the direction asked for, over at most MaxDepth + 1 hops, for any number of
\* searches over one cache whose requests fail and whose lists are cut and expire
\* (find_bridge_papers).
THEOREM BridgesAreReal == BridgeSpec => [](BridgeTypeOK /\ PathsAreReal)
<1>1. RealInv /\ [BridgeNext]_bridgeVars => RealInv'
  BY RealStep
<1> QED BY RealBegins, RealIsReal, <1>1, PTL DEF BridgeSpec

-----------------------------------------------------------------------------
(* What is told is true as far as lists are not cut.                           *)

\* What a search is sure to read of a list: all of it, or nothing.
Fit(kind, p) == IF Cardinality(Linked(kind, p)) <= ListLimit THEN Linked(kind, p) ELSE {}

LEMMA SureIs ==
    ASSUME NEW c \in Searchers, NEW p
    PROVE  Sure(c, p) = UNION {Fit(Kinds[c][j], p) : j \in DOMAIN Kinds[c]}
BY DEF Sure, Fit

\* The papers that sure walks of up to n hops lead to.
Near(c, n) == {p \in Library : \E m \in 0..n : \E walk \in SureWalks(c, m) : walk[m + 1] = p}

\* A paper whose sure neighbours are all visited, and none of them is the target.
Spent(c, s, p) == Sure(c, p) \subseteq s.visited /\ Target[c] \notin Sure(c, p)

\* A breadth-first search at paths of n papers (n - 1 hops): the queue holds those
\* that are left and, behind them, paths of one more; all papers within n - 1 sure hops
\* are visited, and those within n - 2 spent; every visited paper is spent or
\* waits at the end of a path, in the queue or being extended; and the longer paths
\* end in papers that no sure walk of n - 1 hops leads to.
Level(c, s, n, extending) ==
    /\ n \in Nat \ {0}
    /\ \A w \in extending : Len(w) = n /\ n <= MaxDepth + 1
    /\ \A k \in DOMAIN s.queue : Len(s.queue[k]) \in {n, n + 1}
    /\ \A j, k \in DOMAIN s.queue : j < k => Len(s.queue[j]) <= Len(s.queue[k])
    /\ Near(c, n - 1) \subseteq s.visited
    /\ n >= 2 => \A p \in Near(c, n - 2) : Spent(c, s, p)
    /\ \A p \in s.visited :
          \/ Spent(c, s, p)
          \/ \E k \in DOMAIN s.queue : Last(s.queue[k]) = p
          \/ \E w \in extending : Last(w) = p
    /\ \A k \in DOMAIN s.queue : Len(s.queue[k]) = n + 1 => Last(s.queue[k]) \notin Near(c, n - 1)

\* The search has gone as deep as it may, and drops what is left.
Past(c, s) ==
    /\ \A k \in DOMAIN s.queue : Len(s.queue[k]) > MaxDepth + 1
    /\ \A p \in Near(c, MaxDepth) : Spent(c, s, p)

WholeCall(c, s) ==
    /\ s.pc = "store" => Fit(Head(s.kinds), Last(s.path)) \subseteq s.page
    /\ s.failures = 0 =>
        /\ s.kinds # <<>> =>
             /\ Sure(c, Last(s.path)) \subseteq
                  s.found \union UNION {Fit(s.kinds[k], Last(s.path)) : k \in DOMAIN s.kinds}
             /\ \E n \in Nat : Level(c, s, n, {s.path})
        /\ s.pc = "pop" => Past(c, s) \/ \E n \in Nat : Level(c, s, n, {})
        /\ s.pc = "done" => ~Bridged(c, IF s.answer # <<>> THEN Len(s.answer) - 2 ELSE MaxDepth + 1)

ListsWhole == \A entry \in DOMAIN lists : Fit(entry[1], entry[2]) \subseteq lists[entry]

WholeInv ==
    /\ RealInv
    /\ ListsWhole
    /\ \A c \in Searchers : \A s \in {search[c]} : WholeCall(c, s)

\* The last hop of a walk.
LEMMA LastHop ==
    ASSUME NEW c \in Searchers, NEW n \in Nat, NEW walk \in SureWalks(c, n + 1)
    PROVE  walk[n + 1] \in Near(c, n) /\ walk[n + 2] \in Sure(c, walk[n + 1])
<1>1. /\ walk \in [1..((n + 1) + 1) -> Library] /\ walk[1] = Source[c]
      /\ \A k \in 1..(n + 1) : \E j \in DOMAIN Kinds[c] : walk[k + 1] \in Linked(Kinds[c][j], walk[k])
  BY DEF SureWalks, Walks
<1>2. \A k \in 1..(n + 1) : walk[k + 1] \in Sure(c, walk[k])
  BY DEF SureWalks
<1> DEFINE short == [k \in 1..(n + 1) |-> walk[k]]
<1>3. short \in SureWalks(c, n)
  <2>1. short \in [1..(n + 1) -> Library] /\ short[1] = Source[c]
    BY <1>1
  <2>2. \A k \in 1..n : \E j \in DOMAIN Kinds[c] : short[k + 1] \in Linked(Kinds[c][j], short[k])
    BY <1>1
  <2>3. \A k \in 1..n : short[k + 1] \in Sure(c, short[k])
    BY <1>2
  <2> QED BY <2>1, <2>2, <2>3 DEF SureWalks, Walks
<1>4. short[n + 1] = walk[n + 1] /\ walk[n + 1] \in Library /\ n \in 0..n
  BY <1>1
<1>5. walk[n + 1] \in Near(c, n)
  BY <1>3, <1>4 DEF Near
<1>6. walk[n + 2] \in Sure(c, walk[n + 1])
  <2>1. n + 1 \in 1..(n + 1) /\ (n + 1) + 1 = n + 2
    OBVIOUS
  <2> QED BY <1>2, <2>1
<1> QED BY <1>5, <1>6

LEMMA NearGrows ==
    ASSUME NEW c \in Searchers, NEW n \in Nat, NEW p \in Near(c, n + 1)
    PROVE  p \in Near(c, n) \/ \E q \in Near(c, n) : p \in Sure(c, q)
<1>1. PICK m \in 0..(n + 1) : \E walk \in SureWalks(c, m) : walk[m + 1] = p
  BY DEF Near
<1>2. PICK walk \in SureWalks(c, m) : walk[m + 1] = p
  BY <1>1
<1>3. CASE m <= n
  <2>1. m \in 0..n
    BY <1>3
  <2> QED BY <1>1, <2>1 DEF Near
<1>4. CASE m = n + 1
  <2>1. walk \in SureWalks(c, n + 1) /\ walk[n + 2] = p
    BY <1>2, <1>4
  <2> QED BY <2>1, LastHop
<1> QED BY <1>3, <1>4

LEMMA NearFits ==
    ASSUME NEW c \in Searchers, NEW n \in Nat, NEW m \in Nat, m <= n
    PROVE  Near(c, m) \subseteq Near(c, n)
<1>1. 0..m \subseteq 0..n
  OBVIOUS
<1> QED BY <1>1 DEF Near

\* No bridge leaves papers whose sure neighbours are not the target.
LEMMA NoBridge ==
    ASSUME NEW c \in Searchers, NEW n \in Nat,
           \A p \in Near(c, n) : Target[c] \notin Sure(c, p)
    PROVE  ~Bridged(c, n + 1)
<1> SUFFICES ASSUME NEW m \in 1..(n + 1), NEW walk \in SureWalks(c, m), walk[m + 1] = Target[c]
             PROVE  FALSE
  BY DEF Bridged
<1>1. PICK k : k = m - 1
  OBVIOUS
<1>2. k \in Nat /\ k <= n /\ m = k + 1 /\ m + 1 = k + 2
  BY <1>1
<1>3. walk[k + 1] \in Near(c, k) /\ walk[k + 2] \in Sure(c, walk[k + 1])
  BY <1>2, LastHop
<1>4. Near(c, k) \subseteq Near(c, n)
  BY <1>2, NearFits
<1> QED BY <1>2, <1>3, <1>4

LEMMA ShorterBridge ==
    ASSUME NEW c \in Searchers, NEW n \in Nat, NEW m \in Int, m <= n, ~Bridged(c, n)
    PROVE  ~Bridged(c, m)
<1>1. 1..m \subseteq 1..n
  OBVIOUS
<1> QED BY <1>1 DEF Bridged

\* When all visited papers are spent, no walk leads out of them.
LEMMA NoWayOut ==
    ASSUME NEW c \in Searchers, NEW s, NEW n \in Nat,
           Near(c, 0) \subseteq s.visited, \A p \in s.visited : Spent(c, s, p)
    PROVE  ~Bridged(c, n)
<1> DEFINE S == {m \in Nat : Near(c, m) \subseteq s.visited}
<1>1. Nat \subseteq S
  <2>1. 0 \in S
    OBVIOUS
  <2>2. ASSUME NEW m \in Nat, m \in S PROVE m + 1 \in S
    <3>1. ASSUME NEW p \in Near(c, m + 1) PROVE p \in s.visited
      BY <2>2, <3>1, NearGrows DEF Spent
    <3> QED BY <3>1
  <2> HIDE DEF S
  <2> QED BY <2>1, <2>2, SetInduction
<1>2. Near(c, n) \subseteq s.visited
  BY <1>1
<1>3. ~Bridged(c, n + 1)
  BY <1>2, NoBridge DEF Spent
<1> QED BY <1>3, ShorterBridge

-----------------------------------------------------------------------------

\* When only the longer paths are left, the search is one hop further.
LEMMA LevelUp ==
    ASSUME NEW c \in Searchers, NEW s \in SearchState, NEW n, Level(c, s, n, {}),
           \A k \in DOMAIN s.queue : Len(s.queue[k]) = n + 1
    PROVE  Level(c, s, n + 1, {})
<1>1. n \in Nat \ {0} /\ n + 1 \in Nat \ {0} /\ (n + 1) - 1 = n /\ (n + 1) - 2 = n - 1
  BY DEF Level
<1>2. ASSUME NEW p \in Near(c, n - 1) PROVE Spent(c, s, p)
  <2>1. p \in s.visited /\ ~\E k \in DOMAIN s.queue : Last(s.queue[k]) = p
    BY DEF Level
  <2> QED BY <2>1 DEF Level
<1>3. ASSUME NEW p \in Near(c, n) PROVE p \in s.visited
  <2>1. n - 1 \in Nat /\ (n - 1) + 1 = n
    BY <1>1
  <2>2. p \in Near(c, n - 1) \/ \E q \in Near(c, n - 1) : p \in Sure(c, q)
    BY <2>1, NearGrows
  <2>3. Near(c, n - 1) \subseteq s.visited
    BY DEF Level
  <2> QED BY <1>2, <2>2, <2>3 DEF Spent
<1>4. \A k \in DOMAIN s.queue : Len(s.queue[k]) \in {n + 1, n + 2} /\ Len(s.queue[k]) # n + 2
  BY <1>1
<1>5. \A j, k \in DOMAIN s.queue : j < k => Len(s.queue[j]) <= Len(s.queue[k])
  BY DEF Level
<1>6. \A p \in s.visited : Spent(c, s, p) \/ \E k \in DOMAIN s.queue : Last(s.queue[k]) = p
  BY DEF Level
<1>7. (n + 1) + 1 = n + 2
  BY <1>1
<1> QED BY <1>1, <1>2, <1>3, <1>4, <1>5, <1>6, <1>7 DEF Level

\* A search whose queue is not empty is at the length of the path it takes next.
LEMMA LevelOfHead ==
    ASSUME NEW c \in Searchers, NEW s \in SearchState, NEW n, Level(c, s, n, {}), s.queue # <<>>
    PROVE  Level(c, s, Len(Head(s.queue)), {})
<1>1. /\ s.queue \in Seq(Seq(Library)) /\ 1 \in DOMAIN s.queue /\ Head(s.queue) = s.queue[1]
      /\ DOMAIN s.queue = 1..Len(s.queue) /\ Len(s.queue) \in Nat
  BY DEF SearchState
<1>2. \A k \in DOMAIN s.queue : Len(s.queue[k]) \in Nat
  BY <1>1
<1>3. Len(s.queue[1]) \in {n, n + 1} /\ n \in Nat
  BY <1>1 DEF Level
<1>4. CASE Len(s.queue[1]) = n
  BY <1>1, <1>4
<1>5. CASE Len(s.queue[1]) = n + 1
  <2>1. ASSUME NEW k \in DOMAIN s.queue PROVE Len(s.queue[k]) = n + 1
    <3>1. Len(s.queue[k]) \in {n, n + 1}
      BY DEF Level
    <3>2. CASE k = 1
      BY <1>5, <3>2
    <3>3. CASE 1 < k
      <4>1. \A i, j \in DOMAIN s.queue : i < j => Len(s.queue[i]) <= Len(s.queue[j])
        BY DEF Level
      <4>2. Len(s.queue[1]) <= Len(s.queue[k])
        BY <1>1, <3>3, <4>1
      <4> QED BY <1>3, <1>5, <3>1, <4>2
    <3> QED BY <1>1, <3>2, <3>3
  <2> QED BY <1>1, <1>5, <2>1, LevelUp
<1> QED BY <1>3, <1>4, <1>5

\* The rest of a queue.
Rest(q, r) ==
    /\ r \in Seq(Seq(Library)) /\ DOMAIN r = 1..(Len(q) - 1)
    /\ \A k \in DOMAIN r : k + 1 \in DOMAIN q /\ r[k] = q[k + 1]
    /\ \A k \in DOMAIN q : k = 1 \/ (k - 1 \in DOMAIN r /\ r[k - 1] = q[k])

LEMMA TailIsRest ==
    ASSUME NEW q \in Seq(Seq(Library)), q # <<>>
    PROVE  Rest(q, Tail(q)) /\ Head(q) = q[1] /\ 1 \in DOMAIN q /\ q[1] \in Seq(Library)
<1>1. /\ Tail(q) \in Seq(Seq(Library)) /\ DOMAIN Tail(q) = 1..(Len(q) - 1)
      /\ DOMAIN q = 1..Len(q) /\ Len(q) \in Nat /\ Len(q) > 0
      /\ \A k \in 1..(Len(q) - 1) : Tail(q)[k] = q[k + 1]
  OBVIOUS
<1>2. ASSUME NEW k \in DOMAIN q, k # 1 PROVE k - 1 \in DOMAIN Tail(q) /\ Tail(q)[k - 1] = q[k]
  <2>1. k - 1 \in 1..(Len(q) - 1) /\ (k - 1) + 1 = k
    BY <1>1, <1>2
  <2> QED BY <1>1, <2>1
<1> QED BY <1>1, <1>2 DEF Rest

LEMMA TakenLevel ==
    ASSUME NEW c \in Searchers, NEW s \in SearchState, s.queue # <<>>,
           Level(c, s, Len(Head(s.queue)), {}), Len(Head(s.queue)) <= MaxDepth + 1,
           NEW r, r.queue = Tail(s.queue), r.visited = s.visited
    PROVE  Level(c, r, Len(Head(s.queue)), {Head(s.queue)})
<1> DEFINE n == Len(Head(s.queue))
<1>1. /\ Rest(s.queue, Tail(s.queue)) /\ Head(s.queue) = s.queue[1]
  BY TailIsRest DEF SearchState
<1>2. \A k \in DOMAIN r.queue : k + 1 \in DOMAIN s.queue /\ r.queue[k] = s.queue[k + 1]
  BY <1>1 DEF Rest
<1>3. ASSUME NEW j \in DOMAIN r.queue, NEW k \in DOMAIN r.queue, j < k
      PROVE  Len(r.queue[j]) <= Len(r.queue[k])
  <2>1. j + 1 < k + 1
    BY <1>1, <1>3 DEF Rest
  <2>2. \A x, y \in DOMAIN s.queue : x < y => Len(s.queue[x]) <= Len(s.queue[y])
    BY DEF Level
  <2> QED BY <1>2, <2>1, <2>2
<1>4. ASSUME NEW p \in s.visited
      PROVE  \/ Spent(c, r, p)
             \/ \E k \in DOMAIN r.queue : Last(r.queue[k]) = p
             \/ Last(Head(s.queue)) = p
  <2>1. Spent(c, s, p) \/ \E k \in DOMAIN s.queue : Last(s.queue[k]) = p
    BY DEF Level
  <2>2. Spent(c, s, p) => Spent(c, r, p)
    BY DEF Spent
  <2>3. ASSUME NEW k \in DOMAIN s.queue, Last(s.queue[k]) = p
        PROVE  (\E j \in DOMAIN r.queue : Last(r.queue[j]) = p) \/ Last(Head(s.queue)) = p
    <3>1. k = 1 \/ (k - 1 \in DOMAIN r.queue /\ r.queue[k - 1] = s.queue[k])
      BY <1>1 DEF Rest
    <3> QED BY <1>1, <2>3, <3>1
  <2> QED BY <2>1, <2>2, <2>3
<1>5. \A p : Spent(c, s, p) => Spent(c, r, p)
  BY DEF Spent
<1> QED BY <1>2, <1>3, <1>4, <1>5 DEF Level

LEMMA PopWhole ==
    ASSUME WholeInv, NEW c \in Searchers, PopPath(c), NEW r, r = search'[c]
    PROVE  WholeCall(c, r)
<1> USE BridgeConstants
<1>1. PICK s : s = search[c]
  OBVIOUS
<1>2. Typed(s) /\ RealCall(c, s) /\ s \in SearchState /\ WholeCall(c, s)
  BY <1>1, SearchHas DEF WholeInv
<1>3. s.pc = "pop" /\ s.queue # <<>> /\ s.queue \in Seq(Seq(Library)) /\ s.kinds = <<>>
  BY <1>1, <1>2 DEF PopPath, At, SearchState, Typed
<1> DEFINE path == Head(s.queue)
           dropped == [s EXCEPT !.queue = Tail(@)]
           taken == [dropped EXCEPT !.path = path, !.kinds = Kinds[c], !.found = {}, !.pc = "ask"]
<1>4. r = IF Len(path) > MaxDepth + 1 THEN dropped ELSE taken
  <2>1. search = [d \in Searchers |-> search[d]]
    BY TypedCalls DEF WholeInv, RealInv
  <2> QED BY <1>1, <2>1 DEF PopPath, Becomes
<1>5. Rest(s.queue, Tail(s.queue)) /\ path = s.queue[1] /\ path \in Seq(Library) /\ 1 \in DOMAIN s.queue
  BY <1>3, TailIsRest
<1>6. Len(path) \in Nat
  BY <1>5
<1>7. CASE Len(path) > MaxDepth + 1
  <2>1. /\ r.queue = Tail(s.queue) /\ r.kinds = <<>> /\ r.pc = "pop" /\ r.failures = s.failures
        /\ r.visited = s.visited
    <3> HIDE DEF path
    <3> QED BY <1>2, <1>3, <1>4, <1>7 DEF SearchState
  <2> HIDE DEF path, dropped, taken
  <2>2. \A p : Spent(c, s, p) => Spent(c, r, p)
    BY <2>1 DEF Spent
  <2>3. ASSUME Past(c, s) PROVE Past(c, r)
    BY <1>5, <2>1, <2>2, <2>3 DEF Past, Rest
  <2>4. ASSUME NEW n \in Nat, Level(c, s, n, {}) PROVE Past(c, r)
    <3>1. Level(c, s, Len(path), {})
      BY <1>2, <1>3, <2>4, LevelOfHead DEF path
    <3>2. \A k \in DOMAIN r.queue : Len(r.queue[k]) > MaxDepth + 1
      <4>1. \A k \in DOMAIN s.queue : Len(s.queue[k]) \in {Len(path), Len(path) + 1}
        BY <3>1 DEF Level
      <4> QED BY <1>5, <1>6, <1>7, <2>1, <4>1 DEF Rest
    <3>3. Near(c, MaxDepth) \subseteq Near(c, Len(path) - 2)
      <4>1. Len(path) - 2 \in Nat /\ MaxDepth <= Len(path) - 2
        BY <1>6, <1>7
      <4> QED BY <4>1, NearFits
    <3>4. Len(path) >= 2
      BY <1>6, <1>7
    <3> QED BY <2>2, <3>1, <3>2, <3>3, <3>4 DEF Level, Past
  <2> QED BY <1>2, <1>3, <2>1, <2>3, <2>4 DEF WholeCall
<1>8. CASE ~(Len(path) > MaxDepth + 1)
  <2>1. /\ r.queue = Tail(s.queue) /\ r.kinds = Kinds[c] /\ r.pc = "ask" /\ r.failures = s.failures
        /\ r.visited = s.visited /\ r.path = path /\ r.found = {}
    <3> HIDE DEF path
    <3> QED BY <1>2, <1>3, <1>4, <1>8 DEF SearchState
  <2>2. Len(path) <= MaxDepth + 1
    BY <1>6, <1>8
  <2>3. ASSUME s.failures = 0 PROVE \E n \in Nat : Level(c, r, n, {path})
    <3>1. ~Past(c, s)
      BY <1>5, <1>8 DEF Past
    <3>2. PICK n \in Nat : Level(c, s, n, {})
      BY <1>2, <1>3, <2>3, <3>1 DEF WholeCall
    <3>3. Level(c, s, Len(path), {})
      BY <1>2, <1>3, <3>2, LevelOfHead
    <3>4. Level(c, r, Len(path), {path})
      BY <1>2, <1>3, <2>1, <2>2, <3>3, TakenLevel
    <3> HIDE DEF path
    <3> QED BY <1>6, <3>4
  <2>4. Sure(c, Last(r.path)) \subseteq
          r.found \union UNION {Fit(r.kinds[k], Last(r.path)) : k \in DOMAIN r.kinds}
    BY <2>1, SureIs
  <2> HIDE DEF path, dropped, taken
  <2> QED BY <2>1, <2>3, <2>4 DEF WholeCall
<1> QED BY <1>7, <1>8

\* The paths with the new neighbours queue up behind the others.
LEMMA LevelGrows ==
    ASSUME NEW c \in Searchers, NEW s \in SearchState, NEW n \in Nat, Level(c, s, n, {s.path}),
           NEW near \in SUBSET Library, Sure(c, Last(s.path)) \subseteq near, Target[c] \notin near,
           s.path \in Seq(Library), Len(s.path) = n,
           NEW new \in Seq(near \ s.visited),
           \A p \in near \ s.visited : \E k \in DOMAIN new : new[k] = p,
           NEW r, Lengthened(s.queue, s.path, new, r.queue), r.visited = s.visited \union near
    PROVE  Level(c, r, n, {})
<1> DEFINE m == Len(s.queue)
<1>1. /\ DOMAIN s.queue = 1..m /\ DOMAIN r.queue = 1..(m + Len(new)) /\ m \in Nat
      /\ DOMAIN new = 1..Len(new) /\ Len(new) \in Nat
      /\ n \in Nat \ {0}
  BY DEF Lengthened, SearchState, Level
<1>2. ASSUME NEW k \in DOMAIN r.queue
      PROVE  \/ k \in DOMAIN s.queue /\ r.queue[k] = s.queue[k]
             \/ /\ k \notin DOMAIN s.queue /\ Len(r.queue[k]) = n + 1
                /\ Last(r.queue[k]) \in near \ s.visited
  <2>1. CASE k <= m
    BY <1>1, <2>1 DEF Lengthened
  <2>2. CASE k > m
    <3>1. k \in (m + 1)..Len(r.queue)
      BY <1>1, <2>2 DEF Lengthened
    <3>2. k - m \in 1..Len(new) /\ r.queue[k] = Append(s.path, new[k - m])
      BY <3>1 DEF Lengthened
    <3>3. PICK j \in 1..Len(new) : r.queue[k] = Append(s.path, new[j])
      BY <3>2
    <3>4. new[j] \in near \ s.visited
      BY <1>1
    <3>5. new[j] \in Library
      BY <3>4
    <3>6. Len(r.queue[k]) = n + 1 /\ Last(r.queue[k]) = new[j]
      BY <3>3, <3>5 DEF Last
    <3> QED BY <1>1, <2>2, <3>4, <3>6
  <2> QED BY <1>1, <2>1, <2>2
<1>3. \A p : Spent(c, s, p) => Spent(c, r, p)
  BY DEF Spent
<1>4. Spent(c, r, Last(s.path))
  BY DEF Spent
<1>5. \A k \in DOMAIN r.queue : Len(r.queue[k]) \in {n, n + 1}
  BY <1>2 DEF Level
<1>6. ASSUME NEW j \in DOMAIN r.queue, NEW k \in DOMAIN r.queue, j < k
      PROVE  Len(r.queue[j]) <= Len(r.queue[k])
  <2>1. CASE k \in DOMAIN s.queue
    <3>1. j \in DOMAIN s.queue /\ r.queue[j] = s.queue[j] /\ r.queue[k] = s.queue[k]
      BY <1>1, <1>2, <1>6, <2>1
    <3>2. \A x, y \in DOMAIN s.queue : x < y => Len(s.queue[x]) <= Len(s.queue[y])
      BY DEF Level
    <3> QED BY <1>6, <2>1, <3>1, <3>2
  <2>2. CASE k \notin DOMAIN s.queue
    <3>1. Len(r.queue[k]) = n + 1
      BY <1>2, <2>2
    <3>2. Len(r.queue[j]) \in {n, n + 1}
      BY <1>5
    <3> QED BY <1>1, <3>1, <3>2
  <2> QED BY <2>1, <2>2
<1>7. Near(c, n - 1) \subseteq r.visited
  BY DEF Level
<1>8. n >= 2 => \A p \in Near(c, n - 2) : Spent(c, r, p)
  BY <1>3 DEF Level
<1>9. ASSUME NEW p \in r.visited
      PROVE  Spent(c, r, p) \/ \E k \in DOMAIN r.queue : Last(r.queue[k]) = p
  <2>1. CASE p \in s.visited
    <3>1. Spent(c, s, p) \/ (\E k \in DOMAIN s.queue : Last(s.queue[k]) = p) \/ Last(s.path) = p
      BY <2>1 DEF Level
    <3>2. \A k \in DOMAIN s.queue : k \in DOMAIN r.queue /\ r.queue[k] = s.queue[k]
      BY <1>1 DEF Lengthened
    <3> QED BY <1>3, <1>4, <3>1, <3>2
  <2>2. CASE p \in near \ s.visited
    <3>1. PICK j \in DOMAIN new : new[j] = p
      BY <2>2
    <3>2. j \in 1..Len(new) /\ j \in Nat
      BY <1>1
    <3>3. m + j \in 1..(m + Len(new))
      BY <1>1, <3>2
    <3>4. m + j \in DOMAIN r.queue /\ r.queue[m + j] = Append(s.path, p)
      BY <1>1, <3>1, <3>2, <3>3 DEF Lengthened
    <3>5. Last(Append(s.path, p)) = p
      BY <2>2 DEF Last
    <3> QED BY <3>4, <3>5
  <2> QED BY <2>1, <2>2
<1>10. ASSUME NEW k \in DOMAIN r.queue, Len(r.queue[k]) = n + 1
       PROVE  Last(r.queue[k]) \notin Near(c, n - 1)
  <2>1. CASE k \in DOMAIN s.queue
    BY <1>2, <1>10, <2>1 DEF Level
  <2>2. CASE k \notin DOMAIN s.queue
    <3>1. Last(r.queue[k]) \notin s.visited
      BY <1>2, <2>2
    <3> QED BY <3>1 DEF Level
  <2> QED BY <2>1, <2>2
<1> QED BY <1>1, <1>5, <1>6, <1>7, <1>8, <1>9, <1>10 DEF Level

\* A search that gives up has seen all that MaxDepth sure hops lead to.
LEMMA GiveUpWhole ==
    ASSUME WholeInv, NEW c \in Searchers, GiveUp(c), NEW r, r = search'[c]
    PROVE  WholeCall(c, r)
<1> USE BridgeConstants
<1>1. PICK s : s = search[c]
  OBVIOUS
<1>2. Typed(s) /\ RealCall(c, s) /\ s \in SearchState /\ WholeCall(c, s)
  BY <1>1, SearchHas DEF WholeInv
<1>3. s.pc = "pop" /\ s.queue = <<>> /\ s.kinds = <<>> /\ s.answer = <<>>
  BY <1>1, <1>2 DEF GiveUp, At, Typed, RealCall
<1>4. r.pc = "done" /\ r.kinds = <<>> /\ r.answer = <<>> /\ r.failures = s.failures
  <2>1. search = [d \in Searchers |-> search[d]]
    BY TypedCalls DEF WholeInv, RealInv
  <2>2. r = [s EXCEPT !.pc = "done"]
    BY <1>1, <2>1 DEF GiveUp, Becomes
  <2> QED BY <1>2, <1>3, <2>2 DEF SearchState
<1>5. ASSUME Past(c, s) PROVE ~Bridged(c, MaxDepth + 1)
  <2>1. \A p \in Near(c, MaxDepth) : Target[c] \notin Sure(c, p)
    BY <1>5 DEF Past, Spent
  <2> QED BY <2>1, NoBridge
<1>6. ASSUME NEW n \in Nat, Level(c, s, n, {}) PROVE ~Bridged(c, MaxDepth + 1)
  <2>1. \A p \in s.visited : Spent(c, s, p)
    BY <1>3, <1>6 DEF Level
  <2>2. Near(c, 0) \subseteq s.visited
    <3>1. n - 1 \in Nat /\ Near(c, n - 1) \subseteq s.visited
      BY <1>6 DEF Level
    <3>2. Near(c, 0) \subseteq Near(c, n - 1)
      BY <3>1, NearFits
    <3> QED BY <3>1, <3>2
  <2>3. MaxDepth + 1 \in Nat
    OBVIOUS
  <2> QED BY <2>1, <2>2, <2>3, NoWayOut
<1>7. s.failures = 0 => ~Bridged(c, MaxDepth + 1)
  BY <1>2, <1>3, <1>5, <1>6 DEF WholeCall
<1> QED BY <1>4, <1>7 DEF WholeCall

\* A path whose sure neighbours are all known is extended.
LEMMA ExtendWhole ==
    ASSUME NEW c \in Searchers, NEW s \in SearchState, NEW near \in SUBSET Library,
           NEW r, r = Extend(c, s, near), s.path # <<>>, s.answer = <<>>, s.kinds = <<>>,
           Last(s.path) \in Library, Sure(c, Last(s.path)) \subseteq near,
           NEW n \in Nat, Level(c, s, n, {s.path})
    PROVE  WholeCall(c, r)
<1> USE BridgeConstants
<1>1. /\ r \in SearchState /\ r.kinds = <<>>
      /\ Target[c] \in near => Reaches(c, s, r)
      /\ Target[c] \notin near => Queues(s, near, r)
  BY ExtendIs
<1>2. Len(s.path) = n /\ n \in Nat \ {0} /\ s.path \in Seq(Library) /\ n <= MaxDepth + 1
  BY DEF Level, SearchState
<1>3. CASE Target[c] \in near
  <2>1. r.pc = "done" /\ r.answer = Append(s.path, Target[c])
    BY <1>1, <1>3 DEF Reaches
  <2>2. Target[c] \in Library
    OBVIOUS
  <2>3. r.answer # <<>> /\ Len(r.answer) - 2 = n - 1
    BY <1>2, <2>1, <2>2
  <2>4. ~Bridged(c, n - 1)
    <3>1. CASE n = 1
      BY <3>1 DEF Bridged
    <3>2. CASE n >= 2
      <4>1. n - 2 \in Nat /\ (n - 2) + 1 = n - 1
        BY <3>2
      <4>2. \A p \in Near(c, n - 2) : Target[c] \notin Sure(c, p)
        BY <3>2 DEF Level, Spent
      <4>3. ~Bridged(c, (n - 2) + 1)
        BY <4>1, <4>2, NoBridge
      <4> QED BY <4>1, <4>3
    <3> QED BY <1>2, <3>1, <3>2
  <2> QED BY <1>1, <2>1, <2>3, <2>4 DEF WholeCall
<1>4. CASE Target[c] \notin near
  <2>1. r.pc = "pop" /\ r.visited = s.visited \union near
    BY <1>1, <1>4 DEF Queues
  <2>2. PICK new \in Seq(near \ s.visited) :
          /\ \A p \in near \ s.visited : \E k \in DOMAIN new : new[k] = p
          /\ r.queue = s.queue \o [k \in DOMAIN new |-> Append(s.path, new[k])]
    BY <1>1, <1>4 DEF Queues
  <2>3. Lengthened(s.queue, s.path, new, r.queue)
    <3>1. near \ s.visited \in SUBSET Library /\ s.queue \in Seq(Seq(Library))
      BY DEF SearchState
    <3> QED BY <1>2, <2>2, <3>1, QueueIs
  <2>4. Level(c, r, n, {})
    BY <1>2, <1>4, <2>1, <2>2, <2>3, LevelGrows
  <2> QED BY <1>1, <2>1, <2>4 DEF WholeCall
<1> QED BY <1>3, <1>4

\* A list that has come, or failed to, from wherever it came.
LEMMA AdvancedWhole ==
    ASSUME links \in Literatures, NEW c \in Searchers, NEW s, Typed(s), RealCall(c, s),
           WholeCall(c, s), s.kinds # <<>>, NEW ids \in SUBSET Library, NEW failed \in {0, 1},
           failed = 0 => Fit(Head(s.kinds), Last(s.path)) \subseteq ids,
           NEW r, r = Advanced(c, s, ids, failed)
    PROVE  WholeCall(c, r)
<1>1. s \in SearchState /\ s.path \in Seq(Library) /\ s.path # <<>> /\ s.answer = <<>>
  BY DEF Typed, RealCall, SearchState, IsWalk
<1>2. Last(s.path) \in Library
  BY <1>1 DEF Last
<1>3. PICK m : m = Received(s, ids, failed)
  OBVIOUS
<1>4. /\ m \in SearchState
      /\ m.found = s.found \union ids /\ m.failures = s.failures + failed
      /\ m.kinds = Tail(s.kinds) /\ m.page = {} /\ m.pc = "ask"
      /\ m.queue = s.queue /\ m.visited = s.visited /\ m.path = s.path /\ m.answer = s.answer
  BY <1>1, <1>3, ReceivedIs
<1>5. r.failures = m.failures /\ r.pc # "store"
  <2>1. m.found \in SUBSET Library
    BY <1>4 DEF SearchState
  <2>2. CASE m.kinds # <<>>
    BY <1>3, <1>4, <2>2 DEF Advanced
  <2>3. CASE m.kinds = <<>>
    <3>1. r = Extend(c, m, m.found)
      BY <1>3, <2>3 DEF Advanced
    <3>2. Reaches(c, m, r) \/ Queues(m, m.found, r)
      BY <1>4, <2>1, <3>1, ExtendIs
    <3>3. r.failures = m.failures
      BY <1>4, <2>1, <3>1, ExtendIs
    <3>4. r.pc # "store"
      BY <3>2 DEF Reaches, Queues
    <3> QED BY <3>3, <3>4
  <2> QED BY <2>2, <2>3
<1> SUFFICES ASSUME r.failures = 0 PROVE WholeCall(c, r)
  BY <1>5 DEF WholeCall
<1>6. s.failures = 0 /\ failed = 0
  BY <1>1, <1>4, <1>5 DEF SearchState
<1>7. /\ s.kinds \in Seq({"references", "citations"}) /\ Head(s.kinds) = s.kinds[1]
      /\ 1 \in DOMAIN s.kinds
  BY <1>1 DEF SearchState
<1>8. \A k \in DOMAIN s.kinds :
         k = 1 \/ (k - 1 \in DOMAIN Tail(s.kinds) /\ Tail(s.kinds)[k - 1] = s.kinds[k])
  BY <1>7
<1>9. \A x \in Sure(c, Last(m.path)) :
         x \in m.found \/ \E k \in DOMAIN m.kinds : x \in Fit(m.kinds[k], Last(m.path))
  <2> TAKE x \in Sure(c, Last(m.path))
  <2>1. x \in s.found \/ \E k \in DOMAIN s.kinds : x \in Fit(s.kinds[k], Last(s.path))
    BY <1>4, <1>6 DEF WholeCall
  <2>2. CASE x \in s.found
    BY <1>4, <2>2
  <2>3. ASSUME NEW k \in DOMAIN s.kinds, x \in Fit(s.kinds[k], Last(s.path))
        PROVE  x \in m.found \/ \E j \in DOMAIN m.kinds : x \in Fit(m.kinds[j], Last(m.path))
    <3>1. CASE k = 1
      BY <1>4, <1>6, <1>7, <2>3, <3>1
    <3>2. CASE k # 1
      <4>1. k - 1 \in DOMAIN m.kinds /\ m.kinds[k - 1] = s.kinds[k]
        BY <1>4, <1>8, <3>2
      <4> QED BY <1>4, <2>3, <4>1
    <3> QED BY <3>1, <3>2
  <2> QED BY <2>1, <2>2, <2>3
<1>10. PICK n \in Nat : Level(c, s, n, {s.path})
  BY <1>6 DEF WholeCall
<1>11. Level(c, m, n, {m.path})
  <2>1. \A p : Spent(c, s, p) <=> Spent(c, m, p)
    BY <1>4 DEF Spent
  <2> QED BY <1>4, <1>10, <2>1 DEF Level
<1>12. CASE m.kinds # <<>>
  <2>1. r = m
    BY <1>3, <1>12 DEF Advanced
  <2>2. Sure(c, Last(m.path)) \subseteq
          m.found \union UNION {Fit(m.kinds[k], Last(m.path)) : k \in DOMAIN m.kinds}
    BY <1>9
  <2>3. m.pc = "ask" /\ Level(c, m, n, {m.path})
    BY <1>4, <1>11
  <2>4. WholeCall(c, m)
    BY <1>12, <2>2, <2>3 DEF WholeCall
  <2> QED BY <2>1, <2>4
<1>13. CASE m.kinds = <<>>
  <2>1. r = Extend(c, m, m.found)
    BY <1>3, <1>13 DEF Advanced
  <2>2. Sure(c, Last(m.path)) \subseteq m.found
    BY <1>9, <1>13
  <2>3. m.found \in SUBSET Library
    BY <1>4 DEF SearchState
  <2> QED BY <1>1, <1>2, <1>4, <1>11, <1>13, <2>1, <2>2, <2>3, ExtendWhole
<1> QED BY <1>12, <1>13

-----------------------------------------------------------------------------

\* The literature stands still, so what was whole is.
LEMMA WholeStays ==
    ASSUME links' = links, NEW c, NEW s, WholeCall(c, s)
    PROVE  WholeCall(c, s)'
<1>1. \A kind, p : Linked(kind, p)' = Linked(kind, p) /\ Fit(kind, p)' = Fit(kind, p)
  BY DEF Linked, Fit
<1>2. \A p : Sure(c, p)' = Sure(c, p)
  BY <1>1 DEF Sure
<1>3. \A n : SureWalks(c, n)' = SureWalks(c, n)
  <2>1. \A n : Walks(c, n)' = Walks(c, n)
    BY <1>1 DEF Walks
  <2> QED BY <1>2, <2>1 DEF SureWalks
<1>4. \A n : Near(c, n)' = Near(c, n) /\ Bridged(c, n)' = Bridged(c, n)
  BY <1>3 DEF Near, Bridged
<1>5. \A p : Spent(c, s, p)' <=> Spent(c, s, p)
  BY <1>2 DEF Spent
<1>6. \A n, extending : Level(c, s, n, extending)' <=> Level(c, s, n, extending)
  BY <1>4, <1>5 DEF Level
<1>7. Past(c, s)' <=> Past(c, s)
  BY <1>4, <1>5 DEF Past
<1> QED BY <1>1, <1>2, <1>4, <1>6, <1>7 DEF WholeCall

\* One call moves; what the lists hold afterwards is whole.
LEMMA WholeMoves ==
    ASSUME WholeInv, RealInv', links' = links, NEW c \in Searchers,
           \A d \in Searchers \ {c} : search'[d] = search[d],
           \A r : r = search'[c] => WholeCall(c, r),
           \A entry \in DOMAIN lists' : Fit(entry[1], entry[2]) \subseteq lists'[entry]
    PROVE  WholeInv'
<1>1. ListsWhole'
  <2>1. \A kind, p : Fit(kind, p)' = Fit(kind, p)
    BY DEF Linked, Fit
  <2> QED BY <2>1 DEF ListsWhole
<1>2. ASSUME NEW d \in Searchers, NEW s, s = search'[d] PROVE WholeCall(d, s)'
  <2>1. WholeCall(d, s)
    <3>1. CASE d = c
      BY <1>2, <3>1
    <3>2. CASE d # c
      <4>1. s = search[d]
        BY <1>2, <3>2
      <4> QED BY <4>1 DEF WholeInv
    <3> QED BY <3>1, <3>2
  <2> QED BY <2>1, WholeStays
<1>3. \A d \in Searchers : \A s \in {search'[d]} : WholeCall(d, s)'
  BY <1>2
<1> QED BY <1>1, <1>3 DEF WholeInv

\* A page of a list that fits is the list.
LEMMA PageIsWhole ==
    ASSUME links \in Literatures, NEW kind, NEW p \in Library, NEW page \in Pages(kind, p)
    PROVE  Fit(kind, p) \subseteq page
<1> USE BridgeConstants
<1>1. Linked(kind, p) \subseteq Library /\ IsFiniteSet(Linked(kind, p))
  BY LinkedPapers, FS_Subset
<1>2. CASE Cardinality(Linked(kind, p)) <= ListLimit
  <2>1. page \subseteq Linked(kind, p) /\ Cardinality(page) = Cardinality(Linked(kind, p))
    BY <1>2 DEF Pages
  <2>2. page = Linked(kind, p)
    BY <1>1, <2>1, FS_Subset
  <2> QED BY <1>2, <2>2 DEF Fit
<1>3. CASE ~(Cardinality(Linked(kind, p)) <= ListLimit)
  BY <1>3 DEF Fit
<1> QED BY <1>2, <1>3

LEMMA WholeBegins == BridgeInit => WholeInv
<1> SUFFICES ASSUME BridgeInit PROVE WholeInv
  OBVIOUS
<1> USE BridgeConstants
<1>1. RealInv
  BY RealBegins
<1>2. ListsWhole
  BY DEF BridgeInit, ListsWhole
<1>3. ASSUME NEW c \in Searchers, NEW s, s = search[c] PROVE WholeCall(c, s)
  <2>1. s = Start(c)
    BY <1>3 DEF BridgeInit
  <2>2. /\ s.pc = "pop" /\ s.kinds = <<>> /\ s.visited = {Source[c]}
        /\ s.queue = << <<Source[c]>> >>
    BY <2>1 DEF Start
  <2>3. /\ DOMAIN s.queue = {1} /\ s.queue[1] = <<Source[c]>> /\ Len(<<Source[c]>>) = 1
        /\ Last(<<Source[c]>>) = Source[c]
    BY <2>2 DEF Last
  <2>4. ASSUME NEW p \in Near(c, 0) PROVE p = Source[c]
    <3>1. PICK m \in 0..0 : \E walk \in SureWalks(c, m) : walk[m + 1] = p
      BY DEF Near
    <3>2. m = 0
      OBVIOUS
    <3>3. PICK walk \in SureWalks(c, 0) : walk[1] = p
      BY <3>1, <3>2
    <3> QED BY <3>3 DEF SureWalks, Walks
  <2>5. Level(c, s, 1, {})
    <3>1. \A k \in DOMAIN s.queue : k = 1 /\ Len(s.queue[k]) = 1 /\ Last(s.queue[k]) = Source[c]
      BY <2>3
    <3>2. Near(c, 1 - 1) \subseteq s.visited
      BY <2>2, <2>4
    <3>3. \A p \in s.visited : \E k \in DOMAIN s.queue : Last(s.queue[k]) = p
      BY <2>2, <2>3, <3>1
    <3>4. \A j, k \in DOMAIN s.queue : j < k => Len(s.queue[j]) <= Len(s.queue[k])
      BY <3>1
    <3>5. 1 \in Nat \ {0} /\ ~(1 >= 2) /\ 1 + 1 = 2
      OBVIOUS
    <3>6. \A k \in DOMAIN s.queue : Len(s.queue[k]) \in {1, 1 + 1} /\ Len(s.queue[k]) # 1 + 1
      BY <3>1
    <3> QED BY <3>2, <3>3, <3>4, <3>5, <3>6 DEF Level
  <2> QED BY <2>2, <2>5 DEF WholeCall
<1> QED BY <1>1, <1>2, <1>3 DEF WholeInv

\* What a step makes of the record of each search.
LEMMA BecomesOne ==
    ASSUME WholeInv, NEW c \in Searchers, NEW r, Becomes(c, r)
    PROVE  search'[c] = r /\ \A d \in Searchers \ {c} : search'[d] = search[d]
<1>1. search = [d \in Searchers |-> search[d]]
  BY TypedCalls DEF WholeInv, RealInv
<1> QED BY <1>1 DEF Becomes

LEMMA CallHas ==
    ASSUME WholeInv, NEW c \in Searchers, NEW s, s = search[c]
    PROVE  /\ links \in Literatures /\ Typed(s) /\ RealCall(c, s) /\ WholeCall(c, s)
           /\ s \in SearchState /\ s.path \in Seq(Library)
           /\ s.kinds # <<>> =>
                Last(s.path) \in Library /\ Entry(c) = <<Head(s.kinds), Last(s.path)>>
BY SearchHas DEF WholeInv, SearchState

\* A list that has come.
LEMMA ArrivedWholly ==
    ASSUME WholeInv, RealInv', NEW c \in Searchers, search[c].kinds # <<>>,
           NEW ids \in SUBSET Library, NEW failed \in {0, 1},
           failed = 0 => Fit(Entry(c)[1], Entry(c)[2]) \subseteq ids,
           Arrived(c, ids, failed), links' = links,
           \A entry \in DOMAIN lists' : Fit(entry[1], entry[2]) \subseteq lists'[entry]
    PROVE  WholeInv'
<1>1. PICK s : s = search[c]
  OBVIOUS
<1>2. /\ links \in Literatures /\ Typed(s) /\ RealCall(c, s) /\ WholeCall(c, s)
      /\ Entry(c) = <<Head(s.kinds), Last(s.path)>>
  BY <1>1, CallHas
<1>3. failed = 0 => Fit(Head(s.kinds), Last(s.path)) \subseteq ids
  BY <1>2
<1>4. PICK r : r = Advanced(c, s, ids, failed)
  OBVIOUS
<1>5. WholeCall(c, r)
  BY <1>1, <1>2, <1>3, <1>4, AdvancedWhole
<1>6. Becomes(c, r)
  BY <1>1, <1>4 DEF Arrived, Advanced, Received
<1>7. search'[c] = r /\ \A d \in Searchers \ {c} : search'[d] = search[d]
  BY <1>6, BecomesOne
<1> QED BY <1>5, <1>7, WholeMoves

LEMMA WholePops ==
    ASSUME WholeInv, NEW c \in Searchers, PopPath(c) \/ GiveUp(c)
    PROVE  WholeInv'
<1>1. RealInv'
  BY PopReal, GiveUpReal DEF WholeInv
<1>2. links' = links /\ \A entry \in DOMAIN lists' : Fit(entry[1], entry[2]) \subseteq lists'[entry]
  BY DEF PopPath, GiveUp, WholeInv, ListsWhole
<1>3. \A d \in Searchers \ {c} : search'[d] = search[d]
  <2>1. PICK r : Becomes(c, r)
    BY DEF PopPath, GiveUp
  <2> QED BY <2>1, BecomesOne
<1>4. \A r : r = search'[c] => WholeCall(c, r)
  BY PopWhole, GiveUpWhole
<1> QED BY <1>1, <1>2, <1>3, <1>4, WholeMoves

LEMMA AskWhole ==
    ASSUME WholeInv, NEW c \in Searchers, Ask(c)
    PROVE  WholeInv'
<1>1. PICK s : s = search[c]
  OBVIOUS
<1>2. Typed(s) /\ s \in SearchState /\ WholeCall(c, s)
  BY <1>1, CallHas
<1>3. s.pc = "ask" /\ s.kinds # <<>> /\ links' = links /\ lists' = lists
  BY <1>1, <1>2 DEF Ask, At, Typed
<1>4. \A entry \in DOMAIN lists' : Fit(entry[1], entry[2]) \subseteq lists'[entry]
  BY <1>3 DEF WholeInv, ListsWhole
<1>5. RealInv'
  BY AskReal DEF WholeInv
<1>6. CASE Entry(c) \in DOMAIN lists
  <2>1. PICK ids : ids = lists[Entry(c)]
    OBVIOUS
  <2>2. Fit(Entry(c)[1], Entry(c)[2]) \subseteq ids /\ ids \in SUBSET Library
    BY <1>6, <2>1 DEF WholeInv, ListsWhole, RealInv, BridgeTypeOK
  <2>3. Arrived(c, ids, 0)
    BY <1>6, <2>1 DEF Ask
  <2> QED BY <1>1, <1>3, <1>4, <1>5, <2>2, <2>3, ArrivedWholly
<1>7. CASE Entry(c) \notin DOMAIN lists
  <2>1. PICK r : r = [s EXCEPT !.pc = "fetch"]
    OBVIOUS
  <2>2. /\ r.queue = s.queue /\ r.kinds = s.kinds /\ r.pc = "fetch" /\ r.answer = s.answer
        /\ r.visited = s.visited /\ r.path = s.path /\ r.found = s.found
        /\ r.failures = s.failures
    BY <1>2, <2>1 DEF SearchState
  <2>3. WholeCall(c, r)
    BY <1>2, <1>3, <2>2 DEF WholeCall, Level, Spent
  <2>4. Becomes(c, r)
    BY <1>1, <1>7, <2>1 DEF Ask
  <2>5. search'[c] = r /\ \A d \in Searchers \ {c} : search'[d] = search[d]
    BY <2>4, BecomesOne
  <2> QED BY <1>3, <1>4, <1>5, <2>3, <2>5, WholeMoves
<1> QED BY <1>6, <1>7

LEMMA FetchWhole ==
    ASSUME WholeInv, NEW c \in Searchers, NEW page, FetchList(c, page)
    PROVE  WholeInv'
<1>1. PICK s : s = search[c]
  OBVIOUS
<1>2. Typed(s) /\ s \in SearchState /\ WholeCall(c, s) /\ links \in Literatures
  BY <1>1, CallHas
<1>3. s.pc = "fetch" /\ s.kinds # <<>> /\ links' = links /\ lists' = lists
  BY <1>1, <1>2 DEF FetchList, At, Typed
<1>4. \A entry \in DOMAIN lists' : Fit(entry[1], entry[2]) \subseteq lists'[entry]
  BY <1>3 DEF WholeInv, ListsWhole
<1>5. RealInv'
  BY FetchReal DEF WholeInv
<1>6. Fit(Head(s.kinds), Last(s.path)) \subseteq page
  <2>1. Entry(c) = <<Head(s.kinds), Last(s.path)>> /\ Last(s.path) \in Library
    BY <1>1, <1>3, CallHas
  <2>2. page \in Pages(Head(s.kinds), Last(s.path))
    BY <2>1 DEF FetchList
  <2> QED BY <1>2, <2>1, <2>2, PageIsWhole
<1>7. PICK r : r = [s EXCEPT !.page = page, !.pc = "store"]
  OBVIOUS
<1>8. /\ r.queue = s.queue /\ r.kinds = s.kinds /\ r.pc = "store" /\ r.answer = s.answer
      /\ r.visited = s.visited /\ r.path = s.path /\ r.found = s.found
      /\ r.failures = s.failures /\ r.page = page
  BY <1>2, <1>7 DEF SearchState
<1>9. WholeCall(c, r)
  BY <1>2, <1>3, <1>6, <1>8 DEF WholeCall, Level, Spent
<1>10. Becomes(c, r)
  BY <1>1, <1>7 DEF FetchList
<1>11. search'[c] = r /\ \A d \in Searchers \ {c} : search'[d] = search[d]
  BY <1>10, BecomesOne
<1> QED BY <1>3, <1>4, <1>5, <1>9, <1>11, WholeMoves

LEMMA FetchFailsWhole ==
    ASSUME WholeInv, NEW c \in Searchers, FetchListFails(c)
    PROVE  WholeInv'
<1>1. search[c].kinds # <<>> /\ links' = links /\ lists' = lists /\ Arrived(c, {}, 1)
  BY TypedCalls DEF FetchListFails, At, WholeInv, RealInv, Typed
<1>2. \A entry \in DOMAIN lists' : Fit(entry[1], entry[2]) \subseteq lists'[entry]
  BY <1>1 DEF WholeInv, ListsWhole
<1>3. RealInv'
  BY FetchFailsReal DEF WholeInv
<1> QED BY <1>1, <1>2, <1>3, ArrivedWholly

LEMMA StoreWhole ==
    ASSUME WholeInv, NEW c \in Searchers, StoreList(c)
    PROVE  WholeInv'
<1>1. PICK s : s = search[c]
  OBVIOUS
<1>2. Typed(s) /\ s \in SearchState /\ WholeCall(c, s)
  BY <1>1, CallHas
<1>3. /\ s.pc = "store" /\ s.kinds # <<>> /\ links' = links
      /\ lists' = WithList(Entry(c), s.page) /\ Arrived(c, s.page, 0)
  BY <1>1, <1>2 DEF StoreList, At, Typed
<1>4. PICK entry : entry = Entry(c)
  OBVIOUS
<1>5. Fit(entry[1], entry[2]) \subseteq s.page /\ s.page \in SUBSET Library
  <2>1. entry = <<Head(s.kinds), Last(s.path)>>
    BY <1>1, <1>3, <1>4, CallHas
  <2> QED BY <1>2, <1>3, <2>1 DEF WholeCall, SearchState
<1>6. /\ DOMAIN lists' = DOMAIN lists \union {entry}
      /\ \A e \in DOMAIN lists' : lists'[e] = IF e = entry THEN s.page ELSE lists[e]
  BY <1>3, <1>4, StoredLists
<1>7. \A e \in DOMAIN lists' : Fit(e[1], e[2]) \subseteq lists'[e]
  BY <1>5, <1>6 DEF WholeInv, ListsWhole
<1>8. Fit(Entry(c)[1], Entry(c)[2]) \subseteq s.page
  BY <1>4, <1>5
<1>9. RealInv'
  BY StoreReal DEF WholeInv
<1> QED BY <1>1, <1>3, <1>5, <1>7, <1>8, <1>9, ArrivedWholly

\* The searches stand still, whatever becomes of the lists.
LEMMA SearchesStandStill ==
    ASSUME WholeInv, RealInv', links' = links, search' = search,
           DOMAIN lists' \subseteq DOMAIN lists, \A e \in DOMAIN lists' : lists'[e] = lists[e]
    PROVE  WholeInv'
<1>1. ListsWhole'
  <2>1. \A kind, p : Fit(kind, p)' = Fit(kind, p)
    BY DEF Linked, Fit
  <2> QED BY <2>1 DEF WholeInv, ListsWhole
<1>2. \A c \in Searchers : \A s \in {search'[c]} : WholeCall(c, s)'
  BY WholeStays DEF WholeInv
<1> QED BY <1>1, <1>2 DEF WholeInv

LEMMA WholeAlways == BridgeSpec => []WholeInv
<1>1. WholeInv /\ [BridgeNext]_bridgeVars => WholeInv'
  <2> SUFFICES ASSUME WholeInv, [BridgeNext]_bridgeVars PROVE WholeInv'
    OBVIOUS
  <2>1. CASE UNCHANGED bridgeVars
    <3>1. links' = links /\ search' = search /\ lists' = lists
      BY <2>1 DEF bridgeVars
    <3>2. RealInv'
      BY <2>1, RealStep DEF WholeInv
    <3> QED BY <3>1, <3>2, SearchesStandStill
  <2>2. ASSUME NEW entry \in DOMAIN lists, ListExpires(entry) PROVE WholeInv'
    <3>1. links' = links /\ search' = search
      BY <2>2 DEF ListExpires
    <3>2. DOMAIN lists' \subseteq DOMAIN lists /\ \A e \in DOMAIN lists' : lists'[e] = lists[e]
      BY <2>2 DEF ListExpires, Restrict
    <3>3. RealInv'
      BY <2>2, ExpireReal DEF WholeInv
    <3> QED BY <3>1, <3>2, <3>3, SearchesStandStill
  <2>3. CASE BridgeNext
    BY <2>2, <2>3, WholePops, AskWhole, FetchWhole, FetchFailsWhole, StoreWhole
       DEF BridgeNext, Search
  <2> QED BY <2>1, <2>3
<1> QED BY WholeBegins, <1>1, PTL DEF BridgeSpec

\* What find_bridge_papers tells without the partial mark is so as far as lists
\* are not cut: no walk along lists that fit one request is shorter than a bridge
\* that was found, and when none was found no such walk of up to MaxDepth + 1 hops
\* leads to the target, whatever was cut, failed or expired on the way; and a
\* bridge is real in any case.
THEOREM BridgesAreTrue == BridgeSpec => []PathsAreTrue
<1>1. WholeInv => PathsAreTrue
  <2> SUFFICES ASSUME WholeInv PROVE PathsAreTrue
    OBVIOUS
  <2>1. BridgeTypeOK /\ PathsAreReal
    BY RealIsReal DEF WholeInv
  <2>2. ASSUME NEW c \in Searchers, Done(c), ~Partial(c)
        PROVE  ~Bridged(c, IF Found(c) THEN Hops(c) - 1 ELSE MaxDepth + 1)
    <3>1. PICK s : s = search[c]
      OBVIOUS
    <3>2. s \in SearchState /\ WholeCall(c, s)
      BY <3>1, CallHas
    <3>3. s.pc = "done" /\ s.failures = 0
      BY <2>2, <3>1, <3>2 DEF Done, At, Partial, SearchState
    <3>4. Hops(c) - 1 = Len(s.answer) - 2
      BY <3>1, <3>2 DEF Hops, SearchState
    <3> QED BY <3>1, <3>2, <3>3, <3>4 DEF WholeCall, Found
  <2> QED BY <2>1, <2>2 DEF PathsAreTrue, CompleteIsTrue
<1> QED BY WholeAlways, <1>1, PTL

-----------------------------------------------------------------------------
(* A search comes to an end.                                                   *)

\* A path is spent on each paper that was seen: what a search has still to extend are
\* the queued paths and, at most, one for each paper that it has not seen.
Ahead(s) == Cardinality(Library \ s.visited) + Len(s.queue)

\* A path costs a step to take and three for each list: to look for it, fetch it, store it.
PerPath(c) == 3 * Len(Kinds[c]) + 1

OnThePath(s) ==
    CASE s.pc = "ask" -> 3 * Len(s.kinds)
      [] s.pc = "fetch" -> 3 * Len(s.kinds) - 1
      [] s.pc = "store" -> 3 * Len(s.kinds) - 2
      [] OTHER -> 0

StepsIn(c, s) == IF s.pc = "done" THEN 0 ELSE 1 + PerPath(c) * Ahead(s) + OnThePath(s)
StepsLeft(c) == StepsIn(c, search[c])
AtMost(c) == 1 + PerPath(c) * Cardinality(Library)

\* A step of a search leaves it fewer to take, and nothing that others do, nor
\* the expiry of a list, ever adds to them.
CountsDown ==
    \A c \in Searchers :
        /\ StepsLeft(c) \in Nat /\ StepsLeft(c)' \in Nat
        /\ StepsLeft(c)' <= StepsLeft(c)
        /\ Search(c) => StepsLeft(c)' < StepsLeft(c)

LEMMA StepsCounted ==
    ASSUME NEW c \in Searchers, NEW s, Typed(s)
    PROVE  /\ Ahead(s) \in Nat /\ PerPath(c) \in Nat /\ PerPath(c) * Ahead(s) \in Nat
           /\ OnThePath(s) \in Nat /\ StepsIn(c, s) \in Nat
           /\ Len(s.kinds) \in Nat /\ Len(s.queue) \in Nat
           /\ s.kinds # <<>> => OnThePath(s) >= 3 * Len(s.kinds) - 2 /\ Len(s.kinds) > 0
<1>1. /\ s.queue \in Seq(Seq(Library)) /\ s.kinds \in Seq({"references", "citations"})
      /\ s.pc \in {"pop", "ask", "fetch", "store", "done"}
      /\ s.pc \in {"ask", "fetch", "store"} <=> s.kinds # <<>>
  BY DEF Typed, SearchState
<1>2. Cardinality(Library \ s.visited) \in Nat
  BY BridgeConstants, FS_Difference, FS_CardinalityType
<1>3. Len(s.kinds) \in Nat /\ Len(s.queue) \in Nat /\ (s.kinds # <<>> => Len(s.kinds) > 0)
  BY <1>1
<1>4. Ahead(s) \in Nat
  BY <1>2, <1>3 DEF Ahead
<1>5. PerPath(c) \in Nat
  <2>1. Len(Kinds[c]) \in Nat
    BY BridgeConstants
  <2> QED BY <2>1 DEF PerPath
<1>6. PerPath(c) * Ahead(s) \in Nat
  BY <1>4, <1>5
<1>7. OnThePath(s) \in Nat /\ (s.kinds # <<>> => OnThePath(s) >= 3 * Len(s.kinds) - 2)
  BY <1>1, <1>3 DEF OnThePath
<1> QED BY <1>3, <1>4, <1>5, <1>6, <1>7 DEF StepsIn

LEMMA TwoParts ==
    ASSUME NEW A, NEW B, IsFiniteSet(A), IsFiniteSet(B), A \intersect B = {}, NEW S, S = A \union B
    PROVE  Cardinality(S) = Cardinality(A) + Cardinality(B)
<1>1. Cardinality(A \intersect B) = 0
  BY FS_EmptySet
<1>2. Cardinality(A \union B) = Cardinality(A) + Cardinality(B) - Cardinality(A \intersect B)
  BY FS_Union
<1>3. Cardinality(A) \in Nat /\ Cardinality(B) \in Nat
  BY FS_CardinalityType
<1>4. Cardinality(A \union B) = Cardinality(A) + Cardinality(B)
  BY <1>1, <1>2, <1>3
<1> QED BY <1>4

\* What was seen for the first time is queued, once each: nothing is gained or lost.
LEMMA ExtendCounts ==
    ASSUME NEW c \in Searchers, NEW s \in SearchState, NEW near \in SUBSET Library,
           NEW r, r = Extend(c, s, near)
    PROVE  r.pc = "done" \/ (r.pc = "pop" /\ Ahead(r) = Ahead(s))
<1> DEFINE fresh == near \ s.visited
           new == SetToSeq(fresh)
           tails == [k \in DOMAIN new |-> Append(s.path, new[k])]
<1>1. IsFiniteSet(fresh) /\ new \in Seq(fresh) /\ Len(new) = Cardinality(fresh)
  BY BridgeConstants, FS_Subset, SequenceOf
<1>2. CASE Target[c] \in near
  BY <1>2 DEF Extend, SearchState
<1>3. CASE Target[c] \notin near
  <2>1. /\ r.pc = "pop" /\ r.visited = s.visited \union near /\ r.queue = s.queue \o tails
    BY <1>3 DEF Extend, SearchState
  <2>2. Len(r.queue) = Len(s.queue) + Len(new)
    <3>1. s.queue \in Seq(Seq(Library)) /\ s.path \in Seq(Library) /\ new \in Seq(fresh) /\ fresh \in SUBSET Library
      BY <1>1 DEF SearchState
    <3>2. Lengthened(s.queue, s.path, new, r.queue)
      <4> HIDE DEF new, fresh
      <4> QED BY <2>1, <3>1, QueueIs
    <3> QED BY <3>2 DEF Lengthened
  <2>3. /\ Library \ s.visited = fresh \union (Library \ r.visited)
        /\ fresh \intersect (Library \ r.visited) = {}
    BY <2>1
  <2>4. Cardinality(Library \ s.visited) = Cardinality(fresh) + Cardinality(Library \ r.visited)
    <3>1. IsFiniteSet(fresh) /\ IsFiniteSet(Library \ r.visited)
      BY <1>1, BridgeConstants, FS_Difference
    <3> HIDE DEF fresh
    <3> QED BY <2>3, <3>1, TwoParts
  <2>5. Len(s.queue) \in Nat /\ Cardinality(fresh) \in Nat /\ Cardinality(Library \ r.visited) \in Nat
    <3>1. IsFiniteSet(Library \ r.visited)
      BY BridgeConstants, FS_Difference
    <3>2. Len(s.queue) \in Nat
      BY DEF SearchState
    <3> HIDE DEF fresh
    <3> QED BY <1>1, <3>1, <3>2, FS_CardinalityType
  <2> HIDE DEF fresh, new
  <2> QED BY <1>1, <2>1, <2>2, <2>4, <2>5 DEF Ahead
<1> QED BY <1>2, <1>3

\* A search moves on to a state that has fewer steps before it.
LEMMA MovesCount ==
    ASSUME RealInv, NEW c \in Searchers, NEW r, Becomes(c, r), StepsIn(c, r) < StepsIn(c, search[c])
    PROVE  StepsLeft(c)' < StepsLeft(c) /\ \A d \in Searchers \ {c} : StepsLeft(d)' = StepsLeft(d)
<1>1. search = [d \in Searchers |-> search[d]]
  BY TypedCalls DEF RealInv
<1>2. search'[c] = r /\ \A d \in Searchers \ {c} : search'[d] = search[d]
  BY <1>1 DEF Becomes
<1>3. \A d \in Searchers : StepsLeft(d)' = StepsIn(d, search'[d])
  BY DEF StepsLeft, StepsIn, PerPath, Ahead, OnThePath
<1> QED BY <1>2, <1>3 DEF StepsLeft

Fewer(c) == StepsLeft(c)' < StepsLeft(c) /\ \A d \in Searchers \ {c} : StepsLeft(d)' = StepsLeft(d)

\* A list that has come, from wherever it came.
LEMMA ArrivedCounts ==
    ASSUME RealInv, NEW c \in Searchers, search[c].kinds # <<>>,
           NEW ids \in SUBSET Library, NEW failed \in {0, 1}, Arrived(c, ids, failed)
    PROVE  Fewer(c)
<1>1. PICK s : s = search[c]
  OBVIOUS
<1>2. Typed(s) /\ s \in SearchState /\ s.kinds # <<>> /\ s.pc # "done"
  BY <1>1, SearchHas DEF Typed
<1>3. PICK m : m = Received(s, ids, failed)
  OBVIOUS
<1>4. /\ m \in SearchState /\ m.kinds = Tail(s.kinds) /\ m.pc = "ask" /\ m.queue = s.queue
      /\ m.visited = s.visited
  BY <1>2, <1>3, ReceivedIs
<1>5. Ahead(m) = Ahead(s)
  BY <1>4 DEF Ahead
<1>6. Len(m.kinds) = Len(s.kinds) - 1
  BY <1>2, <1>4 DEF SearchState
<1>7. /\ PerPath(c) * Ahead(s) \in Nat /\ OnThePath(s) \in Nat /\ Len(s.kinds) \in Nat /\ Len(s.kinds) > 0
      /\ OnThePath(s) >= 3 * Len(s.kinds) - 2
      /\ StepsIn(c, s) = 1 + PerPath(c) * Ahead(s) + OnThePath(s)
  BY <1>2, StepsCounted DEF StepsIn
<1>8. PICK r : r = Advanced(c, s, ids, failed)
  OBVIOUS
<1>9. Becomes(c, r)
  BY <1>1, <1>8 DEF Arrived, Advanced, Received
<1>10. CASE m.kinds # <<>>
  <2>1. r = m
    BY <1>3, <1>8, <1>10 DEF Advanced
  <2>2. StepsIn(c, r) = 1 + PerPath(c) * Ahead(s) + 3 * (Len(s.kinds) - 1)
    BY <1>4, <1>5, <1>6, <2>1 DEF StepsIn, OnThePath
  <2>3. StepsIn(c, r) < StepsIn(c, s)
    BY <1>7, <2>2
  <2> QED BY <1>1, <1>9, <2>3, MovesCount DEF Fewer
<1>11. CASE m.kinds = <<>>
  <2>1. r = Extend(c, m, m.found) /\ m.found \in SUBSET Library
    BY <1>3, <1>4, <1>8, <1>11 DEF Advanced, SearchState
  <2>2. r.pc = "done" \/ (r.pc = "pop" /\ Ahead(r) = Ahead(s))
    BY <1>4, <1>5, <2>1, ExtendCounts
  <2>3. StepsIn(c, r) = 0 \/ StepsIn(c, r) = 1 + PerPath(c) * Ahead(s) + 0
    BY <2>2 DEF StepsIn, OnThePath
  <2>4. StepsIn(c, r) < StepsIn(c, s)
    BY <1>7, <2>3
  <2> QED BY <1>1, <1>9, <2>4, MovesCount DEF Fewer
<1> QED BY <1>10, <1>11

LEMMA PopCounts ==
    ASSUME RealInv, NEW c \in Searchers, PopPath(c)
    PROVE  Fewer(c)
<1>1. PICK s : s = search[c]
  OBVIOUS
<1>2. Typed(s) /\ s \in SearchState /\ s.kinds = <<>> /\ s.pc = "pop" /\ s.queue # <<>>
  BY <1>1, SearchHas DEF Typed, PopPath, At
<1> DEFINE path == Head(s.queue)
           dropped == [s EXCEPT !.queue = Tail(@)]
           taken == [dropped EXCEPT !.path = path, !.kinds = Kinds[c], !.found = {}, !.pc = "ask"]
<1>3. Becomes(c, dropped) \/ Becomes(c, taken)
  BY <1>1 DEF PopPath
<1>4. /\ dropped.pc = "pop" /\ dropped.visited = s.visited /\ dropped.queue = Tail(s.queue)
      /\ taken.pc = "ask" /\ taken.visited = s.visited /\ taken.queue = Tail(s.queue)
      /\ taken.kinds = Kinds[c]
  BY <1>2 DEF SearchState
<1> HIDE DEF dropped, taken
<1>5. Len(Tail(s.queue)) = Len(s.queue) - 1 /\ Len(s.queue) \in Nat /\ Len(s.queue) > 0
  BY <1>2 DEF SearchState
<1>6. /\ Ahead(s) \in Nat /\ PerPath(c) \in Nat /\ PerPath(c) = 3 * Len(Kinds[c]) + 1
      /\ Len(Kinds[c]) \in Nat
  BY <1>2, StepsCounted, BridgeConstants DEF PerPath
<1>7. Cardinality(Library \ s.visited) \in Nat
  BY BridgeConstants, FS_Difference, FS_CardinalityType
<1>8. Ahead(dropped) = Ahead(s) - 1 /\ Ahead(taken) = Ahead(s) - 1 /\ Ahead(s) > 0
  BY <1>4, <1>5, <1>7 DEF Ahead
<1>9. PerPath(c) * (Ahead(s) - 1) = PerPath(c) * Ahead(s) - PerPath(c) /\ PerPath(c) * Ahead(s) \in Nat
  BY <1>6, <1>8
<1>10. StepsIn(c, s) = 1 + PerPath(c) * Ahead(s)
  BY <1>2, <1>9 DEF StepsIn, OnThePath
<1>11. StepsIn(c, dropped) = 1 + PerPath(c) * (Ahead(s) - 1)
  BY <1>4, <1>6, <1>8, <1>9 DEF StepsIn, OnThePath
<1>12. StepsIn(c, taken) = 1 + PerPath(c) * (Ahead(s) - 1) + 3 * Len(Kinds[c])
  BY <1>4, <1>8 DEF StepsIn, OnThePath
<1>13. StepsIn(c, dropped) < StepsIn(c, s) /\ StepsIn(c, taken) < StepsIn(c, s)
  BY <1>6, <1>9, <1>10, <1>11, <1>12
<1> QED BY <1>1, <1>3, <1>13, MovesCount DEF Fewer

LEMMA SearchCounts ==
    ASSUME RealInv, NEW c \in Searchers, Search(c)
    PROVE  Fewer(c)
<1>1. PICK s : s = search[c]
  OBVIOUS
<1>2. Typed(s) /\ s \in SearchState
  BY <1>1, SearchHas
<1>3. /\ PerPath(c) * Ahead(s) \in Nat /\ Len(s.kinds) \in Nat
      /\ s.kinds # <<>> => Len(s.kinds) > 0
  BY <1>2, StepsCounted
<1>4. CASE PopPath(c)
  BY <1>4, PopCounts
<1>5. CASE GiveUp(c)
  <2> DEFINE r == [s EXCEPT !.pc = "done"]
  <2>1. r.pc = "done" /\ s.pc = "pop"
    BY <1>1, <1>2, <1>5 DEF SearchState, GiveUp, At
  <2>2. Becomes(c, r)
    BY <1>1, <1>5 DEF GiveUp
  <2> HIDE DEF r
  <2>3. StepsIn(c, r) < StepsIn(c, s)
    BY <1>3, <2>1 DEF StepsIn, OnThePath
  <2> QED BY <1>1, <2>2, <2>3, MovesCount DEF Fewer
<1>6. CASE Ask(c)
  <2>1. s.pc = "ask" /\ s.kinds # <<>>
    BY <1>1, <1>2, <1>6 DEF Ask, At, Typed
  <2>2. CASE Entry(c) \in DOMAIN lists
    <3>1. PICK ids \in SUBSET Library : ids = lists[Entry(c)]
      BY <2>2 DEF RealInv, BridgeTypeOK
    <3>2. Arrived(c, ids, 0)
      BY <1>6, <2>2, <3>1 DEF Ask
    <3> QED BY <1>1, <2>1, <3>2, ArrivedCounts
  <2>3. CASE Entry(c) \notin DOMAIN lists
    <3> DEFINE r == [s EXCEPT !.pc = "fetch"]
    <3>1. r.pc = "fetch" /\ r.kinds = s.kinds /\ r.queue = s.queue /\ r.visited = s.visited
      BY <1>2 DEF SearchState
    <3>2. Becomes(c, r)
      BY <1>1, <1>6, <2>3 DEF Ask
    <3> HIDE DEF r
    <3>3. Ahead(r) = Ahead(s)
      BY <3>1 DEF Ahead
    <3>4. StepsIn(c, r) < StepsIn(c, s)
      BY <1>3, <2>1, <3>1, <3>3 DEF StepsIn, OnThePath
    <3> QED BY <1>1, <3>2, <3>4, MovesCount DEF Fewer
  <2> QED BY <2>2, <2>3
<1>7. CASE \E page \in SUBSET Library : FetchList(c, page)
  <2>1. PICK page \in SUBSET Library : FetchList(c, page)
    BY <1>7
  <2> DEFINE r == [s EXCEPT !.page = page, !.pc = "store"]
  <2>2. /\ r.pc = "store" /\ r.kinds = s.kinds /\ r.queue = s.queue /\ r.visited = s.visited
        /\ s.pc = "fetch" /\ s.kinds # <<>>
    BY <1>1, <1>2, <2>1 DEF SearchState, FetchList, At, Typed
  <2>3. Becomes(c, r)
    BY <1>1, <2>1 DEF FetchList
  <2> HIDE DEF r
  <2>4. Ahead(r) = Ahead(s)
    BY <2>2 DEF Ahead
  <2>5. StepsIn(c, r) < StepsIn(c, s)
    BY <1>3, <2>2, <2>4 DEF StepsIn, OnThePath
  <2> QED BY <1>1, <2>3, <2>5, MovesCount DEF Fewer
<1>8. CASE FetchListFails(c)
  <2>1. s.kinds # <<>> /\ Arrived(c, {}, 1)
    BY <1>1, <1>2, <1>8 DEF FetchListFails, At, Typed
  <2> QED BY <1>1, <2>1, ArrivedCounts
<1>9. CASE StoreList(c)
  <2>1. s.kinds # <<>> /\ s.page \in SUBSET Library /\ Arrived(c, s.page, 0)
    BY <1>1, <1>2, <1>9 DEF StoreList, At, Typed, SearchState
  <2> QED BY <1>1, <2>1, ArrivedCounts
<1> QED BY <1>4, <1>5, <1>6, <1>7, <1>8, <1>9 DEF Search

\* Before its first step a search has no more than AtMost to take.
LEMMA StartCounts ==
    ASSUME BridgeInit, NEW c \in Searchers
    PROVE  StepsLeft(c) = AtMost(c)
<1>1. PICK s : s = Start(c)
  OBVIOUS
<1>2. search[c] = s /\ s.pc = "pop" /\ s.visited = {Source[c]} /\ Len(s.queue) = 1
  BY <1>1 DEF BridgeInit, Start
<1>3. Cardinality(Library) \in Nat /\ Cardinality(Library \ {Source[c]}) = Cardinality(Library) - 1
  <2>1. Library \intersect {Source[c]} = {Source[c]} /\ Cardinality({Source[c]}) = 1
    BY BridgeConstants, FS_Singleton
  <2>2. Cardinality(Library \ {Source[c]}) = Cardinality(Library) - Cardinality(Library \intersect {Source[c]})
    BY BridgeConstants, FS_Difference
  <2>3. Cardinality(Library) \in Nat
    BY BridgeConstants, FS_CardinalityType
  <2> QED BY <2>1, <2>2, <2>3
<1>4. Ahead(s) = Cardinality(Library)
  BY <1>2, <1>3 DEF Ahead
<1>5. PerPath(c) * Cardinality(Library) \in Nat
  <2>1. Len(Kinds[c]) \in Nat
    BY BridgeConstants
  <2> QED BY <1>3, <2>1 DEF PerPath
<1> QED BY <1>2, <1>4, <1>5 DEF StepsLeft, StepsIn, OnThePath, AtMost

\* A search has come no further away from its end than it was at the beginning.
Bounded == \A c \in Searchers : StepsLeft(c) \in Nat /\ StepsLeft(c) <= AtMost(c)

\* Every step of a search for a bridge leaves it fewer steps to take, and nothing
\* that others do adds to them: with any literature, any number of searches over one cache,
\* lists that expire and requests that fail it ends after at most AtMost steps, since no
\* paper is queued twice: it asks for no more lists than the library has papers, in each direction.
THEOREM BridgesRunDown == BridgeSpec => [][CountsDown]_bridgeVars /\ []Bounded
<1>1. RealInv /\ [BridgeNext]_bridgeVars => RealInv'
  BY RealStep
<1>2. RealInv /\ RealInv' /\ [BridgeNext]_bridgeVars => CountsDown
  <2> SUFFICES ASSUME RealInv, RealInv', [BridgeNext]_bridgeVars PROVE CountsDown
    OBVIOUS
  <2>1. \A d \in Searchers : StepsLeft(d)' = StepsIn(d, search'[d])
    BY DEF StepsLeft, StepsIn, PerPath, Ahead, OnThePath
  <2>2. \A d \in Searchers : StepsLeft(d) \in Nat /\ StepsLeft(d)' \in Nat
    <3>1. \A d \in Searchers : Typed(search[d]) /\ Typed(search'[d])
      <4>1. BridgeTypeOK /\ BridgeTypeOK'
        BY DEF RealInv
      <4> QED BY <4>1 DEF BridgeTypeOK, Typed, SearchState
    <3> QED BY <2>1, <3>1, StepsCounted DEF StepsLeft
  <2>3. \A d \in Searchers : Search(d) => Fewer(d)
    BY SearchCounts
  <2>4. ASSUME NEW d \in Searchers, ~Search(d)
        PROVE  StepsLeft(d)' = StepsLeft(d)
    <3>1. CASE \E c \in Searchers : Search(c)
      BY <2>3, <2>4, <3>1 DEF Fewer
    <3>2. CASE (\E entry \in DOMAIN lists : ListExpires(entry)) \/ UNCHANGED bridgeVars
      <4>1. search' = search
        BY <3>2 DEF ListExpires, bridgeVars
      <4> QED BY <2>1, <4>1 DEF StepsLeft
    <3> QED BY <3>1, <3>2 DEF BridgeNext
  <2> QED BY <2>2, <2>3, <2>4 DEF CountsDown, Fewer
<1>3. BridgeInit => Bounded
  <2> SUFFICES ASSUME BridgeInit, NEW c \in Searchers PROVE StepsLeft(c) \in Nat /\ StepsLeft(c) <= AtMost(c)
    BY DEF Bounded
  <2>1. RealInv
    BY RealBegins
  <2>2. StepsLeft(c) \in Nat
    BY <2>1, TypedCalls, StepsCounted DEF RealInv, StepsLeft
  <2> QED BY <2>2, StartCounts
<1>4. Bounded /\ CountsDown => Bounded'
  <2> SUFFICES ASSUME Bounded, CountsDown, NEW c \in Searchers
               PROVE  StepsLeft(c)' \in Nat /\ StepsLeft(c)' <= AtMost(c)
    BY DEF Bounded, AtMost, PerPath
  <2>1. /\ StepsLeft(c) \in Nat /\ StepsLeft(c) <= AtMost(c)
        /\ StepsLeft(c)' \in Nat /\ StepsLeft(c)' <= StepsLeft(c)
    BY DEF Bounded, CountsDown
  <2>2. AtMost(c) \in Nat
    <3>1. Len(Kinds[c]) \in Nat /\ Cardinality(Library) \in Nat
      BY BridgeConstants, FS_CardinalityType
    <3> QED BY <3>1 DEF AtMost, PerPath
  <2> QED BY <2>1, <2>2
<1> QED BY RealBegins, <1>1, <1>2, <1>3, <1>4, PTL DEF BridgeSpec
=============================================================================
