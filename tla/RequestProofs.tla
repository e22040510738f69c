---------------------------- MODULE RequestProofs ----------------------------
(***************************************************************************)
(* Proofs about what happens to a request before and in its handler: the   *)
(* authorization of Authorization, and the pages and the PATCH handler of  *)
(* Crud.                                                                   *)
(***************************************************************************)
EXTENDS Authorization, Crud, Integers, WellFoundedInduction, SequenceTheorems,
        FiniteSetTheorems, TLAPS

\* A set of naturals has a least element.
LEMMA LeastNat ==
  ASSUME NEW T, T \subseteq Nat, T # {}
  PROVE  \E n \in T : \A m \in T : n <= m
<1> DEFINE R == OpToRel(<, Nat)
<1>1. IsWellFoundedOn(R, Nat)
  BY NatLessThanWellFounded
<1>2. \A x, y \in Nat : x < y => <<x, y>> \in R
  BY DEF OpToRel
<1> HIDE DEF R
<1>3. PICK n \in T : \A y \in T : ~(<<y, n>> \in R)
  BY <1>1, WFMin
<1>4. \A m \in T : n <= m
  <2> SUFFICES ASSUME NEW m \in T, ~(n <= m) PROVE FALSE
    OBVIOUS
  <2>1. m \in Nat /\ n \in Nat /\ m < n
    OBVIOUS
  <2>2. <<m, n>> \in R
    BY <1>2, <2>1
  <2> QED BY <1>3, <2>2
<1> QED BY <1>4

-----------------------------------------------------------------------------
(* Paths                                                                   *)

\* A prefix, by its characters.
LEMMA PrefixFacts ==
  ASSUME NEW s \in Seq(Nat), NEW t \in Seq(Nat)
  PROVE  IsPrefix(s, t) <=> Len(s) <= Len(t) /\ \A i \in 1 .. Len(s) : s[i] = t[i]
<1>1. Len(s) \in Nat /\ Len(t) \in Nat
  BY LenProperties
<1>2. SubSeq(s, 1, Len(s)) = s
  BY SubSeqFull
<1>3. ASSUME Len(s) <= Len(t)
      PROVE  /\ SubSeq(t, 1, Len(s)) \in Seq(Nat)
             /\ Len(SubSeq(t, 1, Len(s))) = Len(s)
             /\ \A i \in 1 .. Len(s) : SubSeq(t, 1, Len(s))[i] = t[i]
  BY <1>1, <1>3, SubSeqProperties, ElementOfSeq
<1>4. ASSUME IsPrefix(s, t)
      PROVE  Len(s) <= Len(t) /\ \A i \in 1 .. Len(s) : s[i] = t[i]
  BY <1>2, <1>3, <1>4 DEF IsPrefix
<1>5. ASSUME Len(s) <= Len(t), \A i \in 1 .. Len(s) : s[i] = t[i]
      PROVE  IsPrefix(s, t)
  <2>1. SubSeq(t, 1, Len(s)) = s
    BY <1>3, <1>5, SeqEqual
  <2> QED BY <1>2, <1>5, <2>1 DEF IsPrefix
<1> QED BY <1>4, <1>5

\* Where a segment ends is determined.
LEMMA SegmentEndFacts ==
  ASSUME NEW path \in Seq(Nat), NEW i \in 0 .. Len(path)
  PROVE  LET e == SegmentEnd(path, i) IN
         /\ e \in i .. Len(path)
         /\ e = Len(path) \/ path[e + 1] = 1
         /\ \A k \in i + 1 .. e : path[k] # 1
<1> DEFINE T == {e \in i .. Len(path) : e = Len(path) \/ path[e + 1] = 1}
<1>1. Len(path) \in Nat /\ i \in Nat
  BY LenProperties
<1>2. T \subseteq Nat /\ Len(path) \in T
  BY <1>1
<1>3. PICK e \in T : \A k \in T : e <= k
  <2> HIDE DEF T
  <2> QED BY <1>2, LeastNat
<1>4. \A k \in i + 1 .. e : path[k] # 1
  <2> SUFFICES ASSUME NEW k \in i + 1 .. e, path[k] = 1 PROVE FALSE
    OBVIOUS
  <2>1. e \in Nat /\ k \in Nat /\ i < k /\ k <= e /\ e <= Len(path)
    BY <1>1
  <2>2. k - 1 \in i .. Len(path) /\ (k - 1) + 1 = k
    BY <1>1, <2>1
  <2>3. k - 1 \in T
    BY <2>2
  <2>4. e <= k - 1
    BY <1>3, <2>3
  <2> QED BY <2>1, <2>4
<1>5. \E x \in i .. Len(path) :
         /\ x = Len(path) \/ path[x + 1] = 1
         /\ \A k \in i + 1 .. x : path[k] # 1
  BY <1>3, <1>4
<1> QED BY <1>5 DEF SegmentEnd

\* Only one place is the end of a segment.
LEMMA SegmentEndUnique ==
  ASSUME NEW path \in Seq(Nat), NEW i \in 0 .. Len(path), NEW e \in i .. Len(path),
         e = Len(path) \/ path[e + 1] = 1, \A k \in i + 1 .. e : path[k] # 1
  PROVE  SegmentEnd(path, i) = e
<1> DEFINE d == SegmentEnd(path, i)
<1>1. /\ d \in i .. Len(path)
      /\ d = Len(path) \/ path[d + 1] = 1
      /\ \A k \in i + 1 .. d : path[k] # 1
  BY SegmentEndFacts
<1> HIDE DEF d
<1>2. Len(path) \in Nat /\ i \in Nat /\ d \in Nat /\ e \in Nat
      /\ d <= Len(path) /\ e <= Len(path) /\ i <= d /\ i <= e
  BY <1>1, LenProperties
<1>3. ~(d < e)
  <2> SUFFICES ASSUME d < e PROVE FALSE
    OBVIOUS
  <2>1. d + 1 \in i + 1 .. e /\ d # Len(path)
    BY <1>2
  <2> QED BY <1>1, <2>1
<1>4. ~(e < d)
  <2> SUFFICES ASSUME e < d PROVE FALSE
    OBVIOUS
  <2>1. e + 1 \in i + 1 .. d /\ e # Len(path)
    BY <1>2
  <2> QED BY <1>1, <2>1
<1> QED BY <1>2, <1>3, <1>4 DEF d

\* The characters of a segment.
LEMMA SegmentFacts ==
  ASSUME NEW path \in Seq(Nat), NEW i \in 0 .. Len(path)
  PROVE  /\ Segment(path, i) \in Seq(Nat)
         /\ Len(Segment(path, i)) = SegmentEnd(path, i) - i
         /\ \A x \in i + 1 .. SegmentEnd(path, i) : Segment(path, i)[x - i] = path[x]
<1> DEFINE e == SegmentEnd(path, i)
<1>1. e \in i .. Len(path)
  BY SegmentEndFacts
<1> HIDE DEF e
<1>2. Len(path) \in Nat /\ i \in Nat /\ e \in Nat /\ i <= e /\ e <= Len(path)
  BY <1>1, LenProperties
<1>3. \A k \in i + 1 .. e : path[k] \in Nat
  BY <1>2, ElementOfSeq
<1>4. /\ SubSeq(path, i + 1, e) \in Seq(Nat)
      /\ Len(SubSeq(path, i + 1, e)) = IF i + 1 <= e THEN e - (i + 1) + 1 ELSE 0
      /\ \A k \in 1 .. e - (i + 1) + 1 : SubSeq(path, i + 1, e)[k] = path[(i + 1) + k - 1]
  BY <1>2, <1>3, SubSeqProperties
<1>5. Len(SubSeq(path, i + 1, e)) = e - i
  BY <1>2, <1>4
<1>6. ASSUME NEW x \in i + 1 .. e
      PROVE  SubSeq(path, i + 1, e)[x - i] = path[x]
  <2>1. x - i \in 1 .. e - (i + 1) + 1 /\ (i + 1) + (x - i) - 1 = x
    BY <1>2
  <2> QED BY <1>4, <2>1
<1> QED BY <1>4, <1>5, <1>6 DEF Segment, e

\* A character is in the segment behind the last cut before it.
LEMMA LastCut ==
  ASSUME NEW path \in Seq(Nat), NEW x \in 1 .. Len(path)
  PROVE  \E i \in Cuts(path) : i < x /\ \A k \in i + 1 .. x - 1 : path[k] # 1
<1> DEFINE T == {x - c : c \in {c \in Cuts(path) : c < x}}
<1>1. Len(path) \in Nat /\ x \in Nat /\ x <= Len(path) /\ Cuts(path) \subseteq Nat
  BY LenProperties DEF Cuts
<1>2. T \subseteq Nat
  BY <1>1
<1>3. T # {}
  <2>1. 0 \in Cuts(path) /\ 0 < x
    BY <1>1 DEF Cuts
  <2>2. x - 0 \in T
    BY <2>1
  <2> QED BY <2>2
<1>4. PICK d \in T : \A k \in T : d <= k
  <2> HIDE DEF T
  <2> QED BY <1>2, <1>3, LeastNat
<1>5. PICK i \in Cuts(path) : i < x /\ d = x - i
  BY <1>4
<1>6. \A k \in i + 1 .. x - 1 : path[k] # 1
  <2> SUFFICES ASSUME NEW k \in i + 1 .. x - 1, path[k] = 1 PROVE FALSE
    OBVIOUS
  <2>1. k \in 0 .. Len(path) /\ k \in Nat /\ k < x /\ i < k /\ i \in Nat
    BY <1>1, <1>5
  <2>2. k \in Cuts(path)
    BY <2>1 DEF Cuts
  <2>3. x - k \in T
    BY <2>1, <2>2
  <2>4. x - i <= x - k
    BY <1>4, <1>5, <2>3
  <2> QED BY <1>1, <2>1, <2>4
<1> QED BY <1>5, <1>6

\* If p contains q, a segment of p is one of q and is where it is in p.
LEMMA CoveredSegment ==
  ASSUME NEW p \in Seq(Nat), NEW q \in Seq(Nat), Covers(p, q),
         NEW i \in Cuts(p), ~(i > 0 /\ i = Len(p))
  PROVE  /\ i \in 0 .. Len(q) /\ SegmentEnd(q, i) = SegmentEnd(p, i)
         /\ \A x \in i + 1 .. SegmentEnd(p, i) : q[x] = p[x]
<1>1. i \in 0 .. Len(p) /\ i \in 0 .. Len(q) /\ Segment(p, i) = Segment(q, i)
  BY DEF Covers, Cuts
<1>2. /\ SegmentEnd(p, i) \in i .. Len(p) /\ SegmentEnd(q, i) \in i .. Len(q)
      /\ Len(p) \in Nat /\ Len(q) \in Nat
  BY <1>1, SegmentEndFacts, LenProperties
<1>3. SegmentEnd(p, i) - i = SegmentEnd(q, i) - i
  BY <1>1, SegmentFacts
<1>4. SegmentEnd(p, i) = SegmentEnd(q, i)
  BY <1>1, <1>2, <1>3
<1>5. \A x \in i + 1 .. SegmentEnd(p, i) : Segment(p, i)[x - i] = p[x]
  BY <1>1, SegmentFacts
<1>6. \A x \in i + 1 .. SegmentEnd(q, i) : Segment(q, i)[x - i] = q[x]
  BY <1>1, SegmentFacts
<1> QED BY <1>1, <1>4, <1>5, <1>6

\* is_path_prefix says which paths contain which.
LEMMA CoversFacts ==
  ASSUME NEW p \in Seq(Nat), NEW q \in Seq(Nat)
  PROVE  Covers(p, q) <=> is_path_prefix(p, q)
<1>0. Len(p) \in Nat /\ Len(q) \in Nat
  BY LenProperties
<1>1. ASSUME Covers(p, q)
      PROVE  is_path_prefix(p, q)
  <2>1. ASSUME NEW x \in 1 .. Len(p), p[x] # 1
        PROVE  \E i \in Cuts(p) : /\ ~(i > 0 /\ i = Len(p)) /\ x \in i + 1 .. SegmentEnd(p, i)
                                  /\ \A k \in i + 1 .. x : p[k] # 1
    <3>1. PICK i \in Cuts(p) : i < x /\ \A k \in i + 1 .. x - 1 : p[k] # 1
      BY LastCut
    <3> DEFINE e == SegmentEnd(p, i)
    <3>2. i \in 0 .. Len(p) /\ i \in Nat /\ x \in Nat /\ x <= Len(p)
      BY <1>0 DEF Cuts
    <3>3. e \in i .. Len(p) /\ (e = Len(p) \/ p[e + 1] = 1)
      BY <3>2, SegmentEndFacts
    <3> HIDE DEF e
    <3>4. i + 1 .. x = (i + 1 .. x - 1) \cup {x}
      BY <3>1, <3>2
    <3>5. \A k \in i + 1 .. x : p[k] # 1
      BY <2>1, <3>1, <3>4
    <3>6. ~(e < x)
      <4> SUFFICES ASSUME e < x PROVE FALSE
        OBVIOUS
      <4>1. e + 1 \in i + 1 .. x /\ e # Len(p)
        BY <1>0, <3>2, <3>3
      <4> QED BY <3>3, <3>5, <4>1
    <3>7. x \in i + 1 .. e /\ i # Len(p)
      BY <1>0, <3>1, <3>2, <3>3, <3>6
    <3> QED BY <3>5, <3>7 DEF e
  <2>2. ASSUME NEW x \in 1 .. Len(p)
        PROVE  x <= Len(q) /\ p[x] = q[x]
    <3>1. CASE p[x] = 1
      <4>1. x \in Cuts(p)
        BY <1>0, <3>1 DEF Cuts
      <4>2. x \in Cuts(q)
        BY <1>1, <4>1 DEF Covers
      <4> QED BY <1>0, <3>1, <4>2 DEF Cuts
    <3>2. CASE p[x] # 1
      <4>1. PICK i \in Cuts(p) : ~(i > 0 /\ i = Len(p)) /\ x \in i + 1 .. SegmentEnd(p, i)
        BY <2>1, <3>2
      <4>2. /\ i \in 0 .. Len(q) /\ SegmentEnd(q, i) = SegmentEnd(p, i)
            /\ \A y \in i + 1 .. SegmentEnd(p, i) : q[y] = p[y]
        BY <1>1, <4>1, CoveredSegment
      <4>3. SegmentEnd(q, i) \in i .. Len(q)
        BY <4>2, SegmentEndFacts
      <4> QED BY <1>0, <4>1, <4>2, <4>3
    <3> QED BY <3>1, <3>2
  <2>3. Len(p) <= Len(q)
    <3>1. CASE Len(p) = 0
      BY <1>0, <3>1
    <3>2. CASE Len(p) # 0
      <4>1. Len(p) \in 1 .. Len(p)
        BY <1>0, <3>2
      <4> QED BY <2>2, <4>1
    <3> QED BY <3>1, <3>2
  <2>4. IsPrefix(p, q)
    BY <2>2, <2>3, PrefixFacts
  <2>5. ASSUME NEW i \in Cuts(p), ~(i > 0 /\ i = Len(p)), SegmentEnd(p, i) = Len(p)
        PROVE  p = q \/ q[Len(p) + 1] = 1
    <3>1. i \in 0 .. Len(q) /\ SegmentEnd(q, i) = Len(p)
      BY <1>1, <2>5, CoveredSegment
    <3>2. Len(p) = Len(q) \/ q[Len(p) + 1] = 1
      BY <3>1, SegmentEndFacts
    <3>3. ASSUME Len(p) = Len(q) PROVE p = q
      BY <2>2, <3>3, SeqEqual
    <3> QED BY <3>2, <3>3
  <2>6. CASE Len(p) = 0
    <3>1. 0 \in Cuts(p) /\ 0 \in 0 .. Len(p)
      BY <1>0 DEF Cuts
    <3>2. SegmentEnd(p, 0) = Len(p)
      <4>1. SegmentEnd(p, 0) \in 0 .. Len(p)
        BY <3>1, SegmentEndFacts
      <4> QED BY <2>6, <4>1
    <3>3. p = q \/ q[Len(p) + 1] = 1
      BY <2>5, <3>1, <3>2
    <3> QED BY <2>4, <3>3 DEF is_path_prefix
  <2>7. CASE Len(p) # 0 /\ p[Len(p)] = 1
    <3>1. p # << >> /\ Last(p) = 1
      BY <2>7 DEF Last
    <3> QED BY <2>4, <3>1 DEF is_path_prefix
  <2>8. CASE Len(p) # 0 /\ p[Len(p)] # 1
    <3>1. Len(p) \in 1 .. Len(p)
      BY <1>0, <2>8
    <3>2. PICK i \in Cuts(p) : ~(i > 0 /\ i = Len(p)) /\ Len(p) \in i + 1 .. SegmentEnd(p, i)
      BY <2>1, <2>8, <3>1
    <3>3. i \in 0 .. Len(p)
      BY DEF Cuts
    <3>4. SegmentEnd(p, i) \in i .. Len(p)
      BY <3>3, SegmentEndFacts
    <3>5. SegmentEnd(p, i) = Len(p)
      BY <1>0, <3>2, <3>3, <3>4
    <3>6. p = q \/ q[Len(p) + 1] = 1
      BY <2>5, <3>2, <3>5
    <3> QED BY <2>4, <3>6 DEF is_path_prefix
  <2> QED BY <2>6, <2>7, <2>8
<1>2. ASSUME is_path_prefix(p, q)
      PROVE  Covers(p, q)
  <2>1. /\ Len(p) <= Len(q) /\ \A x \in 1 .. Len(p) : p[x] = q[x]
        /\ (p # << >> /\ p[Len(p)] = 1) \/ p = q \/ q[Len(p) + 1] = 1
    BY <1>2, PrefixFacts DEF is_path_prefix, Last
  <2>2. ASSUME NEW i \in Cuts(p)
        PROVE  i \in Cuts(q) /\ i \in 0 .. Len(p) /\ i \in 0 .. Len(q)
    BY <1>0, <2>1 DEF Cuts
  <2>3. ASSUME NEW i \in Cuts(p), ~(i > 0 /\ i = Len(p))
        PROVE  Segment(p, i) = Segment(q, i)
    <3> DEFINE e == SegmentEnd(p, i)
    <3>1. /\ e \in i .. Len(p)
          /\ e = Len(p) \/ p[e + 1] = 1
          /\ \A k \in i + 1 .. e : p[k] # 1
      BY <2>2, SegmentEndFacts
    <3> HIDE DEF e
    <3>2. i \in Nat /\ e \in Nat /\ i <= e /\ e <= Len(p) /\ e \in i .. Len(q)
      BY <1>0, <2>1, <2>2, <3>1
    <3>3. \A k \in i + 1 .. e : k \in 1 .. Len(p) /\ q[k] = p[k]
      BY <1>0, <2>1, <3>2
    <3>4. e = Len(q) \/ q[e + 1] = 1
      <4>1. CASE e # Len(p)
        <5>1. e + 1 \in 1 .. Len(p)
          BY <1>0, <3>2, <4>1
        <5> QED BY <2>1, <3>1, <4>1, <5>1
      <4>2. CASE e = Len(p)
        <5>1. ~(p # << >> /\ p[Len(p)] = 1)
          <6> SUFFICES ASSUME p # << >>, p[Len(p)] = 1 PROVE FALSE
            OBVIOUS
          <6>1. Len(p) # 0
            BY EmptySeq
          <6>2. e \in i + 1 .. e
            BY <1>0, <2>3, <3>2, <4>2, <6>1
          <6> QED BY <3>1, <4>2, <6>2
        <5> QED BY <2>1, <4>2, <5>1
      <4> QED BY <4>1, <4>2
    <3>5. SegmentEnd(q, i) = e
      <4>1. i \in 0 .. Len(q) /\ e \in i .. Len(q) /\ \A k \in i + 1 .. e : q[k] # 1
        BY <2>2, <3>1, <3>2, <3>3
      <4> QED BY <3>4, <4>1, SegmentEndUnique
    <3>6. /\ Segment(p, i) \in Seq(Nat) /\ Segment(q, i) \in Seq(Nat)
          /\ Len(Segment(p, i)) = e - i /\ Len(Segment(q, i)) = e - i
          /\ \A x \in i + 1 .. e : Segment(p, i)[x - i] = p[x]
          /\ \A x \in i + 1 .. e : Segment(q, i)[x - i] = q[x]
      BY <2>2, <3>5, SegmentFacts DEF e
    <3>7. ASSUME NEW y \in 1 .. e - i
          PROVE  Segment(p, i)[y] = Segment(q, i)[y]
      <4>1. y + i \in i + 1 .. e /\ (y + i) - i = y
        BY <3>2
      <4> QED BY <3>3, <3>6, <4>1
    <3> QED BY <3>6, <3>7, SeqEqual
  <2> QED BY <2>2, <2>3 DEF Covers
<1> QED BY <1>1, <1>2

-----------------------------------------------------------------------------
(* PrefixMap and the policies                                              *)

\* Of the prefixes of a path, the order of strings is the order of their lengths.
LEMMA PrefixOrder ==
  ASSUME NEW path \in Seq(Nat), NEW p \in Seq(Nat), NEW q \in Seq(Nat),
         IsPrefix(p, path), IsPrefix(q, path)
  PROVE  /\ StrLeq(q, p) <=> Len(q) <= Len(p)
         /\ Len(q) = Len(p) => q = p
<1>1. /\ Len(p) \in Nat /\ Len(q) \in Nat /\ Len(path) \in Nat
      /\ DOMAIN p = 1 .. Len(p) /\ DOMAIN q = 1 .. Len(q)
      /\ \A i \in 1 .. Len(p) : p[i] = path[i]
      /\ \A i \in 1 .. Len(q) : q[i] = path[i]
  BY PrefixFacts, LenProperties
<1>2. ASSUME Len(q) <= Len(p)
      PROVE  IsPrefix(q, p)
  <2>1. \A i \in 1 .. Len(q) : q[i] = p[i]
    BY <1>1, <1>2
  <2> QED BY <1>2, <2>1, PrefixFacts
<1>3. ASSUME Len(q) = Len(p)
      PROVE  q = p
  <2>1. \A i \in 1 .. Len(q) : q[i] = p[i]
    BY <1>1, <1>3
  <2> QED BY <1>3, <2>1, SeqEqual
<1>4. ASSUME StrLeq(q, p)
      PROVE  Len(q) <= Len(p)
  <2>1. IsPrefix(q, p)
    <3> SUFFICES ASSUME ~IsPrefix(q, p) PROVE FALSE
      OBVIOUS
    <3>1. PICK i \in DOMAIN q \cap DOMAIN p : q[i] < p[i]
      BY <1>4 DEF StrLeq
    <3>2. q[i] = p[i] /\ q[i] \in Nat
      BY <1>1, ElementOfSeq
    <3> QED BY <3>1, <3>2
  <2> QED BY <2>1, PrefixFacts
<1> QED BY <1>2, <1>3, <1>4 DEF StrLeq

\* longest_prefix finds the path that decides.
LEMMA LongestFacts ==
  ASSUME NEW map, DOMAIN map \subseteq Seq(Nat), NEW path \in Seq(Nat)
  PROVE  LET found == longest_prefix(map, path) IN
         /\ found = None => Deciding(DOMAIN map, path) = {}
         /\ found # None => Deciding(DOMAIN map, path) = {found} /\ found \in DOMAIN map
<1> DEFINE hits == {p \in DOMAIN map : StrLeq(p, path) /\ is_path_prefix(p, path)}
           found == CHOOSE p \in hits : \A q \in hits : StrLeq(q, p)
           T == {Len(path) - Len(p) : p \in hits}
<1>1. \A p \in hits : p \in Seq(Nat) /\ IsPrefix(p, path) /\ p \in DOMAIN map
  BY DEF is_path_prefix
<1>2. hits = {p \in DOMAIN map : Covers(p, path)}
  BY CoversFacts DEF is_path_prefix, StrLeq
<1>3. longest_prefix(map, path) = IF hits = {} THEN None ELSE found
  BY DEF longest_prefix
<1> HIDE DEF hits
<1>4. \A p, q \in hits : /\ StrLeq(q, p) <=> Len(q) <= Len(p)
                         /\ Len(q) = Len(p) => q = p
  BY <1>1, PrefixOrder
<1>5. \A p \in hits : Len(p) \in Nat /\ Len(p) <= Len(path)
  BY <1>1, PrefixFacts, LenProperties
<1>6. Len(path) \in Nat
  BY LenProperties
<1>7. Deciding(DOMAIN map, path) = {p \in hits : \A q \in hits : Len(q) <= Len(p)}
  BY <1>2 DEF Deciding
<1>8. CASE hits = {}
  BY <1>3, <1>7, <1>8
<1>9. CASE hits # {}
  <2>1. T \subseteq Nat
    BY <1>5, <1>6
  <2>2. T # {}
    BY <1>9
  <2>3. PICK d \in T : \A k \in T : d <= k
    <3> HIDE DEF T
    <3> QED BY <2>1, <2>2, LeastNat
  <2>4. PICK p \in hits : d = Len(path) - Len(p)
    BY <2>3
  <2>5. ASSUME NEW q \in hits
        PROVE  Len(q) <= Len(p)
    <3>1. Len(path) - Len(p) <= Len(path) - Len(q)
      BY <2>3, <2>4
    <3> QED BY <1>5, <1>6, <3>1
  <2>6. \A q \in hits : StrLeq(q, p)
    BY <1>4, <2>5
  <2>7. found \in hits /\ \A q \in hits : StrLeq(q, found)
    BY <2>6
  <2> HIDE DEF found
  <2>8. \A q \in hits : Len(q) <= Len(found)
    BY <1>4, <2>7
  <2>9. \A q \in hits : (\A r \in hits : Len(r) <= Len(q)) => q = found
    <3> SUFFICES ASSUME NEW q \in hits, \A r \in hits : Len(r) <= Len(q) PROVE q = found
      OBVIOUS
    <3>1. Len(q) <= Len(found) /\ Len(found) <= Len(q)
      BY <2>7, <2>8
    <3>2. Len(q) = Len(found)
      BY <1>5, <2>7, <3>1
    <3> QED BY <1>4, <2>7, <3>2
  <2>10. Deciding(DOMAIN map, path) = {found}
    BY <1>7, <2>7, <2>8, <2>9
  <2>11. found # None /\ found \in DOMAIN map
    BY <1>1, <2>7, AuthAssumption
  <2> QED BY <1>3, <1>9, <2>10, <2>11
<1> QED BY <1>8, <1>9

\* The decision of authorize.
LEMMA AuthorizeKeeps ==
  ASSUME AuthInv, authorize
  PROVE  AuthInv'
<1>1. /\ astep = "named" /\ acheck' = asecret /\ UNCHANGED <<auth, asecret, ausers, areq, aname>>
      /\ auth # None /\ areq \in ARequests
      /\ DOMAIN auth.users \subseteq Seq(Nat) /\ DOMAIN auth.headers \subseteq Seq(Nat)
  BY DEF authorize, AuthInv, PoliciesLoaded
<1>2. areq.path \in Seq(Nat)
  BY <1>1, AuthAssumption
<1> DEFINE u == longest_prefix(auth.users, areq.path)
           h == longest_prefix(auth.headers, areq.path)
           U == Deciding(DOMAIN auth.users, areq.path)
           H == Deciding(DOMAIN auth.headers, areq.path)
<1>3. (u = None => U = {}) /\ (u # None => U = {u})
  BY <1>1, <1>2, LongestFacts
<1>4. (h = None => H = {}) /\ (h # None => H = {h})
  BY <1>1, <1>2, LongestFacts
<1>5. user_is_allowed(aname, areq.path) <=> u = None \/ (aname # None /\ aname \in auth.users[u])
  BY DEF user_is_allowed
<1>6. secret_is_allowed(areq) <=>
        \/ h = None
        \/ auth.headers[h].methods # None /\ areq.method \notin auth.headers[h].methods
        \/ asecret # None /\ areq.header = asecret
  BY DEF secret_is_allowed
<1>7. \/ astep' = "admitted" /\ user_is_allowed(aname, areq.path) /\ secret_is_allowed(areq)
      \/ astep' = "forbidden" /\ ~(user_is_allowed(aname, areq.path) /\ secret_is_allowed(areq))
  BY DEF authorize
<1> HIDE DEF u, h, U, H
<1>8. ASSUME user_is_allowed(aname, areq.path)
      PROVE  \A p \in U : aname \in auth.users[p]
  BY <1>3, <1>5, <1>8
<1>9. ASSUME secret_is_allowed(areq)
      PROVE  \A p \in H : (auth.headers[p].methods # None => areq.method \in auth.headers[p].methods)
                            => asecret # None /\ areq.header = asecret
  BY <1>4, <1>6, <1>9
<1>10. ASSUME ~(user_is_allowed(aname, areq.path) /\ secret_is_allowed(areq))
       PROVE  U \cup H # {}
  BY <1>3, <1>4, <1>5, <1>6, <1>10
<1>11. AdmittedByLongestPath'
  BY <1>1, <1>7, <1>8, <1>9, <1>10 DEF AdmittedByLongestPath, U, H
<1>12. PoliciesLoaded'
  BY <1>1, <1>7 DEF PoliciesLoaded
<1> QED BY <1>11, <1>12 DEF AuthInv

\* Policies are loaded: the paths are those of the file.
LEMMA ApplyPoliciesKeeps ==
  ASSUME AuthInv, NEW config \in AConfigs, apply_policies(config)
  PROVE  AuthInv'
<1>1. /\ auth = None /\ auth' = from_yaml(config) /\ auth' # None
      /\ UNCHANGED <<areq, astep, aname, acheck>>
  BY DEF apply_policies
<1>2. astep = "idle"
  BY <1>1 DEF AuthInv, PoliciesLoaded
<1>3. \A i \in DOMAIN config : config[i].path \in Seq(Nat)
  BY AuthAssumption
<1>4. PathsOf(config, HasUsers) \subseteq Seq(Nat) /\ PathsOf(config, HasHeader) \subseteq Seq(Nat)
  BY <1>3 DEF PathsOf
<1>5. /\ DOMAIN auth'.users = PathsOf(config, HasUsers)
      /\ DOMAIN auth'.headers = PathsOf(config, HasHeader)
  BY <1>1 DEF from_yaml
<1>6. PoliciesLoaded'
  BY <1>1, <1>2, <1>4, <1>5 DEF PoliciesLoaded
<1>7. AdmittedByLongestPath'
  BY <1>1, <1>2 DEF AdmittedByLongestPath
<1> QED BY <1>6, <1>7 DEF AuthInv

\* A request arrives.
LEMMA AuthenticateKeeps ==
  ASSUME AuthInv, NEW req \in ARequests, authenticate(req)
  PROVE  AuthInv'
<1>1. /\ auth # None /\ areq' = req /\ UNCHANGED <<auth, asecret, ausers, aname, acheck>>
      /\ \/ astep' = "forbidden" /\ req.token = "bad"
         \/ astep' = "authenticated"
  BY DEF authenticate
<1>2. PoliciesLoaded'
  BY <1>1 DEF AuthInv, PoliciesLoaded
<1>3. AdmittedByLongestPath'
  BY <1>1 DEF AdmittedByLongestPath
<1> QED BY <1>2, <1>3 DEF AuthInv

\* The policies in use are those of a file, and the decision about the request at
\* hand was the one that the longest path makes.
THEOREM AuthInvariance == ASpec => []AuthInv
<1>1. AInit => AuthInv
  BY DEF AInit, AuthInv, PoliciesLoaded, AdmittedByLongestPath
<1>2. ASSUME AuthInv, [ANext]_aVars
      PROVE  AuthInv'
  <2>1. ASSUME NEW config \in AConfigs, apply_policies(config) PROVE AuthInv'
    BY <1>2, <2>1, ApplyPoliciesKeeps
  <2>2. ASSUME NEW req \in ARequests, authenticate(req) PROVE AuthInv'
    BY <1>2, <2>2, AuthenticateKeeps
  <2>3. CASE get_username_from_id
    BY <1>2, <2>3 DEF get_username_from_id, AuthInv, PoliciesLoaded, AdmittedByLongestPath
  <2>4. CASE authorize
    BY <1>2, <2>4, AuthorizeKeeps
  <2>5. CASE a_answer
    BY <1>2, <2>5 DEF a_answer, AuthInv, PoliciesLoaded, AdmittedByLongestPath
  <2>6. CASE a_change
    <3>1. UNCHANGED <<auth, areq, astep, aname, acheck>>
      BY <2>6 DEF a_change
    <3> QED BY <1>2, <3>1 DEF AuthInv, PoliciesLoaded, AdmittedByLongestPath
  <2>7. CASE a_stop
    BY <1>2, <2>7 DEF a_stop, AuthInv, PoliciesLoaded, AdmittedByLongestPath
  <2>8. CASE UNCHANGED aVars
    BY <1>2, <2>8 DEF aVars, AuthInv, PoliciesLoaded, AdmittedByLongestPath
  <2> QED BY <1>2, <2>1, <2>2, <2>3, <2>4, <2>5, <2>6, <2>7, <2>8 DEF ANext
<1> QED BY <1>1, <1>2, PTL DEF ASpec

\* prefix_map.rs 20-47, policies.rs 43-46, 73-76: for any policy file and any path,
\* the search in the ordered map finds the longest path that contains the request's,
\* segment by segment, and who is admitted has the user and the header it demands.
THEOREM LongestPathDecides == ASpec => []AdmittedByLongestPath
<1>1. AuthInv => AdmittedByLongestPath
  BY DEF AuthInv
<1> QED BY <1>1, AuthInvariance, PTL

-----------------------------------------------------------------------------
(* PATCH                                                                   *)

\* A request of another client that writes one row.
LEMMA WriteKeeps ==
  ASSUME PatchInv, NEW i, NEW row, Write(i, row), request # Missing,
         patching' = patching \/ patching' = << >>
  PROVE  PatchInv'
<1>1. /\ rows' = [rows EXCEPT ![i] = row] /\ raced' = raced \cup {i}
      /\ UNCHANGED request /\ DOMAIN rows = CIds
  BY DEF Write, PatchInv
<1>2. DOMAIN rows' = CIds /\ \A k \in CIds : k # i => rows'[k] = rows[k]
  BY <1>1
<1>3. CASE patching' = << >>
  BY <1>2, <1>3 DEF PatchInv
<1>4. CASE patching' = patching
  <2> DEFINE p == Head(patching)
  <2>1. ASSUME patching # << >>
        PROVE  /\ p.id \in CIds
               /\ p.id \notin raced' => rows'[p.id] # Missing /\ p.row = MergeInto(rows'[p.id], p.body)
    <3>1. /\ p.id \in CIds
          /\ p.id \notin raced => rows[p.id] # Missing /\ p.row = MergeInto(rows[p.id], p.body)
      BY <2>1 DEF PatchInv
    <3>2. p.id \notin raced' => p.id \notin raced /\ p.id # i
      BY <1>1
    <3>3. p.id # i => rows'[p.id] = rows[p.id]
      BY <1>2, <3>1
    <3> HIDE DEF p
    <3> QED BY <3>1, <3>2, <3>3
  <2> QED BY <1>1, <1>2, <1>4, <2>1 DEF PatchInv
<1> QED BY <1>3, <1>4

\* The row that a PATCH is about to save is the stored one with its payload, unless
\* somebody wrote the row since it was read.
THEOREM PatchInvariance == CSpec => []PatchInv
<1>1. CInit => PatchInv
  BY DEF CInit, PatchInv
<1>2. ASSUME PatchInv, [CNext]_cVars
      PROVE  PatchInv'
  <2>1. ASSUME NEW t \in CRows, c_setup(t) PROVE PatchInv'
    BY <1>2, <2>1, CrudAssumption DEF c_setup, PatchInv
  <2>2. ASSUME NEW q \in CRequests, get_first(q) PROVE PatchInv'
    BY <1>2, <2>2 DEF get_first, PatchInv
  <2>3. CASE getAll
    <3>1. request # Missing /\ request' # Missing /\ UNCHANGED <<rows, patching, raced>>
      BY <2>3 DEF getAll
    <3> QED BY <1>2, <3>1 DEF PatchInv
  <2>4. CASE getAll_err
    BY <1>2, <2>4 DEF getAll_err, PatchInv
  <2>5. CASE patch_save
    <3> DEFINE p == Head(patching)
               entity == [f \in {f \in DOMAIN p.row : p.row[f] # Missing \/ f \in DOMAIN p.body} |-> p.row[f]]
    <3>1. patching # << >> /\ Write(p.row.id, Saved(p.row.id, entity)) /\ patching' = << >>
      BY <2>5 DEF patch_save
    <3>2. request # Missing
      BY <1>2, <3>1 DEF PatchInv
    <3> HIDE DEF p, entity
    <3> QED BY <1>2, <3>1, <3>2, WriteKeeps
  <2>6. CASE c_done
    BY <2>6 DEF c_done, PatchInv
  <2>7. ASSUME request # Missing, NEW i \in CIds, deleteOne(i) PROVE PatchInv'
    BY <1>2, <2>7, WriteKeeps DEF deleteOne
  <2>8. ASSUME request # Missing, NEW i \in CIds, NEW body \in CPayloads, post(i, body) \/ put(i, body)
        PROVE  PatchInv'
    BY <1>2, <2>8, WriteKeeps DEF post, put
  <2>9. ASSUME NEW i \in CIds, NEW body \in CPayloads, patch_read(i, body), request # Missing
        PROVE  PatchInv'
    <3>1. /\ rows[i] # Missing /\ UNCHANGED <<rows, request>> /\ raced' = raced \ {i}
          /\ patching' = <<[id |-> i, body |-> body, row |-> MergeInto(rows[i], body)]>>
      BY <2>9 DEF patch_read
    <3>2. Head(patching') = [id |-> i, body |-> body, row |-> MergeInto(rows[i], body)]
      BY <3>1
    <3> QED BY <1>2, <2>9, <3>1, <3>2 DEF PatchInv
  <2>10. ASSUME request # Missing, NEW f, deleteAll(f)
         PROVE  PatchInv'
    <3>1. PICK gone \in SUBSET CIds : /\ rows' = [i \in CIds |-> IF i \in gone THEN Missing ELSE rows[i]]
                                      /\ raced' = raced \cup gone
      BY <2>10 DEF deleteAll
    <3>2. UNCHANGED <<request, patching>>
      BY <2>10 DEF deleteAll
    <3>3. DOMAIN rows' = CIds /\ \A i \in CIds \ gone : rows'[i] = rows[i]
      BY <3>1
    <3> DEFINE p == Head(patching)
    <3>4. ASSUME patching # << >>
          PROVE  /\ p.id \in CIds
                 /\ p.id \notin raced' => rows'[p.id] # Missing /\ p.row = MergeInto(rows'[p.id], p.body)
      <4>1. /\ p.id \in CIds
            /\ p.id \notin raced => rows[p.id] # Missing /\ p.row = MergeInto(rows[p.id], p.body)
        BY <1>2, <3>4 DEF PatchInv
      <4>2. p.id \notin raced' => p.id \notin raced /\ p.id \notin gone
        BY <3>1
      <4>3. p.id \notin gone => rows'[p.id] = rows[p.id]
        BY <3>3, <4>1
      <4> HIDE DEF p
      <4> QED BY <4>1, <4>2, <4>3
    <3> QED BY <2>10, <3>2, <3>3, <3>4 DEF PatchInv
  <2>11. CASE UNCHANGED cVars
    BY <1>2, <2>11 DEF cVars, PatchInv
  <2>12. CASE patch_err
    BY <1>2, <2>12 DEF patch_err, PatchInv
  <2> QED BY <1>2, <2>1, <2>2, <2>3, <2>4, <2>5, <2>6, <2>7, <2>8, <2>9, <2>10, <2>11, <2>12 DEF CNext
<1> QED BY <1>1, <1>2, PTL DEF CSpec

-----------------------------------------------------------------------------
(* The order of rows                                                       *)

\* Sort keys that tell rows with different ids apart.
IsKeys(keys) == keys \in Seq(SortKey) /\ \E k \in DOMAIN keys : keys[k].field = "id"

\* The fields of a row.
LEMMA FieldFacts ==
  ASSUME NEW r \in CRow, NEW f \in SortField
  PROVE  r[f] \in Num
BY CrudAssumption DEF CRow, SortField, Num

\* The order of values is strict and total.
LEMMA LessFacts ==
  /\ \A l \in Num : ~Less(l, l)
  /\ \A l, m, g \in Num : Less(l, m) /\ Less(m, g) => Less(l, g)
  /\ \A l, g \in Num : l # g => Less(l, g) \/ Less(g, l)
BY CrudAssumption DEF Num, Less

\* So is the order by a key.
LEMMA KeyLessFacts ==
  ASSUME NEW key \in SortKey, NEW r \in CRow, NEW s \in CRow, NEW t \in CRow
  PROVE  /\ KeyLess(key, r, s) => r[key.field] # s[key.field]
         /\ KeyLess(key, r, s) /\ KeyLess(key, s, t) => KeyLess(key, r, t)
         /\ r[key.field] # s[key.field] => KeyLess(key, r, s) \/ KeyLess(key, s, r)
<1>1. key.field \in SortField /\ key.asc \in BOOLEAN
  BY DEF SortKey
<1>2. r[key.field] \in Num /\ s[key.field] \in Num /\ t[key.field] \in Num
  BY <1>1, FieldFacts
<1> QED BY <1>2, LessFacts DEF KeyLess

\* Only the fields of the keys matter.
LEMMA KeyLessSame ==
  ASSUME NEW key, NEW r, NEW s, NEW t
  PROVE  /\ r[key.field] = s[key.field] => (KeyLess(key, s, t) <=> KeyLess(key, r, t))
         /\ s[key.field] = t[key.field] => (KeyLess(key, r, s) <=> KeyLess(key, r, t))
BY DEF KeyLess

\* ORDER BY is strict.
LEMMA BeforeIrreflexive ==
  ASSUME NEW keys \in Seq(SortKey), NEW r \in CRow
  PROVE  ~Before(keys, r, r)
<1>1. \A i \in DOMAIN keys : keys[i] \in SortKey
  OBVIOUS
<1> QED BY <1>1, KeyLessFacts DEF Before

\* ORDER BY is transitive.
LEMMA BeforeTransitive ==
  ASSUME NEW keys \in Seq(SortKey), NEW r \in CRow, NEW s \in CRow, NEW t \in CRow,
         Before(keys, r, s), Before(keys, s, t)
  PROVE  Before(keys, r, t)
<1>1. PICK i \in DOMAIN keys : /\ \A k \in 1 .. i - 1 : r[keys[k].field] = s[keys[k].field]
                               /\ KeyLess(keys[i], r, s)
  BY DEF Before
<1>2. PICK j \in DOMAIN keys : /\ \A k \in 1 .. j - 1 : s[keys[k].field] = t[keys[k].field]
                               /\ KeyLess(keys[j], s, t)
  BY DEF Before
<1>3. i \in 1 .. Len(keys) /\ j \in 1 .. Len(keys) /\ Len(keys) \in Nat
  OBVIOUS
<1>4. keys[i] \in SortKey /\ keys[j] \in SortKey
  OBVIOUS
<1>5. CASE i = j
  <2>1. KeyLess(keys[i], r, t)
    BY <1>1, <1>2, <1>4, <1>5, KeyLessFacts
  <2> QED BY <1>1, <1>2, <1>5, <2>1 DEF Before
<1>6. CASE i < j
  <2>1. s[keys[i].field] = t[keys[i].field]
    BY <1>2, <1>3, <1>6
  <2>2. KeyLess(keys[i], r, t)
    BY <1>1, <2>1, KeyLessSame
  <2>3. \A k \in 1 .. i - 1 : k \in 1 .. j - 1
    BY <1>3, <1>6
  <2>4. \A k \in 1 .. i - 1 : r[keys[k].field] = t[keys[k].field]
    BY <1>1, <1>2, <2>3
  <2> QED BY <2>2, <2>4 DEF Before
<1>7. CASE j < i
  <2>1. r[keys[j].field] = s[keys[j].field]
    BY <1>1, <1>3, <1>7
  <2>2. KeyLess(keys[j], r, t)
    BY <1>2, <2>1, KeyLessSame
  <2>3. \A k \in 1 .. j - 1 : k \in 1 .. i - 1
    BY <1>3, <1>7
  <2>4. \A k \in 1 .. j - 1 : r[keys[k].field] = t[keys[k].field]
    BY <1>1, <1>2, <2>3
  <2> QED BY <2>2, <2>4 DEF Before
<1> QED BY <1>3, <1>5, <1>6, <1>7

\* ORDER BY is total on rows with different ids: the first key in which they differ
\* decides.
LEMMA BeforeTotal ==
  ASSUME NEW keys, IsKeys(keys), NEW r \in CRow, NEW s \in CRow, r.id # s.id
  PROVE  Before(keys, r, s) \/ Before(keys, s, r)
<1> DEFINE D == {k \in DOMAIN keys : r[keys[k].field] # s[keys[k].field]}
<1>1. keys \in Seq(SortKey) /\ DOMAIN keys = 1 .. Len(keys) /\ Len(keys) \in Nat
  BY DEF IsKeys
<1>2. D \subseteq Nat
  BY <1>1
<1>3. D # {}
  <2>1. PICK k \in DOMAIN keys : keys[k].field = "id"
    BY DEF IsKeys
  <2>2. k \in D
    BY <2>1
  <2> QED BY <2>2
<1>4. \A k \in DOMAIN keys : k \notin D => r[keys[k].field] = s[keys[k].field]
  OBVIOUS
<1>5. \A k \in D : k \in DOMAIN keys /\ r[keys[k].field] # s[keys[k].field]
  OBVIOUS
<1> HIDE DEF D
<1>6. PICK i \in D : \A m \in D : i <= m
  BY <1>2, <1>3, LeastNat
<1>7. \A k \in 1 .. i - 1 : r[keys[k].field] = s[keys[k].field]
  <2> SUFFICES ASSUME NEW k \in 1 .. i - 1 PROVE r[keys[k].field] = s[keys[k].field]
    OBVIOUS
  <2>1. k \in DOMAIN keys /\ ~(i <= k)
    BY <1>1, <1>2, <1>5, <1>6
  <2> QED BY <1>4, <1>6, <2>1
<1>8. keys[i] \in SortKey /\ i \in DOMAIN keys
  BY <1>1, <1>5, <1>6
<1>9. KeyLess(keys[i], r, s) \/ KeyLess(keys[i], s, r)
  BY <1>5, <1>6, <1>8, KeyLessFacts
<1> QED BY <1>7, <1>8, <1>9 DEF Before

-----------------------------------------------------------------------------
(* Sorting                                                                 *)

\* A set of rows with ids of their own.
IsTable(R) == IsFiniteSet(R) /\ R \subseteq CRow /\ \A r, s \in R : r.id = s.id => r = s

\* What is before a row has a lower rank.
LEMMA RankFacts ==
  ASSUME NEW keys, IsKeys(keys), NEW R, IsTable(R)
  PROVE  /\ \A r \in R : Rank(keys, R, r) \in 0 .. Cardinality(R) - 1
         /\ \A r, s \in R : Before(keys, r, s) => Rank(keys, R, r) < Rank(keys, R, s)
         /\ \A r, s \in R : Rank(keys, R, r) = Rank(keys, R, s) => r = s
<1> DEFINE B(r) == {s \in R : Before(keys, s, r)}
<1>1. IsFiniteSet(R) /\ Cardinality(R) \in Nat
  BY FS_CardinalityType DEF IsTable
<1>2. keys \in Seq(SortKey)
  BY DEF IsKeys
<1>3. \A r \in R : r \in CRow
  BY DEF IsTable
<1>4. \A r \in R : B(r) \subseteq R /\ r \notin B(r)
  BY <1>2, <1>3, BeforeIrreflexive
<1>5. \A r \in R : IsFiniteSet(B(r)) /\ Cardinality(B(r)) \in Nat
  BY <1>1, <1>4, FS_Subset, FS_CardinalityType
<1>6. \A r, s \in R : s \in B(r) <=> Before(keys, s, r)
  OBVIOUS
<1>7. \A r : Rank(keys, R, r) = Cardinality(B(r))
  BY DEF Rank
<1> HIDE DEF B
<1>8. \A r \in R : Rank(keys, R, r) \in 0 .. Cardinality(R) - 1
  <2> SUFFICES ASSUME NEW r \in R PROVE Rank(keys, R, r) \in 0 .. Cardinality(R) - 1
    OBVIOUS
  <2>1. Cardinality(B(r)) <= Cardinality(R) /\ (Cardinality(R) = Cardinality(B(r)) => R = B(r))
    BY <1>1, <1>4, FS_Subset
  <2> QED BY <1>1, <1>4, <1>5, <1>7, <2>1
<1>9. ASSUME NEW r \in R, NEW s \in R, Before(keys, r, s)
      PROVE  Rank(keys, R, r) < Rank(keys, R, s)
  <2>1. B(r) \subseteq B(s)
    BY <1>2, <1>3, <1>4, <1>6, <1>9, BeforeTransitive
  <2>2. r \in B(s) /\ r \notin B(r)
    BY <1>4, <1>6, <1>9
  <2>3. Cardinality(B(r)) <= Cardinality(B(s)) /\ (Cardinality(B(s)) = Cardinality(B(r)) => B(s) = B(r))
    BY <1>5, <2>1, FS_Subset
  <2> QED BY <1>5, <1>7, <2>2, <2>3
<1>10. ASSUME NEW r \in R, NEW s \in R, Rank(keys, R, r) = Rank(keys, R, s), r # s
       PROVE  FALSE
  <2>1. r.id # s.id
    BY <1>10 DEF IsTable
  <2>2. Before(keys, r, s) \/ Before(keys, s, r)
    BY <1>3, <2>1, BeforeTotal
  <2> QED BY <1>5, <1>7, <1>9, <1>10, <2>2
<1> QED BY <1>8, <1>9, <1>10

\* The rows in their order: each of them, and those before it in front of it.
LEMMA SortedFacts ==
  ASSUME NEW keys, IsKeys(keys), NEW R, IsTable(R)
  PROVE  /\ Cardinality(R) \in Nat
         /\ \A k \in 1 .. Cardinality(R) : Sorted(keys, R)[k] \in R
         /\ \A r \in R : \E k \in 1 .. Cardinality(R) : Sorted(keys, R)[k] = r
         /\ \A k, l \in 1 .. Cardinality(R) : k < l => Before(keys, Sorted(keys, R)[k], Sorted(keys, R)[l])
         /\ \A k, l \in 1 .. Cardinality(R) : Sorted(keys, R)[k] = Sorted(keys, R)[l] => k = l
<1> DEFINE n == Cardinality(R)
           T == 0 .. n - 1
           f == [r \in R |-> Rank(keys, R, r)]
<1>1. IsFiniteSet(R) /\ n \in Nat
  BY FS_CardinalityType DEF IsTable
<1>2. IsFiniteSet(T) /\ Cardinality(T) = n
  <2>1. 0 \in Int /\ n - 1 \in Int
    BY <1>1
  <2>2. IsFiniteSet(0 .. n - 1) /\ Cardinality(0 .. n - 1) = IF 0 > n - 1 THEN 0 ELSE (n - 1) - 0 + 1
    BY <2>1, FS_Interval
  <2> QED BY <1>1, <2>2
<1>3. f \in Injection(R, T)
  BY RankFacts DEF Injection, IsInjective
<1>4. f \in Surjection(R, T)
  BY <1>1, <1>2, <1>3, FS_Injection
<1>5. \A t \in T : \E r \in R : f[r] = t
  BY <1>4 DEF Surjection
<1>6. ASSUME NEW k \in 1 .. n
      PROVE  Sorted(keys, R)[k] \in R /\ Rank(keys, R, Sorted(keys, R)[k]) = k - 1
  <2>1. k - 1 \in T
    BY <1>1
  <2>2. \E r \in R : Rank(keys, R, r) = k - 1
    BY <1>5, <2>1
  <2> QED BY <2>2 DEF Sorted
<1>7. ASSUME NEW r \in R
      PROVE  \E k \in 1 .. n : Sorted(keys, R)[k] = r
  <2>1. Rank(keys, R, r) \in 0 .. n - 1
    BY RankFacts
  <2>2. Rank(keys, R, r) + 1 \in 1 .. n /\ (Rank(keys, R, r) + 1) - 1 = Rank(keys, R, r)
    BY <1>1, <2>1
  <2>3. Sorted(keys, R)[Rank(keys, R, r) + 1] = r
    BY <1>6, <2>2, RankFacts
  <2> QED BY <2>2, <2>3
<1> HIDE DEF n, T, f
<1>8. ASSUME NEW k \in 1 .. n, NEW l \in 1 .. n, k < l
      PROVE  Before(keys, Sorted(keys, R)[k], Sorted(keys, R)[l])
  <2> DEFINE r == Sorted(keys, R)[k]
             s == Sorted(keys, R)[l]
  <2>1. r \in R /\ s \in R /\ Rank(keys, R, r) = k - 1 /\ Rank(keys, R, s) = l - 1
    BY <1>6
  <2> HIDE DEF r, s
  <2>2. r # s /\ ~(Rank(keys, R, s) < Rank(keys, R, r))
    BY <1>8, <2>1, <1>1
  <2>3. r.id # s.id /\ r \in CRow /\ s \in CRow
    BY <2>1, <2>2 DEF IsTable
  <2>4. Before(keys, r, s) \/ Before(keys, s, r)
    BY <2>3, BeforeTotal
  <2>5. Before(keys, r, s)
    BY <2>1, <2>2, <2>4, RankFacts
  <2> QED BY <2>5 DEF r, s
<1>9. ASSUME NEW k \in 1 .. n, NEW l \in 1 .. n, Sorted(keys, R)[k] = Sorted(keys, R)[l]
      PROVE  k = l
  BY <1>1, <1>6, <1>9
<1> QED BY <1>1, <1>6, <1>7, <1>8, <1>9 DEF n

-----------------------------------------------------------------------------
(* Links                                                                   *)

\* A cursor that leads forward from the pivot.
IsLink(c) ==
  /\ c \in Cursor /\ c.forward /\ ~c.inclusive
  /\ \E k \in DOMAIN c.axes : c.axes[k].field = "id"

\* The sort keys of a cursor.
KeysOf(c) == [i \in DOMAIN c.axes |-> Key(c.axes[i].field, c.axes[i].asc)]

\* The cursor that leads forward from p.
Link(keys, p) ==
  [axes |-> [i \in DOMAIN keys |-> [field |-> keys[i].field, asc |-> keys[i].asc, value |-> p[keys[i].field]]],
   forward |-> TRUE, inclusive |-> FALSE]

\* The comparison with the value of an axis.
Behind(axis, row) == IF axis.asc THEN Holds("Gt", row[axis.field], axis.value)
                                 ELSE Holds("Lt", row[axis.field], axis.value)
Equals(axis, row) == Holds("Eq", row[axis.field], axis.value)

\* SQL's comparisons.
LEMMA HoldsFacts ==
  ASSUME NEW l, NEW r
  PROVE  /\ Holds("Gt", l, r) <=> l # Missing /\ r # Missing /\ l > r
         /\ Holds("Lt", l, r) <=> l # Missing /\ r # Missing /\ l < r
         /\ Holds("Eq", l, r) <=> l # Missing /\ r # Missing /\ l = r
BY DEF Holds

\* The axes of a link.
LEMMA AxisFacts ==
  ASSUME NEW c, IsLink(c)
  PROVE  /\ c.axes \in Seq(Axis) /\ DOMAIN c.axes = 1 .. Len(c.axes) /\ Len(c.axes) \in Nat
         /\ \A i \in DOMAIN c.axes :
              c.axes[i].field \in SortField /\ c.axes[i].asc \in BOOLEAN /\ c.axes[i].value \in Num
<1>1. c.axes \in Seq(Axis)
  BY DEF IsLink, Cursor
<1>2. DOMAIN c.axes = 1 .. Len(c.axes) /\ Len(c.axes) \in Nat
  BY <1>1
<1>3. \A a \in Axis : a.field \in SortField /\ a.asc \in BOOLEAN /\ a.value \in Num
  BY DEF Axis
<1>4. \A i \in DOMAIN c.axes : c.axes[i] \in Axis
  BY <1>1
<1> QED BY <1>1, <1>2, <1>3, <1>4

\* A link lets the rows through that are behind its pivot.
LEMMA FilterFacts ==
  ASSUME NEW c, IsLink(c), NEW row
  PROVE  get_filter(c, row) <=>
           \E i \in DOMAIN c.axes :
             Behind(c.axes[i], row) /\ \A k \in 1 .. i - 1 : Equals(c.axes[k], row)
<1>1. c.forward = TRUE /\ c.inclusive = FALSE
  BY DEF IsLink, Cursor
<1>2. \A i \in DOMAIN c.axes : c.axes[i].asc \in BOOLEAN
  BY AxisFacts
<1>3. \A i \in DOMAIN c.axes : AxisOp(c.axes[i], c) = IF c.axes[i].asc THEN "Gt" ELSE "Lt"
  BY <1>1, <1>2 DEF AxisOp
<1>4. \A i \in DOMAIN c.axes :
        Holds(AxisOp(c.axes[i], c), row[c.axes[i].field], c.axes[i].value) <=> Behind(c.axes[i], row)
  BY <1>2, <1>3 DEF Behind
<1> QED BY <1>4 DEF get_filter, Equals

\* The keys of a link.
LEMMA KeysOfFacts ==
  ASSUME NEW c, IsLink(c)
  PROVE  IsKeys(KeysOf(c)) /\ DOMAIN KeysOf(c) = DOMAIN c.axes /\ get_sort(c) = KeysOf(c)
<1>1. c.axes \in Seq(Axis) /\ c.forward = TRUE
  BY DEF IsLink, Cursor
<1>2. DOMAIN c.axes = 1 .. Len(c.axes) /\ Len(c.axes) \in Nat
  BY <1>1
<1>3. \A i \in DOMAIN c.axes : c.axes[i].field \in SortField /\ c.axes[i].asc \in BOOLEAN
  BY AxisFacts
<1>4. \A i \in DOMAIN c.axes : Key(c.axes[i].field, c.axes[i].asc) \in SortKey
  BY <1>3 DEF Key, SortKey
<1>5. KeysOf(c) \in Seq(SortKey)
  BY <1>2, <1>4, IsASeq DEF KeysOf
<1>6. \E k \in DOMAIN KeysOf(c) : KeysOf(c)[k].field = "id"
  BY DEF IsLink, KeysOf, Key
<1>7. \A i \in DOMAIN c.axes : (c.axes[i].asc = c.forward) = c.axes[i].asc
  BY <1>1, <1>3
<1>8. get_sort(c) = KeysOf(c)
  BY <1>7 DEF get_sort, KeysOf
<1> QED BY <1>5, <1>6, <1>8 DEF IsKeys, KeysOf

\* A link from a pivot.
LEMMA LinkFacts ==
  ASSUME NEW keys, IsKeys(keys), NEW p \in CRow
  PROVE  /\ IsLink(Link(keys, p)) /\ KeysOf(Link(keys, p)) = keys
         /\ DOMAIN Link(keys, p).axes = DOMAIN keys
         /\ \A i \in DOMAIN keys : /\ Link(keys, p).axes[i].field = keys[i].field
                                   /\ Link(keys, p).axes[i].asc = keys[i].asc
                                   /\ Link(keys, p).axes[i].value = p[keys[i].field]
<1> DEFINE c == Link(keys, p)
<1>1. keys \in Seq(SortKey) /\ DOMAIN keys = 1 .. Len(keys) /\ Len(keys) \in Nat
  BY DEF IsKeys
<1>2. /\ c.forward = TRUE /\ c.inclusive = FALSE
      /\ c.axes = [i \in DOMAIN keys |-> [field |-> keys[i].field, asc |-> keys[i].asc, value |-> p[keys[i].field]]]
      /\ c = [axes |-> c.axes, forward |-> TRUE, inclusive |-> FALSE]
  BY DEF Link
<1> HIDE DEF c
<1>3. \A i \in DOMAIN keys : keys[i] \in SortKey
  BY <1>1
<1>4. \A i \in DOMAIN keys : keys[i].field \in SortField /\ keys[i].asc \in BOOLEAN
  BY <1>3 DEF SortKey
<1>5. \A i \in DOMAIN keys : p[keys[i].field] \in Num
  BY <1>4, FieldFacts
<1>6. \A i \in DOMAIN keys :
        [field |-> keys[i].field, asc |-> keys[i].asc, value |-> p[keys[i].field]] \in Axis
  BY <1>4, <1>5 DEF Axis
<1>7. c.axes \in Seq(Axis)
  BY <1>1, <1>2, <1>6, IsASeq
<1>8. c \in Cursor
  BY <1>2, <1>7 DEF Cursor
<1>9. \E k \in DOMAIN c.axes : c.axes[k].field = "id"
  BY <1>2 DEF IsKeys
<1>10. IsLink(c)
  BY <1>2, <1>8, <1>9 DEF IsLink
<1>11. \A i \in DOMAIN keys : keys[i] = [field |-> keys[i].field, asc |-> keys[i].asc]
  BY <1>3 DEF SortKey
<1>12. \A i \in DOMAIN keys : Key(c.axes[i].field, c.axes[i].asc) = keys[i]
  BY <1>2, <1>11 DEF Key
<1>13. KeysOf(c) = keys
  BY <1>1, <1>2, <1>12 DEF KeysOf
<1> QED BY <1>2, <1>10, <1>13 DEF c

\* The rows that a link lets through are after its pivot.
LEMMA FilterBefore ==
  ASSUME NEW keys, IsKeys(keys), NEW p \in CRow, NEW r \in CRow, get_filter(Link(keys, p), r)
  PROVE  Before(keys, p, r)
<1> DEFINE c == Link(keys, p)
<1>1. /\ IsLink(c) /\ DOMAIN c.axes = DOMAIN keys
      /\ \A i \in DOMAIN keys : /\ c.axes[i].field = keys[i].field
                                /\ c.axes[i].asc = keys[i].asc
                                /\ c.axes[i].value = p[keys[i].field]
  BY LinkFacts
<1> HIDE DEF c
<1>2. PICK i \in DOMAIN keys : Behind(c.axes[i], r) /\ \A k \in 1 .. i - 1 : Equals(c.axes[k], r)
  BY <1>1, FilterFacts DEF c
<1>3. /\ keys \in Seq(SortKey) /\ i \in 1 .. Len(keys) /\ Len(keys) \in Nat /\ keys[i] \in SortKey
      /\ DOMAIN keys = 1 .. Len(keys)
  BY DEF IsKeys
<1>4. keys[i].field \in SortField /\ keys[i].asc \in BOOLEAN
  BY <1>3 DEF SortKey
<1>5. p[keys[i].field] \in Num /\ r[keys[i].field] \in Num
  BY <1>4, FieldFacts
<1>6. KeyLess(keys[i], p, r)
  <2>1. IF keys[i].asc THEN Holds("Gt", r[keys[i].field], p[keys[i].field])
                       ELSE Holds("Lt", r[keys[i].field], p[keys[i].field])
    BY <1>1, <1>2 DEF Behind
  <2> QED BY <1>5, <2>1, HoldsFacts, CrudAssumption DEF KeyLess, Less, Num
<1>7. \A k \in 1 .. i - 1 : k \in DOMAIN keys
  BY <1>3
<1>8. \A k \in 1 .. i - 1 : p[keys[k].field] = r[keys[k].field]
  BY <1>1, <1>2, <1>7, HoldsFacts DEF Equals
<1> QED BY <1>6, <1>8 DEF Before

\* Those after it that have all keys are let through.
LEMMA BeforeFilter ==
  ASSUME NEW keys, IsKeys(keys), NEW p \in CRow, NEW r \in CRow, Before(keys, p, r),
         \A k \in DOMAIN keys : p[keys[k].field] # Missing /\ r[keys[k].field] # Missing
  PROVE  get_filter(Link(keys, p), r)
<1> DEFINE c == Link(keys, p)
<1>1. /\ IsLink(c) /\ DOMAIN c.axes = DOMAIN keys
      /\ \A i \in DOMAIN keys : /\ c.axes[i].field = keys[i].field
                                /\ c.axes[i].asc = keys[i].asc
                                /\ c.axes[i].value = p[keys[i].field]
  BY LinkFacts
<1> HIDE DEF c
<1>2. PICK i \in DOMAIN keys : /\ \A k \in 1 .. i - 1 : p[keys[k].field] = r[keys[k].field]
                               /\ KeyLess(keys[i], p, r)
  BY DEF Before
<1>3. /\ keys \in Seq(SortKey) /\ i \in 1 .. Len(keys) /\ Len(keys) \in Nat /\ keys[i] \in SortKey
      /\ DOMAIN keys = 1 .. Len(keys)
  BY DEF IsKeys
<1>4. keys[i].field \in SortField /\ keys[i].asc \in BOOLEAN
  BY <1>3 DEF SortKey
<1>5. p[keys[i].field] \in Num /\ r[keys[i].field] \in Num
  BY <1>4, FieldFacts
<1>6. Behind(c.axes[i], r)
  <2>1. IF keys[i].asc THEN Holds("Gt", r[keys[i].field], p[keys[i].field])
                       ELSE Holds("Lt", r[keys[i].field], p[keys[i].field])
    BY <1>2, <1>5, HoldsFacts, CrudAssumption DEF KeyLess, Less, Num
  <2> QED BY <1>1, <2>1 DEF Behind
<1>7. \A k \in 1 .. i - 1 : k \in DOMAIN keys
  BY <1>3
<1>8. \A k \in 1 .. i - 1 : Equals(c.axes[k], r)
  BY <1>1, <1>2, <1>7, HoldsFacts DEF Equals
<1>9. get_filter(c, r)
  BY <1>1, <1>6, <1>8, FilterFacts
<1> QED BY <1>9 DEF c

\* What is behind a row that a link lets through is let through by the link too.
LEMMA FilterTransitive ==
  ASSUME NEW c, IsLink(c), NEW p \in CRow, NEW r \in CRow,
         get_filter(c, p), get_filter(Link(KeysOf(c), p), r)
  PROVE  get_filter(c, r)
<1> DEFINE keys == KeysOf(c)
           d == Link(keys, p)
<1>1. IsKeys(keys) /\ DOMAIN keys = DOMAIN c.axes
  BY KeysOfFacts
<1>2. \A i \in DOMAIN c.axes : keys[i].field = c.axes[i].field /\ keys[i].asc = c.axes[i].asc
  BY DEF KeysOf, Key
<1> HIDE DEF keys
<1>3. /\ IsLink(d) /\ DOMAIN d.axes = DOMAIN keys
      /\ \A i \in DOMAIN keys : /\ d.axes[i].field = keys[i].field
                                /\ d.axes[i].asc = keys[i].asc
                                /\ d.axes[i].value = p[keys[i].field]
  BY <1>1, LinkFacts
<1>4. get_filter(d, r)
  BY DEF keys
<1> HIDE DEF d
<1>5. PICK i \in DOMAIN c.axes : Behind(c.axes[i], p) /\ \A k \in 1 .. i - 1 : Equals(c.axes[k], p)
  BY FilterFacts
<1>6. PICK j \in DOMAIN c.axes : Behind(d.axes[j], r) /\ \A k \in 1 .. j - 1 : Equals(d.axes[k], r)
  BY <1>1, <1>3, <1>4, FilterFacts
<1>7. /\ DOMAIN c.axes = 1 .. Len(c.axes) /\ Len(c.axes) \in Nat
  BY AxisFacts
<1>8. \A k \in DOMAIN c.axes : c.axes[k].field \in SortField /\ c.axes[k].asc \in BOOLEAN /\ c.axes[k].value \in Num
  BY AxisFacts
<1>9. \A k \in DOMAIN c.axes : p[c.axes[k].field] \in Num /\ r[c.axes[k].field] \in Num
  BY <1>8, FieldFacts
<1>10. \A k \in DOMAIN c.axes :
         /\ d.axes[k].field = c.axes[k].field
         /\ d.axes[k].asc = c.axes[k].asc
         /\ d.axes[k].value = p[c.axes[k].field]
  BY <1>1, <1>2, <1>3
<1>11. \A k \in DOMAIN c.axes : Equals(d.axes[k], r) => r[c.axes[k].field] = p[c.axes[k].field]
  BY <1>10, HoldsFacts DEF Equals
<1>12. \A k \in DOMAIN c.axes : Equals(c.axes[k], p) => p[c.axes[k].field] = c.axes[k].value /\ c.axes[k].value # Missing
  BY HoldsFacts DEF Equals
<1>13. ASSUME NEW k \in DOMAIN c.axes, Equals(d.axes[k], r)
       PROVE  (Equals(c.axes[k], p) <=> Equals(c.axes[k], r)) /\ (Behind(c.axes[k], p) <=> Behind(c.axes[k], r))
  BY <1>11, <1>13 DEF Equals, Behind
<1>14. ASSUME NEW k \in DOMAIN c.axes, Equals(c.axes[k], p)
       PROVE  Behind(d.axes[k], r) => Behind(c.axes[k], r)
  <2>1. d.axes[k].value = c.axes[k].value /\ d.axes[k].field = c.axes[k].field /\ d.axes[k].asc = c.axes[k].asc
    BY <1>10, <1>12, <1>14
  <2> QED BY <2>1 DEF Behind
<1>15. CASE i = j
  <2>1. Behind(c.axes[i], r)
    <3>1. r[c.axes[i].field] \in Num /\ p[c.axes[i].field] \in Num /\ c.axes[i].value \in Num
      BY <1>8, <1>9
    <3>2. CASE c.axes[i].asc
      <4>1. Holds("Gt", p[c.axes[i].field], c.axes[i].value) /\ Holds("Gt", r[c.axes[i].field], p[c.axes[i].field])
        BY <1>5, <1>6, <1>10, <1>15, <3>2 DEF Behind
      <4>2. Holds("Gt", r[c.axes[i].field], c.axes[i].value)
        BY <3>1, <4>1, HoldsFacts, CrudAssumption DEF Num
      <4> QED BY <3>2, <4>2 DEF Behind
    <3>3. CASE ~c.axes[i].asc
      <4>1. Holds("Lt", p[c.axes[i].field], c.axes[i].value) /\ Holds("Lt", r[c.axes[i].field], p[c.axes[i].field])
        BY <1>5, <1>6, <1>10, <1>15, <3>3 DEF Behind
      <4>2. Holds("Lt", r[c.axes[i].field], c.axes[i].value)
        BY <3>1, <4>1, HoldsFacts, CrudAssumption DEF Num
      <4> QED BY <3>3, <4>2 DEF Behind
    <3> QED BY <3>2, <3>3
  <2>2. \A k \in 1 .. i - 1 : k \in DOMAIN c.axes
    BY <1>7
  <2>3. \A k \in 1 .. i - 1 : Equals(c.axes[k], r)
    BY <1>5, <1>6, <1>13, <1>15, <2>2
  <2> QED BY <2>1, <2>3, FilterFacts
<1>16. CASE i < j
  <2>1. Equals(d.axes[i], r) /\ \A k \in 1 .. i - 1 : k \in DOMAIN c.axes /\ Equals(d.axes[k], r)
    BY <1>6, <1>7, <1>16
  <2>2. Behind(c.axes[i], r)
    BY <1>5, <1>13, <2>1
  <2>3. \A k \in 1 .. i - 1 : Equals(c.axes[k], r)
    BY <1>5, <1>13, <2>1
  <2> QED BY <2>2, <2>3, FilterFacts
<1>17. CASE j < i
  <2>1. Equals(c.axes[j], p) /\ \A k \in 1 .. j - 1 : k \in DOMAIN c.axes /\ Equals(c.axes[k], p)
    BY <1>5, <1>7, <1>17
  <2>2. Behind(c.axes[j], r)
    BY <1>6, <1>14, <2>1
  <2>3. \A k \in 1 .. j - 1 : Equals(c.axes[k], r)
    BY <1>6, <1>13, <2>1
  <2> QED BY <2>2, <2>3, FilterFacts
<1> QED BY <1>7, <1>15, <1>16, <1>17

-----------------------------------------------------------------------------
(* Pages                                                                   *)

\* A request whose cursor, if it has one, leads forward.
IsForward(q) == q \in CRequest /\ (q.cursor # Missing => IsLink(q.cursor))

\* The requests of the client.
LEMMA ForwardRequest ==
  ASSUME CrudTypeOK, request # Missing
  PROVE  IsForward(request)
<1>1. request \in CRequest
  BY DEF CrudTypeOK
<1>2. request.cursor # Missing => request.cursor \in Cursor
  BY <1>1 DEF CRequest
<1>3. request.cursor # Missing =>
        /\ request.cursor.forward /\ ~request.cursor.inclusive
        /\ \E k \in DOMAIN request.cursor.axes : request.cursor.axes[k].field = "id"
  BY DEF CrudTypeOK
<1> QED BY <1>1, <1>2, <1>3 DEF IsForward, IsLink

\* Pages are sorted by the keys of the request, which tell the rows apart.
LEMMA AxesFacts ==
  ASSUME NEW q, IsForward(q)
  PROVE  /\ IsKeys(Axes(q)) /\ SortKeys(q) = Axes(q)
         /\ q.cursor # Missing => Axes(q) = KeysOf(q.cursor)
<1>1. CASE q.cursor # Missing
  <2>1. IsLink(q.cursor)
    BY <1>1 DEF IsForward
  <2>2. Axes(q) = KeysOf(q.cursor) /\ SortKeys(q) = get_sort(q.cursor)
    BY <1>1 DEF Axes, KeysOf, SortKeys
  <2> QED BY <2>1, <2>2, KeysOfFacts
<1>2. CASE q.cursor = Missing
  <2> DEFINE keys == q.sort
  <2>1. keys \in Seq(SortKey)
    BY DEF IsForward, CRequest
  <2>2. Axes(q) = ensure_sort_by_id(keys) /\ SortKeys(q) = ensure_sort_by_id(keys)
    BY <1>2 DEF Axes, SortKeys
  <2> HIDE DEF keys
  <2>3. IsKeys(ensure_sort_by_id(keys))
    <3>1. CASE \E i \in DOMAIN keys : keys[i].field = "id"
      BY <2>1, <3>1 DEF ensure_sort_by_id, IsKeys
    <3>2. CASE ~\E i \in DOMAIN keys : keys[i].field = "id"
      <4>1. Key("id", TRUE) \in SortKey /\ Key("id", TRUE).field = "id"
        BY DEF Key, SortKey, SortField
      <4>2. /\ Append(keys, Key("id", TRUE)) \in Seq(SortKey)
            /\ Len(keys) + 1 \in DOMAIN Append(keys, Key("id", TRUE))
            /\ Append(keys, Key("id", TRUE))[Len(keys) + 1] = Key("id", TRUE)
        <5> DEFINE longer == Append(keys, Key("id", TRUE))
        <5>1. longer \in Seq(SortKey) /\ Len(longer) = Len(keys) + 1 /\ longer[Len(keys) + 1] = Key("id", TRUE)
          BY <2>1, <4>1, AppendProperties
        <5> HIDE DEF longer
        <5>2. DOMAIN longer = 1 .. Len(keys) + 1 /\ Len(keys) \in Nat
          BY <2>1, <5>1
        <5>3. Len(keys) + 1 \in DOMAIN longer
          BY <5>2
        <5> QED BY <5>1, <5>3, Zenon DEF longer
      <4> QED BY <3>2, <4>1, <4>2 DEF ensure_sort_by_id, IsKeys
    <3> QED BY <3>1, <3>2
  <2> QED BY <1>2, <2>2, <2>3
<1> QED BY <1>1, <1>2

\* The rows that the request selects.
Found == {r \in Table : Matches(request, r)}

\* The rows of the table, and those the request selects.
LEMMA FoundFacts ==
  ASSUME CrudTypeOK
  PROVE  /\ IsTable(Found)
         /\ \A r \in Found : r \in CRow /\ r.id \in CIds /\ rows[r.id] = r
         /\ \A i \in CIds : rows[i] # Missing => rows[i] \in CRow /\ rows[i] \in Table /\ rows[i].id = i
<1>1. /\ \A i \in CIds : rows[i] \in CRow \cup {Missing}
      /\ \A i \in CIds : rows[i] # Missing => rows[i].id = i
  BY DEF CrudTypeOK
<1>2. \A r \in Table : \E i \in CIds : r = rows[i] /\ r # Missing
  BY DEF Table
<1>3. \A r \in Table : r \in CRow /\ r.id \in CIds /\ rows[r.id] = r
  BY <1>1, <1>2
<1>4. IsFiniteSet({rows[i] : i \in CIds})
  <2>1. IsFiniteSet(CIds)
    BY CrudAssumption
  <2>2. rows \in [CIds -> CRow \cup {Missing}]
    BY DEF CrudTypeOK
  <2> DEFINE I == {rows[i] : i \in CIds}
  <2>3. rows \in Surjection(CIds, I)
    BY <2>2 DEF Surjection
  <2> HIDE DEF I
  <2>4. IsFiniteSet(I)
    BY <2>1, <2>3, FS_Surjection
  <2> QED BY <2>4 DEF I
<1>5. Found \in SUBSET {rows[i] : i \in CIds} /\ Found \subseteq Table
  BY DEF Found, Table
<1>6. IsFiniteSet(Found)
  BY <1>4, <1>5, FS_Subset
<1>7. \A i \in CIds : rows[i] # Missing => rows[i] \in CRow /\ rows[i] \in Table /\ rows[i].id = i
  BY <1>1 DEF Table
<1>8. \A r, s \in Found : r.id = s.id => r = s
  BY <1>3, <1>5
<1> QED BY <1>3, <1>5, <1>6, <1>7, <1>8 DEF IsTable

\* A page has rows that the request selects; without an offset the first of them.
LEMMA PageFacts ==
  ASSUME CrudTypeOK, request # Missing
  PROVE  /\ run_query(request) \in Seq(Found)
         /\ request.offset = Missing =>
              /\ \A k \in DOMAIN run_query(request) :
                   k \in 1 .. Cardinality(Found) /\ run_query(request)[k] = Sorted(Axes(request), Found)[k]
              /\ Len(run_query(request)) = IF request.size < Cardinality(Found)
                                           THEN request.size ELSE Cardinality(Found)
<1> DEFINE S == Sorted(Axes(request), Found)
           n == Cardinality(Found)
           start == IF request.offset = Missing THEN 0 ELSE request.offset
           end == IF start + request.size < n THEN start + request.size ELSE n
           R == SubSeq(S, start + 1, end)
<1>1. IsForward(request) /\ SortKeys(request) = Axes(request) /\ IsKeys(Axes(request))
  BY ForwardRequest, AxesFacts
<1>2. ~(request.cursor # Missing /\ ~request.cursor.forward)
  BY <1>1 DEF IsForward, IsLink
<1>3. S = [k \in 1 .. n |-> S[k]] /\ n \in Nat /\ \A k \in 1 .. n : S[k] \in Found
  <2>1. S = [k \in 1 .. n |-> S[k]]
    BY DEF Sorted
  <2> QED BY <1>1, <2>1, FoundFacts, SortedFacts
<1>4. Len(S) = n
  <2>1. S \in Seq(Found)
    BY <1>3
  <2> QED BY <1>3, <2>1
<1>5. run_query(request) = R
  BY <1>1, <1>2, <1>4 DEF run_query, make_query_ops, Found
<1>6. request.size \in Nat /\ (request.offset # Missing => request.offset \in Nat)
  BY <1>1 DEF IsForward, CRequest
<1>7. start \in Nat /\ (request.offset = Missing => start = 0)
  BY <1>6
<1> HIDE DEF S, n, start
<1>8. end \in Nat /\ end <= n
  BY <1>3, <1>6, <1>7
<1>9. \A i \in start + 1 .. end : S[i] \in Found
  BY <1>3, <1>7, <1>8
<1>10. /\ R \in Seq(Found)
       /\ Len(R) = IF start + 1 <= end THEN end - (start + 1) + 1 ELSE 0
       /\ \A i \in 1 .. end - (start + 1) + 1 : R[i] = S[start + 1 + i - 1]
  <2>1. start + 1 \in Int /\ end \in Int
    BY <1>7, <1>8
  <2> HIDE DEF end
  <2> QED BY <1>9, <2>1, SubSeqProperties
<1>11. ASSUME request.offset = Missing
       PROVE  /\ \A k \in DOMAIN R : k \in 1 .. n /\ R[k] = S[k]
              /\ Len(R) = IF request.size < n THEN request.size ELSE n
  <2>1. start = 0 /\ end = IF request.size < n THEN request.size ELSE n
    BY <1>3, <1>6, <1>7, <1>11
  <2>2. Len(R) = end
    BY <1>8, <1>10, <2>1
  <2>3. \A k \in DOMAIN R : k \in 1 .. end
    BY <1>10, <2>2
  <2>4. \A k \in 1 .. end : k \in 1 .. n /\ R[k] = S[k]
    BY <1>3, <1>8, <1>10, <2>1
  <2> QED BY <2>1, <2>2, <2>3, <2>4
<1> QED BY <1>5, <1>10, <1>11 DEF S, n

\* The request for the page behind a row.
Follows(next, q, row) ==
  /\ next # Missing /\ IsForward(next) /\ Axes(next) = Axes(q)
  /\ next.cursor # Missing /\ next.cursor = Link(Axes(q), row)
  /\ next.offset = q.offset /\ next.size = q.size /\ next.filter = q.filter

\* The next page starts behind the last row of the page, and there is none after an
\* empty page.
LEMMA NextFacts ==
  ASSUME NEW q, IsForward(q), NEW R \in Seq(CRow)
  PROVE  /\ R = << >> => get_page(q, R, TRUE) = Missing
         /\ R # << >> => Follows(get_page(q, R, TRUE), q, R[Len(R)])
<1>1. CASE R = << >>
  <2>1. q.cursor # Missing => q.cursor.forward = TRUE
    BY DEF IsForward, IsLink, Cursor
  <2> QED BY <1>1, <2>1 DEF get_page
<1>2. CASE R # << >>
  <2> DEFINE p == R[Len(R)]
             c == Link(Axes(q), p)
             next == get_page(q, R, TRUE)
  <2>1. p \in CRow /\ Last(R) = p
    BY <1>2 DEF Last
  <2>2. cursor_from_pivot(q, Last(R), TRUE) = c
    BY <2>1 DEF cursor_from_pivot, Link
  <2>3. next = [q EXCEPT !.cursor = c, !.sort = << >>]
    BY <1>2, <2>2 DEF get_page, make_page_url
  <2>4. IsLink(c) /\ KeysOf(c) = Axes(q) /\ c \in Cursor
    BY <2>1, AxesFacts, LinkFacts DEF IsLink
  <2> HIDE DEF c, next, p
  <2>5. q \in CRequest
    BY DEF IsForward
  <2>6. << >> \in Seq(SortKey)
    OBVIOUS
  <2>7. /\ next \in CRequest /\ next.cursor = c
        /\ next.offset = q.offset /\ next.size = q.size /\ next.filter = q.filter
    BY <2>3, <2>4, <2>5, <2>6 DEF CRequest
  <2>8. next # Missing /\ c # Missing
    BY <2>4, <2>7, CrudAssumption
  <2>9. IsForward(next)
    BY <2>4, <2>7 DEF IsForward
  <2>10. Axes(next) = KeysOf(c)
    BY <2>7, <2>8, <2>9, AxesFacts
  <2> QED BY <1>2, <2>4, <2>7, <2>8, <2>9, <2>10 DEF next, c, p, Follows
<1> QED BY <1>1, <1>2

\* A page is appended to what the client has seen.
LEMMA SeenFacts ==
  ASSUME CrudTypeOK, NEW R \in Seq(CRow), \A k \in DOMAIN R : R[k].id \in CIds,
         NEW s, s = seen \o [k \in DOMAIN R |-> R[k].id]
  PROVE  /\ s \in Seq(CIds)
         /\ \A k \in DOMAIN seen : k \in DOMAIN s /\ s[k] = seen[k]
         /\ \A k \in DOMAIN R : Len(seen) + k \in DOMAIN s /\ s[Len(seen) + k] = R[k].id
         /\ \A k \in DOMAIN s : \/ k \in DOMAIN seen
                                \/ k - Len(seen) \in DOMAIN R
         /\ Len(seen) \in Nat /\ DOMAIN seen = 1 .. Len(seen) /\ DOMAIN s \subseteq Nat
<1> DEFINE ids == [k \in DOMAIN R |-> R[k].id]
<1>1. seen \in Seq(CIds) /\ Len(seen) \in Nat /\ DOMAIN seen = 1 .. Len(seen)
  BY DEF CrudTypeOK
<1>2. Len(R) \in Nat /\ DOMAIN R = 1 .. Len(R)
  OBVIOUS
<1>3. ids \in Seq(CIds) /\ Len(ids) = Len(R) /\ \A k \in DOMAIN R : ids[k] = R[k].id
  BY <1>2
<1> HIDE DEF ids
<1>4. /\ s \in Seq(CIds) /\ Len(s) = Len(seen) + Len(R)
      /\ \A i \in 1 .. Len(seen) + Len(R) : s[i] = IF i <= Len(seen) THEN seen[i] ELSE ids[i - Len(seen)]
  BY <1>1, <1>3, ConcatProperties DEF ids
<1>5. DOMAIN s = 1 .. Len(seen) + Len(R)
  BY <1>4
<1>6. \A k \in DOMAIN seen : k \in DOMAIN s /\ s[k] = seen[k]
  BY <1>1, <1>2, <1>4, <1>5
<1>7. ASSUME NEW k \in DOMAIN R
      PROVE  Len(seen) + k \in DOMAIN s /\ s[Len(seen) + k] = R[k].id
  <2>1. Len(seen) + k \in 1 .. Len(seen) + Len(R) /\ ~(Len(seen) + k <= Len(seen)) /\ (Len(seen) + k) - Len(seen) = k
    BY <1>1, <1>2
  <2> QED BY <1>3, <1>4, <1>5, <2>1
<1>8. ASSUME NEW k \in DOMAIN s, k \notin DOMAIN seen
      PROVE  k - Len(seen) \in DOMAIN R
  BY <1>1, <1>2, <1>5, <1>8
<1> QED BY <1>1, <1>4, <1>5, <1>6, <1>7, <1>8

\* The step of the client keeps WalkInv.
LEMMA PageStep ==
  ASSUME CrudTypeOK, WalkInv, getAll
  PROVE  WalkInv'
<1> DEFINE q == request
           R == run_query(request)
           keys == Axes(request)
           n == Cardinality(Found)
<1>1. /\ request # Missing /\ ended = "no" /\ Usable(request)
      /\ rows' = rows /\ stayed' = stayed
      /\ seen' = seen \o [k \in DOMAIN R |-> R[k].id]
      /\ get_page(request, R, TRUE) = Missing => ended' = "end" /\ request' = request
      /\ get_page(request, R, TRUE) # Missing => ended' = "no" /\ request' = get_page(request, R, TRUE)
  BY DEF getAll
<1>2. IsForward(request) /\ IsKeys(keys)
  BY <1>1, ForwardRequest, AxesFacts
<1>3. /\ R \in Seq(Found)
      /\ request.offset = Missing =>
           /\ \A k \in DOMAIN R : k \in 1 .. n /\ R[k] = Sorted(keys, Found)[k]
           /\ Len(R) = IF request.size < n THEN request.size ELSE n
  BY <1>1, PageFacts
<1>4. /\ IsTable(Found)
      /\ \A r \in Found : r \in CRow /\ r.id \in CIds /\ rows[r.id] = r
      /\ \A i \in CIds : rows[i] # Missing => rows[i] \in CRow /\ rows[i] \in Table /\ rows[i].id = i
  BY FoundFacts
<1>5. /\ n \in Nat
      /\ \A r \in Found : \E k \in 1 .. n : Sorted(keys, Found)[k] = r
      /\ \A k, l \in 1 .. n : k < l => Before(keys, Sorted(keys, Found)[k], Sorted(keys, Found)[l])
      /\ \A k, l \in 1 .. n : Sorted(keys, Found)[k] = Sorted(keys, Found)[l] => k = l
  BY <1>2, <1>4, SortedFacts
<1>6. \A r \in Found : request.cursor # Missing => get_filter(request.cursor, r)
  BY DEF Found, Matches
<1>7. \A i \in stayed : i \in CIds /\ rows[i] # Missing
  BY DEF CrudTypeOK
<1>8. R \in Seq(CRow) /\ \A k \in DOMAIN R : R[k] \in Found /\ R[k] \in CRow /\ R[k].id \in CIds /\ rows[R[k].id] = R[k]
  <2>1. \A k \in DOMAIN R : R[k] \in Found
    BY <1>3
  <2>2. R \in Seq(CRow)
    BY <1>3, <1>4
  <2> QED BY <1>4, <2>1, <2>2
<1> HIDE DEF R, keys, n
<1>9. /\ \A k \in DOMAIN seen : k \in DOMAIN seen' /\ seen'[k] = seen[k]
      /\ \A k \in DOMAIN R : Len(seen) + k \in DOMAIN seen' /\ seen'[Len(seen) + k] = R[k].id
      /\ \A k \in DOMAIN seen' : k \in DOMAIN seen \/ k - Len(seen) \in DOMAIN R
      /\ Len(seen) \in Nat /\ DOMAIN seen = 1 .. Len(seen) /\ DOMAIN seen' \subseteq Nat
  BY <1>1, <1>8, SeenFacts
<1>10. ASSUME NEW k \in DOMAIN seen', k \notin DOMAIN seen
       PROVE  /\ k - Len(seen) \in DOMAIN R /\ seen'[k] = R[k - Len(seen)].id
  <2>1. k - Len(seen) \in DOMAIN R
    BY <1>9, <1>10
  <2>2. Len(seen) + (k - Len(seen)) = k
    BY <1>9
  <2> QED BY <1>9, <2>1, <2>2
<1>11. /\ R = << >> => get_page(request, R, TRUE) = Missing
       /\ R # << >> => Follows(get_page(request, R, TRUE), request, R[Len(R)])
  BY <1>2, <1>8, NextFacts DEF keys
<1> SUFFICES ASSUME request' # Missing, request'.offset = Missing, Usable(request)', NEW i \in stayed
             PROVE  /\ \A k, l \in DOMAIN seen' : seen'[k] = i /\ seen'[l] = i => k = l
                    /\ \A k \in DOMAIN seen' : seen'[k] = i =>
                         request'.cursor # Missing /\ ~get_filter(request'.cursor, rows[i])
                    /\ request'.size > 0 /\ Wanted(i)' =>
                         \/ \E k \in DOMAIN seen' : seen'[k] = i
                         \/ ended' = "no" /\ (request'.cursor # Missing => get_filter(request'.cursor, rows[i]))
  BY <1>1 DEF WalkInv
<1>12. request'.offset = request.offset /\ request'.size = request.size /\ request'.filter = request.filter
       /\ Axes(request') = Axes(request)
  BY <1>1, <1>11 DEF Follows
<1>13. Wanted(i)' => Wanted(i)
  BY <1>1, <1>12 DEF Wanted
<1> DEFINE r == rows[i]
<1>14. r \in CRow /\ r.id = i /\ r \in Table
  BY <1>4, <1>7
<1>15. /\ \A k, l \in DOMAIN seen : seen[k] = i /\ seen[l] = i => k = l
       /\ \A k \in DOMAIN seen : seen[k] = i => request.cursor # Missing /\ ~get_filter(request.cursor, r)
       /\ request.size > 0 /\ Wanted(i) =>
            \/ \E k \in DOMAIN seen : seen[k] = i
            \/ request.cursor # Missing => get_filter(request.cursor, r)
  BY <1>1, <1>12 DEF WalkInv
<1>16. Wanted(i) /\ (request.cursor # Missing => get_filter(request.cursor, r)) => r \in Found
  BY <1>14 DEF Found, Matches, Wanted
<1> HIDE DEF r
<1>17. \A k \in DOMAIN R : R[k].id = i => R[k] = r
  BY <1>8 DEF r
<1>18. request.offset = Missing
  BY <1>12
<1>19. request.size \in Nat
  BY <1>2 DEF IsForward, CRequest
<1>20. ASSUME NEW k \in DOMAIN seen', NEW l \in DOMAIN seen', seen'[k] = i, seen'[l] = i
       PROVE  k = l
  <2>1. CASE k \in DOMAIN seen /\ l \in DOMAIN seen
    BY <1>9, <1>15, <1>20, <2>1
  <2>2. CASE k \notin DOMAIN seen /\ l \notin DOMAIN seen
    <3>1. /\ k - Len(seen) \in DOMAIN R /\ R[k - Len(seen)] = r
          /\ l - Len(seen) \in DOMAIN R /\ R[l - Len(seen)] = r
      BY <1>10, <1>17, <1>20, <2>2
    <3>2. k - Len(seen) = l - Len(seen)
      BY <1>3, <1>5, <1>18, <3>1
    <3> QED BY <1>9, <3>2
  <2>3. ASSUME NEW a \in DOMAIN seen', NEW b \in DOMAIN seen', seen'[a] = i, seen'[b] = i,
               a \in DOMAIN seen, b \notin DOMAIN seen
        PROVE  FALSE
    <3>1. request.cursor # Missing /\ ~get_filter(request.cursor, r)
      BY <1>9, <1>15, <2>3
    <3>2. b - Len(seen) \in DOMAIN R /\ R[b - Len(seen)] = r
      BY <1>10, <1>17, <2>3
    <3>3. r \in Found
      BY <1>8, <3>2
    <3> QED BY <1>6, <3>1, <3>3
  <2> QED BY <1>20, <2>1, <2>2, <2>3
<1>21. CASE R = << >>
  <2>1. request' = request /\ ended' = "end" /\ DOMAIN R = {}
    BY <1>1, <1>11, <1>21
  <2>2. \A k \in DOMAIN seen' : k \in DOMAIN seen /\ seen'[k] = seen[k]
    BY <1>9, <2>1
  <2>3. request.size > 0 => Found = {}
    <3>1. Len(R) = 0
      BY <1>21
    <3>2. request.size > 0 => n = 0
      BY <1>3, <1>5, <1>18, <1>19, <3>1
    <3> QED BY <1>5, <3>2
  <2>4. request.size > 0 /\ Wanted(i) => \E k \in DOMAIN seen' : seen'[k] = i
    BY <1>9, <1>15, <1>16, <2>3
  <2> QED BY <1>12, <1>13, <1>15, <1>20, <2>1, <2>2, <2>4 DEF r
<1>22. CASE R # << >>
  <2> DEFINE m == Len(R)
             p == R[m]
  <2>1. m \in DOMAIN R /\ DOMAIN R = 1 .. m /\ m \in Nat
    BY <1>8, <1>22
  <2>2. p \in Found /\ p \in CRow
    BY <1>8, <2>1
  <2>3. m \in 1 .. n /\ p = Sorted(keys, Found)[m]
    BY <1>3, <1>18, <2>1
  <2>4. Follows(get_page(request, R, TRUE), request, p)
    BY <1>11, <1>22
  <2>5. /\ request' = get_page(request, R, TRUE) /\ ended' = "no"
        /\ request'.cursor # Missing /\ request'.cursor = Link(keys, p)
    BY <1>1, <2>4 DEF Follows, keys
  <2> HIDE DEF m, p
  <2>6. ASSUME NEW k \in DOMAIN seen', seen'[k] = i, get_filter(Link(keys, p), r)
        PROVE  FALSE
    <3>1. CASE k \in DOMAIN seen
      <4>1. request.cursor # Missing /\ ~get_filter(request.cursor, r)
        BY <1>9, <1>15, <2>6, <3>1
      <4>2. get_filter(request.cursor, p) /\ IsLink(request.cursor) /\ keys = KeysOf(request.cursor)
        BY <1>2, <1>6, <2>2, <4>1, AxesFacts DEF IsForward, keys
      <4> QED BY <1>14, <2>2, <2>6, <4>1, <4>2, FilterTransitive
    <3>2. CASE k \notin DOMAIN seen
      <4>1. PICK j \in DOMAIN R : R[j] = r
        BY <1>10, <1>17, <2>6, <3>2
      <4>2. j \in 1 .. n /\ r = Sorted(keys, Found)[j] /\ j <= m /\ j \in 1 .. m
        BY <1>3, <1>18, <2>1, <4>1
      <4>3. Before(keys, p, r)
        BY <1>2, <1>14, <2>2, <2>6, FilterBefore
      <4>4. r = p \/ Before(keys, r, p)
        BY <1>5, <2>1, <2>3, <4>2
      <4>5. keys \in Seq(SortKey)
        BY <1>2 DEF IsKeys
      <4>6. Before(keys, p, p)
        BY <1>14, <2>2, <4>3, <4>4, <4>5, BeforeTransitive
      <4> QED BY <2>2, <4>5, <4>6, BeforeIrreflexive
    <3> QED BY <3>1, <3>2
  <2>7. ASSUME request.size > 0, Wanted(i), ~\E k \in DOMAIN seen' : seen'[k] = i
        PROVE  get_filter(Link(keys, p), r)
    <3>1. ~\E k \in DOMAIN seen : seen[k] = i
      BY <1>9, <2>7
    <3>2. r \in Found
      BY <1>15, <1>16, <2>7, <3>1
    <3>3. PICK j \in 1 .. n : Sorted(keys, Found)[j] = r
      BY <1>5, <3>2
    <3>4. j \notin DOMAIN R
      <4>1. ASSUME j \in DOMAIN R PROVE FALSE
        <5>1. R[j] = r
          BY <1>3, <1>18, <3>3, <4>1
        <5>2. seen'[Len(seen) + j] = i /\ Len(seen) + j \in DOMAIN seen'
          BY <1>9, <1>14, <4>1, <5>1
        <5> QED BY <2>7, <5>2
      <4> QED BY <4>1
    <3>5. m < j
      BY <1>5, <2>1, <3>4
    <3>6. Before(keys, p, r)
      BY <1>5, <2>3, <3>3, <3>5
    <3>7. \A k \in DOMAIN keys : r[keys[k].field] # Missing
      BY <2>7 DEF Wanted, keys, r
    <3>8. \A k \in DOMAIN keys : p[keys[k].field] # Missing
      <4>1. ~json_to_value_fails(request'.cursor)
        BY <2>5 DEF Usable
      <4>2. \A k \in DOMAIN Link(keys, p).axes : Link(keys, p).axes[k].value # Missing
        BY <2>5, <4>1 DEF json_to_value_fails
      <4>3. DOMAIN Link(keys, p).axes = DOMAIN keys /\ \A k \in DOMAIN keys : Link(keys, p).axes[k].value = p[keys[k].field]
        BY <1>2, <2>2, LinkFacts
      <4> QED BY <4>2, <4>3
    <3> QED BY <1>2, <1>14, <2>2, <3>6, <3>7, <3>8, BeforeFilter
  <2> QED BY <1>12, <1>13, <1>20, <2>5, <2>6, <2>7 DEF r
<1> QED BY <1>21, <1>22

-----------------------------------------------------------------------------
(* Pages backwards                                                         *)

\* The rows can be listed in their order in one way only.
LEMMA SortedUnique ==
  ASSUME NEW keys, IsKeys(keys), NEW R, IsTable(R), NEW n \in Nat, NEW T \in [1 .. n -> R],
         \A r \in R : \E k \in 1 .. n : T[k] = r,
         \A k, l \in 1 .. n : k < l => Before(keys, T[k], T[l])
  PROVE  Cardinality(R) = n /\ \A k \in 1 .. n : Sorted(keys, R)[k] = T[k]
<1> DEFINE S == Sorted(keys, R)
<1>1. keys \in Seq(SortKey) /\ R \subseteq CRow
  BY DEF IsKeys, IsTable
<1>2. \A r, s \in R : ~(Before(keys, r, s) /\ Before(keys, s, r))
  BY <1>1, BeforeIrreflexive, BeforeTransitive
<1>3. \A k, l \in 1 .. n : T[k] = T[l] => k = l
  <2> SUFFICES ASSUME NEW k \in 1 .. n, NEW l \in 1 .. n, T[k] = T[l], k # l PROVE FALSE
    OBVIOUS
  <2>1. k < l \/ l < k
    OBVIOUS
  <2>2. Before(keys, T[k], T[l]) \/ Before(keys, T[l], T[k])
    BY <2>1
  <2>3. T[k] \in R
    OBVIOUS
  <2> QED BY <1>2, <2>2, <2>3
<1>4. Cardinality(R) = n
  <2>1. T \in Bijection(1 .. n, R)
    BY <1>3 DEF Bijection, Injection, IsInjective, Surjection
  <2>2. ExistsBijection(1 .. n, R)
    BY <2>1 DEF ExistsBijection
  <2>3. IsFiniteSet(1 .. n) /\ Cardinality(1 .. n) = n
    <3>1. IsFiniteSet(1 .. n) /\ Cardinality(1 .. n) = IF 1 > n THEN 0 ELSE n - 1 + 1
      BY FS_Interval
    <3> QED BY <3>1
  <2> QED BY <2>2, <2>3, FS_Bijection
<1>5. /\ \A k \in 1 .. n : S[k] \in R
      /\ \A r \in R : \E k \in 1 .. n : S[k] = r
      /\ \A k, l \in 1 .. n : k < l => Before(keys, S[k], S[l])
      /\ \A k, l \in 1 .. n : S[k] = S[l] => k = l
  <2>1. /\ \A k \in 1 .. Cardinality(R) : S[k] \in R
        /\ \A r \in R : \E k \in 1 .. Cardinality(R) : S[k] = r
        /\ \A k, l \in 1 .. Cardinality(R) : k < l => Before(keys, S[k], S[l])
        /\ \A k, l \in 1 .. Cardinality(R) : S[k] = S[l] => k = l
    BY SortedFacts
  <2> HIDE DEF S
  <2> QED BY <1>4, <2>1
<1> HIDE DEF S
<1>6. \A k \in 1 .. n : S[k] = T[k]
  <2> DEFINE D == {k \in 1 .. n : S[k] # T[k]}
  <2>1. D \subseteq Nat
    OBVIOUS
  <2>2. \A k \in 1 .. n : k \in D <=> S[k] # T[k]
    OBVIOUS
  <2>3. \A k \in D : k \in 1 .. n
    OBVIOUS
  <2> HIDE DEF D
  <2> SUFFICES ASSUME D # {} PROVE FALSE
    BY <2>2
  <2>4. PICK k \in D : \A m \in D : k <= m
    BY <2>1, LeastNat
  <2>5. k \in 1 .. n /\ S[k] # T[k] /\ S[k] \in R /\ T[k] \in R
    BY <1>5, <2>2, <2>3
  <2>6. \A m \in 1 .. n : m < k => S[m] = T[m]
    BY <2>2, <2>4, <2>5
  <2>7. PICK l \in 1 .. n : T[l] = S[k]
    BY <2>5
  <2>8. l > k
    <3>1. CASE l < k
      <4>1. S[l] = S[k]
        BY <2>6, <2>7, <3>1
      <4> QED BY <1>5, <2>5, <3>1, <4>1
    <3>2. CASE l = k
      BY <2>5, <2>7, <3>2
    <3> QED BY <2>5, <3>1, <3>2
  <2>9. Before(keys, T[k], S[k])
    BY <2>5, <2>7, <2>8
  <2>10. PICK m \in 1 .. n : S[m] = T[k]
    BY <1>5, <2>5
  <2>11. m > k
    BY <1>3, <2>5, <2>6, <2>10
  <2>12. Before(keys, S[k], T[k])
    BY <1>5, <2>5, <2>10, <2>11
  <2> QED BY <1>2, <2>5, <2>9, <2>12
<1> QED BY <1>4, <1>6 DEF S

\* A part of a table is one.
LEMMA SubTable ==
  ASSUME NEW R, IsTable(R), NEW F \in SUBSET R
  PROVE  IsTable(F)
<1>1. IsFiniteSet(F)
  BY FS_Subset DEF IsTable
<1> QED BY <1>1 DEF IsTable

\* The keys of the opposite order.
Opposite(keys) == [i \in DOMAIN keys |-> Key(keys[i].field, keys[i].asc = FALSE)]

\* In the opposite order the rows are the other way round.
LEMMA OppositeFacts ==
  ASSUME NEW keys, IsKeys(keys)
  PROVE  /\ IsKeys(Opposite(keys))
         /\ \A r, s : Before(Opposite(keys), r, s) <=> Before(keys, s, r)
<1> DEFINE opp == Opposite(keys)
<1>1. keys \in Seq(SortKey) /\ DOMAIN keys = 1 .. Len(keys) /\ Len(keys) \in Nat
  BY DEF IsKeys
<1>2. \A i \in DOMAIN keys : keys[i].field \in SortField /\ keys[i].asc \in BOOLEAN
  <2>1. \A i \in DOMAIN keys : keys[i] \in SortKey
    BY <1>1
  <2> QED BY <2>1 DEF SortKey
<1>3. /\ DOMAIN opp = DOMAIN keys
      /\ \A i \in DOMAIN keys : opp[i] = Key(keys[i].field, keys[i].asc = FALSE)
  BY DEF Opposite
<1>4. \A i \in DOMAIN keys : /\ opp[i] \in SortKey /\ opp[i].field = keys[i].field
                             /\ opp[i].asc <=> ~keys[i].asc
  <2> SUFFICES ASSUME NEW i \in DOMAIN keys
               PROVE  /\ opp[i] \in SortKey /\ opp[i].field = keys[i].field
                      /\ opp[i].asc <=> ~keys[i].asc
    OBVIOUS
  <2>1. opp[i].field = keys[i].field /\ opp[i].asc = (keys[i].asc = FALSE)
    BY <1>3 DEF Key
  <2>2. opp[i] \in SortKey
    <3>1. keys[i].field \in SortField /\ (keys[i].asc = FALSE) \in BOOLEAN
      BY <1>2
    <3>2. \A f \in SortField, b \in BOOLEAN : Key(f, b) \in SortKey
      BY DEF Key, SortKey
    <3>3. Key(keys[i].field, keys[i].asc = FALSE) \in SortKey
      BY <3>1, <3>2, Zenon
    <3> QED BY <1>3, <3>3
  <2>3. opp[i].asc <=> ~keys[i].asc
    BY <1>2, <2>1
  <2> QED BY <2>1, <2>2, <2>3
<1>5. opp \in Seq(SortKey)
  BY <1>1, <1>3, <1>4, IsASeq DEF Opposite
<1>6. IsKeys(opp)
  BY <1>3, <1>4, <1>5 DEF IsKeys
<1> HIDE DEF opp
<1>7. ASSUME NEW r, NEW s PROVE Before(opp, r, s) <=> Before(keys, s, r)
  <2>1. \A i \in DOMAIN keys : KeyLess(opp[i], r, s) <=> KeyLess(keys[i], s, r)
    BY <1>2, <1>4 DEF KeyLess
  <2>2. \A i \in DOMAIN keys : \A k \in 1 .. i - 1 : k \in DOMAIN keys
    BY <1>1
  <2>3. \A i \in DOMAIN keys : \A k \in 1 .. i - 1 :
          r[opp[k].field] = s[opp[k].field] <=> s[keys[k].field] = r[keys[k].field]
    BY <1>4, <2>2
  <2> QED BY <1>3, <2>1, <2>3 DEF Before
<1> QED BY <1>6, <1>7 DEF opp

\* The rows behind the j-th, in their order.
LEMMA SortedTail ==
  ASSUME NEW keys, IsKeys(keys), NEW R, IsTable(R), NEW F \in SUBSET R, NEW j \in 0 .. Cardinality(R),
         \A k \in 1 .. Cardinality(R) : Sorted(keys, R)[k] \in F <=> k > j
  PROVE  /\ Cardinality(F) = Cardinality(R) - j
         /\ \A k \in 1 .. Cardinality(F) : Sorted(keys, F)[k] = Sorted(keys, R)[j + k]
<1> DEFINE S == Sorted(keys, R)
           n == Cardinality(R)
           T == [k \in 1 .. n - j |-> S[j + k]]
<1>1. /\ n \in Nat
      /\ \A r \in R : \E k \in 1 .. n : S[k] = r
      /\ \A k, l \in 1 .. n : k < l => Before(keys, S[k], S[l])
  BY SortedFacts
<1> HIDE DEF S, n
<1>2. \A k \in 1 .. n : S[k] \in F <=> k > j
  BY DEF S, n
<1>3. j \in Nat /\ n - j \in Nat
  BY <1>1 DEF n
<1>4. \A k \in 1 .. n - j : j + k \in 1 .. n /\ j + k > j
  BY <1>1, <1>3
<1>5. T \in [1 .. n - j -> F]
  BY <1>2, <1>4
<1>6. ASSUME NEW r \in F PROVE \E k \in 1 .. n - j : T[k] = r
  <2>1. PICK k \in 1 .. n : S[k] = r
    BY <1>1
  <2>2. k - j \in 1 .. n - j /\ j + (k - j) = k
    BY <1>1, <1>2, <1>3, <2>1
  <2>3. T[k - j] = r
    BY <2>1, <2>2
  <2> QED BY <2>2, <2>3
<1>7. ASSUME NEW k \in 1 .. n - j, NEW l \in 1 .. n - j, k < l PROVE Before(keys, T[k], T[l])
  <2>1. j + k < j + l
    BY <1>3, <1>7
  <2> QED BY <1>1, <1>4, <2>1
<1>8. IsTable(F)
  BY SubTable
<1> HIDE DEF T
<1>9. Cardinality(F) = n - j /\ \A k \in 1 .. n - j : Sorted(keys, F)[k] = T[k]
  BY <1>3, <1>5, <1>6, <1>7, <1>8, SortedUnique
<1> QED BY <1>9 DEF T, S, n

\* The first j rows, in the opposite order.
LEMMA SortedBack ==
  ASSUME NEW keys, IsKeys(keys), NEW R, IsTable(R), NEW F \in SUBSET R, NEW j \in 0 .. Cardinality(R),
         \A k \in 1 .. Cardinality(R) : Sorted(keys, R)[k] \in F <=> k <= j
  PROVE  /\ Cardinality(F) = j
         /\ \A k \in 1 .. j : Sorted(Opposite(keys), F)[k] = Sorted(keys, R)[j + 1 - k]
<1> DEFINE S == Sorted(keys, R)
           n == Cardinality(R)
           T == [k \in 1 .. j |-> S[j + 1 - k]]
<1>1. /\ n \in Nat
      /\ \A r \in R : \E k \in 1 .. n : S[k] = r
      /\ \A k, l \in 1 .. n : k < l => Before(keys, S[k], S[l])
  BY SortedFacts
<1> HIDE DEF S, n
<1>2. \A k \in 1 .. n : S[k] \in F <=> k <= j
  BY DEF S, n
<1>3. j \in Nat /\ j <= n
  BY <1>1 DEF n
<1>4. \A k \in 1 .. j : j + 1 - k \in 1 .. n /\ j + 1 - k <= j
  BY <1>1, <1>3
<1>5. T \in [1 .. j -> F]
  BY <1>2, <1>4
<1>6. ASSUME NEW r \in F PROVE \E k \in 1 .. j : T[k] = r
  <2>1. PICK k \in 1 .. n : S[k] = r
    BY <1>1
  <2>2. j + 1 - k \in 1 .. j /\ j + 1 - (j + 1 - k) = k
    BY <1>1, <1>2, <1>3, <2>1
  <2>3. T[j + 1 - k] = r
    BY <2>1, <2>2
  <2> QED BY <2>2, <2>3
<1>7. ASSUME NEW k \in 1 .. j, NEW l \in 1 .. j, k < l PROVE Before(Opposite(keys), T[k], T[l])
  <2>1. j + 1 - l < j + 1 - k
    BY <1>3, <1>7
  <2>2. Before(keys, T[l], T[k])
    BY <1>1, <1>4, <2>1
  <2> QED BY <2>2, OppositeFacts
<1>8. IsTable(F) /\ IsKeys(Opposite(keys))
  BY SubTable, OppositeFacts
<1> HIDE DEF T
<1>9. Cardinality(F) = j /\ \A k \in 1 .. j : Sorted(Opposite(keys), F)[k] = T[k]
  BY <1>3, <1>5, <1>6, <1>7, <1>8, SortedUnique
<1> QED BY <1>9 DEF T, S, n

\* A cursor that leads backwards from the pivot.
Back(keys, p, inclusive) ==
  [axes |-> Link(keys, p).axes, forward |-> FALSE, inclusive |-> inclusive]

\* The cursor of prev_page, and the keys it sorts by.
LEMMA BackFacts ==
  ASSUME NEW keys, IsKeys(keys), NEW p \in CRow, NEW inc \in BOOLEAN
  PROVE  /\ Back(keys, p, inc) \in Cursor /\ Back(keys, p, inc) # Missing
         /\ get_sort(Back(keys, p, inc)) = Opposite(keys) /\ Back(keys, p, inc).forward = FALSE
<1> DEFINE c == Back(keys, p, inc)
           l == Link(keys, p)
<1>1. /\ l \in Cursor /\ KeysOf(l) = keys /\ DOMAIN l.axes = DOMAIN keys
      /\ \A i \in DOMAIN keys : l.axes[i].field = keys[i].field /\ l.axes[i].asc = keys[i].asc
  BY LinkFacts DEF IsLink
<1>2. l.axes \in Seq(Axis)
  BY <1>1 DEF Cursor
<1>3. c.axes = l.axes /\ c.forward = FALSE
  BY DEF Back
<1>4. c \in Cursor
  BY <1>2 DEF Back, Cursor
<1>5. c # Missing
  BY <1>4, CrudAssumption
<1> HIDE DEF c, l
<1>6. get_sort(c) = Opposite(keys)
  <2>1. get_sort(c) = [i \in DOMAIN keys |-> Key(c.axes[i].field, c.axes[i].asc = FALSE)]
    BY <1>1, <1>3 DEF get_sort
  <2>2. \A i \in DOMAIN keys : Key(c.axes[i].field, c.axes[i].asc = FALSE) = Key(keys[i].field, keys[i].asc = FALSE)
    BY <1>1, <1>3
  <2> QED BY <2>1, <2>2 DEF Opposite
<1> QED BY <1>3, <1>4, <1>5, <1>6 DEF c

\* The values of the sort keys are numbers.
Complete(keys, r) == \A k \in DOMAIN keys : r[keys[k].field] # Missing

\* The link backwards lets the rows through that are in front of its pivot; with
\* the pivot included at least these and the pivot.
LEMMA BackFilter ==
  ASSUME NEW keys, IsKeys(keys), NEW p \in CRow, NEW r \in CRow, Complete(keys, p), Complete(keys, r)
  PROVE  /\ get_filter(Back(keys, p, FALSE), r) <=> Before(keys, r, p)
         /\ r = p \/ Before(keys, r, p) => get_filter(Back(keys, p, TRUE), r)
<1>1. keys \in Seq(SortKey) /\ DOMAIN keys = 1 .. Len(keys) /\ Len(keys) \in Nat
  BY DEF IsKeys
<1>2. \A i \in DOMAIN keys : keys[i].field \in SortField /\ keys[i].asc \in BOOLEAN
  <2>1. \A i \in DOMAIN keys : keys[i] \in SortKey
    BY <1>1
  <2> QED BY <2>1 DEF SortKey
<1>3. \A i \in DOMAIN keys : r[keys[i].field] \in Int /\ p[keys[i].field] \in Int
  <2>1. \A i \in DOMAIN keys : r[keys[i].field] \in Num /\ p[keys[i].field] \in Num
    BY <1>2, FieldFacts
  <2> QED BY <2>1 DEF Complete, Num
<1>4. \A i \in DOMAIN keys : r[keys[i].field] # Missing /\ p[keys[i].field] # Missing
  BY DEF Complete
<1>5. \A i \in DOMAIN keys :
        KeyLess(keys[i], r, p) <=> IF keys[i].asc THEN r[keys[i].field] < p[keys[i].field]
                                                 ELSE r[keys[i].field] > p[keys[i].field]
  BY <1>2, <1>3, <1>4 DEF KeyLess, Less
<1>6. \A i \in DOMAIN keys : \A k \in 1 .. i - 1 : k \in DOMAIN keys
  BY <1>1
<1>7. ASSUME NEW inc \in BOOLEAN
      PROVE  get_filter(Back(keys, p, inc), r) <=>
               \E i \in DOMAIN keys :
                 /\ \/ KeyLess(keys[i], r, p)
                    \/ inc /\ r[keys[i].field] = p[keys[i].field]
                 /\ \A k \in 1 .. i - 1 : r[keys[k].field] = p[keys[k].field]
  <2> DEFINE c == Back(keys, p, inc)
  <2>1. /\ DOMAIN c.axes = DOMAIN keys /\ c.forward = FALSE /\ c.inclusive = inc
        /\ \A i \in DOMAIN keys : /\ c.axes[i].field = keys[i].field
                                  /\ c.axes[i].asc = keys[i].asc
                                  /\ c.axes[i].value = p[keys[i].field]
    BY LinkFacts DEF Back
  <2> HIDE DEF c
  <2>2. \A i \in DOMAIN keys : Holds("Eq", r[c.axes[i].field], c.axes[i].value)
                                 <=> r[keys[i].field] = p[keys[i].field]
    BY <1>4, <2>1, HoldsFacts
  <2>3. ASSUME NEW i \in DOMAIN keys
        PROVE  Holds(AxisOp(c.axes[i], c), r[c.axes[i].field], c.axes[i].value) <=>
                 KeyLess(keys[i], r, p) \/ (inc /\ r[keys[i].field] = p[keys[i].field])
    <3>1. AxisOp(c.axes[i], c) = IF keys[i].asc THEN (IF inc THEN "LtEq" ELSE "Lt")
                                               ELSE (IF inc THEN "GtEq" ELSE "Gt")
      BY <1>2, <2>1 DEF AxisOp
    <3> DEFINE x == r[keys[i].field]
               y == p[keys[i].field]
    <3>2. x \in Int /\ y \in Int /\ x # Missing /\ y # Missing
      BY <1>3, <1>4
    <3>3. KeyLess(keys[i], r, p) <=> IF keys[i].asc THEN x < y ELSE x > y
      BY <1>5
    <3>4. /\ r[c.axes[i].field] = x /\ c.axes[i].value = y
      BY <2>1
    <3> HIDE DEF x, y
    <3>5. /\ Holds("Lt", x, y) <=> x < y
          /\ Holds("LtEq", x, y) <=> x <= y
          /\ Holds("Gt", x, y) <=> x > y
          /\ Holds("GtEq", x, y) <=> x >= y
      BY <3>2 DEF Holds
    <3>6. Holds(AxisOp(c.axes[i], c), x, y) <=>
            (IF keys[i].asc THEN x < y ELSE x > y) \/ (inc /\ x = y)
      <4>1. CASE keys[i].asc /\ inc
        BY <3>1, <3>2, <3>5, <4>1
      <4>2. CASE keys[i].asc /\ ~inc
        BY <3>1, <3>2, <3>5, <4>2
      <4>3. CASE ~keys[i].asc /\ inc
        BY <3>1, <3>2, <3>5, <4>3
      <4>4. CASE ~keys[i].asc /\ ~inc
        BY <3>1, <3>2, <3>5, <4>4
      <4> QED BY <4>1, <4>2, <4>3, <4>4
    <3> QED BY <3>3, <3>4, <3>6 DEF x, y
  <2>4. \A i \in DOMAIN keys :
          (\A k \in 1 .. i - 1 : Holds("Eq", r[c.axes[k].field], c.axes[k].value))
            <=> (\A k \in 1 .. i - 1 : r[keys[k].field] = p[keys[k].field])
    BY <1>6, <2>2
  <2>5. get_filter(c, r) <=>
          \E i \in DOMAIN keys :
            /\ Holds(AxisOp(c.axes[i], c), r[c.axes[i].field], c.axes[i].value)
            /\ \A k \in 1 .. i - 1 : Holds("Eq", r[c.axes[k].field], c.axes[k].value)
    BY <2>1 DEF get_filter
  <2> QED BY <2>3, <2>4, <2>5 DEF c
<1>8. get_filter(Back(keys, p, FALSE), r) <=> Before(keys, r, p)
  BY <1>7 DEF Before
<1>9. Before(keys, r, p) => get_filter(Back(keys, p, TRUE), r)
  BY <1>7 DEF Before
<1>10. r = p => get_filter(Back(keys, p, TRUE), r)
  <2>1. 1 \in DOMAIN keys /\ \A k \in 1 .. 1 - 1 : FALSE
    BY <1>1 DEF IsKeys
  <2> QED BY <1>7, <2>1
<1> QED BY <1>8, <1>9, <1>10

\* The rows of the table.
LEMMA TableFacts ==
  ASSUME CrudTypeOK
  PROVE  IsTable(Table)
<1>1. /\ \A i \in CIds : rows[i] \in CRow \cup {Missing}
      /\ \A i \in CIds : rows[i] # Missing => rows[i].id = i
  BY DEF CrudTypeOK
<1>2. \A r \in Table : \E i \in CIds : r = rows[i] /\ r # Missing
  BY DEF Table
<1>3. \A r \in Table : r \in CRow /\ rows[r.id] = r
  BY <1>1, <1>2
<1>4. IsFiniteSet({rows[i] : i \in CIds})
  <2>1. IsFiniteSet(CIds) /\ rows \in [CIds -> CRow \cup {Missing}]
    BY CrudAssumption DEF CrudTypeOK
  <2> DEFINE I == {rows[i] : i \in CIds}
  <2>2. rows \in Surjection(CIds, I)
    BY <2>1 DEF Surjection
  <2> HIDE DEF I
  <2>3. IsFiniteSet(I)
    BY <2>1, <2>2, FS_Surjection
  <2> QED BY <2>3 DEF I
<1>5. IsFiniteSet(Table)
  BY <1>4, FS_Subset DEF Table
<1> QED BY <1>3, <1>5 DEF IsTable

\* The rows that a request selects.
Matching(q) == {r \in Table : Matches(q, r)}

\* Up to its size they are the result, in the order of the sort keys.
LEMMA TakeFacts ==
  ASSUME CrudTypeOK, NEW q, q.size \in Nat, q.offset = Missing, IsKeys(SortKeys(q)), NEW e,
         e = IF q.size < Cardinality(Matching(q)) THEN q.size ELSE Cardinality(Matching(q))
  PROVE  /\ e \in Nat /\ e <= Cardinality(Matching(q)) /\ Cardinality(Matching(q)) \in Nat
         /\ make_query_ops(q) \in Seq(CRow) /\ Len(make_query_ops(q)) = e
         /\ \A k \in 1 .. e : make_query_ops(q)[k] = Sorted(SortKeys(q), Matching(q))[k]
<1> DEFINE S == Sorted(SortKeys(q), Matching(q))
           n == Cardinality(Matching(q))
<1>1. IsTable(Matching(q)) /\ Matching(q) \subseteq CRow
  <2>1. Matching(q) \in SUBSET Table
    BY DEF Matching
  <2> QED BY <2>1, TableFacts, SubTable DEF IsTable
<1>2. n \in Nat /\ \A k \in 1 .. n : S[k] \in Matching(q)
  BY <1>1, SortedFacts
<1>3. S = [k \in 1 .. n |-> S[k]]
  BY DEF Sorted
<1>4. make_query_ops(q) = SubSeq(S, 0 + 1, IF 0 + q.size < Len(S) THEN 0 + q.size ELSE Len(S))
  BY DEF make_query_ops, Matching
<1> HIDE DEF S
<1>5. S \in Seq(CRow) /\ Len(S) = n
  <2> HIDE DEF n
  <2>1. S \in Seq(CRow)
    BY <1>1, <1>2, <1>3
  <2> QED BY <1>2, <1>3, <2>1
<1>6. e = IF q.size < n THEN q.size ELSE n
  OBVIOUS
<1> HIDE DEF n
<1>7. e \in Nat /\ e <= n /\ make_query_ops(q) = SubSeq(S, 1, e)
  <2>1. 0 + q.size = q.size /\ 0 + 1 = 1
    OBVIOUS
  <2>2. make_query_ops(q) = SubSeq(S, 1, e)
    BY <1>4, <1>5, <1>6, <2>1
  <2> QED BY <1>2, <1>6, <2>2
<1>8. \A i \in 1 .. e : S[i] \in CRow
  BY <1>1, <1>2, <1>7
<1>9. /\ SubSeq(S, 1, e) \in Seq(CRow)
      /\ Len(SubSeq(S, 1, e)) = IF 1 <= e THEN e - 1 + 1 ELSE 0
      /\ \A i \in 1 .. e - 1 + 1 : SubSeq(S, 1, e)[i] = S[1 + i - 1]
  <2>1. 1 \in Int /\ e \in Int
    BY <1>7
  <2> QED BY <1>8, <2>1, SubSeqProperties
<1>10. \A i \in 1 .. e : i \in 1 .. e - 1 + 1 /\ 1 + i - 1 = i
  BY <1>7
<1>11. /\ Len(SubSeq(S, 1, e)) = e
       /\ \A i \in 1 .. e : SubSeq(S, 1, e)[i] = S[i]
  BY <1>7, <1>9, <1>10
<1> QED BY <1>2, <1>7, <1>9, <1>11 DEF S, n

\* The rows a walk is about, and those a request selects.
LEMMA SelectedFacts ==
  ASSUME CrudTypeOK, NEW q
  PROVE  /\ IsTable(Selected(q)) /\ Selected(q) \subseteq CRow
         /\ \A r \in Table : Matches(q, r) <=>
              r \in Selected(q) /\ (q.cursor # Missing => get_filter(q.cursor, r))
<1>1. Selected(q) \in SUBSET Table
  BY DEF Selected
<1>2. IsTable(Selected(q))
  BY <1>1, TableFacts, SubTable
<1>3. Selected(q) \subseteq CRow
  BY <1>2 DEF IsTable
<1> QED BY <1>2, <1>3 DEF Selected, Matches

\* No row has NULL in a field to sort by.
WithoutNulls == \A r \in Table : r.a # Missing

\* Then all sort keys are numbers.
LEMMA AllComplete ==
  ASSUME CrudTypeOK, WithoutNulls, NEW keys, IsKeys(keys)
  PROVE  \A r \in Table : Complete(keys, r)
<1> SUFFICES ASSUME NEW r \in Table, NEW k \in DOMAIN keys PROVE r[keys[k].field] # Missing
  BY DEF Complete
<1>1. keys[k].field \in {"id", "a"}
  <2>1. keys[k] \in SortKey
    BY DEF IsKeys
  <2> QED BY <2>1 DEF SortKey, SortField
<1>2. r \in CRow /\ r.a # Missing
  BY TableFacts DEF WithoutNulls, IsTable
<1>3. r.id # Missing
  BY <1>2, CrudAssumption DEF CRow
<1> QED BY <1>1, <1>2, <1>3

\* The rows that the walk is about, in its order.
Line(k) == Sorted(Axes(request), Selected(request))[k]
LineLen == Cardinality(Selected(request))

\* They are all the rows that pass the filter, and ordered by their places.
LEMMA LineFacts ==
  ASSUME CrudTypeOK, request # Missing
  PROVE  /\ LineLen \in Nat /\ IsKeys(Axes(request))
         /\ \A k \in 1 .. LineLen : Line(k) \in Selected(request) /\ Line(k) \in Table /\ Line(k) \in CRow
         /\ \A r \in Selected(request) : \E k \in 1 .. LineLen : Line(k) = r
         /\ \A k, l \in 1 .. LineLen : Before(Axes(request), Line(k), Line(l)) <=> k < l
<1>1. IsForward(request) /\ IsKeys(Axes(request))
  BY ForwardRequest, AxesFacts
<1>2. IsTable(Selected(request)) /\ Selected(request) \subseteq CRow /\ Selected(request) \subseteq Table
  BY SelectedFacts DEF Selected
<1>3. /\ LineLen \in Nat
      /\ \A k \in 1 .. LineLen : Line(k) \in Selected(request)
      /\ \A r \in Selected(request) : \E k \in 1 .. LineLen : Line(k) = r
      /\ \A k, l \in 1 .. LineLen : k < l => Before(Axes(request), Line(k), Line(l))
  BY <1>1, <1>2, SortedFacts DEF Line, LineLen
<1>4. ASSUME NEW k \in 1 .. LineLen, NEW l \in 1 .. LineLen, Before(Axes(request), Line(k), Line(l)), ~(k < l)
      PROVE  FALSE
  <2>1. Line(k) \in CRow /\ Line(l) \in CRow /\ Axes(request) \in Seq(SortKey)
    BY <1>1, <1>2, <1>3 DEF IsKeys
  <2>2. k = l \/ l < k
    BY <1>3, <1>4
  <2>3. ~Before(Axes(request), Line(k), Line(k))
    BY <2>1, BeforeIrreflexive
  <2>4. CASE l < k
    <3>1. Before(Axes(request), Line(l), Line(k))
      BY <1>3, <2>4
    <3> QED BY <1>4, <2>1, <2>3, <3>1, BeforeTransitive
  <2> QED BY <1>4, <2>2, <2>3, <2>4
<1> QED BY <1>1, <1>2, <1>3, <1>4

\* The client is behind the j-th row.
At(j) ==
  \/ j = 0 /\ request.cursor = Missing
  \/ j \in 1 .. LineLen /\ request.cursor = Link(Axes(request), Line(j))

\* The page of its request are the rows that follow.
LEMMA NextPage ==
  ASSUME CrudTypeOK, WithoutNulls, request # Missing, request.offset = Missing, NEW j, At(j),
         NEW e, e = IF request.size < LineLen - j THEN request.size ELSE LineLen - j
  PROVE  /\ j \in 0 .. LineLen /\ run_query(request) \in Seq(CRow) /\ Len(run_query(request)) = e
         /\ \A k \in 1 .. e : j + k \in 1 .. LineLen /\ run_query(request)[k] = Line(j + k)
<1> DEFINE keys == Axes(request)
<1>1. /\ LineLen \in Nat /\ IsKeys(keys)
      /\ \A k \in 1 .. LineLen : Line(k) \in Selected(request) /\ Line(k) \in Table /\ Line(k) \in CRow
      /\ \A k, l \in 1 .. LineLen : Before(keys, Line(k), Line(l)) <=> k < l
  BY LineFacts
<1>2. j \in 0 .. LineLen
  BY <1>1 DEF At
<1>3. \A r \in Table : r \in Found <=> r \in Selected(request) /\ (request.cursor # Missing => get_filter(request.cursor, r))
  BY SelectedFacts DEF Found
<1>4. Found \in SUBSET Selected(request)
  <2>1. Found \subseteq Table
    BY DEF Found
  <2> QED BY <1>3, <2>1
<1>5. ASSUME NEW k \in 1 .. LineLen PROVE Line(k) \in Found <=> k > j
  <2>1. CASE j = 0 /\ request.cursor = Missing
    BY <1>1, <1>3, <2>1
  <2>2. CASE j \in 1 .. LineLen /\ request.cursor = Link(keys, Line(j))
    <3>1. Line(j) \in CRow /\ Line(k) \in CRow /\ Complete(keys, Line(j)) /\ Complete(keys, Line(k))
      BY <1>1, <2>2, AllComplete
    <3>2. get_filter(Link(keys, Line(j)), Line(k)) <=> Before(keys, Line(j), Line(k))
      BY <1>1, <3>1, FilterBefore, BeforeFilter DEF Complete
    <3>3. request.cursor # Missing
      <4>1. Link(keys, Line(j)) \in Cursor
        BY <1>1, <3>1, LinkFacts DEF IsLink
      <4> QED BY <2>2, <4>1, CrudAssumption
    <3>4. Before(keys, Line(j), Line(k)) <=> j < k
      BY <1>1, <2>2
    <3> QED BY <1>1, <1>3, <2>2, <3>2, <3>3, <3>4
  <2> QED BY <2>1, <2>2 DEF At
<1>6. /\ Cardinality(Found) = LineLen - j
      /\ \A k \in 1 .. Cardinality(Found) : Sorted(keys, Found)[k] = Line(j + k)
  <2>1. IsTable(Selected(request))
    BY SelectedFacts
  <2>2. j \in 0 .. Cardinality(Selected(request))
    BY <1>2 DEF LineLen
  <2>3. \A k \in 1 .. Cardinality(Selected(request)) : Sorted(keys, Selected(request))[k] \in Found <=> k > j
    BY <1>5 DEF LineLen, Line
  <2>4. /\ Cardinality(Found) = Cardinality(Selected(request)) - j
        /\ \A k \in 1 .. Cardinality(Found) : Sorted(keys, Found)[k] = Sorted(keys, Selected(request))[j + k]
    <3> HIDE DEF keys
    <3> QED BY <1>1, <1>4, <2>1, <2>2, <2>3, SortedTail
  <2> QED BY <2>4 DEF LineLen, Line
<1>7. /\ run_query(request) \in Seq(Found)
      /\ \A k \in DOMAIN run_query(request) :
           k \in 1 .. Cardinality(Found) /\ run_query(request)[k] = Sorted(keys, Found)[k]
      /\ Len(run_query(request)) = IF request.size < Cardinality(Found)
                                   THEN request.size ELSE Cardinality(Found)
  BY PageFacts
<1> DEFINE R == run_query(request)
<1> HIDE DEF R, keys
<1>8. R \in Seq(Found) /\ Len(R) = e
  BY <1>6, <1>7 DEF R
<1>9. Found \subseteq CRow
  BY <1>4, SelectedFacts
<1>10. R \in Seq(CRow) /\ DOMAIN R = 1 .. e
  BY <1>8, <1>9
<1>11. request.size \in Nat
  BY DEF CrudTypeOK, CRequest
<1>12. ASSUME NEW k \in 1 .. e PROVE j + k \in 1 .. LineLen /\ R[k] = Line(j + k)
  <2>1. k \in 1 .. Cardinality(Found) /\ R[k] = Sorted(keys, Found)[k]
    BY <1>7, <1>10 DEF R
  <2>2. j + k \in 1 .. LineLen
    BY <1>1, <1>2, <1>6, <2>1
  <2> QED BY <1>6, <2>1, <2>2
<1> QED BY <1>2, <1>8, <1>10, <1>12 DEF R

\* The page of a link backwards are the last of the first j rows, if these are the
\* ones that it lets through.
LEMMA BackPage ==
  ASSUME CrudTypeOK, request # Missing, NEW b,
         b.size = request.size, b.offset = Missing, b.filter = request.filter,
         b.cursor # Missing, get_sort(b.cursor) = Opposite(Axes(request)), b.cursor.forward = FALSE,
         NEW j \in 0 .. LineLen, \A k \in 1 .. LineLen : get_filter(b.cursor, Line(k)) <=> k <= j,
         NEW e, e = IF request.size < j THEN request.size ELSE j
  PROVE  /\ e \in 0 .. j /\ run_query(b) \in Seq(CRow) /\ Len(run_query(b)) = e
         /\ \A k \in 1 .. e : run_query(b)[k] = Line(j - e + k)
<1> DEFINE keys == Axes(request)
<1>1. LineLen \in Nat /\ IsKeys(keys) /\ \A k \in 1 .. LineLen : Line(k) \in Selected(request) /\ Line(k) \in Table
  BY LineFacts
<1>2. b.cursor # Missing /\ get_sort(b.cursor) = Opposite(keys) /\ b.cursor.forward = FALSE
  OBVIOUS
<1>3. SortKeys(b) = Opposite(keys) /\ IsKeys(Opposite(keys))
  BY <1>1, <1>2, OppositeFacts DEF SortKeys
<1>4. Selected(b) = Selected(request)
  BY DEF Selected
<1>5. \A r \in Table : r \in Matching(b) <=> r \in Selected(request) /\ get_filter(b.cursor, r)
  BY <1>2, <1>4, SelectedFacts DEF Matching
<1>6. Matching(b) \in SUBSET Selected(request)
  <2>1. Matching(b) \subseteq Table
    BY DEF Matching
  <2> QED BY <1>5, <2>1
<1>7. /\ Cardinality(Matching(b)) = j
      /\ \A k \in 1 .. j : Sorted(Opposite(keys), Matching(b))[k] = Line(j + 1 - k)
  <2>1. IsTable(Selected(request)) /\ j \in 0 .. Cardinality(Selected(request))
    BY SelectedFacts DEF LineLen
  <2>2. \A k \in 1 .. LineLen : Line(k) \in Matching(b) <=> k <= j
    BY <1>1, <1>5
  <2>3. \A k \in 1 .. Cardinality(Selected(request)) : Sorted(keys, Selected(request))[k] \in Matching(b) <=> k <= j
    BY <2>2 DEF LineLen, Line
  <2> QED BY <1>1, <1>6, <2>1, <2>3, SortedBack DEF Line
<1> HIDE DEF keys
<1>8. request.size \in Nat
  BY DEF CrudTypeOK, CRequest
<1> DEFINE R == make_query_ops(b)
<1>9. /\ e \in Nat /\ e <= j /\ R \in Seq(CRow) /\ Len(R) = e
      /\ \A k \in 1 .. e : R[k] = Sorted(Opposite(keys), Matching(b))[k]
  BY <1>3, <1>7, <1>8, TakeFacts
<1>10. run_query(b) = Reverse(R)
  BY <1>2 DEF run_query
<1> HIDE DEF R
<1>11. \A k \in 1 .. e : R[k] = Line(j + 1 - k)
  BY <1>1, <1>7, <1>9
<1>12. Reverse(R) = [k \in 1 .. e |-> R[(e - k) + 1]]
  BY <1>9 DEF Reverse
<1>13. \A k \in 1 .. e : (e - k) + 1 \in 1 .. e /\ j + 1 - ((e - k) + 1) = j - e + k
  BY <1>1, <1>9
<1>14. \A k \in 1 .. e : R[(e - k) + 1] \in CRow
  BY <1>9, <1>13
<1>15. Reverse(R) \in Seq(CRow) /\ Len(Reverse(R)) = e
  <2>1. Reverse(R) \in Seq(CRow)
    <3> DEFINE at(k) == R[(e - k) + 1]
    <3>1. e \in Nat /\ \A k \in 1 .. e : at(k) \in CRow
      BY <1>9, <1>14
    <3>2. Reverse(R) = [k \in 1 .. e |-> at(k)]
      BY <1>12
    <3> HIDE DEF at
    <3>3. [k \in 1 .. e |-> at(k)] \in Seq(CRow)
      BY <3>1, IsASeq
    <3> QED BY <3>2, <3>3
  <2> QED BY <1>9, <1>12, <2>1
<1>16. \A k \in 1 .. e : Reverse(R)[k] = Line(j - e + k)
  <2> SUFFICES ASSUME NEW k \in 1 .. e PROVE Reverse(R)[k] = Line(j - e + k)
    OBVIOUS
  <2>1. Reverse(R)[k] = R[(e - k) + 1]
    BY <1>12
  <2>2. R[(e - k) + 1] = Line(j + 1 - ((e - k) + 1))
    BY <1>11, <1>13
  <2> QED BY <1>13, <2>1, <2>2
<1> QED BY <1>1, <1>9, <1>10, <1>15, <1>16

\* The prev_page of a page, or of the empty page behind the last.
LEMMA PrevFacts ==
  ASSUME CrudTypeOK, request # Missing, request.offset = Missing, NEW R \in Seq(CRow),
         NEW b, b = get_page(request, R, FALSE),
         NEW p \in CRow, request.cursor = Link(Axes(request), p)
  PROVE  /\ b.size = request.size /\ b.offset = Missing /\ b.filter = request.filter
         /\ R # << >> => b.cursor = Back(Axes(request), Head(R), FALSE)
         /\ R = << >> => b.cursor = Back(Axes(request), p, TRUE)
<1> DEFINE keys == Axes(request)
<1>1. IsForward(request) /\ IsKeys(keys)
  BY ForwardRequest, AxesFacts
<1>2. request \in CRequest
  BY <1>1 DEF IsForward
<1>3. \A c : LET u == make_page_url(request, c)
             IN u.cursor = c /\ u.size = request.size /\ u.offset = Missing /\ u.filter = request.filter
  BY <1>2 DEF make_page_url, CRequest
<1>4. CASE R # << >>
  <2>1. b = make_page_url(request, cursor_from_pivot(request, Head(R), FALSE))
    BY <1>4 DEF get_page
  <2>2. cursor_from_pivot(request, Head(R), FALSE) = Back(keys, Head(R), FALSE)
    BY DEF cursor_from_pivot, Back, Link
  <2> QED BY <1>3, <1>4, <2>1, <2>2
<1>5. CASE R = << >>
  <2>1. Link(keys, p) \in Cursor /\ Link(keys, p) # Missing
    <3>1. Link(keys, p) \in Cursor
      BY <1>1, LinkFacts DEF IsLink
    <3> QED BY <3>1, CrudAssumption
  <2>2. request.cursor # Missing /\ request.cursor.forward # FALSE
    BY <2>1 DEF Link
  <2>3. b = make_page_url(request, reversed(request.cursor))
    BY <1>5, <2>2 DEF get_page
  <2>4. reversed(Link(keys, p)) = Back(keys, p, TRUE)
    <3>1. \A c \in Cursor : /\ reversed(c).axes = c.axes /\ reversed(c).forward = ~c.forward
                            /\ reversed(c).inclusive = ~c.inclusive /\ DOMAIN reversed(c) = DOMAIN c
                            /\ reversed(c) = [f \in DOMAIN reversed(c) |-> reversed(c)[f]]
      BY DEF reversed, Cursor
    <3> DEFINE l == Link(keys, p)
    <3>2. l.forward = TRUE /\ l.inclusive = FALSE /\ DOMAIN l = {"axes", "forward", "inclusive"}
      BY DEF Link
    <3> HIDE DEF l
    <3>3. reversed(l) = [axes |-> l.axes, forward |-> FALSE, inclusive |-> TRUE]
      BY <2>1, <3>1, <3>2 DEF l
    <3> QED BY <3>3 DEF l, Back
  <2> QED BY <1>3, <1>5, <2>3, <2>4
<1> QED BY <1>4, <1>5

\* A page that is the end of the other.
LEMMA EndIsSuffix ==
  ASSUME NEW s \in Seq(CRow), NEW t \in Seq(CRow), Len(s) <= Len(t),
         \A k \in 1 .. Len(s) : s[k] = t[Len(t) - Len(s) + k]
  PROVE  IsSuffix(s, t)
<1> DEFINE m == Len(s)
           n == Len(t)
           S == Reverse(s)
           T == Reverse(t)
<1>1. m \in Nat /\ n \in Nat /\ m <= n
  OBVIOUS
<1>2. S = [i \in 1 .. m |-> s[(m - i) + 1]] /\ T = [i \in 1 .. n |-> t[(n - i) + 1]]
  BY DEF Reverse
<1>3. S \in Seq(CRow) /\ Len(S) = m
  <2> DEFINE at(i) == s[(m - i) + 1]
  <2>1. \A i \in 1 .. m : at(i) \in CRow
    BY <1>1
  <2>2. S = [i \in 1 .. m |-> at(i)]
    BY <1>2
  <2> HIDE DEF at, S, m
  <2>3. [i \in 1 .. m |-> at(i)] \in Seq(CRow)
    BY <1>1, <2>1, IsASeq
  <2> QED BY <1>1, <2>2, <2>3
<1>4. T \in Seq(CRow) /\ Len(T) = n
  <2> DEFINE at(i) == t[(n - i) + 1]
  <2>1. \A i \in 1 .. n : at(i) \in CRow
    BY <1>1
  <2>2. T = [i \in 1 .. n |-> at(i)]
    BY <1>2
  <2> HIDE DEF at, T, n
  <2>3. [i \in 1 .. n |-> at(i)] \in Seq(CRow)
    BY <1>1, <2>1, IsASeq
  <2> QED BY <1>1, <2>2, <2>3
<1>5. ASSUME NEW i \in 1 .. m PROVE S[i] = T[i]
  <2>1. (m - i) + 1 \in 1 .. m /\ n - m + ((m - i) + 1) = (n - i) + 1 /\ i \in 1 .. n
    BY <1>1
  <2>2. s[(m - i) + 1] = t[n - m + ((m - i) + 1)]
    BY <2>1
  <2> HIDE DEF m, n
  <2> QED BY <1>2, <2>1, <2>2
<1> HIDE DEF m, n, S, T
<1>6. SubSeq(S, 1, m) = SubSeq(T, 1, m)
  <2>1. /\ \A i \in 1 .. m : S[i] \in CRow /\ T[i] \in CRow
        /\ 1 \in Int /\ m \in Int
    BY <1>1, <1>3, <1>4
  <2>2. SubSeq(S, 1, m) = [i \in 1 .. m - 1 + 1 |-> S[1 + i - 1]] /\ SubSeq(T, 1, m) = [i \in 1 .. m - 1 + 1 |-> T[1 + i - 1]]
    BY <1>1 
  <2>3. \A i \in 1 .. m - 1 + 1 : 1 + i - 1 \in 1 .. m
    BY <1>1
  <2>4. \A i \in 1 .. m - 1 + 1 : S[1 + i - 1] = T[1 + i - 1]
    BY <1>5, <2>3
  <2> QED BY <2>2, <2>4
<1>7. IsPrefix(S, T)
  BY <1>1, <1>3, <1>4, <1>6 DEF IsPrefix
<1> QED BY <1>7 DEF IsSuffix, S, T

\* Where the client is, according to BackInv.
LEMMA PagePlace ==
  ASSUME CrudTypeOK, BackInv, WithoutNulls, request # Missing, ended = "no", request.offset = Missing,
         nwrites = 0, page # << >>
  PROVE  \E m \in Nat :
           /\ m + Len(page) \in 1 .. LineLen /\ Len(page) \in Nat /\ Len(page) >= 1
           /\ \A k \in 1 .. Len(page) : page[k] = Line(m + k)
           /\ request.cursor = Link(Axes(request), Line(m + Len(page)))
           /\ Len(page) = request.size \/ m + Len(page) = LineLen
           /\ Len(page) <= request.size
<1>1. page \in Seq(CRow) /\ Len(page) \in Nat /\ Len(page) >= 1 /\ DOMAIN page = 1 .. Len(page)
  BY DEF CrudTypeOK
<1>2. LineLen \in Nat
  BY LineFacts
<1>3. PICK m \in 0 .. LineLen - Len(page) :
        /\ \A k \in DOMAIN page : page[k] = Line(m + k)
        /\ \/ Len(page) = request.size
           \/ Len(page) < request.size /\ m + Len(page) = LineLen
  BY DEF BackInv, WithoutNulls, Line, LineLen
<1>4. request.cursor = cursor_from_pivot(request, Last(page), TRUE)
  BY DEF BackInv, WithoutNulls
<1>5. m \in Nat /\ m + Len(page) \in 1 .. LineLen
  BY <1>1, <1>2, <1>3
<1>6. Last(page) = Line(m + Len(page))
  BY <1>1, <1>3 DEF Last
<1>7. request.cursor = Link(Axes(request), Line(m + Len(page)))
  BY <1>4, <1>6 DEF cursor_from_pivot, Link
<1>8. Len(page) <= request.size
  <2>1. request.size \in Nat
    BY DEF CrudTypeOK, CRequest
  <2> QED BY <1>1, <1>3, <2>1
<1> QED BY <1>1, <1>3, <1>5, <1>7, <1>8

\* From the next page, prev_page leads back to the page.
LEMMA BackHolds ==
  ASSUME CrudTypeOK, BackInv
  PROVE  PrevUndoesNext
<1> DEFINE next == run_query(request)
           back == get_page(request, next, FALSE)
<1> SUFFICES ASSUME page # << >>, ended = "no", request.offset = Missing, nwrites = 0, WithoutNulls
             PROVE  IsSuffix(page, run_query(back)) /\ (next # << >> => run_query(back) = page)
  BY DEF PrevUndoesNext, WithoutNulls
<1>1. request # Missing /\ page \in Seq(CRow)
  BY DEF CrudTypeOK
<1> DEFINE L == Len(page)
<1>2. PICK m \in Nat :
        /\ m + L \in 1 .. LineLen /\ L \in Nat /\ L >= 1
        /\ \A k \in 1 .. L : page[k] = Line(m + k)
        /\ request.cursor = Link(Axes(request), Line(m + L))
        /\ L = request.size \/ m + L = LineLen
        /\ L <= request.size
  BY <1>1, PagePlace
<1> DEFINE j == m + L
           keys == Axes(request)
<1>3. /\ LineLen \in Nat /\ IsKeys(keys)
      /\ \A k \in 1 .. LineLen : Line(k) \in Table /\ Line(k) \in CRow
      /\ \A k, l \in 1 .. LineLen : Before(keys, Line(k), Line(l)) <=> k < l
  BY <1>1, LineFacts
<1>4. \A k \in 1 .. LineLen : Complete(keys, Line(k))
  BY <1>3, AllComplete
<1>5. request.size \in Nat
  BY <1>1 DEF CrudTypeOK, CRequest
<1> DEFINE d == IF request.size < LineLen - j THEN request.size ELSE LineLen - j
<1>6. /\ next \in Seq(CRow) /\ Len(next) = d
      /\ \A k \in 1 .. d : j + k \in 1 .. LineLen /\ next[k] = Line(j + k)
  <2>1. At(j)
    BY <1>2 DEF At
  <2> HIDE DEF j
  <2> QED BY <1>1, <2>1, NextPage
<1>7. /\ back.size = request.size /\ back.offset = Missing /\ back.filter = request.filter
      /\ next # << >> => back.cursor = Back(keys, Head(next), FALSE)
      /\ next = << >> => back.cursor = Back(keys, Line(j), TRUE)
  <2>1. Line(j) \in CRow /\ request.cursor = Link(keys, Line(j))
    BY <1>2, <1>3
  <2> HIDE DEF j, next, keys
  <2> QED BY <1>1, <1>6, <2>1, PrevFacts DEF keys
<1> HIDE DEF next, back, keys
<1>8. CASE next # << >>
  <2>1. d \in Nat /\ d >= 1 /\ L = request.size
    BY <1>2, <1>3, <1>5, <1>6, <1>8
  <2>2. Head(next) = Line(j + 1) /\ j + 1 \in 1 .. LineLen
    <3>1. 1 \in 1 .. d
      BY <2>1
    <3>2. Head(next) = next[1]
      BY <1>6, <1>8
    <3> QED BY <1>6, <3>1, <3>2
  <2>3. back.cursor = Back(keys, Line(j + 1), FALSE)
    BY <1>7, <1>8, <2>2
  <2>4. \A k \in 1 .. LineLen : get_filter(back.cursor, Line(k)) <=> k <= j
    <3> SUFFICES ASSUME NEW k \in 1 .. LineLen PROVE get_filter(back.cursor, Line(k)) <=> k <= j
      OBVIOUS
    <3>1. get_filter(back.cursor, Line(k)) <=> Before(keys, Line(k), Line(j + 1))
      BY <1>3, <1>4, <2>2, <2>3, BackFilter
    <3>2. Before(keys, Line(k), Line(j + 1)) <=> k < j + 1
      BY <1>3, <2>2
    <3>3. k < j + 1 <=> k <= j
      BY <1>2, <1>3
    <3> QED BY <3>1, <3>2, <3>3
  <2>5. j \in 0 .. LineLen /\ L = (IF request.size < j THEN request.size ELSE j) /\ j - L = m
    BY <1>2, <1>3, <1>5, <2>1
  <2>6. Line(j + 1) \in CRow /\ FALSE \in BOOLEAN
    BY <1>3, <2>2
  <2> DEFINE P == run_query(back)
  <2>7. /\ P \in Seq(CRow) /\ Len(P) = L
        /\ \A k \in 1 .. L : P[k] = Line(j - L + k)
    <3>0. /\ back.cursor # Missing /\ back.cursor.forward = FALSE
          /\ get_sort(back.cursor) = Opposite(Axes(request))
      BY <1>3, <2>3, <2>6, BackFacts DEF keys
    <3>2. back.size = request.size /\ back.offset = Missing /\ back.filter = request.filter
      BY <1>7
    <3> HIDE DEF j, L, P
    <3>3. /\ run_query(back) \in Seq(CRow) /\ Len(run_query(back)) = L
          /\ \A k \in 1 .. L : run_query(back)[k] = Line(j - L + k)
      BY <1>1, <2>4, <2>5, <3>0, <3>2, BackPage
    <3> QED BY <3>3 DEF P
  <2> HIDE DEF P
  <2>8. \A k \in 1 .. L : P[k] = page[k]
    BY <1>2, <2>5, <2>7
  <2>9. P = page
    BY <1>1, <2>7, <2>8, SeqEqual
  <2>10. IsSuffix(page, P)
    <3>1. \A k \in 1 .. L : L - L + k = k
      BY <1>2
    <3>2. \A k \in 1 .. L : page[k] = P[Len(P) - Len(page) + k]
      BY <2>7, <2>8, <3>1
    <3>3. Len(page) <= Len(P)
      BY <1>2, <2>7
    <3> QED BY <1>1, <2>7, <3>2, <3>3, EndIsSuffix
  <2> QED BY <2>9, <2>10 DEF P
<1>9. CASE next = << >>
  <2>1. d = 0 /\ j = LineLen
    <3>1. d = 0
      BY <1>6, <1>9
    <3> QED BY <1>2, <1>3, <1>5, <3>1
  <2>2. back.cursor = Back(keys, Line(j), TRUE) /\ j \in 1 .. LineLen /\ Line(j) \in CRow
    BY <1>2, <1>3, <1>7, <1>9
  <2>3. \A k \in 1 .. LineLen : get_filter(back.cursor, Line(k)) <=> k <= j
    <3> SUFFICES ASSUME NEW k \in 1 .. LineLen PROVE get_filter(back.cursor, Line(k)) /\ k <= j
      OBVIOUS
    <3>1. k <= j /\ (k = j \/ k < j)
      BY <1>3, <2>1
    <3>2. Line(k) = Line(j) \/ Before(keys, Line(k), Line(j))
      BY <1>3, <2>2, <3>1
    <3> QED BY <1>3, <1>4, <2>2, <3>1, <3>2, BackFilter
  <2> DEFINE e == IF request.size < j THEN request.size ELSE j
             P == run_query(back)
  <2>4. j \in 0 .. LineLen /\ TRUE \in BOOLEAN
    BY <1>3, <2>2
  <2>5. /\ e \in 0 .. j /\ P \in Seq(CRow) /\ Len(P) = e
        /\ \A k \in 1 .. e : P[k] = Line(j - e + k)
    <3>0. /\ back.cursor # Missing /\ back.cursor.forward = FALSE
          /\ get_sort(back.cursor) = Opposite(Axes(request))
      BY <1>3, <2>2, BackFacts DEF keys
    <3>2. back.size = request.size /\ back.offset = Missing /\ back.filter = request.filter
      BY <1>7
    <3>3. e = IF request.size < j THEN request.size ELSE j
      OBVIOUS
    <3> HIDE DEF j, e, P
    <3>4. /\ e \in 0 .. j /\ run_query(back) \in Seq(CRow) /\ Len(run_query(back)) = e
          /\ \A k \in 1 .. e : run_query(back)[k] = Line(j - e + k)
      BY <1>1, <2>3, <2>4, <3>0, <3>2, <3>3, BackPage
    <3> QED BY <3>4 DEF P
  <2>7. L <= e
    BY <1>2, <1>5
  <2> HIDE DEF P
  <2>8. ASSUME NEW k \in 1 .. L PROVE page[k] = P[e - L + k]
    <3>1. e - L + k \in 1 .. e /\ j - e + (e - L + k) = m + k
      BY <1>2, <1>5, <2>5, <2>7
    <3> HIDE DEF e, j, L
    <3> QED BY <1>2, <2>5, <2>8, <3>1
  <2>9. IsSuffix(page, P)
    <3> HIDE DEF e, j
    <3> QED BY <1>1, <2>5, <2>7, <2>8, EndIsSuffix
  <2> QED BY <1>9, <2>9 DEF P
<1> QED BY <1>8, <1>9

\* The step of the client keeps BackInv: it moves to the end of the page it gets.
LEMMA BackStep ==
  ASSUME CrudTypeOK, BackInv, getAll
  PROVE  BackInv'
<1> DEFINE R == run_query(request)
           next == get_page(request, R, TRUE)
           e == Len(R)
           n == Cardinality(Selected(request)')
<1>1. /\ request # Missing /\ ended = "no" /\ page' = R
      /\ ended' = IF next = Missing THEN "end" ELSE "no"
      /\ request' = IF next = Missing THEN request ELSE next
      /\ UNCHANGED <<rows, nwrites>>
  BY DEF getAll
<1>2. Table' = Table
  BY <1>1 DEF Table
<1>3. cursor_from_pivot(request, Last(page), TRUE)' = Link(Axes(request)', R[e])
  BY <1>1 DEF cursor_from_pivot, Link, Last
<1> SUFFICES ASSUME ended' = "no", request'.offset = Missing, nwrites = 0, WithoutNulls
             PROVE  /\ R # << >> /\ request'.cursor = Link(Axes(request)', R[e])
                    /\ \E m \in 0 .. n - e :
                         /\ \A k \in DOMAIN R : R[k] = Sorted(Axes(request)', Selected(request)')[m + k]
                         /\ e = request'.size \/ (e < request'.size /\ m + e = n)
  <2>1. (\A r \in Table : r.a # Missing)' <=> WithoutNulls
    BY <1>2 DEF WithoutNulls
  <2> HIDE DEF R, next
  <2> QED BY <1>1, <1>3, <2>1 DEF BackInv
<1>4. next # Missing /\ request' = next
  BY <1>1
<1>5. R \in Seq(CRow)
  <2>1. R \in Seq(Found) /\ \A r \in Found : r \in CRow
    BY <1>1, PageFacts, FoundFacts
  <2> HIDE DEF R
  <2> QED BY <2>1
<1>6. IsForward(request)
  BY <1>1, ForwardRequest
<1>7. R # << >> /\ Follows(next, request, R[e])
  <2> HIDE DEF R
  <2> QED BY <1>4, <1>5, <1>6, NextFacts
<1> HIDE DEF R, next
<1>8. Axes(request)' = Axes(request)
  <2>1. Axes(request)' = Axes(next)
    BY <1>4 DEF Axes, ensure_sort_by_id
  <2> QED BY <1>7, <2>1 DEF Follows
<1>9. Selected(request)' = Selected(request)
  <2>1. request'.filter = request.filter
    BY <1>4, <1>7 DEF Follows
  <2> QED BY <1>2, <2>1 DEF Selected
<1>10. /\ request'.cursor = Link(Axes(request)', R[e])
       /\ request.offset = Missing /\ request'.size = request.size
  BY <1>4, <1>7, <1>8 DEF Follows
<1>11. \E j \in Nat : At(j)
  <2>1. CASE page = << >>
    BY <1>1, <1>10, <2>1 DEF BackInv, At, WithoutNulls
  <2>2. CASE page # << >>
    <3>1. PICK m \in Nat : /\ m + Len(page) \in 1 .. LineLen
                           /\ request.cursor = Link(Axes(request), Line(m + Len(page)))
      BY <1>1, <1>10, <2>2, PagePlace
    <3>2. LineLen \in Nat
      BY <1>1, LineFacts
    <3> QED BY <3>1, <3>2 DEF At
  <2> QED BY <2>1, <2>2
<1>12. PICK j \in Nat : At(j)
  BY <1>11
<1>13. /\ j \in 0 .. LineLen /\ e = IF request.size < LineLen - j THEN request.size ELSE LineLen - j
       /\ \A k \in 1 .. e : R[k] = Line(j + k)
  BY <1>1, <1>10, <1>12, NextPage DEF R
<1>14. LineLen \in Nat /\ request.size \in Nat
  BY <1>1, LineFacts DEF CrudTypeOK, CRequest
<1>15. n = LineLen
  BY <1>9 DEF LineLen
<1>16. /\ j \in 0 .. n - e
       /\ e = request.size \/ (e < request.size /\ j + e = n)
  <2> HIDE DEF n, e
  <2> QED BY <1>13, <1>14, <1>15
<1>17. \A k \in DOMAIN R : R[k] = Sorted(Axes(request)', Selected(request)')[j + k]
  <2>1. DOMAIN R = 1 .. e
    BY <1>5
  <2> QED BY <1>8, <1>9, <1>13, <2>1 DEF Line
<1> QED BY <1>7, <1>10, <1>16, <1>17

\* A write of another client, or the end of the walk, takes BackInv's condition away.
LEMMA BackGone ==
  ASSUME request' = Missing \/ ended' # "no" \/ nwrites' # 0
  PROVE  BackInv'
BY DEF BackInv

\* A step that leaves the table and the client as they are.
LEMMA BackKept ==
  ASSUME BackInv, UNCHANGED <<rows, request, page, ended, nwrites>>
  PROVE  BackInv'
<1>1. Table' = Table /\ Axes(request)' = Axes(request)
  BY DEF Table, Axes
<1>2. Selected(request)' = Selected(request)
  BY <1>1 DEF Selected
<1>3. cursor_from_pivot(request, Last(page), TRUE)' = cursor_from_pivot(request, Last(page), TRUE)
  BY <1>1 DEF cursor_from_pivot
<1> QED BY <1>1, <1>2, <1>3 DEF BackInv

-----------------------------------------------------------------------------
(* The other clients                                                       *)

\* A row from its fields.
LEMMA IsRow ==
  ASSUME NEW r, DOMAIN r = {"id", "a", "b"}, r = [f \in DOMAIN r |-> r[f]],
         r["id"] \in CIds, r["a"] \in Num, r["b"] \in Num
  PROVE  r \in CRow
BY DEF CRow

\* Fields that may be assigned to a row.
FitsRow(e) ==
  /\ DOMAIN e \subseteq {"id", "a", "b"}
  /\ "id" \in DOMAIN e => e["id"] \in CIds \cup {Missing}
  /\ \A f \in DOMAIN e \ {"id"} : e[f] \in Num

\* What a row has after an assignment.
LEMMA MergeFacts ==
  ASSUME NEW row \in CRow, NEW e, FitsRow(e)
  PROVE  /\ MergeInto(row, e) \in HeldRow
         /\ MergeInto(row, e).id = IF "id" \in DOMAIN e THEN e.id ELSE row.id
<1> DEFINE m == MergeInto(row, e)
<1>1. DOMAIN row = {"id", "a", "b"} /\ row["a"] \in Num /\ row["b"] \in Num /\ row["id"] \in CIds
  BY DEF CRow
<1>2. /\ DOMAIN m = {"id", "a", "b"} /\ m = [f \in DOMAIN m |-> m[f]]
      /\ \A f \in {"id", "a", "b"} : m[f] = IF f \in DOMAIN e THEN e[f] ELSE row[f]
  BY <1>1 DEF MergeInto
<1> HIDE DEF m
<1>3. m["id"] \in CIds \cup {Missing} /\ m["a"] \in Num /\ m["b"] \in Num
  BY <1>1, <1>2 DEF FitsRow
<1>4. m \in HeldRow
  BY <1>2, <1>3 DEF HeldRow
<1> QED BY <1>2, <1>4 DEF m

\* What is saved is a row with its id.
LEMMA SavedFacts ==
  ASSUME CrudTypeOK, NEW i \in CIds, NEW e, FitsRow(e)
  PROVE  Saved(i, e) \in CRow /\ Saved(i, e).id = i
<1> DEFINE old == IF rows[i] = Missing THEN NoRow(i) ELSE rows[i]
           m == MergeInto(old, e)
<1>1. NoRow(i) \in CRow
  BY DEF NoRow, CRow, Num
<1>2. rows[i] # Missing => rows[i] \in CRow
  BY DEF CrudTypeOK
<1>3. old \in CRow
  BY <1>1, <1>2
<1>4. m \in HeldRow
  BY <1>3, MergeFacts
<1>5. Saved(i, e) = [m EXCEPT !.id = i]
  BY DEF Saved
<1> HIDE DEF m
<1> QED BY <1>4, <1>5 DEF HeldRow, CRow

\* A body can be assigned to any row.
LEMMA PayloadFits ==
  ASSUME NEW body \in CPayloads
  PROVE  FitsRow(body)
BY CrudAssumption DEF FitsRow

\* The keys of rows that stay decide whether they are behind a link.
LEMMA FilterSame ==
  ASSUME NEW c, IsLink(c), NEW r, NEW s, \A f \in SortField : r[f] = s[f]
  PROVE  get_filter(c, r) <=> get_filter(c, s)
<1>1. DOMAIN c.axes = 1 .. Len(c.axes) /\ Len(c.axes) \in Nat
  BY AxisFacts
<1>2. \A k \in DOMAIN c.axes : r[c.axes[k].field] = s[c.axes[k].field]
  BY AxisFacts
<1>3. \A k \in DOMAIN c.axes : /\ Behind(c.axes[k], r) <=> Behind(c.axes[k], s)
                               /\ Equals(c.axes[k], r) <=> Equals(c.axes[k], s)
  BY <1>2 DEF Behind, Equals
<1>4. \A i \in DOMAIN c.axes : \A k \in 1 .. i - 1 : k \in DOMAIN c.axes
  BY <1>1
<1> QED BY <1>3, <1>4, FilterFacts

\* WalkInv is about what the client has and the keys of the rows that stay.
LEMMA WalkKept ==
  ASSUME CrudTypeOK, WalkInv, UNCHANGED <<request, seen, ended>>, stayed' \subseteq stayed,
         \A i \in stayed' : \A f \in SortField : rows'[i][f] = rows[i][f]
  PROVE  WalkInv'
<1> SUFFICES ASSUME request # Missing, request.offset = Missing, Usable(request), NEW i \in stayed'
             PROVE  /\ \A k, l \in DOMAIN seen : seen[k] = i /\ seen[l] = i => k = l
                    /\ \A k \in DOMAIN seen : seen[k] = i =>
                         request.cursor # Missing /\ ~get_filter(request.cursor, rows'[i])
                    /\ request.size > 0 /\ Wanted(i)' =>
                         \/ \E k \in DOMAIN seen : seen[k] = i
                         \/ ended = "no" /\ (request.cursor # Missing => get_filter(request.cursor, rows'[i]))
  BY DEF WalkInv, Usable
<1>1. IsForward(request) /\ IsKeys(Axes(request))
  BY ForwardRequest, AxesFacts
<1>2. i \in stayed /\ \A f \in SortField : rows'[i][f] = rows[i][f]
  OBVIOUS
<1>3. request.cursor # Missing => (get_filter(request.cursor, rows'[i]) <=> get_filter(request.cursor, rows[i]))
  BY <1>1, <1>2, FilterSame DEF IsForward
<1>4. Wanted(i)' => Wanted(i)
  <2>1. \A k \in DOMAIN Axes(request) : Axes(request)[k].field \in SortField
    <3>1. \A key \in SortKey : key.field \in SortField
      BY DEF SortKey
    <3>2. \A k \in DOMAIN Axes(request) : Axes(request)[k] \in SortKey
      BY <1>1 DEF IsKeys
    <3> QED BY <3>1, <3>2
  <2>2. request.filter # Missing => request.filter.field \in SortField
    BY <1>1 DEF IsForward, CRequest, CFilter
  <2>3. Axes(request)' = Axes(request)
    BY DEF Axes
  <2>4. (\A k \in DOMAIN Axes(request) : rows'[i][Axes(request)[k].field] # Missing)
          => \A k \in DOMAIN Axes(request) : rows[i][Axes(request)[k].field] # Missing
    BY <1>2, <2>1
  <2>5. request.filter # Missing =>
          (filter_from_param(request.filter, rows'[i]) <=> filter_from_param(request.filter, rows[i]))
    BY <1>2, <2>2 DEF filter_from_param
  <2>6. Wanted(i)' => /\ \A k \in DOMAIN Axes(request) : rows'[i][Axes(request)[k].field] # Missing
                      /\ request.filter # Missing => filter_from_param(request.filter, rows'[i])
    BY <2>3 DEF Wanted
  <2> QED BY <2>4, <2>5, <2>6 DEF Wanted
<1>5. /\ \A k, l \in DOMAIN seen : seen[k] = i /\ seen[l] = i => k = l
      /\ \A k \in DOMAIN seen : seen[k] = i =>
           request.cursor # Missing /\ ~get_filter(request.cursor, rows[i])
      /\ request.size > 0 /\ Wanted(i) =>
           \/ \E k \in DOMAIN seen : seen[k] = i
           \/ ended = "no" /\ (request.cursor # Missing => get_filter(request.cursor, rows[i]))
  BY <1>2 DEF WalkInv
<1> QED BY <1>3, <1>4, <1>5

\* A request of another client that writes the row with id i.
LEMMA RowWritten ==
  ASSUME CrudTypeOK, WalkInv, NEW i \in CIds, NEW row, row = Missing \/ (row \in CRow /\ row.id = i),
         Write(i, row), request # Missing, patching' = patching \/ patching' = << >>
  PROVE  CrudTypeOK' /\ WalkInv' /\ BackInv'
<1>1. /\ rows' = [rows EXCEPT ![i] = row]
      /\ stayed' = IF rows[i] # Missing /\ row # Missing /\ rows[i].a = row.a THEN stayed ELSE stayed \ {i}
      /\ UNCHANGED <<request, page, seen, ended>> /\ nwrites' = nwrites + 1
  BY DEF Write
<1>2. /\ rows \in [CIds -> CRow \cup {Missing}] /\ stayed \subseteq {j \in CIds : rows[j] # Missing}
      /\ \A j \in CIds : rows[j] # Missing => rows[j].id = j
  BY DEF CrudTypeOK
<1>3. /\ rows' \in [CIds -> CRow \cup {Missing}]
      /\ rows'[i] = row /\ \A j \in CIds : j # i => rows'[j] = rows[j]
  BY <1>1, <1>2
<1>4. \A j \in CIds : rows'[j] # Missing => rows'[j].id = j
  BY <1>2, <1>3
<1>5. stayed' \subseteq stayed /\ (i \in stayed' => rows[i] # Missing /\ row # Missing /\ rows[i].a = row.a)
  BY <1>1
<1>6. stayed' \subseteq {j \in CIds : rows'[j] # Missing}
  BY <1>2, <1>3, <1>5
<1>7. \A j \in stayed' : \A f \in SortField : rows'[j][f] = rows[j][f]
  <2> SUFFICES ASSUME NEW j \in stayed', j = i PROVE row["id"] = rows[i]["id"] /\ row["a"] = rows[i]["a"]
    BY <1>2, <1>3, <1>5 DEF SortField
  <2> QED BY <1>2, <1>5
<1>8. CrudTypeOK'
  <2>1. patching' # << >> =>
          /\ Head(patching').id \in CIds /\ Head(patching').row \in HeldRow
          /\ Head(patching').row.id = PatchTarget(Head(patching'))
    BY DEF CrudTypeOK
  <2>2. Usable(request)' = Usable(request)
    BY <1>1 DEF Usable
  <2>3. /\ seen \in Seq(CIds) /\ page \in Seq(CRow) /\ nwrites \in Nat /\ request \in CRequest \cup {Missing}
        /\ request # Missing /\ request.cursor # Missing =>
             /\ request.cursor.forward /\ ~request.cursor.inclusive
             /\ \E k \in DOMAIN request.cursor.axes : request.cursor.axes[k].field = "id"
        /\ ended = "end" => Usable(request)
    BY DEF CrudTypeOK
  <2> QED BY <1>1, <1>3, <1>4, <1>6, <2>1, <2>2, <2>3 DEF CrudTypeOK
<1>9. WalkInv'
  BY <1>1, <1>5, <1>7, WalkKept
<1>10. BackInv'
  <2>1. nwrites' # 0
    BY <1>1 DEF CrudTypeOK
  <2> QED BY <2>1, BackGone
<1> QED BY <1>8, <1>9, <1>10

\* The requests of the client keep the types.
LEMMA ClientTypes ==
  ASSUME CrudTypeOK, \/ \E t \in CRows : c_setup(t)
                     \/ \E q \in CRequests : get_first(q)
                     \/ getAll \/ getAll_err \/ c_done
  PROVE  CrudTypeOK'
<1>1. ASSUME NEW t \in CRows, c_setup(t) PROVE CrudTypeOK'
  <2>1. t \in [CIds -> CRow \cup {Missing}] /\ \A i \in CIds : t[i] # Missing => t[i].id = i
    BY CrudAssumption
  <2>2. request = Missing /\ rows' = t /\ UNCHANGED <<request, page, seen, stayed, ended, patching, nwrites>>
    BY <1>1 DEF c_setup
  <2>3. stayed = {}
    <3>1. Table = {} /\ \A i \in stayed : i \in CIds /\ rows[i] # Missing
      BY <1>1 DEF c_setup, CrudTypeOK
    <3> QED BY <3>1 DEF Table
  <2>4. /\ seen = << >> /\ page = << >> /\ patching = << >> /\ ended = "no"
        /\ seen \in Seq(CIds) /\ page \in Seq(CRow) /\ nwrites \in Nat
    BY <2>2 DEF CrudTypeOK
  <2> QED BY <2>1, <2>2, <2>3, <2>4 DEF CrudTypeOK
<1>2. ASSUME NEW q \in CRequests, get_first(q) PROVE CrudTypeOK'
  <2>1. q \in CRequest /\ q.cursor = Missing /\ q # Missing
    BY CrudAssumption
  <2>2. /\ request = Missing /\ request' = q /\ stayed' = {i \in CIds : rows[i] # Missing}
        /\ UNCHANGED <<rows, page, seen, ended, patching, nwrites>>
    BY <1>2 DEF get_first
  <2>3. /\ seen = << >> /\ page = << >> /\ patching = << >> /\ ended = "no"
        /\ seen \in Seq(CIds) /\ page \in Seq(CRow) /\ nwrites \in Nat
    BY <2>2 DEF CrudTypeOK
  <2> QED BY <2>1, <2>2, <2>3 DEF CrudTypeOK
<1>3. CASE getAll
  <2> DEFINE R == run_query(request)
             next == get_page(request, R, TRUE)
  <2>1. /\ request # Missing /\ Usable(request)
        /\ UNCHANGED <<rows, stayed, patching, nwrites>> /\ page' = R
        /\ seen' = seen \o [k \in DOMAIN R |-> R[k].id]
        /\ ended' = IF next = Missing THEN "end" ELSE "no"
        /\ request' = IF next = Missing THEN request ELSE next
    BY <1>3 DEF getAll
  <2>2. IsForward(request)
    BY <2>1, ForwardRequest
  <2>3. R \in Seq(CRow) /\ \A k \in DOMAIN R : R[k].id \in CIds
    <3>1. R \in Seq(Found)
      BY <2>1, PageFacts
    <3>2. \A r \in Found : r \in CRow /\ r.id \in CIds
      BY FoundFacts
    <3> HIDE DEF R
    <3>3. \A k \in DOMAIN R : R[k] \in Found
      BY <3>1
    <3> QED BY <3>1, <3>2, <3>3
  <2> HIDE DEF R
  <2>4. seen' \in Seq(CIds)
    BY <2>1, <2>3, SeenFacts
  <2>5. next = Missing \/ IsForward(next)
    BY <2>2, <2>3, NextFacts DEF Follows
  <2> HIDE DEF next
  <2>6. request' # Missing /\ IsForward(request') /\ (ended' = "end" => request' = request)
    BY <2>1, <2>2, <2>5
  <2>7. ended' = "end" => Usable(request)'
    BY <2>1, <2>6 DEF Usable
  <2>8. request' \in CRequest /\ (request'.cursor # Missing => IsLink(request'.cursor))
    BY <2>6 DEF IsForward
  <2>9. /\ rows \in [CIds -> CRow \cup {Missing}]
        /\ \A i \in CIds : rows[i] # Missing => rows[i].id = i
        /\ stayed \subseteq {i \in CIds : rows[i] # Missing} /\ nwrites \in Nat
        /\ patching # << >> =>
             /\ Head(patching).id \in CIds /\ Head(patching).row \in HeldRow
             /\ Head(patching).row.id = PatchTarget(Head(patching))
    BY DEF CrudTypeOK
  <2> QED BY <2>1, <2>3, <2>4, <2>6, <2>7, <2>8, <2>9 DEF CrudTypeOK, IsLink
<1>4. CASE getAll_err
  <2>1. request # Missing /\ ended' = "error" /\ UNCHANGED <<rows, request, page, seen, stayed, patching, nwrites>>
    BY <1>4 DEF getAll_err
  <2> QED BY <2>1 DEF CrudTypeOK
<1>5. CASE c_done
  BY <1>5 DEF c_done, CrudTypeOK
<1> QED BY <1>1, <1>2, <1>3, <1>4, <1>5

\* Every step keeps CrudInv.
LEMMA CrudInvStep ==
  ASSUME CrudTypeOK, WalkInv, PatchInv, BackInv, [CNext]_cVars
  PROVE  CrudTypeOK' /\ WalkInv' /\ BackInv'
<1>1. ASSUME NEW t \in CRows, c_setup(t) PROVE CrudTypeOK' /\ WalkInv' /\ BackInv'
  <2>1. request' = Missing
    BY <1>1 DEF c_setup
  <2> QED BY <1>1, <2>1, ClientTypes, BackGone DEF WalkInv
<1>2. ASSUME NEW q \in CRequests, get_first(q) PROVE CrudTypeOK' /\ WalkInv' /\ BackInv'
  <2>1. request = Missing /\ request' = q /\ UNCHANGED <<page, seen, ended>> /\ q.cursor = Missing
    BY <1>2, CrudAssumption DEF get_first
  <2>2. seen = << >> /\ page = << >> /\ ended = "no"
    BY <2>1 DEF CrudTypeOK
  <2>3. WalkInv'
    BY <2>1, <2>2 DEF WalkInv
  <2>4. BackInv'
    BY <2>1, <2>2 DEF BackInv
  <2> QED BY <1>2, <2>3, <2>4, ClientTypes
<1>3. CASE getAll
  BY <1>3, ClientTypes, PageStep, BackStep
<1>4. CASE getAll_err
  <2>1. UNCHANGED <<rows, request, stayed>> /\ ~Usable(request) /\ ended' = "error"
    BY <1>4 DEF getAll_err
  <2>2. ~Usable(request)'
    BY <2>1 DEF Usable
  <2>3. WalkInv'
    BY <2>2 DEF WalkInv
  <2>4. BackInv'
    BY <2>1, BackGone
  <2> QED BY <1>4, <2>3, <2>4, ClientTypes
<1>5. CASE c_done
  <2>1. request' = Missing
    BY <1>5 DEF c_done
  <2> QED BY <1>5, <2>1, ClientTypes, BackGone DEF WalkInv
<1>6. CASE patch_save
  <2> DEFINE p == Head(patching)
             t == p.row.id
             entity == [f \in {f \in DOMAIN p.row : p.row[f] # Missing \/ f \in DOMAIN p.body} |-> p.row[f]]
  <2>1. patching # << >> /\ t # Missing /\ Write(t, Saved(t, entity)) /\ patching' = << >>
    BY <1>6 DEF patch_save
  <2>2. request # Missing /\ p.row \in HeldRow
    BY <2>1 DEF CrudTypeOK
  <2>3. /\ DOMAIN p.row = {"id", "a", "b"} /\ p.row["a"] \in Num /\ p.row["b"] \in Num
        /\ p.row["id"] \in CIds \cup {Missing} /\ t \in CIds
    BY <2>1, <2>2 DEF HeldRow
  <2>4. FitsRow(entity)
    <3>1. DOMAIN entity \subseteq DOMAIN p.row /\ \A f \in DOMAIN entity : entity[f] = p.row[f]
      OBVIOUS
    <3> HIDE DEF entity, p
    <3> QED BY <2>3, <3>1 DEF FitsRow
  <2> HIDE DEF entity, p, t
  <2>5. Saved(t, entity) \in CRow /\ Saved(t, entity).id = t
    BY <2>3, <2>4, SavedFacts
  <2> QED BY <2>1, <2>2, <2>3, <2>5, RowWritten
<1>7. ASSUME request # Missing, NEW i \in CIds, deleteOne(i) PROVE CrudTypeOK' /\ WalkInv' /\ BackInv'
  BY <1>7, RowWritten DEF deleteOne
<1>8. ASSUME request # Missing, NEW i \in CIds, NEW body \in CPayloads, post(i, body) \/ put(i, body)
      PROVE  CrudTypeOK' /\ WalkInv' /\ BackInv'
  <2>1. Write(i, Saved(i, body)) /\ UNCHANGED patching
    BY <1>8 DEF post, put
  <2>2. Saved(i, body) \in CRow /\ Saved(i, body).id = i
    BY SavedFacts, PayloadFits
  <2> QED BY <1>8, <2>1, <2>2, RowWritten
<1>9. ASSUME request # Missing, NEW i \in CIds, NEW body \in CPayloads, patch_read(i, body)
      PROVE  CrudTypeOK' /\ WalkInv' /\ BackInv'
  <2>1. /\ rows[i] # Missing /\ UNCHANGED <<rows, request, page, seen, stayed, ended, nwrites>>
        /\ patching' = <<[id |-> i, body |-> body, row |-> MergeInto(rows[i], body)]>>
    BY <1>9 DEF patch_read
  <2>2. rows[i] \in CRow /\ rows[i].id = i
    BY <2>1 DEF CrudTypeOK
  <2>3. /\ MergeInto(rows[i], body) \in HeldRow
        /\ MergeInto(rows[i], body).id = IF "id" \in DOMAIN body THEN body.id ELSE i
    BY <2>2, MergeFacts, PayloadFits
  <2>4. /\ Head(patching').id = i /\ Head(patching').row \in HeldRow
        /\ Head(patching').row.id = PatchTarget(Head(patching'))
    BY <2>1, <2>3 DEF PatchTarget
  <2>5. Usable(request)' = Usable(request)
    BY <2>1 DEF Usable
  <2>6. CrudTypeOK'
    BY <1>9, <2>1, <2>4, <2>5 DEF CrudTypeOK
  <2>7. WalkInv'
    BY <2>1, WalkKept
  <2>8. BackInv'
    BY <2>1, BackKept
  <2> QED BY <2>6, <2>7, <2>8
<1>10. ASSUME request # Missing, NEW f, deleteAll(f)
       PROVE  CrudTypeOK' /\ WalkInv' /\ BackInv'
  <2>1. PICK gone \in SUBSET CIds : /\ rows' = [i \in CIds |-> IF i \in gone THEN Missing ELSE rows[i]]
                                    /\ stayed' = stayed \ gone
    BY <1>10 DEF deleteAll
  <2>2. UNCHANGED <<request, page, seen, ended, patching>> /\ nwrites' = nwrites + 1 /\ nwrites \in Nat
    BY <1>10 DEF deleteAll, CrudTypeOK
  <2>3. /\ rows \in [CIds -> CRow \cup {Missing}] /\ stayed \subseteq {i \in CIds : rows[i] # Missing}
        /\ \A i \in CIds : rows[i] # Missing => rows[i].id = i
    BY DEF CrudTypeOK
  <2>4. /\ rows' \in [CIds -> CRow \cup {Missing}]
        /\ \A i \in CIds : rows'[i] # Missing => rows'[i].id = i
        /\ stayed' \subseteq {i \in CIds : rows'[i] # Missing}
        /\ stayed' \subseteq stayed /\ \A i \in stayed' : rows'[i] = rows[i]
    BY <2>1, <2>3
  <2>5. Usable(request)' = Usable(request)
    BY <2>2 DEF Usable
  <2>6. CrudTypeOK'
    BY <1>10, <2>2, <2>4, <2>5 DEF CrudTypeOK
  <2>7. WalkInv'
    BY <2>2, <2>4, WalkKept
  <2>8. BackInv'
    <3>1. nwrites' # 0
      BY <2>2
    <3> QED BY <3>1, BackGone
  <2> QED BY <2>6, <2>7, <2>8
<1>11. CASE UNCHANGED cVars
  <2>1. UNCHANGED <<rows, request, page, seen, stayed, ended, patching, nwrites>>
    BY <1>11 DEF cVars
  <2>2. Usable(request)' = Usable(request)
    BY <2>1 DEF Usable
  <2>3. CrudTypeOK'
    BY <2>1, <2>2 DEF CrudTypeOK
  <2>4. WalkInv'
    BY <2>1, WalkKept
  <2>5. BackInv'
    BY <2>1, BackKept
  <2> QED BY <2>3, <2>4, <2>5
<1>12. CASE patch_err
  <2>1. UNCHANGED <<rows, request, page, seen, stayed, ended, nwrites>> /\ patching' = << >>
    BY <1>12 DEF patch_err
  <2>2. Usable(request)' = Usable(request)
    BY <2>1 DEF Usable
  <2>3. CrudTypeOK'
    BY <2>1, <2>2 DEF CrudTypeOK
  <2>4. WalkInv'
    BY <2>1, WalkKept
  <2>5. BackInv'
    BY <2>1, BackKept
  <2> QED BY <2>3, <2>4, <2>5
<1> QED BY <1>1, <1>2, <1>3, <1>4, <1>5, <1>6, <1>7, <1>8, <1>9, <1>10, <1>11, <1>12 DEF CNext

\* The rows, the client's links and what it has seen fit together: of the rows that
\* stay, those it has seen are in front of its cursor, and the others behind it.
THEOREM CrudInvariance == CSpec => []CrudInv
<1>1. CInit => CrudTypeOK /\ WalkInv /\ BackInv
  BY DEF CInit, CrudTypeOK, WalkInv, BackInv
<1>2. CrudTypeOK /\ WalkInv /\ PatchInv /\ BackInv /\ [CNext]_cVars => CrudTypeOK' /\ WalkInv' /\ BackInv'
  BY CrudInvStep
<1>3. CrudTypeOK /\ WalkInv /\ PatchInv /\ BackInv => CrudInv
  BY DEF CrudInv
<1> QED BY <1>1, <1>2, <1>3, PatchInvariance, PTL DEF CSpec

\* crud.ts 121-134: whatever the other clients do, a PATCH writes only the row of its
\* path or, when the payload has an id, of that id; and if this is the row it read and
\* nobody wrote it since, only the fields in the payload.
THEOREM PatchesKeepFields == CSpec => PatchKeepsOtherFields
<1> DEFINE P == patch_save =>
                  LET p == Head(patching)
                      t == PatchTarget(p)
                  IN /\ \A i \in CIds \ {t} : rows'[i] = rows[i]
                     /\ t = p.id /\ t \notin raced =>
                          \A f \in DOMAIN rows[t] \ DOMAIN p.body : rows'[t][f] = rows[t][f]
<1>1. ASSUME CrudInv, patch_save PROVE P
  <2> DEFINE p == Head(patching)
             t == PatchTarget(p)
             entity == [g \in {g \in DOMAIN p.row : p.row[g] # Missing \/ g \in DOMAIN p.body} |-> p.row[g]]
  <2>1. patching # << >> /\ p.row.id # Missing /\ Write(p.row.id, Saved(p.row.id, entity))
    BY <1>1 DEF patch_save
  <2>2. p.id \in CIds /\ p.row \in HeldRow /\ p.row.id = t
    BY <1>1, <2>1 DEF CrudInv, CrudTypeOK
  <2>3. t \in CIds
    BY <2>1, <2>2 DEF HeldRow
  <2>4. /\ rows \in [CIds -> CRow \cup {Missing}]
        /\ \A i \in CIds : rows[i] # Missing => rows[i].id = i
    BY <1>1 DEF CrudInv, CrudTypeOK
  <2>5. rows' = [rows EXCEPT ![t] = Saved(t, entity)]
    BY <2>1, <2>2 DEF Write
  <2>6. rows'[t] = Saved(t, entity) /\ \A i \in CIds \ {t} : rows'[i] = rows[i]
    <3> HIDE DEF t, entity
    <3> QED BY <2>3, <2>4, <2>5
  <2>7. ASSUME t = p.id, t \notin raced, NEW f \in DOMAIN rows[t] \ DOMAIN p.body
        PROVE  rows'[t][f] = rows[t][f]
    <3> DEFINE row == rows[t]
    <3>1. row # Missing /\ p.row = MergeInto(row, p.body)
      BY <1>1, <2>1, <2>7 DEF CrudInv, PatchInv
    <3>2. row \in CRow /\ row.id = t
      BY <2>3, <2>4, <3>1
    <3>3. DOMAIN p.row = DOMAIN row /\ p.row[f] = row[f]
      BY <2>7, <3>1 DEF MergeInto
    <3>4. f \in DOMAIN entity => entity[f] = row[f]
      BY <3>3
    <3>5. Saved(t, entity) = [MergeInto(row, entity) EXCEPT !.id = t]
      BY <3>1 DEF Saved
    <3> HIDE DEF entity, row, t, p
    <3>6. f \in DOMAIN row
      BY <2>7 DEF row
    <3>7. DOMAIN MergeInto(row, entity) = DOMAIN row /\ MergeInto(row, entity)[f] = row[f]
      BY <3>4, <3>6 DEF MergeInto
    <3>8. Saved(t, entity)[f] = row[f]
      <4>1. CASE f = "id"
        BY <3>2, <3>5, <3>6, <3>7, <4>1
      <4>2. CASE f # "id"
        BY <3>5, <3>6, <3>7, <4>2
      <4> QED BY <4>1, <4>2
    <3> QED BY <2>6, <3>8 DEF row
  <2> QED BY <2>6, <2>7
<1>2. CrudInv /\ [CNext]_cVars => [P]_cVars
  BY <1>1
<1> QED BY <1>2, CrudInvariance, PTL DEF CSpec, PatchKeepsOtherFields

\* crud.rs 130-177, 352-393: for any table, sort keys, filter and page size, following
\* next_page to the end yields every row that stays in place exactly once, whatever
\* others insert, delete or move meanwhile.
THEOREM WalksReturnAll == CSpec => []WalkReturnsAll
<1>1. CrudInv => WalkReturnsAll
  <2> SUFFICES ASSUME CrudInv, ended = "end", request.offset = Missing, NEW i \in stayed
               PROVE  Times(i) <= 1 /\ (request.size > 0 /\ Wanted(i) => Times(i) = 1)
    BY DEF WalkReturnsAll
  <2> DEFINE K == {k \in DOMAIN seen : seen[k] = i}
  <2>1. request # Missing /\ Usable(request)
    BY DEF CrudInv, CrudTypeOK
  <2>2. /\ \A k, l \in K : k = l
        /\ request.size > 0 /\ Wanted(i) => K # {}
    BY <2>1 DEF CrudInv, WalkInv
  <2>3. Times(i) = Cardinality(K)
    BY DEF Times
  <2> HIDE DEF K
  <2>4. CASE K = {}
    BY <2>2, <2>3, <2>4, FS_EmptySet
  <2>5. CASE K # {}
    <3>1. PICK k : K = {k}
      BY <2>2, <2>5
    <3>2. Cardinality(K) = 1
      BY <3>1, FS_Singleton
    <3> QED BY <2>3, <3>2
  <2> QED BY <2>4, <2>5
<1> QED BY <1>1, CrudInvariance, PTL

\* crud.rs 148-153, 339-347: for any table without NULL in the sort keys, any sort
\* keys, filter and page size, prev_page undoes next_page: it leads from the next page
\* back to the page the client had, and from the empty page behind the last to a page
\* that ends with it.
THEOREM PrevUndone == CSpec => []PrevUndoesNext
<1>1. CrudInv => PrevUndoesNext
  BY BackHolds DEF CrudInv
<1> QED BY <1>1, CrudInvariance, PTL

=============================================================================
