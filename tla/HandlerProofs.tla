--------------------------- MODULE HandlerProofs ---------------------------
(* The safety properties of Routing and Transactions: how a request comes  *)
(* to its handler, for every project of files and every code in them, and  *)
(* the transaction that the handler runs in, for every number of jobs,     *)
(* operations and connections.                                             *)
EXTENDS Routing, Transactions, Integers, SequenceTheorems, WellFoundedInduction, TLAPS

(***************************************************************************)
(* Routing.                                                                *)
(***************************************************************************)
-----------------------------------------------------------------------------
(* Sets of calls.                                                          *)

\* A set of naturals has a least element.
LEMMA LeastOf ==
  ASSUME NEW T, T \subseteq Nat, T # {}
  PROVE  \E n \in T : \A m \in T : n <= m
<1> DEFINE R == OpToRel(<, Nat)
<1>1. IsWellFoundedOn(R, Nat)
  BY NatLessThanWellFounded
<1>2. \A x, y \in Nat : x < y => <<x, y>> \in R
  BY DEF OpToRel
<1> HIDE DEF R
<1>3. PICK n \in T : \A y \in T : ~(<<y, n>> \in R)
  BY <1>1, WFMin
<1>4. \A m \in T : ~(m < n)
  BY <1>2, <1>3
<1> QED  BY <1>4

\* A set of numbers up to n has a greatest one.
LEMMA GreatestOf ==
  ASSUME NEW n \in Nat, NEW C, C \subseteq 1 .. n, C # {}
  PROVE  \E k \in C : \A j \in C : j <= k
<1> DEFINE T == {i \in Nat : n - i \in C}
<1>1. T # {}
  <2>1. PICK k \in C : TRUE
    OBVIOUS
  <2>2. n - k \in Nat /\ n - (n - k) = k
    BY <2>1
  <2> QED  BY <2>1, <2>2
<1>2. PICK i \in T : \A m \in T : i <= m
  BY <1>1, LeastOf
<1>3. ASSUME NEW j \in C
      PROVE  j <= n - i
  <2>1. n - j \in Nat /\ n - (n - j) = j
    OBVIOUS
  <2>2. i <= n - j
    BY <1>2, <2>1
  <2> QED  BY <2>1, <2>2
<1> QED  BY <1>2, <1>3

\* The first and the final call, and the one that follows another.
LEMMA FirstExists ==
  ASSUME NEW n \in Nat, NEW C, C \subseteq 1 .. n, C # {}
  PROVE  \E k \in C : IsFirst(C, k)
<1>1. C \subseteq Nat
  OBVIOUS
<1>2. PICK k \in C : \A j \in C : k <= j
  BY <1>1, LeastOf
<1> QED  BY <1>2 DEF IsFirst

\* Calls that are not none have a last one.
LEMMA FinalExists ==
  ASSUME NEW n \in Nat, NEW C, C \subseteq 1 .. n, C # {}
  PROVE  \E k \in C : IsFinal(C, k)
BY GreatestOf DEF IsFinal

\* A call that is not the last one has a next one.
LEMMA FollowerExists ==
  ASSUME NEW n \in Nat, NEW C, C \subseteq 1 .. n, NEW k \in C, ~IsFinal(C, k)
  PROVE  \E l \in C : Follows(C, k, l)
<1> DEFINE T == {j \in C : ~(j <= k)}
<1>1. T # {}
  BY DEF IsFinal
<1> C \subseteq Nat
  OBVIOUS
<1>2. PICK l \in T : \A m \in T : l <= m
  BY <1>1, LeastOf
<1> QED  BY <1>2 DEF Follows

Bounded(C) == \E n \in Nat : C \subseteq 1 .. n

\* A way is laid out in one manner.
LEMMA PlacesUnique ==
  ASSUME NEW code, NEW C, Bounded(C), NEW b, NEW at, NEW au,
         Places(code, C, b, at), Places(code, C, b, au)
  PROVE  \A i \in C : at[i] = au[i]
<1>0. PICK n \in Nat : C \subseteq 1 .. n
  BY DEF Bounded
<1> DEFINE bad == {k \in C : at[k] # au[k]}
<1> SUFFICES ASSUME bad # {} PROVE FALSE
  OBVIOUS
<1>1. PICK k \in bad : \A j \in bad : j <= k
  BY <1>0, GreatestOf
<1>2. ~IsFinal(C, k)
  BY <1>1 DEF Places
<1>3. PICK l \in C : Follows(C, k, l)
  BY <1>0, <1>1, <1>2, FollowerExists
<1>4. l \notin bad
  <2>1. k \in Nat /\ l \in Nat /\ k < l
    BY <1>0, <1>1, <1>3 DEF Follows
  <2> QED  BY <1>1, <2>1
<1> QED  BY <1>1, <1>3, <1>4 DEF Places

\* One more call, after all others.
LEMMA AddedCall ==
  ASSUME NEW n \in Nat, NEW C, C \subseteq 1 .. n, C # {}
  PROVE  /\ n + 1 \notin C /\ IsFinal(C \cup {n + 1}, n + 1)
         /\ \A k \in C : IsFirst(C \cup {n + 1}, k) <=> IsFirst(C, k)
         /\ ~IsFirst(C \cup {n + 1}, n + 1)
         /\ \A k \in C : ~IsFinal(C \cup {n + 1}, k)
         /\ \A k, l \in C : Follows(C \cup {n + 1}, k, l) <=> Follows(C, k, l)
         /\ \A k \in C : Follows(C \cup {n + 1}, k, n + 1) <=> IsFinal(C, k)
         /\ \A k \in C : ~Follows(C \cup {n + 1}, n + 1, k)
         /\ ~Follows(C \cup {n + 1}, n + 1, n + 1)
<1>1. \A k \in C : k \in Nat /\ k < n + 1 /\ k <= n
  OBVIOUS
<1>2. n + 1 \in Nat /\ n + 1 \notin C
  BY <1>1
<1>3. IsFinal(C \cup {n + 1}, n + 1) /\ \A k \in C : ~IsFinal(C \cup {n + 1}, k)
  BY <1>1, <1>2 DEF IsFinal
<1>4. /\ \A k \in C : IsFirst(C \cup {n + 1}, k) <=> IsFirst(C, k)
      /\ ~IsFirst(C \cup {n + 1}, n + 1)
  <2>1. PICK j \in C : TRUE
    OBVIOUS
  <2>2. ~(n + 1 <= j)
    BY <1>1
  <2>3. ~IsFirst(C \cup {n + 1}, n + 1)
    BY <2>1, <2>2 DEF IsFirst
  <2>4. \A k \in C : k <= n + 1
    BY <1>1
  <2> QED  BY <2>3, <2>4 DEF IsFirst
<1>5. \A k, l \in C : Follows(C \cup {n + 1}, k, l) <=> Follows(C, k, l)
  BY <1>1, <1>2 DEF Follows
<1>6. \A k \in C : Follows(C \cup {n + 1}, k, n + 1) <=> IsFinal(C, k)
  BY <1>1, <1>2 DEF Follows, IsFinal
<1>7. /\ \A k \in C : ~Follows(C \cup {n + 1}, n + 1, k)
      /\ ~Follows(C \cup {n + 1}, n + 1, n + 1)
  BY <1>1, <1>2 DEF Follows
<1> QED  BY <1>2, <1>3, <1>4, <1>5, <1>6, <1>7

-----------------------------------------------------------------------------
(* Ways.                                                                   *)

CodeOK(f) == IsSeq(f.code) /\ \A k \in DOMAIN f.code : IsCall(f.code[k])

\* The places of a sequence are numbered from 1.
LEMMA SeqFacts ==
  ASSUME NEW s, IsSeq(s)
  PROVE  Len(s) \in Nat /\ DOMAIN s = 1 .. Len(s)
BY LenProperties DEF IsSeq

\* A sequence over any set is a sequence.
LEMMA SeqIsSeq ==
  ASSUME NEW S, NEW s \in Seq(S)
  PROVE  IsSeq(s)
<1>1. Len(s) \in Nat /\ DOMAIN s = 1 .. Len(s) /\ s = [i \in 1 .. Len(s) |-> s[i]]
  BY LenProperties
<1>2. \A i \in 1 .. Len(s) : s[i] \in ToSet(s)
  BY <1>1 DEF ToSet
<1>3. [i \in 1 .. Len(s) |-> s[i]] \in Seq(ToSet(s))
  BY <1>1, <1>2
<1> QED  BY <1>1, <1>3 DEF IsSeq

\* The calls of a file are numbered from 1.
LEMMA CodeFacts ==
  ASSUME NEW f, CodeOK(f)
  PROVE  Len(f.code) \in Nat /\ DOMAIN f.code = 1 .. Len(f.code)
BY SeqFacts DEF CodeOK

\* The calls of a way have paths, and that of the route is not empty.
LEMMA WayFacts ==
  ASSUME NEW f, CodeOK(f), NEW C, C \subseteq DOMAIN f.code, NEW m, IsWay(f.code, C, m)
  PROVE  /\ C # {}
         /\ \A k \in C : /\ IsSeq(f.code[k].path) /\ Len(f.code[k].path) \in Nat
                         /\ DOMAIN f.code[k].path = 1 .. Len(f.code[k].path)
                         /\ IsFirst(C, k) => Len(f.code[k].path) >= 1
<1>1. C # {}
  BY DEF IsWay
<1>2. ASSUME NEW k \in C
      PROVE  /\ IsSeq(f.code[k].path) /\ Len(f.code[k].path) \in Nat
             /\ DOMAIN f.code[k].path = 1 .. Len(f.code[k].path)
             /\ IsFirst(C, k) => Len(f.code[k].path) >= 1
  <2>1. IsCall(f.code[k]) /\ f.code[k].call = IF IsFirst(C, k) THEN "route" ELSE "prefix"
    BY DEF CodeOK, IsWay
  <2>2. /\ IsSeq(f.code[k].path)
        /\ IsFirst(C, k) => f.code[k].path # << >>
    BY <2>1 DEF IsCall
  <2>3. Len(f.code[k].path) \in Nat /\ DOMAIN f.code[k].path = 1 .. Len(f.code[k].path)
    BY <2>2, SeqFacts
  <2>4. IsFirst(C, k) => Len(f.code[k].path) \in Nat \ {0}
    BY <2>2, EmptySeq DEF IsSeq
  <2> QED  BY <2>2, <2>3, <2>4
<1> QED  BY <1>1, <1>2

\* A map that a way leads to is put under a prefix.
LEMMA WayAdded ==
  ASSUME NEW code, NEW n \in Nat, NEW C, C \subseteq 1 .. n,
         code[n + 1].call = "prefix", IsWay(code, C, code[n + 1].of)
  PROVE  IsWay(code, C \cup {n + 1}, code[n + 1].on)
<1> DEFINE D == C \cup {n + 1}
<1>1. C # {} /\ n + 1 \notin C
  BY DEF IsWay
<1>2. \A k \in D : code[k].call = IF IsFirst(D, k) THEN "route" ELSE "prefix"
  BY <1>1, AddedCall DEF IsWay
<1>3. ASSUME NEW k \in D, NEW l \in D, Follows(D, k, l)
      PROVE  code[l].of = code[k].on
  <2>0. ~Follows(D, n + 1, n + 1) /\ \A j \in C : ~Follows(D, n + 1, j)
    BY <1>1, AddedCall
  <2>1. k \in C
    BY <1>3, <2>0
  <2>2. CASE l \in C
    BY <1>1, <1>3, <2>1, <2>2, AddedCall DEF IsWay
  <2>3. CASE l = n + 1
    <3>1. IsFinal(C, k)
      BY <1>1, <1>3, <2>1, <2>3, AddedCall
    <3> QED  BY <2>1, <2>3, <3>1 DEF IsWay
  <2> QED  BY <2>2, <2>3
<1>4. \A k \in D : IsFinal(D, k) => code[k].on = code[n + 1].on
  BY <1>1, AddedCall
<1> QED  BY <1>2, <1>3, <1>4 DEF IsWay

\* The last call of a way, and the way before it.
LEMMA WayCut ==
  ASSUME NEW code, NEW n \in Nat, NEW D, D \subseteq 1 .. n + 1, n + 1 \in D, NEW m, IsWay(code, D, m)
  PROVE  /\ code[n + 1].on = m
         /\ code[n + 1].call = "route"  => D = {n + 1}
         /\ code[n + 1].call = "prefix" => IsWay(code, D \ {n + 1}, code[n + 1].of)
         /\ code[n + 1].call \in {"route", "prefix"}
<1> DEFINE C == D \ {n + 1}
<1>1. C \subseteq 1 .. n /\ D = C \cup {n + 1}
  OBVIOUS
<1>2. IsFinal(D, n + 1)
  BY DEF IsFinal
<1>3. code[n + 1].on = m /\ code[n + 1].call = IF IsFirst(D, n + 1) THEN "route" ELSE "prefix"
  BY <1>2 DEF IsWay
<1>4. ASSUME C = {}
      PROVE  IsFirst(D, n + 1) /\ D = {n + 1}
  <2>1. D = {n + 1}
    BY <1>4
  <2>2. n + 1 <= n + 1
    OBVIOUS
  <2> QED  BY <2>1, <2>2 DEF IsFirst
<1>5. ASSUME C # {}
      PROVE  ~IsFirst(D, n + 1) /\ IsWay(code, C, code[n + 1].of)
  <2> HIDE DEF C
  <2>1. /\ \A k \in C : IsFirst(D, k) <=> IsFirst(C, k)
        /\ ~IsFirst(D, n + 1)
        /\ \A k, l \in C : Follows(D, k, l) <=> Follows(C, k, l)
        /\ \A k \in C : Follows(D, k, n + 1) <=> IsFinal(C, k)
    BY <1>1, <1>5, AddedCall
  <2>2. \A k \in C : code[k].call = IF IsFirst(C, k) THEN "route" ELSE "prefix"
    BY <1>1, <2>1 DEF IsWay
  <2>3. \A k, l \in C : Follows(C, k, l) => code[l].of = code[k].on
    BY <1>1, <2>1 DEF IsWay
  <2>4. \A k \in C : IsFinal(C, k) => code[k].on = code[n + 1].of
    BY <1>1, <2>1 DEF IsWay
  <2> QED  BY <1>5, <2>1, <2>2, <2>3, <2>4 DEF IsWay
<1> QED  BY <1>3, <1>4, <1>5

-----------------------------------------------------------------------------
(* Patterns.                                                               *)

\* Two sequences one behind the other.
LEMMA ConcatFacts ==
  ASSUME NEW s, NEW t, IsSeq(s), IsSeq(t)
  PROVE  /\ IsSeq(s \o t) /\ Len(s) \in Nat /\ Len(t) \in Nat /\ Len(s \o t) = Len(s) + Len(t)
         /\ DOMAIN s = 1 .. Len(s) /\ DOMAIN t = 1 .. Len(t)
         /\ DOMAIN (s \o t) = 1 .. Len(s) + Len(t)
         /\ \A i \in 1 .. Len(s) : (s \o t)[i] = s[i]
         /\ \A i \in 1 .. Len(t) : (s \o t)[Len(s) + i] = t[i]
         /\ \A i \in 1 .. Len(s) + Len(t) : i \in 1 .. Len(s) \/ i - Len(s) \in 1 .. Len(t)
         /\ ToSet(s \o t) = ToSet(s) \cup ToSet(t)
<1> DEFINE S == ToSet(s) \cup ToSet(t)
<1>1. s \in Seq(S) /\ t \in Seq(S)
  BY SeqMonotonic DEF IsSeq
<1> HIDE DEF S
<1>2. /\ Len(s) \in Nat /\ Len(t) \in Nat /\ DOMAIN s = 1 .. Len(s) /\ DOMAIN t = 1 .. Len(t)
  BY <1>1, LenProperties
<1>3. /\ s \o t \in Seq(S) /\ Len(s \o t) = Len(s) + Len(t)
      /\ \A i \in 1 .. Len(s) + Len(t) : (s \o t)[i] = IF i <= Len(s) THEN s[i] ELSE t[i - Len(s)]
  BY <1>1, ConcatProperties
<1>4. DOMAIN (s \o t) = 1 .. Len(s) + Len(t)
  BY <1>3, LenProperties
<1> DEFINE u == s \o t
<1> HIDE DEF u
<1>5. /\ \A i \in 1 .. Len(s) : u[i] = s[i]
      /\ \A i \in 1 .. Len(t) : u[Len(s) + i] = t[i]
      /\ \A i \in 1 .. Len(s) + Len(t) : i \in 1 .. Len(s) \/ i - Len(s) \in 1 .. Len(t)
      /\ \A i \in 1 .. Len(s) + Len(t) : ~(i \in 1 .. Len(s)) => u[i] = t[i - Len(s)]
  <2>1. \A i \in 1 .. Len(s) : i \in 1 .. Len(s) + Len(t) /\ i <= Len(s)
    BY <1>2
  <2>2. \A i \in 1 .. Len(t) : /\ Len(s) + i \in 1 .. Len(s) + Len(t)
                               /\ ~(Len(s) + i <= Len(s)) /\ (Len(s) + i) - Len(s) = i
    BY <1>2
  <2> QED  BY <1>2, <1>3, <2>1, <2>2 DEF u
<1>6. ToSet(u) = ToSet(s) \cup ToSet(t)
  <2>1. \A i \in 1 .. Len(s) : i \in 1 .. Len(s) + Len(t)
    BY <1>2
  <2>2. \A i \in 1 .. Len(t) : Len(s) + i \in 1 .. Len(s) + Len(t)
    BY <1>2
  <2>3. DOMAIN u = 1 .. Len(s) + Len(t)
    BY <1>4 DEF u
  <2>4. \A i \in DOMAIN u : u[i] \in ToSet(s) \cup ToSet(t)
    BY <1>2, <1>5, <2>3 DEF ToSet
  <2>5. \A i \in DOMAIN s : s[i] \in ToSet(u)
    BY <1>2, <1>5, <2>1, <2>3 DEF ToSet
  <2>6. \A i \in DOMAIN t : t[i] \in ToSet(u)
    BY <1>2, <1>5, <2>2, <2>3 DEF ToSet
  <2> QED  BY <2>4, <2>5, <2>6 DEF ToSet
<1>7. u \in Seq(ToSet(u))
  BY <1>3, <1>6 DEF S, u
<1> QED  BY <1>2, <1>3, <1>4, <1>5, <1>6, <1>7 DEF IsSeq, u

\* A route below some more segments: q is r with p in front of its pattern.
Below(p, r, q) ==
  /\ q.pattern = p \o r.pattern /\ q.handler = r.handler /\ q.methods = r.methods

\* The pattern of a route under a prefix: the prefix, then the segments it had.
LEMMA PatternFacts ==
  ASSUME NEW p, IsSeq(p), NEW r, IsRoute(r), NEW q, Below(p, r, q)
  PROVE  /\ Len(p) \in Nat /\ Len(r.pattern) \in Nat /\ Len(q.pattern) = Len(p) + Len(r.pattern)
         /\ DOMAIN p = 1 .. Len(p) /\ DOMAIN r.pattern = 1 .. Len(r.pattern)
         /\ DOMAIN q.pattern = 1 .. Len(q.pattern)
         /\ \A i \in 1 .. Len(p) : q.pattern[i] = p[i]
         /\ \A i \in 1 .. Len(r.pattern) : q.pattern[Len(p) + i] = r.pattern[i]
         /\ IsSeq(q.pattern) /\ q.pattern # << >>
<1>1. IsSeq(r.pattern) /\ r.pattern # << >> /\ q.pattern = p \o r.pattern
  BY DEF IsRoute, Below
<1> DEFINE u == q.pattern
           v == r.pattern
<1>2. /\ IsSeq(u) /\ Len(p) \in Nat /\ Len(v) \in Nat /\ Len(u) = Len(p) + Len(v)
      /\ DOMAIN p = 1 .. Len(p) /\ DOMAIN v = 1 .. Len(v) /\ DOMAIN u = 1 .. Len(u)
      /\ \A i \in 1 .. Len(p) : u[i] = p[i]
      /\ \A i \in 1 .. Len(v) : u[Len(p) + i] = v[i]
  BY <1>1, ConcatFacts
<1> HIDE DEF u, v
<1>3. Len(v) # 0
  BY <1>1, EmptySeq DEF IsSeq, v
<1>4. u # << >>
  BY <1>2, <1>3, EmptySeq
<1> QED  BY <1>2, <1>4 DEF u, v

\* More segments in front move the places of all calls.
LEMMA Shifted ==
  ASSUME NEW f, CodeOK(f), NEW C, C \subseteq DOMAIN f.code, NEW m, IsWay(f.code, C, m),
         NEW p, IsSeq(p), NEW r, IsRoute(r), NEW q, Below(p, r, q),
         Lies(f, C, 0, r)
  PROVE  Lies(f, C, Len(p), q)
<1>1. /\ Len(p) \in Nat /\ Len(r.pattern) \in Nat /\ Len(q.pattern) = Len(p) + Len(r.pattern)
      /\ DOMAIN r.pattern = 1 .. Len(r.pattern) /\ DOMAIN q.pattern = 1 .. Len(q.pattern)
      /\ \A i \in 1 .. Len(r.pattern) : q.pattern[Len(p) + i] = r.pattern[i]
  BY PatternFacts
<1>2. /\ C # {}
      /\ \A k \in C : Len(f.code[k].path) \in Nat /\ DOMAIN f.code[k].path = 1 .. Len(f.code[k].path)
  BY WayFacts
<1>3. PICK at \in [C -> 0 .. Len(r.pattern)] : LiesAt(f, C, 0, r, at)
  BY DEF Lies
<1> DEFINE au == [k \in C |-> at[k] + Len(p)]
<1>4. \A k \in C : at[k] \in Nat /\ at[k] <= Len(r.pattern) /\ au[k] = at[k] + Len(p)
  BY <1>1
<1>5. au \in [C -> 0 .. Len(q.pattern)]
  BY <1>1, <1>4
<1> HIDE DEF au
<1>6. Places(f.code, C, Len(p), au)
  <2>1. \A k \in C : IsFinal(C, k) => at[k] = 0
    BY <1>3 DEF LiesAt, Places
  <2>2. \A k, l \in C : Follows(C, k, l) => at[k] = at[l] + Len(f.code[l].path)
    BY <1>3 DEF LiesAt, Places
  <2>3. \A k \in C : IsFinal(C, k) => au[k] = Len(p)
    BY <1>1, <1>4, <2>1
  <2>4. \A k, l \in C : Follows(C, k, l) => au[k] = au[l] + Len(f.code[l].path)
    BY <1>1, <1>2, <1>4, <2>2
  <2> QED  BY <2>3, <2>4 DEF Places
<1>7. ASSUME NEW k \in C, NEW i \in DOMAIN f.code[k].path
      PROVE  au[k] + i <= Len(q.pattern) /\ q.pattern[au[k] + i] = f.code[k].path[i]
  <2>1. at[k] + i <= Len(r.pattern) /\ r.pattern[at[k] + i] = f.code[k].path[i]
    BY <1>3 DEF LiesAt
  <2>2. i \in Nat \ {0}
    BY <1>2
  <2>3. at[k] + i \in 1 .. Len(r.pattern) /\ au[k] + i = Len(p) + (at[k] + i)
    BY <1>1, <1>4, <2>1, <2>2
  <2> QED  BY <1>1, <2>1, <2>3
<1>8. ASSUME NEW k \in C, IsFirst(C, k)
      PROVE  /\ q.handler = Handler(f, k) /\ q.methods = f.code[k].methods
             /\ Len(q.pattern) = au[k] + Len(f.code[k].path) /\ Len(p) <= au[k]
             /\ \A l \in C \ {k} : au[l] + Len(f.code[l].path) <= au[k]
  <2>1. /\ r.handler = Handler(f, k) /\ r.methods = f.code[k].methods
        /\ Len(r.pattern) = at[k] + Len(f.code[k].path)
        /\ \A l \in C \ {k} : at[l] + Len(f.code[l].path) <= at[k]
    BY <1>3, <1>8 DEF LiesAt
  <2>2. ASSUME NEW l \in C \ {k}
        PROVE  au[l] + Len(f.code[l].path) <= au[k]
    <3>1. /\ au[l] = at[l] + Len(p) /\ au[k] = at[k] + Len(p) /\ at[l] + Len(f.code[l].path) <= at[k]
          /\ at[l] \in Nat /\ at[k] \in Nat /\ Len(p) \in Nat /\ Len(f.code[l].path) \in Nat
      BY <1>1, <1>2, <1>4, <2>1
    <3> QED  BY <3>1
  <2>3. Len(q.pattern) = au[k] + Len(f.code[k].path) /\ Len(p) <= au[k]
    BY <1>1, <1>2, <1>4, <2>1
  <2> QED  BY <2>1, <2>2, <2>3 DEF Below
<1>9. ASSUME NEW x \in DOMAIN q.pattern, ~(x <= Len(p))
      PROVE  \E k \in C : \E i \in DOMAIN f.code[k].path : x = au[k] + i
  <2>1. x - Len(p) \in DOMAIN r.pattern /\ ~(x - Len(p) <= 0)
    BY <1>1, <1>9
  <2>2. PICK k \in C : \E i \in DOMAIN f.code[k].path : x - Len(p) = at[k] + i
    BY <1>3, <2>1 DEF LiesAt
  <2>3. PICK i \in DOMAIN f.code[k].path : x - Len(p) = at[k] + i
    BY <2>2
  <2>4. x \in Nat /\ i \in Nat /\ at[k] \in Nat /\ Len(p) \in Nat /\ au[k] = at[k] + Len(p)
    BY <1>1, <1>2, <1>4
  <2>5. x = au[k] + i
    BY <2>3, <2>4
  <2> QED  BY <2>5
<1>10. LiesAt(f, C, Len(p), q, au)
  BY <1>6, <1>7, <1>8, <1>9 DEF LiesAt
<1> QED  BY <1>5, <1>10 DEF Lies

\* If those segments are the path of a call, the call is part of the way.
LEMMA Extended ==
  ASSUME NEW f, CodeOK(f), NEW n \in Nat, n + 1 \in DOMAIN f.code, NEW C, C \subseteq 1 .. n,
         f.code[n + 1].call = "prefix", IsWay(f.code, C, f.code[n + 1].of),
         NEW r, IsRoute(r), NEW q, Below(f.code[n + 1].path, r, q), Lies(f, C, 0, r)
  PROVE  Lies(f, C \cup {n + 1}, 0, q)
<1> DEFINE p == f.code[n + 1].path
           D == C \cup {n + 1}
<1>1. C \subseteq DOMAIN f.code
  BY CodeFacts
<1>2. IsSeq(p)
  BY DEF CodeOK, IsCall
<1>3. Lies(f, C, Len(p), q)
  BY <1>1, <1>2, Shifted
<1>4. /\ Len(p) \in Nat /\ DOMAIN p = 1 .. Len(p) /\ Len(q.pattern) \in Nat /\ Len(p) <= Len(q.pattern)
      /\ DOMAIN q.pattern = 1 .. Len(q.pattern)
      /\ \A i \in 1 .. Len(p) : q.pattern[i] = p[i]
  BY <1>2, PatternFacts
<1>5. /\ C # {}
      /\ \A k \in C : Len(f.code[k].path) \in Nat /\ DOMAIN f.code[k].path = 1 .. Len(f.code[k].path)
  BY <1>1, WayFacts
<1>6. PICK au \in [C -> 0 .. Len(q.pattern)] : LiesAt(f, C, Len(p), q, au)
  BY <1>3 DEF Lies
<1> DEFINE aw == [k \in D |-> IF k = n + 1 THEN 0 ELSE au[k]]
<1>7. /\ n + 1 \notin C /\ IsFinal(D, n + 1) /\ \A k \in C : ~IsFinal(D, k)
      /\ \A k \in C : IsFirst(D, k) <=> IsFirst(C, k)
      /\ ~IsFirst(D, n + 1)
      /\ \A k, l \in C : Follows(D, k, l) <=> Follows(C, k, l)
      /\ \A k \in C : Follows(D, k, n + 1) <=> IsFinal(C, k)
      /\ \A k \in C : ~Follows(D, n + 1, k)
      /\ ~Follows(D, n + 1, n + 1)
  BY <1>5, AddedCall
<1>8. aw[n + 1] = 0 /\ \A k \in C : aw[k] = au[k] /\ au[k] \in 0 .. Len(q.pattern)
  BY <1>7
<1>9. aw \in [D -> 0 .. Len(q.pattern)]
  BY <1>4, <1>8
<1> HIDE DEF aw
<1>10. Places(f.code, D, 0, aw)
  <2>1. \A k \in C : IsFinal(C, k) => au[k] = Len(p)
    BY <1>6 DEF LiesAt, Places
  <2>2. \A k, l \in C : Follows(C, k, l) => au[k] = au[l] + Len(f.code[l].path)
    BY <1>6 DEF LiesAt, Places
  <2>3. ASSUME NEW k \in D, NEW l \in D, Follows(D, k, l)
        PROVE  aw[k] = aw[l] + Len(f.code[l].path)
    <3>1. k \in C
      BY <1>7, <2>3
    <3>2. CASE l \in C
      BY <1>7, <1>8, <2>2, <2>3, <3>1, <3>2
    <3>3. CASE l = n + 1
      <4>1. au[k] = Len(p)
        BY <1>7, <2>1, <2>3, <3>1, <3>3
      <4>2. aw[k] = 0 + Len(p)
        BY <1>4, <1>8, <3>1, <4>1
      <4> QED  BY <1>8, <3>3, <4>2
    <3> QED  BY <3>2, <3>3
  <2>4. \A k \in D : IsFinal(D, k) => aw[k] = 0
    BY <1>7, <1>8
  <2> QED  BY <2>3, <2>4 DEF Places
<1>11. ASSUME NEW k \in D, NEW i \in DOMAIN f.code[k].path
       PROVE  aw[k] + i <= Len(q.pattern) /\ q.pattern[aw[k] + i] = f.code[k].path[i]
  <2>1. CASE k \in C
    BY <1>6, <1>8, <2>1 DEF LiesAt
  <2>2. CASE k = n + 1
    <3>1. i \in 1 .. Len(p)
      BY <1>4, <2>2
    <3>2. aw[k] + i = i /\ i <= Len(q.pattern)
      BY <1>4, <1>8, <2>2, <3>1
    <3> QED  BY <1>4, <2>2, <3>1, <3>2
  <2> QED  BY <2>1, <2>2
<1>12. ASSUME NEW k \in D, IsFirst(D, k)
       PROVE  /\ q.handler = Handler(f, k) /\ q.methods = f.code[k].methods
              /\ Len(q.pattern) = aw[k] + Len(f.code[k].path) /\ 0 <= aw[k]
              /\ \A l \in D \ {k} : aw[l] + Len(f.code[l].path) <= aw[k]
  <2>1. k \in C /\ IsFirst(C, k)
    BY <1>7, <1>12
  <2>2. /\ q.handler = Handler(f, k) /\ q.methods = f.code[k].methods
        /\ Len(q.pattern) = au[k] + Len(f.code[k].path) /\ Len(p) <= au[k]
        /\ \A l \in C \ {k} : au[l] + Len(f.code[l].path) <= au[k]
    BY <1>6, <2>1 DEF LiesAt
  <2>3. 0 + Len(p) <= aw[k] /\ 0 <= aw[k]
    BY <1>4, <1>8, <2>1, <2>2
  <2>4. \A l \in D \ {k} : aw[l] + Len(f.code[l].path) <= aw[k]
    BY <1>8, <2>1, <2>2, <2>3
  <2> QED  BY <1>8, <2>1, <2>2, <2>3, <2>4
<1>13. ASSUME NEW x \in DOMAIN q.pattern
       PROVE  \E k \in D : \E i \in DOMAIN f.code[k].path : x = aw[k] + i
  <2>1. CASE x <= Len(p)
    <3>1. x \in DOMAIN p /\ x = aw[n + 1] + x
      BY <1>4, <1>8, <2>1
    <3> QED  BY <3>1
  <2>2. CASE ~(x <= Len(p))
    <3>1. PICK k \in C : \E i \in DOMAIN f.code[k].path : x = au[k] + i
      BY <1>6, <2>2 DEF LiesAt
    <3> QED  BY <1>8, <3>1
  <2> QED  BY <2>1, <2>2
<1>14. LiesAt(f, D, 0, q, aw)
  BY <1>10, <1>11, <1>12, <1>13 DEF LiesAt
<1> QED  BY <1>9, <1>14 DEF Lies

-----------------------------------------------------------------------------
(* The operations of RouteMap.                                             *)

\* A sequence with one more element.
LEMMA AppendFacts ==
  ASSUME NEW s, IsSeq(s), NEW x
  PROVE  /\ IsSeq(Append(s, x)) /\ Len(s) \in Nat /\ Len(Append(s, x)) = Len(s) + 1
         /\ DOMAIN s = 1 .. Len(s) /\ DOMAIN Append(s, x) = 1 .. Len(s) + 1
         /\ \A i \in 1 .. Len(s) : Append(s, x)[i] = s[i]
         /\ Append(s, x)[Len(s) + 1] = x
         /\ ToSet(Append(s, x)) = ToSet(s) \cup {x}
<1> DEFINE S == ToSet(s) \cup {x}
           u == Append(s, x)
<1>1. s \in Seq(S) /\ x \in S
  BY SeqMonotonic DEF IsSeq
<1> HIDE DEF S
<1>2. Len(s) \in Nat /\ DOMAIN s = 1 .. Len(s)
  BY <1>1, LenProperties
<1>3. /\ u \in Seq(S) /\ Len(u) = Len(s) + 1
      /\ \A i \in 1 .. Len(s) : u[i] = s[i]
      /\ u[Len(s) + 1] = x
  BY <1>1, AppendProperties
<1>4. DOMAIN u = 1 .. Len(s) + 1
  BY <1>3, LenProperties
<1> HIDE DEF u
<1>5. ToSet(u) = S
  <2>1. \A i \in 1 .. Len(s) + 1 : i \in 1 .. Len(s) \/ i = Len(s) + 1
    BY <1>2
  <2>2. \A i \in DOMAIN u : u[i] \in ToSet(s) \cup {x}
    BY <1>2, <1>3, <1>4, <2>1 DEF ToSet
  <2>3. \A i \in DOMAIN s : i \in DOMAIN u /\ u[i] = s[i]
    BY <1>2, <1>3, <1>4
  <2>4. Len(s) + 1 \in DOMAIN u
    BY <1>2, <1>4
  <2> QED  BY <1>3, <2>2, <2>3, <2>4 DEF ToSet, S
<1>6. IsSeq(u)
  BY <1>3, <1>5 DEF IsSeq
<1> QED  BY <1>2, <1>3, <1>4, <1>5, <1>6 DEF u, S

\* route adds one route behind those of the map, without middlewares.
LEMMA RouteFacts ==
  ASSUME NEW map, IsMap(map), NEW methods, NEW path, IsSeq(path) /\ path # << >>, NEW h
  PROVE  LET M == route(map, methods, path, h)
             n == Len(map.routes)
         IN /\ IsMap(M) /\ M.middlewares = map.middlewares
            /\ n \in Nat /\ DOMAIN map.routes = 1 .. n /\ DOMAIN M.routes = 1 .. n + 1
            /\ \A i \in 1 .. n : M.routes[i] = map.routes[i]
            /\ M.routes[n + 1] = [methods |-> methods, pattern |-> path, handler |-> h,
                                  middlewares |-> << >>]
<1> DEFINE r == [methods |-> methods, pattern |-> path, handler |-> h, middlewares |-> << >>]
           s == map.routes
           M == route(map, methods, path, h)
           n == Len(s)
<1>1. M.routes = Append(s, r) /\ M.middlewares = map.middlewares
      /\ DOMAIN M = {"routes", "middlewares"}
  BY DEF route, IsMap
<1>2. IsSeq(s) /\ IsSeq(map.middlewares) /\ \A i \in DOMAIN s : IsRoute(s[i])
  BY DEF IsMap
<1>3. IsRoute(r)
  <2>1. << >> \in Seq(ToSet(<< >>))
    BY EmptySeq
  <2> QED  BY <2>1 DEF IsRoute, IsSeq
<1> HIDE DEF r, s
<1>4. /\ IsSeq(Append(s, r)) /\ n \in Nat /\ DOMAIN s = 1 .. n /\ DOMAIN Append(s, r) = 1 .. n + 1
      /\ \A i \in 1 .. n : Append(s, r)[i] = s[i]
      /\ Append(s, r)[n + 1] = r
  BY <1>2, AppendFacts
<1> HIDE DEF M
<1>5. \A i \in DOMAIN M.routes : IsRoute(M.routes[i])
  <2>1. \A i \in 1 .. n + 1 : i \in 1 .. n \/ i = n + 1
    BY <1>4
  <2> QED  BY <1>1, <1>2, <1>3, <1>4, <2>1
<1>6. IsMap(M)
  BY <1>1, <1>2, <1>4, <1>5 DEF IsMap
<1> QED  BY <1>1, <1>4, <1>6 DEF M, r, s

\* middleware adds to the middlewares and leaves the routes alone.
LEMMA MiddlewareFacts ==
  ASSUME NEW map, IsMap(map), NEW h
  PROVE  LET M == middleware(map, h)
         IN IsMap(M) /\ M.routes = map.routes /\ ToSet(M.middlewares) = ToSet(map.middlewares) \cup {h}
<1> DEFINE M == middleware(map, h)
<1>1. /\ M.middlewares = Append(map.middlewares, h) /\ M.routes = map.routes
      /\ DOMAIN M = {"routes", "middlewares"}
  BY DEF middleware, IsMap
<1>2. IsSeq(map.middlewares)
  BY DEF IsMap
<1>3. IsSeq(Append(map.middlewares, h))
      /\ ToSet(Append(map.middlewares, h)) = ToSet(map.middlewares) \cup {h}
  BY <1>2, AppendFacts
<1> HIDE DEF M
<1>4. IsMap(M)
  BY <1>1, <1>3 DEF IsMap
<1> QED  BY <1>1, <1>3, <1>4 DEF M

\* The map M has n routes of one map, and the l routes of another below a path, with
\* the middlewares of that map.
Joined(M, map, n, path, other, l) ==
  /\ IsMap(M) /\ M.middlewares = map.middlewares
  /\ n \in Nat /\ DOMAIN map.routes = 1 .. n /\ l \in Nat /\ DOMAIN other.routes = 1 .. l
  /\ DOMAIN M.routes = 1 .. n + l
  /\ \A i \in 1 .. n + l : i \in 1 .. n \/ i - n \in 1 .. l
  /\ \A i \in 1 .. n : M.routes[i] = map.routes[i]
  /\ \A i \in 1 .. l :
       /\ Below(path, other.routes[i], M.routes[n + i])
       /\ ToSet(M.routes[n + i].middlewares)
            = ToSet(other.routes[i].middlewares) \cup ToSet(other.middlewares)

\* prefix joins the routes of the other map to those of the map.
LEMMA PrefixFacts ==
  ASSUME NEW map, IsMap(map), NEW path, IsSeq(path), NEW other, IsMap(other)
  PROVE  Joined(prefix(map, path, other), map, Len(map.routes), path, other, Len(other.routes))
<1> DEFINE M == prefix(map, path, other)
           s == map.routes
           o == other.routes
           n == Len(s)
           l == Len(o)
           t == [i \in DOMAIN o |->
                   [o[i] EXCEPT !.pattern = path \o @, !.middlewares = @ \o other.middlewares]]
<1>1. M.routes = s \o t /\ M.middlewares = map.middlewares /\ DOMAIN M = {"routes", "middlewares"}
  BY DEF prefix, IsMap
<1>2. /\ IsSeq(s) /\ IsSeq(map.middlewares) /\ \A i \in DOMAIN s : IsRoute(s[i])
      /\ IsSeq(o) /\ IsSeq(other.middlewares) /\ \A i \in DOMAIN o : IsRoute(o[i])
  BY DEF IsMap
<1>3. n \in Nat /\ DOMAIN s = 1 .. n /\ l \in Nat /\ DOMAIN o = 1 .. l
  BY <1>2, SeqFacts
<1>4. ASSUME NEW i \in 1 .. l
      PROVE  /\ IsRoute(t[i]) /\ Below(path, o[i], t[i])
             /\ ToSet(t[i].middlewares) = ToSet(o[i].middlewares) \cup ToSet(other.middlewares)
  <2>1. IsRoute(o[i])
    BY <1>2, <1>3
  <2>2. /\ DOMAIN t[i] = {"methods", "pattern", "handler", "middlewares"}
        /\ t[i].pattern = path \o o[i].pattern /\ t[i].handler = o[i].handler /\ t[i].methods = o[i].methods
        /\ t[i].middlewares = o[i].middlewares \o other.middlewares
    BY <1>3, <2>1 DEF IsRoute
  <2> HIDE DEF t
  <2>3. Below(path, o[i], t[i])
    BY <2>2 DEF Below
  <2>4. IsSeq(t[i].pattern) /\ t[i].pattern # << >>
    BY <2>1, <2>3, PatternFacts
  <2>5. IsSeq(o[i].middlewares)
    BY <2>1 DEF IsRoute
  <2>6. /\ IsSeq(t[i].middlewares)
        /\ ToSet(t[i].middlewares) = ToSet(o[i].middlewares) \cup ToSet(other.middlewares)
    BY <1>2, <2>2, <2>5, ConcatFacts
  <2> QED  BY <2>2, <2>3, <2>4, <2>6 DEF IsRoute
<1>5. IsSeq(t) /\ Len(t) = l
  <2>1. DOMAIN t = 1 .. l
    BY <1>3
  <2>2. \A i \in 1 .. l : t[i] \in ToSet(t)
    BY <2>1 DEF ToSet
  <2>3. t = [i \in 1 .. l |-> t[i]]
    BY <1>3
  <2> HIDE DEF t
  <2>4. [i \in 1 .. l |-> t[i]] \in Seq(ToSet(t))
    BY <1>3, <2>2
  <2>5. t \in Seq(ToSet(t))
    BY <2>3, <2>4
  <2>6. Len(t) = l
    BY <1>3, <2>1, <2>5, LenProperties
  <2> QED  BY <2>5, <2>6 DEF IsSeq
<1> HIDE DEF t, s, o
<1>6. /\ IsSeq(s \o t) /\ DOMAIN (s \o t) = 1 .. n + l
      /\ \A i \in 1 .. n : (s \o t)[i] = s[i]
      /\ \A i \in 1 .. l : (s \o t)[n + i] = t[i]
      /\ \A i \in 1 .. n + l : i \in 1 .. n \/ i - n \in 1 .. l
  BY <1>2, <1>5, ConcatFacts
<1> HIDE DEF M
<1>7. ASSUME NEW i \in DOMAIN M.routes
      PROVE  IsRoute(M.routes[i])
  <2>1. i \in 1 .. n + l /\ i \in Nat
    BY <1>1, <1>3, <1>6
  <2>2. CASE i \in 1 .. n
    BY <1>1, <1>2, <1>3, <1>6, <2>2
  <2>3. CASE i - n \in 1 .. l
    <3>1. n + (i - n) = i
      BY <1>3, <2>1
    <3>2. M.routes[n + (i - n)] = t[i - n]
      BY <1>1, <1>6, <2>3
    <3> QED  BY <1>4, <2>3, <3>1, <3>2
  <2> QED  BY <1>6, <2>1, <2>2, <2>3
<1>8. IsMap(M)
  BY <1>1, <1>2, <1>6, <1>7 DEF IsMap
<1>9. \A i \in 1 .. l : M.routes[n + i] = t[i]
  BY <1>1, <1>6
<1> QED  BY <1>1, <1>3, <1>4, <1>6, <1>8, <1>9 DEF M, s, o, Joined

-----------------------------------------------------------------------------
(* The code of a file.                                                     *)

\* The way of a route that is added.
LEMMA RouteAdded ==
  ASSUME NEW f, CodeOK(f), NEW k \in DOMAIN f.code, f.code[k].call = "route",
         NEW r, r.pattern = f.code[k].path, r.methods = f.code[k].methods, r.handler = Handler(f, k)
  PROVE  /\ IsWay(f.code, {k}, f.code[k].on) /\ Lies(f, {k}, 0, r)
         /\ \A i, j \in {k} : ~Follows({k}, i, j)
<1>1. k \in Nat
  BY CodeFacts
<1>2. IsFirst({k}, k) /\ IsFinal({k}, k) /\ ~Follows({k}, k, k)
  BY <1>1 DEF IsFirst, IsFinal, Follows
<1>3. IsWay(f.code, {k}, f.code[k].on)
  BY <1>2 DEF IsWay
<1>4. /\ Len(f.code[k].path) \in Nat /\ DOMAIN f.code[k].path = 1 .. Len(f.code[k].path)
  BY <1>3, WayFacts
<1> DEFINE at == [j \in {k} |-> 0]
<1>5. at[k] = 0 /\ at \in [{k} -> 0 .. Len(r.pattern)]
  BY <1>4
<1> HIDE DEF at
<1>6. Places(f.code, {k}, 0, at)
  BY <1>2, <1>5 DEF Places
<1>7. \A i \in DOMAIN f.code[k].path : at[k] + i <= Len(r.pattern) /\ r.pattern[at[k] + i] = f.code[k].path[i]
  BY <1>4, <1>5
<1>8. Len(r.pattern) = at[k] + Len(f.code[k].path) /\ 0 <= at[k]
  BY <1>4, <1>5
<1>9. \A x \in DOMAIN r.pattern : \E i \in DOMAIN f.code[k].path : x = at[k] + i
  BY <1>4, <1>5
<1>10. LiesAt(f, {k}, 0, r, at)
  BY <1>6, <1>7, <1>8, <1>9 DEF LiesAt
<1> QED  BY <1>2, <1>3, <1>5, <1>10 DEF Lies

\* The middlewares on the way when a map is put under a prefix.
LEMMA GuardsAdded ==
  ASSUME NEW code, NEW n \in Nat, NEW C, C \subseteq 1 .. n, C # {}, NEW k \in C
  PROVE  Guards(code, C \cup {n + 1}, k) \subseteq Guards(code, C, k)
<1> DEFINE D == C \cup {n + 1}
<1>1. \A i, l \in C : Follows(D, i, l) <=> Follows(C, i, l)
  BY AddedCall
<1>2. \A l \in C : Follows(C, k, l) => Follows(D, k, l) /\ l \in D
  BY <1>1
<1> HIDE DEF D
<1>3. Guards(code, D, k) \subseteq Guards(code, C, k)
  BY <1>2 DEF Guards
<1> QED  BY <1>3 DEF D

\* A call leaves the routes of the maps as they were, or adds those it is for.
LEMMA RouteCallStep ==
  ASSUME CodeInv, CodeOK(rfile), r_call
  PROVE  CodeInv'
<1> DEFINE f == rfile
           n == rdone
           c == rfile.code[rdone + 1]
           M == CASE c.call = "route"  -> route(rmaps[c.on], c.methods, c.path, Handler(rfile, rdone + 1))
                  [] c.call = "prefix" -> prefix(rmaps[c.on], c.path, rmaps[c.of])
                  [] c.call = "middleware" -> middleware(rmaps[c.on], c.handler)
<1>1. /\ rstage = "code" /\ rstage' = "code" /\ rfile' = f /\ rtodo' = rtodo /\ build_file_route_map(f)
      /\ n \in 0 .. Len(f.code) /\ n < Len(f.code) /\ rdone' = n + 1
      /\ rmaps \in [RMaps -> {rmaps[m] : m \in RMaps}] /\ \A m \in RMaps : MapInv(m)
  BY DEF CodeInv, r_call
<1>2. rmaps' = [rmaps EXCEPT ![c.on] = M]
  BY DEF r_call
<1>3. n \in Nat /\ n + 1 \in DOMAIN f.code /\ rdone' \in 0 .. Len(f.code) /\ 1 .. n \subseteq DOMAIN f.code
      /\ 1 .. n + 1 = (1 .. n) \cup {n + 1}
  BY <1>1, CodeFacts
<1>4. IsCall(c)
  BY <1>3 DEF CodeOK
<1>5. c.on \in RMaps /\ c.call \in {"route", "prefix", "middleware"}
  BY <1>4 DEF IsCall
<1> HIDE DEF M
<1>6. /\ DOMAIN rmaps' = RMaps /\ rmaps'[c.on] = M
      /\ \A m \in RMaps : m # c.on => rmaps'[m] = rmaps[m]
      /\ rmaps' \in [RMaps -> {rmaps'[m] : m \in RMaps}]
  BY <1>1, <1>2, <1>5
<1> HIDE DEF c
\* Ways that do not end with the call.
<1>7. ASSUME NEW m, NEW C \in SUBSET (1 .. n + 1), IsWay(f.code, C, m)
      PROVE  \/ C \in SUBSET (1 .. n)
             \/ /\ n + 1 \in C /\ m = c.on
                /\ \/ c.call = "route" /\ C = {n + 1}
                   \/ c.call = "prefix" /\ IsWay(f.code, C \ {n + 1}, c.of)
  <2>1. CASE n + 1 \notin C
    BY <1>3, <2>1
  <2>2. CASE n + 1 \in C
    <3>1. /\ f.code[n + 1].on = m
          /\ f.code[n + 1].call = "route"  => C = {n + 1}
          /\ f.code[n + 1].call = "prefix" => IsWay(f.code, C \ {n + 1}, f.code[n + 1].of)
          /\ f.code[n + 1].call \in {"route", "prefix"}
      BY <1>3, <1>7, <2>2, WayCut
    <3> QED  BY <2>2, <3>1 DEF c
  <2> QED  BY <2>1, <2>2
<1>8. ASSUME NEW m \in RMaps, m # c.on
      PROVE  MapInv(m)'
  <2>1. MapInv(m) /\ rmaps'[m] = rmaps[m]
    BY <1>1, <1>6, <1>8
  <2>2. IsMap(rmaps'[m])
    BY <2>1 DEF MapInv
  <2>3. \A j \in 1 .. n + 1 : f.code[j].call = "middleware" /\ f.code[j].on = m =>
          f.code[j].handler \in ToSet(rmaps'[m].middlewares)
    BY <1>3, <1>8, <2>1 DEF MapInv, c
  <2>4. \A i \in DOMAIN rmaps'[m].routes : \E C \in SUBSET (1 .. n + 1) :
          /\ IsWay(f.code, C, m) /\ Lies(f, C, 0, rmaps'[m].routes[i])
          /\ \A k, l \in C : Follows(C, k, l) =>
               Guards(f.code, C, k) \subseteq ToSet(rmaps'[m].routes[i].middlewares)
    <3>1. SUBSET (1 .. n) \subseteq SUBSET (1 .. n + 1)
      BY <1>3
    <3> QED  BY <2>1, <3>1 DEF MapInv
  <2>5. \A C \in SUBSET (1 .. n + 1) : IsWay(f.code, C, m) =>
          \E i \in DOMAIN rmaps'[m].routes : Lies(f, C, 0, rmaps'[m].routes[i])
    BY <1>7, <1>8, <2>1 DEF MapInv
  <2> QED  BY <1>1, <2>2, <2>3, <2>4, <2>5 DEF MapInv
<1>0. PICK m0 \in RMaps : m0 = c.on
  BY <1>5
<1> DEFINE old == rmaps[m0]
<1>9. MapInv(m0) /\ IsMap(old) /\ rmaps'[m0] = M
  BY <1>0, <1>1, <1>6 DEF MapInv
\* What is to be shown of the map that the call is made on.
<1>10. SUFFICES /\ IsMap(M)
                /\ \A j \in 1 .. n + 1 : f.code[j].call = "middleware" /\ f.code[j].on = m0 =>
                     f.code[j].handler \in ToSet(M.middlewares)
                /\ \A i \in DOMAIN M.routes : \E C \in SUBSET (1 .. n + 1) :
                     /\ IsWay(f.code, C, m0) /\ Lies(f, C, 0, M.routes[i])
                     /\ \A k, l \in C : Follows(C, k, l) =>
                          Guards(f.code, C, k) \subseteq ToSet(M.routes[i].middlewares)
                /\ \A C \in SUBSET (1 .. n + 1) : IsWay(f.code, C, m0) =>
                     \E i \in DOMAIN M.routes : Lies(f, C, 0, M.routes[i])
  <2>1. MapInv(m0)'
    BY <1>1, <1>9, <1>10 DEF MapInv
  <2>2. \A m \in RMaps : MapInv(m)'
    BY <1>0, <1>8, <2>1
  <2>3. build_file_route_map(rfile)'
    BY <1>1 DEF build_file_route_map
  <2> QED  BY <1>1, <1>3, <1>6, <2>2, <2>3 DEF CodeInv
<1>11. /\ \A j \in 1 .. n : f.code[j].call = "middleware" /\ f.code[j].on = m0 =>
            f.code[j].handler \in ToSet(old.middlewares)
       /\ \A i \in DOMAIN old.routes : \E C \in SUBSET (1 .. n + 1) :
            /\ IsWay(f.code, C, m0) /\ Lies(f, C, 0, old.routes[i])
            /\ \A k, l \in C : Follows(C, k, l) =>
                 Guards(f.code, C, k) \subseteq ToSet(old.routes[i].middlewares)
       /\ \A C \in SUBSET (1 .. n) : IsWay(f.code, C, m0) =>
            \E i \in DOMAIN old.routes : Lies(f, C, 0, old.routes[i])
  <2>1. SUBSET (1 .. n) \subseteq SUBSET (1 .. n + 1)
    BY <1>3
  <2> QED  BY <1>9, <2>1 DEF MapInv
<1> HIDE DEF old
<1>12. CASE c.call = "route"
  <2> DEFINE h == Handler(f, n + 1)
             q == Len(old.routes)
             r == [methods |-> c.methods, pattern |-> c.path, handler |-> h, middlewares |-> << >>]
  <2>1. M = route(old, c.methods, c.path, h)
    BY <1>0, <1>12 DEF M, old
  <2>2. IsSeq(c.path) /\ c.path # << >>
    BY <1>4, <1>12 DEF IsCall
  <2>3. /\ IsMap(M) /\ M.middlewares = old.middlewares
        /\ q \in Nat /\ DOMAIN old.routes = 1 .. q /\ DOMAIN M.routes = 1 .. q + 1
        /\ \A i \in 1 .. q : M.routes[i] = old.routes[i]
        /\ M.routes[q + 1] = r
    BY <1>9, <2>1, <2>2, RouteFacts
  <2>4. /\ IsWay(f.code, {n + 1}, m0) /\ Lies(f, {n + 1}, 0, r)
        /\ \A i, j \in {n + 1} : ~Follows({n + 1}, i, j)
    <3>1. r.pattern = c.path /\ r.methods = c.methods /\ r.handler = h
      OBVIOUS
    <3> QED  BY <1>0, <1>3, <1>12, <3>1, RouteAdded DEF c
  <2>5. {n + 1} \in SUBSET (1 .. n + 1) /\ q + 1 \in DOMAIN M.routes
        /\ \A i \in DOMAIN M.routes : i \in 1 .. q \/ i = q + 1
    BY <1>3, <2>3
  <2> HIDE DEF r, q, h
  <2>6. \A j \in 1 .. n + 1 : f.code[j].call = "middleware" /\ f.code[j].on = m0 =>
          f.code[j].handler \in ToSet(M.middlewares)
    BY <1>3, <1>11, <1>12, <2>3 DEF c
  <2>7. \A i \in DOMAIN M.routes : \E C \in SUBSET (1 .. n + 1) :
          /\ IsWay(f.code, C, m0) /\ Lies(f, C, 0, M.routes[i])
          /\ \A k, l \in C : Follows(C, k, l) =>
               Guards(f.code, C, k) \subseteq ToSet(M.routes[i].middlewares)
    <3> SUFFICES ASSUME NEW i \in DOMAIN M.routes
                 PROVE  \E C \in SUBSET (1 .. n + 1) :
                          /\ IsWay(f.code, C, m0) /\ Lies(f, C, 0, M.routes[i])
                          /\ \A k, l \in C : Follows(C, k, l) =>
                               Guards(f.code, C, k) \subseteq ToSet(M.routes[i].middlewares)
      OBVIOUS
    <3>1. CASE i \in 1 .. q
      BY <1>11, <2>3, <3>1
    <3>2. CASE i = q + 1
      BY <2>3, <2>4, <2>5, <3>2
    <3> QED  BY <2>5, <3>1, <3>2
  <2>8. ASSUME NEW C \in SUBSET (1 .. n + 1), IsWay(f.code, C, m0)
        PROVE  \E i \in DOMAIN M.routes : Lies(f, C, 0, M.routes[i])
    <3>1. CASE C \in SUBSET (1 .. n)
      <4>1. PICK i \in DOMAIN old.routes : Lies(f, C, 0, old.routes[i])
        BY <1>11, <2>8, <3>1
      <4>2. i \in DOMAIN M.routes /\ M.routes[i] = old.routes[i]
        BY <2>3
      <4> QED  BY <4>1, <4>2
    <3>2. CASE C = {n + 1}
      BY <2>3, <2>4, <2>5, <3>2
    <3> QED  BY <1>7, <1>12, <2>8, <3>1, <3>2
  <2> QED  BY <2>3, <2>6, <2>7, <2>8
<1>13. CASE c.call = "middleware"
  <2>1. M = middleware(old, c.handler)
    BY <1>0, <1>13 DEF M, old
  <2>2. IsMap(M) /\ M.routes = old.routes /\ ToSet(M.middlewares) = ToSet(old.middlewares) \cup {c.handler}
    BY <1>9, <2>1, MiddlewareFacts
  <2>3. \A j \in 1 .. n + 1 : f.code[j].call = "middleware" /\ f.code[j].on = m0 =>
          f.code[j].handler \in ToSet(M.middlewares)
    BY <1>3, <1>11, <2>2 DEF c
  <2>4. \A C \in SUBSET (1 .. n + 1) : IsWay(f.code, C, m0) =>
          \E i \in DOMAIN M.routes : Lies(f, C, 0, M.routes[i])
    BY <1>7, <1>11, <1>13, <2>2
  <2> QED  BY <1>11, <2>2, <2>3, <2>4
<1>14. CASE c.call = "prefix"
  <2> DEFINE other == rmaps[c.of]
             q == Len(old.routes)
             o == Len(other.routes)
  <2>1. IsSeq(c.path) /\ c.of \in RMaps /\ c.of # c.on
    BY <1>4, <1>14 DEF IsCall
  <2>2. M = prefix(old, c.path, other) /\ MapInv(c.of) /\ IsMap(other)
    BY <1>0, <1>1, <1>14, <2>1 DEF M, old, MapInv
  <2> HIDE DEF other
  <2>3. /\ IsMap(M) /\ M.middlewares = old.middlewares
        /\ q \in Nat /\ DOMAIN old.routes = 1 .. q /\ o \in Nat /\ DOMAIN other.routes = 1 .. o
        /\ DOMAIN M.routes = 1 .. q + o
        /\ \A i \in 1 .. q + o : i \in 1 .. q \/ i - q \in 1 .. o
        /\ \A i \in 1 .. q : M.routes[i] = old.routes[i]
        /\ \A i \in 1 .. o :
             /\ Below(c.path, other.routes[i], M.routes[q + i])
             /\ ToSet(M.routes[q + i].middlewares)
                  = ToSet(other.routes[i].middlewares) \cup ToSet(other.middlewares)
    <3>1. Joined(M, old, q, c.path, other, o)
      BY <1>9, <2>1, <2>2, PrefixFacts
    <3> HIDE DEF q, o
    <3> QED  BY <3>1 DEF Joined
  <2>4. /\ \A j \in 1 .. n : f.code[j].call = "middleware" /\ f.code[j].on = c.of =>
             f.code[j].handler \in ToSet(other.middlewares)
        /\ \A i \in DOMAIN other.routes : \E C \in SUBSET (1 .. n) :
             /\ IsWay(f.code, C, c.of) /\ Lies(f, C, 0, other.routes[i])
             /\ \A k, l \in C : Follows(C, k, l) =>
                  Guards(f.code, C, k) \subseteq ToSet(other.routes[i].middlewares)
        /\ \A C \in SUBSET (1 .. n) : IsWay(f.code, C, c.of) =>
             \E i \in DOMAIN other.routes : Lies(f, C, 0, other.routes[i])
    BY <2>2 DEF MapInv, other
  <2>5. \A i \in DOMAIN other.routes : IsRoute(other.routes[i])
    BY <2>2 DEF IsMap
  <2> HIDE DEF q, o
  <2>6. \A i \in 1 .. o : q + i \in DOMAIN M.routes
    BY <2>3
  <2>7. \A j \in 1 .. n + 1 : f.code[j].call = "middleware" /\ f.code[j].on = m0 =>
          f.code[j].handler \in ToSet(M.middlewares)
    BY <1>3, <1>11, <1>14, <2>3 DEF c
  <2>8. ASSUME NEW i \in 1 .. o, NEW C \in SUBSET (1 .. n), IsWay(f.code, C, c.of),
               Lies(f, C, 0, other.routes[i])
        PROVE  IsWay(f.code, C \cup {n + 1}, m0) /\ Lies(f, C \cup {n + 1}, 0, M.routes[q + i])
    <3>1. IsWay(f.code, C \cup {n + 1}, m0)
      BY <1>3, <1>14, <2>8, WayAdded, <1>0 DEF c
    <3>2. IsRoute(other.routes[i]) /\ Below(c.path, other.routes[i], M.routes[q + i])
      BY <2>3, <2>5
    <3> QED  BY <1>3, <1>14, <2>8, <3>1, <3>2, Extended DEF c
  <2>9. ASSUME NEW i \in 1 .. o
        PROVE  \E D \in SUBSET (1 .. n + 1) :
                 /\ IsWay(f.code, D, m0) /\ Lies(f, D, 0, M.routes[q + i])
                 /\ \A k, l \in D : Follows(D, k, l) =>
                      Guards(f.code, D, k) \subseteq ToSet(M.routes[q + i].middlewares)
    <3>1. PICK C \in SUBSET (1 .. n) :
             /\ IsWay(f.code, C, c.of) /\ Lies(f, C, 0, other.routes[i])
             /\ \A k, l \in C : Follows(C, k, l) =>
                  Guards(f.code, C, k) \subseteq ToSet(other.routes[i].middlewares)
      BY <2>3, <2>4
    <3> DEFINE D == C \cup {n + 1}
    <3>2. IsWay(f.code, D, m0) /\ Lies(f, D, 0, M.routes[q + i]) /\ C # {}
      BY <2>8, <3>1 DEF IsWay
    <3>3. ASSUME NEW k \in D, NEW l \in D, Follows(D, k, l)
          PROVE  Guards(f.code, D, k) \subseteq ToSet(M.routes[q + i].middlewares)
      <4>1. ~Follows(D, n + 1, n + 1) /\ \A j \in C : ~Follows(D, n + 1, j)
        BY <1>3, <3>2, AddedCall
      <4>2. k \in C
        BY <3>3, <4>1
      <4>3. CASE l \in C
        <5>1. Follows(C, k, l)
          BY <1>3, <3>2, <3>3, <4>2, <4>3, AddedCall
        <5>2. Guards(f.code, D, k) \subseteq Guards(f.code, C, k)
          BY <1>3, <3>2, <4>2, <4>3, <5>1, GuardsAdded
        <5> QED  BY <2>3, <3>1, <4>2, <4>3, <5>1, <5>2
      <4>4. CASE l = n + 1
        <5>1. IsFinal(C, k)
          BY <1>3, <3>2, <3>3, <4>2, <4>4, AddedCall
        <5>2. f.code[k].on = c.of
          BY <3>1, <4>2, <5>1 DEF IsWay
        <5>3. ASSUME NEW x \in Guards(f.code, D, k)
              PROVE  x \in ToSet(other.middlewares)
          <6>0. Follows(D, k, n + 1) /\ n + 1 \in D
            BY <3>3, <4>4
          <6> HIDE DEF D
          <6>1. PICK j \in DOMAIN f.code : /\ j < n + 1 /\ x = f.code[j].handler
                                           /\ f.code[j].call = "middleware" /\ f.code[j].on = f.code[k].on
            BY <5>3, <6>0 DEF Guards
          <6>2. j \in 1 .. n
            BY <1>3, <6>1, CodeFacts
          <6> QED  BY <2>4, <5>2, <6>1, <6>2
        <5> QED  BY <2>3, <5>3
      <4> QED  BY <4>3, <4>4
    <3>4. D \in SUBSET (1 .. n + 1)
      BY <1>3
    <3> QED  BY <3>2, <3>3, <3>4
  <2>10. ASSUME NEW i \in DOMAIN M.routes
         PROVE  \E C \in SUBSET (1 .. n + 1) :
                  /\ IsWay(f.code, C, m0) /\ Lies(f, C, 0, M.routes[i])
                  /\ \A k, l \in C : Follows(C, k, l) =>
                       Guards(f.code, C, k) \subseteq ToSet(M.routes[i].middlewares)
    <3>1. CASE i \in 1 .. q
      BY <1>11, <2>3, <3>1
    <3>2. CASE i - q \in 1 .. o
      <4>1. q + (i - q) = i
        BY <2>3
      <4> QED  BY <2>9, <3>2, <4>1
    <3> QED  BY <2>3, <3>1, <3>2
  <2>11. ASSUME NEW C \in SUBSET (1 .. n + 1), IsWay(f.code, C, m0)
         PROVE  \E i \in DOMAIN M.routes : Lies(f, C, 0, M.routes[i])
    <3>1. CASE C \in SUBSET (1 .. n)
      <4>1. PICK i \in DOMAIN old.routes : Lies(f, C, 0, old.routes[i])
        BY <1>11, <2>11, <3>1
      <4>2. i \in DOMAIN M.routes /\ M.routes[i] = old.routes[i]
        BY <2>3
      <4> QED  BY <4>1, <4>2
    <3>2. CASE n + 1 \in C /\ IsWay(f.code, C \ {n + 1}, c.of)
      <4>1. C \ {n + 1} \in SUBSET (1 .. n) /\ (C \ {n + 1}) \cup {n + 1} = C
        BY <1>3, <3>2
      <4>2. PICK i \in DOMAIN other.routes : Lies(f, C \ {n + 1}, 0, other.routes[i])
        BY <2>4, <3>2, <4>1
      <4>3. Lies(f, C, 0, M.routes[q + i])
        BY <2>3, <2>8, <3>2, <4>1, <4>2
      <4> QED  BY <2>3, <2>6, <4>2, <4>3
    <3> QED  BY <1>7, <1>14, <2>11, <3>1, <3>2
  <2> QED  BY <2>3, <2>7, <2>10, <2>11
<1> QED  BY <1>5, <1>12, <1>13, <1>14

\* The files of a project.
LEMMA FileFacts ==
  ASSUME RootInv, rstage # "none", NEW f \in walk_dir(rtree)
  PROVE  /\ CodeOK(f) /\ IsSeq(path_pattern(f))
         /\ f.dirs \in Seq(ToSet(RNames)) /\ f.stem \in ToSet(RNames)
<1>1. f \in rtree /\ rtree \in RTrees
  BY DEF RootInv, walk_dir
<1>2. /\ f.dirs \in Seq(ToSet(RNames)) /\ f.stem \in ToSet(RNames) /\ IsSeq(RNames)
      /\ IsSeq(f.code) /\ \A k \in DOMAIN f.code : IsCall(f.code[k])
  BY <1>1, RoutingAssumption
<1>3. CodeOK(f)
  BY <1>2 DEF CodeOK
<1> DEFINE n == Len(f.dirs)
           s == [i \in DOMAIN f.dirs |-> stem_to_pattern(f.dirs[i])]
           t == IF f.stem \in {"index", "_root"} THEN << >> ELSE <<stem_to_pattern(f.stem)>>
           S == {stem_to_pattern(f.dirs[i]) : i \in DOMAIN f.dirs}
<1>4. n \in Nat /\ DOMAIN f.dirs = 1 .. n
  BY <1>2, LenProperties
<1>5. IsSeq(s)
  <2>1. s = [i \in 1 .. n |-> stem_to_pattern(f.dirs[i])]
    BY <1>4
  <2>2. \A i \in 1 .. n : stem_to_pattern(f.dirs[i]) \in S
    BY <1>4
  <2> HIDE DEF S
  <2>3. [i \in 1 .. n |-> stem_to_pattern(f.dirs[i])] \in Seq(S)
    BY <1>4, <2>2
  <2> QED  BY <2>1, <2>3, SeqIsSeq
<1>6. IsSeq(t)
  <2>1. << >> \in Seq({}) /\ <<stem_to_pattern(f.stem)>> \in Seq({stem_to_pattern(f.stem)})
    BY EmptySeq
  <2>2. IsSeq(<< >>) /\ IsSeq(<<stem_to_pattern(f.stem)>>)
    BY <2>1, SeqIsSeq
  <2> QED  BY <2>2
<1>7. path_pattern(f) = s \o t
  BY DEF path_pattern
<1> HIDE DEF s, t
<1>8. IsSeq(s \o t)
  BY <1>5, <1>6, ConcatFacts
<1> QED  BY <1>2, <1>3, <1>7, <1>8

\* A new route map has no routes.
LEMMA NewMap == IsMap(NewRouteMap) /\ NewRouteMap.routes = << >> /\ DOMAIN NewRouteMap.routes = {}
<1>1. << >> \in Seq(ToSet(<< >>)) /\ DOMAIN << >> = {}
  BY EmptySeq
<1>2. NewRouteMap.routes = << >> /\ NewRouteMap.middlewares = << >>
      /\ DOMAIN NewRouteMap = {"routes", "middlewares"}
  BY DEF NewRouteMap
<1> QED  BY <1>1, <1>2 DEF IsMap, IsSeq

\* The code of a file begins with empty maps.
LEMMA ImportStep ==
  ASSUME NEW f, CodeOK(f), r_import(f)
  PROVE  CodeInv'
<1>1. /\ build_file_route_map(f) /\ rtodo' = rtodo /\ rfile' = f /\ rdone' = 0
      /\ rmaps' = [m \in RMaps |-> NewRouteMap]
  BY DEF r_import
<1>2. 0 \in 0 .. Len(f.code)
  BY CodeFacts
<1>3. /\ rmaps' \in [RMaps -> {rmaps'[m] : m \in RMaps}]
      /\ \A m \in RMaps : rmaps'[m] = NewRouteMap
  BY <1>1
<1>4. ASSUME NEW m \in RMaps
      PROVE  MapInv(m)'
  <2>1. rmaps'[m] = NewRouteMap
    BY <1>3
  <2>0. 1 .. 0 = {}
    OBVIOUS
  <2>2. 1 .. 0 = {} /\ \A C \in SUBSET (1 .. 0) : ~IsWay(f.code, C, m)
    BY <2>0, Zenon DEF IsWay
  <2>3. IsMap(rmaps'[m]) /\ DOMAIN rmaps'[m].routes = {}
    BY <2>1, NewMap
  <2> QED  BY <1>1, <2>2, <2>3 DEF MapInv
<1>5. build_file_route_map(rfile)'
  BY <1>1 DEF build_file_route_map
<1> QED  BY <1>1, <1>2, <1>3, <1>4, <1>5 DEF CodeInv

\* The handler of a route is that of the first call on its way.
LEMMA HandlerOf ==
  ASSUME NEW f, CodeOK(f), NEW C \in Ways(f), NEW b, NEW r, Lies(f, C, b, r)
  PROVE  /\ r.handler.file = f /\ IsFirst(C, r.handler.at)
         /\ \A k \in C : IsFirst(C, k) => r.methods = f.code[k].methods
<1>1. PICK at \in [C -> 0 .. Len(r.pattern)] : LiesAt(f, C, b, r, at)
  BY DEF Lies
<1>2. \A k \in C : IsFirst(C, k) => r.handler = Handler(f, k) /\ r.methods = f.code[k].methods
  BY <1>1 DEF LiesAt
<1>3. C \subseteq DOMAIN f.code /\ C # {}
  BY DEF Ways, IsWay
<1>4. PICK k \in C : IsFirst(C, k)
  BY <1>3, CodeFacts, FirstExists
<1>5. r.handler = [file |-> f, at |-> k]
  BY <1>2, <1>4 DEF Handler
<1>6. r.handler.file = f /\ r.handler.at = k
  BY <1>5
<1> QED  BY <1>2, <1>4, <1>6, Zenon

\* A route of the map that a file exports, below the path of the file.
LEMMA RouteBelow ==
  ASSUME NEW f, CodeOK(f), IsSeq(path_pattern(f)), NEW C \in Ways(f),
         NEW r, IsRoute(r), NEW q, Below(path_pattern(f), r, q), Lies(f, C, 0, r)
  PROVE  RouteOf(f, C, q)
<1> DEFINE p == path_pattern(f)
<1>1. C \subseteq DOMAIN f.code /\ IsWay(f.code, C, "export")
  BY DEF Ways
<1> HIDE DEF p
<1>2. Lies(f, C, Len(p), q)
  BY <1>1, Shifted DEF p
<1>3. \A i \in DOMAIN p : q.pattern[i] = p[i]
  BY PatternFacts DEF p
<1> QED  BY <1>2, <1>3 DEF RouteOf, p

\* At the end of a file's code its middlewares are those of the maps on the way.
LEMMA RouteGuarded ==
  ASSUME NEW f, CodeOK(f), NEW C \in Ways(f), NEW R, NEW E,
         \A j \in DOMAIN f.code : f.code[j].call = "middleware" /\ f.code[j].on = "export" =>
            f.code[j].handler \in E,
         \A k, l \in C : Follows(C, k, l) => Guards(f.code, C, k) \subseteq R
  PROVE  \A k \in C : Guards(f.code, C, k) \subseteq R \cup E
<1> SUFFICES ASSUME NEW k \in C PROVE Guards(f.code, C, k) \subseteq R \cup E
  OBVIOUS
<1>1. C \subseteq DOMAIN f.code /\ IsWay(f.code, C, "export")
  BY DEF Ways
<1>2. CASE IsFinal(C, k)
  <2>1. f.code[k].on = "export"
    BY <1>1, <1>2 DEF IsWay
  <2> QED  BY <2>1 DEF Guards
<1>3. CASE ~IsFinal(C, k)
  <2>1. PICK l \in C : Follows(C, k, l)
    BY <1>1, <1>3, CodeFacts, FollowerExists
  <2> QED  BY <2>1
<1> QED  BY <1>2, <1>3

\* A file is added to the root map.
LEMMA GenerateStep ==
  ASSUME CodeInv, RootInv, codegen_route_map
  PROVE  RootInv'
<1> DEFINE f == rfile
           p == path_pattern(f)
           E == rmaps["export"]
           n == Len(rroot.routes)
           l == Len(E.routes)
           added == walk_dir(rtree) \ rtodo
           rs == rroot.routes
           rt == rroot'.routes
<1>1. /\ rstage = "code" /\ rstage' = "import" /\ rdone = Len(f.code)
      /\ rroot' = prefix(rroot, p, E) /\ rtodo' = rtodo \ {f} /\ rtree' = rtree
  BY DEF codegen_route_map
<1>2. build_file_route_map(f) /\ MapInv("export") /\ f \in rtodo
  BY <1>1, RoutingAssumption DEF CodeInv, build_file_route_map
<1>3. /\ rtree \in RTrees /\ rtodo \subseteq walk_dir(rtree) /\ IsMap(rroot) /\ rroot.middlewares = << >>
      /\ \A i \in DOMAIN rs : \E g \in added : \E C \in Ways(g) :
           RouteOf(g, C, rs[i]) /\ \A k \in C : Guards(g.code, C, k) \subseteq ToSet(rs[i].middlewares)
      /\ \A g \in added : \A C \in Ways(g) : \E i \in DOMAIN rs : RouteOf(g, C, rs[i])
      /\ \A g \in added : \A h \in rtodo : file_path_order(g, h)
      /\ \A i, j \in DOMAIN rs : i < j =>
           rs[i].handler.file = rs[j].handler.file
             \/ file_path_order(rs[i].handler.file, rs[j].handler.file)
  BY <1>1 DEF RootInv
<1>4. CodeOK(f) /\ IsSeq(p) /\ f \in walk_dir(rtree) /\ rstage # "none"
  BY <1>1, <1>2, <1>3, FileFacts
<1>5. IsMap(E) /\ DOMAIN f.code = 1 .. rdone /\ SUBSET (1 .. rdone) = SUBSET DOMAIN f.code
  BY <1>1, <1>2, <1>4, CodeFacts DEF MapInv
<1>6. Joined(rroot', rroot, n, p, E, l)
  BY <1>1, <1>3, <1>4, <1>5, PrefixFacts
<1>7. /\ \A j \in DOMAIN f.code : f.code[j].call = "middleware" /\ f.code[j].on = "export" =>
           f.code[j].handler \in ToSet(E.middlewares)
      /\ \A i \in DOMAIN E.routes : \E C \in Ways(f) :
           /\ Lies(f, C, 0, E.routes[i])
           /\ \A k, m \in C : Follows(C, k, m) => Guards(f.code, C, k) \subseteq ToSet(E.routes[i].middlewares)
      /\ \A C \in Ways(f) : \E i \in DOMAIN E.routes : Lies(f, C, 0, E.routes[i])
  BY <1>2, <1>5 DEF MapInv, Ways
<1>8. \A i \in DOMAIN E.routes : IsRoute(E.routes[i])
  BY <1>5 DEF IsMap
<1>9. walk_dir(rtree') \ rtodo' = added \cup {f}
  BY <1>1, <1>4
<1> HIDE DEF f, p, E, n, l, added
<1>10. /\ IsMap(rroot') /\ rroot'.middlewares = << >>
       /\ n \in Nat /\ DOMAIN rs = 1 .. n /\ l \in Nat /\ DOMAIN E.routes = 1 .. l
       /\ DOMAIN rt = 1 .. n + l
       /\ \A i \in 1 .. n + l : i \in 1 .. n \/ i - n \in 1 .. l
       /\ \A i \in 1 .. n : rt[i] = rs[i]
       /\ \A i \in 1 .. l :
            /\ Below(p, E.routes[i], rt[n + i])
            /\ ToSet(rt[n + i].middlewares) = ToSet(E.routes[i].middlewares) \cup ToSet(E.middlewares)
  BY <1>3, <1>6 DEF Joined
<1> HIDE DEF rs, rt
<1>11. /\ \A i \in 1 .. n : i \in DOMAIN rt
       /\ \A i \in 1 .. l : n + i \in DOMAIN rt
       /\ \A i \in DOMAIN rt : i \in Nat /\ (i \in 1 .. n \/ (i - n \in 1 .. l /\ n + (i - n) = i))
  BY <1>10
\* The routes that are added.
<1>12. ASSUME NEW i \in 1 .. l
       PROVE  /\ rt[n + i].handler.file = f
              /\ \E C \in Ways(f) : /\ RouteOf(f, C, rt[n + i])
                                    /\ \A k \in C : Guards(f.code, C, k) \subseteq ToSet(rt[n + i].middlewares)
  <2>1. PICK C \in Ways(f) :
          /\ Lies(f, C, 0, E.routes[i])
          /\ \A k, m \in C : Follows(C, k, m) => Guards(f.code, C, k) \subseteq ToSet(E.routes[i].middlewares)
    BY <1>7, <1>10
  <2>2. RouteOf(f, C, rt[n + i])
    BY <1>4, <1>8, <1>10, <2>1, RouteBelow DEF p
  <2>3. \A k \in C : Guards(f.code, C, k) \subseteq ToSet(rt[n + i].middlewares)
    <3> DEFINE R == ToSet(E.routes[i].middlewares)
               S == ToSet(E.middlewares)
    <3>1. ToSet(rt[n + i].middlewares) = R \cup S
      BY <1>10
    <3>2. /\ \A k, m \in C : Follows(C, k, m) => Guards(f.code, C, k) \subseteq R
          /\ \A j \in DOMAIN f.code : f.code[j].call = "middleware" /\ f.code[j].on = "export" =>
               f.code[j].handler \in S
      BY <1>7, <2>1
    <3> HIDE DEF R, S
    <3>3. \A k \in C : Guards(f.code, C, k) \subseteq R \cup S
      BY <1>4, <3>2, RouteGuarded
    <3> QED  BY <3>1, <3>3
  <2>4. rt[n + i].handler.file = f
    BY <1>4, <2>2, HandlerOf DEF RouteOf
  <2> QED  BY <2>2, <2>3, <2>4
<1>13. ASSUME NEW i \in 1 .. n
       PROVE  rs[i].handler.file \in added
  <2>1. PICK g \in added : \E C \in Ways(g) : RouteOf(g, C, rs[i])
    BY <1>3, <1>10
  <2>2. PICK C \in Ways(g) : RouteOf(g, C, rs[i])
    BY <2>1
  <2>3. CodeOK(g)
    BY <1>4, FileFacts DEF added
  <2> QED  BY <2>2, <2>3, HandlerOf DEF RouteOf
<1>14. ASSUME NEW i \in DOMAIN rt
       PROVE  \E g \in added \cup {f} : \E C \in Ways(g) :
                RouteOf(g, C, rt[i]) /\ \A k \in C : Guards(g.code, C, k) \subseteq ToSet(rt[i].middlewares)
  <2>1. CASE i \in 1 .. n
    BY <1>3, <1>10, <2>1
  <2>2. CASE i - n \in 1 .. l /\ n + (i - n) = i
    BY <1>12, <2>2
  <2> QED  BY <1>11, <2>1, <2>2
<1>15. ASSUME NEW g \in added \cup {f}, NEW C \in Ways(g)
       PROVE  \E i \in DOMAIN rt : RouteOf(g, C, rt[i])
  <2>1. CASE g \in added
    BY <1>3, <1>10, <1>11, <2>1
  <2>2. CASE g = f
    <3>1. PICK i \in 1 .. l : Lies(f, C, 0, E.routes[i])
      BY <1>7, <1>10, <2>2
    <3>2. RouteOf(f, C, rt[n + i])
      BY <1>4, <1>8, <1>10, <2>2, <3>1, RouteBelow DEF p
    <3> QED  BY <1>11, <2>2, <3>2
  <2> QED  BY <2>1, <2>2
<1>16. \A g \in added \cup {f} : \A h \in rtodo \ {f} : file_path_order(g, h)
  BY <1>2, <1>3 DEF build_file_route_map
<1>17. ASSUME NEW i \in DOMAIN rt, NEW j \in DOMAIN rt, i < j
       PROVE  rt[i].handler.file = rt[j].handler.file
                \/ file_path_order(rt[i].handler.file, rt[j].handler.file)
  <2>1. CASE i \in 1 .. n /\ j \in 1 .. n
    BY <1>3, <1>10, <1>17, <2>1
  <2>2. CASE i \in 1 .. n /\ j - n \in 1 .. l /\ n + (j - n) = j
    <3>1. rt[j].handler.file = f
      BY <1>12, <2>2
    <3>2. rt[i].handler.file \in added
      BY <1>10, <1>13, <2>2
    <3> QED  BY <1>2, <1>3, <3>1, <3>2
  <2>3. CASE (i - n \in 1 .. l /\ n + (i - n) = i) /\ (j - n \in 1 .. l /\ n + (j - n) = j)
    BY <1>12, <2>3
  <2>4. ~((i - n \in 1 .. l /\ n + (i - n) = i) /\ j \in 1 .. n)
    BY <1>10, <1>11, <1>17
  <2> QED  BY <1>11, <2>1, <2>2, <2>3, <2>4
<1> QED  BY <1>1, <1>3, <1>9, <1>10, <1>14, <1>15, <1>16, <1>17 DEF RootInv, f, rt

-----------------------------------------------------------------------------
(* The routes of a version.                                                *)

\* The same route, with the same middlewares.
Same(r, q) ==
  /\ q.pattern = r.pattern /\ q.handler = r.handler /\ q.methods = r.methods
  /\ ToSet(q.middlewares) = ToSet(r.middlewares)

\* The router has the routes of a map without middlewares, as they are.
LEMMA RouterFacts ==
  ASSUME NEW map, IsMap(map), map.middlewares = << >>
  PROVE  /\ DOMAIN Router(map) = DOMAIN map.routes
         /\ \A i \in DOMAIN map.routes : IsRoute(Router(map)[i]) /\ Same(map.routes[i], Router(map)[i])
<1> DEFINE o == map.routes
           t == [i \in DOMAIN o |-> [o[i] EXCEPT !.middlewares = @ \o map.middlewares]]
<1>1. Router(map) = t /\ DOMAIN t = DOMAIN o
  BY DEF Router
<1>2. ASSUME NEW i \in DOMAIN o
      PROVE  IsRoute(t[i]) /\ Same(o[i], t[i])
  <2>1. IsRoute(o[i]) /\ IsSeq(map.middlewares)
    BY DEF IsMap
  <2>2. /\ DOMAIN t[i] = {"methods", "pattern", "handler", "middlewares"}
        /\ t[i].pattern = o[i].pattern /\ t[i].handler = o[i].handler /\ t[i].methods = o[i].methods
        /\ t[i].middlewares = o[i].middlewares \o << >>
    BY <2>1 DEF IsRoute
  <2> HIDE DEF t
  <2>3. o[i].middlewares \o << >> = o[i].middlewares
    BY <2>1, ConcatEmptySeq DEF IsRoute, IsSeq
  <2>4. t[i].middlewares = o[i].middlewares
    BY <2>2, <2>3
  <2> QED  BY <2>1, <2>2, <2>4 DEF IsRoute, Same
<1> HIDE DEF t
<1> QED  BY <1>1, <1>2

\* Sequences with the same places have the same length.
LEMMA SameInterval ==
  ASSUME NEW a \in Nat, NEW b \in Nat, 1 .. a = 1 .. b
  PROVE  a = b
<1>1. \A x, y \in Nat : y \in 1 .. x <=> 1 <= y /\ y <= x
  OBVIOUS
<1>2. a \in 1 .. b <=> 1 <= a
  BY <1>1
<1>3. b \in 1 .. a <=> 1 <= b
  BY <1>1
<1> QED  BY <1>1, <1>2, <1>3

\* The special routes are in front.
LEMMA SpecialFacts ==
  /\ IsMap(specialBefore) /\ specialBefore.middlewares = << >> /\ Len(specialBefore.routes) = 2
  /\ specialBefore.routes[1].pattern = <<"">>
  /\ specialBefore.routes[2].pattern = <<"__chiselstrike", "routes">>
  /\ specialBefore.routes[1].handler.file = Special /\ specialBefore.routes[2].handler.file = Special
<1> DEFINE G == {"GET"}
           p == <<"">>
           q == <<"__chiselstrike", "routes">>
           g == Handler(Special, 1)
           h == Handler(Special, 2)
           A == route(NewRouteMap, G, p, g)
           B == route(A, G, q, h)
<1>1. specialBefore = B
  BY DEF specialBefore
<1>2. g.file = Special /\ h.file = Special
  BY DEF Handler
<1>3. IsSeq(p) /\ p # << >> /\ IsSeq(q) /\ q # << >>
  <2>1. p \in Seq({""}) /\ q \in Seq({"__chiselstrike", "routes"})
    OBVIOUS
  <2> QED  BY <2>1, SeqIsSeq
<1>4. IsMap(NewRouteMap) /\ NewRouteMap.routes = << >> /\ Len(<< >>) = 0 /\ NewRouteMap.middlewares = << >>
  BY NewMap, EmptySeq DEF NewRouteMap
<1> HIDE DEF G, p, q, g, h
<1>5. /\ IsMap(A) /\ A.middlewares = << >> /\ DOMAIN A.routes = 1 .. 1
      /\ A.routes[1] = [methods |-> G, pattern |-> p, handler |-> g, middlewares |-> << >>]
  <2> DEFINE z == Len(NewRouteMap.routes)
             r == [methods |-> G, pattern |-> p, handler |-> g, middlewares |-> << >>]
  <2>0. A = route(NewRouteMap, G, p, g)
    OBVIOUS
  <2> HIDE DEF A
  <2>1. /\ IsMap(A) /\ A.middlewares = NewRouteMap.middlewares /\ DOMAIN A.routes = 1 .. z + 1
        /\ A.routes[z + 1] = r
    BY <1>3, <1>4, <2>0, RouteFacts
  <2>2. z = 0 /\ z + 1 = 1
    BY <1>4
  <2> HIDE DEF z
  <2> QED  BY <1>4, <2>1, <2>2
<1> HIDE DEF A
<1>6. Len(A.routes) = 1
  <2>1. Len(A.routes) \in Nat /\ DOMAIN A.routes = 1 .. Len(A.routes)
    BY <1>5, SeqFacts DEF IsMap
  <2>2. 1 .. Len(A.routes) = 1 .. 1
    BY <1>5, <2>1
  <2> QED  BY <2>1, <2>2, SameInterval
<1>7. /\ IsMap(B) /\ B.middlewares = << >> /\ DOMAIN B.routes = 1 .. 2
      /\ \A i \in 1 .. 1 : B.routes[i] = A.routes[i]
      /\ B.routes[2] = [methods |-> G, pattern |-> q, handler |-> h, middlewares |-> << >>]
  <2> DEFINE z == Len(A.routes)
             r == [methods |-> G, pattern |-> q, handler |-> h, middlewares |-> << >>]
  <2>0. B = route(A, G, q, h)
    OBVIOUS
  <2> HIDE DEF B
  <2>1. /\ IsMap(B) /\ B.middlewares = A.middlewares /\ DOMAIN B.routes = 1 .. z + 1
        /\ \A i \in 1 .. z : B.routes[i] = A.routes[i]
        /\ B.routes[z + 1] = r
    BY <1>3, <1>5, <2>0, RouteFacts
  <2>2. z = 1 /\ z + 1 = 2
    BY <1>6
  <2> HIDE DEF z
  <2> QED  BY <1>5, <2>1, <2>2
<1> HIDE DEF B
<1>8. Len(B.routes) = 2
  <2>1. Len(B.routes) \in Nat /\ DOMAIN B.routes = 1 .. Len(B.routes)
    BY <1>7, SeqFacts DEF IsMap
  <2>2. 1 .. Len(B.routes) = 1 .. 2
    BY <1>7, <2>1
  <2> QED  BY <2>1, <2>2, SameInterval
<1>9. /\ B.routes[1] = [methods |-> G, pattern |-> p, handler |-> g, middlewares |-> << >>]
      /\ B.routes[2] = [methods |-> G, pattern |-> q, handler |-> h, middlewares |-> << >>]
  BY <1>5, <1>7
<1>10. B.routes[1].pattern = p /\ B.routes[1].handler = g /\ B.routes[2].pattern = q /\ B.routes[2].handler = h
  BY <1>9
<1> QED  BY <1>1, <1>2, <1>7, <1>8, <1>10 DEF p, q

\* The two special routes come first, then those of the root map in their order.
LEMMA ServedRoutes ==
  ASSUME RootInv, ServeInv, rstage = "serve"
  PROVE  LET n == Len(rroot.routes)
         IN /\ n \in Nat /\ DOMAIN rroot.routes = 1 .. n /\ DOMAIN routes = 1 .. 2 + n
            /\ \A i \in DOMAIN routes : IsRoute(routes[i])
            /\ routes[1].pattern = <<"">> /\ routes[2].pattern = <<"__chiselstrike", "routes">>
            /\ routes[1].handler.file = Special /\ routes[2].handler.file = Special
            /\ \A i \in 1 .. n : Same(rroot.routes[i], routes[2 + i])
            /\ \A i \in DOMAIN routes : i \in {1, 2} \/ (i - 2 \in 1 .. n /\ 2 + (i - 2) = i)
<1> DEFINE n == Len(rroot.routes)
           S == specialBefore
           P == prefix(S, << >>, rroot)
           rs == rroot.routes
<1>1. IsMap(rroot) /\ rroot.middlewares = << >> /\ routes = Router(P)
  BY DEF RootInv, ServeInv
<1>2. IsSeq(<< >>) /\ ToSet(<< >>) = {}
  BY EmptySeq DEF IsSeq, ToSet
<1>3. /\ IsMap(S) /\ S.middlewares = << >> /\ Len(S.routes) = 2
      /\ S.routes[1].pattern = <<"">> /\ S.routes[2].pattern = <<"__chiselstrike", "routes">>
      /\ S.routes[1].handler.file = Special /\ S.routes[2].handler.file = Special
  BY SpecialFacts
<1> HIDE DEF S
<1>4. Joined(P, S, 2, << >>, rroot, n)
  BY <1>1, <1>2, <1>3, PrefixFacts
<1> HIDE DEF P, n
<1>5. /\ IsMap(P) /\ P.middlewares = << >> /\ n \in Nat /\ DOMAIN rs = 1 .. n
      /\ DOMAIN P.routes = 1 .. 2 + n
      /\ \A i \in 1 .. 2 + n : i \in 1 .. 2 \/ i - 2 \in 1 .. n
      /\ \A i \in 1 .. 2 : P.routes[i] = S.routes[i]
      /\ \A i \in 1 .. n : Below(<< >>, rs[i], P.routes[2 + i])
           /\ ToSet(P.routes[2 + i].middlewares) = ToSet(rs[i].middlewares) \cup ToSet(<< >>)
  BY <1>1, <1>3, <1>4 DEF Joined
<1>6. /\ DOMAIN routes = 1 .. 2 + n
      /\ \A i \in DOMAIN routes : IsRoute(routes[i]) /\ Same(P.routes[i], routes[i])
  BY <1>1, <1>5, RouterFacts
<1>7. \A i \in DOMAIN rs : IsRoute(rs[i])
  BY <1>1 DEF IsMap
<1> HIDE DEF rs
<1>8. ASSUME NEW i \in 1 .. n
      PROVE  Same(rs[i], routes[2 + i])
  <2>1. 2 + i \in DOMAIN routes
    BY <1>5, <1>6
  <2>2. << >> \o rs[i].pattern = rs[i].pattern
    BY <1>5, <1>7, ConcatEmptySeq DEF IsRoute, IsSeq
  <2>3. Same(rs[i], P.routes[2 + i])
    BY <1>2, <1>5, <2>2 DEF Below, Same
  <2>4. Same(P.routes[2 + i], routes[2 + i])
    BY <1>6, <2>1
  <2> QED  BY <2>3, <2>4 DEF Same
<1>9. 1 \in DOMAIN routes /\ 2 \in DOMAIN routes /\ 1 \in 1 .. 2 /\ 2 \in 1 .. 2
  BY <1>5, <1>6
<1>10. Same(S.routes[1], routes[1]) /\ Same(S.routes[2], routes[2])
  BY <1>5, <1>6, <1>9
<1>11. \A i \in DOMAIN routes : i \in {1, 2} \/ (i - 2 \in 1 .. n /\ 2 + (i - 2) = i)
  BY <1>5, <1>6
<1>12. /\ routes[1].pattern = <<"">> /\ routes[2].pattern = <<"__chiselstrike", "routes">>
       /\ routes[1].handler.file = Special /\ routes[2].handler.file = Special
  BY <1>3, <1>10 DEF Same
<1> QED  BY <1>5, <1>6, <1>8, <1>11, <1>12 DEF n, rs

\* lookup returns the first of the routes that match.
LEMMA Looked ==
  ASSUME RootInv, ServeInv, rstage = "serve", NEW method, NEW path
  PROVE  LET l == lookup(method, path)
         IN /\ l.found \in {"match", "not_found", "method_not_allowed"}
            /\ l.found = "match" <=> \E i \in DOMAIN routes : match(routes[i], method, path)
            /\ l.found = "not_found" <=>
                 /\ \A i \in DOMAIN routes : ~match(routes[i], method, path)
                 /\ \A i \in DOMAIN routes : ~testPathOnly(routes[i], path)
            /\ l.found = "match" => \E i \in DOMAIN routes :
                 /\ l.route = routes[i] /\ match(routes[i], method, path)
                 /\ \A j \in DOMAIN routes : match(routes[j], method, path) => i <= j
<1> DEFINE T == {i \in DOMAIN routes : match(routes[i], method, path)}
           first == CHOOSE i \in T : \A j \in T : i <= j
           l == lookup(method, path)
<1>1. l = IF T # {}
          THEN [found |-> "match", route |-> routes[first]]
          ELSE [found |-> IF \E i \in DOMAIN routes : testPathOnly(routes[i], path)
                          THEN "method_not_allowed" ELSE "not_found",
                route |-> << >>]
  BY DEF lookup
<1>2. DOMAIN routes \subseteq Nat
  <2>1. PICK n \in Nat : DOMAIN routes = 1 .. 2 + n
    BY ServedRoutes
  <2> QED  BY <2>1
<1>3. CASE T = {}
  <2>1. \A i \in DOMAIN routes : ~match(routes[i], method, path)
    BY <1>3
  <2>2. l.found = IF \E i \in DOMAIN routes : testPathOnly(routes[i], path)
                  THEN "method_not_allowed" ELSE "not_found"
    <3> DEFINE x == IF \E i \in DOMAIN routes : testPathOnly(routes[i], path)
                    THEN "method_not_allowed" ELSE "not_found"
    <3>1. l = [found |-> x, route |-> << >>]
      BY <1>1, <1>3
    <3> HIDE DEF x, l
    <3>2. l.found = x
      BY <3>1
    <3> QED  BY <3>2 DEF x
  <2> HIDE DEF l
  <2>3. l.found # "match" /\ (l.found = "not_found" <=> \A i \in DOMAIN routes : ~testPathOnly(routes[i], path))
        /\ l.found \in {"not_found", "method_not_allowed"}
    BY <2>2
  <2> QED  BY <2>1, <2>3 DEF l
<1>4. CASE T # {}
  <2>1. T \subseteq Nat
    BY <1>2
  <2>2. l.found = "match" /\ l.route = routes[first]
    BY <1>1, <1>4
  <2> HIDE DEF l, T
  <2>3. \E i \in T : \A j \in T : i <= j
    BY <1>4, <2>1, LeastOf
  <2>4. first \in T /\ \A j \in T : first <= j
    BY <2>3
  <2> HIDE DEF first
  <2>5. /\ first \in DOMAIN routes /\ match(routes[first], method, path)
        /\ \A j \in DOMAIN routes : match(routes[j], method, path) => first <= j
    BY <2>4 DEF T
  <2> QED  BY <2>2, <2>5 DEF l
<1> QED  BY <1>3, <1>4

-----------------------------------------------------------------------------
(* The steps.                                                              *)

\* The chain of a request is entered at its first element.
LEMMA RequestStep ==
  ASSUME RootInv, ServeInv, NEW req \in RRequests, r_request(req)
  PROVE  ServeInv' /\ ChainCalls'
<1>1. /\ rstage = "serve" /\ rstage' = "serve" /\ rreq' = req /\ rmatch' = lookup(req.method, req.path)
      /\ rcalls' = IF rmatch'.found = "match"
                   THEN [i \in 1 .. Len(rmatch'.route.middlewares) + 1 |-> IF i = 1 THEN 1 ELSE 0]
                   ELSE << >>
      /\ rtodo' = rtodo /\ routes' = routes /\ rroot' = rroot
  BY DEF r_request
<1>2. req # NoRequest
  <2>1. req.path # << >>
    BY RoutingAssumption
  <2>2. NoRequest.path = << >>
    BY DEF NoRequest
  <2> QED  BY <2>1, <2>2
<1>4. ServeInv'
  <2>1. rtodo' = {} /\ routes' = Router(prefix(specialBefore, << >>, rroot'))
    BY <1>1 DEF ServeInv
  <2>2. rmatch' = lookup(rreq.method, rreq.path)'
    BY <1>1 DEF lookup
  <2> QED  BY <1>1, <1>2, <2>1, <2>2 DEF ServeInv
<1>5. ASSUME rcalls' # << >>
      PROVE  /\ rmatch'.found = "match" /\ rcalls' \in Seq(Nat)
             /\ Len(rcalls') = Len(rmatch'.route.middlewares) + 1
             /\ \A i, j \in DOMAIN rcalls' : i < j /\ rcalls'[j] > 0 => rcalls'[i] > 0
  <2>1. rmatch'.found = "match"
    BY <1>1, <1>5
  <2>2. PICK i \in DOMAIN routes : rmatch'.route = routes[i]
    BY <1>1, <2>1, Looked
  <2>3. IsRoute(routes[i])
    BY <1>1, ServedRoutes
  <2> DEFINE n == Len(rmatch'.route.middlewares) + 1
  <2>4. n \in Nat /\ n >= 1
    BY <2>2, <2>3, SeqFacts DEF IsRoute
  <2>5. rcalls' = [k \in 1 .. n |-> IF k = 1 THEN 1 ELSE 0]
    BY <1>1, <2>1
  <2> HIDE DEF n
  <2>6. /\ DOMAIN rcalls' = 1 .. n
        /\ \A k \in 1 .. n : rcalls'[k] = IF k = 1 THEN 1 ELSE 0
    BY <2>5
  <2>7. rcalls' \in Seq(Nat) /\ Len(rcalls') = n
    <3>1. [k \in 1 .. n |-> IF k = 1 THEN 1 ELSE 0] \in Seq(Nat)
      BY <2>4
    <3>2. rcalls' \in Seq(Nat)
      BY <2>5, <3>1
    <3> QED  BY <2>4, <2>6, <3>2, LenProperties
  <2>8. \A k, j \in 1 .. n : k < j => ~(rcalls'[j] > 0)
    BY <2>4, <2>6
  <2> QED  BY <2>1, <2>6, <2>7, <2>8 DEF n
<1> QED  BY <1>4, <1>5 DEF ChainCalls

\* What a middleware calls comes after it.
LEMMA NextStep ==
  ASSUME ChainCalls, NEW k \in DOMAIN rcalls, next(k)
  PROVE  ChainCalls'
<1>1. /\ k + 1 \in DOMAIN rcalls /\ rcalls[k] > 0
      /\ rcalls' = [rcalls EXCEPT ![k + 1] = @ + 1] /\ rmatch' = rmatch
  BY DEF next
<1> DEFINE n == Len(rcalls)
<1>2. rcalls # << >>
  BY <1>1, EmptySeq
<1>3. /\ rmatch.found = "match" /\ rcalls \in Seq(Nat) /\ n = Len(rmatch.route.middlewares) + 1
      /\ \A i, j \in DOMAIN rcalls : i < j /\ rcalls[j] > 0 => rcalls[i] > 0
  BY <1>2 DEF ChainCalls
<1>4. n \in Nat /\ DOMAIN rcalls = 1 .. n /\ \A i \in 1 .. n : rcalls[i] \in Nat
  BY <1>3, LenProperties, ElementOfSeq
<1> HIDE DEF n
<1>5. /\ DOMAIN rcalls' = 1 .. n
      /\ \A i \in 1 .. n : rcalls'[i] = IF i = k + 1 THEN rcalls[i] + 1 ELSE rcalls[i]
  BY <1>1, <1>4
<1>6. rcalls' \in Seq(Nat) /\ Len(rcalls') = n
  <2>1. \A i \in 1 .. n : rcalls'[i] \in Nat
    BY <1>4, <1>5
  <2>2. rcalls' = [i \in 1 .. n |-> rcalls'[i]]
    BY <1>1, <1>4
  <2>3. [i \in 1 .. n |-> rcalls'[i]] \in Seq(Nat)
    BY <1>4, <2>1
  <2>4. rcalls' \in Seq(Nat)
    BY <2>2, <2>3
  <2> QED  BY <1>4, <1>5, <2>4, LenProperties
<1>7. ASSUME NEW i \in 1 .. n, NEW j \in 1 .. n, i < j, rcalls'[j] > 0
      PROVE  rcalls'[i] > 0
  <2>1. i \in Nat /\ j \in Nat /\ k \in 1 .. n /\ k + 1 \in 1 .. n
    BY <1>1, <1>4
  <2>2. rcalls[i] > 0
    <3>1. CASE j = k + 1
      <4>1. i = k \/ i < k
        BY <1>7, <2>1, <3>1
      <4> QED  BY <1>1, <1>3, <1>4, <2>1, <4>1
    <3>2. CASE j # k + 1
      BY <1>3, <1>4, <1>5, <1>7, <3>2
    <3> QED  BY <3>1, <3>2
  <2> QED  BY <1>4, <1>5, <2>1, <2>2
<1> QED  BY <1>1, <1>3, <1>5, <1>6, <1>7 DEF ChainCalls, n

\* The invariant holds initially.
LEMMA RoutingInit == RInit => RoutingInv
<1> SUFFICES ASSUME RInit PROVE RoutingInv
  OBVIOUS
<1>1. rstage = "none" /\ rreq = NoRequest /\ rcalls = << >>
  BY DEF RInit
<1> QED  BY <1>1 DEF RoutingInv, CodeInv, RootInv, ServeInv, ChainCalls

\* Every step keeps the invariant.
LEMMA RoutingStep == RoutingInv /\ [RNext]_rVars => RoutingInv'
<1> SUFFICES ASSUME RoutingInv, [RNext]_rVars PROVE RoutingInv'
  OBVIOUS
<1>0. CodeInv /\ RootInv /\ ServeInv /\ ChainCalls
  BY DEF RoutingInv
\* Steps that change no route map.
<1>a. ASSUME UNCHANGED <<rtree, rtodo, rroot>>, rstage # "none" \/ rstage' = "none"
      PROVE  RootInv'
  BY <1>0, <1>a DEF RootInv
<1>b. ASSUME UNCHANGED <<rreq, rmatch, rcalls>>
      PROVE  ChainCalls'
  BY <1>0, <1>b DEF ChainCalls
<1>c. ASSUME rstage' # "code"
      PROVE  CodeInv'
  BY <1>c DEF CodeInv
<1>d. ASSUME UNCHANGED <<rstage, rtodo, rroot, routes, rreq, rmatch>>, rcalls' = rcalls \/ rcalls # << >>
      PROVE  ServeInv'
  <2>1. lookup(rreq.method, rreq.path)' = lookup(rreq.method, rreq.path)
    BY <1>d DEF lookup
  <2> QED  BY <1>0, <1>d, <2>1 DEF ServeInv
<1>1. ASSUME NEW tree \in RTrees, r_apply(tree)
      PROVE  RoutingInv'
  <2>1. /\ rstage = "none" /\ rstage' = "import" /\ rtree' = tree /\ rtodo' = walk_dir(tree)
        /\ rroot' = NewRouteMap /\ UNCHANGED <<rreq, rmatch, rcalls, routes>>
    BY <1>1 DEF r_apply
  <2>2. NewRouteMap.middlewares = << >>
    BY DEF NewRouteMap
  <2>3. RootInv'
    <3>1. walk_dir(rtree') \ rtodo' = {} /\ DOMAIN rroot'.routes = {}
      BY <2>1, NewMap
    <3> QED  BY <2>1, <2>2, <3>1, NewMap DEF RootInv
  <2>4. ServeInv'
    BY <1>0, <2>1 DEF ServeInv
  <2> QED  BY <1>b, <1>c, <2>1, <2>3, <2>4 DEF RoutingInv
<1>2. ASSUME NEW f \in rtodo, r_import(f)
      PROVE  RoutingInv'
  <2>1. rstage = "import" /\ rstage' = "code" /\ UNCHANGED <<rtree, rtodo, rroot, routes, rreq, rmatch, rcalls>>
    BY <1>2 DEF r_import
  <2>2. CodeOK(f)
    BY <1>0, <2>1, FileFacts DEF RootInv
  <2>3. CodeInv'
    BY <1>2, <2>2, ImportStep
  <2>4. ServeInv'
    BY <1>0, <2>1 DEF ServeInv
  <2> QED  BY <1>a, <1>b, <2>1, <2>3, <2>4 DEF RoutingInv
<1>3. ASSUME r_call
      PROVE  RoutingInv'
  <2>1. rstage = "code" /\ UNCHANGED <<rstage, rtree, rtodo, rroot, routes, rreq, rmatch, rcalls>>
    BY <1>3 DEF r_call
  <2>2. rfile \in walk_dir(rtree)
    BY <1>0, <2>1 DEF CodeInv, RootInv, build_file_route_map
  <2>3. CodeOK(rfile)
    BY <1>0, <2>1, <2>2, FileFacts
  <2>4. CodeInv'
    BY <1>0, <1>3, <2>3, RouteCallStep
  <2>5. ServeInv'
    BY <1>0, <2>1 DEF ServeInv
  <2> QED  BY <1>a, <1>b, <2>1, <2>4, <2>5 DEF RoutingInv
<1>4. ASSUME codegen_route_map
      PROVE  RoutingInv'
  <2>1. rstage = "code" /\ rstage' = "import" /\ UNCHANGED <<rtree, routes, rreq, rmatch, rcalls>>
    BY <1>4 DEF codegen_route_map
  <2>2. RootInv'
    BY <1>0, <1>4, GenerateStep
  <2>3. ServeInv'
    BY <1>0, <2>1 DEF ServeInv
  <2> QED  BY <1>b, <1>c, <2>1, <2>2, <2>3 DEF RoutingInv
<1>5. ASSUME run
      PROVE  RoutingInv'
  <2>1. /\ rstage = "import" /\ rtodo = {} /\ rstage' = "serve"
        /\ routes' = Router(prefix(specialBefore, << >>, rroot))
        /\ UNCHANGED <<rtree, rtodo, rroot, rreq, rmatch, rcalls>>
    BY <1>5 DEF run
  <2>2. ServeInv'
    BY <1>0, <2>1 DEF ServeInv
  <2> QED  BY <1>a, <1>b, <1>c, <2>1, <2>2 DEF RoutingInv
<1>6. ASSUME NEW req \in RRequests, r_request(req)
      PROVE  RoutingInv'
  <2>1. rstage = "serve" /\ UNCHANGED <<rstage, rtree, rtodo, rroot>>
    BY <1>6 DEF r_request
  <2>2. ServeInv' /\ ChainCalls'
    BY <1>0, <1>6, RequestStep
  <2> QED  BY <1>a, <1>c, <2>1, <2>2 DEF RoutingInv
<1>7. ASSUME NEW i \in DOMAIN rcalls, next(i)
      PROVE  RoutingInv'
  <2>1. UNCHANGED <<rstage, rtree, rtodo, rfile, rdone, rmaps, rroot, routes, rreq, rmatch>>
        /\ rcalls # << >>
    BY <1>7, EmptySeq DEF next
  <2>2. ChainCalls'
    BY <1>0, <1>7, NextStep
  <2>3. rreq # NoRequest /\ rstage = "serve"
    BY <1>0, <2>1 DEF ServeInv
  <2>4. ServeInv'
    BY <1>d, <2>1
  <2> QED  BY <1>a, <1>c, <2>1, <2>2, <2>3, <2>4 DEF RoutingInv
<1>8. ASSUME r_respond
      PROVE  RoutingInv'
  <2>1. /\ rreq # NoRequest /\ rreq' = NoRequest /\ rcalls' = << >>
        /\ UNCHANGED <<rstage, rtree, rtodo, rroot, routes>>
    BY <1>8 DEF r_respond
  <2>2. rstage = "serve"
    BY <1>0, <2>1 DEF ServeInv
  <2>3. ServeInv' /\ ChainCalls'
    BY <1>0, <2>1 DEF ServeInv, ChainCalls
  <2> QED  BY <1>a, <1>c, <2>1, <2>2, <2>3 DEF RoutingInv
<1>9. ASSUME r_stop
      PROVE  RoutingInv'
  <2>1. rreq = NoRequest /\ rstage' = "none" /\ UNCHANGED <<rreq, rmatch, rcalls>>
    BY <1>9 DEF r_stop
  <2>2. RootInv' /\ ServeInv'
    BY <1>0, <2>1 DEF RootInv, ServeInv
  <2> QED  BY <1>b, <1>c, <2>1, <2>2 DEF RoutingInv
<1>10. ASSUME UNCHANGED rVars
       PROVE  RoutingInv'
  <2>1. UNCHANGED <<rstage, rtree, rtodo, rfile, rdone, rmaps, rroot, routes, rreq, rmatch, rcalls>>
    BY <1>10 DEF rVars
  <2>2. CodeInv'
    <3>1. \A m \in RMaps : MapInv(m) => MapInv(m)'
      BY <2>1 DEF MapInv
    <3> QED  BY <1>0, <2>1, <3>1 DEF CodeInv, build_file_route_map
  <2>3. RootInv'
    BY <1>0, <2>1 DEF RootInv
  <2>4. ServeInv'
    BY <1>d, <2>1
  <2> QED  BY <1>b, <2>1, <2>2, <2>3, <2>4 DEF RoutingInv
<1> QED  BY <1>1, <1>2, <1>3, <1>4, <1>5, <1>6, <1>7, <1>8, <1>9, <1>10 DEF RNext

\* The routes that the worker serves are those of the project's files, in their order.
THEOREM RoutingInvariance == RSpec => []RoutingInv
BY RoutingInit, RoutingStep, PTL DEF RSpec

-----------------------------------------------------------------------------
(* Middlewares.                                                            *)

\* Routes that differ in nothing but their place come from the same way.
LEMMA SameWay ==
  ASSUME NEW f, NEW C, NEW r, NEW q, Same(r, q), RouteOf(f, C, r)
  PROVE  RouteOf(f, C, q)
<1>1. q.pattern = r.pattern /\ q.handler = r.handler /\ q.methods = r.methods
  BY DEF Same
<1>2. \A b : Lies(f, C, b, r) => Lies(f, C, b, q)
  BY <1>1 DEF Lies, LiesAt
<1> QED  BY <1>1, <1>2 DEF RouteOf

\* A route that is not special belongs to a file.
LEMMA UserRoute ==
  ASSUME RootInv, ServeInv, rstage = "serve", NEW i \in DOMAIN routes, i \notin {1, 2}
  PROVE  \E f \in walk_dir(rtree) : \E C \in Ways(f) :
           /\ RouteOf(f, C, routes[i]) /\ routes[i].handler.file = f
           /\ \A k \in C : Guards(f.code, C, k) \subseteq ToSet(routes[i].middlewares)
<1> DEFINE n == Len(rroot.routes)
           rs == rroot.routes
<1>1. /\ i - 2 \in 1 .. n /\ 2 + (i - 2) = i /\ DOMAIN rs = 1 .. n
      /\ \A j \in 1 .. n : Same(rs[j], routes[2 + j])
  BY ServedRoutes
<1>2. Same(rs[i - 2], routes[i])
  BY <1>1
<1>3. rtodo = {}
  BY DEF ServeInv
<1>4. PICK f \in walk_dir(rtree) : \E C \in Ways(f) :
        RouteOf(f, C, rs[i - 2]) /\ \A k \in C : Guards(f.code, C, k) \subseteq ToSet(rs[i - 2].middlewares)
  BY <1>1, <1>3 DEF RootInv
<1>5. PICK C \in Ways(f) :
        RouteOf(f, C, rs[i - 2]) /\ \A k \in C : Guards(f.code, C, k) \subseteq ToSet(rs[i - 2].middlewares)
  BY <1>4
<1>6. RouteOf(f, C, routes[i])
  BY <1>2, <1>5, SameWay
<1>7. CodeOK(f)
  BY FileFacts
<1>8. routes[i].handler.file = f
  BY <1>6, <1>7, HandlerOf DEF RouteOf
<1>9. \A k \in C : Guards(f.code, C, k) \subseteq ToSet(routes[i].middlewares)
  BY <1>2, <1>5 DEF Same
<1> QED  BY <1>6, <1>8, <1>9

\* The handler of a request is called only through all middlewares of the route maps
\* that it is in.
THEOREM MiddlewaresCalled == RSpec => []ThroughMiddlewares
<1>1. RoutingInv => ThroughMiddlewares
  <2> DEFINE r == rmatch.route
             h == r.handler
             called == {r.middlewares[i] : i \in {i \in 1 .. Len(rcalls) - 1 : rcalls[i] > 0}}
  <2> SUFFICES ASSUME RoutingInv, rcalls # << >>, Last(rcalls) > 0, h.file # Special
               PROVE  \E C \in Ways(h.file) :
                        IsFirst(C, h.at) /\ \A k \in C : Guards(h.file.code, C, k) \subseteq called
    BY DEF ThroughMiddlewares
  <2>0. RootInv /\ ServeInv /\ ChainCalls
    BY DEF RoutingInv
  <2>1. rstage = "serve" /\ rmatch = lookup(rreq.method, rreq.path)
    BY <2>0 DEF ServeInv
  <2>2. /\ rmatch.found = "match" /\ rcalls \in Seq(Nat) /\ Len(rcalls) = Len(r.middlewares) + 1
        /\ \A i, j \in DOMAIN rcalls : i < j /\ rcalls[j] > 0 => rcalls[i] > 0
    BY <2>0 DEF ChainCalls
  <2>3. PICK i \in DOMAIN routes : r = routes[i]
    BY <2>0, <2>1, <2>2, Looked
  <2>4. routes[1].handler.file = Special /\ routes[2].handler.file = Special
        /\ \A j \in DOMAIN routes : IsRoute(routes[j])
    BY <2>0, <2>1, ServedRoutes
  <2>5. i \notin {1, 2}
    BY <2>3, <2>4
  <2>6. PICK f \in walk_dir(rtree) : \E C \in Ways(f) :
          /\ RouteOf(f, C, routes[i]) /\ routes[i].handler.file = f
          /\ \A k \in C : Guards(f.code, C, k) \subseteq ToSet(routes[i].middlewares)
    BY <2>0, <2>1, <2>5, UserRoute
  <2>7. PICK C \in Ways(f) :
          /\ RouteOf(f, C, routes[i]) /\ routes[i].handler.file = f
          /\ \A k \in C : Guards(f.code, C, k) \subseteq ToSet(routes[i].middlewares)
    BY <2>6
  <2>8. CodeOK(f)
    BY <2>0, <2>1, FileFacts
  <2>9. h.file = f /\ IsFirst(C, h.at)
    BY <2>3, <2>7, <2>8, HandlerOf DEF RouteOf
  <2>10. ToSet(r.middlewares) \subseteq called
    <3> DEFINE s == r.middlewares
    <3>1. IsSeq(s)
      BY <2>3, <2>4 DEF IsRoute
    <3>2. Len(s) \in Nat /\ DOMAIN s = 1 .. Len(s)
      BY <3>1, SeqFacts
    <3>3. DOMAIN rcalls = 1 .. Len(s) + 1 /\ rcalls[Len(s) + 1] > 0 /\ Len(rcalls) - 1 = Len(s)
      BY <2>2, <3>2, LenProperties DEF Last
    <3> HIDE DEF s
    <3>4. ASSUME NEW j \in DOMAIN s
          PROVE  j \in 1 .. Len(rcalls) - 1 /\ rcalls[j] > 0
      <4>1. j \in 1 .. Len(s) + 1 /\ Len(s) + 1 \in 1 .. Len(s) + 1 /\ j < Len(s) + 1
        BY <3>2
      <4> QED  BY <2>2, <3>2, <3>3, <4>1
    <3>5. \A x \in ToSet(s) : \E j \in DOMAIN s : x = s[j]
      BY DEF ToSet
    <3> QED  BY <3>4, <3>5 DEF s
  <2> QED  BY <2>3, <2>7, <2>9, <2>10
<1> QED  BY <1>1, RoutingInvariance, PTL

-----------------------------------------------------------------------------
(* Paths and patterns.                                                     *)

\* A segment of a path is one that a pattern has, or any at a group.
Meets(s, x) == s = x \/ (s = ":" /\ x # "")

\* What the last segment of a pattern, behind m others, asks of a path.
Ends(s, m, path) ==
  IF s = "*" THEN m <= Len(NoSlash(path))
  ELSE IF s = "" THEN m = Len(NoSlash(path))
  ELSE m + 1 = Len(path) /\ Meets(s, path[m + 1])

\* A pattern that stands behind n segments, as both URLPattern and FitsEnd read it.
Reads(segs, n, path) ==
  /\ \A i \in 1 .. Len(segs) - 1 : Meets(segs[i], path[n + i])
  /\ Ends(segs[Len(segs)], n + Len(segs) - 1, path)

\* Front leaves out the last element.
LEMMA FrontFacts ==
  ASSUME NEW s, IsSeq(s), s # << >>
  PROVE  /\ Len(s) \in Nat /\ Len(s) >= 1 /\ DOMAIN s = 1 .. Len(s) /\ Len(Front(s)) = Len(s) - 1
         /\ DOMAIN Front(s) = 1 .. Len(s) - 1 /\ \A i \in 1 .. Len(s) - 1 : Front(s)[i] = s[i]
<1>1. s \in Seq(ToSet(s)) /\ Len(s) \in Nat /\ DOMAIN s = 1 .. Len(s)
  BY SeqFacts DEF IsSeq
<1>2. Len(s) # 0
  BY <1>1, EmptySeq
<1>3. 1 \in 1 .. Len(s) + 1 /\ Len(s) - 1 \in (1 - 1) .. Len(s)
  BY <1>1, <1>2
<1> DEFINE t == SubSeq(s, 1, Len(s) - 1)
<1>4. /\ t \in Seq(ToSet(s))
      /\ Len(t) = IF 1 <= Len(s) - 1 THEN (Len(s) - 1) - 1 + 1 ELSE 0
      /\ \A i \in 1 .. (Len(s) - 1) - 1 + 1 : t[i] = s[1 + i - 1]
  BY <1>1, <1>3, SubSeqProperties
<1> HIDE DEF t
<1>5. Len(t) = Len(s) - 1
  <2>1. \A x \in Nat \ {0} : (IF 1 <= x - 1 THEN (x - 1) - 1 + 1 ELSE 0) = x - 1
    OBVIOUS
  <2> QED  BY <1>1, <1>2, <1>4, <2>1
<1>6. DOMAIN t = 1 .. Len(s) - 1
  BY <1>4, <1>5, LenProperties
<1>7. \A i \in 1 .. Len(s) - 1 : i \in 1 .. (Len(s) - 1) - 1 + 1 /\ 1 + i - 1 = i
  BY <1>1
<1>8. \A i \in 1 .. Len(s) - 1 : t[i] = s[i]
  BY <1>4, <1>7
<1>9. Len(s) >= 1
  BY <1>1, <1>2
<1> QED  BY <1>1, <1>5, <1>6, <1>8, <1>9 DEF Front, t

\* Front stays within the set of the elements.
LEMMA FrontIsSeq ==
  ASSUME NEW S, NEW s \in Seq(S)
  PROVE  Front(s) \in Seq(S)
<1>1. \A i \in 1 .. Len(s) - 1 : s[i] \in S
  <2>1. Len(s) \in Nat
    BY LenProperties
  <2>2. \A i \in 1 .. Len(s) - 1 : i \in 1 .. Len(s)
    BY <2>1
  <2> QED  BY <2>2, ElementOfSeq
<1>2. 1 \in Int /\ Len(s) - 1 \in Int
  BY LenProperties
<1> QED  BY <1>1, <1>2, SubSeqProperties DEF Front

\* NoSlash leaves out the empty segment behind a final slash, and nothing else.
LEMMA NoSlashFacts ==
  ASSUME NEW path, IsSeq(path), path # << >>
  PROVE  /\ Len(path) \in Nat /\ Len(path) >= 1 /\ Last(path) = path[Len(path)]
         /\ Len(NoSlash(path)) = IF path[Len(path)] = "" THEN Len(path) - 1 ELSE Len(path)
         /\ \A i \in 1 .. Len(NoSlash(path)) : NoSlash(path)[i] = path[i]
<1>1. /\ Len(path) \in Nat /\ Len(path) >= 1 /\ Len(Front(path)) = Len(path) - 1
      /\ \A i \in 1 .. Len(path) - 1 : Front(path)[i] = path[i]
  BY FrontFacts
<1>2. Last(path) = path[Len(path)]
  BY DEF Last
<1>3. CASE path[Len(path)] = ""
  <2>1. NoSlash(path) = Front(path)
    BY <1>2, <1>3 DEF NoSlash
  <2> QED  BY <1>1, <1>2, <1>3, <2>1
<1>4. CASE path[Len(path)] # ""
  BY <1>1, <1>2, <1>4 DEF NoSlash
<1> QED  BY <1>3, <1>4, <1>1, <1>2

\* What the reference says of the last path of a way, segment by segment.
LEMMA FitsForm ==
  ASSUME NEW segs, IsSeq(segs), segs # << >>, NEW path, IsSeq(path), path # << >>, NEW n \in Nat
  PROVE  FitsEnd(segs, n, path) <=> Reads(segs, n, path)
<1> DEFINE l == Len(segs)
           z == NoSlash(path)
           F == Front(segs)
           e == segs[l]
<1>1. /\ l \in Nat /\ l >= 1 /\ DOMAIN segs = 1 .. l /\ Len(F) = l - 1 /\ DOMAIN F = 1 .. l - 1
      /\ \A i \in 1 .. l - 1 : F[i] = segs[i]
  BY FrontFacts
<1>2. /\ Len(path) \in Nat /\ Len(z) \in Nat /\ Len(z) <= Len(path)
      /\ \A i \in 1 .. Len(z) : z[i] = path[i]
  <2>1. /\ Len(path) \in Nat /\ Len(path) >= 1
        /\ Len(z) = IF path[Len(path)] = "" THEN Len(path) - 1 ELSE Len(path)
        /\ \A i \in 1 .. Len(z) : z[i] = path[i]
    BY NoSlashFacts
  <2>2. Len(z) = Len(path) - 1 \/ Len(z) = Len(path)
    BY <2>1
  <2>3. Len(path) - 1 \in Nat /\ Len(path) - 1 <= Len(path) /\ Len(path) <= Len(path)
    <3>1. Len(path) \in Nat /\ Len(path) >= 1
      BY <2>1
    <3> QED  BY <3>1
  <2> QED  BY <2>1, <2>2, <2>3
<1>3. Last(segs) = e
  BY DEF Last
<1>4. \A m : Fits(segs, n, m) <=> n + l <= Len(m) /\ \A i \in 1 .. l : Meets(segs[i], m[n + i])
  BY <1>1 DEF Fits, Meets
<1>5. \A m : Fits(F, n, m) <=> n + (l - 1) <= Len(m) /\ \A i \in 1 .. l - 1 : Meets(segs[i], m[n + i])
  BY <1>1 DEF Fits, Meets
<1> HIDE DEF l, z, F, e
<1>6. n + (l - 1) <= Len(z) => \A i \in 1 .. l - 1 : z[n + i] = path[n + i]
  <2>1. ASSUME n + (l - 1) <= Len(z), NEW i \in 1 .. l - 1
        PROVE  n + i \in 1 .. Len(z)
    BY <1>1, <1>2, <2>1
  <2> QED  BY <1>2, <2>1
<1>7. n + l - 1 = n + (l - 1) /\ (n + l - 1) + 1 = n + l
  BY <1>1
<1>8. Reads(segs, n, path) <=> (\A i \in 1 .. l - 1 : Meets(segs[i], path[n + i])) /\ Ends(e, n + (l - 1), path)
  BY <1>7 DEF Reads, l, e
<1>9. CASE e = "*"
  <2>1. FitsEnd(segs, n, path) <=> Fits(F, n, z)
    BY <1>3, <1>9 DEF FitsEnd, F, z
  <2>2. Ends(e, n + (l - 1), path) <=> n + (l - 1) <= Len(z)
    BY <1>9 DEF Ends, z
  <2> QED  BY <1>5, <1>6, <1>8, <2>1, <2>2
<1>10. CASE e = ""
  <2>1. FitsEnd(segs, n, path) <=> Fits(F, n, z) /\ n + (l - 1) = Len(z)
    BY <1>3, <1>7, <1>10 DEF FitsEnd, F, z, l
  <2>2. Ends(e, n + (l - 1), path) <=> n + (l - 1) = Len(z)
    BY <1>10 DEF Ends, z
  <2>3. n + (l - 1) = Len(z) => n + (l - 1) <= Len(z)
    BY <1>2
  <2> QED  BY <1>5, <1>6, <1>8, <2>1, <2>2, <2>3
<1>11. CASE e # "*" /\ e # ""
  <2>1. FitsEnd(segs, n, path) <=> Fits(segs, n, path) /\ n + l = Len(path)
    BY <1>3, <1>11 DEF FitsEnd, l
  <2>2. Ends(e, n + (l - 1), path) <=> n + l = Len(path) /\ Meets(e, path[n + l])
    <3>1. (n + (l - 1)) + 1 = n + l
      BY <1>1
    <3> QED  BY <1>11, <3>1 DEF Ends
  <2>3. (\A i \in 1 .. l : Meets(segs[i], path[n + i]))
          <=> (\A i \in 1 .. l - 1 : Meets(segs[i], path[n + i])) /\ Meets(e, path[n + l])
    <3>1. \A i : i \in 1 .. l <=> i \in 1 .. l - 1 \/ i = l
      BY <1>1
    <3> QED  BY <3>1 DEF e
  <2>4. n + l = Len(path) => n + l <= Len(path)
    BY <1>2
  <2> QED  BY <1>4, <1>8, <2>1, <2>2, <2>3, <2>4
<1> QED  BY <1>9, <1>10, <1>11

\* URLPattern, tried with a final slash too, reads a pattern in that way.
LEMMA ExecForm ==
  ASSUME NEW p, IsSeq(p), p # << >>, NEW path, IsSeq(path), path # << >>
  PROVE  exec(p, path) \/ (Last(path) # "" /\ exec(p, Append(path, ""))) <=> Reads(p, 0, path)
<1> DEFINE l == Len(p)
           z == NoSlash(path)
           e == p[l]
           n == Len(path)
           q == Append(path, "")
           Begins == \A i \in 1 .. l - 1 : Meets(p[i], path[i])
<1>1. l \in Nat /\ l >= 1 /\ Last(p) = e /\ \A i : i \in 1 .. l <=> i \in 1 .. l - 1 \/ i = l
  <2>1. l \in Nat /\ l >= 1 /\ Last(p) = e
    BY FrontFacts DEF Last
  <2> QED  BY <2>1
<1>2. /\ n \in Nat /\ n >= 1 /\ Last(path) = path[n]
      /\ Len(z) = IF path[n] = "" THEN n - 1 ELSE n
  BY NoSlashFacts
<1>0. l \in Nat /\ l >= 1 /\ n \in Nat /\ n >= 1
  BY <1>1, <1>2
<1>3. Len(q) = n + 1 /\ q[n + 1] = "" /\ \A i \in 1 .. n : q[i] = path[i]
  <2> DEFINE x == ""
  <2> HIDE DEF x
  <2>1. /\ Len(Append(path, x)) = Len(path) + 1 /\ Append(path, x)[Len(path) + 1] = x
        /\ \A i \in 1 .. Len(path) : Append(path, x)[i] = path[i]
    BY AppendFacts
  <2> QED  BY <2>1 DEF x
<1> HIDE DEF l, z, e, n, q
<1>4. Reads(p, 0, path) <=> Begins /\ Ends(e, l - 1, path)
  <2>1. 0 + l - 1 = l - 1 /\ \A i \in 1 .. l - 1 : 0 + i = i
    BY <1>1
  <2> QED  BY <2>1 DEF Reads, l, e
<1>5. \A u : exec(p, u) <=>
        IF e = "*" THEN Len(u) > l - 1 /\ \A i \in 1 .. l - 1 : Meets(p[i], u[i])
                   ELSE Len(u) = l /\ \A i \in 1 .. l : Meets(p[i], u[i])
  <2>1. l - 1 < l /\ ~(l < l)
    BY <1>1
  <2>2. CASE e = "*"
    BY <1>1, <2>1, <2>2 DEF exec, Meets, l
  <2>3. CASE e # "*"
    BY <1>1, <2>1, <2>3 DEF exec, Meets, l
  <2> QED  BY <2>2, <2>3
<1>6. ASSUME l - 1 <= n
      PROVE  \A i \in 1 .. l - 1 : q[i] = path[i]
  <2>1. \A i \in 1 .. l - 1 : i \in 1 .. n
    BY <1>0, <1>6
  <2> QED  BY <1>3, <2>1
<1>7. \A u : (\A i \in 1 .. l : Meets(p[i], u[i]))
               <=> (\A i \in 1 .. l - 1 : Meets(p[i], u[i])) /\ Meets(e, u[l])
  BY <1>1 DEF e
<1>8. Meets("", "") /\ \A x : Meets("", x) <=> x = ""
  BY DEF Meets
<1>9. CASE e = "*"
  <2>1. Ends(e, l - 1, path) <=> l - 1 <= Len(z)
    BY <1>9 DEF Ends, z
  <2>2. exec(p, path) <=> n > l - 1 /\ Begins
    BY <1>5, <1>9 DEF n
  <2>3. exec(p, q) <=> n + 1 > l - 1 /\ \A i \in 1 .. l - 1 : Meets(p[i], q[i])
    BY <1>3, <1>5, <1>9
  <2>4. n + 1 > l - 1 <=> l - 1 <= n
    BY <1>0
  <2>5. exec(p, q) <=> l - 1 <= n /\ Begins
    BY <1>6, <2>3, <2>4
  <2>6. CASE path[n] = ""
    <3>0. Len(z) = n - 1
      BY <1>2, <2>6
    <3>1. n > l - 1 <=> l - 1 <= n - 1
      BY <1>0
    <3> QED  BY <1>2, <1>4, <2>1, <2>2, <2>6, <3>0, <3>1 DEF q
  <2>7. CASE path[n] # ""
    <3>1. n > l - 1 => l - 1 <= n
      BY <1>0
    <3>2. Len(z) = n
      BY <1>2, <2>7
    <3> QED  BY <1>2, <1>4, <2>1, <2>2, <2>5, <2>7, <3>1, <3>2 DEF q
  <2> QED  BY <2>6, <2>7
<1>10. CASE e = ""
  <2>1. Ends(e, l - 1, path) <=> l - 1 = Len(z)
    BY <1>10 DEF Ends, z
  <2>2. exec(p, path) <=> n = l /\ Begins /\ path[l] = ""
    BY <1>5, <1>7, <1>8, <1>10 DEF n
  <2>3. exec(p, q) <=> n + 1 = l /\ (\A i \in 1 .. l - 1 : Meets(p[i], q[i])) /\ q[l] = ""
    BY <1>3, <1>5, <1>7, <1>8, <1>10
  <2>4. exec(p, q) <=> n + 1 = l /\ Begins
    <3>0. n + 1 = l => l - 1 <= n
      BY <1>0
    <3>1. n + 1 = l => l - 1 <= n /\ q[l] = ""
      BY <1>3, <3>0
    <3> QED  BY <1>6, <2>3, <3>1
  <2>5. CASE path[n] = ""
    <3>0. Len(z) = n - 1
      BY <1>2, <2>5
    <3>2. l - 1 = n - 1 <=> n = l
      BY <1>0
    <3>1. l - 1 = Len(z) <=> n = l
      BY <3>0, <3>2
    <3> QED  BY <1>2, <1>4, <2>1, <2>2, <2>5, <3>1 DEF q
  <2>6. CASE path[n] # ""
    <3>0. Len(z) = n
      BY <1>2, <2>6
    <3>3. l - 1 = n <=> n + 1 = l
      BY <1>0
    <3>1. l - 1 = Len(z) <=> n + 1 = l
      BY <3>0, <3>3
    <3>2. ~exec(p, path)
      BY <2>2, <2>6
    <3> QED  BY <1>2, <1>4, <2>1, <2>4, <2>6, <3>1, <3>2 DEF q
  <2> QED  BY <2>5, <2>6
<1>11. CASE e # "*" /\ e # ""
  <2>1. Ends(e, l - 1, path) <=> l = n /\ Meets(e, path[l])
    <3>1. (l - 1) + 1 = l
      BY <1>1
    <3> QED  BY <1>11, <3>1 DEF Ends, n
  <2>2. exec(p, path) <=> n = l /\ Begins /\ Meets(e, path[l])
    BY <1>5, <1>7, <1>11 DEF n
  <2>3. ~exec(p, q)
    <3>1. exec(p, q) => n + 1 = l /\ Meets(e, q[l])
      BY <1>3, <1>5, <1>7, <1>11
    <3>2. ~Meets(e, "")
      BY <1>11 DEF Meets
    <3> QED  BY <1>3, <3>1, <3>2
  <2> QED  BY <1>4, <2>1, <2>2, <2>3 DEF q
<1> QED  BY <1>9, <1>10, <1>11

\* A pattern that fits ends within the path.
LEMMA EndsFacts ==
  ASSUME NEW path, IsSeq(path), path # << >>, NEW m \in Nat, NEW s, Ends(s, m, path)
  PROVE  m <= Len(path)
<1>1. Len(path) \in Nat /\ Len(path) >= 1
  BY NoSlashFacts
<1>2. Len(NoSlash(path)) = Len(path) - 1 \/ Len(NoSlash(path)) = Len(path)
  BY NoSlashFacts
<1>3. m <= Len(NoSlash(path)) \/ m = Len(NoSlash(path)) \/ m + 1 = Len(path)
  BY DEF Ends
<1>4. m <= Len(path) - 1 \/ m <= Len(path) \/ m = Len(path) - 1 \/ m = Len(path) \/ m + 1 = Len(path)
  BY <1>2, <1>3
<1> QED  BY <1>1, <1>4

\* The pattern of a route reads the paths on its way.
LEMMA WayForm ==
  ASSUME NEW f, CodeOK(f), IsSeq(path_pattern(f)), NEW C \in Ways(f), NEW r, IsRoute(r),
         RouteOf(f, C, r), NEW path, IsSeq(path), path # << >>
  PROVE  Reads(r.pattern, 0, path) <=> OnWay(f, C, path)
<1> DEFINE p == path_pattern(f)
           b == Len(p)
           pat == r.pattern
           N == Len(pat)
           L(k) == Len(f.code[k].path)
<1>1. C \subseteq DOMAIN f.code /\ IsWay(f.code, C, "export")
  BY DEF Ways
<1>2. /\ C # {}
      /\ \A k \in C : /\ IsSeq(f.code[k].path) /\ L(k) \in Nat /\ DOMAIN f.code[k].path = 1 .. L(k)
                      /\ IsFirst(C, k) => L(k) >= 1
  BY <1>1, WayFacts
<1>3. IsSeq(pat) /\ pat # << >> /\ N \in Nat /\ N >= 1 /\ DOMAIN pat = 1 .. N
  BY FrontFacts DEF IsRoute
<1>4. Len(path) \in Nat
  BY SeqFacts
<1>5. b \in Nat /\ DOMAIN p = 1 .. b
  BY SeqFacts
<1>6. PICK k0 \in C : IsFirst(C, k0)
  BY <1>1, <1>2, CodeFacts, FirstExists
<1>7. \A k \in C : IsFirst(C, k) <=> k = k0
  <2>1. C \subseteq Nat
    BY <1>1, CodeFacts
  <2>2. \A k \in C : IsFirst(C, k) => k <= k0 /\ k0 <= k
    BY <1>6 DEF IsFirst
  <2> QED  BY <1>6, <2>1, <2>2
<1>8. PICK at \in [C -> 0 .. N] : LiesAt(f, C, b, r, at)
  BY DEF RouteOf, Lies
<1>9. \A i \in 1 .. b : pat[i] = p[i]
  BY <1>5 DEF RouteOf
<1>10. /\ Places(f.code, C, b, at)
       /\ \A k \in C : \A i \in 1 .. L(k) : at[k] + i <= N /\ pat[at[k] + i] = f.code[k].path[i]
       /\ N = at[k0] + L(k0) /\ b <= at[k0]
       /\ \A k \in C \ {k0} : at[k] + L(k) <= at[k0]
       /\ \A x \in 1 .. N : x <= b \/ \E k \in C : \E i \in 1 .. L(k) : x = at[k] + i
  <2>1. Places(f.code, C, b, at)
    BY <1>8 DEF LiesAt
  <2>2. \A k \in C : \A i \in DOMAIN f.code[k].path :
          at[k] + i <= N /\ pat[at[k] + i] = f.code[k].path[i]
    BY <1>8 DEF LiesAt
  <2>3. N = at[k0] + L(k0) /\ b <= at[k0] /\ \A k \in C \ {k0} : at[k] + L(k) <= at[k0]
    BY <1>6, <1>8 DEF LiesAt
  <2>4. \A x \in DOMAIN pat : x <= b \/ \E k \in C : \E i \in DOMAIN f.code[k].path : x = at[k] + i
    BY <1>8 DEF LiesAt
  <2> HIDE DEF N, pat, L, b
  <2>5. \A k \in C : DOMAIN f.code[k].path = 1 .. L(k)
    BY <1>2
  <2>6. \A x \in 1 .. N : x <= b \/ \E k \in C : \E i \in 1 .. L(k) : x = at[k] + i
    BY <1>3, <2>4, <2>5
  <2>7. \A k \in C : \A i \in 1 .. L(k) : at[k] + i <= N /\ pat[at[k] + i] = f.code[k].path[i]
    BY <2>2, <2>5
  <2> QED  BY <2>1, <2>3, <2>6, <2>7
<1>11. \A k \in C : at[k] \in Nat
  BY <1>3, <1>8
<1>12. L(k0) \in Nat /\ L(k0) >= 1 /\ at[k0] \in Nat /\ f.code[k0].path # << >>
  BY <1>2, <1>6, <1>11, EmptySeq
<1> DEFINE e == pat[N]
           Begins == \A x \in 1 .. N - 1 : Meets(pat[x], path[x])
           F0 == f.code[k0].path
<1>13. e = F0[L(k0)] /\ N - 1 \in Nat /\ at[k0] + L(k0) - 1 = N - 1 /\ at[k0] <= N - 1
  <2>1. L(k0) \in 1 .. L(k0)
    BY <1>12
  <2>2. pat[at[k0] + L(k0)] = F0[L(k0)]
    BY <1>10, <2>1
  <2>3. N - 1 \in Nat /\ at[k0] + L(k0) - 1 = N - 1 /\ at[k0] <= N - 1
    <3>1. /\ N = at[k0] + L(k0) /\ N \in Nat /\ N >= 1
          /\ L(k0) \in Nat /\ L(k0) >= 1 /\ at[k0] \in Nat
      BY <1>3, <1>10, <1>12
    <3> HIDE DEF N, L
    <3> QED  BY <3>1
  <2> QED  BY <1>10, <2>2, <2>3
<1> HIDE DEF p, b, pat, N, e, L
<1>14. Reads(pat, 0, path) <=> Begins /\ Ends(e, N - 1, path)
  <2>1. 0 + N - 1 = N - 1 /\ \A i \in 1 .. N - 1 : 0 + i = i
    BY <1>3
  <2> QED  BY <2>1 DEF Reads, N, e
\* The way of the calls, with the places that the pattern gives them.
<1>15. Fits(p, 0, path) <=> b <= Len(path) /\ \A i \in 1 .. b : Meets(p[i], path[i])
  <2>1. 0 + b = b /\ \A i \in 1 .. b : 0 + i = i
    BY <1>5
  <2> QED  BY <1>5, <2>1 DEF Fits, Meets, b
<1>16. \A k \in C : Fits(f.code[k].path, at[k], path) <=>
         at[k] + L(k) <= Len(path) /\ \A i \in 1 .. L(k) : Meets(f.code[k].path[i], path[at[k] + i])
  BY <1>2 DEF Fits, Meets, L
<1>17. FitsEnd(F0, at[k0], path) <=>
         (\A i \in 1 .. L(k0) - 1 : Meets(F0[i], path[at[k0] + i])) /\ Ends(e, N - 1, path)
  <2>1. FitsEnd(F0, at[k0], path) <=> Reads(F0, at[k0], path)
    BY <1>2, <1>12, FitsForm
  <2> QED  BY <1>13, <2>1 DEF Reads, L
<1>18. ASSUME Begins, Ends(e, N - 1, path)
       PROVE  OnWay(f, C, path)
  <2>1. N - 1 <= Len(path)
    BY <1>13, <1>18, EndsFacts
  <2>2. Fits(p, 0, path)
    <3>1. b <= Len(path)
      BY <1>4, <1>5, <1>10, <1>12, <1>13, <2>1
    <3>2. \A i \in 1 .. b : i \in 1 .. N - 1
      BY <1>5, <1>10, <1>12, <1>13
    <3>3. \A i \in 1 .. b : Meets(p[i], path[i])
      BY <1>9, <1>18, <3>2
    <3> QED  BY <1>15, <3>1, <3>3
  <2>3. ASSUME NEW k \in C \ {k0}
        PROVE  Fits(f.code[k].path, at[k], path)
    <3>0. at[k] \in Nat /\ L(k) \in Nat /\ at[k] + L(k) <= at[k0]
      BY <1>2, <1>10, <1>11
    <3>1. at[k] + L(k) <= Len(path)
      BY <1>4, <1>12, <1>13, <2>1, <3>0
    <3>2. \A i \in 1 .. L(k) : at[k] + i \in 1 .. N - 1
      BY <1>12, <1>13, <3>0
    <3>3. \A i \in 1 .. L(k) : Meets(f.code[k].path[i], path[at[k] + i])
      BY <1>10, <1>18, <3>2
    <3> QED  BY <1>16, <3>1, <3>3
  <2>4. FitsEnd(F0, at[k0], path)
    <3>1. \A i \in 1 .. L(k0) - 1 : at[k0] + i \in 1 .. N - 1 /\ i \in 1 .. L(k0)
      BY <1>12, <1>13
    <3>2. \A i \in 1 .. L(k0) - 1 : Meets(F0[i], path[at[k0] + i])
      BY <1>10, <1>18, <3>1
    <3> QED  BY <1>17, <1>18, <3>2
  <2>5. at \in [C -> 0 .. Len(path)]
    <3>1. ASSUME NEW k \in C
          PROVE  at[k] \in 0 .. Len(path)
      <4>0. at[k] \in Nat /\ L(k) \in Nat
        BY <1>2, <1>11
      <4>1. at[k] <= at[k0]
        <5>1. CASE k = k0
          BY <4>0, <5>1
        <5>2. CASE k # k0
          <6>1. at[k] + L(k) <= at[k0]
            BY <1>10, <5>2
          <6> QED  BY <1>12, <4>0, <6>1
        <5> QED  BY <5>1, <5>2
      <4> QED  BY <1>4, <1>12, <1>13, <2>1, <4>0, <4>1
    <3> QED  BY <3>1
  <2>6. \A k \in C : IF IsFirst(C, k) THEN FitsEnd(f.code[k].path, at[k], path)
                     ELSE Fits(f.code[k].path, at[k], path)
    BY <1>7, <2>3, <2>4
  <2> QED  BY <1>10, <2>2, <2>5, <2>6 DEF OnWay, b, p
<1>19. ASSUME OnWay(f, C, path)
       PROVE  Begins /\ Ends(e, N - 1, path)
  <2>1. Fits(p, 0, path)
    BY <1>19 DEF OnWay, p
  <2>2. PICK au \in [C -> 0 .. Len(path)] :
          /\ Places(f.code, C, b, au)
          /\ \A k \in C : IF IsFirst(C, k) THEN FitsEnd(f.code[k].path, au[k], path)
                           ELSE Fits(f.code[k].path, au[k], path)
    BY <1>19 DEF OnWay, p, b
  <2>3. \A k \in C : at[k] = au[k]
    <3>1. Places(f.code, C, b, at) /\ Places(f.code, C, b, au)
      BY <1>10, <2>2
    <3>2. Bounded(C)
      BY <1>1, CodeFacts DEF Bounded
    <3> QED  BY <3>1, <3>2, PlacesUnique
  <2>4. FitsEnd(F0, at[k0], path) /\ \A k \in C \ {k0} : Fits(f.code[k].path, at[k], path)
    BY <1>6, <1>7, <2>2, <2>3
  <2>5. ASSUME NEW x \in 1 .. N - 1
        PROVE  Meets(pat[x], path[x])
    <3>0. x \in Nat /\ x >= 1 /\ x <= N - 1 /\ x \in 1 .. N
      BY <1>3
    <3>1. CASE x <= b
      <4>1. x \in 1 .. b
        BY <1>5, <3>0, <3>1
      <4> QED  BY <1>9, <1>15, <2>1, <4>1
    <3>2. CASE ~(x <= b)
      <4>1. PICK k \in C : \E i \in 1 .. L(k) : x = at[k] + i
        BY <1>10, <3>0, <3>2
      <4>2. PICK i \in 1 .. L(k) : x = at[k] + i
        BY <4>1
      <4>3. pat[x] = f.code[k].path[i]
        BY <1>10, <4>2
      <4>4. CASE k # k0
        BY <1>16, <2>4, <4>2, <4>3, <4>4
      <4>5. CASE k = k0
        <5>1. i \in 1 .. L(k0) - 1
          <6>1. i \in 1 .. L(k0) /\ x = at[k0] + i
            BY <4>2, <4>5
          <6> QED  BY <1>12, <1>13, <3>0, <6>1
        <5> QED  BY <1>17, <2>4, <4>2, <4>3, <4>5, <5>1
      <4> QED  BY <4>4, <4>5
    <3> QED  BY <3>1, <3>2
  <2>6. Ends(e, N - 1, path)
    BY <1>17, <2>4
  <2> QED  BY <2>5, <2>6
<1> QED  BY <1>14, <1>18, <1>19 DEF pat

-----------------------------------------------------------------------------
(* Answers.                                                                *)

\* The file a.ts does not come before the files in the directory a.
LEMMA DirectoryFirst ==
  ASSUME NEW g, NEW f, IsSeq(RNames), g.dirs \in Seq(ToSet(RNames)), g.stem \in ToSet(RNames),
         f.dirs \in Seq(ToSet(RNames)), f.stem \in ToSet(RNames),
         IsPrefix(Append(g.dirs, g.stem), f.dirs)
  PROVE  g # f /\ ~file_path_order(g, f)
<1> DEFINE S == ToSet(RNames)
           rank(name) == CHOOSE i \in DOMAIN RNames : RNames[i] = name
           d == Len(g.dirs)
           n == Len(f.dirs)
           a == Append(g.dirs, g.stem)
           p == Components(g)
           q == Components(f)
<1>1. \A x \in S : rank(x) \in Nat
  <2>1. DOMAIN RNames \subseteq Nat
    BY SeqFacts
  <2>2. \A x \in S : \E i \in DOMAIN RNames : RNames[i] = x
    BY DEF ToSet
  <2> QED  BY <2>1, <2>2
<1>2. /\ d \in Nat /\ DOMAIN g.dirs = 1 .. d /\ n \in Nat /\ DOMAIN f.dirs = 1 .. n
      /\ a \in Seq(S) /\ Len(a) = d + 1 /\ a[d + 1] = g.stem /\ \A i \in 1 .. d : a[i] = g.dirs[i]
  BY LenProperties, AppendProperties
<1>3. d + 1 <= n /\ SubSeq(a, 1, d + 1) = SubSeq(f.dirs, 1, d + 1)
  BY <1>2 DEF IsPrefix
<1>4. \A i \in 1 .. d + 1 : a[i] = f.dirs[i]
  <2>1. \A i \in 1 .. d + 1 : a[i] \in S /\ f.dirs[i] \in S
    <3>1. \A i \in 1 .. d + 1 : i \in 1 .. Len(a) /\ i \in 1 .. n
      BY <1>2, <1>3
    <3> QED  BY <1>2, <3>1, ElementOfSeq
  <2>2. 1 \in Int /\ d + 1 \in Int /\ \A i \in 1 .. d + 1 : i \in 1 .. (d + 1) - 1 + 1 /\ 1 + i - 1 = i
    BY <1>2
  <2> HIDE DEF S, a, d
  <2>3. \A i \in 1 .. (d + 1) - 1 + 1 : SubSeq(a, 1, d + 1)[i] = a[1 + i - 1]
    BY <2>1, <2>2, SubSeqProperties
  <2>4. \A i \in 1 .. (d + 1) - 1 + 1 : SubSeq(f.dirs, 1, d + 1)[i] = f.dirs[1 + i - 1]
    BY <2>1, <2>2, SubSeqProperties
  <2>5. ASSUME NEW i \in 1 .. d + 1
        PROVE  a[i] = f.dirs[i]
    BY <1>3, <2>2, <2>3, <2>4, <2>5
  <2> QED  BY <2>5
<1>5. g # f
  BY <1>2, <1>3
\* The components of the two paths.
<1>6. ASSUME NEW h, NEW m \in Nat, DOMAIN h.dirs = 1 .. m
      PROVE  /\ DOMAIN Components(h) = 1 .. m + 1
             /\ \A i \in 1 .. m : Components(h)[i] = <<rank(h.dirs[i]), 0>>
             /\ Components(h)[m + 1] = <<rank(h.stem), 1>>
  <2> DEFINE s == [i \in DOMAIN h.dirs |-> <<rank(h.dirs[i]), 0>>]
             x == <<rank(h.stem), 1>>
             T == {<<rank(h.dirs[i]), 0>> : i \in DOMAIN h.dirs}
  <2>1. Components(h) = s \o <<x>>
    BY DEF Components
  <2>2. s \in Seq(T) /\ Len(s) = m /\ \A i \in 1 .. m : s[i] = <<rank(h.dirs[i]), 0>>
    <3> HIDE DEF rank
    <3>1. s = [i \in 1 .. m |-> <<rank(h.dirs[i]), 0>>] /\ \A i \in 1 .. m : <<rank(h.dirs[i]), 0>> \in T
      BY <1>6
    <3> HIDE DEF T
    <3>2. [i \in 1 .. m |-> <<rank(h.dirs[i]), 0>>] \in Seq(T)
      BY <3>1
    <3>3. s \in Seq(T) /\ DOMAIN s = 1 .. m
      BY <1>6, <3>1, <3>2
    <3>4. Len(s) = m
      BY <3>3, LenProperties
    <3> QED  BY <1>6, <3>3, <3>4
  <2> HIDE DEF s, x, T, rank
  <2>3. IsSeq(s) /\ IsSeq(<<x>>) /\ Len(<<x>>) = 1 /\ <<x>>[1] = x
    <3>1. <<x>> \in Seq({x}) /\ Len(<<x>>) = 1 /\ <<x>>[1] = x
      OBVIOUS
    <3> QED  BY <2>2, <3>1, SeqIsSeq
  <2> DEFINE y == <<x>>
  <2>4. /\ DOMAIN (s \o y) = 1 .. Len(s) + Len(y)
        /\ \A i \in 1 .. Len(s) : (s \o y)[i] = s[i]
        /\ \A i \in 1 .. Len(y) : (s \o y)[Len(s) + i] = y[i]
    <3>1. IsSeq(y)
      BY <2>3
    <3> HIDE DEF y
    <3> QED  BY <2>3, <3>1, ConcatFacts
  <2>5. 1 \in 1 .. Len(y)
    BY <2>3
  <2>6. DOMAIN (s \o y) = 1 .. m + 1 /\ (s \o y)[m + 1] = x
    BY <2>2, <2>3, <2>4, <2>5
  <2> QED  BY <2>1, <2>2, <2>4, <2>6 DEF x
<1> HIDE DEF rank, p, q, d, n
<1>7. /\ DOMAIN p = 1 .. d + 1 /\ p[d + 1] = <<rank(g.stem), 1>>
      /\ \A i \in 1 .. d : p[i] = <<rank(g.dirs[i]), 0>>
  BY <1>2, <1>6 DEF p
<1>8. \A i \in 1 .. n : q[i] = <<rank(f.dirs[i]), 0>>
  BY <1>2, <1>6 DEF q
<1>9. ASSUME NEW i \in 1 .. d + 1
      PROVE  ~ComponentLess(p[i], q[i])
  <2>1. i \in 1 .. n /\ a[i] = f.dirs[i]
    BY <1>2, <1>3, <1>4
  <2>2. CASE i \in 1 .. d
    <3>1. p[i] = q[i] /\ p[i] = <<rank(f.dirs[i]), 0>>
      BY <1>2, <1>7, <1>8, <2>1, <2>2
    <3>2. f.dirs[i] \in S
      BY <1>2, <2>1, ElementOfSeq DEF n
    <3>3. rank(f.dirs[i]) \in Nat
      BY <1>1, <3>2
    <3>4. p[i][1] = rank(f.dirs[i]) /\ p[i][2] = 0
      BY <3>1
    <3> QED  BY <3>1, <3>3, <3>4 DEF ComponentLess
  <2>3. CASE i = d + 1
    <3>1. p[i] = <<rank(g.stem), 1>> /\ q[i] = <<rank(g.stem), 0>>
      BY <1>2, <1>7, <1>8, <2>1, <2>3
    <3>2. rank(g.stem) \in Nat
      BY <1>1
    <3>3. p[i][1] = rank(g.stem) /\ p[i][2] = 1 /\ q[i][1] = rank(g.stem) /\ q[i][2] = 0
      BY <3>1
    <3> QED  BY <3>2, <3>3 DEF ComponentLess
  <2>4. i \in 1 .. d \/ i = d + 1
    BY <1>2
  <2> QED  BY <2>2, <2>3, <2>4
<1>10. ~file_path_order(g, f)
  BY <1>7, <1>9 DEF file_path_order, p, q
<1> QED  BY <1>5, <1>10

\* How a route is matched.
LEMMA MatchForm ==
  ASSUME RootInv, ServeInv, rstage = "serve", NEW req \in RRequests, NEW i \in DOMAIN routes
  PROVE  /\ testPathOnly(routes[i], req.path) <=> Reads(routes[i].pattern, 0, req.path)
         /\ match(routes[i], req.method, req.path) <=>
              {req.method, "*"} \cap routes[i].methods # {} /\ Reads(routes[i].pattern, 0, req.path)
<1>1. IsSeq(req.path) /\ req.path # << >>
  BY RoutingAssumption
<1>2. IsSeq(routes[i].pattern) /\ routes[i].pattern # << >>
  BY ServedRoutes DEF IsRoute
<1>3. exec(routes[i].pattern, req.path)
        \/ (Last(req.path) # "" /\ exec(routes[i].pattern, Append(req.path, "")))
      <=> Reads(routes[i].pattern, 0, req.path)
  BY <1>1, <1>2, ExecForm
<1> QED  BY <1>3 DEF testPathOnly, match

\* The special routes match the paths that IsSpecial names.
LEMMA SpecialRead ==
  ASSUME RootInv, ServeInv, rstage = "serve", NEW path, IsSeq(path), path # << >>, ~IsSpecial(path),
         NEW i \in DOMAIN routes, Reads(routes[i].pattern, 0, path)
  PROVE  i \notin {1, 2}
<1>1. routes[1].pattern = <<"">> /\ routes[2].pattern = <<"__chiselstrike", "routes">>
  BY ServedRoutes
<1>2. path \in Seq(ToSet(path)) /\ Len(path) \in Nat /\ DOMAIN path = 1 .. Len(path)
  BY SeqFacts DEF IsSeq
<1>3. CASE i = 1
  <2> DEFINE p == <<"">>
  <2>1. Len(p) = 1 /\ p[1] = "" /\ 0 + 1 - 1 = 0
    OBVIOUS
  <2>2. Reads(p, 0, path)
    BY <1>1, <1>3
  <2> HIDE DEF p
  <2>3. Ends("", 0, path)
    BY <2>1, <2>2 DEF Reads
  <2>4. Len(NoSlash(path)) = 0
    BY <2>3 DEF Ends
  <2>5. NoSlash(path) \in Seq(ToSet(path))
    <3>1. Front(path) \in Seq(ToSet(path))
      BY <1>2, FrontFacts, FrontIsSeq
    <3> QED  BY <1>2, <3>1 DEF NoSlash
  <2>6. NoSlash(path) = << >>
    BY <2>4, <2>5, EmptySeq
  <2> QED  BY <2>6 DEF IsSpecial
<1>4. CASE i = 2
  <2> DEFINE p == <<"__chiselstrike", "routes">>
  <2>1. Len(p) = 2 /\ p[1] = "__chiselstrike" /\ p[2] = "routes" /\ 0 + 2 - 1 = 1 /\ 0 + 1 = 1
        /\ 1 \in 1 .. 2 - 1 /\ 1 + 1 = 2
    OBVIOUS
  <2>2. Reads(p, 0, path)
    BY <1>1, <1>4
  <2> HIDE DEF p
  <2>3. Meets("__chiselstrike", path[1]) /\ Ends("routes", 1, path)
    BY <2>1, <2>2 DEF Reads
  <2>4. path[1] = "__chiselstrike" /\ Len(path) = 2 /\ path[2] = "routes"
    BY <2>1, <2>3 DEF Ends, Meets
  <2>5. path = p
    <3> DEFINE T == {"__chiselstrike", "routes"}
               S == ToSet(path) \cup T
    <3>1. p \in Seq(T)
      BY DEF p
    <3>2. p \in Seq(S) /\ path \in Seq(S)
      BY <1>2, <3>1, SeqMonotonic
    <3>3. \A k \in 1 .. Len(path) : k = 1 \/ k = 2
      BY <2>4
    <3>4. Len(path) = Len(p) /\ \A k \in 1 .. Len(path) : path[k] = p[k]
      BY <2>1, <2>4, <3>3
    <3> HIDE DEF S
    <3> QED  BY <3>2, <3>4, SeqEqual
  <2> QED  BY <2>5 DEF IsSpecial, p
<1> QED  BY <1>3, <1>4

\* The route of a path is one of a file that has the path on a way.
LEMMA RouteServes ==
  ASSUME RootInv, ServeInv, rstage = "serve", NEW path, IsSeq(path), path # << >>, ~IsSpecial(path),
         NEW i \in DOMAIN routes, Reads(routes[i].pattern, 0, path)
  PROVE  \E f \in walk_dir(rtree) : \E C \in Ways(f) :
           /\ OnWay(f, C, path) /\ routes[i].handler.file = f /\ IsFirst(C, routes[i].handler.at)
           /\ \A k \in C : IsFirst(C, k) => routes[i].methods = f.code[k].methods
<1>1. i \notin {1, 2}
  BY SpecialRead
<1>2. PICK f \in walk_dir(rtree) : \E C \in Ways(f) : RouteOf(f, C, routes[i])
  BY <1>1, UserRoute
<1>3. PICK C \in Ways(f) : RouteOf(f, C, routes[i])
  BY <1>2
<1>4. CodeOK(f) /\ IsSeq(path_pattern(f))
  BY FileFacts
<1>5. IsRoute(routes[i])
  BY ServedRoutes
<1>6. OnWay(f, C, path)
  BY <1>3, <1>4, <1>5, WayForm
<1>7. /\ routes[i].handler.file = f /\ IsFirst(C, routes[i].handler.at)
      /\ \A k \in C : IsFirst(C, k) => routes[i].methods = f.code[k].methods
  BY <1>3, <1>4, HandlerOf DEF RouteOf
<1> QED  BY <1>6, <1>7

\* Every way of a file has a route.
LEMMA WayServed ==
  ASSUME RootInv, ServeInv, rstage = "serve", NEW path, IsSeq(path), path # << >>,
         NEW f \in walk_dir(rtree), NEW C \in Ways(f), OnWay(f, C, path)
  PROVE  \E i \in DOMAIN routes :
           /\ Reads(routes[i].pattern, 0, path) /\ routes[i].handler.file = f
           /\ \A k \in C : IsFirst(C, k) => routes[i].methods = f.code[k].methods
<1> DEFINE n == Len(rroot.routes)
<1>1. /\ n \in Nat /\ DOMAIN rroot.routes = 1 .. n /\ DOMAIN routes = 1 .. 2 + n
      /\ \A i \in 1 .. n : Same(rroot.routes[i], routes[2 + i])
      /\ \A i \in DOMAIN routes : IsRoute(routes[i])
  BY ServedRoutes
<1>2. rtodo = {}
  BY DEF ServeInv
<1>3. PICK j \in 1 .. n : RouteOf(f, C, rroot.routes[j])
  BY <1>1, <1>2 DEF RootInv
<1>4. 2 + j \in DOMAIN routes
  BY <1>1
<1>5. RouteOf(f, C, routes[2 + j])
  BY <1>1, <1>3, SameWay
<1>6. CodeOK(f) /\ IsSeq(path_pattern(f))
  BY FileFacts
<1>7. Reads(routes[2 + j].pattern, 0, path)
  BY <1>1, <1>4, <1>5, <1>6, WayForm
<1>8. /\ routes[2 + j].handler.file = f
      /\ \A k \in C : IsFirst(C, k) => routes[2 + j].methods = f.code[k].methods
  BY <1>5, <1>6, HandlerOf DEF RouteOf
<1> QED  BY <1>4, <1>7, <1>8

\* Of two routes of the project the first one's file comes first, or it is the same file.
LEMMA RoutesOrdered ==
  ASSUME RootInv, ServeInv, rstage = "serve",
         NEW i \in DOMAIN routes, NEW j \in DOMAIN routes, i \notin {1, 2}, i <= j
  PROVE  \/ routes[i].handler.file = routes[j].handler.file
         \/ file_path_order(routes[i].handler.file, routes[j].handler.file)
<1> DEFINE n == Len(rroot.routes)
           rs == rroot.routes
<1>1. /\ n \in Nat /\ DOMAIN rs = 1 .. n /\ DOMAIN routes = 1 .. 2 + n
      /\ \A k \in 1 .. n : Same(rs[k], routes[2 + k])
      /\ \A k \in DOMAIN routes : k \in {1, 2} \/ (k - 2 \in 1 .. n /\ 2 + (k - 2) = k)
  BY ServedRoutes
<1>2. i \in Nat /\ j \in Nat /\ i # 1 /\ i # 2 /\ i >= 1
  BY <1>1
<1>3. j \notin {1, 2}
  BY <1>2
<1>4. i - 2 \in DOMAIN rs /\ j - 2 \in DOMAIN rs /\ 2 + (i - 2) = i /\ 2 + (j - 2) = j
  BY <1>1, <1>3
<1>5. routes[i].handler = rs[i - 2].handler /\ routes[j].handler = rs[j - 2].handler
  BY <1>1, <1>4 DEF Same
<1>6. i = j \/ i - 2 < j - 2
  BY <1>2
<1>7. \A x, y \in DOMAIN rs : x < y =>
        rs[x].handler.file = rs[y].handler.file \/ file_path_order(rs[x].handler.file, rs[y].handler.file)
  BY DEF RootInv
<1> QED  BY <1>4, <1>5, <1>6, <1>7

\* Requests are answered by the files that have a route for them.
THEOREM AnswersFitFiles == RSpec => []AnswerFitsFiles
<1>1. RoutingInv => AnswerFitsFiles
  <2> DEFINE files == walk_dir(rtree)
             path == rreq.path
             method == rreq.method
             h == rmatch.route.handler
             Hits(i) == match(routes[i], method, path)
  <2> SUFFICES ASSUME RoutingInv, rreq # NoRequest, ~IsSpecial(path)
               PROVE  /\ rmatch.found = "match" <=> \E f \in files : Serving(f, rreq) # {}
                      /\ rmatch.found = "not_found" <=> \A f \in files : \A C \in Ways(f) : ~OnWay(f, C, path)
                      /\ rmatch.found = "match" =>
                           /\ h.file \in files /\ \E C \in Serving(h.file, rreq) : IsFirst(C, h.at)
                           /\ ~\E f \in files :
                                Serving(f, rreq) # {} /\ IsPrefix(Append(h.file.dirs, h.file.stem), f.dirs)
    BY DEF AnswerFitsFiles
  <2>0. RootInv /\ ServeInv
    BY DEF RoutingInv
  <2>1. rstage = "serve" /\ rreq \in RRequests /\ rmatch = lookup(method, path)
    BY <2>0 DEF ServeInv
  <2>2. IsSeq(path) /\ path # << >> /\ IsSeq(RNames)
    BY <2>1, RoutingAssumption
  <2>3. /\ rmatch.found = "match" <=> \E i \in DOMAIN routes : Hits(i)
        /\ rmatch.found = "not_found" <=>
             /\ \A i \in DOMAIN routes : ~Hits(i)
             /\ \A i \in DOMAIN routes : ~testPathOnly(routes[i], path)
        /\ rmatch.found = "match" => \E i \in DOMAIN routes :
             rmatch.route = routes[i] /\ Hits(i) /\ \A j \in DOMAIN routes : Hits(j) => i <= j
    BY <2>0, <2>1, Looked
  <2>4. \A i \in DOMAIN routes :
          /\ testPathOnly(routes[i], path) <=> Reads(routes[i].pattern, 0, path)
          /\ Hits(i) <=> {method, "*"} \cap routes[i].methods # {} /\ Reads(routes[i].pattern, 0, path)
    BY <2>0, <2>1, MatchForm
  <2>5. \A f, C : C \in Serving(f, rreq) <=>
          /\ C \in Ways(f) /\ OnWay(f, C, path)
          /\ \A k \in C : IsFirst(C, k) => {method, "*"} \cap f.code[k].methods # {}
    BY DEF Serving
  <2> HIDE DEF Hits
  \* A route that matches, and the file it is from.
  <2>6. ASSUME NEW i \in DOMAIN routes, Hits(i)
        PROVE  /\ routes[i].handler.file \in files
               /\ \E C \in Serving(routes[i].handler.file, rreq) : IsFirst(C, routes[i].handler.at)
    <3>1. {method, "*"} \cap routes[i].methods # {} /\ Reads(routes[i].pattern, 0, path)
      BY <2>4, <2>6
    <3>2. PICK f \in files : \E C \in Ways(f) :
            /\ OnWay(f, C, path) /\ routes[i].handler.file = f /\ IsFirst(C, routes[i].handler.at)
            /\ \A k \in C : IsFirst(C, k) => routes[i].methods = f.code[k].methods
      BY <2>0, <2>1, <2>2, <3>1, RouteServes
    <3>3. PICK C \in Ways(f) :
            /\ OnWay(f, C, path) /\ routes[i].handler.file = f /\ IsFirst(C, routes[i].handler.at)
            /\ \A k \in C : IsFirst(C, k) => routes[i].methods = f.code[k].methods
      BY <3>2
    <3>4. C \in Serving(f, rreq)
      BY <2>5, <3>1, <3>3
    <3> QED  BY <3>3, <3>4
  \* A way on which a request is served, and its route.
  <2>7. ASSUME NEW f \in files, Serving(f, rreq) # {}
        PROVE  \E i \in DOMAIN routes : Hits(i) /\ routes[i].handler.file = f
    <3>1. PICK C \in Serving(f, rreq) : TRUE
      BY <2>7
    <3>2. /\ C \in Ways(f) /\ OnWay(f, C, path)
          /\ \A k \in C : IsFirst(C, k) => {method, "*"} \cap f.code[k].methods # {}
      BY <2>5, <3>1
    <3>3. PICK i \in DOMAIN routes :
            /\ Reads(routes[i].pattern, 0, path) /\ routes[i].handler.file = f
            /\ \A k \in C : IsFirst(C, k) => routes[i].methods = f.code[k].methods
      BY <2>0, <2>1, <2>2, <3>2, WayServed
    <3>4. CodeOK(f)
      BY <2>0, <2>1, FileFacts
    <3>5. PICK k \in C : IsFirst(C, k)
      <4>1. C \subseteq 1 .. Len(f.code) /\ Len(f.code) \in Nat /\ C # {}
        BY <3>2, <3>4, CodeFacts DEF Ways, IsWay
      <4> QED  BY <4>1, FirstExists
    <3>6. {method, "*"} \cap routes[i].methods # {}
      BY <3>2, <3>3, <3>5
    <3>7. Hits(i)
      BY <2>4, <3>3, <3>6
    <3> QED  BY <3>3, <3>7
  <2>8. rmatch.found = "match" <=> \E f \in files : Serving(f, rreq) # {}
    BY <2>3, <2>6, <2>7
  <2>9. rmatch.found = "not_found" <=> \A f \in files : \A C \in Ways(f) : ~OnWay(f, C, path)
    <3>1. ASSUME NEW i \in DOMAIN routes, Reads(routes[i].pattern, 0, path)
          PROVE  \E f \in files : \E C \in Ways(f) : OnWay(f, C, path)
      BY <2>0, <2>1, <2>2, <3>1, RouteServes
    <3>2. ASSUME NEW f \in files, NEW C \in Ways(f), OnWay(f, C, path)
          PROVE  \E i \in DOMAIN routes : Reads(routes[i].pattern, 0, path)
      BY <2>0, <2>1, <2>2, <3>2, WayServed
    <3>3. rmatch.found = "not_found" <=> \A i \in DOMAIN routes : ~Reads(routes[i].pattern, 0, path)
      BY <2>3, <2>4
    <3> QED  BY <3>1, <3>2, <3>3
  <2>10. ASSUME rmatch.found = "match"
         PROVE  /\ h.file \in files /\ \E C \in Serving(h.file, rreq) : IsFirst(C, h.at)
                /\ ~\E f \in files :
                     Serving(f, rreq) # {} /\ IsPrefix(Append(h.file.dirs, h.file.stem), f.dirs)
    <3>1. PICK i \in DOMAIN routes :
            rmatch.route = routes[i] /\ Hits(i) /\ \A j \in DOMAIN routes : Hits(j) => i <= j
      BY <2>3, <2>10
    <3>2. h.file \in files /\ \E C \in Serving(h.file, rreq) : IsFirst(C, h.at)
      BY <2>6, <3>1
    <3>3. ASSUME NEW f \in files, Serving(f, rreq) # {}, IsPrefix(Append(h.file.dirs, h.file.stem), f.dirs)
          PROVE  FALSE
      <4>1. PICK j \in DOMAIN routes : Hits(j) /\ routes[j].handler.file = f
        BY <2>7, <3>3
      <4>2. i \notin {1, 2} /\ i <= j
        BY <2>0, <2>1, <2>2, <2>4, <3>1, <4>1, SpecialRead
      <4>3. h.file = f \/ file_path_order(h.file, f)
        BY <2>0, <2>1, <3>1, <4>1, <4>2, RoutesOrdered
      <4>4. /\ h.file.dirs \in Seq(ToSet(RNames)) /\ h.file.stem \in ToSet(RNames)
            /\ f.dirs \in Seq(ToSet(RNames)) /\ f.stem \in ToSet(RNames)
        BY <2>0, <2>1, <3>2, FileFacts
      <4> QED  BY <2>2, <3>3, <4>3, <4>4, DirectoryFirst
    <3> QED  BY <3>2, <3>3
  <2> QED  BY <2>8, <2>9, <2>10
<1> QED  BY <1>1, RoutingInvariance, PTL

(***************************************************************************)
(* Transactions.                                                           *)
(***************************************************************************)
-----------------------------------------------------------------------------
(* Facts about the operations called.                                      *)

\* The operations are numbered from 1.
LEMMA OpsFacts ==
  ASSUME OpsTypeOK
  PROVE  /\ DOMAIN ops = 1 .. Len(ops) /\ Len(ops) \in 0 .. MaxOp
         /\ \A o \in DOMAIN ops : ops[o] \in Op
         /\ \A o \in DOMAIN ops : o \in 1 .. MaxOp
<1>1. ops \in Seq(Op) /\ Len(ops) <= MaxOp /\ MaxOp \in Nat
  BY TransactionsAssumption DEF OpsTypeOK
<1>2. DOMAIN ops = 1 .. Len(ops) /\ Len(ops) \in Nat
  BY <1>1
<1>3. \A o \in DOMAIN ops : ops[o] \in Op
  BY <1>1
<1> QED BY <1>1, <1>2, <1>3

\* An operation advances: the others, and what it is, stay as they are.
LEMMA OpsAdvance ==
  ASSUME OpsTypeOK, NEW o \in DOMAIN ops,
         NEW p \in {"called", "waiting", "locked", "done", "error"},
         ops' = [ops EXCEPT ![o].pc = p]
  PROVE  /\ ops' \in Seq(Op) /\ Len(ops') = Len(ops) /\ DOMAIN ops' = DOMAIN ops
         /\ \A q \in DOMAIN ops : q # o => ops'[q] = ops[q]
         /\ ops'[o].pc = p /\ ops'[o].ctx = ops[o].ctx /\ ops'[o].by = ops[o].by
         /\ ops'[o].kind = ops[o].kind /\ ops'[o].awaited = ops[o].awaited
<1> DEFINE new == [ops[o] EXCEPT !.pc = p]
<1>1. o \in 1 .. Len(ops) /\ ops[o] \in Op /\ ops \in Seq(Op)
  BY OpsFacts DEF OpsTypeOK
<1>2. new \in Op
  BY <1>1 DEF Op
<1>3. ops' = [ops EXCEPT ![o] = new]
  OBVIOUS
<1>4. /\ new.pc = p /\ new.ctx = ops[o].ctx /\ new.by = ops[o].by
      /\ new.kind = ops[o].kind /\ new.awaited = ops[o].awaited
  BY <1>1 DEF Op
<1> HIDE DEF new
<1>5. /\ ops' \in Seq(Op) /\ Len(ops') = Len(ops)
      /\ \A q \in 1 .. Len(ops) : ops'[q] = IF q = o THEN new ELSE ops[q]
  BY <1>1, <1>2, <1>3, ExceptSeq
<1>6. DOMAIN ops' = 1 .. Len(ops) /\ DOMAIN ops = 1 .. Len(ops)
  BY <1>1, <1>5
<1> QED BY <1>1, <1>4, <1>5, <1>6

\* An operation is called: it comes last, and is not yet in flight.
LEMMA OpsCall ==
  ASSUME TxInv, NEW kind \in OpKind, NEW by \in TxJob, NEW awaited \in BOOLEAN,
         Len(ops) < MaxOp, ops' = Append(ops, NewOp(kind, by, awaited))
  PROVE  LET n == Len(ops) + 1 IN
         /\ ops' \in Seq(Op) /\ Len(ops') = n /\ n \in 1 .. MaxOp
         /\ DOMAIN ops' = DOMAIN ops \cup {n} /\ n \notin DOMAIN ops
         /\ \A q \in DOMAIN ops : ops'[q] = ops[q]
         /\ ops'[n].pc \in {"called", "error"} /\ ops'[n].ctx = rid
         /\ ops'[n].by = by /\ ops'[n].awaited = awaited
         /\ ops'[n].pc # "error" => rid # 0
<1> DEFINE new == NewOp(kind, by, awaited)
<1>1. ops \in Seq(Op) /\ Len(ops) \in Nat /\ DOMAIN ops = 1 .. Len(ops)
  BY OpsFacts DEF TxInv, TxTypeOK, OpsTypeOK
<1>2. rid \in 0 .. MaxJob
  BY DEF TxInv, TxTypeOK, LoopTypeOK
<1>3. new \in Op
  BY <1>2 DEF NewOp, Op
<1>4. /\ new.pc \in {"called", "error"} /\ new.ctx = rid /\ new.by = by /\ new.awaited = awaited
      /\ new.pc # "error" => rid # 0
  BY DEF NewOp
<1> HIDE DEF new
<1>5. /\ ops' \in Seq(Op) /\ Len(ops') = Len(ops) + 1
      /\ \A q \in 1 .. Len(ops) : ops'[q] = ops[q]
      /\ ops'[Len(ops) + 1] = new
  BY <1>1, <1>3, AppendProperties DEF new
<1>6. DOMAIN ops' = 1 .. Len(ops) + 1
  BY <1>5
<1>7. DOMAIN ops' = DOMAIN ops \cup {Len(ops) + 1} /\ Len(ops) + 1 \notin DOMAIN ops
  BY <1>1, <1>6
<1>8. Len(ops) + 1 \in 1 .. MaxOp
  BY <1>1, TransactionsAssumption
<1> QED BY <1>1, <1>4, <1>5, <1>7, <1>8

\* What it means that nothing refers to the transaction of a job.
LEMMA ArcFacts ==
  \A j : /\ ArcHolders(j) = {} <=> \A o \in DOMAIN ops : ~(ops[o].ctx = j /\ InFlight(o))
         /\ ArcHolders(j)' = {} <=> \A o \in DOMAIN ops' : ~(ops'[o].ctx = j /\ InFlight(o)')
BY DEF ArcHolders, InFlight

-----------------------------------------------------------------------------
(* TxInv is inductive.                                                     *)

\* As long as no operation advances, the same operations refer to a transaction.
LEMMA SameHolders ==
  ASSUME ops' = ops
  PROVE  /\ \A j : ArcHolders(j)' = ArcHolders(j)
         /\ \A o : InFlight(o)' <=> InFlight(o)
BY DEF ArcHolders, InFlight

\* The job loop and the handlers' bracket: the operations stay as they are.
LEMMA JobLoopStep == TxInv /\ JobLoop => TxInv'
<1> SUFFICES ASSUME TxInv, JobLoop PROVE TxInv'
  OBVIOUS
<1> USE DEF TxInv, TxTypeOK
<1>0. /\ ops' = ops /\ locked' = locked /\ written' = written /\ floating' = floating
      /\ waits' \in {waits, 0}
  BY DEF JobLoop, run_accept, op_chisel_begin_transaction, begin_err, loggedInUser,
         loggedInUser_err, handler_returns, handler_throws, op_chisel_commit_transaction,
         op_chisel_rollback_transaction, run_respond, resume
<1>a. OpsTypeOK'
  BY <1>0, OpsFacts DEF OpsTypeOK
<1>b. LockInv' /\ OpInv'
  BY <1>0 DEF LockInv, OpInv
<1>c. /\ \A j : ArcHolders(j)' = ArcHolders(j)
      /\ \A o : InFlight(o)' <=> InFlight(o)
  BY <1>0, SameHolders
<1>d. /\ written' \in [TxJob -> SUBSET (1 .. MaxOp)] /\ locked' \in [TxJob -> 0 .. MaxOp]
      /\ floating' \subseteq TxJob
  BY <1>0 DEF LoopTypeOK
<1>e. MaxJob \in Nat \ {0} /\ \A j : j \in TxJob <=> j \in 1 .. MaxJob
  BY TransactionsAssumption DEF TxJob
<1>f. job \in 0 .. MaxJob /\ rid \in 0 .. MaxJob
  BY DEF LoopTypeOK
<1>g. \A j \in TxJob : j > job => j # job
  BY <1>e, <1>f
<1>1. CASE run_accept
  <2>0. job + 1 \in TxJob /\ jpc = "accept"
    BY <1>1, <1>e, <1>f DEF run_accept
  <2>1. LoopTypeOK'
    <3>1. job' \in 0 .. MaxJob /\ rid' \in 0 .. MaxJob
      BY <1>1, <1>e, <2>0 DEF run_accept
    <3> QED BY <1>1, <1>d, <3>1 DEF run_accept, LoopTypeOK
  <2>2. LoopInv'
    <3>1. txn[job + 1] = "none" /\ answer[job + 1] = "none"
      BY <1>e, <1>f, <2>0 DEF ContextInv
    <3> QED BY <1>1, <2>0, <3>1 DEF run_accept, LoopInv
  <2>3. ContextInv'
    <3>1. \A j \in TxJob : ~current[j]
      BY <2>0 DEF ContextInv
    <3>2. \A j \in TxJob : j > job' => j > job
      BY <1>1, <1>e, <1>f DEF run_accept
    <3> QED BY <1>1, <3>1, <3>2 DEF run_accept, ContextInv
  <2>4. AnswerInv'
    BY <1>1 DEF run_accept, AnswerInv
  <2>5. HolderInv'
    BY <1>1, <1>0, <1>c DEF run_accept, HolderInv
  <2> QED BY <1>a, <1>b, <2>1, <2>2, <2>3, <2>4, <2>5
<1>2. CASE op_chisel_begin_transaction
  <2>0. /\ job \in TxJob /\ txn[job] = "none" /\ answer[job] = "none" /\ jpc = "begin"
        /\ jpc' \in {"user", "handler"} /\ job' = job /\ rid' = rid /\ answer' = answer /\ rid = job
    BY <1>2 DEF op_chisel_begin_transaction, LoopInv
  <2>1. /\ txn'[job] = "active" /\ current'[job] = TRUE
        /\ \A j \in TxJob \ {job} : txn'[j] = txn[j] /\ current'[j] = current[j]
        /\ txn' \in [TxJob -> {"none", "active", "committed", "rolled back"}]
        /\ current' \in [TxJob -> BOOLEAN]
    BY <1>2, <2>0 DEF op_chisel_begin_transaction, LoopTypeOK
  <2>2. LoopTypeOK'
    BY <1>d, <2>0, <2>1 DEF LoopTypeOK
  <2>3. LoopInv'
    BY <2>0, <2>1 DEF LoopInv
  <2>4. ContextInv'
    BY <2>0, <2>1, <1>g DEF ContextInv
  <2>5. AnswerInv'
    BY <2>0, <2>1 DEF AnswerInv
  <2>6. HolderInv'
    BY <1>0, <1>c, <2>0, <2>1 DEF HolderInv
  <2> QED BY <1>a, <1>b, <2>2, <2>3, <2>4, <2>5, <2>6
<1>3. CASE begin_err \/ loggedInUser \/ loggedInUser_err \/ handler_returns \/ handler_throws \/ resume
  <2> USE DEF begin_err, loggedInUser, loggedInUser_err, handler_returns, handler_throws, resume
  <2>0. /\ job' = job /\ rid' = rid /\ current' = current /\ txn' = txn /\ answer' = answer
        /\ \/ jpc' = jpc \/ (jpc = "begin" /\ jpc' = "dead")
           \/ (jpc = "user" /\ jpc' \in {"handler", "lost"})
           \/ (jpc = "handler" /\ jpc' \in {"commit", "rollback"})
    BY <1>3
  <2>1. LoopTypeOK'
    BY <1>d, <2>0 DEF LoopTypeOK
  <2>2. LoopInv' /\ ContextInv' /\ AnswerInv'
    BY <2>0 DEF LoopInv, ContextInv, AnswerInv
  <2>3. HolderInv'
    BY <1>0, <1>c, <2>0 DEF HolderInv
  <2> QED BY <1>a, <1>b, <2>1, <2>2, <2>3
<1>4. CASE op_chisel_commit_transaction
  <2>0. /\ job \in TxJob /\ current[job] /\ txn[job] = "active" /\ answer[job] = "none"
        /\ jpc = "commit" /\ job' = job /\ rid' = rid /\ answer' = answer /\ rid = job
    BY <1>4 DEF op_chisel_commit_transaction, LoopInv, ContextInv
  <2>1. /\ current'[job] = FALSE
        /\ \A j \in TxJob \ {job} : txn'[j] = txn[j] /\ current'[j] = current[j]
        /\ \/ ArcHolders(job) = {} /\ txn'[job] = "committed" /\ jpc' = "respond"
           \/ ArcHolders(job) = {} /\ txn'[job] = "rolled back" /\ jpc' = "rollback"
           \/ ArcHolders(job) # {} /\ txn'[job] = "active" /\ jpc' = "rollback"
        /\ txn' \in [TxJob -> {"none", "active", "committed", "rolled back"}]
        /\ current' \in [TxJob -> BOOLEAN]
    <3>1. RcHolders(job) # {} => ArcHolders(job) # {}
      BY DEF RcHolders, ArcHolders
    <3> QED BY <1>4, <2>0, <3>1 DEF op_chisel_commit_transaction, LoopTypeOK
  <2>2. LoopTypeOK'
    BY <1>d, <2>0, <2>1 DEF LoopTypeOK
  <2>3. LoopInv'
    BY <2>0, <2>1 DEF LoopInv
  <2>4. ContextInv'
    BY <2>0, <2>1, <1>g DEF ContextInv
  <2>5. AnswerInv'
    BY <2>0, <2>1 DEF AnswerInv
  <2>6. HolderInv'
    BY <1>0, <1>c, <2>0, <2>1 DEF HolderInv, ArcHolders
  <2> QED BY <1>a, <1>b, <2>2, <2>3, <2>4, <2>5, <2>6
<1>5. CASE op_chisel_rollback_transaction
  <2>0. /\ job \in TxJob /\ txn[job] \in {"active", "rolled back"} /\ answer[job] = "none"
        /\ jpc = "rollback" /\ jpc' = "respond" /\ job' = job /\ rid' = rid /\ rid = job
    BY <1>5 DEF op_chisel_rollback_transaction, LoopInv
  <2>1. /\ current'[job] = FALSE
        /\ \A j \in TxJob \ {job} : /\ txn'[j] = txn[j] /\ current'[j] = current[j]
                                    /\ answer'[j] = answer[j]
        /\ answer'[job] = "error"
        /\ \/ ArcHolders(job) = {} /\ txn'[job] = "rolled back"
           \/ (ArcHolders(job) # {} \/ ~current[job]) /\ txn'[job] = txn[job]
        /\ txn' \in [TxJob -> {"none", "active", "committed", "rolled back"}]
        /\ current' \in [TxJob -> BOOLEAN]
        /\ answer' \in [TxJob -> {"none", "ok", "error", "refused"}]
    <3>1. RcHolders(job) # {} => ArcHolders(job) # {}
      BY DEF RcHolders, ArcHolders
    <3> QED BY <1>5, <2>0, <3>1 DEF op_chisel_rollback_transaction, LoopTypeOK
  <2>2. LoopTypeOK'
    BY <1>d, <2>0, <2>1 DEF LoopTypeOK
  <2>3. LoopInv'
    BY <2>0, <2>1 DEF LoopInv
  <2>4. ContextInv'
    BY <2>0, <2>1, <1>g DEF ContextInv
  <2>5. AnswerInv'
    BY <2>0, <2>1 DEF AnswerInv
  <2>6. HolderInv'
    BY <1>0, <1>c, <2>0, <2>1 DEF HolderInv, ArcHolders
  <2> QED BY <1>a, <1>b, <2>2, <2>3, <2>4, <2>5, <2>6
<1>6. CASE run_respond
  <2>r. rid' \in 0 .. MaxJob
    BY <1>6, <1>e DEF run_respond
  <2>0. /\ job \in TxJob /\ jpc = "respond" /\ jpc' = "accept" /\ job' = job /\ rid' = 0
        /\ txn' = txn /\ current' = current /\ ~current[job]
    BY <1>6 DEF run_respond, LoopInv, ContextInv
  <2>1. /\ \A j \in TxJob \ {job} : answer'[j] = answer[j]
        /\ \/ answer'[job] = "error" /\ txn[job] \in {"active", "rolled back"}
           \/ answer'[job] = "ok" /\ txn[job] = "committed"
           \/ answer'[job] = "refused"
        /\ answer' \in [TxJob -> {"none", "ok", "error", "refused"}]
    BY <1>6, <2>0 DEF run_respond, LoopTypeOK, LoopInv
  <2>2. LoopTypeOK'
    BY <1>d, <2>0, <2>1, <2>r DEF LoopTypeOK
  <2>3. LoopInv'
    BY <2>0 DEF LoopInv
  <2>4. ContextInv'
    BY <2>0, <2>1, <1>g DEF ContextInv
  <2>5. AnswerInv'
    BY <2>0, <2>1 DEF AnswerInv
  <2>6. HolderInv'
    BY <1>0, <1>c, <2>0 DEF HolderInv
  <2> QED BY <1>a, <1>b, <2>2, <2>3, <2>4, <2>5, <2>6
<1> QED BY <1>1, <1>2, <1>3, <1>4, <1>5, <1>6 DEF JobLoop

\* A call: the operation that it adds refers to nothing yet.
LEMMA CallStep ==
  ASSUME TxInv, NEW kind \in OpKind, NEW by \in TxJob, NEW awaited \in BOOLEAN,
         Len(ops) < MaxOp, ops' = Append(ops, NewOp(kind, by, awaited)),
         awaited => by = rid,
         waits' \in {waits, 0, Len(ops) + 1}, floating' \subseteq TxJob,
         UNCHANGED <<jpc, job, rid, current, txn, written, locked, answer>>
  PROVE  TxInv'
<1> DEFINE n == Len(ops) + 1
<1>1. /\ ops' \in Seq(Op) /\ Len(ops') = n /\ n \in 1 .. MaxOp
      /\ DOMAIN ops' = DOMAIN ops \cup {n} /\ n \notin DOMAIN ops
      /\ \A q \in DOMAIN ops : ops'[q] = ops[q]
      /\ ops'[n].pc \in {"called", "error"} /\ ops'[n].ctx = rid
      /\ ops'[n].by = by /\ ops'[n].awaited = awaited
      /\ ops'[n].pc # "error" => rid # 0
  BY OpsCall
<1>2. TxTypeOK'
  <2>1. waits' \in 0 .. Len(ops')
    BY <1>1, OpsFacts DEF TxInv, TxTypeOK, OpsTypeOK
  <2>2. Len(ops') <= MaxOp
    BY <1>1
  <2> QED BY <1>1, <2>1, <2>2 DEF TxInv, TxTypeOK, LoopTypeOK, OpsTypeOK
<1>3. LoopInv' /\ ContextInv' /\ AnswerInv'
  BY DEF TxInv, LoopInv, ContextInv, AnswerInv
<1>4. rid # 0 => rid \in TxJob
  BY TransactionsAssumption DEF TxInv, LoopInv, TxTypeOK
<1> HIDE DEF n
<1>5. HolderInv'
  BY <1>1 DEF TxInv, HolderInv, ArcHolders, InFlight
<1>6. LockInv'
  BY <1>1 DEF TxInv, LockInv
<1>7. OpInv'
  BY <1>1, <1>4 DEF TxInv, OpInv
<1> QED BY <1>2, <1>3, <1>5, <1>6, <1>7 DEF TxInv

\* The handler, or code that another handler left running, calls an operation.
LEMMA CallsStep ==
  ASSUME TxInv, NEW kind \in OpKind,
         \/ \E awaited \in BOOLEAN : handler_call(kind, awaited)
         \/ \E j \in floating : floating_call(j, kind)
  PROVE  TxInv'
<1>1. ASSUME NEW awaited \in BOOLEAN, handler_call(kind, awaited) PROVE TxInv'
  <2>1. rid = job /\ job \in TxJob
    BY <1>1 DEF handler_call, TxInv, LoopInv
  <2>2. floating' \subseteq TxJob /\ waits' \in {waits, 0, Len(ops) + 1}
    BY <1>1, <2>1 DEF handler_call, TxInv, TxTypeOK, LoopTypeOK
  <2> QED BY <1>1, <2>1, <2>2, CallStep DEF handler_call
<1>2. ASSUME NEW j \in floating, floating_call(j, kind) PROVE TxInv'
  <2>1. j \in TxJob /\ floating' \subseteq TxJob
    BY <1>2 DEF floating_call, TxInv, TxTypeOK, LoopTypeOK
  <2>2. FALSE \in BOOLEAN /\ waits' = waits
    BY <1>2 DEF floating_call
  <2> QED BY <1>2, <2>1, <2>2, CallStep DEF floating_call
<1> QED BY <1>1, <1>2

\* An operation gets its reference, and then the lock.
LEMMA AcquireStep ==
  ASSUME TxInv, NEW o \in DOMAIN ops, data_context(o) \/ lock_txn(o)
  PROVE  TxInv'
<1>0. o # 0 /\ o \in 1 .. MaxOp /\ ops[o] \in Op
  BY OpsFacts DEF TxInv, TxTypeOK
<1>1. CASE data_context(o)
  <2>1. PICK p \in {"waiting", "error"} :
          ops' = [ops EXCEPT ![o].pc = p] /\ (p = "waiting" => current[ops[o].ctx])
    BY <1>1, Zenon DEF data_context
  <2>2. /\ ops' \in Seq(Op) /\ Len(ops') = Len(ops) /\ DOMAIN ops' = DOMAIN ops
        /\ \A q \in DOMAIN ops : q # o => ops'[q] = ops[q]
        /\ ops'[o].pc = p /\ ops'[o].ctx = ops[o].ctx /\ ops'[o].by = ops[o].by
        /\ ops'[o].kind = ops[o].kind /\ ops'[o].awaited = ops[o].awaited
    BY <2>1, OpsAdvance DEF TxInv, TxTypeOK
  <2>3. ops[o].pc = "called" /\ ops[o].ctx \in TxJob
    BY <1>1 DEF data_context, TxInv, OpInv
  <2>4. TxTypeOK'
    BY <1>1, <2>2 DEF data_context, TxInv, TxTypeOK, LoopTypeOK, OpsTypeOK
  <2>5. LoopInv' /\ ContextInv' /\ AnswerInv'
    BY <1>1 DEF data_context, TxInv, LoopInv, ContextInv, AnswerInv
  <2>6. HolderInv'
    BY <1>1, <2>1, <2>2, <2>3 DEF data_context, TxInv, ContextInv, HolderInv, ArcHolders, InFlight
  <2>7. LockInv' /\ OpInv'
    BY <1>1, <2>1, <2>2, <2>3 DEF data_context, TxInv, LockInv, OpInv
  <2> QED BY <2>4, <2>5, <2>6, <2>7 DEF TxInv
<1>2. CASE lock_txn(o)
  <2>1. /\ ops' \in Seq(Op) /\ Len(ops') = Len(ops) /\ DOMAIN ops' = DOMAIN ops
        /\ \A q \in DOMAIN ops : q # o => ops'[q] = ops[q]
        /\ ops'[o].pc = "locked" /\ ops'[o].ctx = ops[o].ctx /\ ops'[o].by = ops[o].by
        /\ ops'[o].kind = ops[o].kind /\ ops'[o].awaited = ops[o].awaited
    BY <1>2, OpsAdvance DEF lock_txn, TxInv, TxTypeOK
  <2>2. ops[o].pc = "waiting" /\ ops[o].ctx \in TxJob
    BY <1>2 DEF lock_txn, TxInv, OpInv
  <2>l. /\ locked' \in [TxJob -> 0 .. MaxOp] /\ locked'[ops[o].ctx] = o
        /\ locked[ops[o].ctx] = 0
        /\ \A k \in TxJob : k # ops[o].ctx => locked'[k] = locked[k]
    <3>1. o \in 0 .. MaxOp
      BY <1>0
    <3> QED BY <1>2, <2>2, <3>1 DEF lock_txn, TxInv, TxTypeOK, LoopTypeOK
  <2>3. TxTypeOK'
    BY <1>2, <2>1, <2>l DEF lock_txn, TxInv, TxTypeOK, LoopTypeOK, OpsTypeOK
  <2>4. LoopInv' /\ ContextInv' /\ AnswerInv'
    BY <1>2 DEF lock_txn, TxInv, LoopInv, ContextInv, AnswerInv
  <2>5. HolderInv'
    BY <1>2, <2>1, <2>2 DEF lock_txn, TxInv, HolderInv, ArcHolders, InFlight
  <2>6. LockInv'
    <3>1. ASSUME NEW q \in DOMAIN ops, ops'[q].pc = "locked" PROVE locked'[ops'[q].ctx] = q
      <4>1. CASE q # o
        <5>1. ops[q].pc = "locked" /\ locked[ops[q].ctx] = q /\ ops[q].ctx \in TxJob
          BY <2>1, <3>1, <4>1 DEF TxInv, LockInv, OpInv
        <5>2. ops[q].ctx # ops[o].ctx
          BY <5>1, <2>l, OpsFacts DEF TxInv, TxTypeOK
        <5> QED BY <2>1, <2>l, <4>1, <5>1, <5>2
      <4> QED BY <2>1, <2>l, <4>1
    <3>2. ASSUME NEW k \in TxJob, locked'[k] # 0
          PROVE locked'[k] \in DOMAIN ops' /\ ops'[locked'[k]].ctx = k /\ ops'[locked'[k]].pc = "locked"
      <4>1. CASE k = ops[o].ctx
        BY <2>1, <2>l, <4>1
      <4>2. CASE k # ops[o].ctx
        BY <2>1, <2>2, <2>l, <3>2, <4>2 DEF TxInv, LockInv
      <4> QED BY <4>1, <4>2
    <3> QED BY <2>1, <3>1, <3>2 DEF LockInv
  <2>7. OpInv'
    BY <1>2, <2>1, <2>2 DEF lock_txn, TxInv, OpInv
  <2> QED BY <2>3, <2>4, <2>5, <2>6, <2>7 DEF TxInv
<1> QED BY <1>1, <1>2

\* An operation ends: its transaction is dropped if this was the last reference.
LEMMA EndStep ==
  ASSUME TxInv, NEW o \in DOMAIN ops, NEW p \in {"done", "error"},
         ops[o].pc = "locked", EndOp(o, p), UNCHANGED written \/ WrittenBy(o),
         p = "done" /\ ops[o].kind \in {"store", "delete"} => WrittenBy(o)
  PROVE  TxInv'
<1> DEFINE j == ops[o].ctx
<1>1. /\ ops' \in Seq(Op) /\ Len(ops') = Len(ops) /\ DOMAIN ops' = DOMAIN ops
      /\ \A q \in DOMAIN ops : q # o => ops'[q] = ops[q]
      /\ ops'[o].pc = p /\ ops'[o].ctx = ops[o].ctx /\ ops'[o].by = ops[o].by
      /\ ops'[o].kind = ops[o].kind /\ ops'[o].awaited = ops[o].awaited
  BY OpsAdvance DEF EndOp, TxInv, TxTypeOK
<1>2. j \in TxJob /\ txn[j] = "active" /\ locked[j] = o /\ o \in 1 .. MaxOp /\ o # 0
  BY OpsFacts DEF TxInv, TxTypeOK, HolderInv, LockInv, InFlight
<1>3. /\ \A k \in TxJob : k # j => txn'[k] = txn[k] /\ locked'[k] = locked[k]
      /\ locked'[j] = 0
      /\ txn'[j] = IF ~current[j] /\ ArcHolders(j) = {o} THEN "rolled back" ELSE "active"
      /\ txn' \in [TxJob -> {"none", "active", "committed", "rolled back"}]
      /\ locked' \in [TxJob -> 0 .. MaxOp]
  <2>1. 0 \in 0 .. MaxOp
    BY TransactionsAssumption
  <2>2. /\ txn \in [TxJob -> {"none", "active", "committed", "rolled back"}]
        /\ locked \in [TxJob -> 0 .. MaxOp]
    BY DEF TxInv, TxTypeOK, LoopTypeOK
  <2>3. locked' = [locked EXCEPT ![j] = 0]
    BY DEF EndOp
  <2>4. txn' = IF ~current[j] /\ ArcHolders(j) = {o} THEN [txn EXCEPT ![j] = "rolled back"] ELSE txn
    BY <1>2 DEF EndOp, DropTxn
  <2> HIDE DEF j
  <2> QED BY <1>2, <2>1, <2>2, <2>3, <2>4
<1>4. UNCHANGED <<jpc, job, rid, current, waits, floating, answer>>
  BY DEF EndOp
<1>5. /\ written' \in [TxJob -> SUBSET (1 .. MaxOp)]
      /\ \A k \in TxJob : written[k] \subseteq written'[k]
      /\ p = "done" /\ ops[o].kind \in {"store", "delete"} => o \in written'[j]
  <2>1. written \in [TxJob -> SUBSET (1 .. MaxOp)]
    BY DEF TxInv, TxTypeOK, LoopTypeOK
  <2>2. CASE ~WrittenBy(o)
    BY <2>1, <2>2
  <2>3. CASE WrittenBy(o)
    <3>1. written' = [written EXCEPT ![j] = @ \cup {o}]
      BY <2>3 DEF WrittenBy
    <3> HIDE DEF j
    <3> QED BY <1>2, <2>1, <3>1
  <2> QED BY <2>2, <2>3
<1>6. TxTypeOK'
  BY <1>1, <1>3, <1>4, <1>5 DEF TxInv, TxTypeOK, LoopTypeOK, OpsTypeOK
<1>7. LoopInv' /\ ContextInv' /\ AnswerInv'
  BY <1>2, <1>3, <1>4 DEF TxInv, LoopInv, ContextInv, AnswerInv
<1>8. HolderInv'
  <2>1. \A k \in TxJob : txn'[k] = "active" => current'[k] \/ ArcHolders(k)' # {}
    <3> SUFFICES ASSUME NEW k \in TxJob, txn'[k] = "active", ~current[k]
                 PROVE \E q \in DOMAIN ops' : ops'[q].ctx = k /\ InFlight(q)'
      BY <1>4, ArcFacts
    <3>1. PICK q \in ArcHolders(k) : q # o
      <4>1. CASE k = j
        <5>1. ArcHolders(j) # {o} /\ o \in ArcHolders(j)
          BY <1>3, <4>1 DEF ArcHolders, InFlight
        <5> QED BY <4>1, <5>1
      <4>2. CASE k # j
        <5>1. ArcHolders(k) # {} /\ o \notin ArcHolders(k)
          BY <1>3, <4>2 DEF TxInv, HolderInv, ArcHolders
        <5> QED BY <5>1
      <4> QED BY <4>1, <4>2
    <3> QED BY <1>1, <3>1 DEF ArcHolders, InFlight
  <2>2. \A q \in DOMAIN ops' : InFlight(q)' => ops'[q].ctx \in TxJob /\ txn'[ops'[q].ctx] = "active"
    <3> SUFFICES ASSUME NEW q \in DOMAIN ops, q # o, InFlight(q)
                 PROVE ops[q].ctx \in TxJob /\ txn'[ops[q].ctx] = "active"
      BY <1>1 DEF InFlight
    <3>1. ops[q].ctx \in TxJob /\ txn[ops[q].ctx] = "active"
      BY DEF TxInv, HolderInv
    <3>2. CASE ops[q].ctx = j
      <4>1. q \in ArcHolders(j)
        BY <3>2 DEF ArcHolders
      <4>2. ArcHolders(j) # {o}
        BY <4>1
      <4> QED BY <1>2, <1>3, <3>2, <4>2
    <3> QED BY <1>3, <3>1, <3>2
  <2> QED BY <2>1, <2>2 DEF HolderInv
<1>9. LockInv'
  <2>1. ASSUME NEW q \in DOMAIN ops, ops'[q].pc = "locked" PROVE locked'[ops'[q].ctx] = q
    <3>1. q # o /\ ops[q].pc = "locked" /\ ops'[q] = ops[q]
      BY <1>1, <2>1
    <3>2. locked[ops[q].ctx] = q /\ ops[q].ctx \in TxJob
      BY <3>1 DEF TxInv, LockInv, OpInv
    <3>3. ops[q].ctx # j
      BY <1>2, <3>1, <3>2
    <3> QED BY <1>3, <3>1, <3>2, <3>3
  <2>2. ASSUME NEW k \in TxJob, locked'[k] # 0
        PROVE locked'[k] \in DOMAIN ops' /\ ops'[locked'[k]].ctx = k /\ ops'[locked'[k]].pc = "locked"
    <3>1. k # j /\ locked'[k] = locked[k]
      BY <1>3, <2>2
    <3>2. locked[k] \in DOMAIN ops /\ ops[locked[k]].ctx = k /\ ops[locked[k]].pc = "locked"
      BY <2>2, <3>1 DEF TxInv, LockInv
    <3>3. locked[k] # o
      BY <3>1, <3>2
    <3> QED BY <1>1, <3>1, <3>2, <3>3
  <2> QED BY <1>1, <2>1, <2>2 DEF LockInv
<1>10. OpInv'
  BY <1>1, <1>2, <1>5 DEF TxInv, OpInv
<1> QED BY <1>6, <1>7, <1>8, <1>9, <1>10 DEF TxInv

\* The steps of an operation that has the lock.
LEMMA OpStep ==
  ASSUME TxInv, NEW o \in DOMAIN ops,
         \/ op_chisel_store(o) \/ op_chisel_delete(o) \/ op_chisel_crud_query(o)
         \/ run_sql_queries_err(o) \/ close_stream(o)
  PROVE  TxInv'
<1>1. CASE op_chisel_store(o) \/ op_chisel_delete(o)
  BY <1>1, EndStep DEF op_chisel_store, op_chisel_delete, Runs
<1>2. CASE op_chisel_crud_query(o)
  BY <1>2, EndStep DEF op_chisel_crud_query, Runs
<1>3. CASE run_sql_queries_err(o)
  BY <1>3, EndStep DEF run_sql_queries_err
<1>4. CASE close_stream(o)
  BY <1>4, EndStep DEF close_stream
<1> QED BY <1>1, <1>2, <1>3, <1>4

\* A worker starts with nothing: this is the initial state, and what a new worker
\* brings.
LEMMA TxInvInit ==
  /\ TxInit => TxInv
  /\ new_worker => TxInv'
<1>0. 0 \in 0 .. MaxJob /\ 0 \in 0 .. MaxOp /\ 0 <= MaxOp /\ 0 \in 0 .. 0
  BY TransactionsAssumption
<1>e. << >> \in Seq(Op) /\ Len(<< >>) = 0 /\ DOMAIN << >> = {}
  BY EmptySeq
<1>1. TxInit => TxInv
  <2> SUFFICES ASSUME TxInit PROVE TxInv
    OBVIOUS
  <2>1. LoopTypeOK /\ OpsTypeOK
    BY <1>0, <1>e DEF TxInit, LoopTypeOK, OpsTypeOK
  <2>2. LoopInv /\ ContextInv /\ AnswerInv
    BY DEF TxInit, LoopInv, ContextInv, AnswerInv
  <2>3. HolderInv /\ LockInv /\ OpInv
    BY <1>e DEF TxInit, HolderInv, LockInv, OpInv
  <2> QED BY <2>1, <2>2, <2>3 DEF TxInv, TxTypeOK
<1>2. new_worker => TxInv'
  <2> SUFFICES ASSUME new_worker PROVE TxInv'
    OBVIOUS
  <2>1. LoopTypeOK' /\ OpsTypeOK'
    BY <1>0, <1>e DEF new_worker, LoopTypeOK, OpsTypeOK
  <2>2. LoopInv' /\ ContextInv' /\ AnswerInv'
    BY DEF new_worker, LoopInv, ContextInv, AnswerInv
  <2>3. HolderInv' /\ LockInv' /\ OpInv'
    BY <1>e DEF new_worker, HolderInv, LockInv, OpInv
  <2> QED BY <2>1, <2>2, <2>3 DEF TxInv, TxTypeOK
<1> QED BY <1>1, <1>2

\* Every step keeps TxInv.
LEMMA TxInvStep == TxInv /\ [TxNext]_txVars => TxInv'
<1> SUFFICES ASSUME TxInv, [TxNext]_txVars PROVE TxInv'
  OBVIOUS
<1>1. CASE OpSteps
  BY <1>1, AcquireStep, OpStep DEF OpSteps
<1>2. CASE UNCHANGED txVars
  <2> USE DEF txVars, TxInv
  <2>1. TxTypeOK'
    BY <1>2 DEF TxTypeOK, LoopTypeOK, OpsTypeOK
  <2>2. LoopInv' /\ ContextInv' /\ AnswerInv'
    BY <1>2 DEF LoopInv, ContextInv, AnswerInv
  <2>3. HolderInv' /\ LockInv' /\ OpInv'
    BY <1>2, SameHolders DEF HolderInv, LockInv, OpInv
  <2> QED BY <2>1, <2>2, <2>3
<1> QED BY <1>1, <1>2, JobLoopStep, CallsStep, OpStep, TxInvInit DEF TxNext

\* The inductive invariant is an invariant of the transactions of a worker.
THEOREM TxInvariance == TxSpec => []TxInv
<1> QED BY TxInvInit, TxInvStep, PTL DEF TxSpec

-----------------------------------------------------------------------------
(* The properties.                                                         *)

\* http.ts 88-105, ops/datastore.rs 65-105: a success means that the transaction is
\* committed with every write the handler awaited, an error that nothing of it is
\* or will be, whatever the handlers left running.
THEOREM AnswersTellOutcome == TxSpec => []AnswerTellsOutcome
<1>1. TxInv => AnswerTellsOutcome
  BY DEF TxInv, AnswerTellsOutcome, AnswerInv, HolderInv, OpInv
<1> QED BY TxInvariance, <1>1, PTL

\* datastore/mod.rs 87-100: no operation uses a transaction that has ended.
THEOREM UnusedAfterEnd == TxSpec => []NoUseAfterEnd
<1>1. TxInv => NoUseAfterEnd
  <2> SUFFICES ASSUME TxInv, NEW j \in TxJob, txn[j] \in {"committed", "rolled back"}
               PROVE ArcHolders(j) = {} /\ locked[j] = 0
    BY DEF NoUseAfterEnd
  <2>1. ArcHolders(j) = {}
    BY DEF TxInv, HolderInv, ArcHolders
  <2>2. locked[j] = 0
    <3> SUFFICES ASSUME locked[j] # 0 PROVE FALSE
      OBVIOUS
    <3>1. locked[j] \in DOMAIN ops /\ ops[locked[j]].ctx = j /\ ops[locked[j]].pc = "locked"
      BY DEF TxInv, LockInv
    <3> QED BY <2>1, <3>1, ArcFacts DEF InFlight
  <2> QED BY <2>1, <2>2
<1> QED BY TxInvariance, <1>1, PTL
=============================================================================
