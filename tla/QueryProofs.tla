----------------------------- MODULE QueryProofs -----------------------------
(***************************************************************************)
(* Proofs about what a handler reads and writes: the masks of the policies *)
(* (Policies) and the rows that a cursor returns or deletes (Queries), for *)
(* every filter and every function of the user.                            *)
(***************************************************************************)
EXTENDS Policies, Queries, FiniteSetTheorems, SequenceTheorems, WellFoundedInduction, TLAPS

-----------------------------------------------------------------------------
(* Policies.                                                               *)

\* A query processes rows that exist.
LEMMA ProcessedFacts ==
  /\ \A i \in cursor_rows.ids : i \in DOMAIN ptable /\ ptable[i] # PNull
  /\ \A i \in stream_rows.ids : i \in DOMAIN ptable /\ ptable[i] # PNull
<1>1. ASSUME NEW E, NEW i \in Processed(E).ids PROVE i \in DOMAIN ptable /\ ptable[i] # PNull
  BY <1>1 DEF Processed, Filtered
<1>2. stream_rows.ids \subseteq Processed({"Deny"}).ids
  BY DEF stream_rows, Processed
<1> QED  BY <1>1, <1>2 DEF cursor_rows

\* Reading rows: what was changed is marked.
LEMMA ReadStep ==
  ASSUME PolicyInv, NEW I, process_read([ids |-> I, err |-> TRUE]),
         \A i \in I : i \in DOMAIN ptable /\ ptable[i] # PNull
  PROVE  PolicyInv'
<1>1. PICK i \in I : held' = transform_on_read(ptable[i])
  BY DEF process_read
<1>2. /\ pctx # PNull /\ fresh' = TRUE /\ policy' = policy /\ ptable' = ptable /\ pctx' = pctx
      /\ dirty' = dirty \cup {j \in I : transform_on_read(ptable[j]) # ptable[j]}
  BY DEF process_read, MarkDirty
<1>3. i \in DOMAIN ptable /\ IsEntity(ptable[i]) /\ ptable[i].id = i
  BY DEF PolicyInv, PolicyTypeOK
<1>4. IsEntity(held') /\ held'.id = i
  BY <1>1, <1>3 DEF transform_on_read, IsEntity
<1>5. PolicyTypeOK'
  BY <1>2, <1>3, <1>4 DEF PolicyInv, PolicyTypeOK, IsEntity
<1>6. StageInv'
  BY <1>2 DEF PolicyInv, StageInv
<1>7. MaskInv'
  <2> SUFFICES ASSUME held'.a = Mask, held'.id \notin dirty' PROVE ptable[i].a = Mask
    BY <1>2, <1>4 DEF MaskInv
  <2>1. transform_on_read(ptable[i]) = ptable[i]
    BY <1>2, <1>4
  <2> QED  BY <2>1, <1>1
<1> QED  BY <1>5, <1>6, <1>7 DEF PolicyInv

\* Every step keeps the invariant.
LEMMA PolicyStep ==
  ASSUME PolicyInv, [PNext]_pVars
  PROVE  PolicyInv'
<1> USE DEF PolicyInv
<1>1. CASE UNCHANGED pVars
  BY <1>1 DEF pVars, PolicyTypeOK, StageInv, MaskInv, IsEntity
<1>2. ASSUME NEW p \in PPolicies, NEW t \in PTables, register_policy(p, t) PROVE PolicyInv'
  <2>1. /\ policy = PNull /\ ptable' = t
        /\ pctx' = pctx /\ dirty' = dirty /\ held' = held /\ fresh' = fresh
    BY <1>2 DEF register_policy
  <2>2. pctx = PNull /\ held = PNull /\ ~fresh
    BY <2>1 DEF StageInv
  <2>3. PolicyTypeOK'
    BY <2>1, <2>2, PolicyAssumption DEF PolicyTypeOK, IsEntity
  <2> QED  BY <2>1, <2>2, <2>3 DEF StageInv, MaskInv
<1>3. ASSUME NEW ctx \in PContexts, p_begin(ctx) PROVE PolicyInv'
  BY <1>3 DEF p_begin, PolicyTypeOK, StageInv, MaskInv, IsEntity
<1>4. ASSUME process_read(cursor_rows) \/ process_read(stream_rows) PROVE PolicyInv'
  <2>1. ASSUME NEW rs, process_read(rs), \A i \in rs.ids : i \in DOMAIN ptable /\ ptable[i] # PNull
        PROVE PolicyInv'
    <3>1. process_read([ids |-> rs.ids, err |-> TRUE])
      BY <2>1 DEF process_read
    <3> QED  BY <2>1, <3>1, ReadStep
  <2> QED  BY <1>4, <2>1, ProcessedFacts
<1>5. ASSUME NEW v \in PNumbers, modify(v) PROVE PolicyInv'
  <2>1. /\ pctx # PNull /\ held # PNull /\ held' = [held EXCEPT !.a = v]
        /\ policy' = policy /\ ptable' = ptable /\ pctx' = pctx /\ dirty' = dirty /\ fresh' = fresh
    BY <1>5 DEF modify
  <2>2. IsEntity(held') /\ held'.id = held.id /\ held'.a = v
    BY <2>1 DEF PolicyTypeOK, IsEntity
  <2>3. held'.a # Mask
    BY <2>2, PolicyAssumption
  <2> QED  BY <2>1, <2>2, <2>3 DEF PolicyTypeOK, StageInv, MaskInv, IsEntity
<1>6. ASSUME process_write PROVE PolicyInv'
  <2> DEFINE new == transform_on_write(held)
  <2>1. /\ pctx # PNull /\ held # PNull /\ ptable' = [ptable EXCEPT ![held.id] = new]
        /\ policy' = policy /\ pctx' = pctx /\ dirty' = dirty /\ held' = held /\ fresh' = fresh
    BY <1>6 DEF process_write
  <2>2. IsEntity(held) /\ held.id \in DOMAIN ptable
    BY <2>1 DEF PolicyTypeOK
  <2>3. IsEntity(new) /\ new.id = held.id /\ new.a = held.a
    BY <2>2 DEF transform_on_write, IsEntity
  <2> HIDE DEF new
  <2>4. PolicyTypeOK'
    BY <2>1, <2>2, <2>3 DEF PolicyTypeOK, IsEntity
  <2>5. MaskInv'
    BY <2>1, <2>2, <2>3 DEF MaskInv
  <2> QED  BY <2>1, <2>4, <2>5 DEF StageInv
<1>7. ASSUME NEW i \in DOMAIN ptable, p_delete(i) PROVE PolicyInv'
  <2>1. /\ ptable' = [ptable EXCEPT ![i] = PNull]
        /\ policy' = policy /\ pctx' = pctx /\ dirty' = dirty /\ held' = held /\ fresh' = fresh
    BY <1>7 DEF p_delete
  <2> QED  BY <2>1 DEF PolicyTypeOK, StageInv, MaskInv, IsEntity
<1>8. ASSUME p_end PROVE PolicyInv'
  BY <1>8 DEF p_end, PolicyTypeOK, StageInv, MaskInv, IsEntity
<1>9. ASSUME p_stop PROVE PolicyInv'
  BY <1>9 DEF p_stop, NoRows, PolicyTypeOK, StageInv, MaskInv, IsEntity
<1>10. ASSUME save_nested PROVE PolicyInv'
  <2>1. /\ pctx # PNull /\ held # PNull /\ ptable' = [ptable EXCEPT ![held.id] = held]
        /\ policy' = policy /\ pctx' = pctx /\ dirty' = dirty /\ held' = held /\ fresh' = fresh
    BY <1>10 DEF save_nested
  <2>2. IsEntity(held) /\ held.id \in DOMAIN ptable
    BY <2>1 DEF PolicyTypeOK
  <2>3. PolicyTypeOK'
    BY <2>1, <2>2 DEF PolicyTypeOK, IsEntity
  <2>4. MaskInv'
    BY <2>1, <2>2 DEF MaskInv
  <2> QED  BY <2>1, <2>3, <2>4 DEF StageInv
<1> QED  BY <1>1, <1>2, <1>3, <1>4, <1>5, <1>6, <1>7, <1>8, <1>9, <1>10 DEF PNext

\* The inductive invariant of the policies: what PolicyEvalInstance::dirty knows of
\* the entity that the code keeps.
THEOREM PolicyInvariance == PSpec => []PolicyInv
<1>1. PInit => PolicyInv
  BY DEF PInit, NoRows, PolicyInv, PolicyTypeOK, StageInv, MaskInv
<1> QED  BY <1>1, PolicyStep, PTL DEF PSpec

\* Saving an entity does not overwrite its row with masks: the entity is marked,
\* unless the row had the mask's value itself, be it from a nested save.
THEOREM SavesWriteNoMasks == PSpec => SavesKeepMasks
<1>1. ASSUME PolicyInv, process_write PROVE ~Masked(held.id)
  <2> SUFFICES ASSUME fresh, ptable[held.id] # PNull, ptable[held.id].a # Mask,
                      ptable'[held.id].a = Mask
               PROVE  FALSE
    BY DEF Masked
  <2>1. /\ held # PNull /\ held.id \notin dirty
        /\ ptable' = [ptable EXCEPT ![held.id] = transform_on_write(held)]
    BY <1>1 DEF process_write, is_object_creation
  <2>2. held.id \in DOMAIN ptable /\ IsEntity(held)
    BY <1>1, <2>1 DEF PolicyInv, PolicyTypeOK
  <2>3. transform_on_write(held).a = held.a
    BY <2>2 DEF transform_on_write, IsEntity
  <2>4. held.a = Mask
    BY <2>1, <2>2, <2>3
  <2> QED  BY <1>1, <2>1, <2>4 DEF PolicyInv, MaskInv
<1>2. PolicyInv /\ [PNext]_pVars => [process_write => ~Masked(held.id)]_pVars
  BY <1>1
<1> QED  BY <1>2, PolicyInvariance, PTL DEF PSpec, SavesKeepMasks

-----------------------------------------------------------------------------
(* Sequences.                                                              *)

\* A set of naturals has a least element.
LEMMA LeastOf ==
  ASSUME NEW T, T \subseteq Nat, T # {}
  PROVE  \E n \in T : \A m \in T : n <= m
<1> DEFINE R == OpToRel(<, Nat)
<1>1. IsWellFoundedOn(R, Nat)
  BY NatLessThanWellFounded
<1>2. \A x, y \in Nat : x < y => <<x, y>> \in R
  BY DEF OpToRel
<1> HIDE DEF R
<1>3. PICK n \in T : \A y \in T : ~(<<y, n>> \in R)
  BY <1>1, WFMin
<1>4. \A m \in T : ~(m < n)
  BY <1>2, <1>3
<1> QED  BY <1>4

\* A sequence is one of its own elements.
LEMMA OwnElements ==
  ASSUME NEW S, NEW s \in Seq(S)
  PROVE  s \in Seq(ToSet(s)) /\ ToSet(s) \subseteq S
<1>1. Len(s) \in Nat /\ DOMAIN s = 1 .. Len(s) /\ s \in [1 .. Len(s) -> S]
  BY LenProperties
<1>2. \A i \in 1 .. Len(s) : s[i] \in ToSet(s)
  BY <1>1 DEF ToSet
<1>3. SubSeq(s, 1, Len(s)) \in Seq(ToSet(s))
  BY <1>1, <1>2, SubSeqProperties
<1>4. SubSeq(s, 1, Len(s)) = s
  BY SubSeqFull
<1> QED  BY <1>1, <1>3, <1>4 DEF ToSet

\* How many of some places are in front of one.
Rank(I, i) == Cardinality({j \in I : j < i})

\* Every number up to how many there are is the rank of exactly one.
LEMMA RankFacts ==
  ASSUME NEW n \in Nat, NEW I, I \subseteq 1 .. n
  PROVE  /\ Cardinality(I) \in Nat
         /\ \A i \in I : Rank(I, i) \in 0 .. Cardinality(I) - 1
         /\ \A i, j \in I : Rank(I, i) = Rank(I, j) => i = j
         /\ \A t \in 0 .. Cardinality(I) - 1 : \E i \in I : Rank(I, i) = t
<1> DEFINE B(i) == {j \in I : j < i}
           m == Cardinality(I)
           T == 0 .. m - 1
           f == [i \in I |-> Rank(I, i)]
<1>1. IsFiniteSet(I) /\ m \in Nat
  <2>1. IsFiniteSet(1 .. n)
    BY FS_Interval
  <2> QED  BY <2>1, FS_Subset, FS_CardinalityType
<1>2. \A i \in I : B(i) \subseteq I /\ i \notin B(i)
  OBVIOUS
<1>3. \A i \in I : IsFiniteSet(B(i)) /\ Cardinality(B(i)) \in Nat
  BY <1>1, <1>2, FS_Subset, FS_CardinalityType
<1>4. \A i : Rank(I, i) = Cardinality(B(i))
  BY DEF Rank
<1>5. ASSUME NEW i \in I, NEW j \in I, i < j PROVE B(i) \subseteq B(j) /\ i \in B(j)
  <2>1. \A k \in I : k \in Nat
    OBVIOUS
  <2>2. \A k \in I : k < i => k < j
    BY <1>5, <2>1
  <2> QED  BY <1>5, <2>2
<1>6. \A i, j \in I : i = j \/ i < j \/ j < i
  OBVIOUS
<1> HIDE DEF B, m
<1>7. \A i \in I : Rank(I, i) \in T
  <2> SUFFICES ASSUME NEW i \in I PROVE Rank(I, i) \in T
    OBVIOUS
  <2>1. Cardinality(B(i)) <= m /\ (m = Cardinality(B(i)) => I = B(i))
    BY <1>1, <1>2, FS_Subset DEF m
  <2> QED  BY <1>1, <1>2, <1>3, <1>4, <2>1
<1>8. ASSUME NEW i \in I, NEW j \in I, i < j PROVE Rank(I, i) # Rank(I, j)
  <2>1. Cardinality(B(j)) = Cardinality(B(i)) => B(j) = B(i)
    BY <1>3, <1>5, <1>8, FS_Subset
  <2> QED  BY <1>2, <1>4, <1>5, <1>8, <2>1
<1>9. \A i, j \in I : Rank(I, i) = Rank(I, j) => i = j
  BY <1>6, <1>8
<1>10. IsFiniteSet(T) /\ Cardinality(T) = m
  <2>1. 0 \in Int /\ m - 1 \in Int
    BY <1>1
  <2>2. IsFiniteSet(0 .. m - 1) /\ Cardinality(0 .. m - 1) = IF 0 > m - 1 THEN 0 ELSE (m - 1) - 0 + 1
    BY <2>1, FS_Interval
  <2> QED  BY <1>1, <2>2
<1>11. f \in Injection(I, T)
  BY <1>7, <1>9 DEF Injection, IsInjective
<1>12. f \in Surjection(I, T)
  BY <1>1, <1>10, <1>11, FS_Injection DEF m
<1>13. \A t \in T : \E i \in I : f[i] = t
  BY <1>12 DEF Surjection
<1> QED  BY <1>1, <1>7, <1>9, <1>13 DEF m

\* The elements at some places: each of them, once, and nothing else.
LEMMA PickedFacts ==
  ASSUME NEW S, NEW s \in Seq(S), NEW I, I \subseteq DOMAIN s,
         NEW T, \A i \in I : s[i] \in T
  PROVE  /\ Picked(s, I) \in Seq(T)
         /\ Len(Picked(s, I)) = Cardinality(I) /\ Cardinality(I) \in Nat
         /\ \A k \in 1 .. Cardinality(I) : \E i \in I : Picked(s, I)[k] = s[i] /\ Rank(I, i) = k - 1
         /\ \A i \in I : \E k \in 1 .. Cardinality(I) : Picked(s, I)[k] = s[i]
<1> DEFINE m == Cardinality(I)
           place(k) == CHOOSE i \in I : Cardinality({j \in I : j < i}) = k - 1
           at(k) == s[place(k)]
<1>1. Len(s) \in Nat /\ DOMAIN s = 1 .. Len(s)
  BY LenProperties
<1>2. /\ m \in Nat
      /\ \A i \in I : Rank(I, i) \in 0 .. m - 1
      /\ \A i, j \in I : Rank(I, i) = Rank(I, j) => i = j
      /\ \A t \in 0 .. m - 1 : \E i \in I : Rank(I, i) = t
  BY <1>1, RankFacts
<1>3. ASSUME NEW k \in 1 .. m PROVE place(k) \in I /\ Rank(I, place(k)) = k - 1
  <2>1. k - 1 \in 0 .. m - 1
    BY <1>2
  <2>2. \E i \in I : Cardinality({j \in I : j < i}) = k - 1
    BY <1>2, <2>1 DEF Rank
  <2> QED  BY <2>2 DEF Rank
<1>4. Picked(s, I) = [k \in 1 .. m |-> at(k)]
  BY DEF Picked
<1> HIDE DEF place, m
<1>5. \A k \in 1 .. m : at(k) \in T /\ at(k) = s[place(k)]
  BY <1>3
<1> HIDE DEF at
<1>6. Picked(s, I) \in Seq(T)
  BY <1>2, <1>4, <1>5, IsASeq
<1>7. Len(Picked(s, I)) = m
  <2>1. DOMAIN Picked(s, I) = 1 .. m
    BY <1>4
  <2> QED  BY <1>2, <1>6, <2>1, LenProperties
<1>8. \A k \in 1 .. m : \E i \in I : Picked(s, I)[k] = s[i] /\ Rank(I, i) = k - 1
  BY <1>3, <1>4, <1>5
<1>9. ASSUME NEW i \in I PROVE \E k \in 1 .. m : Picked(s, I)[k] = s[i]
  <2>1. Rank(I, i) + 1 \in 1 .. m /\ (Rank(I, i) + 1) - 1 = Rank(I, i)
    BY <1>2
  <2>2. place(Rank(I, i) + 1) = i
    BY <1>2, <1>3, <2>1
  <2> QED  BY <1>4, <1>5, <2>1, <2>2
<1> QED  BY <1>2, <1>6, <1>7, <1>8, <1>9 DEF m

\* The set of the elements at some places.
LEMMA PickedSet ==
  ASSUME NEW S, NEW s \in Seq(S), NEW I, I \subseteq DOMAIN s
  PROVE  ToSet(Picked(s, I)) = {s[i] : i \in I}
<1>1. \A i \in I : s[i] \in S
  BY LenProperties
<1>2. /\ DOMAIN Picked(s, I) = 1 .. Cardinality(I)
      /\ \A k \in 1 .. Cardinality(I) : \E i \in I : Picked(s, I)[k] = s[i]
      /\ \A i \in I : \E k \in 1 .. Cardinality(I) : Picked(s, I)[k] = s[i]
  BY <1>1, PickedFacts, LenProperties
<1> QED  BY <1>2 DEF ToSet

\* A part of a sequence.
LEMMA PartOf ==
  ASSUME NEW S, NEW s \in Seq(S), NEW m \in Nat \ {0}, NEW n \in 0 .. Len(s)
  PROVE  SubSeq(s, m, n) \in Seq(S)
<1>1. Len(s) \in Nat /\ \A i \in 1 .. Len(s) : s[i] \in S
  BY LenProperties
<1>2. \A i \in m .. n : s[i] \in S
  BY <1>1
<1> QED  BY <1>2, SubSeqProperties

\* The first elements.
LEMMA TakeOf ==
  ASSUME NEW S, NEW s \in Seq(S), NEW n \in Nat
  PROVE  Take(n, s) \in Seq(S)
<1>1. Len(s) \in Nat
  BY LenProperties
<1>2. (IF n < Len(s) THEN n ELSE Len(s)) \in 0 .. Len(s)
  BY <1>1
<1> QED  BY <1>2, PartOf DEF Take

\* A permutation of the elements.
LEMMA OrdersOf ==
  ASSUME NEW S, NEW s \in Seq(S), NEW p \in Orders(s)
  PROVE  p \in Seq(S)
<1> DEFINE E == ToSet(s)
<1>1. Len(s) \in Nat /\ DOMAIN s = 1 .. Len(s) /\ E \subseteq S
  BY LenProperties, OwnElements
<1>2. IsFiniteSet(E)
  <2>1. IsFiniteSet(1 .. Len(s))
    BY <1>1, FS_Interval
  <2>2. s \in Surjection(1 .. Len(s), E)
    <3>1. s \in [1 .. Len(s) -> S]
      BY LenProperties
    <3> QED  BY <1>1, <3>1 DEF Surjection, ToSet
  <2> QED  BY <2>1, <2>2, FS_Surjection
<1>3. Cardinality(E) \in Nat
  BY <1>2, FS_CardinalityType
<1>4. p \in [1 .. Cardinality(E) -> E]
  BY DEF Orders, SetToSeqs
<1> HIDE DEF E
<1> DEFINE at(k) == p[k]
<1>5. p = [k \in 1 .. Cardinality(E) |-> at(k)] /\ \A k \in 1 .. Cardinality(E) : at(k) \in S
  BY <1>1, <1>4
<1> HIDE DEF at
<1> QED  BY <1>3, <1>5, IsASeq

-----------------------------------------------------------------------------
(* Cursors: the query.                                                     *)

\* The first of some places is one of them.
LEMMA FirstIn ==
  ASSUME NEW I, I \subseteq Nat, I # {}
  PROVE  Min(I) \in I
BY LeastOf DEF Min

\* What the query depends on is the table and its policies.
LEMMA SameSetup ==
  ASSUME setup' = setup
  PROVE  /\ CoreRows' = CoreRows /\ MyRows' = MyRows /\ add_login_filters' = add_login_filters
         /\ \A e : Allowed(e)' <=> Allowed(e)
<1>1. make_core_select' = make_core_select
  BY DEF make_core_select, load_entity_recursive, make_column_string, make_join_string
<1>2. CoreRows' = CoreRows
  BY <1>1 DEF CoreRows
<1> QED  BY <1>2 DEF MyRows, add_login_filters, Allowed

\* The rows as the query reads them.
LEMMA CoreFacts ==
  ASSUME IsSetup(setup)
  PROVE  /\ make_core_select \in Seq(CoreRows) /\ DOMAIN make_core_select = DOMAIN setup.rows
         /\ \A k \in DOMAIN setup.rows :
              /\ make_core_select[k].id = setup.rows[k].id
              /\ make_core_select[k].owner = setup.rows[k].owner
              /\ make_core_select[k].a = IF setup.rows[k].a = Null THEN setup.dflt ELSE setup.rows[k].a
         /\ \A row \in CoreRows : \E k \in DOMAIN setup.rows : row = make_core_select[k]
         /\ \A row \in CoreRows : row.owner # 0
<1> DEFINE at(k) == load_entity_recursive(setup.rows[k])
           n == Len(setup.rows)
<1>1. n \in Nat /\ DOMAIN setup.rows = 1 .. n
  BY LenProperties DEF IsSetup
<1>2. make_core_select = [k \in 1 .. n |-> at(k)]
  BY <1>1 DEF make_core_select
<1>3. \A k \in 1 .. n : /\ at(k).id = setup.rows[k].id
                        /\ at(k).owner = setup.rows[k].owner
                        /\ at(k).a = IF setup.rows[k].a = Null THEN setup.dflt ELSE setup.rows[k].a
  BY DEF load_entity_recursive, make_column_string
<1> HIDE DEF at, n
<1>4. CoreRows = {at(k) : k \in 1 .. n}
  BY <1>2 DEF CoreRows, ToSet
<1>5. make_core_select \in Seq(CoreRows)
  BY <1>1, <1>2, <1>4, IsASeq
<1>6. \A k \in 1 .. n : setup.rows[k].owner # 0
  BY <1>1 DEF IsSetup
<1> QED  BY <1>1, <1>2, <1>3, <1>4, <1>5, <1>6

\* A segment of the query keeps rows that its filters select, and no others.
LEMMA SegmentFacts ==
  ASSUME NEW S, NEW s \in Seq(S), NEW q, Last(q).op # "Count",
         Last(q).op \in {"Take", "Skip"} => Last(q).n \in Nat,
         NEW T, \A row \in S : gather_filters(q, row) => row \in T,
         NEW p \in SelectFrom(q, s)
  PROVE  p \in Seq(T)
<1> DEFINE I == {i \in DOMAIN s : gather_filters(q, s[i])}
           kept == Picked(s, I)
<1>1. Len(s) \in Nat /\ DOMAIN s = 1 .. Len(s) /\ \A i \in DOMAIN s : s[i] \in S
  BY LenProperties
<1>2. I \subseteq DOMAIN s /\ \A i \in I : s[i] \in T
  BY <1>1
<1>3. \E r : (r = kept \/ r \in Orders(kept)) /\ p = limit_and_offset(q, r)
  BY DEF SelectFrom
<1> HIDE DEF I
<1>4. kept \in Seq(T)
  BY <1>2, PickedFacts
<1> HIDE DEF kept
<1>5. PICK r \in Seq(T) : p = limit_and_offset(q, r)
  BY <1>3, <1>4, OrdersOf
<1>6. Len(r) \in Nat
  BY LenProperties
<1>7. CASE Last(q).op = "Take"
  BY <1>5, <1>7, TakeOf DEF limit_and_offset
<1>8. CASE Last(q).op = "Skip"
  <2>1. p = SubSeq(r, Last(q).n + 1, Len(r)) /\ Last(q).n + 1 \in Nat \ {0} /\ Len(r) \in 0 .. Len(r)
    BY <1>5, <1>6, <1>8 DEF limit_and_offset
  <2> QED  BY <2>1, PartOf
<1>9. CASE Last(q).op \notin {"Take", "Skip"}
  BY <1>5, <1>9 DEF limit_and_offset
<1> QED  BY <1>7, <1>8, <1>9

\* The login filter selects the rows of the user who is logged in, and none
\* if nobody is.
LEMMA LoginFacts ==
  ASSUME IsSetup(setup), NEW q, 1 \in DOMAIN q, add_login_filters = <<q[1]>>,
         NEW row \in CoreRows, gather_filters(q, row)
  PROVE  row \in MyRows
<1>1. CASE ~setup.login
  BY <1>1 DEF MyRows
<1>2. CASE setup.login
  <2> DEFINE v == IF setup.uid = Null THEN 0 ELSE setup.uid
  <2>1. q[1] = FilterOp({Equal("owner", v)})
    BY <1>2 DEF add_login_filters
  <2>2. q[1].op = "Filter" /\ Equal("owner", v) \in q[1].conds
    BY <2>1 DEF FilterOp
  <2>3. IsTrue(Equal("owner", v), row)
    BY <2>2 DEF gather_filters
  <2>4. row.owner = v
    BY <2>3 DEF IsTrue, Equal
  <2>5. row.owner # 0
    BY CoreFacts
  <2> QED  BY <2>4, <2>5 DEF MyRows
<1> QED  BY <1>1, <1>2 DEF IsSetup

\* A query ends at its last operator, or behind a Take or a Skip.
LEMMA SplitFacts ==
  ASSUME NEW S, NEW q \in Seq(S), q # << >>
  PROVE  split_on_first_take(q) \in 1 .. Len(q)
<1> DEFINE I == {i \in 1 .. Len(q) : q[i].op \in {"Take", "Skip"}}
           i == IF I # {} THEN Min(I) ELSE 0
<1>1. Len(q) \in Nat \ {0}
  BY EmptySeq
<1>2. i = 0 \/ i \in 1 .. Len(q)
  <2>1. I \subseteq Nat /\ I \subseteq 1 .. Len(q)
    OBVIOUS
  <2> QED  BY <2>1, FirstIn
<1>3. split_on_first_take(q) = IF i = 0 THEN Len(q) ELSE i
  BY DEF split_on_first_take, SelectInSeq
<1> HIDE DEF i
<1> QED  BY <1>1, <1>2, <1>3

\* One more segment: the rows are still those of the table, and once the login
\* filter is among the filters, those that the policies permit.
LEMMA SegmentStep ==
  ASSUME QueriesInv, make_raw_query
  PROVE  QueriesInv'
<1> DEFINE n == split_on_first_take(plan)
           q == SubSeq(plan, 1, n)
<1>1. /\ phase = "sql" /\ plan # << >> /\ stream' \in SelectFrom(q, stream)
      /\ plan' = SubSeq(plan, n + 1, Len(plan))
      /\ setup' = setup /\ chain' = chain /\ phase' = phase /\ rest' = rest
  BY DEF make_raw_query
<1>2. /\ IsSetup(setup) /\ plan \in Seq(ToSet(plan)) /\ stream \in Seq(ToSet(stream))
      /\ \A i \in DOMAIN plan : plan[i].op \in {"Take", "Skip"} => plan[i].n \in Nat
  BY DEF QueriesInv, QTypeOK
<1>3. n \in 1 .. Len(plan)
  BY <1>1, <1>2, SplitFacts
<1> HIDE DEF n
<1>4. Len(plan) \in Nat /\ DOMAIN plan = 1 .. Len(plan) /\ \A i \in DOMAIN plan : plan[i] \in ToSet(plan)
  BY <1>2, LenProperties
<1>5. /\ q \in Seq(ToSet(plan)) /\ Len(q) = n /\ DOMAIN q = 1 .. n
      /\ \A i \in 1 .. n : q[i] = plan[i]
  <2>1. \A i \in 1 .. n : plan[i] \in ToSet(plan)
    BY <1>3, <1>4
  <2>2. /\ q \in Seq(ToSet(plan)) /\ Len(q) = IF 1 <= n THEN n - 1 + 1 ELSE 0
        /\ \A i \in 1 .. n - 1 + 1 : q[i] = plan[1 + i - 1]
    BY <1>3, <2>1, SubSeqProperties
  <2>3. DOMAIN q = 1 .. Len(q)
    BY <2>2, LenProperties
  <2> QED  BY <1>3, <2>2, <2>3
<1>6. /\ plan' \in Seq(ToSet(plan)) /\ plan' \in Seq(ToSet(plan'))
      /\ \A i \in DOMAIN plan' : \E j \in DOMAIN plan : plan'[i] = plan[j]
  <2>1. \A i \in n + 1 .. Len(plan) : plan[i] \in ToSet(plan)
    BY <1>3, <1>4
  <2>2. plan' \in Seq(ToSet(plan))
    BY <1>1, <1>3, <1>4, <2>1, SubSeqProperties
  <2>3. DOMAIN plan' = 1 .. Len(plan') /\ \A i \in DOMAIN plan' : plan'[i] \in ToSet(plan)
    BY <2>2, LenProperties
  <2> QED  BY <2>2, <2>3, OwnElements DEF ToSet
<1>7. Last(q) = plan[n]
  BY <1>3, <1>5 DEF Last
<1> HIDE DEF q
<1>8. Last(q).op \in {"Take", "Skip"} => Last(q).n \in Nat
  BY <1>2, <1>3, <1>4, <1>7
<1>9. stream' \in Seq(ToSet(stream'))
  <2>1. CASE Last(q).op = "Count"
    <3>1. \E x : stream' = <<x>>
      BY <1>1, <2>1 DEF SelectFrom
    <3>2. PICK x : stream' = <<x>>
      BY <3>1
    <3>3. <<x>> \in Seq({x})
      OBVIOUS
    <3> QED  BY <3>2, <3>3, OwnElements
  <2>2. CASE Last(q).op # "Count"
    <3>1. stream' \in Seq(ToSet(stream))
      BY <1>1, <1>2, <1>8, <2>2, SegmentFacts
    <3> QED  BY <3>1, OwnElements
  <2> QED  BY <2>1, <2>2
<1>10. QTypeOK'
  BY <1>1, <1>2, <1>6, <1>9 DEF QueriesInv, QTypeOK
<1>11. ChainInv'
  BY <1>1 DEF QueriesInv, ChainInv
<1>12. SqlInv'
  <2> SUFFICES ASSUME ~Counts'
               PROVE  /\ \A i \in DOMAIN plan' : plan'[i].op # "Count"
                      /\ stream' \in Seq(MyRows)
    BY <1>1, SameSetup DEF SqlInv
  <2>1. ~Counts
    BY <1>1 DEF Counts, Sent
  <2>2. /\ \A i \in DOMAIN plan : plan[i].op # "Count"
        /\ \/ stream \in Seq(MyRows)
           \/ stream \in Seq(CoreRows) /\ add_login_filters = <<Head(plan)>>
    BY <1>1, <2>1 DEF QueriesInv, SqlInv
  <2>3. Last(q).op # "Count"
    BY <1>3, <1>4, <1>7, <2>2
  <2> DEFINE s == stream
             p == stream'
  <2>0. p \in SelectFrom(q, s)
    BY <1>1
  <2>4. CASE stream \in Seq(MyRows)
    <3>1. s \in Seq(MyRows) /\ \A row \in MyRows : gather_filters(q, row) => row \in MyRows
      BY <2>4
    <3> HIDE DEF s, p
    <3>2. p \in Seq(MyRows)
      BY <1>8, <2>0, <2>3, <3>1, SegmentFacts
    <3> QED  BY <1>6, <2>2, <3>2 DEF p
  <2>5. CASE stream \in Seq(CoreRows) /\ add_login_filters = <<Head(plan)>>
    <3>1. Head(plan) = q[1] /\ 1 \in DOMAIN q
      BY <1>2, <1>3, <1>4, <1>5
    <3>2. \A row \in CoreRows : gather_filters(q, row) => row \in MyRows
      BY <1>2, <2>5, <3>1, LoginFacts
    <3>3. s \in Seq(CoreRows)
      BY <2>5
    <3> HIDE DEF s, p
    <3>4. p \in Seq(MyRows)
      BY <1>8, <2>0, <2>3, <3>2, <3>3, SegmentFacts
    <3> QED  BY <1>6, <2>2, <3>4 DEF p
  <2> QED  BY <2>2, <2>4, <2>5
<1>13. JsInv'
  BY <1>1 DEF JsInv
<1> QED  BY <1>10, <1>11, <1>12, <1>13 DEF QueriesInv

\* The cursor is iterated: the query begins with the login filter, and it has a
\* Count only if that is its last operator.
LEMMA IteratorStep ==
  ASSUME QueriesInv, asyncIterator
  PROVE  QueriesInv'
<1> DEFINE I == {i \in 1 .. Len(chain) : chain[i].op \in JsOnly}
           f == IF I # {} THEN Min(I) ELSE 0
           n == IF f = 0 THEN Len(chain) ELSE f - 1
           c == SubSeq(chain, 1, n)
           J == {i \in DOMAIN c : c[i].op # "Select"}
           tail == Picked(convert_ops(c), J)
<1>1. /\ setup # NoSetup /\ phase' = "sql" /\ stream' = make_core_select
      /\ plan' = add_login_filters \o tail
      /\ rest' = SubSeq(chain, n + 1, Len(chain))
      /\ setup' = setup /\ chain' = chain
  BY DEF asyncIterator, SelectInSeq, from_op_chain
<1>2. /\ IsSetup(setup) /\ chain \in Seq(QOps)
      /\ \A i \in DOMAIN chain : chain[i].op \in Aggregates => i = Len(chain)
  BY DEF QueriesInv, QTypeOK, ChainInv
<1>3. Len(chain) \in Nat /\ DOMAIN chain = 1 .. Len(chain) /\ \A i \in 1 .. Len(chain) : chain[i] \in QOps
  BY <1>2, LenProperties
<1>4. n \in 0 .. Len(chain)
  <2>1. I \subseteq Nat /\ I \subseteq 1 .. Len(chain)
    OBVIOUS
  <2>2. f = 0 \/ f \in 1 .. Len(chain)
    BY <2>1, FirstIn
  <2> HIDE DEF f
  <2> QED  BY <1>3, <2>2
<1> HIDE DEF n
<1>5. /\ c \in Seq(QOps) /\ Len(c) = n /\ DOMAIN c = 1 .. n
      /\ \A i \in 1 .. n : c[i] = chain[i]
  <2>1. \A i \in 1 .. n : chain[i] \in QOps
    BY <1>3, <1>4
  <2>2. /\ c \in Seq(QOps) /\ Len(c) = IF 1 <= n THEN n - 1 + 1 ELSE 0
        /\ \A i \in 1 .. n - 1 + 1 : c[i] = chain[1 + i - 1]
    BY <1>3, <1>4, <2>1, SubSeqProperties
  <2>3. DOMAIN c = 1 .. Len(c)
    BY <2>2, LenProperties
  <2> QED  BY <1>3, <1>4, <2>2, <2>3
<1>6. Len(rest') = Len(chain) - n
  <2>1. \A i \in n + 1 .. Len(chain) : chain[i] \in QOps
    BY <1>3, <1>4
  <2>2. Len(rest') = IF n + 1 <= Len(chain) THEN Len(chain) - (n + 1) + 1 ELSE 0
    BY <1>1, <1>3, <1>4, <2>1, SubSeqProperties
  <2>3. \A L \in Nat : \A m \in 0 .. L : (IF m + 1 <= L THEN L - (m + 1) + 1 ELSE 0) = L - m
    OBVIOUS
  <2> QED  BY <1>3, <1>4, <2>2, <2>3
<1>7. Counts' <=> n > 0 /\ chain[n].op = "Count"
  <2>0. \A L \in Nat : \A m \in 0 .. L : L - (L - m) = m
    OBVIOUS
  <2>1. Sent' = c
    <3>1. Len(chain) - Len(rest') = n
      BY <1>3, <1>4, <1>6, <2>0
    <3> QED  BY <1>1, <3>1 DEF Sent
  <2>2. c # << >> <=> n > 0
    BY <1>4, <1>5
  <2>3. n > 0 => Last(c) = chain[n]
    BY <1>4, <1>5 DEF Last
  <2> QED  BY <2>1, <2>2, <2>3 DEF Counts
<1> HIDE DEF c
<1> DEFINE at(i) == IF c[i].op \in {"ExpressionFilter", "InternalFilter"} THEN FilterOp({Filter(c[i].f)}) ELSE c[i]
           C == {at(i) : i \in 1 .. n}
<1>8. /\ convert_ops(c) = [i \in 1 .. n |-> at(i)]
      /\ \A i \in 1 .. n : at(i).op = "Filter" \/ at(i) = c[i]
  BY <1>5 DEF convert_ops, FilterOp
<1> HIDE DEF at
<1>9. convert_ops(c) \in Seq(C) /\ DOMAIN convert_ops(c) = 1 .. n
  BY <1>4, <1>8, IsASeq
<1>10. tail \in Seq(C) /\ \A x \in C : \E i \in 1 .. n : x = at(i)
  <2>1. J \subseteq DOMAIN convert_ops(c) /\ \A i \in J : convert_ops(c)[i] \in C
    BY <1>5, <1>8, <1>9
  <2> HIDE DEF C, J
  <2>2. tail \in Seq(C)
    BY <1>9, <2>1, PickedFacts
  <2> QED  BY <2>2 DEF C
<1> HIDE DEF tail
<1>11. \A x \in C : x.op = "Filter" \/ \E i \in 1 .. n : x = chain[i]
  BY <1>5, <1>8, <1>10
<1> HIDE DEF C
<1> DEFINE D == C \cup ToSet(add_login_filters)
<1>12. /\ add_login_filters \in Seq(D) /\ tail \in Seq(D)
       /\ add_login_filters = << >> \/ \E y : add_login_filters = <<y>> /\ y.op = "Filter"
  <2>1. CASE setup.login
    <3>1. PICK y : add_login_filters = <<y>> /\ y.op = "Filter"
      BY <2>1 DEF add_login_filters, FilterOp
    <3>2. y \in ToSet(add_login_filters)
      BY <3>1 DEF ToSet
    <3> QED  BY <1>10, <3>1, <3>2
  <2>2. CASE ~setup.login
    BY <1>10, <2>2 DEF add_login_filters
  <2> QED  BY <2>1, <2>2
<1>13. \A x \in D : x.op = "Filter" \/ \E i \in 1 .. n : x = chain[i]
  <2>1. \A x \in ToSet(add_login_filters) : x.op = "Filter"
    BY <1>12 DEF ToSet
  <2> QED  BY <1>11, <2>1
<1> HIDE DEF D
<1>14. /\ plan' \in Seq(D) /\ Len(plan') = Len(add_login_filters) + Len(tail)
       /\ \A i \in 1 .. Len(add_login_filters) + Len(tail) : plan'[i] =
            IF i <= Len(add_login_filters) THEN add_login_filters[i] ELSE tail[i - Len(add_login_filters)]
  BY <1>1, <1>12, ConcatProperties
<1>15. /\ plan' \in Seq(ToSet(plan'))
       /\ \A i \in DOMAIN plan' : plan'[i].op = "Filter" \/ \E j \in 1 .. n : plan'[i] = chain[j]
  <2>1. \A i \in DOMAIN plan' : plan'[i] \in D
    BY <1>14, LenProperties
  <2> QED  BY <1>13, <1>14, <2>1, OwnElements
<1>16. \A i \in DOMAIN plan' : plan'[i].op \in {"Take", "Skip"} => plan'[i].n \in Nat
  BY <1>3, <1>4, <1>15, QueriesAssumption
<1>17. stream' \in Seq(CoreRows) /\ stream' \in Seq(ToSet(stream'))
  BY <1>1, <1>2, CoreFacts, OwnElements
<1>18. QTypeOK'
  BY <1>1, <1>2, <1>15, <1>16, <1>17 DEF QTypeOK
<1>19. ChainInv'
  BY <1>1, <1>2, <1>4 DEF ChainInv
<1>20. SqlInv'
  <2> SUFFICES ASSUME ~Counts'
               PROVE  /\ \A i \in DOMAIN plan' : plan'[i].op # "Count"
                      /\ \/ stream' \in Seq(MyRows)
                         \/ stream' \in Seq(CoreRows) /\ plan' # << >> /\ add_login_filters = <<Head(plan')>>
    BY <1>1, SameSetup DEF SqlInv
  <2>1. \A j \in 1 .. n : chain[j].op # "Count"
    <3> SUFFICES ASSUME NEW j \in 1 .. n, chain[j].op = "Count" PROVE FALSE
      OBVIOUS
    <3>1. j \in DOMAIN chain /\ chain[j].op \in Aggregates
      BY <1>3, <1>4 DEF Aggregates
    <3>2. j = Len(chain)
      BY <1>2, <3>1
    <3>3. \A L \in Nat : \A m \in 0 .. L : \A k \in 1 .. m : k = L => m = L /\ m > 0
      OBVIOUS
    <3>4. n = Len(chain) /\ n > 0
      BY <1>3, <1>4, <3>2, <3>3
    <3> QED  BY <1>7, <3>2, <3>4
  <2>2. CASE add_login_filters = << >>
    <3>1. ~setup.login
      BY <2>2 DEF add_login_filters
    <3>2. MyRows = CoreRows
      BY <3>1 DEF MyRows
    <3> QED  BY <1>15, <1>17, <2>1, <3>2
  <2>3. CASE \E y : add_login_filters = <<y>> /\ y.op = "Filter"
    <3>1. PICK y : add_login_filters = <<y>>
      BY <2>3
    <3>2. Len(add_login_filters) = 1 /\ Len(tail) \in Nat
      BY <1>12, <3>1, LenProperties
    <3>3. Len(plan') >= 1 /\ plan'[1] = y
      BY <1>14, <3>1, <3>2
    <3>4. plan' # << >> /\ Head(plan') = y
      BY <1>14, <3>3
    <3> QED  BY <1>15, <1>17, <2>1, <3>1, <3>4
  <2> QED  BY <1>12, <2>2, <2>3
<1>21. JsInv'
  BY <1>1 DEF JsInv
<1> QED  BY <1>18, <1>19, <1>20, <1>21 DEF QueriesInv
-----------------------------------------------------------------------------
(* Cursors: the rows in JavaScript.                                        *)

\* What is left of the chain, and what the query has of it.
LEMMA RestFacts ==
  ASSUME chain \in Seq(QOps), NEW n \in 0 .. Len(chain), rest = SubSeq(chain, n + 1, Len(chain))
  PROVE  /\ Len(chain) \in Nat /\ DOMAIN chain = 1 .. Len(chain)
         /\ rest \in Seq(QOps) /\ Len(rest) = Len(chain) - n
         /\ Sent = SubSeq(chain, 1, n) /\ (Counts <=> n > 0 /\ chain[n].op = "Count")
         /\ rest # << >> => n < Len(chain) /\ Head(rest) = chain[n + 1]
                              /\ Tail(rest) = SubSeq(chain, n + 2, Len(chain))
<1>1. Len(chain) \in Nat /\ DOMAIN chain = 1 .. Len(chain) /\ \A i \in 1 .. Len(chain) : chain[i] \in QOps
  BY LenProperties
<1>2. rest \in Seq(QOps) /\ Len(rest) = IF n + 1 <= Len(chain) THEN Len(chain) - (n + 1) + 1 ELSE 0
  <2>1. \A i \in n + 1 .. Len(chain) : chain[i] \in QOps
    BY <1>1
  <2> QED  BY <1>1, <2>1, SubSeqProperties
<1>3. \A L \in Nat : \A m \in 0 .. L : \A r :
        r = (IF m + 1 <= L THEN L - (m + 1) + 1 ELSE 0) =>
          r = L - m /\ L - r = m /\ (r \in Nat \ {0} => m < L)
  OBVIOUS
<1>4. /\ Len(rest) = Len(chain) - n /\ Len(chain) - Len(rest) = n
      /\ Len(rest) \in Nat \ {0} => n < Len(chain)
  BY <1>1, <1>2, <1>3, Zenon
<1>5. Sent = SubSeq(chain, 1, n)
  BY <1>4 DEF Sent
<1>6. Counts <=> n > 0 /\ chain[n].op = "Count"
  <2>1. \A i \in 1 .. n : chain[i] \in QOps
    BY <1>1
  <2>2. /\ Sent \in Seq(QOps) /\ Len(Sent) = IF 1 <= n THEN n - 1 + 1 ELSE 0
        /\ \A i \in 1 .. n - 1 + 1 : Sent[i] = chain[1 + i - 1]
    BY <1>1, <1>5, <2>1, SubSeqProperties
  <2>3. Len(Sent) = n
    BY <2>2
  <2>4. Sent # << >> <=> n > 0
    BY <2>2, <2>3
  <2>5. n > 0 => Last(Sent) = chain[n]
    BY <2>2, <2>3 DEF Last
  <2> QED  BY <2>4, <2>5 DEF Counts
<1>7. ASSUME rest # << >>
      PROVE  n < Len(chain) /\ Head(rest) = chain[n + 1] /\ Tail(rest) = SubSeq(chain, n + 2, Len(chain))
  <2>1. Len(rest) \in Nat \ {0}
    BY <1>2, <1>7, EmptySeq
  <2>2. n < Len(chain)
    BY <1>4, <2>1
  <2>3. n + 1 \in 1 .. Len(chain) /\ Len(chain) \in n + 1 .. Len(chain) /\ (n + 1) + 1 = n + 2
    BY <1>1, <2>2
  <2>4. Head(rest) = chain[n + 1] /\ Tail(rest) = SubSeq(chain, (n + 1) + 1, Len(chain))
    BY <2>3, HeadTailOfSubSeq
  <2> QED  BY <2>2, <2>3, <2>4
<1> QED  BY <1>1, <1>2, <1>4, <1>5, <1>6, <1>7

\* A row that the policies permit is an entity that may be seen.
LEMMA ReadShown ==
  ASSUME IsSetup(setup), NEW row \in MyRows, NEW fields
  PROVE  Shown(row_to_entity_value(row, fields))
<1> DEFINE e == row_to_entity_value(row, fields)
<1> SUFFICES ASSUME e # Thrown PROVE DOMAIN e = {"id", "a", "owner"} /\ Allowed(e)
  BY DEF Shown
<1>1. e = project([id |-> row.id, a |-> field_policy(row.a), owner |-> row.joined], fields)
  BY DEF row_to_entity_value
<1>2. DOMAIN e = {"id", "a", "owner"} /\ e.id = row.id /\ e.a = field_policy(row.a)
  BY <1>1 DEF project
<1> HIDE DEF e
<1>3. setup.login => setup.uid # Null /\ row.owner = setup.uid
  BY DEF MyRows
<1>4. PICK k \in DOMAIN setup.rows : row = make_core_select[k]
  BY CoreFacts DEF MyRows
<1>5. setup.rows[k].id = e.id /\ setup.rows[k].owner = row.owner
  BY <1>2, <1>4, CoreFacts
<1>6. /\ setup.policy = "omit" => e.a = Null
      /\ setup.policy = "anonymize" => e.a \in {Null, Anon}
  BY <1>2 DEF field_policy
<1> QED  BY <1>2, <1>3, <1>5, <1>6 DEF Allowed

\* The rows of the query as entities.
LEMMA RowsStep ==
  ASSUME QueriesInv, runChiselQuery
  PROVE  QueriesInv'
<1>1. /\ phase = "sql" /\ plan = << >> /\ phase' = "js"
      /\ stream' = IF Counts THEN stream ELSE ReadRows(stream)
      /\ setup' = setup /\ chain' = chain /\ plan' = plan /\ rest' = rest
  BY DEF runChiselQuery
<1>2. /\ IsSetup(setup) /\ chain \in Seq(QOps) /\ stream \in Seq(ToSet(stream))
      /\ setup # NoSetup
      /\ \A i \in DOMAIN chain : chain[i].op \in Aggregates => i = Len(chain)
  BY <1>1 DEF QueriesInv, QTypeOK, ChainInv
<1>3. PICK n \in 0 .. Len(chain) : rest = SubSeq(chain, n + 1, Len(chain))
  BY <1>1 DEF QueriesInv, ChainInv
<1>4. CASE Counts
  <2>1. n > 0 /\ chain[n].op = "Count" /\ n \in DOMAIN chain /\ Len(rest) = Len(chain) - n /\ Len(chain) \in Nat
    BY <1>2, <1>3, <1>4, RestFacts
  <2>2. n = Len(chain)
    BY <1>2, <2>1 DEF Aggregates
  <2>3. rest = << >> /\ chain # << >> /\ Last(chain).op \in Aggregates
    BY <1>2, <1>3, <2>1, <2>2, RestFacts, EmptySeq DEF Last, Aggregates
  <2>4. Aggregated'
    BY <1>1, <2>3 DEF Aggregated
  <2>5. QTypeOK'
    BY <1>1, <1>2, <1>4 DEF QueriesInv, QTypeOK
  <2>6. ChainInv' /\ SqlInv' /\ JsInv'
    BY <1>1, <2>4 DEF QueriesInv, ChainInv, SqlInv, JsInv
  <2> QED  BY <2>5, <2>6 DEF QueriesInv
<1>5. CASE ~Counts
  <2>1. stream \in Seq(MyRows)
    BY <1>1, <1>5 DEF QueriesInv, SqlInv
  <2> DEFINE I == {i \in 1 .. Len(stream) : row_to_entity_value(stream[i], allowed_fields(Sent)) = Thrown}
             bad == IF I # {} THEN Min(I) ELSE 0
             m == IF bad = 0 THEN Len(stream) ELSE bad
             t == Take(m, stream)
             at(i) == IF t[i] = Thrown THEN Thrown ELSE row_to_entity_value(t[i], allowed_fields(Sent))
  <2>2. stream' = [i \in DOMAIN t |-> at(i)]
    BY <1>1, <1>5 DEF ReadRows, Mapped, SelectInSeq
  <2>3. m \in Nat
    <3>1. I \subseteq Nat /\ Len(stream) \in Nat
      BY <2>1, LenProperties
    <3> QED  BY <3>1, FirstIn
  <2> HIDE DEF m
  <2>4. t \in Seq(MyRows)
    BY <2>1, <2>3, TakeOf
  <2> HIDE DEF t
  <2>5. Len(t) \in Nat /\ DOMAIN t = 1 .. Len(t) /\ \A i \in 1 .. Len(t) : t[i] \in MyRows
    BY <2>4, LenProperties
  <2>6. \A i \in 1 .. Len(t) : Shown(at(i))
    <3> SUFFICES ASSUME NEW i \in 1 .. Len(t) PROVE Shown(at(i))
      OBVIOUS
    <3>1. Shown(row_to_entity_value(t[i], allowed_fields(Sent)))
      BY <1>2, <2>5, ReadShown
    <3>2. Shown(Thrown)
      BY DEF Shown
    <3> QED  BY <3>1, <3>2
  <2> HIDE DEF at
  <2> DEFINE U == {at(i) : i \in 1 .. Len(t)}
  <2>7. stream' \in Seq(U)
    BY <2>2, <2>5, IsASeq
  <2>8. stream' \in Seq(ToSet(stream'))
    BY <2>7, OwnElements
  <2>9. QTypeOK'
    BY <1>1, <1>2, <2>8 DEF QueriesInv, QTypeOK
  <2>10. \A i \in DOMAIN stream' : Shown(stream'[i])
    BY <2>2, <2>5, <2>6
  <2>11. \A i \in DOMAIN stream' : Shown(stream[i])'
    BY <1>1, <2>10, SameSetup DEF Shown
  <2>12. ChainInv' /\ SqlInv' /\ JsInv'
    BY <1>1, <2>11 DEF QueriesInv, ChainInv, SqlInv, JsInv
  <2> QED  BY <2>9, <2>12 DEF QueriesInv
<1> QED  BY <1>4, <1>5

\* The elements that a filter keeps, and perhaps an exception.
LEMMA KeptFacts ==
  ASSUME NEW S, NEW s \in Seq(S), NEW I, I \subseteq DOMAIN s
  PROVE  /\ Picked(s, I) \in Seq(S \cup {Thrown})
         /\ Append(Picked(s, I), Thrown) \in Seq(S \cup {Thrown})
<1>1. \A i \in I : s[i] \in S \cup {Thrown}
  BY LenProperties
<1>2. Picked(s, I) \in Seq(S \cup {Thrown})
  BY <1>1, PickedFacts
<1> HIDE DEF Picked
<1> QED  BY <1>2, AppendProperties

\* An operator that is no aggregate does not make more visible.
LEMMA ApplyFacts ==
  ASSUME NEW S, NEW s \in Seq(S), \A x \in S : Shown(x),
         NEW op \in QOps, op.op \notin Aggregates, NEW t \in apply(op, s)
  PROVE  t \in Seq(ToSet(t)) /\ \A i \in DOMAIN t : Shown(t[i])
<1> DEFINE U == S \cup {Thrown}
<1>1. Len(s) \in Nat /\ DOMAIN s = 1 .. Len(s) /\ \A i \in 1 .. Len(s) : s[i] \in S
  BY LenProperties
<1>2. \A x \in U : Shown(x)
  BY DEF Shown
<1>3. op.op \in Operators /\ (op.op \in {"Take", "Skip"} => op.n \in Nat)
  BY QueriesAssumption
<1>4. ASSUME NEW V, \A x \in V : Shown(x), t \in Seq(V)
      PROVE  t \in Seq(ToSet(t)) /\ \A i \in DOMAIN t : Shown(t[i])
  BY <1>4, OwnElements, LenProperties
<1>5. <<Thrown>> \in Seq(U)
  OBVIOUS
<1>6. CASE op.op = "Take"
  <2>1. t = Take(op.n, s)
    BY <1>6 DEF apply
  <2> QED  BY <1>3, <1>4, <1>6, <2>1, TakeOf
<1>7. CASE op.op = "Skip"
  <2>1. t = <<Thrown>> \/ t = SubSeq(s, op.n + 1, Len(s))
    BY <1>7 DEF apply, Skip
  <2>2. SubSeq(s, op.n + 1, Len(s)) \in Seq(S)
    <3>1. op.n + 1 \in Nat \ {0} /\ Len(s) \in 0 .. Len(s)
      BY <1>1, <1>3, <1>7
    <3> QED  BY <3>1, PartOf
  <2> QED  BY <1>2, <1>4, <1>5, <2>1, <2>2
<1>8. CASE op.op \in {"PredicateFilter", "InternalFilter", "ExpressionFilter"}
  <2>1. \E I : I \subseteq DOMAIN s /\ (t = Picked(s, I) \/ t = Append(Picked(s, I), Thrown))
    <3>1. CASE op.op \in {"PredicateFilter", "InternalFilter"}
      <4> DEFINE throws == {i \in DOMAIN s : s[i] = Thrown \/ Predicate(op.f, s[i]) = Thrown}
                 before == {i \in DOMAIN s : \A x \in throws : i < x}
                 I == {i \in before : Predicate(op.f, s[i])}
      <4>1. t = IF throws = {} THEN Picked(s, I) ELSE Append(Picked(s, I), Thrown)
        BY <3>1 DEF apply, PredicateFilter, InternalFilter, KeepIf
      <4>2. I \subseteq DOMAIN s
        OBVIOUS
      <4> HIDE DEF I
      <4> QED  BY <4>1, <4>2
    <3>2. CASE op.op = "ExpressionFilter"
      <4> DEFINE throws == {i \in DOMAIN s : s[i] = Thrown \/ JsFilter(op.f, s[i]) = Thrown}
                 before == {i \in DOMAIN s : \A x \in throws : i < x}
                 I == {i \in before : JsFilter(op.f, s[i])}
      <4>1. t = IF throws = {} THEN Picked(s, I) ELSE Append(Picked(s, I), Thrown)
        BY <3>2 DEF apply, ExpressionFilter, KeepIf
      <4>2. I \subseteq DOMAIN s
        OBVIOUS
      <4> HIDE DEF I
      <4> QED  BY <4>1, <4>2
    <3> QED  BY <1>8, <3>1, <3>2
  <2>2. t \in Seq(U)
    BY <2>1, KeptFacts
  <2> QED  BY <1>2, <1>4, <2>2
<1>9. CASE op.op = "SortBy"
  <2>1. t = <<Thrown>> \/ t \in Orders(s)
    BY <1>9 DEF apply, SortBy
  <2> QED  BY <1>2, <1>4, <1>5, <2>1, OrdersOf
<1>10. CASE op.op \in {"Map", "Select"}
  <2> DEFINE new(e) == IF op.op = "Map" THEN [e EXCEPT !.a = IF @ \in {Null, Anon} THEN @ ELSE 3 - @]
                       ELSE [e EXCEPT !.owner = Null]
             at(i) == IF s[i] = Thrown THEN Thrown ELSE new(s[i])
             V == {at(i) : i \in 1 .. Len(s)}
  <2>1. t = [i \in 1 .. Len(s) |-> at(i)]
    BY <1>1, <1>10 DEF apply, MapOperator, ColumnsSelect, Mapped
  <2>2. \A i \in 1 .. Len(s) : Shown(at(i))
    <3> SUFFICES ASSUME NEW i \in 1 .. Len(s) PROVE Shown(at(i))
      OBVIOUS
    <3>1. CASE s[i] = Thrown
      BY <3>1 DEF Shown
    <3>2. CASE s[i] # Thrown
      <4>1. DOMAIN s[i] = {"id", "a", "owner"} /\ Allowed(s[i])
        BY <1>1, <3>2 DEF Shown
      <4>2. /\ DOMAIN new(s[i]) = {"id", "a", "owner"} /\ new(s[i]).id = s[i].id
            /\ s[i].a \in {Null, Anon} => new(s[i]).a = s[i].a
        BY <4>1
      <4> HIDE DEF new
      <4>3. Allowed(new(s[i]))
        BY <4>1, <4>2 DEF Allowed
      <4> QED  BY <3>2, <4>2, <4>3 DEF Shown
    <3> QED  BY <3>1, <3>2
  <2> HIDE DEF at
  <2>3. t \in Seq(V)
    BY <1>1, <2>1, IsASeq
  <2> QED  BY <1>4, <2>2, <2>3
<1> QED  BY <1>3, <1>6, <1>7, <1>8, <1>9, <1>10 DEF Operators, JsOnly, Aggregates

\* The next operator is applied.
LEMMA EvalStep ==
  ASSUME QueriesInv, eval
  PROVE  QueriesInv'
<1>1. /\ phase = "js" /\ rest # << >> /\ stream' \in apply(Head(rest), stream) /\ rest' = Tail(rest)
      /\ setup' = setup /\ chain' = chain /\ phase' = phase /\ plan' = plan
  BY DEF eval
<1>2. /\ chain \in Seq(QOps) /\ stream \in Seq(ToSet(stream))
      /\ \A i \in DOMAIN chain : chain[i].op \in Aggregates => i = Len(chain)
      /\ \A i \in DOMAIN stream : Shown(stream[i])
  BY <1>1 DEF QueriesInv, QTypeOK, ChainInv, JsInv, Aggregated
<1>3. PICK n \in 0 .. Len(chain) : rest = SubSeq(chain, n + 1, Len(chain))
  BY <1>1 DEF QueriesInv, ChainInv
<1>4. /\ Len(chain) \in Nat /\ DOMAIN chain = 1 .. Len(chain) /\ n < Len(chain)
      /\ Head(rest) = chain[n + 1] /\ Tail(rest) = SubSeq(chain, n + 2, Len(chain))
      /\ n + 1 \in 1 .. Len(chain) /\ chain[n + 1] \in QOps
  <2>1. /\ Len(chain) \in Nat /\ DOMAIN chain = 1 .. Len(chain) /\ n < Len(chain)
        /\ Head(rest) = chain[n + 1] /\ Tail(rest) = SubSeq(chain, n + 2, Len(chain))
    BY <1>1, <1>2, <1>3, RestFacts
  <2>2. n + 1 \in 1 .. Len(chain)
    BY <2>1
  <2> QED  BY <1>2, <2>1, <2>2, LenProperties
<1>5. ChainInv'
  <2>1. n + 1 \in 0 .. Len(chain) /\ rest' = SubSeq(chain, (n + 1) + 1, Len(chain))
    <3>1. n + 2 = (n + 1) + 1 /\ n + 1 \in 0 .. Len(chain)
      BY <1>4
    <3> QED  BY <1>1, <1>4, <3>1
  <2> QED  BY <1>1, <1>2, <2>1 DEF ChainInv
<1> DEFINE op == chain[n + 1]
<1>6. CASE op.op \in Aggregates
  <2>1. n + 1 = Len(chain)
    BY <1>2, <1>4, <1>6
  <2>2. Aggregated'
    <3>1. rest' = << >>
      BY <1>1, <1>4, <2>1, SubSeqEmpty
    <3>2. chain # << >> /\ Last(chain).op \in Aggregates
      BY <1>2, <1>4, <1>6, <2>1, EmptySeq DEF Last
    <3> QED  BY <1>1, <3>1, <3>2 DEF Aggregated
  <2>3. \E x : stream' = <<x>>
    BY <1>1, <1>4, <1>6 DEF apply, Aggregates, Count, MinBy
  <2>4. stream' \in Seq(ToSet(stream'))
    <3>1. PICK x : stream' = <<x>>
      BY <2>3
    <3>2. <<x>> \in Seq({x})
      OBVIOUS
    <3> QED  BY <3>1, <3>2, OwnElements
  <2>5. QTypeOK'
    BY <1>1, <2>4 DEF QueriesInv, QTypeOK
  <2> QED  BY <1>1, <1>5, <2>2, <2>5 DEF QueriesInv, SqlInv, JsInv
<1>7. CASE op.op \notin Aggregates
  <2>1. \A x \in ToSet(stream) : Shown(x)
    BY <1>2 DEF ToSet
  <2> DEFINE s == stream
             t == stream'
  <2>2. t \in apply(op, s) /\ s \in Seq(ToSet(stream)) /\ op \in QOps
    BY <1>1, <1>2, <1>4
  <2> HIDE DEF s, t, op
  <2>3. t \in Seq(ToSet(t)) /\ \A i \in DOMAIN t : Shown(t[i])
    BY <1>7, <2>1, <2>2, ApplyFacts
  <2>4. stream' \in Seq(ToSet(stream')) /\ \A i \in DOMAIN stream' : Shown(stream'[i])
    BY <2>3 DEF t
  <2>5. \A i \in DOMAIN stream' : Shown(stream[i])'
    BY <1>1, <2>4, SameSetup DEF Shown
  <2>6. QTypeOK'
    BY <1>1, <2>4 DEF QueriesInv, QTypeOK
  <2> QED  BY <1>1, <1>5, <2>5, <2>6 DEF QueriesInv, SqlInv, JsInv
<1> QED  BY <1>6, <1>7
-----------------------------------------------------------------------------
(* delete.                                                                 *)

\* The filters of a delete, on a row.
LEMMA DeleteFilters ==
  ASSUME IsSetup(setup), NEW r, NEW row
  PROVE  gather_filters(add_login_filters \o <<restrictionsToFilterExpr(r)>>, row) <=>
           /\ setup.login => IsTrue(Equal("owner", IF setup.uid = Null THEN 0 ELSE setup.uid), row)
           /\ \A k \in DOMAIN r : r[k] # Undefined => IsTrue(Equal(k, r[k]), row)
<1> DEFINE B == restrictionsToFilterExpr(r)
           v == IF setup.uid = Null THEN 0 ELSE setup.uid
           A == FilterOp({Equal("owner", v)})
           q == add_login_filters \o <<B>>
<1>1. B.op = "Filter" /\ B.conds = {Equal(k, r[k]) : k \in {k \in DOMAIN r : r[k] # Undefined}}
  BY DEF restrictionsToFilterExpr, FilterOp
<1>2. A.op = "Filter" /\ A.conds = {Equal("owner", v)}
  BY DEF FilterOp
<1>3. (\A cond \in B.conds : IsTrue(cond, row)) <=> \A k \in DOMAIN r : r[k] # Undefined => IsTrue(Equal(k, r[k]), row)
  BY <1>1
<1>4. (\A cond \in A.conds : IsTrue(cond, row)) <=> IsTrue(Equal("owner", v), row)
  BY <1>2
<1>5. add_login_filters = IF setup.login THEN <<A>> ELSE << >>
  BY DEF add_login_filters
<1> HIDE DEF A, B, v
<1>6. CASE setup.login
  <2>1. <<A>> \in Seq({A, B}) /\ <<B>> \in Seq({A, B}) /\ Len(<<A>>) = 1 /\ Len(<<B>>) = 1
    OBVIOUS
  <2>2. q \in Seq({A, B}) /\ Len(q) = 2 /\ q[1] = A /\ q[2] = B
    BY <1>5, <1>6, <2>1, ConcatProperties
  <2>3. DOMAIN q = 1 .. 2
    BY <2>2, LenProperties
  <2>4. gather_filters(q, row) <=> (\A cond \in A.conds : IsTrue(cond, row)) /\ \A cond \in B.conds : IsTrue(cond, row)
    <3> HIDE DEF q
    <3>1. \A i \in DOMAIN q : i = 1 \/ i = 2
      BY <2>3
    <3> QED  BY <1>1, <1>2, <2>2, <2>3, <3>1 DEF gather_filters
  <2> QED  BY <1>3, <1>4, <1>6, <2>4 DEF v, B
<1>7. CASE ~setup.login
  <2>1. q = <<B>>
    BY <1>5, <1>7
  <2>2. DOMAIN q = {1} /\ q[1] = B
    BY <2>1
  <2>3. gather_filters(q, row) <=> \A cond \in B.conds : IsTrue(cond, row)
    <3> HIDE DEF q
    <3> QED  BY <1>1, <2>2 DEF gather_filters
  <2> QED  BY <1>3, <1>7, <2>3 DEF B
<1> QED  BY <1>6, <1>7 DEF IsSetup

\* A row that the policies permit and that has every value which is given.
Matches(r, row) ==
  /\ setup.login => setup.uid # Null /\ row.owner = setup.uid
  /\ \A k \in DOMAIN r : r[k] # Undefined =>
       r[k] # Null /\ (IF k = "a" /\ row.a = Null THEN setup.dflt ELSE row[k]) = r[k]

\* The ids that are deleted are those of the rows that match.
LEMMA DeleteFacts ==
  ASSUME IsSetup(setup), NEW r \in QRestrictions, NEW n \in DOMAIN setup.rows
  PROVE  setup.rows[n].id \in delete_from_expr(r) <=> Matches(r, setup.rows[n])
<1> DEFINE q == add_login_filters \o <<restrictionsToFilterExpr(r)>>
           core == make_core_select
<1>1. /\ DOMAIN core = DOMAIN setup.rows
      /\ \A k \in DOMAIN setup.rows :
           /\ core[k].id = setup.rows[k].id /\ core[k].owner = setup.rows[k].owner
           /\ core[k].a = IF setup.rows[k].a = Null THEN setup.dflt ELSE setup.rows[k].a
  BY CoreFacts
<1>2. \A k, l \in DOMAIN setup.rows : setup.rows[k].id = setup.rows[l].id => k = l
  BY DEF IsSetup
<1>3. setup.rows[n].owner # 0
  BY DEF IsSetup
<1>4. delete_from_expr(r) = {core[i].id : i \in {i \in DOMAIN core : gather_filters(q, core[i])}}
  BY DEF delete_from_expr, Ids
<1>5. gather_filters(q, core[n]) <=>
        /\ setup.login => IsTrue(Equal("owner", IF setup.uid = Null THEN 0 ELSE setup.uid), core[n])
        /\ \A k \in DOMAIN r : r[k] # Undefined => IsTrue(Equal(k, r[k]), core[n])
  BY DeleteFilters
<1> HIDE DEF q, core
<1>6. setup.rows[n].id \in delete_from_expr(r) <=> gather_filters(q, core[n])
  BY <1>1, <1>2, <1>4
<1>7. IsTrue(Equal("owner", IF setup.uid = Null THEN 0 ELSE setup.uid), core[n])
        <=> setup.uid # Null /\ setup.rows[n].owner = setup.uid
  BY <1>1, <1>3 DEF IsTrue, Equal
<1>8. ASSUME NEW k \in DOMAIN r, r[k] # Undefined
      PROVE  IsTrue(Equal(k, r[k]), core[n]) <=>
               r[k] # Null /\ (IF k = "a" /\ setup.rows[n].a = Null THEN setup.dflt ELSE setup.rows[n][k]) = r[k]
  <2>1. k \in {"id", "a", "owner"}
    BY QueriesAssumption
  <2>2. core[n][k] = IF k = "a" /\ setup.rows[n].a = Null THEN setup.dflt ELSE setup.rows[n][k]
    BY <1>1, <2>1
  <2>3. IsTrue(Equal(k, r[k]), core[n]) <=> r[k] # Null /\ core[n][k] = r[k]
    BY <1>8 DEF IsTrue, Equal
  <2> QED  BY <2>2, <2>3
<1> QED  BY <1>5, <1>6, <1>7, <1>8 DEF Matches

\* A delete leaves the rows that do not match, each once.
LEMMA DeleteStep ==
  ASSUME IsSetup(setup), NEW r \in QRestrictions, q_delete(r)
  PROVE  /\ IsSetup(setup')
         /\ ToSet(setup.rows) \ ToSet(setup'.rows) = {row \in ToSet(setup.rows) : Matches(r, row)}
<1> DEFINE s == setup.rows
           I == {i \in DOMAIN s : s[i].id \notin delete_from_expr(r)}
           t == Picked(s, I)
<1>1. setup' = [setup EXCEPT !.rows = t]
  BY DEF q_delete
<1>2. /\ s \in Seq(ToSet(s))
      /\ \A k \in DOMAIN s : DOMAIN s[k] = {"id", "a", "owner"} /\ s[k].owner # 0
      /\ \A k, l \in DOMAIN s : s[k].id = s[l].id => k = l
  BY DEF IsSetup
<1>3. I \subseteq DOMAIN s /\ \A i \in DOMAIN s : i \in I <=> ~Matches(r, s[i])
  BY DeleteFacts
<1>4. \A i \in I : s[i] \in ToSet(s)
  BY <1>3 DEF ToSet
<1> HIDE DEF I
<1>5. /\ t \in Seq(ToSet(s)) /\ Len(t) = Cardinality(I) /\ Cardinality(I) \in Nat
      /\ \A k \in 1 .. Cardinality(I) : \E i \in I : t[k] = s[i] /\ Rank(I, i) = k - 1
  BY <1>2, <1>3, <1>4, PickedFacts
<1>6. ToSet(t) = {s[i] : i \in I}
  BY <1>2, <1>3, PickedSet
<1> HIDE DEF t
<1>7. DOMAIN t = 1 .. Cardinality(I) /\ t \in Seq(ToSet(t))
  BY <1>5, LenProperties, OwnElements
<1>8. \A k \in DOMAIN t : DOMAIN t[k] = {"id", "a", "owner"} /\ t[k].owner # 0
  BY <1>2, <1>3, <1>5, <1>7
<1>9. ASSUME NEW k \in DOMAIN t, NEW l \in DOMAIN t, t[k].id = t[l].id PROVE k = l
  <2>1. PICK i \in I : t[k] = s[i] /\ Rank(I, i) = k - 1
    BY <1>5, <1>7
  <2>2. PICK j \in I : t[l] = s[j] /\ Rank(I, j) = l - 1
    BY <1>5, <1>7
  <2>3. i = j
    BY <1>2, <1>3, <1>9, <2>1, <2>2
  <2>4. k \in Nat /\ l \in Nat
    BY <1>5, <1>7
  <2> QED  BY <2>1, <2>2, <2>3, <2>4
<1>10. IsSetup(setup')
  <2>1. /\ DOMAIN setup' = DOMAIN setup /\ setup'.rows = t /\ setup'.login = setup.login
    BY <1>1 DEF IsSetup
  <2> QED  BY <2>1, <1>7, <1>8, <1>9 DEF IsSetup
<1>11. ToSet(s) \ ToSet(t) = {row \in ToSet(s) : Matches(r, row)}
  <2>1. ToSet(s) = {s[i] : i \in DOMAIN s}
    BY DEF ToSet
  <2>2. \A i, j \in DOMAIN s : s[i] = s[j] => i = j
    BY <1>2
  <2> HIDE DEF s
  <2> QED  BY <1>3, <1>6, <2>1, <2>2
<1>12. setup'.rows = t
  BY <1>1 DEF IsSetup
<1> QED  BY <1>10, <1>11, <1>12

-----------------------------------------------------------------------------
(* The theorems about cursors.                                             *)

\* Every step keeps the invariant.
LEMMA QueriesStep ==
  ASSUME QueriesInv, [QNext]_qVars
  PROVE  QueriesInv'
<1>1. CASE UNCHANGED qVars
  <2>1. /\ setup' = setup /\ chain' = chain /\ phase' = phase /\ plan' = plan
        /\ rest' = rest /\ stream' = stream
    BY <1>1 DEF qVars
  <2>2. QTypeOK' /\ ChainInv'
    BY <2>1 DEF QueriesInv, QTypeOK, ChainInv
  <2>3. Counts' = Counts /\ Aggregated' = Aggregated
    BY <2>1 DEF Counts, Sent, Aggregated
  <2>4. SqlInv'
    BY <2>1, <2>3, SameSetup DEF QueriesInv, SqlInv
  <2>5. JsInv'
    BY <2>1, <2>3, SameSetup DEF QueriesInv, JsInv, Shown
  <2> QED  BY <2>2, <2>4, <2>5 DEF QueriesInv
<1>2. ASSUME phase' = "build", IsSetup(setup'), chain' \in Seq(QOps),
             plan' \in Seq(ToSet(plan')), stream' \in Seq(ToSet(stream')),
             \A i \in DOMAIN plan' : plan'[i].op \in {"Take", "Skip"} => plan'[i].n \in Nat,
             \A i \in DOMAIN chain' : chain'[i].op \in Aggregates => i = Len(chain')
      PROVE  QueriesInv'
  BY <1>2 DEF QueriesInv, QTypeOK, ChainInv, SqlInv, JsInv
<1>3. CASE q_setup
  <2>1. phase' = "build" /\ IsSetup(setup')
    BY <1>3, QueriesAssumption DEF q_setup, QueriesInv, QTypeOK
  <2> QED  BY <1>2, <1>3, <2>1 DEF q_setup, QueriesInv, QTypeOK, ChainInv
<1>4. CASE q_done
  <2>1. /\ setup' = NoSetup /\ chain' = << >> /\ phase' = "build"
        /\ plan' = << >> /\ rest' = << >> /\ stream' = << >>
    BY <1>4 DEF q_done
  <2>2. \A S : << >> \in Seq(S)
    OBVIOUS
  <2>3. DOMAIN << >> = {}
    OBVIOUS
  <2>4. IsSetup(NoSetup)
    BY <2>2, <2>3 DEF IsSetup, NoSetup
  <2> QED  BY <1>2, <2>1, <2>2, <2>3, <2>4
<1>5. ASSUME NEW op \in QOps, cursor_op(op) PROVE QueriesInv'
  <2>1. /\ phase = "build" /\ chain' = Append(chain, op) /\ setup' = setup /\ phase' = phase
        /\ plan' = plan /\ stream' = stream
        /\ chain # << >> => Last(chain).op \notin Aggregates
    BY <1>5 DEF cursor_op
  <2>2. /\ chain \in Seq(QOps) /\ IsSetup(setup) /\ plan \in Seq(ToSet(plan)) /\ stream \in Seq(ToSet(stream))
        /\ \A i \in DOMAIN plan : plan[i].op \in {"Take", "Skip"} => plan[i].n \in Nat
        /\ \A i \in DOMAIN chain : chain[i].op \in Aggregates => i = Len(chain)
    BY DEF QueriesInv, QTypeOK, ChainInv
  <2>3. /\ chain' \in Seq(QOps) /\ Len(chain') = Len(chain) + 1
        /\ \A i \in 1 .. Len(chain) : chain'[i] = chain[i]
    BY <2>1, <2>2, AppendProperties
  <2>4. DOMAIN chain' = 1 .. Len(chain') /\ DOMAIN chain = 1 .. Len(chain) /\ Len(chain) \in Nat
    BY <2>2, <2>3, LenProperties
  <2>5. ASSUME NEW i \in DOMAIN chain', chain'[i].op \in Aggregates PROVE i = Len(chain')
    <3> SUFFICES ASSUME i # Len(chain') PROVE FALSE
      OBVIOUS
    <3>1. i \in 1 .. Len(chain)
      BY <2>3, <2>4
    <3>2. i = Len(chain) /\ chain # << >>
      BY <2>2, <2>3, <2>4, <2>5, <3>1
    <3> QED  BY <2>1, <2>3, <2>5, <3>1, <3>2 DEF Last
  <2> QED  BY <1>2, <2>1, <2>2, <2>3, <2>5
<1>6. CASE asyncIterator
  BY <1>6, IteratorStep
<1>7. CASE make_raw_query
  BY <1>7, SegmentStep
<1>8. CASE runChiselQuery
  BY <1>8, RowsStep
<1>9. CASE eval
  BY <1>9, EvalStep
<1>10. ASSUME NEW r \in QRestrictions, q_delete(r) PROVE QueriesInv'
  <2>1. IsSetup(setup')
    BY <1>10, DeleteStep DEF QueriesInv, QTypeOK
  <2>2. phase' = "build" /\ chain' = chain /\ plan' = plan /\ stream' = stream
    BY <1>10 DEF q_delete
  <2> QED  BY <1>2, <2>1, <2>2 DEF QueriesInv, QTypeOK, ChainInv
<1> QED  BY <1>1, <1>3, <1>4, <1>5, <1>6, <1>7, <1>8, <1>9, <1>10 DEF QNext

\* The inductive invariant of cursors: which rows the query has at each segment,
\* and which entities the user's operators get.
THEOREM QueriesInvariance == QSpec => []QueriesInv
<1>1. QInit => QueriesInv
  <2> SUFFICES ASSUME QInit PROVE QueriesInv
    OBVIOUS
  <2>1. /\ setup = NoSetup /\ chain = << >> /\ phase = "build" /\ plan = << >> /\ stream = << >>
    BY DEF QInit
  <2>2. (\A S : << >> \in Seq(S)) /\ DOMAIN << >> = {}
    OBVIOUS
  <2>3. IsSetup(NoSetup)
    BY <2>2 DEF IsSetup, NoSetup
  <2> QED  BY <2>1, <2>2, <2>3 DEF QueriesInv, QTypeOK, ChainInv, SqlInv, JsInv
<1> QED  BY <1>1, QueriesStep, PTL DEF QSpec

\* Whatever filters and functions the user's code has, and wherever its chain is cut,
\* a cursor shows no row of another user, nor a value that a field's policy hides.
THEOREM PoliciesEnforced == QSpec => []PoliciesHold
<1>1. QueriesInv => PoliciesHold
  BY DEF QueriesInv, JsInv, PoliciesHold, Shown
<1> QED  BY <1>1, QueriesInvariance, PTL

\* A delete removes the rows that match its restrictions and that the policies
\* permit, and no others.
THEOREM DeletesExact == QSpec => DeletesMatch
<1> DEFINE A == \A r \in QRestrictions : setup # NoSetup /\ q_delete(r) =>
                  ToSet(setup.rows) \ ToSet(setup'.rows) =
                    {row \in ToSet(setup.rows) :
                       /\ setup.login => setup.uid # Null /\ row.owner = setup.uid
                       /\ \A k \in DOMAIN r : r[k] # Undefined =>
                            r[k] # Null /\ (IF k = "a" /\ row.a = Null THEN setup.dflt ELSE row[k]) = r[k]}
<1>1. ASSUME QueriesInv PROVE A
  <2> SUFFICES ASSUME NEW r \in QRestrictions, q_delete(r)
               PROVE  ToSet(setup.rows) \ ToSet(setup'.rows) =
                        {row \in ToSet(setup.rows) :
                           /\ setup.login => setup.uid # Null /\ row.owner = setup.uid
                           /\ \A k \in DOMAIN r : r[k] # Undefined =>
                                r[k] # Null /\ (IF k = "a" /\ row.a = Null THEN setup.dflt ELSE row[k]) = r[k]}
    OBVIOUS
  <2>1. IsSetup(setup)
    BY <1>1 DEF QueriesInv, QTypeOK
  <2> QED  BY <2>1, DeleteStep DEF Matches
<1>2. QueriesInv /\ [QNext]_qVars => [A]_qVars
  BY <1>1
<1> QED  BY <1>2, QueriesInvariance, PTL DEF QSpec, DeletesMatch
=============================================================================
