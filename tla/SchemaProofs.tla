---------------------------- MODULE SchemaProofs ----------------------------
(***************************************************************************)
(* The safety properties of Schema, proved for any finite set of models,   *)
(* any fields and any sequence of applies and stores.  What RowsFor and    *)
(* FirstPass compute of a sequence of rows is shown by looking at the      *)
(* first row for which it is wrong (LeastNat).                             *)
(***************************************************************************)
EXTENDS Schema, Integers, FiniteSetTheorems, WellFoundedInduction, SequenceTheorems, TLAPS

-----------------------------------------------------------------------------
(* Naturals and functions                                                  *)

\* A set of naturals has a least element.
LEMMA LeastNat ==
  ASSUME NEW T, T \subseteq Nat, T # {}
  PROVE  \E n \in T : \A m \in T : n <= m
<1> DEFINE R == OpToRel(<, Nat)
<1>1. IsWellFoundedOn(R, Nat)
  BY NatLessThanWellFounded
<1>2. \A x, y \in Nat : x < y => <<x, y>> \in R
  BY DEF OpToRel
<1> HIDE DEF R
<1>3. PICK n \in T : \A y \in T : ~(<<y, n>> \in R)
  BY <1>1, WFMin
<1>4. \A m \in T : n <= m
  <2> SUFFICES ASSUME NEW m \in T, ~(n <= m) PROVE FALSE
    OBVIOUS
  <2>1. m \in Nat /\ n \in Nat /\ m < n
    OBVIOUS
  <2>2. <<m, n>> \in R
    BY <1>2, <2>1
  <2> QED BY <1>3, <2>2
<1> QED BY <1>4

\* A partial function, by its domain and its values.
LEMMA PartialFacts ==
  ASSUME NEW S, NEW T, NEW f
  PROVE  f \in Partial(S, T) <=> /\ DOMAIN f \subseteq S
                                 /\ f = [x \in DOMAIN f |-> f[x]]
                                 /\ \A x \in DOMAIN f : f[x] \in T
<1>1. ASSUME f \in Partial(S, T)
      PROVE  /\ DOMAIN f \subseteq S
             /\ f = [x \in DOMAIN f |-> f[x]]
             /\ \A x \in DOMAIN f : f[x] \in T
  <2>1. PICK D \in SUBSET S : f \in [D -> T]
    BY <1>1 DEF Partial
  <2> QED BY <2>1
<1>2. ASSUME DOMAIN f \subseteq S, f = [x \in DOMAIN f |-> f[x]], \A x \in DOMAIN f : f[x] \in T
      PROVE  f \in Partial(S, T)
  <2>1. f \in [DOMAIN f -> T] /\ DOMAIN f \in SUBSET S
    BY <1>2
  <2> QED BY <2>1 DEF Partial
<1> QED BY <1>1, <1>2

-----------------------------------------------------------------------------
(* RowsFor                                                                 *)

\* What RowsFor has after i rows.
Kept(rows, names, upTo, i) ==
  /\ upTo[i] \in Seq(MetaRow)
  /\ \A k \in DOMAIN upTo[i] :
       \E j \in 1 .. i : upTo[i][k] = rows[j] /\ rows[j].name \in names
  /\ \A j \in 1 .. i : rows[j].name \in names => \E k \in DOMAIN upTo[i] : upTo[i][k] = rows[j]
  /\ Distinct(upTo[i])

\* One more row.
LEMMA KeptStep ==
  ASSUME NEW rows \in Seq(MetaRow), Distinct(rows), NEW names, NEW upTo,
         NEW i \in 1 .. Len(rows), Kept(rows, names, upTo, i - 1),
         upTo[i] = IF rows[i].name \in names THEN Append(upTo[i - 1], rows[i]) ELSE upTo[i - 1]
  PROVE  Kept(rows, names, upTo, i)
<1> DEFINE old == upTo[i - 1]
           new == upTo[i]
<1>0. /\ i \in Nat /\ i - 1 \in Nat /\ 1 .. i = (1 .. i - 1) \cup {i} /\ i \notin 1 .. i - 1
      /\ DOMAIN rows = 1 .. Len(rows) /\ rows[i] \in MetaRow
      /\ \A j \in 1 .. i : j \in DOMAIN rows
  BY LenProperties, ElementOfSeq
<1>1. /\ old \in Seq(MetaRow) /\ Distinct(old)
      /\ \A k \in DOMAIN old : \E j \in 1 .. i - 1 : old[k] = rows[j] /\ rows[j].name \in names
      /\ \A j \in 1 .. i - 1 : rows[j].name \in names => \E k \in DOMAIN old : old[k] = rows[j]
  BY DEF Kept
<1>2. CASE rows[i].name \notin names
  <2>1. new = old
    BY <1>2
  <2> HIDE DEF old, new
  <2>2. \A k \in DOMAIN new : \E j \in 1 .. i : new[k] = rows[j] /\ rows[j].name \in names
    BY <1>0, <1>1, <2>1
  <2>3. \A j \in 1 .. i : rows[j].name \in names => \E k \in DOMAIN new : new[k] = rows[j]
    BY <1>0, <1>1, <1>2, <2>1
  <2> QED BY <1>1, <2>1, <2>2, <2>3 DEF Kept, new
<1>3. CASE rows[i].name \in names
  <2>1. new = Append(old, rows[i])
    BY <1>3
  <2> HIDE DEF old, new
  <2>2. /\ new \in Seq(MetaRow) /\ DOMAIN old = 1 .. Len(old) /\ Len(old) \in Nat
        /\ DOMAIN new = DOMAIN old \cup {Len(old) + 1} /\ Len(old) + 1 \notin DOMAIN old
        /\ new[Len(old) + 1] = rows[i] /\ \A k \in DOMAIN old : new[k] = old[k]
    BY <1>0, <1>1, <2>1, LenProperties, AppendProperties
  <2>3. \A k \in DOMAIN new : \E j \in 1 .. i : new[k] = rows[j] /\ rows[j].name \in names
    BY <1>0, <1>1, <1>3, <2>2
  <2>4. \A j \in 1 .. i : rows[j].name \in names => \E k \in DOMAIN new : new[k] = rows[j]
    BY <1>0, <1>1, <2>2
  <2>5. \A k \in DOMAIN old : old[k].name # rows[i].name
    BY <1>0, <1>1 DEF Distinct
  <2>6. Distinct(new)
    BY <1>1, <2>2, <2>5 DEF Distinct
  <2> QED BY <2>2, <2>3, <2>4, <2>6 DEF Kept, new
<1> QED BY <1>2, <1>3

\* The value of the function in RowsFor at i, from its value before.
UpToAt(rows, names, upTo, i) ==
  IF i = 0 THEN << >>
  ELSE IF rows[i].name \in names THEN Append(upTo[i - 1], rows[i]) ELSE upTo[i - 1]

\* The function in RowsFor exists.
LEMMA UpToExists ==
  ASSUME NEW rows, NEW names, NEW n \in Nat
  PROVE  \E upTo : upTo = [i \in 0 .. n |-> UpToAt(rows, names, upTo, i)]
<1> DEFINE Exists(k) == \E upTo : upTo = [i \in 0 .. k |-> UpToAt(rows, names, upTo, i)]
           bad == {k \in Nat : ~Exists(k)}
<1>1. Exists(0)
  <2> DEFINE f == [i \in 0 .. 0 |-> << >>]
  <2>1. f = [i \in 0 .. 0 |-> UpToAt(rows, names, f, i)]
    BY DEF UpToAt
  <2> QED BY <2>1
<1>2. ASSUME NEW k \in Nat \ {0}, Exists(k - 1)
      PROVE  Exists(k)
  <2>1. PICK g : g = [i \in 0 .. k - 1 |-> UpToAt(rows, names, g, i)]
    BY <1>2
  <2> DEFINE h == [i \in 0 .. k |-> IF i = k THEN UpToAt(rows, names, g, k) ELSE g[i]]
  <2>2. \A i \in 0 .. k : i # 0 => h[i - 1] = g[i - 1]
    OBVIOUS
  <2>3. \A i \in 0 .. k : UpToAt(rows, names, h, i) = UpToAt(rows, names, g, i)
    <3> HIDE DEF h
    <3> QED BY <2>2 DEF UpToAt
  <2>4. \A i \in 0 .. k : i # k => g[i] = UpToAt(rows, names, g, i)
    BY <2>1
  <2>5. \A i \in 0 .. k : h[i] = UpToAt(rows, names, h, i)
    BY <2>3, <2>4
  <2>6. h = [i \in 0 .. k |-> UpToAt(rows, names, h, i)]
    BY <2>5
  <2> HIDE DEF h
  <2> QED BY <2>6
<1> HIDE DEF Exists
<1>3. ASSUME bad # {}
      PROVE  FALSE
  <2>1. PICK k \in bad : \A j \in bad : k <= j
    BY <1>3, LeastNat
  <2>2. k \in Nat \ {0} /\ k - 1 \in Nat
    BY <1>1
  <2>3. Exists(k - 1)
    BY <2>1, <2>2
  <2> QED BY <1>2, <2>2, <2>3
<1>4. Exists(n)
  BY <1>3
<1> QED BY <1>4 DEF Exists

\* kept are the rows of the names.
IsKept(kept, rows, names) ==
  /\ kept \in Seq(MetaRow) /\ Distinct(kept)
  /\ \A k \in DOMAIN kept : \E j \in DOMAIN rows : kept[k] = rows[j] /\ rows[j].name \in names
  /\ \A j \in DOMAIN rows : rows[j].name \in names => \E k \in DOMAIN kept : kept[k] = rows[j]

\* RowsFor keeps the rows of the names, and nothing else.
LEMMA RowsForFacts ==
  ASSUME NEW rows \in Seq(MetaRow), Distinct(rows), NEW names
  PROVE  IsKept(RowsFor(rows, names), rows, names)
<1> DEFINE upTo == CHOOSE upTo : upTo = [i \in 0 .. Len(rows) |-> UpToAt(rows, names, upTo, i)]
           bad == {i \in 0 .. Len(rows) : ~Kept(rows, names, upTo, i)}
<1>1. Len(rows) \in Nat /\ DOMAIN rows = 1 .. Len(rows)
  BY LenProperties
<1>2. RowsFor(rows, names) = upTo[Len(rows)]
  BY DEF RowsFor, UpToAt
<1>3. upTo = [i \in 0 .. Len(rows) |-> UpToAt(rows, names, upTo, i)]
  BY <1>1, UpToExists
<1> HIDE DEF upTo
<1>4. \A i \in 0 .. Len(rows) : upTo[i] = UpToAt(rows, names, upTo, i)
  BY <1>3
<1>5. Kept(rows, names, upTo, 0)
  <2>1. upTo[0] = << >>
    BY <1>1, <1>4 DEF UpToAt
  <2> QED BY <2>1 DEF Kept, Distinct
<1>6. ASSUME bad # {}
      PROVE  FALSE
  <2>0. bad \subseteq Nat
    BY <1>1
  <2>1. PICK i \in bad : \A j \in bad : i <= j
    <3> HIDE DEF bad
    <3> QED BY <1>6, <2>0, LeastNat
  <2>2. i \in 1 .. Len(rows) /\ i - 1 \in 0 .. Len(rows)
    BY <1>1, <1>5
  <2>3. Kept(rows, names, upTo, i - 1)
    BY <1>1, <2>1, <2>2
  <2>4. upTo[i] = IF rows[i].name \in names THEN Append(upTo[i - 1], rows[i]) ELSE upTo[i - 1]
    BY <1>1, <1>4, <2>2 DEF UpToAt
  <2> QED BY <2>2, <2>3, <2>4, KeptStep
<1>7. Kept(rows, names, upTo, Len(rows))
  BY <1>1, <1>6
<1> QED BY <1>1, <1>2, <1>7 DEF Kept, IsKept

-----------------------------------------------------------------------------
(* LoadedTypes and MetaRows                                                *)

\* The type system has the fields of each row.
LEMMA LoadedFacts ==
  ASSUME NEW rows, Distinct(rows)
  PROVE  /\ DOMAIN LoadedTypes(rows) = {rows[k].name : k \in DOMAIN rows}
         /\ \A k \in DOMAIN rows : LoadedTypes(rows)[rows[k].name] = rows[k].fields
<1>1. DOMAIN LoadedTypes(rows) = {rows[k].name : k \in DOMAIN rows}
  BY DEF LoadedTypes
<1>2. ASSUME NEW k \in DOMAIN rows
      PROVE  LoadedTypes(rows)[rows[k].name] = rows[k].fields
  <2> DEFINE c == CHOOSE j \in DOMAIN rows : rows[j].name = rows[k].name
  <2>1. c \in DOMAIN rows /\ rows[c].name = rows[k].name
    OBVIOUS
  <2>2. c = k
    BY <2>1 DEF Distinct
  <2>3. LoadedTypes(rows)[rows[k].name] = rows[c].fields
    BY DEF LoadedTypes
  <2> QED BY <2>2, <2>3
<1> QED BY <1>1, <1>2

\* They are fields of models.
LEMMA LoadedTyped ==
  ASSUME NEW rows \in Seq(MetaRow), Distinct(rows)
  PROVE  \A m \in DOMAIN LoadedTypes(rows) :
           m \in Model /\ LoadedTypes(rows)[m] \in Partial(FieldName, Field)
<1> DEFINE ts == LoadedTypes(rows)
<1>1. \A k \in DOMAIN rows : rows[k] \in MetaRow
  OBVIOUS
<1>2. \A k \in DOMAIN rows : rows[k] \in [name : Model, fields : Partial(FieldName, Field)]
  BY <1>1 DEF MetaRow
<1>3. /\ DOMAIN ts = {rows[k].name : k \in DOMAIN rows}
      /\ \A k \in DOMAIN rows : ts[rows[k].name] = rows[k].fields
  BY LoadedFacts
<1> HIDE DEF ts
<1>4. \A m \in DOMAIN ts : m \in Model /\ ts[m] \in Partial(FieldName, Field)
  BY <1>2, <1>3
<1> QED BY <1>4 DEF ts

\* A request has the fields it may have.
LEMMA RequestFacts ==
  ASSUME NEW request \in Request
  PROVE  /\ DOMAIN request \subseteq Model /\ IsFiniteSet(DOMAIN request)
         /\ \A m \in DOMAIN request : request[m] \in Partial(FieldName, Field)
<1> DEFINE any == UNION {FieldDefs[m] : m \in Model}
<1>1. any \subseteq Field
  BY SchemaAssumption
<1>2. request \in Partial(Model, Partial(FieldName, any))
  BY DEF Request
<1> HIDE DEF any
<1>3. DOMAIN request \subseteq Model /\ \A m \in DOMAIN request : request[m] \in Partial(FieldName, any)
  BY <1>2, PartialFacts
<1>4. IsFiniteSet(DOMAIN request)
  BY <1>3, SchemaAssumption, FS_Subset
<1>5. ASSUME NEW m \in DOMAIN request
      PROVE  request[m] \in Partial(FieldName, Field)
  <2>1. request[m] \in Partial(FieldName, any)
    BY <1>3
  <2>2. /\ DOMAIN request[m] \subseteq FieldName
        /\ request[m] = [x \in DOMAIN request[m] |-> request[m][x]]
        /\ \A x \in DOMAIN request[m] : request[m][x] \in any
    BY <2>1, PartialFacts
  <2> QED BY <1>1, <2>2, PartialFacts
<1> QED BY <1>3, <1>4, <1>5

\* An order of a request has each of its models, once.
LEMMA OrderFacts ==
  ASSUME NEW request \in Request, NEW order \in sort_custom_types(request)
  PROVE  /\ order \in Seq(DOMAIN request)
         /\ \A m \in DOMAIN request : \E k \in DOMAIN order : order[k] = m
         /\ \A j, k \in DOMAIN order : order[j] = order[k] => j = k
<1> DEFINE D == DOMAIN request
           n == Cardinality(D)
<1>1. IsFiniteSet(D) /\ n \in Nat
  BY RequestFacts, FS_CardinalityType
<1>2. order \in [1 .. n -> D] /\ \A i, j \in 1 .. n : i # j => order[i] # order[j]
  BY DEF sort_custom_types, SetToSeqs
<1> HIDE DEF D, n
<1>3. order \in Injection(1 .. n, D)
  BY <1>2 DEF Injection, IsInjective
<1>4. Cardinality(1 .. n) = n
  BY <1>1, FS_Interval
<1>5. order \in Surjection(1 .. n, D)
  <2>1. Cardinality(1 .. n) = Cardinality(D) <=> order \in Surjection(1 .. n, D)
    BY <1>1, <1>3, FS_Injection
  <2> QED BY <1>4, <2>1 DEF n
<1>6. \A m \in D : \E k \in 1 .. n : order[k] = m
  BY <1>5 DEF Surjection
<1>7. order \in Seq(D) /\ DOMAIN order = 1 .. n
  BY <1>1, <1>2
<1> QED BY <1>2, <1>6, <1>7 DEF D

\* update_type keeps the fields, and their types, of the request.
LEMMA UpdateFacts ==
  ASSUME NEW old \in Partial(FieldName, Field), NEW new \in Partial(FieldName, Field)
  PROVE  /\ update_type(old, new) \in Partial(FieldName, Field)
         /\ DOMAIN update_type(old, new) = DOMAIN new
         /\ \A f \in DOMAIN new : update_type(old, new)[f].type = new[f].type
<1> DEFINE u == update_type(old, new)
<1>1. /\ DOMAIN new \subseteq FieldName /\ \A f \in DOMAIN new : new[f] \in Field
      /\ \A f \in DOMAIN old : old[f] \in Field
  BY PartialFacts
<1>2. /\ DOMAIN u = DOMAIN new /\ u = [f \in DOMAIN new |-> u[f]]
      /\ \A f \in DOMAIN new : u[f] = IF f \in DOMAIN old THEN update_field(old[f], new[f]) ELSE new[f]
  BY DEF update_type
<1>3. ASSUME NEW a \in Field, NEW b \in Field
      PROVE  update_field(a, b) \in Field /\ update_field(a, b).type = b.type
  BY DEF update_field, Field
<1> HIDE DEF u
<1>4. \A f \in DOMAIN new : u[f] \in Field /\ u[f].type = new[f].type
  BY <1>1, <1>2, <1>3
<1>5. u \in Partial(FieldName, Field)
  BY <1>1, <1>2, <1>4, PartialFacts
<1> QED BY <1>2, <1>4, <1>5 DEF u

\* An apply leaves one row for each model of the request, with the request's fields.
LEMMA MetaRowsFacts ==
  ASSUME typeRows \in Seq(MetaRow), Distinct(typeRows),
         NEW request \in Request, NEW order \in sort_custom_types(request)
  PROVE  LET rows == MetaRows(request, order)
             ts   == LoadedTypes(typeRows)
         IN /\ rows \in Seq(MetaRow) /\ Distinct(rows)
            /\ DOMAIN LoadedTypes(rows) = DOMAIN request
            /\ \A m \in DOMAIN request :
                 LoadedTypes(rows)[m] = IF m \in DOMAIN ts THEN update_type(ts[m], request[m]) ELSE request[m]
<1> DEFINE ts == LoadedTypes(typeRows)
           kept  == RowsFor(typeRows, DOMAIN request)
           upd(k) == [kept[k] EXCEPT !.fields = update_type(kept[k].fields, request[kept[k].name])]
           first == [k \in DOMAIN kept |-> upd(k)]
           given == [k \in DOMAIN order |-> [name |-> order[k], fields |-> request[order[k]]]]
           more  == RowsFor(given, DOMAIN request \ DOMAIN ts)
           rows  == MetaRows(request, order)
           Name(k) == rows[k].name
<1>1. rows = first \o more
  BY DEF MetaRows
<1>2. /\ DOMAIN ts = {typeRows[k].name : k \in DOMAIN typeRows}
      /\ \A k \in DOMAIN typeRows : ts[typeRows[k].name] = typeRows[k].fields
  BY LoadedFacts
<1>3. /\ DOMAIN request \subseteq Model
      /\ \A m \in DOMAIN request : request[m] \in Partial(FieldName, Field)
  BY RequestFacts
<1>4. /\ order \in Seq(DOMAIN request) /\ DOMAIN order = 1 .. Len(order) /\ Len(order) \in Nat
      /\ \A k \in DOMAIN order : order[k] \in DOMAIN request
      /\ \A m \in DOMAIN request : \E k \in DOMAIN order : order[k] = m
      /\ \A j, k \in DOMAIN order : order[j] = order[k] => j = k
  BY OrderFacts, LenProperties
<1>5. /\ kept \in Seq(MetaRow) /\ Distinct(kept)
      /\ \A k \in DOMAIN kept : \E j \in DOMAIN typeRows : kept[k] = typeRows[j] /\ typeRows[j].name \in DOMAIN request
      /\ \A j \in DOMAIN typeRows : typeRows[j].name \in DOMAIN request => \E k \in DOMAIN kept : kept[k] = typeRows[j]
  <2>1. IsKept(kept, typeRows, DOMAIN request)
    BY RowsForFacts
  <2> HIDE DEF kept
  <2> QED BY <2>1 DEF IsKept
<1>6. /\ given \in Seq(MetaRow) /\ Distinct(given) /\ DOMAIN given = DOMAIN order
      /\ \A k \in DOMAIN given : given[k].name = order[k] /\ given[k].fields = request[order[k]]
  <2>1. \A k \in 1 .. Len(order) : [name |-> order[k], fields |-> request[order[k]]] \in MetaRow
    BY <1>3, <1>4 DEF MetaRow
  <2>2. given \in Seq(MetaRow)
    BY <1>4, <2>1
  <2>3. /\ DOMAIN given = DOMAIN order
        /\ \A k \in DOMAIN given : given[k].name = order[k] /\ given[k].fields = request[order[k]]
    OBVIOUS
  <2> HIDE DEF given
  <2>4. Distinct(given)
    BY <1>4, <2>3 DEF Distinct
  <2> QED BY <2>2, <2>3, <2>4
<1> HIDE DEF given, kept, ts
<1>7. /\ more \in Seq(MetaRow) /\ Distinct(more)
      /\ \A k \in DOMAIN more : \E j \in DOMAIN given : more[k] = given[j] /\ given[j].name \in DOMAIN request \ DOMAIN ts
      /\ \A j \in DOMAIN given : given[j].name \in DOMAIN request \ DOMAIN ts => \E k \in DOMAIN more : more[k] = given[j]
  <2>1. IsKept(more, given, DOMAIN request \ DOMAIN ts)
    BY <1>6, RowsForFacts
  <2> HIDE DEF more
  <2> QED BY <2>1 DEF IsKept
<1> HIDE DEF more
<1>8. \A k \in DOMAIN kept : /\ kept[k].name \in DOMAIN request \cap DOMAIN ts
                             /\ kept[k].fields = ts[kept[k].name] /\ kept[k] \in MetaRow
  BY <1>2, <1>5
<1>9. \A k \in DOMAIN kept :
         /\ upd(k).name = kept[k].name /\ upd(k) \in MetaRow
         /\ upd(k).fields = update_type(ts[kept[k].name], request[kept[k].name])
  <2> SUFFICES ASSUME NEW k \in DOMAIN kept
               PROVE  /\ upd(k).name = kept[k].name /\ upd(k) \in MetaRow
                      /\ upd(k).fields = update_type(ts[kept[k].name], request[kept[k].name])
    OBVIOUS
  <2>1. kept[k] \in [name : Model, fields : Partial(FieldName, Field)]
    BY <1>8 DEF MetaRow
  <2>2. update_type(kept[k].fields, request[kept[k].name]) \in Partial(FieldName, Field)
    BY <1>3, <1>8, <2>1, UpdateFacts
  <2> QED BY <1>8, <2>1, <2>2 DEF MetaRow
<1>10. /\ first \in Seq(MetaRow) /\ DOMAIN first = DOMAIN kept
       /\ \A k \in DOMAIN kept : first[k] = upd(k)
  <2>1. DOMAIN kept = 1 .. Len(kept) /\ Len(kept) \in Nat
    BY <1>5, LenProperties
  <2> HIDE DEF upd
  <2> QED BY <1>9, <2>1
<1> HIDE DEF first
<1>11. \A k \in DOMAIN more : /\ more[k].name \in DOMAIN request \ DOMAIN ts
                              /\ more[k].fields = request[more[k].name]
  BY <1>6, <1>7
<1> HIDE DEF upd, rows
<1>12. /\ DOMAIN first = 1 .. Len(first) /\ Len(first) \in Nat
       /\ DOMAIN more = 1 .. Len(more) /\ Len(more) \in Nat
  BY <1>7, <1>10, LenProperties
<1>13. /\ rows \in Seq(MetaRow) /\ DOMAIN rows = 1 .. Len(first) + Len(more)
       /\ \A k \in DOMAIN first : k \in DOMAIN rows /\ rows[k] = first[k]
       /\ \A k \in DOMAIN more : Len(first) + k \in DOMAIN rows /\ rows[Len(first) + k] = more[k]
       /\ \A k \in DOMAIN rows : \/ k \in DOMAIN first /\ rows[k] = first[k]
                                 \/ k - Len(first) \in DOMAIN more /\ rows[k] = more[k - Len(first)]
                                      /\ ~(k \in DOMAIN first)
  BY <1>1, <1>7, <1>10, <1>12, ConcatProperties, LenProperties
<1>14. \A k \in DOMAIN first : /\ first[k].name \in DOMAIN request \cap DOMAIN ts
                               /\ first[k].fields = update_type(ts[first[k].name], request[first[k].name])
  BY <1>8, <1>9, <1>10
<1>15. \A j, k \in DOMAIN first : first[j].name = first[k].name => j = k
  BY <1>5, <1>9, <1>10 DEF Distinct
<1>16. Distinct(rows)
  <2> SUFFICES ASSUME NEW j \in DOMAIN rows, NEW k \in DOMAIN rows, rows[j].name = rows[k].name
               PROVE  j = k
    BY DEF Distinct
  <2>1. CASE j \in DOMAIN first /\ k \in DOMAIN first
    BY <1>13, <1>15, <2>1
  <2>2. CASE ~(j \in DOMAIN first) /\ ~(k \in DOMAIN first)
    <3>1. /\ j - Len(first) \in DOMAIN more /\ k - Len(first) \in DOMAIN more
          /\ rows[j] = more[j - Len(first)] /\ rows[k] = more[k - Len(first)]
      BY <1>13, <2>2
    <3>2. j - Len(first) = k - Len(first)
      BY <1>7, <3>1 DEF Distinct
    <3> QED BY <1>12, <1>13, <3>2
  <2>3. CASE j \in DOMAIN first /\ ~(k \in DOMAIN first)
    BY <1>11, <1>13, <1>14, <2>3
  <2>4. CASE ~(j \in DOMAIN first) /\ k \in DOMAIN first
    BY <1>11, <1>13, <1>14, <2>4
  <2> QED BY <2>1, <2>2, <2>3, <2>4
<1>17. /\ DOMAIN LoadedTypes(rows) = {rows[k].name : k \in DOMAIN rows}
       /\ \A k \in DOMAIN rows : LoadedTypes(rows)[rows[k].name] = rows[k].fields
  BY <1>16, LoadedFacts
<1>18. ASSUME NEW m \in DOMAIN request
       PROVE  /\ m \in DOMAIN LoadedTypes(rows)
              /\ LoadedTypes(rows)[m] = IF m \in DOMAIN ts THEN update_type(ts[m], request[m]) ELSE request[m]
  <2>1. CASE m \in DOMAIN ts
    <3>1. PICK j \in DOMAIN typeRows : typeRows[j].name = m
      BY <1>2, <2>1
    <3>2. PICK k \in DOMAIN kept : kept[k] = typeRows[j]
      BY <1>5, <3>1
    <3>3. k \in DOMAIN rows /\ rows[k].name = m
      BY <1>9, <1>10, <1>13, <3>1, <3>2
    <3>4. rows[k].fields = update_type(ts[m], request[m])
      BY <1>9, <1>10, <1>13, <3>1, <3>2
    <3> QED BY <1>17, <2>1, <3>3, <3>4
  <2>2. CASE m \notin DOMAIN ts
    <3>1. PICK j \in DOMAIN given : given[j].name = m
      BY <1>4, <1>6
    <3>2. PICK k \in DOMAIN more : more[k] = given[j]
      BY <1>7, <2>2, <3>1
    <3>3. Len(first) + k \in DOMAIN rows /\ rows[Len(first) + k].name = m
      BY <1>13, <3>1, <3>2
    <3>4. rows[Len(first) + k].fields = request[m]
      BY <1>11, <1>13, <3>1, <3>2
    <3> QED BY <1>17, <2>2, <3>3, <3>4
  <2> QED BY <2>1, <2>2
<1>19. DOMAIN LoadedTypes(rows) \subseteq DOMAIN request
  BY <1>11, <1>13, <1>14, <1>17
<1> QED BY <1>13, <1>16, <1>18, <1>19 DEF rows, ts

-----------------------------------------------------------------------------
(* The invariant.                                                          *)

ColumnSet == [type : Scalar \cup {"text"}, unique : BOOLEAN]

\* Nothing is there at first.
LEMMA SchemaInitInv == SchemaInit => SchemaInv
<1> SUFFICES ASSUME SchemaInit PROVE SchemaInv
  OBVIOUS
<1>1. /\ typeRows = << >> /\ columns = << >> /\ data = << >> /\ broken = FALSE
      /\ serving = {} /\ migrating = FALSE /\ late = {} /\ tightened = {}
  BY DEF SchemaInit
<1>2. DOMAIN << >> = {}
  OBVIOUS
<1>3. << >> \in Partial(Model, Partial(FieldName, ColumnSet))
  <2> DEFINE f == << >>
  <2>1. f = [x \in DOMAIN f |-> f[x]] /\ DOMAIN f = {}
    BY SMT
  <2> HIDE DEF f
  <2>2. f \in Partial(Model, Partial(FieldName, ColumnSet))
    BY <2>1, PartialFacts
  <2> QED BY <2>2 DEF f
<1>4. SchemaTypeOK
  <2>1. << >> \in Seq(MetaRow)
    OBVIOUS
  <2>2. DOMAIN data = {} /\ DOMAIN columns = {}
    BY <1>1, <1>2
  <2>3. columns \in Partial(Model, Partial(FieldName, [type : Scalar \cup {"text"}, unique : BOOLEAN]))
    BY <1>1, <1>3 DEF ColumnSet
  <2> QED BY <1>1, <2>1, <2>2, <2>3 DEF SchemaTypeOK
<1>5. Distinct(typeRows)
  BY <1>1, <1>2 DEF Distinct
<1>6. DOMAIN LoadedTypes(typeRows) = {}
  BY <1>1, <1>2, <1>5, LoadedFacts
<1> QED BY <1>1, <1>2, <1>4, <1>5, <1>6
        DEF SchemaInv, RefsKnown, ModelsMatchTables, RowsHaveColumns, ServingInv, WillFit

\* What alter_table and ColumnDef make are columns, one for each field.
LEMMA AlterFacts ==
  ASSUME NEW cols, \A f \in DOMAIN cols : cols[f] \in ColumnSet,
         NEW fields \in Partial(FieldName, Field)
  PROVE  /\ alter_table(cols, fields) \in Partial(FieldName, ColumnSet)
         /\ DOMAIN alter_table(cols, fields) = DOMAIN fields
<1> DEFINE t == alter_table(cols, fields)
<1>1. DOMAIN fields \subseteq FieldName /\ \A f \in DOMAIN fields : fields[f] \in Field
  BY PartialFacts
<1>2. /\ DOMAIN t = DOMAIN fields /\ t = [f \in DOMAIN t |-> t[f]]
      /\ \A f \in DOMAIN fields : t[f] = IF f \in DOMAIN cols THEN cols[f] ELSE ColumnDef(fields[f])
  BY DEF alter_table
<1>3. \A field \in Field : ColumnDef(field) \in ColumnSet
  BY DEF ColumnDef, SqlType, Field, Type, ColumnSet
<1> HIDE DEF t
<1>4. \A f \in DOMAIN t : t[f] \in ColumnSet
  BY <1>1, <1>2, <1>3
<1>5. t \in Partial(FieldName, ColumnSet)
  BY <1>1, <1>2, <1>4, PartialFacts
<1> QED BY <1>2, <1>5 DEF t

\* The references of the rows that an apply leaves are to models of the request,
\* since the request could be sorted.
LEMMA RefsStayKnown ==
  ASSUME SchemaInv, NEW request \in Request, NEW order \in sort_custom_types(request),
         typeRows' = MetaRows(request, order)
  PROVE  RefsKnown'
<1> DEFINE new == LoadedTypes(typeRows')
           ts  == LoadedTypes(typeRows)
<1>1. /\ Distinct(typeRows') /\ DOMAIN new = DOMAIN request
      /\ \A m \in DOMAIN request : new[m] = IF m \in DOMAIN ts THEN update_type(ts[m], request[m]) ELSE request[m]
  BY MetaRowsFacts DEF SchemaInv, SchemaTypeOK
<1>2. /\ DOMAIN new = {typeRows'[k].name : k \in DOMAIN typeRows'}
      /\ \A k \in DOMAIN typeRows' : new[typeRows'[k].name] = typeRows'[k].fields
  <2> DEFINE rows == typeRows'
  <2>1. Distinct(rows)
    BY <1>1
  <2> HIDE DEF rows
  <2>2. /\ DOMAIN LoadedTypes(rows) = {rows[k].name : k \in DOMAIN rows}
        /\ \A k \in DOMAIN rows : LoadedTypes(rows)[rows[k].name] = rows[k].fields
    BY <2>1, LoadedFacts
  <2> QED BY <2>2 DEF rows
<1>3. \A m \in DOMAIN ts : ts[m] \in Partial(FieldName, Field)
  BY LoadedTyped DEF SchemaInv, SchemaTypeOK
<1>4. \A m \in DOMAIN request : request[m] \in Partial(FieldName, Field)
  BY RequestFacts
<1>5. \A m \in DOMAIN request : /\ DOMAIN new[m] = DOMAIN request[m]
                                 /\ \A f \in DOMAIN request[m] : new[m][f].type = request[m][f].type
  BY <1>1, <1>3, <1>4, UpdateFacts
<1>6. /\ \A m \in DOMAIN request : \E j \in DOMAIN order : order[j] = m
      /\ \A i, j \in DOMAIN order : order[i] = order[j] => i = j
      /\ \A i \in DOMAIN order : order[i] \in DOMAIN request
      /\ DOMAIN order = 1 .. Len(order) /\ Len(order) \in Nat
  BY OrderFacts, LenProperties
<1>7. \A j \in DOMAIN order : Refs(request[order[j]]) \subseteq {order[i] : i \in 1 .. j - 1}
  BY DEF sort_custom_types
<1>8. \A m \in DOMAIN request : Refs(request[m]) \subseteq DOMAIN request \ {m}
  <2> SUFFICES ASSUME NEW m \in DOMAIN request, NEW r \in Refs(request[m])
               PROVE  r \in DOMAIN request /\ r # m
    OBVIOUS
  <2>1. PICK j \in DOMAIN order : order[j] = m
    BY <1>6
  <2>2. PICK i \in 1 .. j - 1 : r = order[i]
    BY <1>7, <2>1
  <2>3. i \in DOMAIN order /\ i # j
    BY <1>6
  <2> QED BY <1>6, <2>1, <2>2, <2>3
<1> HIDE DEF new, ts
<1>9. \A m \in DOMAIN request : Refs(new[m]) = Refs(request[m])
  BY <1>5 DEF Refs
<1>10. ASSUME NEW k \in DOMAIN typeRows', NEW r \in Refs(typeRows'[k].fields)
       PROVE  \E j \in DOMAIN typeRows' \ {k} : r = typeRows'[j].name
  <2>1. typeRows'[k].name \in DOMAIN request /\ new[typeRows'[k].name] = typeRows'[k].fields
    BY <1>1, <1>2
  <2>2. r \in DOMAIN request /\ r # typeRows'[k].name
    BY <1>8, <1>9, <1>10, <2>1
  <2>3. PICK j \in DOMAIN typeRows' : r = typeRows'[j].name
    BY <1>1, <1>2, <2>2
  <2> QED BY <2>2, <2>3
<1> QED BY <1>10 DEF RefsKnown

\* A model's columns are columns, and have the names of fields.
LEMMA ColumnFacts ==
  ASSUME SchemaTypeOK, NEW m \in DOMAIN columns
  PROVE  /\ m \in Model /\ DOMAIN columns[m] \subseteq FieldName
         /\ \A f \in DOMAIN columns[m] : columns[m][f] \in ColumnSet
<1>1. columns \in Partial(Model, Partial(FieldName, ColumnSet))
  BY DEF SchemaTypeOK, ColumnSet
<1>2. columns[m] \in Partial(FieldName, ColumnSet) /\ m \in Model
  BY <1>1, PartialFacts
<1> QED BY <1>2, PartialFacts

\* The first transaction of an apply.  Rows that fit the types before fit those that
\* it persists, since generate_type_delta accepted the change.
LEMMA ApplyMetaKeeps ==
  ASSUME SchemaInv, NEW request \in Request, NEW force \in BOOLEAN, apply_types(request, force)
  PROVE  SchemaInv'
<1> DEFINE ts == LoadedTypes(typeRows)
<1>1. /\ typeRows \in Seq(MetaRow) /\ Distinct(typeRows) /\ broken = FALSE
      /\ DOMAIN columns = DOMAIN ts /\ DOMAIN data = DOMAIN columns
      /\ \A m \in DOMAIN ts : DOMAIN columns[m] = DOMAIN ts[m]
      /\ \A m \in DOMAIN data : \A row \in data[m] : DOMAIN row = DOMAIN columns[m]
      /\ migrating' = TRUE /\ tightened' = Tightened(ts, request)
      /\ UNCHANGED <<columns, data, serving, broken, late>>
  BY DEF SchemaInv, SchemaTypeOK, ModelsMatchTables, RowsHaveColumns, apply_types
<1>2. PICK order \in sort_custom_types(request) : typeRows' = MetaRows(request, order)
  BY DEF apply_types
<1>3. /\ typeRows' \in Seq(MetaRow) /\ Distinct(typeRows)'
      /\ DOMAIN LoadedTypes(typeRows') = DOMAIN request
      /\ \A m \in DOMAIN request :
           LoadedTypes(typeRows')[m] = IF m \in DOMAIN ts THEN update_type(ts[m], request[m]) ELSE request[m]
  BY <1>1, <1>2, MetaRowsFacts
<1>4. \A m \in DOMAIN request \cap DOMAIN ts : generate_type_delta(ts, ts[m], request[m], data[m] = {})
  BY DEF apply_types
<1>5. /\ DOMAIN request \subseteq Model
      /\ \A m \in DOMAIN request : request[m] \in Partial(FieldName, Field)
  BY RequestFacts
<1>6. \A m \in DOMAIN ts : ts[m] \in Partial(FieldName, Field)
  BY <1>1, LoadedTyped
<1>7. RefsKnown'
  BY <1>1, <1>2, RefsStayKnown
<1>8. SchemaTypeOK'
  <2>1. tightened' \subseteq Model \X FieldName
    BY <1>1 DEF Tightened
  <2> QED BY <1>1, <1>3, <2>1 DEF SchemaInv, SchemaTypeOK
<1>9. ModelsMatchTables' /\ RowsHaveColumns' /\ ServingInv'
  BY <1>1 DEF SchemaInv, ModelsMatchTables, RowsHaveColumns, ServingInv
<1>10. WillFit'
  <2> DEFINE new == LoadedTypes(typeRows')
  <2> SUFFICES ASSUME NEW m \in (DOMAIN new \cap DOMAIN columns) \ late, NEW row \in data[m],
                      NEW f \in DOMAIN new[m]
               PROVE  ValueFits(IF f \in DOMAIN row THEN row[f] ELSE Null, new[m][f], <<m, f>> \in tightened')
    BY <1>1 DEF WillFit
  <2>1. /\ m \in DOMAIN ts /\ m \in DOMAIN request /\ m \in Model /\ data[m] # {}
        /\ DOMAIN row = DOMAIN ts[m]
    BY <1>1, <1>3, <1>5
  <2>2. /\ new[m] = update_type(ts[m], request[m])
        /\ request[m] \in Partial(FieldName, Field) /\ ts[m] \in Partial(FieldName, Field)
    BY <1>3, <1>5, <1>6, <2>1
  <2>3. /\ DOMAIN new[m] = DOMAIN request[m] /\ DOMAIN request[m] \subseteq FieldName
        /\ \A g \in DOMAIN request[m] : request[m][g] \in Field
        /\ \A g \in DOMAIN ts[m] : ts[m][g] \in Field
    BY <2>2, UpdateFacts, PartialFacts
  <2>4. generate_type_delta(ts, ts[m], request[m], FALSE)
    BY <1>4, <2>1
  <2>5. new[m][f] = IF f \in DOMAIN ts[m] THEN update_field(ts[m][f], request[m][f]) ELSE request[m][f]
    BY <2>2, <2>3 DEF update_type
  <2>6. CASE f \in DOMAIN ts[m]
    <3>1. ValueFits(row[f], ts[m][f], <<m, f>> \in tightened)
      BY <1>1, <2>1, <2>6 DEF SchemaInv, WillFit
    <3>2. request[m][f].type = ts[m][f].type
      BY <2>3, <2>4, <2>6 DEF generate_type_delta, CanKeep
    <3>3. /\ new[m][f].type = ts[m][f].type /\ new[m][f].optional = request[m][f].optional
          /\ new[m][f].default = (request[m][f].default \/ ts[m][f].default)
      BY <2>3, <2>5, <2>6, <3>2 DEF update_field, Field
    <3>4. (ts[m][f].optional \/ <<m, f>> \in tightened) /\ ~request[m][f].optional
             => <<m, f>> \in tightened'
      BY <1>1, <2>1, <2>3, <2>6 DEF Tightened
    <3> HIDE DEF new, ts
    <3>5. f \in DOMAIN row
      BY <2>1, <2>6
    <3>6. CASE row[f] = Null
      BY <3>1, <3>3, <3>4, <3>5, <3>6 DEF ValueFits
    <3>7. CASE row[f] # Null
      BY <3>1, <3>3, <3>5, <3>7 DEF ValueFits
    <3> QED BY <3>6, <3>7
  <2>7. CASE f \notin DOMAIN ts[m]
    <3>1. request[m][f].default \/ request[m][f].optional
      BY <2>3, <2>4, <2>7 DEF generate_type_delta, CanAddOrRemove
    <3>2. new[m][f] = request[m][f] /\ f \notin DOMAIN row
      BY <2>1, <2>5, <2>7
    <3> HIDE DEF new, ts
    <3> QED BY <3>1, <3>2 DEF ValueFits
  <2> QED BY <2>6, <2>7
<1> QED BY <1>3, <1>7, <1>8, <1>9, <1>10 DEF SchemaInv

\* The second transaction of an apply.
LEMMA ApplyTablesKeeps ==
  ASSUME SchemaInv, apply_delta
  PROVE  SchemaInv'
<1> DEFINE ts   == LoadedTypes(typeRows)
           kept == DOMAIN ts \cap DOMAIN columns
           cols(m) == IF m \in kept THEN columns[m] ELSE << >>
<1>1. /\ typeRows \in Seq(MetaRow) /\ Distinct(typeRows) /\ broken = FALSE
      /\ DOMAIN data = DOMAIN columns /\ migrating' = FALSE
      /\ \A m \in DOMAIN data : \A row \in data[m] : DOMAIN row = DOMAIN columns[m]
      /\ \A m \in DOMAIN data : data[m] \subseteq Partial(FieldName, Type \cup {Null})
      /\ UNCHANGED <<typeRows, tightened>>
  BY DEF SchemaInv, SchemaTypeOK, RowsHaveColumns, apply_delta
<1>2. Distinct(typeRows)' /\ RefsKnown'
  BY <1>1 DEF SchemaInv, Distinct, RefsKnown
<1>3. \A m \in DOMAIN ts : m \in Model /\ ts[m] \in Partial(FieldName, Field)
  BY <1>1, LoadedTyped
<1>4. ASSUME broken' = TRUE, UNCHANGED <<columns, data, serving, late>>
      PROVE  SchemaInv'
  <2>1. SchemaTypeOK'
    BY <1>1, <1>4 DEF SchemaInv, SchemaTypeOK
  <2> QED BY <1>2, <1>4, <2>1
          DEF SchemaInv, ModelsMatchTables, RowsHaveColumns, ServingInv, WillFit
<1>5. ASSUME columns' = [m \in DOMAIN ts |-> alter_table(cols(m), ts[m])],
             data' = [m \in DOMAIN ts |->
                        IF m \in kept THEN {Widen(row, columns'[m]) : row \in data[m]} ELSE {}],
             serving' = {Only(old, kept) : old \in serving} \cup {ts},
             late' = late \cap kept,
             broken' = broken
      PROVE  SchemaInv'
  <2>1. \A m \in DOMAIN ts : \A f \in DOMAIN cols(m) : cols(m)[f] \in ColumnSet
    <3>1. \A m \in kept : \A f \in DOMAIN columns[m] : columns[m][f] \in ColumnSet
      BY ColumnFacts DEF SchemaInv
    <3>2. DOMAIN << >> = {}
      OBVIOUS
    <3> QED BY <3>1, <3>2
  <2>2. \A m \in DOMAIN ts : /\ columns'[m] \in Partial(FieldName, ColumnSet)
                             /\ DOMAIN columns'[m] = DOMAIN ts[m]
    <3> HIDE DEF cols, ts
    <3> QED BY <1>3, <1>5, <2>1, AlterFacts
  <2>3. DOMAIN columns' = DOMAIN ts /\ DOMAIN data' = DOMAIN ts
        /\ columns' = [m \in DOMAIN columns' |-> columns'[m]]
    BY <1>5
  <2>4. columns' \in Partial(Model, Partial(FieldName, ColumnSet))
    <3> HIDE DEF ts
    <3> QED BY <1>3, <2>2, <2>3, PartialFacts
  <2>5. ASSUME NEW m \in DOMAIN ts, NEW row \in data'[m]
        PROVE  /\ m \in kept /\ DOMAIN row = DOMAIN ts[m]
               /\ row \in Partial(FieldName, Type \cup {Null})
               /\ \E was \in data[m] : \A f \in DOMAIN row :
                    row[f] = IF f \in DOMAIN was THEN was[f] ELSE Null
    <3>1. m \in kept
      BY <1>5, <2>5
    <3>2. PICK was \in data[m] : row = Widen(was, columns'[m])
      BY <1>5, <2>5, <3>1
    <3>3. /\ DOMAIN row = DOMAIN columns'[m] /\ row = [f \in DOMAIN row |-> row[f]]
          /\ \A f \in DOMAIN row : row[f] = IF f \in DOMAIN was THEN was[f] ELSE Null
      BY <3>2 DEF Widen
    <3>4. was \in Partial(FieldName, Type \cup {Null})
      BY <1>1, <3>1, <3>2
    <3>5. \A f \in DOMAIN row : row[f] \in Type \cup {Null}
      BY <3>3, <3>4, PartialFacts
    <3>6. DOMAIN row \subseteq FieldName
      BY <2>2, <3>3, PartialFacts
    <3>7. row \in Partial(FieldName, Type \cup {Null})
      BY <3>3, <3>5, <3>6, PartialFacts
    <3> QED BY <2>2, <3>1, <3>2, <3>3, <3>7
  <2>6. SchemaTypeOK'
    <3>1. \A m \in DOMAIN data' : data'[m] \subseteq Partial(FieldName, Type \cup {Null})
      BY <2>3, <2>5
    <3>2. ASSUME NEW s \in serving', NEW m \in DOMAIN s
          PROVE  m \in Model /\ s[m] \in Partial(FieldName, Field)
      <4>1. CASE s = ts
        BY <1>3, <3>2, <4>1
      <4>2. CASE s # ts
        <5>1. PICK old \in serving : s = Only(old, kept)
          BY <1>5, <4>2
        <5>2. m \in DOMAIN old /\ s[m] = old[m]
          BY <3>2, <5>1 DEF Only
        <5> QED BY <5>1, <5>2 DEF SchemaInv, SchemaTypeOK
      <4> QED BY <4>1, <4>2
    <3>3. late' \subseteq Model /\ tightened' \subseteq Model \X FieldName
      BY <1>1, <1>5 DEF SchemaInv, SchemaTypeOK
    <3>4. DOMAIN data' = DOMAIN columns' /\ typeRows' \in Seq(MetaRow) /\ broken' \in BOOLEAN /\ migrating' \in BOOLEAN
      BY <1>1, <1>5, <2>3
    <3> QED BY <2>4, <3>1, <3>2, <3>3, <3>4 DEF SchemaTypeOK, ColumnSet
  <2>7. ModelsMatchTables'
    BY <1>1, <2>2, <2>3 DEF ModelsMatchTables
  <2>8. RowsHaveColumns'
    BY <2>2, <2>3, <2>5 DEF RowsHaveColumns
  <2>9. ServingInv'
    BY <1>5, <2>3 DEF ServingInv, Only
  <2>10. WillFit'
    <3> SUFFICES ASSUME NEW m \in DOMAIN ts \ late', NEW row \in data'[m], NEW f \in DOMAIN ts[m]
                 PROVE  ValueFits(IF f \in DOMAIN row THEN row[f] ELSE Null, ts[m][f], <<m, f>> \in tightened')
      BY <1>1 DEF WillFit
    <3>1. PICK was \in data[m] : \A g \in DOMAIN row : row[g] = IF g \in DOMAIN was THEN was[g] ELSE Null
      BY <2>5
    <3>2. m \in kept \ late /\ f \in DOMAIN row
      BY <1>5, <2>5
    <3>3. ValueFits(IF f \in DOMAIN was THEN was[f] ELSE Null, ts[m][f], <<m, f>> \in tightened)
      BY <1>1, <3>1, <3>2 DEF SchemaInv, WillFit
    <3> HIDE DEF ts
    <3> QED BY <1>1, <3>1, <3>2, <3>3 DEF ValueFits
  <2> QED BY <1>2, <2>6, <2>7, <2>8, <2>9, <2>10 DEF SchemaInv
<1>6. \/ broken' = TRUE /\ UNCHANGED <<columns, data, serving, late>>
      \/ /\ columns' = [m \in DOMAIN ts |-> alter_table(cols(m), ts[m])]
         /\ data' = [m \in DOMAIN ts |->
                        IF m \in kept THEN {Widen(row, columns'[m]) : row \in data[m]} ELSE {}]
         /\ serving' = {Only(old, kept) : old \in serving} \cup {ts}
         /\ late' = late \cap kept
         /\ broken' = broken
  BY DEF apply_delta
<1> QED BY <1>4, <1>5, <1>6

\* An instance ends.
LEMMA DrainKeeps ==
  ASSUME SchemaInv, NEW ts \in serving, drain(ts)
  PROVE  SchemaInv'
<1>1. /\ UNCHANGED <<typeRows, columns, data, migrating, broken, late, tightened>>
      /\ serving' \subseteq serving
  BY DEF drain
<1>2. SchemaTypeOK'
  BY <1>1 DEF SchemaInv, SchemaTypeOK
<1>3. ModelsMatchTables' /\ Distinct(typeRows)' /\ RefsKnown'
  BY <1>1 DEF SchemaInv, ModelsMatchTables, Distinct, RefsKnown
<1>4. RowsHaveColumns' /\ ServingInv'
  BY <1>1 DEF SchemaInv, RowsHaveColumns, ServingInv
<1>5. WillFit'
  BY <1>1 DEF SchemaInv, WillFit
<1> QED BY <1>2, <1>3, <1>4, <1>5 DEF SchemaInv

\* A row is stored, with the types of an instance that runs.
LEMMA StoreRowKeeps ==
  ASSUME SchemaInv, NEW ts \in serving, NEW m \in DOMAIN ts, NEW was \in data[m] \cup {NewRow(m)},
         NEW values \in Partial(DOMAIN ts[m], Type \cup {Null}), store_row(ts, m, was, values)
  PROVE  SchemaInv'
<1> DEFINE persisted == LoadedTypes(typeRows)
           row == Inserted(was, values)
<1>1. /\ broken = FALSE /\ data' = [data EXCEPT ![m] = @ \cup {row}]
      /\ UNCHANGED <<typeRows, columns, serving, migrating, broken, tightened>>
      /\ late' = IF m \in DOMAIN persisted /\ ts[m] = persisted[m] THEN late ELSE late \cup {m}
      /\ \A f \in DOMAIN ts[m] \ DOMAIN values : ts[m][f].optional
      /\ \A f \in DOMAIN values :
           /\ f \in DOMAIN columns[m]
           /\ IF values[f] = Null THEN ts[m][f].optional ELSE values[f] = ts[m][f].type
      /\ m \in DOMAIN columns /\ DOMAIN data = DOMAIN columns
  BY DEF store_row, SchemaInv, SchemaTypeOK, ServingInv
<1>2. /\ DOMAIN row = DOMAIN was /\ row = [f \in DOMAIN row |-> row[f]]
      /\ \A f \in DOMAIN row : row[f] = IF f \in DOMAIN values THEN values[f] ELSE was[f]
  BY DEF Inserted
<1> HIDE DEF row
<1>3. /\ DOMAIN data' = DOMAIN data /\ data'[m] = data[m] \cup {row}
      /\ \A k \in DOMAIN data : k # m => data'[k] = data[k]
  BY <1>1
<1>4. /\ DOMAIN was = DOMAIN columns[m]
      /\ was \in data[m] \/ \A f \in DOMAIN was : was[f] = Null
  BY <1>1 DEF NewRow, SchemaInv, RowsHaveColumns
<1>5. m \in Model /\ row \in Partial(FieldName, Type \cup {Null})
  <2>1. m \in Model /\ DOMAIN columns[m] \subseteq FieldName
    BY <1>1, ColumnFacts DEF SchemaInv
  <2>2. \A f \in DOMAIN was : was[f] \in Type \cup {Null}
    <3>1. CASE was \in data[m]
      <4>1. was \in Partial(FieldName, Type \cup {Null})
        BY <1>1, <3>1 DEF SchemaInv, SchemaTypeOK
      <4> QED BY <4>1, PartialFacts
    <3> QED BY <1>4, <3>1
  <2>3. \A f \in DOMAIN values : values[f] \in Type \cup {Null}
    BY PartialFacts
  <2>4. \A f \in DOMAIN row : row[f] \in Type \cup {Null}
    BY <1>2, <2>2, <2>3
  <2> QED BY <1>2, <1>4, <2>1, <2>4, PartialFacts
<1>6. SchemaTypeOK'
  BY <1>1, <1>3, <1>5 DEF SchemaInv, SchemaTypeOK
<1>7. RowsHaveColumns'
  BY <1>1, <1>2, <1>3, <1>4 DEF SchemaInv, RowsHaveColumns
<1>8. WillFit'
  <2>0. typeRows' = typeRows /\ columns' = columns /\ tightened' = tightened
    BY <1>1
  <2> SUFFICES ASSUME NEW k \in (DOMAIN persisted \cap DOMAIN columns) \ late', NEW r \in data'[k],
                      NEW f \in DOMAIN persisted[k]
               PROVE  ValueFits(IF f \in DOMAIN r THEN r[f] ELSE Null, persisted[k][f], <<k, f>> \in tightened)
    BY <2>0 DEF WillFit
  <2>1. CASE r \in data[k]
    BY <1>1, <2>1 DEF SchemaInv, WillFit
  <2>2. CASE r \notin data[k]
    <3>1. k = m /\ r = row /\ ts[m] = persisted[m] /\ m \notin late
      BY <1>1, <1>3, <2>2
    <3>2. CASE f \in DOMAIN values
      <4>1. f \in DOMAIN row /\ row[f] = values[f]
        BY <1>1, <1>2, <1>4, <3>2
      <4> HIDE DEF persisted
      <4> QED BY <1>1, <3>1, <3>2, <4>1 DEF ValueFits
    <3>3. CASE f \notin DOMAIN values
      <4>1. ts[m][f].optional
        BY <1>1, <3>1, <3>3
      <4>2. CASE was \in data[m]
        <5>1. ValueFits(IF f \in DOMAIN was THEN was[f] ELSE Null, persisted[m][f], <<m, f>> \in tightened)
          BY <1>1, <3>1, <4>2 DEF SchemaInv, WillFit
        <5> HIDE DEF persisted
        <5> QED BY <1>2, <3>1, <3>3, <5>1
      <4>3. CASE \A g \in DOMAIN was : was[g] = Null
        <5> HIDE DEF persisted
        <5> QED BY <1>2, <3>1, <3>3, <4>1, <4>3 DEF ValueFits
      <4> QED BY <1>4, <4>2, <4>3
    <3> QED BY <3>2, <3>3
  <2> QED BY <2>1, <2>2
<1>9. ModelsMatchTables' /\ Distinct(typeRows)' /\ RefsKnown' /\ ServingInv'
  BY <1>1 DEF SchemaInv, ModelsMatchTables, Distinct, RefsKnown, ServingInv
<1> QED BY <1>6, <1>7, <1>8, <1>9 DEF SchemaInv

\* Rows are deleted.
LEMMA DeleteRowKeeps ==
  ASSUME SchemaInv, NEW ts \in serving, NEW m \in DOMAIN ts, NEW row \in data[m],
         delete_row(m, row)
  PROVE  SchemaInv'
<1>1. /\ data' = [data EXCEPT ![m] = @ \ {row}] /\ broken = FALSE
      /\ late' = IF data'[m] = {} THEN late \ {m} ELSE late
      /\ UNCHANGED <<typeRows, columns, serving, migrating, broken, tightened>>
      /\ DOMAIN data = DOMAIN columns
  BY DEF delete_row, SchemaInv, SchemaTypeOK
<1>2. DOMAIN data' = DOMAIN data /\ \A k \in DOMAIN data : data'[k] \subseteq data[k]
  BY <1>1
<1>3. SchemaTypeOK'
  BY <1>1, <1>2 DEF SchemaInv, SchemaTypeOK
<1>4. RowsHaveColumns'
  BY <1>1, <1>2 DEF SchemaInv, RowsHaveColumns
<1>5. ModelsMatchTables' /\ Distinct(typeRows)' /\ RefsKnown' /\ ServingInv'
  BY <1>1 DEF SchemaInv, ModelsMatchTables, Distinct, RefsKnown, ServingInv
<1>6. WillFit'
  <2> DEFINE types == LoadedTypes(typeRows)
  <2>0. typeRows' = typeRows /\ columns' = columns /\ tightened' = tightened
    BY <1>1
  <2> SUFFICES ASSUME NEW k \in (DOMAIN types \cap DOMAIN columns) \ late', NEW r \in data'[k],
                      NEW f \in DOMAIN types[k]
               PROVE  ValueFits(IF f \in DOMAIN r THEN r[f] ELSE Null, types[k][f], <<k, f>> \in tightened)
    BY <2>0 DEF WillFit
  <2>1. k \notin late /\ r \in data[k]
    BY <1>1, <1>2
  <2> QED BY <1>1, <2>1 DEF SchemaInv, WillFit
<1> QED BY <1>3, <1>4, <1>5, <1>6 DEF SchemaInv

\* After any sequence of applies and stores, each table has the columns of its model,
\* and the rows that are there fit the types that were last persisted, or will fit
\* them once the tables are changed; each model has one row in the meta tables, and
\* refers to models that have one.
THEOREM SchemaInvariance == SchemaSpec => []SchemaInv
<1>1. ASSUME SchemaInv, [SchemaNext]_schemaVars
      PROVE  SchemaInv'
  <2>1. CASE SchemaNext
    BY <1>1, <2>1, ApplyMetaKeeps, ApplyTablesKeeps, DrainKeeps, StoreRowKeeps, DeleteRowKeeps DEF SchemaNext
  <2>2. CASE UNCHANGED schemaVars
    <3>1. SchemaTypeOK'
      BY <1>1, <2>2 DEF schemaVars, SchemaInv, SchemaTypeOK
    <3>2. ModelsMatchTables' /\ Distinct(typeRows)' /\ RefsKnown'
      BY <1>1, <2>2 DEF schemaVars, SchemaInv, ModelsMatchTables, Distinct, RefsKnown
    <3>3. RowsHaveColumns' /\ ServingInv'
      BY <1>1, <2>2 DEF schemaVars, SchemaInv, RowsHaveColumns, ServingInv
    <3>4. WillFit'
      BY <1>1, <2>2 DEF schemaVars, SchemaInv, WillFit
    <3> QED BY <3>1, <3>2, <3>3, <3>4 DEF SchemaInv
  <2> QED BY <1>1, <2>1, <2>2
<1> QED BY <1>1, SchemaInitInv, PTL DEF SchemaSpec

-----------------------------------------------------------------------------
(* load_type_systems                                                       *)

\* The value of the function in FirstPass at i, from its value before.
PassAt(rows, ts, i) == IF i = 0 THEN {} ELSE load_type_fields(ts[i - 1], rows[i])

\* The function in FirstPass exists.
LEMMA PassExists ==
  ASSUME NEW rows, NEW n \in Nat
  PROVE  \E ts : ts = [i \in 0 .. n |-> PassAt(rows, ts, i)]
<1> DEFINE Exists(k) == \E ts : ts = [i \in 0 .. k |-> PassAt(rows, ts, i)]
           bad == {k \in Nat : ~Exists(k)}
<1>1. Exists(0)
  <2> DEFINE f == [i \in 0 .. 0 |-> {}]
  <2>1. f = [i \in 0 .. 0 |-> PassAt(rows, f, i)]
    BY DEF PassAt
  <2> QED BY <2>1
<1>2. ASSUME NEW k \in Nat \ {0}, Exists(k - 1)
      PROVE  Exists(k)
  <2>1. PICK g : g = [i \in 0 .. k - 1 |-> PassAt(rows, g, i)]
    BY <1>2
  <2> DEFINE h == [i \in 0 .. k |-> IF i = k THEN PassAt(rows, g, k) ELSE g[i]]
  <2>2. \A i \in 0 .. k : i # 0 => h[i - 1] = g[i - 1]
    OBVIOUS
  <2>3. \A i \in 0 .. k : PassAt(rows, h, i) = PassAt(rows, g, i)
    <3> HIDE DEF h
    <3> QED BY <2>2 DEF PassAt
  <2>4. \A i \in 0 .. k : i # k => g[i] = PassAt(rows, g, i)
    BY <2>1
  <2>5. \A i \in 0 .. k : h[i] = PassAt(rows, h, i)
    BY <2>3, <2>4
  <2>6. h = [i \in 0 .. k |-> PassAt(rows, h, i)]
    BY <2>5
  <2> HIDE DEF h
  <2> QED BY <2>6
<1> HIDE DEF Exists
<1>3. ASSUME bad # {}
      PROVE  FALSE
  <2>1. PICK k \in bad : \A j \in bad : k <= j
    BY <1>3, LeastNat
  <2>2. k \in Nat \ {0} /\ k - 1 \in Nat
    BY <1>1
  <2>3. Exists(k - 1)
    BY <2>1, <2>2
  <2> QED BY <1>2, <2>2, <2>3
<1>4. Exists(n)
  BY <1>3
<1> QED BY <1>4 DEF Exists

\* What is loaded after i rows: some of them, those whose references were loaded
\* when their turn came; and nothing is unloaded.
Passed(rows, ts, i) ==
  /\ ts[i] \subseteq {rows[j].name : j \in 1 .. i}
  /\ \A j \in 1 .. i : rows[j].name \in ts[i] <=> Refs(rows[j].fields) \subseteq ts[j - 1]
  /\ \A j \in 0 .. i : ts[j] \subseteq ts[i]

\* One more row.
LEMMA PassedStep ==
  ASSUME NEW rows, NEW n \in Nat, DOMAIN rows = 1 .. n, Distinct(rows), NEW ts,
         NEW i \in 1 .. n, Passed(rows, ts, i - 1),
         ts[i] = load_type_fields(ts[i - 1], rows[i])
  PROVE  Passed(rows, ts, i)
<1>1. /\ i \in Nat /\ i - 1 \in Nat /\ 1 .. i = (1 .. i - 1) \cup {i} /\ i \notin 1 .. i - 1
      /\ 0 .. i = (0 .. i - 1) \cup {i}
  OBVIOUS
<1>2. /\ ts[i - 1] \subseteq {rows[j].name : j \in 1 .. i - 1}
      /\ \A j \in 1 .. i - 1 : rows[j].name \in ts[i - 1] <=> Refs(rows[j].fields) \subseteq ts[j - 1]
      /\ \A j \in 0 .. i - 1 : ts[j] \subseteq ts[i - 1]
  BY DEF Passed
<1>3. \A j \in 1 .. i - 1 : rows[j].name # rows[i].name
  BY DEF Distinct
<1>4. rows[i].name \notin ts[i - 1]
  BY <1>2, <1>3
<1>5. /\ Refs(rows[i].fields) \subseteq ts[i - 1] => ts[i] = ts[i - 1] \cup {rows[i].name}
      /\ ~(Refs(rows[i].fields) \subseteq ts[i - 1]) => ts[i] = ts[i - 1]
  BY DEF load_type_fields
<1>6. ts[i] \subseteq {rows[j].name : j \in 1 .. i}
  BY <1>1, <1>2, <1>5
<1>7. \A j \in 1 .. i : rows[j].name \in ts[i] <=> Refs(rows[j].fields) \subseteq ts[j - 1]
  <2>1. rows[i].name \in ts[i] <=> Refs(rows[i].fields) \subseteq ts[i - 1]
    BY <1>4, <1>5
  <2>2. \A j \in 1 .. i - 1 : rows[j].name \in ts[i] <=> rows[j].name \in ts[i - 1]
    BY <1>3, <1>5
  <2> QED BY <1>1, <1>2, <2>1, <2>2
<1>8. \A j \in 0 .. i : ts[j] \subseteq ts[i]
  BY <1>1, <1>2, <1>5
<1> QED BY <1>6, <1>7, <1>8 DEF Passed

Loaded(k) == typeRows[k].name \in FirstPass(typeRows)

\* The first pass loads the models all of whose references are to earlier models
\* that it loads.
LEMMA FirstPassFacts ==
  ASSUME SchemaInv, NEW k \in DOMAIN typeRows
  PROVE  Loaded(k) <=> \A j \in DOMAIN typeRows : RefersTo(k, j) => j < k /\ Loaded(j)
<1> DEFINE rows == typeRows
           n == Len(rows)
           ts == CHOOSE ts : ts = [i \in 0 .. Len(rows) |-> PassAt(rows, ts, i)]
           bad == {i \in 0 .. n : ~Passed(rows, ts, i)}
<1>1. Len(rows) \in Nat /\ DOMAIN rows = 1 .. Len(rows) /\ Distinct(rows)
  BY LenProperties DEF SchemaInv, SchemaTypeOK
<1>2. FirstPass(rows) = ts[Len(rows)]
  BY DEF FirstPass, PassAt
<1>3. ts = [i \in 0 .. Len(rows) |-> PassAt(rows, ts, i)]
  BY <1>1, PassExists
<1> HIDE DEF ts
<1>4. \A i \in 0 .. n : ts[i] = PassAt(rows, ts, i)
  BY <1>3
<1> HIDE DEF n
<1>n. n \in Nat /\ DOMAIN rows = 1 .. n /\ FirstPass(rows) = ts[n]
  BY <1>1, <1>2 DEF n
<1>5. Passed(rows, ts, 0)
  <2>1. ts[0] = {}
    BY <1>4, <1>n DEF PassAt
  <2> QED BY <2>1 DEF Passed
<1>6. ASSUME bad # {}
      PROVE  FALSE
  <2>0. bad \subseteq Nat
    BY <1>n
  <2>1. PICK i \in bad : \A j \in bad : i <= j
    <3> HIDE DEF bad
    <3> QED BY <1>6, <2>0, LeastNat
  <2>2. i \in 1 .. n /\ i - 1 \in 0 .. n
    BY <1>n, <1>5
  <2>3. Passed(rows, ts, i - 1)
    BY <1>n, <2>1, <2>2
  <2>4. ts[i] = load_type_fields(ts[i - 1], rows[i])
    BY <1>n, <1>4, <2>2 DEF PassAt
  <2> QED BY <1>1, <1>n, <2>2, <2>3, <2>4, PassedStep
<1>7. \A i \in 0 .. n : Passed(rows, ts, i)
  BY <1>6
<1>8. k \in 1 .. n /\ k - 1 \in 0 .. n /\ n \in 0 .. n
  BY <1>n
<1>9. Loaded(k) <=> Refs(rows[k].fields) \subseteq ts[k - 1]
  BY <1>n, <1>7, <1>8 DEF Passed, Loaded
<1>10. \A j \in 1 .. k - 1 : rows[j].name \in ts[k - 1] <=> Loaded(j)
  BY <1>n, <1>7, <1>8 DEF Passed, Loaded
<1>11. ts[k - 1] \subseteq {rows[j].name : j \in 1 .. k - 1}
  BY <1>7, <1>8 DEF Passed
<1>12. Refs(rows[k].fields) \subseteq {rows[j].name : j \in DOMAIN rows}
  BY DEF SchemaInv, RefsKnown
<1>13. \A j \in DOMAIN rows : RefersTo(k, j) <=> rows[j].name \in Refs(rows[k].fields)
  BY DEF RefersTo
<1>14. \A i, j \in DOMAIN rows : rows[i].name = rows[j].name => i = j
  BY <1>1 DEF Distinct
<1>15. ASSUME Loaded(k), NEW j \in DOMAIN rows, RefersTo(k, j)
       PROVE  j < k /\ Loaded(j)
  <2>1. rows[j].name \in ts[k - 1]
    BY <1>9, <1>13, <1>15
  <2>2. PICK i \in 1 .. k - 1 : rows[i].name = rows[j].name
    BY <1>11, <2>1
  <2>3. i = j
    BY <1>n, <1>8, <1>14, <2>2
  <2> QED BY <1>8, <1>10, <2>1, <2>2, <2>3
<1>16. ASSUME \A j \in DOMAIN rows : RefersTo(k, j) => j < k /\ Loaded(j)
       PROVE  Loaded(k)
  <2> SUFFICES ASSUME NEW r \in Refs(rows[k].fields) PROVE r \in ts[k - 1]
    BY <1>9
  <2>1. PICK j \in DOMAIN rows : r = rows[j].name
    BY <1>12
  <2>2. j < k /\ Loaded(j)
    BY <1>13, <1>16, <2>1
  <2>3. j \in 1 .. k - 1
    BY <1>n, <1>8, <2>2
  <2> QED BY <1>10, <2>1, <2>2, <2>3
<1> QED BY <1>15, <1>16

\* What it does not load depends on a model that refers to a later one.
LEMMA FailedFacts ==
  ASSUME SchemaInv, NEW j \in DOMAIN typeRows
  PROVE  ~Loaded(j) <=> \E k, l \in DOMAIN typeRows : DependsOn(j, k) /\ Later(k, l)
<1> DEFINE D == DOMAIN typeRows
           Chain(i) == \E k, l \in D : DependsOn(i, k) /\ Later(k, l)
           bad == {i \in D : ~Loaded(i) /\ ~Chain(i)}
<1>1. D \subseteq Nat
  BY LenProperties DEF SchemaInv, SchemaTypeOK
<1>2. \A i \in D : Loaded(i) <=> \A r \in D : RefersTo(i, r) => r < i /\ Loaded(r)
  BY FirstPassFacts
<1>3. \A i \in D : ~RefersTo(i, i)
  BY DEF SchemaInv, RefsKnown, RefersTo, Distinct
<1>4. \A i \in D : DependsOn(i, i)
  BY DEF DependsOn
<1>5. \A i, r, k \in D : RefersTo(i, r) /\ DependsOn(r, k) => DependsOn(i, k)
  BY DEF DependsOn, ClosedUnder
<1>6. ASSUME Chain(j)
      PROVE  ~Loaded(j)
  <2>1. PICK k \in D, l \in D : DependsOn(j, k) /\ Later(k, l)
    BY <1>6
  <2> DEFINE S == {i \in D : Loaded(i)}
  <2>2. ClosedUnder(S)
    BY <1>2 DEF ClosedUnder
  <2>3. k \notin S
    <3>1. k < l /\ RefersTo(k, l) /\ k \in Nat /\ l \in Nat
      BY <1>1, <2>1 DEF Later
    <3>2. ~(l < k)
      BY <3>1
    <3> QED BY <1>2, <3>1, <3>2
  <2>4. S \in SUBSET D
    OBVIOUS
  <2> HIDE DEF S
  <2>5. j \notin S
    BY <2>1, <2>2, <2>3, <2>4 DEF DependsOn
  <2> QED BY <2>5 DEF S
<1>7. ASSUME bad # {}
      PROVE  FALSE
  <2>0. bad \subseteq Nat
    BY <1>1
  <2>1. PICK i \in bad : \A m \in bad : i <= m
    <3> HIDE DEF bad
    <3> QED BY <1>7, <2>0, LeastNat
  <2>2. i \in D /\ i \in Nat /\ ~Loaded(i) /\ ~Chain(i)
    BY <1>1
  <2>3. PICK r \in D : RefersTo(i, r) /\ ~(r < i /\ Loaded(r))
    BY <1>2, <2>2
  <2>4. r \in Nat /\ r # i
    BY <1>1, <1>3, <2>3
  <2>5. CASE i < r
    BY <1>4, <2>2, <2>3, <2>5 DEF Later
  <2>6. CASE r < i
    <3>1. ~Loaded(r)
      BY <2>3, <2>6
    <3>2. r \notin bad
      BY <2>1, <2>2, <2>4, <2>6
    <3>3. Chain(r)
      BY <3>1, <3>2
    <3>4. PICK k \in D, l \in D : DependsOn(r, k) /\ Later(k, l)
      BY <3>3
    <3>5. DependsOn(i, k)
      BY <1>5, <2>2, <2>3, <3>4
    <3> QED BY <2>2, <3>4, <3>5
  <2> QED BY <2>2, <2>4, <2>5, <2>6
<1> QED BY <1>6, <1>7

\* meta/mod.rs 522-531: for any number of models inserted in any order, two passes
\* load the type system if and only if there is no chain of a reference to a later
\* model that depends on one that refers to a later model in turn.
THEOREM SecondPassEnough == SchemaSpec => []LoadsUnlessChained
<1>1. ASSUME SchemaInv
      PROVE  LoadsUnlessChained
  <2> DEFINE D == DOMAIN typeRows
  <2>1. D \subseteq Nat /\ \A k \in D : \A j \in D : j < k <=> j \in 1 .. k - 1
    BY <1>1, LenProperties DEF SchemaInv, SchemaTypeOK
  <2>2. \A k \in D : 1 .. k - 1 \subseteq D
    BY <1>1, LenProperties DEF SchemaInv, SchemaTypeOK
  <2>3. \A k \in D : Refs(typeRows[k].fields) \subseteq {typeRows[j].name : j \in D \ {k}}
    BY <1>1 DEF SchemaInv, RefsKnown
  <2>4. \A i, j \in D : typeRows[i].name = typeRows[j].name => i = j
    BY <1>1 DEF SchemaInv, Distinct
  <2>5. \A k, j \in D : Later(k, j) => ~Loaded(k)
    <3> SUFFICES ASSUME NEW k \in D, NEW j \in D, Later(k, j), Loaded(k) PROVE FALSE
      OBVIOUS
    <3>1. RefersTo(k, j) /\ k < j
      BY DEF Later
    <3>2. j < k
      BY <1>1, <3>1, FirstPassFacts
    <3> QED BY <2>1, <3>1, <3>2
  <2>6. Loads(typeRows) <=> \A k \in D : ~Loaded(k) =>
          Refs(typeRows[k].fields) \subseteq FirstPass(typeRows) \cup {typeRows[j].name : j \in 1 .. k - 1}
    BY DEF Loads, Loaded
  <2>7. ASSUME NEW i \in D, NEW j \in D, Later(i, j), ~Loaded(j), Loads(typeRows)
        PROVE  FALSE
    <3>1. /\ ~Loaded(i) /\ i < j
          /\ typeRows[j].name \in Refs(typeRows[i].fields)
      BY <2>5, <2>7 DEF Later, RefersTo
    <3>2. typeRows[j].name \in {typeRows[m].name : m \in 1 .. i - 1}
      BY <2>6, <2>7, <3>1 DEF Loaded
    <3>3. PICK m \in 1 .. i - 1 : typeRows[m].name = typeRows[j].name
      BY <3>2
    <3>4. m = j
      BY <2>2, <2>4, <3>3
    <3> QED BY <2>1, <3>1, <3>4
  <2>8. ASSUME \A i, j \in D : Later(i, j) => Loaded(j)
        PROVE  Loads(typeRows)
    <3> SUFFICES ASSUME NEW k \in D, ~Loaded(k), NEW r \in Refs(typeRows[k].fields)
                 PROVE  r \in FirstPass(typeRows) \cup {typeRows[j].name : j \in 1 .. k - 1}
      BY <2>6
    <3>1. PICK j \in D \ {k} : r = typeRows[j].name
      BY <2>3
    <3>2. CASE j < k
      BY <2>1, <3>1, <3>2
    <3>3. CASE k < j
      <4>1. Later(k, j)
        BY <3>1, <3>3 DEF Later, RefersTo
      <4> QED BY <2>8, <3>1, <4>1 DEF Loaded
    <3> QED BY <2>1, <3>1, <3>2, <3>3
  <2>9. \A j \in D : ~Loaded(j) <=> \E k, l \in D : DependsOn(j, k) /\ Later(k, l)
    BY <1>1, FailedFacts
  <2> QED BY <2>7, <2>8, <2>9 DEF LoadsUnlessChained
<1> QED BY <1>1, SchemaInvariance, PTL

\* apply.rs 268-283, engine.rs 287-353: after any sequence of applies the backing
\* tables are those of the models, with a column for each field and no other.
THEOREM TablesMatch == SchemaSpec => []ModelsMatchTables
<1>1. SchemaInv => ModelsMatchTables
  BY DEF SchemaInv
<1> QED BY <1>1, SchemaInvariance, PTL

\* type_system.rs 49-157, rpc.rs 199: after any sequence of accepted changes, with
\* instances of any earlier types still storing, the rows can be read with the newest
\* types: a value has the type of its field, and a null is in a field that is
\* optional, has a default, or was made required over rows that may hold nulls.  Only
\* models into which an instance stored with other types are excepted.
THEOREM StoredFitsTypes == SchemaSpec => []DataFits
<1>1. ASSUME SchemaInv
      PROVE  DataFits
  <2> DEFINE ts == LoadedTypes(typeRows)
  <2> SUFFICES ASSUME ~broken, ~migrating, NEW m \in DOMAIN ts \ late, NEW row \in data[m],
                      NEW f \in DOMAIN row
               PROVE  ValueFits(row[f], ts[m][f], <<m, f>> \in tightened)
    BY DEF DataFits
  <2>1. m \in DOMAIN columns /\ DOMAIN columns[m] = DOMAIN ts[m] /\ m \in DOMAIN data
    BY <1>1 DEF SchemaInv, SchemaTypeOK, ModelsMatchTables
  <2>2. f \in DOMAIN ts[m]
    BY <1>1, <2>1 DEF SchemaInv, RowsHaveColumns
  <2> QED BY <1>1, <2>1, <2>2 DEF SchemaInv, WillFit
<1> QED BY <1>1, SchemaInvariance, PTL
=============================================================================
