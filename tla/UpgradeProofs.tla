--------------------------- MODULE UpgradeProofs ---------------------------
(* The safety properties of Populate and MetaMigration, which bring data   *)
(* to a new version of the models and of the server.  They are proved for  *)
(* all versions of all models, all rows and any number of requests that    *)
(* store rows meanwhile; and for all sets of sources, however often starts *)
(* are interrupted.                                                        *)
EXTENDS Populate, MetaMigration, TLAPS

-----------------------------------------------------------------------------
(* Populate: rows.                                                         *)

\* There is nothing in an empty table, row or set of models.
LEMMA NothingInEmpty == DOMAIN Empty = {}
BY DEF Empty

\* A row that fits still does when a row that fits is upserted into it.
LEMMA UpsertFits ==
  ASSUME NEW fields, NEW table, NEW id, NEW row, Fits(fields, row),
         id \in DOMAIN table => Fits(fields, table[id])
  PROVE  Fits(fields, Upsert(table, id, row)[id])
<1> DEFINE new == Upsert(table, id, row)[id]
<1>1. CASE id \notin DOMAIN table
  BY <1>1 DEF Upsert
<1>2. CASE id \in DOMAIN table
  <2>1. /\ DOMAIN new = DOMAIN table[id] \cup DOMAIN row
        /\ \A f \in DOMAIN row : new[f] = row[f]
        /\ \A f \in DOMAIN table[id] \ DOMAIN row : new[f] = table[id][f]
    BY <1>2 DEF Upsert
  <2> HIDE DEF new
  <2>2. row_is_readable(fields, new)
    BY <2>1 DEF Fits, row_is_readable
  <2>3. \A f \in DOMAIN new : f \in DOMAIN fields /\ new[f].type = fields[f].type
    BY <1>2, <2>1 DEF Fits
  <2>4. Fits(fields, new)
    BY <2>2, <2>3 DEF Fits
  <2> QED BY <2>4 DEF new
<1> QED BY <1>1, <1>2

\* The rows that requests store fit.
LEMMA StoredFits ==
  ASSUME NEW fields, NEW origin, NEW row \in PRows(fields, origin)
  PROVE  Fits(fields, row) /\ \A f \in DOMAIN row : row[f].origin = origin
<1>1. PICK F \in SUBSET DOMAIN fields :
        /\ \A f \in DOMAIN fields : fields[f].optional \/ f \in F
        /\ row = [f \in F |-> PValue(fields[f].type, origin)]
  BY DEF PRows
<1> QED BY <1>1 DEF Fits, row_is_readable, PValue

\* What prepare_insertion_shallow makes of a row fits, and has what was read.
LEMMA InsertedFits ==
  ASSUME NEW fields, NEW row, prepare_insertion_shallow(fields, row).ok
  PROVE  LET args == prepare_insertion_shallow(fields, row).args
         IN Fits(fields, args) /\ Carries(args, row)
<1> DEFINE given == {f \in DOMAIN fields : f \in DOMAIN row \/ ~fields[f].optional}
           args == prepare_insertion_shallow(fields, row).args
<1>1. args = [f \in given |-> IF f \in DOMAIN row THEN row[f] ELSE PValue(fields[f].type, "default")]
  BY DEF prepare_insertion_shallow
<1>2. /\ \A f \in given : f \in DOMAIN row => row[f].type = fields[f].type
      /\ DOMAIN row \subseteq given
  BY DEF prepare_insertion_shallow
<1>3. DOMAIN args = given
  BY <1>1
<1>4. \A f \in given : args[f] = IF f \in DOMAIN row THEN row[f] ELSE PValue(fields[f].type, "default")
  BY <1>1
<1>5. \A f \in given : f \in DOMAIN fields
  OBVIOUS
<1>6. \A f \in DOMAIN fields : fields[f].optional \/ f \in given
  OBVIOUS
<1> HIDE DEF args, given
<1>7. Carries(args, row)
  BY <1>2, <1>3, <1>4 DEF Carries
<1>8. Fits(fields, args)
  BY <1>2, <1>3, <1>4, <1>5, <1>6 DEF Fits, row_is_readable, PValue
<1> QED BY <1>7, <1>8 DEF args

-----------------------------------------------------------------------------
(* Invariance.                                                             *)

\* The next row is written, or the transaction is dropped.
LEMMA AddRowKeeps ==
  ASSUME PopulateInv, NEW id \in PId, add_row_shallow(id)
  PROVE  PopulateInv'
<1> DEFINE fields == pver.to[pmodel]
           insert == prepare_insertion_shallow(fields, pstream[id])
<1>1. /\ ppc = "copy" /\ id \in DOMAIN pstream /\ id \notin DOMAIN pbuf
      /\ UNCHANGED <<pver, ptable, pmodel, pstream, pdone, pstores>>
  BY DEF add_row_shallow
<1>2. \/ insert.ok /\ pbuf' = Upsert(pbuf, id, insert.args) /\ ppc' = ppc
      \/ ppc' = "failed" /\ pbuf' = Empty
  BY DEF add_row_shallow
<1>3. BufferInv'
  <2>1. CASE ppc' = "failed" /\ pbuf' = Empty
    BY <2>1, NothingInEmpty DEF BufferInv
  <2>2. CASE insert.ok /\ pbuf' = Upsert(pbuf, id, insert.args) /\ ppc' = ppc
    <3>1. Fits(fields, insert.args) /\ Carries(insert.args, pstream[id])
      BY <2>2, InsertedFits
    <3>2. /\ DOMAIN pbuf' = DOMAIN pbuf \cup {id} /\ pbuf'[id] = insert.args
          /\ \A i \in DOMAIN pbuf : i # id => pbuf'[i] = pbuf[i]
      BY <1>1, <2>2 DEF Upsert
    <3> HIDE DEF insert
    <3>3. \A i \in DOMAIN pbuf' : /\ i \in DOMAIN pstream
                                  /\ Fits(fields, pbuf'[i]) /\ Carries(pbuf'[i], pstream[i])
      BY <1>1, <3>1, <3>2 DEF PopulateInv, BufferInv
    <3> QED BY <1>1, <2>2, <3>3 DEF PopulateInv, BufferInv
  <2> QED BY <1>2, <2>1, <2>2
<1>4. VersionsInv'
  BY <1>1, <1>2, NothingInEmpty DEF PopulateInv, VersionsInv
<1>5. CopiedModelsAreComplete' /\ CopiesAreReadable'
  BY <1>1 DEF PopulateInv, CopiedModelsAreComplete, CopiesAreReadable
<1> QED BY <1>3, <1>4, <1>5 DEF PopulateInv

\* The rows that were written are committed together.
LEMMA CommitKeeps ==
  ASSUME PopulateInv, populate_commit
  PROVE  PopulateInv'
<1> DEFINE old == ptable.to[pmodel]
           new == ptable'.to[pmodel]
<1>1. /\ ppc = "copy" /\ DOMAIN pbuf = DOMAIN pstream /\ ppc' = "models" /\ pbuf' = Empty
      /\ pdone' = [m \in DOMAIN pdone \cup {pmodel} |-> IF m = pmodel THEN pstream ELSE pdone[m]]
      /\ pver' = pver /\ pmodel' = pmodel
  BY DEF populate_commit
<1>2. pmodel \in DOMAIN pver.to /\ pmodel \in PModel /\ pver.from # Empty
  BY <1>1 DEF PopulateInv, BufferInv, VersionsInv
<1>3. ptable' = [ptable EXCEPT !.to[pmodel] =
                   [i \in DOMAIN old \cup DOMAIN pbuf |->
                      IF i \in DOMAIN pbuf THEN Upsert(old, i, pbuf[i])[i] ELSE old[i]]]
  BY DEF populate_commit
<1>4. /\ ptable' = [from |-> ptable'.from, to |-> ptable'.to]
      /\ ptable'.to = [m \in PModel |-> ptable'.to[m]]
      /\ \A m \in PModel : m # pmodel => ptable'.to[m] = ptable.to[m]
      /\ new = [i \in DOMAIN old \cup DOMAIN pbuf |->
                  IF i \in DOMAIN pbuf THEN Upsert(old, i, pbuf[i])[i] ELSE old[i]]
  BY <1>2, <1>3 DEF PopulateInv, VersionsInv
<1>5. /\ DOMAIN new = DOMAIN old \cup DOMAIN pbuf
      /\ \A i \in DOMAIN pbuf : new[i] = Upsert(old, i, pbuf[i])[i]
      /\ \A i \in DOMAIN old \ DOMAIN pbuf : new[i] = old[i]
  BY <1>4
<1> HIDE DEF old, new
<1>6. BufferInv'
  BY <1>1, NothingInEmpty DEF BufferInv
<1>7. VersionsInv'
  BY <1>1, <1>2, <1>4 DEF PopulateInv, VersionsInv
<1>8. CopiedModelsAreComplete'
  <2> SUFFICES ASSUME NEW m \in DOMAIN pdone', NEW i \in DOMAIN pdone'[m]
               PROVE  /\ i \in DOMAIN ptable'.to[m]
                      /\ \A f \in DOMAIN pdone'[m][i] :
                           f \in DOMAIN ptable'.to[m][i] =>
                             \/ ptable'.to[m][i][f] = pdone'[m][i][f]
                             \/ ptable'.to[m][i][f].origin = "edited"
    BY DEF CopiedModelsAreComplete
  <2>1. CASE m = pmodel
    <3>1. pdone'[m] = pstream /\ i \in DOMAIN pbuf
      BY <1>1, <2>1
    <3>2. Carries(pbuf[i], pstream[i])
      BY <3>1 DEF PopulateInv, BufferInv
    <3>3. \A f \in DOMAIN pbuf[i] : new[i][f] = pbuf[i][f]
      <4>1. new[i] = Upsert(old, i, pbuf[i])[i]
        BY <1>5, <3>1
      <4> QED BY <4>1 DEF Upsert
    <3> QED BY <1>5, <2>1, <3>1, <3>2, <3>3 DEF Carries, new
  <2>2. CASE m # pmodel
    <3>1. m \in DOMAIN pdone /\ pdone'[m] = pdone[m] /\ m \in PModel
      BY <1>1, <2>2 DEF PopulateInv, VersionsInv
    <3> QED BY <1>4, <2>2, <3>1 DEF PopulateInv, CopiedModelsAreComplete
  <2> QED BY <2>1, <2>2
<1>9. CopiesAreReadable'
  <2> SUFFICES ASSUME NEW m \in DOMAIN pver.to, NEW i \in DOMAIN ptable'.to[m]
               PROVE  Fits(pver.to[m], ptable'.to[m][i])
    BY <1>1 DEF CopiesAreReadable
  <2>1. CASE m = pmodel
    <3>1. i \in DOMAIN old => Fits(pver.to[m], old[i])
      BY <1>2, <2>1 DEF PopulateInv, CopiesAreReadable, old
    <3>2. i \in DOMAIN pbuf => Fits(pver.to[m], pbuf[i])
      BY <2>1 DEF PopulateInv, BufferInv
    <3>3. i \in DOMAIN pbuf => Fits(pver.to[m], Upsert(old, i, pbuf[i])[i])
      BY <3>1, <3>2, UpsertFits
    <3> QED BY <1>5, <2>1, <3>1, <3>3 DEF new
  <2>2. CASE m # pmodel
    BY <1>4, <2>2 DEF PopulateInv, VersionsInv, CopiesAreReadable
  <2> QED BY <2>1, <2>2
<1> QED BY <1>6, <1>7, <1>8, <1>9 DEF PopulateInv

\* A request stores a row, in either version, at any time.
LEMMA StoreKeeps ==
  ASSUME PopulateInv, NEW side \in {"from", "to"}, NEW m \in PModel, NEW id \in PId,
         p_store(side, m, id)
  PROVE  PopulateInv'
<1>1. /\ pver.from # Empty /\ m \in DOMAIN pver[side]
      /\ UNCHANGED <<pver, ppc, pmodel, pstream, pbuf, pdone>>
  BY DEF p_store
<1>2. PICK row \in PRows(pver[side][m], IF side = "to" THEN "edited" ELSE "source2") :
        ptable' = [ptable EXCEPT ![side][m] = Upsert(@, id, row)]
  BY DEF p_store
<1>3. ptable = [from |-> ptable.from, to |-> ptable.to] /\ ptable.to = [k \in PModel |-> ptable.to[k]]
  BY DEF PopulateInv, VersionsInv
<1>4. BufferInv'
  BY <1>1 DEF PopulateInv, BufferInv
<1>5. CASE side = "from"
  <2>1. ptable' = [from |-> ptable'.from, to |-> ptable'.to] /\ ptable'.to = ptable.to
    BY <1>2, <1>3, <1>5
  <2> QED BY <1>1, <1>4, <2>1
          DEF PopulateInv, VersionsInv, CopiedModelsAreComplete, CopiesAreReadable
<1>6. CASE side = "to"
  <2> DEFINE old == ptable.to[m]
             new == Upsert(old, id, row)
  <2>1. /\ ptable' = [from |-> ptable'.from, to |-> ptable'.to]
        /\ ptable'.to = [k \in PModel |-> ptable'.to[k]]
        /\ ptable'.to[m] = new
        /\ \A k \in PModel : k # m => ptable'.to[k] = ptable.to[k]
    BY <1>2, <1>3, <1>6
  <2>2. row \in PRows(pver.to[m], "edited") /\ m \in DOMAIN pver.to
    BY <1>1, <1>2, <1>6
  <2>3. Fits(pver.to[m], row) /\ \A f \in DOMAIN row : row[f].origin = "edited"
    BY <2>2, StoredFits
  <2>4. DOMAIN new = DOMAIN old \cup {id} /\ \A i \in DOMAIN old : i # id => new[i] = old[i]
    BY DEF Upsert
  <2>5. \A f \in DOMAIN new[id] :
           \/ new[id][f].origin = "edited"
           \/ (id \in DOMAIN old /\ f \in DOMAIN old[id] /\ new[id][f] = old[id][f])
    <3>1. CASE id \notin DOMAIN old
      <4>1. new[id] = row
        BY <3>1 DEF Upsert
      <4> QED BY <2>3, <4>1
    <3>2. CASE id \in DOMAIN old
      <4>1. /\ DOMAIN new[id] = DOMAIN old[id] \cup DOMAIN row
            /\ \A f \in DOMAIN row : new[id][f] = row[f]
            /\ \A f \in DOMAIN old[id] \ DOMAIN row : new[id][f] = old[id][f]
        BY <3>2 DEF Upsert
      <4> HIDE DEF new
      <4> QED BY <2>3, <3>2, <4>1
    <3> QED BY <3>1, <3>2
  <2>6. \A i \in DOMAIN new : Fits(pver.to[m], new[i])
    <3>1. \A i \in DOMAIN old : Fits(pver.to[m], old[i])
      BY <2>2 DEF PopulateInv, CopiesAreReadable
    <3>2. Fits(pver.to[m], new[id])
      BY <2>3, <3>1, UpsertFits
    <3> HIDE DEF new, old
    <3> QED BY <2>4, <3>1, <3>2
  <2> HIDE DEF new
  <2>7. CopiesAreReadable'
    <3> SUFFICES ASSUME NEW k \in DOMAIN pver.to, NEW i \in DOMAIN ptable'.to[k]
                 PROVE  Fits(pver.to[k], ptable'.to[k][i])
      BY <1>1 DEF CopiesAreReadable
    <3>1. CASE k = m
      BY <2>1, <2>6, <3>1
    <3>2. CASE k # m
      BY <2>1, <3>2 DEF PopulateInv, VersionsInv, CopiesAreReadable
    <3> QED BY <3>1, <3>2
  <2>8. CopiedModelsAreComplete'
    <3> SUFFICES ASSUME NEW k \in DOMAIN pdone, NEW i \in DOMAIN pdone[k]
                 PROVE  /\ i \in DOMAIN ptable'.to[k]
                        /\ \A f \in DOMAIN pdone[k][i] :
                             f \in DOMAIN ptable'.to[k][i] =>
                               \/ ptable'.to[k][i][f] = pdone[k][i][f]
                               \/ ptable'.to[k][i][f].origin = "edited"
      BY <1>1 DEF CopiedModelsAreComplete
    <3>0. /\ i \in DOMAIN ptable.to[k]
          /\ \A f \in DOMAIN pdone[k][i] :
               f \in DOMAIN ptable.to[k][i] => \/ ptable.to[k][i][f] = pdone[k][i][f]
                                               \/ ptable.to[k][i][f].origin = "edited"
      BY DEF PopulateInv, CopiedModelsAreComplete
    <3>1. CASE k # m
      <4>1. k \in PModel
        BY DEF PopulateInv, VersionsInv
      <4> QED BY <2>1, <3>0, <3>1, <4>1
    <3>2. CASE k = m /\ i # id
      <4>1. new[i] = old[i] /\ i \in DOMAIN new
        BY <2>4, <3>0, <3>2
      <4> QED BY <2>1, <3>0, <3>2, <4>1
    <3>3. CASE k = m /\ i = id
      BY <2>1, <2>4, <2>5, <3>0, <3>3
    <3> QED BY <3>1, <3>2, <3>3
  <2>9. VersionsInv'
    BY <1>1, <2>1 DEF PopulateInv, VersionsInv
  <2> QED BY <1>4, <2>7, <2>8, <2>9 DEF PopulateInv
<1> QED BY <1>5, <1>6

\* Versions come and go.
LEMMA VersionsKeep ==
  ASSUME PopulateInv, p_delete_versions \/ \E versions \in PVersions : p_apply(versions)
  PROVE  PopulateInv'
<1>0. /\ \A m \in PModel : NoTables[m] = Empty
      /\ NoTables = [m \in PModel |-> NoTables[m]]
  BY DEF NoTables
<1>1. CASE p_delete_versions
  <2>1. /\ pver' = [from |-> Empty, to |-> Empty] /\ ptable' = [from |-> NoTables, to |-> NoTables]
        /\ ppc' = "idle" /\ pbuf' = Empty /\ pdone' = Empty
    BY <1>1 DEF p_delete_versions
  <2>2. BufferInv' /\ VersionsInv'
    BY <1>0, <2>1, NothingInEmpty DEF BufferInv, VersionsInv
  <2>3. CopiedModelsAreComplete' /\ CopiesAreReadable'
    BY <2>1, NothingInEmpty DEF CopiedModelsAreComplete, CopiesAreReadable
  <2> QED BY <2>2, <2>3 DEF PopulateInv
<1>2. ASSUME NEW versions \in PVersions, p_apply(versions) PROVE PopulateInv'
  <2>1. /\ ppc = "idle" /\ pver.from = Empty /\ pver' = versions
        /\ UNCHANGED <<ppc, pmodel, pstream, pbuf, pdone, pstores>>
        /\ \E rows : ptable' = [ptable EXCEPT !.from = rows]
    BY <1>2 DEF p_apply
  <2>2. ptable.to = NoTables /\ pbuf = Empty
    BY <2>1 DEF PopulateInv, VersionsInv, BufferInv
  <2>3. ptable' = [from |-> ptable'.from, to |-> ptable'.to] /\ ptable'.to = NoTables
    BY <2>1, <2>2 DEF PopulateInv, VersionsInv
  <2>4. DOMAIN versions.to \subseteq PModel
    BY PopulateAssumption
  <2>5. BufferInv' /\ VersionsInv'
    BY <1>0, <2>1, <2>2, <2>3, <2>4, NothingInEmpty DEF PopulateInv, BufferInv, VersionsInv
  <2>6. CopiedModelsAreComplete'
    BY <2>1, <2>2, <2>3 DEF PopulateInv, CopiedModelsAreComplete
  <2>7. CopiesAreReadable'
    BY <1>0, <2>1, <2>3, <2>4, NothingInEmpty DEF CopiesAreReadable
  <2> QED BY <2>5, <2>6, <2>7 DEF PopulateInv
<1> QED BY <1>1, <1>2

\* The steps of populate that change no row.
LEMMA CallKeeps ==
  ASSUME PopulateInv,
         \/ \E m \in PModel : populate_refused(m) \/ populate_model(m)
         \/ populate \/ populate_ok \/ populate_lost \/ UNCHANGED pVars
  PROVE  PopulateInv'
<1>1. ptable' = ptable /\ pver' = pver /\ (pdone' = pdone \/ pdone' = Empty)
  BY DEF populate_refused, populate_model, populate, populate_ok, populate_lost, pVars
<1>2. CopiedModelsAreComplete' /\ CopiesAreReadable'
  BY <1>1, NothingInEmpty DEF PopulateInv, CopiedModelsAreComplete, CopiesAreReadable
<1>3. VersionsInv'
  BY <1>1, NothingInEmpty
     DEF PopulateInv, VersionsInv, populate_refused, populate_model, populate, populate_ok, populate_lost, pVars
<1>4. BufferInv'
  BY <1>1, NothingInEmpty
     DEF PopulateInv, BufferInv, Shared, populate_refused, populate_model, populate, populate_ok, populate_lost, pVars
<1> QED BY <1>2, <1>3, <1>4 DEF PopulateInv

\* What is written and what is committed is what was read, in rows that fit.
THEOREM PopulateInvariance == PSpec => []PopulateInv
<1>1. PInit => PopulateInv
  BY NothingInEmpty
     DEF PInit, PopulateInv, BufferInv, VersionsInv, NoTables, CopiedModelsAreComplete, CopiesAreReadable
<1>2. PopulateInv /\ [PNext]_pVars => PopulateInv'
  BY AddRowKeeps, CommitKeeps, StoreKeeps, VersionsKeep, CallKeeps DEF PNext
<1> QED BY <1>1, <1>2, PTL DEF PSpec

\* type_system.rs 253-279: wherever populate stops, the models it copied have every
\* row that was read.
THEOREM CopiedComplete == PSpec => []CopiedModelsAreComplete
<1>1. PopulateInv => CopiedModelsAreComplete
  BY DEF PopulateInv
<1> QED BY <1>1, PopulateInvariance, PTL

\* engine.rs 691-755: every row of the target can be read as its type demands.
THEOREM CopiesReadable == PSpec => []CopiesAreReadable
<1>1. PopulateInv => CopiesAreReadable
  BY DEF PopulateInv
<1> QED BY <1>1, PopulateInvariance, PTL

-----------------------------------------------------------------------------
(* The migration of old databases: migrate_to_2.rs                         *)

\* The modules that sources become: those of each version, and its root.
LEMMA MigratedModules ==
  ASSUME NEW S, NEW row
  PROVE  row \in migrate_sources(S) <=>
           \E p \in S : /\ parses(p)
                        /\ row \in migrate_version(p.segs[1],
                                     {q \in {o \in S : parses(o)} : q.segs[1] = p.segs[1]})
<1> DEFINE paths == {p \in S : parses(p)}
           Of(v) == migrate_version(v, {q \in paths : q.segs[1] = v})
<1>1. row \in migrate_sources(S) <=> \E v \in {p.segs[1] : p \in paths} : row \in Of(v)
  BY DEF migrate_sources
<1> HIDE DEF Of
<1>2. row \in migrate_sources(S) <=> \E p \in paths : row \in Of(p.segs[1])
  BY <1>1
<1> QED BY <1>2 DEF Of

\* Every source with a version becomes a module of that version, and a root
\* module imports only modules of its version.
LEMMA SourcesBecomeModules ==
  ASSUME NEW S
  PROVE  /\ \A p \in S : parses(p) =>
              \E row \in migrate_sources(S) : row.version_id = p.segs[1] /\ row.url = p
         /\ \A row \in migrate_sources(S) : \A endpoint \in row.routes :
              \E other \in migrate_sources(S) :
                other.version_id = row.version_id /\ other.url = endpoint.import
<1> DEFINE Of(v) == {q \in {o \in S : parses(o)} : q.segs[1] = v}
<1>1. \A p \in S : parses(p) => migrate_source(p.segs[1], p) \in migrate_sources(S)
  <2> SUFFICES ASSUME NEW p \in S, parses(p)
               PROVE  migrate_source(p.segs[1], p) \in migrate_sources(S)
    OBVIOUS
  <2>1. p \in Of(p.segs[1])
    OBVIOUS
  <2>2. migrate_source(p.segs[1], p) \in migrate_version(p.segs[1], Of(p.segs[1]))
    BY <2>1 DEF migrate_version
  <2> QED BY <2>2, MigratedModules
<1>2. \A v, p : migrate_source(v, p).version_id = v /\ migrate_source(v, p).url = p
                  /\ migrate_source(v, p).routes = {}
  BY DEF migrate_source
<1>3. ASSUME NEW row \in migrate_sources(S), NEW endpoint \in row.routes
      PROVE  \E other \in migrate_sources(S) :
               other.version_id = row.version_id /\ other.url = endpoint.import
  <2>1. PICK o \in S : parses(o) /\ row \in migrate_version(o.segs[1], Of(o.segs[1]))
    BY MigratedModules
  <2>2. row = codegen_root(o.segs[1], Of(o.segs[1]))
    <3>1. row \in {migrate_source(o.segs[1], q) : q \in Of(o.segs[1])} => row.routes = {}
      BY <1>2
    <3> QED BY <1>3, <2>1, <3>1 DEF migrate_version
  <2>3. row.version_id = o.segs[1] /\ endpoint.import \in Of(o.segs[1])
    BY <2>2 DEF codegen_root
  <2>4. endpoint.import \in S /\ parses(endpoint.import) /\ endpoint.import.segs[1] = o.segs[1]
    BY <2>3
  <2> QED BY <1>1, <1>2, <2>3, <2>4
<1> QED BY <1>1, <1>2, <1>3

\* No sources, no modules.
LEMMA NothingToMigrate == migrate_sources({}) = {}
BY MigratedModules

-----------------------------------------------------------------------------
(* The databases.                                                          *)

\* A database as a release left it can be migrated from the version it records.
LEMMA OldDbSound ==
  ASSUME NEW r \in Releases, NEW sources, NEW arrays, NEW kind,
         sources = {} \/ r \notin NoSources
  PROVE  Sound(OldDb(r, sources, arrays), kind, [release |-> r, sources |-> sources, arrays |-> arrays])
<1> DEFINE db == OldDb(r, sources, arrays)
           found == [release |-> r, sources |-> sources, arrays |-> arrays]
           v == CASE r \in {"foreign", "0"} -> "0"
                  [] r \in {"0.7", "0.9", "0.10", "0.11"} -> "0.7"
                  [] OTHER -> r
<1>1. /\ db.tables = OldTables(r) /\ db.version = RecordedVersion(r) /\ db.sources = sources
      /\ db.modules = {} /\ db.arrays = (IF r \in {"4", "later"} THEN "jsonb" ELSE arrays)
      /\ db.rows = (r # "empty") /\ db.aborted = FALSE /\ IsDb(db)
  BY DEF OldDb, IsDb
<1>2. /\ r = "empty" <=> OldTables(r) = {}
      /\ r \in {"empty", "foreign", "0"} <=> "chisel_version" \notin OldTables(r)
  BY DEF Releases, OldTables, Tables0, Tables1, Tables4
<1>3. get_schema_version(db) = v
  <2>1. RecordedVersion(r) = IF r \in {"empty", "foreign", "0"} THEN NoRelease ELSE v
    BY DEF RecordedVersion, Releases
  <2>2. v \in Releases
    BY DEF Releases
  <2> QED BY <1>1, <1>2, <2>1, <2>2, ReleaseAssumption DEF get_schema_version, Releases
<1>4. v \in Steps /\ (v = "4" => r = "4") /\ (v \in {"2", "3", "4"} => sources = {})
  BY DEF Steps, Releases, NoSources
<1>5. TablesAt(db, v, r)
  <2>1. CASE r \in {"0.7", "0.9", "0.10", "0.11"}
    BY <1>1, <2>1 DEF TablesAt, OldTables, Tables0, Tables1
  <2>2. CASE r \in {"empty", "foreign", "0", "1", "2", "4", "later"}
    BY <1>1, <2>2 DEF TablesAt, OldTables
  <2> QED BY <2>1, <2>2 DEF Releases
<1>6. ContentAt(db, v, kind, found)
  BY <1>1, <1>4, NothingToMigrate DEF ContentAt
<1> HIDE DEF db, v
<1> QED BY <1>1, <1>3, <1>4, <1>5, <1>6 DEF Sound, HasSchema, db

\* A step of the migration makes a database of the next version, or fails for one
\* of the reasons that MigrationSucceeds names.
LEMMA StepSound ==
  ASSUME mkind \in {"sqlite", "postgres"}, NEW db, NEW v, v # "4",
         HasSchema(db, v, mkind, morigin)
  PROVE  LET step == migrate_schema_step(db, v) IN
         IF step.ok THEN HasSchema(step.db, NextVersion[v], mkind, morigin)
         ELSE \/ morigin.release \in {"foreign", "later"}
              \/ mkind = "postgres" /\ (morigin.release \in {"0.10", "0.11"} \/ morigin.arrays = "other")
<1> DEFINE step == migrate_schema_step(db, v)
           Good == IF step.ok THEN HasSchema(step.db, NextVersion[v], mkind, morigin)
                   ELSE \/ morigin.release \in {"foreign", "later"}
                        \/ mkind = "postgres" /\ (morigin.release \in {"0.10", "0.11"} \/ morigin.arrays = "other")
<1> SUFFICES Good
  OBVIOUS
<1>0. /\ IsDb(db) /\ v \in Steps
      /\ TablesAt(db, v, morigin.release) /\ ContentAt(db, v, mkind, morigin)
  BY DEF HasSchema
<1>1. CASE v = "empty"
  <2>1. step.ok /\ step.db = [db EXCEPT !.tables = @ \cup Tables0] /\ NextVersion[v] = "0"
    BY <1>1 DEF migrate_schema_step, migrate_from_empty_to_0, NextVersion, Done
  <2>2. /\ step.db.tables = db.tables \cup Tables0 /\ step.db.sources = db.sources
        /\ step.db.rows = db.rows /\ step.db.aborted = db.aborted /\ step.db.arrays = db.arrays /\ IsDb(step.db)
    BY <1>0, <2>1 DEF IsDb
  <2> HIDE DEF step
  <2>3. TablesAt(step.db, "0", morigin.release) /\ ContentAt(step.db, "0", mkind, morigin)
    BY <1>0, <1>1, <2>2 DEF TablesAt, ContentAt
  <2> QED BY <2>1, <2>2, <2>3 DEF HasSchema, Steps
<1>2. CASE v = "0"
  <2>1. step = migrate_from_0_to_0_7(db) /\ NextVersion[v] = "0.7"
    BY <1>2 DEF migrate_schema_step, NextVersion
  <2>2. CASE morigin.release = "foreign"
    BY <1>0, <1>2, <2>1, <2>2 DEF migrate_from_0_to_0_7, Failed, TablesAt
  <2>3. CASE morigin.release # "foreign"
    <3>1. db.tables = Tables0
      BY <1>0, <1>2, <2>3 DEF TablesAt
    <3>2. step.ok /\ step.db = [db EXCEPT !.tables = @ \cup {"chisel_version"}]
      BY <2>1, <3>1 DEF migrate_from_0_to_0_7, Done, Tables0
    <3>3. /\ step.db.tables = Tables0 \cup {"chisel_version"} /\ step.db.sources = db.sources
          /\ step.db.rows = db.rows /\ step.db.aborted = db.aborted /\ step.db.arrays = db.arrays /\ IsDb(step.db)
      BY <1>0, <3>1, <3>2 DEF IsDb
    <3> HIDE DEF step
    <3>4. TablesAt(step.db, "0.7", morigin.release)
      BY <3>3 DEF TablesAt, Tables0, Tables1
    <3>5. ContentAt(step.db, "0.7", mkind, morigin)
      BY <1>0, <1>2, <3>3 DEF ContentAt
    <3> QED BY <2>1, <3>2, <3>3, <3>4, <3>5 DEF HasSchema, Steps
  <2> QED BY <2>2, <2>3
<1>3. CASE v = "0.7"
  <2>1. /\ step.ok /\ NextVersion[v] = "1"
        /\ step.db = [db EXCEPT !.tables = (@ \ {"sessions", "endpoints"}) \cup {"api_info", "indexes", "sources"},
                                !.aborted = mkind = "postgres" /\ ~({"sessions", "endpoints"} \subseteq db.tables)]
    BY <1>3 DEF migrate_schema_step, migrate_from_0_7_to_1, NextVersion, Done
  <2>2. /\ step.db.tables = (db.tables \ {"sessions", "endpoints"}) \cup {"api_info", "indexes", "sources"}
        /\ step.db.aborted = (mkind = "postgres" /\ ~({"sessions", "endpoints"} \subseteq db.tables))
        /\ step.db.sources = db.sources /\ step.db.rows = db.rows /\ step.db.arrays = db.arrays /\ IsDb(step.db)
    BY <1>0, <2>1 DEF IsDb
  <2> HIDE DEF step
  <2>3. TablesAt(step.db, "1", morigin.release)
    BY <1>0, <1>3, <2>2 DEF TablesAt
  <2>4. ContentAt(step.db, "1", mkind, morigin)
    BY <1>0, <1>3, <2>2 DEF ContentAt, TablesAt
  <2> QED BY <2>1, <2>2, <2>3, <2>4 DEF HasSchema, Steps
<1>4. CASE v = "1"
  <2>1. step = migrate_to_2(db) /\ NextVersion[v] = "2"
    BY <1>4 DEF migrate_schema_step, NextVersion
  <2>2. CASE db.aborted
    BY <1>0, <2>1, <2>2 DEF migrate_to_2, Failed, ContentAt
  <2>3. CASE ~db.aborted
    <3>1. db.tables = Tables1
      BY <1>0, <1>4 DEF TablesAt
    <3>2. "modules" \notin Tables1 /\ "sources" \in Tables1
      BY DEF Tables1, Tables0
    <3>3. /\ step.ok
          /\ step.db = [db EXCEPT !.tables = (@ \ {"sources"}) \cup {"modules"},
                                  !.modules = migrate_sources(db.sources), !.sources = {}]
      BY <2>1, <2>3, <3>1, <3>2 DEF migrate_to_2, Done
    <3>4. /\ step.db.tables = (Tables1 \ {"sources"}) \cup {"modules"}
          /\ step.db.modules = migrate_sources(db.sources)
          /\ step.db.rows = db.rows /\ step.db.aborted = db.aborted /\ step.db.arrays = db.arrays /\ IsDb(step.db)
      BY <1>0, <3>1, <3>3 DEF IsDb
    <3> HIDE DEF step
    <3>5. TablesAt(step.db, "2", morigin.release) /\ ContentAt(step.db, "2", mkind, morigin)
      BY <1>0, <1>4, <3>4 DEF TablesAt, ContentAt
    <3> QED BY <2>1, <3>3, <3>4, <3>5 DEF HasSchema, Steps
  <2> QED BY <2>2, <2>3
<1>5. CASE v = "2"
  <2>1. step = migrate_to_3(db) /\ NextVersion[v] = "3"
    BY <1>5 DEF migrate_schema_step, NextVersion
  <2>2. db.tables = (Tables1 \ {"sources"}) \cup {"modules"} /\ "policy_store" \notin db.tables
    BY <1>0, <1>5 DEF TablesAt, Tables0, Tables1
  <2>3. step.ok /\ step.db = [db EXCEPT !.tables = @ \cup {"policy_store"}]
    BY <2>1, <2>2 DEF migrate_to_3, Done
  <2>4. /\ step.db.tables = db.tables \cup {"policy_store"} /\ step.db.modules = db.modules
        /\ step.db.rows = db.rows /\ step.db.aborted = db.aborted /\ step.db.arrays = db.arrays /\ IsDb(step.db)
    BY <1>0, <2>3 DEF IsDb
  <2> HIDE DEF step
  <2>5. TablesAt(step.db, "3", morigin.release)
    BY <2>2, <2>4 DEF TablesAt, Tables4
  <2>6. ContentAt(step.db, "3", mkind, morigin)
    BY <1>0, <1>5, <2>4 DEF ContentAt
  <2> QED BY <2>1, <2>3, <2>4, <2>5, <2>6 DEF HasSchema, Steps
<1>6. CASE v = "3"
  <2>1. step = migrate_to_4(db) /\ NextVersion[v] = "4"
    BY <1>6 DEF migrate_schema_step, NextVersion
  <2>2. CASE mkind = "postgres" /\ db.arrays = "other"
    BY <1>0, <2>1, <2>2 DEF migrate_to_4, Failed, ContentAt
  <2>3. CASE ~(mkind = "postgres" /\ db.arrays = "other")
    <3>1. step.ok /\ step.db = [db EXCEPT !.arrays = IF mkind = "sqlite" THEN @ ELSE "jsonb"]
      BY <2>1, <2>3 DEF migrate_to_4, Done
    <3>2. /\ step.db.tables = db.tables /\ step.db.modules = db.modules
          /\ step.db.arrays = IF mkind = "sqlite" THEN db.arrays ELSE "jsonb"
          /\ step.db.rows = db.rows /\ step.db.aborted = db.aborted /\ IsDb(step.db)
      BY <1>0, <3>1 DEF IsDb
    <3> HIDE DEF step
    <3>3. TablesAt(step.db, "4", morigin.release) /\ ContentAt(step.db, "4", mkind, morigin)
      BY <1>0, <1>6, <3>2 DEF TablesAt, ContentAt
    <3> QED BY <2>1, <3>1, <3>2, <3>3 DEF HasSchema, Steps
  <2> QED BY <2>2, <2>3
<1>7. CASE v = "later"
  <2>1. ~step.ok /\ morigin.release = "later"
    BY <1>0, <1>7 DEF migrate_schema_step, Failed, TablesAt
  <2> QED BY <2>1
<1> QED BY <1>0, <1>1, <1>2, <1>3, <1>4, <1>5, <1>6, <1>7 DEF Steps

\* What is committed records the version it has.
LEMMA CommitSound ==
  ASSUME NEW kind, NEW found, NEW db, HasSchema(db, "4", kind, found)
  PROVE  /\ Sound([db EXCEPT !.version = "4"], kind, found)
         /\ get_schema_version([db EXCEPT !.version = "4"]) = "4"
<1> DEFINE new == [db EXCEPT !.version = "4"]
<1>1. IsDb(db) /\ TablesAt(db, "4", found.release) /\ ContentAt(db, "4", kind, found)
  BY DEF HasSchema
<1>2. /\ new.tables = db.tables /\ new.version = "4" /\ new.modules = db.modules
      /\ new.arrays = db.arrays /\ new.rows = db.rows /\ new.aborted = db.aborted /\ IsDb(new)
  BY <1>1 DEF IsDb
<1> HIDE DEF new
<1>3. "chisel_version" \in new.tables
  BY <1>1, <1>2 DEF TablesAt, Tables4, Tables1
<1>4. get_schema_version(new) = "4"
  BY <1>2, <1>3, ReleaseAssumption DEF get_schema_version, Releases
<1>5. TablesAt(new, "4", found.release) /\ ContentAt(new, "4", kind, found)
  BY <1>1, <1>2 DEF TablesAt, ContentAt
<1>6. Sound(new, kind, found)
  BY <1>2, <1>4, <1>5 DEF Sound, HasSchema, Steps
<1> QED BY <1>4, <1>6 DEF new

-----------------------------------------------------------------------------
(* Invariance.                                                             *)

\* An old database is found.
LEMMA FoundKeeps ==
  ASSUME MigrationInv, NEW kind \in {"sqlite", "postgres"}, NEW r \in Release,
         NEW sources \in SourceSets, NEW arrays \in {"text", "other"}, NEW split \in BOOLEAN,
         m_found(kind, r, sources, arrays, split)
  PROVE  MigrationInv'
<1>1. /\ mphase = "none" /\ mphase' = "down" /\ mkind' = kind
      /\ morigin' = [release |-> r, sources |-> sources, arrays |-> arrays]
      /\ sources = {} \/ r \notin NoSources
  BY DEF m_found
<1>2. \/ /\ mlegacy' = OldDb(r, sources, arrays) /\ mfiles' = {"meta", "data"} /\ mdb' = mdb
         /\ r \notin NoSources
      \/ mdb' = OldDb(r, sources, arrays) /\ mlegacy' = mlegacy /\ mfiles' = mfiles
  BY DEF m_found
<1>3. mfiles = {} /\ mdb = EmptyDb
  BY <1>1 DEF MigrationInv, SplitInv
<1>4. Sound(OldDb(r, sources, arrays), kind, [release |-> r, sources |-> sources, arrays |-> arrays])
  BY <1>1, OldDbSound, ReleaseAssumption
<1>5. r \notin NoSources => OldDb(r, sources, arrays).tables # {}
  BY ReleaseAssumption DEF OldDb, OldTables, Releases, NoSources, Tables0, Tables1
<1>6. SplitInv'
  BY <1>1, <1>2, <1>3, <1>4, <1>5 DEF SplitInv
<1>7. TransactionInv' /\ MigrationSucceeds'
  BY <1>1 DEF TransactionInv, MigrationSucceeds
<1> QED BY <1>1, <1>6, <1>7 DEF MigrationInv

\* The split layout is copied into a database without tables.
LEMMA SplitKeeps ==
  ASSUME MigrationInv, maybe_migrate_split_sqlite_database
  PROVE  MigrationInv'
<1>1. mphase = "down" /\ UNCHANGED <<mkind, mfiles, mlegacy, morigin, mtxn, mversion>>
  BY DEF maybe_migrate_split_sqlite_database
<1>2. \/ mfiles = {} /\ mphase' = "single" /\ mdb' = mdb
      \/ mfiles \notin {{}, {"meta", "data"}} /\ mphase' = "failed" /\ mdb' = mdb
      \/ /\ mfiles = {"meta", "data"} /\ mphase' = "single"
         /\ mdb' = IF mdb.tables = {} THEN mlegacy ELSE mdb
  BY DEF maybe_migrate_split_sqlite_database
<1>3. EmptyDb.tables = {}
  BY DEF EmptyDb
<1>4. /\ mfiles \subseteq {"meta", "data"}
      /\ mfiles = {"meta", "data"} => Sound(mlegacy, mkind, morigin) /\ mlegacy.tables # {}
      /\ Sound(mdb, mkind, morigin) \/ (mfiles = {"meta", "data"} /\ mdb = EmptyDb)
  BY <1>1 DEF MigrationInv, SplitInv
<1>5. Sound(mdb', mkind, morigin)
  BY <1>2, <1>3, <1>4
<1>6. SplitInv'
  BY <1>1, <1>2, <1>4, <1>5 DEF SplitInv
<1>7. TransactionInv'
  BY <1>2 DEF TransactionInv
<1>8. MigrationSucceeds'
  BY <1>1, <1>2 DEF MigrationSucceeds
<1> QED BY <1>1, <1>2, <1>6, <1>7, <1>8 DEF MigrationInv

\* The transaction makes a step, or is rolled back.
LEMMA StepKeeps ==
  ASSUME MigrationInv, migrate_step
  PROVE  MigrationInv'
<1>1. mphase = "migrating" /\ mversion # "4" /\ UNCHANGED <<mkind, mdb, mfiles, mlegacy, morigin>>
  BY DEF migrate_step
<1> DEFINE step == migrate_schema_step(mtxn, mversion)
<1>2. \/ step.ok /\ mtxn' = step.db /\ mversion' = NextVersion[mversion] /\ mphase' = mphase
      \/ ~step.ok /\ mphase' = "failed"
  BY DEF migrate_step
<1>3. IF step.ok THEN HasSchema(step.db, NextVersion[mversion], mkind, morigin)
      ELSE \/ morigin.release \in {"foreign", "later"}
           \/ mkind = "postgres" /\ (morigin.release \in {"0.10", "0.11"} \/ morigin.arrays = "other")
  <2>1. HasSchema(mtxn, mversion, mkind, morigin) /\ mkind \in {"sqlite", "postgres"}
    BY <1>1 DEF MigrationInv, TransactionInv
  <2> QED BY <1>1, <2>1, StepSound
<1> HIDE DEF step
<1>4. SplitInv'
  BY <1>1, <1>2 DEF MigrationInv, SplitInv
<1>5. TransactionInv'
  BY <1>1, <1>2, <1>3 DEF TransactionInv
<1>6. MigrationSucceeds'
  BY <1>1, <1>2, <1>3 DEF MigrationSucceeds
<1> QED BY <1>1, <1>2, <1>4, <1>5, <1>6 DEF MigrationInv

\* The transaction begins with the database, and is what the database becomes.
LEMMA BeginAndCommitKeep ==
  ASSUME MigrationInv, migrate_begin \/ migrate_commit
  PROVE  MigrationInv'
<1>1. CASE migrate_begin
  <2>1. /\ mphase = "single" /\ mtxn' = mdb /\ mversion' = get_schema_version(mdb)
        /\ mphase' = "migrating" /\ UNCHANGED <<mkind, mdb, mfiles, mlegacy, morigin>>
    BY <1>1 DEF migrate_begin
  <2>2. Sound(mdb, mkind, morigin)
    BY <2>1 DEF MigrationInv, SplitInv
  <2>3. SplitInv'
    BY <2>1, <2>2 DEF MigrationInv, SplitInv
  <2>4. TransactionInv' /\ MigrationSucceeds'
    BY <2>1, <2>2 DEF TransactionInv, MigrationSucceeds, Sound
  <2> QED BY <2>1, <2>3, <2>4 DEF MigrationInv
<1>2. CASE migrate_commit
  <2>1. /\ mphase = "migrating" /\ mversion = "4" /\ mdb' = [mtxn EXCEPT !.version = mversion]
        /\ mphase' = "serving" /\ UNCHANGED <<mkind, mfiles, mlegacy, morigin>>
    BY <1>2 DEF migrate_commit
  <2>2. Sound(mdb', mkind, morigin) /\ get_schema_version(mdb') = "4"
    BY <2>1, CommitSound DEF MigrationInv, TransactionInv
  <2>3. SplitInv'
    BY <2>1, <2>2 DEF MigrationInv, SplitInv
  <2>4. TransactionInv'
    BY <2>1, <2>2 DEF TransactionInv, get_schema_version
  <2>5. MigrationSucceeds'
    BY <2>1 DEF MigrationSucceeds
  <2> QED BY <2>1, <2>3, <2>4, <2>5 DEF MigrationInv
<1> QED BY <1>1, <1>2

\* Stopping the server, at any time, and deleting the old files.
LEMMA DownKeeps ==
  ASSUME MigrationInv, m_down \/ m_delete_file \/ m_forget \/ UNCHANGED mVars
  PROVE  MigrationInv'
<1>1. CASE m_down
  BY <1>1 DEF m_down, MigrationInv, SplitInv, TransactionInv, MigrationSucceeds
<1>2. CASE m_delete_file
  <2>1. PICK file \in mfiles : mfiles' = mfiles \ {file}
    BY <1>2 DEF m_delete_file
  <2>2. mphase = "serving" /\ UNCHANGED <<mkind, mdb, mlegacy, morigin, mtxn, mversion, mphase>>
    BY <1>2 DEF m_delete_file
  <2>3. mfiles' \subseteq {"meta", "data"} /\ mfiles' # {"meta", "data"}
    BY <2>1 DEF MigrationInv, SplitInv
  <2>4. SplitInv'
    BY <2>2, <2>3 DEF MigrationInv, SplitInv
  <2>5. TransactionInv' /\ MigrationSucceeds'
    BY <2>2 DEF MigrationInv, TransactionInv, MigrationSucceeds, get_schema_version
  <2> QED BY <2>2, <2>4, <2>5 DEF MigrationInv
<1>3. CASE m_forget
  BY <1>3 DEF m_forget, MigrationInv, SplitInv, TransactionInv, MigrationSucceeds
<1>4. CASE UNCHANGED mVars
  BY <1>4 DEF mVars, MigrationInv, SplitInv, TransactionInv, MigrationSucceeds, get_schema_version
<1> QED BY <1>1, <1>2, <1>3, <1>4

\* Whatever is committed can be migrated from the version it records, and the
\* transaction always has the schema of the version it has reached.
THEOREM MigrationInvariance == MSpec => []MigrationInv
<1>1. MInit => MigrationInv
  BY DEF MInit, MigrationInv, SplitInv, TransactionInv, MigrationSucceeds
<1>2. MigrationInv /\ [MNext]_mVars => MigrationInv'
  BY FoundKeeps, SplitKeeps, StepKeeps, BeginAndCommitKeep, DownKeeps DEF MNext
<1> QED BY <1>1, <1>2, PTL DEF MSpec

\* meta/mod.rs 371-408, migrate_to_2.rs 41-143: a server that serves has the latest
\* schema, the users' rows and, of every source with a version, a module.
THEOREM ServesLatest == MSpec => []ServesLatestSchema
<1>1. MigrationInv => ServesLatestSchema
  <2> SUFFICES ASSUME MigrationInv, mphase = "serving"
               PROVE  /\ mdb.tables = Tables4 /\ mdb.version = "4"
                      /\ mkind = "postgres" => mdb.arrays = "jsonb"
                      /\ mdb.rows = (morigin.release # "empty")
                      /\ mdb.modules = migrate_sources(morigin.sources)
    BY SourcesBecomeModules DEF ServesLatestSchema
  <2>1. HasSchema(mdb, "4", mkind, morigin) /\ get_schema_version(mdb) = "4"
    BY DEF MigrationInv, TransactionInv, Sound
  <2>2. mdb.version = "4"
    BY <2>1 DEF get_schema_version
  <2> QED BY <2>1, <2>2 DEF HasSchema, TablesAt, ContentAt
<1> QED BY <1>1, MigrationInvariance, PTL

\* migrate.rs 18-57, 271-285, 402-407: a start that fails has found tables of another
\* program or a later release, half of the split layout, or, on Postgres, release 0.10
\* or 0.11 or arrays that cannot become jsonb.
THEOREM StartsUnlessForeign == MSpec => []MigrationSucceeds
<1>1. MigrationInv => MigrationSucceeds
  BY DEF MigrationInv
<1> QED BY <1>1, MigrationInvariance, PTL

=============================================================================
