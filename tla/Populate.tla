------------------------------ MODULE Populate ------------------------------
(***************************************************************************)
(* `chisel populate': the rows of one version are copied to the models of  *)
(* another that have the same name.  Each model is checked, its rows are   *)
(* read in one transaction and written in a second one, which is committed *)
(* when the last row is written; requests of both versions go on           *)
(* meanwhile, and populate may be called again.                            *)
(*                                                                         *)
(* A row is a function from the fields that are not NULL to values; a      *)
(* value is known by its type and by where it comes from.  The stream of   *)
(* rows sees the table as it was when it was opened.                       *)
(***************************************************************************)
EXTENDS Naturals, FiniteSets

CONSTANTS
  PModel,      \* models that both versions may have
  PVersions,   \* the pairs [from, to] of versions: for each model its fields,
               \* [type, optional, default]
  PId,         \* ids of rows
  PMaxStore    \* how often requests store a row

ASSUME PopulateAssumption ==
  /\ \A versions \in PVersions : DOMAIN versions.from \cup DOMAIN versions.to \subseteq PModel
  /\ PMaxStore \in Nat

VARIABLES
  pver,    \* the types of the two versions
  ptable,  \* [from, to]: for each model its rows
  ppc,     \* progress of populate
  pmodel,  \* the model that is being copied
  pstream, \* its rows that are not yet read
  pbuf,    \* rows written in the transaction that is not committed
  pdone,   \* the models copied so far, with their rows as they were read
  pstores

pVars == <<pver, ptable, ppc, pmodel, pstream, pbuf, pdone, pstores>>

Empty == << >>
NoTables == [m \in PModel |-> Empty]

PInit ==
  /\ pver = [from |-> Empty, to |-> Empty]
  /\ ptable = [from |-> NoTables, to |-> NoTables]
  /\ ppc = "idle" /\ pmodel = Empty /\ pstream = Empty /\ pbuf = Empty
  /\ pdone = Empty /\ pstores = 0

PValue(type, origin) == [type |-> type, origin |-> origin]

\* The rows a request may store: a value for every field that is required and
\* for some of the others.
PRows(fields, origin) ==
  {[f \in F |-> PValue(fields[f].type, origin)] :
     F \in {F \in SUBSET DOMAIN fields : \A f \in DOMAIN fields : fields[f].optional \/ f \in F}}

\* fields_map upserted into a table: what it does not give stays.
Upsert(table, id, row) ==
  [i \in DOMAIN table \cup {id} |->
     IF i # id THEN table[i]
     ELSE IF id \notin DOMAIN table THEN row
     ELSE [f \in DOMAIN table[id] \cup DOMAIN row |-> IF f \in DOMAIN row THEN row[f] ELSE table[id][f]]]

-----------------------------------------------------------------------------
(* ObjectType and Field.                                                   *)

\* Fields in common have the same type, and a new one has no default.
check_populate_from(to, from) ==
  /\ \A f \in DOMAIN to \cap DOMAIN from : to[f].type = from[f].type
  /\ \A f \in DOMAIN to \ DOMAIN from : ~to[f].default

\* Reading a row: a required field that is NULL is an error.
row_is_readable(fields, row) == \A f \in DOMAIN fields : fields[f].optional \/ f \in DOMAIN row

\* (Mutant: a value that is missing is left out.)
convert_skips_missing(fields, row) == [ok |-> DOMAIN row \subseteq DOMAIN fields, args |-> row]

\* prepare_insertion_shallow: a value is taken from the row or generated from the
\* default, an optional one is left out, and the row may have no other field.
prepare_insertion_shallow(fields, row) ==
  LET given == {f \in DOMAIN fields : f \in DOMAIN row \/ ~fields[f].optional}
  IN [ok   |-> /\ \A f \in given : IF f \in DOMAIN row THEN row[f].type = fields[f].type
                                   ELSE fields[f].default
               /\ DOMAIN row \subseteq given,
      args |-> [f \in given |-> IF f \in DOMAIN row THEN row[f] ELSE PValue(fields[f].type, "default")]]

-----------------------------------------------------------------------------
(* populate                                                                *)

Shared == DOMAIN pver.from \cap DOMAIN pver.to

\* Two versions were applied; the first has rows, of which one may be older than
\* the field that it lacks.
p_apply(versions) ==
  /\ ppc = "idle" /\ pver.from = Empty
  /\ pver' = versions
  /\ \E t \in [PModel -> SUBSET PId], gap \in BOOLEAN :
       /\ \A m \in PModel : m \notin DOMAIN versions.from => t[m] = {}
       /\ ptable' = [ptable EXCEPT !.from = [m \in PModel |-> [i \in t[m] |->
            IF gap THEN Empty
            ELSE [f \in DOMAIN versions.from[m] |-> PValue(versions.from[m][f].type, "source")]]]]
  /\ UNCHANGED <<ppc, pmodel, pstream, pbuf, pdone, pstores>>

\* The call: both versions exist.
populate ==
  /\ ppc \in {"idle", "ok", "refused", "failed", "lost"} /\ pver.from # Empty
  /\ ppc' = "models" /\ pdone' = Empty
  /\ UNCHANGED <<pver, ptable, pmodel, pstream, pbuf, pstores>>

\* The next model that both versions have, in any order: it is refused ...
populate_refused(m) ==
  /\ ppc = "models" /\ m \in Shared \ DOMAIN pdone
  /\ ~check_populate_from(pver.to[m], pver.from[m])
  /\ ppc' = "refused" /\ pmodel' = m
  /\ UNCHANGED <<pver, ptable, pstream, pbuf, pdone, pstores>>

\* ... or the transactions begin, with the query of its rows.
populate_model(m) ==
  /\ ppc = "models" /\ m \in Shared \ DOMAIN pdone
  /\ check_populate_from(pver.to[m], pver.from[m])
  /\ ppc' = "copy" /\ pmodel' = m
  /\ pstream' = ptable.from[m]
  /\ UNCHANGED <<pver, ptable, pbuf, pdone, pstores>>

Unread(id) == [i \in DOMAIN pstream \ {id} |-> pstream[i]]

\* The next row is read and written; an error drops both transactions.
add_row_shallow(id) ==
  LET fields == pver.to[pmodel]
      insert == prepare_insertion_shallow(fields, pstream[id])
  IN /\ ppc = "copy" /\ id \in DOMAIN pstream /\ id \notin DOMAIN pbuf
     /\ IF row_is_readable(pver.from[pmodel], pstream[id]) /\ insert.ok
        THEN pbuf' = Upsert(pbuf, id, insert.args) /\ UNCHANGED ppc
        ELSE ppc' = "failed" /\ pbuf' = Empty
     /\ UNCHANGED <<pver, ptable, pmodel, pstream, pdone, pstores>>

\* (Mutant: rows that exist are left alone.)
commit_new_rows ==
  /\ ppc = "copy" /\ DOMAIN pbuf = DOMAIN pstream
  /\ ptable' = [ptable EXCEPT !.to[pmodel] =
                  [i \in DOMAIN @ \cup DOMAIN pbuf |-> IF i \in DOMAIN @ THEN @[i] ELSE pbuf[i]]]
  /\ pdone' = [m \in DOMAIN pdone \cup {pmodel} |-> IF m = pmodel THEN pstream ELSE pdone[m]]
  /\ ppc' = "models" /\ pbuf' = Empty /\ pstream' = Empty
  /\ UNCHANGED <<pver, pmodel, pstores>>

\* After the last row the written rows are committed.
populate_commit ==
  /\ ppc = "copy" /\ DOMAIN pbuf = DOMAIN pstream
  /\ ptable' = [ptable EXCEPT !.to[pmodel] =
                  [i \in DOMAIN @ \cup DOMAIN pbuf |->
                     IF i \in DOMAIN pbuf THEN Upsert(@, i, pbuf[i])[i] ELSE @[i]]]
  /\ pdone' = [m \in DOMAIN pdone \cup {pmodel} |-> IF m = pmodel THEN pstream ELSE pdone[m]]
  /\ ppc' = "models" /\ pbuf' = Empty /\ pstream' = Empty
  /\ UNCHANGED <<pver, pmodel, pstores>>

populate_ok ==
  /\ ppc = "models" /\ DOMAIN pdone = Shared
  /\ ppc' = "ok"
  /\ UNCHANGED <<pver, ptable, pmodel, pstream, pbuf, pdone, pstores>>

\* The server or a connection is lost.
populate_lost ==
  /\ ppc \in {"models", "copy"}
  /\ ppc' = "lost" /\ pbuf' = Empty
  /\ UNCHANGED <<pver, ptable, pmodel, pstream, pdone, pstores>>

\* Requests of either version store rows; one that was written by populate
\* stays locked until it is committed.
p_store(side, m, id) ==
  /\ pver.from # Empty /\ m \in DOMAIN pver[side] /\ pstores < PMaxStore
  /\ side = "to" /\ ppc = "copy" /\ m = pmodel => id \notin DOMAIN pbuf
  /\ \E row \in PRows(pver[side][m], IF side = "to" THEN "edited" ELSE "source2") :
       ptable' = [ptable EXCEPT ![side][m] = Upsert(@, id, row)]
  /\ pstores' = pstores + 1
  /\ UNCHANGED <<pver, ppc, pmodel, pstream, pbuf, pdone>>

p_delete_versions ==
  /\ pver.from # Empty /\ ppc \notin {"idle", "models", "copy"}
  /\ pver' = [from |-> Empty, to |-> Empty]
  /\ ptable' = [from |-> NoTables, to |-> NoTables]
  /\ ppc' = "idle" /\ pmodel' = Empty /\ pstream' = Empty /\ pbuf' = Empty
  /\ pdone' = Empty /\ pstores' = 0

PNext ==
  \/ \E versions \in PVersions : p_apply(versions)
  \/ \E m \in PModel : populate_refused(m) \/ populate_model(m)
  \/ \E id \in PId : add_row_shallow(id)
  \/ \E side \in {"from", "to"}, m \in PModel, id \in PId : p_store(side, m, id)
  \/ populate \/ populate_commit \/ populate_ok \/ populate_lost \/ p_delete_versions

PSpec == PInit /\ [][PNext]_pVars

-----------------------------------------------------------------------------
(* Properties.                                                             *)

\* type_system.rs 253-279: wherever populate stops, the models it copied have
\* every row that was read, with the values that were read except where a request
\* stored others later.
CopiedModelsAreComplete ==
  \A m \in DOMAIN pdone : \A i \in DOMAIN pdone[m] :
    /\ i \in DOMAIN ptable.to[m]
    /\ \A f \in DOMAIN pdone[m][i] :
         f \in DOMAIN ptable.to[m][i] => ptable.to[m][i][f] = pdone[m][i][f]
                                          \/ ptable.to[m][i][f].origin = "edited"

\* A row has the required fields, and values of the fields' types.
Fits(fields, row) ==
  /\ row_is_readable(fields, row)
  /\ \A f \in DOMAIN row : f \in DOMAIN fields /\ row[f].type = fields[f].type

\* engine.rs 691-755: every row of the target can be read as its type demands; a
\* source row with a gap is not copied.
CopiesAreReadable ==
  \A m \in DOMAIN pver.to : \A i \in DOMAIN ptable.to[m] : Fits(pver.to[m], ptable.to[m][i])

-----------------------------------------------------------------------------
(* The inductive invariant of the proofs.                                  *)

\* Row has what was read.
Carries(row, read) == \A f \in DOMAIN read : f \in DOMAIN row /\ row[f] = read[f]

\* What is written and not yet committed are rows that were read, as the target
\* has them.
BufferInv ==
  /\ ppc # "copy" => pbuf = Empty
  /\ ppc = "copy" => pmodel \in DOMAIN pver.to
  /\ \A i \in DOMAIN pbuf : /\ i \in DOMAIN pstream
                            /\ Fits(pver.to[pmodel], pbuf[i]) /\ Carries(pbuf[i], pstream[i])

\* Nothing is in the target before there are versions.
VersionsInv ==
  /\ ptable = [from |-> ptable.from, to |-> ptable.to]
  /\ ptable.to = [m \in PModel |-> ptable.to[m]]
  /\ DOMAIN pver.to \subseteq PModel /\ DOMAIN pdone \subseteq PModel
  /\ pver.from = Empty => ppc = "idle" /\ ptable.to = NoTables

PopulateInv == /\ BufferInv /\ VersionsInv
               /\ CopiedModelsAreComplete /\ CopiesAreReadable
=============================================================================
