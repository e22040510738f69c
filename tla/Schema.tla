------------------------------- MODULE Schema -------------------------------
(***************************************************************************)
(* How the models of one version evolve: what an apply accepts (apply.rs,  *)
(* generate_type_delta), what it writes to the meta tables and to the      *)
(* backing tables (meta/mod.rs, engine.rs), and whether the type system    *)
(* can be loaded from the meta tables again (load_type_systems).           *)
(*                                                                         *)
(* An apply has two steps, its two transactions, and holds the lock of the *)
(* type systems from one to the other; ControlPlane has its interleavings  *)
(* with other calls.  Instances of the types before keep storing between   *)
(* the steps, and after them until they have ended (rpc.rs 199).  A new    *)
(* instance may serve as soon as the tables are changed: that it is routed *)
(* later, or never, only means that it stores nothing until then.          *)
(*                                                                         *)
(* An apply that is refused changes nothing and is no step.  An apply may  *)
(* also fail after the meta tables were committed; `broken' says so, and   *)
(* the model ends there.  A default is present or absent, a stored value   *)
(* is known by its type.  The field `id', labels and indexes are left out. *)
(***************************************************************************)
EXTENDS Naturals, Sequences, FiniteSets, SequencesExt

CONSTANTS
  Model,      \* names of models
  FieldName,
  Scalar,     \* builtin types, named after their column type
  FieldDefs,  \* [Model -> set of fields]: the fields requests may give a model
  Sqlite,     \* the database is SQLite, otherwise Postgres
  MaxModels,  \* bound on the models of the type systems that serve at the same time
  Null

Type  == Scalar \cup Model
Field == [type : Type, optional : BOOLEAN, default : BOOLEAN, unique : BOOLEAN]

ASSUME SchemaAssumption ==
  /\ Scalar \cap Model = {} /\ Null \notin Type
  /\ FieldDefs \in [Model -> SUBSET Field]
  /\ IsFiniteSet(Model)
  /\ Sqlite \in BOOLEAN
  /\ MaxModels \in Nat

VARIABLES
  typeRows, \* rows of types, type_names and fields, by type_id
  columns,  \* the backing tables: for each model its columns
  data,     \* for each backing table the kinds of rows it holds
  serving,  \* the type systems of the instances that run, without the models
            \* whose tables are gone
  migrating, \* an apply is between its two transactions
  broken,   \* an apply failed after the meta tables were committed
  late,     \* (history) models with rows that were stored with other types than
            \* those that were last persisted
  tightened \* (history) fields that became required while rows may hold null

schemaVars == <<typeRows, columns, data, serving, migrating, broken, late, tightened>>

\* The functions from some of the elements of S to T.
Partial(S, T) == UNION {[D -> T] : D \in SUBSET S}

\* The models a model refers to.
Refs(fields) == {fields[f].type : f \in DOMAIN fields} \cap Model

-----------------------------------------------------------------------------
(* load_type_systems                                                       *)

\* The first pass skips the models that refer to one not yet loaded.
load_type_fields(ts, row) == IF Refs(row.fields) \subseteq ts THEN ts \cup {row.name} ELSE ts

FirstPass(rows) ==
  LET ts[i \in 0 .. Len(rows)] == IF i = 0 THEN {} ELSE load_type_fields(ts[i - 1], rows[i])
  IN ts[Len(rows)]

\* (Mutant: what failed is not tried again.)
LoadsAtOnce(rows) == FirstPass(rows) = {rows[k].name : k \in DOMAIN rows}

\* Those are tried once more, in order; the first that fails again is an error.
Loads(rows) ==
  \A k \in DOMAIN rows :
    rows[k].name \notin FirstPass(rows) =>
      Refs(rows[k].fields) \subseteq FirstPass(rows) \cup {rows[j].name : j \in 1 .. k - 1}

\* The type system: the fields of each model.
LoadedTypes(rows) ==
  [m \in {rows[k].name : k \in DOMAIN rows} |->
     LET k == CHOOSE k \in DOMAIN rows : rows[k].name = m IN rows[k].fields]

-----------------------------------------------------------------------------
(* What an apply accepts.  A request gives models their fields.            *)

Request == {r \in Partial(Model, Partial(FieldName, UNION {FieldDefs[m] : m \in Model})) :
              \A m \in DOMAIN r : \A f \in DOMAIN r[m] : r[m][f] \in FieldDefs[m]}

\* sort_custom_types: the orders in which every model comes after those it refers
\* to.  There is none if the references form a cycle or leave the request.
sort_custom_types(request) ==
  {s \in SetToSeqs(DOMAIN request) :
     \A j \in DOMAIN s : Refs(request[s[j]]) \subseteq {s[i] : i \in 1 .. j - 1}}

\* (Mutant: the types of a field are not compared.)
CanKeepAnyType(ts, old, new, empty) ==
  /\ new.type \in Model => new.type \in DOMAIN ts
  /\ empty \/ (new.unique => old.unique)

\* generate_type_delta, for a field that stays: the new type must be known
\* already, and only an empty model may change it or become unique.
CanKeep(ts, old, new, empty) ==
  /\ new.type \in Model => new.type \in DOMAIN ts
  /\ empty \/ (new.type = old.type /\ (new.unique => old.unique))

\* A field that is added, or removed, has a default or is optional.
CanAddOrRemove(field, empty) == empty \/ field.default \/ field.optional

generate_type_delta(ts, old, new, empty) ==
  /\ \A f \in DOMAIN new \cap DOMAIN old : CanKeep(ts, old[f], new[f], empty)
  /\ \A f \in DOMAIN new \ DOMAIN old : CanAddOrRemove(new[f], empty)
  /\ \A f \in DOMAIN old \ DOMAIN new : CanAddOrRemove(old[f], empty)

-----------------------------------------------------------------------------
(* What an apply writes.                                                   *)

\* update_field_query: a default that is gone is not cleared.
update_field(old, new) == [new EXCEPT !.default = new.default \/ old.default]

\* update_type
update_type(old, new) ==
  [f \in DOMAIN new |-> IF f \in DOMAIN old THEN update_field(old[f], new[f]) ELSE new[f]]

\* The rows of the models in names, in their order.
RowsFor(rows, names) ==
  LET upTo[i \in 0 .. Len(rows)] ==
        IF i = 0 THEN << >>
        ELSE IF rows[i].name \in names THEN Append(upTo[i - 1], rows[i]) ELSE upTo[i - 1]
  IN upTo[Len(rows)]

\* insert_type for the new models in the order of sort_custom_types, update_type
\* and remove_type.
MetaRows(request, order) ==
  LET kept  == RowsFor(typeRows, DOMAIN request)
      given == [k \in DOMAIN order |-> [name |-> order[k], fields |-> request[order[k]]]]
  IN  [k \in DOMAIN kept |->
         [kept[k] EXCEPT !.fields = update_type(kept[k].fields, request[kept[k].name])]]
      \o RowsFor(given, DOMAIN request \ DOMAIN LoadedTypes(typeRows))

\* ColumnDef::try_from: a reference is stored as the id it refers to.
SqlType(type) == IF type \in Model THEN "text" ELSE type

ColumnDef(field) == [type |-> SqlType(field.type), unique |-> field.unique]

\* (Mutant: columns of removed fields stay.)
alter_table_adds(cols, fields) ==
  [f \in DOMAIN fields \cup DOMAIN cols |->
     IF f \in DOMAIN cols THEN cols[f] ELSE ColumnDef(fields[f])]

\* alter_table adds and drops columns; those that stay are not touched.
alter_table(cols, fields) ==
  [f \in DOMAIN fields |-> IF f \in DOMAIN cols THEN cols[f] ELSE ColumnDef(fields[f])]

\* SQLite neither adds nor drops a column that is unique.
AlterAccepted(cols, fields) ==
  /\ \A f \in DOMAIN fields \ DOMAIN cols : Sqlite => ~fields[f].unique
  /\ \A f \in DOMAIN cols \ DOMAIN fields : Sqlite => ~cols[f].unique

\* A row after its columns changed: NULL in the columns that are new.
Widen(row, cols) == [f \in DOMAIN cols |-> IF f \in DOMAIN row THEN row[f] ELSE Null]

-----------------------------------------------------------------------------

SchemaInit ==
  /\ typeRows = <<>>
  /\ columns = <<>> /\ data = <<>>
  /\ serving = {} /\ migrating = FALSE /\ broken = FALSE
  /\ late = {} /\ tightened = {}

\* The fields that are required from now on, have no default, and were optional
\* when rows were stored that the model still has.
Tightened(ts, request) ==
  {x \in Model \X FieldName :
     /\ x[1] \in DOMAIN request \cap DOMAIN ts /\ data[x[1]] # {}
     /\ x[2] \in DOMAIN request[x[1]] \cap DOMAIN ts[x[1]]
     /\ ~request[x[1]][x[2]].optional
     /\ ts[x[1]][x[2]].optional \/ x \in tightened}

\* The models that instances use, once for each type system.
ModelsServed == MapThenSumSet(LAMBDA ts : Cardinality(DOMAIN ts), serving)

\* apply::apply up to the commit of the meta tables, with allow_type_deletion if
\* force.  Rows are counted in the same transaction.
apply_types(request, force) ==
  LET ts == LoadedTypes(typeRows) IN
  /\ ~broken /\ ~migrating
  /\ ModelsServed + Cardinality(DOMAIN request) <= MaxModels
  /\ force \/ \A m \in DOMAIN ts \ DOMAIN request : data[m] = {}
  /\ \A m \in DOMAIN request \cap DOMAIN ts :
       generate_type_delta(ts, ts[m], request[m], data[m] = {})
  /\ \E order \in sort_custom_types(request) : typeRows' = MetaRows(request, order)
  /\ migrating' = TRUE
  /\ tightened' = Tightened(ts, request)
  /\ UNCHANGED <<columns, data, serving, broken, late>>

\* The models of ts that are also in names: the others have no table any more.
Only(ts, names) == [m \in DOMAIN ts \cap names |-> ts[m]]

\* The rest of apply::apply: the type system is loaded again, and the tables are
\* created, dropped and altered in the second transaction.
apply_delta ==
  LET ts   == LoadedTypes(typeRows)
      kept == DOMAIN ts \cap DOMAIN columns
  IN
  /\ ~broken /\ migrating
  /\ migrating' = FALSE
  /\ IF Loads(typeRows) /\ \A m \in kept : AlterAccepted(columns[m], ts[m])
       THEN /\ columns' = [m \in DOMAIN ts |->
                  alter_table(IF m \in kept THEN columns[m] ELSE <<>>, ts[m])]
            /\ data' = [m \in DOMAIN ts |->
                  IF m \in kept THEN {Widen(row, columns'[m]) : row \in data[m]} ELSE {}]
            /\ serving' = {Only(old, kept) : old \in serving} \cup {ts}
            /\ late' = late \cap kept
            /\ UNCHANGED broken
       ELSE broken' = TRUE /\ UNCHANGED <<columns, data, serving, late>>
  /\ UNCHANGED <<typeRows, tightened>>

\* An instance ends: it was replaced and is drained, or did not start.
drain(ts) ==
  /\ serving' = serving \ {ts}
  /\ UNCHANGED <<typeRows, columns, data, migrating, broken, late, tightened>>

\* make_insert_query: a row gets the values that an entity has; in the columns of
\* its undefined fields it has what it had before.
Inserted(was, values) == [f \in DOMAIN was |-> IF f \in DOMAIN values THEN values[f] ELSE was[f]]

\* A row that is new.
NewRow(m) == [f \in DOMAIN columns[m] |-> Null]

\* A handler of an instance with the types ts saves an entity of model m as a new row
\* or over row was: prepare_insertion.  Its kind of row is there then; the kind of
\* was may be gone, as after delete_row.  A nested entity is saved before the one
\* that refers to it, by a step of its own.
store_row(ts, m, was, values) ==
  LET persisted == LoadedTypes(typeRows)
      row       == Inserted(was, values)
  IN
  /\ ~broken
  /\ \A f \in DOMAIN ts[m] \ DOMAIN values : ts[m][f].optional
  /\ \A f \in DOMAIN values :
       /\ f \in DOMAIN columns[m]
       /\ IF values[f] = Null THEN ts[m][f].optional ELSE values[f] = ts[m][f].type
       /\ values[f] \in Model => values[f] \in DOMAIN ts /\ data[values[f]] # {}
       /\ ~Sqlite /\ values[f] # Null => SqlType(values[f]) = columns[m][f].type
  /\ row \notin data[m]
  /\ data' = [data EXCEPT ![m] = @ \cup {row}]
  /\ late' = IF m \in DOMAIN persisted /\ ts[m] = persisted[m] THEN late ELSE late \cup {m}
  /\ UNCHANGED <<typeRows, columns, serving, migrating, broken, tightened>>

\* A handler deletes the entities of one kind.
delete_row(m, row) ==
  /\ ~broken
  /\ data' = [data EXCEPT ![m] = @ \ {row}]
  /\ late' = IF data'[m] = {} THEN late \ {m} ELSE late
  /\ UNCHANGED <<typeRows, columns, serving, migrating, broken, tightened>>

SchemaNext ==
  \/ \E request \in Request, force \in BOOLEAN : apply_types(request, force)
  \/ apply_delta
  \/ \E ts \in serving :
       \/ drain(ts)
       \/ \E m \in DOMAIN ts :
            \/ \E was \in data[m] \cup {NewRow(m)}, values \in Partial(DOMAIN ts[m], Type \cup {Null}) :
                 store_row(ts, m, was, values)
            \/ \E row \in data[m] : delete_row(m, row)

SchemaSpec == SchemaInit /\ [][SchemaNext]_schemaVars

-----------------------------------------------------------------------------
(* Properties.                                                             *)

MetaRow == [name : Model, fields : Partial(FieldName, Field)]

SchemaTypeOK ==
  /\ typeRows \in Seq(MetaRow)
  /\ columns \in Partial(Model, Partial(FieldName,
                   [type : Scalar \cup {"text"}, unique : BOOLEAN]))
  /\ DOMAIN data = DOMAIN columns
  /\ \A m \in DOMAIN data :
       data[m] \subseteq Partial(FieldName, Type \cup {Null})
  /\ \A ts \in serving : \A m \in DOMAIN ts : m \in Model /\ ts[m] \in Partial(FieldName, Field)
  /\ migrating \in BOOLEAN /\ broken \in BOOLEAN
  /\ late \subseteq Model /\ tightened \subseteq Model \X FieldName

\* Model i refers to model j, perhaps one that was inserted later, and depends on
\* those that it reaches by references (itself too).  Models are known by their row.
RefersTo(i, j) == typeRows[j].name \in Refs(typeRows[i].fields)
Later(i, j)    == i < j /\ RefersTo(i, j)
ClosedUnder(S) == \A i \in S, j \in DOMAIN typeRows : RefersTo(i, j) => j \in S
DependsOn(i, k) == \A S \in SUBSET DOMAIN typeRows : i \in S /\ ClosedUnder(S) => k \in S

\* meta/mod.rs 522-531: trying a second time is enough to load the models, in
\* whatever order they were inserted, unless a model refers to a later one that
\* itself depends on a later one.
LoadsUnlessChained ==
  Loads(typeRows) <=>
    ~\E i, j, k, l \in DOMAIN typeRows : Later(i, j) /\ DependsOn(j, k) /\ Later(k, l)

\* apply.rs 268-283, engine.rs 287-353: after every sequence of applies the backing
\* tables are those of the models, with a column for each field and no other.
ModelsMatchTables ==
  ~broken /\ ~migrating =>
    LET ts == LoadedTypes(typeRows) IN
    /\ DOMAIN columns = DOMAIN ts
    /\ \A m \in DOMAIN ts : DOMAIN columns[m] = DOMAIN ts[m]

\* A value of a row, or null, fits a field.
ValueFits(value, field, wasTightened) ==
  IF value = Null THEN field.optional \/ field.default \/ wasTightened
                  ELSE value = field.type

\* type_system.rs 49-157, engine.rs 417-450: whatever sequence of changes is accepted,
\* the stored rows can be read with the newest types.  A value has the type of its
\* field; a null is in a field that is optional or has a default, or that an apply
\* made required over rows that hold nulls, which generate_type_delta lets pass.  Only
\* rows of models into which an instance stored with other types than the newest
\* (the race of rpc.rs 199) are excepted.
DataFits ==
  ~broken /\ ~migrating =>
    LET ts == LoadedTypes(typeRows) IN
    \A m \in DOMAIN ts \ late : \A row \in data[m] : \A f \in DOMAIN row :
      ValueFits(row[f], ts[m][f], <<m, f>> \in tightened)

\* engine.rs 342-348: a change of a field that alter_table would have to carry out
\* is not accepted: the column of a field has its type and its uniqueness.
ColumnsMatchFields ==
  ~broken /\ ~migrating =>
    LET ts == LoadedTypes(typeRows) IN
    \A m \in DOMAIN ts : \A f \in DOMAIN ts[m] :
      /\ columns[m][f].type = SqlType(ts[m][f].type)
      /\ ts[m][f].unique => columns[m][f].unique

-----------------------------------------------------------------------------
(* The inductive invariant.                                                *)

\* No model has two rows.
Distinct(rows) == \A j, k \in DOMAIN rows : rows[j].name = rows[k].name => j = k

\* The models that a model refers to are there, and are not itself.
RefsKnown ==
  \A k \in DOMAIN typeRows :
    Refs(typeRows[k].fields) \subseteq {typeRows[j].name : j \in DOMAIN typeRows \ {k}}

\* engine.rs 287-353: the rows of a table have its columns.
RowsHaveColumns ==
  ~broken => \A m \in DOMAIN data : \A row \in data[m] : DOMAIN row = DOMAIN columns[m]

\* What instances know of the models has tables.
ServingInv == ~broken => \A ts \in serving : DOMAIN ts \subseteq DOMAIN columns

\* Between the transactions of an apply: the rows that are there will fit the new
\* types, a field that is added included.
WillFit ==
  ~broken =>
    LET ts == LoadedTypes(typeRows) IN
    \A m \in (DOMAIN ts \cap DOMAIN columns) \ late : \A row \in data[m] : \A f \in DOMAIN ts[m] :
      ValueFits(IF f \in DOMAIN row THEN row[f] ELSE Null, ts[m][f], <<m, f>> \in tightened)

\* What every apply and store keeps.
SchemaInv ==
  /\ SchemaTypeOK /\ Distinct(typeRows) /\ RefsKnown
  /\ ModelsMatchTables /\ RowsHaveColumns /\ ServingInv /\ WillFit
=============================================================================
