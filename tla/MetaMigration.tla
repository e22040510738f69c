--------------------------- MODULE MetaMigration ---------------------------
(***************************************************************************)
(* How a server brings the database of an older release up to date when it *)
(* starts: two SQLite files of the split layout are copied into one, then  *)
(* the schema of the meta tables is migrated step by step, in a single     *)
(* transaction.  The server may be killed at any time and started again.   *)
(*                                                                         *)
(* A database is known by its tables, the schema version it records, the   *)
(* sources or modules of the users' code, the columns that hold arrays     *)
(* ("text", "jsonb", or "other", which cannot become jsonb), whether it has the users' rows, and, within a transaction, *)
(* whether a statement has failed on Postgres, after which all others do.  *)
(***************************************************************************)
EXTENDS Naturals, Sequences

CONSTANTS
  Release,    \* releases whose databases are migrated, see OldTables
  SourceSets, \* sets of source paths: [segs: sequence of names, ext]
  NoRelease   \* no database, no version, no transaction

Releases == {"empty", "foreign", "0", "0.7", "0.9", "0.10", "0.11", "1", "2", "4", "later"}

ASSUME ReleaseAssumption == Release \subseteq Releases /\ NoRelease \notin Releases

VARIABLES
  mkind,    \* "sqlite" or "postgres"
  mdb,      \* the database
  mfiles,   \* the files of the split layout: which of "meta" and "data" exist, ...
  mlegacy,  \* ... and what is in them
  morigin,  \* (history) the release, the sources and the arrays the database came with
  mtxn,     \* the transaction of migrate_schema: the database as it sees it
  mversion, \* version
  mphase

mVars == <<mkind, mdb, mfiles, mlegacy, morigin, mtxn, mversion, mphase>>

EmptyDb == [tables |-> {}, version |-> NoRelease, sources |-> {}, modules |-> {},
            arrays |-> NoRelease, rows |-> FALSE, aborted |-> FALSE]

MInit ==
  /\ mkind = "sqlite" /\ mdb = EmptyDb /\ mfiles = {} /\ mlegacy = EmptyDb
  /\ morigin = [release |-> NoRelease, sources |-> {}, arrays |-> "text"]
  /\ mtxn = NoRelease /\ mversion = NoRelease /\ mphase = "none"

-----------------------------------------------------------------------------
(* The databases of the releases, as their servers left them.              *)

Tables0 == {"types", "type_names", "fields", "field_names", "field_labels",
            "endpoints", "sessions", "policies"}
Tables1 == (Tables0 \ {"endpoints", "sessions"}) \cup {"chisel_version", "api_info", "indexes", "sources"}
Tables4 == (Tables1 \ {"sources"}) \cup {"modules", "policy_store"}

\* "foreign" is a database with tables of another program, "later" one of a release
\* after this.
OldTables(r) ==
  CASE r = "empty"   -> {}
    [] r = "foreign" -> {"other"}
    [] r = "0"       -> Tables0
    [] r = "0.7"     -> Tables0 \cup {"chisel_version"}
    [] r = "0.9"     -> Tables0 \cup {"chisel_version", "api_info"}
    [] r = "0.10"    -> (Tables0 \ {"sessions"}) \cup {"chisel_version", "api_info", "indexes"}
    [] r = "0.11"    -> Tables1
    [] r = "1"       -> Tables1
    [] r = "2"       -> (Tables1 \ {"sources"}) \cup {"modules"}
    [] r \in {"4", "later"} -> Tables4

\* Releases 0.7 to 0.12 all recorded "0.7".
RecordedVersion(r) ==
  CASE r \in {"empty", "foreign", "0"} -> NoRelease
    [] r \in {"0.7", "0.9", "0.10", "0.11"} -> "0.7"
    [] OTHER -> r

\* Databases without sources.
NoSources == {"empty", "foreign", "2", "4", "later"}

OldDb(r, sources, arrays) ==
  [tables |-> OldTables(r), version |-> RecordedVersion(r), sources |-> sources,
   modules |-> {}, arrays |-> IF r \in {"4", "later"} THEN "jsonb" ELSE arrays, rows |-> r # "empty",
   aborted |-> FALSE]

-----------------------------------------------------------------------------
(* migrate_to_2.rs                                                         *)

\* A path without a version is skipped; a file of endpoints or routes is routed
\* under its path without the extension.
parses(path) == Len(path.segs) >= 2
is_endpoint(path) == Len(path.segs) >= 3 /\ path.segs[2] \in {"endpoints", "routes"}
endpoint_route(path) == SubSeq(path.segs, 3, Len(path.segs))

Root == [segs |-> << >>, ext |-> "root"]

codegen_root(version_id, paths) ==
  [version_id |-> version_id, url |-> Root,
   routes |-> {[route |-> endpoint_route(p), import |-> p] : p \in {p \in paths : is_endpoint(p)}}]

migrate_source(version_id, path) == [version_id |-> version_id, url |-> path, routes |-> {}]

migrate_version(version_id, paths) ==
  {codegen_root(version_id, paths)} \cup {migrate_source(version_id, p) : p \in paths}

migrate_sources(rows) ==
  LET paths == {p \in rows : parses(p)}
  IN UNION {migrate_version(v, {p \in paths : p.segs[1] = v}) : v \in {p.segs[1] : p \in paths}}

-----------------------------------------------------------------------------
(* migrate.rs: a step gives the new database, and fails where a statement  *)
(* does.                                                                   *)

Failed == [ok |-> FALSE, db |-> EmptyDb]
Done(db) == [ok |-> TRUE, db |-> db]

migrate_from_empty_to_0(db) == Done([db EXCEPT !.tables = @ \cup Tables0])

migrate_from_0_to_0_7(db) ==
  IF "fields" \notin db.tables \/ "chisel_version" \in db.tables THEN Failed
  ELSE Done([db EXCEPT !.tables = @ \cup {"chisel_version"}])

\* (Mutant: CREATE TABLE without IF NOT EXISTS.)
migrate_to_1_strict(db) ==
  IF {"api_info", "indexes"} \cap db.tables # {} THEN Failed
  ELSE Done([db EXCEPT !.tables = (@ \ {"sessions", "endpoints"}) \cup {"api_info", "indexes", "sources"}])

\* That sessions or endpoints do not exist any more is ignored.
migrate_from_0_7_to_1(db) ==
  Done([db EXCEPT !.tables = (@ \ {"sessions", "endpoints"}) \cup {"api_info", "indexes", "sources"},
                  !.aborted = mkind = "postgres" /\ ~({"sessions", "endpoints"} \subseteq db.tables)])

migrate_to_2(db) ==
  IF db.aborted \/ "modules" \in db.tables \/ "sources" \notin db.tables THEN Failed
  ELSE Done([db EXCEPT !.tables = (@ \ {"sources"}) \cup {"modules"},
                       !.modules = migrate_sources(db.sources), !.sources = {}])

migrate_to_3(db) ==
  IF "policy_store" \in db.tables THEN Failed
  ELSE Done([db EXCEPT !.tables = @ \cup {"policy_store"}])

\* Arrays become jsonb, which is the same as text in SQLite.
migrate_to_4(db) ==
  IF mkind = "postgres" /\ db.arrays = "other" THEN Failed
  ELSE Done([db EXCEPT !.arrays = IF mkind = "sqlite" THEN @ ELSE "jsonb"])

NextVersion == [v \in {"empty", "0", "0.7", "1", "2", "3"} |->
                  CASE v = "empty" -> "0" [] v = "0" -> "0.7" [] v = "0.7" -> "1"
                    [] v = "1" -> "2" [] v = "2" -> "3" [] v = "3" -> "4"]

migrate_schema_step(db, old_version) ==
  CASE old_version = "empty" -> migrate_from_empty_to_0(db)
    [] old_version = "0"     -> migrate_from_0_to_0_7(db)
    [] old_version = "0.7"   -> migrate_from_0_7_to_1(db)
    [] old_version = "1"     -> migrate_to_2(db)
    [] old_version = "2"     -> migrate_to_3(db)
    [] old_version = "3"     -> migrate_to_4(db)
    [] OTHER                 -> Failed

\* The recorded version; tables without one are of a release before 0.7.
get_schema_version(db) ==
  IF "chisel_version" \in db.tables /\ db.version # NoRelease THEN db.version
  ELSE IF db.tables = {} THEN "empty" ELSE "0"

-----------------------------------------------------------------------------
(* Actions.                                                                *)

\* An old database is found: a single one, or the two files of the split layout.
m_found(kind, r, sources, arrays, split) ==
  /\ mphase = "none"
  /\ sources = {} \/ r \notin NoSources
  /\ split => kind = "sqlite" /\ r \notin NoSources
  /\ arrays = "other" => kind = "postgres" /\ r \notin {"empty", "foreign", "4", "later"}
  /\ mkind' = kind /\ mphase' = "down"
  /\ IF split THEN mlegacy' = OldDb(r, sources, arrays) /\ mfiles' = {"meta", "data"} /\ UNCHANGED mdb
     ELSE mdb' = OldDb(r, sources, arrays) /\ UNCHANGED <<mlegacy, mfiles>>
  /\ morigin' = [release |-> r, sources |-> sources, arrays |-> arrays]
  /\ UNCHANGED <<mtxn, mversion>>

\* All tables of both files are copied in one transaction, unless there are tables
\* already; if only one file exists the server does not start.
maybe_migrate_split_sqlite_database ==
  /\ mphase = "down"
  /\ \/ mfiles = {} /\ mphase' = "single" /\ UNCHANGED mdb
     \/ mfiles \notin {{}, {"meta", "data"}} /\ mphase' = "failed" /\ UNCHANGED mdb
     \/ /\ mfiles = {"meta", "data"} /\ mphase' = "single"
        /\ mdb' = IF mdb.tables = {} THEN mlegacy ELSE mdb
  /\ UNCHANGED <<mkind, mfiles, mlegacy, morigin, mtxn, mversion>>

\* (Mutant: the new version is recorded first, outside of the transaction.)
migrate_begin_recorded ==
  /\ mphase = "single"
  /\ mtxn' = mdb /\ mversion' = get_schema_version(mdb) /\ mphase' = "migrating"
  /\ mdb' = [mdb EXCEPT !.version = "4"]
  /\ UNCHANGED <<mkind, mfiles, mlegacy, morigin>>

\* migrate_schema: the transaction begins, ...
migrate_begin ==
  /\ mphase = "single"
  /\ mtxn' = mdb /\ mversion' = get_schema_version(mdb) /\ mphase' = "migrating"
  /\ UNCHANGED <<mkind, mdb, mfiles, mlegacy, morigin>>

\* ... makes a step, which may fail ...
migrate_step ==
  /\ mphase = "migrating" /\ mversion # "4"
  /\ LET step == migrate_schema_step(mtxn, mversion)
     IN IF step.ok
        THEN mtxn' = step.db /\ mversion' = NextVersion[mversion] /\ UNCHANGED mphase
        ELSE mtxn' = NoRelease /\ mversion' = NoRelease /\ mphase' = "failed"
  /\ UNCHANGED <<mkind, mdb, mfiles, mlegacy, morigin>>

\* ... and ends with the new version recorded.
migrate_commit ==
  /\ mphase = "migrating" /\ mversion = "4"
  /\ mdb' = [mtxn EXCEPT !.version = mversion]
  /\ mtxn' = NoRelease /\ mversion' = NoRelease /\ mphase' = "serving"
  /\ UNCHANGED <<mkind, mfiles, mlegacy, morigin>>

\* The server is killed, or stopped, or did not start.
m_down ==
  /\ mphase \notin {"none", "down"}
  /\ mphase' = "down" /\ mtxn' = NoRelease /\ mversion' = NoRelease
  /\ UNCHANGED <<mkind, mdb, mfiles, mlegacy, morigin>>

\* Once it serves, the user deletes the old files, as the log says, one by one.
m_delete_file ==
  /\ mphase = "serving"
  /\ \E file \in mfiles : mfiles' = mfiles \ {file}
  /\ UNCHANGED <<mkind, mdb, mlegacy, morigin, mtxn, mversion, mphase>>

m_forget ==
  /\ mphase = "down"
  /\ mkind' = "sqlite" /\ mdb' = EmptyDb /\ mfiles' = {} /\ mlegacy' = EmptyDb
  /\ morigin' = [release |-> NoRelease, sources |-> {}, arrays |-> "text"] /\ mphase' = "none"
  /\ UNCHANGED <<mtxn, mversion>>

MNext ==
  \/ \E kind \in {"sqlite", "postgres"}, r \in Release, sources \in SourceSets,
        arrays \in {"text", "other"}, split \in BOOLEAN : m_found(kind, r, sources, arrays, split)
  \/ maybe_migrate_split_sqlite_database \/ migrate_begin \/ migrate_step \/ migrate_commit
  \/ m_down \/ m_delete_file \/ m_forget

MSpec == MInit /\ [][MNext]_mVars

-----------------------------------------------------------------------------
(* Properties.                                                             *)

\* meta/mod.rs 371-408, migrate_to_2.rs 41-143: wherever starts were interrupted
\* before, a server that serves has exactly the tables of the latest schema, with the
\* version recorded and, on Postgres, every array as jsonb; the users' rows are
\* still there; every source with a version is a module of that version, and what
\* the root module of a version imports are its modules.
ServesLatestSchema ==
  mphase = "serving" =>
    /\ mdb.tables = Tables4 /\ mdb.version = "4"
    /\ mkind = "postgres" => mdb.arrays = "jsonb"
    /\ mdb.rows = (morigin.release # "empty")
    /\ \A p \in morigin.sources : parses(p) =>
         \E row \in mdb.modules : row.version_id = p.segs[1] /\ row.url = p
    /\ \A row \in mdb.modules : \A endpoint \in row.routes :
         \E other \in mdb.modules : other.version_id = row.version_id /\ other.url = endpoint.import

\* migrate.rs 18-57, 271-285, 402-407: a start fails only on tables of another
\* program, of a later release or of half of the split layout; and on Postgres on
\* arrays that cannot become jsonb, or when the database is of release 0.10 or 0.11,
\* where the ignored error of a DROP or RENAME has aborted the transaction.
MigrationSucceeds ==
  mphase = "failed" =>
    \/ morigin.release \in {"foreign", "later"}
    \/ mfiles \notin {{}, {"meta", "data"}}
    \/ mkind = "postgres" /\ (morigin.release \in {"0.10", "0.11"} \/ morigin.arrays = "other")

-----------------------------------------------------------------------------
(* The inductive invariant of the proofs.                                  *)

Steps == {"empty", "0", "0.7", "1", "2", "3", "4", "later"}

IsDb(db) ==
  db = [tables |-> db.tables, version |-> db.version, sources |-> db.sources,
        modules |-> db.modules, arrays |-> db.arrays, rows |-> db.rows, aborted |-> db.aborted]

\* The tables of a database whose schema has version v.
TablesAt(db, v, release) ==
  /\ v = "empty" => db.tables = {} /\ release = "empty"
  /\ v = "0" => db.tables = IF release = "foreign" THEN {"other"} ELSE Tables0
  /\ v = "0.7" =>
       /\ (db.tables \ {"sessions", "endpoints"}) \cup {"api_info", "indexes", "sources"} = Tables1
       /\ release \notin {"0.10", "0.11"} => {"sessions", "endpoints"} \subseteq db.tables
  /\ v = "1" => db.tables = Tables1
  /\ v = "2" => db.tables = (Tables1 \ {"sources"}) \cup {"modules"}
  /\ v \in {"3", "4"} => db.tables = Tables4
  /\ v = "later" => release = "later"

\* What such a database, of the given kind, keeps of the one that was found.
ContentAt(db, v, kind, found) ==
  /\ v \in {"empty", "0", "0.7", "1"} => db.sources = found.sources
  /\ v \in {"2", "3", "4"} => db.modules = migrate_sources(found.sources)
  /\ v = "4" /\ kind = "postgres" => db.arrays = "jsonb"
  /\ db.arrays = "other" => found.arrays = "other"
  /\ db.rows = (found.release # "empty")
  /\ db.aborted => kind = "postgres" /\ found.release \in {"0.10", "0.11"}

HasSchema(db, v, kind, found) ==
  IsDb(db) /\ v \in Steps /\ TablesAt(db, v, found.release) /\ ContentAt(db, v, kind, found)

\* A database that can be migrated, from the version it records.
Sound(db, kind, found) == HasSchema(db, get_schema_version(db), kind, found)

\* The split layout that is complete is sound, and still to be copied if there are no
\* tables.
SplitInv ==
  /\ mfiles \subseteq {"meta", "data"}
  /\ mphase = "none" => mfiles = {} /\ mdb = EmptyDb
  /\ mfiles = {"meta", "data"} => Sound(mlegacy, mkind, morigin) /\ mlegacy.tables # {}
  /\ mphase # "none" =>
       \/ Sound(mdb, mkind, morigin)
       \/ mphase = "down" /\ mfiles = {"meta", "data"} /\ mdb = EmptyDb

\* The transaction has the schema of the version it has reached.
TransactionInv ==
  /\ mphase = "migrating" => HasSchema(mtxn, mversion, mkind, morigin)
  /\ mphase = "serving" => Sound(mdb, mkind, morigin) /\ get_schema_version(mdb) = "4"

MigrationInv ==
  /\ mkind \in {"sqlite", "postgres"} /\ mphase \in {"none", "down", "single", "migrating", "serving", "failed"}
  /\ SplitInv /\ TransactionInv /\ MigrationSucceeds
=============================================================================
