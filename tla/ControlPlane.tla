---------------------------- MODULE ControlPlane ----------------------------
(***************************************************************************)
(* The calls that change what the server runs: `apply' (rpc.rs, apply.rs), *)
(* `delete' (rpc.rs), and starting the server again (server.rs).  They     *)
(* keep four things in step: the "meta" tables, the tables that back the   *)
(* models, the type systems in memory, and the trunk.                      *)
(*                                                                         *)
(* A database transaction is one step.  An apply has two of them, for the  *)
(* metadata and for the backing tables, and awaits between them; the lock  *)
(* on Server.type_systems is held from before the first to after the       *)
(* second.  A model is known by its name and its backing table, which has  *)
(* a fresh name whenever the model is inserted; its fields are left out,   *)
(* so an apply may be refused for an incompatible change at any time, and  *)
(* what it persists may refer to each other in an order that the single    *)
(* retry of load_type_systems cannot resolve (Schema says which do).       *)
(***************************************************************************)
EXTENDS Naturals, FiniteSets

CONSTANTS
  VersionId, TypeName,
  Apply,      \* apply requests
  VersionOf,  \* [Apply -> VersionId]
  TypesOf,    \* [Apply -> SUBSET TypeName]: the models of the request
  Forced,     \* requests with allow_type_deletion
  Delete,     \* delete requests
  DeleteOf,   \* [Delete -> VersionId]
  MaxCalls,   \* how many calls are in progress at the same time
  MaxFaults,  \* bound on crashes, lost clients, versions that do not start and
              \* requests whose models do not load
  NoTable, NoApply, NoVersion

ASSUME ControlAssumption ==
  /\ VersionOf \in [Apply -> VersionId]
  /\ TypesOf \in [Apply -> SUBSET TypeName]
  /\ Forced \subseteq Apply
  /\ DeleteOf \in [Delete -> VersionId]
  /\ MaxCalls \in Nat /\ MaxFaults \in Nat
  /\ NoTable \notin Apply \X TypeName
  /\ NoApply \notin Apply

\* The backing table of the model n that request a inserted.
Table == Apply \X TypeName

\* A type system: the backing table of each model.
TypeSystem == [TypeName -> Table \cup {NoTable}]
NoTypes    == [n \in TypeName |-> NoTable]
Names(ts)  == {n \in TypeName : ts[n] # NoTable}
Tables(ts) == {ts[n] : n \in Names(ts)}
AllTables(tss) == UNION {Tables(tss[v]) : v \in VersionId}

VARIABLES
  code,        \* rows of api_info and modules: the request last persisted
  policy,      \* versions that have a row in policies
  types,       \* rows of types and type_names
  tables,      \* the backing tables that exist
  rows,        \* the backing tables that are not empty
  unloadable,  \* versions whose rows of types and fields do not load
  typeSystems, \* Server.type_systems
  lock,        \* the apply that holds its mutex
  trunk,       \* Trunk.versions: the code and type system served
  call,        \* progress of each apply
  del,         \* progress of each delete
  up,          \* the process runs
  faults,
  overlapped   \* (history) a call began while another one was in progress

durable == <<code, policy, types, tables, rows, unloadable>>
controlVars == <<durable, typeSystems, lock, trunk, call, del, up, faults, overlapped>>

NewCall == [pc |-> "new", insert |-> {}, drop |-> {}, keep |-> {}, ts |-> NoTypes]
NewDel  == [pc |-> "new", ts |-> NoTypes]

Ended == {"done", "failed"}
ApplyRuns(a)  == call[a].pc \notin {"new"} \cup Ended
DeleteRuns(d) == del[d].pc \notin {"new"} \cup Ended
Running == {a \in Apply : ApplyRuns(a)} \cup {d \in Delete : DeleteRuns(d)}
Idle    == Running = {}

ControlInit ==
  /\ code = [v \in VersionId |-> NoApply]
  /\ policy = {}
  /\ types = [v \in VersionId |-> NoTypes]
  /\ tables = {} /\ rows = {} /\ unloadable = {}
  /\ typeSystems = [v \in VersionId |-> NoTypes]
  /\ lock = NoApply
  /\ trunk = [v \in VersionId |-> NoVersion]
  /\ call = [a \in Apply |-> NewCall]
  /\ del = [d \in Delete |-> NewDel]
  /\ up = TRUE
  /\ faults = 0 /\ overlapped = FALSE

\* (Mutant: the mutex is not released.)
FailLocked(a) == /\ call' = [call EXCEPT ![a] = [NewCall EXCEPT !.pc = "failed"]]
                 /\ UNCHANGED lock

\* Call a ends with an error; the guard of the mutex is dropped with it.
Fail(a) == /\ call' = [call EXCEPT ![a] = [NewCall EXCEPT !.pc = "failed"]]
           /\ lock' = IF lock = a THEN NoApply ELSE lock

-----------------------------------------------------------------------------
(* apply                                                                   *)

\* validate_version_id and validate_modules: the canary becomes ready, or the
\* request is refused.
validate_modules(a) ==
  /\ up /\ call[a].pc = "new" /\ Cardinality(Running) < MaxCalls
  /\ \E pc \in {"valid", "failed"} : call' = [call EXCEPT ![a].pc = pc]
  /\ overlapped' = (overlapped \/ ~Idle)
  /\ UNCHANGED <<durable, typeSystems, lock, trunk, del, up, faults>>

\* (Mutant: the lock is taken from its holder.)
lock_not_exclusive(a) ==
  /\ up /\ call[a].pc = "valid"
  /\ lock' = a
  /\ call' = [call EXCEPT ![a].pc = "locked"]
  /\ UNCHANGED <<durable, typeSystems, trunk, del, up, faults, overlapped>>

lock_type_systems(a) ==
  /\ up /\ call[a].pc = "valid" /\ lock = NoApply
  /\ lock' = a
  /\ call' = [call EXCEPT ![a].pc = "locked"]
  /\ UNCHANGED <<durable, typeSystems, trunk, del, up, faults, overlapped>>

\* The request is refused before anything was committed: the models or the
\* policies are not valid, models with data would be removed, a change is not
\* compatible with the data, or count_rows met a table that is missing.
apply_refused(a) ==
  /\ up /\ call[a].pc = "locked"
  /\ Fail(a)
  /\ UNCHANGED <<durable, typeSystems, trunk, del, up, faults, overlapped>>

\* (Mutant: a table named after the version instead of a fresh uuid.)
TableOfVersion(a, n) == <<VersionOf[a], n>>

\* NewObject::new names the backing table of a model that is inserted.
NewTable(a, n) == <<a, n>>

\* persist_policy_version
PolicyPersisted(v) == policy \cup {v}

\* The rows persisted for v load, or they do not: the request is then at fault.
Persisted(v) ==
  \/ unloadable' = unloadable \ {v} /\ UNCHANGED faults
  \/ faults < MaxFaults /\ unloadable' = unloadable \cup {v} /\ faults' = faults + 1

\* apply::apply up to the commit.  What to insert, keep and remove is decided
\* by the type system in memory; rows are counted in the backing tables.
apply_meta(a) ==
  LET v       == VersionOf[a]
      old     == typeSystems[v]
      removed == Names(old) \ TypesOf[a]
      added   == TypesOf[a] \ Names(old)
  IN
  /\ up /\ call[a].pc = "locked"
  /\ Tables(old) \subseteq tables                          \* count_rows
  /\ a \in Forced \/ \A n \in removed : old[n] \notin rows  \* to_remove_has_data
  /\ \A n \in added : types[v][n] = NoTable                \* names are unique
  /\ types'  = [types EXCEPT ![v] = [n \in TypeName |->
                  CASE n \in added -> NewTable(a, n)
                    [] n \in removed /\ types[v][n] = old[n] -> NoTable
                    [] OTHER -> types[v][n]]]
  /\ policy' = PolicyPersisted(v)
  /\ code'   = [code EXCEPT ![v] = a]
  /\ call'   = [call EXCEPT ![a] =
                  [pc |-> "committed", insert |-> added, drop |-> {old[n] : n \in removed},
                   keep |-> TypesOf[a] \cap Names(old), ts |-> NoTypes]]
  /\ Persisted(v)
  /\ UNCHANGED <<tables, rows, typeSystems, lock, trunk, del, up, overlapped>>

\* (Mutant: the type system in memory is kept.)
apply_not_reloaded(a) ==
  /\ up /\ call[a].pc = "committed"
  /\ call' = [call EXCEPT ![a].pc = "loaded"]
  /\ UNCHANGED <<durable, typeSystems, lock, trunk, del, up, faults, overlapped>>

\* load_type_systems loads the models of all versions from the meta tables again;
\* every model that is to be created or altered must then be there.
apply_reload(a) ==
  LET v == VersionOf[a] IN
  /\ up /\ call[a].pc = "committed"
  /\ \/ /\ unloadable # {}
        /\ Fail(a)
        /\ UNCHANGED typeSystems
     \/ /\ unloadable = {}
        /\ typeSystems' = [typeSystems EXCEPT ![v] = types[v]]
        /\ IF call[a].insert \cup call[a].keep \subseteq Names(types[v])
             THEN /\ call' = [call EXCEPT ![a].pc = "loaded"]
                  /\ UNCHANGED lock
             ELSE Fail(a)
  /\ UNCHANGED <<durable, trunk, del, up, faults, overlapped>>

\* The second transaction: create_table, drop_table, alter_table.  Dropping (and,
\* if a column changes, altering) a table that is gone fails the transaction.
apply_tables(a) ==
  LET c  == call[a]
      ts == typeSystems[VersionOf[a]]
  IN
  /\ up /\ c.pc = "loaded"
  /\ \/ /\ c.drop \subseteq tables
        /\ tables' = (tables \cup {ts[n] : n \in c.insert}) \ c.drop
        /\ rows'   = rows \ c.drop
        /\ call'   = [call EXCEPT ![a].pc = "migrated", ![a].ts = ts]
        /\ lock'   = NoApply
     \/ /\ ~ (c.drop \cup {ts[n] : n \in c.keep} \subseteq tables)
        /\ Fail(a)
        /\ UNCHANGED <<tables, rows>>
  /\ UNCHANGED <<code, policy, types, unloadable, typeSystems, trunk, del, up, faults, overlapped>>

\* (Mutant: a version that is routed to stays.)
apply_keeps_route(a) ==
  /\ up /\ call[a].pc = "migrated"
  /\ trunk' = IF trunk[VersionOf[a]] = NoVersion
                THEN [trunk EXCEPT ![VersionOf[a]] = [code |-> a, ts |-> call[a].ts]]
                ELSE trunk
  /\ call'  = [call EXCEPT ![a] = [NewCall EXCEPT !.pc = "done"]]
  /\ UNCHANGED <<durable, typeSystems, lock, del, up, faults, overlapped>>

\* The new instance is ready (JobPipeline): Trunk::add_version.
apply_route(a) ==
  /\ up /\ call[a].pc = "migrated"
  /\ trunk' = [trunk EXCEPT ![VersionOf[a]] = [code |-> a, ts |-> call[a].ts]]
  /\ call'  = [call EXCEPT ![a] = [NewCall EXCEPT !.pc = "done"]]
  /\ UNCHANGED <<durable, typeSystems, lock, del, up, faults, overlapped>>

-----------------------------------------------------------------------------
(* delete: the lock on type_systems is not taken, and type_systems is not  *)
(* updated.                                                                *)

delete_route(d) ==
  LET v == DeleteOf[d] IN
  /\ up /\ del[d].pc = "new" /\ Cardinality(Running) < MaxCalls
  /\ IF trunk[v] = NoVersion
       THEN /\ del' = [del EXCEPT ![d].pc = "failed"]
            /\ UNCHANGED trunk
       ELSE /\ del' = [del EXCEPT ![d] = [pc |-> "unrouted", ts |-> trunk[v].ts]]
            /\ trunk' = [trunk EXCEPT ![v] = NoVersion]
  /\ overlapped' = (overlapped \/ ~Idle)
  /\ UNCHANGED <<durable, typeSystems, lock, call, up, faults>>

\* delete_policy_version and remove_type; api_info and modules stay.  Rows that
\* an overlapping apply has inserted stay too, and may refer to removed ones.
delete_meta(d) ==
  LET v == DeleteOf[d] IN
  /\ up /\ del[d].pc = "unrouted"
  /\ policy' = policy \ {v}
  /\ types'  = [types EXCEPT ![v] = [n \in TypeName |->
                  IF @[n] = del[d].ts[n] THEN NoTable ELSE @[n]]]
  /\ unloadable' \in {unloadable \ {v}}
                       \cup (IF types'[v] = NoTypes THEN {} ELSE {unloadable \cup {v}})
  /\ del'    = [del EXCEPT ![d].pc = "unlisted"]
  /\ UNCHANGED <<code, tables, rows, typeSystems, lock, trunk, call, up, faults, overlapped>>

\* drop_table fails, and with it the transaction, on a table that is gone.
delete_tables(d) ==
  LET gone == Tables(del[d].ts) IN
  /\ up /\ del[d].pc = "unlisted"
  /\ IF gone \subseteq tables
       THEN /\ tables' = tables \ gone
            /\ rows'   = rows \ gone
            /\ del'    = [del EXCEPT ![d] = [NewDel EXCEPT !.pc = "done"]]
       ELSE /\ del'    = [del EXCEPT ![d] = [NewDel EXCEPT !.pc = "failed"]]
            /\ UNCHANGED <<tables, rows>>
  /\ UNCHANGED <<code, policy, types, unloadable, typeSystems, lock, trunk, call, up, faults,
                 overlapped>>

-----------------------------------------------------------------------------
(* Everything else.                                                        *)

\* A handler of the version that v is routed to stores an entity.
store(v, t) ==
  /\ up /\ trunk[v] # NoVersion /\ t \in Tables(trunk[v].ts) \cap tables
  /\ t \notin rows
  /\ rows' = rows \cup {t}
  /\ UNCHANGED <<code, policy, types, tables, unloadable, typeSystems, lock, trunk, call,
                 del, up, faults, overlapped>>

\* The client goes away and the call is dropped where it awaits, or the new
\* version does not start ("the database has already been modified").
apply_lost(a) ==
  /\ up /\ ApplyRuns(a) /\ faults < MaxFaults
  /\ Fail(a)
  /\ faults' = faults + 1
  /\ UNCHANGED <<durable, typeSystems, trunk, del, up, overlapped>>

delete_lost(d) ==
  /\ up /\ DeleteRuns(d) /\ faults < MaxFaults
  /\ del' = [del EXCEPT ![d] = [NewDel EXCEPT !.pc = "failed"]]
  /\ faults' = faults + 1
  /\ UNCHANGED <<durable, typeSystems, lock, trunk, call, up, overlapped>>

\* The process stops, killed or because a version fails (JobPipeline), also one
\* that start_versions has spawned; only the database is left.
crash ==
  /\ up /\ faults < MaxFaults
  /\ up' = FALSE
  /\ faults' = faults + 1
  /\ typeSystems' = [v \in VersionId |-> NoTypes]
  /\ lock' = NoApply
  /\ trunk' = [v \in VersionId |-> NoVersion]
  /\ call' = [a \in Apply |->
                IF ApplyRuns(a) THEN [NewCall EXCEPT !.pc = "failed"] ELSE call[a]]
  /\ del'  = [d \in Delete |->
                IF DeleteRuns(d) THEN [NewDel EXCEPT !.pc = "failed"] ELSE del[d]]
  /\ UNCHANGED <<durable, overlapped>>

\* load_version_infos: the versions start_versions starts.
Listed == {v \in VersionId : code[v] # NoApply}

\* make_server loads the models of all versions, start_versions the policies of the
\* listed ones: the start fails if a version's models do not load, or a listed
\* version has no policy row.  It does not wait for the versions it spawns; one that
\* fails then is an instance that fails in JobPipeline.
start_versions ==
  /\ ~up /\ unloadable = {} /\ Listed \subseteq policy
  /\ up' = TRUE
  /\ typeSystems' = types
  /\ trunk' = [v \in VersionId |->
                 IF v \in Listed THEN [code |-> code[v], ts |-> types[v]] ELSE NoVersion]
  /\ UNCHANGED <<durable, lock, call, del, faults, overlapped>>

-----------------------------------------------------------------------------

ApplyStep(a) == \/ lock_type_systems(a) \/ apply_refused(a) \/ apply_meta(a)
                \/ apply_reload(a) \/ apply_tables(a) \/ apply_route(a)
DeleteStep(d) == delete_meta(d) \/ delete_tables(d)

\* No call is in progress, or the server is down and cannot start.
Waits == (up => Idle) /\ UNCHANGED controlVars

ControlNext ==
  \/ \E a \in Apply : validate_modules(a) \/ ApplyStep(a) \/ apply_lost(a)
  \/ \E d \in Delete : delete_route(d) \/ DeleteStep(d) \/ delete_lost(d)
  \/ \E v \in VersionId, t \in Table : store(v, t)
  \/ crash \/ start_versions \/ Waits

\* Handlers of calls are polled until they return, and whoever runs the server
\* starts it again.
ControlFairness ==
  /\ \A a \in Apply : WF_controlVars(ApplyStep(a))
  /\ \A d \in Delete : WF_controlVars(DeleteStep(d))
  /\ WF_controlVars(start_versions)

ControlSpec == ControlInit /\ [][ControlNext]_controlVars
ControlLiveSpec == ControlSpec /\ ControlFairness

-----------------------------------------------------------------------------
(* Properties.                                                             *)

\* No version was deleted so far.
Undeleted == \A d \in Delete : del[d].pc = "new"

StateTypeOK ==
  /\ code \in [VersionId -> Apply \cup {NoApply}]
  /\ policy \subseteq VersionId
  /\ types \in [VersionId -> TypeSystem]
  /\ tables \subseteq Table /\ rows \subseteq tables
  /\ typeSystems \in [VersionId -> TypeSystem]
  /\ trunk \in [VersionId -> [code : Apply, ts : TypeSystem] \cup {NoVersion}]

CallState == [pc : {"new", "valid", "locked", "committed", "loaded", "migrated"} \cup Ended,
              insert : SUBSET TypeName, drop : SUBSET Table, keep : SUBSET TypeName,
              ts : TypeSystem]
DelState  == [pc : {"new", "unrouted", "unlisted"} \cup Ended, ts : TypeSystem]

CallTypeOK == /\ lock \in Apply \cup {NoApply}
              /\ call \in [Apply -> CallState]
              /\ del \in [Delete -> DelState]

FlagTypeOK == up \in BOOLEAN /\ faults \in 0 .. MaxFaults /\ overlapped \in BOOLEAN

ControlTypeOK == StateTypeOK /\ CallTypeOK /\ FlagTypeOK

\* rpc.rs 194-213: at most one apply is between taking the lock and the end of its
\* second transaction, and the lock is free when none is, whatever was refused,
\* lost or crashed before.
OneMigration ==
  \A a \in Apply : call[a].pc \in {"locked", "committed", "loaded"} <=> lock = a

\* The tables that the meta tables list are those that exist.
TablesInStep == tables = AllTables(types)

\* rpc.rs 226-232 and 315-333: after applies and deletes that do not overlap and were
\* not lost on the way, the models that the meta tables list are those whose backing
\* tables exist, and what a version id serves is the code that was last persisted
\* for it, with all its tables.
ServesWhatIsPersisted ==
  Idle /\ faults = 0 /\ ~overlapped =>
    /\ TablesInStep
    /\ \A v \in VersionId : trunk[v] # NoVersion =>
         trunk[v].code = code[v] /\ Tables(trunk[v].ts) \subseteq tables

\* server.rs 138 and 187-198: the server can be started again from the meta
\* tables, wherever it stopped.
CanStart == unloadable = {} /\ Listed \subseteq policy

\* The apply that last persisted v has not loaded what it persisted.
NotLoaded(v) == code[v] \in Apply /\ call[code[v]].pc \in {"committed", "failed"}

\* server.rs 35-36, 138 and 187-198, apply.rs 222-283: as long as nothing is deleted,
\* wherever applies were lost or the server crashed, the only thing that keeps the
\* server from starting is a version whose last persisted models do not load, and
\* the apply that persisted them has not succeeded; and however applies overlap,
\* whenever none is migrating and none was lost on the way, type_systems is what the
\* meta tables say and the backing tables are those of its models.  (delete breaks
\* this: it does not touch type_systems.)
AppliesKeepInStep ==
  Undeleted =>
    /\ unloadable = {} => CanStart
    /\ \A v \in unloadable : NotLoaded(v)
    /\ up /\ lock = NoApply /\ faults = 0 =>
         typeSystems = types /\ TablesInStep

\* apply.rs 111-135: without allow_type_deletion an apply drops no table that
\* has data.
NoDataLoss ==
  [][\A a \in Apply : call[a].pc = "loaded" /\ call'[a].pc = "migrated" /\ a \notin Forced
       => call[a].drop \cap rows = {}]_controlVars

\* rpc.rs 194-213: every apply returns, and so releases the lock, even when
\* others wait for it.
AppliesEnd == \A a \in Apply : ApplyRuns(a) ~> ~ApplyRuns(a)

-----------------------------------------------------------------------------
(* The inductive invariant of the proofs.                                  *)

\* A backing table belongs to one model of one version.
Own(v, n) == ({a \in Apply : VersionOf[a] = v} \X {n}) \cup {NoTable}
TablesNamed == \A v \in VersionId, n \in TypeName :
                 types[v][n] \in Own(v, n) /\ typeSystems[v][n] \in Own(v, n)

\* What the second transaction creates has a name.
LoadedInv == \A a \in Apply : call[a].pc = "loaded" =>
               call[a].insert \subseteq Names(typeSystems[VersionOf[a]])

\* No apply survives the process.
DownInv == ~up => \A a \in Apply : ~ ApplyRuns(a)

\* Nothing went wrong, and either no version was deleted or calls came one at a time.
InOrder == faults = 0 /\ (Undeleted \/ ~overlapped)

Migrating(a) == call[a].pc \in {"committed", "loaded"}

\* The second transaction of apply a can succeed, and brings the tables in step.
CanMigrate(a) ==
  LET c  == call[a]
      ts == types[VersionOf[a]]
  IN /\ c.insert \cup c.keep \subseteq Names(ts)
     /\ c.drop \cup {ts[n] : n \in c.keep} \subseteq tables
     /\ (tables \cup {ts[n] : n \in c.insert}) \ c.drop = AllTables(types)
     /\ c.pc = "loaded" => typeSystems[VersionOf[a]] = ts

TablesInv ==
  InOrder =>
    /\ up
    /\ \A a \in Apply : Migrating(a) => CanMigrate(a)
    /\ \/ \E a \in Apply : Migrating(a)
       \/ \E d \in Delete : del[d].pc = "unlisted"
       \/ TablesInStep

\* Without deletes only the version that is being migrated is out of step in memory.
MemoryInv ==
  Undeleted /\ faults = 0 =>
    \A v \in VersionId :
      \/ typeSystems[v] = types[v]
      \/ \E a \in Apply : call[a].pc = "committed" /\ VersionOf[a] = v

StartInv == Undeleted => Listed \subseteq policy

\* Models that do not load are the last ones persisted, and their apply fails.
UnloadableInv ==
  /\ unloadable \subseteq VersionId
  /\ InOrder => unloadable = {}
  /\ Undeleted => \A v \in unloadable : NotLoaded(v)

\* Calls one at a time: v is served as it was persisted, or it is gone; and a type
\* system in memory that is out of date refers to a table that is gone, for which
\* applies are refused.
Settled(v) ==
  /\ \/ trunk[v] = NoVersion /\ types[v] = NoTypes
     \/ trunk[v] = [code |-> code[v], ts |-> types[v]] /\ typeSystems[v] = types[v]
  /\ Tables(typeSystems[v]) \subseteq tables => typeSystems[v] = types[v]

\* The call that changes v.
ApplyOn(a, v)  == call[a].pc \in {"committed", "loaded", "migrated"} /\ VersionOf[a] = v
DeleteOn(d, v) == DeleteRuns(d) /\ DeleteOf[d] = v

AppliedOne(a) ==
  LET v == VersionOf[a] IN
  /\ call[a].pc \in {"committed", "loaded", "migrated"} => code[v] = a
  /\ call[a].pc = "migrated" => call[a].ts = types[v] /\ typeSystems[v] = types[v]

DeletedOne(d) ==
  LET v == DeleteOf[d] IN
  /\ DeleteRuns(d) => trunk[v] = NoVersion /\ typeSystems[v] = del[d].ts
  /\ del[d].pc = "unrouted" => types[v] = del[d].ts
  /\ del[d].pc = "unlisted" =>
       /\ types[v] = NoTypes
       /\ tables = AllTables(types) \cup Tables(del[d].ts)

Alone ==
  /\ \A a, b \in Apply : ApplyRuns(a) /\ ApplyRuns(b) => a = b
  /\ \A d, e \in Delete : DeleteRuns(d) /\ DeleteRuns(e) => d = e
  /\ \A a \in Apply, d \in Delete : ~ (ApplyRuns(a) /\ DeleteRuns(d))

OneByOneInv ==
  faults = 0 /\ ~overlapped =>
    /\ Alone
    /\ \A a \in Apply : AppliedOne(a)
    /\ \A d \in Delete : DeletedOne(d)
    /\ \A v \in VersionId : \/ Settled(v)
                            \/ \E a \in Apply : ApplyOn(a, v)
                            \/ \E d \in Delete : DeleteOn(d, v)

ControlInv == /\ ControlTypeOK /\ OneMigration /\ TablesNamed /\ LoadedInv /\ DownInv
              /\ TablesInv /\ MemoryInv /\ StartInv /\ UnloadableInv /\ OneByOneInv
=============================================================================
