------------------------- MODULE ControlPlaneProofs -------------------------
(***************************************************************************)
(* Proofs about ControlPlane, for every set of versions, models and        *)
(* requests.  ControlInv is inductive.  Its first parts (BaseInv) hold     *)
(* whatever happens; the others (StepInv) say which of the meta tables,    *)
(* the backing tables, the type systems in memory and the trunk agree, at  *)
(* every point of an apply or a delete, for the two histories for which    *)
(* they can: applies that overlap without deletes, and calls that come one *)
(* at a time.  The last section is about Secrets, which applies update.    *)
(***************************************************************************)
EXTENDS ControlPlane, Secrets, TLAPS

-----------------------------------------------------------------------------
(* What a step does to the record of a call.                               *)

CallPcs == {"new", "valid", "locked", "committed", "loaded", "migrated"} \cup Ended
DelPcs  == {"new", "unrouted", "unlisted"} \cup Ended

\* The records of the other calls stay.
OthersStay(a) == \A b \in Apply \ {a} : call'[b] = call[b]
OtherDelsStay(d) == \A e \in Delete \ {d} : del'[e] = del[e]

\* A call moves on.
LEMMA SetPc ==
  ASSUME CallTypeOK, NEW a \in Apply, NEW pc \in CallPcs, call' = [call EXCEPT ![a].pc = pc]
  PROVE  /\ call' \in [Apply -> CallState]
         /\ OthersStay(a)
         /\ call'[a].pc = pc /\ call'[a].insert = call[a].insert
         /\ call'[a].drop = call[a].drop /\ call'[a].keep = call[a].keep
         /\ call'[a].ts = call[a].ts
<1>1. call \in [Apply -> CallState]
  BY DEF CallTypeOK
<1>2. [call[a] EXCEPT !.pc = pc] \in CallState
  BY <1>1 DEF CallState, CallPcs
<1>3. call'[a] = [call[a] EXCEPT !.pc = pc]
  BY <1>1
<1>4. call' \in [Apply -> CallState]
  BY <1>1, <1>2
<1>5. OthersStay(a)
  BY <1>1 DEF OthersStay
<1> QED
  BY <1>1, <1>3, <1>4, <1>5 DEF CallState

\* A call ends.
LEMMA SetNew ==
  ASSUME CallTypeOK, NEW a \in Apply, NEW pc \in CallPcs,
         call' = [call EXCEPT ![a] = [NewCall EXCEPT !.pc = pc]]
  PROVE  call' \in [Apply -> CallState] /\ OthersStay(a) /\ call'[a].pc = pc
<1>1. call \in [Apply -> CallState]
  BY DEF CallTypeOK
<1>2. [NewCall EXCEPT !.pc = pc] \in CallState
  BY DEF CallState, NewCall, NoTypes, TypeSystem, CallPcs
<1>3. [NewCall EXCEPT !.pc = pc].pc = pc
  BY DEF NewCall
<1> QED
  BY <1>1, <1>2, <1>3 DEF OthersStay

\* A delete moves on.
LEMMA SetDelPc ==
  ASSUME CallTypeOK, NEW d \in Delete, NEW pc \in DelPcs, del' = [del EXCEPT ![d].pc = pc]
  PROVE  /\ del' \in [Delete -> DelState]
         /\ OtherDelsStay(d)
         /\ del'[d].pc = pc /\ del'[d].ts = del[d].ts
<1>1. del \in [Delete -> DelState]
  BY DEF CallTypeOK
<1>2. [del[d] EXCEPT !.pc = pc] \in DelState
  BY <1>1 DEF DelState, DelPcs
<1>3. del'[d] = [del[d] EXCEPT !.pc = pc]
  BY <1>1
<1>4. del' \in [Delete -> DelState]
  BY <1>1, <1>2
<1>5. OtherDelsStay(d)
  BY <1>1 DEF OtherDelsStay
<1> QED
  BY <1>1, <1>3, <1>4, <1>5 DEF DelState

\* A delete ends.
LEMMA SetNewDel ==
  ASSUME CallTypeOK, NEW d \in Delete, NEW pc \in DelPcs,
         del' = [del EXCEPT ![d] = [NewDel EXCEPT !.pc = pc]]
  PROVE  del' \in [Delete -> DelState] /\ OtherDelsStay(d) /\ del'[d].pc = pc
<1>1. del \in [Delete -> DelState]
  BY DEF CallTypeOK
<1>2. [NewDel EXCEPT !.pc = pc] \in DelState
  BY DEF DelState, NewDel, NoTypes, TypeSystem, DelPcs
<1>3. [NewDel EXCEPT !.pc = pc].pc = pc
  BY DEF NewDel
<1> QED
  BY <1>1, <1>2, <1>3 DEF OtherDelsStay

-----------------------------------------------------------------------------
\* The parts that hold whatever happens.
BaseInv == ControlTypeOK /\ OneMigration /\ TablesNamed /\ LoadedInv
\* The parts about what is in step.
StepInv == TablesInv /\ MemoryInv /\ StartInv /\ OneByOneInv

\* A call that fails, is refused or is lost.
LEMMA FailBase ==
  ASSUME BaseInv, NEW a \in Apply, Fail(a), UNCHANGED <<durable, typeSystems, trunk, del>>, FlagTypeOK'
  PROVE  BaseInv' /\ OthersStay(a) /\ call'[a].pc = "failed"
<1>1. call' \in [Apply -> CallState] /\ OthersStay(a) /\ call'[a].pc = "failed"
  BY SetNew DEF BaseInv, ControlTypeOK, Fail, CallPcs, Ended
<1>2. lock' = IF lock = a THEN NoApply ELSE lock
  BY DEF Fail
<1>3. ControlTypeOK'
  BY <1>1, <1>2 DEF BaseInv, ControlTypeOK, CallTypeOK, StateTypeOK, durable
<1>4. OneMigration'
  BY <1>1, <1>2, ControlAssumption DEF BaseInv, OneMigration, OthersStay
<1>5. TablesNamed'
  BY DEF BaseInv, TablesNamed, durable
<1>6. LoadedInv'
  BY <1>1 DEF BaseInv, LoadedInv, OthersStay, Names
<1> QED
  BY <1>1, <1>3, <1>4, <1>5, <1>6 DEF BaseInv

\* A fault leaves only the parts to show that hold whatever happens.
LEMMA FaultStep ==
  ASSUME StepInv, faults' # 0, Undeleted' => Undeleted, code' = code, policy' = policy
  PROVE  StepInv'
<1>1. TablesInv' /\ MemoryInv' /\ OneByOneInv'
  BY DEF TablesInv, MemoryInv, OneByOneInv, InOrder
<1>2. StartInv'
  BY DEF StepInv, StartInv, CanStart, Listed
<1> QED
  BY <1>1, <1>2 DEF StepInv

\* A call that is in none of the phases that change the database.
Calm(pc) == pc \notin {"committed", "loaded", "migrated"}

\* A step of apply a that changes no more than where it is.
LEMMA CalmStep ==
  ASSUME StepInv, NEW a \in Apply, OthersStay(a), Calm(call[a].pc), Calm(call'[a].pc),
         UNCHANGED <<durable, typeSystems, trunk, del, up, faults>>,
         ~overlapped' => ~overlapped, ~overlapped' /\ Alone => Alone'
  PROVE  StepInv'
<1>1. /\ UNCHANGED <<code, policy, types, tables, typeSystems, trunk, del, up, faults>>
      /\ Undeleted' = Undeleted
      /\ TablesInStep' = TablesInStep
  BY DEF durable, Undeleted, TablesInStep, Tables, Names
<1>2. \A b \in Apply : Migrating(b)' <=> Migrating(b)
  BY DEF Migrating, OthersStay, Calm
<1>3. \A b \in Apply : Migrating(b) => call'[b] = call[b]
  BY DEF Migrating, OthersStay, Calm
<1>4. \A b \in Apply : Migrating(b) /\ CanMigrate(b) => CanMigrate(b)'
  BY <1>1, <1>3 DEF CanMigrate, Tables, Names
<1>5. TablesInv'
  BY <1>1, <1>2, <1>4 DEF StepInv, TablesInv, InOrder
<1>6. MemoryInv'
  BY <1>1 DEF StepInv, MemoryInv, OthersStay, Calm
<1>7. StartInv'
  BY <1>1 DEF StepInv, StartInv, CanStart, Listed
<1>8. ASSUME faults' = 0, ~overlapped'
      PROVE  OneByOneInv'
  <2>1. Alone /\ (\A b \in Apply : AppliedOne(b)) /\ (\A d \in Delete : DeletedOne(d))
    BY <1>1, <1>8 DEF StepInv, OneByOneInv
  <2>2. \A b \in Apply : AppliedOne(b)'
    BY <1>1, <2>1 DEF AppliedOne, OthersStay, Calm
  <2>3. \A d \in Delete : DeletedOne(d)'
    BY <1>1, <2>1 DEF DeletedOne, DeleteRuns, Tables, Names
  <2>4. \A v \in VersionId : Settled(v) => Settled(v)'
    BY <1>1 DEF Settled, Tables, Names
  <2>5. \A v \in VersionId, b \in Apply : ApplyOn(b, v) => ApplyOn(b, v)'
    BY DEF ApplyOn, OthersStay, Calm
  <2>6. \A v \in VersionId, d \in Delete : DeleteOn(d, v) => DeleteOn(d, v)'
    BY <1>1 DEF DeleteOn, DeleteRuns
  <2> QED
    BY <1>1, <1>8, <2>1, <2>2, <2>3, <2>4, <2>5, <2>6 DEF StepInv, OneByOneInv
<1> QED
  BY <1>5, <1>6, <1>7, <1>8 DEF StepInv, OneByOneInv

\* rpc.rs 151-172: a call begins, or is refused at once.
LEMMA ValidateStep ==
  ASSUME BaseInv, StepInv, NEW a \in Apply, validate_modules(a)
  PROVE  BaseInv' /\ StepInv'
<1>1. PICK pc \in {"valid", "failed"} : call' = [call EXCEPT ![a].pc = pc]
  BY DEF validate_modules
<1>2. call' \in [Apply -> CallState] /\ OthersStay(a) /\ call'[a].pc = pc
  BY <1>1, SetPc DEF BaseInv, ControlTypeOK, CallPcs, Ended
<1>3. UNCHANGED <<code, policy, types, tables, rows, unloadable, typeSystems, lock, trunk, del, up,
                 faults>>
  BY DEF validate_modules, durable
<1>4. /\ call[a].pc = "new"
      /\ overlapped' = (overlapped \/ ~Idle)
  BY DEF validate_modules
<1>5. BaseInv'
  <2>1. overlapped' \in BOOLEAN
    BY <1>4
  <2>2. FlagTypeOK'
    BY <1>3, <2>1 DEF BaseInv, ControlTypeOK, FlagTypeOK
  <2>3. StateTypeOK' /\ CallTypeOK'
    BY <1>2, <1>3 DEF BaseInv, ControlTypeOK, StateTypeOK, CallTypeOK
  <2>4. OneMigration'
    BY <1>1, <1>2, <1>3, <1>4 DEF BaseInv, OneMigration, OthersStay
  <2>5. TablesNamed'
    BY <1>3 DEF BaseInv, TablesNamed
  <2>6. LoadedInv'
    BY <1>1, <1>2, <1>3 DEF BaseInv, LoadedInv, OthersStay, Names
  <2> QED
    BY <2>2, <2>3, <2>4, <2>5, <2>6 DEF BaseInv, ControlTypeOK
<1>6. ~overlapped' => Alone'
  <2> SUFFICES ASSUME ~overlapped' PROVE Alone'
    OBVIOUS
  <2>1. \A b \in Apply : ~ ApplyRuns(b)
    BY <1>4 DEF Idle, Running
  <2>2. \A d \in Delete : ~ DeleteRuns(d)
    BY <1>4 DEF Idle, Running
  <2>3. \A b \in Apply \ {a} : ~ ApplyRuns(b)'
    BY <1>2, <2>1 DEF ApplyRuns, OthersStay
  <2>4. \A d \in Delete : ~ DeleteRuns(d)'
    BY <1>3, <2>2 DEF DeleteRuns
  <2> QED
    BY <2>3, <2>4 DEF Alone
<1>7. StepInv'
  <2>1. Calm(call[a].pc) /\ Calm(call'[a].pc)
    BY <1>1, <1>2, <1>4 DEF Calm
  <2> QED
    BY <1>2, <1>3, <1>4, <1>6, <2>1, CalmStep DEF durable
<1> QED
  BY <1>5, <1>7

\* rpc.rs 194: the mutex is taken.
LEMMA LockStep ==
  ASSUME BaseInv, StepInv, NEW a \in Apply, lock_type_systems(a)
  PROVE  BaseInv' /\ StepInv'
<1>1. call' \in [Apply -> CallState] /\ OthersStay(a) /\ call'[a].pc = "locked"
  BY SetPc DEF lock_type_systems, BaseInv, ControlTypeOK, CallPcs
<1>2. UNCHANGED <<code, policy, types, tables, rows, unloadable, typeSystems, trunk, del, up, faults,
                 overlapped>>
  BY DEF lock_type_systems, durable
<1>3. call[a].pc = "valid" /\ lock = NoApply /\ lock' = a
  BY DEF lock_type_systems
<1>4. BaseInv'
  <2>1. ControlTypeOK'
    BY <1>1, <1>2, <1>3 DEF BaseInv, ControlTypeOK, FlagTypeOK, StateTypeOK, CallTypeOK
  <2>4. OneMigration'
    BY <1>1, <1>3, ControlAssumption DEF BaseInv, OneMigration, OthersStay
  <2>5. TablesNamed'
    BY <1>2 DEF BaseInv, TablesNamed
  <2>6. LoadedInv'
    BY <1>1, <1>2 DEF BaseInv, LoadedInv, OthersStay, Names
  <2> QED
    BY <2>1, <2>4, <2>5, <2>6 DEF BaseInv
<1>5. Alone => Alone'
  <2>1. \A b \in Apply : ApplyRuns(b)' = ApplyRuns(b)
    BY <1>1, <1>3 DEF ApplyRuns, OthersStay, Ended
  <2> QED
    BY <1>2, <2>1 DEF Alone, DeleteRuns
<1>6. StepInv'
  <2>1. Calm(call[a].pc) /\ Calm(call'[a].pc)
    BY <1>1, <1>3 DEF Calm
  <2> QED
    BY <1>1, <1>2, <1>5, <2>1, CalmStep DEF durable
<1> QED
  BY <1>4, <1>6

\* apply.rs: refused before anything is committed; the mutex is released.
LEMMA RefusedStep ==
  ASSUME BaseInv, StepInv, NEW a \in Apply, apply_refused(a)
  PROVE  BaseInv' /\ StepInv'
<1>1. /\ call[a].pc = "locked" /\ Fail(a)
      /\ UNCHANGED <<durable, typeSystems, trunk, del, up, faults, overlapped>>
  BY DEF apply_refused
<1>2. BaseInv' /\ OthersStay(a) /\ call'[a].pc = "failed"
  BY <1>1, FailBase DEF BaseInv, ControlTypeOK, FlagTypeOK
<1>3. Alone => Alone'
  <2>1. \A b \in Apply : ApplyRuns(b)' => ApplyRuns(b)
    BY <1>2 DEF ApplyRuns, OthersStay, Ended
  <2> QED
    BY <1>1, <2>1 DEF Alone, DeleteRuns
<1>4. Calm(call[a].pc) /\ Calm(call'[a].pc)
  BY <1>1, <1>2 DEF Calm
<1> QED
  BY <1>1, <1>2, <1>3, <1>4, CalmStep

\* A call is dropped where it awaits.
LEMMA LostStep ==
  ASSUME BaseInv, StepInv, NEW a \in Apply, apply_lost(a)
  PROVE  BaseInv' /\ StepInv'
<1>1. /\ Fail(a) /\ faults < MaxFaults /\ faults' = faults + 1
      /\ UNCHANGED <<durable, typeSystems, trunk, del, up, overlapped>>
  BY DEF apply_lost
<1>2. FlagTypeOK' /\ faults' # 0
  BY <1>1, ControlAssumption DEF BaseInv, ControlTypeOK, FlagTypeOK
<1>3. BaseInv'
  BY <1>1, <1>2, FailBase
<1>4. StepInv'
  BY <1>1, <1>2, FaultStep DEF Undeleted, durable
<1> QED
  BY <1>3, <1>4

-----------------------------------------------------------------------------
\* The tables that the meta tables list.
LEMMA Listing ==
  \A x : x \in AllTables(types)
           <=> \E v \in VersionId, n \in TypeName : types[v][n] = x /\ x # NoTable
  BY DEF AllTables, Tables, Names

\* The same after a step.
LEMMA ListingAfter ==
  \A x : x \in AllTables(types')
           <=> \E v \in VersionId, n \in TypeName : types'[v][n] = x /\ x # NoTable
  BY DEF AllTables, Tables, Names

\* A table that a version lists is of that version and that model.
LEMMA OwnTables ==
  ASSUME NEW v \in VersionId, NEW w \in VersionId, NEW n \in TypeName, NEW m \in TypeName,
         NEW x \in Own(v, n), NEW y \in Own(w, m), x = y, x # NoTable
  PROVE  v = w /\ n = m
  BY DEF Own

\* Only the apply that holds the lock migrates.
LEMMA OneMigrates ==
  ASSUME BaseInv, NEW a \in Apply, call[a].pc \in {"locked", "committed", "loaded"}
  PROVE  /\ lock = a
         /\ \A b \in Apply \ {a} : call[b].pc \notin {"locked", "committed", "loaded"}
  BY DEF BaseInv, OneMigration

\* In order, an apply that runs when calls come one at a time runs alone.
LEMMA AloneApply ==
  ASSUME OneByOneInv, faults = 0, ~overlapped, NEW a \in Apply, ApplyRuns(a)
  PROVE  /\ \A b \in Apply \ {a} : ~ ApplyRuns(b)
         /\ \A d \in Delete : ~ DeleteRuns(d)
  BY DEF OneByOneInv, Alone

\* The same of a delete.
LEMMA AloneDelete ==
  ASSUME OneByOneInv, faults = 0, ~overlapped, NEW d \in Delete, DeleteRuns(d)
  PROVE  /\ \A a \in Apply : ~ ApplyRuns(a)
         /\ \A e \in Delete \ {d} : ~ DeleteRuns(e)
  BY DEF OneByOneInv, Alone

\* In order, no table is about to be dropped by a delete while an apply runs.
LEMMA NoDropsWithApply ==
  ASSUME StepInv, InOrder, NEW a \in Apply, ApplyRuns(a)
  PROVE  \A d \in Delete : del[d].pc # "unlisted"
<1>1. CASE Undeleted
  BY <1>1 DEF Undeleted
<1>2. CASE ~overlapped
  BY <1>2, AloneApply DEF StepInv, InOrder, DeleteRuns, Ended
<1> QED
  BY <1>1, <1>2 DEF InOrder

\* In order, an apply that is not refused starts from what the meta tables say.
LEMMA StartsInStep ==
  ASSUME BaseInv, StepInv, InOrder, NEW a \in Apply, call[a].pc = "locked",
         Tables(typeSystems[VersionOf[a]]) \subseteq tables
  PROVE  typeSystems[VersionOf[a]] = types[VersionOf[a]] /\ TablesInStep
<1> DEFINE v == VersionOf[a]
<1>1. v \in VersionId
  BY ControlAssumption
<1>2. \A b \in Apply : call[b].pc \notin {"committed", "loaded"}
  BY OneMigrates
<1>3. ApplyRuns(a)
  BY DEF ApplyRuns, Ended
<1>4. TablesInStep
  BY <1>2, <1>3, NoDropsWithApply DEF StepInv, TablesInv, Migrating
<1>5. CASE Undeleted
  BY <1>1, <1>2, <1>4, <1>5 DEF StepInv, MemoryInv, InOrder
<1>6. CASE ~overlapped
  <2>1. \A b \in Apply : call[b].pc # "migrated"
    BY <1>3, <1>6, AloneApply DEF StepInv, InOrder, ApplyRuns, Ended
  <2>2. Settled(v)
    BY <1>1, <1>2, <1>3, <1>6, <2>1, AloneApply DEF StepInv, OneByOneInv, InOrder, ApplyOn, DeleteOn
  <2> QED
    BY <1>4, <2>2 DEF Settled
<1> QED
  BY <1>5, <1>6 DEF InOrder

\* Calls one at a time: what is left to show of a step of the apply that runs.
LEMMA SettledOthers ==
  ASSUME OneByOneInv, faults = 0, ~overlapped, NEW a \in Apply, ApplyRuns(a),
         NEW w \in VersionId, w # VersionOf[a]
  PROVE  Settled(w)
  BY AloneApply DEF OneByOneInv, ApplyOn, DeleteOn, ApplyRuns, Ended

\* And the parts of OneByOneInv that are left then.
LEMMA OnlyApply ==
  ASSUME OneByOneInv, faults = 0, ~overlapped, NEW a \in Apply, ApplyRuns(a),
         OthersStay(a), del' = del, AppliedOne(a)',
         \A w \in VersionId : Settled(w)' \/ ApplyOn(a, w)'
  PROVE  OneByOneInv'
<1>1. /\ \A b \in Apply \ {a} : ~ ApplyRuns(b)
      /\ \A d \in Delete : ~ DeleteRuns(d)
  BY AloneApply
<1>2. /\ \A b \in Apply \ {a} : ~ ApplyRuns(b)'
      /\ \A d \in Delete : ~ DeleteRuns(d)'
  BY <1>1 DEF ApplyRuns, DeleteRuns, OthersStay
<1>3. Alone'
  BY <1>2 DEF Alone
<1>4. \A b \in Apply : AppliedOne(b)'
  BY <1>2 DEF AppliedOne, ApplyRuns, Ended
<1>5. \A d \in Delete : DeletedOne(d)'
  BY <1>2 DEF DeletedOne, DeleteRuns, Ended
<1> QED
  BY <1>3, <1>4, <1>5 DEF OneByOneInv

\* apply.rs up to the commit of the first transaction.
LEMMA MetaStep ==
  ASSUME BaseInv, StepInv, NEW a \in Apply, apply_meta(a)
  PROVE  BaseInv' /\ StepInv'
<1> DEFINE v       == VersionOf[a]
           old     == typeSystems[v]
           removed == Names(old) \ TypesOf[a]
           added   == TypesOf[a] \ Names(old)
           c       == [pc |-> "committed", insert |-> added, drop |-> {old[n] : n \in removed},
                       keep |-> TypesOf[a] \cap Names(old), ts |-> NoTypes]
<1>1. /\ call[a].pc = "locked" /\ Tables(old) \subseteq tables
      /\ \A n \in added : types[v][n] = NoTable
      /\ types' = [types EXCEPT ![v] = [n \in TypeName |->
                    CASE n \in added -> NewTable(a, n)
                      [] n \in removed /\ types[v][n] = old[n] -> NoTable
                      [] OTHER -> types[v][n]]]
      /\ policy' = policy \cup {v}
      /\ code' = [code EXCEPT ![v] = a]
      /\ call' = [call EXCEPT ![a] = c]
      /\ UNCHANGED <<tables, rows, typeSystems, lock, trunk, del, up, overlapped>>
  BY DEF apply_meta, PolicyPersisted
<1>13. faults' = faults \/ (faults < MaxFaults /\ faults' = faults + 1)
  BY DEF apply_meta, Persisted
<1>12. FlagTypeOK' /\ (faults' = 0 => faults = 0)
  <2>1. up \in BOOLEAN /\ overlapped \in BOOLEAN /\ faults \in 0 .. MaxFaults /\ MaxFaults \in Nat
    BY ControlAssumption DEF BaseInv, ControlTypeOK, FlagTypeOK
  <2>2. faults' \in 0 .. MaxFaults /\ (faults' = 0 => faults = 0)
    BY <1>13, <2>1
  <2> QED
    BY <1>1, <2>1, <2>2 DEF FlagTypeOK
<1>2. /\ v \in VersionId /\ TypesOf[a] \subseteq TypeName
      /\ types \in [VersionId -> TypeSystem] /\ old \in TypeSystem
      /\ code \in [VersionId -> Apply \cup {NoApply}]
      /\ call \in [Apply -> CallState]
  BY ControlAssumption DEF BaseInv, ControlTypeOK, StateTypeOK, CallTypeOK
<1>3. /\ \A w \in VersionId \ {v} : types'[w] = types[w] /\ code'[w] = code[w]
      /\ code'[v] = a
      /\ \A n \in TypeName :
           /\ n \in added => types'[v][n] = <<a, n>>
           /\ n \in removed => types'[v][n] = IF types[v][n] = old[n] THEN NoTable ELSE types[v][n]
           /\ n \notin added \cup removed => types'[v][n] = types[v][n]
  BY <1>1, <1>2 DEF NewTable
<1>4. c \in CallState
  BY <1>2 DEF CallState, NoTypes, TypeSystem, Names
<1>5. /\ call' \in [Apply -> CallState] /\ OthersStay(a) /\ call'[a] = c
  BY <1>1, <1>2, <1>4 DEF OthersStay
<1>6. BaseInv'
  <2>1. types' \in [VersionId -> TypeSystem]
    <3>1. [n \in TypeName |->
                    CASE n \in added -> NewTable(a, n)
                      [] n \in removed /\ types[v][n] = old[n] -> NoTable
                      [] OTHER -> types[v][n]] \in TypeSystem
      BY <1>2 DEF TypeSystem, NewTable, Table
    <3> QED
      BY <1>1, <1>2, <3>1
  <2>2. StateTypeOK'
    BY <1>1, <1>2, <2>1 DEF BaseInv, ControlTypeOK, StateTypeOK
  <2>3. CallTypeOK' /\ FlagTypeOK'
    BY <1>1, <1>5, <1>12 DEF BaseInv, ControlTypeOK, CallTypeOK
  <2>4. OneMigration'
    BY <1>1, <1>5 DEF BaseInv, OneMigration, OthersStay
  <2>5. TablesNamed'
    <3> SUFFICES ASSUME NEW w \in VersionId, NEW n \in TypeName
                 PROVE  types'[w][n] \in Own(w, n) /\ typeSystems'[w][n] \in Own(w, n)
      BY DEF TablesNamed
    <3>1. types[w][n] \in Own(w, n) /\ typeSystems'[w][n] \in Own(w, n)
      BY <1>1 DEF BaseInv, TablesNamed
    <3>2. CASE w = v
      <4>1. <<a, n>> \in Own(v, n) /\ NoTable \in Own(v, n)
        BY DEF Own
      <4> QED
        BY <1>3, <3>1, <3>2, <4>1
    <3>3. CASE w # v
      BY <1>3, <3>1, <3>3
    <3> QED
      BY <3>2, <3>3
  <2>6. LoadedInv'
    BY <1>1, <1>5 DEF BaseInv, LoadedInv, OthersStay, Names
  <2> QED
    BY <2>2, <2>3, <2>4, <2>5, <2>6 DEF BaseInv, ControlTypeOK
<1>7. StartInv'
  BY <1>1, <1>2, <1>3 DEF StepInv, StartInv, CanStart, Listed, Undeleted
<1>8. ASSUME InOrder' PROVE TablesInv' /\ MemoryInv' /\ OneByOneInv'
  <2>1. InOrder
    BY <1>1, <1>8, <1>12 DEF InOrder, Undeleted
  <2>2. old = types[v] /\ TablesInStep
    BY <1>1, <2>1, StartsInStep
  <2>3. \A b \in Apply \ {a} : call[b].pc \notin {"locked", "committed", "loaded"}
    BY <1>1, OneMigrates
  <2>4. ApplyRuns(a)
    BY <1>1 DEF ApplyRuns, Ended
  <2>5. \A n \in TypeName :
          /\ n \in added => types'[v][n] = <<a, n>>
          /\ n \in removed => types'[v][n] = NoTable
          /\ n \notin added \cup removed => types'[v][n] = old[n]
    BY <1>3, <2>2
  <2>6. \A n \in TypeName : <<a, n>> # NoTable
    BY ControlAssumption
  <2>7. Names(types'[v]) = TypesOf[a]
    BY <1>2, <2>5, <2>6 DEF Names
  <2>8. CanMigrate(a)'
    <3>1. \A x : x \in tables <=>
                   \E w \in VersionId, n \in TypeName : types[w][n] = x /\ x # NoTable
      BY <2>2, Listing DEF TablesInStep
    <3>2. c.drop \cup {types'[v][n] : n \in c.keep} \subseteq tables
      BY <1>1, <1>2, <2>5 DEF Tables, Names
    <3>3. \A w \in VersionId, n \in TypeName : types[w][n] \in Own(w, n)
      BY DEF BaseInv, TablesNamed
    <3>4. ASSUME NEW w \in VersionId, NEW n \in TypeName, types'[w][n] # NoTable
          PROVE  /\ types'[w][n] \notin c.drop
                 /\ types'[w][n] \in tables \cup {types'[v][m] : m \in added}
      <4>1. CASE w # v
        BY <1>2, <1>3, <2>2, <3>1, <3>3, <3>4, <4>1, OwnTables DEF Names
      <4>2. CASE w = v /\ n \in added
        <5>1. <<a, n>> \in Own(v, n)
          BY DEF Own
        <5> QED
          BY <1>2, <2>2, <2>5, <2>6, <3>3, <4>2, <5>1, OwnTables DEF Names
      <4>3. CASE w = v /\ n \notin added
        BY <1>2, <2>2, <2>5, <3>1, <3>3, <3>4, <4>3, OwnTables DEF Names
      <4> QED
        BY <4>1, <4>2, <4>3
    <3>5. ASSUME NEW x \in (tables \cup {types'[v][n] : n \in added}) \ c.drop
          PROVE  \E w \in VersionId, n \in TypeName : types'[w][n] = x /\ x # NoTable
      <4>1. CASE x \in tables
        <5>1. PICK w \in VersionId, n \in TypeName : types[w][n] = x /\ x # NoTable
          BY <3>1, <4>1
        <5>2. CASE w # v
          BY <1>3, <5>1, <5>2
        <5>3. CASE w = v
          <6>1. n \in Names(old)
            BY <2>2, <5>1, <5>3 DEF Names
          <6>2. n \notin removed
            BY <2>2, <3>5, <5>1, <5>3
          <6> QED
            BY <2>2, <2>5, <5>1, <5>3, <6>1, <6>2
        <5> QED
          BY <5>2, <5>3
      <4>2. CASE x \in {types'[v][n] : n \in added}
        <5>1. PICK n \in added : x = types'[v][n]
          BY <4>2
        <5>2. n \in TypeName
          BY <1>2
        <5> QED
          BY <1>2, <2>5, <2>6, <5>1, <5>2
      <4> QED
        BY <3>5, <4>1, <4>2
    <3>6. (tables \cup {types'[v][n] : n \in c.insert}) \ c.drop
            = AllTables(types')
      <4> DEFINE L == (tables \cup {types'[v][n] : n \in added}) \ c.drop
                 R == AllTables(types')
      <4>1. \A x \in L : x \in R
        BY <3>5, ListingAfter
      <4>2. ASSUME NEW x \in R PROVE x \in L
        <5>1. PICK w \in VersionId, n \in TypeName : types'[w][n] = x /\ x # NoTable
          BY <4>2, ListingAfter
        <5> QED
          BY <3>4, <5>1
      <4> HIDE DEF R
      <4>3. L = R
        BY <4>1, <4>2
      <4> QED
        BY <4>3 DEF R
    <3>7. c.insert \cup c.keep \subseteq Names(types'[v])
      BY <2>7
    <3> QED
      BY <1>1, <1>5, <3>2, <3>6, <3>7 DEF CanMigrate
  <2>9. TablesInv'
    <3>1. \A b \in Apply \ {a} : ~ Migrating(b)'
      BY <1>5, <2>3 DEF Migrating, OthersStay
    <3>2. Migrating(a)'
      BY <1>5 DEF Migrating
    <3>3. up'
      BY <1>1, <2>1 DEF StepInv, TablesInv
    <3> QED
      BY <2>8, <3>1, <3>2, <3>3 DEF TablesInv
  <2>10. MemoryInv'
    <3> SUFFICES ASSUME Undeleted', faults' = 0, NEW w \in VersionId
                 PROVE  \/ typeSystems'[w] = types'[w]
                        \/ \E b \in Apply : call'[b].pc = "committed" /\ VersionOf[b] = w
      BY DEF MemoryInv
    <3>1. CASE w = v
      BY <1>5, <3>1
    <3>2. CASE w # v
      <4>1. \A b \in Apply : call[b].pc # "committed"
        BY <1>1, <2>3
      <4>2. typeSystems[w] = types[w]
        BY <1>1, <1>12, <4>1 DEF StepInv, MemoryInv, Undeleted
      <4> QED
        BY <1>1, <1>3, <3>2, <4>2
    <3> QED
      BY <3>1, <3>2
  <2>11. OneByOneInv'
    <3> SUFFICES ASSUME faults' = 0, ~overlapped'
                 PROVE  OneByOneInv'
      BY DEF OneByOneInv
    <3>1. OneByOneInv /\ faults = 0 /\ ~overlapped
      BY <1>1, <1>12 DEF StepInv
    <3>2. AppliedOne(a)'
      BY <1>3, <1>5 DEF AppliedOne
    <3>3. ASSUME NEW w \in VersionId PROVE Settled(w)' \/ ApplyOn(a, w)'
      <4>1. CASE w = v
        BY <1>5, <4>1 DEF ApplyOn
      <4>2. CASE w # v
        BY <1>1, <1>3, <2>4, <3>1, <4>2, SettledOthers DEF Settled
      <4> QED
        BY <4>1, <4>2
    <3> QED
      BY <1>1, <1>5, <2>4, <3>1, <3>2, <3>3, OnlyApply
  <2> QED
    BY <2>9, <2>10, <2>11
<1>9. ASSUME ~InOrder' PROVE TablesInv' /\ MemoryInv' /\ OneByOneInv'
  BY <1>9 DEF InOrder, TablesInv, MemoryInv, OneByOneInv
<1> QED
  BY <1>6, <1>7, <1>8, <1>9 DEF StepInv

\* rpc.rs: the type system is loaded again.
LEMMA ReloadStep ==
  ASSUME BaseInv, StepInv, NEW a \in Apply, apply_reload(a), unloadable = {}
  PROVE  BaseInv' /\ StepInv'
<1> DEFINE v     == VersionOf[a]
           there == call[a].insert \cup call[a].keep \subseteq Names(types[v])
<1>1. /\ call[a].pc = "committed"
      /\ typeSystems' = [typeSystems EXCEPT ![v] = types[v]]
      /\ there => call' = [call EXCEPT ![a].pc = "loaded"] /\ lock' = lock
      /\ ~there => Fail(a)
      /\ UNCHANGED <<code, policy, types, tables, rows, trunk, del, up, faults, overlapped>>
  BY DEF apply_reload, durable
<1>2. v \in VersionId /\ types \in [VersionId -> TypeSystem] /\ typeSystems \in [VersionId -> TypeSystem]
  BY ControlAssumption DEF BaseInv, ControlTypeOK, StateTypeOK
<1>3. /\ typeSystems' \in [VersionId -> TypeSystem]
      /\ typeSystems'[v] = types[v]
      /\ \A w \in VersionId \ {v} : typeSystems'[w] = typeSystems[w]
  BY <1>1, <1>2
<1>4. lock = a /\ \A b \in Apply \ {a} : call[b].pc \notin {"locked", "committed", "loaded"}
  BY <1>1, OneMigrates
<1>5. ASSUME there
      PROVE  /\ call' \in [Apply -> CallState] /\ OthersStay(a) /\ call'[a].pc = "loaded"
             /\ call'[a].insert = call[a].insert /\ call'[a].drop = call[a].drop
             /\ call'[a].keep = call[a].keep
             /\ lock' = lock
  BY <1>1, <1>5, SetPc DEF BaseInv, ControlTypeOK, CallPcs
<1>6. ASSUME ~there
      PROVE  /\ call' \in [Apply -> CallState] /\ OthersStay(a) /\ call'[a].pc = "failed"
             /\ lock' = NoApply
  BY <1>1, <1>4, <1>6, SetNew DEF BaseInv, ControlTypeOK, CallPcs, Fail, Ended
<1>7. call' \in [Apply -> CallState] /\ OthersStay(a)
  BY <1>5, <1>6
<1>8. BaseInv'
  <2>1. ControlTypeOK'
    BY <1>1, <1>3, <1>4, <1>5, <1>6, <1>7
       DEF BaseInv, ControlTypeOK, StateTypeOK, CallTypeOK, FlagTypeOK
  <2>2. OneMigration'
    <3>1. CASE there
      BY <1>1, <1>4, <1>5, <3>1 DEF BaseInv, OneMigration, OthersStay
    <3>2. CASE ~there
      BY <1>1, <1>4, <1>6, <3>2, ControlAssumption DEF BaseInv, OneMigration, OthersStay
    <3> QED
      BY <3>1, <3>2
  <2>3. TablesNamed'
    BY <1>1, <1>2, <1>3 DEF BaseInv, TablesNamed
  <2>4. LoadedInv'
    BY <1>3, <1>4, <1>5, <1>6, <1>7 DEF LoadedInv, OthersStay
  <2> QED
    BY <2>1, <2>2, <2>3, <2>4 DEF BaseInv
<1>9. StartInv'
  BY <1>1 DEF StepInv, StartInv, CanStart, Listed, Undeleted
<1>10. ASSUME InOrder' PROVE TablesInv' /\ MemoryInv' /\ OneByOneInv'
  <2>1. InOrder
    BY <1>1, <1>10 DEF InOrder, Undeleted
  <2>2. CanMigrate(a) /\ up
    BY <1>1, <2>1 DEF StepInv, TablesInv, Migrating
  <2>3. there
    BY <2>2 DEF CanMigrate
  <2>4. ApplyRuns(a)
    BY <1>1 DEF ApplyRuns, Ended
  <2>5. CanMigrate(a)'
    BY <1>1, <1>3, <1>5, <2>2, <2>3 DEF CanMigrate, Names, Tables
  <2>6. TablesInv'
    <3>1. \A b \in Apply \ {a} : ~ Migrating(b)'
      BY <1>4, <1>7 DEF Migrating, OthersStay
    <3>2. Migrating(a)'
      BY <1>5, <2>3 DEF Migrating
    <3> QED
      BY <1>1, <2>2, <2>5, <3>1, <3>2 DEF TablesInv
  <2>7. MemoryInv'
    <3> SUFFICES ASSUME Undeleted', faults' = 0, NEW w \in VersionId
                 PROVE  typeSystems'[w] = types'[w]
      BY DEF MemoryInv
    <3>1. CASE w = v
      BY <1>1, <1>3, <3>1
    <3>2. CASE w # v
      <4>1. \A b \in Apply : ~ (call[b].pc = "committed" /\ VersionOf[b] = w)
        BY <1>4, <3>2
      <4>2. typeSystems[w] = types[w]
        BY <1>1, <4>1 DEF StepInv, MemoryInv, Undeleted
      <4> QED
        BY <1>1, <1>3, <3>2, <4>2
    <3> QED
      BY <3>1, <3>2
  <2>8. OneByOneInv'
    <3> SUFFICES ASSUME faults' = 0, ~overlapped'
                 PROVE  OneByOneInv'
      BY DEF OneByOneInv
    <3>1. OneByOneInv /\ faults = 0 /\ ~overlapped
      BY <1>1 DEF StepInv
    <3>2. AppliedOne(a)'
      BY <1>1, <1>5, <2>3, <3>1 DEF AppliedOne, OneByOneInv
    <3>3. ASSUME NEW w \in VersionId PROVE Settled(w)' \/ ApplyOn(a, w)'
      <4>1. CASE w = v
        BY <1>5, <2>3, <4>1 DEF ApplyOn
      <4>2. CASE w # v
        BY <1>1, <1>3, <2>4, <3>1, <4>2, SettledOthers DEF Settled
      <4> QED
        BY <4>1, <4>2
    <3> QED
      BY <1>1, <1>7, <2>4, <3>1, <3>2, <3>3, OnlyApply
  <2> QED
    BY <2>6, <2>7, <2>8
<1>11. ASSUME ~InOrder' PROVE TablesInv' /\ MemoryInv' /\ OneByOneInv'
  BY <1>11 DEF InOrder, TablesInv, MemoryInv, OneByOneInv
<1> QED
  BY <1>8, <1>9, <1>10, <1>11 DEF StepInv

\* rpc.rs: the models of some version do not load, which ends every apply.
LEMMA UnloadedStep ==
  ASSUME BaseInv, StepInv, UnloadableInv, NEW a \in Apply, apply_reload(a), unloadable # {}
  PROVE  BaseInv' /\ StepInv'
<1>1. /\ Fail(a)
      /\ UNCHANGED <<durable, typeSystems, trunk, del, up, faults, overlapped>>
  BY DEF apply_reload
<1>2. BaseInv'
  BY <1>1, FailBase DEF BaseInv, ControlTypeOK, FlagTypeOK
<1>3. ~ InOrder'
  BY <1>1 DEF UnloadableInv, InOrder, Undeleted
<1>4. TablesInv' /\ MemoryInv' /\ OneByOneInv'
  BY <1>3 DEF InOrder, TablesInv, MemoryInv, OneByOneInv
<1>5. StartInv'
  BY <1>1 DEF StepInv, StartInv, Listed, Undeleted, durable
<1> QED
  BY <1>2, <1>4, <1>5 DEF StepInv

\* rpc.rs: the second transaction.
LEMMA TablesStep ==
  ASSUME BaseInv, StepInv, NEW a \in Apply, apply_tables(a)
  PROVE  BaseInv' /\ StepInv'
<1> DEFINE v  == VersionOf[a]
           c  == call[a]
           ts == typeSystems[v]
           succeeds == /\ c.drop \subseteq tables
                       /\ tables' = (tables \cup {ts[n] : n \in c.insert}) \ c.drop
                       /\ rows'   = rows \ c.drop
                       /\ call'   = [call EXCEPT ![a].pc = "migrated", ![a].ts = ts]
                       /\ lock'   = NoApply
           fails == /\ ~ (c.drop \cup {ts[n] : n \in c.keep} \subseteq tables)
                    /\ Fail(a)
                    /\ UNCHANGED <<tables, rows>>
<1>1. /\ call[a].pc = "loaded"
      /\ succeeds \/ fails
      /\ UNCHANGED <<code, policy, types, typeSystems, trunk, del, up, faults, overlapped>>
  BY DEF apply_tables
<1> HIDE DEF fails
<1>2. /\ v \in VersionId /\ ts \in TypeSystem
      /\ call \in [Apply -> CallState]
      /\ tables \subseteq Table /\ rows \subseteq tables
  BY ControlAssumption DEF BaseInv, ControlTypeOK, StateTypeOK, CallTypeOK
<1>3. lock = a /\ \A b \in Apply \ {a} : call[b].pc \notin {"locked", "committed", "loaded"}
  BY <1>1, OneMigrates
<1>4. c.insert \subseteq Names(ts)
  BY <1>1 DEF BaseInv, LoadedInv
<1>5. ASSUME succeeds
      PROVE  /\ call' \in [Apply -> CallState] /\ OthersStay(a)
             /\ call'[a].pc = "migrated" /\ call'[a].ts = ts
             /\ lock' = NoApply /\ tables' \subseteq Table /\ rows' \subseteq tables'
  <2>1. [[c EXCEPT !.pc = "migrated"] EXCEPT !.ts = ts] \in CallState
    BY <1>2 DEF CallState
  <2>2. call'[a] = [[c EXCEPT !.pc = "migrated"] EXCEPT !.ts = ts]
    BY <1>2, <1>5
  <2>3. OthersStay(a)
    BY <1>2, <1>5 DEF OthersStay
  <2>4. call' \in [Apply -> CallState]
    BY <1>2, <1>5, <2>1
  <2>5. call'[a].pc = "migrated" /\ call'[a].ts = ts
    BY <1>2, <2>2 DEF CallState
  <2>6. {ts[n] : n \in c.insert} \subseteq Table
    BY <1>2, <1>4 DEF Names, TypeSystem
  <2> HIDE DEF ts, c
  <2> QED
    BY <1>2, <1>5, <2>3, <2>4, <2>5, <2>6
<1>6. ASSUME fails
      PROVE  /\ call' \in [Apply -> CallState] /\ OthersStay(a) /\ call'[a].pc = "failed"
             /\ lock' = NoApply /\ tables' = tables /\ rows' = rows
  BY <1>3, <1>6, SetNew DEF BaseInv, ControlTypeOK, CallPcs, Fail, Ended, fails
<1>7. /\ call' \in [Apply -> CallState] /\ OthersStay(a) /\ lock' = NoApply
      /\ call'[a].pc \in {"migrated", "failed"}
      /\ tables' \subseteq Table /\ rows' \subseteq tables'
  BY <1>1, <1>2, <1>5, <1>6
<1>8. BaseInv'
  <2>1. ControlTypeOK'
    BY <1>1, <1>7 DEF BaseInv, ControlTypeOK, StateTypeOK, CallTypeOK, FlagTypeOK
  <2>2. OneMigration'
    BY <1>3, <1>7, ControlAssumption DEF OneMigration, OthersStay
  <2>3. TablesNamed'
    BY <1>1 DEF BaseInv, TablesNamed
  <2>4. LoadedInv'
    BY <1>3, <1>7 DEF LoadedInv, OthersStay
  <2> QED
    BY <2>1, <2>2, <2>3, <2>4 DEF BaseInv
<1>9. StartInv'
  BY <1>1 DEF StepInv, StartInv, CanStart, Listed, Undeleted
<1>10. ASSUME InOrder' PROVE TablesInv' /\ MemoryInv' /\ OneByOneInv'
  <2>1. InOrder
    BY <1>1, <1>10 DEF InOrder, Undeleted
  <2>2. CanMigrate(a) /\ up
    BY <1>1, <2>1 DEF StepInv, TablesInv, Migrating
  <2>3. ts = types[v] /\ succeeds
    BY <1>1, <2>2 DEF CanMigrate, fails
  <2>4. ApplyRuns(a)
    BY <1>1 DEF ApplyRuns, Ended
  <2>5. TablesInStep'
    <3>1. tables' = AllTables(types)
      BY <2>2, <2>3 DEF CanMigrate
    <3> QED
      BY <1>1, <3>1 DEF TablesInStep, Tables, Names
  <2>6. TablesInv'
    <3>1. \A b \in Apply : ~ Migrating(b)'
      BY <1>3, <1>7 DEF Migrating, OthersStay
    <3> QED
      BY <1>1, <2>2, <2>5, <3>1 DEF TablesInv
  <2>7. MemoryInv'
    <3> SUFFICES ASSUME Undeleted', faults' = 0, NEW w \in VersionId
                 PROVE  typeSystems'[w] = types'[w]
      BY DEF MemoryInv
    <3>1. \A b \in Apply : call[b].pc # "committed"
      BY <1>1, <1>3
    <3>2. typeSystems[w] = types[w]
      BY <1>1, <3>1 DEF StepInv, MemoryInv, Undeleted
    <3> QED
      BY <1>1, <3>2
  <2>8. OneByOneInv'
    <3> SUFFICES ASSUME faults' = 0, ~overlapped'
                 PROVE  OneByOneInv'
      BY DEF OneByOneInv
    <3>1. OneByOneInv /\ faults = 0 /\ ~overlapped
      BY <1>1 DEF StepInv
    <3>2. AppliedOne(a)'
      BY <1>1, <1>5, <2>3, <3>1 DEF AppliedOne, OneByOneInv
    <3>3. ASSUME NEW w \in VersionId PROVE Settled(w)' \/ ApplyOn(a, w)'
      <4>1. CASE w = v
        BY <1>5, <2>3, <4>1 DEF ApplyOn
      <4>2. CASE w # v
        <5>1. Settled(w)
          BY <2>4, <3>1, <4>2, SettledOthers
        <5>2. ASSUME NEW x \in Tables(typeSystems[w]), x \in tables' PROVE x \in tables
          <6>1. PICK n \in TypeName : x = typeSystems[w][n] /\ x # NoTable
            BY DEF Tables, Names
          <6>2. x \in Own(w, n)
            BY <6>1 DEF BaseInv, TablesNamed
          <6>3. \A m \in c.insert : m \in TypeName /\ ts[m] \in Own(v, m)
            BY <1>2, <1>4 DEF BaseInv, TablesNamed, Names
          <6>4. x \notin {ts[m] : m \in c.insert}
            BY <1>2, <4>2, <6>1, <6>2, <6>3, OwnTables
          <6> HIDE DEF ts, c
          <6> QED
            BY <2>3, <5>2, <6>4
        <5>3. Tables(typeSystems[w]) \subseteq tables' => Tables(typeSystems[w]) \subseteq tables
          BY <5>2
        <5>4. Tables(typeSystems[w])' = Tables(typeSystems[w])
          BY <1>1 DEF Tables, Names
        <5> QED
          BY <1>1, <5>1, <5>3, <5>4 DEF Settled
      <4> QED
        BY <4>1, <4>2
    <3> QED
      BY <1>1, <1>7, <2>4, <3>1, <3>2, <3>3, OnlyApply
  <2> QED
    BY <2>6, <2>7, <2>8
<1>11. ASSUME ~InOrder' PROVE TablesInv' /\ MemoryInv' /\ OneByOneInv'
  BY <1>11 DEF InOrder, TablesInv, MemoryInv, OneByOneInv
<1> QED
  BY <1>8, <1>9, <1>10, <1>11 DEF StepInv

\* Trunk::add_version.
LEMMA RouteStep ==
  ASSUME BaseInv, StepInv, NEW a \in Apply, apply_route(a)
  PROVE  BaseInv' /\ StepInv'
<1> DEFINE v == VersionOf[a]
<1>1. /\ call[a].pc = "migrated"
      /\ trunk' = [trunk EXCEPT ![v] = [code |-> a, ts |-> call[a].ts]]
      /\ call'  = [call EXCEPT ![a] = [NewCall EXCEPT !.pc = "done"]]
      /\ UNCHANGED <<code, policy, types, tables, rows, typeSystems, lock, del, up, faults, overlapped>>
  BY DEF apply_route, durable
<1>2. call' \in [Apply -> CallState] /\ OthersStay(a) /\ call'[a].pc = "done"
  BY <1>1, SetNew DEF BaseInv, ControlTypeOK, CallPcs, Ended
<1>3. /\ v \in VersionId /\ call[a].ts \in TypeSystem
      /\ trunk \in [VersionId -> [code : Apply, ts : TypeSystem] \cup {NoVersion}]
  BY ControlAssumption DEF BaseInv, ControlTypeOK, StateTypeOK, CallTypeOK, CallState
<1>4. /\ trunk' \in [VersionId -> [code : Apply, ts : TypeSystem] \cup {NoVersion}]
      /\ trunk'[v] = [code |-> a, ts |-> call[a].ts]
      /\ \A w \in VersionId \ {v} : trunk'[w] = trunk[w]
  BY <1>1, <1>3
<1>5. BaseInv'
  <2>1. ControlTypeOK'
    BY <1>1, <1>2, <1>4 DEF BaseInv, ControlTypeOK, StateTypeOK, CallTypeOK, FlagTypeOK
  <2>2. OneMigration'
    BY <1>1, <1>2 DEF BaseInv, OneMigration, OthersStay
  <2>3. TablesNamed'
    BY <1>1 DEF BaseInv, TablesNamed
  <2>4. LoadedInv'
    BY <1>1, <1>2 DEF BaseInv, LoadedInv, OthersStay, Names
  <2> QED
    BY <2>1, <2>2, <2>3, <2>4 DEF BaseInv
<1>6. /\ Undeleted' = Undeleted /\ TablesInStep' = TablesInStep
  BY <1>1 DEF Undeleted, TablesInStep, Tables, Names
<1>7. StartInv' /\ MemoryInv'
  BY <1>1, <1>2, <1>6 DEF StepInv, StartInv, MemoryInv, CanStart, Listed, OthersStay
<1>8. TablesInv'
  <2>1. \A b \in Apply : /\ Migrating(b)' <=> Migrating(b)
                         /\ Migrating(b) => call'[b] = call[b]
    BY <1>1, <1>2 DEF Migrating, OthersStay
  <2>2. UNCHANGED <<types, tables, typeSystems>>
    BY <1>1
  <2>3. \A b \in Apply : Migrating(b) /\ CanMigrate(b) => CanMigrate(b)'
    BY <2>1, <2>2 DEF CanMigrate, Tables, Names
  <2> QED
    BY <1>1, <1>6, <2>1, <2>3 DEF StepInv, TablesInv, InOrder
<1>9. OneByOneInv'
  <2> SUFFICES ASSUME faults' = 0, ~overlapped'
               PROVE  OneByOneInv'
    BY DEF OneByOneInv
  <2>1. OneByOneInv /\ faults = 0 /\ ~overlapped
    BY <1>1 DEF StepInv
  <2>2. ApplyRuns(a)
    BY <1>1 DEF ApplyRuns, Ended
  <2>3. AppliedOne(a)'
    BY <1>2 DEF AppliedOne
  <2>4. ASSUME NEW w \in VersionId PROVE Settled(w)'
    <3>1. CASE w = v
      <4>1. code[v] = a /\ call[a].ts = types[v] /\ typeSystems[v] = types[v]
        BY <1>1, <2>1 DEF OneByOneInv, AppliedOne
      <4> QED
        BY <1>1, <1>4, <3>1, <4>1 DEF Settled
    <3>2. CASE w # v
      BY <1>1, <1>4, <2>1, <2>2, <3>2, SettledOthers DEF Settled, Tables, Names
    <3> QED
      BY <3>1, <3>2
  <2> QED
    BY <1>1, <1>2, <2>1, <2>2, <2>3, <2>4, OnlyApply
<1> QED
  BY <1>5, <1>7, <1>8, <1>9 DEF StepInv

-----------------------------------------------------------------------------
(* delete                                                                  *)

\* A step of a delete changes no apply and at most takes models out of the meta tables.
LEMMA DeleteBase ==
  ASSUME BaseInv, StateTypeOK', FlagTypeOK', del' \in [Delete -> DelState],
         UNCHANGED <<typeSystems, lock, call>>,
         \A v \in VersionId, n \in TypeName : types'[v][n] \in {types[v][n], NoTable}
  PROVE  BaseInv'
<1>1. ControlTypeOK'
  BY DEF BaseInv, ControlTypeOK, CallTypeOK
<1>2. OneMigration' /\ LoadedInv'
  BY DEF BaseInv, OneMigration, LoadedInv, Names
<1>3. TablesNamed'
  BY DEF BaseInv, TablesNamed, Own
<1> QED
  BY <1>1, <1>2, <1>3 DEF BaseInv

\* Calls one at a time: what is left to show of a step of the delete that runs.
LEMMA OnlyDelete ==
  ASSUME NEW d \in Delete, OtherDelsStay(d), UNCHANGED <<call, faults, overlapped, up>>,
         ~ Undeleted', up, 
         \A a \in Apply : ~ ApplyRuns(a), \A e \in Delete \ {d} : ~ DeleteRuns(e),
         DeletedOne(d)', 
         del'[d].pc = "unlisted" \/ TablesInStep',
         \A w \in VersionId : Settled(w)' \/ DeleteOn(d, w)'
  PROVE  TablesInv' /\ MemoryInv' /\ OneByOneInv'
<1>1. /\ \A a \in Apply : ~ ApplyRuns(a)'
      /\ \A e \in Delete \ {d} : ~ DeleteRuns(e)'
  BY DEF ApplyRuns, DeleteRuns, OtherDelsStay
<1>2. TablesInv'
  BY <1>1 DEF TablesInv, Migrating, ApplyRuns, Ended
<1>3. MemoryInv'
  BY DEF MemoryInv
<1>4. Alone'
  BY <1>1 DEF Alone
<1>5. \A a \in Apply : AppliedOne(a)'
  BY <1>1 DEF AppliedOne, ApplyRuns, Ended
<1>6. \A e \in Delete : DeletedOne(e)'
  BY <1>1 DEF DeletedOne, DeleteRuns, Ended
<1> QED
  BY <1>2, <1>3, <1>4, <1>5, <1>6 DEF OneByOneInv

\* rpc.rs: delete takes the version out of the trunk.
LEMMA DeleteRouteStep ==
  ASSUME BaseInv, StepInv, NEW d \in Delete, delete_route(d)
  PROVE  BaseInv' /\ StepInv'
<1> DEFINE v == DeleteOf[d]
           unrouted == [pc |-> "unrouted", ts |-> trunk[v].ts]
<1>1. /\ up /\ del[d].pc = "new"
      /\ trunk[v] = NoVersion => del' = [del EXCEPT ![d].pc = "failed"] /\ trunk' = trunk
      /\ trunk[v] # NoVersion => /\ del' = [del EXCEPT ![d] = unrouted]
                                 /\ trunk' = [trunk EXCEPT ![v] = NoVersion]
      /\ overlapped' = (overlapped \/ ~Idle)
      /\ UNCHANGED <<code, policy, types, tables, rows, typeSystems, lock, call, up, faults>>
  BY DEF delete_route, durable
<1>2. /\ v \in VersionId
      /\ trunk \in [VersionId -> [code : Apply, ts : TypeSystem] \cup {NoVersion}]
      /\ del \in [Delete -> DelState]
  BY ControlAssumption DEF BaseInv, ControlTypeOK, StateTypeOK, CallTypeOK
<1>3. ASSUME trunk[v] = NoVersion
      PROVE  /\ del' \in [Delete -> DelState] /\ OtherDelsStay(d) /\ del'[d].pc = "failed"
             /\ trunk' = trunk
  BY <1>1, <1>3, SetDelPc DEF BaseInv, ControlTypeOK, DelPcs, Ended
<1>4. ASSUME trunk[v] # NoVersion
      PROVE  /\ del' \in [Delete -> DelState] /\ OtherDelsStay(d)
             /\ del'[d].pc = "unrouted" /\ del'[d].ts = trunk[v].ts
             /\ trunk' \in [VersionId -> [code : Apply, ts : TypeSystem] \cup {NoVersion}]
             /\ trunk'[v] = NoVersion
             /\ \A w \in VersionId \ {v} : trunk'[w] = trunk[w]
  <2>1. unrouted \in DelState
    BY <1>2, <1>4 DEF DelState
  <2>2. del'[d] = unrouted
    BY <1>1, <1>2, <1>4
  <2> QED
    BY <1>1, <1>2, <1>4, <2>1, <2>2 DEF OtherDelsStay
<1>5. /\ del' \in [Delete -> DelState] /\ OtherDelsStay(d) /\ del'[d].pc \in {"unrouted", "failed"}
      /\ trunk' \in [VersionId -> [code : Apply, ts : TypeSystem] \cup {NoVersion}]
  BY <1>2, <1>3, <1>4
<1>6. BaseInv'
  <2>1. overlapped' \in BOOLEAN
    BY <1>1
  <2>2. FlagTypeOK'
    BY <1>1, <2>1 DEF BaseInv, ControlTypeOK, FlagTypeOK
  <2>3. StateTypeOK'
    BY <1>1, <1>5 DEF BaseInv, ControlTypeOK, StateTypeOK
  <2> QED
    BY <1>1, <1>5, <2>2, <2>3, DeleteBase
<1>7. ~ Undeleted'
  BY <1>5 DEF Undeleted
<1>8. ASSUME InOrder' PROVE TablesInv' /\ MemoryInv' /\ OneByOneInv'
  <2>1. ~overlapped' /\ faults = 0
    BY <1>1, <1>7, <1>8 DEF InOrder
  <2>2. ~overlapped /\ Idle
    BY <1>1, <2>1
  <2>3. /\ \A a \in Apply : ~ ApplyRuns(a)
        /\ \A e \in Delete : ~ DeleteRuns(e)
    BY <2>2 DEF Idle, Running
  <2>4. \A w \in VersionId : Settled(w)
    BY <2>1, <2>2, <2>3 DEF StepInv, OneByOneInv, ApplyOn, DeleteOn, ApplyRuns, Ended
  <2>5. TablesInStep
    BY <2>1, <2>2, <2>3 DEF StepInv, TablesInv, InOrder, Migrating, ApplyRuns, DeleteRuns, Ended
  <2>6. TablesInStep'
    BY <1>1, <2>5 DEF TablesInStep, Tables, Names
  <2>7. \A w \in VersionId : trunk'[w] = trunk[w] => Settled(w)'
    BY <1>1, <2>4 DEF Settled, Tables, Names
  <2>8. DeletedOne(d)'
    <3>1. CASE trunk[v] = NoVersion
      BY <1>3, <3>1 DEF DeletedOne, DeleteRuns, Ended
    <3>2. CASE trunk[v] # NoVersion
      <4>1. trunk[v] = [code |-> code[v], ts |-> types[v]] /\ typeSystems[v] = types[v]
        BY <1>2, <2>4, <3>2 DEF Settled
      <4> QED
        BY <1>1, <1>4, <3>2, <4>1 DEF DeletedOne
    <3> QED
      BY <3>1, <3>2
  <2>9. \A w \in VersionId : Settled(w)' \/ DeleteOn(d, w)'
    <3>1. CASE trunk[v] = NoVersion
      BY <1>3, <2>7, <3>1
    <3>2. CASE trunk[v] # NoVersion
      BY <1>4, <2>7, <3>2 DEF DeleteOn, DeleteRuns, Ended
    <3> QED
      BY <3>1, <3>2
  <2>10. overlapped' = overlapped
    BY <1>1, <2>1, <2>2, Zenon DEF BaseInv, ControlTypeOK, FlagTypeOK
  <2> QED
    BY <1>1, <1>5, <1>7, <2>3, <2>6, <2>8, <2>9, <2>10, OnlyDelete
<1>9. ASSUME ~InOrder' PROVE TablesInv' /\ MemoryInv' /\ OneByOneInv'
  BY <1>9 DEF InOrder, TablesInv, MemoryInv, OneByOneInv
<1> QED
  BY <1>6, <1>7, <1>8, <1>9 DEF StepInv, StartInv

\* rpc.rs: the first transaction of delete.
LEMMA DeleteMetaStep ==
  ASSUME BaseInv, StepInv, NEW d \in Delete, delete_meta(d)
  PROVE  BaseInv' /\ StepInv'
<1> DEFINE v == DeleteOf[d]
           left == [n \in TypeName |->
                      IF types[v][n] = del[d].ts[n] THEN NoTable ELSE types[v][n]]
<1>1. /\ up /\ del[d].pc = "unrouted"
      /\ policy' = policy \ {v}
      /\ types' = [types EXCEPT ![v] = left]
      /\ del' = [del EXCEPT ![d].pc = "unlisted"]
      /\ UNCHANGED <<code, tables, rows, typeSystems, lock, trunk, call, up, faults, overlapped>>
  BY DEF delete_meta
<1>2. v \in VersionId /\ types \in [VersionId -> TypeSystem]
  BY ControlAssumption DEF BaseInv, ControlTypeOK, StateTypeOK
<1>3. /\ del' \in [Delete -> DelState] /\ OtherDelsStay(d)
      /\ del'[d].pc = "unlisted" /\ del'[d].ts = del[d].ts
  BY <1>1, SetDelPc DEF BaseInv, ControlTypeOK, DelPcs
<1>4. left \in TypeSystem
  BY <1>2 DEF TypeSystem
<1>5. /\ types' \in [VersionId -> TypeSystem] /\ types'[v] = left
      /\ \A w \in VersionId \ {v} : types'[w] = types[w]
  BY <1>1, <1>2, <1>4
<1>6. BaseInv'
  <2>1. StateTypeOK' /\ FlagTypeOK'
    BY <1>1, <1>5 DEF BaseInv, ControlTypeOK, StateTypeOK, FlagTypeOK
  <2>2. \A w \in VersionId, n \in TypeName : types'[w][n] \in {types[w][n], NoTable}
    BY <1>5
  <2> QED
    BY <1>1, <1>3, <2>1, <2>2, DeleteBase
<1>7. ~ Undeleted' /\ ~ Undeleted
  BY <1>1, <1>3 DEF Undeleted
<1>8. ASSUME InOrder' PROVE TablesInv' /\ MemoryInv' /\ OneByOneInv'
  <2>1. ~overlapped /\ faults = 0
    BY <1>1, <1>7, <1>8 DEF InOrder
  <2>2. DeleteRuns(d)
    BY <1>1 DEF DeleteRuns, Ended
  <2>3. /\ \A a \in Apply : ~ ApplyRuns(a)
        /\ \A e \in Delete \ {d} : ~ DeleteRuns(e)
    BY <2>1, <2>2, AloneDelete DEF StepInv
  <2>4. TablesInStep
    BY <1>1, <2>1, <2>3 DEF StepInv, TablesInv, InOrder, Migrating, ApplyRuns, DeleteRuns, Ended
  <2>5. trunk[v] = NoVersion /\ typeSystems[v] = del[d].ts /\ types[v] = del[d].ts
    BY <1>1, <2>1, <2>2 DEF StepInv, OneByOneInv, DeletedOne
  <2>6. types'[v] = NoTypes
    BY <1>5, <2>5 DEF NoTypes
  <2>7. tables = AllTables(types') \cup Tables(del[d].ts)
    <3>1. \A n \in TypeName : types'[v][n] = NoTable
      BY <2>6 DEF NoTypes
    <3>2. \A x : x \in tables <=> \E w \in VersionId, n \in TypeName : types[w][n] = x /\ x # NoTable
      BY <2>4, Listing DEF TablesInStep
    <3>3. \A x : x \in Tables(del[d].ts) <=> \E n \in TypeName : types[v][n] = x /\ x # NoTable
      BY <2>5 DEF Tables, Names
    <3>4. \A x : x \in tables <=> x \in AllTables(types') \/ x \in Tables(del[d].ts)
      BY <1>2, <1>5, <3>1, <3>2, <3>3, ListingAfter
    <3> QED
      BY <3>4
  <2>8. DeletedOne(d)'
    BY <1>1, <1>3, <2>5, <2>6, <2>7 DEF DeletedOne, Tables, Names
  <2>9. ASSUME NEW w \in VersionId PROVE Settled(w)' \/ DeleteOn(d, w)'
    <3>1. CASE w = v
      BY <1>3, <3>1 DEF DeleteOn, DeleteRuns, Ended
    <3>2. CASE w # v
      <4>1. Settled(w)
        BY <2>1, <2>3, <3>2 DEF StepInv, OneByOneInv, ApplyOn, DeleteOn, ApplyRuns, Ended
      <4> QED
        BY <1>1, <1>5, <3>2, <4>1 DEF Settled, Tables, Names
    <3> QED
      BY <3>1, <3>2
  <2> QED
    BY <1>1, <1>3, <1>7, <2>3, <2>8, <2>9, OnlyDelete
<1>9. ASSUME ~InOrder' PROVE TablesInv' /\ MemoryInv' /\ OneByOneInv'
  BY <1>9 DEF InOrder, TablesInv, MemoryInv, OneByOneInv
<1> QED
  BY <1>6, <1>7, <1>8, <1>9 DEF StepInv, StartInv

\* rpc.rs: the second transaction of delete.
LEMMA DeleteTablesStep ==
  ASSUME BaseInv, StepInv, NEW d \in Delete, delete_tables(d)
  PROVE  BaseInv' /\ StepInv'
<1> DEFINE v    == DeleteOf[d]
           gone == Tables(del[d].ts)
<1>1. /\ up /\ del[d].pc = "unlisted"
      /\ gone \subseteq tables => /\ tables' = tables \ gone
                                  /\ rows'   = rows \ gone
                                  /\ del'    = [del EXCEPT ![d] = [NewDel EXCEPT !.pc = "done"]]
      /\ ~ (gone \subseteq tables) => /\ del' = [del EXCEPT ![d] = [NewDel EXCEPT !.pc = "failed"]]
                                      /\ UNCHANGED <<tables, rows>>
      /\ UNCHANGED <<code, policy, types, typeSystems, lock, trunk, call, up, faults, overlapped>>
  BY DEF delete_tables
<1>2. v \in VersionId /\ tables \subseteq Table /\ rows \subseteq tables
  BY ControlAssumption DEF BaseInv, ControlTypeOK, StateTypeOK
<1>3. /\ del' \in [Delete -> DelState] /\ OtherDelsStay(d) /\ del'[d].pc \in Ended
  <2>1. CASE gone \subseteq tables
    BY <1>1, <2>1, SetNewDel DEF BaseInv, ControlTypeOK, DelPcs, Ended
  <2>2. CASE ~ (gone \subseteq tables)
    BY <1>1, <2>2, SetNewDel DEF BaseInv, ControlTypeOK, DelPcs, Ended
  <2> QED
    BY <2>1, <2>2
<1>4. tables' \subseteq tables /\ rows' \subseteq tables'
  <2> HIDE DEF gone
  <2> QED
    BY <1>1, <1>2
<1>5. BaseInv'
  <2>1. StateTypeOK' /\ FlagTypeOK'
    BY <1>1, <1>2, <1>4 DEF BaseInv, ControlTypeOK, StateTypeOK, FlagTypeOK
  <2> QED
    BY <1>1, <1>3, <2>1, DeleteBase
<1>6. ~ Undeleted' /\ ~ Undeleted
  BY <1>1, <1>3 DEF Undeleted, Ended
<1>7. ASSUME InOrder' PROVE TablesInv' /\ MemoryInv' /\ OneByOneInv'
  <2>1. ~overlapped /\ faults = 0
    BY <1>1, <1>6, <1>7 DEF InOrder
  <2>2. DeleteRuns(d)
    BY <1>1 DEF DeleteRuns, Ended
  <2>3. /\ \A a \in Apply : ~ ApplyRuns(a)
        /\ \A e \in Delete \ {d} : ~ DeleteRuns(e)
    BY <2>1, <2>2, AloneDelete DEF StepInv
  <2>4. /\ trunk[v] = NoVersion /\ typeSystems[v] = del[d].ts /\ types[v] = NoTypes
        /\ tables = AllTables(types) \cup gone
    BY <1>1, <2>1, <2>2 DEF StepInv, OneByOneInv, DeletedOne
  <2>5. gone \subseteq tables /\ tables' = tables \ gone
    BY <1>1, <2>4
  <2>6. ASSUME NEW x \in AllTables(types) PROVE x \notin gone
    <3>1. PICK w \in VersionId, n \in TypeName : types[w][n] = x /\ x # NoTable
      BY Listing
    <3>2. w # v
      BY <2>4, <3>1 DEF NoTypes
    <3>3. \A m \in TypeName : typeSystems[v][m] \in Own(v, m)
      BY <1>2 DEF BaseInv, TablesNamed
    <3>4. types[w][n] \in Own(w, n)
      BY DEF BaseInv, TablesNamed
    <3> QED
      BY <1>2, <2>4, <3>1, <3>2, <3>3, <3>4, OwnTables DEF Tables, Names
  <2>7. TablesInStep'
    <3>1. tables' = AllTables(types)
      BY <2>4, <2>5, <2>6
    <3> QED
      BY <1>1, <3>1 DEF TablesInStep
  <2>8. DeletedOne(d)'
    BY <1>3 DEF DeletedOne, DeleteRuns, Ended
  <2>9. ASSUME NEW w \in VersionId PROVE Settled(w)'
    <3>1. CASE w = v
      <4>1. ASSUME Tables(typeSystems[v]) \subseteq tables' PROVE typeSystems[v] = types[v]
        <5>1. Tables(typeSystems[v]) = {}
          <6>1. gone \subseteq tables \ gone
            BY <2>4, <2>5, <4>1
          <6>2. gone = {}
            <7> HIDE DEF gone
            <7> QED
              BY <6>1
          <6> QED
            BY <2>4, <6>2
        <5>2. typeSystems[v] \in TypeSystem
          BY <1>2 DEF BaseInv, ControlTypeOK, StateTypeOK
        <5>3. \A n \in TypeName : typeSystems[v][n] = NoTable
          BY <5>1 DEF Tables, Names
        <5> QED
          BY <2>4, <5>2, <5>3 DEF TypeSystem, NoTypes
      <4>2. Tables(typeSystems[v])' = Tables(typeSystems[v])
        BY <1>1 DEF Tables, Names
      <4> QED
        BY <1>1, <2>4, <3>1, <4>1, <4>2 DEF Settled
    <3>2. CASE w # v
      <4>1. Settled(w)
        BY <2>1, <2>3, <3>2 DEF StepInv, OneByOneInv, ApplyOn, DeleteOn, ApplyRuns, Ended
      <4> QED
        BY <1>1, <1>4, <4>1 DEF Settled, Tables, Names
    <3> QED
      BY <3>1, <3>2
  <2> QED
    BY <1>1, <1>3, <1>6, <2>3, <2>7, <2>8, <2>9, OnlyDelete
<1>8. ASSUME ~InOrder' PROVE TablesInv' /\ MemoryInv' /\ OneByOneInv'
  BY <1>8 DEF InOrder, TablesInv, MemoryInv, OneByOneInv
<1> QED
  BY <1>5, <1>6, <1>7, <1>8 DEF StepInv, StartInv

\* A delete is dropped where it awaits.
LEMMA DeleteLostStep ==
  ASSUME BaseInv, StepInv, NEW d \in Delete, delete_lost(d)
  PROVE  BaseInv' /\ StepInv'
<1>1. /\ DeleteRuns(d) /\ faults < MaxFaults /\ faults' = faults + 1
      /\ del' = [del EXCEPT ![d] = [NewDel EXCEPT !.pc = "failed"]]
      /\ UNCHANGED <<code, policy, types, tables, rows, typeSystems, lock, trunk, call, up, overlapped>>
  BY DEF delete_lost, durable
<1>2. del' \in [Delete -> DelState] /\ OtherDelsStay(d)
  BY <1>1, SetNewDel DEF BaseInv, ControlTypeOK, DelPcs, Ended
<1>3. FlagTypeOK' /\ faults' # 0
  BY <1>1, ControlAssumption DEF BaseInv, ControlTypeOK, FlagTypeOK
<1>4. BaseInv'
  <2>1. StateTypeOK'
    BY <1>1 DEF BaseInv, ControlTypeOK, StateTypeOK
  <2> QED
    BY <1>1, <1>2, <1>3, <2>1, DeleteBase
<1>5. Undeleted' => Undeleted
  <2>1. del'[d].pc = "failed"
    BY <1>1, SetNewDel DEF BaseInv, ControlTypeOK, DelPcs, Ended
  <2> QED
    BY <2>1 DEF Undeleted
<1> QED
  BY <1>1, <1>3, <1>4, <1>5, FaultStep

-----------------------------------------------------------------------------
(* Everything else.                                                        *)

\* Steps that change none of what StepInv is about.
LEMMA SameStep ==
  ASSUME StepInv, UNCHANGED <<code, policy, types, tables, typeSystems, trunk, call, del, up,
                              faults, overlapped>>
  PROVE  StepInv'
<1>1. InOrder' = InOrder /\ Undeleted' = Undeleted
  BY DEF InOrder, Undeleted
<1>2. TablesInv'
  <2>1. \A a \in Apply : Migrating(a)' = Migrating(a) /\ CanMigrate(a)' = CanMigrate(a)
    BY DEF Migrating, CanMigrate, AllTables, Tables, Names
  <2>2. TablesInStep' = TablesInStep
    BY DEF TablesInStep, AllTables, Tables, Names
  <2> QED
    BY <1>1, <2>1, <2>2 DEF StepInv, TablesInv
<1>3. MemoryInv' /\ StartInv'
  BY <1>1 DEF StepInv, MemoryInv, StartInv, CanStart, Listed
<1>4. OneByOneInv'
  <2>1. Alone' = Alone
    BY DEF Alone, ApplyRuns, DeleteRuns
  <2>2. \A a \in Apply : AppliedOne(a)' = AppliedOne(a)
    BY DEF AppliedOne
  <2>3. \A d \in Delete : DeletedOne(d)' = DeletedOne(d)
    BY DEF DeletedOne, DeleteRuns, AllTables, Tables, Names
  <2>4. \A v \in VersionId : /\ Settled(v)' = Settled(v)
                             /\ \A a \in Apply : ApplyOn(a, v)' = ApplyOn(a, v)
                             /\ \A d \in Delete : DeleteOn(d, v)' = DeleteOn(d, v)
    BY DEF Settled, ApplyOn, DeleteOn, DeleteRuns, Tables, Names
  <2> QED
    BY <2>1, <2>2, <2>3, <2>4 DEF StepInv, OneByOneInv
<1> QED
  BY <1>2, <1>3, <1>4 DEF StepInv

\* A handler stores an entity.
LEMMA StoreStep ==
  ASSUME BaseInv, StepInv, NEW v \in VersionId, NEW t \in Table, store(v, t)
  PROVE  BaseInv' /\ StepInv'
<1>1. /\ t \in tables /\ rows' = rows \cup {t}
      /\ UNCHANGED <<code, policy, types, tables, typeSystems, lock, trunk, call, del, up,
                     faults, overlapped>>
  BY DEF store
<1>2. StateTypeOK'
  BY <1>1 DEF BaseInv, ControlTypeOK, StateTypeOK
<1>3. BaseInv'
  BY <1>1, <1>2 DEF BaseInv, ControlTypeOK, CallTypeOK, FlagTypeOK, OneMigration, TablesNamed,
                    LoadedInv, Names
<1>4. StepInv'
  BY <1>1, SameStep
<1> QED
  BY <1>3, <1>4

\* The process stops.
LEMMA CrashStep ==
  ASSUME BaseInv, StepInv, crash
  PROVE  BaseInv' /\ StepInv'
<1> DEFINE failedCall == [NewCall EXCEPT !.pc = "failed"]
           failedDel  == [NewDel EXCEPT !.pc = "failed"]
<1>1. /\ faults < MaxFaults /\ up' = FALSE /\ faults' = faults + 1
      /\ typeSystems' = [v \in VersionId |-> NoTypes]
      /\ lock' = NoApply
      /\ trunk' = [v \in VersionId |-> NoVersion]
      /\ call' = [a \in Apply |-> IF ApplyRuns(a) THEN failedCall ELSE call[a]]
      /\ del'  = [d \in Delete |-> IF DeleteRuns(d) THEN failedDel ELSE del[d]]
      /\ UNCHANGED <<code, policy, types, tables, rows, overlapped>>
  BY DEF crash, durable
<1>2. /\ failedCall \in CallState /\ failedCall.pc = "failed"
      /\ failedDel \in DelState /\ failedDel.pc = "failed" /\ NoTypes \in TypeSystem
  BY DEF CallState, DelState, NewCall, NewDel, NoTypes, TypeSystem, Ended
<1> HIDE DEF failedCall, failedDel
<1>3. call' \in [Apply -> CallState] /\ del' \in [Delete -> DelState]
  BY <1>1, <1>2 DEF BaseInv, ControlTypeOK, CallTypeOK
<1>4. FlagTypeOK' /\ faults' # 0
  <2>1. up' \in BOOLEAN
    BY <1>1
  <2>2. faults' \in 0 .. MaxFaults /\ faults' # 0
    BY <1>1, ControlAssumption DEF BaseInv, ControlTypeOK, FlagTypeOK
  <2> QED
    BY <1>1, <2>1, <2>2 DEF BaseInv, ControlTypeOK, FlagTypeOK
<1>5. StateTypeOK'
  BY <1>1, <1>2 DEF BaseInv, ControlTypeOK, StateTypeOK
<1>6. CallTypeOK'
  BY <1>1, <1>3 DEF CallTypeOK
<1>7. \A a \in Apply : call'[a].pc \notin {"locked", "committed", "loaded"}
  BY <1>1, <1>2 DEF ApplyRuns, Ended
<1>8. OneMigration' /\ LoadedInv'
  BY <1>1, <1>7, ControlAssumption DEF OneMigration, LoadedInv
<1>9. TablesNamed'
  <2>1. \A v \in VersionId, n \in TypeName : typeSystems'[v][n] = NoTable
    BY <1>1 DEF NoTypes
  <2> QED
    BY <1>1, <2>1 DEF BaseInv, TablesNamed, Own
<1>10. Undeleted' => Undeleted
  BY <1>1, <1>2 DEF Undeleted
<1>11. StepInv'
  BY <1>1, <1>4, <1>10, FaultStep
<1> QED
  BY <1>4, <1>5, <1>6, <1>8, <1>9, <1>11 DEF BaseInv, ControlTypeOK

\* server.rs: the server starts from the database.
LEMMA StartStep ==
  ASSUME BaseInv, StepInv, DownInv, start_versions
  PROVE  BaseInv' /\ StepInv'
<1>1. /\ ~up /\ up' = TRUE /\ typeSystems' = types
      /\ trunk' = [v \in VersionId |->
                     IF v \in Listed THEN [code |-> code[v], ts |-> types[v]] ELSE NoVersion]
      /\ UNCHANGED <<code, policy, types, tables, rows, lock, call, del, faults, overlapped>>
  BY DEF start_versions, durable
<1>2. /\ code \in [VersionId -> Apply \cup {NoApply}] /\ types \in [VersionId -> TypeSystem]
  BY DEF BaseInv, ControlTypeOK, StateTypeOK
<1>3. trunk' \in [VersionId -> [code : Apply, ts : TypeSystem] \cup {NoVersion}]
  BY <1>1, <1>2 DEF Listed
<1>4. ControlTypeOK'
  BY <1>1, <1>2, <1>3 DEF BaseInv, ControlTypeOK, StateTypeOK, CallTypeOK, FlagTypeOK
<1>5. OneMigration' /\ TablesNamed'
  BY <1>1 DEF BaseInv, OneMigration, TablesNamed
<1>6. LoadedInv'
  BY <1>1 DEF LoadedInv, DownInv, ApplyRuns, Ended
<1>7. ~ InOrder
  BY <1>1 DEF StepInv, TablesInv
<1>8. ~ InOrder'
  BY <1>1, <1>7 DEF InOrder, Undeleted
<1>9. TablesInv' /\ MemoryInv' /\ OneByOneInv'
  BY <1>8 DEF InOrder, TablesInv, MemoryInv, OneByOneInv
<1>10. StartInv'
  BY <1>1 DEF StepInv, StartInv, CanStart, Listed, Undeleted
<1> QED
  BY <1>4, <1>5, <1>6, <1>9, <1>10 DEF BaseInv, StepInv

\* No apply runs while the server is down.
LEMMA DownStep ==
  ASSUME DownInv, [ControlNext]_controlVars
  PROVE  DownInv'
<1>1. ASSUME NEW a \in Apply, validate_modules(a) \/ ApplyStep(a) \/ apply_lost(a)
      PROVE  DownInv'
  BY <1>1 DEF validate_modules, ApplyStep, apply_lost, lock_type_systems, apply_refused, apply_meta,
              apply_reload, apply_tables, apply_route, DownInv
<1>2. ASSUME NEW d \in Delete, delete_route(d) \/ DeleteStep(d) \/ delete_lost(d)
      PROVE  DownInv'
  BY <1>2 DEF delete_route, DeleteStep, delete_meta, delete_tables, delete_lost, DownInv
<1>3. ASSUME NEW v \in VersionId, NEW t \in Table, store(v, t)
      PROVE  DownInv'
  BY <1>3 DEF store, DownInv
<1>4. CASE crash
  BY <1>4 DEF crash, DownInv, ApplyRuns, NewCall, Ended
<1>5. CASE start_versions
  BY <1>5 DEF start_versions, DownInv
<1>6. CASE UNCHANGED controlVars
  BY <1>6 DEF controlVars, DownInv, ApplyRuns
<1> QED
  BY <1>1, <1>2, <1>3, <1>4, <1>5, <1>6 DEF ControlNext, Waits

\* A step that persists nothing, after which no apply is further than before.
LEMMA StillUnloaded ==
  ASSUME UnloadableInv, unloadable' = unloadable, code' = code,
         faults' = 0 => faults = 0, Undeleted' => Undeleted, ~overlapped' => ~overlapped,
         \A b \in Apply : call[b].pc \in {"committed", "failed"} =>
                            call'[b].pc \in {"committed", "failed"}
  PROVE  UnloadableInv'
<1>1. InOrder' => InOrder
  BY DEF InOrder
<1>2. \A v \in unloadable : NotLoaded(v) => NotLoaded(v)'
  BY DEF NotLoaded
<1> QED
  BY <1>1, <1>2 DEF UnloadableInv

\* Steps of an apply.
LEMMA UnloadableApply ==
  ASSUME ControlTypeOK, UnloadableInv, NEW a \in Apply,
         validate_modules(a) \/ ApplyStep(a) \/ apply_lost(a)
  PROVE  UnloadableInv'
<1>1. call \in [Apply -> CallState] /\ CallTypeOK
  BY DEF ControlTypeOK, CallTypeOK
<1>2. faults \in Nat
  BY ControlAssumption DEF ControlTypeOK, FlagTypeOK
<1>3. ASSUME validate_modules(a) \/ lock_type_systems(a) PROVE UnloadableInv'
  <2>1. /\ call[a].pc \in {"new", "valid"}
        /\ \E pc \in {"valid", "failed", "locked"} : call' = [call EXCEPT ![a].pc = pc]
        /\ UNCHANGED <<durable, del, faults>>
        /\ ~overlapped' => ~overlapped
    <3>1. CASE validate_modules(a)
      BY <3>1 DEF validate_modules
    <3>2. CASE lock_type_systems(a)
      BY <3>2 DEF lock_type_systems
    <3> QED
      BY <1>3, <3>1, <3>2
  <2>2. OthersStay(a)
    BY <1>1, <2>1 DEF OthersStay
  <2> QED
    BY <2>1, <2>2, StillUnloaded DEF OthersStay, durable, Undeleted
<1>4. ASSUME Fail(a), UNCHANGED <<durable, del, overlapped>>, faults' \in {faults, faults + 1}
      PROVE  UnloadableInv'
  <2>1. OthersStay(a) /\ call'[a].pc = "failed"
    BY <1>1, <1>4, SetNew DEF Fail, CallPcs, Ended
  <2>2. faults' = 0 => faults = 0
    BY <1>2, <1>4
  <2> QED
    BY <1>4, <2>1, <2>2, StillUnloaded DEF OthersStay, durable, Undeleted
<1>5. CASE apply_refused(a) \/ apply_lost(a)
  BY <1>4, <1>5 DEF apply_refused, apply_lost
<1>6. CASE apply_meta(a)
  <2> DEFINE v == VersionOf[a]
  <2>1. /\ call[a].pc = "locked" /\ code' = [code EXCEPT ![v] = a] /\ UNCHANGED <<del, overlapped>>
        /\ \/ unloadable' = unloadable \ {v} /\ faults' = faults
           \/ unloadable' = unloadable \cup {v} /\ faults' = faults + 1
    BY <1>6 DEF apply_meta, Persisted
  <2>2. OthersStay(a) /\ call'[a].pc = "committed"
    BY <1>1, <1>6 DEF apply_meta, OthersStay
  <2>3. v \in VersionId /\ code \in [VersionId -> Apply \cup {NoApply}]
    BY ControlAssumption DEF ControlTypeOK, StateTypeOK
  <2>4. NotLoaded(v)'
    BY <2>1, <2>2, <2>3 DEF NotLoaded
  <2>5. \A w \in VersionId \ {v} : NotLoaded(w) => NotLoaded(w)'
    BY <2>1, <2>2, <2>3 DEF NotLoaded, OthersStay
  <2>6. Undeleted' <=> Undeleted
    BY <2>1 DEF Undeleted
  <2>7. InOrder' => InOrder /\ unloadable' = unloadable \ {v}
    BY <1>2, <2>1, <2>6 DEF InOrder
  <2> QED
    BY <2>1, <2>3, <2>4, <2>5, <2>6, <2>7 DEF UnloadableInv
<1>7. CASE apply_reload(a)
  <2>1. UNCHANGED <<durable, del, faults, overlapped>>
    BY <1>7 DEF apply_reload
  <2>2. CASE unloadable # {}
    BY <1>4, <1>7, <2>1, <2>2 DEF apply_reload
  <2>3. CASE unloadable = {}
    BY <2>1, <2>3 DEF UnloadableInv, durable
  <2> QED
    BY <2>2, <2>3
<1>8. ASSUME apply_tables(a) \/ apply_route(a) PROVE UnloadableInv'
  <2>1. /\ call[a].pc \in {"loaded", "migrated"}
        /\ UNCHANGED <<code, unloadable, del, faults, overlapped>>
    BY <1>8 DEF apply_tables, apply_route, durable
  <2>2. OthersStay(a)
    BY <1>1, <1>8 DEF apply_tables, apply_route, Fail, OthersStay
  <2> QED
    BY <2>1, <2>2, StillUnloaded DEF OthersStay, Undeleted
<1> QED
  BY <1>3, <1>5, <1>6, <1>7, <1>8 DEF ApplyStep

\* Steps of a delete: one that meets what an apply persisted removes all of it.
LEMMA UnloadableDelete ==
  ASSUME ControlTypeOK, UnloadableInv, OneByOneInv, NEW d \in Delete,
         delete_route(d) \/ DeleteStep(d) \/ delete_lost(d)
  PROVE  UnloadableInv'
<1>1. del \in [Delete -> DelState] /\ CallTypeOK /\ types \in [VersionId -> TypeSystem]
  BY DEF ControlTypeOK, CallTypeOK, StateTypeOK
<1>2. faults \in Nat /\ DeleteOf[d] \in VersionId
  BY ControlAssumption DEF ControlTypeOK, FlagTypeOK
<1>3. ASSUME delete_route(d) \/ delete_tables(d) \/ delete_lost(d) PROVE UnloadableInv'
  <2>1. /\ UNCHANGED <<code, unloadable, call>> /\ faults' \in {faults, faults + 1}
        /\ ~overlapped' => ~overlapped
    <3>1. CASE delete_route(d)
      BY <3>1 DEF delete_route, durable
    <3>2. CASE delete_tables(d) \/ delete_lost(d)
      BY <3>2 DEF delete_tables, delete_lost, durable
    <3> QED
      BY <1>3, <3>1, <3>2
  <2>2. ~ Undeleted'
    BY <1>1, <1>3 DEF delete_route, delete_tables, delete_lost, Undeleted, NewDel, DelState
  <2>3. faults' = 0 => faults = 0
    BY <1>2, <2>1
  <2> QED
    BY <2>1, <2>2, <2>3, StillUnloaded
<1>4. CASE delete_meta(d)
  <2> DEFINE v == DeleteOf[d]
  <2>1. /\ del[d].pc = "unrouted" /\ UNCHANGED <<faults, overlapped>>
        /\ unloadable' \subseteq unloadable \cup {v}
        /\ types'[v] = NoTypes => unloadable' = unloadable \ {v}
        /\ types' = [types EXCEPT ![v] = [n \in TypeName |->
                        IF @[n] = del[d].ts[n] THEN NoTable ELSE @[n]]]
    BY <1>4 DEF delete_meta
  <2>2. ~ Undeleted'
    BY <1>1, <1>4 DEF delete_meta, Undeleted, DelState
  <2>3. ASSUME InOrder' PROVE unloadable' = {}
    <3>1. faults = 0 /\ ~overlapped
      BY <2>1, <2>2, <2>3 DEF InOrder
    <3>2. types[v] = del[d].ts
      BY <2>1, <3>1 DEF OneByOneInv, DeletedOne
    <3>3. types'[v] = NoTypes
      BY <1>1, <1>2, <2>1, <3>2 DEF NoTypes
    <3>4. unloadable = {}
      BY <3>1 DEF UnloadableInv, InOrder
    <3> QED
      BY <2>1, <3>3, <3>4
  <2> QED
    BY <1>2, <2>1, <2>2, <2>3 DEF UnloadableInv
<1> QED
  BY <1>3, <1>4 DEF DeleteStep

\* Every other step.
LEMMA UnloadableOther ==
  ASSUME ControlTypeOK, UnloadableInv,
         \/ \E v \in VersionId, t \in Table : store(v, t)
         \/ crash \/ start_versions \/ UNCHANGED controlVars
  PROVE  UnloadableInv'
<1>1. UNCHANGED <<code, unloadable, overlapped>> /\ faults' \in {faults, faults + 1}
  BY DEF store, crash, start_versions, controlVars, durable
<1>2. faults' = 0 => faults = 0
  BY <1>1, ControlAssumption DEF ControlTypeOK, FlagTypeOK
<1>3. \A b \in Apply : call[b].pc \in {"committed", "failed"} =>
                          call'[b].pc \in {"committed", "failed"}
  BY DEF store, crash, start_versions, controlVars, ApplyRuns, NewCall, Ended
<1>4. Undeleted' => Undeleted
  <2>1. CASE crash
    BY <2>1 DEF crash, Undeleted, DeleteRuns, NewDel, Ended
  <2>2. CASE ~ crash
    BY <2>2 DEF store, start_versions, controlVars, Undeleted
  <2> QED
    BY <2>1, <2>2
<1> QED
  BY <1>1, <1>2, <1>3, <1>4, StillUnloaded

\* The inductive invariant holds at first.
LEMMA ControlInvInit ==
  ControlInit => ControlInv
<1> SUFFICES ASSUME ControlInit PROVE ControlInv
  OBVIOUS
<1>1. NewCall \in CallState /\ NewDel \in DelState /\ NoTypes \in TypeSystem
  BY DEF CallState, DelState, NewCall, NewDel, NoTypes, TypeSystem, Ended
<1>2. ControlTypeOK
  <2>1. StateTypeOK
    BY <1>1 DEF ControlInit, StateTypeOK
  <2>2. CallTypeOK
    BY <1>1 DEF ControlInit, CallTypeOK
  <2>3. FlagTypeOK
    <3>1. faults \in 0 .. MaxFaults
      BY ControlAssumption DEF ControlInit
    <3> QED
      BY <3>1 DEF ControlInit, FlagTypeOK
  <2> QED
    BY <2>1, <2>2, <2>3 DEF ControlTypeOK
<1>3. /\ \A a \in Apply : call[a].pc = "new"
      /\ \A d \in Delete : del[d].pc = "new"
  BY DEF ControlInit, NewCall, NewDel
<1>4. /\ \A a \in Apply : ~ ApplyRuns(a) /\ ~ Migrating(a)
      /\ \A d \in Delete : ~ DeleteRuns(d)
  BY <1>3 DEF ApplyRuns, DeleteRuns, Migrating, Ended
<1>5. OneMigration /\ LoadedInv /\ DownInv
  BY <1>3, <1>4, ControlAssumption DEF ControlInit, OneMigration, LoadedInv, DownInv
<1>6. TablesNamed
  BY DEF ControlInit, TablesNamed, Own, NoTypes
<1>7. \A v \in VersionId : Tables(types[v]) = {} /\ Tables(typeSystems[v]) = {}
  BY DEF ControlInit, Tables, Names, NoTypes
<1>8. TablesInStep
  BY <1>7 DEF ControlInit, TablesInStep, AllTables
<1>9. TablesInv
  BY <1>4, <1>8 DEF TablesInv, ControlInit
<1>10. MemoryInv /\ StartInv
  BY ControlAssumption DEF MemoryInv, StartInv, CanStart, Listed, ControlInit
<1>11. OneByOneInv
  BY <1>3, <1>4 DEF OneByOneInv, Alone, AppliedOne, DeletedOne, Settled, ControlInit
<1>12. UnloadableInv
  BY DEF UnloadableInv, ControlInit
<1> QED
  BY <1>2, <1>5, <1>6, <1>9, <1>10, <1>11, <1>12 DEF ControlInv

\* Every step of a call, a handler or the process keeps the inductive invariant.
LEMMA ControlInvStep ==
  ASSUME ControlInv, [ControlNext]_controlVars
  PROVE  ControlInv'
<1>1. BaseInv /\ StepInv /\ DownInv /\ UnloadableInv /\ ControlTypeOK /\ OneByOneInv
  BY DEF ControlInv, BaseInv, StepInv
<1>2. ASSUME NEW a \in Apply, validate_modules(a) \/ ApplyStep(a) \/ apply_lost(a)
      PROVE  BaseInv' /\ StepInv'
  BY <1>1, <1>2, ValidateStep, LockStep, RefusedStep, MetaStep, ReloadStep, UnloadedStep, TablesStep,
     RouteStep, LostStep DEF ApplyStep
<1>3. ASSUME NEW d \in Delete, delete_route(d) \/ DeleteStep(d) \/ delete_lost(d)
      PROVE  BaseInv' /\ StepInv'
  BY <1>1, <1>3, DeleteRouteStep, DeleteMetaStep, DeleteTablesStep, DeleteLostStep DEF DeleteStep
<1>4. ASSUME NEW v \in VersionId, NEW t \in Table, store(v, t)
      PROVE  BaseInv' /\ StepInv'
  BY <1>1, <1>4, StoreStep
<1>5. crash => BaseInv' /\ StepInv'
  BY <1>1, CrashStep
<1>6. start_versions => BaseInv' /\ StepInv'
  BY <1>1, StartStep
<1>7. ASSUME UNCHANGED controlVars PROVE BaseInv' /\ StepInv'
  <2>1. UNCHANGED <<code, policy, types, tables, rows, typeSystems, lock, trunk, call, del, up,
                    faults, overlapped>>
    BY <1>7 DEF controlVars, durable
  <2>2. BaseInv'
    BY <1>1, <2>1 DEF BaseInv, ControlTypeOK, StateTypeOK, CallTypeOK, FlagTypeOK, OneMigration,
                      TablesNamed, LoadedInv, Names
  <2>3. StepInv'
    BY <1>1, <2>1, SameStep
  <2> QED
    BY <2>2, <2>3
<1>8. BaseInv' /\ StepInv'
  BY <1>2, <1>3, <1>4, <1>5, <1>6, <1>7 DEF ControlNext, Waits
<1>9. DownInv'
  BY <1>1, DownStep
<1>10. UnloadableInv'
  BY <1>1, UnloadableApply, UnloadableDelete, UnloadableOther DEF ControlNext, Waits
<1> QED
  BY <1>8, <1>9, <1>10 DEF ControlInv, BaseInv, StepInv

\* ControlInv is an invariant of applies, deletes, crashes and restarts, however they
\* interleave.
THEOREM ControlInvariance == ControlSpec => []ControlInv
<1> QED
  BY ControlInvInit, ControlInvStep, PTL DEF ControlSpec

\* Every variable keeps its type; in particular a table that is created has a name, and
\* only tables that exist have rows.
THEOREM ControlTypes == ControlSpec => []ControlTypeOK
<1>1. ControlInv => ControlTypeOK
  BY DEF ControlInv
<1> QED
  BY <1>1, ControlInvariance, PTL

\* rpc.rs 194-213: the mutex on type_systems admits one apply at a time between taking
\* it and the end of the second transaction, and every way out releases it.
THEOREM OneMigrationAtATime == ControlSpec => []OneMigration
<1>1. ControlInv => OneMigration
  BY DEF ControlInv
<1> QED
  BY <1>1, ControlInvariance, PTL

\* server.rs 35-36, 138 and 187-198, apply.rs 222-283: without deletes nothing but models
\* that do not load, whose apply did not succeed, keeps the server from starting after
\* any crash; and applies that overlap leave memory, meta tables and backing tables in
\* step whenever none holds the mutex.
THEOREM AppliesStayInStep == ControlSpec => []AppliesKeepInStep
<1>1. ASSUME ControlInv PROVE AppliesKeepInStep
  <2> SUFFICES ASSUME Undeleted
               PROVE  /\ unloadable = {} => CanStart
                      /\ \A v \in unloadable : NotLoaded(v)
                      /\ up /\ lock = NoApply /\ faults = 0 => typeSystems = types /\ TablesInStep
    BY DEF AppliesKeepInStep
  <2>1. (unloadable = {} => CanStart) /\ \A v \in unloadable : NotLoaded(v)
    BY <1>1 DEF ControlInv, StartInv, UnloadableInv, CanStart
  <2>2. ASSUME lock = NoApply, faults = 0 PROVE typeSystems = types /\ TablesInStep
    <3>1. \A a \in Apply : call[a].pc \notin {"locked", "committed", "loaded"}
      BY <1>1, <2>2, ControlAssumption DEF ControlInv, OneMigration
    <3>2. TablesInStep
      BY <1>1, <2>2, <3>1 DEF ControlInv, TablesInv, InOrder, Migrating, Undeleted
    <3>3. \A v \in VersionId : typeSystems[v] = types[v]
      BY <1>1, <2>2, <3>1 DEF ControlInv, MemoryInv
    <3>4. typeSystems \in [VersionId -> TypeSystem] /\ types \in [VersionId -> TypeSystem]
      BY <1>1 DEF ControlInv, ControlTypeOK, StateTypeOK
    <3>5. typeSystems = types
      BY <3>3, <3>4
    <3> QED
      BY <3>2, <3>5
  <2> QED
    BY <2>1, <2>2
<1> QED
  BY <1>1, ControlInvariance, PTL

\* rpc.rs 226-232 and 315-333: applies and deletes that come one at a time leave every
\* version served as it was last persisted, with the tables of its models.
THEOREM ServedAsPersisted == ControlSpec => []ServesWhatIsPersisted
<1>1. ASSUME ControlInv PROVE ServesWhatIsPersisted
  <2> SUFFICES ASSUME Idle, faults = 0, ~overlapped
               PROVE  /\ TablesInStep
                      /\ \A v \in VersionId : trunk[v] # NoVersion =>
                           trunk[v].code = code[v] /\ Tables(trunk[v].ts) \subseteq tables
    BY DEF ServesWhatIsPersisted
  <2>1. /\ \A a \in Apply : ~ ApplyRuns(a)
        /\ \A d \in Delete : ~ DeleteRuns(d)
    BY DEF Idle, Running
  <2>2. TablesInStep
    BY <1>1, <2>1 DEF ControlInv, TablesInv, InOrder, Migrating, ApplyRuns, DeleteRuns, Ended
  <2>3. ASSUME NEW v \in VersionId, trunk[v] # NoVersion
        PROVE  trunk[v].code = code[v] /\ Tables(trunk[v].ts) \subseteq tables
    <3>1. Settled(v)
      BY <1>1, <2>1 DEF ControlInv, OneByOneInv, ApplyOn, DeleteOn, ApplyRuns, Ended
    <3>2. trunk[v] = [code |-> code[v], ts |-> types[v]]
      BY <2>3, <3>1 DEF Settled
    <3>3. trunk[v].code = code[v] /\ trunk[v].ts = types[v]
      BY <3>2
    <3> QED
      BY <2>2, <3>3 DEF TablesInStep, AllTables
  <2> QED
    BY <2>2, <2>3
<1> QED
  BY <1>1, ControlInvariance, PTL

-----------------------------------------------------------------------------
(* The refresh of the secrets.                                             *)

\* The backoff stays within its bounds.
LEMMA BackoffBounded ==
  ASSUME delay \in Nat \ {0}
  PROVE  Backoff \in 1 .. MaxDelay
<1>1. delay * Factor \in Nat /\ delay * Factor >= 1
  BY SecretsAssumption
<1>2. MaxDelay \in Nat /\ MaxDelay >= 1
  BY SecretsAssumption
<1> QED BY <1>1, <1>2 DEF Backoff

\* Each step keeps the types, and the delay within its bounds: the usual one unless
\* the last round of refresh_secrets failed.
LEMMA SecretsStep ==
  ASSUME SecretsTypeOK, [SecretsNext]_secretsVars
  PROVE  SecretsTypeOK'
<1> DEFINE Task == [pc : {"idle", "read", "error", "ended"}, read : 0 .. MaxEdit]
<1> USE SecretsAssumption
<1>1. MaxEdit \in Nat /\ MaxFail \in Nat /\ source.n \in 0 .. MaxEdit /\ task \in [Updater -> Task]
  BY DEF SecretsTypeOK
<1>2. Sleeping \in Task /\ [Sleeping EXCEPT !.pc = "ended"] \in Task
  BY <1>1 DEF Sleeping
<1>3. Refresh \in Updater /\ Applier \subseteq Updater
  BY DEF Updater
<1>4. delay \in Nat \ {0}
  BY DEF SecretsTypeOK
<1>5. ASSUME edit PROVE SecretsTypeOK'
  <2>1. source' \in [n : 0 .. MaxEdit, ok : BOOLEAN]
    BY <1>1, <1>5 DEF edit
  <2> QED BY <1>5, <2>1 DEF edit, SecretsTypeOK
<1>6. ASSUME refresh_ok PROVE SecretsTypeOK'
  <2>1. task' \in [Updater -> Task]
    BY <1>1, <1>2, <1>6 DEF refresh_ok
  <2>2. secrets' \in 0 .. MaxEdit
    BY <1>1, <1>3, <1>6 DEF refresh_ok
  <2> QED BY <1>6, <2>1, <2>2 DEF refresh_ok, SecretsTypeOK
<1>7. ASSUME refresh_err PROVE SecretsTypeOK'
  <2>1. task' \in [Updater -> Task]
    BY <1>1, <1>2, <1>7 DEF refresh_err
  <2>2. failed' = TRUE /\ delay' \in 1 .. MaxDelay
    BY <1>4, <1>7, BackoffBounded DEF refresh_err
  <2> QED BY <1>7, <2>1, <2>2 DEF refresh_err, SecretsTypeOK
<1>8. ASSUME NEW u \in Updater, get_secrets(u) PROVE SecretsTypeOK'
  <2>1. task' \in [Updater -> Task]
    BY <1>1, <1>8 DEF get_secrets
  <2> QED BY <1>8, <2>1 DEF get_secrets, SecretsTypeOK
<1>9. ASSUME NEW u \in Updater, get_secrets_err(u) PROVE SecretsTypeOK'
  <2>1. task' \in [Updater -> Task]
    BY <1>1, <1>9 DEF get_secrets_err
  <2>2. nfail' \in 0 .. MaxFail
    BY <1>1, <1>9 DEF get_secrets_err, SecretsTypeOK
  <2> QED BY <1>9, <2>1, <2>2 DEF get_secrets_err, SecretsTypeOK
<1>10. ASSUME NEW a \in Applier, apply_ok(a) PROVE SecretsTypeOK'
  <2>1. task' \in [Updater -> Task]
    BY <1>1, <1>2, <1>10 DEF apply_ok
  <2>2. secrets' \in 0 .. MaxEdit
    BY <1>1, <1>3, <1>10 DEF apply_ok
  <2> QED BY <1>10, <2>1, <2>2 DEF apply_ok, SecretsTypeOK
<1>11. ASSUME NEW a \in Applier, apply_err(a) PROVE SecretsTypeOK'
  <2>1. task' \in [Updater -> Task]
    BY <1>1, <1>2, <1>11 DEF apply_err
  <2> QED BY <1>11, <2>1 DEF apply_err, SecretsTypeOK
<1>12. ASSUME UNCHANGED secretsVars PROVE SecretsTypeOK'
  BY <1>12 DEF secretsVars, SecretsTypeOK
<1> QED BY <1>5, <1>6, <1>7, <1>8, <1>9, <1>10, <1>11, <1>12 DEF SecretsNext

\* server.rs 270-291: the polling of the secrets is slowed down only while reading
\* fails, and never beyond the longest delay, however the applies interfere.
THEOREM SecretsInvariance == SecretsSpec => []SecretsTypeOK
<1>1. SecretsInit => SecretsTypeOK
  <2> SUFFICES ASSUME SecretsInit PROVE SecretsTypeOK
    OBVIOUS
  <2>1. source \in [n : 0 .. MaxEdit, ok : BOOLEAN] /\ 0 \in 0 .. MaxEdit /\ 0 \in 0 .. MaxFail
    BY SecretsAssumption DEF SecretsInit
  <2>2. task \in [Updater -> [pc : {"idle", "read", "error", "ended"}, read : 0 .. MaxEdit]]
    BY <2>1 DEF SecretsInit, Sleeping
  <2> QED BY <2>1, <2>2 DEF SecretsInit, SecretsTypeOK
<1>2. SecretsTypeOK /\ [SecretsNext]_secretsVars => SecretsTypeOK'
  BY SecretsStep
<1> QED BY <1>1, <1>2, PTL DEF SecretsSpec

=============================================================================
