---------------------------- MODULE OutboxProofs ----------------------------
(* The safety properties of Outbox, proved for every number of versions,   *)
(* instances, workers, rows and faults.                                    *)
EXTENDS Outbox, JobPipelineProofs

-----------------------------------------------------------------------------
(* The pipeline under the outbox.                                          *)

\* Every step of the pipeline keeps which instances the nursery owns in step with
\* the routes and the tasks.
LEMMA NurseryStep == TypeOK /\ NurseryInv /\ [Next]_vars => NurseryInv'
<1> SUFFICES ASSUME TypeOK, NurseryInv, [Next]_vars PROVE NurseryInv'
  OBVIOUS
<1> USE DEF routeVars, taskVars, queueVars, workerVars, reqVars, Pending
<1>1. ASSUME NEW i \in Instance, spawn(i) PROVE NurseryInv'
  BY <1>1 DEF TypeOK, NurseryInv, spawn
<1>2. ASSUME NEW i \in Instance, add_version(i) PROVE NurseryInv'
  BY <1>2 DEF TypeOK, NurseryInv, add_version
<1>3. ASSUME NEW i \in Instance, drop_version(i) PROVE NurseryInv'
  BY <1>3 DEF TypeOK, NurseryInv, drop_version, StopTask, Aborted
<1>4. ASSUME NEW v \in VersionId, remove_version(v) PROVE NurseryInv'
  BY <1>4 DEF TypeOK, NurseryInv, remove_version
<1>5. ASSUME NEW r \in Request, NEW v \in VersionId, get_trunk_version(r, v) PROVE NurseryInv'
  BY <1>5 DEF TypeOK, NurseryInv, get_trunk_version
<1>6. ASSUME NEW r \in Request, reject(r) PROVE NurseryInv'
  BY <1>6 DEF TypeOK, NurseryInv, reject
<1>7. ASSUME NEW r \in Request, send_job(r) PROVE NurseryInv'
  <2>1. rinst[r] \in Instance /\ owner[rinst[r]] = "nursery"
    BY <1>7 DEF NurseryInv, send_job
  <2>2. \/ /\ req' = [req EXCEPT ![r] = "waiting"]
           /\ blocked' = [blocked EXCEPT ![rinst[r]] = @ \cup {HttpJob(r)}]
        \/ req' = [req EXCEPT ![r] = "aborted"] /\ blocked' = blocked
    BY <1>7, Zenon DEF send_job
  <2>3. \A k \in Instance : owner[k] # "nursery" => blocked'[k] = blocked[k]
    BY <2>1, <2>2 DEF TypeOK
  <2>4. \A q \in Request : req'[q] \in Pending => req[q] \in Pending
    BY <1>7, <2>2 DEF TypeOK, send_job
  <2> QED BY <1>7, <2>3, <2>4 DEF NurseryInv, send_job
<1>8. ASSUME NEW r \in Request, disconnect(r) PROVE NurseryInv'
  BY <1>8 DEF TypeOK, NurseryInv, disconnect
<1>9. ASSUME handle_event PROVE NurseryInv'
  BY PipelineAssumption, <1>9 DEF TypeOK, NurseryInv, handle_event, Listed
<1>10. ASSUME event_sent PROVE NurseryInv'
  BY <1>10 DEF TypeOK, NurseryInv, event_sent
<1>11. ASSUME NEW i \in Instance, NEW w \in Worker, handle_publish(i, w) PROVE NurseryInv'
  BY PipelineAssumption, <1>11 DEF TypeOK, NurseryInv, handle_publish, Listed
<1>12. ASSUME NEW i \in Instance, NEW w \in Worker, publish_sent(i, w) PROVE NurseryInv'
  BY <1>12 DEF TypeOK, NurseryInv, publish_sent
<1>13. ASSUME NEW i \in Instance, NEW j \in Job, send_permit(i, j) PROVE NurseryInv'
  BY <1>13 DEF TypeOK, NurseryInv, send_permit
<1>14. ASSUME NEW i \in Instance, dispatch_recv(i) PROVE NurseryInv'
  BY <1>14 DEF TypeOK, NurseryInv, dispatch_recv
<1>15. ASSUME NEW i \in Instance, dispatch_send(i) PROVE NurseryInv'
  BY <1>15 DEF TypeOK, NurseryInv, dispatch_send
<1>16. ASSUME NEW i \in Instance, dispatch_close(i) PROVE NurseryInv'
  BY <1>16 DEF TypeOK, NurseryInv, dispatch_close
<1>17. ASSUME NEW i \in Instance, signal_ready(i) PROVE NurseryInv'
  BY <1>17 DEF TypeOK, NurseryInv, signal_ready
<1>18. ASSUME NEW i \in Instance, task_ok(i) PROVE NurseryInv'
  BY <1>18 DEF TypeOK, NurseryInv, task_ok
<1>19. ASSUME NEW i \in Instance, task_err(i) PROVE NurseryInv'
  BY <1>19 DEF TypeOK, NurseryInv, task_err, StopTask, Aborted
<1>20. ASSUME NEW i \in Instance, trunk_err(i) PROVE NurseryInv'
  BY <1>20 DEF TypeOK, NurseryInv, trunk_err
<1>21. ASSUME NEW i \in Instance, NEW w \in Worker, op_chisel_ready(i, w) PROVE NurseryInv'
  BY <1>21 DEF TypeOK, NurseryInv, op_chisel_ready
<1>22. ASSUME NEW i \in Instance, NEW w \in Worker, op_chisel_accept_job(i, w) PROVE NurseryInv'
  BY <1>22 DEF TypeOK, NurseryInv, op_chisel_accept_job
<1>23. ASSUME NEW i \in Instance, NEW w \in Worker, finish_job(i, w) PROVE NurseryInv'
  BY <1>23 DEF TypeOK, NurseryInv, finish_job, Answered
<1>24. ASSUME NEW i \in Instance, NEW w \in Worker, worker_done(i, w) PROVE NurseryInv'
  BY <1>24 DEF TypeOK, NurseryInv, worker_done
<1>25. ASSUME NEW i \in Instance, NEW w \in Worker, worker_err(i, w) PROVE NurseryInv'
  BY <1>25 DEF TypeOK, NurseryInv, worker_err, Aborted
<1>26. CASE UNCHANGED vars
  BY <1>26 DEF NurseryInv, vars
<1> QED
  BY <1>1, <1>2, <1>3, <1>4, <1>5, <1>6, <1>7, <1>8, <1>9, <1>10, <1>11, <1>12, <1>13, <1>14, <1>15, <1>16, <1>17, <1>18, <1>19, <1>20, <1>21, <1>22, <1>23, <1>24, <1>25, <1>26
     DEF Next, RpcStep, HttpStep, KafkaStep, VersionStep, WorkerStep, Waits

-----------------------------------------------------------------------------

\* The steps that have nothing to do with the outbox leave a worker 0 that
\* runs an Outbox job alone.
LEMMA RunsOn == TypeOK /\ NurseryInv /\ Elsewhere =>
                  \A k \in Instance : RunsOutbox(k, 0) => RunsOutbox(k, 0)'
<1> SUFFICES ASSUME TypeOK, NurseryInv, Elsewhere, NEW k \in Instance, RunsOutbox(k, 0)
             PROVE  RunsOutbox(k, 0)'
  OBVIOUS
<1> USE DEF RunsOutbox, routeVars, taskVars, queueVars, workerVars, reqVars
<1>0. 0 \in Worker
  BY WorkerFacts
<1>1. ASSUME NEW i \in Instance, spawn(i) PROVE RunsOutbox(k, 0)'
  <2>1. i # k
    <3>1. owner[i] = "nobody"
      BY <1>1 DEF spawn, NurseryInv
    <3>2. wstate[i][0] # "busy"
      BY <1>0, <3>1 DEF NurseryInv
    <3> QED BY <3>2
  <2> QED BY <1>1, <2>1 DEF spawn, TypeOK
<1>2. ASSUME NEW i \in Instance, NEW w \in Worker, publish_sent(i, w) PROVE RunsOutbox(k, 0)'
  BY <1>2 DEF publish_sent, TypeOK
<1>3. ASSUME NEW i \in Instance, NEW w \in Worker, op_chisel_ready(i, w) PROVE RunsOutbox(k, 0)'
  BY <1>3 DEF op_chisel_ready, TypeOK
<1>4. ASSUME NEW i \in Instance, NEW w \in Worker, op_chisel_accept_job(i, w) PROVE RunsOutbox(k, 0)'
  BY <1>4 DEF op_chisel_accept_job, TypeOK
<1>5. ASSUME NEW i \in Instance, NEW w \in Worker, worker_done(i, w) PROVE RunsOutbox(k, 0)'
  BY <1>5 DEF worker_done, TypeOK
<1>6. ASSUME wstate' = wstate, wjob' = wjob PROVE RunsOutbox(k, 0)'
  BY <1>6
<1>7. CASE (\E i \in Instance : add_version(i)) \/ (\E v \in VersionId : remove_version(v))
  BY <1>6, <1>7 DEF add_version, remove_version
<1>8. CASE HttpStep \/ handle_event \/ event_sent
  BY <1>6, <1>8 DEF HttpStep, get_trunk_version, reject, send_job, disconnect, handle_event, event_sent
<1>9. ASSUME NEW i \in Instance,
             \/ \E j \in Job : send_permit(i, j)
             \/ dispatch_recv(i) \/ dispatch_send(i) \/ dispatch_close(i)
             \/ signal_ready(i) \/ task_ok(i) \/ trunk_err(i)
      PROVE  RunsOutbox(k, 0)'
  BY <1>6, <1>9 DEF send_permit, dispatch_recv, dispatch_send, dispatch_close, signal_ready, task_ok, trunk_err
<1> QED BY <1>1, <1>2, <1>3, <1>4, <1>5, <1>7, <1>8, <1>9 DEF Elsewhere

\* No such step makes a worker or an instance fail, or stops a server in which
\* nothing has failed.
LEMMA NoFaultElsewhere == TypeOK /\ FaultInv /\ Elsewhere => FaultInv'
<1> SUFFICES ASSUME TypeOK, Elsewhere, faults = 0, lost = 0, server = "up",
                    \A i \in Instance : task[i] # "err" /\ \A w \in Worker : wstate[i][w] # "failed"
             PROVE  /\ lost' = 0 /\ server' = "up"
                    /\ \A k \in Instance : task'[k] # "err" /\ \A u \in Worker : wstate'[k][u] # "failed"
  BY DEF FaultInv, Elsewhere, outboxVars
<1> DEFINE Good == /\ server' = "up"
                   /\ \A k \in Instance : task'[k] # "err" /\ \A u \in Worker : wstate'[k][u] # "failed"
<1> SUFFICES Good
  BY DEF Elsewhere, outboxVars
<1> USE DEF routeVars, taskVars, queueVars, workerVars, reqVars
<1>1. ASSUME NEW i \in Instance, spawn(i) PROVE Good
  BY <1>1 DEF spawn, TypeOK
<1>2. ASSUME NEW i \in Instance, NEW w \in Worker, publish_sent(i, w) PROVE Good
  BY <1>2 DEF publish_sent, TypeOK
<1>3. ASSUME NEW i \in Instance, NEW w \in Worker, op_chisel_ready(i, w) PROVE Good
  BY <1>3 DEF op_chisel_ready, TypeOK
<1>4. ASSUME NEW i \in Instance, NEW w \in Worker, op_chisel_accept_job(i, w) PROVE Good
  BY <1>4 DEF op_chisel_accept_job, TypeOK
<1>5. ASSUME NEW i \in Instance, NEW w \in Worker, worker_done(i, w) PROVE Good
  BY <1>5 DEF worker_done, TypeOK
<1>6. ASSUME NEW i \in Instance, task_ok(i) PROVE Good
  BY <1>6 DEF task_ok, TypeOK
<1>7. CASE (\E i \in Instance : add_version(i)) \/ (\E v \in VersionId : remove_version(v))
  BY <1>7 DEF add_version, remove_version
<1>8. CASE HttpStep \/ handle_event \/ event_sent
  BY <1>8 DEF HttpStep, get_trunk_version, reject, send_job, disconnect, handle_event, event_sent
<1>9. ASSUME NEW i \in Instance,
             \/ \E j \in Job : send_permit(i, j)
             \/ dispatch_recv(i) \/ dispatch_send(i) \/ dispatch_close(i)
             \/ signal_ready(i) \/ trunk_err(i)
      PROVE  Good
  BY <1>9 DEF send_permit, dispatch_recv, dispatch_send, dispatch_close, signal_ready, trunk_err
<1> HIDE DEF Good
<1> QED BY <1>1, <1>2, <1>3, <1>4, <1>5, <1>6, <1>7, <1>8, <1>9 DEF Elsewhere

-----------------------------------------------------------------------------
(* The rows.                                                               *)

\* A row is staged if some worker's transaction has inserted it.
LEMMA StagedFacts ==
  \A row : row \in Staged <=> \E i \in Instance, w \in Worker : row \in txn[i][w]
BY DEF Staged

\* The same in the next state.
LEMMA StagedFactsNext ==
  \A row : row \in Staged' <=> \E i \in Instance, w \in Worker : row \in txn'[i][w]
BY DEF Staged

\* What the status of a row is, case by case.
LEMMA StatusFacts ==
  ASSUME NEW row
  PROVE  /\ row \in Staged => Status(row) = "staged"
         /\ row \notin Staged /\ row \in outbox => Status(row) = "deliverable"
         /\ row \notin Staged /\ row \notin outbox /\ published[row] > 0 => Status(row) = "delivered"
         /\ row \notin Staged /\ row \notin outbox /\ ~(published[row] > 0) => Status(row) = "none"
BY DEF Status

\* The same in the next state.
LEMMA StatusFactsNext ==
  ASSUME NEW row
  PROVE  /\ row \in Staged' => Status(row)' = "staged"
         /\ row \notin Staged' /\ row \in outbox' => Status(row)' = "deliverable"
         /\ row \notin Staged' /\ row \notin outbox' /\ published'[row] > 0 => Status(row)' = "delivered"
         /\ row \notin Staged' /\ row \notin outbox' /\ ~(published'[row] > 0) => Status(row)' = "none"
BY DEF Status

\* Moving the rows in E, in the terms of EventDelivery.
LEMMA MoveRows ==
  ASSUME NEW E \in SUBSET Row, NEW s, NEW t, published' = published,
         \A row \in E : Status(row) = s /\ Status(row)' = t,
         \A row \in Row \ E : Status(row)' = Status(row)
  PROVE  Delivery!Move(E, s, t)
<1>1. \A row \in E : [r \in Row |-> Status(r)][row] = s
  OBVIOUS
<1>2. [r \in Row |-> Status(r)]' = [r \in Row |-> IF r \in E THEN t ELSE [x \in Row |-> Status(x)][r]]
  OBVIOUS
<1> QED BY <1>1, <1>2 DEF Delivery!Move

\* Transactions that are rolled back discard their rows.
LEMMA RollBack ==
  ASSUME RowTypeOK, StagedInv, outbox' = outbox, published' = published,
         \A k \in Instance, u \in Worker : txn'[k][u] = txn[k][u] \/ txn'[k][u] = {}
  PROVE  StagedInv' /\ Delivery!Discard
<1>1. StagedInv'
  BY DEF StagedInv
<1>2. Delivery!Discard
  <2> DEFINE E == Staged \ Staged'
  <2>1. E \in SUBSET Row
    BY StagedFacts DEF RowTypeOK
  <2>2. \A row \in Staged : row \in Row /\ row \notin outbox /\ ~(published[row] > 0)
    BY StagedFacts DEF RowTypeOK, StagedInv
  <2>3. \A row \in Staged' : row \in Staged
    BY StagedFacts, StagedFactsNext
  <2>4. \A row \in E : Status(row) = "staged" /\ Status(row)' = "none"
    BY <2>2, StatusFacts, StatusFactsNext
  <2>5. \A row \in Row \ E : Status(row)' = Status(row)
    <3> SUFFICES ASSUME NEW row \in Row \ E PROVE Status(row)' = Status(row)
      OBVIOUS
    <3>1. row \in Staged <=> row \in Staged'
      BY <2>3
    <3> QED BY <3>1, StatusFacts, StatusFactsNext
  <2> HIDE DEF E
  <2>6. Delivery!Move(E, "staged", "none")
    BY <2>1, <2>4, <2>5, MoveRows
  <2> QED BY <2>1, <2>6 DEF Delivery!Discard
<1> QED BY <1>1, <1>2

\* A poll that is cut off between publishing and deleting leaves its row in the
\* table, to be published once more: lost counts it.
LEMMA CutOff ==
  ASSUME RowTypeOK, PollInv, CopiesInv, outbox' = outbox, published' = published,
         \/ mutex' = mutex /\ poll' = poll /\ lost' = lost
         \/ mutex' = NoInst /\ poll' = NoPoll /\ lost' = lost + InFlight
  PROVE  PollInv' /\ CopiesInv' /\ lost' \in Nat /\ lost' >= lost
<1>1. CASE mutex' = mutex /\ poll' = poll /\ lost' = lost
  BY <1>1 DEF PollInv, CopiesInv, RowTypeOK
<1>2. CASE mutex' = NoInst /\ poll' = NoPoll /\ lost' = lost + InFlight
  <2>1. lost \in Nat /\ lost' \in Nat /\ lost' >= lost
        /\ (poll.pc = "delete" => lost' = lost + 1)
    BY <1>2 DEF RowTypeOK, InFlight
  <2>2. PollInv'
    BY <1>2 DEF PollInv, NoPoll
  <2>3. \A row \in Row : published[row] \in Nat
    BY DEF RowTypeOK
  <2>4. \A row \in Row : row \in outbox => published[row] <= lost'
    <3> SUFFICES ASSUME NEW row \in Row, row \in outbox PROVE published[row] <= lost'
      OBVIOUS
    <3>1. published[row] <= 1 + lost /\ (row \notin poll.sent => published[row] <= lost)
      BY DEF CopiesInv
    <3>2. row \in poll.sent => poll.pc = "delete"
      BY DEF PollInv
    <3> QED BY <2>1, <2>3, <3>1, <3>2
  <2>5. \A row \in Row : published[row] <= 1 + lost'
    BY <2>1, <2>3 DEF CopiesInv
  <2> QED BY <2>1, <2>2, <2>4, <2>5 DEF CopiesInv
<1> QED BY <1>1, <1>2

\* Steps that touch no row are invisible to EventDelivery.
LEMMA Unseen ==
  ASSUME txn' = txn, outbox' = outbox, published' = published
  PROVE  UNCHANGED Delivery!edVars
BY DEF Delivery!edVars, Status, Staged

\* The invariants about rows, and the step of EventDelivery that a step is.
RowsInv == RowTypeOK /\ StagedInv /\ PollInv /\ CopiesInv
RowsStep == RowsInv' /\ [Delivery!Next]_(Delivery!edVars)

\* publishEvent() stages a row that is new.
LEMMA PublishEventRows ==
  ASSUME RowsInv, NEW i \in Instance, NEW w \in Worker, publishEvent(i, w)
  PROVE  RowsStep
<1> USE DEF RowsInv
<1>1. PICK row \in NewRows : txn' = [txn EXCEPT ![i][w] = @ \cup {row}]
  BY DEF publishEvent
<1>2. UNCHANGED <<outbox, mutex, poll, published, faults, lost>>
  BY DEF publishEvent
<1>3. row \in Row /\ row \notin Staged /\ row \notin outbox /\ published[row] = 0
  BY DEF NewRows
<1>4. /\ txn'[i][w] = txn[i][w] \cup {row}
      /\ \A k \in Instance, u \in Worker : k # i \/ u # w => txn'[k][u] = txn[k][u]
  BY <1>1 DEF RowTypeOK
<1>5. txn' \in [Instance -> [Worker -> SUBSET Row]]
  BY <1>1, <1>3 DEF RowTypeOK
<1>6. RowTypeOK'
  BY <1>2, <1>5 DEF RowTypeOK
<1>7. \A k \in Instance, u \in Worker : row \notin txn[k][u]
  BY <1>3, StagedFacts
<1>8. StagedInv'
  <2>1. ASSUME NEW r \in Row, NEW k \in Instance, NEW l \in Instance, NEW u \in Worker, NEW v \in Worker,
               r \in txn'[k][u], r \in txn'[l][v]
        PROVE  k = l /\ u = v
    <3>1. CASE r = row
      BY <1>4, <1>7, <2>1, <3>1
    <3>2. CASE r # row
      <4>1. r \in txn[k][u] /\ r \in txn[l][v]
        BY <1>4, <2>1, <3>2
      <4> QED BY <4>1 DEF StagedInv
    <3> QED BY <3>1, <3>2
  <2>2. ASSUME NEW k \in Instance, NEW u \in Worker, NEW r \in txn'[k][u]
        PROVE  r \notin outbox /\ published[r] = 0
    <3>1. r = row \/ r \in txn[k][u]
      BY <1>4, <2>2
    <3> QED BY <1>3, <3>1 DEF StagedInv
  <2> QED BY <1>2, <2>1, <2>2 DEF StagedInv
<1>9. PollInv' /\ CopiesInv'
  BY <1>2 DEF PollInv, CopiesInv
<1>10. \A r : r \in Staged' <=> r \in Staged \/ r = row
  BY <1>4, StagedFacts, StagedFactsNext
<1>11. Delivery!Move({row}, "none", "staged")
  <2>1. Status(row) = "none" /\ Status(row)' = "staged"
    BY <1>3, <1>10, StatusFacts, StatusFactsNext
  <2>2. \A r \in Row \ {row} : Status(r)' = Status(r)
    BY <1>2, <1>10, StatusFacts, StatusFactsNext
  <2> QED BY <1>2, <1>3, <2>1, <2>2, MoveRows
<1> QED BY <1>3, <1>6, <1>8, <1>9, <1>11 DEF RowsStep, Delivery!Next, Delivery!Stage

\* The commit makes the rows of the handler visible, all of them at once.
LEMMA CommitRows ==
  ASSUME RowsInv, NEW i \in Instance, NEW w \in Worker, handler_commits(i, w)
  PROVE  RowsStep
<1> USE DEF RowsInv
<1>1. /\ outbox' = outbox \cup txn[i][w] /\ txn' = [txn EXCEPT ![i][w] = {}]
      /\ UNCHANGED <<mutex, poll, published, faults, lost>>
  BY DEF handler_commits
<1>2. /\ txn'[i][w] = {}
      /\ \A k \in Instance, u \in Worker : k # i \/ u # w => txn'[k][u] = txn[k][u]
      /\ txn' \in [Instance -> [Worker -> SUBSET Row]]
      /\ txn[i][w] \in SUBSET Row
  BY <1>1 DEF RowTypeOK
<1>3. RowTypeOK'
  BY <1>1, <1>2 DEF RowTypeOK
<1>4. StagedInv'
  <2>1. ASSUME NEW k \in Instance, NEW u \in Worker, NEW r \in txn'[k][u]
        PROVE  r \notin outbox' /\ published[r] = 0
    <3>1. r \in txn[k][u] /\ (k # i \/ u # w)
      BY <1>2, <2>1
    <3>2. r \notin txn[i][w]
      BY <1>2, <3>1 DEF StagedInv, RowTypeOK
    <3> QED BY <1>1, <3>1, <3>2 DEF StagedInv
  <2>2. \A k \in Instance, u \in Worker : txn'[k][u] \subseteq txn[k][u]
    BY <1>2
  <2> QED BY <1>1, <2>1, <2>2 DEF StagedInv
<1>5. PollInv'
  BY <1>1 DEF PollInv
<1>6. CopiesInv'
  <2>1. \A r \in txn[i][w] : published[r] = 0
    BY DEF StagedInv
  <2>2. lost \in Nat
    BY DEF RowTypeOK
  <2> QED BY <1>1, <2>1, <2>2 DEF CopiesInv
<1>7. \A r : r \in Staged' <=> r \in Staged /\ r \notin txn[i][w]
  <2>1. \A k \in Instance, u \in Worker : \A r \in txn[k][u] : r \in txn[i][w] => k = i /\ u = w
    BY <1>2 DEF StagedInv
  <2> QED BY <1>2, <2>1, StagedFacts, StagedFactsNext
<1>8. Delivery!Move(txn[i][w], "staged", "deliverable")
  <2>1. \A r \in txn[i][w] : r \in Staged /\ r \notin Staged' /\ r \in outbox'
    BY <1>1, <1>7, StagedFacts
  <2>2. \A r \in txn[i][w] : Status(r) = "staged" /\ Status(r)' = "deliverable"
    BY <2>1, StatusFacts, StatusFactsNext
  <2>3. \A r \in Row \ txn[i][w] : Status(r)' = Status(r)
    BY <1>1, <1>7, StatusFacts, StatusFactsNext
  <2> QED BY <1>1, <1>2, <2>2, <2>3, MoveRows
<1> QED BY <1>2, <1>3, <1>4, <1>5, <1>6, <1>8 DEF RowsStep, Delivery!Next, Delivery!Commit

\* The rollback of a handler that throws, of one worker, of one instance or of
\* all of them.
LEMMA FailureRows ==
  ASSUME RowsInv, outbox' = outbox, published' = published,
         txn' \in [Instance -> [Worker -> SUBSET Row]],
         \A k \in Instance, u \in Worker : txn'[k][u] = txn[k][u] \/ txn'[k][u] = {},
         \/ mutex' = mutex /\ poll' = poll /\ lost' = lost
         \/ mutex' = NoInst /\ poll' = NoPoll /\ lost' = lost + InFlight,
         faults' \in 0 .. MaxFaults
  PROVE  RowsStep
<1> USE DEF RowsInv
<1>1. StagedInv' /\ Delivery!Discard
  BY RollBack
<1>2. PollInv' /\ CopiesInv' /\ lost' \in Nat
  BY CutOff
<1>3. RowTypeOK'
  BY <1>2 DEF RowTypeOK, NoPoll
<1> QED BY <1>1, <1>2, <1>3 DEF RowsStep, Delivery!Next

\* Publishing is a Send of EventDelivery: the row was still to be published, so
\* it had no more copies than polls were cut off.
LEMMA PublishRows ==
  ASSUME RowsInv, NEW i \in Instance, publish_event(i)
  PROVE  RowsStep
<1> USE DEF RowsInv
<1>1. PICK row \in poll.rows :
        /\ poll' = [pc |-> "delete", rows |-> poll.rows \ {row}, sent |-> {row}]
        /\ published' = [published EXCEPT ![row] = @ + 1]
  BY DEF publish_event
<1>2. mutex = i /\ poll.pc = "send" /\ UNCHANGED <<outbox, txn, mutex, faults, lost>>
  BY DEF publish_event
<1>3. /\ row \in outbox /\ row \in Row /\ poll.rows \subseteq outbox /\ poll.rows \in SUBSET Row
      /\ poll.sent = {} /\ mutex # NoInst
  BY <1>1, <1>2, PipelineAssumption DEF PollInv, RowTypeOK
<1>4. /\ published[row] \in Nat /\ published'[row] = published[row] + 1
      /\ \A r \in Row : r # row => published'[r] = published[r]
      /\ published' \in [Row -> Nat]
  BY <1>1, <1>3 DEF RowTypeOK
<1>5. poll'.pc = "delete" /\ poll'.rows = poll.rows \ {row} /\ poll'.sent = {row}
  BY <1>1
<1>6. RowTypeOK'
  BY <1>1, <1>2, <1>3, <1>4 DEF RowTypeOK
<1>7. StagedInv'
  <2>1. \A k \in Instance, u \in Worker : \A r \in txn[k][u] : r \in Row /\ r # row
    BY <1>3 DEF StagedInv, RowTypeOK
  <2> QED BY <1>2, <1>4, <2>1 DEF StagedInv
<1>8. PollInv'
  <2>1. poll'.rows \cup poll'.sent \subseteq outbox' /\ poll'.rows \cap poll'.sent = {}
    BY <1>2, <1>3, <1>5
  <2>2. poll'.sent = {row} /\ published'[row] > 0
    BY <1>4, <1>5
  <2> QED BY <1>2, <1>3, <1>5, <2>1, <2>2 DEF PollInv
<1>9. CopiesInv'
  <2>1. lost \in Nat /\ published[row] <= lost
    BY <1>3 DEF CopiesInv, RowTypeOK
  <2>2. \A r \in Row : r # row => /\ published'[r] <= 1 + lost
                                  /\ r \in outbox => published'[r] <= lost
    BY <1>3, <1>4 DEF CopiesInv
  <2>3. published'[row] <= 1 + lost
    BY <1>4, <2>1
  <2> SUFFICES ASSUME NEW r \in Row
               PROVE  /\ published'[r] <= 1 + lost'
                      /\ r \in outbox' /\ r \notin poll'.sent => published'[r] <= lost'
    BY DEF CopiesInv
  <2>4. CASE r = row
    BY <1>2, <1>5, <2>3, <2>4
  <2>5. CASE r # row
    <3>1. lost' = lost /\ outbox' = outbox
      BY <1>2
    <3> QED BY <1>4, <2>1, <2>2, <2>5, <3>1
  <2> QED BY <2>4, <2>5
<1>10. Delivery!Send
  <2>1. row \notin Staged
    BY <1>3, StagedFacts DEF StagedInv
  <2>2. Status(row) = "deliverable" /\ \A r \in Row : Status(r)' = Status(r)
    <3>1. \A r : r \in Staged' <=> r \in Staged
      BY <1>2, StagedFacts, StagedFactsNext
    <3> QED BY <1>2, <1>3, <1>4, <2>1, <3>1, StatusFacts, StatusFactsNext
  <2>3. [r \in Row |-> Status(r)]' = [r \in Row |-> Status(r)]
    BY <2>2
  <2>4. [r \in Row |-> Status(r)][row] = "deliverable"
    BY <1>3, <2>2
  <2> QED BY <1>1, <1>3, <2>3, <2>4 DEF Delivery!Send
<1> QED BY <1>6, <1>7, <1>8, <1>9, <1>10 DEF RowsStep, Delivery!Next

\* The row that is deleted was published.
LEMMA DeleteRows ==
  ASSUME RowsInv, NEW i \in Instance, poll_delete(i)
  PROVE  RowsStep
<1> USE DEF RowsInv
<1>1. /\ mutex = i /\ poll.pc = "delete" /\ outbox' = outbox \ poll.sent
      /\ poll' = [poll EXCEPT !.pc = "send", !.sent = {}]
      /\ UNCHANGED <<txn, mutex, published, faults, lost>>
  BY DEF poll_delete
<1>2. PICK row \in Row : poll.sent = {row}
  BY <1>1 DEF PollInv
<1>3. row \in outbox /\ published[row] > 0 /\ mutex # NoInst
  BY <1>1, <1>2, PipelineAssumption DEF PollInv
<1>4. poll'.pc = "send" /\ poll'.rows = poll.rows /\ poll'.sent = {}
  BY <1>1 DEF RowTypeOK
<1>5. RowTypeOK'
  BY <1>1 DEF RowTypeOK
<1>6. StagedInv'
  BY <1>1 DEF StagedInv
<1>7. PollInv'
  <2>1. poll'.rows \subseteq outbox'
    BY <1>1, <1>4 DEF PollInv
  <2> QED BY <1>1, <1>3, <1>4, <2>1 DEF PollInv
<1>8. CopiesInv'
  BY <1>1 DEF CopiesInv
<1>9. Delivery!Move({row}, "deliverable", "delivered")
  <2>1. \A r : r \in Staged' <=> r \in Staged
    BY <1>1, StagedFacts, StagedFactsNext
  <2>2. row \notin Staged
    BY <1>3, StagedFacts DEF StagedInv
  <2>3. Status(row) = "deliverable" /\ Status(row)' = "delivered"
    BY <1>1, <1>2, <1>3, <2>1, <2>2, StatusFacts, StatusFactsNext
  <2>4. \A r \in Row \ {row} : Status(r)' = Status(r)
    BY <1>1, <1>2, <2>1, StatusFacts, StatusFactsNext
  <2> QED BY <1>1, <2>3, <2>4, MoveRows
<1>10. Delivery!Forget
  BY <1>3, <1>9 DEF Delivery!Forget
<1> QED BY <1>5, <1>6, <1>7, <1>8, <1>10 DEF RowsStep, Delivery!Next

\* Starting a poll, reading the table and ending the poll move no row.
LEMMA PollRows ==
  ASSUME RowsInv, NEW i \in Instance, poll_lock(i) \/ poll_read(i) \/ poll_end(i)
  PROVE  RowsStep
<1> USE DEF RowsInv
<1>1. txn' = txn /\ outbox' = outbox /\ published' = published /\ faults' = faults /\ lost' = lost
  BY DEF poll_lock, poll_read, poll_end
<1>2. StagedInv' /\ UNCHANGED Delivery!edVars
  BY <1>1, Unseen DEF StagedInv
<1>3. i # NoInst
  BY PipelineAssumption
<1>4. CASE poll_lock(i)
  <2>1. poll' = [pc |-> "read", rows |-> {}, sent |-> {}] /\ mutex' = i /\ poll = NoPoll
    BY <1>4 DEF poll_lock, NoPoll, PollInv
  <2>2. RowTypeOK'
    BY <1>1, <2>1 DEF RowTypeOK
  <2>3. PollInv' /\ CopiesInv'
    BY <1>1, <1>3, <2>1 DEF PollInv, CopiesInv, NoPoll
  <2> QED BY <1>2, <2>2, <2>3 DEF RowsStep
<1>5. CASE poll_read(i)
  <2>1. /\ poll' = [poll EXCEPT !.pc = "send", !.rows = outbox] /\ poll.pc = "read"
        /\ mutex = i /\ mutex' = i
    BY <1>5 DEF poll_read
  <2>2. poll'.pc = "send" /\ poll'.rows = outbox /\ poll'.sent = {} /\ poll.sent = {}
    BY <2>1 DEF RowTypeOK, PollInv
  <2>3. RowTypeOK'
    BY <1>1, <2>1 DEF RowTypeOK
  <2>4. PollInv' /\ CopiesInv'
    BY <1>1, <1>3, <2>1, <2>2 DEF PollInv, CopiesInv
  <2> QED BY <1>2, <2>3, <2>4 DEF RowsStep
<1>6. CASE poll_end(i)
  <2>1. poll' = NoPoll /\ mutex' = NoInst /\ poll.pc = "send"
    BY <1>6 DEF poll_end
  <2>2. RowTypeOK'
    BY <1>1, <2>1 DEF RowTypeOK, NoPoll
  <2>3. PollInv' /\ CopiesInv'
    BY <1>1, <2>1 DEF PollInv, CopiesInv, NoPoll
  <2> QED BY <1>2, <2>2, <2>3 DEF RowsStep
<1> QED BY <1>4, <1>5, <1>6

-----------------------------------------------------------------------------
(* The pipeline underneath.                                                *)

\* But for a crash and a restart, every step is one of the pipeline.
LEMMA PipelineStep ==
  ASSUME [OutboxNext]_allVars, ~crash, ~restart
  PROVE  [Next]_vars
<1>1. CASE Elsewhere
  BY <1>1 DEF Elsewhere, Next, RpcStep, KafkaStep, VersionStep, WorkerStep
<1>2. ASSUME NEW i \in Instance, Poll(i) PROVE [Next]_vars
  <2>1. CASE poll_end(i)
    <3>1. finish_job(i, 0) /\ 0 \in Worker
      BY <2>1, WorkerFacts DEF poll_end
    <3> QED BY <3>1 DEF Next, WorkerStep
  <2>2. CASE ~poll_end(i)
    BY <1>2, <2>2 DEF Poll, poll_lock, poll_read, publish_event, poll_delete
  <2> QED BY <2>1, <2>2
<1>3. ASSUME NEW i \in Instance, instance_stops(i) PROVE [Next]_vars
  BY <1>3 DEF instance_stops, Next, RpcStep, VersionStep
<1>4. ASSUME NEW i \in Instance, NEW w \in Worker, Handler(i, w) PROVE [Next]_vars
  <2>1. handle_publish(i, w) \/ finish_job(i, w) \/ worker_err(i, w)
    BY <1>4 DEF Handler, publishEvent, handler_commits, handler_throws, outbox_ignored, worker_fails
  <2> QED BY <2>1 DEF Next, KafkaStep, WorkerStep
<1>5. CASE UNCHANGED allVars
  BY <1>5 DEF allVars
<1> QED BY <1>1, <1>2, <1>3, <1>4, <1>5 DEF OutboxNext

\* What a restart leaves of the pipeline is well-formed: only the instances the
\* trunk routed to run again, without jobs.
LEMMA RestartPipeline ==
  TypeOK /\ TopicInv /\ NurseryInv /\ restart => TypeOK' /\ TopicInv' /\ NurseryInv'
<1> SUFFICES ASSUME TypeOK, TopicInv, NurseryInv, restart PROVE TypeOK' /\ TopicInv' /\ NurseryInv'
  OBVIOUS
<1>1. \A i \in Instance : 0 \in Workers(i) /\ 0 \in Worker
  BY WorkerFacts
<1>2. /\ owner' \in [Instance -> {"nobody", "apply", "nursery"}]
      /\ task' \in [Instance -> {"unborn", "running", "ok", "err", "cancelled"}]
      /\ ready' \in [Instance -> BOOLEAN]
      /\ dispatch' \in [Instance -> {"off", "open", "closed"}]
      /\ next' \in [Instance -> Worker]
      /\ \A i \in Instance : next'[i] \in Workers(i)
  BY <1>1 DEF restart, TypeOK, Workers
<1>3. /\ slot' \in [Instance -> Job \cup {NoJob}]
      /\ blocked' \in [Instance -> SUBSET Job]
      /\ held' \in [Instance -> Job \cup {NoJob}]
      /\ wslot' \in [Instance -> [Worker -> Job \cup {NoJob}]]
      /\ wstate' \in [Instance -> [Worker -> Alive \cup {"off", "done", "failed"}]]
      /\ wready' \in [Instance -> SUBSET Worker]
      /\ wjob' \in [Instance -> [Worker -> Job \cup {NoJob}]]
  BY DEF restart, Alive
<1>4. npub' \in [Instance -> [Worker -> 0 .. MaxPublish]]
  BY PipelineAssumption DEF restart
<1>5. req' \in [Request -> {"new"} \cup Pending \cup Resolved]
  BY DEF restart, TypeOK, Resolved
<1>6. topic' \in [next : 1 .. (MaxEvent + 1), sending : BOOLEAN] /\ ~topic'.sending
  BY DEF restart, TypeOK
<1>7. trunk' = trunk /\ rinst' = rinst /\ server' = "up"
  BY DEF restart
<1>8. TypeOK' /\ TopicInv'
  BY <1>2, <1>3, <1>4, <1>5, <1>6, <1>7 DEF TypeOK, TopicInv
<1>9. NurseryInv'
  <2>1. \A r \in Request : req'[r] \notin Pending
    BY DEF restart, Pending
  <2>2. \A v \in VersionId :
          trunk[v] # NoInst => IdOf[trunk[v]] = v /\ owner'[trunk[v]] = "nursery"
    BY DEF restart, TypeOK, NurseryInv
  <2>3. \A i \in Instance :
          /\ task'[i] = "unborn" => owner'[i] = "nobody"
          /\ slot'[i] = NoJob /\ held'[i] = NoJob /\ blocked'[i] = {}
          /\ \A w \in Worker :
               wslot'[i][w] = NoJob /\ wstate'[i][w] \notin {"busy", "publishing"}
    BY DEF restart
  <2> QED BY <1>7, <2>1, <2>2, <2>3 DEF NurseryInv
<1> QED BY <1>8, <1>9

\* An instance that is dropped by apply does not poll.
LEMMA DroppedIdle ==
  ASSUME NurseryInv, MutexInv, NEW i \in Instance, drop_version(i)
  PROVE  mutex # i
BY WorkerFacts DEF drop_version, NurseryInv, MutexInv, RunsOutbox

\* What an instance that stops leaves of the other instances.
LEMMA StopsAlone ==
  ASSUME TypeOK, NEW i \in Instance, task_err(i) \/ drop_version(i)
  PROVE  /\ server = "up" /\ server' = "up"
         /\ \A k \in Instance : k # i =>
              task'[k] = task[k] /\ wstate'[k] = wstate[k] /\ wjob'[k] = wjob[k]
         /\ drop_version(i) =>
              /\ task'[i] \in {task[i], "cancelled"}
              /\ \A w \in Worker : wstate'[i][w] \in {wstate[i][w], "off"}
<1>1. CASE StopTask(i, "err") /\ server = "up" /\ server' = server /\ ~drop_version(i)
  BY <1>1 DEF StopTask, TypeOK
<1>2. CASE StopTask(i, "cancelled") /\ server = "up" /\ server' = server
  BY <1>2 DEF StopTask, TypeOK
<1>3. CASE UNCHANGED <<taskVars, workerVars>> /\ server = "up" /\ server' = server
  BY <1>3 DEF taskVars, workerVars
<1>4. CASE drop_version(i)
  BY <1>2, <1>3, <1>4 DEF drop_version
<1>5. CASE task_err(i) /\ ~drop_version(i)
  BY <1>1, <1>5 DEF task_err
<1> QED BY <1>4, <1>5

\* What a worker that finishes its job or fails leaves of the others.
LEMMA WorkerAlone ==
  ASSUME TypeOK, NEW i \in Instance, NEW w \in Worker,
         finish_job(i, w) \/ worker_err(i, w) \/ handle_publish(i, w)
  PROVE  /\ server = "up" /\ server' = "up" /\ task' = task
         /\ \A k \in Instance, u \in Worker : k # i \/ u # w =>
              wstate'[k][u] = wstate[k][u] /\ wjob'[k][u] = wjob[k][u]
         /\ ~worker_err(i, w) => wstate'[i][w] # "failed"
<1> USE DEF taskVars
<1>1. CASE finish_job(i, w)
  BY <1>1 DEF finish_job, TypeOK
<1>2. CASE worker_err(i, w)
  BY <1>2 DEF worker_err, TypeOK
<1>3. CASE handle_publish(i, w)
  BY <1>3 DEF handle_publish, TypeOK
<1> QED BY <1>1, <1>2, <1>3

\* The instance whose worker finishes, fails or publishes while it does not run
\* a poll does not disturb the instance that does.
LEMMA MutexKept ==
  ASSUME TypeOK, MutexInv, mutex' = mutex, NEW i \in Instance, NEW w \in Worker,
         finish_job(i, w) \/ worker_err(i, w) \/ handle_publish(i, w),
         w # 0 \/ mutex # i
  PROVE  MutexInv'
BY WorkerFacts, WorkerAlone DEF MutexInv, RunsOutbox

\* A handler commits or throws: its worker runs no poll.
LEMMA HandlerStep ==
  ASSUME OutboxInv, NEW i \in Instance, NEW w \in Worker,
         publishEvent(i, w) \/ handler_commits(i, w) \/ handler_throws(i, w) \/ outbox_ignored(i, w)
  PROVE  MutexInv' /\ FaultInv' /\ RowsStep
<1> USE DEF OutboxInv, OutboxTypeOK
<1>1. /\ handle_publish(i, w) \/ finish_job(i, w)
      /\ mutex' = mutex /\ faults' = faults /\ lost' = lost
      /\ w # 0 \/ mutex # i
  <2>1. CASE outbox_ignored(i, w)
    BY <2>1 DEF outbox_ignored, outboxVars
  <2>2. CASE publishEvent(i, w) \/ handler_commits(i, w) \/ handler_throws(i, w)
    <3>1. wjob[i][w].kind # "outbox"
      BY <2>2 DEF publishEvent, handler_commits, handler_throws, handle_publish
    <3>2. w # 0 \/ mutex # i
      BY <3>1 DEF MutexInv, RunsOutbox
    <3> QED BY <2>2, <3>2 DEF publishEvent, handler_commits, handler_throws
  <2> QED BY <2>1, <2>2
<1>2. MutexInv'
  BY <1>1, MutexKept
<1>3. FaultInv'
  <2>1. ~worker_err(i, w)
    <3>1. wstate'[i][w] \in {"publishing", "idle"}
      BY <1>1 DEF handle_publish, finish_job, TypeOK
    <3> QED BY <3>1 DEF worker_err, TypeOK
  <2> QED BY <1>1, <2>1, WorkerAlone DEF FaultInv
<1>4. RowsStep
  <2>1. RowsInv
    BY DEF RowsInv
  <2>2. CASE publishEvent(i, w)
    BY <2>1, <2>2, PublishEventRows
  <2>3. CASE handler_commits(i, w)
    BY <2>1, <2>3, CommitRows
  <2>4. CASE handler_throws(i, w)
    <3>1. /\ txn' = [txn EXCEPT ![i][w] = {}]
          /\ UNCHANGED <<outbox, mutex, poll, published, faults, lost>>
      BY <2>4 DEF handler_throws
    <3>2. /\ txn' \in [Instance -> [Worker -> SUBSET Row]]
          /\ \A k \in Instance, u \in Worker : txn'[k][u] = txn[k][u] \/ txn'[k][u] = {}
          /\ faults' \in 0 .. MaxFaults
      BY <3>1 DEF RowTypeOK
    <3> QED BY <2>1, <3>1, <3>2, FailureRows
  <2>5. CASE outbox_ignored(i, w)
    BY <2>1, <2>5, Unseen
       DEF outbox_ignored, outboxVars, RowsInv, RowsStep, RowTypeOK, StagedInv, PollInv, CopiesInv
  <2> QED BY <2>2, <2>3, <2>4, <2>5
<1> QED BY <1>2, <1>3, <1>4

\* The poll: only the instance that takes the mutex changes it.
LEMMA PollStep ==
  ASSUME OutboxInv, NEW i \in Instance, Poll(i)
  PROVE  MutexInv' /\ FaultInv' /\ RowsStep
<1> USE DEF OutboxInv, OutboxTypeOK
<1>1. RowsInv
  BY DEF RowsInv
<1>2. RowsStep
  BY <1>1, PollRows, PublishRows, DeleteRows DEF Poll
<1>3. CASE poll_end(i)
  <2>1. finish_job(i, 0) /\ mutex' = NoInst /\ faults' = faults /\ lost' = lost /\ 0 \in Worker
    BY <1>3, WorkerFacts DEF poll_end
  <2>2. MutexInv'
    BY <2>1, PipelineAssumption DEF MutexInv
  <2>3. wstate'[i][0] = "idle"
    BY <2>1 DEF finish_job, TypeOK
  <2>4. FaultInv'
    BY <2>1, <2>3, WorkerAlone DEF FaultInv
  <2> QED BY <1>2, <2>2, <2>4
<1>4. CASE ~poll_end(i)
  <2>1. UNCHANGED <<vars, faults, lost>> /\ RunsOutbox(i, 0) /\ mutex' = i
    BY <1>4 DEF Poll, poll_lock, poll_read, publish_event, poll_delete, MutexInv
  <2>2. UNCHANGED <<task, wstate, wjob, server>>
    BY <2>1 DEF vars, taskVars, workerVars
  <2>3. RunsOutbox(i, 0)'
    BY <2>1, <2>2 DEF RunsOutbox
  <2> QED BY <1>2, <2>1, <2>2, <2>3 DEF MutexInv, FaultInv
<1> QED BY <1>3, <1>4

\* A worker that fails rolls its transaction back, and the poll it ran is cut off.
LEMMA WorkerFailsStep ==
  ASSUME OutboxInv, NEW i \in Instance, NEW w \in Worker, worker_fails(i, w)
  PROVE  MutexInv' /\ FaultInv' /\ RowsStep
<1> USE DEF OutboxInv, OutboxTypeOK
<1>1. /\ faults < MaxFaults /\ worker_err(i, w) /\ faults' = faults + 1
      /\ txn' = [txn EXCEPT ![i][w] = {}] /\ outbox' = outbox /\ published' = published
  BY DEF worker_fails
<1>2. \/ mutex' = mutex /\ poll' = poll /\ lost' = lost /\ (w # 0 \/ mutex # i)
      \/ mutex' = NoInst /\ poll' = NoPoll /\ lost' = lost + InFlight
  BY DEF worker_fails, Unlock
<1>3. MutexInv'
  <2>1. CASE mutex' = mutex /\ (w # 0 \/ mutex # i)
    BY <1>1, <2>1, MutexKept
  <2>2. CASE mutex' = NoInst
    BY <2>2, PipelineAssumption DEF MutexInv
  <2> QED BY <1>2, <2>1, <2>2
<1>4. faults \in Nat /\ faults' \in 0 .. MaxFaults /\ faults' # 0
  BY <1>1, FaultsAssumption DEF RowTypeOK
<1>5. FaultInv'
  BY <1>4 DEF FaultInv
<1>6. /\ txn' \in [Instance -> [Worker -> SUBSET Row]]
      /\ \A k \in Instance, u \in Worker : txn'[k][u] = txn[k][u] \/ txn'[k][u] = {}
  BY <1>1 DEF RowTypeOK
<1>7. RowsInv
  BY DEF RowsInv
<1>8. RowsStep
  BY <1>1, <1>2, <1>4, <1>6, <1>7, FailureRows
<1> QED BY <1>3, <1>5, <1>8

\* An instance that stops after a failure may be cut off in a poll; one that
\* apply drops has none.
LEMMA InstanceStopsStep ==
  ASSUME OutboxInv, NEW i \in Instance, instance_stops(i)
  PROVE  MutexInv' /\ FaultInv' /\ RowsStep
<1> USE DEF OutboxInv, OutboxTypeOK
<1>1. /\ task_err(i) \/ drop_version(i)
      /\ txn' = [txn EXCEPT ![i] = [w \in Worker |-> {}]]
      /\ outbox' = outbox /\ published' = published /\ faults' = faults
  BY DEF instance_stops
<1>2. \/ mutex' = mutex /\ poll' = poll /\ lost' = lost /\ mutex # i
      \/ mutex' = NoInst /\ poll' = NoPoll /\ lost' = lost + InFlight /\ mutex = i
  BY DEF instance_stops, Unlock
<1>3. MutexInv'
  <2>1. CASE mutex' = mutex /\ mutex # i
    BY <1>1, <2>1, StopsAlone DEF MutexInv, RunsOutbox
  <2>2. CASE mutex' = NoInst
    BY <2>2, PipelineAssumption DEF MutexInv
  <2> QED BY <1>2, <2>1, <2>2
<1>4. FaultInv'
  <2> SUFFICES ASSUME faults = 0 PROVE FaultInv'
    BY <1>1 DEF FaultInv
  <2>1. ~task_err(i)
    BY DEF FaultInv, task_err
  <2>2. drop_version(i)
    BY <1>1, <2>1
  <2>3. mutex # i
    BY <2>2, DroppedIdle
  <2>4. lost' = lost
    BY <1>2, <2>3
  <2>5. \A k \in Instance : task'[k] # "err" /\ \A w \in Worker : wstate'[k][w] # "failed"
    BY <2>2, StopsAlone DEF FaultInv
  <2>6. server' = "up"
    BY <2>2, StopsAlone
  <2> QED BY <2>4, <2>5, <2>6 DEF FaultInv
<1>5. /\ txn' \in [Instance -> [Worker -> SUBSET Row]]
      /\ \A k \in Instance, u \in Worker : txn'[k][u] = txn[k][u] \/ txn'[k][u] = {}
      /\ faults' \in 0 .. MaxFaults
  BY <1>1 DEF RowTypeOK
<1>6. RowsInv
  BY DEF RowsInv
<1>7. RowsStep
  BY <1>1, <1>2, <1>5, <1>6, FailureRows
<1> QED BY <1>3, <1>4, <1>7

\* The process is killed: everything stays where it is until the restart.
LEMMA CrashStep ==
  ASSUME OutboxInv, crash
  PROVE  OutboxInv' /\ RowsStep
<1> USE DEF OutboxInv, OutboxTypeOK
<1>1. /\ server' = "down" /\ faults < MaxFaults /\ faults' = faults + 1
      /\ UNCHANGED <<trunk, owner, task, ready, dispatch, next, slot, blocked, held,
                     wslot, wstate, wready, wjob, npub, req, rinst, topic,
                     outbox, txn, mutex, poll, published, lost>>
  BY DEF crash, routeVars, taskVars, queueVars, workerVars, reqVars
<1>2. TypeOK' /\ TopicInv' /\ NurseryInv' /\ MutexInv'
  BY <1>1 DEF TypeOK, TopicInv, NurseryInv, MutexInv, RunsOutbox
<1>3. faults \in Nat /\ faults' \in 0 .. MaxFaults /\ faults' # 0
  BY <1>1, FaultsAssumption DEF RowTypeOK
<1>4. RowTypeOK' /\ StagedInv' /\ PollInv' /\ CopiesInv' /\ FaultInv'
  BY <1>1, <1>3 DEF RowTypeOK, StagedInv, PollInv, CopiesInv, FaultInv
<1>5. UNCHANGED Delivery!edVars
  BY <1>1, Unseen
<1> QED BY <1>2, <1>4, <1>5 DEF RowsStep, RowsInv

\* The new process finds the committed rows, and nothing else.
LEMMA RestartStep ==
  ASSUME OutboxInv, restart
  PROVE  OutboxInv' /\ RowsStep
<1> USE DEF OutboxInv, OutboxTypeOK
<1>1. /\ server = "down" /\ txn' = [i \in Instance |-> [w \in Worker |-> {}]]
      /\ mutex' = NoInst /\ poll' = NoPoll /\ lost' = lost + InFlight
      /\ UNCHANGED <<outbox, published, faults>>
  BY DEF restart
<1>2. TypeOK' /\ TopicInv' /\ NurseryInv'
  BY RestartPipeline
<1>3. MutexInv'
  BY <1>1, PipelineAssumption DEF MutexInv
<1>4. FaultInv'
  BY <1>1 DEF FaultInv
<1>5. RowsInv
  BY DEF RowsInv
<1>6. /\ txn' \in [Instance -> [Worker -> SUBSET Row]]
      /\ \A k \in Instance, u \in Worker : txn'[k][u] = txn[k][u] \/ txn'[k][u] = {}
      /\ faults' \in 0 .. MaxFaults
  BY <1>1 DEF RowTypeOK
<1>7. RowsStep
  BY <1>1, <1>5, <1>6, FailureRows
<1> QED BY <1>2, <1>3, <1>4, <1>7 DEF RowsStep, RowsInv

-----------------------------------------------------------------------------
(* The theorems.                                                           *)

\* Every step keeps the invariant, and is a step of EventDelivery or a stutter.
LEMMA OutboxStep ==
  OutboxInv /\ [OutboxNext]_allVars => OutboxInv' /\ [Delivery!Next]_(Delivery!edVars)
<1> SUFFICES ASSUME OutboxInv, [OutboxNext]_allVars
             PROVE  OutboxInv' /\ [Delivery!Next]_(Delivery!edVars)
  OBVIOUS
<1>1. CASE crash
  BY <1>1, CrashStep DEF RowsStep
<1>2. CASE restart
  BY <1>2, RestartStep DEF RowsStep
<1>3. CASE ~crash /\ ~restart
  <2>1. TypeOK' /\ TopicInv' /\ NurseryInv'
    BY <1>3, PipelineStep, TypeStep, NurseryStep DEF OutboxInv, OutboxTypeOK
  <2>2. ASSUME UNCHANGED outboxVars PROVE RowsStep
    BY <2>2, Unseen DEF OutboxInv, OutboxTypeOK, outboxVars, RowsInv, RowsStep, RowTypeOK, StagedInv, PollInv, CopiesInv
  <2>3. CASE Elsewhere
    <3>1. UNCHANGED outboxVars
      BY <2>3 DEF Elsewhere
    <3>2. MutexInv'
      BY <2>3, <3>1, RunsOn DEF OutboxInv, OutboxTypeOK, MutexInv, outboxVars
    <3>3. FaultInv'
      BY <2>3, NoFaultElsewhere DEF OutboxInv, OutboxTypeOK
    <3> QED BY <2>1, <2>2, <3>1, <3>2, <3>3 DEF OutboxInv, OutboxTypeOK, RowsStep, RowsInv
  <2>4. ASSUME NEW i \in Instance, Poll(i) \/ instance_stops(i)
        PROVE  MutexInv' /\ FaultInv' /\ RowsStep
    BY <2>4, PollStep, InstanceStopsStep
  <2>5. ASSUME NEW i \in Instance, NEW w \in Worker, Handler(i, w)
        PROVE  MutexInv' /\ FaultInv' /\ RowsStep
    BY <2>5, HandlerStep, WorkerFailsStep DEF Handler
  <2>6. CASE UNCHANGED allVars
    <3>1. UNCHANGED outboxVars /\ UNCHANGED <<task, wstate, wjob, server>>
      BY <2>6 DEF allVars, vars, taskVars, workerVars
    <3>2. MutexInv' /\ FaultInv'
      BY <3>1 DEF OutboxInv, MutexInv, FaultInv, RunsOutbox, outboxVars
    <3> QED BY <2>1, <2>2, <3>1, <3>2 DEF OutboxInv, OutboxTypeOK, RowsStep, RowsInv
  <2>7. ASSUME MutexInv', FaultInv', RowsStep
        PROVE  OutboxInv' /\ [Delivery!Next]_(Delivery!edVars)
    BY <2>1, <2>7 DEF OutboxInv, OutboxTypeOK, RowsStep, RowsInv
  <2> QED BY <1>3, <2>3, <2>4, <2>5, <2>6, <2>7 DEF OutboxNext
<1> QED BY <1>1, <1>2, <1>3

\* The server starts with an empty outbox and no jobs.
LEMMA OutboxStart == OutboxInit => OutboxInv /\ Delivery!Init
<1> SUFFICES ASSUME OutboxInit PROVE OutboxInv /\ Delivery!Init
  OBVIOUS
<1>0. Init /\ outbox = {} /\ txn = [i \in Instance |-> [w \in Worker |-> {}]] /\ mutex = NoInst
      /\ poll = NoPoll /\ published = [row \in Row |-> 0] /\ faults = 0 /\ lost = 0
  BY DEF OutboxInit
<1>1. TypeOK /\ TopicInv
  BY <1>0, InvInit DEF IInv
<1>2. NurseryInv
  <2>1. \A v \in VersionId : trunk[v] # NoInst => trunk[v] \in Boot /\ IdOf[trunk[v]] = v
    BY <1>0, InitTrunk DEF Init
  <2> QED BY <1>0, <2>1, PipelineAssumption DEF Init, NurseryInv, Pending
<1>3. MutexInv
  BY <1>0, PipelineAssumption DEF MutexInv
<1>4. RowTypeOK /\ StagedInv /\ PollInv /\ CopiesInv
  BY <1>0, FaultsAssumption DEF RowTypeOK, StagedInv, PollInv, CopiesInv, NoPoll
<1>5. FaultInv
  BY <1>0 DEF Init, FaultInv
<1>6. Delivery!Init
  <2>1. \A row : row \notin Staged
    BY <1>0, StagedFacts
  <2>2. \A row \in Row : Status(row) = "none"
    BY <1>0, <2>1, StatusFacts
  <2> QED BY <1>0, <2>2 DEF Delivery!Init
<1> QED BY <1>1, <1>2, <1>3, <1>4, <1>5, <1>6 DEF OutboxInv, OutboxTypeOK

\* The invariant of the outbox: at most one poll at a time, run by worker 0 of
\* an instance of the trunk; what it has read stays in the table until it
\* deletes it; a row belongs to one transaction until that commits.
THEOREM OutboxInvariance == OutboxSpec => []OutboxInv
BY OutboxStart, OutboxStep, PTL DEF OutboxSpec

\* kafka.rs 37-39: without failures no event is published twice, and with them
\* every further copy is a poll that was cut off between publishing and deleting.
THEOREM DuplicatesByFaults == OutboxSpec => []DuplicatesOnlyByFaults
<1>1. OutboxInv => DuplicatesOnlyByFaults
  BY DEF OutboxInv, CopiesInv, FaultInv, DuplicatesOnlyByFaults
<1> QED BY <1>1, OutboxInvariance, PTL

\* kafka.ts 92-97: the outbox implements EventDelivery: publishEvent stages, the
\* commit of the handler's transaction makes all its events deliverable at once,
\* a failure discards what was staged, a poll sends what is deliverable and
\* forgets only what was sent, through failures, crashes and restarts.
THEOREM OutboxImplementsDelivery == OutboxSpec => ImplementsDelivery
BY OutboxStart, OutboxStep, OutboxInvariance, PTL DEF OutboxSpec, ImplementsDelivery, Delivery!Spec

=============================================================================
