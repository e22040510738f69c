------------------------------- MODULE Outbox -------------------------------
(***************************************************************************)
(* publishEvent() and the outbox table, on top of the job pipeline.        *)
(*                                                                         *)
(* publishEvent() (kafka.ts) inserts a row in ChiselOutbox within the      *)
(* handler's transaction and sends an Outbox job to all versions before    *)
(* that transaction commits.  Worker 0 of an instance that receives the    *)
(* job polls the outbox (run.ts, ops/kafka.rs): under outbox_poll_mutex it *)
(* reads the committed rows, and for each of them publishes the event and  *)
(* deletes the row in a transaction of its own.  Other workers ignore the  *)
(* job.  The table survives a crash of the process, nothing else does.     *)
(***************************************************************************)
EXTENDS JobPipeline

CONSTANTS
  Row,        \* ids of ChiselOutbox entities
  MaxFaults   \* bound on worker failures and crashes of the process

ASSUME FaultsAssumption == MaxFaults \in Nat

VARIABLES
  outbox,     \* committed rows of ChiselOutbox
  txn,        \* rows inserted by the open transaction of each worker
  mutex,      \* outbox_poll_mutex: the instance whose worker 0 holds it
  poll,       \* the poll that holds the mutex
  published,  \* how often the broker got each event
  faults,
  lost        \* (history) polls that ended between publishing a row and deleting it

outboxVars == <<outbox, txn, mutex, poll, published, faults, lost>>
allVars == <<vars, outboxVars>>

NoPoll == [pc |-> "none", rows |-> {}, sent |-> {}]

OutboxInit ==
  /\ Init
  /\ outbox    = {}
  /\ txn       = [i \in Instance |-> [w \in Worker |-> {}]]
  /\ mutex     = NoInst
  /\ poll      = NoPoll
  /\ published = [row \in Row |-> 0]
  /\ faults    = 0 /\ lost = 0

-----------------------------------------------------------------------------
(* The handler: publishEvent(), then commit or rollback.                   *)

\* The rows some transaction has inserted and not yet committed.
Staged == UNION {UNION {txn[i][w] : w \in Worker} : i \in Instance}

\* An entity that is created gets a fresh uuid.
NewRows == {row \in Row : row \notin Staged \cup outbox /\ published[row] = 0}

\* (Mutant: the row is inserted outside the handler's transaction.)
publishEvent_autocommit(i, w) ==
  /\ handle_publish(i, w)
  /\ \E row \in NewRows : outbox' = outbox \cup {row}
  /\ UNCHANGED <<txn, mutex, poll, published, faults, lost>>

publishEvent(i, w) ==
  /\ handle_publish(i, w)
  /\ \E row \in NewRows : txn' = [txn EXCEPT ![i][w] = @ \cup {row}]
  /\ UNCHANGED <<outbox, mutex, poll, published, faults, lost>>

\* handleHttpRequest / handleKafkaEvent: the handler returns and its
\* transaction is committed before the response is sent ...
handler_commits(i, w) ==
  /\ wjob[i][w] # NoJob /\ wjob[i][w].kind # "outbox"
  /\ finish_job(i, w)
  /\ outbox' = outbox \cup txn[i][w]
  /\ txn'    = [txn EXCEPT ![i][w] = {}]
  /\ UNCHANGED <<mutex, poll, published, faults, lost>>

\* ... or throws, and its transaction is rolled back.
handler_throws(i, w) ==
  /\ wjob[i][w] # NoJob /\ wjob[i][w].kind # "outbox"
  /\ finish_job(i, w)
  /\ txn' = [txn EXCEPT ![i][w] = {}]
  /\ UNCHANGED <<outbox, mutex, poll, published, faults, lost>>

-----------------------------------------------------------------------------
(* The Outbox job.                                                         *)

RunsOutbox(i, w) == wstate[i][w] = "busy" /\ wjob[i][w].kind = "outbox"

\* run.ts 79: only worker 0 polls.
outbox_ignored(i, w) ==
  /\ RunsOutbox(i, w) /\ w # 0
  /\ finish_job(i, w)
  /\ UNCHANGED outboxVars

\* (Mutant: the mutex is not waited for.)
poll_unlocked(i) ==
  /\ server = "up" /\ RunsOutbox(i, 0) /\ mutex # i
  /\ mutex' = i
  /\ poll'  = [NoPoll EXCEPT !.pc = "read"]
  /\ UNCHANGED <<vars, outbox, txn, published, faults, lost>>

poll_lock(i) ==
  /\ server = "up" /\ RunsOutbox(i, 0) /\ mutex = NoInst
  /\ mutex' = i
  /\ poll'  = [NoPoll EXCEPT !.pc = "read"]
  /\ UNCHANGED <<vars, outbox, txn, published, faults, lost>>

\* The rows are collected before the first one is published.
poll_read(i) ==
  /\ server = "up" /\ mutex = i /\ poll.pc = "read"
  /\ poll' = [poll EXCEPT !.pc = "send", !.rows = outbox]
  /\ UNCHANGED <<vars, outbox, txn, mutex, published, faults, lost>>

\* KafkaService::publish_event.  (The order of the rows, by seqNo, is not
\* modelled: any of them may be next.)
publish_event(i) ==
  /\ server = "up" /\ mutex = i /\ poll.pc = "send"
  /\ \E row \in poll.rows :
       /\ poll'      = [pc |-> "delete", rows |-> poll.rows \ {row}, sent |-> {row}]
       /\ published' = [published EXCEPT ![row] = @ + 1]
  /\ UNCHANGED <<vars, outbox, txn, mutex, faults, lost>>

\* delete_txn, begun and committed for this row alone.
poll_delete(i) ==
  /\ server = "up" /\ mutex = i /\ poll.pc = "delete"
  /\ outbox' = outbox \ poll.sent
  /\ poll'   = [poll EXCEPT !.pc = "send", !.sent = {}]
  /\ UNCHANGED <<vars, txn, mutex, published, faults, lost>>

poll_end(i) ==
  /\ mutex = i /\ poll.pc = "send" /\ poll.rows = {}
  /\ finish_job(i, 0)
  /\ mutex' = NoInst
  /\ poll'  = NoPoll
  /\ UNCHANGED <<outbox, txn, published, faults, lost>>

-----------------------------------------------------------------------------
(* Failures: open transactions are rolled back, the mutex is released.     *)

\* 1 if the poll has published a row that it has not yet deleted.
InFlight == IF poll.pc = "delete" THEN 1 ELSE 0

\* The poll of instance i, if it has one, is cut off.
Unlock(i) == IF mutex = i
               THEN mutex' = NoInst /\ poll' = NoPoll /\ lost' = lost + InFlight
               ELSE UNCHANGED <<mutex, poll, lost>>

worker_fails(i, w) ==
  /\ faults < MaxFaults
  /\ worker_err(i, w)
  /\ faults' = faults + 1
  /\ txn' = [txn EXCEPT ![i][w] = {}]
  /\ IF w = 0 THEN Unlock(i) ELSE UNCHANGED <<mutex, poll, lost>>
  /\ UNCHANGED <<outbox, published>>

instance_stops(i) ==
  /\ task_err(i) \/ drop_version(i)
  /\ txn' = [txn EXCEPT ![i] = [w \in Worker |-> {}]]
  /\ Unlock(i)
  /\ UNCHANGED <<outbox, published, faults>>

\* The process is killed.
crash ==
  /\ server = "up" /\ faults < MaxFaults
  /\ server' = "down"
  /\ faults' = faults + 1
  /\ UNCHANGED <<routeVars, taskVars, queueVars, workerVars, reqVars, topic>>
  /\ UNCHANGED <<outbox, txn, mutex, poll, published, lost>>

\* A new process: start_versions() spawns the versions that were routed to;
\* nothing sends an Outbox job for the rows that are left in the table.
restart ==
  LET Live == {i \in Instance : trunk[IdOf[i]] = i} IN
  /\ server = "down"
  /\ server'   = "up"
  /\ owner'    = [i \in Instance |-> IF i \in Live THEN "nursery" ELSE "nobody"]
  /\ task'     = [i \in Instance |-> IF i \in Live THEN "running"
                                     ELSE IF task[i] = "unborn" THEN "unborn"
                                                                ELSE "cancelled"]
  /\ ready'    = [i \in Instance |-> FALSE]
  /\ dispatch' = [i \in Instance |-> IF i \in Live THEN "open" ELSE "off"]
  /\ next'     = [i \in Instance |-> 0]
  /\ slot'     = [i \in Instance |-> NoJob]
  /\ blocked'  = [i \in Instance |-> {}]
  /\ held'     = [i \in Instance |-> NoJob]
  /\ wslot'    = [i \in Instance |-> [w \in Worker |-> NoJob]]
  /\ wstate'   = [i \in Instance |->
                    [w \in Worker |-> IF i \in Live /\ w \in Workers(i)
                                        THEN "init" ELSE "off"]]
  /\ wready'   = [i \in Instance |-> {}]
  /\ wjob'     = [i \in Instance |-> [w \in Worker |-> NoJob]]
  /\ npub'     = [i \in Instance |-> [w \in Worker |-> 0]]
  /\ req'      = [r \in Request |-> IF req[r] \in Pending THEN "gone" ELSE req[r]]
  /\ topic'    = [topic EXCEPT !.sending = FALSE]
  /\ txn'      = [i \in Instance |-> [w \in Worker |-> {}]]
  /\ mutex'    = NoInst
  /\ poll'     = NoPoll
  /\ lost'     = lost + InFlight
  /\ UNCHANGED <<trunk, rinst, outbox, published, faults>>

-----------------------------------------------------------------------------

\* Steps of the pipeline that the outbox has no part in.
Elsewhere ==
  /\ \/ \E i \in Instance : spawn(i) \/ add_version(i)
     \/ \E v \in VersionId : remove_version(v)
     \/ HttpStep \/ handle_event \/ event_sent
     \/ \E i \in Instance :
          \/ \E j \in Job : send_permit(i, j)
          \/ dispatch_recv(i) \/ dispatch_send(i) \/ dispatch_close(i)
          \/ signal_ready(i) \/ task_ok(i) \/ trunk_err(i)
          \/ \E w \in Worker : \/ publish_sent(i, w) \/ op_chisel_ready(i, w)
                               \/ op_chisel_accept_job(i, w) \/ worker_done(i, w)
  /\ UNCHANGED outboxVars

Poll(i) == poll_lock(i) \/ poll_read(i) \/ publish_event(i) \/ poll_delete(i) \/ poll_end(i)

Handler(i, w) == \/ publishEvent(i, w) \/ handler_commits(i, w) \/ handler_throws(i, w)
                 \/ outbox_ignored(i, w) \/ worker_fails(i, w)

OutboxNext ==
  \/ Elsewhere
  \/ \E i \in Instance : Poll(i) \/ instance_stops(i)
  \/ \E i \in Instance, w \in Worker : Handler(i, w)
  \/ crash \/ restart
  \/ Quiet /\ UNCHANGED allVars

OutboxSpec == OutboxInit /\ [][OutboxNext]_allVars

\* As for the pipeline; a handler that returns commits (throwing is a choice of
\* the user's code), the poll advances, and a stopped server is started again.
OutboxFairness ==
  /\ \A r \in Request : WF_allVars(UNCHANGED outboxVars /\ (reject(r) \/ send_job(r)))
  /\ WF_allVars(UNCHANGED outboxVars /\ event_sent)
  /\ WF_allVars(restart)
  /\ \A i \in Instance :
       /\ WF_allVars(UNCHANGED outboxVars /\ \E j \in Job : send_permit(i, j))
       /\ WF_allVars(UNCHANGED outboxVars /\ dispatch_recv(i))
       /\ WF_allVars(UNCHANGED outboxVars /\ dispatch_send(i))
       /\ WF_allVars(UNCHANGED outboxVars /\ trunk_err(i))
       /\ WF_allVars(instance_stops(i))
       /\ WF_allVars(Poll(i))
       /\ \A w \in Worker :
            /\ WF_allVars(UNCHANGED outboxVars /\ op_chisel_ready(i, w))
            /\ WF_allVars(UNCHANGED outboxVars /\ op_chisel_accept_job(i, w))
            /\ WF_allVars(UNCHANGED outboxVars /\ publish_sent(i, w))
            /\ WF_allVars(outbox_ignored(i, w) \/ handler_commits(i, w) \/ handler_throws(i, w))

OutboxLiveSpec == OutboxSpec /\ OutboxFairness

-----------------------------------------------------------------------------
(* Properties.                                                             *)

RowTypeOK ==
  /\ outbox \subseteq Row
  /\ txn \in [Instance -> [Worker -> SUBSET Row]]
  /\ mutex \in Instance \cup {NoInst}
  /\ poll \in [pc : {"none", "read", "send", "delete"}, rows : SUBSET Row, sent : SUBSET Row]
  /\ published \in [Row -> Nat]
  /\ faults \in 0 .. MaxFaults /\ lost \in Nat

OutboxTypeOK == TypeOK /\ RowTypeOK

\* Where the event of a row is on its way to the broker.
Status(row) ==
  CASE row \in Staged -> "staged"
    [] row \notin Staged /\ row \in outbox -> "deliverable"
    [] row \notin Staged \cup outbox /\ published[row] > 0 -> "delivered"
    [] OTHER -> "none"

Delivery == INSTANCE EventDelivery WITH
  Event <- Row, status <- [row \in Row |-> Status(row)], copies <- published

\* kafka.ts 92-97, the safety half: the outbox implements EventDelivery.  An
\* event of a transaction that was rolled back is never published, the events
\* of a handler become visible together, and a row is deleted only after its
\* event was published, across failures and crashes.
ImplementsDelivery == Delivery!Spec

\* kafka.rs 37-39: outbox_poll_mutex keeps concurrent polls from publishing an event
\* twice: each further copy of an event costs a poll that was cut off between publishing
\* and deleting, and without failures there is none.  (A worker that fails may cost two
\* copies: the poll of its instance, and the one that runs when the server exits.)
DuplicatesOnlyByFaults ==
  /\ \A row \in Row : published[row] <= 1 + lost
  /\ faults = 0 => lost = 0

\* kafka.ts 92-97, the liveness half: an event whose transaction committed is
\* eventually published.
PublishedEventually == \A row \in Row : row \in outbox ~> published[row] > 0

-----------------------------------------------------------------------------
(* The inductive invariant of the proofs.                                  *)

\* Only instances in the nursery get jobs, so an instance that is dropped has none.
NurseryInv ==
  /\ \A v \in VersionId :
       trunk[v] # NoInst => IdOf[trunk[v]] = v /\ owner[trunk[v]] = "nursery"
  /\ \A r \in Request : req[r] \in Pending =>
       rinst[r] \in Instance /\ owner[rinst[r]] = "nursery"
  /\ \A i \in Instance :
       /\ task[i] = "unborn" => owner[i] = "nobody"
       /\ owner[i] # "nursery" =>
            /\ slot[i] = NoJob /\ held[i] = NoJob /\ blocked[i] = {}
            /\ \A w \in Worker :
                 wslot[i][w] = NoJob /\ wstate[i][w] \notin {"busy", "publishing"}

\* Worker 0 of the instance that holds the mutex runs an Outbox job.
MutexInv == \A i \in Instance : mutex = i => RunsOutbox(i, 0)

\* A row is in one transaction, and is neither committed nor published before that is.
StagedInv ==
  /\ \A row \in Row, i, k \in Instance, w, u \in Worker :
       row \in txn[i][w] /\ row \in txn[k][u] => i = k /\ w = u
  /\ \A i \in Instance, w \in Worker :
       \A row \in txn[i][w] : row \notin outbox /\ published[row] = 0

\* The rows a poll has read stay in the table until it deletes them.
PollInv ==
  /\ poll.rows \cup poll.sent \subseteq outbox /\ poll.rows \cap poll.sent = {}
  /\ poll.pc # "delete" => poll.sent = {}
  /\ poll.pc = "delete" => \E row \in Row : poll.sent = {row}
  /\ mutex = NoInst => poll = NoPoll
  /\ \A row \in poll.sent : published[row] > 0

\* A row that is still to be published has no more copies than polls were cut off.
CopiesInv ==
  \A row \in Row : /\ published[row] <= 1 + lost
                   /\ row \in outbox /\ row \notin poll.sent => published[row] <= lost

FaultInv ==
  faults = 0 =>
    /\ lost = 0 /\ server = "up"
    /\ \A i \in Instance : task[i] # "err" /\ \A w \in Worker : wstate[i][w] # "failed"

OutboxInv == /\ OutboxTypeOK /\ TopicInv /\ NurseryInv /\ MutexInv
             /\ StagedInv /\ PollInv /\ CopiesInv /\ FaultInv
=============================================================================
