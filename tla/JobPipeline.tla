---------------------------- MODULE JobPipeline ----------------------------
(***************************************************************************)
(* How chiseld runs the versions of a user's backend: the trunk that maps  *)
(* version ids to running instances (trunk.rs), the task tree of one       *)
(* instance (version.rs, worker.rs), the JavaScript loop of a worker       *)
(* (run.ts, ops/job.rs), and the two producers of jobs: the HTTP API       *)
(* (http.rs) and the Kafka topics (kafka.rs).                              *)
(*                                                                         *)
(* A job travels through three places that hold one job each:              *)
(*    slot    the version's mpsc::channel(1)                               *)
(*    held    the job the dispatcher (job_task) has received and is        *)
(*            sending to the next worker, round-robin                      *)
(*    wslot   the worker's mpsc::channel(1)                                *)
(* and is then the job wjob the worker runs.  A sender that finds slot     *)
(* full waits in blocked: tokio serves waiters first-come first-served,    *)
(* here any waiter may be served next, which allows more orders.           *)
(*                                                                         *)
(* An instance ends by itself once every clone of its job_tx is gone: the  *)
(* clones are the trunk's, the one `apply' keeps until the instance is     *)
(* ready, and the one each HTTP request keeps until it has its response.   *)
(***************************************************************************)
EXTENDS Naturals, FiniteSets

CONSTANTS
  VersionId,    \* names of versions, the keys of Trunk.versions
  Instance,     \* identities of spawned instances: `apply' of the same
                \* version id spawns a new instance
  IdOf,         \* [Instance -> VersionId]
  Boot,         \* instances start_versions() spawns when the server starts
  WorkerCount,  \* [Instance -> Nat]: opt.worker_threads, and 1 for the canary of
                \* `apply' and for the builtin version "__chiselstrike"
  Removable,    \* versions that are removed with the delete() call
  Request,      \* HTTP requests
  MaxEvent,     \* how many Kafka events the (single) topic delivers
  MaxPublish,   \* how many times one handler calls publishEvent()
  NoInst, NoJob \* model values: no instance, no job

Workers(i) == 0 .. (WorkerCount[i] - 1)
Worker == UNION {Workers(i) : i \in Instance}
Event  == 1 .. MaxEvent

ASSUME PipelineAssumption ==
  /\ IdOf \in [Instance -> VersionId]
  /\ Boot \subseteq Instance
  /\ \A i, j \in Boot : IdOf[i] = IdOf[j] => i = j
  /\ WorkerCount \in [Instance -> Nat \ {0}]
  /\ Removable \subseteq VersionId
  /\ MaxEvent \in Nat
  /\ MaxPublish \in Nat
  /\ NoInst \notin Instance

HttpJob(r)      == [kind |-> "http", req |-> r]
KafkaJob(e)     == [kind |-> "kafka", event |-> e]
OutboxJob(i, w) == [kind |-> "outbox", inst |-> i, worker |-> w]

\* VersionJob
Job == {HttpJob(r) : r \in Request} \cup {KafkaJob(e) : e \in Event}
         \cup {OutboxJob(i, w) : i \in Instance, w \in Worker}

ASSUME NoJobAssumption == NoJob \notin Job

VARIABLES
  trunk,    \* Trunk.versions: the instance a version id is routed to
  owner,    \* who holds the instance's task handle: nobody, apply, the nursery
  task,     \* state of the task version::run
  ready,    \* ready_task has signalled ready_tx
  dispatch, \* state of job_task
  next,     \* worker_i, the worker the next job goes to
  slot,     \* the version channel's buffer
  blocked,  \* jobs whose send() waits for a permit of the version channel
  held,     \* the job that job_task is sending on
  wslot,    \* the buffer of each worker's channel
  wstate,   \* state of each worker
  wready,   \* workers that have called op_chisel_ready
  wjob,     \* the job a worker runs
  npub,     \* publishEvent() calls made while running that job
  req,      \* state of each HTTP request
  rinst,    \* instance whose job_tx the request cloned
  topic,    \* the topic task: next event, and whether it is being sent
  server    \* the process: "up" or "down"

routeVars  == <<trunk, owner>>
taskVars   == <<task, ready, dispatch>>
queueVars  == <<next, slot, blocked, held>>
workerVars == <<wslot, wstate, wready, wjob, npub>>
reqVars    == <<req, rinst>>
vars == <<routeVars, taskVars, queueVars, workerVars, reqVars, topic, server>>

Pending == {"auth", "waiting"}   \* requests that own a clone of job_tx
Resolved == {"ok", "aborted", "rejected", "not_found", "gone"}

\* start_versions() has spawned the instances in Boot and added them to the
\* trunk without waiting for them: their workers still load the modules.
Init ==
  /\ trunk    = [v \in VersionId |->
                   IF \E i \in Boot : IdOf[i] = v
                     THEN CHOOSE i \in Boot : IdOf[i] = v ELSE NoInst]
  /\ owner    = [i \in Instance |-> IF i \in Boot THEN "nursery" ELSE "nobody"]
  /\ task     = [i \in Instance |-> IF i \in Boot THEN "running" ELSE "unborn"]
  /\ ready    = [i \in Instance |-> FALSE]
  /\ dispatch = [i \in Instance |-> IF i \in Boot THEN "open" ELSE "off"]
  /\ next     = [i \in Instance |-> 0]
  /\ slot     = [i \in Instance |-> NoJob]
  /\ blocked  = [i \in Instance |-> {}]
  /\ held     = [i \in Instance |-> NoJob]
  /\ wslot    = [i \in Instance |-> [w \in Worker |-> NoJob]]
  /\ wstate   = [i \in Instance |->
                   [w \in Worker |-> IF i \in Boot /\ w \in Workers(i)
                                       THEN "init" ELSE "off"]]
  /\ wready   = [i \in Instance |-> {}]
  /\ wjob     = [i \in Instance |-> [w \in Worker |-> NoJob]]
  /\ npub     = [i \in Instance |-> [w \in Worker |-> 0]]
  /\ req      = [r \in Request |-> "new"]
  /\ rinst    = [r \in Request |-> NoInst]
  /\ topic    = [next |-> 1, sending |-> FALSE]
  /\ server   = "up"

-----------------------------------------------------------------------------
(* Dropping a job drops its response_tx: the request that waits for it     *)
(* sees "Request was aborted".                                             *)

Aborted(J) ==
  [r \in Request |->
     IF req[r] = "waiting" /\ HttpJob(r) \in J THEN "aborted" ELSE req[r]]

\* Every job instance i holds: they are all dropped with its task.
JobsIn(i) ==
  {slot[i], held[i]} \cup blocked[i]
    \cup {wslot[i][w] : w \in Worker} \cup {wjob[i][w] : w \in Worker}

\* The task of instance i stops in state t before its jobs were handled: the
\* channel's receiver and the worker handles are dropped with it, and with the
\* workers the sends they were waiting for.
StopTask(i, t) ==
  /\ task'     = [task EXCEPT ![i] = t]
  /\ dispatch' = [dispatch EXCEPT ![i] = "off"]
  /\ slot'     = [slot EXCEPT ![i] = NoJob]
  /\ blocked'  = [k \in Instance |->
                    IF k = i THEN {} ELSE blocked[k] \ {OutboxJob(i, w) : w \in Worker}]
  /\ held'     = [held EXCEPT ![i] = NoJob]
  /\ wslot'    = [wslot EXCEPT ![i] = [w \in Worker |-> NoJob]]
  /\ wjob'     = [wjob EXCEPT ![i] = [w \in Worker |-> NoJob]]
  /\ wstate'   = [wstate EXCEPT ![i] = [w \in Worker |-> "off"]]
  /\ npub'     = [npub EXCEPT ![i] = [w \in Worker |-> 0]]
  /\ req'      = Aborted(JobsIn(i))
  /\ UNCHANGED <<ready, next, wready, rinst>>

-----------------------------------------------------------------------------
(* rpc.rs: apply and delete, as far as instances are concerned.            *)

\* apply() spawns the new instance and keeps its job_tx and task handle.
spawn(i) ==
  /\ server = "up" /\ task[i] = "unborn"
  /\ owner'    = [owner EXCEPT ![i] = "apply"]
  /\ task'     = [task EXCEPT ![i] = "running"]
  /\ dispatch' = [dispatch EXCEPT ![i] = "open"]
  /\ wstate'   = [wstate EXCEPT ![i] =
                    [w \in Worker |-> IF w \in Workers(i) THEN "init" ELSE "off"]]
  /\ UNCHANGED <<trunk, ready, queueVars, wslot, wready, wjob, npub, reqVars,
                 topic, server>>

\* (Mutant: the version is routed to without waiting for the ready signal.)
add_version_early(i) ==
  /\ server = "up" /\ owner[i] = "apply"
  /\ trunk' = [trunk EXCEPT ![IdOf[i]] = i]
  /\ owner' = [owner EXCEPT ![i] = "nursery"]
  /\ UNCHANGED <<taskVars, queueVars, workerVars, reqVars, topic, server>>

\* wait_until_ready() saw the ready signal: Trunk::add_version replaces the
\* instance that the version id was routed to, whose task stays in the nursery.
\* The task may fail at the same moment: select! then picks either branch.
add_version(i) ==
  /\ server = "up" /\ owner[i] = "apply" /\ ready[i]
  /\ trunk' = [trunk EXCEPT ![IdOf[i]] = i]
  /\ owner' = [owner EXCEPT ![i] = "nursery"]
  /\ UNCHANGED <<taskVars, queueVars, workerVars, reqVars, topic, server>>

\* wait_until_ready() returns an error (the task failed, or ready_tx was
\* dropped and the grace period passed), the caller went away, or the instance
\* was only the canary of validate_modules(): its handle is dropped, which
\* cancels the task.
drop_version(i) ==
  /\ server = "up" /\ owner[i] = "apply"
  /\ owner' = [owner EXCEPT ![i] = "nobody"]
  /\ IF task[i] = "running"
       THEN StopTask(i, "cancelled")
       ELSE UNCHANGED <<taskVars, slot, blocked, held, next, workerVars, reqVars>>
  /\ UNCHANGED <<trunk, topic, server>>

\* Trunk::remove_version, called by delete(): only the routing entry goes.
remove_version(v) ==
  /\ server = "up" /\ v \in Removable /\ trunk[v] # NoInst
  /\ trunk' = [trunk EXCEPT ![v] = NoInst]
  /\ UNCHANGED <<owner, taskVars, queueVars, workerVars, reqVars, topic, server>>

-----------------------------------------------------------------------------
(* http.rs: handle_version_request.                                        *)

\* Trunk::get_trunk_version clones the job_tx; unknown version: 404.
get_trunk_version(r, v) ==
  /\ server = "up" /\ req[r] = "new"
  /\ req'   = [req EXCEPT ![r] = IF trunk[v] = NoInst THEN "not_found" ELSE "auth"]
  /\ rinst' = [rinst EXCEPT ![r] = trunk[v]]
  /\ UNCHANGED <<routeVars, taskVars, queueVars, workerVars, topic, server>>

\* authenticate() or authorize() refuses the request.
reject(r) ==
  /\ server = "up" /\ req[r] = "auth"
  /\ req' = [req EXCEPT ![r] = "rejected"]
  /\ UNCHANGED <<routeVars, taskVars, queueVars, workerVars, rinst, topic, server>>

\* job_tx.send(job): the receiver is gone if the task has stopped; the error is
\* ignored and the dropped job aborts the request.
send_job(r) ==
  LET i == rinst[r] IN
  /\ server = "up" /\ req[r] = "auth"
  /\ IF dispatch[i] = "open"
       THEN /\ req'     = [req EXCEPT ![r] = "waiting"]
            /\ blocked' = [blocked EXCEPT ![i] = @ \cup {HttpJob(r)}]
       ELSE /\ req'     = [req EXCEPT ![r] = "aborted"]
            /\ UNCHANGED blocked
  /\ UNCHANGED <<routeVars, taskVars, slot, next, held, workerVars, rinst,
                 topic, server>>

\* The client disconnects: hyper drops the handler, and with it a send that is
\* still waiting; a job that was sent stays where it is.
disconnect(r) ==
  /\ server = "up" /\ req[r] \in Pending
  /\ req'     = [req EXCEPT ![r] = "gone"]
  /\ blocked' = [blocked EXCEPT ![rinst[r]] = @ \ {HttpJob(r)}]
  /\ UNCHANGED <<routeVars, taskVars, slot, next, held, workerVars, rinst,
                 topic, server>>

-----------------------------------------------------------------------------
(* kafka.rs: one topic task, and publishing.                               *)

\* (Mutant: events are kept for channels whose receiver is gone.)
ListedClosed == {i \in Instance : trunk[IdOf[i]] = i}

\* Instances the trunk lists whose channel still has a receiver.
Listed == {i \in Instance : trunk[IdOf[i]] = i /\ dispatch[i] = "open"}

\* handle_event sends the event to all versions concurrently ...
handle_event ==
  /\ server = "up" /\ ~topic.sending /\ topic.next \in Event
  /\ topic'   = [topic EXCEPT !.sending = TRUE]
  /\ blocked' = [i \in Instance |->
                   IF i \in Listed THEN blocked[i] \cup {KafkaJob(topic.next)}
                                   ELSE blocked[i]]
  /\ UNCHANGED <<routeVars, taskVars, slot, next, held, workerVars, reqVars, server>>

\* ... and the next event is read once every version has taken this one.
event_sent ==
  /\ server = "up" /\ topic.sending
  /\ \A i \in Instance : KafkaJob(topic.next) \notin blocked[i]
  /\ topic' = [next |-> topic.next + 1, sending |-> FALSE]
  /\ UNCHANGED <<routeVars, taskVars, queueVars, workerVars, reqVars, server>>

\* publishEvent(), called by the handler that worker w of instance i runs:
\* op_chisel_publish sends an Outbox job to all versions ...
handle_publish(i, w) ==
  /\ server = "up" /\ wstate[i][w] = "busy"
  /\ wjob[i][w].kind \in {"http", "kafka"} /\ npub[i][w] < MaxPublish
  /\ wstate'  = [wstate EXCEPT ![i][w] = "publishing"]
  /\ npub'    = [npub EXCEPT ![i][w] = @ + 1]
  /\ blocked' = [k \in Instance |->
                   IF k \in Listed THEN blocked[k] \cup {OutboxJob(i, w)}
                                   ELSE blocked[k]]
  /\ UNCHANGED <<routeVars, taskVars, slot, next, held, wslot, wready, wjob,
                 reqVars, topic, server>>

\* ... and returns to the handler when all of them have taken it.
publish_sent(i, w) ==
  /\ server = "up" /\ wstate[i][w] = "publishing"
  /\ \A k \in Instance : OutboxJob(i, w) \notin blocked[k]
  /\ wstate' = [wstate EXCEPT ![i][w] = "busy"]
  /\ UNCHANGED <<routeVars, taskVars, queueVars, wslot, wready, wjob, npub,
                 reqVars, topic, server>>

-----------------------------------------------------------------------------
(* version.rs: the channel, job_task, ready_task, join_task.               *)

\* (Mutant: a send that has completed is tried again.)
send_permit_again(i, j) ==
  /\ server = "up" /\ slot[i] = NoJob /\ j \in blocked[i]
  /\ slot' = [slot EXCEPT ![i] = j]
  /\ UNCHANGED <<routeVars, taskVars, next, blocked, held, workerVars, reqVars, topic, server>>

\* The channel has room: a waiting send() completes.
send_permit(i, j) ==
  /\ server = "up" /\ slot[i] = NoJob /\ j \in blocked[i]
  /\ slot'    = [slot EXCEPT ![i] = j]
  /\ blocked' = [blocked EXCEPT ![i] = @ \ {j}]
  /\ UNCHANGED <<routeVars, taskVars, next, held, workerVars, reqVars, topic, server>>

\* (Mutant: the job is looked at, and stays in the channel.)
dispatch_peek(i) ==
  /\ server = "up" /\ dispatch[i] = "open"
  /\ held[i] = NoJob /\ slot[i] # NoJob
  /\ held' = [held EXCEPT ![i] = slot[i]]
  /\ UNCHANGED <<routeVars, taskVars, next, slot, blocked, workerVars, reqVars, topic, server>>

\* job_task: job_rx.recv()
dispatch_recv(i) ==
  /\ server = "up" /\ dispatch[i] = "open"
  /\ held[i] = NoJob /\ slot[i] # NoJob
  /\ held' = [held EXCEPT ![i] = slot[i]]
  /\ slot' = [slot EXCEPT ![i] = NoJob]
  /\ UNCHANGED <<routeVars, taskVars, next, blocked, workerVars, reqVars, topic, server>>

\* A worker that has not stopped still has its job_rx.
Alive == {"init", "idle", "busy", "publishing"}

NextWorker(i) == (next[i] + 1) % WorkerCount[i]

\* job_task: the send to the next worker completes; advance worker_i.
dispatch_send(i) ==
  LET w == next[i] IN
  /\ server = "up" /\ held[i] # NoJob
  /\ wstate[i][w] \in Alive /\ wslot[i][w] = NoJob
  /\ wslot' = [wslot EXCEPT ![i][w] = held[i]]
  /\ held'  = [held EXCEPT ![i] = NoJob]
  /\ next'  = [next EXCEPT ![i] = NextWorker(i)]
  /\ UNCHANGED <<routeVars, taskVars, slot, blocked, wstate, wready, wjob, npub,
                 reqVars, topic, server>>

\* (Mutants: the trunk does not keep a sender; a request does not keep one; the
\* nursery keeps one.)
HasSenderNoTrunk(i) ==
  \/ owner[i] = "apply"
  \/ \E r \in Request : req[r] \in Pending /\ rinst[r] = i
HasSenderNoRequest(i) == trunk[IdOf[i]] = i \/ owner[i] = "apply"
HasSenderLeaked(i) == owner[i] \in {"apply", "nursery"}

\* The clones of job_tx other than those of sends that are still waiting.
HasSender(i) ==
  \/ trunk[IdOf[i]] = i
  \/ owner[i] = "apply"
  \/ \E r \in Request : req[r] \in Pending /\ rinst[r] = i

\* job_task: recv() returns None when the channel is drained and every sender
\* is gone; the task returns and drops the workers' senders.
dispatch_close(i) ==
  /\ server = "up" /\ dispatch[i] = "open"
  /\ held[i] = NoJob /\ slot[i] = NoJob /\ blocked[i] = {} /\ ~HasSender(i)
  /\ dispatch' = [dispatch EXCEPT ![i] = "closed"]
  /\ UNCHANGED <<routeVars, task, ready, queueVars, workerVars, reqVars, topic, server>>

\* ready_task: every worker has signalled.
signal_ready(i) ==
  /\ server = "up" /\ task[i] = "running" /\ ~ready[i] /\ wready[i] = Workers(i)
  /\ ready' = [ready EXCEPT ![i] = TRUE]
  /\ UNCHANGED <<routeVars, task, dispatch, queueVars, workerVars, reqVars, topic,
                 server>>

\* (Mutant: the workers are not joined.)
NobodyJoined(i) == TRUE

\* join_task: every worker has returned.
AllJoined(i) == \A w \in Workers(i) : wstate[i][w] = "done"

\* try_join!: all three tasks have finished.
task_ok(i) ==
  /\ server = "up" /\ task[i] = "running"
  /\ ready[i] /\ dispatch[i] = "closed" /\ AllJoined(i)
  /\ task' = [task EXCEPT ![i] = "ok"]
  /\ UNCHANGED <<routeVars, ready, dispatch, queueVars, workerVars, reqVars, topic,
                 server>>

\* try_join!: join_task (a worker failed) or job_task (a worker cannot accept
\* jobs) returned an error; the rest of the instance is aborted.
task_err(i) ==
  /\ server = "up" /\ task[i] = "running"
  /\ \E w \in Worker : wstate[i][w] = "failed"
  /\ StopTask(i, "err")
  /\ UNCHANGED <<routeVars, topic, server>>

\* trunk.rs: the nursery hands the error of a version task to the trunk task,
\* whose error ends run() in server.rs.  The process exits.
trunk_err(i) ==
  /\ server = "up" /\ owner[i] = "nursery" /\ task[i] = "err"
  /\ server' = "down"
  /\ UNCHANGED <<routeVars, taskVars, queueVars, workerVars, reqVars, topic>>

-----------------------------------------------------------------------------
(* worker.rs, run.ts and ops/job.rs: one worker.                           *)

\* The modules are loaded and op_chisel_ready is called.
op_chisel_ready(i, w) ==
  /\ server = "up" /\ wstate[i][w] = "init"
  /\ wstate' = [wstate EXCEPT ![i][w] = "idle"]
  /\ wready' = [wready EXCEPT ![i] = @ \cup {w}]
  /\ UNCHANGED <<routeVars, taskVars, queueVars, wslot, wjob, npub, reqVars, topic,
                 server>>

\* op_chisel_accept_job: the loop of run.ts takes one job at a time.
op_chisel_accept_job(i, w) ==
  /\ server = "up" /\ wstate[i][w] = "idle" /\ wslot[i][w] # NoJob
  /\ wstate' = [wstate EXCEPT ![i][w] = "busy"]
  /\ wjob'   = [wjob EXCEPT ![i][w] = wslot[i][w]]
  /\ wslot'  = [wslot EXCEPT ![i][w] = NoJob]
  /\ npub'   = [npub EXCEPT ![i][w] = 0]
  /\ UNCHANGED <<routeVars, taskVars, queueVars, wready, reqVars, topic, server>>

\* (Mutant: the response is not sent, or its sender is kept.)
AnsweredNever(i, w) == req

\* op_chisel_http_respond: nobody listens if the client went away.
Answered(i, w) ==
  [r \in Request |->
     IF wjob[i][w] = HttpJob(r) /\ req[r] = "waiting" THEN "ok" ELSE req[r]]

\* The handler returns, and for HTTP responds; an Outbox job was polled by worker
\* 0 or ignored by the others.
finish_job(i, w) ==
  /\ server = "up" /\ wstate[i][w] = "busy"
  /\ wstate' = [wstate EXCEPT ![i][w] = "idle"]
  /\ wjob'   = [wjob EXCEPT ![i][w] = NoJob]
  /\ req'    = Answered(i, w)
  /\ UNCHANGED <<routeVars, taskVars, queueVars, wslot, wready, npub, rinst, topic,
                 server>>

\* op_chisel_accept_job returns null: the loop ends and the worker task is done.
worker_done(i, w) ==
  /\ server = "up" /\ wstate[i][w] = "idle"
  /\ wslot[i][w] = NoJob /\ dispatch[i] = "closed"
  /\ wstate' = [wstate EXCEPT ![i][w] = "done"]
  /\ UNCHANGED <<routeVars, taskVars, queueVars, wslot, wready, wjob, npub, reqVars,
                 topic, server>>

\* The JavaScript of the worker throws: while modules or policies load, or in
\* the part of a job that is outside the handler's try block (opening the
\* transaction, reading the logged-in user, polling the outbox).  The job it
\* runs and the one in its channel are dropped.
worker_err(i, w) ==
  /\ server = "up" /\ wstate[i][w] \in {"init", "busy"}
  /\ wstate[i][w] = "busy" /\ wjob[i][w].kind = "outbox" => w = 0
  /\ wstate' = [wstate EXCEPT ![i][w] = "failed"]
  /\ wjob'   = [wjob EXCEPT ![i][w] = NoJob]
  /\ wslot'  = [wslot EXCEPT ![i][w] = NoJob]
  /\ req'    = Aborted({wjob[i][w], wslot[i][w]})
  /\ UNCHANGED <<routeVars, taskVars, queueVars, wready, npub, rinst, topic, server>>

-----------------------------------------------------------------------------

RpcStep == \/ \E i \in Instance : spawn(i) \/ add_version(i) \/ drop_version(i)
           \/ \E v \in VersionId : remove_version(v)

HttpStep == \E r \in Request :
              \/ \E v \in VersionId : get_trunk_version(r, v)
              \/ reject(r) \/ send_job(r) \/ disconnect(r)

KafkaStep == \/ handle_event \/ event_sent
             \/ \E i \in Instance, w \in Worker :
                  handle_publish(i, w) \/ publish_sent(i, w)

VersionStep == \E i \in Instance :
                 \/ \E j \in Job : send_permit(i, j)
                 \/ dispatch_recv(i) \/ dispatch_send(i) \/ dispatch_close(i)
                 \/ signal_ready(i) \/ task_ok(i) \/ task_err(i) \/ trunk_err(i)

WorkerStep == \E i \in Instance, w \in Worker :
                \/ op_chisel_ready(i, w) \/ op_chisel_accept_job(i, w)
                \/ finish_job(i, w) \/ worker_done(i, w) \/ worker_err(i, w)

\* Nothing is left to do: the server has stopped, or all that was asked of it
\* is done and it waits for more.
Quiet == \/ server = "down"
         \/ /\ \A r \in Request : req[r] \in Resolved
            /\ \A i \in Instance : owner[i] # "apply" /\ JobsIn(i) = {NoJob}
            /\ ~topic.sending

\* Instance k takes no job: its channel, its dispatcher and the channel of the
\* worker that is next are full, and that worker waits in publishEvent() itself.
Clogged(k) ==
  /\ slot[k] # NoJob /\ held[k] # NoJob
  /\ wslot[k][next[k]] # NoJob /\ wstate[k][next[k]] = "publishing"

\* A worker of instance i waits to send its Outbox job to a clogged instance,
\* which may be i itself.
Jammed(i) ==
  \E w \in Worker, k \in Instance :
    wstate[i][w] = "publishing" /\ OutboxJob(i, w) \in blocked[k] /\ Clogged(k)

\* The server waits: nothing is asked of it, or it is jammed.
Waits == (Quiet \/ \E i \in Instance : Jammed(i)) /\ UNCHANGED vars

Next == RpcStep \/ HttpStep \/ KafkaStep \/ VersionStep \/ WorkerStep \/ Waits

\* tokio polls every task that can make progress, and the tasks of the server
\* never block a thread; that modules load and handlers return is an assumption
\* about the user's code (a worker that throws counts as returning).
Fairness ==
  /\ \A r \in Request : WF_vars(reject(r) \/ send_job(r))
  /\ WF_vars(event_sent)
  /\ \A i \in Instance :
       /\ WF_vars(add_version(i) \/ (task[i] # "running" /\ drop_version(i)))
       /\ WF_vars(\E j \in Job : send_permit(i, j))
       /\ WF_vars(dispatch_recv(i)) /\ WF_vars(dispatch_send(i))
       /\ WF_vars(dispatch_close(i)) /\ WF_vars(signal_ready(i))
       /\ WF_vars(task_ok(i)) /\ WF_vars(task_err(i)) /\ WF_vars(trunk_err(i))
       /\ \A w \in Worker :
            /\ WF_vars(op_chisel_ready(i, w) \/ (wstate[i][w] = "init" /\ worker_err(i, w)))
            /\ WF_vars(op_chisel_accept_job(i, w))
            /\ WF_vars(finish_job(i, w) \/ worker_err(i, w))
            /\ WF_vars(publish_sent(i, w))
            /\ WF_vars(worker_done(i, w))

Spec == Init /\ [][Next]_vars
LiveSpec == Spec /\ Fairness

-----------------------------------------------------------------------------
(* Properties.                                                             *)

TypeOK ==
  /\ trunk \in [VersionId -> Instance \cup {NoInst}]
  /\ owner \in [Instance -> {"nobody", "apply", "nursery"}]
  /\ task \in [Instance -> {"unborn", "running", "ok", "err", "cancelled"}]
  /\ ready \in [Instance -> BOOLEAN]
  /\ dispatch \in [Instance -> {"off", "open", "closed"}]
  /\ next \in [Instance -> Worker]
  /\ \A i \in Instance : next[i] \in Workers(i)
  /\ slot \in [Instance -> Job \cup {NoJob}]
  /\ blocked \in [Instance -> SUBSET Job]
  /\ held \in [Instance -> Job \cup {NoJob}]
  /\ wslot \in [Instance -> [Worker -> Job \cup {NoJob}]]
  /\ wstate \in [Instance -> [Worker -> Alive \cup {"off", "done", "failed"}]]
  /\ wready \in [Instance -> SUBSET Worker]
  /\ wjob \in [Instance -> [Worker -> Job \cup {NoJob}]]
  /\ npub \in [Instance -> [Worker -> 0 .. MaxPublish]]
  /\ req \in [Request -> {"new"} \cup Pending \cup Resolved]
  /\ rinst \in [Request -> Instance \cup {NoInst}]
  /\ topic \in [next : 1 .. (MaxEvent + 1), sending : BOOLEAN]
  /\ server \in {"up", "down"}

\* The workers that have job j in f, their channels or what they run.
AtWorkers(place, f, j) ==
  UNION {{<<place, i, w>> : w \in {u \in Worker : f[i][u] = j}} : i \in Instance}

\* The places of the server where a job is, over all instances.
Places(j) ==
       {<<"slot", i>>    : i \in {k \in Instance : slot[k] = j}}
  \cup {<<"blocked", i>> : i \in {k \in Instance : j \in blocked[k]}}
  \cup {<<"held", i>>    : i \in {k \in Instance : held[k] = j}}
  \cup AtWorkers("worker", wslot, j) \cup AtWorkers("running", wjob, j)

\* http.rs 182-195: a request that waits for its response has its job in
\* exactly one place, so it can be neither forgotten nor handled twice, however
\* versions are replaced, removed or fail meanwhile.
JobInOnePlace ==
  \A r \in Request : req[r] = "waiting" => Cardinality(Places(HttpJob(r))) = 1

\* trunk.rs 24-27 and 75-76: an instance that ends by itself has handled every
\* job that was sent to it, Kafka events and Outbox jobs included.
EndsDrained ==
  \A i \in Instance : task[i] = "ok" => JobsIn(i) = {NoJob}

\* trunk.rs: an instance that is routed to does not end by itself, and its
\* channel accepts jobs as long as its task runs.
RoutedAcceptsJobs ==
  \A v \in VersionId :
    trunk[v] # NoInst => LET i == trunk[v] IN
      \/ task[i] = "running" /\ dispatch[i] = "open"
      \/ task[i] = "err"

\* Replacing or removing a version never aborts a request: a 500 "Request was
\* aborted" means that a worker of the instance it was sent to has failed.
AbortedOnlyByFailure ==
  \A r \in Request :
    req[r] = "aborted" =>
      \/ task[rinst[r]] = "err"
      \/ \E w \in Worker : wstate[rinst[r]][w] = "failed"

\* rpc.rs 226-232: `apply' moves traffic only to an instance all of whose
\* workers have loaded the new code.
RoutedOnlyWhenReady ==
  [][\A v \in VersionId :
       trunk'[v] # trunk[v] /\ trunk'[v] # NoInst => wready[trunk'[v]] = Workers(trunk'[v])]_vars

\* http.rs 182-195 with ops/kafka.rs 26-33: a request gets an answer unless the
\* server stops, and the only way to wait for ever is that its instance is
\* jammed for ever by publishEvent().
RequestsResolved ==
  \A r \in Request :
    [](req[r] \in Pending =>
         \/ <>(req[r] \in Resolved \/ server = "down")
         \/ <>[](rinst[r] \in Instance /\ Jammed(rinst[r])))

\* kafka.rs 139-157: the next event is read only when every version has taken
\* this one, and every version does, also one that is replaced or removed
\* meanwhile, unless an instance is jammed for ever.
EventsAreTaken ==
  [](topic.sending =>
       \/ <>(~topic.sending \/ server = "down")
       \/ <>[](\E i \in Instance : Jammed(i)))

\* trunk.rs 75-76: an instance that is no longer routed to terminates on its own.
ReplacedInstancesEnd ==
  \A i \in Instance :
    owner[i] = "nursery" /\ trunk[IdOf[i]] # i
      ~> task[i] \in {"ok", "err"} \/ server = "down"

\* What the code gives of it: such an instance terminates unless publishEvent()
\* jams one of its workers for ever.
ReplacedEndUnlessJammed ==
  \A i \in Instance :
    [](owner[i] = "nursery" /\ trunk[IdOf[i]] # i =>
         \/ <>(task[i] \in {"ok", "err"} \/ server = "down")
         \/ <>[]Jammed(i))

-----------------------------------------------------------------------------
(* The inductive invariant behind the safety properties: what each part of *)
(* the pipeline may rely on, in every state.                               *)

\* The channel of instance i is open, or its task has failed.
Accepts(i) == \/ task[i] = "running" /\ dispatch[i] = "open"
              \/ task[i] = "err"

TopicInv == topic.sending => topic.next \in Event

\* The life cycle of an instance.
TaskInv ==
  \A i \in Instance :
    /\ task[i] = "running" => dispatch[i] \in {"open", "closed"}
    /\ task[i] = "ok" => dispatch[i] = "closed"
    /\ task[i] \in {"unborn", "err", "cancelled"} => dispatch[i] = "off"
    /\ task[i] = "unborn" => owner[i] = "nobody"
    /\ owner[i] = "apply" => Accepts(i)
    /\ ready[i] => wready[i] = Workers(i)

\* Nothing is left in a channel that is not open.
QueueInv ==
  \A i \in Instance :
    dispatch[i] # "open" => slot[i] = NoJob /\ held[i] = NoJob /\ blocked[i] = {}

\* A worker has a job only while it may still handle it.
WorkerInv ==
  \A i \in Instance, w \in Worker :
    /\ wstate[i][w] # "off" => w \in Workers(i) /\ dispatch[i] # "off"
    /\ wstate[i][w] \notin {"busy", "publishing"} => wjob[i][w] = NoJob
    /\ wstate[i][w] \notin Alive => wslot[i][w] = NoJob
    /\ task[i] = "ok" => wstate[i][w] \in {"off", "done"}

\* The trunk routes to instances the nursery keeps.
RouteInv ==
  \A v \in VersionId :
    trunk[v] # NoInst =>
      IdOf[trunk[v]] = v /\ owner[trunk[v]] = "nursery" /\ Accepts(trunk[v])

\* So do the requests that still hold a sender.
RequestInv ==
  \A r \in Request :
    /\ req[r] \in Pending =>
         rinst[r] \in Instance /\ owner[rinst[r]] = "nursery" /\ Accepts(rinst[r])
    /\ req[r] = "aborted" => rinst[r] \in Instance /\ owner[rinst[r]] = "nursery"

\* A request's job is only ever in the instance the request was sent to.
HomeInv ==
  \A i \in Instance, r \in Request :
    HttpJob(r) \in JobsIn(i) => rinst[r] = i /\ req[r] \notin {"new", "auth"}

\* The job of a request that waits is in the instance the request was sent to.
KeptInv ==
  \A r \in Request :
    req[r] = "waiting" => rinst[r] \in Instance /\ HttpJob(r) \in JobsIn(rinst[r])

\* A job is in at most one place of instance i.
OneSpot(i, job) ==
  /\ slot[i] = job => held[i] # job
  /\ slot[i] = job \/ held[i] = job => job \notin blocked[i]
  /\ slot[i] = job \/ held[i] = job \/ job \in blocked[i] =>
       \A w \in Worker : wslot[i][w] # job /\ wjob[i][w] # job
  /\ \A w, u \in Worker :
       /\ wslot[i][w] = job => wjob[i][u] # job
       /\ wslot[i][w] = job /\ wslot[i][u] = job => w = u
       /\ wjob[i][w] = job /\ wjob[i][u] = job => w = u

\* So is the job of a request.
SpotInv == \A i \in Instance, r \in Request : OneSpot(i, HttpJob(r))

\* The conjunction that every step preserves.
IInv == /\ TypeOK /\ TopicInv /\ TaskInv /\ QueueInv /\ WorkerInv
        /\ RouteInv /\ RequestInv /\ HomeInv
        /\ KeptInv /\ AbortedOnlyByFailure /\ SpotInv

=============================================================================
