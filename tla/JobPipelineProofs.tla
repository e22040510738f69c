------------------------- MODULE JobPipelineProofs -------------------------
(* The safety properties of JobPipeline, proved for every number of        *)
(* versions, instances, workers, requests, events and publishEvent calls.  *)
EXTENDS JobPipeline, FiniteSetTheorems, TLAPS

-----------------------------------------------------------------------------
(* Facts about the operators the model is built from.                      *)

\* A request's job is a job of its own: no other request, event or Outbox
\* notification has it, and it differs from the empty buffer.
LEMMA JobFacts ==
  /\ \A r \in Request : HttpJob(r) \in Job /\ HttpJob(r) # NoJob
  /\ \A r, s \in Request : HttpJob(r) = HttpJob(s) => r = s
  /\ \A e \in Event : KafkaJob(e) \in Job
  /\ \A i \in Instance, w \in Worker : OutboxJob(i, w) \in Job
  /\ \A r, e : HttpJob(r) # KafkaJob(e)
  /\ \A r, i, w : HttpJob(r) # OutboxJob(i, w)
<1>1. \A r \in Request : HttpJob(r) \in Job
  BY DEF Job
<1>2. \A r \in Request : HttpJob(r) # NoJob
  BY <1>1, NoJobAssumption
<1>3. \A r, s \in Request : HttpJob(r) = HttpJob(s) => r = s
  BY DEF HttpJob
<1>4. /\ \A e \in Event : KafkaJob(e) \in Job
      /\ \A i \in Instance, w \in Worker : OutboxJob(i, w) \in Job
  BY DEF Job
<1>5. \A r, e : HttpJob(r) # KafkaJob(e)
  <2> SUFFICES ASSUME NEW r, NEW e, HttpJob(r) = KafkaJob(e) PROVE FALSE
    OBVIOUS
  <2>1. HttpJob(r).kind = KafkaJob(e).kind
    OBVIOUS
  <2> QED BY <2>1 DEF HttpJob, KafkaJob
<1>6. \A r, i, w : HttpJob(r) # OutboxJob(i, w)
  <2> SUFFICES ASSUME NEW r, NEW i, NEW w, HttpJob(r) = OutboxJob(i, w) PROVE FALSE
    OBVIOUS
  <2>1. HttpJob(r).kind = OutboxJob(i, w).kind
    OBVIOUS
  <2> QED BY <2>1 DEF HttpJob, OutboxJob
<1> QED BY <1>1, <1>2, <1>3, <1>4, <1>5, <1>6

\* Every worker of an instance is one of Worker, and worker 0 is there.
LEMMA WorkerFacts ==
  \A i \in Instance :
    /\ Workers(i) \subseteq Worker
    /\ 0 \in Workers(i)
    /\ \A w \in Workers(i) : (w + 1) % WorkerCount[i] \in Workers(i)
<1> SUFFICES ASSUME NEW i \in Instance
             PROVE /\ Workers(i) \subseteq Worker
                   /\ 0 \in Workers(i)
                   /\ \A w \in Workers(i) : (w + 1) % WorkerCount[i] \in Workers(i)
  OBVIOUS
<1>1. WorkerCount[i] \in Nat \ {0}
  BY PipelineAssumption
<1>2. Workers(i) \subseteq Worker
  BY DEF Worker
<1>3. 0 \in Workers(i)
  BY <1>1 DEF Workers
<1>4. \A w \in Workers(i) : (w + 1) % WorkerCount[i] \in Workers(i)
  BY <1>1 DEF Workers
<1> QED BY <1>2, <1>3, <1>4

\* Where a job of instance i can be.
LEMMA JobsInFacts ==
  \A i, j : j \in JobsIn(i) <=>
    \/ j = slot[i] \/ j = held[i] \/ j \in blocked[i]
    \/ \E w \in Worker : j = wslot[i][w] \/ j = wjob[i][w]
BY DEF JobsIn

\* The same in the next state.
LEMMA JobsInFactsNext ==
  \A i, j : j \in JobsIn(i)' <=>
    \/ j = slot'[i] \/ j = held'[i] \/ j \in blocked'[i]
    \/ \E w \in Worker : j = wslot'[i][w] \/ j = wjob'[i][w]
BY DEF JobsIn

\* Adding a job to one of a family of sets of jobs.
LEMMA AddElement ==
  ASSUME NEW S, NEW T, NEW f \in [S -> SUBSET T], NEW x, NEW y \in T
  PROVE  [f EXCEPT ![x] = @ \cup {y}] \in [S -> SUBSET T]
<1> DEFINE g == [f EXCEPT ![x] = @ \cup {y}]
<1>1. DOMAIN g = S /\ g = [z \in S |-> g[z]]
  OBVIOUS
<1>2. \A z \in S : g[z] \in SUBSET T
  OBVIOUS
<1> HIDE DEF g
<1>3. g \in [S -> SUBSET T]
  BY <1>1, <1>2
<1> QED BY <1>3 DEF g

\* The routing table start_versions builds.
LEMMA InitTrunk ==
  ASSUME NEW v \in VersionId, NEW i,
         i = IF \E k \in Boot : IdOf[k] = v THEN CHOOSE k \in Boot : IdOf[k] = v ELSE NoInst
  PROVE  i = NoInst \/ (i \in Boot /\ IdOf[i] = v)
<1>1. CASE \E k \in Boot : IdOf[k] = v
  <2>1. i = CHOOSE k \in Boot : IdOf[k] = v
    BY <1>1
  <2> QED BY <1>1, <2>1
<1>2. CASE ~ \E k \in Boot : IdOf[k] = v
  BY <1>2
<1> QED BY <1>1, <1>2

-----------------------------------------------------------------------------
(* Type correctness.                                                       *)

\* Stopping a task keeps the types.
LEMMA TypeStop ==
  ASSUME TypeOK, NEW i \in Instance, NEW t \in {"err", "cancelled"}, StopTask(i, t),
         UNCHANGED <<trunk, topic, server>>,
         owner' \in [Instance -> {"nobody", "apply", "nursery"}]
  PROVE  TypeOK'
<1>1. req' \in [Request -> {"new"} \cup Pending \cup Resolved]
  BY DEF TypeOK, StopTask, Aborted, Resolved
<1>2. blocked' \in [Instance -> SUBSET Job]
  BY DEF TypeOK, StopTask
<1>3. /\ wslot' \in [Instance -> [Worker -> Job \cup {NoJob}]]
      /\ wjob' \in [Instance -> [Worker -> Job \cup {NoJob}]]
      /\ wstate' \in [Instance -> [Worker -> Alive \cup {"off", "done", "failed"}]]
  BY DEF TypeOK, StopTask
<1>4. npub' \in [Instance -> [Worker -> 0 .. MaxPublish]]
  BY PipelineAssumption DEF TypeOK, StopTask
<1> QED BY <1>1, <1>2, <1>3, <1>4 DEF TypeOK, StopTask

\* Every step keeps the variables in their types: the dispatcher's counter
\* stays below the number of workers, and the topic never passes MaxEvent + 1.
LEMMA TypeStep == TypeOK /\ TopicInv /\ [Next]_vars => TypeOK' /\ TopicInv'
<1> SUFFICES ASSUME TypeOK, TopicInv, [Next]_vars PROVE TypeOK' /\ TopicInv'
  OBVIOUS
<1> USE DEF routeVars, taskVars, queueVars, workerVars, reqVars
<1>1. ASSUME NEW i \in Instance, spawn(i) PROVE TypeOK' /\ TopicInv'
  BY <1>1 DEF TypeOK, TopicInv, spawn, Alive
<1>2. ASSUME NEW i \in Instance, add_version(i) PROVE TypeOK' /\ TopicInv'
  BY PipelineAssumption, <1>2 DEF TypeOK, TopicInv, add_version
<1>3. ASSUME NEW i \in Instance, drop_version(i) PROVE TypeOK' /\ TopicInv'
  BY TypeStop, <1>3 DEF TypeOK, TopicInv, drop_version
<1>4. ASSUME NEW v \in VersionId, remove_version(v) PROVE TypeOK' /\ TopicInv'
  BY <1>4 DEF TypeOK, TopicInv, remove_version
<1>5. ASSUME NEW r \in Request, NEW v \in VersionId, get_trunk_version(r, v) PROVE TypeOK' /\ TopicInv'
  BY <1>5 DEF TypeOK, TopicInv, get_trunk_version, Pending, Resolved
<1>6. ASSUME NEW r \in Request, reject(r) PROVE TypeOK' /\ TopicInv'
  BY <1>6 DEF TypeOK, TopicInv, reject, Resolved
<1>7. ASSUME NEW r \in Request, send_job(r) PROVE TypeOK' /\ TopicInv'
  <2>1. HttpJob(r) \in Job
    BY JobFacts
  <2>2. \/ /\ req' = [req EXCEPT ![r] = "waiting"]
           /\ blocked' = [blocked EXCEPT ![rinst[r]] = @ \cup {HttpJob(r)}]
        \/ req' = [req EXCEPT ![r] = "aborted"] /\ blocked' = blocked
    BY <1>7, Zenon DEF send_job
  <2>3. blocked' \in [Instance -> SUBSET Job]
    <3>1. blocked \in [Instance -> SUBSET Job]
      BY DEF TypeOK
    <3>2. [blocked EXCEPT ![rinst[r]] = @ \cup {HttpJob(r)}] \in [Instance -> SUBSET Job]
      BY <2>1, <3>1, AddElement
    <3> QED BY <2>2, <3>1, <3>2
  <2>4. req' \in [Request -> {"new"} \cup Pending \cup Resolved]
    BY <2>2 DEF TypeOK, Pending, Resolved
  <2> QED BY <1>7, <2>3, <2>4 DEF TypeOK, TopicInv, send_job
<1>8. ASSUME NEW r \in Request, disconnect(r) PROVE TypeOK' /\ TopicInv'
  BY <1>8 DEF TypeOK, TopicInv, disconnect, Resolved
<1>9. ASSUME handle_event PROVE TypeOK' /\ TopicInv'
  <2>1. KafkaJob(topic.next) \in Job
    BY <1>9, JobFacts DEF handle_event
  <2>2. blocked' \in [Instance -> SUBSET Job]
    BY <1>9, <2>1 DEF TypeOK, handle_event
  <2>3. topic' \in [next : 1 .. (MaxEvent + 1), sending : BOOLEAN] /\ TopicInv'
    BY <1>9 DEF TypeOK, TopicInv, handle_event
  <2> QED BY <1>9, <2>2, <2>3 DEF TypeOK, handle_event
<1>10. ASSUME event_sent PROVE TypeOK' /\ TopicInv'
  BY PipelineAssumption, <1>10 DEF TypeOK, TopicInv, event_sent, Event
<1>11. ASSUME NEW i \in Instance, NEW w \in Worker, handle_publish(i, w) PROVE TypeOK' /\ TopicInv'
  BY PipelineAssumption, JobFacts, <1>11 DEF TypeOK, TopicInv, handle_publish, Alive
<1>12. ASSUME NEW i \in Instance, NEW w \in Worker, publish_sent(i, w) PROVE TypeOK' /\ TopicInv'
  BY <1>12 DEF TypeOK, TopicInv, publish_sent, Alive
<1>13. ASSUME NEW i \in Instance, NEW j \in Job, send_permit(i, j) PROVE TypeOK' /\ TopicInv'
  BY <1>13 DEF TypeOK, TopicInv, send_permit
<1>14. ASSUME NEW i \in Instance, dispatch_recv(i) PROVE TypeOK' /\ TopicInv'
  BY <1>14 DEF TypeOK, TopicInv, dispatch_recv
<1>15. ASSUME NEW i \in Instance, dispatch_send(i) PROVE TypeOK' /\ TopicInv'
  BY WorkerFacts, <1>15 DEF TypeOK, TopicInv, dispatch_send, NextWorker
<1>16. ASSUME NEW i \in Instance, dispatch_close(i) PROVE TypeOK' /\ TopicInv'
  BY <1>16 DEF TypeOK, TopicInv, dispatch_close
<1>17. ASSUME NEW i \in Instance, signal_ready(i) PROVE TypeOK' /\ TopicInv'
  BY <1>17 DEF TypeOK, TopicInv, signal_ready
<1>18. ASSUME NEW i \in Instance, task_ok(i) PROVE TypeOK' /\ TopicInv'
  BY <1>18 DEF TypeOK, TopicInv, task_ok
<1>19. ASSUME NEW i \in Instance, task_err(i) PROVE TypeOK' /\ TopicInv'
  BY TypeStop, <1>19 DEF TypeOK, TopicInv, task_err
<1>20. ASSUME NEW i \in Instance, trunk_err(i) PROVE TypeOK' /\ TopicInv'
  BY <1>20 DEF TypeOK, TopicInv, trunk_err
<1>21. ASSUME NEW i \in Instance, NEW w \in Worker, op_chisel_ready(i, w) PROVE TypeOK' /\ TopicInv'
  BY <1>21 DEF TypeOK, TopicInv, op_chisel_ready, Alive
<1>22. ASSUME NEW i \in Instance, NEW w \in Worker, op_chisel_accept_job(i, w) PROVE TypeOK' /\ TopicInv'
  BY PipelineAssumption, <1>22 DEF TypeOK, TopicInv, op_chisel_accept_job, Alive
<1>23. ASSUME NEW i \in Instance, NEW w \in Worker, finish_job(i, w) PROVE TypeOK' /\ TopicInv'
  BY <1>23 DEF TypeOK, TopicInv, finish_job, Answered, Alive, Resolved
<1>24. ASSUME NEW i \in Instance, NEW w \in Worker, worker_done(i, w) PROVE TypeOK' /\ TopicInv'
  BY <1>24 DEF TypeOK, TopicInv, worker_done
<1>25. ASSUME NEW i \in Instance, NEW w \in Worker, worker_err(i, w) PROVE TypeOK' /\ TopicInv'
  BY <1>25 DEF TypeOK, TopicInv, worker_err, Aborted, Resolved
<1>26. CASE UNCHANGED vars
  BY <1>26 DEF TypeOK, TopicInv, vars
<1> QED
  BY <1>1, <1>2, <1>3, <1>4, <1>5, <1>6, <1>7, <1>8, <1>9, <1>10, <1>11, <1>12, <1>13, <1>14, <1>15, <1>16, <1>17, <1>18, <1>19, <1>20, <1>21, <1>22, <1>23, <1>24, <1>25, <1>26
     DEF Next, RpcStep, HttpStep, KafkaStep, VersionStep, WorkerStep, Waits

-----------------------------------------------------------------------------
(* The inductive invariant.                                                *)

\* The parts of IInv that do not follow from the types.
SafeInv == /\ TaskInv /\ QueueInv /\ WorkerInv /\ RouteInv /\ RequestInv
           /\ HomeInv /\ KeptInv /\ AbortedOnlyByFailure

\* Moving jobs about within their instance disturbs no request.
LEMMA JobsKept ==
  ASSUME IInv, req' = req, rinst' = rinst,
         \A k \in Instance, r \in Request : HttpJob(r) \in JobsIn(k)' <=> HttpJob(r) \in JobsIn(k)
  PROVE  HomeInv' /\ KeptInv'
BY DEF IInv, HomeInv, KeptInv

\* Stopping a task, whether a worker failed or `apply' dropped the handle.
LEMMA StopSafe ==
  ASSUME IInv, TypeOK', NEW i \in Instance, NEW t, StopTask(i, t), task[i] = "running",
         trunk' = trunk,
         \/ t = "err" /\ owner' = owner
         \/ t = "cancelled" /\ owner[i] = "apply" /\ owner' = [owner EXCEPT ![i] = "nobody"]
  PROVE  SafeInv'
<1> USE DEF IInv
<1>0. \/ t = "err" /\ owner'[i] = owner[i]
      \/ t = "cancelled" /\ owner[i] = "apply" /\ owner'[i] = "nobody"
  BY DEF TypeOK
<1>1. /\ \A k \in Instance \ {i} :
           /\ task'[k] = task[k] /\ dispatch'[k] = dispatch[k] /\ slot'[k] = slot[k]
           /\ held'[k] = held[k] /\ owner'[k] = owner[k]
           /\ wslot'[k] = wslot[k] /\ wjob'[k] = wjob[k] /\ wstate'[k] = wstate[k]
      /\ task'[i] = t /\ dispatch'[i] = "off" /\ slot'[i] = NoJob /\ held'[i] = NoJob
      /\ blocked'[i] = {}
      /\ \A w \in Worker : /\ wslot'[i][w] = NoJob /\ wjob'[i][w] = NoJob
                           /\ wstate'[i][w] = "off"
      /\ ready' = ready /\ wready' = wready /\ rinst' = rinst
  BY DEF StopTask, TypeOK
<1>2. \A k \in Instance \ {i} :
        blocked'[k] \subseteq blocked[k]
          /\ \A r \in Request : HttpJob(r) \in blocked[k] => HttpJob(r) \in blocked'[k]
  BY JobFacts DEF StopTask, TypeOK
<1>3. \A k \in Instance \ {i}, r \in Request : HttpJob(r) \in JobsIn(k)' <=> HttpJob(r) \in JobsIn(k)
  BY <1>1, <1>2, JobsInFacts, JobsInFactsNext
<1>4. \A r \in Request : HttpJob(r) \notin JobsIn(i)'
  BY <1>1, JobFacts, JobsInFactsNext
<1>5. \A r \in Request : req'[r] = IF req[r] = "waiting" /\ HttpJob(r) \in JobsIn(i)
                                     THEN "aborted" ELSE req[r]
  BY DEF StopTask, Aborted
<1>6. TaskInv'
  <2> SUFFICES ASSUME NEW k \in Instance
               PROVE /\ task'[k] = "running" => dispatch'[k] \in {"open", "closed"}
                     /\ task'[k] = "ok" => dispatch'[k] = "closed"
                     /\ task'[k] \in {"unborn", "err", "cancelled"} => dispatch'[k] = "off"
                     /\ task'[k] = "unborn" => owner'[k] = "nobody"
                     /\ owner'[k] = "apply" => Accepts(k)'
                     /\ ready'[k] => wready'[k] = Workers(k)
    BY DEF TaskInv, Workers
  <2>1. CASE k = i
    BY <1>0, <1>1, <2>1 DEF TaskInv, Accepts
  <2>2. CASE k # i
    BY <1>1, <2>2 DEF TaskInv, Accepts
  <2> QED BY <2>1, <2>2
<1>7. QueueInv'
  BY <1>1, <1>2 DEF QueueInv
<1>8. WorkerInv'
  BY <1>1 DEF WorkerInv, Alive
<1>9. RouteInv'
  <2> SUFFICES ASSUME NEW v \in VersionId, trunk[v] # NoInst
               PROVE /\ IdOf[trunk[v]] = v /\ owner'[trunk[v]] = "nursery"
                     /\ Accepts(trunk[v])'
    BY DEF RouteInv, Accepts
  <2>1. trunk[v] \in Instance
    BY DEF TypeOK
  <2>2. CASE trunk[v] = i
    BY <1>0, <1>1, <2>2 DEF RouteInv, Accepts
  <2>3. CASE trunk[v] # i
    BY <1>1, <2>1, <2>3 DEF RouteInv, Accepts
  <2> QED BY <2>2, <2>3
<1>10. RequestInv'
  BY <1>1, <1>5 DEF RequestInv, HomeInv, Accepts, Pending
<1>11. HomeInv'
  BY <1>1, <1>3, <1>4, <1>5 DEF HomeInv
<1>12. KeptInv'
  BY <1>1, <1>3, <1>4, <1>5 DEF KeptInv
<1>13. AbortedOnlyByFailure'
  BY <1>1, <1>5 DEF AbortedOnlyByFailure, HomeInv, RequestInv, Pending
<1> QED BY <1>6, <1>7, <1>8, <1>9, <1>10, <1>11, <1>12, <1>13 DEF SafeInv

\* Applying and deleting versions.
LEMMA RpcStepSafe == IInv /\ TypeOK' /\ RpcStep => SafeInv'
<1> SUFFICES ASSUME IInv, TypeOK', RpcStep PROVE SafeInv'
  OBVIOUS
<1> USE DEF IInv, SafeInv, routeVars, taskVars, queueVars, workerVars, reqVars
<1>1. ASSUME NEW i \in Instance, spawn(i) PROVE SafeInv'
  <2>1. TaskInv'
    BY <1>1 DEF spawn, TaskInv, Accepts, TypeOK
  <2>2. QueueInv'
    BY <1>1 DEF spawn, QueueInv, TypeOK
  <2>3. WorkerInv'
    BY <1>1 DEF spawn, WorkerInv, TaskInv, TypeOK
  <2>4. RouteInv'
    BY <1>1 DEF spawn, RouteInv, Accepts, TypeOK
  <2>5. RequestInv'
    <3> SUFFICES ASSUME NEW r \in Request
                 PROVE /\ req[r] \in Pending =>
                            /\ rinst[r] \in Instance /\ owner'[rinst[r]] = "nursery"
                            /\ Accepts(rinst[r])'
                       /\ req[r] = "aborted" =>
                            rinst[r] \in Instance /\ owner'[rinst[r]] = "nursery"
      BY <1>1 DEF spawn, RequestInv, Accepts
    <3>1. CASE rinst[r] = i
      BY <1>1, <3>1 DEF spawn, RequestInv, TaskInv, TypeOK
    <3>2. CASE rinst[r] # i
      BY <1>1, <3>2 DEF spawn, RequestInv, Accepts, TypeOK
    <3> QED BY <3>1, <3>2
  <2>6. AbortedOnlyByFailure'
    BY <1>1 DEF spawn, AbortedOnlyByFailure, RequestInv, TaskInv, TypeOK
  <2>7. HomeInv' /\ KeptInv'
    BY <1>1 DEF spawn, HomeInv, KeptInv, JobsIn
  <2> QED BY <2>1, <2>2, <2>3, <2>4, <2>5, <2>6, <2>7
<1>2. ASSUME NEW i \in Instance, add_version(i) PROVE SafeInv'
  <2>1. TaskInv'
    BY <1>2 DEF add_version, TaskInv, Accepts, TypeOK
  <2>2. RouteInv'
    BY PipelineAssumption, <1>2 DEF add_version, RouteInv, TaskInv, Accepts, TypeOK
  <2>3. RequestInv'
    BY <1>2 DEF add_version, RequestInv, Accepts, TypeOK
  <2>4. QueueInv' /\ WorkerInv' /\ HomeInv' /\ KeptInv' /\ AbortedOnlyByFailure'
    BY <1>2 DEF add_version, QueueInv, WorkerInv, HomeInv, KeptInv, AbortedOnlyByFailure, JobsIn
  <2> QED BY <2>1, <2>2, <2>3, <2>4
<1>3. ASSUME NEW i \in Instance, drop_version(i) PROVE SafeInv'
  <2>1. CASE task[i] = "running"
    BY <1>3, <2>1, StopSafe DEF drop_version
  <2>2. CASE task[i] # "running"
    <3>1. /\ owner' = [owner EXCEPT ![i] = "nobody"] /\ owner[i] = "apply"
          /\ UNCHANGED <<trunk, taskVars, slot, blocked, held, next, workerVars, reqVars>>
      BY <1>3, <2>2 DEF drop_version
    <3>2. TaskInv'
      BY <3>1 DEF TaskInv, Accepts, TypeOK
    <3>3. RouteInv'
      BY <3>1 DEF RouteInv, Accepts, TypeOK
    <3>4. RequestInv'
      BY <3>1 DEF RequestInv, Accepts, TypeOK
    <3>5. QueueInv' /\ WorkerInv' /\ HomeInv' /\ KeptInv' /\ AbortedOnlyByFailure'
      BY <3>1 DEF QueueInv, WorkerInv, HomeInv, KeptInv, AbortedOnlyByFailure, JobsIn
    <3> QED BY <3>2, <3>3, <3>4, <3>5
  <2> QED BY <2>1, <2>2
<1>4. ASSUME NEW v \in VersionId, remove_version(v) PROVE SafeInv'
  <2>1. RouteInv'
    BY <1>4 DEF remove_version, RouteInv, Accepts, TypeOK
  <2>2. TaskInv' /\ QueueInv' /\ WorkerInv' /\ RequestInv' /\ HomeInv' /\ KeptInv' /\ AbortedOnlyByFailure'
    BY <1>4 DEF remove_version, TaskInv, QueueInv, WorkerInv, RequestInv, HomeInv, KeptInv, AbortedOnlyByFailure, Accepts, JobsIn
  <2> QED BY <2>1, <2>2
<1> QED BY <1>1, <1>2, <1>3, <1>4 DEF RpcStep

\* HTTP requests.
LEMMA HttpStepSafe == IInv /\ TypeOK' /\ HttpStep => SafeInv'
<1> SUFFICES ASSUME IInv, TypeOK', HttpStep PROVE SafeInv'
  OBVIOUS
<1> USE DEF IInv, SafeInv, routeVars, taskVars, queueVars, workerVars, reqVars
<1>1. ASSUME NEW r \in Request, NEW v \in VersionId, get_trunk_version(r, v) PROVE SafeInv'
  <2>1. RequestInv'
    BY <1>1 DEF get_trunk_version, RequestInv, RouteInv, Pending, Accepts, TypeOK
  <2>2. HomeInv'
    BY JobsInFacts, JobsInFactsNext, <1>1 DEF get_trunk_version, HomeInv, TypeOK
  <2>3. KeptInv'
    BY JobsInFacts, JobsInFactsNext, <1>1 DEF get_trunk_version, KeptInv, TypeOK
  <2>4. AbortedOnlyByFailure'
    BY <1>1 DEF get_trunk_version, AbortedOnlyByFailure, TypeOK
  <2>5. TaskInv' /\ QueueInv' /\ WorkerInv' /\ RouteInv'
    BY <1>1 DEF get_trunk_version, TaskInv, QueueInv, WorkerInv, RouteInv, Accepts
  <2> QED BY <2>1, <2>2, <2>3, <2>4, <2>5
<1>2. ASSUME NEW r \in Request, reject(r) PROVE SafeInv'
  <2>1. RequestInv'
    BY <1>2 DEF reject, RequestInv, Pending, Accepts, TypeOK
  <2>2. HomeInv'
    BY JobsInFacts, JobsInFactsNext, <1>2 DEF reject, HomeInv, TypeOK
  <2>3. KeptInv'
    BY JobsInFacts, JobsInFactsNext, <1>2 DEF reject, KeptInv, TypeOK
  <2>4. AbortedOnlyByFailure'
    BY <1>2 DEF reject, AbortedOnlyByFailure, TypeOK
  <2>5. TaskInv' /\ QueueInv' /\ WorkerInv' /\ RouteInv'
    BY <1>2 DEF reject, TaskInv, QueueInv, WorkerInv, RouteInv, Accepts
  <2> QED BY <2>1, <2>2, <2>3, <2>4, <2>5
<1>3. ASSUME NEW r \in Request, send_job(r) PROVE SafeInv'
  <2>1. QueueInv'
    <3>1. \/ /\ req' = [req EXCEPT ![r] = "waiting"] /\ dispatch[rinst[r]] = "open"
             /\ blocked' = [blocked EXCEPT ![rinst[r]] = @ \cup {HttpJob(r)}]
          \/ req' = [req EXCEPT ![r] = "aborted"] /\ blocked' = blocked
      BY <1>3, Zenon DEF send_job
    <3>2. \A k \in Instance : dispatch[k] # "open" => blocked'[k] = blocked[k]
      BY <3>1 DEF TypeOK
    <3> QED BY <1>3, <3>2 DEF send_job, QueueInv
  <2>2. RequestInv'
    BY <1>3 DEF send_job, RequestInv, Pending, Accepts, TypeOK
  <2>3. HomeInv'
    <3>1. \/ /\ req' = [req EXCEPT ![r] = "waiting"] /\ dispatch[rinst[r]] = "open"
             /\ blocked' = [blocked EXCEPT ![rinst[r]] = @ \cup {HttpJob(r)}]
          \/ req' = [req EXCEPT ![r] = "aborted"] /\ blocked' = blocked
      BY <1>3, Zenon DEF send_job
    <3>2. rinst[r] \in Instance
      BY <1>3 DEF send_job, RequestInv, Pending
    <3>3. \A k \in Instance, s \in Request :
            HttpJob(s) \in JobsIn(k)' => HttpJob(s) \in JobsIn(k) \/ (s = r /\ k = rinst[r] /\ req'[s] = "waiting")
      <4> SUFFICES ASSUME NEW k \in Instance, NEW s \in Request, HttpJob(s) \in JobsIn(k)'
                   PROVE HttpJob(s) \in JobsIn(k) \/ (s = r /\ k = rinst[r] /\ req'[s] = "waiting")
        OBVIOUS
      <4>1. HttpJob(s) = HttpJob(r) => s = r
        BY JobFacts
      <4>2. slot' = slot /\ held' = held /\ wslot' = wslot /\ wjob' = wjob
        BY <1>3 DEF send_job
      <4>3. HttpJob(s) \in blocked'[k] =>
              HttpJob(s) \in blocked[k] \/ (s = r /\ k = rinst[r] /\ req'[s] = "waiting")
        BY <3>1, <4>1 DEF TypeOK
      <4> QED BY JobsInFacts, JobsInFactsNext, <4>2, <4>3
    <3> QED BY <1>3, <3>1, <3>3 DEF send_job, HomeInv, TypeOK
  <2>4. KeptInv'
    BY JobsInFacts, JobsInFactsNext, <1>3 DEF send_job, KeptInv, RequestInv, Pending, TypeOK
  <2>5. AbortedOnlyByFailure'
    BY <1>3 DEF send_job, AbortedOnlyByFailure, RequestInv, Pending, Accepts, TypeOK
  <2>6. TaskInv' /\ WorkerInv' /\ RouteInv'
    BY <1>3 DEF send_job, TaskInv, WorkerInv, RouteInv, Accepts
  <2> QED BY <2>1, <2>2, <2>3, <2>4, <2>5, <2>6
<1>4. ASSUME NEW r \in Request, disconnect(r) PROVE SafeInv'
  <2>1. QueueInv'
    BY <1>4 DEF disconnect, QueueInv, TypeOK
  <2>2. RequestInv'
    BY <1>4 DEF disconnect, RequestInv, Accepts, TypeOK
  <2>3. HomeInv'
    <3>1. \A k \in Instance, s \in Request : HttpJob(s) \in JobsIn(k)' => HttpJob(s) \in JobsIn(k)
      <4>1. slot' = slot /\ held' = held /\ wslot' = wslot /\ wjob' = wjob
        BY <1>4 DEF disconnect
      <4>2. \A k \in Instance : blocked'[k] \subseteq blocked[k]
        BY <1>4 DEF disconnect, TypeOK
      <4> QED BY JobsInFacts, JobsInFactsNext, <4>1, <4>2
    <3> QED BY <1>4, <3>1 DEF disconnect, HomeInv, TypeOK
  <2>4. KeptInv'
    <3>1. \A k \in Instance, s \in Request \ {r} :
            HttpJob(s) \in JobsIn(k) => HttpJob(s) \in JobsIn(k)'
      <4>1. slot' = slot /\ held' = held /\ wslot' = wslot /\ wjob' = wjob
        BY <1>4 DEF disconnect
      <4>2. \A s \in Request \ {r} : HttpJob(s) # HttpJob(r)
        BY JobFacts
      <4>3. \A k \in Instance, s \in Request \ {r} :
              HttpJob(s) \in blocked[k] => HttpJob(s) \in blocked'[k]
        BY <1>4, <4>2 DEF disconnect, TypeOK
      <4> QED BY JobsInFacts, JobsInFactsNext, <4>1, <4>3
    <3> QED BY <1>4, <3>1 DEF disconnect, KeptInv, TypeOK
  <2>5. AbortedOnlyByFailure'
    BY <1>4 DEF disconnect, AbortedOnlyByFailure, TypeOK
  <2>6. TaskInv' /\ WorkerInv' /\ RouteInv'
    BY <1>4 DEF disconnect, TaskInv, WorkerInv, RouteInv, Accepts
  <2> QED BY <2>1, <2>2, <2>3, <2>4, <2>5, <2>6
<1> QED BY <1>1, <1>2, <1>3, <1>4 DEF HttpStep

\* Kafka events and publishing.
LEMMA KafkaStepSafe == IInv /\ TypeOK' /\ KafkaStep => SafeInv'
<1> SUFFICES ASSUME IInv, TypeOK', KafkaStep PROVE SafeInv'
  OBVIOUS
<1> USE DEF IInv, SafeInv, routeVars, taskVars, queueVars, workerVars, reqVars
<1>1. ASSUME handle_event PROVE SafeInv'
  <2>1. QueueInv'
    BY <1>1 DEF handle_event, QueueInv, Listed, TypeOK
  <2>2. HomeInv' /\ KeptInv'
    <3>1. \A k \in Instance, r \in Request :
            HttpJob(r) \in JobsIn(k)' <=> HttpJob(r) \in JobsIn(k)
      <4> SUFFICES ASSUME NEW k \in Instance, NEW r \in Request
                   PROVE HttpJob(r) \in JobsIn(k)' <=> HttpJob(r) \in JobsIn(k)
        OBVIOUS
      <4>1. HttpJob(r) # KafkaJob(topic.next)
        BY JobFacts
      <4>2. slot' = slot /\ held' = held /\ wslot' = wslot /\ wjob' = wjob
        BY <1>1 DEF handle_event
      <4>3. HttpJob(r) \in blocked'[k] <=> HttpJob(r) \in blocked[k]
        BY <1>1, <4>1 DEF handle_event
      <4> QED BY JobsInFacts, JobsInFactsNext, <4>2, <4>3
    <3> QED BY <3>1, <1>1, JobsKept DEF handle_event
  <2>3. TaskInv' /\ WorkerInv' /\ RouteInv' /\ RequestInv' /\ AbortedOnlyByFailure'
    BY <1>1 DEF handle_event, TaskInv, WorkerInv, RouteInv, RequestInv, AbortedOnlyByFailure, Accepts
  <2> QED BY <2>1, <2>2, <2>3
<1>2. ASSUME event_sent PROVE SafeInv'
  BY <1>2 DEF event_sent, TaskInv, QueueInv, WorkerInv, RouteInv, RequestInv, HomeInv, KeptInv, AbortedOnlyByFailure, Accepts, JobsIn
<1>3. ASSUME NEW i \in Instance, NEW w \in Worker, handle_publish(i, w) PROVE SafeInv'
  <2>1. QueueInv'
    BY <1>3 DEF handle_publish, QueueInv, Listed, TypeOK
  <2>2. WorkerInv'
    BY <1>3 DEF handle_publish, WorkerInv, Alive, TypeOK
  <2>3. HomeInv' /\ KeptInv'
    <3>1. \A k \in Instance, r \in Request :
            HttpJob(r) \in JobsIn(k)' <=> HttpJob(r) \in JobsIn(k)
      <4> SUFFICES ASSUME NEW k \in Instance, NEW r \in Request
                   PROVE HttpJob(r) \in JobsIn(k)' <=> HttpJob(r) \in JobsIn(k)
        OBVIOUS
      <4>1. HttpJob(r) # OutboxJob(i, w)
        BY JobFacts
      <4>2. slot' = slot /\ held' = held /\ wslot' = wslot /\ wjob' = wjob
        BY <1>3 DEF handle_publish
      <4>3. HttpJob(r) \in blocked'[k] <=> HttpJob(r) \in blocked[k]
        BY <1>3, <4>1 DEF handle_publish
      <4> QED BY JobsInFacts, JobsInFactsNext, <4>2, <4>3
    <3> QED BY <3>1, <1>3, JobsKept DEF handle_publish
  <2>4. AbortedOnlyByFailure'
    BY <1>3 DEF handle_publish, AbortedOnlyByFailure, TypeOK
  <2>5. TaskInv' /\ RouteInv' /\ RequestInv'
    BY <1>3 DEF handle_publish, TaskInv, RouteInv, RequestInv, Accepts
  <2> QED BY <2>1, <2>2, <2>3, <2>4, <2>5
<1>4. ASSUME NEW i \in Instance, NEW w \in Worker, publish_sent(i, w) PROVE SafeInv'
  <2>1. WorkerInv'
    BY <1>4 DEF publish_sent, WorkerInv, Alive, TypeOK
  <2>2. AbortedOnlyByFailure'
    BY <1>4 DEF publish_sent, AbortedOnlyByFailure, TypeOK
  <2>3. TaskInv' /\ QueueInv' /\ RouteInv' /\ RequestInv' /\ HomeInv' /\ KeptInv'
    BY <1>4 DEF publish_sent, TaskInv, QueueInv, RouteInv, RequestInv, HomeInv, KeptInv, Accepts, JobsIn
  <2> QED BY <2>1, <2>2, <2>3
<1> QED BY <1>1, <1>2, <1>3, <1>4 DEF KafkaStep

\* The tasks of an instance.
LEMMA VersionStepSafe == IInv /\ TypeOK' /\ VersionStep => SafeInv'
<1> SUFFICES ASSUME IInv, TypeOK', VersionStep PROVE SafeInv'
  OBVIOUS
<1> USE DEF IInv, SafeInv, routeVars, taskVars, queueVars, workerVars, reqVars
<1>1. ASSUME NEW i \in Instance, NEW j \in Job, send_permit(i, j) PROVE SafeInv'
  <2>1. QueueInv'
    BY <1>1 DEF send_permit, QueueInv, TypeOK
  <2>2. HomeInv' /\ KeptInv'
    <3>1. \A k \in Instance, r \in Request :
            HttpJob(r) \in JobsIn(k)' <=> HttpJob(r) \in JobsIn(k)
      <4> SUFFICES ASSUME NEW k \in Instance, NEW r \in Request
                   PROVE HttpJob(r) \in JobsIn(k)' <=> HttpJob(r) \in JobsIn(k)
        OBVIOUS
      <4>1. HttpJob(r) # NoJob
        BY JobFacts
      <4>2. held' = held /\ wslot' = wslot /\ wjob' = wjob
        BY <1>1 DEF send_permit
      <4>3. HttpJob(r) = slot'[k] \/ HttpJob(r) \in blocked'[k]
              <=> HttpJob(r) = slot[k] \/ HttpJob(r) \in blocked[k]
        BY <1>1, <4>1 DEF send_permit, TypeOK
      <4> QED BY JobsInFacts, JobsInFactsNext, <4>2, <4>3
    <3> QED BY <3>1, <1>1, JobsKept DEF send_permit
  <2>3. TaskInv' /\ WorkerInv' /\ RouteInv' /\ RequestInv' /\ AbortedOnlyByFailure'
    BY <1>1 DEF send_permit, TaskInv, WorkerInv, RouteInv, RequestInv, AbortedOnlyByFailure, Accepts
  <2> QED BY <2>1, <2>2, <2>3
<1>2. ASSUME NEW i \in Instance, dispatch_recv(i) PROVE SafeInv'
  <2>1. QueueInv'
    BY <1>2 DEF dispatch_recv, QueueInv, TypeOK
  <2>2. HomeInv' /\ KeptInv'
    <3>1. \A k \in Instance, r \in Request :
            HttpJob(r) \in JobsIn(k)' <=> HttpJob(r) \in JobsIn(k)
      <4> SUFFICES ASSUME NEW k \in Instance, NEW r \in Request
                   PROVE HttpJob(r) \in JobsIn(k)' <=> HttpJob(r) \in JobsIn(k)
        OBVIOUS
      <4>1. HttpJob(r) # NoJob
        BY JobFacts
      <4>2. blocked' = blocked /\ wslot' = wslot /\ wjob' = wjob
        BY <1>2 DEF dispatch_recv
      <4>3. HttpJob(r) = slot'[k] \/ HttpJob(r) = held'[k]
              <=> HttpJob(r) = slot[k] \/ HttpJob(r) = held[k]
        BY <1>2, <4>1 DEF dispatch_recv, TypeOK
      <4> QED BY JobsInFacts, JobsInFactsNext, <4>2, <4>3
    <3> QED BY <3>1, <1>2, JobsKept DEF dispatch_recv
  <2>3. TaskInv' /\ WorkerInv' /\ RouteInv' /\ RequestInv' /\ AbortedOnlyByFailure'
    BY <1>2 DEF dispatch_recv, TaskInv, WorkerInv, RouteInv, RequestInv, AbortedOnlyByFailure, Accepts
  <2> QED BY <2>1, <2>2, <2>3
<1>3. ASSUME NEW i \in Instance, dispatch_send(i) PROVE SafeInv'
  <2>1. QueueInv'
    BY <1>3 DEF dispatch_send, QueueInv, TypeOK
  <2>2. WorkerInv'
    BY <1>3 DEF dispatch_send, WorkerInv, TypeOK
  <2>3. HomeInv' /\ KeptInv'
    <3>1. \A k \in Instance, r \in Request :
            HttpJob(r) \in JobsIn(k)' <=> HttpJob(r) \in JobsIn(k)
      <4> SUFFICES ASSUME NEW k \in Instance, NEW r \in Request
                   PROVE HttpJob(r) \in JobsIn(k)' <=> HttpJob(r) \in JobsIn(k)
        OBVIOUS
      <4>1. HttpJob(r) # NoJob
        BY JobFacts
      <4>2. slot' = slot /\ blocked' = blocked /\ wjob' = wjob
        BY <1>3 DEF dispatch_send
      <4>3. HttpJob(r) = held'[k] \/ (\E u \in Worker : HttpJob(r) = wslot'[k][u])
              <=> HttpJob(r) = held[k] \/ (\E u \in Worker : HttpJob(r) = wslot[k][u])
        <5>1. CASE k # i
          BY <1>3, <5>1 DEF dispatch_send, TypeOK
        <5>2. CASE k = i
          <6>1. /\ next[i] \in Worker /\ wslot[i][next[i]] = NoJob
                /\ held'[i] = NoJob /\ wslot'[i][next[i]] = held[i]
                /\ \A u \in Worker \ {next[i]} : wslot'[i][u] = wslot[i][u]
            BY <1>3 DEF dispatch_send, TypeOK
          <6> QED BY <4>1, <5>2, <6>1
        <5> QED BY <5>1, <5>2
      <4> QED BY JobsInFacts, JobsInFactsNext, <4>2, <4>3
    <3> QED BY <3>1, <1>3, JobsKept DEF dispatch_send
  <2>4. TaskInv' /\ RouteInv' /\ RequestInv' /\ AbortedOnlyByFailure'
    BY <1>3 DEF dispatch_send, TaskInv, RouteInv, RequestInv, AbortedOnlyByFailure, Accepts
  <2> QED BY <2>1, <2>2, <2>3, <2>4
<1>4. ASSUME NEW i \in Instance, dispatch_close(i) PROVE SafeInv'
  <2>1. TaskInv'
    BY <1>4 DEF dispatch_close, TaskInv, HasSender, Accepts, TypeOK
  <2>2. QueueInv'
    BY <1>4 DEF dispatch_close, QueueInv, TypeOK
  <2>3. WorkerInv'
    BY <1>4 DEF dispatch_close, WorkerInv, TypeOK
  <2>4. RouteInv'
    BY <1>4 DEF dispatch_close, RouteInv, HasSender, Accepts, TypeOK
  <2>5. RequestInv'
    BY <1>4 DEF dispatch_close, RequestInv, HasSender, Accepts, TypeOK
  <2>6. HomeInv' /\ KeptInv' /\ AbortedOnlyByFailure'
    BY <1>4 DEF dispatch_close, HomeInv, KeptInv, AbortedOnlyByFailure, JobsIn
  <2> QED BY <2>1, <2>2, <2>3, <2>4, <2>5, <2>6
<1>5. ASSUME NEW i \in Instance, signal_ready(i) PROVE SafeInv'
  <2>1. TaskInv'
    BY <1>5 DEF signal_ready, TaskInv, Accepts, TypeOK
  <2>2. QueueInv' /\ WorkerInv' /\ RouteInv' /\ RequestInv' /\ HomeInv' /\ KeptInv' /\ AbortedOnlyByFailure'
    BY <1>5 DEF signal_ready, QueueInv, WorkerInv, RouteInv, RequestInv, HomeInv, KeptInv, AbortedOnlyByFailure, Accepts, JobsIn
  <2> QED BY <2>1, <2>2
<1>6. ASSUME NEW i \in Instance, task_ok(i) PROVE SafeInv'
  <2>1. TaskInv'
    BY <1>6 DEF task_ok, TaskInv, Accepts, TypeOK
  <2>2. WorkerInv'
    BY <1>6 DEF task_ok, AllJoined, WorkerInv, TypeOK
  <2>3. RouteInv'
    BY <1>6 DEF task_ok, RouteInv, Accepts, TypeOK
  <2>4. RequestInv'
    BY <1>6 DEF task_ok, RequestInv, Accepts, TypeOK
  <2>5. AbortedOnlyByFailure'
    BY <1>6 DEF task_ok, AbortedOnlyByFailure, TypeOK
  <2>6. QueueInv' /\ HomeInv' /\ KeptInv'
    BY <1>6 DEF task_ok, QueueInv, HomeInv, KeptInv, JobsIn
  <2> QED BY <2>1, <2>2, <2>3, <2>4, <2>5, <2>6
<1>7. ASSUME NEW i \in Instance, task_err(i) PROVE SafeInv'
  BY <1>7, StopSafe DEF task_err
<1>8. ASSUME NEW i \in Instance, trunk_err(i) PROVE SafeInv'
  BY <1>8 DEF trunk_err, TaskInv, QueueInv, WorkerInv, RouteInv, RequestInv, HomeInv, KeptInv, AbortedOnlyByFailure, Accepts, JobsIn
<1> QED BY <1>1, <1>2, <1>3, <1>4, <1>5, <1>6, <1>7, <1>8 DEF VersionStep

\* The workers.
LEMMA WorkerStepSafe == IInv /\ TypeOK' /\ WorkerStep => SafeInv'
<1> SUFFICES ASSUME IInv, TypeOK', WorkerStep PROVE SafeInv'
  OBVIOUS
<1> USE DEF IInv, SafeInv, routeVars, taskVars, queueVars, workerVars, reqVars
<1>1. ASSUME NEW i \in Instance, NEW w \in Worker, op_chisel_ready(i, w) PROVE SafeInv'
  <2>1. TaskInv'
    BY <1>1 DEF op_chisel_ready, TaskInv, WorkerInv, Accepts, TypeOK
  <2>2. WorkerInv'
    BY <1>1 DEF op_chisel_ready, WorkerInv, Alive, TypeOK
  <2>3. AbortedOnlyByFailure'
    BY <1>1 DEF op_chisel_ready, AbortedOnlyByFailure, TypeOK
  <2>4. QueueInv' /\ RouteInv' /\ RequestInv' /\ HomeInv' /\ KeptInv'
    BY <1>1 DEF op_chisel_ready, QueueInv, RouteInv, RequestInv, HomeInv, KeptInv, Accepts, JobsIn
  <2> QED BY <2>1, <2>2, <2>3, <2>4
<1>2. ASSUME NEW i \in Instance, NEW w \in Worker, op_chisel_accept_job(i, w) PROVE SafeInv'
  <2>1. WorkerInv'
    BY <1>2 DEF op_chisel_accept_job, WorkerInv, Alive, TypeOK
  <2>2. HomeInv' /\ KeptInv'
    <3>1. \A k \in Instance, r \in Request :
            HttpJob(r) \in JobsIn(k)' <=> HttpJob(r) \in JobsIn(k)
      <4> SUFFICES ASSUME NEW k \in Instance, NEW r \in Request
                   PROVE HttpJob(r) \in JobsIn(k)' <=> HttpJob(r) \in JobsIn(k)
        OBVIOUS
      <4>1. HttpJob(r) # NoJob
        BY JobFacts
      <4>2. slot' = slot /\ blocked' = blocked /\ held' = held
        BY <1>2 DEF op_chisel_accept_job
      <4>3. \A u \in Worker : HttpJob(r) = wslot'[k][u] \/ HttpJob(r) = wjob'[k][u]
                             <=> HttpJob(r) = wslot[k][u] \/ HttpJob(r) = wjob[k][u]
        <5>1. wstate[i][w] = "idle" /\ wjob[i][w] = NoJob
          BY <1>2 DEF op_chisel_accept_job, WorkerInv
        <5>2. /\ wslot'[i][w] = NoJob /\ wjob'[i][w] = wslot[i][w]
              /\ \A u \in Worker : k # i \/ u # w =>
                   wslot'[k][u] = wslot[k][u] /\ wjob'[k][u] = wjob[k][u]
          BY <1>2 DEF op_chisel_accept_job, TypeOK
        <5> QED BY <4>1, <5>1, <5>2
      <4> QED BY JobsInFacts, JobsInFactsNext, <4>2, <4>3
    <3> QED BY <3>1, <1>2, JobsKept DEF op_chisel_accept_job
  <2>3. AbortedOnlyByFailure'
    BY <1>2 DEF op_chisel_accept_job, AbortedOnlyByFailure, TypeOK
  <2>4. TaskInv' /\ QueueInv' /\ RouteInv' /\ RequestInv'
    BY <1>2 DEF op_chisel_accept_job, TaskInv, QueueInv, RouteInv, RequestInv, Accepts
  <2> QED BY <2>1, <2>2, <2>3, <2>4
<1>3. ASSUME NEW i \in Instance, NEW w \in Worker, finish_job(i, w) PROVE SafeInv'
  <2>1. WorkerInv'
    BY <1>3 DEF finish_job, Answered, WorkerInv, Alive, TypeOK
  <2>2. RequestInv'
    BY <1>3 DEF finish_job, Answered, RequestInv, Pending, Accepts, TypeOK
  <2>3. HomeInv'
    BY JobsInFacts, JobsInFactsNext, JobFacts, <1>3 DEF finish_job, Answered, HomeInv, TypeOK
  <2>4. KeptInv'
    BY JobsInFacts, JobsInFactsNext, <1>3 DEF finish_job, Answered, KeptInv, TypeOK
  <2>5. AbortedOnlyByFailure'
    BY <1>3 DEF finish_job, Answered, AbortedOnlyByFailure, TypeOK
  <2>6. TaskInv' /\ QueueInv' /\ RouteInv'
    BY <1>3 DEF finish_job, Answered, TaskInv, QueueInv, RouteInv, Accepts
  <2> QED BY <2>1, <2>2, <2>3, <2>4, <2>5, <2>6
<1>4. ASSUME NEW i \in Instance, NEW w \in Worker, worker_done(i, w) PROVE SafeInv'
  <2>1. WorkerInv'
    BY <1>4 DEF worker_done, WorkerInv, Alive, TypeOK
  <2>2. AbortedOnlyByFailure'
    BY <1>4 DEF worker_done, AbortedOnlyByFailure, TypeOK
  <2>3. TaskInv' /\ QueueInv' /\ RouteInv' /\ RequestInv' /\ HomeInv' /\ KeptInv'
    BY <1>4 DEF worker_done, TaskInv, QueueInv, RouteInv, RequestInv, HomeInv, KeptInv, Accepts, JobsIn
  <2> QED BY <2>1, <2>2, <2>3
<1>5. ASSUME NEW i \in Instance, NEW w \in Worker, worker_err(i, w) PROVE SafeInv'
  <2>1. WorkerInv'
    BY <1>5 DEF worker_err, WorkerInv, Alive, TypeOK
  <2>2. RequestInv'
    BY <1>5 DEF worker_err, RequestInv, HomeInv, Aborted, Pending, WorkerInv, TaskInv, Accepts, TypeOK
  <2>3. HomeInv'
    BY JobsInFacts, JobsInFactsNext, JobFacts, <1>5 DEF worker_err, HomeInv, Aborted, TypeOK
  <2>4. KeptInv'
    <3>1. \A k \in Instance, r \in Request :
            HttpJob(r) \in JobsIn(k) => \/ HttpJob(r) \in JobsIn(k)'
                                        \/ HttpJob(r) \in {wjob[i][w], wslot[i][w]}
      <4> SUFFICES ASSUME NEW k \in Instance, NEW r \in Request,
                          HttpJob(r) \in JobsIn(k), HttpJob(r) \notin {wjob[i][w], wslot[i][w]}
                   PROVE HttpJob(r) \in JobsIn(k)'
        OBVIOUS
      <4>1. slot' = slot /\ held' = held /\ blocked' = blocked
        BY <1>5 DEF worker_err
      <4>2. \A u \in Worker : /\ wslot'[k][u] = wslot[k][u] \/ (k = i /\ u = w)
                              /\ wjob'[k][u] = wjob[k][u] \/ (k = i /\ u = w)
        BY <1>5 DEF worker_err, TypeOK
      <4> QED BY JobsInFacts, JobsInFactsNext, <4>1, <4>2
    <3>2. \A r \in Request : req'[r] = "waiting" =>
            req[r] = "waiting" /\ HttpJob(r) \notin {wjob[i][w], wslot[i][w]}
      BY <1>5 DEF worker_err, Aborted
    <3> QED BY <1>5, <3>1, <3>2 DEF worker_err, KeptInv
  <2>5. AbortedOnlyByFailure'
    BY JobsInFacts, <1>5 DEF worker_err, AbortedOnlyByFailure, HomeInv, Aborted, TypeOK
  <2>6. TaskInv' /\ QueueInv' /\ RouteInv'
    BY <1>5 DEF worker_err, TaskInv, QueueInv, RouteInv, Accepts
  <2> QED BY <2>1, <2>2, <2>3, <2>4, <2>5, <2>6
<1> QED BY <1>1, <1>2, <1>3, <1>4, <1>5 DEF WorkerStep

\* No step puts the job of a request in a second place: it is moved, and a
\* request that sends its job has none anywhere.
LEMMA SpotStep == IInv /\ [Next]_vars => SpotInv'
<1> SUFFICES ASSUME IInv, [Next]_vars, NEW k \in Instance, NEW q \in Request,
                    NEW job, job = HttpJob(q)
             PROVE  OneSpot(k, job)'
  BY DEF SpotInv
<1>a. TypeOK /\ OneSpot(k, job) /\ job # NoJob
  BY JobFacts DEF IInv, SpotInv
<1>b. /\ \A e : job # KafkaJob(e)
      /\ \A i, w : job # OutboxJob(i, w)
      /\ \A r \in Request : job = HttpJob(r) => r = q
  BY JobFacts
<1>c. ASSUME UNCHANGED <<slot, held, blocked, wslot, wjob>> PROVE OneSpot(k, job)'
  BY <1>a, <1>c DEF OneSpot
<1>d. ASSUME NEW i \in Instance, NEW t, StopTask(i, t) PROVE OneSpot(k, job)'
  BY <1>a, <1>d DEF TypeOK, OneSpot, StopTask
<1> USE DEF routeVars, taskVars, queueVars, workerVars, reqVars
<1>1. ASSUME NEW i \in Instance, drop_version(i) PROVE OneSpot(k, job)'
  BY <1>1, <1>c, <1>d DEF drop_version
<1>2. ASSUME NEW i \in Instance, task_err(i) PROVE OneSpot(k, job)'
  BY <1>2, <1>d DEF task_err
<1>3. ASSUME NEW r \in Request, send_job(r) PROVE OneSpot(k, job)'
  <2>1. /\ slot' = slot /\ held' = held /\ wslot' = wslot /\ wjob' = wjob /\ req[r] = "auth"
        /\ \/ blocked' = [blocked EXCEPT ![rinst[r]] = @ \cup {HttpJob(r)}]
           \/ blocked' = blocked
    BY <1>3, Zenon DEF send_job
  <2>2. CASE r = q
    <3>1. job \notin JobsIn(k)
      BY <2>1, <2>2 DEF IInv, HomeInv
    <3>2. /\ job # slot[k] /\ job # held[k]
          /\ \A w \in Worker : job # wslot[k][w] /\ job # wjob[k][w]
      BY <3>1, JobsInFacts
    <3> QED BY <2>1, <3>2 DEF OneSpot
  <2>3. CASE r # q
    <3>1. blocked'[k] \in {blocked[k], blocked[k] \cup {HttpJob(r)}}
      <4>1. blocked \in [Instance -> SUBSET Job]
        BY <1>a DEF TypeOK
      <4> QED BY <2>1, <4>1
    <3>2. job \in blocked'[k] <=> job \in blocked[k]
      BY <1>b, <2>3, <3>1
    <3> QED BY <1>a, <2>1, <3>2 DEF OneSpot
  <2> QED BY <2>2, <2>3
<1>4. ASSUME NEW r \in Request, disconnect(r) PROVE OneSpot(k, job)'
  BY <1>a, <1>4 DEF TypeOK, OneSpot, disconnect
<1>5. ASSUME handle_event PROVE OneSpot(k, job)'
  BY <1>a, <1>b, <1>5 DEF TypeOK, OneSpot, handle_event
<1>6. ASSUME NEW i \in Instance, NEW w \in Worker, handle_publish(i, w) PROVE OneSpot(k, job)'
  BY <1>a, <1>b, <1>6 DEF TypeOK, OneSpot, handle_publish
<1>7. ASSUME NEW i \in Instance, NEW j \in Job, send_permit(i, j) PROVE OneSpot(k, job)'
  BY <1>a, <1>7 DEF TypeOK, OneSpot, send_permit
<1>8. ASSUME NEW i \in Instance, dispatch_recv(i) PROVE OneSpot(k, job)'
  BY <1>a, <1>8 DEF TypeOK, OneSpot, dispatch_recv
<1>9. ASSUME NEW i \in Instance, dispatch_send(i) PROVE OneSpot(k, job)'
  BY <1>a, <1>9 DEF TypeOK, OneSpot, dispatch_send
<1>10. ASSUME NEW i \in Instance, NEW w \in Worker, op_chisel_accept_job(i, w) PROVE OneSpot(k, job)'
  BY <1>a, <1>10 DEF TypeOK, OneSpot, op_chisel_accept_job
<1>11. ASSUME NEW i \in Instance, NEW w \in Worker, finish_job(i, w) PROVE OneSpot(k, job)'
  BY <1>a, <1>11 DEF TypeOK, OneSpot, finish_job
<1>12. ASSUME NEW i \in Instance, NEW w \in Worker, worker_err(i, w) PROVE OneSpot(k, job)'
  BY <1>a, <1>12 DEF TypeOK, OneSpot, worker_err
<1>13. CASE RpcStep
  BY <1>1, <1>13, <1>c DEF RpcStep, spawn, add_version, remove_version
<1>14. CASE HttpStep
  BY <1>3, <1>4, <1>14, <1>c DEF HttpStep, get_trunk_version, reject
<1>15. CASE KafkaStep
  BY <1>5, <1>6, <1>15, <1>c DEF KafkaStep, event_sent, publish_sent
<1>16. CASE VersionStep
  BY <1>2, <1>7, <1>8, <1>9, <1>16, <1>c DEF VersionStep, dispatch_close, signal_ready, task_ok, trunk_err
<1>17. CASE WorkerStep
  BY <1>10, <1>11, <1>12, <1>17, <1>c DEF WorkerStep, op_chisel_ready, worker_done
<1>18. CASE UNCHANGED vars
  BY <1>18, <1>c DEF vars
<1> QED BY <1>13, <1>14, <1>15, <1>16, <1>17, <1>18 DEF Next, Waits

\* IInv holds initially.
LEMMA InvInit == Init => IInv
<1> SUFFICES ASSUME Init PROVE IInv
  OBVIOUS
<1>1. \A v \in VersionId : trunk[v] = NoInst \/ (trunk[v] \in Boot /\ IdOf[trunk[v]] = v)
  BY InitTrunk DEF Init
<1>2. TypeOK
  BY <1>1, WorkerFacts, PipelineAssumption DEF Init, TypeOK, Alive
<1>3. TopicInv /\ TaskInv /\ QueueInv /\ WorkerInv
  BY PipelineAssumption, WorkerFacts DEF Init, TopicInv, TaskInv, QueueInv, WorkerInv, Accepts, Alive
<1>4. RouteInv
  BY <1>1, PipelineAssumption DEF Init, RouteInv, Accepts
<1>5. RequestInv /\ KeptInv /\ AbortedOnlyByFailure
  BY DEF Init, RequestInv, KeptInv, AbortedOnlyByFailure, Pending
<1>6. HomeInv
  BY JobFacts, JobsInFacts DEF Init, HomeInv
<1>7. SpotInv
  BY JobFacts DEF Init, SpotInv, OneSpot
<1> QED BY <1>2, <1>3, <1>4, <1>5, <1>6, <1>7 DEF IInv

\* IInv is inductive.
LEMMA InvStep == IInv /\ [Next]_vars => IInv'
<1> SUFFICES ASSUME IInv, [Next]_vars PROVE IInv'
  OBVIOUS
<1>0. SpotInv'
  BY SpotStep
<1>1. TypeOK' /\ TopicInv'
  BY TypeStep DEF IInv
<1>2. CASE RpcStep
  BY <1>0, <1>1, <1>2, RpcStepSafe DEF IInv, SafeInv
<1>3. CASE HttpStep
  BY <1>0, <1>1, <1>3, HttpStepSafe DEF IInv, SafeInv
<1>4. CASE KafkaStep
  BY <1>0, <1>1, <1>4, KafkaStepSafe DEF IInv, SafeInv
<1>5. CASE VersionStep
  BY <1>0, <1>1, <1>5, VersionStepSafe DEF IInv, SafeInv
<1>6. CASE WorkerStep
  BY <1>0, <1>1, <1>6, WorkerStepSafe DEF IInv, SafeInv
<1>7. CASE UNCHANGED vars
  <2>1. TaskInv' /\ QueueInv' /\ WorkerInv'
    BY <1>7 DEF IInv, vars, routeVars, taskVars, queueVars, workerVars, reqVars,
                TaskInv, QueueInv, WorkerInv, Accepts
  <2>2. RouteInv' /\ RequestInv' /\ AbortedOnlyByFailure'
    BY <1>7 DEF IInv, vars, routeVars, taskVars, queueVars, workerVars, reqVars,
                RouteInv, RequestInv, AbortedOnlyByFailure, Accepts
  <2>3. HomeInv' /\ KeptInv'
    BY <1>7 DEF IInv, vars, routeVars, taskVars, queueVars, workerVars, reqVars,
                HomeInv, KeptInv, JobsIn
  <2> QED BY <1>0, <1>1, <2>1, <2>2, <2>3 DEF IInv
<1> QED BY <1>2, <1>3, <1>4, <1>5, <1>6, <1>7 DEF Next, Waits

\* The inductive invariant is an invariant of the pipeline.
THEOREM Invariance == Spec => []IInv
<1> QED BY InvInit, InvStep, PTL DEF Spec

-----------------------------------------------------------------------------
(* The properties.                                                         *)

\* Every variable stays in its type, whatever the versions and workers do.
THEOREM TypeCorrect == Spec => []TypeOK
<1>1. IInv => TypeOK
  BY DEF IInv
<1> QED BY Invariance, <1>1, PTL

\* trunk.rs 24-27, 75-76: an instance that ends by itself has no job left.
THEOREM Drained == Spec => []EndsDrained
<1>1. IInv => EndsDrained
  <2> SUFFICES ASSUME IInv, NEW i \in Instance, task[i] = "ok"
               PROVE JobsIn(i) = {NoJob}
    BY DEF EndsDrained
  <2>1. slot[i] = NoJob /\ held[i] = NoJob /\ blocked[i] = {}
    BY DEF IInv, TaskInv, QueueInv
  <2>2. \A w \in Worker : wslot[i][w] = NoJob /\ wjob[i][w] = NoJob
    BY DEF IInv, WorkerInv, Alive
  <2> QED BY <2>1, <2>2 DEF JobsIn
<1> QED BY Invariance, <1>1, PTL

\* trunk.rs 78-99: a version id is never routed to an instance that has ended
\* by itself or was cancelled.
THEOREM RoutedAccepts == Spec => []RoutedAcceptsJobs
<1>1. IInv => RoutedAcceptsJobs
  BY DEF IInv, RouteInv, RoutedAcceptsJobs, Accepts
<1> QED BY Invariance, <1>1, PTL

\* Replacing and removing versions aborts no request: only a failed worker does.
THEOREM AbortedByFailure == Spec => []AbortedOnlyByFailure
<1>1. IInv => AbortedOnlyByFailure
  BY DEF IInv
<1> QED BY Invariance, <1>1, PTL

\* rpc.rs 226-232: traffic moves only to an instance whose workers are all ready.
THEOREM RoutedWhenReady == Spec => RoutedOnlyWhenReady
<1> DEFINE Moves == \A v \in VersionId :
             trunk'[v] # trunk[v] /\ trunk'[v] # NoInst => wready[trunk'[v]] = Workers(trunk'[v])
<1>1. IInv /\ [Next]_vars => [Moves]_vars
  <2> SUFFICES ASSUME IInv, Next PROVE Moves
    OBVIOUS
  <2>1. ASSUME NEW i \in Instance, add_version(i) PROVE Moves
    BY <2>1 DEF add_version, IInv, TaskInv, TypeOK
  <2>2. ASSUME NEW v \in VersionId, remove_version(v) PROVE Moves
    BY <2>2 DEF remove_version, IInv, TypeOK
  <2>3. trunk' = trunk \/ (\E i \in Instance : add_version(i))
                       \/ (\E v \in VersionId : remove_version(v))
    BY DEF Next, RpcStep, HttpStep, KafkaStep, VersionStep, WorkerStep, Waits,
       vars, routeVars, spawn, drop_version, get_trunk_version, reject, send_job,
       disconnect, handle_event, event_sent, handle_publish, publish_sent, send_permit,
       dispatch_recv, dispatch_send, dispatch_close, signal_ready, task_ok, task_err,
       trunk_err, op_chisel_ready, op_chisel_accept_job, finish_job, worker_done, worker_err
  <2>4. CASE trunk' = trunk
    BY <2>4
  <2> QED BY <2>1, <2>2, <2>3, <2>4
<1> QED BY Invariance, <1>1, PTL DEF Spec, RoutedOnlyWhenReady

\* Which workers have a job.
LEMMA AtWorkersFacts ==
  \A place, f, j, p :
    p \in AtWorkers(place, f, j) <=>
      \E i \in Instance, w \in Worker : p = <<place, i, w>> /\ f[i][w] = j
<1> SUFFICES ASSUME NEW place, NEW f, NEW j, NEW p
             PROVE  p \in AtWorkers(place, f, j) <=>
                      \E i \in Instance, w \in Worker : p = <<place, i, w>> /\ f[i][w] = j
  OBVIOUS
<1> DEFINE W(i) == {<<place, i, w>> : w \in {u \in Worker : f[i][u] = j}}
<1>1. \A i : p \in W(i) <=> \E w \in Worker : p = <<place, i, w>> /\ f[i][w] = j
  OBVIOUS
<1>2. p \in AtWorkers(place, f, j) <=> \E i \in Instance : p \in W(i)
  BY DEF AtWorkers
<1> HIDE DEF W
<1> QED BY <1>1, <1>2

\* The same for all the places of a job.
LEMMA PlacesFacts ==
  \A j, p : p \in Places(j) <=>
    \E i \in Instance :
      \/ p = <<"slot", i>> /\ slot[i] = j
      \/ p = <<"blocked", i>> /\ j \in blocked[i]
      \/ p = <<"held", i>> /\ held[i] = j
      \/ \E w \in Worker : p = <<"worker", i, w>> /\ wslot[i][w] = j
      \/ \E w \in Worker : p = <<"running", i, w>> /\ wjob[i][w] = j
BY AtWorkersFacts DEF Places

\* http.rs 182-195: the job of a request that waits for its response is in exactly
\* one place, in one instance, however versions are replaced, removed or fail.
THEOREM JobInOne == Spec => []JobInOnePlace
<1>1. IInv => JobInOnePlace
  <2> SUFFICES ASSUME IInv, NEW r \in Request, req[r] = "waiting"
               PROVE  Cardinality(Places(HttpJob(r))) = 1
    BY DEF JobInOnePlace
  <2> DEFINE job == HttpJob(r)
  <2>1. PICK i \in Instance : i = rinst[r] /\ job \in JobsIn(i)
    BY DEF IInv, KeptInv
  <2>2. \A k \in Instance : k # i => job \notin JobsIn(k)
    BY <2>1 DEF IInv, HomeInv
  <2>3. OneSpot(i, job)
    BY DEF IInv, SpotInv
  <2> HIDE DEF job
  <2>4. \E p : p \in Places(job)
    <3>1. \/ job = slot[i] \/ job = held[i] \/ job \in blocked[i]
          \/ \E w \in Worker : job = wslot[i][w] \/ job = wjob[i][w]
      BY <2>1, JobsInFacts
    <3>2. job = slot[i] => <<"slot", i>> \in Places(job)
      BY PlacesFacts
    <3>3. job = held[i] => <<"held", i>> \in Places(job)
      BY PlacesFacts
    <3>4. job \in blocked[i] => <<"blocked", i>> \in Places(job)
      BY PlacesFacts
    <3>5. \A w \in Worker : /\ job = wslot[i][w] => <<"worker", i, w>> \in Places(job)
                            /\ job = wjob[i][w] => <<"running", i, w>> \in Places(job)
      BY PlacesFacts
    <3> QED BY <3>1, <3>2, <3>3, <3>4, <3>5
  <2>5. \A k \in Instance : k # i =>
          /\ slot[k] # job /\ held[k] # job /\ job \notin blocked[k]
          /\ \A w \in Worker : wslot[k][w] # job /\ wjob[k][w] # job
    BY <2>2, JobsInFacts
  <2>6. \A p, q : p \in Places(job) /\ q \in Places(job) => p = q
    BY <2>3, <2>5, PlacesFacts DEF OneSpot
  <2>7. \E p : Places(job) = {p}
    BY <2>4, <2>6
  <2> QED BY <2>7, FS_Singleton DEF job
<1> QED BY Invariance, <1>1, PTL

=============================================================================
