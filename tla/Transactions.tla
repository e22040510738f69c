---------------------------- MODULE Transactions ----------------------------
(***************************************************************************)
(* The transaction of a job.  The job loop (run.ts) handles one job at a   *)
(* time: handleHttpRequest and handleKafkaEvent begin a transaction, run   *)
(* the user's handler and commit, or roll back when something throws.      *)
(* Datastore operations run concurrently with the handler's code: a        *)
(* handler need not await what it starts, and floating code that outlives  *)
(* its job goes on with whatever requestContext.rid is by then.            *)
(*                                                                         *)
(* An operation in flight keeps a reference, op_chisel_store to the        *)
(* DataContext (Rc) and the others to the database transaction (Arc); a    *)
(* query stream also keeps the transaction's lock until it is closed.      *)
(* Commit and rollback need to be the only owner, and a transaction is     *)
(* rolled back when its last reference is dropped.                         *)
(***************************************************************************)
EXTENDS Naturals, Sequences, FiniteSets

CONSTANTS
  MaxJob,       \* jobs the worker handles
  MaxOp,        \* datastore operations the handlers call
  Connections   \* size of the connection pool (nr_connections)

ASSUME TransactionsAssumption ==
  MaxJob \in Nat \ {0} /\ MaxOp \in Nat /\ Connections \in Nat \ {0}

TxJob  == 1 .. MaxJob
OpKind == {"store", "delete", "query", "stream"}

VARIABLES
  jpc,      \* where the job loop is
  job,      \* the job it handles (the last one it accepted)
  rid,      \* requestContext.rid: the context of a job, 0 when undefined
  current,  \* current_data_ctx of each job's context is Some
  txn,      \* state of each job's database transaction
  written,     \* the operations whose effects each transaction contains
  locked,   \* the operation that holds each transaction's lock, 0 for none
  ops,      \* the operations called
  waits,    \* the operation that the handler awaits, 0 for none
  floating, \* jobs whose handlers left code running
  answer    \* what each job ended with

txVars == <<jpc, job, rid, current, txn, written, locked, ops, waits, floating, answer>>

TxInit ==
  /\ jpc = "accept" /\ job = 0 /\ rid = 0
  /\ current = [j \in TxJob |-> FALSE]
  /\ txn     = [j \in TxJob |-> "none"]
  /\ written    = [j \in TxJob |-> {}]
  /\ locked  = [j \in TxJob |-> 0]
  /\ ops = << >> /\ waits = 0 /\ floating = {}
  /\ answer  = [j \in TxJob |-> "none"]

\* Operations that keep the DataContext, and the transaction, of job j.
InFlight(o)  == ops[o].pc \in {"waiting", "locked"}
RcHolders(j)  == {o \in DOMAIN ops : ops[o].ctx = j /\ InFlight(o) /\ ops[o].kind = "store"}
ArcHolders(j) == {o \in DOMAIN ops : ops[o].ctx = j /\ InFlight(o)}

-----------------------------------------------------------------------------
(* The job loop and the handlers' bracket.                                 *)

\* run: the next job.  A request without a route and an event on an unknown
\* topic end without a transaction.
run_accept ==
  /\ jpc = "accept" /\ job < MaxJob
  /\ job' = job + 1 /\ rid' = job + 1
  /\ jpc' \in {"begin", "respond"}
  /\ UNCHANGED <<current, txn, written, locked, ops, waits, floating, answer>>

\* The transactions of this worker leave a connection.
PoolFree == Cardinality({j \in TxJob : txn[j] = "active"}) < Connections

\* The job loop reads the user before the handler runs, if one is logged in.
op_chisel_begin_transaction ==
  /\ jpc = "begin" /\ PoolFree
  /\ txn' = [txn EXCEPT ![job] = "active"]
  /\ current' = [current EXCEPT ![job] = TRUE]
  /\ jpc' \in {"user", "handler"}
  /\ UNCHANGED <<job, rid, written, locked, ops, waits, floating, answer>>

\* The database fails, or no connection becomes free in time: the pool is shared with
\* the other workers and versions, outbox polls and the reading of users.  The error is
\* thrown outside of the try block, so it ends the job loop.
begin_err ==
  /\ jpc = "begin"
  /\ jpc' = "dead"
  /\ UNCHANGED <<job, rid, current, txn, written, locked, ops, waits, floating, answer>>

\* The user who is logged in is read in the job's transaction: the query waits for
\* its lock like any other, and gives it back.
loggedInUser ==
  /\ jpc = "user" /\ locked[job] = 0
  /\ jpc' = "handler"
  /\ UNCHANGED <<job, rid, current, txn, written, locked, ops, waits, floating, answer>>

\* That fails, still outside of the try block.
loggedInUser_err ==
  /\ jpc = "user" /\ locked[job] = 0
  /\ jpc' = "lost"
  /\ UNCHANGED <<job, rid, current, txn, written, locked, ops, waits, floating, answer>>

handler_returns ==
  /\ jpc = "handler" /\ waits = 0
  /\ jpc' = "commit"
  /\ UNCHANGED <<job, rid, current, txn, written, locked, ops, waits, floating, answer>>

handler_throws ==
  /\ jpc = "handler" /\ waits = 0
  /\ jpc' = "rollback"
  /\ UNCHANGED <<job, rid, current, txn, written, locked, ops, waits, floating, answer>>

\* (Mutant: commit only looks at the references to the DataContext.)
commit_if_unwrapped ==
  /\ jpc = "commit"
  /\ current' = [current EXCEPT ![job] = FALSE]
  /\ IF RcHolders(job) = {}
     THEN txn' = [txn EXCEPT ![job] = "committed"] /\ jpc' = "respond"
     ELSE jpc' = "rollback" /\ UNCHANGED txn
  /\ UNCHANGED <<job, rid, written, locked, ops, waits, floating, answer>>

\* (Mutant: commit waits until it is the only owner.)
commit_when_unused ==
  /\ jpc = "commit"
  /\ current' = [current EXCEPT ![job] = FALSE]
  /\ IF ArcHolders(job) = {}
     THEN txn' = [txn EXCEPT ![job] = "committed"] /\ jpc' = "respond"
     ELSE UNCHANGED <<txn, jpc>>
  /\ UNCHANGED <<job, rid, written, locked, ops, waits, floating, answer>>

\* The context loses its DataContext first; then Rc::try_unwrap and, in
\* DataContext::commit, Arc::try_unwrap fail if there is another reference, and
\* the database may fail.  An error goes to the catch block.
op_chisel_commit_transaction ==
  /\ jpc = "commit"
  /\ current' = [current EXCEPT ![job] = FALSE]
  /\ \/ /\ RcHolders(job) = {} /\ ArcHolders(job) = {}
        /\ \/ txn' = [txn EXCEPT ![job] = "committed"] /\ jpc' = "respond"
           \/ txn' = [txn EXCEPT ![job] = "rolled back"] /\ jpc' = "rollback"
     \/ /\ RcHolders(job) # {} \/ ArcHolders(job) # {}
        /\ jpc' = "rollback" /\ UNCHANGED txn
  /\ UNCHANGED <<job, rid, written, locked, ops, waits, floating, answer>>

\* The catch block.  Without a DataContext (commit took it) rolling back fails,
\* and so it does if it is still in use: both are logged.
op_chisel_rollback_transaction ==
  /\ jpc = "rollback"
  /\ current' = [current EXCEPT ![job] = FALSE]
  /\ txn' = IF current[job] /\ RcHolders(job) = {} /\ ArcHolders(job) = {}
            THEN [txn EXCEPT ![job] = "rolled back"] ELSE txn
  /\ answer' = [answer EXCEPT ![job] = "error"]
  /\ jpc' = "respond"
  /\ UNCHANGED <<job, rid, written, locked, ops, waits, floating>>

\* The response is sent and the job's context is closed.
run_respond ==
  /\ jpc = "respond"
  /\ answer' = [answer EXCEPT ![job] =
       IF @ = "error" THEN @ ELSE IF txn[job] = "none" THEN "refused" ELSE "ok"]
  /\ rid' = 0 /\ jpc' = "accept"
  /\ UNCHANGED <<job, current, txn, written, locked, ops, waits, floating>>

-----------------------------------------------------------------------------
(* Datastore operations.                                                   *)

NewOp(kind, by, awaited) ==
  [kind |-> kind, by |-> by, ctx |-> rid, awaited |-> awaited,
   pc |-> IF rid = 0 THEN "error" ELSE "called"]

\* The handler calls an operation and awaits it or not.
handler_call(kind, awaited) ==
  /\ jpc = "handler" /\ waits = 0 /\ Len(ops) < MaxOp
  /\ ops' = Append(ops, NewOp(kind, job, awaited))
  /\ waits' = IF awaited THEN Len(ops) + 1 ELSE 0
  /\ floating' = IF awaited THEN floating ELSE floating \cup {job}
  /\ UNCHANGED <<jpc, job, rid, current, txn, written, locked, answer>>

\* Code that job j left running calls one, in the context of now.
floating_call(j, kind) ==
  /\ j \in floating /\ jpc \notin {"dead", "lost"} /\ Len(ops) < MaxOp
  /\ ops' = Append(ops, NewOp(kind, j, FALSE))
  /\ UNCHANGED <<jpc, job, rid, current, txn, written, locked, waits, floating, answer>>

\* JobContext::data_context, when the operation's future is first polled: it gets
\* a reference to the transaction of its context, if that has one.
data_context(o) ==
  /\ ops[o].pc = "called"
  /\ ops' = [ops EXCEPT ![o].pc = IF current[ops[o].ctx] THEN "waiting" ELSE "error"]
  /\ UNCHANGED <<jpc, job, rid, current, txn, written, locked, waits, floating, answer>>

\* txn.lock(), lock_arc() in make_transactioned_stream.
lock_txn(o) ==
  /\ ops[o].pc = "waiting" /\ locked[ops[o].ctx] = 0
  /\ locked' = [locked EXCEPT ![ops[o].ctx] = o]
  /\ ops' = [ops EXCEPT ![o].pc = "locked"]
  /\ UNCHANGED <<jpc, job, rid, current, txn, written, waits, floating, answer>>

\* (Mutant: a transaction outlives its last reference.)
DropNothing(o) == txn

\* With the last reference the transaction is dropped.
DropTxn(o) ==
  LET j == ops[o].ctx
  IN IF txn[j] = "active" /\ ~current[j] /\ ArcHolders(j) = {o}
     THEN [txn EXCEPT ![j] = "rolled back"] ELSE txn

\* An operation ends: lock and reference are dropped.
EndOp(o, pc) ==
  /\ txn'    = DropTxn(o)
  /\ locked' = [locked EXCEPT ![ops[o].ctx] = 0]
  /\ ops'    = [ops EXCEPT ![o].pc = pc]
  /\ UNCHANGED <<jpc, job, rid, current, waits, floating, answer>>

Runs(o, kind) == ops[o].pc = "locked" /\ ops[o].kind = kind
WrittenBy(o)  == written' = [written EXCEPT ![ops[o].ctx] = @ \cup {o}]

\* add_row.
op_chisel_store(o) == Runs(o, "store") /\ WrittenBy(o) /\ EndOp(o, "done")

\* mutate_with_transaction, also for op_chisel_crud_delete.
op_chisel_delete(o) == Runs(o, "delete") /\ WrittenBy(o) /\ EndOp(o, "done")

\* run_query.
op_chisel_crud_query(o) == Runs(o, "query") /\ UNCHANGED written /\ EndOp(o, "done")

\* A statement fails.  A store that inserts several rows has perhaps inserted
\* some of them: nothing undoes these.
run_sql_queries_err(o) ==
  /\ ops[o].pc = "locked" /\ ops[o].kind # "stream"
  /\ \/ UNCHANGED written
     \/ ops[o].kind = "store" /\ WrittenBy(o)
  /\ EndOp(o, "error")

\* QueryStreamResource::close: the loop over the cursor ends or is left.  An
\* iterator that its code has abandoned is never closed.
close_stream(o) ==
  /\ ops[o].pc = "locked" /\ ops[o].kind = "stream"
  /\ \/ jpc = "handler" /\ waits = 0 /\ ops[o].by = job
     \/ ops[o].by \in floating
  /\ UNCHANGED written
  /\ EndOp(o, "done")

Settled(o) == ops[o].pc \in {"done", "error"} \/ (ops[o].kind = "stream" /\ ops[o].pc = "locked")

\* The awaited operation has settled.
resume ==
  /\ waits # 0 /\ Settled(waits)
  /\ waits' = 0
  /\ UNCHANGED <<jpc, job, rid, current, txn, written, locked, ops, floating, answer>>

-----------------------------------------------------------------------------
\* A query stream has the lock of the transaction of job j.
StreamOpen(j) == locked[j] # 0 /\ ops[locked[j]].kind = "stream"

\* The handler, or the job loop before it, waits for the lock that a stream has.
Stuck ==
  \/ jpc = "user" /\ StreamOpen(job)
  \/ waits # 0 /\ ops[waits].pc = "waiting" /\ StreamOpen(ops[waits].ctx)

\* A new worker takes the place of one that has no more jobs or cannot go on.
new_worker ==
  /\ jpc \in {"dead", "lost"} \/ Stuck \/ (jpc = "accept" /\ job = MaxJob)
  /\ jpc' = "accept" /\ job' = 0 /\ rid' = 0
  /\ current' = [j \in TxJob |-> FALSE]
  /\ txn'     = [j \in TxJob |-> "none"]
  /\ written'    = [j \in TxJob |-> {}]
  /\ locked'  = [j \in TxJob |-> 0]
  /\ ops' = << >> /\ waits' = 0 /\ floating' = {}
  /\ answer'  = [j \in TxJob |-> "none"]

JobLoop ==
  \/ run_accept \/ op_chisel_begin_transaction \/ begin_err
  \/ loggedInUser \/ loggedInUser_err \/ handler_returns \/ handler_throws
  \/ op_chisel_commit_transaction \/ op_chisel_rollback_transaction \/ run_respond \/ resume

OpSteps == \E o \in DOMAIN ops :
  \/ data_context(o) \/ lock_txn(o)
  \/ op_chisel_store(o) \/ op_chisel_delete(o) \/ op_chisel_crud_query(o) \/ run_sql_queries_err(o)

TxNext ==
  \/ JobLoop \/ OpSteps
  \/ \E kind \in OpKind :
       \/ \E awaited \in BOOLEAN : handler_call(kind, awaited)
       \/ \E j \in floating : floating_call(j, kind)
  \/ \E o \in DOMAIN ops : close_stream(o)
  \/ new_worker

TxSpec == TxInit /\ [][TxNext]_txVars

-----------------------------------------------------------------------------
(* Properties.                                                             *)

Op == [kind : OpKind, by : TxJob, ctx : 0 .. MaxJob, awaited : BOOLEAN,
       pc : {"called", "waiting", "locked", "done", "error"}]

LoopTypeOK ==
  /\ jpc \in {"accept", "begin", "user", "handler", "commit", "rollback", "respond", "dead", "lost"}
  /\ job \in 0 .. MaxJob /\ rid \in 0 .. MaxJob
  /\ current \in [TxJob -> BOOLEAN]
  /\ txn \in [TxJob -> {"none", "active", "committed", "rolled back"}]
  /\ written \in [TxJob -> SUBSET (1 .. MaxOp)]
  /\ locked \in [TxJob -> 0 .. MaxOp]
  /\ floating \subseteq TxJob
  /\ answer \in [TxJob -> {"none", "ok", "error", "refused"}]

OpsTypeOK == ops \in Seq(Op) /\ Len(ops) <= MaxOp /\ waits \in 0 .. Len(ops)

TxTypeOK == LoopTypeOK /\ OpsTypeOK

\* http.ts 88-105, ops/datastore.rs 65-105: the answer tells what became of the
\* writes, whatever the handler left running: a job is answered as a success only
\* if its transaction is committed, with every write that it awaited and that
\* succeeded, and as an error only if nothing of it is or will be committed.
AnswerTellsOutcome ==
  \A j \in TxJob :
    /\ answer[j] = "ok" =>
         /\ txn[j] = "committed"
         /\ \A o \in DOMAIN ops :
              ops[o].by = j /\ ops[o].awaited /\ ops[o].pc = "done"
                /\ ops[o].kind \in {"store", "delete"} => o \in written[j]
    /\ answer[j] = "error" =>
         txn[j] # "committed" /\ ~current[j] /\ (txn[j] = "active" => ArcHolders(j) # {})

\* datastore/mod.rs 87-100: once a transaction has ended no operation is using
\* it, so that nothing is written into a transaction that was committed.
NoUseAfterEnd ==
  \A j \in TxJob : txn[j] \in {"committed", "rolled back"} => ArcHolders(j) = {} /\ locked[j] = 0

\* engine.rs 58-76, datastore/mod.rs 87-100: the connection of a job's transaction
\* is given back in the end, however the job ends and whatever it left running, unless
\* a query stream of it stays open for ever or its worker is lost.
ConnectionsReturned ==
  \A j \in TxJob :
    [](txn[j] = "active" => <>(txn[j] # "active") \/ <>[]StreamOpen(j) \/ <>[](jpc = "lost"))

\* http.ts 70-142, engine.rs 58-76: a job whose handler ends its own work is
\* answered, unless the worker is lost before the handler runs (a connection or the
\* user could not be had), or it waits from some time on for the lock of a query
\* stream: one on the handler's transaction, or, before the handler runs, one that
\* code of an earlier job opened in the context of this one.
JobsAreAnswered ==
  [](jpc = "begin" => <>(jpc \in {"accept", "dead", "lost"}) \/ <>[]Stuck)

-----------------------------------------------------------------------------
(* The inductive invariant behind the safety properties.                   *)

\* Where the job loop is tells what the context of its job looks like.
LoopInv ==
  /\ rid = IF jpc = "accept" THEN 0 ELSE job
  /\ jpc # "accept" => job \in TxJob
  /\ jpc = "begin" \/ jpc = "dead" => txn[job] = "none"
  /\ jpc \in {"user", "handler", "commit", "lost"} => current[job]
  /\ jpc \notin {"accept", "respond"} => answer[job] = "none"
  /\ jpc = "rollback" => txn[job] \in {"active", "rolled back"}
  /\ jpc = "respond" => \/ answer[job] = "none" /\ txn[job] \in {"none", "committed"}
                        \/ answer[job] = "error" /\ txn[job] \in {"active", "rolled back"}

\* Only the job that is handled has a DataContext, and jobs to come have nothing.
ContextInv ==
  \A j \in TxJob :
    /\ current[j] => /\ j = job /\ txn[j] = "active"
                     /\ jpc \in {"user", "handler", "commit", "rollback", "lost"}
    /\ j > job => txn[j] = "none" /\ answer[j] = "none"

\* A transaction is active exactly as long as something refers to it.
HolderInv ==
  /\ \A j \in TxJob : txn[j] = "active" => current[j] \/ ArcHolders(j) # {}
  /\ \A o \in DOMAIN ops : InFlight(o) => ops[o].ctx \in TxJob /\ txn[ops[o].ctx] = "active"

\* The lock of a transaction and the operation that has it know each other.
LockInv ==
  /\ \A o \in DOMAIN ops : ops[o].pc = "locked" => locked[ops[o].ctx] = o
  /\ \A j \in TxJob : locked[j] # 0 =>
       locked[j] \in DOMAIN ops /\ ops[locked[j]].ctx = j /\ ops[locked[j]].pc = "locked"

\* What an operation of a handler did is in the transaction of its context, which
\* for an awaited one is that of its own job.
OpInv ==
  \A o \in DOMAIN ops :
    /\ ops[o].pc # "error" => ops[o].ctx \in TxJob
    /\ ops[o].awaited => ops[o].ctx = ops[o].by
    /\ ops[o].pc = "done" /\ ops[o].kind \in {"store", "delete"} => o \in written[ops[o].ctx]

\* The answers that were given.
AnswerInv ==
  \A j \in TxJob :
    /\ answer[j] = "ok" => txn[j] = "committed"
    /\ answer[j] = "error" => txn[j] \in {"active", "rolled back"} /\ ~current[j]

TxInv == TxTypeOK /\ LoopInv /\ ContextInv /\ HolderInv /\ LockInv /\ OpInv /\ AnswerInv
=============================================================================
