---------------------------- MODULE TaskPipeline ----------------------------
(***************************************************************************)
(* The processing of a satellite snapshot, from the upload to the saved    *)
(* result: the API (app/tasks_service/service.py), the Celery worker       *)
(* (app/tasks_service/workers.py), the PostgreSQL rows, the objects in S3  *)
(* and the messages in Redis (app/core/celery_app.py).                     *)
(*                                                                         *)
(* A row of processing_tasks is taken together with its image and the      *)
(* detections of the image: they are deleted with it (ON DELETE CASCADE).  *)
(* A database transaction is one step, except the two whose middle other   *)
(* transactions can see or block on: an upload (INSERT, store, COMMIT) and *)
(* the last transaction of the worker (UPDATE and SELECT, then COMMIT).    *)
(***************************************************************************)
EXTENDS Naturals, FiniteSets

CONSTANTS
  Tasks,      \* the ids of the snapshots that may be uploaded
  Users,      \* the accounts
  Owner,      \* Owner[t] is the account that uploads t
  Workers,    \* the pool processes of the Celery workers
  Handlers,   \* the concurrent requests of the API
  NoTask,     \* "no task": a value that is not an id
  Limit,      \* settings.max_saved_tasks
  Faults,     \* the kinds of faults the environment produces
  MaxFaults   \* a bound on their number, to keep the model finite

(***************************************************************************)
(* The faults.  A "sendUnsure" delivers a message once or twice and may    *)
(* still raise; a "timeout" is the visibility timeout of the Redis         *)
(* transport, which hands a message to a second worker while the first is  *)
(* still busy with it; a "dbDown" is a lost connection to the database.    *)
(***************************************************************************)
FaultKinds ==
  {"apiCrash", "sendUnsure", "workerCrash", "childLost", "timeout", "dbDown"}

ASSUME PipelineAssumption ==
  /\ Owner \in [Tasks -> Users]
  /\ NoTask \notin Tasks
  /\ IsFiniteSet(Workers) /\ IsFiniteSet(Handlers)
  /\ Limit \in Nat \ {0}
  /\ Faults \subseteq FaultKinds
  /\ MaxFaults \in Nat

VARIABLES
  files,    \* tasks whose snapshot is in the object storage
  users,    \* accounts that exist
  row,      \* committed rows of processing_tasks with what depends on them
  clock,    \* the last completed_at that was handed out
  queue,    \* queue[t]: messages for t ready for delivery
  orphans,  \* orphans[t]: messages delivered to a worker that died, unacked
  worker,   \* what each pool process does
  req,      \* what each request of the API is about to do
  budget    \* faults that may still happen

vars == <<files, users, row, clock, queue, orphans, worker, req, budget>>

-----------------------------------------------------------------------------
(* Rows, sessions and requests                                             *)

Status == {"none", "PENDING", "PROCESSING", "COMPLETED", "FAILED"}

(***************************************************************************)
(* progress keeps the values the worker writes, with 50 for every value    *)
(* between the windows; completed_at 0 is NULL; results counts the         *)
(* executions whose detections are stored with the image.                  *)
(***************************************************************************)
Row == [status : Status, progress : {0, 10, 30, 50, 70, 100},
        completed_at : Nat, error : {"null", "text"}, results : Nat]

NoRow == [status |-> "none", progress |-> 0, completed_at |-> 0,
          error |-> "null", results |-> 0]

NewRow == [NoRow EXCEPT !.status = "PENDING"]

(***************************************************************************)
(* seen is the task object of the worker's session.  It is loaded once and *)
(* not refreshed by a commit (expire_on_commit=False).  delivery says      *)
(* whether the broker still waits for this worker's ack.                   *)
(***************************************************************************)
Job == [pc : {"received", "started", "downloaded", "inferred", "flushed", "done"},
        task : Tasks, delivery : {"unacked", "restored"},
        seen : Row, victims : SUBSET Tasks]

Idle == [pc |-> "idle", task |-> NoTask, delivery |-> "restored",
         seen |-> NoRow, victims |-> {}]

Request == [op : {"commit", "send", "mark", "delete"}, task : Tasks]

NoRequest == [op |-> "idle", task |-> NoTask]

Init ==
  /\ files = {}
  /\ users = Users
  /\ row = [t \in Tasks |-> NoRow]
  /\ clock = 0
  /\ queue = [t \in Tasks |-> 0]
  /\ orphans = [t \in Tasks |-> 0]
  /\ worker = [w \in Workers |-> Idle]
  /\ req = [h \in Handlers |-> NoRequest]
  /\ budget = MaxFaults

Exists(t) == row[t].status # "none"

(* The UPDATE a session emits: the attributes that differ from what it     *)
(* loaded, on whatever the row holds by now.                               *)
Merge(r, old, new) ==
  [status       |-> IF new.status = old.status THEN r.status ELSE new.status,
   progress     |-> IF new.progress = old.progress THEN r.progress ELSE new.progress,
   completed_at |-> IF new.completed_at = old.completed_at
                    THEN r.completed_at ELSE new.completed_at,
   error        |-> IF new.error = old.error THEN r.error ELSE new.error,
   results      |-> r.results]

(* A row updated by a transaction that has not committed blocks the others. *)
Locked(t) == \E w \in Workers : worker[w].pc = "flushed" /\ worker[w].task = t

LockedByOther(w, t) ==
  \E v \in Workers \ {w} : worker[v].pc = "flushed" /\ worker[v].task = t

Fault(kind) == kind \in Faults /\ budget > 0 /\ budget' = budget - 1

-----------------------------------------------------------------------------
(* The API: create_task, delete_task, delete_account                       *)

(* Mutant: the row is committed although the storage kept nothing.         *)
UploadStoresNothing(h, t) ==
  /\ req[h] = NoRequest
  /\ t \notin files
  /\ Owner[t] \in users
  /\ req' = [req EXCEPT ![h] = [op |-> "commit", task |-> t]]
  /\ UNCHANGED <<files, users, row, clock, queue, orphans, worker, budget>>

(* create_task up to the upload.  A failed upload answers 503 and rolls    *)
(* back: nothing changes.                                                  *)
Upload(h, t) ==
  /\ req[h] = NoRequest
  /\ t \notin files
  /\ Owner[t] \in users
  /\ files' = files \union {t}
  /\ req' = [req EXCEPT ![h] = [op |-> "commit", task |-> t]]
  /\ UNCHANGED <<users, row, clock, queue, orphans, worker, budget>>

CommitTask(h) ==
  /\ req[h].op = "commit"
  /\ row' = [row EXCEPT ![req[h].task] = NewRow]
  /\ req' = [req EXCEPT ![h].op = "send"]
  /\ UNCHANGED <<files, users, clock, queue, orphans, worker, budget>>

Send(h) ==
  /\ req[h].op = "send"
  /\ queue' = [queue EXCEPT ![req[h].task] = @ + 1]
  /\ req' = [req EXCEPT ![h] = NoRequest]
  /\ UNCHANGED <<files, users, row, clock, orphans, worker, budget>>

SendFails(h) ==
  /\ req[h].op = "send"
  /\ req' = [req EXCEPT ![h].op = "mark"]
  /\ UNCHANGED <<files, users, row, clock, queue, orphans, worker, budget>>

(* A publish retried by the transport, or one whose reply is lost.         *)
SendUnsure(h) ==
  /\ Fault("sendUnsure")
  /\ req[h].op = "send"
  /\ \E copies \in 1..2 :
       queue' = [queue EXCEPT ![req[h].task] = @ + copies]
  /\ \E next \in {NoRequest, [req[h] EXCEPT !.op = "mark"]} :
       req' = [req EXCEPT ![h] = next]
  /\ UNCHANGED <<files, users, row, clock, orphans, worker>>

(* The except branch of create_task.  The task object still says PENDING   *)
(* and no error, so both columns are written, whatever they hold.          *)
MarkFailed(h) ==
  /\ req[h].op = "mark"
  /\ ~Locked(req[h].task)
  /\ row' = IF Exists(req[h].task)
            THEN [row EXCEPT ![req[h].task] =
                    [@ EXCEPT !.status = "FAILED", !.error = "text"]]
            ELSE row
  /\ req' = [req EXCEPT ![h] = NoRequest]
  /\ UNCHANGED <<files, users, clock, queue, orphans, worker, budget>>

(* delete_task reads the task and refuses (409) all but these two.         *)
CheckDelete(h, t) ==
  /\ req[h] = NoRequest
  /\ row[t].status \in {"PENDING", "FAILED"}
  /\ req' = [req EXCEPT ![h] = [op |-> "delete", task |-> t]]
  /\ UNCHANGED <<files, users, row, clock, queue, orphans, worker, budget>>

(* ... and deletes by id.                                                  *)
Delete(h) ==
  /\ req[h].op = "delete"
  /\ ~Locked(req[h].task)
  /\ row' = [row EXCEPT ![req[h].task] = NoRow]
  /\ req' = [req EXCEPT ![h] = NoRequest]
  /\ UNCHANGED <<files, users, clock, queue, orphans, worker, budget>>

(* delete_account and its cascade.  An upload that has inserted its row    *)
(* holds a lock on the account until it commits.                           *)
DeleteAccount(u) ==
  /\ u \in users
  /\ \A t \in Tasks : Owner[t] = u =>
       /\ ~Locked(t)
       /\ \A h \in Handlers : req[h] # [op |-> "commit", task |-> t]
  /\ users' = users \ {u}
  /\ row' = [t \in Tasks |-> IF Owner[t] = u THEN NoRow ELSE row[t]]
  /\ UNCHANGED <<files, clock, queue, orphans, worker, req, budget>>

(* The API process dies: its transaction is rolled back.                   *)
ApiCrash(h) ==
  /\ Fault("apiCrash")
  /\ req[h] # NoRequest
  /\ req' = [req EXCEPT ![h] = NoRequest]
  /\ UNCHANGED <<files, users, row, clock, queue, orphans, worker>>

-----------------------------------------------------------------------------
(* The worker: run_inference                                               *)

(* Mutant: only a PENDING task is processed.                               *)
AcceptsPending(t) == row[t].status = "PENDING"

(* The task is looked up, its status is not looked at.                     *)
Accepts(t) == Exists(t)

(* Delivery and the first SELECT.  A message whose task is gone is acked.  *)
Receive(w, t) ==
  /\ worker[w] = Idle
  /\ queue[t] > 0
  /\ queue' = [queue EXCEPT ![t] = @ - 1]
  /\ worker' = IF Accepts(t)
               THEN [worker EXCEPT ![w] =
                      [pc |-> "received", task |-> t, delivery |-> "unacked",
                       seen |-> [row[t] EXCEPT !.results = 0], victims |-> {}]]
               ELSE worker
  /\ UNCHANGED <<files, users, row, clock, orphans, req, budget>>

(* session.commit() after attributes of the task were set.  An UPDATE that *)
(* finds no row raises StaleDataError (see Fail); without a changed        *)
(* attribute there is no UPDATE.                                           *)
Save(w, from, to, new) ==
  /\ worker[w].pc = from
  /\ new # worker[w].seen => Exists(worker[w].task)
  /\ ~LockedByOther(w, worker[w].task)
  /\ row' = [row EXCEPT ![worker[w].task] = Merge(@, worker[w].seen, new)]
  /\ worker' = [worker EXCEPT ![w] = [@ EXCEPT !.pc = to, !.seen = new]]
  /\ UNCHANGED <<files, users, clock, queue, orphans, req, budget>>

(* Mutant: only the progress is written.                                   *)
StartKeepsStatus(w) ==
  Save(w, "received", "started", [worker[w].seen EXCEPT !.progress = 10])

Start(w) ==
  Save(w, "received", "started",
       [worker[w].seen EXCEPT !.status = "PROCESSING", !.progress = 10])

Download(w) ==
  /\ worker[w].task \in files
  /\ Save(w, "started", "downloaded", [worker[w].seen EXCEPT !.progress = 30])

(* on_progress: only a value above the one this session wrote last.        *)
Report(w) ==
  /\ worker[w].seen.progress < 50
  /\ Save(w, "downloaded", "downloaded", [worker[w].seen EXCEPT !.progress = 50])

Infer(w) ==
  Save(w, "downloaded", "inferred", [worker[w].seen EXCEPT !.progress = 70])

Saved(r, u) == {t \in Tasks : Owner[t] = u /\ r[t].status = "COMPLETED"}

(* Mutant: rows[limit + 1:].                                               *)
SurplusOffByOne(r, u) ==
  {t \in Saved(r, u) :
     Cardinality({x \in Saved(r, u) : r[x].completed_at > r[t].completed_at}) > Limit}

(* Mutant: order_by(completed_at) without desc().                          *)
SurplusNewest(r, u) ==
  {t \in Saved(r, u) :
     Cardinality({x \in Saved(r, u) : r[x].completed_at < r[t].completed_at}) >= Limit}

(* enforce_task_limit: the rows after the first Limit, newest first.       *)
Surplus(r, u) ==
  {t \in Saved(r, u) :
     Cardinality({x \in Saved(r, u) : r[x].completed_at > r[t].completed_at}) >= Limit}

(* Mutant: task.error is not cleared.                                      *)
CompletedKeepsError(task) ==
  [status |-> "COMPLETED", progress |-> 100, completed_at |-> clock + 1,
   error |-> task.error, results |-> task.results]

Completed(task) ==
  [status |-> "COMPLETED", progress |-> 100, completed_at |-> clock + 1,
   error |-> "null", results |-> task.results]

(* The last transaction up to the SELECT of enforce_task_limit, which      *)
(* flushes it: detections stored, task COMPLETED, extra tasks selected     *)
(* among the committed rows.  seen becomes the uncommitted row.            *)
Finish(w) ==
  LET t    == worker[w].task
      done == [Merge(row[t], worker[w].seen, Completed(worker[w].seen))
                 EXCEPT !.results = @ + 1]
  IN /\ worker[w].pc = "inferred"
     /\ Exists(t)
     /\ ~LockedByOther(w, t)
     /\ clock' = clock + 1
     /\ worker' = [worker EXCEPT ![w] =
                      [@ EXCEPT !.pc = "flushed", !.seen = done,
                                !.victims = Surplus([row EXCEPT ![t] = done], Owner[t])]]
     /\ UNCHANGED <<files, users, row, queue, orphans, req, budget>>

Commit(w) ==
  /\ worker[w].pc = "flushed"
  /\ \A x \in worker[w].victims : ~LockedByOther(w, x)
  /\ row' = [x \in Tasks |-> IF x \in worker[w].victims THEN NoRow
                             ELSE IF x = worker[w].task THEN worker[w].seen
                             ELSE row[x]]
  /\ worker' = [worker EXCEPT ![w].pc = "done"]
  /\ UNCHANGED <<files, users, clock, queue, orphans, req, budget>>

Running == {"received", "started", "downloaded", "inferred", "flushed"}

(* The except branch: rollback, reload, FAILED if the task still exists.   *)
(* completed_at and the detections of an earlier execution stay.           *)
Fail(w) ==
  /\ worker[w].pc \in Running
  /\ ~LockedByOther(w, worker[w].task)
  /\ row' = IF Exists(worker[w].task)
            THEN [row EXCEPT ![worker[w].task] =
                    [@ EXCEPT !.status = "FAILED", !.error = "text", !.progress = 0]]
            ELSE row
  /\ worker' = [worker EXCEPT ![w].pc = "done"]
  /\ UNCHANGED <<files, users, clock, queue, orphans, req, budget>>

(* Mutant: the ack is forgotten.                                           *)
AckForgotten(w) ==
  /\ worker[w].pc = "done"
  /\ orphans' = [orphans EXCEPT ![worker[w].task] = @ + 1]
  /\ worker' = [worker EXCEPT ![w] = Idle]
  /\ UNCHANGED <<files, users, row, clock, queue, req, budget>>

(* task_acks_late: the message is acked when run_inference has ended,      *)
(* normally or with an exception.                                          *)
Ack(w) ==
  /\ worker[w].pc = "done"
  /\ worker' = [worker EXCEPT ![w] = Idle]
  /\ UNCHANGED <<files, users, row, clock, queue, orphans, req, budget>>

-----------------------------------------------------------------------------
(* Faults of the worker and of the broker                                  *)

(* The except branch fails too: nothing is recorded, the message is acked. *)
FailUnrecorded(w) ==
  /\ Fault("dbDown")
  /\ worker[w].pc \in Running
  /\ worker' = [worker EXCEPT ![w].pc = "done"]
  /\ UNCHANGED <<files, users, row, clock, queue, orphans, req>>

(* Mutant: acked when it was received (no acks_late).                      *)
UnackedNever(w) == 0

(* Mutant: requeued once more by somebody else.                            *)
UnackedTwice(w) == 2

(* The messages the broker still holds for this worker.                    *)
Unacked(w) == IF worker[w].delivery = "unacked" THEN 1 ELSE 0

(* The worker dies: rollback, and the message stays unacked in Redis.      *)
CrashWorker(w) ==
  /\ Fault("workerCrash")
  /\ worker[w].pc # "idle"
  /\ orphans' = [orphans EXCEPT ![worker[w].task] = @ + Unacked(w)]
  /\ worker' = [worker EXCEPT ![w] = Idle]
  /\ UNCHANGED <<files, users, row, clock, queue, req>>

(* Only the pool process dies (out of memory): its parent acks the message *)
(* (task_reject_on_worker_lost is not set).                                *)
LoseChild(w) ==
  /\ Fault("childLost")
  /\ worker[w].pc \in Running
  /\ worker' = [worker EXCEPT ![w] = Idle]
  /\ UNCHANGED <<files, users, row, clock, queue, orphans, req>>

(* The visibility timeout passes while the worker is busy.                 *)
Timeout(w) ==
  /\ Fault("timeout")
  /\ worker[w].delivery = "unacked"
  /\ queue' = [queue EXCEPT ![worker[w].task] = @ + 1]
  /\ worker' = [worker EXCEPT ![w].delivery = "restored"]
  /\ UNCHANGED <<files, users, row, clock, orphans, req>>

(* Mutant: a message that is not waiting is restored.                      *)
RestoreAnything(t) ==
  /\ orphans' = [orphans EXCEPT ![t] = @ - 1]
  /\ queue' = [queue EXCEPT ![t] = @ + 1]
  /\ UNCHANGED <<files, users, row, clock, worker, req, budget>>

(* ... or after its worker died.                                           *)
Restore(t) ==
  /\ orphans[t] > 0
  /\ orphans' = [orphans EXCEPT ![t] = @ - 1]
  /\ queue' = [queue EXCEPT ![t] = @ + 1]
  /\ UNCHANGED <<files, users, row, clock, worker, req, budget>>

-----------------------------------------------------------------------------
(* The specification                                                       *)

HandlerStep(h) ==
  CommitTask(h) \/ Send(h) \/ SendFails(h) \/ MarkFailed(h) \/ Delete(h)

WorkerStep(w) ==
  \/ Start(w) \/ Download(w) \/ Report(w) \/ Infer(w)
  \/ Finish(w) \/ Commit(w) \/ Fail(w) \/ Ack(w)

WorkerFault(w) ==
  FailUnrecorded(w) \/ CrashWorker(w) \/ LoseChild(w) \/ Timeout(w)

Next ==
  \/ \E h \in Handlers :
       \/ HandlerStep(h) \/ SendUnsure(h) \/ ApiCrash(h)
       \/ \E t \in Tasks : Upload(h, t) \/ CheckDelete(h, t)
  \/ \E u \in Users : DeleteAccount(u)
  \/ \E w \in Workers :
       \/ WorkerStep(w) \/ WorkerFault(w)
       \/ \E t \in Tasks : Receive(w, t)
  \/ \E t \in Tasks : Restore(t)

Spec == Init /\ [][Next]_vars

(***************************************************************************)
(* A request that was begun is carried on, a worker process works on what  *)
(* it has and takes what is ready, the transport restores what timed out.  *)
(* Nothing is assumed of the users (Upload, CheckDelete, DeleteAccount) or *)
(* of the faults.                                                          *)
(***************************************************************************)
Fairness ==
  /\ \A h \in Handlers : WF_vars(HandlerStep(h))
  /\ \A w \in Workers : WF_vars(WorkerStep(w))
  /\ \A t \in Tasks : WF_vars(\E w \in Workers : Receive(w, t))
  /\ \A t \in Tasks : WF_vars(Restore(t))

FairSpec == Spec /\ Fairness

-----------------------------------------------------------------------------
(* Properties                                                              *)

(* Every variable keeps its shape: the columns of a row, the local state   *)
(* of run_inference, the requests of the API and the message counts.       *)
TypeOK ==
  /\ files \subseteq Tasks
  /\ users \subseteq Users
  /\ row \in [Tasks -> Row]
  /\ clock \in Nat
  /\ queue \in [Tasks -> Nat]
  /\ orphans \in [Tasks -> Nat]
  /\ worker \in [Workers -> Job \union {Idle}]
  /\ req \in [Handlers -> Request \union {NoRequest}]
  /\ budget \in 0..MaxFaults

(* The environments in which a message is never in two places: it is sent  *)
(* once and handed out again only after its worker died.                   *)
Serial == Faults \intersect {"timeout", "sendUnsure"} = {}

(* The environments in which every message is processed once at most.      *)
Undisturbed == Faults \intersect {"timeout", "sendUnsure", "workerCrash"} = {}

(* create_task stores the snapshot before its row is committed, and an     *)
(* account takes its rows along: no row lacks its file or its owner,       *)
(* whatever crashes in between.                                            *)
RowsAreBacked == \A t \in Tasks : Exists(t) => t \in files /\ Owner[t] \in users

(* What a client may conclude from the status it polls.  PENDING: no       *)
(* worker has touched the task.  COMPLETED: detections are stored, and     *)
(* unless two workers had the task at once, progress is 100 and the error  *)
(* of an earlier execution is cleared.  FAILED: progress is reset and an   *)
(* error is given.                                                         *)
StatusIsTruthful ==
  \A t \in Tasks :
    /\ row[t].status = "PENDING" => row[t] = NewRow
    /\ row[t].status = "COMPLETED" =>
         /\ row[t].results > 0
         /\ row[t].completed_at > 0
         /\ Serial => row[t].progress = 100 /\ row[t].error = "null"
    /\ row[t].status = "FAILED" /\ Serial =>
         row[t].progress = 0 /\ row[t].error = "text"

(* acks_late and the redelivery of a dead worker's message never put two   *)
(* processes on one task: a message is in the queue, orphaned, or with one *)
(* worker.                                                                 *)
OneExecution ==
  Serial =>
    \A t \in Tasks :
      /\ queue[t] + orphans[t] <= 1
      /\ queue[t] + orphans[t] = 1 => \A w \in Workers : worker[w].task # t
      /\ \A v, w \in Workers : worker[v].task = t /\ worker[w].task = t => v = w

Unsettled(t) == row[t].status \in {"PENDING", "PROCESSING"}

(* Somebody is still going to write the status of t.                       *)
Attended(t) ==
  \/ queue[t] + orphans[t] > 0
  \/ \E w \in Workers : worker[w].task = t /\ worker[w].pc # "done"
  \/ \E h \in Handlers : req[h].task = t /\ req[h].op \in {"send", "mark"}

(* Nothing sweeps the table, so a task that is not settled must have       *)
(* somebody who is going to settle it.  The crash of a worker does not     *)
(* break this; the crash of the API between COMMIT and send_task, a lost   *)
(* pool process and an unrecorded failure do.                              *)
NothingStranded ==
  Faults \subseteq {"workerCrash"} => \A t \in Tasks : Unsettled(t) => Attended(t)

(* An execution never removes the detections of an earlier one.  Every     *)
(* repeated set of detections is the price of a fault: a redelivery or a   *)
(* doubtful publish.                                                       *)
RepeatsNeedFaults == \A t \in Tasks : row[t].results + budget <= MaxFaults + 1

(* enforce_task_limit runs in the transaction that completes a task and    *)
(* does not see the others that are about to commit: the limit holds with  *)
(* one worker process, and each further one can exceed it by one task.     *)
SavedWithinLimit ==
  \A u \in Users : Cardinality(Saved(row, u)) < Limit + Cardinality(Workers)

(* A delete_task that slipped past its check takes a saved task.           *)
DeletesSaved == \E h \in Handlers : Delete(h) /\ row[req[h].task].status = "COMPLETED"

Newer(r, t, time) == {x \in Saved(r, Owner[t]) : r[x].completed_at > time}

(* What enforce_task_limit has selected is still surplus, counting the     *)
(* task that is about to be saved.                                         *)
VictimsAreSurplus ==
  \A w \in Workers : worker[w].pc = "flushed" =>
    \A t \in worker[w].victims : row[t].status = "COMPLETED" =>
      Cardinality(Newer(row, t, row[t].completed_at) \union {worker[w].task}) >= Limit

(* A saved task goes only with its account, by the request of its owner,   *)
(* or because Limit newer ones are saved.  Several workers that trim at    *)
(* once keep what they selected surplus; only the deletion of a saved task *)
(* between SELECT and COMMIT can spoil a selection.                        *)
LimitKeepsNewest ==
  [][Undisturbed /\ ~DeletesSaved /\ VictimsAreSurplus =>
       /\ VictimsAreSurplus'
       /\ \A t \in Tasks :
            row[t].status = "COMPLETED" /\ row'[t] = NoRow /\ Owner[t] \in users' =>
              Cardinality(Newer(row', t, row[t].completed_at)) >= Limit]_vars

(* The client stops polling at COMPLETED or FAILED: unless a message was   *)
(* delivered twice, such a task does not change any more, it can only be   *)
(* deleted.                                                                *)
SettledIsFinal ==
  [][Undisturbed =>
       \A t \in Tasks :
         row[t].status \in {"COMPLETED", "FAILED"} => row'[t] \in {row[t], NoRow}]_vars

(* delete_task: only PENDING or FAILED tasks can be deleted.               *)
DeletesOnlyIdleTasks ==
  [][\A h \in Handlers : Delete(h) =>
       row[req[h].task].status \notin {"PROCESSING", "COMPLETED"}]_vars

(* Although workers die, every task that is submitted is settled or        *)
(* deleted.                                                                *)
EverythingSettles == \A t \in Tasks : Unsettled(t) ~> ~Unsettled(t)

=============================================================================
