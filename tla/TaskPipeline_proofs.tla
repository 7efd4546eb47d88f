------------------------ MODULE TaskPipeline_proofs ------------------------
(* Theorems about TaskPipeline, for every set of tasks, accounts, workers  *)
(* and requests, every limit and every number of faults.                   *)
EXTENDS TaskPipeline, FiniteSetTheorems, TLAPS

-----------------------------------------------------------------------------
(* Type correctness                                                        *)

LEMMA MergeType ==
  ASSUME NEW r \in Row, NEW old \in Row, NEW new \in Row
  PROVE  Merge(r, old, new) \in Row
  BY DEF Merge, Row

LEMMA RowConstants == NoRow \in Row /\ NewRow \in Row
  BY DEF NoRow, NewRow, Row, Status

LEMMA FailedType ==
  ASSUME NEW r \in Row
  PROVE  /\ [r EXCEPT !.status = "FAILED", !.error = "text"] \in Row
         /\ [r EXCEPT !.status = "FAILED", !.error = "text", !.progress = 0] \in Row
  BY DEF Row, Status

LEMMA InitType == Init => TypeOK
  BY PipelineAssumption, RowConstants DEF Init, TypeOK

(* A worker or a request that is not idle has a task.                      *)
LEMMA BusyWorker ==
  ASSUME TypeOK, NEW w \in Workers, worker[w].pc # "idle"
  PROVE  worker[w] \in Job
  BY DEF TypeOK, Idle

LEMMA BusyRequest ==
  ASSUME TypeOK, NEW h \in Handlers, req[h].op # "idle"
  PROVE  req[h] \in Request
  BY DEF TypeOK, NoRequest

LEMMA HandlerType ==
  ASSUME TypeOK, NEW h \in Handlers,
         HandlerStep(h) \/ SendUnsure(h) \/ ApiCrash(h)
           \/ \E t \in Tasks : Upload(h, t) \/ CheckDelete(h, t)
  PROVE  TypeOK'
  <1> USE DEF TypeOK
  <1>1. CASE CommitTask(h)
    BY <1>1, RowConstants, BusyRequest DEF CommitTask, Request
  <1>2. CASE Send(h)
    BY <1>2, BusyRequest DEF Send, Request
  <1>3. CASE SendFails(h)
    BY <1>3, BusyRequest DEF SendFails, Request
  <1>4. CASE MarkFailed(h)
    <2>1. req[h].task \in Tasks
      BY <1>4, BusyRequest DEF MarkFailed, Request
    <2>2. QED
      BY <1>4, <2>1, FailedType DEF MarkFailed
  <1>5. CASE Delete(h)
    BY <1>5, RowConstants DEF Delete
  <1>6. CASE SendUnsure(h)
    <2>1. req[h] \in Request
      BY <1>6, BusyRequest DEF SendUnsure
    <2>2. [req[h] EXCEPT !.op = "mark"] \in Request
      BY <2>1 DEF Request
    <2>3. req' \in [Handlers -> Request \union {NoRequest}]
      BY <1>6, <2>2 DEF SendUnsure
    <2>4. queue' \in [Tasks -> Nat]
      <3>1. PICK copies \in 1..2 : queue' = [queue EXCEPT ![req[h].task] = @ + copies]
        BY <1>6 DEF SendUnsure
      <3>2. QED
        BY <2>1, <3>1 DEF Request
    <2>5. budget' \in 0..MaxFaults
      BY <1>6, PipelineAssumption DEF SendUnsure, Fault
    <2>6. QED
      BY <1>6, <2>3, <2>4, <2>5 DEF SendUnsure
  <1>7. CASE ApiCrash(h)
    BY <1>7, PipelineAssumption DEF ApiCrash, Fault
  <1>8. ASSUME NEW t \in Tasks, Upload(h, t)
        PROVE  TypeOK'
    BY <1>8 DEF Upload, Request
  <1>9. ASSUME NEW t \in Tasks, CheckDelete(h, t)
        PROVE  TypeOK'
    BY <1>9 DEF CheckDelete, Request
  <1>10. QED
    BY <1>1, <1>2, <1>3, <1>4, <1>5, <1>6, <1>7, <1>8, <1>9 DEF HandlerStep

LEMMA SaveType ==
  ASSUME TypeOK, NEW w \in Workers, worker[w] \in Job,
         NEW to \in {"started", "downloaded", "inferred"}, NEW new \in Row
  PROVE  /\ [row EXCEPT ![worker[w].task] = Merge(@, worker[w].seen, new)]
              \in [Tasks -> Row]
         /\ [worker EXCEPT ![w] = [@ EXCEPT !.pc = to, !.seen = new]]
              \in [Workers -> Job \union {Idle}]
  <1>1. Merge(row[worker[w].task], worker[w].seen, new) \in Row
    BY MergeType DEF TypeOK, Job
  <1>2. [worker[w] EXCEPT !.pc = to, !.seen = new] \in Job
    BY DEF Job
  <1>3. QED
    BY <1>1, <1>2 DEF TypeOK

LEMMA SeenType ==
  ASSUME NEW r \in Row
  PROVE  /\ [r EXCEPT !.results = 0] \in Row
         /\ [r EXCEPT !.status = "PROCESSING", !.progress = 10] \in Row
         /\ \A p \in {30, 50, 70} : [r EXCEPT !.progress = p] \in Row
         /\ [r EXCEPT !.results = @ + 1] \in Row
  <1>1. [r EXCEPT !.results = 0] \in Row
    BY DEF Row
  <1>2. [r EXCEPT !.status = "PROCESSING", !.progress = 10] \in Row
    BY DEF Row, Status
  <1>3. ASSUME NEW p \in {30, 50, 70}
        PROVE  [r EXCEPT !.progress = p] \in Row
    BY DEF Row
  <1>4. [r EXCEPT !.results = @ + 1] \in Row
    BY DEF Row
  <1>5. QED
    BY <1>1, <1>2, <1>3, <1>4

LEMMA CompletedType ==
  ASSUME NEW r \in Row, clock \in Nat
  PROVE  Completed(r) \in Row
  BY DEF Row, Status, Completed

LEMMA WorkerType ==
  ASSUME TypeOK, NEW w \in Workers, worker[w] \in Job, WorkerStep(w)
  PROVE  TypeOK'
  <1> DEFINE t == worker[w].task
  <1>1. t \in Tasks /\ worker[w].seen \in Row /\ row[t] \in Row
    BY DEF TypeOK, Job
  <1>2. CASE Start(w)
    <2>1. [worker[w].seen EXCEPT !.status = "PROCESSING", !.progress = 10] \in Row
      BY <1>1, SeenType
    <2>2. QED
      BY <1>2, <2>1, SaveType DEF Start, Save, TypeOK
  <1>3. CASE Download(w)
    <2>1. [worker[w].seen EXCEPT !.progress = 30] \in Row
      BY <1>1, SeenType
    <2>2. QED
      BY <1>3, <2>1, SaveType DEF Download, Save, TypeOK
  <1>4. CASE Report(w)
    <2>1. [worker[w].seen EXCEPT !.progress = 50] \in Row
      BY <1>1, SeenType
    <2>2. QED
      BY <1>4, <2>1, SaveType DEF Report, Save, TypeOK
  <1>5. CASE Infer(w)
    <2>1. [worker[w].seen EXCEPT !.progress = 70] \in Row
      BY <1>1, SeenType
    <2>2. QED
      BY <1>5, <2>1, SaveType DEF Infer, Save, TypeOK
  <1>6. CASE Finish(w)
    <2> DEFINE done == [Merge(row[t], worker[w].seen, Completed(worker[w].seen))
                          EXCEPT !.results = @ + 1]
               extra == Surplus([row EXCEPT ![t] = done], Owner[t])
    <2>1. done \in Row
      BY <1>1, SeenType, MergeType, CompletedType DEF TypeOK
    <2>2. extra \subseteq Tasks
      BY DEF Surplus, Saved
    <2>3. [worker[w] EXCEPT !.pc = "flushed", !.seen = done, !.victims = extra] \in Job
      BY <2>1, <2>2 DEF Job
    <2>4. QED
      BY <1>6, <2>3 DEF Finish, TypeOK
  <1>7. CASE Commit(w)
    <2>1. row' \in [Tasks -> Row]
      BY <1>1, <1>7, RowConstants DEF Commit, TypeOK
    <2>2. QED
      BY <1>7, <2>1 DEF Commit, TypeOK, Job
  <1>8. CASE Fail(w)
    <2>1. row' \in [Tasks -> Row]
      BY <1>1, <1>8, FailedType DEF Fail, TypeOK
    <2>2. QED
      BY <1>8, <2>1 DEF Fail, TypeOK, Job
  <1>9. CASE Ack(w)
    BY <1>9 DEF Ack, TypeOK
  <1>10. QED
    BY <1>2, <1>3, <1>4, <1>5, <1>6, <1>7, <1>8, <1>9 DEF WorkerStep

LEMMA WorkerFaultType ==
  ASSUME TypeOK, NEW w \in Workers, WorkerFault(w)
  PROVE  TypeOK'
  <1> USE DEF TypeOK
  <1>1. worker[w] \in Job
    BY BusyWorker
       DEF WorkerFault, FailUnrecorded, CrashWorker, LoseChild, Timeout, Running, Idle
  <1>2. budget' \in 0..MaxFaults
    BY PipelineAssumption
       DEF WorkerFault, FailUnrecorded, CrashWorker, LoseChild, Timeout, Fault
  <1>3. CASE FailUnrecorded(w)
    BY <1>1, <1>2, <1>3 DEF FailUnrecorded, Job
  <1>4. CASE CrashWorker(w)
    <2>1. Unacked(w) \in Nat
      BY DEF Unacked
    <2>2. QED
      BY <1>1, <1>2, <1>4, <2>1 DEF CrashWorker, Job
  <1>5. CASE LoseChild(w)
    BY <1>2, <1>5 DEF LoseChild
  <1>6. CASE Timeout(w)
    BY <1>1, <1>2, <1>6 DEF Timeout, Job
  <1>7. QED
    BY <1>3, <1>4, <1>5, <1>6 DEF WorkerFault

LEMMA ReceiveType ==
  ASSUME TypeOK, NEW w \in Workers, NEW t \in Tasks, Receive(w, t)
  PROVE  TypeOK'
  <1>1. [pc |-> "received", task |-> t, delivery |-> "unacked",
         seen |-> [row[t] EXCEPT !.results = 0], victims |-> {}] \in Job
    BY SeenType DEF Job, TypeOK
  <1>2. QED
    BY <1>1 DEF Receive, TypeOK

LEMMA NextType == TypeOK /\ [Next]_vars => TypeOK'
  <1> SUFFICES ASSUME TypeOK, [Next]_vars
               PROVE  TypeOK'
    OBVIOUS
  <1>1. ASSUME NEW u \in Users, DeleteAccount(u)
        PROVE  TypeOK'
    BY <1>1, RowConstants DEF DeleteAccount, TypeOK
  <1>2. ASSUME NEW t \in Tasks, Restore(t)
        PROVE  TypeOK'
    BY <1>2 DEF Restore, TypeOK
  <1>3. ASSUME NEW w \in Workers, WorkerStep(w)
        PROVE  TypeOK'
    <2>1. worker[w] \in Job
      BY <1>3, BusyWorker DEF WorkerStep, Start, Download, Report, Infer, Save,
                              Finish, Commit, Fail, Ack, Running
    <2>2. QED
      BY <1>3, <2>1, WorkerType
  <1>4. CASE UNCHANGED vars
    BY <1>4 DEF TypeOK, vars
  <1>5. QED
    BY <1>1, <1>2, <1>3, <1>4, HandlerType, WorkerFaultType, ReceiveType DEF Next

(* Whatever fails, every variable keeps its shape.                         *)
THEOREM TypeCorrect == Spec => []TypeOK
  BY InitType, NextType, PTL DEF Spec

-----------------------------------------------------------------------------
(* Every row has its file and its owner                                    *)

(* An upload that is about to commit has both; a lock is held on a row     *)
(* that exists, by one worker.                                             *)
UploadsAreBacked ==
  \A h \in Handlers :
    req[h].op = "commit" => req[h].task \in files /\ Owner[req[h].task] \in users

LocksAreExclusive ==
  \A w \in Workers :
    worker[w].pc = "flushed" =>
      /\ Exists(worker[w].task)
      /\ ~LockedByOther(w, worker[w].task)

Backed == RowsAreBacked /\ UploadsAreBacked /\ LocksAreExclusive

LEMMA InitBacked == Init => Backed
  BY DEF Init, Backed, RowsAreBacked, UploadsAreBacked, LocksAreExclusive,
         Exists, NoRow, NoRequest, Idle

(* Locks are kept by a step that takes none, changes no task of a worker   *)
(* that keeps one, and removes no locked row.                              *)
LEMMA LocksKept ==
  ASSUME LocksAreExclusive,
         \A w \in Workers : (worker[w].pc = "flushed")' =>
           worker[w].pc = "flushed" /\ worker'[w].task = worker[w].task,
         \A w \in Workers : (worker[w].pc = "flushed")' =>
           (Exists(worker[w].task) => Exists(worker[w].task)')
  PROVE  LocksAreExclusive'
  BY DEF LocksAreExclusive, LockedByOther

LEMMA HandlerBacked ==
  ASSUME TypeOK, Backed, NEW h \in Handlers,
         HandlerStep(h) \/ SendUnsure(h) \/ ApiCrash(h)
           \/ \E t \in Tasks : Upload(h, t) \/ CheckDelete(h, t)
  PROVE  Backed'
  <1> USE DEF Backed
  <1>1. worker' = worker /\ users' = users /\ files \subseteq files'
    BY DEF HandlerStep, SendUnsure, ApiCrash, Upload, CheckDelete,
           CommitTask, Send, SendFails, MarkFailed, Delete
  <1>2. \A t \in Tasks :
          Exists(t)' => Exists(t) \/ (t \in files /\ Owner[t] \in users)
    <2>1. CASE CommitTask(h)
      BY <2>1 DEF TypeOK, CommitTask, Exists, UploadsAreBacked
    <2>2. CASE MarkFailed(h)
      BY <2>2 DEF TypeOK, MarkFailed, Exists
    <2>3. CASE Delete(h)
      BY <2>3 DEF TypeOK, Delete, Exists, NoRow
    <2>4. QED
      BY <2>1, <2>2, <2>3
         DEF HandlerStep, SendUnsure, ApiCrash, Upload, CheckDelete, Send, SendFails, Exists
  <1>3. \A t \in Tasks : Locked(t) /\ Exists(t) => Exists(t)'
    <2>1. CASE CommitTask(h)
      BY <2>1 DEF TypeOK, CommitTask, Exists, NewRow
    <2>2. CASE MarkFailed(h)
      BY <2>2 DEF TypeOK, MarkFailed, Exists
    <2>3. CASE Delete(h)
      BY <2>3 DEF TypeOK, Delete, Exists
    <2>4. QED
      BY <2>1, <2>2, <2>3
         DEF HandlerStep, SendUnsure, ApiCrash, Upload, CheckDelete, Send, SendFails, Exists
  <1>4. RowsAreBacked'
    BY <1>1, <1>2 DEF RowsAreBacked
  <1>5. LocksAreExclusive'
    BY <1>1, <1>3, LocksKept, BusyWorker DEF Locked, Job
  <1>6. UploadsAreBacked'
    <2>1. \A g \in Handlers : (req[g].op = "commit")' =>
            \/ req'[g] = req[g]
            \/ req'[g].task \in files' /\ Owner[req'[g].task] \in users
      BY DEF HandlerStep, SendUnsure, ApiCrash, Upload, CheckDelete, TypeOK, NoRequest, Request,
             CommitTask, Send, SendFails, MarkFailed, Delete
    <2>2. QED
      BY <1>1, <2>1 DEF UploadsAreBacked
  <1>7. QED
    BY <1>4, <1>5, <1>6

(* Steps of a worker.  A commit of the session neither makes nor removes a *)
(* row.                                                                    *)
LEMMA SavedRow ==
  ASSUME NEW w \in Workers, TypeOK, worker[w] \in Job, NEW new \in Row,
         new # worker[w].seen => Exists(worker[w].task),
         new.status \in {worker[w].seen.status, "PROCESSING"}
  PROVE  Merge(row[worker[w].task], worker[w].seen, new).status = "none"
           <=> row[worker[w].task].status = "none"
  BY DEF Merge, Exists

LEMMA SaveKeepsRows ==
  ASSUME TypeOK, NEW w \in Workers, worker[w] \in Job,
         Start(w) \/ Download(w) \/ Report(w) \/ Infer(w)
  PROVE  \A x \in Tasks : row'[x].status = "none" <=> row[x].status = "none"
  <1> DEFINE t == worker[w].task
             seen == worker[w].seen
  <1>1. t \in Tasks /\ seen \in Row
    BY DEF Job
  <1>2. PICK new \in Row :
          /\ new # seen => Exists(t)
          /\ new.status \in {seen.status, "PROCESSING"}
          /\ row' = [row EXCEPT ![t] = Merge(@, seen, new)]
    <2>1. CASE Start(w)
      <3> DEFINE new == [seen EXCEPT !.status = "PROCESSING", !.progress = 10]
      <3>1. new \in Row /\ new.status = "PROCESSING"
        BY <1>1, SeenType DEF Row
      <3>2. QED
        BY <2>1, <3>1 DEF Start, Save
    <2>2. ASSUME NEW p \in {30, 50, 70}, 
                 NEW from \in {"started", "downloaded"}, NEW to \in {"downloaded", "inferred"},
                 Save(w, from, to, [seen EXCEPT !.progress = p])
          PROVE  \E new \in Row :
                   /\ new # seen => Exists(t)
                   /\ new.status \in {seen.status, "PROCESSING"}
                   /\ row' = [row EXCEPT ![t] = Merge(@, seen, new)]
      <3> DEFINE new == [seen EXCEPT !.progress = p]
      <3>1. new \in Row /\ new.status = seen.status
        <4>1. new \in Row
          BY <1>1, SeenType
        <4>2. new.status = seen.status
          BY <1>1 DEF Row
        <4>3. QED
          BY <4>1, <4>2
      <3>2. QED
        BY <2>2, <3>1 DEF Save
    <2>3. QED
      BY <2>1, <2>2 DEF Download, Report, Infer
  <1>3. QED
    BY <1>1, <1>2, SavedRow DEF TypeOK

LEMMA WorkerBacked ==
  ASSUME TypeOK, Backed, NEW w \in Workers, worker[w] \in Job, WorkerStep(w)
  PROVE  Backed'
  <1> USE DEF Backed
  <1> DEFINE t == worker[w].task
  <1>1. t \in Tasks /\ worker[w].seen \in Row /\ row[t] \in Row
    BY DEF TypeOK, Job
  <1>2. UNCHANGED <<files, users, req>>
    BY DEF WorkerStep, Start, Download, Report, Infer, Save, Finish, Commit, Fail, Ack
  <1>3. \A v \in Workers \ {w} : worker'[v] = worker[v]
    BY DEF TypeOK, WorkerStep, Start, Download, Report, Infer, Save, Finish, Commit, Fail, Ack
  <1>4. UploadsAreBacked'
    BY <1>2 DEF UploadsAreBacked
  <1>5. CASE Start(w) \/ Download(w) \/ Report(w) \/ Infer(w)
    <2>1. \A x \in Tasks : row'[x].status = "none" <=> row[x].status = "none"
      BY <1>5, SaveKeepsRows
    <2>2. worker'[w].pc # "flushed"
      <3>1. \A to \in {"started", "downloaded", "inferred"}, new \in Row :
              [worker[w] EXCEPT !.pc = to, !.seen = new].pc = to
        BY DEF Job
      <3>2. CASE Start(w)
        BY <1>1, <3>1, <3>2, SeenType DEF Start, Save, TypeOK
      <3>3. CASE Download(w)
        BY <1>1, <3>1, <3>3, SeenType DEF Download, Save, TypeOK
      <3>4. CASE Report(w)
        BY <1>1, <3>1, <3>4, SeenType DEF Report, Save, TypeOK
      <3>5. CASE Infer(w)
        BY <1>1, <3>1, <3>5, SeenType DEF Infer, Save, TypeOK
      <3>6. QED
        BY <1>5, <3>2, <3>3, <3>4, <3>5
    <2>3. RowsAreBacked'
      BY <1>2, <2>1 DEF RowsAreBacked, Exists
    <2>4. \A v \in Workers : (worker[v].pc = "flushed")' => worker[v].task \in Tasks
      BY <1>3, <2>2, BusyWorker DEF Job
    <2>5. LocksAreExclusive'
      BY <1>3, <2>1, <2>2, <2>4, LocksKept DEF Exists
    <2>6. QED
      BY <1>4, <2>3, <2>5
  <1>6. CASE Finish(w)
    <2>1. row' = row
      BY <1>6 DEF Finish
    <2>2. /\ worker'[w].pc = "flushed" /\ worker'[w].task = t
          /\ Exists(t) /\ ~LockedByOther(w, t)
      BY <1>6 DEF Finish, TypeOK, Job
    <2>3. LocksAreExclusive'
      BY <1>3, <2>1, <2>2 DEF LocksAreExclusive, LockedByOther, Exists
    <2>4. RowsAreBacked'
      BY <1>2, <2>1 DEF RowsAreBacked, Exists
    <2>5. QED
      BY <1>4, <2>3, <2>4
  <1>7. CASE Commit(w)
    <2>1. worker'[w].pc = "done" /\ worker[w].pc = "flushed"
      BY <1>7 DEF Commit, TypeOK, Job
    <2>2. Exists(t)
      BY <2>1 DEF LocksAreExclusive
    <2>3. \A x \in Tasks : Exists(x)' => Exists(x)
      BY <1>7, <2>2 DEF Commit, Exists, NoRow
    <2>4. ASSUME NEW v \in Workers \ {w}, (worker[v].pc = "flushed")'
          PROVE  Exists(worker[v].task)'
      <3>1. worker[v].pc = "flushed" /\ worker[v].task \in Tasks
        BY <1>3, <2>4, BusyWorker DEF Job
      <3>2. Exists(worker[v].task) /\ worker[v].task # t
        BY <2>1, <3>1 DEF LocksAreExclusive, LockedByOther
      <3>3. worker[v].task \notin worker[w].victims
        BY <1>7, <3>1 DEF Commit, LockedByOther
      <3>4. row'[worker[v].task] = row[worker[v].task]
        BY <1>7, <3>1, <3>2, <3>3 DEF Commit
      <3>5. QED
        BY <1>3, <3>2, <3>4 DEF Exists
    <2>5. LocksAreExclusive'
      BY <1>3, <2>1, <2>4 DEF LocksAreExclusive, LockedByOther
    <2>6. RowsAreBacked'
      BY <1>2, <2>3 DEF RowsAreBacked
    <2>7. QED
      BY <1>4, <2>5, <2>6
  <1>8. CASE Fail(w) \/ Ack(w)
    <2>1. worker'[w].pc # "flushed"
      BY <1>8 DEF Fail, Ack, TypeOK, Job, Idle
    <2>2. \A x \in Tasks : row'[x].status = "none" <=> row[x].status = "none"
      <3>1. CASE Ack(w)
        BY <3>1 DEF Ack
      <3>2. CASE Fail(w)
        <4>1. [row[t] EXCEPT !.status = "FAILED", !.error = "text", !.progress = 0].status
                = "FAILED"
          BY <1>1 DEF Row
        <4>2. QED
          BY <1>1, <3>2, <4>1 DEF Fail, TypeOK, Exists
      <3>3. QED
        BY <1>8, <3>1, <3>2
    <2>3. RowsAreBacked'
      BY <1>2, <2>2 DEF RowsAreBacked, Exists
    <2>4. \A v \in Workers : (worker[v].pc = "flushed")' => worker[v].task \in Tasks
      BY <1>3, <2>1, BusyWorker DEF Job
    <2>5. LocksAreExclusive'
      BY <1>3, <2>1, <2>2, <2>4, LocksKept DEF Exists
    <2>6. QED
      BY <1>4, <2>3, <2>5
  <1>9. QED
    BY <1>5, <1>6, <1>7, <1>8 DEF WorkerStep

LEMMA NextBacked == TypeOK /\ Backed /\ [Next]_vars => Backed'
  <1> SUFFICES ASSUME TypeOK, Backed, [Next]_vars
               PROVE  Backed'
    OBVIOUS
  <1> USE DEF Backed
  <1>1. ASSUME NEW u \in Users, DeleteAccount(u)
        PROVE  Backed'
    <2>1. \A h \in Handlers : req[h].op = "commit" =>
            /\ req[h].task \in Tasks
            /\ Owner[req[h].task] # u
      <3>1. ASSUME NEW h \in Handlers, req[h].op = "commit"
            PROVE  req[h].task \in Tasks /\ req[h] = [op |-> "commit", task |-> req[h].task]
        BY <3>1, BusyRequest DEF Request
      <3>2. QED
        BY <1>1, <3>1 DEF DeleteAccount
    <2>2. UploadsAreBacked'
      BY <1>1, <2>1 DEF UploadsAreBacked, DeleteAccount
    <2>3. RowsAreBacked'
      BY <1>1 DEF RowsAreBacked, DeleteAccount, Exists, NoRow
    <2>4. \A w \in Workers : worker[w].pc = "flushed" =>
            worker[w].task \in Tasks /\ Locked(worker[w].task)
      BY BusyWorker DEF Job, Locked
    <2>5. LocksAreExclusive'
      BY <1>1, <2>4, LocksKept DEF DeleteAccount, Exists
    <2>6. QED
      BY <2>2, <2>3, <2>5
  <1>2. ASSUME NEW t \in Tasks, Restore(t)
        PROVE  Backed'
    BY <1>2 DEF Restore, RowsAreBacked, UploadsAreBacked, LocksAreExclusive,
                LockedByOther, Exists
  <1>3. ASSUME NEW w \in Workers,
               WorkerFault(w) \/ \E t \in Tasks : Receive(w, t)
        PROVE  Backed'
    <2>1. UNCHANGED <<files, users, row, req>>
      BY <1>3 DEF WorkerFault, FailUnrecorded, CrashWorker, LoseChild, Timeout, Receive
    <2>2. \A v \in Workers : (worker[v].pc = "flushed")' =>
            worker[v].pc = "flushed" /\ worker'[v].task = worker[v].task
      BY <1>3 DEF WorkerFault, FailUnrecorded, CrashWorker, LoseChild, Timeout, Receive,
                  TypeOK, Job, Idle
    <2>3. LocksAreExclusive'
      BY <2>1, <2>2, LocksKept DEF Exists
    <2>4. QED
      BY <2>1, <2>3 DEF RowsAreBacked, UploadsAreBacked, Exists
  <1>4. ASSUME NEW w \in Workers, WorkerStep(w)
        PROVE  Backed'
    BY <1>4, BusyWorker, WorkerBacked
       DEF WorkerStep, Start, Download, Report, Infer, Save,
           Finish, Commit, Fail, Ack, Running
  <1>5. CASE UNCHANGED vars
    BY <1>5 DEF vars, RowsAreBacked, UploadsAreBacked, LocksAreExclusive,
                LockedByOther, Exists
  <1>6. QED
    BY <1>1, <1>2, <1>3, <1>4, <1>5, HandlerBacked DEF Next

(* The snapshot is stored before its row is visible, and accounts take     *)
(* their rows along: no row lacks its file or its owner.                   *)
THEOREM RowsAlwaysBacked == Spec => []RowsAreBacked
  <1>1. Backed => RowsAreBacked
    BY DEF Backed
  <1>2. QED
    BY <1>1, InitBacked, NextBacked, TypeCorrect, PTL DEF Spec

-----------------------------------------------------------------------------
(* A task has one message, with one owner                                  *)

(* Without doubtful publishes and timeouts the right to process a task is  *)
(* a token: it is created by the upload, and is in a request, in a message *)
(* or with a worker process, in one place at a time.                       *)
Submitting(h, t) == req[h].task = t /\ req[h].op \in {"commit", "send", "mark"}

OneToken(t) ==
  /\ queue[t] + orphans[t] <= 1
  /\ queue[t] + orphans[t] = 1 =>
       /\ \A w \in Workers : worker[w].task # t
       /\ \A h \in Handlers : ~Submitting(h, t)
  /\ \A v, w \in Workers : worker[v].task = t /\ worker[w].task = t => v = w
  /\ \A g, h \in Handlers : Submitting(g, t) /\ Submitting(h, t) => g = h
  /\ \A h \in Handlers, w \in Workers : Submitting(h, t) => worker[w].task # t
  /\ t \notin files =>
       /\ queue[t] + orphans[t] = 0
       /\ \A w \in Workers : worker[w].task # t
       /\ \A h \in Handlers : ~Submitting(h, t)

Tokens == Serial => \A t \in Tasks : OneToken(t)

LEMMA InitTokens == Init => Tokens
  BY PipelineAssumption DEF Init, Tokens, OneToken, Submitting, NoRequest, Idle

(* The token of t stays where it is, or is dropped.                        *)
LEMMA TokenStays ==
  ASSUME NEW t \in Tasks, OneToken(t),
         queue'[t] = queue[t], orphans'[t] = orphans[t],
         files \subseteq files',
         \A w \in Workers : worker'[w].task = t => worker[w].task = t,
         \A h \in Handlers : Submitting(h, t)' => Submitting(h, t)
  PROVE  OneToken(t)'
  BY DEF OneToken

LEMMA HandlerTokens ==
  ASSUME TypeOK, Serial, NEW t \in Tasks, OneToken(t), NEW h \in Handlers,
         HandlerStep(h) \/ SendUnsure(h) \/ ApiCrash(h)
           \/ \E x \in Tasks : Upload(h, x) \/ CheckDelete(h, x)
  PROVE  OneToken(t)'
  <1>1. ~SendUnsure(h)
    BY DEF SendUnsure, Fault, Serial
  <1>2. \A g \in Handlers \ {h} : Submitting(g, t)' <=> Submitting(g, t)
    BY <1>1 DEF HandlerStep, ApiCrash, Upload, CheckDelete, Submitting, TypeOK,
                CommitTask, Send, SendFails, MarkFailed, Delete
  <1>3. UNCHANGED <<worker, orphans>>
    BY <1>1 DEF HandlerStep, ApiCrash, Upload, CheckDelete,
                CommitTask, Send, SendFails, MarkFailed, Delete
  <1>4. CASE Send(h)
    <2>1. req[h] \in Request
      BY <1>4, BusyRequest DEF Send
    <2>2. CASE req[h].task = t
      <3>1. Submitting(h, t) /\ ~Submitting(h, t)'
        BY <1>4, <2>2 DEF Send, Submitting, TypeOK, NoRequest
      <3>2. queue'[t] = queue[t] + 1 /\ files' = files
        BY <1>4, <2>2 DEF Send, TypeOK
      <3>3. queue[t] = 0 /\ orphans[t] = 0 /\ t \in files
        BY <3>1 DEF OneToken, TypeOK
      <3>4. QED
        BY <1>2, <1>3, <3>1, <3>2, <3>3 DEF OneToken
    <2>3. CASE req[h].task # t
      <3>1. queue'[t] = queue[t] /\ ~Submitting(h, t)' /\ files' = files
        BY <1>4, <2>1, <2>3 DEF Send, Submitting, TypeOK, NoRequest, Request
      <3>2. QED
        BY <1>2, <1>3, <3>1, TokenStays
    <2>4. QED
      BY <2>2, <2>3
  <1>5. ASSUME NEW x \in Tasks, Upload(h, x)
        PROVE  OneToken(t)'
    <2>1. CASE x = t
      <3>1. t \notin files /\ files' = files \union {t} /\ queue' = queue
        BY <1>5, <2>1 DEF Upload
      <3>2. QED
        BY <1>2, <1>3, <3>1 DEF OneToken, TypeOK
    <2>2. CASE x # t
      <3>1. queue' = queue /\ files \subseteq files' /\ ~Submitting(h, t)'
        BY <1>5, <2>2 DEF Upload, Submitting, TypeOK
      <3>2. QED
        BY <1>2, <1>3, <3>1, TokenStays
    <2>3. QED
      BY <2>1, <2>2
  <1>6. CASE CommitTask(h) \/ SendFails(h)
    <2>1. Submitting(h, t)' => Submitting(h, t)
      BY <1>6, BusyRequest DEF CommitTask, SendFails, Submitting, TypeOK, Request
    <2>2. queue' = queue /\ files' = files
      BY <1>6 DEF CommitTask, SendFails
    <2>3. QED
      BY <1>2, <1>3, <2>1, <2>2, TokenStays
  <1>7. CASE MarkFailed(h) \/ Delete(h) \/ ApiCrash(h)
    <2>1. ~Submitting(h, t)'
      BY <1>7 DEF MarkFailed, Delete, ApiCrash, Submitting, TypeOK, NoRequest
    <2>2. queue' = queue /\ files' = files
      BY <1>7 DEF MarkFailed, Delete, ApiCrash
    <2>3. QED
      BY <1>2, <1>3, <2>1, <2>2, TokenStays
  <1>8. ASSUME NEW x \in Tasks, CheckDelete(h, x)
        PROVE  OneToken(t)'
    <2>1. queue' = queue /\ files' = files /\ ~Submitting(h, t)'
      BY <1>8 DEF CheckDelete, Submitting, TypeOK
    <2>2. QED
      BY <1>2, <1>3, <2>1, TokenStays
  <1>9. QED
    BY <1>1, <1>4, <1>5, <1>6, <1>7, <1>8 DEF HandlerStep

LEMMA WorkerKeepsTask ==
  ASSUME TypeOK, NEW w \in Workers, WorkerStep(w) \/ FailUnrecorded(w)
  PROVE  worker'[w].task \in {worker[w].task, NoTask}
  <1>1. worker[w] \in Job
    BY BusyWorker DEF WorkerStep, Start, Download, Report, Infer, Save,
                      Finish, Commit, Fail, Ack, FailUnrecorded, Running
  <1>2. \A pc \in {"started", "downloaded", "inferred"}, new \in Row :
          [worker[w] EXCEPT !.pc = pc, !.seen = new].task = worker[w].task
    BY <1>1 DEF Job
  <1>3. worker[w].seen \in Row
    BY <1>1 DEF Job
  <1>4. CASE Start(w)
    BY <1>2, <1>3, <1>4, SeenType DEF Start, Save, TypeOK
  <1>5. CASE Download(w)
    BY <1>2, <1>3, <1>5, SeenType DEF Download, Save, TypeOK
  <1>6. CASE Report(w)
    BY <1>2, <1>3, <1>6, SeenType DEF Report, Save, TypeOK
  <1>7. CASE Infer(w)
    BY <1>2, <1>3, <1>7, SeenType DEF Infer, Save, TypeOK
  <1>8. CASE Finish(w)
    <2>1. PICK done, extra :
            worker' = [worker EXCEPT ![w] =
                         [@ EXCEPT !.pc = "flushed", !.seen = done, !.victims = extra]]
      BY <1>8 DEF Finish
    <2>2. QED
      BY <1>1, <2>1 DEF TypeOK, Job
  <1>9. CASE Commit(w) \/ Fail(w) \/ FailUnrecorded(w)
    <2>1. worker' = [worker EXCEPT ![w].pc = "done"]
      BY <1>9 DEF Commit, Fail, FailUnrecorded
    <2>2. QED
      BY <1>1, <2>1 DEF TypeOK, Job
  <1>10. CASE Ack(w)
    BY <1>10 DEF Ack, TypeOK, Idle
  <1>11. QED
    BY <1>4, <1>5, <1>6, <1>7, <1>8, <1>9, <1>10 DEF WorkerStep

LEMMA WorkerTokens ==
  ASSUME TypeOK, Serial, NEW t \in Tasks, OneToken(t), NEW w \in Workers,
         WorkerStep(w) \/ WorkerFault(w) \/ \E x \in Tasks : Receive(w, x)
  PROVE  OneToken(t)'
  <1>1. ~Timeout(w)
    BY DEF Timeout, Fault, Serial
  <1>2. \A v \in Workers \ {w} : worker'[v] = worker[v]
    BY <1>1 DEF TypeOK, WorkerStep, Start, Download, Report, Infer, Save, Finish, Commit,
                Fail, Ack, WorkerFault, FailUnrecorded, CrashWorker, LoseChild, Receive
  <1>3. UNCHANGED <<files, req>>
    BY <1>1 DEF WorkerStep, Start, Download, Report, Infer, Save, Finish, Commit,
                Fail, Ack, WorkerFault, FailUnrecorded, CrashWorker, LoseChild, Receive
  <1>4. \A h \in Handlers : Submitting(h, t)' <=> Submitting(h, t)
    BY <1>3 DEF Submitting
  <1>5. CASE WorkerStep(w) \/ FailUnrecorded(w) \/ LoseChild(w)
    <2>1. worker'[w].task \in {worker[w].task, NoTask}
      BY <1>5, WorkerKeepsTask DEF LoseChild, TypeOK, Idle
    <2>2. UNCHANGED <<queue, orphans>>
      BY <1>5 DEF WorkerStep, Start, Download, Report, Infer, Save, Finish, Commit,
                  Fail, Ack, FailUnrecorded, LoseChild
    <2>3. QED
      BY <1>2, <1>3, <1>4, <2>1, <2>2, TokenStays, PipelineAssumption
  <1>6. CASE CrashWorker(w)
    <2>1. worker'[w].task = NoTask /\ queue' = queue /\ worker[w].task \in Tasks
      BY <1>6, BusyWorker DEF CrashWorker, TypeOK, Idle, Job
    <2>2. CASE worker[w].task = t
      <3>1. queue[t] = 0 /\ orphans[t] = 0
        BY <2>2 DEF OneToken, TypeOK
      <3>2. orphans'[t] \in {0, 1}
        BY <1>6, <2>2, <3>1 DEF CrashWorker, Unacked, TypeOK
      <3>3. \A v \in Workers : worker'[v].task # t
        BY <1>2, <2>1, <2>2, PipelineAssumption DEF OneToken
      <3>4. \A h \in Handlers : ~Submitting(h, t)
        BY <2>2 DEF OneToken
      <3>5. t \in files
        BY <2>2 DEF OneToken
      <3>6. QED
        BY <1>3, <1>4, <2>1, <3>1, <3>2, <3>3, <3>4, <3>5 DEF OneToken
    <2>3. CASE worker[w].task # t
      <3>1. orphans'[t] = orphans[t]
        BY <1>6, <2>1, <2>3 DEF CrashWorker, TypeOK
      <3>2. QED
        BY <1>2, <1>3, <1>4, <2>1, <3>1, TokenStays, PipelineAssumption
    <2>4. QED
      BY <2>2, <2>3
  <1>7. ASSUME NEW x \in Tasks, Receive(w, x)
        PROVE  OneToken(t)'
    <2>1. orphans' = orphans /\ queue[x] > 0 /\ worker'[w].task \in {x, NoTask}
      BY <1>7 DEF Receive, TypeOK, Idle
    <2>2. CASE x = t
      <3>1. queue[t] = 1 /\ orphans[t] = 0 /\ queue'[t] = 0
        BY <1>7, <2>1, <2>2 DEF OneToken, Receive, TypeOK
      <3>2. /\ \A v \in Workers : worker[v].task # t
            /\ \A h \in Handlers : ~Submitting(h, t)
            /\ t \in files
        BY <3>1 DEF OneToken
      <3>3. QED
        BY <1>2, <1>3, <1>4, <2>1, <3>1, <3>2 DEF OneToken
    <2>3. CASE x # t
      <3>1. queue'[t] = queue[t]
        BY <1>7, <2>3 DEF Receive, TypeOK
      <3>2. QED
        BY <1>2, <1>3, <1>4, <2>1, <2>3, <3>1, TokenStays, PipelineAssumption
    <2>4. QED
      BY <2>2, <2>3
  <1>8. QED
    BY <1>1, <1>5, <1>6, <1>7 DEF WorkerFault

LEMMA NextTokens == TypeOK /\ Tokens /\ [Next]_vars => Tokens'
  <1> SUFFICES ASSUME TypeOK, Serial, Tokens, [Next]_vars, NEW t \in Tasks
               PROVE  OneToken(t)'
    BY DEF Tokens, Serial
  <1>1. OneToken(t)
    BY DEF Tokens
  <1>2. ASSUME NEW x \in Tasks, Restore(x)
        PROVE  OneToken(t)'
    <2>1. queue'[t] + orphans'[t] = queue[t] + orphans[t]
      BY <1>2 DEF Restore, TypeOK
    <2>2. QED
      BY <1>1, <1>2, <2>1 DEF Restore, OneToken, Submitting
  <1>3. ASSUME NEW u \in Users, DeleteAccount(u)
        PROVE  OneToken(t)'
    BY <1>1, <1>3 DEF DeleteAccount, OneToken, Submitting
  <1>4. CASE UNCHANGED vars
    BY <1>1, <1>4 DEF vars, OneToken, Submitting
  <1>5. QED
    BY <1>1, <1>2, <1>3, <1>4, HandlerTokens, WorkerTokens DEF Next

(* However workers die and their messages are redelivered, a task has one  *)
(* message and is with one worker process at a time.                       *)
THEOREM OneExecutionHolds == Spec => []OneExecution
  <1>1. Tokens => OneExecution
    BY DEF Tokens, OneToken, OneExecution
  <1>2. QED
    BY <1>1, InitTokens, NextTokens, TypeCorrect, PTL DEF Spec

-----------------------------------------------------------------------------
(* What becomes of a task: what its status says, that somebody settles it, *)
(* that it stays settled, and how often and for how long its results are   *)
(* kept.                                                                   *)

-----------------------------------------------------------------------------
(* What the steps do, column by column                                     *)

LEMMA RowFacts ==
  /\ NoRow \in Row /\ NewRow \in Row
  /\ NoRow.status = "none" /\ NoRow.completed_at = 0 /\ NoRow.results = 0
  /\ NewRow.status = "PENDING" /\ NewRow.completed_at = 0 /\ NewRow.results = 0
  /\ NoRow.progress = 0 /\ NewRow.progress = 0
  /\ \A r \in Row : r.status \in Status /\ r.completed_at \in Nat /\ r.results \in Nat
  BY DEF NoRow, NewRow, Row, Status

(* The columns of a task that create_task's except branch marks FAILED.    *)
LEMMA MarkedFacts ==
  ASSUME NEW r \in Row, NEW m, m = [r EXCEPT !.status = "FAILED", !.error = "text"]
  PROVE  /\ m \in Row /\ m.status = "FAILED" /\ m.error = "text"
         /\ m.progress = r.progress /\ m.completed_at = r.completed_at
         /\ m.results = r.results
  BY FailedType DEF Row

(* ... and of one that run_inference's except branch marks FAILED.         *)
LEMMA FailedFacts ==
  ASSUME NEW r \in Row,
         NEW m, m = [r EXCEPT !.status = "FAILED", !.error = "text", !.progress = 0]
  PROVE  /\ m \in Row /\ m.status = "FAILED" /\ m.error = "text" /\ m.progress = 0
         /\ m.completed_at = r.completed_at /\ m.results = r.results
  BY FailedType DEF Row

LEMMA MergeFacts ==
  ASSUME NEW r \in Row, NEW old \in Row, NEW new \in Row
  PROVE  LET m == Merge(r, old, new)
         IN  /\ m \in Row
             /\ m.status = IF new.status = old.status THEN r.status ELSE new.status
             /\ m.progress = IF new.progress = old.progress THEN r.progress ELSE new.progress
             /\ m.completed_at = IF new.completed_at = old.completed_at
                                 THEN r.completed_at ELSE new.completed_at
             /\ m.error = IF new.error = old.error THEN r.error ELSE new.error
             /\ m.results = r.results
  BY MergeType DEF Merge

(* A session that changes nothing sends no UPDATE.                         *)
LEMMA MergeSame ==
  ASSUME NEW r \in Row, NEW new \in Row
  PROVE  Merge(r, new, new) = r
  BY DEF Merge, Row

SaveStep(w) == Start(w) \/ Download(w) \/ Report(w) \/ Infer(w)

(* What the commits between the delivery and the last transaction have in  *)
(* common: the session turns the status into PROCESSING first, and then    *)
(* writes nothing but the progress.                                        *)
Wrote(w, to, new) ==
  /\ worker[w].pc \in {"received", "started", "downloaded"}
  /\ new # worker[w].seen => Exists(worker[w].task)
  /\ ~LockedByOther(w, worker[w].task)
  /\ new.status = "PROCESSING" \/ new.status = worker[w].seen.status
  /\ worker[w].pc = "received" => new.status = "PROCESSING"
  /\ worker[w].pc # "received" => new.status = worker[w].seen.status
  /\ new.completed_at = worker[w].seen.completed_at
  /\ new.error = worker[w].seen.error
  /\ row' = [row EXCEPT ![worker[w].task] = Merge(row[worker[w].task], worker[w].seen, new)]
  /\ \A v \in Workers \ {w} : worker'[v] = worker[v]
  /\ worker'[w].pc = to /\ worker'[w].seen = new
  /\ worker'[w].task = worker[w].task
  /\ worker'[w].delivery = worker[w].delivery
  /\ worker'[w].victims = worker[w].victims
  /\ UNCHANGED <<files, users, clock, queue, orphans, req, budget>>

(* What a session object becomes when it starts, or reports progress.      *)
LEMMA ReportedFacts ==
  ASSUME NEW r \in Row
  PROVE  /\ LET s == [r EXCEPT !.status = "PROCESSING", !.progress = 10]
            IN  /\ s \in Row /\ s.status = "PROCESSING"
                /\ s.completed_at = r.completed_at /\ s.error = r.error
         /\ \A p \in {30, 50, 70} :
              LET s == [r EXCEPT !.progress = p]
              IN  /\ s \in Row /\ s.status = r.status
                  /\ s.completed_at = r.completed_at /\ s.error = r.error
  <1>1. LET s == [r EXCEPT !.status = "PROCESSING", !.progress = 10]
        IN  s.status = "PROCESSING" /\ s.completed_at = r.completed_at /\ s.error = r.error
    BY DEF Row
  <1>2. \A p \in {30, 50, 70} :
          LET s == [r EXCEPT !.progress = p]
          IN  /\ s.status = r.status
              /\ s.completed_at = r.completed_at /\ s.error = r.error
    BY DEF Row
  <1>3. QED
    BY <1>1, <1>2, SeenType

LEMMA SaveWrote ==
  ASSUME TypeOK, NEW w \in Workers, SaveStep(w)
  PROVE  /\ worker[w] \in Job
         /\ \E to \in {"started", "downloaded", "inferred"}, new \in Row : Wrote(w, to, new)
  <1>1. worker[w].pc \in {"received", "started", "downloaded"}
    BY DEF SaveStep, Start, Download, Report, Infer, Save
  <1>2. worker[w] \in Job /\ worker[w].seen \in Row
    BY <1>1, BusyWorker DEF Job
  <1>3. ASSUME NEW from \in {"received", "started", "downloaded"},
               NEW to \in {"started", "downloaded", "inferred"},
               NEW new \in Row, Save(w, from, to, new),
               from = "received" => new.status = "PROCESSING",
               from # "received" => new.status = worker[w].seen.status,
               new.completed_at = worker[w].seen.completed_at,
               new.error = worker[w].seen.error
        PROVE  Wrote(w, to, new)
    <2>1. LET j == [worker[w] EXCEPT !.pc = to, !.seen = new]
          IN  /\ j.pc = to /\ j.seen = new /\ j.task = worker[w].task
              /\ j.delivery = worker[w].delivery /\ j.victims = worker[w].victims
      BY <1>2 DEF Job
    <2>2. worker'[w] = [worker[w] EXCEPT !.pc = to, !.seen = new]
      BY <1>3 DEF Save, TypeOK
    <2>3. \A v \in Workers \ {w} : worker'[v] = worker[v]
      BY <1>3 DEF Save, TypeOK
    <2>4. QED
      BY <1>3, <2>1, <2>2, <2>3 DEF Save, Wrote
  <1>4. LET s == [worker[w].seen EXCEPT !.status = "PROCESSING", !.progress = 10]
        IN  /\ s \in Row /\ s.status = "PROCESSING"
            /\ s.completed_at = worker[w].seen.completed_at /\ s.error = worker[w].seen.error
    BY <1>2, ReportedFacts
  <1>5. \A p \in {30, 50, 70} :
          LET s == [worker[w].seen EXCEPT !.progress = p]
          IN  /\ s \in Row /\ s.status = worker[w].seen.status
              /\ s.completed_at = worker[w].seen.completed_at /\ s.error = worker[w].seen.error
    BY <1>2, ReportedFacts
  <1>6. CASE Start(w)
    BY <1>2, <1>3, <1>4, <1>6 DEF Start
  <1>7. CASE Download(w)
    BY <1>2, <1>3, <1>5, <1>7 DEF Download
  <1>8. CASE Report(w)
    BY <1>2, <1>3, <1>5, <1>8 DEF Report
  <1>9. CASE Infer(w)
    BY <1>2, <1>3, <1>5, <1>9 DEF Infer
  <1>10. QED
    BY <1>6, <1>7, <1>8, <1>9 DEF SaveStep

LEMMA FinishFacts ==
  ASSUME TypeOK, NEW w \in Workers, Finish(w)
  PROVE  LET t == worker[w].task
             s == worker[w].seen
             d == worker'[w].seen
         IN  /\ worker[w] \in Job /\ worker[w].pc = "inferred"
             /\ Exists(t) /\ ~LockedByOther(w, t)
             /\ \A v \in Workers \ {w} : worker'[v] = worker[v]
             /\ worker'[w].pc = "flushed" /\ worker'[w].task = t
             /\ worker'[w].delivery = worker[w].delivery
             /\ d.status = IF s.status = "COMPLETED" THEN row[t].status ELSE "COMPLETED"
             /\ d.progress = IF s.progress = 100 THEN row[t].progress ELSE 100
             /\ d.error = IF s.error = "null" THEN row[t].error ELSE "null"
             /\ d.completed_at = IF s.completed_at = clock + 1
                                 THEN row[t].completed_at ELSE clock + 1
             /\ d.results = row[t].results + 1
             /\ d \in Row
             /\ worker'[w].victims = Surplus([row EXCEPT ![t] = d], Owner[t])
             /\ clock' = clock + 1
             /\ UNCHANGED <<files, users, row, queue, orphans, req, budget>>
  <1> DEFINE t == worker[w].task
             s == worker[w].seen
             m == Merge(row[t], s, Completed(s))
             done == [m EXCEPT !.results = @ + 1]
             extra == Surplus([row EXCEPT ![t] = done], Owner[t])
             j == [worker[w] EXCEPT !.pc = "flushed", !.seen = done, !.victims = extra]
  <1>1. worker[w] \in Job /\ t \in Tasks /\ s \in Row /\ row[t] \in Row /\ clock \in Nat
    BY BusyWorker DEF Finish, Job, TypeOK
  <1>2. worker' = [worker EXCEPT ![w] = j]
    BY DEF Finish
  <1>3. Completed(s) \in Row
    BY <1>1, CompletedType
  <1>4. /\ m \in Row
        /\ m.status = IF s.status = "COMPLETED" THEN row[t].status ELSE "COMPLETED"
        /\ m.progress = IF s.progress = 100 THEN row[t].progress ELSE 100
        /\ m.error = IF s.error = "null" THEN row[t].error ELSE "null"
        /\ m.completed_at = IF s.completed_at = clock + 1
                            THEN row[t].completed_at ELSE clock + 1
        /\ m.results = row[t].results
    <2>1. /\ Completed(s).status = "COMPLETED" /\ Completed(s).progress = 100
          /\ Completed(s).error = "null" /\ Completed(s).completed_at = clock + 1
      BY DEF Completed
    <2> HIDE DEF s, t
    <2>2. QED
      BY <1>1, <1>3, <2>1, MergeFacts
  <1>5. /\ done \in Row /\ done.status = m.status /\ done.progress = m.progress
        /\ done.error = m.error /\ done.completed_at = m.completed_at
        /\ done.results = row[t].results + 1
    <2> HIDE DEF m, t
    <2>1. QED
      BY <1>1, <1>4 DEF Row
  <1>6. /\ j.pc = "flushed" /\ j.task = t /\ j.delivery = worker[w].delivery
        /\ j.seen = done /\ j.victims = extra
    <2> HIDE DEF done, extra
    <2>1. QED
      BY <1>1 DEF Job
  <1>7. worker'[w] = j /\ \A v \in Workers \ {w} : worker'[v] = worker[v]
    <2> HIDE DEF j
    <2>1. QED
      BY <1>2 DEF TypeOK
  <1>8. /\ worker[w].pc = "inferred" /\ Exists(t) /\ ~LockedByOther(w, t)
        /\ clock' = clock + 1
        /\ UNCHANGED <<files, users, row, queue, orphans, req, budget>>
    BY DEF Finish
  <1>9. worker'[w].victims = Surplus([row EXCEPT ![t] = worker'[w].seen], Owner[t])
    <2> HIDE DEF done, j
    <2>1. QED
      BY <1>6, <1>7
  <1> HIDE DEF done, extra, j, m
  <1>10. QED
    BY <1>1, <1>4, <1>5, <1>6, <1>7, <1>8, <1>9

(* run_inference ends: the process still has the message.                  *)
Ended(w) ==
  /\ \A v \in Workers \ {w} : worker'[v] = worker[v]
  /\ worker'[w].pc = "done"
  /\ worker'[w].task = worker[w].task
  /\ worker'[w].delivery = worker[w].delivery
  /\ worker'[w].seen = worker[w].seen
  /\ worker'[w].victims = worker[w].victims

LEMMA EndFacts ==
  ASSUME TypeOK, NEW w \in Workers, Commit(w) \/ Fail(w) \/ FailUnrecorded(w)
  PROVE  worker[w] \in Job /\ worker[w].pc \in Running /\ Ended(w)
  <1>1. worker[w].pc \in Running
    BY DEF Commit, Fail, FailUnrecorded, Running
  <1>2. worker[w] \in Job
    BY <1>1, BusyWorker DEF Running
  <1>3. worker' = [worker EXCEPT ![w] = [worker[w] EXCEPT !.pc = "done"]]
    BY DEF Commit, Fail, FailUnrecorded
  <1>4. LET j == [worker[w] EXCEPT !.pc = "done"]
        IN  /\ j.pc = "done" /\ j.task = worker[w].task /\ j.delivery = worker[w].delivery
            /\ j.seen = worker[w].seen /\ j.victims = worker[w].victims
    BY <1>2 DEF Job
  <1>5. QED
    BY <1>1, <1>2, <1>3, <1>4 DEF Ended, TypeOK

(* The rollback of a failed execution, and the status of its task.         *)
LEMMA FailRow ==
  ASSUME TypeOK, NEW w \in Workers, Fail(w), NEW t \in Tasks
  PROVE  \/ row'[t] = row[t] /\ (t = worker[w].task => ~Exists(t))
         \/ /\ t = worker[w].task /\ Exists(t)
            /\ row'[t] \in Row
            /\ row'[t].status = "FAILED" /\ row'[t].error = "text"
            /\ row'[t].progress = 0
            /\ row'[t].completed_at = row[t].completed_at
            /\ row'[t].results = row[t].results
  <1>1. worker[w] \in Job /\ worker[w].task \in Tasks /\ row[t] \in Row
    BY EndFacts DEF Job, TypeOK
  <1>2. CASE t = worker[w].task /\ Exists(t)
    <2>1. row'[t] = [row[t] EXCEPT !.status = "FAILED", !.error = "text", !.progress = 0]
      BY <1>1, <1>2 DEF Fail, TypeOK
    <2>2. QED
      BY <1>1, <1>2, <2>1, FailedFacts
  <1>3. CASE ~(t = worker[w].task /\ Exists(t))
    BY <1>1, <1>3 DEF Fail, TypeOK
  <1>4. QED
    BY <1>2, <1>3

LEMMA MarkRow ==
  ASSUME TypeOK, NEW h \in Handlers, MarkFailed(h), NEW t \in Tasks
  PROVE  \/ row'[t] = row[t] /\ (t = req[h].task => ~Exists(t))
         \/ /\ t = req[h].task /\ Exists(t)
            /\ row'[t] \in Row
            /\ row'[t].status = "FAILED" /\ row'[t].error = "text"
            /\ row'[t].progress = row[t].progress
            /\ row'[t].completed_at = row[t].completed_at
            /\ row'[t].results = row[t].results
  <1>1. req[h] \in Request /\ req[h].task \in Tasks /\ row[t] \in Row
    BY BusyRequest DEF MarkFailed, Request, TypeOK
  <1>2. CASE t = req[h].task /\ Exists(t)
    <2>1. row'[t] = [row[t] EXCEPT !.status = "FAILED", !.error = "text"]
      BY <1>1, <1>2 DEF MarkFailed, TypeOK
    <2>2. QED
      BY <1>1, <1>2, <2>1, MarkedFacts
  <1>3. CASE ~(t = req[h].task /\ Exists(t))
    BY <1>1, <1>3 DEF MarkFailed, TypeOK
  <1>4. QED
    BY <1>2, <1>3

LEMMA SaveRow ==
  ASSUME TypeOK, NEW w \in Workers, NEW t \in Tasks, worker[w] \in Job,
         NEW to, NEW new \in Row, Wrote(w, to, new)
  PROVE  /\ t # worker[w].task => row'[t] = row[t]
         /\ t = worker[w].task => row'[t] = Merge(row[t], worker[w].seen, new)
         /\ ~Exists(t) => row'[t] = row[t]
         /\ row'[t] \in Row
         /\ row'[t].completed_at = row[t].completed_at
         /\ row'[t].results = row[t].results
         /\ row'[t].status \in {row[t].status, "PROCESSING"}
  <1>1. worker[w].task \in Tasks /\ worker[w].seen \in Row /\ row[t] \in Row
    BY DEF Job, TypeOK
  <1>2. /\ t # worker[w].task => row'[t] = row[t]
        /\ t = worker[w].task => row'[t] = Merge(row[t], worker[w].seen, new)
    BY <1>1 DEF Wrote, TypeOK
  <1>3. ~Exists(t) /\ t = worker[w].task => row'[t] = row[t]
    BY <1>1, <1>2, MergeSame DEF Wrote
  <1>4. QED
    BY <1>1, <1>2, <1>3, MergeFacts DEF Wrote

(* A request changes req for itself alone.                                 *)
LEMMA RequestFacts ==
  ASSUME TypeOK, NEW h \in Handlers
  PROVE  /\ CommitTask(h) \/ Send(h) \/ SendFails(h) \/ SendUnsure(h) \/ MarkFailed(h)
              \/ Delete(h) => req[h] \in Request /\ req[h].task \in Tasks
         /\ HandlerStep(h) \/ SendUnsure(h) \/ ApiCrash(h)
              \/ (\E t \in Tasks : Upload(h, t) \/ CheckDelete(h, t)) =>
              \A g \in Handlers \ {h} : req'[g] = req[g]
         /\ CommitTask(h) => req'[h].op = "send" /\ req'[h].task = req[h].task
         /\ SendFails(h) => req'[h].op = "mark" /\ req'[h].task = req[h].task
         /\ SendUnsure(h) => \/ req'[h] = NoRequest
                             \/ req'[h].op = "mark" /\ req'[h].task = req[h].task
         /\ Send(h) \/ MarkFailed(h) \/ Delete(h) \/ ApiCrash(h) => req'[h] = NoRequest
         /\ \A t \in Tasks : Upload(h, t) => req'[h].op = "commit" /\ req'[h].task = t
         /\ \A t \in Tasks : CheckDelete(h, t) => req'[h].op = "delete" /\ req'[h].task = t
  <1>1. CommitTask(h) \/ Send(h) \/ SendFails(h) \/ SendUnsure(h) \/ MarkFailed(h)
          \/ Delete(h) => req[h] \in Request /\ req[h].task \in Tasks
    BY BusyRequest DEF CommitTask, Send, SendFails, SendUnsure, MarkFailed, Delete, Request
  <1>2. \A op \in {"send", "mark"} : req[h] \in Request =>
          LET q == [req[h] EXCEPT !.op = op]
          IN  q.op = op /\ q.task = req[h].task
    BY DEF Request
  <1>3. CommitTask(h) => req'[h].op = "send" /\ req'[h].task = req[h].task
    BY <1>1, <1>2 DEF CommitTask, TypeOK
  <1>4. SendFails(h) => req'[h].op = "mark" /\ req'[h].task = req[h].task
    BY <1>1, <1>2 DEF SendFails, TypeOK
  <1>5. SendUnsure(h) => \/ req'[h] = NoRequest
                         \/ req'[h].op = "mark" /\ req'[h].task = req[h].task
    BY <1>1, <1>2 DEF SendUnsure, TypeOK
  <1>6. Send(h) \/ MarkFailed(h) \/ Delete(h) \/ ApiCrash(h) => req'[h] = NoRequest
    BY DEF Send, MarkFailed, Delete, ApiCrash, TypeOK
  <1>7. /\ \A t \in Tasks : Upload(h, t) => req'[h].op = "commit" /\ req'[h].task = t
        /\ \A t \in Tasks : CheckDelete(h, t) => req'[h].op = "delete" /\ req'[h].task = t
    BY DEF Upload, CheckDelete, TypeOK
  <1>8. HandlerStep(h) \/ SendUnsure(h) \/ ApiCrash(h)
          \/ (\E t \in Tasks : Upload(h, t) \/ CheckDelete(h, t)) =>
          \A g \in Handlers \ {h} : req'[g] = req[g]
    BY DEF HandlerStep, CommitTask, Send, SendFails, MarkFailed, Delete, SendUnsure,
           ApiCrash, Upload, CheckDelete, TypeOK
  <1>9. QED
    BY <1>1, <1>3, <1>4, <1>5, <1>6, <1>7, <1>8

-----------------------------------------------------------------------------
(* A task that is not committed yet is known to its upload alone           *)

Untouched(t) ==
  /\ row[t] = NoRow
  /\ queue[t] = 0 /\ orphans[t] = 0
  /\ \A w \in Workers : worker[w].task # t

FreshTask(t) ==
  /\ t \notin files => Untouched(t) /\ \A h \in Handlers : ~Submitting(h, t)
  /\ \A h \in Handlers : req[h].op = "commit" /\ req[h].task = t =>
       /\ t \in files /\ Untouched(t)
       /\ \A g \in Handlers \ {h} : ~Submitting(g, t)

Fresh == \A t \in Tasks : FreshTask(t)

LEMMA InitFresh == Init => Fresh
  BY PipelineAssumption
     DEF Init, Fresh, FreshTask, Untouched, Submitting, NoRequest, Idle

LEMMA FreshStays ==
  ASSUME NEW t \in Tasks, FreshTask(t),
         t \in files' <=> t \in files,
         Untouched(t) => Untouched(t)',
         \A h \in Handlers : Submitting(h, t)' => Submitting(h, t),
         \A h \in Handlers : (req[h].op = "commit" /\ req[h].task = t)' =>
           req[h].op = "commit" /\ req[h].task = t
  PROVE  FreshTask(t)'
  BY DEF FreshTask

LEMMA HandlerFresh ==
  ASSUME TypeOK, NEW t \in Tasks, FreshTask(t), NEW h \in Handlers,
         HandlerStep(h) \/ SendUnsure(h) \/ ApiCrash(h)
           \/ \E x \in Tasks : Upload(h, x) \/ CheckDelete(h, x)
  PROVE  FreshTask(t)'
  <1>1. \A g \in Handlers \ {h} : req'[g] = req[g]
    BY RequestFacts
  <1>2. CASE CommitTask(h) \/ Send(h) \/ SendUnsure(h)
    <2>1. req[h].task \in Tasks /\ req[h].op \in {"commit", "send"} /\ files' = files
      BY <1>2, RequestFacts DEF CommitTask, Send, SendUnsure
    <2>2. (req'[h].task = req[h].task \/ req'[h] = NoRequest) /\ req'[h].op # "commit"
      BY <1>2, RequestFacts DEF NoRequest
    <2>3. CASE req[h].task = t
      <3>1. Submitting(h, t)
        BY <2>1, <2>3 DEF Submitting
      <3>2. t \in files
        BY <3>1 DEF FreshTask
      <3>3. \A g \in Handlers \ {h} : ~(req[g].op = "commit" /\ req[g].task = t)
        BY <3>1 DEF FreshTask
      <3>4. QED
        BY <1>1, <2>1, <2>2, <3>2, <3>3 DEF FreshTask
    <2>4. CASE req[h].task # t
      <3>1. ~Submitting(h, t)'
        BY <2>2, <2>4, PipelineAssumption DEF Submitting, NoRequest
      <3>2. Untouched(t) => Untouched(t)'
        BY <1>2, <2>1, <2>4 DEF CommitTask, Send, SendUnsure, Untouched, TypeOK
      <3>3. QED
        BY <1>1, <2>1, <2>2, <3>1, <3>2, FreshStays DEF Submitting
    <2>5. QED
      BY <2>3, <2>4
  <1>3. CASE SendFails(h) \/ MarkFailed(h) \/ Delete(h) \/ ApiCrash(h)
             \/ \E x \in Tasks : CheckDelete(h, x)
    <2>1. UNCHANGED <<files, queue, orphans, worker>>
      BY <1>3 DEF SendFails, MarkFailed, Delete, ApiCrash, CheckDelete
    <2>2. row[t] = NoRow => row'[t] = NoRow
      <3>1. CASE MarkFailed(h)
        BY <3>1, MarkRow DEF NoRow, Exists
      <3>2. CASE Delete(h)
        BY <3>2, RequestFacts DEF Delete, TypeOK
      <3>3. QED
        BY <1>3, <3>1, <3>2 DEF SendFails, ApiCrash, CheckDelete
    <2>3. Untouched(t) => Untouched(t)'
      BY <2>1, <2>2 DEF Untouched
    <2>4. Submitting(h, t)' => Submitting(h, t)
      BY <1>3, RequestFacts DEF Submitting, NoRequest, SendFails
    <2>5. req'[h].op # "commit"
      BY <1>3, RequestFacts DEF NoRequest
    <2>6. QED
      BY <1>1, <2>1, <2>3, <2>4, <2>5, FreshStays DEF Submitting
  <1>4. ASSUME NEW x \in Tasks, Upload(h, x)
        PROVE  FreshTask(t)'
    <2>1. /\ x \notin files /\ files' = files \union {x}
          /\ UNCHANGED <<row, queue, orphans, worker>>
          /\ req'[h].op = "commit" /\ req'[h].task = x
      BY <1>4, RequestFacts DEF Upload
    <2>2. CASE x = t
      <3>1. Untouched(t)' /\ \A g \in Handlers \ {h} : ~Submitting(g, t)'
        BY <1>1, <2>1, <2>2 DEF FreshTask, Untouched, Submitting
      <3>2. QED
        BY <2>1, <2>2, <3>1 DEF FreshTask, Submitting
    <2>3. CASE x # t
      <3>1. Untouched(t) => Untouched(t)'
        BY <2>1 DEF Untouched
      <3>2. QED
        BY <1>1, <2>1, <2>3, <3>1, FreshStays DEF Submitting
    <2>4. QED
      BY <2>2, <2>3
  <1>5. QED
    BY <1>2, <1>3, <1>4 DEF HandlerStep

(* A process works on the task of a message, and changes the rows of its   *)
(* task and of the tasks it removes.                                       *)
LEMMA WorkerFresh ==
  ASSUME TypeOK, NEW t \in Tasks, FreshTask(t), NEW w \in Workers,
         WorkerStep(w) \/ WorkerFault(w) \/ \E x \in Tasks : Receive(w, x)
  PROVE  FreshTask(t)'
  <1>1. UNCHANGED <<files, req>>
    BY DEF WorkerStep, Start, Download, Report, Infer, Save, Finish, Commit, Fail, Ack,
           WorkerFault, FailUnrecorded, CrashWorker, LoseChild, Timeout, Receive
  <1>2. SUFFICES ASSUME Untouched(t)
                 PROVE  Untouched(t)'
    BY <1>1, FreshStays DEF Submitting
  <1>3. worker[w].task # t /\ row[t] = NoRow /\ queue[t] = 0 /\ orphans[t] = 0
    BY <1>2 DEF Untouched
  <1>4. CASE SaveStep(w)
    <2>1. PICK to \in {"started", "downloaded", "inferred"}, new \in Row : Wrote(w, to, new)
      BY <1>4, SaveWrote
    <2>2. row'[t] = NoRow
      BY <1>3, <1>4, <2>1, SaveWrote, SaveRow
    <2>3. QED
      BY <1>2, <1>3, <2>1, <2>2 DEF Wrote, Untouched
  <1>5. CASE Finish(w)
    <2>1. /\ worker'[w].task = worker[w].task
          /\ \A v \in Workers \ {w} : worker'[v] = worker[v]
          /\ UNCHANGED <<row, queue, orphans>>
      BY <1>5, FinishFacts
    <2>2. QED
      BY <1>2, <2>1 DEF Untouched
  <1>6. CASE Commit(w) \/ Fail(w) \/ FailUnrecorded(w)
    <2>1. UNCHANGED <<queue, orphans>>
      BY <1>6 DEF Commit, Fail, FailUnrecorded
    <2>2. row'[t] = NoRow
      BY <1>3, <1>6, FailRow DEF Commit, FailUnrecorded
    <2>3. QED
      BY <1>2, <1>3, <1>6, <2>1, <2>2, EndFacts DEF Ended, Untouched
  <1>7. CASE Ack(w) \/ LoseChild(w)
    BY <1>2, <1>7, PipelineAssumption DEF Ack, LoseChild, Untouched, TypeOK, Idle
  <1>8. CASE CrashWorker(w)
    <2>1. worker[w].task \in Tasks
      BY <1>8, BusyWorker DEF CrashWorker, Job
    <2>2. QED
      BY <1>2, <1>3, <1>8, <2>1, PipelineAssumption DEF CrashWorker, Untouched, TypeOK, Idle
  <1>9. CASE Timeout(w)
    <2>1. worker[w] \in Job
      BY <1>9, BusyWorker DEF Timeout, TypeOK, Idle
    <2>2. worker'[w].task = worker[w].task
      BY <1>9, <2>1 DEF Timeout, TypeOK, Job
    <2>3. queue'[t] = queue[t]
      BY <1>3, <1>9, <2>1 DEF Timeout, TypeOK, Job
    <2>4. QED
      BY <1>2, <1>3, <1>9, <2>2, <2>3 DEF Timeout, Untouched, TypeOK
  <1>10. ASSUME NEW x \in Tasks, Receive(w, x)
         PROVE  Untouched(t)'
    <2>1. x # t
      BY <1>3, <1>10 DEF Receive
    <2>2. queue'[t] = queue[t] /\ worker'[w].task # t
      BY <1>3, <1>10, <2>1 DEF Receive, TypeOK
    <2>3. QED
      BY <1>2, <1>10, <2>2 DEF Receive, Untouched, TypeOK
  <1>11. QED
    BY <1>4, <1>5, <1>6, <1>7, <1>8, <1>9, <1>10 DEF WorkerStep, WorkerFault, SaveStep

LEMMA NextFresh == TypeOK /\ Fresh /\ [Next]_vars => Fresh'
  <1> SUFFICES ASSUME TypeOK, Fresh, [Next]_vars, NEW t \in Tasks
               PROVE  FreshTask(t)'
    BY DEF Fresh
  <1>1. FreshTask(t)
    BY DEF Fresh
  <1>2. ASSUME NEW u \in Users, DeleteAccount(u)
        PROVE  FreshTask(t)'
    BY <1>1, <1>2, FreshStays DEF DeleteAccount, Untouched, Submitting
  <1>3. ASSUME NEW x \in Tasks, Restore(x)
        PROVE  FreshTask(t)'
    <2>1. Untouched(t) => Untouched(t)'
      BY <1>3 DEF Restore, Untouched, TypeOK
    <2>2. QED
      BY <1>1, <1>3, <2>1, FreshStays DEF Restore, Submitting
  <1>4. CASE UNCHANGED vars
    BY <1>1, <1>4 DEF vars, FreshTask, Untouched, Submitting
  <1>5. QED
    BY <1>1, <1>2, <1>3, <1>4, HandlerFresh, WorkerFresh DEF Next

-----------------------------------------------------------------------------
(* What a status says, whatever goes wrong                                 *)

TruthfulRow(t) ==
  /\ row[t].status = "PENDING" => row[t] = NewRow
  /\ row[t].status = "COMPLETED" => row[t].results > 0 /\ row[t].completed_at > 0
  /\ row[t].completed_at <= clock

(* The session of a process knows no later time than the clock, and never  *)
(* takes a touched task for an untouched one.                              *)
TruthfulSession(w) ==
  worker[w].pc # "idle" =>
    /\ worker[w].seen.completed_at <= clock
    /\ worker[w].pc \in {"started", "downloaded", "inferred"} =>
         worker[w].seen.status = "PROCESSING"
    /\ worker[w].seen.status # "PENDING" => row[worker[w].task].status # "PENDING"
    /\ worker[w].pc = "flushed" =>
         /\ worker[w].seen.status = "COMPLETED"
         /\ worker[w].seen.results > 0
         /\ worker[w].seen.completed_at > 0

TruthfulRows == \A t \in Tasks : TruthfulRow(t)

TruthfulSessions == \A w \in Workers : TruthfulSession(w)

Truthful == TruthfulRows /\ TruthfulSessions

LEMMA InitTruthful == Init => Truthful
  BY DEF Init, Truthful, TruthfulRows, TruthfulSessions, TruthfulRow, TruthfulSession,
         NoRow, Idle

(* A status becomes PENDING only by the commit of an upload, of a task     *)
(* that no process knows.                                                  *)
PendingIsNew(t) ==
  row'[t].status = "PENDING" =>
    row[t].status = "PENDING" \/ \A w \in Workers : worker[w].task # t

LEMMA SessionStays ==
  ASSUME TypeOK, TruthfulSessions, clock' \in Nat, clock <= clock',
         \A t \in Tasks : PendingIsNew(t), NEW w \in Workers,
         worker'[w].pc \in {worker[w].pc, "done"}, worker'[w].task = worker[w].task,
         worker'[w].seen = worker[w].seen, worker'[w].pc # "idle" => worker[w].pc # "idle"
  PROVE  TruthfulSession(w)'
  <1>1. SUFFICES ASSUME worker[w].pc # "idle"
                 PROVE  TruthfulSession(w)'
    BY DEF TruthfulSession
  <1>2. worker[w].task \in Tasks /\ worker[w].seen.completed_at \in Nat
    BY <1>1, BusyWorker, RowFacts DEF Job
  <1>3. worker[w].seen.completed_at <= clock'
    BY <1>1, <1>2 DEF TypeOK, TruthfulSessions, TruthfulSession
  <1>4. worker[w].seen.status # "PENDING" => row'[worker[w].task].status # "PENDING"
    BY <1>1, <1>2 DEF TruthfulSessions, TruthfulSession, PendingIsNew
  <1>5. QED
    BY <1>1, <1>3, <1>4 DEF TruthfulSessions, TruthfulSession

LEMMA HandlerTruthful ==
  ASSUME TypeOK, Fresh, Truthful, NEW h \in Handlers,
         HandlerStep(h) \/ SendUnsure(h) \/ ApiCrash(h)
           \/ \E x \in Tasks : Upload(h, x) \/ CheckDelete(h, x)
  PROVE  Truthful'
  <1>1. worker' = worker /\ clock' = clock
    BY DEF HandlerStep, CommitTask, Send, SendFails, MarkFailed, Delete, SendUnsure,
           ApiCrash, Upload, CheckDelete
  <1>2. ASSUME NEW t \in Tasks
        PROVE  TruthfulRow(t)' /\ PendingIsNew(t)
    <2>1. TruthfulRow(t) /\ row[t] \in Row /\ clock \in Nat
      BY DEF Truthful, TruthfulRows, TypeOK
    <2>2. CASE row'[t] = row[t]
      BY <1>1, <2>1, <2>2 DEF TruthfulRow, PendingIsNew
    <2>3. CASE CommitTask(h) /\ row'[t] # row[t]
      <3>1. t = req[h].task /\ row'[t] = NewRow
        BY <2>3, RequestFacts DEF CommitTask, TypeOK
      <3>2. \A w \in Workers : worker[w].task # t
        BY <2>3, <3>1 DEF CommitTask, Fresh, FreshTask, Untouched
      <3>3. QED
        BY <1>1, <2>1, <3>1, <3>2, RowFacts DEF TruthfulRow, PendingIsNew
    <2>4. CASE MarkFailed(h)
      BY <1>1, <2>1, <2>4, MarkRow DEF TruthfulRow, PendingIsNew
    <2>5. CASE Delete(h) /\ row'[t] # row[t]
      <3>1. row'[t] = NoRow
        BY <2>5, RequestFacts DEF Delete, TypeOK
      <3>2. QED
        BY <1>1, <2>1, <3>1, RowFacts DEF TruthfulRow, PendingIsNew
    <2>6. QED
      BY <2>2, <2>3, <2>4, <2>5
         DEF HandlerStep, Send, SendFails, SendUnsure, ApiCrash, Upload, CheckDelete
  <1>3. \A w \in Workers : TruthfulSession(w)'
    BY <1>1, <1>2, SessionStays DEF TypeOK, Truthful
  <1>4. QED
    BY <1>2, <1>3 DEF Truthful, TruthfulRows, TruthfulSessions

LEMMA SaveTruthful ==
  ASSUME TypeOK, Truthful, NEW w \in Workers, SaveStep(w)
  PROVE  Truthful'
  <1> DEFINE k == worker[w].task
             s == worker[w].seen
  <1>1. PICK to \in {"started", "downloaded", "inferred"}, new \in Row : Wrote(w, to, new)
    BY SaveWrote
  <1>2. worker[w] \in Job /\ k \in Tasks /\ s \in Row /\ row[k] \in Row /\ clock' = clock
    BY <1>1, SaveWrote DEF Wrote, Job, TypeOK
  <1>3. /\ worker[w].pc \in {"received", "started", "downloaded"}
        /\ worker[w].pc # "received" => s.status = "PROCESSING"
        /\ s.status # "PENDING" => row[k].status # "PENDING"
        /\ s.completed_at <= clock
        /\ new.status = "PROCESSING"
    BY <1>1 DEF Wrote, Truthful, TruthfulSessions, TruthfulSession
  <1>4. row'[k].status # "PENDING"
    <2>1. row'[k] = Merge(row[k], s, new)
      BY <1>1, <1>2, SaveRow
    <2>2. QED
      BY <1>2, <1>3, <2>1, MergeFacts
  <1>5. ASSUME NEW t \in Tasks
        PROVE  TruthfulRow(t)' /\ PendingIsNew(t)
    <2>1. TruthfulRow(t)
      BY DEF Truthful, TruthfulRows
    <2>2. CASE t = k
      <3>1. /\ row'[t].completed_at = row[t].completed_at
            /\ row'[t].results = row[t].results
            /\ row'[t].status \in {row[t].status, "PROCESSING"}
        BY <1>1, <1>2, SaveRow
      <3>2. QED
        BY <1>2, <1>4, <2>1, <2>2, <3>1 DEF TruthfulRow, PendingIsNew
    <2>3. CASE t # k
      BY <1>1, <1>2, <2>1, <2>3, SaveRow DEF TruthfulRow, PendingIsNew
    <2>4. QED
      BY <2>2, <2>3
  <1>6. TruthfulSession(w)'
    BY <1>1, <1>2, <1>3, <1>4 DEF Wrote, TruthfulSession
  <1>7. ASSUME NEW v \in Workers \ {w}
        PROVE  TruthfulSession(v)'
    <2>1. worker'[v] = worker[v]
      BY <1>1 DEF Wrote
    <2>2. QED
      BY <1>2, <1>5, <2>1, SessionStays DEF TypeOK, Truthful
  <1>8. QED
    BY <1>5, <1>6, <1>7 DEF Truthful, TruthfulRows, TruthfulSessions

LEMMA FinishTruthful ==
  ASSUME TypeOK, Truthful, NEW w \in Workers, Finish(w)
  PROVE  Truthful'
  <1> DEFINE k == worker[w].task
             d == worker'[w].seen
  <1>1. /\ worker[w] \in Job /\ worker[w].pc = "inferred"
        /\ \A v \in Workers \ {w} : worker'[v] = worker[v]
        /\ worker'[w].pc = "flushed" /\ worker'[w].task = k
        /\ row' = row /\ clock' = clock + 1 /\ d.results = row[k].results + 1
    BY FinishFacts
  <1>2. k \in Tasks /\ row[k] \in Row /\ worker[w].seen \in Row /\ clock \in Nat
    BY <1>1 DEF Job, TypeOK
  <1>3. /\ worker[w].seen.status = "PROCESSING"
        /\ row[k].status # "PENDING"
        /\ worker[w].seen.completed_at <= clock
    BY <1>1 DEF Truthful, TruthfulSessions, TruthfulSession
  <1>4. d.status = "COMPLETED"
    BY <1>3, FinishFacts
  <1>5. d.completed_at = clock + 1
    <2>1. worker[w].seen.completed_at # clock + 1
      BY <1>2, <1>3, RowFacts
    <2>2. QED
      BY <2>1, FinishFacts
  <1>6. TruthfulSession(w)'
    BY <1>1, <1>2, <1>3, <1>4, <1>5, RowFacts DEF TruthfulSession
  <1>7. \A t \in Tasks : TruthfulRow(t)' /\ PendingIsNew(t)
    BY <1>1, <1>2, RowFacts DEF Truthful, TruthfulRows, TruthfulRow, PendingIsNew, TypeOK
  <1>8. \A v \in Workers \ {w} : TruthfulSession(v)'
    BY <1>1, <1>2, <1>7, SessionStays DEF Truthful
  <1>9. QED
    BY <1>6, <1>7, <1>8 DEF Truthful, TruthfulRows, TruthfulSessions

(* The row of a task after the last transaction.                           *)
LEMMA CommitRow ==
  ASSUME TypeOK, NEW w \in Workers, Commit(w), NEW t \in Tasks
  PROVE  row'[t] = IF t \in worker[w].victims THEN NoRow
                   ELSE IF t = worker[w].task THEN worker[w].seen ELSE row[t]
  BY DEF Commit

LEMMA EndTruthful ==
  ASSUME TypeOK, Truthful, NEW w \in Workers, Commit(w) \/ Fail(w) \/ FailUnrecorded(w)
  PROVE  Truthful'
  <1>1. worker[w] \in Job /\ worker[w].pc \in Running /\ Ended(w) /\ clock' = clock
    BY EndFacts DEF Commit, Fail, FailUnrecorded
  <1>2. worker[w].task \in Tasks /\ worker[w].seen \in Row /\ clock \in Nat
    BY <1>1 DEF Job, TypeOK
  <1>3. ASSUME NEW t \in Tasks
        PROVE  TruthfulRow(t)' /\ PendingIsNew(t)
    <2>1. TruthfulRow(t) /\ row[t] \in Row
      BY DEF Truthful, TruthfulRows, TypeOK
    <2>2. CASE Commit(w)
      <3>1. /\ worker[w].seen.status = "COMPLETED" /\ worker[w].seen.results > 0
            /\ worker[w].seen.completed_at > 0 /\ worker[w].seen.completed_at <= clock
        BY <2>2 DEF Commit, Truthful, TruthfulSessions, TruthfulSession
      <3>2. row'[t] \in {NoRow, worker[w].seen, row[t]}
        BY <2>2, CommitRow
      <3>3. QED
        BY <1>1, <1>2, <2>1, <3>1, <3>2, RowFacts DEF TruthfulRow, PendingIsNew
    <2>3. CASE Fail(w)
      BY <1>1, <2>1, <2>3, FailRow DEF TruthfulRow, PendingIsNew
    <2>4. CASE FailUnrecorded(w)
      BY <1>1, <2>1, <2>4 DEF FailUnrecorded, TruthfulRow, PendingIsNew
    <2>5. QED
      BY <2>2, <2>3, <2>4
  <1>4. \A v \in Workers : TruthfulSession(v)'
    BY <1>1, <1>2, <1>3, SessionStays DEF Truthful, Ended, Running
  <1>5. QED
    BY <1>3, <1>4 DEF Truthful, TruthfulRows, TruthfulSessions

LEMMA NextTruthful == TypeOK /\ Fresh /\ Truthful /\ [Next]_vars => Truthful'
  <1> SUFFICES ASSUME TypeOK, Fresh, Truthful, [Next]_vars
               PROVE  Truthful'
    OBVIOUS
  <1>1. ASSUME UNCHANGED <<row, clock>>
        PROVE  /\ TruthfulRows'
               /\ \A t \in Tasks : PendingIsNew(t)
               /\ clock' \in Nat /\ clock <= clock'
    BY <1>1 DEF Truthful, TruthfulRows, TruthfulRow, PendingIsNew, TypeOK
  <1>2. ASSUME NEW u \in Users, DeleteAccount(u)
        PROVE  Truthful'
    <2>1. worker' = worker /\ clock' = clock /\ clock \in Nat
      BY <1>2 DEF DeleteAccount, TypeOK
    <2>2. \A t \in Tasks : row'[t] \in {row[t], NoRow}
      BY <1>2 DEF DeleteAccount
    <2>3. \A t \in Tasks : TruthfulRow(t)' /\ PendingIsNew(t)
      BY <2>1, <2>2, RowFacts DEF Truthful, TruthfulRows, TruthfulRow, PendingIsNew
    <2>4. QED
      BY <2>1, <2>3, SessionStays DEF Truthful, TruthfulRows, TruthfulSessions
  <1>3. ASSUME NEW t \in Tasks, Restore(t)
        PROVE  Truthful'
    BY <1>1, <1>3, SessionStays DEF Restore, Truthful, TruthfulSessions
  <1>4. ASSUME NEW w \in Workers, Ack(w) \/ CrashWorker(w) \/ LoseChild(w)
        PROVE  Truthful'
    <2>1. /\ worker' = [worker EXCEPT ![w] = Idle]
          /\ UNCHANGED <<row, clock>>
      BY <1>4 DEF Ack, CrashWorker, LoseChild
    <2>2. \A v \in Workers \ {w} : TruthfulSession(v)'
      BY <1>1, <2>1, SessionStays DEF Truthful, TypeOK
    <2>3. worker'[w].pc = "idle"
      BY <2>1 DEF TypeOK, Idle
    <2>4. QED
      BY <1>1, <2>1, <2>2, <2>3 DEF Truthful, TruthfulSessions, TruthfulSession
  <1>5. ASSUME NEW w \in Workers, Timeout(w)
        PROVE  Truthful'
    <2>1. /\ worker' = [worker EXCEPT ![w] = [worker[w] EXCEPT !.delivery = "restored"]]
          /\ UNCHANGED <<row, clock>> /\ worker[w] \in Job
      BY <1>5, BusyWorker DEF Timeout, TypeOK, Idle
    <2>2. LET j == [worker[w] EXCEPT !.delivery = "restored"]
          IN  j.pc = worker[w].pc /\ j.task = worker[w].task /\ j.seen = worker[w].seen
      BY <2>1 DEF Job
    <2>3. \A v \in Workers : TruthfulSession(v)'
      BY <1>1, <2>1, <2>2, SessionStays DEF Truthful, TypeOK
    <2>4. QED
      BY <1>1, <2>1, <2>3 DEF Truthful, TruthfulSessions
  <1>6. ASSUME NEW w \in Workers, NEW t \in Tasks, Receive(w, t)
        PROVE  Truthful'
    <2>1. /\ \A v \in Workers \ {w} : worker'[v] = worker[v]
          /\ UNCHANGED <<row, clock>> /\ row[t] \in Row
      BY <1>6 DEF Receive, TypeOK
    <2>2. \A v \in Workers \ {w} : TruthfulSession(v)'
      BY <1>1, <2>1, SessionStays DEF Truthful
    <2>3. CASE worker' = worker
      BY <1>1, <2>1, <2>3, SessionStays DEF Truthful, TruthfulSessions
    <2>4. CASE worker' # worker
      <3>1. /\ worker'[w].pc = "received" /\ worker'[w].task = t
            /\ worker'[w].seen = [row[t] EXCEPT !.results = 0]
        BY <1>6, <2>4 DEF Receive, TypeOK
      <3>2. /\ worker'[w].seen.status = row[t].status
            /\ worker'[w].seen.completed_at = row[t].completed_at
        BY <2>1, <3>1 DEF Row
      <3>3. TruthfulSession(w)'
        BY <2>1, <3>1, <3>2 DEF Truthful, TruthfulRows, TruthfulRow, TruthfulSession
      <3>4. QED
        BY <1>1, <2>1, <2>2, <3>3 DEF Truthful, TruthfulSessions
    <2>5. QED
      BY <2>3, <2>4
  <1>7. CASE UNCHANGED vars
    BY <1>1, <1>7, SessionStays DEF vars, Truthful, TruthfulSessions
  <1>8. QED
    BY <1>2, <1>3, <1>4, <1>5, <1>6, <1>7, HandlerTruthful, SaveTruthful, FinishTruthful,
       EndTruthful DEF Next, WorkerStep, WorkerFault, SaveStep

-----------------------------------------------------------------------------
(* What a status says while one process at a time has a task               *)

SerialRow(t) ==
  /\ row[t].status = "COMPLETED" => row[t].progress = 100 /\ row[t].error = "null"
  /\ row[t].status = "FAILED" => row[t].progress = 0 /\ row[t].error = "text"

Agree(r, s) ==
  /\ r.status = s.status /\ r.progress = s.progress
  /\ r.completed_at = s.completed_at /\ r.error = s.error

(* The session, loaded once and never refreshed, is up to date.            *)
SerialSession(w) ==
  /\ worker[w].pc \in {"received", "started", "downloaded", "inferred"} /\
     Exists(worker[w].task) => Agree(row[worker[w].task], worker[w].seen)
  /\ worker[w].pc = "flushed" =>
       worker[w].seen.progress = 100 /\ worker[w].seen.error = "null"
  /\ worker[w].pc # "idle" => worker[w].delivery = "unacked"

Untried(t) == row[t] \in {NewRow, NoRow}

(* No process has touched a task whose message was not sent.               *)
SerialRequest(h) == req[h].op \in {"send", "mark"} => Untried(req[h].task)

OneWriter ==
  /\ \A t \in Tasks : SerialRow(t)
  /\ \A w \in Workers : SerialSession(w)
  /\ \A h \in Handlers : SerialRequest(h)

LEMMA InitOneWriter == Init => OneWriter
  BY DEF Init, OneWriter, SerialRow, SerialSession, SerialRequest, NoRow, Idle, NoRequest

Kept(t) == row'[t] \in {row[t], NoRow}

LEMMA KeptRow ==
  ASSUME NEW t \in Tasks, SerialRow(t), Kept(t)
  PROVE  SerialRow(t)'
  BY RowFacts DEF SerialRow, Kept

LEMMA KeptSession ==
  ASSUME TypeOK, NEW w \in Workers, SerialSession(w),
         worker'[w] = worker[w], worker[w].pc # "idle" => Kept(worker[w].task)
  PROVE  SerialSession(w)'
  BY RowFacts DEF SerialSession, Kept, Exists

LEMMA KeptRequest ==
  ASSUME NEW h \in Handlers, SerialRequest(h), req'[h] = req[h],
         req[h].op \in {"send", "mark"} => Kept(req[h].task)
  PROVE  SerialRequest(h)'
  BY DEF SerialRequest, Kept, Untried

LEMMA HandlerOneWriter ==
  ASSUME TypeOK, Serial, Tokens, OneWriter, NEW h \in Handlers,
         HandlerStep(h) \/ SendUnsure(h) \/ ApiCrash(h)
           \/ \E x \in Tasks : Upload(h, x) \/ CheckDelete(h, x)
  PROVE  OneWriter'
  <1> DEFINE k == req[h].task
  <1>1. /\ worker' = worker /\ \A g \in Handlers \ {h} : req'[g] = req[g]
        /\ ~SendUnsure(h)
    BY RequestFacts
       DEF HandlerStep, CommitTask, Send, SendFails, MarkFailed, Delete, SendUnsure,
           ApiCrash, Upload, CheckDelete, Fault, Serial
  <1>2. ASSUME NEW t \in Tasks, ~Kept(t)
        PROVE  /\ CommitTask(h) \/ MarkFailed(h)
               /\ t = k /\ Submitting(h, t) /\ OneToken(t)
    BY <1>2, MarkRow, RequestFacts
       DEF HandlerStep, CommitTask, Send, SendFails, MarkFailed, Delete, SendUnsure,
           ApiCrash, Upload, CheckDelete, Kept, TypeOK, Submitting, Tokens
  <1>3. ASSUME NEW t \in Tasks
        PROVE  SerialRow(t)'
    <2>1. CASE Kept(t)
      BY <2>1, KeptRow DEF OneWriter
    <2>2. CASE ~Kept(t) /\ CommitTask(h)
      BY <1>2, <2>2, RowFacts DEF CommitTask, TypeOK, SerialRow
    <2>3. CASE ~Kept(t) /\ MarkFailed(h)
      <3>1. t = k /\ Untried(t)
        BY <1>2, <2>3 DEF MarkFailed, OneWriter, SerialRequest
      <3>2. QED
        BY <2>3, <3>1, MarkRow, RowFacts DEF Kept, SerialRow, Untried
    <2>4. QED
      BY <1>2, <2>1, <2>2, <2>3
  <1>4. ASSUME NEW w \in Workers
        PROVE  SerialSession(w)'
    <2>1. worker[w].pc # "idle" => Kept(worker[w].task)
      <3>1. SUFFICES ASSUME worker[w].pc # "idle", ~Kept(worker[w].task)
                     PROVE  FALSE
        OBVIOUS
      <3>2. worker[w].task \in Tasks
        BY <3>1, BusyWorker DEF Job
      <3>3. QED
        BY <1>2, <3>1, <3>2 DEF OneToken
    <2>2. QED
      BY <1>1, <2>1, KeptSession DEF OneWriter
  <1>5. ASSUME NEW g \in Handlers \ {h}
        PROVE  SerialRequest(g)'
    <2>1. req[g].op \in {"send", "mark"} => Kept(req[g].task)
      <3>1. SUFFICES ASSUME req[g].op \in {"send", "mark"}, ~Kept(req[g].task)
                     PROVE  FALSE
        OBVIOUS
      <3>2. req[g].task \in Tasks
        BY <3>1, BusyRequest DEF Request
      <3>3. QED
        BY <1>2, <3>1, <3>2 DEF OneToken, Submitting
    <2>2. QED
      BY <1>1, <2>1, KeptRequest DEF OneWriter
  <1>6. SerialRequest(h)'
    <2>1. CASE CommitTask(h)
      BY <2>1, RequestFacts DEF CommitTask, SerialRequest, Untried, TypeOK
    <2>2. CASE SendFails(h)
      <3>1. req'[h].task = k /\ Untried(k) /\ row' = row
        BY <2>2, RequestFacts DEF SendFails, OneWriter, SerialRequest
      <3>2. QED
        BY <3>1 DEF SerialRequest, Untried
    <2>3. CASE ~CommitTask(h) /\ ~SendFails(h)
      <3>1. req'[h].op \notin {"send", "mark"}
        BY <1>1, <2>3, RequestFacts DEF HandlerStep, NoRequest
      <3>2. QED
        BY <3>1 DEF SerialRequest
    <2>4. QED
      BY <2>1, <2>2, <2>3
  <1>7. QED
    BY <1>3, <1>4, <1>5, <1>6 DEF OneWriter

(* A step of the one process that has a task disturbs no other session and *)
(* no request.                                                             *)
LEMMA OthersKept ==
  ASSUME TypeOK, Serial, Tokens, OneWriter, NEW w \in Workers, worker[w] \in Job,
         \A v \in Workers \ {w} : worker'[v] = worker[v], req' = req,
         \A t \in Tasks \ {worker[w].task} : Kept(t)
  PROVE  /\ \A t \in Tasks \ {worker[w].task} : SerialRow(t)'
         /\ \A v \in Workers \ {w} : SerialSession(v)'
         /\ \A h \in Handlers : SerialRequest(h)'
  <1>1. worker[w].task \in Tasks /\ OneToken(worker[w].task)
    BY DEF Job, Tokens
  <1>2. \A t \in Tasks \ {worker[w].task} : SerialRow(t)'
    BY KeptRow DEF OneWriter
  <1>3. ASSUME NEW v \in Workers \ {w}
        PROVE  SerialSession(v)'
    <2>1. worker[v].pc # "idle" => worker[v].task \in Tasks \ {worker[w].task}
      BY <1>1, BusyWorker DEF OneToken, Job
    <2>2. QED
      BY <2>1, KeptSession DEF OneWriter
  <1>4. ASSUME NEW h \in Handlers
        PROVE  SerialRequest(h)'
    <2>1. req[h].op \in {"send", "mark"} => req[h].task \in Tasks \ {worker[w].task}
      BY <1>1, BusyRequest DEF OneToken, Submitting, Request
    <2>2. QED
      BY <2>1, KeptRequest DEF OneWriter
  <1>5. QED
    BY <1>2, <1>3, <1>4

LEMMA SaveOneWriter ==
  ASSUME TypeOK, Serial, Tokens, Truthful, OneWriter, NEW w \in Workers, SaveStep(w)
  PROVE  OneWriter'
  <1> DEFINE s == worker[w].seen
  <1>0. PICK k \in Tasks : k = worker[w].task
    BY SaveWrote DEF Job
  <1>1. PICK to \in {"started", "downloaded", "inferred"}, new \in Row : Wrote(w, to, new)
    BY SaveWrote
  <1>2. worker[w] \in Job /\ k = worker[w].task /\ s \in Row /\ row[k] \in Row
    BY <1>0, <1>1, SaveWrote DEF Job, TypeOK
  <1>3. new.status = "PROCESSING" /\ worker[w].pc \in {"received", "started", "downloaded"}
    BY <1>1 DEF Wrote, Truthful, TruthfulSessions, TruthfulSession
  <1>4. /\ \A t \in Tasks \ {k} : SerialRow(t)'
        /\ \A v \in Workers \ {w} : SerialSession(v)'
        /\ \A h \in Handlers : SerialRequest(h)'
    <2>1. \A t \in Tasks \ {k} : Kept(t)
      BY <1>1, <1>2, SaveRow DEF Kept
    <2>2. QED
      BY <1>1, <1>2, <2>1, OthersKept DEF Wrote
  <1>5. CASE ~Exists(k)
    <2>1. row'[k] = row[k]
      BY <1>1, <1>2, <1>5, SaveRow
    <2>2. SerialRow(k)'
      BY <1>2, <2>1, KeptRow DEF OneWriter, Kept
    <2>3. SerialSession(w)'
      BY <1>1, <1>2, <1>3, <1>5, <2>1 DEF OneWriter, SerialSession, Wrote, Exists
    <2>4. QED
      BY <1>2, <1>4, <2>2, <2>3 DEF OneWriter
  <1>6. CASE Exists(k)
    <2>1. Agree(row[k], s)
      BY <1>2, <1>3, <1>6 DEF OneWriter, SerialSession
    <2>2. row'[k] = Merge(row[k], s, new)
      BY <1>1, <1>2, SaveRow
    <2>3. Agree(row'[k], new)
      BY <1>2, <2>1, <2>2, MergeFacts DEF Agree
    <2>4. SerialRow(k)'
      BY <1>3, <2>3 DEF SerialRow, Agree
    <2>5. SerialSession(w)'
      BY <1>1, <1>2, <1>3, <2>3 DEF OneWriter, SerialSession, Wrote
    <2>6. QED
      BY <1>2, <1>4, <2>4, <2>5 DEF OneWriter
  <1>7. QED
    BY <1>5, <1>6

LEMMA WorkerOneWriter ==
  ASSUME TypeOK, Serial, Tokens, Truthful, OneWriter, NEW w \in Workers,
         WorkerStep(w) \/ WorkerFault(w) \/ \E x \in Tasks : Receive(w, x)
  PROVE  OneWriter'
  <1>1. CASE Finish(w)
    <2>0. PICK k \in Tasks : k = worker[w].task
      BY <1>1, FinishFacts DEF Job
    <2>1. /\ worker[w] \in Job /\ worker[w].pc = "inferred"
          /\ k = worker[w].task /\ Exists(k)
          /\ \A v \in Workers \ {w} : worker'[v] = worker[v]
          /\ worker'[w].pc = "flushed" /\ worker'[w].delivery = worker[w].delivery
          /\ row' = row /\ req' = req
      BY <1>1, <2>0, FinishFacts
    <2>2. worker'[w].seen.progress = 100 /\ worker'[w].seen.error = "null"
      <3>1. Agree(row[k], worker[w].seen)
        BY <2>1 DEF OneWriter, SerialSession
      <3>2. QED
        BY <1>1, <2>1, <3>1, FinishFacts DEF Agree
    <2>3. SerialSession(w)'
      BY <2>1, <2>2 DEF OneWriter, SerialSession
    <2>4. SerialRow(k)'
      BY <2>1 DEF OneWriter, SerialRow
    <2>5. QED
      BY <2>1, <2>3, <2>4, OthersKept DEF OneWriter, Kept
  <1>2. CASE Commit(w) \/ Fail(w) \/ FailUnrecorded(w)
    <2>0. PICK k \in Tasks : k = worker[w].task
      BY <1>2, EndFacts DEF Job
    <2>1. /\ worker[w] \in Job /\ Ended(w) /\ req' = req /\ k = worker[w].task
          /\ worker[w].pc \in Running
      BY <1>2, <2>0, EndFacts DEF Commit, Fail, FailUnrecorded
    <2>2. \A t \in Tasks \ {k} : Kept(t)
      BY <1>2, <2>1, CommitRow, FailRow DEF Kept, FailUnrecorded
    <2>3. SerialRow(k)'
      <3>1. SerialRow(k)
        BY <2>1 DEF OneWriter
      <3>2. CASE Commit(w)
        BY <2>1, <3>1, <3>2, CommitRow, RowFacts
           DEF Commit, OneWriter, SerialSession, SerialRow, Truthful, TruthfulSessions,
               TruthfulSession
      <3>3. CASE Fail(w)
        BY <2>1, <3>1, <3>3, FailRow DEF SerialRow
      <3>4. CASE FailUnrecorded(w)
        BY <3>1, <3>4 DEF FailUnrecorded, SerialRow
      <3>5. QED
        BY <1>2, <3>2, <3>3, <3>4
    <2>4. SerialSession(w)'
      BY <2>1 DEF Ended, OneWriter, SerialSession, Running
    <2>5. QED
      BY <2>1, <2>2, <2>3, <2>4, OthersKept DEF Ended, OneWriter
  <1>3. CASE Ack(w) \/ CrashWorker(w) \/ LoseChild(w)
    <2>1. /\ worker' = [worker EXCEPT ![w] = Idle]
          /\ UNCHANGED <<row, req>>
      BY <1>3 DEF Ack, CrashWorker, LoseChild
    <2>2. SerialSession(w)'
      BY <2>1 DEF SerialSession, TypeOK, Idle
    <2>3. \A v \in Workers \ {w} : SerialSession(v)'
      BY <2>1, KeptSession DEF OneWriter, TypeOK, Kept
    <2>4. QED
      BY <2>1, <2>2, <2>3, KeptRow, KeptRequest DEF OneWriter, Kept
  <1>4. CASE Timeout(w)
    BY <1>4 DEF Timeout, Fault, Serial
  <1>5. ASSUME NEW t \in Tasks, Receive(w, t)
        PROVE  OneWriter'
    <2>1. /\ \A v \in Workers \ {w} : worker'[v] = worker[v]
          /\ UNCHANGED <<row, req>> /\ row[t] \in Row
      BY <1>5 DEF Receive, TypeOK
    <2>2. SerialSession(w)'
      <3>1. CASE worker' = worker
        BY <2>1, <3>1, KeptSession DEF OneWriter, Kept
      <3>2. CASE worker' # worker
        <4>1. /\ worker'[w].pc = "received" /\ worker'[w].task = t
              /\ worker'[w].delivery = "unacked"
              /\ worker'[w].seen = [row[t] EXCEPT !.results = 0]
          BY <1>5, <3>2 DEF Receive, TypeOK
        <4>2. Agree(row[t], worker'[w].seen)
          BY <2>1, <4>1 DEF Row, Agree
        <4>3. QED
          BY <2>1, <4>1, <4>2 DEF SerialSession
      <3>3. QED
        BY <3>1, <3>2
    <2>3. QED
      BY <2>1, <2>2, KeptRow, KeptSession, KeptRequest DEF OneWriter, Kept
  <1>6. QED
    BY <1>1, <1>2, <1>3, <1>4, <1>5, SaveOneWriter
       DEF WorkerStep, WorkerFault, SaveStep

Written == Serial => OneWriter

LEMMA NextWritten ==
  TypeOK /\ Tokens /\ Truthful /\ Written /\ [Next]_vars => Written'
  <1> SUFFICES ASSUME TypeOK, Serial, Tokens, Truthful, OneWriter, [Next]_vars
               PROVE  OneWriter'
    BY DEF Written, Serial
  <1>1. ASSUME worker' = worker, req' = req, \A t \in Tasks : Kept(t)
        PROVE  OneWriter'
    <2>1. \A w \in Workers : worker[w].pc # "idle" => Kept(worker[w].task)
      BY <1>1, BusyWorker DEF Job
    <2>2. \A h \in Handlers : req[h].op \in {"send", "mark"} => Kept(req[h].task)
      BY <1>1, BusyRequest DEF Request
    <2>3. QED
      BY <1>1, <2>1, <2>2, KeptRow, KeptSession, KeptRequest DEF OneWriter
  <1>2. ASSUME NEW u \in Users, DeleteAccount(u)
        PROVE  OneWriter'
    BY <1>1, <1>2 DEF DeleteAccount, Kept
  <1>3. ASSUME NEW t \in Tasks, Restore(t)
        PROVE  OneWriter'
    BY <1>1, <1>3 DEF Restore, Kept
  <1>4. CASE UNCHANGED vars
    BY <1>1, <1>4 DEF vars, Kept
  <1>5. QED
    BY <1>2, <1>3, <1>4, HandlerOneWriter, WorkerOneWriter DEF Next

(* What is known of every reachable state.                                 *)
Known == TypeOK /\ Backed /\ Tokens /\ Fresh /\ Truthful /\ Written

LEMMA AlwaysKnown == Spec => []Known
  <1>1. Init => Known
    BY InitType, InitBacked, InitTokens, InitFresh, InitTruthful, InitOneWriter
       DEF Known, Written
  <1>2. Known /\ [Next]_vars => Known'
    BY NextType, NextBacked, NextTokens, NextFresh, NextTruthful, NextWritten DEF Known
  <1>3. QED
    BY <1>1, <1>2, PTL DEF Spec

(* PENDING, COMPLETED and FAILED say of a task what a client reads in      *)
(* them, in every environment; and the progress and the error go with      *)
(* them where no message is delivered twice at once.                       *)
THEOREM StatusAlwaysTruthful == Spec => []StatusIsTruthful
  <1>1. Known => StatusIsTruthful
    BY DEF Known, Truthful, TruthfulRows, TruthfulRow, Written, OneWriter, SerialRow,
           StatusIsTruthful
  <1>2. QED
    BY <1>1, AlwaysKnown, PTL

-----------------------------------------------------------------------------
(* Somebody settles every task                                             *)

(* Who may give a row other contents: its upload, the except branch of its *)
(* upload, or the process that works on it.                                *)
LEMMA WhoWrites ==
  ASSUME TypeOK, Next, NEW t \in Tasks, ~Kept(t)
  PROVE  \/ \E h \in Handlers : req[h].task = t /\ (CommitTask(h) \/ MarkFailed(h))
         \/ \E w \in Workers : worker[w] \in Job /\ worker[w].task = t
                               /\ (SaveStep(w) \/ Commit(w) \/ Fail(w))
  <1>1. ASSUME NEW h \in Handlers,
               HandlerStep(h) \/ SendUnsure(h) \/ ApiCrash(h)
                 \/ \E x \in Tasks : Upload(h, x) \/ CheckDelete(h, x)
        PROVE  req[h].task = t /\ (CommitTask(h) \/ MarkFailed(h))
    BY <1>1, MarkRow, RequestFacts
       DEF HandlerStep, CommitTask, Send, SendFails, Delete, SendUnsure,
           ApiCrash, Upload, CheckDelete, Kept, TypeOK
  <1>2. ASSUME NEW w \in Workers,
               WorkerStep(w) \/ WorkerFault(w) \/ \E x \in Tasks : Receive(w, x)
        PROVE  worker[w] \in Job /\ worker[w].task = t
               /\ (SaveStep(w) \/ Commit(w) \/ Fail(w))
    <2>1. CASE SaveStep(w)
      <3>1. PICK to \in {"started", "downloaded", "inferred"}, new \in Row : Wrote(w, to, new)
        BY <2>1, SaveWrote
      <3>2. QED
        BY <2>1, <3>1, SaveWrote, SaveRow DEF Kept
    <2>2. CASE Commit(w)
      BY <2>2, CommitRow, EndFacts DEF Kept
    <2>3. CASE Fail(w)
      BY <2>3, FailRow, EndFacts DEF Kept
    <2>4. CASE ~SaveStep(w) /\ ~Commit(w) /\ ~Fail(w)
      <3>1. row' = row
        BY <1>2, <2>4 DEF WorkerStep, SaveStep, Finish, Ack, WorkerFault, FailUnrecorded,
                          CrashWorker, LoseChild, Timeout, Receive
      <3>2. QED
        BY <3>1 DEF Kept
    <2>5. QED
      BY <2>1, <2>2, <2>3, <2>4
  <1>3. ASSUME NEW u \in Users, DeleteAccount(u)
        PROVE  FALSE
    BY <1>3 DEF DeleteAccount, Kept
  <1>4. ASSUME NEW x \in Tasks, Restore(x)
        PROVE  FALSE
    BY <1>4 DEF Restore, Kept
  <1>5. QED
    BY <1>1, <1>2, <1>3, <1>4 DEF Next

(* Where at worst workers die.                                             *)
Calm == Faults \subseteq {"workerCrash"}

LEMMA CalmFacts ==
  Calm => /\ Serial
          /\ \A w \in Workers : ~Timeout(w) /\ ~LoseChild(w) /\ ~FailUnrecorded(w)
          /\ \A h \in Handlers : ~SendUnsure(h) /\ ~ApiCrash(h)
  BY DEF Calm, Serial, Timeout, LoseChild, FailUnrecorded, SendUnsure, ApiCrash, Fault

Watched(t) == Unsettled(t) => Attended(t)

(* A process that has ended leaves a settled task, and every other         *)
(* unsettled task has somebody who is going to settle it.                  *)
Settling ==
  /\ \A w \in Workers : worker[w].pc = "done" => ~Unsettled(worker[w].task)
  /\ \A t \in Tasks : Watched(t)

LEMMA InitSettling == Init => Settling
  BY DEF Init, Settling, Watched, Unsettled, NoRow, Idle

LEMMA KeptSettled ==
  ASSUME NEW t \in Tasks, Kept(t)
  PROVE  Unsettled(t)' => Unsettled(t)
  BY RowFacts DEF Kept, Unsettled

LEMMA WatchedStays ==
  ASSUME NEW t \in Tasks, Watched(t), Kept(t),
         queue[t] + orphans[t] > 0 => queue'[t] + orphans'[t] > 0,
         \A w \in Workers : worker[w].task = t /\ worker[w].pc # "done" =>
           worker'[w].task = t /\ worker'[w].pc # "done",
         \A h \in Handlers : req[h].task = t /\ req[h].op \in {"send", "mark"} =>
           req'[h].task = t /\ req'[h].op \in {"send", "mark"}
  PROVE  Watched(t)'
  BY KeptSettled DEF Watched, Attended

LEMMA HandlerSettling ==
  ASSUME Known, Calm, Settling, NEW h \in Handlers,
         HandlerStep(h) \/ SendUnsure(h) \/ ApiCrash(h)
           \/ \E x \in Tasks : Upload(h, x) \/ CheckDelete(h, x)
  PROVE  Settling'
  <1>1. /\ worker' = worker /\ orphans' = orphans
        /\ \A g \in Handlers \ {h} : req'[g] = req[g]
        /\ ~SendUnsure(h) /\ ~ApiCrash(h) /\ TypeOK /\ Serial /\ Next
    BY CalmFacts, RequestFacts
       DEF HandlerStep, CommitTask, Send, SendFails, MarkFailed, Delete, SendUnsure,
           ApiCrash, Upload, CheckDelete, Known, Next
  <1>2. ASSUME NEW t \in Tasks, ~Kept(t)
        PROVE  /\ req[h].task = t /\ Submitting(h, t)
               /\ CommitTask(h) \/ MarkFailed(h)
    BY <1>1, <1>2, MarkRow, RequestFacts
       DEF HandlerStep, CommitTask, Send, SendFails, MarkFailed, Delete,
           Upload, CheckDelete, Kept, TypeOK, Submitting
  <1>3. ASSUME NEW w \in Workers, worker'[w].pc = "done"
        PROVE  ~Unsettled(worker[w].task)'
    <2>1. worker[w].pc = "done" /\ worker[w].task \in Tasks /\ ~Unsettled(worker[w].task)
      BY <1>1, <1>3, BusyWorker DEF Job, Settling
    <2>2. Kept(worker[w].task)
      BY <1>1, <1>2, <2>1 DEF Known, Tokens, OneToken
    <2>3. QED
      BY <1>1, <2>1, <2>2, KeptSettled DEF Unsettled
  <1>4. ASSUME NEW t \in Tasks
        PROVE  Watched(t)'
    <2>1. Watched(t)
      BY DEF Settling
    <2>2. CASE CommitTask(h) /\ req[h].task = t
      BY <2>2, RequestFacts, <1>1 DEF Watched, Attended
    <2>3. CASE Send(h) /\ req[h].task = t
      <3>1. queue'[t] > 0 /\ orphans'[t] \in Nat
        BY <1>1, <2>3 DEF Send, TypeOK
      <3>2. queue'[t] \in Nat
        BY <1>1, <2>3 DEF Send, TypeOK
      <3>3. QED
        BY <3>1, <3>2 DEF Watched, Attended
    <2>4. CASE MarkFailed(h) /\ req[h].task = t
      BY <1>1, <2>4, MarkRow DEF Watched, Unsettled, Exists
    <2>5. CASE ~((CommitTask(h) \/ Send(h) \/ MarkFailed(h)) /\ req[h].task = t)
      <3>1. Kept(t)
        BY <1>2, <2>5
      <3>2. queue'[t] = queue[t]
        BY <1>1, <2>5, RequestFacts
           DEF HandlerStep, CommitTask, Send, SendFails, MarkFailed, Delete, Upload,
               CheckDelete, TypeOK
      <3>3. req[h].task = t /\ req[h].op \in {"send", "mark"} => SendFails(h)
        BY <1>1, <2>5 DEF HandlerStep, CommitTask, Delete, Upload, CheckDelete, NoRequest
      <3>4. QED
        BY <1>1, <2>1, <3>1, <3>2, <3>3, RequestFacts, WatchedStays
    <2>6. QED
      BY <2>2, <2>3, <2>4, <2>5
  <1>5. QED
    BY <1>3, <1>4 DEF Settling

LEMMA WorkerSettling ==
  ASSUME Known, Calm, Settling, NEW w \in Workers, Next,
         WorkerStep(w) \/ WorkerFault(w) \/ \E x \in Tasks : Receive(w, x)
  PROVE  Settling'
  <1>1. TypeOK /\ Serial /\ Tokens /\ Truthful /\ ~Timeout(w) /\ ~LoseChild(w)
          /\ ~FailUnrecorded(w)
    BY CalmFacts DEF Known
  <1>2. /\ \A v \in Workers \ {w} : worker'[v] = worker[v]
        /\ UNCHANGED <<req, files>>
    BY <1>1 DEF TypeOK, WorkerStep, Start, Download, Report, Infer, Save, Finish, Commit,
                Fail, Ack, WorkerFault, CrashWorker, Receive
  <1>3. ASSUME NEW t \in Tasks, ~Kept(t)
        PROVE  worker[w].task = t /\ (SaveStep(w) \/ Commit(w) \/ Fail(w))
    <2>1. CASE SaveStep(w)
      <3>1. PICK to \in {"started", "downloaded", "inferred"}, new \in Row : Wrote(w, to, new)
        BY <1>1, <2>1, SaveWrote
      <3>2. QED
        BY <1>1, <1>3, <2>1, <3>1, SaveWrote, SaveRow DEF Kept
    <2>2. CASE Commit(w) \/ Fail(w)
      BY <1>1, <1>3, <2>2, CommitRow, FailRow DEF Kept
    <2>3. CASE ~SaveStep(w) /\ ~Commit(w) /\ ~Fail(w)
      BY <1>1, <1>3, <2>3 DEF WorkerStep, SaveStep, Finish, Ack, WorkerFault, CrashWorker,
                              Receive, Kept
    <2>4. QED
      BY <2>1, <2>2, <2>3
  <1>4. ASSUME NEW t \in Tasks, worker[w].task = t, Commit(w) \/ Fail(w)
        PROVE  ~Unsettled(t)'
    <2>1. CASE Commit(w)
      <3>1. worker[w].pc = "flushed" /\ worker[w].seen.status = "COMPLETED"
        BY <1>1, <2>1 DEF Commit, Truthful, TruthfulSessions, TruthfulSession
      <3>2. row'[t] \in {NoRow, worker[w].seen}
        BY <1>1, <1>4, <2>1, CommitRow
      <3>3. QED
        BY <3>1, <3>2, RowFacts DEF Unsettled
    <2>2. CASE Fail(w)
      BY <1>1, <1>4, <2>2, FailRow DEF Unsettled, Exists
    <2>3. QED
      BY <1>4, <2>1, <2>2
  <1>5. ASSUME NEW v \in Workers, worker'[v].pc = "done"
        PROVE  ~Unsettled(worker[v].task)'
    <2>1. CASE v = w
      <3>1. Commit(w) \/ Fail(w)
        <4>1. ~SaveStep(w)
          BY <1>1, <1>5, <2>1, SaveWrote DEF Wrote
        <4>2. ~Finish(w)
          BY <1>1, <1>5, <2>1, FinishFacts
        <4>3. ~Ack(w) /\ ~CrashWorker(w)
          BY <1>1, <1>5, <2>1 DEF Ack, CrashWorker, TypeOK, Idle
        <4>4. ASSUME NEW x \in Tasks
              PROVE  ~Receive(w, x)
          BY <1>1, <1>5, <2>1 DEF Receive, TypeOK, Idle
        <4>5. QED
          BY <1>1, <4>1, <4>2, <4>3, <4>4 DEF WorkerStep, WorkerFault, SaveStep
      <3>2. worker'[w].task = worker[w].task /\ worker[w].task \in Tasks
        BY <1>1, <3>1, EndFacts DEF Ended, Job
      <3>3. QED
        BY <1>4, <2>1, <3>1, <3>2 DEF Unsettled
    <2>2. CASE v # w
      <3>1. worker'[v] = worker[v] /\ worker[v].task \in Tasks /\ ~Unsettled(worker[v].task)
        BY <1>1, <1>2, <1>5, <2>2, BusyWorker DEF Settling, Job
      <3>2. Kept(worker[v].task)
        BY <1>1, <1>3, <2>2, <3>1 DEF Tokens, OneToken
      <3>3. QED
        BY <3>1, <3>2, KeptSettled DEF Unsettled
    <2>3. QED
      BY <2>1, <2>2
  <1>6. ASSUME NEW t \in Tasks
        PROVE  Watched(t)'
    <2>1. Watched(t)
      BY DEF Settling
    <2>2. CASE SaveStep(w) \/ Finish(w)
      <3>1. /\ worker'[w].task = worker[w].task /\ worker'[w].pc # "done"
            /\ UNCHANGED <<queue, orphans>>
        BY <1>1, <2>2, SaveWrote, FinishFacts DEF Wrote
      <3>2. CASE worker[w].task = t
        BY <3>1, <3>2 DEF Watched, Attended
      <3>3. CASE worker[w].task # t
        BY <1>2, <1>3, <2>1, <3>1, <3>3, WatchedStays
      <3>4. QED
        BY <3>2, <3>3
    <2>3. CASE Commit(w) \/ Fail(w)
      <3>1. UNCHANGED <<queue, orphans>>
        BY <2>3 DEF Commit, Fail
      <3>2. CASE worker[w].task = t
        BY <1>4, <2>3, <3>2 DEF Watched
      <3>3. CASE worker[w].task # t
        BY <1>2, <1>3, <2>1, <3>1, <3>3, WatchedStays
      <3>4. QED
        BY <3>2, <3>3
    <2>4. CASE Ack(w)
      <3>1. UNCHANGED <<row, queue, orphans>> /\ worker[w].pc = "done"
        BY <2>4 DEF Ack
      <3>2. QED
        BY <1>2, <2>1, <3>1, WatchedStays DEF Kept
    <2>5. CASE CrashWorker(w)
      <3>1. worker[w] \in Job /\ worker[w].delivery = "unacked"
        BY <1>1, <2>5, BusyWorker DEF CrashWorker, Known, Written, OneWriter, SerialSession
      <3>2. /\ UNCHANGED <<row, queue>>
            /\ orphans'[t] = IF worker[w].task = t THEN orphans[t] + 1 ELSE orphans[t]
        BY <1>1, <2>5, <3>1 DEF CrashWorker, Unacked, TypeOK, Job
      <3>3. queue[t] \in Nat /\ orphans[t] \in Nat
        BY <1>1 DEF TypeOK
      <3>4. CASE worker[w].task = t
        BY <3>2, <3>3, <3>4 DEF Watched, Attended
      <3>5. CASE worker[w].task # t
        BY <1>2, <2>1, <3>2, <3>5, WatchedStays DEF Kept
      <3>6. QED
        BY <3>4, <3>5
    <2>6. ASSUME NEW x \in Tasks, Receive(w, x)
          PROVE  Watched(t)'
      <3>1. UNCHANGED <<row, orphans>> /\ worker[w] = Idle
        BY <2>6 DEF Receive
      <3>2. CASE x # t
        <4>1. queue'[t] = queue[t]
          BY <1>1, <2>6, <3>2 DEF Receive, TypeOK
        <4>2. worker[w].task # t
          BY <3>1, PipelineAssumption DEF Idle
        <4>3. QED
          BY <1>2, <2>1, <3>1, <4>1, <4>2, WatchedStays DEF Kept
      <3>3. CASE x = t /\ Accepts(x)
        <4>1. worker'[w].task = t /\ worker'[w].pc = "received"
          BY <1>1, <2>6, <3>3 DEF Receive, TypeOK
        <4>2. QED
          BY <4>1 DEF Watched, Attended
      <3>4. CASE x = t /\ ~Accepts(x)
        BY <3>1, <3>4 DEF Accepts, Exists, Watched, Unsettled
      <3>5. QED
        BY <3>2, <3>3, <3>4
    <2>7. QED
      BY <1>1, <2>2, <2>3, <2>4, <2>5, <2>6 DEF WorkerStep, WorkerFault, SaveStep
  <1>7. QED
    BY <1>5, <1>6 DEF Settling, Unsettled

Settled == Calm => Settling

LEMMA NextSettled == Known /\ Settled /\ [Next]_vars => Settled'
  <1> SUFFICES ASSUME Known, Calm, Settling, [Next]_vars
               PROVE  Settling'
    BY DEF Settled, Calm
  <1>1. TypeOK
    BY DEF Known
  <1>2. ASSUME UNCHANGED <<worker, req>>, \A t \in Tasks : Kept(t),
               \A t \in Tasks : queue[t] + orphans[t] > 0 => queue'[t] + orphans'[t] > 0
        PROVE  Settling'
    <2>1. \A t \in Tasks : Watched(t)'
      BY <1>2, WatchedStays DEF Settling
    <2>2. ASSUME NEW w \in Workers, worker[w].pc = "done"
          PROVE  ~Unsettled(worker[w].task)'
      <3>1. worker[w].task \in Tasks /\ ~Unsettled(worker[w].task)
        BY <1>1, <2>2, BusyWorker DEF Settling, Job
      <3>2. QED
        BY <1>2, <3>1, KeptSettled DEF Unsettled
    <2>3. QED
      BY <1>2, <2>1, <2>2 DEF Settling
  <1>3. ASSUME NEW u \in Users, DeleteAccount(u)
        PROVE  Settling'
    BY <1>2, <1>3 DEF DeleteAccount, Kept
  <1>4. ASSUME NEW x \in Tasks, Restore(x)
        PROVE  Settling'
    <2>1. \A t \in Tasks : queue'[t] + orphans'[t] = queue[t] + orphans[t]
      BY <1>1, <1>4 DEF Restore, TypeOK
    <2>2. QED
      BY <1>2, <1>4, <2>1 DEF Restore, Kept
  <1>5. CASE UNCHANGED vars
    BY <1>2, <1>5 DEF vars, Kept
  <1>6. QED
    BY <1>3, <1>4, <1>5, HandlerSettling, WorkerSettling DEF Next

(* Where at worst workers die, an unsettled task always has somebody who   *)
(* is going to write its status.                                           *)
THEOREM NothingEverStranded == Spec => []NothingStranded
  <1>1. Init => Settled
    BY InitSettling DEF Settled
  <1>2. Settled => NothingStranded
    BY DEF Settled, Calm, Settling, Watched, NothingStranded
  <1>3. QED
    BY <1>1, <1>2, NextSettled, AlwaysKnown, PTL DEF Spec

-----------------------------------------------------------------------------
(* A settled task stays settled                                            *)

LEMMA UndisturbedFacts ==
  Undisturbed => /\ Serial
                 /\ \A w \in Workers : ~Timeout(w) /\ ~CrashWorker(w)
                 /\ \A h \in Handlers : ~SendUnsure(h)
  BY DEF Undisturbed, Serial, Timeout, CrashWorker, SendUnsure, Fault

Working == {"started", "downloaded", "inferred", "flushed"}

(* A message is of a task that nobody has touched, and the process that    *)
(* took it is the one that has touched its task.                           *)
UntriedMessage(t) == orphans[t] = 0 /\ (queue[t] > 0 => Untried(t))

FirstTry(w) ==
  /\ worker[w].pc = "received" => Untried(worker[w].task)
  /\ worker[w].pc \in Working => row[worker[w].task].status \in {"PROCESSING", "none"}

OneTry == (\A t \in Tasks : UntriedMessage(t)) /\ (\A w \in Workers : FirstTry(w))

LEMMA InitOneTry == Init => OneTry
  BY DEF Init, OneTry, UntriedMessage, FirstTry, Working, Idle, Untried

LEMMA KeptMessage ==
  ASSUME NEW t \in Tasks, UntriedMessage(t), Kept(t), orphans'[t] = orphans[t],
         queue'[t] > 0 => queue[t] > 0
  PROVE  UntriedMessage(t)'
  BY DEF UntriedMessage, Untried, Kept

LEMMA KeptTry ==
  ASSUME NEW w \in Workers, FirstTry(w), worker'[w] = worker[w],
         worker[w].pc # "idle" => Kept(worker[w].task)
  PROVE  FirstTry(w)'
  BY RowFacts DEF FirstTry, Working, Untried, Kept

LEMMA HandlerOneTry ==
  ASSUME Known, Undisturbed, OneTry, NEW h \in Handlers,
         HandlerStep(h) \/ SendUnsure(h) \/ ApiCrash(h)
           \/ \E x \in Tasks : Upload(h, x) \/ CheckDelete(h, x)
  PROVE  OneTry'
  <1>1. UNCHANGED <<worker, orphans>> /\ TypeOK /\ Serial /\ ~SendUnsure(h) /\ Next
    BY UndisturbedFacts
       DEF HandlerStep, CommitTask, Send, SendFails, MarkFailed, Delete, SendUnsure,
           ApiCrash, Upload, CheckDelete, Known, Next
  <1>2. ASSUME NEW t \in Tasks, ~Kept(t)
        PROVE  Submitting(h, t)
    BY <1>1, <1>2, MarkRow, RequestFacts
       DEF HandlerStep, CommitTask, Send, SendFails, MarkFailed, Delete, ApiCrash,
           Upload, CheckDelete, Kept, TypeOK, Submitting
  <1>3. ASSUME NEW w \in Workers
        PROVE  FirstTry(w)'
    <2>1. worker[w].pc # "idle" => worker[w].task \in Tasks
      BY <1>1, BusyWorker DEF Job
    <2>2. worker[w].pc # "idle" => Kept(worker[w].task)
      BY <1>1, <1>2, <2>1 DEF Known, Tokens, OneToken
    <2>3. QED
      BY <1>1, <2>2, KeptTry DEF OneTry
  <1>4. ASSUME NEW t \in Tasks
        PROVE  UntriedMessage(t)'
    <2>1. UntriedMessage(t) /\ OneToken(t) /\ queue[t] \in Nat /\ orphans[t] \in Nat
      BY <1>1 DEF OneTry, Known, Tokens, TypeOK
    <2>2. CASE Send(h) /\ req[h].task = t
      <3>1. Untried(t) /\ UNCHANGED <<row, orphans>>
        BY <1>1, <2>2 DEF Send, Known, Written, OneWriter, SerialRequest
      <3>2. QED
        BY <2>1, <3>1 DEF UntriedMessage, Untried
    <2>3. CASE ~(Send(h) /\ req[h].task = t)
      <3>1. queue'[t] = queue[t]
        BY <1>1, <2>3, RequestFacts
           DEF HandlerStep, CommitTask, Send, SendFails, MarkFailed, Delete, ApiCrash,
               Upload, CheckDelete, TypeOK
      <3>2. CASE Kept(t)
        BY <1>1, <2>1, <3>1, <3>2, KeptMessage
      <3>3. CASE ~Kept(t)
        <4>1. queue[t] = 0
          BY <1>2, <2>1, <3>3 DEF OneToken
        <4>2. QED
          BY <1>1, <2>1, <3>1, <4>1 DEF UntriedMessage
      <3>4. QED
        BY <3>2, <3>3
    <2>4. QED
      BY <2>2, <2>3
  <1>5. QED
    BY <1>3, <1>4 DEF OneTry

LEMMA SaveFirstTry ==
  ASSUME Known, Undisturbed, OneTry, NEW w \in Workers, SaveStep(w)
  PROVE  FirstTry(w)'
  <1>1. TypeOK /\ Truthful /\ OneWriter
    BY UndisturbedFacts DEF Known, Written
  <1>2. PICK to \in {"started", "downloaded", "inferred"}, new \in Row : Wrote(w, to, new)
    BY <1>1, SaveWrote
  <1>3. PICK k \in Tasks : k = worker[w].task /\ worker[w] \in Job
    BY <1>1, SaveWrote DEF Job
  <1>4. worker[w].seen \in Row /\ row[k] \in Row
    BY <1>1, <1>3 DEF Job, TypeOK
  <1>5. worker[w].pc \in {"received", "started", "downloaded"}
    BY <1>2 DEF Wrote
  <1>6. row'[k].status \in {"PROCESSING", "none"}
    <2>1. CASE ~Exists(k)
      BY <1>1, <1>2, <1>3, <2>1, SaveRow DEF Exists
    <2>2. CASE Exists(k) /\ worker[w].pc = "received"
      <3>1. row[k].status = "PENDING"
        BY <1>3, <2>2, RowFacts DEF OneTry, FirstTry, Untried, Exists
      <3>2. worker[w].seen.status = "PENDING"
        BY <1>1, <1>3, <2>2, <3>1 DEF OneWriter, SerialSession, Agree
      <3>3. new.status = "PROCESSING"
        BY <1>2, <2>2 DEF Wrote
      <3>4. row'[k] = Merge(row[k], worker[w].seen, new)
        BY <1>1, <1>2, <1>3, SaveRow
      <3>5. QED
        BY <1>4, <3>2, <3>3, <3>4, MergeFacts
    <2>3. CASE worker[w].pc # "received"
      <3>1. row[k].status \in {"PROCESSING", "none"}
        BY <1>3, <1>5, <2>3 DEF OneTry, FirstTry, Working
      <3>2. QED
        BY <1>1, <1>2, <1>3, <3>1, SaveRow
    <2>4. QED
      BY <2>1, <2>2, <2>3
  <1>7. QED
    BY <1>2, <1>3, <1>6 DEF Wrote, FirstTry

LEMMA WorkerOneTry ==
  ASSUME Known, Undisturbed, OneTry, NEW w \in Workers, Next,
         WorkerStep(w) \/ WorkerFault(w) \/ \E x \in Tasks : Receive(w, x)
  PROVE  OneTry'
  <1>1. TypeOK /\ Serial /\ Tokens /\ ~Timeout(w) /\ ~CrashWorker(w)
    BY UndisturbedFacts DEF Known
  <1>2. /\ \A v \in Workers \ {w} : worker'[v] = worker[v]
        /\ orphans' = orphans
    BY <1>1 DEF TypeOK, WorkerStep, Start, Download, Report, Infer, Save, Finish, Commit,
                Fail, Ack, WorkerFault, FailUnrecorded, LoseChild, Receive
  <1>3. ASSUME NEW t \in Tasks, ~Kept(t)
        PROVE  /\ worker[w].task = t /\ OneToken(t)
               /\ UNCHANGED <<queue, orphans>>
    <2>1. CASE SaveStep(w)
      <3>1. PICK to \in {"started", "downloaded", "inferred"}, new \in Row : Wrote(w, to, new)
        BY <1>1, <2>1, SaveWrote
      <3>2. QED
        BY SMTT(30), <1>1, <1>3, <2>1, <3>1, SaveWrote, SaveRow DEF Kept, Wrote, Tokens
    <2>2. CASE Commit(w) \/ Fail(w)
      <3>1. UNCHANGED <<queue, orphans>>
        BY <2>2 DEF Commit, Fail
      <3>2. QED
        BY <1>1, <1>3, <2>2, <3>1, CommitRow, FailRow DEF Kept, Tokens
    <2>3. CASE ~SaveStep(w) /\ ~Commit(w) /\ ~Fail(w)
      BY <1>1, <1>3, <2>3 DEF WorkerStep, SaveStep, Finish, Ack, WorkerFault, LoseChild,
                              FailUnrecorded, Receive, Kept
    <2>4. QED
      BY <2>1, <2>2, <2>3
  <1>4. ASSUME NEW t \in Tasks
        PROVE  UntriedMessage(t)'
    <2>1. UntriedMessage(t) /\ queue[t] \in Nat
      BY <1>1 DEF OneTry, TypeOK
    <2>2. CASE Kept(t)
      <3>1. queue'[t] > 0 => queue[t] > 0
        BY <1>1, <2>1 DEF TypeOK, WorkerStep, Start, Download, Report, Infer, Save, Finish,
             Commit, Fail, Ack, WorkerFault, FailUnrecorded, LoseChild, Receive
      <3>2. QED
        BY <1>2, <2>1, <2>2, <3>1, KeptMessage
    <2>3. CASE ~Kept(t)
      <3>1. queue[t] = 0 /\ queue' = queue
        BY <1>1, <1>3, <2>1, <2>3 DEF OneToken, UntriedMessage
      <3>2. QED
        BY <1>2, <2>1, <3>1 DEF UntriedMessage
    <2>4. QED
      BY <2>2, <2>3
  <1>5. ASSUME NEW v \in Workers \ {w}
        PROVE  FirstTry(v)'
    <2>1. worker[v].pc # "idle" => worker[v].task \in Tasks
      BY <1>1, BusyWorker DEF Job
    <2>2. worker[v].pc # "idle" => Kept(worker[v].task)
      BY <1>3, <2>1 DEF OneToken
    <2>3. QED
      BY <1>2, <2>2, KeptTry DEF OneTry
  <1>6. FirstTry(w)'
    <2>1. CASE SaveStep(w)
      BY <2>1, SaveFirstTry
    <2>2. CASE Finish(w)
      BY <1>1, <2>2, FinishFacts DEF OneTry, FirstTry, Working
    <2>3. CASE Commit(w) \/ Fail(w) \/ FailUnrecorded(w)
      BY <1>1, <2>3, EndFacts DEF Ended, FirstTry, Working
    <2>4. CASE Ack(w) \/ LoseChild(w)
      BY <1>1, <2>4 DEF Ack, LoseChild, FirstTry, Working, Idle, TypeOK
    <2>5. ASSUME NEW x \in Tasks, Receive(w, x)
          PROVE  FirstTry(w)'
      <3>1. queue[x] > 0 /\ row' = row
        BY <2>5 DEF Receive
      <3>2. Untried(x)
        BY <3>1 DEF OneTry, UntriedMessage
      <3>3. worker'[w] = Idle \/ (worker'[w].pc = "received" /\ worker'[w].task = x)
        BY <1>1, <2>5 DEF Receive, TypeOK
      <3>4. QED
        BY <3>1, <3>2, <3>3 DEF FirstTry, Untried, Working, Idle
    <2>6. QED
      BY <1>1, <2>1, <2>2, <2>3, <2>4, <2>5 DEF WorkerStep, WorkerFault, SaveStep
  <1>7. QED
    BY <1>4, <1>5, <1>6 DEF OneTry

Tried == Undisturbed => OneTry

LEMMA NextTried == Known /\ Tried /\ [Next]_vars => Tried'
  <1> SUFFICES ASSUME Known, Undisturbed, OneTry, [Next]_vars
               PROVE  OneTry'
    BY DEF Tried, Undisturbed
  <1>1. TypeOK
    BY DEF Known
  <1>2. ASSUME UNCHANGED <<worker, orphans, queue>>, \A t \in Tasks : Kept(t)
        PROVE  OneTry'
    <2>1. \A w \in Workers : worker[w].pc # "idle" => Kept(worker[w].task)
      BY <1>1, <1>2, BusyWorker DEF Job
    <2>2. QED
      BY <1>2, <2>1, KeptMessage, KeptTry DEF OneTry
  <1>3. ASSUME NEW u \in Users, DeleteAccount(u)
        PROVE  OneTry'
    BY <1>2, <1>3 DEF DeleteAccount, Kept
  <1>4. ASSUME NEW x \in Tasks
        PROVE  ~Restore(x)
    BY DEF Restore, OneTry, UntriedMessage
  <1>5. CASE UNCHANGED vars
    BY <1>2, <1>5 DEF vars, Kept
  <1>6. QED
    BY <1>3, <1>4, <1>5, HandlerOneTry, WorkerOneTry DEF Next

LEMMA AlwaysTried == Spec => [](Known /\ Tried)
  <1>1. Init => Tried
    BY InitOneTry DEF Tried
  <1>2. QED
    BY <1>1, NextTried, AlwaysKnown, PTL DEF Spec

(* Whoever gives a row other contents finds it unsettled.                  *)
LEMMA SettledKept ==
  ASSUME Known, Undisturbed, OneTry, Next, NEW t \in Tasks,
         row[t].status \in {"COMPLETED", "FAILED"}
  PROVE  Kept(t)
  <1>1. TypeOK /\ Fresh /\ OneWriter
    BY UndisturbedFacts DEF Known, Written
  <1>2. SUFFICES ASSUME ~Kept(t)
                 PROVE  FALSE
    OBVIOUS
  <1>3. ASSUME NEW h \in Handlers, req[h].task = t, CommitTask(h)
        PROVE  FALSE
    BY <1>1, <1>3, RowFacts DEF CommitTask, Fresh, FreshTask, Untouched
  <1>4. ASSUME NEW h \in Handlers, req[h].task = t, MarkFailed(h)
        PROVE  FALSE
    BY <1>1, <1>4, RowFacts DEF MarkFailed, OneWriter, SerialRequest, Untried
  <1>5. ASSUME NEW w \in Workers, worker[w].task = t,
               worker[w].pc \in Running
        PROVE  FALSE
    BY <1>5, RowFacts DEF OneTry, FirstTry, Running, Working, Untried
  <1>6. \A w \in Workers : SaveStep(w) \/ Commit(w) \/ Fail(w) => worker[w].pc \in Running
    BY DEF SaveStep, Start, Download, Report, Infer, Save, Commit, Fail, Running
  <1>7. QED
    BY <1>1, <1>2, <1>3, <1>4, <1>5, <1>6, WhoWrites

(* Where no message is delivered twice, a task that a client has seen      *)
(* COMPLETED or FAILED does not change any more.                           *)
THEOREM SettledStaysFinal == Spec => SettledIsFinal
  <1> DEFINE A == Undisturbed =>
                    \A t \in Tasks :
                      row[t].status \in {"COMPLETED", "FAILED"} => row'[t] \in {row[t], NoRow}
  <1>1. Known /\ Tried /\ [Next]_vars => [A]_vars
    BY SettledKept DEF Tried, Kept
  <1>2. QED
    BY <1>1, AlwaysTried, PTL DEF Spec, SettledIsFinal

-----------------------------------------------------------------------------
(* Every repeated execution is paid for by a fault                         *)

Executions(t) ==
  {w \in Workers : worker[w].task = t /\ worker[w].pc \in Running}

Uploads(t) ==
  {h \in Handlers : req[h].task = t /\ req[h].op \in {"commit", "send"}}

(* What may still store detections for a task: its upload, its messages    *)
(* and the processes that work on it.                                      *)
Due(t) ==
  queue[t] + orphans[t] + Cardinality(Executions(t)) + Cardinality(Uploads(t))
    + (IF t \in files THEN 0 ELSE 1)

Paid(t) == row[t].results + Due(t) + budget <= MaxFaults + 1

(* The last transaction adds one set of detections to those of the row,    *)
(* which it has locked.                                                    *)
AddsOne(w) ==
  worker[w].pc = "flushed" => worker[w].seen.results <= row[worker[w].task].results + 1

Counted == (\A t \in Tasks : Paid(t)) /\ (\A w \in Workers : AddsOne(w))

LEMMA CountTypes ==
  ASSUME TypeOK, NEW t \in Tasks
  PROVE  /\ IsFiniteSet(Executions(t)) /\ Cardinality(Executions(t)) \in Nat
         /\ IsFiniteSet(Uploads(t)) /\ Cardinality(Uploads(t)) \in Nat
         /\ queue[t] \in Nat /\ orphans[t] \in Nat /\ budget \in Nat /\ MaxFaults \in Nat
         /\ row[t] \in Row /\ row[t].results \in Nat
  <1>1. IsFiniteSet(Executions(t)) /\ IsFiniteSet(Uploads(t))
    BY PipelineAssumption, FS_Subset DEF Executions, Uploads
  <1>2. QED
    BY <1>1, FS_CardinalityType, PipelineAssumption, RowFacts DEF TypeOK

LEMMA InitCounted == Init => Counted
  <1> SUFFICES ASSUME Init
               PROVE  Counted
    OBVIOUS
  <1>1. ASSUME NEW t \in Tasks
        PROVE  Paid(t)
    <2>1. Executions(t) = {} /\ Uploads(t) = {}
      BY DEF Init, Executions, Uploads, Idle, NoRequest, Running
    <2>2. /\ row[t].results = 0 /\ queue[t] = 0 /\ orphans[t] = 0
          /\ t \notin files /\ budget = MaxFaults
      BY DEF Init, NoRow
    <2>3. QED
      BY <2>1, <2>2, FS_EmptySet, PipelineAssumption DEF Paid, Due
  <1>2. QED
    BY <1>1 DEF Init, Counted, AddsOne, Idle

(* How a set of processes or of requests changes when one of them moves.   *)
LEMMA OneMoves ==
  ASSUME NEW S, NEW T, NEW x, IsFiniteSet(S), IsFiniteSet(T), S \ {x} = T \ {x}
  PROVE  /\ x \in S /\ x \in T => Cardinality(T) = Cardinality(S)
         /\ x \notin S /\ x \notin T => Cardinality(T) = Cardinality(S)
         /\ x \in S /\ x \notin T => Cardinality(T) + 1 = Cardinality(S)
         /\ x \notin S /\ x \in T => Cardinality(T) = Cardinality(S) + 1
  <1>1. /\ Cardinality(S \ {x}) = IF x \in S THEN Cardinality(S) - 1 ELSE Cardinality(S)
        /\ Cardinality(T \ {x}) = IF x \in T THEN Cardinality(T) - 1 ELSE Cardinality(T)
    BY FS_RemoveElement
  <1>2. Cardinality(S) \in Nat /\ Cardinality(T) \in Nat
    BY FS_CardinalityType
  <1>3. QED
    BY <1>1, <1>2

(* The bill of a task: what a step adds on one side it takes off the other. *)
LEMMA PaidStays ==
  ASSUME NEW t \in Tasks, TypeOK, TypeOK', Paid(t),
         NEW e \in Nat, e = Cardinality(Executions(t)),
         NEW u \in Nat, u = Cardinality(Uploads(t)),
         NEW e1 \in Nat, e1 = Cardinality(Executions(t)'),
         NEW u1 \in Nat, u1 = Cardinality(Uploads(t)'),
         NEW f \in Nat, f = (IF t \in files THEN 0 ELSE 1),
         NEW f1 \in Nat, f1 = (IF t \in files' THEN 0 ELSE 1),
         row'[t].results + queue'[t] + orphans'[t] + e1 + u1 + f1 + budget'
           <= row[t].results + queue[t] + orphans[t] + e + u + f + budget
  PROVE  Paid(t)'
  <1>1. /\ row[t].results \in Nat /\ queue[t] \in Nat /\ orphans[t] \in Nat /\ budget \in Nat
        /\ row'[t].results \in Nat /\ queue'[t] \in Nat /\ orphans'[t] \in Nat
        /\ budget' \in Nat /\ MaxFaults \in Nat
    BY CountTypes, PipelineAssumption, RowFacts DEF TypeOK
  <1>2. row[t].results + (queue[t] + orphans[t] + e + u + f) + budget <= MaxFaults + 1
    BY DEF Paid, Due
  <1>3. row'[t].results + (queue'[t] + orphans'[t] + e1 + u1 + f1) + budget' <= MaxFaults + 1
    BY <1>1, <1>2
  <1>4. QED
    BY <1>3 DEF Paid, Due

(* A lock is taken by the last transaction alone.                          *)
LEMMA OnlyFinishLocks ==
  ASSUME TypeOK, Next, NEW w \in Workers,
         worker[w].pc # "flushed", worker'[w].pc = "flushed"
  PROVE  Finish(w)
  <1>1. worker'[w] # worker[w] /\ worker'[w] # Idle
    BY DEF Idle
  <1>2. ~SaveStep(w)
    BY SaveWrote DEF Wrote
  <1>3. ~Commit(w) /\ ~Fail(w) /\ ~FailUnrecorded(w)
    BY EndFacts DEF Ended
  <1>4. ~Ack(w) /\ ~CrashWorker(w) /\ ~LoseChild(w)
    BY <1>1 DEF Ack, CrashWorker, LoseChild, TypeOK
  <1>5. ~Timeout(w)
    <2>1. SUFFICES ASSUME Timeout(w)
                   PROVE  FALSE
      OBVIOUS
    <2>2. worker[w] \in Job
      BY <2>1, BusyWorker DEF Timeout, Idle, TypeOK
    <2>3. worker'[w].pc = worker[w].pc
      BY <2>1, <2>2 DEF Timeout, TypeOK, Job
    <2>4. QED
      BY <2>3
  <1>6. ASSUME NEW x \in Tasks
        PROVE  ~Receive(w, x)
    BY <1>1 DEF Receive, TypeOK
  <1>7. ASSUME NEW v \in Workers \ {w},
               WorkerStep(v) \/ WorkerFault(v) \/ \E x \in Tasks : Receive(v, x)
        PROVE  FALSE
    BY <1>1, <1>7
       DEF TypeOK, WorkerStep, Start, Download, Report, Infer, Save, Finish, Commit, Fail,
           Ack, WorkerFault, FailUnrecorded, CrashWorker, LoseChild, Timeout, Receive
  <1>8. ASSUME NEW h \in Handlers
        PROVE  ~(HandlerStep(h) \/ SendUnsure(h) \/ ApiCrash(h)
                   \/ \E x \in Tasks : Upload(h, x) \/ CheckDelete(h, x))
    BY <1>1 DEF HandlerStep, CommitTask, Send, SendFails, MarkFailed, Delete, SendUnsure,
                ApiCrash, Upload, CheckDelete
  <1>9. /\ \A u \in Users : ~DeleteAccount(u)
        /\ \A x \in Tasks : ~Restore(x)
    BY <1>1 DEF DeleteAccount, Restore
  <1>10. WorkerStep(w)
    BY <1>4, <1>5, <1>3, <1>6, <1>7, <1>8, <1>9 DEF Next, WorkerFault
  <1>11. QED
    BY <1>2, <1>3, <1>4, <1>10 DEF WorkerStep, SaveStep

(* While a process holds the lock of its row, neither changes.             *)
LEMMA LockedRow ==
  ASSUME Known, Next, NEW w \in Workers,
         worker[w].pc = "flushed", worker'[w].pc = "flushed"
  PROVE  /\ row'[worker[w].task] = row[worker[w].task]
         /\ worker'[w].task = worker[w].task
         /\ worker'[w].seen = worker[w].seen
         /\ worker'[w].victims = worker[w].victims
  <1>1. TypeOK /\ LocksAreExclusive /\ Fresh
    BY DEF Known, Backed
  <1>2. PICK k \in Tasks : k = worker[w].task /\ Locked(k)
    BY <1>1, BusyWorker DEF Job, Locked
  <1>3. \A v \in Workers \ {w} : LockedByOther(v, k) /\ ~(worker[v].pc = "flushed" /\ worker[v].task = k)
    BY <1>1, <1>2 DEF LocksAreExclusive, LockedByOther
  <1>4. ASSUME NEW h \in Handlers,
               HandlerStep(h) \/ SendUnsure(h) \/ ApiCrash(h)
                 \/ \E x \in Tasks : Upload(h, x) \/ CheckDelete(h, x)
        PROVE  row'[k] = row[k] /\ worker' = worker
    <2>1. worker' = worker
      BY <1>4 DEF HandlerStep, CommitTask, Send, SendFails, MarkFailed, Delete, SendUnsure,
                  ApiCrash, Upload, CheckDelete
    <2>2. CASE CommitTask(h)
      <3>1. req[h].task # k
        BY <1>1, <1>2, <2>2 DEF CommitTask, Fresh, FreshTask, Untouched
      <3>2. QED
        BY <1>1, <2>1, <2>2, <3>1 DEF CommitTask, TypeOK
    <2>3. CASE MarkFailed(h)
      BY <1>1, <1>2, <2>1, <2>3, MarkRow DEF MarkFailed
    <2>4. CASE Delete(h)
      <3>1. req[h].task # k
        BY <1>2, <2>4 DEF Delete
      <3>2. QED
        BY <1>1, <2>1, <2>4, <3>1 DEF Delete, TypeOK
    <2>5. QED
      BY <1>4, <2>1, <2>2, <2>3, <2>4
         DEF HandlerStep, Send, SendFails, SendUnsure, ApiCrash, Upload, CheckDelete
  <1>5. ASSUME NEW v \in Workers \ {w},
               WorkerStep(v) \/ WorkerFault(v) \/ \E x \in Tasks : Receive(v, x)
        PROVE  row'[k] = row[k] /\ worker'[w] = worker[w]
    <2>1. worker'[w] = worker[w]
      BY <1>1, <1>5
         DEF TypeOK, WorkerStep, Start, Download, Report, Infer, Save, Finish, Commit, Fail,
             Ack, WorkerFault, FailUnrecorded, CrashWorker, LoseChild, Timeout, Receive
    <2>2. CASE SaveStep(v)
      <3>1. PICK to \in {"started", "downloaded", "inferred"}, new \in Row : Wrote(v, to, new)
        BY <1>1, <2>2, SaveWrote
      <3>2. worker[v].task # k
        BY <1>3, <3>1 DEF Wrote
      <3>3. QED
        BY <1>1, <2>1, <2>2, <3>1, <3>2, SaveWrote, SaveRow
    <2>3. CASE Commit(v)
      <3>1. worker[v].task # k /\ k \notin worker[v].victims
        BY <1>3, <2>3 DEF Commit
      <3>2. QED
        BY <1>1, <2>1, <2>3, <3>1, CommitRow
    <2>4. CASE Fail(v)
      BY <1>1, <1>3, <2>1, <2>4, FailRow DEF Fail
    <2>5. CASE ~SaveStep(v) /\ ~Commit(v) /\ ~Fail(v)
      BY <1>5, <2>1, <2>5
         DEF WorkerStep, SaveStep, Finish, Ack, WorkerFault, FailUnrecorded, CrashWorker,
             LoseChild, Timeout, Receive
    <2>6. QED
      BY <2>2, <2>3, <2>4, <2>5
  <1>6. ASSUME WorkerStep(w) \/ WorkerFault(w) \/ \E x \in Tasks : Receive(w, x)
        PROVE  /\ row'[k] = row[k] /\ worker'[w].task = worker[w].task
               /\ worker'[w].seen = worker[w].seen /\ worker'[w].victims = worker[w].victims
    <2>1. ~SaveStep(w) /\ ~Finish(w)
      BY <1>1, SaveWrote, FinishFacts DEF Wrote
    <2>2. ~Commit(w) /\ ~Fail(w) /\ ~FailUnrecorded(w)
      BY <1>1, EndFacts DEF Ended
    <2>3. ~Ack(w) /\ ~CrashWorker(w) /\ ~LoseChild(w)
      BY <1>1 DEF Ack, CrashWorker, LoseChild, TypeOK, Idle
    <2>4. ASSUME NEW x \in Tasks
          PROVE  ~Receive(w, x)
      BY DEF Receive, Idle
    <2>5. Timeout(w)
      BY <1>6, <2>1, <2>2, <2>3, <2>4 DEF WorkerStep, WorkerFault, SaveStep
    <2>6. LET j == [worker[w] EXCEPT !.delivery = "restored"]
          IN  /\ j.task = worker[w].task /\ j.seen = worker[w].seen
              /\ j.victims = worker[w].victims
      BY <1>1, BusyWorker DEF Job
    <2>7. QED
      BY <1>1, <2>5, <2>6 DEF Timeout, TypeOK
  <1>7. ASSUME NEW u \in Users, DeleteAccount(u)
        PROVE  row'[k] = row[k] /\ worker' = worker
    BY <1>2, <1>7 DEF DeleteAccount
  <1>8. ASSUME NEW x \in Tasks, Restore(x)
        PROVE  row'[k] = row[k] /\ worker' = worker
    BY <1>8 DEF Restore
  <1>9. QED
    BY <1>2, <1>4, <1>5, <1>6, <1>7, <1>8 DEF Next

LEMMA NextAddsOne ==
  ASSUME Known, [Next]_vars, NEW w \in Workers, AddsOne(w)
  PROVE  AddsOne(w)'
  <1>1. TypeOK /\ TypeOK'
    BY NextType DEF Known
  <1>2. CASE UNCHANGED vars
    BY <1>2 DEF vars, AddsOne
  <1>3. CASE Next /\ worker[w].pc = "flushed" /\ worker'[w].pc = "flushed"
    BY <1>3, LockedRow DEF AddsOne
  <1>4. CASE Next /\ worker[w].pc # "flushed" /\ worker'[w].pc = "flushed"
    <2>1. Finish(w)
      BY <1>1, <1>4, OnlyFinishLocks
    <2>2. /\ worker'[w].seen.results = row[worker[w].task].results + 1
          /\ row' = row /\ worker'[w].task = worker[w].task
          /\ worker[w].task \in Tasks
      BY <1>1, <2>1, FinishFacts DEF Job
    <2>3. row[worker[w].task].results \in Nat
      BY <1>1, <2>2, RowFacts DEF TypeOK
    <2>4. PICK k \in Tasks : k = worker[w].task
      BY <2>2
    <2>5. worker'[w].seen.results <= row'[k].results + 1
      BY <2>2, <2>3, <2>4
    <2>6. QED
      BY <2>2, <2>4, <2>5 DEF AddsOne
  <1>5. QED
    BY <1>2, <1>3, <1>4 DEF AddsOne

(* The bill when one request moves.                                        *)
LEMMA HandlerBill ==
  ASSUME NEW t \in Tasks, TypeOK, TypeOK', Paid(t), NEW h \in Handlers,
         worker' = worker, \A g \in Handlers \ {h} : req'[g] = req[g],
         NEW b \in Nat, b = (IF h \in Uploads(t) THEN 1 ELSE 0),
         NEW b1 \in Nat, b1 = (IF h \in Uploads(t)' THEN 1 ELSE 0),
         NEW f \in Nat, f = (IF t \in files THEN 0 ELSE 1),
         NEW f1 \in Nat, f1 = (IF t \in files' THEN 0 ELSE 1),
         row'[t].results + queue'[t] + orphans'[t] + b1 + f1 + budget'
           <= row[t].results + queue[t] + orphans[t] + b + f + budget
  PROVE  Paid(t)'
  <1>1. PICK e \in Nat, u \in Nat : e = Cardinality(Executions(t)) /\ u = Cardinality(Uploads(t))
    BY CountTypes
  <1>2. Executions(t)' = Executions(t)
    BY DEF Executions
  <1>3. Uploads(t) \ {h} = Uploads(t)' \ {h}
    BY DEF Uploads
  <1>4. IsFiniteSet(Uploads(t)) /\ IsFiniteSet(Uploads(t)')
    <2>1. Uploads(t) \subseteq Handlers /\ Uploads(t)' \subseteq Handlers
      BY DEF Uploads
    <2>2. QED
      BY <2>1, FS_Subset, PipelineAssumption
  <1>5. PICK u1 \in Nat : u1 = Cardinality(Uploads(t)')
    BY <1>4, FS_CardinalityType
  <1>6. u1 + b = u + b1
    BY <1>1, <1>3, <1>4, <1>5, OneMoves
  <1>7. /\ row[t].results \in Nat /\ queue[t] \in Nat /\ orphans[t] \in Nat /\ budget \in Nat
        /\ row'[t].results \in Nat /\ queue'[t] \in Nat /\ orphans'[t] \in Nat
        /\ budget' \in Nat
    BY CountTypes, PipelineAssumption, RowFacts DEF TypeOK
  <1>8. row'[t].results + queue'[t] + orphans'[t] + e + u1 + f1 + budget'
          <= row[t].results + queue[t] + orphans[t] + e + u + f + budget
    BY <1>6, <1>7
  <1>9. QED
    BY <1>1, <1>2, <1>5, <1>8, PaidStays

(* The bill when one process moves.                                        *)
LEMMA WorkerBill ==
  ASSUME NEW t \in Tasks, TypeOK, TypeOK', Paid(t), NEW w \in Workers,
         req' = req, files' = files, \A v \in Workers \ {w} : worker'[v] = worker[v],
         NEW a \in Nat, a = (IF w \in Executions(t) THEN 1 ELSE 0),
         NEW a1 \in Nat, a1 = (IF w \in Executions(t)' THEN 1 ELSE 0),
         row'[t].results + queue'[t] + orphans'[t] + a1 + budget'
           <= row[t].results + queue[t] + orphans[t] + a + budget
  PROVE  Paid(t)'
  <1>1. PICK e \in Nat, u \in Nat : e = Cardinality(Executions(t)) /\ u = Cardinality(Uploads(t))
    BY CountTypes
  <1>2. Uploads(t)' = Uploads(t)
    BY DEF Uploads
  <1>3. Executions(t) \ {w} = Executions(t)' \ {w}
    BY DEF Executions
  <1>4. IsFiniteSet(Executions(t)) /\ IsFiniteSet(Executions(t)')
    <2>1. Executions(t) \subseteq Workers /\ Executions(t)' \subseteq Workers
      BY DEF Executions
    <2>2. QED
      BY <2>1, FS_Subset, PipelineAssumption
  <1>5. PICK e1 \in Nat : e1 = Cardinality(Executions(t)')
    BY <1>4, FS_CardinalityType
  <1>6. e1 + a = e + a1
    BY <1>1, <1>3, <1>4, <1>5, OneMoves
  <1>7. /\ row[t].results \in Nat /\ queue[t] \in Nat /\ orphans[t] \in Nat /\ budget \in Nat
        /\ row'[t].results \in Nat /\ queue'[t] \in Nat /\ orphans'[t] \in Nat
        /\ budget' \in Nat
    BY CountTypes, PipelineAssumption, RowFacts DEF TypeOK
  <1>8. PICK f \in Nat : f = (IF t \in files THEN 0 ELSE 1)
    OBVIOUS
  <1>9. row'[t].results + queue'[t] + orphans'[t] + e1 + u + f + budget'
          <= row[t].results + queue[t] + orphans[t] + e + u + f + budget
    BY <1>6, <1>7
  <1>10. QED
    BY <1>1, <1>2, <1>5, <1>8, <1>9, PaidStays

LEMMA HandlerPaid ==
  ASSUME NEW t \in Tasks, TypeOK, TypeOK', Fresh, Paid(t), NEW h \in Handlers,
         HandlerStep(h) \/ SendUnsure(h) \/ ApiCrash(h)
           \/ \E x \in Tasks : Upload(h, x) \/ CheckDelete(h, x)
  PROVE  Paid(t)'
  <1>1. \A g \in Handlers \ {h} : req'[g] = req[g]
    BY RequestFacts
  <1>2. worker' = worker /\ orphans' = orphans
    BY DEF HandlerStep, CommitTask, Send, SendFails, MarkFailed, Delete, SendUnsure,
           ApiCrash, Upload, CheckDelete
  <1>3. /\ row[t].results \in Nat /\ queue[t] \in Nat /\ orphans[t] \in Nat /\ budget \in Nat
        /\ row'[t].results \in Nat /\ queue'[t] \in Nat /\ budget' \in Nat
    BY CountTypes, RowFacts DEF TypeOK
  <1>4. PICK b \in Nat : b = (IF h \in Uploads(t) THEN 1 ELSE 0)
    OBVIOUS
  <1>5. PICK b1 \in Nat : b1 = (IF h \in Uploads(t)' THEN 1 ELSE 0)
    OBVIOUS
  <1>6. PICK f \in Nat : f = (IF t \in files THEN 0 ELSE 1)
    OBVIOUS
  <1>7. PICK f1 \in Nat : f1 = (IF t \in files' THEN 0 ELSE 1)
    OBVIOUS
  <1>8. /\ h \in Uploads(t) <=> req[h].task = t /\ req[h].op \in {"commit", "send"}
        /\ h \in Uploads(t)' <=> req'[h].task = t /\ req'[h].op \in {"commit", "send"}
    BY DEF Uploads
  <1>9. SUFFICES row'[t].results + queue'[t] + b1 + f1 + budget'
                   <= row[t].results + queue[t] + b + f + budget
    BY <1>1, <1>2, <1>3, <1>4, <1>5, <1>6, <1>7, HandlerBill
  <1>10. CASE CommitTask(h)
    <2>1. UNCHANGED <<files, queue, budget>> /\ b1 = b
      BY <1>4, <1>5, <1>8, <1>10, RequestFacts DEF CommitTask
    <2>2. row'[t].results = row[t].results
      <3>1. CASE req[h].task = t
        BY <1>10, <3>1, RowFacts DEF CommitTask, Fresh, FreshTask, Untouched, TypeOK
      <3>2. CASE req[h].task # t
        BY <1>10, <3>2 DEF CommitTask, TypeOK
      <3>3. QED
        BY <3>1, <3>2
    <2>3. QED
      BY <1>3, <1>6, <1>7, <2>1, <2>2
  <1>11. CASE Send(h) \/ SendUnsure(h)
    <2>1. UNCHANGED <<files, row>> /\ b1 = 0
      BY <1>5, <1>8, <1>11, RequestFacts, PipelineAssumption DEF Send, SendUnsure, NoRequest
    <2>2. CASE req[h].task = t
      <3>1. b = 1
        BY <1>4, <1>8, <1>11, <2>2 DEF Send, SendUnsure
      <3>2. CASE Send(h)
        BY <1>3, <1>6, <1>7, <2>1, <2>2, <3>1, <3>2 DEF Send, TypeOK
      <3>3. CASE SendUnsure(h)
        <4>1. PICK copies \in 1..2 : queue' = [queue EXCEPT ![req[h].task] = @ + copies]
          BY <3>3 DEF SendUnsure
        <4>2. queue'[t] = queue[t] + copies /\ budget' = budget - 1
          BY <2>2, <3>3, <4>1 DEF SendUnsure, Fault, TypeOK
        <4>3. QED
          BY <1>3, <1>6, <1>7, <2>1, <3>1, <4>2
      <3>4. QED
        BY <1>11, <3>2, <3>3
    <2>3. CASE req[h].task # t
      <3>1. queue'[t] = queue[t] /\ budget' <= budget
        BY <1>3, <1>11, <2>3 DEF Send, SendUnsure, Fault, TypeOK
      <3>2. QED
        BY <1>3, <1>6, <1>7, <2>1, <3>1
    <2>4. QED
      BY <2>2, <2>3
  <1>12. CASE SendFails(h) \/ MarkFailed(h) \/ Delete(h) \/ ApiCrash(h)
              \/ \E x \in Tasks : CheckDelete(h, x)
    <2>1. UNCHANGED <<files, queue>> /\ budget' <= budget
      BY <1>3, <1>12 DEF SendFails, MarkFailed, Delete, ApiCrash, CheckDelete, Fault
    <2>2. b1 = 0
      BY <1>5, <1>8, <1>12, RequestFacts DEF NoRequest
    <2>3. row'[t].results <= row[t].results
      <3>1. CASE MarkFailed(h)
        BY <1>3, <3>1, MarkRow
      <3>2. CASE Delete(h)
        BY <1>3, <3>2, RowFacts DEF Delete, TypeOK
      <3>3. QED
        BY <1>3, <1>12, <3>1, <3>2 DEF SendFails, ApiCrash, CheckDelete
    <2>4. QED
      BY <1>3, <1>6, <1>7, <2>1, <2>2, <2>3
  <1>13. ASSUME NEW x \in Tasks, Upload(h, x)
         PROVE  row'[t].results + queue'[t] + b1 + f1 + budget'
                  <= row[t].results + queue[t] + b + f + budget
    <2>1. /\ x \notin files /\ files' = files \union {x} /\ UNCHANGED <<row, queue, budget>>
          /\ req'[h].task = x
      BY <1>13, RequestFacts DEF Upload
    <2>2. b1 + f1 <= b + f
      BY <1>4, <1>5, <1>6, <1>7, <1>8, <2>1
    <2>3. QED
      BY <1>3, <2>1, <2>2
  <1>14. QED
    BY <1>10, <1>11, <1>12, <1>13 DEF HandlerStep

LEMMA WorkerPaid ==
  ASSUME NEW t \in Tasks, TypeOK, TypeOK', Paid(t), NEW w \in Workers, AddsOne(w),
         WorkerStep(w) \/ WorkerFault(w) \/ \E x \in Tasks : Receive(w, x)
  PROVE  Paid(t)'
  <1>1. \A v \in Workers \ {w} : worker'[v] = worker[v]
    BY DEF TypeOK, WorkerStep, Start, Download, Report, Infer, Save, Finish, Commit, Fail,
           Ack, WorkerFault, FailUnrecorded, CrashWorker, LoseChild, Timeout, Receive
  <1>2. req' = req /\ files' = files
    BY DEF WorkerStep, Start, Download, Report, Infer, Save, Finish, Commit, Fail,
           Ack, WorkerFault, FailUnrecorded, CrashWorker, LoseChild, Timeout, Receive
  <1>3. /\ row[t].results \in Nat /\ queue[t] \in Nat /\ orphans[t] \in Nat /\ budget \in Nat
        /\ row'[t].results \in Nat /\ queue'[t] \in Nat /\ orphans'[t] \in Nat
        /\ budget' \in Nat
    BY CountTypes, RowFacts DEF TypeOK
  <1>4. PICK a \in Nat : a = (IF w \in Executions(t) THEN 1 ELSE 0)
    OBVIOUS
  <1>5. PICK a1 \in Nat : a1 = (IF w \in Executions(t)' THEN 1 ELSE 0)
    OBVIOUS
  <1>6. /\ w \in Executions(t) <=> worker[w].task = t /\ worker[w].pc \in Running
        /\ w \in Executions(t)' <=> worker'[w].task = t /\ worker'[w].pc \in Running
    BY DEF Executions
  <1>7. SUFFICES row'[t].results + queue'[t] + orphans'[t] + a1 + budget'
                   <= row[t].results + queue[t] + orphans[t] + a + budget
    BY <1>1, <1>2, <1>3, <1>4, <1>5, WorkerBill
  <1>8. CASE SaveStep(w)
    <2>1. PICK to \in {"started", "downloaded", "inferred"}, new \in Row : Wrote(w, to, new)
      BY <1>8, SaveWrote
    <2>2. worker[w] \in Job /\ row'[t].results = row[t].results
      BY <1>8, <2>1, SaveWrote, SaveRow
    <2>3. UNCHANGED <<queue, orphans, budget>> /\ a1 = a
      BY <1>4, <1>5, <1>6, <2>1 DEF Wrote, Running
    <2>4. QED
      BY <1>3, <2>2, <2>3
  <1>9. CASE Finish(w)
    <2>1. /\ worker[w].pc = "inferred" /\ worker'[w].pc = "flushed"
          /\ worker'[w].task = worker[w].task
          /\ UNCHANGED <<row, queue, orphans, budget>>
      BY <1>9, FinishFacts
    <2>2. a1 = a
      BY <1>4, <1>5, <1>6, <2>1 DEF Running
    <2>3. QED
      BY <1>3, <2>1, <2>2
  <1>10. CASE Commit(w)
    <2>1. UNCHANGED <<queue, orphans, budget>> /\ a1 = 0
      BY <1>5, <1>6, <1>10, EndFacts DEF Commit, Ended, Running
    <2>2. row'[t].results <= row[t].results + a
      <3>1. CASE worker[w].task = t /\ t \notin worker[w].victims
        <4>1. a = 1 /\ row'[t] = worker[w].seen /\ worker[w].pc = "flushed"
          BY <1>4, <1>6, <1>10, <3>1 DEF Commit, Running
        <4>2. worker[w].seen.results <= row[t].results + 1
          BY <3>1, <4>1 DEF AddsOne
        <4>3. QED
          BY <1>3, <4>1, <4>2
      <3>2. CASE t \in worker[w].victims
        BY <1>3, <1>10, <3>2, RowFacts DEF Commit
      <3>3. CASE worker[w].task # t /\ t \notin worker[w].victims
        BY <1>3, <1>10, <3>3 DEF Commit
      <3>4. QED
        BY <3>1, <3>2, <3>3
    <2>3. QED
      BY <1>3, <2>1, <2>2
  <1>11. CASE Fail(w)
    <2>1. UNCHANGED <<queue, orphans, budget>> /\ a1 = 0
      BY <1>5, <1>6, <1>11, EndFacts DEF Fail, Ended, Running
    <2>2. row'[t].results = row[t].results
      BY <1>11, FailRow
    <2>3. QED
      BY <1>3, <2>1, <2>2
  <1>12. CASE Ack(w) \/ FailUnrecorded(w) \/ LoseChild(w)
    <2>1. UNCHANGED <<row, queue, orphans>> /\ budget' <= budget
      BY <1>3, <1>12 DEF Ack, FailUnrecorded, LoseChild, Fault
    <2>2. worker'[w] = Idle \/ worker'[w].pc = "done"
      BY <1>12, EndFacts DEF Ack, LoseChild, Ended, TypeOK
    <2>3. a1 = 0
      BY <1>5, <1>6, <2>2 DEF Idle, Running
    <2>4. QED
      BY <1>3, <2>1, <2>3
  <1>13. CASE CrashWorker(w)
    <2>1. UNCHANGED <<row, queue>> /\ budget' = budget - 1
      BY <1>13 DEF CrashWorker, Fault
    <2>2. worker'[w] = Idle
      BY <1>13 DEF CrashWorker, TypeOK
    <2>3. a1 = 0
      BY <1>5, <1>6, <2>2 DEF Idle, Running
    <2>4. orphans'[t] <= orphans[t] + 1
      BY <1>3, <1>13 DEF CrashWorker, TypeOK, Unacked
    <2>5. QED
      BY <1>3, <2>1, <2>3, <2>4
  <1>14. CASE Timeout(w)
    <2>1. UNCHANGED <<row, orphans>> /\ budget' = budget - 1
      BY <1>14 DEF Timeout, Fault
    <2>2. queue'[t] <= queue[t] + 1
      BY <1>3, <1>14 DEF Timeout, TypeOK
    <2>3. worker'[w].task = worker[w].task /\ worker'[w].pc = worker[w].pc
      <3>1. worker[w] \in Job
        BY <1>14, BusyWorker DEF Timeout, Idle, TypeOK
      <3>2. QED
        BY <1>14, <3>1 DEF Timeout, TypeOK, Job
    <2>4. a1 = a
      BY <1>4, <1>5, <1>6, <2>3
    <2>5. QED
      BY <1>3, <2>1, <2>2, <2>4
  <1>15. ASSUME NEW x \in Tasks, Receive(w, x)
         PROVE  row'[t].results + queue'[t] + orphans'[t] + a1 + budget'
                  <= row[t].results + queue[t] + orphans[t] + a + budget
    <2>1. UNCHANGED <<row, orphans, budget>> /\ a1 <= 1
      BY <1>5, <1>15 DEF Receive
    <2>2. CASE x = t
      <3>1. queue'[t] = queue[t] - 1
        BY <1>15, <2>2 DEF Receive, TypeOK
      <3>2. QED
        BY <1>3, <2>1, <3>1
    <2>3. CASE x # t
      <3>1. queue'[t] = queue[t]
        BY <1>15, <2>3 DEF Receive, TypeOK
      <3>2. worker'[w].task # t
        BY <1>15, <2>3, PipelineAssumption DEF Receive, TypeOK, Idle
      <3>3. a1 = 0
        BY <1>5, <1>6, <3>2
      <3>4. QED
        BY <1>3, <2>1, <3>1, <3>3
    <2>4. QED
      BY <2>2, <2>3
  <1>16. QED
    BY <1>8, <1>9, <1>10, <1>11, <1>12, <1>13, <1>14, <1>15
       DEF WorkerStep, WorkerFault, SaveStep

LEMMA NextCounted == Known /\ Counted /\ [Next]_vars => Counted'
  <1> SUFFICES ASSUME Known, Counted, [Next]_vars
               PROVE  Counted'
    OBVIOUS
  <1>1. TypeOK /\ TypeOK' /\ Fresh
    BY NextType DEF Known
  <1>2. \A w \in Workers : AddsOne(w)'
    BY NextAddsOne DEF Counted
  <1>3. ASSUME NEW t \in Tasks
        PROVE  Paid(t)'
    <2>1. Paid(t) /\ \A w \in Workers : AddsOne(w)
      BY DEF Counted
    <2>2. CASE UNCHANGED vars
      BY <2>1, <2>2 DEF vars, Paid, Due, Executions, Uploads
    <2>3. ASSUME NEW u \in Users, DeleteAccount(u)
          PROVE  Paid(t)'
      <3>1. /\ UNCHANGED <<files, queue, orphans, worker, req, budget>>
            /\ row'[t].results <= row[t].results
        BY <1>1, <2>3, CountTypes, RowFacts DEF DeleteAccount
      <3>2. Executions(t)' = Executions(t) /\ Uploads(t)' = Uploads(t)
        BY <3>1 DEF Executions, Uploads
      <3>3. PICK e \in Nat, u1 \in Nat :
              e = Cardinality(Executions(t)) /\ u1 = Cardinality(Uploads(t))
        BY <1>1, CountTypes
      <3>4. PICK f \in Nat : f = (IF t \in files THEN 0 ELSE 1)
        OBVIOUS
      <3>5. row'[t].results \in Nat /\ row[t].results \in Nat /\ queue[t] \in Nat
              /\ orphans[t] \in Nat /\ budget \in Nat
        BY <1>1, CountTypes, RowFacts DEF TypeOK
      <3>6. row'[t].results + queue'[t] + orphans'[t] + e + u1 + f + budget'
              <= row[t].results + queue[t] + orphans[t] + e + u1 + f + budget
        BY <3>1, <3>5
      <3>7. QED
        BY <1>1, <2>1, <3>1, <3>2, <3>3, <3>4, <3>6, PaidStays
    <2>4. ASSUME NEW x \in Tasks, Restore(x)
          PROVE  Paid(t)'
      <3>1. UNCHANGED <<files, row, worker, req, budget>>
        BY <2>4 DEF Restore
      <3>2. Executions(t)' = Executions(t) /\ Uploads(t)' = Uploads(t)
        BY <3>1 DEF Executions, Uploads
      <3>3. PICK e \in Nat, u1 \in Nat :
              e = Cardinality(Executions(t)) /\ u1 = Cardinality(Uploads(t))
        BY <1>1, CountTypes
      <3>4. PICK f \in Nat : f = (IF t \in files THEN 0 ELSE 1)
        OBVIOUS
      <3>5. row[t].results \in Nat /\ queue[t] \in Nat
              /\ orphans[t] \in Nat /\ budget \in Nat
        BY <1>1, CountTypes
      <3>6. queue'[t] + orphans'[t] = queue[t] + orphans[t]
        BY <1>1, <2>4, <3>5 DEF Restore, TypeOK
      <3>7. queue'[t] \in Nat /\ orphans'[t] \in Nat
        BY <1>1 DEF TypeOK
      <3>8. row'[t].results + queue'[t] + orphans'[t] + e + u1 + f + budget'
              <= row[t].results + queue[t] + orphans[t] + e + u1 + f + budget
        BY <3>1, <3>5, <3>6, <3>7
      <3>9. QED
        BY <1>1, <2>1, <3>1, <3>2, <3>3, <3>4, <3>8, PaidStays
    <2>5. ASSUME NEW h \in Handlers,
                 HandlerStep(h) \/ SendUnsure(h) \/ ApiCrash(h)
                   \/ \E x \in Tasks : Upload(h, x) \/ CheckDelete(h, x)
          PROVE  Paid(t)'
      BY <1>1, <2>1, <2>5, HandlerPaid
    <2>6. ASSUME NEW w \in Workers,
                 WorkerStep(w) \/ WorkerFault(w) \/ \E x \in Tasks : Receive(w, x)
          PROVE  Paid(t)'
      BY <1>1, <2>1, <2>6, WorkerPaid
    <2>7. QED
      BY <2>2, <2>3, <2>4, <2>5, <2>6 DEF Next
  <1>4. QED
    BY <1>2, <1>3 DEF Counted

(* An execution never removes the detections of an earlier one, and each   *)
(* repeated set of detections of a task is the price of one fault.         *)
THEOREM RepeatsAlwaysPaid == Spec => []RepeatsNeedFaults
  <1>1. Known /\ Counted => RepeatsNeedFaults
    <2> SUFFICES ASSUME Known, Counted, NEW t \in Tasks
                 PROVE  row[t].results + budget <= MaxFaults + 1
      BY DEF RepeatsNeedFaults
    <2>1. PICK e \in Nat, u \in Nat, q \in Nat, o \in Nat, f \in Nat :
            /\ e = Cardinality(Executions(t)) /\ u = Cardinality(Uploads(t))
            /\ q = queue[t] /\ o = orphans[t] /\ f = (IF t \in files THEN 0 ELSE 1)
      BY CountTypes DEF Known
    <2>2. row[t].results + (q + o + e + u + f) + budget <= MaxFaults + 1
      BY <2>1 DEF Counted, Paid, Due
    <2>3. row[t].results \in Nat /\ budget \in Nat /\ MaxFaults \in Nat
      BY CountTypes DEF Known
    <2>4. QED
      BY <2>2, <2>3
  <1>2. QED
    BY <1>1, InitCounted, NextCounted, AlwaysKnown, PTL DEF Spec

-----------------------------------------------------------------------------
(* The number of saved tasks                                               *)

(* Every set of numbers has a least one.                                   *)
LEMMA LeastNumber ==
  ASSUME NEW T, T \subseteq Nat, T # {}
  PROVE  \E x \in T : \A y \in T : x <= y
  <1>1. PICK x \in T : \A y \in T : <<y, x>> \notin OpToRel(<, Nat)
    BY NatLessThanWellFounded, WFMin
  <1>2. ASSUME NEW y \in T, y < x
        PROVE  <<y, x>> \in OpToRel(<, Nat)
    BY <1>2 DEF OpToRel
  <1>3. ASSUME NEW y \in T
        PROVE  x <= y
    <2>1. ~(y < x) /\ x \in Nat /\ y \in Nat
      BY <1>1, <1>2
    <2>2. QED
      BY <2>1
  <1>4. QED
    BY <1>3

(* Among finitely many different times, at most n are later than fewer     *)
(* than n others.                                                          *)
LEMMA NewestAreFew ==
  ASSUME NEW S, IsFiniteSet(S), NEW c \in [S -> Nat],
         \A x, y \in S : c[x] = c[y] => x = y,
         NEW n \in Nat
  PROVE  Cardinality({x \in S : Cardinality({y \in S : c[y] > c[x]}) < n}) <= n
  <1> DEFINE Later(x) == {y \in S : c[y] > c[x]}
             T == {x \in S : Cardinality(Later(x)) < n}
  <1>1. T \subseteq S
    OBVIOUS
  <1>2. IsFiniteSet(T)
    BY <1>1, FS_Subset
  <1>3. CASE T = {}
    <2>1. Cardinality(T) = 0
      BY <1>3, FS_EmptySet
    <2>2. QED
      BY <2>1
  <1>4. CASE T # {}
    <2> HIDE DEF T, Later
    <2> DEFINE M == {c[x] : x \in T}
    <2>1. M \subseteq Nat /\ M # {}
      BY <1>1, <1>4
    <2>2. PICK low \in M : \A m \in M : low <= m
      <3> HIDE DEF M
      <3>1. QED
        BY <2>1, LeastNumber
    <2>3. PICK x \in T : c[x] = low
      BY <2>2
    <2>4. \A y \in T \ {x} : c[y] > c[x]
      <3>1. SUFFICES ASSUME NEW y \in T \ {x}
                     PROVE  c[y] > c[x]
        OBVIOUS
      <3>2. c[x] <= c[y] /\ c[x] # c[y] /\ c[x] \in Nat /\ c[y] \in Nat
        BY <1>1, <2>2, <2>3
      <3>3. QED
        BY <3>2
    <2>5. T \ {x} \subseteq Later(x)
      BY <1>1, <2>4 DEF Later
    <2>6. Later(x) \in SUBSET S /\ Cardinality(Later(x)) < n
      BY <2>3 DEF T, Later
    <2>7. IsFiniteSet(Later(x)) /\ Cardinality(Later(x)) \in Nat
      BY <2>6, FS_Subset, FS_CardinalityType
    <2>8. Cardinality(T \ {x}) <= Cardinality(Later(x))
      BY <2>5, <2>7, FS_Subset
    <2>9. Cardinality(T \ {x}) = Cardinality(T) - 1 /\ Cardinality(T) \in Nat
      BY <1>2, <2>3, FS_RemoveElement, FS_CardinalityType
    <2>10. Cardinality(T) <= n
      BY <2>6, <2>7, <2>8, <2>9
    <2>11. QED
      BY <2>10 DEF T, Later
  <1>5. QED
    BY <1>3, <1>4

(* A task becomes COMPLETED, and gets a completed_at, by the commit of its *)
(* last transaction alone.                                                 *)
LEMMA WhoCompletes ==
  ASSUME Known, Next, NEW t \in Tasks
  PROVE  \/ \E w \in Workers : /\ Commit(w) /\ worker[w].task = t
                               /\ t \notin worker[w].victims /\ row'[t] = worker[w].seen
         \/ /\ row'[t].completed_at \in {row[t].completed_at, 0}
            /\ row'[t].status = "COMPLETED" =>
                 row[t].status = "COMPLETED" /\ row'[t].completed_at = row[t].completed_at
  <1>1. TypeOK
    BY DEF Known
  <1>2. CASE Kept(t)
    BY <1>2, RowFacts DEF Kept
  <1>3. ASSUME NEW h \in Handlers, req[h].task = t, CommitTask(h) \/ MarkFailed(h)
        PROVE  row'[t].completed_at \in {row[t].completed_at, 0} /\ row'[t].status # "COMPLETED"
    <2>1. CASE CommitTask(h)
      BY <1>1, <1>3, <2>1, RowFacts DEF CommitTask, TypeOK
    <2>2. CASE MarkFailed(h)
      <3>1. row[t].status = "none" => row[t].status # "COMPLETED"
        OBVIOUS
      <3>2. QED
        BY <1>1, <1>3, <2>2, <3>1, MarkRow DEF Exists
    <2>3. QED
      BY <1>3, <2>1, <2>2
  <1>4. ASSUME NEW w \in Workers, worker[w] \in Job, worker[w].task = t, SaveStep(w)
        PROVE  /\ row'[t].completed_at = row[t].completed_at
               /\ row'[t].status \in {row[t].status, "PROCESSING"}
    <2>1. PICK to \in {"started", "downloaded", "inferred"}, new \in Row : Wrote(w, to, new)
      BY <1>1, <1>4, SaveWrote
    <2>2. QED
      BY <1>1, <1>4, <2>1, SaveRow
  <1>5. ASSUME NEW w \in Workers, worker[w].task = t, Fail(w)
        PROVE  /\ row'[t].completed_at = row[t].completed_at
               /\ row'[t].status \in {row[t].status, "FAILED"}
    BY <1>1, <1>5, FailRow
  <1>6. ASSUME NEW w \in Workers, worker[w].task = t, Commit(w)
        PROVE  \/ t \notin worker[w].victims /\ row'[t] = worker[w].seen
               \/ row'[t] = NoRow
    BY <1>1, <1>6, CommitRow
  <1>7. QED
    BY <1>1, <1>2, <1>3, <1>4, <1>5, <1>6, WhoWrites, RowFacts

(* A process holds its lock until it commits or fails.                     *)
LEMMA LockHeld ==
  ASSUME Known, Next, NEW w \in Workers, worker'[w].pc = "flushed"
  PROVE  \/ Finish(w)
         \/ /\ worker[w].pc = "flushed" /\ worker'[w].task = worker[w].task
            /\ worker'[w].seen = worker[w].seen /\ worker'[w].victims = worker[w].victims
  BY OnlyFinishLocks, LockedRow DEF Known

(* The times of completion are all different.                              *)
Times ==
  /\ \A s, t \in Tasks :
       row[s].completed_at > 0 /\ row[s].completed_at = row[t].completed_at => s = t
  /\ \A w \in Workers : worker[w].pc = "flushed" =>
       \A t \in Tasks \ {worker[w].task} : row[t].completed_at # worker[w].seen.completed_at
  /\ \A v, w \in Workers :
       worker[v].pc = "flushed" /\ worker[w].pc = "flushed" =>
         (worker[v].seen.completed_at = worker[w].seen.completed_at => v = w)

LEMMA NextTimes ==
  ASSUME Known, Times, Next
  PROVE  Times'
  <1>1. TypeOK /\ Truthful
    BY DEF Known
  <1>2. ASSUME NEW w \in Workers, worker[w].pc = "flushed"
        PROVE  /\ worker[w].seen.completed_at \in Nat
               /\ worker[w].seen.completed_at > 0 /\ worker[w].seen.completed_at <= clock
    BY <1>1, <1>2, BusyWorker, RowFacts DEF Truthful, TruthfulSessions, TruthfulSession, Job
  <1>3. \A t \in Tasks : row[t].completed_at \in Nat /\ row[t].completed_at <= clock
    BY <1>1, RowFacts DEF Truthful, TruthfulRows, TruthfulRow, TypeOK
  <1>4. ASSUME NEW w \in Workers, Finish(w)
        PROVE  /\ worker'[w].seen.completed_at = clock + 1
               /\ row' = row /\ \A v \in Workers \ {w} : worker'[v] = worker[v]
               /\ worker[w].pc # "flushed" /\ clock \in Nat
    <2>1. /\ worker[w].pc = "inferred" /\ row' = row
          /\ \A v \in Workers \ {w} : worker'[v] = worker[v]
          /\ worker'[w].seen.completed_at
               = IF worker[w].seen.completed_at = clock + 1
                 THEN row[worker[w].task].completed_at ELSE clock + 1
      BY <1>1, <1>4, FinishFacts
    <2>2. worker[w].seen.completed_at <= clock /\ worker[w].seen.completed_at \in Nat /\ clock \in Nat
      BY <1>1, <2>1, BusyWorker, RowFacts
         DEF Truthful, TruthfulSessions, TruthfulSession, Job, TypeOK
    <2>3. QED
      BY <2>1, <2>2
  <1>5. ASSUME NEW s \in Tasks, NEW t \in Tasks,
               row'[s].completed_at > 0, row'[s].completed_at = row'[t].completed_at
        PROVE  s = t
    <2>1. \/ \E w \in Workers : /\ worker[w].pc = "flushed" /\ worker[w].task = s
                                /\ row'[s] = worker[w].seen
          \/ row'[s].completed_at = row[s].completed_at
      BY <1>5, WhoCompletes DEF Commit
    <2>2. \/ \E w \in Workers : /\ worker[w].pc = "flushed" /\ worker[w].task = t
                                /\ row'[t] = worker[w].seen
          \/ row'[t].completed_at = row[t].completed_at
      BY <1>5, WhoCompletes DEF Commit
    <2>3. QED
      BY <1>2, <1>3, <1>5, <2>1, <2>2 DEF Times
  <1>6. ASSUME NEW w \in Workers, worker'[w].pc = "flushed",
               NEW t \in Tasks, t # worker'[w].task
        PROVE  row'[t].completed_at # worker'[w].seen.completed_at
    <2>1. CASE Finish(w)
      BY <1>3, <1>4, <2>1
    <2>2. CASE ~Finish(w)
      <3>1. /\ worker[w].pc = "flushed" /\ worker'[w].task = worker[w].task
            /\ worker'[w].seen = worker[w].seen
        BY <1>6, <2>2, LockHeld
      <3>2. \/ \E v \in Workers : /\ worker[v].pc = "flushed" /\ worker[v].task = t
                                  /\ row'[t] = worker[v].seen
            \/ row'[t].completed_at \in {row[t].completed_at, 0}
        BY WhoCompletes DEF Commit
      <3>3. QED
        BY <1>2, <1>6, <3>1, <3>2 DEF Times
    <2>3. QED
      BY <2>1, <2>2
  <1>7. ASSUME NEW v \in Workers, NEW w \in Workers,
               worker'[v].pc = "flushed", worker'[w].pc = "flushed",
               worker'[v].seen.completed_at = worker'[w].seen.completed_at
        PROVE  v = w
    <2>1. CASE Finish(v) \/ Finish(w)
      BY <1>2, <1>4, <1>7, <2>1
    <2>2. CASE ~Finish(v) /\ ~Finish(w)
      BY <1>7, <2>2, LockHeld DEF Times
    <2>3. QED
      BY <2>1, <2>2
  <1>8. QED
    BY <1>5, <1>6, <1>7 DEF Times

(* The last transactions that began before that of w and are still open.   *)
Elders(w) ==
  {v \in Workers : worker[v].pc = "flushed"
                   /\ worker[v].seen.completed_at < worker[w].seen.completed_at}

(* What would be saved of the account if w committed now.                  *)
After(w) ==
  (Saved(row, Owner[worker[w].task]) \union {worker[w].task}) \ worker[w].victims

(* Every open transaction that is older can still add one task.            *)
Room(w) ==
  worker[w].pc = "flushed" =>
    Cardinality(After(w)) + Cardinality(Elders(w)) + 1 <= Limit + Cardinality(Workers)

Limited ==
  /\ IsFiniteSet(files)
  /\ Times
  /\ \A w \in Workers : Room(w)
  /\ SavedWithinLimit

LEMMA InitLimited == Init => Limited
  <1> SUFFICES ASSUME Init
               PROVE  Limited
    OBVIOUS
  <1>1. IsFiniteSet(files)
    BY FS_EmptySet DEF Init
  <1>2. Times /\ \A w \in Workers : Room(w)
    BY DEF Init, Times, Room, NoRow, Idle
  <1>3. ASSUME NEW u \in Users
        PROVE  Cardinality(Saved(row, u)) < Limit + Cardinality(Workers)
    <2>1. Saved(row, u) = {}
      BY DEF Init, Saved, NoRow
    <2>2. Cardinality(Workers) \in Nat /\ Limit \in Nat \ {0}
      BY PipelineAssumption, FS_CardinalityType
    <2>3. QED
      BY <2>1, <2>2, FS_EmptySet
  <1>4. QED
    BY <1>1, <1>2, <1>3 DEF Limited, SavedWithinLimit

LEMMA LimitTypes ==
  ASSUME Known, IsFiniteSet(files)
  PROVE  /\ \A u : IsFiniteSet(Saved(row, u)) /\ Cardinality(Saved(row, u)) \in Nat
         /\ \A w \in Workers : IsFiniteSet(After(w)) /\ Cardinality(After(w)) \in Nat
         /\ \A w \in Workers : IsFiniteSet(Elders(w)) /\ Cardinality(Elders(w)) \in Nat
         /\ Cardinality(Workers) \in Nat /\ Limit \in Nat
  <1>1. ASSUME NEW u
        PROVE  IsFiniteSet(Saved(row, u))
    <2>1. Saved(row, u) \subseteq files
      BY DEF Saved, Known, Backed, RowsAreBacked, Exists
    <2>2. QED
      BY <2>1, FS_Subset
  <1>2. ASSUME NEW w \in Workers
        PROVE  IsFiniteSet(After(w))
    <2> DEFINE A == Saved(row, Owner[worker[w].task]) \union {worker[w].task}
    <2>1. IsFiniteSet(A)
      BY <1>1, FS_AddElement
    <2>2. After(w) \subseteq A
      BY DEF After
    <2> HIDE DEF A
    <2>3. QED
      BY <2>1, <2>2, FS_Subset
  <1>3. \A w \in Workers : IsFiniteSet(Elders(w))
    BY PipelineAssumption, FS_Subset DEF Elders
  <1>4. QED
    BY <1>1, <1>2, <1>3, PipelineAssumption, FS_CardinalityType

LEMMA NextFinite ==
  ASSUME IsFiniteSet(files), [Next]_vars
  PROVE  IsFiniteSet(files')
  <1>1. ASSUME NEW h \in Handlers, NEW x \in Tasks, Upload(h, x)
        PROVE  IsFiniteSet(files')
    BY <1>1, FS_AddElement DEF Upload
  <1>2. CASE UNCHANGED files
    BY <1>2
  <1>3. QED
    BY <1>1, <1>2
       DEF Next, vars, HandlerStep, CommitTask, Send, SendFails, MarkFailed, Delete, SendUnsure,
           ApiCrash, CheckDelete, DeleteAccount, Restore, WorkerStep, WorkerFault, Start,
           Download, Report, Infer, Save, Finish, Commit, Fail, Ack, FailUnrecorded,
           CrashWorker, LoseChild, Timeout, Receive

(* Steps that complete no task make room.                                  *)
LEMMA QuietLimited ==
  ASSUME Known, Limited, Next, \A w \in Workers : ~Commit(w) /\ ~Finish(w)
  PROVE  SavedWithinLimit' /\ \A w \in Workers : Room(w)'
  <1>1. \A u : Saved(row', u) \subseteq Saved(row, u)
    BY WhoCompletes DEF Saved
  <1>2. ASSUME NEW u \in Users
        PROVE  Cardinality(Saved(row', u)) < Limit + Cardinality(Workers)
    <2>1. IsFiniteSet(Saved(row, u)) /\ Cardinality(Saved(row, u)) \in Nat
            /\ Cardinality(Workers) \in Nat /\ Limit \in Nat
      BY LimitTypes DEF Limited
    <2>2. Cardinality(Saved(row', u)) <= Cardinality(Saved(row, u))
            /\ Cardinality(Saved(row', u)) \in Nat
      BY <1>1, <2>1, FS_Subset, FS_CardinalityType
    <2>3. Cardinality(Saved(row, u)) < Limit + Cardinality(Workers)
      BY DEF Limited, SavedWithinLimit
    <2>4. QED
      BY <2>1, <2>2, <2>3
  <1>3. ASSUME NEW w \in Workers, worker'[w].pc = "flushed"
        PROVE  Room(w)'
    <2>1. \A v \in Workers : worker'[v].pc = "flushed" =>
             /\ worker[v].pc = "flushed" /\ worker'[v].task = worker[v].task
             /\ worker'[v].seen = worker[v].seen /\ worker'[v].victims = worker[v].victims
      BY LockHeld
    <2>2. After(w)' \subseteq After(w)
      BY <1>1, <1>3, <2>1 DEF After
    <2>3. Elders(w)' \subseteq Elders(w)
      BY <1>3, <2>1 DEF Elders
    <2>4. PICK a \in Nat, e \in Nat, n \in Nat :
            a = Cardinality(After(w)) /\ e = Cardinality(Elders(w)) /\ n = Cardinality(Workers)
      BY LimitTypes DEF Limited
    <2>5. IsFiniteSet(After(w)) /\ IsFiniteSet(Elders(w))
      BY LimitTypes DEF Limited
    <2>6. PICK a1 \in Nat, e1 \in Nat :
            /\ a1 = Cardinality(After(w)') /\ e1 = Cardinality(Elders(w)')
            /\ a1 <= a /\ e1 <= e
      BY <2>2, <2>3, <2>4, <2>5, FS_Subset, FS_CardinalityType
    <2>7. a + e + 1 <= Limit + n
      BY <1>3, <2>1, <2>4 DEF Limited, Room
    <2>8. a1 + e1 + 1 <= Limit + n
      BY <2>6, <2>7, PipelineAssumption
    <2>9. QED
      BY <2>4, <2>6, <2>8 DEF Room
  <1>4. QED
    BY <1>2, <1>3 DEF SavedWithinLimit, Room

(* What an open transaction leaves is what it would have left before it    *)
(* began, as it was selected among all rows.                               *)
LEMMA FinishLimited ==
  ASSUME Known, Limited, Next, NEW w \in Workers, Finish(w)
  PROVE  SavedWithinLimit' /\ \A v \in Workers : Room(v)'
  <1>1. TypeOK /\ TypeOK' /\ Truthful
    BY NextType DEF Known
  <1>2. /\ worker[w].pc = "inferred" /\ worker[w] \in Job /\ row' = row
        /\ \A v \in Workers \ {w} : worker'[v] = worker[v]
        /\ worker'[w].pc = "flushed" /\ worker'[w].task = worker[w].task
    BY <1>1, FinishFacts
  <1>3. PICK k \in Tasks : k = worker[w].task
    BY <1>2 DEF Job
  <1>4. PICK d \in Row : d = worker'[w].seen
    BY <1>1, FinishFacts
  <1>5. worker[w].seen.completed_at <= clock /\ worker[w].seen.completed_at \in Nat
          /\ clock \in Nat /\ worker[w].seen.status = "PROCESSING"
    BY <1>1, <1>2, RowFacts DEF Truthful, TruthfulSessions, TruthfulSession, Job, TypeOK
  <1>6. d.status = "COMPLETED" /\ d.completed_at = clock + 1
    <2>1. /\ d.status = IF worker[w].seen.status = "COMPLETED" THEN row[k].status
                        ELSE "COMPLETED"
          /\ d.completed_at = IF worker[w].seen.completed_at = clock + 1
                              THEN row[k].completed_at ELSE clock + 1
      BY <1>1, <1>3, <1>4, FinishFacts
    <2>2. QED
      BY <1>5, <2>1
  <1> DEFINE r == [row EXCEPT ![k] = d]
             S == Saved(r, Owner[k])
  <1>7. worker'[w].victims = Surplus(r, Owner[k])
    BY <1>1, <1>3, <1>4, FinishFacts
  <1>8. /\ \A t \in Tasks : r[t] = IF t = k THEN d ELSE row[t]
        /\ S = Saved(row, Owner[k]) \union {k}
    BY <1>1, <1>6 DEF TypeOK, Saved
  <1>9. IsFiniteSet(S)
    <2>1. IsFiniteSet(Saved(row, Owner[k]))
      BY LimitTypes DEF Limited
    <2> HIDE DEF S
    <2>2. QED
      BY <1>8, <2>1, FS_AddElement
  <1>10. Cardinality(After(w)') <= Limit
    <2> DEFINE c == [t \in S |-> r[t].completed_at]
               N == {t \in S : Cardinality({x \in S : c[x] > c[t]}) < Limit}
    <2>1. \A t \in S : t \in Tasks /\ r[t] \in Row /\ r[t].status = "COMPLETED"
      BY <1>1, <1>8 DEF TypeOK, Saved
    <2>2. \A s, t \in S : r[s].completed_at = r[t].completed_at => s = t
      <3>1. \A t \in Tasks : row[t].completed_at <= clock
        BY <1>1 DEF Truthful, TruthfulRows, TruthfulRow
      <3>2. \A t \in S \ {k} : row[t].completed_at > 0 /\ row[t].status = "COMPLETED"
        BY <1>1, <1>8, <2>1 DEF Truthful, TruthfulRows, TruthfulRow, Saved
      <3>3. \A t \in Tasks : row[t].completed_at \in Nat
        BY <1>1, RowFacts DEF TypeOK
      <3>4. SUFFICES ASSUME NEW s \in S, NEW t \in S, r[s].completed_at = r[t].completed_at,
                            s # t
                     PROVE  FALSE
        OBVIOUS
      <3> HIDE DEF S, c, N, r
      <3>5. CASE s = k
        BY <1>5, <1>6, <1>8, <2>1, <3>1, <3>3, <3>4, <3>5
      <3>6. CASE t = k
        BY <1>5, <1>6, <1>8, <2>1, <3>1, <3>3, <3>4, <3>6
      <3>7. CASE s # k /\ t # k
        BY <1>8, <2>1, <3>2, <3>4, <3>7 DEF Limited, Times
      <3>8. QED
        BY <3>5, <3>6, <3>7
    <2>3. c \in [S -> Nat] /\ \A s, t \in S : c[s] = c[t] => s = t
      BY <2>1, <2>2, RowFacts
    <2>4. Cardinality(N) <= Limit
      <3>1. Limit \in Nat
        BY PipelineAssumption
      <3> HIDE DEF S, c
      <3>2. QED
        BY <1>9, <2>3, <3>1, NewestAreFew
    <2>5. After(w)' = S \ Surplus(r, Owner[k])
      BY <1>2, <1>3, <1>7, <1>8 DEF After
    <2>6. \A t \in S : {x \in S : r[x].completed_at > r[t].completed_at} = {x \in S : c[x] > c[t]}
      OBVIOUS
    <2>7. ASSUME NEW t \in S
          PROVE  /\ Cardinality({x \in S : c[x] > c[t]}) \in Nat
                 /\ t \in Surplus(r, Owner[k]) <=> Cardinality({x \in S : c[x] > c[t]}) >= Limit
      <3> DEFINE Later == {x \in S : c[x] > c[t]}
      <3>1. Later \subseteq S /\ Later = {x \in S : r[x].completed_at > r[t].completed_at}
        BY <2>6
      <3>2. t \in Surplus(r, Owner[k]) <=>
              Cardinality({x \in S : r[x].completed_at > r[t].completed_at}) >= Limit
        BY DEF Surplus
      <3> HIDE DEF Later, S, c, r, N
      <3>3. IsFiniteSet(Later)
        BY <1>9, <3>1, FS_Subset
      <3>4. Cardinality(Later) \in Nat
        BY <3>3, FS_CardinalityType
      <3>5. t \in Surplus(r, Owner[k]) <=> Cardinality(Later) >= Limit
        BY <3>1, <3>2
      <3>6. QED
        BY <3>4, <3>5 DEF Later
    <2>8. ASSUME NEW t \in S
          PROVE  t \notin Surplus(r, Owner[k]) <=> t \in N
      <3> DEFINE rank == Cardinality({x \in S : c[x] > c[t]})
      <3>1. /\ rank \in Nat
            /\ t \in Surplus(r, Owner[k]) <=> rank >= Limit
            /\ t \in N <=> rank < Limit
        BY <2>7
      <3> HIDE DEF rank, S, N, r, c
      <3>2. QED
        BY <3>1, PipelineAssumption
    <2>9. S \ Surplus(r, Owner[k]) = N
      BY <2>8
    <2>10. QED
      BY <2>4, <2>5, <2>9
  <1>11. SavedWithinLimit'
    BY <1>2 DEF Limited, SavedWithinLimit
  <1>12. ASSUME NEW v \in Workers, worker[v].pc = "flushed"
         PROVE  worker[v].seen.completed_at < clock + 1 /\ v # w
    <2>1. worker[v].seen.completed_at \in Nat /\ worker[v].seen.completed_at <= clock
      BY <1>1, <1>12, BusyWorker, RowFacts DEF Truthful, TruthfulSessions, TruthfulSession, Job
    <2>2. QED
      BY <1>2, <1>5, <1>12, <2>1
  <1>13. Room(w)'
    <2>1. Elders(w)' \subseteq Workers \ {w}
      BY <1>1, <1>4, <1>6, RowFacts DEF Elders
    <2>2. PICK n \in Nat : n = Cardinality(Workers)
      BY LimitTypes DEF Limited
    <2>3. IsFiniteSet(Workers \ {w}) /\ Cardinality(Workers \ {w}) = n - 1
      BY <2>2, PipelineAssumption, FS_RemoveElement
    <2>4. PICK e1 \in Nat : e1 = Cardinality(Elders(w)') /\ e1 <= n - 1
      BY <2>1, <2>3, FS_Subset, FS_CardinalityType
    <2>5. IsFiniteSet(After(w)')
      <3>1. After(w)' \subseteq S
        BY <1>2, <1>3, <1>8 DEF After
      <3> HIDE DEF S
      <3>2. QED
        BY <1>9, <3>1, FS_Subset
    <2>6. PICK a1 \in Nat : a1 = Cardinality(After(w)') /\ a1 <= Limit
      BY <1>10, <2>5, FS_CardinalityType
    <2>7. a1 + e1 + 1 <= Limit + n
      BY <2>2, <2>4, <2>6, PipelineAssumption
    <2>8. QED
      BY <2>2, <2>4, <2>6, <2>7 DEF Room
  <1>14. ASSUME NEW v \in Workers \ {w}, worker'[v].pc = "flushed"
         PROVE  Room(v)'
    <2>1. worker'[v] = worker[v] /\ worker[v].pc = "flushed"
      BY <1>2, <1>14
    <2>2. After(v)' = After(v)
      BY <1>2, <2>1 DEF After
    <2>3. Elders(v)' = Elders(v)
      <3>1. worker[v].seen.completed_at < clock + 1 /\ worker[v].seen.completed_at \in Nat
        BY <1>1, <1>12, <2>1, BusyWorker, RowFacts DEF Job
      <3>2. ~(worker'[w].seen.completed_at < worker'[v].seen.completed_at)
        BY <1>4, <1>5, <1>6, <2>1, <3>1
      <3>3. QED
        BY <1>2, <2>1, <3>2 DEF Elders
    <2>4. QED
      BY <2>1, <2>2, <2>3 DEF Limited, Room
  <1>15. QED
    BY <1>11, <1>13, <1>14 DEF Room

(* A commit adds one task to what the open transactions see, and uses the  *)
(* room that they leave for their elders.                                  *)
LEMMA CommitLimited ==
  ASSUME Known, Limited, Next, NEW w \in Workers, Commit(w)
  PROVE  SavedWithinLimit' /\ \A v \in Workers : Room(v)'
  <1>1. TypeOK /\ TypeOK'
    BY NextType DEF Known
  <1>2. /\ worker[w].pc = "flushed" /\ worker[w] \in Job /\ worker'[w].pc = "done"
        /\ \A v \in Workers \ {w} : worker'[v] = worker[v]
    BY <1>1, EndFacts DEF Commit, Ended
  <1>3. PICK k \in Tasks : k = worker[w].task
    BY <1>2 DEF Job
  <1>4. \A t \in Tasks : row'[t] = IF t \in worker[w].victims THEN NoRow
                                   ELSE IF t = k THEN worker[w].seen ELSE row[t]
    BY <1>1, <1>3, CommitRow
  <1>5. /\ Saved(row', Owner[k]) \subseteq After(w)
        /\ \A u : u # Owner[k] => Saved(row', u) \subseteq Saved(row, u)
    BY <1>3, <1>4, RowFacts DEF Saved, After
  <1>6. PICK a \in Nat, e \in Nat, n \in Nat :
          a = Cardinality(After(w)) /\ e = Cardinality(Elders(w)) /\ n = Cardinality(Workers)
    BY LimitTypes DEF Limited
  <1>7. a + e + 1 <= Limit + n /\ Limit \in Nat
    BY <1>2, <1>6, PipelineAssumption DEF Limited, Room
  <1>8. IsFiniteSet(After(w)) /\ IsFiniteSet(Elders(w))
    BY LimitTypes DEF Limited
  <1>9. ASSUME NEW u \in Users
        PROVE  Cardinality(Saved(row', u)) < Limit + Cardinality(Workers)
    <2>1. CASE u = Owner[k]
      <3>1. PICK s1 \in Nat : s1 = Cardinality(Saved(row', u)) /\ s1 <= a
        BY <1>5, <1>6, <1>8, <2>1, FS_Subset, FS_CardinalityType
      <3>2. s1 < Limit + n
        BY <1>7, <3>1
      <3>3. QED
        BY <1>6, <3>1, <3>2
    <2>2. CASE u # Owner[k]
      <3>1. IsFiniteSet(Saved(row, u)) /\ Saved(row', u) \subseteq Saved(row, u)
        BY <1>5, <2>2, LimitTypes DEF Limited
      <3>2. PICK s \in Nat, s1 \in Nat :
              s = Cardinality(Saved(row, u)) /\ s1 = Cardinality(Saved(row', u)) /\ s1 <= s
        BY <3>1, FS_Subset, FS_CardinalityType
      <3>3. s < Limit + n
        BY <1>6, <3>2 DEF Limited, SavedWithinLimit
      <3>4. s1 < Limit + n
        BY <1>7, <3>2, <3>3
      <3>5. QED
        BY <1>6, <3>2, <3>4
    <2>3. QED
      BY <2>1, <2>2
  <1>10. ASSUME NEW v \in Workers, worker'[v].pc = "flushed"
         PROVE  Room(v)'
    <2>1. v # w /\ worker'[v] = worker[v] /\ worker[v].pc = "flushed"
      BY <1>2, <1>10
    <2>2. PICK j \in Tasks : j = worker[v].task
      BY <1>1, <2>1, BusyWorker DEF Job
    <2>3. PICK b \in Nat, g \in Nat : b = Cardinality(After(v)) /\ g = Cardinality(Elders(v))
      BY LimitTypes DEF Limited
    <2>4. IsFiniteSet(After(v)) /\ IsFiniteSet(Elders(v))
      BY LimitTypes DEF Limited
    <2>5. b + g + 1 <= Limit + n
      BY <1>6, <2>1, <2>3 DEF Limited, Room
    <2>6. Elders(v)' = Elders(v) \ {w}
      BY <1>2, <2>1 DEF Elders
    <2>7. PICK g1 \in Nat : /\ g1 = Cardinality(Elders(v)')
                            /\ g1 = IF w \in Elders(v) THEN g - 1 ELSE g
      BY <2>3, <2>4, <2>6, FS_RemoveElement, FS_CardinalityType
    <2>8. After(v)' = (Saved(row', Owner[j]) \union {j}) \ worker[v].victims
      BY <2>1, <2>2 DEF After
    <2>9. CASE Owner[j] # Owner[k]
      <3>1. After(v)' \subseteq After(v)
        BY <1>5, <2>2, <2>8, <2>9 DEF After
      <3>2. PICK b1 \in Nat : b1 = Cardinality(After(v)') /\ b1 <= b
        BY <2>3, <2>4, <3>1, FS_Subset, FS_CardinalityType
      <3>3. b1 + g1 + 1 <= Limit + n
        BY <1>7, <2>5, <2>7, <3>2
      <3>4. QED
        BY <1>6, <2>7, <3>2, <3>3 DEF Room
    <2>10. CASE Owner[j] = Owner[k] /\ w \in Elders(v)
      <3>1. After(v)' \subseteq After(v) \union {k}
        BY <1>3, <1>4, <2>2, <2>8, <2>10, RowFacts DEF After, Saved
      <3>2. /\ IsFiniteSet(After(v) \union {k})
            /\ Cardinality(After(v) \union {k}) <= b + 1
        <4>1. /\ IsFiniteSet(After(v) \union {k})
              /\ Cardinality(After(v) \union {k})
                   = IF k \in After(v) THEN Cardinality(After(v)) ELSE Cardinality(After(v)) + 1
          BY <2>4, FS_AddElement
        <4>2. QED
          BY <2>3, <4>1
      <3>3. PICK b1 \in Nat : b1 = Cardinality(After(v)') /\ b1 <= b + 1
        <4>1. /\ IsFiniteSet(After(v)') /\ Cardinality(After(v)') \in Nat
              /\ Cardinality(After(v)') <= Cardinality(After(v) \union {k})
              /\ Cardinality(After(v) \union {k}) \in Nat
          BY <3>1, <3>2, FS_Subset, FS_CardinalityType
        <4>2. QED
          BY <3>2, <4>1
      <3>4. b1 + g1 + 1 <= Limit + n
        BY <1>7, <2>5, <2>7, <2>10, <3>3
      <3>5. QED
        BY <1>6, <2>7, <3>3, <3>4 DEF Room
    <2>11. CASE Owner[j] = Owner[k] /\ w \notin Elders(v)
      <3>1. worker[v].seen.completed_at < worker[w].seen.completed_at
        <4>1. worker[v].seen.completed_at \in Nat /\ worker[w].seen.completed_at \in Nat
          BY <1>1, <1>2, <2>1, BusyWorker, RowFacts DEF Job
        <4>2. worker[v].seen.completed_at # worker[w].seen.completed_at
          BY <1>2, <2>1 DEF Limited, Times
        <4>3. ~(worker[w].seen.completed_at < worker[v].seen.completed_at)
          BY <1>2, <2>11 DEF Elders
        <4>4. QED
          BY <4>1, <4>2, <4>3
      <3>2. Elders(v) \subseteq Elders(w) \ {v} /\ v \in Elders(w)
        <4>1. ASSUME NEW x \in Elders(v)
              PROVE  x \in Elders(w) \ {v}
          <5>1. /\ worker[x].seen.completed_at \in Nat /\ worker[v].seen.completed_at \in Nat
                /\ worker[w].seen.completed_at \in Nat
            BY <1>1, <1>2, <2>1, <4>1, BusyWorker, RowFacts DEF Job, Elders
          <5>2. QED
            BY <3>1, <4>1, <5>1 DEF Elders
        <4>2. QED
          BY <2>1, <3>1, <4>1 DEF Elders
      <3>3. g <= e - 1
        <4>1. IsFiniteSet(Elders(w) \ {v}) /\ Cardinality(Elders(w) \ {v}) = e - 1
          BY <1>6, <1>8, <3>2, FS_RemoveElement
        <4>2. Cardinality(Elders(v)) <= Cardinality(Elders(w) \ {v})
          BY <3>2, <4>1, FS_Subset
        <4>3. QED
          BY <2>3, <4>1, <4>2
      <3>4. After(v)' \subseteq After(w) \union {j}
        BY <1>5, <2>8, <2>11
      <3>5. /\ IsFiniteSet(After(w) \union {j})
            /\ Cardinality(After(w) \union {j}) <= a + 1
        <4>1. /\ IsFiniteSet(After(w) \union {j})
              /\ Cardinality(After(w) \union {j})
                   = IF j \in After(w) THEN Cardinality(After(w)) ELSE Cardinality(After(w)) + 1
          BY <1>8, FS_AddElement
        <4>2. QED
          BY <1>6, <4>1
      <3>6. PICK b1 \in Nat : b1 = Cardinality(After(v)') /\ b1 <= a + 1
        <4>1. /\ IsFiniteSet(After(v)') /\ Cardinality(After(v)') \in Nat
              /\ Cardinality(After(v)') <= Cardinality(After(w) \union {j})
              /\ Cardinality(After(w) \union {j}) \in Nat
          BY <3>4, <3>5, FS_Subset, FS_CardinalityType
        <4>2. QED
          BY <3>5, <4>1
      <3>7. b1 + g1 + 1 <= Limit + n
        BY <1>7, <2>7, <2>11, <3>3, <3>6
      <3>8. QED
        BY <1>6, <2>7, <3>6, <3>7 DEF Room
    <2>12. QED
      BY <2>9, <2>10, <2>11
  <1>11. QED
    BY <1>9, <1>10 DEF SavedWithinLimit, Room

LEMMA NextLimited == Known /\ Limited /\ [Next]_vars => Limited'
  <1> SUFFICES ASSUME Known, Limited, [Next]_vars
               PROVE  Limited'
    OBVIOUS
  <1>1. IsFiniteSet(files')
    BY NextFinite DEF Limited
  <1>2. CASE UNCHANGED vars
    <2>1. Times' /\ SavedWithinLimit'
      BY <1>2 DEF vars, Limited, Times, SavedWithinLimit
    <2>2. \A w \in Workers : Room(w)'
      BY <1>2 DEF vars, Limited, Room, After, Elders
    <2>3. QED
      BY <1>1, <2>1, <2>2 DEF Limited
  <1>3. CASE Next
    BY <1>1, <1>3, NextTimes, QuietLimited, FinishLimited, CommitLimited DEF Limited
  <1>4. QED
    BY <1>2, <1>3

LEMMA AlwaysLimited == Spec => []Limited
  BY InitLimited, NextLimited, AlwaysKnown, PTL DEF Spec

(* The limit on saved tasks is exceeded by less than the number of worker  *)
(* processes: one process keeps it, and each further one can add one task  *)
(* that the others do not see yet.                                         *)
THEOREM AlmostWithinLimit == Spec => []SavedWithinLimit
  <1>1. Limited => SavedWithinLimit
    BY DEF Limited
  <1>2. QED
    BY <1>1, AlwaysLimited, PTL

-----------------------------------------------------------------------------
(* What trimming may remove                                                *)

(* While w is about to commit, what it is going to remove stays as it was  *)
(* selected, or is removed by somebody else.                               *)
Picked(w) ==
  worker[w].pc = "flushed" =>
    /\ worker[w].task \notin worker[w].victims
    /\ \A t \in worker[w].victims :
         /\ Owner[t] = Owner[worker[w].task]
         /\ t \in files
         /\ \A h \in Handlers : ~(req[h].op = "commit" /\ req[h].task = t)
         /\ row[t].status \in {"COMPLETED", "none"}
         /\ row[t].status = "COMPLETED" => row[t].completed_at < worker[w].seen.completed_at

AllPicked == Undisturbed => \A w \in Workers : Picked(w)

(* A task that has its file is not committed a second time.                *)
LEMMA NoNewCommit ==
  ASSUME Known, Next, NEW t \in Tasks, t \in files,
         \A h \in Handlers : ~(req[h].op = "commit" /\ req[h].task = t)
  PROVE  /\ t \in files'
         /\ \A h \in Handlers : ~(req'[h].op = "commit" /\ req'[h].task = t)
  <1>1. TypeOK
    BY DEF Known
  <1>2. ASSUME NEW h \in Handlers,
               HandlerStep(h) \/ SendUnsure(h) \/ ApiCrash(h)
                 \/ \E x \in Tasks : Upload(h, x) \/ CheckDelete(h, x)
        PROVE  /\ t \in files'
               /\ \A g \in Handlers : ~(req'[g].op = "commit" /\ req'[g].task = t)
    <2>1. \A g \in Handlers \ {h} : req'[g] = req[g]
      BY <1>1, <1>2, RequestFacts
    <2>2. ~(req'[h].op = "commit" /\ req'[h].task = t) /\ t \in files'
      <3>1. ASSUME NEW x \in Tasks, Upload(h, x)
            PROVE  req'[h].task # t /\ t \in files'
        <4>1. req'[h].task = x
          BY <1>1, <3>1, RequestFacts
        <4>2. t # x /\ t \in files'
          BY <3>1 DEF Upload
        <4>3. QED
          BY <4>1, <4>2
      <3>2. CASE \A x \in Tasks : ~Upload(h, x)
        <4>1. req'[h].op # "commit"
          BY <1>1, <1>2, <3>2, RequestFacts DEF HandlerStep, NoRequest
        <4>2. files' = files
          BY <1>2, <3>2 DEF HandlerStep, CommitTask, Send, SendFails, MarkFailed, Delete,
                            SendUnsure, ApiCrash, CheckDelete
        <4>3. QED
          BY <4>1, <4>2
      <3>3. QED
        BY <3>1, <3>2
    <2>3. QED
      BY <2>1, <2>2
  <1>3. CASE UNCHANGED <<files, req>>
    BY <1>3
  <1>4. QED
    BY <1>2, <1>3
       DEF Next, DeleteAccount, Restore, WorkerStep, WorkerFault, Start, Download, Report,
           Infer, Save, Finish, Commit, Fail, Ack, FailUnrecorded, CrashWorker, LoseChild,
           Timeout, Receive

(* A task that is COMPLETED, or gone and not being uploaded, gets no other *)
(* contents.                                                               *)
LEMMA PickedKept ==
  ASSUME Known, Undisturbed, OneTry, Next, NEW t \in Tasks,
         row[t].status \in {"COMPLETED", "none"},
         \A h \in Handlers : ~(req[h].op = "commit" /\ req[h].task = t)
  PROVE  Kept(t)
  <1>1. TypeOK
    BY DEF Known
  <1>2. CASE row[t].status = "COMPLETED"
    BY <1>2, SettledKept
  <1>3. CASE row[t].status = "none"
    <2>1. ~Exists(t)
      BY <1>3 DEF Exists
    <2>2. ASSUME NEW h \in Handlers, req[h].task = t, CommitTask(h) \/ MarkFailed(h)
          PROVE  Kept(t)
      BY <1>1, <2>1, <2>2, MarkRow DEF CommitTask, Kept
    <2>3. ASSUME NEW w \in Workers, worker[w] \in Job, worker[w].task = t,
                 SaveStep(w) \/ Fail(w)
          PROVE  Kept(t)
      <3>1. CASE SaveStep(w)
        <4>1. PICK to \in {"started", "downloaded", "inferred"}, new \in Row :
                Wrote(w, to, new)
          BY <1>1, <3>1, SaveWrote
        <4>2. QED
          BY <1>1, <2>1, <2>3, <4>1, SaveRow DEF Kept
      <3>2. CASE Fail(w)
        BY <1>1, <2>1, <3>2, FailRow DEF Kept
      <3>3. QED
        BY <2>3, <3>1, <3>2
    <2>4. ASSUME NEW w \in Workers, worker[w].task = t
          PROVE  ~Commit(w)
      BY <2>1, <2>4 DEF Commit, Known, Backed, LocksAreExclusive
    <2>5. QED
      BY <1>1, <2>2, <2>3, <2>4, WhoWrites
  <1>4. QED
    BY <1>2, <1>3

LEMMA FinishPicked ==
  ASSUME Known, OneTry, NEW w \in Workers, Finish(w)
  PROVE  Picked(w)'
  <1>1. TypeOK /\ Fresh /\ Truthful /\ RowsAreBacked
    BY DEF Known, Backed
  <1>2. /\ worker[w].pc = "inferred" /\ worker[w] \in Job
        /\ UNCHANGED <<row, files, req>>
        /\ worker'[w].pc = "flushed" /\ worker'[w].task = worker[w].task
    BY <1>1, FinishFacts
  <1>3. PICK k \in Tasks : k = worker[w].task
    BY <1>2 DEF Job
  <1>4. PICK d \in Row : d = worker'[w].seen
    BY <1>1, FinishFacts
  <1>5. /\ worker[w].seen.completed_at <= clock /\ worker[w].seen.completed_at \in Nat
        /\ clock \in Nat
    BY <1>1, <1>2, RowFacts DEF Truthful, TruthfulSessions, TruthfulSession, Job, TypeOK
  <1>6. d.completed_at = clock + 1
    <2>1. d.completed_at = IF worker[w].seen.completed_at = clock + 1
                           THEN row[k].completed_at ELSE clock + 1
      BY <1>1, <1>3, <1>4, FinishFacts
    <2>2. QED
      BY <1>5, <2>1
  <1> DEFINE r == [row EXCEPT ![k] = d]
             V == Surplus(r, Owner[k])
  <1>7. worker'[w].victims = V
    BY <1>1, <1>3, <1>4, FinishFacts
  <1>8. /\ \A t \in Tasks : r[t] = IF t = k THEN d ELSE row[t]
        /\ \A t \in Tasks : row[t].completed_at <= clock /\ row[t].completed_at \in Nat
    BY <1>1, RowFacts DEF TypeOK, Truthful, TruthfulRows, TruthfulRow
  <1>9. k \notin V
    <2>1. \A x \in Tasks : ~(r[x].completed_at > r[k].completed_at)
      BY <1>5, <1>6, <1>8
    <2>2. {x \in Saved(r, Owner[k]) : r[x].completed_at > r[k].completed_at} = {}
      BY <2>1 DEF Saved
    <2>3. ~(Cardinality({x \in Saved(r, Owner[k]) :
                           r[x].completed_at > r[k].completed_at}) >= Limit)
      <3>1. Cardinality({x \in Saved(r, Owner[k]) :
                           r[x].completed_at > r[k].completed_at}) = 0
        BY <2>2, FS_EmptySet
      <3>2. QED
        BY <3>1, PipelineAssumption
    <2>4. QED
      BY <2>3 DEF Surplus
  <1>10. ASSUME NEW t \in V
         PROVE  /\ t \in Tasks /\ Owner[t] = Owner[k] /\ t \in files
                /\ row[t].status = "COMPLETED"
                /\ \A h \in Handlers : ~(req[h].op = "commit" /\ req[h].task = t)
                /\ row[t].completed_at < d.completed_at
    <2>1. t \in Tasks /\ Owner[t] = Owner[k] /\ r[t].status = "COMPLETED" /\ t # k
      BY <1>9 DEF Surplus, Saved
    <2>2. row[t].status = "COMPLETED"
      BY <1>8, <2>1
    <2>3. t \in files /\ row[t] # NoRow
      BY <1>1, <2>1, <2>2, RowFacts DEF RowsAreBacked, Exists
    <2>4. \A h \in Handlers : ~(req[h].op = "commit" /\ req[h].task = t)
      BY <1>1, <2>1, <2>3 DEF Fresh, FreshTask, Untouched
    <2>5. QED
      BY <1>5, <1>6, <1>8, <2>1, <2>2, <2>3, <2>4
  <1> HIDE DEF V, r
  <1>11. QED
    BY <1>2, <1>3, <1>4, <1>7, <1>9, <1>10 DEF Picked

LEMMA NextPicked == Known /\ Tried /\ AllPicked /\ [Next]_vars => AllPicked'
  <1> SUFFICES ASSUME Known, Undisturbed, OneTry, \A w \in Workers : Picked(w), [Next]_vars,
                      NEW w \in Workers
               PROVE  Picked(w)'
    BY DEF Tried, AllPicked, Undisturbed
  <1>1. CASE UNCHANGED vars
    BY <1>1 DEF vars, Picked
  <1>2. CASE Next /\ Finish(w)
    BY <1>2, FinishPicked
  <1>3. CASE Next /\ ~Finish(w) /\ worker'[w].pc = "flushed"
    <2>1. /\ worker[w].pc = "flushed" /\ worker'[w].task = worker[w].task
          /\ worker'[w].seen = worker[w].seen /\ worker'[w].victims = worker[w].victims
      BY <1>3, LockHeld
    <2>2. worker[w] \in Job /\ worker[w].victims \subseteq Tasks
      BY <2>1, BusyWorker DEF Known, Job
    <2>3. ASSUME NEW t \in worker[w].victims
          PROVE  /\ t \in files'
                 /\ \A h \in Handlers : ~(req'[h].op = "commit" /\ req'[h].task = t)
                 /\ row'[t].status \in {"COMPLETED", "none"}
                 /\ row'[t].status = "COMPLETED" =>
                      row'[t].completed_at < worker[w].seen.completed_at
      <3>1. /\ t \in Tasks /\ t \in files
            /\ \A h \in Handlers : ~(req[h].op = "commit" /\ req[h].task = t)
            /\ row[t].status \in {"COMPLETED", "none"}
            /\ row[t].status = "COMPLETED" => row[t].completed_at < worker[w].seen.completed_at
        BY <2>1, <2>2 DEF Picked
      <3>2. Kept(t)
        BY <1>3, <3>1, PickedKept
      <3>3. /\ t \in files'
            /\ \A h \in Handlers : ~(req'[h].op = "commit" /\ req'[h].task = t)
        BY <1>3, <3>1, NoNewCommit
      <3>4. QED
        BY <3>1, <3>2, <3>3, RowFacts DEF Kept
    <2>4. QED
      BY <2>1, <2>3 DEF Picked
  <1>4. QED
    BY <1>1, <1>2, <1>3 DEF Picked

(* Who removes a COMPLETED task.                                           *)
LEMMA WhoRemoves ==
  ASSUME Known, Undisturbed, OneTry, Next, NEW t \in Tasks, row[t].status = "COMPLETED",
         Owner[t] \in users',
         ~DeletesSaved
  PROVE  row'[t] = row[t] \/ \E w \in Workers : Commit(w) /\ t \in worker[w].victims
  <1>1. TypeOK /\ Fresh /\ Truthful
    BY DEF Known
  <1>2. SUFFICES ASSUME row'[t] # row[t], \A w \in Workers : ~(Commit(w) /\ t \in worker[w].victims)
                 PROVE  FALSE
    OBVIOUS
  <1>3. row'[t] = NoRow /\ row'[t].status = "none"
    BY <1>2, SettledKept, RowFacts DEF Kept
  <1>4. ASSUME NEW h \in Handlers,
               HandlerStep(h) \/ SendUnsure(h) \/ ApiCrash(h)
                 \/ \E x \in Tasks : Upload(h, x) \/ CheckDelete(h, x)
        PROVE  FALSE
    <2>1. ~CommitTask(h)
      <3>1. SUFFICES ASSUME CommitTask(h)
                     PROVE  FALSE
        OBVIOUS
      <3>2. req[h].task = t
        BY <1>1, <1>2, <3>1 DEF CommitTask, TypeOK
      <3>3. row'[t] = NewRow
        BY <1>1, <3>1, <3>2 DEF CommitTask, TypeOK
      <3>4. QED
        BY <1>3, <3>3, RowFacts
    <2>2. ~MarkFailed(h)
      BY <1>1, <1>2, <1>3, MarkRow
    <2>3. ~Delete(h)
      <3>1. SUFFICES ASSUME Delete(h)
                     PROVE  FALSE
        OBVIOUS
      <3>2. req[h].task = t
        BY <1>1, <1>2, <3>1 DEF Delete, TypeOK
      <3>3. QED
        BY <3>1, <3>2 DEF DeletesSaved
    <2>4. QED
      BY <1>2, <1>4, <2>1, <2>2, <2>3
         DEF HandlerStep, Send, SendFails, SendUnsure, ApiCrash, Upload, CheckDelete
  <1>5. ASSUME NEW w \in Workers,
               WorkerStep(w) \/ WorkerFault(w) \/ \E x \in Tasks : Receive(w, x)
        PROVE  FALSE
    <2>1. ~SaveStep(w)
      <3>1. SUFFICES ASSUME SaveStep(w)
                     PROVE  FALSE
        OBVIOUS
      <3>2. PICK to \in {"started", "downloaded", "inferred"}, new \in Row : Wrote(w, to, new)
        BY <1>1, <3>1, SaveWrote
      <3>3. row'[t].status \in {"COMPLETED", "PROCESSING"}
        BY <1>1, <3>1, <3>2, SaveWrote, SaveRow
      <3>4. QED
        BY <1>3, <3>3
    <2>2. ~Commit(w)
      <3>1. SUFFICES ASSUME Commit(w)
                     PROVE  FALSE
        OBVIOUS
      <3>2. row'[t] = worker[w].seen /\ worker[w].pc = "flushed"
        BY <1>1, <1>2, <3>1, CommitRow DEF Commit
      <3>3. worker[w].seen.status = "COMPLETED"
        BY <1>1, <3>2 DEF Truthful, TruthfulSessions, TruthfulSession
      <3>4. QED
        BY <1>3, <3>2, <3>3
    <2>3. ~Fail(w)
      BY <1>1, <1>2, <1>3, FailRow
    <2>4. QED
      BY <1>2, <1>5, <2>1, <2>2, <2>3
         DEF WorkerStep, SaveStep, Finish, Ack, WorkerFault, FailUnrecorded, CrashWorker,
             LoseChild, Timeout, Receive
  <1>6. ASSUME NEW u \in Users
        PROVE  ~DeleteAccount(u)
    BY <1>2 DEF DeleteAccount
  <1>7. ASSUME NEW x \in Tasks
        PROVE  ~Restore(x)
    BY <1>2 DEF Restore
  <1>8. QED
    BY <1>4, <1>5, <1>6, <1>7 DEF Next

(* The commit of w removes y, of the account of t and not older: then the  *)
(* newest that it removes still leaves Limit tasks that are newer.         *)
LEMMA Survivors ==
  ASSUME Known, IsFiniteSet(files), OneTry, VictimsAreSurplus,
         NEW w \in Workers, Picked(w), Commit(w),
         NEW t \in Tasks, row[t].status = "COMPLETED",
         NEW y \in worker[w].victims, row[y].status = "COMPLETED", Owner[y] = Owner[t],
         row[y].completed_at >= row[t].completed_at
  PROVE  /\ IsFiniteSet(Newer(row', t, row[t].completed_at))
         /\ Cardinality(Newer(row', t, row[t].completed_at)) \in Nat
         /\ Cardinality(Newer(row', t, row[t].completed_at)) >= Limit
  <1>1. TypeOK /\ Truthful
    BY DEF Known
  <1>2. worker[w].pc = "flushed" /\ worker[w] \in Job /\ worker[w].victims \subseteq Tasks
    BY <1>1, EndFacts DEF Commit, Job
  <1>3. PICK k \in Tasks : k = worker[w].task
    BY <1>2 DEF Job
  <1>4. /\ k \notin worker[w].victims
        /\ \A x \in worker[w].victims :
             /\ Owner[x] = Owner[k]
             /\ row[x].status = "COMPLETED" => row[x].completed_at < worker[w].seen.completed_at
    BY <1>2, <1>3 DEF Picked
  <1>5. /\ \A x \in Tasks : row[x].completed_at \in Nat /\ row[x].completed_at <= clock
        /\ clock \in Nat
    BY <1>1, RowFacts DEF TypeOK, Truthful, TruthfulRows, TruthfulRow
  <1>6. worker[w].seen.status = "COMPLETED" /\ worker[w].seen.completed_at \in Nat
    BY <1>1, <1>2, RowFacts DEF Truthful, TruthfulSessions, TruthfulSession, Job
  <1>7. row[k].status # "COMPLETED"
    BY <1>2, <1>3 DEF OneTry, FirstTry, Working
  <1>8. \A x \in Tasks : row'[x] = IF x \in worker[w].victims THEN NoRow
                                   ELSE IF x = k THEN worker[w].seen ELSE row[x]
    BY <1>1, <1>3, CommitRow
  <1> DEFINE R == {x \in worker[w].victims : row[x].status = "COMPLETED"
                                             /\ row[x].completed_at >= row[t].completed_at}
             D == {clock - row[x].completed_at : x \in R}
             N == Newer(row', t, row[t].completed_at)
  <1>9. D \subseteq Nat /\ D # {}
    <2>1. y \in R
      OBVIOUS
    <2>2. ASSUME NEW x \in R
          PROVE  clock - row[x].completed_at \in Nat
      BY <1>2, <1>5
    <2>3. QED
      BY <2>1, <2>2
  <1>10. PICK x \in R : \A z \in R : clock - row[x].completed_at <= clock - row[z].completed_at
    <2>1. PICK least \in D : \A m \in D : least <= m
      <3> HIDE DEF D
      <3>1. QED
        BY <1>9, LeastNumber
    <2>2. QED
      BY <2>1
  <1>11. x \in worker[w].victims /\ x \in Tasks /\ row[x].status = "COMPLETED"
           /\ row[x].completed_at >= row[t].completed_at /\ Owner[x] = Owner[t]
    BY <1>2, <1>4, <1>10
  <1>12. \A z \in R : row[z].completed_at <= row[x].completed_at
    <2>1. SUFFICES ASSUME NEW z \in R
                   PROVE  row[z].completed_at <= row[x].completed_at
      OBVIOUS
    <2>2. clock - row[x].completed_at <= clock - row[z].completed_at
      BY <1>10
    <2>3. row[z].completed_at \in Nat /\ row[x].completed_at \in Nat
      BY <1>2, <1>5, <1>11
    <2>4. QED
      BY <1>5, <2>2, <2>3
  <1>13. Newer(row, x, row[x].completed_at) \union {k} \subseteq N
    <2>1. ASSUME NEW z \in Newer(row, x, row[x].completed_at)
          PROVE  z \in N
      <3>1. z \in Tasks /\ Owner[z] = Owner[t] /\ row[z].status = "COMPLETED"
              /\ row[z].completed_at > row[x].completed_at
        BY <1>11, <2>1 DEF Newer, Saved
      <3>2. row[z].completed_at > row[t].completed_at
        BY <1>5, <1>11, <3>1
      <3>3. row[z].completed_at >= row[t].completed_at
        BY <1>5, <3>1, <3>2
      <3>4. z \notin worker[w].victims
        BY <1>5, <1>11, <1>12, <3>1, <3>3
      <3>5. row'[z] = row[z]
        BY <1>7, <1>8, <3>1, <3>4
      <3>6. QED
        BY <3>1, <3>2, <3>5 DEF Newer, Saved
    <2>2. k \in N
      <3>1. row'[k] = worker[w].seen /\ Owner[k] = Owner[t]
        BY <1>4, <1>8, <1>11
      <3>2. worker[w].seen.completed_at > row[t].completed_at
        BY <1>4, <1>5, <1>6, <1>11
      <3>3. QED
        BY <1>6, <3>1, <3>2 DEF Newer, Saved
    <2> HIDE DEF N
    <2>3. QED
      BY <2>1, <2>2
  <1>14. Cardinality(Newer(row, x, row[x].completed_at) \union {k}) >= Limit
    BY <1>2, <1>3, <1>11 DEF VictimsAreSurplus
  <1>15. IsFiniteSet(N)
    <2>1. IsFiniteSet(Saved(row, Owner[t]) \union {k})
      BY LimitTypes, FS_AddElement
    <2>2. N \subseteq Saved(row, Owner[t]) \union {k}
      BY <1>8, RowFacts DEF Newer, Saved
    <2> HIDE DEF N
    <2>3. QED
      BY <2>1, <2>2, FS_Subset
  <1> HIDE DEF N, R, D
  <1>16. Cardinality(N) >= Limit /\ Cardinality(N) \in Nat
    <2>1. /\ Cardinality(Newer(row, x, row[x].completed_at) \union {k}) <= Cardinality(N)
          /\ Cardinality(Newer(row, x, row[x].completed_at) \union {k}) \in Nat
          /\ Cardinality(N) \in Nat
      BY <1>13, <1>15, FS_Subset, FS_CardinalityType
    <2>2. QED
      BY <1>14, <2>1, PipelineAssumption
  <1>17. QED
    BY <1>15, <1>16 DEF N

(* One transaction commits at a time.                                      *)
LEMMA OneCommit ==
  ASSUME TypeOK, NEW v \in Workers, NEW w \in Workers, Commit(v), Commit(w)
  PROVE  v = w
  <1>1. worker[w].pc = "flushed" /\ worker'[w].pc = "done"
    BY EndFacts DEF Commit, Ended
  <1>2. v # w => worker'[w] = worker[w]
    BY EndFacts DEF Ended
  <1>3. QED
    BY <1>1, <1>2

(* What was selected stays surplus.                                        *)
LEMMA SelectionKept ==
  ASSUME Known, IsFiniteSet(files), IsFiniteSet(files'), Known', Undisturbed, OneTry, Next,
         \A w \in Workers : Picked(w),
         ~DeletesSaved,
         VictimsAreSurplus,
         NEW w \in Workers, worker'[w].pc = "flushed", ~Finish(w),
         NEW t \in worker'[w].victims, row'[t].status = "COMPLETED"
  PROVE  Cardinality(Newer(row', t, row'[t].completed_at) \union {worker'[w].task}) >= Limit
  <1>1. TypeOK /\ TypeOK'
    BY DEF Known
  <1>2. /\ worker[w].pc = "flushed" /\ worker'[w].task = worker[w].task
        /\ worker'[w].victims = worker[w].victims
    BY LockHeld
  <1>3. t \in Tasks /\ t \in worker[w].victims
    BY <1>1, <1>2, BusyWorker DEF Job
  <1>4. row'[t] = row[t] /\ row[t].status = "COMPLETED"
    <2>1. Kept(t) /\ row[t].status \in {"COMPLETED", "none"}
      BY <1>2, <1>3, PickedKept DEF Picked
    <2>2. QED
      BY <2>1, RowFacts DEF Kept
  <1>5. Owner[t] \in users'
    BY <1>3 DEF Known, Backed, RowsAreBacked, Exists
  <1> DEFINE m == worker[w].task
             c == row[t].completed_at
             N == Newer(row', t, c)
  <1>6. IsFiniteSet(N)
    <2>1. N \subseteq files'
      BY DEF Newer, Saved, Known, Backed, RowsAreBacked, Exists
    <2> HIDE DEF N
    <2>2. QED
      BY <2>1, FS_Subset
  <1>7. IsFiniteSet(N \union {m}) /\ Cardinality(N \union {m}) \in Nat
    <2> HIDE DEF N, m
    <2>1. QED
      BY <1>6, FS_AddElement, FS_CardinalityType
  <1>8. CASE \E v \in Workers : Commit(v) /\ \E y \in worker[v].victims :
               y \in Newer(row, t, c)
    <2>1. PICK v \in Workers : Commit(v) /\ \E y \in worker[v].victims : y \in Newer(row, t, c)
      BY <1>8
    <2>2. PICK y \in worker[v].victims : y \in Newer(row, t, c)
      BY <2>1
    <2>3. /\ y \in Tasks /\ row[y].status = "COMPLETED" /\ Owner[y] = Owner[t]
          /\ row[y].completed_at > c /\ row[y].completed_at \in Nat /\ c \in Nat
      BY <1>1, <1>3, <2>2, RowFacts DEF Newer, Saved, TypeOK
    <2>4. row[y].completed_at >= c
      BY <2>3
    <2>5. Cardinality(N) \in Nat /\ Cardinality(N) >= Limit
      BY <1>3, <1>4, <2>1, <2>3, <2>4, Survivors
    <2>6. Cardinality(N) <= Cardinality(N \union {m})
      <3> HIDE DEF N, m
      <3>1. QED
        BY <1>7, FS_Subset
    <2> HIDE DEF N, m, c
    <2>7. Cardinality(N \union {m}) >= Limit
      BY <1>7, <2>5, <2>6, PipelineAssumption
    <2>8. QED
      BY <1>2, <1>4, <2>7 DEF N, m, c
  <1>9. CASE ~\E v \in Workers : Commit(v) /\ \E y \in worker[v].victims :
               y \in Newer(row, t, c)
    <2>1. Newer(row, t, c) \subseteq N
      <3>1. SUFFICES ASSUME NEW x \in Newer(row, t, c)
                     PROVE  x \in N
        OBVIOUS
      <3>2. x \in Tasks /\ row[x].status = "COMPLETED" /\ Owner[x] = Owner[t]
        BY DEF Newer, Saved
      <3>3. row'[x] = row[x]
        BY <1>5, <1>9, <3>2, WhoRemoves
      <3>4. QED
        BY <3>2, <3>3 DEF Newer, Saved
    <2>2. Cardinality(Newer(row, t, c) \union {m}) >= Limit
      BY <1>2, <1>3, <1>4 DEF VictimsAreSurplus
    <2>3. /\ Cardinality(Newer(row, t, c) \union {m}) <= Cardinality(N \union {m})
          /\ Cardinality(Newer(row, t, c) \union {m}) \in Nat
      <3> HIDE DEF N, m
      <3>1. Newer(row, t, c) \union {m} \subseteq N \union {m}
        BY <2>1
      <3>2. QED
        BY <1>7, <3>1, FS_Subset, FS_CardinalityType
    <2> HIDE DEF N, m, c
    <2>4. Cardinality(N \union {m}) >= Limit
      BY <1>7, <2>2, <2>3, PipelineAssumption
    <2>5. QED
      BY <1>2, <1>4, <2>4 DEF N, m, c
  <1>10. QED
    BY <1>8, <1>9

(* What is selected is surplus.                                            *)
LEMMA SelectionIsSurplus ==
  ASSUME Known, OneTry, NEW w \in Workers, Finish(w),
         NEW t \in worker'[w].victims, row'[t].status = "COMPLETED"
  PROVE  Cardinality(Newer(row', t, row'[t].completed_at) \union {worker'[w].task}) >= Limit
  <1>1. TypeOK /\ Truthful
    BY DEF Known
  <1>2. /\ worker[w].pc = "inferred" /\ worker[w] \in Job /\ row' = row
        /\ worker'[w].task = worker[w].task
    BY <1>1, FinishFacts
  <1>3. PICK k \in Tasks : k = worker[w].task
    BY <1>2 DEF Job
  <1>4. PICK d \in Row : d = worker'[w].seen
    BY <1>1, FinishFacts
  <1>5. /\ worker[w].seen.completed_at <= clock /\ worker[w].seen.completed_at \in Nat
        /\ clock \in Nat /\ worker[w].seen.status = "PROCESSING"
    BY <1>1, <1>2, RowFacts DEF Truthful, TruthfulSessions, TruthfulSession, Job, TypeOK
  <1>6. d.status = "COMPLETED" /\ d.completed_at = clock + 1
    <2>1. /\ d.status = IF worker[w].seen.status = "COMPLETED" THEN row[k].status
                        ELSE "COMPLETED"
          /\ d.completed_at = IF worker[w].seen.completed_at = clock + 1
                              THEN row[k].completed_at ELSE clock + 1
      BY <1>1, <1>3, <1>4, FinishFacts
    <2>2. QED
      BY <1>5, <2>1
  <1> DEFINE r == [row EXCEPT ![k] = d]
  <1>7. worker'[w].victims = Surplus(r, Owner[k])
    BY <1>1, <1>3, <1>4, FinishFacts
  <1>8. /\ \A x \in Tasks : r[x] = IF x = k THEN d ELSE row[x]
        /\ \A x \in Tasks : row[x].completed_at <= clock /\ row[x].completed_at \in Nat
    BY <1>1, RowFacts DEF TypeOK, Truthful, TruthfulRows, TruthfulRow
  <1>9. row[k].status # "COMPLETED"
    BY <1>2, <1>3 DEF OneTry, FirstTry, Working
  <1>10. /\ t \in Tasks /\ t # k /\ Owner[t] = Owner[k]
         /\ Cardinality({x \in Saved(r, Owner[k]) :
                           r[x].completed_at > r[t].completed_at}) >= Limit
    BY <1>2, <1>7, <1>9 DEF Surplus, Saved
  <1>11. {x \in Saved(r, Owner[k]) : r[x].completed_at > r[t].completed_at}
           = Newer(row, t, row[t].completed_at) \union {k}
    <2>1. clock + 1 > row[t].completed_at
      BY <1>5, <1>8, <1>10
    <2> HIDE DEF r
    <2>2. QED
      BY <1>6, <1>8, <1>9, <1>10, <2>1 DEF Newer, Saved
  <1>12. QED
    BY <1>2, <1>3, <1>10, <1>11

(* Where every message is processed once at most, a COMPLETED task is      *)
(* removed by the limit only if Limit newer ones are saved, for any number *)
(* of processes that trim at once, unless a COMPLETED task is deleted by a *)
(* request that slipped past its check.                                    *)
THEOREM LimitAlwaysKeepsNewest == Spec => LimitKeepsNewest
  <1> DEFINE A == Undisturbed /\ ~DeletesSaved /\ VictimsAreSurplus =>
                     /\ VictimsAreSurplus'
                     /\ \A t \in Tasks :
                          row[t].status = "COMPLETED" /\ row'[t] = NoRow /\ Owner[t] \in users' =>
                            Cardinality(Newer(row', t, row[t].completed_at)) >= Limit
  <1>1. Init => AllPicked
    BY DEF Init, AllPicked, Picked, Idle
  <1>2. Known /\ Known' /\ Limited /\ Limited' /\ Tried /\ AllPicked /\ [Next]_vars => [A]_vars
    <2> SUFFICES ASSUME Known, Known', Limited, Limited', OneTry, \A w \in Workers : Picked(w),
                        Next, Undisturbed, ~DeletesSaved, VictimsAreSurplus
                 PROVE  /\ VictimsAreSurplus'
                        /\ \A t \in Tasks :
                             row[t].status = "COMPLETED" /\ row'[t] = NoRow /\ Owner[t] \in users' =>
                               Cardinality(Newer(row', t, row[t].completed_at)) >= Limit
      BY DEF Tried, AllPicked
    <2>1. IsFiniteSet(files) /\ IsFiniteSet(files')
      BY DEF Limited
    <2>2. ASSUME NEW w \in Workers, worker'[w].pc = "flushed",
                 NEW t \in worker'[w].victims, row'[t].status = "COMPLETED"
          PROVE  Cardinality(Newer(row', t, row'[t].completed_at) \union {worker'[w].task}) >= Limit
      BY <2>1, <2>2, SelectionIsSurplus, SelectionKept
    <2>3. VictimsAreSurplus'
      BY <2>2 DEF VictimsAreSurplus
    <2>4. ASSUME NEW t \in Tasks, row[t].status = "COMPLETED", row'[t] = NoRow,
                 Owner[t] \in users'
          PROVE  Cardinality(Newer(row', t, row[t].completed_at)) >= Limit
      <3>1. PICK w \in Workers : Commit(w) /\ t \in worker[w].victims
        BY <2>4, WhoRemoves, RowFacts
      <3>2. row[t].completed_at >= row[t].completed_at
        BY <2>4, RowFacts DEF Known, TypeOK
      <3>3. QED
        BY <2>1, <2>4, <3>1, <3>2, Survivors
    <2>5. QED
      BY <2>3, <2>4
  <1>3. QED
    BY <1>1, <1>2, NextPicked, AlwaysTried, AlwaysLimited, PTL DEF Spec, LimitKeepsNewest
=============================================================================
