------------------------------ MODULE JobQueue ------------------------------
(***************************************************************************)
(* The in-memory queue of the segmentation service                         *)
(* (app/segmentation_service/jobs.py), its executor threads, and the event *)
(* loop that submits jobs and runs the inference of a request with         *)
(* wait=true itself (app.py), under the semaphore of runtime.py.           *)
(*                                                                         *)
(* Jobs are numbered in the order of their submission.  Handlers are       *)
(* coroutines that do not await between the two halves of submit, so one   *)
(* submission ends before the next begins; the threads run in between.     *)
(***************************************************************************)
EXTENDS Naturals, Sequences, FiniteSets

CONSTANTS
  MaxJobs,    \* a bound on the jobs that are submitted
  MaxLimit,   \* the largest max_concurrent_inferences that is considered
  MaxWaits    \* a bound on the requests with wait=true

ASSUME JobQueueAssumption ==
  MaxJobs \in Nat /\ MaxLimit \in Nat \ {0} /\ MaxWaits \in Nat

Jobs == 1..MaxJobs

NoJob == 0

VARIABLES
  limit,     \* settings.max_concurrent_inferences, read at start-up
  status,    \* _jobs[j].status, "none" before the submission
  position,  \* _jobs[j].position
  order,     \* _order
  work,      \* the queue of the executor
  thread,    \* the threads of the executor
  loop,      \* the event loop: what its handler is doing, and for which job
  slots,     \* free slots of the semaphore
  waits      \* requests with wait=true that may still arrive

vars == <<limit, status, position, order, work, thread, loop, slots, waits>>

Threads == 1..limit

IdleThread == [pc |-> "idle", job |-> NoJob]

Free == [pc |-> "free", job |-> NoJob]

Init ==
  /\ limit \in 1..MaxLimit
  /\ status = [j \in Jobs |-> "none"]
  /\ position = [j \in Jobs |-> 0]
  /\ order = <<>>
  /\ work = <<>>
  /\ thread = [e \in 1..MaxLimit |-> IdleThread]
  /\ loop = Free
  /\ slots = limit
  /\ waits = MaxWaits

-----------------------------------------------------------------------------
(* The event loop                                                          *)

(* Mutant: the new job is counted among those before it.                   *)
SubmitCountsItself(j) ==
  /\ loop = Free
  /\ status[j] = "none"
  /\ \A i \in Jobs : i < j => status[i] # "none"
  /\ status' = [status EXCEPT ![j] = "queued"]
  /\ position' = [position EXCEPT ![j] = Len(order) + 1]
  /\ order' = Append(order, j)
  /\ loop' = [pc |-> "submitting", job |-> j]
  /\ UNCHANGED <<limit, work, thread, slots, waits>>

(* submit: the record, under the lock ...                                  *)
Submit(j) ==
  /\ loop = Free
  /\ status[j] = "none"
  /\ \A i \in Jobs : i < j => status[i] # "none"
  /\ status' = [status EXCEPT ![j] = "queued"]
  /\ position' = [position EXCEPT ![j] = Len(order)]
  /\ order' = Append(order, j)
  /\ loop' = [pc |-> "submitting", job |-> j]
  /\ UNCHANGED <<limit, work, thread, slots, waits>>

(* ... and the work item, after it.                                        *)
Enqueue ==
  /\ loop.pc = "submitting"
  /\ work' = Append(work, loop.job)
  /\ loop' = Free
  /\ UNCHANGED <<limit, status, position, order, thread, slots, waits>>

(* A request with wait=true blocks the loop until it has had its slot.     *)
WaitArrives ==
  /\ loop = Free
  /\ waits > 0
  /\ waits' = waits - 1
  /\ loop' = [pc |-> "waiting", job |-> NoJob]
  /\ UNCHANGED <<limit, status, position, order, work, thread, slots>>

WaitRuns ==
  /\ loop.pc = "waiting"
  /\ slots > 0
  /\ slots' = slots - 1
  /\ loop' = [pc |-> "inferring", job |-> NoJob]
  /\ UNCHANGED <<limit, status, position, order, work, thread, waits>>

WaitEnds ==
  /\ loop.pc = "inferring"
  /\ slots' = slots + 1
  /\ loop' = Free
  /\ UNCHANGED <<limit, status, position, order, work, thread, waits>>

-----------------------------------------------------------------------------
(* _run, in a thread of the executor                                       *)

(* Mutant: the newest work item first.                                     *)
TakeNewest(e) ==
  /\ thread[e] = IdleThread
  /\ work # <<>>
  /\ thread' = [thread EXCEPT ![e] = [pc |-> "taken", job |-> work[Len(work)]]]
  /\ work' = SubSeq(work, 1, Len(work) - 1)
  /\ UNCHANGED <<limit, status, position, order, loop, slots, waits>>

Take(e) ==
  /\ thread[e] = IdleThread
  /\ work # <<>>
  /\ thread' = [thread EXCEPT ![e] = [pc |-> "taken", job |-> Head(work)]]
  /\ work' = Tail(work)
  /\ UNCHANGED <<limit, status, position, order, loop, slots, waits>>

Start(e) ==
  /\ thread[e].pc = "taken"
  /\ status' = [status EXCEPT ![thread[e].job] = "running"]
  /\ position' = [position EXCEPT ![thread[e].job] = 0]
  /\ thread' = [thread EXCEPT ![e].pc = "waiting"]
  /\ UNCHANGED <<limit, order, work, loop, slots, waits>>

(* Mutant: the inference is not guarded by the semaphore.                  *)
InferUnguarded(e) ==
  /\ thread[e].pc = "waiting"
  /\ thread' = [thread EXCEPT ![e].pc = "inferring"]
  /\ UNCHANGED <<limit, status, position, order, work, loop, slots, waits>>

Infer(e) ==
  /\ thread[e].pc = "waiting"
  /\ slots > 0
  /\ slots' = slots - 1
  /\ thread' = [thread EXCEPT ![e].pc = "inferring"]
  /\ UNCHANGED <<limit, status, position, order, work, loop, waits>>

(* Mutant: the slot is kept.                                               *)
ReturnKeepsSlot(e) ==
  /\ thread[e].pc = "inferring"
  /\ thread' = [thread EXCEPT ![e].pc = "returned"]
  /\ UNCHANGED <<limit, status, position, order, work, loop, slots, waits>>

(* fn returns or raises; either way it has left the semaphore.             *)
Return(e) ==
  /\ thread[e].pc = "inferring"
  /\ slots' = slots + 1
  /\ thread' = [thread EXCEPT ![e].pc = "returned"]
  /\ UNCHANGED <<limit, status, position, order, work, loop, waits>>

Record(e) ==
  /\ thread[e].pc = "returned"
  /\ \E outcome \in {"done", "failed"} :
       status' = [status EXCEPT ![thread[e].job] = outcome]
  /\ thread' = [thread EXCEPT ![e].pc = "recorded"]
  /\ UNCHANGED <<limit, position, order, work, loop, slots, waits>>

Place(seq, j) == CHOOSE n \in 1..Len(seq) : seq[n] = j

Elements(seq) == {seq[n] : n \in 1..Len(seq)}

(* Mutant: counted from one.                                               *)
ReindexFromOne(seq) ==
  [j \in Jobs |-> IF j \in Elements(seq) THEN Place(seq, j) ELSE position[j]]

(* _reindex_positions.                                                     *)
Reindex(seq) ==
  [j \in Jobs |-> IF j \in Elements(seq) THEN Place(seq, j) - 1 ELSE position[j]]

(* Mutant: nothing is removed.                                             *)
LeaveKeepsOrder(e) ==
  /\ thread[e].pc = "recorded"
  /\ position' = Reindex(order)
  /\ thread' = [thread EXCEPT ![e] = IdleThread]
  /\ UNCHANGED <<limit, status, order, work, loop, slots, waits>>

(* The finally block: the job leaves the order only if it is its head.     *)
Leave(e) ==
  /\ thread[e].pc = "recorded"
  /\ order' = IF order # <<>> /\ Head(order) = thread[e].job THEN Tail(order) ELSE order
  /\ position' = Reindex(order')
  /\ thread' = [thread EXCEPT ![e] = IdleThread]
  /\ UNCHANGED <<limit, status, work, loop, slots, waits>>

-----------------------------------------------------------------------------
LoopStep == Enqueue \/ WaitRuns \/ WaitEnds

ThreadStep(e) ==
  \/ Take(e) \/ Start(e) \/ Infer(e) \/ Return(e) \/ Record(e) \/ Leave(e)

Next ==
  \/ \E j \in Jobs : Submit(j)
  \/ WaitArrives
  \/ LoopStep
  \/ \E e \in Threads : ThreadStep(e)

(* Threads are scheduled and an inference ends.  The loop does not let the *)
(* threads starve: only MaxWaits requests with wait=true arrive.           *)
Fairness ==
  /\ WF_vars(LoopStep)
  /\ \A e \in 1..MaxLimit : WF_vars(e <= limit /\ ThreadStep(e))

Spec == Init /\ [][Next]_vars /\ Fairness

-----------------------------------------------------------------------------
(* Properties                                                              *)

(* Every variable keeps its shape.                                         *)
TypeOK ==
  /\ limit \in 1..MaxLimit
  /\ status \in [Jobs -> {"none", "queued", "running", "done", "failed"}]
  /\ position \in [Jobs -> 0..MaxJobs]
  /\ order \in Seq(Jobs)
  /\ work \in Seq(Jobs)
  /\ thread \in [1..MaxLimit ->
       [pc : {"taken", "waiting", "inferring", "returned", "recorded"}, job : Jobs]
         \union {IdleThread}]
  /\ loop \in [pc : {"submitting"}, job : Jobs]
         \union [pc : {"free", "waiting", "inferring"}, job : {NoJob}]
  /\ slots \in 0..limit
  /\ waits \in 0..MaxWaits

Inferring == {e \in 1..MaxLimit : thread[e].pc = "inferring"}

(* The executor has as many threads as the semaphore has slots, but the    *)
(* event loop infers too: together they never exceed the limit.            *)
SlotsRespected ==
  Cardinality(Inferring) + (IF loop.pc = "inferring" THEN 1 ELSE 0) <= limit

(* The jobs before j that are not over.                                    *)
Ahead(j) == {i \in Jobs : i < j /\ status[i] \in {"queued", "running"}}

(* The position a client polls is never too small.  With one thread it is  *)
(* exact, but for the moment between the end of a job and its removal;     *)
(* with several it stays too large once jobs have ended out of order,      *)
(* because Leave removes only the head.                                    *)
PositionsAreHonest ==
  \A j \in Jobs : status[j] = "queued" =>
    /\ position[j] >= Cardinality(Ahead(j))
    /\ limit = 1 /\ thread[1].pc # "recorded" => position[j] = Cardinality(Ahead(j))

(* With one thread the order is empty whenever nothing is going on.        *)
OrderDrains ==
  limit = 1 /\ work = <<>> /\ loop = Free /\ thread[1] = IdleThread => order = <<>>

(* While it waits, the position of a job only shrinks.                     *)
PositionNeverGrows ==
  [][\A j \in Jobs : status[j] = "queued" => position'[j] <= position[j]]_vars

(* The queue serves the jobs in the order of their submission, as FifoJobs *)
(* promises: a job is numbered after those that came before it.            *)
Fifo == INSTANCE FifoJobs WITH
          capacity <- limit,
          earlier <- [j \in Jobs |-> IF status[j] = "none" THEN {} ELSE 1..(j - 1)],
          state <- status

ServesInOrder == Fifo!Spec

(* Every job that is submitted ends, and the loop that blocks on the       *)
(* semaphore comes free again.                                             *)
JobsEnd ==
  /\ \A j \in Jobs : status[j] = "queued" ~> status[j] \in {"done", "failed"}
  /\ loop.pc = "waiting" ~> loop = Free
=============================================================================
