--------------------------- MODULE JobQueue_proofs ---------------------------
(* The queue of the segmentation service keeps its shape and its limit, for *)
(* any number of jobs, threads and requests with wait=true.                 *)
EXTENDS MCJobQueue, FiniteSetTheorems, SequenceTheorems, TLAPS

Busy == [pc : {"taken", "waiting", "inferring", "returned", "recorded"}, job : Jobs]

(* TypeOK, but for the bounds that need the rest of the invariant.          *)
Shape ==
  /\ limit \in 1..MaxLimit
  /\ status \in [Jobs -> {"none", "queued", "running", "done", "failed"}]
  /\ position \in [Jobs -> 0..MaxJobs]
  /\ order \in Seq(Jobs)
  /\ work \in Seq(Jobs)
  /\ thread \in [1..MaxLimit -> Busy \union {IdleThread}]
  /\ loop \in [pc : {"submitting"}, job : Jobs]
         \union [pc : {"free", "waiting", "inferring"}, job : {NoJob}]
  /\ slots \in Nat
  /\ waits \in 0..MaxWaits

(* Jobs are submitted in the order of their numbers, and the order holds    *)
(* submitted jobs, each at most as far back as its number.                  *)
Listed ==
  /\ \A i, j \in Jobs : i < j /\ status[j] # "none" => status[i] # "none"
  /\ \A n \in 1..Len(order) : n <= order[n] /\ status[order[n]] # "none"

(* What is on its way was submitted.                                        *)
Submitted ==
  /\ loop.pc = "submitting" => status[loop.job] # "none"
  /\ \A n \in 1..Len(work) : status[work[n]] # "none"
  /\ \A e \in 1..MaxLimit : thread[e] # IdleThread => status[thread[e].job] # "none"

InLoop == IF loop.pc = "inferring" THEN 1 ELSE 0

(* Every slot of the semaphore is free or in use.                           *)
SlotsAddUp == slots + Cardinality(Inferring) + InLoop = limit

IInv == Shape /\ Listed /\ Submitted /\ SlotsAddUp

-----------------------------------------------------------------------------
LEMMA InferringIsFinite ==
  ASSUME JobQueueAssumption
  PROVE  IsFiniteSet(Inferring) /\ Cardinality(Inferring) \in Nat
<1>1. MaxLimit \in Int /\ 1 \in Int
  BY DEF JobQueueAssumption
<1>2. IsFiniteSet(1..MaxLimit)
  BY <1>1, FS_Interval
<1>3. Inferring \in SUBSET (1..MaxLimit)
  BY DEF Inferring
<1>. HIDE DEF Inferring
<1>4. IsFiniteSet(Inferring)
  BY <1>2, <1>3, FS_Subset
<1>. QED BY <1>4, FS_CardinalityType

(* What is checked for small instances follows from the invariant.          *)
LEMMA InvariantImplies ==
  ASSUME JobQueueAssumption, IInv
  PROVE  TypeOK /\ SlotsRespected
<1>1. Cardinality(Inferring) \in Nat
  BY InferringIsFinite
<1>2. InLoop \in {0, 1} /\ slots \in Nat /\ limit \in Nat
  BY DEF IInv, Shape, InLoop, JobQueueAssumption
<1>3. slots + Cardinality(Inferring) + InLoop = limit
  BY DEF IInv, SlotsAddUp
<1>. HIDE DEF Inferring
<1>4. slots \in 0..limit
  BY <1>1, <1>2, <1>3
<1>5. TypeOK
  BY <1>4 DEF IInv, Shape, TypeOK, Busy
<1>6. Cardinality(Inferring) + InLoop <= limit
  BY <1>1, <1>2, <1>3
<1>7. SlotsRespected
  BY <1>6 DEF SlotsRespected, InLoop
<1>. QED BY <1>5, <1>7

LEMMA InitInvariant ==
  ASSUME JobQueueAssumption, Init
  PROVE  IInv
<1>1. Shape
  BY DEF Init, Shape, JobQueueAssumption, IdleThread, Free, NoJob
<1>2. Listed
  BY DEF Init, Listed
<1>a. Submitted
  BY DEF Init, Submitted, Free
<1>3. Inferring = {}
  BY DEF Init, Inferring, IdleThread
<1>4. SlotsAddUp
  <2>1. Cardinality(Inferring) = 0
    BY <1>3, FS_EmptySet
  <2>2. InLoop = 0 /\ slots = limit /\ limit \in Nat
    BY <1>1 DEF Init, InLoop, Free, Shape, JobQueueAssumption
  <2>. HIDE DEF Inferring
  <2>. QED BY <2>1, <2>2 DEF SlotsAddUp
<1>. QED BY <1>1, <1>2, <1>a, <1>4 DEF IInv

(* The order is never longer than there are jobs.                           *)
LEMMA OrderIsShort ==
  ASSUME JobQueueAssumption, Shape, Listed
  PROVE  Len(order) \in 0..MaxJobs
<1>1. Len(order) \in Nat /\ MaxJobs \in Nat
  BY DEF Shape, JobQueueAssumption
<1>2. CASE Len(order) = 0
  BY <1>1, <1>2
<1>3. CASE Len(order) # 0
  <2>1. Len(order) \in 1..Len(order)
    BY <1>1, <1>3
  <2>2. order[Len(order)] \in Jobs
    BY <2>1 DEF Shape
  <2>3. Len(order) <= order[Len(order)]
    BY <2>1 DEF Listed
  <2>. QED BY <1>1, <2>2, <2>3 DEF Jobs
<1>. QED BY <1>2, <1>3

-----------------------------------------------------------------------------
LEMMA SubmitInvariant ==
  ASSUME JobQueueAssumption, IInv, NEW j \in Jobs, Submit(j)
  PROVE  IInv'
<1>. USE DEF IInv
<1>1. Len(order) \in 0..MaxJobs
  BY OrderIsShort
<1>2. order \in Seq(Jobs) /\ Len(order) \in Nat /\ order' = Append(order, j)
  BY DEF Shape, Submit
<1>3. Shape'
  BY <1>1, <1>2 DEF Shape, Submit
<1>4. \A n \in 1..Len(order) : order[n] \in Jobs /\ order[n] < j
  <2>1. SUFFICES ASSUME NEW n \in 1..Len(order) PROVE order[n] \in Jobs /\ order[n] < j
    OBVIOUS
  <2>2. order[n] \in Jobs /\ status[order[n]] # "none" /\ status[j] = "none"
    BY <1>2, <2>1 DEF Listed, Submit
  <2>3. order[n] # j /\ ~(j < order[n])
    BY <2>2 DEF Listed
  <2>. QED BY <2>2, <2>3 DEF Jobs
<1>5. Len(order) + 1 <= j
  <2>1. CASE Len(order) = 0
    BY <2>1 DEF Jobs
  <2>2. CASE Len(order) # 0
    <3>1. Len(order) \in 1..Len(order)
      BY <1>2, <2>2
    <3>2. Len(order) <= order[Len(order)] /\ order[Len(order)] < j /\ order[Len(order)] \in Jobs
      BY <1>4, <3>1 DEF Listed
    <3>. QED BY <1>2, <3>2 DEF Jobs
  <2>. QED BY <2>1, <2>2
<1>6. Listed'
  <2>1. \A i, k \in Jobs : i < k /\ status'[k] # "none" => status'[i] # "none"
    BY DEF Submit, Shape, Listed, Jobs
  <2>2. ASSUME NEW n \in 1..Len(order') PROVE n <= order'[n] /\ status'[order'[n]] # "none"
    <3>1. CASE n = Len(order) + 1
      BY <1>2, <1>5, <3>1 DEF Submit, Shape
    <3>2. CASE n # Len(order) + 1
      <4>1. n \in 1..Len(order) /\ order'[n] = order[n]
        BY <1>2, <2>2, <3>2
      <4>2. status'[order[n]] = status[order[n]]
        BY <1>4, <4>1 DEF Submit, Shape, Jobs
      <4>. QED BY <4>1, <4>2 DEF Listed
    <3>. QED BY <3>1, <3>2
  <2>. QED BY <2>1, <2>2 DEF Listed
<1>a. Submitted'
  <2>1. \A i \in Jobs : status[i] # "none" => status'[i] # "none"
    BY DEF Submit, Shape
  <2>2. status'[j] # "none" /\ loop'.job = j
    BY DEF Submit, Shape
  <2>3. \A e \in 1..MaxLimit : thread[e] # IdleThread => thread[e].job \in Jobs
    BY DEF Shape, Busy
  <2>4. \A n \in 1..Len(work) : work[n] \in Jobs
    BY DEF Shape
  <2>. QED BY <2>1, <2>2, <2>3, <2>4 DEF Submitted, Submit
<1>7. Inferring' = Inferring /\ InLoop' = InLoop
  BY DEF Submit, Inferring, InLoop, Free
<1>8. SlotsAddUp'
  BY <1>7 DEF SlotsAddUp, Submit
<1>. QED BY <1>3, <1>6, <1>a, <1>8

(* Steps of the loop that leave the jobs alone.                             *)
LEMMA LoopInvariant ==
  ASSUME JobQueueAssumption, IInv, WaitArrives \/ LoopStep
  PROVE  IInv'
<1>. USE DEF IInv
<1>1. Shape' /\ slots \in Nat /\ slots' \in Nat
  <2>1. CASE WaitArrives
    BY <2>1 DEF WaitArrives, Shape, NoJob, JobQueueAssumption
  <2>2. CASE Enqueue
    BY <2>2 DEF Enqueue, Shape, Free, NoJob
  <2>3. CASE WaitRuns
    BY <2>3 DEF WaitRuns, Shape, NoJob
  <2>4. CASE WaitEnds
    BY <2>4 DEF WaitEnds, Shape, Free, NoJob
  <2>. QED BY <2>1, <2>2, <2>3, <2>4 DEF LoopStep
<1>2. Listed'
  BY DEF Listed, WaitArrives, LoopStep, Enqueue, WaitRuns, WaitEnds
<1>a. Submitted'
  <2>1. CASE UNCHANGED <<work, status, thread>>
    BY <2>1 DEF Submitted, WaitArrives, LoopStep, Enqueue, WaitRuns, WaitEnds, Free
  <2>2. CASE Enqueue
    <3>1. loop.job \in Jobs /\ status[loop.job] # "none" /\ work \in Seq(Jobs)
      BY <2>2 DEF Enqueue, Shape, Submitted
    <3>2. \A n \in 1..Len(work') : status[work'[n]] # "none"
      BY <2>2, <3>1 DEF Enqueue, Submitted
    <3>. QED BY <2>2, <3>2 DEF Enqueue, Submitted, Free
  <2>. QED BY <2>1, <2>2 DEF WaitArrives, LoopStep, WaitRuns, WaitEnds
<1>3. Inferring' = Inferring
  BY DEF Inferring, WaitArrives, LoopStep, Enqueue, WaitRuns, WaitEnds
<1>4. slots' + InLoop' = slots + InLoop
  <2>1. CASE WaitArrives
    BY <1>1, <2>1 DEF InLoop, Free, WaitArrives
  <2>2. CASE Enqueue
    BY <1>1, <2>2 DEF InLoop, Free, Enqueue
  <2>3. CASE WaitRuns
    BY <1>1, <2>3 DEF InLoop, WaitRuns
  <2>4. CASE WaitEnds
    BY <1>1, <2>4 DEF InLoop, Free, WaitEnds
  <2>. QED BY <2>1, <2>2, <2>3, <2>4 DEF LoopStep
<1>5. SlotsAddUp'
  <2>1. Cardinality(Inferring) \in Nat
    BY InferringIsFinite
  <2>2. limit' = limit
    BY DEF WaitArrives, LoopStep, Enqueue, WaitRuns, WaitEnds
  <2>3. Cardinality(Inferring') = Cardinality(Inferring)
    BY <1>3
  <2>4. InLoop \in Nat /\ InLoop' \in Nat
    BY DEF InLoop
  <2>. HIDE DEF IInv
  <2>5. slots + Cardinality(Inferring) + InLoop = limit
    BY DEF IInv, SlotsAddUp
  <2>6. slots' + Cardinality(Inferring') + InLoop' = limit'
    <3>1. slots \in Nat /\ slots' \in Nat
      BY <1>1
    <3>2. PICK s \in Nat, t \in Nat, i \in Nat, k \in Nat, n \in Nat :
            s = slots /\ t = slots' /\ i = InLoop /\ k = InLoop' /\ n = Cardinality(Inferring)
      BY <2>1, <2>4, <3>1
    <3>3. t + k = s + i
      BY <1>4, <3>2
    <3>4. t + n + k = s + n + i
      BY <3>3
    <3>. QED BY <2>2, <2>3, <2>5, <3>2, <3>4
  <2>. QED BY <2>6 DEF SlotsAddUp
<1>. QED BY <1>1, <1>2, <1>a, <1>5

(* What _reindex_positions finds is a place in the order.                   *)
LEMMA ReindexType ==
  ASSUME JobQueueAssumption, Shape, NEW seq \in Seq(Jobs), Len(seq) \in 0..MaxJobs
  PROVE  Reindex(seq) \in [Jobs -> 0..MaxJobs]
<1>1. ASSUME NEW j \in Jobs
      PROVE  (IF j \in Elements(seq) THEN Place(seq, j) - 1 ELSE position[j]) \in 0..MaxJobs
  <2>1. CASE j \in Elements(seq)
    <3>1. \E n \in 1..Len(seq) : seq[n] = j
      BY <2>1 DEF Elements
    <3>2. Place(seq, j) \in 1..Len(seq)
      BY <3>1 DEF Place
    <3>. QED BY <2>1, <3>2 DEF JobQueueAssumption
  <2>2. CASE j \notin Elements(seq)
    BY <1>1, <2>2 DEF Shape
  <2>. QED BY <2>1, <2>2
<1>. QED BY <1>1 DEF Reindex

LEMMA ThreadShape ==
  ASSUME JobQueueAssumption, IInv, NEW e \in Threads, ThreadStep(e)
  PROVE  Shape'
<1>. USE DEF IInv
<1>1. e \in 1..MaxLimit
  BY DEF Threads, Shape, JobQueueAssumption
<1>2. thread[e].pc # "idle" => thread[e] \in Busy
  BY <1>1 DEF Shape, IdleThread
<1>a. ASSUME NEW pc \in {"taken", "waiting", "inferring", "returned", "recorded"}, thread[e] \in Busy
      PROVE  [thread EXCEPT ![e].pc = pc] \in [1..MaxLimit -> Busy \union {IdleThread}]
  <2>1. [thread[e] EXCEPT !.pc = pc] \in Busy
    BY <1>a DEF Busy
  <2>. QED BY <1>1, <2>1 DEF Shape
<1>3. CASE Take(e)
  <2>1. Head(work) \in Jobs /\ Tail(work) \in Seq(Jobs)
    BY <1>3, HeadTailProperties DEF Take, Shape
  <2>2. [pc |-> "taken", job |-> Head(work)] \in Busy
    BY <2>1 DEF Busy
  <2>. QED BY <1>1, <1>3, <2>1, <2>2 DEF Take, Shape
<1>4. CASE Start(e)
  <2>1. 0 \in 0..MaxJobs
    BY DEF JobQueueAssumption
  <2>2. thread' \in [1..MaxLimit -> Busy \union {IdleThread}]
    BY <1>2, <1>4, <1>a DEF Start
  <2>. QED BY <1>4, <2>1, <2>2 DEF Start, Shape
<1>5. CASE Infer(e)
  <2>1. thread' \in [1..MaxLimit -> Busy \union {IdleThread}]
    BY <1>2, <1>5, <1>a DEF Infer
  <2>2. slots' \in Nat
    BY <1>5 DEF Infer, Shape
  <2>. QED BY <1>5, <2>1, <2>2 DEF Infer, Shape
<1>6. CASE Return(e)
  <2>1. thread' \in [1..MaxLimit -> Busy \union {IdleThread}]
    BY <1>2, <1>6, <1>a DEF Return
  <2>2. slots' \in Nat
    BY <1>6 DEF Return, Shape
  <2>. QED BY <1>6, <2>1, <2>2 DEF Return, Shape
<1>7. CASE Record(e)
  <2>1. thread' \in [1..MaxLimit -> Busy \union {IdleThread}]
    BY <1>2, <1>7, <1>a DEF Record
  <2>. QED BY <1>7, <2>1 DEF Record, Shape
<1>8. CASE Leave(e)
  <2>1. Len(order) \in 0..MaxJobs /\ order \in Seq(Jobs)
    BY OrderIsShort DEF Shape
  <2>2. order' \in Seq(Jobs) /\ Len(order') \in 0..MaxJobs
    <3>1. CASE order' = order
      BY <2>1, <3>1
    <3>2. CASE order # <<>> /\ order' = Tail(order)
      BY <2>1, <3>2, HeadTailProperties
    <3>. QED BY <1>8, <3>1, <3>2 DEF Leave
  <2>3. position' \in [Jobs -> 0..MaxJobs]
    BY <1>8, <2>2, ReindexType DEF Leave
  <2>. QED BY <1>1, <1>8, <2>2, <2>3 DEF Leave, Shape, IdleThread
<1>. QED BY <1>3, <1>4, <1>5, <1>6, <1>7, <1>8 DEF ThreadStep

LEMMA ThreadListed ==
  ASSUME JobQueueAssumption, IInv, NEW e \in Threads, ThreadStep(e)
  PROVE  Listed' /\ Submitted'
<1>. USE DEF IInv
<1>1. e \in 1..MaxLimit
  BY DEF Threads, Shape, JobQueueAssumption
<1>2. \A d \in 1..MaxLimit : thread[d] # IdleThread => thread[d].job \in Jobs
  BY DEF Shape, Busy
<1>3. \A n \in 1..Len(work) : work[n] \in Jobs
  BY DEF Shape
<1>4. \A n \in 1..Len(order) : order[n] \in Jobs
  BY DEF Shape
<1>5. \A j \in Jobs : status[j] = "none" <=> status'[j] = "none"
  <2>1. CASE Start(e) \/ Record(e)
    <3>1. thread[e] # IdleThread
      BY <2>1 DEF Start, Record, IdleThread
    <3>2. status[thread[e].job] # "none"
      BY <1>1, <3>1 DEF Submitted
    <3>. QED BY <2>1, <3>2 DEF Start, Record, Shape
  <2>2. CASE UNCHANGED status
    BY <2>2
  <2>. QED BY <2>1, <2>2 DEF ThreadStep, Take, Infer, Return, Leave
<1>6. \A i, k \in Jobs : i < k /\ status'[k] # "none" => status'[i] # "none"
  BY <1>5 DEF Listed
<1>7. \A n \in 1..Len(order') : n <= order'[n] /\ status'[order'[n]] # "none"
  <2>1. CASE order' = order
    BY <1>4, <1>5, <2>1 DEF Listed
  <2>2. CASE order # <<>> /\ order' = Tail(order)
    <3>1. order \in Seq(Jobs) /\ Len(order') = Len(order) - 1 /\ Len(order) \in Nat
      BY <2>2, HeadTailProperties DEF Shape
    <3>2. ASSUME NEW n \in 1..Len(order')
          PROVE  n + 1 \in 1..Len(order) /\ order'[n] = order[n + 1]
      BY <2>2, <3>1, <3>2
    <3>3. ASSUME NEW n \in 1..Len(order')
          PROVE  n <= order'[n] /\ status'[order'[n]] # "none"
      <4>1. n + 1 \in 1..Len(order) /\ order'[n] = order[n + 1]
        BY <3>2
      <4>2. n + 1 <= order[n + 1] /\ status[order[n + 1]] # "none" /\ order[n + 1] \in Jobs
        BY <1>4, <4>1 DEF Listed
      <4>. QED BY <1>5, <4>1, <4>2 DEF Jobs
    <3>. QED BY <3>3
  <2>. QED BY <2>1, <2>2 DEF ThreadStep, Take, Start, Infer, Return, Record, Leave
<1>8. Submitted'
  <2>1. loop' = loop
    BY DEF ThreadStep, Take, Start, Infer, Return, Record, Leave
  <2>2. loop.pc = "submitting" => loop.job \in Jobs
    BY DEF Shape
  <2>3. \A n \in 1..Len(work') : status'[work'[n]] # "none"
    <3>1. CASE work' = work
      BY <1>3, <1>5, <3>1 DEF Submitted
    <3>2. CASE Take(e)
      <4>1. work \in Seq(Jobs) /\ work # <<>> /\ work' = Tail(work)
        BY <3>2 DEF Take, Shape
      <4>2. ASSUME NEW n \in 1..Len(work')
            PROVE  n + 1 \in 1..Len(work) /\ work'[n] = work[n + 1]
        BY <4>1, <4>2, HeadTailProperties
      <4>. QED BY <1>3, <1>5, <4>2 DEF Submitted
    <3>. QED BY <3>1, <3>2 DEF ThreadStep, Start, Infer, Return, Record, Leave
  <2>4. ASSUME NEW d \in 1..MaxLimit, thread'[d] # IdleThread
        PROVE  status'[thread'[d].job] # "none"
    <3>1. CASE thread[d] # IdleThread /\ thread'[d].job = thread[d].job
      BY <1>2, <1>5, <3>1 DEF Submitted
    <3>2. CASE Take(e) /\ d = e
      <4>1. Head(work) = work[1] /\ 1 \in 1..Len(work)
        BY <3>2 DEF Take, Shape
      <4>2. thread'[d].job = Head(work)
        BY <1>1, <3>2 DEF Take, Shape
      <4>. QED BY <1>3, <1>5, <4>1, <4>2 DEF Submitted
    <3>3. CASE ~Take(e) \/ d # e
      <4>1. CASE d # e
        <5>1. thread'[d] = thread[d]
          BY <1>1, <2>4, <4>1 DEF Shape, ThreadStep, Take, Start, Infer, Return, Record, Leave
        <5>. QED BY <2>4, <3>1, <5>1
      <4>2. CASE d = e /\ Leave(e)
        BY <1>1, <2>4, <4>2 DEF Leave, Shape
      <4>3. ASSUME d = e, NEW pc, thread' = [thread EXCEPT ![e].pc = pc], thread[e].pc # "idle"
            PROVE  thread[d] # IdleThread /\ thread'[d].job = thread[d].job
        <5>1. thread'[d] = [thread[d] EXCEPT !.pc = pc] /\ thread[d] # IdleThread
          BY <1>1, <4>3 DEF Shape, IdleThread
        <5>2. thread[d] \in Busy
          BY <5>1 DEF Shape
        <5>. QED BY <5>1, <5>2 DEF Busy
      <4>4. CASE d = e /\ (Start(e) \/ Infer(e) \/ Return(e) \/ Record(e))
        <5>1. thread[d] # IdleThread /\ thread'[d].job = thread[d].job
          BY <4>3, <4>4 DEF Start, Infer, Return, Record
        <5>. QED BY <3>1, <5>1
      <4>. QED BY <3>3, <4>1, <4>2, <4>4 DEF ThreadStep
    <3>. QED BY <3>2, <3>3
  <2>. QED BY <1>5, <2>1, <2>2, <2>3, <2>4 DEF Submitted
<1>. QED BY <1>6, <1>7, <1>8 DEF Listed

(* The semaphore: a slot goes to a thread and comes back from it.           *)
LEMMA ThreadSlots ==
  ASSUME JobQueueAssumption, IInv, NEW e \in Threads, ThreadStep(e)
  PROVE  SlotsAddUp'
<1>1. e \in 1..MaxLimit /\ slots \in Nat
  BY DEF IInv, Shape, Threads, JobQueueAssumption
<1>2. IsFiniteSet(Inferring) /\ Cardinality(Inferring) \in Nat
  BY InferringIsFinite
<1>3. InLoop' = InLoop /\ InLoop \in Nat /\ limit' = limit
  BY DEF InLoop, ThreadStep, Take, Start, Infer, Return, Record, Leave
<1>4. slots + Cardinality(Inferring) + InLoop = limit
  BY DEF IInv, SlotsAddUp
<1>5. slots' + Cardinality(Inferring') = slots + Cardinality(Inferring)
  <2>1. CASE Infer(e)
    <3>1. Inferring' = Inferring \union {e} /\ e \notin Inferring /\ slots' = slots - 1
      BY <1>1, <2>1 DEF Infer, Inferring, IInv, Shape
    <3>2. Cardinality(Inferring') = Cardinality(Inferring) + 1
      BY <1>2, <3>1, FS_AddElement
    <3>. QED BY <1>1, <1>2, <3>1, <3>2
  <2>2. CASE Return(e)
    <3>1. Inferring' = Inferring \ {e} /\ e \in Inferring /\ slots' = slots + 1
      BY <1>1, <2>2 DEF Return, Inferring, IInv, Shape
    <3>2. Cardinality(Inferring') = Cardinality(Inferring) - 1
      BY <1>2, <3>1, FS_RemoveElement
    <3>. QED BY <1>1, <1>2, <3>1, <3>2
  <2>3. CASE Take(e) \/ Start(e) \/ Record(e) \/ Leave(e)
    <3>1. Inferring' = Inferring /\ slots' = slots
      <4>1. \A d \in 1..MaxLimit : d # e => thread'[d] = thread[d]
        BY <1>1, <2>3 DEF Take, Start, Record, Leave, IInv, Shape
      <4>2. thread[e].pc # "inferring"
        BY <2>3 DEF Take, Start, Record, Leave, IdleThread
      <4>3. thread'[e].pc # "inferring"
        <5>1. CASE Take(e) \/ Leave(e)
          BY <1>1, <5>1 DEF Take, Leave, IdleThread, IInv, Shape
        <5>2. CASE Start(e) \/ Record(e)
          <6>1. ASSUME NEW pc, thread' = [thread EXCEPT ![e].pc = pc], thread[e].pc # "idle"
                PROVE  thread'[e].pc = pc
            <7>1. thread'[e] = [thread[e] EXCEPT !.pc = pc] /\ thread[e] \in Busy
              BY <1>1, <6>1 DEF IInv, Shape, IdleThread
            <7>. QED BY <7>1 DEF Busy
          <6>. QED BY <5>2, <6>1 DEF Start, Record
        <5>. QED BY <2>3, <5>1, <5>2
      <4>4. slots' = slots
        BY <2>3 DEF Take, Start, Record, Leave
      <4>. QED BY <1>1, <4>1, <4>2, <4>3, <4>4 DEF Inferring
    <3>. QED BY <3>1
  <2>. QED BY <2>1, <2>2, <2>3 DEF ThreadStep
<1>6. slots' + Cardinality(Inferring') + InLoop' = limit'
  BY <1>1, <1>2, <1>3, <1>4, <1>5
<1>. QED BY <1>6 DEF SlotsAddUp

-----------------------------------------------------------------------------
LEMMA InvariantStays ==
  ASSUME JobQueueAssumption, IInv, [Next]_vars
  PROVE  IInv'
<1>1. ASSUME NEW j \in Jobs, Submit(j) PROVE IInv'
  BY <1>1, SubmitInvariant
<1>2. CASE WaitArrives \/ LoopStep
  BY <1>2, LoopInvariant
<1>3. ASSUME NEW e \in Threads, ThreadStep(e) PROVE IInv'
  BY <1>3, ThreadShape, ThreadListed, ThreadSlots DEF IInv
<1>4. CASE UNCHANGED vars
  BY <1>4 DEF vars, IInv, Shape, Listed, Submitted, SlotsAddUp, Inferring, InLoop
<1>. QED BY <1>1, <1>2, <1>3, <1>4 DEF Next

(* Whatever the loop and the threads do in whatever order, no more than     *)
(* max_concurrent_inferences inferences run at once (the semaphore of       *)
(* runtime.py, taken by jobs.py and app.py).                                *)
THEOREM SlotsAlwaysRespected ==
  ASSUME JobQueueAssumption
  PROVE  Spec => []SlotsRespected
<1>1. Init => IInv
  BY InitInvariant
<1>2. IInv /\ [Next]_vars => IInv'
  BY InvariantStays
<1>3. IInv => SlotsRespected
  BY InvariantImplies
<1>. QED BY <1>1, <1>2, <1>3, PTL DEF Spec

(* Every variable of jobs.py and of its executor keeps its shape; positions *)
(* are never larger than the number of jobs.                                *)
THEOREM QueueKeepsItsShape ==
  ASSUME JobQueueAssumption
  PROVE  Spec => []TypeOK
<1>1. Init => IInv
  BY InitInvariant
<1>2. IInv /\ [Next]_vars => IInv'
  BY InvariantStays
<1>3. IInv => TypeOK
  BY InvariantImplies
<1>. QED BY <1>1, <1>2, <1>3, PTL DEF Spec

-----------------------------------------------------------------------------
(* The line of jobs: the first p jobs have left the order, the first s were *)
(* taken by a thread.                                                       *)

(* The order holds the submitted jobs after p, the executor those after s.  *)
Lined(p, s) ==
  /\ \A n \in 1..Len(order) : order[n] = p + n
  /\ \A j \in Jobs : status[j] # "none" <=> j <= p + Len(order)
  /\ \A n \in 1..Len(work) : work[n] = s + n
  /\ p <= s
  /\ s + Len(work) + (IF loop.pc = "submitting" THEN 1 ELSE 0) = p + Len(order)
  /\ loop.pc = "submitting" => loop.job = p + Len(order)

(* Each thread has a job of its own between the two.                        *)
Held(p, s) ==
  /\ \A e \in 1..MaxLimit : e > limit => thread[e] = IdleThread
  /\ \A e \in 1..MaxLimit : thread[e] # IdleThread => p < thread[e].job /\ thread[e].job <= s
  /\ \A d, e \in 1..MaxLimit :
       thread[d] # IdleThread /\ thread[e] # IdleThread /\ thread[d].job = thread[e].job => d = e
  /\ limit = 1 => s = p + (IF thread[1] = IdleThread THEN 0 ELSE 1)

StatusAt(pc) ==
  CASE pc = "taken" -> {"queued"}
    [] pc \in {"waiting", "inferring", "returned"} -> {"running"}
    [] OTHER -> {"done", "failed"}

(* Statuses and positions say where a job is.                               *)
Told(p, s) ==
  /\ \A j \in Jobs : j > s => status[j] \in {"none", "queued"}
  /\ \A e \in 1..MaxLimit :
       thread[e] # IdleThread => status[thread[e].job] \in StatusAt(thread[e].pc)
  /\ \A j \in Jobs : j <= s =>
       \/ status[j] \in {"done", "failed"}
       \/ \E e \in 1..MaxLimit : thread[e] # IdleThread /\ thread[e].job = j
  /\ \A j \in Jobs : status[j] = "queued" => position[j] = j - p - 1

Line(p, s) == Lined(p, s) /\ Held(p, s) /\ Told(p, s)

LEMMA InitLine ==
  ASSUME JobQueueAssumption, Init
  PROVE  Line(0, 0)
<1>1. Len(order) = 0 /\ Len(work) = 0 /\ loop.pc = "free"
  BY DEF Init, Free
<1>2. Lined(0, 0)
  BY <1>1 DEF Lined, Init, Jobs, JobQueueAssumption
<1>3. Held(0, 0)
  BY DEF Held, Init, JobQueueAssumption
<1>4. Told(0, 0)
  BY DEF Told, Init, Jobs, JobQueueAssumption
<1>. QED BY <1>2, <1>3, <1>4 DEF Line

LEMMA LineTypes ==
  ASSUME JobQueueAssumption, IInv
  PROVE  /\ Len(order) \in Nat /\ Len(work) \in Nat /\ MaxJobs \in Nat
         /\ limit \in Nat /\ 1 <= limit /\ limit <= MaxLimit /\ MaxLimit \in Nat
         /\ \A n \in 1..Len(order) : order[n] \in Jobs
         /\ \A n \in 1..Len(work) : work[n] \in Jobs
         /\ \A e \in 1..MaxLimit :
              thread[e] # IdleThread => thread[e] \in Busy /\ thread[e].job \in Jobs
  BY DEF IInv, Shape, JobQueueAssumption, Busy

LEMMA SubmitLine ==
  ASSUME JobQueueAssumption, IInv, NEW p \in Nat, NEW s \in Nat, Line(p, s),
         NEW j \in Jobs, Submit(j)
  PROVE  Line(p, s)'
<1>. DEFINE q == p + Len(order)
<1>1. Len(order) \in Nat /\ Len(work) \in Nat /\ q \in Nat /\ j \in Nat /\ MaxJobs \in Nat
  BY LineTypes DEF Jobs
<1>2. j = q + 1
  <2>1. ~(j <= q)
    BY DEF Submit, Line, Lined
  <2>2. q + 1 \in Jobs
    BY <1>1, <2>1 DEF Jobs
  <2>3. ~(q + 1 < j)
    BY <1>1, <2>2 DEF Submit, Line, Lined
  <2>. QED BY <1>1, <2>1, <2>3
<1>3. order' = Append(order, j) /\ order \in Seq(Jobs) /\ Len(order') = Len(order) + 1
  BY DEF Submit, IInv, Shape
<1>4. status' = [status EXCEPT ![j] = "queued"] /\ status'[j] = "queued"
      /\ \A i \in Jobs : i # j => status'[i] = status[i]
  BY DEF Submit, IInv, Shape
<1>5. position'[j] = Len(order) /\ \A i \in Jobs : i # j => position'[i] = position[i]
  BY DEF Submit, IInv, Shape
<1>6. thread' = thread /\ limit' = limit /\ work' = work
      /\ loop' = [pc |-> "submitting", job |-> j] /\ loop.pc = "free"
  BY DEF Submit, Free
<1>7. Lined(p, s)'
  <2>1. \A n \in 1..Len(order') : order'[n] = p + n
    <3>1. SUFFICES ASSUME NEW n \in 1..Len(order') PROVE order'[n] = p + n
      OBVIOUS
    <3>2. CASE n = Len(order) + 1
      BY <1>1, <1>2, <1>3, <3>2
    <3>3. CASE n # Len(order) + 1
      BY <1>1, <1>3, <3>1, <3>3 DEF Line, Lined
    <3>. QED BY <3>2, <3>3
  <2>2. \A i \in Jobs : status'[i] # "none" <=> i <= p + Len(order')
    <3>1. ASSUME NEW i \in Jobs, i # j PROVE status'[i] # "none" <=> i <= p + Len(order')
      BY <1>1, <1>2, <1>3, <1>4, <3>1 DEF Line, Lined, Jobs
    <3>. QED BY <1>1, <1>2, <1>3, <1>4, <3>1
  <2>3. s + Len(work') + (IF loop'.pc = "submitting" THEN 1 ELSE 0) = p + Len(order')
    <3>1. s + Len(work) = p + Len(order)
      BY <1>1, <1>6 DEF Line, Lined
    <3>2. loop'.pc = "submitting" /\ Len(work') = Len(work)
      BY <1>6
    <3>. QED BY <1>1, <1>3, <3>1, <3>2
  <2>4. loop'.job = p + Len(order')
    BY <1>1, <1>2, <1>3, <1>6
  <2>. QED BY <1>6, <2>1, <2>2, <2>3, <2>4 DEF Line, Lined
<1>8. Held(p, s)'
  BY <1>6 DEF Line, Held
<1>9. Told(p, s)'
  <2>1. s <= q
    BY <1>1, <1>6 DEF Line, Lined
  <2>2. \A e \in 1..MaxLimit :
          thread[e] # IdleThread => thread[e].job \in Jobs /\ thread[e].job # j
    BY <1>1, <1>2, <2>1, LineTypes DEF Line, Held, Jobs
  <2>3. \A i \in Jobs : status'[i] = "queued" => position'[i] = i - p - 1
    BY <1>1, <1>2, <1>4, <1>5 DEF Line, Told
  <2>4. \A i \in Jobs : i > s => status'[i] \in {"none", "queued"}
    BY <1>4 DEF Line, Told
  <2>5. \A e \in 1..MaxLimit :
          thread[e] # IdleThread => status'[thread[e].job] \in StatusAt(thread[e].pc)
    BY <1>4, <2>2 DEF Line, Told
  <2>6. \A i \in Jobs : i <= s =>
          \/ status'[i] \in {"done", "failed"}
          \/ \E e \in 1..MaxLimit : thread[e] # IdleThread /\ thread[e].job = i
    BY <1>1, <1>2, <1>4, <2>1 DEF Line, Told
  <2>. QED BY <1>6, <2>3, <2>4, <2>5, <2>6 DEF Told
<1>. QED BY <1>7, <1>8, <1>9 DEF Line

LEMMA LoopLine ==
  ASSUME JobQueueAssumption, IInv, NEW p \in Nat, NEW s \in Nat, Line(p, s),
         WaitArrives \/ LoopStep
  PROVE  Line(p, s)'
<1>1. limit' = limit /\ status' = status /\ position' = position /\ order' = order
      /\ thread' = thread
  BY DEF WaitArrives, LoopStep, Enqueue, WaitRuns, WaitEnds
<1>2. Held(p, s)' /\ Told(p, s)'
  BY <1>1 DEF Line, Held, Told
<1>3. Lined(p, s)'
  <2>1. CASE Enqueue
    <3>1. loop.job \in Jobs /\ work \in Seq(Jobs) /\ Len(order) \in Nat
      BY <2>1, LineTypes DEF Enqueue, IInv, Shape
    <3>2. work' = Append(work, loop.job) /\ Len(work') = Len(work) + 1 /\ loop'.pc = "free"
      BY <2>1, <3>1 DEF Enqueue, Free
    <3>3. loop.job = s + Len(work) + 1 /\ s + Len(work) + 1 = p + Len(order)
      BY <2>1, <3>1 DEF Enqueue, Line, Lined
    <3>4. \A n \in 1..Len(work') : work'[n] = s + n
      <4>1. SUFFICES ASSUME NEW n \in 1..Len(work') PROVE work'[n] = s + n
        OBVIOUS
      <4>2. CASE n = Len(work) + 1
        BY <3>1, <3>2, <3>3, <4>2
      <4>3. CASE n # Len(work) + 1
        BY <3>1, <3>2, <4>1, <4>3 DEF Line, Lined
      <4>. QED BY <4>2, <4>3
    <3>5. s + Len(work') + (IF loop'.pc = "submitting" THEN 1 ELSE 0) = p + Len(order')
      BY <1>1, <3>1, <3>2, <3>3
    <3>. QED BY <1>1, <3>2, <3>4, <3>5 DEF Line, Lined
  <2>2. CASE WaitArrives \/ WaitRuns \/ WaitEnds
    <3>1. work' = work /\ loop.pc # "submitting" /\ loop'.pc # "submitting"
      BY <2>2 DEF WaitArrives, WaitRuns, WaitEnds, Free
    <3>. QED BY <1>1, <3>1 DEF Line, Lined
  <2>. QED BY <2>1, <2>2 DEF LoopStep
<1>. QED BY <1>2, <1>3 DEF Line

LEMMA TakeLine ==
  ASSUME JobQueueAssumption, IInv, NEW p \in Nat, NEW s \in Nat, Line(p, s),
         NEW e \in Threads, Take(e)
  PROVE  Line(p, s + 1)'
<1>1. /\ limit' = limit /\ status' = status /\ position' = position /\ order' = order
      /\ loop' = loop /\ Len(order) \in Nat /\ Len(work) \in Nat /\ e \in 1..MaxLimit
      /\ e <= limit /\ limit \in Nat /\ MaxJobs \in Nat
  BY LineTypes DEF Take, Threads
<1>2. work \in Seq(Jobs) /\ work # <<>> /\ work' = Tail(work) /\ Len(work') = Len(work) - 1
      /\ 1 \in 1..Len(work) /\ Head(work) = work[1]
  BY HeadTailProperties DEF Take, IInv, Shape
<1>3. Head(work) = s + 1 /\ s + 1 \in Jobs
  BY <1>2, LineTypes DEF Line, Lined
<1>4. thread[e] = IdleThread /\ thread'[e] = [pc |-> "taken", job |-> s + 1]
      /\ \A d \in 1..MaxLimit : d # e => thread'[d] = thread[d]
  BY <1>1, <1>3 DEF Take, IInv, Shape
<1>5. \A d \in 1..MaxLimit : thread[d] # IdleThread =>
        thread[d].job \in Nat /\ thread[d].job <= s /\ p < thread[d].job
  BY LineTypes DEF Line, Held, Jobs
<1>6. p <= s /\ s + 1 <= p + Len(order)
  <2>1. p <= s /\ s + Len(work) + (IF loop.pc = "submitting" THEN 1 ELSE 0) = p + Len(order)
    BY DEF Line, Lined
  <2>. QED BY <1>1, <1>2, <2>1
<1>7. Lined(p, s + 1)'
  <2>1. \A n \in 1..Len(work') : work'[n] = s + 1 + n
    <3>1. SUFFICES ASSUME NEW n \in 1..Len(work') PROVE work'[n] = s + 1 + n
      OBVIOUS
    <3>2. n + 1 \in 1..Len(work) /\ work'[n] = work[n + 1]
      BY <1>2, <3>1
    <3>. QED BY <3>2 DEF Line, Lined
  <2>2. s + Len(work) + (IF loop.pc = "submitting" THEN 1 ELSE 0) = p + Len(order)
    BY DEF Line, Lined
  <2>3. s + 1 + Len(work') + (IF loop'.pc = "submitting" THEN 1 ELSE 0) = p + Len(order')
    BY <1>1, <1>2, <2>2
  <2>4. p <= s + 1
    BY <1>6
  <2>. QED BY <1>1, <2>1, <2>3, <2>4 DEF Line, Lined
<1>8. Held(p, s + 1)'
  <2>1. \A d \in 1..MaxLimit : d > limit' => thread'[d] = IdleThread
    BY <1>1, <1>4 DEF Line, Held
  <2>2. \A d \in 1..MaxLimit : thread'[d] # IdleThread =>
          p < thread'[d].job /\ thread'[d].job <= s + 1
    BY <1>4, <1>5, <1>6
  <2>3. \A c, d \in 1..MaxLimit :
          thread'[c] # IdleThread /\ thread'[d] # IdleThread /\ thread'[c].job = thread'[d].job
            => c = d
    <3>1. SUFFICES ASSUME NEW c \in 1..MaxLimit, NEW d \in 1..MaxLimit, c # d,
                          thread'[c] # IdleThread, thread'[d] # IdleThread
                   PROVE  thread'[c].job # thread'[d].job
      OBVIOUS
    <3>2. CASE c = e
      BY <1>4, <1>5, <3>1, <3>2
    <3>3. CASE d = e
      BY <1>4, <1>5, <3>1, <3>3
    <3>4. CASE c # e /\ d # e
      BY <1>4, <3>1, <3>4 DEF Line, Held
    <3>. QED BY <3>2, <3>3, <3>4
  <2>4. limit' = 1 => s + 1 = p + (IF thread'[1] = IdleThread THEN 0 ELSE 1)
    <3>1. SUFFICES ASSUME limit = 1 PROVE s + 1 = p + (IF thread'[1] = IdleThread THEN 0 ELSE 1)
      BY <1>1
    <3>2. e = 1
      BY <1>1, <3>1
    <3>3. s = p /\ thread'[1] # IdleThread
      BY <1>4, <3>1, <3>2 DEF Line, Held, IdleThread
    <3>. QED BY <3>3
  <2>. QED BY <2>1, <2>2, <2>3, <2>4 DEF Held
<1>9. Told(p, s + 1)'
  <2>1. status[s + 1] = "queued"
    BY <1>1, <1>3, <1>6 DEF Line, Lined, Told
  <2>2. \A j \in Jobs : j > s + 1 => status[j] \in {"none", "queued"}
    BY DEF Line, Told, Jobs
  <2>3. \A d \in 1..MaxLimit :
          thread'[d] # IdleThread => status[thread'[d].job] \in StatusAt(thread'[d].pc)
    <3>1. SUFFICES ASSUME NEW d \in 1..MaxLimit, thread'[d] # IdleThread
                   PROVE  status[thread'[d].job] \in StatusAt(thread'[d].pc)
      OBVIOUS
    <3>2. CASE d = e
      BY <1>4, <2>1, <3>2 DEF StatusAt
    <3>3. CASE d # e
      BY <1>4, <3>1, <3>3 DEF Line, Told
    <3>. QED BY <3>2, <3>3
  <2>4. \A j \in Jobs : j <= s + 1 =>
          \/ status[j] \in {"done", "failed"}
          \/ \E d \in 1..MaxLimit : thread'[d] # IdleThread /\ thread'[d].job = j
    <3>1. SUFFICES ASSUME NEW j \in Jobs, j <= s + 1, status[j] \notin {"done", "failed"}
                   PROVE  \E d \in 1..MaxLimit : thread'[d] # IdleThread /\ thread'[d].job = j
      OBVIOUS
    <3>2. CASE j = s + 1
      BY <1>1, <1>4, <3>2 DEF IdleThread
    <3>3. CASE j # s + 1
      <4>1. j <= s
        BY <3>1, <3>3 DEF Jobs
      <4>2. PICK d \in 1..MaxLimit : thread[d] # IdleThread /\ thread[d].job = j
        BY <3>1, <4>1 DEF Line, Told
      <4>. QED BY <1>4, <4>2
    <3>. QED BY <3>2, <3>3
  <2>. QED BY <1>1, <2>2, <2>3, <2>4 DEF Line, Told
<1>. QED BY <1>7, <1>8, <1>9 DEF Line

(* A thread that goes on with its job: the line does not move.              *)
LEMMA ThreadLine ==
  ASSUME JobQueueAssumption, IInv, NEW p \in Nat, NEW s \in Nat, Line(p, s),
         NEW e \in Threads, Start(e) \/ Infer(e) \/ Return(e) \/ Record(e)
  PROVE  Line(p, s)'
<1>. DEFINE k == thread[e].job
<1>1. /\ limit' = limit /\ order' = order /\ work' = work /\ loop' = loop
      /\ Len(order) \in Nat /\ e \in 1..MaxLimit /\ e <= limit
  BY LineTypes DEF Start, Infer, Return, Record, Threads
<1>2. thread[e] # IdleThread /\ thread[e] \in Busy /\ k \in Jobs /\ k <= s /\ k > p
  <2>1. thread[e] # IdleThread
    BY DEF Start, Infer, Return, Record, IdleThread
  <2>2. thread[e] \in Busy /\ k \in Jobs
    BY <1>1, <2>1, LineTypes
  <2>3. k <= s /\ p < k
    BY <1>1, <2>1 DEF Line, Held
  <2>. QED BY <2>1, <2>2, <2>3 DEF Jobs
<1>3. PICK pc \in {"waiting", "inferring", "returned", "recorded"} :
        thread' = [thread EXCEPT ![e].pc = pc]
  BY DEF Start, Infer, Return, Record
<1>4. thread'[e].pc = pc /\ thread'[e].job = k /\ thread'[e] # IdleThread
      /\ \A d \in 1..MaxLimit : d # e => thread'[d] = thread[d]
  <2>1. thread'[e] = [thread[e] EXCEPT !.pc = pc]
        /\ \A d \in 1..MaxLimit : d # e => thread'[d] = thread[d]
    BY <1>1, <1>3 DEF IInv, Shape
  <2>2. thread'[e].pc = pc /\ thread'[e].job = k
    BY <1>2, <2>1 DEF Busy
  <2>. QED BY <2>1, <2>2 DEF IdleThread
<1>5. ASSUME NEW d \in 1..MaxLimit
      PROVE  (thread'[d] = IdleThread <=> thread[d] = IdleThread) /\ thread'[d].job = thread[d].job
  <2>1. CASE d = e
    BY <1>2, <1>4, <2>1
  <2>2. CASE d # e
    BY <1>4, <2>2
  <2>. QED BY <2>1, <2>2
<1>6. status'[k] \in StatusAt(pc) /\ status'[k] # "none" /\ status'[k] # "queued"
  <2>1. status[k] \in StatusAt(thread[e].pc)
    BY <1>1, <1>2 DEF Line, Told
  <2>2. CASE Start(e)
    <3>1. thread'[e].pc = "waiting"
      BY <1>1, <1>2, <2>2 DEF Start, IInv, Shape, Busy
    <3>. QED BY <1>2, <1>4, <2>2, <3>1 DEF Start, IInv, Shape, StatusAt
  <2>3. CASE Infer(e)
    <3>1. thread'[e].pc = "inferring"
      BY <1>1, <1>2, <2>3 DEF Infer, IInv, Shape, Busy
    <3>. QED BY <1>4, <2>1, <2>3, <3>1 DEF Infer, StatusAt
  <2>4. CASE Return(e)
    <3>1. thread'[e].pc = "returned"
      BY <1>1, <1>2, <2>4 DEF Return, IInv, Shape, Busy
    <3>. QED BY <1>4, <2>1, <2>4, <3>1 DEF Return, StatusAt
  <2>5. CASE Record(e)
    <3>1. thread'[e].pc = "recorded"
      BY <1>1, <1>2, <2>5 DEF Record, IInv, Shape, Busy
    <3>. QED BY <1>2, <1>4, <2>5, <3>1 DEF Record, IInv, Shape, StatusAt
  <2>. QED BY <2>2, <2>3, <2>4, <2>5
<1>7. \A j \in Jobs : j # k => status'[j] = status[j] /\ position'[j] = position[j]
  BY DEF Start, Infer, Return, Record, IInv, Shape
<1>8. status[k] # "none"
  BY <1>1, <1>2 DEF IInv, Submitted
<1>9. Lined(p, s)'
  <2>1. \A j \in Jobs : status'[j] # "none" <=> j <= p + Len(order')
    BY <1>1, <1>6, <1>7, <1>8 DEF Line, Lined
  <2>. QED BY <1>1, <2>1 DEF Line, Lined
<1>10. Held(p, s)'
  <2>1. \A d \in 1..MaxLimit : d > limit' => thread'[d] = IdleThread
    BY <1>1, <1>5 DEF Line, Held
  <2>2. \A d \in 1..MaxLimit : thread'[d] # IdleThread =>
          p < thread'[d].job /\ thread'[d].job <= s
    BY <1>5 DEF Line, Held
  <2>3. \A c, d \in 1..MaxLimit :
          thread'[c] # IdleThread /\ thread'[d] # IdleThread /\ thread'[c].job = thread'[d].job
            => c = d
    BY <1>5 DEF Line, Held
  <2>4. limit' = 1 => s = p + (IF thread'[1] = IdleThread THEN 0 ELSE 1)
    <3>1. 1 \in 1..MaxLimit
      BY LineTypes
    <3>2. thread'[1] = IdleThread <=> thread[1] = IdleThread
      BY <1>5, <3>1
    <3>. QED BY <1>1, <3>2 DEF Line, Held
  <2>. QED BY <2>1, <2>2, <2>3, <2>4 DEF Held
<1>11. Told(p, s)'
  <2>1. \A j \in Jobs : j > s => status'[j] \in {"none", "queued"}
    BY <1>2, <1>7 DEF Line, Told, Jobs
  <2>2. \A d \in 1..MaxLimit :
          thread'[d] # IdleThread => status'[thread'[d].job] \in StatusAt(thread'[d].pc)
    <3>1. SUFFICES ASSUME NEW d \in 1..MaxLimit, thread'[d] # IdleThread
                   PROVE  status'[thread'[d].job] \in StatusAt(thread'[d].pc)
      OBVIOUS
    <3>2. CASE d = e
      BY <1>4, <1>6, <3>2
    <3>3. CASE d # e
      <4>1. thread'[d] = thread[d] /\ thread[d].job # k /\ thread[d].job \in Jobs
        BY <1>1, <1>2, <1>4, <3>1, <3>3, LineTypes DEF Line, Held
      <4>. QED BY <1>7, <3>1, <4>1 DEF Line, Told
    <3>. QED BY <3>2, <3>3
  <2>3. \A j \in Jobs : j <= s =>
          \/ status'[j] \in {"done", "failed"}
          \/ \E d \in 1..MaxLimit : thread'[d] # IdleThread /\ thread'[d].job = j
    <3>1. SUFFICES ASSUME NEW j \in Jobs, j <= s, status'[j] \notin {"done", "failed"}
                   PROVE  \E d \in 1..MaxLimit : thread'[d] # IdleThread /\ thread'[d].job = j
      OBVIOUS
    <3>2. CASE j = k
      BY <1>1, <1>4, <3>2
    <3>3. CASE j # k
      <4>1. PICK d \in 1..MaxLimit : thread[d] # IdleThread /\ thread[d].job = j
        BY <1>7, <3>1, <3>3 DEF Line, Told
      <4>. QED BY <1>5, <4>1
    <3>. QED BY <3>2, <3>3
  <2>4. \A j \in Jobs : status'[j] = "queued" => position'[j] = j - p - 1
    BY <1>6, <1>7 DEF Line, Told
  <2>. QED BY <2>1, <2>2, <2>3, <2>4 DEF Told
<1>. QED BY <1>9, <1>10, <1>11 DEF Line

(* A thread that ends: the order moves on if the job was its head.          *)
LEMMA LeaveLine ==
  ASSUME JobQueueAssumption, IInv, NEW p \in Nat, NEW s \in Nat, Line(p, s),
         NEW e \in Threads, Leave(e)
  PROVE  \E r \in Nat : p <= r /\ Line(r, s)'
<1>. DEFINE k == thread[e].job
<1>1. /\ limit' = limit /\ status' = status /\ work' = work /\ loop' = loop
      /\ Len(order) \in Nat /\ Len(work) \in Nat /\ e \in 1..MaxLimit /\ e <= limit
      /\ limit \in Nat
  BY LineTypes DEF Leave, Threads
<1>2. /\ thread[e] # IdleThread /\ thread[e].pc = "recorded"
      /\ k \in Jobs /\ k <= s /\ p < k /\ status[k] \in {"done", "failed"}
  <2>1. thread[e].pc = "recorded" /\ thread[e] # IdleThread
    BY DEF Leave, IdleThread
  <2>2. k \in Jobs /\ k <= s /\ p < k
    BY <1>1, <2>1, LineTypes DEF Line, Held
  <2>3. status[k] \in StatusAt("recorded")
    BY <1>1, <2>1 DEF Line, Told
  <2>. QED BY <2>1, <2>2, <2>3 DEF StatusAt
<1>3. thread'[e] = IdleThread /\ \A d \in 1..MaxLimit : d # e => thread'[d] = thread[d]
  BY <1>1 DEF Leave, IInv, Shape
<1>4. s <= p + Len(order) /\ 1 <= Len(order) /\ order \in Seq(Jobs) /\ order # <<>>
      /\ Head(order) = p + 1
  <2>1. s + Len(work) + (IF loop.pc = "submitting" THEN 1 ELSE 0) = p + Len(order)
    BY DEF Line, Lined
  <2>2. s <= p + Len(order)
    BY <1>1, <2>1
  <2>3. 1 <= Len(order) /\ order \in Seq(Jobs) /\ order # <<>>
    BY <1>1, <1>2, <2>2 DEF IInv, Shape, Jobs
  <2>4. order[1] = p + 1 /\ Head(order) = order[1]
    BY <1>1, <2>3 DEF Line, Lined
  <2>. QED BY <2>2, <2>3, <2>4
<1>5. PICK r \in Nat : /\ r = IF k = p + 1 THEN p + 1 ELSE p
                       /\ Len(order') \in Nat /\ r + Len(order') = p + Len(order)
                       /\ \A n \in 1..Len(order') : order'[n] = r + n
  <2>1. CASE k = p + 1
    <3>1. order' = Tail(order)
      BY <1>4, <2>1 DEF Leave
    <3>2. Len(order') = Len(order) - 1
      BY <1>4, <3>1, HeadTailProperties
    <3>3. ASSUME NEW n \in 1..Len(order') PROVE order'[n] = p + 1 + n
      <4>1. n + 1 \in 1..Len(order) /\ order'[n] = order[n + 1]
        BY <1>1, <1>4, <3>1, <3>2, <3>3
      <4>. QED BY <4>1 DEF Line, Lined
    <3>4. p + 1 \in Nat /\ Len(order') \in Nat /\ p + 1 + Len(order') = p + Len(order)
      BY <1>1, <1>4, <3>2
    <3>5. WITNESS p + 1 \in Nat
    <3>. QED BY <2>1, <3>3, <3>4
  <2>2. CASE k # p + 1
    <3>1. order' = order
      BY <1>4, <2>2 DEF Leave
    <3>. QED BY <1>1, <2>2, <3>1 DEF Line, Lined
  <2>. QED BY <2>1, <2>2
<1>6. p <= r /\ r <= s /\ r <= k
  BY <1>2, <1>5 DEF Jobs
<1>7. \A d \in 1..MaxLimit : thread'[d] # IdleThread =>
        /\ d # e /\ thread'[d] = thread[d] /\ thread[d].job \in Jobs
        /\ r < thread[d].job /\ thread[d].job <= s
  <2>1. SUFFICES ASSUME NEW d \in 1..MaxLimit, thread'[d] # IdleThread
                 PROVE  /\ d # e /\ thread'[d] = thread[d] /\ thread[d].job \in Jobs
                        /\ r < thread[d].job /\ thread[d].job <= s
    OBVIOUS
  <2>2. d # e /\ thread'[d] = thread[d]
    BY <1>3, <2>1
  <2>3. thread[d].job \in Jobs /\ p < thread[d].job /\ thread[d].job <= s /\ thread[d].job # k
    BY <1>1, <1>2, <2>1, <2>2, LineTypes DEF Line, Held
  <2>. QED BY <1>2, <1>5, <2>2, <2>3 DEF Jobs
<1>8. Lined(r, s)'
  BY <1>1, <1>5, <1>6 DEF Line, Lined
<1>9. Held(r, s)'
  <2>1. \A d \in 1..MaxLimit : d > limit' => thread'[d] = IdleThread
    BY <1>1, <1>3 DEF Line, Held
  <2>2. \A c, d \in 1..MaxLimit :
          thread'[c] # IdleThread /\ thread'[d] # IdleThread /\ thread'[c].job = thread'[d].job
            => c = d
    BY <1>7 DEF Line, Held
  <2>3. limit' = 1 => s = r + (IF thread'[1] = IdleThread THEN 0 ELSE 1)
    <3>1. SUFFICES ASSUME limit = 1 PROVE s = r + (IF thread'[1] = IdleThread THEN 0 ELSE 1)
      BY <1>1
    <3>2. e = 1
      BY <1>1, <3>1
    <3>3. s = p + 1
      BY <1>2, <3>1, <3>2 DEF Line, Held
    <3>4. r = s
      BY <1>2, <1>5, <3>3 DEF Jobs
    <3>. QED BY <1>3, <3>2, <3>4
  <2>. QED BY <1>7, <2>1, <2>2, <2>3 DEF Held
<1>10. \A j \in Jobs : status[j] = "queued" => r < j
  <2>1. SUFFICES ASSUME NEW j \in Jobs, status[j] = "queued" PROVE r < j
    OBVIOUS
  <2>2. CASE j <= s
    <3>1. PICK d \in 1..MaxLimit : thread[d] # IdleThread /\ thread[d].job = j
      BY <2>1, <2>2 DEF Line, Told
    <3>2. d # e
      BY <1>2, <2>1, <3>1
    <3>. QED BY <1>3, <1>7, <3>1, <3>2
  <2>3. CASE ~(j <= s)
    BY <1>6, <2>3 DEF Jobs
  <2>. QED BY <2>2, <2>3
<1>11. \A j \in Jobs : status[j] = "queued" => position'[j] = j - r - 1
  <2>1. SUFFICES ASSUME NEW j \in Jobs, status[j] = "queued" PROVE position'[j] = j - r - 1
    OBVIOUS
  <2>2. j <= p + Len(order) /\ r < j /\ j \in Nat
    BY <1>10, <2>1 DEF Line, Lined, Jobs
  <2>3. j - r \in 1..Len(order') /\ order'[j - r] = j
    <3>1. r + Len(order') = p + Len(order) /\ Len(order) \in Nat /\ Len(order') \in Nat
      BY <1>1, <1>5
    <3>2. PICK n \in 1..Len(order') : n = j - r
      BY <2>2, <3>1
    <3>3. order'[n] = r + n
      BY <1>5
    <3>. QED BY <2>2, <3>2, <3>3
  <2>4. \A n \in 1..Len(order') : order'[n] = j => n = j - r
    BY <1>5, <2>2
  <2>5. Place(order', j) = j - r
    BY <2>3, <2>4 DEF Place
  <2>6. j \in Elements(order')
    BY <2>3 DEF Elements
  <2>. QED BY <2>2, <2>5, <2>6 DEF Leave, Reindex
<1>12. Told(r, s)'
  <2>1. \A d \in 1..MaxLimit :
          thread'[d] # IdleThread => status[thread'[d].job] \in StatusAt(thread'[d].pc)
    BY <1>7 DEF Line, Told
  <2>2. \A j \in Jobs : j <= s =>
          \/ status[j] \in {"done", "failed"}
          \/ \E d \in 1..MaxLimit : thread'[d] # IdleThread /\ thread'[d].job = j
    <3>1. SUFFICES ASSUME NEW j \in Jobs, j <= s, status[j] \notin {"done", "failed"}
                   PROVE  \E d \in 1..MaxLimit : thread'[d] # IdleThread /\ thread'[d].job = j
      OBVIOUS
    <3>2. PICK d \in 1..MaxLimit : thread[d] # IdleThread /\ thread[d].job = j
      BY <3>1 DEF Line, Told
    <3>3. d # e
      BY <1>2, <3>1, <3>2
    <3>. QED BY <1>3, <3>2, <3>3
  <2>. QED BY <1>1, <1>11, <2>1, <2>2 DEF Line, Told
<1>. QED BY <1>6, <1>8, <1>9, <1>12 DEF Line

(* Every step moves the line forward or leaves it where it is.              *)
LEMMA LineMoves ==
  ASSUME JobQueueAssumption, IInv, NEW p \in Nat, NEW s \in Nat, Line(p, s), [Next]_vars
  PROVE  \E r, t \in Nat : p <= r /\ Line(r, t)'
<1>1. ASSUME NEW j \in Jobs, Submit(j) PROVE Line(p, s)'
  BY <1>1, SubmitLine
<1>2. CASE WaitArrives \/ LoopStep
  BY <1>2, LoopLine
<1>3. ASSUME NEW e \in Threads, Take(e) PROVE Line(p, s + 1)'
  BY <1>3, TakeLine
<1>4. ASSUME NEW e \in Threads, Start(e) \/ Infer(e) \/ Return(e) \/ Record(e)
      PROVE  Line(p, s)'
  BY <1>4, ThreadLine
<1>5. ASSUME NEW e \in Threads, Leave(e) PROVE \E r \in Nat : p <= r /\ Line(r, s)'
  BY <1>5, LeaveLine
<1>6. CASE UNCHANGED vars
  <2>1. Line(p, s)'
    BY <1>6 DEF vars, Line, Lined, Held, Told
  <2>. QED BY <2>1
<1>7. p <= p /\ s + 1 \in Nat
  OBVIOUS
<1>8. CASE Line(p, s)'
  BY <1>7, <1>8
<1>9. CASE \E e \in Threads : Take(e)
  BY <1>3, <1>7, <1>9
<1>. QED BY <1>1, <1>2, <1>4, <1>5, <1>6, <1>8, <1>9 DEF Next, ThreadStep

InLine == IInv /\ \E p, s \in Nat : Line(p, s)

LEMMA AlwaysInLine ==
  ASSUME JobQueueAssumption
  PROVE  Spec => []InLine
<1>1. Init => InLine
  BY InitInvariant, InitLine DEF InLine
<1>2. InLine /\ [Next]_vars => InLine'
  BY InvariantStays, LineMoves DEF InLine
<1>. QED BY <1>1, <1>2, PTL DEF Spec

-----------------------------------------------------------------------------
(* What a client is told                                                    *)

(* The jobs before a queued one that have not ended are in the order.       *)
LEMMA AheadInLine ==
  ASSUME JobQueueAssumption, IInv, NEW p \in Nat, NEW s \in Nat, Line(p, s),
         NEW j \in Jobs, status[j] = "queued"
  PROVE  p < j /\ Ahead(j) \subseteq (p + 1)..(j - 1)
<1>1. ASSUME NEW i \in Jobs, status[i] \in {"queued", "running"} PROVE p < i
  <2>1. CASE i <= s
    <3>1. PICK d \in 1..MaxLimit : thread[d] # IdleThread /\ thread[d].job = i
      BY <1>1, <2>1 DEF Line, Told
    <3>. QED BY <3>1 DEF Line, Held
  <2>2. CASE ~(i <= s)
    <3>1. p <= s
      BY DEF Line, Lined
    <3>. QED BY <2>2, <3>1 DEF Jobs
  <2>. QED BY <2>1, <2>2
<1>. QED BY <1>1 DEF Ahead, Jobs

LEMMA PositionsFromLine ==
  ASSUME JobQueueAssumption, IInv, NEW p \in Nat, NEW s \in Nat, Line(p, s)
  PROVE  PositionsAreHonest
<1>1. SUFFICES ASSUME NEW j \in Jobs, status[j] = "queued"
               PROVE  /\ position[j] >= Cardinality(Ahead(j))
                      /\ limit = 1 /\ thread[1].pc # "recorded" =>
                           position[j] = Cardinality(Ahead(j))
  BY DEF PositionsAreHonest
<1>. DEFINE B == (p + 1)..(j - 1)
<1>2. j \in Nat /\ p < j /\ Ahead(j) \subseteq B
  BY <1>1, AheadInLine DEF Jobs
<1>3. position[j] = j - p - 1
  BY <1>1 DEF Line, Told
<1>4. IsFiniteSet(B) /\ Cardinality(B) = j - p - 1
  <2>1. p + 1 \in Int /\ j - 1 \in Int
    BY <1>2
  <2>2. IsFiniteSet(B) /\ Cardinality(B) = IF p + 1 > j - 1 THEN 0 ELSE (j - 1) - (p + 1) + 1
    BY <2>1, FS_Interval
  <2>. QED BY <1>2, <2>2
<1>. HIDE DEF B
<1>5. Ahead(j) \in SUBSET B
  BY <1>2
<1>6. IsFiniteSet(Ahead(j)) /\ Cardinality(Ahead(j)) <= Cardinality(B)
  BY <1>4, <1>5, FS_Subset
<1>7. Cardinality(Ahead(j)) \in Nat
  BY <1>6, FS_CardinalityType
<1>8. position[j] >= Cardinality(Ahead(j))
  BY <1>2, <1>3, <1>4, <1>6, <1>7
<1>9. ASSUME limit = 1, thread[1].pc # "recorded" PROVE Ahead(j) = B
  <2>1. SUFFICES ASSUME NEW i \in B PROVE i \in Ahead(j)
    BY <1>5
  <2>2. i \in Jobs /\ p < i /\ i < j
    BY <1>1, <1>2, <2>1 DEF B, Jobs
  <2>3. status[i] # "none"
    BY <1>1, <2>2 DEF IInv, Listed
  <2>4. CASE i > s
    BY <2>2, <2>3, <2>4 DEF Line, Told, Ahead
  <2>5. CASE ~(i > s)
    <3>1. 1 \in 1..MaxLimit
      BY LineTypes
    <3>2. s = p + (IF thread[1] = IdleThread THEN 0 ELSE 1)
      BY <1>9 DEF Line, Held
    <3>3. thread[1] # IdleThread /\ s = p + 1
      BY <2>2, <2>5, <3>2 DEF Jobs
    <3>4. thread[1] \in Busy /\ thread[1].job \in Jobs
          /\ p < thread[1].job /\ thread[1].job <= s
      BY <3>1, <3>3, LineTypes DEF Line, Held
    <3>5. thread[1].job = i
      BY <2>2, <2>5, <3>3, <3>4 DEF Jobs
    <3>6. status[i] \in StatusAt(thread[1].pc)
      BY <3>1, <3>3, <3>5 DEF Line, Told
    <3>7. thread[1].pc \in {"taken", "waiting", "inferring", "returned"}
      BY <1>9, <3>4 DEF Busy
    <3>8. status[i] \in {"queued", "running"}
      BY <3>6, <3>7 DEF StatusAt
    <3>. QED BY <2>2, <3>8 DEF Ahead
  <2>. QED BY <2>4, <2>5
<1>10. limit = 1 /\ thread[1].pc # "recorded" => position[j] = Cardinality(Ahead(j))
  BY <1>3, <1>4, <1>9
<1>. QED BY <1>8, <1>10

(* Whatever the threads do, the position that GET /jobs/{id} answers for a  *)
(* queued job is at least the number of jobs before it that are not over,   *)
(* and with one thread it is that number, but while a job is removed.       *)
THEOREM PositionsAlwaysHonest ==
  ASSUME JobQueueAssumption
  PROVE  Spec => []PositionsAreHonest
<1>1. InLine => PositionsAreHonest
  BY PositionsFromLine DEF InLine
<1>. QED BY <1>1, AlwaysInLine, PTL

(* With one thread nothing stays in _order once every job has ended.        *)
THEOREM OrderAlwaysDrains ==
  ASSUME JobQueueAssumption
  PROVE  Spec => []OrderDrains
<1>1. ASSUME InLine, limit = 1, work = <<>>, loop = Free, thread[1] = IdleThread
      PROVE  order = <<>>
  <2>1. PICK p \in Nat, s \in Nat : IInv /\ Line(p, s)
    BY <1>1 DEF InLine
  <2>2. s = p
    BY <1>1, <2>1 DEF Line, Held
  <2>3. s + Len(work) + (IF loop.pc = "submitting" THEN 1 ELSE 0) = p + Len(order)
    BY <2>1 DEF Line, Lined
  <2>4. Len(work) = 0 /\ loop.pc # "submitting" /\ Len(order) \in Nat
    BY <1>1, <2>1, LineTypes DEF Free
  <2>5. Len(order) = 0 /\ order \in Seq(Jobs)
    BY <2>1, <2>2, <2>3, <2>4 DEF IInv, Shape
  <2>. QED BY <2>5
<1>2. InLine => OrderDrains
  BY <1>1 DEF OrderDrains
<1>. QED BY <1>2, AlwaysInLine, PTL

(* The position of a job that waits is never raised: not by later           *)
(* submissions, and not by threads that end in another order than they      *)
(* began (_reindex_positions).                                              *)
THEOREM PositionsOnlyShrink ==
  ASSUME JobQueueAssumption
  PROVE  Spec => PositionNeverGrows
<1>. DEFINE A == \A j \in Jobs : status[j] = "queued" => position'[j] <= position[j]
<1>1. ASSUME InLine, [Next]_vars PROVE A
  <2>1. SUFFICES ASSUME NEW j \in Jobs, status[j] = "queued"
                 PROVE  position'[j] <= position[j]
    OBVIOUS
  <2>2. PICK p \in Nat, s \in Nat : IInv /\ Line(p, s)
    BY <1>1 DEF InLine
  <2>3. position[j] = j - p - 1 /\ j \in Nat /\ p < j
    BY <2>1, <2>2, AheadInLine DEF Line, Told, Jobs
  <2>4. PICK r \in Nat, t \in Nat : p <= r /\ Line(r, t)'
    BY <1>1, <2>2, LineMoves
  <2>5. CASE status'[j] = "queued"
    <3>1. position'[j] = j - r - 1
      BY <2>4, <2>5 DEF Line, Told
    <3>. QED BY <2>3, <2>4, <3>1
  <2>6. CASE status'[j] # "queued"
    <3>1. PICK e \in Threads : Start(e) \/ Record(e)
      BY <1>1, <2>1, <2>2, <2>6
         DEF Next, vars, Submit, WaitArrives, LoopStep, Enqueue, WaitRuns, WaitEnds, ThreadStep,
             Take, Infer, Return, Leave, IInv, Shape
    <3>2. position'[j] \in {position[j], 0}
      BY <2>2, <3>1 DEF Start, Record, IInv, Shape
    <3>. QED BY <2>3, <3>2
  <2>. QED BY <2>5, <2>6
<1>2. InLine /\ [Next]_vars => [A]_vars
  BY <1>1
<1>. QED BY <1>2, AlwaysInLine, PTL DEF Spec, PositionNeverGrows

-----------------------------------------------------------------------------
(* The queue serves in order                                                *)

Earlier == [j \in Jobs |-> IF status[j] = "none" THEN {} ELSE 1..(j - 1)]

(* A thread that begins a job is not among those that hold the jobs that    *)
(* run or are overtaken.                                                    *)
LEMMA BeginsInTime ==
  ASSUME JobQueueAssumption, IInv, NEW p \in Nat, NEW s \in Nat, Line(p, s),
         NEW e \in Threads, thread[e].pc = "taken"
  PROVE  Cardinality({i \in Jobs : status[i] = "running"}
            \union {i \in 1..(thread[e].job - 1) : status[i] = "queued"}) < limit
<1>. DEFINE k == thread[e].job
            S == {i \in Jobs : status[i] = "running"} \union {i \in 1..(k - 1) : status[i] = "queued"}
            T == (1..limit) \ {e}
            holder == [i \in S |-> CHOOSE d \in T : thread[d] # IdleThread /\ thread[d].job = i]
<1>1. e \in 1..MaxLimit /\ e \in 1..limit /\ limit \in Nat /\ 1 <= limit /\ limit <= MaxLimit
      /\ thread[e] # IdleThread
  BY LineTypes DEF Threads, IdleThread
<1>2. k \in Jobs /\ k <= s /\ status[k] = "queued"
  <2>1. status[k] \in StatusAt("taken")
    BY <1>1 DEF Line, Told
  <2>. QED BY <1>1, <2>1, LineTypes DEF Line, Held, StatusAt
<1>3. ASSUME NEW i \in S
      PROVE  \E d \in T : thread[d] # IdleThread /\ thread[d].job = i
  <2>1. i \in Jobs /\ i # k /\ status[i] \in {"running", "queued"}
        /\ (status[i] = "queued" => i <= s)
    BY <1>2, <1>3 DEF Jobs
  <2>2. i <= s
    BY <2>1 DEF Line, Told, Jobs
  <2>3. PICK d \in 1..MaxLimit : thread[d] # IdleThread /\ thread[d].job = i
    BY <2>1, <2>2 DEF Line, Told
  <2>4. ~(d > limit) /\ d # e
    BY <2>1, <2>3 DEF Line, Held
  <2>. QED BY <1>1, <2>3, <2>4
<1>4. IsFiniteSet(T) /\ Cardinality(T) = limit - 1
  <2>1. 1 \in Int /\ limit \in Int
    BY <1>1
  <2>2. IsFiniteSet(1..limit) /\ Cardinality(1..limit) = limit
    BY <1>1, <2>1, FS_Interval
  <2>3. Cardinality((1..limit) \ {e}) = Cardinality(1..limit) - 1
    BY <1>1, <2>2, FS_RemoveElement
  <2>4. IsFiniteSet((1..limit) \ {e})
    BY <2>2, FS_RemoveElement
  <2>. QED BY <2>2, <2>3, <2>4
<1>. HIDE DEF S, T
<1>5. \A i \in S : holder[i] \in T /\ thread[holder[i]].job = i
  BY <1>3
<1>. HIDE DEF holder
<1>6. holder \in Injection(S, T)
  <2>1. holder = [i \in S |-> holder[i]]
    BY DEF holder
  <2>2. holder \in [S -> T]
    BY <1>5, <2>1
  <2>3. \A a, b \in S : holder[a] = holder[b] => a = b
    BY <1>5
  <2>. QED BY <2>2, <2>3 DEF Injection, IsInjective
<1>7. IsFiniteSet(S) /\ Cardinality(S) <= limit - 1
  BY <1>4, <1>6, FS_Injection
<1>8. Cardinality(S) \in Nat
  BY <1>7, FS_CardinalityType
<1>9. Cardinality(S) < limit
  BY <1>1, <1>7, <1>8
<1>. QED BY <1>9 DEF S

LEMMA InitServes ==
  ASSUME JobQueueAssumption, Init
  PROVE  Fifo!Init
<1>1. limit \in Nat \ {0}
  BY DEF Init, JobQueueAssumption
<1>2. Earlier = [j \in Jobs |-> {}]
  BY DEF Init, Earlier
<1>. QED BY <1>1, <1>2 DEF Init, Fifo!Init, Earlier

LEMMA SubmitServes ==
  ASSUME JobQueueAssumption, IInv, NEW j \in Jobs, Submit(j)
  PROVE  Fifo!Submit(j)
<1>1. limit' = limit /\ status[j] = "none" /\ status' = [status EXCEPT ![j] = "queued"]
  BY DEF Submit
<1>2. {i \in Jobs : status[i] # "none"} = 1..(j - 1)
  <2>1. ASSUME NEW i \in Jobs, status[i] # "none" PROVE i < j
    BY <1>1, <2>1 DEF IInv, Listed, Jobs
  <2>2. ASSUME NEW i \in 1..(j - 1) PROVE i \in Jobs /\ status[i] # "none"
    BY <2>2 DEF Submit, Jobs, JobQueueAssumption
  <2>. QED BY <2>1, <2>2 DEF Jobs
<1>3. Earlier' = [Earlier EXCEPT ![j] = 1..(j - 1)]
  <2>1. \A i \in Jobs : Earlier'[i] = IF i = j THEN 1..(j - 1) ELSE Earlier[i]
    BY <1>1 DEF Earlier, IInv, Shape
  <2>. QED BY <2>1 DEF Earlier
<1>4. Earlier' = [Earlier EXCEPT ![j] = {i \in Jobs : status[i] # "none"}]
  BY <1>2, <1>3
<1>. QED BY <1>1, <1>4 DEF Fifo!Submit, Earlier

LEMMA EarlierStays ==
  ASSUME \A j \in Jobs : status'[j] = "none" <=> status[j] = "none"
  PROVE  Earlier' = Earlier
  BY DEF Earlier

LEMMA StartServes ==
  ASSUME JobQueueAssumption, IInv, NEW p \in Nat, NEW s \in Nat, Line(p, s),
         NEW e \in Threads, Start(e)
  PROVE  Fifo!Begin(thread[e].job)
<1>. DEFINE k == thread[e].job
<1>1. e \in 1..MaxLimit /\ thread[e] # IdleThread /\ thread[e].pc = "taken"
  BY LineTypes DEF Start, Threads, IdleThread
<1>2. k \in Jobs /\ status[k] = "queued"
  <2>1. status[k] \in StatusAt("taken")
    BY <1>1 DEF Line, Told
  <2>. QED BY <1>1, <2>1, LineTypes DEF StatusAt
<1>3. status' = [status EXCEPT ![k] = "running"] /\ limit' = limit
  BY DEF Start
<1>4. Earlier' = Earlier
  BY <1>2, <1>3, EarlierStays DEF IInv, Shape
<1>5. Cardinality({i \in Jobs : status[i] = "running"}
        \union {i \in 1..(k - 1) : status[i] = "queued"}) < limit
  BY <1>1, BeginsInTime
<1>6. Earlier[k] = 1..(k - 1)
  BY <1>2 DEF Earlier
<1>7. Fifo!Running \union Fifo!Overtaken(k)
        = {i \in Jobs : status[i] = "running"} \union {i \in 1..(k - 1) : status[i] = "queued"}
  BY <1>6 DEF Fifo!Running, Fifo!Overtaken, Earlier
<1>8. Fifo!Cardinality(Fifo!Running \union Fifo!Overtaken(k)) < limit
  <2>1. \A S : Fifo!Cardinality(S) = Cardinality(S)
    BY DEF Fifo!Cardinality, Cardinality
  <2>. QED BY <1>5, <1>7, <2>1
<1>. QED BY <1>2, <1>3, <1>4, <1>8 DEF Fifo!Begin, Earlier

LEMMA RecordServes ==
  ASSUME JobQueueAssumption, IInv, NEW p \in Nat, NEW s \in Nat, Line(p, s),
         NEW e \in Threads, Record(e)
  PROVE  Fifo!End(thread[e].job)
<1>. DEFINE k == thread[e].job
<1>1. e \in 1..MaxLimit /\ thread[e] # IdleThread /\ thread[e].pc = "returned"
  BY LineTypes DEF Record, Threads, IdleThread
<1>2. k \in Jobs /\ status[k] = "running"
  <2>1. status[k] \in StatusAt("returned")
    BY <1>1 DEF Line, Told
  <2>. QED BY <1>1, <2>1, LineTypes DEF StatusAt
<1>3. limit' = limit /\ \E outcome \in {"done", "failed"} : status' = [status EXCEPT ![k] = outcome]
  BY DEF Record
<1>4. Earlier' = Earlier
  BY <1>2, <1>3, EarlierStays DEF IInv, Shape
<1>. QED BY <1>2, <1>3, <1>4 DEF Fifo!End, Earlier

(* Every step of the service is a step that FifoJobs allows, or none.       *)
LEMMA StepServes ==
  ASSUME JobQueueAssumption, InLine, [Next]_vars
  PROVE  [Fifo!Next]_(Fifo!vars)
<1>1. PICK p \in Nat, s \in Nat : IInv /\ Line(p, s)
  BY DEF InLine
<1>2. ASSUME NEW j \in Jobs, Submit(j) PROVE Fifo!Next
  BY <1>1, <1>2, SubmitServes DEF Fifo!Next
<1>3. ASSUME NEW e \in Threads, Start(e) \/ Record(e) PROVE Fifo!Next
  <2>1. thread[e].job \in Jobs
    BY <1>1, <1>3, LineTypes DEF Start, Record, Threads, IdleThread
  <2>. QED BY <1>1, <1>3, <2>1, StartServes, RecordServes DEF Fifo!Next
<1>4. CASE limit' = limit /\ status' = status
  BY <1>4, EarlierStays DEF Fifo!vars, Earlier
<1>5. CASE WaitArrives \/ LoopStep \/ UNCHANGED vars
  BY <1>4, <1>5 DEF WaitArrives, LoopStep, Enqueue, WaitRuns, WaitEnds, vars
<1>6. ASSUME NEW e \in Threads, Take(e) \/ Infer(e) \/ Return(e) \/ Leave(e)
      PROVE  limit' = limit /\ status' = status
  BY <1>6 DEF Take, Infer, Return, Leave
<1>. QED BY <1>2, <1>3, <1>4, <1>5, <1>6 DEF Next, ThreadStep

(* The service of jobs.py keeps the promise of FifoJobs: a job begins after *)
(* those that were submitted before it, but for fewer than                  *)
(* max_concurrent_inferences that run or are about to, and ends once.       *)
THEOREM AlwaysServesInOrder ==
  ASSUME JobQueueAssumption
  PROVE  Spec => ServesInOrder
<1>1. Init => Fifo!Init
  BY InitServes
<1>2. InLine /\ [Next]_vars => [Fifo!Next]_(Fifo!vars)
  BY StepServes
<1>. QED BY <1>1, <1>2, AlwaysInLine, PTL DEF Spec, ServesInOrder, Fifo!Spec

-----------------------------------------------------------------------------
(* The sum with the status of the models and with the windows               *)

(* Who wrote the key is a process of the pool; KeyIsTrue is then inductive. *)
KeyInv == child \in [Children -> [pc : {"off", "loading", "up"}, models : SUBSET Codes]]
          /\ author \subseteq Children /\ H!KeyIsTrue

(* _publish, after which the process is what it has published.              *)
LEMMA PublishTrue ==
  ASSUME KeyInv, NEW c \in Children, NEW payload, H!Publish(c, payload), payload # H!Nothing,
         \A d \in Children : d # c => child'[d] = child[d],
         payload = IF child'[c].pc = "loading" THEN H!Loading ELSE H!Health(child'[c].models)
  PROVE  author' \subseteq Children /\ H!KeyIsTrue'
<1>1. CASE key' = payload /\ author' = {c} /\ astray' = astray \ {c}
  BY <1>1 DEF H!KeyIsTrue
<1>2. CASE astray' = astray \union {c} /\ UNCHANGED <<key, author>>
  BY <1>2 DEF KeyInv, H!KeyIsTrue
<1>. QED
  BY <1>1, <1>2 DEF H!Publish

LEMMA ChildTrue ==
  ASSUME KeyInv, NEW c \in Children, H!Boot(c) \/ H!Report(c) \/ H!Die(c)
  PROVE  KeyInv'
<1>1. CASE H!Boot(c)
  <2>1. child' \in [Children -> [pc : {"off", "loading", "up"}, models : SUBSET Codes]]
        /\ child'[c].pc = "loading" /\ \A d \in Children : d # c => child'[d] = child[d]
    BY <1>1 DEF H!Boot, KeyInv
  <2>2. H!Loading # H!Nothing
    BY DEF H!Loading, H!Nothing
  <2>. QED BY <1>1, <2>1, <2>2, PublishTrue DEF H!Boot, KeyInv
<1>2. CASE H!Report(c)
  <2>1. PICK set \in SUBSET Codes :
          /\ child' = [child EXCEPT ![c] = [pc |-> "up", models |-> set]]
          /\ H!Publish(c, H!Health(set))
    BY <1>2 DEF H!Report
  <2>2. child' \in [Children -> [pc : {"off", "loading", "up"}, models : SUBSET Codes]]
        /\ child'[c].pc = "up" /\ child'[c].models = set
        /\ \A d \in Children : d # c => child'[d] = child[d]
    BY <2>1 DEF KeyInv
  <2>3. H!Health(set) # H!Nothing
    BY DEF H!Health, H!Nothing
  <2>. QED BY <2>1, <2>2, <2>3, PublishTrue DEF KeyInv
<1>3. CASE H!Die(c)
  BY <1>3 DEF H!Die, KeyInv, H!KeyIsTrue, H!Off
<1>. QED
  BY <1>1, <1>2, <1>3

(* A worker that goes down clears the key, or leaves it to nobody.          *)
LEMMA DownTrue ==
  ASSUME KeyInv, H!Stop \/ H!Kill
  PROVE  KeyInv'
<1>1. child' = [c \in Children |-> H!Off]
  BY DEF H!Stop, H!Kill, H!Down
<1>2. child' \in [Children -> [pc : {"off", "loading", "up"}, models : SUBSET Codes]]
      /\ \A c \in Children : child'[c] = H!Off
  BY <1>1 DEF H!Off
<1>3. author' = {} \/ (author' = author /\ astray' = Children)
  BY DEF H!Stop, H!Kill
<1>. QED
  BY <1>2, <1>3 DEF KeyInv, H!KeyIsTrue

(* What the API and the client do has no effect on the key.                 *)
LEMMA OthersTrue ==
  ASSUME KeyInv, UNCHANGED <<child, key, author, astray>>
  PROVE  KeyInv'
BY DEF KeyInv, H!KeyIsTrue

(* The key in Redis says what the process that wrote it has come to, unless *)
(* that process was killed or could not publish (_publish, _load_weights):  *)
(* KeyIsTrue, in every behaviour of the sum.                                *)
THEOREM KeyIsAlwaysTrue == SpecMC => []KeyIsTrue
<1>1. InitMC => KeyInv
  BY DEF InitMC, H!Init, KeyInv, H!KeyIsTrue, H!Off
<1>2. ASSUME KeyInv, [NextMC]_<<part, vars, models, snapshot>> PROVE KeyInv'
  <2>1. CASE UNCHANGED models
    BY <1>2, <2>1, OthersTrue DEF models
  <2>2. CASE H!StartWorker \/ H!Tick \/ H!Poll \/ H!Event
    BY <1>2, <2>2, OthersTrue DEF H!StartWorker, H!Tick, H!Poll, H!Event, H!service
  <2>3. ASSUME NEW a \in {"timer", "event"}, H!Asking(a) \/ H!Lose(a) PROVE KeyInv'
    BY <1>2, <2>3, OthersTrue DEF H!Asking, H!ReadKey, H!Ping, H!Paint, H!Lose, H!service
  <2>4. UNCHANGED models \/ H!Next
    BY <1>2 DEF NextMC
  <2>. QED
    BY <1>2, <2>1, <2>2, <2>3, <2>4, ChildTrue, DownTrue DEF H!Next
<1>3. KeyInv => KeyIsTrue
  BY DEF KeyInv, KeyIsTrue
<1>. QED
  BY <1>1, <1>2, <1>3, PTL DEF SpecMC

(* The lemma of this section only matches names: tlapm knows the operators  *)
(* of an instance of the proofs apart from those of the instance in         *)
(* MCJobQueue, though they are the same.                                    *)
IP == INSTANCE Inference_proofs WITH
       work <- worked,
       Tile <- [yolo_seg_26 |-> 10, segformer |-> 8],
       Stride <- [yolo_seg_26 |-> 8, segformer |-> 6],
       Target <- [yolo_seg_26 |-> 10000, segformer |-> 10000],
       MaxWindows <- [yolo_seg_26 |-> 6, segformer |-> 9]

(* The part with the windows takes steps of Inference.                      *)
LEMMA SameWindows ==
  /\ IP!InferenceAssumption <=> I!InferenceAssumption
  /\ IP!Init <=> I!Init
  /\ [I!Next]_I!vars => [IP!Next]_IP!vars
  /\ IP!WindowsCover <=> I!WindowsCover
<1>0. \A S : IP!Cardinality(S) = I!Cardinality(S)
  BY DEF IP!Cardinality, I!Cardinality
<1>1. IP!Images = I!Images /\ IP!Models = I!Models
  BY DEF IP!Images, I!Images, IP!Models, I!Models, IP!Unknown, I!Unknown
<1>2. IP!InferenceAssumption <=> I!InferenceAssumption
  BY <1>1 DEF IP!InferenceAssumption, I!InferenceAssumption
<1>3. \A a, b : IP!Most(a, b) = I!Most(a, b)
  BY DEF IP!Most, I!Most
<1>4. \A img : IP!WorkingSize(img, IP!MPerPx(img)) = I!WorkingSize(img, I!MPerPx(img))
  BY DEF IP!WorkingSize, I!WorkingSize, IP!MPerPx, I!MPerPx, IP!Unknown, I!Unknown
<1>5. \A h, w, t, d : IP!TileWindows(h, w, t, d) = I!TileWindows(h, w, t, d)
  BY DEF IP!TileWindows, I!TileWindows, IP!Window, I!Window, IP!Starts, I!Starts, IP!Least, I!Least
<1>6. IP!Init <=> I!Init
  BY <1>1 DEF IP!Init, I!Init
<1>7. \A sz : IP!Limited(sz) = I!Limited(sz)
  BY <1>3 DEF IP!Limited, I!Limited
<1>8. \A sz, m : IP!WindowsOf(sz, m) = I!WindowsOf(sz, m)
  BY DEF IP!WindowsOf, I!WindowsOf, IP!Count, I!Count
<1>9. \A h, w, t, s : IP!Window(h, w, t, s) = I!Window(h, w, t, s)
  BY DEF IP!Window, I!Window, IP!Least, I!Least
<1>10. I!BeginYolo => IP!BeginYolo
  <2>1. \A sz, S, n : I!Begin(sz, S, n) <=> IP!Begin(sz, S, n)
    BY DEF IP!Begin, I!Begin
  <2>. QED BY <1>0, <1>3, <1>4, <1>5, <1>9, <2>1 DEF IP!BeginYolo, I!BeginYolo
<1>11. I!BeginSegformer => IP!BeginSegformer
  BY <1>3, <1>4, <1>5, <1>7, <1>8 DEF IP!BeginSegformer, I!BeginSegformer, IP!Begin, I!Begin
<1>12. IP!Slides <=> I!Slides
  BY <1>3 DEF IP!Slides, I!Slides
<1>13. I!RunWindows => IP!RunWindows
  <2>1. \A n : IP!Upcoming(n) = I!Upcoming(n)
    <3>1. \A v, w : IP!Before(v, w) <=> I!Before(v, w)
      BY DEF IP!Before, I!Before
    <3>2. \A w : {v \in left : IP!Before(v, w)} = {v \in left : I!Before(v, w)}
      BY <3>1
    <3>. QED BY <1>0, <3>2 DEF IP!Upcoming, I!Upcoming
  <2>2. ASSUME NEW all PROVE I!Reports(all) => IP!Reports(all)
    <3>1. IP!Most(1, IP!Cardinality(all)) = I!Most(1, I!Cardinality(all))
      BY <1>0, <1>3
    <3>2. IP!Cardinality(run') = I!Cardinality(run') /\ IP!Cardinality(all) = I!Cardinality(all)
      BY <1>0
    <3>. QED BY <3>1, <3>2 DEF IP!Reports, I!Reports
  <2>. QED BY <1>12, <2>1, <2>2 DEF IP!RunWindows, I!RunWindows
<1>14. (I!Finish => IP!Finish) /\ (I!Fail => IP!Fail)
  BY DEF IP!Finish, I!Finish, IP!Fail, I!Fail
<1>15. IP!WindowsCover <=> I!WindowsCover
  <2>1. \A S, h, w : IP!Covers(S, h, w) <=> I!Covers(S, h, w)
    BY DEF IP!Covers, I!Covers, IP!Contains, I!Contains
  <2>2. IP!Covered <=> I!Covered
    BY <2>1 DEF IP!Covered, I!Covered
  <2>3. IP!ToldTrue <=> I!ToldTrue
    BY <1>0, <1>4 DEF IP!ToldTrue, I!ToldTrue
  <2>4. IP!ToldEnough <=> I!ToldEnough
    BY <1>0 DEF IP!ToldEnough, I!ToldEnough
  <2>5. IP!BarTells <=> I!BarTells
    BY <1>0, <1>12 DEF IP!BarTells, I!BarTells, IP!Cut, I!Cut
  <2>. QED BY <2>2, <2>3, <2>4, <2>5 DEF IP!WindowsCover, I!WindowsCover
<1>. QED
  BY <1>2, <1>6, <1>10, <1>11, <1>13, <1>14, <1>15 DEF IP!Next, I!Next, IP!vars, I!vars

(* The windows of a snapshot cover it and the bar of the task tells how far *)
(* they are: WindowsCover of the runs, in every behaviour of the sum.       *)
THEOREM WindowsAlwaysCover == SpecMC => []WindowsCover
<1>1. InitMC => I!Init
  BY DEF InitMC
<1>2. [NextMC]_<<part, vars, models, snapshot>> => [I!Next]_I!vars
  BY DEF NextMC, models, snapshot, I!vars
<1>3. IP!Init /\ [][IP!Next]_IP!vars => []IP!WindowsCover
  BY IP!SnapshotsAreCovered, MCJobQueueAssumption, SameWindows DEF IP!Spec
<1>4. I!WindowsCover => WindowsCover
  BY DEF WindowsCover
<1>. QED BY <1>1, <1>2, <1>3, <1>4, SameWindows, PTL DEF SpecMC

=============================================================================
