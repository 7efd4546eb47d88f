------------------------------ MODULE FifoJobs ------------------------------
(***************************************************************************)
(* What the queue of the segmentation service promises: jobs begin in the  *)
(* order of their submission, at most capacity of them run at once, and    *)
(* each ends once.  With several threads a job may overtake earlier ones,  *)
(* but those it overtakes and those that run are fewer than capacity.      *)
(***************************************************************************)
EXTENDS Naturals, FiniteSets

CONSTANT Jobs

VARIABLES
  capacity,  \* how many jobs may run at once
  earlier,   \* for each job, the jobs that were submitted before it
  state      \* the state of each job

vars == <<capacity, earlier, state>>

Init ==
  /\ capacity \in Nat \ {0}
  /\ earlier = [j \in Jobs |-> {}]
  /\ state = [j \in Jobs |-> "none"]

Submit(j) ==
  /\ state[j] = "none"
  /\ state' = [state EXCEPT ![j] = "queued"]
  /\ earlier' = [earlier EXCEPT ![j] = {i \in Jobs : state[i] # "none"}]
  /\ UNCHANGED capacity

Running == {i \in Jobs : state[i] = "running"}

Overtaken(j) == {i \in earlier[j] : state[i] = "queued"}

Begin(j) ==
  /\ state[j] = "queued"
  /\ Cardinality(Running \union Overtaken(j)) < capacity
  /\ state' = [state EXCEPT ![j] = "running"]
  /\ UNCHANGED <<capacity, earlier>>

End(j) ==
  /\ state[j] = "running"
  /\ \E outcome \in {"done", "failed"} : state' = [state EXCEPT ![j] = outcome]
  /\ UNCHANGED <<capacity, earlier>>

Next == \E j \in Jobs : Submit(j) \/ Begin(j) \/ End(j)

Spec == Init /\ [][Next]_vars
=============================================================================
