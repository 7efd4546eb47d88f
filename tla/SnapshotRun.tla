---------------------------- MODULE SnapshotRun ----------------------------
(***************************************************************************)
(* A snapshot from the browser to the map: tasks/runner.js sends it, polls *)
(* its task, asks for the result to be published and loads the map again;  *)
(* publish_to_layers of tasks_service turns the result into objects of the *)
(* user's layers, in a transaction beside those of other requests.         *)
(*                                                                         *)
(* What happens to a task is abstracted to its outcome (TaskPipeline has   *)
(* the detail), a result to the sequence of the classes that were found.   *)
(* There is one layer for each class (kind "auto").  Objects are not       *)
(* deleted or moved here (MapEdits).                                       *)
(***************************************************************************)
EXTENDS Integers, Sequences, FiniteSets, SequencesExt, FiniteSetsExt

CONSTANTS
  Classes,   \* the classes that have a layer
  Results,   \* the results a task may have
  Picks,     \* the sets of categories that may be switched on
  MaxRuns,   \* a bound on the runs the user starts
  MaxDrawn,  \* a bound on the objects that are drawn
  MaxClicks  \* a bound on the choices of a file

ASSUME SnapshotRunAssumption ==
  Results \subseteq Seq(Classes) /\ Picks \subseteq SUBSET Classes /\ {MaxRuns, MaxDrawn, MaxClicks} \subseteq Nat

Drawer == 0          \* the request that adds a drawn object
NoTask == 0
None == "none"

VARIABLES
  runs,        \* the calls of startUploadProcessing and runSegmentation
  file,        \* uploadFile: whether one is chosen
  disabled,    \* the button that processes it
  segRunning,
  tasks,       \* the rows: their status and result
  objects,     \* the rows of layer_objects: layer, number, task they are from
  tx,          \* the transactions that add objects
  drawn, clicks,
  overlapped   \* history: two of them added to one layer at once

vars == <<runs, file, disabled, segRunning, tasks, objects, tx, drawn, clicks, overlapped>>

client == <<file, disabled, segRunning, clicks>>
layers == <<objects, tx, drawn, overlapped>>

-----------------------------------------------------------------------------
Run(kind, stage) ==
  [kind |-> kind, stage |-> stage, task |-> NoTask, classes |-> {}, count |-> 0, told |-> None]

Active(kind) == {r \in DOMAIN runs : runs[r].kind = kind /\ runs[r].stage # "end"}

At(r, stage) == runs[r].stage = stage

Goes(r, stage) == runs' = [runs EXCEPT ![r].stage = stage]

(* Mutant: no finally.                                                     *)
NotReleased(kind) ==
  IF kind = "segment" THEN segRunning' = FALSE /\ UNCHANGED disabled
  ELSE UNCHANGED <<disabled, segRunning>>

(* The finally blocks of startUploadProcessing and runSegmentation.        *)
Released(kind) ==
  IF kind = "segment" THEN segRunning' = FALSE /\ UNCHANGED disabled
  ELSE disabled' = ~file /\ UNCHANGED segRunning

(* A run that fails is told so in the stage that it was in.                *)
End(r, told) ==
  /\ runs' = [runs EXCEPT ![r].stage = "end", ![r].told = told]
  /\ Released(runs[r].kind)
  /\ UNCHANGED <<file, clicks>>

-----------------------------------------------------------------------------
(* The browser                                                             *)

Click == clicks < MaxClicks /\ clicks' = clicks + 1

(* The chooser of files, which stays usable while a snapshot is processed. *)
HandleUploadFile(f) ==
  /\ Click /\ file' = f /\ disabled' = ~f
  /\ UNCHANGED <<runs, segRunning, tasks, layers>>

StartUploadProcessing ==
  /\ ~disabled /\ Len(runs) < MaxRuns
  /\ file /\ disabled' = TRUE
  /\ runs' = Append(runs, Run("upload", "create"))
  /\ UNCHANGED <<file, segRunning, clicks, tasks, layers>>

RunSegmentation ==
  /\ ~segRunning /\ Len(runs) < MaxRuns
  /\ segRunning' = TRUE
  /\ runs' = Append(runs, Run("segment", "health"))
  /\ UNCHANGED <<file, disabled, clicks, tasks, layers>>

(* Of every stage: no connection, an error of the server, a lost answer.   *)
(* In "health" also a model that is not loaded, in "poll" the ten minutes; *)
(* in "publish" the transaction may go on unless the request was lost.     *)
GiveUp(r) ==
  /\ ~At(r, "end") /\ End(r, runs[r].stage)
  /\ UNCHANGED <<tasks, layers>>

Ready(r) ==
  /\ At(r, "health") /\ Goes(r, "create")
  /\ UNCHANGED <<client, tasks, layers>>

(* POST /tasks/: the answer, which may be lost, comes with the new task.   *)
Create(r) ==
  /\ At(r, "create") /\ Len(tasks) < MaxRuns
  /\ \E s \in {"PENDING", "FAILED"} : tasks' = Append(tasks, [status |-> s, result |-> <<>>])
  /\ \/ runs' = [runs EXCEPT ![r].stage = "poll", ![r].task = Len(tasks')] /\ UNCHANGED client
     \/ End(r, runs[r].stage)
  /\ UNCHANGED layers

(* selectedClassIds: the categories switched on when the task has ended.   *)
Poll(r) ==
  /\ At(r, "poll")
  /\ CASE tasks[runs[r].task].status = "COMPLETED" ->
            /\ \E S \in Picks :
                 runs' = [runs EXCEPT ![r].stage = "publish", ![r].classes = S]
            /\ UNCHANGED client
       [] tasks[runs[r].task].status \in {"FAILED", "gone"} -> End(r, runs[r].stage)
       [] OTHER -> FALSE
  /\ UNCHANGED <<tasks, layers>>

Published(r) ==
  /\ At(r, "answer") /\ Goes(r, "reload")
  /\ UNCHANGED <<client, tasks, layers>>

(* loadMapData                                                             *)
Reload(r) ==
  /\ At(r, "reload") /\ End(r, "done")
  /\ UNCHANGED <<tasks, layers>>

-----------------------------------------------------------------------------
(* The server                                                              *)

(* The worker, and the limit on the results that are kept.                 *)
Work(t) ==
  /\ \/ tasks[t].status = "PENDING" /\ \E f \in Results :
          tasks' = [tasks EXCEPT ![t] = [status |-> "COMPLETED", result |-> f]]
     \/ tasks[t].status = "PENDING" /\ tasks' = [tasks EXCEPT ![t].status = "FAILED"]
     \/ tasks[t].status = "COMPLETED" /\ tasks' = [tasks EXCEPT ![t].status = "gone"]
  /\ UNCHANGED <<runs, client, layers>>

(* Mutant: every class is published.                                       *)
AllowedAll(r) == Classes

(* class_ids is null when no class is chosen, which means all of them.     *)
Allowed(r) == IF runs[r].classes = {} THEN Classes ELSE runs[r].classes

(* The places of the detections to be published, in the result.            *)
Wanted(r) ==
  LET result == tasks[runs[r].task].result IN {i \in DOMAIN result : result[i] \in Allowed(r)}

Open(a) == tx[a].open

(* classes: of what is added; todo: the places of what is not added yet.   *)
Closed == [open |-> FALSE, classes |-> <<>>, todo |-> {}, adds |-> <<>>]

Begins(a, classes, places) ==
  tx' = [tx EXCEPT ![a] = [open |-> TRUE, classes |-> classes, todo |-> places, adds |-> <<>>]]

(* Mutant: the session does not flush before it reads.                     *)
CommittedMax(a, c) == Max({0} \union {o.number : o \in {p \in ToSet(objects) : p.layer = c}})

(* coalesce(max(number), 0): committed rows and the transaction's own.     *)
MaxNumber(a, c) ==
  Max({0} \union {o.number : o \in {p \in ToSet(objects) \union ToSet(tx[a].adds) : p.layer = c}})

PublishToLayers(r) ==
  /\ At(r, "publish") /\ ~Open(r)
  /\ IF tasks[runs[r].task].status = "COMPLETED"
     THEN Begins(r, tasks[runs[r].task].result, Wanted(r)) /\ UNCHANGED <<runs, client>>
     ELSE End(r, runs[r].stage) /\ UNCHANGED tx
  /\ UNCHANGED <<tasks, objects, drawn, overlapped>>

(* POST /layers/{id}/objects, of the drawing tools.                        *)
AddObject(c) ==
  /\ ~Open(Drawer) /\ drawn < MaxDrawn /\ drawn' = drawn + 1
  /\ Begins(Drawer, <<c>>, {1})
  /\ UNCHANGED <<runs, client, tasks, objects, overlapped>>

TaskOf(a) == IF a = Drawer THEN NoTask ELSE runs[a].task

(* The loops over the detections, in their order.                          *)
AddNext(a, i) ==
  LET c == tx[a].classes[i]
      o == [layer |-> c, number |-> MaxNumber(a, c) + 1, task |-> TaskOf(a)]
  IN  /\ \A j \in tx[a].todo : i <= j
      /\ tx' = [tx EXCEPT ![a].todo = @ \ {i}, ![a].adds = Append(@, o)]
      /\ overlapped' = (overlapped \/ \E b \in DOMAIN tx \ {a} : \E p \in ToSet(tx[b].adds) : p.layer = c)
      /\ UNCHANGED <<runs, client, tasks, objects, drawn>>

Commit(a) ==
  /\ Open(a) /\ tx[a].todo = {}
  /\ objects' = objects \o tx[a].adds
  /\ tx' = [tx EXCEPT ![a] = Closed]
  /\ runs' = IF a # Drawer /\ At(a, "publish")
             THEN [runs EXCEPT ![a].stage = "answer", ![a].count = Len(tx[a].adds)] ELSE runs
  /\ UNCHANGED <<client, tasks, drawn, overlapped>>

Rollback(a) ==
  /\ Open(a) /\ tx' = [tx EXCEPT ![a] = Closed]
  /\ IF a # Drawer /\ At(a, "publish") THEN End(a, runs[a].stage) ELSE UNCHANGED <<runs, client>>
  /\ UNCHANGED <<tasks, objects, drawn, overlapped>>

-----------------------------------------------------------------------------
Init ==
  /\ runs = <<>> /\ file = FALSE /\ disabled = TRUE /\ segRunning = FALSE
  /\ tasks = <<>> /\ objects = <<>> /\ tx = [a \in 0..MaxRuns |-> Closed]
  /\ drawn = 0 /\ clicks = 0 /\ overlapped = FALSE

Next ==
  \/ \E f \in BOOLEAN : HandleUploadFile(f)
  \/ StartUploadProcessing \/ RunSegmentation
  \/ \E r \in DOMAIN runs :
       \/ GiveUp(r) \/ Ready(r) \/ Create(r) \/ Poll(r) \/ Published(r) \/ Reload(r)
       \/ PublishToLayers(r)
  \/ \E t \in DOMAIN tasks : Work(t)
  \/ \E c \in Classes : AddObject(c)
  \/ \E a \in DOMAIN tx : (\E i \in tx[a].todo : AddNext(a, i)) \/ Commit(a) \/ Rollback(a)

Spec == Init /\ [][Next]_vars

-----------------------------------------------------------------------------
(* Properties                                                              *)

ResultOf(r) == {i \in DOMAIN objects : runs[r].task # NoTask /\ objects[i].task = runs[r].task}

(* A result is published as a whole or not at all, once, in the classes    *)
(* that were chosen (when none was: all of them); who is told that it is   *)
(* has that many new objects on the layers; and who is told that the task  *)
(* failed or took too long does not find objects of it there later.        *)
ResultsAreTold ==
  \A r \in DOMAIN runs :
    LET on == ResultOf(r)
        wanted == {i \in DOMAIN tasks[runs[r].task].result :
                     runs[r].classes = {} \/ tasks[runs[r].task].result[i] \in runs[r].classes}
    IN  /\ on # {} => /\ Cardinality(on) = Cardinality(wanted)
                      /\ runs[r].told \in {None, "done", "publish", "answer", "reload"}
        /\ runs[r].told = "done" => Cardinality(on) = runs[r].count /\ runs[r].count = Cardinality(wanted)

(* The objects of a layer have different numbers, unless two transactions  *)
(* were adding to it at once; those of one result always do.               *)
NumbersDiffer ==
  \A i, j \in DOMAIN objects :
    i # j /\ objects[i].layer = objects[j].layer /\ objects[i].number = objects[j].number =>
      overlapped /\ objects[i].task # objects[j].task

(* One segmentation at a time; and when nothing is under way any more the  *)
(* buttons are free again, whatever has failed.                            *)
ControlsComeBack ==
  /\ segRunning = (Active("segment") # {}) /\ Cardinality(Active("segment")) <= 1
  /\ Active("upload") = {} => disabled = ~file

SnapshotsAgree == ResultsAreTold /\ NumbersDiffer /\ ControlsComeBack

=============================================================================
