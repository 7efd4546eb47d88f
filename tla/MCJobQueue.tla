----------------------------- MODULE MCJobQueue -----------------------------
(* Three parts of the system around the models, one in a behaviour: the    *)
(* queue of the segmentation service, the status of the models, and a      *)
(* snapshot that is cut into windows.  FifoJobs starts with any capacity   *)
(* in Nat: JobQueue gives it one, so nothing is enumerated.                *)
EXTENDS JobQueue

CONSTANTS Children, Codes, MaxTurns, Sides, Grounds, Batch, MaxSide

VARIABLES part,
  worker, child, key, author, astray, online, polling, asks, pill, turns,
  image, phase, worked, left, run, planned, progress, done, total

models == <<worker, child, key, author, astray, online, polling, asks, pill, turns>>
snapshot == <<image, phase, worked, left, run, planned, progress, done, total>>

H == INSTANCE ModelStatus

I == INSTANCE Inference WITH
       work <- worked,
       Tile <- [yolo_seg_26 |-> 10, segformer |-> 8],
       Stride <- [yolo_seg_26 |-> 8, segformer |-> 6],
       Target <- [yolo_seg_26 |-> 10000, segformer |-> 10000],
       MaxWindows <- [yolo_seg_26 |-> 6, segformer |-> 9]

ASSUME MCJobQueueAssumption == I!InferenceAssumption

(* Of choose_working_scale, for every image of the run.                    *)
ASSUME ScaleKeepsBudget == I!ScaleKeepsBudget

Plain == CHOOSE img \in [height : Sides, width : Sides, ground : {0}, model : {"segformer"}] : TRUE

InitMC ==
  /\ part \in {"queue", "status", "windows"}
  /\ Init /\ H!Init /\ I!Init
  /\ part # "queue" => limit = 1
  /\ part # "windows" => image = Plain

NextMC ==
  /\ UNCHANGED part
  /\ \/ part = "queue" /\ Next /\ UNCHANGED <<models, snapshot>>
     \/ part = "status" /\ H!Next /\ UNCHANGED <<vars, snapshot>>
     \/ part = "windows" /\ I!Next /\ UNCHANGED <<vars, models>>

(* What is fair in one part cannot happen in the others.                   *)
SpecMC == InitMC /\ [][NextMC]_<<part, vars, models, snapshot>> /\ Fairness /\ H!Fairness

KeyIsTrue == H!KeyIsTrue
HealthIsTold == H!HealthIsTold
WindowsCover == I!WindowsCover

=============================================================================
