----------------------------- MODULE Inference -----------------------------
(***************************************************************************)
(* A snapshot in the hands of a model: the ground size of its pixels, as   *)
(* create_task and run_inference pass it on, the scale it is worked at and *)
(* the windows it is cut into (ml_service/runtime.py, pipeline.py and      *)
(* inference.py of segmentation_service), and the progress the task shows. *)
(*                                                                         *)
(* Ground sizes are in 0.01 mm; 0 is a snapshot without a transform.       *)
(***************************************************************************)
EXTENDS Tiling

CONSTANTS
  Sides,       \* lengths of the sides of a snapshot
  Grounds,     \* known ground sizes of a pixel
  Tile,        \* for each model: the side of a window,
  Stride,      \* the step from one to the next,
  Target,      \* the ground size it is trained at,
  MaxWindows,  \* and the windows it may run
  Batch,       \* YOLO_SLICE_BATCH
  MaxSide      \* max_side_px of the segmentation service

Models == {"yolo_seg_26", "segformer"}

(* Windows overlap or touch.                                               *)
InferenceAssumption ==
  /\ Sides \subseteq Nat \ {0} /\ Grounds \subseteq Nat \ {0}
  /\ \A m \in Models :
       /\ Tile[m] \in Nat \ {0} /\ Stride[m] \in 1..Tile[m]
       /\ Target[m] \in Nat \ {0} /\ MaxWindows[m] \in Nat
  /\ Batch \in Nat \ {0} /\ MaxSide \in Nat \ {0}

VARIABLES
  image,     \* the snapshot and the model it is given to
  phase,
  work,      \* the size the model works at
  left, run, \* the windows that are still to be run and those that have been
  planned,   \* info["windows"]
  progress, done, total   \* of the task: progress, info["windows_done"], ["windows_total"]

vars == <<image, phase, work, left, run, planned, progress, done, total>>

Unknown == 0

Images == [height : Sides, width : Sides, ground : Grounds \union {Unknown}, model : Models]

Init ==
  /\ image \in Images
  /\ phase = "read" /\ work = <<image.height, image.width>>
  /\ left = {} /\ run = {} /\ planned = 0
  /\ progress = 30 /\ done = 0 /\ total = 0

-----------------------------------------------------------------------------
(* create_task sets pixel_space for every snapshot with a transform, and   *)
(* run_inference computes the ground size of a pixel only without it.      *)
MPerPx(img) ==
  LET pixelSpace == img.ground # Unknown
  IN IF pixelSpace THEN Unknown ELSE img.ground

Most(a, b) == IF a > b THEN a ELSE b

Rounded(a, b) == Most(1, (2 * a + b) \div (2 * b))

WindowsOf(size, model) ==
  Count(size[1], Tile[model], Stride[model]) * Count(size[2], Tile[model], Stride[model])

Fits(size, model) == WindowsOf(size, model) <= Most(1, MaxWindows[model])

(* choose_working_scale: the training scale, but not finer than twice the  *)
(* source, made coarser by 8 % until the windows are within the budget.    *)
Scaled(img, ground) ==
  LET scale[k \in 0..200] ==
        IF k = 0 THEN Most(Target[img.model], ground \div 2) ELSE (scale[k - 1] * 108) \div 100
      size(k) == <<Rounded(img.height * ground, scale[k]), Rounded(img.width * ground, scale[k])>>
  IN size(CHOOSE k \in 0..200 : k = 200 \/ Fits(size(k), img.model))

WorkingSize(img, ground) ==
  IF ground = Unknown THEN <<img.height, img.width>> ELSE Scaled(img, ground)

(* _limit_image_side.                                                      *)
Limited(size) ==
  LET side == Most(size[1], size[2])
  IN IF side <= MaxSide THEN size
     ELSE <<Most(1, (size[1] * MaxSide) \div side), Most(1, (size[2] * MaxSide) \div side)>>

-----------------------------------------------------------------------------
Begin(size, windows, told) ==
  /\ phase = "read"
  /\ phase' = "running"
  /\ work' = size /\ left' = windows /\ planned' = told
  /\ UNCHANGED <<image, run, progress, done, total>>

(* _run_yolo: in one pass, unless the snapshot is half as large again as a *)
(* window.                                                                 *)
BeginYolo ==
  LET model == "yolo_seg_26"
      size == WorkingSize(image, MPerPx(image))
      whole == {Window(size[1], size[2], Most(size[1], size[2]), <<0, 0>>)}
      cut == IF 2 * Most(size[1], size[2]) <= 3 * Tile[model] THEN whole
             ELSE TileWindows(size[1], size[2], Tile[model], Stride[model])
  IN image.model = model /\ Begin(size, cut, Cardinality(cut))

(* _run_segformer tells the windows of the working size; run_segmentation  *)
(* may make the image smaller still, and slides over what is left.         *)
BeginSegformer ==
  LET model == "segformer"
      size == WorkingSize(image, MPerPx(image))
      small == Limited(size)
  IN /\ image.model = model
     /\ Begin(small, TileWindows(small[1], small[2], Tile[model], Stride[model]), WindowsOf(size, model))

Before(v, w) == v.y0 < w.y0 \/ (v.y0 = w.y0 /\ v.x0 < w.x0)

(* The next n windows, by rows.                                            *)
Upcoming(n) == {w \in left : Cardinality({v \in left : Before(v, w)}) < n}

(* on_progress of run_inference: the bar never goes back.                  *)
Reports(all) ==
  LET value == 30 + (40 * Cardinality(run')) \div Most(1, Cardinality(all))
  IN IF value > progress THEN progress' = value /\ done' = Cardinality(run') /\ total' = Cardinality(all)
     ELSE UNCHANGED <<progress, done, total>>

(* predict_prob_sliding; a snapshot of one window does not slide.          *)
Slides == Most(work[1], work[2]) > Tile["segformer"]

(* YOLO is given its windows in batches; SegFormer one at a time, and      *)
(* reports only when it slides.                                            *)
RunWindows ==
  LET windows == Upcoming(IF image.model = "segformer" THEN 1 ELSE Batch)
  IN /\ phase = "running" /\ left # {}
     /\ run' = run \union windows /\ left' = left \ windows
     /\ IF image.model = "segformer" /\ ~Slides THEN UNCHANGED <<progress, done, total>>
        ELSE Reports(run \union left)
     /\ UNCHANGED <<image, phase, work, planned>>

(* The response of the model, in run_inference.                            *)
Finish ==
  /\ phase = "running" /\ left = {}
  /\ phase' = "inferred" /\ progress' = 70 /\ done' = planned /\ total' = planned
  /\ UNCHANGED <<image, work, left, run, planned>>

Fail ==
  /\ phase = "running"
  /\ phase' = "failed" /\ progress' = 0
  /\ UNCHANGED <<image, work, left, run, planned, done, total>>

Next == BeginYolo \/ BeginSegformer \/ RunWindows \/ Finish \/ Fail

Spec == Init /\ [][Next]_vars

-----------------------------------------------------------------------------
(* Properties                                                              *)

Cut == run \union left

(* A model has looked at every pixel of the image it works at: tile_windows *)
(* and _tile_starts of runtime.py and inference.py leave nothing out.      *)
Covered == phase = "inferred" => Covers(run, work[1], work[2])

(* The number of windows the user is told is the number that was run, but  *)
(* for an image that _limit_image_side of pipeline.py has made smaller     *)
(* after count_windows of runtime.py was asked.                            *)
ToldTrue ==
  phase = "inferred" /\ work = WorkingSize(image, MPerPx(image)) => Cardinality(run) = total

(* Never more windows are run than told (the sides are only made smaller).  *)
ToldEnough == phase = "inferred" => Cardinality(run) <= total

(* While the windows are reported, the bar shows the share that has been   *)
(* run, from 30 to 70: the guard of on_progress never holds back a report. *)
BarTells ==
  phase = "running" /\ (image.model = "segformer" => Slides) =>
    progress = 30 + (40 * Cardinality(run)) \div Cardinality(Cut)

(* Whatever the size of a snapshot: it is covered, the number told is true *)
(* and never too small, and the bar shows the share that has been run.     *)
WindowsCover == Covered /\ ToldTrue /\ ToldEnough /\ BarTells

(* The scale choose_working_scale finds for a pixel of a known size keeps  *)
(* the budget.                                                             *)
ScaleKeepsBudget ==
  \A img \in Images : img.ground # Unknown => Fits(WorkingSize(img, img.ground), img.model)

(* config.py:43: "for large areas the scale gets coarser so that at most   *)
(* *_max_windows windows run (CPU budget)": wherever the ground size of a  *)
(* pixel can be known, from the transform of the task.                     *)
WithinBudget ==
  image.ground # Unknown => Cardinality(Cut) <= Most(1, MaxWindows[image.model])

=============================================================================
