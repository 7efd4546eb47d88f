---------------------------- MODULE MCInference ----------------------------
(* Sizes around the tiles of both models, and beyond the largest side.     *)
EXTENDS Inference

MCSides == {1, 9, 14, 15, 16, 30, 41, 46}
MCTile == [yolo_seg_26 |-> 10, segformer |-> 8]
MCStride == [yolo_seg_26 |-> 8, segformer |-> 6]
MCTarget == [yolo_seg_26 |-> 10000, segformer |-> 10000]
MCMaxWindows == [yolo_seg_26 |-> 6, segformer |-> 9]

=============================================================================
