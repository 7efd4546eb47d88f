------------------------------- MODULE Tiling -------------------------------
(***************************************************************************)
(* How a snapshot is cut into overlapping windows: tile_windows and        *)
(* count_windows of ml_service/runtime.py, _tile_starts of                 *)
(* segmentation_service/inference.py.  Lengths are numbers of pixels.      *)
(***************************************************************************)
EXTENDS Integers, FiniteSets

(* Mutant: the last window, which touches the edge, is forgotten.          *)
StartsOfTheGrid(size, tile, stride) ==
  IF size <= tile THEN {0} ELSE {k * stride : k \in 0..((size - tile) \div stride)}

(* Where the windows begin along a side.                                   *)
Starts(size, tile, stride) ==
  IF size <= tile THEN {0}
  ELSE {k * stride : k \in 0..((size - tile) \div stride)} \union {size - tile}

(* count_windows, along a side: by arithmetic.                             *)
Count(size, tile, stride) ==
  IF size <= tile THEN 1
  ELSE (size - tile) \div stride + 1 + (IF (size - tile) % stride = 0 THEN 0 ELSE 1)

Least(a, b) == IF a < b THEN a ELSE b

(* The window [y0, y1) x [x0, x1) that begins at s does not leave the image.*)
Window(height, width, tile, s) ==
  [y0 |-> s[1], x0 |-> s[2], y1 |-> Least(height, s[1] + tile), x1 |-> Least(width, s[2] + tile)]

TileWindows(height, width, tile, stride) ==
  {Window(height, width, tile, s) : s \in Starts(height, tile, stride) \X Starts(width, tile, stride)}

Contains(win, y, x) == win.y0 <= y /\ y < win.y1 /\ win.x0 <= x /\ x < win.x1

Covers(windows, height, width) ==
  \A y \in 0..(height - 1), x \in 0..(width - 1) : \E win \in windows : Contains(win, y, x)

=============================================================================
