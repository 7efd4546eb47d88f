-------------------------- MODULE Inference_proofs --------------------------
(* Every snapshot is covered by the windows a model runs, and the number of *)
(* windows told is the number run, for all sizes, tiles and strides.        *)
EXTENDS Inference, FiniteSetTheorems, TLAPS

(* A window that begins at one of the starts of a side lies within it.      *)
LEMMA StartsFit ==
  ASSUME NEW size \in Nat \ {0}, NEW tile \in Nat \ {0}, NEW stride \in Nat \ {0},
         NEW s \in Starts(size, tile, stride)
  PROVE  s \in Nat /\ s < size /\ (size > tile => s + tile <= size)
<1>1. CASE size <= tile
  BY <1>1 DEF Starts
<1>2. CASE size > tile
  <2>1. CASE s = size - tile
    BY <1>2, <2>1
  <2>2. CASE s # size - tile
    <3>1. PICK k \in 0..((size - tile) \div stride) : s = k * stride
      BY <1>2, <2>2 DEF Starts
    <3>2. k * stride <= ((size - tile) \div stride) * stride /\ k * stride \in Nat
      BY <3>1
    <3>3. ((size - tile) \div stride) * stride <= size - tile
      BY <1>2
    <3>. QED BY <1>2, <3>1, <3>2, <3>3
  <2>. QED BY <2>1, <2>2
<1>. QED BY <1>1, <1>2

(* Every pixel of a side is in the window that begins at one of them, as    *)
(* long as the windows overlap or touch.                                    *)
LEMMA StartsReach ==
  ASSUME NEW size \in Nat \ {0}, NEW tile \in Nat \ {0}, NEW stride \in 1..tile,
         NEW p \in 0..(size - 1)
  PROVE  \E s \in Starts(size, tile, stride) : s <= p /\ p < s + tile
<1>1. CASE size <= tile
  BY <1>1 DEF Starts
<1>2. CASE size > tile /\ p >= size - tile
  <2>1. size - tile \in Starts(size, tile, stride)
    BY <1>2 DEF Starts
  <2>. QED BY <1>2, <2>1
<1>3. CASE size > tile /\ p < size - tile
  <2>. DEFINE k == p \div stride
  <2>1. k \in Nat /\ k * stride <= p /\ p < k * stride + stride
    OBVIOUS
  <2>2. k <= (size - tile) \div stride
    BY <1>3
  <2>3. (size - tile) \div stride \in Nat
    BY <1>3
  <2>4. k * stride \in Starts(size, tile, stride)
    <3>. HIDE DEF k
    <3>1. k \in 0..((size - tile) \div stride)
      BY <2>1, <2>2, <2>3
    <3>. QED BY <1>3, <3>1 DEF Starts
  <2>. QED BY <2>1, <2>4
<1>. QED BY <1>1, <1>2, <1>3

(* The windows of tile_windows and _tile_starts cover the whole image.      *)
THEOREM WindowsCoverTheImage ==
  ASSUME NEW height \in Nat \ {0}, NEW width \in Nat \ {0},
         NEW tile \in Nat \ {0}, NEW stride \in 1..tile
  PROVE  Covers(TileWindows(height, width, tile, stride), height, width)
<1>. SUFFICES ASSUME NEW y \in 0..(height - 1), NEW x \in 0..(width - 1)
              PROVE  \E win \in TileWindows(height, width, tile, stride) : Contains(win, y, x)
  BY DEF Covers
<1>1. PICK a \in Starts(height, tile, stride) : a <= y /\ y < a + tile
  BY StartsReach
<1>2. PICK b \in Starts(width, tile, stride) : b <= x /\ x < b + tile
  BY StartsReach
<1>3. Window(height, width, tile, <<a, b>>) \in TileWindows(height, width, tile, stride)
  BY <1>1, <1>2 DEF TileWindows
<1>4. a \in Nat /\ b \in Nat
  BY <1>1, <1>2, StartsFit
<1>5. Contains(Window(height, width, tile, <<a, b>>), y, x)
  BY <1>1, <1>2, <1>4 DEF Contains, Window, Least
<1>. QED BY <1>3, <1>5

(* What count_windows computes is the number of the windows along a side.   *)
LEMMA CountIsRight ==
  ASSUME NEW size \in Nat \ {0}, NEW tile \in Nat \ {0}, NEW stride \in Nat \ {0}
  PROVE  /\ IsFiniteSet(Starts(size, tile, stride))
         /\ Cardinality(Starts(size, tile, stride)) = Count(size, tile, stride)
<1>1. CASE size <= tile
  BY <1>1, FS_Singleton DEF Starts, Count
<1>2. CASE size > tile
  <2>. DEFINE last == size - tile
              n == last \div stride
              r == last % stride
              grid == {k * stride : k \in 0..n}
              f == [k \in 0..n |-> k * stride]
  <2>1. last \in Nat /\ n \in Nat /\ r \in 0..(stride - 1) /\ last = n * stride + r
    BY <1>2
  <2>2. Starts(size, tile, stride) = grid \union {last}
    BY <1>2 DEF Starts
  <2>3. Count(size, tile, stride) = n + 1 + (IF r = 0 THEN 0 ELSE 1)
    BY <1>2 DEF Count
  <2>. HIDE DEF last, n, r
  <2>4. IsFiniteSet(0..n) /\ Cardinality(0..n) = n + 1
    BY <2>1, FS_Interval, 0 \in Int, n \in Int, ~(0 > n), n - 0 + 1 = n + 1
  <2>5. ExistsBijection(0..n, grid)
    <3>1. \A j, k \in 0..n : j * stride = k * stride => j = k
      BY <2>1
    <3>2. f \in Bijection(0..n, grid)
      BY <3>1 DEF Bijection, Injection, Surjection, IsInjective
    <3>. QED BY <3>2 DEF ExistsBijection
  <2>6. last \in grid <=> r = 0
    <3>1. ASSUME r = 0 PROVE last \in grid
      BY <2>1, <3>1
    <3>2. ASSUME NEW k \in 0..n, last = k * stride PROVE r = 0
      <4>1. k * stride = n * stride + r
        BY <2>1, <3>2
      <4>2. CASE k = n
        BY <2>1, <4>1, <4>2
      <4>3. CASE k < n
        <5>1. k * stride + stride <= n * stride
          BY <2>1, <4>3
        <5>. QED BY <2>1, <4>1, <5>1
      <4>. QED BY <2>1, <4>2, <4>3
    <3>. QED BY <3>1, <3>2
  <2>. HIDE DEF grid, f
  <2>7. IsFiniteSet(grid) /\ Cardinality(grid) = n + 1
    BY <2>4, <2>5, FS_Bijection
  <2>8. /\ IsFiniteSet(grid \union {last})
        /\ Cardinality(grid \union {last}) = IF last \in grid THEN n + 1 ELSE n + 1 + 1
    BY <2>7, FS_AddElement
  <2>. QED BY <2>1, <2>2, <2>3, <2>6, <2>8
<1>. QED BY <1>1, <1>2

(* count_windows tells how many windows tile_windows and _tile_starts cut.  *)
THEOREM WindowsAreCounted ==
  ASSUME NEW height \in Nat \ {0}, NEW width \in Nat \ {0},
         NEW tile \in Nat \ {0}, NEW stride \in Nat \ {0}
  PROVE  /\ IsFiniteSet(TileWindows(height, width, tile, stride))
         /\ Cardinality(TileWindows(height, width, tile, stride)) =
              Count(height, tile, stride) * Count(width, tile, stride)
<1>. DEFINE pairs == Starts(height, tile, stride) \X Starts(width, tile, stride)
            windows == TileWindows(height, width, tile, stride)
            f == [s \in pairs |-> Window(height, width, tile, s)]
<1>1. /\ IsFiniteSet(pairs)
      /\ Cardinality(pairs) = Count(height, tile, stride) * Count(width, tile, stride)
  <2>. DEFINE S == Starts(height, tile, stride)
              T == Starts(width, tile, stride)
  <2>1. IsFiniteSet(S) /\ Cardinality(S) = Count(height, tile, stride)
    BY CountIsRight
  <2>2. IsFiniteSet(T) /\ Cardinality(T) = Count(width, tile, stride)
    BY CountIsRight
  <2>. HIDE DEF S, T
  <2>3. IsFiniteSet(S \X T) /\ Cardinality(S \X T) = Cardinality(S) * Cardinality(T)
    BY <2>1, <2>2, FS_Product
  <2>. QED BY <2>1, <2>2, <2>3 DEF S, T
<1>2. \A s, t \in pairs : f[s] = f[t] => s = t
  BY DEF Window
<1>3. windows = {f[s] : s \in pairs}
  BY DEF TileWindows
<1>4. f \in Bijection(pairs, windows)
  <2>. HIDE DEF pairs, windows
  <2>1. f \in [pairs -> windows]
    BY <1>3
  <2>. HIDE DEF f
  <2>. QED BY <1>2, <1>3, <2>1 DEF Bijection, Injection, Surjection, IsInjective
<1>5. ExistsBijection(pairs, windows)
  BY <1>4 DEF ExistsBijection
<1>. HIDE DEF pairs, windows
<1>6. IsFiniteSet(windows) /\ Cardinality(windows) = Cardinality(pairs)
  BY <1>1, <1>5, FS_Bijection
<1>. QED BY <1>1, <1>6 DEF windows

(* The sizes an image may have.                                             *)
Sizes == (Nat \ {0}) \X (Nat \ {0})

(* From Begin on, the windows run and those left are a cut of the image: no *)
(* more than planned, and as many if its size is the one count_windows was  *)
(* asked about.                                                             *)
IsCut ==
  /\ Covers(Cut, work[1], work[2])
  /\ IsFiniteSet(Cut) /\ Cut # {}
  /\ Cardinality(Cut) <= planned
  /\ work = WorkingSize(image, MPerPx(image)) => Cardinality(Cut) = planned

IInv ==
  /\ image \in Images
  /\ phase \in {"read", "running", "inferred", "failed"}
  /\ phase = "read" => run = {} /\ progress = 30
  /\ phase \in {"running", "inferred"} => IsCut
  /\ phase = "inferred" => left = {} /\ total = planned
  /\ BarTells

(* run_inference never knows the ground size, so the image is not scaled.   *)
LEMMA NotScaled ==
  ASSUME InferenceAssumption, image \in Images
  PROVE  /\ WorkingSize(image, MPerPx(image)) = <<image.height, image.width>>
         /\ WorkingSize(image, MPerPx(image)) \in Sizes
<1>1. MPerPx(image) = Unknown
  BY DEF MPerPx
<1>2. WorkingSize(image, MPerPx(image)) = <<image.height, image.width>>
  BY <1>1 DEF WorkingSize
<1>3. image.height \in Nat \ {0} /\ image.width \in Nat \ {0}
  BY DEF InferenceAssumption, Images
<1>. QED BY <1>2, <1>3 DEF Sizes

LEMMA ScaledDown ==
  ASSUME NEW k \in Nat, NEW m \in Nat, NEW n \in Nat, m < n
  PROVE  (k * m) \div n <= k
<1>1. k * m <= k * n /\ k * m \in Nat
  OBVIOUS
<1>2. ((k * m) \div n) * n <= k * m /\ (k * m) \div n \in Nat
  BY <1>1
<1>3. (k * m) \div n >= k + 1 => ((k * m) \div n) * n >= (k + 1) * n
  BY <1>2
<1>4. (k + 1) * n = k * n + n
  OBVIOUS
<1>. QED BY <1>1, <1>2, <1>3, <1>4

(* An image stays an image when it is made smaller.                         *)
LEMMA LimitedFits ==
  ASSUME InferenceAssumption, NEW size \in Sizes
  PROVE  Limited(size) \in Sizes /\ Limited(size)[1] <= size[1] /\ Limited(size)[2] <= size[2]
<1>. DEFINE side == Most(size[1], size[2])
<1>1. size[1] \in Nat /\ size[2] \in Nat /\ side \in Nat \ {0} /\ MaxSide \in Nat
  BY DEF Sizes, Most, InferenceAssumption
<1>2. size[1] * MaxSide \in Nat /\ size[2] * MaxSide \in Nat
  BY <1>1
<1>. HIDE DEF side
<1>3. (size[1] * MaxSide) \div side \in Nat /\ (size[2] * MaxSide) \div side \in Nat
  BY <1>1, <1>2
<1>4. CASE side <= MaxSide
  BY <1>1, <1>4 DEF Limited, Sizes, side
<1>5. CASE side > MaxSide
  <2>1. (size[1] * MaxSide) \div side <= size[1] /\ (size[2] * MaxSide) \div side <= size[2]
    BY <1>1, <1>5, ScaledDown
  <2>2. Limited(size) = <<Most(1, (size[1] * MaxSide) \div side), Most(1, (size[2] * MaxSide) \div side)>>
    BY <1>1, <1>5 DEF Limited, side
  <2>3. size[1] >= 1 /\ size[2] >= 1
    BY DEF Sizes
  <2>. QED BY <1>1, <1>3, <2>1, <2>2, <2>3 DEF Most, Sizes
<1>. QED BY <1>1, <1>4, <1>5

(* The whole image, as one window.                                          *)
LEMMA WholeCovers ==
  ASSUME NEW size \in Sizes
  PROVE  Covers({Window(size[1], size[2], Most(size[1], size[2]), <<0, 0>>)}, size[1], size[2])
BY DEF Sizes, Covers, Contains, Window, Most, Least

(* What covers an image is not empty.                                       *)
LEMMA CoverIsNotEmpty ==
  ASSUME NEW size \in Sizes, NEW windows, Covers(windows, size[1], size[2])
  PROVE  windows # {}
BY DEF Sizes, Covers

(* A smaller image has no more windows.                                     *)
LEMMA CountGrows ==
  ASSUME NEW tile \in Nat \ {0}, NEW stride \in Nat \ {0},
         NEW small \in Nat \ {0}, NEW size \in Nat \ {0}, small <= size
  PROVE  /\ Count(small, tile, stride) \in Nat /\ Count(size, tile, stride) \in Nat
         /\ Count(small, tile, stride) <= Count(size, tile, stride)
<1>1. CASE small <= tile
  BY <1>1 DEF Count
<1>2. CASE small > tile
  <2>. DEFINE a == small - tile
              b == size - tile
              n == a \div stride
              m == b \div stride
              r == a % stride
              q == b % stride
  <2>1. /\ n \in Nat /\ r \in 0..(stride - 1) /\ a = n * stride + r
        /\ m \in Nat /\ q \in 0..(stride - 1) /\ b = m * stride + q
        /\ a <= b
    BY <1>2
  <2>2. /\ Count(small, tile, stride) = n + 1 + (IF r = 0 THEN 0 ELSE 1)
        /\ Count(size, tile, stride) = m + 1 + (IF q = 0 THEN 0 ELSE 1)
    BY <1>2 DEF Count
  <2>. HIDE DEF a, b, n, m, r, q
  <2>3. CASE n <= m - 1
    BY <2>1, <2>2, <2>3
  <2>4. CASE n = m
    BY <2>1, <2>2, <2>4
  <2>5. CASE n >= m + 1
    <3>1. n * stride >= m * stride + stride
      BY <2>1, <2>5
    <3>. QED BY <2>1, <3>1
  <2>. QED BY <2>1, <2>3, <2>4, <2>5
<1>. QED BY <1>1, <1>2

LEMMA ProductGrows ==
  ASSUME NEW a \in Nat, NEW b \in Nat, NEW c \in Nat, NEW d \in Nat, a <= c, b <= d
  PROVE  a * b <= c * d
<1>1. a * b <= c * b
  OBVIOUS
<1>2. c * b <= c * d
  OBVIOUS
<1>3. a * b \in Nat /\ c * b \in Nat /\ c * d \in Nat
  OBVIOUS
<1>. QED BY <1>1, <1>2, <1>3

(* How _run_yolo and _run_segformer begin.                                  *)
LEMMA BeginsWithACut ==
  ASSUME InferenceAssumption, IInv, NEW size \in Sizes, NEW windows, NEW told,
         Begin(size, windows, told),
         Covers(windows, size[1], size[2]), IsFiniteSet(windows),
         Cardinality(windows) <= told,
         size = WorkingSize(image, MPerPx(image)) => Cardinality(windows) = told
  PROVE  IInv'
<1>1. run' \union left' = windows /\ run' = {} /\ progress' = 30
  BY DEF Begin, IInv
<1>2. WorkingSize(image, MPerPx(image))' = WorkingSize(image, MPerPx(image))
  BY DEF Begin
<1>3. windows # {}
  BY CoverIsNotEmpty
<1>4. IsCut'
  BY <1>1, <1>2, <1>3 DEF IsCut, Cut, Begin
<1>5. BarTells'
  <2>1. Cardinality(run') = 0 /\ Cardinality(Cut') \in Nat \ {0}
    BY <1>1, <1>3, FS_EmptySet, FS_CardinalityType DEF Cut
  <2>2. (40 * 0) \div Cardinality(Cut') = 0
    BY <2>1
  <2>. QED BY <1>1, <2>1, <2>2 DEF BarTells
<1>. QED BY <1>4, <1>5 DEF IInv, Begin

LEMMA YoloBegins ==
  ASSUME InferenceAssumption, IInv, BeginYolo
  PROVE  IInv'
<1>. DEFINE model == "yolo_seg_26"
            size == WorkingSize(image, MPerPx(image))
            whole == {Window(size[1], size[2], Most(size[1], size[2]), <<0, 0>>)}
            tiles == TileWindows(size[1], size[2], Tile[model], Stride[model])
            cut == IF 2 * Most(size[1], size[2]) <= 3 * Tile[model] THEN whole ELSE tiles
<1>1. size \in Sizes
  BY NotScaled DEF IInv
<1>2. Begin(size, cut, Cardinality(cut))
  BY DEF BeginYolo
<1>. HIDE DEF size
<1>3. Covers(whole, size[1], size[2]) /\ IsFiniteSet(whole)
  BY <1>1, WholeCovers, FS_Singleton
<1>4. Covers(tiles, size[1], size[2]) /\ IsFiniteSet(tiles)
  <2>1. size[1] \in Nat \ {0} /\ size[2] \in Nat \ {0}
    BY <1>1 DEF Sizes
  <2>2. Tile[model] \in Nat \ {0} /\ Stride[model] \in 1..Tile[model] /\ Stride[model] \in Nat \ {0}
    BY DEF InferenceAssumption, Models
  <2>. QED BY <2>1, <2>2, WindowsCoverTheImage, WindowsAreCounted
<1>5. Covers(cut, size[1], size[2]) /\ IsFiniteSet(cut)
  BY <1>3, <1>4
<1>6. Cardinality(cut) \in Nat
  BY <1>5, FS_CardinalityType
<1>. HIDE DEF cut
<1>. QED BY <1>1, <1>2, <1>5, <1>6, BeginsWithACut

LEMMA SegformerBegins ==
  ASSUME InferenceAssumption, IInv, BeginSegformer
  PROVE  IInv'
<1>. DEFINE model == "segformer"
            size == WorkingSize(image, MPerPx(image))
            small == Limited(size)
            tiles == TileWindows(small[1], small[2], Tile[model], Stride[model])
<1>1. size \in Sizes /\ small \in Sizes /\ small[1] <= size[1] /\ small[2] <= size[2]
  BY NotScaled, LimitedFits DEF IInv
<1>2. Begin(small, tiles, WindowsOf(size, model))
  BY DEF BeginSegformer
<1>. HIDE DEF size, small
<1>3. /\ Covers(tiles, small[1], small[2]) /\ IsFiniteSet(tiles)
      /\ Cardinality(tiles) = WindowsOf(small, model)
  <2>1. small[1] \in Nat \ {0} /\ small[2] \in Nat \ {0}
    BY <1>1 DEF Sizes
  <2>2. Tile[model] \in Nat \ {0} /\ Stride[model] \in 1..Tile[model] /\ Stride[model] \in Nat \ {0}
    BY DEF InferenceAssumption, Models
  <2>. QED BY <2>1, <2>2, WindowsCoverTheImage, WindowsAreCounted DEF WindowsOf
<1>4. small = WorkingSize(image, MPerPx(image)) => Cardinality(tiles) = WindowsOf(size, model)
  BY <1>3 DEF size
<1>5. Cardinality(tiles) <= WindowsOf(size, model)
  <2>. DEFINE count(k) == Count(k, Tile[model], Stride[model])
  <2>1. size[1] \in Nat \ {0} /\ size[2] \in Nat \ {0} /\ small[1] \in Nat \ {0} /\ small[2] \in Nat \ {0}
    BY <1>1 DEF Sizes
  <2>2. Tile[model] \in Nat \ {0} /\ Stride[model] \in Nat \ {0}
    BY DEF InferenceAssumption, Models
  <2>3. count(small[1]) \in Nat /\ count(size[1]) \in Nat /\ count(small[1]) <= count(size[1])
    BY <1>1, <2>1, <2>2, CountGrows
  <2>4. count(small[2]) \in Nat /\ count(size[2]) \in Nat /\ count(small[2]) <= count(size[2])
    BY <1>1, <2>1, <2>2, CountGrows
  <2>5. WindowsOf(small, model) = count(small[1]) * count(small[2])
        /\ WindowsOf(size, model) = count(size[1]) * count(size[2])
    BY DEF WindowsOf
  <2>. HIDE DEF count
  <2>. QED BY <1>3, <2>3, <2>4, <2>5, ProductGrows
<1>. HIDE DEF tiles
<1>. QED BY <1>1, <1>2, <1>3, <1>4, <1>5, BeginsWithACut

LEMMA ShareGrows ==
  ASSUME NEW n \in Nat \ {0}, NEW j \in Nat, NEW k \in Nat, j <= k
  PROVE  /\ (40 * j) \div n \in Nat /\ (40 * k) \div n \in Nat
         /\ (40 * j) \div n <= (40 * k) \div n
OBVIOUS

(* on_progress reports the share that has been run: it has not gone down.   *)
LEMMA ReportsShare ==
  ASSUME IInv, RunWindows
  PROVE  BarTells'
<1>. DEFINE share(k) == 30 + (40 * k) \div Cardinality(Cut)
<1>1. /\ run' \union left' = Cut /\ run \subseteq run' /\ run' \subseteq Cut
      /\ phase = "running" /\ IsCut /\ UNCHANGED <<image, work>>
  BY DEF RunWindows, Upcoming, Cut, IInv
<1>2. /\ Cardinality(run) \in Nat /\ Cardinality(run') \in Nat
      /\ Cardinality(run) <= Cardinality(run') /\ Cardinality(Cut) \in Nat \ {0}
  <2>1. IsFiniteSet(Cut) /\ Cut # {}
    BY <1>1 DEF IsCut
  <2>2. IsFiniteSet(run')
    BY <1>1, <2>1, FS_Subset
  <2>3. IsFiniteSet(run) /\ Cardinality(run) <= Cardinality(run')
    BY <1>1, <2>2, FS_Subset
  <2>. QED BY <2>1, <2>2, <2>3, FS_CardinalityType, FS_EmptySet
<1>3. /\ share(Cardinality(run)) \in Nat /\ share(Cardinality(run')) \in Nat
      /\ share(Cardinality(run)) <= share(Cardinality(run'))
  BY <1>2, ShareGrows
<1>4. Slides' <=> Slides
  BY <1>1 DEF Slides
<1>5. CASE image.model = "segformer" /\ ~Slides
  BY <1>1, <1>4, <1>5 DEF BarTells
<1>6. CASE ~(image.model = "segformer" /\ ~Slides)
  <2>1. progress = share(Cardinality(run))
    BY <1>1, <1>6 DEF IInv, BarTells
  <2>2. progress' = IF share(Cardinality(run')) > progress THEN share(Cardinality(run')) ELSE progress
    <3>1. Reports(Cut)
      BY <1>6 DEF RunWindows, Cut
    <3>2. Most(1, Cardinality(Cut)) = Cardinality(Cut)
      BY <1>2 DEF Most
    <3>. QED BY <3>1, <3>2 DEF Reports
  <2>3. progress' = share(Cardinality(run'))
    <3>. HIDE DEF share
    <3>. QED BY <1>3, <2>1, <2>2
  <2>. QED BY <1>1, <2>3 DEF BarTells, Cut
<1>. QED BY <1>5, <1>6

(* The invariant is inductive.                                              *)
LEMMA StepKeepsIInv ==
  ASSUME InferenceAssumption, IInv, [Next]_vars
  PROVE  IInv'
<1>1. CASE BeginYolo
  BY <1>1, YoloBegins
<1>2. CASE BeginSegformer
  BY <1>2, SegformerBegins
<1>3. CASE RunWindows
  <2>1. /\ run' \union left' = run \union left
        /\ phase' = "running" /\ phase = "running"
        /\ UNCHANGED <<image, work, planned>>
    BY <1>3 DEF RunWindows, Upcoming
  <2>2. IsCut'
    BY <2>1 DEF IInv, IsCut, Cut, WorkingSize, MPerPx
  <2>. QED BY <1>3, <2>1, <2>2, ReportsShare DEF IInv
<1>4. CASE Finish
  BY <1>4 DEF Finish, IInv, IsCut, Cut, BarTells
<1>5. CASE Fail
  BY <1>5 DEF Fail, IInv, BarTells
<1>6. CASE UNCHANGED vars
  BY <1>6 DEF vars, IInv, IsCut, Cut, BarTells, Slides
<1>. QED BY <1>1, <1>2, <1>3, <1>4, <1>5, <1>6 DEF Next

(* Whatever the size of a snapshot, the windows the model has run cover the *)
(* image it works at, their number is the one the task shows (no larger, if *)
(* the pipeline has made the image smaller), and the bar shows the share.   *)
THEOREM SnapshotsAreCovered ==
  ASSUME InferenceAssumption
  PROVE  Spec => []WindowsCover
<1>1. Init => IInv
  BY DEF Init, IInv, BarTells
<1>2. IInv /\ [Next]_vars => IInv'
  BY StepKeepsIInv
<1>3. IInv => WindowsCover
  <2>1. ASSUME IInv, phase = "inferred" PROVE Cut = run /\ IsCut
    BY <2>1 DEF IInv, Cut
  <2>. QED BY <2>1 DEF IInv, IsCut, WindowsCover, Covered, ToldTrue, ToldEnough
<1>. QED BY <1>1, <1>2, <1>3, PTL DEF Spec

=============================================================================
