-------------------------- MODULE FaceGeometryProofs --------------------------
(***************************************************************************)
(* Proofs about FaceGeometry, for every size of frame, every unit and every *)
(* box: a face that passed validation always has a rectangle to be shown    *)
(* to a liveness model, in the frame and around the face.                   *)
(***************************************************************************)
EXTENDS FaceGeometry, TLAPS

Box == [x : Int, y : Int, w : Nat \ {0}, h : Nat \ {0}]

-----------------------------------------------------------------------------
(* Along one axis                                                          *)

\* A window that fits lies in the frame and around the box.
LEMMA WindowHolds ==
  ASSUME NEW from \in Int, NEW length \in Nat, NEW size \in Int, NEW frame \in Int,
         WindowFits(from, length, size, frame)
  PROVE  /\ WindowAt(from, length, size, frame) \in Nat
         /\ WindowAt(from, length, size, frame) <= from
         /\ from + length <= WindowAt(from, length, size, frame) + size
         /\ WindowAt(from, length, size, frame) + size <= frame
<1> DEFINE centred == (2 * from + length - size) \div 2
<1>1. centred \in Int
  OBVIOUS
<1>2. WindowAt(from, length, size, frame) =
         Clamp(centred, LowEnd(from, length, size), HighEnd(from, size, frame))
  BY DEF WindowAt
<1> HIDE DEF centred
<1> QED BY <1>1, <1>2 DEF WindowFits, LowEnd, HighEnd, Clamp, Smaller, Larger

\* The whole frame is a window around every box inside it.
LEMMA WholeFrameFits ==
  ASSUME NEW from \in Nat, NEW length \in Nat, NEW frame \in Nat, from + length <= frame
  PROVE  WindowFits(from, length, frame, frame)
  BY DEF WindowFits, LowEnd, HighEnd, Smaller, Larger

\* Rounding to pixels moves a length by half a pixel at most.
LEMMA PixelsRound ==
  ASSUME NEW v \in Nat
  PROVE  /\ Pixels(v) \in Nat
         /\ 2 * (Pixels(v) * Unit) <= 2 * v + Unit
         /\ 2 * v <= 2 * (Pixels(v) * Unit) + Unit
<1>1. Unit \in Nat \ {0}
  BY FrameAssumption
<1> DEFINE p == (2 * v + Unit) \div (2 * Unit)
           r == (2 * v + Unit) % (2 * Unit)
<1>2. p \in Nat /\ r \in 0..2 * Unit - 1 /\ 2 * v + Unit = p * (2 * Unit) + r
  BY <1>1
<1>3. Pixels(v) = p
  BY DEF Pixels
<1> HIDE DEF p, r
<1>4. p * (2 * Unit) = 2 * (p * Unit) /\ p * Unit \in Int
  BY <1>1, <1>2
<1> QED BY <1>1, <1>2, <1>3, <1>4

\* Products the arithmetic below leaves to be compared
LEMMA Products ==
  ASSUME NEW a \in Int, NEW b \in Int, NEW u \in Nat
  PROVE  /\ a * u \in Int
         /\ (a + b) * u = a * u + b * u
         /\ (a - b) * u = a * u - b * u
         /\ a <= b => a * u <= b * u
<1>1. a * u \in Int /\ b * u \in Int /\ (a + b) * u = a * u + b * u /\ (a - b) * u = a * u - b * u
  OBVIOUS
<1>2. ASSUME a <= b PROVE a * u <= b * u
  <2>1. (b - a) * u >= 0
    BY <1>2
  <2>2. (b - a) * u = b * u - a * u
    OBVIOUS
  <2> QED BY <2>1, <2>2, <1>1
<1> QED BY <1>1, <1>2

\* A window rounded to pixels, position and size apart, and cut to the frame
Start(p, frame) == Clamp(p, 0, frame - 1)
Extent(p, size, frame) ==
    Larger(Smaller(Larger(Pixels(size), 1), frame - Start(p, frame)), 1)

\* It lies in the frame and shows the box, give or take a pixel on each side.
LEMMA AxisShown ==
  ASSUME NEW from \in Int, NEW length \in Nat \ {0}, NEW size \in Int,
         NEW frame \in Nat \ {0}, WindowFits(from, length, size, frame * Unit)
  PROVE  LET p == Pixels(WindowAt(from, length, size, frame * Unit))
             x == Start(p, frame)
             n == Extent(p, size, frame)
         IN  /\ x \in Nat /\ n \in Nat \ {0} /\ x + n <= frame
             /\ (x - 1) * Unit <= from
             /\ from + length <= (x + n + 1) * Unit
<1> DEFINE left == WindowAt(from, length, size, frame * Unit)
           p == Pixels(left)
           q == Pixels(size)
           x == Start(p, frame)
           n == Extent(p, size, frame)
<1>1. Unit \in Nat \ {0} /\ frame * Unit \in Int
  BY FrameAssumption
<1>2. left \in Nat /\ left <= from /\ from + length <= left + size /\ left + size <= frame * Unit
  BY <1>1, WindowHolds
<1>3. size \in Nat
  BY DEF WindowFits
<1>4. /\ p \in Nat /\ q \in Nat
      /\ 2 * (p * Unit) <= 2 * left + Unit /\ 2 * left <= 2 * (p * Unit) + Unit
      /\ 2 * size <= 2 * (q * Unit) + Unit
  BY <1>2, <1>3, PixelsRound
<1>5. x \in 0..frame - 1 /\ (x = p \/ (x = frame - 1 /\ frame <= p))
  BY <1>4 DEF Start, Clamp, Smaller, Larger
<1>6. /\ n \in Nat \ {0} /\ x + n <= frame
      /\ (x + n = frame \/ (x = p /\ q <= n))
  BY <1>4, <1>5 DEF Extent, Smaller, Larger
<1> HIDE DEF left, p, q, x, n
<1>7. (x - 1) * Unit <= from
  <2>1. (x - 1) * Unit = x * Unit - Unit /\ x * Unit \in Int
    BY <1>1, <1>5, Products
  <2>2. x * Unit <= p * Unit /\ p * Unit \in Int
    BY <1>1, <1>4, <1>5, Products
  <2> QED BY <1>1, <1>2, <1>4, <2>1, <2>2
<1>8. from + length <= (x + n + 1) * Unit
  <2>1. (x + n + 1) * Unit = (x + n) * Unit + Unit /\ (x + n) * Unit \in Int
    BY <1>1, <1>5, <1>6, Products
  <2>2. CASE x + n = frame
    BY <1>1, <1>2, <2>1, <2>2
  <2>3. CASE x = p /\ q <= n
    <3>1. (x + n) * Unit = p * Unit + n * Unit /\ p * Unit \in Int /\ n * Unit \in Int
      BY <1>1, <1>4, <1>6, <2>3, Products
    <3>2. q * Unit <= n * Unit /\ q * Unit \in Int
      BY <1>1, <1>4, <1>6, <2>3, Products
    <3> QED BY <1>1, <1>2, <1>3, <1>4, <2>1, <3>1, <3>2
  <2> QED BY <1>6, <2>2, <2>3
<1> QED BY <1>5, <1>6, <1>7, <1>8 DEF left, p, x, n

-----------------------------------------------------------------------------
(* Rectangles                                                              *)

LEMMA RectShown ==
  ASSUME NEW box \in Box, NEW w \in Int, NEW h \in Int,
         BuildContainingRect(box, w, h) # NoRect
  PROVE  /\ RoiInFrame(NormalizeRoi(BuildContainingRect(box, w, h)))
         /\ RoiShows(NormalizeRoi(BuildContainingRect(box, w, h)), box)
<1> DEFINE px == Pixels(WindowAt(box.x, box.w, w, FrameW * Unit))
           py == Pixels(WindowAt(box.y, box.h, h, FrameH * Unit))
           roi == NormalizeRoi(BuildContainingRect(box, w, h))
<1>1. FrameW \in Nat \ {0} /\ FrameH \in Nat \ {0} /\ Unit \in Nat \ {0}
  BY FrameAssumption
<1>2. /\ box.x \in Int /\ box.y \in Int
      /\ box.w \in Nat \ {0} /\ box.h \in Nat \ {0}
  BY DEF Box
<1>3. WindowFits(box.x, box.w, w, FrameW * Unit) /\ WindowFits(box.y, box.h, h, FrameH * Unit)
  BY DEF BuildContainingRect, Wide, High
<1>4. roi = [x |-> Start(px, FrameW), y |-> Start(py, FrameH),
             w |-> Extent(px, w, FrameW), h |-> Extent(py, h, FrameH)]
  BY <1>3 DEF BuildContainingRect, NormalizeRoi, Start, Extent, Wide, High
<1>5. /\ Start(px, FrameW) \in Nat /\ Extent(px, w, FrameW) \in Nat \ {0}
      /\ Start(px, FrameW) + Extent(px, w, FrameW) <= FrameW
      /\ (Start(px, FrameW) - 1) * Unit <= box.x
      /\ box.x + box.w <= (Start(px, FrameW) + Extent(px, w, FrameW) + 1) * Unit
  BY <1>1, <1>2, <1>3, AxisShown
<1>6. /\ Start(py, FrameH) \in Nat /\ Extent(py, h, FrameH) \in Nat \ {0}
      /\ Start(py, FrameH) + Extent(py, h, FrameH) <= FrameH
      /\ (Start(py, FrameH) - 1) * Unit <= box.y
      /\ box.y + box.h <= (Start(py, FrameH) + Extent(py, h, FrameH) + 1) * Unit
  BY <1>1, <1>2, <1>3, AxisShown
<1> HIDE DEF px, py, roi
<1>7. RoiInFrame(roi)
  BY <1>4, <1>5, <1>6 DEF RoiInFrame
<1>8. RoiShows(roi, box)
  BY <1>4, <1>5, <1>6 DEF RoiShows
<1> QED BY <1>7, <1>8 DEF roi

\* A box in the frame fits a window as large as the frame.
LEMMA WholeFrameBuilds ==
  ASSUME NEW box \in Box, InFrame(box)
  PROVE  BuildContainingRect(box, Wide, High) # NoRect
<1>1. Wide \in Nat /\ High \in Nat
  BY FrameAssumption DEF Wide, High
<1>2. WindowFits(box.x, box.w, Wide, Wide) /\ WindowFits(box.y, box.h, High, High)
  BY <1>1, WholeFrameFits DEF Box, InFrame
<1>3. /\ WindowAt(box.x, box.w, Wide, Wide) \in Nat
      /\ WindowAt(box.y, box.h, High, High) \in Nat
  BY <1>1, <1>2, WindowHolds DEF Box
<1>4. BuildContainingRect(box, Wide, High) \in [x : Int, y : Int, w : Int, h : Int]
  BY <1>1, <1>2, <1>3, PixelsRound DEF BuildContainingRect, Larger
<1> QED BY <1>4, NoRectAssumption

\* The sizes compute_model_crop_rect tries, one after the other
Sizes(box, scale) ==
    LET w == (box.w * scale) \div 10  h == (box.h * scale) \div 10
        area == TargetArea(box, scale)
        byWidth == Clamp(w, box.w, Wide)
        byHeight == Clamp(h, box.h, High)
    IN  << [w |-> w, h |-> h],
           [w |-> byWidth, h |-> Smaller(Larger(area \div byWidth, box.h), High)],
           [w |-> Smaller(Larger(area \div byHeight, box.w), Wide), h |-> byHeight],
           [w |-> Larger(Wide, box.w), h |-> Larger(High, box.h)] >>

Size == [w : Int, h : Int]

LEMMA SizesTyped ==
  ASSUME NEW box \in Box, NEW scale \in Nat, InFrame(box)
  PROVE  /\ DOMAIN Sizes(box, scale) = 1..4
         /\ \A i \in 1..4 : Sizes(box, scale)[i] \in Size
         /\ Sizes(box, scale)[4] = [w |-> Wide, h |-> High]
<1> DEFINE w == (box.w * scale) \div 10
           h == (box.h * scale) \div 10
           area == TargetArea(box, scale)
           byWidth == Clamp(w, box.w, Wide)
           byHeight == Clamp(h, box.h, High)
<1>1. Wide \in Nat \ {0} /\ High \in Nat \ {0} /\ box.w \in 1..Wide /\ box.h \in 1..High
  BY FrameAssumption DEF Wide, High, Box, InFrame
<1>2. w \in Nat /\ h \in Nat
  <2>1. box.w * scale \in Nat /\ box.h * scale \in Nat
    BY <1>1
  <2> QED BY <2>1
<1>3. area \in Nat
  <2>1. box.w * box.h \in Nat
    BY <1>1
  <2>2. box.w * box.h * scale \in Nat
    BY <2>1
  <2>3. box.w * box.h * scale * scale \in Nat
    BY <2>2
  <2> QED BY <2>3 DEF TargetArea
<1> HIDE DEF w, h, area
<1>4. byWidth \in Nat \ {0} /\ byHeight \in Nat \ {0}
  BY <1>1, <1>2 DEF Clamp, Smaller, Larger
<1> HIDE DEF byWidth, byHeight
<1>5. area \div byWidth \in Nat /\ area \div byHeight \in Nat
  BY <1>3, <1>4
<1>6. Smaller(Larger(area \div byWidth, box.h), High) \in Int
  BY <1>1, <1>5 DEF Smaller, Larger
<1>7. Smaller(Larger(area \div byHeight, box.w), Wide) \in Int
  BY <1>1, <1>5 DEF Smaller, Larger
<1>8. Larger(Wide, box.w) = Wide /\ Larger(High, box.h) = High
  BY <1>1 DEF Larger
<1> DEFINE sizes == << [w |-> w, h |-> h],
           [w |-> byWidth, h |-> Smaller(Larger(area \div byWidth, box.h), High)],
           [w |-> Smaller(Larger(area \div byHeight, box.w), Wide), h |-> byHeight],
           [w |-> Wide, h |-> High] >>
<1>9. Sizes(box, scale) = sizes
  BY <1>8 DEF Sizes, w, h, area, byWidth, byHeight
<1>10. DOMAIN sizes = 1..4 /\ \A i \in 1..4 : sizes[i] \in Size
  BY <1>1, <1>2, <1>4, <1>6, <1>7 DEF Size
<1> QED BY <1>9, <1>10

\* One of them is taken: the last one always could be.
LEMMA CropIsBuilt ==
  ASSUME NEW box \in Box, NEW scale \in Nat, InFrame(box)
  PROVE  \E w, h \in Int : /\ ModelCropRect(box, scale) = BuildContainingRect(box, w, h)
                          /\ BuildContainingRect(box, w, h) # NoRect
<1> DEFINE sizes == Sizes(box, scale)
           Accepted(i) == BuildContainingRect(box, sizes[i].w, sizes[i].h) # NoRect
           ok == {i \in DOMAIN sizes : Accepted(i)}
           chosen == CHOOSE i \in ok : \A j \in ok : i <= j
<1>1. DOMAIN sizes = 1..4 /\ (\A i \in 1..4 : sizes[i] \in Size)
      /\ sizes[4] = [w |-> Wide, h |-> High]
  BY SizesTyped
<1> HIDE DEF sizes
<1>2. 4 \in ok /\ ok \subseteq 1..4
  BY <1>1, WholeFrameBuilds
<1> HIDE DEF Accepted
<1>3. \E i \in ok : \A j \in ok : i <= j
  <2>1. CASE 1 \in ok
    BY <1>2, <2>1
  <2>2. CASE 1 \notin ok /\ 2 \in ok
    BY <1>2, <2>2
  <2>3. CASE 1 \notin ok /\ 2 \notin ok /\ 3 \in ok
    BY <1>2, <2>3
  <2>4. CASE 1 \notin ok /\ 2 \notin ok /\ 3 \notin ok
    BY <1>2, <2>4
  <2> QED BY <2>1, <2>2, <2>3, <2>4
<1>4. chosen \in ok
  BY <1>3
<1>5. ModelCropRect(box, scale) = BuildContainingRect(box, sizes[chosen].w, sizes[chosen].h)
  <2>1. FirstOf(sizes, LAMBDA s : BuildContainingRect(box, s.w, s.h) # NoRect) = chosen
    BY <1>2 DEF FirstOf, Accepted
  <2>2. chosen # 0
    BY <1>2, <1>4
  <2> QED BY <2>1, <2>2 DEF ModelCropRect, sizes, Sizes
<1>6. sizes[chosen].w \in Int /\ sizes[chosen].h \in Int
  BY <1>1, <1>2, <1>4 DEF Size
<1>7. BuildContainingRect(box, sizes[chosen].w, sizes[chosen].h) # NoRect
  BY <1>4 DEF Accepted
<1> QED BY <1>5, <1>6, <1>7

\* anti_spoofing.rs:222-325, face_validation.rs:48-103: whatever the scale of a
\* liveness model, a face that passed validation has a rectangle to show it, one
\* that OpenCV can cut out of the frame and that holds the whole face.
THEOREM ValidFaceIsShown ==
  ASSUME NEW row, row.box \in Box, ValidateFace(row), NEW scale \in Nat
  PROVE  /\ ModelCropRect(row.box, scale) # NoRect
         /\ RoiInFrame(CropFace(row.box, scale))
         /\ RoiShows(CropFace(row.box, scale), row.box)
<1>1. InFrame(row.box)
  BY DEF ValidateFace
<1>2. PICK w, h \in Int : /\ ModelCropRect(row.box, scale) = BuildContainingRect(row.box, w, h)
                         /\ BuildContainingRect(row.box, w, h) # NoRect
  BY <1>1, CropIsBuilt
<1>3. /\ RoiInFrame(NormalizeRoi(BuildContainingRect(row.box, w, h)))
      /\ RoiShows(NormalizeRoi(BuildContainingRect(row.box, w, h)), row.box)
  BY <1>2, RectShown
<1> QED BY <1>2, <1>3 DEF CropFace
=============================================================================
