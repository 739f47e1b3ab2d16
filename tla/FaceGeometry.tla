----------------------------- MODULE FaceGeometry -----------------------------
(***************************************************************************)
(* Which face of a frame is used, and what is cut out around it            *)
(* (facepass-core/src/face_validation.rs and anti_spoofing.rs).            *)
(*                                                                         *)
(* A row of the detector's output is a box, whether its landmarks are in   *)
(* it, a confidence, and what later steps find in it.  Lengths are whole   *)
(* fractions of a pixel, Unit to the pixel, and scales are in tenths;      *)
(* roots and quotients are rounded down to them.  Rectangles cut out of a  *)
(* frame are in pixels.                                                    *)
(***************************************************************************)
EXTENDS Integers, Sequences, SequencesExt

CONSTANTS FrameW, FrameH,   \* the frame, in pixels
          Unit,             \* units to a pixel
          ValidCropScale,   \* recognition.valid_crop_scale, in tenths
          NoRect            \* InvalidFace

ASSUME FrameAssumption == {FrameW, FrameH, Unit, ValidCropScale} \subseteq Nat \ {0}
ASSUME NoRectAssumption == NoRect \notin [x : Int, y : Int, w : Int, h : Int]

Wide == FrameW * Unit
High == FrameH * Unit

Smaller(a, b) == IF a < b THEN a ELSE b
Larger(a, b) == IF a > b THEN a ELSE b
Clamp(v, lo, hi) == Larger(lo, Smaller(v, hi))
Root(n) == CHOOSE r \in 0..n : r * r <= n /\ n < (r + 1) * (r + 1)

\* f32::round, half away from zero; never called on a negative length
Pixels(v) == (2 * v + Unit) \div (2 * Unit)

-----------------------------------------------------------------------------
(* Windows                                                                  *)

\* Along one axis: a window of a size around a box of a length, in the frame.
LowEnd(from, length, size) == Larger(from + length - size, 0)
HighEnd(from, size, frame) == Smaller(from, frame - size)
WindowFits(from, length, size, frame) ==
    length <= size /\ size <= frame /\ LowEnd(from, length, size) <= HighEnd(from, size, frame)
WindowAt(from, length, size, frame) ==
    Clamp((2 * from + length - size) \div 2,
          LowEnd(from, length, size), HighEnd(from, size, frame))

BuildContainingRect(box, w, h) ==
    IF WindowFits(box.x, box.w, w, Wide) /\ WindowFits(box.y, box.h, h, High)
    THEN [x |-> Pixels(WindowAt(box.x, box.w, w, Wide)),
          y |-> Pixels(WindowAt(box.y, box.h, h, High)),
          w |-> Larger(Pixels(w), 1), h |-> Larger(Pixels(h), 1)]
    ELSE NoRect

\* The first size in a list that the operator accepts, or none
FirstOf(sizes, Accepts(_)) ==
    LET ok == {i \in DOMAIN sizes : Accepts(sizes[i])}
    IN  IF ok = {} THEN 0 ELSE CHOOSE i \in ok : \A j \in ok : i <= j

TargetArea(box, scale) == (box.w * box.h * scale * scale) \div 100

\* A square window of the target area, squeezed to the frame and never smaller
\* than the box; otherwise as wide, then as high, as the frame.
AdaptiveValidCrop(box, scale) ==
    LET area == TargetArea(box, scale)
        WithWidth(w) == [w |-> w, h |-> Larger(area \div w, box.h)]
        WithHeight(h) == [w |-> Larger(area \div h, box.w), h |-> h]
        sizes == << WithWidth(Clamp(Root(area), box.w, Wide)),
                    WithHeight(Clamp(Root(area), box.h, High)),
                    WithWidth(Wide), WithHeight(High) >>
        chosen == FirstOf(sizes, LAMBDA s : s.w <= Wide /\ s.h <= High)
    IN  IF box.w > Wide \/ box.h > High \/ Wide * High < area \/ chosen = 0
        THEN NoRect
        ELSE BuildContainingRect(box, sizes[chosen].w, sizes[chosen].h)

InFrame(box) ==
    /\ box.x >= 0 /\ box.x + box.w <= Wide
    /\ box.y >= 0 /\ box.y + box.h <= High

ValidateFace(row) ==
    /\ Wide > Unit /\ High > Unit
    /\ row.box.w > 0 /\ row.box.h > 0
    /\ InFrame(row.box) /\ row.landmarks
    /\ AdaptiveValidCrop(row.box, ValidCropScale) # NoRect

-----------------------------------------------------------------------------
(* The primary face                                                         *)

NoFace == 0

\* The best so far is kept against a face that is no more confident.
KeepsFace_Newest(best, row) == FALSE
KeepsFace(best, row) == best.confidence >= row.confidence

\* The index of the face used, NoFace when none of the rows is valid
SelectPrimaryFace(rows) ==
    LET Consider(best, i) ==
            IF ~ValidateFace(rows[i]) THEN best
            ELSE IF best # NoFace /\ KeepsFace(rows[best], rows[i]) THEN best
            ELSE i
    IN  FoldLeft(Consider, NoFace, [i \in DOMAIN rows |-> i])

-----------------------------------------------------------------------------
(* What a liveness model is shown                                           *)

\* The box scaled, else squeezed into the frame one way or the other, else all
ModelCropRect(box, scale) ==
    LET w == (box.w * scale) \div 10  h == (box.h * scale) \div 10
        area == TargetArea(box, scale)
        byWidth == Clamp(w, box.w, Wide)
        byHeight == Clamp(h, box.h, High)
        sizes == << [w |-> w, h |-> h],
                    [w |-> byWidth, h |-> Smaller(Larger(area \div byWidth, box.h), High)],
                    [w |-> Smaller(Larger(area \div byHeight, box.w), Wide), h |-> byHeight],
                    [w |-> Larger(Wide, box.w), h |-> Larger(High, box.h)] >>
        chosen == FirstOf(sizes, LAMBDA s : BuildContainingRect(box, s.w, s.h) # NoRect)
    IN  IF chosen = 0 THEN NoRect
        ELSE BuildContainingRect(box, sizes[chosen].w, sizes[chosen].h)

\* Position and size were rounded apart, so their sum may pass the frame's edge.
NormalizeRoi_PositionOnly(rect) ==
    LET x == Clamp(rect.x, 0, FrameW - 1)  y == Clamp(rect.y, 0, FrameH - 1)
    IN  [x |-> x, y |-> y, w |-> rect.w, h |-> rect.h]
NormalizeRoi(rect) ==
    LET x == Clamp(rect.x, 0, FrameW - 1)  y == Clamp(rect.y, 0, FrameH - 1)
    IN  [x |-> x, y |-> y,
         w |-> Larger(Smaller(rect.w, FrameW - x), 1),
         h |-> Larger(Smaller(rect.h, FrameH - y), 1)]

CropFace(box, scale) == NormalizeRoi(ModelCropRect(box, scale))

\* A rectangle OpenCV can cut out of the frame
RoiInFrame(roi) ==
    /\ roi.x >= 0 /\ roi.w >= 1 /\ roi.x + roi.w <= FrameW
    /\ roi.y >= 0 /\ roi.h >= 1 /\ roi.y + roi.h <= FrameH

\* It shows the whole face, give or take the pixel rounding costs on each side.
RoiShows(roi, box) ==
    /\ (roi.x - 1) * Unit <= box.x /\ box.x + box.w <= (roi.x + roi.w + 1) * Unit
    /\ (roi.y - 1) * Unit <= box.y /\ box.y + box.h <= (roi.y + roi.h + 1) * Unit
=============================================================================
