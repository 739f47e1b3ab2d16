------------------------------ MODULE MCCapture ------------------------------
(* Small instances for Capture: a frame of 20 by 16 pixels in tenths, and   *)
(* faces in the middle, in a corner, wide, tiny, too large and cut off.     *)
EXTENDS Capture, TLC

Box(x, y, w, h) == [x |-> x, y |-> y, w |-> w, h |-> h]
Seen(box, confidence, v2, v1se, feature) ==
    [box |-> box, landmarks |-> TRUE, confidence |-> confidence,
     live |-> [MiniFASNetV2 |-> v2, MiniFASNetV1SE |-> v1se], feature |-> feature]

Centre == Box(70, 50, 50, 60)
Corner == Box(150, 110, 50, 50)   \* scaled by 2.7 it ends in half pixels
Wider == Box(40, 60, 110, 22)
Tiny == Box(0, 0, 7, 9)
TooLarge == Box(10, 10, 180, 140)
CutOff == Box(-3, 20, 50, 50)

Mine == <<2, 0>>
Near == <<2, 1>>
Stranger == <<0, 1>>

\* Faces of several shapes against the right and lower edges
Cornered == { << Seen(Box(200 - w, 160 - h, w, h), 95, 90, 40, Near) >> :
                  w \in {7, 31, 63}, h \in {9, 33, 50} }

MCFrames == Cornered \cup {
    << Seen(Corner, 95, 90, 90, Mine) >>,
    << Seen(Wider, 99, 90, 40, Near), Seen(Corner, 95, 90, 90, Mine) >>,
    << Seen(Tiny, 85, 90, 90, Stranger), Seen(CutOff, 99, 90, 90, Mine) >>,
    << Seen(Centre, 95, 10, 20, Mine), Seen(Wider, 95, 90, 90, Stranger) >>,
    << Seen(TooLarge, 97, 90, 90, Mine),
       [Seen(Centre, 96, 90, 90, Mine) EXCEPT !.landmarks = FALSE] >> }

Base == [debug |-> FALSE, view |-> FALSE, frames |-> 3, timeout |-> 0,
         anti_spoof |-> TRUE, mode |-> "Fusion",
         crop_scale |-> [MiniFASNetV2 |-> 27, MiniFASNetV1SE |-> 40],
         candidates |-> << <<1, 1>>, <<3, 0>>, <<1, 0>> >>,
         required |-> 2, consecutive |-> 2, stop_on_valid |-> FALSE]
Tests == ("command" :> "test") @@ Base
Adds == ("command" :> "add") @@ Base

MCSetups == {
    Tests,
    [Tests EXCEPT !.stop_on_valid = TRUE, !.timeout = 1, !.consecutive = 1],
    [Tests EXCEPT !.anti_spoof = FALSE, !.frames = 0, !.view = TRUE, !.required = 0],
    [Tests EXCEPT !.debug = TRUE, !.mode = "MiniFASNetV1SE",
                  !.candidates = << <<1, 1>>, <<-1, 0>> >>],
    [Tests EXCEPT !.frames = 2, !.candidates = << <<1, 0>>, <<1>> >>],
    [Tests EXCEPT !.candidates = <<>>],
    Adds,
    [Adds EXCEPT !.view = TRUE, !.mode = "MiniFASNetV2"],
    [Adds EXCEPT !.debug = TRUE, !.anti_spoof = FALSE],
    [Adds EXCEPT !.frames = 0, !.mode = "MiniFASNetV1SE"] }

MCSimilarity == [n |-> 64, d |-> 100]
=============================================================================
