------------------------------- MODULE Capture -------------------------------
(***************************************************************************)
(* The two commands that hold the camera for themselves: `facepass test`   *)
(* and `facepass add` (facepass-cli/src/commands/test.rs and add.rs).      *)
(*                                                                         *)
(* Both read frames until something ends them: a key, a limit, a fault, or *)
(* enough frames.  test judges each frame and reports a verdict; add keeps *)
(* the most confident face that passed the liveness check and enrols it.   *)
(* A frame is the rows the detector finds in it; a row's box, confidence,  *)
(* liveness scores and feature decide everything else.                     *)
(***************************************************************************)
EXTENDS FaceGeometry, Matching, FiniteSets

CONSTANTS Setups,            \* a command with its flags and configuration
          Frames,            \* what a camera may deliver
          ScoreThreshold,    \* detection.score_threshold, in percent
          Similarity,        \* recognition.similarity_threshold, [n, d] as in Matching
          LivenessThreshold, \* anti_spoof.threshold, in percent
          MaxFrames,         \* bound on the frames of a command without a limit
          None

ASSUME CaptureAssumption ==
    /\ {ScoreThreshold, LivenessThreshold} \subseteq 0..100
    /\ MaxFrames \in Nat \ {0}

Profiles == {"MiniFASNetV2", "MiniFASNetV1SE"}
Row == [box : [x : Int, y : Int, w : Int, h : Int], landmarks : BOOLEAN,
        confidence : Int, live : [Profiles -> Int], feature : Seq(Int)]
Setup == [command : {"test", "add"}, debug : BOOLEAN, view : BOOLEAN, frames : Nat,
          timeout : Nat, anti_spoof : BOOLEAN, mode : Profiles \cup {"Fusion"},
          crop_scale : [Profiles -> Nat], candidates : Seq(Seq(Int)),
          required : Nat, consecutive : Nat, stop_on_valid : BOOLEAN]
Reasons == {"error", "user_stopped", "cancelled", "timeout_reached", "frame_limit_reached",
            "anti_spoof_error", "valid_frame_threshold_reached", "finished"}

ASSUME InputsAssumption ==
    /\ Setups \subseteq Setup /\ Frames \subseteq Seq(Row)
    /\ Similarity \in [n : Int, d : Nat \ {0}]
ASSUME NoneAssumption == None \notin Row /\ None \notin Reasons

MAX_ANTI_SPOOF_ERRORS == 3
FastConfidence == 98

VARIABLES setup,      \* the command
          pc,         \* where its loop is
          detector,   \* a liveness detector is loaded
          rows, face, \* the frame being judged, and the index of its primary face
          allowed,    \* liveness_allowed
          match,      \* what find_best_match returned for it
          stats,      \* TestStats; add uses only its number of frames
          streak,     \* test: consecutive_matches
          best,       \* add: the row whose feature would be saved
          asked,      \* add: capture_requested
          stop,       \* why the loop ended
          saved,      \* add: the row saved
          trace,      \* history: what became of each frame test looked at
          live        \* history: the rows add let past the liveness check

looked == <<rows, face, allowed, match>>
tally == <<stats, streak, trace>>
kept == <<best, asked, saved, live>>
vars == <<setup, pc, detector, rows, face, allowed, match, stats, streak,
          best, asked, stop, saved, trace, live>>

Counters == {"total", "frame_errors", "no_face", "detected", "invalid", "valid",
             "matched", "unmatched", "spoof", "anti_spoof_errors", "max_streak"}

Init ==
    /\ setup \in Setups
    /\ pc = "start" /\ detector = FALSE
    /\ rows = <<>> /\ face = NoFace /\ allowed = TRUE /\ match = None
    /\ stats = [c \in Counters |-> 0] /\ streak = 0
    /\ best = None /\ asked = FALSE /\ stop = None /\ saved = None
    /\ trace = <<>> /\ live = {}

Primary == rows[face]
Add(names) == [c \in Counters |-> IF c \in names THEN stats[c] + 1 ELSE stats[c]]

\* Keys are read in the terminal with --view or --debug, and in the window
\* with --view.
KeysRead == setup.debug \/ setup.view

\* The models of the configured mode, and the scores they give a row
ActiveProfiles ==
    IF setup.mode = "Fusion" THEN Profiles ELSE {setup.mode}

\* check_liveness averages the active models' scores.
FusedPasses ==
    SumFunctionOnSet(Primary.live, ActiveProfiles)
        >= LivenessThreshold * Cardinality(ActiveProfiles)

\* The primary face of each frame, worked out once
PrimaryOf == [f \in Frames |-> SelectPrimaryFace(f)]

-----------------------------------------------------------------------------
(* Ends                                                                     *)

End(reason) == pc' = "done" /\ stop' = reason
Go(label) == pc' = label /\ UNCHANGED stop

\* Everything about a frame is local to one turn of the loop.
Forget_AllButFace == rows' = <<>> /\ allowed' = TRUE /\ match' = None /\ UNCHANGED face
Forget == rows' = <<>> /\ face' = NoFace /\ allowed' = TRUE /\ match' = None

Testing == setup.command = "test"
Adding == setup.command = "add"
GivenUp == IF Testing THEN "user_stopped" ELSE "cancelled"

\* After a frame in which there was nothing to judge; with --view a key in the
\* window may end the command there too.
NextFrame ==
    /\ Forget
    /\ \/ Go("head")
       \/ setup.view /\ End(GivenUp)

-----------------------------------------------------------------------------
(* Startup                                                                  *)

\* Camera, models, data directory: what cannot be opened ends the command.
StartFails ==
    /\ pc = "start" /\ End("error")
    /\ UNCHANGED <<setup, detector, looked, tally, kept>>

\* test must have something to compare with; a detector that does not load is
\* tried again with every frame.
TestStarts ==
    /\ Testing /\ pc = "start" /\ Go("head")
    /\ setup.candidates # <<>>
    /\ \/ setup.anti_spoof /\ detector' = TRUE
       \/ detector' = FALSE
    /\ UNCHANGED <<setup, looked, tally, kept>>

\* add does without a detector only when the configuration says so.
AddStarts ==
    /\ Adding /\ pc = "start" /\ Go("head")
    /\ detector' = setup.anti_spoof
    /\ UNCHANGED <<setup, looked, tally, kept>>

-----------------------------------------------------------------------------
(* test: between frames                                                     *)

TestLimitReached == ~setup.debug /\ setup.frames > 0 /\ stats.total >= setup.frames

TestStops ==
    /\ Testing /\ pc = "head"
    /\ \/ KeysRead /\ End("user_stopped")
       \/ ~setup.debug /\ setup.timeout > 0 /\ End("timeout_reached")
       \/ TestLimitReached /\ End("frame_limit_reached")
    /\ UNCHANGED <<setup, detector, looked, tally, kept>>

TestNextFrame ==
    /\ Testing /\ pc = "head"
    /\ ~TestLimitReached /\ stats.total < MaxFrames
    /\ stats' = Add({"total"})
    /\ Go(IF setup.anti_spoof /\ ~detector /\ stats.anti_spoof_errors < MAX_ANTI_SPOOF_ERRORS
          THEN "restart" ELSE "frame")
    /\ UNCHANGED <<setup, detector, looked, streak, trace, kept>>

Affordable == stats.anti_spoof_errors + 1 < MAX_ANTI_SPOOF_ERRORS

TestRestart ==
    /\ Testing /\ pc = "restart"
    /\ \/ detector' = TRUE /\ Go("frame") /\ UNCHANGED stats
       \/ /\ stats' = Add({"anti_spoof_errors"}) /\ UNCHANGED detector
          /\ IF Affordable THEN Go("frame") ELSE End("anti_spoof_error")
    /\ UNCHANGED <<setup, looked, streak, trace, kept>>

-----------------------------------------------------------------------------
(* test: one frame                                                          *)

Became(fate) == trace' = Append(trace, fate)

TestNoFrame ==
    /\ Testing /\ pc = "frame" /\ Go("head")
    /\ stats' = Add({"frame_errors"}) /\ Became("unread")
    /\ UNCHANGED <<setup, detector, looked, streak, kept>>

\* No rows, or the detector fails; the streak goes on.
TestNoFace ==
    /\ Testing /\ pc = "frame" /\ NextFrame
    /\ stats' = Add({"no_face"}) /\ Became("noface")
    /\ UNCHANGED <<setup, detector, streak, kept>>

TestInvalidFace ==
    /\ Testing /\ pc = "frame" /\ NextFrame
    /\ \E f \in Frames : PrimaryOf[f] = NoFace
    /\ stats' = Add({"detected", "invalid"}) /\ Became("invalid")
    /\ streak' = 0
    /\ UNCHANGED <<setup, detector, kept>>

\* The search for the primary face fails altogether: the frame is in the total
\* and in no other counter, and no key is read.
TestSelectFails ==
    /\ Testing /\ pc = "frame" /\ Go("head")
    /\ Became("failed")
    /\ UNCHANGED <<setup, detector, looked, stats, streak, kept>>

TestFaceFound ==
    /\ Testing /\ pc = "frame" /\ Go("liveness")
    /\ \E f \in Frames : PrimaryOf[f] # NoFace /\ rows' = f /\ face' = PrimaryOf[f]
    /\ stats' = Add({"detected", "valid"})
    /\ UNCHANGED <<setup, detector, allowed, match, streak, trace, kept>>

\* check_liveness validates the row again and cannot find it invalid now: see
\* LivenessSeesTheFace.
TestLivenessPasses ==
    /\ Testing /\ pc = "liveness" /\ Go("judge")
    /\ ~detector \/ FusedPasses
    /\ UNCHANGED <<setup, detector, looked, tally, kept>>

\* A streak does not survive a frame that is refused.
StreakAfterRefusal_Kept == streak
StreakAfterRefusal == 0

TestSpoof ==
    /\ Testing /\ pc = "liveness" /\ Go("judge")
    /\ detector /\ ~FusedPasses
    /\ allowed' = FALSE
    /\ stats' = Add({"spoof"}) /\ Became("spoof")
    /\ streak' = StreakAfterRefusal
    /\ UNCHANGED <<setup, detector, rows, face, match, kept>>

TestLivenessBreaks ==
    /\ Testing /\ pc = "liveness"
    /\ detector /\ detector' = FALSE
    /\ allowed' = FALSE
    /\ stats' = Add({"anti_spoof_errors"}) /\ Became("broken")
    /\ streak' = StreakAfterRefusal
    /\ IF Affordable THEN Go("judge") ELSE End("anti_spoof_error")
    /\ UNCHANGED <<setup, rows, face, match, kept>>

\* Alignment or extraction fails: the command ends without a report.
ExtractFails ==
    /\ pc = "judge" /\ End("error")
    /\ UNCHANGED <<setup, detector, looked, tally, kept>>

\* A refused face is compared too, and counted nowhere.
TestJudge ==
    /\ Testing /\ pc = "judge" /\ Go("view")
    /\ LET comparable == Comparable(Primary.feature, setup.candidates)
           index == FindBestMatch(Primary.feature, setup.candidates)
           passed == PassedThreshold(Primary.feature, setup.candidates[index], Similarity)
       IN  \/ /\ comparable /\ passed /\ allowed
              /\ stats' = [Add({"matched"}) EXCEPT !.max_streak = Max({@, streak + 1})]
              /\ streak' = streak + 1 /\ Became("match")
              /\ match' = [index |-> index, passed |-> TRUE]
           \/ /\ comparable /\ ~passed /\ allowed
              /\ stats' = Add({"unmatched"}) /\ streak' = 0 /\ Became("miss")
              /\ match' = [index |-> index, passed |-> FALSE]
           \/ /\ comparable /\ ~allowed
              /\ match' = [index |-> index, passed |-> passed]
              /\ UNCHANGED tally
           \/ /\ ~comparable
              /\ streak' = 0 /\ UNCHANGED <<stats, match>>
              /\ IF allowed THEN Became("unjudged") ELSE UNCHANGED trace
    /\ UNCHANGED <<setup, detector, rows, face, allowed, kept>>

EnoughValid ==
    /\ setup.stop_on_valid /\ ~setup.debug /\ setup.required > 0
    /\ stats.valid >= setup.required

TestEndOfFrame ==
    /\ Testing /\ pc = "view" /\ Forget
    /\ \/ setup.view /\ End("user_stopped")
       \/ EnoughValid /\ End("valid_frame_threshold_reached")
       \/ ~EnoughValid /\ Go("head")
    /\ UNCHANGED <<setup, detector, tally, kept>>

\* The verdict printed.  With nothing required it is "valid" whatever was seen.
ResultValid ==
    /\ setup.required = 0 \/ stats.valid >= setup.required
    /\ stats.max_streak >= setup.consecutive
    /\ stop # "anti_spoof_error"

-----------------------------------------------------------------------------
(* add                                                                      *)

\* No limit applies when somebody watches.
AddLimitReached ==
    /\ ~setup.debug /\ ~setup.view /\ setup.frames # 0
    /\ stats.total >= setup.frames

AddStops ==
    /\ Adding /\ pc = "head"
    /\ \/ AddLimitReached /\ Go("save")
       \/ ~AddLimitReached /\ KeysRead /\ End("cancelled")
    /\ UNCHANGED <<setup, detector, looked, tally, kept>>

AddNextFrame ==
    /\ Adding /\ pc = "head" /\ Go("frame")
    /\ ~AddLimitReached /\ stats.total < MaxFrames
    /\ stats' = Add({"total"})
    /\ asked' \in {asked, KeysRead \/ asked}
    /\ UNCHANGED <<setup, detector, looked, streak, trace, best, saved, live>>

\* No frame, or one in which the search for the primary face fails altogether
AddNoFrame ==
    /\ Adding /\ pc = "frame" /\ Go("head")
    /\ UNCHANGED <<setup, detector, looked, tally, kept>>

\* No face, or none that is valid
AddNoFace ==
    /\ Adding /\ pc = "frame" /\ NextFrame
    /\ UNCHANGED <<setup, detector, tally, kept>>

AddFaceFound ==
    /\ Adding /\ pc = "frame" /\ Go("liveness")
    /\ \E f \in Frames : PrimaryOf[f] # NoFace /\ rows' = f /\ face' = PrimaryOf[f]
    /\ UNCHANGED <<setup, detector, allowed, match, tally, kept>>

AddLivenessPasses ==
    /\ Adding /\ pc = "liveness" /\ Go("judge")
    /\ ~detector \/ FusedPasses
    /\ live' = live \cup {Primary}
    /\ UNCHANGED <<setup, detector, looked, tally, best, asked, saved>>

\* Nothing is extracted from a refused face.
AddSpoof ==
    /\ Adding /\ pc = "liveness" /\ Go("view")
    /\ detector /\ ~FusedPasses
    /\ allowed' = FALSE
    /\ UNCHANGED <<setup, detector, rows, face, match, tally, kept>>

AddLivenessBreaks ==
    /\ Adding /\ pc = "liveness" /\ detector /\ End("error")
    /\ UNCHANGED <<setup, detector, looked, tally, kept>>

Improves_Latest(row) == row.confidence > ScoreThreshold
Improves(row) ==
    /\ row.confidence > ScoreThreshold
    /\ best = None \/ row.confidence > best.confidence

AddKeep ==
    /\ Adding /\ pc = "judge" /\ Go("view")
    /\ best' = IF Improves(Primary) THEN Primary ELSE best
    /\ UNCHANGED <<setup, detector, looked, tally, asked, saved, live>>

FastCapture ==
    ~setup.view /\ ~setup.debug /\ allowed /\ Primary.confidence > FastConfidence

AddEndOfFrame ==
    /\ Adding /\ pc = "view" /\ Forget
    /\ \/ setup.view /\ End("cancelled")
       \/ best # None /\ (setup.view \/ asked \/ FastCapture) /\ Go("save")
       \/ ~(best # None /\ (asked \/ FastCapture)) /\ Go("head")
    /\ UNCHANGED <<setup, detector, tally, kept>>

\* Without a face, or when it cannot be saved, the command fails.
AddSave ==
    /\ Adding /\ pc = "save"
    /\ \/ best # None /\ saved' = best /\ End("finished")
       \/ UNCHANGED saved /\ End("error")
    /\ UNCHANGED <<setup, detector, looked, tally, best, asked, live>>

-----------------------------------------------------------------------------
Test ==
    \/ TestStarts \/ TestStops \/ TestNextFrame \/ TestRestart
    \/ TestNoFrame \/ TestNoFace \/ TestInvalidFace \/ TestSelectFails \/ TestFaceFound
    \/ TestLivenessPasses \/ TestSpoof \/ TestLivenessBreaks
    \/ TestJudge \/ TestEndOfFrame

AddFace ==
    \/ AddStarts \/ AddStops \/ AddNextFrame
    \/ AddNoFrame \/ AddNoFace \/ AddFaceFound
    \/ AddLivenessPasses \/ AddSpoof \/ AddLivenessBreaks
    \/ AddKeep \/ AddEndOfFrame \/ AddSave

Next == StartFails \/ ExtractFails \/ Test \/ AddFace

Spec == Init /\ [][Next]_vars

-----------------------------------------------------------------------------
(* Properties                                                               *)

TypeOK ==
    /\ setup \in Setups
    /\ pc \in {"start", "head", "restart", "frame", "liveness", "judge", "view", "save", "done"}
    /\ detector \in BOOLEAN /\ allowed \in BOOLEAN /\ asked \in BOOLEAN
    /\ rows \in Frames \cup {<<>>} /\ face \in 0..Len(rows)
    /\ \A c \in Counters : stats[c] \in 0..MaxFrames
    /\ stats.anti_spoof_errors <= MAX_ANTI_SPOOF_ERRORS
    /\ streak \in 0..stats.max_streak
    /\ (stop # None) = (pc = "done")

\* face_validation.rs:10-44, matching.rs:75-142: the face judged is a valid one
\* of the frame, no valid one is more confident and none as confident comes
\* before it; the match reported is the head of the list of all matches when
\* there is any, and otherwise a candidate none is more similar than.
JudgedFaceIsBest ==
    /\ pc \in {"liveness", "judge", "view"} =>
           /\ ValidateFace(Primary)
           /\ \A i \in DOMAIN rows : ValidateFace(rows[i]) =>
                  \/ rows[i].confidence < Primary.confidence
                  \/ rows[i].confidence = Primary.confidence /\ face <= i
    /\ match # None =>
           LET all == FindAllMatches(Primary.feature, setup.candidates, Similarity)
               sims == Similarities(Primary.feature, setup.candidates)
           IN  /\ match.passed = MatchesAny(Primary.feature, setup.candidates, Similarity)
               /\ match.passed => match.index = all[1]
               /\ \A i \in DOMAIN sims : AtLeast(sims[match.index], sims[i])

\* anti_spoofing.rs:80, 222-325: for a face that is valid, every active model is
\* shown a rectangle that lies in the frame and holds the whole face, so the
\* check cannot fail on the crop or call the face invalid.
LivenessSeesTheFace ==
    pc = "liveness" /\ detector =>
        \A profile \in ActiveProfiles :
            LET scale == setup.crop_scale[profile]
            IN  /\ ModelCropRect(Primary.box, scale) # NoRect
                /\ RoiInFrame(CropFace(Primary.box, scale))
                /\ RoiShows(CropFace(Primary.box, scale), Primary.box)

\* add.rs:133-444: what add enrols is a face that passed the liveness check and
\* the score threshold, the most confident one that did up to the end of the
\* capture; and it enrols nothing after a cancel or an error.
SavedFaceIsBest ==
    saved # None =>
        /\ stop = "finished"
        /\ saved \in live /\ saved.confidence > ScoreThreshold
        /\ \A row \in live : row.confidence <= saved.confidence

\* What may become of a frame whose face is valid
Judged == {"match", "miss", "spoof", "broken", "unjudged"}
Fates(kinds) == {i \in DOMAIN trace : trace[i] \in kinds}

\* The most matches in a stretch of frames none of which was judged otherwise or
\* refused; frames with nothing to judge do not count.
Unbroken(i, j) == \A k \in i..j : trace[k] \in {"match", "unread", "noface", "failed"}
MatchesIn(i, j) == Cardinality({k \in i..j : trace[k] = "match"})
LongestRun ==
    LET stretches == {z \in (DOMAIN trace) \X (DOMAIN trace) : Unbroken(z[1], z[2])}
    IN  Max({0} \cup {MatchesIn(z[1], z[2]) : z \in stretches})

\* test.rs:231-662: the report says what happened to the frames: its counters add
\* up to the total but for the frames in which the search for a face failed
\* (test.rs:388), which no line of the report shows; the streak is the longest run
\* of matches with no judged or refused frame in it; and "valid" needs the valid
\* faces and the run asked for.
ReportTellsFrames ==
    Testing /\ pc \in {"head", "done"} /\ stop # "error" =>
        /\ stop = None => stats.total = Len(trace)
        /\ \/ stats.total = stats.frame_errors + stats.no_face + stats.detected
                               + Cardinality(Fates({"failed"}))
           \/ stop = "anti_spoof_error"
        /\ stats.matched = Cardinality(Fates({"match"}))
        /\ stats.valid = Cardinality(Fates(Judged))
        /\ stats.max_streak = LongestRun
        /\ pc = "done" /\ ResultValid =>
               /\ Cardinality(Fates(Judged)) >= setup.required
               /\ LongestRun >= setup.consecutive
               /\ Cardinality(Fates({"broken"})) < MAX_ANTI_SPOOF_ERRORS

-----------------------------------------------------------------------------
(* The inductive invariant                                                  *)

Looking == pc \in {"liveness", "judge", "view"}

\* The frame looked at came from the camera, and its primary face is known.
FrameInv ==
    /\ Looking => rows \in Frames /\ face = PrimaryOf[rows] /\ face # NoFace
    /\ ~allowed => pc \in {"judge", "view", "done"}
    /\ pc = "restart" => ~detector

\* A match is kept no longer than its frame.
MatchInv ==
    /\ Testing /\ pc \notin {"start", "done"} => setup.candidates # <<>>
    /\ match # None =>
           LET query == Primary.feature
               index == FindBestMatch(query, setup.candidates)
           IN  /\ Testing /\ pc = "view" /\ Comparable(query, setup.candidates)
               /\ match = [index |-> index, passed |->
                              PassedThreshold(query, setup.candidates[index], Similarity)]

\* The best face let past the liveness check so far is the one kept, unless it
\* has only just been let past.
SavedInv ==
    /\ live \subseteq Row /\ (Testing => live = {})
    /\ Adding /\ pc = "judge" => Primary \in live
    /\ best # None => best \in live /\ best.confidence > ScoreThreshold
    /\ stop # "error" => \A row \in live :
           \/ row.confidence <= ScoreThreshold
           \/ best # None /\ row.confidence <= best.confidence
           \/ pc = "judge" /\ row = Primary
    /\ saved # None => saved = best /\ stop = "finished"

\* A frame that is not in the counters yet, and one whose face is not judged
Uncounted == IF pc \in {"restart", "frame"} THEN 1 ELSE 0
Unjudged == IF pc = "liveness" \/ (pc = "judge" /\ allowed) THEN 1 ELSE 0

CountInv ==
    Testing =>
        /\ stats.detected = stats.invalid + stats.valid
        /\ stats.matched + stats.unmatched + stats.spoof + Unjudged <= stats.valid
        /\ stats.max_streak <= stats.matched
        /\ \/ stats.frame_errors + stats.no_face + stats.detected + Uncounted <= stats.total
           \/ stop = "anti_spoof_error"
        /\ \/ stats.anti_spoof_errors < stats.total
           \/ stats.anti_spoof_errors = stats.total
                 /\ ~(pc = "restart" \/ (detector /\ pc \in {"frame", "liveness"}))
        /\ stats.anti_spoof_errors < MAX_ANTI_SPOOF_ERRORS \/ stop = "anti_spoof_error"

\* What the counters leave out of the total
MissingInv ==
    Testing =>
        \/ stats.total = stats.frame_errors + stats.no_face + stats.detected
                            + Cardinality(Fates({"failed"})) + Uncounted
        \/ stop = "anti_spoof_error"

\* The counters and the frames themselves
TraceInv ==
    Testing =>
        /\ trace \in Seq(Judged \cup {"unread", "noface", "invalid", "failed"})
        /\ stop = None => stats.total = Len(trace) + Uncounted + Unjudged
        /\ stats.matched = Cardinality(Fates({"match"}))
        /\ stop # "error" => stats.valid = Cardinality(Fates(Judged)) + Unjudged
        /\ Cardinality(Fates({"broken"})) <= stats.anti_spoof_errors

\* max_streak is the longest of all runs, streak the longest that still goes on.
RunInv ==
    Testing =>
        /\ \A i, j \in DOMAIN trace : Unbroken(i, j) => MatchesIn(i, j) <= stats.max_streak
        /\ \/ stats.max_streak = 0
           \/ \E i, j \in DOMAIN trace : Unbroken(i, j) /\ MatchesIn(i, j) = stats.max_streak
        /\ \A i \in DOMAIN trace :
               Unbroken(i, Len(trace)) => MatchesIn(i, Len(trace)) <= streak
        /\ \/ streak = 0
           \/ \E i \in DOMAIN trace :
                  Unbroken(i, Len(trace)) /\ MatchesIn(i, Len(trace)) = streak
        /\ ~allowed => streak = 0

IInv ==
    /\ TypeOK /\ FrameInv /\ MatchInv /\ SavedInv
    /\ CountInv /\ MissingInv /\ TraceInv /\ RunInv
=============================================================================
