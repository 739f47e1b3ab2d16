----------------------------- MODULE Recognition -----------------------------
(***************************************************************************)
(* authenticate_sync (facepass-daemon/src/auth.rs): one authentication     *)
(* session, from the checks before the camera is opened to the answer.     *)
(* A frame goes through the stages head, read, gate, detect, live, match;  *)
(* what the camera, the models and the stored faces make of it is chosen   *)
(* afresh at each stage.  Two things happen behind the loop's back at any  *)
(* moment: the clock passes the request's timeout, and a cancel request    *)
(* raises the session's flag.                                              *)
(*                                                                         *)
(* The configuration is a snapshot taken before the session starts, so it  *)
(* is chosen once, from Configs.  The counters are u32 and are only        *)
(* compared with configured values; they stop at CountCap, which no        *)
(* configured value exceeds, so no comparison is affected.                 *)
(***************************************************************************)
EXTENDS Naturals

CONSTANTS Configs,       \* the configurations and request timeouts considered
          CountCap       \* bound: where the counters stop

MAX_ANTI_SPOOF_ERRORS == 3

\* The fields of Config that decide the loop; video_timeout is the
\* configuration's [video] timeout, timeout the one the request carries.
ConfigType ==
    [max_frames : 0..CountCap, valid_frames : 0..CountCap,
     consecutive_match_frames : 0..CountCap, stop_on_valid_frames : BOOLEAN,
     anti_spoof : BOOLEAN, video_timeout : Nat, timeout : Nat]

ASSUME CountCapAssumption == CountCap \in Nat \ {0}
ASSUME ConfigsAssumption == Configs \subseteq ConfigType

VARIABLES cfg,           \* the snapshot and the request
          cancelled,     \* the session's cancel_flag
          expired,       \* start_time.elapsed() has reached timeout_duration
          pc,            \* the stage of the frame being processed
          outcome,       \* the answer, "pending" until there is one
          detector,      \* anti_spoof.is_some()
          anti_spoof_errors,
          frame_count, valid_frame_count,
          consecutive_matches, max_consecutive_matches,
          best,          \* best_match_info.is_some()
          matches,       \* history: frames that matched
          unchecked,     \* history: matches with no liveness check, though enabled
          late,          \* history: the current frame was read after the flag rose
          unbroken,      \* history: matches on the latest frames, none between
          longest        \* history: the largest value unbroken has had

counters == <<frame_count, valid_frame_count>>
tally    == <<consecutive_matches, max_consecutive_matches, best>>
spoof    == <<detector, anti_spoof_errors>>
history  == <<matches, unchecked, longest>>
env      == <<cfg, cancelled, expired>>
vars == <<cfg, cancelled, expired, pc, outcome, detector, anti_spoof_errors,
          frame_count, valid_frame_count, consecutive_matches,
          max_consecutive_matches, best, matches, unchecked, late, unbroken, longest>>

Stages   == {"head", "read", "gate", "detect", "live", "match"}
Judging  == {"gate", "detect", "live", "match"}
Outcomes == {"pending", "success", "failure", "no_face_data", "interrupted", "spoof_error"}
Count    == 0..CountCap

TypeOK ==
    /\ cfg \in Configs
    /\ cancelled \in BOOLEAN /\ expired \in BOOLEAN
    /\ pc \in Stages \cup {"setup", "done"}
    /\ outcome \in Outcomes
    /\ detector \in BOOLEAN
    /\ anti_spoof_errors \in 0..MAX_ANTI_SPOOF_ERRORS
    /\ frame_count \in Count /\ valid_frame_count \in Count
    /\ consecutive_matches \in Count /\ max_consecutive_matches \in Count
    /\ best \in BOOLEAN
    /\ matches \in Count /\ unchecked \in 0..MAX_ANTI_SPOOF_ERRORS
    /\ late \in BOOLEAN
    /\ unbroken \in Count /\ longest \in Count

Init ==
    /\ cfg \in Configs
    /\ cancelled = FALSE /\ expired = FALSE
    /\ pc = "setup" /\ outcome = "pending"
    /\ detector = FALSE /\ anti_spoof_errors = 0
    /\ frame_count = 0 /\ valid_frame_count = 0
    /\ consecutive_matches = 0 /\ max_consecutive_matches = 0
    /\ best = FALSE
    /\ matches = 0 /\ unchecked = 0 /\ late = FALSE
    /\ unbroken = 0 /\ longest = 0

Bump(n) == IF n < CountCap THEN n + 1 ELSE n
Larger(m, n) == IF m < n THEN n ELSE m

Goto(from, to) == pc = from /\ pc' = to

Answer(result) == pc' = "done" /\ outcome' = result

\* Leave the current frame with `continue`.
Continue(from) == Goto(from, "head") /\ UNCHANGED outcome

-----------------------------------------------------------------------------
(* The tests the loop turns on, each after a faulty variant for mutation   *)
(* checks                                                                  *)

StopOnValid == cfg.stop_on_valid_frames /\ cfg.valid_frames > 0

\* The `while` condition
LoopCondition_NoFrameLimit == cfg.timeout > 0 => ~expired
LoopCondition ==
    /\ cfg.timeout > 0 => ~expired
    /\ cfg.max_frames > 0 => frame_count < cfg.max_frames

EnoughValid_Unchecked == TRUE
EnoughValid == cfg.valid_frames > 0 => valid_frame_count >= cfg.valid_frames

\* The verdict, in the loop and after it
Verdict ==
    IF /\ EnoughValid
       /\ max_consecutive_matches >= cfg.consecutive_match_frames
       /\ best
    THEN "success" ELSE "failure"

\* The flag is tested before the frame is counted and again once it is read.
CancelSeenAtHead_Never == FALSE
CancelSeenAtHead == cancelled
CancelSeenAfterRead_Never == FALSE
CancelSeenAfterRead == cancelled

ErrorsAfterFailure_NotCounted == anti_spoof_errors
ErrorsAfterFailure == anti_spoof_errors + 1

-----------------------------------------------------------------------------
(* Before the loop                                                         *)

\* Security check, storage, default group, faces, camera, detector,
\* recognizer: the first that fails gives the answer.
SetupFails ==
    /\ pc = "setup"
    /\ Answer("failure") \/ Answer("no_face_data")
    /\ UNCHANGED <<env, spoof, counters, tally, history, late, unbroken>>

\* A liveness detector that cannot be built is left out for now, uncounted.
SetupSucceeds ==
    /\ Goto("setup", "head")
    /\ detector' \in {FALSE, cfg.anti_spoof}
    /\ UNCHANGED <<env, outcome, anti_spoof_errors, counters, tally,
                   history, late, unbroken>>

-----------------------------------------------------------------------------
(* One turn of the loop                                                    *)

LoopEnds ==
    /\ pc = "head" /\ ~LoopCondition
    /\ Answer(Verdict)
    /\ UNCHANGED <<env, spoof, counters, tally, history, late, unbroken>>

CancelledAtHead ==
    /\ pc = "head" /\ LoopCondition /\ CancelSeenAtHead
    /\ Answer("interrupted")
    /\ UNCHANGED <<env, spoof, counters, tally, history, late, unbroken>>

StartFrame ==
    /\ LoopCondition /\ ~CancelSeenAtHead
    /\ Goto("head", "read")
    /\ frame_count' = Bump(frame_count)
    /\ UNCHANGED <<env, outcome, valid_frame_count, spoof, tally, history, late, unbroken>>

\* A frame that cannot be read leaves the streak as it was.
ReadFails ==
    /\ Continue("read")
    /\ unbroken' = 0
    /\ UNCHANGED <<env, spoof, counters, tally, history, late>>

ReadFrame ==
    /\ pc = "read"
    /\ late' = cancelled
    /\ \/ CancelSeenAfterRead /\ Answer("interrupted")
       \/ ~CancelSeenAfterRead /\ pc' = "gate" /\ UNCHANGED outcome
    /\ UNCHANGED <<env, spoof, counters, tally, history, unbroken>>

MustRestart == cfg.anti_spoof /\ ~detector /\ anti_spoof_errors < MAX_ANTI_SPOOF_ERRORS

RestartNotNeeded ==
    /\ ~MustRestart
    /\ Goto("gate", "detect")
    /\ UNCHANGED <<env, outcome, spoof, counters, tally, history, late, unbroken>>

RestartSucceeds ==
    /\ MustRestart
    /\ Goto("gate", "detect")
    /\ detector' = TRUE
    /\ UNCHANGED <<env, outcome, anti_spoof_errors, counters, tally,
                   history, late, unbroken>>

\* Below the limit the frame goes on without a detector.
RestartFails ==
    /\ MustRestart
    /\ pc = "gate"
    /\ anti_spoof_errors' = ErrorsAfterFailure
    /\ IF anti_spoof_errors' >= MAX_ANTI_SPOOF_ERRORS
       THEN Answer("spoof_error")
       ELSE pc' = "detect" /\ UNCHANGED outcome
    /\ UNCHANGED <<env, detector, counters, tally, history, late, unbroken>>

\* Detection fails, finds nothing, or no face passes select_primary_face.
NoFace ==
    /\ Continue("detect")
    /\ consecutive_matches' = 0
    /\ unbroken' = 0
    /\ UNCHANGED <<env, spoof, counters, max_consecutive_matches, best, history, late>>

FaceFound ==
    /\ Goto("detect", IF detector THEN "live" ELSE "match")
    /\ valid_frame_count' = Bump(valid_frame_count)
    /\ UNCHANGED <<env, outcome, frame_count, spoof, tally, history, late, unbroken>>

LivenessPasses ==
    /\ Goto("live", "match")
    /\ UNCHANGED <<env, outcome, spoof, counters, tally, history, late, unbroken>>

\* A score below the threshold, or a face without a valid crop
LivenessRefuses ==
    /\ Continue("live")
    /\ consecutive_matches' = 0
    /\ unbroken' = 0
    /\ UNCHANGED <<env, spoof, counters, max_consecutive_matches, best, history, late>>

\* The detector itself fails: it is dropped and the failure counted.
LivenessBreaks ==
    /\ pc = "live"
    /\ anti_spoof_errors' = ErrorsAfterFailure
    /\ detector' = FALSE
    /\ unbroken' = 0
    /\ IF anti_spoof_errors' >= MAX_ANTI_SPOOF_ERRORS
       THEN Answer("spoof_error") /\ UNCHANGED consecutive_matches
       ELSE pc' = "head" /\ UNCHANGED outcome /\ consecutive_matches' = 0
    /\ UNCHANGED <<env, counters, max_consecutive_matches, best, history, late>>

\* Alignment, feature extraction or conversion fails: no reset here either.
NoFeature ==
    /\ Continue("match")
    /\ unbroken' = 0
    /\ UNCHANGED <<env, spoof, counters, tally, history, late>>

Hit ==
    /\ consecutive_matches' = Bump(consecutive_matches)
    /\ max_consecutive_matches' = Larger(max_consecutive_matches, consecutive_matches')
    /\ best' = TRUE
    /\ matches' = Bump(matches)
    /\ unchecked' = IF cfg.anti_spoof /\ ~detector THEN unchecked + 1 ELSE unchecked
    /\ unbroken' = Bump(unbroken)
    /\ longest' = Larger(longest, unbroken')

Miss ==
    /\ consecutive_matches' = 0
    /\ unbroken' = 0
    /\ UNCHANGED <<max_consecutive_matches, best, history>>

\* find_best_match, then the early stop on the number of valid frames
MatchFrame ==
    /\ pc = "match"
    /\ Hit \/ Miss
    /\ UNCHANGED <<env, spoof, counters, late>>
    /\ IF StopOnValid /\ valid_frame_count >= cfg.valid_frames
       THEN Answer(Verdict')
       ELSE pc' = "head" /\ UNCHANGED outcome

-----------------------------------------------------------------------------
(* Behind the loop's back                                                  *)

Expire ==
    /\ cfg.timeout > 0 /\ pc \in Stages /\ ~expired
    /\ expired' = TRUE
    /\ UNCHANGED <<cfg, cancelled, pc, outcome, spoof, counters, tally,
                   history, late, unbroken>>

\* AuthControl!CancelLookup finds this session in the map.
RequestCancel ==
    /\ pc # "done" /\ ~cancelled
    /\ cancelled' = TRUE
    /\ UNCHANGED <<cfg, expired, pc, outcome, spoof, counters, tally,
                   history, late, unbroken>>

Step ==
    \/ SetupFails \/ SetupSucceeds
    \/ LoopEnds \/ CancelledAtHead \/ StartFrame
    \/ ReadFails \/ ReadFrame
    \/ RestartNotNeeded \/ RestartSucceeds \/ RestartFails
    \/ NoFace \/ FaceFound
    \/ LivenessPasses \/ LivenessRefuses \/ LivenessBreaks
    \/ NoFeature \/ MatchFrame

Next == Step \/ Expire \/ RequestCancel

Spec == Init /\ [][Next]_vars

\* The blocking thread keeps running and every camera and model call returns;
\* time passes.  Nothing obliges anyone to cancel.
FairSpec == Spec /\ WF_vars(Step) /\ WF_vars(Expire)

-----------------------------------------------------------------------------
(* Properties                                                              *)

\* auth.rs:285-310: whichever exit it leaves by, a session succeeds only with
\* as many matched frames as the configuration asks for, at least one even
\* when it asks for none, and with the required number of valid frames.
SuccessIsEarned ==
    outcome = "success" =>
        /\ matches >= Larger(cfg.consecutive_match_frames, 1)
        /\ valid_frame_count >= cfg.valid_frames

\* auth.rs:102-115, 163-183, 226-238: while the liveness detector is broken a
\* frame may be matched without it, and each such frame costs one of the
\* errors the session can afford, whatever mix of restart and check failures
\* produced them.
UncheckedMatchesBounded ==
    /\ unchecked < MAX_ANTI_SPOOF_ERRORS
    /\ outcome = "success" => anti_spoof_errors < MAX_ANTI_SPOOF_ERRORS

\* auth.rs:147, 159: a frame read after the cancel flag rose is never judged,
\* so it cannot contribute to the answer.
NoFrameAfterCancel == late => pc = "done" /\ outcome = "interrupted"

\* auth.rs:144-145, 208: the counters bound one another, and the frame limit
\* bounds them all, on every path through the frame.
CountsNested ==
    /\ consecutive_matches <= max_consecutive_matches
    /\ max_consecutive_matches <= matches
    /\ matches <= valid_frame_count
    /\ valid_frame_count <= frame_count
    /\ cfg.max_frames > 0 => frame_count <= cfg.max_frames

-----------------------------------------------------------------------------
(* The inductive invariant                                                 *)

\* Until there is an answer the session can afford another error.
AnswerEndsIt ==
    /\ pc # "done" => outcome = "pending" /\ anti_spoof_errors < MAX_ANTI_SPOOF_ERRORS
    /\ outcome = "success" => anti_spoof_errors < MAX_ANTI_SPOOF_ERRORS

\* A frame on its way to be matched without a liveness check has already been
\* paid for with an error.
Owed == IF cfg.anti_spoof /\ ~detector /\ pc \in {"detect", "match"} THEN 1 ELSE 0
UncheckedPaidFor ==
    /\ unchecked + Owed <= anti_spoof_errors
    /\ unchecked < MAX_ANTI_SPOOF_ERRORS
    /\ pc = "live" => detector

\* Within a frame the inner counters are still one short of the outer ones.
CountsInStep ==
    /\ CountsNested
    /\ pc \in {"read", "gate", "detect"} => Bump(valid_frame_count) <= frame_count
    /\ pc \in {"live", "match"} => Bump(matches) <= valid_frame_count

BestMeansMatch == best => matches >= 1

IInv ==
    /\ TypeOK
    /\ AnswerEndsIt
    /\ UncheckedPaidFor
    /\ NoFrameAfterCancel
    /\ CountsInStep
    /\ BestMeansMatch
    /\ SuccessIsEarned

\* config.rs:472 documents consecutive_match_frames as "Required consecutive
\* matched frames".  The code lets frames it could not read, or extract no
\* feature from, pass without ending the streak.
StreakIsConsecutive == outcome = "success" => longest >= cfg.consecutive_match_frames

-----------------------------------------------------------------------------
(* Liveness                                                                *)

\* auth.rs:144-145: a session with a time or frame limit ends.
LimitedSessionEnds == (cfg.timeout > 0 \/ cfg.max_frames > 0) ~> pc = "done"

\* auth.rs:147-161: a session told to stop ends, with or without a limit.
CancelledSessionEnds == cancelled ~> pc = "done"

\* config.rs:982-988 refuses a configuration without "a valid termination
\* condition", and config.rs:372 calls video.timeout the authentication
\* timeout.  The loop consults the request's timeout instead, and valid_frames
\* ends it only with stop_on_valid_frames and a face that is matched.
Validated ==
    /\ cfg.max_frames # 0 /\ cfg.valid_frames # 0 => cfg.max_frames >= cfg.valid_frames
    /\ cfg.valid_frames # 0 => cfg.consecutive_match_frames <= cfg.valid_frames
    /\ cfg.max_frames # 0 \/ cfg.valid_frames # 0 \/ cfg.video_timeout # 0
ValidatedSessionEnds == Validated ~> pc = "done"
=============================================================================
