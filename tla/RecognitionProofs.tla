-------------------------- MODULE RecognitionProofs --------------------------
(***************************************************************************)
(* Proofs about Recognition, for any set of configurations and any         *)
(* CountCap they fit under.  IInv is inductive: each lemma below shows     *)
(* that one of its conjuncts survives a step of the loop, and the two      *)
(* steps taken behind the loop's back are handled once for all.            *)
(***************************************************************************)
EXTENDS Recognition, TLAPS

\* Saturating increments and maxima stay in range and keep their order.
LEMMA BumpFacts ==
  \A m \in Count : /\ Bump(m) \in Count
                   /\ m <= Bump(m) /\ 1 <= Bump(m)
                   /\ \A n \in Count : m <= n => Bump(m) <= Bump(n)
                   /\ \A n \in Count : m < n => Bump(m) <= n
  BY CountCapAssumption DEF Count, Bump

LEMMA LargerFacts ==
  \A m, n \in Count : /\ Larger(m, n) \in Count
                      /\ m <= Larger(m, n) /\ n <= Larger(m, n)
                      /\ \A k \in Count : m <= k /\ n <= k => Larger(m, n) <= k
  BY CountCapAssumption DEF Count, Larger

\* The configured numbers are below the cap.
LEMMA CfgFacts ==
  ASSUME NEW c \in Configs
  PROVE  /\ c.max_frames \in Count /\ c.valid_frames \in Count
         /\ c.consecutive_match_frames \in Count /\ c.timeout \in Nat
         /\ c.anti_spoof \in BOOLEAN
  BY ConfigsAssumption DEF ConfigType, Count

LEMMA InitIInv == Init => IInv
<1> SUFFICES ASSUME Init PROVE IInv
  OBVIOUS
<1>1. cfg \in Configs /\ 0 \in Count /\ cfg.max_frames \in Nat
  BY CfgFacts, CountCapAssumption DEF Init, Count
<1>2. TypeOK
  <2>1. /\ cancelled \in BOOLEAN /\ expired \in BOOLEAN /\ detector \in BOOLEAN
        /\ best \in BOOLEAN /\ late \in BOOLEAN /\ cfg \in Configs
        /\ pc \in Stages \cup {"setup", "done"} /\ outcome \in Outcomes
    BY DEF Init, Outcomes
  <2>2. anti_spoof_errors \in 0..3 /\ unchecked \in 0..3
    BY DEF Init
  <2> QED BY <1>1, <2>1, <2>2 DEF Init, TypeOK, MAX_ANTI_SPOOF_ERRORS
<1>3. AnswerEndsIt /\ UncheckedPaidFor
  BY DEF Init, AnswerEndsIt, UncheckedPaidFor, Owed, MAX_ANTI_SPOOF_ERRORS
<1>4. NoFrameAfterCancel /\ BestMeansMatch /\ SuccessIsEarned
  BY DEF Init, NoFrameAfterCancel, BestMeansMatch, SuccessIsEarned
<1>5. CountsInStep
  BY <1>1 DEF Init, CountsInStep, CountsNested
<1> QED BY <1>2, <1>3, <1>4, <1>5 DEF IInv

-----------------------------------------------------------------------------
(* A step of the loop                                                      *)

LEMMA StepAnswer == IInv /\ Step => AnswerEndsIt'
<1> SUFFICES ASSUME IInv, Step PROVE AnswerEndsIt'
  OBVIOUS
<1> USE DEF IInv, TypeOK, AnswerEndsIt, MAX_ANTI_SPOOF_ERRORS, Goto, Answer, Continue,
            ErrorsAfterFailure, spoof, env, counters, tally, history
<1>1. pc # "done" /\ outcome = "pending" /\ anti_spoof_errors < 3
  BY DEF Step, SetupFails, SetupSucceeds, LoopEnds, CancelledAtHead, StartFrame,
         ReadFails, ReadFrame, RestartNotNeeded, RestartSucceeds, RestartFails,
         NoFace, FaceFound, LivenessPasses, LivenessRefuses, LivenessBreaks,
         NoFeature, MatchFrame
<1>2. CASE UNCHANGED anti_spoof_errors
  <2>1. outcome' = outcome \/ pc' = "done"
    BY DEF Step, SetupFails, SetupSucceeds, LoopEnds, CancelledAtHead, StartFrame,
           ReadFails, ReadFrame, RestartNotNeeded, RestartSucceeds, RestartFails,
           NoFace, FaceFound, LivenessPasses, LivenessRefuses, LivenessBreaks,
           NoFeature, MatchFrame
  <2> QED BY <1>1, <1>2, <2>1
<1>3. CASE RestartFails
  BY <1>1, <1>3 DEF RestartFails
<1>4. CASE LivenessBreaks
  BY <1>1, <1>4 DEF LivenessBreaks
<1> QED BY <1>2, <1>3, <1>4
        DEF Step, SetupFails, SetupSucceeds, LoopEnds, CancelledAtHead, StartFrame,
            ReadFails, ReadFrame, RestartNotNeeded, RestartSucceeds, NoFace, FaceFound,
            LivenessPasses, LivenessRefuses, NoFeature, MatchFrame

\* Only a failed restart lets a frame through without a detector, and it adds
\* the error that pays for it; only a match spends it.
LEMMA StepUnchecked == IInv /\ Step => UncheckedPaidFor'
<1> SUFFICES ASSUME IInv, Step PROVE UncheckedPaidFor'
  OBVIOUS
<1> USE DEF IInv, TypeOK, UncheckedPaidFor, Owed, MAX_ANTI_SPOOF_ERRORS, Goto, Answer,
            Continue, ErrorsAfterFailure, spoof, env, counters, tally, history
<1>1. CASE RestartNotNeeded \/ RestartSucceeds \/ RestartFails
  BY <1>1 DEF RestartNotNeeded, RestartSucceeds, RestartFails, MustRestart, AnswerEndsIt
<1>2. CASE FaceFound \/ LivenessPasses \/ LivenessRefuses \/ LivenessBreaks
  BY <1>2 DEF FaceFound, LivenessPasses, LivenessRefuses, LivenessBreaks
<1>3. CASE MatchFrame
  <2>1. pc = "match" /\ anti_spoof_errors < 3 /\ pc' \notin {"detect", "live", "match"}
    BY <1>3 DEF MatchFrame, AnswerEndsIt
  <2>2. UNCHANGED <<cfg, detector, anti_spoof_errors>>
    BY <1>3 DEF MatchFrame
  <2>3. unchecked' = unchecked + Owed \/ unchecked' = unchecked
    BY <1>3, <2>1 DEF MatchFrame, Hit, Miss
  <2> QED BY <2>1, <2>2, <2>3
<1>4. CASE SetupFails \/ SetupSucceeds \/ LoopEnds \/ CancelledAtHead \/ StartFrame
  BY <1>4 DEF SetupFails, SetupSucceeds, LoopEnds, CancelledAtHead, StartFrame
<1>5. CASE ReadFails \/ ReadFrame \/ NoFace \/ NoFeature
  BY <1>5 DEF ReadFails, ReadFrame, NoFace, NoFeature
<1> QED BY <1>1, <1>2, <1>3, <1>4, <1>5 DEF Step

LEMMA StepTypes == IInv /\ Step => TypeOK'
<1> SUFFICES ASSUME IInv, Step PROVE TypeOK'
  OBVIOUS
<1>1. /\ AnswerEndsIt' /\ UncheckedPaidFor'
      /\ pc # "done"
  BY StepAnswer, StepUnchecked
     DEF Step, SetupFails, SetupSucceeds,
         LoopEnds, CancelledAtHead, StartFrame, ReadFails, ReadFrame, RestartNotNeeded,
         RestartSucceeds, RestartFails, NoFace, FaceFound, LivenessPasses, LivenessRefuses,
         LivenessBreaks, NoFeature, MatchFrame, Goto, Continue
<1>0. anti_spoof_errors \in 0..2
  BY <1>1 DEF IInv, TypeOK, AnswerEndsIt, MAX_ANTI_SPOOF_ERRORS
<1> USE BumpFacts, LargerFacts, CountCapAssumption
    DEF IInv, TypeOK, Outcomes, Stages, MAX_ANTI_SPOOF_ERRORS, Goto, Answer, Continue,
        ErrorsAfterFailure, spoof, env, counters, tally, history
<1>2. 0 \in Count
  BY DEF Count
<1>3. CASE RestartNotNeeded \/ RestartSucceeds
  BY <1>3 DEF RestartNotNeeded, RestartSucceeds
<1>9. CASE RestartFails
  BY <1>0, <1>9 DEF RestartFails
<1>4. CASE FaceFound \/ LivenessPasses \/ LivenessRefuses
  BY <1>2, <1>4 DEF FaceFound, LivenessPasses, LivenessRefuses
<1>10. CASE LivenessBreaks
  <2>1. anti_spoof_errors' \in 0..3
    BY <1>0, <1>10 DEF LivenessBreaks
  <2>2. /\ pc' \in {"head", "done"} /\ outcome' \in {outcome, "spoof_error"}
        /\ consecutive_matches' \in {consecutive_matches, 0}
        /\ detector' = FALSE /\ unbroken' = 0
    BY <1>10 DEF LivenessBreaks
  <2>3. UNCHANGED <<env, counters, max_consecutive_matches, best, history, late>>
    BY <1>10 DEF LivenessBreaks
  <2> QED BY <1>2, <2>1, <2>2, <2>3
<1>5. CASE MatchFrame
  <2>1. unchecked' \in 0..3
    BY <1>0, <1>5 DEF MatchFrame, Hit, Miss, UncheckedPaidFor, Owed
  <2>2. CASE Hit
    BY <1>5, <2>1, <2>2 DEF MatchFrame, Hit, Verdict
  <2>3. CASE Miss
    BY <1>2, <1>5, <2>1, <2>3 DEF MatchFrame, Miss, Verdict
  <2> QED BY <1>5, <2>2, <2>3 DEF MatchFrame
<1>6. CASE SetupFails \/ SetupSucceeds \/ CancelledAtHead \/ StartFrame
  BY <1>6, CfgFacts DEF SetupFails, SetupSucceeds, CancelledAtHead, StartFrame
<1>7. CASE LoopEnds
  BY <1>7 DEF LoopEnds, Verdict
<1>8. CASE ReadFails \/ ReadFrame \/ NoFace \/ NoFeature
  BY <1>2, <1>8 DEF ReadFails, ReadFrame, NoFace, NoFeature
<1> QED BY <1>3, <1>4, <1>5, <1>6, <1>7, <1>8, <1>9, <1>10 DEF Step

\* Only ReadFrame sets `late`, and then the second test of the flag answers.
LEMMA StepLate == IInv /\ Step => NoFrameAfterCancel'
<1> SUFFICES ASSUME IInv, Step PROVE NoFrameAfterCancel'
  OBVIOUS
<1> USE DEF IInv, NoFrameAfterCancel, Goto, Answer, Continue
<1>1. CASE ReadFrame
  BY <1>1 DEF ReadFrame, CancelSeenAfterRead
<1>2. CASE ~ReadFrame
  <2>1. late' = late /\ pc # "done"
    BY <1>2 DEF Step, SetupFails, SetupSucceeds, LoopEnds, CancelledAtHead, StartFrame,
         ReadFails, RestartNotNeeded, RestartSucceeds, RestartFails, NoFace, FaceFound,
         LivenessPasses, LivenessRefuses, LivenessBreaks, NoFeature, MatchFrame
  <2> QED BY <2>1
<1> QED BY <1>1, <1>2

LEMMA StepCounts == IInv /\ Step => CountsInStep'
<1> SUFFICES ASSUME IInv, Step PROVE CountsInStep'
  OBVIOUS
<1> USE BumpFacts, LargerFacts, CfgFacts
    DEF IInv, TypeOK, CountsInStep, CountsNested, Goto, Answer, Continue,
        spoof, env, counters, tally, history
<1>1. /\ frame_count \in Nat /\ valid_frame_count \in Nat /\ matches \in Nat
      /\ max_consecutive_matches \in Nat /\ cfg.max_frames \in Nat
  BY CountCapAssumption DEF Count
<1>2. CASE StartFrame
  <2>1. frame_count' = Bump(frame_count) /\ pc' = "read"
    BY <1>2 DEF StartFrame
  <2>2. cfg.max_frames > 0 => frame_count' <= cfg.max_frames
    BY <1>1, <1>2, <2>1 DEF StartFrame, LoopCondition
  <2>3. /\ frame_count \in Count /\ valid_frame_count \in Count
        /\ frame_count <= frame_count' /\ frame_count' \in Nat
        /\ Bump(valid_frame_count) <= frame_count'
    BY <2>1, CountCapAssumption DEF Count
  <2>4. UNCHANGED <<cfg, valid_frame_count, consecutive_matches,
                    max_consecutive_matches, matches>>
    BY <1>2 DEF StartFrame
  <2> QED BY <1>1, <2>1, <2>2, <2>3, <2>4
<1>3. CASE FaceFound
  <2>1. valid_frame_count' = Bump(valid_frame_count) /\ pc' \in {"live", "match"}
    BY <1>3 DEF FaceFound
  <2>2. /\ valid_frame_count' <= frame_count /\ valid_frame_count' \in Nat
        /\ valid_frame_count <= valid_frame_count'
        /\ Bump(matches) <= valid_frame_count'
    BY <1>3, <2>1, CountCapAssumption DEF Count, FaceFound
  <2>3. UNCHANGED <<cfg, frame_count, consecutive_matches,
                    max_consecutive_matches, matches>>
    BY <1>3 DEF FaceFound
  <2> QED BY <1>1, <2>1, <2>2, <2>3
<1>4. CASE MatchFrame
  <2>1. CASE Hit
    <3>1. consecutive_matches' \in Count /\ matches' \in Count
      BY <2>1 DEF Hit
    <3>2. consecutive_matches' <= matches' /\ max_consecutive_matches <= matches'
      <4>1. consecutive_matches <= matches
        BY <1>1, CountCapAssumption DEF Count
      <4>2. matches <= matches' /\ matches' \in Nat
        BY <2>1, CountCapAssumption DEF Hit, Count
      <4> QED BY <1>1, <2>1, <4>1, <4>2 DEF Hit
    <3>3. /\ max_consecutive_matches' <= matches'
          /\ consecutive_matches' <= max_consecutive_matches'
      BY <2>1, <3>1, <3>2 DEF Hit
    <3>4. matches' <= valid_frame_count
      BY <1>4, <2>1 DEF MatchFrame, Hit
    <3> QED BY <1>4, <3>3, <3>4 DEF MatchFrame
  <2>2. CASE Miss
    BY <1>1, <1>4, <2>2 DEF MatchFrame, Miss
  <2> QED BY <1>4, <2>1, <2>2 DEF MatchFrame
<1>5. CASE LivenessPasses \/ LivenessRefuses \/ LivenessBreaks \/ NoFace
  BY <1>1, <1>5 DEF LivenessPasses, LivenessRefuses, LivenessBreaks, NoFace
<1>6. CASE RestartNotNeeded \/ RestartSucceeds \/ RestartFails
  BY <1>1, <1>6 DEF RestartNotNeeded, RestartSucceeds, RestartFails
<1>7. CASE SetupFails \/ SetupSucceeds \/ LoopEnds \/ CancelledAtHead
  BY <1>1, <1>7 DEF SetupFails, SetupSucceeds, LoopEnds, CancelledAtHead
<1>8. CASE ReadFails \/ ReadFrame \/ NoFeature
  BY <1>1, <1>8 DEF ReadFails, ReadFrame, NoFeature
<1> QED BY <1>2, <1>3, <1>4, <1>5, <1>6, <1>7, <1>8 DEF Step

LEMMA StepBest == IInv /\ Step => BestMeansMatch'
<1> SUFFICES ASSUME IInv, Step PROVE BestMeansMatch'
  OBVIOUS
<1> USE DEF IInv, TypeOK, BestMeansMatch
<1>1. CASE MatchFrame
  BY <1>1, BumpFacts DEF MatchFrame, Hit, Miss, history
<1>2. CASE ~MatchFrame
  <2>1. UNCHANGED <<best, matches>>
    BY <1>2 DEF Step, SetupFails, SetupSucceeds, LoopEnds, CancelledAtHead, StartFrame,
         ReadFails, ReadFrame, RestartNotNeeded, RestartSucceeds, RestartFails, NoFace,
         FaceFound, LivenessPasses, LivenessRefuses, LivenessBreaks, NoFeature,
         tally, history
  <2> QED BY <2>1
<1> QED BY <1>1, <1>2

\* A verdict of success reads the counters it is later judged by.
LEMMA StepEarned == IInv /\ Step => SuccessIsEarned'
<1> SUFFICES ASSUME IInv, Step, outcome' = "success"
             PROVE  SuccessIsEarned'
  BY DEF SuccessIsEarned
<1>1. Verdict' = "success"
  <2>1. CASE LoopEnds
    <3>1. Verdict = "success"
      BY <2>1 DEF LoopEnds, Answer
    <3>2. UNCHANGED <<cfg, valid_frame_count, max_consecutive_matches, best>>
      BY <2>1 DEF LoopEnds, env, counters, tally
    <3> QED BY <3>1, <3>2 DEF Verdict, EnoughValid
  <2>2. CASE MatchFrame
    BY <2>2 DEF MatchFrame, Answer, IInv, AnswerEndsIt
  <2>3. CASE ~LoopEnds /\ ~MatchFrame
    BY <2>3 DEF Step, SetupFails, SetupSucceeds, CancelledAtHead, StartFrame,
         ReadFails, ReadFrame, RestartNotNeeded, RestartSucceeds, RestartFails, NoFace,
         FaceFound, LivenessPasses, LivenessRefuses, LivenessBreaks, NoFeature,
         IInv, AnswerEndsIt, Goto, Answer, Continue
  <2> QED BY <2>1, <2>2, <2>3
<1>2. TypeOK' /\ CountsNested' /\ BestMeansMatch'
  BY StepTypes, StepCounts, StepBest DEF CountsInStep
<1>3. /\ EnoughValid' /\ best'
      /\ max_consecutive_matches' >= cfg'.consecutive_match_frames
  BY <1>1 DEF Verdict
<1>4. /\ cfg'.consecutive_match_frames \in Nat /\ cfg'.valid_frames \in Nat
      /\ matches' \in Nat /\ max_consecutive_matches' \in Nat /\ valid_frame_count' \in Nat
  BY <1>2, CfgFacts, CountCapAssumption DEF TypeOK, Count
<1> QED BY <1>2, <1>3, <1>4
        DEF CountsNested, BestMeansMatch, Larger, EnoughValid, SuccessIsEarned

-----------------------------------------------------------------------------
(* The induction                                                           *)

LEMMA NextIInv == IInv /\ [Next]_vars => IInv'
<1> SUFFICES ASSUME IInv, [Next]_vars PROVE IInv'
  OBVIOUS
<1>1. CASE Step
  BY <1>1, StepAnswer, StepUnchecked, StepTypes, StepLate, StepCounts, StepBest,
     StepEarned DEF IInv
<1>2. CASE Expire \/ RequestCancel \/ UNCHANGED vars
  <2>1. /\ cancelled' \in BOOLEAN /\ expired' \in BOOLEAN
        /\ UNCHANGED <<cfg, pc, outcome, spoof, counters, tally, history, late, unbroken>>
    BY <1>2 DEF Expire, RequestCancel, vars, spoof, counters, tally, history, IInv, TypeOK
  <2> QED BY <2>1
          DEF IInv, TypeOK, AnswerEndsIt, UncheckedPaidFor, Owed, NoFrameAfterCancel,
              CountsInStep, CountsNested, BestMeansMatch, SuccessIsEarned,
              spoof, counters, tally, history
<1> QED BY <1>1, <1>2 DEF Next

LEMMA AlwaysIInv == Spec => []IInv
<1> QED BY InitIInv, NextIInv, PTL DEF Spec

\* Every variable of the session keeps its type, the counters within their caps.
THEOREM TypeCorrect == Spec => []TypeOK
<1>1. IInv => TypeOK
  BY DEF IInv
<1> QED BY <1>1, AlwaysIInv, PTL

\* auth.rs: a success has the matches and the valid frames it is configured to
\* need, whichever exit of the loop it leaves by.
THEOREM SuccessAlwaysEarned == Spec => []SuccessIsEarned
<1>1. IInv => SuccessIsEarned
  BY DEF IInv
<1> QED BY <1>1, AlwaysIInv, PTL

\* auth.rs: fewer than MAX_ANTI_SPOOF_ERRORS frames are ever matched without
\* the liveness check that is enabled.
THEOREM UncheckedAlwaysBounded == Spec => []UncheckedMatchesBounded
<1>1. IInv => UncheckedMatchesBounded
  BY DEF IInv, UncheckedMatchesBounded, UncheckedPaidFor, Owed, AnswerEndsIt, TypeOK,
         MAX_ANTI_SPOOF_ERRORS
<1> QED BY <1>1, AlwaysIInv, PTL

\* auth.rs: no frame read after the cancel flag rose is judged.
THEOREM CancelAlwaysHeeded == Spec => []NoFrameAfterCancel
<1>1. IInv => NoFrameAfterCancel
  BY DEF IInv
<1> QED BY <1>1, AlwaysIInv, PTL

\* auth.rs: the loop's counters bound one another and the frame limit them all.
THEOREM CountsAlwaysNested == Spec => []CountsNested
<1>1. IInv => CountsNested
  BY DEF IInv, CountsInStep
<1> QED BY <1>1, AlwaysIInv, PTL
=============================================================================
