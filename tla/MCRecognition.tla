---------------------------- MODULE MCRecognition ----------------------------
(* Small configurations for Recognition: every combination of limits up to  *)
(* MCCap, with and without a timeout in the request.                        *)
EXTENDS Recognition

MCCap == 3

MCConfigs ==
    [max_frames : {0, 2}, valid_frames : {0, 2},
     consecutive_match_frames : 0..2, stop_on_valid_frames : BOOLEAN,
     anti_spoof : BOOLEAN, video_timeout : {1}, timeout : {0, 1}]

\* Configurations that Config::validate accepts, under a request without a
\* timeout of its own.
MCValidated ==
    [max_frames : {0}, valid_frames : {0, 1}, consecutive_match_frames : {1},
     stop_on_valid_frames : {TRUE}, anti_spoof : {FALSE}, video_timeout : {1},
     timeout : {0}]
=============================================================================
