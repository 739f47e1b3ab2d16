\* Accepted configurations that rely on video.timeout or on valid_frames.
CONSTANTS
    Configs <- MCValidated
    CountCap <- MCCap
SPECIFICATION FairSpec
PROPERTY ValidatedSessionEnds
CHECK_DEADLOCK FALSE
