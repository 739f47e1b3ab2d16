\* Up to two frames where frames are limited; any number where they are not.
CONSTANTS
    Configs <- MCConfigs
    CountCap <- MCCap
SPECIFICATION FairSpec
INVARIANTS
    TypeOK
    SuccessIsEarned
    UncheckedMatchesBounded
    NoFrameAfterCancel
    CountsNested
PROPERTIES
    LimitedSessionEnds
    CancelledSessionEnds
CHECK_DEADLOCK FALSE
