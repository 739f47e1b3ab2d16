CONSTANTS
    Configs <- MCConfigs
    CountCap <- MCCap
SPECIFICATION Spec
INVARIANT StreakIsConsecutive
CHECK_DEADLOCK FALSE
