\* One signal, early enough.
CONSTANTS
    balanced = balanced
    strict = strict
    run1 = run1
    run2 = run2
    Bad = Bad
    None = None
    Torn = Torn
    limited = limited
    endless = endless
    Sessions = {}
    Endless = {}
    Presets <- MCPresets
    Endpoints <- MCEndpoints
    MaxStarts = 1
    MaxEdits = 0
    MaxSignals = 1
SPECIFICATION FairSpec
PROPERTY ShutdownIsHeeded
CHECK_DEADLOCK FALSE
