\* Two processes, an edit and two signals anywhere, and in each process a
\* session that ends and one that may not.
CONSTANTS
    balanced = balanced
    strict = strict
    run1 = run1
    run2 = run2
    Bad = Bad
    None = None
    Torn = Torn
    limited = limited
    endless = endless
    Sessions = {limited, endless}
    Endless = {endless}
    Presets <- MCPresets
    Endpoints <- MCEndpoints
    MaxStarts = 2
    MaxEdits = 1
    MaxSignals = 2
SPECIFICATION FairSpec
INVARIANTS
    TypeOK
    PublishedEndpointIsServed
    PublishedIsRunning
    GracefulStopLeavesNothing
PROPERTIES
    ReloadIsHeeded
    SubscribedStops
CHECK_DEADLOCK FALSE
