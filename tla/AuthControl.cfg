\* Three overlapping authentications, two cancels, four sessions in all.
CONSTANTS
    h1 = h1
    h2 = h2
    h3 = h3
    c1 = c1
    c2 = c2
    Handlers <- MCHandlers
    Cancellers <- MCCancellers
    MaxSessions = 4
SYMMETRY MCSymmetry
SPECIFICATION Spec
INVARIANTS
    TypeOK
    CurrentIsNotStale
    QuiescentRegistry
    LoneSessionIsCancellable
PROPERTY ServiceSpec
CHECK_DEADLOCK FALSE
