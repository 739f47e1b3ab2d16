\* Two overlapping authentications and one cancel suffice.
CONSTANTS
    h1 = h1
    h2 = h2
    h3 = h3
    c1 = c1
    c2 = c2
    Handlers <- MCHandlers
    Cancellers <- MCCancellers
    MaxSessions = 2
SPECIFICATION Spec
INVARIANT NoActiveAnswerIsTrue
CHECK_DEADLOCK FALSE
