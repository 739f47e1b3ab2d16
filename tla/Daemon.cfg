SPECIFICATION FairSpec
CONSTANTS
    Callers = {pam, program}
    Unlimited = {program}
    Cancellers = {cancel}
    Paths = {run, other}
    DefaultPath = run
    Configs <- MCConfigs
    MaxEdits = 1
    pam = pam
    program = program
    cancel = cancel
    run = run
    other = other
INVARIANTS
    TypeOK
    DoneSessionsAreClosed
PROPERTIES
    LimitedRequestIsAnswered
    CancelledRequestIsAnswered
    StopEndsProcess
    AuthServiceSpec
CHECK_DEADLOCK FALSE
