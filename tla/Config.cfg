SYMMETRY MCSymmetry
SPECIFICATION Spec
CONSTANTS
    user = user
    etc = etc
    Locations = {user, etc}
    CliSearch <- MCCliSearch
    DaemonSearch <- MCDaemonSearch
    p1 = p1
    p2 = p2
    Processes <- MCProcesses
    PresetOrder <- MCPresetOrder
    Names = {"default", "strict", "short", "negative", "odd", "dev", ""}
    Documents <- MCDocuments
    Installed = {0}
    Absent = Absent
    Broken = Broken
    NotATable = NotATable
    MaxEdits = 2
    MaxCommands = 2
INVARIANTS
    TypeOK
    SwitchKeepsDocument
    SwitchTakesEffect
    RunningWasWritten
CHECK_DEADLOCK FALSE
