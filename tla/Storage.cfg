\* Four commands, any two of them together, each cut short anywhere.
CONSTANTS
    p1 = p1
    p2 = p2
    g1 = g1
    g2 = g2
    f1 = f1
    f2 = f2
    f3 = f3
    n1 = n1
    n2 = n2
    l1 = l1
    l2 = l2
    None = None
    Absent = Absent
    Torn = Torn
    Procs <- MCProcs
    GroupIds <- MCGroupIds
    FaceIds <- MCFaceIds
    Names <- MCNames
    Labels <- MCLabels
    MaxFaces = 1
    MaxCommands = 4
SYMMETRY MCSymmetry
SPECIFICATION Spec
INVARIANTS
    TypeOK
    RemovedStaysRemoved
    DefaultIsListed
    AddedIsLoadable
    SummariesSettle
    SelectorsUnambiguous
    CapacityWhenUndisturbed
CHECK_DEADLOCK FALSE
