\* Up to four frames, of fourteen kinds; the detector of faces and every key may
\* fail or come at any time.
CONSTANTS
    FrameW = 20
    FrameH = 16
    Unit = 10
    ValidCropScale = 20
    NoRect = NoRect
    None = None
    ScoreThreshold = 90
    LivenessThreshold = 50
    MaxFrames = 4
    Setups <- MCSetups
    Frames <- MCFrames
    Similarity <- MCSimilarity
SPECIFICATION Spec
INVARIANTS
    TypeOK
    JudgedFaceIsBest
    LivenessSeesTheFace
    SavedFaceIsBest
    ReportTellsFrames
CHECK_DEADLOCK FALSE
