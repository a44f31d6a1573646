CONSTANTS
    Dirs = {1, 2, 4}
    Track <- MCTrack
    VideoTrack = "videos"
    Leading <- MCLeading
    MaxTime = 1
SPECIFICATION Spec
ACTION_CONSTRAINT EditsBetweenCommands
INVARIANTS
    TypeOK
    ScanOrdsDistinct
    IndexCoversVault
PROPERTIES
    ProgressNeverRegresses
    CommitKeepsActivity
    RerunIsNoOp
