CONSTANTS
    c1 = c1
    c2 = c2
    Chunks = {1, 2}
    Calls = {c1, c2}
    NoChunk = NoChunk
    MaxTime = 2
    MaxSessions = 2
    Track <- MCTrack
    Ord <- MCOrd
    Canonical <- MCTracks
    Alphabetical <- MCTracks
    StaleAfter = 1
    Loads = {1}
SPECIFICATION HomeSpec
SYMMETRY Symmetry
INVARIANTS
    HomeTypeOK
    OpenSessionCanBeStopped
    NoGhostSession
    LoadingIsUnderWay
PROPERTIES
    RowsFollowDailyQueue
CONSTRAINT Sure
