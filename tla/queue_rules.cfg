\* Three chunks of one track, one of another; every override is a chunk in the
\* middle of the first track or one of the other.
CONSTANTS
    Chunks = {1, 2, 3, 4}
    Track <- MCTrack
    Ord <- MCOrd
    Canonical <- MCCanonical
    Alphabetical <- MCAlphabetical
    Overrides = {0, 2, 4}
    StaleAfter = 2
    MaxTime = 3
SPECIFICATION Spec
CONSTRAINT SmallTables
INVARIANTS
    TypeOK
    NoTrackStarves
    StaleComeFirst
    HiddenOnlyBehindFresher
    AnswerMissesNoWork
PROPERTIES
    NextMovesForward
