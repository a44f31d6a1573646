CONSTANTS
    Chunks = {1, 2, 3, 4}
    Track <- MCTrack
    Ord <- MCOrd
    Canonical <- MCCanonical
    Alphabetical <- MCAlphabetical
    Overrides = {0, 2, 4}
    StaleAfter = 2
    MaxTime = 3
SPECIFICATION Spec
INVARIANT StartedNeverVanishes
