\* Two commands in flight at once, one chunk of which can be finished under
\* the other, three sessions.
CONSTANTS
    k1 = k1
    k2 = k2
    c1 = c1
    c2 = c2
    Chunks = {k1, k2}
    Calls = {c1, c2}
    NoChunk = NoChunk
    MaxTime = 1
    MaxSessions = 3
SPECIFICATION Spec
SYMMETRY Symmetry
INVARIANTS
    TypeOK
    StagesMatchSessions
    StudiedChunkKeepsProgress
    OverlapBound
    AnswersMatchTables
PROPERTIES
    DoneIsFinal
    ClosedRowsFrozen
    ImplementsRecord
