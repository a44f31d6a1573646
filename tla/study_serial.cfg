\* One command at a time: what the record then looks like.
CONSTANTS
    k1 = k1
    k2 = k2
    c1 = c1
    c2 = c2
    Chunks = {k1, k2}
    Calls = {c1}
    NoChunk = NoChunk
    MaxTime = 2
    MaxSessions = 3
SPECIFICATION Spec
INVARIANTS
    SittingsInOrder
PROPERTIES
    UpdatedAtNeverRewinds
