CONSTANTS
    k1 = k1
    k2 = k2
    c1 = c1
    c2 = c2
    Chunks = {k1, k2}
    Calls = {c1, c2}
    NoChunk = NoChunk
    MaxTime = 1
    MaxSessions = 2
SPECIFICATION Spec
INVARIANT AtMostOneOpen
