SPECIFICATION Spec
CONSTANTS
    hash = hash  other = other  None = None
    Process = {p1, p2}
    Model = {hash, other}
    Size <- MCSize
    Ask = {q1, q2}
    Text = {x}
    Ingest = {d1, d2}
    Content = {c1, c2}
    Blank = {c2}
    TTL = 2
    MaxClock = 2
SYMMETRY CallSymmetry
INVARIANT StaleBounded
INVARIANT StoredIndexed
