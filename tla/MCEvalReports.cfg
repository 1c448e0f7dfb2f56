SPECIFICATION Spec
CONSTANTS
    a = a  b = b  s1 = s1  s2 = s2  s3 = s3  n1 = n1  n2 = n2
    guard = guard  foreign = foreign  cost = cost  NoNs = NoNs  Null = Null
    Run = {a}
    Sample = {s1, s2}
    Namespace = {n1, n2}
    Datasets <- MCDatasets
    NsOf <- MCNsOf
    Permits = 2
    PoolSize = 1
    Event = {guard, foreign, cost}
    Kind <- MCKind
    Reader = {p1, p2}
SYMMETRY ReaderSymmetry
INVARIANT TypeOK
INVARIANT RunsWhole
INVARIANT ReportsAgree
