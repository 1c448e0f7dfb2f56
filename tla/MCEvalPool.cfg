SPECIFICATION FairSpec
CONSTANTS
    a = a  b = b  s1 = s1  s2 = s2  s3 = s3  n1 = n1  n2 = n2
    guard = guard  foreign = foreign  cost = cost  NoNs = NoNs  Null = Null
    Run = {a, b}
    Sample = {s1, s2, s3}
    Namespace = {n1, n2}
    Datasets <- MCDatasets
    NsOf <- MCNsOf
    Permits = 2
    PoolSize = 1
    Event = {}
    Kind <- MCKind
    Reader = {}
INVARIANT LoadBounded
INVARIANT StraysExplained
PROPERTY RunsAnswered
PROPERTY SamplesEnd
