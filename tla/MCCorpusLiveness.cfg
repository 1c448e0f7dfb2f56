SPECIFICATION FairSpec
CONSTANTS
    c1 = c1  c2 = c2  c3 = c3  n1 = n1  n2 = n2  k1 = k1  k2 = k2  e1 = e1  e2 = e2
    alice = alice  bob = bob
    Caller = {alice, bob}
    NoDoc = NoDoc  NoColl = NoColl  NoPeriod = NoPeriod  Absent = Absent
    Req = {r1, r2, r3}
    DocId = {d1, d2, d3}
    Content = {c1, c2}
    Blank = {}
    Namespace = {n1}
    CollName = {k1, k2}
    Entity = {e1, e2}
    MaxClock = 0
    EntitiesOf <- MCEntitiesOf
    Writable <- MCWritable
    Found <- NothingFound
    Calls <- CompetingIngests
PROPERTY RequestsAnswered
