SPECIFICATION ScopedSpec
CONSTANTS
    a1 = a1  a2 = a2  k1 = k1  k2 = k2  t1 = t1  t2 = t2  t3 = t3  d1 = d1  d2 = d2  p1 = p1  p2 = p2  p3 = p3
    Accounts = {a1}  Keys = {k1, k2}  Tracks = {t1, t2, t3}
    SupporterTracks = {t2}  MappedTracks = {t1, t2}  Deliveries = {d1, d2}  Plays = {p1, p2, p3}
    TTL = 2  ByteLimit = 2  MediaSize = 2  MaxSafeInteger = 9  Headers <- SomeHeaders  MaxTime = 4  MaxSessions = 3  MaxDecisions = 3
INVARIANTS LeaseIsExclusive KeyCreatesOneSession EvidenceIsRecordedOnce PageKnowsItsLease
PROPERTIES LeaseIsFreed
CHECK_DEADLOCK FALSE
