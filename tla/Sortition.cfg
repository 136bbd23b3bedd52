SPECIFICATION ScopedSpec
CONSTANTS
    i1 = i1  i2 = i2  i3 = i3  i4 = i4  w1 = w1  w2 = w2  w3 = w3  w4 = w4
    s1 = s1  s2 = s2  s3 = s3  r1 = r1  r2 = r2  StartsAt <- BothStarts  Schedules <- BothSchedules
    Sessions = {s1, s2, s3}  Requests = {r1, r2}
    Identities = {i1, i2, i3, i4}  Wallets = {w1, w2, w3, w4}
    Sizes <- BothSizes  Rosters <- BothRosters  Words <- BothWords
    MaxPopulation = 4  MaxTime = 4
INVARIANTS SeatsFollowTheDraw HoldersAreMembers SelectionIsDuplicateFree
PROPERTIES DrawIsFinal DrawCompletes
CHECK_DEADLOCK FALSE
