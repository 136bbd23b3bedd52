SPECIFICATION ScopedSpec
CONSTANTS
    i1 = i1  i2 = i2  w1 = w1  w2 = w2  a1 = a1  a2 = a2  f1 = f1  f2 = f2  s1 = s1  s2 = s2  y1 = y1  y2 = y2
    Invitations = {i1, i2}  Wallets = {w1, w2}  NoInvitation = NoInvitation  NoWallet = NoWallet
    ApprovalTTL = 2  MaxTime = 3  MaxFaults = 2
    Accounts = {a1, a2}  Treasury = Treasury  Plans <- TwoPlans  ClaimAmount = 2  References = {y1, y2}
    MaxBlockTime = 2  MaxPlanVersion = 2  NoAccount = NoAccount  NoTask = NoTask  Reads = {f1, f2}  Sends = {s1, s2}
INVARIANTS EachRunsOnce RowsFollowTheChain OneParticipantPerWallet ListenerPaysWhatWasShown
PROPERTIES EnrollmentCompletes FundedIsFinal
CHECK_DEADLOCK FALSE
