SPECIFICATION LifecycleSpec
CONSTANTS
    u1 = u1  u2 = u2  u3 = u3  c1 = c1  c2 = c2  k1 = k1
    Members = {u1, u2}
    CallDatas = {c1, c2}
    Values = {0}
    CfpRevisions = {k1}
    NoCfp = NoCfp
    Classes = {"P1_PARAMETER", "P3_CONSTITUTIONAL"}
    SessionConfigs <- LifecycleSessions
    Windows <- LifecycleWindows
    Intensities <- LifecycleIntensities
    P1Delay = 1  P2Delay = 1  P3Delay = 2  ExecutionWindow = 1
    SignatureTTL = 1
    MaxTime = 6  MaxSessions = 2  MaxProposals = 1  MaxSigned = 0
INVARIANTS CallsAreAuthorised CallsAreApproved
PROPERTIES VoteStaysFixed ImplementsLifecycle ProposalsAreDecided
CHECK_DEADLOCK FALSE
