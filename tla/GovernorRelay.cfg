SPECIFICATION ScopedSpec
CONSTANTS
    u1 = u1  u2 = u2  u3 = u3  c1 = c1  c2 = c2  k1 = k1  x1 = x1  x2 = x2  o1 = o1  o2 = o2  f1 = f1  f2 = f2
    FocusHouse = "CREATOR"  NoWallet = NoWallet  Nothing = Nothing  Loads = {f1, f2}
    Members = {u1, u2, u3}
    CallDatas = {c1}
    Values = {0}
    CfpRevisions = {k1}
    NoCfp = NoCfp
    Classes = {"P1_PARAMETER"}
    SessionConfigs <- RelayedSessions
    Windows <- RelayedWindows
    Intensities <- RelayedIntensities
    P1Delay = 1  P2Delay = 1  P3Delay = 2  ExecutionWindow = 1
    SignatureTTL = 1
    MaxTime = 3  MaxSessions = 1  MaxProposals = 2  MaxSigned = 2
    Keys = {x1, x2}  Ops = {o1, o2}  Capacity = 1  MaxPool = 2
INVARIANTS BallotsAreAccounted NoncesCountRelayedBallots CfpBindingIsInverse AnswersAndPageAreTrue
PROPERTIES EveryRelayIsAnswered
CHECK_DEADLOCK FALSE
