SPECIFICATION ScopedSpec
CONSTANTS
    c1 = c1  h1 = h1  h2 = h2  k1 = k1  o1 = o1  o2 = o2  f1 = f1  f2 = f2
    Creators = {c1}  Holders = {h1, h2}  NoCreator = NoCreator  NoHolder = NoHolder
    Lifetimes = {1}  Policies <- TwoPolicies
    Keys = {k1}  Ops = {o1, o2}  Capacity = 1  MaxLifetime = 1
    MaxTime = 3  MaxTokens = 2  MaxVersion = 2  MaxIntents = 2  MaxPool = 1
    Looks = {f1, f2}  NoLook = NoLook
    CreatorAccounts = {h1, h2}  Commitments = {1, 2}  Works = {k1}  Scopes = {c1}  MaxReleases = 2
    Listings = {f1, f2}  Checks = {o1, o2}  NoRead = NoRead
    DirectoryTTL = 2  ReadinessTTL = 1  ReadTime = 1  MaxClock = 4
INVARIANTS OneActiveCredential IntentsAreHonoured RelayIsToldTruly
PROPERTIES CredentialsOnlyEnd EarlyIsCapped
CHECK_DEADLOCK FALSE
SYMMETRY Symm
