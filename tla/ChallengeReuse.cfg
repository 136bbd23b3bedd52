SPECIFICATION Spec
CONSTANTS
    w1 = w1  w2 = w2  w0 = w0  p1 = p1  p2 = p2  p0 = p0  k1 = k1  k2 = k2  r1 = r1  r2 = r2  artist = artist
    Wallets = {w1, w2}  NoWallet = w0  Artists = {artist}  ClientKeys = {k1}  Requests = {r1, r2}
    SignTTL = 2  ConfirmDelay = 1  MaxTime = 2  MaxChallenges = 2  MaxSupport = 1
    Credentials = {p1}  NoCredential = p0  BindingTTL = 1
    MaxBindings = 1  MaxIntents = 1  MaxCounter = 1
PROPERTIES ChallengeAuthorisesOnce
CHECK_DEADLOCK FALSE
