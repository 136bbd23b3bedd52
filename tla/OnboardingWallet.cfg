SPECIFICATION Spec
CONSTANTS
    a1 = a1  a2 = a2  w1 = w1  w2 = w2  k1 = k1  k2 = k2  r1 = r1  r2 = r2
    Accounts = {a1}  Wallets = {w1, w2}  NoWallet = NoWallet  Keys = {k1}  Calls = {r1}
    InvitationTTL = 2  ChallengeTTL = 1  LegacyTTL = 2
    FirstDelay = 1  Cooldown = 1  Window = 2  MaxResends = 1
    MaxInvitations = 1  MaxChallenges = 1  MaxTime = 2
SYMMETRY Symm
INVARIANTS ClaimedWalletSigned
CHECK_DEADLOCK FALSE
