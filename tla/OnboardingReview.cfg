SPECIFICATION ScopedSpec
CONSTANTS
    a1 = a1  a2 = a2  w1 = w1  w2 = w2  k1 = k1  k2 = k2  r1 = r1  r2 = r2  g1 = g1  g2 = g2
    Accounts = {a1, a2}  Wallets = {w1, w2}  NoWallet = NoWallet  Keys = {k1, k2}  Calls = {r1, r2}
    InvitationTTL = 4  ChallengeTTL = 1  LegacyTTL = 2
    FirstDelay = 1  Cooldown = 2  Window = 3  MaxResends = 2
    MaxInvitations = 2  MaxChallenges = 1  MaxTime = 5
    NoLink = NoLink  Nothing = Nothing  NoLine = NoLine  Gets = {g1, g2}
    Modes = {"gmail-smtp", "webhook", "outbox"}
SYMMETRY Symmetry
INVARIANTS ApplicationTellsTheTruth ResendsArePaced WhatIsSaidIsSo
PROPERTIES OutcomesAreFinal
CHECK_DEADLOCK FALSE
