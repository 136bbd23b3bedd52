SPECIFICATION LiveSpec
CONSTANTS
    i1 = i1  i2 = i2  w1 = w1  w2 = w2
    Invitations = {i1}  Wallets = {w1}  NoInvitation = NoInvitation  NoWallet = NoWallet
    ApprovalTTL = 1  MaxTime = 3  MaxFaults = 0
PROPERTIES RecoveryIsAutomatic
CHECK_DEADLOCK FALSE
