---------------------------- MODULE MCAccountFlows ----------------------------
(* One account and its clients.  A behaviour has one flow, so that the       *)
(* flows' state spaces add up:                                               *)
(*   binding  the clients of the account trust routes,                       *)
(*   wallet   any client of the SIWE and support routes,                     *)
(*   player   the player's buttons alone,                                    *)
(*   page     the account trust page beside the account's other tabs.        *)
EXTENDS TrustPage, PlayerSupport, TLC

CONSTANTS w1, w2, w0, p1, p2, p0, k1, k2, r1, r2, artist

VARIABLE flow

Symm == Permutations(Credentials) \cup Permutations(Requests)

InFlow ==
    /\ flow = "binding" => challenges = <<>> /\ supportIntents = <<>> /\ demoUser # k2 /\ now <= 2
    /\ flow = "wallet" => demoUser = NoKey /\ now <= 3
    /\ flow = "player" =>
        /\ wallet # w2 /\ demoUser # k2
        /\ challenges # <<>> => demoUser = NoKey /\ ~registering
        /\ supportIntents # <<>> => Len(challenges) = 1 /\ \A r \in Requests : requests[r].kind # "siwe"
    /\ flow = "page" => demoUser # k2 /\ now <= 1 /\ \A k \in Credentials : counters[k] <= 0

FlowInit == Init /\ PlayerSupportInit /\ TrustPageInit /\ flow \in {"binding", "wallet", "player", "page"}

FlowSpec ==
    /\ FlowInit
    /\ [][/\ flow' = flow
          /\ \/ flow = "binding" /\ Next /\ UNCHANGED <<supportVars, pageVars>>
             \/ flow = "wallet" /\ WalletNext /\ UNCHANGED <<trustVars, supportVars, pageVars>>
             \/ flow = "player" /\ PlayerSupportNext /\ UNCHANGED <<trustVars, pageVars>>
             \/ flow = "page" /\ TrustPageNext /\ UNCHANGED supportVars
          /\ InFlow']_<<vars, supportVars, pageVars, flow>>
=============================================================================
