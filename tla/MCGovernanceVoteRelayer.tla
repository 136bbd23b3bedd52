---------------------- MODULE MCGovernanceVoteRelayer ----------------------
(* Values of the relayer's constants for TLC; the governor's are its own.    *)
(* A behaviour has one of five scopes, so that their sizes add up:          *)
(*   votes    three members change direct ballots on two proposals,          *)
(*   replays  two members' signed ballots are submitted late, again and in   *)
(*            another order by whoever holds the relayer role,               *)
(*   relayer  one signed ballot goes through the gateway's relayer,          *)
(*   joining  a member's page registers its wallet,                          *)
(*   voting   a member's page has its ballots relayed.                       *)
EXTENDS GovernancePage, MCBicameralGovernor

CONSTANTS x1, x2, o1, o2, f1, f2

VARIABLE scope

RelayedSessions == BallotSessions \cup RelaySessions
RelayedWindows == BallotWindows \cup RelayWindows
RelayedIntensities == BallotIntensities \cup OneIntensity

Uses(configs, windows, intensities, members) ==
    /\ \A s \in 1..sessionCount : sessions[s] \in configs
    /\ \A p \in 1..proposalCount :
        Window(proposals[p].votingStartsAt, proposals[p].votingEndsAt) \in windows
    /\ \A p \in PIds, m \in Members : ballots[p][m].cast => ballots[p][m].intensity \in intensities
    /\ \A b \in signed : b.intensity \in intensities
    /\ \A s \in SIds : {m \in Members : memberHouse[s][m] # NoHouse} \subseteq members

(* Members are interchangeable: they are registered in one order, and those  *)
(* of the CREATOR house first.                                               *)
InOrder(m, n) == \A s \in SIds :
    /\ memberHouse[s][n] # NoHouse => memberHouse[s][m] # NoHouse
    /\ memberHouse[s][n] = "CREATOR" => memberHouse[s][m] = "CREATOR"

(* What follows the ballots is the lifecycle's run. *)
UpToTheBallots ==
    \A p \in PIds : testEvidence[p].verdict = "none" /\ ~constitutionalEvidence[p] /\ ~status[p].reviewed

(* What precedes them goes well, in one order. *)
Deliberates == \A p \in PIds :
    preVoteReview[p] # "failed" /\ (deliberated[p] # {} => "CREATOR" \in deliberated[p])

(* A key is a new UUID. *)
KeyFor(o) == IF o = o1 THEN x1 ELSE x2

InScope ==
    /\ UpToTheBallots
    /\ InOrder(u1, u2) /\ InOrder(u2, u3)
    /\ scope = "votes" =>
        /\ Uses(BallotSessions, BallotWindows, BallotIntensities, Members)
        /\ signed = {} /\ now <= 2 /\ Deliberates
        /\ proposalCount > 0 => \A m \in Members : memberHouse[1][m] # NoHouse
        /\ proposalCount > 0 => memberHouse[1][u1] = "CREATOR" /\ memberHouse[1][u3] = "USER"
        /\ ~ballots[2][u3].cast
    /\ scope = "replays" =>
        /\ Uses(RelaySessions, RelayWindows, OneIntensity, {u1, u2})
        /\ \A o \in Ops : ops[o] = NoOp /\ now <= 2
        /\ proposalCount > 0 => memberHouse[1][u1] = "CREATOR" /\ memberHouse[1][u2] # NoHouse
    /\ scope = "relayer" =>
        /\ Uses(RelaySessions, RelayWindows, OneIntensity, {u1})
        /\ Cardinality(signed) <= 1 /\ proposalCount <= 1 /\ now <= 2
    /\ scope \in {"joining", "voting"} =>
        /\ Uses(RelaySessions, RelayWindows, OneIntensity, {u1, u2})
        /\ proposalCount <= 1 /\ now <= 2
    /\ scope = "joining" =>
        /\ proposalCount = 0 /\ wallet # u3 /\ (amoy \/ loads[f2] = Nothing)
    /\ scope = "voting" =>
        /\ amoy /\ registration = Nothing /\ registrationHouse = NoHouse
        /\ now = 1 \/ wallet = NoWallet
        /\ wallet = NoWallet => shown = Nothing
        /\ wallet # NoWallet => deliberated[1] = Houses /\ wallet # u3 /\ memberHouse[1][u3] = NoHouse
        /\ wallet = NoWallet => house = NoHouse /\ \A f \in Loads : loads[f] = Nothing /\ casts = [o \in Ops |-> Nothing]
        /\ proposalCount = 1 => cfpOf[1] # NoCfp /\ memberHouse[1][u1] = "CREATOR" /\ memberHouse[1][u2] = "USER"
        /\ Deliberates
        /\ \A m \in Members : ballots[1][m].cast => \E b \in relayed : b.member = m
        /\ ~status[1].finalized /\ proposalId = 1
        /\ LoadIs(f1, "membership") => loads[f1].goesOn
        /\ loads[f2] = Nothing /\ (Cardinality({o \in Ops : casts[o] # Nothing}) > 1 => loads[f1] = Nothing)
        /\ casts[o2] # Nothing => ops[o1].pc \in {"waiting", "mined", "confirmed"}
        /\ \A o \in Ops : ops[o].pc # "lost" /\ (ops[o] # NoOp => ops[o].key = KeyFor(o))

OnPage == scope \in {"joining", "voting"}

ScopedInit ==
    /\ RelayerInit /\ GovernancePageInit
    /\ scope \in {"votes", "replays", "relayer", "joining", "voting"} /\ InScope
    /\ OnPage \/ amoy

(* Beside the page nobody has ballots relayed, nor while it votes submits one. *)
Others ==
    /\ RelayerNext
    /\ signed' = signed /\ \A o \in Ops : ops[o] = NoOp => ops'[o] = NoOp
    /\ relayed' = relayed \/ pool' # pool

ScopedSpec ==
    /\ ScopedInit
    /\ [][/\ \/ ~OnPage /\ RelayerNext /\ UNCHANGED pageVars
             \/ OnPage /\ Others /\ UNCHANGED pageVars
             \/ OnPage /\ GovernancePageNext
          /\ scope' = scope /\ InScope']_<<allVars, pageVars, scope>>
    /\ \A o \in Ops : WF_allVars(Answers(o))
=============================================================================
