---------------------------- MODULE GovernancePage ----------------------------
(***************************************************************************)
(* The page of a member of one house (TestnetGovernanceDemo.vue): it reads *)
(* the governor through the wallet, registers the wallet in the first      *)
(* session, and has ballots signed and relayed.                            *)
(*                                                                         *)
(* The wallet may change its account or its network at any time, and each  *)
(* change starts another refresh: refreshes overlap, end in any order, and *)
(* each clears busy, so that the buttons come back while a ballot or a     *)
(* registration is still under way.  A cast vote reads the house and the   *)
(* intensity when the nonce has come, not when it was clicked.  What is    *)
(* under way may fail for the page and go on without it.  The manifest is  *)
(* loaded and the relay enabled; voice credits, addresses and messages are *)
(* left out but for the two that say something was done.                   *)
(***************************************************************************)
EXTENDS GovernanceVoteRelayer

CONSTANTS
    FocusHouse,       \* requiredHouse
    NoWallet, Nothing,
    Loads             \* bound: refreshes under way at one time

ASSUME GovernancePageAssumption == FocusHouse \in Houses /\ MaxProposals # 0

VARIABLES
    wallet, amoy,     \* walletAddress, correctChain
    proposalId,       \* the number in the input
    shown,            \* proposal: its session and state
    house, registrationHouse,
    busy,
    loads,            \* refreshMembership and refresh
    registration,     \* registerLegislator and its transaction
    casts,            \* castVote, by the call of relay it makes
    joined, voted     \* the member and the ballot last said to be confirmed

pageVars == <<wallet, amoy, proposalId, shown, house, registrationHouse, busy, loads,
              registration, casts, joined, voted>>

FirstSession == 1
GovernancePageInit ==
    /\ wallet = NoWallet /\ amoy \in BOOLEAN /\ proposalId = 1
    /\ shown = Nothing /\ house = NoHouse /\ registrationHouse = NoHouse
    /\ busy = FALSE
    /\ loads = [f \in Loads |-> Nothing]
    /\ registration = Nothing /\ casts = [o \in Ops |-> Nothing]
    /\ joined = Nothing /\ voted = Nothing

CanRegister == wallet # NoWallet /\ amoy /\ registrationHouse = NoHouse /\ ~busy
CanVote ==
    /\ wallet # NoWallet /\ amoy /\ ~busy
    /\ shown # Nothing /\ shown.state = "VOTING" /\ house = FocusHouse

------------------------------------------------------------------------------
(* The wallet, and reading the governor. *)

Load(f, l) == loads' = [loads EXCEPT ![f] = l]
AskMembership(w, goesOn) == [pc |-> "membership", member |-> w, goesOn |-> goesOn]
AskProposal == [pc |-> "count"]
LoadIs(f, pc) == loads[f] # Nothing /\ loads[f].pc = pc

(* refresh, unless there is nobody to refresh for. *)
Refreshing(f) ==
    IF wallet' # NoWallet /\ amoy' THEN Load(f, AskProposal) /\ busy' = TRUE
                                   ELSE Load(f, Nothing) /\ busy' = FALSE

(* connectWallet *)
Connect(f, w) ==
    /\ ~busy /\ wallet' = w
    /\ IF amoy THEN loads[f] = Nothing /\ Load(f, AskMembership(w, TRUE)) /\ busy' = TRUE
               ELSE UNCHANGED <<loads, busy>>
    /\ UNCHANGED <<allVars, amoy, proposalId, shown, house, registrationHouse, registration, casts,
                   joined, voted>>

(* switchToAmoy, whose success is an event of the wallet too. *)
SwitchToAmoy(f, g) ==
    /\ wallet # NoWallet /\ ~amoy /\ f # g /\ loads[f] = Nothing /\ loads[g] = Nothing
    /\ amoy' = TRUE /\ shown' = Nothing /\ busy' = TRUE
    /\ loads' = [loads EXCEPT ![f] = AskMembership(wallet, TRUE), ![g] = AskProposal]
    /\ UNCHANGED <<allVars, wallet, proposalId, house, registrationHouse, registration, casts, joined,
                   voted>>

(* handleAccountsChanged, handleChainChanged *)
WalletChanged(f) ==
    /\ loads[f] = Nothing /\ shown' = Nothing
    /\ IF wallet' # NoWallet /\ amoy' THEN Refreshing(f) ELSE UNCHANGED <<loads, busy>>
    /\ UNCHANGED <<allVars, proposalId, house, registrationHouse, registration, casts, joined, voted>>

AccountsChanged(f, w) == wallet \notin {NoWallet, w} /\ wallet' = w /\ UNCHANGED amoy /\ WalletChanged(f)
ChainChanged(f) == wallet # NoWallet /\ amoy' = ~amoy /\ UNCHANGED wallet /\ WalletChanged(f)

ChooseProposal(p) ==
    /\ p # proposalId /\ proposalId' = p
    /\ UNCHANGED <<allVars, wallet, amoy, shown, house, registrationHouse, busy, loads, registration,
                   casts, joined, voted>>

(* The button of refreshMembership. *)
CheckMembership(f) ==
    /\ wallet # NoWallet /\ amoy /\ ~busy
    /\ loads[f] = Nothing /\ Load(f, AskMembership(wallet, FALSE))
    /\ UNCHANGED <<allVars, wallet, amoy, proposalId, shown, house, registrationHouse, busy,
                   registration, casts, joined, voted>>

Refresh(f) ==
    /\ wallet # NoWallet /\ amoy /\ ~busy
    /\ loads[f] = Nothing /\ UNCHANGED <<wallet, amoy>> /\ Refreshing(f)
    /\ UNCHANGED <<allVars, proposalId, shown, house, registrationHouse, registration, casts, joined,
                   voted>>

(* refreshMembership; its failure shows no house. *)
MembershipRead(f) ==
    /\ LoadIs(f, "membership")
    /\ registrationHouse' \in {memberHouse[FirstSession][loads[f].member], NoHouse}
    /\ UNCHANGED <<wallet, amoy>>
    /\ IF loads[f].goesOn THEN Refreshing(f) ELSE Load(f, Nothing) /\ UNCHANGED busy
    /\ UNCHANGED <<allVars, proposalId, shown, house, registration, casts, joined, voted>>

(* The proposal whose number is in the input now, for the wallet of now. *)
ProposalRead(f) ==
    /\ LoadIs(f, "count") /\ wallet # NoWallet
    /\ IF proposalId > proposalCount
       THEN Load(f, Nothing) /\ shown' = Nothing /\ busy' = FALSE
       ELSE /\ Load(f, [pc |-> "proposal", member |-> wallet, session |-> proposals[proposalId].session,
                        state |-> ProposalState(proposalId)])
            /\ UNCHANGED <<shown, busy>>
    /\ UNCHANGED <<allVars, wallet, amoy, proposalId, house, registrationHouse, registration, casts,
                   joined, voted>>

Refreshed(f) ==
    /\ LoadIs(f, "proposal")
    /\ house' = memberHouse[loads[f].session][loads[f].member]
    /\ shown' = [session |-> loads[f].session, state |-> loads[f].state]
    /\ Load(f, Nothing) /\ busy' = FALSE
    /\ UNCHANGED <<allVars, wallet, amoy, proposalId, registrationHouse, registration, casts, joined,
                   voted>>

RefreshFailed(f) ==
    /\ LoadIs(f, "count") \/ LoadIs(f, "proposal")
    /\ Load(f, Nothing) /\ busy' = FALSE
    /\ UNCHANGED <<allVars, wallet, amoy, proposalId, shown, house, registrationHouse, registration,
                   casts, joined, voted>>

------------------------------------------------------------------------------
(* registerLegislator: a transaction of the wallet's, through the adapter;    *)
(* bound: one is under way at a time.                                        *)

RegistrationIs(pc) == registration # Nothing /\ registration.pc = pc
Registers(pc) == registration' = [registration EXCEPT !.pc = pc]
RestOfPage == <<wallet, amoy, proposalId, shown, house, loads, casts, voted>>

RegisterLegislator ==
    /\ CanRegister /\ registration = Nothing
    /\ registration' = [pc |-> "sent", member |-> wallet] /\ busy' = TRUE
    /\ UNCHANGED <<allVars, RestOfPage, registrationHouse, joined>>

(* The adapter finds the wallet eligible and the governor registers it. *)
RegistrationMined ==
    /\ \/ RegistrationIs("sent") /\ Registers("mined")
       \/ RegistrationIs("unwatched") /\ registration' = Nothing
    /\ RegisterMember(FirstSession, registration.member, FocusHouse)
    /\ UNCHANGED <<relayerVars, RestOfPage, registrationHouse, busy, joined>>

(* The receipt is a success, and refreshMembership. *)
RegistrationConfirmed ==
    /\ RegistrationIs("mined")
    /\ joined' = registration.member
    /\ registrationHouse' \in IF wallet = NoWallet \/ ~amoy THEN {registrationHouse}
                              ELSE {memberHouse[FirstSession][wallet], NoHouse}
    /\ registration' = Nothing /\ busy' = FALSE
    /\ UNCHANGED <<allVars, RestOfPage>>

(* Not signed, reverted, or not answered: then it may still be mined. *)
RegistrationFailed ==
    /\ \/ (RegistrationIs("sent") \/ RegistrationIs("mined")) /\ registration' = Nothing
       \/ RegistrationIs("sent") /\ Registers("unwatched")
    /\ busy' = FALSE
    /\ UNCHANGED <<allVars, RestOfPage, registrationHouse, joined>>

------------------------------------------------------------------------------
(* castVote *)

Cast(o, c) == casts' = [casts EXCEPT ![o] = c]
CastIs(o, pc) == casts[o] # Nothing /\ casts[o].pc = pc

VoteClicked(o) ==
    /\ CanVote /\ casts[o] = Nothing /\ ops[o] = NoOp
    /\ Cast(o, [pc |-> "nonce", member |-> wallet, proposal |-> proposalId, session |-> shown.session])
    /\ busy' = TRUE
    /\ UNCHANGED <<allVars, wallet, amoy, proposalId, shown, house, registrationHouse, loads,
                   registration, joined, voted>>

NonceRead(o, i) ==
    /\ CastIs(o, "nonce")
    /\ Cast(o, [pc |-> "signature", ballot |->
           [proposal |-> casts[o].proposal, session |-> casts[o].session, house |-> house,
            member |-> casts[o].member, intensity |-> i, nonce |-> votingNonces[casts[o].member],
            deadline |-> now + SignatureTTL]])
    /\ UNCHANGED <<allVars, wallet, amoy, proposalId, shown, house, registrationHouse, busy, loads,
                   registration, joined, voted>>

BallotSigned(o) ==
    /\ CastIs(o, "signature") /\ Cardinality(signed) < MaxSigned
    /\ signed' = signed \cup {casts[o].ballot}
    /\ Cast(o, [casts[o] EXCEPT !.pc = "signed"])
    /\ UNCHANGED <<now, registryVars, proposalVars, ballotVars, resultVars, evidenceVars,
                   votingNonces, relayed, relayerVars>>
    /\ UNCHANGED <<wallet, amoy, proposalId, shown, house, registrationHouse, busy, loads,
                   registration, joined, voted>>

(* The request arrives with a key of its own. *)
VotePosted(o, k) ==
    /\ CastIs(o, "signed") /\ Relay(o, casts[o].ballot, k)
    /\ Cast(o, [casts[o] EXCEPT !.pc = "posted"])
    /\ UNCHANGED <<wallet, amoy, proposalId, shown, house, registrationHouse, busy, loads,
                   registration, joined, voted>>

Mut_Submitted(o) == ops[o].pc \in {"waiting", "mined", "confirmed"}
(* The gateway answers with VOTE_CONFIRMED. *)
VoteConfirmed(o) == ops[o].pc = "confirmed"

VoteAnswered(o, f) ==
    /\ CastIs(o, "posted") /\ VoteConfirmed(o)
    /\ voted' = casts[o].ballot
    /\ Cast(o, Nothing)
    /\ loads[f] = Nothing /\ UNCHANGED <<wallet, amoy>> /\ Refreshing(f)
    /\ UNCHANGED <<allVars, proposalId, shown, house, registrationHouse, registration, joined>>

(* Refused by the wallet or the relayer, or a message is lost. *)
VoteFailed(o) ==
    /\ casts[o] # Nothing
    /\ Cast(o, Nothing) /\ busy' = FALSE
    /\ UNCHANGED <<allVars, wallet, amoy, proposalId, shown, house, registrationHouse, loads,
                   registration, joined, voted>>

GovernancePageNext ==
    \/ \E f \in Loads :
        \/ \E w \in Members : Connect(f, w)
        \/ \E w \in Members \cup {NoWallet} : AccountsChanged(f, w)
        \/ \E g \in Loads : SwitchToAmoy(f, g)
        \/ ChainChanged(f) \/ CheckMembership(f) \/ Refresh(f)
        \/ MembershipRead(f) \/ ProposalRead(f) \/ Refreshed(f) \/ RefreshFailed(f)
        \/ \E o \in Ops : VoteAnswered(o, f)
    \/ \E p \in PIds : ChooseProposal(p)
    \/ RegisterLegislator \/ RegistrationMined \/ RegistrationConfirmed \/ RegistrationFailed
    \/ \E o \in Ops :
        \/ VoteClicked(o) \/ BallotSigned(o) \/ VoteFailed(o)
        \/ \E i \in Intensities : NonceRead(o, i)
        \/ \E k \in Keys : VotePosted(o, k)

(* The page beside everyone else: members, other relayers, requests, blocks. *)
GovernanceNext == (RelayerNext /\ UNCHANGED pageVars) \/ GovernancePageNext
GovernanceSpec ==
    /\ RelayerInit /\ GovernancePageInit
    /\ [][GovernanceNext]_<<allVars, pageVars>>

------------------------------------------------------------------------------
(* What the page says was done was done, whatever account, proposal or house *)
(* it showed when the answer came: the ballot it calls confirmed is one the  *)
(* governor counted for the house of its member, and the member it calls     *)
(* registered sits in the page's house.                                      *)
GovernancePageTellsTheTruth ==
    /\ voted # Nothing =>
        /\ voted \in relayed
        /\ memberHouse[proposals[voted.proposal].session][voted.member] = voted.house
    /\ joined # Nothing => memberHouse[FirstSession][joined] = FocusHouse

(* What the relayer and the page say was done was done. *)
AnswersAndPageAreTrue == AnswersAreTrue /\ GovernancePageTellsTheTruth
=============================================================================
