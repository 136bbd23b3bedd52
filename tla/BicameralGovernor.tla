-------------------------- MODULE BicameralGovernor --------------------------
(***************************************************************************)
(* CreatorFirstBicameralGovernor: quadratic voting in two houses, separate *)
(* house results, joint approval, review, timelock and execution.          *)
(*                                                                         *)
(* One action is one external function of the contract.  A transaction is  *)
(* atomic and a call that reverts changes nothing, so a call the guards    *)
(* refuse is a stuttering step.  The functions under onlyRole are taken by *)
(* the holder of the role; a call by anyone else reverts.  Evidence hashes *)
(* are abstracted to whether they are recorded; the call data, which is    *)
(* compared twice, is kept.  The two per-house fields of each pair         *)
(* (creatorScore / userScore and so on) are one function over Houses.      *)
(***************************************************************************)
EXTENDS Integers, FiniteSets, Functions

CONSTANTS
    Members,          \* wallets that may be registered in a house
    CallDatas,        \* hashes of the calls a proposal may carry
    Values,           \* amounts of native token a proposal may carry
    CfpRevisions,     \* (cfpIdHash, revision) keys
    NoCfp,            \* proposalCfpIdHash of a proposal bound to no CFP
    Classes,          \* change classes the registrar submits
    SessionConfigs,   \* [startsAt, endsAt, budget, quorum] the registrar submits
    Windows,          \* [start, end] voting windows the registrar submits
    Intensities,      \* intensities a member submits (an int8)
    P1Delay, P2Delay, P3Delay, ExecutionWindow,   \* the constructor's durations
    SignatureTTL,     \* deadline a wallet signs a ballot with, from its clock
    MaxTime, MaxSessions, MaxProposals, MaxSigned \* bounds of the model

Houses == {"CREATOR", "USER"}
NoHouse == "NONE"
ChangeClasses == {"P1_PARAMETER", "P2_UPGRADE", "P3_CONSTITUTIONAL"}
MaxIntensity == 9

SIds == 1..MaxSessions
PIds == 1..MaxProposals

(* The constructor's checks on the durations, and the types of the inputs. *)
ASSUME DelayAssumption ==
    /\ P1Delay \in Nat \ {0} /\ P2Delay \in Nat /\ P3Delay \in Nat
    /\ P2Delay >= P1Delay /\ P3Delay >= P2Delay
    /\ ExecutionWindow \in Nat \ {0} /\ SignatureTTL \in Nat
ASSUME BoundAssumption ==
    MaxTime \in Nat /\ MaxSessions \in Nat /\ MaxProposals \in Nat /\ MaxSigned \in Nat
ASSUME InputAssumption ==
    /\ IsFiniteSet(Members)
    /\ Classes \subseteq ChangeClasses /\ Intensities \subseteq -128..127
    /\ Values \subseteq Nat /\ NoCfp \notin CfpRevisions
    /\ SessionConfigs \subseteq [startsAt : Nat, endsAt : Nat, budget : Nat, quorum : [Houses -> Nat]]
    /\ Windows \subseteq [start : Nat, end : Nat]

Payloads == [callData : CallDatas, value : Values]
NoSession == [startsAt |-> 0, endsAt |-> 0, budget |-> 0, quorum |-> [h \in Houses |-> 0]]
NoProposal == [session |-> 0, class |-> "NONE", votingStartsAt |-> 0, votingEndsAt |-> 0]
NoBallot == [intensity |-> 0, cost |-> 0, cast |-> FALSE]
Verdicts == {"none", "passed", "failed"}

VARIABLES
    now,              \* block.timestamp
    sessionCount, sessions, memberHouse, spentVoiceCredits,
    proposalCount, proposals,       \* the immutable part of struct Proposal
    cfpOf, cfpProposalId,           \* proposalCfpIdHash / Revision and its index
    ballots, score, participants,   \* per proposal: ballots, and the two tallies
    approved,                       \* houses whose result was an approval
    status,                         \* the flags and times of struct Proposal
    preVoteReview, deliberated, testEvidence, constitutionalEvidence,
    votingNonces,
    signed,           \* ballots signed off chain, in the hands of the relayer
    relayed,          \* history: signed ballots the contract accepted
    performed         \* history: per proposal, the calls made to its target

ballotVars   == <<spentVoiceCredits, ballots, score, participants>>
evidenceVars == <<preVoteReview, deliberated, testEvidence, constitutionalEvidence>>
registryVars == <<sessionCount, sessions, memberHouse>>
proposalVars == <<proposalCount, proposals, cfpOf, cfpProposalId>>
resultVars   == <<approved, status, performed>>
relayVars    == <<votingNonces, signed, relayed>>
vars == <<now, registryVars, proposalVars, ballotVars, resultVars, evidenceVars, relayVars>>

------------------------------------------------------------------------------
(* Storage starts zeroed: every mapping holds its default value. *)
Init ==
    /\ now = 0
    /\ sessionCount = 0 /\ sessions = [s \in SIds |-> NoSession]
    /\ memberHouse = [s \in SIds |-> [m \in Members |-> NoHouse]]
    /\ spentVoiceCredits = [s \in SIds |-> [m \in Members |-> 0]]
    /\ proposalCount = 0 /\ proposals = [p \in PIds |-> NoProposal]
    /\ cfpOf = [p \in PIds |-> NoCfp] /\ cfpProposalId = [k \in CfpRevisions |-> 0]
    /\ ballots = [p \in PIds |-> [m \in Members |-> NoBallot]]
    /\ score = [p \in PIds |-> [h \in Houses |-> 0]]
    /\ participants = [p \in PIds |-> [h \in Houses |-> 0]]
    /\ approved = [p \in PIds |-> {}]
    /\ status = [p \in PIds |-> [finalized |-> FALSE, reviewed |-> FALSE, queued |-> FALSE,
                                 executed |-> FALSE, cancelled |-> FALSE,
                                 executableAt |-> 0, expiresAt |-> 0]]
    /\ preVoteReview = [p \in PIds |-> "none"]
    /\ deliberated = [p \in PIds |-> {}]
    /\ testEvidence = [p \in PIds |-> [verdict |-> "none", tested |-> {}]]
    /\ constitutionalEvidence = [p \in PIds |-> FALSE]
    /\ votingNonces = [m \in Members |-> 0]
    /\ signed = {} /\ relayed = {}
    /\ performed = [p \in PIds |-> {}]

(* block.timestamp moves on; several transactions may share one timestamp. *)
Tick ==
    /\ now < MaxTime
    /\ now' = now + 1
    /\ UNCHANGED <<registryVars, proposalVars, ballotVars, resultVars, evidenceVars, relayVars>>

------------------------------------------------------------------------------
(* Sessions and membership. *)

CreateSession(c) ==
    /\ sessionCount < MaxSessions
    /\ c.startsAt > now /\ c.endsAt > c.startsAt
    /\ c.budget # 0 /\ \A h \in Houses : c.quorum[h] # 0
    /\ sessionCount' = sessionCount + 1
    /\ sessions' = [sessions EXCEPT ![sessionCount + 1] = c]
    /\ UNCHANGED <<now, memberHouse, proposalVars, ballotVars, resultVars, evidenceVars, relayVars>>

Mut_LateMembership(s, m) == memberHouse[s][m] = NoHouse
(* registerMember's reverts: MembershipClosed and MemberAlreadyRegistered. *)
MembershipOpen(s, m) ==
    /\ now < sessions[s].startsAt
    /\ memberHouse[s][m] = NoHouse

RegisterMember(s, m, h) ==
    /\ s <= sessionCount
    /\ MembershipOpen(s, m)
    /\ memberHouse' = [memberHouse EXCEPT ![s][m] = h]
    /\ UNCHANGED <<now, sessionCount, sessions, proposalVars, ballotVars, resultVars,
                   evidenceVars, relayVars>>

------------------------------------------------------------------------------
(* Registration of proposals. *)

(* _registerProposal: the window must lie in the session and in the future. *)
NewProposal(s, class, payload, w) ==
    /\ proposalCount < MaxProposals /\ s <= sessionCount
    /\ w.start >= sessions[s].startsAt /\ w.start > now
    /\ w.end > w.start /\ w.end <= sessions[s].endsAt
    /\ proposalCount' = proposalCount + 1
    /\ proposals' = [proposals EXCEPT ![proposalCount + 1] =
            [session |-> s, class |-> class, payload |-> payload,
             votingStartsAt |-> w.start, votingEndsAt |-> w.end]]
    /\ UNCHANGED <<now, registryVars, ballotVars, resultVars, evidenceVars, relayVars>>

RegisterProposal(s, class, payload, w) ==
    /\ NewProposal(s, class, payload, w)
    /\ UNCHANGED <<cfpOf, cfpProposalId>>

Mut_AnyRevision(k) == k \in CfpRevisions
(* CfpRevisionAlreadyRegistered: one proposal for a CFP revision. *)
RevisionFree(k) == cfpProposalId[k] = 0

RegisterCfpProposal(k, s, class, payload, w) ==
    /\ RevisionFree(k)
    /\ NewProposal(s, class, payload, w)
    /\ cfpOf' = [cfpOf EXCEPT ![proposalCount + 1] = k]
    /\ cfpProposalId' = [cfpProposalId EXCEPT ![k] = proposalCount + 1]

Registered(p) == proposals[p].session # 0

------------------------------------------------------------------------------
(* Evidence required before the vote. *)

RecordPreVoteReview(p, passed) ==
    /\ Registered(p) /\ now < proposals[p].votingStartsAt
    /\ preVoteReview[p] = "none"
    /\ preVoteReview' = [preVoteReview EXCEPT ![p] = IF passed THEN "passed" ELSE "failed"]
    /\ UNCHANGED <<now, registryVars, proposalVars, ballotVars, resultVars, deliberated,
                   testEvidence, constitutionalEvidence, relayVars>>

RecordHouseDeliberation(p, h) ==
    /\ Registered(p) /\ now < proposals[p].votingStartsAt
    /\ preVoteReview[p] = "passed"
    /\ h \notin deliberated[p]
    /\ deliberated' = [deliberated EXCEPT ![p] = @ \cup {h}]
    /\ UNCHANGED <<now, registryVars, proposalVars, ballotVars, resultVars, preVoteReview,
                   testEvidence, constitutionalEvidence, relayVars>>

------------------------------------------------------------------------------
(* Voting. *)

FinalState(p) == status[p].finalized \/ status[p].cancelled \/ status[p].executed
HouseOf(p, m) == memberHouse[proposals[p].session][m]

Mut_VotingNeverCloses(p) ==
    /\ now >= proposals[p].votingStartsAt
    /\ preVoteReview[p] = "passed" /\ deliberated[p] = Houses
(* The window and the evidence _castVote asks for. *)
VotingOpen(p) ==
    /\ ~FinalState(p)
    /\ now >= proposals[p].votingStartsAt /\ now < proposals[p].votingEndsAt
    /\ preVoteReview[p] = "passed" /\ deliberated[p] = Houses

(* The member's credits after the replaced ballot's cost is given back. *)
NextSpent(p, m, i) ==
    spentVoiceCredits[proposals[p].session][m] - ballots[p][m].cost + i * i

(* A member is counted at the first ballot only. *)
NextParticipants(p, m) ==
    participants[p][HouseOf(p, m)] + (IF ballots[p][m].cast THEN 0 ELSE 1)

Mut_AddBallot(p, m, i) == score[p][HouseOf(p, m)] + i
(* The house's score with the replaced intensity taken out. *)
NextScore(p, m, i) == score[p][HouseOf(p, m)] - ballots[p][m].intensity + i

Vote(p, m, i) ==
    LET s == proposals[p].session IN
    /\ Registered(p) /\ VotingOpen(p)
    /\ i \in -MaxIntensity..MaxIntensity
    /\ HouseOf(p, m) \in Houses
    /\ NextSpent(p, m, i) <= sessions[s].budget
    /\ participants' = [participants EXCEPT ![p][HouseOf(p, m)] = NextParticipants(p, m)]
    /\ score' = [score EXCEPT ![p][HouseOf(p, m)] = NextScore(p, m, i)]
    /\ ballots' = [ballots EXCEPT ![p][m] = [intensity |-> i, cost |-> i * i, cast |-> TRUE]]
    /\ spentVoiceCredits' = [spentVoiceCredits EXCEPT ![s][m] = NextSpent(p, m, i)]
    /\ UNCHANGED <<now, registryVars, proposalVars, resultVars, evidenceVars>>

CastVote(p, m, i) == Vote(p, m, i) /\ UNCHANGED relayVars

(* A subset of CastVote's steps: the same call behind the CFP-binding check. *)
CastCfpApprovalVote(p, m, i) == cfpOf[p] # NoCfp /\ CastVote(p, m, i)

(* The wallet signs a ballot with the nonce it reads from the contract, for *)
(* the house and session it is a member of, and hands it to the relayer.    *)
SignBallot(p, m, i) ==
    /\ Registered(p) /\ HouseOf(p, m) \in Houses
    /\ Cardinality(signed) < MaxSigned
    /\ signed' = signed \cup
            {[proposal |-> p, session |-> proposals[p].session, house |-> HouseOf(p, m),
              member |-> m, intensity |-> i, nonce |-> votingNonces[m],
              deadline |-> now + SignatureTTL]}
    /\ UNCHANGED <<now, registryVars, proposalVars, ballotVars, resultVars, evidenceVars,
                   votingNonces, relayed>>

Mut_AnyNonce(b) == now <= b.deadline
(* SignatureExpired and InvalidVotingNonce. *)
BallotFresh(b) ==
    /\ now <= b.deadline
    /\ b.nonce = votingNonces[b.member]

(* The relayer keeps every signed ballot and may submit it at any time, and *)
(* again; no other ballot recovers to a member's address.                   *)
CastCfpApprovalVoteBySig(b) ==
    /\ b \in signed /\ BallotFresh(b)
    /\ proposals[b.proposal].session = b.session
    /\ memberHouse[b.session][b.member] = b.house
    /\ cfpOf[b.proposal] # NoCfp
    /\ votingNonces' = [votingNonces EXCEPT ![b.member] = @ + 1]
    /\ relayed' = relayed \cup {b}
    /\ Vote(b.proposal, b.member, b.intensity)
    /\ UNCHANGED signed

------------------------------------------------------------------------------
(* Results, review, timelock and execution. *)

Mut_SurplusCompensates(p, h) ==
    /\ participants[p][h] >= sessions[proposals[p].session].quorum[h]
    /\ score[p]["CREATOR"] + score[p]["USER"] > 0
(* A house approves on its own quorum and its own score. *)
HouseApproves(p, h) ==
    /\ participants[p][h] >= sessions[proposals[p].session].quorum[h]
    /\ score[p][h] > 0

Mut_FinalizeDeliberated(p) == now >= proposals[p].votingEndsAt /\ deliberated[p] = Houses
VotingEnded(p) == now >= proposals[p].votingEndsAt

FinalizeProposal(p) ==
    /\ Registered(p) /\ ~FinalState(p)
    /\ VotingEnded(p)
    /\ approved' = [approved EXCEPT ![p] = {h \in Houses : HouseApproves(p, h)}]
    /\ status' = [status EXCEPT ![p].finalized = TRUE]
    /\ UNCHANGED <<now, registryVars, proposalVars, ballotVars, performed, evidenceVars, relayVars>>

JointlyApproved(p) == status[p].finalized /\ approved[p] = Houses

(* ManifestMismatch of recordContractTestEvidence. *)
TestedAsApproved(p, c) == c = proposals[p].payload.callData

RecordContractTestEvidence(p, c, passed) ==
    /\ Registered(p) /\ JointlyApproved(p)
    /\ ~status[p].cancelled /\ ~status[p].executed /\ ~status[p].queued /\ ~status[p].reviewed
    /\ TestedAsApproved(p, c)
    /\ testEvidence[p].verdict = "none"
    /\ testEvidence' = [testEvidence EXCEPT ![p] =
            [verdict |-> IF passed THEN "passed" ELSE "failed", tested |-> {c}]]
    /\ UNCHANGED <<now, registryVars, proposalVars, ballotVars, resultVars, preVoteReview,
                   deliberated, constitutionalEvidence, relayVars>>

RecordConstitutionalEvidence(p) ==
    /\ Registered(p) /\ JointlyApproved(p)
    /\ proposals[p].class = "P3_CONSTITUTIONAL"
    /\ ~status[p].reviewed /\ ~status[p].queued /\ ~status[p].cancelled /\ ~status[p].executed
    /\ constitutionalEvidence' = [constitutionalEvidence EXCEPT ![p] = TRUE]
    /\ UNCHANGED <<now, registryVars, proposalVars, ballotVars, resultVars, preVoteReview,
                   deliberated, testEvidence, relayVars>>

Mut_ReviewWithoutReferendum(p) == testEvidence[p].verdict = "passed"
ReviewEvidenceComplete(p) ==
    /\ testEvidence[p].verdict = "passed"
    /\ proposals[p].class = "P3_CONSTITUTIONAL" => constitutionalEvidence[p]

(* The review may be repeated until the proposal is queued; only its hash changes. *)
RecordReview(p) ==
    /\ Registered(p) /\ JointlyApproved(p)
    /\ ~status[p].cancelled /\ ~status[p].executed /\ ~status[p].queued
    /\ ReviewEvidenceComplete(p)
    /\ status' = [status EXCEPT ![p].reviewed = TRUE]
    /\ UNCHANGED <<now, registryVars, proposalVars, ballotVars, approved, performed,
                   evidenceVars, relayVars>>

DelayFor(class) == CASE class = "P1_PARAMETER" -> P1Delay
                     [] class = "P2_UPGRADE" -> P2Delay
                     [] class = "P3_CONSTITUTIONAL" -> P3Delay

Mut_Requeue(p) == status[p].reviewed
Queueable(p) == status[p].reviewed /\ ~status[p].queued /\ ~status[p].cancelled /\ ~status[p].executed

QueueProposal(p) ==
    LET at == now + DelayFor(proposals[p].class) IN
    /\ Registered(p) /\ JointlyApproved(p) /\ Queueable(p)
    /\ status' = [status EXCEPT ![p].executableAt = at,
                                ![p].expiresAt = at + ExecutionWindow,
                                ![p].queued = TRUE]
    /\ UNCHANGED <<now, registryVars, proposalVars, ballotVars, approved, performed,
                   evidenceVars, relayVars>>

Executable(p) ==
    /\ status[p].queued /\ ~status[p].cancelled /\ ~status[p].executed
    /\ now >= status[p].executableAt /\ now <= status[p].expiresAt

(* ManifestMismatch of executeProposal: msg.value and keccak256(callData). *)
CallMatches(p, c) == c = proposals[p].payload

(* executed is set before the call to the target, whose failure reverts all, *)
(* so a target that calls back finds the state of a step already taken.      *)
ExecuteProposal(p, c) ==
    /\ Registered(p) /\ Executable(p) /\ CallMatches(p, c)
    /\ status' = [status EXCEPT ![p].executed = TRUE]
    /\ performed' = [performed EXCEPT ![p] = @ \cup {[call |-> c, at |-> now]}]
    /\ UNCHANGED <<now, registryVars, proposalVars, ballotVars, approved, evidenceVars, relayVars>>

CancelQueuedProposal(p) ==
    /\ Registered(p) /\ status[p].queued
    /\ ~status[p].cancelled /\ ~status[p].executed
    /\ status' = [status EXCEPT ![p].cancelled = TRUE]
    /\ UNCHANGED <<now, registryVars, proposalVars, ballotVars, approved, performed,
                   evidenceVars, relayVars>>

------------------------------------------------------------------------------
(* proposalState, a view: the flags in the order the contract tests them. *)
ProposalState(p) ==
    CASE status[p].executed -> "EXECUTED"
      [] status[p].cancelled /\ ~status[p].executed -> "CANCELLED"
      [] status[p].queued /\ ~status[p].cancelled /\ ~status[p].executed ->
            IF now > status[p].expiresAt THEN "EXPIRED" ELSE "TIMELOCKED"
      [] status[p].reviewed /\ ~status[p].queued -> "REVIEWED"
      [] status[p].finalized /\ ~status[p].reviewed /\ ~status[p].queued ->
            IF JointlyApproved(p) THEN "JOINT_APPROVED" ELSE "REJECTED"
      [] OTHER -> IF now >= proposals[p].votingEndsAt THEN "AWAITING_FINALIZATION"
                  ELSE IF now >= proposals[p].votingStartsAt THEN "VOTING" ELSE "PENDING"

RegistrarStep ==
    \/ \E c \in SessionConfigs : CreateSession(c)
    \/ \E s \in SIds, m \in Members, h \in Houses : RegisterMember(s, m, h)
    \/ \E s \in SIds, class \in Classes, payload \in Payloads, w \in Windows :
            \/ RegisterProposal(s, class, payload, w)
            \/ \E k \in CfpRevisions : RegisterCfpProposal(k, s, class, payload, w)
    \/ \E p \in PIds, h \in Houses : RecordHouseDeliberation(p, h)

MemberStep ==
    \/ \E p \in PIds, m \in Members, i \in Intensities :
            CastVote(p, m, i) \/ CastCfpApprovalVote(p, m, i) \/ SignBallot(p, m, i)
    \/ \E b \in signed : CastCfpApprovalVoteBySig(b)

ReviewerStep ==
    \E p \in PIds :
        \/ \E passed \in BOOLEAN : RecordPreVoteReview(p, passed)
        \/ \E c \in CallDatas, passed \in BOOLEAN : RecordContractTestEvidence(p, c, passed)
        \/ RecordConstitutionalEvidence(p)
        \/ RecordReview(p)

OutcomeStep ==
    \E p \in PIds :
        \/ FinalizeProposal(p) \/ QueueProposal(p) \/ CancelQueuedProposal(p)
        \/ \E c \in Payloads : ExecuteProposal(p, c)

Next == Tick \/ RegistrarStep \/ MemberStep \/ ReviewerStep \/ OutcomeStep

Spec == Init /\ [][Next]_vars

(* Anyone may call finalizeProposal, and blocks keep coming. *)
Liveness == WF_vars(Tick) /\ \A p \in PIds : WF_vars(FinalizeProposal(p))

LiveSpec == Spec /\ Liveness

------------------------------------------------------------------------------
(* Properties. *)

Session == [startsAt : Nat, endsAt : Nat, budget : Nat, quorum : [Houses -> Nat]]
Proposal == [session : SIds, class : ChangeClasses, payload : Payloads,
             votingStartsAt : Nat, votingEndsAt : Nat]
Ballot == [intensity : Int, cost : Int, cast : BOOLEAN]
Status == [finalized : BOOLEAN, reviewed : BOOLEAN, queued : BOOLEAN, executed : BOOLEAN,
           cancelled : BOOLEAN, executableAt : Nat, expiresAt : Nat]
(* A page may have a ballot signed for the house it shows, or for none. *)
SignedBallot == [proposal : PIds, session : SIds, house : Houses \cup {NoHouse}, member : Members,
                 intensity : Int, nonce : Nat, deadline : Nat]

(* Every mapping of the contract holds values of its declared type. *)
TypeOK ==
    /\ now \in Nat
    /\ sessionCount \in 0..MaxSessions /\ sessions \in [SIds -> Session]
    /\ memberHouse \in [SIds -> [Members -> Houses \cup {NoHouse}]]
    /\ spentVoiceCredits \in [SIds -> [Members -> Int]]
    /\ proposalCount \in 0..MaxProposals /\ proposals \in [PIds -> Proposal \cup {NoProposal}]
    /\ cfpOf \in [PIds -> CfpRevisions \cup {NoCfp}]
    /\ cfpProposalId \in [CfpRevisions -> 0..MaxProposals]
    /\ ballots \in [PIds -> [Members -> Ballot]]
    /\ score \in [PIds -> [Houses -> Int]]
    /\ participants \in [PIds -> [Houses -> Nat]]
    /\ approved \in [PIds -> SUBSET Houses]
    /\ status \in [PIds -> Status]
    /\ preVoteReview \in [PIds -> Verdicts]
    /\ deliberated \in [PIds -> SUBSET Houses]
    /\ testEvidence \in [PIds -> [verdict : Verdicts, tested : SUBSET CallDatas]]
    /\ constitutionalEvidence \in [PIds -> BOOLEAN]
    /\ votingNonces \in [Members -> Nat]
    /\ signed \subseteq SignedBallot /\ relayed \subseteq signed
    /\ performed \in [PIds -> SUBSET [call : Payloads, at : Nat]]

(* The members of house h whose ballot on p is in the box. *)
Voters(p, h) == {m \in Members : ballots[p][m].cast /\ HouseOf(p, m) = h}

(* The ballot box counted afresh. *)
CountedScore(p, h) ==
    SumFunctionOnSet([m \in Members |-> ballots[p][m].intensity], Voters(p, h))
CountedApproval(p, h) ==
    /\ Cardinality(Voters(p, h)) >= sessions[proposals[p].session].quorum[h]
    /\ CountedScore(p, h) > 0

(* The score _castVote keeps by taking the old intensity out and adding the *)
(* new one is the sum of the ballots in the box, however often members      *)
(* replaced them, through whichever of the three entry points; and a        *)
(* house's participants are its distinct members who voted, so that a       *)
(* quorum finalizeProposal accepts is met by that many members.             *)
TalliesMatchBallots ==
    \A p \in PIds : Registered(p) => \A h \in Houses :
        /\ score[p][h] = CountedScore(p, h)
        /\ participants[p][h] = Cardinality(Voters(p, h))

(* What a member has spent in a session is the cost of the member's ballots *)
(* on all of its proposals, and never exceeds the one budget of the session *)
(* (so that _castVote's subtraction of the old cost cannot underflow).      *)
SpentIsCostOfBallots ==
    \A s \in SIds, m \in Members :
        LET mine == {p \in PIds : proposals[p].session = s} IN
        /\ spentVoiceCredits[s][m] =
             SumFunctionOnSet([p \in PIds |-> ballots[p][m].intensity * ballots[p][m].intensity], mine)
        /\ spentVoiceCredits[s][m] <= sessions[s].budget

(* Ballots replaced in any order, on proposals that share one budget, leave  *)
(* neither a tally nor a member's credits off.                               *)
BallotsAreAccounted == TalliesMatchBallots /\ SpentIsCostOfBallots

(* A replayed signed ballot is refused: a member's nonce counts the member's *)
(* distinct signed ballots that were accepted.                               *)
NoncesCountRelayedBallots ==
    \A m \in Members : votingNonces[m] = Cardinality({b \in relayed : b.member = m})

(* cfpProposalId is the inverse of the binding: a CFP revision has at most   *)
(* one proposal, and a proposal bound to it is the one the index names.      *)
CfpBindingIsInverse ==
    \A p \in PIds, k \in CfpRevisions : cfpOf[p] = k <=> cfpProposalId[k] = p

(* executeProposal's call was approved by a majority of the ballots of each  *)
(* house with that house's own quorum, on the exact call that was tested,    *)
(* with the referendum evidence a P3 change needs, no earlier than the class *)
(* delay after the vote and no later than the window; it is made once, and   *)
(* never for a cancelled proposal.                                           *)
ApprovedByBothHouses(p) == \A h \in Houses : CountedApproval(p, h)
CallAuthorised(p, call) ==
    /\ status[p].executed /\ ~status[p].cancelled
    /\ call.call = proposals[p].payload
    /\ testEvidence[p] = [verdict |-> "passed", tested |-> {call.call.callData}]
    /\ proposals[p].class = "P3_CONSTITUTIONAL" => constitutionalEvidence[p]
    /\ call.at >= proposals[p].votingEndsAt + DelayFor(proposals[p].class)
    /\ call.at \in status[p].executableAt..status[p].expiresAt
CallsAreAuthorised ==
    \A p \in PIds : \A call \in performed[p] : CallAuthorised(p, call)
CallsAreApproved ==
    \A p \in PIds : performed[p] # {} => ApprovedByBothHouses(p)
ExecutedOnce ==
    \A p \in PIds : \A c1, c2 \in performed[p] : c1 = c2

(* Once the voting window of a proposal has closed, its ballots and tallies  *)
(* never change again, and once finalized neither does its result.           *)
VoteFrozenStep ==
    \A p \in PIds : Registered(p) =>
        /\ now >= proposals[p].votingEndsAt =>
             UNCHANGED <<ballots[p], score[p], participants[p]>>
        /\ status[p].finalized => UNCHANGED approved[p] /\ status'[p].finalized
        /\ UNCHANGED proposals[p]
VoteFrozen == [][VoteFrozenStep]_vars

(* The electorate a vote is counted against is fixed: nobody changes house,  *)
(* and nobody joins a session that has started.                              *)
ElectorateFrozenStep ==
    \A s \in SIds, m \in Members :
        memberHouse'[s][m] # memberHouse[s][m] =>
            /\ memberHouse[s][m] = NoHouse
            /\ \A p \in PIds : proposals[p].session = s => now < proposals[p].votingStartsAt
            /\ now < sessions[s].startsAt
ElectorateFrozen == [][ElectorateFrozenStep]_vars

(* What a vote was counted from and against stays as it was: the ballots     *)
(* after their window, the result, and the electorate.                       *)
VoteStaysFixed == [][VoteFrozenStep /\ ElectorateFrozenStep]_vars

(* The phase of the abstract lifecycle a proposal is in; the clock plays no part. *)
PhaseOf(p) ==
    CASE ~Registered(p) -> "none"
      [] Registered(p) /\ status[p].executed -> "executed"
      [] Registered(p) /\ status[p].cancelled /\ ~status[p].executed -> "cancelled"
      [] Registered(p) /\ status[p].queued /\ ~status[p].cancelled /\ ~status[p].executed -> "timelocked"
      [] Registered(p) /\ status[p].reviewed /\ ~status[p].queued -> "reviewed"
      [] Registered(p) /\ status[p].finalized /\ ~status[p].reviewed ->
            IF JointlyApproved(p) THEN "approved" ELSE "rejected"
      [] OTHER -> "open"

Lifecycle == INSTANCE ProposalLifecycle WITH
    Ids <- PIds, MinDelay <- P1Delay, Window <- ExecutionWindow,
    clock <- now, phase <- [p \in PIds |-> PhaseOf(p)],
    readyAt <- [p \in PIds |-> status[p].executableAt],
    deadline <- [p \in PIds |-> status[p].expiresAt],
    called <- [p \in PIds |-> performed[p] # {}]

(* The governor implements the abstract lifecycle: every function is one of  *)
(* its steps, or a stutter, for every interleaving of callers.               *)
ImplementsLifecycle == Lifecycle!Spec

(* Every registered proposal is decided, whoever votes or does not.          *)
ProposalsAreDecided ==
    \A p \in PIds : Registered(p) ~> status[p].finalized
=============================================================================
