----------------------- MODULE BicameralGovernorProofs -----------------------
(***************************************************************************)
(* Proofs about BicameralGovernor for every set of members, sessions and   *)
(* proposals, every delay the constructor accepts and every bound.         *)
(*                                                                         *)
(* The last parts are about the relayer and a member's page beside it: what *)
(* they may sign is widened to anything (OpenSpec), the governor's own     *)
(* invariants hold of that, and what the two say is read off them.         *)
(***************************************************************************)
EXTENDS GovernancePage, SumTheorems

(* A vote, through any entry point, keeps the types of what it writes. *)
LEMMA VoteType ==
    ASSUME TypeOK, NEW p \in PIds, NEW m \in Members, NEW i \in Int, Vote(p, m, i)
    PROVE  /\ spentVoiceCredits' \in [SIds -> [Members -> Int]]
           /\ ballots' \in [PIds -> [Members -> Ballot]]
           /\ score' \in [PIds -> [Houses -> Int]]
           /\ participants' \in [PIds -> [Houses -> Nat]]
  <1> DEFINE h == HouseOf(p, m)
             s == proposals[p].session
  <1>1. s \in SIds /\ h \in Houses
    BY DEF Vote, Registered, TypeOK, Proposal, NoProposal
  <1>2. ballots[p][m] \in Ballot /\ i * i \in Int
    BY DEF TypeOK
  <1>3. NextSpent(p, m, i) \in Int /\ NextScore(p, m, i) \in Int /\ NextParticipants(p, m) \in Nat
    BY <1>1, <1>2 DEF NextSpent, NextScore, NextParticipants, TypeOK, Ballot
  <1>4. spentVoiceCredits' \in [SIds -> [Members -> Int]]
    BY <1>1, <1>3 DEF TypeOK, Vote
  <1>5. ballots' \in [PIds -> [Members -> Ballot]]
    BY <1>2 DEF TypeOK, Vote, Ballot
  <1>6. score' \in [PIds -> [Houses -> Int]]
    BY <1>1, <1>3 DEF TypeOK, Vote
  <1>7. participants' \in [PIds -> [Houses -> Nat]]
    BY <1>1, <1>3 DEF TypeOK, Vote
  <1> QED BY <1>4, <1>5, <1>6, <1>7

LEMMA TypeInit == Init => TypeOK
  BY BoundAssumption DEF Init, TypeOK, NoSession, NoProposal, NoBallot, Session, Ballot, Status,
        Verdicts, SIds, PIds

(* A step that writes only evidence, or only results, keeps every other type. *)
LEMMA EvidenceType ==
    ASSUME TypeOK,
           preVoteReview' \in [PIds -> Verdicts], deliberated' \in [PIds -> SUBSET Houses],
           testEvidence' \in [PIds -> [verdict : Verdicts, tested : SUBSET CallDatas]],
           constitutionalEvidence' \in [PIds -> BOOLEAN],
           UNCHANGED <<now, registryVars, proposalVars, ballotVars, resultVars, relayVars>>
    PROVE  TypeOK'
  <1> QED BY DEF TypeOK, registryVars, proposalVars, ballotVars, resultVars, relayVars

LEMMA ResultType ==
    ASSUME TypeOK,
           approved' \in [PIds -> SUBSET Houses], status' \in [PIds -> Status],
           performed' \in [PIds -> SUBSET [call : Payloads, at : Nat]],
           UNCHANGED <<now, registryVars, proposalVars, ballotVars, evidenceVars, relayVars>>
    PROVE  TypeOK'
  <1> QED BY DEF TypeOK, registryVars, proposalVars, ballotVars, evidenceVars, relayVars

(* Nothing but the listed variables changes in each of the steps below. *)
LEMMA TypeStep == TypeOK /\ [Next]_vars => TypeOK'
  <1> SUFFICES ASSUME TypeOK, [Next]_vars PROVE TypeOK'
    OBVIOUS
  <1> USE DEF registryVars, proposalVars, ballotVars, resultVars, evidenceVars, relayVars
  <1>1. CASE Tick
    BY <1>1 DEF Tick, TypeOK
  <1>2. ASSUME NEW c \in SessionConfigs, CreateSession(c) PROVE TypeOK'
    <2>1. c \in Session
      BY InputAssumption DEF Session
    <2>2. sessionCount + 1 \in 0..MaxSessions
      BY <1>2, BoundAssumption DEF CreateSession, TypeOK
    <2>3. sessions' \in [SIds -> Session]
      BY <1>2, <2>1 DEF CreateSession, TypeOK
    <2> QED BY <1>2, <2>2, <2>3 DEF CreateSession, TypeOK
  <1>3. ASSUME NEW s \in SIds, NEW m \in Members, NEW h \in Houses, RegisterMember(s, m, h)
        PROVE TypeOK'
    BY <1>3 DEF RegisterMember, TypeOK
  <1>4. ASSUME NEW s \in SIds, NEW class \in Classes, NEW payload \in Payloads,
               NEW w \in Windows, NewProposal(s, class, payload, w)
        PROVE /\ proposalCount + 1 \in PIds
              /\ proposalCount' \in 0..MaxProposals
              /\ proposals' \in [PIds -> Proposal \cup {NoProposal}]
    <2>1. [session |-> s, class |-> class, payload |-> payload,
           votingStartsAt |-> w.start, votingEndsAt |-> w.end] \in Proposal
      BY InputAssumption DEF Proposal
    <2> QED BY <1>4, <2>1, BoundAssumption DEF NewProposal, TypeOK, PIds
  <1>5. ASSUME NEW s \in SIds, NEW class \in Classes, NEW payload \in Payloads,
               NEW w \in Windows, RegisterProposal(s, class, payload, w)
        PROVE TypeOK'
    BY <1>4, <1>5 DEF RegisterProposal, NewProposal, TypeOK
  <1>6. ASSUME NEW s \in SIds, NEW class \in Classes, NEW payload \in Payloads,
               NEW w \in Windows, NEW k \in CfpRevisions,
               RegisterCfpProposal(k, s, class, payload, w)
        PROVE TypeOK'
    BY <1>4, <1>6, BoundAssumption DEF RegisterCfpProposal, NewProposal, TypeOK, PIds
  <1>7. ASSUME NEW p \in PIds, NEW h \in Houses, RecordHouseDeliberation(p, h) PROVE TypeOK'
    BY <1>7 DEF RecordHouseDeliberation, TypeOK
  <1>8. ASSUME NEW p \in PIds, NEW m \in Members, NEW i \in Intensities, CastVote(p, m, i)
        PROVE TypeOK'
    <2>1. i \in Int
      BY InputAssumption
    <2>2. Vote(p, m, i) /\ UNCHANGED relayVars
      BY <1>8 DEF CastVote
    <2> QED BY <2>1, <2>2, VoteType DEF Vote, TypeOK
  <1>9. ASSUME NEW p \in PIds, NEW m \in Members, NEW i \in Intensities, SignBallot(p, m, i)
        PROVE TypeOK'
    <2>1. proposals[p].session \in SIds /\ HouseOf(p, m) \in Houses
      BY <1>9 DEF SignBallot, Registered, TypeOK, Proposal, NoProposal
    <2>2. now + SignatureTTL \in Nat /\ i \in Int /\ votingNonces[m] \in Nat
      BY DelayAssumption, InputAssumption DEF TypeOK
    <2>3. [proposal |-> p, session |-> proposals[p].session, house |-> HouseOf(p, m),
           member |-> m, intensity |-> i, nonce |-> votingNonces[m],
           deadline |-> now + SignatureTTL] \in SignedBallot
      BY <2>1, <2>2 DEF SignedBallot
    <2> QED BY <1>9, <2>3 DEF SignBallot, TypeOK
  <1>10. ASSUME NEW b \in signed, CastCfpApprovalVoteBySig(b) PROVE TypeOK'
    <2>1. b.proposal \in PIds /\ b.member \in Members /\ b.intensity \in Int
      BY DEF TypeOK, SignedBallot
    <2>2. Vote(b.proposal, b.member, b.intensity)
      BY <1>10 DEF CastCfpApprovalVoteBySig
    <2>3. relayed' \subseteq signed' /\ signed' = signed
      BY <1>10 DEF CastCfpApprovalVoteBySig, TypeOK
    <2>4. votingNonces' \in [Members -> Nat]
      BY <1>10, <2>1 DEF CastCfpApprovalVoteBySig, TypeOK
    <2> QED BY <2>1, <2>2, <2>3, <2>4, VoteType DEF Vote, TypeOK
  <1>11. ASSUME NEW p \in PIds, NEW passed \in BOOLEAN, RecordPreVoteReview(p, passed)
         PROVE TypeOK'
    <2>1. preVoteReview' \in [PIds -> Verdicts]
      BY <1>11 DEF RecordPreVoteReview, TypeOK, Verdicts
    <2>2. UNCHANGED <<deliberated, testEvidence, constitutionalEvidence>>
      BY <1>11 DEF RecordPreVoteReview
    <2>3. UNCHANGED <<now, registryVars, proposalVars, ballotVars, resultVars, relayVars>>
      BY <1>11 DEF RecordPreVoteReview
    <2> QED BY <2>1, <2>2, <2>3, EvidenceType DEF TypeOK
  <1>12. ASSUME NEW p \in PIds, NEW c \in CallDatas, NEW passed \in BOOLEAN,
                RecordContractTestEvidence(p, c, passed)
         PROVE TypeOK'
    <2>1. testEvidence' = [testEvidence EXCEPT ![p] =
             [verdict |-> IF passed THEN "passed" ELSE "failed", tested |-> {c}]]
      BY <1>12 DEF RecordContractTestEvidence
    <2>2. [verdict |-> IF passed THEN "passed" ELSE "failed", tested |-> {c}]
             \in [verdict : Verdicts, tested : SUBSET CallDatas]
      BY DEF Verdicts
    <2>3. testEvidence' \in [PIds -> [verdict : Verdicts, tested : SUBSET CallDatas]]
      BY <2>1, <2>2 DEF TypeOK
    <2>4. UNCHANGED <<preVoteReview, deliberated, constitutionalEvidence>>
      BY <1>12 DEF RecordContractTestEvidence
    <2>5. UNCHANGED <<now, registryVars, proposalVars, ballotVars, resultVars, relayVars>>
      BY <1>12 DEF RecordContractTestEvidence
    <2> QED BY <2>3, <2>4, <2>5, EvidenceType DEF TypeOK
  <1>13. ASSUME NEW p \in PIds, RecordConstitutionalEvidence(p) PROVE TypeOK'
    <2>1. constitutionalEvidence' \in [PIds -> BOOLEAN]
      BY <1>13 DEF RecordConstitutionalEvidence, TypeOK
    <2>2. UNCHANGED <<preVoteReview, deliberated, testEvidence>>
      BY <1>13 DEF RecordConstitutionalEvidence
    <2>3. UNCHANGED <<now, registryVars, proposalVars, ballotVars, resultVars, relayVars>>
      BY <1>13 DEF RecordConstitutionalEvidence
    <2> QED BY <2>1, <2>2, <2>3, EvidenceType DEF TypeOK
  <1>14. ASSUME NEW p \in PIds, RecordReview(p) PROVE TypeOK'
    <2>1. status' = [status EXCEPT ![p] = [@ EXCEPT !.reviewed = TRUE]]
      BY <1>14 DEF RecordReview
    <2>2. status[p] \in Status
      BY DEF TypeOK
    <2>3. [status[p] EXCEPT !.reviewed = TRUE] \in Status
      BY <2>2 DEF Status
    <2>4. status' \in [PIds -> Status]
      BY <2>1, <2>3 DEF TypeOK
    <2>5. approved' = approved /\ performed' = performed
      BY <1>14 DEF RecordReview
    <2>6. UNCHANGED <<now, registryVars, proposalVars, ballotVars, evidenceVars, relayVars>>
      BY <1>14 DEF RecordReview
    <2> QED BY <2>4, <2>5, <2>6, ResultType DEF TypeOK
  <1>15. ASSUME NEW p \in PIds, FinalizeProposal(p) PROVE TypeOK'
    <2>1. status' = [status EXCEPT ![p] = [@ EXCEPT !.finalized = TRUE]]
      BY <1>15 DEF FinalizeProposal
    <2>2. status[p] \in Status
      BY DEF TypeOK
    <2>3. [status[p] EXCEPT !.finalized = TRUE] \in Status
      BY <2>2 DEF Status
    <2>4. status' \in [PIds -> Status]
      BY <2>1, <2>3 DEF TypeOK
    <2>5. approved' \in [PIds -> SUBSET Houses] /\ performed' = performed
      BY <1>15 DEF FinalizeProposal, TypeOK
    <2>6. UNCHANGED <<now, registryVars, proposalVars, ballotVars, evidenceVars, relayVars>>
      BY <1>15 DEF FinalizeProposal
    <2> QED BY <2>4, <2>5, <2>6, ResultType DEF TypeOK
  <1>16. ASSUME NEW p \in PIds, QueueProposal(p) PROVE TypeOK'
    <2>1. proposals[p].class \in ChangeClasses
      BY <1>16 DEF QueueProposal, Registered, TypeOK, Proposal, NoProposal
    <2>2. DelayFor(proposals[p].class) \in Nat
      BY <2>1, DelayAssumption DEF DelayFor, ChangeClasses
    <2> DEFINE at == now + DelayFor(proposals[p].class)
    <2>3. at \in Nat /\ at + ExecutionWindow \in Nat
      BY <2>2, DelayAssumption DEF TypeOK
    <2>4. status' \in [PIds -> Status]
      <3> HIDE DEF at
      <3>1. status' = [status EXCEPT ![p] = [@ EXCEPT !.executableAt = at,
                            !.expiresAt = at + ExecutionWindow, !.queued = TRUE]]
        BY <1>16 DEF QueueProposal, at
      <3>2. status[p] \in Status
        BY DEF TypeOK
      <3>3. [status[p] EXCEPT !.executableAt = at, !.expiresAt = at + ExecutionWindow,
                              !.queued = TRUE] \in Status
        BY <3>2, <2>3 DEF Status
      <3> QED BY <3>1, <3>3 DEF TypeOK
    <2>5. approved' = approved /\ performed' = performed
      BY <1>16 DEF QueueProposal
    <2>6. UNCHANGED <<now, registryVars, proposalVars, ballotVars, evidenceVars, relayVars>>
      BY <1>16 DEF QueueProposal
    <2> QED BY <2>4, <2>5, <2>6, ResultType DEF TypeOK
  <1>17. ASSUME NEW p \in PIds, NEW c \in Payloads, ExecuteProposal(p, c) PROVE TypeOK'
    <2>1. [call |-> c, at |-> now] \in [call : Payloads, at : Nat]
      BY DEF TypeOK
    <2>2. performed' = [performed EXCEPT ![p] = @ \cup {[call |-> c, at |-> now]}]
      BY <1>17 DEF ExecuteProposal
    <2>3. performed' \in [PIds -> SUBSET [call : Payloads, at : Nat]]
      BY <2>1, <2>2 DEF TypeOK
    <2>4. status' = [status EXCEPT ![p] = [@ EXCEPT !.executed = TRUE]]
      BY <1>17 DEF ExecuteProposal
    <2>5. status[p] \in Status
      BY DEF TypeOK
    <2>6. [status[p] EXCEPT !.executed = TRUE] \in Status
      BY <2>5 DEF Status
    <2>7. status' \in [PIds -> Status]
      BY <2>4, <2>6 DEF TypeOK
    <2>8. approved' = approved
      BY <1>17 DEF ExecuteProposal
    <2>9. UNCHANGED <<now, registryVars, proposalVars, ballotVars, evidenceVars, relayVars>>
      BY <1>17 DEF ExecuteProposal
    <2> QED BY <2>3, <2>7, <2>8, <2>9, ResultType DEF TypeOK
  <1>18. ASSUME NEW p \in PIds, CancelQueuedProposal(p) PROVE TypeOK'
    <2>1. status' = [status EXCEPT ![p] = [@ EXCEPT !.cancelled = TRUE]]
      BY <1>18 DEF CancelQueuedProposal
    <2>2. status[p] \in Status
      BY DEF TypeOK
    <2>3. [status[p] EXCEPT !.cancelled = TRUE] \in Status
      BY <2>2 DEF Status
    <2>4. status' \in [PIds -> Status]
      BY <2>1, <2>3 DEF TypeOK
    <2>5. approved' = approved /\ performed' = performed
      BY <1>18 DEF CancelQueuedProposal
    <2>6. UNCHANGED <<now, registryVars, proposalVars, ballotVars, evidenceVars, relayVars>>
      BY <1>18 DEF CancelQueuedProposal
    <2> QED BY <2>4, <2>5, <2>6, ResultType DEF TypeOK
  <1>19. CASE UNCHANGED vars
    BY <1>19 DEF vars, TypeOK
  <1> QED
    BY <1>1, <1>2, <1>3, <1>5, <1>6, <1>7, <1>8, <1>9, <1>10, <1>11, <1>12, <1>13, <1>14,
       <1>15, <1>16, <1>17, <1>18, <1>19
       DEF Next, RegistrarStep, MemberStep, ReviewerStep, OutcomeStep, CastCfpApprovalVote

(* Every mapping of the contract keeps its declared type. *)
THEOREM TypeCorrect == Spec => []TypeOK
  BY TypeInit, TypeStep, PTL DEF Spec

------------------------------------------------------------------------------
(* The inductive invariant: what the flags, times and evidence of a proposal *)
(* imply of one another, in the order the contract lets them be set.         *)

(* Proposal ids are handed out in order. *)
NewestUnused == \A p \in PIds : p > proposalCount => proposals[p] = NoProposal

(* A proposal not yet registered has storage of zeros. *)
BlankUntilRegistered ==
    \A p \in PIds : ~Registered(p) =>
        /\ ~status[p].finalized /\ ~status[p].reviewed /\ ~status[p].queued
        /\ ~status[p].executed /\ ~status[p].cancelled
        /\ testEvidence[p].verdict = "none" /\ performed[p] = {}

(* The flags are set in order, and what a stage was entered on stays true. *)
StagesInOrder ==
    \A p \in PIds :
        /\ status[p].executed \/ status[p].cancelled => status[p].queued
        /\ ~(status[p].executed /\ status[p].cancelled)
        /\ status[p].queued => status[p].reviewed
        /\ status[p].reviewed => JointlyApproved(p) /\ ReviewEvidenceComplete(p)
        /\ status[p].finalized => now >= proposals[p].votingEndsAt

EvidenceIsOfTheCall ==
    \A p \in PIds : testEvidence[p].verdict # "none" =>
        testEvidence[p].tested = {proposals[p].payload.callData}

TimelockIsLongEnough ==
    \A p \in PIds : status[p].queued =>
        /\ status[p].executableAt >= proposals[p].votingEndsAt + DelayFor(proposals[p].class)
        /\ status[p].expiresAt = status[p].executableAt + ExecutionWindow

CallInWindow ==
    \A p \in PIds :
        /\ status[p].executed <=> performed[p] # {}
        /\ \A x, y \in performed[p] : x = y
        /\ \A x \in performed[p] :
              /\ x.call = proposals[p].payload
              /\ x.at \in status[p].executableAt..status[p].expiresAt

(* A proposal's session exists, and its vote starts with the session or later. *)
SessionBeforeVote ==
    \A p \in PIds : Registered(p) =>
        /\ proposals[p].session <= sessionCount
        /\ proposals[p].votingStartsAt >= sessions[proposals[p].session].startsAt

OutcomeInv ==
    /\ NewestUnused /\ BlankUntilRegistered /\ StagesInOrder /\ EvidenceIsOfTheCall
    /\ TimelockIsLongEnough /\ CallInWindow /\ SessionBeforeVote

(* The variables OutcomeInv is about. *)
outcomeVars == <<now, sessionCount, sessions, proposalCount, proposals, approved, status,
                 testEvidence, constitutionalEvidence, performed>>

LEMMA OutcomeInit == Init => OutcomeInv
  BY DEF Init, OutcomeInv, NewestUnused, BlankUntilRegistered, StagesInOrder,
         EvidenceIsOfTheCall, TimelockIsLongEnough, CallInWindow, SessionBeforeVote,
         Registered, NoProposal

LEMMA QuietStep == ASSUME OutcomeInv, UNCHANGED outcomeVars PROVE OutcomeInv'
  BY DEF outcomeVars, OutcomeInv, NewestUnused, BlankUntilRegistered, StagesInOrder,
         EvidenceIsOfTheCall, TimelockIsLongEnough, CallInWindow, SessionBeforeVote,
         Registered, JointlyApproved, ReviewEvidenceComplete

(* A registered proposal's class has a delay, no shorter than the P1 delay. *)
LEMMA DelayBounds ==
    ASSUME TypeOK, NEW p \in PIds, Registered(p)
    PROVE  /\ proposals[p] \in Proposal
           /\ DelayFor(proposals[p].class) \in Nat
           /\ DelayFor(proposals[p].class) >= P1Delay
  <1>1. proposals[p] \in Proposal
    BY DEF TypeOK, Registered, NoProposal
  <1>2. proposals[p].class \in ChangeClasses
    BY <1>1 DEF Proposal
  <1> QED BY <1>1, <1>2, DelayAssumption DEF DelayFor, ChangeClasses

(* Registration takes the next id, whose storage is blank. *)
LEMMA NewProposalStep ==
    ASSUME TypeOK, OutcomeInv, NEW s \in SIds, NEW class \in Classes, NEW payload \in Payloads,
           NEW w \in Windows, NewProposal(s, class, payload, w)
    PROVE  OutcomeInv'
  <1> USE DEF registryVars, resultVars, evidenceVars
  <1>0. proposalCount + 1 \in PIds
    BY BoundAssumption DEF NewProposal, TypeOK, PIds
  <1> PICK new \in PIds : new = proposalCount + 1
    BY <1>0
  <1>1. ~Registered(new)
    <2>1. new > proposalCount
      BY DEF TypeOK
    <2> QED BY <2>1 DEF OutcomeInv, NewestUnused, Registered, NoProposal
  <1>2. \A q \in PIds : q # new => proposals'[q] = proposals[q]
    BY DEF NewProposal, TypeOK
  <1>3. /\ proposals'[new].session = s /\ proposals'[new].votingStartsAt = w.start
        /\ Registered(new)'
    <2>1. proposals'[new] = [session |-> s, class |-> class, payload |-> payload,
                             votingStartsAt |-> w.start, votingEndsAt |-> w.end]
      BY <1>1 DEF NewProposal, TypeOK
    <2>2. s # 0
      BY DEF SIds
    <2> QED BY <2>1, <2>2 DEF Registered
  <1>4. UNCHANGED <<now, sessionCount, sessions, approved, status, testEvidence,
                    constitutionalEvidence, performed>>
    BY DEF NewProposal
  <1>5. ~status[new].finalized /\ ~status[new].reviewed /\ ~status[new].queued
        /\ ~status[new].executed /\ ~status[new].cancelled
        /\ testEvidence[new].verdict = "none" /\ performed[new] = {}
    BY <1>1 DEF OutcomeInv, BlankUntilRegistered
  <1>6. NewestUnused'
    <2>1. \A q \in PIds : q > proposalCount' => q # new /\ q > proposalCount
      BY DEF NewProposal, TypeOK, PIds
    <2> QED BY <1>2, <2>1 DEF OutcomeInv, NewestUnused
  <1>7. SessionBeforeVote'
    BY <1>2, <1>3, <1>4, InputAssumption DEF NewProposal, OutcomeInv, SessionBeforeVote, Registered
  <1>8. BlankUntilRegistered' /\ StagesInOrder'
    BY <1>2, <1>3, <1>4, <1>5 DEF OutcomeInv, BlankUntilRegistered, StagesInOrder, Registered,
                                  JointlyApproved, ReviewEvidenceComplete
  <1>9. EvidenceIsOfTheCall' /\ TimelockIsLongEnough' /\ CallInWindow'
    BY <1>2, <1>4, <1>5 DEF OutcomeInv, EvidenceIsOfTheCall, TimelockIsLongEnough, CallInWindow
  <1> QED BY <1>6, <1>7, <1>8, <1>9 DEF OutcomeInv

LEMMA OutcomeStepInv == TypeOK /\ TypeOK' /\ OutcomeInv /\ [Next]_vars => OutcomeInv'
  <1> SUFFICES ASSUME TypeOK, TypeOK', OutcomeInv, [Next]_vars PROVE OutcomeInv'
    OBVIOUS
  <1> USE DEF registryVars, proposalVars, ballotVars, evidenceVars, resultVars, relayVars
  <1>1. CASE Tick
    <2>1. now' >= now /\ now \in Nat /\ now' \in Nat
      BY <1>1 DEF Tick, TypeOK
    <2>2. StagesInOrder'
      <3>1. \A q \in PIds : proposals[q].votingEndsAt \in Nat
        BY DEF TypeOK, Proposal, NoProposal
      <3> QED BY <1>1, <2>1, <3>1 DEF Tick, OutcomeInv, StagesInOrder, JointlyApproved,
                                ReviewEvidenceComplete
    <2> QED BY <1>1, <2>2 DEF Tick, OutcomeInv, NewestUnused, BlankUntilRegistered, Registered,
                  EvidenceIsOfTheCall, TimelockIsLongEnough, CallInWindow, SessionBeforeVote
  <1>2. ASSUME NEW c \in SessionConfigs, CreateSession(c) PROVE OutcomeInv'
    <2>1. \A q \in PIds : Registered(q) => proposals[q].session \in SIds
      BY DEF TypeOK, Proposal, NoProposal, Registered
    <2>2. \A s \in SIds : s <= sessionCount => s # sessionCount + 1 /\ s <= sessionCount'
      BY <1>2 DEF CreateSession, TypeOK, SIds
    <2>3. \A s \in SIds : s # sessionCount + 1 => sessions'[s] = sessions[s]
      BY <1>2 DEF CreateSession, TypeOK
    <2>4. SessionBeforeVote'
      BY <1>2, <2>1, <2>2, <2>3 DEF CreateSession, OutcomeInv, SessionBeforeVote, Registered
    <2> QED BY <1>2, <2>4 DEF CreateSession, OutcomeInv, NewestUnused, BlankUntilRegistered,
                  Registered, StagesInOrder, EvidenceIsOfTheCall, TimelockIsLongEnough,
                  CallInWindow, JointlyApproved, ReviewEvidenceComplete
  <1>3. ASSUME NEW s \in SIds, NEW class \in Classes, NEW payload \in Payloads,
               NEW w \in Windows, NewProposal(s, class, payload, w)
        PROVE OutcomeInv'
    BY <1>3, NewProposalStep
  <1>4. ASSUME NEW p \in PIds, NEW c \in CallDatas, NEW passed \in BOOLEAN,
               RecordContractTestEvidence(p, c, passed)
        PROVE OutcomeInv'
    <2>1. ~status[p].reviewed /\ Registered(p) /\ testEvidence'[p].tested = {c}
          /\ c = proposals[p].payload.callData
      BY <1>4 DEF RecordContractTestEvidence, TestedAsApproved, TypeOK
    <2>2. \A q \in PIds : q # p => testEvidence'[q] = testEvidence[q]
      BY <1>4 DEF RecordContractTestEvidence, TypeOK
    <2>3. UNCHANGED <<now, sessionCount, sessions, proposalCount, proposals, approved, status,
                      constitutionalEvidence, performed>>
      BY <1>4 DEF RecordContractTestEvidence
    <2>4. EvidenceIsOfTheCall' /\ StagesInOrder' /\ BlankUntilRegistered'
      BY <2>1, <2>2, <2>3 DEF OutcomeInv, EvidenceIsOfTheCall, StagesInOrder, Registered,
             BlankUntilRegistered, JointlyApproved, ReviewEvidenceComplete
    <2> QED BY <2>3, <2>4 DEF OutcomeInv, NewestUnused, TimelockIsLongEnough, CallInWindow,
                  SessionBeforeVote, Registered
  <1>5. ASSUME NEW p \in PIds, RecordConstitutionalEvidence(p) PROVE OutcomeInv'
    <2>1. \A q \in PIds : constitutionalEvidence[q] => constitutionalEvidence'[q]
      BY <1>5 DEF RecordConstitutionalEvidence, TypeOK
    <2> QED BY <1>5, <2>1 DEF RecordConstitutionalEvidence, OutcomeInv, NewestUnused,
                  BlankUntilRegistered, StagesInOrder, EvidenceIsOfTheCall, JointlyApproved,
                  ReviewEvidenceComplete, TimelockIsLongEnough, CallInWindow,
                  SessionBeforeVote, Registered
  <1>6. ASSUME NEW p \in PIds, RecordReview(p) PROVE OutcomeInv'
    <2>1. status'[p] = [status[p] EXCEPT !.reviewed = TRUE]
          /\ \A q \in PIds : q # p => status'[q] = status[q]
      BY <1>6 DEF RecordReview, TypeOK
    <2>2. status[p] \in Status /\ Registered(p) /\ ~status[p].queued
          /\ JointlyApproved(p) /\ ReviewEvidenceComplete(p)
      BY <1>6 DEF RecordReview, TypeOK
    <2>3. UNCHANGED <<now, sessionCount, sessions, proposalCount, proposals, approved,
                      testEvidence, constitutionalEvidence, performed>>
      BY <1>6 DEF RecordReview
    <2>4. /\ status'[p].reviewed
          /\ status'[p].finalized = status[p].finalized /\ status'[p].queued = status[p].queued
          /\ status'[p].executed = status[p].executed /\ status'[p].cancelled = status[p].cancelled
          /\ status'[p].executableAt = status[p].executableAt
          /\ status'[p].expiresAt = status[p].expiresAt
      BY <2>1, <2>2 DEF Status
    <2>5. StagesInOrder'
      BY <2>1, <2>2, <2>3, <2>4 DEF OutcomeInv, StagesInOrder, JointlyApproved,
         ReviewEvidenceComplete
    <2>6. BlankUntilRegistered' /\ TimelockIsLongEnough' /\ CallInWindow'
      <3>1. BlankUntilRegistered'
        BY <2>1, <2>2, <2>3 DEF OutcomeInv, BlankUntilRegistered, Registered
      <3>2. TimelockIsLongEnough'
        BY <2>1, <2>3, <2>4 DEF OutcomeInv, TimelockIsLongEnough
      <3>3. CallInWindow'
        BY <2>1, <2>3, <2>4 DEF OutcomeInv, CallInWindow
      <3> QED BY <3>1, <3>2, <3>3
    <2> QED BY <2>3, <2>5, <2>6 DEF OutcomeInv, NewestUnused, EvidenceIsOfTheCall,
                  SessionBeforeVote, Registered
  <1>7. ASSUME NEW p \in PIds, FinalizeProposal(p) PROVE OutcomeInv'
    <2>1. status'[p] = [status[p] EXCEPT !.finalized = TRUE]
          /\ \A q \in PIds : q # p => status'[q] = status[q] /\ approved'[q] = approved[q]
      BY <1>7 DEF FinalizeProposal, TypeOK
    <2>2. status[p] \in Status /\ Registered(p) /\ ~FinalState(p) /\ VotingEnded(p)
      BY <1>7 DEF FinalizeProposal, TypeOK
    <2>3. UNCHANGED <<now, sessionCount, sessions, proposalCount, proposals,
                      testEvidence, constitutionalEvidence, performed>>
      BY <1>7 DEF FinalizeProposal
    <2>4. /\ status'[p].finalized
          /\ status'[p].reviewed = status[p].reviewed /\ status'[p].queued = status[p].queued
          /\ status'[p].executed = status[p].executed /\ status'[p].cancelled = status[p].cancelled
          /\ status'[p].executableAt = status[p].executableAt
          /\ status'[p].expiresAt = status[p].expiresAt
      BY <2>1, <2>2 DEF Status
    <2>5. ~status[p].reviewed /\ ~status[p].queued /\ ~status[p].executed
      BY <2>2 DEF OutcomeInv, StagesInOrder, JointlyApproved, FinalState
    <2>6. StagesInOrder'
      <3>1. StagesInOrder!(p)'
        BY <2>2, <2>3, <2>4, <2>5 DEF OutcomeInv, StagesInOrder, VotingEnded
      <3>2. ASSUME NEW q \in PIds, q # p PROVE StagesInOrder!(q)'
        <4>1. StagesInOrder!(q)
          BY DEF OutcomeInv, StagesInOrder
        <4> QED BY <2>1, <2>3, <3>2, <4>1 DEF JointlyApproved, ReviewEvidenceComplete
      <3> QED BY <3>1, <3>2 DEF StagesInOrder
    <2>7. BlankUntilRegistered' /\ TimelockIsLongEnough' /\ CallInWindow'
      <3>1. BlankUntilRegistered'
        BY <2>1, <2>2, <2>3 DEF OutcomeInv, BlankUntilRegistered, Registered
      <3>2. \A q \in PIds : /\ status'[q].queued = status[q].queued
                            /\ status'[q].executed = status[q].executed
                            /\ status'[q].executableAt = status[q].executableAt
                            /\ status'[q].expiresAt = status[q].expiresAt
        BY <2>1, <2>4
      <3>3. TimelockIsLongEnough'
        <4>1. TimelockIsLongEnough
          BY DEF OutcomeInv
        <4> QED BY <2>3, <3>2, <4>1 DEF TimelockIsLongEnough
      <3>4. CallInWindow'
        <4>1. CallInWindow
          BY DEF OutcomeInv
        <4> QED BY <2>3, <3>2, <4>1 DEF CallInWindow
      <3> QED BY <3>1, <3>3, <3>4
    <2> QED BY <2>3, <2>6, <2>7 DEF OutcomeInv, NewestUnused, EvidenceIsOfTheCall,
                  SessionBeforeVote, Registered
  <1>8. ASSUME NEW p \in PIds, QueueProposal(p) PROVE OutcomeInv'
    <2> DEFINE at == now + DelayFor(proposals[p].class)
    <2>1. status[p] \in Status /\ Registered(p) /\ Queueable(p) /\ JointlyApproved(p)
      BY <1>8 DEF QueueProposal, TypeOK
    <2>2. /\ status' = [status EXCEPT ![p] = [@ EXCEPT !.executableAt = at,
                                !.expiresAt = at + ExecutionWindow, !.queued = TRUE]]
          /\ UNCHANGED <<now, sessionCount, sessions, proposalCount, proposals, approved,
                         testEvidence, constitutionalEvidence, performed>>
      BY <1>8 DEF QueueProposal
    <2>3. at >= proposals[p].votingEndsAt + DelayFor(proposals[p].class)
      <3>1. status[p].finalized
        BY <2>1 DEF JointlyApproved
      <3>2. now >= proposals[p].votingEndsAt
        BY <3>1 DEF OutcomeInv, StagesInOrder
      <3>3. proposals[p] \in Proposal /\ DelayFor(proposals[p].class) \in Nat
        BY <2>1, DelayBounds
      <3> QED BY <3>2, <3>3 DEF TypeOK, Proposal
    <2>4. performed[p] = {}
      BY <2>1 DEF OutcomeInv, CallInWindow, Queueable
    <2> HIDE DEF at
    <2>5. \A q \in PIds : q # p => status'[q] = status[q]
      BY <2>2 DEF TypeOK
    <2>6. /\ status'[p].queued
          /\ status'[p].finalized = status[p].finalized /\ status'[p].reviewed = status[p].reviewed
          /\ status'[p].executed = status[p].executed /\ status'[p].cancelled = status[p].cancelled
          /\ status'[p].executableAt = at /\ status'[p].expiresAt = at + ExecutionWindow
      BY <2>1, <2>2 DEF Status, TypeOK
    <2> QED BY <2>1, <2>2, <2>3, <2>4, <2>5, <2>6 DEF OutcomeInv, NewestUnused, Queueable,
                  BlankUntilRegistered, StagesInOrder, EvidenceIsOfTheCall, JointlyApproved,
                  ReviewEvidenceComplete, TimelockIsLongEnough, CallInWindow,
                  SessionBeforeVote, Registered
  <1>9. ASSUME NEW p \in PIds, NEW c \in Payloads, ExecuteProposal(p, c) PROVE OutcomeInv'
    <2> DEFINE call == [call |-> c, at |-> now]
    <2>1. /\ status[p] \in Status /\ Registered(p) /\ Executable(p) /\ c = proposals[p].payload
          /\ status' = [status EXCEPT ![p] = [@ EXCEPT !.executed = TRUE]]
          /\ UNCHANGED <<now, sessionCount, sessions, proposalCount, proposals, approved,
                         testEvidence, constitutionalEvidence>>
      BY <1>9 DEF ExecuteProposal, CallMatches, TypeOK
    <2>2. performed[p] = {}
      BY <2>1 DEF OutcomeInv, CallInWindow, Executable
    <2>3. performed'[p] = {call} /\ call.call = c /\ call.at = now
      BY <1>9, <2>2 DEF ExecuteProposal, TypeOK
    <2>4. \A q \in PIds : q # p => status'[q] = status[q] /\ performed'[q] = performed[q]
      BY <1>9 DEF ExecuteProposal, TypeOK
    <2>5. now \in status[p].executableAt..status[p].expiresAt
      BY <2>1 DEF Executable, TypeOK, Status
    <2>6. /\ status'[p].executed
          /\ status'[p].finalized = status[p].finalized /\ status'[p].reviewed = status[p].reviewed
          /\ status'[p].queued = status[p].queued /\ status'[p].cancelled = status[p].cancelled
          /\ status'[p].executableAt = status[p].executableAt
          /\ status'[p].expiresAt = status[p].expiresAt
      BY <2>1 DEF Status, TypeOK
    <2>7. CallInWindow'
      <3> HIDE DEF call
      <3> QED BY <2>1, <2>3, <2>4, <2>5, <2>6 DEF OutcomeInv, CallInWindow
    <2> QED BY <2>1, <2>4, <2>6, <2>7 DEF OutcomeInv, NewestUnused, Executable,
                  BlankUntilRegistered, StagesInOrder, EvidenceIsOfTheCall, JointlyApproved,
                  ReviewEvidenceComplete, TimelockIsLongEnough, SessionBeforeVote, Registered
  <1>10. ASSUME NEW p \in PIds, CancelQueuedProposal(p) PROVE OutcomeInv'
    <2>1. /\ status[p] \in Status /\ Registered(p) /\ status[p].queued /\ ~status[p].executed
          /\ status' = [status EXCEPT ![p] = [@ EXCEPT !.cancelled = TRUE]]
          /\ UNCHANGED <<now, sessionCount, sessions, proposalCount, proposals, approved,
                         testEvidence, constitutionalEvidence, performed>>
      BY <1>10 DEF CancelQueuedProposal, TypeOK
    <2>2. \A q \in PIds : q # p => status'[q] = status[q]
      BY <2>1 DEF TypeOK
    <2>3. /\ status'[p].cancelled
          /\ status'[p].finalized = status[p].finalized /\ status'[p].reviewed = status[p].reviewed
          /\ status'[p].queued = status[p].queued /\ status'[p].executed = status[p].executed
          /\ status'[p].executableAt = status[p].executableAt
          /\ status'[p].expiresAt = status[p].expiresAt
      BY <2>1 DEF Status, TypeOK
    <2> QED BY <2>1, <2>2, <2>3 DEF OutcomeInv, NewestUnused,
                  BlankUntilRegistered, StagesInOrder, EvidenceIsOfTheCall, JointlyApproved,
                  ReviewEvidenceComplete, TimelockIsLongEnough, CallInWindow,
                  SessionBeforeVote, Registered
  <1>11. ASSUME NEW s \in SIds, NEW m \in Members, NEW h \in Houses, RegisterMember(s, m, h)
         PROVE OutcomeInv'
    BY <1>11, QuietStep DEF RegisterMember, outcomeVars
  <1>12. ASSUME NEW p \in PIds, NEW h \in Houses, RecordHouseDeliberation(p, h) PROVE OutcomeInv'
    BY <1>12, QuietStep DEF RecordHouseDeliberation, outcomeVars
  <1>13. ASSUME NEW p \in PIds, NEW passed \in BOOLEAN, RecordPreVoteReview(p, passed)
         PROVE OutcomeInv'
    BY <1>13, QuietStep DEF RecordPreVoteReview, outcomeVars
  <1>14. ASSUME NEW p \in PIds, NEW m \in Members, NEW i \in Intensities, SignBallot(p, m, i)
         PROVE OutcomeInv'
    BY <1>14, QuietStep DEF SignBallot, outcomeVars
  <1>15. ASSUME NEW p, NEW m, NEW i, Vote(p, m, i) PROVE OutcomeInv'
    BY <1>15, QuietStep DEF Vote, outcomeVars
  <1>16. CASE UNCHANGED vars
    BY <1>16, QuietStep DEF vars, outcomeVars
  <1>17. ASSUME MemberStep PROVE OutcomeInv'
    BY <1>17, <1>14, <1>15 DEF MemberStep, CastVote, CastCfpApprovalVote, CastCfpApprovalVoteBySig
  <1>18. ASSUME RegistrarStep PROVE OutcomeInv'
    BY <1>18, <1>2, <1>3, <1>11, <1>12 DEF RegistrarStep, RegisterProposal, RegisterCfpProposal
  <1>19. ASSUME ReviewerStep PROVE OutcomeInv'
    BY <1>19, <1>4, <1>5, <1>6, <1>13 DEF ReviewerStep
  <1>20. ASSUME OutcomeStep PROVE OutcomeInv'
    BY <1>20, <1>7, <1>8, <1>9, <1>10 DEF OutcomeStep
  <1> QED BY <1>1, <1>16, <1>17, <1>18, <1>19, <1>20 DEF Next

LEMMA OutcomeCorrect == Spec => [](TypeOK /\ OutcomeInv)
  <1>1. TypeOK /\ OutcomeInv /\ [Next]_vars => (TypeOK /\ OutcomeInv)'
    BY TypeStep, OutcomeStepInv
  <1> QED BY <1>1, TypeInit, OutcomeInit, PTL DEF Spec

LEMMA AuthorisedByInv == TypeOK /\ OutcomeInv => CallsAreAuthorised
  <1> SUFFICES ASSUME TypeOK, OutcomeInv, NEW p \in PIds, NEW call \in performed[p]
               PROVE  CallAuthorised(p, call)
    BY DEF CallsAreAuthorised
  <1>1. /\ status[p].executed /\ ~status[p].cancelled /\ status[p].queued /\ status[p].reviewed
        /\ ReviewEvidenceComplete(p)
    BY DEF OutcomeInv, CallInWindow, StagesInOrder
  <1>2. call.call = proposals[p].payload /\ call.at \in status[p].executableAt..status[p].expiresAt
    BY DEF OutcomeInv, CallInWindow
  <1>3. testEvidence[p] = [verdict |-> "passed", tested |-> {call.call.callData}]
    <2>1. /\ testEvidence[p].verdict = "passed"
          /\ testEvidence[p].tested = {proposals[p].payload.callData}
      BY <1>1 DEF OutcomeInv, EvidenceIsOfTheCall, ReviewEvidenceComplete
    <2>2. testEvidence[p] \in [verdict : Verdicts, tested : SUBSET CallDatas]
      BY DEF TypeOK
    <2> QED BY <2>1, <2>2, <1>2
  <1>4. call.at >= proposals[p].votingEndsAt + DelayFor(proposals[p].class)
    <2>1. Registered(p)
      BY <1>1 DEF OutcomeInv, BlankUntilRegistered
    <2>2. status[p].executableAt >= proposals[p].votingEndsAt + DelayFor(proposals[p].class)
      BY <1>1 DEF OutcomeInv, TimelockIsLongEnough
    <2> QED BY <1>2, <2>1, <2>2, DelayBounds DEF TypeOK, Status, Proposal
  <1> QED BY <1>1, <1>2, <1>3, <1>4 DEF CallAuthorised, ReviewEvidenceComplete

(* executeProposal calls the target only as a jointly approved, tested and   *)
(* reviewed proposal allows, inside its own timelock window.                 *)
THEOREM ExecutionAuthorised == Spec => []CallsAreAuthorised
  BY AuthorisedByInv, OutcomeCorrect, PTL

(* executeProposal's call is made at most once for each proposal. *)
THEOREM ExecutionOnce == Spec => []ExecutedOnce
  <1>1. OutcomeInv => ExecutedOnce
    BY DEF OutcomeInv, CallInWindow, ExecutedOnce
  <1> QED BY <1>1, OutcomeCorrect, PTL

------------------------------------------------------------------------------
(* What a step may never do. *)

(* The electorate is fixed once the session has started: the vote of none of *)
(* the session's proposals is open while anyone can still join.              *)
THEOREM ElectorateIsFrozen == Spec => ElectorateFrozen
  <1>1. ASSUME TypeOK, OutcomeInv, [Next]_vars PROVE [ElectorateFrozenStep]_vars
    <2> SUFFICES ASSUME Next PROVE ElectorateFrozenStep
      BY <1>1
    <2> USE <1>1
    <2> USE DEF registryVars
    <2>1. ASSUME NEW s \in SIds, NEW m \in Members, NEW h \in Houses, RegisterMember(s, m, h)
          PROVE  ElectorateFrozenStep
      <3> SUFFICES ASSUME NEW t \in SIds, NEW n \in Members,
                          memberHouse'[t][n] # memberHouse[t][n]
                   PROVE  /\ memberHouse[t][n] = NoHouse
                          /\ \A p \in PIds : proposals[p].session = t =>
                                now < proposals[p].votingStartsAt
                          /\ now < sessions[t].startsAt
        BY DEF ElectorateFrozenStep
      <3>1. t = s /\ n = m
        BY <2>1 DEF RegisterMember, TypeOK
      <3>2. memberHouse[t][n] = NoHouse /\ now < sessions[t].startsAt
        BY <2>1, <3>1 DEF RegisterMember, MembershipOpen
      <3>3. ASSUME NEW p \in PIds, proposals[p].session = t
            PROVE  now < proposals[p].votingStartsAt
        <4>1. Registered(p)
          BY <3>3 DEF Registered, SIds
        <4>2. proposals[p].votingStartsAt >= sessions[t].startsAt
          BY <3>3, <4>1 DEF OutcomeInv, SessionBeforeVote
        <4>3. proposals[p].votingStartsAt \in Nat
          BY <4>1, DelayBounds DEF Proposal
        <4>4. now \in Nat /\ sessions[t].startsAt \in Nat
          BY DEF TypeOK, Session
        <4> QED BY <3>2, <4>2, <4>3, <4>4
      <3> QED BY <3>2, <3>3
    <2>2. ASSUME UNCHANGED memberHouse PROVE ElectorateFrozenStep
      BY <2>2 DEF ElectorateFrozenStep
    <2>3. ASSUME NEW p, NEW m, NEW i, Vote(p, m, i) PROVE UNCHANGED memberHouse
      BY <2>3 DEF Vote
    <2>4. CASE MemberStep
      <3>1. ASSUME NEW p, NEW m, NEW i, CastVote(p, m, i) \/ CastCfpApprovalVote(p, m, i)
            PROVE UNCHANGED memberHouse
        BY <2>3, <3>1 DEF CastVote, CastCfpApprovalVote
      <3>2. ASSUME NEW b, CastCfpApprovalVoteBySig(b) PROVE UNCHANGED memberHouse
        BY <2>3, <3>2 DEF CastCfpApprovalVoteBySig
      <3>3. ASSUME NEW p, NEW m, NEW i, SignBallot(p, m, i)
            PROVE UNCHANGED memberHouse
        BY <3>3 DEF SignBallot
      <3> QED BY <2>2, <2>4, <3>1, <3>2, <3>3 DEF MemberStep
    <2>5. CASE RegistrarStep
      <3>1. ASSUME NEW c, CreateSession(c) PROVE UNCHANGED memberHouse
        BY <3>1 DEF CreateSession
      <3>2. ASSUME NEW s, NEW class, NEW payload, NEW w, NEW k,
                   \/ RegisterProposal(s, class, payload, w)
                   \/ RegisterCfpProposal(k, s, class, payload, w)
            PROVE UNCHANGED memberHouse
        BY <3>2 DEF RegisterProposal, RegisterCfpProposal, NewProposal
      <3>3. ASSUME NEW p, NEW h, RecordHouseDeliberation(p, h) PROVE UNCHANGED memberHouse
        BY <3>3 DEF RecordHouseDeliberation
      <3> QED BY <2>1, <2>2, <2>5, <3>1, <3>2, <3>3 DEF RegistrarStep
    <2>6. CASE ReviewerStep
      BY <2>2, <2>6 DEF ReviewerStep, RecordPreVoteReview, RecordContractTestEvidence,
         RecordConstitutionalEvidence, RecordReview
    <2>7. CASE OutcomeStep
      BY <2>2, <2>7 DEF OutcomeStep, FinalizeProposal, QueueProposal, CancelQueuedProposal,
         ExecuteProposal
    <2>8. CASE Tick
      BY <2>2, <2>8 DEF Tick
    <2> QED BY <2>4, <2>5, <2>6, <2>7, <2>8 DEF Next
  <1> QED BY <1>1, OutcomeCorrect, PTL DEF Spec, ElectorateFrozen

(* After its window a proposal's ballots and tallies never change, and after *)
(* finalizeProposal neither does the result they gave.                       *)
THEOREM VoteIsFrozen == Spec => VoteFrozen
  <1>1. ASSUME TypeOK, OutcomeInv, [Next]_vars PROVE [VoteFrozenStep]_vars
    <2> SUFFICES ASSUME Next PROVE VoteFrozenStep
      BY <1>1
    <2> USE <1>1
    <2> USE DEF registryVars, proposalVars, ballotVars, resultVars
    <2>1. ASSUME UNCHANGED <<proposals, ballots, score, participants, approved>>,
                 \A p \in PIds : status[p].finalized => status'[p].finalized
          PROVE  VoteFrozenStep
      BY <2>1 DEF VoteFrozenStep
    <2>2. ASSUME NEW s \in SIds, NEW class \in Classes, NEW payload \in Payloads,
                 NEW w \in Windows, NewProposal(s, class, payload, w)
          PROVE  VoteFrozenStep
      <3>1. \A q \in PIds : Registered(q) => proposals'[q] = proposals[q]
        <4>1. ASSUME NEW q \in PIds, Registered(q) PROVE q # proposalCount + 1
          <5>1. ~(q > proposalCount)
            BY <4>1 DEF OutcomeInv, NewestUnused, Registered, NoProposal
          <5> QED BY <5>1 DEF TypeOK, PIds
        <4> QED BY <2>2, <4>1 DEF NewProposal, TypeOK
      <3>2. UNCHANGED <<ballots, score, participants, approved, status>>
        BY <2>2 DEF NewProposal
      <3> QED BY <3>1, <3>2 DEF VoteFrozenStep
    <2>3. ASSUME NEW p \in PIds, NEW m \in Members, NEW i \in Int, Vote(p, m, i)
          PROVE  VoteFrozenStep
      <3>1. now < proposals[p].votingEndsAt
        BY <2>3 DEF Vote, VotingOpen
      <3>2. \A q \in PIds : q # p =>
                UNCHANGED <<ballots[q], score[q], participants[q]>>
        BY <2>3 DEF Vote, TypeOK
      <3>3. ~(now >= proposals[p].votingEndsAt)
        <4>1. proposals[p].votingEndsAt \in Nat /\ now \in Nat
          BY <2>3, DelayBounds DEF TypeOK, Proposal, Vote
        <4> QED BY <3>1, <4>1
      <3>4. UNCHANGED <<proposals, approved, status>>
        BY <2>3 DEF Vote
      <3> QED BY <3>2, <3>3, <3>4 DEF VoteFrozenStep
    <2>4. ASSUME NEW p \in PIds, FinalizeProposal(p) PROVE VoteFrozenStep
      <3>1. ~status[p].finalized /\ UNCHANGED <<proposals, ballots, score, participants>>
        BY <2>4 DEF FinalizeProposal, FinalState
      <3>2. \A q \in PIds : q # p => UNCHANGED <<approved[q], status[q]>>
        BY <2>4 DEF FinalizeProposal, TypeOK
      <3> QED BY <3>1, <3>2 DEF VoteFrozenStep
    <2>5. CASE MemberStep
      <3>1. ASSUME NEW p \in PIds, NEW m \in Members, NEW i \in Intensities, SignBallot(p, m, i)
            PROVE VoteFrozenStep
        BY <2>1, <3>1 DEF SignBallot
      <3>2. ASSUME NEW b \in signed, CastCfpApprovalVoteBySig(b) PROVE VoteFrozenStep
        <4>1. b.proposal \in PIds /\ b.member \in Members /\ b.intensity \in Int
          BY DEF TypeOK, SignedBallot
        <4> QED BY <2>3, <3>2, <4>1 DEF CastCfpApprovalVoteBySig
      <3>3. ASSUME NEW p \in PIds, NEW m \in Members, NEW i \in Intensities, CastVote(p, m, i)
            PROVE VoteFrozenStep
        BY <2>3, <3>3, InputAssumption DEF CastVote
      <3> QED BY <2>5, <3>1, <3>2, <3>3 DEF MemberStep, CastCfpApprovalVote
    <2>6. CASE RegistrarStep
      BY <2>1, <2>2, <2>6 DEF RegistrarStep, CreateSession, RegisterProposal, RegisterCfpProposal,
         RegisterMember, RecordHouseDeliberation
    <2>7. CASE ReviewerStep
      <3>1. ASSUME NEW p \in PIds, RecordReview(p) PROVE VoteFrozenStep
        <4>1. \A q \in PIds : status[q].finalized => status'[q].finalized
          BY <3>1 DEF RecordReview, TypeOK, Status
        <4> QED BY <2>1, <3>1, <4>1 DEF RecordReview
      <3> QED BY <2>1, <2>7, <3>1 DEF ReviewerStep, RecordPreVoteReview, RecordContractTestEvidence,
            RecordConstitutionalEvidence
    <2>8. CASE OutcomeStep
      <3>1. ASSUME NEW p \in PIds, QueueProposal(p) PROVE VoteFrozenStep
        <4>1. \A q \in PIds : status[q].finalized => status'[q].finalized
          <5>1. \A q \in PIds : status'[q].finalized = status[q].finalized
            <6>1. \A q \in PIds : q # p => status'[q] = status[q]
              BY <3>1 DEF QueueProposal, TypeOK
            <6>2. status'[p].finalized = status[p].finalized
              BY <3>1 DEF QueueProposal, TypeOK, Status
            <6> QED BY <6>1, <6>2
          <5> QED BY <5>1
        <4> QED BY <2>1, <3>1, <4>1 DEF QueueProposal
      <3>2. ASSUME NEW p \in PIds, CancelQueuedProposal(p) PROVE VoteFrozenStep
        <4>1. \A q \in PIds : status[q].finalized => status'[q].finalized
          BY <3>2 DEF CancelQueuedProposal, TypeOK, Status
        <4> QED BY <2>1, <3>2, <4>1 DEF CancelQueuedProposal
      <3>3. ASSUME NEW p \in PIds, NEW c \in Payloads, ExecuteProposal(p, c) PROVE VoteFrozenStep
        <4>1. \A q \in PIds : status[q].finalized => status'[q].finalized
          BY <3>3 DEF ExecuteProposal, TypeOK, Status
        <4> QED BY <2>1, <3>3, <4>1 DEF ExecuteProposal
      <3> QED BY <2>4, <2>8, <3>1, <3>2, <3>3 DEF OutcomeStep
    <2>9. CASE Tick
      BY <2>1, <2>9 DEF Tick
    <2> QED BY <2>5, <2>6, <2>7, <2>8, <2>9 DEF Next
  <1> QED BY <1>1, OutcomeCorrect, PTL DEF Spec, VoteFrozen

(* Neither what was counted in a vote nor what it was counted against        *)
(* changes afterwards.                                                       *)
THEOREM VoteIsFixed == Spec => VoteStaysFixed
  <1>1. [VoteFrozenStep]_vars /\ [ElectorateFrozenStep]_vars
          => [VoteFrozenStep /\ ElectorateFrozenStep]_vars
    OBVIOUS
  <1> QED BY <1>1, VoteIsFrozen, ElectorateIsFrozen, PTL
          DEF VoteStaysFixed, VoteFrozen, ElectorateFrozen

------------------------------------------------------------------------------
(* The governor implements ProposalLifecycle. *)

(* A proposal whose flags stay as they are stays in its phase. *)
LEMMA SamePhase ==
    ASSUME NEW q \in PIds, UNCHANGED <<proposals[q], status[q], approved[q]>>
    PROVE  PhaseOf(q)' = PhaseOf(q)
  BY DEF PhaseOf, Registered, JointlyApproved

(* One proposal's change of phase is a move of the abstract lifecycle. *)
LEMMA PhaseMove ==
    ASSUME NEW p \in PIds, NEW from, NEW to, PhaseOf(p) = from, PhaseOf(p)' = to,
           \A q \in PIds : q # p => PhaseOf(q)' = PhaseOf(q)
    PROVE  Lifecycle!Move(p, from, to)
  BY DEF Lifecycle!Move

(* Steps that touch none of the mapped variables. *)
LEMMA LifecycleStutter ==
    ASSUME UNCHANGED <<now, proposals, status, approved, performed>>
    PROVE  UNCHANGED Lifecycle!vars
  <1>1. \A q \in PIds : PhaseOf(q)' = PhaseOf(q)
    BY SamePhase
  <1> QED BY <1>1 DEF Lifecycle!vars

LEMMA LifecycleInit == Init => Lifecycle!Init
  <1> SUFFICES ASSUME Init PROVE Lifecycle!Init
    OBVIOUS
  <1>1. \A p \in PIds : PhaseOf(p) = "none"
    BY DEF Init, PhaseOf, Registered, NoProposal
  <1>2. \A p \in PIds : /\ status[p].executableAt = 0 /\ status[p].expiresAt = 0
                        /\ (performed[p] # {}) = FALSE
    BY DEF Init
  <1> QED BY <1>1, <1>2 DEF Init, Lifecycle!Init

LEMMA LifecycleStep ==
    ASSUME TypeOK, OutcomeInv, TypeOK', OutcomeInv', Next
    PROVE  [Lifecycle!Next]_(Lifecycle!vars)
  <1> USE DEF registryVars, proposalVars, ballotVars, evidenceVars, resultVars, relayVars
  <1>1. CASE Tick
    <2>1. /\ now' > now /\ now' \in Int /\ now \in Int
          /\ UNCHANGED <<proposals, status, approved, performed>>
      BY <1>1 DEF Tick, TypeOK
    <2>2. \A q \in PIds : PhaseOf(q)' = PhaseOf(q)
      BY <2>1, SamePhase
    <2>3. Lifecycle!Advance
      BY <2>1, <2>2 DEF Lifecycle!Advance
    <2> QED BY <2>3 DEF Lifecycle!Next
  <1>2. ASSUME NEW s \in SIds, NEW class \in Classes, NEW payload \in Payloads,
               NEW w \in Windows, NewProposal(s, class, payload, w)
        PROVE  Lifecycle!Next
    <2>1. proposalCount + 1 \in PIds
      BY <1>2, BoundAssumption DEF NewProposal, TypeOK, PIds
    <2> PICK new \in PIds : new = proposalCount + 1
      BY <2>1
    <2>2. ~Registered(new)
      <3>1. new > proposalCount
        BY DEF TypeOK
      <3> QED BY <3>1 DEF OutcomeInv, NewestUnused, Registered, NoProposal
    <2>3. /\ UNCHANGED <<now, status, approved, performed>>
          /\ \A q \in PIds : q # new => proposals'[q] = proposals[q]
      BY <1>2 DEF NewProposal, TypeOK
    <2>4. Registered(new)'
      <3>1. proposals'[new] = [session |-> s, class |-> class, payload |-> payload,
                               votingStartsAt |-> w.start, votingEndsAt |-> w.end]
        BY <1>2 DEF NewProposal, TypeOK
      <3>2. s # 0
        BY DEF SIds
      <3> QED BY <3>1, <3>2 DEF Registered
    <2>5. PhaseOf(new) = "none"
      BY <2>2 DEF PhaseOf
    <2>6. PhaseOf(new)' = "open"
      BY <2>2, <2>3, <2>4 DEF PhaseOf, OutcomeInv, BlankUntilRegistered
    <2>7. \A q \in PIds : q # new => PhaseOf(q)' = PhaseOf(q)
      BY <2>3, SamePhase
    <2>8. Lifecycle!Move(new, "none", "open")
      BY <2>5, <2>6, <2>7, PhaseMove
    <2> QED BY <2>3, <2>8 DEF Lifecycle!Next, Lifecycle!Register
  <1>3. ASSUME NEW p \in PIds, FinalizeProposal(p) PROVE Lifecycle!Next
    <2>1. /\ status' = [status EXCEPT ![p] = [@ EXCEPT !.finalized = TRUE]]
          /\ UNCHANGED <<now, proposals, performed>>
          /\ Registered(p) /\ ~FinalState(p) /\ status[p] \in Status
      BY <1>3 DEF FinalizeProposal, TypeOK
    <2>2. \A q \in PIds : q # p => UNCHANGED <<status[q], approved[q]>>
      BY <1>3 DEF FinalizeProposal, TypeOK
    <2>3. /\ status'[p].finalized
          /\ status'[p].reviewed = status[p].reviewed /\ status'[p].queued = status[p].queued
          /\ status'[p].executed = status[p].executed /\ status'[p].cancelled = status[p].cancelled
          /\ status'[p].executableAt = status[p].executableAt
          /\ status'[p].expiresAt = status[p].expiresAt
      BY <2>1 DEF Status, TypeOK
    <2>4. ~status[p].reviewed /\ ~status[p].queued /\ ~status[p].executed /\ ~status[p].cancelled
      BY <2>1 DEF OutcomeInv, StagesInOrder, JointlyApproved, FinalState
    <2>5. PhaseOf(p) = "open"
      BY <2>1, <2>4 DEF PhaseOf, FinalState
    <2>6. PhaseOf(p)' \in {"approved", "rejected"}
      BY <2>1, <2>3, <2>4 DEF PhaseOf, Registered
    <2>7. \A q \in PIds : q # p => PhaseOf(q)' = PhaseOf(q)
      BY <2>1, <2>2, SamePhase
    <2>8. Lifecycle!Move(p, "open", "approved") \/ Lifecycle!Move(p, "open", "rejected")
      BY <2>5, <2>6, <2>7, PhaseMove
    <2>9. \A q \in PIds : status'[q].executableAt = status[q].executableAt
                          /\ status'[q].expiresAt = status[q].expiresAt
      BY <2>2, <2>3
    <2> QED BY <2>1, <2>8, <2>9 DEF Lifecycle!Next, Lifecycle!Decide
  <1>4. ASSUME NEW p \in PIds, RecordReview(p)
        PROVE  Lifecycle!Next \/ UNCHANGED Lifecycle!vars
    <2>1. /\ status' = [status EXCEPT ![p] = [@ EXCEPT !.reviewed = TRUE]]
          /\ UNCHANGED <<now, proposals, approved, performed>>
          /\ Registered(p) /\ JointlyApproved(p) /\ status[p] \in Status
          /\ ~status[p].cancelled /\ ~status[p].executed /\ ~status[p].queued
      BY <1>4 DEF RecordReview, TypeOK
    <2>2. \A q \in PIds : q # p => status'[q] = status[q]
      BY <2>1 DEF TypeOK
    <2>3. /\ status'[p].reviewed
          /\ status'[p].finalized = status[p].finalized /\ status'[p].queued = status[p].queued
          /\ status'[p].executed = status[p].executed /\ status'[p].cancelled = status[p].cancelled
          /\ status'[p].executableAt = status[p].executableAt
          /\ status'[p].expiresAt = status[p].expiresAt
      BY <2>1 DEF Status, TypeOK
    <2>4. PhaseOf(p) = IF status[p].reviewed THEN "reviewed" ELSE "approved"
      BY <2>1 DEF PhaseOf, JointlyApproved
    <2>5. PhaseOf(p)' = "reviewed"
      BY <2>1, <2>3 DEF PhaseOf, Registered
    <2>6. \A q \in PIds : q # p => PhaseOf(q)' = PhaseOf(q)
      BY <2>1, <2>2, SamePhase
    <2>7. \A q \in PIds : status'[q].executableAt = status[q].executableAt
                          /\ status'[q].expiresAt = status[q].expiresAt
      BY <2>2, <2>3
    <2>8. CASE status[p].reviewed
      <3>1. \A q \in PIds : PhaseOf(q)' = PhaseOf(q)
        BY <2>4, <2>5, <2>6, <2>8
      <3> QED BY <2>1, <2>7, <3>1 DEF Lifecycle!vars
    <2>9. CASE ~status[p].reviewed
      <3>1. Lifecycle!Move(p, "approved", "reviewed")
        BY <2>4, <2>5, <2>6, <2>9, PhaseMove
      <3> QED BY <2>1, <2>7, <3>1 DEF Lifecycle!Next, Lifecycle!Review
    <2> QED BY <2>8, <2>9
  <1>5. ASSUME NEW p \in PIds, QueueProposal(p) PROVE Lifecycle!Next
    <2> DEFINE at == now + DelayFor(proposals[p].class)
    <2>1. /\ status' = [status EXCEPT ![p] = [@ EXCEPT !.executableAt = at,
                                !.expiresAt = at + ExecutionWindow, !.queued = TRUE]]
          /\ UNCHANGED <<now, proposals, approved, performed>>
          /\ Registered(p) /\ Queueable(p) /\ status[p] \in Status
      BY <1>5 DEF QueueProposal, TypeOK
    <2>2. at >= now + P1Delay
      BY <2>1, DelayBounds, DelayAssumption DEF TypeOK
    <2> HIDE DEF at
    <2>3. \A q \in PIds : q # p => status'[q] = status[q]
      BY <2>1 DEF TypeOK
    <2>4. /\ status'[p].queued
          /\ status'[p].executed = status[p].executed /\ status'[p].cancelled = status[p].cancelled
          /\ status'[p].executableAt = at /\ status'[p].expiresAt = at + ExecutionWindow
      BY <2>1 DEF Status, TypeOK
    <2>5. PhaseOf(p) = "reviewed"
      BY <2>1 DEF PhaseOf, Queueable
    <2>6. PhaseOf(p)' = "timelocked"
      BY <2>1, <2>4 DEF PhaseOf, Registered, Queueable
    <2>7. \A q \in PIds : q # p => PhaseOf(q)' = PhaseOf(q)
      BY <2>1, <2>3, SamePhase
    <2>8. Lifecycle!Move(p, "reviewed", "timelocked")
      BY <2>5, <2>6, <2>7, PhaseMove
    <2>9. [q \in PIds |-> status[q].executableAt]'
          = [[q \in PIds |-> status[q].executableAt] EXCEPT ![p] = at]
      BY <2>3, <2>4
    <2>10. [q \in PIds |-> status[q].expiresAt]'
           = [[q \in PIds |-> status[q].expiresAt] EXCEPT ![p] = at + ExecutionWindow]
      BY <2>3, <2>4
    <2>11. Lifecycle!Queue(p)
      BY <2>1, <2>2, <2>8, <2>9, <2>10 DEF Lifecycle!Queue
    <2> QED BY <2>11 DEF Lifecycle!Next
  <1>6. ASSUME NEW p \in PIds, NEW c \in Payloads, ExecuteProposal(p, c) PROVE Lifecycle!Next
    <2>1. /\ status' = [status EXCEPT ![p] = [@ EXCEPT !.executed = TRUE]]
          /\ UNCHANGED <<now, proposals, approved>>
          /\ Registered(p) /\ Executable(p) /\ status[p] \in Status
      <3>1. UNCHANGED <<now, proposals, approved>> /\ Registered(p) /\ Executable(p)
        BY <1>6 DEF ExecuteProposal
      <3>2. status[p] \in Status
        BY DEF TypeOK
      <3>3. status' = [status EXCEPT ![p] = [@ EXCEPT !.executed = TRUE]]
        BY <1>6 DEF ExecuteProposal
      <3> QED BY <3>1, <3>2, <3>3
    <2>2. performed[p] = {}
      BY <2>1 DEF OutcomeInv, CallInWindow, Executable
    <2>3. /\ performed'[p] # {}
          /\ \A q \in PIds : q # p => status'[q] = status[q] /\ performed'[q] = performed[q]
      <3>1. performed' = [performed EXCEPT ![p] = @ \cup {[call |-> c, at |-> now]}]
        BY <1>6 DEF ExecuteProposal
      <3>2. DOMAIN performed = PIds /\ DOMAIN status = PIds
        BY DEF TypeOK
      <3>3. performed'[p] = performed[p] \cup {[call |-> c, at |-> now]}
        BY <3>1, <3>2
      <3>4. \A q \in PIds : q # p => status'[q] = status[q] /\ performed'[q] = performed[q]
        BY <2>1, <3>1, <3>2
      <3> QED BY <3>3, <3>4
    <2>4. /\ status'[p].executed
          /\ status'[p].executableAt = status[p].executableAt
          /\ status'[p].expiresAt = status[p].expiresAt
      BY <2>1 DEF Status, TypeOK
    <2>5. PhaseOf(p) = "timelocked" /\ PhaseOf(p)' = "executed"
      <3>1. PhaseOf(p) = "timelocked"
        BY <2>1 DEF PhaseOf, Executable, OutcomeInv, StagesInOrder
      <3>2. Registered(p)' /\ status'[p].executed /\ status'[p].queued /\ status'[p].reviewed
        BY <2>1, <2>4 DEF Registered, OutcomeInv, StagesInOrder
      <3> QED BY <3>1, <3>2 DEF PhaseOf
    <2>6. \A q \in PIds : q # p => PhaseOf(q)' = PhaseOf(q)
      BY <2>1, <2>3, SamePhase
    <2>7. Lifecycle!Move(p, "timelocked", "executed")
      BY <2>5, <2>6, PhaseMove
    <2>8. status[p].executableAt <= now /\ now <= status[p].expiresAt
      BY <2>1 DEF Executable, TypeOK, Status
    <2>9. \A q \in PIds : status'[q].executableAt = status[q].executableAt
                          /\ status'[q].expiresAt = status[q].expiresAt
      BY <2>3, <2>4
    <2> QED BY <2>1, <2>2, <2>3, <2>7, <2>8, <2>9 DEF Lifecycle!Next, Lifecycle!Execute
  <1>7. ASSUME NEW p \in PIds, CancelQueuedProposal(p) PROVE Lifecycle!Next
    <2>1. /\ status' = [status EXCEPT ![p] = [@ EXCEPT !.cancelled = TRUE]]
          /\ UNCHANGED <<now, proposals, approved, performed>>
          /\ Registered(p) /\ status[p].queued /\ ~status[p].executed /\ ~status[p].cancelled
          /\ status[p] \in Status
      BY <1>7 DEF CancelQueuedProposal, TypeOK
    <2>2. \A q \in PIds : q # p => status'[q] = status[q]
      BY <2>1 DEF TypeOK
    <2>3. /\ status'[p].cancelled /\ status'[p].executed = status[p].executed
          /\ status'[p].executableAt = status[p].executableAt
          /\ status'[p].expiresAt = status[p].expiresAt
      BY <2>1 DEF Status, TypeOK
    <2>4. PhaseOf(p) = "timelocked" /\ PhaseOf(p)' = "cancelled"
      <3>1. PhaseOf(p) = "timelocked"
        BY <2>1 DEF PhaseOf, OutcomeInv, StagesInOrder
      <3>2. /\ Registered(p)' /\ ~status'[p].executed /\ status'[p].cancelled
            /\ status'[p].queued /\ status'[p].reviewed
        BY <2>1, <2>3 DEF Registered, OutcomeInv, StagesInOrder
      <3> QED BY <3>1, <3>2 DEF PhaseOf
    <2>5. \A q \in PIds : q # p => PhaseOf(q)' = PhaseOf(q)
      BY <2>1, <2>2, SamePhase
    <2>6. Lifecycle!Move(p, "timelocked", "cancelled")
      BY <2>4, <2>5, PhaseMove
    <2>7. \A q \in PIds : status'[q].executableAt = status[q].executableAt
                          /\ status'[q].expiresAt = status[q].expiresAt
      BY <2>2, <2>3
    <2> QED BY <2>1, <2>6, <2>7 DEF Lifecycle!Next, Lifecycle!Cancel
  <1>8. ASSUME NEW p, NEW m, NEW i, Vote(p, m, i) PROVE UNCHANGED Lifecycle!vars
    BY <1>8, LifecycleStutter DEF Vote
  <1>9. CASE MemberStep
    BY <1>8, <1>9, LifecycleStutter DEF MemberStep, CastVote, CastCfpApprovalVote,
       CastCfpApprovalVoteBySig, SignBallot
  <1>10. CASE RegistrarStep
    BY <1>2, <1>10, LifecycleStutter DEF RegistrarStep, CreateSession, RegisterProposal,
       RegisterCfpProposal, RegisterMember, RecordHouseDeliberation
  <1>11. CASE ReviewerStep
    BY <1>4, <1>11, LifecycleStutter DEF ReviewerStep, RecordPreVoteReview,
       RecordContractTestEvidence, RecordConstitutionalEvidence
  <1>12. CASE OutcomeStep
    BY <1>3, <1>5, <1>6, <1>7, <1>12 DEF OutcomeStep
  <1> QED BY <1>1, <1>9, <1>10, <1>11, <1>12 DEF Next

(* Every function of the governor is a step of the abstract lifecycle or     *)
(* leaves it alone.                                                          *)
THEOREM GovernorImplementsLifecycle == Spec => ImplementsLifecycle
  <1>1. TypeOK /\ OutcomeInv /\ (TypeOK /\ OutcomeInv)' /\ [Next]_vars
            => [Lifecycle!Next]_(Lifecycle!vars)
    <2>1. CASE UNCHANGED vars
      BY <2>1, LifecycleStutter DEF vars, proposalVars, resultVars
    <2> QED BY <2>1, LifecycleStep
  <1> QED BY <1>1, LifecycleInit, OutcomeCorrect, PTL DEF Spec, ImplementsLifecycle, Lifecycle!Spec

------------------------------------------------------------------------------
(* The ballot box: what the tallies, the credits and the results are of.     *)

(* A ballot costs the square of its intensity, is of a registered proposal   *)
(* by a member of its session, and is blank until it is cast.                *)
BallotsFit ==
    \A p \in PIds, m \in Members :
        /\ ballots[p][m].cost = ballots[p][m].intensity * ballots[p][m].intensity
        /\ ballots[p][m].cast => Registered(p) /\ HouseOf(p, m) \in Houses
        /\ ~ballots[p][m].cast => ballots[p][m].intensity = 0

(* The tallies of a proposal not yet registered are zero. *)
BlankTallies ==
    \A p \in PIds : ~Registered(p) => \A h \in Houses : score[p][h] = 0 /\ participants[p][h] = 0

(* A result is of the tallies as they stand. *)
ResultIsOfTheTallies ==
    \A p \in PIds : status[p].finalized => \A h \in approved[p] : HouseApproves(p, h)

BallotInv ==
    /\ BallotsFit /\ BlankTallies /\ TalliesMatchBallots /\ SpentIsCostOfBallots
    /\ ResultIsOfTheTallies

(* An accepted ballot's nonce is behind its member's. *)
RelayedAreSpent ==
    /\ IsFiniteSet(relayed)
    /\ \A b \in relayed : b.nonce < votingNonces[b.member]

RelayInv == RelayedAreSpent /\ NoncesCountRelayedBallots

(* The index and the binding name registered proposals alone. *)
BindingsAreOfRegistered ==
    /\ \A k \in CfpRevisions : cfpProposalId[k] <= proposalCount
    /\ \A p \in PIds : p > proposalCount => cfpOf[p] = NoCfp

CfpInv == BindingsAreOfRegistered /\ CfpBindingIsInverse


(* What the sums of the ballot box range over. *)
Intensity(p) == [m \in Members |-> ballots[p][m].intensity]
Costs(m) == [p \in PIds |-> ballots[p][m].intensity * ballots[p][m].intensity]
HeldIn(s) == {p \in PIds : proposals[p].session = s}

LEMMA FiniteBox ==
    /\ \A p \in PIds, h \in Houses : IsFiniteSet(Voters(p, h))
    /\ \A s \in SIds : IsFiniteSet(HeldIn(s))
  <1>1. IsFiniteSet(Members) /\ IsFiniteSet(PIds)
    BY InputAssumption, BoundAssumption, FS_Interval DEF PIds
  <1>2. \A p \in PIds, h \in Houses : Voters(p, h) \subseteq Members
    BY DEF Voters
  <1>3. \A s \in SIds : HeldIn(s) \subseteq PIds
    BY DEF HeldIn
  <1> QED BY <1>1, <1>2, <1>3, FS_Subset

LEMMA BoxTypes ==
    ASSUME TypeOK
    PROVE  /\ \A p \in PIds, m \in Members : Intensity(p)[m] = ballots[p][m].intensity
           /\ \A p \in PIds, m \in Members : Intensity(p)[m] \in Int
           /\ \A p \in PIds, m \in Members :
                 Costs(m)[p] = ballots[p][m].intensity * ballots[p][m].intensity
           /\ \A p \in PIds, m \in Members : Costs(m)[p] \in Int
  <1>1. \A p \in PIds, m \in Members : ballots[p][m].intensity \in Int
    BY DEF TypeOK, Ballot
  <1>2. \A p \in PIds, m \in Members :
           ballots[p][m].intensity * ballots[p][m].intensity \in Int
    BY <1>1
  <1> QED BY <1>1, <1>2 DEF Intensity, Costs

(* The accounts in terms of those sums. *)
LEMMA Accounts ==
    /\ TalliesMatchBallots <=>
         \A p \in PIds : Registered(p) => \A h \in Houses :
            /\ score[p][h] = SumFunctionOnSet(Intensity(p), Voters(p, h))
            /\ participants[p][h] = Cardinality(Voters(p, h))
    /\ SpentIsCostOfBallots <=>
         \A s \in SIds, m \in Members :
            /\ spentVoiceCredits[s][m] = SumFunctionOnSet(Costs(m), HeldIn(s))
            /\ spentVoiceCredits[s][m] <= sessions[s].budget
  BY DEF TalliesMatchBallots, SpentIsCostOfBallots, CountedScore, Intensity, Costs, HeldIn

LEMMA AccountsNext ==
    /\ TalliesMatchBallots' <=>
         \A p \in PIds : Registered(p)' => \A h \in Houses :
            /\ score'[p][h] = SumFunctionOnSet(Intensity(p)', Voters(p, h)')
            /\ participants'[p][h] = Cardinality(Voters(p, h)')
    /\ SpentIsCostOfBallots' <=>
         \A s \in SIds, m \in Members :
            /\ spentVoiceCredits'[s][m] = SumFunctionOnSet(Costs(m)', HeldIn(s)')
            /\ spentVoiceCredits'[s][m] <= sessions'[s].budget
  BY DEF TalliesMatchBallots, SpentIsCostOfBallots, CountedScore, Intensity, Costs, HeldIn

LEMMA BallotInit == Init => BallotInv
  <1> SUFFICES ASSUME Init PROVE BallotInv
    OBVIOUS
  <1>1. \A p \in PIds : ~Registered(p)
    BY DEF Init, Registered, NoProposal
  <1>2. \A s \in SIds : HeldIn(s) = {}
    BY DEF Init, HeldIn, NoProposal, SIds
  <1>3. \A m \in Members, s \in SIds : SumFunctionOnSet(Costs(m), HeldIn(s)) = 0
    BY <1>2, SumEmpty
  <1>4. SpentIsCostOfBallots
    <2>1. \A s \in SIds, m \in Members : spentVoiceCredits[s][m] = 0 /\ sessions[s].budget = 0
      BY DEF Init, NoSession
    <2> QED BY <1>3, <2>1, Accounts
  <1>5. TalliesMatchBallots
    BY <1>1, Accounts
  <1>6. BallotsFit /\ BlankTallies /\ ResultIsOfTheTallies
    BY DEF Init, BallotsFit, BlankTallies, ResultIsOfTheTallies, NoBallot
  <1> QED BY <1>4, <1>5, <1>6 DEF BallotInv

(* Steps away from the ballot box. *)
LEMMA BallotQuiet ==
    ASSUME BallotInv, UNCHANGED <<sessions, memberHouse, proposals, approved>>,
           UNCHANGED ballotVars, \A p \in PIds : status'[p].finalized = status[p].finalized
    PROVE  BallotInv'
  <1> USE DEF ballotVars
  <1>1. /\ \A p \in PIds, h \in Houses : Voters(p, h)' = Voters(p, h)
        /\ \A p \in PIds : Intensity(p)' = Intensity(p) /\ Registered(p)' = Registered(p)
        /\ \A m \in Members : Costs(m)' = Costs(m)
        /\ \A s \in SIds : HeldIn(s)' = HeldIn(s)
    BY DEF Voters, HouseOf, Intensity, Costs, HeldIn, Registered
  <1>2. TalliesMatchBallots'
    BY <1>1, Accounts, AccountsNext DEF BallotInv
  <1>3. SpentIsCostOfBallots'
    BY <1>1, Accounts, AccountsNext DEF BallotInv
  <1>4. BallotsFit' /\ BlankTallies' /\ ResultIsOfTheTallies'
    BY <1>1 DEF BallotInv, BallotsFit, BlankTallies, ResultIsOfTheTallies, HouseOf, HouseApproves
  <1> QED BY <1>2, <1>3, <1>4 DEF BallotInv

(* A member whose house is not known has no ballot: joining changes no electorate. *)
LEMMA BallotRegister ==
    ASSUME TypeOK, BallotInv, NEW s \in SIds, NEW m \in Members, NEW h \in Houses,
           RegisterMember(s, m, h)
    PROVE  BallotInv'
  <1> USE DEF proposalVars, ballotVars, resultVars
  <1>1. /\ memberHouse[s][m] = NoHouse /\ NoHouse \notin Houses
        /\ \A r \in SIds, x \in Members : r # s \/ x # m => memberHouse'[r][x] = memberHouse[r][x]
        /\ UNCHANGED <<sessions, proposals, ballots, spentVoiceCredits, score, participants,
                       approved, status>>
    BY DEF RegisterMember, MembershipOpen, TypeOK, NoHouse, Houses
  <1>2. \A p \in PIds, x \in Members : ballots[p][x].cast => HouseOf(p, x)' = HouseOf(p, x)
    <2> SUFFICES ASSUME NEW p \in PIds, NEW x \in Members, ballots[p][x].cast
                 PROVE  HouseOf(p, x)' = HouseOf(p, x)
      OBVIOUS
    <2>1. Registered(p) /\ HouseOf(p, x) \in Houses
      BY DEF BallotInv, BallotsFit
    <2>2. proposals[p].session \in SIds
      BY <2>1 DEF TypeOK, Registered, Proposal, NoProposal
    <2>3. proposals[p].session # s \/ x # m
      BY <1>1, <2>1 DEF HouseOf
    <2> QED BY <1>1, <2>2, <2>3 DEF HouseOf
  <1>3. /\ \A p \in PIds, g \in Houses : Voters(p, g)' = Voters(p, g)
        /\ \A p \in PIds : Intensity(p)' = Intensity(p) /\ Registered(p)' = Registered(p)
        /\ \A x \in Members : Costs(x)' = Costs(x)
        /\ \A r \in SIds : HeldIn(r)' = HeldIn(r)
    BY <1>1, <1>2 DEF Voters, Intensity, Costs, HeldIn, Registered
  <1>4. TalliesMatchBallots' /\ SpentIsCostOfBallots'
    BY <1>1, <1>3, Accounts, AccountsNext DEF BallotInv
  <1>5. BallotsFit' /\ BlankTallies' /\ ResultIsOfTheTallies'
    BY <1>1, <1>2, <1>3 DEF BallotInv, BallotsFit, BlankTallies, ResultIsOfTheTallies, HouseApproves
  <1> QED BY <1>4, <1>5 DEF BallotInv

(* A new session has no proposals, so nobody has spent any of its budget. *)
LEMMA BallotSession ==
    ASSUME TypeOK, OutcomeInv, BallotInv, NEW c \in SessionConfigs, CreateSession(c)
    PROVE  BallotInv'
  <1> USE DEF proposalVars, ballotVars, resultVars
  <1>1. /\ sessionCount + 1 \in SIds
        /\ \A s \in SIds : s # sessionCount + 1 => sessions'[s] = sessions[s]
        /\ sessions'[sessionCount + 1].budget \in Nat
        /\ UNCHANGED <<memberHouse, proposals, ballots, spentVoiceCredits, score, participants,
                       approved, status>>
    BY InputAssumption, BoundAssumption DEF CreateSession, TypeOK, SIds
  <1> PICK new \in SIds : new = sessionCount + 1
    BY <1>1
  <1>2. \A p \in PIds : Registered(p) => proposals[p].session \in SIds /\ proposals[p].session # new
    BY DEF OutcomeInv, SessionBeforeVote, TypeOK, Registered, Proposal, NoProposal, SIds
  <1>3. /\ \A p \in PIds, g \in Houses : Voters(p, g)' = Voters(p, g)
        /\ \A p \in PIds : Intensity(p)' = Intensity(p) /\ Registered(p)' = Registered(p)
        /\ \A x \in Members : Costs(x)' = Costs(x)
        /\ \A r \in SIds : HeldIn(r)' = HeldIn(r)
    BY <1>1 DEF Voters, HouseOf, Intensity, Costs, HeldIn, Registered
  <1>4. TalliesMatchBallots'
    BY <1>1, <1>3, Accounts, AccountsNext DEF BallotInv
  <1>5. SpentIsCostOfBallots'
    <2>1. HeldIn(new) = {}
      BY <1>2 DEF HeldIn, Registered, SIds
    <2>2. \A m \in Members : spentVoiceCredits[new][m] = 0
      BY <2>1, SumEmpty, Accounts DEF BallotInv
    <2>3. \A s \in SIds, m \in Members : spentVoiceCredits'[s][m] <= sessions'[s].budget
      BY <1>1, <2>2, Accounts DEF BallotInv
    <2> QED BY <1>1, <1>3, <2>3, Accounts, AccountsNext DEF BallotInv
  <1>6. BallotsFit' /\ BlankTallies'
    BY <1>1, <1>3 DEF BallotInv, BallotsFit, BlankTallies, HouseOf
  <1>7. ResultIsOfTheTallies'
    <2>1. \A p \in PIds : status[p].finalized => Registered(p)
      BY DEF OutcomeInv, BlankUntilRegistered
    <2> QED BY <1>1, <1>2, <2>1 DEF BallotInv, ResultIsOfTheTallies, HouseApproves
  <1> QED BY <1>4, <1>5, <1>6, <1>7 DEF BallotInv

(* A new proposal comes with an empty ballot box and shares its session's budget. *)
LEMMA BallotProposal ==
    ASSUME TypeOK, OutcomeInv, BallotInv, NEW s \in SIds, NEW class \in Classes,
           NEW payload \in Payloads, NEW w \in Windows, NewProposal(s, class, payload, w)
    PROVE  BallotInv'
  <1> USE DEF registryVars, ballotVars, resultVars
  <1>0. proposalCount + 1 \in PIds
    BY BoundAssumption DEF NewProposal, TypeOK, PIds
  <1> PICK new \in PIds : new = proposalCount + 1
    BY <1>0
  <1>1. ~Registered(new)
    <2>1. new > proposalCount
      BY DEF TypeOK
    <2> QED BY <2>1 DEF OutcomeInv, NewestUnused, Registered, NoProposal
  <1>2. /\ proposals'[new].session = s /\ s # 0 /\ Registered(new)'
        /\ \A q \in PIds : q # new => proposals'[q] = proposals[q]
        /\ UNCHANGED <<sessions, memberHouse, ballots, spentVoiceCredits, score, participants,
                       approved, status>>
    <2>1. proposals'[new] = [session |-> s, class |-> class, payload |-> payload,
                             votingStartsAt |-> w.start, votingEndsAt |-> w.end]
      BY DEF NewProposal, TypeOK
    <2>2. s # 0
      BY DEF SIds
    <2>3. \A q \in PIds : q # new => proposals'[q] = proposals[q]
      BY DEF NewProposal, TypeOK
    <2> QED BY <2>1, <2>2, <2>3 DEF Registered, NewProposal
  <1>3. \A m \in Members : ~ballots[new][m].cast /\ ballots[new][m].intensity = 0
    BY <1>1 DEF BallotInv, BallotsFit
  <1>4. TalliesMatchBallots'
    <2> SUFFICES ASSUME NEW p \in PIds, Registered(p)', NEW h \in Houses
                 PROVE  /\ score'[p][h] = SumFunctionOnSet(Intensity(p)', Voters(p, h)')
                        /\ participants'[p][h] = Cardinality(Voters(p, h)')
      BY AccountsNext
    <2>1. CASE p = new
      <3>1. Voters(p, h)' = {}
        BY <1>2, <1>3, <2>1 DEF Voters
      <3>2. score'[p][h] = 0 /\ participants'[p][h] = 0
        BY <1>1, <1>2, <2>1 DEF BallotInv, BlankTallies
      <3> QED BY <3>1, <3>2, SumEmpty, FS_EmptySet
    <2>2. CASE p # new
      <3>1. Voters(p, h)' = Voters(p, h) /\ Intensity(p)' = Intensity(p) /\ Registered(p)
        BY <1>2, <2>2 DEF Voters, HouseOf, Intensity, Registered
      <3> QED BY <1>2, <3>1, Accounts DEF BallotInv
    <2> QED BY <2>1, <2>2
  <1>5. SpentIsCostOfBallots'
    <2> SUFFICES ASSUME NEW r \in SIds, NEW m \in Members
                 PROVE  /\ spentVoiceCredits'[r][m] = SumFunctionOnSet(Costs(m)', HeldIn(r)')
                        /\ spentVoiceCredits'[r][m] <= sessions'[r].budget
      BY AccountsNext
    <2>1. /\ spentVoiceCredits[r][m] = SumFunctionOnSet(Costs(m), HeldIn(r))
          /\ spentVoiceCredits[r][m] <= sessions[r].budget
          /\ spentVoiceCredits[r][m] \in Int
      BY Accounts DEF BallotInv, TypeOK
    <2>2. Costs(m)' = Costs(m)
      BY <1>2 DEF Costs
    <2>3. CASE r = s
      <3>1. HeldIn(r)' = HeldIn(r) \cup {new} /\ new \notin HeldIn(r)
        BY <1>1, <1>2, <2>3 DEF HeldIn, Registered
      <3>2. Costs(m)[new] = 0 /\ \A p \in HeldIn(r) : Costs(m)[p] \in Int
        BY <1>3, BoxTypes DEF HeldIn
      <3>3. IsFiniteSet(HeldIn(r))
        BY FiniteBox
      <3>4. SumFunctionOnSet(Costs(m), HeldIn(r) \cup {new})
              = SumFunctionOnSet(Costs(m), HeldIn(r)) + Costs(m)[new]
        BY <3>1, <3>2, <3>3, SumJoined
      <3>5. SumFunctionOnSet(Costs(m), HeldIn(r) \cup {new}) = spentVoiceCredits[r][m]
        BY <2>1, <3>2, <3>4
      <3> QED BY <1>2, <2>1, <2>2, <3>1, <3>5
    <2>4. CASE r # s
      <3>1. HeldIn(r)' = HeldIn(r)
        BY <1>1, <1>2, <2>4 DEF HeldIn, Registered, SIds
      <3> QED BY <1>2, <2>1, <2>2, <3>1
    <2> QED BY <2>3, <2>4
  <1>6. BallotsFit' /\ BlankTallies'
    BY <1>1, <1>2, <1>3 DEF BallotInv, BallotsFit, BlankTallies, HouseOf, Registered
  <1>7. ResultIsOfTheTallies'
    <2>1. \A p \in PIds : status[p].finalized => Registered(p)
      BY DEF OutcomeInv, BlankUntilRegistered
    <2> QED BY <1>1, <1>2, <2>1 DEF BallotInv, ResultIsOfTheTallies, HouseApproves
  <1> QED BY <1>4, <1>5, <1>6, <1>7 DEF BallotInv

(* A ballot cast or replaced moves the tally of the member's house and the   *)
(* member's credits by the difference, and nothing else.                     *)
LEMMA BallotVote ==
    ASSUME TypeOK, BallotInv, NEW p \in PIds, NEW m \in Members, NEW i \in Int, Vote(p, m, i)
    PROVE  BallotInv'
  <1> USE DEF registryVars, proposalVars, resultVars
  <1> DEFINE h == HouseOf(p, m)
             s == proposals[p].session
             old == ballots[p][m]
  <1>1. /\ s \in SIds /\ h \in Houses /\ Registered(p)
        /\ ~status[p].finalized
        /\ old \in Ballot /\ old.cost = old.intensity * old.intensity
        /\ ~old.cast => old.intensity = 0
        /\ spentVoiceCredits[s][m] \in Int
        /\ score[p][h] \in Int
        /\ UNCHANGED <<sessions, memberHouse, proposals, approved, status>>
    BY DEF Vote, VotingOpen, FinalState, Registered, TypeOK, Proposal, NoProposal, BallotInv,
           BallotsFit
  <1>2. /\ ballots'[p][m] = [intensity |-> i, cost |-> i * i, cast |-> TRUE]
        /\ \A q \in PIds, x \in Members : q # p \/ x # m => ballots'[q][x] = ballots[q][x]
    BY DEF Vote, TypeOK
  <1>3. /\ spentVoiceCredits'[s][m] = spentVoiceCredits[s][m] - old.cost + i * i
        /\ spentVoiceCredits'[s][m] <= sessions[s].budget
        /\ \A r \in SIds, x \in Members :
              r # s \/ x # m => spentVoiceCredits'[r][x] = spentVoiceCredits[r][x]
    BY <1>1 DEF Vote, NextSpent, TypeOK
  <1>4. /\ score'[p][h] = score[p][h] - old.intensity + i
        /\ \A q \in PIds, g \in Houses : q # p \/ g # h => score'[q][g] = score[q][g]
    BY <1>1 DEF Vote, NextScore, TypeOK
  <1>5. /\ participants'[p][h] = participants[p][h] + (IF old.cast THEN 0 ELSE 1)
        /\ \A q \in PIds, g \in Houses : q # p \/ g # h => participants'[q][g] = participants[q][g]
    BY <1>1 DEF Vote, NextParticipants, TypeOK
  <1> HIDE DEF s, old
  <1>6. /\ \A q \in PIds : Registered(q)' = Registered(q) /\ HeldIn(proposals[q].session)' = HeldIn(proposals[q].session)
        /\ \A r \in SIds : HeldIn(r)' = HeldIn(r)
        /\ \A q \in PIds, x \in Members : HouseOf(q, x)' = HouseOf(q, x)
    BY <1>1 DEF Registered, HeldIn, HouseOf
  <1>7. /\ \A x \in Members : Intensity(p)'[x] = IF x = m THEN i ELSE Intensity(p)[x]
        /\ \A q \in PIds : q # p => Intensity(q)' = Intensity(q)
    BY <1>2 DEF Intensity
  <1>8. /\ \A q \in PIds : Costs(m)'[q] = IF q = p THEN i * i ELSE Costs(m)[q]
        /\ \A x \in Members : x # m => Costs(x)' = Costs(x)
    BY <1>2 DEF Costs
  <1>9. TalliesMatchBallots'
    <2> SUFFICES ASSUME NEW q \in PIds, Registered(q)', NEW g \in Houses
                 PROVE  /\ score'[q][g] = SumFunctionOnSet(Intensity(q)', Voters(q, g)')
                        /\ participants'[q][g] = Cardinality(Voters(q, g)')
      BY AccountsNext
    <2>1. /\ score[q][g] = SumFunctionOnSet(Intensity(q), Voters(q, g))
          /\ participants[q][g] = Cardinality(Voters(q, g))
          /\ IsFiniteSet(Voters(q, g)) /\ Voters(q, g) \subseteq Members
      BY <1>6, Accounts, FiniteBox DEF BallotInv, Voters
    <2>2. CASE q # p
      <3>1. Voters(q, g)' = Voters(q, g)
        BY <1>2, <1>6, <2>2 DEF Voters
      <3> QED BY <1>4, <1>5, <1>7, <2>1, <2>2, <3>1
    <2>3. CASE q = p /\ g # h
      <3>1. m \notin Voters(p, g)
        BY <2>3 DEF Voters
      <3>2. Voters(p, g)' = Voters(p, g)
        BY <1>2, <1>6, <2>3 DEF Voters
      <3>3. \A x \in Voters(p, g) : Intensity(p)[x] = Intensity(p)'[x]
        BY <1>7, <3>1 DEF Voters
      <3>4. SumFunctionOnSet(Intensity(p), Voters(p, g)) = SumFunctionOnSet(Intensity(p)', Voters(p, g))
        BY <2>1, <2>3, <3>3, SumSame
      <3> QED BY <1>4, <1>5, <2>1, <2>3, <3>2, <3>4
    <2>4. CASE q = p /\ g = h /\ old.cast
      <3>1. m \in Voters(p, g) /\ Voters(p, g)' = Voters(p, g)
        BY <1>2, <1>6, <2>4 DEF Voters, old
      <3>2. /\ \A x \in Voters(p, g) : Intensity(p)[x] \in Int
            /\ \A x \in Voters(p, g) \ {m} : Intensity(p)'[x] = Intensity(p)[x]
            /\ Intensity(p)'[m] = i /\ Intensity(p)[m] = old.intensity
        BY <1>7, BoxTypes DEF Voters, old
      <3>3. SumFunctionOnSet(Intensity(p)', Voters(p, g))
              = SumFunctionOnSet(Intensity(p), Voters(p, g)) - Intensity(p)[m] + Intensity(p)'[m]
        BY <2>1, <2>4, <3>1, <3>2, SumChanged
      <3>4. participants'[q][g] = participants[q][g]
        BY <1>5, <2>4 DEF TypeOK
      <3> QED BY <1>4, <2>1, <2>4, <3>1, <3>2, <3>3, <3>4
    <2>5. CASE q = p /\ g = h /\ ~old.cast
      <3>1. m \notin Voters(p, g) /\ Voters(p, g)' = Voters(p, g) \cup {m}
        BY <1>2, <1>6, <2>5 DEF Voters, old
      <3>2. /\ \A x \in Voters(p, g) : Intensity(p)[x] \in Int
            /\ \A x \in Voters(p, g) : Intensity(p)'[x] = Intensity(p)[x]
            /\ Intensity(p)'[m] = i
        BY <1>7, <3>1, BoxTypes DEF Voters
      <3>3. SumFunctionOnSet(Intensity(p)', Voters(p, g) \cup {m})
              = SumFunctionOnSet(Intensity(p), Voters(p, g)) + Intensity(p)'[m]
        BY <2>1, <2>5, <3>1, <3>2, SumJoined
      <3>4. Cardinality(Voters(p, g) \cup {m}) = Cardinality(Voters(p, g)) + 1
        BY <2>1, <2>5, <3>1, FS_AddElement
      <3>5. score'[q][g] = score[q][g] + i
        BY <1>1, <1>4, <2>5
      <3> QED BY <1>5, <2>1, <2>5, <3>1, <3>2, <3>3, <3>4, <3>5
    <2> QED BY <2>2, <2>3, <2>4, <2>5
  <1>10. SpentIsCostOfBallots'
    <2> SUFFICES ASSUME NEW r \in SIds, NEW x \in Members
                 PROVE  /\ spentVoiceCredits'[r][x] = SumFunctionOnSet(Costs(x)', HeldIn(r)')
                        /\ spentVoiceCredits'[r][x] <= sessions'[r].budget
      BY AccountsNext
    <2>1. /\ spentVoiceCredits[r][x] = SumFunctionOnSet(Costs(x), HeldIn(r))
          /\ spentVoiceCredits[r][x] <= sessions[r].budget
          /\ IsFiniteSet(HeldIn(r)) /\ HeldIn(r) \subseteq PIds
      BY Accounts, FiniteBox DEF BallotInv, HeldIn
    <2>2. CASE x # m
      BY <1>1, <1>3, <1>6, <1>8, <2>1, <2>2
    <2>3. CASE x = m /\ r # s
      <3>1. \A q \in HeldIn(r) : Costs(m)[q] = Costs(m)'[q]
        BY <1>8, <2>3 DEF HeldIn, s
      <3>2. SumFunctionOnSet(Costs(m), HeldIn(r)) = SumFunctionOnSet(Costs(m)', HeldIn(r))
        BY <2>1, <3>1, SumSame
      <3> QED BY <1>1, <1>3, <1>6, <2>1, <2>3, <3>2
    <2>4. CASE x = m /\ r = s
      <3>1. p \in HeldIn(r)
        BY <2>4 DEF HeldIn, s
      <3>2. /\ \A q \in HeldIn(r) : Costs(m)[q] \in Int
            /\ \A q \in HeldIn(r) \ {p} : Costs(m)'[q] = Costs(m)[q]
            /\ Costs(m)'[p] = i * i /\ i * i \in Int /\ Costs(m)[p] = old.cost
        BY <1>1, <1>8, BoxTypes DEF HeldIn, old
      <3>3. SumFunctionOnSet(Costs(m)', HeldIn(r))
              = SumFunctionOnSet(Costs(m), HeldIn(r)) - Costs(m)[p] + Costs(m)'[p]
        BY <2>1, <3>1, <3>2, SumChanged
      <3>4. spentVoiceCredits'[r][m] = spentVoiceCredits[r][m] - old.cost + i * i
        BY <1>3, <2>4
      <3>5. spentVoiceCredits'[r][m] = SumFunctionOnSet(Costs(m)', HeldIn(r)')
        <4>1. HeldIn(r)' = HeldIn(r)
          BY <1>6
        <4>2. spentVoiceCredits[r][m] = SumFunctionOnSet(Costs(m), HeldIn(r))
          BY <2>1, <2>4
        <4> QED BY <3>2, <3>3, <3>4, <4>1, <4>2
      <3>6. spentVoiceCredits'[r][m] <= sessions'[r].budget
        BY <1>1, <1>3, <2>4
      <3> QED BY <2>4, <3>5, <3>6
    <2> QED BY <2>2, <2>3, <2>4
  <1>11. BallotsFit'
    <2> SUFFICES ASSUME NEW q \in PIds, NEW x \in Members
                 PROVE  BallotsFit!(q, x)'
      BY DEF BallotsFit
    <2>1. CASE q = p /\ x = m
      BY <1>1, <1>2, <1>6, <2>1
    <2>2. CASE q # p \/ x # m
      <3>1. BallotsFit!(q, x)
        BY DEF BallotInv, BallotsFit
      <3> QED BY <1>2, <1>6, <2>2, <3>1
    <2> QED BY <2>1, <2>2
  <1>12. BlankTallies'
    BY <1>1, <1>4, <1>5, <1>6 DEF BallotInv, BlankTallies
  <1>13. ResultIsOfTheTallies'
    <2> SUFFICES ASSUME NEW q \in PIds, status'[q].finalized, NEW g \in approved'[q]
                 PROVE  HouseApproves(q, g)'
      BY DEF ResultIsOfTheTallies
    <2>1. q # p /\ g \in Houses /\ HouseApproves(q, g)
      BY <1>1 DEF BallotInv, ResultIsOfTheTallies, TypeOK
    <2>2. /\ score'[q][g] = score[q][g] /\ participants'[q][g] = participants[q][g]
          /\ sessions' = sessions /\ proposals' = proposals
      BY <1>1, <1>4, <1>5, <2>1
    <2> QED BY <2>1, <2>2 DEF HouseApproves
  <1> QED BY <1>9, <1>10, <1>11, <1>12, <1>13 DEF BallotInv

(* finalizeProposal records the houses that approve on the tallies it finds. *)
LEMMA BallotResult ==
    ASSUME TypeOK, BallotInv, NEW p \in PIds, FinalizeProposal(p)
    PROVE  BallotInv'
  <1> USE DEF registryVars, proposalVars, ballotVars
  <1>1. /\ UNCHANGED <<sessions, memberHouse, proposals, ballots, spentVoiceCredits, score,
                       participants>>
        /\ approved'[p] = {h \in Houses : HouseApproves(p, h)}
        /\ \A q \in PIds : q # p => approved'[q] = approved[q] /\ status'[q] = status[q]
    BY DEF FinalizeProposal, TypeOK
  <1>2. /\ \A q \in PIds, h \in Houses : Voters(q, h)' = Voters(q, h)
        /\ \A q \in PIds : Intensity(q)' = Intensity(q) /\ Registered(q)' = Registered(q)
        /\ \A m \in Members : Costs(m)' = Costs(m)
        /\ \A s \in SIds : HeldIn(s)' = HeldIn(s)
    BY <1>1 DEF Voters, HouseOf, Intensity, Costs, HeldIn, Registered
  <1>3. TalliesMatchBallots'
    BY <1>1, <1>2, Accounts, AccountsNext DEF BallotInv
  <1>4. SpentIsCostOfBallots'
    BY <1>1, <1>2, Accounts, AccountsNext DEF BallotInv
  <1>5. BallotsFit' /\ BlankTallies'
    BY <1>1, <1>2 DEF BallotInv, BallotsFit, BlankTallies, HouseOf
  <1>6. \A q \in PIds, h \in Houses : HouseApproves(q, h)' = HouseApproves(q, h)
    BY <1>1 DEF HouseApproves
  <1>7. ResultIsOfTheTallies'
    <2> SUFFICES ASSUME NEW q \in PIds, status'[q].finalized, NEW h \in approved'[q]
                 PROVE  HouseApproves(q, h)'
      BY DEF ResultIsOfTheTallies
    <2>1. CASE q = p
      BY <1>1, <1>6, <2>1
    <2>2. CASE q # p
      <3>1. h \in Houses /\ HouseApproves(q, h)
        BY <1>1, <2>2 DEF BallotInv, ResultIsOfTheTallies, TypeOK
      <3> QED BY <1>6, <3>1
    <2> QED BY <2>1, <2>2
  <1> QED BY <1>3, <1>4, <1>5, <1>7 DEF BallotInv

LEMMA BallotStep == TypeOK /\ OutcomeInv /\ BallotInv /\ [Next]_vars => BallotInv'
  <1> SUFFICES ASSUME TypeOK, OutcomeInv, BallotInv, [Next]_vars PROVE BallotInv'
    OBVIOUS
  <1> USE DEF registryVars, proposalVars, resultVars
  <1>1. ASSUME UNCHANGED <<registryVars, proposalVars, ballotVars, resultVars>> PROVE BallotInv'
    BY <1>1, BallotQuiet
  <1>2. CASE Tick \/ UNCHANGED vars
    BY <1>1, <1>2 DEF Tick, vars
  <1>3. CASE RegistrarStep
    BY <1>1, <1>3, BallotRegister, BallotSession, BallotProposal
       DEF RegistrarStep, RegisterProposal, RegisterCfpProposal, RecordHouseDeliberation
  <1>4. CASE MemberStep
    <2>1. ASSUME NEW p \in PIds, NEW m \in Members, NEW i \in Intensities, CastVote(p, m, i)
          PROVE  BallotInv'
      <3>1. i \in Int
        BY InputAssumption
      <3> QED BY <2>1, <3>1, BallotVote DEF CastVote
    <2>2. ASSUME NEW p \in PIds, NEW m \in Members, NEW i \in Intensities, SignBallot(p, m, i)
          PROVE  BallotInv'
      BY <1>1, <2>2 DEF SignBallot
    <2>3. ASSUME NEW b \in signed, CastCfpApprovalVoteBySig(b) PROVE BallotInv'
      <3>1. b.proposal \in PIds /\ b.member \in Members /\ b.intensity \in Int
        BY DEF TypeOK, SignedBallot
      <3> QED BY <2>3, <3>1, BallotVote DEF CastCfpApprovalVoteBySig
    <2> QED BY <1>4, <2>1, <2>2, <2>3 DEF MemberStep, CastCfpApprovalVote
  <1>5. CASE ReviewerStep
    <2>1. ASSUME NEW p \in PIds, RecordReview(p) PROVE BallotInv'
      <3>1. \A q \in PIds : status'[q].finalized = status[q].finalized
        BY <2>1 DEF RecordReview, TypeOK, Status
      <3> QED BY <2>1, <3>1, BallotQuiet DEF RecordReview
    <2> QED BY <1>1, <1>5, <2>1 DEF ReviewerStep, RecordPreVoteReview, RecordContractTestEvidence,
                                    RecordConstitutionalEvidence
  <1>6. CASE OutcomeStep
    <2>1. ASSUME NEW p \in PIds, QueueProposal(p) PROVE BallotInv'
      <3>1. \A q \in PIds : status'[q].finalized = status[q].finalized
        <4>1. \A q \in PIds : q # p => status'[q] = status[q]
          BY <2>1 DEF QueueProposal, TypeOK
        <4>2. status'[p].finalized = status[p].finalized
          BY <2>1 DEF QueueProposal, TypeOK, Status
        <4> QED BY <4>1, <4>2
      <3> QED BY <2>1, <3>1, BallotQuiet DEF QueueProposal
    <2>2. ASSUME NEW p \in PIds, CancelQueuedProposal(p) PROVE BallotInv'
      <3>1. \A q \in PIds : status'[q].finalized = status[q].finalized
        BY <2>2 DEF CancelQueuedProposal, TypeOK, Status
      <3> QED BY <2>2, <3>1, BallotQuiet DEF CancelQueuedProposal
    <2>3. ASSUME NEW p \in PIds, NEW c \in Payloads, ExecuteProposal(p, c) PROVE BallotInv'
      <3>1. \A q \in PIds : status'[q].finalized = status[q].finalized
        BY <2>3 DEF ExecuteProposal, TypeOK, Status
      <3> QED BY <2>3, <3>1, BallotQuiet DEF ExecuteProposal
    <2> QED BY <1>6, <2>1, <2>2, <2>3, BallotResult DEF OutcomeStep
  <1> QED BY <1>2, <1>3, <1>4, <1>5, <1>6 DEF Next

LEMMA BallotCorrect == Spec => [](TypeOK /\ OutcomeInv /\ BallotInv)
  <1>1. Init => BallotInv
    BY BallotInit
  <1>2. TypeOK /\ OutcomeInv /\ BallotInv /\ [Next]_vars => BallotInv'
    BY BallotStep
  <1> QED BY <1>1, <1>2, OutcomeCorrect, PTL DEF Spec

(* Every score, participant count and spent credit is the one the ballots in *)
(* the box add up to, however often members of any session replaced ballots  *)
(* on proposals that share its budget: _castVote's bookkeeping never drifts. *)
THEOREM BallotsCounted == Spec => []BallotsAreAccounted
  <1>1. BallotInv => BallotsAreAccounted
    BY DEF BallotInv, BallotsAreAccounted
  <1> QED BY <1>1, BallotCorrect, PTL

LEMMA ApprovedByInv == TypeOK /\ OutcomeInv /\ BallotInv => CallsAreApproved
  <1> SUFFICES ASSUME TypeOK, OutcomeInv, BallotInv, NEW p \in PIds, performed[p] # {},
                      NEW h \in Houses
               PROVE  CountedApproval(p, h)
    BY DEF CallsAreApproved, ApprovedByBothHouses
  <1>1. Registered(p)
    BY DEF OutcomeInv, BlankUntilRegistered
  <1>2. JointlyApproved(p)
    BY DEF OutcomeInv, CallInWindow, StagesInOrder
  <1>3. HouseApproves(p, h)
    BY <1>2 DEF BallotInv, ResultIsOfTheTallies, JointlyApproved
  <1> QED BY <1>1, <1>3 DEF CountedApproval, HouseApproves, BallotInv, TalliesMatchBallots

(* A call executeProposal made was approved by a majority of the ballots of  *)
(* each house, counted afresh, with that house's own quorum.                 *)
THEOREM CallsApproved == Spec => []CallsAreApproved
  BY ApprovedByInv, BallotCorrect, PTL

------------------------------------------------------------------------------
(* Relayed ballots. *)

LEMMA RelayInit == Init => RelayInv
  <1> SUFFICES ASSUME Init PROVE RelayInv
    OBVIOUS
  <1>1. relayed = {} /\ \A m \in Members : votingNonces[m] = 0
    BY DEF Init
  <1>2. \A m \in Members : {b \in relayed : b.member = m} = {}
    BY <1>1
  <1> QED BY <1>1, <1>2, FS_EmptySet DEF RelayInv, RelayedAreSpent, NoncesCountRelayedBallots

(* An accepted ballot carries the member's nonce, so it is none of those before. *)
LEMMA RelayAccepted ==
    ASSUME TypeOK, RelayInv, NEW b \in signed, CastCfpApprovalVoteBySig(b)
    PROVE  RelayInv'
  <1>1. /\ b.member \in Members /\ b.nonce = votingNonces[b.member]
        /\ relayed' = relayed \cup {b}
        /\ votingNonces'[b.member] = votingNonces[b.member] + 1
        /\ \A m \in Members : m # b.member => votingNonces'[m] = votingNonces[m]
        /\ \A x \in relayed : x.member \in Members
        /\ \A m \in Members : votingNonces[m] \in Nat
        /\ \A x \in relayed : x.nonce \in Nat
    BY DEF CastCfpApprovalVoteBySig, BallotFresh, TypeOK, SignedBallot
  <1>2. b \notin relayed
    BY <1>1 DEF RelayInv, RelayedAreSpent
  <1>3. RelayedAreSpent'
    <2>1. IsFiniteSet(relayed')
      BY <1>1, FS_AddElement DEF RelayInv, RelayedAreSpent
    <2>2. \A x \in relayed' : x.nonce < votingNonces'[x.member]
      BY <1>1 DEF RelayInv, RelayedAreSpent
    <2> QED BY <2>1, <2>2 DEF RelayedAreSpent
  <1>4. NoncesCountRelayedBallots'
    <2> SUFFICES ASSUME NEW m \in Members
                 PROVE  votingNonces'[m] = Cardinality({x \in relayed' : x.member = m})
      BY DEF NoncesCountRelayedBallots
    <2> DEFINE Of == {x \in relayed : x.member = m}
               OfNext == {x \in relayed' : x.member = m}
    <2>1. votingNonces[m] = Cardinality(Of) /\ IsFiniteSet(Of)
      BY FS_Subset DEF RelayInv, RelayedAreSpent, NoncesCountRelayedBallots
    <2>2. CASE m = b.member
      <3>1. OfNext = Of \cup {b} /\ b \notin Of
        BY <1>1, <1>2, <2>2
      <3> HIDE DEF Of
      <3>2. Cardinality(Of \cup {b}) = Cardinality(Of) + 1
        BY <2>1, <3>1, FS_AddElement
      <3> QED BY <1>1, <2>1, <2>2, <3>1, <3>2
    <2>3. CASE m # b.member
      <3>1. OfNext = Of
        BY <1>1, <2>3
      <3> HIDE DEF Of
      <3> QED BY <1>1, <2>1, <2>3, <3>1
    <2> QED BY <2>2, <2>3
  <1> QED BY <1>3, <1>4 DEF RelayInv

LEMMA RelayStep == TypeOK /\ RelayInv /\ [Next]_vars => RelayInv'
  <1> SUFFICES ASSUME TypeOK, RelayInv, [Next]_vars PROVE RelayInv'
    OBVIOUS
  <1>1. ASSUME UNCHANGED <<votingNonces, relayed>> PROVE RelayInv'
    BY <1>1 DEF RelayInv, RelayedAreSpent, NoncesCountRelayedBallots
  <1> USE DEF relayVars
  <1>2. CASE MemberStep
    BY <1>1, <1>2, RelayAccepted DEF MemberStep, CastVote, CastCfpApprovalVote, SignBallot
  <1>3. CASE RegistrarStep
    <2>1. ASSUME NEW s, NEW class, NEW payload, NEW w, NewProposal(s, class, payload, w)
          PROVE  RelayInv'
      BY <1>1, <2>1 DEF NewProposal
    <2> QED BY <1>1, <1>3, <2>1 DEF RegistrarStep, CreateSession, RegisterMember,
                      RegisterProposal, RegisterCfpProposal, RecordHouseDeliberation
  <1>4. CASE ReviewerStep
    BY <1>1, <1>4 DEF ReviewerStep, RecordPreVoteReview, RecordContractTestEvidence,
                      RecordConstitutionalEvidence, RecordReview
  <1>5. CASE OutcomeStep
    BY <1>1, <1>5 DEF OutcomeStep, FinalizeProposal, QueueProposal, CancelQueuedProposal,
                      ExecuteProposal
  <1>6. CASE Tick \/ UNCHANGED vars
    BY <1>1, <1>6 DEF Tick, vars
  <1> QED BY <1>2, <1>3, <1>4, <1>5, <1>6 DEF Next

(* castCfpApprovalVoteBySig accepts no ballot twice: a member's nonce counts *)
(* the distinct signed ballots of the member that were accepted, in whatever *)
(* order a relayer submits and resubmits them.                               *)
THEOREM NoncesCount == Spec => []NoncesCountRelayedBallots
  <1>1. RelayInv => NoncesCountRelayedBallots
    BY DEF RelayInv
  <1> QED BY <1>1, RelayInit, RelayStep, TypeCorrect, PTL DEF Spec

------------------------------------------------------------------------------
(* The binding of proposals to CFP revisions. *)

LEMMA CfpInit == Init => CfpInv
  BY InputAssumption DEF Init, CfpInv, BindingsAreOfRegistered, CfpBindingIsInverse, PIds

(* The next id is bound to nothing and no index names it. *)
LEMMA CfpRegistered ==
    ASSUME TypeOK, CfpInv, NEW k \in CfpRevisions, NEW s \in SIds, NEW class \in Classes,
           NEW payload \in Payloads, NEW w \in Windows,
           RegisterCfpProposal(k, s, class, payload, w)
    PROVE  CfpInv'
  <1>0. proposalCount + 1 \in PIds
    BY BoundAssumption DEF RegisterCfpProposal, NewProposal, TypeOK, PIds
  <1> PICK new \in PIds : new = proposalCount + 1
    BY <1>0
  <1>1. /\ proposalCount' = new /\ new > proposalCount /\ cfpProposalId[k] = 0
        /\ cfpOf'[new] = k /\ \A q \in PIds : q # new => cfpOf'[q] = cfpOf[q]
        /\ cfpProposalId'[k] = new
        /\ \A j \in CfpRevisions : j # k => cfpProposalId'[j] = cfpProposalId[j]
    BY DEF RegisterCfpProposal, NewProposal, RevisionFree, TypeOK
  <1>2. /\ \A j \in CfpRevisions : cfpProposalId[j] \in Nat /\ cfpProposalId[j] <= proposalCount
        /\ \A p \in PIds : p > proposalCount => cfpOf[p] = NoCfp
        /\ proposalCount \in Nat /\ NoCfp \notin CfpRevisions
    BY InputAssumption DEF CfpInv, BindingsAreOfRegistered, TypeOK
  <1>3. BindingsAreOfRegistered'
    BY <1>1, <1>2 DEF BindingsAreOfRegistered, PIds
  <1>4. CfpBindingIsInverse'
    <2> SUFFICES ASSUME NEW p \in PIds, NEW j \in CfpRevisions
                 PROVE  cfpOf'[p] = j <=> cfpProposalId'[j] = p
      BY DEF CfpBindingIsInverse
    <2>1. cfpOf[p] = j <=> cfpProposalId[j] = p
      BY DEF CfpInv, CfpBindingIsInverse
    <2> QED BY <1>1, <1>2, <2>1 DEF PIds
  <1> QED BY <1>3, <1>4 DEF CfpInv

LEMMA CfpStep == TypeOK /\ CfpInv /\ [Next]_vars => CfpInv'
  <1> SUFFICES ASSUME TypeOK, CfpInv, [Next]_vars PROVE CfpInv'
    OBVIOUS
  <1>1. ASSUME UNCHANGED <<proposalCount, cfpOf, cfpProposalId>> PROVE CfpInv'
    BY <1>1 DEF CfpInv, BindingsAreOfRegistered, CfpBindingIsInverse
  <1> USE DEF proposalVars
  <1>2. ASSUME NEW s \in SIds, NEW class \in Classes, NEW payload \in Payloads,
               NEW w \in Windows, RegisterProposal(s, class, payload, w)
        PROVE  CfpInv'
    <2>1. proposalCount' = proposalCount + 1 /\ proposalCount \in Nat
          /\ UNCHANGED <<cfpOf, cfpProposalId>>
      BY <1>2 DEF RegisterProposal, NewProposal, TypeOK
    <2>2. \A j \in CfpRevisions : cfpProposalId[j] \in Nat
      BY DEF TypeOK
    <2> QED BY <2>1, <2>2 DEF CfpInv, BindingsAreOfRegistered, CfpBindingIsInverse, PIds
  <1>3. CASE RegistrarStep
    BY <1>1, <1>2, <1>3, CfpRegistered
       DEF RegistrarStep, CreateSession, RegisterMember, RecordHouseDeliberation
  <1>4. CASE MemberStep
    <2>1. ASSUME NEW p, NEW m, NEW i, Vote(p, m, i) PROVE CfpInv'
      BY <1>1, <2>1 DEF Vote
    <2> QED BY <1>1, <1>4, <2>1 DEF MemberStep, CastVote, CastCfpApprovalVote, SignBallot,
                                    CastCfpApprovalVoteBySig
  <1>5. CASE ReviewerStep
    BY <1>1, <1>5 DEF ReviewerStep, RecordPreVoteReview, RecordContractTestEvidence,
                      RecordConstitutionalEvidence, RecordReview
  <1>6. CASE OutcomeStep
    BY <1>1, <1>6 DEF OutcomeStep, FinalizeProposal, QueueProposal, CancelQueuedProposal,
                      ExecuteProposal
  <1>7. CASE Tick \/ UNCHANGED vars
    BY <1>1, <1>7 DEF Tick, vars
  <1> QED BY <1>3, <1>4, <1>5, <1>6, <1>7 DEF Next

(* A CFP revision has at most one proposal, and cfpProposalId finds it: the  *)
(* index and the binding are each other's inverse after any registrations.   *)
THEOREM CfpBound == Spec => []CfpBindingIsInverse
  <1>1. CfpInv => CfpBindingIsInverse
    BY DEF CfpInv
  <1> QED BY <1>1, CfpInit, CfpStep, TypeCorrect, PTL DEF Spec
------------------------------------------------------------------------------
(* Beside other components.  A page may have anything signed: the house and  *)
(* the nonce of a ballot may be those of another moment.  None of the above  *)
(* depends on what is signed.                                                *)

SignAnything ==
    /\ signed \subseteq signed' /\ signed' \subseteq SignedBallot
    /\ UNCHANGED <<now, registryVars, proposalVars, ballotVars, resultVars, evidenceVars,
                   votingNonces, relayed>>
OpenNext == Next \/ SignAnything
OpenSpec == Init /\ [][OpenNext]_vars

GovernorInv == TypeOK /\ OutcomeInv /\ BallotInv /\ RelayInv /\ CfpInv

LEMMA OpenStep == GovernorInv /\ [OpenNext]_vars => GovernorInv'
  <1> SUFFICES ASSUME GovernorInv, [OpenNext]_vars PROVE GovernorInv'
    OBVIOUS
  <1>1. CASE [Next]_vars
    BY <1>1, TypeStep, OutcomeStepInv, BallotStep, RelayStep, CfpStep DEF GovernorInv
  <1>2. CASE SignAnything
    <2> USE DEF registryVars, proposalVars, resultVars, evidenceVars, ballotVars
    <2>1. TypeOK'
      BY <1>2 DEF SignAnything, GovernorInv, TypeOK
    <2>2. OutcomeInv'
      <3>1. UNCHANGED outcomeVars
        BY <1>2 DEF SignAnything, outcomeVars
      <3> QED BY <3>1, QuietStep DEF GovernorInv
    <2>3. BallotInv'
      <3>1. /\ UNCHANGED <<sessions, memberHouse, proposals, approved>> /\ UNCHANGED ballotVars
            /\ \A p \in PIds : status'[p].finalized = status[p].finalized
        BY <1>2 DEF SignAnything
      <3> QED BY <3>1, BallotQuiet DEF GovernorInv
    <2>4. RelayInv'
      BY <1>2 DEF SignAnything, GovernorInv, RelayInv, RelayedAreSpent, NoncesCountRelayedBallots
    <2>5. CfpInv'
      BY <1>2 DEF SignAnything, GovernorInv, CfpInv, BindingsAreOfRegistered, CfpBindingIsInverse
    <2> QED BY <2>1, <2>2, <2>3, <2>4, <2>5 DEF GovernorInv
  <1> QED BY <1>1, <1>2 DEF OpenNext

LEMMA OpenInit == Init => GovernorInv
  BY TypeInit, OutcomeInit, BallotInit, RelayInit, CfpInit DEF GovernorInv

(* Whatever members sign, and whoever submits it how often and in any order, *)
(* calls are authorised and approved, ballots counted and nonces spent.      *)
THEOREM SafeWhateverIsSigned ==
    OpenSpec => [](/\ CallsAreAuthorised /\ CallsAreApproved /\ ExecutedOnce
                   /\ BallotsAreAccounted /\ NoncesCountRelayedBallots /\ CfpBindingIsInverse)
  <1>1. GovernorInv => /\ CallsAreAuthorised /\ CallsAreApproved /\ ExecutedOnce
                       /\ BallotsAreAccounted /\ NoncesCountRelayedBallots /\ CfpBindingIsInverse
    <2> SUFFICES ASSUME GovernorInv
                 PROVE  /\ CallsAreAuthorised /\ CallsAreApproved /\ ExecutedOnce
                        /\ BallotsAreAccounted /\ NoncesCountRelayedBallots /\ CfpBindingIsInverse
      OBVIOUS
    <2>1. CallsAreAuthorised /\ CallsAreApproved
      BY AuthorisedByInv, ApprovedByInv DEF GovernorInv
    <2>2. ExecutedOnce
      BY DEF GovernorInv, OutcomeInv, CallInWindow, ExecutedOnce
    <2>3. BallotsAreAccounted
      BY DEF GovernorInv, BallotInv, BallotsAreAccounted
    <2>4. NoncesCountRelayedBallots /\ CfpBindingIsInverse
      BY DEF GovernorInv, RelayInv, CfpInv
    <2> QED BY <2>1, <2>2, <2>3, <2>4
  <1> QED BY <1>1, OpenInit, OpenStep, PTL DEF OpenSpec

(* Nobody leaves a house, a registered proposal stays, a relayed ballot is   *)
(* of the house its member has.                                              *)
Kept ==
    /\ relayed \subseteq relayed' /\ signed \subseteq signed'
    /\ \A s \in SIds, m \in Members : memberHouse[s][m] \in Houses =>
        memberHouse'[s][m] = memberHouse[s][m]
    /\ \A p \in PIds : Registered(p) => proposals'[p] = proposals[p]
    /\ \A p \in PIds : p <= proposalCount' => p <= proposalCount \/ proposals'[p].session # 0

Seated(b) == Registered(b.proposal) /\ HouseOf(b.proposal, b.member) = b.house /\ b.house \in Houses
RelayedAreSeated == \A b \in relayed : Seated(b)

LEMMA GovernorKeeps == GovernorInv /\ [OpenNext]_vars => Kept
  <1> SUFFICES ASSUME GovernorInv, [OpenNext]_vars PROVE Kept
    OBVIOUS
  <1> USE DEF registryVars, proposalVars, relayVars
  <1>1. ASSUME UNCHANGED <<memberHouse, proposals, proposalCount>>, relayed \subseteq relayed',
               signed \subseteq signed'
        PROVE  Kept
    BY <1>1 DEF Kept
  <1>2. CASE SignAnything \/ Tick \/ UNCHANGED vars
    BY <1>1, <1>2 DEF SignAnything, Tick, vars
  <1>3. CASE MemberStep
    <2>1. ASSUME NEW p, NEW m, NEW i, Vote(p, m, i), relayed \subseteq relayed',
                 UNCHANGED signed
          PROVE  Kept
      BY <1>1, <2>1 DEF Vote
    <2>2. ASSUME NEW b \in signed, CastCfpApprovalVoteBySig(b) PROVE Kept
      BY <2>1, <2>2 DEF CastCfpApprovalVoteBySig
    <2>3. ASSUME NEW p, NEW m, NEW i, CastVote(p, m, i) PROVE Kept
      BY <2>1, <2>3 DEF CastVote
    <2>4. ASSUME NEW p, NEW m, NEW i, SignBallot(p, m, i) PROVE Kept
      BY <1>1, <2>4 DEF SignBallot
    <2> QED BY <1>3, <2>2, <2>3, <2>4 DEF MemberStep, CastCfpApprovalVote
  <1>4. CASE RegistrarStep
    <2>1. ASSUME NEW s \in SIds, NEW m \in Members, NEW h \in Houses, RegisterMember(s, m, h)
          PROVE  Kept
      BY <2>1 DEF RegisterMember, MembershipOpen, Kept, GovernorInv, TypeOK, Houses, NoHouse
    <2>2. ASSUME NEW s \in SIds, NEW class, NEW payload, NEW w, NewProposal(s, class, payload, w)
          PROVE  Kept
      <3>1. proposalCount + 1 > proposalCount /\ \A p \in PIds : p > proposalCount => ~Registered(p)
        BY DEF GovernorInv, TypeOK, OutcomeInv, NewestUnused, Registered, NoProposal
      <3>2. /\ UNCHANGED <<memberHouse, relayed, signed>> /\ proposalCount' = proposalCount + 1
            /\ \A p \in PIds : p # proposalCount + 1 => proposals'[p] = proposals[p]
            /\ \A p \in PIds : p = proposalCount + 1 => proposals'[p].session # 0
        BY <2>2 DEF NewProposal, GovernorInv, TypeOK, SIds
      <3>3. \A p \in PIds : p <= proposalCount + 1 => p <= proposalCount \/ p = proposalCount + 1
        BY DEF GovernorInv, TypeOK, PIds
      <3> QED BY <3>1, <3>2, <3>3 DEF Kept
    <2>3. ASSUME NEW c, CreateSession(c) PROVE Kept
      BY <1>1, <2>3 DEF CreateSession
    <2>4. ASSUME NEW p, NEW h, RecordHouseDeliberation(p, h) PROVE Kept
      BY <1>1, <2>4 DEF RecordHouseDeliberation
    <2> QED BY <1>4, <2>1, <2>2, <2>3, <2>4 DEF RegistrarStep, RegisterProposal, RegisterCfpProposal
  <1>5. CASE ReviewerStep
    BY <1>1, <1>5 DEF ReviewerStep, RecordPreVoteReview, RecordContractTestEvidence,
                      RecordConstitutionalEvidence, RecordReview
  <1>6. CASE OutcomeStep
    BY <1>1, <1>6 DEF OutcomeStep, FinalizeProposal, QueueProposal, CancelQueuedProposal,
                      ExecuteProposal
  <1> QED BY <1>2, <1>3, <1>4, <1>5, <1>6 DEF Next, OpenNext

------------------------------------------------------------------------------
(* The gateway's relayer.                                                    *)

RelayPcs == {"status", "submit", "waiting", "mined", "reverted", "confirmed", "failed", "lost"}
RelayOp == [pc : RelayPcs, ballot : SignedBallot, key : Keys]
Sent == [op : Ops, ballot : SignedBallot]
AnswerTypes == ops \in [Ops -> {NoOp} \cup RelayOp] /\ pool \in Seq(Sent)

(* What the pool holds was sent for the ballot of its operation. *)
OfItsOperation(t) == ops[t.op] \in RelayOp /\ ops[t.op].ballot = t.ballot
PoolIsSent == \A i \in 1..Len(pool) : OfItsOperation(pool[i])

(* An operation that saw a receipt saw that of its own ballot. *)
Told(o) == ops[o].pc \in {"mined", "confirmed"}
ToldIsCounted ==
    /\ \A o \in Ops : Told(o) => ops[o].ballot \in relayed
    /\ \A o, n \in Ops : Told(o) /\ Told(n) /\ o # n => ops[o].ballot # ops[n].ballot

AnswerInv == AnswerTypes /\ PoolIsSent /\ ToldIsCounted

(* An operation goes on: its ballot stays. *)
LEMMA OperationGoes ==
    ASSUME AnswerInv, NEW o \in Ops, NEW pc \in RelayPcs, ops[o] \in RelayOp, Goes(o, pc)
    PROVE  /\ ops' \in [Ops -> {NoOp} \cup RelayOp]
           /\ ops'[o] \in RelayOp /\ ops'[o].pc = pc /\ ops'[o].ballot = ops[o].ballot
           /\ \A n \in Ops : n # o => ops'[n] = ops[n]
  BY DEF AnswerInv, AnswerTypes, Goes, RelayOp

(* Steps that tell nobody anything new. *)
LEMMA NothingTold ==
    ASSUME AnswerInv, AnswerTypes', relayed \subseteq relayed',
           \A o \in Ops : ops[o] \in RelayOp => ops'[o] \in RelayOp /\ ops'[o].ballot = ops[o].ballot,
           \A o \in Ops : ops'[o].pc \in {"mined", "confirmed"} => Told(o),
           \A i \in 1..Len(pool') :
               (\E j \in 1..Len(pool) : pool'[i] = pool[j]) \/ OfItsOperation(pool'[i])
    PROVE  AnswerInv'
  <1>1. \A o \in Ops : Told(o) => ops[o] \in RelayOp
    BY DEF AnswerInv, AnswerTypes, Told, NoOp
  <1>2. ToldIsCounted'
    BY <1>1 DEF AnswerInv, ToldIsCounted, Told
  <1>3. ASSUME NEW i \in 1..Len(pool') PROVE OfItsOperation(pool'[i])
    BY <1>3 DEF AnswerInv, PoolIsSent
  <1>4. \A i \in 1..Len(pool') : pool'[i].op \in Ops
    <2>1. pool' \in Seq(Sent)
      BY DEF AnswerTypes
    <2>2. \A i \in 1..Len(pool') : pool'[i] \in Sent
      BY <2>1
    <2> QED BY <2>2 DEF Sent
  <1>5. PoolIsSent'
    BY <1>3, <1>4 DEF PoolIsSent, OfItsOperation
  <1> QED BY <1>2, <1>5 DEF AnswerInv

LEMMA AnswerGoes ==
    ASSUME AnswerInv, NEW o \in Ops, NEW pc \in RelayPcs, ops[o] \in RelayOp, Goes(o, pc),
           pc = "mined" => FALSE, pc = "confirmed" => ops[o].pc = "mined", UNCHANGED <<relayed, pool>>
    PROVE  AnswerInv'
  <1>1. /\ ops' \in [Ops -> {NoOp} \cup RelayOp]
        /\ ops'[o] \in RelayOp /\ ops'[o].pc = pc /\ ops'[o].ballot = ops[o].ballot
        /\ \A n \in Ops : n # o => ops'[n] = ops[n]
    BY OperationGoes
  <1>2. \A n \in Ops : ops'[n].pc \in {"mined", "confirmed"} => Told(n)
    BY <1>1 DEF Told
  <1>3. AnswerTypes'
    BY <1>1 DEF AnswerInv, AnswerTypes
  <1> QED BY <1>1, <1>2, <1>3, NothingTold

(* The receipt of a transaction that was mined. *)
LEMMA AnswerMined ==
    ASSUME GovernorInv, AnswerInv, Mine
    PROVE  AnswerInv'
  <1> DEFINE h == Head(pool)
  <1>1. /\ pool # <<>> /\ h = pool[1] /\ 1 \in 1..Len(pool) /\ h \in Sent
        /\ pool' \in Seq(Sent)
        /\ \A i \in 1..Len(pool') : \E j \in 1..Len(pool) : pool'[i] = pool[j]
    <2>1. pool # <<>> /\ pool' = Tail(pool) /\ pool \in Seq(Sent)
      BY DEF Mine, AnswerInv, AnswerTypes
    <2>2. \A i \in 1..Len(pool') : i + 1 \in 1..Len(pool) /\ pool'[i] = pool[i + 1]
      BY <2>1
    <2> QED BY <2>1, <2>2
  <1> PICK o \in Ops : o = h.op
    BY <1>1 DEF Sent
  <1>2. ops[o] \in RelayOp /\ ops[o].ballot = h.ballot
    BY <1>1 DEF AnswerInv, PoolIsSent, OfItsOperation
  <1> HIDE DEF h
  <1>3. CASE CastCfpApprovalVoteBySig(h.ballot) /\ Goes(o, Receipt(o, TRUE))
    <2> DEFINE b == h.ballot
    <2>1. /\ b \in SignedBallot /\ b.nonce = votingNonces[b.member] /\ relayed' = relayed \cup {b}
          /\ \A x \in relayed : x.nonce < votingNonces[x.member]
          /\ votingNonces[b.member] \in Nat
      BY <1>3 DEF CastCfpApprovalVoteBySig, BallotFresh, GovernorInv, TypeOK, RelayInv, RelayedAreSpent,
                  SignedBallot
    <2>2. b \notin relayed
      BY <2>1
    <2>3. Receipt(o, TRUE) \in RelayPcs
      BY <1>2 DEF Receipt, RelayOp, RelayPcs
    <2>4. /\ ops' \in [Ops -> {NoOp} \cup RelayOp]
          /\ ops'[o] \in RelayOp /\ ops'[o].pc = Receipt(o, TRUE) /\ ops'[o].ballot = ops[o].ballot
          /\ \A n \in Ops : n # o => ops'[n] = ops[n]
      BY <1>2, <1>3, <2>3, OperationGoes
    <2>5. AnswerTypes'
      BY <1>1, <2>4 DEF AnswerTypes
    <2>6. CASE ops[o].pc # "waiting"
      <3>1. \A n \in Ops : ops'[n].pc \in {"mined", "confirmed"} => Told(n)
        BY <2>4, <2>6 DEF Told, Receipt
      <3> QED BY <1>1, <2>1, <2>4, <2>5, <3>1, NothingTold
    <2>7. CASE ops[o].pc = "waiting"
      <3>1. \A n \in Ops : n # o => (ops'[n].pc \in {"mined", "confirmed"} <=> Told(n))
        BY <2>4 DEF Told
      <3>2. ToldIsCounted'
        <4>1. \A n \in Ops : Told(n)' => ops'[n].ballot \in relayed'
          BY <1>2, <2>1, <2>4, <3>1 DEF Told, AnswerInv, ToldIsCounted
        <4>2. \A n \in Ops : Told(n) => ops[n].ballot # b
          BY <2>2 DEF AnswerInv, ToldIsCounted
        <4>3. ASSUME NEW m \in Ops, NEW n \in Ops, Told(m)', Told(n)', m # n
              PROVE  ops'[m].ballot # ops'[n].ballot
          <5>1. CASE m # o /\ n # o
            BY <2>4, <3>1, <4>3, <5>1 DEF Told, AnswerInv, ToldIsCounted
          <5>2. CASE m = o
            BY <1>2, <2>4, <3>1, <4>2, <4>3, <5>2 DEF Told
          <5>3. CASE n = o
            BY <1>2, <2>4, <3>1, <4>2, <4>3, <5>3 DEF Told
          <5> QED BY <5>1, <5>2, <5>3
        <4> QED BY <4>1, <4>3 DEF ToldIsCounted
      <3>3. PoolIsSent'
        <4>1. \A n \in Ops : ops[n] \in RelayOp => ops'[n] \in RelayOp /\ ops'[n].ballot = ops[n].ballot
          BY <2>4
        <4>2. \A i \in 1..Len(pool') : pool'[i] \in Sent
          BY <1>1
        <4> QED BY <1>1, <4>1, <4>2 DEF AnswerInv, PoolIsSent, OfItsOperation, Sent
      <3> QED BY <2>5, <3>2, <3>3 DEF AnswerInv
    <2> QED BY <2>6, <2>7
  <1>4. CASE UNCHANGED vars /\ Goes(o, Receipt(o, FALSE))
    <2>1. Receipt(o, FALSE) \in RelayPcs
      BY <1>2 DEF Receipt, RelayOp, RelayPcs
    <2>2. /\ ops' \in [Ops -> {NoOp} \cup RelayOp]
          /\ ops'[o] \in RelayOp /\ ops'[o].pc = Receipt(o, FALSE) /\ ops'[o].ballot = ops[o].ballot
          /\ \A n \in Ops : n # o => ops'[n] = ops[n]
      BY <1>2, <1>4, <2>1, OperationGoes
    <2>3. \A n \in Ops : ops'[n].pc \in {"mined", "confirmed"} => Told(n)
      BY <2>2 DEF Told, Receipt
    <2>4. AnswerTypes' /\ relayed' = relayed
      BY <1>1, <1>4, <2>2 DEF AnswerTypes, vars, relayVars
    <2> QED BY <1>1, <2>2, <2>3, <2>4, NothingTold
  <1> QED BY <1>3, <1>4 DEF Mine, h

LEMMA AnswerStep == GovernorInv /\ AnswerInv /\ [RelayerNext]_allVars => AnswerInv'
  <1> SUFFICES ASSUME GovernorInv, AnswerInv, [RelayerNext]_allVars PROVE AnswerInv'
    OBVIOUS
  <1> USE DEF vars, relayVars
  <1>1. ASSUME UNCHANGED <<ops, pool>>, relayed \subseteq relayed' PROVE AnswerInv'
    BY <1>1 DEF AnswerInv, AnswerTypes, PoolIsSent, OfItsOperation, ToldIsCounted, Told
  <1>2. \A o \in Ops : ops[o].pc # "idle" => ops[o] \in RelayOp
    BY DEF AnswerInv, AnswerTypes, NoOp
  <1>3. CASE Next /\ UNCHANGED relayerVars
    <2>1. Kept
      BY <1>3, GovernorKeeps DEF OpenNext
    <2> QED BY <1>1, <1>3, <2>1 DEF Kept, relayerVars
  <1>4. ASSUME NEW o \in Ops, NEW b \in signed, NEW k \in Keys, Relay(o, b, k) PROVE AnswerInv'
    <2>1. b \in SignedBallot
      BY DEF GovernorInv, TypeOK
    <2>2. PICK new \in RelayOp : new = [pc |-> "status", ballot |-> b, key |-> k]
      BY <2>1 DEF RelayOp, RelayPcs
    <2>3. /\ ops[o] = NoOp /\ ops' = [ops EXCEPT ![o] = new] /\ UNCHANGED <<relayed, pool>>
          /\ ops[o] \notin RelayOp /\ new.pc = "status"
      BY <1>4, <2>2 DEF Relay, NoOp, RelayOp, RelayPcs
    <2>4. AnswerTypes'
      BY <2>3 DEF AnswerInv, AnswerTypes
    <2>5. /\ \A n \in Ops : ops[n] \in RelayOp => ops'[n] = ops[n]
          /\ \A n \in Ops : ops'[n].pc \in {"mined", "confirmed"} => Told(n)
      BY <2>3 DEF AnswerInv, AnswerTypes, Told
    <2> QED BY <2>3, <2>4, <2>5, NothingTold
  <1>5. ASSUME NEW o \in Ops, Submit(o) PROVE AnswerInv'
    <2>1. /\ ops[o].pc = "submit" /\ relayed' = relayed
          /\ pool' = Append(pool, [op |-> o, ballot |-> ops[o].ballot])
          /\ \E pc \in {"waiting", "failed"} : Goes(o, pc)
      BY <1>5 DEF Submit, Fails
    <2>2. PICK pc \in {"waiting", "failed"} : Goes(o, pc)
      BY <2>1
    <2>3. ops[o] \in RelayOp /\ pc \in RelayPcs
      BY <1>2, <2>1 DEF RelayPcs
    <2>4. /\ ops' \in [Ops -> {NoOp} \cup RelayOp]
          /\ ops'[o] \in RelayOp /\ ops'[o].pc = pc /\ ops'[o].ballot = ops[o].ballot
          /\ \A n \in Ops : n # o => ops'[n] = ops[n]
      BY <2>2, <2>3, OperationGoes
    <2>5. PICK t \in Sent : t = [op |-> o, ballot |-> ops[o].ballot]
      BY <2>3 DEF Sent, RelayOp
    <2>6. /\ pool' \in Seq(Sent)
          /\ \A i \in 1..Len(pool') : (\E j \in 1..Len(pool) : pool'[i] = pool[j]) \/ pool'[i] = t
      BY <2>1, <2>5 DEF AnswerInv, AnswerTypes
    <2>7. OfItsOperation(t)
      BY <2>3, <2>5 DEF OfItsOperation
    <2>8. AnswerTypes'
      BY <2>4, <2>6 DEF AnswerTypes
    <2>9. \A n \in Ops : ops'[n].pc \in {"mined", "confirmed"} => Told(n)
      BY <2>4 DEF Told
    <2> QED BY <2>1, <2>4, <2>6, <2>7, <2>8, <2>9, NothingTold
  <1>6. ASSUME NEW o \in Ops, StatusRead(o) \/ SubmitFails(o) \/ Confirm(o) \/ RelayFails(o)
        PROVE  AnswerInv'
    <2>1. /\ ops[o].pc # "idle" /\ UNCHANGED <<relayed, pool>>
          /\ \/ \E pc \in {"submit", "failed"} : Goes(o, pc)
             \/ Goes(o, "confirmed") /\ ops[o].pc = "mined"
      BY <1>6 DEF StatusRead, SubmitFails, Confirm, RelayFails, NoAnswer, Fails
    <2>2. ops[o] \in RelayOp
      BY <1>2, <2>1
    <2>3. CASE \E pc \in {"submit", "failed"} : Goes(o, pc)
      <3>1. PICK pc \in {"submit", "failed"} : Goes(o, pc)
        BY <2>3
      <3> QED BY <2>1, <2>2, <3>1, AnswerGoes DEF RelayPcs
    <2>4. CASE Goes(o, "confirmed") /\ ops[o].pc = "mined"
      BY <2>1, <2>2, <2>4, AnswerGoes DEF RelayPcs
    <2> QED BY <2>1, <2>3, <2>4
  <1>7. CASE Dropped
    <2>1. /\ pool # <<>> /\ pool' = Tail(pool) /\ pool \in Seq(Sent) /\ UNCHANGED <<relayed, ops>>
      BY <1>7 DEF Dropped, AnswerInv, AnswerTypes
    <2>2. pool' \in Seq(Sent) /\ \A i \in 1..Len(pool') : i + 1 \in 1..Len(pool) /\ pool'[i] = pool[i + 1]
      BY <2>1
    <2>3. AnswerTypes'
      BY <2>1, <2>2 DEF AnswerInv, AnswerTypes
    <2> QED BY <2>1, <2>2, <2>3, NothingTold DEF Told
  <1>8. CASE Restart
    <2>1. /\ UNCHANGED <<relayed, pool>>
          /\ \A o \in Ops : \/ ops'[o] = ops[o]
                            \/ /\ ops[o] \in RelayOp /\ ops'[o] = [ops[o] EXCEPT !.pc = "lost"]
      BY <1>2, <1>8 DEF Restart, Running
    <2>2. \A o \in Ops : ops[o] \in RelayOp =>
             /\ [ops[o] EXCEPT !.pc = "lost"] \in RelayOp
             /\ [ops[o] EXCEPT !.pc = "lost"].pc = "lost"
             /\ [ops[o] EXCEPT !.pc = "lost"].ballot = ops[o].ballot
      BY DEF RelayOp, RelayPcs
    <2>3. \A o \in Ops :
             \/ ops'[o] = ops[o]
             \/ ops[o] \in RelayOp /\ ops'[o] \in RelayOp /\ ops'[o].pc = "lost" /\ ops'[o].ballot = ops[o].ballot
      BY <2>1, <2>2
    <2>4. AnswerTypes'
      <3>1. ops' = [o \in Ops |-> ops'[o]]
        BY <1>8 DEF Restart
      <3> QED BY <2>1, <2>3, <3>1 DEF AnswerInv, AnswerTypes
    <2>5. /\ \A o \in Ops : ops[o] \in RelayOp => ops'[o] \in RelayOp /\ ops'[o].ballot = ops[o].ballot
          /\ \A o \in Ops : ops'[o].pc \in {"mined", "confirmed"} => Told(o)
      BY <2>3 DEF Told
    <2> QED BY <2>1, <2>4, <2>5, NothingTold
  <1>9. CASE UNCHANGED allVars
    BY <1>1, <1>9 DEF allVars, relayerVars
  <1> QED BY <1>3, <1>4, <1>5, <1>6, <1>7, <1>8, <1>9, AnswerMined DEF RelayerNext, Answers

LEMMA AnswerInit == RelayerInit => AnswerInv
  BY DEF RelayerInit, AnswerInv, AnswerTypes, PoolIsSent, ToldIsCounted, Told, NoOp

LEMMA RelayerSteps == [RelayerNext]_allVars => [Next]_vars
  <1> SUFFICES ASSUME [RelayerNext]_allVars PROVE Next \/ UNCHANGED vars
    OBVIOUS
  <1>1. CASE Next \/ UNCHANGED allVars
    BY <1>1 DEF allVars
  <1>2. CASE Mine
    <2>1. CASE CastCfpApprovalVoteBySig(Head(pool).ballot)
      <3>1. Head(pool).ballot \in signed
        BY <2>1 DEF CastCfpApprovalVoteBySig
      <3> QED BY <2>1, <3>1 DEF Next, MemberStep
    <2> QED BY <1>2, <2>1 DEF Mine
  <1>3. ASSUME NEW o \in Ops, NEW b \in signed, NEW k \in Keys, Relay(o, b, k) PROVE UNCHANGED vars
    BY <1>3 DEF Relay
  <1>4. ASSUME NEW o \in Ops, Submit(o) \/ Confirm(o) \/ Answers(o) PROVE UNCHANGED vars
    BY <1>4 DEF Submit, Confirm, Answers, StatusRead, SubmitFails, RelayFails
  <1>5. CASE Dropped \/ Restart
    BY <1>5 DEF Dropped, Restart
  <1> QED BY <1>1, <1>2, <1>3, <1>4, <1>5 DEF RelayerNext

(* Whatever the relayer forgets, repeats or loses, the governor behind it    *)
(* takes steps of its own: the theorems above hold of it.                    *)
THEOREM RelayerRefinesGovernor == RelayerSpec => Spec
  <1>1. RelayerInit => Init
    BY DEF RelayerInit
  <1> QED BY <1>1, RelayerSteps, PTL DEF RelayerSpec, Spec

(* VOTE_CONFIRMED is said of a ballot the contract counted, and no two calls *)
(* are told of the same one.                                                 *)
THEOREM ConfirmedIsCounted == RelayerSpec => []AnswersAreTrue
  <1>1. AnswerInv => AnswersAreTrue
    BY DEF AnswerInv, ToldIsCounted, Told, AnswersAreTrue
  <1>2. RelayerInit => GovernorInv /\ AnswerInv
    BY OpenInit, AnswerInit DEF RelayerInit
  <1>3. GovernorInv /\ AnswerInv /\ [RelayerNext]_allVars => (GovernorInv /\ AnswerInv)'
    BY RelayerSteps, OpenStep, AnswerStep DEF OpenNext
  <1> QED BY <1>1, <1>2, <1>3, PTL DEF RelayerSpec
------------------------------------------------------------------------------
(* The member's page in front of both.                                       *)

(* An operation keeps its ballot. *)
OperationsKept ==
    \A o \in Ops : ops[o] \in RelayOp => ops'[o] \in RelayOp /\ ops'[o].ballot = ops[o].ballot

LEMMA OperationsKeep == GovernorInv /\ AnswerInv /\ [RelayerNext]_allVars => OperationsKept
  <1> SUFFICES ASSUME GovernorInv, AnswerInv, [RelayerNext]_allVars PROVE OperationsKept
    OBVIOUS
  <1>1. ASSUME UNCHANGED ops PROVE OperationsKept
    BY <1>1 DEF OperationsKept
  <1>2. ASSUME NEW o \in Ops, NEW pc \in RelayPcs, Goes(o, pc) PROVE OperationsKept
    BY <1>2 DEF Goes, OperationsKept, AnswerInv, AnswerTypes, RelayOp
  <1>3. ASSUME NEW o \in Ops, Fails(o) PROVE OperationsKept
    BY <1>2, <1>3 DEF Fails, RelayPcs
  <1>4. CASE (Next /\ UNCHANGED relayerVars) \/ Dropped \/ UNCHANGED allVars
    BY <1>1, <1>4 DEF relayerVars, Dropped, allVars
  <1>5. ASSUME NEW o \in Ops, NEW b \in signed, NEW k \in Keys, Relay(o, b, k) PROVE OperationsKept
    <2>1. ops[o] \notin RelayOp
      BY <1>5 DEF Relay, NoOp, RelayOp, RelayPcs
    <2> QED BY <1>5, <2>1 DEF Relay, OperationsKept, AnswerInv, AnswerTypes
  <1>6. ASSUME NEW o \in Ops, Submit(o) \/ Confirm(o) \/ Answers(o) PROVE OperationsKept
    BY <1>2, <1>3, <1>6 DEF Submit, Confirm, Answers, StatusRead, SubmitFails, RelayFails, RelayPcs
  <1>7. CASE Mine
    <2>1. Head(pool) \in Sent /\ OfItsOperation(Head(pool))
      <3>1. pool # <<>> /\ pool \in Seq(Sent)
        BY <1>7 DEF Mine, AnswerInv, AnswerTypes
      <3>2. Head(pool) = pool[1] /\ 1 \in 1..Len(pool) /\ pool[1] \in Sent
        BY <3>1
      <3> QED BY <3>2 DEF AnswerInv, PoolIsSent
    <2> PICK o \in Ops : o = Head(pool).op
      BY <2>1 DEF Sent
    <2>2. Receipt(o, TRUE) \in RelayPcs /\ Receipt(o, FALSE) \in RelayPcs
      BY <2>1 DEF OfItsOperation, Receipt, RelayOp, RelayPcs
    <2>3. Goes(o, Receipt(o, TRUE)) \/ Goes(o, Receipt(o, FALSE))
      BY <1>7 DEF Mine
    <2> QED BY <1>2, <2>2, <2>3
  <1>8. CASE Restart
    <2>1. \A o \in Ops : ops[o] \in RelayOp =>
             /\ [ops[o] EXCEPT !.pc = "lost"] \in RelayOp
             /\ [ops[o] EXCEPT !.pc = "lost"].ballot = ops[o].ballot
      BY DEF RelayOp, RelayPcs
    <2> QED BY <1>8, <2>1 DEF Restart, OperationsKept
  <1> QED BY <1>4, <1>5, <1>6, <1>7, <1>8 DEF RelayerNext

(* Reading: a refresh under way is for a wallet, what was read is of a session. *)
LoadFits(l) ==
    l # Nothing =>
        /\ l.pc = "membership" => l.member \in Members
        /\ l.pc = "proposal" => l.member \in Members /\ l.session \in SIds
ReadsFit ==
    /\ wallet \in Members \cup {NoWallet} /\ proposalId \in PIds
    /\ house \in Houses \cup {NoHouse}
    /\ shown # Nothing => shown.session \in SIds
    /\ loads = [f \in Loads |-> loads[f]]
    /\ \A f \in Loads : LoadFits(loads[f])

(* Registering: what was mined has put the member in the page's house. *)
Sits(m) == FirstSession \in SIds /\ m \in Members /\ memberHouse[FirstSession][m] = FocusHouse
JoinsFit ==
    /\ registration \in {Nothing} \cup [pc : {"sent", "mined", "unwatched"}, member : Members]
    /\ RegistrationIs("mined") => Sits(registration.member)
    /\ joined # Nothing => Sits(joined)

(* Voting: a posted ballot is its operation's, an answered one was counted. *)
CastFits(o) ==
    /\ CastIs(o, "signed") => casts[o].ballot \in signed
    /\ CastIs(o, "posted") => ops[o] \in RelayOp /\ ops[o].ballot = casts[o].ballot
VotesFit ==
    /\ casts \in [Ops ->
            {Nothing} \cup [pc : {"nonce"}, member : Members, proposal : PIds, session : SIds]
                      \cup [pc : {"signature", "signed", "posted"}, ballot : SignedBallot]]
    /\ \A o \in Ops : CastFits(o)
    /\ voted # Nothing => voted \in relayed

(* Proposals are registered without a gap. *)
NoGap == \A p \in PIds : p <= proposalCount => Registered(p)

PageInv == GovernorInv /\ AnswerInv /\ RelayedAreSeated /\ NoGap /\ ReadsFit /\ JoinsFit /\ VotesFit

PageStep == [RelayerNext]_allVars \/ (SignAnything /\ UNCHANGED relayerVars)

LEMMA SeatedStep == GovernorInv /\ RelayedAreSeated /\ [OpenNext]_vars => RelayedAreSeated'
  <1> SUFFICES ASSUME GovernorInv, RelayedAreSeated, [OpenNext]_vars PROVE RelayedAreSeated'
    OBVIOUS
  <1> USE DEF registryVars, proposalVars, relayVars
  <1>1. Kept
    BY GovernorKeeps
  <1>2. \A b \in relayed : b.proposal \in PIds /\ b.member \in Members
    BY DEF GovernorInv, TypeOK, SignedBallot
  <1>3. ASSUME NEW b, b.proposal \in PIds, b.member \in Members, Seated(b)
        PROVE  Registered(b.proposal)' /\ HouseOf(b.proposal, b.member)' = b.house
    <2>1. proposals[b.proposal] \in Proposal \cup {NoProposal} /\ Registered(b.proposal)
      BY <1>3 DEF Seated, GovernorInv, TypeOK
    <2>2. proposals[b.proposal].session \in SIds
      BY <2>1 DEF Registered, Proposal, NoProposal
    <2> QED BY <1>1, <1>3, <2>2 DEF Seated, Kept, Registered, HouseOf
  <1>4. ASSUME NEW b \in relayed' PROVE Seated(b) /\ b.proposal \in PIds /\ b.member \in Members
    <2>1. CASE b \in relayed
      BY <1>2, <2>1 DEF RelayedAreSeated
    <2>2. CASE b \notin relayed
      <3>1. b \in signed /\ CastCfpApprovalVoteBySig(b)
        <4>1. ASSUME UNCHANGED relayed PROVE FALSE
          BY <2>2, <4>1
        <4>2. CASE MemberStep
          <5>1. ASSUME NEW x \in signed, CastCfpApprovalVoteBySig(x) PROVE b = x
            BY <2>2, <5>1 DEF CastCfpApprovalVoteBySig
          <5> QED BY <4>1, <4>2, <5>1 DEF MemberStep, CastVote, CastCfpApprovalVote, SignBallot
        <4>3. CASE RegistrarStep
          <5>1. ASSUME NEW s, NEW class, NEW payload, NEW w, NewProposal(s, class, payload, w)
                PROVE  FALSE
            BY <4>1, <5>1 DEF NewProposal
          <5> QED BY <4>1, <4>3, <5>1 DEF RegistrarStep, CreateSession, RegisterMember,
                      RegisterProposal, RegisterCfpProposal, RecordHouseDeliberation
        <4>4. CASE ReviewerStep
          BY <4>1, <4>4 DEF ReviewerStep, RecordPreVoteReview, RecordContractTestEvidence,
                            RecordConstitutionalEvidence, RecordReview
        <4>5. CASE OutcomeStep
          BY <4>1, <4>5 DEF OutcomeStep, FinalizeProposal, QueueProposal, CancelQueuedProposal,
                            ExecuteProposal
        <4>6. CASE Tick \/ SignAnything \/ UNCHANGED vars
          BY <4>1, <4>6 DEF Tick, SignAnything, vars
        <4> QED BY <4>2, <4>3, <4>4, <4>5, <4>6 DEF Next, OpenNext
      <3>2. b.proposal \in PIds /\ b.member \in Members
        BY <3>1 DEF GovernorInv, TypeOK, SignedBallot
      <3> QED BY <3>1, <3>2 DEF CastCfpApprovalVoteBySig, Vote, Seated, HouseOf
    <2> QED BY <2>1, <2>2
  <1>5. \A b \in relayed' : Seated(b)'
    BY <1>3, <1>4 DEF Seated
  <1> QED BY <1>5 DEF RelayedAreSeated

(* What every step of the others leaves as it is on the page. *)
LEMMA JoinsStay ==
    ASSUME JoinsFit, GovernorInv, Kept, UNCHANGED <<registration, joined>>
    PROVE  JoinsFit'
  <1>1. ASSUME NEW m, Sits(m) PROVE Sits(m)'
    BY <1>1, GovernancePageAssumption DEF Sits, Kept, FirstSession
  <1> QED BY <1>1 DEF JoinsFit, RegistrationIs

LEMMA CastsStay ==
    ASSUME NEW o \in Ops, CastFits(o), Kept, OperationsKept, casts'[o] = casts[o]
    PROVE  CastFits(o)'
  BY DEF CastFits, CastIs, Kept, OperationsKept

LEMMA VotesStay ==
    ASSUME VotesFit, Kept, OperationsKept, UNCHANGED <<casts, voted>>
    PROVE  VotesFit'
  <1>1. \A o \in Ops : CastFits(o)'
    BY CastsStay DEF VotesFit
  <1> QED BY <1>1 DEF VotesFit, Kept

LEMMA ReadsStay == ReadsFit /\ UNCHANGED <<wallet, proposalId, house, shown, loads>> => ReadsFit'
  BY DEF ReadsFit

LEMMA ReadsMove ==
    ASSUME ReadsFit, NEW f \in Loads, NEW l, LoadFits(l), Load(f, l),
           wallet' \in Members \cup {NoWallet}, house' \in Houses \cup {NoHouse},
           shown' # Nothing => shown'.session \in SIds, proposalId' = proposalId
    PROVE  ReadsFit'
  <1>1. loads' = [g \in Loads |-> IF g = f THEN l ELSE loads[g]]
    BY DEF ReadsFit, Load
  <1>2. loads' = [g \in Loads |-> loads'[g]] /\ \A g \in Loads : LoadFits(loads'[g])
    BY <1>1 DEF ReadsFit
  <1>3. \A g \in Loads : LoadFits(loads[g])'
    BY <1>2 DEF LoadFits
  <1> QED BY <1>2, <1>3 DEF ReadsFit
(* What the page does to the governor and the relayer: nothing, or a         *)
(* signature, a request, or the registration it sent.                        *)
LEMMA PageActs == PageInv /\ GovernancePageNext => PageStep
  <1> SUFFICES ASSUME PageInv, GovernancePageNext PROVE PageStep
    OBVIOUS
  <1>1. ASSUME UNCHANGED allVars PROVE PageStep
    BY <1>1 DEF PageStep
  <1>2. ASSUME NEW f \in Loads,
               \/ \E w \in Members : Connect(f, w)
               \/ \E w \in Members \cup {NoWallet} : AccountsChanged(f, w)
               \/ \E g \in Loads : SwitchToAmoy(f, g)
               \/ ChainChanged(f) \/ CheckMembership(f) \/ Refresh(f)
               \/ MembershipRead(f) \/ ProposalRead(f) \/ Refreshed(f) \/ RefreshFailed(f)
               \/ \E o \in Ops : VoteAnswered(o, f)
        PROVE  PageStep
    BY <1>1, <1>2 DEF Connect, AccountsChanged, SwitchToAmoy, ChainChanged, WalletChanged,
                      CheckMembership, Refresh, MembershipRead, ProposalRead, Refreshed,
                      RefreshFailed, VoteAnswered
  <1>3. CASE \/ \E p \in PIds : ChooseProposal(p)
             \/ RegisterLegislator \/ RegistrationConfirmed \/ RegistrationFailed
    BY <1>1, <1>3 DEF ChooseProposal, RegisterLegislator, RegistrationConfirmed, RegistrationFailed
  <1>4. CASE RegistrationMined
    <2>1. registration.member \in Members /\ registration # Nothing
      BY <1>4 DEF RegistrationMined, RegistrationIs, PageInv, JoinsFit
    <2>2. FirstSession \in SIds
      BY <1>4, BoundAssumption
         DEF RegistrationMined, RegisterMember, FirstSession, PageInv, GovernorInv, TypeOK, SIds
    <2>3. RegisterMember(FirstSession, registration.member, FocusHouse) /\ UNCHANGED relayerVars
      BY <1>4 DEF RegistrationMined
    <2>4. RegistrarStep
      BY <2>1, <2>2, <2>3, GovernancePageAssumption DEF RegistrarStep
    <2> QED BY <2>3, <2>4 DEF PageStep, RelayerNext, Next
  <1>5. ASSUME NEW o \in Ops, BallotSigned(o) PROVE PageStep
    <2>1. casts[o].ballot \in SignedBallot
      BY <1>5 DEF BallotSigned, CastIs, PageInv, VotesFit
    <2>2. signed' \subseteq SignedBallot
      BY <1>5, <2>1 DEF BallotSigned, PageInv, GovernorInv, TypeOK
    <2> QED BY <1>5, <2>2 DEF BallotSigned, SignAnything, PageStep, relayerVars
  <1>6. ASSUME NEW o \in Ops, NEW k \in Keys, VotePosted(o, k) PROVE PageStep
    <2>1. casts[o].ballot \in signed
      BY <1>6 DEF VotePosted, PageInv, VotesFit, CastFits
    <2>2. Relay(o, casts[o].ballot, k)
      BY <1>6 DEF VotePosted
    <2> QED BY <2>1, <2>2 DEF PageStep, RelayerNext
  <1>7. ASSUME NEW o \in Ops, VoteClicked(o) \/ VoteFailed(o) \/ \E i \in Intensities : NonceRead(o, i)
        PROVE  PageStep
    BY <1>1, <1>7 DEF VoteClicked, VoteFailed, NonceRead
  <1> QED BY <1>2, <1>3, <1>4, <1>5, <1>6, <1>7 DEF GovernancePageNext

LEMMA ReadsStep == PageInv /\ GovernancePageNext => ReadsFit'
  <1> SUFFICES ASSUME PageInv, GovernancePageNext PROVE ReadsFit'
    OBVIOUS
  <1> USE DEF PageInv
  <1>1. \A l \in {Nothing, AskProposal} : LoadFits(l)
    BY DEF LoadFits, AskProposal
  <1>2. ASSUME NEW w \in Members, NEW goesOn PROVE LoadFits(AskMembership(w, goesOn))
    BY DEF LoadFits, AskMembership
  <1>3. /\ wallet \in Members \cup {NoWallet} /\ house \in Houses \cup {NoHouse}
        /\ (shown # Nothing => shown.session \in SIds)
    BY DEF ReadsFit
  <1>4. ASSUME NEW f \in Loads, NEW w \in Members, Connect(f, w) PROVE ReadsFit'
    <2>1. CASE amoy
      BY <1>2, <1>3, <1>4, <2>1, ReadsMove DEF Connect
    <2>2. CASE ~amoy
      BY <1>4, <2>2 DEF Connect, ReadsFit
    <2> QED BY <2>1, <2>2
  <1>5. ASSUME NEW f \in Loads, wallet' \in Members \cup {NoWallet}, UNCHANGED <<house, proposalId>>,
               shown' # Nothing => shown'.session \in SIds, Refreshing(f)
        PROVE  ReadsFit'
    <2>1. PICK l \in {Nothing, AskProposal} : Load(f, l)
      BY <1>5 DEF Refreshing
    <2> QED BY <1>1, <1>3, <1>5, <2>1, ReadsMove
  <1>6. ASSUME NEW f \in Loads, wallet' \in Members \cup {NoWallet}, WalletChanged(f) PROVE ReadsFit'
    <2>1. CASE wallet' # NoWallet /\ amoy'
      BY <1>5, <1>6, <2>1 DEF WalletChanged
    <2>2. CASE ~(wallet' # NoWallet /\ amoy')
      BY <1>6, <2>2 DEF WalletChanged, ReadsFit
    <2> QED BY <2>1, <2>2
  <1>7. ASSUME NEW f \in Loads, NEW g \in Loads, SwitchToAmoy(f, g) PROVE ReadsFit'
    <2>1. /\ loads' = [loads EXCEPT ![f] = AskMembership(wallet, TRUE), ![g] = AskProposal]
          /\ UNCHANGED <<wallet, proposalId, house>> /\ shown' = Nothing /\ wallet \in Members
      BY <1>3, <1>7 DEF SwitchToAmoy
    <2>2. LoadFits(AskMembership(wallet, TRUE)) /\ LoadFits(AskProposal)
      BY <1>1, <1>2, <2>1
    <2>3. loads' = [h \in Loads |-> loads'[h]] /\ \A h \in Loads : LoadFits(loads'[h])
      BY <2>1, <2>2 DEF ReadsFit
    <2>4. \A h \in Loads : LoadFits(loads[h])'
      BY <2>3 DEF LoadFits
    <2> QED BY <2>1, <2>3, <2>4 DEF ReadsFit
  <1>8. ASSUME NEW f \in Loads, CheckMembership(f) PROVE ReadsFit'
    BY <1>2, <1>3, <1>8, ReadsMove DEF CheckMembership
  <1>9. ASSUME NEW f \in Loads, MembershipRead(f) PROVE ReadsFit'
    <2>1. CASE loads[f].goesOn
      BY <1>3, <1>5, <1>9, <2>1 DEF MembershipRead
    <2>2. CASE ~loads[f].goesOn
      BY <1>1, <1>3, <1>9, <2>2, ReadsMove DEF MembershipRead
    <2> QED BY <2>1, <2>2
  <1>10. ASSUME NEW f \in Loads, ProposalRead(f) PROVE ReadsFit'
    <2>1. CASE proposalId > proposalCount
      BY <1>1, <1>3, <1>10, <2>1, ReadsMove DEF ProposalRead
    <2>2. CASE ~(proposalId > proposalCount)
      <3>1. proposals[proposalId].session \in SIds
        <4>1. proposalId \in PIds /\ proposalId <= proposalCount
          BY <2>2 DEF ReadsFit, GovernorInv, TypeOK, PIds
        <4>2. Registered(proposalId) /\ proposals[proposalId] \in Proposal \cup {NoProposal}
          BY <4>1 DEF NoGap, GovernorInv, TypeOK
        <4> QED BY <4>2 DEF Registered, Proposal, NoProposal
      <3>2. PICK l : l = [pc |-> "proposal", member |-> wallet, session |-> proposals[proposalId].session,
                          state |-> ProposalState(proposalId)]
        OBVIOUS
      <3>3. LoadFits(l) /\ Load(f, l)
        BY <1>3, <1>10, <2>2, <3>1, <3>2 DEF ProposalRead, LoadFits
      <3> QED BY <1>3, <1>10, <2>2, <3>3, ReadsMove DEF ProposalRead
    <2> QED BY <2>1, <2>2
  <1>11. ASSUME NEW f \in Loads, Refreshed(f) PROVE ReadsFit'
    <2>1. loads[f].session \in SIds /\ loads[f].member \in Members
      BY <1>11 DEF Refreshed, LoadIs, ReadsFit, LoadFits
    <2>2. house' \in Houses \cup {NoHouse}
      BY <1>11, <2>1 DEF Refreshed, GovernorInv, TypeOK
    <2>3. shown'.session \in SIds
      BY <1>11, <2>1 DEF Refreshed
    <2> QED BY <1>1, <1>3, <1>11, <2>2, <2>3, ReadsMove DEF Refreshed
  <1>12. ASSUME NEW f \in Loads, RefreshFailed(f) PROVE ReadsFit'
    BY <1>1, <1>3, <1>12, ReadsMove DEF RefreshFailed
  <1>13. ASSUME NEW f \in Loads, NEW w \in Members \cup {NoWallet}, AccountsChanged(f, w) PROVE ReadsFit'
    BY <1>6, <1>13 DEF AccountsChanged
  <1>14. ASSUME NEW f \in Loads, ChainChanged(f) PROVE ReadsFit'
    BY <1>3, <1>6, <1>14 DEF ChainChanged
  <1>15. ASSUME NEW f \in Loads, Refresh(f) \/ \E o \in Ops : VoteAnswered(o, f) PROVE ReadsFit'
    BY <1>3, <1>5, <1>15 DEF Refresh, VoteAnswered
  <1>16. ASSUME NEW p \in PIds, ChooseProposal(p) PROVE ReadsFit'
    BY <1>16 DEF ChooseProposal, ReadsFit
  <1>17. CASE RegisterLegislator \/ RegistrationMined \/ RegistrationConfirmed \/ RegistrationFailed
    BY <1>17, ReadsStay DEF RegisterLegislator, RegistrationMined, RegistrationConfirmed,
                            RegistrationFailed, RestOfPage
  <1>18. ASSUME NEW o \in Ops,
                \/ VoteClicked(o) \/ BallotSigned(o) \/ VoteFailed(o)
                \/ \E i \in Intensities : NonceRead(o, i)
                \/ \E k \in Keys : VotePosted(o, k)
         PROVE  ReadsFit'
    BY <1>18, ReadsStay DEF VoteClicked, BallotSigned, VoteFailed, NonceRead, VotePosted
  <1> QED BY <1>4, <1>7, <1>8, <1>9, <1>10, <1>11, <1>12, <1>13, <1>14, <1>15, <1>16, <1>17, <1>18
          DEF GovernancePageNext

LEMMA JoinsStep == PageInv /\ Kept /\ GovernancePageNext => JoinsFit'
  <1> SUFFICES ASSUME PageInv, Kept, GovernancePageNext PROVE JoinsFit'
    OBVIOUS
  <1> USE DEF PageInv
  <1>1. ASSUME UNCHANGED <<registration, joined>> PROVE JoinsFit'
    BY <1>1, JoinsStay
  <1>2. ASSUME NEW m, Sits(m) PROVE Sits(m)'
    BY <1>2, GovernancePageAssumption DEF Sits, Kept, FirstSession
  <1>3. CASE RegisterLegislator
    <2>1. /\ registration' = [pc |-> "sent", member |-> wallet] /\ wallet \in Members
          /\ joined' = joined
      BY <1>3 DEF RegisterLegislator, CanRegister, ReadsFit
    <2> QED BY <1>2, <2>1 DEF JoinsFit, RegistrationIs
  <1>4. CASE RegistrationMined
    <2>1. /\ registration # Nothing /\ registration \in [pc : {"sent", "mined", "unwatched"}, member : Members]
          /\ RegisterMember(FirstSession, registration.member, FocusHouse) /\ joined' = joined
      BY <1>4 DEF RegistrationMined, RegistrationIs, JoinsFit
    <2>2. FirstSession \in SIds
      BY <2>1, BoundAssumption DEF RegisterMember, FirstSession, GovernorInv, TypeOK, SIds
    <2> PICK m \in Members : m = registration.member
      BY <2>1
    <2>3. Sits(m)'
      BY <2>1, <2>2 DEF RegisterMember, Sits, GovernorInv, TypeOK, FirstSession
    <2>4. CASE Registers("mined")
      <3>1. /\ registration' \in [pc : {"sent", "mined", "unwatched"}, member : Members]
            /\ registration'.member = m
        BY <2>1, <2>4 DEF Registers
      <3> QED BY <1>2, <2>1, <2>3, <3>1 DEF JoinsFit, RegistrationIs, Sits
    <2>5. CASE registration' = Nothing
      BY <1>2, <2>1, <2>5 DEF JoinsFit, RegistrationIs
    <2> QED BY <1>4, <2>4, <2>5 DEF RegistrationMined
  <1>5. CASE RegistrationConfirmed
    <2>1. joined' = registration.member /\ registration' = Nothing /\ Sits(registration.member)
      BY <1>5 DEF RegistrationConfirmed, JoinsFit
    <2>2. PICK m : m = registration.member
      OBVIOUS
    <2>3. Sits(m)' /\ joined' = m
      BY <1>2, <2>1, <2>2
    <2> QED BY <2>1, <2>3 DEF JoinsFit, RegistrationIs, Sits
  <1>6. CASE RegistrationFailed
    <2>1. joined' = joined
      BY <1>6 DEF RegistrationFailed
    <2>2. CASE registration' = Nothing
      BY <1>2, <2>1, <2>2 DEF JoinsFit, RegistrationIs
    <2>3. CASE RegistrationIs("sent") /\ Registers("unwatched")
      <3>1. /\ registration' \in [pc : {"sent", "mined", "unwatched"}, member : Members]
            /\ registration'.pc = "unwatched"
        BY <2>3 DEF Registers, RegistrationIs, JoinsFit
      <3> QED BY <1>2, <2>1, <3>1 DEF JoinsFit, RegistrationIs
    <2> QED BY <1>6, <2>2, <2>3 DEF RegistrationFailed
  <1>7. ASSUME NEW f \in Loads,
               \/ \E w \in Members : Connect(f, w)
               \/ \E w \in Members \cup {NoWallet} : AccountsChanged(f, w)
               \/ \E g \in Loads : SwitchToAmoy(f, g)
               \/ ChainChanged(f) \/ CheckMembership(f) \/ Refresh(f)
               \/ MembershipRead(f) \/ ProposalRead(f) \/ Refreshed(f) \/ RefreshFailed(f)
               \/ \E o \in Ops : VoteAnswered(o, f)
        PROVE  JoinsFit'
    BY <1>1, <1>7 DEF Connect, AccountsChanged, SwitchToAmoy, ChainChanged, WalletChanged,
                      CheckMembership, Refresh, MembershipRead, ProposalRead, Refreshed,
                      RefreshFailed, VoteAnswered
  <1>8. ASSUME NEW p \in PIds, ChooseProposal(p) PROVE JoinsFit'
    BY <1>1, <1>8 DEF ChooseProposal
  <1>9. ASSUME NEW o \in Ops,
               \/ VoteClicked(o) \/ BallotSigned(o) \/ VoteFailed(o)
               \/ \E i \in Intensities : NonceRead(o, i)
               \/ \E k \in Keys : VotePosted(o, k)
        PROVE  JoinsFit'
    BY <1>1, <1>9 DEF VoteClicked, BallotSigned, VoteFailed, NonceRead, VotePosted
  <1> QED BY <1>3, <1>4, <1>5, <1>6, <1>7, <1>8, <1>9 DEF GovernancePageNext

(* One call of castVote goes on. *)
LEMMA VotesMove ==
    ASSUME VotesFit, Kept, OperationsKept, NEW o \in Ops, NEW c, Cast(o, c), UNCHANGED voted,
           c \in {Nothing} \cup [pc : {"nonce"}, member : Members, proposal : PIds, session : SIds]
                \cup [pc : {"signature", "signed", "posted"}, ballot : SignedBallot],
           c # Nothing /\ c.pc = "signed" => c.ballot \in signed',
           c # Nothing /\ c.pc = "posted" => ops'[o] \in RelayOp /\ ops'[o].ballot = c.ballot
    PROVE  VotesFit'
  <1>1. casts'[o] = c /\ \A n \in Ops : n # o => casts'[n] = casts[n]
    BY DEF VotesFit, Cast
  <1>2. CastFits(o)'
    BY <1>1 DEF CastFits, CastIs
  <1>3. \A n \in Ops : n # o => CastFits(n)'
    BY <1>1, CastsStay DEF VotesFit
  <1> QED BY <1>2, <1>3 DEF VotesFit, Cast, Kept

LEMMA VotesStep ==
    PageInv /\ Kept /\ OperationsKept /\ ReadsFit' /\ GovernancePageNext => VotesFit'
  <1> SUFFICES ASSUME PageInv, Kept, OperationsKept, GovernancePageNext PROVE VotesFit'
    OBVIOUS
  <1> USE DEF PageInv
  <1>1. ASSUME UNCHANGED <<casts, voted>> PROVE VotesFit'
    BY <1>1, VotesStay
  <1>2. ASSUME NEW o \in Ops, VoteClicked(o) PROVE VotesFit'
    <2>1. PICK c : c = [pc |-> "nonce", member |-> wallet, proposal |-> proposalId,
                        session |-> shown.session]
      OBVIOUS
    <2>2. c \in [pc : {"nonce"}, member : Members, proposal : PIds, session : SIds]
      BY <1>2, <2>1 DEF VoteClicked, CanVote, ReadsFit
    <2> QED BY <1>2, <2>1, <2>2, VotesMove DEF VoteClicked
  <1>3. ASSUME NEW o \in Ops, NEW i \in Intensities, NonceRead(o, i) PROVE VotesFit'
    <2>1. casts[o] \in [pc : {"nonce"}, member : Members, proposal : PIds, session : SIds]
      BY <1>3 DEF NonceRead, CastIs, VotesFit
    <2>2. PICK b : b = [proposal |-> casts[o].proposal, session |-> casts[o].session, house |-> house,
                        member |-> casts[o].member, intensity |-> i,
                        nonce |-> votingNonces[casts[o].member], deadline |-> now + SignatureTTL]
      OBVIOUS
    <2>3. now + SignatureTTL \in Nat /\ i \in Int /\ votingNonces[casts[o].member] \in Nat
      BY <2>1, DelayAssumption, InputAssumption DEF GovernorInv, TypeOK
    <2>4. b \in SignedBallot
      BY <2>1, <2>2, <2>3 DEF SignedBallot, ReadsFit
    <2>5. PICK c : c = [pc |-> "signature", ballot |-> b]
      OBVIOUS
    <2>6. c \in [pc : {"signature", "signed", "posted"}, ballot : SignedBallot]
      BY <2>4, <2>5
    <2> QED BY <1>3, <2>2, <2>5, <2>6, VotesMove DEF NonceRead
  <1>4. ASSUME NEW o \in Ops, BallotSigned(o) PROVE VotesFit'
    <2>1. casts[o] \in [pc : {"signature", "signed", "posted"}, ballot : SignedBallot]
      BY <1>4 DEF BallotSigned, CastIs, VotesFit
    <2>2. PICK c : c = [casts[o] EXCEPT !.pc = "signed"]
      OBVIOUS
    <2>3. /\ c \in [pc : {"signature", "signed", "posted"}, ballot : SignedBallot]
          /\ c.pc = "signed" /\ c.ballot = casts[o].ballot
      BY <2>1, <2>2
    <2> QED BY <1>4, <2>2, <2>3, VotesMove DEF BallotSigned
  <1>5. ASSUME NEW o \in Ops, NEW k \in Keys, VotePosted(o, k) PROVE VotesFit'
    <2>1. casts[o] \in [pc : {"signature", "signed", "posted"}, ballot : SignedBallot]
      BY <1>5 DEF VotePosted, CastIs, VotesFit
    <2>2. PICK c : c = [casts[o] EXCEPT !.pc = "posted"]
      OBVIOUS
    <2>3. /\ c \in [pc : {"signature", "signed", "posted"}, ballot : SignedBallot]
          /\ c.pc = "posted" /\ c.ballot = casts[o].ballot
      BY <2>1, <2>2
    <2>4. PICK n : n = [pc |-> "status", ballot |-> casts[o].ballot, key |-> k]
      OBVIOUS
    <2>5. n \in RelayOp /\ n.ballot = casts[o].ballot
      BY <2>1, <2>4 DEF RelayOp, RelayPcs
    <2>6. ops'[o] = n
      BY <1>5, <2>4 DEF VotePosted, Relay, AnswerInv, AnswerTypes
    <2> QED BY <1>5, <2>2, <2>3, <2>5, <2>6, VotesMove DEF VotePosted
  <1>6. ASSUME NEW o \in Ops, VoteFailed(o) PROVE VotesFit'
    BY <1>6, VotesMove DEF VoteFailed
  <1>7. ASSUME NEW o \in Ops, NEW f \in Loads, VoteAnswered(o, f) PROVE VotesFit'
    <2>1. casts[o].ballot \in relayed /\ relayed' = relayed
      BY <1>7 DEF VoteAnswered, VoteConfirmed, VotesFit, CastFits, AnswerInv, ToldIsCounted, Told,
                  allVars, vars, relayVars
    <2>2. Cast(o, Nothing) /\ voted' = casts[o].ballot
      BY <1>7 DEF VoteAnswered
    <2>3. casts'[o] = Nothing /\ \A n \in Ops : n # o => casts'[n] = casts[n]
      BY <2>2 DEF VotesFit, Cast
    <2>4. CastFits(o)'
      BY <2>3 DEF CastFits, CastIs
    <2>5. \A n \in Ops : n # o => CastFits(n)'
      BY <2>3, CastsStay DEF VotesFit
    <2> QED BY <2>1, <2>2, <2>4, <2>5 DEF VotesFit, Cast
  <1>8. ASSUME NEW f \in Loads,
               \/ \E w \in Members : Connect(f, w)
               \/ \E w \in Members \cup {NoWallet} : AccountsChanged(f, w)
               \/ \E g \in Loads : SwitchToAmoy(f, g)
               \/ ChainChanged(f) \/ CheckMembership(f) \/ Refresh(f)
               \/ MembershipRead(f) \/ ProposalRead(f) \/ Refreshed(f) \/ RefreshFailed(f)
        PROVE  VotesFit'
    BY <1>1, <1>8 DEF Connect, AccountsChanged, SwitchToAmoy, ChainChanged, WalletChanged,
                      CheckMembership, Refresh, MembershipRead, ProposalRead, Refreshed, RefreshFailed
  <1>9. CASE \/ \E p \in PIds : ChooseProposal(p)
             \/ RegisterLegislator \/ RegistrationMined \/ RegistrationConfirmed \/ RegistrationFailed
    BY <1>1, <1>9 DEF ChooseProposal, RegisterLegislator, RegistrationMined, RegistrationConfirmed,
                      RegistrationFailed, RestOfPage
  <1> QED BY <1>2, <1>3, <1>4, <1>5, <1>6, <1>7, <1>8, <1>9 DEF GovernancePageNext

LEMMA StepsAreOpen == PageStep => [OpenNext]_vars
  BY RelayerSteps DEF PageStep, OpenNext

LEMMA PageBegins == RelayerInit /\ GovernancePageInit => PageInv
  <1> SUFFICES ASSUME RelayerInit, GovernancePageInit PROVE PageInv
    OBVIOUS
  <1> USE DEF RelayerInit
  <1>1. GovernorInv /\ AnswerInv
    BY OpenInit, AnswerInit
  <1>2. RelayedAreSeated /\ NoGap
    BY DEF Init, RelayedAreSeated, NoGap, PIds
  <1>3. ReadsFit
    BY GovernancePageAssumption, BoundAssumption DEF GovernancePageInit, ReadsFit, LoadFits, PIds
  <1>4. JoinsFit /\ VotesFit
    BY DEF GovernancePageInit, JoinsFit, RegistrationIs, VotesFit, CastFits, CastIs
  <1> QED BY <1>1, <1>2, <1>3, <1>4 DEF PageInv

LEMMA PageMoves == PageInv /\ [GovernanceNext]_<<allVars, pageVars>> => PageInv' /\ [OpenNext]_vars
  <1> SUFFICES ASSUME PageInv, [GovernanceNext]_<<allVars, pageVars>> PROVE PageInv' /\ [OpenNext]_vars
    OBVIOUS
  <1>1. PageStep
    <2>1. CASE GovernancePageNext
      BY <2>1, PageActs
    <2>2. CASE [RelayerNext]_allVars
      BY <2>2 DEF PageStep
    <2> QED BY <2>1, <2>2 DEF GovernanceNext
  <1>2. [OpenNext]_vars
    BY <1>1, StepsAreOpen
  <1>3. GovernorInv' /\ Kept /\ RelayedAreSeated'
    BY <1>2, OpenStep, GovernorKeeps, SeatedStep DEF PageInv
  <1>4. AnswerInv' /\ OperationsKept
    <2>1. CASE [RelayerNext]_allVars
      BY <2>1, AnswerStep, OperationsKeep DEF PageInv
    <2>2. CASE SignAnything /\ UNCHANGED relayerVars
      BY <2>2 DEF SignAnything, relayerVars, PageInv, AnswerInv, AnswerTypes, PoolIsSent,
                  OfItsOperation, ToldIsCounted, Told, OperationsKept
    <2> QED BY <1>1, <2>1, <2>2 DEF PageStep
  <1>5. NoGap'
    <2>1. ASSUME NEW p \in PIds, p <= proposalCount' PROVE proposals'[p].session # 0
      BY <1>3, <2>1 DEF Kept, PageInv, NoGap, Registered
    <2> QED BY <2>1 DEF NoGap, Registered
  <1>6. ReadsFit' /\ JoinsFit' /\ VotesFit'
    <2>1. CASE GovernancePageNext
      BY <1>3, <1>4, <2>1, ReadsStep, JoinsStep, VotesStep
    <2>2. CASE UNCHANGED pageVars
      BY <1>3, <1>4, <2>2, ReadsStay, JoinsStay, VotesStay DEF pageVars, PageInv
    <2> QED BY <2>1, <2>2 DEF GovernanceNext
  <1> QED BY <1>2, <1>3, <1>4, <1>5, <1>6 DEF PageInv

(* The governor behind the page and the relayer takes its own steps, beside  *)
(* the signatures of ballots it may never accept: SafeWhateverIsSigned holds *)
(* of it.                                                                    *)
THEOREM PageIsOpen == GovernanceSpec => OpenSpec
  <1>1. RelayerInit => Init
    BY DEF RelayerInit
  <1> QED BY <1>1, PageBegins, PageMoves, PTL DEF GovernanceSpec, OpenSpec

(* The ballot the page calls confirmed is one the governor counted for the   *)
(* house its member has, and the member it calls registered sits in its      *)
(* house: however refreshes, changes of account, ballots and answers of two  *)
(* calls overlap.                                                            *)
THEOREM PageIsTrue == GovernanceSpec => []AnswersAndPageAreTrue
  <1>1. PageInv => AnswersAndPageAreTrue
    <2> SUFFICES ASSUME PageInv PROVE AnswersAreTrue /\ GovernancePageTellsTheTruth
      BY DEF AnswersAndPageAreTrue
    <2>1. AnswersAreTrue
      BY DEF PageInv, AnswerInv, ToldIsCounted, Told, AnswersAreTrue
    <2> QED BY <2>1 DEF PageInv, VotesFit, JoinsFit, Sits, RelayedAreSeated, Seated, HouseOf,
                        GovernancePageTellsTheTruth
  <1> QED BY <1>1, PageBegins, PageMoves, PTL DEF GovernanceSpec
=============================================================================
