--------------------- MODULE ParticipantOnboardingProofs ---------------------
(***************************************************************************)
(* Proofs about applications, invitations and claims, for every set of     *)
(* accounts, wallets, keys and awaiting handlers and for every limit of    *)
(* resendAvailability.                                                     *)
(*                                                                         *)
(* The rows only move forward whichever handler resumes: what each half of *)
(* a handler does to invitations (InvitationsMove) and applications        *)
(* (ApplicationsMove) is stated once, and the properties are proved from   *)
(* these moves; what an awaiting handler holds stays good (CallsLinked).   *)
(*                                                                         *)
(* Then the clients: one mail through its scripts, and the pages, which    *)
(* show what was so and rely on what lasts (Lasting).                      *)
(***************************************************************************)
EXTENDS RegistrationPages, SequenceTheorems, TLAPS

Decisions == {"none", "EMAIL_VERIFICATION_REQUIRED", "UNDER_REVIEW", "APPROVED_INVITATION_SENT",
              "APPROVAL_DELIVERY_FAILED", "REJECTED", "INVITATION_CLAIMED"}
Application(n) == [state : Decisions, invitation : 0..n, version : {1, 2}]
Invitation ==
    [state : {"none", "CREATED", "SENT", "CLAIMED"}, token : 0..MaxTime + 1, expiresAt : Times,
     sentAt : Times, lastResend : Times, windowStart : Times, resends : 0..MaxResends,
     wallet : Wallets \cup {NoWallet}]
Account(n) == [state : {"new", "present", "lost"}, wallet : Wallets \cup {NoWallet}, proof : 0..n]
Challenge(n) == [state : {"unused", "used"}, account : Accounts, wallet : Wallets, proof : 0..n,
                 expiresAt : Times]

(* The five parts of the type invariant. *)
InvitationTypes ==
    /\ now \in 1..MaxTime /\ invitationCount \in 0..MaxInvitations
    /\ invitations \in [IIds -> Invitation]
    /\ resent \in [IIds -> SUBSET ((1..MaxTime + 1) \X (1..MaxTime))]
ApplicationTypes ==
    /\ applications \in [Accounts -> Application(invitationCount)]
    /\ DOMAIN applicantOf \subseteq 1..invitationCount
    /\ \A i \in DOMAIN applicantOf : applicantOf[i] \in Accounts
MemoryTypes ==
    /\ challengeCount \in 0..MaxChallenges
    /\ accounts \in [Accounts -> Account(invitationCount)]
    /\ challenges \in [CIds -> {NoChallenge} \cup Challenge(invitationCount)]
CallTypes == calls \in [Calls -> CallRecords] /\ resendRequests \subseteq IIds \X Keys
MailTypes ==
    /\ mailbox \subseteq IIds \X (1..MaxTime + 1)
    /\ signatures \subseteq Wallets \X (0..invitationCount)

LEMMA TypeParts ==
    TypeOK <=> InvitationTypes /\ ApplicationTypes /\ MemoryTypes /\ CallTypes /\ MailTypes
  BY DEF TypeOK, InvitationTypes, ApplicationTypes, MemoryTypes, CallTypes, MailTypes, Decisions,
         Application, Invitation, Account, Challenge

(* Invitations are numbered from 1; the others are blank. *)
Numbered ==
    \A i \in IIds :
        /\ i > invitationCount => invitations[i] = NoInvitation /\ resent[i] = {}
        /\ i <= invitationCount => invitations[i].state # "none"

(* What is remembered of an invitation's resends bounds their history. *)
History ==
    \A i \in IIds :
        /\ invitations[i].token <= 1 + invitations[i].lastResend
        /\ resent[i] # {} => invitations[i].lastResend # 0
        /\ \A s \in resent[i] : s[1] <= invitations[i].token /\ s[2] <= invitations[i].lastResend

(* A decided application names its invitation. *)
Linked ==
    \A a \in Accounts :
        applications[a].state \in {"APPROVED_INVITATION_SENT", "INVITATION_CLAIMED"} =>
            applications[a].invitation # 0

(* An awaiting handler holds an existing invitation or challenge; approve,   *)
(* the one it created for its application.                                   *)
CallsLinked ==
    \A r \in Calls :
        /\ calls[r].kind \in {"approve", "resend", "send"} => calls[r].invitation \in 1..invitationCount
        /\ calls[r].kind = "approve" =>
               /\ calls[r].application \in Accounts /\ calls[r].invitation \in DOMAIN applicantOf
               /\ applicantOf[calls[r].invitation] = calls[r].application
        /\ calls[r].kind = "verify" => challenges[calls[r].challenge] # NoChallenge

OnboardingInv ==
    /\ InvitationTypes /\ ApplicationTypes /\ MemoryTypes /\ CallTypes /\ MailTypes
    /\ Numbered /\ History /\ ResendsArePaced /\ Linked /\ ApplicationTellsTheTruth /\ CallsLinked

-----------------------------------------------------------------------------
LEMMA InitInv == Init => OnboardingInv
  <1> SUFFICES ASSUME Init PROVE OnboardingInv
    OBVIOUS
  <1> USE OnboardingAssumption
  <1>1. InvitationTypes
    BY DEF Init, InvitationTypes, Invitation, NoInvitation, Times, IIds
  <1>2. PICK old \in SUBSET Accounts :
            /\ applications = [a \in Accounts |-> IF a \in old THEN Legacy ELSE NoApplication]
            /\ accounts = [a \in Accounts |-> NoAccount(IF a \in old THEN "lost" ELSE "new")]
    BY DEF Init
  <1>3. Legacy \in Application(invitationCount) /\ NoApplication \in Application(invitationCount)
    BY DEF Init, Legacy, NoApplication, Application, Decisions
  <1>4. ApplicationTypes
    BY <1>2, <1>3 DEF Init, ApplicationTypes
  <1>5. \A s \in {"lost", "new"} : NoAccount(s) \in Account(invitationCount)
    BY DEF Init, NoAccount, Account
  <1>6. MemoryTypes
    BY <1>2, <1>5 DEF Init, MemoryTypes
  <1>7. CallTypes /\ MailTypes
    BY DEF Init, CallTypes, MailTypes, CallRecords
  <1>8. Numbered /\ History /\ ResendsArePaced
    BY DEF Init, Numbered, History, ResendsArePaced, NoInvitation, IIds
  <1>9. Linked /\ ApplicationTellsTheTruth
    BY <1>2 DEF Init, Linked, ApplicationTellsTheTruth, Legacy, NoApplication
  <1>10. CallsLinked
    BY DEF Init, CallsLinked, Idle
  <1> QED BY <1>1, <1>4, <1>6, <1>7, <1>8, <1>9, <1>10 DEF OnboardingInv

-----------------------------------------------------------------------------
(* The invitations. *)

Claimed(i, w) == [invitations EXCEPT ![i].state = "CLAIMED", ![i].wallet = w]
Resent(i) ==
    /\ invitations' = [invitations EXCEPT ![i] = RotatedAndMarked(invitations[i])]
    /\ resent' = [resent EXCEPT ![i] = @ \cup {<<invitations[i].token + 1, now>>}]

InvitationsMove ==
    \/ UNCHANGED <<invitations, invitationCount, resent>>
    \/ InvitationCreated(invitationCount + 1) /\ UNCHANGED resent
    \/ \E i \in 1..invitationCount :
         invitations' = MarkedSent(i) /\ UNCHANGED <<invitationCount, resent>>
    \/ \E i \in 1..invitationCount, w \in Wallets :
         /\ Claimable(invitations[i]) /\ invitations' = Claimed(i, w)
         /\ UNCHANGED <<invitationCount, resent>>
    \/ \E i \in 1..invitationCount :
         ResendAvailable(invitations[i]) /\ Resent(i) /\ UNCHANGED invitationCount

(* They only move forward. *)
Forward ==
    /\ invitationCount' \in Nat /\ invitationCount' >= invitationCount /\ invitationCount' <= MaxInvitations
    /\ \A i \in 1..invitationCount :
        /\ invitations[i].state = "CLAIMED" => invitations'[i] = invitations[i]
        /\ invitations[i].state = "SENT" => invitations'[i].state \in {"SENT", "CLAIMED"}

(* One row is replaced by another that remembers as much. *)
LEMMA RowReplaced ==
    ASSUME OnboardingInv, now' \in 1..MaxTime, NEW i \in 1..invitationCount, NEW v \in Invitation,
           invitations' = [invitations EXCEPT ![i] = v], UNCHANGED <<invitationCount, resent>>,
           v.state \notin {"none", "CREATED"}, invitations[i].state # "CLAIMED",
           v.token = invitations[i].token, v.lastResend = invitations[i].lastResend
    PROVE  InvitationTypes' /\ Numbered' /\ History' /\ ResendsArePaced' /\ Forward
  <1>1. /\ i \in IIds /\ invitationCount \in 0..MaxInvitations /\ MaxInvitations \in Nat
        /\ invitations \in [IIds -> Invitation] /\ 1..invitationCount \subseteq IIds
    BY OnboardingAssumption DEF OnboardingInv, InvitationTypes, IIds
  <1>2. /\ invitations' \in [IIds -> Invitation] /\ invitations'[i] = v
        /\ \A j \in IIds \ {i} : invitations'[j] = invitations[j]
    BY <1>1
  <1>3. InvitationTypes'
    BY <1>2 DEF OnboardingInv, InvitationTypes
  <1>4. Numbered'
    BY <1>1, <1>2 DEF OnboardingInv, Numbered, IIds
  <1>5. History' /\ ResendsArePaced'
    BY <1>1, <1>2 DEF OnboardingInv, History, ResendsArePaced
  <1>6. Forward
    BY <1>1, <1>2 DEF Forward, Invitation
  <1> QED BY <1>3, <1>4, <1>5, <1>6

(* A resend waits for the cooldown and remembers its time before its mail.   *)
LEMMA ResendStep ==
    ASSUME OnboardingInv, now' \in 1..MaxTime, NEW i \in 1..invitationCount,
           ResendAvailable(invitations[i]), Resent(i), UNCHANGED invitationCount
    PROVE  /\ InvitationTypes' /\ Numbered' /\ History' /\ ResendsArePaced' /\ Forward
           /\ invitations[i].token + 1 \in 1..MaxTime + 1
  <1> DEFINE v == invitations[i]
             w == RotatedAndMarked(v)
  <1>1. /\ i \in IIds /\ invitationCount \in 0..MaxInvitations /\ MaxInvitations \in Nat
        /\ invitations \in [IIds -> Invitation] /\ v \in Invitation /\ now \in 1..MaxTime
        /\ MaxTime \in Nat /\ Cooldown \in Nat \ {0} /\ 1..invitationCount \subseteq IIds
    BY OnboardingAssumption DEF OnboardingInv, InvitationTypes, IIds
  <1>2. /\ v.token \in Nat /\ v.lastResend \in Nat /\ v.state = "SENT"
        /\ v.lastResend # 0 => v.lastResend + Cooldown <= now
        /\ v.token <= 1 + v.lastResend
    <2>1. v.token \in 0..MaxTime + 1 /\ v.lastResend \in Times
      BY <1>1 DEF Invitation
    <2>2. v.token <= 1 + v.lastResend
      BY <1>1 DEF OnboardingInv, History
    <2>3. v.state = "SENT" /\ (v.lastResend # 0 => now >= v.lastResend + Cooldown)
      BY DEF ResendAvailable
    <2> QED BY <1>1, <2>1, <2>2, <2>3, OnboardingAssumption DEF Times
  <1>3. v.token + 1 \in 1..MaxTime + 1 /\ v.token + 1 <= 1 + now
    BY <1>1, <1>2
  <1>4. w \in Invitation /\ w.token = v.token + 1 /\ w.lastResend = now /\ w.state = "SENT"
    <2>1. now \in Times /\ ResendCount(v) + 1 \in 0..MaxResends
      <3>1. v.resends \in 0..MaxResends /\ MaxResends \in Nat /\ ResendCount(v) < MaxResends
        BY <1>1, OnboardingAssumption DEF Invitation, ResendAvailable
      <3> QED BY <1>1, <3>1, OnboardingAssumption DEF ResendCount, Times
    <2>2. PICK x \in Invitation : x = v
      BY <1>1
    <2>3. PICK count \in 0..MaxResends, token \in 0..MaxTime + 1 :
            count = ResendCount(x) + 1 /\ token = x.token + 1
      BY <1>1, <1>3, <2>1, <2>2
    <2>4. PICK window \in Times : window = IF WindowExpired(x) THEN now ELSE x.windowStart
      BY <2>1 DEF Invitation
    <2>5. RotatedAndMarked(x) = [x EXCEPT !.token = token, !.sentAt = now, !.lastResend = now,
                                          !.windowStart = window, !.resends = count]
      BY <2>3, <2>4 DEF RotatedAndMarked
    <2>6. LET y == [x EXCEPT !.token = token, !.sentAt = now, !.lastResend = now,
                             !.windowStart = window, !.resends = count]
          IN  y \in Invitation /\ y.token = token /\ y.lastResend = now /\ y.state = x.state
      BY <2>1 DEF Invitation
    <2> QED BY <1>2, <2>2, <2>3, <2>5, <2>6
  <1> HIDE DEF w
  <1>5. /\ invitations' = [invitations EXCEPT ![i] = w]
        /\ resent' = [resent EXCEPT ![i] = @ \cup {<<v.token + 1, now>>}]
    BY DEF Resent, w
  <1>6. /\ invitations' \in [IIds -> Invitation] /\ invitations'[i] = w
        /\ \A j \in IIds \ {i} : invitations'[j] = invitations[j]
    BY <1>1, <1>4, <1>5
  <1>7. /\ resent' \in [IIds -> SUBSET ((1..MaxTime + 1) \X (1..MaxTime))]
        /\ resent'[i] = resent[i] \cup {<<v.token + 1, now>>}
        /\ \A j \in IIds \ {i} : resent'[j] = resent[j]
    BY <1>1, <1>3, <1>5 DEF OnboardingInv, InvitationTypes
  <1>8. InvitationTypes'
    BY <1>6, <1>7 DEF OnboardingInv, InvitationTypes
  <1>9. Numbered'
    <2> SUFFICES ASSUME NEW j \in IIds
                 PROVE  /\ j > invitationCount => invitations'[j] = NoInvitation /\ resent'[j] = {}
                        /\ j <= invitationCount => invitations'[j].state # "none"
      BY DEF Numbered
    <2>1. CASE j = i
      BY <1>1, <1>4, <1>6, <2>1
    <2>2. CASE j # i
      BY <1>6, <1>7, <2>2 DEF OnboardingInv, Numbered
    <2> QED BY <2>1, <2>2
  <1>10. /\ \A s \in resent[i] : /\ s[1] \in Nat /\ s[2] \in Nat
                                 /\ s[1] <= v.token /\ s[2] <= v.lastResend
         /\ resent[i] # {} => v.lastResend # 0
    BY <1>1 DEF OnboardingInv, History, InvitationTypes
  <1>11. History'
    <2> SUFFICES ASSUME NEW j \in IIds
                 PROVE  /\ invitations'[j].token <= 1 + invitations'[j].lastResend
                        /\ resent'[j] # {} => invitations'[j].lastResend # 0
                        /\ \A s \in resent'[j] : /\ s[1] <= invitations'[j].token
                                                 /\ s[2] <= invitations'[j].lastResend
      BY DEF History
    <2>1. CASE j # i
      BY <1>6, <1>7, <2>1 DEF OnboardingInv, History
    <2>2. CASE j = i
      <3>1. ASSUME NEW s \in resent'[i] PROVE s[1] <= w.token /\ s[2] <= w.lastResend
        <4>1. CASE s \in resent[i]
          BY <1>1, <1>2, <1>4, <1>10, <4>1
        <4>2. CASE s = <<v.token + 1, now>>
          BY <1>1, <1>2, <1>4, <4>2
        <4> QED BY <1>7, <4>1, <4>2
      <3>2. w.token <= 1 + w.lastResend /\ w.lastResend # 0
        BY <1>1, <1>2, <1>3, <1>4
      <3> QED BY <1>6, <2>2, <3>1, <3>2
    <2> QED BY <2>1, <2>2
  <1>12. ResendsArePaced'
    <2> SUFFICES ASSUME NEW j \in IIds, NEW s \in resent'[j], NEW t \in resent'[j], s[1] < t[1]
                 PROVE  s[2] + Cooldown <= t[2]
      BY DEF ResendsArePaced
    <2>1. CASE j # i \/ (s \in resent[i] /\ t \in resent[i] /\ j = i)
      BY <1>1, <1>7, <2>1 DEF OnboardingInv, ResendsArePaced
    <2>2. CASE j = i /\ s \in resent[i] /\ t = <<v.token + 1, now>>
      BY <1>1, <1>2, <1>10, <2>2
    <2>3. CASE j = i /\ s = <<v.token + 1, now>>
      <3>1. t[1] <= v.token \/ t[1] = v.token + 1
        BY <1>7, <1>10, <2>3
      <3>2. t[1] \in Nat
        BY <1>2, <1>7, <1>10, <2>3
      <3> QED BY <1>2, <2>3, <3>1, <3>2
    <2> QED BY <1>7, <2>1, <2>2, <2>3
  <1>13. Forward
    BY <1>1, <1>2, <1>4, <1>6 DEF Forward
  <1> QED BY <1>3, <1>8, <1>9, <1>11, <1>12, <1>13

LEMMA InvitationStep ==
    ASSUME OnboardingInv, now' \in 1..MaxTime, InvitationsMove
    PROVE  InvitationTypes' /\ Numbered' /\ History' /\ ResendsArePaced' /\ Forward
  <1>1. /\ invitationCount \in 0..MaxInvitations /\ MaxInvitations \in Nat /\ now \in 1..MaxTime
        /\ invitations \in [IIds -> Invitation] /\ 1..invitationCount \subseteq IIds
    BY OnboardingAssumption DEF OnboardingInv, InvitationTypes, IIds
  <1>2. CASE UNCHANGED <<invitations, invitationCount, resent>>
    <2>1. InvitationTypes' /\ Numbered' /\ History' /\ ResendsArePaced'
      BY <1>2 DEF OnboardingInv, InvitationTypes, Numbered, History, ResendsArePaced
    <2> QED BY <1>1, <1>2, <2>1 DEF Forward
  <1>3. CASE InvitationCreated(invitationCount + 1) /\ UNCHANGED resent
    <2> DEFINE n == invitationCount + 1
               v == [NoInvitation EXCEPT !.state = "CREATED", !.token = 1,
                                         !.expiresAt = now + InvitationTTL]
    <2>1. /\ n \in IIds /\ invitations' = [invitations EXCEPT ![n] = v] /\ invitationCount' = n
          /\ resent' = resent
      BY <1>3 DEF InvitationCreated
    <2>2. v \in Invitation /\ v.token = 1 /\ v.state = "CREATED" /\ v.lastResend = 0
      <3>1. /\ now + InvitationTTL \in Times /\ 0 \in Times
            /\ 0 \in 0..MaxTime + 1 /\ 1 \in 0..MaxTime + 1 /\ 0 \in 0..MaxResends
        BY <1>1, OnboardingAssumption DEF Times
      <3>2. PICK x \in Invitation : x = NoInvitation /\ x.lastResend = 0
        <4>1. NoInvitation \in Invitation /\ NoInvitation.lastResend = 0
          BY <3>1 DEF NoInvitation, Invitation
        <4> QED BY <4>1
      <3>3. PICK expiry \in Times : expiry = now + InvitationTTL
        BY <3>1
      <3>4. LET y == [x EXCEPT !.state = "CREATED", !.token = 1, !.expiresAt = expiry] IN
                y \in Invitation /\ y.token = 1 /\ y.state = "CREATED" /\ y.lastResend = x.lastResend
        BY <3>1 DEF Invitation
      <3> QED BY <3>2, <3>3, <3>4
    <2> HIDE DEF v
    <2>3. /\ invitations' \in [IIds -> Invitation] /\ invitations'[n] = v
          /\ \A j \in IIds \ {n} : invitations'[j] = invitations[j]
      BY <1>1, <2>1, <2>2
    <2>4. resent[n] = {} /\ n \in Nat /\ n \in 1..MaxInvitations
      BY <1>1, <2>1 DEF OnboardingInv, Numbered, IIds
    <2>5. InvitationTypes'
      BY <2>1, <2>3, <2>4 DEF OnboardingInv, InvitationTypes
    <2>6. Numbered'
      BY <1>1, <2>1, <2>2, <2>3 DEF OnboardingInv, Numbered, IIds
    <2>7. History' /\ ResendsArePaced'
      BY <2>1, <2>2, <2>3, <2>4 DEF OnboardingInv, History, ResendsArePaced
    <2>8. Forward
      BY <1>1, <2>1, <2>3, <2>4 DEF Forward
    <2> QED BY <2>5, <2>6, <2>7, <2>8
  <1>4. ASSUME NEW i \in 1..invitationCount, invitations' = MarkedSent(i),
               UNCHANGED <<invitationCount, resent>>
        PROVE  InvitationTypes' /\ Numbered' /\ History' /\ ResendsArePaced' /\ Forward
    <2>1. CASE invitations[i].state \in Open
      <3>1. PICK x \in Invitation : x = invitations[i]
        BY <1>1
      <3>2. now \in Times
        BY <1>1, OnboardingAssumption DEF Times
      <3>3. LET v == [x EXCEPT !.state = "SENT", !.sentAt = now] IN
                v \in Invitation /\ v.token = x.token /\ v.lastResend = x.lastResend /\ v.state = "SENT"
        BY <3>2 DEF Invitation
      <3>4. invitations' = [invitations EXCEPT ![i] = [x EXCEPT !.state = "SENT", !.sentAt = now]]
        BY <1>1, <1>4, <2>1, <3>1 DEF MarkedSent
      <3> QED BY <1>4, <2>1, <3>1, <3>3, <3>4, RowReplaced DEF Open
    <2>2. CASE invitations[i].state \notin Open
      BY <1>2, <1>4, <2>2 DEF MarkedSent
    <2> QED BY <2>1, <2>2
  <1>5. ASSUME NEW i \in 1..invitationCount, NEW w \in Wallets, Claimable(invitations[i]),
               invitations' = Claimed(i, w), UNCHANGED <<invitationCount, resent>>
        PROVE  InvitationTypes' /\ Numbered' /\ History' /\ ResendsArePaced' /\ Forward
    <2>1. PICK x \in Invitation : x = invitations[i]
      BY <1>1
    <2>2. LET v == [x EXCEPT !.state = "CLAIMED", !.wallet = w] IN
              v \in Invitation /\ v.token = x.token /\ v.lastResend = x.lastResend /\ v.state = "CLAIMED"
      BY DEF Invitation
    <2>3. invitations' = [invitations EXCEPT ![i] = [x EXCEPT !.state = "CLAIMED", !.wallet = w]]
      BY <1>1, <1>5, <2>1 DEF Claimed
    <2> QED BY <1>5, <2>1, <2>2, <2>3, RowReplaced DEF Claimable, Open
  <1>6. ASSUME NEW i \in 1..invitationCount, ResendAvailable(invitations[i]), Resent(i),
               UNCHANGED invitationCount
        PROVE  InvitationTypes' /\ Numbered' /\ History' /\ ResendsArePaced' /\ Forward
    BY <1>6, ResendStep
  <1> QED BY <1>2, <1>3, <1>4, <1>5, <1>6 DEF InvitationsMove

-----------------------------------------------------------------------------
(* The applications. *)
Final == {"APPROVED_INVITATION_SENT", "INVITATION_CLAIMED", "REJECTED"}
Applicants(a) ==
    [j \in DOMAIN applicantOf \cup {invitationCount + 1} |->
        IF j = invitationCount + 1 THEN a ELSE applicantOf[j]]

ApplicationsMove ==
    \/ UNCHANGED <<applications, applicantOf>>
    \/ \E a \in Accounts, s \in {"UNDER_REVIEW", "REJECTED"} :
         /\ applications[a].state \notin Final
         /\ applications' = ApplicationIs(a, s) /\ UNCHANGED applicantOf
    \/ \E a \in Accounts :
         /\ invitationCount' = invitationCount + 1
         /\ applicantOf' = Applicants(a) /\ UNCHANGED applications
    \/ \E i \in DOMAIN applicantOf, s \in {"APPROVED_INVITATION_SENT", "APPROVAL_DELIVERY_FAILED"} :
         /\ s = "APPROVED_INVITATION_SENT" => invitations'[i].state \in {"SENT", "CLAIMED"}
         /\ applications' = Decided(applicantOf[i], s, i) /\ UNCHANGED applicantOf
    \/ \E i \in 1..invitationCount :
         /\ invitations'[i].state = "CLAIMED"
         /\ applications' = ClaimMarked(i) /\ UNCHANGED applicantOf

ApplicantsKept ==
    /\ DOMAIN applicantOf \subseteq DOMAIN applicantOf'
    /\ \A i \in DOMAIN applicantOf : applicantOf'[i] = applicantOf[i]

(* An application that goes on as it was still tells the truth. *)
LEMMA ApplicationKept ==
    ASSUME OnboardingInv, Forward, ApplicantsKept, NEW a \in Accounts, NEW x,
           x.state = applications[a].state, x.invitation = applications[a].invitation
    PROVE  /\ x.state = "APPROVED_INVITATION_SENT" => invitations'[x.invitation].state \in {"SENT", "CLAIMED"}
           /\ x.state = "INVITATION_CLAIMED" => invitations'[x.invitation].state = "CLAIMED"
           /\ x.invitation # 0 => x.invitation \in DOMAIN applicantOf' /\ applicantOf'[x.invitation] = a
           /\ x.state \in {"APPROVED_INVITATION_SENT", "INVITATION_CLAIMED"} =>
                  x.invitation # 0 /\ x.invitation \in 1..invitationCount
  <1>1. x.invitation # 0 => x.invitation \in DOMAIN applicantOf /\ applicantOf[x.invitation] = a
    BY DEF OnboardingInv, ApplicationTellsTheTruth
  <1>2. x.invitation # 0 => x.invitation \in 1..invitationCount
    BY <1>1 DEF OnboardingInv, ApplicationTypes
  <1>3. x.state \in {"APPROVED_INVITATION_SENT", "INVITATION_CLAIMED"} => x.invitation # 0
    BY DEF OnboardingInv, Linked
  <1>4. /\ x.state = "APPROVED_INVITATION_SENT" => invitations[x.invitation].state \in {"SENT", "CLAIMED"}
        /\ x.state = "INVITATION_CLAIMED" => invitations[x.invitation].state = "CLAIMED"
    BY DEF OnboardingInv, ApplicationTellsTheTruth
  <1> QED BY <1>1, <1>2, <1>3, <1>4 DEF Forward, ApplicantsKept

LEMMA ApplicationStep ==
    ASSUME OnboardingInv, Forward, ApplicationsMove
    PROVE  ApplicationTypes' /\ Linked' /\ ApplicationTellsTheTruth' /\ ApplicantsKept
           /\ DecisionIsFinalStep
  <1>1. /\ applications \in [Accounts -> Application(invitationCount)]
        /\ DOMAIN applicantOf \subseteq 1..invitationCount /\ invitationCount \in Nat
        /\ \A i \in DOMAIN applicantOf : applicantOf[i] \in Accounts
        /\ invitationCount' \in Nat /\ invitationCount' >= invitationCount
    BY OnboardingAssumption DEF OnboardingInv, ApplicationTypes, InvitationTypes, Forward
  <1>2. /\ ApplicantsKept /\ DOMAIN applicantOf' \subseteq 1..invitationCount'
        /\ \A i \in DOMAIN applicantOf' : applicantOf'[i] \in Accounts
    <2>1. CASE UNCHANGED applicantOf
      BY <1>1, <2>1 DEF ApplicantsKept
    <2>2. ASSUME NEW a \in Accounts, invitationCount' = invitationCount + 1,
                 applicantOf' = Applicants(a)
          PROVE  <1>2
      BY <1>1, <2>2 DEF Applicants, ApplicantsKept
    <2> QED BY <2>1, <2>2 DEF ApplicationsMove
  <1>3. \A x \in Application(invitationCount) : x \in Application(invitationCount')
    BY <1>1 DEF Application
  (* It is enough to look at one application and what becomes of it. *)
  <1>4. ASSUME \A a \in Accounts : \E x \in Application(invitationCount') :
                 /\ applications'[a] = x
                 /\ \/ x = applications[a]
                    \/ x.state \notin Final /\ applications[a].state \notin Final
                       /\ (x.invitation = applications[a].invitation
                           \/ (x.invitation \in DOMAIN applicantOf /\ applicantOf[x.invitation] = a))
                    \/ x.state = "REJECTED" /\ applications[a].state \notin Final
                       /\ x.invitation = applications[a].invitation
                    \/ /\ x.state = "APPROVED_INVITATION_SENT" /\ applications[a].state \notin Final
                       /\ x.invitation \in DOMAIN applicantOf /\ applicantOf[x.invitation] = a
                       /\ invitations'[x.invitation].state \in {"SENT", "CLAIMED"}
                    \/ /\ x.state = "INVITATION_CLAIMED" /\ applications[a].state = "APPROVED_INVITATION_SENT"
                       /\ x.invitation = applications[a].invitation
                       /\ invitations'[x.invitation].state = "CLAIMED",
               applications' = [a \in Accounts |-> applications'[a]]
        PROVE  ApplicationTypes' /\ Linked' /\ ApplicationTellsTheTruth' /\ DecisionIsFinalStep
    <2>1. ApplicationTypes'
      BY <1>2, <1>4 DEF ApplicationTypes
    <2> SUFFICES ASSUME NEW a \in Accounts
                 PROVE  LET x == applications'[a] IN
                   /\ x.state \in {"APPROVED_INVITATION_SENT", "INVITATION_CLAIMED"} => x.invitation # 0
                   /\ x.state = "APPROVED_INVITATION_SENT" =>
                          invitations'[x.invitation].state \in {"SENT", "CLAIMED"}
                   /\ x.state = "INVITATION_CLAIMED" => invitations'[x.invitation].state = "CLAIMED"
                   /\ x.invitation # 0 =>
                          x.invitation \in DOMAIN applicantOf' /\ applicantOf'[x.invitation] = a
                   /\ applications[a].state \in {"REJECTED", "INVITATION_CLAIMED"} => x = applications[a]
                   /\ applications[a].state = "APPROVED_INVITATION_SENT" =>
                          /\ x.state \in {"APPROVED_INVITATION_SENT", "INVITATION_CLAIMED"}
                          /\ x.invitation = applications[a].invitation
      BY <2>1 DEF Linked, ApplicationTellsTheTruth, DecisionIsFinalStep
    <2>2. PICK x \in Application(invitationCount') :
                 /\ applications'[a] = x
                 /\ \/ x = applications[a]
                    \/ x.state \notin Final /\ applications[a].state \notin Final
                       /\ (x.invitation = applications[a].invitation
                           \/ (x.invitation \in DOMAIN applicantOf /\ applicantOf[x.invitation] = a))
                    \/ x.state = "REJECTED" /\ applications[a].state \notin Final
                       /\ x.invitation = applications[a].invitation
                    \/ /\ x.state = "APPROVED_INVITATION_SENT" /\ applications[a].state \notin Final
                       /\ x.invitation \in DOMAIN applicantOf /\ applicantOf[x.invitation] = a
                       /\ invitations'[x.invitation].state \in {"SENT", "CLAIMED"}
                    \/ /\ x.state = "INVITATION_CLAIMED" /\ applications[a].state = "APPROVED_INVITATION_SENT"
                       /\ x.invitation = applications[a].invitation
                       /\ invitations'[x.invitation].state = "CLAIMED"
      BY <1>4
    <2>3. \A i \in DOMAIN applicantOf : i # 0 /\ i \in DOMAIN applicantOf' /\ applicantOf'[i] = applicantOf[i]
      BY <1>1, <1>2 DEF ApplicantsKept
    <2>4. applications[a].invitation # 0 =>
              /\ applications[a].invitation \in DOMAIN applicantOf'
              /\ applicantOf'[applications[a].invitation] = a
      BY <1>2, ApplicationKept
    <2>5. CASE x = applications[a]
      BY <1>2, <2>2, <2>5, ApplicationKept
    <2>6. CASE applications[a].state \notin Final /\ x.state \notin Final
      BY <2>2, <2>3, <2>4, <2>6 DEF Final
    <2>7. CASE applications[a].state \notin Final /\ x.state = "REJECTED"
      BY <2>2, <2>3, <2>4, <2>7 DEF Final
    <2>8. CASE applications[a].state \notin Final /\ x.state = "APPROVED_INVITATION_SENT"
      BY <2>2, <2>3, <2>4, <2>8 DEF Final
    <2>9. CASE x.state = "INVITATION_CLAIMED" /\ applications[a].state = "APPROVED_INVITATION_SENT"
      <3>1. applications[a].invitation # 0
        BY <2>9 DEF OnboardingInv, Linked
      <3> QED BY <2>2, <2>4, <2>9, <3>1 DEF Final
    <2> QED BY <2>2, <2>5, <2>6, <2>7, <2>8, <2>9
  <1>5. ASSUME UNCHANGED applications
        PROVE  ApplicationTypes' /\ Linked' /\ ApplicationTellsTheTruth' /\ DecisionIsFinalStep
    <2>1. applications' = [a \in Accounts |-> applications'[a]]
      BY <1>1, <1>5
    <2>2. \A a \in Accounts : applications'[a] = applications[a]
                              /\ applications[a] \in Application(invitationCount')
      BY <1>1, <1>3, <1>5
    <2> QED BY <1>4, <2>1, <2>2
  <1>6. ASSUME NEW b \in Accounts, NEW s \in {"UNDER_REVIEW", "REJECTED"},
               applications[b].state \notin Final, applications' = ApplicationIs(b, s)
        PROVE  ApplicationTypes' /\ Linked' /\ ApplicationTellsTheTruth' /\ DecisionIsFinalStep
    <2>1. PICK y \in Application(invitationCount) : y = applications[b]
      BY <1>1
    <2>2. PICK z \in Application(invitationCount) :
            z = [y EXCEPT !.state = s] /\ z.state = s /\ z.invitation = y.invitation
      <3>1. /\ [y EXCEPT !.state = s] \in Application(invitationCount)
            /\ [y EXCEPT !.state = s].state = s /\ [y EXCEPT !.state = s].invitation = y.invitation
        BY DEF Application, Decisions
      <3> QED BY <3>1
    <2>3. applications' = [applications EXCEPT ![b] = z]
      BY <1>1, <1>6, <2>1, <2>2 DEF ApplicationIs
    <2>4. z.state \notin Final \/ z.state = "REJECTED"
      BY <2>2 DEF Final
    <2>5. ASSUME NEW a \in Accounts, a # b
          PROVE  applications'[a] = applications[a] /\ applications[a] \in Application(invitationCount')
      BY <1>1, <1>3, <2>3, <2>5
    <2>6. /\ applications'[b] = z /\ z \in Application(invitationCount')
          /\ z.invitation = applications[b].invitation /\ applications[b].state \notin Final
      BY <1>1, <1>3, <1>6, <2>1, <2>2, <2>3
    <2>7. applications' = [a \in Accounts |-> applications'[a]]
      BY <1>1, <2>3
    <2> QED BY <1>4, <2>4, <2>5, <2>6, <2>7
  <1>7. ASSUME NEW i \in DOMAIN applicantOf,
               NEW s \in {"APPROVED_INVITATION_SENT", "APPROVAL_DELIVERY_FAILED"},
               s = "APPROVED_INVITATION_SENT" => invitations'[i].state \in {"SENT", "CLAIMED"},
               applications' = Decided(applicantOf[i], s, i)
        PROVE  ApplicationTypes' /\ Linked' /\ ApplicationTellsTheTruth' /\ DecisionIsFinalStep
    <2> DEFINE b == applicantOf[i]
    <2>1. PICK y \in Application(invitationCount) : y = applications[b]
      BY <1>1
    <2>2. PICK z \in Application(invitationCount) :
            z = [y EXCEPT !.state = s, !.invitation = i] /\ z.state = s /\ z.invitation = i
      <3>1. i \in 0..invitationCount /\ s \in Decisions
        BY <1>1 DEF Decisions
      <3>2. LET w == [y EXCEPT !.state = s, !.invitation = i] IN
                w \in Application(invitationCount) /\ w.state = s /\ w.invitation = i
        BY <3>1 DEF Application
      <3> QED BY <3>2
    <2>3. CASE y.state \in Reviewable
      <3>1. applications' = [applications EXCEPT ![b] = z]
        BY <1>1, <1>7, <2>1, <2>2, <2>3 DEF Decided
      <3>2. y.state \notin Final /\ (z.state \notin Final \/ z.state = "APPROVED_INVITATION_SENT")
        BY <2>2, <2>3 DEF Final, Reviewable
      <3>3. ASSUME NEW a \in Accounts, a # b
            PROVE  applications'[a] = applications[a] /\ applications[a] \in Application(invitationCount')
        BY <1>1, <1>3, <3>1, <3>3
      <3>4. /\ b \in Accounts /\ applications'[b] = z /\ z \in Application(invitationCount')
            /\ z.invitation \in DOMAIN applicantOf /\ applicantOf[z.invitation] = b
            /\ applications[b].state \notin Final
            /\ z.state = "APPROVED_INVITATION_SENT" => invitations'[z.invitation].state \in {"SENT", "CLAIMED"}
        BY <1>1, <1>3, <1>7, <2>1, <2>2, <3>1, <3>2
      <3>5. applications' = [a \in Accounts |-> applications'[a]]
        BY <1>1, <3>1
      <3> HIDE DEF b
      <3> QED BY <1>4, <3>2, <3>3, <3>4, <3>5
    <2>4. CASE y.state \notin Reviewable
      BY <1>5, <1>7, <2>1, <2>4 DEF Decided
    <2> QED BY <2>3, <2>4
  <1>8. ASSUME NEW i \in 1..invitationCount, invitations'[i].state = "CLAIMED",
               applications' = ClaimMarked(i)
        PROVE  ApplicationTypes' /\ Linked' /\ ApplicationTellsTheTruth' /\ DecisionIsFinalStep
    <2>1. ASSUME NEW a \in Accounts
          PROVE  \E x \in Application(invitationCount') :
                   /\ applications'[a] = x
                   /\ \/ x = applications[a]
                      \/ /\ x.state = "INVITATION_CLAIMED" /\ applications[a].state = "APPROVED_INVITATION_SENT"
                         /\ x.invitation = applications[a].invitation
                         /\ invitations'[x.invitation].state = "CLAIMED"
      <3>1. PICK y \in Application(invitationCount) : y = applications[a]
        BY <1>1
      <3>2. PICK z \in Application(invitationCount) :
              z = [y EXCEPT !.state = "INVITATION_CLAIMED"] /\ z.state = "INVITATION_CLAIMED"
              /\ z.invitation = y.invitation
        <4>1. LET w == [y EXCEPT !.state = "INVITATION_CLAIMED"] IN
                  /\ w \in Application(invitationCount)
                  /\ w.state = "INVITATION_CLAIMED" /\ w.invitation = y.invitation
          BY DEF Application, Decisions
        <4> QED BY <4>1
      <3> QED BY <1>3, <1>8, <3>1, <3>2 DEF ClaimMarked
    <2>2. applications' = [a \in Accounts |-> applications'[a]]
      BY <1>8 DEF ClaimMarked
    <2> QED BY <1>4, <2>1, <2>2
  <1> QED BY <1>2, <1>5, <1>6, <1>7, <1>8 DEF ApplicationsMove

-----------------------------------------------------------------------------
(* The awaiting handlers. *)
Good(x) ==
    /\ x \in CallRecords
    /\ x.kind \in {"approve", "resend", "send"} => x.invitation \in 1..invitationCount'
    /\ x.kind = "approve" =>
           /\ x.application \in Accounts /\ x.invitation \in DOMAIN applicantOf'
           /\ applicantOf'[x.invitation] = x.application
    /\ x.kind = "verify" => challenges'[x.challenge] # NoChallenge

ChallengesKept == \A c \in CIds : challenges[c] # NoChallenge => challenges'[c] # NoChallenge

CallsMove ==
    \/ ChallengesKept /\ \/ calls' = calls
                         \/ \E r \in Calls : calls' = [calls EXCEPT ![r] = Idle]
                         \/ \E r \in Calls, x \in CallRecords :
                              Good(x) /\ calls' = [calls EXCEPT ![r] = x]
    \/ calls' = [r \in Calls |-> Idle]

LEMMA CallStep ==
    ASSUME OnboardingInv, Forward, ApplicantsKept, CallsMove, resendRequests' \subseteq IIds \X Keys
    PROVE  CallTypes' /\ CallsLinked'
  <1>1. calls \in [Calls -> CallRecords] /\ Idle \in CallRecords /\ Idle.kind = "idle" /\ Good(Idle)
    BY DEF OnboardingInv, CallTypes, CallRecords, Idle, Good
  <1>2. ASSUME NEW r \in Calls, ChallengesKept PROVE Good(calls[r])
    <2>1. calls[r].kind = "verify" => calls[r].challenge \in CIds
      BY <1>1 DEF CallRecords, Idle
    <2>2. invitationCount \in Nat /\ invitationCount' \in Nat /\ invitationCount' >= invitationCount
      BY OnboardingAssumption DEF OnboardingInv, InvitationTypes, Forward
    <2>3. /\ calls[r].kind \in {"approve", "resend", "send"} => calls[r].invitation \in 1..invitationCount
          /\ calls[r].kind = "approve" =>
               /\ calls[r].application \in Accounts /\ calls[r].invitation \in DOMAIN applicantOf
               /\ applicantOf[calls[r].invitation] = calls[r].application
          /\ calls[r].kind = "verify" => challenges[calls[r].challenge] # NoChallenge
      BY DEF OnboardingInv, CallsLinked
    <2>4. calls[r].kind \in {"approve", "resend", "send"} => calls[r].invitation \in 1..invitationCount'
      BY <2>2, <2>3
    <2> QED BY <1>1, <1>2, <2>1, <2>3, <2>4 DEF Good, ChallengesKept, ApplicantsKept
  <1>3. calls' \in [Calls -> CallRecords] /\ \A r \in Calls : Good(calls'[r])
    <2>1. CASE calls' = [r \in Calls |-> Idle]
      BY <1>1, <2>1
    <2>2. CASE calls' = calls /\ ChallengesKept
      BY <1>1, <1>2, <2>2
    <2>3. ASSUME NEW r \in Calls, NEW x \in CallRecords, Good(x), calls' = [calls EXCEPT ![r] = x],
                 ChallengesKept
          PROVE  <1>3
      <3>1. calls' \in [Calls -> CallRecords] /\ \A q \in Calls : calls'[q] = IF q = r THEN x ELSE calls[q]
        BY <1>1, <2>3
      <3> QED BY <1>2, <2>3, <3>1
    <2> QED BY <1>1, <2>1, <2>2, <2>3 DEF CallsMove
  <1> QED BY <1>3 DEF CallTypes, CallsLinked, Good

(* A step of the whole onboarding, part by part. *)
Moves ==
    /\ now' \in 1..MaxTime /\ InvitationsMove /\ ApplicationsMove /\ CallsMove
    /\ resendRequests' \subseteq IIds \X Keys /\ MemoryTypes' /\ MailTypes'

LEMMA MovesKeep == OnboardingInv /\ Moves => OnboardingInv' /\ ClaimIsFinalStep /\ DecisionIsFinalStep
  <1> SUFFICES ASSUME OnboardingInv, Moves
               PROVE  OnboardingInv' /\ ClaimIsFinalStep /\ DecisionIsFinalStep
    OBVIOUS
  <1>1. InvitationTypes' /\ Numbered' /\ History' /\ ResendsArePaced' /\ Forward
    BY InvitationStep DEF Moves
  <1>2. ApplicationTypes' /\ Linked' /\ ApplicationTellsTheTruth' /\ ApplicantsKept
        /\ DecisionIsFinalStep
    BY <1>1, ApplicationStep DEF Moves
  <1>3. CallTypes' /\ CallsLinked'
    BY <1>1, <1>2, CallStep DEF Moves
  <1>4. ClaimIsFinalStep
    <2> SUFFICES ASSUME NEW i \in IIds, invitations[i].state = "CLAIMED"
                 PROVE  invitations'[i] = invitations[i]
      BY DEF ClaimIsFinalStep
    <2>1. ~(i > invitationCount)
      BY DEF OnboardingInv, Numbered, NoInvitation
    <2>2. i \in 1..invitationCount
      BY <2>1, OnboardingAssumption DEF OnboardingInv, InvitationTypes, IIds
    <2> QED BY <1>1, <2>2 DEF Forward
  <1> QED BY <1>1, <1>2, <1>3, <1>4 DEF OnboardingInv, Moves

-----------------------------------------------------------------------------
(* What memory and mail hold stays typed when invitations are added. *)
LEMMA Grown ==
    ASSUME OnboardingInv, invitationCount' \in {invitationCount, invitationCount + 1}
    PROVE  /\ accounts \in [Accounts -> Account(invitationCount')]
           /\ challenges \in [CIds -> {NoChallenge} \cup Challenge(invitationCount')]
           /\ signatures \subseteq Wallets \X (0..invitationCount')
  <1>1. invitationCount \in Nat /\ 0..invitationCount \subseteq 0..invitationCount'
    BY OnboardingAssumption DEF OnboardingInv, InvitationTypes
  <1>2. Account(invitationCount) \subseteq Account(invitationCount')
    BY <1>1 DEF Account
  <1>3. Challenge(invitationCount) \subseteq Challenge(invitationCount')
    BY <1>1 DEF Challenge
  <1> QED BY <1>1, <1>2, <1>3 DEF OnboardingInv, MemoryTypes, MailTypes

LEMMA MemoryUnchanged ==
    ASSUME OnboardingInv, invitationCount' \in {invitationCount, invitationCount + 1},
           UNCHANGED memory
    PROVE  MemoryTypes'
  BY Grown DEF OnboardingInv, MemoryTypes, memory

LEMMA MailUnchanged ==
    ASSUME OnboardingInv, invitationCount' \in {invitationCount, invitationCount + 1},
           UNCHANGED <<mailbox, signatures>>
    PROVE  MailTypes'
  BY Grown DEF OnboardingInv, MailTypes

(* What does not move. *)
LEMMA Unmoved ==
    /\ OnboardingInv /\ now' = now => now' \in 1..MaxTime
    /\ UNCHANGED <<invitations, invitationCount, resent>> => InvitationsMove
    /\ UNCHANGED <<applications, applicantOf>> => ApplicationsMove
    /\ OnboardingInv /\ resendRequests' = resendRequests => resendRequests' \subseteq IIds \X Keys
    /\ challenges' = challenges => ChallengesKept
    /\ calls' = calls /\ challenges' = challenges => CallsMove
  BY DEF OnboardingInv, InvitationTypes, CallTypes, InvitationsMove, ApplicationsMove, CallsMove,
         ChallengesKept

LEMMA NoAccountTyped ==
    ASSUME OnboardingInv, NEW s \in {"new", "present", "lost"}
    PROVE  NoAccount(s) \in Account(invitationCount)
  BY OnboardingAssumption DEF OnboardingInv, InvitationTypes, NoAccount, Account

LEMMA ClockMoves == OnboardingInv /\ (Tick \/ UNCHANGED vars) => Moves
  <1> SUFFICES ASSUME OnboardingInv, Tick \/ UNCHANGED vars PROVE Moves
    OBVIOUS
  <1>1. now' \in 1..MaxTime
    BY OnboardingAssumption DEF Tick, vars, OnboardingInv, InvitationTypes
  <1>2. UNCHANGED <<rows, memory, calls, mail, signatures>>
    BY DEF Tick, vars
  <1> QED
    BY <1>1, <1>2, Unmoved, MemoryUnchanged, MailUnchanged DEF Moves, rows, memory, mail

(* Sessions, wallets and challenges: the rows stay. *)
LEMMA MemoryMoves ==
    ASSUME OnboardingInv,
           \/ Restart
           \/ \E a \in Accounts : \/ CreateAccount(a) \/ \E b \in Accounts : NewSession(a, b)
                                 \/ \E w \in Wallets : BindWallet(a, w) \/ CreateChallenge(a, w)
    PROVE  Moves
  <1>1. UNCHANGED <<now, rows, mail, signatures>>
    BY DEF Restart, CreateAccount, NewSession, BindWallet, CreateChallenge, NewChallenge
  <1>2. /\ accounts \in [Accounts -> Account(invitationCount)] /\ challengeCount \in 0..MaxChallenges
        /\ challenges \in [CIds -> {NoChallenge} \cup Challenge(invitationCount)]
        /\ invitationCount' = invitationCount /\ MaxChallenges \in Nat /\ invitationCount \in Nat
    BY <1>1, OnboardingAssumption DEF OnboardingInv, MemoryTypes, InvitationTypes, rows
  <1>3. MemoryTypes' /\ CallsMove
    <2>1. CASE Restart
      <3>1. accounts' \in [Accounts -> Account(invitationCount)]
        BY <1>2, <2>1, NoAccountTyped DEF Restart
      <3> QED BY <1>2, <2>1, <3>1 DEF Restart, MemoryTypes, CallsMove
    <2>2. ASSUME NEW a \in Accounts, CreateAccount(a) PROVE <1>3
      <3>1. accounts' \in [Accounts -> Account(invitationCount)]
        BY <1>2, <2>2, NoAccountTyped DEF CreateAccount
      <3> QED BY <1>2, <2>2, <3>1, Unmoved DEF CreateAccount, MemoryTypes
    <2>3. ASSUME NEW a \in Accounts, NEW b \in Accounts, NewSession(a, b) PROVE <1>3
      <3>1. accounts' \in [Accounts -> Account(invitationCount)]
        BY <1>2, <2>3, NoAccountTyped DEF NewSession
      <3> QED BY <1>2, <2>3, <3>1, Unmoved DEF NewSession, MemoryTypes
    <2>4. ASSUME NEW a \in Accounts, NEW w \in Wallets, BindWallet(a, w) PROVE <1>3
      <3>1. PICK x \in Account(invitationCount) : x = accounts[a]
        BY <1>2
      <3>2. [x EXCEPT !.wallet = w] \in Account(invitationCount)
        BY DEF Account
      <3>3. accounts' = [accounts EXCEPT ![a] = [x EXCEPT !.wallet = w]]
        BY <1>2, <2>4, <3>1 DEF BindWallet
      <3>4. accounts' \in [Accounts -> Account(invitationCount)]
        BY <1>2, <3>2, <3>3
      <3> QED BY <1>2, <2>4, <3>4, Unmoved DEF BindWallet, MemoryTypes
    <2>5. ASSUME NEW a \in Accounts, NEW w \in Wallets, CreateChallenge(a, w) PROVE <1>3
      <3>1. PICK i \in 0..invitationCount : NewChallenge(a, w, i)
        <4>1. CASE NewChallenge(a, w, 0)
          BY <1>2, <4>1
        <4>2. ASSUME NEW m \in mailbox, Current(m), NewChallenge(a, w, m[1])
              PROVE  \E i \in 0..invitationCount : NewChallenge(a, w, i)
          <5>1. m[1] \in IIds /\ m[2] \in 1..MaxTime + 1
            BY DEF OnboardingInv, MailTypes
          <5>2. ~(m[1] > invitationCount)
            BY <4>2, <5>1 DEF Current, OnboardingInv, Numbered, NoInvitation
          <5>3. m[1] \in 0..invitationCount
            BY <1>2, <5>1, <5>2 DEF IIds
          <5> QED BY <4>2, <5>3
        <4> QED BY <2>5, <4>1, <4>2 DEF CreateChallenge
      <3> DEFINE x == [state |-> "unused", account |-> a, wallet |-> w, proof |-> i,
                       expiresAt |-> now + ChallengeTTL]
      <3>2. x \in Challenge(invitationCount)
        <4>1. now + ChallengeTTL \in Times
          BY OnboardingAssumption DEF OnboardingInv, InvitationTypes, Times
        <4> QED BY <4>1 DEF Challenge
      <3>3. x # NoChallenge
        BY DEF NoChallenge
      <3>4. challengeCount + 1 \in CIds /\ challenges' = [challenges EXCEPT ![challengeCount + 1] = x]
        BY <1>2, <3>1 DEF NewChallenge, CIds
      <3> HIDE DEF x
      <3>5. challenges' \in [CIds -> {NoChallenge} \cup Challenge(invitationCount)] /\ ChallengesKept
        BY <1>2, <3>2, <3>3, <3>4 DEF ChallengesKept
      <3>6. challengeCount' \in 0..MaxChallenges /\ accounts' = accounts /\ calls' = calls
        BY <1>2, <3>1 DEF NewChallenge
      <3> QED BY <1>2, <3>5, <3>6 DEF MemoryTypes, CallsMove
    <2> QED BY <2>1, <2>2, <2>3, <2>4, <2>5
  <1> QED BY <1>1, <1>2, <1>3, Unmoved, MailUnchanged DEF Moves, rows, mail

(* The decisions that await nothing. *)
LEMMA DecisionMoves ==
    ASSUME OnboardingInv, NEW a \in Accounts, CreateApplication(a) \/ Verify(a) \/ Reject(a)
    PROVE  Moves
  <1>1. /\ applications[a].state \notin Final
        /\ \E s \in {"UNDER_REVIEW", "REJECTED"} : applications' = ApplicationIs(a, s)
    BY DEF CreateApplication, Verify, Reject, Final, NoApplication, Legacy
  <1>2. UNCHANGED <<now, invitations, invitationCount, applicantOf, resendRequests, memory, calls,
                    mail, signatures>>
    BY DEF CreateApplication, Verify, Reject
  <1>3. ApplicationsMove
    BY <1>1, <1>2 DEF ApplicationsMove
  <1> QED BY <1>2, <1>3, Unmoved, MemoryUnchanged, MailUnchanged DEF Moves, memory, mail

(* A new invitation, for an application or for an administrator. *)
LEMMA CreateInvitationMoves == OnboardingInv /\ CreateInvitation => Moves
  <1> SUFFICES ASSUME OnboardingInv, CreateInvitation PROVE Moves
    OBVIOUS
  <1>1. /\ InvitationCreated(invitationCount + 1) /\ mailbox' = mailbox \cup {<<invitationCount + 1, 1>>}
        /\ UNCHANGED <<now, applications, applicantOf, resendRequests, memory, calls, resent, signatures>>
    BY DEF CreateInvitation
  <1>2. invitationCount' = invitationCount + 1 /\ invitationCount + 1 \in IIds /\ 1 \in 1..MaxTime + 1
    BY <1>1, OnboardingAssumption DEF InvitationCreated
  <1>3. MailTypes'
    BY <1>1, <1>2, Grown DEF OnboardingInv, MailTypes
  <1> QED BY <1>1, <1>2, <1>3, Unmoved, MemoryUnchanged DEF Moves, InvitationsMove, memory

LEMMA ApproveMoves ==
    ASSUME OnboardingInv, NEW r \in Calls, NEW a \in Accounts, Approve(r, a)
    PROVE  Moves
  <1> DEFINE i == invitationCount + 1
             x == [kind |-> "approve", application |-> a, invitation |-> i, token |-> 1]
  <1>1. /\ InvitationCreated(i) /\ applicantOf' = Applicants(a) /\ calls' = [calls EXCEPT ![r] = x]
        /\ UNCHANGED <<now, applications, resendRequests, memory, mail, signatures>>
    BY DEF Approve, Start, Applicants
  <1>2. /\ invitationCount' = i /\ i \in IIds /\ i \in 1..i /\ invitationCount \in Nat
        /\ DOMAIN applicantOf \subseteq 1..invitationCount
    BY <1>1, OnboardingAssumption
    DEF InvitationCreated, OnboardingInv, InvitationTypes, ApplicationTypes
  <1>3. x \in CallRecords
    BY <1>2 DEF CallRecords
  <1>4. x.kind = "approve" /\ x.application = a /\ x.invitation = i
    OBVIOUS
  <1>5. i \in DOMAIN applicantOf' /\ applicantOf'[i] = a
    BY <1>1 DEF Applicants
  <1> HIDE DEF x
  <1>6. Good(x)
    BY <1>2, <1>3, <1>4, <1>5 DEF Good
  <1>7. CallsMove
    BY <1>1, <1>3, <1>6, Unmoved DEF CallsMove, memory
  <1> QED BY <1>1, <1>2, <1>7, Unmoved, MemoryUnchanged, MailUnchanged
          DEF Moves, InvitationsMove, ApplicationsMove, memory, mail

(* The mail server's answers: what the call holds is still so. *)
LEMMA MarkedOpen ==
    ASSUME OnboardingInv, NEW i \in 1..invitationCount, invitations' = MarkedSent(i)
    PROVE  invitations'[i].state \in {"SENT", "CLAIMED"}
  <1>1. /\ i \in IIds /\ invitations \in [IIds -> Invitation] /\ invitations[i].state # "none"
        /\ invitations[i].state \in {"none", "CREATED", "SENT", "CLAIMED"}
    <2>1. i \in IIds /\ invitations \in [IIds -> Invitation] /\ i <= invitationCount
      BY OnboardingAssumption DEF OnboardingInv, InvitationTypes, IIds
    <2> QED BY <2>1 DEF OnboardingInv, Numbered, Invitation
  <1>2. CASE invitations[i].state \in Open
    <2>1. PICK x \in Invitation : x = invitations[i]
      BY <1>1
    <2>2. [x EXCEPT !.state = "SENT", !.sentAt = now].state = "SENT"
      BY DEF Invitation
    <2>3. invitations' = [invitations EXCEPT ![i] = [x EXCEPT !.state = "SENT", !.sentAt = now]]
      BY <1>1, <1>2, <2>1 DEF MarkedSent
    <2> QED BY <1>1, <2>2, <2>3
  <1>3. CASE invitations[i].state \notin Open
    BY <1>1, <1>3 DEF MarkedSent, Open
  <1> QED BY <1>2, <1>3

LEMMA ApproveAnswered ==
    ASSUME OnboardingInv, NEW r \in Calls, ApproveSent(r) \/ ApproveFailed(r)
    PROVE  Moves
  <1> DEFINE i == calls[r].invitation
  <1>1. /\ i \in 1..invitationCount /\ i \in DOMAIN applicantOf
        /\ applicantOf[i] = calls[r].application
    BY DEF ApproveSent, ApproveFailed, Finish, OnboardingInv, CallsLinked
  <1>2. /\ UNCHANGED <<now, invitationCount, applicantOf, resendRequests, memory, mail, signatures>>
        /\ calls' = [calls EXCEPT ![r] = Idle]
    BY DEF ApproveSent, ApproveFailed, Finish
  <1>3. CASE ApproveSent(r)
    <2>1. /\ invitations' = MarkedSent(i)
          /\ applications' = Decided(applicantOf[i], "APPROVED_INVITATION_SENT", i)
      BY <1>1, <1>3 DEF ApproveSent
    <2>2. ApplicationsMove
      BY <1>1, <1>2, <2>1, MarkedOpen DEF ApplicationsMove
    <2>3. InvitationsMove
      BY <1>1, <1>2, <2>1 DEF InvitationsMove, mail
    <2> QED BY <1>2, <2>2, <2>3, Unmoved, MemoryUnchanged, MailUnchanged
            DEF Moves, CallsMove, memory, mail
  <1>4. CASE ApproveFailed(r)
    <2>1. /\ invitations' = invitations
          /\ applications' = Decided(applicantOf[i], "APPROVAL_DELIVERY_FAILED", i)
      BY <1>1, <1>4 DEF ApproveFailed
    <2>2. ApplicationsMove
      BY <1>1, <1>2, <2>1 DEF ApplicationsMove
    <2> QED BY <1>2, <2>1, <2>2, Unmoved, MemoryUnchanged, MailUnchanged
            DEF Moves, CallsMove, memory, mail
  <1> QED BY <1>3, <1>4

LEMMA SendMoves ==
    ASSUME OnboardingInv, NEW r \in Calls, (\E i \in IIds : Send(r, i)) \/ SendSent(r) \/ SendFailed(r)
    PROVE  Moves
  <1>1. UNCHANGED <<now, applications, invitationCount, applicantOf, resendRequests, memory, mail,
                    signatures>>
    BY DEF Send, SendSent, SendFailed, rows
  <1>2. ASSUME NEW i \in IIds, Send(r, i) PROVE Moves
    <2> DEFINE x == [kind |-> "send", invitation |-> i, token |-> 1]
    <2>1. x \in CallRecords /\ x.kind = "send" /\ x.invitation = i
      BY DEF CallRecords
    <2>2. i \in 1..invitationCount' /\ calls' = [calls EXCEPT ![r] = x] /\ invitations' = invitations
      BY <1>1, <1>2, OnboardingAssumption DEF Send, Start, rows, IIds, OnboardingInv, InvitationTypes
    <2> HIDE DEF x
    <2>3. CallsMove
      BY <1>1, <2>1, <2>2, Unmoved DEF CallsMove, Good, memory
    <2> QED BY <1>1, <2>2, <2>3, Unmoved, MemoryUnchanged, MailUnchanged DEF Moves, memory, mail
  <1>3. CASE SendSent(r) \/ SendFailed(r)
    <2>1. InvitationsMove
      <3>1. calls[r].invitation \in 1..invitationCount
        BY <1>3 DEF SendSent, SendFailed, Finish, OnboardingInv, CallsLinked
      <3> QED BY <1>1, <1>3, <3>1 DEF SendSent, SendFailed, InvitationsMove, rows, mail
    <2>2. calls' = [calls EXCEPT ![r] = Idle]
      BY <1>3 DEF SendSent, SendFailed, Finish
    <2> QED BY <1>1, <2>1, <2>2, Unmoved, MemoryUnchanged, MailUnchanged
            DEF Moves, CallsMove, memory, mail
  <1> QED BY <1>2, <1>3

LEMMA ResendMoves ==
    ASSUME OnboardingInv, NEW r \in Calls, NEW a \in Accounts, NEW k \in Keys, Resend(r, a, k)
    PROVE  Moves
  <1> DEFINE i == applications[a].invitation
             x == [kind |-> "resend", invitation |-> i, token |-> invitations[i].token + 1, key |-> k]
  <1>1. /\ ResendAvailable(invitations[i]) /\ Resent(i) /\ calls' = [calls EXCEPT ![r] = x]
        /\ UNCHANGED <<now, applications, invitationCount, applicantOf, resendRequests, memory, mailbox,
                       signatures>>
    BY DEF Resend, Start, Resent
  <1>2. i \in 1..invitationCount
    <2>1. i # 0
      BY DEF Resend, OnboardingInv, Linked
    <2>2. i \in DOMAIN applicantOf
      BY <2>1 DEF OnboardingInv, ApplicationTellsTheTruth
    <2> QED BY <2>2 DEF OnboardingInv, ApplicationTypes
  <1>3. now' \in 1..MaxTime
    BY <1>1, Unmoved
  <1>4. invitations[i].token + 1 \in 1..MaxTime + 1
    BY <1>1, <1>2, <1>3, ResendStep
  <1>5. i \in IIds /\ i \in 1..invitationCount'
    BY <1>1, <1>2, OnboardingAssumption DEF OnboardingInv, InvitationTypes, IIds
  <1>6. x \in CallRecords
    BY <1>4, <1>5 DEF CallRecords
  <1>7. x.kind = "resend" /\ x.invitation = i
    OBVIOUS
  <1> HIDE DEF x
  <1>8. CallsMove
    BY <1>1, <1>5, <1>6, <1>7, Unmoved DEF CallsMove, Good, memory
  <1>9. InvitationsMove
    BY <1>1, <1>2 DEF InvitationsMove
  <1> QED BY <1>1, <1>3, <1>8, <1>9, Unmoved, MemoryUnchanged, MailUnchanged DEF Moves, memory

LEMMA ResendAnswered ==
    ASSUME OnboardingInv, NEW r \in Calls, ResendSent(r) \/ ResendFailed(r)
    PROVE  Moves
  <1>1. /\ UNCHANGED <<now, applications, invitations, invitationCount, applicantOf, memory, mail,
                       signatures>>
        /\ calls' = [calls EXCEPT ![r] = Idle] /\ calls[r].kind = "resend"
    BY DEF ResendSent, ResendFailed, Finish, rows
  <1>2. calls[r] \in [kind : {"resend"}, invitation : IIds, token : 1..MaxTime + 1, key : Keys]
    BY <1>1 DEF OnboardingInv, CallTypes, CallRecords, Idle
  <1>3. resendRequests' \subseteq IIds \X Keys
    BY <1>2 DEF ResendSent, ResendFailed, rows, OnboardingInv, CallTypes
  <1> QED BY <1>1, <1>3, Unmoved, MemoryUnchanged, MailUnchanged
          DEF Moves, CallsMove, memory, mail

LEMMA ArrivalMoves ==
    ASSUME OnboardingInv, NEW r \in Calls, MailArrives(r)
    PROVE  Moves
  <1>1. /\ UNCHANGED <<now, rows, memory, calls, resent, signatures>>
        /\ mailbox' = mailbox \cup {<<calls[r].invitation, calls[r].token>>}
        /\ calls[r].kind \in {"approve", "resend", "send"}
    BY DEF MailArrives
  <1>2. /\ calls[r] \in CallRecords /\ 1 \in 1..MaxTime + 1
    BY OnboardingAssumption DEF OnboardingInv, CallTypes
  <1>3. calls[r].invitation \in IIds /\ calls[r].token \in 1..MaxTime + 1
    BY <1>1, <1>2 DEF CallRecords, Idle
  <1>4. MailTypes'
    BY <1>1, <1>3 DEF OnboardingInv, MailTypes, rows
  <1> QED BY <1>1, <1>4, Unmoved, MemoryUnchanged DEF Moves, rows, memory

-----------------------------------------------------------------------------
(* The wallet's signature and the claim. *)
LEMMA VerifyMoves ==
    ASSUME OnboardingInv, NEW r \in Calls, NEW c \in CIds, VerifyChallenge(r, c)
    PROVE  Moves
  <1> DEFINE x == [kind |-> "verify", challenge |-> c]
  <1>1. /\ challenges[c].state = "unused" /\ calls' = [calls EXCEPT ![r] = x]
        /\ signatures' = signatures \cup {<<challenges[c].wallet, challenges[c].proof>>}
        /\ UNCHANGED <<now, rows, memory, mail>>
    BY DEF VerifyChallenge, Start
  <1>2. challenges[c] # NoChallenge /\ challenges[c] \in Challenge(invitationCount)
    BY <1>1 DEF NoChallenge, OnboardingInv, MemoryTypes
  <1>3. x \in CallRecords /\ x.kind = "verify" /\ x.challenge = c
    BY DEF CallRecords
  <1> HIDE DEF x
  <1>4. CallsMove
    BY <1>1, <1>2, <1>3, Unmoved DEF CallsMove, Good, memory
  <1>5. MailTypes'
    BY <1>1, <1>2 DEF OnboardingInv, MailTypes, Challenge, rows, mail
  <1> QED BY <1>1, <1>4, <1>5, Unmoved, MemoryUnchanged DEF Moves, rows, mail

LEMMA VerifiedMoves ==
    ASSUME OnboardingInv, NEW r \in Calls, ChallengeVerified(r)
    PROVE  Moves
  <1> DEFINE n == calls[r].challenge
  <1>1. /\ calls[r].kind = "verify" /\ calls' = [calls EXCEPT ![r] = Idle]
        /\ challenges' = [challenges EXCEPT ![n].state = "used"]
        /\ accounts' = [accounts EXCEPT ![challenges[n].account].wallet = challenges[n].wallet,
                                        ![challenges[n].account].proof = challenges[n].proof]
        /\ UNCHANGED <<now, rows, challengeCount, mail, signatures>>
    BY DEF ChallengeVerified, Finish
  <1>2. /\ accounts \in [Accounts -> Account(invitationCount)] /\ challengeCount \in 0..MaxChallenges
        /\ challenges \in [CIds -> {NoChallenge} \cup Challenge(invitationCount)]
        /\ invitationCount' = invitationCount
    BY <1>1 DEF OnboardingInv, MemoryTypes, rows
  <1>3. n \in CIds
    BY <1>1 DEF OnboardingInv, CallTypes, CallRecords, Idle
  <1>4. PICK c \in Challenge(invitationCount) : c = challenges[n]
    BY <1>1, <1>2, <1>3 DEF OnboardingInv, CallsLinked
  <1>5. c.account \in Accounts /\ c.wallet \in Wallets /\ c.proof \in 0..invitationCount
    BY DEF Challenge
  <1>6. PICK d \in Challenge(invitationCount) : d = [c EXCEPT !.state = "used"] /\ d.state = "used"
    <2>1. [c EXCEPT !.state = "used"] \in Challenge(invitationCount) /\ [c EXCEPT !.state = "used"].state = "used"
      BY DEF Challenge
    <2> QED BY <2>1
  <1>7. challenges' = [challenges EXCEPT ![n] = d]
    BY <1>1, <1>2, <1>3, <1>4, <1>6
  <1>8. d # NoChallenge
    BY <1>6 DEF NoChallenge
  <1>9. challenges' \in [CIds -> {NoChallenge} \cup Challenge(invitationCount)] /\ ChallengesKept
    BY <1>2, <1>3, <1>6, <1>7, <1>8 DEF ChallengesKept
  <1>10. PICK x \in Account(invitationCount) : x = accounts[c.account]
    BY <1>2, <1>5
  <1>11. PICK y \in Account(invitationCount) : y = [x EXCEPT !.wallet = c.wallet, !.proof = c.proof]
    <2>1. [x EXCEPT !.wallet = c.wallet, !.proof = c.proof] \in Account(invitationCount)
      BY <1>5 DEF Account
    <2> QED BY <2>1
  <1>12. accounts' = [accounts EXCEPT ![c.account] = y]
    BY <1>1, <1>2, <1>4, <1>5, <1>10, <1>11
  <1>13. accounts' \in [Accounts -> Account(invitationCount)]
    BY <1>2, <1>5, <1>11, <1>12
  <1>14. MemoryTypes' /\ CallsMove
    BY <1>1, <1>2, <1>9, <1>13 DEF MemoryTypes, CallsMove
  <1> QED BY <1>1, <1>14, Unmoved, MailUnchanged DEF Moves, rows, mail

LEMMA ClaimMoves ==
    ASSUME OnboardingInv, NEW a \in Accounts, NEW m \in mailbox, Claim(a, m)
    PROVE  Moves
  <1> DEFINE i == m[1]
             w == accounts[a].wallet
  <1>1. /\ w # NoWallet /\ Current(m) /\ Claimable(invitations[i]) /\ invitations' = Claimed(i, w)
        /\ applications' = ClaimMarked(i) /\ accounts' = [accounts EXCEPT ![a].proof = 0]
        /\ UNCHANGED <<now, invitationCount, applicantOf, resendRequests, challenges, challengeCount,
                       calls, mail, signatures>>
    BY DEF Claim, Claimed
  <1>2. /\ accounts \in [Accounts -> Account(invitationCount)] /\ invitationCount \in Nat
        /\ invitations \in [IIds -> Invitation]
    BY OnboardingAssumption DEF OnboardingInv, MemoryTypes, InvitationTypes
  <1>3. PICK x \in Account(invitationCount) : x = accounts[a]
    BY <1>2
  <1>4. w \in Wallets
    BY <1>1, <1>3 DEF Account
  <1>5. i \in IIds /\ i \in 1..invitationCount
    <2>1. i \in IIds
      BY DEF OnboardingInv, MailTypes
    <2>2. ~(i > invitationCount)
      BY <1>1, <2>1 DEF Claimable, Open, OnboardingInv, Numbered, NoInvitation
    <2> QED BY <1>2, <2>1, <2>2 DEF IIds
  <1>6. InvitationsMove
    BY <1>1, <1>4, <1>5 DEF InvitationsMove, mail
  <1>7. invitations'[i].state = "CLAIMED"
    <2>1. PICK v \in Invitation : v = invitations[i]
      BY <1>2, <1>5
    <2>2. [v EXCEPT !.state = "CLAIMED", !.wallet = w].state = "CLAIMED"
      BY DEF Invitation
    <2>3. invitations' = [invitations EXCEPT ![i] = [v EXCEPT !.state = "CLAIMED", !.wallet = w]]
      BY <1>1, <1>2, <1>5, <2>1 DEF Claimed
    <2> QED BY <1>2, <1>5, <2>2, <2>3
  <1>8. ApplicationsMove
    BY <1>1, <1>5, <1>7 DEF ApplicationsMove
  <1>9. MemoryTypes'
    <2>1. [x EXCEPT !.proof = 0] \in Account(invitationCount)
      BY <1>2 DEF Account
    <2>2. accounts' = [accounts EXCEPT ![a] = [x EXCEPT !.proof = 0]]
      BY <1>1, <1>2, <1>3
    <2>3. accounts' \in [Accounts -> Account(invitationCount)]
      BY <1>2, <2>1, <2>2
    <2> QED BY <1>1, <2>3 DEF OnboardingInv, MemoryTypes
  <1> QED BY <1>1, <1>6, <1>8, <1>9, Unmoved, MailUnchanged DEF Moves, mail

-----------------------------------------------------------------------------
(* Whatever step is taken, the rows only move as above. *)
LEMMA StepMoves == OnboardingInv /\ [Next]_vars => Moves
  <1> SUFFICES ASSUME OnboardingInv, [Next]_vars PROVE Moves
    OBVIOUS
  <1>1. CASE Tick \/ UNCHANGED vars
    BY <1>1, ClockMoves
  <1>2. CASE Restart \/ \E a \in Accounts : \/ CreateAccount(a) \/ \E b \in Accounts : NewSession(a, b)
                                          \/ \E w \in Wallets : BindWallet(a, w) \/ CreateChallenge(a, w)
    BY <1>2, MemoryMoves
  <1>3. CASE CreateInvitation
    BY <1>3, CreateInvitationMoves
  <1>4. ASSUME NEW a \in Accounts,
               \/ CreateApplication(a) \/ Verify(a) \/ Reject(a) \/ \E m \in mailbox : Claim(a, m)
               \/ \E r \in Calls : Approve(r, a) \/ \E k \in Keys : Resend(r, a, k)
        PROVE  Moves
    BY <1>4, DecisionMoves, ClaimMoves, ApproveMoves, ResendMoves
  <1>5. ASSUME NEW r \in Calls,
               \/ MailArrives(r) \/ ApproveSent(r) \/ ApproveFailed(r) \/ ResendSent(r)
               \/ ResendFailed(r) \/ ChallengeVerified(r) \/ SendSent(r) \/ SendFailed(r)
               \/ (\E i \in IIds : Send(r, i)) \/ \E c \in CIds : VerifyChallenge(r, c)
        PROVE  Moves
    BY <1>5, ArrivalMoves, ApproveAnswered, ResendAnswered, SendMoves, VerifiedMoves, VerifyMoves
  <1> QED BY <1>1, <1>2, <1>3, <1>4, <1>5 DEF Next

LEMMA StepInv == OnboardingInv /\ [Next]_vars => OnboardingInv'
  BY StepMoves, MovesKeep

(* The inductive invariant: numbered rows that remember their resends,      *)
(* applications linked to their invitations, and awaiting handlers whose    *)
(* invitation or challenge is still there when they resume.                 *)
THEOREM Onboarded == Spec => []OnboardingInv
  <1>1. Init => OnboardingInv
    BY InitInv
  <1>2. OnboardingInv /\ [Next]_vars => OnboardingInv'
    BY StepInv
  <1> QED BY <1>1, <1>2, PTL DEF Spec

(* Rows, accounts, challenges and awaiting handlers are of their types: the *)
(* resend counter of resendAvailability never passes its limit.             *)
THEOREM TypeCorrect == Spec => []TypeOK
  <1>1. OnboardingInv => TypeOK
    BY TypeParts DEF OnboardingInv
  <1> QED BY <1>1, Onboarded, PTL

(* An approved application's invitation was sent to this applicant and a    *)
(* registered one's was claimed, although approve updates invitation and    *)
(* application after its await and several approvals may overlap.           *)
THEOREM ApplicationsTrue == Spec => []ApplicationTellsTheTruth
  <1>1. OnboardingInv => ApplicationTellsTheTruth
    BY DEF OnboardingInv
  <1> QED BY <1>1, Onboarded, PTL

(* resendAvailability paces the resends of an invitation by the cooldown,   *)
(* whether their mails fail, overlap or are lost in a restart.              *)
THEOREM ResendsPaced == Spec => []ResendsArePaced
  <1>1. OnboardingInv => ResendsArePaced
    BY DEF OnboardingInv
  <1> QED BY <1>1, Onboarded, PTL

(* Decisions and claims are final: the conditional updates that follow an   *)
(* await (approve, resend, send) never take one back.                       *)
THEOREM OutcomesStay == Spec => OutcomesAreFinal
  <1>1. OnboardingInv /\ [Next]_vars => [ClaimIsFinalStep /\ DecisionIsFinalStep]_vars
    BY StepMoves, MovesKeep
  <1> QED BY <1>1, Onboarded, PTL DEF Spec, OutcomesAreFinal

-----------------------------------------------------------------------------
(* One mail. *)
LEMMA Joined ==
    ASSUME NEW S, NEW s \in Seq(S), NEW t \in Seq(S), NEW u \in Seq(S), Len(u) = Len(s) + Len(t),
           \A i \in 1..Len(s) : u[i] = s[i], \A i \in 1..Len(t) : u[i + Len(s)] = t[i]
    PROVE  s \o t = u
  <1>1. Len(s) \in Nat /\ Len(t) \in Nat
    BY LenProperties
  <1>2. s \o t \in Seq(S) /\ Len(s \o t) = Len(u)
    BY ConcatProperties
  <1>3. ASSUME NEW i \in 1..Len(u) PROVE (s \o t)[i] = u[i]
    <2>1. (s \o t)[i] = IF i <= Len(s) THEN s[i] ELSE t[i - Len(s)]
      BY ConcatProperties
    <2>2. CASE i <= Len(s)
      BY <1>1, <2>1, <2>2
    <2>3. CASE ~(i <= Len(s))
      <3>1. i - Len(s) \in 1..Len(t) /\ (i - Len(s)) + Len(s) = i
        BY <1>1, <2>3
      <3> QED BY <2>1, <2>3, <3>1
    <2> QED BY <2>2, <2>3
  <1> QED BY <1>2, <1>3, SeqEqual

LEMMA Scripts ==
    /\ Script("implicitTls") =
           <<"greeting", "EHLO", "AUTH", "MAIL", "RCPT", "DATA", "text", "QUIT">>
    /\ Script("startTls") =
           <<"greeting", "EHLO", "STARTTLS", "handshake",
             "EHLO", "AUTH", "MAIL", "RCPT", "DATA", "text", "QUIT">>
  <1> DEFINE S == {"greeting", "EHLO", "STARTTLS", "handshake", "AUTH", "MAIL", "RCPT", "DATA", "text", "QUIT"}
  <1>1. ASSUME NEW s, s = <<"greeting">>, NEW t, t = Conversation,
               NEW u, u = <<"greeting", "EHLO", "AUTH", "MAIL", "RCPT", "DATA", "text", "QUIT">>
        PROVE  s \o t = u
    <2>1. s \in Seq(S) /\ t \in Seq(S) /\ u \in Seq(S)
      BY <1>1 DEF Conversation
    <2>2. Len(s) = 1 /\ Len(t) = 7 /\ Len(u) = 8
      BY <1>1 DEF Conversation
    <2>3. (\A i \in 1..1 : u[i] = s[i]) /\ \A i \in 1..7 : u[i + 1] = t[i]
      BY <1>1 DEF Conversation
    <2>4. /\ Len(u) = Len(s) + Len(t) /\ \A i \in 1..Len(s) : u[i] = s[i]
          /\ \A i \in 1..Len(t) : u[i + Len(s)] = t[i]
      BY <2>2, <2>3
    <2> HIDE DEF S
    <2> QED BY <2>1, <2>4, Joined
  <1>2. ASSUME NEW s, s = <<"greeting", "EHLO", "STARTTLS", "handshake">>, NEW t, t = Conversation,
               NEW u, u = <<"greeting", "EHLO", "STARTTLS", "handshake",
                            "EHLO", "AUTH", "MAIL", "RCPT", "DATA", "text", "QUIT">>
        PROVE  s \o t = u
    <2>1. s \in Seq(S) /\ t \in Seq(S) /\ u \in Seq(S)
      BY <1>2 DEF Conversation
    <2>2. Len(s) = 4 /\ Len(t) = 7 /\ Len(u) = 11
      BY <1>2 DEF Conversation
    <2>3. (\A i \in 1..4 : u[i] = s[i]) /\ \A i \in 1..7 : u[i + 4] = t[i]
      BY <1>2 DEF Conversation
    <2>4. /\ Len(u) = Len(s) + Len(t) /\ \A i \in 1..Len(s) : u[i] = s[i]
          /\ \A i \in 1..Len(t) : u[i + Len(s)] = t[i]
      BY <2>2, <2>3
    <2> HIDE DEF S
    <2> QED BY <2>1, <2>4, Joined
  <1> QED BY <1>1, <1>2 DEF Script

(* The mail as it goes: texts written, refused or accepted follow the script; *)
(* the second conversation begins only when the first was not refused.        *)
MailTyped ==
    /\ recipientValid \in BOOLEAN /\ attempt \in Attempts
    /\ position \in 1..(IF attempt = "implicitTls" THEN 8 ELSE 11)
    /\ texts \in [Attempts -> {"unsent", "written", "accepted", "refused"}]
    /\ sent \in {"pending", "resolved", "rejected"} /\ refusals \subseteq Attempts
MailOnce ==
    /\ attempt = "implicitTls" => texts["startTls"] = "unsent"
    /\ mode # "gmail-smtp" => attempt = "implicitTls"
    /\ "implicitTls" \in refusals => attempt = "implicitTls" /\ sent = "rejected"
MailTold ==
    /\ sent = "resolved" => texts[attempt] = "accepted"
    /\ sent = "pending" /\ Step = "QUIT" => texts[attempt] = "accepted"
MailAddressed ==
    ~recipientValid /\ mode = "gmail-smtp" =>
        /\ texts = [a \in Attempts |-> "unsent"]
        /\ position <= IF attempt = "implicitTls" THEN 4 ELSE 7

MailInv == MailTyped /\ MailOnce /\ MailTold /\ MailAddressed

LEMMA MailStarts == MailInit => MailInv
  BY Scripts DEF MailInit, MailInv, MailTyped, MailOnce, MailTold, MailAddressed, Attempts, Step

LEMMA MailTrue == MailInv => MailIsSentWhenSaid
  BY DEF MailInv, MailTyped, MailOnce, MailTold, MailAddressed, MailIsSentWhenSaid, Attempts

(* Only the end of a script is QUIT, only "text" precedes it, and an address  *)
(* is looked at one step after the fourth or the seventh.                     *)
LEMMA Positions ==
    ASSUME MailTyped
    PROVE  LET last == IF attempt = "implicitTls" THEN 8 ELSE 11
               next == Script(attempt)[position + 1]
           IN  /\ Step = "QUIT" <=> position = last
               /\ next = "QUIT" /\ position < last => Step = "text"
               /\ position = (IF attempt = "implicitTls" THEN 4 ELSE 7) => next = "RCPT"
               /\ position < (IF attempt = "implicitTls" THEN 4 ELSE 7) => next # "text"
               /\ Step = "handshake" => attempt = "startTls" /\ position = 4
  <1>1. CASE attempt = "implicitTls"
    <2> DEFINE direct == <<"greeting", "EHLO", "AUTH", "MAIL", "RCPT", "DATA", "text", "QUIT">>
    <2>1. position \in 1..8
      BY <1>1 DEF MailTyped
    <2>2. Script(attempt) = direct
      BY <1>1, Scripts
    <2>3. \A p \in 1..8 :
            /\ direct[p] = "QUIT" <=> p = 8
            /\ direct[p + 1] = "QUIT" /\ p < 8 => direct[p] = "text"
            /\ p = 4 => direct[p + 1] = "RCPT"
            /\ p < 4 => direct[p + 1] # "text"
            /\ direct[p] # "handshake"
      OBVIOUS
    <2> HIDE DEF direct
    <2> QED BY <1>1, <2>1, <2>2, <2>3 DEF Step
  <1>2. CASE attempt = "startTls"
    <2> DEFINE second == <<"greeting", "EHLO", "STARTTLS", "handshake",
                           "EHLO", "AUTH", "MAIL", "RCPT", "DATA", "text", "QUIT">>
    <2>1. position \in 1..11
      BY <1>2 DEF MailTyped
    <2>2. Script(attempt) = second
      BY <1>2, Scripts
    <2>3. \A p \in 1..11 :
            /\ second[p] = "QUIT" <=> p = 11
            /\ second[p + 1] = "QUIT" /\ p < 11 => second[p] = "text"
            /\ p = 7 => second[p + 1] = "RCPT"
            /\ p < 7 => second[p + 1] # "text"
            /\ second[p] = "handshake" => p = 4
      OBVIOUS
    <2> HIDE DEF second
    <2> QED BY <1>2, <2>1, <2>2, <2>3 DEF Step
  <1> QED BY <1>1, <1>2 DEF MailTyped, Attempts

(* A conversation that fails is the last, or the first not refused. *)
LEMMA MailFails ==
    ASSUME MailInv, sent = "pending", mode = "gmail-smtp", UNCHANGED <<mode, recipientValid, texts>>,
           \/ Fails(FALSE) /\ UNCHANGED refusals
           \/ Fails(TRUE) /\ refusals' = refusals \cup {attempt}
    PROVE  MailInv'
  <1>1. CASE attempt' = "startTls" /\ position' = 1 /\ UNCHANGED <<sent, refusals>>
    <2>1. MailTyped'
      BY <1>1 DEF MailInv, MailTyped, Attempts
    <2>2. Step' = "greeting"
      BY <1>1, Scripts DEF Step
    <2> QED BY <1>1, <2>1, <2>2 DEF MailInv, MailOnce, MailTold, MailAddressed
  <1>2. CASE /\ sent' = "rejected" /\ UNCHANGED <<attempt, position>>
             /\ refusals' \in {refusals, refusals \cup {attempt}}
    BY <1>2 DEF MailInv, MailTyped, MailOnce, MailTold, MailAddressed
  <1> QED BY <1>1, <1>2 DEF Fails

LEMMA MailAdvances ==
    ASSUME MailInv, sent = "pending", mode = "gmail-smtp", UNCHANGED <<mode, recipientValid, refusals>>,
           Step = "text" => texts[attempt] = "accepted", Advances
    PROVE  MailInv'
  <1> DEFINE next == Script(attempt)[position + 1]
  <1>1. CASE Step = "QUIT"
    <2>1. sent' = "resolved" /\ UNCHANGED <<attempt, position, texts>>
      BY <1>1 DEF Advances
    <2> QED BY <1>1, <2>1 DEF MailInv, MailTyped, MailOnce, MailTold, MailAddressed
  <1>2. CASE Step # "QUIT" /\ next = "RCPT" /\ ~recipientValid
    <2>1. Fails(FALSE) /\ UNCHANGED texts
      BY <1>2 DEF Advances
    <2> QED BY <2>1, MailFails
  <1>3. CASE Step # "QUIT" /\ ~(next = "RCPT" /\ ~recipientValid)
    <2>1. /\ position' = position + 1 /\ UNCHANGED <<attempt, sent>>
          /\ texts' = IF next = "text" THEN [texts EXCEPT ![attempt] = "written"] ELSE texts
      BY <1>3 DEF Advances
    <2>2. Step' = next
      BY <2>1 DEF Step
    <2>3. /\ position < (IF attempt = "implicitTls" THEN 8 ELSE 11)
          /\ next = "QUIT" => Step = "text"
          /\ position = (IF attempt = "implicitTls" THEN 4 ELSE 7) => next = "RCPT"
          /\ position < (IF attempt = "implicitTls" THEN 4 ELSE 7) => next # "text"
      BY <1>3, Positions DEF MailInv, MailTyped
    <2>4. texts' \in [Attempts -> {"unsent", "written", "accepted", "refused"}]
          /\ \A a \in Attempts : a # attempt => texts'[a] = texts[a]
      BY <2>1 DEF MailInv, MailTyped
    <2>5. MailTyped'
      BY <2>1, <2>3, <2>4 DEF MailInv, MailTyped
    <2>6. MailOnce'
      BY <2>1, <2>4 DEF MailInv, MailOnce, Attempts
    <2>7. MailTold'
      BY <2>1, <2>2, <2>3 DEF MailInv, MailTold
    <2>8. MailAddressed'
      BY <1>3, <2>1, <2>3 DEF MailInv, MailAddressed, MailTyped
    <2> QED BY <2>5, <2>6, <2>7, <2>8 DEF MailInv
  <1> QED BY <1>1, <1>2, <1>3

LEMMA MailSteps ==
    ASSUME MailInv, [MailNext]_mailVars
    PROVE  MailInv'
  <1>1. CASE UNCHANGED mailVars
    BY <1>1 DEF mailVars, MailInv, MailTyped, MailOnce, MailTold, MailAddressed, Step
  <1>2. ASSUME NEW c \in Codes, LineOfMore(c) PROVE MailInv'
    BY <1>2 DEF LineOfMore, MailInv, MailTyped, MailOnce, MailTold, MailAddressed, Step
  <1>3. ASSUME NEW c \in Codes, LastLine(c) PROVE MailInv'
    <2>1. CASE c \in Expected(Step)
      <3>1. Step = "text" => texts[attempt] = "accepted"
        BY <1>3, <2>1 DEF LastLine, Says
      <3> QED BY <1>3, <2>1, <3>1, MailAdvances DEF LastLine, Waiting
    <2>2. CASE c \notin Expected(Step)
      BY <1>3, <2>2, MailFails DEF LastLine, Waiting
    <2> QED BY <2>1, <2>2
  <1>4. CASE Secured
    <2>1. attempt = "startTls" /\ position = 4
      BY <1>4, Positions DEF Secured, MailInv
    <2>2. Step' = "EHLO"
      BY <1>4, <2>1, Scripts DEF Secured, Step
    <2> QED BY <1>4, <2>1, <2>2 DEF Secured, MailInv, MailTyped, MailOnce, MailTold, MailAddressed
  <1>5. CASE Breaks
    BY <1>5, MailFails DEF Breaks, Waiting
  <1>6. ASSUME NEW a \in Attempts, Accepts(a) PROVE MailInv'
    <2>1. PICK t \in {"accepted", "refused"} : texts' = [texts EXCEPT ![a] = t]
      BY <1>6 DEF Accepts
    <2>2. /\ texts[a] = "written"
          /\ UNCHANGED <<mode, recipientValid, attempt, position, code, sent, refusals>>
      BY <1>6 DEF Accepts
    <2>3. /\ texts' \in [Attempts -> {"unsent", "written", "accepted", "refused"}]
          /\ \A b \in Attempts : texts[b] # "written" => texts'[b] = texts[b]
      BY <2>1, <2>2 DEF MailInv, MailTyped
    <2>4. ~(~recipientValid /\ mode = "gmail-smtp")
      BY <2>2 DEF MailInv, MailAddressed
    <2>5. Step' = Step
      BY <2>2 DEF Step
    <2> QED BY <2>2, <2>3, <2>4, <2>5 DEF MailInv, MailTyped, MailOnce, MailTold, MailAddressed, Attempts
  <1>7. ASSUME NEW took \in BOOLEAN, NEW answer \in {"resolved", "rejected"}, Handed(took, answer)
        PROVE  MailInv'
    <2>1. /\ mode # "gmail-smtp" /\ attempt = "implicitTls" /\ (answer = "resolved" => took)
          /\ sent' = answer
          /\ texts' = IF took THEN [texts EXCEPT !["implicitTls"] = "accepted"] ELSE texts
          /\ sent = "pending" /\ UNCHANGED <<mode, recipientValid, attempt, position, code, refusals>>
      BY <1>7 DEF Handed, MailInv, MailOnce
    <2>2. /\ texts' \in [Attempts -> {"unsent", "written", "accepted", "refused"}]
          /\ texts'["startTls"] = texts["startTls"] /\ (took => texts'["implicitTls"] = "accepted")
      BY <2>1 DEF MailInv, MailTyped, Attempts
    <2>3. MailTyped'
      BY <2>1, <2>2 DEF MailInv, MailTyped
    <2>4. MailOnce' /\ MailAddressed'
      BY <2>1, <2>2 DEF MailInv, MailOnce, MailAddressed
    <2>5. MailTold'
      BY <2>1, <2>2 DEF MailTold
    <2> QED BY <2>3, <2>4, <2>5 DEF MailInv
  <1> QED BY <1>1, <1>2, <1>3, <1>4, <1>5, <1>6, <1>7 DEF MailNext

-----------------------------------------------------------------------------
(* What a page has seen stays so: outcomes, mails and signatures are kept,    *)
(* and a challenge's number is not given twice.                               *)
Lasting ==
    /\ ClaimIsFinalStep /\ DecisionIsFinalStep /\ invitationCount <= invitationCount'
    /\ \A i \in IIds : invitations[i].state = "SENT" => invitations'[i].state \in {"SENT", "CLAIMED"}
    /\ mailbox \subseteq mailbox' /\ signatures \subseteq signatures'
    /\ challengeCount <= challengeCount'
    /\ \A c \in CIds : c <= challengeCount =>
           \/ challenges'[c] = NoChallenge
           \/ challenges[c] # NoChallenge /\ challenges'[c].wallet = challenges[c].wallet
                                          /\ challenges'[c].proof = challenges[c].proof

LEMMA StepForward == OnboardingInv /\ [Next]_vars => Forward
  <1> SUFFICES ASSUME OnboardingInv, [Next]_vars PROVE Forward
    OBVIOUS
  <1> QED BY StepMoves, InvitationStep DEF Moves

LEMMA ChallengesLast ==
    ASSUME OnboardingInv, [Next]_vars
    PROVE  /\ challengeCount <= challengeCount'
           /\ \A c \in CIds : c <= challengeCount =>
                \/ challenges'[c] = NoChallenge
                \/ challenges[c] # NoChallenge /\ challenges'[c].wallet = challenges[c].wallet
                                               /\ challenges'[c].proof = challenges[c].proof
  <1>1. /\ challengeCount \in Nat
        /\ challenges \in [CIds -> {NoChallenge} \cup Challenge(invitationCount)]
    BY OnboardingAssumption DEF OnboardingInv, MemoryTypes
  <1>2. CASE UNCHANGED <<challenges, challengeCount>>
    BY <1>1, <1>2
  <1>3. CASE Restart
    BY <1>1, <1>3 DEF Restart
  <1>4. ASSUME NEW a \in Accounts, NEW w \in Wallets, CreateChallenge(a, w)
        PROVE  /\ challengeCount' = challengeCount + 1
               /\ \A c \in CIds : c # challengeCount + 1 => challenges'[c] = challenges[c]
    BY <1>1, <1>4 DEF CreateChallenge, NewChallenge
  <1>5. ASSUME NEW r \in Calls, ChallengeVerified(r)
        PROVE  /\ challengeCount' = challengeCount
               /\ \A c \in CIds :
                    \/ challenges'[c] = challenges[c]
                    \/ challenges[c] # NoChallenge /\ challenges'[c].wallet = challenges[c].wallet
                                                   /\ challenges'[c].proof = challenges[c].proof
    <2>1. calls[r].kind = "verify" /\ challenges' = [challenges EXCEPT ![calls[r].challenge].state = "used"]
          /\ challengeCount' = challengeCount
      BY <1>5 DEF ChallengeVerified, Finish
    <2>2. challenges[calls[r].challenge] # NoChallenge
      BY <2>1 DEF OnboardingInv, CallsLinked
    <2> QED BY <1>1, <2>1, <2>2 DEF Challenge
  <1>6. \/ UNCHANGED <<challenges, challengeCount>> \/ Restart
        \/ \E a \in Accounts, w \in Wallets : CreateChallenge(a, w)
        \/ \E r \in Calls : ChallengeVerified(r)
    <2>1. CASE \/ UNCHANGED vars \/ Tick \/ CreateInvitation
               \/ \E a \in Accounts :
                    \/ CreateAccount(a) \/ CreateApplication(a) \/ Verify(a) \/ Reject(a)
                    \/ \E b \in Accounts : NewSession(a, b)
                    \/ \E w \in Wallets : BindWallet(a, w)
                    \/ \E r \in Calls : Approve(r, a) \/ \E k \in Keys : Resend(r, a, k)
      BY <2>1 DEF vars, memory, Tick, CreateInvitation, CreateAccount, CreateApplication, Verify,
                  Reject, NewSession, BindWallet, Approve, Resend
    <2>2. CASE \E a \in Accounts : \E m \in mailbox : Claim(a, m)
      BY <2>2 DEF Claim
    <2>3. CASE \E r \in Calls :
                 \/ MailArrives(r) \/ ApproveSent(r) \/ ApproveFailed(r) \/ ResendSent(r)
                 \/ ResendFailed(r) \/ SendSent(r) \/ SendFailed(r)
                 \/ (\E i \in IIds : Send(r, i)) \/ \E c \in CIds : VerifyChallenge(r, c)
      BY <2>3 DEF memory, MailArrives, ApproveSent, ApproveFailed, ResendSent, ResendFailed, SendSent,
                  SendFailed, Send, VerifyChallenge
    <2> QED BY <2>1, <2>2, <2>3 DEF Next
  <1> QED BY <1>1, <1>2, <1>3, <1>4, <1>5, <1>6

LEMMA MailLasts ==
    ASSUME [Next]_vars
    PROVE  mailbox \subseteq mailbox' /\ signatures \subseteq signatures'
  <1>1. CASE \/ UNCHANGED vars \/ Tick \/ Restart \/ CreateInvitation
             \/ \E a \in Accounts :
                  \/ CreateAccount(a) \/ CreateApplication(a) \/ Verify(a) \/ Reject(a)
                  \/ \E b \in Accounts : NewSession(a, b)
                  \/ \E r \in Calls : Approve(r, a) \/ \E k \in Keys : Resend(r, a, k)
    BY <1>1 DEF vars, mail, Tick, Restart, CreateInvitation, CreateAccount, CreateApplication, Verify,
                Reject, NewSession, Approve, Resend
  <1>2. CASE \E a \in Accounts : \/ \E m \in mailbox : Claim(a, m)
                                 \/ \E w \in Wallets : CreateChallenge(a, w) \/ BindWallet(a, w)
    BY <1>2 DEF mail, Claim, CreateChallenge, NewChallenge, BindWallet
  <1>3. CASE \E r \in Calls :
               \/ MailArrives(r) \/ ApproveSent(r) \/ ApproveFailed(r) \/ ResendSent(r)
               \/ ResendFailed(r) \/ SendSent(r) \/ SendFailed(r) \/ ChallengeVerified(r)
               \/ (\E i \in IIds : Send(r, i)) \/ \E c \in CIds : VerifyChallenge(r, c)
    BY <1>3 DEF mail, MailArrives, ApproveSent, ApproveFailed, ResendSent, ResendFailed, SendSent,
                SendFailed, ChallengeVerified, Send, VerifyChallenge
  <1> QED BY <1>1, <1>2, <1>3 DEF Next

LEMMA StepLasts == OnboardingInv /\ [Next]_vars => Lasting
  <1> SUFFICES ASSUME OnboardingInv, [Next]_vars PROVE Lasting
    OBVIOUS
  <1>1. ClaimIsFinalStep /\ DecisionIsFinalStep /\ Forward
    BY StepMoves, MovesKeep, StepForward
  <1>2. ASSUME NEW i \in IIds, invitations[i].state = "SENT" PROVE i \in 1..invitationCount
    BY <1>2, OnboardingAssumption DEF OnboardingInv, Numbered, NoInvitation, InvitationTypes, IIds
  <1> QED BY <1>1, <1>2, ChallengesLast, MailLasts DEF Lasting, Forward

-----------------------------------------------------------------------------
(* The page of an invitation's link. *)
PagePhases == {"idle", "network", "account", "nonce", "signature", "verification", "registration",
               "registered"}

(* What is shown, and what an answer under way will show, was so. *)
Shown(v) ==
    v # Nothing =>
        /\ link \in mailbox
        /\ v.state = "CLAIMED" => invitations[link[1]].state = "CLAIMED"
        /\ v.funded => link[1] \in funded

PageTypes ==
    /\ cookie \in Accounts /\ wallet \in Wallets \cup {NoWallet} /\ phase \in PagePhases
    /\ DOMAIN gets = Gets
    /\ link # NoLink \/ phase # "idle" => link \in mailbox
    /\ phase = "nonce" => wallet \in Wallets
ShowsTruth == Shown(invitation) /\ Shown(reply) /\ \A g \in Gets : Shown(gets[g])
(* The challenge under way is of this wallet and link, and what follows it    *)
(* has the signature.                                                         *)
WalletSigned ==
    /\ phase = "signature" =>
        /\ challenge \in CIds /\ challenge <= challengeCount
        /\ challenges[challenge] # NoChallenge =>
               challenges[challenge].wallet = wallet /\ challenges[challenge].proof = link[1]
    /\ phase \in {"idle", "verification", "registration", "registered"} /\ wallet # NoWallet =>
           <<wallet, link[1]>> \in signatures

PageInv == PageTypes /\ ShowsTruth /\ WalletSigned

LEMMA PageStarts == InvitationPageInit => PageInv
  BY DEF InvitationPageInit, PageInv, PageTypes, ShowsTruth, WalletSigned, Shown, PagePhases

LEMMA PageTrue == PageInv => InvitationPageTellsTheTruth
  <1> SUFFICES ASSUME PageInv PROVE InvitationPageTellsTheTruth
    OBVIOUS
  <1>1. Card = "done" => invitation # Nothing /\ invitation.state = "CLAIMED"
    BY DEF Card
  <1>2. ~Connecting => phase \in {"idle", "registration", "registered"}
    BY DEF PageInv, PageTypes, PagePhases, Connecting
  <1> QED BY <1>1, <1>2 DEF PageInv, ShowsTruth, Shown, WalletSigned, InvitationPageTellsTheTruth

LEMMA LinkNumber == OnboardingInv => \A m \in mailbox : m[1] \in IIds
  BY DEF OnboardingInv, MailTypes

(* While the link stays, what was so is so. *)
LEMMA ShownLasts ==
    ASSUME OnboardingInv, Lasting, link' = link, funded \subseteq funded'
    PROVE  \A v : Shown(v) => Shown(v)'
  <1> SUFFICES ASSUME NEW v, Shown(v), v # Nothing PROVE Shown(v)'
    BY DEF Shown
  <1>1. link \in mailbox /\ link[1] \in IIds
    BY LinkNumber DEF Shown
  <1> QED BY <1>1 DEF Shown, Lasting, ClaimIsFinalStep

LEMMA SignedLasts ==
    ASSUME OnboardingInv, OnboardingInv', Lasting, PageInv, UNCHANGED <<link, wallet, phase, challenge>>
    PROVE  WalletSigned'
  <1>1. challengeCount \in Nat /\ challengeCount' \in Nat /\ challengeCount <= challengeCount'
    BY OnboardingAssumption DEF OnboardingInv, MemoryTypes, Lasting
  <1>2. ASSUME phase = "signature"
        PROVE  /\ challenge \in CIds /\ challenge <= challengeCount'
               /\ challenges'[challenge] # NoChallenge =>
                    challenges'[challenge].wallet = wallet /\ challenges'[challenge].proof = link[1]
    <2>1. challenge \in CIds /\ challenge <= challengeCount /\ challenge \in Nat
      BY <1>2, OnboardingAssumption DEF PageInv, WalletSigned, CIds
    <2>2. challenge <= challengeCount'
      BY <1>1, <2>1
    <2>3. \/ challenges'[challenge] = NoChallenge
          \/ /\ challenges[challenge] # NoChallenge
             /\ challenges'[challenge].wallet = challenges[challenge].wallet
             /\ challenges'[challenge].proof = challenges[challenge].proof
      BY <2>1 DEF Lasting
    <2> QED BY <1>2, <2>1, <2>2, <2>3 DEF PageInv, WalletSigned
  <1>3. signatures \subseteq signatures'
    BY DEF Lasting
  <1> QED BY <1>2, <1>3 DEF PageInv, WalletSigned

(* A step that leaves the page as it is. *)
LEMMA PageKept ==
    ASSUME OnboardingInv, OnboardingInv', Lasting, PageInv, UNCHANGED pageVars
    PROVE  PageInv'
  <1>1. UNCHANGED <<funded, cookie, link, invitation, wallet, phase, challenge, gets, reply>>
    BY DEF pageVars
  <1>2. PageTypes'
    BY <1>1 DEF PageInv, PageTypes, Lasting
  <1>3. ShowsTruth'
    BY <1>1, ShownLasts DEF PageInv, ShowsTruth
  <1> QED BY <1>1, <1>2, <1>3, SignedLasts DEF PageInv

(* The page's requests are handled like any others. *)
LEMMA PageRequests ==
    ASSUME OnboardingInv, PageInv, InvitationPageNext
    PROVE  [Next]_vars
  <1>1. cookie \in Accounts
    BY DEF PageInv, PageTypes
  <1>2. CASE \/ \E m \in mailbox : OpenPage(m)
             \/ \E g \in Gets : Inspect(g) \/ InspectAnswered(g)
             \/ Connect \/ NetworkSwitched \/ (\E w \in Wallets : AccountGiven(w))
             \/ ConnectFailed \/ ClaimClicked \/ ClaimAnswered \/ ClaimFailed
             \/ \E i \in IIds : Fund(i)
    BY <1>2 DEF OpenPage, Inspect, InspectAnswered, Connect, NetworkSwitched, AccountGiven,
                ConnectFailed, ClaimClicked, ClaimAnswered, ClaimFailed, Fund
  <1>3. CASE \E b \in Accounts : NewCookie(b)
    BY <1>3 DEF NewCookie, Next
  <1>4. CASE ChallengeGiven
    <2>1. wallet \in Wallets /\ link \in mailbox
      BY <1>4 DEF ChallengeGiven, PageInv, PageTypes
    <2>2. CreateChallenge(cookie, wallet)
      BY <1>4, <2>1 DEF ChallengeGiven, CreateChallenge
    <2> QED BY <1>1, <2>1, <2>2 DEF Next
  <1>5. ASSUME NEW r \in Calls, MessageSigned(r) PROVE Next
    <2>1. challenge \in CIds /\ VerifyChallenge(r, challenge)
      BY <1>5 DEF MessageSigned, PageInv, WalletSigned
    <2> QED BY <2>1 DEF Next
  <1>6. ASSUME NEW r \in Calls, WalletVerified(r) PROVE Next
    BY <1>6 DEF WalletVerified, Next
  <1>7. CASE ClaimHandled
    <2>1. link \in mailbox /\ (Claim(cookie, link) \/ UNCHANGED vars)
      BY <1>7 DEF ClaimHandled, ClaimRepeated, PageInv, PageTypes
    <2> QED BY <1>1, <2>1 DEF Next
  <1> QED BY <1>2, <1>3, <1>4, <1>5, <1>6, <1>7 DEF InvitationPageNext

(* The page's own steps, while others may have changed what it has seen. *)
LEMMA PageMoves ==
    ASSUME OnboardingInv, OnboardingInv', Lasting, PageInv, InvitationPageNext
    PROVE  PageInv'
  <1>1. /\ mailbox \subseteq mailbox' /\ signatures \subseteq signatures'
        /\ \A m \in mailbox : m[1] \in IIds
        /\ \A i \in IIds : invitations[i].state = "CLAIMED" => invitations'[i].state = "CLAIMED"
    BY LinkNumber DEF Lasting, ClaimIsFinalStep
  <1>2. cookie \in Accounts /\ DOMAIN gets = Gets /\ wallet \in Wallets \cup {NoWallet}
    BY DEF PageInv, PageTypes
  <1>3. ASSUME NEW m \in mailbox, OpenPage(m) PROVE PageInv'
    <2>1. /\ link' = m /\ invitation' = Nothing /\ wallet' = NoWallet /\ phase' = "idle"
          /\ gets' = [g \in Gets |-> Nothing] /\ reply' = Nothing /\ UNCHANGED <<funded, cookie>>
      BY <1>3 DEF OpenPage
    <2> QED BY <1>1, <1>2, <2>1 DEF PageInv, PageTypes, ShowsTruth, Shown, WalletSigned, PagePhases
  (* The rest keeps the link. *)
  <1>4. ASSUME link' = link, funded \subseteq funded', ShowsTruth', cookie' \in Accounts,
               DOMAIN gets' = Gets, WalletSigned', wallet' \in Wallets \cup {NoWallet},
               phase' \in PagePhases, phase' # "idle" => link \in mailbox,
               phase' = "nonce" => wallet' \in Wallets
        PROVE  PageInv'
    BY <1>1, <1>4 DEF PageInv, PageTypes
  <1>5. ASSUME UNCHANGED <<link, invitation, gets, reply>>, funded \subseteq funded' PROVE ShowsTruth'
    BY <1>5, ShownLasts DEF PageInv, ShowsTruth
  <1>6. ASSUME NEW g \in Gets, Inspect(g) PROVE PageInv'
    <2>1. /\ link # NoLink /\ gets' = [gets EXCEPT ![g] = Inspected(link)]
          /\ UNCHANGED <<vars, funded, cookie, link, invitation, wallet, phase, challenge, reply>>
      BY <1>6 DEF Inspect
    <2>2. link \in mailbox
      BY <2>1 DEF PageInv, PageTypes
    <2>3. Shown(Inspected(link))
      BY <2>2 DEF Shown, Inspected, PublicInvitation
    <2>4. \A h \in Gets : Shown(gets'[h])
      <3> SUFFICES ASSUME NEW h \in Gets PROVE Shown(gets'[h])
        OBVIOUS
      <3>1. gets'[h] = IF h = g THEN Inspected(link) ELSE gets[h]
        BY <1>2, <2>1
      <3> QED BY <2>3, <3>1 DEF PageInv, ShowsTruth
    <2>5. \A v : Shown(v) => Shown(v)'
      BY <2>1, ShownLasts
    <2>6. ShowsTruth'
      BY <2>1, <2>4, <2>5 DEF PageInv, ShowsTruth
    <2>7. WalletSigned'
      BY <2>1 DEF PageInv, WalletSigned, vars, memory
    <2> QED BY <1>2, <1>4, <2>1, <2>2, <2>6, <2>7 DEF PageInv, PageTypes
  <1>7. ASSUME NEW g \in Gets, InspectAnswered(g) PROVE PageInv'
    <2>1. /\ invitation' \in {gets[g], invitation} /\ gets' = [gets EXCEPT ![g] = Nothing]
          /\ UNCHANGED <<vars, funded, cookie, link, wallet, phase, challenge, reply>>
      BY <1>7 DEF InspectAnswered
    <2>2. \A v : Shown(v) => Shown(v)'
      BY <2>1, ShownLasts
    <2>3. Shown(Nothing)' /\ \A h \in Gets : gets'[h] \in {gets[h], Nothing}
      BY <1>2, <2>1 DEF Shown
    <2>4. ShowsTruth'
      BY <2>1, <2>2, <2>3 DEF PageInv, ShowsTruth
    <2>5. WalletSigned'
      BY <2>1 DEF PageInv, WalletSigned, vars, memory
    <2> QED BY <1>2, <1>4, <2>1, <2>4, <2>5 DEF PageInv, PageTypes
  (* The wallet, and its challenge. *)
  <1>8. CASE Connect \/ NetworkSwitched \/ ConnectFailed
    <2>1. /\ phase' \in {"network", "account", "idle"} /\ (phase' = "idle" => wallet' = NoWallet)
          /\ wallet' \in {wallet, NoWallet}
          /\ UNCHANGED <<vars, funded, cookie, link, invitation, challenge, gets, reply>>
      BY <1>8 DEF Connect, NetworkSwitched, ConnectFailed, WalletAfterFailure
    <2>2. Connect => invitation # Nothing
      BY DEF Connect, Card
    <2>3. link \in mailbox
      BY <1>8, <2>2 DEF NetworkSwitched, ConnectFailed, Connecting, PageInv, PageTypes, ShowsTruth, Shown
    <2>4. WalletSigned'
      BY <2>1 DEF WalletSigned
    <2>5. phase' \in PagePhases /\ phase' # "nonce"
      BY <2>1 DEF PagePhases
    <2> QED BY <1>2, <1>4, <1>5, <2>1, <2>3, <2>4, <2>5
  <1>9. ASSUME NEW w \in Wallets, AccountGiven(w) PROVE PageInv'
    <2>1. /\ phase = "account" /\ phase' = "nonce" /\ wallet' = w
          /\ UNCHANGED <<vars, funded, cookie, link, invitation, challenge, gets, reply>>
      BY <1>9 DEF AccountGiven
    <2>2. WalletSigned' /\ phase' \in PagePhases /\ link \in mailbox
      BY <2>1 DEF WalletSigned, PagePhases, PageInv, PageTypes
    <2> QED BY <1>2, <1>4, <1>5, <2>1, <2>2
  <1>10. CASE ChallengeGiven
    <2>1. /\ phase = "nonce" /\ phase' = "signature" /\ challenge' = challengeCount + 1
          /\ NewChallenge(cookie, wallet, link[1])
          /\ UNCHANGED <<funded, cookie, link, invitation, wallet, gets, reply>>
      BY <1>10 DEF ChallengeGiven
    <2>2. /\ challengeCount \in 0..MaxChallenges /\ MaxChallenges \in Nat /\ challengeCount < MaxChallenges
          /\ challengeCount' = challengeCount + 1 /\ DOMAIN challenges = CIds
          /\ challenges' = [challenges EXCEPT ![challengeCount + 1] =
                 [state |-> "unused", account |-> cookie, wallet |-> wallet, proof |-> link[1],
                  expiresAt |-> now + ChallengeTTL]]
      BY <2>1, OnboardingAssumption DEF NewChallenge, OnboardingInv, MemoryTypes
    <2>3. challenge' \in CIds /\ challenge' = challengeCount'
      BY <2>1, <2>2 DEF CIds
    <2>4. challenges'[challenge'] = [state |-> "unused", account |-> cookie, wallet |-> wallet,
                                     proof |-> link[1], expiresAt |-> now + ChallengeTTL]
      BY <2>1, <2>2, <2>3
    <2>5. challenges'[challenge'].wallet = wallet /\ challenges'[challenge'].proof = link[1]
      BY <2>4
    <2>6. challenge' <= challengeCount'
      BY <2>2, <2>3
    <2>7. WalletSigned'
      BY <2>1, <2>3, <2>5, <2>6 DEF WalletSigned
    <2>8. phase' \in PagePhases /\ link \in mailbox
      BY <2>1 DEF PagePhases, PageInv, PageTypes
    <2> QED BY <1>2, <1>4, <1>5, <2>1, <2>7, <2>8
  <1>11. ASSUME NEW r \in Calls, MessageSigned(r) PROVE PageInv'
    <2>1. /\ phase = "signature" /\ phase' = "verification" /\ VerifyChallenge(r, challenge)
          /\ UNCHANGED <<funded, cookie, link, invitation, wallet, challenge, gets, reply>>
      BY <1>11 DEF MessageSigned
    <2>2. challenges[challenge] # NoChallenge
      BY <2>1 DEF VerifyChallenge, NoChallenge
    <2>3. <<wallet, link[1]>> \in signatures'
      BY <2>1, <2>2 DEF VerifyChallenge, PageInv, WalletSigned
    <2>4. WalletSigned' /\ phase' \in PagePhases /\ link \in mailbox
      BY <2>1, <2>3 DEF WalletSigned, PagePhases, PageInv, PageTypes
    <2> QED BY <1>2, <1>4, <1>5, <2>1, <2>4
  <1>12. ASSUME \/ \E r \in Calls : WalletVerified(r)
                \/ ClaimClicked \/ ClaimFailed
                \/ \E i \in IIds : Fund(i)
                \/ \E b \in Accounts : NewCookie(b)
         PROVE  /\ UNCHANGED <<link, invitation, wallet, challenge, gets>>
                /\ reply' \in {reply, Nothing} /\ cookie' \in Accounts /\ funded \subseteq funded'
                /\ \/ phase' = phase
                   \/ phase = "verification" /\ phase' = "idle"
                   \/ phase = "idle" /\ phase' = "registration" /\ invitation # Nothing
                   \/ phase \in {"registration", "registered"} /\ phase' = "idle"
    BY <1>2, <1>12 DEF WalletVerified, ClaimClicked, ClaimFailed, Registering, Card, Fund, NewCookie
  <1>13. CASE \/ \E r \in Calls : WalletVerified(r)
              \/ ClaimClicked \/ ClaimFailed
              \/ \E i \in IIds : Fund(i)
              \/ \E b \in Accounts : NewCookie(b)
    <2>1. Shown(reply)' /\ ShowsTruth'
      <3>1. \A v : Shown(v) => Shown(v)'
        BY <1>12, <1>13, ShownLasts
      <3>2. Shown(Nothing)'
        BY DEF Shown
      <3> QED BY <1>12, <1>13, <3>1, <3>2 DEF PageInv, ShowsTruth
    <2>2. WalletSigned'
      <3>1. CASE phase' = phase
        BY <1>12, <1>13, <3>1, SignedLasts
      <3>2. CASE phase' # phase
        BY <1>1, <1>12, <1>13, <3>2 DEF PageInv, WalletSigned
      <3> QED BY <3>1, <3>2
    <2>3. /\ phase' \in PagePhases /\ (phase' # "idle" => link \in mailbox)
          /\ (phase' = "nonce" => wallet' \in Wallets) /\ wallet' \in Wallets \cup {NoWallet}
      BY <1>12, <1>13 DEF PageInv, PageTypes, PagePhases, ShowsTruth, Shown
    <2>4. cookie' \in Accounts /\ DOMAIN gets' = Gets /\ link' = link /\ funded \subseteq funded'
      BY <1>2, <1>12, <1>13
    <2> QED BY <1>4, <2>1, <2>2, <2>3, <2>4
  (* The claim and its answer. *)
  <1>14. CASE ClaimHandled
    <2>1. /\ phase = "registration" /\ phase' = "registered"
          /\ Claim(cookie, link) \/ ClaimRepeated(link)
          /\ reply' = [state |-> "CLAIMED", expired |-> FALSE, funded |-> link[1] \in funded]
          /\ UNCHANGED <<funded, cookie, link, invitation, wallet, challenge, gets>>
      BY <1>14 DEF ClaimHandled, PublicInvitation
    <2>2. link \in mailbox /\ link[1] \in IIds
      BY <1>1, <2>1 DEF PageInv, PageTypes
    <2>3. invitations'[link[1]].state = "CLAIMED"
      <3>1. CASE ClaimRepeated(link)
        BY <3>1 DEF ClaimRepeated, vars, rows
      <3>2. CASE Claim(cookie, link)
        BY <2>2, <3>2 DEF Claim, OnboardingInv, InvitationTypes, Invitation
      <3> QED BY <2>1, <3>1, <3>2
    <2>4. Shown(reply)'
      BY <1>1, <2>1, <2>2, <2>3 DEF Shown
    <2>5. \A v : Shown(v) => Shown(v)'
      BY <2>1, ShownLasts
    <2>6. ShowsTruth'
      BY <2>1, <2>4, <2>5 DEF PageInv, ShowsTruth
    <2>7. WalletSigned' /\ phase' \in PagePhases
      BY <1>1, <2>1 DEF PageInv, WalletSigned, PagePhases
    <2> QED BY <1>2, <1>4, <2>1, <2>2, <2>6, <2>7
  <1>15. CASE ClaimAnswered
    <2>1. /\ phase = "registered" /\ invitation' = reply /\ phase' = "idle" /\ reply' = Nothing
          /\ UNCHANGED <<vars, funded, cookie, link, wallet, challenge, gets>>
      BY <1>15 DEF ClaimAnswered
    <2>2. \A v : Shown(v) => Shown(v)'
      BY <2>1, ShownLasts
    <2>3. Shown(Nothing)'
      BY DEF Shown
    <2>4. ShowsTruth'
      BY <2>1, <2>2, <2>3 DEF PageInv, ShowsTruth
    <2>5. WalletSigned' /\ phase' \in PagePhases
      BY <1>1, <2>1 DEF PageInv, WalletSigned, PagePhases
    <2> QED BY <1>2, <1>4, <2>1, <2>4, <2>5
  <1> QED BY <1>3, <1>6, <1>7, <1>8, <1>9, <1>10, <1>11, <1>13, <1>14, <1>15 DEF InvitationPageNext

-----------------------------------------------------------------------------
(* The applicant's and the administrator's pages. *)
InvitationStates == {"none", "CREATED", "SENT", "CLAIMED"}
Confirmed == {"APPROVED_INVITATION_SENT", "INVITATION_CLAIMED"}

(* A line that is or will be shown: its outcome is its application's, and a   *)
(* registration it confirms is of an application approved and claimed.        *)
Line(v) ==
    v # NoLine =>
        /\ v.owner \in Accounts
        /\ v.state \in Outcomes => applications[v.owner].state = v.state
        /\ v.view.status = "REGISTRATION_CONFIRMED" =>
               /\ applications[v.owner].state \in Confirmed
               /\ applications[v.owner].invitation \in IIds
               /\ invitations[applications[v.owner].invitation].state = "CLAIMED"

ReviewTypes ==
    /\ session \in Accounts
    /\ listed \in [applications : [Accounts -> Decisions], invitations : [IIds -> InvitationStates]]
    /\ issued \in 0..invitationCount
LinesTrue == Line(application) /\ (poll # <<>> => Line(poll[1]))
ListsTrue ==
    /\ \A a \in Accounts :
        listed.applications[a] \in Outcomes => applications[a].state = listed.applications[a]
    /\ \A i \in IIds : listed.invitations[i] = "CLAIMED" => invitations[i].state = "CLAIMED"
LinkMailed ==
    /\ task.kind = "issued" => issued # 0
    /\ mailed => issued # 0 /\ invitations[issued].state \in {"SENT", "CLAIMED"}

ReviewInv == ReviewTypes /\ LinesTrue /\ ListsTrue /\ LinkMailed

LEMMA ReviewStarts == OnboardingInv /\ ReviewPagesInit => ReviewInv
  <1> SUFFICES ASSUME OnboardingInv, ReviewPagesInit PROVE ReviewInv
    OBVIOUS
  <1>1. invitationCount \in Nat
    BY OnboardingAssumption DEF OnboardingInv, InvitationTypes
  <1> QED BY <1>1 DEF ReviewPagesInit, ReviewInv, ReviewTypes, LinesTrue, Line, ListsTrue, LinkMailed,
                      NoTask, Outcomes, Decisions, InvitationStates

LEMMA ReviewTrue == ReviewInv => ReviewPagesTellTheTruth
  BY DEF ReviewInv, LinesTrue, Line, ListsTrue, LinkMailed, ReviewPagesTellTheTruth

(* What a handler answers is so when it is answered. *)
AnswersTrue == \A a \in Accounts : Line(PublicApplication(a))

LEMMA LineAnswered == OnboardingInv => AnswersTrue
  <1> SUFFICES ASSUME OnboardingInv, NEW a \in Accounts, applications[a].state # "none"
               PROVE  Line(PublicApplication(a))
    BY DEF PublicApplication, Line, AnswersTrue
  <1> DEFINE s == applications[a].state
             i == applications[a].invitation
             view == ParticipantView(a)
  <1>1. PublicApplication(a) = [owner |-> a, state |-> s, view |-> view]
    BY DEF PublicApplication
  <1>2. s \in Decisions
    BY DEF OnboardingInv, ApplicationTypes, Application
  <1>3. s \in Confirmed => i \in IIds
    <2>1. s \in Confirmed => i \in 1..invitationCount
      BY DEF Confirmed, OnboardingInv, Linked, ApplicationTellsTheTruth, ApplicationTypes
    <2> QED BY <2>1, OnboardingAssumption DEF OnboardingInv, InvitationTypes, IIds
  <1>4. view.status = "REGISTRATION_CONFIRMED" => s \in Confirmed /\ invitations[i].state = "CLAIMED"
    BY <1>2 DEF ParticipantView, View, Decisions, Confirmed, OnboardingInv, ApplicationTellsTheTruth
  <1> HIDE DEF view
  <1> QED BY <1>1, <1>3, <1>4 DEF Line

LEMMA LineAnsweredNext == OnboardingInv' => AnswersTrue'
  BY LineAnswered, PTL

LEMMA LineLasts ==
    ASSUME OnboardingInv, Lasting
    PROVE  \A v : Line(v) => Line(v)'
  <1> SUFFICES ASSUME NEW v, Line(v), v # NoLine PROVE Line(v)'
    BY DEF Line
  <1>1. v.owner \in Accounts
    BY DEF Line
  <1>2. v.state \in Outcomes => applications'[v.owner].state = v.state
    BY <1>1 DEF Line, Outcomes, Lasting, DecisionIsFinalStep
  <1>3. ASSUME v.view.status = "REGISTRATION_CONFIRMED"
        PROVE  /\ applications'[v.owner].state \in Confirmed
               /\ applications'[v.owner].invitation \in IIds
               /\ invitations'[applications'[v.owner].invitation].state = "CLAIMED"
    <2>1. /\ applications[v.owner].state \in Confirmed
          /\ applications[v.owner].invitation \in IIds
          /\ invitations[applications[v.owner].invitation].state = "CLAIMED"
      BY <1>3 DEF Line
    <2>2. /\ applications'[v.owner].state \in Confirmed
          /\ applications'[v.owner].invitation = applications[v.owner].invitation
      BY <1>1, <2>1 DEF Confirmed, Lasting, DecisionIsFinalStep
    <2> QED BY <2>1, <2>2 DEF Lasting, ClaimIsFinalStep
  <1> QED BY <1>1, <1>2, <1>3 DEF Line

LEMMA ListsLast ==
    ASSUME OnboardingInv, OnboardingInv', Lasting, ReviewInv
    PROVE  /\ listed' = listed => ListsTrue'
           /\ issued' = issued => issued' \in 0..invitationCount'
           /\ mailed => invitations'[issued].state \in {"SENT", "CLAIMED"}
  <1>1. /\ invitationCount \in 0..MaxInvitations /\ invitationCount' \in Nat /\ MaxInvitations \in Nat
        /\ invitationCount <= invitationCount'
    BY OnboardingAssumption DEF OnboardingInv, InvitationTypes, Lasting
  <1>2. issued \in 0..invitationCount /\ issued \in 0..invitationCount'
    BY <1>1 DEF ReviewInv, ReviewTypes
  <1>3. ASSUME listed' = listed PROVE ListsTrue'
    BY <1>3 DEF ReviewInv, ListsTrue, Outcomes, Lasting, DecisionIsFinalStep, ClaimIsFinalStep
  <1>4. mailed => invitations'[issued].state \in {"SENT", "CLAIMED"}
    <2>1. mailed => issued \in IIds
      BY <1>1, <1>2 DEF ReviewInv, LinkMailed, IIds
    <2> QED BY <2>1 DEF ReviewInv, LinkMailed, Lasting, ClaimIsFinalStep
  <1> QED BY <1>2, <1>3, <1>4

(* A step that leaves these pages as they are. *)
LEMMA ReviewKept ==
    ASSUME OnboardingInv, OnboardingInv', Lasting, ReviewInv, UNCHANGED reviewVars
    PROVE  ReviewInv'
  <1>1. UNCHANGED <<session, application, poll, listed, task, issued, mailed>>
    BY DEF reviewVars, applicantVars, adminVars
  <1>2. LinesTrue'
    BY <1>1, LineLasts DEF ReviewInv, LinesTrue
  <1>3. ListsTrue' /\ LinkMailed' /\ ReviewTypes'
    BY <1>1, ListsLast DEF ReviewInv, LinkMailed, ReviewTypes
  <1> QED BY <1>2, <1>3 DEF ReviewInv

(* The pages' requests are handled like any others. *)
LEMMA ReviewRequests ==
    ASSUME OnboardingInv, ReviewInv, ApplicantNext \/ AdminNext
    PROVE  [Next]_vars
  <1>1. session \in Accounts
    BY DEF ReviewInv, ReviewTypes
  <1>2. CASE LoadCurrent \/ Loaded \/ LoadApplications \/ LoadInvitations \/ TaskEnded
    BY <1>2 DEF LoadCurrent, Loaded, LoadApplications, LoadInvitations, TaskEnded
  <1>3. CASE SubmitApplication
    BY <1>1, <1>3 DEF SubmitApplication, Next
  <1>4. ASSUME NEW a \in Accounts, StartAnotherApplication(a) \/ VerifyFromEmail(a) \/ RejectApplication(a)
        PROVE  Next
    BY <1>1, <1>4 DEF StartAnotherApplication, VerifyFromEmail, RejectApplication, Next
  <1>5. ASSUME NEW r \in Calls,
               \/ InvitationResent(r) \/ IssuedSent(r)
               \/ \E k \in Keys : ResendInvitation(r, k)
               \/ \E a \in Accounts : ApproveApplication(r, a)
        PROVE  Next
    BY <1>1, <1>5 DEF InvitationResent, IssuedSent, HandedOver, ResendInvitation, ApproveApplication, Next
  <1>6. CASE IssueInvitation
    BY <1>6 DEF IssueInvitation, Next
  <1>7. ASSUME NEW r \in Calls, SendIssued(r) PROVE Next
    <2>1. issued \in IIds
      BY <1>7, OnboardingAssumption
         DEF SendIssued, ReviewInv, ReviewTypes, LinkMailed, OnboardingInv, InvitationTypes, IIds
    <2> QED BY <1>7, <2>1 DEF SendIssued, Next
  <1> QED BY <1>2, <1>3, <1>4, <1>5, <1>6, <1>7 DEF ApplicantNext, AdminNext

LEMMA ApplicantMoves ==
    ASSUME OnboardingInv, OnboardingInv', Lasting, ReviewInv, ApplicantNext
    PROVE  ReviewInv'
  <1>1. session \in Accounts /\ (\A v : Line(v) => Line(v)') /\ Line(NoLine)'
    BY LineLasts DEF ReviewInv, ReviewTypes, Line
  <1>2. AnswersTrue /\ AnswersTrue'
    BY LineAnswered, LineAnsweredNext
  <1>3. ASSUME NEW a \in Accounts, Answered(a) PROVE Line(application)'
    BY <1>1, <1>2, <1>3 DEF Answered, AnswersTrue, ReviewInv, LinesTrue
  <1>4. UNCHANGED adminVars /\ session' \in Accounts /\ LinesTrue'
    <2>1. CASE LoadCurrent
      <3>1. Line(PublicApplication(session)) /\ poll' = <<PublicApplication(session)>>
        BY <1>1, <1>2, <2>1 DEF LoadCurrent, AnswersTrue
      <3> QED BY <1>1, <2>1, <3>1 DEF LoadCurrent, ReviewInv, LinesTrue
    <2>2. CASE Loaded
      BY <1>1, <2>2 DEF Loaded, ReviewInv, LinesTrue
    <2>3. CASE SubmitApplication
      BY <1>1, <1>3, <2>3 DEF SubmitApplication, ReviewInv, LinesTrue
    <2>4. ASSUME NEW a \in Accounts, StartAnotherApplication(a) PROVE <1>4
      BY <1>1, <2>4 DEF StartAnotherApplication, ReviewInv, LinesTrue
    <2>5. ASSUME NEW a \in Accounts, VerifyFromEmail(a) PROVE <1>4
      BY <1>1, <1>3, <2>5 DEF VerifyFromEmail, ReviewInv, LinesTrue
    <2>6. ASSUME NEW r \in Calls, InvitationResent(r) PROVE <1>4
      BY <1>1, <1>3, <2>6 DEF InvitationResent, ReviewInv, LinesTrue
    <2>7. ASSUME NEW r \in Calls, NEW k \in Keys, ResendInvitation(r, k) PROVE <1>4
      BY <1>1, <2>7 DEF ResendInvitation, reviewVars, applicantVars, ReviewInv, LinesTrue
    <2> QED BY <2>1, <2>2, <2>3, <2>4, <2>5, <2>6, <2>7 DEF ApplicantNext
  <1>5. UNCHANGED <<listed, task, issued, mailed>>
    BY <1>4 DEF adminVars
  <1>6. ListsTrue' /\ LinkMailed' /\ ReviewTypes'
    BY <1>4, <1>5, ListsLast DEF ReviewInv, LinkMailed, ReviewTypes
  <1> QED BY <1>4, <1>6 DEF ReviewInv

LEMMA AdminMoves ==
    ASSUME OnboardingInv, OnboardingInv', Lasting, ReviewInv, AdminNext
    PROVE  ReviewInv'
  <1>1. /\ session \in Accounts /\ LinesTrue /\ ListsTrue /\ LinkMailed
        /\ listed \in [applications : [Accounts -> Decisions], invitations : [IIds -> InvitationStates]]
        /\ issued \in 0..invitationCount
    BY DEF ReviewInv, ReviewTypes
  <1>2. /\ listed' = listed => ListsTrue'
        /\ issued' = issued => issued' \in 0..invitationCount'
        /\ mailed => invitations'[issued].state \in {"SENT", "CLAIMED"}
    BY ListsLast
  (* What an administrator does leaves the applicant's page alone. *)
  <1>3. UNCHANGED applicantVars
    BY DEF AdminNext, LoadApplications, LoadInvitations, ApproveApplication, RejectApplication,
           reviewVars, IssueInvitation, SendIssued, IssuedSent, TaskEnded
  <1>4. session' \in Accounts /\ LinesTrue'
    BY <1>1, <1>3, LineLasts DEF applicantVars, LinesTrue
  <1>5. ASSUME /\ listed' \in [applications : [Accounts -> Decisions],
                              invitations : [IIds -> InvitationStates]]
               /\ ListsTrue' /\ issued' = issued /\ (task'.kind = "issued" => task' = task)
               /\ mailed' = mailed
        PROVE  ReviewInv'
    BY <1>1, <1>2, <1>4, <1>5 DEF ReviewInv, ReviewTypes, LinkMailed
  <1>6. CASE LoadApplications
    <2>1. /\ listed' = [listed EXCEPT !.applications = [a \in Accounts |-> applications[a].state]]
          /\ task' = [kind |-> "load"] /\ UNCHANGED <<vars, issued, mailed>>
      BY <1>6 DEF LoadApplications
    <2>2. [a \in Accounts |-> applications[a].state] \in [Accounts -> Decisions]
      BY DEF OnboardingInv, ApplicationTypes, Application
    <2>3. /\ listed' \in [applications : [Accounts -> Decisions],
                          invitations : [IIds -> InvitationStates]]
          /\ listed'.invitations = listed.invitations
          /\ \A a \in Accounts : listed'.applications[a] = applications[a].state
      BY <1>1, <2>1, <2>2
    <2>4. ListsTrue'
      BY <1>1, <2>1, <2>3 DEF ListsTrue, vars, rows
    <2> QED BY <1>5, <2>1, <2>3, <2>4
  <1>7. CASE LoadInvitations
    <2>1. /\ listed' = [listed EXCEPT !.invitations = [i \in IIds |-> invitations[i].state]]
          /\ task' = NoTask /\ UNCHANGED <<vars, issued, mailed>>
      BY <1>7 DEF LoadInvitations
    <2>2. [i \in IIds |-> invitations[i].state] \in [IIds -> InvitationStates]
      BY DEF OnboardingInv, InvitationTypes, Invitation, InvitationStates
    <2>3. /\ listed' \in [applications : [Accounts -> Decisions],
                          invitations : [IIds -> InvitationStates]]
          /\ listed'.applications = listed.applications
          /\ \A i \in IIds : listed'.invitations[i] = invitations[i].state
      BY <1>1, <2>1, <2>2
    <2>4. ListsTrue'
      BY <1>1, <2>1, <2>3 DEF ListsTrue, vars, rows
    <2>5. task'.kind # "issued"
      BY <2>1 DEF NoTask
    <2> QED BY <1>5, <2>1, <2>3, <2>4, <2>5
  <1>8. CASE \/ TaskEnded
             \/ \E a \in Accounts : RejectApplication(a) \/ \E r \in Calls : ApproveApplication(r, a)
             \/ \E r \in Calls : SendIssued(r)
    <2>1. /\ UNCHANGED <<listed, issued, mailed>>
          /\ \/ task' = task
             \/ task' = NoTask
             \/ \E r \in Calls, k \in {"approve", "send"} : task' = [kind |-> k, call |-> r]
      BY <1>8 DEF TaskEnded, RejectApplication, reviewVars, adminVars, ApproveApplication, SendIssued
    <2>2. task'.kind = "issued" => task' = task
      BY <2>1 DEF NoTask
    <2> QED BY <1>1, <1>2, <1>5, <2>1, <2>2
  <1>9. CASE IssueInvitation
    <2>1. /\ issued' = invitationCount + 1 /\ mailed' = FALSE /\ listed' = listed
          /\ invitationCount' = invitationCount + 1
      BY <1>9 DEF IssueInvitation, CreateInvitation, InvitationCreated
    <2>2. invitationCount \in Nat
      BY OnboardingAssumption DEF OnboardingInv, InvitationTypes
    <2> QED BY <1>1, <1>2, <1>4, <2>1, <2>2 DEF ReviewInv, ReviewTypes, LinkMailed
  <1>10. ASSUME NEW r \in Calls, IssuedSent(r) PROVE ReviewInv'
    <2>1. /\ SendSent(r) /\ calls[r].invitation = issued /\ mailed' = TRUE /\ task' = NoTask
          /\ UNCHANGED <<listed, issued>>
      BY <1>10 DEF IssuedSent, HandedOver
    <2>2. calls[r].kind = "send" /\ invitations' = MarkedSent(issued)
      BY <2>1 DEF SendSent, Finish
    <2>3. issued \in 1..invitationCount /\ issued \in IIds /\ issued # 0
      BY <2>1, <2>2, OnboardingAssumption DEF OnboardingInv, CallsLinked, InvitationTypes, IIds
    <2>4. invitations[issued].state \in {"CREATED", "SENT", "CLAIMED"}
      BY <2>3 DEF OnboardingInv, Numbered, InvitationTypes, Invitation
    <2>5. invitations'[issued].state \in {"SENT", "CLAIMED"}
      BY <2>2, <2>3, <2>4 DEF MarkedSent, Open, OnboardingInv, InvitationTypes, Invitation
    <2> QED BY <1>1, <1>2, <1>4, <2>1, <2>3, <2>5 DEF ReviewInv, ReviewTypes, LinkMailed, NoTask
  <1> QED BY <1>6, <1>7, <1>8, <1>9, <1>10 DEF AdminNext

-----------------------------------------------------------------------------
(* All of it together. *)
RegistrationInv == OnboardingInv /\ PageInv /\ ReviewInv /\ MailInv

LEMMA OnboardsKeeps ==
    ASSUME OnboardingInv, PageInv, ReviewInv, Onboards
    PROVE  [Next]_vars /\ OnboardingInv' /\ PageInv' /\ ReviewInv'
  <1>1. [Next]_vars
    BY PageRequests, ReviewRequests DEF Onboards
  <1>2. OnboardingInv' /\ Lasting
    BY <1>1, StepInv, StepLasts
  <1>3. CASE Next /\ UNCHANGED <<pageVars, reviewVars>>
    BY <1>1, <1>2, <1>3, PageKept, ReviewKept
  <1>4. CASE InvitationPageNext /\ UNCHANGED reviewVars
    BY <1>1, <1>2, <1>4, PageMoves, ReviewKept
  <1>5. CASE (ApplicantNext \/ AdminNext) /\ UNCHANGED pageVars
    BY <1>1, <1>2, <1>5, PageKept, ApplicantMoves, AdminMoves
  <1> QED BY <1>1, <1>2, <1>3, <1>4, <1>5 DEF Onboards

LEMMA RegistrationKeeps ==
    RegistrationInv /\ [RegistrationNext]_registrationVars => RegistrationInv' /\ [Next]_vars
  <1> SUFFICES ASSUME RegistrationInv, [RegistrationNext]_registrationVars
               PROVE  RegistrationInv' /\ [Next]_vars
    OBVIOUS
  <1>1. CASE Onboards /\ UNCHANGED mailVars
    BY <1>1, OnboardsKeeps, MailSteps DEF RegistrationInv
  <1>2. CASE UNCHANGED <<vars, pageVars, reviewVars>> /\ [MailNext]_mailVars
    <2>1. OnboardingInv' /\ Lasting
      BY <1>2, StepInv, StepLasts DEF RegistrationInv
    <2> QED BY <1>2, <2>1, PageKept, ReviewKept, MailSteps DEF RegistrationInv
  <1> QED BY <1>1, <1>2 DEF RegistrationNext, registrationVars

(* Whoever else acts, the pages do to the onboarding what any client may:     *)
(* every step of one is a step of the handlers or leaves them alone.          *)
THEOREM PagesAreClients == RegistrationSpec => Spec
  <1>1. RegistrationInit => Init /\ RegistrationInv
    BY InitInv, PageStarts, ReviewStarts, MailStarts DEF RegistrationInit, RegistrationInv
  <1> QED BY <1>1, RegistrationKeeps, PTL DEF RegistrationSpec, Spec

(* However answers overtake each other or are lost, what the three pages show *)
(* as reached was reached, and a mail whose conversation ends well was taken  *)
(* by the server; side by side with any other clients.                        *)
THEOREM RegistrationSaysWhatIsSo == RegistrationSpec => []WhatIsSaidIsSo
  <1>1. RegistrationInit => RegistrationInv
    BY InitInv, PageStarts, ReviewStarts, MailStarts DEF RegistrationInit, RegistrationInv
  <1>2. RegistrationInv => WhatIsSaidIsSo
    BY PageTrue, ReviewTrue, MailTrue DEF RegistrationInv, WhatIsSaidIsSo
  <1> QED BY <1>1, <1>2, RegistrationKeeps, PTL DEF RegistrationSpec
=============================================================================
