------------------------ MODULE ParticipantOnboarding ------------------------
(***************************************************************************)
(* From an application to a claimed invitation: the handlers of            *)
(* ParticipantApplicationService and ParticipantInvitationService, the     *)
(* SIWE routes of server.js that a claim needs, and the rows of            *)
(* participant_applications and participant_invitations they share.        *)
(*                                                                         *)
(* A handler is atomic up to an await.  approve and resend await the mail  *)
(* server after writing the invitation, verifyChallenge awaits the         *)
(* recovery of the signer after its checks: each is a first half that      *)
(* takes a slot of calls and a second half that frees it.  A mail may      *)
(* arrive before the mail server answers, and although it answers with an  *)
(* error.  An application has one owner and an owner one application, so   *)
(* the owner's accountId names it.  create makes version-2 applications;   *)
(* one of version 1, which its e-mail verification puts under review, can  *)
(* only be a row from before a restart, so that its owner is gone and the  *)
(* resend of its verification mail has no caller.                          *)
(***************************************************************************)
EXTENDS Integers, FiniteSets

CONSTANTS
    Accounts, Wallets,    \* accountIds of browser sessions, addresses
    NoWallet,             \* walletAddress undefined, claimed_wallet NULL
    Keys,                 \* Idempotency-Key headers
    Calls,                \* handlers that may be awaiting at one time
    InvitationTTL, ChallengeTTL,
    FirstDelay, Cooldown, Window, MaxResends,   \* the limits of resendAvailability
    LegacyTTL,            \* verification_expires_at of a version-1 row
    MaxInvitations, MaxChallenges, MaxTime      \* bounds of the model

ASSUME OnboardingAssumption ==
    /\ NoWallet \notin Wallets
    /\ InvitationTTL \in Nat \ {0} /\ ChallengeTTL \in Nat \ {0}
    /\ FirstDelay \in Nat /\ Cooldown \in Nat \ {0} /\ Window \in Nat /\ MaxResends \in Nat
    /\ LegacyTTL \in Nat
    /\ MaxInvitations \in Nat /\ MaxChallenges \in Nat /\ MaxTime \in Nat \ {0}

IIds == 1..MaxInvitations
CIds == 1..MaxChallenges
Reviewable == {"UNDER_REVIEW", "APPROVAL_DELIVERY_FAILED"}
Open == {"CREATED", "SENT"}

NoApplication == [state |-> "none", invitation |-> 0, version |-> 2]
Legacy == [state |-> "EMAIL_VERIFICATION_REQUIRED", invitation |-> 0, version |-> 1]
NoInvitation == [state |-> "none", token |-> 0, expiresAt |-> 0, sentAt |-> 0, lastResend |-> 0,
                 windowStart |-> 0, resends |-> 0, wallet |-> NoWallet]
NoChallenge == [state |-> "none"]
NoAccount(s) == [state |-> s, wallet |-> NoWallet, proof |-> 0]
Idle == [kind |-> "idle"]

VARIABLES
    now,              \* Date.now(); 0 stands for NULL in a column that holds a time
    applications, invitations, invitationCount,
    applicantOf,      \* the application an invitation was created from (its e-mail and
                      \* name); an administrator's own invitation has none
    resendRequests,   \* rows of participant_invitation_resend_requests
    accounts, challenges, challengeCount,   \* in memory
    calls,            \* the handlers awaiting an answer
    mailbox,          \* <<invitation, token>> of the mails that arrived
    resent,           \* for an invitation, the resends handed to the mailer: token and time
    signatures        \* <<wallet, invitation>> of the invitation messages signed

rows == <<applications, invitations, invitationCount, applicantOf, resendRequests>>
memory == <<accounts, challenges, challengeCount>>
mail == <<mailbox, resent>>
vars == <<now, rows, memory, calls, mail, signatures>>

Init ==
    /\ now = 1
    /\ \E old \in SUBSET Accounts :
        /\ Cardinality(old) <= 1
        /\ applications = [a \in Accounts |-> IF a \in old THEN Legacy ELSE NoApplication]
        /\ accounts = [a \in Accounts |-> NoAccount(IF a \in old THEN "lost" ELSE "new")]
    /\ invitations = [i \in IIds |-> NoInvitation] /\ invitationCount = 0
    /\ applicantOf = [i \in {} |-> 0]
    /\ resendRequests = {}
    /\ challenges = [c \in CIds |-> NoChallenge] /\ challengeCount = 0
    /\ calls = [r \in Calls |-> Idle]
    /\ mailbox = {} /\ resent = [i \in IIds |-> {}] /\ signatures = {}

Tick ==
    /\ now < MaxTime
    /\ now' = now + 1
    /\ UNCHANGED <<rows, memory, calls, mail, signatures>>

Present(a) == accounts[a].state = "present"

CreateAccount(a) ==
    /\ accounts[a].state = "new"
    /\ accounts' = [accounts EXCEPT ![a] = NoAccount("present")]
    /\ UNCHANGED <<now, rows, challenges, challengeCount, calls, mail, signatures>>

(* replaceAccount: the browser goes on with a new account, its old one is gone. *)
NewSession(a, b) ==
    /\ Present(a) /\ accounts[b].state = "new"
    /\ accounts' = [accounts EXCEPT ![a] = NoAccount("lost"), ![b] = NoAccount("present")]
    /\ UNCHANGED <<now, rows, challenges, challengeCount, calls, mail, signatures>>

(* The process restarts: accounts, challenges and awaiting handlers go. *)
Restart ==
    /\ accounts' = [a \in Accounts |->
           IF accounts[a].state = "present" THEN NoAccount("lost") ELSE accounts[a]]
    /\ challenges' = [c \in CIds |-> NoChallenge]
    /\ calls' = [r \in Calls |-> Idle]
    /\ UNCHANGED <<now, rows, challengeCount, mail, signatures>>

Start(r, call) == calls[r] = Idle /\ calls' = [calls EXCEPT ![r] = call]
Finish(r, kind) == calls[r].kind = kind /\ calls' = [calls EXCEPT ![r] = Idle]

(***************************************************************************)
(* Applications and their review.                                          *)
(***************************************************************************)
ApplicationIs(a, state) == [applications EXCEPT ![a].state = state]

CreateApplication(a) ==
    /\ Present(a) /\ applications[a] = NoApplication
    /\ applications' = ApplicationIs(a, "UNDER_REVIEW")
    /\ UNCHANGED <<now, invitations, invitationCount, applicantOf, resendRequests, memory, calls,
                   mail, signatures>>

(* The link of a version-1 application's verification mail. *)
Verify(a) ==
    /\ applications[a] = Legacy /\ now < LegacyTTL
    /\ applications' = ApplicationIs(a, "UNDER_REVIEW")
    /\ UNCHANGED <<now, invitations, invitationCount, applicantOf, resendRequests, memory, calls,
                   mail, signatures>>

(* createParticipantInvitation: a row with its first token. *)
InvitationCreated(i) ==
    /\ i \in IIds
    /\ invitations' = [invitations EXCEPT ![i] =
           [NoInvitation EXCEPT !.state = "CREATED", !.token = 1, !.expiresAt = now + InvitationTTL]]
    /\ invitationCount' = i

(* approve up to the mail server's answer: a new invitation each time. *)
Approve(r, a) ==
    /\ applications[a].state \in Reviewable
    /\ LET i == invitationCount + 1 IN
       /\ InvitationCreated(i)
       /\ applicantOf' = [j \in DOMAIN applicantOf \cup {i} |-> IF j = i THEN a ELSE applicantOf[j]]
       /\ Start(r, [kind |-> "approve", application |-> a, invitation |-> i, token |-> 1])
    /\ UNCHANGED <<now, applications, resendRequests, memory, mail, signatures>>

(* create for an administrator, who is shown the link. *)
CreateInvitation ==
    /\ InvitationCreated(invitationCount + 1)
    /\ mailbox' = mailbox \cup {<<invitationCount + 1, 1>>}
    /\ UNCHANGED <<now, applications, applicantOf, resendRequests, memory, calls, resent, signatures>>

(* The conditional updates of approve: they ignore whether a row changed. *)
Decided(a, s, i) ==
    IF applications[a].state \in Reviewable
    THEN [applications EXCEPT ![a].state = s, ![a].invitation = i]
    ELSE applications

Mut_MarkAnyway(i) == [invitations EXCEPT ![i].state = "SENT", ![i].sentAt = now]
MarkedSent(i) ==
    IF invitations[i].state \in Open
    THEN [invitations EXCEPT ![i].state = "SENT", ![i].sentAt = now]
    ELSE invitations

Arrived(r) == <<calls[r].invitation, calls[r].token>> \in mailbox

MailArrives(r) ==
    /\ calls[r].kind \in {"approve", "resend", "send"} /\ ~Arrived(r)
    /\ mailbox' = mailbox \cup {<<calls[r].invitation, calls[r].token>>}
    /\ UNCHANGED <<now, rows, memory, calls, resent, signatures>>

ApproveSent(r) ==
    /\ Finish(r, "approve") /\ Arrived(r)
    /\ invitations' = MarkedSent(calls[r].invitation)
    /\ applications' = Decided(calls[r].application, "APPROVED_INVITATION_SENT", calls[r].invitation)
    /\ UNCHANGED <<now, invitationCount, applicantOf, resendRequests, memory, mail, signatures>>

ApproveFailed(r) ==
    /\ Finish(r, "approve")
    /\ applications' = Decided(calls[r].application, "APPROVAL_DELIVERY_FAILED", calls[r].invitation)
    /\ UNCHANGED <<now, invitations, invitationCount, applicantOf, resendRequests, memory, mail,
                   signatures>>

(* send up to the mail server's answer, with the token returned by create. *)
Send(r, i) ==
    /\ i <= invitationCount /\ i \notin DOMAIN applicantOf
    /\ invitations[i].state # "CLAIMED" /\ invitations[i].expiresAt > now
    /\ Start(r, [kind |-> "send", invitation |-> i, token |-> 1])
    /\ UNCHANGED <<now, rows, memory, mail, signatures>>

SendSent(r) ==
    /\ Finish(r, "send") /\ Arrived(r)
    /\ invitations' = MarkedSent(calls[r].invitation)
    /\ UNCHANGED <<now, applications, invitationCount, applicantOf, resendRequests, memory, mail,
                   signatures>>

SendFailed(r) ==
    /\ Finish(r, "send")
    /\ UNCHANGED <<now, rows, memory, mail, signatures>>

(* The mail that follows changes nothing but the audit rows. *)
Reject(a) ==
    /\ applications[a].state = "UNDER_REVIEW"
    /\ applications' = ApplicationIs(a, "REJECTED")
    /\ UNCHANGED <<now, invitations, invitationCount, applicantOf, resendRequests, memory, calls,
                   mail, signatures>>

(***************************************************************************)
(* Resending an invitation.                                                *)
(***************************************************************************)
WindowExpired(v) == v.windowStart = 0 \/ v.windowStart + Window <= now
ResendCount(v) == IF WindowExpired(v) THEN 0 ELSE v.resends

ResendAvailable(v) ==
    /\ v.state = "SENT" /\ v.expiresAt > now
    /\ ResendCount(v) < MaxResends
    /\ now >= IF v.lastResend # 0 THEN v.lastResend + Cooldown ELSE v.sentAt + FirstDelay

(* rotateParticipantInvitationToken and markParticipantInvitationResent, before the mail. *)
Mut_ResendUnmarked(v) == [v EXCEPT !.token = @ + 1]
RotatedAndMarked(v) ==
    [v EXCEPT !.token = @ + 1, !.sentAt = now, !.lastResend = now,
              !.windowStart = IF WindowExpired(v) THEN now ELSE @,
              !.resends = ResendCount(v) + 1]

(* A request with a recorded key is answered with what was recorded. *)
Replayed(i, k) == <<i, k>> \in resendRequests

Resend(r, a, k) ==
    /\ Present(a) /\ applications[a].state = "APPROVED_INVITATION_SENT"
    /\ LET i == applications[a].invitation IN
       /\ ~Replayed(i, k)
       /\ ResendAvailable(invitations[i])
       /\ invitations' = [invitations EXCEPT ![i] = RotatedAndMarked(invitations[i])]
       /\ resent' = [resent EXCEPT ![i] = @ \cup {<<invitations[i].token + 1, now>>}]
       /\ Start(r, [kind |-> "resend", invitation |-> i, token |-> invitations[i].token + 1, key |-> k])
    /\ UNCHANGED <<now, applications, invitationCount, applicantOf, resendRequests, memory, mailbox,
                   signatures>>

ResendSent(r) ==
    /\ Finish(r, "resend") /\ Arrived(r)
    /\ resendRequests' = resendRequests \cup {<<calls[r].invitation, calls[r].key>>}
    /\ UNCHANGED <<now, applications, invitations, invitationCount, applicantOf, memory, mail, signatures>>

ResendFailed(r) ==
    /\ Finish(r, "resend")
    /\ UNCHANGED <<now, rows, memory, mail, signatures>>

(* participantView: what the applicant is told, and whether a resend is       *)
(* offered now.                                                              *)
View(status, recovery) == [status |-> status, recovery |-> recovery]
ParticipantView(a) ==
    LET v == invitations[applications[a].invitation] IN
    IF applications[a].state = "APPROVED_INVITATION_SENT"
    THEN IF v.state = "CLAIMED" THEN View("REGISTRATION_CONFIRMED", FALSE)
         ELSE View("INVITATION_SENT", ResendAvailable(v))
    ELSE IF applications[a].state = "INVITATION_CLAIMED" THEN View("REGISTRATION_CONFIRMED", FALSE)
    ELSE IF applications[a].state = "APPROVAL_DELIVERY_FAILED" THEN View("DELIVERY_FAILED", FALSE)
    ELSE View(applications[a].state, applications[a].state = "EMAIL_VERIFICATION_REQUIRED")

(***************************************************************************)
(* The wallet's signature, and the claim.                                  *)
(***************************************************************************)
(* tokenHash(token) finds an invitation only by its current token. *)
Current(m) == m[2] = invitations[m[1]].token

NewChallenge(a, w, i) ==
    /\ challengeCount < MaxChallenges
    /\ challengeCount' = challengeCount + 1
    /\ challenges' = [challenges EXCEPT ![challengeCount + 1] =
           [state |-> "unused", account |-> a, wallet |-> w, proof |-> i,
            expiresAt |-> now + ChallengeTTL]]
    /\ UNCHANGED <<now, rows, accounts, calls, mail, signatures>>

(* createChallenge with an invitation token, and without one (proof 0). *)
CreateChallenge(a, w) ==
    /\ Present(a)
    /\ \/ \E m \in mailbox :
             Current(m) /\ invitations[m[1]].expiresAt > now /\ NewChallenge(a, w, m[1])
       \/ NewChallenge(a, w, 0)

(* verifyChallenge up to the recovery of the signer: the wallet has signed. *)
VerifyChallenge(r, c) ==
    /\ challenges[c].state = "unused" /\ Present(challenges[c].account) /\ challenges[c].expiresAt > now
    /\ Start(r, [kind |-> "verify", challenge |-> c])
    /\ signatures' = signatures \cup {<<challenges[c].wallet, challenges[c].proof>>}
    /\ UNCHANGED <<now, rows, memory, mail>>

ChallengeVerified(r) ==
    /\ Finish(r, "verify")
    /\ LET c == challenges[calls[r].challenge] IN
       /\ challenges' = [challenges EXCEPT ![calls[r].challenge].state = "used"]
       /\ accounts' = [accounts EXCEPT ![c.account].wallet = c.wallet, ![c.account].proof = c.proof]
    /\ UNCHANGED <<now, rows, challengeCount, mail, signatures>>

(* AccountTrustService.verifyWallet sets the wallet and leaves the proof. *)
BindWallet(a, w) ==
    /\ Present(a) /\ accounts[a].wallet # w
    /\ accounts' = [accounts EXCEPT ![a].wallet = w]
    /\ UNCHANGED <<now, rows, challenges, challengeCount, calls, mail, signatures>>

(* claimParticipantInvitation's WHERE clause. *)
Claimable(v) == v.state \in Open /\ v.expiresAt > now

(* markParticipantApplicationInvitationClaimed. *)
Mut_MarkApplicant(i) ==
    [a \in Accounts |->
        IF i \in DOMAIN applicantOf /\ applicantOf[i] = a /\ applications[a].state = "APPROVED_INVITATION_SENT"
        THEN [applications[a] EXCEPT !.state = "INVITATION_CLAIMED"] ELSE applications[a]]
ClaimMarked(i) ==
    [a \in Accounts |->
        IF applications[a].state = "APPROVED_INVITATION_SENT" /\ applications[a].invitation = i
        THEN [applications[a] EXCEPT !.state = "INVITATION_CLAIMED"] ELSE applications[a]]

Claim(a, m) ==
    LET i == m[1] IN
    /\ Present(a) /\ accounts[a].wallet # NoWallet
    /\ Current(m) /\ accounts[a].proof = i
    /\ Claimable(invitations[i])
    /\ invitations' = [invitations EXCEPT ![i].state = "CLAIMED", ![i].wallet = accounts[a].wallet]
    /\ applications' = ClaimMarked(i)
    /\ accounts' = [accounts EXCEPT ![a].proof = 0]
    /\ UNCHANGED <<now, invitationCount, applicantOf, resendRequests, challenges, challengeCount,
                   calls, mail, signatures>>

Next ==
    \/ Tick \/ Restart \/ CreateInvitation
    \/ \E a \in Accounts :
        \/ CreateAccount(a) \/ CreateApplication(a) \/ Verify(a) \/ Reject(a)
        \/ \E b \in Accounts : NewSession(a, b)
        \/ \E w \in Wallets : CreateChallenge(a, w) \/ BindWallet(a, w)
        \/ \E m \in mailbox : Claim(a, m)
        \/ \E r \in Calls : Approve(r, a) \/ \E k \in Keys : Resend(r, a, k)
    \/ \E r \in Calls :
        \/ MailArrives(r) \/ ApproveSent(r) \/ ApproveFailed(r) \/ ResendSent(r) \/ ResendFailed(r)
        \/ ChallengeVerified(r) \/ SendSent(r) \/ SendFailed(r)
        \/ \E i \in IIds : Send(r, i)
        \/ \E c \in CIds : VerifyChallenge(r, c)

Spec == Init /\ [][Next]_vars

-----------------------------------------------------------------------------
Times == 0..(MaxTime + InvitationTTL + ChallengeTTL)
CallRecords ==
    {Idle} \cup [kind : {"approve"}, application : Accounts, invitation : IIds, token : {1}]
    \cup [kind : {"resend"}, invitation : IIds, token : 1..MaxTime + 1, key : Keys]
    \cup [kind : {"send"}, invitation : IIds, token : {1}]
    \cup [kind : {"verify"}, challenge : CIds]

(* Every row, account, challenge and awaiting handler is of its type; the    *)
(* resend counter stays within its limit whatever overlaps or is lost.      *)
TypeOK ==
    /\ now \in 1..MaxTime
    /\ applications \in [Accounts -> [state : {"none", "EMAIL_VERIFICATION_REQUIRED", "UNDER_REVIEW",
           "APPROVED_INVITATION_SENT", "APPROVAL_DELIVERY_FAILED", "REJECTED", "INVITATION_CLAIMED"},
           invitation : 0..invitationCount, version : {1, 2}]]
    /\ invitations \in [IIds -> [state : {"none", "CREATED", "SENT", "CLAIMED"},
           token : 0..MaxTime + 1, expiresAt : Times, sentAt : Times, lastResend : Times,
           windowStart : Times, resends : 0..MaxResends, wallet : Wallets \cup {NoWallet}]]
    /\ invitationCount \in 0..MaxInvitations /\ challengeCount \in 0..MaxChallenges
    /\ DOMAIN applicantOf \subseteq 1..invitationCount
    /\ \A i \in DOMAIN applicantOf : applicantOf[i] \in Accounts
    /\ resendRequests \subseteq IIds \X Keys
    /\ accounts \in [Accounts -> [state : {"new", "present", "lost"},
           wallet : Wallets \cup {NoWallet}, proof : 0..invitationCount]]
    /\ challenges \in [CIds -> {NoChallenge} \cup [state : {"unused", "used"}, account : Accounts,
           wallet : Wallets, proof : 0..invitationCount, expiresAt : Times]]
    /\ calls \in [Calls -> CallRecords]
    /\ mailbox \subseteq IIds \X (1..MaxTime + 1)
    /\ resent \in [IIds -> SUBSET ((1..MaxTime + 1) \X (1..MaxTime))]
    /\ signatures \subseteq Wallets \X (0..invitationCount)

(* A claimed invitation stays claimed by the same wallet: neither an answer  *)
(* of the mail server that comes after the claim (approve, resend) nor       *)
(* another claim changes it, and its token is not replaced.                  *)
ClaimIsFinalStep ==
    \A i \in IIds : invitations[i].state = "CLAIMED" => invitations'[i] = invitations[i]

(* A decision on an application is not taken back by an approval that was    *)
(* still waiting for the mail server: a rejected or registered application   *)
(* stays so, and an approved one only becomes registered.                    *)
DecisionIsFinalStep ==
    \A a \in Accounts :
        /\ applications[a].state \in {"REJECTED", "INVITATION_CLAIMED"} =>
               applications'[a] = applications[a]
        /\ applications[a].state = "APPROVED_INVITATION_SENT" =>
               /\ applications'[a].state \in {"APPROVED_INVITATION_SENT", "INVITATION_CLAIMED"}
               /\ applications'[a].invitation = applications[a].invitation

(* Decisions and claims are final, whatever was awaiting the mail server.    *)
OutcomesAreFinal == [][ClaimIsFinalStep /\ DecisionIsFinalStep]_vars

(* What an application says of its invitation is so: an approved one's was   *)
(* sent to this applicant (and perhaps claimed already), a registered one's  *)
(* was claimed; several approvals of one application may be under way.       *)
ApplicationTellsTheTruth ==
    \A a \in Accounts :
        /\ applications[a].state = "APPROVED_INVITATION_SENT" =>
               invitations[applications[a].invitation].state \in {"SENT", "CLAIMED"}
        /\ applications[a].state = "INVITATION_CLAIMED" =>
               invitations[applications[a].invitation].state = "CLAIMED"
        /\ applications[a].invitation # 0 =>
               /\ applications[a].invitation \in DOMAIN applicantOf
               /\ applicantOf[applications[a].invitation] = a

(* Resends of one invitation are at least the cooldown apart, also when      *)
(* their mails fail, overlap or are lost in a restart (resendAvailability).  *)
ResendsArePaced ==
    \A i \in IIds : \A s, t \in resent[i] : s[1] < t[1] => s[2] + Cooldown <= t[2]

(* ADR-0020: the wallet that claims an invitation signed the message naming  *)
(* it.  Binding another wallet to the account keeps the earlier proof.       *)
ClaimedWalletSigned ==
    \A i \in IIds : invitations[i].state = "CLAIMED" => <<invitations[i].wallet, i>> \in signatures
=============================================================================
