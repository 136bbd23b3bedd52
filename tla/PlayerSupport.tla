---------------------------- MODULE PlayerSupport ----------------------------
(***************************************************************************)
(* The player's wallet and supporter buttons (App.vue) as the client of    *)
(* the wallet session.  Buttons stay enabled while their request runs, so  *)
(* that two sign-ins or two calls of signSupportIntent may overlap.  One   *)
(* awaits the signature, the answer to its submission, and then at most    *)
(* Attempts polls a second apart; its catch shows FAILED wherever it was.  *)
(*                                                                         *)
(* A request whose answer is lost may have been served.  Of the answers    *)
(* that arrive only a submission's is on its way for a time; another that  *)
(* is late shows what was so a moment before.                              *)
(***************************************************************************)
EXTENDS WalletSession, FiniteSets

CONSTANTS Attempts    \* polls of one submission (6)
ASSUME AttemptsAssumption == Attempts \in Nat \ {0}

VARIABLES
    wallet,           \* the wallet the provider connected
    authenticated,    \* platformAuthenticated
    intent,           \* supportIntent: the dialog's request, 0 when closed
    status, tier,     \* supportStatus and supporterTier, as shown
    submissions,      \* the calls of signSupportIntent, by request
    testUser, registering     \* of the registration dialog

shown == <<wallet, authenticated, intent, status, tier, testUser, registering>>
supportVars == <<shown, submissions>>

NotCalled == [pc |-> "idle"]
PlayerSupportInit ==
    /\ wallet = NoWallet /\ authenticated = FALSE /\ intent = 0
    /\ status = "NOT_SUPPORTER" /\ tier = "NONE"
    /\ submissions = [r \in Requests |-> NotCalled]
    /\ testUser = FALSE /\ registering = FALSE

(* The button is there while no wallet is connected. *)
ConnectWallet(w) ==
    /\ wallet = NoWallet
    /\ wallet' = w /\ authenticated' = FALSE
    /\ UNCHANGED <<walletVars, intent, status, tier, submissions, testUser, registering>>

(* signInWithWallet: a challenge, the provider's signature, the verification. *)
AskChallenge == ~authenticated /\ wallet # NoWallet /\ CreateChallenge(wallet, FALSE) /\ UNCHANGED supportVars

SignChallenge(r, c) == submissions[r] = NotCalled /\ ReceiveChallenge(r, c) /\ UNCHANGED supportVars

SignedIn(r) ==
    /\ ChallengeVerified(r)
    /\ authenticated' \in {authenticated, TRUE}    \* the answer is lost, or arrives
    /\ UNCHANGED <<wallet, intent, status, tier, submissions, testUser, registering>>

(* prepareSupportIntent, with a new operation id; the button is disabled     *)
(* once a tier is shown.                                                     *)
MayPrepare == authenticated /\ tier = "NONE"

PrepareSupport(k, a) ==
    /\ MayPrepare
    /\ wallet = walletAddress /\ CreateSupportIntent(k, a)
    /\ intent' = Len(supportIntents) + 1 /\ status' = "SIGNATURE_REQUIRED"
    /\ UNCHANGED <<wallet, authenticated, tier, submissions, testUser, registering>>

(* Its catch: refused or not served, or served and the answer lost. *)
PrepareFails(k, a) ==
    /\ MayPrepare
    /\ UNCHANGED walletVars \/ (wallet = walletAddress /\ CreateSupportIntent(k, a))
    /\ status' = "FAILED"
    /\ UNCHANGED <<wallet, authenticated, intent, tier, submissions, testUser, registering>>

CancelSupport ==
    /\ intent # 0
    /\ intent' = 0 /\ status' = "NOT_SUPPORTER"
    /\ UNCHANGED <<walletVars, wallet, authenticated, tier, submissions, testUser, registering>>

(* signSupportIntent, up to the wallet's signature of the dialog's request. *)
SignSupport(r) ==
    /\ intent # 0 /\ submissions[r] = NotCalled /\ requests[r] = Idle
    /\ submissions' = [submissions EXCEPT ![r] = [pc |-> "signing", id |-> intent]]
    /\ UNCHANGED <<walletVars, shown>>

Answers(r, i, answer) ==
    submissions' = [submissions EXCEPT ![r] = [pc |-> "answered", id |-> i, status |-> answer]]

(* The signature goes to the request the dialog has by then. *)
SubmitSupport(r) ==
    /\ intent # 0 /\ submissions[r].pc = "signing"
    /\ submissions' = [submissions EXCEPT ![r] =
            [pc |-> "sent", id |-> intent, signed |-> submissions[r].id = intent]]
    /\ UNCHANGED <<walletVars, shown>>

(* submitSupport answers a request that is no longer to be signed with its   *)
(* status and leaves the signature unread.                                   *)
ReceiveSubmission(r) ==
    LET i == submissions[r].id IN
    /\ submissions[r].pc = "sent"
    /\ \/ /\ submissions[r].signed /\ ReceiveSupport(r, i)
          /\ submissions' = [submissions EXCEPT ![r] = [pc |-> "received", id |-> i]]
       \/ /\ AlreadySubmitted(i) /\ UNCHANGED walletVars
          /\ Answers(r, i, supportIntents[i].status)
    /\ UNCHANGED shown

(* The page may have given the request up. *)
Accepted(r) ==
    /\ SupportVerified(r)
    /\ \/ submissions[r].pc = "received" /\ Answers(r, requests[r].id, "CONFIRMING")
       \/ submissions[r].pc # "received" /\ UNCHANGED submissions
    /\ UNCHANGED shown

Submitted(r) ==
    /\ submissions[r].pc = "answered"
    /\ status' = submissions[r].status /\ intent' = 0
    /\ submissions' = [submissions EXCEPT ![r] =
            [pc |-> "polling", id |-> submissions[r].id, left |-> Attempts, next |-> now]]
    /\ UNCHANGED <<walletVars, wallet, authenticated, tier, testUser, registering>>

Mut_ImpatientDelay == 0
(* The loop's pause of a second. *)
PollDelay == 1

PollIsDue(r) == submissions[r].pc = "polling" /\ submissions[r].next <= now
Registration(i) == SupportRegistration(i) \/ (~Confirmed(i) /\ UNCHANGED walletVars)

Poll(r) ==
    LET call == submissions[r] IN
    /\ PollIsDue(r) /\ Registration(call.id)
    /\ status' = supportIntents'[call.id].status /\ tier' = "EARLY_SUPPORTER"
    /\ submissions' = [submissions EXCEPT ![r] =
            IF status' = "SBT_ACTIVE" \/ call.left = 1 THEN [pc |-> "ended", id |-> call.id]
            ELSE [call EXCEPT !.left = @ - 1, !.next = now + PollDelay]]
    /\ UNCHANGED <<wallet, authenticated, intent, testUser, registering>>

(* The catch of signSupportIntent: the wallet refuses, the dialog is gone,   *)
(* the gateway refuses, or a submission or a poll is lost, served or not.    *)
GivenUp(r) ==
    \/ submissions[r].pc \in {"signing", "sent", "received", "answered"} /\ UNCHANGED walletVars
    \/ submissions[r].pc = "received" /\ RefuseSignature(r)
    \/ PollIsDue(r) /\ (UNCHANGED walletVars \/ SupportRegistration(submissions[r].id))

SupportFails(r) ==
    /\ GivenUp(r)
    /\ status' = "FAILED" /\ submissions' = [submissions EXCEPT ![r] = NotCalled]
    /\ UNCHANGED <<wallet, authenticated, intent, tier, testUser, registering>>

(* A sign-in refused, or a submission nobody awaits any more. *)
Refused(r) == submissions[r].pc # "received" /\ RefuseSignature(r) /\ UNCHANGED supportVars

(* The registration dialog: one request at a time, each with a new key, so   *)
(* that a retry after a lost answer is refused and only a reload shows it.   *)
dialog == <<wallet, authenticated, intent, status, tier, submissions>>

RegisterTestUser ==
    /\ ~testUser /\ ~registering
    /\ registering' = TRUE
    /\ UNCHANGED <<walletVars, dialog, testUser>>

TestUserRegistered(k) ==
    /\ registering /\ RegisterDemoUser(k)
    /\ registering' = FALSE /\ testUser' \in BOOLEAN
    /\ UNCHANGED dialog

RegistrationRefused ==
    /\ registering
    /\ registering' = FALSE
    /\ UNCHANGED <<walletVars, dialog, testUser>>

(* onMounted of the page loaded anew, while no request is in flight: its own *)
(* state is lost, the account is not, and getTestUser may fail.              *)
Reload ==
    /\ \A r \in Requests : requests[r] = Idle
    /\ wallet' = NoWallet /\ authenticated' = FALSE /\ intent' = 0
    /\ status' = "NOT_SUPPORTER" /\ tier' = "NONE"
    /\ submissions' = [r \in Requests |-> NotCalled]
    /\ testUser' \in {FALSE, demoUser # NoKey} /\ registering' = FALSE
    /\ UNCHANGED walletVars

PlayerSupportNext ==
    \/ Tick /\ UNCHANGED supportVars
    \/ RegisterTestUser \/ RegistrationRefused \/ \E k \in ClientKeys : TestUserRegistered(k)
    \/ \E w \in Wallets : ConnectWallet(w)
    \/ AskChallenge \/ CancelSupport \/ Reload
    \/ \E k \in ClientKeys, a \in Artists : PrepareSupport(k, a) \/ PrepareFails(k, a)
    \/ \E r \in Requests :
        \/ \E c \in DOMAIN challenges : SignChallenge(r, c)
        \/ SignedIn(r) \/ Refused(r)
        \/ SignSupport(r) \/ SubmitSupport(r) \/ ReceiveSubmission(r) \/ Accepted(r)
        \/ Submitted(r) \/ Poll(r) \/ SupportFails(r)

PlayerSupportSpec ==
    /\ WalletInit /\ PlayerSupportInit
    /\ [][PlayerSupportNext]_<<walletVars, supportVars>>

(* What the page relies on: each submission under way may start a            *)
(* confirmation again, and the polls of one call still outlast them all.     *)
PollsOutlast == IsFiniteSet(Requests) /\ Attempts > ConfirmDelay * Cardinality(Requests)

------------------------------------------------------------------------------
(* Properties. *)

(* The polls of a submission outlast the confirmation, also when a second    *)
(* submission of the intent overlapped and started it again, and whether the *)
(* loop began with the first answer or with that to a repeated submission: a *)
(* loop that no failed request cut short saw the registration active, and    *)
(* the account has the capability.                                           *)
PollsSeeActivation ==
    \A r \in Requests : submissions[r].pc = "ended" =>
        CommunityCapability(supportIntents[submissions[r].id].artist)

(* However the answers of overlapping clicks arrive, what the page shows as  *)
(* reached was reached in the account: a registered user, a linked wallet, a *)
(* signed support.                                                           *)
PlayerTellsTheTruth ==
    /\ PollsSeeActivation
    /\ testUser => demoUser # NoKey
    /\ authenticated => walletAddress # NoWallet
    /\ tier # "NONE" => \E i \in DOMAIN supportIntents : supportIntents[i].status # "SIGNATURE_REQUIRED"
    /\ status = "SBT_ACTIVE" => tiers # {}
=============================================================================
