---------------------------- MODULE WalletSession ----------------------------
(***************************************************************************)
(* The account of one platform session: its test user, the wallet it links *)
(* by SIWE, and its support intents.  Every handler looks the account up by *)
(* cookie and ids are random, so two accounts never meet in these maps; all *)
(* of it is in memory and a restart begins an empty account.               *)
(*                                                                         *)
(* verifyChallenge and submitSupport check first, await the recovery of    *)
(* the signature, and write after: a request is in flight from Receive to  *)
(* Verified.  A body that is refused changes nothing and is left out.      *)
(***************************************************************************)
EXTENDS Integers, Sequences, SequencesExt

CONSTANTS
    Wallets, NoWallet,
    Artists,          \* artistIds of the catalog
    ClientKeys,       \* idempotency keys the page sends
    Requests,         \* requests that can be in flight at once
    SignTTL,          \* lifetime of a challenge or an intent (300 s)
    ConfirmDelay,     \* the mock confirmation's 600 ms
    MaxTime, MaxChallenges, MaxSupport      \* bounds of the model

Idle == [kind |-> "idle"]
NoKey == "none"

ASSUME WalletAssumption ==
    /\ NoWallet \notin Wallets /\ NoKey \notin ClientKeys /\ SignTTL \in Nat \ {0} /\ ConfirmDelay \in Nat
    /\ MaxTime \in Nat /\ MaxChallenges \in Nat /\ MaxSupport \in Nat

VARIABLES
    now,
    demoUser,         \* the key its registration was sent with
    walletAddress, invitationProof,     \* of the account; a proof is its challenge
    challenges, supportIntents, supportIdempotency, tiers,
    requests          \* handlers that await a verification

walletVars == <<now, demoUser, walletAddress, invitationProof, challenges, supportIntents,
                supportIdempotency, tiers, requests>>

WalletInit ==
    /\ now = 0 /\ demoUser = NoKey
    /\ walletAddress = NoWallet /\ invitationProof = 0
    /\ challenges = <<>> /\ supportIntents = <<>> /\ tiers = {}
    /\ supportIdempotency = [k \in ClientKeys |-> 0]
    /\ requests = [r \in Requests |-> Idle]

Tick ==
    /\ now < MaxTime
    /\ now' = now + 1
    /\ UNCHANGED <<demoUser, walletAddress, invitationProof, challenges, supportIntents,
                   supportIdempotency, tiers, requests>>

(* A second registration with the same key and alias is answered with the first. *)
RegisterDemoUser(k) ==
    /\ demoUser = NoKey
    /\ demoUser' = k
    /\ UNCHANGED <<now, walletAddress, invitationProof, challenges, supportIntents,
                   supportIdempotency, tiers, requests>>

Begin(r, kind, id) == requests[r] = Idle /\ requests' = [requests EXCEPT ![r] = [kind |-> kind, id |-> id]]
Answer(r) == requests' = [requests EXCEPT ![r] = Idle]
Awaiting(r, kind) == requests[r].kind = kind

(* The library rejects the signature or recovers another address. *)
RefuseSignature(r) ==
    /\ requests[r] # Idle
    /\ Answer(r)
    /\ UNCHANGED <<now, demoUser, walletAddress, invitationProof, challenges, supportIntents,
                   supportIdempotency, tiers>>

------------------------------------------------------------------------------
(* Linking a wallet by SIWE. *)

CreateChallenge(w, invited) ==
    /\ Len(challenges) < MaxChallenges
    /\ challenges' = Append(challenges,
            [address |-> w, invited |-> invited, expiresAt |-> now + SignTTL, used |-> FALSE])
    /\ UNCHANGED <<now, demoUser, walletAddress, invitationProof, supportIntents,
                   supportIdempotency, tiers, requests>>

ReceiveChallenge(r, c) ==
    /\ ~challenges[c].used /\ challenges[c].expiresAt > now
    /\ Begin(r, "siwe", c)
    /\ UNCHANGED <<now, demoUser, walletAddress, invitationProof, challenges, supportIntents,
                   supportIdempotency, tiers>>

(* The proof goes with the challenge that linked the wallet, or goes away. *)
ProofOf(c) == IF challenges[c].invited THEN c ELSE 0

ChallengeVerified(r) ==
    LET c == requests[r].id IN
    /\ Awaiting(r, "siwe")
    /\ challenges' = [challenges EXCEPT ![c].used = TRUE]
    /\ walletAddress' = challenges[c].address
    /\ invitationProof' = ProofOf(c)
    /\ Answer(r)
    /\ UNCHANGED <<now, demoUser, supportIntents, supportIdempotency, tiers>>

------------------------------------------------------------------------------
(* Support intents.  The mock confirms an intent ConfirmDelay after it is signed. *)

Mut_NewEachTime(k) == k \in ClientKeys
FirstUse(k) == supportIdempotency[k] = 0

CreateSupportIntent(k, a) ==
    /\ walletAddress # NoWallet /\ FirstUse(k) /\ Len(supportIntents) < MaxSupport
    /\ supportIntents' = Append(supportIntents,
            [address |-> walletAddress, artist |-> a, deadline |-> now + SignTTL,
             status |-> "SIGNATURE_REQUIRED", activateAt |-> 0])
    /\ supportIdempotency' = [supportIdempotency EXCEPT ![k] = Len(supportIntents) + 1]
    /\ UNCHANGED <<now, demoUser, walletAddress, invitationProof, challenges, tiers, requests>>

ReceiveSupport(r, i) ==
    /\ supportIntents[i].deadline > now /\ supportIntents[i].status = "SIGNATURE_REQUIRED"
    /\ Begin(r, "support", i)
    /\ UNCHANGED <<now, demoUser, walletAddress, invitationProof, challenges, supportIntents,
                   supportIdempotency, tiers>>

(* submitSupport's early answer; it reads neither body nor signature. *)
AlreadySubmitted(i) == supportIntents[i].deadline > now /\ supportIntents[i].status # "SIGNATURE_REQUIRED"

(* The confirmation is due. *)
Confirmed(i) == supportIntents[i].status = "CONFIRMING" /\ supportIntents[i].activateAt <= now

SupportVerified(r) ==
    LET i == requests[r].id IN
    /\ Awaiting(r, "support")
    /\ supportIntents' = [supportIntents EXCEPT ![i].status = "CONFIRMING",
                                                ![i].activateAt = now + ConfirmDelay]
    /\ Answer(r)
    /\ UNCHANGED <<now, demoUser, walletAddress, invitationProof, challenges,
                   supportIdempotency, tiers>>

(* GET support-registrations: the poll that activates. *)
SupportRegistration(i) ==
    /\ Confirmed(i)
    /\ supportIntents' = [supportIntents EXCEPT ![i].status = "SBT_ACTIVE"]
    /\ tiers' = tiers \cup {supportIntents[i].artist}
    /\ UNCHANGED <<now, demoUser, walletAddress, invitationProof, challenges,
                   supportIdempotency, requests>>

(* GET community-capability *)
CommunityCapability(a) == a \in tiers

WalletNext ==
    \/ Tick
    \/ \E k \in ClientKeys : RegisterDemoUser(k) \/ \E a \in Artists : CreateSupportIntent(k, a)
    \/ \E w \in Wallets, invited \in BOOLEAN : CreateChallenge(w, invited)
    \/ \E r \in Requests :
        \/ RefuseSignature(r) \/ ChallengeVerified(r) \/ SupportVerified(r)
        \/ \E c \in DOMAIN challenges : ReceiveChallenge(r, c)
        \/ \E i \in DOMAIN supportIntents : ReceiveSupport(r, i)
    \/ \E i \in DOMAIN supportIntents : SupportRegistration(i)

WalletSpec == WalletInit /\ [][WalletNext]_walletVars
=============================================================================
