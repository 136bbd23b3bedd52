---------------------------- MODULE InvitationPage ----------------------------
(***************************************************************************)
(* The page behind an invitation's link                                    *)
(* (ParticipantInvitationRegistration.vue): it inspects the invitation,    *)
(* has the wallet sign it, claims it and then polls until the enrollment   *)
(* is funded.  Both buttons require the box of the acknowledgement, so     *)
(* that every request carries it.                                          *)
(*                                                                         *)
(* An inspection is answered when it is asked and delivered later or       *)
(* never, so that two may overtake each other.  An interaction's request   *)
(* and its answer may be lost; the page gives them no timeout.  Texts, the *)
(* note that a wallet is slow and error messages are left out.             *)
(***************************************************************************)
EXTENDS ParticipantOnboarding

CONSTANTS NoLink, Nothing, Gets   \* Gets: inspections under way at one time

VARIABLES
    funded,           \* invitations whose enrollment is FUNDED (ParticipantEnrollment)
    cookie,           \* the account of the browser
    link,             \* token, from the URL's hash
    invitation,       \* what the page shows
    wallet, phase,    \* interactionPhase; "nonce" and "verification" both show the latter
    challenge,        \* the challenge the wallet is asked to sign
    gets, reply       \* answers under way, to inspections and to the claim

pageVars == <<funded, cookie, link, invitation, wallet, phase, challenge, gets, reply>>

InvitationPageInit ==
    /\ funded = {} /\ cookie \in Accounts
    /\ link = NoLink /\ invitation = Nothing /\ wallet = NoWallet
    /\ phase = "idle" /\ challenge = 0
    /\ gets = [g \in Gets |-> Nothing] /\ reply = Nothing

(* publicView, and what inspect adds to it. *)
PublicInvitation(i, state, expired) == [state |-> state, expired |-> expired, funded |-> i \in funded]
Inspected(m) ==
    IF Current(m)
    THEN PublicInvitation(m[1], invitations[m[1]].state, invitations[m[1]].expiresAt <= now)
    ELSE Nothing

Mut_KeepWallet == wallet
(* The catch block of connectAndVerifyWallet. *)
WalletAfterFailure == NoWallet

Connecting == phase \in {"network", "account", "nonce", "signature", "verification"}
Registering == phase \in {"registration", "registered"}

(* The card the template shows.  An invitation past its expiry is            *)
(* unavailable even when it has been claimed.                                *)
Card ==
    IF invitation = Nothing THEN "loading"
    ELSE IF invitation.expired THEN "unavailable"
    ELSE IF invitation.state = "CLAIMED" THEN "done"
    ELSE IF wallet = NoWallet \/ Connecting THEN "connect" ELSE "register"

(* scheduleEnrollmentStatusRefresh, after every answer. *)
Polls == invitation # Nothing /\ invitation.state = "CLAIMED" /\ ~invitation.funded

-----------------------------------------------------------------------------
(* onMounted, of the link in a mail; opening it again forgets everything. *)
OpenPage(m) ==
    /\ link' = m /\ invitation' = Nothing /\ wallet' = NoWallet
    /\ phase' = "idle" /\ challenge' = 0
    /\ gets' = [g \in Gets |-> Nothing] /\ reply' = Nothing
    /\ UNCHANGED <<vars, funded, cookie>>

(* getAccount gives a browser whose account is gone a new one. *)
NewCookie(b) ==
    /\ ~Present(cookie) /\ CreateAccount(b)
    /\ cookie' = b
    /\ UNCHANGED <<funded, link, invitation, wallet, phase, challenge, gets, reply>>

(* On mounting, by the retry button, and by the timer. *)
Inspect(g) ==
    /\ link # NoLink /\ gets[g] = Nothing
    /\ invitation = Nothing \/ Polls
    /\ gets' = [gets EXCEPT ![g] = Inspected(link)]
    /\ UNCHANGED <<vars, funded, cookie, link, invitation, wallet, phase, challenge, reply>>

InspectAnswered(g) ==
    /\ gets[g] # Nothing
    /\ invitation' = gets[g] \/ UNCHANGED invitation
    /\ gets' = [gets EXCEPT ![g] = Nothing]
    /\ UNCHANGED <<vars, funded, cookie, link, wallet, phase, challenge, reply>>

Connect ==
    /\ phase = "idle" /\ Card = "connect"
    /\ phase' = "network"
    /\ UNCHANGED <<vars, funded, cookie, link, invitation, wallet, challenge, gets, reply>>

NetworkSwitched ==
    /\ phase = "network"
    /\ phase' = "account"
    /\ UNCHANGED <<vars, funded, cookie, link, invitation, wallet, challenge, gets, reply>>

AccountGiven(w) ==
    /\ phase = "account"
    /\ phase' = "nonce" /\ wallet' = w
    /\ UNCHANGED <<vars, funded, cookie, link, invitation, challenge, gets, reply>>

ChallengeGiven ==
    /\ phase = "nonce" /\ Present(cookie)
    /\ Current(link) /\ invitations[link[1]].expiresAt > now
    /\ NewChallenge(cookie, wallet, link[1])
    /\ phase' = "signature" /\ challenge' = challengeCount + 1
    /\ UNCHANGED <<funded, cookie, link, invitation, wallet, gets, reply>>

MessageSigned(r) ==
    /\ phase = "signature" /\ VerifyChallenge(r, challenge)
    /\ phase' = "verification"
    /\ UNCHANGED <<funded, cookie, link, invitation, wallet, challenge, gets, reply>>

WalletVerified(r) ==
    /\ phase = "verification"
    /\ calls[r].kind = "verify" /\ calls[r].challenge = challenge /\ ChallengeVerified(r)
    /\ phase' = "idle"
    /\ UNCHANGED <<funded, cookie, link, invitation, wallet, challenge, gets, reply>>

(* The wallet's owner or the gateway refuses, or a message is lost. *)
ConnectFailed ==
    /\ Connecting
    /\ phase' = "idle" /\ wallet' = WalletAfterFailure
    /\ UNCHANGED <<vars, funded, cookie, link, invitation, challenge, gets, reply>>

ClaimClicked ==
    /\ phase = "idle" /\ Card = "register"
    /\ phase' = "registration"
    /\ UNCHANGED <<vars, funded, cookie, link, invitation, wallet, challenge, gets, reply>>

(* A claim repeated by the wallet that made it is answered like the first. *)
ClaimRepeated(m) ==
    /\ Current(m) /\ invitations[m[1]].state = "CLAIMED"
    /\ Present(cookie) /\ accounts[cookie].wallet = invitations[m[1]].wallet
    /\ UNCHANGED vars

ClaimHandled ==
    /\ phase = "registration"
    /\ Claim(cookie, link) \/ ClaimRepeated(link)
    /\ phase' = "registered" /\ reply' = PublicInvitation(link[1], "CLAIMED", FALSE)
    /\ UNCHANGED <<funded, cookie, link, invitation, wallet, challenge, gets>>

ClaimAnswered ==
    /\ phase = "registered"
    /\ invitation' = reply /\ phase' = "idle" /\ reply' = Nothing
    /\ UNCHANGED <<vars, funded, cookie, link, wallet, challenge, gets>>

ClaimFailed ==
    /\ Registering
    /\ phase' = "idle" /\ reply' = Nothing
    /\ UNCHANGED <<vars, funded, cookie, link, invitation, wallet, challenge, gets>>

(* The enrollment operator finishes. *)
Fund(i) ==
    /\ invitations[i].state = "CLAIMED"
    /\ funded' = funded \cup {i}
    /\ UNCHANGED <<vars, cookie, link, invitation, wallet, phase, challenge, gets, reply>>

InvitationPageNext ==
    \/ \E m \in mailbox : OpenPage(m)
    \/ \E b \in Accounts : NewCookie(b)
    \/ \E g \in Gets : Inspect(g) \/ InspectAnswered(g)
    \/ Connect \/ NetworkSwitched \/ \E w \in Wallets : AccountGiven(w)
    \/ ChallengeGiven \/ \E r \in Calls : MessageSigned(r) \/ WalletVerified(r)
    \/ ConnectFailed
    \/ ClaimClicked \/ ClaimHandled \/ ClaimAnswered \/ ClaimFailed
    \/ \E i \in IIds : Fund(i)

-----------------------------------------------------------------------------
(* However inspections overtake each other and answers are lost, what the    *)
(* page says was reached was reached: a registration shown as saved is, the  *)
(* funding too, and a wallet shown as verified has signed this invitation.   *)
InvitationPageTellsTheTruth ==
    /\ Card = "done" => invitations[link[1]].state = "CLAIMED"
    /\ invitation # Nothing /\ invitation.funded => link[1] \in funded
    /\ Card \in {"register", "done"} /\ wallet # NoWallet /\ ~Connecting =>
           <<wallet, link[1]>> \in signatures
=============================================================================
