------------------------- MODULE MCRegistrationPages -------------------------
(* The onboarding handlers and their three pages.  A behaviour's scope says  *)
(* who acts beside the environment, so that the state spaces add up:         *)
(*   handlers    any clients, two handlers awaiting at a time,               *)
(*   invitation  the page of a link, while others act too,                   *)
(*   applicant   the applicant's page,                                       *)
(*   admin       the administrator's page,                                   *)
(*   mail        one mail through the transport.                             *)
EXTENDS RegistrationPages, MCParticipantOnboarding

CONSTANTS g1, g2

Symmetry ==
    Permutations(Wallets) \cup Permutations(Keys) \cup Permutations(Calls) \cup Permutations(Gets)
VARIABLE scope

mcVars == <<registrationVars, scope>>

NoAdministrator == DOMAIN applicantOf = 1..invitationCount
AtMostOne(S) == Cardinality(S) <= 1
OneCall == AtMostOne({r \in Calls : calls[r] # Idle})
OneKey == AtMostOne({k \in Keys : \E r \in Calls : calls[r].kind = "resend" /\ calls[r].key = k}
                    \cup {k \in Keys : \E i \in IIds : <<i, k>> \in resendRequests})
OneWallet == AtMostOne({challenges[c].wallet : c \in {c \in CIds : challenges[c] # NoChallenge}}
                       \cup ({accounts[a].wallet : a \in Accounts} \ {NoWallet}))

InScope ==
    /\ scope = "handlers" =>
        /\ NoAdministrator /\ accounts[a2].state = "new" /\ applications[a2] = NoApplication
        /\ OneCall \/ challengeCount = 0 \/ now <= 2
    /\ scope = "invitation" =>
        /\ invitationCount <= 1 /\ applicantOf = <<>> /\ invitations[1].expiresAt \in {0, 1 + InvitationTTL}
        /\ \A a \in Accounts : applications[a] = NoApplication
        /\ \A a \in Accounts : accounts[a].wallet # NoWallet => signatures # {}
        /\ OneCall /\ \A r \in Calls : calls[r].kind # "send"
        /\ phase # "idle" => AtMostOne({g \in Gets : gets[g] # Nothing})
    /\ scope = "applicant" =>
        /\ OneCall /\ OneKey /\ OneWallet /\ NoAdministrator /\ invitationCount <= 1 /\ now <= 2
        /\ \A a \in Accounts : accounts[a].wallet # NoWallet => <<accounts[a].wallet, 1>> \in signatures
        /\ \A m \in signatures : m[2] # 0
    /\ scope = "admin" => challengeCount = 0 /\ now <= 2 /\ OneKey /\ accounts[a2].state = "new"

ScopedInit ==
    /\ RegistrationInit
    /\ cookie = a1 /\ session = a1
    /\ scope \in {"handlers", "invitation", "applicant", "admin", "mail"} /\ InScope
    /\ scope # "mail" => mode = "outbox" /\ recipientValid

(* Each is one of RegistrationNext's. *)
OnboardsInScope ==
    \/ scope = "handlers" /\ Next /\ UNCHANGED <<pageVars, reviewVars>>
    \/ scope = "invitation" /\ InvitationPageNext /\ UNCHANGED reviewVars
    \/ scope = "invitation" /\ Next /\ UNCHANGED <<pageVars, reviewVars>>
    \/ scope = "applicant" /\ ApplicantNext /\ UNCHANGED pageVars
    \/ scope = "applicant" /\ Next /\ UNCHANGED <<pageVars, reviewVars>>
    \/ scope = "admin" /\ AdminNext /\ UNCHANGED pageVars
    \/ scope = "admin" /\ Next /\ UNCHANGED <<pageVars, reviewVars>>

ScopedSpec ==
    /\ ScopedInit
    /\ [][/\ scope' = scope
          /\ \/ OnboardsInScope /\ UNCHANGED mailVars /\ InScope'
             \/ scope = "mail" /\ MailNext /\ UNCHANGED <<vars, pageVars, reviewVars>>]_mcVars
=============================================================================
