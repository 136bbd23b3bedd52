----------------------------- MODULE ReviewPages -----------------------------
(***************************************************************************)
(* The applicant's page (ParticipantApplicationDemo.vue) and the           *)
(* administrator's (ParticipantAdminDemo.vue) as clients of the            *)
(* applications and invitations.                                           *)
(*                                                                         *)
(* The applicant's page polls its application every 15 seconds, whatever   *)
(* else it is doing, and an answer may come after the page has changed its *)
(* session.  The administrator's page takes its two lists with requests    *)
(* that run side by side, and acts on what they said.  Forms are filled in *)
(* as required; a lost answer leaves what is shown.                        *)
(***************************************************************************)
EXTENDS ParticipantOnboarding

CONSTANTS NoLine

VARIABLES
    session,          \* the account of the applicant's cookie
    application,      \* what the applicant's page shows
    poll,             \* the answer of a poll under way
    listed,           \* the administrator's lists: states of applications and invitations
    task,             \* the request the administrator awaits
    issued, mailed    \* the invitation whose link is shown, and whether as mailed

applicantVars == <<session, application, poll>>
adminVars == <<listed, task, issued, mailed>>
reviewVars == <<applicantVars, adminVars>>

NoTask == [kind |-> "none"]
ReviewPagesInit ==
    /\ session \in Accounts /\ application = NoLine /\ poll = <<>>
    /\ listed = [applications |-> [a \in Accounts |-> "none"], invitations |-> [i \in IIds |-> "none"]]
    /\ task = NoTask /\ issued = 0 /\ mailed = FALSE

-----------------------------------------------------------------------------
(* The applicant. *)

(* publicView of a row. *)
PublicApplication(a) ==
    IF applications[a].state = "none" THEN NoLine
    ELSE [owner |-> a, state |-> applications[a].state, view |-> ParticipantView(a)]

(* What a handler answers is the row it has left. *)
Answered(a) == application' = PublicApplication(a)' \/ UNCHANGED application

LoadCurrent ==
    /\ Present(session) /\ poll = <<>>
    /\ poll' = <<PublicApplication(session)>>
    /\ UNCHANGED <<vars, session, application, adminVars>>

(* The answer replaces what is shown, also one of an earlier session. *)
Loaded ==
    /\ poll # <<>>
    /\ poll' = <<>> /\ application' \in {poll[1], application}
    /\ UNCHANGED <<vars, session, adminVars>>

(* The same application submitted again, after a lost answer, is found. *)
SubmitApplication ==
    /\ application = NoLine /\ Present(session)
    /\ CreateApplication(session) \/ (applications[session] # NoApplication /\ UNCHANGED vars)
    /\ UNCHANGED <<session, poll, adminVars>>
    /\ Answered(session)

StartAnotherApplication(b) ==
    /\ application # NoLine /\ NewSession(session, b)
    /\ session' = b /\ application' \in {NoLine, application}
    /\ UNCHANGED <<poll, adminVars>>

(* The button a view with a recovery action has, with a new key each time. *)
ResendInvitation(r, k) ==
    /\ application # NoLine /\ application.view.recovery
    /\ Resend(r, session, k)
    /\ UNCHANGED reviewVars

InvitationResent(r) ==
    /\ ResendSent(r)
    /\ UNCHANGED <<session, poll, adminVars>>
    /\ Answered(session)

VerifyFromEmail(a) ==
    /\ application = NoLine /\ Verify(a)
    /\ UNCHANGED <<session, poll, adminVars>>
    /\ Answered(a)

-----------------------------------------------------------------------------
(* The administrator. *)
Busy == task # NoTask

LoadApplications ==
    /\ ~Busy
    /\ listed' = [listed EXCEPT !.applications = [a \in Accounts |-> applications[a].state]]
    /\ task' = [kind |-> "load"]
    /\ UNCHANGED <<vars, applicantVars, issued, mailed>>

LoadInvitations ==
    /\ task.kind = "load"
    /\ listed' = [listed EXCEPT !.invitations = [i \in IIds |-> invitations[i].state]]
    /\ task' = NoTask
    /\ UNCHANGED <<vars, applicantVars, issued, mailed>>

(* The buttons of an application listed as reviewable. *)
Offered(a) == ~Busy /\ listed.applications[a] \in Reviewable

ApproveApplication(r, a) ==
    /\ Offered(a) /\ Approve(r, a)
    /\ task' = [kind |-> "approve", call |-> r]
    /\ UNCHANGED <<applicantVars, listed, issued, mailed>>

RejectApplication(a) ==
    /\ Offered(a) /\ Reject(a)
    /\ UNCHANGED reviewVars

(* createInvitation; its link is shown from then on. *)
IssueInvitation ==
    /\ ~Busy /\ CreateInvitation
    /\ issued' = invitationCount + 1 /\ mailed' = FALSE
    /\ task' = [kind |-> "issued"]
    /\ UNCHANGED <<applicantVars, listed>>

(* sendImmediately *)
SendIssued(r) ==
    /\ task.kind = "issued" /\ Send(r, issued)
    /\ task' = [kind |-> "send", call |-> r]
    /\ UNCHANGED <<applicantVars, listed, issued, mailed>>

Mut_AnyAnswer(r) == SendSent(r) \/ SendFailed(r)
(* The page says the mail was handed over when send answers. *)
HandedOver(r) == SendSent(r)

IssuedSent(r) ==
    /\ task.kind = "send" /\ task.call = r
    /\ HandedOver(r) /\ calls[r].invitation = issued
    /\ mailed' = TRUE /\ task' = NoTask
    /\ UNCHANGED <<applicantVars, listed, issued>>

(* Another answer, an error, none sent, or no answer at all. *)
TaskEnded ==
    /\ Busy
    /\ task' = NoTask
    /\ UNCHANGED <<vars, applicantVars, listed, issued, mailed>>

ApplicantNext ==
    \/ LoadCurrent \/ Loaded \/ SubmitApplication
    \/ \E a \in Accounts : StartAnotherApplication(a) \/ VerifyFromEmail(a)
    \/ \E r \in Calls : InvitationResent(r) \/ \E k \in Keys : ResendInvitation(r, k)

AdminNext ==
    \/ LoadApplications \/ LoadInvitations \/ IssueInvitation \/ TaskEnded
    \/ \E r \in Calls :
        \/ SendIssued(r) \/ IssuedSent(r)
        \/ \E a \in Accounts : ApproveApplication(r, a)
    \/ \E a \in Accounts : RejectApplication(a)

-----------------------------------------------------------------------------
Outcomes == {"REJECTED", "INVITATION_CLAIMED"}

(* However late a poll or a list comes, what these pages show as decided is  *)
(* so: an outcome listed is the application's, a registration confirmed has  *)
(* a claimed invitation, and a link shown as mailed belongs to one sent.     *)
ReviewPagesTellTheTruth ==
    /\ application # NoLine =>
        /\ application.state \in Outcomes => applications[application.owner].state = application.state
        /\ application.view.status = "REGISTRATION_CONFIRMED" =>
               invitations[applications[application.owner].invitation].state = "CLAIMED"
    /\ \A a \in Accounts :
        listed.applications[a] \in Outcomes => applications[a].state = listed.applications[a]
    /\ \A i \in IIds : listed.invitations[i] = "CLAIMED" => invitations[i].state = "CLAIMED"
    /\ mailed => invitations[issued].state \in {"SENT", "CLAIMED"}
=============================================================================
