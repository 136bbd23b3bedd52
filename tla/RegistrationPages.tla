--------------------------- MODULE RegistrationPages ---------------------------
(***************************************************************************)
(* The onboarding with its clients: the handlers, whoever calls them, the  *)
(* page of an invitation's link, the applicant's page and the              *)
(* administrator's, and a mail on its way through the transport.  The      *)
(* pages share the rows and accounts of ParticipantOnboarding and nothing  *)
(* else; of the mail's conversation the handlers see its outcome.          *)
(***************************************************************************)
EXTENDS InvitationPage, ReviewPages, MailTransport

registrationVars == <<vars, pageVars, reviewVars, mailVars>>

RegistrationInit == Init /\ InvitationPageInit /\ ReviewPagesInit /\ MailInit

Onboards ==
    \/ Next /\ UNCHANGED <<pageVars, reviewVars>>
    \/ InvitationPageNext /\ UNCHANGED reviewVars
    \/ (ApplicantNext \/ AdminNext) /\ UNCHANGED pageVars

RegistrationNext ==
    \/ Onboards /\ UNCHANGED mailVars
    \/ MailNext /\ UNCHANGED <<vars, pageVars, reviewVars>>

RegistrationSpec == RegistrationInit /\ [][RegistrationNext]_registrationVars

(* The pages of the onboarding show what was reached and nothing else, and a *)
(* mail reported as sent was accepted by the server.                         *)
WhatIsSaidIsSo == InvitationPageTellsTheTruth /\ ReviewPagesTellTheTruth /\ MailIsSentWhenSaid
=============================================================================
