------------------------ MODULE SupporterRegistration ------------------------
(***************************************************************************)
(* Supporter registration as the gateway serves it, side by side: the page *)
(* with the relayer and the credential, and the creators' registry with    *)
(* what the relayers remember of the chain.  The two share no variable,    *)
(* since the creator a request may name is left out of the relayer.        *)
(***************************************************************************)
EXTENDS SupporterPage, CreatorDirectory

creatorVars == <<registryVars, directoryVars>>

SupporterRegistrationSpec == SupporterPageSpec /\ DirectorySpec

(* The relayer runs a request once and the page says what came of it; what   *)
(* the relayer remembers of the chain was so a moment ago, and the registry  *)
(* it asks agrees with itself.                                               *)
RelayIsToldTruly ==
    KeyRunsOnce /\ SupporterPageTellsTheTruth /\ AnswersAreRecent /\ IndexesFollowRecords
=============================================================================
