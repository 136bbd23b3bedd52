------------------------ MODULE MCBicameralGovernor ------------------------
(* Values of the governor's constants for TLC.  Wallets, call data and CFP   *)
(* revisions are model values; durations are small and keep their order.     *)
EXTENDS BicameralGovernor, TLC

CONSTANTS u1, u2, u3, c1, c2, k1

Quorum(creator, user) == [h \in Houses |-> IF h = "CREATOR" THEN creator ELSE user]
Config(s, e, b, creator, user) ==
    [startsAt |-> s, endsAt |-> e, budget |-> b, quorum |-> Quorum(creator, user)]
Window(s, e) == [start |-> s, end |-> e]

(* A budget of 5 pays for one intensity 2 and one intensity 1; 10 is refused. *)
BallotSessions == {Config(1, 2, 5, 1, 2)}
BallotWindows == {Window(1, 2)}
BallotIntensities == {-1, 0, 2, 10}

(* Single-seat houses, so that one proposal runs its whole life, while the   *)
(* members of the next session are registered.                               *)
LifecycleSessions == {Config(1, 3, 5, 1, 1), Config(2, 3, 5, 1, 1)}
LifecycleWindows == {Window(1, 2), Window(1, 3)}
LifecycleIntensities == {-1, 2}

(* Its ballots are direct ones: no member signs for the relayer. *)
DirectBallot ==
    \E p \in PIds, m \in Members, i \in Intensities :
        CastVote(p, m, i) \/ CastCfpApprovalVote(p, m, i)

LifecycleSpec ==
    /\ Init /\ [][Tick \/ RegistrarStep \/ DirectBallot \/ ReviewerStep \/ OutcomeStep]_vars
    /\ Liveness

(* Signed ballots outlive direct ones: the window is two ticks wide. *)
RelaySessions == {Config(1, 3, 5, 1, 1)}
RelayWindows == {Window(1, 3)}
OneIntensity == {1}

Symm == Permutations(Members)
=============================================================================
