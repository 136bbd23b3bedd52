----------------------- MODULE MCVerifiableSortition -----------------------
(* Values of the sortition's constants for TLC.  A behaviour has one of two  *)
(* scopes, so that their sizes add up:                                       *)
(*   draw   four candidates are drawn in session s1, in every order, while   *)
(*          s2 competes for the request ids,                                 *)
(*   seats  the candidates drawn in session s3 claim their seats.  Each house *)
(*          has a roster of three: one identity is on both with two wallets, *)
(*          and one wallet is on both with two identities.                   *)
EXTENDS VerifiableSortition, TLC

CONSTANTS i1, i2, i3, i4, w1, w2, w3, w4, s1, s2, s3, r1, r2

VARIABLE scope

Candidates(a, b, c) == [p \in Positions |-> CASE p = 0 -> a [] p = 1 -> b [] OTHER -> c]
Person(i, w) == [id |-> i, wallet |-> w]

SeatRoster == [h \in Houses |->
    IF h = "CREATOR" THEN Candidates(Person(i1, w1), Person(i2, w2), Person(i3, w3))
                     ELSE Candidates(Person(i1, w4), Person(i4, w2), Person(i3, w3))]
DrawRoster == [h \in Houses |-> [p \in Positions |-> Person(i1, w1)]]
BothRosters == {SeatRoster, DrawRoster}

Size(n, k, a) == [population |-> n, primary |-> k, alternates |-> a]
SeatSizes == [h \in Houses |-> Size(3, 1, 1)]
DrawSizes == [h \in Houses |-> IF h = "CREATOR" THEN Size(4, 3, 1) ELSE Size(1, 1, 0)]
BothSizes == {SeatSizes, DrawSizes}

(* Only the first of the draw's schedules can be answered within its time,   *)
(* and only s1 starts late enough for it.                                    *)
Deadline(c, d) == [closesAt |-> c, claimDeadline |-> d]
SeatSchedules == {Deadline(1, 2)}
DrawSchedules == {Deadline(1, 5), Deadline(3, 4)}
BothSchedules == SeatSchedules \cup DrawSchedules
BothStarts == [s \in Sessions |-> CASE s = s1 -> 6 [] s = s2 -> 5 [] OTHER -> 4]

(* Every sequence of positions the draw of two of three can take, and of     *)
(* four of four.                                                             *)
Word(c, u) == [h \in Houses |-> IF h = "CREATOR" THEN c ELSE u]
SeatHashes == {f \in [Positions -> 0..2] : f[1] < 2 /\ f[2] = 0 /\ f[3] = 0}
DrawHashes == {f \in [Positions -> 0..3] : \A p \in Positions : f[p] <= 3 - p}
BothWords ==
    {Word(c, u) : c, u \in SeatHashes} \cup {Word(c, [p \in Positions |-> 0]) : c \in DrawHashes}

(* Wallets registered by others. *)
Others(s) == {w \in Wallets : memberHouse[s][w] # None} \ {x.entry.wallet : x \in claims[s]}

Untouched(s) == ~rounds[s].exists /\ \A w \in Wallets : memberHouse[s][w] = None

InScope ==
    /\ scope = "seats" =>
        /\ Untouched(s1) /\ Untouched(s2) /\ requestSession[r2] = None
        /\ config[s3]["USER"].population \in {0, 3} /\ Cardinality(Others(s3)) <= 1
        /\ rounds[s3].exists =>
            /\ rounds[s3].roster = SeatRoster
            /\ rounds[s3].fulfilled => \A h \in Houses : rounds[s3].word[h] \in SeatHashes
    /\ scope = "draw" =>
        /\ Untouched(s3) /\ now <= 2
        /\ \A s \in {s1, s2} :
            /\ config[s]["USER"].population \in {0, 1}
            /\ claims[s] = {} /\ \A w \in Wallets : memberHouse[s][w] = None
            /\ rounds[s].exists =>
                /\ rounds[s].roster = DrawRoster
                /\ Deadline(rounds[s].closesAt, rounds[s].claimDeadline) \in DrawSchedules
                /\ rounds[s].fulfilled => rounds[s].word["USER"] = [p \in Positions |-> 0]

ScopedInit == Init /\ scope \in {"draw", "seats"}

ScopedSpec ==
    /\ ScopedInit
    /\ [][Next /\ scope' = scope /\ InScope']_<<vars, scope>>
    /\ \A s \in Sessions, h \in Houses : WF_vars(FinalizeNextSelection(s, h))
=============================================================================
