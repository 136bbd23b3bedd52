-------------------------- MODULE ProposalLifecycle --------------------------
(***************************************************************************)
(* What the governor promises about one proposal after another, without    *)
(* ballots, evidence or roles: a proposal is decided once, an approved one *)
(* is reviewed, a reviewed one waits in the timelock at least the shortest *)
(* delay, and its call is made at most once, inside its window, and never  *)
(* after a cancellation.                                                   *)
(***************************************************************************)
EXTENDS Integers

CONSTANTS Ids, MinDelay, Window

VARIABLES clock, phase, readyAt, deadline, called

Phases == {"none", "open", "rejected", "approved", "reviewed", "timelocked",
           "executed", "cancelled"}

vars == <<clock, phase, readyAt, deadline, called>>

Init ==
    /\ clock = 0
    /\ phase = [p \in Ids |-> "none"]
    /\ readyAt = [p \in Ids |-> 0] /\ deadline = [p \in Ids |-> 0]
    /\ called = [p \in Ids |-> FALSE]

Move(p, from, to) == phase[p] = from /\ phase' = [phase EXCEPT ![p] = to]

Advance == clock' > clock /\ UNCHANGED <<phase, readyAt, deadline, called>>

Register(p) == Move(p, "none", "open") /\ UNCHANGED <<clock, readyAt, deadline, called>>

Decide(p) ==
    /\ Move(p, "open", "approved") \/ Move(p, "open", "rejected")
    /\ UNCHANGED <<clock, readyAt, deadline, called>>

Review(p) == Move(p, "approved", "reviewed") /\ UNCHANGED <<clock, readyAt, deadline, called>>

Queue(p) ==
    /\ Move(p, "reviewed", "timelocked")
    /\ readyAt' = [readyAt EXCEPT ![p] = readyAt'[p]]
    /\ readyAt'[p] >= clock + MinDelay
    /\ deadline' = [deadline EXCEPT ![p] = readyAt'[p] + Window]
    /\ UNCHANGED <<clock, called>>

Execute(p) ==
    /\ Move(p, "timelocked", "executed")
    /\ readyAt[p] <= clock /\ clock <= deadline[p]
    /\ ~called[p] /\ called' = [called EXCEPT ![p] = TRUE]
    /\ UNCHANGED <<clock, readyAt, deadline>>

Cancel(p) ==
    /\ Move(p, "timelocked", "cancelled")
    /\ UNCHANGED <<clock, readyAt, deadline, called>>

Next ==
    \/ Advance
    \/ \E p \in Ids : Register(p) \/ Decide(p) \/ Review(p) \/ Queue(p) \/ Execute(p) \/ Cancel(p)

Spec == Init /\ [][Next]_vars
=============================================================================
