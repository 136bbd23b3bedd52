------------------------------ MODULE MCListener ------------------------------
(* Values of the constants for TLC.  A behaviour has one of two scopes:       *)
(*   enrolling  the operator enrols participants,                            *)
(*   listening  a participant's page starts a subscription.                  *)
EXTENDS MCParticipantEnrollment, ListenerPage

CONSTANTS a1, a2, f1, f2, s1, s2, y1, y2

VARIABLE scope

(* The first plan costs all that is claimed, the second as much or less.     *)
TwoPlans == {[price |-> p, duration |-> 1, enabled |-> TRUE] : p \in {1, 2}}

UnderWay ==
    Cardinality({f \in Reads : reads[f] # NoTask /\ reads[f].done \notin Sends})
    + Cardinality({s \in Sends : Sending(s)})

(* The listener is a1; a2 is another account of the wallet.  What overlaps   *)
(* is the way from the approval to the subscription, and a2 only acts on     *)
(* what the page shows of a1.                                                *)
OneListener ==
    /\ blockTime = 1 /\ disbursements = {} /\ ~paused
    /\ UnderWay <= 2 /\ (UnderWay = 2 => allowance[a1] > 0 \/ payments # {})
    /\ Sending(s2) => Sending(s1) /\ sends[s2].action = "subscribe"
    /\ onAmoy \/ participant[a1] = "none"
    /\ participant[a2] = "none"
    /\ \A s \in Sends : Sending(s) =>
        /\ sends[s].sender = a2 => sends[s].action = "subscribe" /\ s = s1
        /\ sends[s].action # "subscribe" => sends[s].reference = y1
    /\ hasClaimed = {} =>
        /\ UnderWay <= 1 /\ account # a2 /\ plan.version = 1
        /\ account = NoAccount => participant[a1] = "approved" /\ enrolled = "none"
        /\ \A s \in Sends : ~SendIs(s, "unwatched")

listening == <<chainVars, listenerVars>>

ScopedInit ==
    /\ Init /\ SubscriptionInit /\ ListenerInit
    /\ scope \in {"enrolling", "listening"}
    /\ plan.price = 2 /\ (scope = "enrolling" => onAmoy)

ScopedSpec ==
    /\ ScopedInit
    /\ [][/\ \/ scope = "enrolling" /\ Next /\ UNCHANGED listening
             \/ scope = "listening" /\ ListenerNext /\ OneListener' /\ UNCHANGED vars
          /\ scope' = scope]_<<vars, listening, scope>>
    /\ WF_vars(Operate) /\ WF_vars(Mine)
    /\ \A i \in Invitations : WF_vars(Reconcile(i))
=============================================================================
