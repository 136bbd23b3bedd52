----------------------------- MODULE Subscription -----------------------------
(***************************************************************************)
(* The listener's subscription on chain: CreatorFirstSubscription, the     *)
(* MockJPYC it is paid in and the CreatorFirstTreasury that keeps what was *)
(* paid.  A plan's version changes with every setPlan; a subscriber names  *)
(* the version it saw.  Roles are left out (the environment is whoever     *)
(* holds them); transfers between accounts are left out.                   *)
(***************************************************************************)
EXTENDS Integers, FiniteSets

CONSTANTS
    Accounts, Treasury,
    Plans,                      \* what setPlan is called with
    ClaimAmount,                \* CLAIM_AMOUNT
    References,                 \* of payments and of disbursements
    MaxBlockTime, MaxPlanVersion    \* bounds of the model

ASSUME SubscriptionAssumption ==
    /\ Treasury \notin Accounts
    /\ Plans \subseteq [price : Nat \ {0}, duration : Nat \ {0}, enabled : BOOLEAN] /\ Plans # {}
    /\ ClaimAmount \in Nat /\ MaxBlockTime \in Nat /\ MaxPlanVersion \in Nat

VARIABLES
    blockTime,
    plan, paused,
    balanceOf, allowance, hasClaimed,       \* MockJPYC; allowance for the subscription
    activeUntil,                            \* subscriptionActiveUntil
    payments,                               \* SubscriptionPaymentFinalized, by reference
    disbursements                           \* TreasuryDisbursed, by reference

planVars == <<plan, paused>>
assetVars == <<balanceOf, allowance, hasClaimed>>
chainVars == <<blockTime, planVars, assetVars, activeUntil, payments, disbursements>>

PlanVersion(p, v) == [price |-> p.price, duration |-> p.duration, enabled |-> p.enabled, version |-> v]

SubscriptionInit ==
    /\ blockTime = 1
    /\ \E p \in Plans : p.enabled /\ plan = PlanVersion(p, 1)
    /\ paused = FALSE
    /\ balanceOf = [a \in Accounts \cup {Treasury} |-> 0]
    /\ allowance = [a \in Accounts |-> 0] /\ hasClaimed = {}
    /\ activeUntil = [a \in Accounts |-> 0]
    /\ payments = {} /\ disbursements = {}

NewBlock ==
    /\ blockTime < MaxBlockTime /\ blockTime' = blockTime + 1
    /\ UNCHANGED <<planVars, assetVars, activeUntil, payments, disbursements>>

SetPlan(p) ==
    /\ plan.version < MaxPlanVersion
    /\ plan' = PlanVersion(p, plan.version + 1)
    /\ UNCHANGED <<blockTime, paused, assetVars, activeUntil, payments, disbursements>>

Pause(p) ==
    /\ paused # p /\ paused' = p
    /\ UNCHANGED <<blockTime, plan, assetVars, activeUntil, payments, disbursements>>

Claim(a) ==
    /\ a \notin hasClaimed
    /\ hasClaimed' = hasClaimed \cup {a}
    /\ balanceOf' = [balanceOf EXCEPT ![a] = @ + ClaimAmount]
    /\ UNCHANGED <<blockTime, planVars, allowance, activeUntil, payments, disbursements>>

Approve(a, amount) ==
    /\ allowance' = [allowance EXCEPT ![a] = amount]
    /\ UNCHANGED <<blockTime, planVars, balanceOf, hasClaimed, activeUntil, payments, disbursements>>

UsedReferences == {p.reference : p \in payments}

Mut_AnyVersion(version) == plan.enabled
(* InvalidPlan and StalePlanVersion. *)
PlanIs(version) == plan.enabled /\ version = plan.version

(* A subscription that still runs is extended. *)
Extended(a) == (IF activeUntil[a] > blockTime THEN activeUntil[a] ELSE blockTime) + plan.duration

Subscribe(a, reference, version) ==
    /\ ~paused /\ PlanIs(version)
    /\ reference \notin UsedReferences
    /\ balanceOf[a] >= plan.price /\ allowance[a] >= plan.price
    /\ balanceOf' = [balanceOf EXCEPT ![a] = @ - plan.price, ![Treasury] = @ + plan.price]
    /\ allowance' = [allowance EXCEPT ![a] = @ - plan.price]
    /\ activeUntil' = [activeUntil EXCEPT ![a] = Extended(a)]
    /\ payments' = payments \cup {[reference |-> reference, subscriber |-> a, amount |-> plan.price,
                                   version |-> version, until |-> Extended(a)]}
    /\ UNCHANGED <<blockTime, planVars, hasClaimed, disbursements>>

IsActive(a) == activeUntil[a] >= blockTime

Disburse(reference, a, amount) ==
    /\ \A d \in disbursements : d.reference # reference
    /\ amount > 0 /\ balanceOf[Treasury] >= amount
    /\ balanceOf' = [balanceOf EXCEPT ![Treasury] = @ - amount, ![a] = @ + amount]
    /\ disbursements' = disbursements \cup {[reference |-> reference, recipient |-> a, amount |-> amount]}
    /\ UNCHANGED <<blockTime, planVars, allowance, hasClaimed, activeUntil, payments>>

Operators ==
    \/ NewBlock
    \/ \E p \in Plans : SetPlan(p)
    \/ \E p \in BOOLEAN : Pause(p)
    \/ \E r \in References, a \in Accounts : Disburse(r, a, balanceOf[Treasury])

------------------------------------------------------------------------------
(* A subscription that runs was paid for: its end is the end of the last of  *)
(* its payments, and no two payments have one reference, whatever happens to *)
(* the plan, the pause and the treasury.                                     *)
RunsAsPaid ==
    /\ \A a \in Accounts : activeUntil[a] # 0 =>
           \E p \in payments : p.subscriber = a /\ p.until = activeUntil[a]
    /\ \A p, q \in payments : p.reference = q.reference => p = q
    /\ \A p \in payments : p.until <= activeUntil[p.subscriber]
=============================================================================
