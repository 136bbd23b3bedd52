------------------------ MODULE ParticipantEnrollment ------------------------
(***************************************************************************)
(* From a claimed invitation to an approved and funded participant: the    *)
(* ParticipantEnrollmentOperator, its participant_enrollments rows, the    *)
(* transactions it sends from one account, and the registry contract       *)
(* CreatorFirstTestnetParticipantRegistry.                                 *)
(*                                                                         *)
(* The operator runs one invitation at a time (transactionQueue); op is    *)
(* the await it is in, and every action on op is the code up to the next   *)
(* await.  Transactions are mined in nonce order, possibly after the       *)
(* operator stopped waiting for them.  An invitation's enrollment has one  *)
(* participantId and one operationId, so the invitation names them.        *)
(* Faults of the network, the chain and the administrator are bounded.     *)
(***************************************************************************)
EXTENDS Integers, FiniteSets, Sequences, SequencesExt

CONSTANTS
    Invitations, Wallets, NoInvitation, NoWallet,
    ApprovalTTL,           \* APPROVAL_TTL_MS
    MaxTime, MaxFaults     \* bounds of the model

ASSUME EnrollmentAssumption ==
    /\ NoInvitation \notin Invitations /\ NoWallet \notin Wallets
    /\ ApprovalTTL \in Nat \ {0} /\ MaxTime \in Nat \ {0} /\ MaxFaults \in Nat

FundingStates == {"APPROVED", "FUNDING_SUBMITTED", "FUNDING_FAILED"}
RowStates == {"none", "READY_FOR_APPROVAL", "APPROVAL_SUBMITTED", "APPROVAL_FAILED", "FUNDED"}
             \cup FundingStates

NoRow == [state |-> "none", expiresAt |-> 0, amount |-> "none"]
NotApproved == [wallet |-> NoWallet, expiresAt |-> 0, active |-> FALSE,
                registered |-> FALSE, funded |-> FALSE]
Idle == [pc |-> "idle", inv |-> NoInvitation, outcome |-> "none"]

VARIABLES
    now, faults,
    claimed,          \* participant_invitations.claimed_wallet
    rows,             \* participant_enrollments
    running, queue,   \* the running map; the promises chained on transactionQueue
    op,               \* the enrollment being processed, and its transaction's receipt
    pool,             \* transactions sent and not yet mined, by nonce
    chain,            \* the registry's participants
    idByWallet        \* the registry's participantIdByWallet

operator == <<rows, running, queue, op>>
registry == <<chain, idByWallet>>
vars == <<now, faults, claimed, operator, pool, registry>>

Init ==
    /\ now = 1 /\ faults = 0
    /\ claimed = [i \in Invitations |-> NoWallet]
    /\ rows = [i \in Invitations |-> NoRow]
    /\ running = {} /\ queue = <<>> /\ op = Idle /\ pool = <<>>
    /\ chain = [i \in Invitations |-> NotApproved]
    /\ idByWallet = [w \in Wallets |-> NoInvitation]

Tick == now < MaxTime /\ now' = now + 1 /\ UNCHANGED <<faults, claimed, operator, pool, registry>>

Fault == faults < MaxFaults /\ faults' = faults + 1

(***************************************************************************)
(* process: at most one promise per invitation, chained on the queue.      *)
(***************************************************************************)
Mut_Concurrent(i) == TRUE
NotRunning(i) == i \notin running

Enqueue(i) == running' = running \cup {i} /\ queue' = Append(queue, i)

ClaimInvitation(i, w) ==
    /\ claimed[i] = NoWallet
    /\ claimed' = [claimed EXCEPT ![i] = w]
    /\ Enqueue(i)
    /\ UNCHANGED <<now, faults, rows, op, pool, registry>>

(* The reconciliation timer, for a row that is not FUNDED; the same wallet  *)
(* claiming again, for any.                                                 *)
Process(i) ==
    /\ claimed[i] # NoWallet /\ NotRunning(i)
    /\ Enqueue(i)
    /\ UNCHANGED <<now, faults, claimed, rows, op, pool, registry>>

Reconcile(i) == rows[i].state # "FUNDED" /\ Process(i)

Await(pc) == op' = [op EXCEPT !.pc = pc, !.outcome = "none"]
SetRow(row) == rows' = [rows EXCEPT ![op.inv] = row]

Mut_StaysRunning == running
Released == running \ {op.inv}
Done == op' = Idle /\ running' = Released

Mut_NeverDone(row) == FALSE
AlreadyFunded(row) == row.state = "FUNDED"

(* The queue's next #process, up to the first await of the chain's status. *)
Begin ==
    /\ op = Idle /\ queue # <<>>
    /\ queue' = Tail(queue)
    /\ LET i == Head(queue) IN
       /\ rows' = IF rows[i] = NoRow
                  THEN [rows EXCEPT ![i].state = "READY_FOR_APPROVAL", ![i].expiresAt = now + ApprovalTTL]
                  ELSE rows
       /\ IF AlreadyFunded(rows[i])
          THEN op' = Idle /\ running' = running \ {i}
          ELSE op' = [pc |-> "status", inv |-> i, outcome |-> "none"] /\ running' = running
    /\ UNCHANGED <<now, faults, claimed, pool, registry>>

(* What follows a status that shows an approval: a deactivated participant  *)
(* stops here, a funded one is recorded, any other one is funded.           *)
AfterApproval(row) ==
    LET p == chain[op.inv] IN
    \/ ~p.active /\ SetRow(row) /\ Done
    \/ p.active /\ p.funded /\ SetRow([row EXCEPT !.state = "FUNDED", !.amount = "zero"]) /\ Done
    \/ p.active /\ ~p.funded /\ SetRow(row) /\ Await("fund") /\ UNCHANGED running

OfAnother(i) == idByWallet[claimed[i]] \notin {NoInvitation, i}

StatusAnswered ==
    /\ op.pc = "status"
    /\ LET i == op.inv
           row == rows[i] IN
       \/ /\ OfAnother(i)
          /\ Done /\ UNCHANGED rows
       \/ /\ ~OfAnother(i) /\ chain[i].wallet = NoWallet
          /\ Await("approve") /\ UNCHANGED <<rows, running>>
       \/ /\ ~OfAnother(i) /\ chain[i].wallet # NoWallet
          /\ AfterApproval(IF row.state \in FundingStates THEN row ELSE [row EXCEPT !.state = "APPROVED"])
    /\ UNCHANGED <<now, faults, claimed, queue, pool, registry>>

(* writeContract with a fixed gas limit: the call is not simulated first. *)
Send(pc, kind, next) ==
    /\ op.pc = pc
    /\ pool' = Append(pool, [kind |-> kind, inv |-> op.inv])
    /\ op' = [op EXCEPT !.pc = next, !.outcome = "pending"]
    /\ UNCHANGED <<now, faults, claimed, rows, running, queue, registry>>

SendApproval == Send("approve", "approve", "approval")
SendFunding == Send("fund", "fund", "funding")

Mut_AnyReceipt == op.outcome # "pending"
Confirmed == op.outcome = "success"

ApprovalConfirmed ==
    /\ op.pc = "approval" /\ Confirmed
    /\ SetRow([rows[op.inv] EXCEPT !.state = "APPROVED"]) /\ Await("recheck")
    /\ UNCHANGED <<now, faults, claimed, running, queue, pool, registry>>

StatusRechecked ==
    /\ op.pc = "recheck"
    /\ AfterApproval(rows[op.inv])
    /\ UNCHANGED <<now, faults, claimed, queue, pool, registry>>

FundingConfirmed ==
    /\ op.pc = "funding" /\ Confirmed
    /\ Await("balance")
    /\ UNCHANGED <<now, faults, claimed, rows, running, queue, pool, registry>>

(* The balance after the transfer: the amount recorded is the difference. *)
BalanceAnswered ==
    /\ op.pc = "balance"
    /\ SetRow([rows[op.inv] EXCEPT !.state = "FUNDED", !.amount = "measured"]) /\ Done
    /\ UNCHANGED <<now, faults, claimed, queue, pool, registry>>

(* failParticipantEnrollment: the phase is what the row says by now. *)
FailedState(s) == IF s \in FundingStates THEN "FUNDING_FAILED" ELSE "APPROVAL_FAILED"

Failed ==
    /\ SetRow([rows[op.inv] EXCEPT !.state = FailedState(@)])
    /\ Done
    /\ UNCHANGED <<now, claimed, queue, pool, registry>>

(* A receipt that says reverted, or none within the wait. *)
ReceiptMissing ==
    /\ op.outcome \in {"reverted", "dropped"}
    /\ Failed /\ UNCHANGED faults

(* The wait times out, or an RPC call fails. *)
CallFails == op # Idle /\ Fault /\ Failed

(* The process dies, perhaps between the two updates of a confirmation. *)
Restart ==
    /\ Fault
    /\ op' = Idle /\ running' = {} /\ queue' = <<>>
    /\ \/ UNCHANGED rows
       \/ /\ op.pc = "approval" /\ Confirmed
          /\ rows[op.inv].state \in {"READY_FOR_APPROVAL", "APPROVAL_FAILED"}
          /\ SetRow([rows[op.inv] EXCEPT !.state = "APPROVAL_SUBMITTED"])
       \/ /\ op.pc = "balance"
          /\ rows[op.inv].state \in {"APPROVED", "FUNDING_FAILED"}
          /\ SetRow([rows[op.inv] EXCEPT !.state = "FUNDING_SUBMITTED"])
    /\ UNCHANGED <<now, claimed, pool, registry>>

(***************************************************************************)
(* The chain, and the registry contract.                                   *)
(***************************************************************************)
Mut_WalletTwice(i) == rows[i].expiresAt > now /\ chain[i].wallet = NoWallet
Approvable(i) ==
    /\ rows[i].expiresAt > now
    /\ chain[i].wallet = NoWallet
    /\ idByWallet[claimed[i]] = NoInvitation

ApproveClaimedInvitation(i) ==
    /\ Approvable(i)
    /\ chain' = [chain EXCEPT ![i] = [NotApproved EXCEPT !.wallet = claimed[i],
                                      !.expiresAt = rows[i].expiresAt, !.active = TRUE]]
    /\ idByWallet' = [idByWallet EXCEPT ![claimed[i]] = i]

ActiveApproval(i) ==
    /\ chain[i].wallet # NoWallet /\ chain[i].active
    /\ chain[i].registered \/ chain[i].expiresAt >= now

FundInitial(i) ==
    /\ ActiveApproval(i) /\ ~chain[i].funded
    /\ chain' = [chain EXCEPT ![i].funded = TRUE]
    /\ UNCHANGED idByWallet

RegisterSelf(i) ==
    /\ ActiveApproval(i) /\ ~chain[i].registered
    /\ chain' = [chain EXCEPT ![i].registered = TRUE]
    /\ UNCHANGED <<now, faults, claimed, operator, pool, idByWallet>>

SetParticipantActive(i, active) ==
    /\ chain[i].wallet # NoWallet /\ chain[i].active # active
    /\ active \/ Fault
    /\ active => UNCHANGED faults
    /\ chain' = [chain EXCEPT ![i].active = active]
    /\ UNCHANGED <<now, claimed, operator, pool, idByWallet>>

Call(tx) == IF tx.kind = "approve" THEN ApproveClaimedInvitation(tx.inv) ELSE FundInitial(tx.inv)
Refused(tx) ==
    IF tx.kind = "approve" THEN ~Approvable(tx.inv)
                           ELSE ~(ActiveApproval(tx.inv) /\ ~chain[tx.inv].funded)

(* The receipt reaches the operator if it still waits: its own transaction  *)
(* is the last one sent.                                                    *)
Receipt(outcome) ==
    op' = IF Len(pool) = 1 /\ op.outcome = "pending" THEN [op EXCEPT !.outcome = outcome] ELSE op

Mine ==
    /\ pool # <<>>
    /\ pool' = Tail(pool)
    /\ \/ Call(Head(pool)) /\ Receipt("success")
       \/ Refused(Head(pool)) /\ Receipt("reverted") /\ UNCHANGED registry
    /\ UNCHANGED <<now, faults, claimed, rows, running, queue>>

(* A pause of either contract, gas, or the distributor's budget. *)
MineReverted ==
    /\ pool # <<>> /\ Fault
    /\ pool' = Tail(pool) /\ Receipt("reverted")
    /\ UNCHANGED <<now, claimed, rows, running, queue, registry>>

(* The network forgets the last transaction sent. *)
Drop ==
    /\ pool # <<>> /\ Fault
    /\ pool' = Front(pool)
    /\ op' = IF op.outcome = "pending" THEN [op EXCEPT !.outcome = "dropped"] ELSE op
    /\ UNCHANGED <<now, claimed, rows, running, queue, registry>>

Operate ==
    \/ Begin \/ StatusAnswered \/ SendApproval \/ ApprovalConfirmed \/ StatusRechecked
    \/ SendFunding \/ FundingConfirmed \/ BalanceAnswered \/ ReceiptMissing

Next ==
    \/ Tick \/ Operate \/ CallFails \/ Restart \/ Mine \/ MineReverted \/ Drop
    \/ \E i \in Invitations :
        \/ Process(i) \/ RegisterSelf(i)
        \/ \E w \in Wallets : ClaimInvitation(i, w)
        \/ \E active \in BOOLEAN : SetParticipantActive(i, active)

Spec == Init /\ [][Next]_vars

(* The event loop runs what an answered await resumes, the RPC answers, the  *)
(* timer fires and the chain mines; faults are never due.                    *)
LiveSpec ==
    /\ Spec /\ WF_vars(Operate) /\ WF_vars(Mine)
    /\ \A i \in Invitations : WF_vars(Reconcile(i))

-----------------------------------------------------------------------------
(* Rows, registry entries and the operator's await are of their types; no    *)
(* transaction is awaited unless it was the last one sent.                   *)
TypeOK ==
    /\ now \in 1..MaxTime /\ faults \in 0..MaxFaults
    /\ claimed \in [Invitations -> Wallets \cup {NoWallet}]
    /\ rows \in [Invitations -> [state : RowStates, expiresAt : 0..(MaxTime + ApprovalTTL),
                                 amount : {"none", "measured", "zero"}]]
    /\ running \subseteq Invitations /\ queue \in Seq(Invitations)
    /\ op \in [pc : {"idle", "status", "approve", "approval", "recheck", "fund", "funding", "balance"},
               inv : Invitations \cup {NoInvitation},
               outcome : {"none", "pending", "success", "reverted", "dropped"}]
    /\ op.outcome = "pending" => pool # <<>> /\ Last(pool).inv = op.inv
    /\ pool \in Seq([kind : {"approve", "fund"}, inv : Invitations])
    /\ chain \in [Invitations -> [wallet : Wallets \cup {NoWallet}, expiresAt : 0..(MaxTime + ApprovalTTL),
                                  active : BOOLEAN, registered : BOOLEAN, funded : BOOLEAN]]
    /\ idByWallet \in [Wallets -> Invitations \cup {NoInvitation}]

(* An invitation waits or runs once at a time, whatever the claim, the       *)
(* timer and restarts ask for: running is exactly what is queued or in op.   *)
EachRunsOnce ==
    /\ running = ToSet(queue) \cup ({op.inv} \ {NoInvitation})
    /\ Len(queue) = Cardinality(running \ {op.inv})

(* A row does not say more than the chain: from APPROVED on, the registry    *)
(* holds the claimed wallet; FUNDED, the registry made the initial transfer. *)
(* Timeouts, restarts and late transactions may only make it say less.       *)
RowsFollowTheChain ==
    \A i \in Invitations :
        /\ rows[i].state \in FundingStates \cup {"FUNDED"} => chain[i].wallet = claimed[i]
        /\ rows[i].state = "FUNDED" => chain[i].funded

(* The registry's two maps are inverse: a wallet has one participant, also   *)
(* when two invitations claimed by it are approved by transactions in flight *)
(* together (the operator looked before either was mined).                   *)
OneParticipantPerWallet ==
    \A i \in Invitations : \A w \in Wallets : chain[i].wallet = w <=> idByWallet[w] = i

(* A funded row is final: processing it again, after another claim by the    *)
(* same wallet, does not overwrite the amount that was measured.             *)
FundedIsFinal ==
    [][\A i \in Invitations : rows[i].state = "FUNDED" => rows'[i] = rows[i]]_vars

(* Refusals of the registry that no retry overcomes. *)
Excused(i) ==
    \/ (claimed[i] # NoWallet /\ OfAnother(i)) \/ (chain[i].wallet # NoWallet /\ ~chain[i].active)
    \/ (rows[i].state # "none" /\ rows[i].expiresAt <= now)

(* Retries, late transactions and restarts lead every claimed invitation to  *)
(* FUNDED, unless the registry itself refuses it: its wallet is another      *)
(* participant's, it was deactivated, or the approval's period is over.      *)
EnrollmentCompletes ==
    \A i \in Invitations : claimed[i] # NoWallet ~> (rows[i].state = "FUNDED" \/ Excused(i))

(* REQ-ACCOUNT-146: once the invitation is claimed, approval and funding     *)
(* execute and recover automatically.  The expiry fixed at the first attempt *)
(* is sent again by every retry, so none succeeds after it.                  *)
RecoveryIsAutomatic ==
    \A i \in Invitations : claimed[i] # NoWallet ~> rows[i].state = "FUNDED"
=============================================================================
