------------------------ MODULE GovernanceVoteRelayer ------------------------
(***************************************************************************)
(* The gateway's GovernanceVoteRelayer in front of the governor: it pays   *)
(* the gas of a ballot a member signed.  relay remembers an operation per  *)
(* member and idempotency key in a map of at most Capacity entries (512)   *)
(* and drops an entry whose operation fails.  An operation awaits the      *)
(* contract's status, the simulation, the submission and the receipt;      *)
(* other requests, blocks and restarts come in between, and what was sent  *)
(* stays in the relayer account's transaction pool.                        *)
(*                                                                         *)
(* The governor keeps all of its own steps: members vote directly and      *)
(* another relayer may submit the same ballot.  A request that is not well *)
(* formed, not signed by the member, or refused by the 30 s cache of       *)
(* available() changes nothing and is left out.                            *)
(***************************************************************************)
EXTENDS BicameralGovernor, Sequences, SequencesExt

CONSTANTS
    Keys, Ops,        \* idempotency keys; calls of relay
    Capacity,         \* operations.size
    MaxPool           \* bound of the model

ASSUME VoteRelayerAssumption == Capacity \in Nat \ {0} /\ MaxPool \in Nat

VARIABLES
    ops,              \* what each call of relay does
    operations,       \* the map's entries, oldest first
    pool              \* calls whose transaction is sent and not mined

relayerVars == <<ops, operations, pool>>
allVars == <<vars, relayerVars>>

NoOp == [pc |-> "idle"]
RelayerInit == Init /\ ops = [o \in Ops |-> NoOp] /\ operations = <<>> /\ pool = <<>>

KeyOf(o) == <<ops[o].ballot.member, ops[o].key>>
Running(o) == ops[o].pc \in {"status", "submit", "waiting", "mined"}
Goes(o, pc) == ops' = [ops EXCEPT ![o].pc = pc]

(* operations.delete(operationKey): the entry the key has by now. *)
Fails(o) ==
    /\ Goes(o, "failed")
    /\ operations' = SelectSeq(operations, LAMBDA n : KeyOf(n) # KeyOf(o))

(* A prior entry answers with its promise, or conflicts: no step. *)
Relay(o, b, k) ==
    /\ ops[o] = NoOp /\ now <= b.deadline
    /\ \A n \in Range(operations) : KeyOf(n) # <<b.member, k>>
    /\ ops' = [ops EXCEPT ![o] = [pc |-> "status", ballot |-> b, key |-> k]]
    /\ operations' = Append(IF Len(operations) >= Capacity THEN Tail(operations) ELSE operations, o)
    /\ UNCHANGED <<vars, pool>>

(* #relay: the house and the nonce are read, and compared with the ballot's. *)
StatusRead(o) ==
    LET b == ops[o].ballot IN
    /\ ops[o].pc = "status"
    /\ \/ /\ memberHouse[b.session][b.member] = b.house /\ votingNonces[b.member] = b.nonce
          /\ Goes(o, "submit") /\ UNCHANGED operations
       \/ Fails(o)
    /\ UNCHANGED <<vars, pool>>

(* chain.relay: the simulation passes and the transaction is sent, although  *)
(* the server's answer may be lost.                                          *)
Submit(o) ==
    /\ ops[o].pc = "submit"
    /\ ENABLED CastCfpApprovalVoteBySig(ops[o].ballot) /\ Len(pool) < MaxPool
    /\ pool' = Append(pool, [op |-> o, ballot |-> ops[o].ballot])
    /\ (Goes(o, "waiting") /\ UNCHANGED operations) \/ Fails(o)
    /\ UNCHANGED vars

SubmitFails(o) == ops[o].pc = "submit" /\ Fails(o) /\ UNCHANGED <<vars, pool>>

Mut_AnyReceipt(o, success) == IF ops[o].pc = "waiting" THEN "mined" ELSE ops[o].pc
(* What a call that still waits for its receipt learns from it. *)
Receipt(o, success) ==
    IF ops[o].pc # "waiting" THEN ops[o].pc ELSE IF success THEN "mined" ELSE "reverted"

(* The pool's first transaction is mined: the contract decides again.        *)
Mine ==
    /\ pool # <<>>
    /\ pool' = Tail(pool)
    /\ \/ /\ CastCfpApprovalVoteBySig(Head(pool).ballot)
          /\ Goes(Head(pool).op, Receipt(Head(pool).op, TRUE))
       \/ /\ UNCHANGED vars
          /\ Goes(Head(pool).op, Receipt(Head(pool).op, FALSE))
    /\ UNCHANGED operations

Dropped == pool # <<>> /\ pool' = Tail(pool) /\ UNCHANGED <<vars, ops, operations>>

(* Two confirmations and a last read of the status. *)
Confirm(o) == ops[o].pc = "mined" /\ Goes(o, "confirmed") /\ UNCHANGED <<vars, operations, pool>>

Mut_NoTimeout(o) == ops[o].pc \in {"mined", "reverted"}
(* The receipt is a revert, did not come within 120 s, or a read failed.     *)
NoAnswer(o) == ops[o].pc \in {"waiting", "mined", "reverted"}
RelayFails(o) == NoAnswer(o) /\ Fails(o) /\ UNCHANGED <<vars, pool>>

(* Memory goes, the transactions stay; their calls have nobody to answer.    *)
Restart ==
    /\ operations # <<>>
    /\ ops' = [o \in Ops |-> IF Running(o) \/ ops[o].pc = "reverted"
                             THEN [ops[o] EXCEPT !.pc = "lost"] ELSE ops[o]]
    /\ operations' = <<>>
    /\ UNCHANGED <<vars, pool>>

Answers(o) == StatusRead(o) \/ SubmitFails(o) \/ RelayFails(o)

RelayerNext ==
    \/ Next /\ UNCHANGED relayerVars
    \/ \E o \in Ops :
        \/ \E b \in signed, k \in Keys : Relay(o, b, k)
        \/ Submit(o) \/ Confirm(o) \/ Answers(o)
    \/ Mine \/ Dropped \/ Restart

(* Every call to the RPC servers ends: each transport has a timeout.         *)
RelayerSpec ==
    /\ RelayerInit /\ [][RelayerNext]_allVars
    /\ \A o \in Ops : WF_allVars(Answers(o))

------------------------------------------------------------------------------
(* Properties. *)

(* VOTE_CONFIRMED is said only of a ballot that the contract counted, through *)
(* this call's own transaction: lost answers, timeouts, reverts and the same  *)
(* ballot sent twice never make the relayer confirm more than was counted.    *)
AnswersAreTrue ==
    /\ \A o \in Ops : ops[o].pc = "confirmed" => ops[o].ballot \in relayed
    /\ \A o, n \in Ops : ops[o].pc = "confirmed" /\ ops[n].pc = "confirmed" /\ o # n =>
            ops[o].ballot # ops[n].ballot

(* A caller gets an answer, whatever the servers and the chain do. *)
EveryRelayIsAnswered == \A o \in Ops : Running(o) ~> ~Running(o)
=============================================================================
