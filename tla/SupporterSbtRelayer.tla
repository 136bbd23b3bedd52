------------------------ MODULE SupporterSbtRelayer ------------------------
(***************************************************************************)
(* The gateway's SupporterSbtRelayer in front of the supporter credential. *)
(*                                                                         *)
(* relay runs one operation per idempotency key and remembers its promise  *)
(* in operations, a map of at most Capacity entries (512) that forgets the *)
(* oldest.  An operation awaits the contract's status and then the RPC     *)
(* server; other requests, restarts and blocks come in between, and what   *)
(* was sent waits in the relayer account's transaction pool.  A holder may *)
(* also register with a transaction of its own through the adapter.        *)
(*                                                                         *)
(* Left out: the caches of available and supportTargets, the creators a    *)
(* request may name.  The reads of one status are taken as one; contracts  *)
(* decide again when the transaction is mined.                             *)
(***************************************************************************)
EXTENDS SupporterSBT, Sequences, SequencesExt

CONSTANTS
    Keys, Ops,
    Capacity, MaxLifetime,      \* operations.size; MAX_INTENT_LIFETIME_SECONDS and 15 minutes
    MaxPool                     \* bound of the model

ASSUME RelayerAssumption ==
    Capacity \in Nat \ {0} /\ MaxLifetime \in Nat /\ MaxPool \in Nat

VARIABLES
    ops,           \* what each call of relay does
    operations,    \* the map's operations, oldest first
    pool,          \* intents sent and not mined
    evicted        \* history: keys whose entry was evicted since the start

relayerVars == <<ops, operations, pool, evicted>>
vars == <<sbtVars, relayerVars>>

NoOp == [pc |-> "idle", key |-> <<>>, intent |-> NoIntent, genuine |-> FALSE]

Init ==
    /\ SbtInit
    /\ ops = [o \in Ops |-> NoOp]
    /\ operations = <<>> /\ pool = <<>> /\ evicted = {}

Remembered == {operations[n] : n \in DOMAIN operations}

NoPrior(key) == \A o \in Remembered : ops[o].key # key

(* A request with a prior entry gets its promise or a conflict: no step.    *)
(* genuine: the signature sent is the holder's, as #relay will find.        *)
Relay(o, k, i, genuine) ==
    /\ ops[o].pc = "idle"
    /\ now <= i.deadline /\ i.deadline <= now + MaxLifetime
    /\ NoPrior(<<i.holder, k>>)
    /\ ops' = [ops EXCEPT ![o] =
           [pc |-> "status", key |-> <<i.holder, k>>, intent |-> i, genuine |-> genuine]]
    /\ IF Len(operations) >= Capacity
       THEN /\ operations' = Append(Tail(operations), o)
            /\ evicted' = evicted \cup {ops[Head(operations)].key}
       ELSE /\ operations' = Append(operations, o)
            /\ UNCHANGED evicted
    /\ UNCHANGED <<sbtVars, pool>>

Mut_KeepFailed(key) == operations
(* The entry the key has by now, which after an eviction is another's; a    *)
(* map has one.                                                             *)
Entry(key) == {n \in DOMAIN operations : ops[operations[n]].key = key}
Forget(key) == IF Entry(key) = {} THEN operations
               ELSE RemoveAt(operations, CHOOSE n \in Entry(key) : TRUE)

Goes(o, pc) == ops' = [ops EXCEPT ![o].pc = pc]
Fails(o) == Goes(o, "failed") /\ operations' = Forget(ops[o].key)

ActiveToken(i) == activeTokenOf[i.creator][i.holder]

(* The signature is recovered and the contract's state is read.             *)
StatusRead(o) ==
    /\ ops[o].pc = "status"
    /\ ops[o].genuine
    /\ \/ /\ ActiveToken(ops[o].intent) # 0
          /\ Goes(o, "active") /\ UNCHANGED operations
       \/ /\ ActiveToken(ops[o].intent) = 0
          /\ nonces[ops[o].intent.holder] = ops[o].intent.nonce
          /\ Goes(o, "submit") /\ UNCHANGED operations
    /\ UNCHANGED <<sbtVars, pool, evicted>>

(* Not the holder's signature, not a participant, another nonce, no answer. *)
StatusFails(o) ==
    /\ ops[o].pc = "status"
    /\ Fails(o)
    /\ UNCHANGED <<sbtVars, pool, evicted>>

Sent(o) == Len(pool) < MaxPool /\ pool' = Append(pool, ops[o].intent)

Submit(o) ==
    /\ ops[o].pc = "submit"
    /\ Sent(o) /\ Goes(o, "submitted")
    /\ UNCHANGED <<sbtVars, operations, evicted>>

(* The server's answer is an error or is lost; the transaction may be sent. *)
SubmitFails(o) ==
    /\ ops[o].pc = "submit"
    /\ Fails(o)
    /\ Sent(o) \/ UNCHANGED pool
    /\ UNCHANGED <<sbtVars, evicted>>

(* The process's memory goes, the account's transactions stay.              *)
Restart ==
    /\ ops # [o \in Ops |-> NoOp]
    /\ ops' = [o \in Ops |-> NoOp] /\ operations' = <<>> /\ evicted' = {}
    /\ UNCHANGED <<sbtVars, pool>>

(* The first transaction is mined, and registers or reverts, or is dropped. *)
Mine ==
    /\ pool # <<>>
    /\ RegisterSupporterWithSignature(Head(pool))
    /\ pool' = Tail(pool)
    /\ UNCHANGED <<ops, operations, evicted>>

Gone ==
    /\ pool # <<>>
    /\ pool' = Tail(pool)
    /\ UNCHANGED <<sbtVars, ops, operations, evicted>>

(* CreatorFirstSupporterRegistrationAdapter: the holder's own transaction.  *)
RegisterSelf(i) ==
    /\ i.deadline <= now + MaxLifetime
    /\ RegisterSupporterWithSignature(i)
    /\ UNCHANGED relayerVars

Next ==
    \/ Environment /\ UNCHANGED relayerVars
    \/ \E i \in signed :
        \/ RegisterSelf(i)
        \/ \E o \in Ops, k \in Keys, genuine \in BOOLEAN : Relay(o, k, i, genuine)
    \/ \E o \in Ops : StatusRead(o) \/ StatusFails(o) \/ Submit(o) \/ SubmitFails(o)
    \/ Restart \/ Mine \/ Gone

Spec == Init /\ [][Next]_vars

-----------------------------------------------------------------------------
(* Of the operations of a key whose entry has not been evicted, at most one  *)
(* runs or has answered, and it is remembered: the relayer does not pay      *)
(* again for a repeated request.  One that failed is not remembered, so that *)
(* the request can be repeated.                                              *)
Alive(o) == ops[o].pc \notin {"idle", "failed"}
KeyRunsOnce ==
    /\ \A o, p \in Ops : Alive(o) /\ Alive(p) /\ ops[o].key = ops[p].key
                            /\ ops[o].key \notin evicted => o = p
    /\ \A o \in Ops : /\ o \in Remembered => Alive(o)
                      /\ Alive(o) /\ ops[o].key \notin evicted => o \in Remembered
=============================================================================
