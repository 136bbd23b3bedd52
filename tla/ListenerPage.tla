----------------------------- MODULE ListenerPage -----------------------------
(***************************************************************************)
(* The listener's page (TestnetUserJourneyDemo.vue, steps 1 to 3): connect *)
(* the wallet, register as a participant, claim the practice money,        *)
(* approve the price, subscribe.                                           *)
(*                                                                         *)
(* transact runs one transaction: its sender is the wallet of the click,   *)
(* its arguments are read from the page when the fees have come, and the   *)
(* wallet's owner may confirm much later.  Account and network events      *)
(* clear what is shown and start another refresh; refreshes overlap and    *)
(* end in any order.  A disconnected wallet can be connected again during  *)
(* a transaction, and that ends busyAction: transactions overlap too.      *)
(*                                                                         *)
(* The registry's record of a wallet is its stage; the page's player plays *)
(* a tone made on the page and is left out, as are messages but for the    *)
(* last action said to be complete.  The manifest is active.               *)
(***************************************************************************)
EXTENDS Subscription

CONSTANTS
    NoAccount, NoTask,
    Reads, Sends          \* bounds: refreshes and transactions under way at one time

MayBeMined == {"fees", "signing", "sent", "unwatched"}
SendPhases == MayBeMined \cup {"mined", "refreshing"}
PageTransaction == [pc : SendPhases, action : {"register", "claim", "approve", "subscribe"},
                    sender : Accounts, reference : References, price : Nat, version : Nat]

ASSUME ListenerAssumption ==
    /\ NoAccount \notin Accounts /\ NoTask \notin PageTransaction
    /\ {"none", "free"} \cap Sends = {}

VARIABLES
    participant,          \* the registry: "none", "approved" (and funded) or "registered"
    account, onAmoy,      \* walletAddress, correctChain
    enrolled,             \* what the page shows of participant
    shown,                \* what the page shows of the plan and the account
    busyAction,
    reads,                \* refreshOnchainState
    sends,                \* transact
    completed             \* walletMessage, when it says that an action is complete

listenerVars == <<participant, account, onAmoy, enrolled, shown, busyAction, reads, sends, completed>>

NothingShown == [price |-> 0, version |-> 0, enabled |-> FALSE, balance |-> 0, allowance |-> 0,
                 active |-> FALSE]

ListenerInit ==
    /\ participant = [a \in Accounts |-> "none"]
    /\ account = NoAccount /\ onAmoy \in BOOLEAN
    /\ enrolled = "none" /\ shown = NothingShown /\ busyAction = FALSE
    /\ reads = [f \in Reads |-> NoTask] /\ sends = [s \in Sends |-> NoTask]
    /\ completed = NoTask

ApproveParticipant(a) ==
    /\ participant[a] = "none"
    /\ participant' = [participant EXCEPT ![a] = "approved"]
    /\ UNCHANGED <<chainVars, account, onAmoy, enrolled, shown, busyAction, reads, sends, completed>>

------------------------------------------------------------------------------
(* What the page reads. *)

Read(f, r) == reads' = [reads EXCEPT ![f] = r]
Sending(s) == sends[s] # NoTask

(* refreshOnchainState(true) of a page whose wallet is now a; done is what   *)
(* its caller does at the end.                                               *)
StartRead(f, a, done) ==
    /\ reads[f] = NoTask
    /\ Read(f, [pc |-> "enrollment", account |-> a, done |-> done])

(* clearOnchainState *)
Cleared == enrolled' = "none" /\ shown' = NothingShown

(* connectWallet, whose button is there while no wallet is connected.        *)
ConnectListener(f, a) ==
    /\ account = NoAccount /\ account' = a /\ completed' = NoTask
    /\ IF onAmoy THEN StartRead(f, a, "free") /\ busyAction' = TRUE
                 ELSE busyAction' = FALSE /\ UNCHANGED reads
    /\ UNCHANGED <<chainVars, participant, onAmoy, enrolled, shown, sends>>

(* handleAccountsChanged and handleChainChanged, of switchToAmoy too.        *)
WalletEvent(f) ==
    /\ Cleared /\ completed' = NoTask
    /\ IF account' # NoAccount /\ onAmoy' THEN StartRead(f, account', "none") ELSE UNCHANGED reads
    /\ UNCHANGED <<chainVars, participant, busyAction, sends>>

ListenerAccountChanged(f, a) == account \notin {NoAccount, a} /\ account' = a /\ UNCHANGED onAmoy /\ WalletEvent(f)
ListenerChainChanged(f) == account # NoAccount /\ onAmoy' = ~onAmoy /\ UNCHANGED account /\ WalletEvent(f)

(* switchToAmoy reads the chain again after the wallet's event.              *)
SwitchListener(f, g) ==
    /\ account # NoAccount /\ ~onAmoy /\ f # g
    /\ onAmoy' = TRUE /\ Cleared /\ completed' = NoTask /\ busyAction' = TRUE
    /\ reads[f] = NoTask /\ reads[g] = NoTask
    /\ reads' = [reads EXCEPT ![f] = [pc |-> "enrollment", account |-> account, done |-> "none"],
                              ![g] = [pc |-> "enrollment", account |-> account, done |-> "free"]]
    /\ UNCHANGED <<chainVars, participant, account, sends>>

(* refreshParticipantEnrollment: a wallet without a record changes nothing.  *)
EnrollmentRead(f) ==
    /\ reads[f] # NoTask /\ reads[f].pc = "enrollment"
    /\ LET p == participant[reads[f].account] IN enrolled' = IF p = "none" THEN enrolled ELSE p
    /\ account # NoAccount
    /\ Read(f, [pc |-> "account", account |-> account, done |-> reads[f].done])
    /\ UNCHANGED <<chainVars, participant, account, onAmoy, shown, busyAction, sends, completed>>

AccountRead(f) ==
    /\ reads[f] # NoTask /\ reads[f].pc = "account"
    /\ Read(f, [pc |-> "answered", done |-> reads[f].done, is |->
           [price |-> plan.price, version |-> plan.version, enabled |-> plan.enabled,
            balance |-> balanceOf[reads[f].account], allowance |-> allowance[reads[f].account],
            active |-> IsActive(reads[f].account)]])
    /\ UNCHANGED <<chainVars, participant, account, onAmoy, enrolled, shown, busyAction, sends, completed>>

(* The end of the caller: of connectWallet and switchToAmoy, or of transact. *)
ReadDone(f) ==
    /\ Read(f, NoTask)
    /\ busyAction' = IF reads[f].done = "none" THEN busyAction ELSE FALSE
    /\ sends' = IF reads[f].done \in Sends THEN [sends EXCEPT ![reads[f].done] = NoTask] ELSE sends

AccountShown(f) ==
    /\ reads[f] # NoTask /\ reads[f].pc = "answered"
    /\ shown' = reads[f].is
    /\ ReadDone(f)
    /\ completed' = IF reads[f].done \in Sends THEN sends[reads[f].done] ELSE completed
    /\ UNCHANGED <<chainVars, participant, account, onAmoy, enrolled>>

ReadFails(f) ==
    /\ reads[f] # NoTask
    /\ ReadDone(f)
    /\ completed' = IF reads[f].done = "none" THEN completed ELSE NoTask
    /\ UNCHANGED <<chainVars, participant, account, onAmoy, enrolled, shown>>

------------------------------------------------------------------------------
(* What the page sends. *)

Task(s, t) == sends' = [sends EXCEPT ![s] = t]
SendIs(s, pc) == sends[s] # NoTask /\ sends[s].pc = pc
RestOfPage == <<participant, account, onAmoy, enrolled, shown, reads>>

ChainActionsReady == account # NoAccount /\ onAmoy /\ enrolled = "registered" /\ ~busyAction
AllowanceEnough == shown.price > 0 /\ shown.allowance >= shown.price

(* The button the page shows: one at a time. *)
Offered(action) ==
    CASE action = "register" -> account # NoAccount /\ onAmoy /\ enrolled = "approved" /\ ~busyAction
      [] action = "claim" -> ChainActionsReady /\ ~shown.active /\ shown.balance < shown.price
      [] action = "approve" -> /\ ChainActionsReady /\ ~shown.active /\ shown.balance >= shown.price
                               /\ ~AllowanceEnough /\ shown.enabled
      [] action = "subscribe" -> /\ ChainActionsReady /\ ~shown.active /\ shown.balance >= shown.price
                                 /\ AllowanceEnough /\ shown.enabled

Clicked(s, action, reference) ==
    /\ sends[s] = NoTask /\ Offered(action)
    /\ reference \notin UsedReferences /\ \A t \in Sends : Sending(t) => sends[t].reference # reference
    /\ Task(s, [pc |-> "fees", action |-> action, sender |-> account, reference |-> reference,
                price |-> 0, version |-> 0])
    /\ busyAction' = TRUE
    /\ UNCHANGED <<chainVars, RestOfPage, completed>>

Mut_VersionAtMining(s) == [sends[s] EXCEPT !.pc = "signing", !.price = shown.price, !.version = plan.version]
(* The arguments are what the page shows when the fees have come. *)
Arguments(s) == [sends[s] EXCEPT !.pc = "signing", !.price = shown.price, !.version = shown.version]

FeesRead(s) ==
    /\ SendIs(s, "fees") /\ Task(s, Arguments(s))
    /\ UNCHANGED <<chainVars, RestOfPage, busyAction, completed>>

SendConfirmed(s) ==
    /\ SendIs(s, "signing") /\ Task(s, [sends[s] EXCEPT !.pc = "sent"]) /\ completed' = NoTask
    /\ UNCHANGED <<chainVars, RestOfPage, busyAction>>

Executed(t) ==
    \/ /\ t.action = "register" /\ participant[t.sender] = "approved"
       /\ participant' = [participant EXCEPT ![t.sender] = "registered"] /\ UNCHANGED chainVars
    \/ t.action = "claim" /\ Claim(t.sender) /\ UNCHANGED participant
    \/ t.action = "approve" /\ Approve(t.sender, t.price) /\ UNCHANGED participant
    \/ t.action = "subscribe" /\ Subscribe(t.sender, t.reference, t.version) /\ UNCHANGED participant

(* A transaction is mined although the page may no longer wait for it.       *)
SendMined(s) ==
    /\ \/ SendIs(s, "sent") /\ Task(s, [sends[s] EXCEPT !.pc = "mined"])
       \/ SendIs(s, "unwatched") /\ Task(s, NoTask)
    /\ Executed(sends[s])
    /\ UNCHANGED <<account, onAmoy, enrolled, shown, busyAction, reads, completed>>

(* The receipt is a success: refresh, and say so. *)
ReceiptRead(s, f) ==
    /\ SendIs(s, "mined")
    /\ Task(s, [sends[s] EXCEPT !.pc = "refreshing"])
    /\ account # NoAccount /\ onAmoy /\ StartRead(f, account, s)
    /\ UNCHANGED <<chainVars, participant, account, onAmoy, enrolled, shown, busyAction, completed>>

(* Without a wallet or on another network there is nothing to refresh.       *)
ReceiptUnread(s) ==
    /\ SendIs(s, "mined") /\ (account = NoAccount \/ ~onAmoy)
    /\ completed' = sends[s] /\ Task(s, NoTask) /\ busyAction' = FALSE
    /\ UNCHANGED <<chainVars, participant, account, onAmoy, enrolled, shown, reads>>

(* Not signed, reverted, dropped, or the servers do not answer.              *)
SendFails(s) ==
    /\ \/ sends[s] # NoTask /\ sends[s].pc \in {"fees", "signing", "sent", "mined"} /\ Task(s, NoTask)
       \/ SendIs(s, "sent") /\ Task(s, [sends[s] EXCEPT !.pc = "unwatched"])
    /\ busyAction' = FALSE /\ completed' = NoTask
    /\ UNCHANGED <<chainVars, RestOfPage>>

ListenerNext ==
    \/ Operators /\ UNCHANGED listenerVars
    \/ \E a \in Accounts : ApproveParticipant(a)
    \/ \E f \in Reads :
        \/ \E a \in Accounts : ConnectListener(f, a)
        \/ \E a \in Accounts \cup {NoAccount} : ListenerAccountChanged(f, a)
        \/ ListenerChainChanged(f) \/ \E g \in Reads : SwitchListener(f, g)
        \/ EnrollmentRead(f) \/ AccountRead(f) \/ AccountShown(f) \/ ReadFails(f)
        \/ \E s \in Sends : ReceiptRead(s, f)
    \/ \E s \in Sends :
        \/ \E action \in {"register", "claim", "approve", "subscribe"}, r \in References : Clicked(s, action, r)
        \/ FeesRead(s) \/ SendConfirmed(s) \/ SendMined(s) \/ ReceiptUnread(s) \/ SendFails(s)

ListenerSpec == SubscriptionInit /\ ListenerInit /\ [][ListenerNext]_<<chainVars, listenerVars>>

------------------------------------------------------------------------------
(* What the page calls complete was done by the wallet that was asked, and a *)
(* listener pays the price the page showed when the wallet was asked,        *)
(* whatever the plan, the wallet's account and the page did before the       *)
(* transaction was mined; a subscription runs as it was paid for.            *)
ListenerPaysWhatWasShown ==
    /\ completed # NoTask =>
        /\ completed.action = "register" => participant[completed.sender] = "registered"
        /\ completed.action = "claim" => completed.sender \in hasClaimed
        /\ completed.action = "subscribe" =>
            \E p \in payments : /\ p.reference = completed.reference /\ p.amount = completed.price
                                /\ p.subscriber = completed.sender
    /\ \A s \in Sends : Sending(s) /\ sends[s].action = "subscribe" =>
        \A p \in payments : p.reference = sends[s].reference => p.amount = sends[s].price
    /\ RunsAsPaid
=============================================================================
