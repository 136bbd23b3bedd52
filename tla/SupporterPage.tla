----------------------------- MODULE SupporterPage -----------------------------
(***************************************************************************)
(* Step 5 of the listener's page (TestnetUserJourneyDemo.vue): choose a    *)
(* creator, sign an intent, have it relayed, look for the token.           *)
(*                                                                         *)
(* registerAsSupporter reads the nonce of the wallet it starts with, signs *)
(* with the wallet of that moment and names in the request the wallet of a *)
(* later one.  Looks for the token overlap with it, with one another and   *)
(* with changes of the wallet and of the choice.  A lost answer, a receipt *)
(* that does not come in two minutes and a failed look end in the stages   *)
(* ERROR and SUBMITTED; the latter keeps the button disabled.              *)
(*                                                                         *)
(* The wallet is a registered participant's, on the right network.  Bound: *)
(* one registration is under way at a time.                                *)
(***************************************************************************)
EXTENDS SupporterSbtRelayer

CONSTANTS Looks, NoLook     \* bound: looks under way at one time

(* Wallets and creators are told apart: addresses and 32-byte scopes.        *)
ASSUME SupporterPageAssumption == NoHolder \notin Creators /\ NoCreator \notin Holders

VARIABLES
    holder, target,         \* walletAddress, selectedSupportTarget
    token, stage,           \* supporterTokenId, supporterStage
    submitted,              \* lastSbtTransaction: the intent it carries
    supporting,             \* busyAction
    looks,                  \* refreshOnchainState
    request,                \* registerAsSupporter
    met                     \* history: the wallets and creators the page had

supporterPageVars == <<holder, target, token, stage, submitted, supporting, looks, request, met>>

SupporterPageInit ==
    /\ holder = NoHolder /\ target = NoCreator
    /\ token = 0 /\ stage = "IDLE" /\ submitted = NoIntent /\ supporting = FALSE
    /\ looks = [f \in Looks |-> NoLook] /\ request = NoLook
    /\ met = {}

(* clearSupporterState *)
SupporterCleared == token' = 0 /\ stage' = "IDLE" /\ submitted' = NoIntent

Look(f, l) == looks' = [looks EXCEPT ![f] = l]
StartLook(f, h, then) == looks[f] = NoLook /\ Look(f, [pc |-> "start", holder |-> h, then |-> then])
Meets(h, c) == met' = met \cup ({h, c} \ {NoHolder, NoCreator})

(* connectWallet, and the wallet's events. *)
HolderChanged(f, h) ==
    /\ holder # h /\ holder' = h /\ Meets(h, target)
    /\ IF h # NoHolder THEN StartLook(f, h, "nothing") ELSE UNCHANGED looks
    /\ IF holder = NoHolder THEN UNCHANGED <<token, stage, submitted>> ELSE SupporterCleared
    /\ UNCHANGED <<vars, target, supporting, request>>

SelectSupportTarget(f, c) ==
    /\ ~supporting /\ target # c
    /\ target' = c /\ SupporterCleared /\ Meets(holder, c)
    /\ IF holder # NoHolder THEN StartLook(f, holder, "nothing") ELSE UNCHANGED looks
    /\ UNCHANGED <<vars, holder, supporting, request>>

LookAgain(f) ==
    /\ ~supporting /\ holder # NoHolder /\ StartLook(f, holder, "nothing")
    /\ UNCHANGED <<vars, holder, target, token, stage, submitted, supporting, request, met>>

(* The creator is the one chosen by now, the wallet that of the start.       *)
TokenRead(f) ==
    /\ looks[f] # NoLook /\ looks[f].pc = "start" /\ target # NoCreator
    /\ Look(f, [pc |-> "read", then |-> looks[f].then, token |-> activeTokenOf[target][looks[f].holder]])
    /\ UNCHANGED <<vars, holder, target, token, stage, submitted, supporting, request, met>>

(* How registerAsSupporter ends when its look has ended.                     *)
Ended(s) == stage' = s /\ request' = NoLook /\ supporting' = FALSE

TokenShown(f) ==
    LET found == looks[f].token # 0 IN
    /\ looks[f] # NoLook /\ looks[f].pc = "read"
    /\ token' = looks[f].token /\ Look(f, NoLook)
    /\ CASE looks[f].then = "nothing" -> stage' = (IF found THEN "COMPLETE" ELSE stage)
                                         /\ UNCHANGED <<supporting, request>>
         [] looks[f].then = "receipt" -> Ended(IF found THEN "COMPLETE" ELSE "SUBMITTED")
         [] looks[f].then = "active" -> Ended(IF found THEN "COMPLETE" ELSE "ERROR")
    /\ UNCHANGED <<vars, holder, target, submitted, met>>

(* No creator chosen, or no answer. *)
LookFails(f) ==
    /\ looks[f] # NoLook /\ Look(f, NoLook)
    /\ CASE looks[f].then = "nothing" -> UNCHANGED <<stage, supporting, request>>
         [] looks[f].then = "receipt" -> Ended("SUBMITTED")
         [] looks[f].then = "active" -> Ended("COMPLETE")
    /\ UNCHANGED <<vars, holder, target, token, submitted, met>>

------------------------------------------------------------------------------
(* registerAsSupporter *)

RequestIs(pc) == request # NoLook /\ request.pc = pc

RegisterAsSupporter ==
    /\ holder # NoHolder /\ target # NoCreator /\ token = 0 /\ submitted = NoIntent /\ ~supporting
    /\ request' = [pc |-> "nonce", holder |-> holder, creator |-> target]
    /\ supporting' = TRUE /\ stage' = "AWAITING_WALLET"
    /\ UNCHANGED <<vars, holder, target, token, submitted, looks, met>>

NonceRead(lifetime) ==
    /\ RequestIs("nonce") /\ holder # NoHolder
    /\ request' = [pc |-> "signing", intent |->
           [creator |-> request.creator, holder |-> holder, nonce |-> nonces[request.holder],
            deadline |-> now + lifetime]]
    /\ UNCHANGED <<vars, holder, target, token, stage, submitted, supporting, looks, met>>

Mut_AnySigner(i) == TRUE
(* The request names the wallet of now; the signature is the earlier one's.  *)
SignedByHolder(i) == holder = i.holder

(* The wallet signs, and the request with a new key arrives.                 *)
IntentSigned ==
    /\ RequestIs("signing") /\ holder # NoHolder /\ Cardinality(signed) < MaxIntents
    /\ signed' = signed \cup {request.intent}
    /\ request' = [pc |-> "signed", intent |-> [request.intent EXCEPT !.holder = holder],
                   genuine |-> SignedByHolder(request.intent)]
    /\ stage' = "RELAYING"
    /\ UNCHANGED <<now, earlyPolicies, tokenVars, relayerVars>>
    /\ UNCHANGED <<holder, target, token, submitted, supporting, looks, met>>

RequestArrives(o, k) ==
    /\ RequestIs("signed") /\ Relay(o, k, request.intent, request.genuine)
    /\ request' = [pc |-> "relayed", intent |-> request.intent, op |-> o]
    /\ UNCHANGED <<holder, target, token, stage, submitted, supporting, looks, met>>

(* The answer to this request: after a restart the call may be another's.    *)
Answered(pc) ==
    RequestIs("relayed") /\ ops[request.op].pc = pc /\ ops[request.op].intent = request.intent

(* SBT_SUBMITTED: wait for the receipt. *)
SubmittedAnswer ==
    /\ Answered("submitted")
    /\ request' = [pc |-> "receipt", intent |-> request.intent]
    /\ submitted' = request.intent /\ stage' = "CHECKING"
    /\ UNCHANGED <<vars, holder, target, token, supporting, looks, met>>

MintedFrom(i) == {t \in Tokens : intentOf[t] = i}
IssuedTo(h, c) == {t \in Tokens : intentOf[t].holder = h /\ intentOf[t].creator = c}

ReceiptRead(f) ==
    /\ RequestIs("receipt") /\ MintedFrom(request.intent) # {} /\ holder # NoHolder
    /\ StartLook(f, holder, "receipt")
    /\ request' = [pc |-> "looking"]
    /\ UNCHANGED <<vars, holder, target, token, stage, submitted, supporting, met>>

NoReceipt ==
    /\ RequestIs("receipt") /\ Ended("SUBMITTED")
    /\ UNCHANGED <<vars, holder, target, token, submitted, looks, met>>

(* SBT_ACTIVE, with the token the relayer read. *)
ActiveAnswer(f) ==
    /\ Answered("active") /\ holder # NoHolder
    /\ token' \in IssuedTo(request.intent.holder, request.intent.creator)
    /\ stage' = "CHECKING" /\ StartLook(f, holder, "active")
    /\ request' = [pc |-> "looking"]
    /\ UNCHANGED <<vars, holder, target, submitted, supporting, met>>

(* The wallet or the relayer refuses, or an answer is lost.                  *)
RequestFails ==
    /\ request # NoLook /\ request.pc \notin {"receipt", "looking"}
    /\ Ended("ERROR")
    /\ UNCHANGED <<vars, holder, target, token, submitted, looks, met>>

SupporterPageNext ==
    \/ \E f \in Looks :
        \/ \E h \in Holders \cup {NoHolder} : HolderChanged(f, h)
        \/ \E c \in Creators : SelectSupportTarget(f, c)
        \/ LookAgain(f) \/ TokenRead(f) \/ TokenShown(f) \/ LookFails(f)
        \/ ReceiptRead(f) \/ ActiveAnswer(f)
    \/ RegisterAsSupporter \/ IntentSigned \/ SubmittedAnswer \/ NoReceipt \/ RequestFails
    \/ \E lifetime \in Lifetimes : NonceRead(lifetime)
    \/ \E o \in Ops, k \in Keys : RequestArrives(o, k)

(* Beside the page anyone signs, asks the relayer and registers. *)
SupporterPageSpec ==
    /\ Init /\ SupporterPageInit
    /\ [][SupporterPageNext \/ (Next /\ UNCHANGED supporterPageVars)]_<<vars, supporterPageVars>>

------------------------------------------------------------------------------
(* A token the page shows was issued for a creator chosen on the page and to *)
(* a wallet of the page, which signed for it, however looks, changes of the  *)
(* wallet and the relayer's answers overlap; and while the page says that    *)
(* one is under way, an intent was signed for it by the wallet it names.     *)
SupporterPageTellsTheTruth ==
    /\ token # 0 => /\ intentOf[token] \in signed
                    /\ {intentOf[token].holder, intentOf[token].creator} \subseteq met
    /\ submitted # NoIntent => submitted \in signed /\ submitted.holder \in met
=============================================================================
