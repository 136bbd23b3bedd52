------------------------------ MODULE TrustPage ------------------------------
(***************************************************************************)
(* AccountTrustDemo.vue, the page of the account trust demo, as one client *)
(* of AccountTrust.  run() lets one operation go on at a time; an answer   *)
(* that does not arrive, or a refusal, ends it with a message only.        *)
(* currentState prefers the transaction this page began to the status it   *)
(* read, and a reload keeps neither, nor the CSRF token.                   *)
(*                                                                         *)
(* The other clients are the account's other tabs, and the requests of     *)
(* this one whose answers it no longer awaits.                             *)
(***************************************************************************)
EXTENDS AccountTrust

VARIABLES
    busy,             \* the operation under way, or "none"
    pending,          \* the request whose answer it awaits, if any
    transaction,      \* of the binding begun here; id 0 is undefined
    seen              \* status.binding, as last read

pageVars == <<busy, pending, transaction, seen>>

NoTransaction == [id |-> 0, state |-> "none"]
NotSeen == [id |-> 0, state |-> "none", wallet |-> NoWallet]

(* What the page shows as reached; each button is there for one state.       *)
CurrentState == IF transaction.id # 0 THEN transaction.state ELSE seen.state
IsActive == CurrentState = "ACTIVE"
Button(state) == busy = "none" /\ transaction.id # 0 /\ transaction.state = state

TrustPageInit == busy = "refresh" /\ pending = {} /\ transaction = NoTransaction /\ seen = NotSeen

------------------------------------------------------------------------------
(* run *)

Starts(operation) == busy = "none" /\ busy' = operation /\ pending' = {}
Sends(operation, r) == busy' = operation /\ pending' = {r}
Continues(operation, r) == busy = operation /\ r \in pending /\ busy' = operation /\ pending' = {}
Ends(operation, r) == busy = operation /\ r \in pending /\ busy' = "none" /\ pending' = {}
Reads(operation, r) == busy = operation /\ r \in pending /\ busy' = "refresh" /\ pending' = {}

(* value.state = result.state, where the answer arrives.                     *)
Becomes(state) == transaction' = [transaction EXCEPT !.state = state]

(* The answer is lost, or its owner refuses what the operation asks for.     *)
GiveUp ==
    /\ busy # "none"
    /\ busy' = "none" /\ pending' = {}
    /\ UNCHANGED <<vars, transaction, seen>>

VerificationRefused(r) ==
    /\ r \in pending /\ RefuseSignature(r)
    /\ busy' = "none" /\ pending' = {}
    /\ UNCHANGED <<trustVars, transaction, seen>>

(* AccountTrustService.status *)
TrustStatus ==
    IF rows = <<>> THEN NotSeen
    ELSE [id |-> Len(rows), state |-> Last(rows).state, wallet |-> Last(rows).wallet]

RefreshStatus ==
    /\ busy = "refresh"
    /\ busy' = "none" /\ seen' = TrustStatus
    /\ UNCHANGED <<vars, pending, transaction>>

------------------------------------------------------------------------------
(* The buttons. *)

BeginHere ==
    /\ ~IsActive /\ Starts("user")
    /\ UNCHANGED <<vars, transaction, seen>>

(* ensureGatewayUser: registered already, or now. *)
EnsureGatewayUser(k) ==
    /\ busy = "user" /\ busy' = "begin"
    /\ RegisterDemoUser(k) \/ (demoUser # NoKey /\ UNCHANGED walletVars)
    /\ UNCHANGED <<trustVars, pending, transaction, seen>>

BegunHere ==
    /\ busy = "begin" /\ busy' = "none"
    /\ BeginBinding
    /\ transaction' \in {transaction, [id |-> Len(rows'), state |-> "CREATED"]}
    /\ UNCHANGED <<pending, seen>>

AssertHere ==
    /\ Button("CREATED")
    /\ AssertMockJpki(transaction.id)
    /\ Becomes("JPKI_ASSERTED") \/ UNCHANGED transaction
    /\ UNCHANGED <<busy, pending, seen>>

RegisterPasskey(r) ==
    /\ Button("JPKI_ASSERTED")
    /\ RegistrationOptions(r, transaction.id) /\ Sends("options", r)
    /\ UNCHANGED <<transaction, seen>>

StartRegistration(r) ==
    /\ RegistrationOptionsMade(r) /\ Continues("options", r)
    /\ UNCHANGED <<transaction, seen>>

SendRegistration(r) ==
    /\ busy = "options" /\ pending = {}
    /\ ReceiveRegistration(r, transaction.id) /\ Sends("passkey", r)
    /\ UNCHANGED <<transaction, seen>>

PasskeyRegistered(r, k) ==
    /\ RegistrationVerified(r, k) /\ Ends("passkey", r)
    /\ Becomes("PASSKEY_REGISTERED")
    /\ UNCHANGED seen

BindWallet(w) ==
    /\ Button("PASSKEY_REGISTERED") /\ Starts("sign")
    /\ WalletOptions(transaction.id, w)
    /\ UNCHANGED <<transaction, seen>>

SendSignature(r) ==
    /\ busy = "sign"
    /\ ReceiveWallet(r, transaction.id) /\ Sends("wallet", r)
    /\ UNCHANGED <<transaction, seen>>

Mut_AnyAnswer(b) == b \in DOMAIN rows
(* request: the handler did not throw. *)
Succeeds(b) == IndexAllows(b, "ACTIVE")

(* value.state is set before the status is read again. *)
WalletBound(r) ==
    /\ WalletVerified(r)
    /\ IF Succeeds(transaction.id)
       THEN Becomes("ACTIVE") /\ Reads("wallet", r)
       ELSE UNCHANGED transaction /\ Ends("wallet", r)
    /\ UNCHANGED seen

AuthenticatePasskey(r) ==
    /\ busy = "none" /\ IsActive
    /\ AuthenticationOptions(r) /\ Sends("challenge", r)
    /\ UNCHANGED <<transaction, seen>>

StartAuthentication(r) ==
    /\ AuthenticationOptionsMade(r) /\ Continues("challenge", r)
    /\ UNCHANGED <<transaction, seen>>

SendAuthentication(r, k) ==
    /\ busy = "challenge" /\ pending = {}
    /\ ReceiveAuthentication(r, k) /\ Sends("authenticate", r)
    /\ UNCHANGED <<transaction, seen>>

Authenticated(r, n) ==
    /\ AuthenticationVerified(r, n) /\ Reads("authenticate", r)
    /\ UNCHANGED <<transaction, seen>>

(* onMounted of the page loaded anew. *)
TrustReload ==
    /\ busy' = "refresh" /\ pending' = {} /\ transaction' = NoTransaction /\ seen' = NotSeen
    /\ UNCHANGED vars

------------------------------------------------------------------------------
TrustPageStep(r) ==
    \/ VerificationRefused(r) \/ RegisterPasskey(r) \/ StartRegistration(r) \/ SendRegistration(r)
    \/ SendSignature(r) \/ WalletBound(r) \/ AuthenticatePasskey(r) \/ StartAuthentication(r)
    \/ \E k \in Credentials : PasskeyRegistered(r, k) \/ SendAuthentication(r, k)
    \/ \E n \in 0..MaxCounter : Authenticated(r, n)

TrustPageSteps ==
    \/ GiveUp \/ RefreshStatus \/ BeginHere \/ BegunHere \/ AssertHere \/ TrustReload
    \/ \E k \in ClientKeys : EnsureGatewayUser(k)
    \/ \E w \in Wallets : BindWallet(w)
    \/ \E r \in Requests : TrustPageStep(r)

(* Another client: it cannot send for the binding of this page, whose CSRF   *)
(* token it has not.                                                         *)
OtherClient(b, r) ==
    \/ AssertMockJpki(b) \/ RegistrationOptions(r, b) \/ ReceiveRegistration(r, b) \/ ReceiveWallet(r, b)
    \/ \E w \in Wallets : WalletOptions(b, w)

OtherAnswer(r) ==
    \/ RegistrationOptionsMade(r) \/ AuthenticationOptionsMade(r) \/ WalletVerified(r)
    \/ \E k \in Credentials : RegistrationVerified(r, k)
    \/ \E n \in 0..MaxCounter : AuthenticationVerified(r, n)
    \/ RefuseSignature(r) /\ UNCHANGED trustVars

OtherClients ==
    \/ (Tick \/ \E k \in ClientKeys : RegisterDemoUser(k)) /\ UNCHANGED trustVars
    \/ BeginBinding
    \/ \E r \in Requests \ pending :
        \/ OtherAnswer(r) \/ AuthenticationOptions(r)
        \/ \E k \in Credentials : ReceiveAuthentication(r, k)
        \/ \E b \in DOMAIN transactions \ {transaction.id} : OtherClient(b, r)

TrustPageNext == TrustPageSteps \/ (OtherClients /\ UNCHANGED pageVars)

TrustPageSpec == Init /\ TrustPageInit /\ [][TrustPageNext]_<<vars, pageVars>>

------------------------------------------------------------------------------
(* Properties. *)

(* A signature over w was accepted for binding b. *)
SignedFor(b, w) ==
    \E i \in DOMAIN bindingIntents :
        bindingIntents[i].used /\ bindingIntents[i].binding = b /\ bindingIntents[i].wallet = w

(* Whatever answers were lost, refused or overtaken by another tab, a state  *)
(* the page shows was reached and audited for the binding it is shown of; of *)
(* what it shows as completed every level was, with a passkey saved and the  *)
(* account's wallet linked; and a wallet it shows signed for its binding.    *)
TrustPageTellsTheTruth ==
    /\ \A v \in {transaction, seen} : v.id # 0 =>
        /\ v.state \in audit[v.id]
        /\ v.state = "ACTIVE" => audit[v.id] = States
    /\ IsActive => demoUser # NoKey /\ Saved # {} /\ walletAddress # NoWallet
    /\ seen.wallet # NoWallet => SignedFor(seen.id, seen.wallet)
=============================================================================
