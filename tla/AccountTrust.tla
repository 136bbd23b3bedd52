----------------------------- MODULE AccountTrust -----------------------------
(***************************************************************************)
(* AccountTrustService: the binding CREATED -> JPKI_ASSERTED ->            *)
(* PASSKEY_REGISTERED -> WALLET_BOUND -> ACTIVE of an account, its         *)
(* transactions in memory and its rows in SQLite, beside the wallet        *)
(* session whose walletAddress it also writes.                             *)
(*                                                                         *)
(* The WebAuthn and signature calls are awaited between a handler's checks *)
(* and its writes.  Only the page that began a transaction has its CSRF    *)
(* token; a request without it is refused and left out, as is the          *)
(* acknowledgement of the mock.  After a restart the account is another.   *)
(***************************************************************************)
EXTENDS WalletSession

CONSTANTS
    Credentials, NoCredential,      \* passkeys of the user's authenticators
    BindingTTL,                     \* config.trustBindingTtlMs
    MaxBindings, MaxIntents, MaxCounter     \* bounds of the model

ASSUME TrustAssumption ==
    /\ NoCredential \notin Credentials /\ BindingTTL \in Nat \ {0}
    /\ MaxBindings \in Nat /\ MaxIntents \in Nat /\ MaxCounter \in Nat

VARIABLES
    transactions,     \* by binding, in memory; the challenge is kept as "was one issued"
    rows, audit,      \* account_trust_bindings, and the event types audited
    bindingIntents,   \* the walletIntents made
    counters,         \* webauthn_credentials: the sign counter, -1 without a row
    passkeyAuthenticated, authenticationChallenge

trustVars == <<transactions, rows, audit, bindingIntents, counters, passkeyAuthenticated,
               authenticationChallenge>>
vars == <<walletVars, trustVars>>

Init ==
    /\ WalletInit
    /\ transactions = <<>> /\ rows = <<>> /\ audit = <<>> /\ bindingIntents = <<>>
    /\ counters = [k \in Credentials |-> -1]
    /\ passkeyAuthenticated = FALSE /\ authenticationChallenge = FALSE

unchangedButRequests == UNCHANGED <<now, demoUser, walletAddress, invitationProof, challenges,
                                    supportIntents, supportIdempotency, tiers>>

Saved == {k \in Credentials : counters[k] >= 0}

Mut_AnyState(b, state) == transactions[b].expiresAt > now
(* #transaction *)
InState(b, state) == transactions[b].state = state /\ transactions[b].expiresAt > now

Mut_NoIndex(b, state) == state \in {"WALLET_BOUND", "ACTIVE"}
(* The unique index on owner_id of the rows whose state is ACTIVE. *)
IndexAllows(b, state) == state = "ACTIVE" => \A o \in DOMAIN rows : rows[o].state = "ACTIVE" => o = b

------------------------------------------------------------------------------
(* The three writes of the store. *)
Inserted(row) == Append(rows, row)
Updated(b, row) == [rows EXCEPT ![b] = row]
Audited(b, events) == [audit EXCEPT ![b] = @ \cup events]

(* activeTrustBinding: the latest row, which begin compares with the clock.  *)
NoneInProgress == rows # <<>> => Last(rows).state # "ACTIVE" /\ Last(rows).expiresAt <= now

BeginBinding ==
    /\ demoUser # NoKey /\ NoneInProgress
    /\ Len(rows) < MaxBindings
    /\ transactions' = Append(transactions, [state |-> "CREATED", jpkiChallenge |-> TRUE,
            registrationChallenge |-> FALSE, walletIntent |-> 0, expiresAt |-> now + BindingTTL])
    /\ rows' = Inserted([state |-> "CREATED", passkey |-> NoCredential, wallet |-> NoWallet,
                         expiresAt |-> now + BindingTTL])
    /\ audit' = Append(audit, {"CREATED"})
    /\ UNCHANGED <<walletVars, bindingIntents, counters, passkeyAuthenticated, authenticationChallenge>>

AssertMockJpki(b) ==
    /\ InState(b, "CREATED")
    /\ transactions' = [transactions EXCEPT ![b].jpkiChallenge = FALSE, ![b].state = "JPKI_ASSERTED"]
    /\ rows' = Updated(b, [rows[b] EXCEPT !.state = "JPKI_ASSERTED"])
    /\ audit' = Audited(b, {"JPKI_ASSERTED"})
    /\ UNCHANGED <<walletVars, bindingIntents, counters, passkeyAuthenticated, authenticationChallenge>>

RegistrationOptions(r, b) ==
    /\ InState(b, "JPKI_ASSERTED")
    /\ Begin(r, "registrationOptions", b)
    /\ unchangedButRequests /\ UNCHANGED trustVars

RegistrationOptionsMade(r) ==
    /\ Awaiting(r, "registrationOptions")
    /\ transactions' = [transactions EXCEPT ![requests[r].id].registrationChallenge = TRUE]
    /\ Answer(r)
    /\ unchangedButRequests
    /\ UNCHANGED <<rows, audit, bindingIntents, counters, passkeyAuthenticated, authenticationChallenge>>

ReceiveRegistration(r, b) ==
    /\ InState(b, "JPKI_ASSERTED") /\ transactions[b].registrationChallenge
    /\ Begin(r, "registration", b)
    /\ unchangedButRequests /\ UNCHANGED trustVars

(* A credential already saved violates the primary key: nothing else is      *)
(* written.  The counter of a new passkey is 0 here.                         *)
RegistrationVerified(r, k) ==
    LET b == requests[r].id IN
    /\ Awaiting(r, "registration") /\ k \notin Saved
    /\ counters' = [counters EXCEPT ![k] = 0]
    /\ passkeyAuthenticated' = TRUE
    /\ transactions' = [transactions EXCEPT ![b].registrationChallenge = FALSE,
                                            ![b].state = "PASSKEY_REGISTERED"]
    /\ rows' = Updated(b, [rows[b] EXCEPT !.state = "PASSKEY_REGISTERED", !.passkey = k])
    /\ audit' = Audited(b, {"PASSKEY_REGISTERED"})
    /\ Answer(r)
    /\ unchangedButRequests /\ UNCHANGED <<bindingIntents, authenticationChallenge>>

------------------------------------------------------------------------------
(* Authenticating with a saved passkey. *)

AuthenticationOptions(r) ==
    /\ Saved # {}
    /\ Begin(r, "authenticationOptions", 0)
    /\ unchangedButRequests /\ UNCHANGED trustVars

AuthenticationOptionsMade(r) ==
    /\ Awaiting(r, "authenticationOptions")
    /\ authenticationChallenge' = TRUE
    /\ Answer(r)
    /\ unchangedButRequests
    /\ UNCHANGED <<transactions, rows, audit, bindingIntents, counters, passkeyAuthenticated>>

(* The stored counter is read before the await. *)
ReceiveAuthentication(r, k) ==
    /\ authenticationChallenge /\ k \in Saved /\ requests[r] = Idle
    /\ requests' = [requests EXCEPT ![r] =
            [kind |-> "authentication", credential |-> k, counter |-> counters[k]]]
    /\ unchangedButRequests /\ UNCHANGED trustVars

(* The library refuses a counter that did not grow past the one it was given, *)
(* unless the authenticator has none.                                        *)
AuthenticationVerified(r, n) ==
    /\ Awaiting(r, "authentication")
    /\ n > requests[r].counter \/ (n = 0 /\ requests[r].counter = 0)
    /\ counters' = [counters EXCEPT ![requests[r].credential] = n]
    /\ authenticationChallenge' = FALSE /\ passkeyAuthenticated' = TRUE
    /\ Answer(r)
    /\ unchangedButRequests /\ UNCHANGED <<transactions, rows, audit, bindingIntents>>

------------------------------------------------------------------------------
(* Binding the wallet. *)

WalletOptions(b, w) ==
    /\ InState(b, "PASSKEY_REGISTERED") /\ passkeyAuthenticated
    /\ Len(bindingIntents) < MaxIntents
    /\ bindingIntents' = Append(bindingIntents,
            [binding |-> b, wallet |-> w, deadline |-> now + SignTTL, used |-> FALSE])
    /\ transactions' = [transactions EXCEPT ![b].walletIntent = Len(bindingIntents) + 1]
    /\ UNCHANGED <<walletVars, rows, audit, counters, passkeyAuthenticated, authenticationChallenge>>

ReceiveWallet(r, b) ==
    LET i == transactions[b].walletIntent IN
    /\ InState(b, "PASSKEY_REGISTERED") /\ i # 0
    /\ ~bindingIntents[i].used /\ bindingIntents[i].deadline > now
    /\ Begin(r, "wallet", i)
    /\ unchangedButRequests /\ UNCHANGED trustVars

(* The transition to ACTIVE changes memory before the row: where the index   *)
(* refuses it the handler fails with the row at WALLET_BOUND.                *)
WalletVerified(r) ==
    LET i == requests[r].id
        b == bindingIntents[i].binding
        w == bindingIntents[i].wallet
        reached == IF IndexAllows(b, "ACTIVE") THEN "ACTIVE" ELSE "WALLET_BOUND"
    IN
    /\ Awaiting(r, "wallet")
    /\ bindingIntents' = [bindingIntents EXCEPT ![i].used = TRUE]
    /\ walletAddress' = w
    /\ transactions' = [transactions EXCEPT ![b].state = "ACTIVE"]
    /\ rows' = Updated(b, [rows[b] EXCEPT !.state = reached, !.wallet = w])
    /\ audit' = Audited(b, {"WALLET_BOUND", reached})
    /\ Answer(r)
    /\ UNCHANGED <<now, demoUser, invitationProof, challenges, supportIntents,
                   supportIdempotency, tiers, counters, passkeyAuthenticated,
                   authenticationChallenge>>

TrustNext ==
    \/ BeginBinding
    \/ \E b \in DOMAIN transactions :
        \/ AssertMockJpki(b)
        \/ \E w \in Wallets : WalletOptions(b, w)
        \/ \E r \in Requests : RegistrationOptions(r, b) \/ ReceiveRegistration(r, b) \/ ReceiveWallet(r, b)
    \/ \E r \in Requests :
        \/ RegistrationOptionsMade(r) \/ AuthenticationOptionsMade(r) \/ WalletVerified(r)
        \/ AuthenticationOptions(r)
        \/ \E k \in Credentials : RegistrationVerified(r, k) \/ ReceiveAuthentication(r, k)
        \/ \E n \in 0..MaxCounter : AuthenticationVerified(r, n)

Next ==
    \/ WalletNext /\ UNCHANGED trustVars
    \/ TrustNext

Spec == Init /\ [][Next]_vars

------------------------------------------------------------------------------
(* Properties. *)

States == {"CREATED", "JPKI_ASSERTED", "PASSKEY_REGISTERED", "WALLET_BOUND", "ACTIVE"}

(* A signature over w was accepted in this session. *)
Proved(w) ==
    \/ \E c \in DOMAIN challenges : challenges[c].used /\ challenges[c].address = w
    \/ \E i \in DOMAIN bindingIntents : bindingIntents[i].used /\ bindingIntents[i].wallet = w

(* A binding is ACTIVE only for a registered test user, after each earlier   *)
(* level was audited, with a passkey that is saved and a wallet that signed  *)
(* an intent of this very binding, although the WebAuthn and wallet answers  *)
(* overlap and may arrive after the transaction moved on.                    *)
AssuranceIsEarned ==
    \A b \in DOMAIN rows : rows[b].state = "ACTIVE" =>
        /\ demoUser # NoKey /\ audit[b] = States /\ ~transactions[b].jpkiChallenge
        /\ rows[b].passkey \in Saved
        /\ \E i \in DOMAIN bindingIntents :
            /\ bindingIntents[i].used /\ bindingIntents[i].binding = b
            /\ bindingIntents[i].wallet = rows[b].wallet

(* An account has one ACTIVE row, and a transaction in memory differs from   *)
(* its row only when that rule refused its last update.                      *)
RowsTellTheTruth ==
    \A b \in DOMAIN rows :
        /\ \A o \in DOMAIN rows : rows[b].state = "ACTIVE" /\ rows[o].state = "ACTIVE" => o = b
        /\ transactions[b].state # rows[b].state =>
            /\ transactions[b].state = "ACTIVE" /\ rows[b].state = "WALLET_BOUND"
            /\ \E o \in DOMAIN rows \ {b} : "ACTIVE" \in audit[o]

(* The account's wallet was proved by a signature, and a capability at an    *)
(* artist rests on an intent of a proved wallet that was signed and whose    *)
(* confirmation time passed; every active registration gives it, and each    *)
(* intent has its one key, whichever submissions and retries overlap.        *)
CapabilityFollowsSupport ==
    /\ walletAddress # NoWallet => Proved(walletAddress)
    /\ \A a \in Artists : CommunityCapability(a) =>
        \E i \in DOMAIN supportIntents :
            /\ supportIntents[i].artist = a /\ Proved(supportIntents[i].address)
            /\ supportIntents[i].status # "SIGNATURE_REQUIRED"
    /\ \A i \in DOMAIN supportIntents :
        /\ supportIntents[i].status = "SBT_ACTIVE" =>
            supportIntents[i].artist \in tiers /\ supportIntents[i].activateAt \in ConfirmDelay..now
        /\ \E k \in ClientKeys : supportIdempotency[k] = i

(* The challenge or intent a request carries was consumed meanwhile. *)
Consumed(r) ==
    \/ Awaiting(r, "siwe") /\ challenges[requests[r].id].used
    \/ Awaiting(r, "wallet") /\ bindingIntents[requests[r].id].used

(* A consumed challenge or intent never links a wallet again.                *)
ChallengeAuthorisesOnce ==
    [][\A r \in Requests : Consumed(r) /\ requests'[r] = Idle => UNCHANGED walletAddress]_vars
=============================================================================
