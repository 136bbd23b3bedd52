-------------------------- MODULE AccountTrustProofs --------------------------
(***************************************************************************)
(* Proofs about an account's assurance and its support registrations, for  *)
(* every set of wallets, passkeys, artists, keys and requests in flight.   *)
(*                                                                         *)
(* A handler that awaited a WebAuthn or wallet answer may resume long      *)
(* after its transaction moved on, so nothing it relies on may be a state: *)
(* what it holds is a level the binding once reached (Asserted,            *)
(* Registered) and never loses again, although its state may go back.      *)
(*                                                                         *)
(* The last parts are about two clients: the player, whose polls must      *)
(* outlast every confirmation under way, and the account trust page.       *)
(***************************************************************************)
EXTENDS TrustPage, PlayerSupport, FiniteSetTheorems, TLAPS

Transaction == [state : States, jpkiChallenge : BOOLEAN, registrationChallenge : BOOLEAN,
                walletIntent : Nat, expiresAt : Nat]
Row == [state : States, passkey : Credentials \cup {NoCredential}, wallet : Wallets \cup {NoWallet},
        expiresAt : Nat]
BindingIntent == [binding : Nat, wallet : Wallets, deadline : Nat, used : BOOLEAN]
Challenge == [address : Wallets, invited : BOOLEAN, expiresAt : Nat, used : BOOLEAN]
SupportIntent == [address : Wallets, artist : Artists, deadline : Nat,
                  status : {"SIGNATURE_REQUIRED", "CONFIRMING", "SBT_ACTIVE"}, activateAt : Nat]
Request ==
    {Idle} \cup [kind : {"siwe", "support", "registrationOptions", "registration",
                         "authenticationOptions", "wallet"}, id : Nat]
    \cup [kind : {"authentication"}, credential : Credentials, counter : Int]

(* Replacing and appending an element of a sequence. *)
LEMMA Replaced ==
    ASSUME NEW S, NEW s \in Seq(S), NEW i \in DOMAIN s, NEW v \in S
    PROVE  LET t == [s EXCEPT ![i] = v] IN
           /\ t \in Seq(S) /\ Len(t) = Len(s) /\ DOMAIN t = DOMAIN s
           /\ t[i] = v /\ \A j \in DOMAIN s : j # i => t[j] = s[j]
  <1> DEFINE t == [s EXCEPT ![i] = v]
  <1>1. DOMAIN t = 1..Len(s) /\ Len(s) \in Nat /\ \A j \in 1..Len(s) : t[j] \in S
    OBVIOUS
  <1>2. t \in [1..Len(s) -> S]
    BY <1>1
  <1>3. t \in Seq(S) /\ Len(t) = Len(s)
    BY <1>1, <1>2
  <1> QED BY <1>1, <1>3

LEMMA Appended ==
    ASSUME NEW S, NEW s \in Seq(S), NEW v \in S
    PROVE  LET t == Append(s, v) IN
           /\ t \in Seq(S) /\ Len(t) = Len(s) + 1 /\ DOMAIN t = DOMAIN s \cup {Len(s) + 1}
           /\ t[Len(s) + 1] = v /\ \A j \in DOMAIN s : t[j] = s[j]
  OBVIOUS

-----------------------------------------------------------------------------
(* The levels a binding reached. *)
Asserted(b) ==
    /\ "JPKI_ASSERTED" \in audit[b] /\ ~transactions[b].jpkiChallenge
    /\ transactions[b].state # "CREATED"
Registered(b) == Asserted(b) /\ "PASSKEY_REGISTERED" \in audit[b] /\ rows[b].passkey \in Saved

TrustTypes ==
    /\ transactions \in Seq(Transaction) /\ rows \in Seq(Row) /\ audit \in Seq(SUBSET States)
    /\ Len(transactions) = Len(rows) /\ Len(audit) = Len(rows)
    /\ bindingIntents \in Seq(BindingIntent) /\ counters \in [Credentials -> Int]

Levels ==
    /\ \A b \in DOMAIN rows :
        /\ demoUser # NoKey /\ "CREATED" \in audit[b]
        /\ transactions[b].walletIntent \in 0..Len(bindingIntents)
        /\ transactions[b].state # "CREATED" => Asserted(b)
        /\ transactions[b].state \in {"PASSKEY_REGISTERED", "ACTIVE"} => Registered(b)
    /\ \A i \in DOMAIN bindingIntents :
        bindingIntents[i].binding \in DOMAIN rows /\ Registered(bindingIntents[i].binding)

TrustInv == TrustTypes /\ Levels /\ AssuranceIsEarned /\ RowsTellTheTruth

(* The wallet session and its support registrations. *)
WalletTypes ==
    /\ now \in Nat /\ walletAddress \in Wallets \cup {NoWallet}
    /\ challenges \in Seq(Challenge) /\ supportIntents \in Seq(SupportIntent)
    /\ supportIdempotency \in [ClientKeys -> Nat]
SupportProved ==
    \A i \in DOMAIN supportIntents :
        /\ Proved(supportIntents[i].address)
        /\ supportIntents[i].status = "CONFIRMING" => supportIntents[i].activateAt >= ConfirmDelay

SessionInv == WalletTypes /\ SupportProved /\ CapabilityFollowsSupport

(* What a request in flight carries is there, and its binding at the level  *)
(* it was received at.                                                      *)
Held(x) ==
    /\ x \in Request
    /\ x.kind = "siwe" => x.id \in DOMAIN challenges
    /\ x.kind = "support" => x.id \in DOMAIN supportIntents
    /\ x.kind = "wallet" => x.id \in DOMAIN bindingIntents
    /\ x.kind \in {"registrationOptions", "registration"} => x.id \in DOMAIN rows /\ Asserted(x.id)
RequestInv == requests \in [Requests -> Request] /\ \A r \in Requests : Held(requests[r])

AccountInv == TrustInv /\ SessionInv /\ RequestInv

LEMMA InitInv == Init => AccountInv
  <1> SUFFICES ASSUME Init PROVE AccountInv
    OBVIOUS
  <1> USE WalletAssumption, TrustAssumption
  <1>1. TrustInv
    BY DEF Init, TrustInv, TrustTypes, Levels, AssuranceIsEarned, RowsTellTheTruth
  <1>2. SessionInv
    BY DEF Init, WalletInit, SessionInv, WalletTypes, SupportProved, CapabilityFollowsSupport,
           CommunityCapability
  <1>3. RequestInv
    BY DEF Init, WalletInit, RequestInv, Held, Request, Idle
  <1> QED BY <1>1, <1>2, <1>3 DEF AccountInv

-----------------------------------------------------------------------------
(* What no step takes back. *)
IntentsKept ==
    /\ bindingIntents' \in Seq(BindingIntent)
    /\ \A i \in DOMAIN bindingIntents :
        /\ i \in DOMAIN bindingIntents'
        /\ bindingIntents'[i].binding = bindingIntents[i].binding
        /\ bindingIntents'[i].wallet = bindingIntents[i].wallet
        /\ bindingIntents[i].used => bindingIntents'[i].used
    /\ \A i \in DOMAIN bindingIntents' \ DOMAIN bindingIntents :
        bindingIntents'[i].binding \in DOMAIN rows /\ Registered(bindingIntents'[i].binding)
ChallengesKept ==
    /\ challenges' \in Seq(Challenge)
    /\ \A c \in DOMAIN challenges :
        /\ c \in DOMAIN challenges' /\ challenges'[c].address = challenges[c].address
        /\ challenges[c].used => challenges'[c].used
LevelsKept ==
    \A b \in DOMAIN rows :
        /\ b \in DOMAIN rows' /\ (Asserted(b) => Asserted(b)') /\ (Registered(b) => Registered(b)')

(* One binding goes on: its transaction becomes t, its row v, its audit      *)
(* gains e.                                                                  *)
GoesOn(b, t, v, e) ==
    /\ transactions' = [transactions EXCEPT ![b] = t]
    /\ rows' = [rows EXCEPT ![b] = v]
    /\ audit' = [audit EXCEPT ![b] = @ \cup e]

(* What its handler must see to. *)
Faithful(b, t, v, e) ==
    LET reached == audit[b] \cup e IN
    /\ t.walletIntent \in 0..Len(bindingIntents')
    /\ t.state # "CREATED" => "JPKI_ASSERTED" \in reached /\ ~t.jpkiChallenge
    /\ Asserted(b) => ~t.jpkiChallenge /\ t.state # "CREATED"
    /\ t.state \in {"PASSKEY_REGISTERED", "ACTIVE"} => "PASSKEY_REGISTERED" \in reached /\ v.passkey \in Saved'
    /\ Registered(b) => v.passkey \in Saved'
    /\ v.state = "ACTIVE" =>
           /\ rows[b].state = "ACTIVE" \/ IndexAllows(b, "ACTIVE")
           /\ reached = States /\ ~t.jpkiChallenge /\ v.passkey \in Saved'
           /\ \E i \in DOMAIN bindingIntents' :
                bindingIntents'[i].used /\ bindingIntents'[i].binding = b /\ bindingIntents'[i].wallet = v.wallet
    /\ t.state # v.state =>
           /\ t.state = "ACTIVE" /\ v.state = "WALLET_BOUND"
           /\ \E o \in DOMAIN rows \ {b} : "ACTIVE" \in audit[o]

LEMMA BindingStep ==
    ASSUME TrustInv, NEW b \in DOMAIN rows, NEW t \in Transaction, NEW v \in Row, NEW e \in SUBSET States,
           GoesOn(b, t, v, e), Faithful(b, t, v, e), IntentsKept, Saved \subseteq Saved',
           counters' \in [Credentials -> Int], demoUser' = demoUser
    PROVE  TrustInv' /\ LevelsKept
  <1>1. /\ DOMAIN rows = 1..Len(rows) /\ DOMAIN transactions = DOMAIN rows /\ DOMAIN audit = DOMAIN rows
        /\ b \in DOMAIN transactions /\ b \in DOMAIN audit /\ audit[b] \cup e \in SUBSET States
    BY DEF TrustInv, TrustTypes
  <1>2. /\ transactions' \in Seq(Transaction) /\ Len(transactions') = Len(transactions)
        /\ transactions'[b] = t /\ \A c \in DOMAIN rows : c # b => transactions'[c] = transactions[c]
    BY <1>1, Replaced DEF TrustInv, TrustTypes, GoesOn
  <1>3. /\ rows' \in Seq(Row) /\ Len(rows') = Len(rows) /\ DOMAIN rows' = DOMAIN rows
        /\ rows'[b] = v /\ \A c \in DOMAIN rows : c # b => rows'[c] = rows[c]
    BY <1>1, Replaced DEF TrustInv, TrustTypes, GoesOn
  <1>4. /\ audit' \in Seq(SUBSET States) /\ Len(audit') = Len(audit)
        /\ audit'[b] = audit[b] \cup e /\ \A c \in DOMAIN rows : c # b => audit'[c] = audit[c]
    BY <1>1, Replaced DEF TrustInv, TrustTypes, GoesOn
  <1>5. TrustTypes'
    BY <1>2, <1>3, <1>4 DEF TrustInv, TrustTypes, IntentsKept
  <1>6. LevelsKept
    <2> SUFFICES ASSUME NEW c \in DOMAIN rows
                 PROVE  (Asserted(c) => Asserted(c)') /\ (Registered(c) => Registered(c)')
      BY <1>3 DEF LevelsKept
    <2>1. CASE c = b
      BY <1>2, <1>3, <1>4, <2>1 DEF Asserted, Registered, Faithful
    <2>2. CASE c # b
      BY <1>2, <1>3, <1>4, <2>2 DEF Asserted, Registered
    <2> QED BY <2>1, <2>2
  <1>7. Len(bindingIntents) \in Nat /\ Len(bindingIntents') \in Nat /\ Len(bindingIntents) <= Len(bindingIntents')
    <2>1. /\ Len(bindingIntents) \in Nat /\ Len(bindingIntents') \in Nat
          /\ DOMAIN bindingIntents = 1..Len(bindingIntents)
          /\ DOMAIN bindingIntents' = 1..Len(bindingIntents')
      BY DEF IntentsKept, TrustInv, TrustTypes
    <2>2. CASE Len(bindingIntents) # 0
      <3>1. Len(bindingIntents) \in DOMAIN bindingIntents
        BY <2>1, <2>2
      <3> QED BY <2>1, <3>1 DEF IntentsKept
    <2> QED BY <2>1, <2>2
  <1>8. Levels'
    <2>1. ASSUME NEW c \in DOMAIN rows'
          PROVE  /\ demoUser' # NoKey /\ "CREATED" \in audit'[c]
                 /\ transactions'[c].walletIntent \in 0..Len(bindingIntents')
                 /\ transactions'[c].state # "CREATED" => Asserted(c)'
                 /\ transactions'[c].state \in {"PASSKEY_REGISTERED", "ACTIVE"} => Registered(c)'
      <3>1. CASE c = b
        BY <1>2, <1>3, <1>4, <3>1 DEF Asserted, Registered, Faithful, TrustInv, Levels
      <3>2. CASE c # b
        <4>1. c \in DOMAIN rows
          BY <1>3
        <4> QED BY <1>2, <1>3, <1>4, <1>6, <1>7, <3>2, <4>1 DEF TrustInv, Levels, LevelsKept
      <3> QED BY <3>1, <3>2
    <2>2. ASSUME NEW i \in DOMAIN bindingIntents'
          PROVE  (bindingIntents[i].binding \in DOMAIN rows /\ Registered(bindingIntents[i].binding))'
      <3>1. bindingIntents'[i].binding \in DOMAIN rows /\ Registered(bindingIntents'[i].binding)
        BY <2>2 DEF IntentsKept, TrustInv, Levels
      <3> QED BY <1>3, <1>6, <3>1 DEF LevelsKept
    <2> QED BY <2>1, <2>2 DEF Levels
  <1>9. AssuranceIsEarned'
    <2> SUFFICES ASSUME NEW c \in DOMAIN rows', rows'[c].state = "ACTIVE"
                 PROVE  /\ demoUser' # NoKey /\ audit'[c] = States /\ ~transactions'[c].jpkiChallenge
                        /\ rows'[c].passkey \in Saved'
                        /\ \E i \in DOMAIN bindingIntents' :
                            /\ bindingIntents'[i].used /\ bindingIntents'[i].binding = c
                            /\ bindingIntents'[i].wallet = rows'[c].wallet
      BY DEF AssuranceIsEarned
    <2>1. CASE c = b
      BY <1>2, <1>3, <1>4, <1>8, <2>1 DEF Faithful, Levels
    <2>2. CASE c # b
      <3>1. /\ demoUser # NoKey /\ audit[c] = States /\ ~transactions[c].jpkiChallenge
            /\ rows[c].passkey \in Saved
            /\ \E i \in DOMAIN bindingIntents :
                /\ bindingIntents[i].used /\ bindingIntents[i].binding = c
                /\ bindingIntents[i].wallet = rows[c].wallet
        BY <1>3, <2>2 DEF TrustInv, AssuranceIsEarned
      <3> QED BY <1>2, <1>3, <1>4, <2>2, <3>1 DEF IntentsKept
    <2> QED BY <2>1, <2>2
  <1>10. RowsTellTheTruth'
    <2>1. ASSUME NEW c \in DOMAIN rows, NEW o \in DOMAIN rows, rows'[c].state = "ACTIVE", rows'[o].state = "ACTIVE"
          PROVE  o = c
      <3>1. ASSUME NEW d \in DOMAIN rows, d # b, rows[d].state = "ACTIVE", v.state = "ACTIVE" PROVE FALSE
        BY <3>1 DEF Faithful, IndexAllows, TrustInv, RowsTellTheTruth
      <3> QED BY <1>3, <2>1, <3>1 DEF TrustInv, RowsTellTheTruth
    <2>2. ASSUME NEW c \in DOMAIN rows, transactions'[c].state # rows'[c].state
          PROVE  /\ transactions'[c].state = "ACTIVE" /\ rows'[c].state = "WALLET_BOUND"
                 /\ \E o \in DOMAIN rows \ {c} : "ACTIVE" \in audit'[o]
      <3>1. \A o \in DOMAIN rows : "ACTIVE" \in audit[o] => "ACTIVE" \in audit'[o]
        BY <1>4
      <3>2. /\ transactions'[c].state = "ACTIVE" /\ rows'[c].state = "WALLET_BOUND"
            /\ \E o \in DOMAIN rows \ {c} : "ACTIVE" \in audit[o]
        BY <1>2, <1>3, <2>2 DEF Faithful, TrustInv, RowsTellTheTruth
      <3> QED BY <3>1, <3>2
    <2> QED BY <1>3, <2>1, <2>2 DEF RowsTellTheTruth
  <1> QED BY <1>5, <1>6, <1>8, <1>9, <1>10 DEF TrustInv

bindingVars == <<transactions, rows, audit, bindingIntents>>

LEMMA TrustStill ==
    ASSUME TrustInv, UNCHANGED bindingVars, demoUser # NoKey => demoUser' = demoUser,
           counters' = counters \/ (counters' \in [Credentials -> Int] /\ Saved \subseteq Saved')
    PROVE  TrustInv' /\ LevelsKept /\ IntentsKept
  <1> USE DEF bindingVars
  <1>1. \A b \in DOMAIN rows : demoUser' # NoKey
    BY DEF TrustInv, Levels
  <1>2. LevelsKept /\ IntentsKept /\ Saved \subseteq Saved'
    BY DEF LevelsKept, IntentsKept, Asserted, Registered, Saved, TrustInv, TrustTypes
  <1>3. TrustTypes' /\ RowsTellTheTruth'
    BY DEF TrustInv, TrustTypes, RowsTellTheTruth
  <1>4. Levels'
    BY <1>1, <1>2 DEF TrustInv, Levels, LevelsKept
  <1>5. AssuranceIsEarned'
    BY <1>1, <1>2 DEF TrustInv, AssuranceIsEarned
  <1> QED BY <1>2, <1>3, <1>4, <1>5 DEF TrustInv

(* The steps of a request: received, answered, or not concerned. *)
RequestMove ==
    \/ requests' = requests
    \/ \E r \in Requests : requests' = [requests EXCEPT ![r] = Idle]
    \/ \E r \in Requests, x \in Request : Held(x)' /\ requests' = [requests EXCEPT ![r] = x]

SupportsKept == DOMAIN supportIntents \subseteq DOMAIN supportIntents'

LEMMA RequestStep ==
    ASSUME RequestInv, LevelsKept, IntentsKept, ChallengesKept, SupportsKept, RequestMove
    PROVE  RequestInv'
  <1>1. \A r \in Requests : Held(requests[r])'  \/ requests'[r] # requests[r]
    BY DEF RequestInv, Held, LevelsKept, IntentsKept, ChallengesKept, SupportsKept
  <1>2. requests \in [Requests -> Request] /\ Idle \in Request /\ Idle.kind = "idle"
    BY DEF RequestInv, Request, Idle
  <1>3. CASE requests' = requests
    BY <1>1, <1>2, <1>3 DEF RequestInv
  <1>4. ASSUME NEW r \in Requests, requests' = [requests EXCEPT ![r] = Idle] PROVE RequestInv'
    BY <1>1, <1>2, <1>4 DEF RequestInv, Held
  <1>5. ASSUME NEW r \in Requests, NEW x \in Request, Held(x)', requests' = [requests EXCEPT ![r] = x]
        PROVE  RequestInv'
    BY <1>1, <1>2, <1>5 DEF RequestInv, Held
  <1> QED BY <1>3, <1>4, <1>5 DEF RequestMove

(* A proved wallet stays proved. *)
LEMMA ProvedKept ==
    ASSUME IntentsKept, ChallengesKept, NEW w, Proved(w)
    PROVE  Proved(w)'
  BY DEF IntentsKept, ChallengesKept, Proved

LEMMA SessionStill ==
    ASSUME SessionInv, IntentsKept, ChallengesKept, now' \in Nat, now' >= now,
           UNCHANGED <<supportIntents, supportIdempotency, tiers>>,
           \/ walletAddress' = walletAddress
           \/ walletAddress' \in Wallets /\ Proved(walletAddress)'
    PROVE  SessionInv'
  <1>1. WalletTypes'
    BY DEF SessionInv, WalletTypes, ChallengesKept
  <1>2. SupportProved'
    BY ProvedKept DEF SessionInv, SupportProved
  <1>3. walletAddress' # NoWallet => Proved(walletAddress)'
    BY ProvedKept DEF SessionInv, CapabilityFollowsSupport
  <1>4. ASSUME NEW a \in Artists, CommunityCapability(a)'
        PROVE  \E i \in DOMAIN supportIntents' :
                 /\ supportIntents'[i].artist = a /\ Proved(supportIntents[i].address)'
                 /\ supportIntents'[i].status # "SIGNATURE_REQUIRED"
    BY <1>4, ProvedKept DEF SessionInv, CapabilityFollowsSupport, CommunityCapability
  <1>5. ASSUME NEW i \in DOMAIN supportIntents'
        PROVE  /\ supportIntents'[i].status = "SBT_ACTIVE" =>
                      supportIntents'[i].artist \in tiers' /\ supportIntents'[i].activateAt \in ConfirmDelay..now'
               /\ \E k \in ClientKeys : supportIdempotency'[k] = i
    BY <1>5, WalletAssumption DEF SessionInv, CapabilityFollowsSupport, WalletTypes, SupportIntent
  <1>6. CapabilityFollowsSupport'
    BY <1>3, <1>4, <1>5 DEF CapabilityFollowsSupport
  <1> QED BY <1>1, <1>2, <1>6 DEF SessionInv

(* A support intent goes on: signed, or confirmed with its artist's tier. *)
LEMMA SupportStep ==
    ASSUME SessionInv, NEW i \in DOMAIN supportIntents, NEW v \in SupportIntent,
           supportIntents' = [supportIntents EXCEPT ![i] = v], v.address = supportIntents[i].address,
           v.artist = supportIntents[i].artist,
           \/ v.status = "CONFIRMING" /\ v.activateAt >= ConfirmDelay /\ tiers' = tiers
           \/ /\ v.status = "SBT_ACTIVE" /\ v.activateAt \in ConfirmDelay..now
              /\ tiers' = tiers \cup {v.artist},
           UNCHANGED <<now, walletAddress, challenges, bindingIntents, supportIdempotency>>
    PROVE  SessionInv' /\ SupportsKept
  <1>1. /\ supportIntents' \in Seq(SupportIntent) /\ DOMAIN supportIntents' = DOMAIN supportIntents
        /\ supportIntents'[i] = v /\ \A j \in DOMAIN supportIntents : j # i => supportIntents'[j] = supportIntents[j]
    BY Replaced DEF SessionInv, WalletTypes
  <1>2. WalletTypes' /\ SupportsKept
    BY <1>1 DEF SessionInv, WalletTypes, SupportsKept
  <1>3. \A w : Proved(w)' <=> Proved(w)
    BY DEF Proved
  <1>4. SupportProved'
    BY <1>1, <1>3 DEF SessionInv, SupportProved
  <1>5. ASSUME NEW a \in Artists, CommunityCapability(a)'
        PROVE  \E j \in DOMAIN supportIntents' :
                 /\ supportIntents'[j].artist = a /\ Proved(supportIntents[j].address)'
                 /\ supportIntents'[j].status # "SIGNATURE_REQUIRED"
    <2>1. CASE a = v.artist
      BY <1>1, <1>4, <2>1 DEF SupportProved
    <2>2. CASE a # v.artist
      <3>1. a \in tiers
        BY <1>5, <2>2 DEF CommunityCapability
      <3>2. PICK j \in DOMAIN supportIntents :
              supportIntents[j].artist = a /\ supportIntents[j].status # "SIGNATURE_REQUIRED"
        BY <3>1 DEF SessionInv, CapabilityFollowsSupport, CommunityCapability
      <3> QED BY <1>1, <1>4, <2>2, <3>2 DEF SupportProved
    <2> QED BY <2>1, <2>2
  <1>6. ASSUME NEW j \in DOMAIN supportIntents'
        PROVE  /\ supportIntents'[j].status = "SBT_ACTIVE" =>
                      supportIntents'[j].artist \in tiers' /\ supportIntents'[j].activateAt \in ConfirmDelay..now'
               /\ \E k \in ClientKeys : supportIdempotency'[k] = j
    BY <1>1, <1>6 DEF SessionInv, CapabilityFollowsSupport
  <1>7. CapabilityFollowsSupport'
    BY <1>3, <1>5, <1>6 DEF SessionInv, CapabilityFollowsSupport
  <1> QED BY <1>2, <1>4, <1>7 DEF SessionInv

-----------------------------------------------------------------------------
(* The routes of the wallet session. *)
LEMMA SupportCreated ==
    ASSUME SessionInv, NEW k \in ClientKeys, NEW a \in Artists, CreateSupportIntent(k, a),
           UNCHANGED bindingIntents
    PROVE  SessionInv' /\ SupportsKept
  <1> DEFINE n == Len(supportIntents) + 1
             x == [address |-> walletAddress, artist |-> a, deadline |-> now + SignTTL,
                   status |-> "SIGNATURE_REQUIRED", activateAt |-> 0]
  <1>1. /\ walletAddress # NoWallet /\ supportIdempotency[k] = 0
        /\ supportIntents' = Append(supportIntents, x)
        /\ supportIdempotency' = [supportIdempotency EXCEPT ![k] = n]
        /\ UNCHANGED <<now, walletAddress, challenges, tiers>>
    BY DEF CreateSupportIntent, FirstUse
  <1>2. x \in SupportIntent /\ x.status = "SIGNATURE_REQUIRED" /\ x.address = walletAddress
    BY <1>1, WalletAssumption DEF SessionInv, WalletTypes, SupportIntent
  <1> HIDE DEF x
  <1>3. /\ supportIntents' \in Seq(SupportIntent) /\ supportIntents'[n] = x
        /\ DOMAIN supportIntents' = DOMAIN supportIntents \cup {n}
        /\ \A i \in DOMAIN supportIntents : supportIntents'[i] = supportIntents[i]
        /\ n \in Nat /\ \A i \in DOMAIN supportIntents : i # 0 /\ i # n
    BY <1>1, <1>2, Appended DEF SessionInv, WalletTypes
  <1>4. WalletTypes' /\ SupportsKept
    BY <1>1, <1>3 DEF SessionInv, WalletTypes, SupportsKept
  <1>5. \A w : Proved(w)' <=> Proved(w)
    BY <1>1 DEF Proved
  <1>6. Proved(walletAddress)
    BY <1>1 DEF SessionInv, CapabilityFollowsSupport
  <1>7. SupportProved'
    BY <1>2, <1>3, <1>5, <1>6 DEF SessionInv, SupportProved
  <1>8. ASSUME NEW b \in Artists, CommunityCapability(b)'
        PROVE  \E j \in DOMAIN supportIntents' :
                 /\ supportIntents'[j].artist = b /\ Proved(supportIntents[j].address)'
                 /\ supportIntents'[j].status # "SIGNATURE_REQUIRED"
    BY <1>1, <1>3, <1>5, <1>8 DEF SessionInv, CapabilityFollowsSupport, CommunityCapability
  <1>9. ASSUME NEW j \in DOMAIN supportIntents'
        PROVE  /\ supportIntents'[j].status = "SBT_ACTIVE" =>
                      supportIntents'[j].artist \in tiers' /\ supportIntents'[j].activateAt \in ConfirmDelay..now'
               /\ \E l \in ClientKeys : supportIdempotency'[l] = j
    <2>1. CASE j = n
      <3>1. supportIdempotency'[k] = n
        BY <1>1 DEF SessionInv, WalletTypes
      <3> QED BY <1>2, <1>3, <2>1, <3>1
    <2>2. CASE j \in DOMAIN supportIntents
      <3>1. PICK l \in ClientKeys : supportIdempotency[l] = j
        BY <2>2 DEF SessionInv, CapabilityFollowsSupport
      <3>2. supportIdempotency'[l] = j
        BY <1>1, <1>3, <2>2, <3>1 DEF SessionInv, WalletTypes
      <3> QED BY <1>1, <1>3, <2>2, <3>2 DEF SessionInv, CapabilityFollowsSupport
    <2> QED BY <1>3, <2>1, <2>2
  <1>10. CapabilityFollowsSupport'
    BY <1>1, <1>5, <1>6, <1>8, <1>9 DEF CapabilityFollowsSupport
  <1> QED BY <1>4, <1>7, <1>10 DEF SessionInv

LEMMA WalletStep ==
    ASSUME AccountInv, WalletNext, UNCHANGED trustVars
    PROVE  AccountInv'
  <1>1. UNCHANGED <<bindingVars, counters>> /\ TrustInv /\ SessionInv /\ RequestInv
    BY DEF trustVars, bindingVars, AccountInv
  <1>2. demoUser # NoKey => demoUser' = demoUser
    BY DEF WalletNext, Tick, RegisterDemoUser, CreateSupportIntent, CreateChallenge, RefuseSignature,
           ChallengeVerified, SupportVerified, ReceiveChallenge, ReceiveSupport, SupportRegistration
  <1>3. TrustInv' /\ LevelsKept /\ IntentsKept
    BY <1>1, <1>2, TrustStill
  <1>4. now \in Nat /\ challenges \in Seq(Challenge)
    BY <1>1 DEF SessionInv, WalletTypes
  <1>5. ASSUME UNCHANGED challenges PROVE ChallengesKept
    BY <1>4, <1>5 DEF ChallengesKept
  <1>6. ASSUME UNCHANGED supportIntents PROVE SupportsKept
    BY <1>6 DEF SupportsKept
  (* It is enough to look at what is disturbed. *)
  <1>7. ASSUME UNCHANGED <<challenges, supportIntents, supportIdempotency, tiers, walletAddress>>,
               now' \in {now, now + 1}, RequestMove
        PROVE  AccountInv'
    BY <1>1, <1>3, <1>4, <1>5, <1>6, <1>7, SessionStill, RequestStep DEF AccountInv
  <1>8. CASE Tick \/ \E k \in ClientKeys : RegisterDemoUser(k)
    BY <1>7, <1>8 DEF Tick, RegisterDemoUser, RequestMove
  <1>9. ASSUME NEW k \in ClientKeys, NEW a \in Artists, CreateSupportIntent(k, a) PROVE AccountInv'
    <2>1. UNCHANGED <<challenges, requests>>
      BY <1>9 DEF CreateSupportIntent
    <2> QED BY <1>1, <1>3, <1>5, <1>9, <2>1, SupportCreated, RequestStep
            DEF AccountInv, RequestMove, bindingVars
  <1>10. ASSUME NEW w \in Wallets, NEW invited \in BOOLEAN, CreateChallenge(w, invited) PROVE AccountInv'
    <2> DEFINE x == [address |-> w, invited |-> invited, expiresAt |-> now + SignTTL, used |-> FALSE]
    <2>1. x \in Challenge
      BY <1>4, WalletAssumption DEF Challenge
    <2> HIDE DEF x
    <2>2. /\ challenges' = Append(challenges, x)
          /\ UNCHANGED <<now, walletAddress, supportIntents, supportIdempotency, tiers, requests>>
      BY <1>10 DEF CreateChallenge, x
    <2>3. ChallengesKept
      BY <1>4, <2>1, <2>2, Appended DEF ChallengesKept
    <2> QED BY <1>1, <1>3, <1>4, <1>6, <2>2, <2>3, SessionStill, RequestStep DEF AccountInv, RequestMove
  <1>11. ASSUME NEW r \in Requests, RefuseSignature(r) PROVE AccountInv'
    BY <1>7, <1>11 DEF RefuseSignature, Answer, RequestMove
  <1>12. ASSUME NEW r \in Requests, ChallengeVerified(r) PROVE AccountInv'
    <2> DEFINE c == requests[r].id
    <2>1. c \in DOMAIN challenges
      BY <1>1, <1>12 DEF ChallengeVerified, Awaiting, RequestInv, Held
    <2>2. PICK x \in Challenge : x = challenges[c]
      BY <1>4, <2>1
    <2>3. PICK y \in Challenge : y = [x EXCEPT !.used = TRUE] /\ y.address = x.address /\ y.used
      <3>1. LET z == [x EXCEPT !.used = TRUE] IN z \in Challenge /\ z.address = x.address /\ z.used
        BY DEF Challenge
      <3> QED BY <3>1
    <2>4. /\ challenges' = [challenges EXCEPT ![c] = y] /\ walletAddress' = x.address
          /\ requests' = [requests EXCEPT ![r] = Idle]
          /\ UNCHANGED <<now, supportIntents, supportIdempotency, tiers>>
      BY <1>4, <1>12, <2>1, <2>2, <2>3 DEF ChallengeVerified, Answer
    <2>5. /\ challenges' \in Seq(Challenge) /\ DOMAIN challenges' = DOMAIN challenges /\ challenges'[c] = y
          /\ \A d \in DOMAIN challenges : d # c => challenges'[d] = challenges[d]
      BY <1>4, <2>1, <2>4, Replaced
    <2>6. ChallengesKept
      BY <2>2, <2>3, <2>5 DEF ChallengesKept
    <2>7. walletAddress' \in Wallets /\ Proved(walletAddress)'
      BY <2>1, <2>3, <2>4, <2>5 DEF Challenge, Proved
    <2>8. SessionInv'
      <3>1. now' \in Nat /\ now' >= now
        BY <1>4, <2>4
      <3> QED BY <1>1, <1>3, <2>4, <2>6, <2>7, <3>1, SessionStill
    <2>9. RequestInv'
      <3>1. RequestMove /\ SupportsKept
        BY <1>6, <2>4 DEF RequestMove
      <3> QED BY <1>1, <1>3, <2>6, <3>1, RequestStep
    <2> QED BY <1>3, <2>8, <2>9 DEF AccountInv
  <1>13. ASSUME NEW r \in Requests, NEW c \in DOMAIN challenges, ReceiveChallenge(r, c) PROVE AccountInv'
    <2> DEFINE x == [kind |-> "siwe", id |-> c]
    <2>1. x \in Request /\ x.kind = "siwe" /\ x.id = c
      BY <1>4 DEF Request
    <2> HIDE DEF x
    <2>2. /\ requests' = [requests EXCEPT ![r] = x]
          /\ UNCHANGED <<now, walletAddress, challenges, supportIntents, supportIdempotency, tiers>>
      BY <1>13 DEF ReceiveChallenge, Begin, x
    <2> QED BY <1>7, <2>1, <2>2 DEF RequestMove, Held
  <1>14. ASSUME NEW r \in Requests, NEW i \in DOMAIN supportIntents, ReceiveSupport(r, i) PROVE AccountInv'
    <2> DEFINE x == [kind |-> "support", id |-> i]
    <2>1. x \in Request /\ x.kind = "support" /\ x.id = i
      BY <1>1 DEF Request, SessionInv, WalletTypes
    <2> HIDE DEF x
    <2>2. /\ requests' = [requests EXCEPT ![r] = x]
          /\ UNCHANGED <<now, walletAddress, challenges, supportIntents, supportIdempotency, tiers>>
      BY <1>14 DEF ReceiveSupport, Begin, x
    <2> QED BY <1>7, <2>1, <2>2 DEF RequestMove, Held
  <1>15. ASSUME NEW i \in DOMAIN supportIntents, NEW v \in SupportIntent, v.address = supportIntents[i].address,
                v.artist = supportIntents[i].artist, supportIntents' = [supportIntents EXCEPT ![i] = v],
                \/ v.status = "CONFIRMING" /\ v.activateAt >= ConfirmDelay /\ tiers' = tiers
                \/ /\ v.status = "SBT_ACTIVE" /\ v.activateAt \in ConfirmDelay..now
                   /\ tiers' = tiers \cup {v.artist},
                UNCHANGED <<now, walletAddress, challenges, supportIdempotency>>, RequestMove
         PROVE  AccountInv'
    BY <1>1, <1>3, <1>5, <1>15, SupportStep, RequestStep DEF AccountInv, bindingVars
  <1>16. ASSUME NEW r \in Requests, SupportVerified(r) PROVE AccountInv'
    <2> DEFINE i == requests[r].id
    <2>1. i \in DOMAIN supportIntents
      BY <1>1, <1>16 DEF SupportVerified, Awaiting, RequestInv, Held
    <2>2. PICK x \in SupportIntent : x = supportIntents[i]
      BY <1>1, <2>1 DEF SessionInv, WalletTypes
    <2>3. PICK due \in Nat : due = now + ConfirmDelay /\ due >= ConfirmDelay
      BY <1>4, WalletAssumption
    <2>4. PICK v \in SupportIntent : /\ v = [x EXCEPT !.status = "CONFIRMING", !.activateAt = due]
                                     /\ v.status = "CONFIRMING" /\ v.activateAt = due
                                     /\ v.address = x.address /\ v.artist = x.artist
      <3>1. LET v == [x EXCEPT !.status = "CONFIRMING", !.activateAt = due] IN
              /\ v \in SupportIntent /\ v.status = "CONFIRMING" /\ v.activateAt = due
              /\ v.address = x.address /\ v.artist = x.artist
        BY DEF SupportIntent
      <3> QED BY <3>1
    <2>5. /\ supportIntents' = [supportIntents EXCEPT ![i] = v] /\ requests' = [requests EXCEPT ![r] = Idle]
          /\ UNCHANGED <<now, walletAddress, challenges, supportIdempotency, tiers>>
      BY <1>1, <1>16, <2>1, <2>2, <2>3, <2>4 DEF SupportVerified, Answer, SessionInv, WalletTypes
    <2> HIDE DEF i
    <2>6. RequestMove
      BY <2>5 DEF RequestMove
    <2>7. v.address = supportIntents[i].address /\ v.artist = supportIntents[i].artist
      BY <2>2, <2>4
    <2>8. v.status = "CONFIRMING" /\ v.activateAt >= ConfirmDelay /\ tiers' = tiers
      BY <2>3, <2>4, <2>5
    <2> QED BY <1>15, <2>1, <2>5, <2>6, <2>7, <2>8
  <1>17. ASSUME NEW i \in DOMAIN supportIntents, SupportRegistration(i) PROVE AccountInv'
    <2>1. PICK x \in SupportIntent : x = supportIntents[i]
      BY <1>1 DEF SessionInv, WalletTypes
    <2>2. PICK v \in SupportIntent : /\ v = [x EXCEPT !.status = "SBT_ACTIVE"] /\ v.status = "SBT_ACTIVE"
                                     /\ v.activateAt = x.activateAt /\ v.address = x.address /\ v.artist = x.artist
      <3>1. LET v == [x EXCEPT !.status = "SBT_ACTIVE"] IN
              /\ v \in SupportIntent /\ v.status = "SBT_ACTIVE"
              /\ v.activateAt = x.activateAt /\ v.address = x.address /\ v.artist = x.artist
        BY DEF SupportIntent
      <3> QED BY <3>1
    <2>3. /\ supportIntents' = [supportIntents EXCEPT ![i] = v] /\ tiers' = tiers \cup {v.artist}
          /\ UNCHANGED <<now, walletAddress, challenges, supportIdempotency, requests>>
      BY <1>1, <1>17, <2>1, <2>2 DEF SupportRegistration, SessionInv, WalletTypes
    <2>4. v.activateAt \in ConfirmDelay..now
      <3>1. x.status = "CONFIRMING" /\ x.activateAt <= now /\ x.activateAt \in Nat
        BY <1>17, <2>1 DEF SupportRegistration, Confirmed, SupportIntent
      <3>2. x.activateAt >= ConfirmDelay
        BY <1>1, <2>1, <3>1 DEF SessionInv, SupportProved
      <3> QED BY <1>4, <2>2, <3>1, <3>2, WalletAssumption
    <2> QED BY <1>15, <2>1, <2>2, <2>3, <2>4 DEF RequestMove
  <1> QED BY <1>8, <1>9, <1>10, <1>11, <1>12, <1>13, <1>14, <1>16, <1>17 DEF WalletNext

-----------------------------------------------------------------------------
(* The account trust routes.  The session is not concerned but for the      *)
(* wallet that a binding links.                                             *)
LEMMA TrustMoves ==
    ASSUME AccountInv, TrustInv', LevelsKept, IntentsKept, RequestMove,
           UNCHANGED <<now, challenges, supportIntents, supportIdempotency, tiers>>,
           \/ walletAddress' = walletAddress
           \/ walletAddress' \in Wallets /\ Proved(walletAddress)'
    PROVE  AccountInv'
  <1>1. ChallengesKept /\ SupportsKept /\ now' \in Nat /\ now' >= now
    BY DEF ChallengesKept, SupportsKept, AccountInv, SessionInv, WalletTypes
  <1>2. SessionInv'
    BY <1>1, SessionStill DEF AccountInv
  <1>3. RequestInv'
    BY <1>1, RequestStep DEF AccountInv
  <1> QED BY <1>2, <1>3 DEF AccountInv

LEMMA BeginStep ==
    ASSUME AccountInv, BeginBinding
    PROVE  AccountInv'
  <1> DEFINE n == Len(rows) + 1
             t == [state |-> "CREATED", jpkiChallenge |-> TRUE, registrationChallenge |-> FALSE,
                   walletIntent |-> 0, expiresAt |-> now + BindingTTL]
             v == [state |-> "CREATED", passkey |-> NoCredential, wallet |-> NoWallet,
                   expiresAt |-> now + BindingTTL]
  <1>1. /\ demoUser # NoKey /\ transactions' = Append(transactions, t) /\ rows' = Append(rows, v)
        /\ audit' = Append(audit, {"CREATED"})
        /\ UNCHANGED <<walletVars, bindingIntents, counters>>
    BY DEF BeginBinding, Inserted
  <1>2. now + BindingTTL \in Nat
    BY WalletAssumption, TrustAssumption DEF AccountInv, SessionInv, WalletTypes
  <1>3. t \in Transaction /\ t.state = "CREATED" /\ t.walletIntent = 0
    BY <1>2 DEF Transaction, States
  <1>4. v \in Row /\ v.state = "CREATED"
    BY <1>2 DEF Row, States
  <1> HIDE DEF t, v
  <1>5. /\ DOMAIN rows = 1..Len(rows) /\ DOMAIN transactions = DOMAIN rows /\ DOMAIN audit = DOMAIN rows
        /\ Len(rows) \in Nat /\ Len(transactions) = Len(rows) /\ Len(audit) = Len(rows) /\ n \notin DOMAIN rows
        /\ Len(bindingIntents) \in Nat
    BY DEF AccountInv, TrustInv, TrustTypes
  <1>6. /\ transactions' \in Seq(Transaction) /\ Len(transactions') = n /\ transactions'[n] = t
        /\ \A c \in DOMAIN rows : transactions'[c] = transactions[c]
    BY <1>1, <1>3, <1>5, Appended DEF AccountInv, TrustInv, TrustTypes
  <1>7. /\ rows' \in Seq(Row) /\ Len(rows') = n /\ DOMAIN rows' = DOMAIN rows \cup {n} /\ rows'[n] = v
        /\ \A c \in DOMAIN rows : rows'[c] = rows[c]
    BY <1>1, <1>4, <1>5, Appended DEF AccountInv, TrustInv, TrustTypes
  <1>8. /\ audit' \in Seq(SUBSET States) /\ Len(audit') = n /\ audit'[n] = {"CREATED"}
        /\ \A c \in DOMAIN rows : audit'[c] = audit[c]
    <2>1. {"CREATED"} \in SUBSET States
      BY DEF States
    <2> QED BY <1>1, <1>5, <2>1, Appended DEF AccountInv, TrustInv, TrustTypes
  <1>9. Saved' = Saved /\ demoUser' = demoUser
    BY <1>1 DEF Saved, walletVars
  <1>10. LevelsKept
    BY <1>6, <1>7, <1>8, <1>9 DEF LevelsKept, Asserted, Registered
  <1>11. IntentsKept
    BY <1>1 DEF IntentsKept, AccountInv, TrustInv, TrustTypes
  <1>12. TrustTypes'
    BY <1>1, <1>6, <1>7, <1>8 DEF AccountInv, TrustInv, TrustTypes
  <1>13. Levels'
    <2>1. ASSUME NEW c \in DOMAIN rows'
          PROVE  /\ demoUser' # NoKey /\ "CREATED" \in audit'[c]
                 /\ transactions'[c].walletIntent \in 0..Len(bindingIntents')
                 /\ transactions'[c].state # "CREATED" => Asserted(c)'
                 /\ transactions'[c].state \in {"PASSKEY_REGISTERED", "ACTIVE"} => Registered(c)'
      <3>1. CASE c = n
        BY <1>1, <1>3, <1>5, <1>6, <1>8, <1>9, <3>1
      <3>2. CASE c \in DOMAIN rows
        BY <1>1, <1>6, <1>8, <1>9, <1>10, <3>2 DEF AccountInv, TrustInv, Levels, LevelsKept
      <3> QED BY <1>7, <3>1, <3>2
    <2>2. ASSUME NEW i \in DOMAIN bindingIntents'
          PROVE  (bindingIntents[i].binding \in DOMAIN rows /\ Registered(bindingIntents[i].binding))'
      BY <1>1, <1>7, <1>10, <2>2 DEF AccountInv, TrustInv, Levels, LevelsKept
    <2> QED BY <2>1, <2>2 DEF Levels
  <1>14. AssuranceIsEarned'
    BY <1>1, <1>4, <1>6, <1>7, <1>8, <1>9 DEF AccountInv, TrustInv, AssuranceIsEarned
  <1>15. RowsTellTheTruth'
    <2>1. \A c \in DOMAIN rows' : rows'[c].state = "ACTIVE" => c \in DOMAIN rows
      BY <1>4, <1>7
    <2>2. ASSUME NEW c \in DOMAIN rows', NEW o \in DOMAIN rows', rows'[c].state = "ACTIVE", rows'[o].state = "ACTIVE"
          PROVE  o = c
      BY <1>7, <2>1, <2>2 DEF AccountInv, TrustInv, RowsTellTheTruth
    <2>3. ASSUME NEW c \in DOMAIN rows', transactions'[c].state # rows'[c].state
          PROVE  /\ transactions'[c].state = "ACTIVE" /\ rows'[c].state = "WALLET_BOUND"
                 /\ \E o \in DOMAIN rows' \ {c} : "ACTIVE" \in audit'[o]
      <3>1. c \in DOMAIN rows
        BY <1>3, <1>4, <1>6, <1>7, <2>3
      <3>2. /\ transactions[c].state = "ACTIVE" /\ rows[c].state = "WALLET_BOUND"
            /\ \E o \in DOMAIN rows \ {c} : "ACTIVE" \in audit[o]
        BY <1>6, <1>7, <2>3, <3>1 DEF AccountInv, TrustInv, RowsTellTheTruth
      <3> QED BY <1>6, <1>7, <1>8, <3>1, <3>2
    <2> QED BY <2>2, <2>3 DEF RowsTellTheTruth
  <1>16. RequestMove
    BY <1>1 DEF RequestMove, walletVars
  <1> QED BY <1>1, <1>10, <1>11, <1>12, <1>13, <1>14, <1>15, <1>16, TrustMoves DEF TrustInv, walletVars

(* A request is received: nothing is written. *)
LEMMA ReceivedStep ==
    ASSUME AccountInv, NEW r \in Requests, NEW x \in Request, Held(x),
           requests' = [requests EXCEPT ![r] = x], unchangedButRequests, UNCHANGED trustVars
    PROVE  AccountInv'
  <1>1. TrustInv' /\ LevelsKept /\ IntentsKept
    BY TrustStill DEF AccountInv, trustVars, bindingVars, unchangedButRequests
  <1>2. Held(x)'
    BY DEF Held, unchangedButRequests, trustVars, Asserted
  <1>3. RequestMove
    BY <1>2 DEF RequestMove
  <1> QED BY <1>1, <1>3, TrustMoves DEF unchangedButRequests

LEMMA ReceiveStep ==
    ASSUME AccountInv, NEW r \in Requests,
           \/ AuthenticationOptions(r)
           \/ \E k \in Credentials : ReceiveAuthentication(r, k)
           \/ \E b \in DOMAIN transactions :
                RegistrationOptions(r, b) \/ ReceiveRegistration(r, b) \/ ReceiveWallet(r, b)
    PROVE  AccountInv'
  <1>1. CASE AuthenticationOptions(r)
    <2> DEFINE x == [kind |-> "authenticationOptions", id |-> 0]
    <2>1. x \in Request /\ x.kind = "authenticationOptions"
      BY DEF Request
    <2>2. requests' = [requests EXCEPT ![r] = x] /\ unchangedButRequests /\ UNCHANGED trustVars
      BY <1>1 DEF AuthenticationOptions, Begin
    <2> HIDE DEF x
    <2> QED BY <2>1, <2>2, ReceivedStep DEF Held
  <1>2. ASSUME NEW k \in Credentials, ReceiveAuthentication(r, k) PROVE AccountInv'
    <2> DEFINE x == [kind |-> "authentication", credential |-> k, counter |-> counters[k]]
    <2>1. x \in Request /\ x.kind = "authentication"
      BY DEF Request, AccountInv, TrustInv, TrustTypes
    <2>2. requests' = [requests EXCEPT ![r] = x] /\ unchangedButRequests /\ UNCHANGED trustVars
      BY <1>2 DEF ReceiveAuthentication
    <2> HIDE DEF x
    <2> QED BY <2>1, <2>2, ReceivedStep DEF Held
  <1>3. ASSUME NEW b \in DOMAIN transactions, NEW kind \in {"registrationOptions", "registration"},
               RegistrationOptions(r, b) \/ ReceiveRegistration(r, b), Begin(r, kind, b)
        PROVE  AccountInv'
    <2> DEFINE x == [kind |-> kind, id |-> b]
    <2>1. b \in DOMAIN rows /\ b \in Nat
      BY DEF AccountInv, TrustInv, TrustTypes
    <2>2. Asserted(b)
      BY <1>3, <2>1 DEF RegistrationOptions, ReceiveRegistration, InState, AccountInv, TrustInv, Levels
    <2>3. x \in Request /\ x.kind = kind /\ x.id = b
      BY <2>1 DEF Request
    <2>4. requests' = [requests EXCEPT ![r] = x] /\ unchangedButRequests /\ UNCHANGED trustVars
      BY <1>3 DEF RegistrationOptions, ReceiveRegistration, Begin
    <2> HIDE DEF x
    <2> QED BY <2>1, <2>2, <2>3, <2>4, ReceivedStep DEF Held
  <1>4. ASSUME NEW b \in DOMAIN transactions, ReceiveWallet(r, b) PROVE AccountInv'
    <2> DEFINE i == transactions[b].walletIntent
               x == [kind |-> "wallet", id |-> i]
    <2>1. i \in DOMAIN bindingIntents /\ i \in Nat
      <3>1. b \in DOMAIN rows /\ i # 0 /\ DOMAIN bindingIntents = 1..Len(bindingIntents)
            /\ Len(bindingIntents) \in Nat
        BY <1>4 DEF AccountInv, TrustInv, TrustTypes, ReceiveWallet
      <3>2. i \in 0..Len(bindingIntents)
        BY <3>1 DEF AccountInv, TrustInv, Levels
      <3> QED BY <3>1, <3>2
    <2>2. x \in Request /\ x.kind = "wallet" /\ x.id = i
      BY <2>1 DEF Request
    <2>3. requests' = [requests EXCEPT ![r] = x] /\ unchangedButRequests /\ UNCHANGED trustVars
      BY <1>4 DEF ReceiveWallet, Begin
    <2> HIDE DEF x
    <2> QED BY <2>1, <2>2, <2>3, ReceivedStep DEF Held
  <1>5. \A b : /\ RegistrationOptions(r, b) => Begin(r, "registrationOptions", b)
               /\ ReceiveRegistration(r, b) => Begin(r, "registration", b)
    BY DEF RegistrationOptions, ReceiveRegistration
  <1> QED BY <1>1, <1>2, <1>3, <1>4, <1>5

(* A request resumes and writes, or a binding's page asks for the next step. *)
LEMMA WriteStep ==
    ASSUME AccountInv, NEW b \in DOMAIN rows, NEW t \in Transaction, NEW v \in Row, NEW e \in SUBSET States,
           GoesOn(b, t, v, e), Faithful(b, t, v, e), IntentsKept, Saved \subseteq Saved',
           counters' \in [Credentials -> Int], RequestMove,
           UNCHANGED <<now, demoUser, challenges, supportIntents, supportIdempotency, tiers>>,
           \/ walletAddress' = walletAddress
           \/ walletAddress' \in Wallets /\ Proved(walletAddress)'
    PROVE  AccountInv'
  <1>1. TrustInv' /\ LevelsKept
    BY BindingStep DEF AccountInv
  <1> QED BY <1>1, TrustMoves

LEMMA JpkiStep ==
    ASSUME AccountInv, NEW b \in DOMAIN transactions, AssertMockJpki(b)
    PROVE  AccountInv'
  <1>1. b \in DOMAIN rows /\ b \in DOMAIN audit /\ counters \in [Credentials -> Int] /\ transactions \in Seq(Transaction)
    BY DEF AccountInv, TrustInv, TrustTypes
  <1>2. PICK x \in Transaction : x = transactions[b]
    BY <1>1
  <1>3. PICK y \in Row : y = rows[b]
    BY <1>1 DEF AccountInv, TrustInv, TrustTypes
  <1>4. PICK t \in Transaction :
          /\ t = [x EXCEPT !.jpkiChallenge = FALSE, !.state = "JPKI_ASSERTED"]
          /\ t.state = "JPKI_ASSERTED" /\ ~t.jpkiChallenge /\ t.walletIntent = x.walletIntent
    <2>1. LET t == [x EXCEPT !.jpkiChallenge = FALSE, !.state = "JPKI_ASSERTED"] IN
            /\ t \in Transaction /\ t.state = "JPKI_ASSERTED" /\ ~t.jpkiChallenge /\ t.walletIntent = x.walletIntent
      BY DEF Transaction, States
    <2> QED BY <2>1
  <1>5. PICK v \in Row : v = [y EXCEPT !.state = "JPKI_ASSERTED"] /\ v.state = "JPKI_ASSERTED" /\ v.passkey = y.passkey
    <2>1. LET v == [y EXCEPT !.state = "JPKI_ASSERTED"] IN
            v \in Row /\ v.state = "JPKI_ASSERTED" /\ v.passkey = y.passkey
      BY DEF Row, States
    <2> QED BY <2>1
  <1>6. /\ transactions[b].state = "CREATED" /\ GoesOn(b, t, v, {"JPKI_ASSERTED"})
        /\ UNCHANGED <<walletVars, bindingIntents, counters>>
    BY <1>1, <1>2, <1>3, <1>4, <1>5 DEF AssertMockJpki, InState, Updated, Audited, GoesOn
  <1>7. Faithful(b, t, v, {"JPKI_ASSERTED"})
    <2>1. t.walletIntent \in 0..Len(bindingIntents')
      BY <1>1, <1>2, <1>4, <1>6 DEF AccountInv, TrustInv, Levels
    <2>2. Saved' = Saved /\ ~Asserted(b) /\ ~Registered(b)
      BY <1>6 DEF Saved, Asserted, Registered
    <2> QED BY <1>4, <1>5, <2>1, <2>2 DEF Faithful
  <1>8. IntentsKept /\ Saved \subseteq Saved' /\ RequestMove /\ {"JPKI_ASSERTED"} \in SUBSET States
    BY <1>6 DEF IntentsKept, AccountInv, TrustInv, TrustTypes, Saved, RequestMove, walletVars, States
  <1> QED BY <1>1, <1>6, <1>7, <1>8, WriteStep DEF walletVars

(* The fields of a transaction that are not its state nor its JPKI challenge. *)
LEMMA NotedStep ==
    ASSUME AccountInv, NEW b \in DOMAIN rows, NEW t \in Transaction,
           transactions' = [transactions EXCEPT ![b] = t], t.state = transactions[b].state,
           t.jpkiChallenge = transactions[b].jpkiChallenge, t.walletIntent \in 0..Len(bindingIntents'),
           UNCHANGED <<rows, audit, counters, now, demoUser, walletAddress, challenges, supportIntents,
                       supportIdempotency, tiers>>,
           IntentsKept, RequestMove
    PROVE  AccountInv'
  <1>1. /\ b \in DOMAIN audit /\ rows \in Seq(Row) /\ audit \in Seq(SUBSET States)
        /\ counters \in [Credentials -> Int]
    BY DEF AccountInv, TrustInv, TrustTypes
  <1>2. PICK v \in Row : v = rows[b]
    BY <1>1
  <1>3. GoesOn(b, t, v, {})
    BY <1>1, <1>2 DEF GoesOn
  <1>4. Saved' = Saved /\ {} \in SUBSET States
    BY DEF Saved
  <1>5. Faithful(b, t, v, {})
    <2>1. /\ t.state # "CREATED" => Asserted(b)
          /\ t.state \in {"PASSKEY_REGISTERED", "ACTIVE"} => Registered(b)
      BY DEF AccountInv, TrustInv, Levels
    <2>2. rows[b].state = "ACTIVE" =>
            /\ audit[b] = States /\ ~transactions[b].jpkiChallenge /\ rows[b].passkey \in Saved
            /\ \E i \in DOMAIN bindingIntents :
                 bindingIntents[i].used /\ bindingIntents[i].binding = b /\ bindingIntents[i].wallet = v.wallet
      BY <1>2 DEF AccountInv, TrustInv, AssuranceIsEarned
    <2>3. transactions[b].state # rows[b].state =>
           /\ transactions[b].state = "ACTIVE" /\ rows[b].state = "WALLET_BOUND"
           /\ \E o \in DOMAIN rows \ {b} : "ACTIVE" \in audit[o]
      BY DEF AccountInv, TrustInv, RowsTellTheTruth
    <2> QED BY <1>2, <1>4, <2>1, <2>2, <2>3 DEF Faithful, Asserted, Registered, IntentsKept
  <1> QED BY <1>1, <1>3, <1>4, <1>5, WriteStep

LEMMA OptionsStep ==
    ASSUME AccountInv, NEW r \in Requests, RegistrationOptionsMade(r) \/ AuthenticationOptionsMade(r)
    PROVE  AccountInv'
  <1>1. /\ requests' = [requests EXCEPT ![r] = Idle]
        /\ unchangedButRequests /\ UNCHANGED <<rows, audit, bindingIntents, counters>>
    BY DEF RegistrationOptionsMade, AuthenticationOptionsMade, Answer
  <1>2. RequestMove
    BY <1>1 DEF RequestMove
  <1>3. CASE RegistrationOptionsMade(r)
    <2> DEFINE b == requests[r].id
    <2>1. b \in DOMAIN rows /\ b \in DOMAIN transactions /\ transactions \in Seq(Transaction)
      BY <1>3 DEF RegistrationOptionsMade, Awaiting, AccountInv, RequestInv, Held, TrustInv, TrustTypes
    <2>2. PICK x \in Transaction : x = transactions[b]
      BY <2>1
    <2>3. PICK t \in Transaction : /\ t = [x EXCEPT !.registrationChallenge = TRUE] /\ t.state = x.state
                                   /\ t.jpkiChallenge = x.jpkiChallenge /\ t.walletIntent = x.walletIntent
      <3>1. LET t == [x EXCEPT !.registrationChallenge = TRUE] IN
              /\ t \in Transaction /\ t.state = x.state
              /\ t.jpkiChallenge = x.jpkiChallenge /\ t.walletIntent = x.walletIntent
        BY DEF Transaction
      <3> QED BY <3>1
    <2>4. transactions' = [transactions EXCEPT ![b] = t]
      BY <1>3, <2>1, <2>2, <2>3 DEF RegistrationOptionsMade
    <2>5. IntentsKept /\ t.walletIntent \in 0..Len(bindingIntents')
      BY <1>1, <2>1, <2>2, <2>3 DEF IntentsKept, AccountInv, TrustInv, TrustTypes, Levels
    <2> QED BY <1>1, <1>2, <2>1, <2>2, <2>3, <2>4, <2>5, NotedStep DEF unchangedButRequests
  <1>4. CASE AuthenticationOptionsMade(r)
    <2>1. UNCHANGED bindingVars
      BY <1>1, <1>4 DEF AuthenticationOptionsMade, bindingVars
    <2>2. TrustInv' /\ LevelsKept /\ IntentsKept
      BY <1>1, <2>1, TrustStill DEF AccountInv, unchangedButRequests
    <2> QED BY <1>1, <1>2, <2>2, TrustMoves DEF unchangedButRequests
  <1> QED BY <1>3, <1>4

LEMMA AuthenticatedStep ==
    ASSUME AccountInv, NEW r \in Requests, NEW n \in 0..MaxCounter, AuthenticationVerified(r, n)
    PROVE  AccountInv'
  <1>1. /\ requests' = [requests EXCEPT ![r] = Idle] /\ unchangedButRequests /\ UNCHANGED bindingVars
        /\ counters' = [counters EXCEPT ![requests[r].credential] = n]
    BY DEF AuthenticationVerified, Answer, bindingVars
  <1>2. counters \in [Credentials -> Int] /\ n \in Int /\ n >= 0
    BY TrustAssumption DEF AccountInv, TrustInv, TrustTypes
  <1>3. counters' \in [Credentials -> Int] /\ Saved \subseteq Saved'
    BY <1>1, <1>2 DEF Saved
  <1>4. TrustInv' /\ LevelsKept /\ IntentsKept
    BY <1>1, <1>3, TrustStill DEF AccountInv, unchangedButRequests
  <1> QED BY <1>1, <1>4, TrustMoves DEF unchangedButRequests, RequestMove

(* A registration may be verified when its binding has long gone on. *)
LEMMA RegisteredStep ==
    ASSUME AccountInv, NEW r \in Requests, NEW k \in Credentials, RegistrationVerified(r, k)
    PROVE  AccountInv'
  <1> DEFINE b == requests[r].id
             e == {"PASSKEY_REGISTERED"}
  <1>1. b \in DOMAIN rows /\ Asserted(b)
    BY DEF RegistrationVerified, Awaiting, AccountInv, RequestInv, Held
  <1>2. /\ b \in DOMAIN transactions /\ b \in DOMAIN audit /\ counters \in [Credentials -> Int]
        /\ transactions \in Seq(Transaction) /\ rows \in Seq(Row)
    BY <1>1 DEF AccountInv, TrustInv, TrustTypes
  <1>3. PICK x \in Transaction : x = transactions[b]
    BY <1>2
  <1>4. PICK y \in Row : y = rows[b]
    BY <1>1, <1>2
  <1>5. PICK t \in Transaction :
          /\ t = [x EXCEPT !.registrationChallenge = FALSE, !.state = "PASSKEY_REGISTERED"]
          /\ t.state = "PASSKEY_REGISTERED" /\ t.jpkiChallenge = x.jpkiChallenge /\ t.walletIntent = x.walletIntent
    <2>1. LET t == [x EXCEPT !.registrationChallenge = FALSE, !.state = "PASSKEY_REGISTERED"] IN
            /\ t \in Transaction /\ t.state = "PASSKEY_REGISTERED"
            /\ t.jpkiChallenge = x.jpkiChallenge /\ t.walletIntent = x.walletIntent
      BY DEF Transaction, States
    <2> QED BY <2>1
  <1>6. PICK v \in Row : /\ v = [y EXCEPT !.state = "PASSKEY_REGISTERED", !.passkey = k]
                         /\ v.state = "PASSKEY_REGISTERED" /\ v.passkey = k
    <2>1. LET v == [y EXCEPT !.state = "PASSKEY_REGISTERED", !.passkey = k] IN
            v \in Row /\ v.state = "PASSKEY_REGISTERED" /\ v.passkey = k
      BY DEF Row, States
    <2> QED BY <2>1
  <1>7. /\ GoesOn(b, t, v, e) /\ counters' = [counters EXCEPT ![k] = 0]
        /\ requests' = [requests EXCEPT ![r] = Idle] /\ unchangedButRequests /\ UNCHANGED bindingIntents
    <2>1. /\ transactions' = [transactions EXCEPT ![b] = t]
          /\ rows' = [rows EXCEPT ![b] = v] /\ audit' = [audit EXCEPT ![b] = @ \cup e]
      BY <1>1, <1>2, <1>3, <1>4, <1>5, <1>6 DEF RegistrationVerified, Updated, Audited
    <2> QED BY <2>1 DEF GoesOn, RegistrationVerified, Answer
  <1>8. Saved \subseteq Saved' /\ k \in Saved' /\ counters' \in [Credentials -> Int]
    BY <1>2, <1>7 DEF Saved
  <1>9. Faithful(b, t, v, e)
    <2>1. t.walletIntent \in 0..Len(bindingIntents')
      BY <1>1, <1>3, <1>5, <1>7 DEF AccountInv, TrustInv, Levels
    <2> QED BY <1>1, <1>3, <1>5, <1>6, <1>8, <2>1 DEF Faithful, Asserted
  <1>10. IntentsKept /\ RequestMove /\ e \in SUBSET States
    BY <1>7 DEF IntentsKept, AccountInv, TrustInv, TrustTypes, RequestMove, States
  <1> QED BY <1>1, <1>7, <1>8, <1>9, <1>10, WriteStep DEF unchangedButRequests

LEMMA WalletOptionsStep ==
    ASSUME AccountInv, NEW b \in DOMAIN transactions, NEW w \in Wallets, WalletOptions(b, w)
    PROVE  AccountInv'
  <1> DEFINE i == [binding |-> b, wallet |-> w, deadline |-> now + SignTTL, used |-> FALSE]
             n == Len(bindingIntents) + 1
  <1>1. /\ transactions \in Seq(Transaction) /\ bindingIntents \in Seq(BindingIntent)
        /\ b \in DOMAIN rows /\ b \in Nat /\ n \in Nat
    BY DEF AccountInv, TrustInv, TrustTypes
  <1>2. i \in BindingIntent /\ i.binding = b
    BY <1>1, WalletAssumption DEF AccountInv, SessionInv, WalletTypes, BindingIntent
  <1> HIDE DEF i
  <1>3. /\ bindingIntents' = Append(bindingIntents, i) /\ transactions[b].state = "PASSKEY_REGISTERED"
        /\ UNCHANGED <<walletVars, rows, audit, counters>>
    BY DEF WalletOptions, InState, i
  <1>4. /\ bindingIntents' \in Seq(BindingIntent) /\ Len(bindingIntents') = n /\ bindingIntents'[n] = i
        /\ DOMAIN bindingIntents' = DOMAIN bindingIntents \cup {n}
        /\ \A j \in DOMAIN bindingIntents : bindingIntents'[j] = bindingIntents[j]
    BY <1>1, <1>2, <1>3, Appended
  <1>5. Registered(b)
    BY <1>1, <1>3 DEF AccountInv, TrustInv, Levels
  <1>6. IntentsKept
    BY <1>1, <1>2, <1>4, <1>5 DEF IntentsKept
  <1>7. PICK x \in Transaction : x = transactions[b]
    BY <1>1
  <1>8. PICK t \in Transaction : /\ t = [x EXCEPT !.walletIntent = n] /\ t.walletIntent = n
                                 /\ t.state = x.state /\ t.jpkiChallenge = x.jpkiChallenge
    <2>1. LET t == [x EXCEPT !.walletIntent = n] IN
            t \in Transaction /\ t.walletIntent = n /\ t.state = x.state /\ t.jpkiChallenge = x.jpkiChallenge
      BY <1>1 DEF Transaction
    <2> QED BY <2>1
  <1>9. transactions' = [transactions EXCEPT ![b] = t] /\ t.walletIntent \in 0..Len(bindingIntents')
    BY <1>1, <1>4, <1>7, <1>8 DEF WalletOptions
  <1>10. RequestMove
    BY <1>3 DEF RequestMove, walletVars
  <1> QED BY <1>1, <1>3, <1>6, <1>7, <1>8, <1>9, <1>10, NotedStep DEF walletVars

(* The signature over an intent is accepted: the binding's level is what    *)
(* counts, its state may be any.                                            *)
LEMMA BoundStep ==
    ASSUME AccountInv, NEW r \in Requests, WalletVerified(r)
    PROVE  AccountInv'
  <1> DEFINE i == requests[r].id
             b == bindingIntents[i].binding
             w == bindingIntents[i].wallet
  <1>1. PICK reached \in {"ACTIVE", "WALLET_BOUND"} :
          reached = IF IndexAllows(b, "ACTIVE") THEN "ACTIVE" ELSE "WALLET_BOUND"
    OBVIOUS
  <1> DEFINE e == {"WALLET_BOUND", reached}
  <1>2. /\ i \in DOMAIN bindingIntents /\ bindingIntents \in Seq(BindingIntent)
        /\ b \in DOMAIN rows /\ Registered(b)
    BY DEF WalletVerified, Awaiting, AccountInv, RequestInv, Held, TrustInv, TrustTypes, Levels
  <1>3. /\ b \in DOMAIN transactions /\ b \in DOMAIN audit /\ counters \in [Credentials -> Int]
        /\ transactions \in Seq(Transaction) /\ rows \in Seq(Row) /\ audit[b] \in SUBSET States
    <2>1. TrustTypes /\ b \in DOMAIN rows
      BY <1>2 DEF AccountInv, TrustInv
    <2> HIDE DEF b
    <2>2. b \in DOMAIN transactions /\ b \in DOMAIN audit
      BY <2>1 DEF TrustTypes
    <2>3. audit[b] \in SUBSET States
      BY <2>1, <2>2 DEF TrustTypes
    <2> QED BY <2>1, <2>2, <2>3 DEF TrustTypes
  <1>4. PICK p \in BindingIntent : p = bindingIntents[i]
    BY <1>2
  <1>5. PICK q \in BindingIntent :
          q = [p EXCEPT !.used = TRUE] /\ q.used /\ q.binding = b /\ q.wallet = w /\ w \in Wallets
    <2>1. LET q == [p EXCEPT !.used = TRUE] IN
            q \in BindingIntent /\ q.used /\ q.binding = p.binding /\ q.wallet = p.wallet /\ p.wallet \in Wallets
      BY DEF BindingIntent
    <2> QED BY <1>4, <2>1
  <1>6. PICK x \in Transaction : x = transactions[b]
    BY <1>3
  <1>7. PICK y \in Row : y = rows[b]
    BY <1>2, <1>3
  <1>8. PICK t \in Transaction : /\ t = [x EXCEPT !.state = "ACTIVE"] /\ t.state = "ACTIVE"
                                 /\ t.jpkiChallenge = x.jpkiChallenge /\ t.walletIntent = x.walletIntent
    <2>1. LET t == [x EXCEPT !.state = "ACTIVE"] IN
            /\ t \in Transaction /\ t.state = "ACTIVE"
            /\ t.jpkiChallenge = x.jpkiChallenge /\ t.walletIntent = x.walletIntent
      BY DEF Transaction, States
    <2> QED BY <2>1
  <1>9. PICK v \in Row : /\ v = [y EXCEPT !.state = reached, !.wallet = w]
                         /\ v.state = reached /\ v.wallet = w /\ v.passkey = y.passkey
    <2>1. LET v == [y EXCEPT !.state = reached, !.wallet = w] IN
            v \in Row /\ v.state = reached /\ v.wallet = w /\ v.passkey = y.passkey
      BY <1>5 DEF Row, States
    <2> QED BY <2>1
  <1>10. /\ GoesOn(b, t, v, e) /\ bindingIntents' = [bindingIntents EXCEPT ![i] = q]
         /\ walletAddress' = w /\ requests' = [requests EXCEPT ![r] = Idle]
         /\ UNCHANGED <<now, demoUser, challenges, supportIntents, supportIdempotency, tiers, counters>>
    <2>1. transactions' = [transactions EXCEPT ![b] = t]
      BY <1>3, <1>6, <1>8 DEF WalletVerified
    <2>2. rows' = [rows EXCEPT ![b] = v] /\ audit' = [audit EXCEPT ![b] = @ \cup e]
      BY <1>1, <1>2, <1>3, <1>7, <1>9 DEF WalletVerified, Updated, Audited
    <2>3. bindingIntents' = [bindingIntents EXCEPT ![i] = q]
      BY <1>2, <1>4, <1>5 DEF WalletVerified
    <2> QED BY <2>1, <2>2, <2>3 DEF GoesOn, WalletVerified, Answer
  <1>11. /\ bindingIntents' \in Seq(BindingIntent) /\ DOMAIN bindingIntents' = DOMAIN bindingIntents
         /\ Len(bindingIntents') = Len(bindingIntents) /\ bindingIntents'[i] = q
         /\ \A j \in DOMAIN bindingIntents : j # i => bindingIntents'[j] = bindingIntents[j]
    BY <1>2, <1>5, <1>10, Replaced
  <1>12. IntentsKept
    BY <1>4, <1>5, <1>11 DEF IntentsKept
  <1>13. walletAddress' \in Wallets /\ Proved(walletAddress)'
    BY <1>2, <1>5, <1>10, <1>11 DEF Proved
  <1>14. Saved' = Saved /\ e \in SUBSET States /\ RequestMove
    BY <1>10 DEF Saved, States, RequestMove
  <1>15. Faithful(b, t, v, e)
    <2>1. t.walletIntent \in 0..Len(bindingIntents')
      BY <1>2, <1>6, <1>8, <1>11 DEF AccountInv, TrustInv, Levels
    <2>2. /\ {"CREATED", "JPKI_ASSERTED", "PASSKEY_REGISTERED"} \subseteq audit[b] /\ ~t.jpkiChallenge
          /\ v.passkey \in Saved'
      <3>1. Registered(b) /\ "CREATED" \in audit[b]
        BY <1>2 DEF AccountInv, TrustInv, Levels
      <3> HIDE DEF b
      <3> QED BY <1>6, <1>7, <1>8, <1>9, <1>14, <3>1 DEF Registered, Asserted
    <2>3. CASE IndexAllows(b, "ACTIVE")
      <3>1. reached = "ACTIVE" /\ audit[b] \cup e = States
        BY <1>1, <1>3, <2>2, <2>3 DEF States
      <3>2. \E j \in DOMAIN bindingIntents' :
              bindingIntents'[j].used /\ bindingIntents'[j].binding = b /\ bindingIntents'[j].wallet = v.wallet
        BY <1>2, <1>5, <1>9, <1>11
      <3> QED BY <1>8, <1>9, <2>1, <2>2, <2>3, <3>1, <3>2 DEF Faithful
    <2>4. CASE ~IndexAllows(b, "ACTIVE")
      <3>1. PICK o \in DOMAIN rows : rows[o].state = "ACTIVE" /\ o # b
        BY <2>4 DEF IndexAllows
      <3>2. "ACTIVE" \in audit[o]
        BY <3>1 DEF AccountInv, TrustInv, AssuranceIsEarned, States
      <3>3. reached = "WALLET_BOUND"
        BY <1>1, <2>4
      <3> QED BY <1>8, <1>9, <2>1, <2>2, <3>1, <3>2, <3>3 DEF Faithful
    <2> QED BY <2>3, <2>4
  <1> QED BY <1>2, <1>3, <1>10, <1>12, <1>13, <1>14, <1>15, WriteStep

LEMMA StepInv == AccountInv /\ [Next]_vars => AccountInv'
  <1> SUFFICES ASSUME AccountInv, [Next]_vars PROVE AccountInv'
    OBVIOUS
  <1>1. CASE UNCHANGED vars
    <2>1. UNCHANGED <<walletVars, trustVars>>
      BY <1>1 DEF vars
    <2>2. TrustInv' /\ LevelsKept /\ IntentsKept
      BY <2>1, TrustStill DEF AccountInv, walletVars, trustVars, bindingVars
    <2> QED BY <2>1, <2>2, TrustMoves DEF walletVars, RequestMove
  <1>2. CASE WalletNext /\ UNCHANGED trustVars
    BY <1>2, WalletStep
  <1>3. CASE TrustNext
    <2>1. ASSUME NEW b \in DOMAIN transactions, AssertMockJpki(b) \/ \E w \in Wallets : WalletOptions(b, w)
          PROVE  AccountInv'
      BY <2>1, JpkiStep, WalletOptionsStep
    <2>2. ASSUME NEW r \in Requests,
                 \/ RegistrationOptionsMade(r) \/ AuthenticationOptionsMade(r) \/ WalletVerified(r)
                 \/ \E k \in Credentials : RegistrationVerified(r, k)
                 \/ \E n \in 0..MaxCounter : AuthenticationVerified(r, n)
          PROVE  AccountInv'
      BY <2>2, OptionsStep, BoundStep, RegisteredStep, AuthenticatedStep
    <2>3. ASSUME NEW r \in Requests,
                 \/ AuthenticationOptions(r) \/ \E k \in Credentials : ReceiveAuthentication(r, k)
                 \/ \E b \in DOMAIN transactions :
                      RegistrationOptions(r, b) \/ ReceiveRegistration(r, b) \/ ReceiveWallet(r, b)
          PROVE  AccountInv'
      BY <2>3, ReceiveStep
    <2> QED BY <1>3, <2>1, <2>2, <2>3, BeginStep DEF TrustNext
  <1> QED BY <1>1, <1>2, <1>3 DEF Next

(* The inductive invariant: the levels a binding reached, what requests in  *)
(* flight hold, and the proofs behind the account's wallet and supports.    *)
THEOREM AccountHolds == Spec => []AccountInv
  <1>1. Init => AccountInv
    BY InitInv
  <1>2. AccountInv /\ [Next]_vars => AccountInv'
    BY StepInv
  <1> QED BY <1>1, <1>2, PTL DEF Spec

(* A binding is ACTIVE only for a registered test user, with every level    *)
(* audited, its passkey saved and its wallet proved over an intent of this  *)
(* binding, although the handlers of AccountTrustService do not look at the *)
(* transaction's state again when their awaited answers come.               *)
THEOREM AssuranceHolds == Spec => []AssuranceIsEarned
  <1>1. AccountInv => AssuranceIsEarned
    BY DEF AccountInv, TrustInv
  <1> QED BY <1>1, AccountHolds, PTL

(* An account has one ACTIVE row, and memory differs from a row only where  *)
(* the unique index refused the row's last update.                          *)
THEOREM RowsTrue == Spec => []RowsTellTheTruth
  <1>1. AccountInv => RowsTellTheTruth
    BY DEF AccountInv, TrustInv
  <1> QED BY <1>1, AccountHolds, PTL

(* The wallet of an account, and every capability its supports give, rest   *)
(* on a signature that was accepted, whichever submissions, retries and     *)
(* polls of submitSupport and supportRegistration overlap.                  *)
THEOREM CapabilityEarned == Spec => []CapabilityFollowsSupport
  <1>1. AccountInv => CapabilityFollowsSupport
    BY DEF AccountInv, SessionInv
  <1> QED BY <1>1, AccountHolds, PTL

-----------------------------------------------------------------------------
(* The player's buttons, for any number of requests in flight.               *)

(* The player's requests in flight, and those of one support intent. *)
PlayerRequest == {Idle} \cup [kind : {"siwe", "support"}, id : Nat]
InFlight(i) == {q \in Requests : requests[q].kind = "support" /\ requests[q].id = i}

(* A call of signSupportIntent; the gateway has answered the begun ones. *)
Loop == [pc : {"polling"}, id : Nat, left : Nat \ {0}, next : Nat]
Submission ==
    {NotCalled} \cup [pc : {"signing", "received", "ended"}, id : Nat]
    \cup [pc : {"sent"}, id : Nat, signed : BOOLEAN]
    \cup [pc : {"answered"}, id : Nat, status : {"CONFIRMING", "SBT_ACTIVE"}]
    \cup Loop
Begun == {"answered", "polling", "ended"}

Capable(i) == supportIntents[i].artist \in tiers
Later(t) == IF t > now THEN t ELSE now

(* A loop has polls left for every confirmation that a submission under way  *)
(* may start again, and for the one that is due.                             *)
Outlasts(l) ==
    LET spare == l.left - 1 - ConfirmDelay * Cardinality(InFlight(l.id)) IN
    /\ spare >= 0
    /\ spare >= supportIntents[l.id].activateAt - Later(l.next)
CallFits(l) ==
    /\ l.pc \in Begun => l.id \in DOMAIN supportIntents /\ supportIntents[l.id].status # "SIGNATURE_REQUIRED"
    /\ (l.pc = "answered" /\ l.status = "SBT_ACTIVE") => Capable(l.id)
    /\ (l.pc = "polling" /\ PollsOutlast) => Capable(l.id) \/ Outlasts(l)
    /\ (l.pc = "ended" /\ PollsOutlast) => Capable(l.id)

PlayerTypes ==
    /\ now \in Nat /\ walletAddress \in Wallets \cup {NoWallet} /\ wallet \in Wallets \cup {NoWallet}
    /\ challenges \in Seq(Challenge) /\ supportIntents \in Seq(SupportIntent)
    /\ requests \in [Requests -> PlayerRequest] /\ submissions \in [Requests -> Submission]
    /\ \A r \in Requests :
        /\ requests[r].kind = "siwe" => requests[r].id \in DOMAIN challenges
        /\ requests[r].kind = "support" => requests[r].id \in DOMAIN supportIntents
        /\ submissions[r].pc \in {"signing", "sent"} => submissions[r].id \in DOMAIN supportIntents
        /\ submissions[r].pc \notin {"idle", "received"} => requests[r] = Idle
    /\ intent \in {0} \cup DOMAIN supportIntents

ActiveGave == \A i \in DOMAIN supportIntents : supportIntents[i].status = "SBT_ACTIVE" => Capable(i)
DueSoon == \A i \in DOMAIN supportIntents : supportIntents[i].activateAt <= now + ConfirmDelay

ShownReached ==
    /\ testUser => demoUser # NoKey
    /\ authenticated => walletAddress # NoWallet
    /\ tier # "NONE" => \E i \in DOMAIN supportIntents : supportIntents[i].status # "SIGNATURE_REQUIRED"
    /\ status = "SBT_ACTIVE" => tiers # {}

PlayerInv ==
    /\ PlayerTypes /\ ActiveGave /\ DueSoon /\ ShownReached
    /\ \A r \in Requests : CallFits(submissions[r])

LEMMA TimesMono ==
    ASSUME NEW d \in Nat, NEW a \in Nat, NEW b \in Nat
    PROVE  /\ d * a \in Nat /\ (a <= b => d * a <= d * b) /\ (a + 1 <= b => d * a + d <= d * b)
  <1>1. d * a \in Nat /\ d * b \in Nat
    OBVIOUS
  <1>2. ASSUME a <= b PROVE d * a <= d * b
    <2>1. PICK c \in Nat : b = a + c
      BY <1>2
    <2>2. d * b = d * a + d * c /\ d * c \in Nat
      BY <2>1
    <2> QED BY <1>1, <2>2
  <1>3. ASSUME a + 1 <= b PROVE d * a + d <= d * b
    <2>1. PICK c \in Nat : b = a + 1 + c
      BY <1>3
    <2>2. d * b = d * a + d + d * c /\ d * c \in Nat
      BY <2>1
    <2> QED BY <1>1, <2>2
  <1> QED BY <1>1, <1>2, <1>3

(* The confirmations still to come, when submissions are answered. *)
LEMMA Dues ==
    ASSUME IsFiniteSet(Requests), NEW S \in SUBSET Requests, NEW T \in SUBSET S
    PROVE  /\ Cardinality(S) \in Nat /\ Cardinality(T) \in Nat
           /\ ConfirmDelay * Cardinality(T) \in Nat
           /\ ConfirmDelay * Cardinality(T) <= ConfirmDelay * Cardinality(S)
           /\ \A r \in S : r \notin T =>
                ConfirmDelay * Cardinality(T) + ConfirmDelay <= ConfirmDelay * Cardinality(S)
  <1>1. IsFiniteSet(S) /\ IsFiniteSet(T) /\ Cardinality(S) \in Nat /\ Cardinality(T) \in Nat
    BY FS_Subset, FS_CardinalityType
  <1>2. Cardinality(T) <= Cardinality(S)
    BY <1>1, FS_Subset
  <1>3. ASSUME NEW r \in S, r \notin T PROVE Cardinality(T) + 1 <= Cardinality(S)
    <2>1. IsFiniteSet(S \ {r}) /\ Cardinality(S \ {r}) = Cardinality(S) - 1
      BY <1>1, FS_RemoveElement
    <2>2. T \subseteq S \ {r}
      BY <1>3
    <2>3. Cardinality(T) <= Cardinality(S \ {r})
      BY <2>1, <2>2, FS_Subset
    <2> QED BY <1>1, <2>1, <2>3
  <1>4. ConfirmDelay \in Nat
    BY WalletAssumption
  <1> HIDE DEF InFlight
  <1> QED BY <1>1, <1>2, <1>3, <1>4, TimesMono

(* A call that no submission disturbs, as time passes. *)
LEMMA CallStays ==
    ASSUME PlayerTypes, PlayerTypes', now <= now', NEW l \in Submission, CallFits(l),
           l.pc \in Begun => l.id \in DOMAIN supportIntents'
               /\ supportIntents'[l.id].artist = supportIntents[l.id].artist
               /\ supportIntents'[l.id].status # "SIGNATURE_REQUIRED"
               /\ supportIntents'[l.id].activateAt = supportIntents[l.id].activateAt,
           tiers \subseteq tiers',
           \A q \in Requests : requests'[q].kind = "support" =>
               requests'[q] = requests[q] \/ (l.pc \in Begun => requests'[q].id # l.id)
    PROVE  CallFits(l)'
  <1>1. CASE l.pc \notin Begun
    BY <1>1 DEF CallFits, Begun
  <1>2. CASE l.pc \in Begun /\ Capable(l.id)
    BY <1>2 DEF CallFits, Capable
  <1>3. CASE l.pc \in {"answered", "ended"} /\ ~Capable(l.id)
    <2>1. l.pc \in Begun
      BY <1>3 DEF Begun
    <2> QED BY <1>3, <2>1 DEF CallFits, Capable, PollsOutlast
  <1>4. CASE l.pc = "polling" /\ ~Capable(l.id) /\ ~PollsOutlast
    <2>1. l.pc \in Begun
      BY <1>4 DEF Begun
    <2> QED BY <1>4, <2>1 DEF CallFits, Capable, PollsOutlast
  <1>5. CASE l.pc = "polling" /\ ~Capable(l.id) /\ PollsOutlast
    <2>1. l \in Loop /\ l.pc \in Begun /\ Outlasts(l)
      BY <1>5 DEF CallFits, Begun, Submission, NotCalled
    <2> DEFINE i == l.id
               S == InFlight(i)
               T == {q \in Requests : requests'[q].kind = "support" /\ requests'[q].id = i}
    <2>2. T \subseteq S /\ S \subseteq Requests
      BY <2>1 DEF InFlight
    <2> HIDE DEF S, T
    <2>3. /\ ConfirmDelay * Cardinality(S) \in Nat /\ ConfirmDelay * Cardinality(T) \in Nat
          /\ ConfirmDelay * Cardinality(T) <= ConfirmDelay * Cardinality(S)
      BY <1>5, <2>2, Dues DEF PollsOutlast
    <2>4. PICK x \in Nat, y \in Nat :
             x = ConfirmDelay * Cardinality(S) /\ y = ConfirmDelay * Cardinality(T) /\ y <= x
      BY <2>3
    <2>5. /\ l.left - 1 - x >= 0
          /\ l.left - 1 - x >= supportIntents[i].activateAt - Later(l.next)
      BY <2>1, <2>4 DEF Outlasts, S
    <2>6. /\ i \in DOMAIN supportIntents /\ supportIntents[i].activateAt \in Nat /\ now \in Nat
          /\ now' \in Nat /\ l.left \in Nat /\ l.next \in Nat
          /\ supportIntents'[i].activateAt = supportIntents[i].activateAt
      <3>1. i \in DOMAIN supportIntents
        BY <2>1 DEF CallFits
      <3>2. supportIntents[i] \in SupportIntent
        BY <3>1 DEF PlayerTypes
      <3>3. now \in Nat /\ now' \in Nat /\ l.left \in Nat /\ l.next \in Nat
        BY <2>1 DEF PlayerTypes, Loop
      <3> QED BY <2>1, <3>1, <3>2, <3>3 DEF SupportIntent
    <2>7. Later(l.next) <= (IF l.next > now' THEN l.next ELSE now')
      BY <2>6 DEF Later
    <2>8. /\ l.left - 1 - y >= 0
          /\ l.left - 1 - y >= supportIntents'[i].activateAt - (IF l.next > now' THEN l.next ELSE now')
      BY <2>4, <2>5, <2>6, <2>7 DEF Later
    <2>9. Outlasts(l)'
      BY <2>4, <2>8 DEF Outlasts, InFlight, T, Later
    <2> QED BY <1>5, <2>1, <2>9 DEF CallFits
  <1> QED BY <1>1, <1>2, <1>3, <1>4, <1>5 DEF Begun

(* A submission is accepted: the confirmation starts again, with one less to come. *)
LEMMA LoopRestarts ==
    ASSUME PlayerTypes, PlayerTypes', now' = now, NEW r \in Requests,
           requests[r].kind = "support", requests'[r] = Idle,
           \A q \in Requests : q # r => requests'[q] = requests[q],
           NEW l \in Submission, l.pc \in Begun, l.id = requests[r].id, CallFits(l),
           l.id \in DOMAIN supportIntents',
           supportIntents'[l.id].artist = supportIntents[l.id].artist,
           supportIntents'[l.id].status = "CONFIRMING",
           supportIntents'[l.id].activateAt = now + ConfirmDelay, tiers' = tiers
    PROVE  CallFits(l)'
  <1>1. CASE Capable(l.id) \/ ~PollsOutlast \/ l.pc # "polling"
    BY <1>1 DEF CallFits, Capable, PollsOutlast
  <1>2. CASE ~Capable(l.id) /\ PollsOutlast /\ l.pc = "polling"
    <2>1. l \in Loop /\ Outlasts(l)
      BY <1>2 DEF CallFits, Submission, NotCalled
    <2> DEFINE i == l.id
               S == InFlight(i)
               T == {q \in Requests : requests'[q].kind = "support" /\ requests'[q].id = i}
    <2>2. T \subseteq S /\ S \subseteq Requests /\ r \in S /\ r \notin T
      BY DEF InFlight, Idle
    <2> HIDE DEF S, T
    <2>3. /\ ConfirmDelay * Cardinality(S) \in Nat /\ ConfirmDelay * Cardinality(T) \in Nat
          /\ ConfirmDelay * Cardinality(T) + ConfirmDelay <= ConfirmDelay * Cardinality(S)
      BY <1>2, <2>2, Dues DEF PollsOutlast
    <2>4. PICK x \in Nat, y \in Nat : /\ x = ConfirmDelay * Cardinality(S)
                                      /\ y = ConfirmDelay * Cardinality(T)
                                      /\ y + ConfirmDelay <= x
      BY <2>3
    <2>5. l.left - 1 - x >= 0
      BY <2>1, <2>4 DEF Outlasts, S
    <2>6. now \in Nat /\ l.left \in Nat /\ l.next \in Nat /\ ConfirmDelay \in Nat
      BY <2>1, WalletAssumption DEF PlayerTypes, Loop
    <2>7. (IF l.next > now THEN l.next ELSE now) >= now
      BY <2>6
    <2>8. /\ l.left - 1 - y >= 0
          /\ l.left - 1 - y >= now + ConfirmDelay - (IF l.next > now THEN l.next ELSE now)
      BY <2>4, <2>5, <2>6, <2>7
    <2>9. /\ l.left - 1 - y >= 0
          /\ l.left - 1 - y >= supportIntents'[i].activateAt - (IF l.next > now' THEN l.next ELSE now')
      <3>1. supportIntents'[i].activateAt = now + ConfirmDelay /\ now' = now
        OBVIOUS
      <3> HIDE DEF i
      <3> QED BY <2>6, <2>8, <3>1
    <2>10. Outlasts(l)'
      BY <2>4, <2>9 DEF Outlasts, InFlight, T, Later
    <2> QED BY <1>2, <2>10 DEF CallFits
  <1> QED BY <1>1, <1>2

(* The loop that an answer starts. *)
LEMMA LoopStarts ==
    ASSUME PlayerTypes, DueSoon, NEW r \in Requests, requests[r] = Idle,
           NEW l \in Loop, l.left = Attempts, l.next = now,
           l.id \in DOMAIN supportIntents, supportIntents[l.id].status # "SIGNATURE_REQUIRED"
    PROVE  CallFits(l)
  <1>1. l.pc = "polling"
    BY DEF Loop
  <1> SUFFICES ASSUME PollsOutlast PROVE Outlasts(l)
    BY <1>1 DEF CallFits
  <1> DEFINE T == InFlight(l.id)
  <1>2. T \subseteq Requests /\ r \notin T
    BY DEF Idle, InFlight
  <1> HIDE DEF T
  <1>3. /\ ConfirmDelay * Cardinality(T) \in Nat
        /\ ConfirmDelay * Cardinality(T) + ConfirmDelay <= ConfirmDelay * Cardinality(Requests)
    BY <1>2, Dues DEF PollsOutlast
  <1>4. PICK y \in Nat : y = ConfirmDelay * Cardinality(T) /\ y + ConfirmDelay < Attempts
    <2>1. Attempts > ConfirmDelay * Cardinality(Requests) /\ Attempts \in Nat
      BY AttemptsAssumption DEF PollsOutlast
    <2>2. ConfirmDelay * Cardinality(Requests) \in Nat /\ ConfirmDelay \in Nat
      BY Dues, WalletAssumption DEF PollsOutlast
    <2> QED BY <1>3, <2>1, <2>2
  <1>5. PICK t \in Nat : t = supportIntents[l.id].activateAt /\ t <= now + ConfirmDelay
    <2>1. supportIntents[l.id] \in SupportIntent
      BY DEF PlayerTypes
    <2> QED BY <2>1 DEF SupportIntent, DueSoon
  <1>6. now \in Nat /\ ConfirmDelay \in Nat /\ Attempts \in Nat \ {0}
    BY WalletAssumption, AttemptsAssumption DEF PlayerTypes
  <1>7. l.left - 1 - y >= 0 /\ l.left - 1 - y >= t - now
    BY <1>4, <1>5, <1>6
  <1> QED BY <1>4, <1>5, <1>6, <1>7 DEF Outlasts, T, Later

(* A poll that does not activate leaves the loop with enough of them. *)
LEMMA LoopPolls ==
    ASSUME PlayerTypes, NEW l \in Loop, CallFits(l), l.next <= now,
           ~Confirmed(l.id), supportIntents[l.id].status # "SBT_ACTIVE",
           NEW k \in Submission,
           IF l.left = 1 THEN k = [pc |-> "ended", id |-> l.id]
           ELSE k \in Loop /\ k.id = l.id /\ k.left = l.left - 1 /\ k.next = now + PollDelay
    PROVE  CallFits(k)
  <1>1. l.pc = "polling" /\ l.pc \in Begun
    BY DEF Loop, Begun
  <1>2. l.id \in DOMAIN supportIntents /\ supportIntents[l.id].status # "SIGNATURE_REQUIRED"
    BY <1>1 DEF CallFits
  <1>3. k.id = l.id /\ k.pc \in {"polling", "ended"} /\ (k.pc = "polling" => k \in Loop /\ l.left # 1)
    BY DEF Loop
  <1>4. CASE Capable(l.id) \/ ~PollsOutlast
    BY <1>2, <1>3, <1>4 DEF CallFits, Capable, PollsOutlast
  <1>5. CASE ~Capable(l.id) /\ PollsOutlast
    <2>1. Outlasts(l)
      BY <1>1, <1>5 DEF CallFits
    <2>2. supportIntents[l.id] \in SupportIntent
      BY <1>2 DEF PlayerTypes
    <2>3. supportIntents[l.id].activateAt > now
      BY <1>2, <2>2 DEF Confirmed, SupportIntent, PlayerTypes
    <2>4. ConfirmDelay * Cardinality(InFlight(l.id)) \in Nat
      <3>1. InFlight(l.id) \subseteq Requests
        BY DEF InFlight
      <3> QED BY <1>5, <3>1, Dues DEF PollsOutlast
    <2> PICK y \in Nat : y = ConfirmDelay * Cardinality(InFlight(l.id))
      BY <2>4
    <2>5. l.left - 1 - y >= supportIntents[l.id].activateAt - now
      BY <2>1 DEF Outlasts, Later, PlayerTypes, Loop
    <2>6. PICK t \in Nat : t = supportIntents[l.id].activateAt
      BY <2>2 DEF SupportIntent
    <2>7. t > now /\ l.left - 1 - y >= t - now /\ now \in Nat /\ l.left \in Nat
      BY <2>3, <2>5, <2>6 DEF PlayerTypes, Loop
    <2>8. l.left # 1
      BY <2>7
    <2>9. /\ k \in Loop /\ k.left - 1 - y >= 0
          /\ k.left - 1 - y >= supportIntents[l.id].activateAt - k.next
          /\ k.next > now
      <3>1. k \in Loop /\ k.next = now + 1 /\ k.left = l.left - 1
        BY <2>8 DEF PollDelay
      <3> QED BY <2>6, <2>7, <3>1
    <2>10. Outlasts(k)
      BY <1>3, <2>9 DEF Outlasts, Later
    <2> QED BY <1>2, <1>3, <2>9, <2>10 DEF CallFits, Loop
  <1> QED BY <1>4, <1>5

(* A step that leaves the intents' confirmations alone, of a call that goes  *)
(* on as it was or has no answer.                                            *)
LEMMA CallGoesOn ==
    ASSUME PlayerInv, PlayerTypes', now <= now', tiers \subseteq tiers',
           \A i \in DOMAIN supportIntents :
               /\ i \in DOMAIN supportIntents' /\ supportIntents'[i].artist = supportIntents[i].artist
               /\ supportIntents'[i].activateAt = supportIntents[i].activateAt
               /\ supportIntents[i].status # "SIGNATURE_REQUIRED" =>
                    supportIntents'[i].status # "SIGNATURE_REQUIRED",
           \A p \in Requests : requests'[p].kind = "support" =>
               requests'[p] = requests[p] \/ supportIntents[requests'[p].id].status = "SIGNATURE_REQUIRED",
           NEW q \in Requests, submissions'[q] = submissions[q] \/ submissions'[q].pc \notin Begun
    PROVE  CallFits(submissions[q])'
  <1>1. PICK l \in Submission : l = submissions'[q]
    BY DEF PlayerTypes
  <1>2. CallFits(l)'
    <2>1. CASE l.pc \notin Begun
      BY <2>1 DEF CallFits, Begun
    <2>2. CASE l.pc \in Begun
      <3>1. CallFits(l)
        BY <1>1, <2>2 DEF PlayerInv
      <3>2. l.id \in DOMAIN supportIntents /\ supportIntents[l.id].status # "SIGNATURE_REQUIRED"
        BY <2>2, <3>1 DEF CallFits
      <3> QED BY <3>1, <3>2, CallStays DEF PlayerInv
    <2> QED BY <2>1, <2>2
  <1> QED BY <1>1, <1>2 DEF CallFits, Outlasts, InFlight, Later, Capable

LEMMA PlayerBegins == ASSUME WalletInit, PlayerSupportInit PROVE PlayerInv
  <1>1. PlayerTypes
    BY WalletAssumption
    DEF WalletInit, PlayerSupportInit, PlayerTypes, PlayerRequest, Submission, NotCalled, Idle
  <1> QED
    BY <1>1 DEF WalletInit, PlayerSupportInit, PlayerInv, ActiveGave, DueSoon, ShownReached,
                CallFits, NotCalled, Begun

(* What requests and calls hold, when one of each is replaced. *)
LEMMA RequestsFit ==
    ASSUME PlayerTypes, NEW r \in Requests, NEW v \in PlayerRequest, NEW c \in Submission,
           requests' = [requests EXCEPT ![r] = v], submissions' = [submissions EXCEPT ![r] = c],
           DOMAIN challenges \subseteq DOMAIN challenges', DOMAIN supportIntents \subseteq DOMAIN supportIntents',
           v.kind = "siwe" => v.id \in DOMAIN challenges,
           v.kind = "support" => v.id \in DOMAIN supportIntents,
           c.pc \in {"signing", "sent"} => c.id \in DOMAIN supportIntents,
           c.pc \notin {"idle", "received"} => v = Idle
    PROVE  /\ requests' \in [Requests -> PlayerRequest] /\ submissions' \in [Requests -> Submission]
           /\ requests'[r] = v /\ \A q \in Requests : q # r => requests'[q] = requests[q]
           /\ submissions'[r] = c /\ \A q \in Requests : q # r => submissions'[q] = submissions[q]
           /\ \A q \in Requests :
                /\ requests'[q].kind = "siwe" => requests'[q].id \in DOMAIN challenges'
                /\ requests'[q].kind = "support" => requests'[q].id \in DOMAIN supportIntents'
                /\ submissions'[q].pc \in {"signing", "sent"} => submissions'[q].id \in DOMAIN supportIntents'
                /\ submissions'[q].pc \notin {"idle", "received"} => requests'[q] = Idle
  <1>1. /\ requests' \in [Requests -> PlayerRequest]
        /\ requests'[r] = v /\ \A q \in Requests : q # r => requests'[q] = requests[q]
    BY DEF PlayerTypes
  <1>2. /\ submissions' \in [Requests -> Submission]
        /\ submissions'[r] = c /\ \A q \in Requests : q # r => submissions'[q] = submissions[q]
    BY DEF PlayerTypes
  <1>3. ASSUME NEW q \in Requests
        PROVE  /\ requests'[q].kind = "siwe" => requests'[q].id \in DOMAIN challenges'
               /\ requests'[q].kind = "support" => requests'[q].id \in DOMAIN supportIntents'
               /\ submissions'[q].pc \in {"signing", "sent"} => submissions'[q].id \in DOMAIN supportIntents'
               /\ submissions'[q].pc \notin {"idle", "received"} => requests'[q] = Idle
    <2>1. CASE q = r
      BY <1>1, <1>2, <2>1
    <2>2. CASE q # r
      <3>1. requests'[q] = requests[q] /\ submissions'[q] = submissions[q]
        BY <1>1, <1>2, <2>2
      <3> QED BY <3>1 DEF PlayerTypes
    <2> QED BY <2>1, <2>2
  <1> QED BY <1>1, <1>2, <1>3

(* The clock, the registration dialog, the buttons that only ask. *)
LEMMA PageStep ==
    ASSUME PlayerInv,
           \/ Tick /\ UNCHANGED supportVars
           \/ RegisterTestUser \/ RegistrationRefused \/ \E k \in ClientKeys : TestUserRegistered(k)
           \/ \E w \in Wallets : ConnectWallet(w)
           \/ AskChallenge \/ CancelSupport
           \/ UNCHANGED <<walletVars, supportVars>>
    PROVE  PlayerInv'
  <1> USE DEF shown
  <1>1. /\ UNCHANGED <<supportIntents, tiers, requests, submissions>>
        /\ now' \in Nat /\ now <= now'
    BY DEF PlayerInv, PlayerTypes, Tick, RegisterTestUser, RegistrationRefused, TestUserRegistered,
           RegisterDemoUser, ConnectWallet, AskChallenge, CreateChallenge, CancelSupport, walletVars,
           supportVars, dialog
  <1>2. challenges' \in Seq(Challenge) /\ DOMAIN challenges \subseteq DOMAIN challenges'
    <2>1. CASE UNCHANGED challenges
      BY <2>1 DEF PlayerInv, PlayerTypes
    <2>2. CASE AskChallenge
      <3>1. PICK v : /\ v = [address |-> wallet, invited |-> FALSE, expiresAt |-> now + SignTTL, used |-> FALSE]
                     /\ challenges' = Append(challenges, v) /\ wallet # NoWallet
        BY <2>2 DEF AskChallenge, CreateChallenge
      <3>2. v \in Challenge
        BY <3>1, WalletAssumption DEF PlayerInv, PlayerTypes, Challenge
      <3> QED BY <3>1, <3>2, Appended DEF PlayerInv, PlayerTypes
    <2> QED
      BY <2>1, <2>2 DEF Tick, RegisterTestUser, RegistrationRefused, TestUserRegistered,
           RegisterDemoUser, ConnectWallet, CancelSupport, walletVars, supportVars, dialog
  <1>3. /\ walletAddress' = walletAddress /\ wallet' \in Wallets \cup {NoWallet}
        /\ intent' \in {0} \cup DOMAIN supportIntents'
    BY DEF PlayerInv, PlayerTypes, Tick, RegisterTestUser, RegistrationRefused, TestUserRegistered,
           RegisterDemoUser, ConnectWallet, AskChallenge, CreateChallenge, CancelSupport, walletVars,
           supportVars, dialog
  <1>4. PlayerTypes'
    BY <1>1, <1>2, <1>3 DEF PlayerInv, PlayerTypes
  <1>5. \A r \in Requests : CallFits(submissions[r])'
    BY <1>1, <1>4, CallGoesOn
  <1>6. ActiveGave' /\ DueSoon'
    <2>1. ASSUME NEW i \in DOMAIN supportIntents
          PROVE  supportIntents[i].activateAt <= now' + ConfirmDelay
      <3>1. supportIntents[i] \in SupportIntent /\ now \in Nat
        BY DEF PlayerInv, PlayerTypes
      <3>2. supportIntents[i].activateAt <= now + ConfirmDelay
        BY DEF PlayerInv, DueSoon
      <3> QED BY <1>1, <3>1, <3>2, WalletAssumption DEF SupportIntent
    <2> QED BY <1>1, <2>1 DEF PlayerInv, ActiveGave, DueSoon, Capable
  <1>7. ShownReached'
    BY <1>1, WalletAssumption
    DEF PlayerInv, ShownReached, Tick, RegisterTestUser, RegistrationRefused, TestUserRegistered,
        RegisterDemoUser, ConnectWallet, AskChallenge, CreateChallenge, CancelSupport, walletVars,
        supportVars, dialog
  <1> QED BY <1>4, <1>5, <1>6, <1>7 DEF PlayerInv

LEMMA ReloadStep == ASSUME PlayerInv, Reload PROVE PlayerInv'
  <1>1. PlayerTypes'
    BY DEF PlayerInv, PlayerTypes, Reload, walletVars, Submission, NotCalled
  <1>2. ActiveGave' /\ DueSoon' /\ ShownReached'
    BY DEF PlayerInv, ActiveGave, DueSoon, ShownReached, Capable, Reload, walletVars
  <1>3. \A r \in Requests : submissions'[r] = NotCalled
    BY DEF Reload
  <1> QED BY <1>1, <1>2, <1>3 DEF PlayerInv, CallFits, NotCalled, Begun

(* A step of one request and one call that leaves the intents as they are. *)
LEMMA CallStep ==
    ASSUME PlayerInv, NEW r \in Requests, NEW v \in PlayerRequest, NEW c \in Submission,
           requests' = [requests EXCEPT ![r] = v], submissions' = [submissions EXCEPT ![r] = c],
           UNCHANGED <<now, demoUser, walletAddress, challenges, supportIntents, tiers, wallet,
                       authenticated, testUser>>,
           v.kind = "siwe" => v.id \in DOMAIN challenges,
           v.kind = "support" => \/ v = requests[r]
                                 \/ /\ v.id \in DOMAIN supportIntents
                                    /\ supportIntents[v.id].status = "SIGNATURE_REQUIRED",
           c.pc \in {"signing", "sent"} => c.id \in DOMAIN supportIntents,
           c.pc \notin {"idle", "received"} => v = Idle,
           CallFits(c), intent' \in {0, intent},
           status' = "SBT_ACTIVE" => tiers # {},
           tier' # "NONE" => tier # "NONE" \/
               \E i \in DOMAIN supportIntents : supportIntents[i].status # "SIGNATURE_REQUIRED"
    PROVE  PlayerInv'
  <1>1. /\ requests' \in [Requests -> PlayerRequest] /\ submissions' \in [Requests -> Submission]
        /\ requests'[r] = v /\ \A q \in Requests : q # r => requests'[q] = requests[q]
        /\ submissions'[r] = c /\ \A q \in Requests : q # r => submissions'[q] = submissions[q]
        /\ \A q \in Requests :
             /\ requests'[q].kind = "siwe" => requests'[q].id \in DOMAIN challenges'
             /\ requests'[q].kind = "support" => requests'[q].id \in DOMAIN supportIntents'
             /\ submissions'[q].pc \in {"signing", "sent"} => submissions'[q].id \in DOMAIN supportIntents'
             /\ submissions'[q].pc \notin {"idle", "received"} => requests'[q] = Idle
    <2>1. v.kind = "support" => v.id \in DOMAIN supportIntents
      BY DEF PlayerInv, PlayerTypes
    <2> QED BY <2>1, RequestsFit DEF PlayerInv
  <1>2. PlayerTypes'
    BY <1>1 DEF PlayerInv, PlayerTypes
  <1>3. ActiveGave' /\ DueSoon'
    BY DEF PlayerInv, ActiveGave, DueSoon, Capable
  <1>4. ShownReached'
    BY DEF PlayerInv, ShownReached
  <1>5. now <= now' /\ tiers \subseteq tiers'
    BY DEF PlayerInv, PlayerTypes
  <1>6. \A q \in Requests : requests'[q].kind = "support" =>
           requests'[q] = requests[q] \/ supportIntents[requests'[q].id].status = "SIGNATURE_REQUIRED"
    BY <1>1
  <1>7. ASSUME NEW q \in Requests PROVE CallFits(submissions[q])'
    <2>1. PICK l \in Submission : l = submissions'[q]
      BY <1>1
    <2>2. CallFits(l)
      BY <1>1, <2>1 DEF PlayerInv
    <2>3. l.pc \in Begun => l.id \in DOMAIN supportIntents /\ supportIntents[l.id].status # "SIGNATURE_REQUIRED"
      BY <2>2 DEF CallFits
    <2>4. CallFits(l)'
      BY <1>2, <1>5, <1>6, <2>2, <2>3, CallStays DEF PlayerInv
    <2> QED BY <2>1, <2>4 DEF CallFits, Outlasts, InFlight, Later, Capable
  <1> QED BY <1>2, <1>3, <1>4, <1>7 DEF PlayerInv

LEMMA CallTypes ==
    /\ NotCalled \in Submission /\ CallFits(NotCalled) /\ NotCalled.pc = "idle"
    /\ Idle \in PlayerRequest /\ Idle.kind = "idle"
    /\ PlayerInv => \A r \in Requests :
        /\ requests[r] \in PlayerRequest /\ submissions[r] \in Submission /\ CallFits(submissions[r])
        /\ requests = [requests EXCEPT ![r] = requests[r]]
        /\ submissions = [submissions EXCEPT ![r] = submissions[r]]
  BY DEF PlayerInv, PlayerTypes, Submission, NotCalled, CallFits, Begun, PlayerRequest, Idle

(* A request that its handler receives or refuses, and a call's way to it. *)
LEMMA SentStep ==
    ASSUME PlayerInv, NEW r \in Requests,
           (\E c \in DOMAIN challenges : SignChallenge(r, c)) \/ Refused(r) \/ SignSupport(r) \/ SubmitSupport(r)
    PROVE  PlayerInv'
  <1>1. PICK q \in PlayerRequest, l \in Submission : q = requests[r] /\ l = submissions[r] /\ CallFits(l)
    BY CallTypes
  <1>2. /\ q.kind = "siwe" => q.id \in DOMAIN challenges
        /\ l.pc \in {"signing", "sent"} => l.id \in DOMAIN supportIntents
        /\ l.pc \notin {"idle", "received"} => q = Idle
        /\ requests = [requests EXCEPT ![r] = q] /\ submissions = [submissions EXCEPT ![r] = l]
    BY <1>1, CallTypes DEF PlayerInv, PlayerTypes
  <1>3. /\ status = "SBT_ACTIVE" => tiers # {}
        /\ intent \in {0} \cup DOMAIN supportIntents /\ intent \in Nat
    BY DEF PlayerInv, ShownReached, PlayerTypes
  <1>4. CASE \E c \in DOMAIN challenges : SignChallenge(r, c)
    <2>1. PICK c \in DOMAIN challenges : SignChallenge(r, c)
      BY <1>4
    <2>2. PICK v : v = [kind |-> "siwe", id |-> c]
      OBVIOUS
    <2>3. v \in PlayerRequest /\ v.kind = "siwe" /\ v.id = c
      BY <2>2 DEF PlayerInv, PlayerTypes, PlayerRequest
    <2>4. requests' = [requests EXCEPT ![r] = v] /\ l = NotCalled
      BY <1>1, <2>1, <2>2 DEF SignChallenge, ReceiveChallenge, Begin
    <2>5. UNCHANGED <<now, demoUser, walletAddress, challenges, supportIntents, tiers, wallet,
                      authenticated, testUser, intent, status, tier, submissions>>
      BY <2>1 DEF SignChallenge, ReceiveChallenge, supportVars, shown
    <2> QED BY <1>1, <1>2, <1>3, <2>3, <2>4, <2>5, CallTypes, CallStep
  <1>5. CASE Refused(r)
    <2>1. requests' = [requests EXCEPT ![r] = Idle]
      BY <1>5 DEF Refused, RefuseSignature, Answer
    <2>2. UNCHANGED <<now, demoUser, walletAddress, challenges, supportIntents, tiers, wallet,
                      authenticated, testUser, intent, status, tier, submissions>>
      BY <1>5 DEF Refused, RefuseSignature, supportVars, shown
    <2> QED BY <1>1, <1>2, <1>3, <2>1, <2>2, CallTypes, CallStep
  <1>6. CASE SignSupport(r)
    <2>1. PICK c : c = [pc |-> "signing", id |-> intent]
      OBVIOUS
    <2>2. c \in Submission /\ c.pc = "signing" /\ c.id = intent /\ CallFits(c)
      BY <1>3, <2>1 DEF Submission, CallFits, Begun
    <2>3. /\ submissions' = [submissions EXCEPT ![r] = c] /\ intent # 0 /\ q = Idle
          /\ UNCHANGED <<now, demoUser, walletAddress, challenges, supportIntents, tiers, wallet,
                         authenticated, testUser, intent, status, tier, requests>>
      BY <1>1, <1>6, <2>1 DEF SignSupport, walletVars, shown
    <2> QED BY <1>2, <1>3, <2>2, <2>3, CallTypes, CallStep
  <1>7. CASE SubmitSupport(r)
    <2>1. PICK c : c = [pc |-> "sent", id |-> intent, signed |-> l.id = intent]
      OBVIOUS
    <2>2. c \in Submission /\ c.pc = "sent" /\ c.id = intent /\ CallFits(c)
      BY <1>3, <2>1 DEF Submission, CallFits, Begun
    <2>3. /\ submissions' = [submissions EXCEPT ![r] = c] /\ intent # 0 /\ l.pc = "signing"
          /\ UNCHANGED <<now, demoUser, walletAddress, challenges, supportIntents, tiers, wallet,
                         authenticated, testUser, intent, status, tier, requests>>
      BY <1>1, <1>7, <2>1 DEF SubmitSupport, walletVars, shown
    <2> QED BY <1>2, <1>3, <2>2, <2>3, CallTypes, CallStep
  <1> QED BY <1>4, <1>5, <1>6, <1>7

(* A submission that submitSupport receives, or answers at once. *)
LEMMA SubmissionStep == ASSUME PlayerInv, NEW r \in Requests, ReceiveSubmission(r) PROVE PlayerInv'
  <1>1. PICK i : i = submissions[r].id
    OBVIOUS
  <1>2. /\ i \in DOMAIN supportIntents /\ i \in Nat /\ requests[r] = Idle
        /\ (status = "SBT_ACTIVE" => tiers # {})
    BY <1>1 DEF ReceiveSubmission, PlayerInv, PlayerTypes, ShownReached
  <1>3. UNCHANGED <<now, demoUser, walletAddress, challenges, supportIntents, tiers, wallet,
                    authenticated, testUser, intent, status, tier>>
    BY DEF ReceiveSubmission, ReceiveSupport, walletVars, shown
  <1>4. CASE /\ ReceiveSupport(r, i)
             /\ submissions' = [submissions EXCEPT ![r] = [pc |-> "received", id |-> i]]
    <2>1. PICK v, c : v = [kind |-> "support", id |-> i] /\ c = [pc |-> "received", id |-> i]
      OBVIOUS
    <2>2. /\ v \in PlayerRequest /\ v.kind = "support" /\ v.id = i
          /\ c \in Submission /\ c.pc = "received" /\ CallFits(c)
      BY <1>2, <2>1 DEF PlayerRequest, Submission, CallFits, Begun
    <2>3. /\ requests' = [requests EXCEPT ![r] = v] /\ submissions' = [submissions EXCEPT ![r] = c]
          /\ supportIntents[i].status = "SIGNATURE_REQUIRED"
      BY <1>4, <2>1 DEF ReceiveSupport, Begin
    <2> QED BY <1>2, <1>3, <2>2, <2>3, CallStep
  <1>5. CASE AlreadySubmitted(i) /\ UNCHANGED walletVars /\ Answers(r, i, supportIntents[i].status)
    <2>1. PICK c : c = [pc |-> "answered", id |-> i, status |-> supportIntents[i].status]
      OBVIOUS
    <2>2. supportIntents[i].status \in {"CONFIRMING", "SBT_ACTIVE"}
      <3>1. supportIntents[i] \in SupportIntent
        BY <1>2 DEF PlayerInv, PlayerTypes
      <3> QED BY <1>5, <3>1 DEF AlreadySubmitted, SupportIntent
    <2>3. c \in Submission /\ c.pc = "answered" /\ CallFits(c)
      BY <1>2, <2>1, <2>2 DEF Submission, CallFits, PlayerInv, ActiveGave
    <2>4. /\ requests' = [requests EXCEPT ![r] = Idle] /\ submissions' = [submissions EXCEPT ![r] = c]
      BY <1>2, <1>5, <2>1, CallTypes DEF Answers, walletVars
    <2> QED BY <1>2, <1>3, <2>3, <2>4, CallTypes, CallStep
  <1> QED BY <1>1, <1>4, <1>5 DEF ReceiveSubmission

(* An answer arrives and its loop begins. *)
LEMMA SubmittedStep == ASSUME PlayerInv, NEW r \in Requests, Submitted(r) PROVE PlayerInv'
  <1>1. PICK l \in Submission : l = submissions[r] /\ l.pc = "answered" /\ CallFits(l)
    BY CallTypes DEF Submitted
  <1>2. /\ l.id \in Nat /\ l.status \in {"CONFIRMING", "SBT_ACTIVE"}
        /\ l.id \in DOMAIN supportIntents /\ supportIntents[l.id].status # "SIGNATURE_REQUIRED"
        /\ (l.status = "SBT_ACTIVE" => Capable(l.id)) /\ requests[r] = Idle
    BY <1>1 DEF Submission, NotCalled, Loop, CallFits, Begun, PlayerInv, PlayerTypes
  <1>3. PICK c : c = [pc |-> "polling", id |-> l.id, left |-> Attempts, next |-> now]
    OBVIOUS
  <1>4. c \in Loop /\ c \in Submission /\ c.pc = "polling" /\ c.left = Attempts /\ c.next = now /\ c.id = l.id
    BY <1>2, <1>3, AttemptsAssumption DEF Loop, Submission, PlayerInv, PlayerTypes
  <1>5. CallFits(c)
    BY <1>2, <1>4, LoopStarts DEF PlayerInv
  <1>6. /\ submissions' = [submissions EXCEPT ![r] = c] /\ status' = l.status /\ intent' = 0
        /\ UNCHANGED <<now, demoUser, walletAddress, challenges, supportIntents, tiers, wallet,
                       authenticated, testUser, tier, requests>>
    BY <1>1, <1>3 DEF Submitted, walletVars
  <1>7. requests' = [requests EXCEPT ![r] = Idle] /\ (status' = "SBT_ACTIVE" => tiers # {})
    BY <1>2, <1>6, CallTypes DEF Capable
  <1> QED BY <1>2, <1>4, <1>5, <1>6, <1>7, CallTypes, CallStep

LEMMA SignedInStep == ASSUME PlayerInv, NEW r \in Requests, SignedIn(r) PROVE PlayerInv'
  <1>1. PICK c : /\ c = requests[r].id /\ c \in DOMAIN challenges
                 /\ challenges' = [challenges EXCEPT ![c].used = TRUE]
                 /\ walletAddress' = challenges[c].address
    BY DEF SignedIn, ChallengeVerified, Awaiting, PlayerInv, PlayerTypes
  <1>2. challenges[c] \in Challenge
    BY <1>1 DEF PlayerInv, PlayerTypes
  <1>3. PICK v : v = [challenges[c] EXCEPT !.used = TRUE]
    OBVIOUS
  <1>4. v \in Challenge /\ challenges' = [challenges EXCEPT ![c] = v]
    BY <1>1, <1>2, <1>3 DEF Challenge
  <1>5. challenges' \in Seq(Challenge) /\ DOMAIN challenges' = DOMAIN challenges
    BY <1>1, <1>4, Replaced DEF PlayerInv, PlayerTypes
  <1>6. walletAddress' \in Wallets
    BY <1>1, <1>2 DEF Challenge
  <1>7. /\ requests' = [requests EXCEPT ![r] = Idle]
        /\ UNCHANGED <<now, demoUser, supportIntents, tiers, submissions, wallet, intent, status, tier, testUser>>
    BY DEF SignedIn, ChallengeVerified, Answer
  <1>8. PICK l \in Submission : l = submissions[r] /\ submissions' = [submissions EXCEPT ![r] = l]
    BY <1>7, CallTypes
  <1>9. /\ requests' \in [Requests -> PlayerRequest] /\ submissions' \in [Requests -> Submission]
        /\ requests'[r] = Idle /\ \A q \in Requests : q # r => requests'[q] = requests[q]
        /\ \A q \in Requests :
             /\ requests'[q].kind = "siwe" => requests'[q].id \in DOMAIN challenges'
             /\ requests'[q].kind = "support" => requests'[q].id \in DOMAIN supportIntents'
             /\ submissions'[q].pc \in {"signing", "sent"} => submissions'[q].id \in DOMAIN supportIntents'
             /\ submissions'[q].pc \notin {"idle", "received"} => requests'[q] = Idle
    <2>1. l.pc \in {"signing", "sent"} => l.id \in DOMAIN supportIntents
      BY <1>8 DEF PlayerInv, PlayerTypes
    <2>2. PICK v0 \in PlayerRequest : v0 = Idle /\ v0.kind = "idle" /\ requests' = [requests EXCEPT ![r] = v0]
      BY <1>7, CallTypes
    <2>3. DOMAIN challenges \subseteq DOMAIN challenges' /\ DOMAIN supportIntents \subseteq DOMAIN supportIntents'
      BY <1>5, <1>7
    <2>4. PlayerTypes
      BY DEF PlayerInv
    <2> QED BY <1>8, <2>1, <2>2, <2>3, <2>4, RequestsFit
  <1>10. PlayerTypes'
    BY <1>5, <1>6, <1>7, <1>9 DEF PlayerInv, PlayerTypes
  <1>11. \A q \in Requests : CallFits(submissions[q])'
    <2>1. now <= now'
      BY <1>7 DEF PlayerInv, PlayerTypes
    <2>2. \A q \in Requests : requests'[q].kind = "support" => requests'[q] = requests[q]
      BY <1>9 DEF Idle
    <2> QED BY <1>7, <1>10, <2>1, <2>2, CallGoesOn
  <1>12. ActiveGave' /\ DueSoon'
    BY <1>7 DEF PlayerInv, ActiveGave, DueSoon, Capable
  <1>13. ShownReached'
    BY <1>6, <1>7, WalletAssumption DEF PlayerInv, ShownReached
  <1> QED BY <1>10, <1>11, <1>12, <1>13 DEF PlayerInv

(* A new support intent, whether its answer arrives or not. *)
LEMMA PreparedStep ==
    ASSUME PlayerInv, NEW k \in ClientKeys, NEW a \in Artists, CreateSupportIntent(k, a),
           UNCHANGED <<wallet, authenticated, tier, submissions, testUser>>,
           intent' \in {intent, Len(supportIntents) + 1}, status' # "SBT_ACTIVE"
    PROVE  PlayerInv'
  <1>1. PICK v : /\ v = [address |-> walletAddress, artist |-> a, deadline |-> now + SignTTL,
                         status |-> "SIGNATURE_REQUIRED", activateAt |-> 0]
                 /\ supportIntents' = Append(supportIntents, v) /\ walletAddress # NoWallet
    BY DEF CreateSupportIntent
  <1>2. v \in SupportIntent
    BY <1>1, WalletAssumption DEF PlayerInv, PlayerTypes, SupportIntent
  <1>3. PICK n : n = Len(supportIntents) + 1
    OBVIOUS
  <1>4. /\ supportIntents' \in Seq(SupportIntent) /\ DOMAIN supportIntents' = DOMAIN supportIntents \cup {n}
        /\ supportIntents'[n] = v /\ \A j \in DOMAIN supportIntents : supportIntents'[j] = supportIntents[j]
    BY <1>1, <1>2, <1>3, Appended DEF PlayerInv, PlayerTypes
  <1>5. UNCHANGED <<now, demoUser, walletAddress, challenges, tiers, requests>>
    BY DEF CreateSupportIntent
  <1>6. PlayerTypes'
    BY <1>3, <1>4, <1>5 DEF PlayerInv, PlayerTypes
  <1>7. ActiveGave'
    BY <1>1, <1>4, <1>5 DEF PlayerInv, ActiveGave, Capable
  <1>8. DueSoon'
    <2>1. supportIntents'[n].activateAt <= now' + ConfirmDelay
      BY <1>1, <1>4, <1>5, WalletAssumption DEF PlayerInv, PlayerTypes
    <2> QED BY <1>4, <1>5, <2>1 DEF PlayerInv, DueSoon
  <1>9. \A r \in Requests : CallFits(submissions[r])'
    <2>1. now <= now'
      BY <1>5 DEF PlayerInv, PlayerTypes
    <2> QED BY <1>4, <1>5, <1>6, <2>1, CallGoesOn
  <1>10. ShownReached'
    BY <1>4, <1>5 DEF PlayerInv, ShownReached
  <1> QED BY <1>6, <1>7, <1>8, <1>9, <1>10 DEF PlayerInv


(* The poll that activates, whether its answer arrives or not. *)
LEMMA ActivatedStep ==
    ASSUME PlayerInv, NEW r \in Requests, NEW i, submissions[r].pc = "polling", i = submissions[r].id,
           SupportRegistration(i), NEW c \in {NotCalled, [pc |-> "ended", id |-> i]},
           submissions' = [submissions EXCEPT ![r] = c], status' \in {"FAILED", "SBT_ACTIVE"},
           UNCHANGED <<wallet, authenticated, intent, testUser>>
    PROVE  PlayerInv'
  <1>1. i \in DOMAIN supportIntents /\ i \in Nat /\ requests[r] = Idle /\ CallFits(submissions[r])
    BY DEF PlayerInv, PlayerTypes, CallFits, Begun
  <1>2. supportIntents[i] \in SupportIntent /\ supportIntents[i].status = "CONFIRMING"
    BY <1>1 DEF PlayerInv, PlayerTypes, SupportRegistration, Confirmed
  <1>3. PICK v : v = [supportIntents[i] EXCEPT !.status = "SBT_ACTIVE"]
    OBVIOUS
  <1>4. /\ v \in SupportIntent /\ v.status = "SBT_ACTIVE" /\ v.artist = supportIntents[i].artist
        /\ v.activateAt = supportIntents[i].activateAt
        /\ supportIntents' = [supportIntents EXCEPT ![i] = v]
    BY <1>2, <1>3 DEF SupportIntent, SupportRegistration
  <1>5. /\ supportIntents' \in Seq(SupportIntent) /\ DOMAIN supportIntents' = DOMAIN supportIntents
        /\ supportIntents'[i] = v /\ \A j \in DOMAIN supportIntents : j # i => supportIntents'[j] = supportIntents[j]
    BY <1>1, <1>4, Replaced DEF PlayerInv, PlayerTypes
  <1>6. /\ tiers' = tiers \cup {supportIntents[i].artist}
        /\ UNCHANGED <<now, demoUser, walletAddress, challenges, requests>>
    BY DEF SupportRegistration
  <1>7. c \in Submission /\ c.pc \in {"idle", "ended"}
    BY <1>1 DEF Submission, NotCalled
  <1>8. /\ submissions' \in [Requests -> Submission]
        /\ submissions'[r] = c /\ \A q \in Requests : q # r => submissions'[q] = submissions[q]
        /\ \A q \in Requests :
             /\ submissions'[q].pc \in {"signing", "sent"} => submissions'[q].id \in DOMAIN supportIntents
             /\ submissions'[q].pc \notin {"idle", "received"} => requests[q] = Idle
    <2>1. PICK v0 \in PlayerRequest : v0 = requests[r] /\ requests = [requests EXCEPT ![r] = v0] /\ v0 = Idle
      BY <1>1, CallTypes
    <2>2. /\ submissions' \in [Requests -> Submission]
          /\ submissions'[r] = c /\ \A q \in Requests : q # r => submissions'[q] = submissions[q]
      BY <1>7 DEF PlayerInv, PlayerTypes
    <2>3. ASSUME NEW q \in Requests
          PROVE  /\ submissions'[q].pc \in {"signing", "sent"} => submissions'[q].id \in DOMAIN supportIntents
                 /\ submissions'[q].pc \notin {"idle", "received"} => requests[q] = Idle
      BY <1>1, <1>7, <2>2 DEF PlayerInv, PlayerTypes
    <2> QED BY <2>2, <2>3
  <1>9. PlayerTypes'
    BY <1>5, <1>6, <1>8 DEF PlayerInv, PlayerTypes
  <1>10. ActiveGave' /\ DueSoon'
    <2>1. ASSUME NEW j \in DOMAIN supportIntents'
          PROVE  /\ supportIntents'[j].status = "SBT_ACTIVE" => Capable(j)'
                 /\ supportIntents'[j].activateAt <= now' + ConfirmDelay
      <3>1. CASE j = i
        BY <1>1, <1>4, <1>5, <1>6, <3>1 DEF PlayerInv, DueSoon, Capable
      <3>2. CASE j # i
        BY <1>5, <1>6, <3>2 DEF PlayerInv, ActiveGave, DueSoon, Capable
      <3> QED BY <3>1, <3>2
    <2> QED BY <2>1 DEF ActiveGave, DueSoon
  <1>11. ShownReached'
    BY <1>1, <1>4, <1>5, <1>6 DEF PlayerInv, ShownReached
  <1>12. ASSUME NEW q \in Requests PROVE CallFits(submissions[q])'
    <2>1. CASE submissions'[q] = submissions[q] \/ submissions'[q].pc \notin Begun
      <3>1. \A j \in DOMAIN supportIntents :
               /\ j \in DOMAIN supportIntents' /\ supportIntents'[j].artist = supportIntents[j].artist
               /\ supportIntents'[j].activateAt = supportIntents[j].activateAt
               /\ supportIntents[j].status # "SIGNATURE_REQUIRED" =>
                    supportIntents'[j].status # "SIGNATURE_REQUIRED"
        BY <1>4, <1>5
      <3>2. now <= now' /\ tiers \subseteq tiers'
        BY <1>6 DEF PlayerInv, PlayerTypes
      <3> QED BY <1>6, <1>9, <2>1, <3>1, <3>2, CallGoesOn
    <2>2. CASE q = r /\ submissions'[q] = [pc |-> "ended", id |-> i]
      BY <1>1, <1>4, <1>5, <1>6, <2>2 DEF CallFits, Capable, Begun
    <2> QED BY <1>8, <2>1, <2>2 DEF NotCalled, Begun
  <1> QED BY <1>9, <1>10, <1>11, <1>12 DEF PlayerInv

(* A poll of a registration that is not due, or is active already. *)
LEMMA PollStep == ASSUME PlayerInv, NEW r \in Requests, Poll(r) PROVE PlayerInv'
  <1>1. PICK l \in Submission : l = submissions[r] /\ l.pc = "polling" /\ l.next <= now /\ CallFits(l)
    BY CallTypes DEF Poll, PollIsDue
  <1>2. /\ l \in Loop /\ l.id \in DOMAIN supportIntents /\ l.id \in Nat /\ requests[r] = Idle
        /\ supportIntents[l.id].status # "SIGNATURE_REQUIRED" /\ supportIntents[l.id] \in SupportIntent
    BY <1>1 DEF Submission, NotCalled, CallFits, Begun, PlayerInv, PlayerTypes, Loop
  <1>3. /\ Registration(l.id) /\ status' = supportIntents'[l.id].status /\ tier' = "EARLY_SUPPORTER"
        /\ UNCHANGED <<wallet, authenticated, intent, testUser>>
        /\ submissions' = [submissions EXCEPT ![r] =
              IF status' = "SBT_ACTIVE" \/ l.left = 1 THEN [pc |-> "ended", id |-> l.id]
              ELSE [l EXCEPT !.left = @ - 1, !.next = now + PollDelay]]
    BY <1>1 DEF Poll
  <1>4. CASE SupportRegistration(l.id)
    <2>1. status' = "SBT_ACTIVE"
      <3>1. PICK i : i = l.id /\ i \in DOMAIN supportIntents /\ supportIntents[i] \in SupportIntent
        BY <1>2
      <3>2. supportIntents' = [supportIntents EXCEPT ![i] = [supportIntents[i] EXCEPT !.status = "SBT_ACTIVE"]]
        BY <1>4, <3>1 DEF SupportRegistration, PlayerInv, PlayerTypes
      <3>3. supportIntents'[i].status = "SBT_ACTIVE"
        BY <3>1, <3>2 DEF SupportIntent
      <3> QED BY <1>3, <3>1, <3>3
    <2> QED BY <1>1, <1>3, <1>4, <2>1, ActivatedStep
  <1>5. CASE ~Confirmed(l.id) /\ UNCHANGED walletVars
    <2>1. PICK c : c = IF status' = "SBT_ACTIVE" \/ l.left = 1 THEN [pc |-> "ended", id |-> l.id]
                       ELSE [l EXCEPT !.left = @ - 1, !.next = now + PollDelay]
      OBVIOUS
    <2>2. /\ submissions' = [submissions EXCEPT ![r] = c] /\ status' = supportIntents[l.id].status
          /\ UNCHANGED <<now, demoUser, walletAddress, challenges, supportIntents, tiers, requests>>
      BY <1>3, <1>5, <2>1 DEF walletVars
    <2>3. status' = "SBT_ACTIVE" => Capable(l.id)
      BY <1>2, <2>2 DEF PlayerInv, ActiveGave
    <2>4. c \in Submission /\ c.pc \in {"polling", "ended"} /\ CallFits(c)
      <3>1. CASE status' = "SBT_ACTIVE"
        BY <1>2, <2>1, <2>3, <3>1 DEF Submission, CallFits, Begun
      <3>2. CASE status' # "SBT_ACTIVE" /\ l.left = 1
        <4>1. c = [pc |-> "ended", id |-> l.id] /\ c \in Submission
          BY <1>2, <2>1, <3>2 DEF Submission
        <4> QED BY <1>1, <1>2, <1>5, <2>2, <3>2, <4>1, LoopPolls DEF PlayerInv
      <3>3. CASE status' # "SBT_ACTIVE" /\ l.left # 1
        <4>1. c = [l EXCEPT !.left = l.left - 1, !.next = now + PollDelay] /\ now + PollDelay \in Nat
          BY <2>1, <3>3 DEF PollDelay, PlayerInv, PlayerTypes
        <4>2. l.left - 1 \in Nat \ {0}
          BY <1>2, <3>3 DEF Loop
        <4>3. c \in Loop /\ c.id = l.id /\ c.left = l.left - 1 /\ c.next = now + PollDelay /\ c.pc = "polling"
          BY <1>1, <1>2, <4>1, <4>2 DEF Loop
        <4> QED BY <1>1, <1>2, <1>5, <2>2, <3>3, <4>3, LoopPolls DEF PlayerInv, Submission
      <3> QED BY <3>1, <3>2, <3>3
    <2>5. requests' = [requests EXCEPT ![r] = Idle]
      BY <1>2, <2>2, CallTypes
    <2>6. status' = "SBT_ACTIVE" => tiers # {}
      BY <2>3 DEF Capable
    <2>7. \E i \in DOMAIN supportIntents : supportIntents[i].status # "SIGNATURE_REQUIRED"
      BY <1>2
    <2>8. UNCHANGED <<wallet, authenticated, testUser>> /\ intent' \in {0, intent}
      BY <1>3
    <2> QED BY <2>2, <2>4, <2>5, <2>6, <2>7, <2>8, CallTypes, CallStep
  <1> QED BY <1>3, <1>4, <1>5 DEF Registration

(* The catch of signSupportIntent. *)
LEMMA FailStep == ASSUME PlayerInv, NEW r \in Requests, SupportFails(r) PROVE PlayerInv'
  <1>1. /\ submissions' = [submissions EXCEPT ![r] = NotCalled] /\ status' = "FAILED"
        /\ UNCHANGED <<wallet, authenticated, intent, tier, testUser>> /\ GivenUp(r)
    BY DEF SupportFails
  <1>2. CASE PollIsDue(r) /\ SupportRegistration(submissions[r].id)
    BY <1>1, <1>2, ActivatedStep DEF PollIsDue
  <1>3. CASE UNCHANGED walletVars
    <2>1. PICK v \in PlayerRequest : /\ v = requests[r] /\ requests = [requests EXCEPT ![r] = v]
                                     /\ v.kind = "siwe" => v.id \in DOMAIN challenges
      BY CallTypes DEF PlayerInv, PlayerTypes
    <2>2. /\ requests' = [requests EXCEPT ![r] = v]
          /\ UNCHANGED <<now, demoUser, walletAddress, challenges, supportIntents, tiers>>
      BY <1>3, <2>1 DEF walletVars
    <2> QED BY <1>1, <2>1, <2>2, CallTypes, CallStep
  <1>4. CASE RefuseSignature(r)
    <2>1. /\ requests' = [requests EXCEPT ![r] = Idle]
          /\ UNCHANGED <<now, demoUser, walletAddress, challenges, supportIntents, tiers>>
      BY <1>4 DEF RefuseSignature, Answer
    <2> QED BY <1>1, <2>1, CallTypes, CallStep
  <1> QED BY <1>1, <1>2, <1>3, <1>4 DEF GivenUp

(* A signature that is verified, whether the page still waits or not. *)
LEMMA AcceptedStep == ASSUME PlayerInv, NEW r \in Requests, Accepted(r) PROVE PlayerInv'
  <1>1. PICK i : /\ i = requests[r].id /\ i \in DOMAIN supportIntents /\ i \in Nat
                 /\ requests[r].kind = "support"
    BY DEF Accepted, SupportVerified, Awaiting, PlayerInv, PlayerTypes
  <1>2. supportIntents[i] \in SupportIntent /\ now \in Nat /\ ConfirmDelay \in Nat
    BY <1>1, WalletAssumption DEF PlayerInv, PlayerTypes
  <1>3. PICK x \in SupportIntent, due \in Nat : x = supportIntents[i] /\ due = now + ConfirmDelay
    BY <1>2
  <1>4. PICK v \in SupportIntent : /\ v.status = "CONFIRMING" /\ v.activateAt = now + ConfirmDelay
                                   /\ v.artist = supportIntents[i].artist
                                   /\ supportIntents' = [supportIntents EXCEPT ![i] = v]
    <2>1. LET v == [x EXCEPT !.status = "CONFIRMING", !.activateAt = due] IN
            v \in SupportIntent /\ v.status = "CONFIRMING" /\ v.activateAt = due /\ v.artist = x.artist
      BY DEF SupportIntent
    <2>2. supportIntents' = [supportIntents EXCEPT ![i] = [x EXCEPT !.status = "CONFIRMING", !.activateAt = due]]
      BY <1>1, <1>3 DEF Accepted, SupportVerified, PlayerInv, PlayerTypes
    <2> QED BY <1>3, <2>1, <2>2
  <1>5. /\ supportIntents' \in Seq(SupportIntent) /\ DOMAIN supportIntents' = DOMAIN supportIntents
        /\ supportIntents'[i] = v /\ \A j \in DOMAIN supportIntents : j # i => supportIntents'[j] = supportIntents[j]
    BY <1>1, <1>4, Replaced DEF PlayerInv, PlayerTypes
  <1>6. /\ requests' = [requests EXCEPT ![r] = Idle]
        /\ UNCHANGED <<now, demoUser, walletAddress, challenges, tiers, wallet, authenticated, intent,
                       status, tier, testUser>>
    BY DEF Accepted, SupportVerified, Answer, shown
  <1>7. PICK c \in Submission :
           /\ submissions' = [submissions EXCEPT ![r] = c]
           /\ \/ c = submissions[r] /\ c.pc \in {"idle"}
              \/ c.pc = "answered" /\ c.status = "CONFIRMING" /\ c.id = i
    <2>1. CASE Answers(r, i, "CONFIRMING")
      <3>1. PICK c : c = [pc |-> "answered", id |-> i, status |-> "CONFIRMING"]
        OBVIOUS
      <3>2. c \in Submission /\ c.pc = "answered" /\ c.status = "CONFIRMING" /\ c.id = i
        BY <1>1, <3>1 DEF Submission
      <3> QED BY <2>1, <3>1, <3>2 DEF Answers
    <2>2. CASE submissions[r].pc # "received" /\ UNCHANGED submissions
      <3>1. submissions[r].pc = "idle"
        BY <1>1, <2>2 DEF PlayerInv, PlayerTypes, Idle
      <3> QED BY <2>2, <3>1, CallTypes
    <2> QED BY <1>1, <2>1, <2>2 DEF Accepted
  <1>8. /\ requests' \in [Requests -> PlayerRequest] /\ submissions' \in [Requests -> Submission]
        /\ requests'[r] = Idle /\ \A q \in Requests : q # r => requests'[q] = requests[q]
        /\ submissions'[r] = c /\ \A q \in Requests : q # r => submissions'[q] = submissions[q]
        /\ \A q \in Requests :
             /\ requests'[q].kind = "siwe" => requests'[q].id \in DOMAIN challenges'
             /\ requests'[q].kind = "support" => requests'[q].id \in DOMAIN supportIntents'
             /\ submissions'[q].pc \in {"signing", "sent"} => submissions'[q].id \in DOMAIN supportIntents'
             /\ submissions'[q].pc \notin {"idle", "received"} => requests'[q] = Idle
    BY <1>5, <1>6, <1>7, CallTypes, RequestsFit DEF PlayerInv
  <1>9. PlayerTypes'
    BY <1>5, <1>6, <1>8 DEF PlayerInv, PlayerTypes
  <1>10. ActiveGave' /\ DueSoon'
    <2>1. ASSUME NEW j \in DOMAIN supportIntents'
          PROVE  /\ supportIntents'[j].status = "SBT_ACTIVE" => Capable(j)'
                 /\ supportIntents'[j].activateAt <= now' + ConfirmDelay
      <3>1. CASE j = i
        BY <1>2, <1>4, <1>5, <1>6, <3>1
      <3>2. CASE j # i
        BY <1>5, <1>6, <3>2 DEF PlayerInv, ActiveGave, DueSoon, Capable
      <3> QED BY <3>1, <3>2
    <2> QED BY <2>1 DEF ActiveGave, DueSoon
  <1>11. ShownReached'
    BY <1>1, <1>4, <1>5, <1>6 DEF PlayerInv, ShownReached
  <1>12. ASSUME NEW q \in Requests PROVE CallFits(submissions[q])'
    <2>1. PICK l \in Submission : l = submissions'[q]
      BY <1>8
    <2>2. CallFits(l)'
      <3>1. CASE l.pc \notin Begun
        BY <3>1 DEF CallFits, Begun
      <3>2. CASE q = r /\ l.pc \in Begun
        <4>1. l.pc = "answered" /\ l.status = "CONFIRMING" /\ l.id = i
          BY <1>7, <1>8, <2>1, <3>2 DEF Begun
        <4> QED BY <1>4, <1>5, <1>1, <4>1 DEF CallFits
      <3>3. CASE q # r /\ l.pc \in Begun
        <4>1. /\ l = submissions[q] /\ CallFits(l) /\ l.id \in DOMAIN supportIntents
              /\ supportIntents[l.id].status # "SIGNATURE_REQUIRED"
          BY <1>8, <2>1, <3>3 DEF PlayerInv, CallFits
        <4>2. CASE l.id = i
          <5>1. /\ l.id \in DOMAIN supportIntents' /\ supportIntents'[l.id].artist = supportIntents[l.id].artist
                /\ supportIntents'[l.id].status = "CONFIRMING"
                /\ supportIntents'[l.id].activateAt = now + ConfirmDelay
            BY <1>4, <1>5, <4>1, <4>2
          <5> QED BY <1>1, <1>6, <1>8, <1>9, <3>3, <4>1, <4>2, <5>1, LoopRestarts DEF PlayerInv
        <4>3. CASE l.id # i
          <5>1. supportIntents'[l.id] = supportIntents[l.id] /\ l.id \in DOMAIN supportIntents'
            BY <1>5, <4>1, <4>3
          <5>2. \A p \in Requests : requests'[p].kind = "support" => requests'[p] = requests[p]
            BY <1>8 DEF Idle
          <5>3. now <= now' /\ tiers \subseteq tiers'
            BY <1>2, <1>6
          <5> QED BY <1>9, <4>1, <5>1, <5>2, <5>3, CallStays DEF PlayerInv
        <4> QED BY <4>2, <4>3
      <3> QED BY <3>1, <3>2, <3>3
    <2> QED BY <2>1, <2>2 DEF CallFits, Outlasts, InFlight, Later, Capable
  <1> QED BY <1>9, <1>10, <1>11, <1>12 DEF PlayerInv

(* prepareSupportIntent that changes nothing but what is shown. *)
LEMMA UnpreparedStep ==
    ASSUME PlayerInv, UNCHANGED walletVars, status' = "FAILED",
           UNCHANGED <<wallet, authenticated, intent, tier, submissions, testUser, registering>>
    PROVE  PlayerInv'
  BY DEF PlayerInv, PlayerTypes, ActiveGave, DueSoon, ShownReached, Capable, CallFits, Outlasts,
         InFlight, Later, walletVars

LEMMA PlayerStep == ASSUME PlayerInv, [PlayerSupportNext]_<<walletVars, supportVars>> PROVE PlayerInv'
  <1>1. CASE \/ Tick /\ UNCHANGED supportVars
             \/ RegisterTestUser \/ RegistrationRefused \/ \E k \in ClientKeys : TestUserRegistered(k)
             \/ \E w \in Wallets : ConnectWallet(w)
             \/ AskChallenge \/ CancelSupport \/ UNCHANGED <<walletVars, supportVars>>
    BY <1>1, PageStep
  <1>2. CASE Reload
    BY <1>2, ReloadStep
  <1>3. CASE \E k \in ClientKeys, a \in Artists : PrepareSupport(k, a) \/ PrepareFails(k, a)
    <2>1. PICK k \in ClientKeys, a \in Artists : PrepareSupport(k, a) \/ PrepareFails(k, a)
      BY <1>3
    <2>2. CASE PrepareFails(k, a) /\ UNCHANGED walletVars
      BY <2>2, UnpreparedStep DEF PrepareFails
    <2>3. CASE PrepareSupport(k, a) \/ (PrepareFails(k, a) /\ CreateSupportIntent(k, a))
      BY <2>3, PreparedStep DEF PrepareSupport, PrepareFails
    <2> QED BY <2>1, <2>2, <2>3 DEF PrepareFails
  <1>4. CASE \E r \in Requests :
                \/ \E c \in DOMAIN challenges : SignChallenge(r, c)
                \/ SignedIn(r) \/ Refused(r)
                \/ SignSupport(r) \/ SubmitSupport(r) \/ ReceiveSubmission(r) \/ Accepted(r)
                \/ Submitted(r) \/ Poll(r) \/ SupportFails(r)
    BY <1>4, SentStep, SignedInStep, SubmissionStep, AcceptedStep, SubmittedStep, PollStep, FailStep
  <1> QED BY <1>1, <1>2, <1>3, <1>4 DEF PlayerSupportNext

(* What the player shows as reached was reached in the account, and a loop   *)
(* of polls that no failed request cut short saw the registration active     *)
(* (signSupportIntent in App.vue), however many submissions overlap, whether *)
(* it began with the first answer or with that to a repeated submission, and *)
(* whichever answers are lost, while PollsOutlast holds of the number of     *)
(* polls, the confirmation's delay and the requests in flight at once.       *)
THEOREM PlayerIsTrue == ASSUME PollsOutlast PROVE PlayerSupportSpec => []PlayerTellsTheTruth
  <1>1. WalletInit /\ PlayerSupportInit => PlayerInv
    BY PlayerBegins
  <1>2. PlayerInv /\ [PlayerSupportNext]_<<walletVars, supportVars>> => PlayerInv'
    BY PlayerStep
  <1>3. PlayerInv => PlayerTellsTheTruth
    <2> SUFFICES ASSUME PlayerInv, NEW r \in Requests, submissions[r].pc = "ended"
                 PROVE  CommunityCapability(supportIntents[submissions[r].id].artist)
      BY DEF PlayerInv, ShownReached, PlayerTellsTheTruth, PollsSeeActivation
    <2> QED BY DEF PlayerInv, CallFits, Capable, CommunityCapability
  <1> QED BY <1>1, <1>2, <1>3, PTL DEF PlayerSupportSpec

(* Every step of the player is one of the account's own or leaves the account *)
(* as it is: what is proved of the account holds beside this client.         *)
THEOREM PlayerOwnsNothing == PlayerSupportSpec => WalletSpec
  <1>1. WalletInit /\ PlayerSupportInit => PlayerInv
    BY PlayerBegins
  <1>2. PlayerInv /\ [PlayerSupportNext]_<<walletVars, supportVars>> => PlayerInv'
    BY PlayerStep
  <1>3. PlayerInv /\ [PlayerSupportNext]_<<walletVars, supportVars>> => [WalletNext]_walletVars
    <2> SUFFICES ASSUME PlayerInv, [PlayerSupportNext]_<<walletVars, supportVars>>
                 PROVE  [WalletNext]_walletVars
      OBVIOUS
    <2>1. CASE \/ UNCHANGED <<walletVars, supportVars>> \/ RegisterTestUser \/ RegistrationRefused
               \/ (\E w \in Wallets : ConnectWallet(w)) \/ CancelSupport \/ Reload
      BY <2>1 DEF RegisterTestUser, RegistrationRefused, ConnectWallet, CancelSupport, Reload
    <2>2. CASE Tick
      BY <2>2 DEF WalletNext
    <2>3. ASSUME NEW k \in ClientKeys, TestUserRegistered(k) PROVE WalletNext
      BY <2>3 DEF TestUserRegistered, WalletNext
    <2>4. CASE AskChallenge
      <3>1. wallet \in Wallets /\ CreateChallenge(wallet, FALSE)
        BY <2>4 DEF AskChallenge, PlayerInv, PlayerTypes
      <3>2. \E w \in Wallets, invited \in BOOLEAN : CreateChallenge(w, invited)
        BY <3>1
      <3> QED BY <3>2 DEF WalletNext
    <2>5. ASSUME NEW k \in ClientKeys, NEW a \in Artists, PrepareSupport(k, a) \/ PrepareFails(k, a)
          PROVE  [WalletNext]_walletVars
      BY <2>5 DEF PrepareSupport, PrepareFails, WalletNext
    <2>6. ASSUME NEW r \in Requests, \E c \in DOMAIN challenges : SignChallenge(r, c) PROVE WalletNext
      BY <2>6 DEF SignChallenge, WalletNext
    <2>7. ASSUME NEW r \in Requests, SignedIn(r) \/ Accepted(r) \/ Refused(r) PROVE WalletNext
      BY <2>7 DEF SignedIn, Accepted, Refused, WalletNext
    <2>8. ASSUME NEW r \in Requests, SignSupport(r) \/ SubmitSupport(r) \/ Submitted(r)
          PROVE  UNCHANGED walletVars
      BY <2>8 DEF SignSupport, SubmitSupport, Submitted
    <2>9. ASSUME NEW r \in Requests, ReceiveSubmission(r) PROVE [WalletNext]_walletVars
      <3>1. PICK i : i = submissions[r].id /\ i \in DOMAIN supportIntents
        BY <2>9 DEF ReceiveSubmission, PlayerInv, PlayerTypes
      <3>2. ReceiveSupport(r, i) \/ UNCHANGED walletVars
        BY <2>9, <3>1 DEF ReceiveSubmission
      <3>3. ReceiveSupport(r, i) => WalletNext
        BY <3>1 DEF WalletNext
      <3> QED BY <3>2, <3>3
    <2>10. ASSUME NEW r \in Requests, Poll(r) \/ SupportFails(r) PROVE [WalletNext]_walletVars
      <3>1. PICK i : i = submissions[r].id
        OBVIOUS
      <3>2. SupportRegistration(i) /\ PollIsDue(r) => WalletNext
        <4>1. PollIsDue(r) => i \in DOMAIN supportIntents
          BY <3>1 DEF PollIsDue, PlayerInv, CallFits, Begun
        <4> QED BY <4>1 DEF WalletNext
      <3>3. RefuseSignature(r) => WalletNext
        BY DEF WalletNext
      <3>4. \/ SupportRegistration(i) /\ PollIsDue(r)
            \/ RefuseSignature(r) \/ UNCHANGED walletVars
        BY <2>10, <3>1 DEF Poll, Registration, SupportFails, GivenUp
      <3> QED BY <3>2, <3>3, <3>4
    <2> QED
      BY <2>1, <2>2, <2>3, <2>4, <2>5, <2>6, <2>7, <2>8, <2>9, <2>10 DEF PlayerSupportNext
  <1> QED BY <1>1, <1>2, <1>3, PTL DEF PlayerSupportSpec, WalletSpec

-----------------------------------------------------------------------------
(* The account trust page.  What it may show is what the rows and the audit *)
(* keep of every binding; nothing of it is ever taken back.                 *)
ShownOf(b) ==
    /\ rows[b].state \in audit[b]
    /\ rows[b].wallet # NoWallet => SignedFor(b, rows[b].wallet)
    /\ "ACTIVE" \in audit[b] => "WALLET_BOUND" \in audit[b] /\ \E w \in Wallets : SignedFor(b, w)
    /\ transactions[b].walletIntent # 0 => bindingIntents[transactions[b].walletIntent].binding = b
LevelsShown ==
    /\ \A b \in DOMAIN rows : ShownOf(b)
    /\ \A i \in DOMAIN bindingIntents : bindingIntents[i].used => walletAddress # NoWallet

(* Intents keep what they were made for, and bindings their audit. *)
IntentsStay ==
    \A i \in DOMAIN bindingIntents :
        /\ i \in DOMAIN bindingIntents'
        /\ bindingIntents'[i].binding = bindingIntents[i].binding
        /\ bindingIntents'[i].wallet = bindingIntents[i].wallet
        /\ bindingIntents[i].used => bindingIntents'[i].used
AuditsGrow == \A b \in DOMAIN rows : b \in DOMAIN rows' /\ audit[b] \subseteq audit'[b]

(* A step leaves a binding, but for its state, as it was. *)
Stays(b) ==
    /\ rows'[b].state \in audit'[b] /\ rows'[b].wallet = rows[b].wallet
    /\ audit[b] \subseteq audit'[b] /\ ("ACTIVE" \in audit'[b] => "ACTIVE" \in audit[b])
    /\ \/ transactions'[b].walletIntent = transactions[b].walletIntent
       \/ bindingIntents'[transactions'[b].walletIntent].binding = b

LEMMA SignedStays ==
    ASSUME IntentsStay, NEW b, NEW w, SignedFor(b, w)
    PROVE  SignedFor(b, w)'
  BY DEF IntentsStay, SignedFor

LEMMA BindingStays ==
    ASSUME AccountInv, LevelsShown, IntentsStay, NEW b \in DOMAIN rows, Stays(b)
    PROVE  ShownOf(b)'
  <1>1. PICK v : v = rows[b].wallet
    OBVIOUS
  <1>2. v # NoWallet => SignedFor(b, v)
    BY <1>1 DEF LevelsShown, ShownOf
  <1>3. v # NoWallet => SignedFor(b, v)'
    BY <1>2, SignedStays
  <1>4. rows'[b].wallet = v
    BY <1>1 DEF Stays
  <1>5. \A w \in Wallets : SignedFor(b, w) => SignedFor(b, w)'
    BY SignedStays
  <1>6. "ACTIVE" \in audit'[b] => "WALLET_BOUND" \in audit'[b] /\ \E w \in Wallets : SignedFor(b, w)'
    BY <1>5 DEF Stays, LevelsShown, ShownOf
  <1>7. transactions'[b].walletIntent # 0 =>
           bindingIntents'[transactions'[b].walletIntent].binding = b
    <2>1. transactions[b].walletIntent # 0 => transactions[b].walletIntent \in DOMAIN bindingIntents
      BY DEF AccountInv, TrustInv, Levels, TrustTypes
    <2> QED BY <2>1 DEF Stays, LevelsShown, ShownOf, IntentsStay
  <1> QED BY <1>3, <1>4, <1>6, <1>7 DEF Stays, ShownOf

(* Steps that write none of what is shown. *)
LEMMA ShownStill ==
    ASSUME AccountInv, LevelsShown, UNCHANGED <<transactions, rows, audit, bindingIntents>>,
           walletAddress' = walletAddress \/ walletAddress' # NoWallet
    PROVE  LevelsShown' /\ IntentsStay /\ AuditsGrow
  <1>1. IntentsStay /\ AuditsGrow
    BY DEF IntentsStay, AuditsGrow
  <1>2. \A b \in DOMAIN rows : Stays(b)
    BY DEF Stays, LevelsShown, ShownOf
  <1>3. \A i \in DOMAIN bindingIntents' : bindingIntents'[i].used => walletAddress' # NoWallet
    BY DEF LevelsShown
  <1>4. DOMAIN rows' = DOMAIN rows
    OBVIOUS
  <1> QED BY <1>1, <1>2, <1>3, <1>4, BindingStays DEF LevelsShown

(* Steps that write a transaction or a row and bind no wallet. *)
LEMMA ShownMoved ==
    ASSUME AccountInv, LevelsShown, UNCHANGED <<walletAddress, bindingIntents>>,
           DOMAIN rows' = DOMAIN rows, \A b \in DOMAIN rows : Stays(b)
    PROVE  LevelsShown' /\ IntentsStay /\ AuditsGrow
  <1>1. IntentsStay /\ AuditsGrow
    BY DEF IntentsStay, AuditsGrow, Stays
  <1>2. \A i \in DOMAIN bindingIntents' : bindingIntents'[i].used => walletAddress' # NoWallet
    BY DEF LevelsShown
  <1> QED BY <1>1, <1>2, BindingStays DEF LevelsShown

LEMMA ShownBegun ==
    ASSUME AccountInv, LevelsShown, BeginBinding
    PROVE  /\ LevelsShown' /\ IntentsStay /\ AuditsGrow
           /\ Len(rows') \in DOMAIN rows' /\ Len(rows') # 0 /\ audit'[Len(rows')] = {"CREATED"}
  <1>0. PICK n : n = Len(rows) + 1
    OBVIOUS
  <1>1. PICK v : v = [state |-> "CREATED", passkey |-> NoCredential, wallet |-> NoWallet,
                      expiresAt |-> now + BindingTTL]
    OBVIOUS
  <1>2. PICK t : t = [state |-> "CREATED", jpkiChallenge |-> TRUE, registrationChallenge |-> FALSE,
                      walletIntent |-> 0, expiresAt |-> now + BindingTTL]
    OBVIOUS
  <1>3. /\ transactions' = Append(transactions, t) /\ rows' = Append(rows, v)
        /\ audit' = Append(audit, {"CREATED"}) /\ UNCHANGED <<walletAddress, bindingIntents>>
    BY <1>1, <1>2 DEF BeginBinding, Inserted, walletVars
  <1>4. /\ transactions \in Seq(Transaction) /\ rows \in Seq(Row) /\ audit \in Seq(SUBSET States)
        /\ Len(transactions) = Len(rows) /\ Len(audit) = Len(rows) /\ Len(rows) \in Nat
    BY DEF AccountInv, TrustInv, TrustTypes
  <1>5. /\ DOMAIN rows' = DOMAIN rows \cup {n} /\ Len(rows') = n /\ n # 0 /\ n \notin DOMAIN rows
        /\ rows'[n] = v /\ transactions'[n] = t /\ audit'[n] = {"CREATED"}
        /\ \A b \in DOMAIN rows :
              rows'[b] = rows[b] /\ transactions'[b] = transactions[b] /\ audit'[b] = audit[b]
    BY <1>0, <1>3, <1>4
  <1>6. IntentsStay /\ AuditsGrow
    BY <1>3, <1>5 DEF IntentsStay, AuditsGrow
  <1>7. \A b \in DOMAIN rows : Stays(b)
    BY <1>5 DEF Stays, LevelsShown, ShownOf
  <1>8. /\ rows'[n].state \in audit'[n] /\ rows'[n].wallet = NoWallet /\ "ACTIVE" \notin audit'[n]
        /\ transactions'[n].walletIntent = 0
    BY <1>1, <1>2, <1>5
  <1>9. \A i \in DOMAIN bindingIntents' : bindingIntents'[i].used => walletAddress' # NoWallet
    BY <1>3 DEF LevelsShown
  <1>10. LevelsShown'
    <2>1. ShownOf(n)'
      BY <1>8 DEF ShownOf
    <2>2. \A b \in DOMAIN rows : ShownOf(b)'
      BY <1>6, <1>7, BindingStays
    <2> QED BY <1>5, <1>9, <2>1, <2>2 DEF LevelsShown
  <1> QED BY <1>5, <1>6, <1>10

LEMMA ShownAsserted ==
    ASSUME AccountInv, LevelsShown, NEW b \in DOMAIN transactions, AssertMockJpki(b)
    PROVE  LevelsShown' /\ IntentsStay /\ AuditsGrow /\ b \in DOMAIN rows /\ "JPKI_ASSERTED" \in audit'[b]
  <1>1. /\ transactions \in Seq(Transaction) /\ rows \in Seq(Row) /\ audit \in Seq(SUBSET States)
        /\ DOMAIN transactions = DOMAIN rows /\ DOMAIN audit = DOMAIN rows
    BY DEF AccountInv, TrustInv, TrustTypes
  <1>2. PICK x \in Transaction : x = transactions[b]
    BY <1>1
  <1>3. PICK y \in Row : y = rows[b]
    BY <1>1
  <1>4. /\ transactions' = [transactions EXCEPT ![b] = [x EXCEPT !.jpkiChallenge = FALSE, !.state = "JPKI_ASSERTED"]]
        /\ rows' = [rows EXCEPT ![b] = [y EXCEPT !.state = "JPKI_ASSERTED"]]
        /\ audit' = [audit EXCEPT ![b] = @ \cup {"JPKI_ASSERTED"}]
        /\ UNCHANGED <<walletAddress, bindingIntents>>
    BY <1>1, <1>2, <1>3 DEF AssertMockJpki, Updated, Audited, walletVars
  <1>5. /\ [x EXCEPT !.jpkiChallenge = FALSE, !.state = "JPKI_ASSERTED"].walletIntent = x.walletIntent
        /\ [y EXCEPT !.state = "JPKI_ASSERTED"].state = "JPKI_ASSERTED"
        /\ [y EXCEPT !.state = "JPKI_ASSERTED"].wallet = y.wallet
    BY DEF Transaction, Row
  <1>6. /\ \A c \in DOMAIN rows : c # b =>
              transactions'[c] = transactions[c] /\ rows'[c] = rows[c] /\ audit'[c] = audit[c]
        /\ transactions'[b].walletIntent = x.walletIntent /\ rows'[b].state = "JPKI_ASSERTED"
        /\ rows'[b].wallet = y.wallet /\ audit'[b] = audit[b] \cup {"JPKI_ASSERTED"}
        /\ DOMAIN rows' = DOMAIN rows
    BY <1>1, <1>4, <1>5
  <1>7. \A c \in DOMAIN rows : Stays(c)
    BY <1>2, <1>3, <1>6 DEF Stays, LevelsShown, ShownOf
  <1> QED BY <1>1, <1>4, <1>6, <1>7, ShownMoved

LEMMA ShownNoted ==
    ASSUME AccountInv, LevelsShown, NEW r \in Requests, RegistrationOptionsMade(r)
    PROVE  LevelsShown' /\ IntentsStay /\ AuditsGrow
  <1>1. PICK b : b = requests[r].id
    OBVIOUS
  <1>2. /\ transactions \in Seq(Transaction) /\ DOMAIN transactions = DOMAIN rows /\ b \in DOMAIN rows
    BY <1>1 DEF AccountInv, TrustInv, TrustTypes, RequestInv, Held, RegistrationOptionsMade, Awaiting
  <1>3. PICK x \in Transaction : x = transactions[b]
    BY <1>2
  <1>4. transactions' = [transactions EXCEPT ![b] = [x EXCEPT !.registrationChallenge = TRUE]]
    BY <1>1, <1>2, <1>3 DEF RegistrationOptionsMade
  <1>5. [x EXCEPT !.registrationChallenge = TRUE].walletIntent = x.walletIntent
    BY DEF Transaction
  <1>6. \A c \in DOMAIN rows : transactions'[c].walletIntent = transactions[c].walletIntent
    BY <1>2, <1>3, <1>4, <1>5
  <1>7. UNCHANGED <<rows, audit, bindingIntents, walletAddress>>
    BY DEF RegistrationOptionsMade, unchangedButRequests
  <1>8. \A c \in DOMAIN rows : Stays(c)
    BY <1>6, <1>7 DEF Stays, LevelsShown, ShownOf
  <1> QED BY <1>7, <1>8, ShownMoved

LEMMA ShownRegistered ==
    ASSUME AccountInv, LevelsShown, NEW r \in Requests, NEW k \in Credentials, RegistrationVerified(r, k)
    PROVE  /\ LevelsShown' /\ IntentsStay /\ AuditsGrow
           /\ requests[r].id \in DOMAIN rows /\ "PASSKEY_REGISTERED" \in audit'[requests[r].id]
  <1>1. PICK b : b = requests[r].id
    OBVIOUS
  <1>2. /\ transactions \in Seq(Transaction) /\ rows \in Seq(Row) /\ audit \in Seq(SUBSET States)
        /\ DOMAIN transactions = DOMAIN rows /\ DOMAIN audit = DOMAIN rows /\ b \in DOMAIN rows
    BY <1>1 DEF AccountInv, TrustInv, TrustTypes, RequestInv, Held, RegistrationVerified, Awaiting
  <1>3. PICK x \in Transaction : x = transactions[b]
    BY <1>2
  <1>4. PICK y \in Row : y = rows[b]
    BY <1>2
  <1>5. /\ transactions' = [transactions EXCEPT ![b] =
              [x EXCEPT !.registrationChallenge = FALSE, !.state = "PASSKEY_REGISTERED"]]
        /\ rows' = [rows EXCEPT ![b] = [y EXCEPT !.state = "PASSKEY_REGISTERED", !.passkey = k]]
        /\ audit' = [audit EXCEPT ![b] = @ \cup {"PASSKEY_REGISTERED"}]
        /\ UNCHANGED <<walletAddress, bindingIntents>>
    BY <1>1, <1>2, <1>3, <1>4 DEF RegistrationVerified, Updated, Audited, unchangedButRequests
  <1>6. /\ [x EXCEPT !.registrationChallenge = FALSE, !.state = "PASSKEY_REGISTERED"].walletIntent = x.walletIntent
        /\ [y EXCEPT !.state = "PASSKEY_REGISTERED", !.passkey = k].state = "PASSKEY_REGISTERED"
        /\ [y EXCEPT !.state = "PASSKEY_REGISTERED", !.passkey = k].wallet = y.wallet
    BY DEF Transaction, Row
  <1>7. /\ \A c \in DOMAIN rows : c # b =>
              transactions'[c] = transactions[c] /\ rows'[c] = rows[c] /\ audit'[c] = audit[c]
        /\ transactions'[b].walletIntent = x.walletIntent /\ rows'[b].state = "PASSKEY_REGISTERED"
        /\ rows'[b].wallet = y.wallet /\ audit'[b] = audit[b] \cup {"PASSKEY_REGISTERED"}
        /\ DOMAIN rows' = DOMAIN rows
    BY <1>2, <1>5, <1>6
  <1>8. \A c \in DOMAIN rows : Stays(c)
    BY <1>3, <1>4, <1>7 DEF Stays, LevelsShown, ShownOf
  <1> QED BY <1>1, <1>2, <1>5, <1>7, <1>8, ShownMoved

LEMMA ShownOffered ==
    ASSUME AccountInv, LevelsShown, NEW b \in DOMAIN transactions, NEW w \in Wallets, WalletOptions(b, w)
    PROVE  LevelsShown' /\ IntentsStay /\ AuditsGrow
  <1>0. PICK n : n = Len(bindingIntents) + 1
    OBVIOUS
  <1>1. /\ transactions \in Seq(Transaction) /\ DOMAIN transactions = DOMAIN rows
        /\ bindingIntents \in Seq(BindingIntent)
    BY DEF AccountInv, TrustInv, TrustTypes
  <1>2. PICK x \in Transaction : x = transactions[b]
    BY <1>1
  <1>3. PICK j : j = [binding |-> b, wallet |-> w, deadline |-> now + SignTTL, used |-> FALSE]
    OBVIOUS
  <1>4. /\ bindingIntents' = Append(bindingIntents, j) /\ UNCHANGED <<rows, audit, walletAddress>>
        /\ transactions' = [transactions EXCEPT ![b] = [x EXCEPT !.walletIntent = n]]
    BY <1>0, <1>1, <1>2, <1>3 DEF WalletOptions, walletVars
  <1>5. /\ DOMAIN bindingIntents' = DOMAIN bindingIntents \cup {n} /\ bindingIntents'[n] = j
        /\ \A i \in DOMAIN bindingIntents : bindingIntents'[i] = bindingIntents[i]
    BY <1>0, <1>1, <1>4
  <1>6. [x EXCEPT !.walletIntent = n].walletIntent = n
    BY DEF Transaction
  <1>7. /\ \A c \in DOMAIN rows : c # b => transactions'[c] = transactions[c]
        /\ transactions'[b].walletIntent = n
    BY <1>1, <1>4, <1>6
  <1>8. IntentsStay /\ AuditsGrow
    BY <1>4, <1>5 DEF IntentsStay, AuditsGrow
  <1>9. \A c \in DOMAIN rows : Stays(c)
    <2>1. bindingIntents'[n].binding = b
      BY <1>3, <1>5
    <2> QED BY <1>4, <1>7, <2>1 DEF Stays, LevelsShown, ShownOf
  <1>10. \A i \in DOMAIN bindingIntents' : bindingIntents'[i].used => walletAddress' # NoWallet
    BY <1>3, <1>4, <1>5 DEF LevelsShown
  <1>11. DOMAIN rows' = DOMAIN rows /\ \A c \in DOMAIN rows : ShownOf(c)'
    BY <1>4, <1>8, <1>9, BindingStays
  <1> QED BY <1>8, <1>10, <1>11 DEF LevelsShown

LEMMA ShownBound ==
    ASSUME AccountInv, LevelsShown, NEW r \in Requests, WalletVerified(r),
           NEW b, b = bindingIntents[requests[r].id].binding
    PROVE  /\ LevelsShown' /\ IntentsStay /\ AuditsGrow /\ b \in DOMAIN rows
           /\ IndexAllows(b, "ACTIVE") => "ACTIVE" \in audit'[b]
  <1>1. PICK i : i = requests[r].id
    OBVIOUS
  <1>2. /\ i \in DOMAIN bindingIntents /\ bindingIntents \in Seq(BindingIntent) /\ b \in DOMAIN rows
        /\ transactions \in Seq(Transaction) /\ rows \in Seq(Row) /\ audit \in Seq(SUBSET States)
        /\ DOMAIN transactions = DOMAIN rows /\ DOMAIN audit = DOMAIN rows
    BY <1>1 DEF WalletVerified, Awaiting, AccountInv, RequestInv, Held, TrustInv, TrustTypes, Levels
  <1>3. PICK reached : reached = IF IndexAllows(b, "ACTIVE") THEN "ACTIVE" ELSE "WALLET_BOUND"
    OBVIOUS
  <1>4. PICK p \in BindingIntent : p = bindingIntents[i]
    BY <1>2
  <1>5. PICK w \in Wallets : w = bindingIntents[i].wallet
    BY <1>4 DEF BindingIntent
  <1>6. PICK x \in Transaction : x = transactions[b]
    BY <1>2
  <1>7. PICK y \in Row : y = rows[b]
    BY <1>2
  <1>8. /\ bindingIntents' = [bindingIntents EXCEPT ![i] = [p EXCEPT !.used = TRUE]] /\ walletAddress' = w
        /\ transactions' = [transactions EXCEPT ![b] = [x EXCEPT !.state = "ACTIVE"]]
        /\ rows' = [rows EXCEPT ![b] = [y EXCEPT !.state = reached, !.wallet = w]]
        /\ audit' = [audit EXCEPT ![b] = @ \cup {"WALLET_BOUND", reached}]
    BY <1>1, <1>2, <1>3, <1>4, <1>5, <1>6, <1>7 DEF WalletVerified, Updated, Audited
  <1>9. /\ [p EXCEPT !.used = TRUE].used /\ [p EXCEPT !.used = TRUE].binding = p.binding
        /\ [p EXCEPT !.used = TRUE].wallet = p.wallet
        /\ [x EXCEPT !.state = "ACTIVE"].walletIntent = x.walletIntent
        /\ [y EXCEPT !.state = reached, !.wallet = w].state = reached
        /\ [y EXCEPT !.state = reached, !.wallet = w].wallet = w
    BY DEF BindingIntent, Transaction, Row
  <1>10. /\ DOMAIN bindingIntents' = DOMAIN bindingIntents /\ bindingIntents'[i].used
         /\ bindingIntents'[i].binding = b /\ bindingIntents'[i].wallet = w
         /\ \A j \in DOMAIN bindingIntents : j # i => bindingIntents'[j] = bindingIntents[j]
    BY <1>1, <1>2, <1>4, <1>5, <1>8, <1>9
  <1>11. /\ \A c \in DOMAIN rows : c # b =>
               transactions'[c] = transactions[c] /\ rows'[c] = rows[c] /\ audit'[c] = audit[c]
         /\ transactions'[b].walletIntent = x.walletIntent /\ rows'[b].state = reached
         /\ rows'[b].wallet = w /\ audit'[b] = audit[b] \cup {"WALLET_BOUND", reached}
         /\ DOMAIN rows' = DOMAIN rows
    BY <1>2, <1>8, <1>9
  <1>12. IntentsStay /\ AuditsGrow
    BY <1>1, <1>4, <1>5, <1>10, <1>11 DEF IntentsStay, AuditsGrow
  <1>13. ASSUME NEW c \in DOMAIN rows, c # b PROVE ShownOf(c)'
    <2>1. Stays(c)
      BY <1>11, <1>13 DEF Stays, LevelsShown, ShownOf
    <2> QED BY <1>12, <2>1, BindingStays
  <1>14. ShownOf(b)'
    <2>1. SignedFor(b, w)'
      BY <1>2, <1>10 DEF SignedFor
    <2>2. transactions[b].walletIntent # 0 =>
             bindingIntents'[transactions[b].walletIntent].binding = b
      <3>1. transactions[b].walletIntent # 0 => transactions[b].walletIntent \in DOMAIN bindingIntents
        BY <1>2 DEF AccountInv, TrustInv, Levels, TrustTypes
      <3> QED BY <1>2, <1>12, <3>1 DEF LevelsShown, ShownOf, IntentsStay
    <2>3. "WALLET_BOUND" \in audit'[b] /\ rows'[b].state \in audit'[b] /\ rows'[b].wallet = w
      BY <1>11
    <2>4. transactions'[b].walletIntent = transactions[b].walletIntent
      BY <1>6, <1>11
    <2> QED BY <2>1, <2>2, <2>3, <2>4 DEF ShownOf
  <1>15. \A j \in DOMAIN bindingIntents' : bindingIntents'[j].used => walletAddress' # NoWallet
    BY <1>5, <1>8, WalletAssumption
  <1>16. LevelsShown'
    BY <1>11, <1>13, <1>14, <1>15 DEF LevelsShown
  <1> QED BY <1>2, <1>3, <1>11, <1>12, <1>16

LEMMA ShownStep ==
    ASSUME AccountInv, LevelsShown, [Next]_vars
    PROVE  LevelsShown' /\ IntentsStay /\ AuditsGrow
  <1>1. CASE UNCHANGED vars
    BY <1>1, ShownStill DEF vars, walletVars, trustVars
  <1>2. CASE WalletNext /\ UNCHANGED trustVars
    <2>1. walletAddress' = walletAddress \/ walletAddress' # NoWallet
      <3>1. ASSUME NEW r \in Requests, ChallengeVerified(r) PROVE walletAddress' # NoWallet
        <4>1. PICK c : c = requests[r].id
          OBVIOUS
        <4>2. c \in DOMAIN challenges
          BY <3>1, <4>1 DEF ChallengeVerified, Awaiting, AccountInv, RequestInv, Held
        <4>3. PICK x \in Challenge : x = challenges[c]
          BY <4>2 DEF AccountInv, SessionInv, WalletTypes
        <4> QED BY <3>1, <4>1, <4>3, WalletAssumption DEF ChallengeVerified, Challenge
      <3>2. ASSUME NEW r \in Requests,
                   \/ RefuseSignature(r) \/ SupportVerified(r)
                   \/ \E c \in DOMAIN challenges : ReceiveChallenge(r, c)
                   \/ \E i \in DOMAIN supportIntents : ReceiveSupport(r, i)
            PROVE  walletAddress' = walletAddress
        BY <3>2 DEF RefuseSignature, SupportVerified, ReceiveChallenge, ReceiveSupport
      <3>3. ASSUME \/ Tick
                   \/ \E k \in ClientKeys : RegisterDemoUser(k) \/ \E a \in Artists : CreateSupportIntent(k, a)
                   \/ \E w \in Wallets, invited \in BOOLEAN : CreateChallenge(w, invited)
                   \/ \E i \in DOMAIN supportIntents : SupportRegistration(i)
            PROVE  walletAddress' = walletAddress
        BY <3>3 DEF Tick, RegisterDemoUser, CreateSupportIntent, CreateChallenge, SupportRegistration
      <3> QED BY <1>2, <3>1, <3>2, <3>3 DEF WalletNext
    <2> QED BY <1>2, <2>1, ShownStill DEF trustVars
  <1>3. CASE TrustNext
    <2>1. ASSUME NEW b \in DOMAIN transactions, AssertMockJpki(b) \/ \E w \in Wallets : WalletOptions(b, w)
          PROVE  LevelsShown' /\ IntentsStay /\ AuditsGrow
      BY <2>1, ShownAsserted, ShownOffered
    <2>2. ASSUME NEW r \in Requests,
                 RegistrationOptionsMade(r) \/ WalletVerified(r) \/ \E k \in Credentials : RegistrationVerified(r, k)
          PROVE  LevelsShown' /\ IntentsStay /\ AuditsGrow
      BY <2>2, ShownNoted, ShownBound, ShownRegistered
    <2>3. ASSUME NEW r \in Requests,
                 \/ AuthenticationOptionsMade(r) \/ AuthenticationOptions(r)
                 \/ \E n \in 0..MaxCounter : AuthenticationVerified(r, n)
                 \/ \E k \in Credentials : ReceiveAuthentication(r, k)
                 \/ \E b \in DOMAIN transactions :
                      RegistrationOptions(r, b) \/ ReceiveRegistration(r, b) \/ ReceiveWallet(r, b)
          PROVE  LevelsShown' /\ IntentsStay /\ AuditsGrow
      <3>1. UNCHANGED <<transactions, rows, audit, bindingIntents, walletAddress>>
        BY <2>3 DEF AuthenticationOptionsMade, AuthenticationOptions, AuthenticationVerified,
           ReceiveAuthentication, RegistrationOptions, ReceiveRegistration, ReceiveWallet,
           unchangedButRequests, trustVars
      <3> QED BY <3>1, ShownStill
    <2> QED BY <1>3, <2>1, <2>2, <2>3, ShownBegun DEF TrustNext
  <1> QED BY <1>1, <1>2, <1>3 DEF Next

(* The page's own state. *)
Shows(v) ==
    \/ v.id = 0 /\ v.state = "none"
    \/ v.id \in DOMAIN rows /\ v.state \in audit[v.id]
PageShows ==
    /\ transaction \in [id : Nat, state : States \cup {"none"}]
    /\ Shows(transaction) /\ Shows(seen)
    /\ seen.wallet # NoWallet => SignedFor(seen.id, seen.wallet)

(* The request a page awaits is for the binding it began. *)
Ceremony == {"options", "passkey", "sign", "wallet"}
PendingIs ==
    /\ pending \subseteq Requests /\ (busy \in Ceremony => transaction.id # 0)
    /\ \A r \in pending :
        /\ busy \in {"options", "passkey"} => requests[r].id = transaction.id
        /\ busy = "wallet" => bindingIntents[requests[r].id].binding = transaction.id
                              /\ requests[r].id \in DOMAIN bindingIntents

TrustPageInv == AccountInv /\ LevelsShown /\ PageShows /\ PendingIs

LEMMA TrustPageBegins == Init /\ TrustPageInit => TrustPageInv
  <1> SUFFICES ASSUME Init, TrustPageInit PROVE TrustPageInv
    OBVIOUS
  <1>1. LevelsShown
    BY DEF Init, LevelsShown
  <1>2. PageShows
    BY DEF TrustPageInit, PageShows, NoTransaction, NotSeen, Shows
  <1>3. PendingIs
    BY DEF TrustPageInit, PendingIs, Ceremony
  <1> QED BY <1>1, <1>2, <1>3, InitInv DEF TrustPageInv

(* The page and the other tabs take only steps of the account. *)
LEMMA TrustPageMoves == ASSUME TrustPageInv, TrustPageNext PROVE [Next]_vars
  <1>1. transaction.id # 0 => transaction.id \in DOMAIN transactions
    BY DEF TrustPageInv, PageShows, Shows, AccountInv, TrustInv, TrustTypes
  <1>2. busy \in Ceremony => transaction.id # 0
    BY DEF TrustPageInv, PendingIs
  <1>3. ASSUME GiveUp \/ RefreshStatus \/ BeginHere \/ TrustReload PROVE UNCHANGED vars
    <2>1. (GiveUp => UNCHANGED vars) /\ (RefreshStatus => UNCHANGED vars)
      BY DEF GiveUp, RefreshStatus
    <2>2. (BeginHere => UNCHANGED vars) /\ (TrustReload => UNCHANGED vars)
      BY DEF BeginHere, TrustReload
    <2> QED BY <1>3, <2>1, <2>2
  <1>4. BegunHere \/ BeginBinding => Next
    <2>1. BegunHere => BeginBinding
      BY DEF BegunHere
    <2> QED BY <2>1 DEF Next, TrustNext
  <1>5. ASSUME NEW k \in ClientKeys, EnsureGatewayUser(k) PROVE [Next]_vars
    <2>1. UNCHANGED trustVars /\ (RegisterDemoUser(k) \/ UNCHANGED walletVars)
      BY <1>5 DEF EnsureGatewayUser
    <2> QED BY <2>1 DEF Next, WalletNext, vars
  <1>6. ASSUME NEW b \in DOMAIN transactions,
               \/ AssertMockJpki(b) \/ \E w \in Wallets : WalletOptions(b, w)
               \/ \E r \in Requests : RegistrationOptions(r, b) \/ ReceiveRegistration(r, b) \/ ReceiveWallet(r, b)
        PROVE  Next
    BY <1>6 DEF Next, TrustNext
  <1>7. ASSUME NEW r \in Requests,
               \/ RegistrationOptionsMade(r) \/ AuthenticationOptionsMade(r) \/ WalletVerified(r)
               \/ AuthenticationOptions(r)
               \/ \E k \in Credentials : RegistrationVerified(r, k) \/ ReceiveAuthentication(r, k)
               \/ \E n \in 0..MaxCounter : AuthenticationVerified(r, n)
               \/ RefuseSignature(r) /\ UNCHANGED trustVars
        PROVE  Next
    BY <1>7 DEF Next, TrustNext, WalletNext
  <1>8. ASSUME AssertHere \/ \E w \in Wallets : BindWallet(w) PROVE Next
    <2>1. AssertHere => transaction.id # 0 /\ AssertMockJpki(transaction.id)
      BY DEF AssertHere, Button
    <2>2. \A w \in Wallets : BindWallet(w) => transaction.id # 0 /\ WalletOptions(transaction.id, w)
      BY DEF BindWallet, Button
    <2> QED BY <1>1, <1>6, <1>8, <2>1, <2>2
  <1>9. ASSUME NEW r \in Requests, TrustPageStep(r) PROVE Next
    <2>1. RegisterPasskey(r) => transaction.id # 0 /\ RegistrationOptions(r, transaction.id)
      BY DEF RegisterPasskey, Button
    <2>2. SendRegistration(r) => transaction.id # 0 /\ ReceiveRegistration(r, transaction.id)
      BY <1>2 DEF SendRegistration, Ceremony
    <2>3. SendSignature(r) => transaction.id # 0 /\ ReceiveWallet(r, transaction.id)
      BY <1>2 DEF SendSignature, Ceremony
    <2>4. RegisterPasskey(r) \/ SendRegistration(r) \/ SendSignature(r) => Next
      BY <1>1, <1>6, <2>1, <2>2, <2>3
    <2>5. /\ VerificationRefused(r) => RefuseSignature(r) /\ UNCHANGED trustVars
          /\ StartRegistration(r) => RegistrationOptionsMade(r)
          /\ WalletBound(r) => WalletVerified(r)
      BY DEF VerificationRefused, StartRegistration, WalletBound
    <2>6. /\ AuthenticatePasskey(r) => AuthenticationOptions(r)
          /\ StartAuthentication(r) => AuthenticationOptionsMade(r)
          /\ \A n \in 0..MaxCounter : Authenticated(r, n) => AuthenticationVerified(r, n)
      BY DEF AuthenticatePasskey, StartAuthentication, Authenticated
    <2>7. \A k \in Credentials : /\ PasskeyRegistered(r, k) => RegistrationVerified(r, k)
                                 /\ SendAuthentication(r, k) => ReceiveAuthentication(r, k)
      BY DEF PasskeyRegistered, SendAuthentication
    <2> QED BY <1>7, <1>9, <2>4, <2>5, <2>6, <2>7 DEF TrustPageStep
  <1>10. CASE TrustPageSteps
    BY <1>3, <1>4, <1>5, <1>8, <1>9, <1>10 DEF TrustPageSteps
  <1>11. CASE OtherClients
    <2>1. ASSUME (Tick \/ \E k \in ClientKeys : RegisterDemoUser(k)) /\ UNCHANGED trustVars PROVE Next
      BY <2>1 DEF Next, WalletNext
    <2>2. ASSUME NEW r \in Requests \ pending,
                 \/ OtherAnswer(r) \/ AuthenticationOptions(r)
                 \/ \E k \in Credentials : ReceiveAuthentication(r, k)
          PROVE  Next
      BY <1>7, <2>2 DEF OtherAnswer
    <2>3. ASSUME NEW r \in Requests \ pending, NEW b \in DOMAIN transactions, OtherClient(b, r) PROVE Next
      BY <1>6, <2>3 DEF OtherClient
    <2> QED BY <1>4, <1>11, <2>1, <2>2, <2>3 DEF OtherClients
  <1> QED BY <1>10, <1>11 DEF TrustPageNext

LEMMA ShowsStay == ASSUME AuditsGrow, NEW v, Shows(v) PROVE Shows(v)'
  BY DEF AuditsGrow, Shows

LEMMA SeenStays ==
    ASSUME PageShows, AuditsGrow, IntentsStay, UNCHANGED seen
    PROVE  /\ Shows(seen)'
           /\ seen'.wallet # NoWallet => SignedFor(seen.id, seen.wallet)'
  <1>1. PICK v : v = seen
    OBVIOUS
  <1>2. Shows(v) /\ (v.wallet # NoWallet => SignedFor(v.id, v.wallet))
    BY <1>1 DEF PageShows
  <1>3. Shows(v)' /\ (v.wallet # NoWallet => SignedFor(v.id, v.wallet)')
    BY <1>2, ShowsStay, SignedStays
  <1> QED BY <1>1, <1>3 DEF Shows, SignedFor

LEMMA TransactionStays ==
    ASSUME PageShows, AuditsGrow, UNCHANGED transaction
    PROVE  /\ transaction' \in [id : Nat, state : States \cup {"none"}] /\ Shows(transaction)'
  <1>1. PICK v : v = transaction
    OBVIOUS
  <1>2. Shows(v)'
    BY <1>1, ShowsStay DEF PageShows
  <1> QED BY <1>1, <1>2 DEF PageShows, Shows

(* The answers that set the state shown. *)
LEMMA BecomesReached ==
    ASSUME TrustPageInv, NEW s \in States, Becomes(s), AuditsGrow,
           transaction.id \in DOMAIN rows, s \in audit'[transaction.id]
    PROVE  /\ transaction' \in [id : Nat, state : States \cup {"none"}] /\ Shows(transaction)'
           /\ transaction'.id = transaction.id
  <1>1. transaction \in [id : Nat, state : States \cup {"none"}]
    BY DEF TrustPageInv, PageShows
  <1>2. transaction'.id = transaction.id /\ transaction'.state = s
    BY <1>1 DEF Becomes
  <1>3. transaction' \in [id : Nat, state : States \cup {"none"}]
    BY <1>1 DEF Becomes
  <1>4. transaction.id \in DOMAIN rows'
    BY DEF AuditsGrow
  <1> QED BY <1>2, <1>3, <1>4 DEF Shows

(* What the page shows stays true. *)
LEMMA PageShowsOn ==
    ASSUME PageShows, AuditsGrow, IntentsStay, UNCHANGED seen,
           transaction' \in [id : Nat, state : States \cup {"none"}], Shows(transaction)'
    PROVE  PageShows'
  BY SeenStays DEF PageShows

LEMMA PageShowsStill ==
    ASSUME PageShows, AuditsGrow, IntentsStay, UNCHANGED <<transaction, seen>>
    PROVE  PageShows'
  BY TransactionStays, PageShowsOn

LEMMA BegunShows == ASSUME TrustPageInv, BegunHere, AuditsGrow, IntentsStay PROVE PageShows'
  <1>1. PageShows /\ AccountInv /\ LevelsShown
    BY DEF TrustPageInv
  <1>2. BeginBinding /\ UNCHANGED seen
    BY DEF BegunHere
  <1>3. PICK n : n = Len(rows')
    OBVIOUS
  <1>4. n \in DOMAIN rows' /\ n # 0 /\ audit'[n] = {"CREATED"}
    BY <1>1, <1>2, <1>3, ShownBegun
  <1>5. n \in Nat
    <2>1. rows \in Seq(Row) /\ Len(rows') = Len(rows) + 1
      BY <1>1, <1>2 DEF AccountInv, TrustInv, TrustTypes, BeginBinding, Inserted
    <2> QED BY <1>3, <2>1
  <1>6. CASE UNCHANGED transaction
    BY <1>1, <1>2, <1>6, PageShowsStill
  <1>7. CASE transaction' = [id |-> n, state |-> "CREATED"]
    <2>1. transaction'.id = n /\ transaction'.state = "CREATED"
      BY <1>7
    <2>2. transaction' \in [id : Nat, state : States \cup {"none"}]
      BY <1>5, <1>7 DEF States
    <2>3. Shows(transaction)'
      BY <1>4, <2>1 DEF Shows
    <2> QED BY <1>1, <1>2, <2>2, <2>3, PageShowsOn
  <1> QED BY <1>3, <1>6, <1>7 DEF BegunHere

LEMMA AssertedShows == ASSUME TrustPageInv, AssertHere, AuditsGrow, IntentsStay PROVE PageShows'
  <1>1. PageShows /\ AccountInv /\ LevelsShown
    BY DEF TrustPageInv
  <1>2. CASE UNCHANGED transaction
    BY <1>1, <1>2, PageShowsStill DEF AssertHere
  <1>3. CASE Becomes("JPKI_ASSERTED")
    <2>1. transaction.id \in DOMAIN transactions
      BY <1>1 DEF AssertHere, Button, PageShows, Shows, AccountInv, TrustInv, TrustTypes
    <2>2. transaction.id \in DOMAIN rows /\ "JPKI_ASSERTED" \in audit'[transaction.id]
      BY <1>1, <2>1, ShownAsserted DEF AssertHere
    <2>3. "JPKI_ASSERTED" \in States
      BY DEF States
    <2> QED BY <1>1, <1>3, <2>2, <2>3, BecomesReached, PageShowsOn DEF AssertHere
  <1> QED BY <1>2, <1>3 DEF AssertHere

LEMMA RegisteredShows ==
    ASSUME TrustPageInv, NEW r \in Requests, NEW k \in Credentials, PasskeyRegistered(r, k),
           AuditsGrow, IntentsStay
    PROVE  PageShows'
  <1>1. PageShows /\ AccountInv /\ LevelsShown
    BY DEF TrustPageInv
  <1>2. RegistrationVerified(r, k) /\ Becomes("PASSKEY_REGISTERED") /\ UNCHANGED seen
    BY DEF PasskeyRegistered
  <1>3. requests[r].id = transaction.id
    BY DEF PasskeyRegistered, Ends, TrustPageInv, PendingIs
  <1>4. transaction.id \in DOMAIN rows /\ "PASSKEY_REGISTERED" \in audit'[transaction.id]
    BY <1>1, <1>2, <1>3, ShownRegistered
  <1>5. "PASSKEY_REGISTERED" \in States
    BY DEF States
  <1> QED BY <1>1, <1>2, <1>4, <1>5, BecomesReached, PageShowsOn

LEMMA BoundShows ==
    ASSUME TrustPageInv, NEW r \in Requests, WalletBound(r), AuditsGrow, IntentsStay
    PROVE  PageShows'
  <1>1. PageShows /\ AccountInv /\ LevelsShown
    BY DEF TrustPageInv
  <1>2. WalletVerified(r) /\ UNCHANGED seen
    BY DEF WalletBound
  <1>3. CASE Succeeds(transaction.id)
    <2>1. Becomes("ACTIVE") /\ Reads("wallet", r)
      BY <1>3 DEF WalletBound
    <2>2. bindingIntents[requests[r].id].binding = transaction.id
      BY <2>1 DEF Reads, TrustPageInv, PendingIs
    <2>3. transaction.id \in DOMAIN rows /\ "ACTIVE" \in audit'[transaction.id]
      BY <1>1, <1>2, <1>3, <2>2, ShownBound DEF Succeeds
    <2>4. "ACTIVE" \in States
      BY DEF States
    <2> QED BY <1>1, <1>2, <2>1, <2>3, <2>4, BecomesReached, PageShowsOn
  <1>4. CASE ~Succeeds(transaction.id)
    BY <1>1, <1>2, <1>4, PageShowsStill DEF WalletBound
  <1> QED BY <1>3, <1>4

LEMMA ReadShows == ASSUME TrustPageInv, RefreshStatus PROVE PageShows'
  <1>1. PageShows /\ AccountInv /\ LevelsShown
    BY DEF TrustPageInv
  <1>2. UNCHANGED vars /\ seen' = TrustStatus /\ UNCHANGED transaction
    BY DEF RefreshStatus
  <1>3. UNCHANGED <<rows, audit, bindingIntents>>
    BY <1>2 DEF vars, trustVars
  <1>4. AuditsGrow
    BY <1>3 DEF AuditsGrow
  <1>5. CASE rows = <<>>
    <2>1. seen'.id = 0 /\ seen'.state = "none" /\ seen'.wallet = NoWallet
      BY <1>2, <1>5 DEF TrustStatus, NotSeen
    <2> QED BY <1>1, <1>2, <1>4, <2>1, TransactionStays DEF PageShows, Shows
  <1>6. CASE rows # <<>>
    <2>1. PICK n : n = Len(rows)
      OBVIOUS
    <2>2. n \in DOMAIN rows /\ Last(rows) = rows[n]
      BY <1>1, <1>6, <2>1 DEF AccountInv, TrustInv, TrustTypes, Last
    <2>3. seen'.id = n /\ seen'.state = rows[n].state /\ seen'.wallet = rows[n].wallet
      BY <1>2, <1>6, <2>1, <2>2 DEF TrustStatus
    <2>4. ShownOf(n)
      BY <1>1, <2>2 DEF LevelsShown
    <2>5. Shows(seen)'
      BY <1>3, <2>2, <2>3, <2>4 DEF ShownOf, Shows
    <2>6. seen'.wallet # NoWallet => SignedFor(seen.id, seen.wallet)'
      BY <1>3, <2>3, <2>4 DEF ShownOf, SignedFor
    <2> QED BY <1>1, <1>2, <1>4, <2>5, <2>6, TransactionStays DEF PageShows
  <1> QED BY <1>5, <1>6

LEMMA PageShowsNext ==
    ASSUME TrustPageInv, TrustPageNext, AuditsGrow, IntentsStay PROVE PageShows'
  <1>0. PageShows
    BY DEF TrustPageInv
  <1>1. ASSUME UNCHANGED <<transaction, seen>> PROVE PageShows'
    BY <1>0, <1>1, PageShowsStill
  <1>2. CASE TrustReload
    <2>1. /\ transaction' = NoTransaction /\ seen' = NotSeen
      BY <1>2 DEF TrustReload
    <2>2. /\ transaction'.id = 0 /\ transaction'.state = "none"
          /\ transaction' \in [id : Nat, state : States \cup {"none"}]
          /\ seen'.id = 0 /\ seen'.state = "none" /\ seen'.wallet = NoWallet
      BY <2>1 DEF NoTransaction, NotSeen
    <2> QED BY <2>2 DEF PageShows, Shows
  <1>3. ASSUME NEW r \in Requests, TrustPageStep(r) PROVE PageShows'
    <2>1. CASE \/ VerificationRefused(r) \/ RegisterPasskey(r) \/ StartRegistration(r)
               \/ SendRegistration(r) \/ SendSignature(r) \/ AuthenticatePasskey(r)
               \/ StartAuthentication(r) \/ \E k \in Credentials : SendAuthentication(r, k)
               \/ \E n \in 0..MaxCounter : Authenticated(r, n)
      <3>1. UNCHANGED <<transaction, seen>>
        BY <2>1 DEF VerificationRefused, RegisterPasskey, StartRegistration, SendRegistration,
           SendSignature, AuthenticatePasskey, StartAuthentication, SendAuthentication, Authenticated
      <3> QED BY <1>1, <3>1
    <2>2. CASE \E k \in Credentials : PasskeyRegistered(r, k)
      BY <2>2, RegisteredShows
    <2>3. CASE WalletBound(r)
      BY <2>3, BoundShows
    <2> QED BY <1>3, <2>1, <2>2, <2>3 DEF TrustPageStep
  <1>4. CASE \/ GiveUp \/ BeginHere \/ (\E k \in ClientKeys : EnsureGatewayUser(k))
             \/ \E w \in Wallets : BindWallet(w)
    <2>1. UNCHANGED <<transaction, seen>>
      BY <1>4 DEF GiveUp, BeginHere, EnsureGatewayUser, BindWallet
    <2> QED BY <1>1, <2>1
  <1>5. CASE TrustPageSteps
    BY <1>2, <1>3, <1>4, <1>5, BegunShows, AssertedShows, ReadShows DEF TrustPageSteps
  <1>6. CASE OtherClients /\ UNCHANGED pageVars
    BY <1>1, <1>6 DEF pageVars
  <1> QED BY <1>5, <1>6 DEF TrustPageNext

(* The request awaited stays the one that was sent. *)
LEMMA NothingAwaited ==
    ASSUME busy' \notin Ceremony, pending' \subseteq Requests PROVE PendingIs'
  BY DEF PendingIs, Ceremony

LEMMA NoneAwaited ==
    ASSUME TrustPageInv, pending' = {}, UNCHANGED transaction, busy' = busy \/ transaction.id # 0
    PROVE  PendingIs'
  BY DEF TrustPageInv, PendingIs

LEMMA OneAwaited ==
    ASSUME AccountInv, NEW r \in Requests, pending' = {r}, UNCHANGED transaction,
           transaction.id # 0, busy' \in {"options", "passkey"},
           NEW kind, Begin(r, kind, transaction.id)
    PROVE  PendingIs'
  <1>1. PICK x : x = [kind |-> kind, id |-> transaction.id]
    OBVIOUS
  <1>2. requests'[r] = x
    BY <1>1 DEF Begin, AccountInv, RequestInv
  <1>3. x.id = transaction.id
    BY <1>1
  <1> QED BY <1>2, <1>3 DEF PendingIs

LEMMA SignatureAwaited ==
    ASSUME TrustPageInv, NEW r \in Requests, SendSignature(r) PROVE PendingIs'
  <1>1. AccountInv /\ LevelsShown /\ PageShows /\ transaction.id # 0
    BY DEF TrustPageInv, PendingIs, SendSignature, Ceremony
  <1>2. PICK i : i = transactions[transaction.id].walletIntent
    OBVIOUS
  <1>3. PICK x : x = [kind |-> "wallet", id |-> i]
    OBVIOUS
  <1>4. /\ i # 0 /\ requests' = [requests EXCEPT ![r] = x] /\ UNCHANGED <<transaction, bindingIntents>>
        /\ busy' = "wallet" /\ pending' = {r}
    BY <1>2, <1>3 DEF SendSignature, ReceiveWallet, Begin, Sends, trustVars
  <1>5. requests'[r] = x /\ x.id = i
    BY <1>1, <1>3, <1>4 DEF AccountInv, RequestInv
  <1>6. transaction.id \in DOMAIN rows
    BY <1>1 DEF PageShows, Shows
  <1>7. i \in DOMAIN bindingIntents
    BY <1>1, <1>2, <1>4, <1>6 DEF AccountInv, TrustInv, Levels, TrustTypes
  <1>8. bindingIntents[i].binding = transaction.id
    BY <1>1, <1>2, <1>4, <1>6 DEF LevelsShown, ShownOf
  <1> QED BY <1>1, <1>4, <1>5, <1>7, <1>8 DEF PendingIs

LEMMA AwaitedStays ==
    ASSUME TrustPageInv, IntentsStay, UNCHANGED <<busy, pending, transaction>>,
           \A p \in pending : requests'[p] = requests[p]
    PROVE  PendingIs'
  BY DEF TrustPageInv, PendingIs, IntentsStay

(* What another client does of the requests is not of one awaited here. *)
LEMMA OthersLeave ==
    ASSUME TrustPageInv, OtherClients PROVE \A p \in pending : requests'[p] = requests[p]
  <1>1. requests \in [Requests -> Request] /\ pending \subseteq Requests
    BY DEF TrustPageInv, PendingIs, AccountInv, RequestInv
  <1>2. ASSUME NEW r \in Requests \ pending, NEW v, requests' = [requests EXCEPT ![r] = v]
        PROVE  \A p \in pending : requests'[p] = requests[p]
    BY <1>1, <1>2
  <1>3. ASSUME NEW r \in Requests \ pending, Answer(r)
        PROVE  \A p \in pending : requests'[p] = requests[p]
    BY <1>2, <1>3 DEF Answer
  <1>4. ASSUME NEW r \in Requests \ pending, NEW kind, NEW id, Begin(r, kind, id)
        PROVE  \A p \in pending : requests'[p] = requests[p]
    BY <1>2, <1>4 DEF Begin
  <1>5. ASSUME NEW r \in Requests \ pending, OtherAnswer(r)
        PROVE  \A p \in pending : requests'[p] = requests[p]
    <2>1. (RegistrationOptionsMade(r) => Answer(r)) /\ (AuthenticationOptionsMade(r) => Answer(r))
      BY DEF RegistrationOptionsMade, AuthenticationOptionsMade
    <2>2. (WalletVerified(r) => Answer(r)) /\ (RefuseSignature(r) => Answer(r))
      BY DEF WalletVerified, RefuseSignature
    <2>3. \A k \in Credentials : RegistrationVerified(r, k) => Answer(r)
      BY DEF RegistrationVerified
    <2>4. \A n \in 0..MaxCounter : AuthenticationVerified(r, n) => Answer(r)
      BY DEF AuthenticationVerified
    <2> QED BY <1>3, <1>5, <2>1, <2>2, <2>3, <2>4 DEF OtherAnswer
  <1>6. ASSUME NEW r \in Requests \ pending,
               AuthenticationOptions(r) \/ \E k \in Credentials : ReceiveAuthentication(r, k)
        PROVE  \A p \in pending : requests'[p] = requests[p]
    <2>1. CASE AuthenticationOptions(r)
      BY <1>4, <2>1 DEF AuthenticationOptions
    <2>2. ASSUME NEW k \in Credentials, ReceiveAuthentication(r, k)
          PROVE  \A p \in pending : requests'[p] = requests[p]
      BY <1>2, <2>2 DEF ReceiveAuthentication
    <2> QED BY <1>6, <2>1, <2>2
  <1>7. ASSUME NEW r \in Requests \ pending, NEW b \in DOMAIN transactions \ {transaction.id}, OtherClient(b, r)
        PROVE  \A p \in pending : requests'[p] = requests[p]
    <2>1. CASE AssertMockJpki(b) \/ \E w \in Wallets : WalletOptions(b, w)
      BY <2>1 DEF AssertMockJpki, WalletOptions, walletVars
    <2>2. CASE RegistrationOptions(r, b)
      BY <1>4, <2>2 DEF RegistrationOptions
    <2>3. CASE ReceiveRegistration(r, b)
      BY <1>4, <2>3 DEF ReceiveRegistration
    <2>4. CASE ReceiveWallet(r, b)
      BY <1>4, <2>4 DEF ReceiveWallet
    <2> QED BY <1>7, <2>1, <2>2, <2>3, <2>4 DEF OtherClient
  <1>8. CASE (Tick \/ \E k \in ClientKeys : RegisterDemoUser(k)) /\ UNCHANGED trustVars
    BY <1>8 DEF Tick, RegisterDemoUser
  <1>9. CASE BeginBinding
    BY <1>9 DEF BeginBinding, walletVars
  <1> QED BY <1>5, <1>6, <1>7, <1>8, <1>9 DEF OtherClients

LEMMA PendingIsNext ==
    ASSUME TrustPageInv, TrustPageNext, IntentsStay PROVE PendingIs'
  <1>1. AccountInv /\ pending \subseteq Requests /\ (busy \in Ceremony => transaction.id # 0)
    BY DEF TrustPageInv, PendingIs
  <1>2. CASE \/ GiveUp \/ RefreshStatus \/ BeginHere \/ BegunHere \/ AssertHere \/ TrustReload
             \/ \E k \in ClientKeys : EnsureGatewayUser(k)
    <2>1. busy' \in {"none", "user", "begin", "refresh"} /\ pending' \subseteq Requests
      BY <1>1, <1>2 DEF GiveUp, RefreshStatus, BeginHere, BegunHere, AssertHere, TrustReload,
         EnsureGatewayUser, Starts, Button
    <2>2. busy' \notin Ceremony
      BY <2>1 DEF Ceremony
    <2> QED BY <2>1, <2>2, NothingAwaited
  <1>3. ASSUME NEW w \in Wallets, BindWallet(w) PROVE PendingIs'
    BY <1>3, NoneAwaited DEF BindWallet, Starts, Button
  <1>4. ASSUME NEW r \in Requests, TrustPageStep(r) PROVE PendingIs'
    <2>1. CASE \/ VerificationRefused(r) \/ WalletBound(r) \/ AuthenticatePasskey(r)
               \/ StartAuthentication(r)
               \/ (\E k \in Credentials : PasskeyRegistered(r, k) \/ SendAuthentication(r, k))
               \/ \E n \in 0..MaxCounter : Authenticated(r, n)
      <3>1. busy' \in {"none", "refresh", "challenge", "authenticate"} /\ pending' \subseteq Requests
        BY <1>1, <2>1 DEF VerificationRefused, WalletBound, AuthenticatePasskey, StartAuthentication,
           PasskeyRegistered, SendAuthentication, Authenticated, Sends, Continues, Ends, Reads
      <3>2. busy' \notin Ceremony
        BY <3>1 DEF Ceremony
      <3> QED BY <3>1, <3>2, NothingAwaited
    <2>2. CASE RegisterPasskey(r)
      BY <1>1, <2>2, OneAwaited DEF RegisterPasskey, RegistrationOptions, Button, Sends
    <2>3. CASE StartRegistration(r)
      BY <2>3, NoneAwaited DEF StartRegistration, Continues
    <2>4. CASE SendRegistration(r)
      BY <1>1, <2>4, OneAwaited DEF SendRegistration, ReceiveRegistration, Sends, Ceremony
    <2>5. CASE SendSignature(r)
      BY <2>5, SignatureAwaited
    <2> QED BY <1>4, <2>1, <2>2, <2>3, <2>4, <2>5 DEF TrustPageStep
  <1>5. CASE OtherClients /\ UNCHANGED pageVars
    BY <1>5, OthersLeave, AwaitedStays DEF pageVars
  <1> QED BY <1>2, <1>3, <1>4, <1>5 DEF TrustPageNext, TrustPageSteps

LEMMA TrustPageInvNext ==
    TrustPageInv /\ [TrustPageNext]_<<vars, pageVars>> => TrustPageInv' /\ [Next]_vars
  <1> SUFFICES ASSUME TrustPageInv, [TrustPageNext]_<<vars, pageVars>>
               PROVE  TrustPageInv' /\ [Next]_vars
    OBVIOUS
  <1>1. [Next]_vars
    BY TrustPageMoves
  <1>2. AccountInv' /\ LevelsShown' /\ IntentsStay /\ AuditsGrow
    BY <1>1, StepInv, ShownStep DEF TrustPageInv
  <1>3. CASE TrustPageNext
    BY <1>1, <1>2, <1>3, PageShowsNext, PendingIsNext DEF TrustPageInv
  <1>4. CASE UNCHANGED <<vars, pageVars>>
    <2>1. UNCHANGED <<requests, busy, pending, transaction, seen>>
      BY <1>4 DEF vars, walletVars, pageVars
    <2> QED BY <1>1, <1>2, <2>1, PageShowsStill, AwaitedStays DEF TrustPageInv
  <1> QED BY <1>3, <1>4

LEMMA LevelsAll ==
    ASSUME AccountInv, LevelsShown, NEW b \in DOMAIN rows, "ACTIVE" \in audit[b]
    PROVE  audit[b] = States /\ demoUser # NoKey /\ Saved # {} /\ walletAddress # NoWallet
  <1>1. PICK w \in Wallets, i \in DOMAIN bindingIntents :
           bindingIntents[i].used /\ bindingIntents[i].binding = b
    BY DEF LevelsShown, ShownOf, SignedFor
  <1>2. Registered(b)
    BY <1>1 DEF AccountInv, TrustInv, Levels
  <1>3. demoUser # NoKey /\ "CREATED" \in audit[b] /\ audit[b] \subseteq States
    BY DEF AccountInv, TrustInv, TrustTypes, Levels
  <1>4. "WALLET_BOUND" \in audit[b] /\ walletAddress # NoWallet
    BY <1>1 DEF LevelsShown, ShownOf
  <1> QED BY <1>2, <1>3, <1>4 DEF Registered, Asserted, States

(* What AccountTrustDemo.vue shows of a binding was reached and audited in   *)
(* AccountTrustService, and what it shows as completed has every level, for  *)
(* all its lost, refused and overtaken answers and any other tabs.           *)
THEOREM TrustPageIsTrue == TrustPageSpec => []TrustPageTellsTheTruth
  <1>1. Init /\ TrustPageInit => TrustPageInv
    BY TrustPageBegins
  <1>2. TrustPageInv /\ [TrustPageNext]_<<vars, pageVars>> => TrustPageInv'
    BY TrustPageInvNext
  <1>3. TrustPageInv => TrustPageTellsTheTruth
    <2> SUFFICES ASSUME TrustPageInv PROVE TrustPageTellsTheTruth
      OBVIOUS
    <2>1. AccountInv /\ LevelsShown /\ PageShows
      BY DEF TrustPageInv
    <2>2. ASSUME NEW v, Shows(v), v.id # 0
          PROVE  v.state \in audit[v.id] /\ (v.state = "ACTIVE" => audit[v.id] = States)
      BY <2>1, <2>2, LevelsAll DEF Shows
    <2>3. ASSUME NEW v, Shows(v), v.state = "ACTIVE"
          PROVE  demoUser # NoKey /\ Saved # {} /\ walletAddress # NoWallet
      BY <2>1, <2>3, LevelsAll DEF Shows
    <2> QED BY <2>1, <2>2, <2>3 DEF PageShows, TrustPageTellsTheTruth, IsActive, CurrentState
  <1> QED BY <1>1, <1>2, <1>3, PTL DEF TrustPageSpec

(* Every step of the page and of the other tabs is a step of the account or  *)
(* leaves it as it is: AssuranceIsEarned, RowsTellTheTruth and               *)
(* CapabilityFollowsSupport hold beside them.                                *)
THEOREM TrustPageOwnsNothing == TrustPageSpec => Spec
  <1>1. Init /\ TrustPageInit => TrustPageInv
    BY TrustPageBegins
  <1>2. TrustPageInv /\ [TrustPageNext]_<<vars, pageVars>> => TrustPageInv' /\ [Next]_vars
    BY TrustPageInvNext
  <1> QED BY <1>1, <1>2, PTL DEF TrustPageSpec, Spec
=============================================================================
