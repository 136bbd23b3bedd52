---------------------------- MODULE SupporterSBT ----------------------------
(***************************************************************************)
(* The supporter credential, SupporterSBTUpgradeable: early policies,      *)
(* credentials, the active token of a holder for a creator, nonces.        *)
(*                                                                         *)
(* Holders sign intents off chain; whoever has RELAYER_ROLE submits them,  *)
(* at any time and any number of times.  Roles are left out: the           *)
(* environment is whoever holds the role.  The consent version is part of  *)
(* what is signed and never read again, so it is left out too.             *)
(***************************************************************************)
EXTENDS Integers, FiniteSets

CONSTANTS
    Creators, Holders, NoCreator, NoHolder,
    Lifetimes,                                    \* how long wallets let an intent live
    Policies,                                     \* what setEarlyPolicy is called with
    MaxTime, MaxTokens, MaxVersion, MaxIntents    \* bounds of the model

ASSUME SupporterAssumption ==
    /\ NoCreator \notin Creators /\ NoHolder \notin Holders
    /\ Lifetimes \subseteq Nat /\ Policies \subseteq [until : Nat, max : Nat, active : BOOLEAN]
    /\ MaxTime \in Nat /\ MaxTokens \in Nat /\ MaxVersion \in Nat /\ MaxIntents \in Nat

Tokens == 1..MaxTokens
Intents == [creator : Creators, holder : Holders, nonce : Nat, deadline : Nat]

NoPolicy == [until |-> 0, max |-> 0, issued |-> 0, version |-> 0, active |-> FALSE]
NoCredential == [creator |-> NoCreator, tier |-> "NONE", policyVersion |-> 0,
                 issuedAt |-> 0, active |-> FALSE]
NoIntent == [creator |-> NoCreator, holder |-> NoHolder, nonce |-> 0, deadline |-> 0]

VARIABLES
    now,             \* block.timestamp
    earlyPolicies,
    nextTokenId, credentials, activeTokenOf, nonces,
    owners,          \* ERC-721's owner of a token, NoHolder before its mint and after its burn
    signed,          \* the intents signed so far
    intentOf         \* history: the intent a token was minted from

tokenVars == <<nextTokenId, credentials, activeTokenOf, nonces, owners, intentOf>>
sbtVars == <<now, earlyPolicies, tokenVars, signed>>

SbtInit ==
    /\ now = 1
    /\ earlyPolicies = [c \in Creators |-> NoPolicy]
    /\ nextTokenId = 1
    /\ credentials = [t \in Tokens |-> NoCredential]
    /\ activeTokenOf = [c \in Creators |-> [h \in Holders |-> 0]]
    /\ nonces = [h \in Holders |-> 0]
    /\ owners = [t \in Tokens |-> NoHolder]
    /\ signed = {}
    /\ intentOf = [t \in Tokens |-> NoIntent]

Tick ==
    /\ now < MaxTime
    /\ now' = now + 1
    /\ UNCHANGED <<earlyPolicies, tokenVars, signed>>

(* A wallet signs with the nonce it reads from the contract. *)
SignIntent(c, h, lifetime) ==
    /\ Cardinality(signed) < MaxIntents
    /\ signed' = signed \cup
           {[creator |-> c, holder |-> h, nonce |-> nonces[h], deadline |-> now + lifetime]}
    /\ UNCHANGED <<now, earlyPolicies, tokenVars>>

(* A new version keeps the number issued. *)
SetEarlyPolicy(c, policy) ==
    /\ earlyPolicies[c].version < MaxVersion
    /\ policy.active => policy.until > now /\ policy.max # 0
    /\ earlyPolicies' = [earlyPolicies EXCEPT ![c] =
           [until |-> policy.until, max |-> policy.max, issued |-> @.issued,
            version |-> @.version + 1, active |-> policy.active]]
    /\ UNCHANGED <<now, tokenVars, signed>>

Mut_OneMore(c) ==
    /\ earlyPolicies[c].active /\ now <= earlyPolicies[c].until
    /\ earlyPolicies[c].issued <= earlyPolicies[c].max
IsEarly(c) ==
    /\ earlyPolicies[c].active /\ now <= earlyPolicies[c].until
    /\ earlyPolicies[c].issued < earlyPolicies[c].max

OneIssued(policy) == [policy EXCEPT !.issued = @ + 1]

Mut_Replayed(i) == now <= i.deadline /\ activeTokenOf[i.creator][i.holder] = 0 /\ i \in signed
Registrable(i) ==
    /\ now <= i.deadline
    /\ i.nonce = nonces[i.holder]
    /\ activeTokenOf[i.creator][i.holder] = 0
    /\ i \in signed

(* _nextTokenId++: the number of a burned token is not used again. *)
Mut_TotalSupply == Cardinality({t \in Tokens : owners[t] # NoHolder}) + 1
NewToken == nextTokenId

RegisterSupporterWithSignature(i) ==
    /\ Registrable(i)
    /\ NewToken \in Tokens
    /\ nonces' = [nonces EXCEPT ![i.holder] = @ + 1]
    /\ earlyPolicies' = IF IsEarly(i.creator)
                        THEN [earlyPolicies EXCEPT ![i.creator] = OneIssued(@)] ELSE earlyPolicies
    /\ nextTokenId' = NewToken + 1
    /\ credentials' = [credentials EXCEPT ![NewToken] =
           [creator |-> i.creator,
            tier |-> IF IsEarly(i.creator) THEN "EARLY_SUPPORTER" ELSE "SUPPORTER",
            policyVersion |-> earlyPolicies[i.creator].version,
            issuedAt |-> now, active |-> TRUE]]
    /\ activeTokenOf' = [activeTokenOf EXCEPT ![i.creator][i.holder] = NewToken]
    /\ owners' = [owners EXCEPT ![NewToken] = i.holder]
    /\ intentOf' = [intentOf EXCEPT ![NewToken] = i]
    /\ UNCHANGED <<now, signed>>

(* What revoke and burn do to an active credential. *)
Mut_ForgetHolder(t) == activeTokenOf
Released(t) == [activeTokenOf EXCEPT ![credentials[t].creator][owners[t]] = 0]

Revoke(t) ==
    /\ credentials[t].active /\ owners[t] # NoHolder
    /\ credentials' = [credentials EXCEPT ![t].active = FALSE]
    /\ activeTokenOf' = Released(t)
    /\ UNCHANGED <<now, earlyPolicies, nextTokenId, nonces, owners, signed, intentOf>>

(* By the holder or the revoker; a revoked credential's token can be burned. *)
Burn(t) ==
    /\ owners[t] # NoHolder
    /\ IF credentials[t].active
       THEN /\ credentials' = [credentials EXCEPT ![t].active = FALSE]
            /\ activeTokenOf' = Released(t)
       ELSE UNCHANGED <<credentials, activeTokenOf>>
    /\ owners' = [owners EXCEPT ![t] = NoHolder]
    /\ UNCHANGED <<now, earlyPolicies, nextTokenId, nonces, signed, intentOf>>

(* Everything that happens without a transaction of a relayer. *)
Environment ==
    \/ Tick
    \/ \E c \in Creators :
        \/ \E h \in Holders, lifetime \in Lifetimes : SignIntent(c, h, lifetime)
        \/ \E policy \in Policies : SetEarlyPolicy(c, policy)
    \/ \E t \in Tokens : Revoke(t) \/ Burn(t)

SbtNext == Environment \/ \E i \in signed : RegisterSupporterWithSignature(i)

SbtSpec == SbtInit /\ [][SbtNext]_sbtVars

-----------------------------------------------------------------------------
(* Every mapping holds values of its type; tokens not minted are blank.      *)
SbtTypeOK ==
    /\ now \in Nat
    /\ earlyPolicies \in [Creators -> [until : Nat, max : Nat, issued : Nat, version : Nat,
                                       active : BOOLEAN]]
    /\ nextTokenId \in 1..(MaxTokens + 1)
    /\ credentials \in [Tokens -> [creator : Creators \cup {NoCreator},
                                   tier : {"NONE", "SUPPORTER", "EARLY_SUPPORTER"},
                                   policyVersion : Nat, issuedAt : Nat, active : BOOLEAN]]
    /\ activeTokenOf \in [Creators -> [Holders -> {0} \cup Tokens]]
    /\ nonces \in [Holders -> Nat]
    /\ owners \in [Tokens -> Holders \cup {NoHolder}]
    /\ signed \subseteq Intents
    /\ intentOf \in [Tokens -> Intents \cup {NoIntent}]
    /\ \A t \in Tokens : t >= nextTokenId =>
           credentials[t] = NoCredential /\ owners[t] = NoHolder /\ intentOf[t] = NoIntent

(* REQ-EARLY-SUPPORTER-033: a holder has one active credential for a creator *)
(* and activeTokenOf names it, through revocations, burns and registrations  *)
(* anew; an active credential is owned by the holder who signed for it.      *)
OneActiveCredential ==
    \A t \in Tokens, c \in Creators, h \in Holders :
        activeTokenOf[c][h] = t <=>
            credentials[t].active /\ credentials[t].creator = c /\ owners[t] = h

(* REQ-EARLY-SUPPORTER-007, -036: a credential once issued keeps its creator,*)
(* tier, policy version and time under every later policy; it never becomes  *)
(* active again, and its token never passes to another holder.               *)
CredentialsOnlyEndStep ==
    \A t \in Tokens : credentials[t].tier # "NONE" =>
        /\ credentials'[t] \in {credentials[t], [credentials[t] EXCEPT !.active = FALSE]}
        /\ owners'[t] \in {owners[t], NoHolder}
CredentialsOnlyEnd == [][CredentialsOnlyEndStep]_sbtVars

EarlyTokens(c) ==
    {t \in Tokens : credentials[t].creator = c /\ credentials[t].tier = "EARLY_SUPPORTER"}
EarlyCount(c) == Cardinality(EarlyTokens(c))

(* An early credential is issued only while all ever issued for the creator, *)
(* over every version of the policy and including revoked and burned ones,   *)
(* are fewer than the cap in force, and the policy is active and not over.   *)
EarlyIsCappedStep ==
    \A c \in Creators : EarlyCount(c)' > EarlyCount(c) =>
        /\ earlyPolicies[c].active /\ now <= earlyPolicies[c].until
        /\ EarlyCount(c) < earlyPolicies[c].max
EarlyIsCapped == [][EarlyIsCappedStep]_sbtVars

(* REQ-EARLY-SUPPORTER-034: an intent mints at most once, however often it   *)
(* is submitted and although its credential was revoked or burned meanwhile. *)
IntentMintsOnce ==
    \A t, u \in 1..(nextTokenId - 1) :
        intentOf[t].holder = intentOf[u].holder /\ intentOf[t].nonce = intentOf[u].nonce => t = u

(* A credential is what its first holder signed, issued before the deadline. *)
CredentialsWereSigned ==
    \A t \in 1..(nextTokenId - 1) :
        /\ intentOf[t] \in signed
        /\ credentials[t].creator = intentOf[t].creator
        /\ credentials[t].issuedAt <= intentOf[t].deadline

(* An intent is honoured once, by what it says and when it says so.          *)
IntentsAreHonoured == IntentMintsOnce /\ CredentialsWereSigned
=============================================================================
